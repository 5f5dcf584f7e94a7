CONSTANTS
    ALICE = ALICE
    BOB = BOB
    Script <- DemoProgram
    Capacity = 3
SPECIFICATION Spec
CHECK_DEADLOCK FALSE
INVARIANTS
    MessagesMatchCalls
    NeverBothWait
    SuccessMeansBoth
    HangsOnlyAfterRefusal
PROPERTIES
    ImplementsJointEstimate
