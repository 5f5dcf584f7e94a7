------------------------------ MODULE DemoCalls ------------------------------
(***************************************************************************)
(* The calls of main.cpp's one pipeline, as it is compiled: VARS = 4,      *)
(* CUBES = 2, K = 3, and a result of 26 bits.                              *)
(***************************************************************************)
EXTENDS PipelineCalls

DemoVars == 4
DemoCubes == 2
DemoTrials == 3
DemoWidth == DemoVars + bits_for(DemoCubes * DemoCubes) + 17 + bits_for(DemoTrials)

DemoCalls ==
    LET blocks == Pipeline("vazirani", DemoCubes, DemoTrials, DemoWidth)
        calls == FlattenSeq([n \in DOMAIN blocks |-> blocks[n].calls])
    IN  [n \in DOMAIN calls |-> [call |-> calls[n]]]

(***************************************************************************)
(* Mutants: each party makes the input calls of its own inputs only; ALICE *)
(* leaves out BOB's input to the last trial.                               *)
(***************************************************************************)
DemoScript_own(alice, bob) ==
    [p \in {alice, bob} |->
        LET Own(step) ==
                step.call # IF p = alice THEN "bob_input" ELSE "alice_input"
        IN  SelectSeq(DemoCalls, Own)]

DemoScript_one_short(alice, bob) ==
    LET last == SelectLastInSeq(DemoCalls, LAMBDA step : step.call = "bob_input")
    IN  [p \in {alice, bob} |-> IF p = alice THEN RemoveAt(DemoCalls, last) ELSE DemoCalls]

(***************************************************************************)
(* Both parties run both input loops.                                      *)
(***************************************************************************)
DemoScript(alice, bob) == [p \in {alice, bob} |-> DemoCalls]
=============================================================================
