--------------------------- MODULE TwoPartySession ---------------------------
(***************************************************************************)
(* main.cpp, started twice by run.sh: ALICE in the background, BOB 0.3 s   *)
(* later, and then the wait for both.                                      *)
(***************************************************************************)
EXTENDS PartyLink

VARIABLES
    shell,  \* "begin", "sleep", "wait", "exited"
    built,  \* whether build/sh2pc_demo is executable
    status  \* run.sh's exit status

sessionVars == <<shell, built, status>>
vars == <<linkVars, sessionVars>>

Init ==
    /\ LinkInit
    /\ shell = "begin" /\ built \in BOOLEAN /\ status = 0

NotBuilt ==
    /\ shell = "begin" /\ ~built
    /\ shell' = "exited" /\ status' = 1
    /\ UNCHANGED <<linkVars, built>>

StartAlice ==
    /\ shell = "begin" /\ built
    /\ Launch(ALICE)
    /\ shell' = "sleep"
    /\ UNCHANGED <<built, status>>

(***************************************************************************)
(* Mutant: BOB is started only if ALICE has not failed by then.            *)
(***************************************************************************)
StartBob_if_alice ==
    /\ shell = "sleep" /\ proc[ALICE] # "failed"
    /\ Launch(BOB)
    /\ shell' = "wait"
    /\ UNCHANGED <<built, status>>

StartBob ==
    /\ shell = "sleep"
    /\ Launch(BOB)
    /\ shell' = "wait"
    /\ UNCHANGED <<built, status>>

Exited(p) == proc[p] \in {"finished", "failed"}
ExitStatus(p) == IF proc[p] = "failed" THEN 1 ELSE 0

(***************************************************************************)
(* Mutant: only BOB is waited for.                                         *)
(***************************************************************************)
Wait_for_bob ==
    /\ shell = "wait" /\ Exited(BOB)
    /\ shell' = "exited" /\ status' = ExitStatus(BOB)
    /\ UNCHANGED <<linkVars, built>>

(***************************************************************************)
(* wait takes the status of the last process it is given.                  *)
(***************************************************************************)
Wait ==
    /\ shell = "wait" /\ \A p \in Party : Exited(p)
    /\ shell' = "exited" /\ status' = ExitStatus(BOB)
    /\ UNCHANGED <<linkVars, built>>

Main(p) == PartyStep(p) /\ UNCHANGED sessionVars
Connect == Join /\ UNCHANGED sessionVars

Next ==
    \/ NotBuilt \/ StartAlice \/ StartBob \/ Wait
    \/ Connect \/ \E p \in Party : Main(p)

(***************************************************************************)
(* The shell and each process are scheduled, and a connection that is both *)
(* listened for and tried comes about.                                     *)
(***************************************************************************)
Fairness ==
    /\ WF_vars(NotBuilt \/ StartAlice \/ StartBob \/ Wait)
    /\ WF_vars(Connect)
    /\ \A p \in Party : WF_vars(Main(p))

Spec == Init /\ [][Next]_vars /\ Fairness
-----------------------------------------------------------------------------
(***************************************************************************)
(* The type invariant.                                                     *)
(***************************************************************************)
TypeOK ==
    /\ LinkTypeOK
    /\ shell \in {"begin", "sleep", "wait", "exited"}
    /\ built \in BOOLEAN /\ status \in {0, 1}

(***************************************************************************)
(* The two processes together promise what JointEstimate does: no one ends *)
(* with an estimate when either file is bad, both do when both are good.   *)
(***************************************************************************)
Joint ==
    INSTANCE JointEstimate
        WITH good <- [p \in Party |-> built /\ ready[p]],
             knows <- {p \in Party : proc[p] = "finished"}
ImplementsJointEstimate == Joint!Spec

(***************************************************************************)
(* run.sh reports success only when both parties have printed the          *)
(* estimate, though it takes the status of BOB alone.                      *)
(***************************************************************************)
SuccessMeansBoth ==
    shell = "exited" /\ status = 0 => \A p \in Party : proc[p] = "finished"

(***************************************************************************)
(* The only way to hang: one party was refused its file and has exited,    *)
(* and the other, whose file is good, waits to be connected.               *)
(***************************************************************************)
Hangs == ~ENABLED Next /\ shell # "exited"
HangsOnlyAfterRefusal ==
    Hangs => \E p \in Party : proc[p] = "failed" /\ proc[Peer(p)] = "opening"
=============================================================================
