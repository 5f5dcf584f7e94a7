---------------------------- MODULE MCBenchSweep ----------------------------
(***************************************************************************)
(* The smallest point of the sweep and the largest, whose result takes two *)
(* slices.                                                                 *)
(***************************************************************************)
EXTENDS BenchSweep, SweepCalls

Points == <<<<4, 4>>, <<64, 64>>>>
SweepProgram == SweepScript(Points, ALICE, BOB)

(***************************************************************************)
(* One party with a hard limit below 256 MiB, the other without a limit.   *)
(***************************************************************************)
Unlimited == 1000000
Limits ==
    {[p \in Party |-> [soft |-> 8, hard |-> IF p = ALICE THEN 64 ELSE Unlimited]]}
=============================================================================
