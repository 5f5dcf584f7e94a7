----------------------------- MODULE SweepCalls -----------------------------
(***************************************************************************)
(* The program of bench_compare: at every sweep point, run_one for each of *)
(* the two pipelines, at epsilon 0.8 and delta 0.2.                        *)
(*                                                                         *)
(* A run has as many trials and cubes as the source computes for it, and   *)
(* its result is that wide; of its loops only MaxTrials and MaxCubes turns *)
(* are scripted.                                                           *)
(***************************************************************************)
EXTENDS PipelineCalls

CONSTANTS MaxTrials, MaxCubes

ASSUME TurnsAssumption == MaxTrials \in Nat /\ MaxCubes \in Nat

AtMost(bound, n) == IF n < bound THEN n ELSE bound

(***************************************************************************)
(* ceil(c * (N - 1) / epsilon^2) for N = cubes^2.  At delta = 0.2 the      *)
(* smaller c is Chebyshev's 1/delta = 5, not 3 * ln(2/delta), so that the  *)
(* factor is 5 / 0.64 = 125/16.                                            *)
(***************************************************************************)
coverage_trials(cubes) == (125 * (cubes * cubes - 1) + 15) \div 16

ResultWidth(algorithm, vars, cubes, k) ==
    vars + bits_for(cubes * cubes)
    + IF algorithm = "vazirani" THEN 17 + bits_for(k) ELSE bits_for(k + 1)

Run(algorithm, vars, cubes) ==
    LET k == coverage_trials(cubes)
    IN  [algorithm |-> algorithm, vars |-> vars, cubes |-> cubes, k |-> k,
         width |-> ResultWidth(algorithm, vars, cubes, k)]

(***************************************************************************)
(* io->sync().  Mutants: it is left out; both parties read first.          *)
(***************************************************************************)
Sync_left_out == [server |-> <<>>, client |-> <<>>]
Sync_reads_first ==
    [server |-> <<"pong", "ping">>, client |-> <<"ping", "pong">>]
Sync == [server |-> <<"ping", "pong">>, client |-> <<"ping", "pong">>]

(***************************************************************************)
(* measure() looks at the counters before a phase and after it.            *)
(***************************************************************************)
Measured(block) == <<"enter">> \o block.calls \o <<"leave">>

RunOne(run, sync) ==
    LET Setup == <<"generate", "pepin">> \o sync \o <<"start">>
        Step(call, phase) == [call |-> call, phase |-> phase, run |-> run]
        Steps(calls, phase) == [n \in DOMAIN calls |-> Step(calls[n], phase)]
        blocks == Pipeline(run.algorithm, AtMost(MaxCubes, run.cubes),
                           AtMost(MaxTrials, run.k), run.width)
    IN  Steps(Setup, "setup")
        \o FlattenSeq([n \in DOMAIN blocks |->
                          Steps(Measured(blocks[n]), blocks[n].phase)])
        \o Steps(<<"report">>, "report")

RunBoth(point, sync) ==
    RunOne(Run("vazirani", point[1], point[2]), sync)
    \o RunOne(Run("karp_luby", point[1], point[2]), sync)

SweepCallsOf(points, sync) ==
    FlattenSeq([n \in DOMAIN points |-> RunBoth(points[n], sync)])
SweepScript(points, alice, bob) ==
    [p \in {alice, bob} |->
        SweepCallsOf(points, IF p = alice THEN Sync.server ELSE Sync.client)]
=============================================================================
