------------------------- MODULE CoverageRefinement -------------------------
(***************************************************************************)
(* The circuit implements the coverage algorithm, for the sets of models   *)
(* of the pairs of the parties' cubes.  Feeding the cubes in is the Load   *)
(* step, the write of a trial's outcome its Trial step; every other step   *)
(* of the circuit but the last leaves the abstract state alone.            *)
(***************************************************************************)
EXTENDS CoveragePipeline

Abstract == INSTANCE CoverageAlgorithm WITH
    Points    <- Assignments,
    Blocks    <- Pairs,
    Canonical <- Algorithm = "karp_luby",
    Unit      <- Scale,
    phase     <- IF pc = "input" THEN "load"
                 ELSE IF pc = "done" THEN "done" ELSE "sample",
    sets      <- [k \in Pairs |-> IF pc = "input" THEN {} ELSE PairModels(k)],
    t         <- t,
    scores    <- outcomes,
    result    <- revealed

(***************************************************************************)
(* Every behaviour of the circuit is one of the coverage algorithm.        *)
(***************************************************************************)
ImplementsCoverageAlgorithm == Abstract!Spec
=============================================================================
