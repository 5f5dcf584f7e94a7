---------------------------- MODULE MCGroundTruth ----------------------------
(***************************************************************************)
(* Small instances of GroundTruth.                                         *)
(***************************************************************************)
EXTENDS GroundTruthMeaning

TwoVars == 1..2

(***************************************************************************)
(* The generator's pairs without a cap: any cubes, and no filler.          *)
(***************************************************************************)
GeneratedPairs == [Inputs -> RealCubes] \X [Inputs -> RealCubes]
=============================================================================
