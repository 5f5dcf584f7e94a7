------------------------- MODULE MCCoveragePipeline -------------------------
(***************************************************************************)
(* Small instances of CoveragePipeline: the sets of DNFs that the parties' *)
(* files may hold.                                                         *)
(***************************************************************************)
EXTENDS CoverageDistribution, CoverageRefinement, SequencesExt

CONSTANTS x1, x2, x3

OneVar == {x1}
TwoVars == {x1, x2}
ThreeVars == {x1, x2, x3}

(***************************************************************************)
(* The cube that fixes the variables of pos to 1 and those of neg to 0.    *)
(***************************************************************************)
Lits(pos, neg) == [bits |-> pos, mask |-> pos \cup neg, pad |-> FALSE]

(***************************************************************************)
(* The array parse returns for a file with the cubes of the sequence.      *)
(***************************************************************************)
File(cubes) == [k \in Inputs |-> IF k < Len(cubes) THEN cubes[k + 1] ELSE PadCube]

AllDnfs == {File(s) : s \in BoundedSeq(RealCubes, CUBES)}
=============================================================================
