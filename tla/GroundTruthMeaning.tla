------------------------- MODULE GroundTruthMeaning -------------------------
(***************************************************************************)
(* What the answer of run_pepin_sanity_check is about, told with the       *)
(* meaning that DimacsMeaning gives to a file.                             *)
(***************************************************************************)
EXTENDS GroundTruth

CONSTANTS Junk, Huge    \* unreadable tokens, which are never written

ASSUME UnreadableAssumption == Junk \notin Int /\ Huge \notin Int /\ Junk # Huge

(***************************************************************************)
(* A reader of files with up to CUBES^2 cubes.                             *)
(***************************************************************************)
Reader ==
    INSTANCE DimacsMeaning
        WITH CUBES <- CUBES * CUBES, FILES <- {},
             file <- temp, next <- 0, rest <- <<>>, dnf <- <<>>,
             have_header <- FALSE, file_vars <- 0, cube_count <- 0,
             current <- ZeroCube, literals_in_current <- 0, error <- "none"

FileModels(f) == Reader!FileModels(f)

DnfModels(d) == UNION {Models(d[k]) : k \in Inputs}
Intersection == DnfModels(alice) \cap DnfModels(bob)

(***************************************************************************)
(* What pepin counts is the intersection of the parties' DNFs, in a file   *)
(* that the project's own parser would accept, unless a write failed: then *)
(* it may count less, and no one is told.                                  *)
(***************************************************************************)
TruthIsIntersection ==
    pc = "returned" /\ result.kind = "counted" =>
        /\ FileModels(result.file) \subseteq Intersection
        /\ result.file = write_dimacs_dnf(conjunction) =>
              Reader!WellFormed(result.file) /\ FileModels(result.file) = Intersection

(***************************************************************************)
(* The count is skipped and 0 returned exactly for an empty intersection:  *)
(* pepin is never given a file that declares no cube.                      *)
(***************************************************************************)
ZeroWhenEmpty ==
    pc = "returned" =>
        /\ result.kind = "zero" => Intersection = {}
        /\ result.kind = "counted" => Intersection # {}
=============================================================================
