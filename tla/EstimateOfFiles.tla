--------------------------- MODULE EstimateOfFiles ---------------------------
(***************************************************************************)
(* The circuit's inputs and the files behind them: main.cpp hands to the   *)
(* pipeline what parse returned of each party's file, and what is revealed *)
(* is an estimate of what the files say.                                   *)
(***************************************************************************)
EXTENDS CoverageDistribution

CONSTANTS NoFile, Junk, Huge    \* as in DimacsParser

(***************************************************************************)
(* What a file means, and the arrays that parse may return of it.          *)
(***************************************************************************)
Reader ==
    INSTANCE DimacsMeaning
        WITH FILES <- {}, pc <- "open", file <- NoFile, next <- 0, rest <- <<>>,
             dnf <- <<>>, have_header <- FALSE, file_vars <- 0, cube_count <- 0,
             current <- ZeroCube, literals_in_current <- 0, error <- "none"

(***************************************************************************)
(* ALICE feeds in what she parsed of fa, and BOB what he parsed of fb.     *)
(***************************************************************************)
FedFrom(fa, fb) ==
    AliceDnfs \subseteq Reader!Parses(fa) /\ BobDnfs \subseteq Reader!Parses(fb)

(***************************************************************************)
(* The assignments that satisfy both files.                                *)
(***************************************************************************)
Counted(fa, fb) == Reader!FileModels(fa) \cap Reader!FileModels(fb)

(***************************************************************************)
(* No assignment satisfies two different pairs of the files' cubes.        *)
(***************************************************************************)
CubePairs(fa, fb) ==
    (0 .. Reader!CubeCount(Reader!Stream(fa)) - 1)
        \X (0 .. Reader!CubeCount(Reader!Stream(fb)) - 1)
CommonModels(fa, fb, pair) ==
    Reader!CubeModels(Reader!Stream(fa), pair[1])
        \cap Reader!CubeModels(Reader!Stream(fb), pair[2])
DisjointFiles(fa, fb) ==
    \A x, y \in CubePairs(fa, fb) :
        x # y => CommonModels(fa, fb, x) \cap CommonModels(fa, fb, y) = {}

(***************************************************************************)
(* What the estimate says of the files.  Files with nothing in common are  *)
(* revealed as 0, and only they by Vazirani's estimator up to its capacity;*)
(* disjoint files are counted exactly; and over all the draws of a trial   *)
(* the outcomes add up to 2^VARS times the count.                          *)
(***************************************************************************)
EmptyFilesRevealZero(fa, fb) ==
    pc = "done" =>
        /\ Counted(fa, fb) = {} => revealed = 0
        /\ /\ Algorithm = "vazirani" /\ PRODUCT < 2 * kDivideLookupScale
           /\ revealed = 0
           => Counted(fa, fb) = {}
DisjointFilesAreCounted(fa, fb) ==
    pc = "done" /\ DisjointFiles(fa, fb)
        => revealed = K * Scale * Cardinality(Counted(fa, fb))
OutcomesCountFiles(fa, fb) ==
    ReadyToSample =>
        LET drawn == SumFunction([d \in Draws |-> TrialOutcome(d[1], d[2])])
            counted == Scale * 2^VARS * Cardinality(Counted(fa, fb))
        IN  IF Algorithm = "vazirani"
            THEN 2 * (drawn - counted) \in -(total * 2^VARS) .. total * 2^VARS
            ELSE drawn = counted
=============================================================================
