------------------------ MODULE CoverageDistribution ------------------------
(***************************************************************************)
(* Properties of the estimators that are about all the draws of a trial    *)
(* together: counting the draws that give each outcome states, without a   *)
(* probability in sight, what the estimate is on average.                  *)
(***************************************************************************)
EXTENDS CoveragePipeline, FiniteSetsExt

JointWords == 0 .. 2^TotalWidth - 1

(***************************************************************************)
(* The state in which the circuit is about to draw its first sample.       *)
(***************************************************************************)
ReadyToSample == pc = "sample_in_range" /\ t = 0 /\ total > 0

(***************************************************************************)
(* What a trial that samples zz and fills with r records: in either        *)
(* pipeline its gadgets from the sample to the outcome.                    *)
(***************************************************************************)
TrialOutcome(zz, r) ==
    LET idx == select_cube_index(zz, intervals)
        a == random_assignment(cube_at_index(idx, conjunction), r)
    IN  IF Algorithm = "vazirani"
        THEN divide_lookup(count_satisfied_cubes(a, conjunction))
        ELSE IF \E k \in 0 .. idx - 2 : satisfied(a, conjunction[k])
             THEN 0 ELSE 1

(***************************************************************************)
(* The draws of a trial that samples uniformly on [1, total].              *)
(***************************************************************************)
Draws == (1..total) \X Assignments

(***************************************************************************)
(* The coverage theorem behind both estimators, for a sample that is       *)
(* uniform on [1, total]: over all samples and fills, the outcomes add up  *)
(* to 2^VARS times the count.  Karp-Luby's does so exactly; Vazirani's     *)
(* within half a unit of the lookup table per draw.                        *)
(***************************************************************************)
CoverageTheorem ==
    ReadyToSample =>
        LET drawn == SumFunction([d \in Draws |-> TrialOutcome(d[1], d[2])])
            counted == Scale * 2^VARS * Cardinality(Intersection)
        IN  IF Algorithm = "vazirani"
            THEN 2 * (drawn - counted) \in -(total * 2^VARS) .. total * 2^VARS
            ELSE drawn = counted

WordsOf(zz) == {r \in JointWords : sample_in_range(r, total) = {zz}}

(***************************************************************************)
(* sample_in_range reaches every z in [1, total] and nothing else, and     *)
(* the number of joint words that give one z and another differ by at most *)
(* one.                                                                    *)
(***************************************************************************)
EverySampleReached ==
    ReadyToSample =>
        LET least == 2^TotalWidth \div total
        IN  /\ least > 0
            /\ \A zz \in 1..total : Cardinality(WordsOf(zz)) \in {least, least + 1}
            /\ JointWords = UNION {WordsOf(zz) : zz \in 1..total}

(***************************************************************************)
(* select_cube.h: "Joint uniform sample in [1, total]".                    *)
(***************************************************************************)
SampleUniform ==
    ReadyToSample =>
        \A z1, z2 \in 1..total : Cardinality(WordsOf(z1)) = Cardinality(WordsOf(z2))

(***************************************************************************)
(* Nothing is lost to the widths of VaziraniSum, GoodCount and the         *)
(* estimate: what is revealed is the exact product of the weight and the   *)
(* sum of all K outcomes.                                                  *)
(***************************************************************************)
RevealedIsExactProduct ==
    pc = "done" => revealed = total * SumFunction(outcomes)

(***************************************************************************)
(* dimacs_dnf.h: a filler cube is "an always-true, unconstrained cube", so *)
(* that it is "harmless even if a caller forgets to check pad".  The       *)
(* estimators' check never looks at pad.                                   *)
(***************************************************************************)
FillerIsAlwaysTrue ==
    pc \in Assigned =>
        \A k \in Inputs : alice_cubes[k].pad => satisfied(assignment, alice_cubes[k])

(***************************************************************************)
(* divide_lookup.h: "relative error <= 2^-16 ~ 1.5e-5 per table entry".    *)
(* Against the exact SCALE / count that is an error of at most             *)
(* SCALE / 2^16, which is 1, once both are multiplied by the count.        *)
(***************************************************************************)
ReciprocalWithinDocumentedError ==
    pc = "divide_lookup" /\ total > 0 =>
        satisfied_count * divide_lookup(satisfied_count) - kDivideLookupScale \in -1..1
=============================================================================
