-------------------------- MODULE CoveragePipeline --------------------------
(***************************************************************************)
(* run_vazirani_pipeline and run_karp_luby_pipeline: the circuit that the  *)
(* two parties evaluate together, from the cubes each feeds in to the one  *)
(* number that is revealed.  The two functions are the same code up to     *)
(* random_assignment; Algorithm says which of them runs.                   *)
(*                                                                         *)
(* Both parties execute the same gates in the same order, so the circuit   *)
(* is one sequential machine.  A gadget whose loop carries a value from    *)
(* one iteration to the next takes one step per iteration; a gadget that   *)
(* maps its inputs takes one step.  Arrays are indexed from 0, as in the   *)
(* source.                                                                 *)
(***************************************************************************)
EXTENDS DnfCubes

CONSTANTS
    K,          \* number of trials
    Algorithm,  \* "vazirani" or "karp_luby" (the adapters' kName)
    AliceDnfs,  \* the DNFs that ALICE's file may hold
    BobDnfs     \* the DNFs that BOB's file may hold

PRODUCT == CUBES * CUBES
Pairs == 0 .. PRODUCT - 1
Trials == 0 .. K - 1

ASSUME TrialsAssumption == K \in Nat \ {0}
ASSUME AlgorithmAssumption == Algorithm \in {"vazirani", "karp_luby"}
ASSUME DnfsAssumption ==
    AliceDnfs \subseteq ParsedDnfs /\ BobDnfs \subseteq ParsedDnfs

(***************************************************************************)
(* Widths: DnfWeight and SampleBits, CubeIndex, SatisfiedCount, then       *)
(* VaziraniSum or GoodCount, and the product of the last with DnfWeight.   *)
(***************************************************************************)
TotalWidth == VARS + bits_for(PRODUCT)
IndexWidth == bits_for(PRODUCT + 1)
CountWidth_short == bits_for(PRODUCT - 1)   \* mutant: PRODUCT itself wraps
CountWidth == bits_for(PRODUCT)

kDivideLookupScaleBits == 16
kDivideLookupScale == 2^kDivideLookupScaleBits

SumWidth_of_one ==                          \* mutant: as wide as one term
    IF Algorithm = "vazirani" THEN kDivideLookupScaleBits + 1 ELSE 1

SumWidth == IF Algorithm = "vazirani"
            THEN kDivideLookupScaleBits + 1 + bits_for(K)
            ELSE bits_for(K + 1)
EstimateWidth == TotalWidth + SumWidth

(***************************************************************************)
(* conjoin_dnf: every cube of d1 with every cube of d2, row by row.        *)
(***************************************************************************)
conjoin_dnf(d1, d2) ==
    [idx \in Pairs |-> conjoin(d1[idx \div CUBES], d2[idx % CUBES])]

(***************************************************************************)
(* The values (joint_r % total) + 1 can take.  A remainder by zero is      *)
(* whatever the divider circuit of the toolkit leaves.                     *)
(***************************************************************************)
Remainders(joint_r, tot) ==
    IF tot = 0 THEN 0 .. 2^TotalWidth - 1 ELSE {joint_r % tot}

(***************************************************************************)
(* Mutants: the + 1 is forgotten; the + 1 is done in a wider word.         *)
(***************************************************************************)
sample_from_zero(joint_r, tot) == Remainders(joint_r, tot)
sample_unwrapped(joint_r, tot) == {rem + 1 : rem \in Remainders(joint_r, tot)}

sample_in_range(joint_r, tot) ==
    {Wrap(TotalWidth, rem + 1) : rem \in Remainders(joint_r, tot)}

(***************************************************************************)
(* Mutant: the boundaries at z are counted too.                            *)
(***************************************************************************)
select_cube_index_at(zz, bounds) ==
    Wrap(IndexWidth, Cardinality({k \in 0..PRODUCT : zz >= bounds[k]}))

(***************************************************************************)
(* The number of boundaries below z.                                       *)
(***************************************************************************)
select_cube_index(zz, bounds) ==
    Wrap(IndexWidth, Cardinality({k \in 0..PRODUCT : zz > bounds[k]}))

(***************************************************************************)
(* Mutant: the mux stops one cube early.                                   *)
(***************************************************************************)
cube_at_index_short(idx, cubes) ==
    LET k == IF idx \in 2 .. PRODUCT - 1 THEN idx - 1 ELSE 0
    IN  [bits |-> cubes[k].bits, mask |-> cubes[k].mask]

(***************************************************************************)
(* The mux starts from cubes[0] and looks for the indices 2..PRODUCT.      *)
(***************************************************************************)
cube_at_index(idx, cubes) ==
    LET k == IF idx \in 2..PRODUCT THEN idx - 1 ELSE 0
    IN  [bits |-> cubes[k].bits, mask |-> cubes[k].mask]

count_satisfied_cubes(a, cubes) ==
    Wrap(CountWidth, Cardinality({k \in Pairs : satisfied(a, cubes[k])}))

(***************************************************************************)
(* Mutants: the reciprocal is truncated; the table stops one entry early.  *)
(***************************************************************************)
entry_truncated(n) == kDivideLookupScale \div n

(***************************************************************************)
(* entry(n) is SCALE / n rounded to the nearest; the lookup starts from    *)
(* entry(1) and looks for the counts 2..PRODUCT.                           *)
(***************************************************************************)
entry(n) == (kDivideLookupScale + (n \div 2)) \div n

divide_lookup_short(count) ==
    entry(IF count \in 2 .. PRODUCT - 1 THEN count ELSE 1)

divide_lookup(count) == entry(IF count \in 2..PRODUCT THEN count ELSE 1)
-----------------------------------------------------------------------------
VARIABLES
    pc,                     \* the gadget that runs next
    alice_cubes, bob_cubes, \* the parties' inputs, on wires
    conjunction,            \* conjoin_dnf's output
    weights,                \* cube_weights' output
    total,                  \* dnf_weight's output
    intervals,              \* cube_intervals' output
    i,                      \* the loop index of the gadget that runs
    t,                      \* the trial that runs
    z, index, selected,     \* one trial's locals
    assignment, satisfied_count,
    b1, b2,                 \* the two running bits of is_canonical_sample
    outcomes,               \* reciprocals, or indicators as 0 or 1
    sum,                    \* the estimate gadget's running sum
    revealed                \* what both parties learn

inputVars == <<alice_cubes, bob_cubes>>
coverVars == <<conjunction, weights, total, intervals>>
trialVars == <<z, index, selected, assignment, satisfied_count, b1, b2>>
resultVars == <<outcomes, sum, revealed>>
vars == <<pc, inputVars, coverVars, i, t, trialVars, resultVars>>

ZeroData == [bits |-> {}, mask |-> {}]

Init ==
    /\ pc = "input"
    /\ alice_cubes = [k \in Inputs |-> ZeroCube]
    /\ bob_cubes = [k \in Inputs |-> ZeroCube]
    /\ conjunction = [k \in Pairs |-> ZeroCube]
    /\ weights = [k \in Pairs |-> 0]
    /\ total = 0
    /\ intervals = [k \in 0..PRODUCT |-> 0]
    /\ i = 0 /\ t = 0
    /\ z = 0 /\ index = 0 /\ selected = ZeroData
    /\ assignment = {} /\ satisfied_count = 0
    /\ b1 = TRUE /\ b2 = FALSE
    /\ outcomes = [k \in Trials |-> 0]
    /\ sum = 0 /\ revealed = 0

(***************************************************************************)
(* Each party feeds in the DNF it parsed.                                  *)
(***************************************************************************)
FeedCubes ==
    /\ pc = "input"
    /\ alice_cubes' \in AliceDnfs
    /\ bob_cubes' \in BobDnfs
    /\ pc' = "conjoin_dnf"
    /\ UNCHANGED <<coverVars, i, t, trialVars, resultVars>>

ConjoinDnf ==
    /\ pc = "conjoin_dnf"
    /\ conjunction' = conjoin_dnf(alice_cubes, bob_cubes)
    /\ pc' = "cube_weights"
    /\ UNCHANGED <<inputVars, weights, total, intervals, i, t, trialVars,
                   resultVars>>

CubeWeights ==
    /\ pc = "cube_weights"
    /\ weights' = [k \in Pairs |-> cube_weight(conjunction[k])]
    /\ pc' = "dnf_weight"
    /\ UNCHANGED <<inputVars, conjunction, total, intervals, i, t, trialVars,
                   resultVars>>

(***************************************************************************)
(* Mutant: the sum starts from 0 and the loop from weights[1].             *)
(***************************************************************************)
AddWeight_skips_first ==
    /\ pc = "dnf_weight" /\ i < PRODUCT
    /\ total' = IF i = 0 THEN 0 ELSE Wrap(TotalWidth, total + weights[i])
    /\ i' = i + 1
    /\ UNCHANGED <<pc, inputVars, conjunction, weights, intervals, t,
                   trialVars, resultVars>>

(***************************************************************************)
(* dnf_weight: the sum starts from weights[0].                             *)
(***************************************************************************)
AddWeight ==
    /\ pc = "dnf_weight" /\ i < PRODUCT
    /\ total' = IF i = 0 THEN weights[0]
                ELSE Wrap(TotalWidth, total + weights[i])
    /\ i' = i + 1
    /\ UNCHANGED <<pc, inputVars, conjunction, weights, intervals, t,
                   trialVars, resultVars>>

BeginIntervals ==
    /\ pc = "dnf_weight" /\ i = PRODUCT
    /\ intervals' = [intervals EXCEPT ![0] = 0]
    /\ i' = 0
    /\ pc' = "cube_intervals"
    /\ UNCHANGED <<inputVars, conjunction, weights, total, t, trialVars,
                   resultVars>>

AddInterval ==
    /\ pc = "cube_intervals" /\ i < PRODUCT
    /\ intervals' = [intervals EXCEPT
                        ![i + 1] = Wrap(TotalWidth, intervals[i] + weights[i])]
    /\ i' = i + 1
    /\ UNCHANGED <<pc, inputVars, conjunction, weights, total, t, trialVars,
                   resultVars>>

BeginTrials ==
    /\ pc = "cube_intervals" /\ i = PRODUCT
    /\ i' = 0
    /\ pc' = "sample_in_range"
    /\ UNCHANGED <<inputVars, coverVars, t, trialVars, resultVars>>
-----------------------------------------------------------------------------
(***************************************************************************)
(* Trial t.  joint_r is alice_r ^ bob_r, the XOR of fresh bits that each   *)
(* party draws and feeds in: any word of TotalWidth bits.                  *)
(***************************************************************************)
SampleInRange ==
    /\ pc = "sample_in_range" /\ t < K
    /\ \E joint_r \in 0 .. 2^TotalWidth - 1 : z' \in sample_in_range(joint_r, total)
    /\ pc' = "select_cube_index"
    /\ UNCHANGED <<inputVars, coverVars, i, t, index, selected, assignment,
                   satisfied_count, b1, b2, resultVars>>

SelectCubeIndex ==
    /\ pc = "select_cube_index"
    /\ index' = select_cube_index(z, intervals)
    /\ pc' = "cube_at_index"
    /\ UNCHANGED <<inputVars, coverVars, i, t, z, selected, assignment,
                   satisfied_count, b1, b2, resultVars>>

CubeAtIndex ==
    /\ pc = "cube_at_index"
    /\ selected' = cube_at_index(index, conjunction)
    /\ pc' = "random_assignment"
    /\ UNCHANGED <<inputVars, coverVars, i, t, z, index, assignment,
                   satisfied_count, b1, b2, resultVars>>

(***************************************************************************)
(* r is assignment_alice_r ^ assignment_bob_r.                             *)
(***************************************************************************)
RandomAssignment ==
    /\ pc = "random_assignment"
    /\ \E r \in SUBSET Vars : assignment' = random_assignment(selected, r)
    /\ pc' = IF Algorithm = "vazirani" THEN "count_satisfied_cubes"
                                       ELSE "is_canonical_sample"
    /\ UNCHANGED <<inputVars, coverVars, i, t, z, index, selected,
                   satisfied_count, b1, b2, resultVars>>

CountSatisfiedCubes ==
    /\ pc = "count_satisfied_cubes"
    /\ satisfied_count' = count_satisfied_cubes(assignment, conjunction)
    /\ pc' = "divide_lookup"
    /\ UNCHANGED <<inputVars, coverVars, i, t, z, index, selected, assignment,
                   b1, b2, resultVars>>

(***************************************************************************)
(* The end of the loop body, where the trial's locals go out of scope.     *)
(***************************************************************************)
EndTrial(outcome) ==
    /\ outcomes' = [outcomes EXCEPT ![t] = outcome]
    /\ t' = t + 1
    /\ i' = 0
    /\ z' = 0 /\ index' = 0 /\ selected' = ZeroData
    /\ assignment' = {} /\ satisfied_count' = 0
    /\ b1' = TRUE /\ b2' = FALSE
    /\ pc' = "sample_in_range"
    /\ UNCHANGED <<inputVars, coverVars, sum, revealed>>

DivideLookup ==
    /\ pc = "divide_lookup"
    /\ EndTrial(divide_lookup(satisfied_count))

(***************************************************************************)
(* Mutant: b1 reads b2 after this cube is entered into it.                 *)
(***************************************************************************)
ScanCube_reads_late ==
    /\ pc = "is_canonical_sample" /\ i < PRODUCT
    /\ b2' = (b2 \/ satisfied(assignment, conjunction[i]))
    /\ b1' = IF index = i + 1 THEN ~b2' ELSE b1
    /\ i' = i + 1
    /\ UNCHANGED <<pc, inputVars, coverVars, t, z, index, selected,
                   assignment, satisfied_count, resultVars>>

(***************************************************************************)
(* is_canonical_sample, one cube of its scan: b1 reads b2 before this cube *)
(* is entered into it.                                                     *)
(***************************************************************************)
ScanCube ==
    /\ pc = "is_canonical_sample" /\ i < PRODUCT
    /\ b1' = IF index = i + 1 THEN ~b2 ELSE b1
    /\ b2' = (b2 \/ satisfied(assignment, conjunction[i]))
    /\ i' = i + 1
    /\ UNCHANGED <<pc, inputVars, coverVars, t, z, index, selected,
                   assignment, satisfied_count, resultVars>>

EndScan ==
    /\ pc = "is_canonical_sample" /\ i = PRODUCT
    /\ EndTrial(IF b1 THEN 1 ELSE 0)
-----------------------------------------------------------------------------
(***************************************************************************)
(* vazirani_estimate, karp_luby_estimate: add up the outcomes, multiply.   *)
(***************************************************************************)
BeginEstimate ==
    /\ pc = "sample_in_range" /\ t = K
    /\ pc' = "estimate"
    /\ UNCHANGED <<inputVars, coverVars, i, t, trialVars, resultVars>>

AddOutcome ==
    /\ pc = "estimate" /\ i < K
    /\ sum' = Wrap(SumWidth, sum + outcomes[i])
    /\ i' = i + 1
    /\ UNCHANGED <<pc, inputVars, coverVars, t, trialVars, outcomes, revealed>>

RevealEstimate ==
    /\ pc = "estimate" /\ i = K
    /\ revealed' = Wrap(EstimateWidth, total * sum)
    /\ pc' = "done"
    /\ UNCHANGED <<inputVars, coverVars, i, t, trialVars, outcomes, sum>>

Terminating == pc = "done" /\ UNCHANGED vars

Next ==
    \/ FeedCubes \/ ConjoinDnf \/ CubeWeights
    \/ AddWeight \/ BeginIntervals \/ AddInterval \/ BeginTrials
    \/ SampleInRange \/ SelectCubeIndex \/ CubeAtIndex \/ RandomAssignment
    \/ CountSatisfiedCubes \/ DivideLookup \/ ScanCube \/ EndScan
    \/ BeginEstimate \/ AddOutcome \/ RevealEstimate
    \/ Terminating

Spec == Init /\ [][Next]_vars
-----------------------------------------------------------------------------
(***************************************************************************)
(* Types.  Every number is within the width of its wire.                   *)
(***************************************************************************)
Gadgets == {"input", "conjoin_dnf", "cube_weights", "dnf_weight",
            "cube_intervals", "sample_in_range", "select_cube_index",
            "cube_at_index", "random_assignment", "count_satisfied_cubes",
            "divide_lookup", "is_canonical_sample", "estimate", "done"}
Word(w) == 0 .. 2^w - 1

Preparing == {"input", "conjoin_dnf", "cube_weights", "dnf_weight"}
Selected == {"cube_at_index", "random_assignment", "count_satisfied_cubes",
             "divide_lookup", "is_canonical_sample"}
Selecting == Selected \cup {"select_cube_index"}
Assigned == {"count_satisfied_cubes", "divide_lookup", "is_canonical_sample"}

(***************************************************************************)
(* The type invariant: every word is in the range of its circuit type, and *)
(* neither loop index leaves the array it walks.                           *)
(***************************************************************************)
TypeOK ==
    /\ pc \in Gadgets
    /\ alice_cubes \in [Inputs -> Cubes] /\ bob_cubes \in [Inputs -> Cubes]
    /\ conjunction \in [Pairs -> Cubes]
    /\ weights \in [Pairs -> Word(VARS + 1)]
    /\ total \in Word(TotalWidth)
    /\ intervals \in [0..PRODUCT -> Word(TotalWidth)]
    /\ i \in Nat
    /\ IF pc \in {"dnf_weight", "cube_intervals", "is_canonical_sample"}
       THEN i <= PRODUCT
       ELSE IF pc \in {"estimate", "done"} THEN i <= K ELSE i = 0
    /\ t \in 0..K
    /\ pc \in Selecting => t < K
    /\ z \in Word(TotalWidth) /\ index \in Word(IndexWidth)
    /\ selected \in CubeData /\ assignment \in Assignments
    /\ satisfied_count \in Word(CountWidth)
    /\ b1 \in BOOLEAN /\ b2 \in BOOLEAN
    /\ outcomes \in [Trials -> Word(kDivideLookupScaleBits + 1)]
    /\ sum \in Word(SumWidth) /\ revealed \in Word(EstimateWidth)
-----------------------------------------------------------------------------
(***************************************************************************)
(* What the machine is to compute, told from the parties' inputs alone.    *)
(* PairModels(k): the assignments that satisfy both cubes of pair k.       *)
(* Coverage: the space the trials sample, one element per pair and         *)
(* assignment that satisfies it.  Intersection: the set being counted.     *)
(***************************************************************************)
PairModels(k) ==
    Models(alice_cubes[k \div CUBES]) \cap Models(bob_cubes[k % CUBES])

Coverage == {e \in Pairs \X Assignments : e[2] \in PairModels(e[1])}

DnfModels(d) == {a \in Assignments : \E k \in Inputs : a \in Models(d[k])}
Intersection == DnfModels(alice_cubes) \cap DnfModels(bob_cubes)

(***************************************************************************)
(* dnf_weight's total is the exact size of the coverage space, padding and *)
(* contradictory pairs left out: conjoin, cube_weight and the width of     *)
(* DnfWeight together lose and add nothing.                                *)
(***************************************************************************)
TotalCountsCoverage ==
    pc \notin Preparing => total = Cardinality(Coverage)

(***************************************************************************)
(* cube_intervals cuts [1, total] into one block per pair, as long as the  *)
(* pair has models, and ends where dnf_weight's separate sum ends.         *)
(***************************************************************************)
BlocksMatchPairs ==
    pc \notin Preparing \cup {"cube_intervals"} =>
        /\ intervals[0] = 0
        /\ intervals[PRODUCT] = total
        /\ \A k \in Pairs :
              intervals[k + 1] = intervals[k] + Cardinality(PairModels(k))

(***************************************************************************)
(* Unless there is nothing to sample, select_cube_index names the one pair *)
(* whose block holds z, and that pair is satisfiable: a zero-width block,  *)
(* of a filler cube or a contradiction, is never selected.                 *)
(***************************************************************************)
SampleSelectsRealPair ==
    pc \in Selected /\ total > 0 =>
        /\ index \in 1..PRODUCT
        /\ intervals[index - 1] < z /\ z <= intervals[index]
        /\ PairModels(index - 1) # {}

(***************************************************************************)
(* random_assignment extends the selected cube to a common model of the    *)
(* two input cubes it came from.                                           *)
(***************************************************************************)
AssignmentSatisfiesPair ==
    pc \in Assigned /\ total > 0 => assignment \in PairModels(index - 1)

(***************************************************************************)
(* divide_lookup is asked for the exact number of pairs that cover the     *)
(* assignment, which its table holds: never 0, for which it has no entry.  *)
(***************************************************************************)
CountIsCoverDegree ==
    pc = "divide_lookup" /\ total > 0 =>
        /\ satisfied_count = Cardinality({k \in Pairs : assignment \in PairModels(k)})
        /\ satisfied_count \in 1..PRODUCT

(***************************************************************************)
(* At the end of its scan, is_canonical_sample says whether the sampled    *)
(* pair is the first one that covers the assignment.                       *)
(***************************************************************************)
CanonicalIsFirstCover ==
    pc = "is_canonical_sample" /\ i = PRODUCT /\ total > 0 =>
        (b1 <=> \A k \in Pairs : k < index - 1 => assignment \notin PairModels(k))

(***************************************************************************)
(* An empty intersection is revealed as 0, though the sampler then divides *)
(* by zero; and the Vazirani estimate of any other is not 0, up to the     *)
(* capacity at which a share of the scale is rounded to 0.                 *)
(***************************************************************************)
EmptyRevealsZero ==
    pc = "done" =>
        /\ Intersection = {} => revealed = 0
        /\ /\ Algorithm = "vazirani" /\ PRODUCT < 2 * kDivideLookupScale
           /\ revealed = 0
           => Intersection = {}

(***************************************************************************)
(* When no assignment is covered twice, the estimate is exact whatever the *)
(* trials drew: K times the count, at the scale of the lookup table.       *)
(***************************************************************************)
Scale == IF Algorithm = "vazirani" THEN kDivideLookupScale ELSE 1

ExactWhenDisjoint ==
    pc = "done" /\ (\A k, l \in Pairs :
                       k # l => PairModels(k) \cap PairModels(l) = {})
        => revealed = K * Scale * Cardinality(Intersection)
=============================================================================
