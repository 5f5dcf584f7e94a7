----------------------- MODULE CoveragePipelineProofs -----------------------
(***************************************************************************)
(* The circuit, for every number of variables, cubes and trials and for    *)
(* every pair of DNFs that parse can deliver: its types, its coverage      *)
(* space, each trial of it, what it reveals, what it is over all draws,    *)
(* what that says of the parties' files, and that its gates do not depend  *)
(* on what they hold.                                                      *)
(*                                                                         *)
(* The types come first, with the facts about the constants that every     *)
(* other proof rests on.                                                   *)
(*                                                                         *)
(* The argument is one of counting.  Cover(cubes, n) is the part of the    *)
(* coverage space that the first n pairs contribute.  Each iteration of    *)
(* dnf_weight and of cube_intervals adds the models of one more pair, so   *)
(* both follow its size; the size is monotone in n, so the boundaries      *)
(* below a sample are an initial segment; and a block that is not empty    *)
(* belongs to a cube that is not padding.                                  *)
(***************************************************************************)
EXTENDS CoveragePipeline, CoverageDistribution, CoverageRefinement, EstimateOfFiles,
        DnfCubesProofs

(***************************************************************************)
(* The sizes of the circuit.                                               *)
(***************************************************************************)
LEMMA Sizes ==
  /\ CUBES \in Nat /\ CUBES > 0
  /\ K \in Nat /\ K > 0
  /\ PRODUCT \in Nat /\ PRODUCT > 0
  /\ VARS \in Nat
<1>1. CUBES \in Nat /\ CUBES > 0 /\ K \in Nat /\ K > 0
  BY CubesAssumption, TrialsAssumption
<1>2. PRODUCT \in Nat /\ PRODUCT > 0
  BY <1>1 DEF PRODUCT
<1>3. VARS \in Nat
  BY VarsAssumption, FS_CardinalityType DEF VARS
<1> QED BY <1>1, <1>2, <1>3

(***************************************************************************)
(* Pair k joins the cube of a row and the cube of a column.                *)
(***************************************************************************)
LEMMA PairInputs ==
  ASSUME NEW k \in Pairs
  PROVE  k \div CUBES \in Inputs /\ k % CUBES \in Inputs
<1>1. CUBES \in Nat /\ CUBES > 0 /\ PRODUCT = CUBES * CUBES
  BY Sizes DEF PRODUCT
<1>2. k \in Nat /\ k < CUBES * CUBES
  BY <1>1, Sizes DEF Pairs
<1>3. k % CUBES \in 0 .. CUBES - 1
  BY <1>1, <1>2
<1>4. k \div CUBES \in Nat /\ CUBES * (k \div CUBES) <= k
  <2>1. \A n, d \in Nat : d > 0 => n \div d \in Nat /\ d * (n \div d) <= n
    OBVIOUS
  <2> QED BY <1>1, <1>2, <2>1
<1>5. \A q, c, n \in Nat : c * q <= n /\ n < c * c => q < c
  OBVIOUS
<1>6. k \div CUBES < CUBES
  BY <1>1, <1>2, <1>4, <1>5
<1> QED BY <1>1, <1>3, <1>4, <1>6 DEF Inputs

(***************************************************************************)
(* The widths are numbers of bits, and a cube's weight fits in the word of *)
(* the total.                                                              *)
(***************************************************************************)
LEMMA WidthTypes ==
  /\ TotalWidth \in Nat /\ IndexWidth \in Nat /\ CountWidth \in Nat
  /\ SumWidth \in Nat /\ EstimateWidth \in Nat
  /\ 2^(VARS + 1) <= 2^TotalWidth
<1>1. TotalWidth \in Nat /\ IndexWidth \in Nat /\ CountWidth \in Nat
  BY Sizes, BitsForFits DEF TotalWidth, IndexWidth, CountWidth
<1>2. SumWidth \in Nat
  BY Sizes, BitsForFits DEF SumWidth, kDivideLookupScaleBits
<1>3. bits_for(PRODUCT) >= 1
  <2>1. bits_for(PRODUCT) \in Nat /\ PRODUCT < 2^bits_for(PRODUCT)
    BY Sizes, BitsForFits
  <2>2. 2^0 = 1
    <3>1. 2^(0 + 0) = 2^0 * 2^0 /\ 2^0 \in Nat /\ 0 < 2^0
      BY PowerSum, PowerType
    <3>2. \A p \in Nat : p > 0 /\ p = p * p => p = 1
      OBVIOUS
    <3> QED BY <3>1, <3>2
  <2>3. bits_for(PRODUCT) # 0
    <3>1. SUFFICES ASSUME bits_for(PRODUCT) = 0 PROVE FALSE
      OBVIOUS
    <3>2. PRODUCT < 2^0
      BY <2>1, <3>1
    <3> QED BY <2>2, <3>2, Sizes
  <2> QED BY <2>1, <2>3
<1>4. VARS + 1 <= TotalWidth
  BY <1>3, Sizes, BitsForFits DEF TotalWidth
<1>5. 2^(VARS + 1) <= 2^TotalWidth
  BY <1>1, <1>4, Sizes, PowerMonotone
<1> QED BY <1>1, <1>2, <1>5 DEF EstimateWidth

(***************************************************************************)
(* The lookup table: every entry is at most SCALE, which its word holds.   *)
(***************************************************************************)
LEMMA LookupType ==
  ASSUME NEW count \in Nat
  PROVE  /\ kDivideLookupScale \in Nat /\ kDivideLookupScale > 0
         /\ divide_lookup(count) \in 0 .. kDivideLookupScale
         /\ divide_lookup(count) \in Word(kDivideLookupScaleBits + 1)
<1> DEFINE S == kDivideLookupScale
<1>1. S \in Nat /\ S > 0
  BY PowerType DEF kDivideLookupScale, kDivideLookupScaleBits
<1>2. S < 2^(kDivideLookupScaleBits + 1)
  <2>1. 2^(16 + 1) = 2^16 * 2^1 /\ 2^1 \in Nat /\ 1 < 2^1
    BY PowerSum, PowerType
  <2>2. \A p, q \in Nat : p > 0 /\ q > 1 => p < p * q
    OBVIOUS
  <2> QED BY <1>1, <2>1, <2>2 DEF kDivideLookupScale, kDivideLookupScaleBits
<1>3. 2^(kDivideLookupScaleBits + 1) \in Nat
  BY PowerType DEF kDivideLookupScaleBits
<1> HIDE DEF S
<1>4. ASSUME NEW n \in Nat, n > 0
      PROVE  (S + n \div 2) \div n \in 0..S
  <2> DEFINE h == n \div 2
  <2>1. h \in Nat /\ h <= n /\ h < n
    BY <1>4
  <2> DEFINE q == (S + h) \div n
  <2>2. q \in Nat /\ n * q <= S + h
    BY <1>1, <1>4, <2>1
  <2> HIDE DEF h, q
  <2>3. q <= S
    <3>1. SUFFICES ASSUME q >= S + 1 PROVE FALSE
      BY <1>1, <2>2
    <3>2. n * q >= n * (S + 1)
      BY <1>1, <1>4, <2>2, <3>1
    <3>3. n * (S + 1) = n * S + n
      BY <1>1, <1>4
    <3>4. n * S >= S
      BY <1>1, <1>4
    <3>5. n * S \in Nat /\ n * q \in Nat
      BY <1>1, <1>4, <2>2
    <3> QED BY <1>1, <1>4, <2>1, <2>2, <3>2, <3>3, <3>4, <3>5
  <2> QED BY <1>1, <2>2, <2>3 DEF h, q
<1>5. divide_lookup(count) \in 0..S
  <2> DEFINE n == IF count \in 2..PRODUCT THEN count ELSE 1
  <2>1. n \in Nat /\ n > 0
    BY Sizes
  <2>2. divide_lookup(count) = (S + n \div 2) \div n
    BY DEF divide_lookup, entry, S
  <2> HIDE DEF n
  <2> QED BY <1>4, <2>1, <2>2
<1> QED BY <1>1, <1>2, <1>3, <1>5 DEF Word, S
-----------------------------------------------------------------------------
(***************************************************************************)
(* A word is a number; 0 is one, and whatever is wrapped.                  *)
(***************************************************************************)
LEMMA WordIsNat ==
  ASSUME NEW w \in Nat
  PROVE  /\ Word(w) \subseteq Nat /\ 0 \in Word(w)
         /\ \A x \in Int : Wrap(w, x) \in Word(w)
<1>1. 2^w \in Nat /\ w < 2^w
  BY PowerType
<1> QED BY <1>1, WrapType DEF Word

(***************************************************************************)
(* The same of the widths of all wires; a weight fits the word of a total. *)
(***************************************************************************)
LEMMA WireTypes ==
  /\ Word(TotalWidth) \subseteq Nat /\ 0 \in Word(TotalWidth)
  /\ Word(IndexWidth) \subseteq Nat /\ 0 \in Word(IndexWidth)
  /\ Word(CountWidth) \subseteq Nat /\ 0 \in Word(CountWidth)
  /\ Word(SumWidth) \subseteq Nat /\ 0 \in Word(SumWidth)
  /\ Word(EstimateWidth) \subseteq Nat /\ 0 \in Word(EstimateWidth)
  /\ Word(VARS + 1) \subseteq Word(TotalWidth) /\ 0 \in Word(VARS + 1)
  /\ Word(kDivideLookupScaleBits + 1) \subseteq Nat
  /\ 0 \in Word(kDivideLookupScaleBits + 1)
  /\ 1 \in Word(kDivideLookupScaleBits + 1)
<1>1. VARS + 1 \in Nat /\ 2^(VARS + 1) \in Nat /\ 2^TotalWidth \in Nat
  BY Sizes, WidthTypes, PowerType
<1>2. Word(VARS + 1) \subseteq Word(TotalWidth)
  BY <1>1, WidthTypes DEF Word
<1>3. kDivideLookupScaleBits + 1 = 17 /\ 17 \in Nat
  BY DEF kDivideLookupScaleBits
<1>4. 2^17 \in Nat /\ 17 < 2^17
  BY PowerType
<1>5. 1 \in Word(kDivideLookupScaleBits + 1)
  <2>1. 1 \in Word(17)
    BY <1>4 DEF Word
  <2> QED BY <1>3, <2>1
<1> QED BY <1>1, <1>2, <1>3, <1>5, WordIsNat, WidthTypes

(***************************************************************************)
(* conjoin_dnf returns cubes, and cubes that parse could have delivered    *)
(* when its arguments are such.                                            *)
(***************************************************************************)
LEMMA ConjoinDnfType ==
  /\ \A d1, d2 \in [Inputs -> Cubes] : conjoin_dnf(d1, d2) \in [Pairs -> Cubes]
  /\ \A d1, d2 \in [Inputs -> ParsedCubes] :
        conjoin_dnf(d1, d2) \in [Pairs -> ParsedCubes]
<1>1. ASSUME NEW a \in Cubes, NEW b \in Cubes PROVE conjoin(a, b) \in Cubes
  BY DEF conjoin, Cubes, PadCube
<1>2. ASSUME NEW d1 \in [Inputs -> Cubes], NEW d2 \in [Inputs -> Cubes]
      PROVE  conjoin_dnf(d1, d2) \in [Pairs -> Cubes]
  BY <1>1, PairInputs DEF conjoin_dnf
<1>3. ASSUME NEW d1 \in [Inputs -> ParsedCubes],
             NEW d2 \in [Inputs -> ParsedCubes]
      PROVE  conjoin_dnf(d1, d2) \in [Pairs -> ParsedCubes]
  BY ConjoinType, PairInputs DEF conjoin_dnf
<1> QED BY <1>2, <1>3

(***************************************************************************)
(* Every initial state is well typed.                                      *)
(***************************************************************************)
LEMMA InitTypeOK == Init => TypeOK
<1> SUFFICES ASSUME Init PROVE TypeOK
  OBVIOUS
<1>1. ZeroCube \in Cubes /\ ZeroData \in CubeData
  BY DEF ZeroCube, Cubes, ZeroData, CubeData
<1>2. /\ pc \in Gadgets /\ i \in Nat /\ i = 0 /\ t \in 0..K
      /\ pc \notin {"dnf_weight", "cube_intervals", "is_canonical_sample",
                    "estimate", "done"}
      /\ pc \notin Selecting
  BY Sizes DEF Init, Gadgets, Selecting, Selected
<1>3. /\ alice_cubes \in [Inputs -> Cubes] /\ bob_cubes \in [Inputs -> Cubes]
      /\ conjunction \in [Pairs -> Cubes]
  BY <1>1 DEF Init
<1>4. /\ weights \in [Pairs -> Word(VARS + 1)]
      /\ intervals \in [0..PRODUCT -> Word(TotalWidth)]
      /\ outcomes \in [Trials -> Word(kDivideLookupScaleBits + 1)]
  BY WireTypes DEF Init
<1>5. /\ total \in Word(TotalWidth) /\ z \in Word(TotalWidth)
      /\ index \in Word(IndexWidth) /\ satisfied_count \in Word(CountWidth)
      /\ sum \in Word(SumWidth) /\ revealed \in Word(EstimateWidth)
  BY WireTypes DEF Init
<1>6. /\ selected \in CubeData /\ assignment \in Assignments
      /\ b1 \in BOOLEAN /\ b2 \in BOOLEAN
  BY <1>1 DEF Init, Assignments
<1> QED BY <1>2, <1>3, <1>4, <1>5, <1>6 DEF TypeOK

(***************************************************************************)
(* Every step preserves the types.                                         *)
(***************************************************************************)
LEMMA NextTypeOK == TypeOK /\ [Next]_vars => TypeOK'
<1> SUFFICES ASSUME TypeOK, [Next]_vars PROVE TypeOK'
  OBVIOUS
<1> USE WireTypes, Sizes DEF TypeOK, Gadgets, Selecting, Selected,
        inputVars, coverVars, trialVars, resultVars
<1>1. CASE FeedCubes
  <2>1. alice_cubes' \in [Inputs -> Cubes] /\ bob_cubes' \in [Inputs -> Cubes]
    <3>1. ParsedCubes \subseteq Cubes
      <4>1. PadCube \in Cubes
        BY DEF PadCube, Cubes
      <4> QED BY <4>1 DEF ParsedCubes, RealCubes
    <3>2. \A d \in ParsedDnfs : d \in [Inputs -> Cubes]
      BY <3>1 DEF ParsedDnfs
    <3> QED BY <1>1, <3>2, DnfsAssumption DEF FeedCubes
  <2> QED BY <1>1, <2>1 DEF FeedCubes
<1>2. CASE ConjoinDnf
  BY <1>2, ConjoinDnfType DEF ConjoinDnf
<1>3. CASE CubeWeights
  <2>1. \A k \in Pairs : cube_weight(conjunction[k]) \in Word(VARS + 1)
    <3>1. ASSUME NEW c \in Cubes PROVE cube_weight(c) \in Word(VARS + 1)
      <4>1. CASE c.pad
        BY <4>1 DEF cube_weight
      <4>2. CASE ~c.pad
        <5>1. c.mask \in SUBSET Vars
          BY DEF Cubes
        <5>2. VARS - Cardinality(c.mask) \in Nat
          BY <5>1, VarsAssumption, FS_Subset, FS_CardinalityType DEF VARS
        <5>3. 2^(VARS - Cardinality(c.mask)) \in Int
          BY <5>2, PowerType
        <5>4. VARS + 1 \in Nat
          OBVIOUS
        <5> QED BY <4>2, <5>3, <5>4, WrapType DEF cube_weight, Word
      <4> QED BY <4>1, <4>2
    <3> QED BY <3>1
  <2> QED BY <1>3, <2>1 DEF CubeWeights
<1>4. CASE AddWeight
  <2>1. weights[i] \in Word(TotalWidth) /\ weights[0] \in Word(TotalWidth)
    BY <1>4 DEF AddWeight, Pairs
  <2>2. total + weights[i] \in Int
    BY <2>1
  <2>3. Wrap(TotalWidth, total + weights[i]) \in Word(TotalWidth)
    BY <2>2, WidthTypes, WordIsNat
  <2>4. total' \in Word(TotalWidth)
    BY <1>4, <2>1, <2>3 DEF AddWeight
  <2> QED BY <1>4, <2>4 DEF AddWeight
<1>5. CASE BeginIntervals
  BY <1>5 DEF BeginIntervals
<1>6. CASE AddInterval
  <2>1. weights[i] \in Word(TotalWidth) /\ intervals[i] \in Word(TotalWidth)
    BY <1>6 DEF AddInterval, Pairs
  <2>2. intervals[i] + weights[i] \in Int
    BY <2>1
  <2>3. Wrap(TotalWidth, intervals[i] + weights[i]) \in Word(TotalWidth)
    BY <2>2, WidthTypes, WordIsNat
  <2>4. intervals' \in [0..PRODUCT -> Word(TotalWidth)]
    BY <1>6, <2>3 DEF AddInterval
  <2> QED BY <1>6, <2>4 DEF AddInterval
<1>7. CASE BeginTrials
  BY <1>7 DEF BeginTrials
<1>8. CASE SampleInRange
  <2>1. PICK joint_r \in 0 .. 2^TotalWidth - 1 : z' \in sample_in_range(joint_r, total)
    BY <1>8 DEF SampleInRange
  <2>2. PICK rem \in Remainders(joint_r, total) : z' = Wrap(TotalWidth, rem + 1)
    BY <2>1 DEF sample_in_range
  <2>3. rem + 1 \in Int
    BY <2>1, <2>2 DEF Remainders
  <2>4. z' \in Word(TotalWidth)
    BY <2>2, <2>3, WidthTypes, WordIsNat
  <2> QED BY <1>8, <2>4 DEF SampleInRange
<1>9. CASE SelectCubeIndex
  <2>1. Cardinality({k \in 0..PRODUCT : z > intervals[k]}) \in Int
    <3> DEFINE B == {k \in 0..PRODUCT : z > intervals[k]}
    <3>1. IsFiniteSet(0..PRODUCT)
      BY FS_Interval
    <3>2. IsFiniteSet(B)
      BY <3>1, FS_Subset
    <3> QED BY <3>2, FS_CardinalityType
  <2>2. index' \in Word(IndexWidth)
    BY <1>9, <2>1, WidthTypes, WordIsNat DEF SelectCubeIndex, select_cube_index
  <2> QED BY <1>9, <2>2 DEF SelectCubeIndex
<1>10. CASE CubeAtIndex
  <2>1. \A k \in Pairs : [bits |-> conjunction[k].bits, mask |-> conjunction[k].mask]
                           \in CubeData
    BY DEF Cubes, CubeData
  <2>2. (IF index \in 2..PRODUCT THEN index - 1 ELSE 0) \in Pairs
    <3>1. 0 \in Pairs /\ \A n \in 2..PRODUCT : n - 1 \in Pairs
      BY DEF Pairs
    <3> QED BY <3>1
  <2>3. cube_at_index(index, conjunction) \in CubeData
    BY <2>1, <2>2 DEF cube_at_index
  <2> QED BY <1>10, <2>3 DEF CubeAtIndex
<1>11. CASE RandomAssignment
  <2>1. assignment' \in Assignments
    BY <1>11 DEF RandomAssignment, random_assignment, CubeData, Assignments
  <2> QED BY <1>11, <2>1 DEF RandomAssignment
<1>12. CASE CountSatisfiedCubes
  <2>1. Cardinality({k \in Pairs : satisfied(assignment, conjunction[k])}) \in Int
    <3> DEFINE B == {k \in Pairs : satisfied(assignment, conjunction[k])}
    <3>1. IsFiniteSet(Pairs)
      BY FS_Interval DEF Pairs
    <3>2. IsFiniteSet(B)
      BY <3>1, FS_Subset
    <3> QED BY <3>2, FS_CardinalityType
  <2>2. satisfied_count' \in Word(CountWidth)
    BY <1>12, <2>1, WidthTypes, WordIsNat
    DEF CountSatisfiedCubes, count_satisfied_cubes
  <2> QED BY <1>12, <2>2 DEF CountSatisfiedCubes
<1>13. ASSUME NEW o \in Word(kDivideLookupScaleBits + 1), EndTrial(o), t < K
       PROVE  TypeOK'
  <2>1. outcomes' \in [Trials -> Word(kDivideLookupScaleBits + 1)]
    BY <1>13 DEF EndTrial
  <2>2. selected' \in CubeData /\ assignment' \in Assignments
    BY <1>13 DEF EndTrial, ZeroData, CubeData, Assignments
  <2>3. t' \in 0..K
    BY <1>13 DEF EndTrial
  <2> QED BY <1>13, <2>1, <2>2, <2>3 DEF EndTrial
<1>14. CASE DivideLookup
  <2>1. satisfied_count \in Nat
    BY WidthTypes, PowerType DEF Word
  <2>2. divide_lookup(satisfied_count) \in Word(kDivideLookupScaleBits + 1)
    BY <2>1, LookupType
  <2>3. t < K
    BY <1>14 DEF DivideLookup, Selecting, Selected
  <2> QED BY <1>13, <1>14, <2>2, <2>3 DEF DivideLookup
<1>15. CASE ScanCube
  <2>1. b1' \in BOOLEAN /\ b2' \in BOOLEAN
    BY <1>15 DEF ScanCube
  <2> QED BY <1>15, <2>1 DEF ScanCube
<1>16. CASE EndScan
  <2>1. (IF b1 THEN 1 ELSE 0) \in Word(kDivideLookupScaleBits + 1)
    OBVIOUS
  <2>2. t < K
    BY <1>16 DEF EndScan, Selecting, Selected
  <2> QED BY <1>13, <1>16, <2>1, <2>2 DEF EndScan
<1>17. CASE BeginEstimate
  BY <1>17 DEF BeginEstimate
<1>18. CASE AddOutcome
  <2>1. outcomes[i] \in Int
    BY <1>18 DEF AddOutcome, Trials, Word
  <2>2. sum + outcomes[i] \in Int
    BY <2>1
  <2>3. sum' \in Word(SumWidth)
    BY <1>18, <2>2, WidthTypes, WordIsNat DEF AddOutcome
  <2> QED BY <1>18, <2>3 DEF AddOutcome
<1>19. CASE RevealEstimate
  <2>1. total * sum \in Int
    OBVIOUS
  <2>2. revealed' \in Word(EstimateWidth)
    BY <1>19, <2>1, WidthTypes, WordIsNat DEF RevealEstimate
  <2> QED BY <1>19, <2>2 DEF RevealEstimate
<1>20. CASE Terminating
  BY <1>20 DEF Terminating, vars
<1>21. CASE UNCHANGED vars
  BY <1>21 DEF vars
<1> QED
  BY <1>1, <1>2, <1>3, <1>4, <1>5, <1>6, <1>7, <1>8, <1>9, <1>10, <1>11,
     <1>12, <1>14, <1>15, <1>16, <1>17, <1>18, <1>19, <1>20, <1>21 DEF Next

(***************************************************************************)
(* No wire of the circuit ever holds a value outside its type, and no loop *)
(* leaves the array it walks.                                              *)
(***************************************************************************)
THEOREM TypeCorrect == Spec => []TypeOK
BY InitTypeOK, NextTypeOK, PTL DEF Spec
-----------------------------------------------------------------------------
Cover(cubes, n) ==
    {e \in (0 .. n - 1) \X Assignments : e[2] \in Models(cubes[e[1]])}
Size(cubes, n) == Cardinality(Cover(cubes, n))

(***************************************************************************)
(* The first n pairs cover at most n * 2^VARS elements, which the word of  *)
(* the total holds.                                                        *)
(***************************************************************************)
LEMMA SizeFits ==
  ASSUME NEW cubes, NEW n \in 0..PRODUCT
  PROVE  /\ IsFiniteSet(Cover(cubes, n))
         /\ Size(cubes, n) \in Nat
         /\ Size(cubes, n) < 2^TotalWidth
<1> DEFINE Block == 0 .. n - 1
<1>1. IsFiniteSet(Block) /\ Cardinality(Block) = n
  <2>1. 0 \in Int /\ n - 1 \in Int /\ n \in Nat
    BY Sizes
  <2>2. /\ IsFiniteSet(0 .. n - 1)
        /\ Cardinality(0 .. n - 1) = IF 0 > n - 1 THEN 0 ELSE n - 1 - 0 + 1
    BY <2>1, FS_Interval
  <2> QED BY <2>1, <2>2
<1>2. IsFiniteSet(Assignments) /\ Cardinality(Assignments) = 2^VARS
  BY VarsAssumption, FS_SUBSET DEF Assignments, VARS
<1> DEFINE Whole == Block \X Assignments
<1> HIDE DEF Block
<1>3. IsFiniteSet(Whole) /\ Cardinality(Whole) = n * 2^VARS
  <2>1. /\ IsFiniteSet(Block \X Assignments)
        /\ Cardinality(Block \X Assignments)
              = Cardinality(Block) * Cardinality(Assignments)
    BY <1>1, <1>2, FS_Product
  <2> QED BY <1>1, <1>2, <2>1
<1>4. Cover(cubes, n) \in SUBSET Whole
  BY DEF Cover, Block
<1> HIDE DEF Whole
<1>5. /\ IsFiniteSet(Cover(cubes, n))
      /\ Size(cubes, n) \in Nat
      /\ Size(cubes, n) <= n * 2^VARS
  BY <1>3, <1>4, FS_Subset, FS_CardinalityType DEF Size
<1>6. n * 2^VARS <= PRODUCT * 2^VARS
  <2>1. 2^VARS \in Nat
    BY Sizes, PowerType
  <2>2. \A p, q, r \in Nat : p <= q => p * r <= q * r
    OBVIOUS
  <2>3. n \in Nat /\ n <= PRODUCT
    BY Sizes
  <2> QED BY <2>1, <2>2, <2>3, Sizes
<1>7. PRODUCT * 2^VARS < 2^TotalWidth
  BY Sizes, SumFits DEF TotalWidth
<1>8. n * 2^VARS \in Nat /\ PRODUCT * 2^VARS \in Nat /\ 2^TotalWidth \in Nat
  BY Sizes, WidthTypes, PowerType
<1> QED BY <1>5, <1>6, <1>7, <1>8

(***************************************************************************)
(* No pair covers nothing.                                                 *)
(***************************************************************************)
LEMMA SizeZero ==
  ASSUME NEW cubes
  PROVE  Size(cubes, 0) = 0
<1>1. Cover(cubes, 0) = {}
  BY DEF Cover
<1> QED BY <1>1, FS_EmptySet DEF Size

(***************************************************************************)
(* The next pair adds its models, each of them once.                       *)
(***************************************************************************)
LEMMA SizeStep ==
  ASSUME NEW cubes \in [Pairs -> ParsedCubes], NEW n \in Pairs
  PROVE  Size(cubes, n + 1) = Size(cubes, n) + Cardinality(Models(cubes[n]))
<1> DEFINE Block == {n} \X Models(cubes[n])
<1>1. n \in Nat /\ n \in 0..PRODUCT /\ n + 1 \in 0..PRODUCT
  BY Sizes DEF Pairs
<1>2. IsFiniteSet(Models(cubes[n])) /\ Cardinality(Models(cubes[n])) \in Nat
  BY WeightCountsModels, FS_CardinalityType
<1>3. IsFiniteSet(Block) /\ Cardinality(Block) = Cardinality(Models(cubes[n]))
  <2>1. IsFiniteSet({n}) /\ Cardinality({n}) = 1
    BY FS_Singleton
  <2>2. /\ IsFiniteSet({n} \X Models(cubes[n]))
        /\ Cardinality({n} \X Models(cubes[n]))
              = Cardinality({n}) * Cardinality(Models(cubes[n]))
    BY <1>2, <2>1, FS_Product
  <2> QED BY <1>2, <2>1, <2>2
<1>4. Cover(cubes, n + 1) = Cover(cubes, n) \cup Block
  <2>1. 0 .. (n + 1) - 1 = (0 .. n - 1) \cup {n}
    BY <1>1
  <2>2. Models(cubes[n]) \subseteq Assignments
    BY DEF Models
  <2> QED BY <2>1, <2>2 DEF Cover
<1>5. Cover(cubes, n) \cap Block = {}
  <2>1. n \notin 0 .. n - 1
    BY <1>1
  <2> QED BY <2>1 DEF Cover
<1> HIDE DEF Block
<1>6. Cardinality(Cover(cubes, n) \cup Block)
        = Cardinality(Cover(cubes, n)) + Cardinality(Block) - Cardinality({})
  BY <1>1, <1>3, <1>5, SizeFits, FS_Union
<1>7. Cardinality({}) = 0 /\ Cardinality(Cover(cubes, n)) \in Nat
  BY <1>1, SizeFits, FS_EmptySet DEF Size
<1>8. Size(cubes, n + 1) = Cardinality(Cover(cubes, n) \cup Block)
  BY <1>4 DEF Size
<1>9. Size(cubes, n) = Cardinality(Cover(cubes, n))
  BY DEF Size
<1> QED BY <1>2, <1>3, <1>6, <1>7, <1>8, <1>9

(***************************************************************************)
(* More pairs cover no less.                                               *)
(***************************************************************************)
LEMMA SizeMonotone ==
  ASSUME NEW cubes, NEW m \in 0..PRODUCT, NEW n \in 0..PRODUCT, m <= n
  PROVE  Size(cubes, m) <= Size(cubes, n)
<1>1. 0 .. m - 1 \subseteq 0 .. n - 1
  BY Sizes
<1>2. Cover(cubes, m) \in SUBSET Cover(cubes, n)
  BY <1>1 DEF Cover
<1> QED BY <1>2, SizeFits, FS_Subset DEF Size

(***************************************************************************)
(* conjoin_dnf keeps, pair by pair, what the inputs mean.                  *)
(***************************************************************************)
LEMMA ConjunctionModels ==
  ASSUME alice_cubes \in ParsedDnfs, bob_cubes \in ParsedDnfs,
         conjunction = conjoin_dnf(alice_cubes, bob_cubes)
  PROVE  /\ conjunction \in [Pairs -> ParsedCubes]
         /\ \A k \in Pairs : Models(conjunction[k]) = PairModels(k)
         /\ Cover(conjunction, PRODUCT) = Coverage
<1>1. alice_cubes \in [Inputs -> ParsedCubes] /\ bob_cubes \in [Inputs -> ParsedCubes]
  BY DEF ParsedDnfs
<1>2. conjunction \in [Pairs -> ParsedCubes]
  BY <1>1, ConjoinDnfType
<1>3. ASSUME NEW k \in Pairs PROVE Models(conjunction[k]) = PairModels(k)
  <2>1. /\ alice_cubes[k \div CUBES] \in ParsedCubes
        /\ bob_cubes[k % CUBES] \in ParsedCubes
    BY <1>1, PairInputs
  <2>2. conjunction[k] = conjoin(alice_cubes[k \div CUBES], bob_cubes[k % CUBES])
    BY DEF conjoin_dnf
  <2> QED BY <2>1, <2>2, ConjoinModels DEF PairModels
<1>4. Cover(conjunction, PRODUCT) = Coverage
  BY <1>3 DEF Cover, Coverage, Pairs
<1> QED BY <1>2, <1>3, <1>4
-----------------------------------------------------------------------------
(***************************************************************************)
(* The inductive invariant of the circuit up to its first trial, and what  *)
(* the trials keep of it: each array is the function of the inputs that    *)
(* its gadget computes, and each running sum counts what it has passed.    *)
(***************************************************************************)
InputsInv ==
    pc # "input" => alice_cubes \in ParsedDnfs /\ bob_cubes \in ParsedDnfs
ConjunctionInv ==
    pc \notin {"input", "conjoin_dnf"} =>
        conjunction = conjoin_dnf(alice_cubes, bob_cubes)
WeightsInv ==
    pc \notin {"input", "conjoin_dnf", "cube_weights"} =>
        weights = [k \in Pairs |-> cube_weight(conjunction[k])]
TotalInv ==
    IF pc \in Preparing THEN total = Size(conjunction, i)
                        ELSE total = Size(conjunction, PRODUCT)
IntervalsInv ==
    /\ pc = "cube_intervals" =>
         \A k \in 0..i : intervals[k] = Size(conjunction, k)
    /\ pc \notin Preparing \cup {"cube_intervals"} =>
         \A k \in 0..PRODUCT : intervals[k] = Size(conjunction, k)

CoverInv ==
    InputsInv /\ ConjunctionInv /\ WeightsInv /\ TotalInv /\ IntervalsInv

(***************************************************************************)
(* It holds initially.                                                     *)
(***************************************************************************)
LEMMA InitCoverInv == Init => CoverInv
BY SizeZero
DEF Init, CoverInv, InputsInv, ConjunctionInv, WeightsInv, TotalInv,
    IntervalsInv, Preparing

(***************************************************************************)
(* A step that leaves the cover alone, and goes from a trial or an         *)
(* estimate to a trial or an estimate, preserves it.                       *)
(***************************************************************************)
LEMMA CoverInvFrame ==
  ASSUME CoverInv, UNCHANGED <<inputVars, coverVars>>,
         pc \notin Preparing \cup {"cube_intervals"},
         pc' \notin Preparing \cup {"cube_intervals"}
  PROVE  CoverInv'
<1>1. /\ alice_cubes' = alice_cubes /\ bob_cubes' = bob_cubes
      /\ conjunction' = conjunction /\ weights' = weights
      /\ total' = total /\ intervals' = intervals
  BY DEF inputVars, coverVars
<1>2. pc # "input" /\ pc \notin {"input", "conjoin_dnf", "cube_weights"}
  BY DEF Preparing
<1>3. InputsInv' /\ ConjunctionInv' /\ WeightsInv'
  BY <1>1, <1>2 DEF CoverInv, InputsInv, ConjunctionInv, WeightsInv
<1>4. TotalInv' /\ IntervalsInv'
  BY <1>1 DEF CoverInv, TotalInv, IntervalsInv
<1> QED BY <1>3, <1>4 DEF CoverInv

(***************************************************************************)
(* The weight of the pair that a loop is about to pass.                    *)
(***************************************************************************)
LEMMA NextWeight ==
  ASSUME CoverInv, i \in Pairs,
         pc \notin {"input", "conjoin_dnf", "cube_weights"}
  PROVE  /\ Size(conjunction, i + 1) = Size(conjunction, i) + weights[i]
         /\ Size(conjunction, i + 1) \in Nat
         /\ Wrap(TotalWidth, Size(conjunction, i + 1)) = Size(conjunction, i + 1)
<1>1. conjunction \in [Pairs -> ParsedCubes]
  BY ConjunctionModels DEF CoverInv, InputsInv, ConjunctionInv
<1>2. weights[i] = Cardinality(Models(conjunction[i]))
  BY <1>1, WeightCountsModels DEF CoverInv, WeightsInv
<1>3. Size(conjunction, i + 1) = Size(conjunction, i) + weights[i]
  BY <1>1, <1>2, SizeStep
<1>4. i + 1 \in 0..PRODUCT
  BY Sizes DEF Pairs
<1>5. Size(conjunction, i + 1) \in Nat /\ Size(conjunction, i + 1) < 2^TotalWidth
  BY <1>4, SizeFits
<1> QED BY <1>3, <1>5, WidthTypes, WrapFits

(***************************************************************************)
(* Every step preserves the cover's invariant.                             *)
(***************************************************************************)
LEMMA NextCoverInv == TypeOK /\ CoverInv /\ [Next]_vars => CoverInv'
<1> SUFFICES ASSUME TypeOK, CoverInv, [Next]_vars PROVE CoverInv'
  OBVIOUS
<1>1. CASE FeedCubes
  <2>1. /\ pc = "input" /\ pc' = "conjoin_dnf"
        /\ alice_cubes' \in AliceDnfs /\ bob_cubes' \in BobDnfs
        /\ i' = i /\ total' = total /\ i = 0
    BY <1>1 DEF FeedCubes, coverVars, TypeOK
  <2>2. total = 0
    BY <2>1, SizeZero DEF CoverInv, TotalInv, Preparing
  <2> QED
    BY <2>1, <2>2, SizeZero, DnfsAssumption
    DEF CoverInv, InputsInv, ConjunctionInv, WeightsInv, TotalInv,
        IntervalsInv, Preparing
<1>2. CASE ConjoinDnf
  <2>1. /\ pc = "conjoin_dnf" /\ pc' = "cube_weights"
        /\ alice_cubes' = alice_cubes /\ bob_cubes' = bob_cubes
        /\ conjunction' = conjoin_dnf(alice_cubes, bob_cubes)
        /\ i' = i /\ total' = total /\ i = 0
    BY <1>2 DEF ConjoinDnf, inputVars, TypeOK
  <2>2. total = 0
    BY <2>1, SizeZero DEF CoverInv, TotalInv, Preparing
  <2> QED
    BY <2>1, <2>2, SizeZero
    DEF CoverInv, InputsInv, ConjunctionInv, WeightsInv, TotalInv,
        IntervalsInv, Preparing
<1>3. CASE CubeWeights
  <2>1. /\ pc = "cube_weights" /\ pc' = "dnf_weight"
        /\ alice_cubes' = alice_cubes /\ bob_cubes' = bob_cubes
        /\ conjunction' = conjunction /\ i' = i /\ total' = total
        /\ weights' = [k \in Pairs |-> cube_weight(conjunction[k])]
    BY <1>3 DEF CubeWeights, inputVars
  <2> QED
    BY <2>1
    DEF CoverInv, InputsInv, ConjunctionInv, WeightsInv, TotalInv,
        IntervalsInv, Preparing
<1>4. CASE AddWeight
  <2>1. /\ pc = "dnf_weight" /\ pc' = pc /\ i \in Pairs /\ i' = i + 1
        /\ alice_cubes' = alice_cubes /\ bob_cubes' = bob_cubes
        /\ conjunction' = conjunction /\ weights' = weights
    BY <1>4, Sizes DEF AddWeight, inputVars, TypeOK, Pairs
  <2>2. total = Size(conjunction, i)
    BY <2>1 DEF CoverInv, TotalInv, Preparing
  <2>3. total' = Size(conjunction, i + 1)
    <3>1. /\ Size(conjunction, i + 1) = Size(conjunction, i) + weights[i]
          /\ Size(conjunction, i + 1) \in Nat
          /\ Wrap(TotalWidth, Size(conjunction, i + 1)) = Size(conjunction, i + 1)
      BY <2>1, NextWeight
    <3>2. CASE i = 0
      <4>1. total' = weights[0] /\ total = 0
        BY <1>4, <2>2, <3>2, SizeZero DEF AddWeight
      <4>2. weights[0] \in Nat
        BY <2>1, <3>2, WireTypes DEF TypeOK
      <4> QED BY <2>2, <3>1, <3>2, <4>1, <4>2
    <3>3. CASE i # 0
      <4>1. total' = Wrap(TotalWidth, total + weights[i])
        BY <1>4, <3>3 DEF AddWeight
      <4> QED BY <2>2, <3>1, <4>1
    <3> QED BY <3>2, <3>3
  <2> QED
    BY <2>1, <2>3
    DEF CoverInv, InputsInv, ConjunctionInv, WeightsInv, TotalInv,
        IntervalsInv, Preparing
<1>5. CASE BeginIntervals
  <2>1. /\ pc = "dnf_weight" /\ pc' = "cube_intervals"
        /\ i = PRODUCT /\ i' = 0
        /\ intervals' = [intervals EXCEPT ![0] = 0]
        /\ alice_cubes' = alice_cubes /\ bob_cubes' = bob_cubes
        /\ conjunction' = conjunction /\ weights' = weights /\ total' = total
    BY <1>5 DEF BeginIntervals, inputVars
  <2>2. total = Size(conjunction, PRODUCT)
    BY <2>1 DEF CoverInv, TotalInv, Preparing
  <2>3. intervals'[0] = Size(conjunction, 0)
    BY <2>1, SizeZero, Sizes DEF TypeOK
  <2>4. \A k \in 0..i' : k = 0
    BY <2>1
  <2> QED
    BY <2>1, <2>2, <2>3, <2>4
    DEF CoverInv, InputsInv, ConjunctionInv, WeightsInv, TotalInv,
        IntervalsInv, Preparing
<1>6. CASE AddInterval
  <2>1. /\ pc = "cube_intervals" /\ pc' = pc /\ i \in Pairs /\ i' = i + 1
        /\ alice_cubes' = alice_cubes /\ bob_cubes' = bob_cubes
        /\ conjunction' = conjunction /\ weights' = weights /\ total' = total
    BY <1>6, Sizes DEF AddInterval, inputVars, TypeOK, Pairs
  <2>2. intervals' = [intervals EXCEPT
                        ![i + 1] = Wrap(TotalWidth, intervals[i] + weights[i])]
    BY <1>6 DEF AddInterval
  <2>3. \A k \in 0..i : intervals[k] = Size(conjunction, k)
    BY <2>1 DEF CoverInv, IntervalsInv
  <2>4. i \in 0..i /\ i + 1 \in 0..PRODUCT
    BY <2>1, Sizes DEF Pairs
  <2>5. Wrap(TotalWidth, intervals[i] + weights[i]) = Size(conjunction, i + 1)
    BY <2>1, <2>3, <2>4, NextWeight
  <2>6. intervals'[i + 1] = Size(conjunction, i + 1)
    BY <2>2, <2>4, <2>5 DEF TypeOK
  <2>7. ASSUME NEW k \in 0..i PROVE intervals'[k] = Size(conjunction, k)
    <3>1. k # i + 1 /\ k \in 0..PRODUCT
      BY <2>1, <2>4, Sizes DEF Pairs
    <3> QED BY <2>2, <2>3, <3>1 DEF TypeOK
  <2>8. \A k \in 0..i' : intervals'[k] = Size(conjunction, k)
    <3>1. \A k \in 0..i' : k \in 0..i \/ k = i + 1
      BY <2>1, <2>4
    <3> QED BY <2>6, <2>7, <3>1
  <2> QED
    BY <2>1, <2>8
    DEF CoverInv, InputsInv, ConjunctionInv, WeightsInv, TotalInv,
        IntervalsInv, Preparing
<1>7. CASE BeginTrials
  <2>1. /\ pc = "cube_intervals" /\ pc' = "sample_in_range" /\ i = PRODUCT
        /\ alice_cubes' = alice_cubes /\ bob_cubes' = bob_cubes
        /\ conjunction' = conjunction /\ weights' = weights
        /\ total' = total /\ intervals' = intervals
    BY <1>7 DEF BeginTrials, inputVars, coverVars
  <2> QED
    BY <2>1
    DEF CoverInv, InputsInv, ConjunctionInv, WeightsInv, TotalInv,
        IntervalsInv, Preparing
<1>8. CASE SampleInRange
  BY <1>8, CoverInvFrame DEF SampleInRange, Preparing
<1>9. CASE SelectCubeIndex
  BY <1>9, CoverInvFrame DEF SelectCubeIndex, Preparing
<1>10. CASE CubeAtIndex
  BY <1>10, CoverInvFrame DEF CubeAtIndex, Preparing
<1>11. CASE RandomAssignment
  BY <1>11, CoverInvFrame DEF RandomAssignment, Preparing
<1>12. CASE CountSatisfiedCubes
  BY <1>12, CoverInvFrame DEF CountSatisfiedCubes, Preparing
<1>13. CASE DivideLookup
  BY <1>13, CoverInvFrame DEF DivideLookup, EndTrial, Preparing
<1>14. CASE ScanCube
  BY <1>14, CoverInvFrame DEF ScanCube, Preparing
<1>15. CASE EndScan
  BY <1>15, CoverInvFrame DEF EndScan, EndTrial, Preparing
<1>16. CASE BeginEstimate
  BY <1>16, CoverInvFrame DEF BeginEstimate, Preparing
<1>17. CASE AddOutcome
  BY <1>17, CoverInvFrame DEF AddOutcome, Preparing
<1>18. CASE RevealEstimate
  BY <1>18, CoverInvFrame DEF RevealEstimate, Preparing
<1>19. CASE Terminating
  BY <1>19, CoverInvFrame
  DEF Terminating, Preparing, vars, inputVars, coverVars
<1>20. CASE UNCHANGED vars
  BY <1>20
  DEF vars, inputVars, coverVars, CoverInv, InputsInv, ConjunctionInv,
      WeightsInv, TotalInv, IntervalsInv
<1> QED
  BY <1>1, <1>2, <1>3, <1>4, <1>5, <1>6, <1>7, <1>8, <1>9, <1>10, <1>11,
     <1>12, <1>13, <1>14, <1>15, <1>16, <1>17, <1>18, <1>19, <1>20 DEF Next

(***************************************************************************)
(* The types and the invariant of the cover hold of every behaviour.       *)
(***************************************************************************)
LEMMA CoverInvariant == Spec => [](TypeOK /\ CoverInv)
BY InitTypeOK, NextTypeOK, InitCoverInv, NextCoverInv, PTL DEF Spec

(***************************************************************************)
(* The weight of the conjunction is the exact number of pairs of a pair of *)
(* cubes and an assignment that satisfies both.                            *)
(***************************************************************************)
THEOREM TotalIsExact == Spec => []TotalCountsCoverage
<1>1. CoverInv => TotalCountsCoverage
  <2> SUFFICES ASSUME CoverInv, pc \notin Preparing
               PROVE  total = Cardinality(Coverage)
    BY DEF TotalCountsCoverage
  <2>1. Cover(conjunction, PRODUCT) = Coverage
    BY ConjunctionModels DEF CoverInv, InputsInv, ConjunctionInv, Preparing
  <2> QED BY <2>1 DEF CoverInv, TotalInv, Size
<1> QED BY <1>1, CoverInvariant, PTL

(***************************************************************************)
(* The intervals cut [1, total] into one block for each pair, as long as   *)
(* the number of its models.                                               *)
(***************************************************************************)
THEOREM IntervalsMatchPairs == Spec => []BlocksMatchPairs
<1>1. CoverInv => BlocksMatchPairs
  <2> SUFFICES ASSUME CoverInv, pc \notin Preparing \cup {"cube_intervals"}
               PROVE  /\ intervals[0] = 0
                      /\ intervals[PRODUCT] = total
                      /\ \A k \in Pairs :
                            intervals[k + 1] = intervals[k] + Cardinality(PairModels(k))
    BY DEF BlocksMatchPairs
  <2>1. /\ conjunction \in [Pairs -> ParsedCubes]
        /\ \A k \in Pairs : Models(conjunction[k]) = PairModels(k)
    BY ConjunctionModels DEF CoverInv, InputsInv, ConjunctionInv, Preparing
  <2>2. \A k \in 0..PRODUCT : intervals[k] = Size(conjunction, k)
    BY DEF CoverInv, IntervalsInv
  <2>3. intervals[0] = 0 /\ intervals[PRODUCT] = total
    BY <2>2, SizeZero, Sizes DEF CoverInv, TotalInv
  <2>4. ASSUME NEW k \in Pairs
        PROVE  intervals[k + 1] = intervals[k] + Cardinality(PairModels(k))
    <3>1. k \in 0..PRODUCT /\ k + 1 \in 0..PRODUCT
      BY Sizes DEF Pairs
    <3> QED BY <2>1, <2>2, <3>1, SizeStep
  <2> QED BY <2>3, <2>4
<1> QED BY <1>1, CoverInvariant, PTL

-----------------------------------------------------------------------------
(***************************************************************************)
(* One trial: for every capacity, every pair of DNFs and every draw, the   *)
(* selected pair, the assignment and its score are the ones the coverage   *)
(* algorithm calls for.                                                    *)
(*                                                                         *)
(* The boundaries below a sample are an initial segment 0 .. j-1 of the    *)
(* intervals, because the sizes grow with the pairs; so their number j is  *)
(* the pair whose block the sample is in, that block is not empty, and its *)
(* cube is not padding.  Everything after that follows the pair.           *)
(***************************************************************************)

(***************************************************************************)
(* A sample is in [1, total] whatever the parties draw.                    *)
(***************************************************************************)
LEMMA SampleInTotal ==
  ASSUME NEW joint_r \in Nat, NEW tot \in Nat, tot > 0, tot < 2^TotalWidth,
         NEW zz \in sample_in_range(joint_r, tot)
  PROVE  zz \in 1..tot
<1>1. PICK rem \in Remainders(joint_r, tot) : zz = Wrap(TotalWidth, rem + 1)
  BY DEF sample_in_range
<1>2. rem = joint_r % tot
  BY <1>1 DEF Remainders
<1>3. rem \in 0 .. tot - 1
  BY <1>2
<1>4. rem + 1 \in Nat /\ rem + 1 \in 1..tot /\ rem + 1 < 2^TotalWidth
  BY <1>3, WidthTypes, PowerType
<1>5. Wrap(TotalWidth, rem + 1) = rem + 1
  BY <1>4, WidthTypes, WrapFits
<1> QED BY <1>1, <1>4, <1>5

(***************************************************************************)
(* select_cube_index names the pair whose block holds the sample, and that *)
(* pair's cube is real: a block of no width holds no sample.               *)
(***************************************************************************)
LEMMA IndexOfBlock ==
  ASSUME NEW cubes \in [Pairs -> ParsedCubes], NEW bounds,
         \A k \in 0..PRODUCT : bounds[k] = Size(cubes, k),
         NEW zz \in 1 .. Size(cubes, PRODUCT)
  PROVE  LET n == select_cube_index(zz, bounds)
         IN  /\ n \in 1..PRODUCT
             /\ bounds[n - 1] < zz /\ zz <= bounds[n]
             /\ cubes[n - 1] \in RealCubes
<1> DEFINE AtOrAbove == {k \in 0..PRODUCT : zz <= Size(cubes, k)}
           Below == {k \in 0..PRODUCT : zz > bounds[k]}
<1>1. zz \in Nat /\ zz > 0 /\ PRODUCT \in 0..PRODUCT
      /\ \A k \in 0..PRODUCT : Size(cubes, k) \in Nat
  BY Sizes, SizeFits
<1>2. PICK j \in AtOrAbove : \A k \in AtOrAbove : j <= k
  <2>1. PRODUCT \in AtOrAbove
    BY <1>1
  <2>2. AtOrAbove \in SUBSET Nat
    OBVIOUS
  <2> QED BY <2>1, <2>2, LeastNatural
<1>3. j \in 1..PRODUCT /\ j - 1 \in Pairs
  BY <1>1, <1>2, SizeZero, Sizes DEF Pairs
<1>4. \A k \in 0..PRODUCT : zz > Size(cubes, k) <=> k < j
  <2>1. ASSUME NEW k \in 0..PRODUCT, k < j PROVE zz > Size(cubes, k)
    <3>1. k \notin AtOrAbove
      BY <1>2, <1>3, <2>1
    <3> QED BY <1>1, <3>1
  <2>2. ASSUME NEW k \in 0..PRODUCT, ~(k < j) PROVE ~(zz > Size(cubes, k))
    <3>1. j \in 0..PRODUCT /\ j <= k
      BY <1>3, <2>2
    <3>2. Size(cubes, j) <= Size(cubes, k)
      BY <3>1, SizeMonotone
    <3> QED BY <1>1, <1>2, <3>1, <3>2
  <2> QED BY <2>1, <2>2
<1>5. Below = 0 .. j - 1
  BY <1>3, <1>4, Sizes
<1>6. Cardinality(Below) = j
  <2>1. 0 \in Int /\ j - 1 \in Int
    BY <1>3
  <2>2. Cardinality(0 .. j - 1) = IF 0 > j - 1 THEN 0 ELSE j - 1 - 0 + 1
    BY <2>1, FS_Interval
  <2>3. j \in Nat /\ j > 0
    BY <1>3, Sizes
  <2>4. Cardinality(0 .. j - 1) = j
    BY <2>2, <2>3
  <2> QED BY <1>5, <2>4
<1>7. select_cube_index(zz, bounds) = j
  <2>1. PRODUCT + 1 < 2^IndexWidth
    BY Sizes, BitsForFits DEF IndexWidth
  <2>2. j \in Nat /\ j < 2^IndexWidth
    BY <1>3, <2>1, Sizes, WidthTypes, PowerType
  <2>3. Wrap(IndexWidth, j) = j
    BY <2>2, WidthTypes, WrapFits
  <2> QED BY <1>6, <2>3 DEF select_cube_index
<1>8. bounds[j - 1] < zz /\ zz <= bounds[j]
  <2>1. j - 1 \in 0..PRODUCT /\ j \in 0..PRODUCT
    BY <1>3, Sizes
  <2> QED BY <1>1, <1>2, <1>3, <1>4, <2>1
<1>9. cubes[j - 1] \in RealCubes
  <2>1. Size(cubes, j) = Size(cubes, j - 1) + Cardinality(Models(cubes[j - 1]))
    <3>1. (j - 1) + 1 = j
      BY <1>3
    <3> QED BY <1>3, <3>1, SizeStep
  <2>2. Models(cubes[j - 1]) # {}
    <3>1. SUFFICES ASSUME Models(cubes[j - 1]) = {} PROVE FALSE
      OBVIOUS
    <3>2. Cardinality(Models(cubes[j - 1])) = 0
      BY <3>1, FS_EmptySet
    <3>3. j - 1 \in 0..PRODUCT /\ j \in 0..PRODUCT /\ ~(j < j) /\ j - 1 < j
      BY <1>3, Sizes
    <3> QED BY <1>1, <1>4, <2>1, <3>2, <3>3
  <2>3. ~cubes[j - 1].pad
    BY <2>2 DEF Models
  <2>4. cubes[j - 1] \in ParsedCubes
    BY <1>3
  <2> QED BY <2>3, <2>4 DEF ParsedCubes, PadCube
<1> QED BY <1>3, <1>7, <1>8, <1>9

(***************************************************************************)
(* The mux delivers the cube of the index it is given.                     *)
(***************************************************************************)
LEMMA MuxDelivers ==
  ASSUME NEW idx \in 1..PRODUCT, NEW cubes
  PROVE  cube_at_index(idx, cubes)
           = [bits |-> cubes[idx - 1].bits, mask |-> cubes[idx - 1].mask]
<1>1. (IF idx \in 2..PRODUCT THEN idx - 1 ELSE 0) = idx - 1
  BY Sizes
<1> QED BY <1>1 DEF cube_at_index
-----------------------------------------------------------------------------
(***************************************************************************)
(* The inductive invariant of a trial, on top of TypeOK and CoverInv.      *)
(***************************************************************************)
SampleInv == pc \in Selecting /\ total > 0 => z \in 1..total
IndexInv ==
    pc \in Selected /\ total > 0 =>
        /\ index \in 1..PRODUCT
        /\ intervals[index - 1] < z /\ z <= intervals[index]
        /\ conjunction[index - 1] \in RealCubes
SelectedInv ==
    pc \in {"random_assignment"} \cup Assigned /\ total > 0 =>
        selected = [bits |-> conjunction[index - 1].bits,
                    mask |-> conjunction[index - 1].mask]
AssignmentInv ==
    pc \in Assigned /\ total > 0 => assignment \in Models(conjunction[index - 1])
CountInv ==
    pc = "divide_lookup" =>
        satisfied_count
            = Cardinality({k \in Pairs : assignment \in Models(conjunction[k])})
ScanInv ==
    IF pc = "is_canonical_sample"
    THEN /\ b2 <=> \E k \in 0 .. i - 1 : assignment \in Models(conjunction[k])
         /\ index \in 1..i =>
              (b1 <=> \A k \in 0 .. index - 2 :
                         assignment \notin Models(conjunction[k]))
    ELSE b2 = FALSE

TrialInv ==
    SampleInv /\ IndexInv /\ SelectedInv /\ AssignmentInv /\ CountInv /\ ScanInv

(***************************************************************************)
(* Outside a trial the invariant asks only that b2 be reset.               *)
(***************************************************************************)
LEMMA TrialInvOutside ==
  ASSUME pc \notin Selecting, b2 = FALSE
  PROVE  TrialInv
BY DEF TrialInv, SampleInv, IndexInv, SelectedInv, AssignmentInv, CountInv,
       ScanInv, Selecting, Selected, Assigned

(***************************************************************************)
(* During a trial the conjunction and the intervals are those of the       *)
(* inputs.                                                                 *)
(***************************************************************************)
LEMMA CoverDuringTrial ==
  ASSUME TypeOK, CoverInv, pc \in Selecting \cup {"sample_in_range"}
  PROVE  /\ conjunction \in [Pairs -> ParsedCubes]
         /\ \A k \in Pairs : Models(conjunction[k]) = PairModels(k)
         /\ \A k \in 0..PRODUCT : intervals[k] = Size(conjunction, k)
         /\ total = Size(conjunction, PRODUCT)
         /\ total \in Nat /\ total < 2^TotalWidth
<1>1. pc \notin Preparing \cup {"cube_intervals"}
  BY DEF Selecting, Selected, Preparing
<1>2. conjunction \in [Pairs -> ParsedCubes]
      /\ \A k \in Pairs : Models(conjunction[k]) = PairModels(k)
  BY <1>1, ConjunctionModels
  DEF CoverInv, InputsInv, ConjunctionInv, Preparing
<1>3. /\ \A k \in 0..PRODUCT : intervals[k] = Size(conjunction, k)
      /\ total = Size(conjunction, PRODUCT)
  BY <1>1 DEF CoverInv, IntervalsInv, TotalInv
<1>4. total \in Nat /\ total < 2^TotalWidth
  BY <1>3, Sizes, SizeFits
<1> QED BY <1>2, <1>3, <1>4

(***************************************************************************)
(* The number of satisfied cubes is the number of pairs that cover the     *)
(* assignment, and the word of the count holds it.                         *)
(***************************************************************************)
LEMMA CountCounts ==
  ASSUME NEW cubes \in [Pairs -> ParsedCubes], NEW a \in Assignments
  PROVE  /\ count_satisfied_cubes(a, cubes)
              = Cardinality({k \in Pairs : a \in Models(cubes[k])})
         /\ IsFiniteSet({k \in Pairs : a \in Models(cubes[k])})
         /\ Cardinality({k \in Pairs : a \in Models(cubes[k])}) \in 0..PRODUCT
<1> DEFINE C == {k \in Pairs : a \in Models(cubes[k])}
<1>1. {k \in Pairs : satisfied(a, cubes[k])} = C
  BY SatisfiedIsModel
<1>2. IsFiniteSet(Pairs) /\ Cardinality(Pairs) = PRODUCT
  <2>1. 0 \in Int /\ PRODUCT - 1 \in Int
    BY Sizes
  <2>2. /\ IsFiniteSet(0 .. PRODUCT - 1)
        /\ Cardinality(0 .. PRODUCT - 1)
              = IF 0 > PRODUCT - 1 THEN 0 ELSE PRODUCT - 1 - 0 + 1
    BY <2>1, FS_Interval
  <2> QED BY <2>2, Sizes DEF Pairs
<1>3. IsFiniteSet(C) /\ Cardinality(C) \in 0..PRODUCT
  <2>1. C \in SUBSET Pairs
    OBVIOUS
  <2>2. IsFiniteSet(C) /\ Cardinality(C) <= Cardinality(Pairs)
    BY <1>2, <2>1, FS_Subset
  <2>3. Cardinality(C) \in Nat
    BY <2>2, FS_CardinalityType
  <2> QED BY <1>2, <2>2, <2>3, Sizes
<1>4. Wrap(CountWidth, Cardinality(C)) = Cardinality(C)
  <2>1. PRODUCT < 2^CountWidth
    BY Sizes, BitsForFits DEF CountWidth
  <2>2. Cardinality(C) \in Nat /\ Cardinality(C) < 2^CountWidth
    BY <1>3, <2>1, Sizes, WidthTypes, PowerType
  <2> QED BY <2>2, WidthTypes, WrapFits
<1> QED BY <1>1, <1>3, <1>4 DEF count_satisfied_cubes

(***************************************************************************)
(* Every step preserves the trial's invariant.                             *)
(***************************************************************************)
LEMMA NextTrialInv == TypeOK /\ CoverInv /\ TrialInv /\ [Next]_vars => TrialInv'
<1> SUFFICES ASSUME TypeOK, CoverInv, TrialInv, [Next]_vars PROVE TrialInv'
  OBVIOUS
<1>1. ASSUME pc' \notin Selecting, b2' = FALSE PROVE TrialInv'
  BY <1>1
  DEF TrialInv, SampleInv, IndexInv, SelectedInv, AssignmentInv, CountInv,
      ScanInv, Selecting, Selected, Assigned
<1>2. pc # "is_canonical_sample" => b2 = FALSE
  BY DEF TrialInv, ScanInv
<1>3. CASE \/ FeedCubes \/ ConjoinDnf \/ CubeWeights
           \/ AddWeight \/ BeginIntervals \/ AddInterval \/ BeginTrials
  <2>1. pc' \notin Selecting
    BY <1>3
    DEF FeedCubes, ConjoinDnf, CubeWeights, AddWeight, BeginIntervals,
        AddInterval, BeginTrials, Selecting, Selected
  <2>2. pc # "is_canonical_sample" /\ b2' = b2
    BY <1>3
    DEF FeedCubes, ConjoinDnf, CubeWeights, AddWeight, BeginIntervals,
        AddInterval, BeginTrials, trialVars
  <2> QED BY <1>1, <1>2, <2>1, <2>2
<1>4. CASE BeginEstimate \/ AddOutcome \/ RevealEstimate \/ Terminating
  <2>1. pc' \notin Selecting
    BY <1>4
    DEF BeginEstimate, AddOutcome, RevealEstimate, Terminating, vars,
        Selecting, Selected
  <2>2. pc # "is_canonical_sample" /\ b2' = b2
    BY <1>4
    DEF BeginEstimate, AddOutcome, RevealEstimate, Terminating, vars, trialVars
  <2> QED BY <1>1, <1>2, <2>1, <2>2
<1>5. CASE SampleInRange
  <2>1. /\ pc = "sample_in_range" /\ pc' = "select_cube_index"
        /\ total' = total /\ b2' = b2
    BY <1>5 DEF SampleInRange, coverVars
  <2>2. total > 0 => z' \in 1..total
    <3>1. PICK joint_r \in 0 .. 2^TotalWidth - 1 : z' \in sample_in_range(joint_r, total)
      BY <1>5 DEF SampleInRange
    <3>2. joint_r \in Nat /\ total \in Nat /\ total < 2^TotalWidth
      BY <2>1, CoverDuringTrial
    <3> QED BY <3>1, <3>2, SampleInTotal
  <2> QED
    BY <1>2, <2>1, <2>2
    DEF TrialInv, SampleInv, IndexInv, SelectedInv, AssignmentInv, CountInv,
        ScanInv, Selecting, Selected, Assigned
<1>6. CASE SelectCubeIndex
  <2>1. /\ pc = "select_cube_index" /\ pc' = "cube_at_index"
        /\ conjunction' = conjunction /\ total' = total
        /\ intervals' = intervals /\ z' = z /\ b2' = b2
        /\ index' = select_cube_index(z, intervals)
    BY <1>6 DEF SelectCubeIndex, coverVars
  <2>2. total > 0 => z \in 1..total
    BY <2>1 DEF TrialInv, SampleInv, Selecting
  <2>3. total > 0 => /\ index' \in 1..PRODUCT
                     /\ intervals[index' - 1] < z /\ z <= intervals[index']
                     /\ conjunction[index' - 1] \in RealCubes
    <3> SUFFICES ASSUME total > 0
                 PROVE  /\ index' \in 1..PRODUCT
                        /\ intervals[index' - 1] < z /\ z <= intervals[index']
                        /\ conjunction[index' - 1] \in RealCubes
      OBVIOUS
    <3>1. /\ conjunction \in [Pairs -> ParsedCubes]
          /\ \A k \in 0..PRODUCT : intervals[k] = Size(conjunction, k)
          /\ z \in 1 .. Size(conjunction, PRODUCT)
      BY <2>1, <2>2, CoverDuringTrial DEF Selecting
    <3> QED BY <2>1, <3>1, IndexOfBlock
  <2> QED
    BY <1>2, <2>1, <2>2, <2>3
    DEF TrialInv, SampleInv, IndexInv, SelectedInv, AssignmentInv, CountInv,
        ScanInv, Selecting, Selected, Assigned
<1>7. CASE CubeAtIndex
  <2>1. /\ pc = "cube_at_index" /\ pc' = "random_assignment"
        /\ conjunction' = conjunction /\ total' = total
        /\ intervals' = intervals /\ z' = z /\ index' = index /\ b2' = b2
        /\ selected' = cube_at_index(index, conjunction)
    BY <1>7 DEF CubeAtIndex, coverVars
  <2>2. SampleInv' /\ IndexInv'
    BY <2>1 DEF TrialInv, SampleInv, IndexInv, Selecting, Selected
  <2>3. SelectedInv'
    BY <2>1, MuxDelivers DEF TrialInv, IndexInv, SelectedInv, Selected
  <2> QED
    BY <1>2, <2>1, <2>2, <2>3
    DEF TrialInv, AssignmentInv, CountInv, ScanInv, Assigned
<1>8. CASE RandomAssignment
  <2>1. /\ pc = "random_assignment"
        /\ pc' \in {"count_satisfied_cubes", "is_canonical_sample"}
        /\ conjunction' = conjunction /\ total' = total
        /\ intervals' = intervals /\ z' = z /\ index' = index /\ b2' = b2
        /\ selected' = selected /\ i' = i /\ i = 0
    BY <1>8 DEF RandomAssignment, coverVars, TypeOK
  <2>2. SampleInv' /\ IndexInv' /\ SelectedInv'
    BY <2>1
    DEF TrialInv, SampleInv, IndexInv, SelectedInv, Selecting, Selected, Assigned
  <2>3. AssignmentInv'
    <3>1. PICK r \in SUBSET Vars : assignment' = random_assignment(selected, r)
      BY <1>8 DEF RandomAssignment
    <3>2. total > 0 =>
            /\ conjunction[index - 1] \in RealCubes
            /\ selected = [bits |-> conjunction[index - 1].bits,
                           mask |-> conjunction[index - 1].mask]
      BY <2>1 DEF TrialInv, IndexInv, SelectedInv, Selected
    <3>3. total > 0 => assignment' \in Models(conjunction[index - 1])
      BY <3>1, <3>2, RandomAssignmentIsModel
    <3> QED BY <2>1, <3>3 DEF AssignmentInv
  <2>4. ScanInv'
    BY <1>2, <2>1 DEF ScanInv
  <2> QED
    BY <2>1, <2>2, <2>3, <2>4 DEF TrialInv, CountInv
<1>9. CASE CountSatisfiedCubes
  <2>1. /\ pc = "count_satisfied_cubes" /\ pc' = "divide_lookup"
        /\ conjunction' = conjunction /\ total' = total
        /\ intervals' = intervals /\ z' = z /\ index' = index /\ b2' = b2
        /\ selected' = selected /\ assignment' = assignment
        /\ satisfied_count' = count_satisfied_cubes(assignment, conjunction)
    BY <1>9 DEF CountSatisfiedCubes, coverVars
  <2>2. SampleInv' /\ IndexInv' /\ SelectedInv' /\ AssignmentInv' /\ ScanInv'
    BY <1>2, <2>1
    DEF TrialInv, SampleInv, IndexInv, SelectedInv, AssignmentInv, ScanInv,
        Selecting, Selected, Assigned
  <2>3. CountInv'
    <3>1. conjunction \in [Pairs -> ParsedCubes] /\ assignment \in Assignments
      BY <2>1, CoverDuringTrial DEF Selecting, Selected, TypeOK
    <3> QED BY <2>1, <3>1, CountCounts DEF CountInv
  <2> QED BY <2>2, <2>3 DEF TrialInv
<1>10. CASE DivideLookup \/ EndScan
  BY <1>1, <1>10 DEF DivideLookup, EndScan, EndTrial, Selecting, Selected
<1>11. CASE ScanCube
  <2>1. /\ pc = "is_canonical_sample" /\ pc' = pc
        /\ i \in Pairs /\ i' = i + 1
        /\ conjunction' = conjunction /\ total' = total
        /\ intervals' = intervals /\ z' = z /\ index' = index
        /\ selected' = selected /\ assignment' = assignment
        /\ b1' = IF index = i + 1 THEN ~b2 ELSE b1
        /\ b2' = (b2 \/ satisfied(assignment, conjunction[i]))
    BY <1>11, Sizes DEF ScanCube, coverVars, TypeOK, Pairs
  <2>2. SampleInv' /\ IndexInv' /\ SelectedInv' /\ AssignmentInv' /\ CountInv'
    BY <2>1
    DEF TrialInv, SampleInv, IndexInv, SelectedInv, AssignmentInv, CountInv,
        Selecting, Selected, Assigned
  <2>3. satisfied(assignment, conjunction[i]) <=> assignment \in Models(conjunction[i])
    <3>1. conjunction \in [Pairs -> ParsedCubes] /\ assignment \in Assignments
      BY <2>1, CoverDuringTrial DEF Selecting, Selected, TypeOK
    <3> QED BY <2>1, <3>1, SatisfiedIsModel
  <2>4. /\ b2 <=> \E k \in 0 .. i - 1 : assignment \in Models(conjunction[k])
        /\ index \in 1..i =>
             (b1 <=> \A k \in 0 .. index - 2 :
                        assignment \notin Models(conjunction[k]))
    BY <2>1 DEF TrialInv, ScanInv
  <2>5. i \in Nat /\ (i + 1) - 1 = i /\ (i + 1) - 2 = i - 1
    BY <2>1, Sizes DEF Pairs
  <2>6. b2' <=> \E k \in 0 .. (i + 1) - 1 : assignment \in Models(conjunction[k])
    <3>1. \A k : k \in 0 .. (i + 1) - 1 <=> k \in 0 .. i - 1 \/ k = i
      BY <2>5
    <3> QED BY <2>1, <2>3, <2>4, <3>1
  <2>7. index \in 1..(i + 1) =>
          (b1' <=> \A k \in 0 .. index - 2 : assignment \notin Models(conjunction[k]))
    <3>1. CASE index = i + 1
      <4>1. 0 .. index - 2 = 0 .. i - 1
        BY <2>5, <3>1
      <4> QED BY <2>1, <2>4, <3>1, <4>1
    <3>2. CASE index # i + 1
      <4>1. index \in 1..(i + 1) => index \in 1..i
        BY <2>5, <3>2
      <4> QED BY <2>1, <2>4, <3>2, <4>1
    <3> QED BY <3>1, <3>2
  <2>8. ScanInv'
    BY <2>1, <2>6, <2>7 DEF ScanInv
  <2> QED BY <2>2, <2>8 DEF TrialInv
<1>12. CASE UNCHANGED vars
  BY <1>12
  DEF vars, coverVars, trialVars, TrialInv, SampleInv, IndexInv, SelectedInv,
      AssignmentInv, CountInv, ScanInv
<1> QED
  BY <1>3, <1>4, <1>5, <1>6, <1>7, <1>8, <1>9, <1>10, <1>11, <1>12 DEF Next

(***************************************************************************)
(* The invariants of the cover and of a trial hold throughout.             *)
(***************************************************************************)
LEMMA TrialInvariant == Spec => [](TypeOK /\ CoverInv /\ TrialInv)
<1>1. Init => TrialInv
  <2>1. Init => pc \notin Selecting /\ b2 = FALSE
    BY DEF Init, Selecting, Selected
  <2> QED BY <2>1, TrialInvOutside
<1> QED
  BY <1>1, InitTypeOK, NextTypeOK, InitCoverInv, NextCoverInv, NextTrialInv, PTL
  DEF Spec

(***************************************************************************)
(* Every sample falls in the block of a satisfiable pair, the one that     *)
(* select_cube_index names.                                                *)
(***************************************************************************)
THEOREM SamplesSelectRealPairs == Spec => []SampleSelectsRealPair
<1>1. TypeOK /\ CoverInv /\ TrialInv => SampleSelectsRealPair
  <2> SUFFICES ASSUME TypeOK, CoverInv, TrialInv, pc \in Selected, total > 0
               PROVE  /\ index \in 1..PRODUCT
                      /\ intervals[index - 1] < z /\ z <= intervals[index]
                      /\ PairModels(index - 1) # {}
    BY DEF SampleSelectsRealPair
  <2>1. /\ index \in 1..PRODUCT
        /\ intervals[index - 1] < z /\ z <= intervals[index]
        /\ conjunction[index - 1] \in RealCubes
    BY DEF TrialInv, IndexInv
  <2>2. index - 1 \in Pairs
    BY <2>1, Sizes DEF Pairs
  <2>3. Models(conjunction[index - 1]) # {}
    BY <2>1, RandomAssignmentIsModel
  <2>4. Models(conjunction[index - 1]) = PairModels(index - 1)
    BY <2>2, CoverDuringTrial DEF Selecting
  <2> QED BY <2>1, <2>3, <2>4
<1> QED BY <1>1, TrialInvariant, PTL

(***************************************************************************)
(* Whatever bits the parties draw, the assignment of a trial satisfies     *)
(* both of the input cubes that the selected pair joins.                   *)
(***************************************************************************)
THEOREM AssignmentsSatisfyPairs == Spec => []AssignmentSatisfiesPair
<1>1. TypeOK /\ CoverInv /\ TrialInv => AssignmentSatisfiesPair
  <2> SUFFICES ASSUME TypeOK, CoverInv, TrialInv, pc \in Assigned, total > 0
               PROVE  assignment \in PairModels(index - 1)
    BY DEF AssignmentSatisfiesPair
  <2>1. index \in 1..PRODUCT /\ assignment \in Models(conjunction[index - 1])
    BY DEF TrialInv, IndexInv, AssignmentInv, Selected, Assigned
  <2>2. index - 1 \in Pairs
    BY <2>1, Sizes DEF Pairs
  <2> QED BY <2>1, <2>2, CoverDuringTrial DEF Selecting, Selected, Assigned
<1> QED BY <1>1, TrialInvariant, PTL

(***************************************************************************)
(* divide_lookup is asked for the exact number of pairs that cover the     *)
(* assignment; it is an entry of the table, never 0.                       *)
(***************************************************************************)
THEOREM CountsAreCoverDegrees == Spec => []CountIsCoverDegree
<1>1. TypeOK /\ CoverInv /\ TrialInv => CountIsCoverDegree
  <2> SUFFICES ASSUME TypeOK, CoverInv, TrialInv, pc = "divide_lookup", total > 0
               PROVE  /\ satisfied_count
                            = Cardinality({k \in Pairs : assignment \in PairModels(k)})
                      /\ satisfied_count \in 1..PRODUCT
    BY DEF CountIsCoverDegree
  <2> DEFINE C == {k \in Pairs : assignment \in Models(conjunction[k])}
  <2>1. /\ conjunction \in [Pairs -> ParsedCubes]
        /\ \A k \in Pairs : Models(conjunction[k]) = PairModels(k)
    BY CoverDuringTrial DEF Selecting, Selected
  <2>2. satisfied_count = Cardinality(C)
    BY DEF TrialInv, CountInv
  <2>3. C = {k \in Pairs : assignment \in PairModels(k)}
    BY <2>1
  <2>4. IsFiniteSet(C) /\ Cardinality(C) \in 0..PRODUCT
    BY <2>1, CountCounts DEF TypeOK
  <2>5. index - 1 \in C
    <3>1. index \in 1..PRODUCT /\ assignment \in Models(conjunction[index - 1])
      BY DEF TrialInv, IndexInv, AssignmentInv, Selected, Assigned
    <3> QED BY <3>1, Sizes DEF Pairs
  <2>6. Cardinality(C) # 0
    BY <2>4, <2>5, FS_EmptySet
  <2>7. Cardinality(C) \in 1..PRODUCT
    BY <2>4, <2>6, Sizes
  <2> QED BY <2>2, <2>3, <2>7
<1> QED BY <1>1, TrialInvariant, PTL

(***************************************************************************)
(* The scan of is_canonical_sample ends with the answer to the question    *)
(* whether an earlier pair covers the assignment.                          *)
(***************************************************************************)
THEOREM CanonicalSamplesAreFirst == Spec => []CanonicalIsFirstCover
<1>1. TypeOK /\ CoverInv /\ TrialInv => CanonicalIsFirstCover
  <2> SUFFICES ASSUME TypeOK, CoverInv, TrialInv,
                      pc = "is_canonical_sample", i = PRODUCT, total > 0
               PROVE  b1 <=> \A k \in Pairs :
                               k < index - 1 => assignment \notin PairModels(k)
    BY DEF CanonicalIsFirstCover
  <2>1. \A k \in Pairs : Models(conjunction[k]) = PairModels(k)
    BY CoverDuringTrial DEF Selecting, Selected
  <2>2. index \in 1..PRODUCT
    BY DEF TrialInv, IndexInv, Selected
  <2>3. b1 <=> \A k \in 0 .. index - 2 : assignment \notin Models(conjunction[k])
    BY <2>2 DEF TrialInv, ScanInv
  <2>4. \A k : k \in 0 .. index - 2 <=> k \in Pairs /\ k < index - 1
    BY <2>2, Sizes DEF Pairs
  <2> QED BY <2>1, <2>3, <2>4
<1> QED BY <1>1, TrialInvariant, PTL

-----------------------------------------------------------------------------
(***************************************************************************)
(* The estimate: what the circuit reveals, for every capacity, every       *)
(* number of trials, every pair of DNFs and every draw, and what it is     *)
(* over all draws.                                                         *)
(*                                                                         *)
(* EstimateInv follows the loop of trials: the sum is that of the outcomes *)
(* of the trials so far, each outcome is a score that the coverage         *)
(* algorithm may write, and so neither the sum nor its product with the    *)
(* weight outgrows its word.  With it every step of the circuit is a step  *)
(* of the coverage algorithm or none.                                      *)
(*                                                                         *)
(* For the coverage theorem the draws of a trial are sorted by the element *)
(* of the coverage space that they pick.  A pair with m models is selected *)
(* by m samples, and each of its models is filled in from 2^VARS / m       *)
(* random words: every element is picked by 2^VARS draws, and the sum over *)
(* the draws is 2^VARS times the one over the coverage space.              *)
(*                                                                         *)
(* Sums are a fold of the library's, and what is said of them is proved by *)
(* induction on the set that is summed over.                               *)
(***************************************************************************)

(***************************************************************************)
(* The sum of a function: what SumFunctionOnSet, a fold that removes one   *)
(* element after another by CHOOSE, computes.                              *)
(***************************************************************************)
SumsOf(f, S, g) ==
    g = [s \in SUBSET S |-> IF s = {} THEN 0
                            ELSE LET x == CHOOSE x \in s : TRUE
                                 IN  f[x] + g[s \ {x}]]

(***************************************************************************)
(* The library's sum is the function that SumsOf describes.                *)
(***************************************************************************)
LEMMA SumIsFold ==
  ASSUME NEW f, NEW S
  PROVE  SumFunctionOnSet(f, S) = (CHOOSE g : SumsOf(f, S, g))[S]
BY DEF SumFunctionOnSet, FoldFunctionOnSet, MapThenFoldSet, SumsOf

(***************************************************************************)
(* The fold over the subsets of a finite set exists.                       *)
(***************************************************************************)
LEMMA SumExists ==
  ASSUME NEW f, NEW S, IsFiniteSet(S)
  PROVE  SumsOf(f, S, CHOOSE g : SumsOf(f, S, g))
<1> DEFINE Small(n) == {s \in SUBSET S : Cardinality(s) <= n}
           c(s) == CHOOSE x \in s : TRUE
           Upto(n, g) == g = [s \in Small(n) |->
                               IF s = {} THEN 0 ELSE f[c(s)] + g[s \ {c(s)}]]
           N == {n \in Nat : \E g : Upto(n, g)}
<1>1. \A s \in SUBSET S : IsFiniteSet(s) /\ Cardinality(s) \in Nat
  BY FS_Subset, FS_CardinalityType
<1>2. ASSUME NEW s \in SUBSET S, s # {}
      PROVE  /\ s \ {c(s)} \in SUBSET S
             /\ Cardinality(s \ {c(s)}) = Cardinality(s) - 1
  <2>1. c(s) \in s
    BY <1>2
  <2> QED BY <1>1, <2>1, FS_RemoveElement
<1>3. 0 \in N
  <2>1. \A s \in Small(0) : s = {}
    BY <1>1, FS_EmptySet
  <2>2. Upto(0, [s \in Small(0) |-> 0])
    BY <2>1
  <2> QED BY <2>2
<1>4. ASSUME NEW n \in N PROVE n + 1 \in N
  <2>1. PICK g : Upto(n, g)
    OBVIOUS
  <2> DEFINE h == [s \in Small(n + 1) |->
                     IF s = {} THEN 0 ELSE f[c(s)] + g[s \ {c(s)}]]
  <2>2. Small(n) \subseteq Small(n + 1)
    BY <1>1
  <2>3. \A s \in Small(n + 1) : s # {} => s \ {c(s)} \in Small(n)
    BY <1>1, <1>2
  <2> HIDE DEF Small, c
  <2>4. \A s \in Small(n) : g[s] = IF s = {} THEN 0 ELSE f[c(s)] + g[s \ {c(s)}]
    BY <2>1
  <2>5. \A s \in Small(n) : h[s] = g[s]
    BY <2>2, <2>4
  <2>6. \A s \in Small(n + 1) : s # {} => g[s \ {c(s)}] = h[s \ {c(s)}]
    BY <2>3, <2>5
  <2>7. Upto(n + 1, h)
    <3>1. h = [s \in Small(n + 1) |->
                 IF s = {} THEN 0 ELSE f[c(s)] + h[s \ {c(s)}]]
      <4> DEFINE k == [s \in Small(n + 1) |->
                         IF s = {} THEN 0 ELSE f[c(s)] + h[s \ {c(s)}]]
      <4>1. \A s \in Small(n + 1) : h[s] = k[s]
        BY <2>6
      <4>2. h = k
        BY <4>1
      <4> QED BY <4>2
    <3> QED BY <3>1
  <2>8. n + 1 \in Nat
    OBVIOUS
  <2> QED BY <2>7, <2>8
<1>5. N = Nat
  <2> HIDE DEF N
  <2>1. N \in SUBSET Nat
    BY DEF N
  <2> QED BY <1>3, <1>4, <2>1, GoodNaturals
<1>6. PICK g : Upto(Cardinality(S), g)
  BY <1>1, <1>5
<1>7. Small(Cardinality(S)) = SUBSET S
  BY <1>1, FS_Subset
<1>8. SumsOf(f, S, g)
  BY <1>6, <1>7 DEF SumsOf
<1> QED BY <1>8

(***************************************************************************)
(* The empty sum is 0; a sum of integers is an integer; and the sum over a *)
(* set with one more element is that element's value more, whichever the   *)
(* element and whatever set the fold started from.                         *)
(***************************************************************************)
LEMMA SumFacts ==
  ASSUME NEW S, IsFiniteSet(S), NEW f, \A x \in S : f[x] \in Int
  PROVE  /\ SumFunctionOnSet(f, {}) = 0
         /\ \A s \in SUBSET S : SumFunctionOnSet(f, s) \in Int
         /\ \A s \in SUBSET S : \A x \in s :
              SumFunctionOnSet(f, s) = SumFunctionOnSet(f, s \ {x}) + f[x]
<1> DEFINE c(s) == CHOOSE x \in s : TRUE
           g(T) == CHOOSE h : SumsOf(f, T, h)
<1>1. ASSUME NEW T \in SUBSET S, NEW s \in SUBSET T
      PROVE  g(T)[s] = IF s = {} THEN 0 ELSE f[c(s)] + g(T)[s \ {c(s)}]
  <2>1. SumsOf(f, T, g(T))
    BY FS_Subset, SumExists
  <2> HIDE DEF g
  <2> QED BY <2>1 DEF SumsOf
<1>2. \A T : SumFunctionOnSet(f, T) = g(T)[T]
  BY SumIsFold
<1>3. \A s : s # {} => c(s) \in s
  OBVIOUS
<1> HIDE DEF c, g
<1>4. ASSUME NEW T \in SUBSET S, NEW s \in SUBSET T PROVE g(T)[s] = g(S)[s]
  <2> DEFINE G == {u \in SUBSET T : g(T)[u] = g(S)[u]}
  <2>1. {} \in G
    BY <1>1
  <2>2. ASSUME NEW u \in SUBSET T, u # {}, \A x \in u : u \ {x} \in G
        PROVE  u \in G
    <3>1. g(T)[u \ {c(u)}] = g(S)[u \ {c(u)}]
      BY <1>3, <2>2
    <3>2. u \in SUBSET S /\ u # {}
      BY <2>2
    <3>3. g(T)[u] = f[c(u)] + g(T)[u \ {c(u)}]
      BY <1>1, <3>2
    <3>4. g(S)[u] = f[c(u)] + g(S)[u \ {c(u)}]
      BY <1>1, <3>2
    <3> QED BY <3>1, <3>3, <3>4
  <2>3. IsFiniteSet(T)
    BY FS_Subset
  <2> HIDE DEF G
  <2>4. G \in SUBSET SUBSET T
    BY DEF G
  <2>5. G = SUBSET T
    BY <2>1, <2>2, <2>3, <2>4, GoodSubsets
  <2> QED BY <2>5 DEF G
<1>5. ASSUME NEW s \in SUBSET S PROVE g(S)[s] \in Int
  <2> DEFINE G == {u \in SUBSET S : g(S)[u] \in Int}
  <2>1. {} \in G
    <3>1. {} \in SUBSET S /\ S \in SUBSET S
      OBVIOUS
    <3>2. g(S)[{}] = IF {} = {} THEN 0 ELSE f[c({})] + g(S)[{} \ {c({})}]
      BY <1>1, <3>1
    <3>3. g(S)[{}] = 0
      BY <3>2
    <3> QED BY <3>3
  <2>2. ASSUME NEW u \in SUBSET S, u # {}, \A x \in u : u \ {x} \in G
        PROVE  u \in G
    <3>1. c(u) \in u /\ g(S)[u \ {c(u)}] \in Int /\ f[c(u)] \in Int
      BY <1>3, <2>2
    <3>2. g(S)[u] = f[c(u)] + g(S)[u \ {c(u)}]
      BY <1>1, <2>2
    <3> QED BY <3>1, <3>2
  <2> HIDE DEF G
  <2>3. G \in SUBSET SUBSET S
    BY DEF G
  <2>4. G = SUBSET S
    BY <2>1, <2>2, <2>3, GoodSubsets
  <2> QED BY <2>4 DEF G
<1>6. ASSUME NEW s \in SUBSET S, NEW x \in s
      PROVE  g(S)[s] = g(S)[s \ {x}] + f[x]
  <2> DEFINE G == {u \in SUBSET S : \A y \in u : g(S)[u] = g(S)[u \ {y}] + f[y]}
  <2>1. {} \in G
    OBVIOUS
  <2>2. ASSUME NEW u \in SUBSET S, u # {}, \A y \in u : u \ {y} \in G,
               NEW y \in u
        PROVE  g(S)[u] = g(S)[u \ {y}] + f[y]
    <3> DEFINE d == c(u)
    <3>1. d \in u /\ g(S)[u] = f[d] + g(S)[u \ {d}]
      BY <1>1, <1>3, <2>2
    <3> HIDE DEF d
    <3>2. CASE y = d
      BY <1>5, <3>1, <3>2
    <3>3. CASE y # d
      <4> DEFINE rest == (u \ {d}) \ {y}
      <4>1. rest = (u \ {y}) \ {d} /\ rest \in SUBSET S
        OBVIOUS
      <4>2. u \ {d} \in G /\ y \in u \ {d}
        BY <2>2, <3>1, <3>3
      <4>3. u \ {y} \in G /\ d \in u \ {y}
        BY <2>2, <3>1, <3>3
      <4>4. g(S)[u \ {d}] = g(S)[rest] + f[y]
        BY <4>2
      <4>5. g(S)[u \ {y}] = g(S)[rest] + f[d]
        BY <4>1, <4>3
      <4> HIDE DEF rest
      <4>6. g(S)[rest] \in Int /\ f[y] \in Int /\ f[d] \in Int
        BY <1>5, <3>1, <4>1
      <4> QED BY <3>1, <4>4, <4>5, <4>6
    <3> QED BY <3>2, <3>3
  <2> HIDE DEF G
  <2>3. ASSUME NEW u \in SUBSET S, u # {}, \A y \in u : u \ {y} \in G
        PROVE  u \in G
    BY <2>2, <2>3 DEF G
  <2>4. G \in SUBSET SUBSET S
    BY DEF G
  <2>5. G = SUBSET S
    BY <2>1, <2>3, <2>4, GoodSubsets
  <2> QED BY <2>5 DEF G
<1>7. \A T \in SUBSET S : SumFunctionOnSet(f, T) = g(S)[T]
  BY <1>2, <1>4
<1>8. SumFunctionOnSet(f, {}) = 0
  BY <1>1, <1>7
<1>9. \A s \in SUBSET S : \A x \in s : s \ {x} \in SUBSET S
  OBVIOUS
<1> QED BY <1>5, <1>6, <1>7, <1>8, <1>9

(***************************************************************************)
(* Two sums over disjoint sets are one sum over both.                      *)
(***************************************************************************)
LEMMA SumUnion ==
  ASSUME NEW A, IsFiniteSet(A), NEW B, IsFiniteSet(B), A \cap B = {},
         NEW f, \A x \in A \cup B : f[x] \in Int
  PROVE  SumFunctionOnSet(f, A \cup B)
           = SumFunctionOnSet(f, A) + SumFunctionOnSet(f, B)
<1> DEFINE S == A \cup B
           G == {u \in SUBSET B : SumFunctionOnSet(f, A \cup u)
                        = SumFunctionOnSet(f, A) + SumFunctionOnSet(f, u)}
<1>1. IsFiniteSet(S)
  BY FS_Union
<1>2. /\ SumFunctionOnSet(f, {}) = 0
      /\ \A s \in SUBSET S : SumFunctionOnSet(f, s) \in Int
      /\ \A s \in SUBSET S : \A x \in s :
           SumFunctionOnSet(f, s) = SumFunctionOnSet(f, s \ {x}) + f[x]
  BY <1>1, SumFacts
<1>3. {} \in G
  <2>1. A \cup {} = A /\ A \in SUBSET S
    OBVIOUS
  <2>2. SumFunctionOnSet(f, A) \in Int
    BY <1>2, <2>1
  <2> QED BY <1>2, <2>1, <2>2
<1>4. ASSUME NEW u \in SUBSET B, u # {}, \A x \in u : u \ {x} \in G
      PROVE  u \in G
  <2>1. PICK x : x \in u
    BY <1>4
  <2> DEFINE v == u \ {x}
  <2>2. (A \cup u) \ {x} = A \cup v /\ x \in A \cup u /\ x \in S
    BY <2>1
  <2>3. SumFunctionOnSet(f, A \cup v)
          = SumFunctionOnSet(f, A) + SumFunctionOnSet(f, v)
    BY <1>4, <2>1
  <2>4. A \cup u \in SUBSET S /\ A \in SUBSET S /\ u \in SUBSET S /\ v \in SUBSET S
    OBVIOUS
  <2>5. SumFunctionOnSet(f, u) = SumFunctionOnSet(f, v) + f[x]
    BY <1>2, <2>1, <2>4
  <2>6. SumFunctionOnSet(f, A \cup u) = SumFunctionOnSet(f, A \cup v) + f[x]
    BY <1>2, <2>2, <2>4
  <2> HIDE DEF v
  <2>7. /\ SumFunctionOnSet(f, A) \in Int /\ SumFunctionOnSet(f, v) \in Int
        /\ f[x] \in Int
    BY <1>2, <2>2, <2>4
  <2> QED BY <2>3, <2>5, <2>6, <2>7
<1> HIDE DEF G
<1>5. G \in SUBSET SUBSET B
  BY DEF G
<1>6. G = SUBSET B
  BY <1>3, <1>4, <1>5, GoodSubsets
<1> QED BY <1>6 DEF G

(***************************************************************************)
(* A sum of one and the same value.                                        *)
(***************************************************************************)
LEMMA SumConstant ==
  ASSUME NEW S, IsFiniteSet(S), NEW v \in Int, NEW f, \A x \in S : f[x] = v
  PROVE  SumFunctionOnSet(f, S) = Cardinality(S) * v
<1> DEFINE G == {s \in SUBSET S : SumFunctionOnSet(f, s) = Cardinality(s) * v}
<1>1. /\ SumFunctionOnSet(f, {}) = 0
      /\ \A s \in SUBSET S : SumFunctionOnSet(f, s) \in Int
      /\ \A s \in SUBSET S : \A x \in s :
           SumFunctionOnSet(f, s) = SumFunctionOnSet(f, s \ {x}) + f[x]
  BY SumFacts
<1>2. {} \in G
  BY <1>1, FS_EmptySet
<1>3. ASSUME NEW u \in SUBSET S, u # {}, \A x \in u : u \ {x} \in G
      PROVE  u \in G
  <2>1. PICK x : x \in u
    BY <1>3
  <2>2. SumFunctionOnSet(f, u) = SumFunctionOnSet(f, u \ {x}) + v
    BY <1>1, <2>1
  <2>3. SumFunctionOnSet(f, u \ {x}) = Cardinality(u \ {x}) * v
    BY <1>3, <2>1
  <2>4. IsFiniteSet(u) /\ Cardinality(u) \in Nat
    BY FS_Subset, FS_CardinalityType
  <2>5. Cardinality(u \ {x}) = Cardinality(u) - 1
    BY <2>1, <2>4, FS_RemoveElement
  <2>6. \A m, w \in Int : (m - 1) * w + w = m * w
    OBVIOUS
  <2> QED BY <2>2, <2>3, <2>4, <2>5, <2>6
<1> HIDE DEF G
<1>4. G \in SUBSET SUBSET S
  BY DEF G
<1>5. G = SUBSET S
  BY <1>2, <1>3, <1>4, GoodSubsets
<1> QED BY <1>5 DEF G

(***************************************************************************)
(* A sum of values in 0..b.                                                *)
(***************************************************************************)
LEMMA SumBounded ==
  ASSUME NEW S, IsFiniteSet(S), NEW b \in Nat, NEW f, \A x \in S : f[x] \in 0..b
  PROVE  SumFunctionOnSet(f, S) \in 0 .. Cardinality(S) * b
<1> DEFINE G == {s \in SUBSET S : SumFunctionOnSet(f, s) \in 0 .. Cardinality(s) * b}
<1>1. /\ SumFunctionOnSet(f, {}) = 0
      /\ \A s \in SUBSET S : \A x \in s :
           SumFunctionOnSet(f, s) = SumFunctionOnSet(f, s \ {x}) + f[x]
  BY SumFacts
<1>2. {} \in G
  BY <1>1, FS_EmptySet
<1>3. ASSUME NEW u \in SUBSET S, u # {}, \A x \in u : u \ {x} \in G
      PROVE  u \in G
  <2>1. PICK x : x \in u
    BY <1>3
  <2> DEFINE rest == SumFunctionOnSet(f, u \ {x})
  <2>2. SumFunctionOnSet(f, u) = rest + f[x] /\ f[x] \in 0..b
    BY <1>1, <2>1
  <2>3. rest \in 0 .. Cardinality(u \ {x}) * b
    BY <1>3, <2>1
  <2>4. IsFiniteSet(u) /\ Cardinality(u) \in Nat
    BY FS_Subset, FS_CardinalityType
  <2>5. Cardinality(u \ {x}) = Cardinality(u) - 1
    BY <2>1, <2>4, FS_RemoveElement
  <2>6. (Cardinality(u) - 1) * b + b = Cardinality(u) * b
        /\ (Cardinality(u) - 1) * b \in Int
    BY <2>4
  <2> HIDE DEF rest
  <2> QED BY <2>2, <2>3, <2>4, <2>5, <2>6
<1> HIDE DEF G
<1>4. G \in SUBSET SUBSET S
  BY DEF G
<1>5. G = SUBSET S
  BY <1>2, <1>3, <1>4, GoodSubsets
<1> QED BY <1>5 DEF G

(***************************************************************************)
(* If phi sends exactly n elements of D to each one of E, and f depends on *)
(* phi alone, the sum over D is n times the one over E.                    *)
(***************************************************************************)
LEMMA SumOfFibers ==
  ASSUME NEW D, IsFiniteSet(D), NEW E, IsFiniteSet(E), NEW phi \in [D -> E],
         NEW n \in Nat,
         \A e \in E : Cardinality({d \in D : phi[d] = e}) = n,
         NEW f, NEW h, \A e \in E : h[e] \in Int, \A d \in D : f[d] = h[phi[d]]
  PROVE  SumFunctionOnSet(f, D) = n * SumFunctionOnSet(h, E)
<1> DEFINE Over(s) == {d \in D : phi[d] \in s}
           G == {s \in SUBSET E :
                    SumFunctionOnSet(f, Over(s)) = n * SumFunctionOnSet(h, s)}
<1>1. /\ SumFunctionOnSet(h, {}) = 0
      /\ \A s \in SUBSET E : SumFunctionOnSet(h, s) \in Int
      /\ \A s \in SUBSET E : \A x \in s :
           SumFunctionOnSet(h, s) = SumFunctionOnSet(h, s \ {x}) + h[x]
  BY SumFacts
<1>2. /\ SumFunctionOnSet(f, {}) = 0
      /\ \A s \in SUBSET D : SumFunctionOnSet(f, s) \in Int
  <2>1. \A d \in D : f[d] \in Int
    OBVIOUS
  <2> QED BY <2>1, SumFacts
<1>3. {} \in G
  <2>1. Over({}) = {}
    OBVIOUS
  <2>2. SumFunctionOnSet(f, Over({})) = 0
    BY <1>2, <2>1
  <2>3. n * SumFunctionOnSet(h, {}) = 0
    BY <1>1
  <2> QED BY <2>2, <2>3
<1>4. ASSUME NEW u \in SUBSET E, u # {}, \A x \in u : u \ {x} \in G
      PROVE  u \in G
  <2>1. PICK x : x \in u
    BY <1>4
  <2> DEFINE A == Over(u \ {x})
             B == {d \in D : phi[d] = x}
  <2>2. Over(u) = A \cup B /\ A \cap B = {}
        /\ A \in SUBSET D /\ B \in SUBSET D
    BY <2>1
  <2>3. SumFunctionOnSet(f, A) = n * SumFunctionOnSet(h, u \ {x})
    BY <1>4, <2>1
  <2>4. x \in E /\ Cardinality(B) = n /\ h[x] \in Int
    BY <2>1
  <2>5. \A d \in B : f[d] = h[x]
    OBVIOUS
  <2>6. u \ {x} \in SUBSET E
    OBVIOUS
  <2>7. SumFunctionOnSet(h, u) = SumFunctionOnSet(h, u \ {x}) + h[x]
    BY <1>1, <2>1
  <2> HIDE DEF A, B, Over
  <2>8. IsFiniteSet(A) /\ IsFiniteSet(B) /\ \A d \in A \cup B : f[d] \in Int
    BY <2>2, FS_Subset
  <2>9. SumFunctionOnSet(f, B) = n * h[x]
    BY <2>4, <2>5, <2>8, SumConstant
  <2>10. SumFunctionOnSet(f, Over(u))
           = n * SumFunctionOnSet(h, u \ {x}) + n * h[x]
    BY <2>2, <2>3, <2>8, <2>9, SumUnion
  <2>11. SumFunctionOnSet(h, u \ {x}) \in Int
    BY <1>1, <2>6
  <2>12. \A p, q \in Int : n * p + n * q = n * (p + q)
    OBVIOUS
  <2>13. SumFunctionOnSet(f, Over(u)) = n * SumFunctionOnSet(h, u)
    BY <2>4, <2>7, <2>10, <2>11, <2>12
  <2> QED BY <2>13
<1>5. Over(E) = D
  OBVIOUS
<1> HIDE DEF G
<1>6. G \in SUBSET SUBSET E
  BY DEF G
<1>7. G = SUBSET E
  BY <1>3, <1>4, <1>6, GoodSubsets
<1> QED BY <1>5, <1>7 DEF G
-----------------------------------------------------------------------------
(***************************************************************************)
(* An entry of the lookup table is the scale shared by n, rounded to the   *)
(* nearest; and it is not 0 while n is at most twice the scale.            *)
(***************************************************************************)
LEMMA EntryRounds ==
  ASSUME NEW n \in Nat, n > 0
  PROVE  /\ entry(n) \in kDivideLookupScale \div n .. kDivideLookupScale \div n + 1
         /\ 2 * (entry(n) * n - kDivideLookupScale) \in -n .. n
<1> DEFINE U == kDivideLookupScale
           h == n \div 2
           q == U \div n
           e == (U + h) \div n
<1>1. U \in Nat /\ U > 0
  BY LookupType
<1> HIDE DEF U
<1>2. h \in Nat /\ 2 * h <= n /\ n <= 2 * h + 1
  OBVIOUS
<1> HIDE DEF h
<1>3. \A m \in Nat : m \div n \in Nat /\ n * (m \div n) <= m /\ m < n * (m \div n) + n
  OBVIOUS
<1>4. q \in Nat /\ n * q <= U /\ U < n * q + n
  BY <1>1, <1>3
<1>5. e \in Nat /\ n * e <= U + h /\ U + h < n * e + n
  BY <1>1, <1>2, <1>3
<1>6. entry(n) = e
  BY DEF entry, U, h
<1> HIDE DEF q, e
<1>7. q <= e
  <2>1. SUFFICES ASSUME e + 1 <= q PROVE FALSE
    BY <1>4, <1>5
  <2>2. n * e + n <= n * q
    <3>1. n * (e + 1) <= n * q
      BY <1>4, <1>5, <2>1
    <3> QED BY <1>4, <1>5, <3>1
  <2>3. n * e \in Int /\ n * q \in Int
    BY <1>4, <1>5
  <2> QED BY <1>1, <1>2, <1>4, <1>5, <2>2, <2>3
<1>8. e <= q + 1
  <2>1. SUFFICES ASSUME q + 2 <= e PROVE FALSE
    BY <1>4, <1>5
  <2>2. n * q + 2 * n <= n * e
    <3>1. n * (q + 2) <= n * e
      BY <1>4, <1>5, <2>1
    <3> QED BY <1>4, <1>5, <3>1
  <2>3. n * e \in Int /\ n * q \in Int
    BY <1>4, <1>5
  <2> QED BY <1>1, <1>2, <1>4, <1>5, <2>2, <2>3
<1>9. 2 * (e * n - U) \in -n .. n
  <2> DEFINE p == n * e
  <2>1. p \in Nat /\ e * n = p /\ p <= U + h /\ U + h < p + n
    BY <1>5
  <2> HIDE DEF p
  <2>2. 2 * (p - U) <= n /\ -n <= 2 * (p - U) /\ 2 * (p - U) \in Int
    BY <1>1, <1>2, <2>1
  <2> QED BY <2>1, <2>2
<1>10. e \in q .. q + 1
  BY <1>4, <1>5, <1>7, <1>8
<1> QED BY <1>6, <1>9, <1>10 DEF U, q

(***************************************************************************)
(* Every initial segment of the loop of an estimate gadget is a set of     *)
(* trials, and a step of the loop adds one trial to it.                    *)
(***************************************************************************)
LEMMA TrialSegments ==
  /\ IsFiniteSet(Trials) /\ Cardinality(Trials) = K
  /\ \A n \in 0..K : 0 .. n - 1 \in SUBSET Trials
  /\ \A n \in Trials : n \in 0 .. (n + 1) - 1 /\ (0 .. (n + 1) - 1) \ {n} = 0 .. n - 1
  /\ 0 .. 0 - 1 = {} /\ 0 .. K - 1 = Trials
<1>1. IsFiniteSet(Trials) /\ Cardinality(Trials) = K
  <2>1. 0 \in Int /\ K - 1 \in Int
    BY Sizes
  <2>2. /\ IsFiniteSet(0 .. K - 1)
        /\ Cardinality(0 .. K - 1) = IF 0 > K - 1 THEN 0 ELSE K - 1 - 0 + 1
    BY <2>1, FS_Interval
  <2> QED BY <2>2, Sizes DEF Trials
<1>2. \A n \in 0..K : 0 .. n - 1 \in SUBSET Trials
  BY Sizes DEF Trials
<1>3. ASSUME NEW n \in Trials
      PROVE  n \in 0 .. (n + 1) - 1 /\ (0 .. (n + 1) - 1) \ {n} = 0 .. n - 1
  <2>1. n \in Nat
    BY Sizes DEF Trials
  <2> QED BY <2>1
<1> QED BY <1>1, <1>2, <1>3 DEF Trials
-----------------------------------------------------------------------------
(***************************************************************************)
(* The library's operators in the coverage algorithm are those used here.  *)
(***************************************************************************)
LEMMA SameOperators ==
  /\ \A S : Abstract!Cardinality(S) = Cardinality(S)
  /\ \A S : Abstract!Min(S) = Min(S)
  /\ \A f : Abstract!SumFunction(f) = SumFunction(f)
<1>1. ASSUME NEW S PROVE Abstract!Cardinality(S) = Cardinality(S)
  BY DEF Abstract!Cardinality, Cardinality
<1>2. ASSUME NEW S PROVE Abstract!Min(S) = Min(S)
  BY DEF Abstract!Min, Min
<1>3. ASSUME NEW f PROVE Abstract!SumFunction(f) = SumFunction(f)
  BY DEF Abstract!SumFunction, SumFunction, Abstract!SumFunctionOnSet,
         SumFunctionOnSet, Abstract!FoldFunctionOnSet, FoldFunctionOnSet,
         Abstract!MapThenFoldSet, MapThenFoldSet
<1> QED BY <1>1, <1>2, <1>3

(***************************************************************************)
(* The state of the coverage algorithm once the inputs are in.             *)
(***************************************************************************)
LEMMA MappedSpace ==
  ASSUME pc # "input"
  PROVE  /\ Abstract!Space = Coverage
         /\ \A p : Abstract!Holders(p) = {k \in Pairs : p \in PairModels(k)}
BY DEF Abstract!Space, Abstract!Holders, Coverage

(***************************************************************************)
(* total is 0 exactly when there is nothing to sample.                     *)
(***************************************************************************)
LEMMA TotalIsSpace ==
  ASSUME CoverInv, pc \notin Preparing
  PROVE  /\ total = Cardinality(Coverage) /\ IsFiniteSet(Coverage)
         /\ total \in Nat /\ (total = 0 <=> Coverage = {})
<1>1. Cover(conjunction, PRODUCT) = Coverage
  BY ConjunctionModels DEF CoverInv, InputsInv, ConjunctionInv, Preparing
<1>2. total = Size(conjunction, PRODUCT)
  BY DEF CoverInv, TotalInv
<1>3. IsFiniteSet(Coverage) /\ Cardinality(Coverage) \in Nat
  <2>1. PRODUCT \in 0..PRODUCT
    BY Sizes
  <2> QED BY <1>1, <2>1, SizeFits DEF Size
<1>4. total = Cardinality(Coverage)
  BY <1>1, <1>2 DEF Size
<1> QED BY <1>3, <1>4, FS_EmptySet

(***************************************************************************)
(* divide_lookup writes a score of the coverage algorithm: the share of    *)
(* the assignment's cover degree, or the whole unit when there is nothing  *)
(* to sample and the count is 0.                                           *)
(***************************************************************************)
LEMMA ShareIsScore ==
  ASSUME TypeOK, CoverInv, TrialInv, pc = "divide_lookup", Algorithm = "vazirani"
  PROVE  divide_lookup(satisfied_count) \in Abstract!PossibleScores
<1> DEFINE C == {k \in Pairs : assignment \in PairModels(k)}
<1>1. /\ conjunction \in [Pairs -> ParsedCubes]
      /\ \A k \in Pairs : Models(conjunction[k]) = PairModels(k)
  BY CoverDuringTrial DEF Selecting, Selected
<1>2. satisfied_count = Cardinality(C)
  <2>1. {k \in Pairs : assignment \in Models(conjunction[k])} = C
    BY <1>1
  <2> QED BY <2>1 DEF TrialInv, CountInv
<1>3. /\ Abstract!Space = Coverage
      /\ \A p : Abstract!Holders(p) = {k \in Pairs : p \in PairModels(k)}
  BY MappedSpace
<1>4. total \in Nat /\ (total = 0 <=> Coverage = {})
  BY TotalIsSpace DEF Preparing
<1>5. CASE Coverage = {}
  <2>1. C = {}
    <3>1. SUFFICES ASSUME NEW k \in C PROVE FALSE
      OBVIOUS
    <3>2. <<k, assignment>> \in Coverage
      BY <3>1 DEF Coverage, TypeOK
    <3> QED BY <1>5, <3>2
  <2>2. satisfied_count = 0
    BY <1>2, <2>1, FS_EmptySet
  <2>3. divide_lookup(satisfied_count) = entry(1)
    BY <2>2 DEF divide_lookup
  <2>4. kDivideLookupScale \in Nat
    BY LookupType
  <2>5. entry(1) = kDivideLookupScale
    BY <2>4 DEF entry
  <2>6. Abstract!PossibleScores = {0, kDivideLookupScale}
    BY <1>3, <1>5 DEF Abstract!PossibleScores, Scale
  <2> QED BY <2>3, <2>5, <2>6
<1>6. CASE Coverage # {}
  <2>1. total > 0
    BY <1>4, <1>6
  <2>2. /\ index \in 1..PRODUCT
        /\ assignment \in Models(conjunction[index - 1])
    BY <2>1 DEF TrialInv, IndexInv, AssignmentInv, Selected, Assigned
  <2> DEFINE e == <<index - 1, assignment>>
  <2>3. e \in Coverage /\ index - 1 \in C
    <3>1. index - 1 \in Pairs /\ assignment \in Assignments
      BY <2>2, Sizes DEF Pairs, TypeOK
    <3> QED BY <1>1, <2>2, <3>1 DEF Coverage
  <2>4. satisfied_count \in 1..PRODUCT
    <3>1. {k \in Pairs : assignment \in Models(conjunction[k])} = C
      BY <1>1
    <3>2. IsFiniteSet(C) /\ Cardinality(C) \in 0..PRODUCT
      BY <1>1, <3>1, CountCounts DEF TypeOK
    <3>3. Cardinality(C) # 0
      BY <2>3, <3>2, FS_EmptySet
    <3> QED BY <1>2, <3>2, <3>3, Sizes
  <2>5. divide_lookup(satisfied_count) = entry(satisfied_count)
    BY <2>4, Sizes DEF divide_lookup
  <2>6. Abstract!ScoresOf(e[1], e[2]) =
          {s \in kDivideLookupScale \div satisfied_count
                   .. kDivideLookupScale \div satisfied_count + 1 :
             2 * (s * satisfied_count - kDivideLookupScale)
                \in -satisfied_count .. satisfied_count}
    <3>1. Cardinality(Abstract!Holders(e[2])) = satisfied_count
      BY <1>2, <1>3
    <3> DEFINE n == Cardinality(Abstract!Holders(e[2]))
    <3>2. Abstract!ScoresOf(e[1], e[2]) =
            {s \in kDivideLookupScale \div n .. kDivideLookupScale \div n + 1 :
               2 * (s * n - kDivideLookupScale) \in -n .. n}
      BY SameOperators DEF Abstract!ScoresOf, Scale
    <3> HIDE DEF n, e
    <3> QED BY <3>1, <3>2 DEF n
  <2>7. entry(satisfied_count) \in Abstract!ScoresOf(e[1], e[2])
    BY <2>4, <2>6, EntryRounds, Sizes
  <2>8. Abstract!ScoresOf(e[1], e[2]) \subseteq Abstract!PossibleScores
    <3>1. Abstract!PossibleScores
            = UNION {Abstract!ScoresOf(d[1], d[2]) : d \in Coverage}
      BY <1>3, <1>6 DEF Abstract!PossibleScores
    <3> QED BY <2>3, <3>1
  <2> QED BY <2>5, <2>7, <2>8
<1> QED BY <1>5, <1>6

(***************************************************************************)
(* So does the end of the scan of is_canonical_sample.                     *)
(***************************************************************************)
LEMMA IndicatorIsScore ==
  ASSUME TypeOK, CoverInv, TrialInv, pc = "is_canonical_sample", i = PRODUCT,
         Algorithm = "karp_luby"
  PROVE  (IF b1 THEN 1 ELSE 0) \in Abstract!PossibleScores
<1>1. \A k \in Pairs : Models(conjunction[k]) = PairModels(k)
  BY CoverDuringTrial DEF Selecting, Selected
<1>2. /\ Abstract!Space = Coverage
      /\ \A p : Abstract!Holders(p) = {k \in Pairs : p \in PairModels(k)}
  BY MappedSpace
<1>3. total \in Nat /\ (total = 0 <=> Coverage = {})
  BY TotalIsSpace DEF Preparing
<1>4. CASE Coverage = {}
  <2>1. Abstract!PossibleScores = {0, 1}
    BY <1>2, <1>4 DEF Abstract!PossibleScores, Scale
  <2> QED BY <2>1
<1>5. CASE Coverage # {}
  <2>1. total > 0
    BY <1>3, <1>5
  <2>2. /\ index \in 1..PRODUCT
        /\ assignment \in Models(conjunction[index - 1])
    BY <2>1 DEF TrialInv, IndexInv, AssignmentInv, Selected, Assigned
  <2> DEFINE e == <<index - 1, assignment>>
             H == {k \in Pairs : assignment \in PairModels(k)}
  <2>3. e \in Coverage /\ index - 1 \in H
    <3>1. index - 1 \in Pairs /\ assignment \in Assignments
      BY <2>2, Sizes DEF Pairs, TypeOK
    <3> QED BY <1>1, <2>2, <3>1 DEF Coverage
  <2>4. b1 <=> \A k \in 0 .. index - 2 : assignment \notin Models(conjunction[k])
    BY <2>2 DEF TrialInv, ScanInv
  <2>5. b1 <=> \A k \in H : index - 1 <= k
    <3>1. \A k : k \in 0 .. index - 2 <=> k \in Pairs /\ ~(index - 1 <= k)
      BY <2>2, Sizes DEF Pairs
    <3> QED BY <1>1, <2>4, <3>1
  <2>6. Min(H) \in H /\ \A k \in H : Min(H) <= k
    <3>1. H \in SUBSET Nat /\ H # {}
      BY <2>3, Sizes DEF Pairs
    <3>2. \E x \in H : \A y \in H : x <= y
      BY <3>1, LeastNatural
    <3> HIDE DEF H
    <3> QED BY <3>2 DEF Min
  <2>7. b1 <=> index - 1 = Min(H)
    <3>1. Min(H) \in Int /\ index - 1 \in Int
      BY <2>3, <2>6, Sizes DEF Pairs
    <3> HIDE DEF H
    <3> QED BY <2>3, <2>5, <2>6, <3>1
  <2>8. Abstract!ScoresOf(e[1], e[2]) = {IF b1 THEN 1 ELSE 0}
    <3>1. Abstract!Holders(e[2]) = H
      BY <1>2
    <3>2. Abstract!ScoresOf(e[1], e[2]) = {IF e[1] = Min(H) THEN 1 ELSE 0}
      BY <3>1, SameOperators DEF Abstract!ScoresOf, Scale
    <3> QED BY <2>7, <3>2
  <2>9. Abstract!ScoresOf(e[1], e[2]) \subseteq Abstract!PossibleScores
    <3>1. Abstract!PossibleScores
            = UNION {Abstract!ScoresOf(d[1], d[2]) : d \in Coverage}
      BY <1>2, <1>5 DEF Abstract!PossibleScores
    <3> QED BY <2>3, <3>1
  <2> QED BY <2>8, <2>9
<1> QED BY <1>4, <1>5

(***************************************************************************)
(* The inductive invariant of the outcomes and of their sum: what the      *)
(* trials so far have written are scores of the coverage algorithm, and    *)
(* the running sum is the sum of what the loop has passed.                 *)
(***************************************************************************)
BranchInv ==
    /\ pc \in Preparing \cup {"cube_intervals"} => t = 0
    /\ pc \in {"count_satisfied_cubes", "divide_lookup"} => Algorithm = "vazirani"
    /\ pc = "is_canonical_sample" => Algorithm = "karp_luby"
OutcomesInv ==
    \A u \in Trials : IF u < t THEN outcomes[u] \in Abstract!PossibleScores
                               ELSE outcomes[u] = 0
SumInv ==
    /\ pc \notin {"estimate", "done"} => sum = 0
    /\ pc \in {"estimate", "done"} => t = K
    /\ pc = "estimate" => sum = SumFunctionOnSet(outcomes, 0 .. i - 1)
RevealedInv ==
    IF pc = "done" THEN revealed = total * SumFunction(outcomes)
                   ELSE revealed = 0

EstimateInv == BranchInv /\ OutcomesInv /\ SumInv /\ RevealedInv

(***************************************************************************)
(* It holds initially.                                                     *)
(***************************************************************************)
LEMMA InitEstimateInv == Init => EstimateInv
<1> SUFFICES ASSUME Init PROVE EstimateInv
  OBVIOUS
<1>1. \A u \in Trials : ~(u < 0)
  BY Sizes DEF Trials
<1> QED
  BY <1>1
  DEF Init, EstimateInv, BranchInv, OutcomesInv, SumInv, RevealedInv

(***************************************************************************)
(* The scores depend on the inputs alone.                                  *)
(***************************************************************************)
LEMMA ScoresFrame ==
  ASSUME UNCHANGED inputVars, pc # "input", pc' # "input"
  PROVE  /\ Abstract!PossibleScores' = Abstract!PossibleScores
         /\ \A k \in Pairs : PairModels(k)' = PairModels(k)
<1>1. alice_cubes' = alice_cubes /\ bob_cubes' = bob_cubes
  BY DEF inputVars
<1>2. \A k \in Pairs : PairModels(k)' = PairModels(k)
  BY <1>1 DEF PairModels
<1>3. Coverage' = Coverage
  BY <1>2 DEF Coverage
<1>4. /\ Abstract!Space' = Abstract!Space
      /\ \A p : Abstract!Holders(p)' = Abstract!Holders(p)
  <2>1. Abstract!Space' = Coverage'
    BY DEF Abstract!Space, Coverage
  <2>2. \A p : Abstract!Holders(p)' = {k \in Pairs : p \in PairModels(k)'}
    BY DEF Abstract!Holders
  <2> QED BY <1>2, <1>3, <2>1, <2>2, MappedSpace
<1>5. \A b, p : Abstract!ScoresOf(b, p)' = Abstract!ScoresOf(b, p)
  BY <1>4 DEF Abstract!ScoresOf
<1>6. Abstract!PossibleScores' = Abstract!PossibleScores
  BY <1>4, <1>5 DEF Abstract!PossibleScores
<1> QED BY <1>2, <1>6

(***************************************************************************)
(* The outcomes of the trials are bits for Karp-Luby, and the sum of any   *)
(* number of them fits the word of the sum.                                *)
(***************************************************************************)
LEMMA PartialSum ==
  ASSUME TypeOK, OutcomesInv, t = K, NEW n \in 0..K
  PROVE  /\ SumFunctionOnSet(outcomes, 0 .. n - 1) \in Nat
         /\ SumFunctionOnSet(outcomes, 0 .. n - 1) < 2^SumWidth
         /\ n < K => SumFunctionOnSet(outcomes, 0 .. (n + 1) - 1)
                        = SumFunctionOnSet(outcomes, 0 .. n - 1) + outcomes[n]
<1> DEFINE S == 0 .. n - 1
<1>1. S \in SUBSET Trials /\ IsFiniteSet(Trials) /\ Cardinality(Trials) = K
  BY TrialSegments
<1>2. IsFiniteSet(S) /\ Cardinality(S) \in Nat /\ Cardinality(S) <= K
  BY <1>1, FS_Subset, FS_CardinalityType
<1>3. \A u \in Trials : outcomes[u] \in Word(kDivideLookupScaleBits + 1)
  BY DEF TypeOK
<1>4. \A u \in Trials : outcomes[u] \in Int
  BY <1>3, WireTypes
<1>5. n < K => SumFunctionOnSet(outcomes, 0 .. (n + 1) - 1)
                 = SumFunctionOnSet(outcomes, 0 .. n - 1) + outcomes[n]
  <2> SUFFICES ASSUME n < K
               PROVE  SumFunctionOnSet(outcomes, 0 .. (n + 1) - 1)
                        = SumFunctionOnSet(outcomes, 0 .. n - 1) + outcomes[n]
    OBVIOUS
  <2>1. n \in Trials /\ n + 1 \in 0..K
    <3>1. K \in Nat /\ n \in Nat
      BY Sizes
    <3> QED BY <3>1 DEF Trials
  <2>2. /\ 0 .. (n + 1) - 1 \in SUBSET Trials
        /\ n \in 0 .. (n + 1) - 1
        /\ (0 .. (n + 1) - 1) \ {n} = 0 .. n - 1
    BY <2>1, TrialSegments
  <2> QED BY <1>1, <1>4, <2>2, SumFacts
<1> HIDE DEF S
<1>6. CASE Algorithm = "vazirani"
  <2>1. kDivideLookupScaleBits + 1 \in Nat /\ SumWidth = (kDivideLookupScaleBits + 1) + bits_for(K)
    BY <1>6 DEF SumWidth, kDivideLookupScaleBits
  <2> DEFINE w == kDivideLookupScaleBits + 1
  <2>2. 2^w \in Nat /\ K * 2^w < 2^SumWidth
    BY <2>1, PowerType, SumFits, Sizes
  <2>3. \A u \in S : outcomes[u] \in 0 .. 2^w
    BY <1>1, <1>3, <2>2 DEF Word
  <2> HIDE DEF w
  <2>4. SumFunctionOnSet(outcomes, S) \in 0 .. Cardinality(S) * 2^w
    BY <1>2, <2>2, <2>3, SumBounded
  <2>5. Cardinality(S) * 2^w <= K * 2^w /\ K * 2^w \in Nat /\ Cardinality(S) * 2^w \in Nat
    BY <1>2, <2>2, Sizes
  <2>6. 2^SumWidth \in Nat
    BY WidthTypes, PowerType
  <2> QED BY <1>5, <2>2, <2>4, <2>5, <2>6 DEF S
<1>7. CASE Algorithm = "karp_luby"
  <2>1. Abstract!PossibleScores \subseteq {0, 1}
    BY <1>7 DEF Abstract!PossibleScores, Abstract!ScoresOf, Scale
  <2>2. \A u \in S : outcomes[u] \in 0..1
    <3>1. \A u \in Trials : u < t
      BY Sizes DEF Trials
    <3>2. \A u \in Trials : outcomes[u] \in {0, 1}
      BY <2>1, <3>1 DEF OutcomesInv
    <3>3. \A x \in {0, 1} : x \in 0..1
      OBVIOUS
    <3> QED BY <1>1, <3>2, <3>3
  <2>3. SumFunctionOnSet(outcomes, S) \in 0 .. Cardinality(S) * 1
    BY <1>2, <2>2, SumBounded
  <2>4. K + 1 < 2^SumWidth /\ 2^SumWidth \in Nat
    BY <1>7, BitsForFits, Sizes, WidthTypes, PowerType DEF SumWidth
  <2> QED BY <1>2, <1>5, <2>3, <2>4, Sizes DEF S
<1> QED BY <1>6, <1>7, AlgorithmAssumption

(***************************************************************************)
(* Neither does the product of the weight and the sum wrap.                *)
(***************************************************************************)
LEMMA ProductFits ==
  ASSUME TypeOK, NEW s \in Nat, s < 2^SumWidth
  PROVE  Wrap(EstimateWidth, total * s) = total * s
<1>1. total \in Nat /\ total < 2^TotalWidth
  BY WidthTypes, PowerType DEF TypeOK, Word
<1>2. 2^EstimateWidth = 2^TotalWidth * 2^SumWidth
  BY WidthTypes, PowerSum DEF EstimateWidth
<1>3. 2^TotalWidth \in Nat /\ 2^SumWidth \in Nat
  BY WidthTypes, PowerType
<1>4. \A a, b, p, q \in Nat : a < p /\ b < q => a * b \in Nat /\ a * b < p * q
  <2> SUFFICES ASSUME NEW a \in Nat, NEW b \in Nat, NEW p \in Nat, NEW q \in Nat,
                      a < p, b < q
               PROVE  a * b \in Nat /\ a * b < p * q
    OBVIOUS
  <2>1. a * b <= a * q /\ a * q < p * q
    <3>1. \A m, d, e \in Nat : d < e => m * d <= m * e
      OBVIOUS
    <3>2. \A m, d, e \in Nat : m > 0 /\ d < e => d * m < e * m
      OBVIOUS
    <3> QED BY <3>1, <3>2
  <2>2. a * b \in Nat /\ a * q \in Nat /\ p * q \in Nat
    OBVIOUS
  <2> QED BY <2>1, <2>2
<1>5. total * s \in Nat /\ total * s < 2^EstimateWidth
  BY <1>1, <1>2, <1>3, <1>4
<1> QED BY <1>5, WidthTypes, WrapFits

(***************************************************************************)
(* The end of a trial that writes a score preserves the invariant.         *)
(***************************************************************************)
LEMMA EndTrialEstimateInv ==
  ASSUME TypeOK, EstimateInv, NEW o \in Abstract!PossibleScores, EndTrial(o),
         pc \in Selecting
  PROVE  EstimateInv'
<1>1. /\ pc # "input" /\ pc' = "sample_in_range"
      /\ pc \notin {"estimate", "done"} /\ t < K /\ t \in 0..K
      /\ outcomes' = [outcomes EXCEPT ![t] = o] /\ t' = t + 1
      /\ sum' = sum /\ revealed' = revealed
      /\ UNCHANGED inputVars
  BY DEF EndTrial, Selecting, Selected, TypeOK
<1>2. Abstract!PossibleScores' = Abstract!PossibleScores
  BY <1>1, ScoresFrame
<1>3. OutcomesInv'
  <2>1. ASSUME NEW u \in Trials
        PROVE  IF u < t' THEN outcomes'[u] \in Abstract!PossibleScores
                         ELSE outcomes'[u] = 0
    <3>1. u \in Int /\ t \in Int /\ outcomes \in [Trials -> Word(kDivideLookupScaleBits + 1)]
      BY Sizes DEF Trials, TypeOK
    <3>2. CASE u = t
      BY <1>1, <3>1, <3>2
    <3>3. CASE u # t
      <4>1. outcomes'[u] = outcomes[u] /\ (u < t' <=> u < t)
        BY <1>1, <3>1, <3>3
      <4> QED BY <4>1 DEF EstimateInv, OutcomesInv
    <3> QED BY <3>2, <3>3
  <2> QED BY <1>2, <2>1 DEF OutcomesInv
<1> QED
  BY <1>1, <1>3
  DEF EstimateInv, BranchInv, SumInv, RevealedInv, Preparing

(***************************************************************************)
(* Every step preserves the invariant of the estimate.                     *)
(***************************************************************************)
LEMMA NextEstimateInv ==
  TypeOK /\ CoverInv /\ TrialInv /\ EstimateInv /\ [Next]_vars => EstimateInv'
<1> SUFFICES ASSUME TypeOK, CoverInv, TrialInv, EstimateInv, [Next]_vars
             PROVE  EstimateInv'
  OBVIOUS
<1>1. ASSUME pc # "input", UNCHANGED <<inputVars, t, outcomes>>, pc' # "input"
      PROVE  OutcomesInv'
  BY <1>1, ScoresFrame DEF EstimateInv, OutcomesInv
<1>2. CASE FeedCubes
  <2>1. /\ pc = "input" /\ pc' = "conjoin_dnf" /\ t' = t
        /\ outcomes' = outcomes /\ sum' = sum /\ revealed' = revealed
    BY <1>2 DEF FeedCubes, resultVars
  <2>2. OutcomesInv'
    <3>1. t = 0 /\ \A u \in Trials : ~(u < 0)
      BY <2>1, Sizes DEF EstimateInv, BranchInv, Preparing, Trials
    <3>2. \A u \in Trials : outcomes[u] = 0
      BY <3>1 DEF EstimateInv, OutcomesInv
    <3> QED BY <2>1, <3>1, <3>2 DEF OutcomesInv
  <2> QED BY <2>1, <2>2 DEF EstimateInv, BranchInv, SumInv, RevealedInv, Preparing
<1>3. CASE \/ ConjoinDnf \/ CubeWeights \/ AddWeight \/ BeginIntervals
           \/ AddInterval \/ BeginTrials \/ SampleInRange \/ SelectCubeIndex
           \/ CubeAtIndex \/ RandomAssignment \/ CountSatisfiedCubes \/ ScanCube
  <2>1. /\ pc # "input" /\ pc' # "input"
        /\ pc \notin {"estimate", "done"} /\ pc' \notin {"estimate", "done"}
        /\ UNCHANGED <<inputVars, t, outcomes, sum, revealed>>
    BY <1>3
    DEF ConjoinDnf, CubeWeights, AddWeight, BeginIntervals, AddInterval,
        BeginTrials, SampleInRange, SelectCubeIndex, CubeAtIndex,
        RandomAssignment, CountSatisfiedCubes, ScanCube, resultVars
  <2>2. BranchInv'
    <3>1. pc' \in Preparing \cup {"cube_intervals"}
            => pc \in Preparing \cup {"cube_intervals"}
      BY <1>3
      DEF ConjoinDnf, CubeWeights, AddWeight, BeginIntervals, AddInterval,
          BeginTrials, SampleInRange, SelectCubeIndex, CubeAtIndex,
          RandomAssignment, CountSatisfiedCubes, ScanCube, Preparing
    <3>2. /\ pc' \in {"count_satisfied_cubes", "divide_lookup"} => Algorithm = "vazirani"
          /\ pc' = "is_canonical_sample" => Algorithm = "karp_luby"
      BY <1>3, AlgorithmAssumption
      DEF ConjoinDnf, CubeWeights, AddWeight, BeginIntervals, AddInterval,
          BeginTrials, SampleInRange, SelectCubeIndex, CubeAtIndex,
          RandomAssignment, CountSatisfiedCubes, ScanCube, EstimateInv, BranchInv
    <3> QED BY <2>1, <3>1, <3>2 DEF EstimateInv, BranchInv
  <2> QED BY <1>1, <2>1, <2>2 DEF EstimateInv, SumInv, RevealedInv
<1>4. CASE DivideLookup
  <2>1. pc = "divide_lookup" /\ EndTrial(divide_lookup(satisfied_count))
    BY <1>4 DEF DivideLookup
  <2>2. divide_lookup(satisfied_count) \in Abstract!PossibleScores
    BY <2>1, ShareIsScore DEF EstimateInv, BranchInv
  <2> QED BY <2>1, <2>2, EndTrialEstimateInv DEF Selecting, Selected
<1>5. CASE EndScan
  <2>1. /\ pc = "is_canonical_sample" /\ i = PRODUCT
        /\ EndTrial(IF b1 THEN 1 ELSE 0)
    BY <1>5 DEF EndScan
  <2>2. (IF b1 THEN 1 ELSE 0) \in Abstract!PossibleScores
    BY <2>1, IndicatorIsScore DEF EstimateInv, BranchInv
  <2> QED BY <2>1, <2>2, EndTrialEstimateInv DEF Selecting, Selected
<1>6. CASE BeginEstimate
  <2>1. /\ pc = "sample_in_range" /\ pc' = "estimate" /\ t = K /\ i = 0 /\ i' = i
        /\ UNCHANGED <<inputVars, t, outcomes, sum, revealed>>
    BY <1>6 DEF BeginEstimate, resultVars, TypeOK
  <2>2. SumFunctionOnSet(outcomes, {}) = 0
    <3>1. \A u \in Trials : outcomes[u] \in Int
      BY WireTypes DEF TypeOK
    <3> QED BY <3>1, TrialSegments, SumFacts
  <2>3. sum' = SumFunctionOnSet(outcomes', 0 .. i' - 1)
    BY <2>1, <2>2, TrialSegments DEF EstimateInv, SumInv
  <2> QED BY <1>1, <2>1, <2>3 DEF EstimateInv, BranchInv, SumInv, RevealedInv, Preparing
<1>7. CASE AddOutcome
  <2>1. /\ pc = "estimate" /\ pc' = pc /\ t = K /\ i \in 0..K /\ i < K /\ i' = i + 1
        /\ sum' = Wrap(SumWidth, sum + outcomes[i])
        /\ UNCHANGED <<inputVars, t, outcomes, revealed>>
    BY <1>7 DEF AddOutcome, TypeOK, EstimateInv, SumInv
  <2>2. i + 1 \in 0..K
    BY <2>1, Sizes
  <2>3. sum + outcomes[i] = SumFunctionOnSet(outcomes, 0 .. (i + 1) - 1)
    BY <2>1, PartialSum DEF EstimateInv, SumInv
  <2>4. sum' = SumFunctionOnSet(outcomes, 0 .. (i + 1) - 1)
    BY <2>1, <2>2, <2>3, PartialSum, WidthTypes, WrapFits DEF EstimateInv
  <2>5. SumInv'
    BY <2>1, <2>4 DEF EstimateInv, SumInv
  <2> QED BY <1>1, <2>1, <2>5 DEF EstimateInv, BranchInv, RevealedInv
<1>8. CASE RevealEstimate
  <2>1. /\ pc = "estimate" /\ pc' = "done" /\ t = K /\ i = K
        /\ revealed' = Wrap(EstimateWidth, total * sum) /\ total' = total
        /\ UNCHANGED <<inputVars, t, outcomes, sum>>
    BY <1>8 DEF RevealEstimate, coverVars, EstimateInv, SumInv
  <2>2. sum = SumFunctionOnSet(outcomes, 0 .. K - 1) /\ K \in 0..K
    BY <2>1, Sizes DEF EstimateInv, SumInv
  <2>3. sum \in Nat /\ sum < 2^SumWidth
    BY <2>1, <2>2, PartialSum DEF EstimateInv
  <2>4. revealed' = total * sum
    BY <2>1, <2>3, ProductFits
  <2>5. sum = SumFunction(outcomes)
    <3>1. DOMAIN outcomes = 0 .. K - 1
      BY DEF TypeOK, Trials
    <3> QED BY <2>2, <3>1 DEF SumFunction
  <2> QED
    BY <1>1, <2>1, <2>4, <2>5
    DEF EstimateInv, BranchInv, SumInv, RevealedInv, Preparing
<1>9. CASE Terminating \/ UNCHANGED vars
  <2>1. UNCHANGED <<pc, total, inputVars, i, t, outcomes, sum, revealed>>
    BY <1>9 DEF Terminating, vars, coverVars, resultVars
  <2>2. CASE pc = "input"
    <3>1. t = 0 /\ \A u \in Trials : ~(u < 0)
      BY <2>2, Sizes DEF EstimateInv, BranchInv, Preparing, Trials
    <3>2. OutcomesInv'
      BY <2>1, <3>1 DEF EstimateInv, OutcomesInv
    <3> QED BY <2>1, <3>2 DEF EstimateInv, BranchInv, SumInv, RevealedInv
  <2>3. CASE pc # "input"
    BY <1>1, <2>1, <2>3 DEF EstimateInv, BranchInv, SumInv, RevealedInv
  <2> QED BY <2>2, <2>3
<1> QED
  BY <1>2, <1>3, <1>4, <1>5, <1>6, <1>7, <1>8, <1>9 DEF Next

(***************************************************************************)
(* All the invariants of the circuit together.                             *)
(***************************************************************************)
PipelineInv == TypeOK /\ CoverInv /\ TrialInv /\ EstimateInv

(***************************************************************************)
(* All of the invariants together hold throughout.                         *)
(***************************************************************************)
LEMMA PipelineInvariant == Spec => []PipelineInv
<1>1. Init => PipelineInv
  <2>1. Init => pc \notin Selecting /\ b2 = FALSE
    BY DEF Init, Selecting, Selected
  <2> QED
    BY <2>1, TrialInvOutside, InitTypeOK, InitCoverInv, InitEstimateInv
    DEF PipelineInv
<1>2. PipelineInv /\ [Next]_vars => PipelineInv'
  BY NextTypeOK, NextCoverInv, NextTrialInv, NextEstimateInv DEF PipelineInv
<1> QED BY <1>1, <1>2, PTL DEF Spec
-----------------------------------------------------------------------------
(***************************************************************************)
(* The circuit reveals the exact product of the weight and the sum of all  *)
(* K outcomes: neither VaziraniSum, GoodCount nor the estimate's word      *)
(* loses a bit, for any number of trials and any capacity.                 *)
(***************************************************************************)
THEOREM RevealedIsExact == Spec => []RevealedIsExactProduct
<1>1. PipelineInv => RevealedIsExactProduct
  BY DEF PipelineInv, EstimateInv, RevealedInv, RevealedIsExactProduct
<1> QED BY <1>1, PipelineInvariant, PTL

(***************************************************************************)
(* Every cube of ALICE's meets every cube of BOB's in some pair.           *)
(***************************************************************************)
LEMMA EveryPairMeets ==
  ASSUME NEW r \in Inputs, NEW c \in Inputs
  PROVE  \E k \in Pairs : k \div CUBES = r /\ k % CUBES = c
<1>1. CUBES \in Nat /\ CUBES > 0 /\ PRODUCT = CUBES * CUBES
  BY Sizes DEF PRODUCT
<1>2. r \in Nat /\ r < CUBES /\ c \in Nat /\ c < CUBES
  BY <1>1 DEF Inputs
<1> DEFINE k == CUBES * r + c
<1>3. k \in Nat /\ k < CUBES * CUBES
  <2>1. CUBES * r + CUBES <= CUBES * CUBES
    <3>1. CUBES * (r + 1) <= CUBES * CUBES
      BY <1>1, <1>2
    <3> QED BY <1>1, <1>2, <3>1
  <2>2. CUBES * r \in Nat /\ CUBES * CUBES \in Nat
    BY <1>1, <1>2
  <2> QED BY <1>1, <1>2, <2>1, <2>2
<1>4. k \div CUBES = r /\ k % CUBES = c
  BY <1>1, <1>2
<1>5. k \in Pairs
  BY <1>1, <1>3 DEF Pairs
<1> QED BY <1>4, <1>5

(***************************************************************************)
(* The intersection is what the coverage space holds, each assignment      *)
(* counted once.                                                           *)
(***************************************************************************)
LEMMA IntersectionIsCovered ==
  /\ Intersection \subseteq Assignments
  /\ \A a : a \in Intersection <=> \E k \in Pairs : <<k, a>> \in Coverage
  /\ \A a : a \in Intersection <=> \E e \in Coverage : e[2] = a
<1>1. Intersection \subseteq Assignments
  BY DEF Intersection, DnfModels
<1>2. ASSUME NEW a \in Intersection PROVE \E k \in Pairs : <<k, a>> \in Coverage
  <2>1. PICK r \in Inputs : a \in Models(alice_cubes[r])
    BY DEF Intersection, DnfModels
  <2>2. PICK c \in Inputs : a \in Models(bob_cubes[c])
    BY DEF Intersection, DnfModels
  <2>3. PICK k \in Pairs : k \div CUBES = r /\ k % CUBES = c
    BY EveryPairMeets
  <2>4. a \in PairModels(k)
    BY <2>1, <2>2, <2>3 DEF PairModels
  <2> QED BY <1>1, <2>4 DEF Coverage
<1>3. ASSUME NEW e \in Coverage PROVE e[2] \in Intersection
  <2>1. /\ e[1] \in Pairs /\ e[2] \in Assignments
        /\ e[2] \in Models(alice_cubes[e[1] \div CUBES])
        /\ e[2] \in Models(bob_cubes[e[1] % CUBES])
    BY DEF Coverage, PairModels
  <2> QED BY <2>1, PairInputs DEF Intersection, DnfModels
<1>4. \A a, k : <<k, a>>[2] = a
  OBVIOUS
<1> QED BY <1>1, <1>2, <1>3, <1>4

(***************************************************************************)
(* The number of pairs that cover an assignment of the coverage space.     *)
(***************************************************************************)
LEMMA HoldersOfCovered ==
  ASSUME NEW e \in Coverage
  PROVE  LET H == {k \in Pairs : e[2] \in PairModels(k)}
         IN  /\ e[1] \in H /\ IsFiniteSet(H)
             /\ Cardinality(H) \in 1..PRODUCT
<1> DEFINE H == {k \in Pairs : e[2] \in PairModels(k)}
<1>1. e[1] \in H /\ H \in SUBSET Pairs
  BY DEF Coverage
<1>2. IsFiniteSet(Pairs) /\ Cardinality(Pairs) = PRODUCT
  <2>1. 0 \in Int /\ PRODUCT - 1 \in Int
    BY Sizes
  <2>2. /\ IsFiniteSet(0 .. PRODUCT - 1)
        /\ Cardinality(0 .. PRODUCT - 1)
              = IF 0 > PRODUCT - 1 THEN 0 ELSE PRODUCT - 1 - 0 + 1
    BY <2>1, FS_Interval
  <2> QED BY <2>2, Sizes DEF Pairs
<1> HIDE DEF H
<1>3. IsFiniteSet(H) /\ Cardinality(H) \in Nat /\ Cardinality(H) <= PRODUCT
  BY <1>1, <1>2, FS_Subset, FS_CardinalityType
<1>4. Cardinality(H) # 0
  BY <1>1, <1>3, FS_EmptySet
<1> QED BY <1>1, <1>3, <1>4, Sizes DEF H

(***************************************************************************)
(* The scores of a trial when there is something to sample.                *)
(***************************************************************************)
LEMMA ScoresOfSpace ==
  ASSUME pc # "input", Coverage # {}, NEW s \in Abstract!PossibleScores
  PROVE  \E e \in Coverage :
           LET H == {k \in Pairs : e[2] \in PairModels(k)}
               n == Cardinality(H)
           IN  IF Algorithm = "karp_luby"
               THEN s = IF e[1] = Min(H) THEN 1 ELSE 0
               ELSE /\ s \in kDivideLookupScale \div n .. kDivideLookupScale \div n + 1
                    /\ 2 * (s * n - kDivideLookupScale) \in -n .. n
<1>1. Abstract!PossibleScores
        = UNION {Abstract!ScoresOf(e[1], e[2]) : e \in Coverage}
  BY MappedSpace DEF Abstract!PossibleScores
<1>2. PICK e \in Coverage : s \in Abstract!ScoresOf(e[1], e[2])
  BY <1>1
<1> DEFINE H == {k \in Pairs : e[2] \in PairModels(k)}
           n == Cardinality(H)
<1>3. Abstract!Holders(e[2]) = H
  BY MappedSpace
<1> HIDE DEF H
<1>4. CASE Algorithm = "karp_luby"
  BY <1>2, <1>3, <1>4, SameOperators DEF Abstract!ScoresOf, Scale, H
<1>5. CASE Algorithm # "karp_luby"
  <2>1. Scale = kDivideLookupScale
    BY <1>5, AlgorithmAssumption DEF Scale
  <2>2. Abstract!Cardinality(Abstract!Holders(e[2])) = n
    BY <1>3, SameOperators
  <2> HIDE DEF n
  <2>3. Abstract!ScoresOf(e[1], e[2]) =
          {r \in kDivideLookupScale \div n .. kDivideLookupScale \div n + 1 :
             2 * (r * n - kDivideLookupScale) \in -n .. n}
    BY <1>5, <2>1, <2>2 DEF Abstract!ScoresOf
  <2> QED BY <1>2, <1>5, <2>3 DEF n, H
<1> QED BY <1>4, <1>5

(***************************************************************************)
(* What both parties learn, in terms of the coverage algorithm.            *)
(***************************************************************************)
LEMMA RevealedFacts ==
  ASSUME PipelineInv, pc = "done"
  PROVE  /\ total = Cardinality(Coverage) /\ IsFiniteSet(Coverage)
         /\ total \in Nat /\ (total = 0 <=> Coverage = {})
         /\ Coverage = {} <=> Intersection = {}
         /\ revealed = total * SumFunctionOnSet(outcomes, Trials)
         /\ \A u \in Trials : outcomes[u] \in Abstract!PossibleScores
         /\ \A u \in Trials : outcomes[u] \in 0 .. 2^(kDivideLookupScaleBits + 1)
<1>1. /\ total = Cardinality(Coverage) /\ IsFiniteSet(Coverage)
      /\ total \in Nat /\ (total = 0 <=> Coverage = {})
  BY TotalIsSpace DEF PipelineInv, Preparing
<1>2. Coverage = {} <=> Intersection = {}
  <2>1. \A e \in Coverage : e[2] \in Intersection
    BY IntersectionIsCovered
  <2>2. \A a \in Intersection : \E e \in Coverage : e[2] = a
    BY IntersectionIsCovered
  <2> QED BY <2>1, <2>2
<1>3. DOMAIN outcomes = Trials
  BY DEF PipelineInv, TypeOK
<1>4. revealed = total * SumFunctionOnSet(outcomes, Trials)
  BY <1>3 DEF PipelineInv, EstimateInv, RevealedInv, SumFunction
<1>5. \A u \in Trials : outcomes[u] \in Abstract!PossibleScores
  <2>1. t = K /\ \A u \in Trials : u < K
    BY Sizes DEF PipelineInv, EstimateInv, SumInv, Trials
  <2> QED BY <2>1 DEF PipelineInv, EstimateInv, OutcomesInv
<1>6. \A u \in Trials : outcomes[u] \in 0 .. 2^(kDivideLookupScaleBits + 1)
  <2>1. kDivideLookupScaleBits + 1 \in Nat
    BY DEF kDivideLookupScaleBits
  <2>2. 2^(kDivideLookupScaleBits + 1) \in Nat
    BY <2>1, PowerType
  <2> QED BY <2>2 DEF PipelineInv, TypeOK, Word
<1> QED BY <1>1, <1>2, <1>4, <1>5, <1>6

(***************************************************************************)
(* An empty intersection is revealed as 0 by either algorithm, whatever    *)
(* the divider leaves of a remainder by zero; and the Vazirani estimate of *)
(* a non-empty one is not 0, because no share is rounded to 0.             *)
(***************************************************************************)
THEOREM EmptinessIsRevealed == Spec => []EmptyRevealsZero
<1>1. PipelineInv => EmptyRevealsZero
  <2> SUFFICES ASSUME PipelineInv, pc = "done"
               PROVE  /\ Intersection = {} => revealed = 0
                      /\ /\ Algorithm = "vazirani" /\ PRODUCT < 2 * kDivideLookupScale
                         /\ revealed = 0
                         => Intersection = {}
    BY DEF EmptyRevealsZero
  <2> DEFINE S == SumFunctionOnSet(outcomes, Trials)
             b == 2^(kDivideLookupScaleBits + 1)
  <2>1. /\ total \in Nat /\ (total = 0 <=> Intersection = {})
        /\ (Intersection = {} <=> Coverage = {}) /\ revealed = total * S
        /\ \A u \in Trials : outcomes[u] \in Abstract!PossibleScores
        /\ \A u \in Trials : outcomes[u] \in 0..b
    BY RevealedFacts
  <2>2. b \in Nat
    <3>1. kDivideLookupScaleBits + 1 \in Nat
      BY DEF kDivideLookupScaleBits
    <3> QED BY <3>1, PowerType
  <2> HIDE DEF b
  <2>3. 0 \in Trials /\ IsFiniteSet(Trials) /\ IsFiniteSet(Trials \ {0})
        /\ Cardinality(Trials \ {0}) \in Nat
    BY Sizes, TrialSegments, FS_Subset, FS_CardinalityType DEF Trials
  <2>4. SumFunctionOnSet(outcomes, Trials \ {0}) \in Nat
    <3>1. SumFunctionOnSet(outcomes, Trials \ {0}) \in 0 .. Cardinality(Trials \ {0}) * b
      BY <2>1, <2>2, <2>3, SumBounded
    <3>2. Cardinality(Trials \ {0}) * b \in Nat
      BY <2>2, <2>3
    <3> QED BY <3>1, <3>2
  <2>5. S = SumFunctionOnSet(outcomes, Trials \ {0}) + outcomes[0]
    <3>1. \A u \in Trials : outcomes[u] \in Int
      BY <2>1, <2>2
    <3> QED BY <2>3, <3>1, SumFacts
  <2>6. outcomes[0] \in Nat
    BY <2>1, <2>2, <2>3
  <2> HIDE DEF S
  <2>7. Intersection = {} => revealed = 0
    BY <2>1, <2>4, <2>5, <2>6
  <2>8. ASSUME Algorithm = "vazirani", PRODUCT < 2 * kDivideLookupScale,
               Intersection # {}
        PROVE  revealed # 0
    <3>1. outcomes[0] # 0
      <4>1. SUFFICES ASSUME outcomes[0] = 0 PROVE FALSE
        OBVIOUS
      <4>2. 0 \in Abstract!PossibleScores /\ Coverage # {}
        BY <2>1, <2>3, <2>8, <4>1
      <4>3. PICK e \in Coverage :
              LET n == Cardinality({k \in Pairs : e[2] \in PairModels(k)})
              IN  2 * (0 * n - kDivideLookupScale) \in -n .. n
        BY <2>8, <4>2, ScoresOfSpace
      <4> DEFINE n == Cardinality({k \in Pairs : e[2] \in PairModels(k)})
      <4>4. n \in 1..PRODUCT /\ 2 * (0 * n - kDivideLookupScale) \in -n .. n
        BY <4>3, HoldersOfCovered
      <4> HIDE DEF n
      <4>5. kDivideLookupScale \in Nat
        BY LookupType
      <4> QED BY <2>8, <4>4, <4>5, Sizes
    <3>2. S > 0 /\ S \in Nat /\ total > 0
      BY <2>1, <2>4, <2>5, <2>6, <2>8, <3>1
    <3> QED BY <2>1, <3>2
  <2> QED BY <2>7, <2>8
<1> QED BY <1>1, PipelineInvariant, PTL

(***************************************************************************)
(* When no two pairs share a model, every trial counts in full, whichever  *)
(* sample it drew, so that the estimate is K times the exact count.        *)
(***************************************************************************)
THEOREM DisjointIsExact == Spec => []ExactWhenDisjoint
<1>1. PipelineInv => ExactWhenDisjoint
  <2> SUFFICES ASSUME PipelineInv, pc = "done",
                      \A k, l \in Pairs : k # l => PairModels(k) \cap PairModels(l) = {}
               PROVE  revealed = K * Scale * Cardinality(Intersection)
    BY DEF ExactWhenDisjoint
  <2> DEFINE S == SumFunctionOnSet(outcomes, Trials)
  <2>1. /\ total = Cardinality(Coverage) /\ IsFiniteSet(Coverage)
        /\ total \in Nat /\ (total = 0 <=> Coverage = {})
        /\ (Intersection = {} <=> Coverage = {}) /\ revealed = total * S
        /\ \A u \in Trials : outcomes[u] \in Abstract!PossibleScores
    BY RevealedFacts
  <2>2. kDivideLookupScale \in Nat /\ Scale \in Nat
    BY LookupType DEF Scale
  <2>3. total = Cardinality(Intersection)
    <3> DEFINE f == [e \in Coverage |-> e[2]]
    <3>1. f \in [Coverage -> Intersection]
      BY IntersectionIsCovered
    <3>2. ASSUME NEW d \in Coverage, NEW e \in Coverage, f[d] = f[e] PROVE d = e
      <4>1. /\ d = <<d[1], d[2]>> /\ e = <<e[1], e[2]>> /\ d[2] = e[2]
            /\ d[1] \in Pairs /\ e[1] \in Pairs
            /\ d[2] \in PairModels(d[1]) /\ e[2] \in PairModels(e[1])
        BY <3>2 DEF Coverage
      <4>2. d[1] = e[1]
        BY <4>1
      <4> QED BY <4>1, <4>2
    <3>3. \A a \in Intersection : \E e \in Coverage : f[e] = a
      BY IntersectionIsCovered
    <3>4. f \in Bijection(Coverage, Intersection)
      BY <3>1, <3>2, <3>3 DEF Bijection, Injection, Surjection, IsInjective
    <3>5. ExistsBijection(Coverage, Intersection)
      BY <3>4 DEF ExistsBijection
    <3> QED BY <2>1, <3>5, FS_Bijection
  <2>4. CASE Coverage = {}
    <3>1. total = 0 /\ S \in Int
      <4>1. \A u \in Trials : outcomes[u] \in Int
        BY WireTypes DEF PipelineInv, TypeOK
      <4> QED BY <2>1, <2>4, <4>1, TrialSegments, SumFacts
    <3>2. total * S = 0 /\ K * Scale * 0 = 0
      BY <2>2, <3>1, Sizes
    <3> QED BY <2>1, <2>3, <3>1, <3>2
  <2>5. CASE Coverage # {}
    <3>1. ASSUME NEW s \in Abstract!PossibleScores PROVE s = Scale
      <4>1. PICK e \in Coverage :
              LET H == {k \in Pairs : e[2] \in PairModels(k)}
                  n == Cardinality(H)
              IN  IF Algorithm = "karp_luby"
                  THEN s = IF e[1] = Min(H) THEN 1 ELSE 0
                  ELSE /\ s \in kDivideLookupScale \div n .. kDivideLookupScale \div n + 1
                       /\ 2 * (s * n - kDivideLookupScale) \in -n .. n
        BY <2>5, ScoresOfSpace
      <4> DEFINE H == {k \in Pairs : e[2] \in PairModels(k)}
      <4>2. H = {e[1]}
        BY DEF Coverage
      <4>3. CASE Algorithm = "karp_luby"
        <5>1. s = IF e[1] = Min(H) THEN 1 ELSE 0
          BY <4>1, <4>3
        <5>2. Min(H) = e[1]
          <6>1. e[1] \in Int
            BY Sizes DEF Coverage, Pairs
          <6>2. \E x \in H : \A y \in H : x <= y
            BY <4>2, <6>1
          <6> HIDE DEF H
          <6> QED BY <4>2, <6>2 DEF Min
        <5> QED BY <4>3, <5>1, <5>2 DEF Scale
      <4>4. CASE Algorithm # "karp_luby"
        <5> DEFINE n == Cardinality(H)
        <5>1. n = 1
          BY <4>2, FS_Singleton
        <5>2. /\ s \in kDivideLookupScale \div n .. kDivideLookupScale \div n + 1
              /\ 2 * (s * n - kDivideLookupScale) \in -n .. n
          BY <4>1, <4>4
        <5> HIDE DEF n
        <5>3. s = kDivideLookupScale
          BY <2>2, <5>1, <5>2
        <5> QED BY <4>4, <5>3, AlgorithmAssumption DEF Scale
      <4> QED BY <4>3, <4>4
    <3>2. \A u \in Trials : outcomes[u] = Scale
      BY <2>1, <3>1
    <3>3. S = K * Scale
      BY <2>2, <3>2, TrialSegments, SumConstant
    <3> HIDE DEF S
    <3>4. \A p, q, r \in Nat : p * (q * r) = q * r * p
      OBVIOUS
    <3> QED BY <2>1, <2>2, <2>3, <3>3, <3>4, Sizes
  <2> QED BY <2>4, <2>5
<1> QED BY <1>1, PipelineInvariant, PTL
-----------------------------------------------------------------------------
(***************************************************************************)
(* The circuit starts where the coverage algorithm starts.                 *)
(***************************************************************************)
LEMMA InitMaps == Init => Abstract!Init
<1> SUFFICES ASSUME Init PROVE Abstract!Init
  OBVIOUS
<1>1. [k \in Pairs |-> IF pc = "input" THEN {} ELSE PairModels(k)]
        = [k \in Pairs |-> {}]
  BY DEF Init
<1> QED BY <1>1 DEF Init, Abstract!Init, Trials

(***************************************************************************)
(* A step of the circuit that touches neither the inputs nor the outcomes, *)
(* and reveals nothing, is no step of the coverage algorithm.              *)
(***************************************************************************)
LEMMA StutterMaps ==
  ASSUME UNCHANGED <<inputVars, t, outcomes, revealed>>,
         pc # "input", pc' # "input", pc = "done" <=> pc' = "done"
  PROVE  UNCHANGED Abstract!vars
<1>1. \A k \in Pairs : PairModels(k)' = PairModels(k)
  BY ScoresFrame
<1>2. [k \in Pairs |-> IF pc = "input" THEN {} ELSE PairModels(k)]'
        = [k \in Pairs |-> IF pc = "input" THEN {} ELSE PairModels(k)]
  BY <1>1
<1> QED BY <1>2 DEF Abstract!vars

(***************************************************************************)
(* The write of an outcome is the coverage algorithm's Trial.              *)
(***************************************************************************)
LEMMA EndTrialMaps ==
  ASSUME TypeOK, NEW o \in Abstract!PossibleScores, EndTrial(o), pc \in Selecting
  PROVE  Abstract!Trial
<1>1. /\ pc \notin {"input", "done"} /\ pc' = "sample_in_range" /\ t < K
      /\ outcomes' = [outcomes EXCEPT ![t] = o] /\ t' = t + 1
      /\ revealed' = revealed /\ UNCHANGED inputVars
  BY DEF EndTrial, Selecting, Selected, TypeOK
<1>2. \A k \in Pairs : PairModels(k)' = PairModels(k)
  BY <1>1, ScoresFrame
<1>3. [k \in Pairs |-> IF pc = "input" THEN {} ELSE PairModels(k)]'
        = [k \in Pairs |-> IF pc = "input" THEN {} ELSE PairModels(k)]
  BY <1>1, <1>2
<1> QED BY <1>1, <1>3 DEF Abstract!Trial

(***************************************************************************)
(* Every step of the circuit is a step of the coverage algorithm, or       *)
(* leaves its state alone.                                                 *)
(***************************************************************************)
LEMMA NextMaps ==
  PipelineInv /\ [Next]_vars => Abstract!Next \/ UNCHANGED Abstract!vars
<1> SUFFICES ASSUME PipelineInv, [Next]_vars
             PROVE  Abstract!Next \/ UNCHANGED Abstract!vars
  OBVIOUS
<1>1. CASE FeedCubes
  <2>1. /\ pc = "input" /\ pc' = "conjoin_dnf"
        /\ UNCHANGED <<t, outcomes, revealed>>
    BY <1>1 DEF FeedCubes, resultVars
  <2>2. [k \in Pairs |-> IF pc = "input" THEN {} ELSE PairModels(k)]'
          \in [Pairs -> SUBSET Assignments]
    <3>1. \A k \in Pairs : PairModels(k)' \in SUBSET Assignments
      BY DEF PairModels, Models
    <3> QED BY <2>1, <3>1
  <2>3. Abstract!Load
    BY <2>1, <2>2 DEF Abstract!Load
  <2> QED BY <2>3 DEF Abstract!Next
<1>2. CASE \/ ConjoinDnf \/ CubeWeights \/ AddWeight \/ BeginIntervals
           \/ AddInterval \/ BeginTrials \/ SampleInRange \/ SelectCubeIndex
           \/ CubeAtIndex \/ RandomAssignment \/ CountSatisfiedCubes \/ ScanCube
           \/ BeginEstimate \/ AddOutcome
  <2>1. /\ pc \notin {"input", "done"} /\ pc' \notin {"input", "done"}
        /\ UNCHANGED <<inputVars, t, outcomes, revealed>>
    BY <1>2
    DEF ConjoinDnf, CubeWeights, AddWeight, BeginIntervals, AddInterval,
        BeginTrials, SampleInRange, SelectCubeIndex, CubeAtIndex,
        RandomAssignment, CountSatisfiedCubes, ScanCube, BeginEstimate,
        AddOutcome, resultVars
  <2> QED BY <2>1, StutterMaps
<1>3. CASE DivideLookup
  <2>1. pc = "divide_lookup" /\ EndTrial(divide_lookup(satisfied_count))
    BY <1>3 DEF DivideLookup
  <2>2. divide_lookup(satisfied_count) \in Abstract!PossibleScores
    BY <2>1, ShareIsScore DEF PipelineInv, EstimateInv, BranchInv
  <2>3. Abstract!Trial
    BY <2>1, <2>2, EndTrialMaps DEF PipelineInv, Selecting, Selected
  <2> QED BY <2>3 DEF Abstract!Next
<1>4. CASE EndScan
  <2>1. /\ pc = "is_canonical_sample" /\ i = PRODUCT
        /\ EndTrial(IF b1 THEN 1 ELSE 0)
    BY <1>4 DEF EndScan
  <2>2. (IF b1 THEN 1 ELSE 0) \in Abstract!PossibleScores
    BY <2>1, IndicatorIsScore DEF PipelineInv, EstimateInv, BranchInv
  <2>3. Abstract!Trial
    BY <2>1, <2>2, EndTrialMaps DEF PipelineInv, Selecting, Selected
  <2> QED BY <2>3 DEF Abstract!Next
<1>5. CASE RevealEstimate
  <2>1. /\ pc = "estimate" /\ pc' = "done" /\ t = K
        /\ UNCHANGED <<inputVars, total, t, outcomes>>
    BY <1>5 DEF RevealEstimate, coverVars, PipelineInv, EstimateInv, SumInv
  <2>2. RevealedInv'
    BY <1>5, NextEstimateInv DEF PipelineInv, EstimateInv
  <2>3. revealed' = total * SumFunction(outcomes)
    BY <2>1, <2>2 DEF RevealedInv
  <2>4. Abstract!Cardinality(Abstract!Space) = total
    BY <2>1, MappedSpace, TotalIsSpace, SameOperators DEF PipelineInv, Preparing
  <2>5. \A k \in Pairs : PairModels(k)' = PairModels(k)
    BY <2>1, ScoresFrame
  <2>6. [k \in Pairs |-> IF pc = "input" THEN {} ELSE PairModels(k)]'
          = [k \in Pairs |-> IF pc = "input" THEN {} ELSE PairModels(k)]
    BY <2>1, <2>5
  <2>7. Abstract!Reveal
    BY <2>1, <2>3, <2>4, <2>6, SameOperators DEF Abstract!Reveal
  <2> QED BY <2>7 DEF Abstract!Next
<1>6. CASE Terminating \/ UNCHANGED vars
  <2>1. UNCHANGED <<pc, inputVars, t, outcomes, revealed>>
    BY <1>6 DEF Terminating, vars, resultVars
  <2>2. \A k \in Pairs : PairModels(k)' = PairModels(k)
    BY <2>1 DEF inputVars, PairModels
  <2>3. [k \in Pairs |-> IF pc = "input" THEN {} ELSE PairModels(k)]'
          = [k \in Pairs |-> IF pc = "input" THEN {} ELSE PairModels(k)]
    BY <2>1, <2>2
  <2> QED BY <2>1, <2>3 DEF Abstract!vars
<1> QED BY <1>1, <1>2, <1>3, <1>4, <1>5, <1>6 DEF Next

(***************************************************************************)
(* Every behaviour of the circuit, of either algorithm and any capacity,   *)
(* is a behaviour of the textbook coverage algorithm on the sets of models *)
(* of the pairs.                                                           *)
(***************************************************************************)
THEOREM CircuitIsCoverageAlgorithm == Spec => ImplementsCoverageAlgorithm
BY InitMaps, NextMaps, PipelineInvariant, PTL
DEF Spec, ImplementsCoverageAlgorithm, Abstract!Spec
-----------------------------------------------------------------------------
(***************************************************************************)
(* The numbers below n with a given remainder by d are n \div d, or one    *)
(* more.                                                                   *)
(***************************************************************************)
LEMMA ResidueClass ==
  ASSUME NEW n \in Nat, NEW d \in Nat, d > 0, NEW m \in 0 .. d - 1
  PROVE  Cardinality({r \in 0 .. n - 1 : r % d = m}) \in {n \div d, n \div d + 1}
<1> DEFINE R == {r \in 0 .. n - 1 : r % d = m}
           q == n \div d
<1>1. q \in Nat /\ d * q <= n /\ n < d * q + d
  OBVIOUS
<1> HIDE DEF q
<1> DEFINE count == IF d * q + m < n THEN q + 1 ELSE q
           f == [c \in 0 .. count - 1 |-> d * c + m]
<1>2. count \in Nat /\ count \in {q, q + 1}
  BY <1>1
<1>3. ASSUME NEW c \in Nat PROVE d * c + m < n <=> c < count
  <2>1. CASE d * q + m < n
    <3>1. c <= q => d * c <= d * q
      BY <1>1
    <3>2. q + 1 <= c => d * (q + 1) <= d * c
      BY <1>1
    <3>3. d * (q + 1) = d * q + d /\ d * c \in Nat /\ d * q \in Nat
      BY <1>1
    <3>4. count = q + 1
      BY <2>1
    <3> HIDE DEF count
    <3> QED BY <1>1, <2>1, <3>1, <3>2, <3>3, <3>4
  <2>2. CASE ~(d * q + m < n)
    <3>1. c + 1 <= q => d * (c + 1) <= d * q
      BY <1>1
    <3>2. q <= c => d * q <= d * c
      BY <1>1
    <3>3. d * (c + 1) = d * c + d /\ d * c \in Nat /\ d * q \in Nat
      BY <1>1
    <3>4. count = q
      BY <2>2
    <3> HIDE DEF count
    <3> QED BY <1>1, <2>2, <3>1, <3>2, <3>3, <3>4
  <2> QED BY <2>1, <2>2
<1> HIDE DEF count
<1>4. ASSUME NEW c \in 0 .. count - 1 PROVE d * c + m \in R
  <2>1. c \in Nat /\ c < count
    BY <1>2
  <2>2. d * c + m \in Nat /\ d * c + m < n
    BY <1>3, <2>1
  <2>3. (d * c + m) % d = m
    BY <2>1
  <2> QED BY <2>2, <2>3
<1>5. ASSUME NEW c \in 0 .. count - 1, NEW e \in 0 .. count - 1, f[c] = f[e]
      PROVE  c = e
  <2>1. c \in Nat /\ e \in Nat /\ d * c + m = d * e + m
    BY <1>2, <1>5
  <2>2. (d * c + m) \div d = c /\ (d * e + m) \div d = e
    BY <2>1
  <2> QED BY <2>1, <2>2
<1>6. ASSUME NEW r \in R PROVE \E c \in 0 .. count - 1 : f[c] = r
  <2>1. r \in Nat /\ r < n /\ r % d = m
    OBVIOUS
  <2>2. r \div d \in Nat /\ r = d * (r \div d) + m
    BY <2>1
  <2>3. r \div d < count
    BY <1>3, <2>1, <2>2
  <2>4. r \div d \in 0 .. count - 1
    BY <1>2, <2>2, <2>3
  <2> QED BY <2>2, <2>4
<1> HIDE DEF R
<1>7. f \in Bijection(0 .. count - 1, R)
  BY <1>4, <1>5, <1>6 DEF Bijection, Injection, Surjection, IsInjective
<1>8. ExistsBijection(0 .. count - 1, R)
  BY <1>7 DEF ExistsBijection
<1>9. IsFiniteSet(0 .. count - 1) /\ Cardinality(0 .. count - 1) = count
  <2>1. 0 \in Int /\ count - 1 \in Int
    BY <1>2
  <2>2. /\ IsFiniteSet(0 .. count - 1)
        /\ Cardinality(0 .. count - 1) = IF 0 > count - 1 THEN 0 ELSE count - 1 - 0 + 1
    BY <2>1, FS_Interval
  <2> QED BY <1>2, <2>2
<1>10. Cardinality(R) = count
  BY <1>8, <1>9, FS_Bijection
<1> QED BY <1>2, <1>10 DEF R, q

(***************************************************************************)
(* The sample that a joint word gives.                                     *)
(***************************************************************************)
LEMMA SampleOfWord ==
  ASSUME NEW r \in Nat, NEW tot \in Nat, tot > 0, tot < 2^TotalWidth
  PROVE  sample_in_range(r, tot) = {(r % tot) + 1}
<1>1. r % tot \in 0 .. tot - 1 /\ 2^TotalWidth \in Nat
  BY WidthTypes, PowerType
<1>2. (r % tot) + 1 \in Nat /\ (r % tot) + 1 < 2^TotalWidth
  BY <1>1
<1>3. Wrap(TotalWidth, (r % tot) + 1) = (r % tot) + 1
  BY <1>2, WidthTypes, WrapFits
<1>4. Remainders(r, tot) = {r % tot}
  BY DEF Remainders
<1> HIDE DEF Remainders
<1> QED BY <1>3, <1>4 DEF sample_in_range

(***************************************************************************)
(* The sampler reaches every z in [1, total] and nothing else, and no z    *)
(* from more than one joint word more than another, for every weight.      *)
(***************************************************************************)
THEOREM SamplesNearlyUniform == Spec => []EverySampleReached
<1>1. PipelineInv => EverySampleReached
  <2> SUFFICES ASSUME PipelineInv, ReadyToSample
               PROVE  LET least == 2^TotalWidth \div total
                      IN  /\ least > 0
                          /\ \A zz \in 1..total :
                                Cardinality(WordsOf(zz)) \in {least, least + 1}
                          /\ JointWords = UNION {WordsOf(zz) : zz \in 1..total}
    BY DEF EverySampleReached
  <2> DEFINE N == 2^TotalWidth
  <2>1. N \in Nat /\ total \in Nat /\ total > 0 /\ total < N
    BY CoverDuringTrial, WidthTypes, PowerType DEF PipelineInv, ReadyToSample
  <2>2. JointWords = 0 .. N - 1
    BY DEF JointWords
  <2>3. \A r \in JointWords : sample_in_range(r, total) = {(r % total) + 1}
    BY <2>1, <2>2, SampleOfWord
  <2> HIDE DEF N
  <2>4. N \div total > 0
    BY <2>1
  <2>5. ASSUME NEW zz \in 1..total
        PROVE  /\ WordsOf(zz) = {r \in 0 .. N - 1 : r % total = zz - 1}
               /\ Cardinality(WordsOf(zz)) \in {N \div total, N \div total + 1}
    <3>1. zz - 1 \in 0 .. total - 1
      BY <2>1
    <3>2. \A r \in JointWords : sample_in_range(r, total) = {zz} <=> r % total = zz - 1
      <4>1. \A r \in JointWords : r % total \in Int
        BY <2>1, <2>2
      <4> QED BY <2>1, <2>3, <4>1
    <3>3. WordsOf(zz) = {r \in 0 .. N - 1 : r % total = zz - 1}
      BY <2>2, <3>2 DEF WordsOf
    <3> QED BY <2>1, <3>1, <3>3, ResidueClass
  <2>6. JointWords = UNION {WordsOf(zz) : zz \in 1..total}
    <3>1. ASSUME NEW r \in JointWords PROVE \E zz \in 1..total : r \in WordsOf(zz)
      <4>1. (r % total) + 1 \in 1..total
        BY <2>1, <2>2
      <4>2. r \in WordsOf((r % total) + 1)
        BY <2>3 DEF WordsOf
      <4> QED BY <4>1, <4>2
    <3>2. \A zz : WordsOf(zz) \subseteq JointWords
      BY DEF WordsOf
    <3> QED BY <3>1, <3>2
  <2> QED BY <2>4, <2>5, <2>6 DEF N
<1> QED BY <1>1, PipelineInvariant, PTL
-----------------------------------------------------------------------------
(***************************************************************************)
(* A model of a cube is filled in from as many random words as it takes to *)
(* make up all assignments with the cube's models: an assignment is a      *)
(* model's bits outside the mask and a fill's bits inside it.              *)
(***************************************************************************)
LEMMA FillsOfModel ==
  ASSUME NEW c \in RealCubes, NEW a \in Models(c)
  PROVE  LET F == {r \in Assignments :
                     random_assignment([bits |-> c.bits, mask |-> c.mask], r) = a}
         IN  /\ IsFiniteSet(F)
             /\ Cardinality(Models(c)) * Cardinality(F) = 2^VARS
<1> DEFINE F == {r \in Assignments :
                   random_assignment([bits |-> c.bits, mask |-> c.mask], r) = a}
           g == [x \in Assignments |->
                   <<c.bits \cup (x \ c.mask), (a \ c.mask) \cup (x \cap c.mask)>>]
<1>1. /\ ~c.pad /\ c.bits \subseteq c.mask /\ c.mask \subseteq Vars
      /\ a \in SUBSET Vars /\ a \cap c.mask = c.bits
  BY DEF RealCubes, Cubes, Models, Assignments
<1>2. F = {r \in Assignments : c.bits \cup (r \ c.mask) = a}
  BY DEF random_assignment
<1>3. ASSUME NEW m \in Models(c) PROVE m \in Assignments /\ m \cap c.mask = c.bits
  BY <1>1 DEF Models
<1>4. IsFiniteSet(Assignments) /\ Cardinality(Assignments) = 2^VARS
  BY VarsAssumption, FS_SUBSET DEF Assignments, VARS
<1>5. IsFiniteSet(F) /\ IsFiniteSet(Models(c))
  <2>1. F \in SUBSET Assignments /\ Models(c) \in SUBSET Assignments
    BY DEF Models
  <2> QED BY <1>4, <2>1, FS_Subset
<1> HIDE DEF F
<1>6. ASSUME NEW x \in Assignments PROVE g[x] \in Models(c) \X F
  <2>1. c.bits \cup (x \ c.mask) \in Models(c)
    BY <1>1 DEF Models, Assignments
  <2>2. (a \ c.mask) \cup (x \cap c.mask) \in F
    BY <1>1, <1>2 DEF Assignments
  <2> QED BY <2>1, <2>2
<1>7. ASSUME NEW x \in Assignments, NEW y \in Assignments, g[x] = g[y] PROVE x = y
  <2>1. /\ c.bits \cup (x \ c.mask) = c.bits \cup (y \ c.mask)
        /\ (a \ c.mask) \cup (x \cap c.mask) = (a \ c.mask) \cup (y \cap c.mask)
    BY <1>7
  <2>2. x \ c.mask = y \ c.mask
    BY <1>1, <2>1
  <2>3. x \cap c.mask = y \cap c.mask
    BY <2>1
  <2> QED BY <2>2, <2>3
<1>8. ASSUME NEW p \in Models(c) \X F PROVE \E x \in Assignments : g[x] = p
  <2> DEFINE x == (p[1] \ c.mask) \cup (p[2] \cap c.mask)
  <2>1. /\ p[1] \in Models(c) /\ p[2] \in F /\ p = <<p[1], p[2]>>
        /\ p[1] \in Assignments /\ p[1] \cap c.mask = c.bits
        /\ p[2] \in Assignments /\ c.bits \cup (p[2] \ c.mask) = a
    BY <1>2, <1>3
  <2>2. x \in Assignments
    BY <2>1 DEF Assignments
  <2>3. c.bits \cup (x \ c.mask) = p[1]
    BY <2>1
  <2>4. (a \ c.mask) \cup (x \cap c.mask) = p[2]
    BY <1>1, <2>1
  <2>5. g[x] = p
    BY <2>1, <2>2, <2>3, <2>4
  <2> QED BY <2>2, <2>5
<1> HIDE DEF g
<1>9. g \in Bijection(Assignments, Models(c) \X F)
  <2>1. g \in [Assignments -> Models(c) \X F]
    BY <1>6 DEF g
  <2> QED BY <1>7, <1>8, <2>1 DEF Bijection, Injection, Surjection, IsInjective
<1>10. ExistsBijection(Assignments, Models(c) \X F)
  BY <1>9 DEF ExistsBijection
<1>11. Cardinality(Models(c) \X F) = 2^VARS
  BY <1>4, <1>10, FS_Bijection
<1>12. Cardinality(Models(c) \X F) = Cardinality(Models(c)) * Cardinality(F)
  BY <1>5, FS_Product
<1> QED BY <1>5, <1>11, <1>12 DEF F

(***************************************************************************)
(* The samples that select a pair are those of its block.                  *)
(***************************************************************************)
LEMMA SamplesOfBlock ==
  ASSUME NEW cubes \in [Pairs -> ParsedCubes], NEW bounds,
         \A k \in 0..PRODUCT : bounds[k] = Size(cubes, k),
         NEW k \in Pairs
  PROVE  LET Z == {zz \in 1 .. Size(cubes, PRODUCT) : select_cube_index(zz, bounds) = k + 1}
         IN  IsFiniteSet(Z) /\ Cardinality(Z) = Cardinality(Models(cubes[k]))
<1> DEFINE low == Size(cubes, k)
           high == Size(cubes, k + 1)
           whole == Size(cubes, PRODUCT)
           Z == {zz \in 1 .. whole : select_cube_index(zz, bounds) = k + 1}
<1>1. /\ k \in 0..PRODUCT /\ k + 1 \in 0..PRODUCT /\ PRODUCT \in 0..PRODUCT
      /\ k \in Nat /\ k + 1 <= PRODUCT
  BY Sizes DEF Pairs
<1>2. low \in Nat /\ high \in Nat /\ whole \in Nat /\ low <= high /\ high <= whole
  BY <1>1, SizeFits, SizeMonotone, Sizes
<1>3. high = low + Cardinality(Models(cubes[k]))
  BY SizeStep
<1> HIDE DEF low, high, whole
<1>4. ASSUME NEW zz \in 1 .. whole
      PROVE  select_cube_index(zz, bounds) = k + 1 <=> low < zz /\ zz <= high
  <2> DEFINE n == select_cube_index(zz, bounds)
  <2>1. n \in 1..PRODUCT /\ bounds[n - 1] < zz /\ zz <= bounds[n]
    BY IndexOfBlock DEF whole
  <2> HIDE DEF n
  <2>2. /\ n \in Nat /\ n \in 0..PRODUCT /\ n - 1 \in 0..PRODUCT
        /\ bounds[n - 1] = Size(cubes, n - 1) /\ bounds[n] = Size(cubes, n)
        /\ Size(cubes, n - 1) \in Nat /\ Size(cubes, n) \in Nat /\ zz \in Nat
    <3>1. n \in 0..PRODUCT /\ n - 1 \in 0..PRODUCT
      BY <2>1, Sizes
    <3> QED BY <2>1, <3>1, SizeFits, Sizes, <1>2
  <2>3. CASE n = k + 1
    <3>1. n - 1 = k
      BY <1>1, <2>3
    <3> QED BY <2>1, <2>2, <2>3, <3>1 DEF n, low, high
  <2>4. CASE n < k + 1
    <3>1. Size(cubes, n) <= low
      BY <1>1, <2>2, <2>4, SizeMonotone DEF low
    <3> QED BY <1>1, <1>2, <2>1, <2>2, <2>4, <3>1 DEF n
  <2>5. CASE n > k + 1
    <3>1. high <= Size(cubes, n - 1)
      BY <1>1, <2>2, <2>5, SizeMonotone DEF high
    <3> QED BY <1>1, <1>2, <2>1, <2>2, <2>5, <3>1 DEF n
  <2> QED BY <1>1, <2>2, <2>3, <2>4, <2>5
<1>5. Z = low + 1 .. high
  <2>1. \A zz : zz \in low + 1 .. high => zz \in 1 .. whole /\ low < zz /\ zz <= high
    BY <1>2
  <2>2. \A zz \in 1 .. whole : low < zz /\ zz <= high => zz \in low + 1 .. high
    BY <1>2
  <2> QED BY <1>4, <2>1, <2>2
<1>6. /\ IsFiniteSet(low + 1 .. high)
      /\ Cardinality(low + 1 .. high)
            = IF low + 1 > high THEN 0 ELSE high - (low + 1) + 1
  <2>1. low + 1 \in Int /\ high \in Int
    BY <1>2
  <2> QED BY <2>1, FS_Interval
<1>7. Cardinality(low + 1 .. high) = Cardinality(Models(cubes[k]))
  <2>1. Cardinality(Models(cubes[k])) \in Nat
    BY WeightCountsModels, FS_CardinalityType
  <2> QED BY <1>2, <1>3, <1>6, <2>1
<1> QED BY <1>5, <1>6, <1>7 DEF whole

(***************************************************************************)
(* Every pair and model of it is picked by 2^VARS draws.                   *)
(***************************************************************************)
Drawn(d) ==
    LET idx == select_cube_index(d[1], intervals)
    IN  <<idx - 1, random_assignment(cube_at_index(idx, conjunction), d[2])>>

(***************************************************************************)
(* Every element of the coverage space is picked by 2^VARS draws.          *)
(***************************************************************************)
LEMMA DrawsOfElement ==
  ASSUME PipelineInv, ReadyToSample
  PROVE  /\ IsFiniteSet(Draws)
         /\ \A d \in Draws : Drawn(d) \in Coverage
         /\ \A e \in Coverage : Cardinality({d \in Draws : Drawn(d) = e}) = 2^VARS
<1>1. /\ conjunction \in [Pairs -> ParsedCubes]
      /\ \A k \in Pairs : Models(conjunction[k]) = PairModels(k)
      /\ \A k \in 0..PRODUCT : intervals[k] = Size(conjunction, k)
      /\ total = Size(conjunction, PRODUCT) /\ total \in Nat
  BY CoverDuringTrial DEF PipelineInv, ReadyToSample
<1>2. IsFiniteSet(Draws)
  <2>1. IsFiniteSet(1..total)
    <3>1. 1 \in Int /\ total \in Int
      BY <1>1
    <3> QED BY <3>1, FS_Interval
  <2>2. IsFiniteSet(Assignments)
    BY VarsAssumption, FS_SUBSET DEF Assignments
  <2> QED BY <2>1, <2>2, FS_Product DEF Draws
<1> DEFINE idx(d) == select_cube_index(d[1], intervals)
<1>3. ASSUME NEW d \in Draws
      PROVE  /\ idx(d) \in 1..PRODUCT /\ idx(d) - 1 \in Pairs
             /\ conjunction[idx(d) - 1] \in RealCubes
             /\ d[2] \in Assignments
             /\ Drawn(d) = <<idx(d) - 1,
                             random_assignment([bits |-> conjunction[idx(d) - 1].bits,
                                                mask |-> conjunction[idx(d) - 1].mask],
                                               d[2])>>
  <2>1. d[1] \in 1 .. Size(conjunction, PRODUCT) /\ d[2] \in Assignments
    BY <1>1 DEF Draws
  <2>2. idx(d) \in 1..PRODUCT /\ conjunction[idx(d) - 1] \in RealCubes
    BY <1>1, <2>1, IndexOfBlock
  <2>3. idx(d) - 1 \in Pairs
    BY <2>2, Sizes DEF Pairs
  <2> QED BY <2>1, <2>2, <2>3, MuxDelivers DEF Drawn
<1> HIDE DEF idx
<1>4. ASSUME NEW d \in Draws PROVE Drawn(d) \in Coverage
  <2>1. random_assignment([bits |-> conjunction[idx(d) - 1].bits,
                           mask |-> conjunction[idx(d) - 1].mask], d[2])
          \in PairModels(idx(d) - 1)
    BY <1>1, <1>3, RandomAssignmentIsModel DEF Assignments
  <2>2. PairModels(idx(d) - 1) \subseteq Assignments
    BY DEF PairModels, Models
  <2> QED BY <1>3, <2>1, <2>2 DEF Coverage
<1>5. ASSUME NEW e \in Coverage
      PROVE  Cardinality({d \in Draws : Drawn(d) = e}) = 2^VARS
  <2> DEFINE k == e[1]
             c == conjunction[k]
             Z == {zz \in 1 .. Size(conjunction, PRODUCT) :
                     select_cube_index(zz, intervals) = k + 1}
             F == {r \in Assignments :
                     random_assignment([bits |-> c.bits, mask |-> c.mask], r) = e[2]}
  <2>1. k \in Pairs /\ e[2] \in Models(c) /\ e = <<k, e[2]>>
    BY <1>1 DEF Coverage
  <2>2. c \in RealCubes
    <3>1. c \in ParsedCubes /\ ~c.pad
      BY <1>1, <2>1 DEF Models
    <3> QED BY <3>1 DEF ParsedCubes, PadCube
  <2>3. IsFiniteSet(Z) /\ Cardinality(Z) = Cardinality(Models(c))
    BY <1>1, <2>1, SamplesOfBlock
  <2>4. IsFiniteSet(F) /\ Cardinality(Models(c)) * Cardinality(F) = 2^VARS
    BY <2>1, <2>2, FillsOfModel
  <2>5. ASSUME NEW d \in Draws PROVE Drawn(d) = e <=> d[1] \in Z /\ d[2] \in F
    <3>1. d[1] \in 1 .. Size(conjunction, PRODUCT) /\ d[2] \in Assignments
      BY <1>1 DEF Draws
    <3>2. d[1] \in Z <=> idx(d) - 1 = k
      <4>1. idx(d) \in 1..PRODUCT /\ k \in Pairs
        BY <1>3, <2>1
      <4> HIDE DEF k
      <4>2. idx(d) \in Int /\ k \in Int
        BY <4>1, Sizes DEF Pairs
      <4>3. idx(d) - 1 = k <=> idx(d) = k + 1
        BY <4>2
      <4>4. d[1] \in Z <=> idx(d) = k + 1
        BY <3>1 DEF idx
      <4> QED BY <4>3, <4>4
    <3>3. CASE idx(d) - 1 = k
      <4>1. Drawn(d) = <<k, random_assignment([bits |-> c.bits, mask |-> c.mask], d[2])>>
        BY <1>3, <3>3
      <4>2. Drawn(d) = e
              <=> random_assignment([bits |-> c.bits, mask |-> c.mask], d[2]) = e[2]
        BY <2>1, <4>1
      <4> QED BY <3>1, <3>2, <3>3, <4>2
    <3>4. CASE idx(d) - 1 # k
      <4>1. PICK y : Drawn(d) = <<idx(d) - 1, y>>
        BY <1>3
      <4>2. Drawn(d)[1] = idx(d) - 1
        BY <4>1
      <4> QED BY <3>2, <3>4, <4>2
    <3> QED BY <3>3, <3>4
  <2>6. Z \subseteq 1..total /\ F \subseteq Assignments
    BY <1>1
  <2> HIDE DEF Z, F, c, k
  <2>7. {d \in Draws : Drawn(d) = e} = Z \X F
    BY <2>5, <2>6 DEF Draws
  <2>8. Cardinality(Z \X F) = Cardinality(Z) * Cardinality(F)
    BY <2>3, <2>4, FS_Product
  <2> QED BY <2>3, <2>4, <2>7, <2>8
<1> QED BY <1>2, <1>4, <1>5

(***************************************************************************)
(* What a draw records, told from the element of the coverage space that   *)
(* it picks.                                                               *)
(***************************************************************************)
ScoreOf(e) ==
    IF Algorithm = "vazirani"
    THEN entry(Cardinality({k \in Pairs : e[2] \in PairModels(k)}))
    ELSE IF \E k \in Pairs : k < e[1] /\ e[2] \in PairModels(k) THEN 0 ELSE 1

(***************************************************************************)
(* A trial's outcome is the score of the element that its draw picks.      *)
(***************************************************************************)
LEMMA OutcomeOfDraw ==
  ASSUME PipelineInv, ReadyToSample, NEW d \in Draws
  PROVE  TrialOutcome(d[1], d[2]) = ScoreOf(Drawn(d))
<1> DEFINE idx == select_cube_index(d[1], intervals)
           a == random_assignment(cube_at_index(idx, conjunction), d[2])
           H == {k \in Pairs : a \in PairModels(k)}
<1>1. /\ conjunction \in [Pairs -> ParsedCubes]
      /\ \A k \in Pairs : Models(conjunction[k]) = PairModels(k)
  BY CoverDuringTrial DEF PipelineInv, ReadyToSample
<1>2. Drawn(d) = <<idx - 1, a>> /\ <<idx - 1, a>> \in Coverage
  BY DrawsOfElement DEF Drawn
<1>3. a \in Assignments /\ idx - 1 \in Pairs
  BY <1>2 DEF Coverage
<1>4. Cardinality(H) \in 1..PRODUCT
  <2>1. <<idx - 1, a>>[2] = a
    OBVIOUS
  <2> QED BY <1>2, <2>1, HoldersOfCovered
<1>5. CASE Algorithm = "vazirani"
  <2>1. {k \in Pairs : a \in Models(conjunction[k])} = H
    BY <1>1
  <2>2. count_satisfied_cubes(a, conjunction) = Cardinality(H)
    BY <1>1, <1>3, <2>1, CountCounts
  <2>3. divide_lookup(Cardinality(H)) = entry(Cardinality(H))
    BY <1>4, Sizes DEF divide_lookup
  <2>4. TrialOutcome(d[1], d[2]) = divide_lookup(count_satisfied_cubes(a, conjunction))
    BY <1>5 DEF TrialOutcome
  <2>5. ScoreOf(<<idx - 1, a>>) = entry(Cardinality(H))
    BY <1>5 DEF ScoreOf
  <2> QED BY <1>2, <2>2, <2>3, <2>4, <2>5
<1>6. CASE Algorithm # "vazirani"
  <2>1. \A k \in Pairs : satisfied(a, conjunction[k]) <=> a \in PairModels(k)
    BY <1>1, <1>3, SatisfiedIsModel
  <2>2. \A k : k \in 0 .. idx - 2 <=> k \in Pairs /\ k < idx - 1
    <3>1. idx \in 1..PRODUCT
      <4>1. /\ \A k \in 0..PRODUCT : intervals[k] = Size(conjunction, k)
            /\ d[1] \in 1 .. Size(conjunction, PRODUCT)
        BY CoverDuringTrial DEF PipelineInv, ReadyToSample, Draws
      <4> QED BY <1>1, <4>1, IndexOfBlock
    <3> HIDE DEF idx
    <3> QED BY <3>1, Sizes DEF Pairs
  <2>3. (\E k \in 0 .. idx - 2 : satisfied(a, conjunction[k]))
          <=> \E k \in Pairs : k < idx - 1 /\ a \in PairModels(k)
    BY <2>1, <2>2
  <2>4. TrialOutcome(d[1], d[2])
          = IF \E k \in 0 .. idx - 2 : satisfied(a, conjunction[k]) THEN 0 ELSE 1
    BY <1>6 DEF TrialOutcome
  <2>5. ScoreOf(<<idx - 1, a>>)
          = IF \E k \in Pairs : k < idx - 1 /\ a \in PairModels(k) THEN 0 ELSE 1
    BY <1>6 DEF ScoreOf
  <2> HIDE DEF idx, a
  <2> QED BY <1>2, <2>3, <2>4, <2>5
<1> QED BY <1>5, <1>6

(***************************************************************************)
(* So over all draws the outcomes add up to 2^VARS times the scores of the *)
(* coverage space.                                                         *)
(***************************************************************************)
Scores == [e \in Coverage |-> ScoreOf(e)]

(***************************************************************************)
(* Scores are natural numbers.                                             *)
(***************************************************************************)
LEMMA ScoreIsNatural ==
  ASSUME NEW e \in Coverage
  PROVE  Scores[e] \in Nat
<1> DEFINE H == {k \in Pairs : e[2] \in PairModels(k)}
<1>1. Cardinality(H) \in 1..PRODUCT
  BY HoldersOfCovered
<1>2. Cardinality(H) \in Nat /\ Cardinality(H) > 0
  BY <1>1, Sizes
<1>3. entry(Cardinality(H)) \in Nat
  <2>1. kDivideLookupScale \in Nat
    BY LookupType
  <2> HIDE DEF H
  <2>2. \A n \in Nat : n > 0 => kDivideLookupScale \div n \in Nat
    BY <2>1
  <2>3. kDivideLookupScale \div Cardinality(H) \in Nat
    BY <1>2, <2>2
  <2>4. entry(Cardinality(H)) \in kDivideLookupScale \div Cardinality(H)
                                    .. kDivideLookupScale \div Cardinality(H) + 1
    BY <1>2, EntryRounds
  <2> QED BY <2>3, <2>4
<1> QED BY <1>3 DEF Scores, ScoreOf

(***************************************************************************)
(* The outcomes of all draws add up to 2^VARS times the scores of the      *)
(* coverage space.                                                         *)
(***************************************************************************)
LEMMA DrawsAddUp ==
  ASSUME PipelineInv, ReadyToSample
  PROVE  SumFunction([d \in Draws |-> TrialOutcome(d[1], d[2])])
           = 2^VARS * SumFunctionOnSet(Scores, Coverage)
<1> DEFINE f == [d \in Draws |-> TrialOutcome(d[1], d[2])]
           phi == [d \in Draws |-> Drawn(d)]
<1>1. IsFiniteSet(Coverage)
  BY TotalIsSpace DEF PipelineInv, ReadyToSample, Preparing
<1>2. IsFiniteSet(Draws) /\ phi \in [Draws -> Coverage]
  BY DrawsOfElement
<1>3. \A e \in Coverage : Cardinality({d \in Draws : phi[d] = e}) = 2^VARS
  <2>1. ASSUME NEW e \in Coverage
        PROVE  {d \in Draws : phi[d] = e} = {d \in Draws : Drawn(d) = e}
    OBVIOUS
  <2> QED BY <2>1, DrawsOfElement
<1>4. 2^VARS \in Nat
  BY PowerType, VarsAssumption, FS_CardinalityType DEF VARS
<1>5. \A e \in Coverage : Scores[e] \in Int
  BY ScoreIsNatural
<1>6. \A d \in Draws : f[d] = Scores[phi[d]]
  BY OutcomeOfDraw, DrawsOfElement DEF Scores
<1>7. DOMAIN f = Draws
  OBVIOUS
<1> HIDE DEF f, phi
<1>8. SumFunctionOnSet(f, Draws) = 2^VARS * SumFunctionOnSet(Scores, Coverage)
  BY <1>1, <1>2, <1>3, <1>4, <1>5, <1>6, SumOfFibers
<1>9. SumFunction(f) = SumFunctionOnSet(f, Draws)
  BY <1>7 DEF SumFunction
<1> QED BY <1>8, <1>9 DEF f

(***************************************************************************)
(* Karp-Luby scores 1 at the first pair that holds an assignment: once for *)
(* each assignment of the intersection.                                    *)
(***************************************************************************)
LEMMA FirstPairsAddUp ==
  ASSUME IsFiniteSet(Coverage), Algorithm # "vazirani"
  PROVE  SumFunctionOnSet(Scores, Coverage) = Cardinality(Intersection)
<1> DEFINE Earlier(e) == \E k \in Pairs : k < e[1] /\ e[2] \in PairModels(k)
           First == {e \in Coverage : ~Earlier(e)}
           Rest == {e \in Coverage : Earlier(e)}
           g == [e \in First |-> e[2]]
<1>1. ASSUME NEW e \in Coverage
      PROVE  /\ e[1] \in Pairs /\ e[1] \in Nat /\ e[2] \in PairModels(e[1])
             /\ e[2] \in Intersection /\ e = <<e[1], e[2]>>
  <2>1. e[1] \in Pairs /\ e[2] \in PairModels(e[1]) /\ e = <<e[1], e[2]>>
    BY DEF Coverage
  <2> QED BY <2>1, IntersectionIsCovered, Sizes DEF Pairs
<1>2. g \in Bijection(First, Intersection)
  <2>1. g \in [First -> Intersection]
    BY <1>1
  <2>2. ASSUME NEW e \in First, NEW d \in First, g[e] = g[d] PROVE e = d
    <3>1. e[2] = d[2]
      BY <2>2
    <3>2. ~(e[1] < d[1]) /\ ~(d[1] < e[1])
      BY <1>1, <3>1
    <3>3. e[1] = d[1]
      BY <1>1, <3>2
    <3> QED BY <1>1, <3>1, <3>3
  <2>3. ASSUME NEW a \in Intersection PROVE \E e \in First : g[e] = a
    <3> DEFINE H == {k \in Pairs : a \in PairModels(k)}
    <3>1. PICK j \in Pairs : <<j, a>> \in Coverage
      BY IntersectionIsCovered
    <3>2. j \in H /\ H \subseteq Nat
      BY <1>1, <3>1, Sizes DEF Pairs, Coverage
    <3>3. PICK l \in H : \A k \in H : l <= k
      <4> HIDE DEF H
      <4> QED BY <3>2, LeastNatural
    <3>4. <<l, a>> \in Coverage
      BY <3>3, IntersectionIsCovered DEF Coverage
    <3>5. <<l, a>>[1] = l /\ <<l, a>>[2] = a
      OBVIOUS
    <3>6. ~Earlier(<<l, a>>)
      <4>1. SUFFICES ASSUME NEW k \in Pairs, k < l, a \in PairModels(k) PROVE FALSE
        BY <3>5
      <4>2. k \in H /\ k \in Nat /\ l \in Nat
        BY <3>2, <4>1
      <4> QED BY <3>3, <4>1, <4>2
    <3>7. <<l, a>> \in First
      BY <3>4, <3>6
    <3> QED BY <3>5, <3>7
  <2> HIDE DEF g, First
  <2> QED BY <2>1, <2>2, <2>3 DEF Bijection, Injection, Surjection, IsInjective
<1>3. /\ IsFiniteSet(First) /\ IsFiniteSet(Rest)
      /\ First \cap Rest = {} /\ Coverage = First \cup Rest
  <2>1. First \in SUBSET Coverage /\ Rest \in SUBSET Coverage
    OBVIOUS
  <2> QED BY <2>1, FS_Subset
<1>4. (\A e \in First : Scores[e] = 1) /\ (\A e \in Rest : Scores[e] = 0)
  BY DEF Scores, ScoreOf
<1> HIDE DEF First, Rest, g
<1>5. Cardinality(First) = Cardinality(Intersection)
  <2>1. ExistsBijection(First, Intersection)
    BY <1>2 DEF ExistsBijection
  <2> QED BY <1>3, <2>1, FS_Bijection
<1>6. Cardinality(First) \in Nat /\ Cardinality(Rest) \in Nat
  BY <1>3, FS_CardinalityType
<1>7. SumFunctionOnSet(Scores, First) = Cardinality(First)
  <2>1. SumFunctionOnSet(Scores, First) = Cardinality(First) * 1
    BY <1>3, <1>4, SumConstant
  <2> QED BY <1>6, <2>1
<1>8. SumFunctionOnSet(Scores, Rest) = 0
  <2>1. SumFunctionOnSet(Scores, Rest) = Cardinality(Rest) * 0
    BY <1>3, <1>4, SumConstant
  <2> QED BY <1>6, <2>1
<1>9. SumFunctionOnSet(Scores, First \cup Rest)
        = SumFunctionOnSet(Scores, First) + SumFunctionOnSet(Scores, Rest)
  <2>1. \A e \in First \cup Rest : Scores[e] \in Int
    BY <1>4
  <2> QED BY <1>3, <2>1, SumUnion
<1> QED BY <1>3, <1>5, <1>6, <1>7, <1>8, <1>9

(***************************************************************************)
(* An assignment is held by as many pairs as the coverage space has        *)
(* elements for it.                                                        *)
(***************************************************************************)
LEMMA ElementsOfAssignment ==
  ASSUME IsFiniteSet(Coverage), NEW a \in Intersection
  PROVE  LET n == Cardinality({k \in Pairs : a \in PairModels(k)})
             B == {e \in Coverage : e[2] = a}
         IN  /\ n \in Nat /\ n > 0 /\ IsFiniteSet(B) /\ Cardinality(B) = n
             /\ \A e \in B : Algorithm = "vazirani" => Scores[e] = entry(n)
<1> DEFINE H == {k \in Pairs : a \in PairModels(k)}
           B == {e \in Coverage : e[2] = a}
           g == [e \in B |-> e[1]]
<1>1. a \in Assignments
  BY IntersectionIsCovered
<1>2. Cardinality(H) \in Nat /\ Cardinality(H) > 0
  <2>1. PICK e \in Coverage : e[2] = a
    BY IntersectionIsCovered
  <2>2. Cardinality(H) \in 1..PRODUCT
    BY <2>1, HoldersOfCovered
  <2> QED BY <2>2, Sizes
<1>3. ASSUME NEW e \in B PROVE e \in Coverage /\ e[1] \in H /\ e = <<e[1], a>>
  BY DEF Coverage
<1>4. ASSUME NEW k \in H PROVE <<k, a>> \in B
  BY <1>1 DEF Coverage
<1>5. ASSUME Algorithm = "vazirani", NEW e \in B
      PROVE  Scores[e] = entry(Cardinality(H))
  BY <1>3, <1>5 DEF Scores, ScoreOf
<1> HIDE DEF H, B
<1>6. IsFiniteSet(B)
  <2>1. B \in SUBSET Coverage
    BY <1>3
  <2> QED BY <2>1, FS_Subset
<1>7. g \in Bijection(B, H)
  <2>1. g \in [B -> H]
    BY <1>3
  <2>2. \A d, e \in B : g[d] = g[e] => d = e
    BY <1>3
  <2>3. \A k \in H : \E e \in B : g[e] = k
    <3>1. \A k \in H : g[<<k, a>>] = k
      BY <1>4
    <3> QED BY <1>4, <3>1
  <2> HIDE DEF g
  <2> QED BY <2>1, <2>2, <2>3 DEF Bijection, Injection, Surjection, IsInjective
<1>8. Cardinality(B) = Cardinality(H)
  <2>1. ExistsBijection(B, H)
    BY <1>7 DEF ExistsBijection
  <2> QED BY <1>6, <2>1, FS_Bijection
<1> QED BY <1>2, <1>5, <1>6, <1>8 DEF H, B

(***************************************************************************)
(* Vazirani's shares of one assignment add up to one unit, each of them    *)
(* half a unit of the table off at most; so those of the coverage space    *)
(* add up to the count, half a unit per element off at most.               *)
(***************************************************************************)
LEMMA SharesAddUp ==
  ASSUME IsFiniteSet(Coverage), Algorithm = "vazirani"
  PROVE  LET n == Cardinality(Coverage)
         IN  2 * (SumFunctionOnSet(Scores, Coverage)
                    - kDivideLookupScale * Cardinality(Intersection)) \in -n .. n
<1> DEFINE U == kDivideLookupScale
           F(s) == {e \in Coverage : e[2] \in s}
           Off(s) == 2 * (SumFunctionOnSet(Scores, F(s)) - U * Cardinality(s))
           G == {s \in SUBSET Intersection :
                   Off(s) \in -Cardinality(F(s)) .. Cardinality(F(s))}
<1>1. U \in Nat
  BY LookupType
<1>2. IsFiniteSet(Intersection)
  <2>1. IsFiniteSet(Assignments)
    BY VarsAssumption, FS_SUBSET DEF Assignments
  <2> QED BY <2>1, IntersectionIsCovered, FS_Subset
<1>3. \A e \in Coverage : Scores[e] \in Int
  BY ScoreIsNatural
<1>4. /\ SumFunctionOnSet(Scores, {}) = 0
      /\ \A s \in SUBSET Coverage : SumFunctionOnSet(Scores, s) \in Int
  BY <1>3, SumFacts
<1>5. {} \in G
  <2>1. F({}) = {}
    OBVIOUS
  <2>2. Cardinality({}) = 0
    BY FS_EmptySet
  <2> HIDE DEF F, U
  <2>3. U * Cardinality({}) = 0 /\ SumFunctionOnSet(Scores, F({})) = 0
    <3>1. U * Cardinality({}) = 0
      BY <1>1, <2>2
    <3>2. SumFunctionOnSet(Scores, F({})) = 0
      BY <1>4, <2>1
    <3> QED BY <3>1, <3>2
  <2>4. Off({}) = 0
    BY <2>3
  <2> HIDE DEF Off
  <2> QED BY <2>1, <2>2, <2>4
<1>6. ASSUME NEW u \in SUBSET Intersection, u # {}, \A x \in u : u \ {x} \in G
      PROVE  u \in G
  <2>1. PICK x : x \in u
    BY <1>6
  <2> DEFINE v == u \ {x}
             A == F(v)
             B == {e \in Coverage : e[2] = x}
             n == Cardinality({k \in Pairs : x \in PairModels(k)})
  <2>2. v \in G
    BY <1>6, <2>1
  <2>3. /\ n \in Nat /\ n > 0 /\ IsFiniteSet(B) /\ Cardinality(B) = n
        /\ \A e \in B : Scores[e] = entry(n)
    BY <2>1, ElementsOfAssignment
  <2>4. F(u) = A \cup B /\ A \cap B = {} /\ A \in SUBSET Coverage
    BY <2>1
  <2>5. /\ IsFiniteSet(u) /\ Cardinality(u) \in Nat
        /\ Cardinality(v) = Cardinality(u) - 1 /\ Cardinality(v) \in Nat
    <3>1. IsFiniteSet(u) /\ IsFiniteSet(v)
      BY <1>2, FS_Subset
    <3> QED BY <2>1, <3>1, FS_CardinalityType, FS_RemoveElement
  <2>6. entry(n) \in Int /\ 2 * (entry(n) * n - U) \in -n .. n
    <3> HIDE DEF n
    <3>1. entry(n) \in U \div n .. U \div n + 1
      BY <2>3, EntryRounds
    <3>2. entry(n) \in Int
      BY <3>1
    <3> QED BY <2>3, <3>2, EntryRounds
  <2>7. /\ SumFunctionOnSet(Scores, A) \in Int
        /\ 2 * (SumFunctionOnSet(Scores, A) - U * Cardinality(v))
             \in -Cardinality(A) .. Cardinality(A)
    BY <1>4, <2>2, <2>4
  <2> HIDE DEF A, B, F, n, U, v
  <2>8. IsFiniteSet(A) /\ Cardinality(A) \in Nat
    BY <2>4, FS_Subset, FS_CardinalityType
  <2>9. Cardinality(F(u)) = Cardinality(A) + n
    <3>1. Cardinality(A \cup B) = Cardinality(A) + Cardinality(B) - Cardinality({})
      BY <2>3, <2>4, <2>8, FS_Union
    <3>2. Cardinality({}) = 0
      BY FS_EmptySet
    <3> QED BY <2>3, <2>4, <2>8, <3>1, <3>2
  <2>10. SumFunctionOnSet(Scores, F(u)) = SumFunctionOnSet(Scores, A) + entry(n) * n
    <3>1. SumFunctionOnSet(Scores, B) = n * entry(n)
      BY <2>3, <2>6, SumConstant
    <3>2. \A e \in A \cup B : Scores[e] \in Int
      BY <1>3, <2>3, <2>4, <2>6
    <3>3. SumFunctionOnSet(Scores, A \cup B)
            = SumFunctionOnSet(Scores, A) + SumFunctionOnSet(Scores, B)
      BY <2>3, <2>4, <2>8, <3>2, SumUnion
    <3>4. n * entry(n) = entry(n) * n
      BY <2>3, <2>6
    <3> QED BY <2>4, <3>1, <3>3, <3>4
  <2>11. U * Cardinality(u) = U * Cardinality(v) + U
    <3>1. \A p, q \in Int : p * q = p * (q - 1) + p
      OBVIOUS
    <3> QED BY <1>1, <2>5, <3>1
  <2>12. ASSUME NEW S \in Int, NEW w \in Int, NEW c \in Nat, NEW y \in Int,
                2 * (S - w) \in -c .. c, 2 * (y - U) \in -n .. n
         PROVE  2 * ((S + y) - (w + U)) \in -(c + n) .. c + n
    BY <1>1, <2>3, <2>12
  <2>13. U * Cardinality(v) \in Int /\ entry(n) * n \in Int
    BY <1>1, <2>3, <2>5, <2>6
  <2>14. 2 * ((SumFunctionOnSet(Scores, A) + entry(n) * n) - (U * Cardinality(v) + U))
           \in -(Cardinality(A) + n) .. Cardinality(A) + n
    BY <2>6, <2>7, <2>8, <2>12, <2>13
  <2> QED BY <2>9, <2>10, <2>11, <2>14
<1>7. F(Intersection) = Coverage
  BY IntersectionIsCovered
<1> HIDE DEF G
<1>8. G \in SUBSET SUBSET Intersection
  BY DEF G
<1>9. G = SUBSET Intersection
  BY <1>2, <1>5, <1>6, <1>8, GoodSubsets
<1>10. Intersection \in G
  BY <1>9
<1> QED BY <1>7, <1>10 DEF G

(***************************************************************************)
(* The coverage theorem: over all the draws of a trial, the outcomes add   *)
(* up to 2^VARS times the count, exactly for Karp-Luby and to half a unit  *)
(* of the lookup table per draw for Vazirani, for any DNFs of any size.    *)
(***************************************************************************)
THEOREM OutcomesAddUp == Spec => []CoverageTheorem
<1>1. ASSUME PipelineInv PROVE CoverageTheorem
  <2>1. SUFFICES ASSUME ReadyToSample
                 PROVE  LET drawn == SumFunction([d \in Draws |-> TrialOutcome(d[1], d[2])])
                            counted == Scale * 2^VARS * Cardinality(Intersection)
                        IN  IF Algorithm = "vazirani"
                            THEN 2 * (drawn - counted)
                                   \in -(total * 2^VARS) .. total * 2^VARS
                            ELSE drawn = counted
    BY DEF CoverageTheorem
  <2> DEFINE drawn == SumFunction([d \in Draws |-> TrialOutcome(d[1], d[2])])
             S == SumFunctionOnSet(Scores, Coverage)
             I == Cardinality(Intersection)
             P == 2^VARS
  <2>2. total = Cardinality(Coverage) /\ IsFiniteSet(Coverage) /\ total \in Nat
    BY <1>1, <2>1, TotalIsSpace DEF PipelineInv, ReadyToSample, Preparing
  <2>3. drawn = P * S
    BY <1>1, <2>1, DrawsAddUp
  <2>4. P \in Nat
    BY PowerType, VarsAssumption, FS_CardinalityType DEF VARS
  <2>5. I \in Nat
    <3>1. IsFiniteSet(Assignments)
      BY VarsAssumption, FS_SUBSET DEF Assignments
    <3> QED BY <3>1, IntersectionIsCovered, FS_Subset, FS_CardinalityType
  <2>6. S \in Int
    <3>1. \A e \in Coverage : Scores[e] \in Int
      BY ScoreIsNatural
    <3> QED BY <2>2, <3>1, SumFacts
  <2>7. CASE Algorithm # "vazirani"
    <3>1. S = I
      BY <2>2, <2>7, FirstPairsAddUp
    <3>2. Scale = 1
      BY <2>7 DEF Scale
    <3> HIDE DEF drawn, S, I, P
    <3>3. drawn = Scale * P * I
      BY <2>3, <2>4, <2>5, <3>1, <3>2
    <3> QED BY <2>7, <3>3 DEF drawn, I, P
  <2>8. CASE Algorithm = "vazirani"
    <3> DEFINE U == kDivideLookupScale
               off == 2 * (S - U * I)
    <3>1. off \in -total .. total
      BY <2>2, <2>8, SharesAddUp
    <3>2. Scale = U /\ U \in Nat
      BY <2>8, LookupType DEF Scale
    <3> HIDE DEF drawn, S, I, P, U
    <3>3. 2 * (P * S - U * P * I) = P * off
      <4>1. U * P * I = P * (U * I) /\ U * I \in Int
        BY <2>4, <2>5, <3>2
      <4>2. P * S - P * (U * I) = P * (S - U * I)
        BY <2>4, <2>6, <4>1
      <4>3. S - U * I \in Int
        BY <2>6, <4>1
      <4>4. \A p, q \in Int : 2 * (p * q) = p * (2 * q)
        OBVIOUS
      <4> QED BY <2>4, <4>1, <4>2, <4>3, <4>4
    <3> HIDE DEF off
    <3>4. P * off \in -(total * P) .. total * P
      <4>1. off \in Int /\ off <= total /\ -total <= off
        BY <2>2, <3>1
      <4>2. P * off <= P * total /\ P * (-total) <= P * off
        BY <2>2, <2>4, <4>1
      <4>3. P * total = total * P /\ P * (-total) = -(total * P) /\ total * P \in Nat
        BY <2>2, <2>4
      <4>4. P * off \in Int
        BY <2>4, <4>1
      <4> QED BY <4>2, <4>3, <4>4
    <3>5. 2 * (drawn - Scale * P * I) \in -(total * P) .. total * P
      BY <2>3, <3>2, <3>3, <3>4
    <3> QED BY <2>8, <3>5 DEF drawn, I, P
  <2> QED BY <2>7, <2>8
<1> QED BY <1>1, PipelineInvariant, PTL
-----------------------------------------------------------------------------
(***************************************************************************)
(* The files behind the inputs.  An array that stands for a file has the   *)
(* file's models, and the models of each of its cubes.                     *)
(***************************************************************************)
LEMMA ParsedMeansFile ==
  ASSUME NEW f, NEW d \in Reader!Parses(f)
  PROVE  LET s == Reader!Stream(f)
             n == Reader!CubeCount(s)
         IN  /\ n \in 0..CUBES
             /\ \A k \in Inputs :
                   Models(d[k]) = IF k < n THEN Reader!CubeModels(s, k) ELSE {}
             /\ DnfModels(d) = Reader!FileModels(f)
<1> DEFINE s == Reader!Stream(f)
           n == Reader!CubeCount(s)
<1>1. /\ n \in 0..CUBES
      /\ \A k \in Inputs : Models(d[k]) = IF k < n THEN Reader!CubeModels(s, k) ELSE {}
  BY DEF Reader!Parses, Reader!Inputs, Inputs, Reader!Models, Models, Reader!Assignments,
         Assignments
<1>2. Reader!FileModels(f) = UNION {Reader!CubeModels(s, k) : k \in 0 .. n - 1}
  BY DEF Reader!FileModels
<1>3. \A k : Reader!CubeModels(s, k) \subseteq Assignments
  BY DEF Reader!CubeModels, Reader!Assignments, Assignments
<1> HIDE DEF s, n
<1>4. \A k : k \in 0 .. n - 1 <=> k \in Inputs /\ k < n
  BY <1>1, Sizes DEF Inputs
<1>5. \A a : a \in DnfModels(d) <=> \E k \in 0 .. n - 1 : a \in Reader!CubeModels(s, k)
  BY <1>1, <1>3, <1>4 DEF DnfModels
<1>6. DnfModels(d) = Reader!FileModels(f)
  BY <1>2, <1>5
<1> QED BY <1>1, <1>6 DEF s, n

(***************************************************************************)
(* What the parties feed in is what they parsed.                           *)
(***************************************************************************)
FedInv == pc # "input" => alice_cubes \in AliceDnfs /\ bob_cubes \in BobDnfs

(***************************************************************************)
(* It stays on the wires to the end.                                       *)
(***************************************************************************)
LEMMA FedInvariant == Spec => []FedInv
<1>1. Init => FedInv
  BY DEF Init, FedInv
<1>2. FedInv /\ [Next]_vars => FedInv'
  <2> SUFFICES ASSUME FedInv, [Next]_vars PROVE FedInv'
    OBVIOUS
  <2>1. CASE FeedCubes
    BY <2>1 DEF FeedCubes, FedInv
  <2>2. CASE UNCHANGED <<pc, inputVars>>
    BY <2>2 DEF inputVars, FedInv
  <2>3. ASSUME pc # "input", UNCHANGED inputVars PROVE FedInv'
    BY <2>3 DEF inputVars, FedInv
  <2> QED BY <2>1, <2>2, <2>3
       DEF Next, vars, ConjoinDnf, CubeWeights, AddWeight, BeginIntervals, AddInterval,
           BeginTrials, SampleInRange, SelectCubeIndex, CubeAtIndex, RandomAssignment,
           CountSatisfiedCubes, DivideLookup, ScanCube, EndScan, EndTrial, BeginEstimate,
           AddOutcome, RevealEstimate, Terminating
<1> QED BY <1>1, <1>2, PTL DEF Spec

(***************************************************************************)
(* What the circuit counts is what the files say.                          *)
(***************************************************************************)
LEMMA FilesAreCounted ==
  ASSUME NEW fa, NEW fb, FedFrom(fa, fb), FedInv, pc # "input"
  PROVE  /\ Intersection = Counted(fa, fb)
         /\ DisjointFiles(fa, fb) =>
               \A k, l \in Pairs : k # l => PairModels(k) \cap PairModels(l) = {}
<1> DEFINE sa == Reader!Stream(fa)
           sb == Reader!Stream(fb)
           na == Reader!CubeCount(sa)
           nb == Reader!CubeCount(sb)
<1>1. alice_cubes \in Reader!Parses(fa) /\ bob_cubes \in Reader!Parses(fb)
  BY DEF FedFrom, FedInv
<1>2. /\ na \in 0..CUBES /\ nb \in 0..CUBES
      /\ \A k \in Inputs :
            Models(alice_cubes[k]) = IF k < na THEN Reader!CubeModels(sa, k) ELSE {}
      /\ \A k \in Inputs :
            Models(bob_cubes[k]) = IF k < nb THEN Reader!CubeModels(sb, k) ELSE {}
      /\ DnfModels(alice_cubes) = Reader!FileModels(fa)
      /\ DnfModels(bob_cubes) = Reader!FileModels(fb)
  BY <1>1, ParsedMeansFile
<1>3. Intersection = Counted(fa, fb)
  BY <1>2 DEF Intersection, Counted
<1>4. ASSUME DisjointFiles(fa, fb), NEW k \in Pairs, NEW l \in Pairs, k # l
      PROVE  PairModels(k) \cap PairModels(l) = {}
  <2> DEFINE x == <<k \div CUBES, k % CUBES>>
             y == <<l \div CUBES, l % CUBES>>
             Both(w) == Reader!CubeModels(sa, w[1]) \cap Reader!CubeModels(sb, w[2])
             In(w) == w \in (0 .. na - 1) \X (0 .. nb - 1)
  <2>1. x \in Inputs \X Inputs /\ y \in Inputs \X Inputs
    BY PairInputs
  <2>2. x # y
    <3>1. k \in Nat /\ l \in Nat /\ CUBES \in Nat /\ CUBES > 0
      BY Sizes DEF Pairs
    <3>2. ASSUME NEW m \in Nat, NEW n \in Nat, NEW c \in Nat, c > 0,
                 m \div c = n \div c, m % c = n % c
          PROVE  m = n
      BY <3>2
    <3> QED BY <1>4, <3>1, <3>2
  <2>3. \A w \in Inputs \X Inputs :
           In(w) <=> w[1] < na /\ w[2] < nb
    BY <1>2, Sizes DEF Inputs
  <2>4. /\ PairModels(k) = IF In(x) THEN Both(x) ELSE {}
        /\ PairModels(l) = IF In(y) THEN Both(y) ELSE {}
    <3> HIDE DEF In, sa, sb, na, nb
    <3> QED BY <1>2, <2>1, <2>3 DEF PairModels
  <2>5. In(x) /\ In(y) => Both(x) \cap Both(y) = {}
    BY <1>4, <2>2 DEF DisjointFiles, CubePairs, CommonModels
  <2> HIDE DEF In, Both, x, y
  <2> QED BY <2>4, <2>5
<1> QED BY <1>3, <1>4

(***************************************************************************)
(* The estimate is about the files: for every pair of files, and whichever *)
(* of the arrays that stand for them the parser has built, nothing in      *)
(* common is revealed as 0, disjoint pairs of cubes are counted exactly,   *)
(* and the trials count the assignments that satisfy both files.           *)
(***************************************************************************)
THEOREM EstimateIsOfFiles ==
  ASSUME NEW fa, NEW fb, FedFrom(fa, fb)
  PROVE  Spec => [](/\ EmptyFilesRevealZero(fa, fb)
                    /\ DisjointFilesAreCounted(fa, fb)
                    /\ OutcomesCountFiles(fa, fb))
<1>1. EmptyRevealsZero /\ FedInv => EmptyFilesRevealZero(fa, fb)
  BY FilesAreCounted DEF EmptyRevealsZero, EmptyFilesRevealZero
<1>2. ExactWhenDisjoint /\ FedInv => DisjointFilesAreCounted(fa, fb)
  BY FilesAreCounted DEF ExactWhenDisjoint, DisjointFilesAreCounted
<1>3. CoverageTheorem /\ FedInv => OutcomesCountFiles(fa, fb)
  <2> SUFFICES ASSUME CoverageTheorem, FedInv, ReadyToSample PROVE OutcomesCountFiles(fa, fb)
    BY DEF OutcomesCountFiles
  <2>1. Intersection = Counted(fa, fb)
    BY FilesAreCounted DEF ReadyToSample
  <2> QED BY <2>1 DEF CoverageTheorem, OutcomesCountFiles
<1> QED BY <1>1, <1>2, <1>3, FedInvariant, EmptinessIsRevealed, DisjointIsExact,
           OutcomesAddUp, PTL
-----------------------------------------------------------------------------
(***************************************************************************)
(* The order of the gadgets, told from the compile-time shape alone: what  *)
(* runs after iteration n of gadget "at" in trial u.                       *)
(***************************************************************************)
Following(at, n, u) ==
    CASE at = "input" -> <<"conjoin_dnf", n, u>>
      [] at = "conjoin_dnf" -> <<"cube_weights", n, u>>
      [] at = "cube_weights" -> <<"dnf_weight", n, u>>
      [] at = "dnf_weight" ->
            IF n < PRODUCT THEN <<at, n + 1, u>> ELSE <<"cube_intervals", 0, u>>
      [] at = "cube_intervals" ->
            IF n < PRODUCT THEN <<at, n + 1, u>> ELSE <<"sample_in_range", 0, u>>
      [] at = "sample_in_range" ->
            IF u < K THEN <<"select_cube_index", n, u>> ELSE <<"estimate", n, u>>
      [] at = "select_cube_index" -> <<"cube_at_index", n, u>>
      [] at = "cube_at_index" -> <<"random_assignment", n, u>>
      [] at = "random_assignment" ->
            IF Algorithm = "vazirani" THEN <<"count_satisfied_cubes", n, u>>
                                      ELSE <<"is_canonical_sample", n, u>>
      [] at = "count_satisfied_cubes" -> <<"divide_lookup", n, u>>
      [] at = "divide_lookup" -> <<"sample_in_range", 0, u + 1>>
      [] at = "is_canonical_sample" ->
            IF n < PRODUCT THEN <<at, n + 1, u>> ELSE <<"sample_in_range", 0, u + 1>>
      [] at = "estimate" ->
            IF n < K THEN <<at, n + 1, u>> ELSE <<"done", n, u>>
      [] at = "done" -> <<at, n, u>>

(***************************************************************************)
(* How many steps that is from the start, and how many there are.          *)
(***************************************************************************)
CoverSteps == 5 + 2 * PRODUCT
TrialSteps == IF Algorithm = "vazirani" THEN 6 ELSE 5 + PRODUCT
CircuitSteps == CoverSteps + K * TrialSteps + K + 2

Elapsed ==
    CASE pc = "input" -> 0
      [] pc = "conjoin_dnf" -> 1
      [] pc = "cube_weights" -> 2
      [] pc = "dnf_weight" -> 3 + i
      [] pc = "cube_intervals" -> 4 + PRODUCT + i
      [] pc = "sample_in_range" -> CoverSteps + t * TrialSteps
      [] pc = "select_cube_index" -> CoverSteps + t * TrialSteps + 1
      [] pc = "cube_at_index" -> CoverSteps + t * TrialSteps + 2
      [] pc = "random_assignment" -> CoverSteps + t * TrialSteps + 3
      [] pc = "count_satisfied_cubes" -> CoverSteps + t * TrialSteps + 4
      [] pc = "divide_lookup" -> CoverSteps + t * TrialSteps + 5
      [] pc = "is_canonical_sample" -> CoverSteps + t * TrialSteps + 4 + i
      [] pc = "estimate" -> CoverSteps + K * TrialSteps + 1 + i
      [] pc = "done" -> CircuitSteps

(***************************************************************************)
(* Where in the loops each gadget runs.                                    *)
(***************************************************************************)
PlaceInv ==
    /\ pc \in Preparing \cup {"cube_intervals"} => t = 0
    /\ pc \in {"estimate", "done"} => t = K
    /\ pc = "done" => i = K
    /\ pc \in {"count_satisfied_cubes", "divide_lookup"} => Algorithm = "vazirani"
    /\ pc = "is_canonical_sample" => Algorithm # "vazirani"

(***************************************************************************)
(* It holds, whatever is fed in and drawn.                                 *)
(***************************************************************************)
LEMMA PlaceInvariant == Spec => []PlaceInv
<1>1. Init => PlaceInv
  BY DEF Init, PlaceInv
<1>2. TypeOK /\ PlaceInv /\ [Next]_vars => PlaceInv'
  <2> SUFFICES ASSUME TypeOK, PlaceInv, [Next]_vars PROVE PlaceInv'
    OBVIOUS
  <2> USE DEF PlaceInv, Preparing
  <2>1. CASE FeedCubes \/ ConjoinDnf \/ CubeWeights
    BY <2>1 DEF FeedCubes, ConjoinDnf, CubeWeights
  <2>2. CASE AddWeight \/ BeginIntervals \/ AddInterval \/ BeginTrials
    BY <2>2 DEF AddWeight, BeginIntervals, AddInterval, BeginTrials
  <2>3. CASE SampleInRange \/ SelectCubeIndex \/ CubeAtIndex \/ RandomAssignment
    BY <2>3 DEF SampleInRange, SelectCubeIndex, CubeAtIndex, RandomAssignment
  <2>4. CASE CountSatisfiedCubes \/ DivideLookup \/ ScanCube \/ EndScan
    BY <2>4 DEF CountSatisfiedCubes, DivideLookup, ScanCube, EndScan, EndTrial
  <2>5. CASE BeginEstimate \/ AddOutcome \/ RevealEstimate
    BY <2>5 DEF BeginEstimate, AddOutcome, RevealEstimate
  <2>6. CASE Terminating \/ UNCHANGED vars
    BY <2>6 DEF Terminating, vars
  <2> QED BY <2>1, <2>2, <2>3, <2>4, <2>5, <2>6 DEF Next
<1> QED BY <1>1, <1>2, TypeCorrect, PTL DEF Spec

(***************************************************************************)
(* The trials' steps add up.                                               *)
(***************************************************************************)
LEMMA TrialStepsFacts ==
  /\ TrialSteps \in Nat /\ CoverSteps \in Nat /\ CircuitSteps \in Nat
  /\ \A u \in 0..K : u * TrialSteps \in Nat /\ u * TrialSteps <= K * TrialSteps
  /\ \A u \in 0 .. K - 1 : /\ (u + 1) * TrialSteps = u * TrialSteps + TrialSteps
                           /\ u * TrialSteps + TrialSteps <= K * TrialSteps
  /\ 0 * TrialSteps = 0
<1>1. TrialSteps \in Nat /\ CoverSteps \in Nat
  BY Sizes DEF TrialSteps, CoverSteps
<1>2. \A u, c, w \in Nat :
         /\ c * w \in Nat /\ u * w \in Nat /\ 0 * w = 0
         /\ (u + 1) * w = u * w + w
         /\ u <= c => u * w <= c * w
  OBVIOUS
<1>3. /\ \A u \in 0..K : u \in Nat /\ u <= K
      /\ \A u \in 0 .. K - 1 : u \in Nat /\ u + 1 \in Nat /\ u + 1 <= K
  BY Sizes
<1>4. \A u \in 0 .. K - 1 : (u + 1) * TrialSteps <= K * TrialSteps
  BY <1>1, <1>2, <1>3, Sizes
<1>5. K * TrialSteps \in Nat
  BY <1>1, <1>2, Sizes
<1>6. CircuitSteps \in Nat
  BY <1>1, <1>5, Sizes DEF CircuitSteps
<1> QED BY <1>1, <1>2, <1>3, <1>4, <1>5, <1>6, Sizes

(***************************************************************************)
(* The next gadget, iteration and trial follow from the present ones.      *)
(***************************************************************************)
LEMMA StepFollows == TypeOK /\ Next /\ ~UNCHANGED vars
                        => pc # "done" /\ <<pc', i', t'>> = Following(pc, i, t)
<1> SUFFICES ASSUME TypeOK, Next, ~UNCHANGED vars
             PROVE  pc # "done" /\ <<pc', i', t'>> = Following(pc, i, t)
  OBVIOUS
<1> USE Sizes DEF Following
<1>1. CASE FeedCubes \/ ConjoinDnf \/ CubeWeights
  BY <1>1 DEF FeedCubes, ConjoinDnf, CubeWeights
<1>2. CASE AddWeight \/ BeginIntervals
  BY <1>2 DEF AddWeight, BeginIntervals
<1>3. CASE AddInterval \/ BeginTrials
  BY <1>3 DEF AddInterval, BeginTrials
<1>4. CASE SampleInRange \/ BeginEstimate
  BY <1>4 DEF SampleInRange, BeginEstimate
<1>5. CASE SelectCubeIndex \/ CubeAtIndex \/ RandomAssignment \/ CountSatisfiedCubes
  BY <1>5 DEF SelectCubeIndex, CubeAtIndex, RandomAssignment, CountSatisfiedCubes
<1>6. CASE DivideLookup \/ ScanCube \/ EndScan
  BY <1>6 DEF DivideLookup, ScanCube, EndScan, EndTrial
<1>7. CASE AddOutcome \/ RevealEstimate
  BY <1>7 DEF AddOutcome, RevealEstimate
<1> QED BY <1>1, <1>2, <1>3, <1>4, <1>5, <1>6, <1>7 DEF Next, Terminating

(***************************************************************************)
(* And each is one step later.                                             *)
(***************************************************************************)
LEMMA StepElapses == TypeOK /\ PlaceInv /\ Next /\ ~UNCHANGED vars
                        => Elapsed' = Elapsed + 1
<1> SUFFICES ASSUME TypeOK, PlaceInv, Next, ~UNCHANGED vars
             PROVE  Elapsed' = Elapsed + 1
  OBVIOUS
<1>1. /\ i \in Nat /\ t \in 0..K /\ PRODUCT \in Nat /\ K \in Nat
      /\ pc \in {"select_cube_index", "cube_at_index", "random_assignment",
                 "count_satisfied_cubes", "divide_lookup", "is_canonical_sample"}
            => t \in 0 .. K - 1
      /\ pc \in {"input", "conjoin_dnf", "cube_weights", "sample_in_range",
                 "select_cube_index", "cube_at_index", "random_assignment"}
            => i = 0
  BY Sizes DEF TypeOK, Selecting, Selected
<1>2. /\ TrialSteps \in Nat /\ CoverSteps \in Nat
      /\ t * TrialSteps \in Nat /\ K * TrialSteps \in Nat /\ 0 * TrialSteps = 0
      /\ t \in 0 .. K - 1 => (t + 1) * TrialSteps = t * TrialSteps + TrialSteps
  BY <1>1, TrialStepsFacts, Sizes
<1> USE DEF Elapsed
<1>3. CASE FeedCubes \/ ConjoinDnf \/ CubeWeights
  BY <1>1, <1>3 DEF FeedCubes, ConjoinDnf, CubeWeights
<1>4. CASE AddWeight \/ BeginIntervals
  BY <1>1, <1>4 DEF AddWeight, BeginIntervals
<1>5. CASE AddInterval \/ BeginTrials
  <2>1. t = 0 /\ t' = 0
    BY <1>5 DEF AddInterval, BeginTrials, PlaceInv
  <2>2. CASE AddInterval
    BY <1>1, <2>2 DEF AddInterval
  <2>3. CASE BeginTrials
    <3>1. /\ Elapsed = 4 + PRODUCT + PRODUCT
          /\ Elapsed' = CoverSteps + 0 * TrialSteps
      BY <2>1, <2>3 DEF BeginTrials
    <3> HIDE DEF Elapsed
    <3>2. CoverSteps + 0 * TrialSteps = CoverSteps
      BY <1>2
    <3>3. CoverSteps = 5 + 2 * PRODUCT /\ Elapsed' = CoverSteps
      BY <3>1, <3>2 DEF CoverSteps
    <3> QED BY <1>1, <3>1, <3>3
  <2> QED BY <1>5, <2>2, <2>3
<1>6. CASE SampleInRange \/ SelectCubeIndex \/ CubeAtIndex
  BY <1>1, <1>2, <1>6 DEF SampleInRange, SelectCubeIndex, CubeAtIndex
<1>7. CASE RandomAssignment \/ CountSatisfiedCubes
  BY <1>1, <1>2, <1>7 DEF RandomAssignment, CountSatisfiedCubes
<1>8. CASE DivideLookup
  <2>1. TrialSteps = 6 /\ t \in 0 .. K - 1
    BY <1>1, <1>8 DEF DivideLookup, PlaceInv, TrialSteps
  <2> QED BY <1>1, <1>2, <1>8, <2>1 DEF DivideLookup, EndTrial
<1>9. CASE ScanCube
  BY <1>1, <1>2, <1>9 DEF ScanCube
<1>10. CASE EndScan
  <2>1. TrialSteps = 5 + PRODUCT /\ t \in 0 .. K - 1
    BY <1>1, <1>10 DEF EndScan, PlaceInv, TrialSteps
  <2> QED BY <1>1, <1>2, <1>10, <2>1 DEF EndScan, EndTrial
<1>11. CASE BeginEstimate
  BY <1>1, <1>2, <1>11 DEF BeginEstimate
<1>12. CASE AddOutcome \/ RevealEstimate
  BY <1>1, <1>2, <1>12 DEF AddOutcome, RevealEstimate, CircuitSteps
<1> QED BY <1>3, <1>4, <1>5, <1>6, <1>7, <1>8, <1>9, <1>10, <1>11, <1>12
        DEF Next, Terminating

(***************************************************************************)
(* Only the end is at the last step.                                       *)
(***************************************************************************)
LEMMA ElapsedType ==
  TypeOK /\ PlaceInv => /\ Elapsed \in 0..CircuitSteps
                        /\ pc = "done" <=> Elapsed = CircuitSteps
<1> SUFFICES ASSUME TypeOK, PlaceInv
             PROVE  /\ Elapsed \in 0..CircuitSteps
                    /\ pc = "done" <=> Elapsed = CircuitSteps
  OBVIOUS
<1>1. /\ i \in Nat /\ t \in 0..K /\ PRODUCT \in Nat /\ K \in Nat
      /\ pc \in Selecting => t \in 0 .. K - 1
      /\ pc \in {"dnf_weight", "cube_intervals", "is_canonical_sample"} => i <= PRODUCT
      /\ pc = "estimate" => i <= K
  BY Sizes DEF TypeOK
<1>2. /\ TrialSteps \in Nat /\ CoverSteps \in Nat /\ CircuitSteps \in Nat
      /\ t * TrialSteps \in Nat /\ K * TrialSteps \in Nat
      /\ t * TrialSteps <= K * TrialSteps
      /\ t \in 0 .. K - 1 => t * TrialSteps + TrialSteps <= K * TrialSteps
  BY <1>1, TrialStepsFacts, Sizes
<1>3. /\ CoverSteps = 5 + 2 * PRODUCT
      /\ CircuitSteps = CoverSteps + K * TrialSteps + K + 2
  BY DEF CoverSteps, CircuitSteps
<1>4. CASE pc \in Preparing \cup {"cube_intervals"}
  <2>1. \/ pc = "input" /\ Elapsed = 0
        \/ pc = "conjoin_dnf" /\ Elapsed = 1
        \/ pc = "cube_weights" /\ Elapsed = 2
        \/ pc = "dnf_weight" /\ Elapsed = 3 + i
        \/ pc = "cube_intervals" /\ Elapsed = 4 + PRODUCT + i
    BY <1>4 DEF Preparing, Elapsed
  <2> QED BY <1>1, <1>2, <1>3, <2>1
<1>5. CASE pc = "sample_in_range"
  BY <1>1, <1>2, <1>3, <1>5 DEF Elapsed
<1>6. CASE pc \in Selecting
  <2>1. TrialSteps >= 5
    BY <1>1 DEF TrialSteps
  <2>2. pc \in {"count_satisfied_cubes", "divide_lookup"} => TrialSteps = 6
    BY DEF PlaceInv, TrialSteps
  <2>3. pc = "is_canonical_sample" => TrialSteps = 5 + PRODUCT
    BY DEF PlaceInv, TrialSteps
  <2> DEFINE before == CoverSteps + t * TrialSteps
  <2>4. \/ pc = "select_cube_index" /\ Elapsed = before + 1
        \/ pc = "cube_at_index" /\ Elapsed = before + 2
        \/ pc = "random_assignment" /\ Elapsed = before + 3
        \/ pc = "count_satisfied_cubes" /\ Elapsed = before + 4
        \/ pc = "divide_lookup" /\ Elapsed = before + 5
        \/ pc = "is_canonical_sample" /\ Elapsed = before + 4 + i
    BY <1>6 DEF Selecting, Selected, Elapsed
  <2>5. Elapsed \in Nat /\ Elapsed < CoverSteps + K * TrialSteps /\ pc # "done"
    BY <1>1, <1>2, <1>6, <2>1, <2>2, <2>3, <2>4
  <2> QED BY <1>1, <1>2, <1>3, <2>5
<1>7. CASE pc = "estimate"
  BY <1>1, <1>2, <1>3, <1>7 DEF Elapsed
<1>8. CASE pc = "done"
  BY <1>2, <1>8 DEF Elapsed
<1> QED BY <1>4, <1>5, <1>6, <1>7, <1>8 DEF TypeOK, Gadgets, Preparing, Selecting, Selected

(***************************************************************************)
(* The gates are the same for all inputs and draws: which gadget runs      *)
(* next, with which loop index, follows from where the circuit is and from *)
(* the compile-time shape, and it ends after CircuitSteps steps exactly.   *)
(* This is why both parties, who see none of each other's values, make the *)
(* same calls.                                                             *)
(***************************************************************************)
THEOREM CircuitIsOblivious ==
  Spec => /\ [][<<pc', i', t'>> = Following(pc, i, t) /\ Elapsed' = Elapsed + 1]_vars
          /\ [](/\ Elapsed \in 0..CircuitSteps
                /\ pc = "done" <=> Elapsed = CircuitSteps)
<1>1. TypeOK /\ PlaceInv /\ [Next]_vars
         => [<<pc', i', t'>> = Following(pc, i, t) /\ Elapsed' = Elapsed + 1]_vars
  BY StepFollows, StepElapses
<1> QED BY <1>1, TypeCorrect, PlaceInvariant, ElapsedType, PTL DEF Spec
=============================================================================
