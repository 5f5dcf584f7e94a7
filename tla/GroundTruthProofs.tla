-------------------------- MODULE GroundTruthProofs --------------------------
(***************************************************************************)
(* run_pepin_sanity_check, for every capacity and every pair of DNFs: the  *)
(* plain conjunction is the circuit's, no path leaves the file behind, the *)
(* count is skipped exactly for an empty intersection, and what pepin      *)
(* counts is the intersection.                                             *)
(*                                                                         *)
(* The cubes that are written are a selection of the conjunction's, and    *)
(* the literals of one a selection of the variables; each line's tokens    *)
(* then lie in the stream of the file between two zeros.                   *)
(***************************************************************************)
EXTENDS GroundTruthMeaning, DnfCubesProofs

(***************************************************************************)
(* The loop over the variables computes what the bit vectors do.           *)
(***************************************************************************)
LEMMA PlainIsConjoin ==
  ASSUME NEW a \in ParsedCubes, NEW b \in ParsedCubes
  PROVE  plain_conjoin(a, b) = conjoin(a, b)
<1>1. /\ a.mask \subseteq Vars /\ b.mask \subseteq Vars
      /\ a.bits \subseteq Vars /\ b.bits \subseteq Vars
      /\ a.pad \in BOOLEAN /\ b.pad \in BOOLEAN
  <2>1. PadCube \in Cubes
    BY DEF PadCube, Cubes
  <2>2. a \in Cubes /\ b \in Cubes
    BY <2>1 DEF ParsedCubes, RealCubes
  <2> QED BY <2>2 DEF Cubes
<1> DEFINE disagree == \E v \in Vars :
               v \in a.mask /\ v \in b.mask /\ (v \in a.bits) # (v \in b.bits)
<1>2. disagree <=> Disagreement(a, b) # {}
  BY <1>1 DEF Disagreement
<1>3. CASE a.pad \/ b.pad \/ disagree
  BY <1>2, <1>3 DEF plain_conjoin, conjoin, PadCube
<1>4. CASE ~a.pad /\ ~b.pad /\ ~disagree
  <2>1. {v \in Vars : v \in a.mask \/ v \in b.mask} = a.mask \cup b.mask
    BY <1>1
  <2>2. {v \in Vars : IF v \in a.mask THEN v \in a.bits ELSE v \in b.bits}
           = (a.bits \cap a.mask) \cup (b.bits \ a.mask)
    BY <1>1
  <2> QED BY <1>2, <1>4, <2>1, <2>2 DEF plain_conjoin, conjoin
<1> QED BY <1>1, <1>3, <1>4

(***************************************************************************)
(* The rows of CUBES cubes each are taken apart again.                     *)
(***************************************************************************)
LEMMA RowAndColumn ==
  ASSUME NEW c \in Nat \ {0}, NEW k \in Nat, NEW l \in 0 .. c - 1
  PROVE  (k * c + l) \div c = k /\ (k * c + l) % c = l
<1> DEFINE q == (k * c + l) \div c
<1> DEFINE r == (k * c + l) % c
<1>1. /\ k * c + l \in Nat /\ q \in Int /\ r \in 0 .. c - 1
      /\ k * c + l = c * q + r
  OBVIOUS
<1> HIDE DEF q, r
<1>2. c * (k - q) = r - l
  BY <1>1
<1>3. k - q < 1
  BY <1>1, <1>2
<1>4. k - q > -1
  BY <1>1, <1>2
<1>5. k = q
  BY <1>1, <1>3, <1>4
<1> QED BY <1>1, <1>2, <1>5 DEF q, r

(***************************************************************************)
(* The loops over the two DNFs' cubes lay out the conjunctions row by row. *)
(***************************************************************************)
LEMMA PlainDnfIsConjoin ==
  ASSUME NEW d1 \in ParsedDnfs, NEW d2 \in ParsedDnfs,
         NEW k \in Inputs, NEW l \in Inputs
  PROVE  plain_conjoin_dnf(d1, d2)[k * CUBES + l + 1] = conjoin(d1[k], d2[l])
<1> DEFINE n == k * CUBES + l + 1
<1>1. /\ CUBES \in Nat \ {0} /\ k \in Nat /\ l \in 0 .. CUBES - 1
      /\ k <= CUBES - 1
  BY CubesAssumption DEF Inputs
<1>2. k * CUBES + l \in Nat /\ k * CUBES + l < CUBES * CUBES
  <2>1. k * CUBES <= (CUBES - 1) * CUBES
    BY <1>1
  <2>2. (CUBES - 1) * CUBES = CUBES * CUBES - CUBES
    BY <1>1
  <2> QED BY <1>1, <2>1, <2>2
<1>3. n \in 1 .. CUBES * CUBES /\ n - 1 = k * CUBES + l
  BY <1>1, <1>2
<1>4. (n - 1) \div CUBES = k /\ (n - 1) % CUBES = l
  BY <1>1, <1>3, RowAndColumn
<1>5. d1[k] \in ParsedCubes /\ d2[l] \in ParsedCubes
  BY DEF ParsedDnfs
<1> HIDE DEF n
<1>6. plain_conjoin_dnf(d1, d2)[n] = plain_conjoin(d1[k], d2[l])
  BY <1>3, <1>4 DEF plain_conjoin_dnf
<1> QED BY <1>5, <1>6, PlainIsConjoin DEF n
-----------------------------------------------------------------------------
(***************************************************************************)
(* The file is there from mkstemp to the end of the function, and what     *)
(* was conjoined is the caller's pair.                                     *)
(***************************************************************************)
Inv ==
    /\ alice \in ParsedDnfs /\ bob \in ParsedDnfs
    /\ pc # "conjoin" => conjunction = plain_conjoin_dnf(alice, bob)
    /\ pc \in {"conjoin", "mkstemp", "returned"} => temp = NoFile

(***************************************************************************)
(* Every step preserves it.                                                *)
(***************************************************************************)
LEMMA Invariant == Spec => []Inv
<1>1. Init => Inv
  BY PairsAssumption DEF Init, Inv
<1>2. Inv /\ [Next]_vars => Inv'
  <2> SUFFICES ASSUME Inv, [Next]_vars PROVE Inv'
    OBVIOUS
  <2> USE DEF Inv
  <2>1. CASE Conjoin
    BY <2>1 DEF Conjoin
  <2>2. CASE MakeTemp \/ MakeTempFails
    BY <2>2 DEF MakeTemp, MakeTempFails
  <2>3. CASE Write \/ WriteFails
    BY <2>3 DEF Write, WriteFails
  <2>4. CASE RunPepin \/ PepinFails \/ SkipPepin
    BY <2>4 DEF RunPepin, PepinFails, SkipPepin
  <2>5. CASE RemoveTemp
    BY <2>5 DEF RemoveTemp
  <2>6. CASE UNCHANGED vars
    BY <2>6 DEF vars
  <2> QED BY <2>1, <2>2, <2>3, <2>4, <2>5, <2>6 DEF Next, Terminating
<1> QED BY <1>1, <1>2, PTL DEF Spec

(***************************************************************************)
(* plain_conjoin_dnf is conjoin_dnf, cube for cube.                        *)
(***************************************************************************)
THEOREM PlainIsTheCircuit == Spec => []PlainMirrorsCircuit
<1>1. Inv => PlainMirrorsCircuit
  BY PlainDnfIsConjoin DEF Inv, PlainMirrorsCircuit
<1> QED BY Invariant, <1>1, PTL

(***************************************************************************)
(* Whatever fails, the temporary file is gone when the function returns.   *)
(***************************************************************************)
THEOREM NothingIsLeft == Spec => []NoFileLeft
<1>1. Inv => NoFileLeft
  BY DEF Inv, NoFileLeft
<1> QED BY Invariant, <1>1, PTL
-----------------------------------------------------------------------------
(***************************************************************************)
(* The cubes that are written are those of the array that are not padding. *)
(***************************************************************************)
LEMMA RealFacts ==
  ASSUME NEW cubes \in Seq(ParsedCubes)
  PROVE  LET r == real(cubes)
         IN  /\ r \in Seq(ParsedCubes) /\ Len(r) <= Len(cubes)
             /\ \A x \in 1..Len(r) : ~r[x].pad /\ \E n \in 1..Len(cubes) : r[x] = cubes[n]
             /\ \A n \in 1..Len(cubes) :
                   ~cubes[n].pad => \E x \in 1..Len(r) : r[x] = cubes[n]
<1> DEFINE q == [n \in DOMAIN cubes |-> IF cubes[n].pad THEN <<>> ELSE <<cubes[n]>>]
           r == real(cubes)
<1>1. DOMAIN cubes = 1..Len(cubes) /\ Len(cubes) \in Nat
  OBVIOUS
<1>2. \A n \in 1..Len(cubes) : /\ q[n] = IF cubes[n].pad THEN <<>> ELSE <<cubes[n]>>
                              /\ q[n] \in Seq(ParsedCubes) /\ Len(q[n]) <= 1
  OBVIOUS
<1>3. q \in Seq(Seq(ParsedCubes)) /\ Len(q) = Len(cubes)
  BY <1>1
<1>4. r = FlattenSeq(q)
  BY DEF real
<1> HIDE DEF q, r
<1>5. r \in Seq(ParsedCubes) /\ Len(r) <= Len(cubes) /\ \E at : Selection(q, r, at)
  BY <1>2, <1>3, <1>4, SelectionFacts
<1>6. PICK at : Selection(q, r, at)
  BY <1>5
<1>7. ASSUME NEW n \in 1..Len(cubes)
      PROVE  IF cubes[n].pad THEN q[n] = <<>> ELSE q[n] # <<>> /\ q[n][1] = cubes[n]
  <2>1. q[n] = IF cubes[n].pad THEN <<>> ELSE <<cubes[n]>>
    BY <1>2
  <2>2. CASE cubes[n].pad
    BY <2>1, <2>2
  <2>3. CASE ~cubes[n].pad
    <3>1. q[n] = <<cubes[n]>>
      BY <2>1, <2>3
    <3>2. Len(q[n]) = 1 /\ q[n][1] = cubes[n] /\ Len(<<>>) = 0
      BY <3>1
    <3> QED BY <2>3, <3>2
  <2> QED BY <2>2, <2>3
<1>8. \A x \in 1..Len(r) : ~r[x].pad /\ \E n \in 1..Len(cubes) : r[x] = cubes[n]
  <2>1. ASSUME NEW x \in 1..Len(r)
        PROVE  ~r[x].pad /\ \E n \in 1..Len(cubes) : r[x] = cubes[n]
    <3>1. PICK n \in 1..Len(cubes) : q[n] # <<>> /\ r[x] = q[n][1]
      BY <1>3, <1>6 DEF Selection
    <3> QED BY <1>7, <3>1
  <2> QED BY <2>1
<1>9. ASSUME NEW n \in 1..Len(cubes), ~cubes[n].pad
      PROVE  \E x \in 1..Len(r) : r[x] = cubes[n]
  <2>1. q[n] # <<>>
    BY <1>7, <1>9
  <2>2. PICK x \in 1..Len(r) : q[at[x]] # <<>> /\ r[x] = q[at[x]][1] /\ at[x] = n
    BY <1>3, <1>6, <2>1 DEF Selection
  <2> QED BY <1>7, <1>9, <2>2
<1> QED BY <1>5, <1>8, <1>9 DEF r

(***************************************************************************)
(* The conjunction has the models that both DNFs have.                     *)
(***************************************************************************)
LEMMA ConjunctionMeans ==
  ASSUME NEW d1 \in ParsedDnfs, NEW d2 \in ParsedDnfs
  PROVE  LET c == plain_conjoin_dnf(d1, d2)
         IN  /\ c \in Seq(ParsedCubes) /\ Len(c) = CUBES * CUBES
             /\ UNION {Models(c[n]) : n \in 1..Len(c)} = DnfModels(d1) \cap DnfModels(d2)
<1> DEFINE c == plain_conjoin_dnf(d1, d2)
           PlainRow(n) == (n - 1) \div CUBES
           Column(n) == (n - 1) % CUBES
<1>1. CUBES \in Nat /\ CUBES > 0 /\ CUBES * CUBES \in Nat
  BY CubesAssumption
<1>2. \A k \in Inputs : d1[k] \in ParsedCubes /\ d2[k] \in ParsedCubes
  BY DEF ParsedDnfs
<1>3. ASSUME NEW n \in 1 .. CUBES * CUBES
      PROVE  PlainRow(n) \in Inputs /\ Column(n) \in Inputs
  <2> DEFINE m == n - 1
             a == m \div CUBES
  <2>1. m \in Nat /\ m < CUBES * CUBES
    BY <1>1
  <2> HIDE DEF m
  <2>2. a \in Nat /\ a * CUBES <= m /\ m % CUBES \in 0 .. CUBES - 1
    BY <1>1, <2>1
  <2> HIDE DEF a
  <2>3. a < CUBES
    <3>1. SUFFICES ASSUME a >= CUBES PROVE FALSE
      BY <1>1, <2>2
    <3>2. a * CUBES >= CUBES * CUBES
      BY <1>1, <2>2, <3>1
    <3> QED BY <1>1, <2>1, <2>2, <3>2
  <2> QED BY <1>1, <2>2, <2>3 DEF Inputs, a, m
<1> HIDE DEF PlainRow, Column
<1>4. ASSUME NEW n \in 1 .. CUBES * CUBES
      PROVE  /\ c[n] = conjoin(d1[PlainRow(n)], d2[Column(n)])
             /\ c[n] \in ParsedCubes
             /\ Models(c[n]) = Models(d1[PlainRow(n)]) \cap Models(d2[Column(n)])
  <2>1. c[n] = plain_conjoin(d1[PlainRow(n)], d2[Column(n)])
    BY DEF plain_conjoin_dnf, PlainRow, Column
  <2>2. d1[PlainRow(n)] \in ParsedCubes /\ d2[Column(n)] \in ParsedCubes
    BY <1>2, <1>3
  <2> HIDE DEF c
  <2> DEFINE a == d1[PlainRow(n)]
             b == d2[Column(n)]
  <2>3. a \in ParsedCubes /\ b \in ParsedCubes /\ c[n] = plain_conjoin(a, b)
    BY <2>1, <2>2
  <2> HIDE DEF a, b
  <2>4. plain_conjoin(a, b) = conjoin(a, b)
    BY <2>3, PlainIsConjoin
  <2>5. conjoin(a, b) \in ParsedCubes /\ Models(conjoin(a, b)) = Models(a) \cap Models(b)
    BY <2>3, ConjoinType, ConjoinModels
  <2> QED BY <2>3, <2>4, <2>5 DEF a, b
<1>5. c \in Seq(ParsedCubes) /\ Len(c) = CUBES * CUBES
  <2>1. c = [n \in 1 .. CUBES * CUBES |-> c[n]]
    BY DEF plain_conjoin_dnf
  <2> HIDE DEF c
  <2> DEFINE N == CUBES * CUBES
  <2>2. N \in Nat /\ c = [n \in 1..N |-> c[n]] /\ \A n \in 1..N : c[n] \in ParsedCubes
    BY <1>1, <1>4, <2>1
  <2> HIDE DEF N
  <2>3. c \in Seq(ParsedCubes) /\ Len(c) = N
    BY <2>2
  <2> QED BY <2>3 DEF N
<1> HIDE DEF c
<1>6. ASSUME NEW k \in Inputs, NEW l \in Inputs
      PROVE  \E n \in 1..Len(c) : Models(c[n]) = Models(d1[k]) \cap Models(d2[l])
  <2>1. k * CUBES + l + 1 \in 1 .. CUBES * CUBES
    <3>1. k \in Nat /\ l \in Nat /\ k <= CUBES - 1 /\ l <= CUBES - 1
      BY <1>1 DEF Inputs
    <3>2. k * CUBES <= (CUBES - 1) * CUBES
      BY <1>1, <3>1
    <3>3. (CUBES - 1) * CUBES = CUBES * CUBES - CUBES /\ k * CUBES \in Nat
      BY <1>1, <3>1
    <3> QED BY <1>1, <3>1, <3>2, <3>3
  <2>2. c[k * CUBES + l + 1] = conjoin(d1[k], d2[l])
    BY PlainDnfIsConjoin DEF c
  <2>3. Models(c[k * CUBES + l + 1]) = Models(d1[k]) \cap Models(d2[l])
    BY <1>2, <2>2, ConjoinModels
  <2> QED BY <1>5, <2>1, <2>3
<1>7. UNION {Models(c[n]) : n \in 1..Len(c)} \subseteq DnfModels(d1) \cap DnfModels(d2)
  BY <1>3, <1>4, <1>5 DEF DnfModels
<1>8. ASSUME NEW a \in DnfModels(d1) \cap DnfModels(d2)
      PROVE  a \in UNION {Models(c[n]) : n \in 1..Len(c)}
  <2>1. PICK k \in Inputs : a \in Models(d1[k])
    BY DEF DnfModels
  <2>2. PICK l \in Inputs : a \in Models(d2[l])
    BY DEF DnfModels
  <2>3. PICK n \in 1..Len(c) : Models(c[n]) = Models(d1[k]) \cap Models(d2[l])
    BY <1>6
  <2> QED BY <2>1, <2>2, <2>3
<1> QED BY <1>5, <1>7, <1>8 DEF c

(***************************************************************************)
(* The cubes that are written have the models of the whole array, and each *)
(* of them has one: its bits.                                              *)
(***************************************************************************)
LEMMA RealMeans ==
  ASSUME NEW cubes \in Seq(ParsedCubes)
  PROVE  LET r == real(cubes)
             all == UNION {Models(cubes[n]) : n \in 1..Len(cubes)}
         IN  /\ UNION {Models(r[x]) : x \in 1..Len(r)} = all
             /\ all = {} <=> Len(r) = 0
             /\ \A x \in 1..Len(r) : r[x] \in RealCubes
<1> DEFINE r == real(cubes)
           all == UNION {Models(cubes[n]) : n \in 1..Len(cubes)}
<1>1. /\ r \in Seq(ParsedCubes)
      /\ \A x \in 1..Len(r) : ~r[x].pad /\ \E n \in 1..Len(cubes) : r[x] = cubes[n]
      /\ \A n \in 1..Len(cubes) : ~cubes[n].pad => \E x \in 1..Len(r) : r[x] = cubes[n]
  BY RealFacts
<1> HIDE DEF r
<1>2. UNION {Models(r[x]) : x \in 1..Len(r)} = all
  <2>1. \A n \in 1..Len(cubes) : cubes[n].pad => Models(cubes[n]) = {}
    BY DEF Models
  <2>2. ASSUME NEW a, NEW n \in 1..Len(cubes), a \in Models(cubes[n])
        PROVE  \E x \in 1..Len(r) : a \in Models(r[x])
    <3>1. ~cubes[n].pad
      BY <2>1, <2>2
    <3> QED BY <1>1, <2>2, <3>1
  <2>3. ASSUME NEW a, NEW x \in 1..Len(r), a \in Models(r[x])
        PROVE  \E n \in 1..Len(cubes) : a \in Models(cubes[n])
    BY <1>1, <2>3
  <2> QED BY <2>2, <2>3
<1>3. ASSUME NEW x \in 1..Len(r)
      PROVE  r[x] \in RealCubes /\ r[x].bits \in Models(r[x])
  <2>1. r[x] \in ParsedCubes /\ ~r[x].pad
    BY <1>1
  <2>2. r[x] \in RealCubes
    BY <2>1 DEF ParsedCubes, PadCube
  <2> QED BY <2>1, <2>2 DEF RealCubes, Cubes, Models, Assignments
<1>4. all = {} <=> Len(r) = 0
  <2>1. Len(r) \in Nat
    BY <1>1
  <2>2. Len(r) # 0 => 1 \in 1..Len(r)
    BY <2>1
  <2>3. Len(r) = 0 => 1..Len(r) = {}
    OBVIOUS
  <2> HIDE DEF all
  <2> QED BY <1>2, <1>3, <2>2, <2>3
<1> QED BY <1>2, <1>3, <1>4 DEF r
-----------------------------------------------------------------------------
(***************************************************************************)
(* What was counted: the file as written, or the first lines of it.        *)
(***************************************************************************)
Written(f) ==
    LET whole == write_dimacs_dnf(conjunction)
    IN  f = whole \/ \E n \in 0 .. Len(whole) - 1 : f = SubSeq(whole, 1, n)

AnswerInv ==
    /\ pc = "count" =>
          result = nullopt /\ real_cubes = Len(real(conjunction)) /\ Written(temp)
    /\ pc \in {"conjoin", "mkstemp", "write"} => result = nullopt
    /\ pc \in {"remove", "returned"} =>
          /\ result.kind = "zero" => pc # "conjoin" /\ Len(real(conjunction)) = 0
          /\ result.kind = "counted" => Len(real(conjunction)) > 0 /\ Written(result.file)

(***************************************************************************)
(* Every step preserves it: the conjunction and the caller's pair stay as  *)
(* they are once the file is written.                                      *)
(***************************************************************************)
LEMMA AnswerInvariant == Spec => [](Inv /\ AnswerInv)
<1>1. Init => AnswerInv
  BY DEF Init, AnswerInv
<1>2. Inv /\ AnswerInv /\ [Next]_vars => AnswerInv'
  <2> SUFFICES ASSUME Inv, AnswerInv, [Next]_vars PROVE AnswerInv'
    OBVIOUS
  <2>1. CASE Conjoin
    BY <2>1 DEF Conjoin, AnswerInv
  <2>2. CASE MakeTemp \/ MakeTempFails
    BY <2>2 DEF MakeTemp, MakeTempFails, AnswerInv, nullopt
  <2>3. CASE Write \/ WriteFails
    BY <2>3 DEF Write, WriteFails, AnswerInv, Written
  <2>4. CASE RunPepin
    BY <2>4 DEF RunPepin, AnswerInv, Written, Counted
  <2>5. CASE PepinFails
    BY <2>5 DEF PepinFails, AnswerInv, nullopt
  <2>6. CASE SkipPepin
    BY <2>6 DEF SkipPepin, AnswerInv, ZeroResult
  <2>7. CASE RemoveTemp
    BY <2>7 DEF RemoveTemp, AnswerInv, Written
  <2>8. CASE UNCHANGED vars
    BY <2>8 DEF vars, AnswerInv, Written
  <2> QED BY <2>1, <2>2, <2>3, <2>4, <2>5, <2>6, <2>7, <2>8 DEF Next, Terminating
<1> QED BY <1>1, <1>2, Invariant, PTL DEF Spec

(***************************************************************************)
(* The count is skipped exactly when the parties' DNFs have no common      *)
(* model.                                                                  *)
(***************************************************************************)
THEOREM CountIsSkippedWhenEmpty == Spec => []ZeroWhenEmpty
<1>1. Inv /\ AnswerInv => ZeroWhenEmpty
  <2> SUFFICES ASSUME Inv, AnswerInv, pc = "returned",
                      result.kind \in {"zero", "counted"}
               PROVE  Intersection = {} <=> result.kind = "zero"
    BY DEF ZeroWhenEmpty
  <2>1. /\ alice \in ParsedDnfs /\ bob \in ParsedDnfs
        /\ conjunction = plain_conjoin_dnf(alice, bob)
    BY DEF Inv
  <2>2. Intersection = {} <=> Len(real(conjunction)) = 0
    BY <2>1, ConjunctionMeans, RealMeans DEF Intersection
  <2> QED BY <2>2 DEF AnswerInv
<1> QED BY AnswerInvariant, <1>1, PTL
-----------------------------------------------------------------------------
(***************************************************************************)
(* The variables are numbered from 1.                                      *)
(***************************************************************************)
LEMMA VariableFacts ==
  VARS \in Nat /\ VARS > 0 /\ Vars = 1..VARS /\ IsFiniteSet(Vars)
<1>1. VARS \in Nat
  BY VarsAssumption, FS_CardinalityType DEF VARS
<1>2. VARS # 0
  BY VarsAssumption, FS_EmptySet DEF VARS
<1> QED BY <1>1, <1>2, NumberedVars, VarsAssumption

(***************************************************************************)
(* The tokens of a cube: one literal for each variable that it constrains, *)
(* with the sign of its bit, and then the only 0.                          *)
(***************************************************************************)
LEMMA LiteralsFacts ==
  ASSUME NEW c \in RealCubes
  PROVE  LET t == literals(c)
             Body == 1 .. Len(t) - 1
         IN  /\ t \in Seq(Int) /\ Len(t) \in Nat /\ Len(t) > 0 /\ t[Len(t)] = 0
             /\ \A m \in Body :
                   \E v \in c.mask : t[m] = (IF v \in c.bits THEN v ELSE -v)
             /\ \A v \in c.mask :
                   \E m \in Body : t[m] = (IF v \in c.bits THEN v ELSE -v)
             /\ \A m \in Body : t[m] # 0
             /\ \A l, m \in Body : l # m => Reader!Abs(t[l]) # Reader!Abs(t[m])
<1> DEFINE Lit(v) == IF v \in c.bits THEN v ELSE -v
           q == [v \in 1..VARS |-> IF v \notin c.mask THEN <<>>
                                   ELSE IF v \in c.bits THEN <<v>> ELSE <<-v>>]
           b == FlattenSeq(q)
           t == literals(c)
<1>1. VARS \in Nat /\ c.mask \subseteq 1..VARS
  BY VariableFacts DEF RealCubes, Cubes
<1>2. ASSUME NEW v \in 1..VARS
      PROVE  /\ q[v] \in Seq(Int) /\ Len(q[v]) <= 1 /\ Lit(v) \in Int /\ Lit(v) # 0
             /\ Reader!Abs(Lit(v)) = v
             /\ IF v \in c.mask THEN q[v] # <<>> /\ q[v][1] = Lit(v) ELSE q[v] = <<>>
  <2>1. v \in Int /\ v > 0 /\ -v \in Int
    BY <1>1
  <2>2. Lit(v) \in Int /\ Lit(v) # 0 /\ Reader!Abs(Lit(v)) = v
    BY <2>1 DEF Reader!Abs
  <2>3. q[v] = IF v \in c.mask THEN <<Lit(v)>> ELSE <<>>
    OBVIOUS
  <2> HIDE DEF Lit, q
  <2>4. CASE v \in c.mask
    <3>1. q[v] = <<Lit(v)>>
      BY <2>3, <2>4
    <3>2. Len(q[v]) = 1 /\ q[v][1] = Lit(v) /\ Len(<<>>) = 0 /\ q[v] \in Seq(Int)
      BY <2>2, <3>1
    <3> QED BY <2>2, <2>4, <3>2
  <2>5. CASE v \notin c.mask
    <3>1. q[v] = <<>> /\ Len(<<>>) = 0 /\ <<>> \in Seq(Int)
      BY <2>3, <2>5
    <3> QED BY <2>2, <2>5, <3>1
  <2> QED BY <2>4, <2>5
<1>3. q \in Seq(Seq(Int)) /\ Len(q) = VARS
  <2>1. q = [v \in 1..VARS |-> q[v]]
    OBVIOUS
  <2> HIDE DEF q
  <2> QED BY <1>1, <1>2, <2>1
<1>4. t = b \o <<0>>
  BY DEF literals
<1> HIDE DEF q, b, t
<1>5. b \in Seq(Int) /\ \E at : Selection(q, b, at)
  BY <1>2, <1>3, SelectionFacts DEF b
<1>6. PICK at : Selection(q, b, at)
  BY <1>5
<1>7. /\ t \in Seq(Int) /\ Len(t) = Len(b) + 1 /\ Len(b) \in Nat /\ t[Len(t)] = 0
      /\ \A m \in 1..Len(b) : t[m] = b[m]
  BY <1>4, <1>5
<1>8. Len(t) > 0 /\ Len(t) \in Nat /\ 1 .. Len(t) - 1 = 1..Len(b)
  BY <1>7
<1> HIDE DEF Lit
<1>9. ASSUME NEW m \in 1..Len(b)
      PROVE  at[m] \in c.mask /\ at[m] \in 1..VARS /\ t[m] = Lit(at[m])
  <2>1. at[m] \in 1..VARS /\ q[at[m]] # <<>> /\ b[m] = q[at[m]][1]
    BY <1>3, <1>6 DEF Selection
  <2> QED BY <1>2, <1>7, <2>1
<1>10. ASSUME NEW v \in c.mask PROVE \E m \in 1..Len(b) : t[m] = Lit(v)
  <2>1. v \in 1..VARS /\ q[v] # <<>>
    BY <1>1, <1>2
  <2>2. PICK m \in 1..Len(b) : at[m] = v
    BY <1>3, <1>6, <2>1 DEF Selection
  <2> QED BY <1>9, <2>2
<1>11. ASSUME NEW l \in 1..Len(b), NEW m \in 1..Len(b), l # m
       PROVE  Reader!Abs(t[l]) # Reader!Abs(t[m])
  <2>1. at[l] # at[m]
    BY <1>6, <1>11, Zenon DEF Selection
  <2> QED BY <1>2, <1>9, <2>1
<1>12. \A m \in 1..Len(b) : t[m] # 0
  BY <1>2, <1>9
<1> QED BY <1>7, <1>8, <1>9, <1>10, <1>11, <1>12 DEF t, Lit

(***************************************************************************)
(* A token is never unreadable, so the reader reads the whole line.        *)
(***************************************************************************)
LEMMA NumbersAreRead ==
  ASSUME NEW t \in Seq(Int)
  PROVE  Reader!ReadPart(t) = t
<1>1. {n \in 1..Len(t) : t[n] \in Reader!Unreadable} = {}
  BY UnreadableAssumption DEF Reader!Unreadable
<1>2. Reader!Readable(t) = 0
  BY <1>1 DEF Reader!Readable, Reader!SelectInSeq
<1> QED BY <1>2 DEF Reader!ReadPart

(***************************************************************************)
(* A header and the first j of the cubes r, one to a line.                 *)
(***************************************************************************)
Header(r) == [kind |-> "p", dnf |-> TRUE, vars |-> VARS, cubes |-> Len(r)]
Holds(f, r, j) ==
    /\ f = [i \in 1 .. j + 1 |->
              IF i = 1 THEN Header(r)
              ELSE [kind |-> "literals", tokens |-> literals(r[i - 1])]]
    /\ j \in 0..Len(r)

(***************************************************************************)
(* What is counted is such a file, or one without even the header.         *)
(***************************************************************************)
LEMMA WrittenHolds ==
  ASSUME NEW f, conjunction \in Seq(ParsedCubes), Written(f)
  PROVE  LET r == real(conjunction)
         IN  /\ f = <<>> \/ \E j \in 0..Len(r) : Holds(f, r, j)
             /\ f = write_dimacs_dnf(conjunction) => Holds(f, r, Len(r))
<1> DEFINE r == real(conjunction)
           lines == [n \in 1..Len(r) |-> [kind |-> "literals", tokens |-> literals(r[n])]]
           whole == write_dimacs_dnf(conjunction)
           full == [i \in 1 .. Len(r) + 1 |->
                     IF i = 1 THEN Header(r)
                     ELSE [kind |-> "literals", tokens |-> literals(r[i - 1])]]
<1>1. Len(r) \in Nat
  <2>1. r \in Seq(ParsedCubes)
    BY RealFacts
  <2> QED BY <2>1
<1>2. whole = <<Header(r)>> \o lines
  BY DEF write_dimacs_dnf, Header
<1> HIDE DEF r
<1>3. whole = full
  <2>1. lines \in Seq({lines[n] : n \in 1..Len(r)}) /\ Len(lines) = Len(r)
    <3>1. lines = [n \in 1..Len(r) |-> lines[n]]
      OBVIOUS
    <3> HIDE DEF lines
    <3> QED BY <1>1, <3>1
  <2> DEFINE T == {Header(r)} \cup {lines[n] : n \in 1..Len(r)}
  <2>2. <<Header(r)>> \in Seq(T) /\ lines \in Seq(T)
    BY <2>1
  <2>3. \A n \in 1..Len(r) : lines[n] = [kind |-> "literals", tokens |-> literals(r[n])]
    OBVIOUS
  <2> HIDE DEF lines, whole, T
  <2>4. /\ whole \in Seq(T) /\ Len(whole) = Len(r) + 1 /\ whole[1] = Header(r)
        /\ \A i \in 2 .. Len(r) + 1 : whole[i] = lines[i - 1]
    BY <1>1, <1>2, <2>1, <2>2
  <2>5. \A i \in 1 .. Len(r) + 1 : whole[i] = full[i]
    <3>1. ASSUME NEW i \in 2 .. Len(r) + 1 PROVE whole[i] = full[i]
      <4>1. i - 1 \in 1..Len(r) /\ i # 1 /\ i \in 1 .. Len(r) + 1
        BY <1>1
      <4> QED BY <2>3, <2>4, <4>1
    <3>2. whole[1] = full[1]
      BY <1>1, <2>4
    <3>3. \A i \in 1 .. Len(r) + 1 : i = 1 \/ i \in 2 .. Len(r) + 1
      BY <1>1
    <3> QED BY <3>1, <3>2, <3>3
  <2>6. whole = [i \in 1 .. Len(r) + 1 |-> whole[i]]
    BY <1>1, <2>4
  <2> HIDE DEF full
  <2>7. full = [i \in 1 .. Len(r) + 1 |-> full[i]]
    BY DEF full
  <2> QED BY <2>5, <2>6, <2>7
<1> HIDE DEF whole
<1>4. Holds(whole, r, Len(r))
  BY <1>1, <1>3 DEF Holds
<1>5. ASSUME NEW n \in 0 .. Len(whole) - 1, f = SubSeq(whole, 1, n), n # 0
      PROVE  \E j \in 0..Len(r) : Holds(f, r, j)
  <2>1. n \in 1..Len(r) /\ Len(whole) = Len(r) + 1
    BY <1>1, <1>3, <1>5
  <2>2. f = [i \in 1..n |-> whole[i]]
    BY <1>1, <1>5, <2>1
  <2>3. \A i \in 1..n : whole[i] = full[i] /\ i \in 1 .. Len(r) + 1
    BY <1>1, <1>3, <2>1
  <2>4. n - 1 \in 0..Len(r) /\ (n - 1) + 1 = n
    BY <1>1, <2>1
  <2>5. Holds(f, r, n - 1)
    BY <2>2, <2>3, <2>4 DEF Holds
  <2> QED BY <2>4, <2>5
<1>6. ASSUME f = SubSeq(whole, 1, 0) PROVE f = <<>>
  BY <1>6
<1>7. Len(r) \in 0..Len(r)
  BY <1>1
<1> QED BY <1>4, <1>5, <1>6, <1>7 DEF Written, whole, r

(***************************************************************************)
(* The cubes' tokens in the stream: those of the i-th cube stand from      *)
(* position B[i - 1] + 1 to B[i].                                          *)
(***************************************************************************)
Blocks(s, r, j, B) ==
    /\ B \in [0..j -> Nat] /\ B[0] = 0 /\ B[j] = Len(s)
    /\ \A i \in 1..j :
          /\ B[i] = B[i - 1] + Len(literals(r[i]))
          /\ \A m \in 1..Len(literals(r[i])) : s[B[i - 1] + m] = literals(r[i])[m]
    /\ \A x \in 1..Len(s) : \E i \in 1..j : B[i - 1] < x /\ x <= B[i]

(***************************************************************************)
(* The header adds nothing to the stream, and each line its own tokens.    *)
(***************************************************************************)
LEMMA StreamHasBlocks ==
  ASSUME NEW r \in Seq(RealCubes), NEW j, NEW f, Holds(f, r, j)
  PROVE  Reader!Stream(f) \in Seq(Int) /\ \E B : Blocks(Reader!Stream(f), r, j, B)
<1> DEFINE s == Reader!Stream(f)
           q == [i \in 1 .. j + 1 |-> IF i = 1 THEN <<>> ELSE literals(r[i - 1])]
<1>1. j \in Nat /\ j <= Len(r) /\ Len(r) \in Nat
  BY DEF Holds
<1>2. ASSUME NEW i \in 1..j
      PROVE  /\ literals(r[i]) \in Seq(Int) /\ Len(literals(r[i])) \in Nat
             /\ i + 1 \in 1 .. j + 1 /\ q[i + 1] = literals(r[i])
  <2>1. r[i] \in RealCubes /\ i + 1 # 1 /\ i + 1 \in 1 .. j + 1 /\ (i + 1) - 1 = i
    BY <1>1
  <2> QED BY <2>1, LiteralsFacts
<1>3. ASSUME NEW i \in 1 .. j + 1
      PROVE  /\ q[i] \in Seq(Int)
             /\ q[i] = IF f[i].kind = "literals" THEN Reader!ReadPart(f[i].tokens) ELSE <<>>
  <2>1. CASE i = 1
    <3>1. f[i] = Header(r) /\ q[i] = <<>> /\ <<>> \in Seq(Int)
      BY <1>1, <2>1 DEF Holds
    <3>2. f[i].kind = "p"
      BY <3>1 DEF Header
    <3>3. f[i].kind # "literals"
      BY <3>2
    <3> HIDE DEF q
    <3> QED BY <3>1, <3>3
  <2>2. CASE i # 1
    <3>1. i - 1 \in 1..j /\ (i - 1) + 1 = i
      BY <1>1, <2>2
    <3>2. f[i] = [kind |-> "literals", tokens |-> literals(r[i - 1])]
      BY <2>2 DEF Holds
    <3>3. q[i] = literals(r[i - 1]) /\ literals(r[i - 1]) \in Seq(Int)
      BY <1>2, <3>1
    <3> QED BY <3>2, <3>3, NumbersAreRead
  <2> QED BY <2>1, <2>2
<1>4. q \in Seq(Seq(Int)) /\ Len(q) = j + 1
  <2>1. q = [i \in 1 .. j + 1 |-> q[i]]
    OBVIOUS
  <2> HIDE DEF q
  <2> QED BY <1>1, <1>3, <2>1
<1>5. s = FlattenSeq(q)
  <2>1. DOMAIN f = 1 .. j + 1
    BY DEF Holds
  <2>2. q = [i \in 1 .. j + 1 |-> q[i]]
    OBVIOUS
  <2> HIDE DEF q
  <2>3. q = [n \in DOMAIN f |-> IF f[n].kind = "literals"
                                 THEN Reader!ReadPart(f[n].tokens) ELSE <<>>]
    BY <1>3, <2>1, <2>2
  <2> QED BY <2>3 DEF Reader!Stream, Reader!FlattenSeq, FlattenSeq
<1> HIDE DEF s, q
<1>6. s \in Seq(Int) /\ \E L : Laid(q, s, L)
  BY <1>4, <1>5, FlattenFacts
<1>7. PICK L : Laid(q, s, L)
  BY <1>6
<1>8. /\ L \in [0 .. j + 1 -> Nat] /\ L[0] = 0 /\ L[j + 1] = Len(s)
      /\ \A n \in 1 .. j + 1 :
            /\ L[n] = L[n - 1] + Len(q[n])
            /\ \A m \in 1..Len(q[n]) : s[L[n - 1] + m] = q[n][m]
      /\ \A x \in 1..Len(s) : \E n \in 1 .. j + 1 : L[n - 1] < x /\ x <= L[n]
  <2>1. \A x \in 1..Len(s) : \E n \in 1 .. j + 1 : L[n - 1] < x /\ x <= L[n]
    BY <1>4, <1>6, <1>7, LaidCovers
  <2> QED BY <1>4, <1>7, <2>1 DEF Laid
<1>9. L[1] = 0
  <2>1. q[1] = <<>> /\ 1 \in 1 .. j + 1 /\ 1 - 1 = 0 /\ Len(<<>>) = 0
    BY <1>1 DEF q
  <2> QED BY <1>8, <2>1
<1> DEFINE B == [i \in 0..j |-> L[i + 1]]
<1>10. \A i \in 0..j : B[i] = L[i + 1] /\ i + 1 \in 0 .. j + 1
  BY <1>1
<1>11. B \in [0..j -> Nat] /\ B[0] = 0 /\ B[j] = Len(s)
  BY <1>1, <1>8, <1>9
<1> HIDE DEF B
<1>12. ASSUME NEW i \in 1..j
       PROVE  /\ B[i] = B[i - 1] + Len(literals(r[i]))
              /\ \A m \in 1..Len(literals(r[i])) : s[B[i - 1] + m] = literals(r[i])[m]
  <2>1. /\ i \in 0..j /\ i - 1 \in 0..j /\ i + 1 \in 1 .. j + 1
        /\ (i - 1) + 1 = i /\ (i + 1) - 1 = i /\ q[i + 1] = literals(r[i])
    BY <1>1, <1>2
  <2>2. B[i] = L[i + 1] /\ B[i - 1] = L[i]
    BY <1>10, <2>1
  <2> QED BY <1>8, <2>1, <2>2
<1>13. ASSUME NEW x \in 1..Len(s) PROVE \E i \in 1..j : B[i - 1] < x /\ x <= B[i]
  <2>1. PICK n \in 1 .. j + 1 : L[n - 1] < x /\ x <= L[n]
    BY <1>8
  <2>2. n # 1
    BY <1>9, <2>1
  <2>3. n - 1 \in 1..j /\ n - 1 \in 0..j /\ (n - 1) - 1 \in 0..j
        /\ (n - 1) + 1 = n /\ ((n - 1) - 1) + 1 = n - 1
    BY <1>1, <2>1, <2>2
  <2>4. B[n - 1] = L[n] /\ B[(n - 1) - 1] = L[n - 1]
    BY <1>10, <2>3
  <2> QED BY <2>1, <2>3, <2>4
<1>14. Blocks(s, r, j, B)
  BY <1>11, <1>12, <1>13 DEF Blocks
<1> QED BY <1>6, <1>14 DEF s

(***************************************************************************)
(* Where in the cubes a position of the stream is: each block has one      *)
(* zero, at its end, so that the zeros before a position number its block. *)
(***************************************************************************)
LEMMA BlockZeros ==
  ASSUME NEW r \in Seq(RealCubes), NEW s \in Seq(Int), NEW B,
         NEW j \in 0..Len(r), Blocks(s, r, j, B)
  PROVE  /\ \A i \in 1..j : \A m \in 1..Len(literals(r[i])) :
               Zeros(s, B[i - 1] + (m - 1)) = i - 1
         /\ Zeros(s, Len(s)) = j
<1> DEFINE Size(i) == Len(literals(r[i]))
           G == {i \in Nat : i \in 0..j => Zeros(s, B[i]) = i}
<1>1. j \in Nat /\ B \in [0..j -> Nat] /\ B[0] = 0 /\ B[j] = Len(s)
  BY DEF Blocks
<1>2. ASSUME NEW i \in 1..j
      PROVE  /\ i \in 0..j /\ i - 1 \in 0..j
             /\ B[i - 1] \in Nat /\ Size(i) \in Nat /\ Size(i) > 0
             /\ B[i] = B[i - 1] + Size(i)
             /\ \A m \in 1 .. Size(i) - 1 : s[B[i - 1] + m] # 0
             /\ s[B[i - 1] + Size(i)] = 0
  <2>1. i \in 0..j /\ i - 1 \in 0..j /\ r[i] \in RealCubes
    BY <1>1
  <2>2. /\ B[i] = B[i - 1] + Size(i)
        /\ \A m \in 1..Size(i) : s[B[i - 1] + m] = literals(r[i])[m]
    BY DEF Blocks
  <2>3. /\ Size(i) \in Nat /\ Size(i) > 0 /\ literals(r[i])[Size(i)] = 0
        /\ \A m \in 1 .. Size(i) - 1 : literals(r[i])[m] # 0
    BY <2>1, LiteralsFacts
  <2> HIDE DEF Size
  <2>4. Size(i) \in 1..Size(i) /\ \A m \in 1 .. Size(i) - 1 : m \in 1..Size(i)
    BY <2>3
  <2>5. B[i - 1] \in Nat
    BY <1>1, <2>1
  <2> QED BY <2>1, <2>2, <2>3, <2>4, <2>5
<1> HIDE DEF Size
<1>3. ASSUME NEW i \in 1..j, NEW m \in 1..Size(i)
      PROVE  Zeros(s, B[i - 1] + (m - 1)) = Zeros(s, B[i - 1])
  <2> DEFINE p == B[i - 1]
  <2>1. p \in Nat /\ m - 1 \in Nat /\ m - 1 <= Size(i) - 1 /\ Size(i) \in Nat
    BY <1>2
  <2>2. \A x \in 1 .. p + (m - 1) : s[x] = 0 => x \in 1..p
    <3>1. SUFFICES ASSUME NEW x \in 1 .. p + (m - 1), ~(x \in 1..p) PROVE s[x] # 0
      OBVIOUS
    <3> HIDE DEF p
    <3>2. x - p \in 1 .. Size(i) - 1 /\ p + (x - p) = x
      BY <2>1, <3>1
    <3>3. \A n \in 1 .. Size(i) - 1 : s[p + n] # 0
      BY <1>2 DEF p
    <3> QED BY <3>2, <3>3
  <2> HIDE DEF p
  <2>3. {x \in 1 .. p + (m - 1) : s[x] = 0} = {x \in 1..p : s[x] = 0}
    BY <2>1, <2>2
  <2> QED BY <2>3 DEF Zeros, p
<1>4. 0 \in G
  BY <1>1, ZerosFacts
<1>5. ASSUME NEW n \in G PROVE n + 1 \in G
  <2>1. SUFFICES ASSUME n + 1 \in 0..j PROVE Zeros(s, B[n + 1]) = n + 1
    OBVIOUS
  <2>2. n + 1 \in 1..j /\ (n + 1) - 1 = n /\ n \in 0..j /\ n \in Nat
    BY <2>1
  <2>3. Zeros(s, B[n]) = n
    BY <2>2
  <2> HIDE DEF G
  <2>4. /\ B[n] \in Nat /\ Size(n + 1) \in Nat /\ Size(n + 1) > 0
        /\ B[n + 1] = B[n] + Size(n + 1) /\ s[B[n] + Size(n + 1)] = 0
    BY <1>2, <2>2
  <2> DEFINE p == B[n] + (Size(n + 1) - 1)
  <2>5. p \in Nat /\ p + 1 = B[n + 1] /\ s[p + 1] = 0
    BY <2>4
  <2>6. Zeros(s, p) = Zeros(s, B[n])
    <3>1. Size(n + 1) \in 1..Size(n + 1)
      BY <2>4
    <3> QED BY <1>3, <2>2, <3>1
  <2> HIDE DEF p
  <2>7. Zeros(s, p + 1) = Zeros(s, p) + 1
    BY <2>5, ZerosFacts
  <2> QED BY <2>3, <2>5, <2>6, <2>7
<1>6. G = Nat
  <2> HIDE DEF G
  <2>1. G \in SUBSET Nat
    BY DEF G
  <2> QED BY <1>4, <1>5, <2>1, GoodNaturals
<1>7. \A i \in 0..j : Zeros(s, B[i]) = i
  <2>1. \A i \in 0..j : i \in Nat
    BY <1>1
  <2> QED BY <1>6, <2>1
<1>8. ASSUME NEW i \in 1..j, NEW m \in 1..Size(i)
      PROVE  Zeros(s, B[i - 1] + (m - 1)) = i - 1
  <2>1. i - 1 \in 0..j
    BY <1>2
  <2> QED BY <1>3, <1>7, <2>1
<1>9. Zeros(s, Len(s)) = j
  BY <1>1, <1>7
<1> QED BY <1>8, <1>9 DEF Size

(***************************************************************************)
(* Position n holds a literal of the i-th cube, in the cube's own place.   *)
(***************************************************************************)
InBlock(s, r, B, n, i) ==
    \E m \in 1 .. Len(literals(r[i])) - 1 : n = B[i - 1] + m /\ s[n] = literals(r[i])[m]

(***************************************************************************)
(* So the literals of the stream's k-th cube are those of r[k + 1].        *)
(***************************************************************************)
LEMMA BlockPositions ==
  ASSUME NEW r \in Seq(RealCubes), NEW s \in Seq(Int), NEW B,
         NEW j \in 0..Len(r), Blocks(s, r, j, B)
  PROVE  /\ Reader!CubeCount(s) = j
         /\ \A n \in DOMAIN s : s[n] # 0 =>
               \E i \in 1..j : InBlock(s, r, B, n, i) /\ Reader!CubeOf(s, n) = i - 1
         /\ \A i \in 1..j : \A m \in 1 .. Len(literals(r[i])) - 1 :
               /\ B[i - 1] + m \in Reader!Positions(s, i - 1)
               /\ s[B[i - 1] + m] = literals(r[i])[m]
<1> DEFINE Size(i) == Len(literals(r[i]))
<1>1. /\ j \in Nat /\ B \in [0..j -> Nat] /\ B[j] = Len(s)
      /\ DOMAIN s = 1..Len(s) /\ Len(s) \in Nat
  BY DEF Blocks
<1>2. ASSUME NEW i \in 1..j
      PROVE  /\ B[i - 1] \in Nat /\ B[i] \in Nat /\ Size(i) \in Nat /\ Size(i) > 0
             /\ B[i] = B[i - 1] + Size(i)
             /\ \A m \in 1..Size(i) : s[B[i - 1] + m] = literals(r[i])[m]
             /\ \A m \in 1 .. Size(i) - 1 : literals(r[i])[m] # 0
             /\ literals(r[i])[Size(i)] = 0
  <2>1. i \in 0..j /\ i - 1 \in 0..j /\ r[i] \in RealCubes
    BY <1>1
  <2>2. Size(i) \in Nat /\ Size(i) > 0 /\ literals(r[i])[Size(i)] = 0
        /\ \A m \in 1 .. Size(i) - 1 : literals(r[i])[m] # 0
    BY <2>1, LiteralsFacts
  <2> QED BY <1>1, <2>1, <2>2 DEF Blocks
<1> HIDE DEF Size
<1>3. ASSUME NEW i \in 1..j, NEW m \in 1..Size(i)
      PROVE  Reader!CubeOf(s, B[i - 1] + m) = i - 1
  <2>1. B[i - 1] \in Nat /\ m \in Nat /\ (B[i - 1] + m) - 1 = B[i - 1] + (m - 1)
    BY <1>2
  <2>2. Zeros(s, B[i - 1] + (m - 1)) = i - 1
    BY BlockZeros DEF Size
  <2>3. Reader!CubeOf(s, B[i - 1] + m) = Zeros(s, (B[i - 1] + m) - 1)
    BY DEF Reader!CubeOf, Reader!Cardinality, Cardinality, Zeros
  <2> QED BY <2>1, <2>2, <2>3
<1>4. Reader!CubeCount(s) = j
  <2>1. Zeros(s, Len(s)) = j
    BY BlockZeros
  <2>2. {n \in DOMAIN s : s[n] = 0} = {n \in 1..Len(s) : s[n] = 0}
    BY <1>1
  <2>3. Reader!CubeCount(s) = Zeros(s, Len(s))
    BY <2>2 DEF Reader!CubeCount, Reader!Cardinality, Cardinality, Zeros
  <2> QED BY <2>1, <2>3
<1>5. ASSUME NEW n \in DOMAIN s, s[n] # 0
      PROVE  \E i \in 1..j : InBlock(s, r, B, n, i) /\ Reader!CubeOf(s, n) = i - 1
  <2>1. PICK i \in 1..j : B[i - 1] < n /\ n <= B[i]
    BY <1>1 DEF Blocks
  <2> DEFINE m == n - B[i - 1]
  <2>2. m \in 1..Size(i) /\ n = B[i - 1] + m
    BY <1>1, <1>2, <2>1
  <2> HIDE DEF m
  <2>3. s[n] = literals(r[i])[m] /\ Reader!CubeOf(s, n) = i - 1
    BY <1>2, <1>3, <2>2
  <2>4. m \in 1 .. Size(i) - 1
    <3>1. m # Size(i)
      BY <1>2, <1>5, <2>3
    <3> QED BY <1>2, <2>2, <3>1
  <2>5. InBlock(s, r, B, n, i)
    BY <2>2, <2>3, <2>4 DEF InBlock, Size
  <2> QED BY <2>3, <2>5
<1>6. ASSUME NEW i \in 1..j, NEW m \in 1 .. Size(i) - 1
      PROVE  /\ B[i - 1] + m \in Reader!Positions(s, i - 1)
             /\ s[B[i - 1] + m] = literals(r[i])[m]
  <2>1. m \in 1..Size(i)
    BY <1>2
  <2>2. s[B[i - 1] + m] = literals(r[i])[m] /\ literals(r[i])[m] # 0
    BY <1>2, <2>1
  <2>3. B[i] <= Len(s)
    <3>1. CASE i = j
      BY <1>1, <3>1
    <3>2. CASE i # j
      <4>1. SUFFICES ASSUME B[i] > Len(s) PROVE FALSE
        BY <1>1, <1>2
      <4>2. Zeros(s, B[i - 1] + (Size(i) - 1)) = i - 1
        <5>1. Size(i) \in 1..Size(i)
          BY <1>2
        <5> QED BY <5>1, BlockZeros DEF Size
      <4>3. /\ B[i - 1] + (Size(i) - 1) \in Nat /\ Len(s) <= B[i - 1] + (Size(i) - 1)
            /\ i - 1 < j
        BY <1>1, <1>2, <4>1
      <4>4. Zeros(s, Len(s)) <= Zeros(s, B[i - 1] + (Size(i) - 1))
        BY <1>1, <4>3, ZerosFacts
      <4>5. Zeros(s, Len(s)) = j
        BY BlockZeros
      <4> QED BY <1>1, <4>2, <4>3, <4>4, <4>5
    <3> QED BY <3>1, <3>2
  <2>4. B[i - 1] + m \in DOMAIN s
    BY <1>1, <1>2, <2>1, <2>3
  <2>5. Reader!CubeOf(s, B[i - 1] + m) = i - 1
    BY <1>3, <2>1
  <2> QED BY <2>2, <2>4, <2>5 DEF Reader!Positions
<1> QED BY <1>4, <1>5, <1>6 DEF Size

(***************************************************************************)
(* The stream's cube i - 1 has the models of r[i]: the literals of the one *)
(* are the variables that the other constrains, each with its bit.         *)
(***************************************************************************)
LEMMA BlockModels ==
  ASSUME NEW r \in Seq(RealCubes), NEW s \in Seq(Int), NEW B,
         NEW j \in 0..Len(r), Blocks(s, r, j, B), NEW i \in 1..j
  PROVE  Reader!CubeModels(s, i - 1) = Models(r[i])
<1> DEFINE c == r[i]
           t == literals(c)
           Lit(v) == IF v \in c.bits THEN v ELSE -v
           Body == 1 .. Len(t) - 1
           P == Reader!Positions(s, i - 1)
<1>1. c \in RealCubes /\ i \in 1..j /\ j \in Nat
  OBVIOUS
<1>2. /\ \A m \in Body : \E v \in c.mask : t[m] = Lit(v)
      /\ \A v \in c.mask : \E m \in Body : t[m] = Lit(v)
  BY <1>1, LiteralsFacts
<1>3. \A v \in c.mask : v \in Int /\ v > 0 /\ -v \in Int /\ -v < 0 /\ -(-v) = v
  <2>1. c.mask \subseteq 1..VARS /\ VARS \in Nat
    BY <1>1, VariableFacts DEF RealCubes, Cubes
  <2> QED BY <2>1
<1>4. \A m \in Body : B[i - 1] + m \in P /\ s[B[i - 1] + m] = t[m]
  BY BlockPositions
<1>5. ASSUME NEW n \in P PROVE \E m \in Body : s[n] = t[m]
  <2>1. n \in DOMAIN s /\ s[n] # 0 /\ Reader!CubeOf(s, n) = i - 1
    BY DEF Reader!Positions
  <2>2. PICK h \in 1..j : InBlock(s, r, B, n, h) /\ Reader!CubeOf(s, n) = h - 1
    BY <2>1, BlockPositions
  <2>3. h = i
    <3>1. h \in Int /\ i \in Int /\ h - 1 = i - 1
      BY <1>1, <2>1, <2>2
    <3> QED BY <3>1
  <2> QED BY <2>2, <2>3 DEF InBlock
<1>6. ~c.pad
  BY <1>1 DEF RealCubes
<1> DEFINE Agrees(a, x) == IF x > 0 THEN x \in a ELSE -x \notin a
<1>7. ASSUME NEW a, NEW v \in c.mask
      PROVE  Agrees(a, Lit(v)) <=> (v \in a <=> v \in c.bits)
  <2>1. CASE v \in c.bits
    <3>1. Lit(v) = v /\ v > 0
      BY <1>3, <2>1
    <3> QED BY <2>1, <3>1
  <2>2. CASE v \notin c.bits
    <3>1. Lit(v) = -v /\ ~(-v > 0) /\ -(-v) = v
      BY <1>3, <2>2
    <3> QED BY <2>2, <3>1
  <2> QED BY <2>1, <2>2
<1> HIDE DEF c, t, Lit, P, Agrees
<1>8. ASSUME NEW a
      PROVE  (\A n \in P : Agrees(a, s[n])) <=> (\A v \in c.mask : v \in a <=> v \in c.bits)
  <2>1. ASSUME \A n \in P : Agrees(a, s[n]), NEW v \in c.mask
        PROVE  v \in a <=> v \in c.bits
    <3>1. PICK m \in Body : t[m] = Lit(v)
      BY <1>2
    <3>2. Agrees(a, Lit(v))
      BY <1>4, <2>1, <3>1
    <3> QED BY <1>7, <3>2
  <2>2. ASSUME \A v \in c.mask : v \in a <=> v \in c.bits, NEW n \in P
        PROVE  Agrees(a, s[n])
    <3>1. PICK m \in Body : s[n] = t[m]
      BY <1>5
    <3>2. PICK v \in c.mask : t[m] = Lit(v)
      BY <1>2
    <3> QED BY <1>7, <2>2, <3>1, <3>2
  <2> QED BY <2>1, <2>2
<1>9. Reader!CubeModels(s, i - 1) = {a \in Assignments : \A n \in P : Agrees(a, s[n])}
  BY DEF Reader!CubeModels, Reader!Assignments, Assignments, P, Agrees
<1>10. Models(c) = {a \in Assignments : \A v \in c.mask : v \in a <=> v \in c.bits}
  BY <1>6 DEF Models
<1>11. Reader!CubeModels(s, i - 1) = Models(c)
  BY <1>8, <1>9, <1>10
<1> QED BY <1>11 DEF c

(***************************************************************************)
(* A file that holds the first j of the cubes has the models of those.     *)
(***************************************************************************)
LEMMA FileMeans ==
  ASSUME NEW r \in Seq(RealCubes), NEW j, NEW f, Holds(f, r, j)
  PROVE  FileModels(f) = UNION {Models(r[x]) : x \in 1..j}
<1> DEFINE s == Reader!Stream(f)
<1>1. j \in 0..Len(r) /\ j \in Nat
  BY DEF Holds
<1>2. s \in Seq(Int) /\ \E B : Blocks(s, r, j, B)
  BY StreamHasBlocks
<1> HIDE DEF s
<1>3. PICK B : Blocks(s, r, j, B)
  BY <1>2
<1>4. Reader!CubeCount(s) = j
  BY <1>1, <1>2, <1>3, BlockPositions
<1>5. \A i \in 1..j : Reader!CubeModels(s, i - 1) = Models(r[i])
  BY <1>1, <1>2, <1>3, BlockModels
<1>6. {Reader!CubeModels(s, k) : k \in 0 .. j - 1} = {Models(r[x]) : x \in 1..j}
  <2>1. ASSUME NEW k \in 0 .. j - 1
        PROVE  k + 1 \in 1..j /\ Reader!CubeModels(s, k) = Models(r[k + 1])
    <3>1. k + 1 \in 1..j /\ (k + 1) - 1 = k
      BY <1>1
    <3> QED BY <1>5, <3>1
  <2>2. ASSUME NEW x \in 1..j
        PROVE  x - 1 \in 0 .. j - 1 /\ Reader!CubeModels(s, x - 1) = Models(r[x])
    <3>1. x - 1 \in 0 .. j - 1
      BY <1>1
    <3> QED BY <1>5, <3>1
  <2> QED BY <2>1, <2>2
<1>7. FileModels(f) = UNION {Reader!CubeModels(s, k) : k \in 0 .. j - 1}
  BY <1>4 DEF FileModels, Reader!FileModels, s
<1> QED BY <1>6, <1>7

(***************************************************************************)
(* A file without a line has none.                                         *)
(***************************************************************************)
LEMMA EmptyFileMeans == FileModels(<<>>) = {}
<1> DEFINE q == [n \in DOMAIN <<>> |-> IF <<>>[n].kind = "literals"
                                       THEN Reader!ReadPart(<<>>[n].tokens) ELSE <<>>]
<1>1. q = <<>> /\ DOMAIN <<>> = {}
  OBVIOUS
<1>2. Reader!Stream(<<>>) = Reader!FlattenSeq(q)
  BY DEF Reader!Stream
<1> HIDE DEF q
<1>3. Reader!Stream(<<>>) = <<>>
  BY <1>1, <1>2 DEF Reader!FlattenSeq
<1>4. Reader!CubeCount(<<>>) = 0
  <2>1. {n \in DOMAIN <<>> : <<>>[n] = 0} = {}
    BY <1>1
  <2> QED BY <2>1, FS_EmptySet DEF Reader!CubeCount, Reader!Cardinality, Cardinality
<1>5. 0 .. 0 - 1 = {}
  OBVIOUS
<1> QED BY <1>3, <1>4, <1>5 DEF FileModels, Reader!FileModels

(***************************************************************************)
(* The lines and the literals of the whole file are such as parse accepts: *)
(* the header counts no more than CUBES^2 cubes and declares all VARS      *)
(* variables, and no cube names a variable twice.                          *)
(***************************************************************************)
LEMMA WholeFileIsWellFormed ==
  ASSUME NEW r \in Seq(RealCubes), NEW f, Holds(f, r, Len(r)), Len(r) <= CUBES * CUBES
  PROVE  Reader!WellFormed(f)
<1> DEFINE s == Reader!Stream(f)
           j == Len(r)
<1>1. j \in 0..Len(r) /\ j \in Nat /\ VARS \in Nat /\ VARS > 0 /\ Vars = 1..VARS
  BY VariableFacts
<1>2. s \in Seq(Int) /\ \E B : Blocks(s, r, j, B)
  BY StreamHasBlocks
<1>3. PICK B : Blocks(s, r, j, B)
  BY <1>2
<1>4. /\ DOMAIN f = 1 .. j + 1 /\ f[1] = Header(r)
      /\ \A i \in 2 .. j + 1 : f[i].kind = "literals"
  <2>1. DOMAIN f = 1 .. j + 1 /\ f[1] = Header(r)
    BY <1>1 DEF Holds
  <2>2. ASSUME NEW i \in 2 .. j + 1 PROVE f[i].kind = "literals"
    <3>1. i \in 1 .. j + 1 /\ i # 1
      BY <1>1
    <3>2. f[i] = [kind |-> "literals", tokens |-> literals(r[i - 1])]
      BY <3>1 DEF Holds
    <3> QED BY <3>2
  <2> QED BY <2>1, <2>2
<1>5. 1 \in DOMAIN f /\ Reader!LineNumbers(f, "p") = {1}
  <2>1. f[1].kind = "p"
    BY <1>4 DEF Header
  <2>2. \A n \in 1 .. j + 1 : n = 1 \/ n \in 2 .. j + 1
    BY <1>1
  <2>3. 1 \in 1 .. j + 1
    BY <1>1
  <2> QED BY <1>4, <2>1, <2>2, <2>3 DEF Reader!LineNumbers
<1>6. \A n \in Reader!LineNumbers(f, "literals") : n > 1
  <2>1. f[1].kind # "literals"
    BY <1>4 DEF Header
  <2>2. \A n \in 1 .. j + 1 : n # 1 => n > 1
    BY <1>1
  <2> QED BY <1>4, <2>1, <2>2 DEF Reader!LineNumbers
<1>7. Reader!GoodHeader(f[1]) /\ Reader!extracted(f[1].vars) = VARS
  <2>1. f[1].dnf /\ f[1].vars = VARS /\ f[1].cubes = j
    BY <1>4 DEF Header
  <2>2. /\ VARS \in Int /\ j \in Int
        /\ Reader!extracted(VARS) = VARS /\ Reader!extracted(j) = j
    BY <1>1, UnreadableAssumption DEF Reader!extracted
  <2>3. Reader!VARS = VARS
    BY DEF Reader!VARS, Reader!Cardinality, Cardinality, VARS
  <2>4. VARS \in 1..VARS
    BY <1>1
  <2> QED BY <2>1, <2>2, <2>3, <2>4 DEF Reader!GoodHeader
<1> HIDE DEF s
<1>8. Reader!CubeCount(s) = j
  BY <1>1, <1>2, <1>3, BlockPositions
<1>9. ASSUME NEW n \in DOMAIN s PROVE Reader!Abs(s[n]) <= VARS
  <2>1. CASE s[n] = 0
    BY <1>1, <2>1 DEF Reader!Abs
  <2>2. CASE s[n] # 0
    <3>1. PICK i \in 1..j : InBlock(s, r, B, n, i)
      BY <1>1, <1>2, <1>3, <2>2, BlockPositions
    <3>2. PICK m \in 1 .. Len(literals(r[i])) - 1 : s[n] = literals(r[i])[m]
      BY <3>1 DEF InBlock
    <3>3. r[i] \in RealCubes
      BY <1>1
    <3>4. PICK v \in r[i].mask : s[n] = IF v \in r[i].bits THEN v ELSE -v
      <4>1. \A x \in 1 .. Len(literals(r[i])) - 1 :
               \E v \in r[i].mask : literals(r[i])[x] = (IF v \in r[i].bits THEN v ELSE -v)
        BY <3>3, LiteralsFacts
      <4> QED BY <3>2, <4>1
    <3>5. v \in 1..VARS
      BY <1>1, <3>3 DEF RealCubes, Cubes
    <3>6. Reader!Abs(v) = v /\ Reader!Abs(-v) = v
      BY <1>1, <3>5 DEF Reader!Abs
    <3> QED BY <1>1, <3>4, <3>5, <3>6
  <2> QED BY <2>1, <2>2
<1>10. ASSUME NEW k \in 0..j, NEW m \in Reader!Positions(s, k),
              NEW n \in Reader!Positions(s, k), m # n
       PROVE  Reader!Abs(s[m]) # Reader!Abs(s[n])
  <2>1. /\ m \in DOMAIN s /\ s[m] # 0 /\ Reader!CubeOf(s, m) = k
        /\ n \in DOMAIN s /\ s[n] # 0 /\ Reader!CubeOf(s, n) = k
    BY DEF Reader!Positions
  <2>2. PICK i \in 1..j : InBlock(s, r, B, m, i) /\ Reader!CubeOf(s, m) = i - 1
    BY <1>1, <1>2, <1>3, <2>1, BlockPositions
  <2>3. PICK h \in 1..j : InBlock(s, r, B, n, h) /\ Reader!CubeOf(s, n) = h - 1
    BY <1>1, <1>2, <1>3, <2>1, BlockPositions
  <2>4. h = i
    <3>1. h \in Int /\ i \in Int /\ h - 1 = i - 1
      BY <1>1, <2>1, <2>2, <2>3
    <3> QED BY <3>1
  <2>5. PICK x \in 1 .. Len(literals(r[i])) - 1 :
           m = B[i - 1] + x /\ s[m] = literals(r[i])[x]
    BY <2>2 DEF InBlock
  <2>6. PICK y \in 1 .. Len(literals(r[i])) - 1 :
           n = B[i - 1] + y /\ s[n] = literals(r[i])[y]
    BY <2>3, <2>4 DEF InBlock
  <2>7. x # y
    BY <1>10, <2>5, <2>6
  <2>8. r[i] \in RealCubes
    BY <1>1
  <2>9. Reader!Abs(literals(r[i])[x]) # Reader!Abs(literals(r[i])[y])
    BY <2>7, <2>8, LiteralsFacts
  <2> QED BY <2>5, <2>6, <2>9
<1>11. s # <<>> => Reader!Last(s) = 0
  <2>1. Len(s) \in Nat /\ (s # <<>> => Len(s) # 0)
    BY <1>2
  <2>2. SUFFICES ASSUME Len(s) # 0 PROVE s[Len(s)] = 0
    BY <2>1 DEF Reader!Last
  <2>3. B[0] = 0 /\ B[j] = Len(s) /\ B \in [0..j -> Nat]
    BY <1>3 DEF Blocks
  <2>4. j # 0
    BY <2>2, <2>3
  <2>5. j \in 1..j /\ j - 1 \in 0..j
    BY <1>1, <2>4
  <2> DEFINE t == literals(r[j])
  <2>6. B[j] = B[j - 1] + Len(t) /\ \A m \in 1..Len(t) : s[B[j - 1] + m] = t[m]
    BY <1>3, <2>5 DEF Blocks
  <2>7. Len(t) \in Nat /\ Len(t) > 0 /\ t[Len(t)] = 0
    <3>1. r[j] \in RealCubes
      BY <2>5
    <3> QED BY <3>1, LiteralsFacts
  <2> HIDE DEF t
  <2>8. Len(t) \in 1..Len(t)
    BY <2>7
  <2> QED BY <2>3, <2>6, <2>7, <2>8
<1>12. \A k \in 0..j : \A m, n \in Reader!Positions(s, k) :
          m # n => Reader!Abs(s[m]) # Reader!Abs(s[n])
  BY <1>10
<1> HIDE DEF j
<1>13. j <= CUBES * CUBES
  BY DEF j
<1> QED BY <1>5, <1>6, <1>7, <1>8, <1>9, <1>11, <1>12, <1>13 DEF Reader!WellFormed, s

(***************************************************************************)
(* What is counted is the intersection of the two DNFs, in a file that the *)
(* project's own parser accepts; after a failed write it is a part of it.  *)
(***************************************************************************)
THEOREM CountIsOfTheIntersection == Spec => []TruthIsIntersection
<1>1. Inv /\ AnswerInv => TruthIsIntersection
  <2> DEFINE r == real(conjunction)
             f == result.file
             all == UNION {Models(r[x]) : x \in 1..Len(r)}
  <2>1. SUFFICES ASSUME Inv, AnswerInv, pc = "returned", result.kind = "counted"
                 PROVE  /\ FileModels(f) \subseteq Intersection
                        /\ f = write_dimacs_dnf(conjunction) =>
                              Reader!WellFormed(f) /\ FileModels(f) = Intersection
    BY DEF TruthIsIntersection
  <2>2. /\ alice \in ParsedDnfs /\ bob \in ParsedDnfs
        /\ conjunction = plain_conjoin_dnf(alice, bob)
    BY <2>1 DEF Inv
  <2>3. Written(f)
    BY <2>1 DEF AnswerInv
  <2> HIDE DEF f, all, r
  <2>4. /\ conjunction \in Seq(ParsedCubes) /\ Len(conjunction) = CUBES * CUBES
        /\ UNION {Models(conjunction[n]) : n \in 1..Len(conjunction)} = Intersection
    BY <2>2, ConjunctionMeans DEF Intersection
  <2>5. all = Intersection /\ \A x \in 1..Len(r) : r[x] \in RealCubes
    BY <2>4, RealMeans DEF all, r
  <2>6. r \in Seq(ParsedCubes) /\ Len(r) <= CUBES * CUBES
    BY <2>4, RealFacts DEF r
  <2>7. r \in Seq(RealCubes) /\ Len(r) \in Nat
    BY <2>5, <2>6
  <2>8. /\ f = <<>> \/ \E j \in 0..Len(r) : Holds(f, r, j)
        /\ f = write_dimacs_dnf(conjunction) => Holds(f, r, Len(r))
    BY <2>3, <2>4, WrittenHolds DEF r
  <2>9. ASSUME NEW j \in 0..Len(r), Holds(f, r, j)
        PROVE  FileModels(f) \subseteq Intersection
    <3>1. FileModels(f) = UNION {Models(r[x]) : x \in 1..j}
      BY <2>7, <2>9, FileMeans
    <3>2. 1..j \subseteq 1..Len(r)
      BY <2>7
    <3> QED BY <2>5, <3>1, <3>2 DEF all
  <2>10. ASSUME Holds(f, r, Len(r))
         PROVE  Reader!WellFormed(f) /\ FileModels(f) = Intersection
    <3>1. FileModels(f) = all
      BY <2>7, <2>10, FileMeans DEF all
    <3>2. Reader!WellFormed(f)
      BY <2>6, <2>7, <2>10, WholeFileIsWellFormed
    <3> QED BY <2>5, <3>1, <3>2
  <2>11. FileModels(<<>>) \subseteq Intersection
    BY EmptyFileMeans
  <2> QED BY <2>8, <2>9, <2>10, <2>11
<1> QED BY AnswerInvariant, <1>1, PTL
=============================================================================
