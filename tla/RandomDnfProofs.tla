-------------------------- MODULE RandomDnfProofs --------------------------
(***************************************************************************)
(* The generator, for every number of variables and cubes, every cap and   *)
(* every outcome of its draws and shuffles: its repairs stay within the    *)
(* cap and do not undo each other, and it goes on until it is done.        *)
(***************************************************************************)
EXTENDS RandomDnf, FiniteSetTheorems, TLAPS

(***************************************************************************)
(* The caller's cap is clamped to a number of variables.                   *)
(***************************************************************************)
LEMMA CapType == Cap \in Nat
<1>1. VARS \in Nat
  BY VarsAssumption, FS_CardinalityType DEF VARS
<1> QED BY <1>1, OverlapAssumption DEF Cap, clamp

(***************************************************************************)
(* What repair_overlap counts is what the cap is about: the largest set of *)
(* variables that two cubes constrain alike.                               *)
(***************************************************************************)
LEMMA OverlapIsLargestShare ==
  ASSUME NEW a \in RealCubes, NEW b \in RealCubes
  PROVE  literal_overlap(a, b) <= Cap <=> WithinCap(a, b)
<1> DEFINE m == matches(a, b)
<1>1. m \in SUBSET Vars
  BY DEF matches, RealCubes, Cubes
<1>2. IsFiniteSet(m) /\ Cardinality(m) \in Nat
  BY <1>1, VarsAssumption, FS_Subset, FS_CardinalityType
<1>3. ASSUME literal_overlap(a, b) <= Cap PROVE WithinCap(a, b)
  <2> SUFFICES ASSUME NEW s \in SUBSET Vars, Share(a, b, s)
               PROVE  Cardinality(s) <= Cap
    BY DEF WithinCap
  <2>1. s \subseteq m
    BY DEF Share, matches
  <2>2. IsFiniteSet(s) /\ Cardinality(s) <= Cardinality(m)
    BY <1>2, <2>1, FS_Subset
  <2>3. Cardinality(s) \in Nat
    BY <2>2, FS_CardinalityType
  <2> QED BY <1>2, <1>3, <2>2, <2>3, CapType DEF literal_overlap
<1>4. ASSUME WithinCap(a, b) PROVE literal_overlap(a, b) <= Cap
  <2>1. Share(a, b, m)
    BY DEF Share, matches
  <2> QED BY <1>1, <1>4, <2>1 DEF WithinCap, literal_overlap
<1> QED BY <1>3, <1>4

(***************************************************************************)
(* Clearing literals leaves a real cube and no new match with any cube.    *)
(***************************************************************************)
LEMMA ClearingKeepsCap ==
  ASSUME NEW c \in RealCubes, NEW b \in RealCubes, NEW s \in SUBSET Vars
  PROVE  /\ Cleared(c, s) \in RealCubes
         /\ WithinCap(c, b) => WithinCap(Cleared(c, s), b)
<1>1. /\ Cleared(c, s).mask = c.mask \ s /\ Cleared(c, s).bits = c.bits \ s
      /\ Cleared(c, s).pad = c.pad
      /\ Cleared(c, s) \in RealCubes
  BY DEF Cleared, RealCubes, Cubes
<1>2. ASSUME NEW r, Share(Cleared(c, s), b, r) PROVE Share(c, b, r)
  BY <1>1, <1>2 DEF Share
<1> QED BY <1>1, <1>2 DEF WithinCap

(***************************************************************************)
(* Clearing the surplus of the matches brings the cube within the cap.     *)
(***************************************************************************)
LEMMA ClearingRepairs ==
  ASSUME NEW c \in RealCubes, NEW b \in RealCubes,
         NEW s \in SUBSET matches(c, b),
         Cardinality(s) = to_clear(literal_overlap(c, b))
  PROVE  WithinCap(Cleared(c, s), b)
<1> DEFINE m == matches(c, b)
<1>1. m \in SUBSET Vars /\ s \in SUBSET Vars
  BY DEF matches, RealCubes, Cubes
<1>2. IsFiniteSet(m) /\ IsFiniteSet(s) /\ Cardinality(m) \in Nat
  BY <1>1, VarsAssumption, FS_Subset, FS_CardinalityType
<1>3. Cardinality(m \ s) = Cardinality(m) - Cardinality(m \cap s)
  BY <1>2, FS_Difference
<1>4. m \cap s = s
  OBVIOUS
<1>5. Cardinality(m \ s) = Cap
  BY <1>2, <1>3, <1>4, CapType DEF to_clear, literal_overlap
<1>6. Cleared(c, s) \in RealCubes
  BY <1>1, ClearingKeepsCap
<1>7. matches(Cleared(c, s), b) = m \ s
  BY DEF matches, Cleared, RealCubes, Cubes
<1>8. literal_overlap(Cleared(c, s), b) <= Cap
  BY <1>5, <1>7, CapType DEF literal_overlap
<1> QED BY <1>6, <1>8, OverlapIsLargestShare
-----------------------------------------------------------------------------
(***************************************************************************)
(* Every cube drawn, stored or under repair is real; the indices stay      *)
(* within the arrays.                                                      *)
(***************************************************************************)
LEMMA CapacityAndZero == CUBES \in Nat /\ CUBES >= 1 /\ ZeroCube \in RealCubes
BY CubesAssumption DEF ZeroCube, RealCubes, Cubes

(***************************************************************************)
(* A drawn cube has no polarity outside its mask.                          *)
(***************************************************************************)
LEMMA DrawsAreReal == random_cube \subseteq RealCubes
<1> SUFFICES ASSUME NEW m \in SUBSET Vars, NEW p \in SUBSET Vars
             PROVE  [bits |-> p \cap m, mask |-> m, pad |-> FALSE] \in RealCubes
  BY DEF random_cube
<1> DEFINE c == [bits |-> p \cap m, mask |-> m, pad |-> FALSE]
<1>1. c \in Cubes
  BY DEF Cubes
<1>2. c.pad = FALSE /\ c.bits \subseteq c.mask
  OBVIOUS
<1> QED BY <1>1, <1>2 DEF RealCubes

(***************************************************************************)
(* The types hold at the start.                                            *)
(***************************************************************************)
LEMMA TypeInit == Init => TypeOK
<1> SUFFICES ASSUME Init PROVE TypeOK
  OBVIOUS
<1>1. alice \in [Inputs -> RealCubes] /\ bob \in [Inputs -> RealCubes]
  BY CapacityAndZero DEF Init
<1>2. i \in 0..CUBES /\ other \in 0..CUBES /\ passes \in 0..ManyPasses
  BY CapacityAndZero DEF Init, ManyPasses
<1>3. changed \in BOOLEAN
  BY DEF Init
<1> QED BY CapacityAndZero, <1>1, <1>2, <1>3 DEF Init, TypeOK

(***************************************************************************)
(* Every step of the generator keeps them.                                 *)
(***************************************************************************)
LEMMA TypeStep == TypeOK /\ [Next]_vars => TypeOK'
<1> SUFFICES ASSUME TypeOK, [Next]_vars PROVE TypeOK'
  OBVIOUS
<1> USE CapacityAndZero DEF TypeOK, ManyPasses
<1>1. CASE DrawAlice
  <2>1. PICK c \in random_cube : alice' = [alice EXCEPT ![i] = c]
    BY <1>1 DEF DrawAlice
  <2>2. c \in RealCubes
    BY DrawsAreReal
  <2>3. alice' \in [Inputs -> RealCubes]
    BY <2>1, <2>2
  <2>4. i' \in 0..CUBES
    BY <1>1 DEF DrawAlice
  <2> QED BY <1>1, <2>3, <2>4 DEF DrawAlice
<1>2. CASE BeginBob
  BY <1>2 DEF BeginBob
<1>3. CASE DrawBob
  <2>1. cand' \in RealCubes /\ i < CUBES
    BY <1>3, DrawsAreReal DEF DrawBob
  <2>2. other' \in 0..CUBES /\ passes' \in 0..ManyPasses
    BY <1>3 DEF DrawBob
  <2>3. changed' \in BOOLEAN
    BY <1>3 DEF DrawBob
  <2> QED BY <1>3, <2>1, <2>2, <2>3 DEF DrawBob
<1>4. CASE Keep
  BY <1>4 DEF Keep
<1>5. CASE Repair
  <2>1. PICK s \in SUBSET matches(cand, alice[other]) : cand' = Cleared(cand, s)
    BY <1>5 DEF Repair
  <2>2. other \in Inputs
    BY <1>5 DEF Repair, Inputs
  <2>3. s \in SUBSET Vars
    BY <2>1 DEF matches, RealCubes, Cubes
  <2>4. cand' \in RealCubes
    BY <2>1, <2>3, ClearingKeepsCap
  <2> QED BY <1>5, <2>4 DEF Repair
<1>6. CASE NextPass
  <2>1. other' \in 0..CUBES /\ passes' \in 0..ManyPasses
    BY <1>6 DEF NextPass
  <2>2. changed' \in BOOLEAN
    BY <1>6 DEF NextPass
  <2> QED BY <1>6, <2>1, <2>2 DEF NextPass
<1>7. CASE StoreBob
  <2>1. bob' \in [Inputs -> RealCubes]
    BY <1>7 DEF StoreBob
  <2>2. i' \in 0..CUBES
    BY <1>7 DEF StoreBob
  <2> QED BY <1>7, <2>1, <2>2 DEF StoreBob
<1>8. CASE Return
  BY <1>8 DEF Return
<1>9. CASE UNCHANGED vars
  BY <1>9 DEF vars
<1> QED BY <1>1, <1>2, <1>3, <1>4, <1>5, <1>6, <1>7, <1>8, <1>9
        DEF Next, Terminating

(***************************************************************************)
(* Every cube that the generator draws, repairs or returns is one that     *)
(* conjoin and random_assignment may be given.                             *)
(***************************************************************************)
THEOREM GeneratorTypeCorrect == Spec => []TypeOK
<1>1. Init => TypeOK
  BY TypeInit
<1>2. TypeOK /\ [Next]_vars => TypeOK'
  BY TypeStep
<1> QED BY <1>1, <1>2, PTL DEF Spec
-----------------------------------------------------------------------------
(***************************************************************************)
(* A candidate that a pass found within the cap everywhere is not touched  *)
(* by the next one: that makes the properties of the loop inductive.       *)
(***************************************************************************)
SecondPassFindsNothing ==
    pc = "repair" /\ passes = 2 =>
        \A k \in Inputs : WithinCap(cand, alice[k])

LoopInv ==
    /\ TypeOK
    /\ OverlapBounded
    /\ NeverReviolated
    /\ SecondPassConfirms
    /\ SecondPassFindsNothing

(***************************************************************************)
(* The invariant of the repair loop holds at the start.                    *)
(***************************************************************************)
LEMMA LoopInit == Init => LoopInv
BY TypeInit DEF Init, LoopInv, OverlapBounded, NeverReviolated,
                SecondPassConfirms, SecondPassFindsNothing

(***************************************************************************)
(* Every step keeps it.                                                    *)
(***************************************************************************)
LEMMA LoopStep == LoopInv /\ [Next]_vars => LoopInv'
<1> SUFFICES ASSUME LoopInv, [Next]_vars PROVE LoopInv'
  OBVIOUS
<1>a. TypeOK /\ TypeOK'
  BY TypeStep DEF LoopInv
<1> DEFINE Rest == OverlapBounded /\ NeverReviolated
                   /\ SecondPassConfirms /\ SecondPassFindsNothing
<1> SUFFICES Rest'
  BY <1>a DEF LoopInv
<1> USE DEF LoopInv, OverlapBounded, NeverReviolated, SecondPassConfirms,
            SecondPassFindsNothing
<1>1. CASE DrawAlice
  BY <1>1 DEF DrawAlice
<1>2. CASE BeginBob
  BY <1>2 DEF BeginBob, Inputs
<1>3. CASE DrawBob
  BY <1>3 DEF DrawBob, Inputs
<1>4. CASE Keep
  <2>1. /\ other \in Inputs
        /\ alice[other] \in RealCubes /\ cand \in RealCubes
    <3>1. other \in Inputs
      BY <1>4, <1>a, CapacityAndZero DEF Keep, TypeOK, Inputs
    <3> QED BY <3>1, <1>a DEF TypeOK
  <2>2. WithinCap(cand, alice[other])
    BY <1>4, <2>1, OverlapIsLargestShare DEF Keep
  <2>3. \A k \in Inputs : k < other + 1 => k < other \/ k = other
    BY <1>a DEF TypeOK, Inputs
  <2> QED BY <1>4, <2>2, <2>3 DEF Keep
<1>5. CASE Repair
  <2>1. /\ other \in Inputs
        /\ alice[other] \in RealCubes /\ cand \in RealCubes
    <3>1. other \in Inputs
      BY <1>5, <1>a, CapacityAndZero DEF Repair, TypeOK, Inputs
    <3> QED BY <3>1, <1>a DEF TypeOK
  <2>2. PICK s \in SUBSET matches(cand, alice[other]) :
               /\ Cardinality(s) = to_clear(literal_overlap(cand, alice[other]))
               /\ cand' = Cleared(cand, s)
    BY <1>5 DEF Repair
  <2>3. s \in SUBSET Vars
    BY <2>1 DEF matches, RealCubes, Cubes
  <2>4. WithinCap(cand', alice[other])
    BY <2>1, <2>2, ClearingRepairs
  <2>5. \A k \in Inputs : WithinCap(cand, alice[k]) => WithinCap(cand', alice[k])
    BY <2>1, <2>2, <2>3, <1>a, ClearingKeepsCap DEF TypeOK
  <2>6. \A k \in Inputs : k < other + 1 => k < other \/ k = other
    BY <1>a DEF TypeOK, Inputs
  <2>7. passes # 2
    <3>1. ~WithinCap(cand, alice[other])
      <4>1. literal_overlap(cand, alice[other]) > Cap
        BY <1>5 DEF Repair
      <4>2. ~(literal_overlap(cand, alice[other]) <= Cap)
        <5>1. matches(cand, alice[other]) \in SUBSET Vars
          BY <2>1 DEF matches, RealCubes, Cubes
        <5>2. literal_overlap(cand, alice[other]) \in Nat
          BY <5>1, VarsAssumption, FS_Subset, FS_CardinalityType
             DEF literal_overlap
        <5> QED BY <4>1, <5>2, CapType
      <4> QED BY <2>1, <4>2, OverlapIsLargestShare
    <3> QED BY <2>1, <3>1, <1>5 DEF Repair
  <2> QED BY <1>5, <2>4, <2>5, <2>6, <2>7 DEF Repair
<1>6. CASE NextPass
  <2>1. \A k \in Inputs : k < other
    BY <1>6, <1>a DEF NextPass, TypeOK, Inputs
  <2>2. passes = 1
    BY <1>6 DEF NextPass
  <2> QED BY <1>6, <2>1, <2>2 DEF NextPass, Inputs, ManyPasses
<1>7. CASE StoreBob
  <2>1. \A k \in Inputs : k < other
    BY <1>7, <1>a DEF StoreBob, TypeOK, Inputs
  <2>2. \A l \in Inputs : l < i + 1 => l < i \/ l = i
    BY <1>a DEF TypeOK, Inputs
  <2>3. i \in Inputs
    BY <1>a, <1>7 DEF StoreBob, TypeOK, Inputs
  <2>4. \A l \in Inputs : bob'[l] = IF l = i THEN cand ELSE bob[l]
    BY <1>a, <1>7 DEF StoreBob, TypeOK
  <2> QED BY <1>7, <2>1, <2>2, <2>4 DEF StoreBob
<1>8. CASE Return
  BY <1>8 DEF Return
<1>9. CASE UNCHANGED vars
  BY <1>9 DEF vars
<1> QED BY <1>1, <1>2, <1>3, <1>4, <1>5, <1>6, <1>7, <1>8, <1>9
        DEF Next, Terminating

(***************************************************************************)
(* So it holds throughout.                                                 *)
(***************************************************************************)
LEMMA LoopInvariant == Spec => []LoopInv
<1>1. Init => LoopInv
  BY LoopInit
<1>2. LoopInv /\ [Next]_vars => LoopInv'
  BY LoopStep
<1> QED BY <1>1, <1>2, PTL DEF Spec

(***************************************************************************)
(* No pair of cubes that is returned exceeds the caller's cap.             *)
(***************************************************************************)
THEOREM OverlapIsBounded == Spec => []OverlapBounded
<1>1. LoopInv => OverlapBounded
  BY DEF LoopInv
<1> QED BY <1>1, LoopInvariant, PTL

(***************************************************************************)
(* A repair never undoes an earlier one.                                   *)
(***************************************************************************)
THEOREM RepairsAreKept == Spec => []NeverReviolated
<1>1. LoopInv => NeverReviolated
  BY DEF LoopInv
<1> QED BY <1>1, LoopInvariant, PTL

(***************************************************************************)
(* Two passes over Alice's cubes are always enough.                        *)
(***************************************************************************)
THEOREM TwoPassesSuffice == Spec => []SecondPassConfirms
<1>1. LoopInv => SecondPassConfirms
  BY DEF LoopInv
<1> QED BY <1>1, LoopInvariant, PTL
-----------------------------------------------------------------------------
(***************************************************************************)
(* That the generator ends, but for the fairness: until it returns it can  *)
(* go on, and it goes on no more than so many times.                       *)
(*                                                                         *)
(* What a repair may clear, and the next state field by field.             *)
(***************************************************************************)
Cuts ==
    {s \in SUBSET matches(cand, alice[other]) :
        Cardinality(s) = to_clear(literal_overlap(cand, alice[other]))}

Becomes(at, a, b, n, c, k, found, count) ==
    /\ pc' = at /\ alice' = a /\ bob' = b /\ i' = n
    /\ cand' = c /\ other' = k /\ changed' = found /\ passes' = count

Over == literal_overlap(cand, alice[other]) > Cap
Within == literal_overlap(cand, alice[other]) <= Cap

(***************************************************************************)
(* The guards of the steps, the choices to be made included.               *)
(***************************************************************************)
GeneratorGoesOn ==
    \/ pc = "alice" /\ ((i < CUBES /\ random_cube # {}) \/ i = CUBES)
    \/ pc = "bob" /\ ((i < CUBES /\ random_cube # {}) \/ i = CUBES)
    \/ pc = "repair" /\ other < CUBES /\ (Within \/ (Over /\ Cuts # {}))
    \/ pc = "repair" /\ other = CUBES

(***************************************************************************)
(* Each action is its guard and an assignment to every variable, of values *)
(* that exist when the guard holds: nothing else keeps it from happening.  *)
(***************************************************************************)
LEMMA GuardedGeneration ==
  /\ DrawAlice <=> /\ pc = "alice" /\ i < CUBES
                   /\ \E c \in random_cube :
                         Becomes(pc, [alice EXCEPT ![i] = c], bob, i + 1,
                                 cand, other, changed, passes)
  /\ BeginBob <=> /\ pc = "alice" /\ i = CUBES
                  /\ Becomes("bob", alice, bob, 0, cand, other, changed, passes)
  /\ DrawBob <=> /\ pc = "bob" /\ i < CUBES
                 /\ \E c \in random_cube :
                       Becomes("repair", alice, bob, i, c, 0, FALSE, 1)
  /\ Keep <=> /\ pc = "repair" /\ other < CUBES /\ Within
              /\ Becomes(pc, alice, bob, i, cand, other + 1, changed, passes)
  /\ Repair <=> /\ pc = "repair" /\ other < CUBES /\ Over
                /\ \E s \in Cuts :
                      Becomes(pc, alice, bob, i, Cleared(cand, s), other + 1, TRUE, passes)
  /\ NextPass <=> /\ pc = "repair" /\ other = CUBES /\ changed
                  /\ Becomes(pc, alice, bob, i, cand, 0, FALSE,
                             IF passes = ManyPasses THEN passes ELSE passes + 1)
  /\ StoreBob <=> /\ pc = "repair" /\ other = CUBES /\ ~changed
                  /\ Becomes("bob", alice, [bob EXCEPT ![i] = cand], i + 1,
                             cand, other, changed, passes)
  /\ Return <=> /\ pc = "bob" /\ i = CUBES
                /\ Becomes("returned", alice, bob, i, cand, other, changed, passes)
<1> USE DEF Becomes
<1>1. DrawAlice <=> /\ pc = "alice" /\ i < CUBES
                    /\ \E c \in random_cube :
                          Becomes(pc, [alice EXCEPT ![i] = c], bob, i + 1,
                                  cand, other, changed, passes)
  BY DEF DrawAlice
<1>2. BeginBob <=> /\ pc = "alice" /\ i = CUBES
                   /\ Becomes("bob", alice, bob, 0, cand, other, changed, passes)
  BY DEF BeginBob
<1>3. DrawBob <=> /\ pc = "bob" /\ i < CUBES
                  /\ \E c \in random_cube :
                        Becomes("repair", alice, bob, i, c, 0, FALSE, 1)
  BY DEF DrawBob
<1>4. Keep <=> /\ pc = "repair" /\ other < CUBES /\ Within
               /\ Becomes(pc, alice, bob, i, cand, other + 1, changed, passes)
  BY DEF Keep, Within
<1>5. Repair <=> /\ pc = "repair" /\ other < CUBES /\ Over
                 /\ \E s \in Cuts :
                       Becomes(pc, alice, bob, i, Cleared(cand, s), other + 1, TRUE, passes)
  BY DEF Repair, Over, Cuts
<1>6. NextPass <=> /\ pc = "repair" /\ other = CUBES /\ changed
                   /\ Becomes(pc, alice, bob, i, cand, 0, FALSE,
                              IF passes = ManyPasses THEN passes ELSE passes + 1)
  BY DEF NextPass
<1>7. StoreBob <=> /\ pc = "repair" /\ other = CUBES /\ ~changed
                   /\ Becomes("bob", alice, [bob EXCEPT ![i] = cand], i + 1,
                              cand, other, changed, passes)
  BY DEF StoreBob
<1>8. Return <=> /\ pc = "bob" /\ i = CUBES
                 /\ Becomes("returned", alice, bob, i, cand, other, changed, passes)
  BY DEF Return
<1> QED BY <1>1, <1>2, <1>3, <1>4, <1>5, <1>6, <1>7, <1>8

(***************************************************************************)
(* A finite set has a subset of every size up to its own.                  *)
(***************************************************************************)
LEMMA SubsetOfSize ==
  ASSUME NEW S, IsFiniteSet(S), NEW n \in Nat, n <= Cardinality(S)
  PROVE  \E T \in SUBSET S : Cardinality(T) = n
<1> DEFINE N == Cardinality(S)
<1>1. N \in Nat /\ ExistsBijection(1..N, S)
  BY FS_CardinalityType
<1>2. PICK f : f \in Bijection(1..N, S)
  BY <1>1 DEF ExistsBijection
<1> DEFINE T == {f[m] : m \in 1..n}
           g == [m \in 1..n |-> f[m]]
<1>3. /\ f \in [1..N -> S] /\ 1..n \subseteq 1..N
      /\ \A a, b \in 1..N : f[a] = f[b] => a = b
  BY <1>1, <1>2 DEF Bijection, Injection, Surjection, IsInjective
<1>4. g \in Bijection(1..n, T)
  <2>1. g \in [1..n -> T] /\ \A t \in T : \E m \in 1..n : g[m] = t
    OBVIOUS
  <2>2. \A a, b \in 1..n : g[a] = g[b] => a = b
    BY <1>3
  <2> QED BY <2>1, <2>2 DEF Bijection, Injection, Surjection, IsInjective
<1>5. Cardinality(T) = n
  BY <1>4, FS_CountingElements DEF ExistsBijection
<1>6. T \in SUBSET S
  BY <1>3
<1> QED BY <1>5, <1>6

(***************************************************************************)
(* Until the pair is returned one of the guards holds: a cube can always   *)
(* be drawn, and there are always enough matches to clear.                 *)
(***************************************************************************)
LEMMA GenerationGoesOn == TypeOK => (pc # "returned" <=> GeneratorGoesOn)
<1> SUFFICES ASSUME TypeOK PROVE pc # "returned" <=> GeneratorGoesOn
  OBVIOUS
<1>1. random_cube # {}
  <2> DEFINE Drawn(m, p) == [bits |-> p \cap m, mask |-> m, pad |-> FALSE]
  <2>1. random_cube = {Drawn(m, p) : m \in SUBSET Vars, p \in SUBSET Vars}
    BY DEF random_cube
  <2> HIDE DEF Drawn
  <2>2. {} \in SUBSET Vars
    OBVIOUS
  <2>3. Drawn({}, {}) \in random_cube
    BY <2>1, <2>2
  <2> QED BY <2>3
<1>2. ASSUME pc = "repair", other < CUBES PROVE Within \/ (Over /\ Cuts # {})
  <2> DEFINE m == matches(cand, alice[other])
  <2>1. m \in SUBSET Vars
    <3>1. cand \in RealCubes
      BY DEF TypeOK
    <3> QED BY <3>1 DEF matches, RealCubes, Cubes
  <2>2. IsFiniteSet(m) /\ Cardinality(m) \in Nat
    BY <2>1, VarsAssumption, FS_Subset, FS_CardinalityType
  <2>3. literal_overlap(cand, alice[other]) = Cardinality(m)
    BY DEF literal_overlap
  <2> HIDE DEF m
  <2>4. CASE Cardinality(m) <= Cap
    <3>1. Within
      BY <2>3, <2>4 DEF Within
    <3> QED BY <3>1
  <2>5. CASE Cardinality(m) > Cap
    <3>1. to_clear(Cardinality(m)) \in Nat /\ to_clear(Cardinality(m)) <= Cardinality(m)
      BY <2>2, <2>5, CapType DEF to_clear
    <3>2. PICK s \in SUBSET m : Cardinality(s) = to_clear(Cardinality(m))
      BY <2>2, <3>1, SubsetOfSize
    <3> QED BY <2>3, <2>5, <3>2 DEF Over, Cuts, m
  <2> QED BY <2>2, <2>4, <2>5, CapType
<1>3. pc = "repair" => other < CUBES \/ other = CUBES
  BY CapacityAndZero DEF TypeOK
<1>4. i < CUBES \/ i = CUBES
  BY CapacityAndZero DEF TypeOK
<1> QED BY <1>1, <1>2, <1>3, <1>4 DEF TypeOK, GeneratorGoesOn

(***************************************************************************)
(* How far the generator has come: a step for each cube of Alice's, then   *)
(* for each of Bob's at most two passes over Alice's, the draw, and what   *)
(* it takes to store it.                                                   *)
(***************************************************************************)
PerCube == 2 * CUBES + 3
GenerationBound == CUBES + 2 + CUBES * PerCube
Generated ==
    IF pc = "alice" THEN i
    ELSE CUBES + 1 + i * PerCube
         + CASE pc = "bob" -> 0
             [] pc = "repair" -> 1 + (passes - 1) * (CUBES + 1) + other
             [] pc = "returned" -> 1

(***************************************************************************)
(* Every number of the measure is one, and the cubes of Bob's add up.      *)
(***************************************************************************)
LEMMA PerCubeFacts ==
  /\ PerCube \in Nat /\ GenerationBound \in Nat
  /\ \A n \in 0..CUBES : n * PerCube \in Nat /\ n * PerCube <= CUBES * PerCube
  /\ \A n \in 0 .. CUBES - 1 : (n + 1) * PerCube = n * PerCube + PerCube
<1>1. CUBES \in Nat /\ PerCube \in Nat
  BY CapacityAndZero DEF PerCube
<1>2. \A c, w, n \in Nat :
         /\ c * w \in Nat /\ n * w \in Nat
         /\ (n + 1) * w = n * w + w
         /\ n <= c => n * w <= c * w
  OBVIOUS
<1>3. \A n \in 0..CUBES : n \in Nat /\ n <= CUBES
  BY <1>1
<1>4. CUBES * PerCube \in Nat
  BY <1>1, <1>2
<1>5. \A n \in 0 .. CUBES - 1 : n \in Nat
  BY <1>1
<1> QED BY <1>1, <1>2, <1>3, <1>4, <1>5 DEF GenerationBound

(***************************************************************************)
(* At most two passes are made over a candidate, so the measure has a      *)
(* bound, and every step takes the generator closer to it.                 *)
(***************************************************************************)
LEMMA GeneratedType == LoopInv /\ (pc = "returned" => i = CUBES)
                          => Generated \in 0..GenerationBound
<1> SUFFICES ASSUME LoopInv, pc = "returned" => i = CUBES
             PROVE  Generated \in 0..GenerationBound
  OBVIOUS
<1>1. /\ CUBES \in Nat /\ i \in 0..CUBES /\ other \in 0..CUBES
      /\ pc \in {"alice", "bob", "repair", "returned"}
      /\ pc = "repair" => i \in 0 .. CUBES - 1 /\ passes \in {1, 2}
  BY CapacityAndZero DEF LoopInv, TypeOK, SecondPassConfirms
<1> DEFINE done == i * PerCube
           all == CUBES * PerCube
<1>2. /\ done \in Nat /\ all \in Nat /\ done <= all
      /\ pc = "repair" => done + PerCube <= all
  <2>1. done \in Nat /\ all \in Nat /\ done <= all
    BY <1>1, PerCubeFacts
  <2>2. ASSUME pc = "repair" PROVE done + PerCube <= all
    <3>1. i + 1 \in 0..CUBES /\ i \in 0 .. CUBES - 1
      BY <1>1, <2>2
    <3>2. (i + 1) * PerCube <= all /\ (i + 1) * PerCube = done + PerCube
      BY <3>1, PerCubeFacts
    <3> QED BY <3>2
  <2> QED BY <2>1, <2>2
<1>3. GenerationBound = CUBES + 2 + all /\ PerCube = 2 * CUBES + 3
  BY DEF GenerationBound, PerCube
<1> HIDE DEF done, all
<1>4. CASE pc = "alice"
  BY <1>1, <1>2, <1>3, <1>4 DEF Generated
<1>5. CASE pc = "bob"
  <2>1. Generated = CUBES + 1 + done + 0
    BY <1>5 DEF Generated, done
  <2> QED BY <1>1, <1>2, <1>3, <2>1
<1>6. CASE pc = "repair"
  <2>1. Generated = CUBES + 1 + done + (1 + (passes - 1) * (CUBES + 1) + other)
    BY <1>6 DEF Generated, done
  <2>2. CASE passes = 1
    <3>1. (passes - 1) * (CUBES + 1) = 0
      BY <1>1, <2>2
    <3> QED BY <1>1, <1>2, <1>3, <1>6, <2>1, <3>1
  <2>3. CASE passes = 2
    <3>1. (passes - 1) * (CUBES + 1) = CUBES + 1
      BY <1>1, <2>3
    <3> QED BY <1>1, <1>2, <1>3, <1>6, <2>1, <3>1
  <2> QED BY <1>1, <1>6, <2>2, <2>3
<1>7. CASE pc = "returned"
  <2>1. Generated = CUBES + 1 + done + 1
    BY <1>7 DEF Generated, done
  <2> QED BY <1>1, <1>2, <1>3, <2>1
<1> QED BY <1>1, <1>4, <1>5, <1>6, <1>7

(***************************************************************************)
(* Every step but the last one's repetition takes it further.              *)
(***************************************************************************)
LEMMA GenerationAdvances ==
  LoopInv /\ [Next]_vars => [Generated' > Generated]_vars
<1> SUFFICES ASSUME LoopInv, Next PROVE Generated' > Generated \/ UNCHANGED vars
  OBVIOUS
<1>1. /\ CUBES \in Nat /\ i \in 0..CUBES /\ other \in 0..CUBES /\ passes \in 0..ManyPasses
      /\ pc = "repair" => /\ i \in 0 .. CUBES - 1 /\ passes \in {1, 2}
                          /\ passes = 2 => ~changed
  BY CapacityAndZero DEF LoopInv, TypeOK, SecondPassConfirms
<1>2. i * PerCube \in Nat /\ 0 * PerCube = 0
  BY <1>1, PerCubeFacts
<1>3. CASE DrawAlice
  BY <1>1, <1>3 DEF DrawAlice, Generated
<1>4. CASE BeginBob
  BY <1>1, <1>2, <1>4 DEF BeginBob, Generated
<1>5. CASE DrawBob
  <2>1. /\ Generated = CUBES + 1 + i * PerCube + 0
        /\ Generated' = CUBES + 1 + i * PerCube + (1 + (1 - 1) * (CUBES + 1) + 0)
    BY <1>5 DEF DrawBob, Generated
  <2>2. (1 - 1) * (CUBES + 1) = 0
    BY <1>1
  <2> QED BY <1>1, <1>2, <2>1, <2>2
<1>6. CASE Keep \/ Repair
  <2>1. /\ Generated = CUBES + 1 + i * PerCube + (1 + (passes - 1) * (CUBES + 1) + other)
        /\ Generated' = CUBES + 1 + i * PerCube
                            + (1 + (passes - 1) * (CUBES + 1) + (other + 1))
    BY <1>6 DEF Keep, Repair, Generated
  <2>2. (passes - 1) * (CUBES + 1) \in Int
    BY <1>1 DEF ManyPasses
  <2> QED BY <1>1, <1>2, <2>1, <2>2
<1>7. CASE NextPass
  <2>1. passes = 1 /\ passes' = 2 /\ other' = 0 /\ other = CUBES
    BY <1>1, <1>7 DEF NextPass, ManyPasses
  <2>2. /\ Generated = CUBES + 1 + i * PerCube + (1 + (1 - 1) * (CUBES + 1) + CUBES)
        /\ Generated' = CUBES + 1 + i * PerCube + (1 + (2 - 1) * (CUBES + 1) + 0)
    BY <1>7, <2>1 DEF NextPass, Generated
  <2>3. (1 - 1) * (CUBES + 1) = 0 /\ (2 - 1) * (CUBES + 1) = CUBES + 1
    BY <1>1
  <2> QED BY <1>1, <1>2, <2>2, <2>3
<1>8. CASE StoreBob
  <2>1. /\ Generated = CUBES + 1 + i * PerCube + (1 + (passes - 1) * (CUBES + 1) + other)
        /\ Generated' = CUBES + 1 + (i + 1) * PerCube + 0
        /\ other = CUBES
    BY <1>8 DEF StoreBob, Generated
  <2>2. (i + 1) * PerCube = i * PerCube + PerCube /\ PerCube = 2 * CUBES + 3
    BY <1>1, <1>8, PerCubeFacts DEF StoreBob, PerCube
  <2>3. (passes - 1) * (CUBES + 1) \in {0, CUBES + 1}
    <3>1. passes = 1 \/ passes = 2
      BY <1>1, <1>8 DEF StoreBob
    <3>2. (1 - 1) * (CUBES + 1) = 0 /\ (2 - 1) * (CUBES + 1) = CUBES + 1
      BY <1>1
    <3> QED BY <3>1, <3>2
  <2>4. CASE (passes - 1) * (CUBES + 1) = 0
    BY <1>1, <1>2, <2>1, <2>2, <2>4
  <2>5. CASE (passes - 1) * (CUBES + 1) = CUBES + 1
    BY <1>1, <1>2, <2>1, <2>2, <2>5
  <2> QED BY <2>3, <2>4, <2>5
<1>9. CASE Return
  <2>1. /\ Generated = CUBES + 1 + i * PerCube + 0
        /\ Generated' = CUBES + 1 + i * PerCube + 1
    BY <1>9 DEF Return, Generated
  <2> QED BY <1>1, <1>2, <2>1
<1>10. CASE Terminating
  BY <1>10 DEF Terminating
<1> QED BY <1>3, <1>4, <1>5, <1>6, <1>7, <1>8, <1>9, <1>10 DEF Next

(***************************************************************************)
(* For every cap, every number of variables and of cubes, and whatever is  *)
(* drawn: the generator can go on until it has returned the pair, and each *)
(* step brings it closer to a number of steps that depends on the number   *)
(* of cubes alone.  GenerationEnds is this and the fairness of Spec.       *)
(***************************************************************************)
THEOREM GenerationIsBounded ==
  Spec => /\ [](pc # "returned" <=> GeneratorGoesOn)
          /\ [](Generated \in 0..GenerationBound)
          /\ [][Generated' > Generated]_vars
<1> DEFINE Ended == pc = "returned" => i = CUBES
<1>1. Init => Ended
  BY DEF Init
<1>2. Ended /\ [Next]_vars => Ended'
  BY DEF Next, DrawAlice, BeginBob, DrawBob, Keep, Repair, NextPass, StoreBob, Return,
         Terminating, vars
<1>3. LoopInv /\ Ended => Generated \in 0..GenerationBound
  BY GeneratedType
<1>4. LoopInv => (pc # "returned" <=> GeneratorGoesOn)
  BY GenerationGoesOn DEF LoopInv
<1> QED BY <1>1, <1>2, <1>3, <1>4, LoopInvariant, GenerationAdvances, PTL DEF Spec

(***************************************************************************)
(* What a benchmark gets: a pair without filler that the circuit and the   *)
(* ground truth may be given (DnfsAssumption, PairsAssumption), no two     *)
(* cubes of which share more literals than the caller allowed.             *)
(***************************************************************************)
THEOREM GeneratorDelivers ==
  Spec => [](pc = "returned" =>
                /\ alice \in ParsedDnfs /\ bob \in ParsedDnfs
                /\ \A k, l \in Inputs : /\ ~alice[k].pad /\ ~bob[l].pad
                                        /\ WithinCap(bob[l], alice[k]))
<1> DEFINE Ended == pc = "returned" => i = CUBES
<1>1. Init => Ended
  BY DEF Init
<1>2. Ended /\ [Next]_vars => Ended'
  BY DEF Next, DrawAlice, BeginBob, DrawBob, Keep, Repair, NextPass, StoreBob, Return,
         Terminating, vars
<1>3. \A d \in [Inputs -> RealCubes] :
         d \in ParsedDnfs /\ \A k \in Inputs : ~d[k].pad
  <2> SUFFICES ASSUME NEW d \in [Inputs -> RealCubes]
               PROVE  d \in ParsedDnfs /\ \A k \in Inputs : ~d[k].pad
    OBVIOUS
  <2>1. \A k \in Inputs : ~d[k].pad
    BY DEF RealCubes
  <2>2. CUBES \in 0..CUBES /\ \A k \in Inputs : ~(k >= CUBES)
    BY CapacityAndZero DEF Inputs
  <2>3. d \in [Inputs -> ParsedCubes]
    BY DEF ParsedCubes
  <2>4. \A k \in Inputs : d[k].pad <=> k >= CUBES
    BY <2>1, <2>2
  <2> QED BY <2>1, <2>2, <2>3, <2>4 DEF ParsedDnfs
<1>4. LoopInv /\ Ended =>
         (pc = "returned" =>
             /\ alice \in ParsedDnfs /\ bob \in ParsedDnfs
             /\ \A k, l \in Inputs : /\ ~alice[k].pad /\ ~bob[l].pad
                                     /\ WithinCap(bob[l], alice[k]))
  <2> SUFFICES ASSUME LoopInv, Ended, pc = "returned"
               PROVE  /\ alice \in ParsedDnfs /\ bob \in ParsedDnfs
                      /\ \A k, l \in Inputs : /\ ~alice[k].pad /\ ~bob[l].pad
                                              /\ WithinCap(bob[l], alice[k])
    OBVIOUS
  <2>1. /\ alice \in ParsedDnfs /\ bob \in ParsedDnfs
        /\ \A k \in Inputs : ~alice[k].pad /\ ~bob[k].pad
    BY <1>3 DEF LoopInv, TypeOK
  <2>2. \A l \in Inputs : l < i
    BY CapacityAndZero DEF Inputs
  <2>3. \A k, l \in Inputs : WithinCap(bob[l], alice[k])
    BY <2>2 DEF LoopInv, OverlapBounded
  <2> QED BY <2>1, <2>3
<1> QED BY <1>1, <1>2, <1>4, LoopInvariant, PTL DEF Spec
=============================================================================
