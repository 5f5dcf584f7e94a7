--------------------------- MODULE DnfCubesProofs ---------------------------
(***************************************************************************)
(* Induction and sequences; facts about words and their widths, for every  *)
(* width; and what the one-cube gadgets compute, for every set of          *)
(* variables: each gadget is related to Models, the meaning of a cube.     *)
(*                                                                         *)
(* None of the provers knows anything of exponentiation: 2^n is the number *)
(* of subsets of a set of n elements, and that is how the facts about it   *)
(* are obtained.                                                           *)
(***************************************************************************)
EXTENDS DnfCubes, SequencesExt, FiniteSetTheorems, WellFoundedInduction, TLAPS

(***************************************************************************)
(* Every nonempty set of naturals has a least element.                     *)
(***************************************************************************)
LEMMA LeastNatural ==
  ASSUME NEW T \in SUBSET Nat, T # {}
  PROVE  \E x \in T : \A y \in T : x <= y
<1>1. \E x \in T : \A y \in T : ~ (<<y, x>> \in OpToRel(<,Nat))
  BY WFMin, NatLessThanWellFounded
<1>2. PICK x \in T : \A y \in T : ~ (<<y, x>> \in OpToRel(<,Nat))
  BY <1>1
<1>3. ASSUME NEW y \in T PROVE x <= y
  <2>1. ~(<<y, x>> \in OpToRel(<,Nat))
    BY <1>2
  <2>2. ~(y < x)
    BY <2>1 DEF OpToRel
  <2> QED BY <2>2
<1> QED BY <1>3

(***************************************************************************)
(* Induction, stated with the set of the numbers that are good.            *)
(***************************************************************************)
LEMMA GoodNaturals ==
  ASSUME NEW G \in SUBSET Nat, 0 \in G, \A n \in G : n + 1 \in G
  PROVE  G = Nat
<1> DEFINE Bad == Nat \ G
<1>1. SUFFICES ASSUME Bad # {} PROVE FALSE
  OBVIOUS
<1>2. PICK n \in Bad : \A m \in Bad : n <= m
  BY <1>1, LeastNatural
<1>3. n - 1 \in Nat /\ n - 1 \notin Bad
  BY <1>2
<1> QED BY <1>2, <1>3

(***************************************************************************)
(* Induction on a finite set, with the set of its subsets that are good.   *)
(***************************************************************************)
LEMMA GoodSubsets ==
  ASSUME NEW S, IsFiniteSet(S), NEW G \in SUBSET SUBSET S,
         {} \in G,
         \A s \in SUBSET S : s # {} /\ (\A x \in s : s \ {x} \in G) => s \in G
  PROVE  G = SUBSET S
<1> DEFINE N == {n \in Nat : \A s \in SUBSET S : Cardinality(s) = n => s \in G}
<1>1. \A s \in SUBSET S : IsFiniteSet(s) /\ Cardinality(s) \in Nat
  BY FS_Subset, FS_CardinalityType
<1>2. 0 \in N
  BY <1>1, FS_EmptySet
<1>3. ASSUME NEW n \in N PROVE n + 1 \in N
  <2>1. SUFFICES ASSUME NEW s \in SUBSET S, Cardinality(s) = n + 1
                 PROVE  s \in G
    OBVIOUS
  <2>2. s # {}
    <3>1. n \in Nat
      OBVIOUS
    <3> HIDE DEF N
    <3> QED BY <1>1, <2>1, <3>1, FS_EmptySet
  <2>3. ASSUME NEW x \in s PROVE s \ {x} \in G
    <3>1. Cardinality(s \ {x}) = n
      BY <1>1, <2>1, FS_RemoveElement
    <3> QED BY <3>1
  <2> QED BY <2>2, <2>3
<1>4. N = Nat
  <2> HIDE DEF N
  <2>1. N \in SUBSET Nat
    BY DEF N
  <2> QED BY <1>2, <1>3, <2>1, GoodNaturals
<1> QED BY <1>1, <1>4

-----------------------------------------------------------------------------
(***************************************************************************)
(* The sequences q[1], ..., q[Len(q)] one after another: q[n] stands from  *)
(* position L[n - 1] + 1 to L[n].                                          *)
(***************************************************************************)
Laid(q, flat, L) ==
    /\ L \in [0..Len(q) -> Nat] /\ L[0] = 0 /\ L[Len(q)] = Len(flat)
    /\ \A n \in 1..Len(q) :
          /\ L[n] = L[n - 1] + Len(q[n]) /\ L[n] <= Len(flat)
          /\ \A m \in 1..Len(q[n]) : flat[L[n - 1] + m] = q[n][m]

Grown(q, g, n) == IF n = 1 THEN q[n] ELSE g[n - 1] \o q[n]
Flattens(q, N, g) == g = [n \in 1..N |-> Grown(q, g, n)]

(***************************************************************************)
(* What FlattenSeq chooses exists, by induction on the length.             *)
(***************************************************************************)
LEMMA FlattenExists ==
  ASSUME NEW T, NEW q \in Seq(Seq(T))
  PROVE  \E g \in [1..Len(q) -> Seq(T)] : Flattens(q, Len(q), g)
<1> DEFINE Ok(N) == \E g \in [1..N -> Seq(T)] : Flattens(q, N, g)
           G == {N \in Nat : N <= Len(q) => Ok(N)}
<1>1. 0 \in G
  <2> DEFINE g == [n \in 1..0 |-> <<>>]
  <2>1. g \in [1..0 -> Seq(T)] /\ Flattens(q, 0, g)
    BY DEF Flattens
  <2> QED BY <2>1
<1>2. ASSUME NEW N \in G PROVE N + 1 \in G
  <2>1. SUFFICES ASSUME N + 1 <= Len(q) PROVE Ok(N + 1)
    OBVIOUS
  <2>2. PICK g \in [1..N -> Seq(T)] : Flattens(q, N, g)
    BY <2>1
  <2>3. N \in Nat /\ \A n \in 1 .. N + 1 : q[n] \in Seq(T)
    BY <2>1
  <2> HIDE DEF G
  <2> DEFINE h == [n \in 1 .. N + 1 |-> Grown(q, g, n)]
  <2>4. \A n \in 1..N : g[n] = Grown(q, g, n)
    BY <2>2 DEF Flattens
  <2>5. \A n \in 1 .. N + 1 : h[n] = Grown(q, g, n)
    OBVIOUS
  <2>6. h \in [1 .. N + 1 -> Seq(T)]
    <3>1. \A n \in 1 .. N + 1 : Grown(q, g, n) \in Seq(T)
      <4>1. ASSUME NEW n \in 1 .. N + 1, n # 1 PROVE g[n - 1] \in Seq(T)
        BY <2>3, <4>1
      <4> QED BY <2>3, <4>1 DEF Grown
    <3> QED BY <3>1
  <2> HIDE DEF h
  <2>7. \A n \in 1..N : h[n] = g[n]
    BY <2>3, <2>4, <2>5
  <2>8. \A n \in 1 .. N + 1 : Grown(q, h, n) = Grown(q, g, n)
    <3>1. ASSUME NEW n \in 1 .. N + 1, n # 1 PROVE h[n - 1] = g[n - 1]
      BY <2>3, <2>7, <3>1
    <3> QED BY <3>1 DEF Grown
  <2>9. Flattens(q, N + 1, h)
    <3>1. h = [n \in 1 .. N + 1 |-> Grown(q, h, n)]
      BY <2>8 DEF h
    <3> QED BY <3>1 DEF Flattens
  <2> QED BY <2>6, <2>9
<1>3. G = Nat
  <2> HIDE DEF G
  <2>1. G \in SUBSET Nat
    BY DEF G
  <2> QED BY <1>1, <1>2, <2>1, GoodNaturals
<1>4. Len(q) \in Nat
  OBVIOUS
<1> QED BY <1>3, <1>4

(***************************************************************************)
(* FlattenSeq lays the sequences out.                                      *)
(***************************************************************************)
LEMMA FlattenFacts ==
  ASSUME NEW T, NEW q \in Seq(Seq(T))
  PROVE  FlattenSeq(q) \in Seq(T) /\ \E L : Laid(q, FlattenSeq(q), L)
<1> DEFINE N == Len(q)
           flat == FlattenSeq(q)
<1>1. N \in Nat /\ \A n \in 1..N : q[n] \in Seq(T)
  OBVIOUS
<1>2. CASE N = 0
  <2>1. flat = q /\ q = <<>>
    BY <1>2 DEF FlattenSeq
  <2> DEFINE L == [n \in 0..0 |-> 0]
  <2>2. Laid(<<>>, <<>>, L)
    BY DEF Laid
  <2>3. <<>> \in Seq(T)
    OBVIOUS
  <2> QED BY <2>1, <2>2, <2>3
<1>3. CASE N # 0
  <2> DEFINE g == CHOOSE g : Flattens(q, N, g)
  <2>1. flat = g[N]
    BY <1>3 DEF FlattenSeq, Flattens, Grown
  <2>2. Flattens(q, N, g)
    BY FlattenExists
  <2> HIDE DEF g
  <2>3. \A n \in 1..N : g[n] = Grown(q, g, n)
    BY <2>2 DEF Flattens
  <2>4. PICK h \in [1..N -> Seq(T)] : Flattens(q, N, h)
    BY FlattenExists
  <2>5. \A n \in 1..N : h[n] = Grown(q, h, n)
    BY <2>4 DEF Flattens
  <2>6. \A n \in 1..N : g[n] = h[n]
    <3> DEFINE G == {n \in Nat : n \in 1..N => g[n] = h[n]}
    <3>1. 0 \in G
      OBVIOUS
    <3>2. ASSUME NEW n \in G PROVE n + 1 \in G
      <4>1. SUFFICES ASSUME n + 1 \in 1..N PROVE g[n + 1] = h[n + 1]
        OBVIOUS
      <4>2. CASE n = 0
        <5>1. Grown(q, g, 1) = q[1] /\ Grown(q, h, 1) = q[1]
          BY DEF Grown
        <5> QED BY <2>3, <2>5, <4>1, <4>2, <5>1
      <4>3. CASE n # 0
        <5>1. n \in 1..N /\ (n + 1) - 1 = n /\ n + 1 # 1
          BY <4>1, <4>3
        <5>2. g[n] = h[n]
          BY <5>1
        <5>3. Grown(q, g, n + 1) = Grown(q, h, n + 1)
          BY <5>1, <5>2 DEF Grown
        <5> QED BY <2>3, <2>5, <4>1, <5>3
      <4> QED BY <4>2, <4>3
    <3>3. G = Nat
      <4> HIDE DEF G
      <4>1. G \in SUBSET Nat
        BY DEF G
      <4> QED BY <3>1, <3>2, <4>1, GoodNaturals
    <3>4. \A n \in 1..N : n \in Nat
      BY <1>1
    <3> HIDE DEF N
    <3> QED BY <3>3, <3>4
  <2> DEFINE L == [n \in 0..N |-> IF n = 0 THEN 0 ELSE Len(h[n])]
  <2>7. L \in [0..N -> Nat] /\ L[0] = 0 /\ \A n \in 1..N : L[n] = Len(h[n])
    BY <1>1
  <2>8. \A n \in 1..N :
          /\ L[n] = L[n - 1] + Len(q[n])
          /\ \A m \in 1..Len(q[n]) : h[n][L[n - 1] + m] = q[n][m]
    <3>1. ASSUME NEW n \in 1..N
          PROVE  /\ L[n] = L[n - 1] + Len(q[n])
                 /\ \A m \in 1..Len(q[n]) : h[n][L[n - 1] + m] = q[n][m]
      <4>1. q[n] \in Seq(T)
        BY <1>1
      <4>2. CASE n = 1
        <5>1. h[n] = q[n]
          BY <2>5, <4>2 DEF Grown
        <5>2. L[n] = Len(q[n]) /\ L[n - 1] = 0
          BY <1>1, <4>2, <5>1
        <5> HIDE DEF L
        <5> QED BY <4>1, <5>1, <5>2
      <4>3. CASE n # 1
        <5>1. n - 1 \in 1..N /\ L[n - 1] = Len(h[n - 1]) /\ L[n] = Len(h[n])
          BY <1>1, <4>3
        <5>2. h[n - 1] \in Seq(T) /\ h[n] = h[n - 1] \o q[n]
          BY <2>5, <4>3, <5>1 DEF Grown
        <5> HIDE DEF L
        <5>3. \A r, u \in Seq(T) : /\ Len(r \o u) = Len(r) + Len(u)
                                  /\ \A m \in 1..Len(u) : (r \o u)[Len(r) + m] = u[m]
          OBVIOUS
        <5> QED BY <4>1, <5>1, <5>2, <5>3
      <4> QED BY <4>2, <4>3
    <3> QED BY <3>1
  <2> HIDE DEF L
  <2>9. \A j \in 1..N : \A n \in 1..j :
          L[n] <= L[j] /\ \A x \in 1..L[n] : h[j][x] = h[n][x]
    <3> DEFINE Ok(j) == \A n \in 1..j :
                          L[n] <= L[j] /\ \A x \in 1..L[n] : h[j][x] = h[n][x]
               G == {j \in Nat : j \in 1..N => Ok(j)}
    <3>1. 0 \in G
      OBVIOUS
    <3>2. ASSUME NEW j \in G PROVE j + 1 \in G
      <4>1. SUFFICES ASSUME j + 1 \in 1..N, NEW n \in 1 .. j + 1
                     PROVE  /\ L[n] <= L[j + 1]
                            /\ \A x \in 1..L[n] : h[j + 1][x] = h[n][x]
        OBVIOUS
      <4>2. CASE n = j + 1
        BY <2>7, <4>1, <4>2
      <4>3. CASE n # j + 1
        <5>1. n \in 1..j /\ j \in 1..N /\ j + 1 # 1 /\ (j + 1) - 1 = j
          BY <4>1, <4>3
        <5>2. L[n] <= L[j] /\ \A x \in 1..L[n] : h[j][x] = h[n][x]
          BY <5>1
        <5>3. /\ h[j + 1] = h[j] \o q[j + 1] /\ h[j + 1] \in Seq(T)
              /\ h[j] \in Seq(T) /\ q[j + 1] \in Seq(T)
          BY <1>1, <2>5, <4>1, <5>1 DEF Grown
        <5>4. /\ L[j] = Len(h[j]) /\ L[j + 1] = Len(h[j + 1])
              /\ L[n] \in Nat
          BY <2>7, <4>1, <5>1
        <5> HIDE DEF G
        <5>5. L[j] <= L[j + 1] /\ \A x \in 1..L[j] : h[j + 1][x] = h[j][x]
          <6>1. \A r, u \in Seq(T) : /\ Len(r) \in Nat /\ Len(r) <= Len(r \o u)
                                    /\ \A x \in 1..Len(r) : (r \o u)[x] = r[x]
            OBVIOUS
          <6>2. /\ Len(h[j]) <= Len(h[j + 1])
                /\ \A x \in 1..Len(h[j]) : h[j + 1][x] = h[j][x]
            BY <5>3, <6>1
          <6> QED BY <5>4, <6>2
        <5>6. L[j] \in Nat /\ L[j + 1] \in Nat
          <6>1. h[j] \in Seq(T) /\ h[j + 1] \in Seq(T)
            BY <5>3
          <6>2. Len(h[j]) \in Nat /\ Len(h[j + 1]) \in Nat
            BY <6>1
          <6> QED BY <5>4, <6>2
        <5> QED BY <5>2, <5>4, <5>5, <5>6
      <4> QED BY <4>2, <4>3
    <3>3. G = Nat
      <4> HIDE DEF G
      <4>1. G \in SUBSET Nat
        BY DEF G
      <4> QED BY <3>1, <3>2, <4>1, GoodNaturals
    <3>4. ASSUME NEW j \in 1..N PROVE Ok(j)
      <4>1. j \in Nat
        BY <1>1
      <4> HIDE DEF Ok
      <4>2. j \in G
        BY <3>3, <4>1
      <4> QED BY <4>2
    <3> QED BY <3>4
  <2>10. N \in 1..N /\ flat = h[N] /\ L[N] = Len(flat) /\ flat \in Seq(T)
    <3>1. N \in 1..N
      BY <1>1, <1>3
    <3> QED BY <2>1, <2>4, <2>6, <2>7, <3>1
  <2> HIDE DEF flat
  <2>11. ASSUME NEW n \in 1..N
         PROVE  /\ L[n] <= Len(flat)
                /\ \A m \in 1..Len(q[n]) : flat[L[n - 1] + m] = q[n][m]
    <3>1. L[n] <= L[N] /\ \A x \in 1..L[n] : h[N][x] = h[n][x]
      BY <2>9, <2>10
    <3>2. /\ L[n] = L[n - 1] + Len(q[n]) /\ L[n - 1] \in Nat /\ Len(q[n]) \in Nat
          /\ \A m \in 1..Len(q[n]) : h[n][L[n - 1] + m] = q[n][m]
      <4>1. n - 1 \in 0..N
        BY <1>1
      <4> QED BY <1>1, <2>7, <2>8, <4>1
    <3>3. \A m \in 1..Len(q[n]) : L[n - 1] + m \in 1..L[n]
      BY <3>2
    <3> QED BY <2>10, <3>1, <3>2, <3>3
  <2>12. Laid(q, flat, L)
    BY <2>7, <2>8, <2>10, <2>11 DEF Laid
  <2> QED BY <2>10, <2>12 DEF flat
<1> QED BY <1>2, <1>3

(***************************************************************************)
(* The ends only grow.                                                     *)
(***************************************************************************)
LEMMA LaidGrows ==
  ASSUME NEW T, NEW q \in Seq(Seq(T)), NEW flat \in Seq(T), NEW L, Laid(q, flat, L)
  PROVE  \A i, j \in 0..Len(q) : i <= j => L[i] <= L[j]
<1> DEFINE N == Len(q)
           G == {j \in Nat : j \in 0..N => \A i \in 0..j : L[i] <= L[j]}
<1>1. N \in Nat /\ L \in [0..N -> Nat]
  BY DEF Laid
<1>2. \A n \in 1..N : L[n] = L[n - 1] + Len(q[n]) /\ Len(q[n]) \in Nat
  BY DEF Laid
<1>3. 0 \in G
  BY <1>1
<1>4. ASSUME NEW j \in G PROVE j + 1 \in G
  <2>1. SUFFICES ASSUME j + 1 \in 0..N, NEW i \in 0 .. j + 1 PROVE L[i] <= L[j + 1]
    OBVIOUS
  <2>2. j + 1 \in 1..N /\ (j + 1) - 1 = j /\ j \in 0..N
    BY <2>1
  <2>3. L[j] <= L[j + 1] /\ L[j] \in Nat /\ L[j + 1] \in Nat /\ L[i] \in Nat
    <3>1. L[j + 1] = L[j] + Len(q[j + 1]) /\ Len(q[j + 1]) \in Nat
      BY <1>2, <2>2
    <3>2. L[j] \in Nat /\ L[j + 1] \in Nat /\ L[i] \in Nat
      <4>1. i \in 0..N
        BY <1>1, <2>1
      <4> QED BY <1>1, <2>1, <2>2, <4>1
    <3> QED BY <3>1, <3>2
  <2>4. i # j + 1 => L[i] <= L[j]
    BY <2>1, <2>2
  <2> QED BY <2>3, <2>4
<1>5. G = Nat
  <2> HIDE DEF G
  <2>1. G \in SUBSET Nat
    BY DEF G
  <2> QED BY <1>3, <1>4, <2>1, GoodNaturals
<1> QED BY <1>1, <1>5

(***************************************************************************)
(* Every position lies in one of the sequences.                            *)
(***************************************************************************)
LEMMA LaidCovers ==
  ASSUME NEW T, NEW q \in Seq(Seq(T)), NEW flat \in Seq(T), NEW L, Laid(q, flat, L)
  PROVE  \A x \in 1..Len(flat) : \E n \in 1..Len(q) : L[n - 1] < x /\ x <= L[n]
<1> SUFFICES ASSUME NEW x \in 1..Len(flat)
             PROVE  \E n \in 1..Len(q) : L[n - 1] < x /\ x <= L[n]
  OBVIOUS
<1> DEFINE S == {n \in 0..Len(q) : x <= L[n]}
<1>1. Len(q) \in Nat /\ L \in [0..Len(q) -> Nat] /\ L[0] = 0 /\ L[Len(q)] = Len(flat)
  BY DEF Laid
<1>2. S \in SUBSET Nat /\ Len(q) \in S
  BY <1>1
<1> HIDE DEF S
<1>3. PICK n \in S : \A m \in S : n <= m
  BY <1>2, LeastNatural
<1>4. n \in 0..Len(q) /\ x <= L[n] /\ n # 0
  BY <1>1, <1>3 DEF S
<1>5. n \in 1..Len(q) /\ n - 1 \in 0..Len(q) /\ n - 1 \notin S
  BY <1>1, <1>3, <1>4
<1>6. L[n - 1] \in Nat /\ ~(x <= L[n - 1])
  BY <1>1, <1>5 DEF S
<1>7. L[n - 1] < x
  BY <1>6
<1> QED BY <1>4, <1>5, <1>7

(***************************************************************************)
(* When each of them is empty or a single element, the whole is a          *)
(* selection: where each element came from.                                *)
(***************************************************************************)
Selection(q, flat, at) ==
    /\ at \in [1..Len(flat) -> 1..Len(q)]
    /\ \A x \in 1..Len(flat) : q[at[x]] # <<>> /\ flat[x] = q[at[x]][1]
    /\ \A x, y \in 1..Len(flat) : x # y => at[x] # at[y]
    /\ \A n \in 1..Len(q) : q[n] # <<>> => \E x \in 1..Len(flat) : at[x] = n

(***************************************************************************)
(* Flattening sequences of at most one element each selects those that are *)
(* there, in order.                                                        *)
(***************************************************************************)
LEMMA SelectionFacts ==
  ASSUME NEW T, NEW q \in Seq(Seq(T)), \A n \in 1..Len(q) : Len(q[n]) <= 1
  PROVE  LET flat == FlattenSeq(q)
         IN  flat \in Seq(T) /\ Len(flat) <= Len(q) /\ \E at : Selection(q, flat, at)
<1> DEFINE flat == FlattenSeq(q)
           N == Len(q)
<1>1. flat \in Seq(T) /\ N \in Nat
  BY FlattenFacts
<1>2. PICK L : Laid(q, flat, L)
  BY FlattenFacts
<1> HIDE DEF flat
<1>3. /\ L \in [0..N -> Nat] /\ L[0] = 0 /\ L[N] = Len(flat) /\ Len(flat) \in Nat
      /\ \A i, j \in 0..N : i <= j => L[i] <= L[j]
      /\ \A x \in 1..Len(flat) : \E n \in 1..N : L[n - 1] < x /\ x <= L[n]
  <2>1. /\ L \in [0..N -> Nat] /\ L[0] = 0 /\ L[N] = Len(flat)
    BY <1>2 DEF Laid
  <2>2. \A i, j \in 0..N : i <= j => L[i] <= L[j]
    BY <1>1, <1>2, LaidGrows
  <2>3. \A x \in 1..Len(flat) : \E n \in 1..N : L[n - 1] < x /\ x <= L[n]
    BY <1>1, <1>2, LaidCovers
  <2> QED BY <1>1, <2>1, <2>2, <2>3
<1>4. ASSUME NEW n \in 1..N
      PROVE  /\ n \in 0..N /\ n - 1 \in 0..N /\ L[n] \in Nat /\ L[n - 1] \in Nat
             /\ L[n] = L[n - 1] + Len(q[n]) /\ L[n] <= Len(flat) /\ q[n] \in Seq(T)
             /\ Len(q[n]) = IF q[n] = <<>> THEN 0 ELSE 1
             /\ \A m \in 1..Len(q[n]) : flat[L[n - 1] + m] = q[n][m]
  <2>1. q[n] \in Seq(T) /\ Len(q[n]) \in Nat /\ Len(q[n]) <= 1
    OBVIOUS
  <2>2. Len(q[n]) = IF q[n] = <<>> THEN 0 ELSE 1
    <3>1. q[n] # <<>> => Len(q[n]) # 0
      BY <2>1
    <3> QED BY <2>1, <3>1
  <2>3. n \in 0..N /\ n - 1 \in 0..N
    BY <1>1
  <2> QED BY <1>2, <1>3, <2>1, <2>2, <2>3 DEF Laid
<1>5. Len(flat) <= N
  <2> DEFINE G == {n \in Nat : n \in 0..N => L[n] <= n}
  <2>1. 0 \in G
    BY <1>3
  <2>2. ASSUME NEW n \in G PROVE n + 1 \in G
    <3>1. SUFFICES ASSUME n + 1 \in 0..N PROVE L[n + 1] <= n + 1
      OBVIOUS
    <3>2. n + 1 \in 1..N /\ (n + 1) - 1 = n /\ L[n] <= n
      BY <1>1, <3>1
    <3> HIDE DEF G
    <3>3. /\ L[n + 1] = L[n] + Len(q[n + 1]) /\ Len(q[n + 1]) \in {0, 1}
          /\ L[n] \in Nat
      BY <1>4, <3>2
    <3> QED BY <3>2, <3>3
  <2>3. G = Nat
    <3> HIDE DEF G
    <3>1. G \in SUBSET Nat
      BY DEF G
    <3> QED BY <2>1, <2>2, <3>1, GoodNaturals
  <2> QED BY <1>1, <1>3, <2>3
<1> DEFINE at == [x \in 1..Len(flat) |->
                    CHOOSE n \in 1..N : L[n - 1] < x /\ x <= L[n]]
<1>6. \A x \in 1..Len(flat) : at[x] \in 1..N /\ L[at[x] - 1] < x /\ x <= L[at[x]]
  BY <1>3
<1>7. at \in [1..Len(flat) -> 1..N]
  <2>1. at = [x \in 1..Len(flat) |-> at[x]]
    OBVIOUS
  <2> HIDE DEF at
  <2> QED BY <1>6, <2>1
<1> HIDE DEF at
<1>8. ASSUME NEW x \in 1..Len(flat)
      PROVE  q[at[x]] # <<>> /\ Len(q[at[x]]) = 1 /\ x = L[at[x] - 1] + 1
             /\ x = L[at[x]] /\ flat[x] = q[at[x]][1]
  <2>1. at[x] \in 1..N /\ L[at[x] - 1] < x /\ x <= L[at[x]]
    BY <1>6
  <2>2. /\ L[at[x]] \in Nat /\ L[at[x] - 1] \in Nat
        /\ L[at[x]] = L[at[x] - 1] + Len(q[at[x]])
        /\ Len(q[at[x]]) = IF q[at[x]] = <<>> THEN 0 ELSE 1
        /\ \A m \in 1..Len(q[at[x]]) : flat[L[at[x] - 1] + m] = q[at[x]][m]
    BY <1>4, <2>1
  <2>3. q[at[x]] # <<>> /\ Len(q[at[x]]) = 1
    BY <2>1, <2>2
  <2>4. x = L[at[x] - 1] + 1 /\ x = L[at[x]]
    BY <2>1, <2>2, <2>3
  <2> QED BY <2>2, <2>3, <2>4
<1>9. ASSUME NEW n \in 1..N, q[n] # <<>>
      PROVE  \E x \in 1..Len(flat) : at[x] = n
  <2> DEFINE x == L[n]
  <2>1. x = L[n - 1] + 1 /\ x \in 1..Len(flat)
    <3>1. L[n - 1] \in Nat /\ L[n] = L[n - 1] + 1 /\ L[n] <= Len(flat)
      BY <1>4, <1>9
    <3> QED BY <1>3, <3>1
  <2>2. at[x] \in 1..N /\ L[at[x] - 1] < x /\ x <= L[at[x]]
    BY <1>6, <2>1
  <2>3. ~(at[x] < n)
    <3>1. SUFFICES ASSUME at[x] < n PROVE FALSE
      OBVIOUS
    <3>2. at[x] \in 0..N /\ n - 1 \in 0..N /\ at[x] <= n - 1
      BY <1>1, <2>2, <3>1
    <3>3. L[at[x]] <= L[n - 1] /\ L[at[x]] \in Nat /\ L[n - 1] \in Nat
      BY <1>3, <3>2
    <3> QED BY <2>1, <2>2, <3>3
  <2>4. ~(at[x] > n)
    <3>1. SUFFICES ASSUME at[x] > n PROVE FALSE
      OBVIOUS
    <3>2. at[x] - 1 \in 0..N /\ n \in 0..N /\ n <= at[x] - 1
      BY <1>1, <2>2, <3>1
    <3>3. L[n] <= L[at[x] - 1] /\ L[n] \in Nat /\ L[at[x] - 1] \in Nat
      BY <1>3, <3>2
    <3> QED BY <2>1, <2>2, <3>3
  <2>5. at[x] = n
    <3> HIDE DEF x
    <3> QED BY <2>2, <2>3, <2>4
  <2> QED BY <2>1, <2>5
<1>10. \A x, y \in 1..Len(flat) : x # y => at[x] # at[y]
  BY <1>8
<1>11. Selection(q, flat, at)
  BY <1>7, <1>8, <1>9, <1>10 DEF Selection
<1> QED BY <1>1, <1>5, <1>11 DEF flat

(***************************************************************************)
(* The zeros among the first p of a stream.                                *)
(***************************************************************************)
Zeros(s, p) == Cardinality({m \in 1..p : s[m] = 0})

(***************************************************************************)
(* They are counted one position after the other.                          *)
(***************************************************************************)
LEMMA ZerosFacts ==
  ASSUME NEW s
  PROVE  /\ Zeros(s, 0) = 0
         /\ \A p \in Nat : /\ Zeros(s, p) \in Nat
                           /\ Zeros(s, p + 1)
                                = IF s[p + 1] = 0 THEN Zeros(s, p) + 1 ELSE Zeros(s, p)
         /\ \A p, q \in Nat : p <= q => Zeros(s, p) <= Zeros(s, q)
<1> DEFINE Z(p) == {m \in 1..p : s[m] = 0}
<1>1. \A p \in Nat : IsFiniteSet(Z(p))
  <2>1. ASSUME NEW p \in Nat PROVE IsFiniteSet(Z(p))
    <3>1. IsFiniteSet(1..p)
      <4>1. 1 \in Int /\ p \in Int
        OBVIOUS
      <4> QED BY <4>1, FS_Interval
    <3> QED BY <3>1, FS_Subset
  <2> QED BY <2>1
<1>2. Zeros(s, 0) = 0
  <2>1. Z(0) = {}
    OBVIOUS
  <2> QED BY <2>1, FS_EmptySet DEF Zeros
<1>3. ASSUME NEW p \in Nat
      PROVE  /\ Zeros(s, p) \in Nat
             /\ Zeros(s, p + 1) = IF s[p + 1] = 0 THEN Zeros(s, p) + 1 ELSE Zeros(s, p)
  <2>1. Cardinality(Z(p)) \in Nat
    BY <1>1, FS_CardinalityType
  <2>2. CASE s[p + 1] = 0
    <3>1. Z(p + 1) = Z(p) \cup {p + 1} /\ p + 1 \notin Z(p)
      BY <2>2
    <3> HIDE DEF Z
    <3>2. Cardinality(Z(p + 1)) = Cardinality(Z(p)) + 1
      BY <1>1, <3>1, FS_AddElement
    <3> QED BY <2>1, <2>2, <3>2 DEF Zeros, Z
  <2>3. CASE s[p + 1] # 0
    <3>1. Z(p + 1) = Z(p)
      BY <2>3
    <3> QED BY <2>1, <2>3, <3>1 DEF Zeros
  <2> QED BY <2>2, <2>3
<1>4. ASSUME NEW p \in Nat, NEW q \in Nat, p <= q PROVE Zeros(s, p) <= Zeros(s, q)
  <2>1. Z(p) \in SUBSET Z(q)
    BY <1>4
  <2> HIDE DEF Z
  <2>2. Cardinality(Z(p)) <= Cardinality(Z(q))
    BY <1>1, <2>1, FS_Subset
  <2> QED BY <2>2 DEF Zeros, Z
<1> QED BY <1>2, <1>3, <1>4
-----------------------------------------------------------------------------
(***************************************************************************)
(* 2^n is a natural number above n.                                        *)
(***************************************************************************)
LEMMA PowerType ==
  ASSUME NEW n \in Nat
  PROVE  2^n \in Nat /\ n < 2^n
<1> DEFINE S == 1..n
<1>1. IsFiniteSet(S) /\ Cardinality(S) = n
  BY FS_Interval
<1>2. IsFiniteSet(SUBSET S) /\ Cardinality(SUBSET S) = 2^n
  BY <1>1, FS_SUBSET
<1>3. 2^n \in Nat
  BY <1>2, FS_CardinalityType
<1> DEFINE I == 0..n
<1> DEFINE f == [i \in I |-> IF i = 0 THEN {} ELSE {i}]
<1>4. f \in Injection(I, SUBSET S)
  <2>1. f \in [I -> SUBSET S]
    OBVIOUS
  <2>2. ASSUME NEW a \in I, NEW b \in I, f[a] = f[b] PROVE a = b
    BY <2>2
  <2> QED BY <2>1, <2>2 DEF Injection, IsInjective
<1>5. Cardinality(I) = n + 1
  BY FS_Interval
<1>6. Cardinality(I) <= Cardinality(SUBSET S)
  BY <1>2, <1>4, FS_Injection
<1> QED BY <1>2, <1>3, <1>5, <1>6

(***************************************************************************)
(* A word of a + b bits is a word of a bits beside one of b bits.          *)
(***************************************************************************)
LEMMA PowerSum ==
  ASSUME NEW a \in Nat, NEW b \in Nat
  PROVE  2^(a + b) = 2^a * 2^b
<1> DEFINE A == 1..a
<1> DEFINE B == (a+1)..(a+b)
<1> DEFINE C == 1..(a+b)
<1>1. /\ IsFiniteSet(A) /\ Cardinality(A) = a
      /\ IsFiniteSet(B) /\ Cardinality(B) = b
      /\ IsFiniteSet(C) /\ Cardinality(C) = a + b
  <2>1. IsFiniteSet(A) /\ Cardinality(A) = a
    BY FS_Interval
  <2>2. IsFiniteSet(B) /\ Cardinality(B) = b
    <3>1. a + 1 \in Int /\ a + b \in Int
      OBVIOUS
    <3>2. /\ IsFiniteSet((a+1)..(a+b))
          /\ Cardinality((a+1)..(a+b)) =
                IF a + 1 > a + b THEN 0 ELSE (a + b) - (a + 1) + 1
      BY <3>1, FS_Interval
    <3> QED BY <3>2
  <2>3. IsFiniteSet(C) /\ Cardinality(C) = a + b
    <3>1. 1 \in Int /\ a + b \in Nat
      OBVIOUS
    <3>2. /\ IsFiniteSet(1..(a+b))
          /\ Cardinality(1..(a+b)) = IF 1 > a + b THEN 0 ELSE (a + b) - 1 + 1
      BY <3>1, FS_Interval
    <3> QED BY <3>1, <3>2
  <2> QED BY <2>1, <2>2, <2>3
<1>2. /\ IsFiniteSet(SUBSET A) /\ Cardinality(SUBSET A) = 2^a
      /\ IsFiniteSet(SUBSET B) /\ Cardinality(SUBSET B) = 2^b
      /\ IsFiniteSet(SUBSET C) /\ Cardinality(SUBSET C) = 2^(a + b)
  BY <1>1, FS_SUBSET
<1> DEFINE P == (SUBSET A) \X (SUBSET B)
<1>3. IsFiniteSet(P) /\ Cardinality(P) = 2^a * 2^b
  <2>1. Cardinality((SUBSET A) \X (SUBSET B))
           = Cardinality(SUBSET A) * Cardinality(SUBSET B)
    BY <1>2, FS_Product
  <2>2. IsFiniteSet((SUBSET A) \X (SUBSET B))
    BY <1>2, FS_Product
  <2> QED BY <1>2, <2>1, <2>2
<1> DEFINE f == [p \in P |-> p[1] \cup p[2]]
<1>4. f \in Bijection(P, SUBSET C)
  <2>1. f \in [P -> SUBSET C]
    OBVIOUS
  <2>2. ASSUME NEW p \in P, NEW q \in P, f[p] = f[q] PROVE p = q
    <3>1. p[1] = f[p] \cap A /\ q[1] = f[q] \cap A
      OBVIOUS
    <3>2. p[2] = f[p] \cap B /\ q[2] = f[q] \cap B
      OBVIOUS
    <3> QED BY <2>2, <3>1, <3>2
  <2>3. ASSUME NEW s \in SUBSET C PROVE \E p \in P : f[p] = s
    <3>1. <<s \cap A, s \cap B>> \in P
      OBVIOUS
    <3>2. (s \cap A) \cup (s \cap B) = s
      <4>1. C = A \cup B
        OBVIOUS
      <4> HIDE DEF A, B, C
      <4> QED BY <4>1
    <3>3. f[<<s \cap A, s \cap B>>] = s
      BY <3>1, <3>2
    <3> QED BY <3>1, <3>3
  <2> QED BY <2>1, <2>2, <2>3 DEF Bijection, Injection, Surjection, IsInjective
<1>5. ExistsBijection(P, SUBSET C)
  BY <1>4 DEF ExistsBijection
<1>6. Cardinality(SUBSET C) = Cardinality(P)
  BY <1>3, <1>5, FS_Bijection
<1> QED BY <1>2, <1>3, <1>6

(***************************************************************************)
(* n fits in a word of bits_for(n) bits, and in none that is narrower.     *)
(***************************************************************************)
LEMMA BitsForLeast ==
  ASSUME NEW n \in Nat
  PROVE  /\ bits_for(n) \in Nat /\ n < 2^bits_for(n)
         /\ \A v \in 0 .. bits_for(n) - 1 : 2^v <= n
<1> DEFINE T == {w \in 0..n : n < 2^w}
<1>1. T \in SUBSET Nat /\ n \in T
  BY PowerType
<1>2. PICK x \in T : \A y \in T : x <= y
  BY <1>1, LeastNatural
<1>3. ASSUME NEW v \in 0 .. x - 1 PROVE 2^v <= n
  <2>1. v \in 0..n /\ 2^v \in Nat
    BY <1>1, PowerType
  <2>2. ~(n < 2^v)
    BY <1>2, <2>1
  <2> QED BY <2>1, <2>2
<1> DEFINE Q(w) == n < 2^w /\ \A v \in 0 .. w - 1 : 2^v <= n
<1>4. \E w \in 0..n : Q(w)
  BY <1>2, <1>3
<1>5. bits_for(n) = CHOOSE w \in 0..n : Q(w)
  BY DEF bits_for
<1>6. bits_for(n) \in 0..n /\ Q(bits_for(n))
  <2> HIDE DEF Q
  <2> QED BY <1>4, <1>5
<1> QED BY <1>6

(***************************************************************************)
(* bits_for(n) bits hold n.                                                *)
(***************************************************************************)
LEMMA BitsForFits ==
  ASSUME NEW n \in Nat
  PROVE  bits_for(n) \in Nat /\ n < 2^bits_for(n)
BY BitsForLeast

(***************************************************************************)
(* What fits in k bits has a width of at most k.                           *)
(***************************************************************************)
LEMMA BitsForBound ==
  ASSUME NEW n \in Nat, NEW k \in Nat, n < 2^k
  PROVE  bits_for(n) <= k
<1>1. SUFFICES ASSUME k < bits_for(n) PROVE FALSE
  BY BitsForLeast
<1>2. bits_for(n) \in Nat
  BY BitsForLeast
<1>3. k \in 0 .. bits_for(n) - 1
  BY <1>1, <1>2
<1>4. 2^k <= n
  BY <1>3, BitsForLeast
<1> QED BY <1>4, PowerType

(***************************************************************************)
(* A value within the width of its word is kept by the word.               *)
(***************************************************************************)
LEMMA WrapFits ==
  ASSUME NEW w \in Nat, NEW x \in Nat, x < 2^w
  PROVE  Wrap(w, x) = x
BY PowerType DEF Wrap

(***************************************************************************)
(* A word of w bits is less than 2^w.                                      *)
(***************************************************************************)
LEMMA WrapType ==
  ASSUME NEW w \in Nat, NEW x \in Int
  PROVE  Wrap(w, x) \in 0 .. 2^w - 1
BY PowerType DEF Wrap

(***************************************************************************)
(* A wider word holds at least as much.                                    *)
(***************************************************************************)
LEMMA PowerMonotone ==
  ASSUME NEW a \in Nat, NEW b \in Nat, a <= b
  PROVE  2^a <= 2^b
<1>1. b - a \in Nat /\ b = a + (b - a)
  OBVIOUS
<1>2. 2^b = 2^a * 2^(b - a)
  BY <1>1, PowerSum
<1>3. 2^a \in Nat /\ 2^(b - a) \in Nat /\ 2^(b - a) >= 1
  BY <1>1, PowerType
<1>4. \A p, q \in Nat : q >= 1 => p <= p * q
  OBVIOUS
<1> QED BY <1>2, <1>3, <1>4

(***************************************************************************)
(* The sum of n terms of at most 2^a each fits in a + bits_for(n) bits:    *)
(* the sizing rule of DnfWeight and of the estimators' sums.               *)
(***************************************************************************)
LEMMA SumFits ==
  ASSUME NEW n \in Nat, NEW a \in Nat
  PROVE  /\ a + bits_for(n) \in Nat
         /\ n * 2^a < 2^(a + bits_for(n))
<1>1. bits_for(n) \in Nat /\ n < 2^bits_for(n)
  BY BitsForFits
<1>2. 2^(a + bits_for(n)) = 2^a * 2^bits_for(n)
  BY <1>1, PowerSum
<1>3. 2^a \in Nat /\ 2^a >= 1 /\ 2^bits_for(n) \in Nat
  BY <1>1, PowerType
<1>4. \A p, q \in Nat : p >= 1 /\ n < q => n * p < p * q
  OBVIOUS
<1> QED BY <1>1, <1>2, <1>3, <1>4
-----------------------------------------------------------------------------
(***************************************************************************)
(* Conjunction stays within the cubes that parse delivers: the bits of a   *)
(* real cube lie in its mask, and padding is the one filler cube.          *)
(***************************************************************************)
LEMMA ConjoinType ==
  ASSUME NEW a \in ParsedCubes, NEW b \in ParsedCubes
  PROVE  conjoin(a, b) \in ParsedCubes
BY DEF conjoin, ParsedCubes, RealCubes, PadCube, Cubes

(***************************************************************************)
(* conjoin is conjunction; a contradiction becomes padding, which has no   *)
(* model.                                                                  *)
(***************************************************************************)
LEMMA ConjoinModels ==
  ASSUME NEW a \in ParsedCubes, NEW b \in ParsedCubes
  PROVE  Models(conjoin(a, b)) = Models(a) \cap Models(b)
<1>1. ASSUME a.pad \/ b.pad
      PROVE  Models(conjoin(a, b)) = Models(a) \cap Models(b)
  BY <1>1 DEF conjoin, Models, PadCube
<1>2. ASSUME ~a.pad, ~b.pad, Disagreement(a, b) # {}
      PROVE  Models(conjoin(a, b)) = Models(a) \cap Models(b)
  <2>1. Models(conjoin(a, b)) = {}
    BY <1>2 DEF conjoin, Models, PadCube
  <2>2. PICK v \in a.mask \cap b.mask : (v \in a.bits) # (v \in b.bits)
    BY <1>2 DEF Disagreement
  <2>3. ASSUME NEW m \in Models(a) \cap Models(b) PROVE FALSE
    <3>1. v \in m <=> v \in a.bits
      BY <2>2, <2>3 DEF Models
    <3>2. v \in m <=> v \in b.bits
      BY <2>2, <2>3 DEF Models
    <3> QED BY <2>2, <3>1, <3>2
  <2> QED BY <2>1, <2>3
<1>3. ASSUME ~a.pad, ~b.pad, Disagreement(a, b) = {}
      PROVE  Models(conjoin(a, b)) = Models(a) \cap Models(b)
  <2> DEFINE c == conjoin(a, b)
  <2>1. /\ ~c.pad
        /\ c.mask = a.mask \cup b.mask
        /\ c.bits = (a.bits \cap a.mask) \cup (b.bits \ a.mask)
    BY <1>3 DEF conjoin
  <2>2. a.bits \subseteq a.mask /\ b.bits \subseteq b.mask
    BY <1>3 DEF ParsedCubes, RealCubes, PadCube
  <2>3. \A v \in a.mask \cap b.mask : v \in a.bits <=> v \in b.bits
    BY <1>3 DEF Disagreement
  <2>4. \A v \in a.mask : v \in c.bits <=> v \in a.bits
    BY <2>1
  <2>5. \A v \in b.mask : v \in c.bits <=> v \in b.bits
    BY <2>1, <2>2, <2>3
  <2> HIDE DEF c
  <2>6. ASSUME NEW m \in Assignments
        PROVE  (\A v \in c.mask : v \in m <=> v \in c.bits) <=>
                  /\ \A v \in a.mask : v \in m <=> v \in a.bits
                  /\ \A v \in b.mask : v \in m <=> v \in b.bits
    BY <2>1, <2>4, <2>5
  <2>7. Models(c) = Models(a) \cap Models(b)
    BY <1>3, <2>1, <2>6 DEF Models
  <2> QED BY <2>7 DEF c
<1> QED BY <1>1, <1>2, <1>3

(***************************************************************************)
(* The estimators' check decides whether an assignment is a model, filler  *)
(* included, because there is at least one variable.                       *)
(***************************************************************************)
LEMMA SatisfiedIsModel ==
  ASSUME NEW c \in ParsedCubes, NEW a \in Assignments
  PROVE  satisfied(a, c) <=> a \in Models(c)
<1>1. CASE c = PadCube
  BY <1>1, VarsAssumption DEF satisfied, Models, PadCube
<1>2. CASE c \in RealCubes
  <2>1. ~c.pad /\ c.bits \subseteq c.mask
    BY <1>2 DEF RealCubes
  <2>2. satisfied(a, c) <=> \A v \in c.mask : v \in a <=> v \in c.bits
    BY <2>1 DEF satisfied
  <2> QED BY <2>1, <2>2 DEF Models
<1> QED BY <1>1, <1>2 DEF ParsedCubes

(***************************************************************************)
(* A trial's assignment is a model of the selected cube, whatever the      *)
(* random bits.                                                            *)
(***************************************************************************)
LEMMA RandomAssignmentIsModel ==
  ASSUME NEW c \in RealCubes, NEW r \in SUBSET Vars
  PROVE  random_assignment([bits |-> c.bits, mask |-> c.mask], r) \in Models(c)
<1>1. /\ ~c.pad /\ c.bits \subseteq c.mask
      /\ c.bits \subseteq Vars
  BY DEF RealCubes, Cubes
<1> QED BY <1>1 DEF random_assignment, Models, Assignments

(***************************************************************************)
(* cube_weight counts models, and its word holds the count.                *)
(***************************************************************************)
LEMMA WeightCountsModels ==
  ASSUME NEW c \in ParsedCubes
  PROVE  /\ IsFiniteSet(Models(c))
         /\ Cardinality(Models(c)) \in 0 .. 2^VARS
         /\ cube_weight(c) = Cardinality(Models(c))
<1> DEFINE Free == SUBSET (Vars \ c.mask)
<1>1. IsFiniteSet(Assignments) /\ Cardinality(Assignments) = 2^VARS
  BY VarsAssumption, FS_SUBSET DEF Assignments, VARS
<1>2. Models(c) \in SUBSET Assignments
  BY DEF Models
<1>3. IsFiniteSet(Models(c)) /\ Cardinality(Models(c)) <= Cardinality(Assignments)
  BY <1>1, <1>2, FS_Subset
<1>4. Cardinality(Models(c)) \in Nat /\ 2^VARS \in Nat
  BY <1>1, <1>3, FS_CardinalityType
<1>5. CASE c = PadCube
  <2>1. Models(c) = {}
    BY <1>5 DEF Models, PadCube
  <2>2. cube_weight(c) = 0
    BY <1>5 DEF cube_weight, PadCube
  <2> QED BY <1>1, <1>3, <1>4, <2>1, <2>2, FS_EmptySet
<1>6. CASE c \in RealCubes
  <2>1. ~c.pad /\ c.bits \subseteq c.mask /\ c.mask \subseteq Vars
    BY <1>6 DEF RealCubes, Cubes
  <2>2. IsFiniteSet(c.mask) /\ Cardinality(c.mask) \in Nat
    BY <2>1, VarsAssumption, FS_Subset, FS_CardinalityType
  <2>3. /\ IsFiniteSet(Vars \ c.mask)
        /\ Cardinality(Vars \ c.mask) = VARS - Cardinality(c.mask)
    <3>1. Vars \cap c.mask = c.mask
      BY <2>1
    <3> QED BY <3>1, VarsAssumption, FS_Difference DEF VARS
  <2>4. IsFiniteSet(Free) /\ Cardinality(Free) = 2^(VARS - Cardinality(c.mask))
    BY <2>3, FS_SUBSET
  <2>5. ExistsBijection(Free, Models(c))
    <3> DEFINE f == [s \in Free |-> c.bits \cup s]
    <3>1. f \in [Free -> Models(c)]
      BY <2>1 DEF Models, Assignments
    <3>2. ASSUME NEW s \in Free, NEW u \in Free, f[s] = f[u] PROVE s = u
      <4>1. s = f[s] \ c.mask /\ u = f[u] \ c.mask
        BY <2>1
      <4> QED BY <3>2, <4>1
    <3>3. ASSUME NEW m \in Models(c) PROVE \E s \in Free : f[s] = m
      <4>1. m \ c.mask \in Free
        BY DEF Models, Assignments
      <4>2. c.bits \cup (m \ c.mask) = m
        BY <2>1 DEF Models, Assignments
      <4> QED BY <4>1, <4>2
    <3>4. f \in Bijection(Free, Models(c))
      BY <3>1, <3>2, <3>3 DEF Bijection, Injection, Surjection, IsInjective
    <3> QED BY <3>4 DEF ExistsBijection
  <2>6. Cardinality(Models(c)) = 2^(VARS - Cardinality(c.mask))
    BY <2>4, <2>5, FS_Bijection
  <2>7. VARS \in Nat
    BY VarsAssumption, FS_CardinalityType DEF VARS
  <2>8. 2^VARS < 2^(VARS + 1)
    <3>1. 2^(VARS + 1) = 2^VARS * 2^1 /\ 2^1 \in Nat /\ 1 < 2^1
      BY <2>7, PowerSum, PowerType
    <3>2. 2^VARS \in Nat /\ VARS < 2^VARS
      BY <2>7, PowerType
    <3>3. \A p, q \in Nat : p > 0 /\ q > 1 => p < p * q
      OBVIOUS
    <3> QED BY <2>7, <3>1, <3>2, <3>3
  <2>9. Wrap(VARS + 1, Cardinality(Models(c))) = Cardinality(Models(c))
    <3>1. VARS + 1 \in Nat /\ 2^(VARS + 1) \in Nat
      BY <2>7, PowerType
    <3>2. Cardinality(Models(c)) < 2^(VARS + 1)
      BY <1>1, <1>3, <1>4, <2>8, <3>1
    <3> QED BY <1>4, <3>1, <3>2, WrapFits
  <2>10. cube_weight(c) = Cardinality(Models(c))
    BY <2>1, <2>6, <2>9 DEF cube_weight
  <2> QED BY <1>1, <1>3, <1>4, <2>10
<1> QED BY <1>5, <1>6 DEF ParsedCubes
=============================================================================
