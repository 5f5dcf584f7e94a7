------------------------- MODULE DimacsParserProofs -------------------------
(***************************************************************************)
(* parse, for every capacity and every file: no index leaves its array,    *)
(* what it returns meets the assumption that the circuit makes of its      *)
(* inputs (DnfsAssumption of CoveragePipeline), it returns for exactly the *)
(* well-formed files, the cubes it returns mean those of the file, and it  *)
(* ends.                                                                   *)
(*                                                                         *)
(* These are about the file as a whole, whose tokens are one stream to     *)
(* DimacsMeaning.  The lines are laid out in the stream, so that parse  *)
(* is at a position of it; Reading is what its variables say of the tokens *)
(* up to that position, and each token that is read preserves it.          *)
(***************************************************************************)
EXTENDS DimacsMeaning, DnfCubesProofs

(***************************************************************************)
(* The part of the invariant that is about the cubes: the one being read   *)
(* and the ones stored are real until the end, where filler is added.      *)
(***************************************************************************)
CubesInv ==
    /\ current \in RealCubes
    /\ pc # "returned" => \A k \in Inputs : dnf[k] \in RealCubes

ParserInv == TypeOK /\ CubesInv /\ ReturnsParsedDnf

(***************************************************************************)
(* Capacities are naturals.                                                *)
(***************************************************************************)
LEMMA Capacities ==
  /\ CUBES \in Nat /\ CUBES > 0
  /\ VARS \in Nat
BY CubesAssumption, VarsAssumption, FS_CardinalityType DEF VARS

(***************************************************************************)
(* What the next line is, when there is one.                               *)
(***************************************************************************)
LEMMA LineTypes ==
  ASSUME TypeOK, pc = "line", next < Len(file)
  PROVE  /\ next + 1 \in 0..Len(file)
         /\ Line.kind = "p" => Line \in HeaderLine
         /\ Line.kind = "literals" => Line.tokens \in Seq(Tokens)
<1>1. file \in Seq(Lines) /\ next \in 0..Len(file)
  BY FilesAssumption DEF TypeOK
<1>2. next + 1 \in 1..Len(file)
  BY <1>1
<1>3. Line \in Lines
  BY <1>1, <1>2 DEF Line
<1>4. Line.kind = "p" => Line \in HeaderLine
  BY <1>3 DEF Lines, SkipLine, HeaderLine, LiteralLine
<1>5. Line.kind = "literals" => Line.tokens \in Seq(Tokens)
  BY <1>3 DEF Lines, SkipLine, HeaderLine, LiteralLine
<1> QED BY <1>1, <1>2, <1>4, <1>5

(***************************************************************************)
(* A token that is read is an int, and what is left of the line is tokens. *)
(***************************************************************************)
LEMMA TokenTypes ==
  ASSUME TypeOK, AtToken
  PROVE  Head(rest) \in Int /\ Tail(rest) \in Seq(Tokens)
BY DEF TypeOK, AtToken, Tokens

(***************************************************************************)
(* The empty cube is a real one.                                           *)
(***************************************************************************)
LEMMA ZeroCubeIsReal ==
  /\ ZeroCube \in RealCubes /\ ZeroCube \in Cubes
  /\ Cardinality(ZeroCube.mask) = 0
BY FS_EmptySet DEF ZeroCube, RealCubes, Cubes

(***************************************************************************)
(* A literal in range that is new to the cube makes it a cube with one     *)
(* constrained variable more, its bits still within its mask.              *)
(***************************************************************************)
LEMMA AddedLiteral ==
  ASSUME NEW c \in RealCubes, NEW var \in Vars, var \notin c.mask,
         NEW positive \in BOOLEAN,
         NEW d, d = [c EXCEPT
                       !.mask = @ \cup {var},
                       !.bits = IF positive THEN @ \cup {var} ELSE @ \ {var}]
  PROVE  d \in RealCubes /\ Cardinality(d.mask) = Cardinality(c.mask) + 1
<1>1. c.mask \in SUBSET Vars /\ c.bits \in SUBSET Vars /\ c.bits \subseteq c.mask
      /\ c = [bits |-> c.bits, mask |-> c.mask, pad |-> c.pad] /\ c.pad = FALSE
  BY DEF RealCubes, Cubes
<1>2. d = [bits |-> IF positive THEN c.bits \cup {var} ELSE c.bits \ {var},
           mask |-> c.mask \cup {var}, pad |-> FALSE]
  BY <1>1
<1>3. d \in RealCubes
  <2>1. /\ d.mask \in SUBSET Vars /\ d.bits \in SUBSET Vars
        /\ d.bits \subseteq d.mask /\ ~d.pad
    BY <1>1, <1>2
  <2>2. d \in Cubes
    <3>1. d = [bits |-> d.bits, mask |-> d.mask, pad |-> FALSE]
      BY <1>2
    <3> QED BY <2>1, <3>1 DEF Cubes
  <2> QED BY <2>1, <2>2 DEF RealCubes
<1>4. IsFiniteSet(c.mask)
  BY <1>1, VarsAssumption, FS_Subset
<1>5. Cardinality(c.mask \cup {var}) = Cardinality(c.mask) + 1
  BY <1>4, FS_AddElement
<1> QED BY <1>2, <1>3, <1>5

(***************************************************************************)
(* The invariant holds initially.                                          *)
(***************************************************************************)
LEMMA InitParserInv == Init => ParserInv
<1> SUFFICES ASSUME Init PROVE ParserInv
  OBVIOUS
<1>1. TypeOK
  <2>1. <<>> \in Seq(Tokens) /\ 0 \in 0..VARS /\ 0 \in 0..CUBES
    BY Capacities
  <2>2. [k \in Inputs |-> ZeroCube] \in [Inputs -> Cubes]
    BY ZeroCubeIsReal
  <2> QED BY <2>1, <2>2, ZeroCubeIsReal DEF Init, TypeOK
<1>2. CubesInv /\ ReturnsParsedDnf
  BY ZeroCubeIsReal DEF Init, CubesInv, ReturnsParsedDnf
<1> QED BY <1>1, <1>2 DEF ParserInv

(***************************************************************************)
(* Every step preserves it.                                                *)
(***************************************************************************)
LEMMA NextParserInv == ParserInv /\ [Next]_vars => ParserInv'
<1> SUFFICES ASSUME ParserInv, [Next]_vars PROVE ParserInv'
  OBVIOUS
<1>1. TypeOK /\ CubesInv /\ ReturnsParsedDnf
  BY DEF ParserInv
<1>2. ASSUME NEW why, Throw(why), pc # "returned" PROVE ParserInv'
  BY <1>1, <1>2
  DEF Throw, ParserInv, TypeOK, CubesInv, ReturnsParsedDnf, headerVars, cubeVars
<1>3. CASE Open
  <2>1. file \in Seq(Lines)
    BY <1>1, <1>3, FilesAssumption DEF TypeOK, Open
  <2>2. next' \in 0..Len(file')
    BY <1>1, <1>3, <2>1 DEF TypeOK, Open
  <2> QED
    BY <1>1, <1>3, <2>2
    DEF Open, ParserInv, TypeOK, CubesInv, ReturnsParsedDnf, headerVars, cubeVars
<1>4. CASE OpenFails
  BY <1>2, <1>4 DEF OpenFails
<1>5. CASE Skip
  <2>1. next + 1 \in 0..Len(file)
    BY <1>1, <1>5, LineTypes DEF Skip, AtLine
  <2> QED
    BY <1>1, <1>5, <2>1
    DEF Skip, AtLine, ParserInv, TypeOK, CubesInv, ReturnsParsedDnf,
        headerVars, cubeVars
<1>6. CASE ReadHeader
  <2>1. next + 1 \in 0..Len(file) /\ Line \in HeaderLine
    BY <1>1, <1>6, LineTypes DEF ReadHeader, AtLine, Line
  <2>2. extracted(Line.vars) \in Int
    BY <2>1 DEF extracted, HeaderLine, Tokens, Unreadable, MaxInt
  <2>3. file_vars' \in 0..VARS
    BY <1>6, <2>2, Capacities DEF ReadHeader, HeaderFault
  <2> QED
    BY <1>1, <1>6, <2>1, <2>3, ZeroCubeIsReal
    DEF ReadHeader, AtLine, ParserInv, TypeOK, CubesInv, ReturnsParsedDnf
<1>7. CASE RejectHeader
  BY <1>2, <1>7 DEF RejectHeader, AtLine
<1>8. CASE BeginLiterals
  <2>1. Line.tokens \in Seq(Tokens)
    BY <1>1, <1>8, LineTypes DEF BeginLiterals, AtLine, Line
  <2> QED
    BY <1>1, <1>8, <2>1
    DEF BeginLiterals, AtLine, ParserInv, TypeOK, CubesInv, ReturnsParsedDnf,
        headerVars, cubeVars
<1>9. CASE RejectEarlyLiterals
  BY <1>2, <1>9 DEF RejectEarlyLiterals, AtLine
<1>10. CASE EndCube
  <2>1. Tail(rest) \in Seq(Tokens)
    BY <1>1, <1>10, TokenTypes DEF EndCube
  <2>2. cube_count \in Inputs /\ cube_count + 1 \in 0..CUBES
    BY <1>1, <1>10, Capacities DEF EndCube, TypeOK, Inputs
  <2>3. dnf' \in [Inputs -> Cubes] /\ \A k \in Inputs : dnf'[k] \in RealCubes
    BY <1>1, <1>10, <2>2 DEF EndCube, AtToken, TypeOK, CubesInv
  <2> QED
    BY <1>1, <1>10, <2>1, <2>2, <2>3, ZeroCubeIsReal
    DEF EndCube, AtToken, ParserInv, TypeOK, CubesInv, ReturnsParsedDnf, headerVars
<1>11. CASE RejectExtraCube
  BY <1>2, <1>11 DEF RejectExtraCube, AtToken
<1>12. CASE AddLiteral
  <2>1. Head(rest) \in Int /\ Tail(rest) \in Seq(Tokens)
    BY <1>1, <1>12, TokenTypes DEF AddLiteral
  <2> DEFINE var == Abs(Head(rest))
  <2>2. var \in Vars /\ var \notin current.mask
    <3>1. var \in Nat /\ var > 0
      BY <1>12, <2>1 DEF AddLiteral, Abs
    <3>2. var <= file_vars /\ var \notin current.mask
      BY <1>1, <1>12, <3>1 DEF AddLiteral, LiteralFault, TypeOK
    <3>3. var <= VARS
      BY <1>1, <3>1, <3>2, Capacities DEF TypeOK
    <3> QED BY <3>1, <3>2, <3>3, NumberedVars, Capacities
  <2>3. current' = [current EXCEPT
                      !.mask = @ \cup {var},
                      !.bits = IF Head(rest) > 0 THEN @ \cup {var} ELSE @ \ {var}]
    BY <1>12 DEF AddLiteral
  <2>4. current' \in RealCubes
        /\ Cardinality(current'.mask) = Cardinality(current.mask) + 1
    BY <1>1, <2>1, <2>2, <2>3, AddedLiteral DEF CubesInv
  <2>5. current' \in Cubes
    BY <2>4 DEF RealCubes
  <2> QED
    BY <1>1, <1>12, <2>1, <2>4, <2>5
    DEF AddLiteral, AtToken, ParserInv, TypeOK, CubesInv, ReturnsParsedDnf,
        headerVars
<1>13. CASE RejectLiteral
  BY <1>2, <1>13 DEF RejectLiteral, AtToken
<1>14. CASE EndLine
  <2>1. next + 1 \in 0..Len(file)
    <3>1. file \in Seq(Lines) /\ next \in 0..Len(file) /\ next < Len(file)
      BY <1>1, <1>14, FilesAssumption DEF EndLine, TypeOK
    <3> QED BY <3>1
  <2> QED
    BY <1>1, <1>14, <2>1
    DEF EndLine, ParserInv, TypeOK, CubesInv, ReturnsParsedDnf, headerVars, cubeVars
<1>15. CASE EndFile
  <2>1. cube_count \in 0..CUBES /\ CUBES \in 0..CUBES
    BY <1>1, Capacities DEF TypeOK
  <2>2. PadCube \in Cubes /\ PadCube.pad = TRUE
    BY DEF PadCube, Cubes
  <2>3. \A k \in Inputs : dnf[k] \in RealCubes
    BY <1>1, <1>15 DEF EndFile, AtEnd, CubesInv
  <2>4. dnf' = [k \in Inputs |-> IF k < cube_count THEN dnf[k] ELSE PadCube]
    BY <1>15 DEF EndFile
  <2>5. dnf' \in [Inputs -> Cubes] /\ dnf' \in [Inputs -> ParsedCubes]
    BY <2>2, <2>3, <2>4 DEF ParsedCubes, RealCubes
  <2>6. \A k \in Inputs : dnf'[k].pad <=> k >= cube_count
    <3>1. ASSUME NEW k \in Inputs PROVE dnf'[k].pad <=> k >= cube_count
      <4>1. CASE k < cube_count
        <5>1. dnf'[k] = dnf[k]
          BY <2>4, <4>1
        <5>2. ~dnf'[k].pad
          BY <2>3, <5>1 DEF RealCubes
        <5> QED BY <2>1, <4>1, <5>2, Capacities DEF Inputs
      <4>2. CASE ~(k < cube_count)
        BY <2>1, <2>2, <2>4, <4>2, Capacities DEF Inputs
      <4> QED BY <4>1, <4>2
    <3> QED BY <3>1
  <2>7. dnf' \in ParsedDnfs
    BY <2>1, <2>5, <2>6 DEF ParsedDnfs
  <2> QED
    BY <1>1, <1>15, <2>1, <2>5, <2>7
    DEF EndFile, AtEnd, ParserInv, TypeOK, CubesInv, ReturnsParsedDnf, headerVars
<1>16. CASE RejectFile
  BY <1>2, <1>16 DEF RejectFile, AtEnd
<1>17. CASE Terminating \/ UNCHANGED vars
  BY <1>1, <1>17
  DEF Terminating, vars, ParserInv, TypeOK, CubesInv, ReturnsParsedDnf,
      headerVars, cubeVars
<1> QED
  BY <1>3, <1>4, <1>5, <1>6, <1>7, <1>8, <1>9, <1>10, <1>11, <1>12, <1>13,
     <1>14, <1>15, <1>16, <1>17 DEF Next

(***************************************************************************)
(* The parser's type invariant: no index leaves the file or the array.     *)
(***************************************************************************)
THEOREM ParserTypeCorrect == Spec => []TypeOK
<1>1. ParserInv => TypeOK
  BY DEF ParserInv
<1> QED BY <1>1, InitParserInv, NextParserInv, PTL DEF Spec

(***************************************************************************)
(* Whatever the file, what parse returns meets the assumption that the     *)
(* circuit makes of its inputs.                                            *)
(***************************************************************************)
THEOREM ParserMeetsDnfsAssumption == Spec => []ReturnsParsedDnf
<1>1. ParserInv => ReturnsParsedDnf
  BY DEF ParserInv
<1> QED BY <1>1, InitParserInv, NextParserInv, PTL DEF Spec
-----------------------------------------------------------------------------
(***************************************************************************)
(* The tokens of a line that are read are those before the first one that  *)
(* is unreadable.                                                          *)
(***************************************************************************)
LEMMA ReadPartFacts ==
  ASSUME NEW tk \in Seq(Tokens)
  PROVE  LET r == ReadPart(tk)
         IN  /\ r \in Seq(Int) /\ Len(r) <= Len(tk)
             /\ \A m \in 1..Len(r) : r[m] = tk[m] /\ tk[m] \notin Unreadable
             /\ Len(r) < Len(tk) => tk[Len(r) + 1] \in Unreadable
<1> DEFINE I == {n \in 1..Len(tk) : tk[n] \in Unreadable}
           r == ReadPart(tk)
<1>1. Readable(tk) = IF I # {} THEN Min(I) ELSE 0
  BY DEF Readable, SelectInSeq
<1>2. Len(tk) \in Nat /\ \A n \in 1..Len(tk) : tk[n] \in Tokens
  OBVIOUS
<1>3. CASE I = {}
  <2>1. r = tk
    BY <1>1, <1>3 DEF ReadPart
  <2>2. \A n \in 1..Len(tk) : tk[n] \in Int /\ tk[n] \notin Unreadable
    BY <1>2, <1>3 DEF Tokens
  <2>3. tk \in Seq(Int)
    BY <2>2
  <2> QED BY <1>2, <2>1, <2>2, <2>3
<1>4. CASE I # {}
  <2> DEFINE l == Min(I)
  <2>1. l \in I /\ \A n \in I : l <= n
    <3> HIDE DEF I
    <3>1. I \subseteq Nat
      BY DEF I
    <3>2. \E x \in I : \A y \in I : x <= y
      BY <1>4, <3>1, LeastNatural
    <3> QED BY <3>2 DEF Min
  <2> HIDE DEF l
  <2>2. l \in 1..Len(tk) /\ l \in Nat /\ tk[l] \in Unreadable
    BY <2>1
  <2>3. r = SubSeq(tk, 1, l - 1)
    <3>1. Readable(tk) = l
      BY <1>1, <1>4 DEF l
    <3> QED BY <2>2, <3>1 DEF ReadPart
  <2>4. Len(r) = l - 1 /\ \A m \in 1 .. l - 1 : r[m] = tk[m]
    BY <2>2, <2>3
  <2>5. \A m \in 1 .. l - 1 : tk[m] \notin Unreadable /\ tk[m] \in Int
    BY <1>2, <2>1, <2>2 DEF Tokens
  <2>6. r \in Seq(Int)
    <3>1. r = [m \in 1 .. l - 1 |-> tk[m]]
      BY <2>2, <2>3
    <3> QED BY <2>2, <2>5, <3>1
  <2> HIDE DEF r
  <2> QED BY <1>2, <2>2, <2>4, <2>5, <2>6 DEF r
<1> QED BY <1>3, <1>4

(***************************************************************************)
(* Where each line's tokens are in the stream of the file.                 *)
(***************************************************************************)
Part(line) == IF line.kind = "literals" THEN ReadPart(line.tokens) ELSE <<>>
Parts(f) == [n \in DOMAIN f |-> Part(f[n])]
Offset(f) == CHOOSE L : Laid(Parts(f), Stream(f), L)

(***************************************************************************)
(* Each line that is read lies in the stream where the one before it ends. *)
(***************************************************************************)
LEMMA StreamFacts ==
  ASSUME NEW f \in Seq(Lines)
  PROVE  /\ Stream(f) \in Seq(Int)
         /\ Offset(f) \in [0..Len(f) -> Nat] /\ Offset(f)[0] = 0
         /\ Offset(f)[Len(f)] = Len(Stream(f))
         /\ \A n \in 1..Len(f) :
               /\ Offset(f)[n] = Offset(f)[n - 1] + Len(Part(f[n]))
               /\ Offset(f)[n] <= Len(Stream(f))
               /\ \A m \in 1..Len(Part(f[n])) :
                     Stream(f)[Offset(f)[n - 1] + m] = Part(f[n])[m]
<1>1. ASSUME NEW n \in DOMAIN f PROVE Part(f[n]) \in Seq(Int)
  <2>1. f[n] \in Lines
    BY <1>1
  <2>2. f[n].kind = "literals" => f[n].tokens \in Seq(Tokens)
    BY <2>1 DEF Lines, SkipLine, HeaderLine, LiteralLine
  <2>3. <<>> \in Seq(Int)
    OBVIOUS
  <2> QED BY <2>2, <2>3, ReadPartFacts DEF Part
<1>2. Parts(f) \in Seq(Seq(Int)) /\ Len(Parts(f)) = Len(f)
  <2>1. DOMAIN f = 1..Len(f) /\ Len(f) \in Nat
    OBVIOUS
  <2> QED BY <1>1, <2>1 DEF Parts
<1>3. Stream(f) = FlattenSeq(Parts(f))
  BY DEF Stream, Parts, Part
<1>4. Stream(f) \in Seq(Int) /\ \E L : Laid(Parts(f), Stream(f), L)
  BY <1>2, <1>3, FlattenFacts
<1>5. Laid(Parts(f), Stream(f), Offset(f))
  BY <1>4 DEF Offset
<1>6. \A n \in 1..Len(f) : Parts(f)[n] = Part(f[n])
  BY DEF Parts
<1> DEFINE L == Offset(f)
           S == Stream(f)
<1>7. /\ L \in [0..Len(f) -> Nat] /\ L[0] = 0 /\ L[Len(f)] = Len(S)
      /\ \A n \in 1..Len(f) :
            /\ L[n] = L[n - 1] + Len(Parts(f)[n]) /\ L[n] <= Len(S)
            /\ \A m \in 1..Len(Parts(f)[n]) : S[L[n - 1] + m] = Parts(f)[n][m]
  BY <1>2, <1>5 DEF Laid
<1> HIDE DEF L, S
<1>8. \A n \in 1..Len(f) :
         /\ L[n] = L[n - 1] + Len(Part(f[n])) /\ L[n] <= Len(S)
         /\ \A m \in 1..Len(Part(f[n])) : S[L[n - 1] + m] = Part(f[n])[m]
  BY <1>6, <1>7
<1> QED BY <1>4, <1>7, <1>8 DEF L, S

(***************************************************************************)
(* What the parser knows once it has read the first p of a stream: how     *)
(* many cubes have ended, that every literal so far is in range and none   *)
(* of its variable is in its cube twice, that the cubes stored mean those  *)
(* of the stream, and which literals the cube being read has.              *)
(***************************************************************************)
Here(s, p) == {n \in 1..p : s[n] # 0 /\ CubeOf(s, n) = Zeros(s, p)}

Reading(s, p, range, count, cubes, cur) ==
    /\ count = Zeros(s, p)
    /\ \A n \in 1..p : Abs(s[n]) <= range
    /\ \A m, n \in 1..p :
          m # n /\ s[m] # 0 /\ s[n] # 0 /\ CubeOf(s, m) = CubeOf(s, n)
            => Abs(s[m]) # Abs(s[n])
    /\ \A k \in 0 .. count - 1 : Models(cubes[k]) = CubeModels(s, k)
    /\ cur.mask = {Abs(s[n]) : n \in Here(s, p)}
    /\ cur.bits = {s[n] : n \in {m \in Here(s, p) : s[m] > 0}}

(***************************************************************************)
(* Before the first token nothing is known but the range.                  *)
(***************************************************************************)
LEMMA ReadNothing ==
  ASSUME NEW s, NEW range, NEW cubes
  PROVE  Reading(s, 0, range, 0, cubes, ZeroCube)
<1>1. Here(s, 0) = {} /\ \A k \in 0 .. 0 - 1 : FALSE
  BY DEF Here
<1> QED BY <1>1, ZerosFacts DEF Reading, ZeroCube

(***************************************************************************)
(* A position's cube, from the zeros up to the position before it.         *)
(***************************************************************************)
LEMMA CubeOfIsZeros ==
  ASSUME NEW s, NEW n \in Nat
  PROVE  CubeOf(s, n + 1) = Zeros(s, n)
<1>1. (n + 1) - 1 = n
  OBVIOUS
<1> QED BY <1>1 DEF CubeOf, Zeros

(***************************************************************************)
(* A literal that is in range and new to its cube is read.                 *)
(***************************************************************************)
LEMMA ReadLiteral ==
  ASSUME NEW s \in Seq(Int), NEW p \in Nat, p < Len(s), NEW range, NEW count,
         NEW cubes, NEW cur \in RealCubes, Reading(s, p, range, count, cubes, cur),
         s[p + 1] # 0, Abs(s[p + 1]) <= range, Abs(s[p + 1]) \notin cur.mask,
         NEW d,
         d = [cur EXCEPT
                !.mask = @ \cup {Abs(s[p + 1])},
                !.bits = IF s[p + 1] > 0 THEN @ \cup {Abs(s[p + 1])}
                                         ELSE @ \ {Abs(s[p + 1])}]
  PROVE  Reading(s, p + 1, range, count, cubes, d)
<1> DEFINE lit == s[p + 1]
<1>1. lit \in Int
  <2>1. p + 1 \in 1..Len(s)
    OBVIOUS
  <2> QED BY <2>1
<1>2. Zeros(s, p + 1) = Zeros(s, p) /\ CubeOf(s, p + 1) = Zeros(s, p)
  BY ZerosFacts, CubeOfIsZeros
<1>3. \A n : n \in 1 .. p + 1 <=> n \in 1..p \/ n = p + 1
  OBVIOUS
<1>4. Here(s, p + 1) = Here(s, p) \cup {p + 1}
  BY <1>2, <1>3 DEF Here
<1>5. /\ cur.mask = {Abs(s[n]) : n \in Here(s, p)}
      /\ cur.bits = {s[n] : n \in {m \in Here(s, p) : s[m] > 0}}
      /\ count = Zeros(s, p)
  BY DEF Reading
<1>6. d.mask = cur.mask \cup {Abs(lit)}
      /\ d.bits = IF lit > 0 THEN cur.bits \cup {Abs(lit)} ELSE cur.bits \ {Abs(lit)}
  BY DEF RealCubes, Cubes
<1>7. d.mask = {Abs(s[n]) : n \in Here(s, p + 1)}
  BY <1>4, <1>5, <1>6
<1>8. d.bits = {s[n] : n \in {m \in Here(s, p + 1) : s[m] > 0}}
  <2>1. CASE lit > 0
    <3>1. Abs(lit) = lit
      BY <1>1, <2>1 DEF Abs
    <3>2. {m \in Here(s, p + 1) : s[m] > 0} = {m \in Here(s, p) : s[m] > 0} \cup {p + 1}
      BY <1>4, <2>1
    <3> QED BY <1>5, <1>6, <2>1, <3>1, <3>2
  <2>2. CASE ~(lit > 0)
    <3>1. {m \in Here(s, p + 1) : s[m] > 0} = {m \in Here(s, p) : s[m] > 0}
      BY <1>4, <2>2
    <3>2. Abs(lit) \notin cur.bits
      BY DEF RealCubes
    <3> QED BY <1>5, <1>6, <2>2, <3>1, <3>2
  <2> QED BY <2>1, <2>2
<1>9. \A n \in 1 .. p + 1 : Abs(s[n]) <= range
  BY <1>3 DEF Reading
<1>10. ASSUME NEW m \in 1 .. p + 1, NEW n \in 1 .. p + 1, m # n,
              s[m] # 0, s[n] # 0, CubeOf(s, m) = CubeOf(s, n)
       PROVE  Abs(s[m]) # Abs(s[n])
  <2>1. CASE m \in 1..p /\ n \in 1..p
    BY <1>10, <2>1 DEF Reading
  <2>2. ASSUME NEW l \in 1..p, s[l] # 0, CubeOf(s, l) = CubeOf(s, p + 1)
        PROVE  Abs(s[l]) # Abs(lit)
    <3>1. l \in Here(s, p)
      BY <1>2, <2>2 DEF Here
    <3> QED BY <1>5, <3>1
  <2>3. CASE m = p + 1
    BY <1>3, <1>10, <2>2, <2>3
  <2>4. CASE n = p + 1
    BY <1>3, <1>10, <2>2, <2>4
  <2> QED BY <1>3, <2>1, <2>3, <2>4
<1> QED BY <1>2, <1>5, <1>7, <1>8, <1>9, <1>10 DEF Reading

(***************************************************************************)
(* At a zero the cube being read has all the literals of its cube in the   *)
(* stream, and their models.                                               *)
(***************************************************************************)
LEMMA CubeIsRead ==
  ASSUME NEW s \in Seq(Int), NEW p \in Nat, p < Len(s), NEW range, NEW count,
         NEW cubes, NEW cur \in RealCubes, Reading(s, p, range, count, cubes, cur),
         s[p + 1] = 0
  PROVE  Models(cur) = CubeModels(s, count)
<1>1. /\ cur.mask = {Abs(s[n]) : n \in Here(s, p)}
      /\ cur.bits = {s[n] : n \in {m \in Here(s, p) : s[m] > 0}}
      /\ count = Zeros(s, p) /\ ~cur.pad
  BY DEF Reading, RealCubes
<1>2. Positions(s, count) = Here(s, p)
  <2>1. ASSUME NEW n \in Here(s, p) PROVE n \in Positions(s, count)
    <3>1. n \in DOMAIN s
      BY DEF Here
    <3> QED BY <1>1, <3>1 DEF Here, Positions
  <2>2. ASSUME NEW n \in Positions(s, count) PROVE n \in Here(s, p)
    <3>1. n \in 1..Len(s) /\ s[n] # 0 /\ CubeOf(s, n) = Zeros(s, p)
      BY <1>1 DEF Positions
    <3>2. CASE n <= p
      BY <3>1, <3>2 DEF Here
    <3>3. CASE n = p + 1
      BY <3>1, <3>3
    <3>4. CASE n > p + 1
      <4>1. n - 1 \in Nat /\ p + 1 <= n - 1 /\ (n - 1) + 1 = n /\ p + 1 \in Nat
        BY <3>1, <3>4
      <4>2. Zeros(s, p + 1) <= Zeros(s, n - 1) /\ CubeOf(s, n) = Zeros(s, n - 1)
        BY <4>1, ZerosFacts, CubeOfIsZeros
      <4>3. Zeros(s, p + 1) = Zeros(s, p) + 1 /\ Zeros(s, p) \in Nat
        BY ZerosFacts
      <4>4. Zeros(s, n - 1) \in Nat
        BY <4>1, ZerosFacts
      <4> QED BY <3>1, <4>2, <4>3, <4>4
    <3> QED BY <3>1, <3>2, <3>3, <3>4
  <2> QED BY <2>1, <2>2
<1>3. ASSUME NEW n \in Here(s, p)
      PROVE  s[n] \in Int /\ s[n] # 0 /\ n \in 1..p /\ CubeOf(s, n) = Zeros(s, p)
  BY DEF Here
<1>4. ASSUME NEW n \in Here(s, p), s[n] < 0 PROVE -s[n] \notin cur.bits
  <2>1. SUFFICES ASSUME NEW m \in Here(s, p), s[m] > 0, s[m] = -s[n] PROVE FALSE
    BY <1>1
  <2>2. m # n /\ Abs(s[m]) = Abs(s[n])
    BY <1>3, <1>4, <2>1 DEF Abs
  <2> QED BY <1>3, <2>2 DEF Reading
<1>5. ASSUME NEW a \in Assignments
      PROVE  (\A v \in cur.mask : v \in a <=> v \in cur.bits)
               <=> \A n \in Here(s, p) : IF s[n] > 0 THEN s[n] \in a ELSE -s[n] \notin a
  <2>1. ASSUME NEW n \in Here(s, p)
        PROVE  (Abs(s[n]) \in a <=> Abs(s[n]) \in cur.bits)
                 <=> IF s[n] > 0 THEN s[n] \in a ELSE -s[n] \notin a
    <3>1. CASE s[n] > 0
      <4>1. Abs(s[n]) = s[n]
        BY <3>1 DEF Abs
      <4>2. s[n] \in cur.bits
        BY <1>1, <3>1
      <4> QED BY <3>1, <4>1, <4>2
    <3>2. CASE ~(s[n] > 0)
      <4>1. Abs(s[n]) = -s[n] /\ s[n] < 0
        BY <1>3, <3>2 DEF Abs
      <4>2. -s[n] \notin cur.bits
        BY <1>4, <4>1
      <4> QED BY <3>2, <4>1, <4>2
    <3> QED BY <3>1, <3>2
  <2> QED BY <1>1, <2>1
<1> QED BY <1>1, <1>2, <1>5 DEF Models, CubeModels

(***************************************************************************)
(* A zero ends the cube, which is stored as the next one.                  *)
(***************************************************************************)
LEMMA ReadZero ==
  ASSUME NEW s \in Seq(Int), NEW p \in Nat, p < Len(s), NEW range \in Nat, NEW count,
         NEW cubes \in [Inputs -> Cubes], NEW cur \in RealCubes,
         Reading(s, p, range, count, cubes, cur), s[p + 1] = 0, count < CUBES
  PROVE  Reading(s, p + 1, range, count + 1, [cubes EXCEPT ![count] = cur], ZeroCube)
<1> DEFINE stored == [cubes EXCEPT ![count] = cur]
<1>1. count = Zeros(s, p) /\ count \in Nat
  BY ZerosFacts DEF Reading
<1>2. Zeros(s, p + 1) = count + 1 /\ CubeOf(s, p + 1) = count
  BY <1>1, ZerosFacts, CubeOfIsZeros
<1>3. \A n : n \in 1 .. p + 1 <=> n \in 1..p \/ n = p + 1
  OBVIOUS
<1>4. Here(s, p + 1) = {}
  <2>1. SUFFICES ASSUME NEW n \in 1..p, CubeOf(s, n) = count + 1 PROVE FALSE
    BY <1>2, <1>3 DEF Here
  <2>2. n - 1 \in Nat /\ n - 1 <= p /\ (n - 1) + 1 = n
    OBVIOUS
  <2>3. CubeOf(s, n) = Zeros(s, n - 1) /\ Zeros(s, n - 1) <= Zeros(s, p)
    BY <2>2, ZerosFacts, CubeOfIsZeros
  <2>4. Zeros(s, n - 1) \in Nat
    BY <2>2, ZerosFacts
  <2> QED BY <1>1, <2>1, <2>3, <2>4
<1>5. ZeroCube.mask = {Abs(s[n]) : n \in Here(s, p + 1)}
      /\ ZeroCube.bits = {s[n] : n \in {m \in Here(s, p + 1) : s[m] > 0}}
  BY <1>4 DEF ZeroCube
<1>6. \A n \in 1 .. p + 1 : Abs(s[n]) <= range
  <2>1. Abs(0) <= range
    BY DEF Abs
  <2> QED BY <1>3, <2>1 DEF Reading
<1>7. \A m, n \in 1 .. p + 1 :
        m # n /\ s[m] # 0 /\ s[n] # 0 /\ CubeOf(s, m) = CubeOf(s, n)
          => Abs(s[m]) # Abs(s[n])
  BY <1>3 DEF Reading
<1>8. ASSUME NEW k \in 0 .. (count + 1) - 1 PROVE Models(stored[k]) = CubeModels(s, k)
  <2>1. count \in Inputs
    BY <1>1, CubesAssumption DEF Inputs
  <2>2. CASE k = count
    BY <2>1, <2>2, CubeIsRead
  <2>3. CASE k # count
    <3>1. k \in 0 .. count - 1
      BY <1>1, <2>3
    <3>2. stored[k] = cubes[k]
      <4>1. k \in Inputs
        BY <1>1, <3>1, CubesAssumption DEF Inputs
      <4> QED BY <2>3, <4>1
    <3> QED BY <3>1, <3>2 DEF Reading
  <2> QED BY <2>2, <2>3
<1> QED BY <1>2, <1>5, <1>6, <1>7, <1>8 DEF Reading
-----------------------------------------------------------------------------
(***************************************************************************)
(* Where in the stream the parser is: behind the lines that it has read    *)
(* and the tokens that it has taken from the line it is in.                *)
(***************************************************************************)
Taken == Len(Line.tokens) - Len(rest)
Position == Offset(file)[next] + IF pc = "token" THEN Taken ELSE 0

LineInv ==
    pc = "token" =>
        /\ have_header /\ Line.kind = "literals" /\ Taken \in Nat
        /\ \A m \in 1..Len(rest) : rest[m] = Line.tokens[Taken + m]
        /\ \A m \in 1..Taken : Line.tokens[m] \notin Unreadable

(***************************************************************************)
(* The one header is behind, or nothing of interest is.                    *)
(***************************************************************************)
HeaderBehind(h) ==
    /\ file[h].kind = "p" /\ GoodHeader(file[h])
    /\ file_vars = extracted(file[h].vars)
    /\ \A n \in 1..next : n # h => file[n].kind # "p"
    /\ \A n \in 1..next : file[n].kind = "literals" => n > h

HeaderInv ==
    pc \in {"open", "line", "token"} =>
        IF have_header
        THEN \E h \in 1..next : HeaderBehind(h)
        ELSE /\ \A n \in 1..next : file[n].kind = "skip"
             /\ pc # "open" => Offset(file)[next] = 0
             /\ cube_count = 0 /\ current = ZeroCube

(***************************************************************************)
(* What has been read, and in the end what it came to.                     *)
(***************************************************************************)
StreamInv ==
    pc \in {"line", "token"} =>
        Reading(Stream(file), Position, file_vars, cube_count, dnf, current)

MeaningInv ==
    ParserInv /\ LineInv /\ HeaderInv /\ StreamInv /\ AcceptsWellFormed /\ CubesMeanFile

(***************************************************************************)
(* The facts about the file that each step starts from.                    *)
(***************************************************************************)
LEMMA FileFacts ==
  ASSUME TypeOK, pc \in {"line", "token"}
  PROVE  /\ file \in Seq(Lines) /\ file # NoFile
         /\ Len(file) \in Nat /\ next \in 0..Len(file)
         /\ \A n \in 1..Len(file) : file[n].kind \in {"skip", "p", "literals"}
<1>1. file \in Seq(Lines) /\ file # NoFile /\ next \in 0..Len(file)
  BY FilesAssumption DEF TypeOK
<1>2. ASSUME NEW n \in 1..Len(file) PROVE file[n].kind \in {"skip", "p", "literals"}
  <2>1. file[n] \in Lines
    BY <1>1
  <2> QED BY <2>1 DEF Lines, SkipLine, HeaderLine, LiteralLine
<1> QED BY <1>1, <1>2

(***************************************************************************)
(* Within a line: the next token is the next of the stream; at the end of  *)
(* what is read of the line the parser is where the next line begins.      *)
(***************************************************************************)
LEMMA TokenFacts ==
  ASSUME TypeOK, LineInv, pc = "token"
  PROVE  /\ Line.tokens \in Seq(Tokens) /\ Position \in Nat
         /\ AtToken => /\ Position < Len(Stream(file))
                       /\ Stream(file)[Position + 1] = Head(rest)
         /\ ~AtToken => Position = Offset(file)[next + 1]
<1> DEFINE tk == Line.tokens
           r == ReadPart(tk)
           off == Offset(file)[next]
<1>1. /\ file \in Seq(Lines) /\ next \in Nat /\ next + 1 \in 1..Len(file)
      /\ next \in 0..Len(file)
  BY FileFacts DEF TypeOK
<1>2. Line.kind = "literals" /\ Line = file[next + 1] /\ Taken \in Nat
  BY DEF LineInv, Line
<1>3. tk \in Seq(Tokens)
  <2>1. Line \in Lines
    BY <1>1, <1>2
  <2> QED BY <1>2, <2>1 DEF Lines, SkipLine, HeaderLine, LiteralLine
<1>4. Part(Line) = r
  BY <1>2 DEF Part
<1>5. /\ r \in Seq(Int) /\ Len(r) <= Len(tk)
      /\ \A m \in 1..Len(r) : r[m] = tk[m] /\ tk[m] \notin Unreadable
      /\ Len(r) < Len(tk) => tk[Len(r) + 1] \in Unreadable
  BY <1>3, ReadPartFacts
<1>6. /\ off \in Nat /\ Offset(file)[next + 1] = off + Len(r)
      /\ Offset(file)[next + 1] <= Len(Stream(file))
      /\ \A m \in 1..Len(r) : Stream(file)[off + m] = r[m]
  <2>1. (next + 1) - 1 = next
    BY <1>1
  <2> QED BY <1>1, <1>2, <1>4, <2>1, StreamFacts
<1>7. /\ Position = off + Taken /\ Taken + Len(rest) = Len(tk)
      /\ rest \in Seq(Tokens) /\ Len(rest) \in Nat /\ Len(tk) \in Nat /\ Len(r) \in Nat
  <2>1. rest \in Seq(Tokens)
    BY DEF TypeOK
  <2>2. Len(rest) \in Nat /\ Len(tk) \in Nat /\ Len(r) \in Nat
    BY <1>3, <1>5, <2>1
  <2>3. Taken = Len(tk) - Len(rest)
    BY DEF Taken
  <2> QED BY <2>1, <2>2, <2>3 DEF Position
<1>8. /\ \A m \in 1..Len(rest) : rest[m] = tk[Taken + m]
      /\ \A m \in 1..Taken : tk[m] \notin Unreadable
  BY DEF LineInv
<1>9. Stream(file) \in Seq(Int) /\ Len(Stream(file)) \in Nat
  BY <1>1, StreamFacts
<1> HIDE DEF tk, r, off
<1>10. Taken <= Len(r)
  <2>1. SUFFICES ASSUME Len(r) < Taken PROVE FALSE
    BY <1>2, <1>7
  <2>2. Len(r) < Len(tk) /\ Len(r) + 1 \in 1..Taken
    BY <1>2, <1>7, <2>1
  <2> QED BY <1>5, <1>8, <2>2
<1>11. rest # <<>> => /\ Head(rest) = rest[1] /\ 1 \in 1..Len(rest)
                      /\ Head(rest) = tk[Taken + 1]
  BY <1>7, <1>8
<1>12. CASE AtToken
  <2>1. Taken < Len(r)
    <3>1. SUFFICES ASSUME Taken = Len(r) PROVE FALSE
      BY <1>2, <1>7, <1>10
    <3>2. Len(r) < Len(tk)
      BY <1>7, <1>11, <1>12, <3>1 DEF AtToken
    <3> QED BY <1>5, <1>11, <1>12, <3>1, <3>2 DEF AtToken
  <2>2. Taken + 1 \in 1..Len(r)
    BY <1>2, <1>7, <2>1
  <2>3. Stream(file)[off + (Taken + 1)] = tk[Taken + 1]
    BY <1>5, <1>6, <2>2
  <2>4. off + (Taken + 1) = Position + 1 /\ Position < Len(Stream(file)) /\ Position \in Nat
    BY <1>2, <1>6, <1>7, <1>9, <2>1
  <2> QED BY <1>3, <1>11, <1>12, <2>3, <2>4 DEF AtToken, tk
<1>13. CASE ~AtToken
  <2>1. Taken = Len(r)
    <3>1. SUFFICES ASSUME Taken < Len(r) PROVE FALSE
      BY <1>2, <1>7, <1>10
    <3>2. Taken + 1 \in 1..Len(r) /\ rest # <<>>
      <4>1. Len(rest) # 0
        BY <1>2, <1>5, <1>7, <3>1
      <4> QED BY <1>2, <1>7, <3>1, <4>1
    <3> QED BY <1>5, <1>11, <1>13, <3>2 DEF AtToken
  <2> QED BY <1>2, <1>3, <1>6, <1>7, <1>13, <2>1 DEF tk
<1> QED BY <1>12, <1>13

(***************************************************************************)
(* Why each throw is right: the file is not well-formed.                   *)
(***************************************************************************)
LEMMA HeaderThrows ==
  ASSUME TypeOK, HeaderInv, RejectHeader \/ RejectEarlyLiterals
  PROVE  ~WellFormed(file)
<1> SUFFICES ASSUME WellFormed(file) PROVE FALSE
  OBVIOUS
<1>1. pc = "line" /\ next < Len(file) /\ Line = file[next + 1]
  BY DEF RejectHeader, RejectEarlyLiterals, AtLine, Line
<1>2. /\ file \in Seq(Lines) /\ Len(file) \in Nat /\ next \in 0..Len(file)
      /\ next + 1 \in 1..Len(file) /\ DOMAIN file = 1..Len(file)
  BY <1>1, FileFacts
<1>3. PICK h \in DOMAIN file :
        /\ LineNumbers(file, "p") = {h} /\ GoodHeader(file[h])
        /\ \A n \in LineNumbers(file, "literals") : n > h
  BY DEF WellFormed
<1>4. file[h].kind = "p" /\ \A n \in DOMAIN file : file[n].kind = "p" => n = h
  BY <1>3 DEF LineNumbers
<1>5. CASE RejectHeader
  <2>1. next + 1 = h
    BY <1>1, <1>2, <1>4, <1>5 DEF RejectHeader, AtLine
  <2>2. CASE have_header
    <3>1. PICK g \in 1..next : file[g].kind = "p"
      BY <1>1, <2>2 DEF HeaderInv, HeaderBehind
    <3>2. g \in DOMAIN file /\ g # next + 1
      BY <1>2, <3>1
    <3> QED BY <1>4, <2>1, <3>1, <3>2
  <2>3. CASE ~have_header
    <3>1. GoodHeader(Line)
      BY <1>1, <1>3, <2>1
    <3>2. extracted(Line.vars) \in 1..VARS /\ Line.dnf /\ extracted(Line.cubes) <= CUBES
      BY <3>1 DEF GoodHeader
    <3>3. extracted(Line.cubes) \in Int /\ extracted(Line.vars) \in Int
      <4>1. Line \in HeaderLine
        BY <1>1, <1>5, LineTypes DEF RejectHeader, AtLine, Line
      <4> QED BY <4>1 DEF extracted, HeaderLine, Tokens, Unreadable, MaxInt
    <3>4. HeaderFault = "none"
      BY <2>3, <3>2, <3>3, Capacities DEF HeaderFault
    <3> QED BY <1>5, <3>4 DEF RejectHeader
  <2> QED BY <2>2, <2>3
<1>6. CASE RejectEarlyLiterals
  <2>1. next + 1 \in LineNumbers(file, "literals")
    BY <1>1, <1>2, <1>6 DEF RejectEarlyLiterals, AtLine, LineNumbers
  <2>2. h \in 1..next
    BY <1>2, <1>3, <2>1
  <2>3. file[h].kind = "skip"
    BY <1>1, <1>6, <2>2 DEF RejectEarlyLiterals, HeaderInv
  <2> QED BY <1>4, <2>3
<1> QED BY <1>5, <1>6

(***************************************************************************)
(* The zeros of a stream are its cubes.                                    *)
(***************************************************************************)
LEMMA CubeCountIsZeros ==
  ASSUME NEW s \in Seq(Int)
  PROVE  CubeCount(s) = Zeros(s, Len(s))
<1>1. DOMAIN s = 1..Len(s)
  OBVIOUS
<1>2. {n \in DOMAIN s : s[n] = 0} = {n \in 1..Len(s) : s[n] = 0}
  BY <1>1
<1> QED BY <1>2 DEF CubeCount, Zeros

(***************************************************************************)
(* A cube too many, a literal out of range or a variable used twice.       *)
(***************************************************************************)
LEMMA TokenThrows ==
  ASSUME ParserInv, LineInv, HeaderInv, StreamInv, RejectExtraCube \/ RejectLiteral
  PROVE  ~WellFormed(file)
<1> SUFFICES ASSUME WellFormed(file) PROVE FALSE
  OBVIOUS
<1> DEFINE s == Stream(file)
           p == Position
           lit == Head(rest)
<1>1. pc = "token" /\ AtToken /\ TypeOK /\ have_header
  BY DEF RejectExtraCube, RejectLiteral, AtToken, ParserInv, LineInv
<1>2. /\ file \in Seq(Lines) /\ next \in 0..Len(file) /\ Len(file) \in Nat
      /\ DOMAIN file = 1..Len(file)
  BY <1>1, FileFacts
<1>3. s \in Seq(Int) /\ DOMAIN s = 1..Len(s) /\ Len(s) \in Nat
  BY <1>2, StreamFacts
<1>4. p \in Nat /\ p < Len(s) /\ s[p + 1] = lit
  BY <1>1, TokenFacts
<1>5. Reading(s, p, file_vars, cube_count, dnf, current)
  BY <1>1 DEF StreamInv
<1>6. PICK h \in DOMAIN file :
        /\ LineNumbers(file, "p") = {h}
        /\ \A n \in DOMAIN s : Abs(s[n]) <= extracted(file[h].vars)
        /\ \A k \in 0..CubeCount(s) : \A m, n \in Positions(s, k) :
              m # n => Abs(s[m]) # Abs(s[n])
        /\ CubeCount(s) <= CUBES
  BY DEF WellFormed
<1>7. PICK g \in 1..next : HeaderBehind(g)
  BY <1>1 DEF HeaderInv
<1>8. g = h
  <2>1. g \in LineNumbers(file, "p")
    BY <1>2, <1>7 DEF HeaderBehind, LineNumbers
  <2> QED BY <1>6, <2>1
<1> HIDE DEF s, p, lit
<1>9. p + 1 \in 1..Len(s) /\ p + 1 \in DOMAIN s /\ p + 1 \in Nat
  BY <1>3, <1>4
<1>10. /\ cube_count = Zeros(s, p) /\ cube_count \in Nat
       /\ CubeCount(s) = Zeros(s, Len(s)) /\ Zeros(s, Len(s)) \in Nat
       /\ Zeros(s, p) <= Zeros(s, Len(s)) /\ Zeros(s, p + 1) <= Zeros(s, Len(s))
  BY <1>3, <1>4, <1>5, <1>9, ZerosFacts, CubeCountIsZeros DEF Reading
<1>11. CASE RejectExtraCube
  <2>1. s[p + 1] = 0 /\ cube_count >= CUBES
    BY <1>4, <1>11 DEF RejectExtraCube, lit
  <2>2. Zeros(s, p + 1) = cube_count + 1
    BY <1>4, <1>10, <2>1, ZerosFacts
  <2> QED BY <1>6, <1>10, <2>1, <2>2, Capacities
<1>12. CASE RejectLiteral
  <2>1. lit # 0 /\ LiteralFault(lit) # "none"
    BY <1>12 DEF RejectLiteral, lit
  <2>2. Abs(lit) <= file_vars
    BY <1>4, <1>6, <1>7, <1>8, <1>9 DEF HeaderBehind
  <2>3. Abs(lit) \in Int /\ file_vars \in Int
    <3>1. lit \in Int
      BY <1>3, <1>4, <1>9
    <3> QED BY <1>1, <3>1, Capacities DEF Abs, TypeOK
  <2>4. Abs(lit) \in current.mask
    BY <2>1, <2>2, <2>3 DEF LiteralFault
  <2>5. PICK n \in Here(s, p) : Abs(s[n]) = Abs(lit)
    BY <1>5, <2>4 DEF Reading
  <2>6. n \in 1..p /\ s[n] # 0 /\ CubeOf(s, n) = cube_count
    BY <1>10, <2>5 DEF Here
  <2>7. CubeOf(s, p + 1) = cube_count
    BY <1>4, <1>10, CubeOfIsZeros
  <2>8. n \in Positions(s, cube_count) /\ p + 1 \in Positions(s, cube_count)
    <3>1. n \in DOMAIN s
      BY <1>3, <1>4, <2>6
    <3> QED BY <1>4, <1>9, <2>1, <2>6, <2>7, <3>1 DEF Positions
  <2>9. cube_count \in 0..CubeCount(s) /\ n # p + 1
    BY <1>4, <1>10, <2>6
  <2> QED BY <1>4, <1>6, <2>5, <2>8, <2>9
<1> QED BY <1>11, <1>12

(***************************************************************************)
(* At the end of the file: the stream has been read, and whether a cube is *)
(* unfinished shows in the cube being read.                                *)
(***************************************************************************)
LEMMA EndFacts ==
  ASSUME ParserInv, HeaderInv, StreamInv, AtEnd
  PROVE  LET s == Stream(file)
         IN  /\ file \in Seq(Lines) /\ file # NoFile /\ DOMAIN file = 1..next
             /\ s \in Seq(Int) /\ DOMAIN s = 1..Len(s)
             /\ Reading(s, Len(s), file_vars, cube_count, dnf, current)
             /\ cube_count = CubeCount(s)
             /\ literals_in_current = 0 <=> (s # <<>> => Last(s) = 0)
<1> DEFINE s == Stream(file)
           l == Len(s)
<1>1. TypeOK /\ pc = "line" /\ next = Len(file)
  BY DEF ParserInv, AtEnd
<1>2. /\ file \in Seq(Lines) /\ file # NoFile /\ DOMAIN file = 1..next
      /\ Len(file) \in Nat
  BY <1>1, FileFacts
<1>3. s \in Seq(Int) /\ DOMAIN s = 1..l /\ l \in Nat
  BY <1>2, StreamFacts
<1>4. Position = l
  <2>1. Offset(file)[Len(file)] = l
    BY <1>2, StreamFacts
  <2> QED BY <1>1, <1>3, <2>1 DEF Position
<1>5. Reading(s, l, file_vars, cube_count, dnf, current)
  BY <1>1, <1>4 DEF StreamInv
<1> HIDE DEF s
<1>6. cube_count = CubeCount(s)
  BY <1>3, <1>5, CubeCountIsZeros DEF Reading
<1>7. literals_in_current = 0 <=> Here(s, l) = {}
  <2>1. IsFiniteSet(current.mask) /\ literals_in_current = Cardinality(current.mask)
    <3>1. current.mask \in SUBSET Vars
      BY <1>1 DEF TypeOK, Cubes
    <3> QED BY <1>1, <3>1, VarsAssumption, FS_Subset DEF TypeOK
  <2>2. literals_in_current = 0 <=> current.mask = {}
    BY <2>1, FS_EmptySet
  <2>3. current.mask = {Abs(s[n]) : n \in Here(s, l)}
    BY <1>5 DEF Reading
  <2> QED BY <2>2, <2>3
<1>8. CASE l = 0
  <2>1. s = <<>> /\ Here(s, l) = {}
    BY <1>3, <1>8 DEF Here
  <2> QED BY <1>2, <1>3, <1>5, <1>6, <1>7, <2>1 DEF s
<1>9. CASE l # 0
  <2>1. l - 1 \in Nat /\ (l - 1) + 1 = l /\ l \in 1..l /\ s # <<>> /\ Last(s) = s[l]
    BY <1>3, <1>9 DEF Last
  <2>2. /\ CubeOf(s, l) = Zeros(s, l - 1) /\ Zeros(s, l - 1) \in Nat
        /\ Zeros(s, l) = IF s[l] = 0 THEN Zeros(s, l - 1) + 1 ELSE Zeros(s, l - 1)
    <3>1. CubeOf(s, (l - 1) + 1) = Zeros(s, l - 1)
      BY <2>1, CubeOfIsZeros
    <3>2. /\ Zeros(s, l - 1) \in Nat
          /\ Zeros(s, (l - 1) + 1) = IF s[(l - 1) + 1] = 0 THEN Zeros(s, l - 1) + 1
                                                          ELSE Zeros(s, l - 1)
      BY <2>1, ZerosFacts
    <3> QED BY <2>1, <3>1, <3>2
  <2>3. CASE s[l] # 0
    <3>1. l \in Here(s, l)
      BY <2>1, <2>2, <2>3 DEF Here
    <3> QED BY <1>2, <1>3, <1>5, <1>6, <1>7, <2>1, <2>3, <3>1 DEF s
  <2>4. CASE s[l] = 0
    <3>1. Here(s, l) = {}
      <4>1. SUFFICES ASSUME NEW n \in 1..l, s[n] # 0, CubeOf(s, n) = Zeros(s, l)
                     PROVE  FALSE
        BY DEF Here
      <4>2. n - 1 \in Nat /\ (n - 1) + 1 = n /\ n - 1 <= l - 1
        BY <1>3, <2>4, <4>1
      <4>3. CubeOf(s, (n - 1) + 1) = Zeros(s, n - 1)
        BY <4>2, CubeOfIsZeros
      <4>4. Zeros(s, n - 1) <= Zeros(s, l - 1) /\ Zeros(s, n - 1) \in Nat
        BY <2>1, <4>2, ZerosFacts
      <4> QED BY <2>2, <2>4, <4>1, <4>2, <4>3, <4>4
    <3> QED BY <1>2, <1>3, <1>5, <1>6, <1>7, <2>1, <2>4, <3>1 DEF s
  <2> QED BY <2>3, <2>4
<1> QED BY <1>8, <1>9

(***************************************************************************)
(* A file without a header, or one that ends within a cube.                *)
(***************************************************************************)
LEMMA EndThrows ==
  ASSUME ParserInv, HeaderInv, StreamInv, RejectFile
  PROVE  ~WellFormed(file)
<1> SUFFICES ASSUME WellFormed(file) PROVE FALSE
  OBVIOUS
<1>1. AtEnd /\ pc = "line" /\ EndFault # "none"
  BY DEF RejectFile, AtEnd
<1>2. PICK h \in DOMAIN file : LineNumbers(file, "p") = {h}
  BY DEF WellFormed
<1>3. CASE have_header
  <2>1. literals_in_current > 0
    BY <1>1, <1>3 DEF EndFault
  <2>2. Stream(file) # <<>> => Last(Stream(file)) = 0
    BY DEF WellFormed
  <2>3. literals_in_current = 0
    BY <1>1, <2>2, EndFacts
  <2> QED BY <2>1, <2>3
<1>4. CASE ~have_header
  <2>1. h \in 1..next
    BY <1>1, EndFacts
  <2>2. file[h].kind = "skip" /\ file[h].kind = "p"
    BY <1>1, <1>2, <1>4, <2>1 DEF HeaderInv, LineNumbers
  <2> QED BY <2>2
<1> QED BY <1>3, <1>4

(***************************************************************************)
(* And why the return is.                                                  *)
(***************************************************************************)
LEMMA EndReturns ==
  ASSUME ParserInv, HeaderInv, StreamInv, EndFile
  PROVE  /\ file # NoFile /\ WellFormed(file)
         /\ \A k \in Inputs :
               IF k < CubeCount(Stream(file))
               THEN Models(dnf'[k]) = CubeModels(Stream(file), k)
               ELSE dnf'[k] = PadCube
<1> DEFINE s == Stream(file)
<1>1. AtEnd /\ have_header /\ literals_in_current = 0 /\ pc = "line"
  <2>1. literals_in_current \in Nat
    <3>1. IsFiniteSet(current.mask)
      <4>1. current.mask \in SUBSET Vars
        BY DEF ParserInv, TypeOK, Cubes
      <4> QED BY <4>1, VarsAssumption, FS_Subset
    <3> QED BY <3>1, FS_CardinalityType DEF ParserInv, TypeOK
  <2> QED BY <2>1 DEF EndFile, EndFault, AtEnd
<1>2. /\ file \in Seq(Lines) /\ file # NoFile /\ DOMAIN file = 1..next
      /\ s \in Seq(Int) /\ DOMAIN s = 1..Len(s)
      /\ Reading(s, Len(s), file_vars, cube_count, dnf, current)
      /\ cube_count = CubeCount(s) /\ (s # <<>> => Last(s) = 0)
  BY <1>1, EndFacts
<1>3. PICK h \in 1..next : HeaderBehind(h)
  BY <1>1 DEF HeaderInv
<1> HIDE DEF s
<1>4. LineNumbers(file, "p") = {h}
  BY <1>2, <1>3 DEF HeaderBehind, LineNumbers
<1>5. \A n \in LineNumbers(file, "literals") : n > h
  BY <1>2, <1>3 DEF HeaderBehind, LineNumbers
<1>6. \A n \in DOMAIN s : Abs(s[n]) <= extracted(file[h].vars)
  BY <1>2, <1>3 DEF HeaderBehind, Reading
<1>7. \A k \in 0..CubeCount(s) : \A m, n \in Positions(s, k) :
        m # n => Abs(s[m]) # Abs(s[n])
  BY <1>2 DEF Positions, Reading
<1>8. CubeCount(s) <= CUBES /\ cube_count \in 0..CUBES
  BY <1>2, Capacities DEF ParserInv, TypeOK
<1>9. WellFormed(file)
  BY <1>2, <1>3, <1>4, <1>5, <1>6, <1>7, <1>8 DEF WellFormed, HeaderBehind, s
<1>10. ASSUME NEW k \in Inputs
       PROVE  IF k < CubeCount(s) THEN Models(dnf'[k]) = CubeModels(s, k)
                                  ELSE dnf'[k] = PadCube
  <2>1. dnf'[k] = IF k < cube_count THEN dnf[k] ELSE PadCube
    BY DEF EndFile
  <2>2. k < cube_count => k \in 0 .. cube_count - 1
    BY <1>8, Capacities DEF Inputs
  <2> QED BY <1>2, <2>1, <2>2 DEF Reading
<1> QED BY <1>2, <1>9, <1>10 DEF s
-----------------------------------------------------------------------------
(***************************************************************************)
(* The invariant holds initially: nothing is behind.                       *)
(***************************************************************************)
LEMMA InitMeaningInv == Init => MeaningInv
<1> SUFFICES ASSUME Init PROVE MeaningInv
  OBVIOUS
<1>1. ParserInv
  BY InitParserInv
<1>2. HeaderInv
  BY DEF Init, HeaderInv
<1> QED
  BY <1>1, <1>2
  DEF Init, MeaningInv, LineInv, StreamInv, AcceptsWellFormed, CubesMeanFile

(***************************************************************************)
(* Where a line that is not of literals ends is where it begins.           *)
(***************************************************************************)
LEMMA LineWithoutTokens ==
  ASSUME TypeOK, pc = "line", next < Len(file), Line.kind # "literals"
  PROVE  Offset(file)[next + 1] = Offset(file)[next]
<1>1. file \in Seq(Lines) /\ next + 1 \in 1..Len(file) /\ next \in 0..Len(file)
  BY FileFacts
<1>2. Part(file[next + 1]) = <<>>
  BY DEF Part, Line
<1>3. Offset(file)[next + 1] = Offset(file)[(next + 1) - 1] + Len(<<>>)
  BY <1>1, <1>2, StreamFacts
<1>4. (next + 1) - 1 = next /\ Len(<<>>) = 0
  BY <1>1
<1>5. Offset(file)[next] \in Nat
  BY <1>1, StreamFacts
<1> QED BY <1>3, <1>4, <1>5

(***************************************************************************)
(* Every step preserves it.                                                *)
(***************************************************************************)
LEMMA NextMeaningInv == MeaningInv /\ [Next]_vars => MeaningInv'
<1> SUFFICES ASSUME MeaningInv, [Next]_vars PROVE MeaningInv'
  OBVIOUS
<1>1. /\ ParserInv /\ TypeOK /\ CubesInv
      /\ LineInv /\ HeaderInv /\ StreamInv /\ AcceptsWellFormed /\ CubesMeanFile
  BY DEF MeaningInv, ParserInv
<1>2. ParserInv'
  BY <1>1, NextParserInv
<1>3. SUFFICES /\ LineInv' /\ HeaderInv' /\ StreamInv'
               /\ AcceptsWellFormed' /\ CubesMeanFile'
  BY <1>2 DEF MeaningInv
<1>4. ASSUME pc' \in {"line", "token"}
      PROVE  AcceptsWellFormed' /\ CubesMeanFile'
  BY <1>4 DEF AcceptsWellFormed, CubesMeanFile
<1>5. ASSUME NEW why, Throw(why), file = NoFile \/ ~WellFormed(file)
      PROVE  /\ LineInv' /\ HeaderInv' /\ StreamInv'
             /\ AcceptsWellFormed' /\ CubesMeanFile'
  BY <1>5
  DEF Throw, LineInv, HeaderInv, StreamInv, AcceptsWellFormed, CubesMeanFile
<1>6. CASE Open
  <2>1. /\ pc = "open" /\ pc' = "line" /\ next = 0 /\ next' = next /\ file' = file
        /\ ~have_header' /\ cube_count' = 0 /\ current' = ZeroCube
        /\ file \in Seq(Lines)
    <3>1. ~have_header
      <4>1. next = 0
        BY <1>1, <1>6 DEF Open, TypeOK
      <4> QED BY <1>1, <1>6, <4>1 DEF Open, HeaderInv
    <3> QED
      BY <1>1, <1>6, <3>1, FilesAssumption
      DEF Open, TypeOK, HeaderInv, headerVars, cubeVars
  <2>2. Offset(file')[next'] = 0
    BY <2>1, StreamFacts
  <2>3. LineInv' /\ HeaderInv'
    BY <2>1, <2>2 DEF LineInv, HeaderInv
  <2>4. StreamInv'
    <3>1. Position' = 0
      BY <2>1, <2>2 DEF Position
    <3> QED BY <2>1, <3>1, ReadNothing DEF StreamInv
  <2> QED BY <1>4, <2>1, <2>3, <2>4
<1>7. CASE OpenFails
  BY <1>5, <1>7 DEF OpenFails
<1>8. CASE Skip
  <2>1. /\ pc = "line" /\ pc' = "line" /\ next' = next + 1 /\ file' = file
        /\ have_header' = have_header /\ file_vars' = file_vars /\ dnf' = dnf
        /\ cube_count' = cube_count /\ current' = current
        /\ file[next + 1].kind = "skip" /\ Line.kind # "literals" /\ next < Len(file)
    BY <1>8 DEF Skip, AtLine, Line, headerVars, cubeVars
  <2>2. next \in Nat /\ \A n : n \in 1..next' <=> n \in 1..next \/ n = next + 1
    BY <1>1, <2>1, FileFacts
  <2>3. Offset(file')[next'] = Offset(file)[next]
    BY <1>1, <2>1, LineWithoutTokens
  <2>4. HeaderInv'
    <3>1. CASE have_header
      <4>1. PICK h \in 1..next : HeaderBehind(h)
        BY <1>1, <2>1, <3>1 DEF HeaderInv
      <4>2. HeaderBehind(h)' /\ h \in 1..next'
        BY <2>1, <2>2, <4>1 DEF HeaderBehind
      <4> QED BY <2>1, <3>1, <4>2 DEF HeaderInv
    <3>2. CASE ~have_header
      BY <1>1, <2>1, <2>2, <2>3, <3>2 DEF HeaderInv
    <3> QED BY <3>1, <3>2
  <2>5. StreamInv' /\ LineInv'
    <3>1. Position' = Position
      BY <2>1, <2>3 DEF Position
    <3> QED BY <1>1, <2>1, <3>1 DEF StreamInv, LineInv
  <2> QED BY <1>4, <2>1, <2>4, <2>5
<1>9. CASE ReadHeader
  <2>1. /\ pc = "line" /\ pc' = "line" /\ next' = next + 1 /\ file' = file
        /\ have_header' /\ file_vars' = extracted(Line.vars) /\ dnf' = dnf
        /\ cube_count' = cube_count /\ current' = ZeroCube
        /\ Line.kind = "p" /\ Line = file[next + 1] /\ next < Len(file)
    BY <1>9 DEF ReadHeader, AtLine, Line
  <2>2. next \in Nat /\ \A n : n \in 1..next' <=> n \in 1..next \/ n = next + 1
    BY <1>1, <2>1, FileFacts
  <2>3. ~have_header /\ GoodHeader(Line)
    <3>1. Line \in HeaderLine
      BY <1>1, <2>1, LineTypes DEF Line
    <3>2. extracted(Line.vars) \in Int /\ extracted(Line.cubes) \in Int
      BY <3>1 DEF extracted, HeaderLine, Tokens, Unreadable, MaxInt
    <3> QED BY <1>9, <3>2, Capacities DEF ReadHeader, HeaderFault, GoodHeader
  <2>4. /\ \A n \in 1..next : file[n].kind = "skip"
        /\ Offset(file)[next] = 0 /\ cube_count = 0
    BY <1>1, <2>1, <2>3 DEF HeaderInv
  <2>5. Position' = 0
    <3>1. Offset(file)[next + 1] = 0
      BY <1>1, <2>1, <2>4, LineWithoutTokens
    <3> QED BY <2>1, <3>1 DEF Position
  <2>6. HeaderInv'
    <3>1. PICK h : h = next + 1
      OBVIOUS
    <3>2. /\ file'[h] = Line /\ h \in 1..next'
          /\ \A n \in 1..next' : n # h => file'[n].kind = "skip"
      BY <2>1, <2>2, <2>4, <3>1
    <3>3. HeaderBehind(h)'
      BY <2>1, <2>2, <2>3, <3>2 DEF HeaderBehind
    <3> QED BY <2>1, <3>2, <3>3 DEF HeaderInv
  <2>7. StreamInv' /\ LineInv'
    BY <2>1, <2>4, <2>5, ReadNothing DEF StreamInv, LineInv
  <2> QED BY <1>4, <2>1, <2>6, <2>7
<1>10. CASE RejectHeader \/ RejectEarlyLiterals
  BY <1>1, <1>5, <1>10, HeaderThrows DEF RejectHeader, RejectEarlyLiterals
<1>11. CASE BeginLiterals
  <2>1. /\ pc = "line" /\ pc' = "token" /\ next' = next /\ file' = file
        /\ have_header /\ have_header' = have_header /\ file_vars' = file_vars
        /\ dnf' = dnf /\ cube_count' = cube_count /\ current' = current
        /\ rest' = Line.tokens /\ Line' = Line
        /\ Line.kind = "literals" /\ next < Len(file)
    BY <1>11 DEF BeginLiterals, AtLine, Line, headerVars, cubeVars
  <2>2. Line.tokens \in Seq(Tokens)
    BY <1>1, <2>1, LineTypes
  <2>3. Taken' = 0
    <3>1. Len(Line.tokens) \in Nat
      BY <2>2
    <3> QED BY <2>1, <3>1 DEF Taken
  <2>4. LineInv'
    <3>1. \A m \in 1..Len(rest') : rest'[m] = Line.tokens[0 + m]
      BY <2>1, <2>2
    <3> QED BY <2>1, <2>3, <3>1 DEF LineInv
  <2>5. HeaderInv'
    <3>1. PICK h \in 1..next : HeaderBehind(h)
      BY <1>1, <2>1 DEF HeaderInv
    <3>2. HeaderBehind(h)'
      BY <2>1, <3>1 DEF HeaderBehind
    <3> QED BY <2>1, <3>2 DEF HeaderInv
  <2>6. StreamInv'
    <3>1. Position' = Position
      <4>1. Offset(file)[next] \in Nat
        BY <1>1, <2>1, FileFacts, StreamFacts
      <4> QED BY <2>1, <2>3, <4>1 DEF Position
    <3> QED BY <1>1, <2>1, <3>1 DEF StreamInv
  <2> QED BY <1>4, <2>1, <2>4, <2>5, <2>6
<1>12. ASSUME AtToken, rest' = Tail(rest), pc' = pc, file' = file, next' = next,
              have_header' = have_header, file_vars' = file_vars
       PROVE  /\ LineInv' /\ HeaderInv' /\ AcceptsWellFormed' /\ CubesMeanFile'
              /\ Position' = Position + 1
  <2>1. /\ pc = "token" /\ have_header /\ Line' = Line /\ Line.kind = "literals"
        /\ Taken \in Nat
    BY <1>1, <1>12 DEF AtToken, LineInv, Line
  <2>2. /\ rest \in Seq(Tokens) /\ rest # <<>> /\ Len(rest) \in Nat /\ Len(rest) > 0
        /\ Len(Tail(rest)) = Len(rest) - 1
        /\ \A m \in 1 .. Len(rest) - 1 : Tail(rest)[m] = rest[m + 1]
        /\ Head(rest) = rest[1]
    BY <1>1, <1>12 DEF TypeOK, AtToken
  <2>3. Line.tokens \in Seq(Tokens)
    BY <1>1, <2>1, TokenFacts
  <2>4. Taken' = Taken + 1
    <3>1. Len(Line.tokens) \in Nat
      BY <2>3
    <3> QED BY <1>12, <2>1, <2>2, <3>1 DEF Taken
  <2>5. LineInv'
    <3>1. /\ \A m \in 1..Len(rest) : rest[m] = Line.tokens[Taken + m]
          /\ \A m \in 1..Taken : Line.tokens[m] \notin Unreadable
      BY <1>1, <2>1 DEF LineInv
    <3>2. ASSUME NEW m \in 1..Len(rest') PROVE rest'[m] = Line.tokens[(Taken + 1) + m]
      <4>1. m \in 1 .. Len(rest) - 1 /\ m + 1 \in 1..Len(rest)
            /\ Taken + (m + 1) = (Taken + 1) + m
        BY <1>12, <2>1, <2>2, <3>2
      <4> QED BY <1>12, <2>2, <3>1, <4>1
    <3>3. ASSUME NEW m \in 1 .. Taken + 1 PROVE Line.tokens[m] \notin Unreadable
      <4>1. Line.tokens[Taken + 1] = Head(rest)
        BY <2>2, <3>1
      <4>2. m \in 1..Taken \/ m = Taken + 1
        BY <2>1
      <4> QED BY <1>12, <3>1, <4>1, <4>2 DEF AtToken
    <3>4. Taken' \in Nat
      BY <2>1, <2>4
    <3>5. \A m \in 1..Len(rest') : rest'[m] = Line'.tokens[Taken' + m]
      BY <2>1, <2>4, <3>2
    <3>6. \A m \in 1..Taken' : Line'.tokens[m] \notin Unreadable
      BY <2>1, <2>4, <3>3
    <3> QED BY <1>12, <2>1, <3>4, <3>5, <3>6 DEF LineInv
  <2>6. HeaderInv'
    <3>1. PICK h \in 1..next : HeaderBehind(h)
      BY <1>1, <2>1 DEF HeaderInv
    <3>2. HeaderBehind(h)'
      BY <1>12, <3>1 DEF HeaderBehind
    <3> QED BY <1>12, <2>1, <3>2 DEF HeaderInv
  <2>7. Position' = Position + 1
    <3>1. Offset(file)[next] \in Nat
      BY <1>1, <2>1, FileFacts, StreamFacts
    <3> QED BY <1>12, <2>1, <2>4, <3>1 DEF Position
  <2> QED BY <1>4, <1>12, <2>1, <2>5, <2>6, <2>7
<1>13. ASSUME AtToken
       PROVE  /\ Stream(file) \in Seq(Int) /\ Position \in Nat
              /\ Position < Len(Stream(file))
              /\ Stream(file)[Position + 1] = Head(rest)
              /\ Reading(Stream(file), Position, file_vars, cube_count, dnf, current)
  <2>1. pc = "token"
    BY <1>13 DEF AtToken
  <2> QED BY <1>1, <1>13, <2>1, FileFacts, StreamFacts, TokenFacts DEF StreamInv
<1>14. CASE EndCube
  <2>1. /\ AtToken /\ pc' = pc /\ Head(rest) = 0 /\ cube_count < CUBES
        /\ dnf' = [dnf EXCEPT ![cube_count] = current]
        /\ cube_count' = cube_count + 1 /\ current' = ZeroCube
        /\ rest' = Tail(rest) /\ file' = file /\ next' = next
        /\ have_header' = have_header /\ file_vars' = file_vars
    BY <1>14 DEF EndCube, headerVars
  <2>2. /\ LineInv' /\ HeaderInv' /\ AcceptsWellFormed' /\ CubesMeanFile'
        /\ Position' = Position + 1
    BY <1>12, <2>1
  <2>3. current \in RealCubes /\ dnf \in [Inputs -> Cubes] /\ file_vars \in Nat
    BY <1>1, Capacities DEF CubesInv, TypeOK
  <2>4. Reading(Stream(file), Position + 1, file_vars, cube_count + 1, dnf', ZeroCube)
    BY <1>13, <2>1, <2>3, ReadZero
  <2> QED BY <2>1, <2>2, <2>4 DEF StreamInv
<1>15. CASE RejectExtraCube \/ RejectLiteral
  BY <1>1, <1>5, <1>15, TokenThrows DEF RejectExtraCube, RejectLiteral
<1>16. CASE AddLiteral
  <2>1. /\ AtToken /\ pc' = pc /\ Head(rest) # 0
        /\ Head(rest) \in Int
        /\ LiteralFault(Head(rest)) = "none"
        /\ current' = [current EXCEPT
                         !.mask = @ \cup {Abs(Head(rest))},
                         !.bits = IF Head(rest) > 0 THEN @ \cup {Abs(Head(rest))}
                                                    ELSE @ \ {Abs(Head(rest))}]
        /\ dnf' = dnf /\ cube_count' = cube_count
        /\ rest' = Tail(rest) /\ file' = file /\ next' = next
        /\ have_header' = have_header /\ file_vars' = file_vars
    BY <1>1, <1>16, TokenTypes DEF AddLiteral, headerVars
  <2>2. /\ LineInv' /\ HeaderInv' /\ AcceptsWellFormed' /\ CubesMeanFile'
        /\ Position' = Position + 1
    BY <1>12, <2>1
  <2>3. /\ current \in RealCubes /\ file_vars \in Int
        /\ Abs(Head(rest)) <= file_vars /\ Abs(Head(rest)) \notin current.mask
    <3>1. Abs(Head(rest)) \in Int
      BY <2>1 DEF Abs
    <3> QED BY <1>1, <2>1, <3>1, Capacities DEF LiteralFault, CubesInv, TypeOK
  <2>4. Reading(Stream(file), Position + 1, file_vars, cube_count, dnf, current')
    BY <1>13, <2>1, <2>3, ReadLiteral
  <2> QED BY <2>1, <2>2, <2>4 DEF StreamInv
<1>17. CASE EndLine
  <2>1. /\ pc = "token" /\ ~AtToken /\ pc' = "line" /\ next' = next + 1 /\ file' = file
        /\ have_header' = have_header /\ file_vars' = file_vars /\ dnf' = dnf
        /\ cube_count' = cube_count /\ current' = current
    BY <1>17 DEF EndLine, headerVars, cubeVars
  <2>2. have_header /\ file[next + 1].kind = "literals"
    BY <1>1, <2>1 DEF LineInv, Line
  <2>3. next \in Nat /\ \A n : n \in 1..next' <=> n \in 1..next \/ n = next + 1
    BY <1>1, <2>1, FileFacts
  <2>4. HeaderInv'
    <3>1. PICK h \in 1..next : HeaderBehind(h)
      BY <1>1, <2>1, <2>2 DEF HeaderInv
    <3>2. HeaderBehind(h)' /\ h \in 1..next'
      BY <2>1, <2>2, <2>3, <3>1 DEF HeaderBehind
    <3> QED BY <2>1, <2>2, <3>2 DEF HeaderInv
  <2>5. StreamInv' /\ LineInv'
    <3>1. Position' = Position
      <4>1. Position = Offset(file)[next + 1] /\ Position \in Nat
        BY <1>1, <2>1, TokenFacts
      <4> QED BY <2>1, <4>1 DEF Position
    <3> QED BY <1>1, <2>1, <3>1 DEF StreamInv, LineInv
  <2> QED BY <1>4, <2>1, <2>4, <2>5
<1>18. CASE EndFile
  <2>1. pc' = "returned" /\ file' = file
    BY <1>18 DEF EndFile
  <2>2. LineInv' /\ HeaderInv' /\ StreamInv'
    BY <2>1 DEF LineInv, HeaderInv, StreamInv
  <2>3. AcceptsWellFormed' /\ CubesMeanFile'
    BY <1>1, <1>18, <2>1, EndReturns DEF AcceptsWellFormed, CubesMeanFile
  <2> QED BY <2>2, <2>3
<1>19. CASE RejectFile
  BY <1>1, <1>5, <1>19, EndThrows DEF RejectFile
<1>20. CASE Terminating \/ UNCHANGED vars
  <2>1. UNCHANGED <<pc, file, next, rest, have_header, file_vars, dnf, cube_count, current>>
    BY <1>20 DEF Terminating, vars, headerVars, cubeVars
  <2> QED
    BY <1>1, <2>1
    DEF LineInv, HeaderInv, HeaderBehind, StreamInv, Position, Taken, Line,
        AcceptsWellFormed, CubesMeanFile
<1> QED
  BY <1>6, <1>7, <1>8, <1>9, <1>10, <1>11, <1>14, <1>15, <1>16, <1>17, <1>18,
     <1>19, <1>20 DEF Next

(***************************************************************************)
(* For every capacity and every file: parse returns only for well-formed   *)
(* files and throws only for the others.                                   *)
(***************************************************************************)
THEOREM ParserAcceptsWellFormed == Spec => []AcceptsWellFormed
<1>1. MeaningInv => AcceptsWellFormed
  BY DEF MeaningInv
<1> QED BY <1>1, InitMeaningInv, NextMeaningInv, PTL DEF Spec

(***************************************************************************)
(* For every capacity and every file: each cube returned has the models of *)
(* the file's cube of its number, and all others are filler.               *)
(***************************************************************************)
THEOREM ParserKeepsMeaning == Spec => []CubesMeanFile
<1>1. MeaningInv => CubesMeanFile
  BY DEF MeaningInv
<1> QED BY <1>1, InitMeaningInv, NextMeaningInv, PTL DEF Spec

(***************************************************************************)
(* So what parse returns stands for the file: the circuit's assumption on  *)
(* its inputs and their meaning, in the one fact that a caller needs.      *)
(***************************************************************************)
THEOREM ParserDelivers == Spec => [](pc = "returned" => dnf \in Parses(file))
<1>1. TypeOK /\ ReturnsParsedDnf /\ AcceptsWellFormed /\ CubesMeanFile
         => (pc = "returned" => dnf \in Parses(file))
  <2> SUFFICES ASSUME TypeOK, ReturnsParsedDnf, AcceptsWellFormed, CubesMeanFile,
                      pc = "returned"
               PROVE  dnf \in Parses(file)
    OBVIOUS
  <2> DEFINE s == Stream(file)
  <2>1. dnf \in ParsedDnfs /\ WellFormed(file)
    BY DEF ReturnsParsedDnf, AcceptsWellFormed
  <2>2. CubeCount(s) \in 0..CUBES
    <3>1. file \in Seq(Lines)
      BY FilesAssumption DEF TypeOK
    <3>2. s \in Seq(Int) /\ Len(s) \in Nat
      BY <3>1, StreamFacts
    <3>3. CubeCount(s) \in Nat
      BY <3>2, CubeCountIsZeros, ZerosFacts
    <3> QED BY <2>1, <3>3, CubesAssumption DEF WellFormed
  <2>3. Models(PadCube) = {}
    BY DEF Models, PadCube
  <2>4. \A k \in Inputs :
           Models(dnf[k]) = IF k < CubeCount(s) THEN CubeModels(s, k) ELSE {}
    BY <2>3 DEF CubesMeanFile
  <2> QED BY <2>1, <2>2, <2>4 DEF Parses
<1> QED BY <1>1, ParserTypeCorrect, ParserMeetsDnfsAssumption, ParserAcceptsWellFormed,
           ParserKeepsMeaning, PTL
-----------------------------------------------------------------------------
(***************************************************************************)
(* That parse ends, but for the fairness: until it returns or throws it    *)
(* can go on, and it goes on no more than so many times.                   *)
(*                                                                         *)
(* The next state field by field.                                          *)
(***************************************************************************)
Becomes(at, n, r, head, range, d, count, cur, lits) ==
    /\ pc' = at /\ next' = n /\ rest' = r
    /\ have_header' = head /\ file_vars' = range
    /\ dnf' = d /\ cube_count' = count
    /\ current' = cur /\ literals_in_current' = lits
    /\ file' = file /\ error' = error

(***************************************************************************)
(* The guards of the steps.                                                *)
(***************************************************************************)
ParserGoesOn ==
    \/ pc = "open" \/ AtLine("skip") \/ AtLine("p") \/ AtLine("literals")
    \/ AtToken \/ (pc = "token" /\ ~AtToken) \/ AtEnd

(***************************************************************************)
(* Under each guard there is one thing that parse does: it assigns to its  *)
(* variables, or throws, and nothing else keeps that from happening.       *)
(***************************************************************************)
LEMMA GuardedParsing ==
  ASSUME TypeOK
  PROVE
  /\ Open \/ OpenFails <=>
        /\ pc = "open"
        /\ IF file = NoFile THEN Throw("cannot open")
           ELSE Becomes("line", next, rest, have_header, file_vars,
                        dnf, cube_count, current, literals_in_current)
  /\ Skip <=>
        /\ AtLine("skip")
        /\ Becomes(pc, next + 1, rest, have_header, file_vars,
                   dnf, cube_count, current, literals_in_current)
  /\ ReadHeader \/ RejectHeader <=>
        /\ AtLine("p")
        /\ IF HeaderFault # "none" THEN Throw(HeaderFault)
           ELSE Becomes(pc, next + 1, rest, TRUE, extracted(Line.vars),
                        dnf, cube_count, ZeroCube, 0)
  /\ BeginLiterals \/ RejectEarlyLiterals <=>
        /\ AtLine("literals")
        /\ IF ~have_header THEN Throw("literals before header")
           ELSE Becomes("token", next, Line.tokens, have_header, file_vars,
                        dnf, cube_count, current, literals_in_current)
  /\ EndCube \/ RejectExtraCube \/ AddLiteral \/ RejectLiteral <=>
        /\ AtToken
        /\ IF Head(rest) = 0
           THEN IF cube_count >= CUBES THEN Throw("more cubes than capacity")
                ELSE Becomes(pc, next, Tail(rest), have_header, file_vars,
                             [dnf EXCEPT ![cube_count] = current], cube_count + 1,
                             ZeroCube, 0)
           ELSE LET var == Abs(Head(rest))
                IN  IF LiteralFault(Head(rest)) # "none" THEN Throw(LiteralFault(Head(rest)))
                    ELSE Becomes(pc, next, Tail(rest), have_header, file_vars,
                                 dnf, cube_count,
                                 [current EXCEPT
                                    !.mask = @ \cup {var},
                                    !.bits = IF Head(rest) > 0 THEN @ \cup {var}
                                                               ELSE @ \ {var}],
                                 literals_in_current + 1)
  /\ EndLine <=>
        /\ pc = "token" /\ ~AtToken
        /\ Becomes("line", next + 1, <<>>, have_header, file_vars,
                   dnf, cube_count, current, literals_in_current)
  /\ EndFile \/ RejectFile <=>
        /\ AtEnd
        /\ IF EndFault # "none" THEN Throw(EndFault)
           ELSE Becomes("returned", next, rest, have_header, file_vars,
                        [k \in Inputs |-> IF k < cube_count THEN dnf[k] ELSE PadCube],
                        CUBES, current, literals_in_current)
<1> USE DEF Becomes, headerVars, cubeVars
<1>1. Open \/ OpenFails <=>
         /\ pc = "open"
         /\ IF file = NoFile THEN Throw("cannot open")
            ELSE Becomes("line", next, rest, have_header, file_vars,
                         dnf, cube_count, current, literals_in_current)
  BY DEF Open, OpenFails
<1>2. Skip <=>
         /\ AtLine("skip")
         /\ Becomes(pc, next + 1, rest, have_header, file_vars,
                    dnf, cube_count, current, literals_in_current)
  BY DEF Skip
<1>3. ReadHeader \/ RejectHeader <=>
         /\ AtLine("p")
         /\ IF HeaderFault # "none" THEN Throw(HeaderFault)
            ELSE Becomes(pc, next + 1, rest, TRUE, extracted(Line.vars),
                         dnf, cube_count, ZeroCube, 0)
  BY DEF ReadHeader, RejectHeader
<1>4. BeginLiterals \/ RejectEarlyLiterals <=>
         /\ AtLine("literals")
         /\ IF ~have_header THEN Throw("literals before header")
            ELSE Becomes("token", next, Line.tokens, have_header, file_vars,
                         dnf, cube_count, current, literals_in_current)
  BY DEF BeginLiterals, RejectEarlyLiterals
<1>5. ASSUME Head(rest) = 0
      PROVE  EndCube \/ RejectExtraCube \/ AddLiteral \/ RejectLiteral <=>
                /\ AtToken
                /\ IF cube_count >= CUBES THEN Throw("more cubes than capacity")
                   ELSE Becomes(pc, next, Tail(rest), have_header, file_vars,
                                [dnf EXCEPT ![cube_count] = current], cube_count + 1,
                                ZeroCube, 0)
  <2>1. cube_count < CUBES <=> ~(cube_count >= CUBES)
    BY Capacities DEF TypeOK
  <2> QED BY <1>5, <2>1 DEF EndCube, RejectExtraCube, AddLiteral, RejectLiteral
<1>6. ASSUME Head(rest) # 0
      PROVE  EndCube \/ RejectExtraCube \/ AddLiteral \/ RejectLiteral <=>
                /\ AtToken
                /\ LET var == Abs(Head(rest))
                   IN  IF LiteralFault(Head(rest)) # "none"
                       THEN Throw(LiteralFault(Head(rest)))
                       ELSE Becomes(pc, next, Tail(rest), have_header, file_vars,
                                    dnf, cube_count,
                                    [current EXCEPT
                                       !.mask = @ \cup {var},
                                       !.bits = IF Head(rest) > 0 THEN @ \cup {var}
                                                                  ELSE @ \ {var}],
                                    literals_in_current + 1)
  BY <1>6 DEF EndCube, RejectExtraCube, AddLiteral, RejectLiteral
<1>7. EndLine <=>
         /\ pc = "token" /\ ~AtToken
         /\ Becomes("line", next + 1, <<>>, have_header, file_vars,
                    dnf, cube_count, current, literals_in_current)
  BY DEF EndLine
<1>8. EndFile \/ RejectFile <=>
         /\ AtEnd
         /\ IF EndFault # "none" THEN Throw(EndFault)
            ELSE Becomes("returned", next, rest, have_header, file_vars,
                         [k \in Inputs |-> IF k < cube_count THEN dnf[k] ELSE PadCube],
                         CUBES, current, literals_in_current)
  BY DEF EndFile, RejectFile
<1> HIDE DEF Becomes
<1> QED BY <1>1, <1>2, <1>3, <1>4, <1>5, <1>6, <1>7, <1>8

(***************************************************************************)
(* Until parse has returned or thrown one of the guards holds.             *)
(***************************************************************************)
LEMMA ParsingGoesOn == TypeOK => (pc \notin {"returned", "thrown"} <=> ParserGoesOn)
<1> SUFFICES ASSUME TypeOK PROVE pc \notin {"returned", "thrown"} <=> ParserGoesOn
  OBVIOUS
<1>1. CASE pc = "line"
  <2>1. /\ Len(file) \in Nat /\ next \in 0..Len(file)
        /\ \A n \in 1..Len(file) : file[n].kind \in {"skip", "p", "literals"}
    BY <1>1, FileFacts
  <2>2. CASE next < Len(file)
    <3>1. next + 1 \in 1..Len(file)
      BY <2>1, <2>2
    <3> QED BY <1>1, <2>1, <2>2, <3>1 DEF AtLine, ParserGoesOn
  <2>3. CASE next = Len(file)
    BY <1>1, <2>3 DEF AtEnd, ParserGoesOn
  <2> QED BY <2>1, <2>2, <2>3
<1>2. CASE pc # "line"
  BY <1>2 DEF TypeOK, ParserGoesOn, AtLine, AtToken, AtEnd
<1> QED BY <1>1, <1>2

(***************************************************************************)
(* How far parse has come: two steps for each line behind, one for each    *)
(* token taken, and the end.                                               *)
(***************************************************************************)
ParsingBound == IF file = NoFile THEN 1 ELSE 2 + 2 * Len(file) + Len(Stream(file))
Parsed ==
    CASE pc = "open" -> 0
      [] pc = "line" -> 1 + 2 * next + Position
      [] pc = "token" -> 2 + 2 * next + Position
      [] pc \in {"returned", "thrown"} -> ParsingBound

(***************************************************************************)
(* The parser is somewhere in the stream, and before its end until it is   *)
(* at the end of the file.                                                 *)
(***************************************************************************)
LEMMA ParsedFacts ==
  ASSUME MeaningInv
  PROVE  /\ ParsingBound \in Nat /\ Parsed \in 0..ParsingBound
         /\ pc \in {"open", "line", "token"} => Parsed < ParsingBound
         /\ pc \in {"line", "token"} =>
               /\ Position \in Nat /\ next \in Nat
               /\ file \in Seq(Lines) /\ file # NoFile
<1>1. TypeOK /\ LineInv
  BY DEF MeaningInv, ParserInv
<1>2. ParsingBound \in Nat /\ ParsingBound > 0
  <2>1. CASE file = NoFile
    BY <2>1 DEF ParsingBound
  <2>2. CASE file # NoFile
    <3>1. Len(file) \in Nat /\ Len(Stream(file)) \in Nat
      <4>1. file \in Seq(Lines)
        BY <1>1, <2>2, FilesAssumption DEF TypeOK
      <4>2. Stream(file) \in Seq(Int)
        BY <4>1, StreamFacts
      <4> QED BY <4>1, <4>2
    <3> QED BY <2>2, <3>1 DEF ParsingBound
  <2> QED BY <2>1, <2>2
<1>3. ASSUME pc \in {"line", "token"}
      PROVE  /\ Position \in Nat /\ next \in Nat /\ Parsed \in Nat
             /\ file \in Seq(Lines) /\ file # NoFile
             /\ Parsed < ParsingBound
  <2> DEFINE l == Len(file)
             s == Len(Stream(file))
  <2>1. /\ file \in Seq(Lines) /\ file # NoFile /\ l \in Nat /\ next \in 0..l
        /\ Offset(file) \in [0..l -> Nat] /\ Stream(file) \in Seq(Int)
        /\ Offset(file)[l] = s
        /\ \A n \in 1..l : Offset(file)[n] <= s
    BY <1>1, <1>3, FileFacts, StreamFacts
  <2>2. s \in Nat /\ ParsingBound = 2 + 2 * l + s
    BY <2>1 DEF ParsingBound
  <2>3. Offset(file)[0] = 0
    BY <2>1, StreamFacts
  <2> HIDE DEF l, s
  <2>4. Offset(file)[next] \in Nat /\ Offset(file)[next] <= s
    <3>1. CASE next = 0
      BY <2>1, <2>2, <2>3, <3>1
    <3>2. CASE next # 0
      <4>1. next \in 1..l
        BY <2>1, <3>2
      <4> QED BY <2>1, <4>1
    <3> QED BY <3>1, <3>2
  <2>5. CASE pc = "line"
    <3>1. Position = Offset(file)[next]
      <4>1. Position = Offset(file)[next] + 0
        BY <2>5 DEF Position
      <4> QED BY <2>4, <4>1
    <3>2. Parsed = 1 + 2 * next + Position
      BY <2>5 DEF Parsed
    <3> QED BY <2>1, <2>2, <2>4, <3>1, <3>2
  <2>6. CASE pc = "token"
    <3>1. next < l
      BY <1>1, <2>6 DEF TypeOK, l
    <3>2. Position \in Nat /\ Position <= s
      <4>1. /\ Position \in Nat
            /\ AtToken => Position < s
            /\ ~AtToken => Position = Offset(file)[next + 1]
        BY <1>1, <2>6, TokenFacts DEF s
      <4>2. next + 1 \in 1..l
        BY <2>1, <3>1
      <4> QED BY <2>1, <2>2, <4>1, <4>2
    <3>3. Parsed = 2 + 2 * next + Position
      BY <2>6 DEF Parsed
    <3> QED BY <2>1, <2>2, <3>1, <3>2, <3>3
  <2> QED BY <1>3, <2>5, <2>6
<1>4. CASE pc = "open"
  BY <1>2, <1>4 DEF Parsed
<1>5. CASE pc \in {"line", "token"}
  BY <1>2, <1>3, <1>5
<1>6. CASE pc \in {"returned", "thrown"}
  <2>1. Parsed = ParsingBound
    BY <1>6 DEF Parsed
  <2> QED BY <1>2, <1>6, <2>1
<1> QED BY <1>1, <1>2, <1>3, <1>4, <1>5, <1>6 DEF TypeOK

(***************************************************************************)
(* Every step takes it further.                                            *)
(***************************************************************************)
LEMMA ParsingAdvances ==
  MeaningInv /\ [Next]_vars => [Parsed' > Parsed]_vars
<1> SUFFICES ASSUME MeaningInv, Next PROVE Parsed' > Parsed \/ UNCHANGED vars
  OBVIOUS
<1>1. TypeOK /\ LineInv /\ file' = file
  BY DEF MeaningInv, ParserInv, Next, Open, OpenFails, Skip, ReadHeader, RejectHeader,
         BeginLiterals, RejectEarlyLiterals, EndCube, RejectExtraCube, AddLiteral,
         RejectLiteral, EndLine, EndFile, RejectFile, Terminating, Throw, vars
<1>2. /\ ParsingBound \in Nat /\ Parsed \in 0..ParsingBound
      /\ pc \in {"open", "line", "token"} => Parsed < ParsingBound
      /\ pc \in {"line", "token"} => /\ Position \in Nat /\ next \in Nat
                                     /\ file \in Seq(Lines)
  BY ParsedFacts
<1>3. ASSUME pc' \in {"returned", "thrown"}, pc \in {"open", "line", "token"}
      PROVE  Parsed' > Parsed
  <2>1. Parsed' = ParsingBound
    BY <1>1, <1>3 DEF Parsed, ParsingBound
  <2> QED BY <1>2, <1>3, <2>1
<1>4. CASE \/ OpenFails \/ RejectHeader \/ RejectEarlyLiterals \/ RejectExtraCube
           \/ RejectLiteral \/ EndFile \/ RejectFile
  BY <1>3, <1>4
  DEF OpenFails, RejectHeader, RejectEarlyLiterals, RejectExtraCube, RejectLiteral,
      EndFile, RejectFile, Throw, AtLine, AtToken, AtEnd
<1>5. CASE Open
  <2>1. pc = "open" /\ pc' = "line" /\ next' = 0 /\ file \in Seq(Lines)
    BY <1>1, <1>5, FilesAssumption DEF Open, TypeOK
  <2>2. Position' = 0
    <3>1. Offset(file)[0] = 0
      BY <2>1, StreamFacts
    <3> QED BY <1>1, <2>1, <3>1 DEF Position
  <2> QED BY <2>1, <2>2 DEF Parsed
<1>6. CASE Skip \/ ReadHeader
  <2>1. /\ pc = "line" /\ pc' = "line" /\ next' = next + 1
        /\ next < Len(file) /\ Line.kind # "literals"
    BY <1>6 DEF Skip, ReadHeader, AtLine, Line
  <2>2. Offset(file)[next + 1] = Offset(file)[next]
    BY <1>1, <2>1, LineWithoutTokens
  <2>3. Position' = Position
    BY <1>1, <2>1, <2>2 DEF Position
  <2> QED BY <1>2, <2>1, <2>3 DEF Parsed
<1>7. CASE BeginLiterals
  <2>1. /\ pc = "line" /\ pc' = "token" /\ next' = next /\ rest' = Line.tokens
        /\ Line' = Line /\ Line.kind = "literals" /\ next < Len(file)
    BY <1>1, <1>7 DEF BeginLiterals, AtLine, Line
  <2>2. Len(Line.tokens) \in Nat
    BY <1>1, <2>1, LineTypes
  <2>3. Taken' = 0
    BY <2>1, <2>2 DEF Taken
  <2>4. Position' = Position
    BY <1>1, <2>1, <2>3 DEF Position
  <2> QED BY <1>2, <2>1, <2>4 DEF Parsed
<1>8. CASE EndCube \/ AddLiteral
  <2>1. /\ pc = "token" /\ pc' = "token" /\ next' = next /\ Line' = Line
        /\ rest # <<>> /\ rest' = Tail(rest)
    BY <1>1, <1>8 DEF EndCube, AddLiteral, AtToken, Line
  <2>2. /\ rest \in Seq(Tokens) /\ Len(rest) \in Nat /\ Len(Tail(rest)) = Len(rest) - 1
        /\ Len(Line.tokens) \in Nat
    <3>1. rest \in Seq(Tokens)
      BY <1>1 DEF TypeOK
    <3>2. Line.tokens \in Seq(Tokens)
      BY <1>1, <2>1, TokenFacts
    <3> QED BY <2>1, <3>1, <3>2
  <2>3. Taken' = Taken + 1 /\ Taken \in Int
    BY <2>1, <2>2 DEF Taken
  <2>4. Offset(file)[next] \in Nat
    BY <1>1, <2>1, FileFacts, StreamFacts
  <2>5. Position' = Position + 1
    BY <1>1, <2>1, <2>3, <2>4 DEF Position
  <2> QED BY <1>2, <2>1, <2>5 DEF Parsed
<1>9. CASE EndLine
  <2>1. pc = "token" /\ ~AtToken /\ pc' = "line" /\ next' = next + 1
    BY <1>9 DEF EndLine
  <2>2. Position = Offset(file)[next + 1]
    BY <1>1, <2>1, TokenFacts
  <2>3. Position' = Position
    BY <1>1, <1>2, <2>1, <2>2 DEF Position
  <2> QED BY <1>2, <2>1, <2>3 DEF Parsed
<1>10. CASE Terminating
  BY <1>10 DEF Terminating
<1> QED BY <1>4, <1>5, <1>6, <1>7, <1>8, <1>9, <1>10 DEF Next

(***************************************************************************)
(* For every capacity and every file: parse can go on until it has         *)
(* returned or thrown, and each step brings it closer to a number of steps *)
(* told by the file's lines and tokens: no line is read twice and no loop  *)
(* runs on.  ParseEnds is this and the fairness of Spec.                   *)
(***************************************************************************)
THEOREM ParsingIsBounded ==
  Spec => /\ [](pc \notin {"returned", "thrown"} <=> ParserGoesOn)
          /\ [](Parsed \in 0..ParsingBound)
          /\ [][Parsed' > Parsed /\ ParsingBound' = ParsingBound]_vars
<1>1. Spec => []MeaningInv
  BY InitMeaningInv, NextMeaningInv, PTL DEF Spec
<1>2. MeaningInv => /\ Parsed \in 0..ParsingBound
                    /\ pc \notin {"returned", "thrown"} <=> ParserGoesOn
  BY ParsedFacts, ParsingGoesOn DEF MeaningInv, ParserInv
<1>3. [Next]_vars => [ParsingBound' = ParsingBound]_vars
  BY DEF Next, Open, OpenFails, Skip, ReadHeader, RejectHeader,
         BeginLiterals, RejectEarlyLiterals, EndCube, RejectExtraCube, AddLiteral,
         RejectLiteral, EndLine, EndFile, RejectFile, Terminating, Throw, vars, ParsingBound
<1>4. MeaningInv /\ [Next]_vars => [Parsed' > Parsed /\ ParsingBound' = ParsingBound]_vars
  BY <1>3, ParsingAdvances
<1> QED BY <1>1, <1>2, <1>4, PTL DEF Spec
=============================================================================
