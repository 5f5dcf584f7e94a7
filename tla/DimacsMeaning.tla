--------------------------- MODULE DimacsMeaning ---------------------------
(***************************************************************************)
(* What a DIMACS DNF file says, told from the file as a whole, and what    *)
(* parse promises of it (the comment above dimacs_dnf::parse).             *)
(***************************************************************************)
EXTENDS DimacsParser, SequencesExt

LineNumbers(f, kind) == {n \in DOMAIN f : f[n].kind = kind}

(***************************************************************************)
(* The tokens of a line up to the first one that is no int.                *)
(***************************************************************************)
Readable(tokens) ==
    SelectInSeq(tokens, LAMBDA tok : tok \in Unreadable)
ReadPart(tokens) ==
    IF Readable(tokens) = 0 THEN tokens
    ELSE SubSeq(tokens, 1, Readable(tokens) - 1)

(***************************************************************************)
(* All the literals and terminators that are read from f.                  *)
(***************************************************************************)
Stream(f) ==
    FlattenSeq([n \in DOMAIN f |->
                   IF f[n].kind = "literals" THEN ReadPart(f[n].tokens) ELSE <<>>])

(***************************************************************************)
(* Position n belongs to the cube whose number is how many zeros precede.  *)
(***************************************************************************)
CubeOf(s, n) == Cardinality({m \in 1 .. n - 1 : s[m] = 0})
Positions(s, k) == {n \in DOMAIN s : s[n] # 0 /\ CubeOf(s, n) = k}
CubeCount(s) == Cardinality({n \in DOMAIN s : s[n] = 0})

(***************************************************************************)
(* The assignments that make every literal of the k-th cube true.          *)
(***************************************************************************)
CubeModels(s, k) ==
    {a \in Assignments :
        \A n \in Positions(s, k) : IF s[n] > 0 THEN s[n] \in a ELSE -s[n] \notin a}

(***************************************************************************)
(* The files that parse is to accept.                                      *)
(***************************************************************************)
GoodHeader(line) ==
    /\ line.dnf /\ extracted(line.vars) \in 1..VARS
    /\ extracted(line.cubes) <= CUBES

WellFormed(f) ==
    LET s == Stream(f)
    IN  \E h \in DOMAIN f :
            /\ LineNumbers(f, "p") = {h} /\ GoodHeader(f[h])
            /\ \A n \in LineNumbers(f, "literals") : n > h
            /\ \A n \in DOMAIN s : Abs(s[n]) <= extracted(f[h].vars)
            /\ \A k \in 0..CubeCount(s) : \A m, n \in Positions(s, k) :
                  m # n => Abs(s[m]) # Abs(s[n])
            /\ CubeCount(s) <= CUBES
            /\ s # <<>> => Last(s) = 0

(***************************************************************************)
(* parse returns for the well-formed files and throws for all others,      *)
(* whatever the order of its lines, wherever its cubes are broken into     *)
(* lines.                                                                  *)
(***************************************************************************)
AcceptsWellFormed ==
    /\ pc = "returned" => file # NoFile /\ WellFormed(file)
    /\ pc = "thrown" => file = NoFile \/ ~WellFormed(file)

(***************************************************************************)
(* Every cube that parse returns has the models of the cube in the file    *)
(* with its number; where the file has no more, there is filler.           *)
(***************************************************************************)
CubesMeanFile ==
    pc = "returned" =>
        LET s == Stream(file)
        IN  \A k \in Inputs :
                IF k < CubeCount(s) THEN Models(dnf[k]) = CubeModels(s, k)
                                    ELSE dnf[k] = PadCube

(***************************************************************************)
(* What the file as a whole means, and the arrays that stand for it: what  *)
(* parse promises its caller, who sees the array and not the file.         *)
(***************************************************************************)
FileModels(f) ==
    LET s == Stream(f)
    IN  UNION {CubeModels(s, k) : k \in 0 .. CubeCount(s) - 1}

Parses(f) ==
    LET s == Stream(f)
    IN  {d \in ParsedDnfs :
            /\ WellFormed(f) /\ CubeCount(s) \in 0..CUBES
            /\ \A k \in Inputs :
                  Models(d[k]) = IF k < CubeCount(s) THEN CubeModels(s, k) ELSE {}}

(***************************************************************************)
(* Every file is parsed to its end or thrown out.                          *)
(***************************************************************************)
ParseEnds == <>(pc \in {"returned", "thrown"})

(***************************************************************************)
(* dimacs_dnf.h: parse throws on "a literal outside 1..(file's declared    *)
(* var count)".                                                            *)
(***************************************************************************)
OutOfRangeThrows ==
    pc = "returned" =>
        \A n \in LineNumbers(file, "literals") :
            \A m \in DOMAIN file[n].tokens : file[n].tokens[m] # Huge
=============================================================================
