--------------------------- MODULE MCDimacsParser ---------------------------
(***************************************************************************)
(* Small files for DimacsParser.                                           *)
(***************************************************************************)
EXTENDS DimacsMeaning

OneVar == {1}
TwoVars == 1..2

Blank == [kind |-> "skip"]
P(v, c) == [kind |-> "p", dnf |-> TRUE, vars |-> v, cubes |-> c]
PCnf == [kind |-> "p", dnf |-> FALSE, vars |-> 1, cubes |-> 1]
Lits(tokens) == [kind |-> "literals", tokens |-> tokens]

(***************************************************************************)
(* Lines in every order, good and bad headers, cubes that go on in the     *)
(* next line.                                                              *)
(***************************************************************************)
OrderLines == {Blank, PCnf, P(1, 1), P(VARS, CUBES), P(VARS + 1, 1),
               P(VARS, CUBES + 1), P(Huge, 1), P(1, Huge), P(Junk, 0), P(1, Junk),
               Lits(<<1>>), Lits(<<0>>), Lits(<<-VARS, 0>>)}
OrderFiles == BoundedSeq(OrderLines, 4)

(***************************************************************************)
(* One header and two lines of up to three tokens each.                    *)
(***************************************************************************)
TokenLines == {Lits(s) : s \in BoundedSeq({-VARS, 0, 1, VARS, VARS + 1, Junk}, 3) \ {<<>>}}
TokenFiles == {<<P(VARS, CUBES), l1, l2>> : l1, l2 \in TokenLines}

AllFiles == OrderFiles \cup TokenFiles \cup {NoFile}

(***************************************************************************)
(* Files of one line of literals for the documented throws.                *)
(***************************************************************************)
OneLineFiles ==
    {<<P(VARS, CUBES), Lits(s)>> :
        s \in BoundedSeq({0, 1, -VARS, Huge}, 3) \ {<<>>}}
=============================================================================
