------------------------- MODULE CoverageAlgorithm -------------------------
(***************************************************************************)
(* The coverage algorithm as a textbook gives it: estimate the size of the *)
(* union of finitely many sets by K trials, each of which picks one        *)
(* element of their disjoint union and scores it.  There are no bits, no   *)
(* widths, no padding, no intervals and no lookup table here.              *)
(***************************************************************************)
EXTENDS Integers, FiniteSets, FiniteSetsExt, Functions

CONSTANTS
    Points,     \* what the sets hold
    Blocks,     \* the numbers of the sets
    K,          \* number of trials
    Canonical,  \* TRUE: score 1 for the first set that holds the point
                \* FALSE: score Unit / the number of sets that hold it
    Unit        \* the score that counts for one

VARIABLES phase, sets, t, scores, result

vars == <<phase, sets, t, scores, result>>

Space == {e \in Blocks \X Points : e[2] \in sets[e[1]]}
Holders(p) == {b \in Blocks : p \in sets[b]}

(***************************************************************************)
(* The scores of a pick of point p from set b: a share is rounded to the   *)
(* nearest integer, so n shares are within n halves of the unit.           *)
(***************************************************************************)
ScoresOf(b, p) ==
    IF Canonical
    THEN {IF b = Min(Holders(p)) THEN Unit ELSE 0}
    ELSE LET n == Cardinality(Holders(p))
         IN  {s \in Unit \div n .. Unit \div n + 1 : 2 * (s * n - Unit) \in -n .. n}

(***************************************************************************)
(* A trial that has nothing to pick may count or not.                      *)
(***************************************************************************)
PossibleScores ==
    IF Space = {} THEN {0, Unit}
    ELSE UNION {ScoresOf(e[1], e[2]) : e \in Space}

Init ==
    /\ phase = "load"
    /\ sets = [b \in Blocks |-> {}]
    /\ t = 0
    /\ scores = [u \in 0 .. K - 1 |-> 0]
    /\ result = 0

Load ==
    /\ phase = "load"
    /\ phase' = "sample"
    /\ sets' \in [Blocks -> SUBSET Points]
    /\ UNCHANGED <<t, scores, result>>

Trial ==
    /\ phase = "sample" /\ t < K
    /\ \E s \in PossibleScores : scores' = [scores EXCEPT ![t] = s]
    /\ t' = t + 1
    /\ UNCHANGED <<phase, sets, result>>

Reveal ==
    /\ phase = "sample" /\ t = K
    /\ phase' = "done"
    /\ result' = Cardinality(Space) * SumFunction(scores)
    /\ UNCHANGED <<sets, t, scores>>

Next == Load \/ Trial \/ Reveal

Spec == Init /\ [][Next]_vars
=============================================================================
