------------------------------ MODULE DnfCubes ------------------------------
(***************************************************************************)
(* The cubes of a DNF and the circuit gadgets that work on one cube or two *)
(* (gadgets/circuit_cube.h, general/dnf_distribute.h, general/             *)
(* cube_weight.h, general/random_assignment.h), with what a cube means.    *)
(*                                                                         *)
(* A bit vector over the variables is the set of the variables whose bit   *)
(* is 1, so & | ~ ^ are the set operations and popcount is Cardinality.    *)
(***************************************************************************)
EXTENDS Widths, FiniteSets

CONSTANTS
    Vars,       \* the VARS variables of the compile-time capacity
    CUBES       \* cubes in each party's DNF, filler included

ASSUME VarsAssumption == IsFiniteSet(Vars) /\ Vars # {}
ASSUME CubesAssumption == CUBES \in Nat \ {0}

VARS == Cardinality(Vars)
Assignments == SUBSET Vars

(***************************************************************************)
(* CircuitCube and CubeData.                                               *)
(***************************************************************************)
Cubes == [bits : SUBSET Vars, mask : SUBSET Vars, pad : BOOLEAN]
CubeData == [bits : SUBSET Vars, mask : SUBSET Vars]
ZeroCube == [bits |-> {}, mask |-> {}, pad |-> FALSE]   \* Cube{}

(***************************************************************************)
(* The two kinds of cube that dimacs_dnf::parse stores: a cube read from   *)
(* the file, whose bits stay 0 outside its mask, and the filler.           *)
(***************************************************************************)
RealCubes == {c \in Cubes : ~c.pad /\ c.bits \subseteq c.mask}
PadCube == [bits |-> Vars, mask |-> {}, pad |-> TRUE]
ParsedCubes == RealCubes \cup {PadCube}

(***************************************************************************)
(* The arrays that parse returns: real cubes, then filler.                 *)
(***************************************************************************)
Inputs == 0 .. CUBES - 1
ParsedDnfs ==
    {d \in [Inputs -> ParsedCubes] :
        \E n \in 0..CUBES : \A k \in Inputs : d[k].pad <=> k >= n}

(***************************************************************************)
(* a /\ b, padding when either is padding or when they disagree on a       *)
(* variable that both constrain.                                           *)
(***************************************************************************)
Disagreement(a, b) ==
    {v \in a.mask \cap b.mask : (v \in a.bits) # (v \in b.bits)}

(***************************************************************************)
(* Mutant: the contradiction test of conjoin is left out.                  *)
(***************************************************************************)
conjoin_unchecked(a, b) ==
    IF a.pad \/ b.pad
    THEN PadCube
    ELSE [bits |-> (a.bits \cap a.mask) \cup (b.bits \ a.mask),
          mask |-> a.mask \cup b.mask,
          pad  |-> FALSE]

conjoin(a, b) ==
    IF a.pad \/ b.pad \/ Disagreement(a, b) # {}
    THEN PadCube
    ELSE [bits |-> (a.bits \cap a.mask) \cup (b.bits \ a.mask),
          mask |-> a.mask \cup b.mask,
          pad  |-> FALSE]

(***************************************************************************)
(* Mutant: filler weighs as much as the always-true cube.                  *)
(***************************************************************************)
cube_weight_no_pad(c) == Wrap(VARS + 1, 2^(VARS - Cardinality(c.mask)))

(***************************************************************************)
(* 1 << (VARS - popcount(mask)) in a word of VARS + 1 bits; 0 for padding. *)
(***************************************************************************)
cube_weight(c) ==
    IF c.pad THEN 0
    ELSE Wrap(VARS + 1, 2^(VARS - Cardinality(c.mask)))

(***************************************************************************)
(* The check both estimators make of every cube; it does not look at pad.  *)
(***************************************************************************)
satisfied(assignment, c) == assignment \cap c.mask = c.bits

(***************************************************************************)
(* Mutant: the random bits are not masked out where the cube has its own.  *)
(***************************************************************************)
random_assignment_unmasked(cube, r) == cube.bits \cup r

random_assignment(cube, r) == cube.bits \cup (r \ cube.mask)

(***************************************************************************)
(* What a cube means, independently of the gadgets: the assignments that   *)
(* give every constrained variable its value; none for padding.            *)
(***************************************************************************)
Models(c) ==
    {a \in Assignments :
        ~c.pad /\ \A v \in c.mask : v \in a <=> v \in c.bits}
=============================================================================
