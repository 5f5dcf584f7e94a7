----------------------------- MODULE GroundTruth -----------------------------
(***************************************************************************)
(* ground_truth::run_pepin_sanity_check: the conjunction of the two DNFs   *)
(* in plain code, written to a temporary DIMACS file that the pepin model  *)
(* counter then reads.                                                     *)
(*                                                                         *)
(* A file is a sequence of lines as DimacsParser has them.  What pepin     *)
(* answers is represented by the file that it counted.  Each call to the   *)
(* system may fail.                                                        *)
(***************************************************************************)
EXTENDS DnfCubes, SequencesExt

CONSTANTS
    PAIRS       \* the pairs <<alice, bob>> that the caller may pass

ASSUME NumberedVars == Vars = 1 .. VARS
ASSUME PairsAssumption == PAIRS \subseteq ParsedDnfs \X ParsedDnfs

(***************************************************************************)
(* Mutant: disagreement is not looked for.                                 *)
(***************************************************************************)
plain_conjoin_unchecked(a, b) ==
    IF a.pad \/ b.pad THEN PadCube
    ELSE [pad  |-> FALSE,
          mask |-> a.mask \cup b.mask,
          bits |-> {v \in Vars : IF v \in a.mask THEN v \in a.bits ELSE v \in b.bits}]

(***************************************************************************)
(* The loop over the variables, without the circuit's bit vectors.         *)
(***************************************************************************)
plain_conjoin(a, b) ==
    LET disagree == \E v \in Vars :
            v \in a.mask /\ v \in b.mask /\ (v \in a.bits) # (v \in b.bits)
        pad == a.pad \/ b.pad \/ disagree
    IN  [pad  |-> pad,
         mask |-> IF pad THEN {} ELSE {v \in Vars : v \in a.mask \/ v \in b.mask},
         bits |-> IF pad THEN Vars
                  ELSE {v \in Vars : IF v \in a.mask THEN v \in a.bits
                                                     ELSE v \in b.bits}]

(***************************************************************************)
(* d1's cubes in the outer loop, d2's in the inner one.                    *)
(***************************************************************************)
plain_conjoin_dnf(d1, d2) ==
    [n \in 1 .. CUBES * CUBES |->
        plain_conjoin(d1[(n - 1) \div CUBES], d2[(n - 1) % CUBES])]

(***************************************************************************)
(* The literals of a cube in the order of the variables, and a 0.          *)
(***************************************************************************)
literals(c) ==
    FlattenSeq([v \in 1..VARS |->
                   IF v \notin c.mask THEN <<>>
                   ELSE IF v \in c.bits THEN <<v>> ELSE <<-v>>])
    \o <<0>>

(***************************************************************************)
(* Mutant: filler is written too, as a cube without literals.              *)
(***************************************************************************)
real_with_filler(cubes) == cubes

real(cubes) ==
    FlattenSeq([n \in DOMAIN cubes |-> IF cubes[n].pad THEN <<>> ELSE <<cubes[n]>>])

(***************************************************************************)
(* The header counts the real cubes, and only those follow.                *)
(***************************************************************************)
write_dimacs_dnf(cubes) ==
    LET r == real(cubes)
    IN  <<[kind |-> "p", dnf |-> TRUE, vars |-> VARS, cubes |-> Len(r)]>>
        \o [n \in 1..Len(r) |-> [kind |-> "literals", tokens |-> literals(r[n])]]
-----------------------------------------------------------------------------
(***************************************************************************)
(* The optional's empty value, the answer without a count, and the answer  *)
(* that pepin gives for a file.                                            *)
(***************************************************************************)
nullopt == [kind |-> "nullopt"]
ZeroResult == [kind |-> "zero"]
Counted(f) == [kind |-> "counted", file |-> f]

NoFile == <<"no file">>

VARIABLES
    pc,             \* "conjoin", "mkstemp", "write", "count", "remove", "returned"
    alice, bob,
    conjunction,
    temp,           \* what the temporary file holds, or NoFile
    real_cubes,
    result

vars == <<pc, alice, bob, conjunction, temp, real_cubes, result>>

Init ==
    /\ pc = "conjoin"
    /\ \E p \in PAIRS : alice = p[1] /\ bob = p[2]
    /\ conjunction = <<>>
    /\ temp = NoFile
    /\ real_cubes = 0
    /\ result = nullopt

Conjoin ==
    /\ pc = "conjoin"
    /\ conjunction' = plain_conjoin_dnf(alice, bob)
    /\ pc' = "mkstemp"
    /\ UNCHANGED <<alice, bob, temp, real_cubes, result>>

MakeTemp ==
    /\ pc = "mkstemp"
    /\ temp' = <<>>
    /\ pc' = "write"
    /\ UNCHANGED <<alice, bob, conjunction, real_cubes, result>>

MakeTempFails ==
    /\ pc = "mkstemp"
    /\ pc' = "returned"
    /\ UNCHANGED <<alice, bob, conjunction, temp, real_cubes, result>>

Write ==
    /\ pc = "write"
    /\ temp' = write_dimacs_dnf(conjunction)
    /\ real_cubes' = Len(real(conjunction))
    /\ pc' = "count"
    /\ UNCHANGED <<alice, bob, conjunction, result>>

(***************************************************************************)
(* The stream is never tested: a full disk leaves any first lines of the   *)
(* file, and the number of cubes is returned all the same.                 *)
(***************************************************************************)
WriteFails ==
    /\ pc = "write"
    /\ LET whole == write_dimacs_dnf(conjunction)
       IN  \E n \in 0 .. Len(whole) - 1 : temp' = SubSeq(whole, 1, n)
    /\ real_cubes' = Len(real(conjunction))
    /\ pc' = "count"
    /\ UNCHANGED <<alice, bob, conjunction, result>>

(***************************************************************************)
(* Mutant: pepin is asked about a file without cubes as well.              *)
(***************************************************************************)
RunPepin_always ==
    /\ pc = "count"
    /\ result' = Counted(temp)
    /\ pc' = "remove"
    /\ UNCHANGED <<alice, bob, conjunction, temp, real_cubes>>

RunPepin ==
    /\ pc = "count" /\ real_cubes > 0
    /\ result' = Counted(temp)
    /\ pc' = "remove"
    /\ UNCHANGED <<alice, bob, conjunction, temp, real_cubes>>

(***************************************************************************)
(* Mutant: the failure is returned at once.                                *)
(***************************************************************************)
PepinFails_returns ==
    /\ pc = "count" /\ real_cubes > 0
    /\ result' = nullopt
    /\ pc' = "returned"
    /\ UNCHANGED <<alice, bob, conjunction, temp, real_cubes>>

(***************************************************************************)
(* There is no pepin, or its output holds no answer.                       *)
(***************************************************************************)
PepinFails ==
    /\ pc = "count" /\ real_cubes > 0
    /\ result' = nullopt
    /\ pc' = "remove"
    /\ UNCHANGED <<alice, bob, conjunction, temp, real_cubes>>

SkipPepin ==
    /\ pc = "count" /\ real_cubes = 0
    /\ result' = ZeroResult
    /\ pc' = "remove"
    /\ UNCHANGED <<alice, bob, conjunction, temp, real_cubes>>

RemoveTemp ==
    /\ pc = "remove"
    /\ temp' = NoFile
    /\ pc' = "returned"
    /\ UNCHANGED <<alice, bob, conjunction, real_cubes, result>>

Terminating == pc = "returned" /\ UNCHANGED vars

Next ==
    \/ Conjoin \/ MakeTemp \/ MakeTempFails \/ Write \/ WriteFails
    \/ RunPepin \/ PepinFails \/ SkipPepin \/ RemoveTemp \/ Terminating

Spec == Init /\ [][Next]_vars
-----------------------------------------------------------------------------
(***************************************************************************)
(* plain_conjoin mirrors the circuit's conjoin "bit for bit": the two are  *)
(* written apart, one over bit vectors and one over a loop.                *)
(***************************************************************************)
PlainMirrorsCircuit ==
    pc # "conjoin" =>
        \A k, l \in Inputs :
            conjunction[k * CUBES + l + 1] = conjoin(alice[k], bob[l])

(***************************************************************************)
(* The temporary file is gone when the function returns, whichever step    *)
(* failed.                                                                 *)
(***************************************************************************)
NoFileLeft == pc = "returned" => temp = NoFile
=============================================================================
