------------------------------ MODULE RandomDnf ------------------------------
(***************************************************************************)
(* random_dnf::generate_random_dnf_pair: Alice's cubes are drawn freely,   *)
(* each of Bob's is drawn and then repaired until it shares at most        *)
(* max_overlap literals with every one of Alice's.                         *)
(*                                                                         *)
(* A draw or a shuffle is any outcome of the generator.  The repair loop   *)
(* takes one step per cube it compares with.                               *)
(***************************************************************************)
EXTENDS DnfCubes

CONSTANT max_overlap    \* the cap that the caller asks for, any int

ASSUME OverlapAssumption == max_overlap \in Int

ManyPasses == 3         \* the history counts the passes up to here

clamp(n, lo, hi) == IF n < lo THEN lo ELSE IF n > hi THEN hi ELSE n
Cap == clamp(max_overlap, 0, VARS)

(***************************************************************************)
(* Any variables constrained; a polarity is drawn for those only.          *)
(***************************************************************************)
random_cube ==
    {[bits |-> polarity \cap constrained, mask |-> constrained, pad |-> FALSE] :
        constrained \in SUBSET Vars, polarity \in SUBSET Vars}

(***************************************************************************)
(* Mutant: negative literals are not compared.                             *)
(***************************************************************************)
matches_positive(a, b) == a.mask \cap b.mask \cap a.bits \cap b.bits

(***************************************************************************)
(* The literals that two cubes share.                                      *)
(***************************************************************************)
matches(a, b) ==
    {v \in a.mask \cap b.mask : (v \in a.bits) = (v \in b.bits)}
literal_overlap(a, b) == Cardinality(matches(a, b))
-----------------------------------------------------------------------------
VARIABLES
    pc,         \* "alice", "bob", "repair", "returned"
    alice, bob, \* the pair
    i,          \* the cube that is drawn next
    cand,       \* the cube of Bob's that is repaired
    other,      \* the cube of Alice's that it is compared with next
    changed,    \* this pass has cleared a literal
    passes      \* history: the passes begun over this candidate

vars == <<pc, alice, bob, i, cand, other, changed, passes>>

Init ==
    /\ pc = "alice"
    /\ alice = [k \in Inputs |-> ZeroCube] /\ bob = [k \in Inputs |-> ZeroCube]
    /\ i = 0 /\ cand = ZeroCube /\ other = 0
    /\ changed = FALSE /\ passes = 0

DrawAlice ==
    /\ pc = "alice" /\ i < CUBES
    /\ \E c \in random_cube : alice' = [alice EXCEPT ![i] = c]
    /\ i' = i + 1
    /\ UNCHANGED <<pc, bob, cand, other, changed, passes>>

BeginBob ==
    /\ pc = "alice" /\ i = CUBES
    /\ pc' = "bob"
    /\ i' = 0
    /\ UNCHANGED <<alice, bob, cand, other, changed, passes>>

DrawBob ==
    /\ pc = "bob" /\ i < CUBES
    /\ cand' \in random_cube
    /\ pc' = "repair"
    /\ other' = 0 /\ changed' = FALSE /\ passes' = 1
    /\ UNCHANGED <<alice, bob, i>>

Keep ==
    /\ pc = "repair" /\ other < CUBES
    /\ literal_overlap(cand, alice[other]) <= Cap
    /\ other' = other + 1
    /\ UNCHANGED <<pc, alice, bob, i, cand, changed, passes>>

(***************************************************************************)
(* Mutants of the repair: the mask is cleared alone; the polarity is       *)
(* flipped instead; one literal less is cleared.                           *)
(***************************************************************************)
Cleared_mask_only(c, s) == [c EXCEPT !.mask = @ \ s]
Cleared_flips(c, s) == [c EXCEPT !.bits = (@ \ s) \cup (s \ @)]
to_clear_one_less(n) == n - Cap - 1

Cleared(c, s) == [c EXCEPT !.mask = @ \ s, !.bits = @ \ s]
to_clear(n) == n - Cap

Repair ==
    /\ pc = "repair" /\ other < CUBES
    /\ literal_overlap(cand, alice[other]) > Cap
    /\ \E s \in SUBSET matches(cand, alice[other]) :
          /\ Cardinality(s) = to_clear(literal_overlap(cand, alice[other]))
          /\ cand' = Cleared(cand, s)
    /\ changed' = TRUE
    /\ other' = other + 1
    /\ UNCHANGED <<pc, alice, bob, i, passes>>

(***************************************************************************)
(* Mutant: changed is not reset, and the loop does not end.                *)
(***************************************************************************)
NextPass_keeps_changed ==
    /\ pc = "repair" /\ other = CUBES /\ changed
    /\ other' = 0
    /\ passes' = IF passes = ManyPasses THEN passes ELSE passes + 1
    /\ UNCHANGED <<pc, alice, bob, i, cand, changed>>

NextPass ==
    /\ pc = "repair" /\ other = CUBES /\ changed
    /\ other' = 0 /\ changed' = FALSE
    /\ passes' = IF passes = ManyPasses THEN passes ELSE passes + 1
    /\ UNCHANGED <<pc, alice, bob, i, cand>>

StoreBob ==
    /\ pc = "repair" /\ other = CUBES /\ ~changed
    /\ bob' = [bob EXCEPT ![i] = cand]
    /\ i' = i + 1
    /\ pc' = "bob"
    /\ UNCHANGED <<alice, cand, other, changed, passes>>

Return ==
    /\ pc = "bob" /\ i = CUBES
    /\ pc' = "returned"
    /\ UNCHANGED <<alice, bob, i, cand, other, changed, passes>>

Terminating == pc = "returned" /\ UNCHANGED vars

Next ==
    \/ DrawAlice \/ BeginBob \/ DrawBob \/ Keep \/ Repair \/ NextPass
    \/ StoreBob \/ Return \/ Terminating

(***************************************************************************)
(* The function is called and runs: the machine keeps stepping.            *)
(***************************************************************************)
Spec == Init /\ [][Next]_vars /\ WF_vars(Next)
-----------------------------------------------------------------------------
(***************************************************************************)
(* The type invariant: every cube that leaves or is compared is one that   *)
(* conjoin and random_assignment may be given, with no polarity left where *)
(* the repair took the constraint away.                                    *)
(***************************************************************************)
TypeOK ==
    /\ pc \in {"alice", "bob", "repair", "returned"}
    /\ alice \in [Inputs -> RealCubes] /\ bob \in [Inputs -> RealCubes]
    /\ i \in 0..CUBES /\ other \in 0..CUBES
    /\ pc = "repair" => i < CUBES
    /\ cand \in RealCubes
    /\ changed \in BOOLEAN /\ passes \in 0..ManyPasses

(***************************************************************************)
(* The cubes constrain all of s, each variable to the same value.          *)
(***************************************************************************)
Share(a, b, s) ==
    /\ s \subseteq a.mask /\ s \subseteq b.mask
    /\ s \cap a.bits = s \cap b.bits

WithinCap(a, b) ==
    \A s \in SUBSET Vars : Share(a, b, s) => Cardinality(s) <= Cap

(***************************************************************************)
(* No cube of Bob's that was stored shares more literals with any cube of  *)
(* Alice's than the caller's cap, once clamped, allows.                    *)
(***************************************************************************)
OverlapBounded ==
    pc # "alice" =>
        \A k, l \in Inputs : l < i => WithinCap(bob[l], alice[k])

(***************************************************************************)
(* Repairing against one cube never breaks what was repaired before it:    *)
(* the cubes already visited in this pass stay within the cap.  (The       *)
(* comment of repair_overlap argues it from the loop only clearing.)       *)
(***************************************************************************)
NeverReviolated ==
    pc = "repair" =>
        \A k \in Inputs : k < other => WithinCap(cand, alice[k])

(***************************************************************************)
(* The loop is shorter than its comment promises: the second pass changes  *)
(* nothing, and there is no third.                                         *)
(***************************************************************************)
SecondPassConfirms ==
    pc = "repair" => passes \in 1..2 /\ (passes = 2 => ~changed)

(***************************************************************************)
(* Whatever is drawn, the pair is returned.                                *)
(***************************************************************************)
GenerationEnds == <>(pc = "returned")
=============================================================================
