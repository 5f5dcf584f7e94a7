------------------------------- MODULE Widths -------------------------------
(***************************************************************************)
(* Fixed-width unsigned words, as the circuit types UInt_T<Ctx, W> of the  *)
(* external emp toolkit compute with them, and bits_for, which sizes every *)
(* one of them.  The circuits have no overflow flag: a sum or a product    *)
(* that does not fit its type silently loses its high bits.                *)
(***************************************************************************)
EXTENDS Integers

(***************************************************************************)
(* The number of bits that hold 0..n: the least w with n < 2^w.            *)
(***************************************************************************)
bits_for(n) ==
    CHOOSE w \in 0..n : n < 2^w /\ \A v \in 0 .. w - 1 : 2^v <= n

(***************************************************************************)
(* What is left of x in a word of w bits.                                  *)
(***************************************************************************)
Wrap(w, x) == x % 2^w
=============================================================================
