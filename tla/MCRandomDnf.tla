----------------------------- MODULE MCRandomDnf -----------------------------
(***************************************************************************)
(* Small instances of RandomDnf.                                           *)
(***************************************************************************)
EXTENDS RandomDnf

CONSTANTS x1, x2, x3

TwoVars == {x1, x2}
ThreeVars == {x1, x2, x3}
=============================================================================
