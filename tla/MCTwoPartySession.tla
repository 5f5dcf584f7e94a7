-------------------------- MODULE MCTwoPartySession --------------------------
(***************************************************************************)
(* The session of the demo, with the calls that it makes.                  *)
(***************************************************************************)
EXTENDS TwoPartySession, DemoCalls

DemoProgram == DemoScript(ALICE, BOB)
=============================================================================
