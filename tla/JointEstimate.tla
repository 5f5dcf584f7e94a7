---------------------------- MODULE JointEstimate ----------------------------
(***************************************************************************)
(* What a two-party run promises: each party ends with the joint estimate  *)
(* if both were given good input, and neither does otherwise.              *)
(***************************************************************************)
CONSTANT Party
VARIABLES
    good,   \* whether the party was given good input
    knows   \* the parties that have the estimate

Init == good \in [Party -> BOOLEAN] /\ knows = {}

Learn(p) ==
    /\ \A q \in Party : good[q]
    /\ p \notin knows
    /\ knows' = knows \cup {p}
    /\ UNCHANGED good

Next == \E p \in Party : Learn(p)
Safety == Init /\ [][Next]_<<good, knows>>

Spec ==
    /\ Safety
    /\ \A p \in Party : WF_<<good, knows>>(Learn(p))
=============================================================================
