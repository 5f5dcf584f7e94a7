------------------------------ MODULE PartyLink ------------------------------
(***************************************************************************)
(* The two processes of the two-party protocol and the connection between  *)
(* them, as main.cpp and the benchmark drivers use it: each process checks *)
(* its own input, ALICE listens and BOB connects, and then both make the   *)
(* calls of the same program, in order.                                    *)
(*                                                                         *)
(* The emp toolkit is external: what a call sends is known from its use    *)
(* here (the bytes by phase in the README).  A message is the position in  *)
(* the program of the call that sent it; a channel holds so many messages  *)
(* that were not yet read.                                                 *)
(***************************************************************************)
EXTENDS Integers, Sequences

CONSTANTS
    ALICE, BOB,
    Script,     \* Script[p]: the calls that party p makes, as records
    Capacity    \* messages that fit a channel

ASSUME PartiesDiffer == ALICE # BOB
ASSUME CapacityAssumption == Capacity \in Nat \ {0}

Party == {ALICE, BOB}
Peer(p) == IF p = ALICE THEN BOB ELSE ALICE

(***************************************************************************)
(* Who sends in a call: gates are garbled by ALICE and evaluated by BOB,   *)
(* BOB's inputs go to ALICE, a reveal goes both ways.  Every other step is *)
(* local.                                                                  *)
(***************************************************************************)
Senders(call) ==
    CASE call \in {"gates", "ping"}      -> {ALICE}
      [] call \in {"bob_input", "pong"}  -> {BOB}
      [] call = "reveal"                 -> Party
      [] OTHER                           -> {}

VARIABLES
    proc,   \* "absent", "starting", "opening", "running", "finished", "failed"
    ready,  \* whether the party's own input will be accepted
    at,     \* how many of its calls the party has completed
    posted, \* whether it has sent its part of the next one
    net     \* net[p]: the messages on their way to p

linkVars == <<proc, ready, at, posted, net>>

LinkInit ==
    /\ proc = [p \in Party |-> "absent"]
    /\ ready \in [Party -> BOOLEAN]
    /\ at = [p \in Party |-> 0]
    /\ posted = [p \in Party |-> FALSE]
    /\ net = [p \in Party |-> <<>>]
-----------------------------------------------------------------------------
Launch(p) ==
    /\ proc[p] = "absent"
    /\ proc' = [proc EXCEPT ![p] = "starting"]
    /\ UNCHANGED <<ready, at, posted, net>>

(***************************************************************************)
(* The input is rejected, and the process exits before it opens the        *)
(* connection.                                                             *)
(***************************************************************************)
Fail(p) ==
    /\ proc[p] = "starting" /\ ~ready[p]
    /\ proc' = [proc EXCEPT ![p] = "failed"]
    /\ UNCHANGED <<ready, at, posted, net>>

(***************************************************************************)
(* Mutant: the error is printed and the process goes on.                   *)
(***************************************************************************)
Open_unchecked(p) ==
    /\ proc[p] = "starting"
    /\ proc' = [proc EXCEPT ![p] = "opening"]
    /\ UNCHANGED <<ready, at, posted, net>>

(***************************************************************************)
(* listen for ALICE; connect, which tries until someone listens, for BOB.  *)
(***************************************************************************)
Open(p) ==
    /\ proc[p] = "starting" /\ ready[p]
    /\ proc' = [proc EXCEPT ![p] = "opening"]
    /\ UNCHANGED <<ready, at, posted, net>>

Join ==
    /\ \A p \in Party : proc[p] = "opening"
    /\ proc' = [p \in Party |-> "running"]
    /\ UNCHANGED <<ready, at, posted, net>>
-----------------------------------------------------------------------------
(***************************************************************************)
(* The calls.  (TLC evaluates a definition once, a constant at each use.)  *)
(***************************************************************************)
Calls == Script
Busy(p) == proc[p] = "running" /\ at[p] < Len(Calls[p])
Step(p) == Calls[p][at[p] + 1]
Sends(p) == p \in Senders(Step(p).call)
Receives(p) == Peer(p) \in Senders(Step(p).call)

Post(p) ==
    /\ Busy(p) /\ Sends(p) /\ ~posted[p]
    /\ Len(net[Peer(p)]) < Capacity
    /\ net' = [net EXCEPT ![Peer(p)] = Append(@, at[p] + 1)]
    /\ posted' = [posted EXCEPT ![p] = TRUE]
    /\ UNCHANGED <<proc, ready, at>>

(***************************************************************************)
(* The call returns once its own message is sent and the peer's is read.   *)
(***************************************************************************)
Complete(p) ==
    /\ Busy(p) /\ (Sends(p) => posted[p])
    /\ IF Receives(p)
       THEN net[p] # <<>> /\ net' = [net EXCEPT ![p] = Tail(@)]
       ELSE UNCHANGED net
    /\ at' = [at EXCEPT ![p] = @ + 1]
    /\ posted' = [posted EXCEPT ![p] = FALSE]
    /\ UNCHANGED <<proc, ready>>

(***************************************************************************)
(* finalize, and main returns 0.                                           *)
(***************************************************************************)
Finish(p) ==
    /\ proc[p] = "running" /\ at[p] = Len(Calls[p])
    /\ proc' = [proc EXCEPT ![p] = "finished"]
    /\ UNCHANGED <<ready, at, posted, net>>

PartyStep(p) == Fail(p) \/ Open(p) \/ Post(p) \/ Complete(p) \/ Finish(p)
-----------------------------------------------------------------------------
(***************************************************************************)
(* The type invariant.                                                     *)
(***************************************************************************)
LinkTypeOK ==
    /\ proc \in [Party -> {"absent", "starting", "opening", "running",
                           "finished", "failed"}]
    /\ ready \in [Party -> BOOLEAN]
    /\ at \in [Party -> Nat]
    /\ posted \in [Party -> BOOLEAN]
    /\ net \in [Party -> Seq(Nat)]
    /\ \A p \in Party : at[p] <= Len(Calls[p]) /\ Len(net[p]) <= Capacity

(***************************************************************************)
(* What a call reads is what the same call of the peer sent, however far   *)
(* one party runs ahead of the other, and nothing is left unread.          *)
(***************************************************************************)
MessagesMatchCalls ==
    /\ \A p \in Party :
          Busy(p) /\ Receives(p) /\ net[p] # <<>> => Head(net[p]) = at[p] + 1
    /\ (\A p \in Party : proc[p] = "finished") => \A p \in Party : net[p] = <<>>

(***************************************************************************)
(* A party waits within a call for room in the channel, or for a message.  *)
(***************************************************************************)
Waits(p) ==
    /\ Busy(p)
    /\ \/ Sends(p) /\ ~posted[p] /\ Len(net[Peer(p)]) >= Capacity
       \/ (Sends(p) => posted[p]) /\ Receives(p) /\ net[p] = <<>>

(***************************************************************************)
(* Within the program the parties never wait for each other, not even when *)
(* both send in a reveal and the channels are full, and no one waits for a *)
(* party that is through.                                                  *)
(***************************************************************************)
NeverBothWait ==
    \A p \in Party :
        Waits(p) => ~Waits(Peer(p)) /\ proc[Peer(p)] = "running"
=============================================================================
