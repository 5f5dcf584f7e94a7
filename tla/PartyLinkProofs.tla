--------------------------- MODULE PartyLinkProofs ---------------------------
(***************************************************************************)
(* The connection of two processes that run the same program, for every    *)
(* program and every size of the channels: what is read is what was sent   *)
(* for it, and the parties never wait for each other.                      *)
(***************************************************************************)
EXTENDS PartyLink, TLAPS

(***************************************************************************)
(* Both parties run the same program: no driver branches on the party      *)
(* around a call.                                                          *)
(***************************************************************************)
CallOf(p, n) == Script[p][n].call
SameCalls ==
    /\ Len(Script[ALICE]) \in Nat
    /\ Len(Script[BOB]) = Len(Script[ALICE])
    /\ \A n \in 1..Len(Script[ALICE]) :
          Senders(CallOf(BOB, n)) = Senders(CallOf(ALICE, n))

USE DEF Calls

(***************************************************************************)
(* There are two parties, each the other's peer.                           *)
(***************************************************************************)
LEMMA Peers ==
  ASSUME NEW p \in Party
  PROVE  /\ Peer(p) \in Party /\ Peer(p) # p /\ Peer(Peer(p)) = p
         /\ \A q \in Party : q = p \/ q = Peer(p)
BY PartiesDiffer DEF Party, Peer

(***************************************************************************)
(* The calls in which p sends, whoever is asked.                           *)
(***************************************************************************)
SendsIn(p, n) == p \in Senders(CallOf(p, n))

(***************************************************************************)
(* The parties agree on who sends in each call.                            *)
(***************************************************************************)
LEMMA AgreedCalls ==
  ASSUME SameCalls, NEW p \in Party
  PROVE  /\ Len(Script[p]) = Len(Script[ALICE]) /\ Len(Script[p]) \in Nat
         /\ \A n \in 1..Len(Script[p]) :
               \A q \in Party : q \in Senders(CallOf(p, n)) <=> SendsIn(q, n)
BY DEF SameCalls, Party, SendsIn

(***************************************************************************)
(* What p has sent its part of; what is on its way to p.                   *)
(***************************************************************************)
Sent(p) == IF posted[p] THEN at[p] + 1 ELSE at[p]
InFlight(p) ==
    {n \in 1 .. Sent(Peer(p)) : at[p] < n /\ SendsIn(Peer(p), n)}

(***************************************************************************)
(* The parts of the inductive invariant.  A channel holds what is on its   *)
(* way, in order; no call was completed without the peer's message.        *)
(***************************************************************************)
PositionsOK ==
    /\ proc \in [Party -> {"absent", "starting", "opening", "running",
                           "finished", "failed"}]
    /\ at \in [Party -> Nat]
    /\ posted \in [Party -> BOOLEAN]
    /\ net \in [Party -> Seq(Nat)]
    /\ \A p \in Party :
          /\ at[p] <= Len(Script[p]) /\ Sent(p) <= Len(Script[p])
          /\ posted[p] => SendsIn(p, at[p] + 1)
          /\ proc[p] = "finished" => at[p] = Len(Script[p])

InOrder(s) == \A j, k \in 1..Len(s) : j < k => s[j] < s[k]
Holds(s, S) == /\ \A j \in 1..Len(s) : s[j] \in S
               /\ \A n \in S : \E j \in 1..Len(s) : s[j] = n

ChannelsOK ==
    \A p \in Party : InOrder(net[p]) /\ Holds(net[p], InFlight(p))

NothingMissed ==
    \A p \in Party : \A n \in 1..at[p] :
        SendsIn(Peer(p), n) => n <= Sent(Peer(p))

LinkInv == PositionsOK /\ ChannelsOK /\ NothingMissed
-----------------------------------------------------------------------------
(***************************************************************************)
(* An ordered channel loses its least element, or gains a greater one.     *)
(***************************************************************************)
LEMMA TakeFirst ==
  ASSUME NEW s \in Seq(Nat), NEW S \in SUBSET Nat, InOrder(s), Holds(s, S), s # <<>>
  PROVE  /\ Head(s) \in S /\ \A n \in S : Head(s) <= n
         /\ Tail(s) \in Seq(Nat) /\ InOrder(Tail(s))
         /\ Holds(Tail(s), S \ {Head(s)})
<1>1. /\ Len(s) \in Nat /\ Len(s) >= 1 /\ Head(s) = s[1]
      /\ \A j \in 1..Len(s) : s[j] \in Nat
      /\ Tail(s) \in Seq(Nat) /\ Len(Tail(s)) = Len(s) - 1
      /\ \A j \in 1 .. Len(s) - 1 : Tail(s)[j] = s[j + 1]
  OBVIOUS
<1>2. Head(s) \in S
  BY <1>1 DEF Holds
<1>3. ASSUME NEW n \in S PROVE Head(s) <= n
  <2>1. PICK j \in 1..Len(s) : s[j] = n
    BY DEF Holds
  <2>2. j = 1 \/ 1 < j
    BY <1>1
  <2> QED BY <1>1, <2>1, <2>2 DEF InOrder
<1>4. InOrder(Tail(s))
  <2> SUFFICES ASSUME NEW j \in 1..Len(Tail(s)), NEW k \in 1..Len(Tail(s)), j < k
               PROVE  Tail(s)[j] < Tail(s)[k]
    BY DEF InOrder
  <2>1. j + 1 \in 1..Len(s) /\ k + 1 \in 1..Len(s) /\ j + 1 < k + 1
    BY <1>1
  <2> QED BY <1>1, <2>1 DEF InOrder
<1>5. Holds(Tail(s), S \ {Head(s)})
  <2>1. ASSUME NEW j \in 1..Len(Tail(s)) PROVE Tail(s)[j] \in S \ {Head(s)}
    <3>1. j + 1 \in 1..Len(s) /\ 1 \in 1..Len(s) /\ 1 < j + 1
      BY <1>1
    <3>2. s[1] < s[j + 1] /\ s[j + 1] \in S
      BY <3>1 DEF InOrder, Holds
    <3> QED BY <1>1, <3>1, <3>2
  <2>2. ASSUME NEW n \in S \ {Head(s)} PROVE \E j \in 1..Len(Tail(s)) : Tail(s)[j] = n
    <3>1. PICK j \in 1..Len(s) : s[j] = n
      BY DEF Holds
    <3>2. j # 1
      BY <1>1, <3>1
    <3>3. j - 1 \in 1..Len(Tail(s)) /\ Tail(s)[j - 1] = n
      BY <1>1, <3>1, <3>2
    <3> QED BY <3>3
  <2> QED BY <2>1, <2>2 DEF Holds
<1> QED BY <1>1, <1>2, <1>3, <1>4, <1>5

(***************************************************************************)
(* A message later than all others goes to the end of a channel in order.  *)
(***************************************************************************)
LEMMA AppendLast ==
  ASSUME NEW s \in Seq(Nat), NEW S \in SUBSET Nat, InOrder(s), Holds(s, S),
         NEW m \in Nat, \A n \in S : n < m
  PROVE  /\ Append(s, m) \in Seq(Nat) /\ InOrder(Append(s, m))
         /\ Holds(Append(s, m), S \cup {m})
<1> DEFINE u == Append(s, m)
<1>1. /\ Len(s) \in Nat /\ u \in Seq(Nat) /\ Len(u) = Len(s) + 1
      /\ \A j \in 1..Len(s) : u[j] = s[j]
      /\ u[Len(s) + 1] = m
  OBVIOUS
<1> HIDE DEF u
<1>2. \A j \in 1..Len(u) : j \in 1..Len(s) \/ j = Len(s) + 1
  BY <1>1
<1>3. \A j \in 1..Len(s) : s[j] \in S /\ j \in 1..Len(u)
  BY <1>1 DEF Holds
<1>4. InOrder(u)
  <2> SUFFICES ASSUME NEW j \in 1..Len(u), NEW k \in 1..Len(u), j < k
               PROVE  u[j] < u[k]
    BY DEF InOrder
  <2>1. j \in 1..Len(s)
    BY <1>1
  <2>2. CASE k \in 1..Len(s)
    BY <1>1, <2>1, <2>2 DEF InOrder
  <2>3. CASE k = Len(s) + 1
    BY <1>1, <1>3, <2>1, <2>3
  <2> QED BY <1>2, <2>2, <2>3
<1>5. Holds(u, S \cup {m})
  <2>1. \A j \in 1..Len(u) : u[j] \in S \cup {m}
    BY <1>1, <1>2, <1>3
  <2>2. ASSUME NEW n \in S PROVE \E j \in 1..Len(u) : u[j] = n
    <3>1. PICK j \in 1..Len(s) : s[j] = n
      BY DEF Holds
    <3> QED BY <1>1, <1>3, <3>1
  <2>3. Len(s) + 1 \in 1..Len(u)
    BY <1>1
  <2> QED BY <1>1, <2>1, <2>2, <2>3 DEF Holds
<1> QED BY <1>1, <1>4, <1>5 DEF u
-----------------------------------------------------------------------------
(***************************************************************************)
(* A party has sent at most one call further than it has completed.        *)
(***************************************************************************)
LEMMA InFlightType ==
  ASSUME PositionsOK, NEW p \in Party
  PROVE  /\ Sent(p) \in Nat /\ at[p] <= Sent(p) /\ Sent(p) <= at[p] + 1
         /\ InFlight(p) \in SUBSET Nat
<1>1. at[p] \in Nat /\ posted[p] \in BOOLEAN
  BY DEF PositionsOK
<1> QED BY <1>1 DEF Sent, InFlight

(***************************************************************************)
(* A step that leaves positions and channels alone keeps the invariant, if *)
(* only a party at the end of its program is finished.                     *)
(***************************************************************************)
LEMMA ProcStep ==
  ASSUME LinkInv, UNCHANGED <<at, posted, net>>,
         proc' \in [Party -> {"absent", "starting", "opening", "running",
                              "finished", "failed"}],
         \A p \in Party : proc'[p] = "finished" => at[p] = Len(Script[p])
  PROVE  LinkInv'
<1>1. \A p \in Party : Sent(p)' = Sent(p) /\ InFlight(p)' = InFlight(p)
  BY Peers DEF Sent, InFlight
<1>2. PositionsOK'
  BY <1>1 DEF LinkInv, PositionsOK
<1>3. ChannelsOK'
  BY <1>1 DEF LinkInv, ChannelsOK
<1>4. NothingMissed'
  BY <1>1, Peers DEF LinkInv, NothingMissed
<1> QED BY <1>2, <1>3, <1>4 DEF LinkInv

(***************************************************************************)
(* Sending keeps the invariant of the link.                                *)
(***************************************************************************)
LEMMA PostStep ==
  ASSUME SameCalls, LinkInv, NEW p \in Party, Post(p)
  PROVE  LinkInv'
<1> DEFINE q == Peer(p)
<1> DEFINE n == at[p] + 1
<1>1. q \in Party /\ q # p /\ Peer(q) = p /\ \A r \in Party : r = p \/ r = q
  BY Peers
<1>2. /\ at[p] \in Nat /\ at[q] \in Nat /\ Len(Script[p]) \in Nat
      /\ n \in 1..Len(Script[p]) /\ SendsIn(p, n)
      /\ proc[p] = "running" /\ ~posted[p]
  BY <1>1, AgreedCalls DEF LinkInv, PositionsOK, Post, Busy, Sends, Step, CallOf, SendsIn
<1>3. /\ net' = [net EXCEPT ![q] = Append(net[q], n)]
      /\ posted' = [posted EXCEPT ![p] = TRUE]
      /\ UNCHANGED <<proc, ready, at>>
  BY DEF Post
<1>4. posted' \in [Party -> BOOLEAN] /\ posted'[p] = TRUE /\ posted'[q] = posted[q]
  BY <1>1, <1>3 DEF LinkInv, PositionsOK
<1>5. Sent(p) = at[p] /\ Sent(p)' = n /\ Sent(q)' = Sent(q)
  BY <1>2, <1>3, <1>4 DEF Sent
<1>6. at[q] < n
  \* q cannot have completed the call without p's part of it
  <2>1. SendsIn(p, n) /\ Peer(q) = p
    BY <1>1, <1>2
  <2>2. n \in 1..at[q] => n <= Sent(p)
    BY <1>1, <2>1 DEF LinkInv, NothingMissed
  <2> QED BY <1>2, <1>5, <2>2
<1>7. InFlight(q)' = InFlight(q) \cup {n} /\ \A m \in InFlight(q) : m < n
  <2>1. InFlight(q) = {m \in 1 .. at[p] : at[q] < m /\ SendsIn(p, m)}
    BY <1>1, <1>5 DEF InFlight
  <2>2. InFlight(q)' = {m \in 1 .. n : at[q] < m /\ SendsIn(p, m)}
    BY <1>1, <1>3, <1>5 DEF InFlight, SendsIn, CallOf
  <2> QED BY <1>2, <1>6, <2>1, <2>2
<1>8. InFlight(p)' = InFlight(p)
  BY <1>1, <1>3, <1>5 DEF InFlight, SendsIn, CallOf
<1>9. /\ net \in [Party -> Seq(Nat)]
      /\ net'[q] = Append(net[q], n) /\ net'[p] = net[p]
  BY <1>1, <1>3 DEF LinkInv, PositionsOK
<1>10. /\ net'[q] \in Seq(Nat) /\ InOrder(net'[q])
       /\ Holds(net'[q], InFlight(q)')
  <2>1. net[q] \in Seq(Nat) /\ InOrder(net[q]) /\ Holds(net[q], InFlight(q))
    BY <1>1, <1>9 DEF LinkInv, ChannelsOK
  <2>2. InFlight(q) \in SUBSET Nat /\ n \in Nat
    BY <1>1, <1>2, InFlightType DEF LinkInv
  <2> QED BY <1>7, <1>9, <2>1, <2>2, AppendLast
<1>11. PositionsOK'
  <2>1. net' \in [Party -> Seq(Nat)]
    BY <1>3, <1>9, <1>10
  <2>2. ASSUME NEW r \in Party
        PROVE  /\ at'[r] <= Len(Script[r]) /\ Sent(r)' <= Len(Script[r])
               /\ posted'[r] => SendsIn(r, at'[r] + 1)
               /\ proc'[r] = "finished" => at'[r] = Len(Script[r])
    <3>1. CASE r = p
      BY <1>2, <1>3, <1>5, <3>1
    <3>2. CASE r = q
      BY <1>1, <1>3, <1>4, <1>5, <3>2 DEF LinkInv, PositionsOK
    <3> QED BY <1>1, <3>1, <3>2
  <2>3. UNCHANGED <<proc, at>>
    BY <1>3
  <2>4. proc' \in [Party -> {"absent", "starting", "opening", "running",
                             "finished", "failed"}] /\ at' \in [Party -> Nat]
    BY <2>3 DEF LinkInv, PositionsOK
  <2>5. \A r \in Party : posted'[r] => SendsIn(r, at[r] + 1)'
    BY <2>2 DEF SendsIn, CallOf
  <2> QED BY <1>4, <2>1, <2>2, <2>4, <2>5 DEF PositionsOK
<1>12. ChannelsOK'
  <2>1. ASSUME NEW r \in Party PROVE InOrder(net'[r]) /\ Holds(net'[r], InFlight(r)')
    <3>1. CASE r = p
      BY <1>8, <1>9, <3>1 DEF LinkInv, ChannelsOK
    <3>2. CASE r = q
      BY <1>10, <3>2
    <3> QED BY <1>1, <3>1, <3>2
  <2> QED BY <2>1 DEF ChannelsOK, InOrder, Holds
<1>13. NothingMissed'
  <2>1. \A r \in Party : Sent(r) <= Sent(r)'
    BY <1>1, <1>2, <1>5, InFlightType DEF LinkInv
  <2>2. \A r \in Party : Sent(r) \in Nat /\ Sent(r)' \in Nat
    BY <1>1, <1>2, <1>5, InFlightType DEF LinkInv
  <2>3. ASSUME NEW r \in Party, NEW m \in 1..at'[r], SendsIn(Peer(r), m)
        PROVE  m <= Sent(Peer(r))'
    <3>1. m \in 1..at[r] /\ at[r] \in Nat /\ Peer(r) \in Party
      BY <1>1, <1>2, <1>3, <2>3, Peers
    <3>2. m <= Sent(Peer(r))
      BY <2>3, <3>1 DEF LinkInv, NothingMissed
    <3> QED BY <2>1, <2>2, <3>1, <3>2
  <2> QED BY <2>3 DEF NothingMissed, SendsIn, CallOf
<1> QED BY <1>11, <1>12, <1>13 DEF LinkInv
-----------------------------------------------------------------------------
(***************************************************************************)
(* A call that reads finds its own message at the head of the channel: it  *)
(* is on its way, and nothing before it is.                                *)
(***************************************************************************)
LEMMA HeadIsNext ==
  ASSUME SameCalls, LinkInv, NEW p \in Party, at[p] < Len(Script[p]),
         Receives(p), net[p] # <<>>
  PROVE  at[p] + 1 \in InFlight(p) /\ Head(net[p]) = at[p] + 1
<1> DEFINE q == Peer(p)
<1> DEFINE n == at[p] + 1
<1>1. /\ q \in Party /\ at[p] \in Nat /\ Len(Script[p]) \in Nat
      /\ n \in 1..Len(Script[p])
      /\ Sent(q) \in Nat
  BY Peers, AgreedCalls, InFlightType DEF LinkInv, PositionsOK
<1>2. SendsIn(q, n)
  BY <1>1, AgreedCalls DEF Receives, Step, CallOf, SendsIn
<1>3. /\ net[p] \in Seq(Nat) /\ InOrder(net[p]) /\ Holds(net[p], InFlight(p))
      /\ InFlight(p) \in SUBSET Nat
  BY InFlightType DEF LinkInv, PositionsOK, ChannelsOK
<1>4. Head(net[p]) \in InFlight(p) /\ \A m \in InFlight(p) : Head(net[p]) <= m
  BY <1>3, TakeFirst
<1>5. Head(net[p]) \in Nat /\ at[p] < Head(net[p]) /\ Head(net[p]) <= Sent(q)
  BY <1>3, <1>4 DEF InFlight
<1>6. n \in InFlight(p)
  BY <1>1, <1>2, <1>5 DEF InFlight
<1> QED BY <1>1, <1>4, <1>5, <1>6

(***************************************************************************)
(* So does receiving and going on to the next call.                        *)
(***************************************************************************)
LEMMA CompleteStep ==
  ASSUME SameCalls, LinkInv, NEW p \in Party, Complete(p)
  PROVE  LinkInv'
<1> DEFINE q == Peer(p)
<1> DEFINE n == at[p] + 1
<1>1. q \in Party /\ q # p /\ Peer(q) = p /\ \A r \in Party : r = p \/ r = q
  BY Peers
<1>2. /\ at[p] \in Nat /\ at[q] \in Nat /\ Len(Script[p]) \in Nat
      /\ at[p] < Len(Script[p]) /\ n \in 1..Len(Script[p])
      /\ proc[p] = "running"
      /\ Sent(p) \in Nat /\ Sent(q) \in Nat
      /\ InFlight(p) \in SUBSET Nat /\ InFlight(q) \in SUBSET Nat
  BY <1>1, AgreedCalls, InFlightType DEF LinkInv, PositionsOK, Complete, Busy
<1>3. /\ at' = [at EXCEPT ![p] = n]
      /\ posted' = [posted EXCEPT ![p] = FALSE]
      /\ UNCHANGED <<proc, ready>>
  BY DEF Complete
<1>4. /\ at' \in [Party -> Nat] /\ at'[p] = n /\ at'[q] = at[q]
      /\ posted' \in [Party -> BOOLEAN] /\ posted'[p] = FALSE /\ posted'[q] = posted[q]
  BY <1>1, <1>2, <1>3 DEF LinkInv, PositionsOK
<1>5. Sent(p)' = n /\ Sent(q)' = Sent(q)
  BY <1>4 DEF Sent
<1>6. Sent(p) = n \/ (Sent(p) = at[p] /\ ~SendsIn(p, n))
  BY <1>2 DEF Complete, Sends, Step, CallOf, SendsIn, Sent
<1>7. InFlight(q)' = InFlight(q)
  <2>1. InFlight(q) = {m \in 1 .. Sent(p) : at[q] < m /\ SendsIn(p, m)}
    BY <1>1 DEF InFlight
  <2>2. InFlight(q)' = {m \in 1 .. n : at[q] < m /\ SendsIn(p, m)}
    BY <1>1, <1>4, <1>5 DEF InFlight, SendsIn, CallOf
  <2> QED BY <1>2, <1>6, <2>1, <2>2
<1>8. InFlight(p)' = InFlight(p) \ {n}
  <2>1. InFlight(p) = {m \in 1 .. Sent(q) : at[p] < m /\ SendsIn(q, m)}
    BY DEF InFlight
  <2>2. InFlight(p)' = {m \in 1 .. Sent(q) : n < m /\ SendsIn(q, m)}
    BY <1>4, <1>5 DEF InFlight, SendsIn, CallOf
  <2> QED BY <1>2, <2>1, <2>2
<1>9. Receives(p) <=> SendsIn(q, n)
  BY <1>1, <1>2, AgreedCalls DEF Receives, Step, CallOf, SendsIn
<1>10. ASSUME Receives(p)
       PROVE  /\ net' \in [Party -> Seq(Nat)] /\ ChannelsOK'
              /\ n <= Sent(q)
  <2>1. n \in InFlight(p) /\ Head(net[p]) = n /\ net[p] # <<>>
    BY <1>2, <1>10, HeadIsNext DEF Complete
  <2>2. /\ net \in [Party -> Seq(Nat)] /\ net' = [net EXCEPT ![p] = Tail(net[p])]
        /\ InOrder(net[p]) /\ Holds(net[p], InFlight(p))
    BY <1>10 DEF LinkInv, PositionsOK, ChannelsOK, Complete
  <2>3. net[p] \in Seq(Nat)
    BY <2>2
  <2>4. /\ Tail(net[p]) \in Seq(Nat) /\ InOrder(Tail(net[p]))
        /\ Holds(Tail(net[p]), InFlight(p)')
    BY <1>2, <1>8, <2>1, <2>2, <2>3, TakeFirst
  <2>5. /\ net' \in [Party -> Seq(Nat)]
        /\ net'[p] = Tail(net[p]) /\ net'[q] = net[q]
    BY <1>1, <2>2, <2>4
  <2>6. ChannelsOK'
    <3>1. InOrder(net'[p]) /\ Holds(net'[p], InFlight(p)')
      BY <2>4, <2>5
    <3>2. InOrder(net'[q]) /\ Holds(net'[q], InFlight(q)')
      BY <1>1, <1>7, <2>5 DEF LinkInv, ChannelsOK
    <3> QED BY <1>1, <3>1, <3>2 DEF ChannelsOK, InOrder, Holds
  <2>7. n <= Sent(q)
    BY <2>1 DEF InFlight
  <2> QED BY <2>5, <2>6, <2>7
<1>11. ASSUME ~Receives(p)
       PROVE  net' \in [Party -> Seq(Nat)] /\ ChannelsOK'
  <2>1. net' = net /\ net \in [Party -> Seq(Nat)]
    BY <1>11 DEF LinkInv, PositionsOK, Complete
  <2>2. InFlight(p)' = InFlight(p)
    BY <1>8, <1>9, <1>11 DEF InFlight
  <2>3. \A r \in Party : InFlight(r)' = InFlight(r)
    BY <1>1, <1>7, <2>2
  <2> QED BY <2>1, <2>3 DEF LinkInv, ChannelsOK
<1>12. PositionsOK'
  <2>1. ASSUME NEW r \in Party
        PROVE  /\ at'[r] <= Len(Script[r]) /\ Sent(r)' <= Len(Script[r])
               /\ posted'[r] => SendsIn(r, at'[r] + 1)
               /\ proc'[r] = "finished" => at'[r] = Len(Script[r])
    <3>1. CASE r = p
      BY <1>2, <1>3, <1>4, <1>5, <3>1
    <3>2. CASE r = q
      BY <1>1, <1>3, <1>4, <1>5, <3>2 DEF LinkInv, PositionsOK
    <3> QED BY <1>1, <3>1, <3>2
  <2>2. proc' \in [Party -> {"absent", "starting", "opening", "running",
                             "finished", "failed"}]
    BY <1>3 DEF LinkInv, PositionsOK
  <2>3. \A r \in Party : posted'[r] => SendsIn(r, at[r] + 1)'
    BY <2>1 DEF SendsIn, CallOf
  <2> QED BY <1>4, <1>10, <1>11, <2>1, <2>2, <2>3 DEF PositionsOK
<1>13. NothingMissed'
  <2>1. ASSUME NEW m \in 1..n, SendsIn(q, m) PROVE m <= Sent(q)
    <3>1. CASE m = n
      BY <1>9, <1>10, <2>1, <3>1
    <3>2. CASE m \in 1..at[p]
      BY <2>1, <3>2 DEF LinkInv, NothingMissed
    <3> QED BY <1>2, <3>1, <3>2
  <2>2. ASSUME NEW m \in 1..at[q], SendsIn(p, m) PROVE m <= n
    <3>1. m <= Sent(p)
      BY <1>1, <2>2 DEF LinkInv, NothingMissed
    <3> QED BY <1>2, <1>6, <3>1
  <2>3. ASSUME NEW r \in Party, NEW m \in 1..at'[r], SendsIn(Peer(r), m)
        PROVE  m <= Sent(Peer(r))'
    BY <1>1, <1>4, <1>5, <2>1, <2>2, <2>3
  <2> QED BY <2>3 DEF NothingMissed, SendsIn, CallOf
<1> QED BY <1>10, <1>11, <1>12, <1>13 DEF LinkInv
-----------------------------------------------------------------------------
(***************************************************************************)
(* The processes: the connection joins both or no one, and only with the   *)
(* input accepted; only a process whose input is not accepted fails.       *)
(***************************************************************************)
Joined(p) == proc[p] \in {"running", "finished"}
JoinedOK ==
    \A p \in Party :
        /\ Joined(p) => Joined(Peer(p))
        /\ proc[p] = "opening" \/ Joined(p) => ready[p]
        /\ proc[p] = "failed" => ~ready[p]

(***************************************************************************)
(* What the type invariant says beyond the positions.                      *)
(***************************************************************************)
RoomOK == ready \in [Party -> BOOLEAN] /\ \A p \in Party : Len(net[p]) <= Capacity

LinkOK == LinkInv /\ JoinedOK /\ RoomOK

(***************************************************************************)
(* It holds of two processes that are not started yet.                     *)
(***************************************************************************)
LEMMA LinkStarts ==
  ASSUME SameCalls, LinkInit
  PROVE  LinkOK
<1>1. \A p \in Party : /\ proc[p] = "absent" /\ at[p] = 0 /\ posted[p] = FALSE
                       /\ net[p] = <<>> /\ Len(Script[p]) \in Nat
  BY AgreedCalls DEF LinkInit
<1>2. \A p \in Party : Sent(p) = 0 /\ InFlight(p) = {}
  BY <1>1, Peers DEF Sent, InFlight
<1>3. PositionsOK
  BY <1>1, <1>2 DEF LinkInit, PositionsOK
<1>4. ChannelsOK
  BY <1>1, <1>2 DEF ChannelsOK, InOrder, Holds
<1>5. NothingMissed
  BY <1>1 DEF NothingMissed
<1>6. JoinedOK
  BY <1>1, Peers DEF JoinedOK, Joined
<1>7. RoomOK
  BY <1>1, CapacityAssumption DEF RoomOK, LinkInit
<1> QED BY <1>3, <1>4, <1>5, <1>6, <1>7 DEF LinkOK, LinkInv

(***************************************************************************)
(* What the processes do to the connection.                                *)
(***************************************************************************)
LinkNext == Join \/ \E p \in Party : Launch(p) \/ PartyStep(p)

(***************************************************************************)
(* Positions and channels, in every step.                                  *)
(***************************************************************************)
LEMMA LinkStep ==
  ASSUME SameCalls, LinkInv, LinkNext
  PROVE  LinkInv'
<1>1. /\ proc \in [Party -> {"absent", "starting", "opening", "running",
                             "finished", "failed"}]
      /\ \A p \in Party : proc[p] = "finished" => at[p] = Len(Script[p])
  BY DEF LinkInv, PositionsOK
<1>2. ASSUME NEW p \in Party,
             Launch(p) \/ Fail(p) \/ Open(p) \/ Finish(p)
      PROVE  LinkInv'
  <2>1. UNCHANGED <<at, posted, net>>
    BY <1>2 DEF Launch, Fail, Open, Finish
  <2>2. \E s \in {"starting", "failed", "opening", "finished"} :
           /\ proc' = [proc EXCEPT ![p] = s]
           /\ s = "finished" => at[p] = Len(Script[p])
    BY <1>2 DEF Launch, Fail, Open, Finish
  <2>3. /\ proc' \in [Party -> {"absent", "starting", "opening", "running",
                                "finished", "failed"}]
        /\ \A q \in Party : proc'[q] = "finished" => at[q] = Len(Script[q])
    BY <1>1, <2>2
  <2> QED BY <2>1, <2>3, ProcStep
<1>3. CASE Join
  BY <1>1, <1>3, ProcStep DEF Join
<1> QED BY <1>2, <1>3, PostStep, CompleteStep DEF LinkNext, PartyStep

(***************************************************************************)
(* The two processes.                                                      *)
(***************************************************************************)
LEMMA JoinedStep ==
  ASSUME LinkInv, JoinedOK, LinkNext
  PROVE  JoinedOK'
<1>1. proc \in [Party -> {"absent", "starting", "opening", "running",
                          "finished", "failed"}]
  BY DEF LinkInv, PositionsOK
<1>2. ASSUME NEW p \in Party, Launch(p) PROVE JoinedOK'
  <2>1. proc[p] = "absent" /\ proc' = [proc EXCEPT ![p] = "starting"] /\ ready' = ready
    BY <1>2 DEF Launch
  <2>2. ~Joined(p) /\ ~Joined(Peer(p))
    BY <2>1, Peers DEF JoinedOK, Joined
  <2>3. \A q \in Party : (Joined(q)' <=> Joined(q)) /\ ~Joined(q)
    BY <1>1, <2>1, <2>2, Peers DEF Joined
  <2> QED BY <1>1, <2>1, <2>3, Peers DEF JoinedOK
<1>3. CASE Join
  <2>1. /\ \A p \in Party : proc[p] = "opening" /\ ready[p]
        /\ proc' = [p \in Party |-> "running"] /\ ready' = ready
    BY <1>3 DEF Join, JoinedOK
  <2> QED BY <2>1, Peers DEF JoinedOK, Joined
<1>4. ASSUME NEW p \in Party, Post(p) \/ Complete(p) PROVE JoinedOK'
  BY <1>4 DEF Post, Complete, JoinedOK, Joined
<1>5. ASSUME NEW p \in Party, Fail(p) \/ Open(p) PROVE JoinedOK'
  <2>1. /\ proc[p] = "starting" /\ ready' = ready
        /\ \/ proc' = [proc EXCEPT ![p] = "failed"] /\ ~ready[p]
           \/ proc' = [proc EXCEPT ![p] = "opening"] /\ ready[p]
    BY <1>5 DEF Fail, Open
  <2>2. \A q \in Party : ~Joined(q) /\ ~Joined(q)'
    BY <1>1, <2>1, Peers DEF JoinedOK, Joined
  <2> QED BY <1>1, <2>1, <2>2, Peers DEF JoinedOK
<1>6. ASSUME NEW p \in Party, Finish(p) PROVE JoinedOK'
  <2>1. proc[p] = "running" /\ proc' = [proc EXCEPT ![p] = "finished"] /\ ready' = ready
    BY <1>6 DEF Finish
  <2>2. \A q \in Party : (Joined(q)' <=> Joined(q)) /\ Joined(q)
    BY <1>1, <2>1, Peers DEF JoinedOK, Joined
  <2> QED BY <1>1, <2>1, <2>2, Peers DEF JoinedOK
<1> QED BY <1>2, <1>3, <1>4, <1>5, <1>6 DEF LinkNext, PartyStep

(***************************************************************************)
(* A message is sent only into a channel with room for it.                 *)
(***************************************************************************)
LEMMA RoomStep ==
  ASSUME LinkInv, RoomOK, LinkNext
  PROVE  RoomOK'
<1> USE DEF RoomOK
<1>1. net \in [Party -> Seq(Nat)]
  BY DEF LinkInv, PositionsOK
<1>2. CASE Join
  BY <1>2 DEF Join
<1>3. ASSUME NEW p \in Party, Launch(p) \/ Fail(p) \/ Open(p) \/ Finish(p)
      PROVE  RoomOK'
  BY <1>3 DEF Launch, Fail, Open, Finish
<1>4. ASSUME NEW p \in Party, Post(p)
      PROVE  RoomOK'
  <2>1. /\ net' = [net EXCEPT ![Peer(p)] = Append(net[Peer(p)], at[p] + 1)]
        /\ Len(net[Peer(p)]) < Capacity /\ Peer(p) \in Party /\ ready' = ready
    BY <1>4, Peers DEF Post
  <2>2. \A q \in Party : net'[q] = net[q] \/ (q = Peer(p) /\ net'[q] = Append(net[q], at[p] + 1))
    BY <1>1, <2>1
  <2>3. Len(Append(net[Peer(p)], at[p] + 1)) <= Capacity
    <3>1. net[Peer(p)] \in Seq(Nat) /\ at[p] + 1 \in Nat
      BY <1>1, <2>1 DEF LinkInv, PositionsOK
    <3>2. Len(Append(net[Peer(p)], at[p] + 1)) = Len(net[Peer(p)]) + 1
      BY <3>1
    <3>3. Len(net[Peer(p)]) \in Nat
      BY <3>1
    <3> QED BY <2>1, <3>2, <3>3, CapacityAssumption
  <2> QED BY <2>1, <2>2, <2>3
<1>5. ASSUME NEW p \in Party, Complete(p)
      PROVE  RoomOK'
  <2>1. ready' = ready /\ (net' = net \/ (net[p] # <<>> /\ net' = [net EXCEPT ![p] = Tail(net[p])]))
    BY <1>5 DEF Complete
  <2>2. net[p] # <<>> => Len(Tail(net[p])) <= Len(net[p]) /\ Len(net[p]) \in Nat
                         /\ Len(Tail(net[p])) \in Nat
    <3>1. net[p] \in Seq(Nat)
      BY <1>1
    <3> QED BY <3>1
  <2>3. \A q \in Party : net'[q] = net[q]
                         \/ (q = p /\ net[p] # <<>> /\ net'[q] = Tail(net[p]))
    BY <1>1, <2>1
  <2>4. ASSUME NEW q \in Party PROVE Len(net'[q]) <= Capacity
    <3>1. CASE net'[q] = net[q]
      BY <3>1
    <3>2. CASE q = p /\ net[p] # <<>> /\ net'[q] = Tail(net[p])
      <4>1. Len(net[p]) <= Capacity
        OBVIOUS
      <4>2. Len(net'[q]) = Len(Tail(net[p]))
        BY <3>2
      <4> QED BY <2>2, <3>2, <4>1, <4>2, CapacityAssumption
    <3> QED BY <2>3, <3>1, <3>2
  <2> QED BY <2>1, <2>4
<1> QED BY <1>2, <1>3, <1>4, <1>5 DEF LinkNext, PartyStep

(***************************************************************************)
(* All of it together.                                                     *)
(***************************************************************************)
LEMMA LinkGoesOn ==
  ASSUME SameCalls, LinkOK, [LinkNext]_linkVars
  PROVE  LinkOK'
<1>1. CASE LinkNext
  BY <1>1, LinkStep, JoinedStep, RoomStep DEF LinkOK
<1>2. CASE UNCHANGED linkVars
  <2>1. /\ proc \in [Party -> {"absent", "starting", "opening", "running",
                               "finished", "failed"}]
        /\ \A p \in Party : proc[p] = "finished" => at[p] = Len(Script[p])
    BY DEF LinkOK, LinkInv, PositionsOK
  <2>2. LinkInv'
    BY <1>2, <2>1, ProcStep DEF LinkOK, linkVars
  <2>3. JoinedOK' /\ RoomOK'
    BY <1>2 DEF LinkOK, linkVars, JoinedOK, Joined, RoomOK
  <2> QED BY <2>2, <2>3 DEF LinkOK
<1> QED BY <1>1, <1>2

(***************************************************************************)
(* The type invariant follows.                                             *)
(***************************************************************************)
LEMMA LinkTypes ==
  ASSUME LinkOK
  PROVE  LinkTypeOK
BY DEF LinkOK, LinkInv, PositionsOK, RoomOK, LinkTypeOK
-----------------------------------------------------------------------------
(***************************************************************************)
(* Each call reads its own message.                                        *)
(***************************************************************************)
LEMMA MatchInvariant ==
  ASSUME SameCalls, LinkOK
  PROVE  MessagesMatchCalls
<1>1. ASSUME NEW p \in Party, Busy(p), Receives(p), net[p] # <<>>
      PROVE  Head(net[p]) = at[p] + 1
  BY <1>1, HeadIsNext DEF LinkOK, Busy
<1>2. ASSUME \A p \in Party : proc[p] = "finished", NEW p \in Party
      PROVE  net[p] = <<>>
  <2>1. at[p] = Len(Script[ALICE]) /\ Sent(Peer(p)) <= Len(Script[ALICE])
    BY <1>2, Peers, AgreedCalls DEF LinkOK, LinkInv, PositionsOK
  <2>2. at[p] \in Nat /\ Sent(Peer(p)) \in Nat /\ Len(Script[ALICE]) \in Nat
    BY Peers, InFlightType DEF LinkOK, LinkInv, PositionsOK, SameCalls
  <2>3. InFlight(p) = {}
    BY <2>1, <2>2 DEF InFlight
  <2>4. net[p] \in Seq(Nat) /\ \A j \in 1..Len(net[p]) : FALSE
    BY <2>3 DEF LinkOK, LinkInv, PositionsOK, ChannelsOK, Holds
  <2> QED BY <2>4
<1> QED BY <1>1, <1>2 DEF MessagesMatchCalls

(***************************************************************************)
(* A party that waits for room is ahead of the other; one that waits for a *)
(* message is not, and the message is the other's next.                    *)
(***************************************************************************)
LEMMA WaitPositions ==
  ASSUME SameCalls, LinkInv, NEW p \in Party, Waits(p)
  PROVE  /\ at[p] < Len(Script[p])
         /\ \/ Sends(p) /\ ~posted[p] /\ net[Peer(p)] # <<>> /\ at[Peer(p)] < at[p]
            \/ /\ (Sends(p) => posted[p]) /\ net[p] = <<>>
               /\ SendsIn(Peer(p), at[p] + 1)
               /\ Sent(Peer(p)) <= at[p]
<1> DEFINE q == Peer(p)
<1>1. /\ q \in Party /\ Peer(q) = p
      /\ at[p] \in Nat /\ at[q] \in Nat /\ Sent(q) \in Nat /\ at[q] <= Sent(q)
      /\ at[p] < Len(Script[p]) /\ Len(Script[p]) \in Nat
      /\ at[p] + 1 \in 1..Len(Script[p])
  BY Peers, AgreedCalls, InFlightType DEF LinkInv, PositionsOK, Waits, Busy
<1>2. CASE Sends(p) /\ ~posted[p] /\ Len(net[q]) >= Capacity
  <2>1. net[q] \in Seq(Nat) /\ Len(net[q]) \in Nat /\ 1 \in 1..Len(net[q])
    BY <1>1, <1>2, CapacityAssumption DEF LinkInv, PositionsOK
  <2>2. net[q][1] \in InFlight(q)
    BY <1>1, <2>1 DEF LinkInv, ChannelsOK, Holds
  <2>3. Sent(p) = at[p]
    BY <1>2 DEF Sent
  <2>4. at[q] < at[p]
    BY <1>1, <2>2, <2>3 DEF InFlight
  <2> QED BY <1>1, <1>2, <2>1, <2>4
<1>3. CASE (Sends(p) => posted[p]) /\ Receives(p) /\ net[p] = <<>>
  <2>1. SendsIn(q, at[p] + 1)
    BY <1>1, <1>3, AgreedCalls DEF Receives, Step, CallOf, SendsIn
  <2>2. Len(net[p]) = 0
    BY <1>3
  <2>3. at[p] + 1 \notin InFlight(p)
    BY <2>2 DEF LinkInv, ChannelsOK, Holds
  <2>4. Sent(q) <= at[p]
    BY <1>1, <2>1, <2>3 DEF InFlight
  <2> QED BY <1>1, <1>3, <2>1, <2>4
<1> QED BY <1>2, <1>3 DEF Waits

(***************************************************************************)
(* So two that wait would be at the same call, and neither there.          *)
(***************************************************************************)
LEMMA WaitInvariant ==
  ASSUME SameCalls, LinkOK
  PROVE  NeverBothWait
<1> SUFFICES ASSUME NEW p \in Party, Waits(p)
             PROVE  ~Waits(Peer(p)) /\ proc[Peer(p)] = "running"
  BY DEF NeverBothWait
<1> DEFINE q == Peer(p)
<1>1. /\ q \in Party /\ Peer(q) = p /\ at[p] \in Nat /\ at[q] \in Nat
      /\ Len(Script[p]) = Len(Script[q]) /\ Len(Script[p]) \in Nat
      /\ Sent(p) \in Nat /\ Sent(q) \in Nat /\ at[p] <= Sent(p) /\ at[q] <= Sent(q)
  BY Peers, AgreedCalls, InFlightType DEF LinkOK, LinkInv, PositionsOK
<1>2. LinkInv
  BY DEF LinkOK
<1>3. at[q] <= at[p] /\ at[p] < Len(Script[p])
  BY <1>1, <1>2, WaitPositions
<1>4. proc[q] = "running"
  <2>1. proc[p] = "running"
    BY DEF Waits, Busy
  <2>2. Joined(q)
    BY <2>1 DEF LinkOK, JoinedOK, Joined
  <2>3. proc[q] # "finished"
    BY <1>1, <1>3 DEF LinkOK, LinkInv, PositionsOK
  <2> QED BY <2>2, <2>3 DEF Joined
<1>5. ASSUME Waits(q) PROVE FALSE
  <2>1. at[p] = at[q]
    BY <1>1, <1>2, <1>3, <1>5, WaitPositions
  <2>2. /\ (Sends(p) => posted[p]) /\ SendsIn(q, at[p] + 1) /\ Sent(q) <= at[p]
        /\ (Sends(q) => posted[q])
    BY <1>1, <1>2, <1>5, <2>1, WaitPositions
  <2>3. ~posted[q]
    BY <1>1, <2>1, <2>2 DEF Sent
  <2>4. Sends(q)
    BY <2>1, <2>2 DEF Sends, Step, CallOf, SendsIn
  <2> QED BY <2>2, <2>3, <2>4
<1> QED BY <1>4, <1>5
-----------------------------------------------------------------------------
(***************************************************************************)
(* When a party may make a step of each kind, as its code decides.  The    *)
(* provers do not know ENABLED: GuardedStep says that a step is one of     *)
(* these guards and an assignment, so that some step can be made exactly   *)
(* when one of them holds.                                                 *)
(***************************************************************************)
MayFail(p) == proc[p] = "starting" /\ ~ready[p]
MayOpen(p) == proc[p] = "starting" /\ ready[p]
MayPost(p) == Busy(p) /\ Sends(p) /\ ~posted[p] /\ Len(net[Peer(p)]) < Capacity
MayComplete(p) ==
    Busy(p) /\ (Sends(p) => posted[p]) /\ (Receives(p) => net[p] # <<>>)
MayFinish(p) == proc[p] = "running" /\ at[p] = Len(Calls[p])
MayStep(p) == MayFail(p) \/ MayOpen(p) \/ MayPost(p) \/ MayComplete(p) \/ MayFinish(p)
MayJoin == \A p \in Party : proc[p] = "opening"

With(f, p, x) == [f EXCEPT ![p] = x]
Becoming(state) == <<proc, ready, at, posted, net>>' = state

(***************************************************************************)
(* A step of a party is one of its guards and what it then assigns.        *)
(***************************************************************************)
LEMMA GuardedStep ==
  ASSUME NEW p \in Party
  PROVE  /\ PartyStep(p) <=>
            \/ MayFail(p) /\ Becoming(<<With(proc, p, "failed"), ready, at, posted, net>>)
            \/ MayOpen(p) /\ Becoming(<<With(proc, p, "opening"), ready, at, posted, net>>)
            \/ /\ MayPost(p)
               /\ Becoming(<<proc, ready, at, With(posted, p, TRUE),
                             With(net, Peer(p), Append(net[Peer(p)], at[p] + 1))>>)
            \/ /\ MayComplete(p)
               /\ Becoming(<<proc, ready, With(at, p, at[p] + 1), With(posted, p, FALSE),
                             IF Receives(p) THEN With(net, p, Tail(net[p])) ELSE net>>)
            \/ MayFinish(p) /\ Becoming(<<With(proc, p, "finished"), ready, at, posted, net>>)
         /\ Launch(p) <=>
            /\ proc[p] = "absent"
            /\ Becoming(<<With(proc, p, "starting"), ready, at, posted, net>>)
         /\ Join <=>
            MayJoin /\ Becoming(<<[q \in Party |-> "running"], ready, at, posted, net>>)
BY DEF PartyStep, Fail, Open, Post, Complete, Finish, Launch, Join, MayFail, MayOpen,
       MayPost, MayComplete, MayFinish, MayJoin, Becoming, With

(***************************************************************************)
(* A party within its program makes a step, waits for its peer, or is done *)
(* with the calls.                                                         *)
(***************************************************************************)
LEMMA RunsOrWaits ==
  ASSUME SameCalls, LinkOK, NEW p \in Party, proc[p] = "running"
  PROVE  MayStep(p) \/ Waits(p)
<1>1. /\ at[p] \in Nat /\ Len(Calls[p]) \in Nat /\ at[p] <= Len(Calls[p])
      /\ posted[p] \in BOOLEAN
  BY AgreedCalls DEF LinkOK, LinkInv, PositionsOK
<1>2. Len(net[Peer(p)]) \in Nat /\ Capacity \in Nat
  BY Peers, CapacityAssumption DEF LinkOK, LinkInv, PositionsOK
<1>3. MayFinish(p) \/ Busy(p)
  BY <1>1 DEF MayFinish, Busy
<1>4. ASSUME Busy(p), Sends(p), ~posted[p]
      PROVE  MayPost(p) \/ Waits(p)
  BY <1>2, <1>4 DEF MayPost, Waits
<1>5. ASSUME Busy(p), Sends(p) => posted[p]
      PROVE  MayComplete(p) \/ Waits(p)
  BY <1>5 DEF MayComplete, Waits
<1> QED BY <1>3, <1>4, <1>5 DEF MayStep

(***************************************************************************)
(* So as long as one of them is within the program, one can go on.         *)
(***************************************************************************)
LEMMA RunningGoesOn ==
  ASSUME SameCalls, LinkOK, NEW p \in Party, proc[p] = "running"
  PROVE  \E q \in Party : MayStep(q)
<1>1. Waits(p) => ~Waits(Peer(p)) /\ proc[Peer(p)] = "running" /\ Peer(p) \in Party
  BY WaitInvariant, Peers DEF NeverBothWait
<1> QED BY <1>1, RunsOrWaits

(***************************************************************************)
(* One was refused its input and has exited, and the other listens or      *)
(* tries to connect.                                                       *)
(***************************************************************************)
OneRefused == \E p \in Party : proc[p] = "failed" /\ proc[Peer(p)] = "opening"

(***************************************************************************)
(* Two processes that were started and that neither make a step nor join   *)
(* have both exited, or one was refused.                                   *)
(***************************************************************************)
LEMMA LinkStops ==
  ASSUME SameCalls, LinkOK, \A p \in Party : proc[p] # "absent",
         \A p \in Party : ~MayStep(p), ~MayJoin
  PROVE  OneRefused \/ \A p \in Party : proc[p] \in {"finished", "failed"}
<1>1. ASSUME NEW p \in Party
      PROVE  proc[p] \in {"opening", "finished", "failed"}
  <2>1. proc[p] \in {"absent", "starting", "opening", "running", "finished", "failed"}
    BY DEF LinkOK, LinkInv, PositionsOK
  <2>2. proc[p] # "starting"
    BY DEF MayStep, MayFail, MayOpen
  <2>3. proc[p] # "running"
    BY RunningGoesOn
  <2> QED BY <2>1, <2>2, <2>3
<1>2. ASSUME NEW p \in Party, proc[p] = "opening"
      PROVE  proc[Peer(p)] = "failed" /\ Peer(p) \in Party /\ Peer(Peer(p)) = p
  <2>1. Peer(p) \in Party /\ Peer(Peer(p)) = p /\ proc[Peer(p)] # "opening"
    BY <1>2, Peers DEF MayJoin
  <2>2. proc[Peer(p)] # "finished"
    BY <1>2, <2>1 DEF LinkOK, JoinedOK, Joined
  <2> QED BY <1>1, <2>1, <2>2
<1> QED BY <1>1, <1>2 DEF OneRefused

(***************************************************************************)
(* Nothing gets them out of a refusal.                                     *)
(***************************************************************************)
LEMMA RefusedStops ==
  ASSUME OneRefused
  PROVE  ~MayJoin /\ \A p \in Party : ~MayStep(p) /\ proc[p] # "absent"
<1>1. PICK p \in Party : proc[p] = "failed" /\ proc[Peer(p)] = "opening"
  BY DEF OneRefused
<1>2. \A q \in Party : proc[q] \in {"failed", "opening"}
  BY <1>1, Peers
<1>3. \A q \in Party : ~MayStep(q) /\ proc[q] # "absent"
  BY <1>2 DEF MayStep, MayFail, MayOpen, MayPost, MayComplete, MayFinish, Busy
<1> QED BY <1>1, <1>3 DEF MayJoin
-----------------------------------------------------------------------------
(***************************************************************************)
(* How far a process has come: its state, the calls it has completed and   *)
(* the parts that it has sent.                                             *)
(***************************************************************************)
Rank(state) ==
    CASE state = "absent"   -> 0
      [] state = "starting" -> 1
      [] state = "opening"  -> 2
      [] state = "running"  -> 3
      [] OTHER              -> 4
Advance(p) == Rank(proc[p]) + at[p] + Sent(p)
LinkAdvance == Advance(ALICE) + Advance(BOB)
LinkBound == 8 + 4 * Len(Script[ALICE])

(***************************************************************************)
(* It is bounded.                                                          *)
(***************************************************************************)
LEMMA AdvanceType ==
  ASSUME SameCalls, LinkInv
  PROVE  /\ \A p \in Party : Rank(proc[p]) \in 0..4 /\ at[p] \in Nat /\ Sent(p) \in Nat
                            /\ Advance(p) \in 0 .. 4 + 2 * Len(Script[ALICE])
         /\ LinkAdvance \in 0..LinkBound
<1>1. Len(Script[ALICE]) \in Nat
  BY DEF SameCalls
<1>2. ASSUME NEW p \in Party
      PROVE  Rank(proc[p]) \in 0..4 /\ at[p] \in Nat /\ Sent(p) \in Nat
             /\ Advance(p) \in 0 .. 4 + 2 * Len(Script[ALICE])
  <2>1. /\ at[p] \in Nat /\ at[p] <= Len(Script[ALICE])
        /\ Sent(p) \in Nat /\ Sent(p) <= Len(Script[ALICE])
    BY <1>1, AgreedCalls DEF LinkInv, PositionsOK, Sent
  <2>2. Rank(proc[p]) \in 0..4
    BY DEF Rank
  <2> QED BY <1>1, <2>1, <2>2 DEF Advance
<1> QED BY <1>1, <1>2 DEF LinkAdvance, LinkBound, Party

(***************************************************************************)
(* What a step of one party does to its own place and to the other's.      *)
(***************************************************************************)
LEMMA PlaceStep ==
  ASSUME SameCalls, LinkInv, NEW p \in Party, Launch(p) \/ PartyStep(p)
  PROVE  /\ Advance(p)' \in Nat /\ Advance(p)' > Advance(p)
         /\ Advance(Peer(p))' = Advance(Peer(p))
<1> DEFINE q == Peer(p)
<1>1. q \in Party /\ q # p
  BY Peers
<1>2. /\ at[p] \in Nat /\ at[q] \in Nat /\ Sent(p) \in Nat
      /\ Sent(p) \in {at[p], at[p] + 1}
  BY <1>1, AdvanceType DEF Sent
<1>3. /\ proc \in [Party -> {"absent", "starting", "opening", "running",
                             "finished", "failed"}]
      /\ at \in [Party -> Nat] /\ posted \in [Party -> BOOLEAN]
  BY DEF LinkInv, PositionsOK
<1>4. CASE Launch(p) \/ Fail(p) \/ Open(p) \/ Finish(p)
  <2>1. \E s \in {"starting", "failed", "opening", "finished"} :
           proc' = [proc EXCEPT ![p] = s] /\ Rank(s) > Rank(proc[p])
           /\ Rank(s) \in Nat /\ Rank(proc[p]) \in Nat
    BY <1>4 DEF Launch, Fail, Open, Finish, Rank
  <2>2. UNCHANGED <<at, posted>>
    BY <1>4 DEF Launch, Fail, Open, Finish
  <2>3. proc'[q] = proc[q] /\ Sent(p)' = Sent(p) /\ Sent(q)' = Sent(q)
    BY <1>1, <1>3, <2>1, <2>2 DEF Sent
  <2>4. /\ Rank(proc'[p]) \in Nat /\ Rank(proc[p]) \in Nat
        /\ Rank(proc'[p]) > Rank(proc[p])
    BY <1>3, <2>1
  <2> QED BY <1>2, <2>2, <2>3, <2>4 DEF Advance
<1>5. CASE Post(p)
  <2>1. /\ UNCHANGED <<proc, at>> /\ ~posted[p]
        /\ posted' = [posted EXCEPT ![p] = TRUE]
    BY <1>5 DEF Post
  <2>2. Sent(p) = at[p] /\ Sent(p)' = at[p] + 1 /\ Sent(q)' = Sent(q)
    BY <1>1, <1>3, <2>1 DEF Sent
  <2>3. Rank(proc[p]) \in Nat
    BY AdvanceType
  <2> QED BY <1>2, <2>1, <2>2, <2>3 DEF Advance
<1>6. CASE Complete(p)
  <2>1. /\ UNCHANGED proc /\ at' = [at EXCEPT ![p] = at[p] + 1]
        /\ posted' = [posted EXCEPT ![p] = FALSE]
    BY <1>6 DEF Complete
  <2>2. /\ at'[p] = at[p] + 1 /\ at'[q] = at[q] /\ posted'[p] = FALSE
        /\ posted'[q] = posted[q]
    BY <1>1, <1>3, <2>1
  <2>3. Sent(p)' = at[p] + 1 /\ Sent(q)' = Sent(q)
    BY <2>2 DEF Sent
  <2>4. Rank(proc[p]) \in Nat
    BY AdvanceType
  <2> QED BY <1>2, <2>1, <2>2, <2>3, <2>4 DEF Advance
<1> QED BY <1>4, <1>5, <1>6 DEF PartyStep

(***************************************************************************)
(* Every step takes the two of them further.                               *)
(***************************************************************************)
LEMMA LinkAdvances ==
  ASSUME SameCalls, LinkInv, LinkNext
  PROVE  LinkAdvance \in Nat /\ LinkAdvance' \in Nat /\ LinkAdvance' > LinkAdvance
<1>1. \A p \in Party : Advance(p) \in Nat
  BY AdvanceType, AgreedCalls
<1>2. ASSUME NEW p \in Party, Launch(p) \/ PartyStep(p)
      PROVE  LinkAdvance' \in Nat /\ LinkAdvance' > LinkAdvance
  <2>1. /\ Advance(p)' \in Nat /\ Advance(p)' > Advance(p)
        /\ Advance(Peer(p))' = Advance(Peer(p))
    BY <1>2, PlaceStep
  <2>2. LinkAdvance = Advance(p) + Advance(Peer(p))
    BY <1>1, Peers DEF LinkAdvance, Party, Peer
  <2>3. LinkAdvance' = Advance(p)' + Advance(Peer(p))'
    <3>1. CASE p = ALICE
      BY <3>1 DEF LinkAdvance, Peer
    <3>2. CASE p = BOB
      <4>1. Peer(p) = ALICE
        BY <3>2, PartiesDiffer DEF Peer
      <4>2. Advance(ALICE)' = Advance(ALICE)
        BY <2>1, <4>1
      <4> QED BY <1>1, <2>1, <3>2, <4>1, <4>2 DEF LinkAdvance, Party
    <3> QED BY <3>1, <3>2 DEF Party
  <2> QED BY <1>1, <2>1, <2>2, <2>3, Peers
<1>3. CASE Join
  <2>1. /\ \A p \in Party : proc[p] = "opening" /\ proc'[p] = "running"
        /\ UNCHANGED <<at, posted>>
    BY <1>3 DEF Join
  <2>2. \A p \in Party : Advance(p)' = Advance(p) + 1
    <3> SUFFICES ASSUME NEW p \in Party PROVE Advance(p)' = Advance(p) + 1
      OBVIOUS
    <3>1. Sent(p)' = Sent(p) /\ at'[p] = at[p] /\ at[p] \in Nat /\ Sent(p) \in Nat
      BY <2>1, AdvanceType DEF Sent
    <3>2. Rank(proc[p]) = 2 /\ Rank(proc'[p]) = 3
      BY <2>1 DEF Rank
    <3> QED BY <3>1, <3>2 DEF Advance
  <2> QED BY <1>1, <2>2 DEF LinkAdvance, Party
<1> QED BY <1>1, <1>2, <1>3 DEF LinkNext, LinkAdvance, Party
=============================================================================
