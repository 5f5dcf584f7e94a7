-------------------------- MODULE BenchSweepProofs --------------------------
(***************************************************************************)
(* The sweep, for every list of points, every argument and limit, every    *)
(* size of the channels: what a run reports is right for every program     *)
(* whose runs have the shape of run_one.                                   *)
(*                                                                         *)
(* A party never looks at a clock or at the other party but through its    *)
(* messages, which the model does not distinguish; so what it knows is     *)
(* determined by how many of its calls it has completed.  Took is that     *)
(* function, the inductive invariant says that each party is where its     *)
(* calls took it, and the rest is about Took alone: by induction on the    *)
(* number of calls, for one party, or for both side by side.               *)
(*                                                                         *)
(* ProgramIsSweep, at the end, shows that bench_compare's own program has  *)
(* that shape, whatever its points of up to 64 variables and cubes.        *)
(*                                                                         *)
(* DnfCubesProofs gives induction, sequences and widths; its cubes play no *)
(* part here.                                                              *)
(***************************************************************************)
EXTENDS BenchSweep, SweepCalls, PartyLinkProofs, DnfCubesProofs

USE DEF Calls

(***************************************************************************)
(* A run of run_one stands from position f, generate, to position e,       *)
(* report; r is the last position before its reveals.  What is timed are   *)
(* phases that are entered and left, with the calls between.               *)
(***************************************************************************)
Carried == {"alice_input", "bob_input", "gates", "reveal"}
Width(s, f) == s[f].run.width
Outside(call) == call \in {"start", "leave"}

IsSetup(s, f) ==
    /\ s[f].call = "generate" /\ s[f + 1].call = "pepin"
    /\ s[f + 2].call = "ping" /\ s[f + 3].call = "pong" /\ s[f + 4].call = "start"
    /\ \A n \in f .. f + 4 : s[n].phase = "setup"

IsTimed(s, f, e) ==
    /\ \A n \in f + 5 .. e - 1 :
          /\ s[n].call \in Carried \cup {"enter", "leave"}
          /\ s[n].phase \notin {"setup", "report"}
    /\ \A n \in f + 5 .. e :
          IF s[n].call \in {"enter", "report"}
          THEN Outside(s[n - 1].call)
          ELSE s[n - 1].call \in Carried \cup {"enter"}

IsRevealed(s, f, r, e) ==
    /\ Width(s, f) \in 0..128 /\ r + Slices(Width(s, f)) + 2 = e
    /\ \A n \in f + 5 .. e - 1 :
          s[n].call = "reveal" <=> r < n /\ n <= r + Slices(Width(s, f))

IsRun(s, f, r, e) ==
    /\ f \in Nat /\ r \in Nat /\ e \in Nat
    /\ 1 <= f /\ f + 5 <= r /\ r < e /\ e <= Len(s)
    /\ \A n \in f..e : s[n].run = s[f].run
    /\ IsSetup(s, f) /\ IsTimed(s, f, e) /\ IsRevealed(s, f, r, e)
    /\ s[e].call = "report" /\ s[e].phase = "report"

(***************************************************************************)
(* A program that consists of such runs, and is the same for both parties. *)
(***************************************************************************)
IsSweep(s) ==
    /\ Len(s) \in Nat
    /\ \A n \in 1..Len(s) : \E f, r, e \in Nat : IsRun(s, f, r, e) /\ n \in f..e

BothSweep == Script[BOB] = Script[ALICE] /\ IsSweep(Script[ALICE])

(***************************************************************************)
(* Both parties have the one program, so they share its calls.             *)
(***************************************************************************)
LEMMA SweepIsShared ==
  ASSUME BothSweep
  PROVE  /\ SameCalls
         /\ \A p \in Party : Script[p] = Script[ALICE] /\ IsSweep(Script[p])
BY DEF BothSweep, SameCalls, CallOf, Party, IsSweep
-----------------------------------------------------------------------------
(***************************************************************************)
(* What a call of party p, started with argument a, makes of what it       *)
(* knows, and what it prints.  Pepin's answer is left out: it is the one   *)
(* thing that the number of calls does not determine.                      *)
(***************************************************************************)
Made(a, run) == [half \in Party |-> <<half, a, Shape(run)>>]
Traffic(p, call) ==
    [sent |-> IF p \in Senders(call) THEN 1 ELSE 0,
     recv |-> IF Peer(p) \in Senders(call) THEN 1 ELSE 0]
Slice(width, n) ==
    LET left == width - 64 * n
    IN  64 * n .. 64 * n + (IF left < 64 THEN left ELSE 64) - 1
Printed(p, step, s) ==
    [run |-> step.run, mine |-> s.pair[p], estimate |-> s.slices,
     total |-> Less(s.counters, s.mark), breakdown |-> s.breakdown]

Effect(p, a, step, s) ==
    [pair |-> IF step.call = "generate" THEN Made(a, step.run) ELSE s.pair,
     counters |-> Plus(s.counters, Traffic(p, step.call)),
     mark |-> IF step.call = "start" THEN s.counters ELSE s.mark,
     from |-> IF step.call = "enter" THEN s.counters ELSE s.from,
     breakdown |-> IF step.call = "start" THEN <<>>
                   ELSE IF step.call = "leave"
                   THEN add(s.breakdown, step.phase, Less(s.counters, s.from))
                   ELSE s.breakdown,
     slices |-> IF step.call = "start" THEN <<>>
                ELSE IF step.call = "reveal"
                THEN Append(s.slices, Slice(step.run.width, Len(s.slices)))
                ELSE s.slices,
     reports |-> IF step.call = "report" THEN Append(s.reports, Printed(p, step, s))
                 ELSE s.reports]

Fresh == [pair |-> "none", counters |-> NoCount, mark |-> NoCount,
          from |-> NoCount, breakdown |-> <<>>, slices |-> <<>>, reports |-> <<>>]

Reached(p, a, g, n) == IF n = 0 THEN Fresh ELSE Effect(p, a, Script[p][n], g[n - 1])
Follows(p, a, g, N) == g = [n \in 0..N |-> Reached(p, a, g, n)]

(***************************************************************************)
(* What it knows after n of its calls.                                     *)
(***************************************************************************)
Took(p, a) == CHOOSE g : Follows(p, a, g, Len(Script[p]))

(***************************************************************************)
(* What a party knows after n steps exists for every n: a recursive        *)
(* function on the numbers.                                                *)
(***************************************************************************)
LEMMA TookExists ==
  ASSUME NEW p, NEW a, NEW N \in Nat
  PROVE  \E g : Follows(p, a, g, N)
<1> DEFINE G == {n \in Nat : \E g : Follows(p, a, g, n)}
<1>1. 0 \in G
  <2> DEFINE g == [n \in 0..0 |-> Fresh]
  <2>1. \A n \in 0..0 : Reached(p, a, g, n) = Fresh
    BY DEF Reached
  <2>2. Follows(p, a, g, 0)
    BY <2>1 DEF Follows
  <2> QED BY <2>2
<1>2. ASSUME NEW n \in G PROVE n + 1 \in G
  <2>1. PICK g : Follows(p, a, g, n)
    OBVIOUS
  <2>2. n \in Nat
    OBVIOUS
  <2> HIDE DEF G
  <2> DEFINE h == [m \in 0 .. n + 1 |-> Reached(p, a, g, m)]
  <2>3. \A m \in 0..n : g[m] = Reached(p, a, g, m)
    BY <2>1 DEF Follows
  <2>4. \A m \in 0 .. n + 1 : h[m] = Reached(p, a, g, m)
    OBVIOUS
  <2> HIDE DEF h
  <2>5. \A m \in 0..n : h[m] = g[m]
    BY <2>2, <2>3, <2>4
  <2>6. \A m \in 0 .. n + 1 : Reached(p, a, h, m) = Reached(p, a, g, m)
    <3>1. ASSUME NEW m \in 0 .. n + 1, m # 0 PROVE h[m - 1] = g[m - 1]
      BY <2>2, <2>5, <3>1
    <3> QED BY <3>1 DEF Reached
  <2>7. Follows(p, a, h, n + 1)
    <3>1. h = [m \in 0 .. n + 1 |-> Reached(p, a, h, m)]
      BY <2>6 DEF h
    <3> QED BY <3>1 DEF Follows
  <2> QED BY <2>2, <2>7 DEF G
<1>3. G = Nat
  <2> HIDE DEF G
  <2>1. G \in SUBSET Nat
    BY DEF G
  <2> QED BY <1>1, <1>2, <2>1, GoodNaturals
<1> QED BY <1>3

(***************************************************************************)
(* From call to call.                                                      *)
(***************************************************************************)
LEMMA TookFacts ==
  ASSUME BothSweep, NEW p \in Party, NEW a
  PROVE  /\ Len(Script[p]) \in Nat
         /\ Took(p, a)[0] = Fresh
         /\ \A n \in 1..Len(Script[p]) :
               Took(p, a)[n] = Effect(p, a, Script[p][n], Took(p, a)[n - 1])
<1>1. Len(Script[p]) \in Nat
  BY SweepIsShared DEF IsSweep
<1>2. Follows(p, a, Took(p, a), Len(Script[p]))
  BY <1>1, TookExists DEF Took
<1>3. \A n \in 0..Len(Script[p]) : Took(p, a)[n] = Reached(p, a, Took(p, a), n)
  BY <1>2 DEF Follows
<1>4. \A n \in 1..Len(Script[p]) : n \in 0..Len(Script[p]) /\ n # 0
  BY <1>1
<1> QED BY <1>1, <1>3, <1>4 DEF Reached

(***************************************************************************)
(* What is printed at the report calls.                                    *)
(***************************************************************************)
ReportCalls(p) == {n \in 1..Len(Script[p]) : Script[p][n].call = "report"}
PrintedAt(p, a, n) == Printed(p, Script[p][n], Took(p, a)[n - 1])
AllPrinted(p, a) == {PrintedAt(p, a, n) : n \in ReportCalls(p)}

(***************************************************************************)
(* After any number of its steps a party has printed nothing else.         *)
(***************************************************************************)
LEMMA PrintedTaken ==
  ASSUME BothSweep, NEW p \in Party, NEW a
  PROVE  \A n \in 0..Len(Script[p]) : Took(p, a)[n].reports \in Seq(AllPrinted(p, a))
<1> DEFINE N == Len(Script[p])
           t == Took(p, a)
           R == AllPrinted(p, a)
           G == {n \in Nat : n \in 0..N => t[n].reports \in Seq(R)}
<1>1. N \in Nat /\ t[0] = Fresh
      /\ \A n \in 1..N : t[n] = Effect(p, a, Script[p][n], t[n - 1])
  BY TookFacts
<1>2. 0 \in G
  <2>1. Fresh.reports = <<>> /\ <<>> \in Seq(R)
    BY DEF Fresh
  <2> HIDE DEF t
  <2> QED BY <1>1, <2>1
<1>3. ASSUME NEW n \in G PROVE n + 1 \in G
  <2>1. SUFFICES ASSUME n + 1 \in 0..N PROVE t[n + 1].reports \in Seq(R)
    OBVIOUS
  <2>2. n \in 0..N /\ n + 1 \in 1..N /\ (n + 1) - 1 = n
    BY <1>1, <2>1
  <2> DEFINE c == Script[p][n + 1]
             new == t[n + 1]
             old == t[n]
  <2>3. old.reports \in Seq(R)
    BY <2>2
  <2>4. new = Effect(p, a, c, old)
    BY <1>1, <2>2
  <2>5. c.call = "report" => Printed(p, c, old) \in R
    BY <2>2 DEF AllPrinted, PrintedAt, ReportCalls
  <2>6. new.reports = IF c.call = "report"
                      THEN Append(old.reports, Printed(p, c, old))
                      ELSE old.reports
    BY <2>4 DEF Effect
  <2> HIDE DEF G, R, c, new, old, N, t
  <2>7. new.reports \in Seq(R)
    BY <2>3, <2>5, <2>6
  <2> QED BY <2>7 DEF new
<1>4. G = Nat
  <2> HIDE DEF G
  <2>1. G \in SUBSET Nat
    BY DEF G
  <2> QED BY <1>2, <1>3, <2>1, GoodNaturals
<1>5. \A n \in 0..N : n \in Nat
  BY <1>1
<1> QED BY <1>4, <1>5

(***************************************************************************)
(* Arithmetic of counts.                                                   *)
(***************************************************************************)
AtLeast(c, d) == c.sent >= d.sent /\ c.recv >= d.recv

(***************************************************************************)
(* A count is its two numbers.                                             *)
(***************************************************************************)
LEMMA CountFields ==
  /\ NoCount \in Count /\ NoCount.sent = 0 /\ NoCount.recv = 0
  /\ \A c \in Count : c.sent \in Nat /\ c.recv \in Nat
  /\ \A c, d \in Count : c.sent = d.sent /\ c.recv = d.recv => c = d
BY DEF Count, NoCount

(***************************************************************************)
(* Counts add up field by field and never get smaller.                     *)
(***************************************************************************)
LEMMA PlusFacts ==
  ASSUME NEW c \in Count, NEW d \in Count
  PROVE  /\ Plus(c, d) \in Count /\ AtLeast(Plus(c, d), c)
         /\ Plus(c, d).sent = c.sent + d.sent /\ Plus(c, d).recv = c.recv + d.recv
         /\ Plus(c, NoCount) = c
<1>1. ASSUME NEW e \in Count
      PROVE  /\ Plus(c, e) \in Count
             /\ Plus(c, e).sent = c.sent + e.sent /\ Plus(c, e).recv = c.recv + e.recv
  BY DEF Count, Plus
<1>2. AtLeast(Plus(c, d), c)
  BY <1>1, CountFields DEF AtLeast
<1>3. Plus(c, NoCount) = c
  BY <1>1, CountFields
<1> QED BY <1>1, <1>2, <1>3

(***************************************************************************)
(* Less undoes Plus, where it is defined.                                  *)
(***************************************************************************)
LEMMA LessFacts ==
  ASSUME NEW c \in Count, NEW d \in Count, AtLeast(c, d)
  PROVE  /\ Less(c, d) \in Count /\ Plus(d, Less(c, d)) = c
         /\ Less(c, d).sent = c.sent - d.sent /\ Less(c, d).recv = c.recv - d.recv
<1>1. /\ Less(c, d) \in Count
      /\ Less(c, d).sent = c.sent - d.sent /\ Less(c, d).recv = c.recv - d.recv
  BY DEF Count, Less, AtLeast
<1>2. Plus(d, Less(c, d)) = c
  BY <1>1, PlusFacts, CountFields
<1> QED BY <1>1, <1>2

(***************************************************************************)
(* The growth of a counter is what was added to it.                        *)
(***************************************************************************)
LEMMA PlusLess ==
  ASSUME NEW c \in Count, NEW d \in Count
  PROVE  Less(Plus(c, d), c) = d
<1>1. /\ Plus(c, d) \in Count /\ AtLeast(Plus(c, d), c)
      /\ Plus(c, d).sent = c.sent + d.sent /\ Plus(c, d).recv = c.recv + d.recv
  BY PlusFacts
<1>2. /\ Less(Plus(c, d), c) \in Count
      /\ Less(Plus(c, d), c).sent = d.sent /\ Less(Plus(c, d), c).recv = d.recv
  BY <1>1, LessFacts, CountFields
<1> QED BY <1>2, CountFields

(***************************************************************************)
(* The order in which counts are added does not matter.                    *)
(***************************************************************************)
LEMMA PlusOrder ==
  ASSUME NEW c \in Count, NEW d \in Count, NEW e \in Count
  PROVE  /\ Plus(Plus(c, d), e) = Plus(c, Plus(d, e))
         /\ Plus(Plus(c, d), e) = Plus(Plus(c, e), d)
<1>1. ASSUME NEW x \in Count, NEW y \in Count
      PROVE  /\ Plus(x, y) \in Count
             /\ Plus(x, y).sent = x.sent + y.sent /\ Plus(x, y).recv = x.recv + y.recv
  BY PlusFacts
<1>2. \A x \in Count : x.sent \in Nat /\ x.recv \in Nat
  BY CountFields
<1>3. /\ Plus(Plus(c, d), e) \in Count /\ Plus(c, Plus(d, e)) \in Count
      /\ Plus(Plus(c, e), d) \in Count
  BY <1>1
<1>4. /\ Plus(Plus(c, d), e).sent = c.sent + d.sent + e.sent
      /\ Plus(Plus(c, e), d).sent = c.sent + d.sent + e.sent
      /\ Plus(c, Plus(d, e)).sent = c.sent + d.sent + e.sent
  BY <1>1, <1>2
<1>5. /\ Plus(Plus(c, d), e).recv = c.recv + d.recv + e.recv
      /\ Plus(Plus(c, e), d).recv = c.recv + d.recv + e.recv
      /\ Plus(c, Plus(d, e)).recv = c.recv + d.recv + e.recv
  BY <1>1, <1>2
<1> QED BY <1>3, <1>4, <1>5, CountFields

(***************************************************************************)
(* AtLeast is a preorder.                                                  *)
(***************************************************************************)
LEMMA AtLeastOrder ==
  /\ \A c \in Count : AtLeast(c, c)
  /\ \A c, d, e \in Count : AtLeast(c, d) /\ AtLeast(d, e) => AtLeast(c, e)
BY DEF AtLeast, Count

(***************************************************************************)
(* The traffic of a call is a count, and a call that is not carried has    *)
(* none.                                                                   *)
(***************************************************************************)
LEMMA TrafficFacts ==
  ASSUME NEW p \in Party, NEW call
  PROVE  /\ Traffic(p, call) \in Count
         /\ call \in Local => Traffic(p, call) = NoCount /\ p \notin Senders(call)
                              /\ Peer(p) \notin Senders(call)
<1>1. call \in Local => Senders(call) = {}
  BY DEF Local, Senders
<1> QED BY <1>1 DEF Traffic, Count, NoCount

(***************************************************************************)
(* The counts are counts, and those that were noted are not greater than   *)
(* what has been counted since.                                            *)
(***************************************************************************)
Counted(s) ==
    /\ s.counters \in Count /\ s.mark \in Count /\ s.from \in Count
    /\ AtLeast(s.counters, s.mark) /\ AtLeast(s.counters, s.from)

(***************************************************************************)
(* After any number of its steps a party's counters are counts, none       *)
(* behind the readings taken of it.                                        *)
(***************************************************************************)
LEMMA CountsTaken ==
  ASSUME BothSweep, NEW p \in Party, NEW a
  PROVE  \A n \in 0..Len(Script[p]) : Counted(Took(p, a)[n])
<1> DEFINE N == Len(Script[p])
           t == Took(p, a)
           G == {n \in Nat : n \in 0..N => Counted(t[n])}
<1>1. N \in Nat /\ t[0] = Fresh
      /\ \A n \in 1..N : t[n] = Effect(p, a, Script[p][n], t[n - 1])
  BY TookFacts
<1> HIDE DEF N, t
<1>2. 0 \in G
  BY <1>1, CountFields, AtLeastOrder DEF Fresh, Counted
<1>3. ASSUME NEW n \in G PROVE n + 1 \in G
  <2>1. SUFFICES ASSUME n + 1 \in 0..N PROVE Counted(t[n + 1])
    OBVIOUS
  <2>2. n \in 0..N /\ n + 1 \in 1..N /\ (n + 1) - 1 = n
    BY <1>1, <2>1
  <2>3. Counted(t[n])
    BY <2>2
  <2> HIDE DEF G
  <2> DEFINE c == Script[p][n + 1]
             new == t[n + 1]
  <2>9. new = Effect(p, a, c, t[n])
    BY <1>1, <2>2
  <2>4. /\ new.counters = Plus(t[n].counters, Traffic(p, c.call))
        /\ new.mark = IF c.call = "start" THEN t[n].counters ELSE t[n].mark
        /\ new.from = IF c.call = "enter" THEN t[n].counters ELSE t[n].from
    BY <2>9 DEF Effect
  <2> HIDE DEF c, new
  <2>5. /\ new.counters \in Count /\ AtLeast(new.counters, t[n].counters)
    BY <2>3, <2>4, PlusFacts, TrafficFacts DEF Counted
  <2>7. AtLeast(new.counters, new.mark) /\ AtLeast(new.counters, new.from)
    BY <2>3, <2>4, <2>5, AtLeastOrder DEF Counted
  <2>8. Counted(new)
    BY <2>3, <2>4, <2>5, <2>7 DEF Counted
  <2> QED BY <2>8 DEF new
<1>4. G = Nat
  <2> HIDE DEF G
  <2>1. G \in SUBSET Nat
    BY DEF G
  <2> QED BY <1>2, <1>3, <2>1, GoodNaturals
<1>5. \A n \in 0..N : n \in Nat
  BY <1>1
<1> QED BY <1>4, <1>5 DEF N, t
-----------------------------------------------------------------------------
(***************************************************************************)
(* The inductive invariant: the connection, the arguments and the limits,  *)
(* and that each party is where its calls took it.  A message that was     *)
(* sent within the next call is counted already, and what was printed is   *)
(* compared but for the truth.                                             *)
(***************************************************************************)
FixedOK ==
    /\ args \in [Party -> Args]
    /\ stack \in [Party -> [soft : Nat, hard : Nat]]
    /\ \A p \in Party : stack[p].soft <= stack[p].hard

ByParty(f) == f = [q \in Party |-> f[q]]
RowsOK ==
    /\ ByParty(pair) /\ ByParty(truth) /\ ByParty(counters) /\ ByParty(mark)
    /\ ByParty(from) /\ ByParty(breakdown) /\ ByParty(slices) /\ ByParty(reports)

Bare(x) ==
    [run |-> x.run, mine |-> x.mine, estimate |-> x.estimate, total |-> x.total,
     breakdown |-> x.breakdown]
Told(x, answer) ==
    [run |-> x.run, mine |-> x.mine, truth |-> answer, estimate |-> x.estimate,
     total |-> x.total, breakdown |-> x.breakdown]
Listed(printed, s) ==
    Len(printed) = Len(s) /\ \A i \in 1..Len(s) : Bare(printed[i]) = s[i]

Ahead(p) == [sent |-> IF posted[p] THEN 1 ELSE 0, recv |-> 0]
IsAt(p, s) ==
    /\ pair[p] = s.pair
    /\ counters[p] = Plus(s.counters, Ahead(p))
    /\ mark[p] = s.mark /\ from[p] = s.from
    /\ breakdown[p] = s.breakdown /\ slices[p] = s.slices
    /\ Listed(reports[p], s.reports)
WhereOK == \A p \in Party : IsAt(p, Took(p, args[p])[at[p]])

(***************************************************************************)
(* From pepin to the report, what pepin has answered is about the pair of  *)
(* this run; and each report was printed at a report call, with an answer  *)
(* about the pair of its own run.                                          *)
(***************************************************************************)
Truths(p, a, run) ==
    IF p = ALICE THEN run_pepin_sanity_check(Made(a, run)) ELSE {nullopt}
AnswerOK(p) ==
    \A f, r, e \in Nat :
        IsRun(Script[p], f, r, e) /\ at[p] \in f + 1 .. e - 1
            => truth[p] \in Truths(p, args[p], Script[p][f].run)
AllReports(p, a) ==
    UNION {{Told(PrintedAt(p, a, n), answer) : answer \in Truths(p, a, Script[p][n].run)} :
             n \in ReportCalls(p)}
TruthOK == \A p \in Party : reports[p] \in Seq(AllReports(p, args[p])) /\ AnswerOK(p)

SweepInv == LinkOK /\ FixedOK /\ RowsOK /\ WhereOK /\ TruthOK

(***************************************************************************)
(* The invariant holds at the start.                                       *)
(***************************************************************************)
LEMMA SweepInit ==
  ASSUME BothSweep, Init
  PROVE  SweepInv
<1>1. LinkOK
  BY LinkStarts, SweepIsShared DEF Init
<1>2. FixedOK
  BY LimitsAssumption DEF FixedOK, Init
<1>3. RowsOK
  BY DEF RowsOK, ByParty, Init, Each
<1>4. ASSUME NEW p \in Party PROVE IsAt(p, Took(p, args[p])[at[p]])
  <2>1. Took(p, args[p])[at[p]] = Fresh /\ posted[p] = FALSE
    BY TookFacts DEF Init, LinkInit
  <2>2. Listed(<<>>, <<>>)
    BY DEF Listed
  <2>3. IsAt(p, Fresh)
    BY <2>1, <2>2 DEF IsAt, Init, Each, Fresh, Ahead, Plus, NoCount
  <2> QED BY <2>1, <2>3
<1>5. TruthOK
  <2>1. ASSUME NEW p \in Party PROVE reports[p] \in Seq(AllReports(p, args[p])) /\ AnswerOK(p)
    <3>1. reports[p] = <<>> /\ at[p] = 0
      BY DEF Init, LinkInit, Each
    <3>2. AnswerOK(p)
      BY <3>1 DEF AnswerOK, IsRun
    <3> QED BY <3>1, <3>2
  <2> QED BY <2>1 DEF TruthOK
<1> QED BY <1>1, <1>2, <1>3, <1>4, <1>5 DEF SweepInv, WhereOK

(***************************************************************************)
(* What a party knows, and what its next call makes of it.                 *)
(***************************************************************************)
Known(p) == Took(p, args[p])[at[p]]
Next_known(p) == Effect(p, args[p], Step(p), Known(p))

(***************************************************************************)
(* What the invariant says of one party: it is in its program, and its     *)
(* variables are what it knows after the steps it has made.                *)
(***************************************************************************)
LEMMA KnownTypes ==
  ASSUME BothSweep, SweepInv, NEW p \in Party
  PROVE  /\ at[p] \in 0..Len(Script[p]) /\ Len(Script[p]) \in Nat
         /\ Counted(Known(p)) /\ IsAt(p, Known(p))
         /\ counters[p] \in Count /\ mark[p] \in Count /\ from[p] \in Count
         /\ ~posted[p] => counters[p] = Known(p).counters
<1>1. at[p] \in 0..Len(Script[p]) /\ Len(Script[p]) \in Nat
  BY SweepIsShared DEF SweepInv, LinkOK, LinkInv, PositionsOK, IsSweep
<1>2. Counted(Known(p))
  BY <1>1, CountsTaken DEF Known
<1>3. IsAt(p, Known(p))
  BY DEF SweepInv, WhereOK, Known
<1>4. Ahead(p) \in Count /\ (~posted[p] => Ahead(p) = NoCount)
  BY DEF Ahead, Count, NoCount
<1>5. counters[p] \in Count /\ (~posted[p] => counters[p] = Known(p).counters)
  BY <1>2, <1>3, <1>4, PlusFacts DEF IsAt, Counted
<1> QED BY <1>1, <1>2, <1>3, <1>5 DEF IsAt, Counted

(***************************************************************************)
(* A call that a party completes takes it to where Took says.              *)
(***************************************************************************)
Kept(q) ==
    /\ pair'[q] = pair[q] /\ truth'[q] = truth[q] /\ counters'[q] = counters[q]
    /\ mark'[q] = mark[q] /\ from'[q] = from[q] /\ breakdown'[q] = breakdown[q]
    /\ slices'[q] = slices[q] /\ reports'[q] = reports[q]
Becomes(p, s) ==
    /\ pair'[p] = s.pair /\ counters'[p] = s.counters
    /\ mark'[p] = s.mark /\ from'[p] = s.from /\ breakdown'[p] = s.breakdown
    /\ slices'[p] = s.slices /\ Listed(reports'[p], s.reports)

(***************************************************************************)
(* A report and what it says but for the truth, added to both lists.       *)
(***************************************************************************)
LEMMA ListedAppend ==
  ASSUME NEW R, NEW X, NEW printed \in Seq(R), NEW s \in Seq(X), Listed(printed, s),
         NEW x, NEW y, Bare(x) = y
  PROVE  Listed(Append(printed, x), Append(s, y))
<1> DEFINE rr == Append(printed, x)
           ss == Append(s, y)
<1>1. /\ Len(rr) = Len(printed) + 1 /\ Len(ss) = Len(s) + 1
      /\ Len(printed) \in Nat /\ Len(s) \in Nat
      /\ rr[Len(printed) + 1] = x /\ ss[Len(s) + 1] = y
      /\ \A i \in 1..Len(printed) : rr[i] = printed[i]
      /\ \A i \in 1..Len(s) : ss[i] = s[i]
  OBVIOUS
<1>2. Len(printed) = Len(s) /\ \A i \in 1..Len(s) : Bare(printed[i]) = s[i]
  BY DEF Listed
<1> HIDE DEF rr, ss
<1>3. ASSUME NEW i \in 1 .. Len(s) + 1 PROVE Bare(rr[i]) = ss[i]
  <2>1. CASE i = Len(s) + 1
    BY <1>1, <1>2, <2>1
  <2>2. CASE i # Len(s) + 1
    <3>1. i \in 1..Len(s) /\ i \in 1..Len(printed)
      BY <1>1, <1>2, <2>2
    <3> QED BY <1>1, <1>2, <3>1
  <2> QED BY <2>1, <2>2
<1>4. Listed(rr, ss)
  BY <1>1, <1>2, <1>3 DEF Listed
<1> QED BY <1>4 DEF rr, ss

(***************************************************************************)
(* A party that completes a call and updates its variables as Next_known   *)
(* says is again where it should be.                                       *)
(***************************************************************************)
LEMMA CallTaken ==
  ASSUME BothSweep, SweepInv, NEW p \in Party, Complete(p), args' = args,
         \A q \in Party : q # p => Kept(q), Becomes(p, Next_known(p))
  PROVE  WhereOK'
<1>1. /\ at' = [at EXCEPT ![p] = @ + 1] /\ posted' = [posted EXCEPT ![p] = FALSE]
      /\ at[p] < Len(Script[p]) /\ Step(p) = Script[p][at[p] + 1]
  BY DEF Complete, Busy, Step
<1>2. at \in [Party -> Nat] /\ posted \in [Party -> BOOLEAN]
  BY DEF SweepInv, LinkOK, LinkInv, PositionsOK
<1>3. ASSUME NEW q \in Party, q # p PROVE IsAt(q, Took(q, args[q])[at[q]])'
  <2>1. at'[q] = at[q] /\ posted'[q] = posted[q] /\ Kept(q)
    BY <1>1, <1>2, <1>3
  <2>2. IsAt(q, Took(q, args[q])[at[q]])
    BY DEF SweepInv, WhereOK
  <2> QED BY <2>1, <2>2 DEF IsAt, Kept, Ahead
<1>4. IsAt(p, Took(p, args[p])[at[p]])'
  <2>1. at'[p] = at[p] + 1 /\ posted'[p] = FALSE /\ at[p] + 1 \in 1..Len(Script[p])
        /\ (at[p] + 1) - 1 = at[p] /\ at[p] + 1 \in 0..Len(Script[p])
    BY <1>1, <1>2, KnownTypes
  <2>2. Took(p, args[p])[at[p] + 1] = Next_known(p)
    BY <1>1, <2>1, TookFacts DEF Next_known, Known
  <2>3. PICK s : s = Next_known(p)
    OBVIOUS
  <2>5. s.counters \in Count /\ Plus(s.counters, NoCount) = s.counters
    <3>1. s.counters \in Count
      BY <2>1, <2>2, <2>3, CountsTaken DEF Counted
    <3> QED BY <3>1, CountFields, PlusFacts
  <2>4. Ahead(p)' = NoCount
    BY <2>1 DEF Ahead, NoCount
  <2>6. IsAt(p, s)'
    BY <2>3, <2>4, <2>5 DEF IsAt, Becomes
  <2>7. Took(p, args'[p])[at'[p]] = s
    BY <2>1, <2>2, <2>3
  <2> QED BY <2>6, <2>7
<1> QED BY <1>3, <1>4 DEF WhereOK

(***************************************************************************)
(* The calls, one by one.  A local call is made with nothing sent ahead.   *)
(***************************************************************************)
LEMMA LocalCall ==
  ASSUME BothSweep, SweepInv, NEW p \in Party, Busy(p), Step(p).call \in Local
  PROVE  /\ counters[p] = Known(p).counters
         /\ Next_known(p).counters = counters[p]
<1>1. ~posted[p]
  BY TrafficFacts DEF SweepInv, LinkOK, LinkInv, PositionsOK, SendsIn, CallOf, Step
<1>2. counters[p] = Known(p).counters /\ counters[p] \in Count
  BY <1>1, KnownTypes
<1>3. Traffic(p, Step(p).call) = NoCount
  BY TrafficFacts
<1>4. Next_known(p).counters = Plus(counters[p], NoCount)
  BY <1>2, <1>3 DEF Next_known, Effect
<1> QED BY <1>2, <1>4, PlusFacts, CountFields

(***************************************************************************)
(* What a report adds: what the party knows, and the answer it has.        *)
(***************************************************************************)
LEMMA ReportTells ==
  ASSUME BothSweep, SweepInv, NEW p \in Party, Report(p)
  PROVE  /\ reports'[p] = Append(reports[p], Told(Printed(p, Step(p), Known(p)), truth[p]))
         /\ \A q \in Party : q # p => reports'[q] = reports[q]
<1> DEFINE t == Known(p)
<1>1. RowsOK /\ IsAt(p, t)
  BY KnownTypes DEF SweepInv
<1>2. t.counters = counters[p]
  BY LocalCall DEF Report, Local
<1>3. [run |-> Step(p).run, mine |-> pair[p][p], truth |-> truth[p],
       estimate |-> slices[p], total |-> Less(counters[p], mark[p]),
       breakdown |-> breakdown[p]]
         = Told(Printed(p, Step(p), t), truth[p])
  BY <1>1, <1>2 DEF Told, Printed, IsAt
<1> QED BY <1>1, <1>3 DEF Report, RowsOK, ByParty

(***************************************************************************)
(* A party is where it should be after a step without the link:            *)
(* generating, counting, reading the counters, reporting.                  *)
(***************************************************************************)
LEMMA LocalStep ==
  ASSUME BothSweep, SweepInv, NEW p \in Party,
         Generate(p) \/ Pepin(p) \/ StartClock(p) \/ Enter(p) \/ Leave(p) \/ Report(p)
  PROVE  WhereOK'
<1> DEFINE s == Next_known(p)
           t == Known(p)
<1>1. RowsOK /\ IsAt(p, t)
  BY KnownTypes DEF SweepInv
<1>2. /\ Complete(p) /\ args' = args /\ Busy(p)
      /\ Step(p).call \in {"generate", "pepin", "start", "enter", "leave", "report"}
  BY DEF Generate, Pepin, StartClock, Enter, Leave, Report
<1>3. t.counters = counters[p] /\ s.counters = counters[p]
  BY <1>2, LocalCall DEF Local
<1>4. CASE Generate(p)
  <2>1. s.pair = Generated(p, Step(p).run)
    BY <1>4 DEF Generate, Next_known, Effect, Made, Generated
  <2>2. /\ s.mark = t.mark /\ s.from = t.from
        /\ s.breakdown = t.breakdown /\ s.slices = t.slices /\ s.reports = t.reports
    BY <1>4 DEF Generate, Next_known, Effect
  <2>3. Becomes(p, s) /\ \A q \in Party : q # p => Kept(q)
    BY <1>1, <1>3, <1>4, <2>1, <2>2 DEF Generate, Becomes, Kept, IsAt, RowsOK, ByParty
  <2> QED BY <1>2, <2>3, CallTaken
<1>5. CASE Pepin(p)
  <2>1. /\ s.pair = t.pair /\ s.mark = t.mark /\ s.from = t.from
        /\ s.breakdown = t.breakdown /\ s.slices = t.slices /\ s.reports = t.reports
    BY <1>5 DEF Pepin, Next_known, Effect
  <2>2. Becomes(p, s) /\ \A q \in Party : q # p => Kept(q)
    BY <1>1, <1>3, <1>5, <2>1 DEF Pepin, Becomes, Kept, IsAt, RowsOK, ByParty
  <2> QED BY <1>2, <2>2, CallTaken
<1>6. CASE StartClock(p)
  <2>1. s.mark = counters[p] /\ s.breakdown = <<>> /\ s.slices = <<>>
    BY <1>3, <1>6 DEF StartClock, Next_known, Effect
  <2>2. /\ s.pair = t.pair /\ s.from = t.from
        /\ s.reports = t.reports
    BY <1>6 DEF StartClock, Next_known, Effect
  <2>3. Becomes(p, s) /\ \A q \in Party : q # p => Kept(q)
    BY <1>1, <1>3, <1>6, <2>1, <2>2 DEF StartClock, Becomes, Kept, IsAt, RowsOK, ByParty
  <2> QED BY <1>2, <2>3, CallTaken
<1>7. CASE Enter(p)
  <2>1. s.from = counters[p]
    BY <1>3, <1>7 DEF Enter, Next_known, Effect
  <2>2. /\ s.pair = t.pair /\ s.mark = t.mark
        /\ s.breakdown = t.breakdown /\ s.slices = t.slices /\ s.reports = t.reports
    BY <1>7 DEF Enter, Next_known, Effect
  <2>3. Becomes(p, s) /\ \A q \in Party : q # p => Kept(q)
    BY <1>1, <1>3, <1>7, <2>1, <2>2 DEF Enter, Becomes, Kept, IsAt, RowsOK, ByParty
  <2> QED BY <1>2, <2>3, CallTaken
<1>8. CASE Leave(p)
  <2>1. s.breakdown = add(breakdown[p], Step(p).phase, Less(counters[p], from[p]))
    BY <1>1, <1>3, <1>8 DEF Leave, Next_known, Effect, IsAt
  <2>2. /\ s.pair = t.pair /\ s.mark = t.mark /\ s.from = t.from
        /\ s.slices = t.slices /\ s.reports = t.reports
    BY <1>8 DEF Leave, Next_known, Effect
  <2>3. Becomes(p, s) /\ \A q \in Party : q # p => Kept(q)
    BY <1>1, <1>3, <1>8, <2>1, <2>2 DEF Leave, Becomes, Kept, IsAt, RowsOK, ByParty
  <2> QED BY <1>2, <2>3, CallTaken
<1>9. CASE Report(p)
  <2>1. s.reports = Append(t.reports, Printed(p, Step(p), t))
    BY <1>9 DEF Report, Next_known, Effect
  <2>2. /\ s.pair = t.pair /\ s.mark = t.mark /\ s.from = t.from
        /\ s.breakdown = t.breakdown /\ s.slices = t.slices
    BY <1>9 DEF Report, Next_known, Effect
  <2>3. /\ reports'[p] = Append(reports[p], Told(Printed(p, Step(p), t), truth[p]))
        /\ \A q \in Party : q # p => reports'[q] = reports[q]
    BY <1>9, ReportTells
  <2>4. Listed(reports'[p], s.reports)
    <3>1. t.reports \in Seq(AllPrinted(p, args[p]))
      BY KnownTypes, PrintedTaken DEF Known
    <3>2. reports[p] \in Seq(AllReports(p, args[p])) /\ Listed(reports[p], t.reports)
      BY <1>1 DEF SweepInv, TruthOK, IsAt
    <3>3. Bare(Told(Printed(p, Step(p), t), truth[p])) = Printed(p, Step(p), t)
      BY DEF Bare, Told, Printed
    <3> HIDE DEF s, t
    <3> QED BY <2>1, <2>3, <3>1, <3>2, <3>3, ListedAppend
  <2>5. Becomes(p, s) /\ \A q \in Party : q # p => Kept(q)
    BY <1>1, <1>3, <1>9, <2>2, <2>3, <2>4
    DEF Report, Becomes, Kept, IsAt, RowsOK, ByParty
  <2> QED BY <1>2, <2>5, CallTaken
<1> QED BY <1>4, <1>5, <1>6, <1>7, <1>8, <1>9

(***************************************************************************)
(* The calls that send or receive: their own message is counted before.    *)
(***************************************************************************)
LEMMA LinkCall ==
  ASSUME BothSweep, SweepInv, NEW p \in Party, Complete(p)
  PROVE  /\ Received(p)[p] = Next_known(p).counters
         /\ \A q \in Party : q # p => Received(p)[q] = counters[q]
<1> DEFINE t == Known(p)
           c == Step(p).call
<1>1. /\ counters = [q \in Party |-> counters[q]] /\ IsAt(p, t)
      /\ t.counters \in Count /\ counters[p] \in Count
  BY KnownTypes DEF SweepInv, RowsOK, ByParty, Counted
<1>2. posted[p] <=> p \in Senders(c)
  BY DEF Complete, Sends, Step, SweepInv, LinkOK, LinkInv, PositionsOK, SendsIn, CallOf
<1>3. /\ Ahead(p) \in Count /\ Ahead(p).recv = 0
      /\ Ahead(p).sent = IF p \in Senders(c) THEN 1 ELSE 0
  BY <1>2 DEF Ahead, Count
<1>4. counters[p].sent = t.counters.sent + Ahead(p).sent /\ counters[p].recv = t.counters.recv
  BY <1>1, <1>3, PlusFacts, CountFields DEF IsAt
<1> DEFINE more == IF Receives(p) THEN 1 ELSE 0
<1>5. /\ Received(p)[p] = [counters[p] EXCEPT !.recv = @ + more]
      /\ \A q \in Party : q # p => Received(p)[q] = counters[q]
  BY <1>1 DEF Received
<1>6. more \in Nat
  OBVIOUS
<1> HIDE DEF more
<1>7. /\ Received(p)[p] \in Count /\ Received(p)[p].sent = counters[p].sent
      /\ Received(p)[p].recv = counters[p].recv + more
  BY <1>1, <1>5, <1>6 DEF Count
<1>8. Next_known(p).counters = Plus(t.counters, Traffic(p, c))
  BY DEF Next_known, Effect
<1>9. /\ Next_known(p).counters \in Count
      /\ Next_known(p).counters.sent = t.counters.sent + Traffic(p, c).sent
      /\ Next_known(p).counters.recv = t.counters.recv + Traffic(p, c).recv
  BY <1>1, <1>8, TrafficFacts, PlusFacts
<1>10. Traffic(p, c).sent = Ahead(p).sent /\ Traffic(p, c).recv = more
  BY <1>3 DEF Traffic, Receives, more
<1>11. Received(p)[p] = Next_known(p).counters
  BY <1>1, <1>4, <1>7, <1>9, <1>10, CountFields
<1> QED BY <1>5, <1>11

(***************************************************************************)
(* And one that takes part of a call or of a reveal.                       *)
(***************************************************************************)
LEMMA LinkCallStep ==
  ASSUME BothSweep, SweepInv, NEW p \in Party, Call(p) \/ Reveal(p)
  PROVE  WhereOK'
<1> DEFINE s == Next_known(p)
           t == Known(p)
<1>1. RowsOK /\ IsAt(p, t)
  BY KnownTypes DEF SweepInv
<1>2. /\ Complete(p) /\ args' = args /\ counters' = Received(p)
      /\ Step(p).call \notin Local
  BY DEF Call, Reveal, Local
<1>3. s.counters = counters'[p] /\ \A q \in Party : q # p => counters'[q] = counters[q]
  BY <1>2, LinkCall
<1>4. /\ s.pair = t.pair /\ s.mark = t.mark /\ s.from = t.from
      /\ s.breakdown = t.breakdown /\ s.reports = t.reports
  BY <1>2 DEF Next_known, Effect, Local
<1>5. CASE Call(p)
  <2>1. s.slices = t.slices
    BY <1>5 DEF Call, Local, Next_known, Effect
  <2>2. Becomes(p, s) /\ \A q \in Party : q # p => Kept(q)
    BY <1>1, <1>3, <1>4, <1>5, <2>1 DEF Call, Becomes, Kept, IsAt
  <2> QED BY <1>2, <2>2, CallTaken
<1>6. CASE Reveal(p)
  <2>1. s.slices = Append(slices[p], Slice(Step(p).run.width, Len(slices[p])))
    BY <1>1, <1>6 DEF Reveal, Next_known, Effect, IsAt
  <2>2. /\ slices'[p] = Append(slices[p], Slice(Step(p).run.width, Len(slices[p])))
        /\ \A q \in Party : q # p => slices'[q] = slices[q]
    BY <1>1, <1>6 DEF Reveal, Slice, RowsOK, ByParty
  <2>3. Becomes(p, s) /\ \A q \in Party : q # p => Kept(q)
    BY <1>1, <1>3, <1>4, <1>6, <2>1, <2>2 DEF Reveal, Becomes, Kept, IsAt
  <2> QED BY <1>2, <2>3, CallTaken
<1> QED BY <1>5, <1>6

(***************************************************************************)
(* A message that is sent is counted at once, and the call goes on.        *)
(***************************************************************************)
LEMMA SendStep ==
  ASSUME BothSweep, SweepInv, NEW p \in Party, Send(p)
  PROVE  WhereOK'
<1>1. /\ ByParty(counters) /\ posted \in [Party -> BOOLEAN]
      /\ UNCHANGED <<args, pair, truth, mark, from, breakdown, slices, reports, at>>
      /\ counters' = [counters EXCEPT ![p].sent = @ + 1]
      /\ posted' = [posted EXCEPT ![p] = TRUE] /\ ~posted[p]
  BY DEF Send, Post, SweepInv, RowsOK, LinkOK, LinkInv, PositionsOK
<1>2. ASSUME NEW q \in Party PROVE IsAt(q, Took(q, args[q])[at[q]])'
  <2>1. PICK t : t = Known(q)
    OBVIOUS
  <2>2. IsAt(q, t) /\ t.counters \in Count
    BY <2>1, KnownTypes DEF Counted
  <2>3. counters'[q] = Plus(t.counters, Ahead(q)')
    <3>1. CASE q # p
      <4>1. counters'[q] = counters[q] /\ posted'[q] = posted[q]
        BY <1>1, <3>1 DEF ByParty
      <4> QED BY <2>2, <4>1 DEF IsAt, Ahead
    <3>2. CASE q = p
      <4>1. counters[p] = t.counters
        BY <1>1, <2>1, <3>2, KnownTypes
      <4>2. counters'[p] = [counters[p] EXCEPT !.sent = @ + 1] /\ posted'[p] = TRUE
        BY <1>1 DEF ByParty
      <4> QED BY <2>2, <3>2, <4>1, <4>2 DEF Ahead, Plus, Count
    <3> QED BY <3>1, <3>2
  <2>4. IsAt(q, t)'
    BY <1>1, <2>2, <2>3 DEF IsAt
  <2>5. Took(q, args'[q])[at'[q]] = t
    BY <1>1, <2>1 DEF Known
  <2> QED BY <2>4, <2>5
<1> QED BY <1>2 DEF WhereOK

(***************************************************************************)
(* Each step, for the party that takes it.                                 *)
(***************************************************************************)
LEMMA WhereStep ==
  ASSUME BothSweep, SweepInv, [Next]_vars
  PROVE  WhereOK'
<1>1. ASSUME UNCHANGED <<args, pair, truth, counters, mark, from, breakdown, slices,
                         reports, at, posted>>
      PROVE  WhereOK'
  <2>1. ASSUME NEW q \in Party PROVE IsAt(q, Took(q, args[q])[at[q]])'
    <3>1. IsAt(q, Took(q, args[q])[at[q]])
      BY DEF SweepInv, WhereOK
    <3> QED BY <1>1, <3>1 DEF IsAt, Ahead
  <2> QED BY <2>1 DEF WhereOK
<1>2. CASE UNCHANGED vars
  BY <1>1, <1>2 DEF vars, linkVars, benchVars
<1>3. CASE Connect
  BY <1>1, <1>3 DEF Connect, Join, benchVars
<1>4. ASSUME NEW p \in Party, Start(p) \/ Manage(p)
      PROVE  WhereOK'
  BY <1>1, <1>4 DEF Start, Launch, Manage, Fail, Open, Finish, benchVars
<1> QED BY <1>2, <1>3, <1>4, LocalStep, LinkCallStep, SendStep DEF Next, Main

(***************************************************************************)
(* A step of the sweep is a step of the link or leaves it alone.           *)
(***************************************************************************)
LEMMA SweepIsLink ==
  ASSUME [Next]_vars
  PROVE  [LinkNext]_linkVars
BY DEF Next, vars, Connect, Main, Start, Manage, Generate, Pepin, StartClock, Enter,
       Leave, Send, Call, Reveal, Report, LinkNext, PartyStep

(***************************************************************************)
(* The arguments stay, and the soft limit is raised to the hard one at     *)
(* most.                                                                   *)
(***************************************************************************)
LEMMA FixedStep ==
  ASSUME FixedOK, [Next]_vars
  PROVE  FixedOK'
<1>1. ASSUME NEW p \in Party, Start(p) PROVE FixedOK'
  <2>1. args' = args /\ stack' = [stack EXCEPT ![p] = raise_stack_limit(stack[p])]
    BY <1>1 DEF Start
  <2>2. /\ raise_stack_limit(stack[p]) \in [soft : Nat, hard : Nat]
        /\ raise_stack_limit(stack[p]).soft <= raise_stack_limit(stack[p]).hard
    <3>1. stack[p] \in [soft : Nat, hard : Nat]
      BY DEF FixedOK
    <3> QED BY <3>1 DEF raise_stack_limit
  <2> QED BY <2>1, <2>2 DEF FixedOK
<1>2. ASSUME args' = args, stack' = stack PROVE FixedOK'
  BY <1>2 DEF FixedOK
<1> QED BY <1>1, <1>2
     DEF Next, vars, benchVars, Connect, Main, Manage, Generate, Pepin, StartClock, Enter,
         Leave, Send, Call, Reveal, Report

(***************************************************************************)
(* Every variable of the parties stays a function on the parties.          *)
(***************************************************************************)
LEMMA RowsStep ==
  ASSUME RowsOK, [Next]_vars
  PROVE  RowsOK'
<1> USE DEF RowsOK, ByParty
<1>1. ASSUME NEW p \in Party,
             Generate(p) \/ Pepin(p) \/ StartClock(p) \/ Enter(p) \/ Leave(p) \/ Report(p)
      PROVE  RowsOK'
  BY <1>1 DEF Generate, Pepin, StartClock, Enter, Leave, Report
<1>2. ASSUME NEW p \in Party, Send(p) \/ Call(p) \/ Reveal(p)
      PROVE  RowsOK'
  BY <1>2 DEF Send, Call, Reveal, Received
<1>3. ASSUME UNCHANGED <<pair, truth, counters, mark, from, breakdown, slices, reports>>
      PROVE  RowsOK'
  BY <1>3
<1> QED BY <1>1, <1>2, <1>3 DEF Next, vars, benchVars, Connect, Main, Start, Manage

(***************************************************************************)
(* A run generates once, has pepin count once, and reports once, at its    *)
(* end.                                                                    *)
(***************************************************************************)
LEMMA RunCalls ==
  ASSUME BothSweep, NEW p \in Party, NEW f \in Nat, NEW r \in Nat, NEW e \in Nat,
         IsRun(Script[p], f, r, e), NEW n \in f..e
  PROVE  /\ 1 <= f /\ f + 6 <= e /\ e <= Len(Script[p])
         /\ Script[p][n].run = Script[p][f].run
         /\ Script[p][n].call = "generate" <=> n = f
         /\ Script[p][n].call = "pepin" <=> n = f + 1
         /\ Script[p][n].call = "report" <=> n = e
<1> DEFINE s == Script[p]
<1>1. /\ f \in Nat /\ r \in Nat /\ e \in Nat /\ 1 <= f /\ f + 5 <= r /\ r < e
      /\ e <= Len(s) /\ s[n].run = s[f].run /\ s[e].call = "report"
      /\ IsSetup(s, f) /\ IsTimed(s, f, e)
  BY DEF IsRun
<1> HIDE DEF s
<1>2. f + 6 <= e /\ n \in {f, f + 1, f + 2, f + 3, f + 4, e} \cup (f + 5 .. e - 1)
  BY <1>1
<1>3. CASE n \in f + 5 .. e - 1
  <2>1. s[n].call \notin {"generate", "pepin", "report"}
    BY <1>1, <1>3 DEF IsTimed, Carried
  <2>2. n # f /\ n # f + 1 /\ n # e
    BY <1>1, <1>3
  <2> QED BY <1>1, <1>2, <2>1, <2>2 DEF s
<1>4. CASE n \in {f, f + 1, f + 2, f + 3, f + 4, e}
  <2>1. /\ s[f].call = "generate" /\ s[f + 1].call = "pepin"
        /\ s[f + 2].call = "ping" /\ s[f + 3].call = "pong" /\ s[f + 4].call = "start"
    BY <1>1 DEF IsSetup
  <2>2. f + 4 < e
    BY <1>1
  <2> QED BY <1>1, <1>2, <1>4, <2>1, <2>2 DEF s
<1> QED BY <1>2, <1>3, <1>4

(***************************************************************************)
(* A step leaves what a party has been answered and has reported alone, or *)
(* is its next call, of which pepin answers and a report adds one line.    *)
(***************************************************************************)
Unmoved(p) == at'[p] = at[p] /\ truth'[p] = truth[p] /\ reports'[p] = reports[p]
Moved(p) ==
    /\ at'[p] = at[p] + 1 /\ at[p] + 1 <= Len(Script[p])
    /\ IF Step(p).call = "pepin" THEN truth'[p] \in Answers(p) ELSE truth'[p] = truth[p]
    /\ reports'[p] =
          IF Step(p).call = "report"
          THEN Append(reports[p], Told(Printed(p, Step(p), Known(p)), truth[p]))
          ELSE reports[p]

(***************************************************************************)
(* Every action is of one of the two kinds, for either party.              *)
(***************************************************************************)
LEMMA TruthMoves ==
  ASSUME BothSweep, SweepInv, [Next]_vars, NEW p \in Party
  PROVE  Unmoved(p) \/ Moved(p)
<1>1. /\ RowsOK /\ at \in [Party -> Nat]
      /\ \A q \in Party : at[q] \in 0..Len(Script[q]) /\ Len(Script[q]) \in Nat
  BY KnownTypes DEF SweepInv, LinkOK, LinkInv, PositionsOK
<1>2. ASSUME UNCHANGED <<at, truth, reports>> PROVE Unmoved(p)
  BY <1>2 DEF Unmoved
<1>3. ASSUME NEW q \in Party, Complete(q)
      PROVE  /\ at'[q] = at[q] + 1 /\ at[q] + 1 <= Len(Script[q])
             /\ \A o \in Party : o # q => at'[o] = at[o]
  <2>1. at' = [at EXCEPT ![q] = @ + 1] /\ at[q] < Len(Script[q])
    BY <1>3 DEF Complete, Busy
  <2> QED BY <1>1, <2>1
<1>4. ASSUME NEW q \in Party,
             Generate(q) \/ StartClock(q) \/ Enter(q) \/ Leave(q) \/ Call(q) \/ Reveal(q)
      PROVE  Unmoved(p) \/ Moved(p)
  <2>1. /\ Complete(q) /\ truth' = truth /\ reports' = reports
        /\ Step(q).call \notin {"pepin", "report"}
    BY <1>4 DEF Generate, StartClock, Enter, Leave, Call, Reveal, Local
  <2> QED BY <1>3, <2>1 DEF Unmoved, Moved
<1>5. ASSUME NEW q \in Party, Pepin(q) PROVE Unmoved(p) \/ Moved(p)
  <2>1. /\ Complete(q) /\ reports' = reports /\ Step(q).call = "pepin"
        /\ \E answer \in Answers(q) : truth' = [truth EXCEPT ![q] = answer]
    BY <1>5 DEF Pepin
  <2>2. truth'[q] \in Answers(q) /\ \A o \in Party : o # q => truth'[o] = truth[o]
    BY <1>1, <2>1 DEF RowsOK, ByParty
  <2> QED BY <1>3, <2>1, <2>2 DEF Unmoved, Moved
<1>6. ASSUME NEW q \in Party, Report(q) PROVE Unmoved(p) \/ Moved(p)
  <2>1. Complete(q) /\ truth' = truth /\ Step(q).call = "report"
    BY <1>6 DEF Report
  <2>2. /\ reports'[q] = Append(reports[q], Told(Printed(q, Step(q), Known(q)), truth[q]))
        /\ \A o \in Party : o # q => reports'[o] = reports[o]
    BY <1>6, ReportTells
  <2> QED BY <1>3, <2>1, <2>2 DEF Unmoved, Moved
<1>7. ASSUME NEW q \in Party, Start(q) \/ Manage(q) \/ Send(q)
      PROVE  UNCHANGED <<at, truth, reports>>
  BY <1>7 DEF Start, Launch, Manage, Fail, Open, Finish, benchVars, Send, Post
<1> QED BY <1>2, <1>4, <1>5, <1>6, <1>7
     DEF Next, Main, Connect, Join, vars, linkVars, benchVars

(***************************************************************************)
(* Pepin is given the pair of its own run, so its answer is about that;    *)
(* and the report of the run is the next to be told it.                    *)
(***************************************************************************)
LEMMA TruthStep ==
  ASSUME BothSweep, SweepInv, [Next]_vars
  PROVE  TruthOK'
<1> SUFFICES ASSUME NEW p \in Party
             PROVE  reports'[p] \in Seq(AllReports(p, args'[p])) /\ AnswerOK(p)'
  BY DEF TruthOK
<1> DEFINE s == Script[p]
           a == args[p]
           n == at[p] + 1
<1>1. args' = args
  BY DEF Next, vars, benchVars, Connect, Main, Start, Manage, Generate, Pepin, StartClock,
         Enter, Leave, Send, Call, Reveal, Report
<1>2. reports[p] \in Seq(AllReports(p, a)) /\ AnswerOK(p)
  BY DEF SweepInv, TruthOK
<1>3. CASE Unmoved(p)
  BY <1>1, <1>2, <1>3 DEF Unmoved, AnswerOK
<1>4. CASE Moved(p)
  <2>1. at[p] \in Nat /\ n \in 1..Len(s) /\ Len(s) \in Nat
    BY <1>4, KnownTypes DEF Moved
  <2>2. at'[p] = n /\ Step(p) = s[n] /\ n - 1 = at[p]
    BY <1>4, <2>1 DEF Moved, Step
  <2>3. ASSUME NEW f \in Nat, NEW r \in Nat, NEW e \in Nat, IsRun(s, f, r, e),
               n \in f + 1 .. e - 1
        PROVE  truth'[p] \in Truths(p, a, s[f].run)
    <3>1. /\ f \in f..e /\ n \in f..e /\ f + 6 <= e /\ 1 <= f /\ e <= Len(s)
      BY <2>3, RunCalls
    <3>2. CASE n = f + 1
      <4>1. truth'[p] \in Answers(p)
        BY <1>4, <2>2, <2>3, <3>1, <3>2, RunCalls DEF Moved
      <4>2. Known(p) = Effect(p, a, s[f], Took(p, a)[f - 1])
        <5>1. at[p] = f /\ f \in 1..Len(s)
          BY <2>1, <3>1, <3>2
        <5> QED BY <5>1, TookFacts DEF Known
      <4>3. pair[p] = Made(a, s[f].run)
        <5>1. s[f].call = "generate"
          BY <2>3, <3>1, RunCalls
        <5>2. pair[p] = Known(p).pair
          BY KnownTypes DEF IsAt
        <5> QED BY <4>2, <5>1, <5>2 DEF Effect
      <4> QED BY <4>1, <4>3 DEF Answers, Truths
    <3>3. CASE n # f + 1
      <4>1. truth'[p] = truth[p]
        BY <1>4, <2>2, <2>3, <3>1, <3>3, RunCalls DEF Moved
      <4>2. at[p] \in f + 1 .. e - 1
        BY <2>1, <2>3, <3>3
      <4> QED BY <1>2, <2>3, <4>1, <4>2 DEF AnswerOK
    <3> QED BY <3>2, <3>3
  <2>4. AnswerOK(p)'
    BY <1>1, <2>2, <2>3 DEF AnswerOK
  <2>5. CASE s[n].call = "report"
    <3>1. PICK f \in Nat, r \in Nat, e \in Nat : IsRun(s, f, r, e) /\ n \in f..e
      BY <2>1, SweepIsShared DEF IsSweep
    <3>2. n = e /\ f + 6 <= e /\ s[n].run = s[f].run
      BY <2>5, <3>1, RunCalls
    <3>3. at[p] \in f + 1 .. e - 1
      BY <2>1, <3>2
    <3>4. truth[p] \in Truths(p, a, s[n].run)
      BY <1>2, <3>1, <3>2, <3>3 DEF AnswerOK
    <3>5. n \in ReportCalls(p)
      BY <2>1, <2>5 DEF ReportCalls
    <3>6. Printed(p, Step(p), Known(p)) = PrintedAt(p, a, n)
      BY <2>2 DEF PrintedAt, Known
    <3>7. Told(PrintedAt(p, a, n), truth[p]) \in AllReports(p, a)
      BY <3>4, <3>5 DEF AllReports
    <3>8. reports'[p] = Append(reports[p], Told(PrintedAt(p, a, n), truth[p]))
      BY <1>4, <2>2, <2>5, <3>6 DEF Moved
    <3> QED BY <1>1, <1>2, <2>4, <3>7, <3>8
  <2>6. CASE s[n].call # "report"
    BY <1>1, <1>2, <1>4, <2>2, <2>4, <2>6 DEF Moved
  <2> QED BY <2>5, <2>6
<1> QED BY <1>3, <1>4, TruthMoves

(***************************************************************************)
(* The invariant holds throughout, for every program of this shape.        *)
(***************************************************************************)
LEMMA SweepInvariant ==
  ASSUME BothSweep
  PROVE  Spec => []SweepInv
<1>1. SweepInv /\ [Next]_vars => SweepInv'
  BY SweepIsShared, SweepIsLink, LinkGoesOn, FixedStep, RowsStep, WhereStep, TruthStep
  DEF SweepInv
<1> QED BY SweepInit, <1>1, PTL DEF Spec
-----------------------------------------------------------------------------
(***************************************************************************)
(* A party that has come past the sync has the other's message of it, so   *)
(* the other is not before its own; and one that waits is not behind.      *)
(***************************************************************************)
LEMMA NotTimed ==
  ASSUME BothSweep, SweepInv
  PROVE  SetupIsNotTimed
<1> SUFFICES ASSUME NEW p \in Party, Timed(p), Waits(p)
             PROVE  /\ Busy(Peer(p))
                    /\ Step(Peer(p)).call \notin {"generate", "pepin", "report"}
  BY DEF SetupIsNotTimed
<1> DEFINE q == Peer(p)
           s == Script[ALICE]
           n == at[p] + 1
<1>1. /\ q \in Party /\ Script[p] = s /\ Script[q] = s /\ IsSweep(s) /\ SameCalls
      /\ Len(s) \in Nat
  BY SweepIsShared, Peers DEF IsSweep
<1>2. LinkOK /\ LinkInv /\ at[p] \in Nat /\ at[q] \in Nat
  BY <1>1 DEF SweepInv, LinkOK, LinkInv, PositionsOK
<1>3. n \in 1..Len(s) /\ s[n].phase \notin {"setup", "report"}
  BY <1>1, <1>2 DEF Timed, Busy, Step
<1> HIDE DEF s
<1>4. PICK f \in Nat, r \in Nat, e \in Nat : IsRun(s, f, r, e) /\ n \in f..e
  BY <1>1, <1>3 DEF IsSweep
<1>5. n \in f + 5 .. e - 1 /\ e <= Len(s) /\ 1 <= f
  <2>1. /\ 1 <= f /\ f + 5 <= r /\ r < e /\ e <= Len(s) /\ s[e].phase = "report"
        /\ \A i \in f .. f + 4 : s[i].phase = "setup"
    BY <1>4 DEF IsRun, IsSetup
  <2>2. n # e /\ n \notin f .. f + 4
    BY <1>3, <2>1
  <2> QED BY <1>4, <2>1, <2>2
<1>6. at[q] <= at[p]
  <2>1. at[q] <= Sent(q) /\ Sent(q) \in Nat
    BY <1>1, <1>2 DEF Sent
  <2> QED BY <1>1, <1>2, <2>1, WaitPositions
<1>7. f + 1 <= at[q]
  <2>1. PICK m \in f + 2 .. f + 3 : SendsIn(q, m)
    <3>1. f + 2 \in f + 2 .. f + 3 /\ f + 3 \in f + 2 .. f + 3
      OBVIOUS
    <3>2. s[f + 2].call = "ping" /\ s[f + 3].call = "pong"
      BY <1>4 DEF IsRun, IsSetup
    <3>3. q = ALICE => SendsIn(q, f + 2)
      BY <1>1, <3>2 DEF SendsIn, CallOf, Senders
    <3>4. q = BOB => SendsIn(q, f + 3)
      BY <1>1, <3>2 DEF SendsIn, CallOf, Senders
    <3> QED BY <1>1, <3>1, <3>3, <3>4 DEF Party
  <2>2. m \in 1..at[p]
    BY <1>2, <1>5
  <2>3. m <= Sent(q)
    BY <1>2, <2>1, <2>2 DEF LinkInv, NothingMissed
  <2>4. Sent(q) <= at[q] + 1 /\ Sent(q) \in Nat
    BY <1>2 DEF Sent
  <2> QED BY <1>2, <2>1, <2>3, <2>4
<1>8. Busy(q)
  <2>1. proc[q] = "running"
    BY <1>1, <1>2, WaitInvariant DEF NeverBothWait
  <2> QED BY <1>1, <1>2, <1>5, <1>6, <2>1 DEF Busy
<1>9. s[at[q] + 1].call \notin {"generate", "pepin", "report"}
  <2> DEFINE a == at[q]
             b == at[p]
  <2>3. a \in Nat /\ b \in Nat /\ a <= b /\ f + 1 <= a /\ f \in Nat /\ e \in Nat
    BY <1>2, <1>6, <1>7
  <2>4. b + 1 <= e - 1
    BY <1>2, <1>5
  <2> HIDE DEF a, b
  <2>5. a + 1 \in f + 2 .. e - 1
    BY <2>3, <2>4
  <2>1. a + 1 \in {f + 2, f + 3, f + 4} \cup (f + 5 .. e - 1)
    BY <2>3, <2>5
  <2> QED BY <1>4, <2>1 DEF a, IsRun, IsSetup, IsTimed, Carried
<1> QED BY <1>1, <1>8, <1>9 DEF Step

(***************************************************************************)
(* SetupIsNotTimed, for every sweep and every size of the channels: what   *)
(* is timed never waits for a party that generates, runs pepin or prints.  *)
(***************************************************************************)
THEOREM SetupStaysOut ==
  ASSUME BothSweep
  PROVE  Spec => []SetupIsNotTimed
<1>1. SweepInv => SetupIsNotTimed
  BY NotTimed
<1> QED BY SweepInvariant, <1>1, PTL
-----------------------------------------------------------------------------
(***************************************************************************)
(* A breakdown: each phase stands there once.                              *)
(***************************************************************************)
Lines(M) == [name : M, count : Count]
Distinct(b) == \A m, n \in 1..Len(b) : b[m].name = b[n].name => m = n

(***************************************************************************)
(* add either adds to the one line with that name, or appends a line.      *)
(***************************************************************************)
AddsTo(b, g, k, x, c) ==
    /\ k \in 1..Len(b) /\ b[k].name = x /\ Len(g) = Len(b)
    /\ g[k] = [name |-> x, count |-> Plus(b[k].count, c)]
    /\ \A m \in 1..Len(b) : m # k => g[m] = b[m]
Appends(b, g, x, c) ==
    /\ \A m \in 1..Len(b) : b[m].name # x /\ g[m] = b[m]
    /\ Len(g) = Len(b) + 1 /\ g[Len(b) + 1] = [name |-> x, count |-> c]

(***************************************************************************)
(* add keeps a breakdown one line per phase: it adds to the phase's line   *)
(* or appends one.                                                         *)
(***************************************************************************)
LEMMA AddFacts ==
  ASSUME NEW M, NEW b \in Seq(Lines(M)), Distinct(b), NEW x \in M, NEW c \in Count
  PROVE  /\ add(b, x, c) \in Seq(Lines(M)) /\ Distinct(add(b, x, c))
         /\ \/ \E k \in 1..Len(b) : AddsTo(b, add(b, x, c), k, x, c)
            \/ Appends(b, add(b, x, c), x, c)
<1>1. /\ Len(b) \in Nat /\ DOMAIN b = 1..Len(b)
      /\ \A m \in 1..Len(b) : b[m] \in Lines(M)
  OBVIOUS
<1>2. CASE \E n \in DOMAIN b : b[n].name = x
  <2> DEFINE k == CHOOSE m \in DOMAIN b : b[m].name = x
             g == [b EXCEPT ![k].count = Plus(@, c)]
  <2>1. k \in 1..Len(b) /\ b[k].name = x
    BY <1>1, <1>2
  <2>2. add(b, x, c) = g
    BY <1>2 DEF add
  <2> HIDE DEF k
  <2>3. g[k] = [name |-> x, count |-> Plus(b[k].count, c)]
    <3>1. g[k] = [b[k] EXCEPT !.count = Plus(b[k].count, c)]
      BY <1>1, <2>1
    <3> QED BY <1>1, <2>1, <3>1 DEF Lines
  <2>4. \A m \in 1..Len(b) : m # k => g[m] = b[m]
    BY <1>1, <2>1
  <2>5. g[k] \in Lines(M)
    <3>1. b[k].count \in Count
      BY <1>1, <2>1 DEF Lines
    <3>2. Plus(b[k].count, c) \in Count
      BY <3>1, PlusFacts
    <3> QED BY <2>3, <3>2 DEF Lines
  <2>6. g \in Seq(Lines(M)) /\ Len(g) = Len(b)
    <3>1. g \in [1..Len(b) -> Lines(M)]
      BY <1>1, <2>4, <2>5
    <3> HIDE DEF g
    <3> QED BY <1>1, <3>1
  <2>7. AddsTo(b, g, k, x, c)
    BY <2>1, <2>3, <2>4, <2>6 DEF AddsTo
  <2> HIDE DEF g
  <2>8. \A m \in 1..Len(b) : g[m].name = b[m].name
    BY <2>1, <2>3, <2>4
  <2>9. Distinct(g)
    BY <2>6, <2>8 DEF Distinct
  <2> QED BY <2>1, <2>2, <2>6, <2>7, <2>9
<1>3. CASE ~ \E n \in DOMAIN b : b[n].name = x
  <2> DEFINE l == [name |-> x, count |-> c]
             g == Append(b, l)
  <2>1. add(b, x, c) = g
    BY <1>3 DEF add
  <2>2. l \in Lines(M) /\ l.name = x
    BY DEF Lines
  <2> HIDE DEF l
  <2>3. /\ g \in Seq(Lines(M)) /\ Len(g) = Len(b) + 1 /\ g[Len(b) + 1] = l
        /\ \A m \in 1..Len(b) : g[m] = b[m]
    BY <1>1, <2>2
  <2>4. Appends(b, g, x, c)
    BY <1>1, <1>3, <2>3 DEF Appends, l
  <2> HIDE DEF g
  <2>5. Distinct(g)
    <3> SUFFICES ASSUME NEW m \in 1..Len(g), NEW n \in 1..Len(g),
                        g[m].name = g[n].name
                 PROVE  m = n
      BY DEF Distinct
    <3>1. (m \in 1..Len(b) \/ m = Len(b) + 1) /\ (n \in 1..Len(b) \/ n = Len(b) + 1)
      BY <1>1, <2>3
    <3> QED BY <1>1, <1>3, <2>2, <2>3, <3>1 DEF Distinct
  <2> QED BY <2>1, <2>3, <2>4, <2>5
<1> QED BY <1>2, <1>3

(***************************************************************************)
(* TotalOf is what its recursion says.                                     *)
(***************************************************************************)
Totals(b, u) ==
    /\ u \in [0..Len(b) -> Count] /\ u[0] = NoCount
    /\ \A n \in 1..Len(b) : u[n] = Plus(u[n - 1], b[n].count)
SumStep(b, u, n) == IF n = 0 THEN NoCount ELSE Plus(u[n - 1], b[n].count)
Sums(b, u, N) == u = [n \in 0..N |-> SumStep(b, u, n)]

(***************************************************************************)
(* The partial sums of a breakdown exist: a recursive function on the      *)
(* numbers.                                                                *)
(***************************************************************************)
LEMMA SumExists ==
  ASSUME NEW b, NEW N \in Nat
  PROVE  \E u : Sums(b, u, N)
<1> DEFINE G == {n \in Nat : \E u : Sums(b, u, n)}
<1>1. 0 \in G
  <2> DEFINE u == [n \in 0..0 |-> NoCount]
  <2>1. \A n \in 0..0 : SumStep(b, u, n) = NoCount
    BY DEF SumStep
  <2>2. Sums(b, u, 0)
    BY <2>1 DEF Sums
  <2> QED BY <2>2
<1>2. ASSUME NEW n \in G PROVE n + 1 \in G
  <2>1. PICK u : Sums(b, u, n)
    OBVIOUS
  <2>2. n \in Nat
    OBVIOUS
  <2> HIDE DEF G
  <2> DEFINE h == [m \in 0 .. n + 1 |-> SumStep(b, u, m)]
  <2>3. \A m \in 0..n : u[m] = SumStep(b, u, m)
    BY <2>1 DEF Sums
  <2>4. \A m \in 0 .. n + 1 : h[m] = SumStep(b, u, m)
    OBVIOUS
  <2> HIDE DEF h
  <2>5. \A m \in 0..n : h[m] = u[m]
    BY <2>2, <2>3, <2>4
  <2>6. \A m \in 0 .. n + 1 : SumStep(b, h, m) = SumStep(b, u, m)
    <3>1. ASSUME NEW m \in 0 .. n + 1, m # 0 PROVE h[m - 1] = u[m - 1]
      BY <2>2, <2>5, <3>1
    <3> QED BY <3>1 DEF SumStep
  <2>7. Sums(b, h, n + 1)
    <3>1. h = [m \in 0 .. n + 1 |-> SumStep(b, h, m)]
      BY <2>6 DEF h
    <3> QED BY <3>1 DEF Sums
  <2> QED BY <2>2, <2>7 DEF G
<1>3. G = Nat
  <2> HIDE DEF G
  <2>1. G \in SUBSET Nat
    BY DEF G
  <2> QED BY <1>1, <1>2, <2>1, GoodNaturals
<1> QED BY <1>3

(***************************************************************************)
(* TotalOf, a fold of the library's, is the last of the partial sums.      *)
(***************************************************************************)
LEMMA SumFacts ==
  ASSUME NEW M, NEW b \in Seq(Lines(M))
  PROVE  \E u : Totals(b, u) /\ TotalOf(b) = u[Len(b)]
<1> DEFINE u == CHOOSE v : Sums(b, v, Len(b))
<1>1. Len(b) \in Nat /\ \A n \in 1..Len(b) : b[n].count \in Count
  <2>1. Len(b) \in Nat /\ \A n \in 1..Len(b) : b[n] \in Lines(M)
    OBVIOUS
  <2> QED BY <2>1 DEF Lines
<1>2. TotalOf(b) = u[Len(b)]
  BY DEF TotalOf, Sums, SumStep
<1>3. Sums(b, u, Len(b))
  BY <1>1, SumExists
<1> HIDE DEF u
<1>4. /\ u = [n \in 0..Len(b) |-> u[n]] /\ u[0] = NoCount
      /\ \A n \in 1..Len(b) : u[n] = Plus(u[n - 1], b[n].count)
  <2>1. u = [n \in 0..Len(b) |-> SumStep(b, u, n)]
    BY <1>3 DEF Sums
  <2>2. \A n \in 0..Len(b) : u[n] = SumStep(b, u, n)
    BY <2>1
  <2>3. u = [n \in 0..Len(b) |-> u[n]]
    BY <2>1, <2>2
  <2>4. \A n \in 1..Len(b) : n \in 0..Len(b) /\ n # 0
    BY <1>1
  <2>5. 0 \in 0..Len(b)
    BY <1>1
  <2>6. u[0] = NoCount
    BY <2>2, <2>5 DEF SumStep
  <2>7. \A n \in 1..Len(b) : u[n] = Plus(u[n - 1], b[n].count)
    BY <2>2, <2>4 DEF SumStep
  <2> QED BY <2>3, <2>6, <2>7
<1> DEFINE G == {n \in Nat : n \in 0..Len(b) => u[n] \in Count}
<1>5. 0 \in G
  BY <1>4, CountFields
<1>6. ASSUME NEW n \in G PROVE n + 1 \in G
  <2>1. SUFFICES ASSUME n + 1 \in 0..Len(b) PROVE u[n + 1] \in Count
    OBVIOUS
  <2>2. n \in 0..Len(b) /\ n + 1 \in 1..Len(b) /\ (n + 1) - 1 = n
    BY <1>1, <2>1
  <2>3. u[n] \in Count /\ u[n + 1] = Plus(u[n], b[n + 1].count)
    BY <1>4, <2>2
  <2> QED BY <1>1, <2>2, <2>3, PlusFacts
<1>7. G = Nat
  <2> HIDE DEF G
  <2>1. G \in SUBSET Nat
    BY DEF G
  <2> QED BY <1>5, <1>6, <2>1, GoodNaturals
<1>8. \A n \in 0..Len(b) : u[n] \in Count
  BY <1>1, <1>7
<1>9. u \in [0..Len(b) -> Count]
  BY <1>4, <1>8
<1> QED BY <1>2, <1>4, <1>9 DEF Totals

(***************************************************************************)
(* What is added to a line is added to the sum.                            *)
(***************************************************************************)
LEMMA SumAdd ==
  ASSUME NEW M, NEW b \in Seq(Lines(M)), Distinct(b), NEW x \in M, NEW c \in Count
  PROVE  TotalOf(b) \in Count /\ TotalOf(add(b, x, c)) = Plus(TotalOf(b), c)
<1>1. PICK g \in Seq(Lines(M)) :
        /\ g = add(b, x, c)
        /\ (\E k \in 1..Len(b) : AddsTo(b, g, k, x, c)) \/ Appends(b, g, x, c)
  BY AddFacts
<1>2. PICK u : Totals(b, u) /\ TotalOf(b) = u[Len(b)]
  BY SumFacts
<1>3. PICK w : Totals(g, w) /\ TotalOf(g) = w[Len(g)]
  BY SumFacts
<1>4. Len(b) \in Nat /\ Len(g) \in Nat /\ \A n \in 1..Len(b) : b[n].count \in Count
  <2>1. Len(b) \in Nat /\ Len(g) \in Nat /\ \A n \in 1..Len(b) : b[n] \in Lines(M)
    OBVIOUS
  <2> QED BY <2>1 DEF Lines
<1>5. TotalOf(b) \in Count
  BY <1>2, <1>4 DEF Totals
<1>6. ASSUME NEW k \in 1..Len(b), AddsTo(b, g, k, x, c)
      PROVE  TotalOf(g) = Plus(TotalOf(b), c)
  <2> DEFINE G == {n \in Nat : n \in 0..Len(b) =>
                      w[n] = IF n < k THEN u[n] ELSE Plus(u[n], c)}
  <2>1. 0 \in G
    BY <1>2, <1>3, <1>4, <1>6 DEF Totals
  <2>2. ASSUME NEW n \in G PROVE n + 1 \in G
    <3>1. SUFFICES ASSUME n + 1 \in 0..Len(b)
                   PROVE  w[n + 1] = IF n + 1 < k THEN u[n + 1] ELSE Plus(u[n + 1], c)
      OBVIOUS
    <3>2. n \in 0..Len(b) /\ n + 1 \in 1..Len(b) /\ (n + 1) - 1 = n /\ n \in Nat
      BY <1>4, <3>1
    <3>3. w[n] = IF n < k THEN u[n] ELSE Plus(u[n], c)
      BY <3>2
    <3> HIDE DEF G
    <3>4. u[n + 1] = Plus(u[n], b[n + 1].count) /\ w[n + 1] = Plus(w[n], g[n + 1].count)
      BY <1>2, <1>3, <1>6, <3>2 DEF Totals, AddsTo
    <3>5. u[n] \in Count /\ b[n + 1].count \in Count
      BY <1>2, <1>4, <3>2 DEF Totals
    <3>6. CASE n + 1 = k
      <4>1. w[n + 1] = Plus(u[n], Plus(b[n + 1].count, c))
        BY <1>6, <3>2, <3>3, <3>4, <3>6 DEF AddsTo
      <4> QED BY <3>4, <3>5, <3>6, <4>1, PlusOrder
    <3>7. CASE n + 1 # k
      <4>1. w[n + 1] = Plus(w[n], b[n + 1].count)
        BY <1>6, <3>2, <3>4, <3>7 DEF AddsTo
      <4>2. CASE n < k
        BY <3>2, <3>3, <3>4, <3>7, <4>1, <4>2
      <4>3. CASE ~(n < k)
        <5>1. w[n + 1] = Plus(Plus(u[n], c), b[n + 1].count)
          BY <3>3, <4>1, <4>3
        <5>2. Plus(Plus(u[n], c), b[n + 1].count) = Plus(Plus(u[n], b[n + 1].count), c)
          BY <3>5, PlusOrder
        <5> QED BY <3>2, <3>4, <4>3, <5>1, <5>2
      <4> QED BY <4>2, <4>3
    <3> QED BY <3>6, <3>7
  <2>3. G = Nat
    <3> HIDE DEF G
    <3>1. G \in SUBSET Nat
      BY DEF G
    <3> QED BY <2>1, <2>2, <3>1, GoodNaturals
  <2>4. w[Len(b)] = Plus(u[Len(b)], c)
    BY <1>4, <2>3
  <2> QED BY <1>2, <1>3, <1>6, <2>4 DEF AddsTo
<1>7. CASE Appends(b, g, x, c)
  <2> DEFINE G == {n \in Nat : n \in 0..Len(b) => w[n] = u[n]}
  <2>1. 0 \in G
    BY <1>2, <1>3 DEF Totals
  <2>2. ASSUME NEW n \in G PROVE n + 1 \in G
    <3>1. SUFFICES ASSUME n + 1 \in 0..Len(b) PROVE w[n + 1] = u[n + 1]
      OBVIOUS
    <3>2. n \in 0..Len(b) /\ n + 1 \in 1..Len(b) /\ (n + 1) - 1 = n
          /\ n + 1 \in 1..Len(g)
      BY <1>4, <1>7, <3>1 DEF Appends
    <3>3. w[n] = u[n]
      BY <3>2
    <3> HIDE DEF G
    <3>4. u[n + 1] = Plus(u[n], b[n + 1].count) /\ w[n + 1] = Plus(w[n], g[n + 1].count)
      BY <1>2, <1>3, <3>2 DEF Totals
    <3> QED BY <1>7, <3>2, <3>3, <3>4 DEF Appends
  <2>3. G = Nat
    <3> HIDE DEF G
    <3>1. G \in SUBSET Nat
      BY DEF G
    <3> QED BY <2>1, <2>2, <3>1, GoodNaturals
  <2>4. w[Len(b)] = u[Len(b)]
    BY <1>4, <2>3
  <2>5. Len(g) \in 1..Len(g) /\ Len(g) - 1 = Len(b) /\ g[Len(g)].count = c
    BY <1>4, <1>7 DEF Appends
  <2>6. w[Len(g)] = Plus(w[Len(g) - 1], g[Len(g)].count)
    BY <1>3, <2>5 DEF Totals
  <2>7. TotalOf(g) = Plus(w[Len(b)], c)
    BY <1>3, <2>5, <2>6
  <2> HIDE DEF G
  <2> QED BY <1>1, <1>2, <1>5, <2>4, <2>7
<1> QED BY <1>1, <1>5, <1>6, <1>7

-----------------------------------------------------------------------------
(***************************************************************************)
(* What has been noted has its type: a breakdown of the program's phases,  *)
(* and reports that were printed at the report calls.                      *)
(***************************************************************************)
Phases(p) == {Script[p][n].phase : n \in 1..Len(Script[p])}

Noted(p, a, s) ==
    /\ s.breakdown \in Seq(Lines(Phases(p))) /\ Distinct(s.breakdown)
    /\ s.reports \in Seq(AllPrinted(p, a))

(***************************************************************************)
(* They have after any number of a party's steps.                          *)
(***************************************************************************)
LEMMA NotesTaken ==
  ASSUME BothSweep, NEW p \in Party, NEW a
  PROVE  \A n \in 0..Len(Script[p]) : Noted(p, a, Took(p, a)[n])
<1> DEFINE N == Len(Script[p])
           t == Took(p, a)
           M == Phases(p)
           R == AllPrinted(p, a)
           G == {n \in Nat : n \in 0..N => Noted(p, a, t[n])}
<1>1. N \in Nat /\ t[0] = Fresh
      /\ \A n \in 1..N : t[n] = Effect(p, a, Script[p][n], t[n - 1])
  BY TookFacts
<1>2. \A n \in 0..N : Counted(t[n])
  BY CountsTaken
<1>3. 0 \in G
  <2>1. Fresh.breakdown = <<>> /\ Fresh.reports = <<>>
    BY DEF Fresh
  <2>2. Distinct(<<>>)
    BY DEF Distinct
  <2>3. <<>> \in Seq(Lines(M)) /\ <<>> \in Seq(R)
    OBVIOUS
  <2>4. Noted(p, a, Fresh)
    BY <2>1, <2>2, <2>3 DEF Noted
  <2> HIDE DEF t
  <2> QED BY <1>1, <2>4
<1>4. ASSUME NEW n \in G PROVE n + 1 \in G
  <2>1. SUFFICES ASSUME n + 1 \in 0..N PROVE Noted(p, a, t[n + 1])
    OBVIOUS
  <2>2. n \in 0..N /\ n + 1 \in 1..N /\ (n + 1) - 1 = n
    BY <1>1, <2>1
  <2>3. Noted(p, a, t[n])
    BY <2>2
  <2> DEFINE c == Script[p][n + 1]
             new == t[n + 1]
             old == t[n]
  <2>4. new = Effect(p, a, c, old)
    BY <1>1, <2>2
  <2>5. c.phase \in M
    BY <2>2 DEF Phases
  <2>6. new.reports \in Seq(R)
    BY <2>1, PrintedTaken
  <2>7. old.breakdown \in Seq(Lines(M)) /\ Distinct(old.breakdown)
    BY <2>3 DEF Noted
  <2>8. Less(old.counters, old.from) \in Count
    BY <1>2, <2>2, LessFacts DEF Counted
  <2>9. new.breakdown = IF c.call = "start" THEN <<>>
                        ELSE IF c.call = "leave"
                        THEN add(old.breakdown, c.phase, Less(old.counters, old.from))
                        ELSE old.breakdown
    BY <2>4 DEF Effect
  <2> HIDE DEF G, M, R, c, new, old, N, t
  <2>10. new.breakdown \in Seq(Lines(M)) /\ Distinct(new.breakdown)
    <3>1. <<>> \in Seq(Lines(M)) /\ Distinct(<<>>)
      BY DEF Distinct
    <3>2. /\ add(old.breakdown, c.phase, Less(old.counters, old.from)) \in Seq(Lines(M))
          /\ Distinct(add(old.breakdown, c.phase, Less(old.counters, old.from)))
      BY <2>5, <2>7, <2>8, AddFacts
    <3> QED BY <2>7, <2>9, <3>1, <3>2
  <2> QED BY <2>6, <2>10 DEF Noted, new, M, R
<1>5. G = Nat
  <2> HIDE DEF G
  <2>1. G \in SUBSET Nat
    BY DEF G
  <2> QED BY <1>3, <1>4, <2>1, GoodNaturals
<1>6. \A n \in 0..N : n \in Nat
  BY <1>1
<1> QED BY <1>5, <1>6

(***************************************************************************)
(* TypeOK, for every sweep: in particular no count of a phase or of a run  *)
(* is negative, and no soft limit is above the hard one.                   *)
(***************************************************************************)
THEOREM SweepTypeCorrect ==
  ASSUME BothSweep
  PROVE  Spec => []TypeOK
<1>1. ASSUME SweepInv PROVE TypeOK
  <2>1. LinkTypeOK /\ FixedOK
    BY <1>1, LinkTypes DEF SweepInv
  <2>2. /\ counters = [p \in Party |-> counters[p]] /\ mark = [p \in Party |-> mark[p]]
        /\ from = [p \in Party |-> from[p]]
    BY <1>1 DEF SweepInv, RowsOK, ByParty
  <2>3. \A p \in Party : counters[p] \in Count /\ mark[p] \in Count /\ from[p] \in Count
    BY <1>1, KnownTypes
  <2>4. counters \in [Party -> Count] /\ mark \in [Party -> Count] /\ from \in [Party -> Count]
    BY <2>2, <2>3
  <2>5. ASSUME NEW p \in Party, NEW n \in DOMAIN breakdown[p]
        PROVE  breakdown[p][n].count \in Count
    <3>1. breakdown[p] \in Seq(Lines(Phases(p)))
      BY <1>1, KnownTypes, NotesTaken DEF Known, IsAt, Noted
    <3>2. breakdown[p][n] \in Lines(Phases(p))
      BY <3>1
    <3> QED BY <3>2 DEF Lines
  <2> QED BY <2>1, <2>4, <2>5 DEF TypeOK, FixedOK
<1> QED BY SweepInvariant, <1>1, PTL
-----------------------------------------------------------------------------
(***************************************************************************)
(* Within a run, from the start of the clock to the report: the pair is    *)
(* that of the run; outside of measure() the phases add up to what was     *)
(* counted since the start, within it to what had been when the phase was  *)
(* entered; and the slices revealed so far are the first ones.             *)
(***************************************************************************)
Balanced(s, call) ==
    (IF Outside(call) THEN s.counters ELSE s.from) = Plus(s.mark, TotalOf(s.breakdown))
IsCut(slice, width, m) ==
    /\ slice \in Seq(SUBSET Int) /\ Len(slice) = m
    /\ \A k \in 1..m : slice[k] = Slice(width, k - 1)
CutAt(r, m, n) == IF n <= r THEN 0 ELSE IF n <= r + m THEN n - r ELSE m

InRun(p, a, f, r, n) ==
    LET s == Took(p, a)[n]
        run == Script[p][f].run
    IN  /\ s.pair = Made(a, run)
        /\ Balanced(s, Script[p][n].call)
        /\ IsCut(s.slices, run.width, CutAt(r, Slices(run.width), n))

(***************************************************************************)
(* reveal_wide takes the fewest slices of 64 bits that hold the result.    *)
(***************************************************************************)
LEMMA SlicesType ==
  ASSUME NEW w \in Nat
  PROVE  Slices(w) \in Nat /\ 64 * Slices(w) >= w /\ 64 * Slices(w) < w + 64
BY DEF Slices, SliceBits

(***************************************************************************)
(* The positions of a run in the program, in order, and how many slices it *)
(* reveals.                                                                *)
(***************************************************************************)
LEMMA RunFacts ==
  ASSUME BothSweep, NEW p \in Party, NEW f, NEW r, NEW e, IsRun(Script[p], f, r, e)
  PROVE  /\ f \in Nat /\ r \in Nat /\ e \in Nat /\ 1 <= f /\ f + 5 <= r /\ r < e
         /\ e <= Len(Script[p]) /\ Len(Script[p]) \in Nat
         /\ Script[p][f].run.width \in Nat /\ Script[p][f].run.width <= 128
         /\ r + Slices(Script[p][f].run.width) + 2 = e
<1>1. Len(Script[p]) \in Nat
  BY TookFacts
<1>2. Width(Script[p], f) \in 0..128 /\ r + Slices(Width(Script[p], f)) + 2 = e
  BY DEF IsRun, IsRevealed
<1>3. Script[p][f].run.width \in Nat /\ Script[p][f].run.width <= 128
  BY <1>2 DEF Width
<1> QED BY <1>1, <1>2, <1>3 DEF IsRun, Width

(***************************************************************************)
(* The setup.                                                              *)
(***************************************************************************)
LEMMA RunStarts ==
  ASSUME BothSweep, NEW p \in Party, NEW a, NEW f, NEW r, NEW e,
         IsRun(Script[p], f, r, e)
  PROVE  InRun(p, a, f, r, f + 4)
<1> DEFINE t == Took(p, a)
           s == Script[p]
           run == s[f].run
<1>1. /\ f \in Nat /\ r \in Nat /\ e \in Nat /\ 1 <= f /\ f + 5 <= r /\ r < e
      /\ e <= Len(s) /\ Len(s) \in Nat /\ run.width \in Nat
      /\ s[f].call = "generate" /\ s[f + 1].call = "pepin" /\ s[f + 2].call = "ping"
      /\ s[f + 3].call = "pong" /\ s[f + 4].call = "start"
  <2>1. IsSetup(s, f)
    BY DEF IsRun
  <2> QED BY <2>1, RunFacts DEF IsSetup
<1>2. \A n \in 1..Len(s) : t[n] = Effect(p, a, s[n], t[n - 1])
  BY TookFacts
<1>3. \A n \in 0..Len(s) : Counted(t[n])
  BY CountsTaken
<1> HIDE DEF t, s
<1>13. /\ t[f] = Effect(p, a, s[f], t[f - 1])
       /\ t[f + 1] = Effect(p, a, s[f + 1], t[f])
       /\ t[f + 2] = Effect(p, a, s[f + 2], t[f + 1])
       /\ t[f + 3] = Effect(p, a, s[f + 3], t[f + 2])
       /\ t[f + 4] = Effect(p, a, s[f + 4], t[f + 3])
  <2>1. \A i \in 0..4 : f + i \in 1..Len(s)
    BY <1>1
  <2>2. f + 0 = f /\ (f + 1) - 1 = f /\ (f + 2) - 1 = f + 1 /\ (f + 3) - 1 = f + 2
        /\ (f + 4) - 1 = f + 3
    BY <1>1
  <2>3. \A i \in 0..4 : t[f + i] = Effect(p, a, s[f + i], t[(f + i) - 1])
    BY <1>2, <2>1
  <2> QED BY <2>2, <2>3
<1>4. t[f].pair = Made(a, run)
  <2>1. t[f] = Effect(p, a, s[f], t[f - 1]) /\ s[f].call = "generate"
    BY <1>1, <1>13
  <2> QED BY <2>1 DEF Effect
<1>5. t[f + 1].pair = Made(a, run)
  <2>1. t[f + 1] = Effect(p, a, s[f + 1], t[f]) /\ s[f + 1].call = "pepin"
    BY <1>1, <1>13
  <2> QED BY <1>4, <2>1 DEF Effect
<1>6. t[f + 2].pair = Made(a, run)
  <2>1. t[f + 2] = Effect(p, a, s[f + 2], t[f + 1]) /\ s[f + 2].call = "ping"
    BY <1>1, <1>13
  <2> QED BY <1>5, <2>1 DEF Effect
<1>7. t[f + 3].pair = Made(a, run)
  <2>1. t[f + 3] = Effect(p, a, s[f + 3], t[f + 2]) /\ s[f + 3].call = "pong"
    BY <1>1, <1>13
  <2> QED BY <1>6, <2>1 DEF Effect
<1>8. /\ t[f + 4].pair = Made(a, run)
      /\ t[f + 4].counters = Plus(t[f + 3].counters, Traffic(p, "start"))
      /\ t[f + 4].mark = t[f + 3].counters
      /\ t[f + 4].breakdown = <<>> /\ t[f + 4].slices = <<>> /\ s[f + 4].call = "start"
  <2>1. t[f + 4] = Effect(p, a, s[f + 4], t[f + 3]) /\ s[f + 4].call = "start"
    BY <1>1, <1>13
  <2> QED BY <1>7, <2>1 DEF Effect
<1>9. Balanced(t[f + 4], s[f + 4].call)
  <2>1. TotalOf(<<>>) = NoCount
    <3>1. <<>> \in Seq(Lines({})) /\ Len(<<>>) = 0
      OBVIOUS
    <3>2. PICK u : Totals(<<>>, u) /\ TotalOf(<<>>) = u[Len(<<>>)]
      BY <3>1, SumFacts
    <3> QED BY <3>1, <3>2 DEF Totals
  <2>2. t[f + 4].counters = t[f + 3].counters /\ t[f + 3].counters \in Count
    <3>1. t[f + 3].counters \in Count
      <4>1. f + 3 \in 0..Len(s)
        BY <1>1
      <4> QED BY <1>3, <4>1 DEF Counted
    <3>2. Traffic(p, "start") = NoCount
      BY TrafficFacts DEF Local
    <3> QED BY <1>8, <3>1, <3>2, PlusFacts, CountFields
  <2> QED BY <1>8, <2>1, <2>2, PlusFacts, CountFields DEF Balanced, Outside
<1>10. IsCut(<<>>, run.width, CutAt(r, Slices(run.width), f + 4))
  <2>1. CutAt(r, Slices(run.width), f + 4) = 0
    BY <1>1 DEF CutAt
  <2> QED BY <2>1 DEF IsCut
<1> QED BY <1>8, <1>9, <1>10 DEF InRun, t, s

(***************************************************************************)
(* A timed step.                                                           *)
(***************************************************************************)
LEMMA RunGoesOn ==
  ASSUME BothSweep, NEW p \in Party, NEW a, NEW f, NEW r, NEW e,
         IsRun(Script[p], f, r, e), NEW n \in f + 4 .. e - 2, InRun(p, a, f, r, n)
  PROVE  InRun(p, a, f, r, n + 1)
<1> DEFINE s == Script[p]
           run == s[f].run
           m == Slices(run.width)
           old == Took(p, a)[n]
           new == Took(p, a)[n + 1]
           c == s[n + 1]
<1>1. /\ f \in Nat /\ r \in Nat /\ e \in Nat /\ 1 <= f /\ f + 5 <= r /\ r < e
      /\ e <= Len(s) /\ Len(s) \in Nat /\ run.width \in Nat
  BY RunFacts
<1>2. m \in Nat
  BY <1>1, SlicesType
<1>3. n \in Nat /\ n + 1 \in f + 5 .. e - 1 /\ n \in 1..Len(s) /\ n + 1 \in 1..Len(s)
      /\ (n + 1) - 1 = n
  BY <1>1
<1>4. new = Effect(p, a, c, old)
  BY <1>3, TookFacts
<1>5. Counted(old) /\ Counted(new) /\ Noted(p, a, old)
  <2>1. n \in 0..Len(s) /\ n + 1 \in 0..Len(s)
    BY <1>3
  <2> QED BY <2>1, CountsTaken, NotesTaken
<1>6. c.call \in Carried \cup {"enter", "leave"} /\ c.run = run /\ c.phase \in Phases(p)
  BY <1>1, <1>3 DEF IsRun, IsTimed, Phases
<1>7. IF c.call = "enter"
      THEN Outside(s[n].call)
      ELSE s[n].call \in Carried \cup {"enter"}
  <2>1. n + 1 \in f + 5 .. e
    BY <1>1, <1>3
  <2> QED BY <1>3, <1>6, <2>1 DEF IsRun, IsTimed, Carried
<1>8. c.call = "reveal" <=> r < n + 1 /\ n + 1 <= r + m
  BY <1>3 DEF IsRun, IsRevealed, Width
<1>9. /\ old.pair = Made(a, run)
      /\ Balanced(old, s[n].call)
      /\ IsCut(old.slices, run.width, CutAt(r, m, n))
  BY DEF InRun
<1> HIDE DEF s, run, m, old, new, c
<1>10. new.pair = Made(a, run)
  BY <1>4, <1>6, <1>9 DEF Effect, Carried
<1>11. Balanced(new, c.call)
  <2>1. /\ new.mark = old.mark
        /\ c.call \in Local => new.counters = old.counters
    <3>1. new.counters = Plus(old.counters, Traffic(p, c.call)) /\ new.mark = old.mark
      BY <1>4, <1>6 DEF Effect, Carried
    <3>2. c.call \in Local => Traffic(p, c.call) = NoCount
      BY TrafficFacts
    <3> QED BY <1>5, <3>1, <3>2, PlusFacts, CountFields DEF Counted
  <2>2. CASE c.call = "enter"
    <3>1. new.from = old.counters /\ new.breakdown = old.breakdown
      BY <1>4, <2>2 DEF Effect
    <3>2. old.counters = Plus(old.mark, TotalOf(old.breakdown))
      BY <1>7, <1>9, <2>2 DEF Balanced
    <3> QED BY <2>1, <2>2, <3>1, <3>2 DEF Balanced, Outside
  <2>3. CASE c.call = "leave"
    <3> DEFINE gain == Less(old.counters, old.from)
               b == old.breakdown
    <3>1. new.breakdown = add(b, c.phase, gain)
      BY <1>4, <2>3 DEF Effect
    <3>2. old.from = Plus(old.mark, TotalOf(b))
      BY <1>7, <1>9, <2>3 DEF Balanced, Outside, Carried
    <3>3. gain \in Count /\ Plus(old.from, gain) = old.counters
      BY <1>5, LessFacts DEF Counted
    <3>4. b \in Seq(Lines(Phases(p))) /\ Distinct(b)
      BY <1>5 DEF Noted
    <3> HIDE DEF gain, b
    <3>5. TotalOf(b) \in Count /\ TotalOf(add(b, c.phase, gain)) = Plus(TotalOf(b), gain)
      BY <1>6, <3>3, <3>4, SumAdd
    <3>6. Plus(Plus(old.mark, TotalOf(b)), gain) = Plus(old.mark, Plus(TotalOf(b), gain))
      BY <1>5, <3>3, <3>5, PlusOrder DEF Counted
    <3>7. new.counters = Plus(new.mark, TotalOf(new.breakdown))
      BY <2>1, <2>3, <3>1, <3>2, <3>3, <3>5, <3>6 DEF Local
    <3> QED BY <2>3, <3>7 DEF Balanced, Outside
  <2>4. CASE c.call \in Carried
    <3>1. new.from = old.from /\ new.breakdown = old.breakdown
      BY <1>4, <2>4 DEF Effect, Carried
    <3>2. old.from = Plus(old.mark, TotalOf(old.breakdown))
      BY <1>7, <1>9, <2>4 DEF Balanced, Outside, Carried
    <3> QED BY <2>1, <2>4, <3>1, <3>2 DEF Balanced, Outside, Carried
  <2> QED BY <1>6, <2>2, <2>3, <2>4
<1>12. IsCut(new.slices, run.width, CutAt(r, m, n + 1))
  <2>1. CASE c.call = "reveal"
    <3>1. CutAt(r, m, n) = n - r /\ CutAt(r, m, n + 1) = n + 1 - r /\ n - r \in Nat
      BY <1>1, <1>2, <1>3, <1>8, <2>1 DEF CutAt
    <3>2. /\ old.slices \in Seq(SUBSET Int) /\ Len(old.slices) = n - r
          /\ \A k \in 1 .. n - r : old.slices[k] = Slice(run.width, k - 1)
      BY <1>9, <3>1 DEF IsCut
    <3>3. new.slices = Append(old.slices, Slice(run.width, n - r))
      BY <1>4, <1>6, <2>1, <3>2 DEF Effect
    <3>4. Slice(run.width, n - r) \in SUBSET Int
      BY DEF Slice
    <3> HIDE DEF run
    <3>5. /\ new.slices \in Seq(SUBSET Int) /\ Len(new.slices) = n + 1 - r
          /\ \A k \in 1 .. n + 1 - r : new.slices[k] = Slice(run.width, k - 1)
      <4> DEFINE x == Slice(run.width, n - r)
                 l == n - r
      <4>1. l \in Nat /\ n + 1 - r = l + 1 /\ (l + 1) - 1 = l
        BY <1>1, <1>3, <3>1
      <4>2. x \in SUBSET Int /\ Len(old.slices) = l
        BY <3>2, <3>4
      <4>3. x = Slice(run.width, l)
        OBVIOUS
      <4> HIDE DEF x, l
      <4>4. /\ new.slices \in Seq(SUBSET Int) /\ Len(new.slices) = l + 1
            /\ new.slices[l + 1] = x /\ \A k \in 1..l : new.slices[k] = old.slices[k]
        BY <3>2, <3>3, <4>1, <4>2 DEF x
      <4>5. \A k \in 1..l : old.slices[k] = Slice(run.width, k - 1)
        BY <3>2 DEF l
      <4>6. \A k \in 1 .. l + 1 : k \in 1..l \/ k = l + 1
        BY <4>1
      <4> QED BY <4>1, <4>3, <4>4, <4>5, <4>6
    <3> QED BY <3>1, <3>5 DEF IsCut
  <2>2. CASE c.call # "reveal"
    <3>1. new.slices = old.slices
      BY <1>4, <1>6, <2>2 DEF Effect, Carried
    <3>2. CutAt(r, m, n + 1) = CutAt(r, m, n)
      BY <1>1, <1>2, <1>3, <1>8, <2>2 DEF CutAt
    <3> QED BY <1>9, <3>1, <3>2
  <2> QED BY <2>1, <2>2
<1> QED BY <1>10, <1>11, <1>12 DEF InRun, s, run, m, new, c

(***************************************************************************)
(* So until the report.                                                    *)
(***************************************************************************)
LEMMA RunTaken ==
  ASSUME BothSweep, NEW p \in Party, NEW a, NEW f, NEW r, NEW e,
         IsRun(Script[p], f, r, e)
  PROVE  InRun(p, a, f, r, e - 1)
<1> DEFINE G == {k \in Nat : f + 4 + k <= e - 1 => InRun(p, a, f, r, f + 4 + k)}
<1>1. f \in Nat /\ e \in Nat /\ f + 5 <= e - 1
  <2>1. f + 5 <= r /\ r < e /\ r \in Nat /\ f \in Nat /\ e \in Nat
    BY RunFacts
  <2> QED BY <2>1
<1>2. 0 \in G
  <2>1. f + 4 + 0 = f + 4
    BY <1>1
  <2> QED BY <2>1, RunStarts
<1>3. ASSUME NEW k \in G PROVE k + 1 \in G
  <2>1. SUFFICES ASSUME f + 4 + (k + 1) <= e - 1
                 PROVE  InRun(p, a, f, r, f + 4 + (k + 1))
    OBVIOUS
  <2>2. k \in Nat /\ (f + 4 + k <= e - 1 => InRun(p, a, f, r, f + 4 + k))
    OBVIOUS
  <2>3. f + 4 + k \in f + 4 .. e - 2 /\ f + 4 + k <= e - 1
        /\ (f + 4 + k) + 1 = f + 4 + (k + 1)
    BY <1>1, <2>1, <2>2
  <2> HIDE DEF G
  <2> QED BY <2>2, <2>3, RunGoesOn
<1>4. G = Nat
  <2> HIDE DEF G
  <2>1. G \in SUBSET Nat
    BY DEF G
  <2> QED BY <1>2, <1>3, <2>1, GoodNaturals
<1> HIDE DEF G
<1>5. (e - 1) - (f + 4) \in Nat /\ f + 4 + ((e - 1) - (f + 4)) = e - 1
  BY <1>1
<1>6. (e - 1) - (f + 4) \in G
  BY <1>4, <1>5
<1> QED BY <1>1, <1>5, <1>6 DEF G

(***************************************************************************)
(* What a run reports, for every pair of halves and every width.           *)
(***************************************************************************)
RightReport(p, a, x) ==
    /\ x.mine = Made(a, x.run)[p]
    /\ TotalOf(x.breakdown) = x.total
    /\ x.run.width \in Nat /\ x.run.width <= 128
    /\ IsCut(x.estimate, x.run.width, Slices(x.run.width))

(***************************************************************************)
(* What a party prints for a run is right: its half is that of the run's   *)
(* pair, the phases add up and the slices cover the width.                 *)
(***************************************************************************)
LEMMA PrintedRight ==
  ASSUME BothSweep, NEW p \in Party, NEW a, NEW n \in ReportCalls(p)
  PROVE  RightReport(p, a, PrintedAt(p, a, n))
<1> DEFINE s == Script[p]
           x == PrintedAt(p, a, n)
           t == Took(p, a)[n - 1]
<1>1. n \in 1..Len(s) /\ s[n].call = "report" /\ Len(s) \in Nat
  BY TookFacts DEF ReportCalls
<1>2. PICK f \in Nat, r \in Nat, e \in Nat : IsRun(s, f, r, e) /\ n \in f..e
  BY <1>1, SweepIsShared DEF IsSweep
<1>3. n = e
  BY <1>1, <1>2, RunCalls
<1> DEFINE run == s[f].run
<1>4. s[n].run = run /\ run.width \in Nat /\ run.width <= 128
      /\ r + Slices(run.width) + 2 = e /\ r \in Nat
  <2>1. s[n].run = run
    BY <1>2 DEF IsRun
  <2> QED BY <1>2, <2>1, RunFacts
<1>5. InRun(p, a, f, r, n - 1)
  BY <1>2, <1>3, RunTaken
<1>6. /\ t.pair = Made(a, run)
      /\ Balanced(t, s[n - 1].call)
      /\ IsCut(t.slices, run.width, CutAt(r, Slices(run.width), n - 1))
  BY <1>5 DEF InRun
<1>7. Outside(s[n - 1].call)
  <2>1. n \in f + 5 .. e
    <3>1. f + 5 <= r /\ r < e /\ r \in Nat /\ f \in Nat /\ e \in Nat
      BY <1>2, RunFacts
    <3> QED BY <1>3, <3>1
  <2> QED BY <1>1, <1>2, <2>1 DEF IsRun, IsTimed
<1>8. CutAt(r, Slices(run.width), n - 1) = Slices(run.width)
  <2>1. Slices(run.width) \in Nat
    BY <1>4, SlicesType
  <2> QED BY <1>3, <1>4, <2>1 DEF CutAt
<1>9. TotalOf(t.breakdown) = Less(t.counters, t.mark)
  <2>1. Counted(t) /\ Noted(p, a, t)
    <3>1. n - 1 \in 0..Len(s)
      BY <1>1
    <3> QED BY <3>1, CountsTaken, NotesTaken
  <2>2. TotalOf(t.breakdown) \in Count
    <3>1. PICK u : Totals(t.breakdown, u) /\ TotalOf(t.breakdown) = u[Len(t.breakdown)]
      BY <2>1, SumFacts DEF Noted
    <3>2. Len(t.breakdown) \in Nat
      BY <2>1 DEF Noted
    <3>3. Len(t.breakdown) \in 0..Len(t.breakdown)
      BY <3>2
    <3> QED BY <3>1, <3>3 DEF Totals
  <2>3. t.counters = Plus(t.mark, TotalOf(t.breakdown))
    BY <1>6, <1>7 DEF Balanced
  <2> QED BY <2>1, <2>2, <2>3, PlusLess DEF Counted
<1>10. /\ x.run = run /\ x.mine = t.pair[p] /\ x.estimate = t.slices
       /\ x.total = Less(t.counters, t.mark) /\ x.breakdown = t.breakdown
  BY <1>4 DEF PrintedAt, Printed
<1> HIDE DEF x, t, run
<1> QED BY <1>4, <1>6, <1>8, <1>9, <1>10 DEF RightReport, x

(***************************************************************************)
(* So is every report that was printed: it was printed at a report call,   *)
(* with an answer about the pair of its run.                               *)
(***************************************************************************)
LEMMA ReportsRight ==
  ASSUME BothSweep, SweepInv, NEW p \in Party
  PROVE  /\ reports[p] \in Seq(AllReports(p, args[p]))
         /\ \A i \in DOMAIN reports[p] :
               /\ RightReport(p, args[p], reports[p][i])
               /\ reports[p][i].truth \in Truths(p, args[p], reports[p][i].run)
               /\ \E n \in ReportCalls(p) :
                     reports[p][i].breakdown = PrintedAt(p, args[p], n).breakdown
<1> DEFINE a == args[p]
<1>1. reports[p] \in Seq(AllReports(p, a))
  BY DEF SweepInv, TruthOK
<1>2. ASSUME NEW i \in DOMAIN reports[p]
      PROVE  /\ RightReport(p, a, reports[p][i])
             /\ reports[p][i].truth \in Truths(p, a, reports[p][i].run)
             /\ \E n \in ReportCalls(p) :
                   reports[p][i].breakdown = PrintedAt(p, a, n).breakdown
  <2>1. reports[p][i] \in AllReports(p, a)
    BY <1>1
  <2>2. PICK n \in ReportCalls(p) :
                \E answer \in Truths(p, a, Script[p][n].run) :
                   reports[p][i] = Told(PrintedAt(p, a, n), answer)
    BY <2>1 DEF AllReports
  <2>7. PICK answer \in Truths(p, a, Script[p][n].run) :
                reports[p][i] = Told(PrintedAt(p, a, n), answer)
    BY <2>2
  <2> DEFINE x == PrintedAt(p, a, n)
             y == reports[p][i]
  <2>3. RightReport(p, a, x) /\ x.run = Script[p][n].run
    BY PrintedRight DEF PrintedAt, Printed
  <2>4. y = Told(x, answer)
    BY <2>7
  <2> HIDE DEF x, y
  <2>5. /\ y.run = x.run /\ y.mine = x.mine /\ y.truth = answer
        /\ y.estimate = x.estimate /\ y.total = x.total /\ y.breakdown = x.breakdown
    BY <2>4 DEF Told
  <2>6. RightReport(p, a, y) /\ y.truth \in Truths(p, a, y.run)
    BY <2>3, <2>5 DEF RightReport
  <2> QED BY <2>5, <2>6 DEF x, y
<1> QED BY <1>1, <1>2

(***************************************************************************)
(* The slices cover the result.                                            *)
(***************************************************************************)
LEMMA CutIsWhole ==
  ASSUME NEW w \in Nat, NEW est, IsCut(est, w, Slices(w))
  PROVE  UNION {est[k] : k \in DOMAIN est} = 0 .. w - 1
<1> DEFINE m == Slices(w)
<1>1. m \in Nat /\ 64 * m >= w /\ 64 * m < w + 64
  BY SlicesType
<1>2. DOMAIN est = 1..m /\ \A k \in 1..m : est[k] = Slice(w, k - 1)
  BY DEF IsCut
<1> HIDE DEF m
<1>3. ASSUME NEW k \in 1..m, NEW x \in est[k] PROVE x \in 0 .. w - 1
  <2>1. x \in Slice(w, k - 1)
    BY <1>2
  <2>2. k - 1 \in Nat /\ 64 * (k - 1) \in Nat
    BY <1>1
  <2> QED BY <2>1, <2>2 DEF Slice
<1>4. ASSUME NEW x \in 0 .. w - 1 PROVE \E k \in 1..m : x \in est[k]
  <2> DEFINE j == x \div 64
  <2>1. x \in Nat /\ j \in Nat /\ 64 * j <= x /\ x <= 64 * j + 63
    OBVIOUS
  <2> HIDE DEF j
  <2>2. j + 1 \in 1..m /\ (j + 1) - 1 = j
    BY <1>1, <2>1
  <2>3. x \in Slice(w, j)
    BY <2>1 DEF Slice
  <2> QED BY <1>2, <2>2, <2>3
<1> QED BY <1>2, <1>3, <1>4

(***************************************************************************)
(* WholeEstimateRevealed, for every width that fits: both parties get      *)
(* every bit of the result.                                                *)
(***************************************************************************)
THEOREM WholeEstimate ==
  ASSUME BothSweep
  PROVE  Spec => []WholeEstimateRevealed
<1>1. ASSUME SweepInv PROVE WholeEstimateRevealed
  <2>1. ASSUME NEW p \in Party, NEW i \in DOMAIN reports[p]
        PROVE  LET r == reports[p][i]
               IN  /\ UNION {r.estimate[k] : k \in DOMAIN r.estimate} = 0 .. r.run.width - 1
                   /\ r.run.width <= 128
    <3> DEFINE r == reports[p][i]
    <3>1. RightReport(p, args[p], r)
      BY <1>1, ReportsRight
    <3> HIDE DEF r
    <3>2. /\ r.run.width \in Nat /\ r.run.width <= 128
          /\ IsCut(r.estimate, r.run.width, Slices(r.run.width))
      BY <3>1 DEF RightReport
    <3>3. UNION {r.estimate[k] : k \in DOMAIN r.estimate} = 0 .. r.run.width - 1
      BY <3>2, CutIsWhole
    <3> QED BY <3>2, <3>3 DEF r
  <2> QED BY <2>1 DEF WholeEstimateRevealed
<1> QED BY SweepInvariant, <1>1, PTL
-----------------------------------------------------------------------------
(***************************************************************************)
(* Two parties after the same number of calls: what one has sent the other *)
(* has received, in all and in every phase of every run.                   *)
(***************************************************************************)
Swapped(c, d) == c.sent = d.recv /\ c.recv = d.sent
Alike(b, g) ==
    /\ Len(b) = Len(g)
    /\ \A n \in 1..Len(b) : b[n].name = g[n].name /\ Swapped(b[n].count, g[n].count)
SameReports(r, s) ==
    /\ Len(r) = Len(s)
    /\ \A i \in 1..Len(r) : r[i].run = s[i].run /\ Alike(r[i].breakdown, s[i].breakdown)
Mirror(s, t) ==
    /\ Swapped(s.counters, t.counters) /\ Swapped(s.mark, t.mark) /\ Swapped(s.from, t.from)
    /\ Alike(s.breakdown, t.breakdown) /\ SameReports(s.reports, t.reports)

(***************************************************************************)
(* Adding swapped counts to mirrored breakdowns leaves them mirrored.      *)
(***************************************************************************)
LEMMA AlikeAdd ==
  ASSUME NEW M, NEW b \in Seq(Lines(M)), NEW g \in Seq(Lines(M)),
         Distinct(b), Distinct(g), Alike(b, g),
         NEW x \in M, NEW c \in Count, NEW d \in Count, Swapped(c, d)
  PROVE  Alike(add(b, x, c), add(g, x, d))
<1>1. /\ Len(b) = Len(g) /\ Len(b) \in Nat
      /\ \A n \in 1..Len(b) : b[n].name = g[n].name /\ Swapped(b[n].count, g[n].count)
  BY DEF Alike
<1> DEFINE bb == add(b, x, c)
           gg == add(g, x, d)
<1>2. (\E k \in 1..Len(b) : AddsTo(b, bb, k, x, c)) \/ Appends(b, bb, x, c)
  BY AddFacts
<1>3. (\E k \in 1..Len(g) : AddsTo(g, gg, k, x, d)) \/ Appends(g, gg, x, d)
  BY AddFacts
<1> HIDE DEF bb, gg
<1>4. ASSUME NEW k \in 1..Len(b), AddsTo(b, bb, k, x, c) PROVE Alike(bb, gg)
  <2>1. g[k].name = x
    BY <1>1, <1>4 DEF AddsTo
  <2>2. PICK l \in 1..Len(g) : AddsTo(g, gg, l, x, d)
    BY <1>1, <1>3, <2>1 DEF Appends
  <2>3. l = k
    BY <1>1, <2>1, <2>2 DEF AddsTo, Distinct
  <2>4. Swapped(Plus(b[k].count, c), Plus(g[k].count, d))
    BY <1>1 DEF Swapped, Plus
  <2>5. ASSUME NEW n \in 1..Len(b)
        PROVE  bb[n].name = gg[n].name /\ Swapped(bb[n].count, gg[n].count)
    <3>1. CASE n = k
      BY <1>1, <1>4, <2>2, <2>3, <2>4, <3>1 DEF AddsTo
    <3>2. CASE n # k
      BY <1>1, <1>4, <2>2, <2>3, <3>2 DEF AddsTo
    <3> QED BY <3>1, <3>2
  <2> QED BY <1>1, <1>4, <2>2, <2>5 DEF AddsTo, Alike
<1>5. CASE Appends(b, bb, x, c)
  <2>1. Appends(g, gg, x, d)
    BY <1>1, <1>3, <1>5 DEF Appends, AddsTo
  <2>2. Len(bb) = Len(b) + 1 /\ Len(gg) = Len(b) + 1
    BY <1>1, <1>5, <2>1 DEF Appends
  <2>3. ASSUME NEW n \in 1 .. Len(b) + 1
        PROVE  bb[n].name = gg[n].name /\ Swapped(bb[n].count, gg[n].count)
    <3>1. CASE n = Len(b) + 1
      BY <1>1, <1>5, <2>1, <3>1 DEF Appends
    <3>2. CASE n # Len(b) + 1
      <4>1. n \in 1..Len(b)
        BY <1>1, <3>2
      <4> QED BY <1>1, <1>5, <2>1, <4>1 DEF Appends
    <3> QED BY <3>1, <3>2
  <2>4. Alike(bb, gg)
    BY <2>2, <2>3 DEF Alike
  <2> QED BY <2>4 DEF bb, gg
<1> QED BY <1>2, <1>4, <1>5 DEF bb, gg

(***************************************************************************)
(* Appending mirrored reports leaves the reports mirrored.                 *)
(***************************************************************************)
LEMMA SameReportsAppend ==
  ASSUME NEW R, NEW S, NEW r \in Seq(R), NEW s \in Seq(S), SameReports(r, s),
         NEW x \in R, NEW y \in S, x.run = y.run, Alike(x.breakdown, y.breakdown)
  PROVE  SameReports(Append(r, x), Append(s, y))
<1>1. /\ Len(Append(r, x)) = Len(r) + 1 /\ Len(Append(s, y)) = Len(s) + 1
      /\ Append(r, x)[Len(r) + 1] = x /\ Append(s, y)[Len(s) + 1] = y
      /\ \A i \in 1..Len(r) : Append(r, x)[i] = r[i]
      /\ \A i \in 1..Len(s) : Append(s, y)[i] = s[i]
      /\ Len(r) \in Nat /\ Len(s) \in Nat
  OBVIOUS
<1>2. \A i \in 1 .. Len(r) + 1 : i \in 1..Len(r) \/ i = Len(r) + 1
  BY <1>1
<1>3. Len(r) = Len(s) /\ \A i \in 1..Len(r) : r[i].run = s[i].run
                                              /\ Alike(r[i].breakdown, s[i].breakdown)
  BY DEF SameReports
<1> DEFINE rr == Append(r, x)
           ss == Append(s, y)
<1> HIDE DEF rr, ss
<1>4. ASSUME NEW i \in 1 .. Len(r) + 1
      PROVE  rr[i].run = ss[i].run /\ Alike(rr[i].breakdown, ss[i].breakdown)
  BY <1>1, <1>2, <1>3 DEF rr, ss
<1> QED BY <1>1, <1>3, <1>4 DEF SameReports, rr, ss

(***************************************************************************)
(* After the same number of steps each party has sent what the other has   *)
(* received, phase by phase.                                               *)
(***************************************************************************)
LEMMA MirrorTaken ==
  ASSUME BothSweep, NEW p \in Party, NEW a, NEW b
  PROVE  \A n \in 0..Len(Script[p]) : Mirror(Took(p, a)[n], Took(Peer(p), b)[n])
<1> DEFINE q == Peer(p)
           N == Len(Script[p])
           s == Took(p, a)
           t == Took(q, b)
           G == {n \in Nat : n \in 0..N => Mirror(s[n], t[n])}
<1>1. q \in Party /\ Peer(q) = p /\ Script[q] = Script[p]
  BY Peers, SweepIsShared
<1>2. /\ N \in Nat /\ s[0] = Fresh /\ t[0] = Fresh
      /\ \A n \in 1..N : /\ s[n] = Effect(p, a, Script[p][n], s[n - 1])
                         /\ t[n] = Effect(q, b, Script[p][n], t[n - 1])
  BY <1>1, TookFacts
<1>3. \A n \in 0..N : /\ Counted(s[n]) /\ Noted(p, a, s[n])
                      /\ Counted(t[n]) /\ Noted(q, b, t[n])
  BY <1>1, CountsTaken, NotesTaken
<1>4. 0 \in G
  <2>1. Mirror(Fresh, Fresh)
    BY DEF Mirror, Fresh, Swapped, NoCount, Alike, SameReports
  <2> HIDE DEF s, t
  <2> QED BY <1>2, <2>1
<1>5. ASSUME NEW n \in G PROVE n + 1 \in G
  <2>1. SUFFICES ASSUME n + 1 \in 0..N PROVE Mirror(s[n + 1], t[n + 1])
    OBVIOUS
  <2>2. n \in 0..N /\ n + 1 \in 1..N /\ n + 1 \in 0..N /\ (n + 1) - 1 = n
    BY <1>2, <2>1
  <2> DEFINE c == Script[p][n + 1]
             u == s[n]
             v == t[n]
             x == s[n + 1]
             y == t[n + 1]
  <2>3. Mirror(u, v)
    BY <2>2
  <2>4. x = Effect(p, a, c, u) /\ y = Effect(q, b, c, v)
    BY <1>2, <2>2
  <2>5. /\ Counted(u) /\ Noted(p, a, u) /\ Counted(v) /\ Noted(q, b, v)
        /\ Noted(p, a, x) /\ Noted(q, b, y)
    BY <1>3, <2>2
  <2>6. c.phase \in Phases(p) /\ Phases(q) = Phases(p)
    BY <1>1, <2>2 DEF Phases
  <2>7. c.call = "report" => /\ Printed(p, c, u) \in AllPrinted(p, a)
                             /\ Printed(q, c, v) \in AllPrinted(q, b)
    BY <1>1, <2>2 DEF AllPrinted, PrintedAt, ReportCalls
  <2> HIDE DEF G, N, s, t, c, u, v, x, y, q
  <2>8. Swapped(x.counters, y.counters)
    <3>1. Swapped(Traffic(p, c.call), Traffic(q, c.call))
      BY <1>1 DEF Traffic, Swapped, q
    <3>2. x.counters = Plus(u.counters, Traffic(p, c.call))
          /\ y.counters = Plus(v.counters, Traffic(q, c.call))
      BY <2>4 DEF Effect
    <3> QED BY <2>3, <3>1, <3>2 DEF Mirror, Swapped, Plus
  <2>9. Swapped(x.mark, y.mark) /\ Swapped(x.from, y.from)
    BY <2>3, <2>4 DEF Effect, Mirror
  <2>10. Alike(x.breakdown, y.breakdown)
    <3>1. CASE c.call = "start"
      BY <2>4, <3>1 DEF Effect, Alike
    <3>2. CASE c.call = "leave"
      <4> DEFINE k == Less(u.counters, u.from)
                 l == Less(v.counters, v.from)
      <4>1. k \in Count /\ l \in Count
        BY <2>5, LessFacts DEF Counted
      <4>2. Swapped(k, l)
        BY <2>3 DEF Mirror, Swapped, Less
      <4> HIDE DEF k, l
      <4>3. x.breakdown = add(u.breakdown, c.phase, k)
            /\ y.breakdown = add(v.breakdown, c.phase, l)
        BY <2>4, <3>2 DEF Effect, k, l
      <4> QED BY <2>3, <2>5, <2>6, <4>1, <4>2, <4>3, AlikeAdd DEF Mirror, Noted
    <3>3. CASE c.call \notin {"start", "leave"}
      BY <2>3, <2>4, <3>3 DEF Effect, Mirror
    <3> QED BY <3>1, <3>2, <3>3
  <2>11. SameReports(x.reports, y.reports)
    <3>1. CASE c.call = "report"
      <4>1. x.reports = Append(u.reports, Printed(p, c, u))
            /\ y.reports = Append(v.reports, Printed(q, c, v))
        BY <2>4, <3>1 DEF Effect
      <4>2. Printed(p, c, u).run = Printed(q, c, v).run
            /\ Alike(Printed(p, c, u).breakdown, Printed(q, c, v).breakdown)
        BY <2>3 DEF Printed, Mirror
      <4>3. u.reports \in Seq(AllPrinted(p, a)) /\ v.reports \in Seq(AllPrinted(q, b))
            /\ SameReports(u.reports, v.reports)
        BY <2>3, <2>5 DEF Noted, Mirror
      <4> QED BY <2>7, <3>1, <4>1, <4>2, <4>3, SameReportsAppend
    <3>2. CASE c.call # "report"
      BY <2>3, <2>4, <3>2 DEF Effect, Mirror
    <3> QED BY <3>1, <3>2
  <2> QED BY <2>8, <2>9, <2>10, <2>11 DEF Mirror, x, y
<1>6. G = Nat
  <2> HIDE DEF G
  <2>1. G \in SUBSET Nat
    BY DEF G
  <2> QED BY <1>4, <1>5, <2>1, GoodNaturals
<1>7. \A n \in 0..N : n \in Nat
  BY <1>2
<1> QED BY <1>6, <1>7

(***************************************************************************)
(* Reports are only added.                                                 *)
(***************************************************************************)
Extends(r, s) ==
    Len(r) \in Nat /\ Len(s) \in Nat /\ Len(r) <= Len(s)
    /\ \A i \in 1..Len(r) : s[i] = r[i]

(***************************************************************************)
(* A report that is printed stays printed.                                 *)
(***************************************************************************)
LEMMA ReportsGrow ==
  ASSUME BothSweep, NEW p \in Party, NEW a, NEW n \in 0..Len(Script[p])
  PROVE  \A m \in n..Len(Script[p]) : Extends(Took(p, a)[n].reports, Took(p, a)[m].reports)
<1> DEFINE N == Len(Script[p])
           t == Took(p, a)
           G == {k \in Nat : n + k \in n..N => Extends(t[n].reports, t[n + k].reports)}
<1>1. N \in Nat /\ \A m \in 1..N : t[m] = Effect(p, a, Script[p][m], t[m - 1])
  BY TookFacts
<1>2. \A m \in 0..N : t[m].reports \in Seq(AllPrinted(p, a))
  BY NotesTaken DEF Noted
<1>3. n \in Nat /\ n <= N
  BY <1>1
<1>4. 0 \in G
  <2>1. n + 0 = n /\ Len(t[n].reports) \in Nat
    BY <1>2, <1>3
  <2> QED BY <2>1 DEF Extends
<1>5. ASSUME NEW k \in G PROVE k + 1 \in G
  <2>1. SUFFICES ASSUME n + (k + 1) \in n..N
                 PROVE  Extends(t[n].reports, t[n + (k + 1)].reports)
    OBVIOUS
  <2>2. /\ k \in Nat /\ n + k \in n..N /\ n + k \in 0..N /\ n + (k + 1) \in 1..N
        /\ (n + (k + 1)) - 1 = n + k /\ n + (k + 1) \in 0..N
    BY <1>3, <2>1
  <2> DEFINE c == Script[p][n + (k + 1)]
             old == t[n + k]
             new == t[n + (k + 1)]
  <2>3. Extends(t[n].reports, old.reports)
    BY <2>2
  <2>4. new.reports = IF c.call = "report"
                      THEN Append(old.reports, Printed(p, c, old)) ELSE old.reports
    <3>1. new = Effect(p, a, c, old)
      BY <1>1, <2>2
    <3> QED BY <3>1 DEF Effect
  <2>5. c.call = "report" => Printed(p, c, old) \in AllPrinted(p, a)
    BY <2>2 DEF AllPrinted, PrintedAt, ReportCalls
  <2>6. old.reports \in Seq(AllPrinted(p, a))
    BY <1>2, <2>2
  <2> HIDE DEF G, N, c, old, new, t
  <2>7. Extends(old.reports, new.reports)
    BY <2>4, <2>5, <2>6 DEF Extends
  <2>8. Extends(t[n].reports, new.reports)
    BY <2>3, <2>7 DEF Extends
  <2> QED BY <2>8 DEF new
<1>6. G = Nat
  <2> HIDE DEF G
  <2>1. G \in SUBSET Nat
    BY DEF G
  <2> QED BY <1>4, <1>5, <2>1, GoodNaturals
<1>7. ASSUME NEW m \in n..N PROVE Extends(t[n].reports, t[m].reports)
  <2>1. m - n \in Nat /\ n + (m - n) = m
    BY <1>1, <1>3
  <2> QED BY <1>6, <2>1
<1> QED BY <1>7

(***************************************************************************)
(* So the reports that both have printed are of the same runs, and agree.  *)
(***************************************************************************)
LEMMA ReportsAgree ==
  ASSUME BothSweep, SweepInv, NEW p \in Party, NEW i \in Nat, 1 <= i,
         i <= Len(reports[p]), i <= Len(reports[Peer(p)])
  PROVE  /\ reports[p][i].run = reports[Peer(p)][i].run
         /\ Alike(reports[p][i].breakdown, reports[Peer(p)][i].breakdown)
<1> DEFINE q == Peer(p)
           N == Len(Script[p])
           s == Took(p, args[p])
           t == Took(q, args[q])
<1>1. /\ q \in Party /\ Len(Script[q]) = N
      /\ at[p] \in 0..N /\ at[q] \in 0..N /\ N \in Nat
  BY Peers, SweepIsShared, KnownTypes
<1> DEFINE ours == s[at[p]].reports
           theirs == t[at[q]].reports
<1>2. Listed(reports[p], ours) /\ Listed(reports[q], theirs)
  BY <1>1, KnownTypes DEF IsAt, Known
<1>3. \A n \in 0..N : SameReports(s[n].reports, t[n].reports)
  BY MirrorTaken DEF Mirror
<1>4. ours[i].run = theirs[i].run /\ Alike(ours[i].breakdown, theirs[i].breakdown)
  <2> i <= Len(ours) /\ i <= Len(theirs)
    BY <1>2 DEF Listed
  <2> HIDE DEF q, N, s, t
  <2>1. CASE at[p] <= at[q]
    <3>1. SameReports(ours, t[at[p]].reports)
      BY <1>1, <1>3
    <3>2. Extends(t[at[p]].reports, theirs)
      <4>1. at[q] \in at[p]..N
        BY <1>1, <2>1
      <4> QED BY <1>1, <4>1, ReportsGrow DEF t
    <3> HIDE DEF ours, theirs
    <3>3. i \in 1..Len(t[at[p]].reports) /\ i \in 1..Len(ours)
      BY <3>1, <3>2 DEF SameReports, Extends
    <3>4. theirs[i] = t[at[p]].reports[i]
      BY <3>2, <3>3 DEF Extends
    <3> QED BY <3>1, <3>3, <3>4 DEF SameReports
  <2>2. CASE at[q] <= at[p]
    <3>1. SameReports(s[at[q]].reports, theirs)
      BY <1>1, <1>3
    <3>2. Extends(s[at[q]].reports, ours)
      <4>1. at[p] \in at[q]..N
        BY <1>1, <2>2
      <4> QED BY <1>1, <4>1, ReportsGrow DEF s, N
    <3> HIDE DEF ours, theirs
    <3>3. i \in 1..Len(s[at[q]].reports)
      BY <3>1, <3>2 DEF SameReports, Extends
    <3>4. ours[i] = s[at[q]].reports[i]
      BY <3>2, <3>3 DEF Extends
    <3> QED BY <3>1, <3>3, <3>4 DEF SameReports
  <2> QED BY <1>1, <2>1, <2>2
<1> HIDE DEF ours, theirs
<1>5. /\ i \in 1..Len(ours) /\ i \in 1..Len(theirs)
      /\ Bare(reports[p][i]) = ours[i] /\ Bare(reports[q][i]) = theirs[i]
  BY <1>2 DEF Listed, q
<1>6. /\ ours[i].run = reports[p][i].run /\ ours[i].breakdown = reports[p][i].breakdown
      /\ theirs[i].run = reports[q][i].run
      /\ theirs[i].breakdown = reports[q][i].breakdown
  BY <1>5 DEF Bare
<1> QED BY <1>4, <1>6 DEF q

(***************************************************************************)
(* A run that both have reported is a line of both parties' reports.       *)
(***************************************************************************)
LEMMA BothHaveReported ==
  ASSUME BothSweep, SweepInv, NEW i \in BothReported, NEW p \in Party
  PROVE  /\ i \in Nat /\ 1 <= i /\ i <= Len(reports[p]) /\ i <= Len(reports[Peer(p)])
         /\ i \in DOMAIN reports[p] /\ DOMAIN reports[p] = 1..Len(reports[p])
<1> DEFINE L == {Len(reports[q]) : q \in Party}
<1>1. \A q \in Party : Len(reports[q]) \in Nat /\ DOMAIN reports[q] = 1..Len(reports[q])
  BY ReportsRight
<1>2. L \in SUBSET Nat /\ L # {}
  BY <1>1
<1>3. \E x \in L : \A y \in L : x <= y
  BY <1>2, LeastNatural
<1>4. Min(L) \in L /\ \A y \in L : Min(L) <= y
  BY <1>3 DEF Min
<1>5. i \in 1..Min(L)
  BY DEF BothReported
<1>6. Len(reports[p]) \in L /\ Len(reports[Peer(p)]) \in L
  BY Peers
<1> HIDE DEF L
<1>7. Min(L) \in Nat /\ Min(L) <= Len(reports[p]) /\ Min(L) <= Len(reports[Peer(p)])
  BY <1>2, <1>4, <1>6
<1>8. Len(reports[p]) \in Nat /\ Len(reports[Peer(p)]) \in Nat
  BY <1>2, <1>6
<1>9. i \in Nat /\ 1 <= i /\ i <= Len(reports[p]) /\ i <= Len(reports[Peer(p)])
  BY <1>5, <1>7, <1>8
<1> QED BY <1>1, <1>9

(***************************************************************************)
(* BytesAddUp, for every sweep: the phases of a run add up to its totals,  *)
(* and what one party sent in a phase the other received in it.            *)
(***************************************************************************)
THEOREM PhasesAddUp ==
  ASSUME BothSweep
  PROVE  Spec => []BytesAddUp
<1>1. ASSUME SweepInv PROVE BytesAddUp
  <2>1. \A p \in Party : \A i \in DOMAIN reports[p] :
           TotalOf(reports[p][i].breakdown) = reports[p][i].total
    BY <1>1, ReportsRight DEF RightReport
  <2>2. ASSUME NEW i \in BothReported, NEW p \in Party
        PROVE  LET mine == reports[p][i].breakdown
                   theirs == reports[Peer(p)][i].breakdown
               IN  /\ Len(mine) = Len(theirs)
                   /\ \A n \in DOMAIN mine :
                         /\ mine[n].name = theirs[n].name
                         /\ mine[n].count.sent = theirs[n].count.recv
    <3> DEFINE mine == reports[p][i].breakdown
               theirs == reports[Peer(p)][i].breakdown
    <3>1. i \in Nat /\ 1 <= i /\ i <= Len(reports[p]) /\ i <= Len(reports[Peer(p)])
          /\ i \in DOMAIN reports[p]
      BY <1>1, BothHaveReported
    <3>2. Alike(mine, theirs)
      BY <1>1, <3>1, ReportsAgree
    <3>3. DOMAIN mine = 1..Len(mine)
      <4>1. PICK n \in ReportCalls(p) : mine = PrintedAt(p, args[p], n).breakdown
        BY <1>1, <3>1, ReportsRight
      <4>2. mine = Took(p, args[p])[n - 1].breakdown
        BY <4>1 DEF PrintedAt, Printed
      <4>3. n - 1 \in 0..Len(Script[p])
        BY TookFacts DEF ReportCalls
      <4>4. mine \in Seq(Lines(Phases(p)))
        BY <4>2, <4>3, NotesTaken DEF Noted
      <4> QED BY <4>4
    <3> HIDE DEF mine, theirs
    <3> QED BY <3>2, <3>3 DEF Alike, Swapped, mine, theirs
  <2> QED BY <2>1, <2>2 DEF BytesAddUp
<1> QED BY SweepInvariant, <1>1, PTL

(***************************************************************************)
(* TruthIsOfTheInputs, for every sweep: given the same arguments, what     *)
(* pepin has answered for a run, if anything, is about the pair whose      *)
(* halves the parties fed into it, and never about an earlier run's.       *)
(***************************************************************************)
THEOREM TruthOfInputs ==
  ASSUME BothSweep
  PROVE  Spec => []TruthIsOfTheInputs
<1>1. ASSUME SweepInv PROVE TruthIsOfTheInputs
  <2> SUFFICES ASSUME args[ALICE] = args[BOB], NEW i \in BothReported
               PROVE  /\ reports[ALICE][i].run = reports[BOB][i].run
                      /\ reports[ALICE][i].truth \in
                            run_pepin_sanity_check([p \in Party |-> reports[p][i].mine])
                      /\ reports[BOB][i].truth = nullopt
    BY DEF TruthIsOfTheInputs
  <2> DEFINE a == args[ALICE]
             run == reports[ALICE][i].run
  <2>1. /\ ALICE \in Party /\ BOB \in Party /\ Peer(ALICE) = BOB /\ BOB # ALICE
        /\ \A p \in Party : p = ALICE \/ p = BOB
        /\ \A p \in Party : args[p] = a
    BY PartiesDiffer DEF Party, Peer
  <2>2. \A p \in Party : i \in DOMAIN reports[p]
    BY <1>1, BothHaveReported
  <2>3. ASSUME NEW p \in Party
        PROVE  /\ RightReport(p, a, reports[p][i])
               /\ reports[p][i].truth \in Truths(p, a, reports[p][i].run)
    BY <1>1, <2>1, <2>2, ReportsRight
  <2> HIDE DEF a
  <2>4. reports[BOB][i].run = run
    <3>1. i \in Nat /\ 1 <= i /\ i <= Len(reports[ALICE])
          /\ i <= Len(reports[Peer(ALICE)])
      BY <1>1, <2>1, BothHaveReported
    <3> QED BY <1>1, <2>1, <3>1, ReportsAgree
  <2>5. \A p \in Party : reports[p][i].mine = Made(a, run)[p]
    BY <2>1, <2>3, <2>4 DEF RightReport
  <2>6. /\ reports[ALICE][i].truth \in run_pepin_sanity_check(Made(a, run))
        /\ reports[BOB][i].truth = nullopt
    <3>1. /\ Truths(ALICE, a, run) = run_pepin_sanity_check(Made(a, run))
          /\ Truths(BOB, a, run) = {nullopt}
      BY <2>1 DEF Truths
    <3>2. /\ reports[ALICE][i].truth \in Truths(ALICE, a, run)
          /\ reports[BOB][i].truth \in Truths(BOB, a, run)
      BY <2>1, <2>3, <2>4
    <3> QED BY <3>1, <3>2
  <2> HIDE DEF run
  <2>7. [p \in Party |-> reports[p][i].mine] = Made(a, run)
    <3>1. Made(a, run) = [p \in Party |-> Made(a, run)[p]]
      BY DEF Made
    <3>2. [p \in Party |-> reports[p][i].mine] = [p \in Party |-> Made(a, run)[p]]
      BY <2>5
    <3> QED BY <3>1, <3>2
  <2> QED BY <2>4, <2>6, <2>7 DEF run
<1> QED BY SweepInvariant, <1>1, PTL
-----------------------------------------------------------------------------
(***************************************************************************)
(* When a party or the connection may make a step of the sweep, and what a *)
(* completed call then assigns, pepin's any of its answers.  GuardedSweep  *)
(* says that a step is a guard and an assignment, so that some step can be *)
(* made exactly when SweepGoesOn: pepin always has an answer, nullopt.     *)
(***************************************************************************)
SweepGoesOn == MayJoin \/ \E p \in Party : proc[p] = "absent" \/ MayStep(p)

BenchTo(state) ==
    <<args, stack, pair, truth, counters, mark, from, breakdown, slices, reports>>' = state
Noting(p, answer) ==
    LET call == Step(p).call
        Now(c, f, x) == IF call = c THEN With(f, p, x) ELSE f
        cut == 64 * Len(slices[p])
        left == Step(p).run.width - cut
    IN  BenchTo(<<args, stack,
                  Now("generate", pair, Generated(p, Step(p).run)),
                  Now("pepin", truth, answer),
                  IF call \in Local THEN counters ELSE Received(p),
                  Now("start", mark, counters[p]),
                  Now("enter", from, counters[p]),
                  IF call = "leave"
                  THEN With(breakdown, p,
                            add(breakdown[p], Step(p).phase, Less(counters[p], from[p])))
                  ELSE Now("start", breakdown, <<>>),
                  IF call = "reveal"
                  THEN With(slices, p, Append(slices[p],
                                cut .. cut + (IF left < 64 THEN left ELSE 64) - 1))
                  ELSE Now("start", slices, <<>>),
                  Now("report", reports,
                      Append(reports[p], [run |-> Step(p).run, mine |-> pair[p][p],
                                          truth |-> truth[p], estimate |-> slices[p],
                                          total |-> Less(counters[p], mark[p]),
                                          breakdown |-> breakdown[p]]))>>)

(***************************************************************************)
(* The actions that complete a call, one for each kind of call or for      *)
(* several.                                                                *)
(***************************************************************************)
Completes(p) ==
    \/ Generate(p) \/ Pepin(p) \/ StartClock(p) \/ Enter(p) \/ Leave(p)
    \/ Call(p) \/ Reveal(p) \/ Report(p)

(***************************************************************************)
(* A call of any kind that may be completed is completed by one of them.   *)
(***************************************************************************)
LEMMA GuardedCompletion ==
  ASSUME NEW p \in Party
  PROVE  Completes(p) <=> Complete(p) /\ \E answer \in Answers(p) : Noting(p, answer)
<1> DEFINE call == Step(p).call
<1>9. nullopt \in Answers(p)
  BY DEF Answers, run_pepin_sanity_check
<1>1. CASE call = "generate"
  BY <1>1, <1>9 DEF Completes, Generate, Pepin, StartClock, Enter, Leave, Call, Reveal, Report,
              Noting, BenchTo, With, Local, Complete
<1>2. CASE call = "pepin"
  BY <1>2 DEF Completes, Generate, Pepin, StartClock, Enter, Leave, Call, Reveal, Report,
              Noting, BenchTo, With, Local, Complete
<1>3. CASE call = "start"
  BY <1>3, <1>9 DEF Completes, Generate, Pepin, StartClock, Enter, Leave, Call, Reveal, Report,
              Noting, BenchTo, With, Local, Complete
<1>4. CASE call = "enter"
  BY <1>4, <1>9 DEF Completes, Generate, Pepin, StartClock, Enter, Leave, Call, Reveal, Report,
              Noting, BenchTo, With, Local, Complete
<1>5. CASE call = "leave"
  BY <1>5, <1>9 DEF Completes, Generate, Pepin, StartClock, Enter, Leave, Call, Reveal, Report,
              Noting, BenchTo, With, Local, Complete
<1>6. CASE call = "report"
  BY <1>6, <1>9 DEF Completes, Generate, Pepin, StartClock, Enter, Leave, Call, Reveal, Report,
              Noting, BenchTo, With, Local, Complete
<1>7. CASE call = "reveal"
  BY <1>7, <1>9 DEF Completes, Generate, Pepin, StartClock, Enter, Leave, Call, Reveal, Report,
              Noting, BenchTo, With, Local, Complete
<1>8. CASE call \notin Local \cup {"reveal"}
  BY <1>8, <1>9 DEF Completes, Generate, Pepin, StartClock, Enter, Leave, Call, Reveal, Report,
              Noting, BenchTo, With, Local, Complete
<1> QED BY <1>1, <1>2, <1>3, <1>4, <1>5, <1>6, <1>7, <1>8 DEF Local

(***************************************************************************)
(* A step of the sweep is one of the guards and what it then assigns.      *)
(***************************************************************************)
LEMMA GuardedSweep ==
  Next <=>
    \/ /\ MayJoin /\ UNCHANGED benchVars
       /\ Becoming(<<[q \in Party |-> "running"], ready, at, posted, net>>)
    \/ \E p \in Party :
          \/ /\ proc[p] = "absent"
             /\ Becoming(<<With(proc, p, "starting"), ready, at, posted, net>>)
             /\ BenchTo(<<args, With(stack, p, raise_stack_limit(stack[p])), pair, truth,
                          counters, mark, from, breakdown, slices, reports>>)
          \/ /\ MayFail(p) /\ UNCHANGED benchVars
             /\ Becoming(<<With(proc, p, "failed"), ready, at, posted, net>>)
          \/ /\ MayOpen(p) /\ UNCHANGED benchVars
             /\ Becoming(<<With(proc, p, "opening"), ready, at, posted, net>>)
          \/ /\ MayPost(p)
             /\ Becoming(<<proc, ready, at, With(posted, p, TRUE),
                           With(net, Peer(p), Append(net[Peer(p)], at[p] + 1))>>)
             /\ BenchTo(<<args, stack, pair, truth,
                          [counters EXCEPT ![p].sent = @ + 1],
                          mark, from, breakdown, slices, reports>>)
          \/ /\ MayComplete(p) /\ \E answer \in Answers(p) : Noting(p, answer)
             /\ Becoming(<<proc, ready, With(at, p, at[p] + 1), With(posted, p, FALSE),
                           IF Receives(p) THEN With(net, p, Tail(net[p])) ELSE net>>)
          \/ /\ MayFinish(p) /\ UNCHANGED benchVars
             /\ Becoming(<<With(proc, p, "finished"), ready, at, posted, net>>)
<1>1. ASSUME NEW p \in Party
      PROVE  Completes(p) <=>
                /\ MayComplete(p) /\ \E answer \in Answers(p) : Noting(p, answer)
                /\ Becoming(<<proc, ready, With(at, p, at[p] + 1), With(posted, p, FALSE),
                              IF Receives(p) THEN With(net, p, Tail(net[p])) ELSE net>>)
  BY GuardedCompletion DEF Complete, MayComplete, Becoming, With
<1>2. ASSUME NEW p \in Party
      PROVE  Start(p) <=>
                /\ proc[p] = "absent"
                /\ Becoming(<<With(proc, p, "starting"), ready, at, posted, net>>)
                /\ BenchTo(<<args, With(stack, p, raise_stack_limit(stack[p])), pair, truth,
                             counters, mark, from, breakdown, slices, reports>>)
  BY DEF Start, Launch, Becoming, With, BenchTo
<1>3. ASSUME NEW p \in Party
      PROVE  Manage(p) <=>
                /\ UNCHANGED benchVars
                /\ \/ /\ MayFail(p)
                      /\ Becoming(<<With(proc, p, "failed"), ready, at, posted, net>>)
                   \/ /\ MayOpen(p)
                      /\ Becoming(<<With(proc, p, "opening"), ready, at, posted, net>>)
                   \/ /\ MayFinish(p)
                      /\ Becoming(<<With(proc, p, "finished"), ready, at, posted, net>>)
  BY DEF Manage, Fail, Open, Finish, MayFail, MayOpen, MayFinish, Becoming, With
<1>4. ASSUME NEW p \in Party
      PROVE  Send(p) <=>
                /\ MayPost(p)
                /\ Becoming(<<proc, ready, at, With(posted, p, TRUE),
                              With(net, Peer(p), Append(net[Peer(p)], at[p] + 1))>>)
                /\ BenchTo(<<args, stack, pair, truth,
                             [counters EXCEPT ![p].sent = @ + 1],
                             mark, from, breakdown, slices, reports>>)
  BY DEF Send, Post, MayPost, Becoming, With, BenchTo
<1>5. Connect <=>
         /\ MayJoin /\ UNCHANGED benchVars
         /\ Becoming(<<[q \in Party |-> "running"], ready, at, posted, net>>)
  BY DEF Connect, Join, MayJoin, Becoming
<1>6. \A p \in Party : Main(p) <=> Start(p) \/ Manage(p) \/ Send(p) \/ Completes(p)
  BY DEF Main, Completes
<1> QED BY <1>1, <1>2, <1>3, <1>4, <1>5, <1>6 DEF Next

(***************************************************************************)
(* What a sweep comes to when nothing more can happen: both processes have *)
(* exited, or one waits for the other, whose arguments were refused.       *)
(***************************************************************************)
LEMMA SweepStops ==
  ASSUME BothSweep, SweepInv
  PROVE  ~SweepGoesOn <=> OneRefused \/ \A p \in Party : proc[p] \in {"finished", "failed"}
<1>1. SameCalls /\ LinkOK
  BY SweepIsShared DEF SweepInv
<1>2. (\A p \in Party : proc[p] \in {"finished", "failed"}) => ~SweepGoesOn
  BY DEF SweepGoesOn, MayJoin, MayStep, MayFail, MayOpen, MayPost, MayComplete, MayFinish,
         Busy, Party
<1> QED BY <1>1, <1>2, LinkStops, RefusedStops DEF SweepGoesOn

(***************************************************************************)
(* Whatever the points, the arguments and the capacity, a sweep stops only *)
(* at its end or after a refusal, and with good arguments for both only    *)
(* when both have come to the end: SweepEnds, but for the fairness.        *)
(***************************************************************************)
THEOREM SweepStopsAtEnd ==
  ASSUME BothSweep
  PROVE  Spec => [](/\ ~SweepGoesOn
                       <=> OneRefused \/ \A p \in Party : proc[p] \in {"finished", "failed"}
                    /\ ~SweepGoesOn /\ (\A p \in Party : ready[p])
                       => \A p \in Party : proc[p] = "finished")
<1>1. SweepInv /\ ~SweepGoesOn /\ (\A p \in Party : ready[p])
         => \A p \in Party : proc[p] = "finished"
  <2>1. SweepInv /\ (\A p \in Party : ready[p]) => \A p \in Party : proc[p] # "failed"
    BY DEF SweepInv, LinkOK, JoinedOK
  <2> QED BY <2>1, SweepStops DEF OneRefused
<1> QED BY SweepInvariant, SweepStops, <1>1, PTL

(***************************************************************************)
(* A sweep makes at most so many steps: two messages and two completions   *)
(* for each call of the program, and what the processes do around them.    *)
(***************************************************************************)
THEOREM SweepIsBounded ==
  ASSUME BothSweep
  PROVE  Spec => [](LinkAdvance \in 0..LinkBound) /\ [][LinkAdvance' > LinkAdvance]_vars
<1>1. SweepInv => LinkAdvance \in 0..LinkBound
  BY SweepIsShared, AdvanceType DEF SweepInv, LinkOK
<1>2. Next => LinkNext
  BY DEF Next, Connect, Main, Start, Manage, Generate, Pepin, StartClock, Enter,
         Leave, Send, Call, Reveal, Report, LinkNext, PartyStep
<1>3. SweepInv /\ [Next]_vars => [LinkAdvance' > LinkAdvance]_vars
  BY <1>2, SweepIsShared, LinkAdvances DEF SweepInv, LinkOK
<1> QED BY SweepInvariant, <1>1, <1>3, PTL DEF Spec
-----------------------------------------------------------------------------
(***************************************************************************)
(* That the program has this shape.  What a sweep runs, and its steps.     *)
(***************************************************************************)
Sizes == 1..64
Runs == {Run(algorithm, point[1], point[2]) :
            algorithm \in {"vazirani", "karp_luby"}, point \in Sizes \X Sizes}
PhaseNames ==
    {"cube_input_feeding", "conjoin_dnf", "cube_weights", "dnf_weight", "cube_intervals",
     "trial_random_input_feeding", "sample_in_range", "select_cube_index",
     "cube_at_index", "random_assignment", "count_satisfied_cubes", "divide_lookup",
     "is_canonical_sample", "estimate", "reveal"}
CallNames == Local \cup Carried \cup {"ping", "pong"}
AllSteps == [call : CallNames, phase : PhaseNames \cup {"setup", "report"}, run : Runs]

(***************************************************************************)
(* A run that stands in a part of a program stands in the program.         *)
(***************************************************************************)
LEMMA RunMoves ==
  ASSUME NEW s \in Seq(AllSteps), NEW t \in Seq(AllSteps), NEW d \in Nat,
         NEW f, NEW r, NEW e, IsRun(s, f, r, e),
         d + Len(s) <= Len(t), \A n \in 1..Len(s) : t[d + n] = s[n]
  PROVE  IsRun(t, d + f, d + r, d + e)
<1> DEFINE F == d + f
           R == d + r
           E == d + e
<1>1. /\ f \in Nat /\ r \in Nat /\ e \in Nat /\ Len(s) \in Nat /\ Len(t) \in Nat
      /\ 1 <= f /\ f + 5 <= r /\ r < e /\ e <= Len(s)
  BY DEF IsRun
<1>2. /\ F \in Nat /\ R \in Nat /\ E \in Nat /\ F = d + f /\ R = d + r /\ E = d + e
      /\ 1 <= F /\ F + 5 <= R /\ R < E /\ E <= Len(t)
  BY <1>1
<1> HIDE DEF F, R, E
<1>3. ASSUME NEW n \in F..E
      PROVE  n - d \in f..e /\ t[n] = s[n - d]
  <2>1. n - d \in 1..Len(s) /\ d + (n - d) = n /\ n - d \in f..e
    BY <1>1, <1>2
  <2>2. t[d + (n - d)] = s[n - d]
    BY <2>1
  <2> QED BY <2>1, <2>2
<1>4. t[F] = s[f] /\ t[E] = s[e]
  <2>1. F \in F..E /\ E \in F..E /\ F - d = f /\ E - d = e
    BY <1>1, <1>2
  <2> QED BY <1>3, <2>1
<1>5. \A n \in F..E : t[n].run = t[F].run
  BY <1>3, <1>4 DEF IsRun
<1>6. IsSetup(t, F)
  <2>1. ASSUME NEW i \in 1..4 PROVE t[F + i] = s[f + i]
    <3>1. F + i \in F..E /\ (F + i) - d = f + i
      BY <1>1, <1>2
    <3> QED BY <1>3, <3>1
  <2>2. /\ t[F + 1] = s[f + 1] /\ t[F + 2] = s[f + 2]
        /\ t[F + 3] = s[f + 3] /\ t[F + 4] = s[f + 4]
    BY <2>1
  <2>3. ASSUME NEW n \in F .. F + 4 PROVE t[n].phase = "setup"
    <3>1. n - d \in f .. f + 4 /\ n \in F..E
      BY <1>1, <1>2
    <3> QED BY <1>3, <3>1 DEF IsRun, IsSetup
  <2> QED BY <1>4, <2>2, <2>3 DEF IsRun, IsSetup
<1>7. IsTimed(t, F, E)
  <2>1. ASSUME NEW n \in F + 5 .. E - 1
        PROVE  /\ t[n].call \in Carried \cup {"enter", "leave"}
               /\ t[n].phase \notin {"setup", "report"}
    <3>1. n - d \in f + 5 .. e - 1 /\ n \in F..E
      BY <1>1, <1>2
    <3> QED BY <1>3, <3>1 DEF IsRun, IsTimed
  <2>2. ASSUME NEW n \in F + 5 .. E
        PROVE  IF t[n].call \in {"enter", "report"}
               THEN Outside(t[n - 1].call)
               ELSE t[n - 1].call \in Carried \cup {"enter"}
    <3>1. /\ n - d \in f + 5 .. e /\ n \in F..E /\ n - 1 \in F..E
          /\ (n - 1) - d = (n - d) - 1
      BY <1>1, <1>2
    <3>2. t[n] = s[n - d] /\ t[n - 1] = s[(n - d) - 1]
      BY <1>3, <3>1
    <3> QED BY <3>1, <3>2 DEF IsRun, IsTimed
  <2> QED BY <2>1, <2>2 DEF IsTimed
<1>8. IsRevealed(t, F, R, E)
  <2> DEFINE w == Slices(Width(s, f))
  <2>1. Width(t, F) = Width(s, f)
    BY <1>4 DEF Width
  <2>2. r + w + 2 = e
    BY DEF IsRun, IsRevealed
  <2>3. Width(s, f) \in 0..128
    BY DEF IsRun, IsRevealed
  <2>4. w \in Nat
    <3>1. \A x \in 0..128 : x \in Nat
      OBVIOUS
    <3>2. Width(s, f) \in Nat
      BY ONLY <2>3, <3>1
    <3> QED BY <3>2, SlicesType
  <2>5. Slices(Width(t, F)) = w
    BY <2>1
  <2>6. \A n \in f + 5 .. e - 1 : s[n].call = "reveal" <=> r < n /\ n <= r + w
    BY DEF IsRun, IsRevealed
  <2> HIDE DEF w
  <2>7. ASSUME NEW n \in F + 5 .. E - 1
        PROVE  t[n].call = "reveal" <=> R < n /\ n <= R + w
    <3>1. n - d \in f + 5 .. e - 1 /\ n \in F..E
      BY <1>1, <1>2
    <3>2. s[n - d].call = "reveal" <=> r < n - d /\ n - d <= r + w
      BY <2>6, <3>1
    <3>3. r < n - d /\ n - d <= r + w <=> R < n /\ n <= R + w
      BY <1>1, <1>2, <2>4
    <3> QED BY <1>3, <3>1, <3>2, <3>3
  <2>8. R + w + 2 = E
    BY <1>1, <1>2, <2>2, <2>4
  <2>9. /\ Width(t, F) \in 0..128 /\ R + Slices(Width(t, F)) + 2 = E
        /\ \A n \in F + 5 .. E - 1 :
              t[n].call = "reveal" <=> R < n /\ n <= R + Slices(Width(t, F))
    BY <2>1, <2>3, <2>5, <2>7, <2>8
  <2> QED BY <2>9 DEF IsRevealed
<1>9. t[E].call = "report" /\ t[E].phase = "report"
  BY <1>4 DEF IsRun
<1>10. IsRun(t, F, R, E)
  BY <1>2, <1>5, <1>6, <1>7, <1>8, <1>9 DEF IsRun
<1> QED BY <1>10 DEF F, R, E

(***************************************************************************)
(* So two sweeps one after the other are a sweep, and so is a sequence of  *)
(* them.                                                                   *)
(***************************************************************************)
LEMMA PartIsCovered ==
  ASSUME NEW s \in Seq(AllSteps), IsSweep(s), NEW t \in Seq(AllSteps), NEW d \in Nat,
         d + Len(s) <= Len(t), \A n \in 1..Len(s) : t[d + n] = s[n],
         NEW x \in d + 1 .. d + Len(s)
  PROVE  \E f, r, e \in Nat : IsRun(t, f, r, e) /\ x \in f..e
<1>1. Len(s) \in Nat
  OBVIOUS
<1>2. x - d \in 1..Len(s)
  BY <1>1
<1>3. PICK f \in Nat, r \in Nat, e \in Nat : IsRun(s, f, r, e) /\ x - d \in f..e
  BY <1>2 DEF IsSweep
<1>4. IsRun(t, d + f, d + r, d + e)
  BY <1>3, RunMoves
<1>5. x \in d + f .. d + e
  BY <1>3
<1>6. d + f \in Nat /\ d + r \in Nat /\ d + e \in Nat
  OBVIOUS
<1> QED BY <1>4, <1>5, <1>6

(***************************************************************************)
(* One sweep after another is a sweep.                                     *)
(***************************************************************************)
LEMMA SweepsFollow ==
  ASSUME NEW s \in Seq(AllSteps), NEW t \in Seq(AllSteps), IsSweep(s), IsSweep(t)
  PROVE  s \o t \in Seq(AllSteps) /\ IsSweep(s \o t)
<1> DEFINE u == s \o t
<1>1. /\ Len(s) \in Nat /\ Len(t) \in Nat /\ u \in Seq(AllSteps)
      /\ Len(u) = Len(s) + Len(t)
      /\ \A n \in 1..Len(s) : u[n] = s[n]
      /\ \A n \in 1..Len(t) : u[Len(s) + n] = t[n]
  OBVIOUS
<1> HIDE DEF u
<1>2. ASSUME NEW x \in 1..Len(u)
      PROVE  \E f, r, e \in Nat : IsRun(u, f, r, e) /\ x \in f..e
  <2>1. CASE x <= Len(s)
    <3>1. 0 \in Nat /\ 0 + Len(s) <= Len(u) /\ x \in 0 + 1 .. 0 + Len(s)
          /\ \A n \in 1..Len(s) : u[0 + n] = s[n]
      BY <1>1, <2>1
    <3> QED BY <1>1, <3>1, PartIsCovered
  <2>2. CASE Len(s) < x
    <3>1. Len(s) + Len(t) <= Len(u) /\ x \in Len(s) + 1 .. Len(s) + Len(t)
      BY <1>1, <2>2
    <3> QED BY <1>1, <3>1, PartIsCovered
  <2> QED BY <1>1, <2>1, <2>2
<1> QED BY <1>1, <1>2 DEF IsSweep, u

(***************************************************************************)
(* And so is any number of them in a row.                                  *)
(***************************************************************************)
LEMMA SweepsFlatten ==
  ASSUME NEW q \in Seq(Seq(AllSteps)), \A n \in 1..Len(q) : IsSweep(q[n])
  PROVE  FlattenSeq(q) \in Seq(AllSteps) /\ IsSweep(FlattenSeq(q))
<1> DEFINE flat == FlattenSeq(q)
<1>1. flat \in Seq(AllSteps) /\ \E L : Laid(q, flat, L)
  BY FlattenFacts
<1> HIDE DEF flat
<1>2. PICK L : Laid(q, flat, L)
  BY <1>1
<1>3. /\ L \in [0..Len(q) -> Nat] /\ Len(flat) \in Nat /\ Len(q) \in Nat
      /\ \A n \in 1..Len(q) :
            /\ L[n] = L[n - 1] + Len(q[n]) /\ L[n] <= Len(flat)
            /\ \A m \in 1..Len(q[n]) : flat[L[n - 1] + m] = q[n][m]
  BY <1>1, <1>2 DEF Laid
<1>4. ASSUME NEW x \in 1..Len(flat)
      PROVE  \E f, r, e \in Nat : IsRun(flat, f, r, e) /\ x \in f..e
  <2>1. PICK n \in 1..Len(q) : L[n - 1] < x /\ x <= L[n]
    BY <1>1, <1>2, LaidCovers
  <2>2. q[n] \in Seq(AllSteps) /\ IsSweep(q[n]) /\ n - 1 \in 0..Len(q)
    BY <1>3
  <2> DEFINE d == L[n - 1]
             s == q[n]
  <2>3. d \in Nat /\ d + Len(s) <= Len(flat) /\ \A m \in 1..Len(s) : flat[d + m] = s[m]
    BY <1>3, <2>2
  <2>4. Len(s) \in Nat /\ d < x /\ x <= d + Len(s)
    BY <1>3, <2>1, <2>2
  <2> HIDE DEF d, s
  <2>5. x \in d + 1 .. d + Len(s)
    BY <1>3, <2>3, <2>4
  <2> QED BY <1>1, <2>2, <2>3, <2>5, PartIsCovered DEF s
<1> QED BY <1>1, <1>3, <1>4 DEF IsSweep, flat
-----------------------------------------------------------------------------
(***************************************************************************)
(* The blocks of a pipeline: all but the last carry inputs and gates, the  *)
(* last one reveals.                                                       *)
(***************************************************************************)
Plain == {"alice_input", "bob_input", "gates"}
BlocksOf(calls) == {Block(phase, c) : phase \in PhaseNames, c \in Seq(calls)}

(***************************************************************************)
(* What a loop repeats is of the same kind when it is done.                *)
(***************************************************************************)
LEMMA RepeatType ==
  ASSUME NEW T, NEW s \in Seq(T), NEW n \in Nat
  PROVE  Repeat(n, s) \in Seq(T)
<1>1. [k \in 1..n |-> s] \in Seq(Seq(T))
  OBVIOUS
<1> QED BY <1>1, FlattenFacts DEF Repeat

(***************************************************************************)
(* A call that is repeated stands there as often as the loop turns.        *)
(***************************************************************************)
LEMMA RepeatLength ==
  ASSUME NEW T, NEW x \in T, NEW n \in Nat
  PROVE  Repeat(n, <<x>>) \in Seq(T) /\ Len(Repeat(n, <<x>>)) = n
<1> DEFINE q == [k \in 1..n |-> <<x>>]
           flat == FlattenSeq(q)
<1>1. q \in Seq(Seq(T)) /\ Len(q) = n /\ \A k \in 1..n : q[k] = <<x>>
  OBVIOUS
<1>2. flat \in Seq(T) /\ \E L : Laid(q, flat, L)
  BY <1>1, FlattenFacts
<1>3. Repeat(n, <<x>>) = flat
  BY DEF Repeat
<1> HIDE DEF flat, q
<1>4. PICK L : Laid(q, flat, L)
  BY <1>2
<1>5. /\ L[0] = 0 /\ L[n] = Len(flat)
      /\ \A k \in 1..n : L[k] = L[k - 1] + 1
  BY <1>1, <1>4 DEF Laid
<1> DEFINE G == {k \in Nat : k \in 0..n => L[k] = k}
<1>6. 0 \in G
  BY <1>5
<1>7. ASSUME NEW k \in G PROVE k + 1 \in G
  <2>1. SUFFICES ASSUME k + 1 \in 0..n PROVE L[k + 1] = k + 1
    OBVIOUS
  <2>2. k + 1 \in 1..n /\ (k + 1) - 1 = k /\ L[k] = k
    BY <2>1
  <2> HIDE DEF G
  <2> QED BY <1>5, <2>2
<1>8. G = Nat
  <2> HIDE DEF G
  <2>1. G \in SUBSET Nat
    BY DEF G
  <2> QED BY <1>6, <1>7, <2>1, GoodNaturals
<1> QED BY <1>2, <1>3, <1>5, <1>8

(***************************************************************************)
(* Block makes a block.                                                    *)
(***************************************************************************)
LEMMA BlockType ==
  ASSUME NEW phase \in PhaseNames, NEW T, NEW c \in Seq(T)
  PROVE  Block(phase, c) \in BlocksOf(T)
BY DEF BlocksOf

(***************************************************************************)
(* A pipeline is blocks of carried calls that reveal nothing, and one last *)
(* block that reveals each slice of the result.                            *)
(***************************************************************************)
LEMMA PipelineBlocks ==
  ASSUME NEW algorithm, NEW cubes \in Nat, NEW k \in Nat, NEW width \in Nat
  PROVE  \E front \in Seq(BlocksOf(Plain)), c \in Seq({"reveal"}) :
            /\ Len(c) = Slices(width)
            /\ Pipeline(algorithm, cubes, k, width) = front \o <<Block("reveal", c)>>
<1> DEFINE T == BlocksOf(Plain)
<1>1. \A phase \in PhaseNames : Gates(phase) \in T
  <2>1. <<"gates">> \in Seq(Plain)
    BY DEF Plain
  <2> QED BY <2>1, BlockType DEF Gates
<1>2. RandomInputs \in T
  <2>1. <<"alice_input", "bob_input">> \in Seq(Plain)
    BY DEF Plain
  <2>2. "trial_random_input_feeding" \in PhaseNames
    BY DEF PhaseNames
  <2> QED BY <2>1, <2>2, BlockType DEF RandomInputs
<1>3. CubeInputs(cubes) \in T
  <2>1. <<"alice_input">> \in Seq(Plain) /\ <<"bob_input">> \in Seq(Plain)
    BY DEF Plain
  <2>2. Repeat(3, <<"alice_input">>) \in Seq(Plain) /\ Repeat(3, <<"bob_input">>) \in Seq(Plain)
    BY <2>1, RepeatType
  <2>3. Repeat(3, <<"alice_input">>) \o Repeat(3, <<"bob_input">>) \in Seq(Plain)
    BY <2>2
  <2>4. "cube_input_feeding" \in PhaseNames
    BY DEF PhaseNames
  <2> QED BY <2>3, <2>4, RepeatType, BlockType DEF CubeInputs
<1>4. {"sample_in_range", "select_cube_index", "cube_at_index", "random_assignment",
       "count_satisfied_cubes", "divide_lookup", "is_canonical_sample", "conjoin_dnf",
       "cube_weights", "dnf_weight", "cube_intervals", "estimate"} \in SUBSET PhaseNames
  BY DEF PhaseNames
<1> HIDE DEF T
<1>5. Trial(algorithm) \in Seq(T)
  <2>1. <<RandomInputs, Gates("sample_in_range"), Gates("select_cube_index"),
          Gates("cube_at_index"), RandomInputs, Gates("random_assignment")>> \in Seq(T)
    BY <1>1, <1>2, <1>4
  <2>2. <<Gates("count_satisfied_cubes"), Gates("divide_lookup")>> \in Seq(T)
        /\ <<Gates("is_canonical_sample")>> \in Seq(T)
    BY <1>1, <1>4
  <2> QED BY <2>1, <2>2 DEF Trial
<1>6. Repeat(k, Trial(algorithm)) \in Seq(T)
  BY <1>5, RepeatType
<1> DEFINE first == <<CubeInputs(cubes), Gates("conjoin_dnf"), Gates("cube_weights"),
                      Gates("dnf_weight"), Gates("cube_intervals")>>
           loop == Repeat(k, Trial(algorithm))
           last == <<Gates("estimate")>>
           c == Repeat(Slices(width), <<"reveal">>)
<1>7. first \in Seq(T) /\ last \in Seq(T)
  BY <1>1, <1>3, <1>4
<1>8. c \in Seq({"reveal"}) /\ Len(c) = Slices(width)
  BY SlicesType, RepeatLength
<1>9. Pipeline(algorithm, cubes, k, width)
         = first \o loop \o <<Gates("estimate"), Block("reveal", c)>>
  BY DEF Pipeline
<1> DEFINE b == Block("reveal", c)
           g == Gates("estimate")
<1> HIDE DEF first, loop, c, b, g
<1>10. \A u \in Seq(T \cup {b}) : u \o <<g, b>> = (u \o <<g>>) \o <<b>>
  BY <1>1, <1>4 DEF g
<1>11. first \o loop \in Seq(T)
  BY <1>6, <1>7 DEF loop
<1>12. first \o loop \in Seq(T \cup {b})
  BY <1>11
<1>13. (first \o loop) \o last \in Seq(T)
  BY <1>7, <1>11
<1>14. Pipeline(algorithm, cubes, k, width) = ((first \o loop) \o last) \o <<Block("reveal", c)>>
  BY <1>9, <1>10, <1>12 DEF b, g
<1> QED BY <1>8, <1>13, <1>14 DEF T
-----------------------------------------------------------------------------
(***************************************************************************)
(* The steps of a block: entered, called, left.                            *)
(***************************************************************************)
StepsOf(run, calls, phase) ==
    [n \in DOMAIN calls |-> [call |-> calls[n], phase |-> phase, run |-> run]]
BlockSteps(run, b) == StepsOf(run, Measured(b), b.phase)

IsBlock(t, run, calls) ==
    /\ t \in Seq(AllSteps) /\ Len(t) >= 2
    /\ \A n \in 1..Len(t) :
          /\ t[n].run = run /\ t[n].phase \notin {"setup", "report"}
          /\ n = 1 => t[n].call = "enter"
          /\ n = Len(t) => t[n].call = "leave"
          /\ 1 < n /\ n < Len(t) => t[n].call \in calls

(***************************************************************************)
(* StepsOf names the calls' steps one by one, all in one phase of one run. *)
(***************************************************************************)
LEMMA StepsType ==
  ASSUME NEW run \in Runs, NEW phase \in PhaseNames \cup {"setup", "report"},
         NEW calls \in Seq(CallNames)
  PROVE  /\ StepsOf(run, calls, phase) \in Seq(AllSteps)
         /\ Len(StepsOf(run, calls, phase)) = Len(calls)
         /\ \A n \in 1..Len(calls) :
               LET step == StepsOf(run, calls, phase)[n]
               IN  step.call = calls[n] /\ step.phase = phase /\ step.run = run
<1>1. DOMAIN calls = 1..Len(calls) /\ Len(calls) \in Nat
      /\ \A n \in 1..Len(calls) : calls[n] \in CallNames
  OBVIOUS
<1>2. \A n \in 1..Len(calls) :
        [call |-> calls[n], phase |-> phase, run |-> run] \in AllSteps
  BY <1>1 DEF AllSteps
<1>3. StepsOf(run, calls, phase)
        = [n \in 1..Len(calls) |-> [call |-> calls[n], phase |-> phase, run |-> run]]
  BY <1>1 DEF StepsOf
<1> HIDE DEF StepsOf
<1> QED BY <1>1, <1>2, <1>3

(***************************************************************************)
(* The steps of a block: the phase is entered, the calls made, the phase   *)
(* left.                                                                   *)
(***************************************************************************)
LEMMA BlockIsBlock ==
  ASSUME NEW run \in Runs, NEW calls \in SUBSET Carried, NEW phase \in PhaseNames,
         NEW c \in Seq(calls)
  PROVE  /\ IsBlock(BlockSteps(run, Block(phase, c)), run, calls)
         /\ Len(BlockSteps(run, Block(phase, c))) = Len(c) + 2
<1> DEFINE m == Measured(Block(phase, c))
           t == BlockSteps(run, Block(phase, c))
<1>1. m = <<"enter">> \o c \o <<"leave">>
  BY DEF Measured, Block
<1>2. calls \in SUBSET CallNames /\ "enter" \in CallNames /\ "leave" \in CallNames
  BY DEF CallNames, Local
<1>3. c \in Seq(CallNames) /\ \A n \in 1..Len(c) : c[n] \in calls
  BY <1>2
<1>4. /\ m \in Seq(CallNames) /\ Len(m) = Len(c) + 2 /\ Len(c) \in Nat
      /\ m[1] = "enter" /\ m[Len(c) + 2] = "leave"
      /\ \A n \in 1..Len(c) : m[n + 1] = c[n]
  <2> HIDE DEF m
  <2>1. <<"enter">> \in Seq(CallNames) /\ <<"leave">> \in Seq(CallNames)
        /\ Len(<<"enter">>) = 1 /\ Len(<<"leave">>) = 1
    BY <1>2
  <2> DEFINE u == <<"enter">> \o c
  <2>2. /\ u \in Seq(CallNames) /\ Len(u) = Len(c) + 1 /\ u[1] = "enter"
        /\ \A n \in 1..Len(c) : u[n + 1] = c[n]
    BY <1>3, <2>1
  <2> HIDE DEF u
  <2>3. m = u \o <<"leave">>
    BY <1>1 DEF u
  <2> QED BY <1>3, <2>1, <2>2, <2>3
<1>5. t = StepsOf(run, m, phase)
  <2> DEFINE b == Block(phase, c)
  <2>1. b.phase = phase /\ b.calls = c
    BY DEF Block
  <2>2. t = StepsOf(run, Measured(b), b.phase)
    BY DEF BlockSteps
  <2>3. m = Measured(b)
    OBVIOUS
  <2> HIDE DEF b, t, m
  <2> QED BY <2>1, <2>2, <2>3
<1>6. phase \in PhaseNames \cup {"setup", "report"} /\ phase \notin {"setup", "report"}
  BY DEF PhaseNames
<1> HIDE DEF m, t
<1>7. t \in Seq(AllSteps) /\ Len(t) = Len(m)
  BY <1>4, <1>5, <1>6, StepsType
<1>8. \A n \in 1..Len(m) : t[n].call = m[n] /\ t[n].phase = phase /\ t[n].run = run
  BY <1>4, <1>5, <1>6, StepsType
<1>9. ASSUME NEW n \in 1..Len(m), 1 < n, n < Len(m) PROVE m[n] \in calls
  <2>1. n - 1 \in 1..Len(c) /\ (n - 1) + 1 = n
    BY <1>4, <1>9
  <2>2. m[(n - 1) + 1] = c[n - 1]
    BY <1>4, <2>1
  <2> QED BY <1>3, <2>1, <2>2
<1> QED BY <1>4, <1>6, <1>7, <1>8, <1>9 DEF IsBlock, t

(***************************************************************************)
(* The widths: a point of at most 64 variables and cubes has a result of   *)
(* at most 128 bits.                                                       *)
(***************************************************************************)
LEMMA TrialsBound ==
  ASSUME NEW cubes \in Sizes
  PROVE  /\ coverage_trials(cubes) \in Nat /\ coverage_trials(cubes) < 32767
         /\ cubes * cubes \in Nat /\ cubes * cubes <= 4096 /\ cubes * cubes >= 1
<1>1. cubes * cubes \in Nat /\ cubes * cubes <= 4096 /\ cubes * cubes >= 1
  BY DEF Sizes
<1>2. PICK m \in Nat : m = cubes * cubes /\ m <= 4096 /\ m >= 1
  BY <1>1
<1> DEFINE k == (125 * (m - 1) + 15) \div 16
<1>3. k \in Nat /\ k < 32767
  <2> DEFINE x == 125 * (m - 1) + 15
  <2>1. x \in Nat /\ x <= 511890
    BY <1>2
  <2> HIDE DEF x
  <2>2. x \div 16 \in Nat /\ x \div 16 < 32767
    BY <2>1
  <2> QED BY <2>2 DEF x
<1>4. coverage_trials(cubes) = k
  BY ONLY <1>2 DEF coverage_trials
<1> HIDE DEF k
<1> QED BY <1>1, <1>3, <1>4

(***************************************************************************)
(* A result of the sweep has at most 128 bits.                             *)
(***************************************************************************)
LEMMA RunWidths ==
  ASSUME NEW run \in Runs
  PROVE  /\ run.width \in 0..128 /\ run.cubes \in Nat /\ run.k \in Nat
<1>1. PICK algorithm \in {"vazirani", "karp_luby"}, point \in Sizes \X Sizes :
         run = Run(algorithm, point[1], point[2])
  BY DEF Runs
<1> DEFINE width == point[1]
           cubes == point[2]
           m == cubes * cubes
           k == coverage_trials(cubes)
<1>12. width \in Sizes /\ cubes \in Sizes
  OBVIOUS
<1>2. m \in Nat /\ m <= 4096 /\ width \in 1..64 /\ cubes \in 1..64
  <2>1. width \in 1..64 /\ cubes \in 1..64
    BY <1>12 DEF Sizes
  <2> HIDE DEF width, cubes
  <2> QED BY <1>12, <2>1, TrialsBound
<1>3. k \in Nat /\ k < 32767
  <2> HIDE DEF width, cubes
  <2> QED BY <1>12, TrialsBound
<1> HIDE DEF m, k, width, cubes
<1>5. 2^13 = 8192 /\ 2^15 = 32768
  OBVIOUS
<1>6. /\ m \in Nat /\ k \in Nat /\ k + 1 \in Nat
      /\ m < 2^13 /\ k < 2^15 /\ k + 1 < 2^15
  <2>1. m \in Nat /\ k \in Nat /\ k + 1 \in Nat /\ m < 8192 /\ k < 32768 /\ k + 1 < 32768
    BY <1>2, <1>3
  <2> QED BY <1>5, <2>1
<1>7. bits_for(m) \in Nat /\ bits_for(k) \in Nat /\ bits_for(k + 1) \in Nat
  BY <1>6, BitsForFits
<1>8. bits_for(m) <= 13 /\ bits_for(k) <= 15 /\ bits_for(k + 1) <= 15
  BY <1>6, BitsForBound
<1>9. run.cubes = cubes /\ run.k = k /\ run.width = ResultWidth(algorithm, width, cubes, k)
  BY <1>1 DEF Run, k, width, cubes
<1>10. ResultWidth(algorithm, width, cubes, k)
          = width + bits_for(m) + IF algorithm = "vazirani" THEN 17 + bits_for(k)
                                 ELSE bits_for(k + 1)
  BY DEF ResultWidth, m
<1>11. ResultWidth(algorithm, width, cubes, k) \in 0..128
  <2> DEFINE x == bits_for(m)
             y == bits_for(k)
             z == bits_for(k + 1)
  <2>1. x \in 0..13 /\ y \in 0..15 /\ z \in 0..15
    BY <1>7, <1>8
  <2> HIDE DEF x, y, z
  <2>2. width + x + 17 + y \in 0..128 /\ width + x + z \in 0..128
    BY <1>2, <2>1
  <2>3. ResultWidth(algorithm, width, cubes, k)
           = IF algorithm = "vazirani" THEN width + x + (17 + y) ELSE width + x + z
    BY <1>10 DEF x, y, z
  <2>4. width + x + (17 + y) = width + x + 17 + y
    BY <1>2, <2>1
  <2> QED BY <2>2, <2>3, <2>4
<1> QED BY <1>2, <1>3, <1>9, <1>11
-----------------------------------------------------------------------------
(***************************************************************************)
(* Blocks one after another: what is timed, of which the last block        *)
(* reveals.                                                                *)
(***************************************************************************)
LEMMA BlocksLaid ==
  ASSUME NEW run, NEW q \in Seq(Seq(AllSteps)), Len(q) >= 1,
         \A n \in 1 .. Len(q) - 1 : IsBlock(q[n], run, Plain),
         IsBlock(q[Len(q)], run, {"reveal"})
  PROVE  LET F == FlattenSeq(q)
             K == Len(q[Len(q)])
         IN  /\ F \in Seq(AllSteps) /\ K \in Nat /\ 2 <= K /\ K <= Len(F)
             /\ \A x \in 1..Len(F) :
                   /\ F[x].run = run /\ F[x].phase \notin {"setup", "report"}
                   /\ F[x].call \in Carried \cup {"enter", "leave"}
                   /\ F[x].call = "enter" => x = 1 \/ F[x - 1].call = "leave"
                   /\ F[x].call # "enter"
                        => x # 1 /\ F[x - 1].call \in Carried \cup {"enter"}
                   /\ x = Len(F) => F[x].call = "leave"
                   /\ F[x].call = "reveal" <=> Len(F) - K + 1 < x /\ x < Len(F)
<1> DEFINE F == FlattenSeq(q)
           N == Len(q)
           K == Len(q[N])
<1>1. F \in Seq(AllSteps) /\ \E L : Laid(q, F, L)
  BY FlattenFacts
<1> HIDE DEF F
<1>2. PICK L : Laid(q, F, L)
  BY <1>1
<1>3. N \in Nat /\ N >= 1 /\ Len(F) \in Nat /\ L \in [0..N -> Nat] /\ L[0] = 0 /\ L[N] = Len(F)
  BY <1>1, <1>2 DEF Laid
<1>4. ASSUME NEW n \in 1..N
      PROVE  /\ n - 1 \in 0..N /\ n \in 0..N /\ L[n - 1] \in Nat /\ L[n] \in Nat
             /\ Len(q[n]) \in Nat /\ Len(q[n]) >= 2
             /\ L[n] = L[n - 1] + Len(q[n]) /\ L[n] <= Len(F)
             /\ \A m \in 1..Len(q[n]) : F[L[n - 1] + m] = q[n][m]
             /\ IsBlock(q[n], run, IF n = N THEN {"reveal"} ELSE Plain)
  <2>1. n - 1 \in 0..N /\ n \in 0..N /\ q[n] \in Seq(AllSteps)
    BY <1>3
  <2>2. IsBlock(q[n], run, IF n = N THEN {"reveal"} ELSE Plain)
    BY <1>3
  <2>3. Len(q[n]) \in Nat /\ Len(q[n]) >= 2
    BY <2>1, <2>2 DEF IsBlock
  <2>4. L[n - 1] \in Nat /\ L[n] \in Nat
    BY <1>3, <2>1
  <2> QED BY <1>2, <2>1, <2>2, <2>3, <2>4 DEF Laid
<1>5. N \in 1..N /\ N - 1 \in 0..N
  BY <1>3
<1>6. K \in Nat /\ 2 <= K /\ K <= Len(F) /\ L[N - 1] = Len(F) - K
  <2>1. /\ L[N - 1] \in Nat /\ L[N] \in Nat /\ K \in Nat /\ K >= 2
        /\ L[N] = L[N - 1] + K
    BY <1>4, <1>5
  <2> HIDE DEF K
  <2> QED BY <1>3, <2>1
<1> HIDE DEF K
<1>7. \A i, j \in 0..N : i <= j => L[i] <= L[j]
  BY <1>1, <1>2, LaidGrows
<1>8. ASSUME NEW x \in 1..Len(F)
      PROVE  /\ F[x].run = run /\ F[x].phase \notin {"setup", "report"}
             /\ F[x].call \in Carried \cup {"enter", "leave"}
             /\ F[x].call = "enter" => x = 1 \/ F[x - 1].call = "leave"
             /\ F[x].call # "enter"
                  => x # 1 /\ F[x - 1].call \in Carried \cup {"enter"}
             /\ x = Len(F) => F[x].call = "leave"
             /\ F[x].call = "reveal" <=> Len(F) - K + 1 < x /\ x < Len(F)
  <2>1. PICK n \in 1..N : L[n - 1] < x /\ x <= L[n]
    BY <1>1, <1>2, LaidCovers
  <2> DEFINE b == q[n]
             d == L[n - 1]
             m == x - d
             calls == IF n = N THEN {"reveal"} ELSE Plain
  <2>2. /\ d \in Nat /\ Len(b) \in Nat /\ Len(b) >= 2 /\ L[n] = d + Len(b)
        /\ d + Len(b) <= Len(F)
        /\ \A i \in 1..Len(b) : F[d + i] = b[i]
        /\ IsBlock(b, run, calls)
    BY <1>4
  <2> HIDE DEF b, d, calls
  <2>3. m \in 1..Len(b) /\ d + m = x /\ x \in Nat
    <3>1. d < x /\ x <= d + Len(b) /\ x \in Nat
      BY <1>3, <2>1, <2>2 DEF d
    <3> QED BY <2>2, <3>1
  <2> HIDE DEF m
  <2>14. /\ m \in Nat /\ 1 <= m /\ m <= Len(b) /\ Len(b) \in Nat /\ d \in Nat /\ x \in Nat
         /\ d + m = x
    BY <2>2, <2>3
  <2>4. F[x] = b[m]
    BY <2>2, <2>3
  <2>5. /\ b[m].run = run /\ b[m].phase \notin {"setup", "report"}
        /\ m = 1 => b[m].call = "enter"
        /\ m = Len(b) => b[m].call = "leave"
        /\ 1 < m /\ m < Len(b) => b[m].call \in calls
    BY <2>2, <2>3 DEF IsBlock
  <2>6. calls \in SUBSET Carried /\ "enter" \notin Carried /\ "leave" \notin Carried
        /\ "enter" # "leave" /\ "reveal" # "enter" /\ "reveal" # "leave"
    BY DEF calls, Carried, Plain
  <2>7. m = 1 \/ m = Len(b) \/ (1 < m /\ m < Len(b))
    BY <2>14
  <2>8. F[x].call \in Carried \cup {"enter", "leave"}
    BY <2>4, <2>5, <2>6, <2>7
  <2>9. F[x].call = "enter" <=> m = 1
    BY <2>2, <2>4, <2>5, <2>6, <2>7
  <2>10. m = 1 => x = 1 \/ F[x - 1].call = "leave"
    <3>1. SUFFICES ASSUME m = 1, x # 1 PROVE F[x - 1].call = "leave"
      OBVIOUS
    <3>2. x - 1 = d /\ d # 0
      BY <2>14, <3>1
    <3>3. n # 1
      BY <1>3, <3>2 DEF d
    <3>4. n - 1 \in 1..N /\ (n - 1) - 1 \in 0..N
      BY <1>3, <3>3
    <3> DEFINE p == q[n - 1]
    <3>5. /\ Len(p) \in Nat /\ Len(p) >= 2 /\ d = L[(n - 1) - 1] + Len(p)
          /\ \A i \in 1..Len(p) : F[L[(n - 1) - 1] + i] = p[i]
      BY <1>4, <3>4 DEF d
    <3>6. \E c : IsBlock(p, run, c)
      BY <1>4, <3>4
    <3> HIDE DEF p
    <3>7. Len(p) \in 1..Len(p)
      BY <3>5
    <3>8. F[d] = p[Len(p)] /\ p[Len(p)].call = "leave"
      BY <3>5, <3>6, <3>7 DEF IsBlock
    <3> QED BY <3>2, <3>8
  <2>11. m # 1 => x # 1 /\ F[x - 1].call \in Carried \cup {"enter"}
    <3>1. SUFFICES ASSUME m # 1 PROVE x # 1 /\ F[x - 1].call \in Carried \cup {"enter"}
      OBVIOUS
    <3>2. m - 1 \in 1..Len(b) /\ d + (m - 1) = x - 1 /\ m - 1 # Len(b) /\ x # 1
      BY <2>14, <3>1
    <3>3. F[x - 1] = b[m - 1]
      <4>1. F[d + (m - 1)] = b[m - 1]
        BY <2>2, <3>2
      <4> QED BY <3>2, <4>1
    <3>4. /\ m - 1 = 1 => b[m - 1].call = "enter"
          /\ 1 < m - 1 /\ m - 1 < Len(b) => b[m - 1].call \in calls
      BY <2>2, <3>2 DEF IsBlock
    <3>5. m - 1 = 1 \/ (1 < m - 1 /\ m - 1 < Len(b))
      BY <2>14, <3>1
    <3> QED BY <2>6, <3>2, <3>3, <3>4, <3>5
  <2>12. x = Len(F) => F[x].call = "leave"
    <3>1. SUFFICES ASSUME x = Len(F) PROVE m = Len(b)
      BY <2>4, <2>5
    <3> QED BY <2>2, <2>3, <3>1
  <2>13. F[x].call = "reveal" <=> Len(F) - K + 1 < x /\ x < Len(F)
    <3>1. CASE n = N
      <4>1. d = Len(F) - K /\ Len(b) = K
        BY <1>6, <3>1 DEF d, b, K
      <4>2. F[x].call = "reveal" <=> 1 < m /\ m < Len(b)
        <5>1. calls = {"reveal"}
          BY <3>1 DEF calls
        <5> QED BY <2>2, <2>4, <2>5, <2>6, <2>7, <5>1
      <4>3. 1 < m /\ m < Len(b) <=> Len(F) - K + 1 < x /\ x < Len(F)
        BY <1>3, <1>6, <2>2, <2>3, <4>1
      <4> QED BY <4>2, <4>3
    <3>2. CASE n # N
      <4>1. n \in 0..N /\ N - 1 \in 0..N /\ n <= N - 1
        BY <1>3, <3>2
      <4>2. L[n] <= Len(F) - K
        BY <1>6, <1>7, <4>1
      <4>3. x <= Len(F) - K
        <5>1. x <= L[n] /\ L[n] \in Nat /\ Len(F) - K \in Int
          <6>1. L[n] \in Nat
            BY <1>4
          <6>2. Len(F) - K \in Int
            BY <1>3, <1>6
          <6> QED BY <2>1, <6>1, <6>2
        <5> QED BY <2>14, <4>2, <5>1
      <4>4. "reveal" \notin Plain /\ calls = Plain
        BY <3>2 DEF calls, Plain
      <4>5. F[x].call # "reveal"
        BY <2>4, <2>5, <2>6, <2>7, <4>4
      <4>6. ~(Len(F) - K + 1 < x)
        <5>1. Len(F) \in Nat /\ K \in Nat /\ x \in Nat
          BY <1>3, <1>6, <2>14
        <5> QED BY <4>3, <5>1
      <4> QED BY <4>5, <4>6
    <3> QED BY <3>1, <3>2
  <2> QED BY <2>4, <2>5, <2>8, <2>9, <2>10, <2>11, <2>12, <2>13
<1> QED BY <1>1, <1>6, <1>8 DEF F, K
-----------------------------------------------------------------------------
(***************************************************************************)
(* One sequence after another.                                             *)
(***************************************************************************)
LEMMA StepsJoined ==
  ASSUME NEW a \in Seq(AllSteps), NEW b \in Seq(AllSteps)
  PROVE  /\ a \o b \in Seq(AllSteps) /\ Len(a) \in Nat /\ Len(b) \in Nat
         /\ Len(a \o b) = Len(a) + Len(b)
         /\ \A n \in 1..Len(a) : (a \o b)[n] = a[n]
         /\ \A n \in 1..Len(b) : (a \o b)[Len(a) + n] = b[n]
OBVIOUS

(***************************************************************************)
(* A run of run_one has the shape of a run.                                *)
(***************************************************************************)
LEMMA RunOneIsRun ==
  ASSUME NEW run \in Runs
  PROVE  LET s == RunOne(run, Sync.server)
         IN  s \in Seq(AllSteps) /\ IsSweep(s)
<1> DEFINE blocks == Pipeline(run.algorithm, AtMost(MaxCubes, run.cubes),
                              AtMost(MaxTrials, run.k), run.width)
           setup == <<"generate", "pepin", "ping", "pong", "start">>
           S == StepsOf(run, setup, "setup")
           q == [n \in DOMAIN blocks |-> BlockSteps(run, blocks[n])]
           F == FlattenSeq(q)
           R == StepsOf(run, <<"report">>, "report")
           s == RunOne(run, Sync.server)
<1>1. run.width \in 0..128 /\ run.width \in Nat
      /\ AtMost(MaxCubes, run.cubes) \in Nat /\ AtMost(MaxTrials, run.k) \in Nat
  BY RunWidths, TurnsAssumption DEF AtMost
<1>2. s = S \o F \o R
  <2>1. Sync.server = <<"ping", "pong">>
    BY DEF Sync
  <2>2. setup = <<"generate", "pepin">> \o Sync.server \o <<"start">>
    BY <2>1
  <2> QED BY <2>2 DEF RunOne, StepsOf, BlockSteps
<1>3. PICK front \in Seq(BlocksOf(Plain)), c \in Seq({"reveal"}) :
         Len(c) = Slices(run.width) /\ blocks = front \o <<Block("reveal", c)>>
  BY <1>1, PipelineBlocks
<1> HIDE DEF blocks
<1>4. q \in Seq(Seq(AllSteps)) /\ Len(q) >= 1
      /\ (\A n \in 1 .. Len(q) - 1 : IsBlock(q[n], run, Plain))
      /\ IsBlock(q[Len(q)], run, {"reveal"})
      /\ Len(q[Len(q)]) = Slices(run.width) + 2
  <2> DEFINE N == Len(front) + 1
  <2>1. /\ N \in Nat /\ N >= 1 /\ DOMAIN blocks = 1..N /\ N - 1 = Len(front)
        /\ blocks[N] = Block("reveal", c)
        /\ \A n \in 1 .. N - 1 : blocks[n] = front[n] /\ front[n] \in BlocksOf(Plain)
    BY <1>3
  <2> HIDE DEF N
  <2>2. q = [n \in 1..N |-> BlockSteps(run, blocks[n])]
    BY <2>1
  <2> HIDE DEF q
  <2>3. \A n \in 1..N : q[n] = BlockSteps(run, blocks[n])
    BY <2>2
  <2>4. ASSUME NEW n \in 1 .. N - 1 PROVE IsBlock(q[n], run, Plain)
    <3>1. PICK phase \in PhaseNames, calls \in Seq(Plain) : blocks[n] = Block(phase, calls)
      BY <2>1 DEF BlocksOf
    <3>2. Plain \in SUBSET Carried /\ n \in 1..N
      BY <2>1 DEF Plain, Carried
    <3> QED BY <2>3, <3>1, <3>2, BlockIsBlock
  <2>5. IsBlock(q[N], run, {"reveal"}) /\ Len(q[N]) = Slices(run.width) + 2
    <3>1. {"reveal"} \in SUBSET Carried /\ N \in 1..N /\ "reveal" \in PhaseNames
      BY <2>1 DEF Carried, PhaseNames
    <3>2. q[N] = BlockSteps(run, Block("reveal", c))
      BY <2>1, <2>3, <3>1
    <3> QED BY <1>3, <3>1, <3>2, BlockIsBlock
  <2>6. \A n \in 1..N : q[n] \in Seq(AllSteps)
    <3>1. \A n \in 1..N : n \in 1 .. N - 1 \/ n = N
      BY <2>1
    <3> QED BY <2>4, <2>5, <3>1 DEF IsBlock
  <2>7. q \in Seq(Seq(AllSteps)) /\ Len(q) = N
    BY <2>1, <2>2, <2>6
  <2> QED BY <2>1, <2>4, <2>5, <2>7
<1> HIDE DEF q, F
<1> DEFINE K == Slices(run.width) + 2
<1>5. /\ F \in Seq(AllSteps) /\ K \in Nat /\ 2 <= K /\ K <= Len(F)
      /\ \A x \in 1..Len(F) :
            /\ F[x].run = run /\ F[x].phase \notin {"setup", "report"}
            /\ F[x].call \in Carried \cup {"enter", "leave"}
            /\ F[x].call = "enter" => x = 1 \/ F[x - 1].call = "leave"
            /\ F[x].call # "enter"
                 => x # 1 /\ F[x - 1].call \in Carried \cup {"enter"}
            /\ x = Len(F) => F[x].call = "leave"
            /\ F[x].call = "reveal" <=> Len(F) - K + 1 < x /\ x < Len(F)
  <2> DEFINE L == Len(q[Len(q)])
  <2>1. K = L
    BY <1>4
  <2>2. /\ F \in Seq(AllSteps) /\ L \in Nat /\ 2 <= L /\ L <= Len(F)
        /\ \A x \in 1..Len(F) :
              /\ F[x].run = run /\ F[x].phase \notin {"setup", "report"}
              /\ F[x].call \in Carried \cup {"enter", "leave"}
              /\ F[x].call = "enter" => x = 1 \/ F[x - 1].call = "leave"
              /\ F[x].call # "enter"
                   => x # 1 /\ F[x - 1].call \in Carried \cup {"enter"}
              /\ x = Len(F) => F[x].call = "leave"
              /\ F[x].call = "reveal" <=> Len(F) - L + 1 < x /\ x < Len(F)
    BY <1>4, BlocksLaid DEF F
  <2> HIDE DEF K, L
  <2> QED BY <2>1, <2>2
<1>6. /\ S \in Seq(AllSteps) /\ Len(S) = 5
      /\ S[1].call = "generate" /\ S[2].call = "pepin" /\ S[3].call = "ping"
      /\ S[4].call = "pong" /\ S[5].call = "start"
      /\ \A n \in 1..5 : S[n].phase = "setup" /\ S[n].run = run
  <2>1. setup \in Seq(CallNames) /\ Len(setup) = 5
    BY DEF CallNames, Local
  <2>2. "setup" \in PhaseNames \cup {"setup", "report"}
    OBVIOUS
  <2>3. /\ setup[1] = "generate" /\ setup[2] = "pepin" /\ setup[3] = "ping"
        /\ setup[4] = "pong" /\ setup[5] = "start"
    OBVIOUS
  <2> HIDE DEF setup, S
  <2>4. /\ S \in Seq(AllSteps) /\ Len(S) = Len(setup)
        /\ \A n \in 1..Len(setup) :
              S[n].call = setup[n] /\ S[n].phase = "setup" /\ S[n].run = run
    <3> DEFINE phase == "setup"
    <3>1. phase \in PhaseNames \cup {"setup", "report"}
      BY <2>2
    <3>2. S = StepsOf(run, setup, phase)
      BY DEF S
    <3> HIDE DEF phase
    <3>3. /\ S \in Seq(AllSteps) /\ Len(S) = Len(setup)
          /\ \A n \in 1..Len(setup) :
                S[n].call = setup[n] /\ S[n].phase = phase /\ S[n].run = run
      <4>1. setup \in Seq(CallNames)
        BY <2>1
      <4> DEFINE t == StepsOf(run, setup, phase)
      <4>2. /\ t \in Seq(AllSteps) /\ Len(t) = Len(setup)
            /\ \A n \in 1..Len(setup) :
                  t[n].call = setup[n] /\ t[n].phase = phase /\ t[n].run = run
        BY <3>1, <4>1, StepsType
      <4>3. S = t
        BY <3>2
      <4> HIDE DEF t
      <4> QED BY <4>2, <4>3
    <3> QED BY <3>3 DEF phase
  <2>5. 1 \in 1..5 /\ 2 \in 1..5 /\ 3 \in 1..5 /\ 4 \in 1..5 /\ 5 \in 1..5
    OBVIOUS
  <2> QED BY <2>1, <2>3, <2>4, <2>5
<1>7. /\ R \in Seq(AllSteps) /\ Len(R) = 1
      /\ R[1].call = "report" /\ R[1].phase = "report" /\ R[1].run = run
  <2> DEFINE r == <<"report">>
  <2>1. r \in Seq(CallNames) /\ Len(r) = 1 /\ r[1] = "report"
    BY DEF CallNames, Local
  <2>2. "report" \in PhaseNames \cup {"setup", "report"} /\ 1 \in 1..1
    OBVIOUS
  <2> HIDE DEF r, R
  <2>3. /\ R \in Seq(AllSteps) /\ Len(R) = Len(r)
        /\ \A n \in 1..Len(r) :
              R[n].call = r[n] /\ R[n].phase = "report" /\ R[n].run = run
    BY <2>1, <2>2, StepsType DEF R, r
  <2> QED BY <2>1, <2>2, <2>3
<1> HIDE DEF S, R, K
<1> DEFINE e == Len(F) + 6
           r == Len(F) + 6 - K
<1>8. /\ s \in Seq(AllSteps) /\ Len(s) = e /\ Len(F) \in Nat
      /\ \A n \in 1..5 : s[n] = S[n]
      /\ \A x \in 1..Len(F) : s[5 + x] = F[x]
      /\ s[e] = R[1]
  <2> HIDE DEF s
  <2> DEFINE u == S \o F
  <2>1. /\ u \in Seq(AllSteps) /\ Len(u) = 5 + Len(F) /\ Len(F) \in Nat
        /\ \A n \in 1..5 : u[n] = S[n]
        /\ \A x \in 1..Len(F) : u[5 + x] = F[x]
    <3>1. /\ u \in Seq(AllSteps) /\ Len(F) \in Nat /\ Len(u) = Len(S) + Len(F)
          /\ \A n \in 1..Len(S) : u[n] = S[n]
          /\ \A n \in 1..Len(F) : u[Len(S) + n] = F[n]
      <4>1. S \in Seq(AllSteps) /\ F \in Seq(AllSteps)
        BY <1>5, <1>6
      <4> QED BY <4>1, StepsJoined
    <3> HIDE DEF u
    <3> QED BY <1>6, <3>1
  <2> HIDE DEF u
  <2>2. s = u \o R
    BY <1>2 DEF u
  <2>3. /\ s \in Seq(AllSteps) /\ Len(s) = Len(u) + 1
        /\ \A n \in 1..Len(u) : s[n] = u[n]
        /\ s[Len(u) + 1] = R[1]
    <3>1. /\ s \in Seq(AllSteps) /\ Len(s) = Len(u) + Len(R)
          /\ \A n \in 1..Len(u) : s[n] = u[n]
          /\ \A n \in 1..Len(R) : s[Len(u) + n] = R[n]
      <4>1. u \in Seq(AllSteps) /\ R \in Seq(AllSteps)
        BY <1>7, <2>1
      <4> QED BY <2>2, <4>1, StepsJoined
    <3>2. 1 \in 1..Len(R)
      BY <1>7
    <3> QED BY <1>7, <3>1, <3>2
  <2>4. \A n \in 1..5 : n \in 1..Len(u)
    BY <2>1
  <2>5. \A x \in 1..Len(F) : 5 + x \in 1..Len(u)
    BY <2>1
  <2> QED BY <2>1, <2>3, <2>4, <2>5
<1> HIDE DEF s
<1>9. e \in Nat /\ r \in Nat /\ 6 <= r /\ r < e /\ K = e - r
  BY <1>5, <1>8
<1>10. e = Len(F) + 6 /\ r + K = Len(F) + 6
  BY <1>5, <1>8
<1> HIDE DEF e, r
<1>11. ASSUME NEW n \in 6 .. e - 1
       PROVE  n - 5 \in 1..Len(F) /\ s[n] = F[n - 5]
  <2>1. n - 5 \in 1..Len(F) /\ 5 + (n - 5) = n
    BY <1>8, <1>10
  <2>2. s[5 + (n - 5)] = F[n - 5]
    BY <1>8, <2>1
  <2> QED BY <2>1, <2>2
<1>12. s[1] = S[1] /\ s[2] = S[2] /\ s[3] = S[3] /\ s[4] = S[4] /\ s[5] = S[5]
  BY <1>8
<1>13. \A n \in 1..e : s[n].run = s[1].run /\ s[n].run = run
  <2>1. \A n \in 1..e : s[n].run = run
    <3>1. \A n \in 1..e : n \in 1..5 \/ n \in 6 .. e - 1 \/ n = e
      BY <1>9
    <3>2. \A n \in 1..5 : s[n].run = run
      BY <1>6, <1>8
    <3>3. \A n \in 6 .. e - 1 : s[n].run = run
      BY <1>5, <1>11
    <3>4. s[e].run = run
      BY <1>7, <1>8
    <3> QED BY <3>1, <3>2, <3>3, <3>4
  <2>2. 1 \in 1..e
    BY <1>9
  <2> QED BY <2>1, <2>2
<1>14. IsSetup(s, 1)
  <2>1. /\ s[1].call = "generate" /\ s[1 + 1].call = "pepin" /\ s[1 + 2].call = "ping"
        /\ s[1 + 3].call = "pong" /\ s[1 + 4].call = "start"
    BY <1>6, <1>12
  <2>2. \A n \in 1 .. 1 + 4 : s[n].phase = "setup"
    BY <1>6, <1>8
  <2> QED BY <2>1, <2>2 DEF IsSetup
<1>15. IsTimed(s, 1, e)
  <2>1. ASSUME NEW n \in 6 .. e - 1
        PROVE  /\ s[n].call \in Carried \cup {"enter", "leave"}
               /\ s[n].phase \notin {"setup", "report"}
    BY <1>5, <1>11
  <2>2. ASSUME NEW n \in 6..e
        PROVE  IF s[n].call \in {"enter", "report"}
               THEN Outside(s[n - 1].call)
               ELSE s[n - 1].call \in Carried \cup {"enter"}
    <3>1. CASE n = e
      <4>1. s[n].call = "report"
        BY <1>7, <1>8, <3>1
      <4>2. n - 1 \in 6 .. e - 1 /\ (n - 1) - 5 = Len(F) /\ Len(F) \in 1..Len(F)
        BY <1>5, <1>8, <1>9, <1>10, <3>1
      <4>3. s[n - 1] = F[Len(F)]
        BY <1>11, <4>2
      <4>4. s[n - 1].call = "leave"
        BY <1>5, <4>2, <4>3
      <4> QED BY <4>1, <4>4 DEF Outside
    <3>2. CASE n = 6
      <4>1. n \in 6 .. e - 1 /\ n - 5 = 1 /\ n - 1 = 5
        BY <1>9, <3>2
      <4>2. s[n] = F[1] /\ 1 \in 1..Len(F)
        BY <1>11, <4>1
      <4>3. s[n].call = "enter"
        BY <1>5, <4>2
      <4>4. s[n - 1].call = "start"
        BY <1>6, <1>12, <4>1
      <4> QED BY <4>3, <4>4 DEF Outside
    <3>3. CASE n # e /\ n # 6
      <4>1. n \in 6 .. e - 1 /\ n - 1 \in 6 .. e - 1 /\ (n - 1) - 5 = (n - 5) - 1
            /\ n - 5 # 1
        BY <1>9, <3>3
      <4> DEFINE x == n - 5
      <4>2. s[n] = F[x] /\ s[n - 1] = F[x - 1] /\ x \in 1..Len(F) /\ x # 1
        BY <1>11, <4>1
      <4> HIDE DEF x
      <4>3. s[n].call # "report"
        BY <2>1, <4>1 DEF Carried
      <4> QED BY <1>5, <4>2, <4>3 DEF Outside
    <3> QED BY <3>1, <3>2, <3>3
  <2>3. /\ \A n \in 1 + 5 .. e - 1 :
              /\ s[n].call \in Carried \cup {"enter", "leave"}
              /\ s[n].phase \notin {"setup", "report"}
        /\ \A n \in 1 + 5 .. e :
              IF s[n].call \in {"enter", "report"}
              THEN Outside(s[n - 1].call)
              ELSE s[n - 1].call \in Carried \cup {"enter"}
    BY <2>1, <2>2
  <2> QED BY <2>3 DEF IsTimed
<1>16. IsRevealed(s, 1, r, e)
  <2>1. Width(s, 1) = run.width
    <3>1. 1 \in 1..e
      BY <1>9
    <3> QED BY <1>13, <3>1 DEF Width
  <2>2. K = Slices(run.width) + 2 /\ Slices(run.width) \in Nat
    BY <1>1, SlicesType DEF K
  <2>3. ASSUME NEW n \in 6 .. e - 1
        PROVE  s[n].call = "reveal" <=> r < n /\ n <= r + Slices(run.width)
    <3>1. n - 5 \in 1..Len(F) /\ s[n] = F[n - 5]
      BY <1>11
    <3>2. F[n - 5].call = "reveal" <=> Len(F) - K + 1 < n - 5 /\ n - 5 < Len(F)
      BY <1>5, <3>1
    <3>3. Len(F) - K + 1 < n - 5 /\ n - 5 < Len(F) <=> r < n /\ n <= r + Slices(run.width)
      <4> DEFINE l == Len(F)
                 x == Slices(run.width)
      <4>1. l \in Nat /\ K \in Nat /\ r \in Nat /\ n \in Nat /\ r + K = l + 6
            /\ K = x + 2 /\ x \in Nat
        BY <1>5, <1>8, <1>9, <1>10, <2>2
      <4> HIDE DEF l, x, K
      <4> QED BY <4>1 DEF l, x
    <3> QED BY <3>1, <3>2, <3>3
  <2>4. r + Slices(run.width) + 2 = e
    BY <1>9, <1>10, <2>2
  <2> DEFINE w == run.width
  <2>5. Width(s, 1) = w /\ w \in 0..128
    BY <1>1, <2>1
  <2>6. r + Slices(w) + 2 = e
        /\ \A n \in 1 + 5 .. e - 1 : s[n].call = "reveal" <=> r < n /\ n <= r + Slices(w)
    BY <2>3, <2>4
  <2> HIDE DEF w
  <2> QED BY <2>5, <2>6 DEF IsRevealed
<1>17. IsRun(s, 1, r, e)
  <2>1. s[e].call = "report" /\ s[e].phase = "report"
    BY <1>7, <1>8
  <2>2. 1 \in Nat /\ 1 <= 1 /\ 1 + 5 <= r /\ e <= Len(s)
    BY <1>8, <1>9
  <2> QED BY <1>9, <1>13, <1>14, <1>15, <1>16, <2>1, <2>2 DEF IsRun
<1>18. IsSweep(s)
  <2>1. Len(s) \in Nat /\ \A n \in 1..Len(s) : n \in 1..e
    BY <1>8, <1>9
  <2>2. 1 \in Nat
    OBVIOUS
  <2> QED BY <1>9, <1>17, <2>1, <2>2 DEF IsSweep
<1> QED BY <1>8, <1>18 DEF s

(***************************************************************************)
(* The program of bench_compare is such a sweep, for every list of points  *)
(* of at most 64 variables and cubes, and the parties' programs are the    *)
(* same: so what was proved above holds of it.                             *)
(***************************************************************************)
THEOREM ProgramIsSweep ==
  ASSUME NEW points \in Seq(Sizes \X Sizes),
         Script = SweepScript(points, ALICE, BOB)
  PROVE  BothSweep
<1> DEFINE q == [n \in DOMAIN points |-> RunBoth(points[n], Sync.server)]
           s == SweepCallsOf(points, Sync.server)
<1>1. Script[ALICE] = s /\ Script[BOB] = s
  <2>1. Sync.client = Sync.server
    BY DEF Sync
  <2>2. Script[ALICE] = s /\ Script[BOB] = SweepCallsOf(points, Sync.client)
    BY PartiesDiffer DEF SweepScript
  <2> QED BY <2>1, <2>2
<1>2. ASSUME NEW n \in 1..Len(points)
      PROVE  RunBoth(points[n], Sync.server) \in Seq(AllSteps)
             /\ IsSweep(RunBoth(points[n], Sync.server))
  <2> DEFINE v == Run("vazirani", points[n][1], points[n][2])
             k == Run("karp_luby", points[n][1], points[n][2])
  <2>1. points[n] \in Sizes \X Sizes
    OBVIOUS
  <2>2. v \in Runs /\ k \in Runs
    BY <2>1 DEF Runs
  <2> HIDE DEF v, k
  <2>3. /\ RunOne(v, Sync.server) \in Seq(AllSteps) /\ IsSweep(RunOne(v, Sync.server))
        /\ RunOne(k, Sync.server) \in Seq(AllSteps) /\ IsSweep(RunOne(k, Sync.server))
    BY <2>2, RunOneIsRun
  <2>4. RunBoth(points[n], Sync.server) = RunOne(v, Sync.server) \o RunOne(k, Sync.server)
    BY DEF RunBoth, v, k
  <2> QED BY <2>3, <2>4, SweepsFollow
<1>3. q \in Seq(Seq(AllSteps)) /\ Len(q) = Len(points)
      /\ \A n \in 1..Len(q) : IsSweep(q[n])
  <2>1. q = [n \in 1..Len(points) |-> RunBoth(points[n], Sync.server)] /\ Len(points) \in Nat
    OBVIOUS
  <2> HIDE DEF q
  <2> QED BY <1>2, <2>1
<1>4. s = FlattenSeq(q)
  BY DEF SweepCallsOf
<1> HIDE DEF q
<1>5. IsSweep(s)
  BY <1>3, <1>4, SweepsFlatten
<1> QED BY <1>1, <1>5 DEF BothSweep

(***************************************************************************)
(* All of the sweep's safety, of bench_compare itself: whatever its points,*)
(* its arguments and the size of the channels, a report is typed, timed,   *)
(* summed up, revealed and compared as it should be.                       *)
(***************************************************************************)
THEOREM BenchCompareIsSafe ==
  ASSUME NEW points \in Seq(Sizes \X Sizes),
         Script = SweepScript(points, ALICE, BOB)
  PROVE  Spec => [](/\ TypeOK /\ SetupIsNotTimed /\ WholeEstimateRevealed
                    /\ BytesAddUp /\ TruthIsOfTheInputs)
<1>1. BothSweep
  BY ProgramIsSweep
<1>2. Spec => []TypeOK
  BY <1>1, SweepTypeCorrect
<1>3. Spec => []SetupIsNotTimed
  BY <1>1, SetupStaysOut
<1>4. Spec => []WholeEstimateRevealed
  BY <1>1, WholeEstimate
<1>5. Spec => []BytesAddUp
  BY <1>1, PhasesAddUp
<1>6. Spec => []TruthIsOfTheInputs
  BY <1>1, TruthOfInputs
<1> QED BY <1>2, <1>3, <1>4, <1>5, <1>6, PTL

(***************************************************************************)
(* And that it comes to an end: bench_compare's processes make at most     *)
(* LinkBound steps, each of them nearer to the end, and while none of them *)
(* was refused its arguments some step can be made until both have         *)
(* finished.                                                               *)
(***************************************************************************)
THEOREM BenchCompareEnds ==
  ASSUME NEW points \in Seq(Sizes \X Sizes),
         Script = SweepScript(points, ALICE, BOB)
  PROVE  Spec => /\ []((\A p \in Party : ready[p])
                        => SweepGoesOn \/ \A p \in Party : proc[p] = "finished")
                 /\ [](LinkAdvance \in 0..LinkBound)
                 /\ [][LinkAdvance' > LinkAdvance]_vars
<1>1. BothSweep
  BY ProgramIsSweep
<1>2. Spec => [](/\ ~SweepGoesOn
                    <=> OneRefused \/ \A p \in Party : proc[p] \in {"finished", "failed"}
                 /\ ~SweepGoesOn /\ (\A p \in Party : ready[p])
                    => \A p \in Party : proc[p] = "finished")
  BY <1>1, SweepStopsAtEnd
<1>3. Spec => [](LinkAdvance \in 0..LinkBound) /\ [][LinkAdvance' > LinkAdvance]_vars
  BY <1>1, SweepIsBounded
<1> QED BY <1>2, <1>3, PTL
=============================================================================
