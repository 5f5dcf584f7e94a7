----------------------------- MODULE BenchSweep -----------------------------
(***************************************************************************)
(* bench_compare, started by hand once as each party: what run_one         *)
(* generates, counts and reports around the pipelines, and how much of the *)
(* stack the process may use.                                              *)
(*                                                                         *)
(* The byte counters of the connection count messages here.  A generated   *)
(* DNF is named by what determines it.                                     *)
(***************************************************************************)
EXTENDS PartyLink, FiniteSetsExt

CONSTANTS
    Args,           \* the max_overlap and seed that a party may be given
    StackLimits     \* the limits that the two may be started with, in MiB

(***************************************************************************)
(* A process is never started with a soft limit above the hard one.        *)
(***************************************************************************)
ASSUME LimitsAssumption ==
    \A limits \in StackLimits :
        /\ limits \in [Party -> [soft : Nat, hard : Nat]]
        /\ \A p \in Party : limits[p].soft <= limits[p].hard

VARIABLES
    args,       \* the party's max_overlap and seed
    stack,      \* its limits on the stack, [soft, hard]
    pair,       \* the pair it has generated for the current run
    truth,      \* what pepin's check of the pair has returned
    counters,   \* messages sent and received: send_counter, recv_counter
    mark,       \* the counters when the clock was started
    from,       \* the counters when the current phase was entered
    breakdown,  \* the counts by phase
    slices,     \* the slices of the estimate that were revealed
    reports     \* what it has printed, run by run

benchVars == <<args, stack, pair, truth, counters, mark, from, breakdown, slices, reports>>
vars == <<linkVars, benchVars>>

NoCount == [sent |-> 0, recv |-> 0]
Less(c, d) == [sent |-> c.sent - d.sent, recv |-> c.recv - d.recv]
Plus(c, d) == [sent |-> c.sent + d.sent, recv |-> c.recv + d.recv]

Each(x) == [p \in Party |-> x]

(***************************************************************************)
(* What run_pepin_sanity_check may return for a pair: nothing, if a call   *)
(* of it to the system has failed; else a count, which is of the whole     *)
(* intersection unless the file that pepin read had been cut short.  These *)
(* are GroundTruth's results, told by the pair that they are about.        *)
(***************************************************************************)
nullopt == [kind |-> "nullopt"]
PepinResult(q, whole) == [kind |-> "count", of |-> q, whole |-> whole]
run_pepin_sanity_check(q) == {nullopt} \cup {PepinResult(q, whole) : whole \in BOOLEAN}

Init ==
    /\ LinkInit
    /\ args \in [Party -> Args]
    /\ stack \in StackLimits
    /\ pair = Each("none") /\ truth = Each(nullopt)
    /\ counters = Each(NoCount) /\ mark = Each(NoCount) /\ from = Each(NoCount)
    /\ breakdown = Each(<<>>) /\ slices = Each(<<>>) /\ reports = Each(<<>>)
-----------------------------------------------------------------------------
(***************************************************************************)
(* Mutant: the hard limit is not looked at.                                *)
(***************************************************************************)
raise_stack_limit_unchecked(limit) == [limit EXCEPT !.soft = 256]

raise_stack_limit(limit) ==
    [limit EXCEPT !.soft = IF limit.hard < 256 THEN limit.hard ELSE 256]

Start(p) ==
    /\ Launch(p)
    /\ stack' = [stack EXCEPT ![p] = raise_stack_limit(@)]
    /\ UNCHANGED <<args, pair, truth, counters, mark, from, breakdown, slices, reports>>

(***************************************************************************)
(* An argument that is no number ends the process; else the connection is  *)
(* opened, and closed at the end.                                          *)
(***************************************************************************)
Manage(p) ==
    /\ Fail(p) \/ Open(p) \/ Finish(p)
    /\ UNCHANGED benchVars
-----------------------------------------------------------------------------
(***************************************************************************)
(* The two halves that a party generates, of which it keeps its own.       *)
(***************************************************************************)
Shape(run) == <<run.vars, run.cubes>>
Generated(p, run) == [half \in Party |-> <<half, args[p], Shape(run)>>]

Generate(p) ==
    /\ Busy(p) /\ Step(p).call = "generate"
    /\ Complete(p)
    /\ pair' = [pair EXCEPT ![p] = Generated(p, Step(p).run)]
    /\ UNCHANGED <<args, stack, truth, counters, mark, from, breakdown, slices, reports>>

(***************************************************************************)
(* Mutant: the optional outlives the run, and one that comes back empty    *)
(* does not replace the one before.                                        *)
(***************************************************************************)
Pepin_keeps(p) ==
    /\ Busy(p) /\ Step(p).call = "pepin"
    /\ Complete(p)
    /\ \E answer \in run_pepin_sanity_check(pair[p]) :
          truth' = [truth EXCEPT ![p] = IF p # ALICE \/ answer = nullopt THEN @ ELSE answer]
    /\ UNCHANGED <<args, stack, pair, counters, mark, from, breakdown, slices, reports>>

(***************************************************************************)
(* Only ALICE runs pepin.                                                  *)
(***************************************************************************)
Answers(p) == IF p = ALICE THEN run_pepin_sanity_check(pair[p]) ELSE {nullopt}

Pepin(p) ==
    /\ Busy(p) /\ Step(p).call = "pepin"
    /\ Complete(p)
    /\ \E answer \in Answers(p) : truth' = [truth EXCEPT ![p] = answer]
    /\ UNCHANGED <<args, stack, pair, counters, mark, from, breakdown, slices, reports>>

StartClock(p) ==
    /\ Busy(p) /\ Step(p).call = "start"
    /\ Complete(p)
    /\ mark' = [mark EXCEPT ![p] = counters[p]]
    /\ breakdown' = [breakdown EXCEPT ![p] = <<>>]
    /\ slices' = [slices EXCEPT ![p] = <<>>]
    /\ UNCHANGED <<args, stack, pair, truth, counters, from, reports>>
-----------------------------------------------------------------------------
(***************************************************************************)
(* measure(): the counters before, and what they gained after.             *)
(***************************************************************************)
Enter(p) ==
    /\ Busy(p) /\ Step(p).call = "enter"
    /\ Complete(p)
    /\ from' = [from EXCEPT ![p] = counters[p]]
    /\ UNCHANGED <<args, stack, pair, truth, counters, mark, breakdown, slices, reports>>

(***************************************************************************)
(* Mutant: a phase that is entered again replaces its counts.              *)
(***************************************************************************)
add_replaces(phases, name, count) ==
    IF \E n \in DOMAIN phases : phases[n].name = name
    THEN LET n == CHOOSE m \in DOMAIN phases : phases[m].name = name
         IN  [phases EXCEPT ![n].count = count]
    ELSE Append(phases, [name |-> name, count |-> count])

add(phases, name, count) ==
    IF \E n \in DOMAIN phases : phases[n].name = name
    THEN LET n == CHOOSE m \in DOMAIN phases : phases[m].name = name
         IN  [phases EXCEPT ![n].count = Plus(@, count)]
    ELSE Append(phases, [name |-> name, count |-> count])

Leave(p) ==
    /\ Busy(p) /\ Step(p).call = "leave"
    /\ Complete(p)
    /\ breakdown' = [breakdown EXCEPT
           ![p] = add(@, Step(p).phase, Less(counters[p], from[p]))]
    /\ UNCHANGED <<args, stack, pair, truth, counters, mark, from, slices, reports>>

(***************************************************************************)
(* The calls that may send or receive.                                     *)
(***************************************************************************)
Local == {"generate", "pepin", "start", "enter", "leave", "report"}

Send(p) ==
    /\ Post(p)
    /\ counters' = [counters EXCEPT ![p].sent = @ + 1]
    /\ UNCHANGED <<args, stack, pair, truth, mark, from, breakdown, slices, reports>>

Received(p) == [counters EXCEPT ![p].recv = @ + IF Receives(p) THEN 1 ELSE 0]

Call(p) ==
    /\ Busy(p) /\ Step(p).call \notin Local \cup {"reveal"}
    /\ Complete(p)
    /\ counters' = Received(p)
    /\ UNCHANGED <<args, stack, pair, truth, mark, from, breakdown, slices, reports>>

(***************************************************************************)
(* reveal_wide: the next 64 bits, or those that are left; each slice is    *)
(* shifted to its place above the ones before it.                          *)
(***************************************************************************)
Reveal(p) ==
    LET low == 64 * Len(slices[p])
        left == Step(p).run.width - low
    IN  /\ Busy(p) /\ Step(p).call = "reveal"
        /\ Complete(p)
        /\ counters' = Received(p)
        /\ slices' = [slices EXCEPT
               ![p] = Append(@, low .. low + (IF left < 64 THEN left ELSE 64) - 1)]
        /\ UNCHANGED <<args, stack, pair, truth, mark, from, breakdown, reports>>
-----------------------------------------------------------------------------
Report(p) ==
    /\ Busy(p) /\ Step(p).call = "report"
    /\ Complete(p)
    /\ reports' = [reports EXCEPT
           ![p] = Append(@, [run |-> Step(p).run,
                             mine |-> pair[p][p], truth |-> truth[p],
                             estimate |-> slices[p],
                             total |-> Less(counters[p], mark[p]),
                             breakdown |-> breakdown[p]])]
    /\ UNCHANGED <<args, stack, pair, truth, counters, mark, from, breakdown, slices>>

Main(p) ==
    \/ Start(p) \/ Manage(p)
    \/ Generate(p) \/ Pepin(p) \/ StartClock(p)
    \/ Enter(p) \/ Leave(p) \/ Send(p) \/ Call(p) \/ Reveal(p)
    \/ Report(p)

Connect == Join /\ UNCHANGED benchVars

Next == Connect \/ \E p \in Party : Main(p)

(***************************************************************************)
(* Both processes are started and scheduled, and a connection that is both *)
(* listened for and tried comes about.                                     *)
(***************************************************************************)
Spec == Init /\ [][Next]_vars /\ WF_vars(Connect) /\ \A p \in Party : WF_vars(Main(p))
-----------------------------------------------------------------------------
(***************************************************************************)
(* The type invariant.                                                     *)
(***************************************************************************)
Count == [sent : Nat, recv : Nat]
TypeOK ==
    /\ LinkTypeOK
    /\ args \in [Party -> Args]
    /\ \A p \in Party : stack[p].soft <= stack[p].hard
    /\ counters \in [Party -> Count] /\ mark \in [Party -> Count]
    /\ from \in [Party -> Count]
    /\ \A p \in Party : \A n \in DOMAIN breakdown[p] : breakdown[p][n].count \in Count

(***************************************************************************)
(* While a party's clock runs it never waits for one that generates, runs  *)
(* pepin or prints, for this run or another: none of that is billed to the *)
(* protocol.                                                               *)
(***************************************************************************)
Timed(p) == Busy(p) /\ Step(p).phase \notin {"setup", "report"}
SetupIsNotTimed ==
    \A p \in Party :
        Timed(p) /\ Waits(p) =>
            /\ Busy(Peer(p))
            /\ Step(Peer(p)).call \notin {"generate", "pepin", "report"}

(***************************************************************************)
(* The phases of a run add up to its totals, whatever was sent before it,  *)
(* and what one party has sent in a phase the other has received in it.    *)
(***************************************************************************)
TotalOf(phases) ==
    LET upto[n \in 0 .. Len(phases)] ==
            IF n = 0 THEN NoCount ELSE Plus(upto[n - 1], phases[n].count)
    IN  upto[Len(phases)]
BothReported == 1 .. Min({Len(reports[p]) : p \in Party})
BytesAddUp ==
    /\ \A p \in Party : \A i \in DOMAIN reports[p] :
          TotalOf(reports[p][i].breakdown) = reports[p][i].total
    /\ \A i \in BothReported : \A p \in Party :
          LET mine == reports[p][i].breakdown
              theirs == reports[Peer(p)][i].breakdown
          IN  /\ Len(mine) = Len(theirs)
              /\ \A n \in DOMAIN mine :
                    /\ mine[n].name = theirs[n].name
                    /\ mine[n].count.sent = theirs[n].count.recv

(***************************************************************************)
(* Both parties get every bit of the result once, and it fits the 128 bits *)
(* that hold it, at every point of the sweep.                              *)
(***************************************************************************)
WholeEstimateRevealed ==
    \A p \in Party : \A i \in DOMAIN reports[p] :
        LET r == reports[p][i]
        IN  /\ UNION {r.estimate[k] : k \in DOMAIN r.estimate} = 0 .. r.run.width - 1
            /\ r.run.width <= 128

(***************************************************************************)
(* The ground truth printed with an estimate may be missing in any run,    *)
(* and may be a count of a part; but given the same arguments it is never  *)
(* about anything else than the halves that the two parties fed into that  *)
(* same run, whatever was answered in the runs before.                     *)
(***************************************************************************)
TruthIsOfTheInputs ==
    args[ALICE] = args[BOB] =>
        \A i \in BothReported :
            LET alice == reports[ALICE][i]
                bob == reports[BOB][i]
            IN  /\ alice.run = bob.run
                /\ alice.truth \in
                      run_pepin_sanity_check([p \in Party |-> reports[p][i].mine])
                /\ bob.truth = nullopt

(***************************************************************************)
(* If both parties are given good arguments, both come to the end of the   *)
(* sweep.                                                                  *)
(***************************************************************************)
SweepEnds ==
    (\A p \in Party : ready[p]) ~> (\A p \in Party : proc[p] = "finished")
=============================================================================
