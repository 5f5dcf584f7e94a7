----------------------- MODULE TwoPartySessionProofs -----------------------
(***************************************************************************)
(* The session, for every program and every size of the channels: the      *)
(* parties never wait for each other, no one has the estimate of a run in  *)
(* which a file was refused, and a session stops only at its end or after  *)
(* a refusal.  At the end, the demo's own program.                         *)
(*                                                                         *)
(* DnfCubesProofs gives sequences and widths; its cubes play no part here. *)
(***************************************************************************)
EXTENDS TwoPartySession, DemoCalls, PartyLinkProofs, DnfCubesProofs

(***************************************************************************)
(* What run.sh has started, and what it knows when it is done.             *)
(***************************************************************************)
ProcsOK ==
    /\ \A p \in Party : proc[p] # "absent" => built
    /\ shell = "sleep" => built
    /\ shell = "begin" => \A p \in Party : proc[p] = "absent"
    /\ shell = "sleep" => proc[ALICE] # "absent" /\ proc[BOB] = "absent"
    /\ shell = "wait" => \A p \in Party : proc[p] # "absent"
    /\ shell = "exited" /\ built => \A p \in Party : Exited(p)
    /\ shell = "exited" => status = IF built THEN ExitStatus(BOB) ELSE 1
    /\ shell = "exited" /\ status = 0 => \A p \in Party : proc[p] = "finished"

SessionInv == LinkOK /\ ProcsOK

(***************************************************************************)
(* No process runs at first.                                               *)
(***************************************************************************)
LEMMA SessionInit ==
  ASSUME SameCalls, Init
  PROVE  SessionInv
<1>1. \A p \in Party : proc[p] = "absent"
  BY DEF Init, LinkInit
<1>2. ProcsOK
  BY <1>1 DEF ProcsOK, Init
<1> QED BY <1>2, LinkStarts DEF SessionInv, Init

(***************************************************************************)
(* A step of the session is one of the connection, or leaves it alone.     *)
(***************************************************************************)
LEMMA SessionIsLink ==
  ASSUME [Next]_vars
  PROVE  [LinkNext]_linkVars
BY DEF Next, vars, NotBuilt, StartAlice, StartBob, Wait, Connect, Main, LinkNext, Party

(***************************************************************************)
(* The shell starts each process once, and waits for both.                 *)
(***************************************************************************)
LEMMA ProcsStep ==
  ASSUME SessionInv, [Next]_vars
  PROVE  ProcsOK'
<1> USE DEF SessionInv
<1>1. proc \in [Party -> {"absent", "starting", "opening", "running",
                          "finished", "failed"}]
  BY DEF LinkOK, LinkInv, PositionsOK
<1>2. CASE UNCHANGED vars
  BY <1>2 DEF vars, linkVars, sessionVars, ProcsOK, Exited, ExitStatus
<1>3. CASE NotBuilt
  BY <1>3 DEF NotBuilt, linkVars, ProcsOK, Exited
<1>4. CASE StartAlice
  <2>1. /\ shell = "begin" /\ built /\ shell' = "sleep" /\ built' = built
        /\ proc' = [proc EXCEPT ![ALICE] = "starting"] /\ ALICE \in Party
        /\ \A p \in Party : proc[p] = "absent"
    BY <1>4 DEF StartAlice, Launch, Party, ProcsOK
  <2>2. proc'[ALICE] # "absent" /\ proc'[BOB] = "absent"
    BY <1>1, <2>1, PartiesDiffer DEF Party
  <2> QED BY <2>1, <2>2 DEF ProcsOK
<1>5. CASE StartBob
  <2>1. /\ shell = "sleep" /\ built /\ shell' = "wait" /\ built' = built
        /\ proc' = [proc EXCEPT ![BOB] = "starting"] /\ BOB \in Party
    BY <1>5 DEF StartBob, Launch, Party, ProcsOK
  <2>2. proc[ALICE] # "absent"
    BY <1>5 DEF StartBob, ProcsOK
  <2>3. \A p \in Party : proc'[p] # "absent"
    BY <1>1, <2>1, <2>2 DEF Party
  <2> QED BY <2>1, <2>3 DEF ProcsOK
<1>6. ASSUME NEW p \in Party, NEW s \in {"opening", "running", "finished", "failed"},
             proc[p] \in {"starting", "opening", "running"}, proc' = [proc EXCEPT ![p] = s],
             UNCHANGED <<shell, built, status>>
      PROVE  ProcsOK'
  <2>1. built /\ shell # "begin"
    BY <1>6 DEF ProcsOK
  <2>2. shell # "exited" /\ (shell = "sleep" => p # BOB)
    BY <1>6, <2>1 DEF ProcsOK, Exited, Party
  <2>3. \A q \in Party : (proc'[q] = "absent" <=> proc[q] = "absent")
    BY <1>1, <1>6
  <2> QED BY <1>6, <2>1, <2>2, <2>3 DEF ProcsOK, Party
<1>7. CASE Wait
  <2>1. /\ UNCHANGED <<proc, built>> /\ shell' = "exited" /\ shell = "wait"
        /\ \A p \in Party : Exited(p)
    BY <1>7 DEF Wait, linkVars
  <2>2. status' = 0 => proc[BOB] = "finished"
    BY <1>1, <1>7, <2>1 DEF Wait, ExitStatus, Exited, Party
  <2>3. proc[BOB] = "finished" => proc[ALICE] = "finished"
    BY <1>1, <2>1, PartiesDiffer DEF LinkOK, JoinedOK, Joined, Exited, Party, Peer
  <2>4. \A p \in Party : Exited(p)'
    BY <2>1 DEF Exited
  <2>5. built /\ status' = ExitStatus(BOB)'
    BY <1>7 DEF Wait, linkVars, ExitStatus, ProcsOK, Party
  <2> QED BY <2>1, <2>2, <2>3, <2>4, <2>5 DEF ProcsOK, Party
<1>8. CASE Connect
  <2>1. /\ \A p \in Party : proc[p] = "opening" /\ proc'[p] = "running"
        /\ UNCHANGED <<shell, built, status>>
    BY <1>8 DEF Connect, Join, sessionVars
  <2>2. shell # "exited" /\ shell # "begin" /\ shell # "sleep" /\ built
    BY <2>1 DEF ProcsOK, Exited, Party
  <2> QED BY <2>1, <2>2 DEF ProcsOK
<1>9. ASSUME NEW p \in Party, Main(p)
      PROVE  ProcsOK'
  <2>1. UNCHANGED <<shell, built, status>>
    BY <1>9 DEF Main, sessionVars
  <2>2. CASE Post(p) \/ Complete(p)
    BY <2>1, <2>2 DEF Post, Complete, ProcsOK, Exited, ExitStatus
  <2>3. CASE Fail(p) \/ Open(p) \/ Finish(p)
    BY <1>6, <2>1, <2>3 DEF Fail, Open, Finish
  <2> QED BY <1>9, <2>2, <2>3 DEF Main, PartyStep
<1> QED BY <1>2, <1>3, <1>4, <1>5, <1>7, <1>8, <1>9 DEF Next
-----------------------------------------------------------------------------
(***************************************************************************)
(* The invariant of the session holds throughout, for any program that     *)
(* both parties share.                                                     *)
(***************************************************************************)
LEMMA SessionInvariant ==
  ASSUME SameCalls
  PROVE  Spec => []SessionInv
<1>1. SessionInv /\ [Next]_vars => SessionInv'
  BY SessionIsLink, LinkGoesOn, ProcsStep DEF SessionInv
<1> QED BY SessionInit, <1>1, PTL DEF Spec

(***************************************************************************)
(* The types of what the session adds to the connection.                   *)
(***************************************************************************)
SessionTypes ==
    /\ shell \in {"begin", "sleep", "wait", "exited"}
    /\ built \in BOOLEAN /\ status \in {0, 1}

(***************************************************************************)
(* Every step keeps the types of the session's variables.                  *)
(***************************************************************************)
LEMMA TypesStep ==
  ASSUME SessionTypes, [Next]_vars
  PROVE  SessionTypes'
BY DEF SessionTypes, Next, vars, sessionVars, NotBuilt, StartAlice, StartBob, Wait,
       Connect, Main, ExitStatus

(***************************************************************************)
(* So they hold throughout.                                                *)
(***************************************************************************)
LEMMA SessionTypesHold == Spec => []SessionTypes
<1>1. Init => SessionTypes
  BY DEF Init, SessionTypes
<1>2. SessionTypes /\ [Next]_vars => SessionTypes'
  BY TypesStep
<1> QED BY <1>1, <1>2, PTL DEF Spec
-----------------------------------------------------------------------------
(***************************************************************************)
(* Every variable has its type, no party is past the end of its program,   *)
(* and no channel holds more than fits.                                    *)
(***************************************************************************)
THEOREM SessionTypeCorrect ==
  ASSUME SameCalls
  PROVE  Spec => []TypeOK
<1>1. SessionInv /\ SessionTypes => TypeOK
  BY LinkTypes DEF SessionInv, SessionTypes, TypeOK
<1> QED BY <1>1, SessionTypesHold, SessionInvariant, PTL

(***************************************************************************)
(* What a call reads was sent by the peer's same call, for every program   *)
(* that both parties run and every size of the channels.                   *)
(***************************************************************************)
THEOREM CallsMatch ==
  ASSUME SameCalls
  PROVE  Spec => []MessagesMatchCalls
<1>1. SessionInv => MessagesMatchCalls
  BY MatchInvariant DEF SessionInv
<1> QED BY SessionInvariant, <1>1, PTL

(***************************************************************************)
(* The parties never wait for each other, nor for one that is through.     *)
(***************************************************************************)
THEOREM NoDeadlockWithinCalls ==
  ASSUME SameCalls
  PROVE  Spec => []NeverBothWait
<1>1. SessionInv => NeverBothWait
  BY WaitInvariant DEF SessionInv
<1> QED BY SessionInvariant, <1>1, PTL

(***************************************************************************)
(* run.sh returns 0 only when both parties printed the estimate.           *)
(***************************************************************************)
THEOREM SuccessIsJoint ==
  ASSUME SameCalls
  PROVE  Spec => []SuccessMeansBoth
<1>1. SessionInv => SuccessMeansBoth
  BY DEF SessionInv, ProcsOK, SuccessMeansBoth
<1> QED BY SessionInvariant, <1>1, PTL

(***************************************************************************)
(* The safety of the refinement: a step of the session is a step of        *)
(* JointEstimate or leaves what that sees alone, so no one learns the      *)
(* estimate when either file is bad.                                       *)
(***************************************************************************)
THEOREM SessionImplementsJoint ==
  ASSUME SameCalls
  PROVE  Spec => Joint!Safety
<1>1. Init => Joint!Init
  BY DEF Init, LinkInit, Joint!Init
<1>2. SessionInv /\ [Next]_vars => [Joint!Next]_<<[p \in Party |-> built /\ ready[p]],
                                                  {p \in Party : proc[p] = "finished"}>>
  <2> SUFFICES ASSUME SessionInv, [Next]_vars
               PROVE  [Joint!Next]_<<[p \in Party |-> built /\ ready[p]],
                                     {p \in Party : proc[p] = "finished"}>>
    OBVIOUS
  <2>1. proc \in [Party -> {"absent", "starting", "opening", "running",
                            "finished", "failed"}]
    BY DEF SessionInv, LinkOK, LinkInv, PositionsOK
  <2>2. built' = built /\ ready' = ready
    BY DEF Next, vars, linkVars, sessionVars, NotBuilt, StartAlice, StartBob, Wait, Launch,
           Connect, Join, Main, PartyStep, Fail, Open, Post, Complete, Finish
  <2>3. ASSUME NEW p \in Party, Finish(p) PROVE Joint!Learn(p)
    <3>1. proc[p] = "running" /\ proc' = [proc EXCEPT ![p] = "finished"]
      BY <2>3 DEF Finish
    <3>2. built /\ \A q \in Party : ready[q]
      BY <3>1, Peers DEF SessionInv, LinkOK, JoinedOK, ProcsOK, Joined
    <3> QED BY <2>1, <2>2, <3>1, <3>2 DEF Joint!Learn
  <2>4. ASSUME NEW p \in Party, Fail(p) \/ Open(p) \/ Launch(p)
        PROVE  {r \in Party : proc'[r] = "finished"} = {r \in Party : proc[r] = "finished"}
    BY <2>1, <2>4 DEF Fail, Open, Launch
  <2>5. ASSUME Join
        PROVE  {r \in Party : proc'[r] = "finished"} = {r \in Party : proc[r] = "finished"}
    BY <2>5 DEF Join
  <2>6. ASSUME proc' = proc
        PROVE  {r \in Party : proc'[r] = "finished"} = {r \in Party : proc[r] = "finished"}
    BY <2>6
  <2>7. \/ \E p \in Party : Finish(p)
        \/ {r \in Party : proc'[r] = "finished"} = {r \in Party : proc[r] = "finished"}
    BY <2>4, <2>5, <2>6
    DEF Next, vars, linkVars, NotBuilt, StartAlice, StartBob, Wait,
        Connect, Main, PartyStep, Post, Complete, Party
  <2> QED BY <2>2, <2>3, <2>7 DEF Joint!Next
<1> QED BY SessionInvariant, <1>1, <1>2, PTL DEF Spec, Joint!Safety
-----------------------------------------------------------------------------
(***************************************************************************)
(* When the shell, the connection or a process may make a step.  That one  *)
(* of the guards holds is what ENABLED says of Next, in the form that can  *)
(* be proved about.                                                        *)
(***************************************************************************)
MayStartAlice == shell = "begin" /\ built /\ proc[ALICE] = "absent"
MayStartBob == shell = "sleep" /\ proc[BOB] = "absent"
MayWait == shell = "wait" /\ \A p \in Party : Exited(p)
MayGoOn ==
    \/ shell = "begin" /\ ~built
    \/ MayStartAlice \/ MayStartBob \/ MayWait \/ MayJoin
    \/ \E p \in Party : MayStep(p)

(***************************************************************************)
(* What a step assigns: the part of the link, or that of the shell.        *)
(***************************************************************************)
LinkTo(state) == Becoming(state) /\ UNCHANGED sessionVars
ShellTo(sh, st) == shell' = sh /\ status' = st /\ UNCHANGED built

(***************************************************************************)
(* A step of the session is one of the guards and what it then assigns:    *)
(* nothing else keeps it from happening.                                   *)
(***************************************************************************)
LEMMA GuardedNext ==
  Next <=>
    \/ shell = "begin" /\ ~built /\ ShellTo("exited", 1) /\ UNCHANGED linkVars
    \/ /\ MayStartAlice /\ ShellTo("sleep", status)
       /\ Becoming(<<With(proc, ALICE, "starting"), ready, at, posted, net>>)
    \/ /\ MayStartBob /\ ShellTo("wait", status)
       /\ Becoming(<<With(proc, BOB, "starting"), ready, at, posted, net>>)
    \/ MayWait /\ ShellTo("exited", ExitStatus(BOB)) /\ UNCHANGED linkVars
    \/ /\ MayJoin
       /\ LinkTo(<<[q \in Party |-> "running"], ready, at, posted, net>>)
    \/ \E p \in Party :
          \/ MayFail(p) /\ LinkTo(<<With(proc, p, "failed"), ready, at, posted, net>>)
          \/ MayOpen(p) /\ LinkTo(<<With(proc, p, "opening"), ready, at, posted, net>>)
          \/ /\ MayPost(p)
             /\ LinkTo(<<proc, ready, at, With(posted, p, TRUE),
                         With(net, Peer(p), Append(net[Peer(p)], at[p] + 1))>>)
          \/ /\ MayComplete(p)
             /\ LinkTo(<<proc, ready, With(at, p, at[p] + 1), With(posted, p, FALSE),
                         IF Receives(p) THEN With(net, p, Tail(net[p])) ELSE net>>)
          \/ MayFinish(p) /\ LinkTo(<<With(proc, p, "finished"), ready, at, posted, net>>)
BY GuardedStep
DEF Next, NotBuilt, StartAlice, StartBob, Wait, Connect, Main, MayStartAlice, MayStartBob,
    MayWait, LinkTo, ShellTo, sessionVars, Party

(***************************************************************************)
(* What the session comes to when nothing more can happen: run.sh has      *)
(* exited, or waits for a party that is never connected.                   *)
(***************************************************************************)
LEMMA SessionStops ==
  ASSUME SameCalls, SessionInv, SessionTypes
  PROVE  ~MayGoOn <=> \/ shell = "exited"
                      \/ shell = "wait" /\ OneRefused
<1> USE DEF SessionInv
<1>1. CASE shell = "begin"
  BY <1>1 DEF ProcsOK, MayGoOn, MayStartAlice, Party
<1>2. CASE shell = "sleep"
  BY <1>2 DEF ProcsOK, MayGoOn, MayStartBob
<1>3. CASE shell = "wait"
  <2>1. MayGoOn <=> MayWait \/ MayJoin \/ \E p \in Party : MayStep(p)
    BY <1>3 DEF MayGoOn, MayStartAlice, MayStartBob
  <2>2. MayWait <=> \A p \in Party : proc[p] \in {"finished", "failed"}
    BY <1>3 DEF MayWait, Exited
  <2>3. \A p \in Party : proc[p] # "absent"
    BY <1>3 DEF ProcsOK
  <2>4. OneRefused => ~MayWait
    BY <2>2, Peers DEF OneRefused
  <2> QED BY <1>3, <2>1, <2>2, <2>3, <2>4, LinkStops, RefusedStops
<1>4. CASE shell = "exited"
  <2>1. \A p \in Party : proc[p] \in {"absent", "finished", "failed"}
    <3>1. CASE built
      BY <1>4, <3>1 DEF ProcsOK, Exited
    <3>2. CASE ~built
      BY <3>2 DEF ProcsOK
    <3> QED BY <3>1, <3>2
  <2>2. ~MayJoin /\ \A p \in Party : ~MayStep(p)
    BY <2>1 DEF MayJoin, MayStep, MayFail, MayOpen, MayPost, MayComplete, MayFinish, Busy,
                Party
  <2> QED BY <1>4, <2>2 DEF MayGoOn, MayStartAlice, MayStartBob, MayWait
<1>5. shell \in {"begin", "sleep", "wait", "exited"}
  BY DEF SessionTypes
<1> QED BY <1>1, <1>2, <1>3, <1>4, <1>5
-----------------------------------------------------------------------------
(***************************************************************************)
(* The work that is done: a session has only so much of it.                *)
(***************************************************************************)
ShellRank ==
    CASE shell = "begin" -> 0
      [] shell = "sleep" -> 1
      [] shell = "wait"  -> 2
      [] OTHER           -> 3
Work == LinkAdvance + ShellRank
WorkBound == LinkBound + 3

(***************************************************************************)
(* Every step of the shell, the connection or a process does some.         *)
(***************************************************************************)
LEMMA WorkIsDone ==
  ASSUME SameCalls, SessionInv, Next
  PROVE  Work' > Work
<1>1. LinkAdvance \in Nat /\ ShellRank \in 0..3 /\ ShellRank' \in 0..3
  BY AdvanceType DEF SessionInv, LinkOK, ShellRank
<1>2. Work = LinkAdvance + ShellRank /\ Work' = LinkAdvance' + ShellRank'
  BY DEF Work
<1>3. \A a, c \in Nat : \A b, d \in 0..3 :
         (c >= a /\ d > b) \/ (c > a /\ d >= b) => c + d > a + b
  OBVIOUS
<1>4. CASE LinkNext
  <2>1. LinkAdvance' \in Nat /\ LinkAdvance' > LinkAdvance
    BY <1>4, LinkAdvances DEF SessionInv, LinkOK
  <2>2. ShellRank' >= ShellRank
    BY DEF Next, NotBuilt, StartAlice, StartBob, Wait, Connect, Main, sessionVars, ShellRank
  <2> QED BY <1>1, <1>2, <1>3, <2>1, <2>2
<1>5. CASE NotBuilt \/ Wait
  <2>1. LinkAdvance' = LinkAdvance
    BY <1>5 DEF NotBuilt, Wait, linkVars, LinkAdvance, Advance, Sent
  <2>2. ShellRank' > ShellRank
    BY <1>5 DEF NotBuilt, Wait, ShellRank
  <2>3. LinkAdvance' \in Nat /\ LinkAdvance' >= LinkAdvance
    BY <1>1, <2>1
  <2> QED BY <1>1, <1>2, <1>3, <2>2, <2>3
<1> QED BY <1>4, <1>5 DEF Next, StartAlice, StartBob, Connect, Main, LinkNext, Party

(***************************************************************************)
(* Nothing more can happen in a session only when run.sh has exited, or    *)
(* when it waits for a party that is never connected because the other was *)
(* refused its file: HangsOnlyAfterRefusal, in the guards of the steps,    *)
(* and its converse, that a refusal found by one party alone does hang.    *)
(***************************************************************************)
THEOREM StopsOrRefused ==
  ASSUME SameCalls
  PROVE  Spec => [](~MayGoOn <=> \/ shell = "exited"
                                 \/ shell = "wait" /\ OneRefused)
BY SessionInvariant, SessionTypesHold, SessionStops, PTL

(***************************************************************************)
(* When the program is built and both files are good, nothing stops the    *)
(* session before both parties have printed the estimate and run.sh has    *)
(* returned 0: the safety of JointEstimate's promise that both learn it.   *)
(***************************************************************************)
THEOREM GoodFilesAreEstimated ==
  ASSUME SameCalls
  PROVE  Spec => [](/\ ~MayGoOn /\ built /\ (\A p \in Party : ready[p])
                    => /\ shell = "exited" /\ status = 0
                       /\ \A p \in Party : proc[p] = "finished")
<1> DEFINE Good == built /\ \A p \in Party : ready[p]
<1> DEFINE Done == /\ shell = "exited" /\ status = 0
                   /\ \A p \in Party : proc[p] = "finished"
<1>1. SessionInv /\ SessionTypes /\ ~MayGoOn /\ Good => Done
  <2> SUFFICES ASSUME SessionInv, SessionTypes, ~MayGoOn, Good PROVE Done
    OBVIOUS
  <2>1. \A p \in Party : proc[p] # "failed"
    BY DEF SessionInv, LinkOK, JoinedOK
  <2>2. shell = "exited"
    BY <2>1, SessionStops DEF OneRefused
  <2>3. \A p \in Party : proc[p] = "finished"
    BY <2>1, <2>2 DEF SessionInv, ProcsOK, Exited
  <2>4. status = 0
    BY <2>1, <2>2 DEF SessionInv, ProcsOK, ExitStatus, Party
  <2> QED BY <2>2, <2>3, <2>4
<1> QED BY SessionInvariant, SessionTypesHold, <1>1, PTL

(***************************************************************************)
(* A session makes at most as many steps as there is work, so that it      *)
(* always comes to such a stop: two processes, for every call of the       *)
(* program two messages sent and two completions, and the shell.           *)
(***************************************************************************)
THEOREM SessionIsBounded ==
  ASSUME SameCalls
  PROVE  Spec => [](Work \in 0..WorkBound) /\ [][Work' > Work]_vars
<1>1. SessionInv => Work \in 0..WorkBound
  <2> SUFFICES ASSUME SessionInv PROVE Work \in 0..WorkBound
    OBVIOUS
  <2>1. LinkAdvance \in 0..LinkBound /\ ShellRank \in 0..3
    BY AdvanceType DEF SessionInv, LinkOK, ShellRank
  <2>2. LinkBound \in Nat
    BY DEF LinkBound, SameCalls
  <2> QED BY <2>1, <2>2 DEF Work, WorkBound
<1>2. SessionInv /\ [Next]_vars => [Work' > Work]_vars
  BY WorkIsDone
<1> QED BY SessionInvariant, <1>1, <1>2, PTL DEF Spec
-----------------------------------------------------------------------------
(***************************************************************************)
(* The demo's own program.  The blocks of a pipeline, and its calls when   *)
(* they are laid out.                                                      *)
(***************************************************************************)
CallKinds == {"alice_input", "bob_input", "gates", "reveal"}
PhaseNames ==
    {"conjoin_dnf", "cube_weights", "dnf_weight", "cube_intervals", "sample_in_range",
     "select_cube_index", "cube_at_index", "random_assignment", "count_satisfied_cubes",
     "divide_lookup", "is_canonical_sample", "estimate"}
Reveals(width) == Block("reveal", Repeat(Slices(width), <<"reveal">>))
BlocksOf(cubes, width) ==
    {CubeInputs(cubes), RandomInputs, Reveals(width)} \cup {Gates(name) : name \in PhaseNames}

(***************************************************************************)
(* What a loop repeats is of the same kind when it is done.                *)
(***************************************************************************)
LEMMA RepeatedType ==
  ASSUME NEW T, NEW s \in Seq(T), NEW n \in Nat
  PROVE  Repeat(n, s) \in Seq(T)
<1>1. [k \in 1..n |-> s] \in Seq(Seq(T))
  OBVIOUS
<1> QED BY <1>1, FlattenFacts DEF Repeat

(***************************************************************************)
(* A pipeline is a sequence of such blocks, however many cubes, trials and *)
(* bits it has.                                                            *)
(***************************************************************************)
LEMMA PipelineType ==
  ASSUME NEW algorithm, NEW cubes \in Nat, NEW k \in Nat, NEW width \in Nat
  PROVE  /\ Pipeline(algorithm, cubes, k, width) \in Seq(BlocksOf(cubes, width))
         /\ \A b \in BlocksOf(cubes, width) : b.calls \in Seq(CallKinds)
<1> DEFINE T == BlocksOf(cubes, width)
<1>1. \A name \in PhaseNames : Gates(name) \in T
  BY DEF BlocksOf
<1>2. CubeInputs(cubes) \in T /\ RandomInputs \in T /\ Reveals(width) \in T
  BY DEF BlocksOf
<1>3. ASSUME NEW b \in T PROVE b.calls \in Seq(CallKinds)
  <2>1. <<"gates">> \in Seq(CallKinds) /\ <<"alice_input", "bob_input">> \in Seq(CallKinds)
    BY DEF CallKinds
  <2>2. /\ <<"alice_input">> \in Seq(CallKinds) /\ <<"bob_input">> \in Seq(CallKinds)
        /\ <<"reveal">> \in Seq(CallKinds)
    BY DEF CallKinds
  <2>3. Repeat(3, <<"alice_input">>) \in Seq(CallKinds)
        /\ Repeat(3, <<"bob_input">>) \in Seq(CallKinds)
    BY <2>2, RepeatedType
  <2>4. Repeat(3, <<"alice_input">>) \o Repeat(3, <<"bob_input">>) \in Seq(CallKinds)
    BY <2>3
  <2>5. CubeInputs(cubes).calls \in Seq(CallKinds)
    BY <2>4, RepeatedType DEF CubeInputs, Block
  <2>6. Reveals(width).calls \in Seq(CallKinds)
    <3>1. Slices(width) \in Nat
      BY DEF Slices, SliceBits
    <3> QED BY <2>2, <3>1, RepeatedType DEF Reveals, Block
  <2>7. RandomInputs.calls \in Seq(CallKinds)
    BY <2>1 DEF RandomInputs, Block
  <2>8. \A name \in PhaseNames : Gates(name).calls \in Seq(CallKinds)
    BY <2>1 DEF Gates, Block
  <2> QED BY <2>5, <2>6, <2>7, <2>8 DEF BlocksOf
<1> HIDE DEF T
<1>4. Trial(algorithm) \in Seq(T)
  <2>1. <<RandomInputs, Gates("sample_in_range"), Gates("select_cube_index"),
          Gates("cube_at_index"), RandomInputs, Gates("random_assignment")>> \in Seq(T)
    BY <1>1, <1>2 DEF PhaseNames
  <2>2. <<Gates("count_satisfied_cubes"), Gates("divide_lookup")>> \in Seq(T)
        /\ <<Gates("is_canonical_sample")>> \in Seq(T)
    BY <1>1 DEF PhaseNames
  <2> QED BY <2>1, <2>2 DEF Trial
<1>5. Repeat(k, Trial(algorithm)) \in Seq(T)
  BY <1>4, RepeatedType
<1>6. <<CubeInputs(cubes), Gates("conjoin_dnf"), Gates("cube_weights"),
        Gates("dnf_weight"), Gates("cube_intervals")>> \in Seq(T)
      /\ <<Gates("estimate"), Reveals(width)>> \in Seq(T)
  BY <1>1, <1>2 DEF PhaseNames
<1>7. Pipeline(algorithm, cubes, k, width) \in Seq(T)
  BY <1>5, <1>6 DEF Pipeline, Reveals
<1> QED BY <1>3, <1>7 DEF T

(***************************************************************************)
(* main.cpp makes the same calls as either party, so that the theorems     *)
(* above are about it.                                                     *)
(***************************************************************************)
THEOREM DemoIsShared ==
  ASSUME Script = DemoScript(ALICE, BOB)
  PROVE  SameCalls
<1> DEFINE blocks == Pipeline("vazirani", DemoCubes, DemoTrials, DemoWidth)
           q == [n \in DOMAIN blocks |-> blocks[n].calls]
           calls == FlattenSeq(q)
<1>1. DemoWidth \in Nat
  BY BitsForFits DEF DemoWidth, DemoVars, DemoCubes, DemoTrials
<1>2. /\ blocks \in Seq(BlocksOf(DemoCubes, DemoWidth))
      /\ \A b \in BlocksOf(DemoCubes, DemoWidth) : b.calls \in Seq(CallKinds)
  BY <1>1, PipelineType DEF DemoCubes, DemoTrials
<1>3. DemoCalls = [n \in DOMAIN calls |-> [call |-> calls[n]]]
  BY DEF DemoCalls
<1>4. q \in Seq(Seq(CallKinds))
  <2> HIDE DEF blocks
  <2>1. q = [n \in 1..Len(blocks) |-> blocks[n].calls] /\ Len(blocks) \in Nat
    BY <1>2
  <2>2. \A n \in 1..Len(blocks) : blocks[n].calls \in Seq(CallKinds)
    BY <1>2
  <2> HIDE DEF q
  <2> QED BY <2>1, <2>2
<1> HIDE DEF q
<1>5. calls \in Seq(CallKinds)
  BY <1>4, FlattenFacts
<1> HIDE DEF calls
<1>6. Len(DemoCalls) \in Nat
  BY <1>3, <1>5
<1>7. Script[ALICE] = DemoCalls /\ Script[BOB] = DemoCalls
  BY DEF DemoScript
<1> QED BY <1>6, <1>7 DEF SameCalls, CallOf

(***************************************************************************)
(* All of it of the demo itself, whatever fits the channels: its session   *)
(* is typed, its calls match, no one waits in vain within them, run.sh     *)
(* does not claim a success that there was not, and the session comes to   *)
(* an end, or to a refusal that the other party waits upon.                *)
(***************************************************************************)
THEOREM DemoSession ==
  ASSUME Script = DemoScript(ALICE, BOB)
  PROVE  Spec => /\ [](TypeOK /\ MessagesMatchCalls /\ NeverBothWait /\ SuccessMeansBoth)
                 /\ Joint!Safety
                 /\ [](MayGoOn \/ shell = "exited" \/ OneRefused)
                 /\ [](Work \in 0..WorkBound) /\ [][Work' > Work]_vars
<1>1. SameCalls
  BY DemoIsShared
<1>2. /\ Spec => []TypeOK /\ []MessagesMatchCalls
      /\ Spec => []NeverBothWait /\ []SuccessMeansBoth
      /\ Spec => Joint!Safety
  BY <1>1, SessionTypeCorrect, CallsMatch, NoDeadlockWithinCalls, SuccessIsJoint,
     SessionImplementsJoint
<1>3. Spec => [](~MayGoOn <=> \/ shell = "exited"
                              \/ shell = "wait" /\ OneRefused)
  BY <1>1, StopsOrRefused
<1>4. Spec => [](Work \in 0..WorkBound) /\ [][Work' > Work]_vars
  BY <1>1, SessionIsBounded
<1> QED BY <1>2, <1>3, <1>4, PTL
=============================================================================
