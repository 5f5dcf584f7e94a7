# mpcfun in TLA+

mpcfun counts, for two parties that do not show each other their inputs, the
assignments that satisfy both of two DNF formulas. Each party reads a DIMACS
file with its own DNF; a boolean circuit, evaluated together under emp's
two-party protocol, conjoins the two, samples the conjunction `K` times and
reveals one number, from which both read off an estimate of the count. Two
estimators are implemented, Vazirani's and Karp and Luby's.

This directory holds TLA+ models of the program, TLC configurations that check
them on small instances, and TLAPS proofs of their safety for every value of
the constants. Paths below are relative to `src/mpc-vazirani/src/`.

## Inventory

| component | state | operations | depends on |
|---|---|---|---|
| DIMACS parser, `utils/dimacs_dnf.h` | header seen, declared variables, cube being read, cubes stored | one call of `parse`: open, read lines, read tokens, pad, or throw at eleven places | the file |
| cubes and widths, `gadgets/circuit_cube.h`, `general/dnf_distribute.h`, `general/cube_weight.h`, `general/random_assignment.h` | none (wires) | `conjoin`, `cube_weight`, `random_assignment` | emp's `UInt_T`, `bits_for` |
| coverage gadgets, `general/dnf_weight.h`, `cube_intervals.h`, `select_cube.h`, `vazirani/*`, `karp_luby/*` | running sums and bits carried through loops | prefix sums, sampling, selection, counting, reciprocal, scan, estimate | cubes |
| pipelines, `pipeline/vazirani_pipeline.h`, `karp_luby_pipeline.h` | all wires of the circuit | feed inputs, run the gadgets, `K` trials, reveal | gadgets; parsed DNFs of both parties |
| session and command line, `main.cpp`, `../run.sh` | two processes, a connection, a shell | parse, listen or connect, run, print; start both, wait for both | parser, pipeline, emp |
| random DNF generator, `utils/random_dnf.h` | the pair, the cube being repaired, a random engine | draw a cube, repair it until it shares at most `max_overlap` literals with every cube of the other party | seed |
| number of trials, `general/trial_count.h` | none | computes `K` at compile time | |
| instrumentation, `pipeline/instrumentation.h` | byte counts by phase | accumulate, reveal wide words | session |
| plain ground truth, `bench/ground_truth.h` | a temporary file | conjoin in plain, write a DIMACS file, run the external counter, remove the file | pepin |
| benchmarks, `bench/*.cpp`, `bench_common.h` | two processes, a clock, counters | run pipelines over shapes, report | all |
| emp toolkit | external | garbled circuits, networking, words | |

How they interact. The parser's array is the circuit's input and nothing
checks it again: the gadgets silently rely on bits being 0 outside the mask and
on filler being marked by `pad`. Within the circuit there is no control flow at
all, only data: a wrong index, a wrapped word or a division by zero leaves no
trace but a wrong number. Both parties evaluate the same gates in the same
order, so within one run of the circuit there is no interleaving; the
concurrency of the system is in the session, where two processes parse, meet
and either may fail before the other.

What is hard, and what makes each part correct:

* *Widths.* Every sum, product and count must fit a word whose size is computed
  from the compile-time shape; there is no overflow flag
  (`TypeOK`, `TotalCountsCoverage`, `RevealedIsExactProduct`, `CountIsCoverDegree`).
* *One pad bit.* Filler and contradictory pairs travel through all later
  gadgets and must weigh nothing, never be selected and never be counted
  (`SampleSelectsRealPair`, `CountIsCoverDegree`).
* *Boundaries.* 1-based samples, 0-based arrays, prefix sums with equal
  neighbours, muxes with a default (`BlocksMatchPairs`, `SampleSelectsRealPair`,
  `AssignmentSatisfiesPair`).
* *Randomness.* What holds for each draw and what only on average; the remainder
  by `total` is not uniform (`CoverageTheorem`, `EverySampleReached`).
* *The empty intersection.* The sampler divides by zero and the rest runs on
  whatever that leaves (`EmptyRevealsZero`).
* *The scan's order.* One bit must be read before it is updated
  (`CanonicalIsFirstCover`).
* *The parser.* State carried over line ends, capacity tested per cube rather
  than per header, tokens that end a line silently (`AcceptsWellFormed`,
  `CubesMeanFile`, `ParseEnds`).
* *The session.* One party's parse error leaves the other blocked; within the
  protocol both must make the same calls, the peer's inputs included, and both
  send in a reveal (`NeverBothWait`, `MessagesMatchCalls`,
  `HangsOnlyAfterRefusal`, `ImplementsJointEstimate`, `SuccessMeansBoth`).
* *The repair loop.* It runs until a pass changes nothing, and each repair must
  leave the earlier ones and the cube itself in order (`NeverReviolated`,
  `SecondPassConfirms`, `GenerationEnds`).
* *The second conjunction.* The ground truth conjoins in plain code and must not
  come to differ; its file must mean the intersection, and be removed whichever
  call fails (`PlainMirrorsCircuit`, `TruthIsIntersection`, `NoFileLeft`,
  `ZeroWhenEmpty`).
* *The benchmark.* Nothing is exchanged before a run: pairs, clocks and counters
  must agree by construction (`SetupIsNotTimed`, `BytesAddUp`,
  `WholeEstimateRevealed`, `SweepEnds`). Pepin may fail in one run and answer in the
  next, and what a run prints must be about its own pair (`TruthIsOfTheInputs`).

`PROJECT.json` lists these line by line, with the properties that cover each.

## Modules

| module | what it is |
|---|---|
| `Widths` | `bits_for` and `Wrap`: words of the external toolkit |
| `DnfCubes` | cubes as sets of variables, the gadgets on one or two cubes, `Models` (what a cube means), `ParsedDnfs` (what `parse` can return) |
| `CoveragePipeline` | the circuit of either pipeline as a machine, its type invariant and safety properties |
| `CoverageDistribution` | properties about all draws of a trial together, and what comments of the code claim |
| `CoverageAlgorithm` | the textbook coverage algorithm: sets, picks and scores |
| `CoverageRefinement` | the mapping under which the circuit implements it |
| `EstimateOfFiles` | what the estimate says of the files that the inputs were parsed from |
| `MCCoveragePipeline` | DNFs for TLC |
| `DimacsParser` | `parse` as a machine over lines and tokens |
| `DimacsMeaning` | what a file says, which arrays stand for it (`Parses`), and what `parse` promises of it |
| `MCDimacsParser` | files for TLC |
| `RandomDnf`, `MCRandomDnf` | the generator of benchmark pairs as a machine |
| `GroundTruth`, `GroundTruthMeaning`, `MCGroundTruth` | `run_pepin_sanity_check` as a machine with its failures, and what its answer is about, told with `DimacsMeaning` |
| `PartyLink` | two processes, their connection, and the calls both make: shared by the next two |
| `PipelineCalls` | the calls of either pipeline to the session, by phase |
| `DemoCalls`, `TwoPartySession`, `MCTwoPartySession` | `main.cpp` under `run.sh` |
| `JointEstimate` | what a two-party run promises |
| `SweepCalls`, `BenchSweep`, `MCBenchSweep` | `bench_compare` and `run_one` |
| `DnfCubesProofs` | lemmas: induction over the numbers, powers, `bits_for`, wrapping, flattened sequences; conjunction, weights, the satisfaction check |
| `CoveragePipelineProofs` | the circuit's theorems: types, coverage space, trials, estimate, draws, refinement, the files behind the inputs, the order of the gates |
| `DimacsParserProofs` | the parser's, with those of `DimacsMeaning` |
| `RandomDnfProofs` | the generator's |
| `GroundTruthProofs` | the ground truth's, with those of `GroundTruthMeaning` |
| `PartyLinkProofs` | the invariant of the connection, for whatever program both parties run, and how far it can go |
| `TwoPartySessionProofs`, `BenchSweepProofs` | the session's theorems and the sweep's, both over `PartyLinkProofs`, and those of `main.cpp`'s and `bench_compare`'s own programs |

### How the circuit maps to the code

The two pipelines are the same code up to `random_assignment`; `Algorithm`
selects which one runs. `pc` names the gadget that runs next. A gadget whose
loop carries a value from one iteration to the next (`dnf_weight`,
`cube_intervals`, `is_canonical_sample`, the estimates) takes one step per
iteration, so that its running value is part of the state; a gadget that maps
its inputs to its output takes one. Arrays are indexed from 0 as in the code and
the variables keep the code's names. `i` is the loop index of the gadget that
runs and `t` the trial; `EndTrial` resets a trial's locals, which go out of
scope there.

A bit vector over the variables is the set of variables whose bit is 1. A word
is a natural number and every sum or product whose type
could be exceeded goes through `Wrap`. What each party draws at random enters
the circuit only as the XOR of both parties' bits, which any word can be:
`SampleInRange` and `RandomAssignment` choose it. A remainder by 0 is whatever
word the toolkit's divider leaves, chosen by `Remainders`.

Left out of `CoveragePipeline`: bytes and phases, which are `BenchSweep`'s
subject, and the memory reports, whose sizes the compiler knows.

### How the parser maps to the code

A file is a sequence of lines; a line is what the code looks at: whether it is
skipped, begins with `p`, or holds literals, and in the last two its tokens as
`operator>>` reads them. A token is an integer, or `Junk` (no number), or `Huge`
(a number no `int` holds); both set the failbit, and `extracted` says what they
leave behind in a header's variable, as the standard library defines it. One
action stands for one iteration of each loop, and each throw is an action of its
own, with its guards in the code's order. `NoFile` is the path that cannot be
opened.

### How the generator maps to the code

`DrawAlice` and `DrawBob` are iterations of the two loops of
`generate_random_dnf_pair`; a drawn cube is any real cube, whatever `density`
says of its likelihood. `Keep` and `Repair` are an iteration of the inner loop of
`repair_overlap`, with the `continue` or without; the shuffle makes the set of
literals that `Repair` clears any of its size. `NextPass` and `StoreBob` are the
two outcomes of `while (changed)`. `passes` is a history variable.

### How the ground truth maps to the code

One action for each call of `run_pepin_sanity_check`, and one for each way in
which the call fails: `mkstemp` gives no file, the stream stops in the middle
(which nobody tests), pepin cannot be run or says nothing of use. The plain
conjunction loops over the variables where the circuit works on bit vectors, and
is written so here too. Pepin is external: its answer is represented by the file
that it read, and `GroundTruthMeaning` says what that file means by an instance
of the parser's `DimacsMeaning`, for `CUBES` squared cubes.

### How the session and the sweep map to the code

`PartyLink` has one process for each party: absent, starting, opening the
connection, running, and then finished or failed. `ready` says whether the
party's own input will be accepted, the one thing of it that control depends
on. Within the protocol a party makes the calls of its script in order; a call
sends, receives, does both or neither, as `Senders` says: for gates ALICE sends
what BOB evaluates, for BOB's inputs he sends to ALICE, and a public result goes
both ways. The toolkit is external; the directions are those of the bytes by phase
that the repository's README prints. Each channel holds at most `Capacity` messages, so that a sender may
have to wait; a call sends first and reads afterwards. A message is the position
of the call that sent it.

`PipelineCalls` writes the script as the pipelines do: three words for each cube,
ALICE's and BOB's in turn, by both parties; gates for each gadget; inputs and gates
for each trial; one reveal for every 64 bits. `DemoCalls` instantiates it with
`main.cpp`'s constants, 48 calls. `TwoPartySession` adds `run.sh`: the
test for the binary, ALICE in the background, the sleep, BOB, and the `wait`,
which takes BOB's exit status. The 0.3 s are no guarantee: `StartBob` may come
before or after anything that ALICE does.

`SweepCalls` writes `bench_compare`'s program, for each sweep point and each
algorithm: generate, count with pepin, `io->sync()`, start the clock, the
pipeline's calls between `measure`'s looks at the counters, report. `BenchSweep` gives
these steps their effect; bytes are counted as messages, and the pair that a
party generates is named by the arguments, the shape and the half, all that it depends on.
What `run_pepin_sanity_check` returns to ALICE is any of its results, chosen anew in each
run: `nullopt` when a call to the system fails, or a count, which is of the whole
intersection or of a part of it when the file was cut short. Which calls fail and how is
the matter of `GroundTruth`; what the count is of, that of `CountIsOfTheIntersection`.
In the sweep a count is named by the pair it is about. `run_one` prints the answer if there is one.
`bench_vazirani` is the same program with the first algorithm alone.

## Runs

| run | question | bounds |
|---|---|---|
| `vazirani_two_vars` | Is each stage exact: weights, intervals, selection, assignment, count? Is an empty intersection revealed as 0? | all DNFs of at most 2 cubes over 2 variables, both parties, every draw, `K` = 1 |
| `karp_luby_two_vars` | Does the scan find the canonical pair; do the outcomes over all draws add up to the exact count, with every sample reached; is a disjoint union counted exactly; does the circuit implement the coverage algorithm? | the same, `K` = 2 |
| `vazirani_nine_pairs` | With up to 9 pairs covering one assignment, do the rounded shares add up; are two trials summed without loss; does the circuit implement the algorithm? | 3 cubes over 1 variable, `K` = 2 |
| `parse_files` | Does the parser end, accept the well-formed files only, and return their cubes? | all files of up to 4 of 13 kinds of line; all files of a header and two lines of up to 3 of 6 tokens; 2 variables, 2 cubes |
| `random_pairs` | Does the repair keep the cap, undo nothing, and end? | every draw and shuffle of 2 cubes over 3 variables, cap 1 |
| `ground_truth` | Is the plain conjunction the circuit's, is what pepin reads the intersection, and is the file removed? | all pairs of DNFs of 2 cubes over 2 variables, as the generator makes them, every failure |
| `session` | Can the parties wait for each other; can one end with an estimate and the other not; when does a run hang? | all 48 calls of the demo, channels of 3 messages, each file good or bad, binary built or not |
| `bench_sweep` | Does the clock bill setup; do phases add up on both sides; is a wide result whole; is what pepin answered printed with the inputs it is about; does the sweep end? | the points 4 and 64, both algorithms, 2 trials and 1 cube of each scripted, channels of 2 messages, 2 arguments, a low stack limit for one party and none for the other, every answer of pepin in every run |
| `sample_not_uniform`, `filler_not_true`, `reciprocal_error`, `parse_huge_literal` | Does the code do what this comment says? (It does not, see Findings.) | the smallest instance that shows it |

Why the bounds are enough. With two variables and two cubes a side there are
pairs that are equal, nested, overlapping, disjoint, contradictory and filler, in
every position of the four, and up to four pairs that cover one assignment, the
number at which `SatisfiedCount` needs its last bit. Three cubes a side give nine
pairs: counts past six, the first at which a table entry exceeds its documented
error, and a `CUBES` that is not a power of two. `K` = 2 lets a second trial follow a first
with other locals and makes the estimate's width matter. The parser's capacity of
two lets a file stay below, meet and exceed it; two lines of three tokens let a
cube go on over a line end and a line end inside, before and after a cube.
Three variables and a cap of one make a repair clear one literal or two, and two
cubes let the second repair meet what the first has cleared. Three messages of
capacity fill and drain many times in the demo's 48 calls, with one party up to
three messages ahead; two scripted trials make a phase be entered again, and the
point 64 has a result of more than 64 bits. The sweep's channels hold two messages
and fill and drain as often. `SweepCalls` scripts no more than
`MaxTrials` and `MaxCubes` turns of a run's loops, since every further one repeats the
same calls; the width of a result is computed from the true `K`. The bounds are
constants of the configurations or definitions of the MC modules; `RandomDnf`
alone has one of its own, `ManyPasses`, at which the history of passes stops
counting, above what `SecondPassConfirms` allows. The proofs below do not depend
on any of them.

Fairness. The circuit alone has no liveness property: it is a fixed sequence of
gates with no waiting. `parse` and `generate_random_dnf_pair` are local functions
of one thread; that the scheduler keeps running it is the weak fairness of their
`Spec`, under which `ParseEnds` and `GenerationEnds` say that no loop of theirs
runs forever. In `TwoPartySession` and `BenchSweep` each process is scheduled, and so is the shell
(weak fairness of `Main(p)`, a process being one thread that only
waits where an action is disabled), and a connection that one listens for
and the other tries comes about (`Connect`: `NetIO::connect` tries again until it succeeds). Nothing is assumed about who is
faster.

Deadlock is checked in every run but two. In `session` and `bench_sweep` the
system does stop: when a party is refused its input, its peer waits for good.
`HangsOnlyAfterRefusal` says for the session that this is the only way, and the
refinement and `SweepEnds` that good inputs always lead to the end. That nothing
but the scheduler is needed for it is proved (see *Ends*, below).

Definitions that a comment marks as a mutant are not part of the model: each is
a plausible bug in the definition that follows it, and `PROJECT.json` pairs it
with a property that TLC finds violated when the bug is put in.

## Refinement

`CoverageAlgorithm` states the algorithm without circuit, words, filler or
tables: given finitely many sets, each trial picks an element of their disjoint
union and scores it, by whether its set is the first that holds it or by a share
of a unit rounded to the nearest; the result is the size of the disjoint union
times the sum of the scores. `CoverageRefinement` maps the circuit to it: the
sets are the common models of each pair of cubes, told from the inputs alone, so
that a wrong conjunction, weight, interval, index, count or sum anywhere in the
circuit shows as a step that the algorithm does not have.

`JointEstimate` states what two parties get from a run: both the joint estimate
if both were given good input, neither otherwise. `TwoPartySession` implements
it, with its liveness, under the mapping that a party knows the estimate when
its process has finished. That no single call of one party leaves the other
behind is what this takes: an error on one side, an input loop left out, or a
BOB that goes on alone shows as a step or an end that `JointEstimate` does not have.

What the coverage algorithm leaves open is the distribution of its picks. That is the
subject of `CoverageDistribution`, which counts the draws that give each outcome.

## Theorems

The circuit's are proved for every finite non-empty set of variables, every capacity and
number of trials of at least one, either algorithm, and all inputs that `parse`
can return (`VarsAssumption`, `CubesAssumption`, `TrialsAssumption`,
`AlgorithmAssumption`, `DnfsAssumption`).

* `TypeCorrect`: every wire holds a value of its type and no loop index leaves
  its array. Inductive as it stands, given the lemmas on words and on the type of
  each gadget's result.
* `TotalIsExact`, `IntervalsMatchPairs`: by `CoverInv`. Neither property is
  inductive: they speak of the end of loops and of the inputs. The invariant says
  what each gadget has left on the wires, and that the running sums equal
  `Size(conjunction, n)`, the number of pairs and models among the first `n`
  pairs. Three facts carry it: adding a pair adds its models (`SizeStep`), the size
  fits the word of the total, so that nothing wraps (`SizeFits`), and the
  conjunction of two parsed cubes has exactly their common models
  (`ConjunctionModels`). The last needs that bits are 0 outside the mask.
* `SamplesSelectRealPairs`, `AssignmentsSatisfyPairs`, `CountsAreCoverDegrees`,
  `CanonicalSamplesAreFirst`: by `TrialInv`, on top of `CoverInv`. The boundaries
  are monotone (`SizeMonotone`), so those below a sample are an initial segment
  and their number is the index of its block (`IndexOfBlock`); a block that is not
  empty has a model, so its pair is no filler; the satisfaction check agrees with
  the meaning of every cube that can occur; and during the scan `b2` says whether
  an earlier pair covers the assignment, `b1` what `b2` was when the sampled pair
  was reached.
* `RevealedIsExact`, `EmptinessIsRevealed`, `DisjointIsExact`: by `EstimateInv`,
  on top of `TrialInv`. It says that the running sum is that of the outcomes so
  far and that each outcome is one the coverage algorithm may write, so that
  neither the sum nor its product with the weight outgrows its word. In
  `EmptyRevealsZero` a positive estimate for a non-empty intersection is claimed
  of Vazirani's under `PRODUCT < 2 * kDivideLookupScale` only: with more pairs, that is from
  363 cubes a side on, a share of the table rounds to 0. `ExactWhenDisjoint` needs
  that a share of one is the whole unit, and that disjoint pairs leave no other.
* `CircuitIsCoverageAlgorithm`: under the mapping of `CoverageRefinement` every
  step of the circuit is a step of `CoverageAlgorithm` or a stutter. Only the
  following are not stutters: the feed of the inputs gives the sets, the end of a trial is a
  pick and its score, the last is the product; that each is one the abstract algorithm has is `CoverInv`,
  `TrialInv` and `EstimateInv` at that point.
* `SamplesNearlyUniform`: the words that leave one remainder form a residue
  class, which is numbered by the quotients; two classes differ by one word at most.
* `OutcomesAddUp`: the draws of a trial are sorted by the element of the coverage
  space that they pick. A pair with `m` models is selected by `m` samples and each
  of its models is filled in from `2^VARS / m` random words, so every element is
  picked by `2^VARS` draws (`DrawsOfElement`); the sum over the draws is therefore
  `2^VARS` times that of the scores; and by assignment the scores are one 1 for each
  model of the intersection, or as many rounded shares as there are pairs that cover it.
* `EstimateIsOfFiles`: the circuit's properties speak of the arrays on its wires;
  this one speaks of the two files. Its hypothesis, `FedFrom`, is that each party
  feeds in arrays that stand for its file (`Parses`), which `ParserDelivers`
  proves of whatever `parse` returns. Such an array has the file's models, cube by
  cube (`ParsedMeansFile`), and stays on the wires (`FedInvariant`), so the
  intersection that the circuit samples is that of the files (`FilesAreCounted`);
  the rest is `EmptinessIsRevealed`, `DisjointIsExact` and `OutcomesAddUp`.
* `CircuitIsOblivious`: `Following` tells the next gadget, loop index and trial from
  the present ones and the compile-time shape, and every step obeys it, whatever is
  on the wires. It is the circuit's side of what the session assumes, that
  both parties make the same calls without seeing each other's values.
* `ParserTypeCorrect`, `ParserMeetsDnfsAssumption`: by `ParserInv`, which says
  that the cubes stored so far, and the one being read, are real. The second
  theorem discharges, for the parser's output, what the circuit's theorems assume
  of its input.
* `ParserAcceptsWellFormed`, `ParserKeepsMeaning`: by the invariant `Reading`,
  which ties the machine's state to the file's literals, line ends forgotten, up
  to where it has read: the literals of the open cube are those since the last 0,
  each stored cube is the one of its number, and no fault has been passed over.
  The meaning is stated on positions of the stream (how many zeros come before),
  the machine on lines and tokens; the lemmas on blocks of the stream translate.
* `GeneratorTypeCorrect`, `OverlapIsBounded`, `RepairsAreKept`,
  `TwoPassesSuffice`: for every cap, number of variables and number of cubes.
  The invariant says that the candidate is within the cap for every cube of
  ALICE's already visited, and from the second pass on for all of them. It is
  kept since a repair leaves a candidate that shares a subset of the literals
  with any cube, and exactly the cap with the one it was repaired against.
  The comment of `repair_overlap` bounds the passes by `VARS`; two always suffice.
  `GeneratorDelivers` puts together what a benchmark relies on: the returned pair has no
  filler, satisfies what the circuit and the ground truth assume of their inputs, and
  no two of its cubes share more than the cap.
* `PlainIsTheCircuit`: the loop of `plain_conjoin` and the bit vectors of
  `conjoin` give the same cube, for parsed input, and the row and column of a pair
  are the quotient and remainder of its place. `NothingIsLeft`: a temporary file exists
  only between its creation and its removal.
* `CountIsOfTheIntersection`, `CountIsSkippedWhenEmpty`: by `AnswerInv`, which says
  what has been written and read so far. The literals of each written cube are a
  block of the stream that ends in 0, so the cube that the file has at a number is
  the one that was written there (`BlockZeros`), and its models are those of a real
  pair; what a failed write leaves out is a suffix of the cubes.
* `SessionTypeCorrect`, `CallsMatch`, `NoDeadlockWithinCalls`, `SuccessIsJoint`,
  `SessionImplementsJoint`: for every program that both parties share
  (`SameCalls`) and every capacity. The invariant, `LinkInv` of `PartyLinkProofs`, describes the channels exactly: what is
  on its way to a party are the positions of the calls at which its peer sends, from the
  party's own position up to the peer's, in order (`ChannelsOK`,
  `NothingMissed`). It follows that a party that waits for a message is not ahead of its peer
  and one that waits for room is not behind it, so they never both wait.
  Without `SameCalls` the theorems are false, as the mutants of `DemoScript` show.
  `SessionImplementsJoint` is the safety part of the refinement. `DemoIsShared`
  shows that `main.cpp`'s program, its cubes, trials and reveal laid out as 48 calls, satisfies
  `SameCalls`; `DemoSession` states the theorems for it.
* `SweepTypeCorrect`, `SetupStaysOut`, `WholeEstimate`, `PhasesAddUp`,
  `TruthOfInputs`: for every argument, limit and capacity, every answer of pepin, and
  every program whose runs have the shape of `run_one` (`BothSweep`: setup with ping and pong, phases
  entered and left with carried calls between, one last phase that reveals each
  slice, the report). A message carries nothing but its position, so all that a
  party knows, but for pepin's answers, is determined by how many of its calls it has completed. `Took` is that function, the
  inductive invariant `SweepInv` is `LinkInv` with `WhereOK`, that each party is where
  its calls took it, and `TruthOK`: from pepin's call to the report the answer that a party holds is
  about the pair of the current run, or `nullopt`, and each report was told such an answer of its own run. What remains is about `Took` alone and goes by induction on
  the number of calls: that the phases add up to the growth of the counters since the clock started, for
  one party, and that each has sent what the other received, for the two side by side
  (`MirrorTaken`), so that their reports are of the same runs. `TruthOfInputs` is `TruthOK` and
  that: with the same arguments, the pair of a run is made of the halves that both fed into it. `SetupStaysOut` rests on `LinkInv` instead: a party that is past the sync has
  read the other's ping or pong, so the other is past its own setup, and the one that
  waits is not behind.
* `ProgramIsSweep`: `SweepScript`, at any list of points of 1 to 64 variables and
  cubes, satisfies `BothSweep`; the width of its results stays within 128 bits. So
  the five theorems hold of `bench_compare`'s program, which `BenchCompareIsSafe` says.

*Ends.* Liveness is out of the prover's reach, and so is ENABLED; but a system ends
if it can go on until it is where it should end and cannot go on forever, and both of these are
safety. In place of ENABLED the theorems speak of guards (`MayGoOn`, `SweepGoesOn`,
`ParserGoesOn`, `GeneratorGoesOn`). That a guard is all that an action waits for is
proved with it: each action is equivalent to its guard and an assignment of
existing values to every variable (`GuardedStep`, `GuardedNext`,
`GuardedSweep`, `GuardedParsing`, `GuardedGeneration`).

* `StopsOrRefused`: a session has no step left exactly when `run.sh` has exited or waits
  while one party has failed; it is `HangsOnlyAfterRefusal` with its converse. The
  invariant `LinkInv` carries it: of two running parties, the one that is not ahead has
  room to send and what it reads is there (`RunsOrWaits`, `LinkStops`).
  `GoodFilesAreEstimated`: with good files on both sides no step is left only when both have
  finished and the status is 0. `SweepStopsAtEnd` is the same for the sweep.
* `SessionIsBounded`, `SweepIsBounded`: each step increases a measure, the calls posted and
  completed and the stages of the two processes, whose bound depends on the
  length of the program. `BenchCompareEnds` and `DemoSession` are about the two programs
  themselves, where `ProgramIsSweep` and `DemoIsShared` give the hypotheses.
* `ParsingIsBounded`: two steps for each line and one for each token; the position in the
  stream that `Reading` is about is the measure. `GenerationIsBounded`: the
  generator can go on because a cube can always be drawn and an overlap above the cap has
  enough literals to clear (`SubsetOfSize`), and its steps are bounded by the number of cubes
  since two passes suffice.

With the weak fairness stated above, the temporal properties `ParseEnds`,
`GenerationEnds`, `SweepEnds` and the liveness of `ImplementsJointEstimate` follow from these for
every value of the constants; that last inference is not checked by machine.

The sweep's theorems assume of the constants that a soft limit is not above the
hard one (`LimitsAssumption`) and that the script's bounds `MaxTrials`, `MaxCubes` are
numbers (`TurnsAssumption`); `ALICE` and `BOB` are different throughout.

Sums, sequences and recursive functions. What the models fold with the community
modules is proved by way of what the fold satisfies: that a sum over a finite set is the
sum without an element plus that element's (`SumFacts`), that a flattened sequence is
its parts laid end to end (`FlattenFacts`). These go by induction on subsets or on the numbers,
stated as a set that contains 0 and successors, which the prover can use where an
operator parameter is out of its reach.

Only model-checked: `HangsOnlyAfterRefusal` in its form with ENABLED, and
liveness as such (`ParseEnds`, `GenerationEnds`, `SweepEnds`, the liveness of
`ImplementsJointEstimate`), which the proof system does not reach; what is
proved in their place is under *Ends*.

## Findings

Places where a comment says one thing and the code does another; each is a run
that ends in a counterexample.

1. `select_cube.h:35` calls the sample uniform. It is the remainder of a
   power of two, so unless `total` is one too, some samples have one word more.
   They never differ by more than one, and none is left out: `EverySampleReached`
   for the instance, `SamplesNearlyUniform` for every total.
2. `dimacs_dnf.h:41` calls filler an always-true cube, harmless to a caller who
   does not look at `pad`. The estimators' check does not look at it, and filler is
   never satisfied there, on which they depend.
3. `divide_lookup.h:51` bounds the relative error of an entry by 2^-16. The
   rounding is absolute. For 6 covering pairs the relative error is larger, and so it is for
   most counts above, though not for those of which `SCALE` is within one of a multiple
   (8, 15 and 16 are such).
4. `dimacs_dnf.h:60` says that a literal out of range throws. One that no `int`
   holds ends the line without a throw, along with the cubes that follow on it.

Smaller ones, seen in the models and without a run of their own.
`karp_luby_estimate.h:7` calls the estimate unbiased; the bias of the sample
carries over. `dimacs_dnf.h:61` says that a cube with both polarities of a
variable throws; a literal repeated with the same sign throws that error too.
`main.cpp:62` says that a malformed file fails "before either party starts
listening/connecting"; each party knows only of its own file, and the other may
be listening by then. `bench_common.h:102` says that `raise_stack_limit` raises
the soft limit; one above 256 MiB it lowers.

## Not modelled

The emp toolkit is external: its protocol is taken to evaluate the circuit
gate by gate, and only its words, `bits_for` and the direction of its messages
appear. The privacy of the protocol is not a subject of these models. A
connection that breaks within the protocol is not an event: nothing in the code
handles it, and the toolkit ends the process. Read errors in the middle of a file are not events of
the parser's model (the code takes them for the end of the file). `-lit` of the
least `int` is undefined in C++ and not modelled: literals are mathematical
integers. Pepin's answer is not a number here, only the file it is about, and in the
sweep the pair. A failed write cuts that file at the end of a line; what pepin makes of an
unfinished line is its own affair. `std::remove` of the temporary file is taken to
succeed: the code does not look at its result, so `NoFileLeft` says that it is called on every path.
`random_pairs` has a cap between 0 and `VARS`; that others are clamped is the
matter of `OverlapIsBounded`, which is about every cap.
Elapsed time, rounds, the formatting and sorting of reports, the memory reports,
`const_log` and the Chernoff bound of `coverage_trials` (floating-point series,
and never the smaller bound at the benchmarks' `delta`) and the tests are left
out, and so are likelihoods, `density` among them: a draw is any outcome.

## Plan

What would extend the project, in this order:

1. `trial_count.h` with the Chernoff bound, should its series become integers, and
   with it the shapes at which the number of trials is 0.
2. A read error as an event of the parser, once the code tells it from the end of
   the file.
3. The inference from *Ends* to the temporal properties, once the proof system
   reaches ENABLED.
