# Verification of ce-bench

TLA+ models of `@ce-net/bench`, the package that benchmarks the machines and the
links of the CE compute fabric, with TLC runs and TLAPS proofs. Source paths
below are relative to the repository; `net.js`, `runner.js` and so on are the
files of its `src/`.

## 1. The system

ce-bench is plain JavaScript without dependencies: a library (`src/`), two
command line tools (`bin/`) and a web page (`web/scoreboard.html`). It runs in
one event loop, beside a CE node it talks to over HTTP and a hub that runs WASM
tasks in browser tabs. Nothing is stored on disk except reports, so there is no
crash recovery; what makes it hard is that almost every function awaits, that
whatever it awaits can fail, be late or never come, and that the node, the
chain's beacon and the other machines move on meanwhile.

| Component | State it keeps | Operations | Hard behaviour | Correct when |
|---|---|---|---|---|
| Worker pool, `timedBatch` (net.js) | shared operation counter, latencies, errors, first error text, clocks | warm-up, claim, record, return | workers interleave at every await; operations fail at any time | each operation runs once and is counted once; load is kept up; wall time covers the operations |
| Pubsub probe (net.js) | Map of resolvers, one promise and timer per ping, tallies | subscribe, publish, consume the stream, time out, close | echo, timer, publish answer and stream race; timers outlive their ping | one count per ping; a latency is its own echo; the result does not change after the return |
| Object round trip (net.js) | next chunk, hashes, bytes per phase | put all chunks, then get them | first failure rejects while other workers go on | an object that returns moved whole; no chunk is fetched before it is stored |
| Echo responder (echo.js) | subscriptions, stream, counters, `stopped` | subscribe, read, handle, reconnect, stop | handlers are not awaited; stop and abort at any time | one tally per message; a stop ends it |
| Network run (bin/ce-netbench.js) | options, peers, inline responder, report | discover, check, probe, sweep, write | peers' echo comes and goes; own responder shares the node | whole report, one responder for this node's cells only |
| HTTP clients (ce.js) | timer and AbortController per call | JSON, raw body, mesh request, hub task, listing | slow and silent servers, before or within the body | bounded time, refusals are errors |
| Fabric sweep (runner.js) | seed, results, rows per node, result map | resolve seed, local suite, list, dispatch, merge | beacon moves; nodes leave; one of many fails | one seed, nothing lost, everybody reported |
| Verifier (runner.js, benchmarks.js) | claim, evidence, fresh run | recheck, re-run, compare | fresh run fails, or is taken elsewhere | honest claims verified; those the target cannot show are not |
| Profile publication (profile.js) | run, beacon, profile | read beacon, measure, assemble, POST, signal | lost answers, refusals, upgrades | published once, with the beacon it was measured with |
| Profile assembly (profile.js, types.js) | compute totals, samples, GPUs | coerce, fold, choose, validate | results in any order | always valid; headlines are proved by samples |
| Profile board (fabricstats.js) | profiles by node, trust by node | collect, dedupe, read histories | two sources read one after the other | freshest valid profile of everyone; no trust unread |
| Mesh health (fabricstats.js) | edges, union-find parents | fuse, union, count | order of unions, compression | counts are those of the graph |
| Totals (fabricstats.js) | sums, clamped sums, weights | aggregate, weight | absurd values, order, odd trusts | no one inflates; order does not matter |
| Scoreboard page (web/scoreboard.html) | base address, rows, status, interval | tick, refresh, change, toggle | ticks overlap, and the address changes between their requests | one drawing is of one node, in the end of the one the page names |
| Single-purpose probes (net.js) | a batch, its calls and their timers; for cold fetches the blobs kept here | RPC, send, put, get, get from another node | a server silent before the headers or in the body; a blob that is here already | over in time; a blob this node stored or fetched before is not measured again |
| Canonical encoding (profile.js, ce.js) | none | canonical bytes, hex | order of members, nesting, absent values | the same profile has the same bytes, another one has others |
| Kernels' tuning (benchmarks.js) | iteration count, last run | time, scale, accept | hosts of any pace, clock too coarse | the figures are of the run that was timed |
| Judgements by history (fabricstats.js, runner.js) | two readings of one record | weigh, flag | spellings, coercions, work between the readings | one does not trust what the other calls implausible |
| Kernels' arithmetic, rendering, facades | none | - | - | see section 7 |

Interactions: `bin/ce-netbench.js` calls the probes of net.js, each of which is
one `timedBatch` around client calls, and starts the echo responder in its own
process when its peer is itself. `benchFabric` calls the local suite and, through
the hub, the kernels; its results go to `buildAndPublish`, which assembles and
publishes a profile. The board reads profiles of every node back from the node,
`computeFabricStats` computes totals and mesh health from them, and the page
shows these. `verifyProbe` takes one result and runs it again.

The hazards of the code, each at its line and with the properties that would
catch it going wrong, are listed in `PROJECT.json` under `hazards`.

## 2. Modules

One action is everything the program does between two awaits: JavaScript does
not interrupt it. The environment (node, hub, peers, chain, clock) has actions
of its own, marked external in the map. `PROJECT.json` maps every definition to
its lines.

- **Batch** is the abstract specification: operations begun in order, at most
  `Limit` in flight, each settling once, one report that counts them all, made at
  last. It has no counter, no workers and no clock.
- **WorkerPool** is `timedBatch` in detail. `WarmUp` is one await of the warm-up
  loop; `Launch` makes the workers and the first claims; `Settle(w)` records an
  operation, claims the next number and starts it; `Return` is the continuation
  of `Promise.all`. `claims` is a history of who claimed what, for the properties.
  It implements Batch (`ImplementsBatch`).
- **PubsubProbe**: `SubscribeRes`, `SubscribeReq`, `Publish`, `Close` are the
  awaits of the probe; the consumer task, the timers and the stream are actions
  of their own; the mesh loses, delays, repeats and reorders. One ping at a
  time, it implements Batch with limit one.
- **EchoResponder**: the caller and the signal, the four subscriptions, the
  stream with its chunks and losses, and one handler per message. A blob request is first
  stored, up to the headers of the put, then waits for the hash in its body (`hashing`),
  which no timer ends, and then replies.
- **ObjectRoundtrip**: both phases of one call, and the loop over sizes in the
  command line tool, which is what lets a failed call's workers meet the next call.
- **NetbenchRun**: the command line tool from arguments to report, section by
  section in order; a sweep is a number of cells. A `--peer` may name this node (`Id`), which
  is then a target like the others; `Self` is the label of the node's own sections.
- **CeCall**: a client call of five kinds as a record, and what becomes of it when the
  server is heard, the timer goes off or time passes. **CeRequest** is one call in time
  (`CallHears`, `CallExpires`, `CallWaits`).
- **TimedProbe** composes WorkerPool and CeCall on one clock: a single-purpose probe. Its
  continuations go first, then time. It implements WorkerPool with its fairness
  (`ImplementsPool`), for JSON calls without any assumption on the node.
- **FabricSweep**: `benchFabric` and everything it calls, down to one kernel. The
  ghost `ran` holds what was really measured. A kernel that throws is met by the inner `try`
  (`KernelFails`), what throws before the kernels by the outer one, which makes the row with
  an error (`NodeFails`). That a hub runs a task where it was sent is the hub's word:
  `hubRes.node` is never looked at.
- **ProfilePublish**, **ProfileBoard**, **ScoreboardPage**: the profile's way from a
  measurement to the page. ProfileBoard's reader may take the node's own figures (`AskNode`),
  and else computes its own, with the histories when it verifies and the netgraph at last.
  What /beacon answers reaches a profile through `Coerced`: a malformed answer is height 0 or
  the empty hash, and is published. A tick of the page is its client, the requests left of its
  four parts, and who has answered; what is drawn is kept as the nodes it came from.
- **ProfileAssembly** (with `detectEnv` as `Detected`), **FabricTotals**, **MeshHealth**,
  **VerifyProbe**, **CanonicalProfile**, **AutoTune**: sequential computations. Each has its
  own `...Init` and `...Next`, takes an input in its first state and computes
  step by step, one step for one turn of the code's loop. In ProfileAssembly a metric may be
  negative, infinite or missing, and `Pick` and `Sample` are the two functions of the code, each
  with its own guards. In VerifyProbe every probe and kernel ships the fields of its own
  evidence and computes its metric from them; `Expected` has the formulas of recheck with their
  fallbacks (`Given` is `??`); figures are whole millionths of a unit, and `described` says
  whether the kernels' descriptors have a `kind`. In CanonicalProfile a key, a number or a word is one byte, and every
  value has its depth. In AutoTune a
  host does so many iterations in a millisecond, and its pace may change between runs.
- **Plausibility**: a node goes on working while its record is weighed (`historyTrust`) and
  flagged (`plausibilityCheck`), at two moments. **RemoteFetch**: the loop of cold fetches
  against a responder whose answers may fail, be somebody else's, or name a blob that is known.
- **MCFigures** extends these eight and CeRequest and gives them their inputs; its
  variable `part` picks what a behaviour runs, and the others hold still.
- The eight **_proofs** modules hold the theorems. FabricSweep and PubsubProbe
  have one each. **NetbenchRun_proofs** is also about EchoResponder, **Bytes_proofs** about
  ObjectRoundtrip and CanonicalProfile, **WorkerPool_proofs** about
  TimedProbe and CeRequest, **ProfilePublish_proofs** about ScoreboardPage and MeshHealth, and
  **Figures_proofs** about RemoteFetch, Plausibility, VerifyProbe, ProfileAssembly, ProfileBoard, FabricTotals and
  AutoTune. **FiniteSums_proofs** has what these share: induction over numbers and finite sets,
  and the lemmas about the sums of the community modules.
- The other **MC** modules only give values to constants that a cfg cannot express
  (operators, tuples of records); elsewhere the cfg instantiates the module itself.

Data are abstracted to what the properties distinguish: a result is its kind,
seed and machine, a chunk its number, a ping's nonce its number, a profile its
node, time and content, a mean a fraction, a trust a whole number of parts.

## 3. Passing runs, bounds and what they show

| Run | Instance | Shows |
|---|---|---|
| `pool` | 4 operations, 2 workers, 1 warm-up, clock to 3 | the proved invariant (`IInv`); all operations counted at the return, the load kept up, the latencies fit the wall time; Batch is implemented |
| `pubsub` | 3 pings | the proved invariant (`ProbeInv`); a latency is its own echo's; a returned result is frozen though timers still fire; Batch is implemented, and so the probe returns whatever is lost |
| `sweep` | this machine, two listed nodes (one of them itself), 2 kernels, one block | one seed, nothing lost, each listed node has a row, an end once the hub has answered |
| `echo` | 4 messages of every kind, 2 stream losses, a hash withheld | exact tallies, no message of a read chunk lost, stopping ends it |
| `netbench` | this node and 2 others, 2 cells a sweep, atlas of 2, up to two `--peer` | whole report, nothing skipped counted as failed, own responder for own cells only |
| `object` | chunks 3 and 2, 2 workers | a call that returns moved whole objects; no early fetch |
| `probe` | 1 warm-up and 3 operations of 2 workers, JSON or blob calls, timeout 2 | a probe of JSON calls is over in one timeout for each round; what WorkerPool assumes of its operations holds |
| `publish` | 2 runs, 2 blocks, 2 seconds | seed is the beacon measured with, no backdating but by an answer that is no beacon, one way of publishing, no lost profile after a success |
| `board` | 2 nodes, one with a clock ahead, 3 profiles, clock to 2, 2 signals kept | unless the node served the figures, they are of the freshest valid profiles that were shown |
| `page` | 3 ticks in flight, with a part of two requests and one of one, 2 addresses, 2 changes, a malformed answer | no drawing mixes two nodes, and the page ends on the node it names |
| `figures`, assembly | up to 3 results, with metrics that are negative, infinite or missing, 4 environments and 3 hosts to detect | always valid, headline audited by a sample, named GPU counted once |
| `figures`, totals | up to 3 profiles of 2 x 3 x 3 values | verified counts stay below displayed ones, one of three cannot inflate |
| `figures`, mesh | 4 nodes, 3 rows, two measurements | both counts and the median against their definitions |
| `figures`, verification | rates 4 and 5 on the subject, 1 elsewhere, 6 kinds by suite and hub, claims scaled to -4 .. 8, 1000 written as 2, tolerance 25 % | honest claims verified by every formula; what the subject cannot show is caught by a fresh run, with the two exceptions below |
| `figures`, canonical | objects of up to 2 members over 12 values, 3 payloads | equal content gives equal bytes, other content others; hex loses nothing |
| `figures`, tuning | hosts of 1 to 100 000 iterations a millisecond, whose pace may change; 3 targets, 2 starts | the count and the time reported are of one run, long enough, and on a steady host no longer than it has to be |
| `figures`, judgement | 2 jobs, every spelling, claims at both sides of both limits | who had trust is not implausible later; a big claim passes over work only |
| `figures`, fetch | 4 iterations, 1 blob held before | no time is of a blob this node had, unless that answer named it; each iteration is a time or an error |
| `figures`, call | timeout 8, 12 ticks | a call under a timer settles by the timeout |

Why these bounds are enough. Two workers and four operations give each worker a second claim
while the other is busy, and an exit while the other still runs. Three pings let the echo
and the timer of the first arrive during the second, during the third and after the return.
Four messages cover every topic, and two losses one within a chunk and one while
reconnecting. A last partial chunk and an object with fewer chunks than the one before are
the boundaries of the chunk arithmetic. One block may arrive between any two steps of a
sweep. A third row is needed for a triangle and for a path of three edges, a third profile
for a median that one machine does not move, a third tick for one that is neither first nor
last. A probe of three operations has a second, partly filled round, and its clock goes past
the bound claimed. Rates range from a host for which the first run is long enough to one
that is scaled many times; as the count at least doubles, the forty tries of the code are
never used up. MaxN stands for the code's far larger cap. The MaxClock, Horizon, MaxRows,
MaxPublish, MaxDrops, MaxFlight, MaxChanges, MaxOptions, MaxAtlas, MaxResults, MaxProfiles,
MaxHeight, MaxJobs, MaxN and Runs constants are bounds of the models and not of the code;
the guards they occur in are commented where they are declared.

## 4. Fairness

Safety is checked under no assumption, and only six modules state fairness:

- WorkerPool: weak fairness of every step, for the refinement of Batch's report.
  The run `probe` derives it: TimedProbe implements WorkerPool's `FairSpec` when the
  operations are client calls.
- TimedProbe: continuations that are ready run, timers that are due go off, time passes.
  The body of a blob is read without a timer (`request_raw`), so the node is assumed to
  end one it has begun (`EndsBlob`); of JSON calls nothing is assumed.
- PubsubProbe: the probe's own awaits, which are JSON calls with a timer, and its
  timers. Nothing of the mesh, the responder or the stream is fair: every echo may
  be lost.
- EchoResponder: its sleep, the abort of its stream's reader, and its requests under a
  timer: JSON calls, and a put up to its headers (`TimedSettles`). The body of a put may never
  come; `ReadIsHandled` says that it holds up its own message only. No message ever has to come.
- FabricSweep: the steps that follow the listing. A hub task ends within 35 s by its
  own timer; the listing has no time limit, so `SweepEnds` says that a sweep ends
  once it is answered.
- ScoreboardPage: the browser's interval goes off, and the oldest tick in flight moves on
  (`TickMoves(1)`), both weakly: its requests are client calls with a timer.

Deadlock checking is off only where the program really ends, which each cfg says.

## 5. Where the text and the code disagree

One disagreement is checked as a run of its own: `request_raw` has TLC show that a
client call with a timer does not settle in time (`RawInTime`). The comment of `_raw`
(ce.js:179) speaks of a raw-body fetch with a per-request timeout, but its `finally`
clears the timer with the headers, and `putBlob` and `getBlob` read the body after that.
The passing property `InTime` leaves these two calls out for this reason.

The others were met while modelling. The models follow the code, and no property claims
what the text says:

| Where | The text | The code |
|---|---|---|
| runner.js:149, 159 | a node's failure is captured in its `error` | kernels' failures are swallowed; `error` is set only by what throws before them |
| runner.js:238, 200 | delta is 0 when nothing fresh was measured | also when 0 was measured, and when the claim is negative |
| runner.js:409, 414 | the matching kernel is dispatched | the suite's descriptors have no `kind`, so none matches |
| benchmarks.js:765, 813 | recheck agrees with each probe's raw | not for a bandwidth probe with a failed call |
| echo.js:49, 30 | runs until the signal aborts | a signal aborted during the subscriptions is not noticed |
| net.js:359, 327 | `concurrency` transfers in parallel | workers of a failed object overlap the next one |
| net.js:120, 81 | operations per second are iterations over wall time | successes over wall time |
| net.js:140, ce.js:57 | mesh timeout 10 s by default | the client gives up after 8 s |
| ce.js:388, 6 | per-request timeout | none for the two listings of the hub |
| ce-netbench.js:94, 41 | a dropped connection never aborts the run | two of three responder starts are not caught |
| _env.js:39, ce-netbench.js:5 | `--peer` may be repeated | the last one replaces the others |
| profile.js:500, 480 | a real error must surface | one whose text says "not found" is taken for a missing route |
| fabricstats.js:210, 194 | dedupe is order-independent | equal times keep the first |
| fabricstats.js:208, 207 | a small grace for future times | any future time is accepted |
| fabricstats.js:476, 356 | an unmeasured node is a region of its own | the measured local node is one as well |
| fabricstats.js:81, 64 | one machine cannot inflate the headline | one of two can; `OneCannotInflate` says it from three on |
| fabricstats.js:622, 551 | a node without history weighs about 0 | its zero moves the median of the others |
| fabricstats.js:542, runner.js:299 | both judge a node by its delivered work | one reads the count as a number under one name, the other as number or text under two |
| fabricstats.js:469, 471 | a complete scoreboard | without a netgraph it has nodes and no region |
| net.js:275, 283 | a blob of another node is fetched cold | only if the other node is another, and its answer names a blob that is not here |
| scoreboard.html:354, 361 | "Cannot reach CE node" | none of the four rejects: a node that answers nothing is shown as "live" |
| profile.js:531, 529 | the beacon makes a profile non-backdatable | an answer that is no beacon is published with height 0 and an empty hash |
| net.js:441, 442 | a timed-out ping is an error of the probe | after a failed publish its rejection is awaited by nobody; Node ends unless someone handles it, as ce-netbench.js:46 does |

## 6. Proofs

The theorems hold for every value of the constants that meets the module's ASSUME, which
TLC evaluates in the runs. The assumptions are about types, distinctness and finiteness,
with one more in ProfileAssembly: the kinds of the results are no more than the samples a
profile may carry (`KindsFit`), and these at most 16, as validateProfile has it; the code
knows six kinds. Two theorems state a hypothesis of their own, named below. Every other
invariant that a run checks is proved.

**The engines**

- *WorkerPool* (`PoolAssumption`). `IInv` is inductive: the counter is ahead of every claim by as
  much as the workers that found it run out (`OverrunsHeld`), claims of busy workers and
  recorded operations are distinct (`ClaimsDistinct`, `LatenciesDistinct`), and what is
  claimed is busy, recorded or counted as an error (`SettledCounted`). None of the
  properties is inductive alone: that no number is run twice needs that a new claim, the
  counter's value, is above all old ones, and that all are counted at the return needs the
  cardinalities. `InvariantHolds`, `NoOpTwiceHolds`, `EveryOpCountedHolds`, `SaturatedHolds`.
- `BusyTimeFitsWallHolds`: the latencies sum to at most the wall time of all workers. The sum is
  over a sequence that operations join in the order they end; `BusyInv` adds to it how long each
  worker has been at its present operation (`Elapsed`), which grows with the clock and moves
  into the sequence when the operation ends.
- `ImplementsBatchSafety`: the pool refines the safety part of Batch. `StatusRead` reads an
  operation's state off the counter and the two sets; each settlement moves one operation
  on and begins the next (`AdvanceOfBatch`, `SettleRefines`), and the counts of the report
  are cardinalities (`ReturnRefines`).
- *TimedProbe* and *CeRequest* (`ProbeAssumption`, `CallAssumption`). `CallArmed`: a call that promises
  a timer has it armed, with time left or just due, as long as it is open; `CallInTime`
  follows. `ImplementsPoolSafety`: with client calls for its operations the probe takes the
  steps of WorkerPool and no others. `ReturnsInTimeHolds`: a probe of JSON calls is over in one
  timeout for each warm-up call and each round, for any number of operations and workers.
  The induction (`TimedInv`) is that of a queue: an operation of round r is claimed only when
  one of round r - 1 is settled, hence one timeout after that round began at most.
- *PubsubProbe* (`ProbeAssumption`). `ProbeInv` relates the place of the probe to the current ping,
  the Map to the promises and timers, the latencies to the finished pings, and counts
  them. `EveryPingCountedHolds`, `LatencyIsOwnEchoHolds`, `UnhandledIsCountedHolds`,
  `PendingHasTimerHolds` follow, and `ResultFrozenHolds`, an action property: late echoes and
  timers find no resolver. `ImplementsBatchSafety`: one ping at a time is a Batch with limit one.
- *FabricSweep* (`SweepAssumption`). `SeedInv` follows the seed through the frames of the four
  calls (`seed`, `sweepSeed`, `nodeSeed`) and every place a result waits in; the lemma
  `ResolvedSeedKept` is where the empty seed could go wrong. `HeldInv` adds that what ran is in
  one of these places and what is in them ran. `ReportedInv`: a listed node is still to be
  dispatched to, or has its row. `OneSeedHolds`, `NothingLostHolds`, `EveryNodeReportedHolds`.

**The network benchmark**

- *EchoResponder* (`ResponderAssumption`), for any finite set of messages and any number of losses.
  The tally compares counters with sets of messages, so `TallyInv` adds what keeps the sets
  apart: what was read and not yet handled is distinct messages, none of them tallied
  before, and a handler waits only for a topic that is served. `ResponderTally`.
- *ObjectRoundtrip* (`RoundtripAssumption`). `FetchesStored` is no more inductive than that all
  uploads are over when the downloads begin: `LoopsInv` says that each claimed chunk is stored
  or in flight and that a worker returns only when none is left, also for the workers a
  failed call left behind. `TimedInv` counts on top of it: the chunks timed in a phase are
  those claimed and no longer held, each once (`Tally`), so at the end a bijection with all
  chunks. `RoundtripFetchesStored`, `RoundtripTimes`, `RoundtripOkIsWhole`.
- *NetbenchRun* (`RunAssumption`), for any peers, options, atlas and number of cells. `RInv` goes by
  the order of the sections: those before the present one are whole, those after it empty,
  and the present one has its targets up to the one it is at (`SoFar`); whom a section
  measures no longer changes once it runs (`TargetsStay`). `WholeReportHolds`,
  `ResponderOnlyForSelfHolds`.
- *RemoteFetch* (`FetchAssumption`). `FetchInv`: the blob that is awaited is not here, unless this
  iteration's answer named one that was. `RemoteFetchesCold`.

**A profile's way to the page**

- *ProfileAssembly* (`AssemblyAssumption`, `KindsFit`), for any results in any order and any host.
  `HeadlineAuditedHolds`: every figure of the compute totals is that of a sample shipped with it,
  unless the first result of the kind has no finite metric, which makeBenchResult prevents.
  `PickIsBest` says what pick chooses, `SampleIsPick` that selectSamples, with its other guards,
  then keeps the same one.
  `NeverInvalidHolds`: what was assembled passes validateProfile, in particular the samples fit,
  one for each kind. `NamedGpuOnceHolds` needs a bound on how often a model is listed
  (`bound`), which a merge does not raise as it updates the entry it finds.
- *CanonicalProfile* (`CanonicalAssumption`), for any profiles nested to any finite depth.
  `SignedAsMeantHolds`: two profiles have the same bytes exactly when they say the same,
  however they were built. `CanonicalInv` says how far the sending has got; the rest is
  about the encoding. The three recursive functions (`CanonicalJson`, `Meaning`, `Altered`)
  have the values their equations give, as a walk over the values of each depth exists
  (`WalkExists`, `OfEachValue`). Sorting is by rank, and objects with the same keys have them in the same
  places (`ByKeyIs`, `SameKeysSamePlaces`): same meaning, same bytes (`AllAlike`). Back, texts are
  read from their end: the last byte of a value tells its kind, and lists that end alike are
  equal member by member (`ListsRead`, `AllTell`). A throw is in the text just when JSON would
  alter the profile (`AllWritten`), and the hex gives the bytes back (`HexIsBytes`).
- *ProfilePublish* (`PublishAssumption`). `PublishInv`: while a run is under way all that was
  published is of earlier runs, from no later than its clock and, but for what stands for no
  answer, its beacon. The order of publications, `PublishedInOrder`, needs it for the one that
  is added; whatever /beacon answers is covered. Also `PublishedSeed` and
  `PublishedOneWay`.
- *ProfileBoard* (`BoardAssumption`), for any finite set of nodes, clocks that run ahead and any
  number of signals kept. `BoardInv` says what each step of the reader knows: what was
  gathered was shown (`Gathered`), the board has the latest of each node among it (`Freshest`),
  and the figures are those of the board (`Returned`). `FreshestShownHolds`.
- *FabricTotals* (`TotalsAssumption`), for any number of profiles and any figures and trusts.
  `TotalsInv` has both passes as partial sums. `OneCannotInflateHolds` rests on the lemma that the
  median of three or more values is at most one of the others' (`MedianBound`), so that one
  value above the cap is not added at all, whoever reports it.
- *ScoreboardPage* (`PageAssumption`), for any number of ticks in flight, parts, requests and
  addresses. `PageInv`: each part of a tick asks the node the tick was begun for, and only that
  node has answered it. `OneNodeShownHolds`.
- *MeshHealth* (`MeshAssumption`), for any netgraph over any ids. `CountsAreOfGraphHolds` goes by
  `MeshInv`: what is fused is the graph of the rows that were read, with the sums over them
  (`FusedInv`), and in a pass the parents are a forest whose trees are the components of the
  edges joined so far (`PassInv`). A forest is stated by a set of nodes above each node, which
  shows that find ends (`RootIs`), that compression changes no root (`CompressedForest`) and
  that a union merges two trees (`UnionForest`). A tree is then the least closed set that holds
  its nodes (`GroupsAreReached`); the counts follow by a bijection (`RootsCount`) and as a sum over
  disjoint sets (`PairsOfRoots`), and the median by rank (`MedianHalves`).

**The judgements**

- *VerifyProbe* (`VerifyAssumption`: the levels of false claims are any integers). One lemma for each
  probe and kernel (`CpuFlopsIs` to `LoopToResultIs`) shows that recheck's formula for its kind
  gives back its metric from the evidence it ships. `VerifyInv`: a fresh figure is one that the
  machine it was taken on can report. `FabricatedCaughtHolds`: a claim that a fresh run on the
  subject verifies is near something the subject can show. Exactly two sorts of claims escape,
  as runner.js:238 then compares nothing, and TLC finds a counterexample without either:
  a negative metric, and a kind whose fresh run is always 0 (`ShowsNothing`). `HonestVerifiedHolds`
  has the hypothesis `SubjectSteady`: two runs on the subject differ by no more than the
  tolerance; nothing in the code sees to it.
- *Plausibility* (`PlausibilityAssumption`). `JudgeInv`: a record only grows, so what gave it trust
  still shows work when it is checked; any number of jobs, any claims. `JudgedAlike`.
- *AutoTune* (`TuneAssumption`). The count and the time are of one run, long enough and not much
  longer. `TunedRunIsEvidenceHolds` has the hypothesis `RoundsReach`: the start, doubled once a round,
  and the largest count are enough for every host. 40 rounds from 256 or 4096 iterations
  reach 2^47, so the code's numbers meet it for every host there is.

tlapm does not expand its library's recursive operators, and knows no induction over data.
Where a proof needs what a recursive function computes (a sum, a filter), it shows that a
function with the defining equations exists, by the least number missing from a set
(`NatSet`), and that every such function has the property; FiniteSums_proofs does so for the
sums of the community modules. CanonicalProfile has the depth of each value as a constant
(`Depth`), as a value of JSON is finite, and its functions are walked through by it. For this the models write filters and ranks as recursive
functions or by their definition where the code loops or sorts (`Without`, `Decoded`,
`RobustSum`, `Sorted`, `Ranked`).

`IInv` and `ProbeInv` are also invariants of the runs `pool` and `pubsub`; of the others, TLC
checks the properties that follow.

Only model-checked:

- Liveness under fairness, and all that has ENABLED: `SweepEnds`, `StopEnds`, `ReadIsHandled`,
  `EndsOnThisNode`, and of `ImplementsBatch` and `ImplementsPool` the part that says that the
  report comes at last.
- `RawInTime` is refuted by a run (section 5).

## 7. Not modelled

- The kernels' arithmetic, the WASM module and the generator: floating-point and BigInt
  loops whose figures are evidence; AutoTune and VerifyProbe have what their callers do
  with work, time and metric. `memBandwidth` keeps the samples above zero, and reports one
  millisecond if there is none.
- How JSON writes a key, a number or a word; the names and flags of an environment.
- `perfScore`, and the percentiles of `stats`: pure arithmetic on totals and latencies.
- The facades of index.js: each coerces its arguments and calls `benchFabric` or the reader.
- Markdown, terminal and SVG output, the page's table and map drawing; the examples.
- The CE node, the hub, the chain and the mesh are not in the repository. They are
  environment actions: whatever order, loss and failure the client code can meet.

## 8. Plan

All parts with state of their own are modelled: the engines (WorkerPool with Batch,
PubsubProbe, FabricSweep), the network benchmark (EchoResponder, ObjectRoundtrip, CeRequest,
TimedProbe, RemoteFetch, NetbenchRun), the profile's way to the page (ProfilePublish,
ProfileAssembly, CanonicalProfile, ProfileBoard, FabricTotals, MeshHealth, ScoreboardPage) and the
judgements of it (VerifyProbe, AutoTune, Plausibility). Every invariant that the
runs check is proved. The properties under fairness stay with TLC.
