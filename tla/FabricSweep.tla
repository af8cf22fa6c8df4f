---------------------------- MODULE FabricSweep ----------------------------
(***************************************************************************)
(* benchFabric of src/runner.js with what it calls: resolveSeed and        *)
(* coerceSeed, benchLocal, benchAllBrowserNodes and benchBrowserNode.  One *)
(* sweep benchmarks this machine and every browser node the hub lists,     *)
(* while the beacon moves on, browser nodes leave and requests fail.  An   *)
(* action is everything between two awaits.                                *)
(***************************************************************************)
EXTENDS Naturals, Sequences

CONSTANTS Node,        \* ids the hub can list
          Self,        \* the id /status gives for this machine
          Local,       \* the literal "local", used when /status fails
          Kind,        \* the kinds of result there are
          Kernels,     \* the kinds BROWSER_KERNELS measures, in order
          Probes,      \* kinds of the local suite
          Hash,        \* beacon hashes, by height
          MaxHeight,   \* bound on the beacon's height
          NoSeed,      \* seed argument that was not given
          Empty        \* the empty hash, the seed of an unseeded run

ASSUME SweepAssumption ==
  /\ Local \notin Node /\ Local # Self
  /\ Kernels \in Seq(Kind) /\ Probes \subseteq Kind
  /\ MaxHeight \in Nat
  /\ NoSeed # Empty /\ \A h \in 0 .. MaxHeight : Hash[h] # NoSeed

Seeds == {Hash[h] : h \in 0 .. MaxHeight} \cup {Empty}

\* by is the machine the probe was sent to, via how it was asked to; the code
\* keeps kind and seed only, the others say what a result is evidence of.  That
\* a hub runs a task on its target is the hub's word: hubRes.node, the machine
\* that says it ran it, is never looked at (lines 143-148).
Result == [kind : Kind, seed : Seeds, by : Node \cup {Self},
           via : {"local", "hub"}]

VARIABLES opts,       \* what the caller asked for
          height,     \* the node's beacon, as /beacon would give it
          live,       \* browser nodes connected to the hub
          pc,         \* the await the sweep is at
          seed,       \* the seed of the sweep (benchFabric, line 338)
          localId,    \* key of the local results
          map,        \* node id -> results, what benchFabric returns
          sweepSeed,  \* the seed in benchAllBrowserNodes
          todo,       \* listed nodes not yet benchmarked
          node, nodeSeed, k, out,  \* benchBrowserNode: target, seed, loop, results
          rows,       \* listed node -> its row: results and error
          ran,        \* every result produced so far (history)
          listed      \* the nodes the hub gave (history)

vars == <<opts, height, live, pc, seed, localId, map, sweepSeed, todo, node,
          nodeSeed, k, out, rows, ran, listed>>

Opts == [local : BOOLEAN, browsers : BOOLEAN, seed : Seeds \cup {NoSeed}]
Row == [results : SUBSET Result, error : BOOLEAN]

TypeOK ==
  /\ opts \in Opts
  /\ height \in 0 .. MaxHeight
  /\ live \subseteq Node
  /\ pc \in {"start", "status", "local", "list", "sweep", "kernel", "done"}
  /\ seed \in Seeds /\ sweepSeed \in Seeds /\ nodeSeed \in Seeds
  /\ localId \in {Self, Local}
  /\ DOMAIN map \subseteq Node \cup {Self, Local}
  /\ map \in [DOMAIN map -> SUBSET Result]
  /\ todo \subseteq Node
  /\ node \in Node \cup {Local}
  /\ k \in 1 .. Len(Kernels) + 1
  /\ out \subseteq Result
  /\ DOMAIN rows \subseteq Node
  /\ rows \in [DOMAIN rows -> Row]
  /\ ran \subseteq Result /\ listed \subseteq Node

None == [n \in {} |-> {}]   \* the empty Map

\* Map.set
Put(f, key, value) ==
  [n \in DOMAIN f \cup {key} |-> IF n = key THEN value ELSE f[n]]

Init ==
  /\ opts \in Opts
  /\ height = 0 /\ live \in SUBSET Node
  /\ pc = "start"
  /\ seed = Empty /\ sweepSeed = Empty /\ nodeSeed = Empty
  /\ localId = Local /\ map = None
  /\ todo = {} /\ node = Local /\ k = 1 /\ out = {}
  /\ rows = None /\ ran = {} /\ listed = {}

-----------------------------------------------------------------------------
(***************************************************************************)
(* The surroundings: blocks arrive and browser tabs close.                 *)
(***************************************************************************)
BeaconAdvances ==
  /\ pc # "done" /\ height < MaxHeight
  /\ height' = height + 1
  /\ UNCHANGED <<opts, live, pc, seed, localId, map, sweepSeed, todo, node,
                 nodeSeed, k, out, rows, ran, listed>>

NodeLeaves(n) ==
  /\ pc # "done" /\ n \in live
  /\ live' = live \ {n}
  /\ UNCHANGED <<opts, height, pc, seed, localId, map, sweepSeed, todo, node,
                 nodeSeed, k, out, rows, ran, listed>>

(***************************************************************************)
(* The sweep.                                                              *)
(***************************************************************************)
\* The seeds a call can resolve: the beacon's hash now, or the empty one
\* when the node is away or its answer has no hash.
ResolveSeed == {Hash[height], Empty}

\* Slip: an empty hash is taken for a seed that was not given.
CoerceSeedTruthy(arg) ==
  IF arg \in {NoSeed, Empty} THEN ResolveSeed ELSE {arg}

\* A seed argument is used as it is, the empty one included.
CoerceSeed(arg) == IF arg = NoSeed THEN ResolveSeed ELSE {arg}

AfterLocal == IF opts.browsers THEN "list" ELSE "done"

Start ==
  /\ pc = "start"
  /\ seed' \in CoerceSeed(opts.seed)
  /\ pc' = IF opts.local THEN "status" ELSE AfterLocal
  /\ UNCHANGED <<opts, height, live, localId, map, sweepSeed, todo, node,
                 nodeSeed, k, out, rows, ran, listed>>

\* A failed /status keeps the literal key.
ReadStatus ==
  /\ pc = "status"
  /\ localId' \in {Self, Local}
  /\ pc' = "local"
  /\ UNCHANGED <<opts, height, live, seed, map, sweepSeed, todo, node,
                 nodeSeed, k, out, rows, ran, listed>>

\* The local suite gives all its results or, when a probe throws, none.
BenchLocal ==
  /\ pc = "local"
  /\ \E s \in CoerceSeed(seed), ok \in BOOLEAN :
       LET results == IF ok THEN [kind : Probes, seed : {s}, by : {Self},
                                  via : {"local"}] ELSE {}
       IN  /\ map' = Put(map, localId, results)
           /\ ran' = ran \cup results
  /\ pc' = AfterLocal
  /\ UNCHANGED <<opts, height, live, seed, localId, sweepSeed, todo, node,
                 nodeSeed, k, out, rows, listed>>

\* GET /nodes: the live nodes, or a failure that leaves nothing to sweep
\* (its one error row has no node and is dropped by benchFabric).
ListNodes ==
  /\ pc = "list"
  /\ \/ todo' = live /\ sweepSeed' \in CoerceSeed(seed)
     \/ todo' = {} /\ UNCHANGED sweepSeed
  /\ listed' = todo'
  /\ pc' = "sweep"
  /\ UNCHANGED <<opts, height, live, seed, localId, map, node, nodeSeed, k,
                 out, rows, ran>>

\* Slip: the outer catch goes on to the next node and leaves no row.
NodeSkipped(n) ==
  /\ pc = "sweep" /\ n \in todo
  /\ todo' = todo \ {n}
  /\ UNCHANGED <<opts, height, live, pc, seed, localId, map, sweepSeed, node,
                 nodeSeed, k, out, rows, ran, listed>>

\* benchBrowserNode throws before its loop, in selectKernels or browserPreset
\* on the kernels and presets of an injected suite, and the outer catch makes
\* the row.
NodeFails(n) ==
  /\ pc = "sweep" /\ n \in todo
  /\ rows' = Put(rows, n, [results |-> {}, error |-> TRUE])
  /\ todo' = todo \ {n}
  /\ UNCHANGED <<opts, height, live, pc, seed, localId, map, sweepSeed, node,
                 nodeSeed, k, out, ran, listed>>

StartNode(n) ==
  /\ pc = "sweep" /\ n \in todo
  /\ node' = n /\ k' = 1 /\ out' = {}
  /\ nodeSeed' \in CoerceSeed(sweepSeed)
  /\ pc' = "kernel"
  /\ UNCHANGED <<opts, height, live, seed, localId, map, sweepSeed, todo,
                 rows, ran, listed>>

KernelResult ==
  [kind |-> Kernels[k], seed |-> nodeSeed, by |-> node, via |-> "hub"]

\* A kernel runs on a node that is still there.
KernelRuns ==
  /\ pc = "kernel" /\ k <= Len(Kernels) /\ node \in live
  /\ out' = out \cup {KernelResult}
  /\ ran' = ran \cup {KernelResult}
  /\ k' = k + 1
  /\ UNCHANGED <<opts, height, live, pc, seed, localId, map, sweepSeed, todo,
                 node, nodeSeed, rows, listed>>

\* Slip: a kernel that failed is tried again.
KernelRetried ==
  /\ pc = "kernel" /\ k <= Len(Kernels)
  /\ UNCHANGED vars

\* The hub refuses the task, times out, or the result does not convert.
KernelFails ==
  /\ pc = "kernel" /\ k <= Len(Kernels)
  /\ k' = k + 1
  /\ UNCHANGED <<opts, height, live, pc, seed, localId, map, sweepSeed, todo,
                 node, nodeSeed, out, rows, ran, listed>>

\* The loop catches every failure of a kernel: once in it, a node has a row
\* without an error.
EndNode ==
  /\ pc = "kernel" /\ k > Len(Kernels)
  /\ rows' = Put(rows, node, [results |-> out, error |-> FALSE])
  /\ todo' = todo \ {node}
  /\ pc' = "sweep"
  /\ UNCHANGED <<opts, height, live, seed, localId, map, sweepSeed, node,
                 nodeSeed, k, out, ran, listed>>

\* Slip: a node's row replaces what the map already has for its id.
MergeReplaces ==
  /\ pc = "sweep" /\ todo = {}
  /\ map' = [n \in DOMAIN map \cup DOMAIN rows |->
               IF n \in DOMAIN rows THEN rows[n].results ELSE map[n]]
  /\ pc' = "done"
  /\ UNCHANGED <<opts, height, live, seed, localId, sweepSeed, todo, node,
                 nodeSeed, k, out, rows, ran, listed>>

\* The rows are added to the map after the last node, those with an error too;
\* the error itself is dropped.
Merge ==
  /\ pc = "sweep" /\ todo = {}
  /\ map' = [n \in DOMAIN map \cup DOMAIN rows |->
               (IF n \in DOMAIN map THEN map[n] ELSE {})
                 \cup (IF n \in DOMAIN rows THEN rows[n].results ELSE {})]
  /\ pc' = "done"
  /\ UNCHANGED <<opts, height, live, seed, localId, sweepSeed, todo, node,
                 nodeSeed, k, out, rows, ran, listed>>

Done == pc = "done" /\ UNCHANGED vars

Kernel == KernelRuns \/ KernelFails

Next ==
  \/ BeaconAdvances \/ \E n \in Node : NodeLeaves(n)
  \/ Start \/ ReadStatus \/ BenchLocal \/ ListNodes
  \/ \E n \in Node : StartNode(n) \/ NodeFails(n)
  \/ Kernel \/ EndNode \/ Merge \/ Done

Spec == Init /\ [][Next]_vars

\* A task ends within HubClient's 35 s and the rest of the loop does not
\* wait.  GET /nodes has no time limit of its own and gets no fairness.
FairSpec ==
  /\ Spec
  /\ WF_vars(\E n \in Node : StartNode(n))
  /\ WF_vars(Kernel) /\ WF_vars(EndNode) /\ WF_vars(Merge)

-----------------------------------------------------------------------------
(***************************************************************************)
(* Properties.                                                             *)
(***************************************************************************)
\* The results of a sweep are comparable: all of them, the local ones and
\* every browser node's, carry the seed the sweep began with, however often
\* the beacon moves and whether or not it could be read (lines 337-338).
OneSeed ==
  \A r \in ran \cup UNION {map[n] : n \in DOMAIN map} : r.seed = seed

\* What makes OneSeed inductive: every collection of results on its way to
\* the map, and the seed handed to each call once it is used.
Seeded(R) == \A r \in R : r.seed = seed

SeedInv ==
  /\ TypeOK
  /\ pc = "start" => map = None /\ ran = {} /\ out = {} /\ rows = None
  /\ pc = "sweep" /\ todo # {} => sweepSeed = seed
  /\ pc = "kernel" => /\ sweepSeed = seed /\ nodeSeed = seed
                      /\ node \in Node
  /\ pc \in {"start", "status", "local", "list"} => rows = None /\ out = {}
  /\ Seeded(ran) /\ Seeded(out)
  /\ \A n \in DOMAIN map : Seeded(map[n])
  /\ \A n \in DOMAIN rows : Seeded(rows[n].results)

\* "local" stands for this machine.
RanBy(r, n) == n \in {r.by} \cup (IF r.by = Self THEN {Local} ELSE {})

\* Failures are isolated: what ran is in the returned map, under the machine
\* it was sent to, and nothing else is (per-kernel catch, merge by id).
NothingLost ==
  pc = "done" =>
    /\ \A r \in ran : \E n \in DOMAIN map : r \in map[n]
    /\ \A n \in DOMAIN map : \A r \in map[n] :
         r \in ran /\ RanBy(r, n)

\* What makes NothingLost inductive: a result is on its way to the map, under
\* its machine, and no row or entry is written twice.
OnItsWay(r) ==
  \/ \E n \in DOMAIN map : r \in map[n]
  \/ pc # "done" /\ \E n \in DOMAIN rows : r \in rows[n].results
  \/ pc = "kernel" /\ r \in out

HeldInv ==
  /\ SeedInv
  /\ pc \in {"start", "status", "local"} => map = None
  /\ pc = "kernel" => node \in todo /\ \A r \in out : r \in ran /\ r.by = node
  /\ \A n \in DOMAIN rows : n \notin todo
  /\ \A r \in ran : OnItsWay(r)
  /\ \A n \in DOMAIN map : \A r \in map[n] : r \in ran /\ RanBy(r, n)
  /\ \A n \in DOMAIN rows : \A r \in rows[n].results : r \in ran /\ r.by = n

\* Every node that was listed is in the returned map, also when none of its
\* kernels ran or its run failed before the first (the outer catch, lines
\* 185-187), and so is the local machine whose suite failed.
EveryNodeReported ==
  pc = "done" => /\ listed \subseteq DOMAIN map
                 /\ opts.local => localId \in DOMAIN map

\* Once the hub has answered, the sweep ends whatever leaves or fails.
SweepEnds == (pc = "sweep") ~> (pc = "done")
=============================================================================
