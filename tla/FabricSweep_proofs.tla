------------------------- MODULE FabricSweep_proofs -------------------------
(***************************************************************************)
(* Proofs about FabricSweep for every set of nodes, kernels and beacons.   *)
(***************************************************************************)
EXTENDS FabricSweep, TLAPS

\* A seed that was resolved once is never resolved again, empty or not.
LEMMA ResolvedSeedKept ==
  ASSUME NEW s \in Seeds
  PROVE  CoerceSeed(s) = {s}
BY SweepAssumption DEF CoerceSeed, Seeds

LEMMA SeedInit == Init => SeedInv
<1> SUFFICES ASSUME Init PROVE SeedInv
  OBVIOUS
<1>1. DOMAIN None = {}
  BY DEF None
<1>2. TypeOK
  BY <1>1, SweepAssumption DEF Init, TypeOK, Seeds
<1> QED BY <1>1, <1>2 DEF Init, SeedInv, Seeded

\* Whatever seed a call resolves is the empty one or a beacon's.
LEMMA CoerceType ==
  ASSUME TypeOK, NEW arg \in Seeds \cup {NoSeed}, NEW s \in CoerceSeed(arg)
  PROVE  s \in Seeds
BY SweepAssumption DEF CoerceSeed, ResolveSeed, Seeds, TypeOK

\* Each step of the sweep hands the seed on as it got it.
LEMMA SeedStep == SeedInv /\ [Next]_vars => SeedInv'
<1> SUFFICES ASSUME SeedInv, [Next]_vars PROVE SeedInv'
  OBVIOUS
<1> USE SweepAssumption
<1>0. TypeOK
  BY DEF SeedInv
<1>1. CASE BeaconAdvances
  BY <1>1 DEF BeaconAdvances, SeedInv, TypeOK, Seeded
<1>2. ASSUME NEW n \in Node, NodeLeaves(n) PROVE SeedInv'
  BY <1>2 DEF NodeLeaves, SeedInv, TypeOK, Seeded
<1>3. CASE Start
  <2>1. seed' \in Seeds
    BY <1>0, <1>3, CoerceType DEF Start, TypeOK, Opts
  <2>2. TypeOK'
    BY <1>0, <1>3, <2>1 DEF Start, TypeOK, AfterLocal
  <2> QED BY <1>3, <2>2 DEF Start, SeedInv, Seeded, None, AfterLocal
<1>4. CASE ReadStatus
  BY <1>4 DEF ReadStatus, SeedInv, TypeOK, Seeded
<1>5. CASE BenchLocal
  <2>1. PICK ok \in BOOLEAN :
          LET results == IF ok THEN [kind : Probes, seed : {seed}, by : {Self},
                                     via : {"local"}] ELSE {}
          IN  map' = Put(map, localId, results) /\ ran' = ran \cup results
    <3>1. seed \in Seeds
      BY <1>0 DEF TypeOK
    <3>2. CoerceSeed(seed) = {seed}
      BY <3>1, ResolvedSeedKept
    <3> QED BY <1>5, <3>2 DEF BenchLocal
  <2> DEFINE results == IF ok THEN [kind : Probes, seed : {seed}, by : {Self},
                                    via : {"local"}] ELSE {}
  <2>2. results \subseteq Result /\ Seeded(results)
    BY <1>0 DEF Result, TypeOK, Seeded
  <2>3. map' = Put(map, localId, results) /\ ran' = ran \cup results
    BY <2>1
  <2>4. seed' = seed /\ UNCHANGED <<opts, height, live, localId, sweepSeed,
                                   todo, node, nodeSeed, k, out, rows, listed>>
        /\ pc = "local" /\ pc' \in {"list", "done"}
    BY <1>5 DEF BenchLocal, AfterLocal
  <2> HIDE DEF results
  <2>5. /\ DOMAIN map' = {localId} \cup DOMAIN map
        /\ \A n \in DOMAIN map' :
             \/ n = localId /\ map'[n] = results
             \/ n \in DOMAIN map /\ map'[n] = map[n]
        /\ map' = [n \in DOMAIN map' |-> map'[n]]
    BY <2>3 DEF Put
  <2>6. TypeOK'
    BY <1>0, <2>2, <2>3, <2>4, <2>5 DEF TypeOK
  <2> QED BY <2>2, <2>3, <2>4, <2>5, <2>6 DEF SeedInv, Seeded
<1>6. CASE ListNodes
  BY <1>0, <1>6, ResolvedSeedKept DEF ListNodes, SeedInv, TypeOK, Seeded
<1>7. ASSUME NEW n \in Node, StartNode(n) PROVE SeedInv'
  BY <1>0, <1>7, ResolvedSeedKept DEF StartNode, SeedInv, TypeOK, Seeded
<1>13. ASSUME NEW n \in Node, NodeFails(n) PROVE SeedInv'
  <2> DEFINE row == [results |-> {}, error |-> TRUE]
  <2>1. row \in Row /\ Seeded(row.results)
    BY DEF Row, Seeded
  <2>2. rows' = Put(rows, n, row) /\ pc = "sweep" /\ pc' = "sweep"
        /\ todo' = todo \ {n} /\ n \in todo
        /\ UNCHANGED <<opts, height, live, seed, localId, map, sweepSeed, node,
                      nodeSeed, k, out, ran, listed>>
    BY <1>13 DEF NodeFails
  <2> HIDE DEF row
  <2>3. /\ DOMAIN rows' = DOMAIN rows \cup {n}
        /\ \A a \in DOMAIN rows' :
             \/ a = n /\ rows'[a] = row
             \/ a \in DOMAIN rows /\ rows'[a] = rows[a]
        /\ rows' = [a \in DOMAIN rows' |-> rows'[a]]
    BY <2>2 DEF Put
  <2>4. TypeOK'
    BY <1>0, <2>1, <2>2, <2>3 DEF TypeOK
  <2> QED BY <2>1, <2>2, <2>3, <2>4 DEF SeedInv, Seeded
<1>8. CASE KernelRuns
  BY <1>0, <1>8 DEF KernelRuns, KernelResult, SeedInv, TypeOK, Seeded, Result
<1>9. CASE KernelFails
  BY <1>9 DEF KernelFails, SeedInv, TypeOK, Seeded
<1>10. CASE EndNode
  <2> DEFINE row == [results |-> out, error |-> FALSE]
  <2>1. row \in Row /\ Seeded(row.results) /\ node \in Node
    BY <1>10 DEF EndNode, SeedInv, TypeOK, Row
  <2>2. rows' = Put(rows, node, row) /\ pc = "kernel" /\ pc' = "sweep"
        /\ todo' = todo \ {node}
        /\ UNCHANGED <<opts, height, live, seed, localId, map, sweepSeed, node,
                      nodeSeed, k, out, ran, listed>>
    BY <1>10 DEF EndNode
  <2> HIDE DEF row
  <2>3. /\ DOMAIN rows' = DOMAIN rows \cup {node}
        /\ \A n \in DOMAIN rows' :
             \/ n = node /\ rows'[n] = row
             \/ n \in DOMAIN rows /\ rows'[n] = rows[n]
        /\ rows' = [n \in DOMAIN rows' |-> rows'[n]]
    BY <2>2 DEF Put
  <2>4. TypeOK'
    BY <1>0, <2>1, <2>2, <2>3 DEF TypeOK
  <2> QED BY <2>1, <2>2, <2>3, <2>4 DEF SeedInv, Seeded
<1>11. CASE Merge
  BY <1>11 DEF Merge, SeedInv, TypeOK, Seeded, Row
<1>12. CASE UNCHANGED vars
  BY <1>12 DEF vars, SeedInv, TypeOK, Seeded
<1> QED BY <1>1, <1>2, <1>3, <1>4, <1>5, <1>6, <1>7, <1>13, <1>8, <1>9, <1>10,
           <1>11, <1>12 DEF Next, Kernel, Done

\* The results of one sweep all carry one seed, for every number of nodes and
\* kernels and however the beacon moves while they run.
THEOREM OneSeedHolds == Spec => []OneSeed
<1>1. SeedInv => OneSeed
  BY DEF SeedInv, OneSeed, Seeded
<1> QED BY <1>1, SeedInit, SeedStep, PTL DEF Spec

LEMMA HeldInit == Init => HeldInv
BY SeedInit DEF Init, HeldInv, None

\* Each step of the sweep moves what was measured to another place, or measures.
LEMMA HeldStep == HeldInv /\ [Next]_vars => HeldInv'
<1> SUFFICES ASSUME HeldInv, [Next]_vars PROVE HeldInv'
  OBVIOUS
<1> USE SweepAssumption
<1>0. SeedInv /\ SeedInv' /\ TypeOK
  BY SeedStep DEF HeldInv, SeedInv
<1>1. CASE BeaconAdvances
  BY <1>0, <1>1 DEF BeaconAdvances, HeldInv, OnItsWay, RanBy
<1>2. ASSUME NEW n \in Node, NodeLeaves(n) PROVE HeldInv'
  BY <1>0, <1>2 DEF NodeLeaves, HeldInv, OnItsWay, RanBy
<1>3. CASE Start
  BY <1>0, <1>3 DEF Start, AfterLocal, HeldInv, OnItsWay, RanBy, SeedInv, None
<1>4. CASE ReadStatus
  BY <1>0, <1>4 DEF ReadStatus, HeldInv, OnItsWay, RanBy
<1>5. CASE BenchLocal
  <2>1. PICK results \in SUBSET [kind : Probes, seed : Seeds, by : {Self},
                                 via : {"local"}] :
          map' = Put(map, localId, results) /\ ran' = ran \cup results
    <3>1. seed \in Seeds
      BY <1>0 DEF TypeOK
    <3>2. CoerceSeed(seed) = {seed}
      BY <3>1, ResolvedSeedKept
    <3>3. PICK ok \in BOOLEAN :
            LET rs == IF ok THEN [kind : Probes, seed : {seed}, by : {Self},
                                  via : {"local"}] ELSE {}
            IN  map' = Put(map, localId, rs) /\ ran' = ran \cup rs
      BY <1>5, <3>2 DEF BenchLocal
    <3> DEFINE rs == IF ok THEN [kind : Probes, seed : {seed}, by : {Self},
                                 via : {"local"}] ELSE {}
    <3>4. rs \in SUBSET [kind : Probes, seed : Seeds, by : {Self},
                         via : {"local"}]
      BY <3>1
    <3> QED BY <3>3, <3>4
  <2>2. \A r \in results : r.by = Self
    BY <2>1
  <2>3. map = None /\ localId \in {Self, Local} /\ rows = None /\ out = {}
        /\ pc = "local" /\ pc' \in {"list", "done"}
        /\ UNCHANGED <<todo, node, out, rows>>
    BY <1>0, <1>5 DEF BenchLocal, HeldInv, SeedInv, TypeOK, AfterLocal
  <2>4. DOMAIN map' = {localId} /\ map'[localId] = results
    BY <2>1, <2>3 DEF Put, None
  <2> QED BY <1>0, <2>1, <2>2, <2>3, <2>4 DEF HeldInv, OnItsWay, RanBy, None
<1>6. CASE ListNodes
  <2>1. rows = None
    BY <1>0, <1>6 DEF ListNodes, SeedInv
  <2> QED BY <1>0, <1>6, <2>1 DEF ListNodes, HeldInv, OnItsWay, RanBy, None
<1>7. ASSUME NEW n \in Node, StartNode(n) PROVE HeldInv'
  BY <1>0, <1>7 DEF StartNode, HeldInv, OnItsWay, RanBy
<1>13. ASSUME NEW n \in Node, NodeFails(n) PROVE HeldInv'
  <2> DEFINE row == [results |-> {}, error |-> TRUE]
  <2>1. rows' = Put(rows, n, row) /\ pc = "sweep" /\ pc' = "sweep"
        /\ n \in todo /\ todo' = todo \ {n} /\ row.results = {}
        /\ UNCHANGED <<map, node, out, ran>>
    BY <1>13 DEF NodeFails
  <2> HIDE DEF row
  <2>2. /\ DOMAIN rows' = DOMAIN rows \cup {n}
        /\ rows'[n] = row
        /\ \A a \in DOMAIN rows : a # n => rows'[a] = rows[a]
    BY <2>1 DEF Put
  <2>3. n \notin DOMAIN rows
    BY <2>1 DEF HeldInv
  <2> QED BY <1>0, <2>1, <2>2, <2>3 DEF HeldInv, OnItsWay, RanBy
<1>8. CASE KernelRuns
  BY <1>0, <1>8 DEF KernelRuns, KernelResult, HeldInv, OnItsWay, RanBy
<1>9. CASE KernelFails
  BY <1>0, <1>9 DEF KernelFails, HeldInv, OnItsWay, RanBy
<1>10. CASE EndNode
  <2> DEFINE row == [results |-> out, error |-> FALSE]
  <2>1. rows' = Put(rows, node, row) /\ pc = "kernel" /\ pc' = "sweep"
        /\ todo' = todo \ {node} /\ row.results = out
        /\ UNCHANGED <<map, node, out, ran>>
    BY <1>10 DEF EndNode
  <2> HIDE DEF row
  <2>2. /\ DOMAIN rows' = DOMAIN rows \cup {node}
        /\ rows'[node] = row
        /\ \A n \in DOMAIN rows : n # node => rows'[n] = rows[n]
    BY <2>1 DEF Put
  <2>3. node \in todo /\ node \notin DOMAIN rows
        /\ \A r \in out : r \in ran /\ r.by = node
    BY <2>1 DEF HeldInv
  <2> QED BY <1>0, <2>1, <2>2, <2>3 DEF HeldInv, OnItsWay, RanBy
<1>11. CASE Merge
  <2>1. /\ pc = "sweep" /\ pc' = "done" /\ UNCHANGED <<todo, node, out, rows, ran>>
        /\ DOMAIN map' = DOMAIN map \cup DOMAIN rows
        /\ \A n \in DOMAIN map' :
             map'[n] = (IF n \in DOMAIN map THEN map[n] ELSE {})
                         \cup (IF n \in DOMAIN rows THEN rows[n].results ELSE {})
    BY <1>11 DEF Merge
  <2>2. \A r \in ran : \E n \in DOMAIN map' : r \in map'[n]
    BY <2>1 DEF HeldInv, OnItsWay
  <2>3. \A n \in DOMAIN map' : \A r \in map'[n] : r \in ran /\ RanBy(r, n)
    BY <2>1 DEF HeldInv, RanBy
  <2> QED BY <1>0, <2>1, <2>2, <2>3 DEF HeldInv, OnItsWay, RanBy
<1>12. CASE UNCHANGED vars
  BY <1>0, <1>12 DEF vars, HeldInv, OnItsWay, RanBy
<1> QED BY <1>1, <1>2, <1>3, <1>4, <1>5, <1>6, <1>7, <1>13, <1>8, <1>9, <1>10,
           <1>11, <1>12 DEF Next, Kernel, Done

\* The map benchFabric returns holds every result that any machine produced,
\* under that machine, for every pattern of failing kernels and nodes.
THEOREM NothingLostHolds == Spec => []NothingLost
<1>1. HeldInv => NothingLost
  BY DEF HeldInv, NothingLost, OnItsWay
<1> QED BY <1>1, HeldInit, HeldStep, PTL DEF Spec
-----------------------------------------------------------------------------
\* Where the sweep owes a row: a listed node is still to do or has one, and
\* once the local suite is over this machine has its entry.
ReportedInv ==
  /\ pc \in {"start", "status", "local", "list"} => listed = {}
  /\ pc \in {"sweep", "kernel"} => listed \subseteq todo \cup DOMAIN rows
  /\ pc = "done" => listed \subseteq DOMAIN map
  /\ pc \in {"list", "sweep", "kernel", "done"} /\ opts.local => localId \in DOMAIN map

\* Each listed node is still to be dispatched to or has its row.
LEMMA ReportedStep == TypeOK /\ ReportedInv /\ [Next]_vars => ReportedInv'
<1> SUFFICES ASSUME TypeOK, ReportedInv, [Next]_vars PROVE ReportedInv'
  OBVIOUS
<1>1. CASE BeaconAdvances
  BY <1>1 DEF BeaconAdvances, ReportedInv
<1>2. ASSUME NEW n \in Node, NodeLeaves(n) PROVE ReportedInv'
  BY <1>2 DEF NodeLeaves, ReportedInv
<1>3. CASE Start
  BY <1>3 DEF Start, AfterLocal, ReportedInv
<1>4. CASE ReadStatus
  BY <1>4 DEF ReadStatus, ReportedInv
<1>5. CASE BenchLocal
  <2>1. pc = "local" /\ pc' \in {"list", "done"} /\ UNCHANGED <<opts, localId, listed>>
    BY <1>5 DEF BenchLocal, AfterLocal
  <2>2. PICK results : map' = Put(map, localId, results)
    BY <1>5 DEF BenchLocal
  <2>3. localId \in DOMAIN map'
    BY <2>2 DEF Put
  <2> QED BY <2>1, <2>3 DEF ReportedInv
<1>6. CASE ListNodes
  BY <1>6 DEF ListNodes, ReportedInv
<1>7. ASSUME NEW n \in Node, StartNode(n) PROVE ReportedInv'
  BY <1>7 DEF StartNode, ReportedInv
<1>13. ASSUME NEW n \in Node, NodeFails(n) PROVE ReportedInv'
  <2>1. /\ pc = "sweep" /\ pc' = "sweep" /\ todo' = todo \ {n}
        /\ UNCHANGED <<opts, localId, listed, map>>
    BY <1>13 DEF NodeFails
  <2>2. DOMAIN rows' = DOMAIN rows \cup {n}
    BY <1>13 DEF NodeFails, Put
  <2> QED BY <2>1, <2>2 DEF ReportedInv
<1>8. CASE Kernel
  BY <1>8 DEF Kernel, KernelRuns, KernelFails, ReportedInv
<1>9. CASE EndNode
  <2>1. /\ pc = "kernel" /\ pc' = "sweep" /\ todo' = todo \ {node}
        /\ UNCHANGED <<opts, localId, listed, map>>
    BY <1>9 DEF EndNode
  <2>2. DOMAIN rows' = DOMAIN rows \cup {node}
    BY <1>9 DEF EndNode, Put
  <2> QED BY <2>1, <2>2 DEF ReportedInv
<1>10. CASE Merge
  <2>1. /\ pc = "sweep" /\ todo = {} /\ pc' = "done"
        /\ DOMAIN map' = DOMAIN map \cup DOMAIN rows
        /\ UNCHANGED <<opts, localId, listed>>
    BY <1>10 DEF Merge
  <2> QED BY <2>1 DEF ReportedInv
<1>11. CASE UNCHANGED vars
  BY <1>11 DEF vars, ReportedInv
<1> QED BY <1>1, <1>2, <1>3, <1>4, <1>5, <1>6, <1>7, <1>13, <1>8, <1>9, <1>10,
           <1>11 DEF Next, Done

\* Every node the hub listed is in the map benchFabric returns, and so is this
\* machine when it was asked for, whichever kernels failed and nodes left.
THEOREM EveryNodeReportedHolds == Spec => []EveryNodeReported
<1>1. Init => ReportedInv
  BY DEF Init, ReportedInv
<1>2. SeedInv => TypeOK
  BY DEF SeedInv
<1>3. ReportedInv => EveryNodeReported
  BY DEF ReportedInv, EveryNodeReported
<1> QED BY <1>1, <1>2, <1>3, ReportedStep, SeedInit, SeedStep, PTL DEF Spec
=============================================================================
