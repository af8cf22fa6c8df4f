----------------------------- MODULE MeshHealth -----------------------------
(***************************************************************************)
(* fuseEdges and meshHealth of src/fabricstats.js.  The rows of a netgraph *)
(* are fused into undirected edges with a sample-weighted mean; two passes *)
(* of union-find with path compression then count the regions, components  *)
(* over the fast edges, and the pairs of nodes connected by any edge.      *)
(* Each pass starts from singletons.  Means are compared as fractions.     *)
(***************************************************************************)
EXTENDS Integers, Sequences, SequencesExt, FiniteSets, Functions

CONSTANTS
  Id,         \* the ids of nodes, and
  Self,         \* the id given to the origin of a row that names none
  Rows,         \* the rows a netgraph may have
  Threshold,    \* regionThresholdMs
  MaxRows,      \* bound: rows of a netgraph
  Extra         \* nodes that published a profile (extraNodes)

Absent == -1    \* a field that is missing or of the wrong type

AnyId == Id \cup {Self}

ASSUME MeshAssumption ==
  /\ Self \notin Id /\ Extra \subseteq Id /\ IsFiniteSet(Extra) /\ Absent \notin AnyId
  /\ Rows \subseteq [from : Id \cup {Absent}, to : Id \cup {Absent},
                     rtt : Int, samples : Nat \cup {Absent}]
  /\ Threshold \in Nat /\ MaxRows \in Nat

VARIABLES
  rows,    \* what is left to read
  given,   \* the netgraph (history)
  fused,   \* the Map: pair |-> [wsum, samples]
  order,   \* its keys in the order of insertion
  phase,   \* "fuse", "regions", "pairs" or "done"
  todo,    \* edges the pass has yet to join
  parent,  \* the union-find map of the pass
  medianRtt, \* <<numerator, denominator>>
  regions, \* what the first pass counted
  pairs    \* what the second did
meshVars == <<rows, given, fused, order, phase, todo, parent, medianRtt, regions, pairs>>

Ends(e) == <<CHOOSE x \in e : TRUE, CHOOSE y \in e : y # CHOOSE x \in e : TRUE>>
Nodes == Extra \cup UNION DOMAIN fused

Netgraphs == SeqOf(Rows, MaxRows)

MeshInit(netgraphs) ==
  /\ rows \in netgraphs /\ given = rows
  /\ fused = [e \in {} |-> 0] /\ order = <<>>
  /\ phase = "fuse" /\ todo = <<>> /\ parent = [n \in {} |-> n]
  /\ medianRtt = <<0, 1>> /\ regions = 0 /\ pairs = 0

(***************************************************************************)
(* Fusion.                                                                 *)
(***************************************************************************)
\* The two ends of a row; one that names no origin is the reader's own.
From(r) == IF r.from = Absent THEN Self ELSE r.from
Pair(r) == {From(r), r.to}

\* A negative or missing round trip, a missing peer and a loop are skipped.
Usable(r) == r.to # Absent /\ From(r) # r.to /\ r.rtt >= 0

\* Missing counts of samples, and counts below one, are one.
Samples(r) == IF r.samples > 1 THEN r.samples ELSE 1

Add(old, r) == [wsum |-> old.wsum + r.rtt * Samples(r), samples |-> old.samples + Samples(r)]
SoFar(e) == IF e \in DOMAIN fused THEN fused[e] ELSE [wsum |-> 0, samples |-> 0]

FuseRow ==
  /\ phase = "fuse" /\ rows # <<>> /\ rows' = Tail(rows)
  /\ LET r == Head(rows)
         e == Pair(r)
     IN IF ~Usable(r) THEN UNCHANGED <<fused, order>>
        ELSE /\ fused' = [d \in DOMAIN fused \cup {e} |->
                            IF d = e THEN Add(SoFar(e), r) ELSE fused[d]]
             /\ order' = IF e \in DOMAIN fused THEN order ELSE Append(order, e)
  /\ UNCHANGED <<given, phase, todo, parent, medianRtt, regions, pairs>>

Faster(m, n) == m.wsum * n.samples < n.wsum * m.samples

\* The r-th of the edges in the order of their means.
Quicker(e) == {d \in DOMAIN fused : Faster(fused[d], fused[e])}
NoSlower(e) == {d \in DOMAIN fused : ~Faster(fused[e], fused[d])}
Ranked(r) ==
  CHOOSE e \in DOMAIN fused : Cardinality(Quicker(e)) < r /\ r <= Cardinality(NoSlower(e))

\* The median of the means, as a fraction; 0 of none.
Median ==
  LET n == Cardinality(DOMAIN fused)
      low == fused[Ranked((n + 1) \div 2)]
      high == fused[Ranked(n \div 2 + 1)]
  IN IF n = 0 THEN <<0, 1>>
     ELSE <<low.wsum * high.samples + high.wsum * low.samples, 2 * low.samples * high.samples>>

(***************************************************************************)
(* Union-find.                                                             *)
(***************************************************************************)
\* Where k steps up from a node lead.
Above(p, x) ==
  LET up[k \in 0 .. Cardinality(DOMAIN p)] == IF k = 0 THEN x ELSE p[up[k - 1]]
  IN up
Root(p, x) == Above(p, x)[Cardinality(DOMAIN p)]

\* find: every node on the way to the root becomes its child.
Compressed(p, x) ==
  LET way == {Above(p, x)[k] : k \in DOMAIN Above(p, x)}
  IN [n \in DOMAIN p |-> IF n \in way THEN Root(p, x) ELSE p[n]]

\* Slip: the other root is hung below the node, be it in the same component.
UnionUnderLeaf(p, x, y) ==
  LET q == Compressed(Compressed(p, x), y)
  IN [q EXCEPT ![Root(p, y)] = x]

Union(p, x, y) ==
  LET q == Compressed(Compressed(p, x), y)
  IN [q EXCEPT ![Root(p, x)] = Root(p, y)]

Singletons == [n \in Nodes |-> n]
Near(e) == fused[e].wsum <= Threshold * fused[e].samples
StartPass(name) == phase' = name /\ todo' = order /\ parent' = Singletons

StartRegions ==
  /\ phase = "fuse" /\ rows = <<>>
  /\ medianRtt' = Median
  /\ StartPass("regions")
  /\ UNCHANGED <<rows, given, fused, order, regions, pairs>>

Join ==
  /\ phase \in {"regions", "pairs"} /\ todo # <<>> /\ todo' = Tail(todo)
  /\ parent' = LET e == Head(todo)
               IN IF phase = "pairs" \/ Near(e) THEN Union(parent, Ends(e)[1], Ends(e)[2])
                  ELSE parent
  /\ UNCHANGED <<rows, given, fused, order, phase, medianRtt, regions, pairs>>

Roots == {Root(parent, n) : n \in Nodes}
SizeOf(r) == Cardinality({n \in Nodes : Root(parent, n) = r})

CountRegions ==
  /\ phase = "regions" /\ todo = <<>>
  /\ regions' = Cardinality(Roots)
  /\ StartPass("pairs")
  /\ UNCHANGED <<rows, given, fused, order, medianRtt, pairs>>

CountPairs ==
  /\ phase = "pairs" /\ todo = <<>> /\ phase' = "done"
  /\ pairs' = SumFunction([r \in Roots |-> (SizeOf(r) * (SizeOf(r) - 1)) \div 2])
  /\ UNCHANGED <<rows, given, fused, order, todo, parent, medianRtt, regions>>

MeshNext == FuseRow \/ StartRegions \/ Join \/ CountRegions \/ CountPairs
MeshSpec == MeshInit(Netgraphs) /\ [][MeshNext]_meshVars

-----------------------------------------------------------------------------
(***************************************************************************)
(* Properties.                                                             *)
(***************************************************************************)
MeshTypeOK ==
  /\ DOMAIN fused \subseteq {{x, y} : x \in AnyId, y \in AnyId}
  /\ phase \in {"fuse", "regions", "pairs", "done"}
  /\ phase # "fuse" => parent \in [Nodes -> Nodes]
  /\ regions \in Nat /\ pairs \in Nat

\* The graph by definition: a pair has an edge when a row gives it a round trip,
\* whose mean is over all samples of its rows.
RowsOf(e) == {j \in DOMAIN given : Usable(given[j]) /\ Pair(given[j]) = e}
Edges == {e \in SUBSET AnyId : Cardinality(e) = 2 /\ RowsOf(e) # {}}
Named == Extra \cup UNION Edges
WeightOf(e) == SumFunction([j \in RowsOf(e) |-> Samples(given[j])])
SumOf(e) == SumFunction([j \in RowsOf(e) |-> given[j].rtt * Samples(given[j])])
FastEdges == {e \in Edges : SumOf(e) <= Threshold * WeightOf(e)}

\* Connectedness by definition: what every set has that holds the node and is
\* closed under the edges.
Closed(E, S) == \A e \in E : e \cap S # {} => e \subseteq S
Reach(E, n) == {m \in Named : \A S \in SUBSET Named : n \in S /\ Closed(E, S) => m \in S}

\* At least half of the edges are no slower than the median, and half no faster.
IsMedian(m) ==
  /\ 2 * Cardinality({e \in Edges : SumOf(e) * m[2] <= m[1] * WeightOf(e)}) >= Cardinality(Edges)
  /\ 2 * Cardinality({e \in Edges : SumOf(e) * m[2] >= m[1] * WeightOf(e)}) >= Cardinality(Edges)

\* The figures of the scoreboard are those of the graph the rows describe, in
\* whichever order, direction and shape they come: components over the fast
\* edges, pairs connected by any, and the median round trip (lines 298-410).
CountsAreOfGraph ==
  /\ MeshTypeOK
  /\ phase = "done" =>
       /\ regions = Cardinality({Reach(FastEdges, n) : n \in Named})
       /\ pairs = Cardinality({e \in SUBSET Named : /\ Cardinality(e) = 2
                                 /\ \A x, y \in e : y \in Reach(Edges, x)})
       /\ IsMedian(medianRtt)
=============================================================================
