---------------------------- MODULE ProfileBoard ----------------------------
(***************************************************************************)
(* Who is on the scoreboard: computeFabricStats and computeVerifiedStats   *)
(* with collectProfiles and dedupeLatest (src/fabricstats.js).  A reader   *)
(* may ask the node for its own figures; else it asks for the stored       *)
(* profiles, then the signals, then, when it verifies, for the history of  *)
(* every node it kept, then for the netgraph, one await after the other,   *)
(* while nodes publish new profiles, old signals scroll away and time      *)
(* passes.  A profile is its node, its time and its content; what a node   *)
(* stores and shows is external.  FabricTotals and MeshHealth compute the  *)
(* figures; here they are the number of nodes and that of the mesh.        *)
(***************************************************************************)
EXTENDS Naturals, Sequences, SequencesExt, FiniteSets

CONSTANTS Node,
          Content,      \* what a profile measured
          Invalid,      \* the content of a profile validateProfile refuses
          Worker,       \* nodes whose history shows delivered work
          Ahead,        \* nodes whose clock is ahead
          Lead,         \* by how much
          MaxAge,       \* maxAgeSecs
          SignalLimit,  \* signals the node remembers
          MaxPublish,   \* bound: profiles published
          MaxClock      \* bound: the reader's clock

ASSUME BoardAssumption ==
  /\ Invalid \in Content /\ Worker \subseteq Node /\ Ahead \subseteq Node /\ Lead \in Nat
  /\ IsFiniteSet(Node)
  /\ MaxAge \in Nat /\ SignalLimit \in Nat \ {0}
  /\ MaxPublish \in Nat /\ MaxClock \in Nat

VARIABLES
  clock, published,  \* published: how many (bound)
  directory,         \* GET /profiles: at most one profile per node
  signals,           \* GET /signals: the last SignalLimit
  step,              \* the reader's await
  raw,               \* what it collected, in order
  board,             \* what dedupeLatest kept
  asked, trusted,    \* nodes whose history was asked for, and those it trusts
  verifying, prefer, \* which of the two it computes; opts.preferNode
  stats,             \* what it returns: [from, nodes, meshed]
  seen               \* the profiles its sources showed it (history)

vars == <<clock, published, directory, signals, step, raw, board, asked, trusted,
          verifying, prefer, stats, seen>>
network == <<clock, published, directory, signals>>

Profile == [node : Node, at : 0 .. MaxClock + Lead, content : Content]
Valid(p) == p.content # Invalid
ReaderSteps == {"served", "profiles", "signals", "dedupe", "history", "mesh", "done"}
NoStats == [from |-> "nobody", nodes |-> 0, meshed |-> 0]

TypeOK ==
  /\ clock \in 0 .. MaxClock /\ published \in 0 .. MaxPublish
  /\ directory \subseteq Profile /\ signals \in Seq(Profile)
  /\ step \in ReaderSteps /\ raw \in Seq(Profile) /\ board \subseteq Profile
  /\ asked \subseteq Node /\ trusted \subseteq asked /\ seen \subseteq Profile
  /\ verifying \in BOOLEAN /\ prefer \in BOOLEAN
  /\ stats \in [from : {"nobody", "node", "reader"}, nodes : Nat, meshed : Nat]

FirstStep == IF prefer /\ ~verifying THEN "served" ELSE "profiles"

Init ==
  /\ clock = 0 /\ published = 0 /\ directory = {} /\ signals = <<>>
  /\ verifying \in BOOLEAN /\ prefer \in BOOLEAN /\ step = FirstStep
  /\ raw = <<>> /\ board = {} /\ stats = NoStats
  /\ asked = {} /\ trusted = {} /\ seen = {}

(***************************************************************************)
(* The network.                                                            *)
(***************************************************************************)
Choice == <<verifying, prefer>>
Reading == <<step, raw, board, asked, trusted, stats, Choice, seen>>

ClockOf(n) == IF n \in Ahead THEN clock + Lead ELSE clock

\* A profile replaces an older one of its node in the directory, or it is
\* broadcast as a signal.
Publishes(n, c) ==
  /\ published < MaxPublish /\ published' = published + 1
  /\ LET p == [node |-> n, at |-> ClockOf(n), content |-> c]
     IN \/ /\ \A q \in directory : q.node = n => q.at < p.at
           /\ directory' = {q \in directory : q.node # n} \cup {p}
           /\ UNCHANGED signals
        \/ /\ signals' = Append(IF Len(signals) = SignalLimit THEN Tail(signals)
                                                              ELSE signals, p)
           /\ UNCHANGED directory
  /\ UNCHANGED <<clock, Reading>>

Tick ==
  /\ clock < MaxClock /\ clock' = clock + 1
  /\ UNCHANGED <<published, directory, signals, Reading>>

(***************************************************************************)
(* The reader.                                                             *)
(***************************************************************************)
\* The node's own figures, normalised, are the result when they have a number
\* of nodes; a failure, a missing route or a stranger's answer leaves the
\* work to the reader.
AskNode ==
  /\ step = "served"
  /\ \/ /\ step' = "done"
        /\ \E n \in 0 .. Cardinality(Node), m \in 0 .. 1 :
             stats' = [from |-> "node", nodes |-> n, meshed |-> m]
     \/ step' = "profiles" /\ UNCHANGED stats
  /\ UNCHANGED <<network, raw, board, asked, trusted, Choice, seen>>

\* Of what a source shows, the valid profiles, in its order.
Decoded(ps) ==
  LET kept[j \in 0 .. Len(ps)] ==
        IF j = 0 THEN <<>>
        ELSE IF Valid(ps[j]) THEN Append(kept[j - 1], ps[j]) ELSE kept[j - 1]
  IN  kept[Len(ps)]

Take(ps) ==
  /\ raw' = raw \o Decoded(ps)
  /\ seen' = seen \cup {ps[k] : k \in DOMAIN ps}

\* The endpoint answers, or fails or is missing: [] either way.  It has one
\* profile of a node, so the order is immaterial.
CollectProfiles ==
  /\ step = "profiles" /\ step' = "signals"
  /\ Take(SetToSeq(directory)) \/ UNCHANGED <<raw, seen>>
  /\ UNCHANGED <<network, board, asked, trusted, stats, Choice>>

\* Slip: the signals are the fallback of an empty directory only.
CollectSignalsIfNone ==
  /\ step = "signals" /\ step' = "dedupe"
  /\ raw' = (IF raw = <<>> THEN Decoded(signals) ELSE raw)
  /\ seen' = seen \cup {signals[k] : k \in DOMAIN signals}
  /\ UNCHANGED <<network, board, asked, trusted, stats, Choice>>

CollectSignals ==
  /\ step = "signals" /\ step' = "dedupe"
  /\ Take(signals) \/ UNCHANGED <<raw, seen>>
  /\ UNCHANGED <<network, board, asked, trusted, stats, Choice>>

\* The profile at j is kept rather than the one at k: it is fresher, or as
\* fresh and met first.
Replaces(p, q, j, k) == p.at > q.at \/ (p.at = q.at /\ j < k)

Stale(p) == clock > p.at + MaxAge

Kept(ps) ==
  LET live == {k \in DOMAIN ps : Valid(ps[k]) /\ ~Stale(ps[k])}
  IN {ps[j] : j \in {j \in live :
        \A k \in live : j # k /\ ps[k].node = ps[j].node => Replaces(ps[j], ps[k], j, k)}}

DedupeLatest ==
  /\ step = "dedupe" /\ step' = IF verifying THEN "history" ELSE "mesh"
  /\ board' = Kept(raw)
  /\ UNCHANGED <<network, raw, asked, trusted, stats, Choice, seen>>

\* The history of a node shows work or not; one that cannot be read counts
\* as none.
TrustAfter(n) == {trusted} \cup (IF n \in Worker THEN {trusted \cup {n}} ELSE {})

ReadHistory(p) ==
  /\ step = "history" /\ p \in board /\ p.node \notin asked
  /\ asked' = asked \cup {p.node}
  /\ trusted' \in TrustAfter(p.node)
  /\ UNCHANGED <<network, step, raw, board, stats, Choice, seen>>

TrustKnown ==
  /\ step = "history" /\ {p.node : p \in board} \subseteq asked
  /\ step' = "mesh"
  /\ UNCHANGED <<network, raw, board, asked, trusted, stats, Choice, seen>>

\* The netgraph is read last, and every node on the board is a node of it; a
\* netgraph that cannot be read leaves a mesh without nodes.
ReadNetgraph ==
  /\ step = "mesh" /\ step' = "done"
  /\ \E m \in {0, Cardinality(board)} :
       stats' = [from |-> "reader", nodes |-> Cardinality(board), meshed |-> m]
  /\ UNCHANGED <<network, raw, board, asked, trusted, Choice, seen>>

\* The scoreboard is computed again.
Again ==
  /\ step = "done" /\ step' = FirstStep
  /\ raw' = <<>> /\ board' = {} /\ asked' = {} /\ trusted' = {} /\ seen' = {}
  /\ stats' = NoStats /\ UNCHANGED <<network, Choice>>

Reads ==
  \/ AskNode \/ CollectProfiles \/ CollectSignals \/ DedupeLatest
  \/ TrustKnown \/ ReadNetgraph
  \/ \E p \in Profile : ReadHistory(p)

Next ==
  \/ Reads \/ Again \/ Tick
  \/ \E n \in Node, c \in Content : Publishes(n, c)

Spec == Init /\ [][Next]_vars

-----------------------------------------------------------------------------
(***************************************************************************)
(* Properties.                                                             *)
(***************************************************************************)
Shown == step \in {"history", "mesh"} \/ (step = "done" /\ stats.from = "reader")

\* Unless the node served the figures, they are of the freshest valid profile
\* of each node that either source showed and of no other, however the sources
\* overlap, also when one of them failed or moved on between the two reads
\* (lines 152-214); and a result is the node's or the board's.
FreshestShown ==
  /\ TypeOK
  /\ Shown =>
       /\ \A p \in seen : Valid(p) /\ ~Stale(p) =>
            \E q \in board : q.node = p.node /\ q.at >= p.at
       /\ board \subseteq {p \in seen : Valid(p)}
       /\ \A p, q \in board : p.node = q.node => p = q
  /\ step = "done" =>
       /\ stats.from = "node" => board = {} /\ prefer /\ ~verifying
       /\ stats.from = "reader" => stats.nodes = Cardinality(board)
       /\ stats.from # "nobody"
=============================================================================
