--------------------------- MODULE ScoreboardPage ---------------------------
(***************************************************************************)
(* The fetch and refresh logic of web/scoreboard.html.  A tick asks the    *)
(* node at `ce` for four things and draws the page when all of them have   *)
(* settled.  The interval starts a tick every five seconds, the button and *)
(* the address field start more, and a request may take eight seconds: so  *)
(* ticks overlap, and the address may change between the requests that one *)
(* tick sends.  What is drawn is written down by where it came from.       *)
(***************************************************************************)
EXTENDS Naturals, Sequences, SequencesExt

CONSTANTS
  Url,          \* addresses of CE nodes
  Part,         \* what a tick asks for: stats, profiles, atlas, netgraph
  Requests,     \* the requests of a part, which are sent one after the other
  MaxFlight,    \* bound: ticks in flight
  MaxChanges,   \* bound: changes of the address and of the checkbox
  MaxMalformed  \* bound: answers that are not lists of objects

ASSUME PageAssumption ==
  /\ Requests \in [Part -> Nat \ {0}]
  /\ MaxFlight \in Nat \ {0} /\ MaxChanges \in Nat /\ MaxMalformed \in Nat

VARIABLES
  field,     \* the address in the page
  ce,        \* the node the client talks to
  auto,      \* the checkbox
  timers,    \* intervals that are running
  flight,    \* ticks in flight, in the order they began
  status,    \* "load" or "live"
  table,     \* whose rows and totals are drawn
  map,       \* whose map, regions and footer are drawn
  changes, malformed
pageVars == <<field, ce, auto, timers, flight, status, table, map, changes, malformed>>

\* A tick: its client, the requests left of each part, the node the part is
\* asking, and the nodes that have answered.
PageTick == [client : Url, left : [Part -> Nat], asks : [Part -> Url], from : SUBSET Url]
Drawn == [of : Url, from : SUBSET Url]

\* The page loads with one tick and the interval.
NewTick(u) == [client |-> u, left |-> Requests, asks |-> [p \in Part |-> u], from |-> {}]

PageInit ==
  /\ field \in Url /\ ce = field /\ auto = TRUE /\ timers = 1
  /\ flight = <<NewTick(ce)>> /\ status = "load"
  /\ table = [of |-> ce, from |-> {}] /\ map = table
  /\ changes = 0 /\ malformed = 0

Page == <<table, map>>

Begin(u) ==
  /\ Len(flight) < MaxFlight
  /\ flight' = Append(flight, NewTick(u)) /\ status' = "load"

Interval ==
  timers > 0 /\ Begin(ce) /\ UNCHANGED <<field, ce, auto, timers, changes, malformed, Page>>
Refresh ==
  Begin(ce) /\ UNCHANGED <<field, ce, auto, timers, changes, malformed, Page>>

\* stopLoop, then a new interval if the box is checked.
StartLoop(on) == timers' = IF on THEN 1 ELSE 0

SetAuto ==
  /\ changes < MaxChanges /\ changes' = changes + 1
  /\ auto' = ~auto /\ StartLoop(auto')
  /\ UNCHANGED <<field, ce, flight, status, malformed, Page>>

\* Slip: only the tick of the change asks the new node.
ChangeUrlOnce(u) ==
  /\ changes < MaxChanges /\ changes' = changes + 1 /\ u # field
  /\ field' = u /\ Begin(u)
  /\ UNCHANGED <<ce, auto, timers, malformed, Page>>

ChangeUrl(u) ==
  /\ changes < MaxChanges /\ changes' = changes + 1 /\ u # field
  /\ field' = u /\ ce' = u /\ Begin(u)
  /\ UNCHANGED <<auto, timers, malformed, Page>>

(***************************************************************************)
(* A tick.                                                                 *)
(***************************************************************************)
\* Slip: the next request goes to the client the page has now.
NextAsksPage(t) == ce

\* The functions that send the requests of a part hold on to the client they
\* were called with (collectProfiles, computeVerifiedStats).
NextAsks(t) == t.client

\* A request of part p is answered, or fails; a failure is caught and counts
\* as nothing, in computeVerifiedStats too.  The next request of p is sent.
After(t, p, got) ==
  [client |-> t.client,
   left |-> [t.left EXCEPT ![p] = @ - 1],
   asks |-> [t.asks EXCEPT ![p] = NextAsks(t)],
   from |-> t.from \cup got]

Settle(j, p) ==
  /\ j \in DOMAIN flight /\ flight[j].left[p] > 0
  /\ \E got \in {{}, {flight[j].asks[p]}} :
       flight' = [flight EXCEPT ![j] = After(flight[j], p, got)]
  /\ UNCHANGED <<field, ce, auto, timers, status, changes, malformed, Page>>

Settled(j) == j \in DOMAIN flight /\ \A p \in Part : flight[j].left[p] = 0

\* All parts have settled: the page is drawn in one go.  The catch of the four
\* (lines 358-366) is never entered, as none of them rejects: a node that does
\* not answer is drawn as one that knows nobody, and the status is "live".
Draw(j) ==
  /\ Settled(j)
  /\ table' = [of |-> flight[j].client, from |-> flight[j].from]
  /\ map' = table' /\ status' = "live"
  /\ flight' = RemoveAt(flight, j)
  /\ UNCHANGED <<field, ce, auto, timers, changes, malformed>>

\* An atlas that is no list, or has an entry that is null, makes mergeRows
\* throw before anything is drawn; a netgraph that is no list makes renderMap
\* throw when the totals and the table are drawn already.  The status stays.
DrawThrows(j) ==
  /\ Settled(j) /\ flight[j].from # {}
  /\ malformed < MaxMalformed /\ malformed' = malformed + 1
  /\ table' \in {table, [of |-> flight[j].client, from |-> flight[j].from]}
  /\ flight' = RemoveAt(flight, j)
  /\ UNCHANGED <<field, ce, auto, timers, status, map, changes>>

TickMoves(j) == Draw(j) \/ DrawThrows(j) \/ \E p \in Part : Settle(j, p)

PageNext ==
  \/ Interval \/ Refresh \/ SetAuto
  \/ \E u \in Url : ChangeUrl(u)
  \/ \E j \in 1 .. MaxFlight : TickMoves(j)

\* The browser fires its intervals, and every request is answered or aborted
\* after eight seconds: the oldest tick moves on to its end.
PageSpec == PageInit /\ [][PageNext]_pageVars /\ WF_pageVars(Interval) /\ WF_pageVars(TickMoves(1))

-----------------------------------------------------------------------------
(***************************************************************************)
(* Properties.                                                             *)
(***************************************************************************)
PageTypeOK ==
  /\ field \in Url /\ ce \in Url /\ auto \in BOOLEAN /\ timers \in Nat
  /\ flight \in Seq(PageTick) /\ Len(flight) <= MaxFlight
  /\ status \in {"load", "live"}
  /\ table \in Drawn /\ map \in Drawn
  /\ malformed \in 0 .. MaxMalformed

\* What is drawn of a tick is the answers of one node, the one it was begun
\* for, also when the address changes between two requests of the tick and
\* other ticks are drawn meanwhile (lines 344-381, fabricstats.js:152-186,
\* 566-590).  After a malformed answer the table and the map may be of two.
OneNodeShown ==
  PageTypeOK /\ table.from \subseteq {table.of} /\ map.from \subseteq {map.of}

\* After the last change of the address, and with the box checked, the page
\* ends up with the node it names, in the table and on the map: what is still
\* in flight from the node before it is shown last only for a while, and what
\* a malformed answer left undrawn is drawn by a later tick (lines 344-381,
\* 752-764).
EndsOnThisNode == <>[]auto => <>[](table.of = field /\ map.of = field)
=============================================================================
