---------------------------- MODULE NetbenchRun ----------------------------
(***************************************************************************)
(* The run of bin/ce-netbench.js from its arguments to its report: peer    *)
(* discovery, the self probe behind a check, the loops over the peers with *)
(* their skips, the store sections, the concurrency curve.  A sweep is a   *)
(* number of cells and some of them throw; a probe of a peer is answered   *)
(* or not.  ce-echo comes up and goes down on the peers at any time.       *)
(***************************************************************************)
EXTENDS Naturals, Sequences, SequencesExt, Functions, FiniteSets

CONSTANTS
  Peer,       \* the nodes that --peer or the atlas can name; this node is
  Id,         \* one of them
  Self,       \* the label of what the run measures on this node by itself
  Cells,      \* cells of a sweep
  MaxOptions, \* bound: --peer options
  MaxAtlas    \* bound: nodes in the atlas

ASSUME RunAssumption ==
  Id \in Peer /\ Self \notin Peer /\ Cells \in Nat \ {0} /\ MaxOptions \in Nat /\ MaxAtlas \in Nat

VARIABLES
  options,  \* the values of --peer, in order
  noRemote, \* --no-remote
  at,       \* the section the run is in, or how it ended
  stage,    \* "probe" or "sweep" of the current target
  k,        \* which target of the section
  cells, threw, \* cells of the running sweep, and those of them that threw
  inline,   \* this process's own responder: "off", "on" or "stopping"
  selfOk,
  peers,
  report,   \* section |-> target |-> its cells, or Skip
  echo,     \* peers that run ce-echo, and
  seen      \* all that ever did (history)
vars == <<options, noRemote, at, stage, k, cells, threw, inline, selfOk, peers,
          report, echo, seen>>

Ends == {"exited", "aborted", "done"}
Measured == {"self", "rpc", "send", "put", "get", "object", "remote", "conc"}
Order == <<"status", "peers", "ping", "self", "rpc", "send", "put", "get",
           "object", "remote", "conc", "pubsub", "render", "done">>
After(sec) == Order[CHOOSE j \in DOMAIN Order : j > 1 /\ Order[j - 1] = sec]

\* filter
Without(s, T) ==
  LET kept[i \in 0 .. Len(s)] ==
        IF i = 0 THEN <<>>
        ELSE IF s[i] \in T THEN kept[i - 1] ELSE Append(kept[i - 1], s[i])
  IN  kept[Len(s)]

Nothing == [t \in {} |-> 0]
Skip == 0 \* the entry {skipped: true}; others have cells
Skipped(sec, t) == t \in DOMAIN report[sec] /\ report[sec][t] = Skip

Init ==
  /\ options \in SeqOf(Peer, MaxOptions) /\ noRemote \in BOOLEAN
  /\ at = "status" /\ stage = "probe" /\ k = 1 /\ cells = 0 /\ threw = 0
  /\ inline = "off" /\ selfOk = FALSE /\ peers = <<>>
  /\ report = [s \in Measured |-> Nothing]
  /\ echo \in SUBSET Peer /\ seen = echo

Environment == <<options, noRemote, echo, seen>>
EnterNext == at' = After(at) /\ stage' = "probe" /\ k' = 1 /\ cells' = 0 /\ threw' = 0
NextTarget == k' = k + 1 /\ stage' = "probe" /\ cells' = 0 /\ threw' = 0 /\ UNCHANGED at
Reported(t, what) ==
  report' = [report EXCEPT ![at] = [u \in DOMAIN @ \cup {t} |-> IF u = t THEN what ELSE @[u]]]

(***************************************************************************)
(* Up to the first measurement.                                            *)
(***************************************************************************)
Status(reached) ==
  /\ at = "status"
  /\ IF reached THEN EnterNext
     ELSE at' = "exited" /\ UNCHANGED <<stage, k, cells, threw>>
  /\ UNCHANGED <<Environment, inline, selfOk, peers, report>>

\* parseArgs keeps one value of an option, the last.
PeerArg == IF options = <<>> THEN <<>> ELSE <<Last(options)>>

\* Only without a --peer is the atlas asked; if that fails there are no peers.
\* This node is left out of the atlas, though a --peer may name it.
Discover(atlas) ==
  /\ at = "peers"
  /\ peers' = IF PeerArg = <<>> /\ ~noRemote
              THEN Without(atlas, {Id}) ELSE PeerArg
  /\ EnterNext
  /\ UNCHANGED <<Environment, inline, selfOk, report>>

\* The ping floor, and the optional pubsub probe at the end: their failure is
\* an entry of the report.
Single ==
  /\ at \in {"ping", "pubsub"} /\ EnterNext
  /\ UNCHANGED <<Environment, inline, selfOk, peers, report>>

(***************************************************************************)
(* The targets of a section.                                               *)
(***************************************************************************)
ConcTargets == (IF selfOk THEN <<Self>> ELSE <<>>)
               \o Without(peers, {p \in Peer : Skipped("rpc", p)})
Targets ==
  CASE at \in {"rpc", "send", "remote"} -> peers
    [] at = "conc" -> ConcTargets
    [] OTHER -> <<Self>>
Running == at \in Measured /\ k <= Len(Targets)
Target == Targets[k]

\* Requests to this node are answered by this process, except when a --peer
\* names it: then it is a target like any other.
NeedsInline == at \in {"self", "conc"} /\ Target = Self

(***************************************************************************)
(* withInlineResponder.                                                    *)
(***************************************************************************)
\* Its subscriptions may fail.  Only around the check is that caught.
StartInline(subscribed) ==
  /\ Running /\ NeedsInline /\ inline = "off" /\ cells = 0
  /\ CASE subscribed -> inline' = "on" /\ UNCHANGED <<at, stage, k, cells, threw, report>>
       [] ~subscribed /\ at = "self" /\ stage = "probe" ->
            Reported(Self, Skip) /\ NextTarget /\ UNCHANGED inline
       [] OTHER -> at' = "aborted" /\ UNCHANGED <<stage, k, cells, threw, inline, report>>
  /\ UNCHANGED <<Environment, selfOk, peers>>

\* Three requests to this node, not all of them in error.
SelfCheck(ok) ==
  /\ Running /\ at = "self" /\ stage = "probe" /\ inline = "on"
  /\ selfOk' = ok /\ inline' = "stopping"
  /\ UNCHANGED <<Environment, at, stage, k, cells, threw, peers, report>>

\* The responder is done; then the sweep after the check, or the next target.
StopInline ==
  /\ inline = "stopping" /\ inline' = "off"
  /\ CASE at = "self" /\ stage = "probe" /\ selfOk ->
            stage' = "sweep" /\ UNCHANGED <<at, k, cells, threw, report>>
       [] at = "self" /\ stage = "probe" /\ ~selfOk ->
            Reported(Self, Skip) /\ NextTarget
       [] OTHER -> NextTarget /\ UNCHANGED report
  /\ UNCHANGED <<Environment, selfOk, peers>>

(***************************************************************************)
(* Peers, sweeps and sections.                                             *)
(***************************************************************************)
\* Five requests.  A peer is skipped when none is answered: a request needs
\* ce-echo there, a message only the peer's node.
Probe(answered) ==
  /\ Running /\ at \in {"rpc", "send"} /\ stage = "probe"
  /\ at = "rpc" /\ answered => Target \in echo
  /\ IF answered THEN stage' = "sweep" /\ UNCHANGED <<at, k, cells, threw, report>>
     ELSE Reported(Target, Skip) /\ NextTarget
  /\ UNCHANGED <<Environment, inline, selfOk, peers>>

\* A peer skipped by rpc is skipped again; the other sections go ahead.
Enter ==
  /\ Running /\ at \notin {"self", "rpc", "send"} /\ stage = "probe"
  /\ NeedsInline => inline = "on"
  /\ IF at = "remote" /\ Skipped("rpc", Target)
     THEN Reported(Target, Skip) /\ NextTarget
     ELSE stage' = "sweep" /\ UNCHANGED <<at, k, cells, threw, report>>
  /\ UNCHANGED <<Environment, inline, selfOk, peers>>

\* Only a put outside timedBatch throws: probeBlobGetLocal's first one and
\* those of probeObjectRoundtrip.
MayThrow == at \in {"get", "object"}
CellsOf(sec) == IF sec = "send" THEN 2 * Cells ELSE Cells

\* Slip: a cell that throws is not pushed.
CellLost(throws) ==
  /\ Running /\ stage = "sweep" /\ cells < CellsOf(at)
  /\ (NeedsInline => inline = "on") /\ (throws => MayThrow)
  /\ cells' = cells + 1
  /\ threw' = IF throws THEN threw + 1 ELSE threw
  /\ report' = [report EXCEPT ![at] = IF throws THEN @ ELSE
                  [u \in DOMAIN @ \cup {Target} |-> IF u = Target THEN cells' - threw ELSE @[u]]]
  /\ UNCHANGED <<Environment, at, stage, k, inline, selfOk, peers>>

\* A cell is pushed whether its probe returns or throws.
Cell(throws) ==
  /\ Running /\ stage = "sweep" /\ cells < CellsOf(at)
  /\ (NeedsInline => inline = "on") /\ (throws => MayThrow)
  /\ cells' = cells + 1
  /\ threw' = IF throws THEN threw + 1 ELSE threw
  /\ Reported(Target, cells')
  /\ UNCHANGED <<Environment, at, stage, k, inline, selfOk, peers>>

\* Slip: the responder is not aborted after the sweep.
FinishUnaborted ==
  /\ Running /\ stage = "sweep" /\ cells = CellsOf(at) /\ inline # "stopping"
  /\ NextTarget
  /\ UNCHANGED <<Environment, inline, selfOk, peers, report>>

FinishTarget ==
  /\ Running /\ stage = "sweep" /\ cells = CellsOf(at) /\ inline # "stopping"
  /\ IF inline = "on"
     THEN inline' = "stopping" /\ UNCHANGED <<at, stage, k, cells, threw>>
     ELSE NextTarget /\ UNCHANGED inline
  /\ UNCHANGED <<Environment, selfOk, peers, report>>

FinishSection ==
  /\ at \in Measured /\ k > Len(Targets) /\ EnterNext
  /\ UNCHANGED <<Environment, inline, selfOk, peers, report>>

Render ==
  /\ at = "render" /\ EnterNext
  /\ UNCHANGED <<Environment, inline, selfOk, peers, report>>

Step ==
  \/ Discover(<<>>) \/ \E atlas \in SeqOf(Peer, MaxAtlas) : Discover(atlas)
  \/ \E b \in BOOLEAN :
       Status(b) \/ StartInline(b) \/ SelfCheck(b) \/ Probe(b) \/ Cell(b)
  \/ Single \/ StopInline \/ Enter \/ FinishTarget \/ FinishSection \/ Render

\* ce-echo is started or stopped on a peer.
Toggle(p) ==
  /\ at \notin Ends
  /\ echo' = IF p \in echo THEN echo \ {p} ELSE echo \cup {p}
  /\ seen' = seen \cup echo'
  /\ UNCHANGED <<options, noRemote, at, stage, k, cells, threw, inline, selfOk, peers, report>>

Stopped == at \in Ends /\ UNCHANGED vars
Next == Step \/ Stopped \/ \E p \in Peer : Toggle(p)

Spec == Init /\ [][Next]_vars

-----------------------------------------------------------------------------
(***************************************************************************)
(* Properties.                                                             *)
(***************************************************************************)
TypeOK ==
  /\ at \in Measured \cup Ends \cup {"status", "peers", "ping", "pubsub", "render"}
  /\ stage \in {"probe", "sweep"} /\ k \in Nat /\ cells \in 0 .. 2 * Cells
  /\ inline \in {"off", "on", "stopping"} /\ selfOk \in BOOLEAN
  /\ peers \in Seq(Peer) /\ DOMAIN report = Measured

\* The inline responder runs only while this node itself is measured: it never
\* outlives the measurement it was started for (the finally block, lines
\* 212-217).
ResponderOnlyForSelf ==
  TypeOK /\ (inline # "off" => at \in {"self", "conc"} /\ k <= Len(Targets) /\ Target = Self)

SkippedNotFailed ==
  \A p \in Peer \ seen :
    /\ p \in DOMAIN report["rpc"] => Skipped("rpc", p)
    /\ p \in DOMAIN report["remote"] => Skipped("remote", p)
    /\ p \notin DOMAIN report["conc"]

\* The report has every peer in every section, with all cells of its sweeps
\* or as skipped, whatever failed on the way (lines 80-184); and "peers without
\* ce-echo running are detected ... and reported as skipped, not failed" (lines
\* 17-18), in every section that needs it.
WholeReport ==
  /\ SkippedNotFailed
  /\ at = "done" =>
       /\ \A s \in {"rpc", "send", "remote"} : DOMAIN report[s] = Range(peers)
       /\ \A s \in {"self", "put", "get", "object"} : DOMAIN report[s] = {Self}
       /\ DOMAIN report["conc"] = Range(ConcTargets)
       /\ \A s \in Measured, t \in Peer \cup {Self} :
            t \in DOMAIN report[s] => report[s][t] \in {Skip, CellsOf(s)}
=============================================================================
