--------------------------- MODULE ProfilePublish ---------------------------
(***************************************************************************)
(* buildAndPublish and publish of src/profile.js: read the node id and the *)
(* beacon, detect the environment, measure, assemble the profile and give  *)
(* it to the node: POST /profile/publish, or, where the node has no such   *)
(* route, a signal that carries it.  The chain and the clock move all the  *)
(* while, every request can fail, and the answer to a request the node     *)
(* carried out can be lost.  A profile is the run it comes from, its       *)
(* beacon, the seed of its samples and its time, and, as history, the      *)
(* chain's height when it was assembled (tip).  The hash of a block is     *)
(* written as its height.                                                  *)
(***************************************************************************)
EXTENDS Naturals

CONSTANTS Runs,      \* bound: calls of buildAndPublish, one after the other
          MaxHeight, \* bound: blocks that arrive meanwhile
          MaxClock,  \* bound: the clock
          Empty      \* the empty hash

ASSUME PublishAssumption ==
  Runs \in Nat \ {0} /\ MaxHeight \in Nat /\ MaxClock \in Nat /\ Empty \notin Nat

None == [run |-> 0]

VARIABLES
  run, step,  \* the run and the await it is at
  began,      \* the beacon it took from the node's answer
  seeded,     \* the seed its samples were computed from
  profile,    \* None or the profile it assembled
  answer,     \* what came of POST /profile/publish
  via,        \* what the run returned: "none", "publish" or "signal"
  height, clock,
  routed,     \* does the node serve POST /profile/publish?
  store, air  \* profiles the node stored, profiles broadcast as signals

vars == <<run, step, began, seeded, profile, answer, via, height, clock,
          routed, store, air>>
world == <<height, clock, routed>>
out == <<store, air>>

Steps == {"status", "beacon", "measure", "assemble", "publish", "signal",
          "resolved", "rejected"}
Hashes == 0 .. MaxHeight \cup {Empty}
Beacon == [height : 0 .. MaxHeight, hash : Hashes]
Profile == [run : 1 .. Runs, beacon : Beacon, seed : Hashes,
            at : 0 .. MaxClock, tip : 0 .. MaxHeight]

TypeOK ==
  /\ run \in 1 .. Runs /\ step \in Steps
  /\ began \in Beacon /\ seeded \in Hashes
  /\ profile \in Profile \cup {None}
  /\ answer \in {"none", "signed", "noRoute", "refused", "notFound", "lost"}
  /\ via \in {"none", "publish", "signal"}
  /\ height \in 0 .. MaxHeight /\ clock \in 0 .. MaxClock /\ routed \in BOOLEAN
  /\ store \subseteq Profile /\ air \subseteq Profile

Init ==
  /\ run = 1 /\ step = "status"
  /\ began = [height |-> 0, hash |-> Empty] /\ seeded = Empty
  /\ profile = None /\ answer = "none" /\ via = "none"
  /\ height = 0 /\ clock = 0 /\ routed \in BOOLEAN
  /\ store = {} /\ air = {}

Goto(s) == step' = s /\ UNCHANGED run

ReadStatus ==
  /\ step = "status" /\ Goto("beacon")
  /\ UNCHANGED <<began, seeded, profile, answer, via, world, out>>

\* What the coercions make of the two fields of an answer to GET /beacon: the
\* block's, or 0 and the empty hash where the answer is null or the field is
\* missing or of another type.  (A negative height is 0 in the profile, too.)
Coerced == [height : {height, 0}, hash : {height, Empty}]

\* Slip: the beacon is read once per process.
ReadBeaconOnce ==
  /\ step = "beacon" /\ Goto("measure")
  /\ IF run = 1 THEN began' \in Coerced ELSE UNCHANGED began
  /\ UNCHANGED <<seeded, profile, answer, via, world, out>>

\* The beacon at the start of the run, which also seeds it.  An answer that is
\* not one does not stop the run.
ReadBeacon ==
  /\ step = "beacon" /\ Goto("measure")
  /\ began' \in Coerced
  /\ UNCHANGED <<seeded, profile, answer, via, world, out>>

\* Slip: the suite asks the node for a seed of its own.
MeasureReseeded ==
  /\ step = "measure" /\ Goto("assemble")
  /\ seeded' = height
  /\ UNCHANGED <<began, profile, answer, via, world, out>>

\* coerceSeed takes the hash it is given, the empty one too.
Measure ==
  /\ step = "measure" /\ Goto("assemble")
  /\ seeded' = began.hash
  /\ UNCHANGED <<began, profile, answer, via, world, out>>

Assemble ==
  /\ step = "assemble" /\ Goto("publish")
  /\ profile' = [run |-> run, beacon |-> began, seed |-> seeded,
                at |-> clock, tip |-> height]
  /\ UNCHANGED <<began, seeded, answer, via, world, out>>

\* A read fails, the suite throws, or the profile is not valid.
Throws ==
  /\ step \in {"status", "beacon", "measure", "assemble"} /\ Goto("rejected")
  /\ UNCHANGED <<began, seeded, profile, answer, via, world, out>>

\* Slip: every failure is met with a signal.
FallsBackAlways(a) == TRUE

\* The text of the error decides: "HTTP 404" or "not found" anywhere in it.
FallsBack(a) == a \in {"noRoute", "notFound"}

\* "notFound" is a refusal of an existing route with those words in its text.
Answers == IF routed THEN {"signed", "refused", "notFound", "lost"}
                     ELSE {"noRoute", "lost"}

\* The stores a request with this answer may leave behind.
StoreAfter(a) ==
  IF a = "signed" THEN {store \cup {profile}}
  ELSE {store} \cup (IF a = "lost" /\ routed THEN {store \cup {profile}} ELSE {})

PublishProfile ==
  /\ step = "publish"
  /\ answer' \in Answers /\ store' \in StoreAfter(answer')
  /\ \/ answer' = "signed" /\ Goto("resolved") /\ via' = "publish"
     \/ answer' # "signed" /\ FallsBack(answer') /\ Goto("signal") /\ UNCHANGED via
     \/ answer' # "signed" /\ ~FallsBack(answer') /\ Goto("rejected") /\ UNCHANGED via
  /\ UNCHANGED <<began, seeded, profile, world, air>>

SendSignal ==
  /\ step = "signal" /\ air' \in {air, air \cup {profile}}
  /\ \/ profile \in air' /\ Goto("resolved") /\ via' = "signal"
     \/ Goto("rejected") /\ UNCHANGED via
  /\ UNCHANGED <<began, seeded, profile, answer, world, store>>

\* The caller tries again, or publishes its next measurement.
RunAgain ==
  /\ step \in {"resolved", "rejected"} /\ run < Runs
  /\ run' = run + 1 /\ step' = "status"
  /\ profile' = None /\ answer' = "none" /\ via' = "none"
  /\ UNCHANGED <<began, seeded, world, out>>

\* Blocks arrive, time passes, and the node is upgraded to serve the route.
BeaconAdvances ==
  /\ height < MaxHeight /\ height' = height + 1
  /\ UNCHANGED <<run, step, began, seeded, profile, answer, via, clock, routed, out>>
Tick ==
  /\ clock < MaxClock /\ clock' = clock + 1
  /\ UNCHANGED <<run, step, began, seeded, profile, answer, via, height, routed, out>>
Upgrade ==
  /\ ~routed /\ routed' = TRUE
  /\ UNCHANGED <<run, step, began, seeded, profile, answer, via, height, clock, out>>

Moves == ReadStatus \/ ReadBeacon \/ Measure \/ Assemble \/ Throws
         \/ PublishProfile \/ SendSignal
Next == Moves \/ RunAgain \/ BeaconAdvances \/ Tick \/ Upgrade

Spec == Init /\ [][Next]_vars

-----------------------------------------------------------------------------
(***************************************************************************)
(* Properties.                                                             *)
(***************************************************************************)
Published == store \cup air

\* What is published carries the hash its samples were computed from, also
\* when blocks arrive between the steps of the run (lines 530-547).
SeedIsBeacon == TypeOK /\ \A p \in Published : p.seed = p.beacon.hash

\* A beacon is of a block from tip on, but for what stands for no answer.
NotBefore(tip, b) ==
  /\ b.height = 0 \/ tip <= b.height
  /\ b.hash = Empty \/ tip <= b.hash

\* A run is not backdated: its time is not from before the profile of an earlier
\* run, and neither is its beacon, unless the node gave none: then the profile
\* is published with height 0 or the empty hash (lines 529-534).
NotBackdated ==
  \A p, q \in Published :
    p.run < q.run => NotBefore(p.tip, q.beacon) /\ p.at <= q.at

\* "the profile is never silently dropped" (lines 463-465): a run that resolves
\* has published, the way it says; and a profile goes one way only, also when a
\* failure may have been a success.
PublishedOnce ==
  /\ store \cap air = {}
  /\ step = "resolved" => /\ via = "publish" => profile \in store
                          /\ via = "signal" => profile \in air
                          /\ via # "none"
=============================================================================
