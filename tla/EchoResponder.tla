--------------------------- MODULE EchoResponder ---------------------------
(***************************************************************************)
(* startEchoResponder of src/echo.js: it subscribes four topics, then keeps*)
(* a message stream open until it is stopped and handles every message     *)
(* without waiting for the one before.  A caller stops it through stop()   *)
(* or through the signal it passed, at any moment, also while the topics   *)
(* are being subscribed.  The stream is opened after the promise resolved. *)
(* Payloads are left out: what a message asks for is its topic and token.  *)
(***************************************************************************)
EXTENDS Naturals, Sequences, FiniteSets

CONSTANTS Msg,        \* messages the node has for the responder
          TopicOf(_), \* "echo", "putblob", "pubsub" or "pubsubRes"
          Asks(_),    \* does the message carry a reply token?
          MaxDrops    \* bound: losses of the stream

ASSUME ResponderAssumption ==
  /\ IsFiniteSet(Msg) /\ MaxDrops \in Nat
  /\ \A m \in Msg : /\ TopicOf(m) \in {"echo", "putblob", "pubsub", "pubsubRes"}
                     /\ Asks(m) \in BOOLEAN

Topics == 4
Served == {"echo", "putblob", "pubsub"}

VARIABLES
  caller,   \* the promise startEchoResponder returned
  topics,   \* topics subscribed so far
  signal,   \* has the caller's signal been aborted?
  aborted,  \* has the responder's own controller?
  loop,     \* the reconnect loop
  frames,   \* parsed from the last chunk and not yet yielded
  work,     \* what became of each message
  counts,
  drops     \* losses of the stream the loop reported (history, bounded)

echoVars == <<caller, topics, signal, aborted, loop, frames, work, counts, drops>>
stopping == <<signal, aborted>>
serving == <<frames, work, counts>>

\* storing: the put of the blob, until the node's headers are there; hashing:
\* its body, which putBlob reads after its timer was cleared (ce.js:196, 207).
Pending == {"replying", "storing", "hashing", "publishing"}
Settled == {"answered", "failed", "ignored"}

EchoTypeOK ==
  /\ caller \in {"subscribing", "serving", "rejected"} /\ topics \in 0 .. Topics
  /\ signal \in BOOLEAN /\ aborted \in BOOLEAN
  /\ loop \in {"off", "connecting", "reading", "sleeping", "ended"}
  /\ frames \in Seq(Msg)
  /\ work \in [Msg -> {"absent", "framed"} \cup Pending \cup Settled]
  /\ counts \in [Served \cup {"errors"} -> Nat]
  /\ drops \in 0 .. MaxDrops

EchoInit ==
  /\ caller = "subscribing" /\ topics = 0 /\ drops = 0
  /\ signal \in BOOLEAN /\ aborted = FALSE
  /\ loop = "off" /\ frames = <<>> /\ work = [m \in Msg |-> "absent"]
  /\ counts = [what \in Served \cup {"errors"} |-> 0]

Count(what) == counts' = [counts EXCEPT ![what] = @ + 1]
MoveTo(m, to) == work' = [work EXCEPT ![m] = to]

\* The last subscription starts the loop.  The listener is added here, and an
\* event that was fired before is not fired again.
SubscribeOk ==
  /\ caller = "subscribing" /\ topics' = topics + 1
  /\ IF topics' = Topics THEN caller' = "serving" /\ loop' = "connecting"
                         ELSE UNCHANGED <<caller, loop>>
  /\ UNCHANGED <<stopping, serving, drops>>

SubscribeFails ==
  /\ caller = "subscribing" /\ caller' = "rejected"
  /\ UNCHANGED <<topics, stopping, loop, serving, drops>>

CallerAborts ==
  /\ ~signal /\ signal' = TRUE
  /\ aborted' = (aborted \/ caller = "serving")
  /\ UNCHANGED <<caller, topics, loop, serving, drops>>

Stop ==
  /\ caller = "serving" /\ ~aborted /\ aborted' = TRUE
  /\ UNCHANGED <<caller, topics, signal, loop, serving, drops>>

(***************************************************************************)
(* The loop.  The stream's end, error or abort is met by reader.read, once *)
(* the frames of the last chunk have been yielded.                         *)
(***************************************************************************)
Again == IF aborted THEN "ended" ELSE "connecting"
AtRead == loop = "reading" /\ frames = <<>>

StreamOpens ==
  /\ loop = "connecting" /\ loop' = "reading"
  /\ UNCHANGED <<caller, topics, stopping, serving, drops>>

StreamDrops ==
  /\ loop = "connecting" \/ AtRead
  /\ ~aborted /\ drops < MaxDrops
  /\ loop' = "sleeping" /\ drops' = drops + 1
  /\ Count("errors")
  /\ UNCHANGED <<caller, topics, stopping, frames, work>>

\* Slip: the signal is not given to the open stream.
StreamAbortsUnread ==
  /\ loop = "connecting" /\ aborted /\ loop' = "ended"
  /\ UNCHANGED <<caller, topics, stopping, serving, drops>>

\* Slip: the catch counts before it looks at the signal.
StreamAbortsCounted ==
  /\ loop = "connecting" \/ AtRead
  /\ aborted /\ loop' = "ended" /\ Count("errors")
  /\ UNCHANGED <<caller, topics, stopping, frames, work, drops>>

\* Slip: stopping throws away what the last chunk still holds.
StreamAbortsAtOnce ==
  /\ loop \in {"connecting", "reading"}
  /\ aborted /\ loop' = "ended" /\ frames' = <<>>
  /\ UNCHANGED <<caller, topics, stopping, work, counts, drops>>

StreamAborts ==
  /\ loop = "connecting" \/ AtRead
  /\ aborted /\ loop' = "ended"
  /\ UNCHANGED <<caller, topics, stopping, serving, drops>>

\* The node ends the stream in order: no error, no pause.
StreamEnds ==
  /\ AtRead /\ loop' = Again
  /\ UNCHANGED <<caller, topics, stopping, serving, drops>>

Wakes ==
  /\ loop = "sleeping" /\ loop' = Again
  /\ UNCHANGED <<caller, topics, stopping, serving, drops>>

\* A chunk holds one or several messages.
Reads(ms) ==
  /\ AtRead /\ ~aborted
  /\ \A i \in DOMAIN ms : work[ms[i]] = "absent"
  /\ frames' = ms
  /\ work' = [m \in Msg |-> IF m \in {ms[i] : i \in DOMAIN ms} THEN "framed" ELSE work[m]]
  /\ UNCHANGED <<caller, topics, stopping, loop, counts, drops>>

(***************************************************************************)
(* handle: its requests run while the loop goes on, and may fail.          *)
(***************************************************************************)
FirstStep(m) ==
  CASE TopicOf(m) = "pubsub" -> "publishing"
    [] TopicOf(m) = "echo" /\ Asks(m) -> "replying"
    [] TopicOf(m) = "putblob" /\ Asks(m) -> "storing"
    [] OTHER -> "ignored"

Handles ==
  /\ loop = "reading" /\ frames # <<>>
  /\ frames' = Tail(frames)
  /\ MoveTo(Head(frames), FirstStep(Head(frames)))
  /\ UNCHANGED <<caller, topics, stopping, loop, counts, drops>>

RequestOk(m) ==
  /\ \/ work[m] = "storing" /\ MoveTo(m, "hashing") /\ UNCHANGED counts
     \/ work[m] = "hashing" /\ MoveTo(m, "replying") /\ UNCHANGED counts
     \/ /\ work[m] \in {"replying", "publishing"}
        /\ MoveTo(m, "answered") /\ Count(TopicOf(m))
  /\ UNCHANGED <<caller, topics, stopping, loop, frames, drops>>

RequestFails(m) ==
  /\ work[m] \in Pending /\ MoveTo(m, "failed") /\ Count("errors")
  /\ UNCHANGED <<caller, topics, stopping, loop, frames, drops>>

Subscribes == SubscribeOk \/ SubscribeFails
Settles(m) == RequestOk(m) \/ RequestFails(m)
TimedSettles(m) == work[m] # "hashing" /\ Settles(m)
Chunks == {<<m>> : m \in Msg} \cup {ms \in Msg \X Msg : ms[1] # ms[2]}

EchoNext ==
  \/ Subscribes \/ CallerAborts \/ Stop
  \/ StreamOpens \/ StreamDrops \/ StreamAborts \/ StreamEnds \/ Wakes \/ Handles
  \/ \E ms \in Chunks : Reads(ms)
  \/ \E m \in Msg : Settles(m)

\* Timers fire and an aborted stream rejects.  JSON requests and the headers of
\* a put come or fail within the client's timeout; the body of a put may never
\* come.  The stream itself need never open, end or deliver.
EchoSpec == EchoInit /\ [][EchoNext]_echoVars
FairSpec ==
  /\ EchoSpec
  /\ WF_echoVars(Subscribes) /\ WF_echoVars(StreamAborts) /\ WF_echoVars(Wakes)
  /\ WF_echoVars(Handles) /\ \A m \in Msg : WF_echoVars(TimedSettles(m))

-----------------------------------------------------------------------------
(***************************************************************************)
(* Properties.                                                             *)
(***************************************************************************)
Answered(t) == {m \in Msg : work[m] = "answered" /\ TopicOf(m) = t}
Failed == {m \in Msg : work[m] = "failed"}

\* Handlers that overlap, and a stream that drops meanwhile, leave one tally
\* per message, and being stopped is not an error (lines 53-66, 73-96).
TallyExact ==
  /\ EchoTypeOK
  /\ \A t \in Served : counts[t] = Cardinality(Answered(t))
  /\ counts["errors"] = Cardinality(Failed) + drops

\* Once its controller is aborted the loop ends, whatever the stream does.
StopEnds == aborted ~> loop = "ended"

\* A message that was read is handled to its end, also when the responder is
\* stopped, loses the stream, or waits for ever for the hash of another blob.
\* Only a blob request can itself be left: when the node has sent the headers of
\* the put and withholds its body.
ReadIsHandled ==
  \A m \in Msg :
    work[m] = "framed" ~> (work[m] \in Settled \/ [](work[m] = "hashing"))
=============================================================================
