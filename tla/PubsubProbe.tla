---------------------------- MODULE PubsubProbe ----------------------------
(***************************************************************************)
(* probePubsubProp of src/net.js: pings are published one at a time and a  *)
(* consumer task resolves each from its echo on the message stream, against*)
(* a timer per ping.  The publish request, the echo, the timer and the     *)
(* stream are independent; messages can be lost, late, reordered or        *)
(* delivered twice, and publishing can fail although the node took it.     *)
(* A ping's nonce is its number; 8 random bytes do not repeat.             *)
(***************************************************************************)
EXTENDS Naturals, Sequences, FiniteSets

CONSTANT Iters   \* pings of the probe

ASSUME ProbeAssumption == Iters \in Nat \ {0}

Ping == 1 .. Iters

VARIABLES
  step,       \* the await the probe is at
  i,          \* the current ping
  pending,    \* keys of the Map of resolvers
  promise,    \* each ping's promise p
  timer,      \* each ping's timer
  latencies,  \* the pings that were measured, in order
  errors,
  unhandled,  \* promises rejected while nobody awaited them (history)
  stream,     \* the consumer's event stream
  heard,      \* is the response topic subscribed at the node?
  sent,       \* pings the node put on the request topic
  echoed      \* pings the responder mirrored; deliverable any number of times

vars == <<step, i, pending, promise, timer, latencies, errors, unhandled,
          stream, heard, sent, echoed>>

TypeOK ==
  /\ step \in {"subRes", "subReq", "publish", "wait", "closing", "returned"}
  /\ i \in 0 .. Iters
  /\ pending \subseteq Ping
  /\ promise \in [Ping -> {"none", "open", "resolved", "rejected"}]
  /\ timer \in [Ping -> {"off", "armed", "fired"}]
  /\ latencies \in Seq(Ping) /\ errors \in Nat
  /\ unhandled \subseteq Ping
  /\ stream \in {"closed", "opening", "open"}
  /\ heard \in BOOLEAN
  /\ sent \subseteq Ping /\ echoed \subseteq sent

Init ==
  /\ step = "subRes" /\ i = 0
  /\ pending = {} /\ promise = [n \in Ping |-> "none"]
  /\ timer = [n \in Ping |-> "off"]
  /\ latencies = <<>> /\ errors = 0 /\ unhandled = {}
  /\ stream = "closed" /\ heard = FALSE
  /\ sent = {} /\ echoed = {}

network == <<sent, echoed>>
result == <<latencies, errors>>

\* Slip: the timer is started only when the stream is up.
NextPingUntimed(waiting, promises, timers) ==
  IF i < Iters
  THEN /\ i' = i + 1 /\ step' = "publish"
       /\ pending' = waiting \cup {i + 1}
       /\ promise' = [promises EXCEPT ![i + 1] = "open"]
       /\ timer' = [timers EXCEPT ![i + 1] =
                      IF stream = "open" THEN "armed" ELSE "off"]
       /\ UNCHANGED stream
  ELSE /\ step' = "closing" /\ stream' = "closed"
       /\ pending' = waiting /\ promise' = promises /\ timer' = timers
       /\ UNCHANGED i

\* The loop's next turn registers a ping, starts its timer and publishes it;
\* after the last one the stream is aborted and the consumer awaited.  The
\* arguments are what the code just before leaves in the three structures.
NextPing(waiting, promises, timers) ==
  IF i < Iters
  THEN /\ i' = i + 1 /\ step' = "publish"
       /\ pending' = waiting \cup {i + 1}
       /\ promise' = [promises EXCEPT ![i + 1] = "open"]
       /\ timer' = [timers EXCEPT ![i + 1] = "armed"]
       /\ UNCHANGED stream
  ELSE /\ step' = "closing" /\ stream' = "closed"
       /\ pending' = waiting /\ promise' = promises /\ timer' = timers
       /\ UNCHANGED i

Measured == latencies' = Append(latencies, i) /\ UNCHANGED errors
Counted == errors' = errors + 1 /\ UNCHANGED latencies

\* A failure to subscribe is swallowed.
SubscribeRes ==
  /\ step = "subRes" /\ step' = "subReq" /\ heard' \in BOOLEAN
  /\ UNCHANGED <<i, pending, promise, timer, result, unhandled, stream, network>>

\* The consumer task asks for the stream; the first ping goes out at once.
SubscribeReq ==
  /\ step = "subReq" /\ step' = "publish" /\ stream' = "opening"
  /\ i' = 1 /\ pending' = {1}
  /\ promise' = [promise EXCEPT ![1] = "open"]
  /\ timer' = [timer EXCEPT ![1] = "armed"]
  /\ UNCHANGED <<result, unhandled, heard, network>>

(***************************************************************************)
(* The publish request.                                                    *)
(***************************************************************************)
\* The node accepts the message; its answer may still be lost.
NodeTakes ==
  /\ step = "publish" /\ i \notin sent
  /\ sent' = sent \cup {i}
  /\ UNCHANGED <<step, i, pending, promise, timer, result, unhandled, stream,
                 heard, echoed>>

AwaitEcho ==
  /\ promise[i] = "open" /\ step' = "wait"
  /\ UNCHANGED <<i, pending, promise, timer, result, stream>>

\* Slip: an echo or a timeout before the answer is not told apart.
PublishOkMeasures ==
  /\ step = "publish" /\ i \in sent
  /\ \/ AwaitEcho
     \/ promise[i] # "open" /\ Measured /\ NextPing(pending, promise, timer)
  /\ UNCHANGED <<unhandled, heard, network>>

\* The answer arrives; await p then goes by what became of p meanwhile.
PublishOk ==
  /\ step = "publish" /\ i \in sent
  /\ \/ AwaitEcho
     \/ promise[i] = "resolved" /\ Measured /\ NextPing(pending, promise, timer)
     \/ promise[i] = "rejected" /\ Counted /\ NextPing(pending, promise, timer)
  /\ UNCHANGED <<unhandled, heard, network>>

\* The request is refused or times out; p is left to its timer.
PublishFails ==
  /\ step = "publish" /\ Counted /\ NextPing(pending, promise, timer)
  /\ UNCHANGED <<unhandled, heard, network>>

(***************************************************************************)
(* Timers are never cleared: one finds its ping gone from the Map, or      *)
(* rejects the promise, which nobody may be awaiting.                      *)
(***************************************************************************)
Settled(n, how) == [promise EXCEPT ![n] = how]
Fired(n) == [timer EXCEPT ![n] = "fired"]
Awaited(n) == step = "wait" /\ n = i

TimerIdle(n) ==
  /\ timer[n] = "armed" /\ n \notin pending
  /\ timer' = Fired(n)
  /\ UNCHANGED <<step, i, pending, promise, result, unhandled, stream, heard,
                 network>>

\* Slip: the timer counts the failure itself, too.
TimerCounts(n) ==
  /\ timer[n] = "armed" /\ n \in pending /\ ~Awaited(n)
  /\ timer' = Fired(n) /\ pending' = pending \ {n}
  /\ promise' = Settled(n, "rejected")
  /\ unhandled' = unhandled \cup {n}
  /\ Counted
  /\ UNCHANGED <<step, i, stream, heard, network>>

\* A promise that nobody awaits is rejected.  The probe takes no notice; in Node
\* it would end the process if there were no unhandledRejection handler, which
\* bin/ce-netbench.js installs (46-48).
TimerUnheard(n) ==
  /\ timer[n] = "armed" /\ n \in pending /\ ~Awaited(n)
  /\ timer' = Fired(n) /\ pending' = pending \ {n}
  /\ promise' = Settled(n, "rejected")
  /\ unhandled' = unhandled \cup {n}
  /\ UNCHANGED <<step, i, result, stream, heard, network>>

TimerRejects(n) ==
  /\ timer[n] = "armed" /\ n \in pending /\ Awaited(n)
  /\ Counted
  /\ NextPing(pending \ {n}, Settled(n, "rejected"), Fired(n))
  /\ UNCHANGED <<unhandled, heard, network>>

TimerFires(n) == TimerIdle(n) \/ TimerUnheard(n) \/ TimerRejects(n)

(***************************************************************************)
(* The consumer.  It looks at messages of the response topic only, and one *)
(* whose nonce is not in the Map, a late echo or a second one, is dropped. *)
(***************************************************************************)
Receives(n) == stream = "open" /\ heard /\ n \in echoed

\* Slip: any echo is taken for the current ping's.
DeliverAnyEcho(n) ==
  /\ Receives(n) /\ i \in pending /\ Awaited(i)
  /\ Measured
  /\ NextPing(pending \ {i}, Settled(i, "resolved"), timer)
  /\ UNCHANGED <<unhandled, heard, network>>

DeliverAwaited(n) ==
  /\ Receives(n) /\ n \in pending /\ Awaited(n)
  /\ Measured
  /\ NextPing(pending \ {n}, Settled(n, "resolved"), timer)
  /\ UNCHANGED <<unhandled, heard, network>>

\* The echo overtook the answer to its publish, or the publish failed.
DeliverEarly(n) ==
  /\ Receives(n) /\ n \in pending /\ ~Awaited(n)
  /\ pending' = pending \ {n}
  /\ promise' = Settled(n, "resolved")
  /\ UNCHANGED <<step, i, timer, result, unhandled, stream, heard, network>>

Deliver(n) == DeliverAwaited(n) \/ DeliverEarly(n)

OpenStream ==
  /\ stream = "opening" /\ stream' = "open"
  /\ UNCHANGED <<step, i, pending, promise, timer, result, unhandled, heard,
                 network>>

\* The stream cannot be opened, or ends: the consumer does not ask again.
LoseStream ==
  /\ stream # "closed" /\ stream' = "closed"
  /\ UNCHANGED <<step, i, pending, promise, timer, result, unhandled, heard,
                 network>>

\* The responder mirrors a ping that reached the request topic.
Echo(n) ==
  /\ n \in sent \ echoed /\ echoed' = echoed \cup {n}
  /\ UNCHANGED <<step, i, pending, promise, timer, result, unhandled, stream,
                 heard, sent>>

Close ==
  /\ step = "closing" /\ step' = "returned"
  /\ UNCHANGED <<i, pending, promise, timer, result, unhandled, stream, heard,
                 network>>

Publish == PublishOk \/ PublishFails

Next ==
  \/ SubscribeRes \/ SubscribeReq \/ NodeTakes \/ Publish
  \/ OpenStream \/ LoseStream \/ Close
  \/ \E n \in Ping : TimerFires(n) \/ Deliver(n) \/ Echo(n)

Spec == Init /\ [][Next]_vars

\* Requests end within the client's timeout and timers fire; nothing is
\* assumed of the responder, the mesh or the stream.
FairSpec ==
  /\ Spec
  /\ WF_vars(SubscribeRes) /\ WF_vars(SubscribeReq) /\ WF_vars(Publish)
  /\ WF_vars(Close) /\ \A n \in Ping : WF_vars(TimerFires(n))

-----------------------------------------------------------------------------
(***************************************************************************)
(* Properties.                                                             *)
(***************************************************************************)
Recorded == {latencies[j] : j \in DOMAIN latencies}
Finished == IF step \in {"publish", "wait"} THEN i - 1 ELSE i

\* Every finished ping is one latency or one error, whichever of its answer,
\* its echo and its timer came first, and never two of them.
EveryPingCounted ==
  /\ Len(latencies) + errors = Finished
  /\ \A j, l \in DOMAIN latencies : j < l => latencies[j] < latencies[l]

\* A latency is measured from a ping to the echo of that very ping: late and
\* repeated echoes of earlier pings are never taken for it.
LatencyIsOwnEcho ==
  \A n \in Recorded : n \in echoed /\ promise[n] = "resolved"

\* A rejection that nobody handles belongs to a ping that is, or is about to
\* be, counted as an error; it is never one that was reported as measured.
UnhandledIsCounted == unhandled \cap Recorded = {}

\* Timers outlive the probe: what it returned is not touched afterwards.
ResultFrozen == [][step = "returned" => UNCHANGED result]_vars

\* No resolver is left behind: a ping in the Map has a timer that will take
\* it out, also when its publish failed or the probe has returned.
PendingHasTimer == \A n \in pending : timer[n] = "armed" /\ promise[n] = "open"

(***************************************************************************)
(* The inductive invariant: who may be in the Map, what a promise's state  *)
(* says of the network, and the tallies.                                   *)
(***************************************************************************)
StepOfPing ==
  /\ step \in {"subRes", "subReq"} => i = 0 /\ stream = "closed"
  /\ step \in {"publish", "wait"} => i \in Ping
  /\ step \in {"closing", "returned"} => i = Iters
  /\ step = "wait" => promise[i] = "open"

MapMatchesPromises ==
  \A n \in Ping :
    /\ n \in pending <=> promise[n] = "open"
    /\ n \in pending => timer[n] = "armed"
    /\ n > i => promise[n] = "none"
    /\ promise[n] = "resolved" => n \in echoed
    /\ n \in unhandled => promise[n] = "rejected"

LatenciesMatch ==
  /\ \A j \in DOMAIN latencies :
       promise[latencies[j]] = "resolved" /\ latencies[j] <= Finished
  /\ \A j, l \in DOMAIN latencies : j < l => latencies[j] < latencies[l]

\* The three structures of the probe, the Map, the promises and the timers,
\* agree with each other and with the tallies (lines 414-452).
ProbeInv ==
  /\ TypeOK /\ StepOfPing /\ MapMatchesPromises /\ LatenciesMatch
  /\ Len(latencies) + errors = Finished

(***************************************************************************)
(* One ping at a time is a batch with one operation in flight.             *)
(***************************************************************************)
PingStatus(n) ==
  CASE n \in Recorded -> "ok"
    [] n <= Finished /\ n \notin Recorded -> "failed"
    [] n = Finished + 1 /\ n = i -> "running"
    [] OTHER -> "todo"

B == INSTANCE Batch WITH
       Total <- Iters, Limit <- 1,
       status <- [n \in 0 .. Iters-1 |-> PingStatus(n + 1)],
       report <- IF step = "returned"
                 THEN {[ok |-> Len(latencies), failed |-> errors]} ELSE {}

\* The probe implements Batch: pings in order, each settled once, and the
\* probe returns, though every echo is lost and the stream never opens.
ImplementsBatch == B!Spec
=============================================================================
