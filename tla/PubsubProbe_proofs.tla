------------------------- MODULE PubsubProbe_proofs -------------------------
(***************************************************************************)
(* Proofs about PubsubProbe for every number of pings.                     *)
(***************************************************************************)
EXTENDS PubsubProbe, FiniteSetTheorems, SequenceTheorems, FunctionTheorems, TLAPS

\* The probe begins with nothing registered and nothing counted.
LEMMA ProbeInit == Init => ProbeInv
<1> SUFFICES ASSUME Init PROVE ProbeInv
  OBVIOUS
<1> USE ProbeAssumption
<1>1. latencies \in Seq(Ping) /\ Len(latencies) = 0 /\ DOMAIN latencies = {}
  BY EmptySeq DEF Init
<1>2. TypeOK
  <2>1. /\ promise \in [Ping -> {"none", "open", "resolved", "rejected"}]
        /\ timer \in [Ping -> {"off", "armed", "fired"}]
    BY DEF Init
  <2>2. /\ step = "subRes" /\ i = 0 /\ pending = {} /\ errors = 0
        /\ unhandled = {} /\ stream = "closed" /\ heard = FALSE
        /\ sent = {} /\ echoed = {} /\ i \in 0 .. Iters
    BY DEF Init
  <2> QED BY <1>1, <2>1, <2>2 DEF TypeOK
<1>3. StepOfPing /\ MapMatchesPromises /\ LatenciesMatch
  BY <1>1 DEF Init, StepOfPing, MapMatchesPromises, LatenciesMatch, Ping
<1> QED BY <1>1, <1>2, <1>3 DEF Init, ProbeInv, Finished

\* Starting the next ping, or closing after the last, keeps the invariant
\* when the code just before settled the current ping: it is out of the Map
\* or left to its timer, and was measured or counted.
LEMMA NextPingKeeps ==
  ASSUME ProbeInv, step \in {"publish", "wait"},
         NEW W \in SUBSET Ping,
         NEW P \in [Ping -> {"none", "open", "resolved", "rejected"}],
         NEW T \in [Ping -> {"off", "armed", "fired"}],
         NextPing(W, P, T),
         UNCHANGED <<unhandled, heard, network>>,
         \A n \in Ping : /\ n \in W <=> P[n] = "open"
                         /\ n \in W => T[n] = "armed"
                         /\ n > i => P[n] = "none"
                         /\ P[n] = "resolved" => n \in echoed
                         /\ n \in unhandled => P[n] = "rejected"
                         /\ promise[n] = "resolved" => P[n] = "resolved",
         \/ Counted
         \/ Measured /\ P[i] = "resolved"
  PROVE  ProbeInv'
<1> USE ProbeAssumption
<1>1. /\ i \in 1 .. Iters /\ i \in Ping /\ TypeOK /\ Finished = i - 1
      /\ LatenciesMatch /\ Len(latencies) + errors = i - 1
      /\ latencies \in Seq(Ping) /\ Len(latencies) \in Nat /\ errors \in Nat
      /\ \A j \in DOMAIN latencies : latencies[j] \in Ping
  BY ElementOfSeq, LenProperties DEF ProbeInv, StepOfPing, TypeOK, Ping, Finished
<1>2. \/ /\ i < Iters /\ i' = i + 1 /\ step' = "publish"
         /\ pending' = W \cup {i + 1}
         /\ promise' = [P EXCEPT ![i + 1] = "open"]
         /\ timer' = [T EXCEPT ![i + 1] = "armed"]
         /\ UNCHANGED stream
      \/ /\ i = Iters /\ i' = i /\ step' = "closing" /\ stream' = "closed"
         /\ pending' = W /\ promise' = P /\ timer' = T
  BY <1>1 DEF NextPing
<1>3. Finished' = i
  BY <1>1, <1>2 DEF Finished
<1>4. StepOfPing'
  BY <1>1, <1>2 DEF StepOfPing, Ping
<1>5. MapMatchesPromises'
  <2> SUFFICES ASSUME NEW n \in Ping
               PROVE  /\ n \in pending' <=> promise'[n] = "open"
                      /\ n \in pending' => timer'[n] = "armed"
                      /\ n > i' => promise'[n] = "none"
                      /\ promise'[n] = "resolved" => n \in echoed'
                      /\ n \in unhandled' => promise'[n] = "rejected"
    BY DEF MapMatchesPromises
  <2> echoed' = echoed /\ unhandled' = unhandled
    BY DEF network
  <2>1. CASE i < Iters /\ n = i + 1
    <3>1. /\ promise'[n] = "open" /\ timer'[n] = "armed" /\ n \in pending'
          /\ i' = n /\ P[n] = "none"
      BY <1>1, <1>2, <2>1 DEF Ping
    <3> QED BY <1>1, <3>1 DEF Ping
  <2>2. CASE ~ (i < Iters /\ n = i + 1)
    <3>1. /\ promise'[n] = P[n] /\ timer'[n] = T[n]
          /\ n \in pending' <=> n \in W
          /\ n > i' => n > i
      BY <1>1, <1>2, <2>2 DEF Ping
    <3> QED BY <3>1
  <2> QED BY <2>1, <2>2
<1>6. /\ latencies' \in Seq(Ping) /\ errors' \in Nat
      /\ Len(latencies') + errors' = i /\ LatenciesMatch'
  <2>1. \A n \in Ping : n <= i => promise'[n] = P[n]
    BY <1>1, <1>2 DEF Ping
  <2>2. CASE Counted
    BY <1>1, <1>3, <2>1, <2>2 DEF Counted, LatenciesMatch, Ping
  <2>3. CASE Measured /\ P[i] = "resolved"
    <3>1. /\ latencies' = Append(latencies, i) /\ errors' = errors
          /\ latencies' \in Seq(Ping) /\ Len(latencies') = Len(latencies) + 1
          /\ DOMAIN latencies = 1 .. Len(latencies)
          /\ DOMAIN latencies' = 1 .. Len(latencies) + 1
          /\ latencies'[Len(latencies) + 1] = i
          /\ \A j \in DOMAIN latencies : latencies'[j] = latencies[j]
      BY <1>1, <2>3, AppendProperties, LenProperties DEF Measured
    <3>2. \A j \in DOMAIN latencies' :
            promise'[latencies'[j]] = "resolved" /\ latencies'[j] <= i
      BY <1>1, <2>1, <2>3, <3>1 DEF LatenciesMatch, Ping
    <3>3. \A j, l \in DOMAIN latencies' : j < l => latencies'[j] < latencies'[l]
      BY <1>1, <3>1 DEF LatenciesMatch, Ping
    <3> QED BY <1>1, <1>3, <3>1, <3>2, <3>3 DEF LatenciesMatch
  <2> QED BY <2>2, <2>3
<1>7. TypeOK'
  <2>1. i' \in 0 .. Iters /\ step' \in {"publish", "closing"} /\ stream' \in {"closed", "opening", "open"}
    BY <1>1, <1>2 DEF TypeOK
  <2>2. /\ pending' \subseteq Ping
        /\ promise' \in [Ping -> {"none", "open", "resolved", "rejected"}]
        /\ timer' \in [Ping -> {"off", "armed", "fired"}]
    <3>1. CASE i < Iters
      <4>1. i + 1 \in Ping
        BY <1>1, <3>1 DEF Ping
      <4>2. /\ pending' = W \cup {i + 1}
            /\ promise' = [P EXCEPT ![i + 1] = "open"]
            /\ timer' = [T EXCEPT ![i + 1] = "armed"]
        BY <1>1, <1>2, <3>1
      <4> QED BY <4>1, <4>2
    <3>2. CASE i = Iters
      <4>1. pending' = W /\ promise' = P /\ timer' = T
        BY <1>1, <1>2, <3>2
      <4> QED BY <4>1
    <3> QED BY <1>1, <3>1, <3>2
  <2>3. /\ heard' \in BOOLEAN /\ unhandled' \subseteq Ping
        /\ sent' \subseteq Ping /\ echoed' \subseteq sent'
    BY <1>1 DEF TypeOK, network
  <2> QED BY <1>6, <2>1, <2>2, <2>3 DEF TypeOK
<1> QED BY <1>3, <1>4, <1>5, <1>6, <1>7 DEF ProbeInv

\* Each step of the probe, its timers, its consumer and the network keeps
\* the invariant.
LEMMA ProbeStep == ProbeInv /\ [Next]_vars => ProbeInv'
<1> SUFFICES ASSUME ProbeInv, [Next]_vars PROVE ProbeInv'
  OBVIOUS
<1> USE ProbeAssumption
<1>t. /\ TypeOK /\ StepOfPing /\ MapMatchesPromises /\ LatenciesMatch
      /\ Len(latencies) + errors = Finished
      /\ \A j \in DOMAIN latencies : latencies[j] \in Ping
      /\ step \in {"publish", "wait"} => i \in Ping
  BY ElementOfSeq DEF ProbeInv, TypeOK, StepOfPing
<1>r. ASSUME UNCHANGED result, Finished' = Finished,
             \A n \in Ping : promise[n] = "resolved" => promise'[n] = "resolved"
      PROVE  /\ LatenciesMatch' /\ Len(latencies') + errors' = Finished'
             /\ latencies' \in Seq(Ping) /\ errors' \in Nat
  BY <1>t, <1>r DEF LatenciesMatch, result, TypeOK
\* What only the network, the stream or the closing does.
<1>a. ASSUME UNCHANGED <<i, pending, promise, timer, result, unhandled>>,
             Finished' = Finished, StepOfPing', echoed \subseteq echoed',
             step' \in {"subRes", "subReq", "publish", "wait", "closing", "returned"},
             stream' \in {"closed", "opening", "open"}, heard' \in BOOLEAN,
             sent' \subseteq Ping, echoed' \subseteq sent'
      PROVE  ProbeInv'
  <2>1. MapMatchesPromises'
    BY <1>a, <1>t DEF MapMatchesPromises
  <2>2. TypeOK'
    BY <1>a, <1>r, <1>t DEF TypeOK
  <2> QED BY <1>a, <1>r, <2>1, <2>2 DEF ProbeInv
<1>1. CASE SubscribeRes
  BY <1>1, <1>a, <1>t DEF SubscribeRes, network, StepOfPing, Finished, TypeOK
<1>2. CASE SubscribeReq
  <2>1. i = 0 /\ i' = 1 /\ 1 \in Ping /\ Finished' = Finished
    BY <1>2, <1>t DEF SubscribeReq, StepOfPing, Ping, Finished
  <2>2. /\ promise' = [promise EXCEPT ![1] = "open"] /\ pending' = {1}
        /\ timer' = [timer EXCEPT ![1] = "armed"]
        /\ \A n \in Ping : promise[n] = "none"
    BY <1>2, <1>t, <2>1 DEF SubscribeReq, MapMatchesPromises, Ping
  <2>3. MapMatchesPromises'
    BY <1>2, <1>t, <2>1, <2>2 DEF SubscribeReq, MapMatchesPromises, TypeOK, Ping, network
  <2>4. StepOfPing'
    BY <1>2, <2>1 DEF SubscribeReq, StepOfPing
  <2>5. /\ LatenciesMatch' /\ Len(latencies') + errors' = Finished'
        /\ latencies' \in Seq(Ping) /\ errors' \in Nat
    BY <1>2, <1>r, <2>1, <2>2 DEF SubscribeReq
  <2>6. /\ promise' \in [Ping -> {"none", "open", "resolved", "rejected"}]
        /\ timer' \in [Ping -> {"off", "armed", "fired"}]
        /\ pending' \subseteq Ping
    BY <1>t, <2>1, <2>2 DEF TypeOK
  <2>7. TypeOK'
    BY <1>2, <1>t, <2>1, <2>5, <2>6 DEF SubscribeReq, TypeOK, network, Ping
  <2> QED BY <2>3, <2>4, <2>5, <2>7 DEF ProbeInv
<1>3. CASE NodeTakes
  <2>1. UNCHANGED <<step, i, pending, promise, timer, result, unhandled, stream,
                    heard, echoed>> /\ i \in Ping /\ sent' = sent \cup {i}
    BY <1>3, <1>t DEF NodeTakes
  <2> QED BY <2>1, <1>a, <1>t DEF StepOfPing, Finished, TypeOK
<1>4. CASE PublishOk
  <2>1. i \in Ping /\ step \in {"publish", "wait"}
    BY <1>4, <1>t DEF PublishOk
  <2>2. CASE AwaitEcho
    BY <1>4, <1>a, <1>t, <2>1, <2>2 DEF PublishOk, AwaitEcho, network,
       StepOfPing, Finished, TypeOK
  <2>3. CASE /\ promise[i] \in {"resolved", "rejected"}
             /\ Counted \/ (Measured /\ promise[i] = "resolved")
             /\ NextPing(pending, promise, timer)
    <3>1. /\ pending \in SUBSET Ping
          /\ promise \in [Ping -> {"none", "open", "resolved", "rejected"}]
          /\ timer \in [Ping -> {"off", "armed", "fired"}]
          /\ UNCHANGED <<unhandled, heard, network>>
      BY <1>4, <1>t DEF PublishOk, TypeOK
    <3>2. \A n \in Ping :
                           /\ n \in pending <=> promise[n] = "open"
                           /\ n \in pending => timer[n] = "armed"
                           /\ n > i => promise[n] = "none"
                           /\ promise[n] = "resolved" => n \in echoed
                           /\ n \in unhandled => promise[n] = "rejected"
      BY <1>t DEF MapMatchesPromises
    <3> QED BY <2>1, <2>3, <3>1, <3>2, NextPingKeeps
  <2> QED BY <1>4, <2>2, <2>3 DEF PublishOk
<1>5. CASE PublishFails
  BY <1>5, <1>t, NextPingKeeps DEF PublishFails, TypeOK, MapMatchesPromises
\* A timer or an echo settles one ping of the Map.
<1>b. ASSUME NEW n \in Ping, NEW how \in {"resolved", "rejected"},
             promise[n] = "open", how = "rejected" \/ n \in echoed
      PROVE  /\ Settled(n, how) \in [Ping -> {"none", "open", "resolved", "rejected"}]
             /\ Settled(n, how)[n] = how
             /\ \A m \in Ping : m # n => Settled(n, how)[m] = promise[m]
             /\ \A m \in Ping :
                  /\ m \in pending \ {n} <=> Settled(n, how)[m] = "open"
                  /\ m \in pending \ {n} => timer[m] = "armed" /\ m # n
                  /\ m > i => Settled(n, how)[m] = "none"
                  /\ Settled(n, how)[m] = "resolved" => m \in echoed
                  /\ m \in unhandled => Settled(n, how)[m] = "rejected"
                  /\ promise[m] = "resolved" => Settled(n, how)[m] = "resolved"
  BY <1>b, <1>t DEF Settled, TypeOK, MapMatchesPromises
<1>6. ASSUME NEW n \in Ping, TimerIdle(n) PROVE ProbeInv'
  <2>1. /\ timer' = Fired(n) /\ n \notin pending
        /\ UNCHANGED <<step, i, pending, promise, result, unhandled, stream,
                       heard, network>>
    BY <1>6 DEF TimerIdle
  <2>2. /\ timer' \in [Ping -> {"off", "armed", "fired"}]
        /\ \A m \in Ping : m # n => timer'[m] = timer[m]
    BY <1>t, <2>1 DEF Fired, TypeOK
  <2>3. Finished' = Finished /\ StepOfPing'
    BY <1>t, <2>1 DEF Finished, StepOfPing
  <2>4. MapMatchesPromises'
    BY <1>t, <2>1, <2>2 DEF MapMatchesPromises, network
  <2> QED BY <1>r, <1>t, <2>1, <2>2, <2>3, <2>4 DEF ProbeInv, TypeOK, network
<1>7. ASSUME NEW n \in Ping, TimerUnheard(n) PROVE ProbeInv'
  <2>1. /\ timer' = Fired(n) /\ n \in pending /\ pending' = pending \ {n}
        /\ promise' = Settled(n, "rejected") /\ unhandled' = unhandled \cup {n}
        /\ ~Awaited(n) /\ promise[n] = "open"
        /\ UNCHANGED <<step, i, result, stream, heard, network>>
    BY <1>7, <1>t DEF TimerUnheard, MapMatchesPromises
  <2>2. /\ timer' \in [Ping -> {"off", "armed", "fired"}]
        /\ \A m \in Ping : m # n => timer'[m] = timer[m]
    BY <1>t, <2>1 DEF Fired, TypeOK
  <2>3. pending' \subseteq Ping /\ unhandled' \subseteq Ping
    BY <1>t, <2>1 DEF TypeOK
  <2>4. /\ promise' \in [Ping -> {"none", "open", "resolved", "rejected"}]
        /\ promise'[n] = "rejected"
        /\ \A m \in Ping : m # n => promise'[m] = promise[m]
        /\ \A m \in Ping : promise[m] = "resolved" => promise'[m] = "resolved"
    BY <1>b, <2>1, <2>3
  <2>5. Finished' = Finished /\ StepOfPing'
    BY <1>t, <2>1, <2>4 DEF Finished, StepOfPing, Awaited
  <2>6. MapMatchesPromises'
    BY <1>t, <2>1, <2>2, <2>4 DEF MapMatchesPromises, network
  <2> QED BY <1>r, <1>t, <2>1, <2>2, <2>3, <2>4, <2>5, <2>6 DEF ProbeInv, TypeOK, network
<1>8. ASSUME NEW n \in Ping, TimerRejects(n) PROVE ProbeInv'
  <2>1. /\ n = i /\ step = "wait" /\ n \in pending /\ promise[n] = "open" /\ Counted
        /\ NextPing(pending \ {n}, Settled(n, "rejected"), Fired(n))
        /\ UNCHANGED <<unhandled, heard, network>>
    BY <1>8, <1>t DEF TimerRejects, Awaited, MapMatchesPromises
  <2>2. /\ Fired(n) \in [Ping -> {"off", "armed", "fired"}]
        /\ \A m \in Ping : m # n => Fired(n)[m] = timer[m]
    BY <1>t DEF Fired, TypeOK
  <2>3. pending \ {n} \in SUBSET Ping
    BY <1>t DEF TypeOK
  <2> HIDE DEF Settled, Fired
  <2> DEFINE P == Settled(n, "rejected")  W == pending \ {n}
  <2>4. /\ P \in [Ping -> {"none", "open", "resolved", "rejected"}]
        /\ P[n] = "rejected"
        /\ \A m \in Ping : m # n => P[m] = promise[m]
        /\ \A m \in Ping :
                  /\ m \in W <=> P[m] = "open"
                  /\ m \in W => timer[m] = "armed" /\ m # n
                  /\ m > i => P[m] = "none"
                  /\ P[m] = "resolved" => m \in echoed
                  /\ m \in unhandled => P[m] = "rejected"
                  /\ promise[m] = "resolved" => P[m] = "resolved"
    BY <1>b, <2>1, <2>3
  <2> HIDE DEF P, W
  <2>5. NextPing(W, P, Fired(n)) /\ W \in SUBSET Ping
    BY <2>1, <2>3 DEF P, W
  <2> QED BY <2>1, <2>2, <2>4, <2>5, NextPingKeeps
<1>9. ASSUME NEW n \in Ping, DeliverAwaited(n) PROVE ProbeInv'
  <2>1. /\ n = i /\ step = "wait" /\ n \in pending /\ promise[n] = "open"
        /\ Measured /\ n \in echoed
        /\ NextPing(pending \ {n}, Settled(n, "resolved"), timer)
        /\ UNCHANGED <<unhandled, heard, network>>
    BY SMTT(30), <1>9, <1>t DEF DeliverAwaited, Receives, Awaited, MapMatchesPromises
  <2>2. timer \in [Ping -> {"off", "armed", "fired"}]
    BY <1>t DEF TypeOK
  <2>3. pending \ {n} \in SUBSET Ping
    BY <1>t DEF TypeOK
  <2> HIDE DEF Settled, Fired
  <2> DEFINE P == Settled(n, "resolved")  W == pending \ {n}
  <2>4. /\ P \in [Ping -> {"none", "open", "resolved", "rejected"}]
        /\ P[n] = "resolved"
        /\ \A m \in Ping : m # n => P[m] = promise[m]
        /\ \A m \in Ping :
                  /\ m \in W <=> P[m] = "open"
                  /\ m \in W => timer[m] = "armed" /\ m # n
                  /\ m > i => P[m] = "none"
                  /\ P[m] = "resolved" => m \in echoed
                  /\ m \in unhandled => P[m] = "rejected"
                  /\ promise[m] = "resolved" => P[m] = "resolved"
    <3>1. promise[n] = "open" /\ n \in echoed /\ W \in SUBSET Ping
      BY <2>1, <2>3
    <3> QED BY <1>b, <3>1
  <2> HIDE DEF P, W
  <2>5. NextPing(W, P, timer) /\ W \in SUBSET Ping
    BY <2>1, <2>3 DEF P, W
  <2> QED BY <2>1, <2>2, <2>4, <2>5, NextPingKeeps
<1>10. ASSUME NEW n \in Ping, DeliverEarly(n) PROVE ProbeInv'
  <2>1. /\ n \in pending /\ pending' = pending \ {n} /\ n \in echoed
        /\ promise' = Settled(n, "resolved") /\ ~Awaited(n) /\ promise[n] = "open"
        /\ UNCHANGED <<step, i, timer, result, unhandled, stream, heard, network>>
    BY <1>10, <1>t DEF DeliverEarly, Receives, MapMatchesPromises
  <2>2. pending' \in SUBSET Ping
    BY <1>t, <2>1 DEF TypeOK
  <2>3. /\ promise' \in [Ping -> {"none", "open", "resolved", "rejected"}]
        /\ promise'[n] = "resolved"
        /\ \A m \in Ping : m # n => promise'[m] = promise[m]
        /\ \A m \in Ping : promise[m] = "resolved" => promise'[m] = "resolved"
    BY <1>b, <2>1, <2>2
  <2>4. Finished' = Finished /\ StepOfPing'
    BY <1>t, <2>1, <2>3 DEF Finished, StepOfPing, Awaited
  <2>5. MapMatchesPromises'
    BY <1>t, <2>1, <2>3 DEF MapMatchesPromises, network
  <2> QED BY <1>r, <1>t, <2>1, <2>2, <2>3, <2>4, <2>5 DEF ProbeInv, TypeOK, network
<1>11. CASE OpenStream
  BY <1>11, <1>a, <1>t DEF OpenStream, network, StepOfPing, Finished, TypeOK
<1>12. CASE LoseStream
  BY <1>12, <1>a, <1>t DEF LoseStream, network, StepOfPing, Finished, TypeOK
<1>13. ASSUME NEW n \in Ping, Echo(n) PROVE ProbeInv'
  <2>1. /\ n \in sent /\ echoed' = echoed \cup {n}
        /\ UNCHANGED <<step, i, pending, promise, timer, result, unhandled,
                       stream, heard, sent>>
    BY <1>13 DEF Echo
  <2> QED BY <2>1, <1>a, <1>t DEF StepOfPing, Finished, TypeOK
<1>14. CASE Close
  BY <1>14, <1>a, <1>t DEF Close, network, StepOfPing, Finished, TypeOK
<1>15. CASE UNCHANGED vars
  <2>1. /\ UNCHANGED <<i, pending, promise, timer, result, unhandled>>
        /\ UNCHANGED <<step, stream, heard, sent, echoed>>
    BY <1>15 DEF vars, result
  <2>2. Finished' = Finished /\ StepOfPing'
    BY <1>t, <2>1 DEF StepOfPing, Finished
  <2> QED BY <2>1, <2>2, <1>a, <1>t DEF TypeOK
<1> QED BY <1>1, <1>2, <1>3, <1>4, <1>5, <1>6, <1>7, <1>8, <1>9, <1>10, <1>11,
           <1>12, <1>13, <1>14, <1>15 DEF Next, Publish, TimerFires, Deliver

\* The Map, the promises, the timers and the tallies agree in every state
\* (lines 414-452).
THEOREM ProbeInvHolds == Spec => []ProbeInv
<1> QED BY ProbeInit, ProbeStep, PTL DEF Spec

\* Every finished ping is one latency or one error (lines 444-452), for every
\* number of pings and every order of answers, echoes and timers.
THEOREM EveryPingCountedHolds == Spec => []EveryPingCounted
<1>1. ProbeInv => EveryPingCounted
  BY DEF ProbeInv, LatenciesMatch, EveryPingCounted
<1> QED BY <1>1, ProbeInvHolds, PTL

\* A latency was measured with the echo of its own ping (lines 420-425).
THEOREM LatencyIsOwnEchoHolds == Spec => []LatencyIsOwnEcho
<1>1. ASSUME ProbeInv PROVE LatencyIsOwnEcho
  <2>1. \A j \in DOMAIN latencies : latencies[j] \in Ping
    BY <1>1, ElementOfSeq DEF ProbeInv, TypeOK
  <2> QED BY <1>1, <2>1 DEF ProbeInv, LatenciesMatch, MapMatchesPromises,
             LatencyIsOwnEcho, Recorded
<1> QED BY <1>1, ProbeInvHolds, PTL

\* A promise rejected without a handler belongs to no measured ping
\* (lines 439-451).
THEOREM UnhandledIsCountedHolds == Spec => []UnhandledIsCounted
<1>1. ASSUME ProbeInv PROVE UnhandledIsCounted
  <2>1. \A j \in DOMAIN latencies : latencies[j] \in Ping
    BY <1>1, ElementOfSeq DEF ProbeInv, TypeOK
  <2> QED BY <1>1, <2>1 DEF ProbeInv, LatenciesMatch, MapMatchesPromises,
             UnhandledIsCounted, Recorded
<1> QED BY <1>1, ProbeInvHolds, PTL

\* A resolver in the Map always has its timer running (lines 438-443).
THEOREM PendingHasTimerHolds == Spec => []PendingHasTimer
<1>1. ProbeInv => PendingHasTimer
  BY DEF ProbeInv, TypeOK, MapMatchesPromises, PendingHasTimer
<1> QED BY <1>1, ProbeInvHolds, PTL
-----------------------------------------------------------------------------
\* Timers, late echoes and the network never touch what a probe that returned
\* has reported (lines 438-456): only the loop itself measures or counts.
THEOREM ResultFrozenHolds == Spec => ResultFrozen
<1>1. [Next]_vars => (step = "returned" => UNCHANGED result)
  BY DEF Next, SubscribeRes, SubscribeReq, NodeTakes, Publish, PublishOk, PublishFails,
         OpenStream, LoseStream, Close, TimerFires, TimerIdle, TimerUnheard, TimerRejects,
         Awaited, Deliver, DeliverAwaited, DeliverEarly, Echo, vars, result
<1> QED BY <1>1, PTL DEF Spec, ResultFrozen

-----------------------------------------------------------------------------
(***************************************************************************)
(* The probe implements the safety part of Batch.                          *)
(***************************************************************************)
InLoop == step \in {"publish", "wait"}

\* How a ping's status is read off the probe's state.
StatusRead ==
  /\ Recorded \subseteq 1 .. Finished
  /\ \A n \in Ping :
       PingStatus(n) = IF n \in Recorded THEN "ok"
                       ELSE IF n <= Finished THEN "failed"
                       ELSE IF InLoop /\ n = i THEN "running" ELSE "todo"

\* The current ping is the one after those that finished.
Position ==
  /\ Finished \in Nat /\ i \in Nat
  /\ InLoop => i = Finished + 1
  /\ ~InLoop => i = Finished

LEMMA PositionHolds == ProbeInv => Position
BY ProbeAssumption DEF ProbeInv, TypeOK, StepOfPing, Finished, InLoop, Ping, Position

LEMMA PositionNext == ProbeInv' => Position'
BY PositionHolds, PTL

LEMMA StatusReadHolds == ProbeInv => StatusRead
<1> SUFFICES ASSUME ProbeInv PROVE StatusRead
  OBVIOUS
<1>1. /\ TypeOK /\ Finished \in Nat /\ i \in Nat
      /\ InLoop => i = Finished + 1
      /\ ~InLoop => i = Finished
  BY PositionHolds DEF ProbeInv, Position
<1>2. Recorded \subseteq 1 .. Finished
  <2> SUFFICES ASSUME NEW n \in DOMAIN latencies PROVE latencies[n] \in 1 .. Finished
    BY DEF Recorded
  <2>1. latencies[n] \in Ping
    BY <1>1, ElementOfSeq DEF TypeOK
  <2> QED BY <1>1, <2>1 DEF ProbeInv, LatenciesMatch, Ping
<1>3. ASSUME NEW n \in Ping
      PROVE  PingStatus(n) = IF n \in Recorded THEN "ok"
                             ELSE IF n <= Finished THEN "failed"
                             ELSE IF InLoop /\ n = i THEN "running" ELSE "todo"
  <2>1. n = Finished + 1 /\ n = i <=> InLoop /\ n = i
    BY <1>1 DEF Ping
  <2>2. n \in Recorded => n <= Finished
    BY <1>2, <1>1
  <2>3. n = Finished + 1 => ~(n <= Finished)
    BY <1>1
  <2> HIDE DEF InLoop, Recorded, Finished
  <2> QED BY <2>1, <2>2, <2>3, Zenon DEF PingStatus
<1> QED BY <1>2, <1>3 DEF StatusRead

LEMMA StatusReadNext == ProbeInv' => StatusRead'
BY StatusReadHolds, PTL

\* Cardinality as the module Batch has it and as this module has it.
LEMMA SameCardinality == \A S : B!Cardinality(S) = Cardinality(S)
BY DEF B!Cardinality, Cardinality

LEMMA AtMostOne ==
  ASSUME NEW S, NEW x, S \subseteq {x}
  PROVE  Cardinality(S) <= 1
<1>1. IsFiniteSet({x}) /\ Cardinality({x}) = 1
  BY FS_Singleton
<1>2. S \in SUBSET {x}
  OBVIOUS
<1> QED BY <1>1, <1>2, FS_Subset

\* The pings begin in order, and no two are on their way.
OneInOrder ==
  /\ \A n, m \in Ping : n < m /\ PingStatus(m) # "todo" => PingStatus(n) # "todo"
  /\ Cardinality({m \in 0 .. Iters-1 : PingStatus(m + 1) = "running"}) <= 1

LEMMA OneInOrderHolds == ProbeInv => OneInOrder
<1> SUFFICES ASSUME ProbeInv PROVE OneInOrder
  OBVIOUS
<1>1. StatusRead /\ Position
  BY StatusReadHolds, PositionHolds
<1> HIDE DEF PingStatus, Recorded, Finished, InLoop
<1>2. ASSUME NEW n \in Ping, NEW m \in Ping, n < m, PingStatus(m) # "todo"
      PROVE  PingStatus(n) # "todo"
  <2>1. m \in Recorded \/ m <= Finished \/ (InLoop /\ m = i)
    BY <1>1, <1>2 DEF StatusRead
  <2>2. m <= Finished + 1 /\ Finished \in Nat
    BY <1>1, <2>1 DEF StatusRead, Position, Ping
  <2>3. n <= Finished
    BY <1>2, <2>2 DEF Ping
  <2> QED BY <1>1, <2>3 DEF StatusRead
<1>3. {m \in 0 .. Iters-1 : PingStatus(m + 1) = "running"} \subseteq {i - 1}
  <2> SUFFICES ASSUME NEW m \in 0 .. Iters-1, PingStatus(m + 1) = "running"
               PROVE  m = i - 1
    OBVIOUS
  <2>1. m + 1 \in Ping
    BY ProbeAssumption DEF Ping
  <2>2. m + 1 = i
    BY <1>1, <2>1 DEF StatusRead
  <2> QED BY <2>2
<1>4. Cardinality({m \in 0 .. Iters-1 : PingStatus(m + 1) = "running"}) <= 1
  BY <1>3, AtMostOne
<1> QED BY <1>2, <1>4 DEF OneInOrder

LEMMA OneInOrderNext == ProbeInv' => OneInOrder'
BY OneInOrderHolds, PTL

\* What a step makes of the statuses is a step of the batch when pings move
\* forward in order and one at most is on its way.
LEMMA AdvanceOfBatch ==
  ASSUME ProbeInv, ProbeInv', step # "returned", step' # "returned",
         \A n \in Ping : /\ n \in Recorded => n \in Recorded'
                         /\ n <= Finished => n <= Finished' /\ (n \in Recorded' => n \in Recorded)
                         /\ n > Finished /\ n <= Finished' => InLoop /\ n = i
                         /\ n > Finished' /\ InLoop /\ n = i => InLoop' /\ n = i'
                         /\ n \in Recorded' => n \in Recorded \/ (InLoop /\ n = i),
         NEW c \in Ping, PingStatus(c)' # PingStatus(c)
  PROVE  B!Advance
<1> DEFINE st == [m \in 0 .. Iters-1 |-> PingStatus(m + 1)]
<1> USE ProbeAssumption
<1>1. StatusRead /\ StatusRead'
  BY StatusReadHolds, StatusReadNext
<1>2. Position /\ Position'
  BY PositionHolds, PositionNext
<1>3. \A m \in 0 .. Iters-1 : m + 1 \in Ping
  BY DEF Ping
<1>4. st' = [m \in 0 .. Iters-1 |-> PingStatus(m + 1)']
  OBVIOUS
<1>5. \A n \in Ping : PingStatus(n)' \in B!Status
  <2> HIDE DEF st
  <2> QED BY <1>1 DEF StatusRead, B!Status
<1>6. st' \in [0 .. Iters-1 -> B!Status]
  BY <1>3, <1>5
<1>7. st' # st
  <2>1. c - 1 \in 0 .. Iters-1 /\ c - 1 + 1 = c
    BY DEF Ping
  <2>2. st'[c - 1] # st[c - 1]
    BY <2>1
  <2> QED BY <2>2
<1> HIDE DEF PingStatus, Recorded, Finished, InLoop
<1>8. \A n \in Ping : B!Forward(PingStatus(n), PingStatus(n)')
  BY <1>1, <1>2 DEF StatusRead, Position, B!Forward, Ping
<1>9. /\ \A n, m \in Ping : n < m /\ PingStatus(m)' # "todo" => PingStatus(n)' # "todo"
      /\ Cardinality({m \in 0 .. Iters-1 : PingStatus(m + 1)' = "running"}) <= 1
  BY OneInOrderNext DEF OneInOrder
<1>10. B!Cardinality(B!In("running", st')) <= 1
  <2>1. B!In("running", st') = {m \in 0 .. Iters-1 : PingStatus(m + 1)' = "running"}
    BY <1>4 DEF B!In, B!Op
  <2> QED BY <1>9, <2>1, SameCardinality
<1>11. \A m \in 0 .. Iters-1 : B!Forward(st[m], st'[m])
  BY <1>3, <1>8
<1>12. \A m, l \in 0 .. Iters-1 : m < l /\ st'[l] # "todo" => st'[m] # "todo"
  BY <1>3, <1>9
<1> QED BY <1>6, <1>7, <1>10, <1>11, <1>12, Zenon DEF B!Advance, B!Op
\* The current ping is measured or counted, and the next one begins.
LEMMA SettleRefines ==
  ASSUME ProbeInv, ProbeInv', step \in {"publish", "wait"}, Measured \/ Counted,
         NEW W, NEW P, NEW T, NextPing(W, P, T)
  PROVE  B!Advance
<1> USE ProbeAssumption
<1>1. Position /\ Position' /\ StatusRead /\ StatusRead' /\ InLoop
  BY PositionHolds, PositionNext, StatusReadHolds, StatusReadNext DEF InLoop
<1>2. /\ i \in Ping /\ Finished = i - 1 /\ Finished' = i /\ latencies \in Seq(Ping)
      /\ step' \in {"publish", "closing"}
  <2>1. i \in Ping /\ Finished = i - 1 /\ latencies \in Seq(Ping)
    BY DEF ProbeInv, TypeOK, StepOfPing, Finished
  <2>2. \/ i' = i + 1 /\ step' = "publish"
        \/ i' = i /\ step' = "closing"
    BY DEF NextPing
  <2> QED BY <2>1, <2>2 DEF Finished, Ping
<1>3. Recorded' = Recorded \/ Recorded' = Recorded \cup {i}
  <2>1. CASE Counted
    BY <2>1 DEF Counted, Recorded
  <2>2. CASE Measured
    <3>1. /\ Len(latencies) \in Nat /\ DOMAIN latencies = 1 .. Len(latencies)
          /\ DOMAIN latencies' = 1 .. Len(latencies) + 1
          /\ latencies'[Len(latencies) + 1] = i
          /\ \A j \in DOMAIN latencies : latencies'[j] = latencies[j]
      BY <1>2, <2>2, AppendProperties, LenProperties DEF Measured
    <3>2. \A j \in DOMAIN latencies' : j \in DOMAIN latencies \/ j = Len(latencies) + 1
      BY <3>1
    <3> QED BY <3>1, <3>2 DEF Recorded
  <2> QED BY <2>1, <2>2
<1> HIDE DEF Recorded, Finished, InLoop, PingStatus
<1>4. \A n \in Ping : /\ n \in Recorded => n \in Recorded'
                      /\ n <= Finished => n <= Finished' /\ (n \in Recorded' => n \in Recorded)
                      /\ n > Finished /\ n <= Finished' => InLoop /\ n = i
                      /\ n > Finished' /\ InLoop /\ n = i => InLoop' /\ n = i'
                      /\ n \in Recorded' => n \in Recorded \/ (InLoop /\ n = i)
  BY <1>1, <1>2, <1>3 DEF Ping
<1>5. PingStatus(i) = "running"
  <2>1. i \notin Recorded /\ ~(i <= Finished)
    BY <1>1, <1>2 DEF StatusRead, Ping
  <2> QED BY <1>1, <1>2, <2>1 DEF StatusRead
<1>6. ASSUME NEW c \in Ping, c = i PROVE PingStatus(c)' # PingStatus(c)
  <2>1. c <= Finished'
    BY <1>2, <1>6 DEF Ping
  <2> QED BY <1>1, <1>5, <1>6, <2>1 DEF StatusRead
<1>7. PICK c \in Ping : c = i
  BY <1>2
<1>8. PingStatus(c)' # PingStatus(c)
  BY <1>6, <1>7
<1>9. step # "returned" /\ step' # "returned"
  BY <1>2
<1> QED BY <1>4, <1>8, <1>9, AdvanceOfBatch

\* The first ping begins when both topics have been asked for.
LEMMA FirstPingRefines ==
  ASSUME ProbeInv, ProbeInv', SubscribeReq
  PROVE  B!Advance
<1> USE ProbeAssumption
<1>1. Position /\ Position' /\ StatusRead /\ StatusRead'
  BY PositionHolds, PositionNext, StatusReadHolds, StatusReadNext
<1>2. /\ step = "subReq" /\ step' = "publish" /\ i = 0 /\ i' = 1 /\ 1 \in Ping
      /\ Finished = 0 /\ Finished' = 0 /\ Recorded' = Recorded /\ ~InLoop /\ InLoop'
  BY DEF SubscribeReq, ProbeInv, StepOfPing, Finished, Recorded, InLoop, Ping, result
<1> HIDE DEF Recorded, Finished, InLoop, PingStatus
<1>3. \A n \in Ping : n > 0 /\ n \notin Recorded
  BY <1>1, <1>2 DEF StatusRead, Ping
<1>4. PingStatus(1) = "todo" /\ PingStatus(1)' = "running"
  <2>1. PingStatus(1) = "todo"
    BY <1>1, <1>2, <1>3 DEF StatusRead
  <2>2. PingStatus(1)' = "running"
    BY <1>1, <1>2, <1>3 DEF StatusRead
  <2> QED BY <2>1, <2>2
<1>5. \A n \in Ping : /\ n \in Recorded => n \in Recorded'
                      /\ n <= Finished => n <= Finished' /\ (n \in Recorded' => n \in Recorded)
                      /\ n > Finished /\ n <= Finished' => InLoop /\ n = i
                      /\ n > Finished' /\ InLoop /\ n = i => InLoop' /\ n = i'
                      /\ n \in Recorded' => n \in Recorded \/ (InLoop /\ n = i)
  BY <1>2 DEF Ping
<1> QED BY <1>2, <1>4, <1>5, AdvanceOfBatch

\* When all pings are finished the latencies are the pings measured, each once.
LEMMA RecordedCount ==
  ASSUME ProbeInv
  PROVE  IsFiniteSet(Recorded) /\ Cardinality(Recorded) = Len(latencies)
<1>1. latencies \in Seq(Ping) /\ \A j, l \in DOMAIN latencies : j < l => latencies[j] < latencies[l]
  BY DEF ProbeInv, TypeOK, LatenciesMatch
<1>2. DOMAIN latencies = 1 .. Len(latencies) /\ Len(latencies) \in Nat
  BY <1>1, LenProperties
<1>3. /\ latencies \in [1 .. Len(latencies) -> Recorded]
      /\ \A n \in Recorded : \E j \in 1 .. Len(latencies) : latencies[j] = n
  <2>1. latencies = [j \in 1 .. Len(latencies) |-> latencies[j]]
    BY <1>1, <1>2
  <2> QED BY <1>2, <2>1 DEF Recorded
<1>4. \A j, l \in 1 .. Len(latencies) : latencies[j] = latencies[l] => j = l
  <2>1. \A j \in 1 .. Len(latencies) : latencies[j] \in Int
    BY <1>1, <1>2, ElementOfSeq, ProbeAssumption DEF Ping
  <2> QED BY <1>1, <1>2, <2>1
<1>5. latencies \in Surjection(1 .. Len(latencies), Recorded) /\ latencies \in Injection(1 .. Len(latencies), Recorded)
  <2> HIDE DEF Recorded
  <2> QED BY <1>3, <1>4, Fun_IsSurj, Fun_IsInj
<1>6. IsFiniteSet(1 .. Len(latencies)) /\ Cardinality(1 .. Len(latencies)) = Len(latencies)
  <2>1. 1 \in Int /\ Len(latencies) \in Int
    BY <1>2
  <2>2. /\ IsFiniteSet(1 .. Len(latencies))
        /\ Cardinality(1 .. Len(latencies)) =
             IF 1 > Len(latencies) THEN 0 ELSE Len(latencies) - 1 + 1
    BY <2>1, FS_Interval, Zenon
  <2> QED BY <2>2, <1>2
<1> QED BY <1>5, <1>6, FS_Surjection

\* Operations are numbered from 0 and pings from 1.
LEMMA Renumbered ==
  ASSUME NEW S \in SUBSET Ping
  PROVE  /\ IsFiniteSet({m \in 0 .. Iters-1 : m + 1 \in S})
         /\ Cardinality({m \in 0 .. Iters-1 : m + 1 \in S}) = Cardinality(S)
<1> USE ProbeAssumption
<1> DEFINE T == {m \in 0 .. Iters-1 : m + 1 \in S}
           f == [m \in T |-> m + 1]
<1>1. f \in [T -> S] /\ \A m, l \in T : f[m] = f[l] => m = l
  OBVIOUS
<1>2. \A n \in S : \E m \in T : f[m] = n
  <2> SUFFICES ASSUME NEW n \in S PROVE \E m \in T : f[m] = n
    OBVIOUS
  <2>1. n - 1 \in T /\ f[n - 1] = n
    BY DEF Ping
  <2> QED BY <2>1
<1>3. IsFiniteSet(T)
  <2>1. IsFiniteSet(0 .. Iters-1)
    BY FS_Interval
  <2>2. T \in SUBSET (0 .. Iters-1)
    OBVIOUS
  <2> HIDE DEF T
  <2> QED BY <2>1, <2>2, FS_Subset
<1>4. f \in Surjection(T, S) /\ f \in Injection(T, S)
  <2> HIDE DEF T, f
  <2> QED BY <1>1, <1>2, Fun_IsSurj, Fun_IsInj
<1> HIDE DEF T, f
<1>5. Cardinality(S) = Cardinality(T)
  BY <1>3, <1>4, FS_Surjection
<1> QED BY <1>3, <1>5 DEF T

\* The probe returns with one latency or error for every ping.
LEMMA CloseRefines ==
  ASSUME ProbeInv, ProbeInv', Close
  PROVE  B!Return
<1> USE ProbeAssumption
<1> DEFINE st == [m \in 0 .. Iters-1 |-> PingStatus(m + 1)]
           ok == {m \in 0 .. Iters-1 : m + 1 \in Recorded}
           failed == {m \in 0 .. Iters-1 : m + 1 \in Ping \ Recorded}
<1>1. /\ step = "closing" /\ step' = "returned" /\ Finished = Iters
      /\ UNCHANGED <<i, latencies, errors>>
  BY DEF Close, ProbeInv, StepOfPing, Finished, result
<1>2. StatusRead /\ Recorded \subseteq Ping
  BY <1>1, StatusReadHolds DEF StatusRead, Ping
<1>3. \A m \in 0 .. Iters-1 : /\ m + 1 \in Ping
                              /\ st[m] = IF m + 1 \in Recorded THEN "ok" ELSE "failed"
  <2> HIDE DEF PingStatus, Recorded, Finished
  <2>1. \A m \in 0 .. Iters-1 : m + 1 \in Ping /\ m + 1 <= Finished
    BY <1>1 DEF Ping
  <2> QED BY <1>2, <2>1 DEF StatusRead
<1>4. B!In("ok", st) = ok /\ B!In("failed", st) = failed
  <2> HIDE DEF Recorded, PingStatus
  <2> QED BY <1>3 DEF B!In, B!Op
<1>5. Cardinality(ok) = Len(latencies) /\ IsFiniteSet(Recorded) /\ Cardinality(Recorded) = Len(latencies)
  BY <1>2, Renumbered, RecordedCount
<1>6. Cardinality(failed) = errors
  <2>1. IsFiniteSet(Ping) /\ Cardinality(Ping) = Iters
    <3>1. 1 \in Int /\ Iters \in Int
      OBVIOUS
    <3>2. IsFiniteSet(1 .. Iters) /\ Cardinality(1 .. Iters) = IF 1 > Iters THEN 0 ELSE Iters - 1 + 1
      BY <3>1, FS_Interval, Zenon
    <3> QED BY <3>2 DEF Ping
  <2>2. Cardinality(Ping \ Recorded) = Cardinality(Ping) - Cardinality(Ping \cap Recorded)
    BY <2>1, FS_Difference, Zenon
  <2>3. Ping \cap Recorded = Recorded
    BY <1>2
  <2>4. Len(latencies) + errors = Iters /\ Len(latencies) \in Nat /\ errors \in Nat
    BY <1>1, LenProperties DEF ProbeInv, TypeOK
  <2>5. Cardinality(failed) = Cardinality(Ping \ Recorded)
    BY Renumbered
  <2> HIDE DEF failed, ok, Recorded
  <2>6. Cardinality(Ping \ Recorded) = Iters - Len(latencies)
    BY <1>5, <2>1, <2>2, <2>3
  <2>7. Iters - Len(latencies) = errors
    BY <2>4
  <2> QED BY <2>5, <2>6, <2>7
<1>7. st' = st
  BY <1>1 DEF PingStatus, Recorded, Finished
<1>8. \A m \in 0 .. Iters-1 : st[m] \in {"ok", "failed"}
  BY <1>3
<1>9. /\ B!Cardinality(B!In("ok", st)) = Len(latencies)'
      /\ B!Cardinality(B!In("failed", st)) = errors'
  BY <1>1, <1>4, <1>5, <1>6, SameCardinality
<1> HIDE DEF PingStatus
<1> QED BY <1>1, <1>7, <1>8, <1>9 DEF B!Return, B!Op

\* Timers, the consumer, the stream and the network settle no ping themselves.
LEMMA StutterOfBatch ==
  ASSUME UNCHANGED <<step, i, latencies, errors>>
  PROVE  UNCHANGED B!vars
BY DEF B!vars, PingStatus, Recorded, Finished

\* Each step of the probe is one of Batch, or none.
LEMMA StepRefines ==
  ASSUME ProbeInv, ProbeInv', [Next]_vars
  PROVE  [B!Next]_B!vars
<1>1. CASE SubscribeRes
  <2>1. /\ step \notin {"publish", "wait", "returned"} /\ step' \notin {"publish", "wait", "returned"}
        /\ UNCHANGED <<i, latencies, errors>>
    BY <1>1 DEF SubscribeRes, result
  <2>2. Finished' = Finished /\ Recorded' = Recorded
    BY <2>1 DEF Finished, Recorded
  <2> QED BY <2>1, <2>2 DEF B!vars, PingStatus
<1>2. CASE SubscribeReq
  BY <1>2, FirstPingRefines DEF B!Next
<1>3. CASE Publish
  <2>1. CASE AwaitEcho
    <3>1. step = "publish" /\ step' = "wait" /\ UNCHANGED <<i, latencies, errors>>
      BY <1>3, <2>1 DEF Publish, PublishOk, PublishFails, AwaitEcho, NextPing, result
    <3>2. Finished' = Finished /\ Recorded' = Recorded
      BY <3>1 DEF Finished, Recorded
    <3> QED BY <3>1, <3>2 DEF B!vars, PingStatus
  <2>2. CASE ~AwaitEcho
    <3>1. /\ step \in {"publish", "wait"} /\ (Measured \/ Counted)
          /\ NextPing(pending, promise, timer)
      BY <1>3, <2>2 DEF Publish, PublishOk, PublishFails
    <3> QED BY <3>1, SettleRefines DEF B!Next
  <2> QED BY <2>1, <2>2
<1>4. ASSUME NEW n \in Ping, TimerRejects(n) \/ DeliverAwaited(n) PROVE [B!Next]_B!vars
  <2>1. step \in {"publish", "wait"} /\ (Measured \/ Counted)
    BY <1>4 DEF TimerRejects, DeliverAwaited, Awaited
  <2>2. \E W, P, T : NextPing(W, P, T)
    BY <1>4 DEF TimerRejects, DeliverAwaited
  <2> QED BY <2>1, <2>2, SettleRefines DEF B!Next
<1>5. CASE Close
  BY <1>5, CloseRefines DEF B!Next
<1>6. ASSUME NEW n \in Ping, TimerIdle(n) \/ TimerUnheard(n) \/ DeliverEarly(n) \/ Echo(n)
      PROVE  [B!Next]_B!vars
  <2>1. UNCHANGED <<step, i, latencies, errors>>
    BY <1>6 DEF TimerIdle, TimerUnheard, DeliverEarly, Echo, result
  <2> QED BY <2>1, StutterOfBatch
<1>7. CASE NodeTakes \/ OpenStream \/ LoseStream \/ UNCHANGED vars
  <2>1. UNCHANGED <<step, i, latencies, errors>>
    BY <1>7 DEF NodeTakes, OpenStream, LoseStream, vars, result
  <2> QED BY <2>1, StutterOfBatch
<1> QED BY <1>1, <1>2, <1>3, <1>4, <1>5, <1>6, <1>7 DEF Next, TimerFires, Deliver

LEMMA InitRefines == Init => B!Init
<1> SUFFICES ASSUME Init PROVE B!Init
  OBVIOUS
<1> USE ProbeAssumption
<1>1. StatusRead
  BY ProbeInit, StatusReadHolds
<1>2. Recorded = {} /\ Finished = 0 /\ ~InLoop /\ step # "returned"
  BY DEF Init, Recorded, Finished, InLoop
<1>3. \A m \in 0 .. Iters-1 : PingStatus(m + 1) = "todo"
  <2> HIDE DEF PingStatus, Recorded, Finished, InLoop
  <2>1. \A m \in 0 .. Iters-1 : m + 1 \in Ping /\ ~(m + 1 <= 0)
    BY DEF Ping
  <2> QED BY <1>1, <1>2, <2>1 DEF StatusRead
<1> QED BY <1>2, <1>3 DEF B!Init, B!Op

\* The probe implements the safety part of Batch for every number of pings:
\* they go out in order, one at a time, each settles once, and the one report
\* is the last thing that happens (lines 413-456).
THEOREM ImplementsBatchSafety == Spec => B!Safety
BY ProbeInit, ProbeStep, InitRefines, StepRefines, PTL DEF Spec, B!Safety
=============================================================================
