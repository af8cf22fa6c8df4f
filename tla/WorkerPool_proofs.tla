-------------------------- MODULE WorkerPool_proofs --------------------------
(***************************************************************************)
(* Proofs about WorkerPool for every number of iterations, workers and     *)
(* warm-ups: the counting invariant and what follows from it, the          *)
(* refinement of Batch, and the recorded times against the wall time.      *)
(* Behind them what the clients put into the pool: one call under its      *)
(* timer (CeRequest), and the pool of such calls (TimedProbe), which       *)
(* implements WorkerPool and is over in time.                              *)
(***************************************************************************)
EXTENDS TimedProbe, CeRequest, FiniteSums_proofs, SequenceTheorems, FunctionTheorems

\* The pool is a natural number of workers, and none is created for nothing.
LEMMA PoolSizeType == PoolSize \in Nat /\ PoolSize <= Iters
BY PoolAssumption DEF PoolSize

\* Every recorded latency belongs to an operation of the batch.
LEMMA LatencyOps ==
  ASSUME TypeOK
  PROVE  \A k \in DOMAIN latencies : latencies[k].op \in 0 .. Iters-1
<1> DEFINE Rec == [op : 0 .. Iters-1, ms : Nat]
<1> SUFFICES ASSUME NEW k \in DOMAIN latencies
             PROVE  latencies[k].op \in 0 .. Iters-1
  OBVIOUS
<1>1. latencies \in Seq(Rec)
  BY DEF TypeOK
<1>2. latencies[k] \in Rec
  <2> HIDE DEF Rec
  <2> QED BY <1>1, ElementOfSeq
<1> QED BY <1>2

LEMMA InitInvariant == Init => IInv
<1> SUFFICES ASSUME Init PROVE IInv
  OBVIOUS
<1>1. TypeOK
  BY PoolAssumption, PoolSizeType DEF Init, TypeOK, Unlaunched
<1>2. NotStarted
  BY DEF Init, NotStarted
<1>3. ClockOrder
  BY DEF Init, ClockOrder
<1> QED BY <1>1, <1>2, <1>3 DEF Init, IInv

\* A worker's next turn keeps the claims distinct and below the counter.
LEMMA ClaimNextKeeps ==
  ASSUME IInv, phase = "timed", NEW w \in Worker, Busy(w), ClaimNext(w)
  PROVE  /\ claim' \in [Worker -> Int] /\ t0' \in [Worker -> Nat]
         /\ next' = next + 1 /\ next' \in Nat
         /\ ClaimsDistinct' /\ OverrunsHeld'
         /\ UNCHANGED <<clock, wallStart>> => ClockOrder'
<1> USE PoolAssumption, PoolSizeType
<1>1. next \in Nat /\ claim \in [Worker -> Int]
  BY DEF IInv, TypeOK
<1>2. /\ claim' \in [Worker -> Int] /\ t0' \in [Worker -> Nat]
      /\ next' = next + 1 /\ next' \in Nat
  BY <1>1 DEF ClaimNext, IInv, TypeOK
<1>3. ClaimsDistinct'
  BY <1>1, <1>2 DEF ClaimNext, IInv, ClaimsDistinct
<1>4. OverrunsHeld'
  <2> SUFFICES ASSUME NEW n \in Iters .. next PROVE \E v \in Worker : claim'[v] = n
    BY <1>2, <1>1 DEF OverrunsHeld
  <2>1. CASE n = next
    BY <2>1, <1>1 DEF ClaimNext
  <2>2. CASE n # next
    <3>1. PICK v \in Worker : claim[v] = n
      BY <2>2, <1>1 DEF IInv, OverrunsHeld
    <3>2. v # w
      BY <3>1, <1>1 DEF Busy
    <3> QED BY <3>1, <3>2, <1>1 DEF ClaimNext
  <2> QED BY <2>1, <2>2
<1>5. UNCHANGED <<clock, wallStart>> => ClockOrder'
  BY DEF ClaimNext, ClockOrder, IInv, TypeOK
<1> QED BY <1>2, <1>3, <1>4, <1>5

\* A success is recorded under a number that no worker holds afterwards.
LEMMA ResolveInvariant ==
  ASSUME IInv, NEW w \in Worker, Resolve(w)
  PROVE  IInv'
<1> USE PoolAssumption, PoolSizeType
<1>1. /\ phase = "timed" /\ phase' = "timed" /\ Busy(w) /\ ClaimNext(w)
      /\ latencies' = Append(latencies, [op |-> claim[w], ms |-> clock - t0[w]])
      /\ UNCHANGED <<warm, errors, errorSample, clock, wallStart, wallMs>>
  BY DEF Resolve
<1>2. /\ claim' \in [Worker -> Int] /\ t0' \in [Worker -> Nat]
      /\ next' = next + 1 /\ next' \in Nat
      /\ ClaimsDistinct' /\ OverrunsHeld' /\ ClockOrder'
  BY <1>1, ClaimNextKeeps
<1>3. /\ TypeOK /\ ClaimsDistinct /\ LatenciesDistinct /\ SettledCounted
      /\ t0[w] <= clock /\ ClockOrder
  BY <1>1 DEF IInv, ClockOrder
<1> DEFINE r == [op |-> claim[w], ms |-> clock - t0[w]]
<1>4. r \in [op : 0 .. Iters-1, ms : Nat]
  BY <1>1, <1>3 DEF TypeOK, Busy
<1>5. latencies \in Seq([op : 0 .. Iters-1, ms : Nat])
  BY <1>3 DEF TypeOK
<1>6. TypeOK'
  BY <1>1, <1>2, <1>3, <1>4, <1>5 DEF TypeOK
<1>7. LatenciesDistinct'
  <2>1. /\ DOMAIN latencies' = 1 .. Len(latencies)+1
        /\ latencies'[Len(latencies)+1] = r
        /\ \A k \in DOMAIN latencies : latencies'[k] = latencies[k]
        /\ DOMAIN latencies = 1 .. Len(latencies) /\ Len(latencies) \in Nat
    BY <1>1, <1>4, <1>5
  <2>2. /\ next \in Nat /\ claim \in [Worker -> Int]
        /\ claim'[w] = next /\ \A v \in Worker : v # w => claim'[v] = claim[v]
    BY <1>1, <1>3 DEF TypeOK, ClaimNext
  <2>3. /\ claim[w] < next /\ \A v \in Worker : v # w => claim[v] # claim[w]
    BY <1>3, <2>2 DEF ClaimsDistinct
  <2>4. \A k \in DOMAIN latencies : latencies[k].op \in 0 .. Iters-1
    BY <1>3, LatencyOps
  <2>5. \A k \in DOMAIN latencies' :
          /\ latencies'[k].op < next'
          /\ \A v \in Worker : claim'[v] # latencies'[k].op
    <3> SUFFICES ASSUME NEW k \in DOMAIN latencies'
                 PROVE  /\ latencies'[k].op < next'
                        /\ \A v \in Worker : claim'[v] # latencies'[k].op
      OBVIOUS
    <3>1. CASE k \in DOMAIN latencies
      <4>1. /\ latencies'[k].op = latencies[k].op
            /\ latencies[k].op \in 0 .. Iters-1 /\ latencies[k].op < next
        BY <3>1, <1>3, <2>1, <2>4 DEF LatenciesDistinct
      <4>2. \A v \in Worker : claim[v] # latencies[k].op
        BY <3>1, <1>3 DEF LatenciesDistinct
      <4> QED BY <4>1, <4>2, <1>2, <2>2
    <3>2. CASE k = Len(latencies)+1
      <4>1. latencies'[k].op = claim[w]
        BY <3>2, <2>1
      <4> QED BY <4>1, <1>2, <2>2, <2>3
    <3> QED BY <3>1, <3>2, <2>1
  <2>6. \A j, k \in DOMAIN latencies' :
          j # k => latencies'[j].op # latencies'[k].op
    BY <1>3, <2>1, <2>2, <2>3 DEF LatenciesDistinct
  <2> QED BY <2>5, <2>6 DEF LatenciesDistinct
<1>8. SettledCounted'
  BY <1>1, <1>2, <1>3, <1>5 DEF SettledCounted, TypeOK
<1> QED BY <1>1, <1>2, <1>6, <1>7, <1>8 DEF IInv

\* A failure is counted and the worker goes on.
LEMMA RejectInvariant ==
  ASSUME IInv, NEW w \in Worker, NEW m \in Messages, Reject(w, m)
  PROVE  IInv'
<1> USE PoolAssumption, PoolSizeType
<1>1. /\ phase = "timed" /\ phase' = "timed" /\ Busy(w) /\ ClaimNext(w)
      /\ errors' = errors + 1
      /\ errorSample' = IF Falsy(errorSample) THEN m ELSE errorSample
      /\ UNCHANGED <<warm, latencies, clock, wallStart, wallMs>>
  BY DEF Reject
<1>2. /\ claim' \in [Worker -> Int] /\ t0' \in [Worker -> Nat]
      /\ next' = next + 1 /\ next' \in Nat
      /\ ClaimsDistinct' /\ OverrunsHeld' /\ ClockOrder'
  BY <1>1, ClaimNextKeeps
<1>3. TypeOK /\ ClaimsDistinct /\ LatenciesDistinct /\ SettledCounted
  BY <1>1 DEF IInv
<1>4. TypeOK'
  BY <1>1, <1>2, <1>3 DEF TypeOK
<1>5. LatenciesDistinct'
  <2>1. /\ next \in Nat /\ claim \in [Worker -> Int]
        /\ claim'[w] = next /\ \A v \in Worker : v # w => claim'[v] = claim[v]
    BY <1>1, <1>3 DEF TypeOK, ClaimNext
  <2>2. \A k \in DOMAIN latencies : latencies[k].op \in 0 .. Iters-1
    BY <1>3, LatencyOps
  <2> QED BY <1>1, <1>2, <1>3, <2>1, <2>2 DEF LatenciesDistinct
<1>6. SettledCounted'
  BY <1>1, <1>2, <1>3 DEF SettledCounted, TypeOK
<1> QED BY <1>1, <1>2, <1>4, <1>5, <1>6 DEF IInv

\* The workers start on the numbers 0 .. PoolSize-1.
LEMMA LaunchInvariant ==
  ASSUME IInv, Launch
  PROVE  IInv'
<1> USE PoolAssumption, PoolSizeType
<1>1. TypeOK /\ NotStarted
  BY DEF Launch, IInv
<1>2. TypeOK'
  BY <1>1 DEF Launch, TypeOK, Worker
<1>3. ClaimsDistinct' /\ OverrunsHeld' /\ ClockOrder'
  BY <1>1 DEF Launch, ClaimsDistinct, OverrunsHeld, ClockOrder, Worker, TypeOK
<1>4. LatenciesDistinct' /\ SettledCounted'
  BY <1>1 DEF Launch, NotStarted, LatenciesDistinct, SettledCounted
<1> QED BY <1>2, <1>3, <1>4 DEF Launch, IInv

\* Every step keeps the invariant.
LEMMA StepInvariant == IInv /\ [Next]_vars => IInv'
<1> SUFFICES ASSUME IInv, [Next]_vars PROVE IInv'
  OBVIOUS
<1> USE PoolAssumption, PoolSizeType
<1>1. CASE WarmUp
  BY <1>1 DEF WarmUp, IInv, TypeOK, ClockOrder, NotStarted
<1>2. CASE Launch
  BY <1>2, LaunchInvariant
<1>3. CASE Return
  <2>1. TypeOK /\ ClockOrder /\ phase = "timed" /\ phase' = "returned"
        /\ ClaimsDistinct /\ LatenciesDistinct /\ SettledCounted /\ OverrunsHeld
        /\ \A w \in Worker : Exited(w)
    BY <1>3 DEF Return, IInv
  <2>2. UNCHANGED <<warm, next, claim, t0, latencies, errors, errorSample,
                    clock, wallStart>>
        /\ wallMs' = clock - wallStart
    BY <1>3 DEF Return
  <2>3. TypeOK' /\ ClockOrder'
    BY <2>1, <2>2 DEF TypeOK, ClockOrder
  <2>4. ClaimsDistinct' /\ LatenciesDistinct' /\ SettledCounted'
        /\ OverrunsHeld' /\ \A w \in Worker : Exited(w)'
    BY <2>1, <2>2 DEF ClaimsDistinct, LatenciesDistinct, SettledCounted,
                      OverrunsHeld, Exited
  <2> QED BY <2>1, <2>3, <2>4 DEF IInv
<1>4. CASE Tick
  BY <1>4 DEF Tick, IInv, TypeOK, ClockOrder, NotStarted, ClaimsDistinct,
              LatenciesDistinct, SettledCounted, OverrunsHeld, Exited
<1>5. ASSUME NEW w \in Worker, Settle(w) PROVE IInv'
  BY <1>5, ResolveInvariant, RejectInvariant DEF Settle
<1>6. CASE UNCHANGED vars
  BY <1>6 DEF vars, IInv, TypeOK, ClockOrder, NotStarted, ClaimsDistinct,
              LatenciesDistinct, SettledCounted, OverrunsHeld, Exited
<1> QED BY <1>1, <1>2, <1>3, <1>4, <1>5, <1>6 DEF Next, Done

\* The variables keep their types and the counting invariant holds of every
\* execution of timedBatch, whatever the sizes.
THEOREM InvariantHolds == Spec => []IInv
BY InitInvariant, StepInvariant, PTL DEF Spec

\* No operation number is ever in two places: the shared counter hands every
\* number to one worker, for every interleaving of the workers.
THEOREM NoOpTwiceHolds == Spec => []NoOpTwice
<1>1. IInv => NoOpTwice
  <2> SUFFICES ASSUME IInv PROVE NoOpTwice
    OBVIOUS
  <2>1. CASE phase = "warmup"
    <3>1. NotStarted
      BY <2>1 DEF IInv
    <3>2. latencies = << >> /\ \A w \in Worker : ~Busy(w)
      BY <3>1 DEF NotStarted, Busy, Unlaunched
    <3> QED BY <3>2 DEF NoOpTwice, Succeeded, InFlight
  <2>2. CASE phase # "warmup"
    <3>1. ClaimsDistinct /\ LatenciesDistinct
      BY <2>2 DEF IInv
    <3> QED BY <3>1 DEF NoOpTwice, ClaimsDistinct, LatenciesDistinct,
                        Succeeded, InFlight
  <2> QED BY <2>1, <2>2
<1> QED BY <1>1, InvariantHolds, PTL

\* While numbers are left every worker is at work: a claimed number is below
\* the counter, so a worker that returned means the numbers ran out.
THEOREM SaturatedHolds == Spec => []Saturated
<1>1. IInv => Saturated
  BY PoolAssumption DEF IInv, TypeOK, Saturated, ClaimsDistinct, Busy
<1> QED BY <1>1, InvariantHolds, PTL

\* When all workers returned their claims are exactly Iters .. next-1, one
\* number each, so the counter has gone PoolSize past the end.
LEMMA CounterAtReturn ==
  ASSUME IInv, phase # "warmup", \A w \in Worker : Exited(w)
  PROVE  next = Iters + PoolSize
<1> USE PoolAssumption, PoolSizeType
<1>1. /\ next \in Nat /\ claim \in [Worker -> Int]
      /\ ClaimsDistinct /\ OverrunsHeld /\ SettledCounted
      /\ Len(latencies) \in Nat /\ errors \in Nat
  BY DEF IInv, TypeOK
<1> DEFINE T == Iters .. next-1
<1>2. claim \in [Worker -> T]
  BY <1>1 DEF ClaimsDistinct, Exited
<1>3. claim \in Surjection(Worker, T)
  BY <1>1, <1>2, Fun_IsSurj DEF OverrunsHeld
<1>4. claim \in Injection(Worker, T)
  BY <1>1, <1>2, Fun_IsInj DEF ClaimsDistinct
<1>5. IsFiniteSet(Worker) /\ Cardinality(Worker) = PoolSize
  BY FS_Interval DEF Worker
<1>6. Cardinality(T) = PoolSize
  BY <1>3, <1>4, <1>5, FS_Surjection
<1>7. Cardinality(T) = IF Iters > next-1 THEN 0 ELSE next - Iters
  BY <1>1, FS_Interval
<1>8. CASE PoolSize = 0
  <2>1. Iters = 0
    BY <1>8 DEF PoolSize
  <2>2. next <= Iters
    BY <1>1, <1>6, <1>7, <1>8
  <2> QED BY <1>1, <1>8, <2>1, <2>2
<1>9. CASE PoolSize # 0
  BY <1>1, <1>6, <1>7, <1>9
<1> QED BY <1>8, <1>9

\* The result accounts for every operation: successes plus errors make Iters,
\* for every number of workers and every pattern of failures.
THEOREM EveryOpCountedHolds == Spec => []EveryOpCounted
<1>1. IInv => EveryOpCounted
  <2> SUFFICES ASSUME IInv, phase = "returned"
               PROVE  Len(latencies) + errors = Iters
    BY DEF EveryOpCounted
  <2>1. next = Iters + PoolSize
    BY CounterAtReturn DEF IInv
  <2>2. SettledCounted /\ Len(latencies) \in Nat /\ errors \in Nat
    BY DEF IInv, TypeOK
  <2> QED BY <2>1, <2>2, PoolAssumption, PoolSizeType DEF SettledCounted
<1> QED BY <1>1, InvariantHolds, PTL

(***************************************************************************)
(* The refinement of Batch.  What an operation's number says of it: it is  *)
(* recorded, held by a busy worker, below the counter and neither, or not  *)
(* claimed yet.                                                            *)
(***************************************************************************)
StatusRead ==
  /\ Succeeded \subseteq 0 .. Iters-1 /\ InFlight \subseteq 0 .. Iters-1
  /\ Succeeded \cap InFlight = {}
  /\ \A i \in Succeeded \cup InFlight : i < next
  /\ \A i \in 0 .. Iters-1 :
       OpStatus(i) = IF i \in Succeeded THEN "ok"
                     ELSE IF i \in InFlight THEN "running"
                     ELSE IF i < next THEN "failed" ELSE "todo"

LEMMA StatusReadHolds == IInv => StatusRead
<1> SUFFICES ASSUME IInv PROVE StatusRead
  OBVIOUS
<1> USE PoolAssumption
<1>1. Succeeded \subseteq 0 .. Iters-1
  BY LatencyOps DEF IInv, Succeeded
<1>2. InFlight \subseteq 0 .. Iters-1
  BY DEF InFlight, Busy, IInv, TypeOK
<1>3. Succeeded \cap InFlight = {} /\ \A i \in Succeeded \cup InFlight : i < next
  <2>1. CASE phase = "warmup"
    BY <2>1 DEF IInv, NotStarted, Succeeded, InFlight, Busy, Unlaunched
  <2>2. CASE phase # "warmup"
    BY <2>2, <1>1, <1>2 DEF IInv, TypeOK, ClaimsDistinct, LatenciesDistinct,
                            Succeeded, InFlight, Busy
  <2> QED BY <2>1, <2>2
<1>4. \A i \in 0 .. Iters-1 :
        OpStatus(i) = IF i \in Succeeded THEN "ok"
                      ELSE IF i \in InFlight THEN "running"
                      ELSE IF i < next THEN "failed" ELSE "todo"
  <2> SUFFICES ASSUME NEW i \in 0 .. Iters-1
               PROVE  OpStatus(i) = IF i \in Succeeded THEN "ok"
                                    ELSE IF i \in InFlight THEN "running"
                                    ELSE IF i < next THEN "failed" ELSE "todo"
    OBVIOUS
  <2>1. i \in Failed <=> i < next /\ i \notin Succeeded /\ i \notin InFlight
    BY DEF Failed
  <2>2. ~(i \in Succeeded /\ i \in InFlight)
    BY <1>3
  <2> HIDE DEF Failed, Succeeded, InFlight
  <2> QED BY <2>1, <2>2, Zenon DEF OpStatus
<1> QED BY <1>1, <1>2, <1>3, <1>4 DEF StatusRead

LEMMA StatusReadNext == IInv' => StatusRead'
BY StatusReadHolds, PTL

\* No more operations are in flight than the caller allowed.
LEMMA InFlightBounded ==
  IInv => IsFiniteSet(InFlight) /\ Cardinality(InFlight) <= Concurrency
<1> SUFFICES ASSUME IInv
             PROVE  IsFiniteSet(InFlight) /\ Cardinality(InFlight) <= Concurrency
  OBVIOUS
<1> USE PoolAssumption, PoolSizeType
<1> DEFINE BW == {v \in Worker : Busy(v)}
           f == [v \in BW |-> claim[v]]
<1>1. IsFiniteSet(Worker) /\ Cardinality(Worker) = PoolSize
  BY FS_Interval DEF Worker
<1>2. IsFiniteSet(BW) /\ Cardinality(BW) <= PoolSize /\ Cardinality(BW) \in Nat
  BY <1>1, FS_Subset, FS_CardinalityType
<1>3. f \in [BW -> InFlight] /\ \A i \in InFlight : \E v \in BW : f[v] = i
  BY DEF InFlight
<1>4. f \in Surjection(BW, InFlight)
  BY <1>3, Fun_IsSurj
<1>5. IsFiniteSet(InFlight) /\ Cardinality(InFlight) <= Cardinality(BW)
  BY <1>2, <1>4, FS_Surjection
<1>6. Cardinality(InFlight) \in Nat
  BY <1>5, FS_CardinalityType
<1> QED BY <1>2, <1>5, <1>6 DEF PoolSize

\* Cardinality as the module Batch has it and as this module has it.
LEMMA SameCardinality == \A S : B!Cardinality(S) = Cardinality(S)
BY DEF B!Cardinality, Cardinality

LEMMA InFlightNext == IInv' => (Cardinality(InFlight) <= Concurrency)'
<1>1. IInv => Cardinality(InFlight) <= Concurrency
  BY InFlightBounded
<1> QED BY <1>1, PTL

\* A step that moves every operation forward, in order, and keeps the bound
\* is a step of the batch.
LEMMA AdvanceOfBatch ==
  ASSUME IInv, IInv', phase # "returned", phase' # "returned", next <= next',
         \A i \in Succeeded : i \in Succeeded',
         \A i \in 0 .. Iters-1 :
           /\ i < next /\ i \notin Succeeded \cup InFlight =>
                i \notin Succeeded' \cup InFlight'
           /\ i \in InFlight' => i \in InFlight \/ next <= i
           /\ i \in Succeeded' => i \in Succeeded \cup InFlight
           /\ next <= i /\ i < next' => i \in InFlight',
         NEW c \in 0 .. Iters-1, OpStatus(c)' # OpStatus(c)
  PROVE  B!Advance
<1> USE PoolAssumption
<1> DEFINE st == [i \in 0 .. Iters-1 |-> OpStatus(i)]
<1>1. StatusRead /\ StatusRead'
  BY StatusReadHolds, StatusReadNext
<1>2. next \in Nat /\ next' \in Nat
  BY DEF IInv, TypeOK
<1>3. st' = [i \in 0 .. Iters-1 |-> OpStatus(i)']
  OBVIOUS
<1>4. st' \in [0 .. Iters-1 -> B!Status]
  <2>1. \A i \in 0 .. Iters-1 : OpStatus(i)' \in B!Status
    BY <1>1 DEF StatusRead, B!Status
  <2> QED BY <2>1
<1>5. st' # st
  <2>1. st'[c] # st[c]
    OBVIOUS
  <2> QED BY <2>1
<1>6. \A i \in 0 .. Iters-1 : B!Forward(OpStatus(i), OpStatus(i)')
  <2> SUFFICES ASSUME NEW i \in 0 .. Iters-1
               PROVE  B!Forward(OpStatus(i), OpStatus(i)')
    OBVIOUS
  <2> HIDE DEF st
  <2> QED BY <1>1, <1>2 DEF StatusRead, B!Forward
<1>7. \A i, j \in 0 .. Iters-1 :
        i < j /\ OpStatus(j)' # "todo" => OpStatus(i)' # "todo"
  <2> HIDE DEF st
  <2> QED BY <1>1, <1>2 DEF StatusRead
<1>8. B!In("running", st') = InFlight'
  <2> HIDE DEF st
  <2>1. \A i \in 0 .. Iters-1 : st'[i] = "running" <=> i \in InFlight'
    BY <1>1, <1>3 DEF StatusRead
  <2>2. InFlight' \subseteq 0 .. Iters-1
    BY <1>1 DEF StatusRead
  <2> QED BY <2>1, <2>2 DEF B!In, B!Op
<1>9. B!Cardinality(B!In("running", st')) <= Concurrency
  <2>1. Cardinality(InFlight') <= Concurrency
    BY InFlightNext
  <2> QED BY <1>8, <2>1, SameCardinality
<1>10. \A i \in 0 .. Iters-1 : B!Forward(st[i], st'[i])
  BY <1>6
<1>11. \A i, j \in 0 .. Iters-1 : i < j /\ st'[j] # "todo" => st'[i] # "todo"
  BY <1>7
<1> HIDE DEF OpStatus, Succeeded, InFlight
<1> QED BY <1>4, <1>5, <1>9, <1>10, <1>11, Zenon DEF B!Advance, B!Op

\* Launching the workers begins the first operations; a batch of none has
\* nothing to begin.
LEMMA LaunchRefines ==
  ASSUME IInv, IInv', Launch
  PROVE  [B!Next]_B!vars
<1> USE PoolAssumption, PoolSizeType
<1>1. /\ phase = "warmup" /\ phase' = "timed" /\ next = 0 /\ next' = PoolSize
      /\ latencies = << >> /\ latencies' = latencies
      /\ claim' = [w \in Worker |-> w]
      /\ \A w \in Worker : claim[w] = Unlaunched
  BY DEF Launch, IInv, NotStarted
<1>2. Succeeded = {} /\ Succeeded' = {} /\ InFlight = {}
  BY <1>1 DEF Succeeded, InFlight, Busy, Unlaunched
<1>3. InFlight' = 0 .. PoolSize-1
  <2>1. \A w \in Worker : Busy(w)'
    BY <1>1 DEF Busy, Worker
  <2> QED BY <1>1, <2>1 DEF InFlight, Worker
<1>4. CASE Iters = 0
  BY <1>1, <1>4 DEF B!vars
<1>5. CASE Iters # 0
  <2>1. 0 \in 0 .. Iters-1 /\ OpStatus(0) = "todo" /\ OpStatus(0)' = "running"
    <3>1. PoolSize > 0
      BY <1>5 DEF PoolSize
    <3>2. StatusRead /\ StatusRead'
      BY StatusReadHolds, StatusReadNext
    <3> HIDE DEF OpStatus, Succeeded, InFlight
    <3> QED BY <3>1, <3>2, <1>1, <1>2, <1>3, <1>5 DEF StatusRead
  <2>2. B!Advance
    <3> HIDE DEF OpStatus, Succeeded, InFlight
    <3> QED BY <2>1, <1>1, <1>2, <1>3, AdvanceOfBatch
  <2> QED BY <2>2 DEF B!Next
<1> QED BY <1>4, <1>5

\* An operation that settles, and the one its worker goes on to.
LEMMA SettleRefines ==
  ASSUME IInv, IInv', NEW w \in Worker, Settle(w)
  PROVE  B!Advance
<1> USE PoolAssumption, PoolSizeType
<1>1. next \in Nat /\ claim \in [Worker -> Int] /\ t0 \in [Worker -> Nat]
  BY DEF IInv, TypeOK
<1>2. phase = "timed" /\ phase' = "timed" /\ Busy(w) /\ ClaimNext(w)
  BY DEF Settle, Resolve, Reject
<1>3. PICK c \in 0 .. Iters-1 : c = claim[w]
  BY <1>1, <1>2 DEF Busy
<1>4. /\ phase = "timed" /\ phase' = "timed" /\ c = claim[w]
      /\ next' = next + 1 /\ claim' = [claim EXCEPT ![w] = next]
      /\ next \in Nat /\ claim \in [Worker -> Int] /\ Busy(w)
  BY <1>1, <1>2, <1>3 DEF ClaimNext
<1>5. StatusRead /\ StatusRead'
  BY StatusReadHolds, StatusReadNext
<1>6. Succeeded' = Succeeded \cup {c} \/ Succeeded' = Succeeded
  <2>1. CASE \E m \in Messages : Reject(w, m)
    BY <2>1 DEF Reject, Succeeded
  <2>2. CASE Resolve(w)
    <3> DEFINE r == [op |-> c, ms |-> clock - t0[w]]
    <3>1. latencies' = Append(latencies, r)
      BY <2>2, <1>3 DEF Resolve
    <3>2. latencies \in Seq([op : 0 .. Iters-1, ms : Nat])
      BY DEF IInv, TypeOK
    <3>3. r \in [op : 0 .. Iters-1, ms : Nat]
      BY <1>4, <1>1 DEF IInv, TypeOK, ClockOrder
    <3>4. /\ DOMAIN latencies' = DOMAIN latencies \cup {Len(latencies)+1}
          /\ Len(latencies)+1 \notin DOMAIN latencies
          /\ latencies'[Len(latencies)+1].op = c
          /\ \A k \in DOMAIN latencies : latencies'[k] = latencies[k]
      BY <3>1, <3>2, <3>3
    <3> QED BY <3>4 DEF Succeeded
  <2> QED BY <2>1, <2>2 DEF Settle
<1>7. \A v \in Worker : v # w => claim[v] # c
  BY <1>4 DEF IInv, ClaimsDistinct
<1>8. InFlight' = (InFlight \ {c}) \cup {i \in 0 .. Iters-1 : i = next}
  <2>1. claim'[w] = next /\ \A v \in Worker : v # w => claim'[v] = claim[v]
    BY <1>4
  <2>2. ASSUME NEW i \in InFlight'
        PROVE  i \in (InFlight \ {c}) \cup {j \in 0 .. Iters-1 : j = next}
    BY <2>1, <1>4, <1>7 DEF InFlight, Busy
  <2>3. ASSUME NEW i \in (InFlight \ {c}) \cup {j \in 0 .. Iters-1 : j = next}
        PROVE  i \in InFlight'
    BY <2>1, <1>4 DEF InFlight, Busy
  <2> QED BY <2>2, <2>3
<1>9. c \in InFlight
  BY <1>4 DEF InFlight
<1> HIDE DEF OpStatus, Succeeded, InFlight
<1>10. c < next /\ c \notin InFlight' /\ c \notin Succeeded
  BY <1>4, <1>5, <1>8, <1>9 DEF StatusRead
<1>11. OpStatus(c) = "running" /\ OpStatus(c)' # "running"
  BY <1>4, <1>5, <1>9, <1>10 DEF StatusRead
<1>12. \A i \in 0 .. Iters-1 :
        /\ i < next /\ i \notin Succeeded \cup InFlight =>
             i \notin Succeeded' \cup InFlight'
        /\ i \in InFlight' => i \in InFlight \/ next <= i
        /\ i \in Succeeded' => i \in Succeeded \cup InFlight
        /\ next <= i /\ i < next' => i \in InFlight'
  BY <1>4, <1>6, <1>8, <1>9
<1>13. next <= next' /\ \A i \in Succeeded : i \in Succeeded'
  BY <1>4, <1>6
<1> QED BY <1>4, <1>11, <1>12, <1>13, AdvanceOfBatch

\* Recorded latencies are of different operations, so they count them.
LEMMA SucceededCount ==
  ASSUME IInv, phase # "warmup"
  PROVE  IsFiniteSet(Succeeded) /\ Cardinality(Succeeded) = Len(latencies)
<1> DEFINE D == 1 .. Len(latencies)
           f == [k \in D |-> latencies[k].op]
<1>1. latencies \in Seq([op : 0 .. Iters-1, ms : Nat]) /\ LatenciesDistinct
  BY DEF IInv, TypeOK
<1>2. DOMAIN latencies = D /\ Len(latencies) \in Nat
  BY <1>1
<1>3. f \in [D -> Succeeded] /\ \A i \in Succeeded : \E k \in D : f[k] = i
  BY <1>2 DEF Succeeded
<1>4. \A j, k \in D : f[j] = f[k] => j = k
  BY <1>1, <1>2 DEF LatenciesDistinct
<1>5. f \in Surjection(D, Succeeded) /\ f \in Injection(D, Succeeded)
  <2> HIDE DEF D, f
  <2> QED BY <1>3, <1>4, Fun_IsSurj, Fun_IsInj
<1>6. IsFiniteSet(D) /\ Cardinality(D) = Len(latencies)
  <2>1. 1 \in Int /\ Len(latencies) \in Int
    BY <1>2
  <2>2. /\ IsFiniteSet(1 .. Len(latencies))
        /\ Cardinality(1 .. Len(latencies)) =
             IF 1 > Len(latencies) THEN 0 ELSE Len(latencies) - 1 + 1
    BY <2>1, FS_Interval, Zenon
  <2> QED BY <2>2, <1>2
<1> QED BY <1>5, <1>6, FS_Surjection

\* The result is made when all operations have settled, and counts them.
LEMMA ReturnRefines ==
  ASSUME IInv, IInv', Return
  PROVE  B!Return
<1> USE PoolAssumption, PoolSizeType
<1> DEFINE st == [i \in 0 .. Iters-1 |-> OpStatus(i)]
           failures == (0 .. Iters-1) \ Succeeded
<1>1. /\ phase = "timed" /\ phase' = "returned"
      /\ \A w \in Worker : Exited(w)
      /\ UNCHANGED <<next, claim, latencies, errors>>
  BY DEF Return
<1>2. StatusRead
  BY StatusReadHolds
<1>3. next = Iters + PoolSize
  BY <1>1, CounterAtReturn
<1>4. InFlight = {}
  BY <1>1 DEF InFlight, Busy, Exited, IInv, TypeOK
<1>5. /\ \A i \in 0 .. Iters-1 : OpStatus(i) = IF i \in Succeeded THEN "ok" ELSE "failed"
      /\ Succeeded \subseteq 0 .. Iters-1
  <2> HIDE DEF OpStatus, Succeeded, InFlight
  <2> QED BY <1>2, <1>3, <1>4 DEF StatusRead
<1>6. B!In("ok", st) = Succeeded /\ B!In("failed", st) = failures
  <2> HIDE DEF OpStatus, Succeeded
  <2> QED BY <1>5 DEF B!In, B!Op
<1>7. /\ Cardinality(Succeeded) = Len(latencies)
      /\ Cardinality(failures) = errors
  <2>1. Cardinality(Succeeded) = Len(latencies)
    BY <1>1, SucceededCount
  <2>2. IsFiniteSet(0 .. Iters-1) /\ Cardinality(0 .. Iters-1) = Iters
    BY FS_Interval
  <2>3. (0 .. Iters-1) \cap Succeeded = Succeeded
    BY <1>5
  <2>4. Cardinality(failures) = Iters - Len(latencies)
    <3> HIDE DEF Succeeded
    <3>1. Cardinality(failures) = Cardinality(0 .. Iters-1)
                                    - Cardinality((0 .. Iters-1) \cap Succeeded)
      BY <2>2, FS_Difference, Zenon
    <3> QED BY <3>1, <2>1, <2>2, <2>3
  <2>5. Len(latencies) + errors = Iters /\ Len(latencies) \in Nat /\ errors \in Nat
    <3>1. TypeOK /\ SettledCounted
      BY <1>1 DEF IInv
    <3>2. Len(latencies) \in Nat /\ errors \in Nat
      BY <3>1 DEF TypeOK
    <3> QED BY <3>1, <3>2, <1>3 DEF SettledCounted
  <2> QED BY <2>1, <2>4, <2>5
<1>8. \A i \in 0 .. Iters-1 : st[i] \in {"ok", "failed"}
  BY <1>5
<1>9. st' = st
  BY <1>1 DEF OpStatus, Succeeded, InFlight, Failed, Busy
<1>10. /\ B!Cardinality(B!In("ok", st)) = Len(latencies)'
       /\ B!Cardinality(B!In("failed", st)) = errors'
  BY <1>1, <1>6, <1>7, SameCardinality
<1> HIDE DEF OpStatus
<1> QED BY <1>1, <1>8, <1>9, <1>10 DEF B!Return, B!Op

\* Every step of the pool is a step of the batch or leaves it unchanged.
LEMMA StepRefines ==
  ASSUME IInv, IInv', [Next]_vars
  PROVE  [B!Next]_B!vars
<1>1. CASE Launch
  BY <1>1, LaunchRefines
<1>2. ASSUME NEW w \in Worker, Settle(w) PROVE [B!Next]_B!vars
  BY <1>2, SettleRefines DEF B!Next
<1>3. CASE Return
  BY <1>3, ReturnRefines DEF B!Next
<1>4. CASE WarmUp \/ Tick \/ UNCHANGED vars
  <2>1. /\ UNCHANGED <<next, claim, latencies, errors>>
        /\ phase' = "returned" <=> phase = "returned"
    BY <1>4 DEF WarmUp, Tick, vars
  <2> QED BY <2>1 DEF B!vars, OpStatus, Succeeded, InFlight, Failed, Busy
<1> QED BY <1>1, <1>2, <1>3, <1>4 DEF Next, Done

\* Nothing has begun before the workers are launched.
LEMMA InitRefines == Init => B!Init
<1> SUFFICES ASSUME Init PROVE B!Init
  OBVIOUS
<1>1. StatusRead
  BY InitInvariant, StatusReadHolds
<1>2. Succeeded = {} /\ InFlight = {} /\ next = 0 /\ phase = "warmup"
  BY DEF Init, Succeeded, InFlight, Busy, Unlaunched
<1>3. \A i \in 0 .. Iters-1 : OpStatus(i) = "todo"
  <2> HIDE DEF OpStatus
  <2> QED BY <1>1, <1>2, PoolAssumption DEF StatusRead
<1> QED BY <1>2, <1>3 DEF B!Init, B!Op

\* timedBatch implements the safety part of Batch for every number of
\* operations and workers: they begin in order, no more than asked for are in
\* flight, each settles once, and the one report is the last step.
THEOREM ImplementsBatchSafety == Spec => B!Safety
BY InitInvariant, StepInvariant, InitRefines, StepRefines, PTL
   DEF Spec, B!Safety
(***************************************************************************)
(* The recorded times and the wall time.                                   *)
(***************************************************************************)
\* The recorded times of a sequence of latencies, and their total.
Ms(q) == [k \in DOMAIN q |-> q[k].ms]
TotalMs(q) == SumFunctionOnSet(Ms(q), DOMAIN q)

Latency == [op : 0 .. Iters-1, ms : Nat]

\* The total is a number, of finitely many numbers.
LEMMA TotalInt ==
  ASSUME NEW q \in Seq(Latency)
  PROVE  TotalMs(q) \in Int /\ IsFiniteSet(DOMAIN q) /\ \A k \in DOMAIN q : Ms(q)[k] \in Int
<1>1. \A x \in DOMAIN q : Ms(q)[x] \in Int
  <2>1. \A x \in DOMAIN q : q[x] \in Latency
    BY ElementOfSeq
  <2> QED BY <2>1 DEF Latency, Ms
<1>2. IsFiniteSet(DOMAIN q)
  <2>1. DOMAIN q = 1 .. Len(q) /\ Len(q) \in Nat
    BY LenProperties
  <2> QED BY <2>1, FS_Interval
<1>3. TotalMs(q) \in Int
  BY <1>1, <1>2, SumInt DEF TotalMs
<1> QED BY <1>1, <1>2, <1>3

\* Recording a latency adds its time to the total.
LEMMA TotalAppend ==
  ASSUME NEW q \in Seq(Latency), NEW r \in Latency
  PROVE  TotalMs(Append(q, r)) = TotalMs(q) + r.ms
<1> DEFINE p == Append(q, r)
           n == Len(q) + 1
<1>1. /\ p \in Seq(Latency) /\ DOMAIN p = DOMAIN q \cup {n} /\ n \notin DOMAIN q
      /\ p[n] = r /\ \A k \in DOMAIN q : p[k] = q[k]
  BY AppendProperties, LenProperties
<1> HIDE DEF p, n
<1>2. IsFiniteSet(DOMAIN p) /\ \A k \in DOMAIN p : Ms(p)[k] \in Int
  BY <1>1, TotalInt
<1>3. n \in DOMAIN p /\ DOMAIN p \ {n} = DOMAIN q /\ Ms(p)[n] = r.ms
  BY <1>1 DEF Ms
<1>4. SumFunctionOnSet(Ms(p), DOMAIN p) = Ms(p)[n] + SumFunctionOnSet(Ms(p), DOMAIN p \ {n})
  BY <1>2, <1>3, SumSplit
<1>5. \A k \in DOMAIN q : Ms(p)[k] = Ms(q)[k]
  BY <1>1 DEF Ms
<1>6. SumFunctionOnSet(Ms(p), DOMAIN q) = SumFunctionOnSet(Ms(q), DOMAIN q)
  BY <1>2, <1>3, <1>5, TotalInt, SumEq
<1>7. TotalMs(q) \in Int /\ r.ms \in Int
  <2>1. r.ms \in Int
    BY DEF Latency
  <2>2. TotalMs(q) \in Int
    BY TotalInt
  <2> QED BY <2>1, <2>2
<1>8. TotalMs(p) = r.ms + TotalMs(q)
  BY <1>3, <1>4, <1>6 DEF TotalMs
<1> QED BY <1>7, <1>8 DEF p

\* How long each worker has been at its present operation.
Elapsed == [w \in Worker |-> IF Busy(w) THEN clock - t0[w] ELSE 0]

\* What the workers have recorded and what they are at fits in the time since
\* the wall clock was started; after the return, in the wall time.
BusyInv ==
  /\ phase = "timed" =>
       TotalMs(latencies) + SumFunctionOnSet(Elapsed, Worker) <= PoolSize * (clock - wallStart)
  /\ phase = "returned" => TotalMs(latencies) <= PoolSize * wallMs

\* There are PoolSize workers.
LEMMA WorkersFinite == IsFiniteSet(Worker) /\ Cardinality(Worker) = PoolSize
BY PoolSizeType, FS_Interval DEF Worker

\* The types of what is added up.
LEMMA ElapsedType ==
  ASSUME IInv
  PROVE  /\ \A w \in Worker : Elapsed[w] \in Nat
         /\ SumFunctionOnSet(Elapsed, Worker) \in Int
         /\ latencies \in Seq(Latency)
         /\ PoolSize \in Nat /\ clock - wallStart \in Nat
<1>1. \A w \in Worker : Elapsed[w] \in Nat
  BY DEF IInv, TypeOK, ClockOrder, Elapsed
<1>2. SumFunctionOnSet(Elapsed, Worker) \in Int
  BY <1>1, WorkersFinite, SumInt
<1>3. latencies \in Seq(Latency) /\ clock - wallStart \in Nat
  BY DEF IInv, TypeOK, ClockOrder, Latency
<1> QED BY <1>1, <1>2, <1>3, PoolSizeType

\* A worker's next turn starts its time afresh and leaves the others alone.
LEMMA ElapsedAfterTurn ==
  ASSUME IInv, IInv', phase = "timed", NEW w \in Worker, Busy(w), ClaimNext(w), clock' = clock
  PROVE  SumFunctionOnSet(Elapsed', Worker) = SumFunctionOnSet(Elapsed, Worker) - (clock - t0[w])
<1>1. /\ claim \in [Worker -> Int] /\ t0 \in [Worker -> Nat] /\ next \in Nat /\ clock \in Nat
      /\ claim' = [claim EXCEPT ![w] = next]
      /\ next >= Iters \/ t0' = [t0 EXCEPT ![w] = clock]
      /\ t0' = t0 \/ t0' = [t0 EXCEPT ![w] = clock]
  <2>1. /\ claim \in [Worker -> Int] /\ t0 \in [Worker -> Nat] /\ next \in Nat /\ clock \in Nat
    BY DEF IInv, TypeOK
  <2>2. t0' = IF next < Iters THEN [t0 EXCEPT ![w] = clock] ELSE t0
    BY DEF ClaimNext
  <2>3. next >= Iters \/ next < Iters
    BY <2>1, PoolAssumption
  <2> QED BY <2>1, <2>2, <2>3 DEF ClaimNext
<1> DEFINE E == [v \in Worker |-> IF Busy(v)' THEN clock' - t0'[v] ELSE 0]
<1>2. Elapsed' = E
  BY DEF Elapsed
<1>3. Elapsed[w] = clock - t0[w] /\ clock - t0[w] \in Int
  BY <1>1 DEF Elapsed
<1>4. E[w] = 0
  <2>1. claim'[w] = next
    BY <1>1
  <2>2. CASE next >= Iters
    <3>1. ~Busy(w)'
      BY <2>1, <2>2, <1>1, PoolAssumption DEF Busy
    <3> QED BY <3>1
  <2>3. CASE t0' = [t0 EXCEPT ![w] = clock]
    <3>1. clock' - t0'[w] = 0
      BY <2>3, <1>1
    <3> QED BY <3>1
  <2> QED BY <2>2, <2>3, <1>1
<1>5. \A v \in Worker : v # w => E[v] = Elapsed[v]
  BY <1>1 DEF Busy, Elapsed
<1> HIDE DEF E
<1>6. \A v \in Worker : Elapsed[v] \in Int
  BY ElapsedType
<1>7. \A v \in Worker : E[v] \in Int /\ Elapsed[v] \in Int
  BY <1>4, <1>5, <1>6
<1>8. PICK e, d : e = Elapsed /\ d = E
  OBVIOUS
<1>9. SumFunctionOnSet(d, Worker) = SumFunctionOnSet(e, Worker) - e[w] + d[w]
  BY <1>5, <1>7, <1>8, WorkersFinite, SumChanged
<1>10. SumFunctionOnSet(E, Worker) = SumFunctionOnSet(Elapsed, Worker) - (clock - t0[w]) + 0
  BY <1>3, <1>4, <1>8, <1>9
<1>11. SumFunctionOnSet(Elapsed, Worker) \in Int
  BY ElapsedType
<1> QED BY <1>2, <1>3, <1>10, <1>11

\* Nothing is recorded before the workers are launched.
LEMMA BusyInit == Init => BusyInv
BY DEF Init, BusyInv

\* No latencies, no time.
LEMMA TotalEmpty == TotalMs(<< >>) = 0
<1>1. DOMAIN << >> = {}
  OBVIOUS
<1>2. TotalMs(<< >>) = SumFunctionOnSet(Ms(<< >>), {})
  BY <1>1 DEF TotalMs
<1> QED BY <1>2, SumEmpty

\* Equal times are no time apart.
LEMMA Same == \A x, y \in Int : x = y => x - y = 0
OBVIOUS

\* One more unit of time, for every worker.
LEMMA OneMore ==
  ASSUME NEW p \in Nat, NEW c \in Nat, NEW s \in Nat
  PROVE  p * (c + 1 - s) = p * (c - s) + p
OBVIOUS

\* A settled operation moves its time from the elapsed to the recorded or
\* drops it; a tick adds one unit for each worker to both sides at most.
LEMMA BusyStep == IInv /\ IInv' /\ BusyInv /\ [Next]_vars => BusyInv'
<1> SUFFICES ASSUME IInv, IInv', BusyInv, [Next]_vars PROVE BusyInv'
  OBVIOUS
<1> DEFINE total == TotalMs(latencies)
           sum == SumFunctionOnSet(Elapsed, Worker)
           wall == PoolSize * (clock - wallStart)
<1>0. total \in Int /\ sum \in Int /\ wall \in Int
      /\ latencies \in Seq(Latency) /\ PoolSize \in Nat
  <2>1. latencies \in Seq(Latency) /\ sum \in Int /\ PoolSize \in Nat
        /\ clock - wallStart \in Nat
    BY ElapsedType
  <2>2. PICK q : q = latencies
    OBVIOUS
  <2>3. TotalMs(q) \in Int
    BY <2>1, <2>2, TotalInt
  <2> QED BY <2>1, <2>2, <2>3
<1>1. CASE Launch
  <2>1. latencies' = << >> /\ phase' = "timed" /\ wallStart' = clock' /\ clock' \in Nat
        /\ t0' = [w \in Worker |-> clock']
    BY <1>1 DEF Launch, IInv, TypeOK, NotStarted
  <2>2. \A w \in Worker : Elapsed'[w] = 0
    <3>1. Elapsed' = [w \in Worker |-> IF Busy(w)' THEN clock' - t0'[w] ELSE 0]
      BY DEF Elapsed
    <3>2. \A w \in Worker : clock' - t0'[w] = 0
      <4>1. \A w \in Worker : t0'[w] = clock' /\ clock' \in Int
        BY <2>1
      <4> QED BY <4>1, Same
    <3> QED BY <3>1, <3>2
  <2>3. PICK e : e = Elapsed'
    OBVIOUS
  <2>4. SumFunctionOnSet(e, Worker) = 0
    BY <2>2, <2>3, WorkersFinite, SumZero
  <2>5. PoolSize * (clock' - wallStart') = 0
    <3>0. wallStart' = clock' /\ clock' \in Int
      BY <2>1
    <3>1. clock' - wallStart' = 0
      BY <3>0, Same
    <3>2. PoolSize * 0 = 0
      BY PoolSizeType
    <3> QED BY <3>1, <3>2
  <2> QED BY <2>1, <2>3, <2>4, <2>5, TotalEmpty DEF BusyInv
<1>2. ASSUME NEW w \in Worker, Resolve(w) PROVE BusyInv'
  <2> DEFINE r == [op |-> claim[w], ms |-> clock - t0[w]]
  <2>1. /\ phase = "timed" /\ phase' = "timed" /\ Busy(w) /\ ClaimNext(w)
        /\ latencies' = Append(latencies, r)
        /\ clock' = clock /\ wallStart' = wallStart
    BY <1>2 DEF Resolve
  <2>2. r \in Latency /\ r.ms = clock - t0[w]
    BY <2>1 DEF IInv, TypeOK, ClockOrder, Busy, Latency
  <2>3. SumFunctionOnSet(Elapsed', Worker) = sum - (clock - t0[w])
    BY <2>1, ElapsedAfterTurn
  <2>4. PICK q, z : q = latencies /\ z = r
    OBVIOUS
  <2>5. TotalMs(Append(q, z)) = TotalMs(q) + z.ms
    <3> HIDE DEF r
    <3>1. q \in Seq(Latency) /\ z \in Latency
      BY <1>0, <2>2, <2>4
    <3> QED BY <3>1, TotalAppend
  <2>6. TotalMs(latencies') = total + (clock - t0[w]) /\ clock - t0[w] \in Int
    <3> HIDE DEF r
    <3> QED BY <2>1, <2>2, <2>4, <2>5 DEF Latency
  <2>7. total + sum <= wall
    BY <2>1 DEF BusyInv
  <2> HIDE DEF total, sum, r
  <2>8. TotalMs(latencies') + SumFunctionOnSet(Elapsed', Worker) <= wall
    BY <1>0, <2>3, <2>6, <2>7
  <2> QED BY <2>1, <2>8 DEF BusyInv
<1>3. ASSUME NEW w \in Worker, NEW m \in Messages, Reject(w, m) PROVE BusyInv'
  <2>1. /\ phase = "timed" /\ phase' = "timed" /\ Busy(w) /\ ClaimNext(w)
        /\ latencies' = latencies
        /\ clock' = clock /\ wallStart' = wallStart
    BY <1>3 DEF Reject
  <2>2. clock - t0[w] \in Nat
    BY DEF IInv, TypeOK, ClockOrder
  <2>3. SumFunctionOnSet(Elapsed', Worker) = sum - (clock - t0[w])
    BY <2>1, ElapsedAfterTurn
  <2>4. total + sum <= wall
    BY <2>1 DEF BusyInv
  <2> HIDE DEF total, sum
  <2>5. total + SumFunctionOnSet(Elapsed', Worker) <= wall
    BY <1>0, <2>2, <2>3, <2>4
  <2> QED BY <2>1, <2>5 DEF BusyInv, total
<1>4. CASE Return
  <2>1. /\ phase = "timed" /\ phase' = "returned" /\ latencies' = latencies
        /\ wallMs' = clock - wallStart /\ \A w \in Worker : Exited(w)
    BY <1>4 DEF Return
  <2>2. \A w \in Worker : Elapsed[w] = 0
    BY <2>1, PoolAssumption DEF Elapsed, Busy, Exited, IInv, TypeOK
  <2>3. PICK e : e = Elapsed
    OBVIOUS
  <2>4. SumFunctionOnSet(e, Worker) = 0
    BY <2>2, <2>3, WorkersFinite, SumZero
  <2>5. total + sum <= wall
    BY <2>1 DEF BusyInv
  <2>6. sum = 0
    BY <2>3, <2>4
  <2> HIDE DEF total, sum
  <2>7. total <= PoolSize * wallMs'
    BY <1>0, <2>1, <2>5, <2>6
  <2> QED BY <2>1, <2>7 DEF BusyInv, total
<1>5. CASE Tick
  <2>1. /\ clock' = clock + 1 /\ clock \in Nat /\ wallStart \in Nat
        /\ UNCHANGED <<phase, claim, t0, latencies, wallStart, wallMs>>
        /\ phase # "returned"
    BY <1>5 DEF Tick, IInv, TypeOK
  <2>2. CASE phase = "timed"
    <3>1. \A w \in Worker : Elapsed[w] \in Int /\ Elapsed'[w] \in Int
                            /\ Elapsed'[w] <= Elapsed[w] + 1
      <4>1. \A w \in Worker : Busy(w)' <=> Busy(w)
        BY <2>1 DEF Busy
      <4>2. \A w \in Worker : t0[w] \in Nat
        BY DEF IInv, TypeOK
      <4> QED BY <2>1, <4>1, <4>2 DEF Elapsed
    <3>2. PICK e, d : e = Elapsed /\ d = Elapsed'
      OBVIOUS
    <3>3. SumFunctionOnSet(d, Worker) <= SumFunctionOnSet(e, Worker) + 1 * Cardinality(Worker)
      BY <3>1, <3>2, WorkersFinite, SumGrows
    <3>4. SumFunctionOnSet(d, Worker) <= sum + PoolSize
      BY <1>0, <3>2, <3>3, WorkersFinite
    <3>5. PoolSize * (clock' - wallStart') = wall + PoolSize
      BY <1>0, <2>1, OneMore
    <3>6. total + sum <= wall
      BY <2>2 DEF BusyInv
    <3>7. SumFunctionOnSet(d, Worker) \in Int
      BY <3>1, <3>2, WorkersFinite, SumInt
    <3> HIDE DEF total, sum, wall
    <3>8. total + SumFunctionOnSet(d, Worker) <= PoolSize * (clock' - wallStart')
      BY <1>0, <3>4, <3>5, <3>6, <3>7
    <3> QED BY <2>1, <2>2, <3>2, <3>8 DEF BusyInv, total
  <2>3. CASE phase # "timed"
    BY <2>1, <2>3 DEF BusyInv
  <2> QED BY <2>2, <2>3
<1>6. CASE WarmUp
  BY <1>6 DEF WarmUp, BusyInv
<1>7. CASE UNCHANGED vars
  <2>1. UNCHANGED <<phase, latencies, clock, wallStart, wallMs>> /\ Elapsed' = Elapsed
    BY <1>7 DEF vars, Elapsed, Busy
  <2> QED BY <2>1 DEF BusyInv
<1> QED BY <1>1, <1>2, <1>3, <1>4, <1>5, <1>6, <1>7 DEF Next, Done, Settle

\* The latencies and the wall time that timedBatch returns are of one
\* execution: a worker is at one operation at a time, each is timed from its
\* own start, and the wall clock is read before the first and after the last.
THEOREM BusyTimeFitsWallHolds == Spec => []BusyTimeFitsWall
<1>1. Spec => []BusyInv
  BY BusyInit, BusyStep, InvariantHolds, PTL DEF Spec
<1>2. IInv /\ BusyInv => BusyTimeFitsWall
  <2> SUFFICES ASSUME IInv, BusyInv, phase = "returned"
               PROVE  SumFunction([k \in DOMAIN latencies |-> latencies[k].ms])
                        <= PoolSize * wallMs
    BY DEF BusyTimeFitsWall
  <2>1. [k \in DOMAIN latencies |-> latencies[k].ms] = Ms(latencies)
    BY DEF Ms
  <2>2. DOMAIN Ms(latencies) = DOMAIN latencies
    BY DEF Ms
  <2> QED BY <2>1, <2>2 DEF BusyInv, TotalMs, SumFunction
<1> QED BY <1>1, <1>2, InvariantHolds, PTL

(***************************************************************************)
(* CeRequest: a timer that is armed as long as the call is open fires      *)
(* before the call grows older than the timeout.                           *)
(***************************************************************************)
Promised == {"json", "probe", "task"}

\* A call begins with age zero and, unless it is a raw body, under a timer.
LEMMA BeginFacts ==
  ASSUME NEW k \in Kinds
  PROVE  /\ Begin(k) \in Calls /\ Begin(k).age = 0
         /\ Begin(k).kind \in Promised => Begin(k).timer = "armed"
  BY CallAssumption DEF Kinds, Begin, Calls, Timed, Promised, Statuses

\* What settles a call leaves its kind and age, and ends it.
LEMMA SettledFacts ==
  ASSUME NEW c \in Calls, NEW how \in {"value", "empty", "error", "aborted"}
  PROVE  LET d == SettledAs(c, how)
         IN  d \in Calls /\ ~Open(d) /\ d.kind = c.kind /\ d.age = c.age /\ d.outcome = how
  BY DEF Calls, SettledAs, Cleared, Open

\* Headers: the timer of a promised call goes on.
LEMMA HeadersFacts ==
  ASSUME NEW c \in Calls, NEW s \in Statuses
  PROVE  LET d == Headers(c, s)
         IN  /\ d \in Calls /\ d.kind = c.kind /\ d.age = c.age
             /\ c.kind \in Promised => d.timer = c.timer
             /\ c.kind # "listing" => Open(d)
<1> DEFINE answered == [c EXCEPT !.status = s]
           failed == SettledAs(answered, "error")
<1>1. failed \in Calls /\ failed.kind = c.kind /\ failed.age = c.age
  <2>1. answered \in Calls /\ answered.kind = c.kind /\ answered.age = c.age
    BY DEF Calls, Statuses
  <2> HIDE DEF answered
  <2> QED BY <2>1, SettledFacts
<1>2. CASE c.kind = "listing" /\ s # "ok"
  BY <1>1, <1>2 DEF Headers, Promised
<1>3. CASE ~(c.kind = "listing" /\ s # "ok")
  BY <1>3 DEF Headers, Calls, Statuses, Cleared, Promised, Open
<1> QED BY <1>2, <1>3

\* Whatever the server does, a call keeps its kind and age, a promised call
\* that is open keeps its timer, and only a probed route comes to nothing.
LEMMA ServedFacts ==
  ASSUME NEW c \in Calls, NEW d \in Served(c)
  PROVE  /\ d \in Calls /\ d.kind = c.kind /\ d.age = c.age /\ Open(c)
         /\ c.kind \in Promised /\ Open(d) => d.timer = c.timer
         /\ c.kind \in {"json", "raw"} /\ ~Open(d) => d.outcome \in {"value", "error"}
<1>1. CASE c.phase = "headers"
  <2>1. d \in {Headers(c, s) : s \in Statuses} \cup {SettledAs(c, "error")}
    BY <1>1 DEF Served
  <2>2. CASE d = SettledAs(c, "error")
    BY <1>1, <2>2, SettledFacts DEF Open
  <2>3. CASE \E s \in Statuses : d = Headers(c, s)
    BY <1>1, <2>3, HeadersFacts DEF Open
  <2> QED BY <2>1, <2>2, <2>3
<1>2. CASE c.phase = "body"
  <2>1. PICK how \in {"value", "error"} : d = Body(c, how)
    BY <1>2 DEF Served
  <2> DEFINE end == IF how = "error" \/ c.status = "ok" THEN how ELSE Refusal(c)
  <2>2. /\ end \in {"value", "empty", "error", "aborted"} /\ d = SettledAs(c, end)
        /\ c.kind \in {"json", "raw"} => end \in {"value", "error"}
    BY <2>1 DEF Refusal, Body
  <2> HIDE DEF end
  <2> QED BY <1>2, <2>2, SettledFacts DEF Open
<1>3. CASE c.phase = "settled"
  BY <1>3 DEF Served
<1> QED BY <1>1, <1>2, <1>3 DEF Calls

\* A call that expires is over, with an error.
LEMMA ExpiredFacts ==
  ASSUME NEW c \in Calls
  PROVE  LET d == Expired(c)
         IN  /\ d \in Calls /\ ~Open(d) /\ d.kind = c.kind /\ d.age = c.age
             /\ d.outcome \in {"error", "aborted"}
  BY DEF Expired, Calls, Open

\* Time passing changes the age of an open call and nothing else.
LEMMA OlderFacts ==
  ASSUME NEW c \in Calls
  PROVE  /\ Older(c) \in Calls /\ Older(c).kind = c.kind /\ Older(c).outcome = c.outcome
         /\ Older(c).timer = c.timer /\ (Open(Older(c)) <=> Open(c))
         /\ Open(c) /\ c.age < Horizon => Older(c).age = c.age + 1
  BY CallAssumption DEF Older, Calls, Open

\* The induction: at each event of a call (CeClient's _request, submitTask)
\* the timer stays armed or the call is over.
THEOREM CallArmed == CallSpec => []ArmedWhileOpen
<1>1. CallInit(Kinds) => ArmedWhileOpen
  <2> SUFFICES ASSUME CallInit(Kinds) PROVE ArmedWhileOpen
    OBVIOUS
  <2>1. PICK k \in Kinds : call = Begin(k)
    BY DEF CallInit
  <2> QED BY <2>1, BeginFacts, CallAssumption DEF ArmedWhileOpen, Promised
<1>2. ArmedWhileOpen /\ [CallNext]_call => ArmedWhileOpen'
  <2> SUFFICES ASSUME ArmedWhileOpen, [CallNext]_call PROVE ArmedWhileOpen'
    OBVIOUS
  <2>0. call \in Calls
    BY DEF ArmedWhileOpen
  <2>1. CASE CallHears
    <3>1. call' \in Served(call)
      BY <2>1 DEF CallHears
    <3>2. /\ call' \in Calls
          /\ call'.kind \in Promised /\ Open(call') =>
               /\ call.kind \in Promised /\ Open(call)
               /\ call'.timer = call.timer /\ call'.age = call.age
      BY <2>0, <3>1, ServedFacts
    <3> QED BY <3>2 DEF ArmedWhileOpen, Promised, Open
  <2>2. CASE CallExpires
    BY <2>0, <2>2, ExpiredFacts DEF CallExpires, ArmedWhileOpen, Open
  <2>3. CASE CallWaits
    <3>1. /\ call' \in Calls /\ call'.kind = call.kind
          /\ call'.timer = call.timer /\ call'.age = call.age + 1
      BY <2>0, <2>3, OlderFacts DEF CallWaits
    <3>2. call.kind \in Promised => call.timer = "armed" /\ call.age <= ClientTimeout
      BY <2>3 DEF ArmedWhileOpen, CallWaits, Promised
    <3>3. call.kind \in Promised => call.age # ClientTimeout
      BY <2>3, <3>2 DEF CallWaits, Due
    <3>4. call.age \in Nat
      BY <2>0 DEF Calls
    <3> QED BY <3>1, <3>2, <3>3, <3>4, CallAssumption DEF ArmedWhileOpen, Promised
  <2>4. CASE UNCHANGED call
    BY <2>4 DEF ArmedWhileOpen, Open
  <2> QED BY <2>1, <2>2, <2>3, <2>4 DEF CallNext
<1> QED BY <1>1, <1>2, PTL DEF CallSpec

\* A JSON route, a probed route and a hub task settle by the client's timeout,
\* for every timeout (ce.js 55-84, 362-384).
THEOREM CallInTime == CallSpec => []InTime
<1>1. ArmedWhileOpen => InTime
  BY DEF ArmedWhileOpen, InTime, GivenUp
<1> QED BY <1>1, CallArmed, PTL

(***************************************************************************)
(* TimedProbe: the calls of the probe keep to the workers, and an armed    *)
(* timer bounds the age of each.                                           *)
(***************************************************************************)
CallsInv ==
  /\ kind \in ProbeKinds /\ calls \in [Caller -> Calls \cup {NoCall}]
  /\ \A c \in Caller : Called(c) =>
       /\ calls[c] \in Calls /\ calls[c].kind = kind
       /\ ~Open(calls[c]) => calls[c].outcome \in {"value"} \cup Messages
  /\ Called(Main) <=> (phase = "warmup" /\ warm < Warmup)
  /\ \A w \in Worker : Called(w) <=> (phase = "timed" /\ Busy(w))

\* Before a call there is none.
LEMMA NoneCalled == NoCall.phase = "none" /\ \A d \in Calls : d.phase # "none"
  BY DEF NoCall, Begin, Calls

\* The warm-up loop and the workers are different callers.
LEMMA CallerFacts == Worker \subseteq Caller /\ Main \in Caller /\ Main \notin Worker
  BY PoolSizeType DEF Caller, Main, Worker

\* The types that the steps of calls need.
LEMMA CallTypes ==
  ASSUME CallsInv
  PROVE  /\ kind \in {"json", "raw"} /\ Messages = {"error", "aborted"} /\ kind \in Kinds
         /\ \A c \in Caller : ~Called(c) => calls[c] = NoCall
<1>1. kind \in {"json", "raw"} /\ Messages = {"error", "aborted"} /\ kind \in Kinds
  BY ProbeAssumption DEF CallsInv, Kinds
<1>2. \A c \in Caller : calls[c] \in Calls \cup {NoCall}
  BY DEF CallsInv
<1> QED BY <1>1, <1>2, NoneCalled DEF Called

\* A new call is one of the probe.
LEMMA BeginIs ==
  ASSUME NEW q \in {"json", "raw"}
  PROVE  /\ Begin(q) \in Calls /\ Begin(q).kind = q /\ Open(Begin(q)) /\ Begin(q).phase # "none"
         /\ Begin(q).age = 0 /\ Begin(q).timer = "armed"
<1>1. q \in Kinds
  BY DEF Kinds
<1>2. Begin(q) \in Calls
  BY <1>1, BeginFacts
<1> QED BY <1>2 DEF Begin, Open, Timed, Kinds

\* What a step of one caller leaves: the calls of the others.
LEMMA OneCall ==
  ASSUME NEW c \in Caller, NEW e, CallsInv, calls' = [calls EXCEPT ![c] = e]
  PROVE  /\ calls'[c] = e /\ \A d \in Caller : d # c => calls'[d] = calls[d]
         /\ e \in Calls \cup {NoCall} => calls' \in [Caller -> Calls \cup {NoCall}]
  BY DEF CallsInv

LEMMA CallsInit == ProbeInit => Init /\ CallsInv
<1> SUFFICES ASSUME ProbeInit PROVE Init /\ CallsInv
  OBVIOUS
<1>1. Init /\ kind \in ProbeKinds /\ kind \in {"json", "raw"}
  BY ProbeAssumption DEF ProbeInit
<1>2. phase = "warmup" /\ warm = 0
  BY <1>1 DEF Init
<1>3. Begin(kind) \in Calls /\ Begin(kind).kind = kind /\ Open(Begin(kind)) /\ Begin(kind).phase # "none"
  BY <1>1, BeginIs
<1>4. calls \in [Caller -> Calls \cup {NoCall}]
      /\ \A c \in Caller : calls[c] = IF c = Main /\ Warmup > 0 THEN Begin(kind) ELSE NoCall
  BY <1>3 DEF ProbeInit
<1>5. \A c \in Caller : IF c = Main /\ Warmup > 0 THEN calls[c] = Begin(kind) /\ Called(c) ELSE ~Called(c)
  BY <1>3, <1>4, NoneCalled DEF Called
<1> QED BY <1>1, <1>2, <1>3, <1>4, <1>5, CallerFacts, PoolAssumption DEF CallsInv

\* The warm-up: one call after the other, and none when it is over.
LEMMA CallsWarm ==
  ASSUME IInv, CallsInv, WarmedUp
  PROVE  CallsInv'
<1>0. WarmUp /\ Then(Main, warm' < Warmup) /\ kind' = kind
  BY DEF WarmedUp
<1>1. warm' = warm + 1 /\ phase = "warmup" /\ phase' = "warmup" /\ warm \in 0 .. Warmup
  BY <1>0 DEF WarmUp, IInv, TypeOK
<1>2. PICK e : e = IF warm' < Warmup THEN Begin(kind) ELSE NoCall
  OBVIOUS
<1>3. /\ Begin(kind) \in Calls /\ Begin(kind).kind = kind /\ Open(Begin(kind)) /\ Begin(kind).phase # "none"
  BY BeginIs, CallTypes
<1>4. /\ calls'[Main] = e /\ (\A d \in Caller : d # Main => calls'[d] = calls[d])
      /\ calls' \in [Caller -> Calls \cup {NoCall}]
  BY <1>0, <1>2, <1>3, OneCall, CallerFacts DEF Then
<1>5. IF warm' < Warmup THEN e = Begin(kind) /\ e.phase # "none" ELSE e = NoCall /\ e.phase = "none"
  BY <1>2, <1>3, NoneCalled
<1>6. Called(Main)' <=> (phase' = "warmup" /\ warm' < Warmup)
  BY <1>1, <1>4, <1>5 DEF Called
<1>7. \A w \in Worker : ~Called(w) /\ ~Called(w)'
  BY <1>1, <1>4, CallerFacts DEF CallsInv, Called
<1>8. \A c \in Caller : Called(c)' => c = Main /\ calls'[c] = Begin(kind)
  BY <1>4, <1>5, <1>6, <1>7 DEF Caller
<1> QED BY <1>0, <1>1, <1>3, <1>4, <1>6, <1>7, <1>8 DEF CallsInv

\* The launch: one call for each worker, all of which are busy.
LEMMA CallsLaunch ==
  ASSUME IInv, CallsInv, Launched
  PROVE  CallsInv'
<1>0. /\ Launch /\ kind' = kind
      /\ calls' = [c \in Caller |-> IF c = Main THEN NoCall ELSE Begin(kind)]
  BY DEF Launched
<1>1. phase' = "timed" /\ claim' = [w \in Worker |-> w]
  BY <1>0 DEF Launch
<1>2. Begin(kind) \in Calls /\ Begin(kind).kind = kind /\ Open(Begin(kind)) /\ Begin(kind).phase # "none"
  BY BeginIs, CallTypes
<1>3. calls' \in [Caller -> Calls \cup {NoCall}]
  BY <1>0, <1>2
<1>4. ~Called(Main)' /\ \A w \in Worker : Called(w)' /\ calls'[w] = Begin(kind)
  BY <1>0, <1>2, NoneCalled, CallerFacts DEF Called
<1>5. \A w \in Worker : Busy(w)'
  BY <1>1, PoolSizeType, PoolAssumption DEF Busy, Worker
<1>6. \A c \in Caller : Called(c)' => calls'[c] = Begin(kind)
  BY <1>4 DEF Caller
<1> QED BY <1>0, <1>1, <1>2, <1>3, <1>4, <1>5, <1>6 DEF CallsInv

\* A worker's next call is for its next number.
LEMMA CallsResume ==
  ASSUME IInv, CallsInv, NEW w \in Worker, Resumes(w)
  PROVE  CallsInv' /\ Settle(w)
<1>0. Back(w) /\ kind' = kind /\ Then(w, next < Iters)
  BY DEF Resumes
<1>1. Settle(w)
  <2>1. Called(w) /\ ~Open(calls[w]) /\ w \in Caller
    BY <1>0, CallerFacts DEF Back
  <2>2. calls[w].outcome \in {"value"} \cup Messages
    BY <2>1 DEF CallsInv
  <2> QED BY <2>2 DEF Resumes, Settle
<1>2. phase = "timed" /\ phase' = "timed" /\ ClaimNext(w) /\ warm' = warm
  BY <1>1 DEF Settle, Resolve, Reject
<1>3. next \in Nat /\ claim \in [Worker -> Int]
  BY DEF IInv, TypeOK
<1>4. claim'[w] = next /\ \A v \in Worker : v # w => claim'[v] = claim[v]
  BY <1>2, <1>3 DEF ClaimNext
<1>5. (Busy(w)' <=> next < Iters) /\ \A v \in Worker : v # w => (Busy(v)' <=> Busy(v))
  BY <1>3, <1>4 DEF Busy
<1>6. PICK e : e = IF next < Iters THEN Begin(kind) ELSE NoCall
  OBVIOUS
<1>7. Begin(kind) \in Calls /\ Begin(kind).kind = kind /\ Open(Begin(kind)) /\ Begin(kind).phase # "none"
  BY BeginIs, CallTypes
<1>8. /\ calls'[w] = e /\ (\A d \in Caller : d # w => calls'[d] = calls[d])
      /\ calls' \in [Caller -> Calls \cup {NoCall}]
  BY <1>0, <1>6, <1>7, OneCall, CallerFacts DEF Then
<1>9. /\ next < Iters => e = Begin(kind) /\ e.phase # "none"
      /\ ~(next < Iters) => e = NoCall /\ e.phase = "none"
  BY <1>6, <1>7, NoneCalled
<1>10. /\ Called(w)' <=> next < Iters
       /\ \A d \in Caller : d # w => (Called(d)' <=> Called(d))
  BY <1>8, <1>9 DEF Called
<1>11. \A c \in Caller : Called(c)' =>
         /\ calls'[c] \in Calls /\ calls'[c].kind = kind
         /\ ~Open(calls'[c]) => calls'[c].outcome \in {"value"} \cup Messages
  <2> SUFFICES ASSUME NEW c \in Caller, Called(c)'
               PROVE  /\ calls'[c] \in Calls /\ calls'[c].kind = kind
                      /\ ~Open(calls'[c]) => calls'[c].outcome \in {"value"} \cup Messages
    OBVIOUS
  <2>1. CASE c = w
    BY <1>7, <1>8, <1>9, <1>10, <2>1
  <2>2. CASE c # w
    BY <1>8, <1>10, <2>2 DEF CallsInv
  <2> QED BY <2>1, <2>2
<1>12. Called(Main)' <=> (phase' = "warmup" /\ warm' < Warmup)
  BY <1>2, <1>10, CallerFacts DEF CallsInv
<1>13. \A v \in Worker : Called(v)' <=> (phase' = "timed" /\ Busy(v)')
  BY <1>2, <1>5, <1>10, CallerFacts DEF CallsInv
<1>14. CallsInv'
  BY <1>0, <1>8, <1>11, <1>12, <1>13 DEF CallsInv, Open
<1> QED BY <1>1, <1>14

\* The batch returns when no call is left.
LEMMA CallsReturn ==
  ASSUME IInv, CallsInv, Returns
  PROVE  CallsInv'
<1>1. /\ phase = "timed" /\ phase' = "returned" /\ UNCHANGED <<kind, calls, claim>>
      /\ \A w \in Worker : Exited(w)
  BY DEF Returns, Return
<1>2. claim \in [Worker -> Int] /\ Iters \in Nat
  BY PoolAssumption DEF IInv, TypeOK
<1>3. \A w \in Worker : ~Busy(w)
  BY <1>1, <1>2 DEF Busy, Exited
<1>4. \A c \in Caller : Called(c)' <=> Called(c)
  BY <1>1 DEF Called
<1>5. ~Called(Main)' /\ \A w \in Worker : ~Called(w)'
  BY <1>1, <1>3, <1>4, CallerFacts DEF CallsInv
<1> QED BY <1>1, <1>4, <1>5 DEF CallsInv, Open

\* A call of a caller becomes another, while the batch stands still.
LEMMA CallsEvent ==
  ASSUME CallsInv, NEW c \in Caller, Called(c), NEW e \in Calls, e.kind = kind,
         ~Open(e) => e.outcome \in {"value"} \cup Messages,
         calls' = [calls EXCEPT ![c] = e], UNCHANGED <<vars, kind>>
  PROVE  CallsInv' /\ \A d \in Caller : Called(d)' <=> Called(d)
<1>1. /\ calls'[c] = e /\ (\A d \in Caller : d # c => calls'[d] = calls[d])
      /\ calls' \in [Caller -> Calls \cup {NoCall}]
  BY OneCall
<1>2. \A d \in Caller : Called(d)' <=> Called(d)
  BY <1>1, NoneCalled DEF Called
<1>3. \A d \in Caller : Called(d)' =>
         /\ calls'[d] \in Calls /\ calls'[d].kind = kind
         /\ ~Open(calls'[d]) => calls'[d].outcome \in {"value"} \cup Messages
  <2> SUFFICES ASSUME NEW d \in Caller, Called(d)'
               PROVE  /\ calls'[d] \in Calls /\ calls'[d].kind = kind
                      /\ ~Open(calls'[d]) => calls'[d].outcome \in {"value"} \cup Messages
    OBVIOUS
  <2>1. CASE d = c
    BY <1>1, <2>1
  <2>2. CASE d # c
    BY <1>1, <1>2, <2>2 DEF CallsInv
  <2> QED BY <2>1, <2>2
<1>4. UNCHANGED <<phase, warm, claim, kind>>
  BY DEF vars
<1>5. \A w \in Worker : (Busy(w)' <=> Busy(w))
  BY <1>4 DEF Busy
<1> QED BY <1>1, <1>2, <1>3, <1>4, <1>5, CallerFacts DEF CallsInv, Open

\* What the server and the timer make of a call.
LEMMA EventIs ==
  ASSUME CallsInv, NEW c \in Caller, Hears(c) \/ Expires(c)
  PROVE  /\ Called(c) /\ Open(calls[c]) /\ UNCHANGED <<vars, kind>>
         /\ \E e \in Calls :
              /\ calls' = [calls EXCEPT ![c] = e] /\ e.kind = kind /\ e.age = calls[c].age
              /\ ~Open(e) => e.outcome \in {"value"} \cup Messages
              /\ kind = "json" /\ Open(e) => e.timer = calls[c].timer
<1>1. Called(c) /\ Open(calls[c]) /\ UNCHANGED <<vars, kind>>
  BY DEF Hears, Expires, Waiting, Due
<1>2. calls[c] \in Calls /\ calls[c].kind = kind /\ kind \in {"json", "raw"} /\ Messages = {"error", "aborted"}
  BY <1>1, CallTypes DEF CallsInv
<1>3. CASE Hears(c)
  <2>1. PICK e \in Served(calls[c]) : calls' = [calls EXCEPT ![c] = e]
    BY <1>3 DEF Hears
  <2>2. /\ e \in Calls /\ e.kind = kind /\ e.age = calls[c].age
        /\ kind = "json" /\ Open(e) => e.timer = calls[c].timer
        /\ ~Open(e) => e.outcome \in {"value", "error"}
    BY <1>2, ServedFacts DEF Promised
  <2> QED BY <1>1, <1>2, <2>1, <2>2
<1>4. CASE Expires(c)
  <2>1. PICK e : e = Expired(calls[c]) /\ calls' = [calls EXCEPT ![c] = e]
    BY <1>4 DEF Expires
  <2>2. e \in Calls /\ e.kind = kind /\ e.age = calls[c].age /\ ~Open(e) /\ e.outcome \in {"error", "aborted"}
    BY <1>2, <2>1, ExpiredFacts
  <2> QED BY <1>1, <1>2, <2>1, <2>2
<1> QED BY <1>3, <1>4

\* Time passes for all calls at once.
LEMMA WaitIs ==
  ASSUME CallsInv, Waits
  PROVE  /\ \A c \in Caller : /\ Called(c)' <=> Called(c)
                              /\ Called(c) => /\ Open(calls[c]) /\ ~Due(calls[c])
                                              /\ calls'[c] = Older(calls[c])
         /\ kind' = kind /\ (clock' = clock + 1 \/ clock' = clock)
         /\ UNCHANGED <<phase, warm, claim, t0, wallStart, next>>
         /\ phase # "returned" /\ CallsInv'
<1>1. /\ kind' = kind /\ (clock' = clock + 1 \/ clock' = clock)
      /\ UNCHANGED <<phase, warm, claim, t0, wallStart, next>>
  BY DEF Waits, Tick, vars
<1>2. calls' = [c \in Caller |-> IF Called(c) THEN Older(calls[c]) ELSE NoCall]
  BY DEF Waits
<1>3. \A c \in Caller : Called(c) =>
        /\ Open(calls[c]) /\ ~Due(calls[c]) /\ calls'[c] = Older(calls[c])
        /\ Older(calls[c]) \in Calls /\ Older(calls[c]).kind = kind
        /\ Open(Older(calls[c]))
  <2> SUFFICES ASSUME NEW c \in Caller, Called(c)
               PROVE  /\ Open(calls[c]) /\ ~Due(calls[c]) /\ calls'[c] = Older(calls[c])
                      /\ Older(calls[c]) \in Calls /\ Older(calls[c]).kind = kind
                      /\ Open(Older(calls[c]))
    OBVIOUS
  <2>1. Open(calls[c]) /\ ~Due(calls[c])
    BY DEF Waits, Settling, Back
  <2>2. calls[c] \in Calls /\ calls[c].kind = kind
    BY DEF CallsInv
  <2>3. calls'[c] = Older(calls[c])
    BY <1>2
  <2> QED BY <2>1, <2>2, <2>3, OlderFacts
<1>4. \A c \in Caller : ~Called(c) => calls'[c] = NoCall
  BY <1>2
<1>5. \A c \in Caller : Called(c)' <=> Called(c)
  BY <1>3, <1>4, NoneCalled DEF Called
<1>6. calls' \in [Caller -> Calls \cup {NoCall}]
  BY <1>2, <1>3
<1>7. \A w \in Worker : (Busy(w)' <=> Busy(w))
  BY <1>1 DEF Busy
<1>8. phase # "returned"
  <2>1. PICK c \in Caller : Called(c)
    BY DEF Waits, Waiting
  <2> QED BY <2>1 DEF CallsInv, Caller
<1>9. \A c \in Caller : Called(c)' => calls'[c] \in Calls /\ calls'[c].kind = kind' /\ Open(calls'[c])
  BY <1>1, <1>3, <1>5
<1>10. CallsInv'
  BY <1>1, <1>5, <1>6, <1>7, <1>9, CallerFacts DEF CallsInv, Open
<1> QED BY <1>1, <1>3, <1>5, <1>8, <1>10

\* Every step of the probe is one of the pool or leaves it as it is.
LEMMA CallsStep == IInv /\ CallsInv /\ [ProbeNext]_probeVars => [Next]_vars /\ CallsInv'
<1> SUFFICES ASSUME IInv, CallsInv, [ProbeNext]_probeVars PROVE [Next]_vars /\ CallsInv'
  OBVIOUS
<1>1. CASE WarmedUp
  BY <1>1, CallsWarm DEF WarmedUp, Next
<1>2. CASE Launched
  BY <1>2, CallsLaunch DEF Launched, Next
<1>3. CASE Returns
  BY <1>3, CallsReturn DEF Returns, Next
<1>4. CASE Waits
  <2>1. Tick \/ UNCHANGED vars
    BY <1>4 DEF Waits
  <2> QED BY <1>4, <2>1, WaitIs DEF Next
<1>5. ASSUME NEW w \in Worker, Resumes(w) PROVE [Next]_vars /\ CallsInv'
  BY <1>5, CallsResume DEF Next
<1>6. ASSUME NEW c \in Caller, Hears(c) \/ Expires(c) PROVE [Next]_vars /\ CallsInv'
  <2>1. PICK e \in Calls : /\ Called(c) /\ UNCHANGED <<vars, kind>>
                           /\ calls' = [calls EXCEPT ![c] = e] /\ e.kind = kind
                           /\ ~Open(e) => e.outcome \in {"value"} \cup Messages
    BY <1>6, EventIs
  <2> QED BY <2>1, CallsEvent
<1>7. CASE UNCHANGED probeVars
  <2>1. UNCHANGED vars /\ UNCHANGED <<phase, warm, claim, kind, calls>>
    BY <1>7 DEF probeVars, vars
  <2>2. CallsInv'
    BY <2>1 DEF CallsInv, Called, Busy, Open
  <2> QED BY <2>1, <2>2
<1> QED BY <1>1, <1>2, <1>3, <1>4, <1>5, <1>6, <1>7 DEF ProbeNext

\* What timedBatch assumes of its operations holds when they are client calls:
\* every step of a probe is one of the pool (the progress of ImplementsPool is
\* left to the model checker).
THEOREM ImplementsPoolSafety == ProbeSpec => Spec
<1>1. ProbeInit => Init /\ IInv /\ CallsInv
  BY CallsInit, InitInvariant
<1>2. IInv /\ CallsInv /\ [ProbeNext]_probeVars => [Next]_vars /\ IInv' /\ CallsInv'
  BY CallsStep, StepInvariant
<1> QED BY <1>1, <1>2, PTL DEF ProbeSpec, Spec

(***************************************************************************)
(* The time a probe of JSON calls takes.  A number is claimed when all but *)
(* the last PoolSize - 1 before it are settled, so operation i begins at   *)
(* most i \div PoolSize timeouts after the launch.                         *)
(***************************************************************************)
Armed ==
  \A c \in Caller : Called(c) =>
    /\ calls[c].age <= ClientTimeout
    /\ Open(calls[c]) => calls[c].timer = "armed"
WarmInTime ==
  /\ phase = "warmup" =>
       clock <= warm * ClientTimeout + (IF warm < Warmup THEN calls[Main].age ELSE 0)
  /\ phase # "warmup" => wallStart <= Warmup * ClientTimeout
InRound ==
  phase = "timed" =>
    \A w \in Worker : Busy(w) =>
      /\ clock <= t0[w] + calls[w].age
      /\ \A r \in Nat : claim[w] < (r + 1) * PoolSize => t0[w] <= wallStart + r * ClientTimeout
AllInTime == phase = "timed" => clock <= (Warmup + Rounds) * ClientTimeout
TimedInv == kind = "json" => Armed /\ WarmInTime /\ InRound /\ AllInTime

\* Multiplication and division of times and rounds, which the provers have to be told.
LEMMA Times ==
  /\ \A r, n \in Nat : r * n \in Nat /\ (r + 1) * n = r * n + n
  /\ \A q, r, n \in Nat : (q + r) * n = q * n + r * n
OBVIOUS

LEMMA DivisionIs == \A a \in Nat, b \in Nat \ {0} : a \div b \in Nat /\ a < b * (a \div b) + b
OBVIOUS

\* The rounds cover the operations.
LEMMA RoundsCover ==
  /\ Rounds \in Nat
  /\ Iters > 0 => Rounds - 1 \in Nat /\ Iters <= Rounds * PoolSize
<1>1. CASE Iters = 0
  BY <1>1 DEF Rounds
<1>2. CASE Iters > 0
  <2>1. PoolSize \in Nat \ {0} /\ Iters \in Nat
    BY <1>2, PoolAssumption DEF PoolSize
  <2>2. PICK a, b : a = Iters + PoolSize - 1 /\ b = PoolSize
    OBVIOUS
  <2>3. a \in Nat /\ b \in Nat \ {0} /\ Rounds = a \div b
    BY <1>2, <2>1, <2>2 DEF Rounds
  <2>4. a \div b \in Nat /\ a < b * (a \div b) + b
    BY <2>3, DivisionIs
  <2>5. PICK q \in Nat : q = Rounds
    BY <2>3, <2>4
  <2>6. a < b * q + b
    BY <2>3, <2>4, <2>5
  <2>7. Iters <= b * q
    <3>1. b * q \in Nat
      BY <2>3, <2>5
    <3> QED BY <2>1, <2>2, <2>6, <3>1
  <2>8. q # 0
    <3>1. b * 0 = 0
      BY <2>3
    <3> QED BY <1>2, <2>1, <2>7, <3>1
  <2>9. b * q = q * b
    BY <2>3
  <2> QED BY <2>2, <2>5, <2>7, <2>8, <2>9
<1> QED BY <1>1, <1>2, PoolAssumption

\* Some worker is as far behind the counter as the pool is large.
LEMMA OneBehind ==
  ASSUME IInv, phase = "timed", Worker # {}
  PROVE  \E v \in Worker : claim[v] <= next - PoolSize
<1> SUFFICES ASSUME \A v \in Worker : ~(claim[v] <= next - PoolSize)
             PROVE  FALSE
  OBVIOUS
<1>1. ClaimsDistinct /\ SettledCounted /\ next \in Nat /\ claim \in [Worker -> Int] /\ PoolSize \in Nat
  BY PoolSizeType DEF IInv, TypeOK
<1>2. PoolSize > 0
  BY <1>1 DEF Worker
<1> DEFINE late == next - PoolSize + 1 .. next - 1
<1>3. claim \in [Worker -> late]
  <2>1. \A v \in Worker : claim[v] \in late
    BY <1>1 DEF ClaimsDistinct
  <2> QED BY <1>1, <2>1
<1>4. IsFiniteSet(late) /\ Cardinality(late) < PoolSize
  <2>1. PICK lo, hi \in Int : lo = next - PoolSize + 1 /\ hi = next - 1
    BY <1>1
  <2>2. IsFiniteSet(lo .. hi) /\ Cardinality(lo .. hi) = IF lo > hi THEN 0 ELSE hi - lo + 1
    BY <2>1, FS_Interval
  <2> QED BY <1>1, <1>2, <2>1, <2>2
<1>5. IsFiniteSet(Worker) /\ Cardinality(Worker) = PoolSize
  BY WorkersFinite
<1> HIDE DEF late
<1>6. \E x, y \in Worker : x # y /\ claim[x] = claim[y]
  BY <1>3, <1>4, <1>5, FS_PigeonHole
<1> QED BY <1>1, <1>6 DEF ClaimsDistinct

\* The age of a call under an armed timer that is not due.
LEMMA NotOverdue ==
  ASSUME NEW c \in Calls, Open(c), c.timer = "armed", c.age <= ClientTimeout, ~Due(c)
  PROVE  c.age + 1 <= ClientTimeout /\ Older(c).age = c.age + 1 /\ Older(c).timer = "armed"
<1>1. c.age \in Nat /\ c.age < ClientTimeout /\ c.age < Horizon
  BY CallAssumption DEF Calls, Due
<1> QED BY <1>1, OlderFacts, CallAssumption

\* The types that the steps of time need.
LEMMA TimeTypes ==
  ASSUME IInv
  PROVE  /\ clock \in Nat /\ wallStart \in Nat /\ warm \in 0 .. Warmup /\ Warmup \in Nat
         /\ ClientTimeout \in Nat /\ Iters \in Nat /\ PoolSize \in Nat /\ Rounds \in Nat
         /\ next \in Nat /\ claim \in [Worker -> Int] /\ t0 \in [Worker -> Nat]
  BY PoolSizeType, PoolAssumption, CallAssumption, RoundsCover DEF IInv, TypeOK

LEMMA TimedInit ==
  ASSUME ProbeInit
  PROVE  TimedInv
<1> SUFFICES ASSUME kind = "json" PROVE Armed /\ WarmInTime /\ InRound /\ AllInTime
  BY DEF TimedInv
<1>1. Init /\ CallsInv
  BY CallsInit
<1>2. phase = "warmup" /\ warm = 0 /\ clock = 0
  BY <1>1 DEF Init
<1>3. Begin(kind).age = 0 /\ Begin(kind).timer = "armed"
  BY BeginIs
<1>4. \A c \in Caller : Called(c) => calls[c] = Begin(kind)
  <2>1. \A c \in Caller : calls[c] = IF c = Main /\ Warmup > 0 THEN Begin(kind) ELSE NoCall
    BY DEF ProbeInit
  <2> QED BY <2>1, NoneCalled DEF Called
<1>5. Armed
  BY <1>3, <1>4, CallAssumption DEF Armed
<1>6. WarmInTime
  <2>1. warm < Warmup => calls[Main].age = 0
    BY <1>1, <1>2, <1>3, <1>4, CallerFacts DEF CallsInv
  <2>2. 0 * ClientTimeout = 0
    BY CallAssumption
  <2> QED BY <1>2, <2>1, <2>2 DEF WarmInTime
<1> QED BY <1>2, <1>5, <1>6 DEF InRound, AllInTime

\* The warm-up calls follow each other, each within one timeout.
LEMMA TimedWarm ==
  ASSUME IInv, CallsInv, kind = "json", Armed, WarmInTime, WarmedUp
  PROVE  Armed' /\ WarmInTime' /\ InRound' /\ AllInTime'
<1>0. WarmUp /\ Then(Main, warm' < Warmup)
  BY DEF WarmedUp
<1>1. warm' = warm + 1 /\ phase = "warmup" /\ phase' = "warmup" /\ warm < Warmup /\ clock' = clock
  BY <1>0 DEF WarmUp
<1>2. Begin(kind).age = 0 /\ Begin(kind).timer = "armed" /\ Begin(kind) \in Calls
  BY BeginIs
<1>3. /\ calls'[Main] = IF warm' < Warmup THEN Begin(kind) ELSE NoCall
      /\ \A c \in Caller : c # Main => calls'[c] = calls[c]
  BY <1>0, OneCall, CallerFacts DEF Then
<1>4. CallsInv'
  BY CallsWarm
<1>5. \A c \in Caller : Called(c)' => c = Main /\ calls'[c] = Begin(kind)
  BY <1>1, <1>3, <1>4 DEF CallsInv, Caller
<1>6. Armed'
  BY <1>2, <1>5, CallAssumption DEF Armed
<1>7. WarmInTime'
  <2>1. Called(Main) /\ Main \in Caller /\ calls[Main] \in Calls
    BY <1>1, CallerFacts DEF CallsInv
  <2>2. calls[Main].age <= ClientTimeout /\ calls[Main].age \in Nat
    BY <2>1 DEF Armed, Calls
  <2>3. clock <= warm * ClientTimeout + calls[Main].age
    BY <1>1 DEF WarmInTime
  <2>4. (warm + 1) * ClientTimeout = warm * ClientTimeout + ClientTimeout /\ warm * ClientTimeout \in Nat
    BY TimeTypes, Times
  <2>5. clock' <= warm' * ClientTimeout
    BY <1>1, <2>2, <2>3, <2>4, TimeTypes
  <2>6. warm' < Warmup => calls'[Main].age = 0
    BY <1>2, <1>3
  <2>7. warm' * ClientTimeout \in Nat
    BY <1>1, TimeTypes, Times
  <2> QED BY <1>1, <2>5, <2>6, <2>7 DEF WarmInTime
<1> QED BY <1>1, <1>6, <1>7 DEF InRound, AllInTime

\* The first round begins when the workers are launched.
LEMMA TimedLaunch ==
  ASSUME IInv, CallsInv, kind = "json", Armed, WarmInTime, Launched
  PROVE  Armed' /\ WarmInTime' /\ InRound' /\ AllInTime'
<1>0. /\ Launch /\ calls' = [c \in Caller |-> IF c = Main THEN NoCall ELSE Begin(kind)]
  BY DEF Launched
<1>1. /\ phase = "warmup" /\ phase' = "timed" /\ warm = Warmup /\ wallStart' = clock /\ clock' = clock
      /\ t0' = [w \in Worker |-> clock]
  BY <1>0 DEF Launch
<1>2. Begin(kind).age = 0 /\ Begin(kind).timer = "armed"
  BY BeginIs
<1>3. \A c \in Caller : Called(c)' => calls'[c] = Begin(kind)
  BY <1>0, NoneCalled DEF Called
<1>4. Armed'
  BY <1>2, <1>3, CallAssumption DEF Armed
<1>5. wallStart' <= Warmup * ClientTimeout
  BY <1>1, TimeTypes, Times DEF WarmInTime
<1>6. WarmInTime'
  BY <1>1, <1>5 DEF WarmInTime
<1>7. InRound'
  <2> SUFFICES ASSUME NEW w \in Worker
               PROVE  /\ clock' <= t0'[w] + calls'[w].age
                      /\ \A r \in Nat : t0'[w] <= wallStart' + r * ClientTimeout
    BY DEF InRound
  <2>1. calls'[w] = Begin(kind) /\ t0'[w] = clock
    BY <1>0, <1>1, CallerFacts
  <2>2. \A r \in Nat : r * ClientTimeout \in Nat
    BY TimeTypes, Times
  <2>3. clock' <= t0'[w] + calls'[w].age
    BY <1>1, <1>2, <2>1, TimeTypes
  <2>4. ASSUME NEW r \in Nat
        PROVE  t0'[w] <= wallStart' + r * ClientTimeout
    <3>1. PICK n \in Nat : n = r * ClientTimeout
      BY <2>2
    <3> QED BY <1>1, <2>1, <3>1, TimeTypes
  <2> QED BY <2>3, <2>4
<1>8. AllInTime'
  <2>1. PICK m, n \in Nat : m = Warmup * ClientTimeout /\ n = Rounds * ClientTimeout
    BY TimeTypes, Times
  <2>2. (Warmup + Rounds) * ClientTimeout = m + n
    BY <2>1, TimeTypes, Times
  <2>3. clock' <= m + n
    BY <1>1, <1>5, <2>1, TimeTypes
  <2> QED BY <2>2, <2>3 DEF AllInTime
<1> QED BY <1>4, <1>6, <1>7, <1>8

\* The step the bound rests on: when a number is claimed, a worker that is one
\* round behind has just been waited for.
LEMMA ClaimedInRound ==
  ASSUME IInv, CallsInv, Armed, InRound, phase = "timed", next < Iters, Worker # {},
         NEW r \in Nat, next < (r + 1) * PoolSize
  PROVE  clock <= wallStart + r * ClientTimeout
<1>1. PICK v \in Worker : claim[v] <= next - PoolSize
  BY OneBehind
<1>2. claim[v] \in 0 .. next - 1 /\ claim[v] \in Int /\ next >= PoolSize
  <2>1. claim[v] \in 0 .. next - 1
    BY DEF IInv, ClaimsDistinct
  <2> QED BY <1>1, <2>1, TimeTypes
<1>3. Busy(v) /\ Called(v) /\ v \in Caller
  <2>1. Busy(v)
    BY <1>2, TimeTypes DEF Busy
  <2> QED BY <2>1, CallerFacts DEF CallsInv
<1>4. calls[v].age <= ClientTimeout /\ calls[v].age \in Nat
  <2>1. calls[v] \in Calls
    BY <1>3 DEF CallsInv
  <2> QED BY <1>3, <2>1 DEF Armed, Calls
<1>5. r # 0
  <2>1. (0 + 1) * PoolSize = PoolSize
    BY TimeTypes
  <2> QED BY <1>2, <2>1, TimeTypes
<1>6. PICK q \in Nat : r = q + 1
  <2>1. r - 1 \in Nat /\ r = (r - 1) + 1
    BY <1>5
  <2> QED BY <2>1
<1>7. claim[v] < (q + 1) * PoolSize
  <2>1. PICK m \in Nat : m = (q + 1) * PoolSize
    BY TimeTypes, Times
  <2>2. (r + 1) * PoolSize = m + PoolSize
    BY <1>6, <2>1, TimeTypes, Times
  <2> QED BY <1>1, <1>2, <2>1, <2>2, TimeTypes
<1>8. t0[v] <= wallStart + q * ClientTimeout /\ clock <= t0[v] + calls[v].age
  BY <1>3, <1>7 DEF InRound
<1>9. PICK m \in Nat : m = q * ClientTimeout
  BY TimeTypes, Times
<1>10. r * ClientTimeout = m + ClientTimeout
  BY <1>6, <1>9, TimeTypes, Times
<1>11. clock <= wallStart + (m + ClientTimeout)
  <2>1. t0[v] \in Nat
    BY TimeTypes
  <2> QED BY <1>4, <1>8, <1>9, <2>1, TimeTypes
<1> QED BY <1>10, <1>11

\* A worker that takes an operation of the next round does so one timeout later at most.
LEMMA TimedResume ==
  ASSUME IInv, CallsInv, kind = "json", Armed, WarmInTime, InRound, AllInTime,
         NEW w \in Worker, Resumes(w)
  PROVE  Armed' /\ WarmInTime' /\ InRound' /\ AllInTime'
<1>0. Settle(w) /\ CallsInv' /\ Then(w, next < Iters)
  BY CallsResume DEF Resumes
<1>1. /\ phase = "timed" /\ phase' = "timed" /\ ClaimNext(w)
      /\ UNCHANGED <<warm, clock, wallStart>>
  BY <1>0 DEF Settle, Resolve, Reject
<1>2. /\ claim'[w] = next /\ \A v \in Worker : v # w => claim'[v] = claim[v]
      /\ next < Iters => t0'[w] = clock
      /\ \A v \in Worker : v # w => t0'[v] = t0[v]
  BY <1>1, TimeTypes DEF ClaimNext
<1>3. /\ calls'[w] = IF next < Iters THEN Begin(kind) ELSE NoCall
      /\ \A c \in Caller : c # w => calls'[c] = calls[c]
  BY <1>0, OneCall, CallerFacts DEF Then
<1>4. Begin(kind).age = 0 /\ Begin(kind).timer = "armed"
  BY BeginIs
<1>5. Armed'
  <2> SUFFICES ASSUME NEW c \in Caller, Called(c)'
               PROVE  /\ calls'[c].age <= ClientTimeout
                      /\ Open(calls'[c]) => calls'[c].timer = "armed"
    BY DEF Armed, Open
  <2>1. CASE c = w
    <3>1. calls'[c] = Begin(kind)
      BY <1>3, <2>1, NoneCalled DEF Called
    <3> QED BY <1>4, <3>1, CallAssumption
  <2>2. CASE c # w
    BY <1>3, <2>2 DEF Armed, Called
  <2> QED BY <2>1, <2>2
<1>6. WarmInTime'
  BY <1>1 DEF WarmInTime
<1>7. InRound'
  <2> SUFFICES ASSUME NEW v \in Worker, Busy(v)'
               PROVE  /\ clock <= t0'[v] + calls'[v].age
                      /\ \A r \in Nat : claim'[v] < (r + 1) * PoolSize =>
                           t0'[v] <= wallStart + r * ClientTimeout
    BY <1>1 DEF InRound
  <2>1. CASE v = w
    <3>1. next < Iters
      BY <1>2, <2>1 DEF Busy
    <3>2. clock <= t0'[v] + calls'[v].age
      BY <1>2, <1>3, <1>4, <2>1, <3>1, TimeTypes
    <3>3. \A r \in Nat : next < (r + 1) * PoolSize => clock <= wallStart + r * ClientTimeout
      BY <1>1, <3>1, ClaimedInRound
    <3> QED BY <1>2, <2>1, <3>1, <3>2, <3>3
  <2>2. CASE v # w
    <3>1. claim'[v] = claim[v] /\ t0'[v] = t0[v] /\ calls'[v] = calls[v] /\ Busy(v)
      BY <1>2, <1>3, <2>2, CallerFacts DEF Busy
    <3> QED BY <1>1, <3>1 DEF InRound
  <2> QED BY <2>1, <2>2
<1>8. AllInTime'
  BY <1>1 DEF AllInTime
<1> QED BY <1>5, <1>6, <1>7, <1>8

\* An event of a call changes neither its age nor the clock.
LEMMA TimedEvent ==
  ASSUME IInv, CallsInv, kind = "json", Armed, WarmInTime, InRound, AllInTime,
         NEW c \in Caller, Hears(c) \/ Expires(c)
  PROVE  Armed' /\ WarmInTime' /\ InRound' /\ AllInTime'
<1>1. PICK e \in Calls : /\ Called(c) /\ Open(calls[c]) /\ UNCHANGED <<vars, kind>>
                         /\ calls' = [calls EXCEPT ![c] = e] /\ e.kind = kind /\ e.age = calls[c].age
                         /\ ~Open(e) => e.outcome \in {"value"} \cup Messages
                         /\ Open(e) => e.timer = calls[c].timer
  BY EventIs
<1>2. /\ calls'[c] = e /\ \A d \in Caller : d # c => calls'[d] = calls[d]
      /\ \A d \in Caller : Called(d)' <=> Called(d)
  BY <1>1, OneCall, CallsEvent
<1>3. UNCHANGED <<phase, warm, clock, wallStart, claim, t0>>
  BY <1>1 DEF vars
<1>4. \A d \in Caller : calls'[d].age = calls[d].age
  BY <1>1, <1>2
<1>5. Armed'
  <2> SUFFICES ASSUME NEW d \in Caller, Called(d)'
               PROVE  /\ calls'[d].age <= ClientTimeout
                      /\ Open(calls'[d]) => calls'[d].timer = "armed"
    BY DEF Armed, Open
  <2>1. CASE d = c
    BY <1>1, <1>2, <2>1 DEF Armed
  <2>2. CASE d # c
    BY <1>2, <2>2 DEF Armed
  <2> QED BY <2>1, <2>2
<1>6. WarmInTime'
  BY <1>3, <1>4, CallerFacts DEF WarmInTime
<1>7. InRound'
  BY <1>3, <1>4, CallerFacts DEF InRound, Busy
<1>8. AllInTime'
  BY <1>3 DEF AllInTime
<1> QED BY <1>5, <1>6, <1>7, <1>8

\* Time passes only while every call is younger than its timeout.
LEMMA TimedWait ==
  ASSUME IInv, CallsInv, kind = "json", Armed, WarmInTime, InRound, AllInTime, Waits
  PROVE  Armed' /\ WarmInTime' /\ InRound' /\ AllInTime'
<1>1. /\ \A c \in Caller : /\ Called(c)' <=> Called(c)
                           /\ Called(c) => /\ Open(calls[c]) /\ ~Due(calls[c])
                                           /\ calls'[c] = Older(calls[c])
      /\ (clock' = clock + 1 \/ clock' = clock)
      /\ UNCHANGED <<phase, warm, claim, t0, wallStart, next>>
  BY WaitIs
<1>2. ASSUME NEW c \in Caller, Called(c)
      PROVE  /\ calls'[c].age = calls[c].age + 1 /\ calls'[c].age <= ClientTimeout
             /\ calls'[c].timer = "armed" /\ calls[c].age \in Nat
  <2>1. calls[c] \in Calls /\ Open(calls[c]) /\ ~Due(calls[c]) /\ calls'[c] = Older(calls[c])
    BY <1>1, <1>2 DEF CallsInv
  <2>2. calls[c].timer = "armed" /\ calls[c].age <= ClientTimeout
    BY <1>2, <2>1 DEF Armed
  <2>3. calls[c].age \in Nat
    BY <2>1 DEF Calls
  <2> QED BY <2>1, <2>2, <2>3, NotOverdue
<1>3. Armed'
  BY <1>1, <1>2 DEF Armed
<1>4. clock' <= clock + 1 /\ clock' \in Nat /\ clock \in Nat
  BY <1>1, TimeTypes
<1>5. WarmInTime'
  <2>1. CASE phase = "warmup" /\ warm < Warmup
    <3>1. Called(Main) /\ Main \in Caller
      BY <2>1, CallerFacts DEF CallsInv
    <3>2. calls'[Main].age = calls[Main].age + 1 /\ calls[Main].age \in Nat
      BY <1>2, <3>1
    <3>3. PICK m \in Nat : m = warm * ClientTimeout
      BY TimeTypes, Times
    <3>4. clock' <= m + calls'[Main].age
      BY <1>4, <2>1, <3>2, <3>3 DEF WarmInTime
    <3> QED BY <1>1, <2>1, <3>3, <3>4 DEF WarmInTime
  <2>2. CASE phase = "warmup" /\ ~(warm < Warmup)
    <3>1. \A c \in Caller : ~Called(c)
      BY <2>2 DEF CallsInv, Caller
    <3> QED BY <3>1 DEF Waits, Waiting
  <2>3. CASE phase # "warmup"
    BY <1>1, <2>3 DEF WarmInTime
  <2> QED BY <2>1, <2>2, <2>3
<1>6. InRound'
  <2> SUFFICES ASSUME phase = "timed", NEW w \in Worker, Busy(w)
               PROVE  /\ clock' <= t0[w] + calls'[w].age
                      /\ \A r \in Nat : claim[w] < (r + 1) * PoolSize =>
                           t0[w] <= wallStart + r * ClientTimeout
    BY <1>1 DEF InRound, Busy
  <2>1. Called(w) /\ w \in Caller
    BY CallerFacts DEF CallsInv
  <2>2. calls'[w].age = calls[w].age + 1 /\ calls[w].age \in Nat /\ t0[w] \in Nat
    BY <1>2, <2>1, TimeTypes
  <2>3. clock' <= t0[w] + calls'[w].age
    BY <1>4, <2>2 DEF InRound
  <2> QED BY <2>3 DEF InRound
<1>7. AllInTime'
  <2> SUFFICES ASSUME phase = "timed" PROVE clock' <= (Warmup + Rounds) * ClientTimeout
    BY <1>1 DEF AllInTime
  <2>1. PICK c \in Caller : Called(c)
    BY DEF Waits, Waiting
  <2>2. c \in Worker /\ Busy(c)
    <3>1. c # Main
      BY <2>1 DEF CallsInv
    <3>2. c \in Worker
      BY <2>1, <3>1 DEF Caller
    <3> QED BY <2>1, <3>2 DEF CallsInv
  <2>3. Iters > 0 /\ claim[c] < Iters /\ claim[c] \in Int /\ t0[c] \in Nat
    BY <2>2, TimeTypes DEF Busy
  <2>4. PICK q \in Nat : Rounds = q + 1 /\ Iters <= (q + 1) * PoolSize
    <3>1. Rounds - 1 \in Nat /\ Rounds = (Rounds - 1) + 1 /\ Iters <= Rounds * PoolSize
      BY <2>3, RoundsCover
    <3> QED BY <3>1
  <2>5. claim[c] < (q + 1) * PoolSize
    <3>1. (q + 1) * PoolSize \in Nat
      BY TimeTypes, Times
    <3> QED BY <2>3, <2>4, <3>1, TimeTypes
  <2>6. t0[c] <= wallStart + q * ClientTimeout
    BY <2>2, <2>5 DEF InRound
  <2>7. clock' <= t0[c] + calls'[c].age /\ calls'[c].age <= ClientTimeout /\ calls'[c].age \in Nat
    <3>1. calls'[c].age = calls[c].age + 1 /\ calls'[c].age <= ClientTimeout /\ calls[c].age \in Nat
      BY <1>2, <2>1
    <3> QED BY <1>4, <2>2, <2>3, <3>1 DEF InRound
  <2>8. wallStart <= Warmup * ClientTimeout
    BY DEF WarmInTime
  <2>9. PICK m, n \in Nat : m = Warmup * ClientTimeout /\ n = q * ClientTimeout
    BY TimeTypes, Times
  <2>10. (Warmup + Rounds) * ClientTimeout = m + (n + ClientTimeout)
    <3>1. Rounds * ClientTimeout = n + ClientTimeout
      BY <2>4, <2>9, TimeTypes, Times
    <3> QED BY <2>9, <3>1, TimeTypes, Times
  <2>11. clock' <= m + (n + ClientTimeout)
    BY <1>4, <2>3, <2>6, <2>7, <2>8, <2>9, TimeTypes
  <2> QED BY <2>10, <2>11
<1> QED BY <1>3, <1>5, <1>6, <1>7

LEMMA TimedStep == IInv /\ CallsInv /\ TimedInv /\ [ProbeNext]_probeVars => TimedInv'
<1> SUFFICES ASSUME IInv, CallsInv, TimedInv, [ProbeNext]_probeVars, kind' = "json" PROVE TimedInv'
  BY DEF TimedInv
<1>0. kind' = kind
  BY DEF ProbeNext, probeVars, WarmedUp, Launched, Returns, Waits, Resumes, Hears, Expires
<1>00. kind = "json" /\ Armed /\ WarmInTime /\ InRound /\ AllInTime
  BY <1>0 DEF TimedInv
<1>1. CASE WarmedUp
  BY <1>00, <1>1, TimedWarm DEF TimedInv
<1>2. CASE Launched
  BY <1>00, <1>2, TimedLaunch DEF TimedInv
<1>3. CASE Returns
  <2>1. phase = "timed" /\ phase' = "returned" /\ UNCHANGED <<calls, wallStart>>
    BY <1>3 DEF Returns, Return
  <2>2. Armed'
    BY <1>00, <2>1 DEF Armed, Called, Open
  <2> QED BY <1>00, <2>1, <2>2 DEF TimedInv, WarmInTime, InRound, AllInTime
<1>4. CASE Waits
  BY <1>00, <1>4, TimedWait DEF TimedInv
<1>5. ASSUME NEW w \in Worker, Resumes(w) PROVE TimedInv'
  BY <1>00, <1>5, TimedResume DEF TimedInv
<1>6. ASSUME NEW c \in Caller, Hears(c) \/ Expires(c) PROVE TimedInv'
  BY <1>00, <1>6, TimedEvent DEF TimedInv
<1>7. CASE UNCHANGED probeVars
  <2>1. UNCHANGED <<phase, warm, clock, wallStart, claim, t0, kind, calls>>
    BY <1>7 DEF probeVars, vars
  <2>2. Armed'
    BY <1>00, <2>1 DEF Armed, Called, Open
  <2>3. WarmInTime' /\ AllInTime'
    BY <1>00, <2>1 DEF WarmInTime, AllInTime
  <2>4. InRound'
    BY <1>00, <2>1 DEF InRound, Busy
  <2> QED BY <2>2, <2>3, <2>4 DEF TimedInv
<1> QED BY <1>1, <1>2, <1>3, <1>4, <1>5, <1>6, <1>7 DEF ProbeNext

\* A probe of JSON calls is over within a client timeout for each warm-up
\* operation and one for each round of its workers, whatever the server does
\* and however the workers take their turns, for every size of the batch.
THEOREM ReturnsInTimeHolds == ProbeSpec => []ReturnsInTime
<1>1. ProbeInit => IInv /\ CallsInv /\ TimedInv
  BY CallsInit, InitInvariant, TimedInit
<1>2. IInv /\ CallsInv /\ TimedInv /\ [ProbeNext]_probeVars => (IInv /\ CallsInv /\ TimedInv)'
  BY CallsStep, StepInvariant, TimedStep
<1>3. IInv /\ CallsInv /\ TimedInv => ReturnsInTime
  <2> SUFFICES ASSUME IInv, CallsInv, TimedInv PROVE ReturnsInTime
    OBVIOUS
  <2>1. \A c \in Caller : Called(c) => calls[c] \in Calls
    BY DEF CallsInv
  <2>2. ASSUME kind = "json", phase # "returned"
        PROVE  clock <= (Warmup + Rounds) * ClientTimeout
    <3>1. CASE phase = "timed"
      BY <2>2, <3>1 DEF TimedInv, AllInTime
    <3>2. CASE phase = "warmup"
      <4>1. WarmInTime /\ Armed
        BY <2>2 DEF TimedInv
      <4>2. PICK m, n, l \in Nat : /\ m = warm * ClientTimeout /\ n = Rounds * ClientTimeout
                                   /\ l = Warmup * ClientTimeout
        BY TimeTypes, Times
      <4>3. (Warmup + Rounds) * ClientTimeout = l + n
        BY <4>2, TimeTypes, Times
      <4>4. CASE warm < Warmup
        <5>1. Called(Main) /\ Main \in Caller /\ calls[Main] \in Calls
          BY <3>2, <4>4, CallerFacts DEF CallsInv
        <5>2. calls[Main].age <= ClientTimeout /\ calls[Main].age \in Nat
          BY <4>1, <5>1 DEF Armed, Calls
        <5>3. clock <= m + ClientTimeout
          BY <3>2, <4>1, <4>2, <4>4, <5>2, TimeTypes DEF WarmInTime
        <5>4. PICK d \in Nat : Warmup = (warm + 1) + d
          <6>1. Warmup - (warm + 1) \in Nat /\ Warmup = (warm + 1) + (Warmup - (warm + 1))
            BY <4>4, TimeTypes
          <6> QED BY <6>1
        <5>5. l = m + ClientTimeout + d * ClientTimeout /\ d * ClientTimeout \in Nat
          <6>1. warm \in Nat /\ warm + 1 \in Nat
            BY TimeTypes
          <6>2. l = (warm + 1) * ClientTimeout + d * ClientTimeout
            BY <4>2, <5>4, <6>1, TimeTypes, Times
          <6> QED BY <4>2, <6>1, <6>2, TimeTypes, Times
        <5> QED BY <4>2, <4>3, <5>3, <5>5, TimeTypes
      <4>5. CASE warm = Warmup
        BY <3>2, <4>1, <4>2, <4>3, <4>5, TimeTypes DEF WarmInTime
      <4> QED BY <4>4, <4>5, TimeTypes
    <3> QED BY <2>2, <3>1, <3>2 DEF IInv, TypeOK
  <2> QED BY <2>1, <2>2 DEF ReturnsInTime
<1> QED BY <1>1, <1>2, <1>3, PTL DEF ProbeSpec
=============================================================================
