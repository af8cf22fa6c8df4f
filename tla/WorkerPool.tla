----------------------------- MODULE WorkerPool -----------------------------
(***************************************************************************)
(* timedBatch of src/net.js, the engine under every network probe: warm-up *)
(* operations one after the other, then min(concurrency, iters) workers    *)
(* that claim operation numbers from one shared counter until it runs out. *)
(* JavaScript runs a continuation to its next await without interruption,  *)
(* so one action is everything between two awaits: recording a settled     *)
(* operation, claiming the next number and starting it are a single step.  *)
(***************************************************************************)
EXTENDS Integers, Sequences, FiniteSets, FiniteSetsExt

CONSTANTS Iters,        \* operations to time
          Concurrency,  \* operations in flight at most
          Warmup,       \* untimed operations run first
          Messages,     \* the texts an operation can fail with
          Blank,        \* the empty text, falsy in JavaScript
          Undefined,    \* errorSample before any failure
          MaxClock      \* bound on the model's clock

ASSUME PoolAssumption ==
  /\ Iters \in Nat
  /\ Concurrency \in Nat \ {0}
  /\ Warmup \in Nat
  /\ MaxClock \in Nat
  /\ Undefined \notin Messages

VARIABLES phase,        \* "warmup", "timed" or "returned"
          warm,         \* warm-up operations finished
          next,         \* the shared counter
          claim,        \* the number each worker claimed last
          t0,           \* when each worker began its operation
          latencies,    \* successes in the order they were pushed
          errors,       \* operations that rejected
          errorSample,  \* text of the first failure that had one
          clock, wallStart, wallMs

vars == <<phase, warm, next, claim, t0, latencies, errors, errorSample,
          clock, wallStart, wallMs>>

PoolSize == IF Concurrency < Iters THEN Concurrency ELSE Iters
Worker == 0 .. PoolSize-1
Unlaunched == -1

\* A worker whose claim is past the end has returned.
Busy(w) == 0 <= claim[w] /\ claim[w] < Iters
Exited(w) == claim[w] >= Iters

TypeOK ==
  /\ phase \in {"warmup", "timed", "returned"}
  /\ warm \in 0 .. Warmup
  /\ next \in Nat
  /\ claim \in [Worker -> Int]
  /\ t0 \in [Worker -> Nat]
  /\ latencies \in Seq([op : 0 .. Iters-1, ms : Nat])
  /\ errors \in Nat
  /\ errorSample \in Messages \cup {Undefined}
  /\ clock \in Nat /\ wallStart \in Nat /\ wallMs \in Nat

Init ==
  /\ phase = "warmup" /\ warm = 0 /\ next = 0
  /\ claim = [w \in Worker |-> Unlaunched]
  /\ t0 = [w \in Worker |-> 0]
  /\ latencies = <<>> /\ errors = 0 /\ errorSample = Undefined
  /\ clock = 0 /\ wallStart = 0 /\ wallMs = 0

\* An untimed operation ends; whether it failed is not looked at.
WarmUp ==
  /\ phase = "warmup" /\ warm < Warmup
  /\ warm' = warm + 1
  /\ UNCHANGED <<phase, next, claim, t0, latencies, errors, errorSample,
                 clock, wallStart, wallMs>>

\* The workers are created in order and each runs to its first await.
Launch ==
  /\ phase = "warmup" /\ warm = Warmup
  /\ phase' = "timed"
  /\ wallStart' = clock
  /\ claim' = [w \in Worker |-> w]
  /\ t0' = [w \in Worker |-> clock]
  /\ next' = PoolSize
  /\ UNCHANGED <<warm, latencies, errors, errorSample, clock, wallMs>>

\* Slip: the counter is advanced only when the operation has settled.
ClaimNextLate(w) ==
  /\ claim' = [claim EXCEPT ![w] = next]
  /\ next' = next
  /\ t0' = [t0 EXCEPT ![w] = clock]

\* The loop's next turn: claim a number and start on it, or return.
ClaimNext(w) ==
  /\ claim' = [claim EXCEPT ![w] = next]
  /\ next' = next + 1
  /\ t0' = IF next < Iters THEN [t0 EXCEPT ![w] = clock] ELSE t0

\* Slip: the start time is taken once, outside the loop.
ResolveFromStart(w) ==
  /\ phase = "timed" /\ Busy(w)
  /\ latencies' = Append(latencies, [op |-> claim[w], ms |-> clock - wallStart])
  /\ ClaimNext(w)
  /\ UNCHANGED <<phase, warm, errors, errorSample, clock, wallStart, wallMs>>

Resolve(w) ==
  /\ phase = "timed" /\ Busy(w)
  /\ latencies' = Append(latencies, [op |-> claim[w], ms |-> clock - t0[w]])
  /\ ClaimNext(w)
  /\ UNCHANGED <<phase, warm, errors, errorSample, clock, wallStart, wallMs>>

Falsy(m) == m \in {Undefined, Blank}

\* Slip: the try block is around the loop, so a failure ends the worker.
RejectQuits(w, m) ==
  /\ phase = "timed" /\ Busy(w)
  /\ errors' = errors + 1
  /\ errorSample' = IF Falsy(errorSample) THEN m ELSE errorSample
  /\ claim' = [claim EXCEPT ![w] = Iters]
  /\ UNCHANGED <<phase, warm, next, t0, latencies, clock, wallStart, wallMs>>

\* Slip: only a failure that has a text is counted.
RejectNamed(w, m) ==
  /\ phase = "timed" /\ Busy(w)
  /\ errors' = IF Falsy(m) THEN errors ELSE errors + 1
  /\ errorSample' = IF Falsy(errorSample) THEN m ELSE errorSample
  /\ ClaimNext(w)
  /\ UNCHANGED <<phase, warm, latencies, clock, wallStart, wallMs>>

Reject(w, m) ==
  /\ phase = "timed" /\ Busy(w)
  /\ errors' = errors + 1
  /\ errorSample' = IF Falsy(errorSample) THEN m ELSE errorSample
  /\ ClaimNext(w)
  /\ UNCHANGED <<phase, warm, latencies, clock, wallStart, wallMs>>

\* Slip: Promise.race in place of Promise.all.
ReturnOnFirst ==
  /\ phase = "timed" /\ \E w \in Worker : Exited(w)
  /\ phase' = "returned"
  /\ wallMs' = clock - wallStart
  /\ UNCHANGED <<warm, next, claim, t0, latencies, errors, errorSample,
                 clock, wallStart>>

\* Promise.all resolves once every worker returned.
Return ==
  /\ phase = "timed" /\ \A w \in Worker : Exited(w)
  /\ phase' = "returned"
  /\ wallMs' = clock - wallStart
  /\ UNCHANGED <<warm, next, claim, t0, latencies, errors, errorSample,
                 clock, wallStart>>

Tick ==
  /\ phase # "returned" /\ clock < MaxClock
  /\ clock' = clock + 1
  /\ UNCHANGED <<phase, warm, next, claim, t0, latencies, errors, errorSample,
                 wallStart, wallMs>>

Settle(w) == Resolve(w) \/ \E m \in Messages : Reject(w, m)

Done == phase = "returned" /\ UNCHANGED vars

Next ==
  \/ WarmUp \/ Launch \/ Return \/ Tick \/ Done
  \/ \E w \in Worker : Settle(w)

Spec == Init /\ [][Next]_vars

\* Continuations that are ready are run by the event loop, and a CeClient call
\* under a timer settles.  The body of a blob is read without one (CeRequest):
\* that blob operations settle is an assumption on the node.
FairSpec ==
  /\ Spec
  /\ WF_vars(WarmUp) /\ WF_vars(Launch) /\ WF_vars(Return)
  /\ \A w \in Worker : WF_vars(Settle(w))
-----------------------------------------------------------------------------
(***************************************************************************)
(* Properties.                                                             *)
(***************************************************************************)
Succeeded == {latencies[k].op : k \in DOMAIN latencies}
InFlight == {claim[w] : w \in {v \in Worker : Busy(v)}}
Failed == {i \in 0 .. Iters-1 : i < next} \ (Succeeded \cup InFlight)

\* However the workers interleave, no operation number is handed to two
\* workers, run again after it settled, or timed twice (the shared counter).
NoOpTwice ==
  /\ \A v, w \in Worker : v # w /\ Busy(v) => claim[v] # claim[w]
  /\ \A j, k \in DOMAIN latencies :
        j # k => latencies[j].op # latencies[k].op
  /\ Succeeded \cap InFlight = {}

\* Every operation the batch was asked for is in the result, once: as a
\* latency or as an error (latencies and errors are kept by all workers).
EveryOpCounted ==
  phase = "returned" => Len(latencies) + errors = Iters

\* The number measured as "concurrency c" is c: no worker stops while there
\* are operations left, failures included, so the load never thins early.
Saturated ==
  phase = "timed" /\ next < Iters => \A w \in Worker : Busy(w)

\* The latencies and the wall time belong to the same execution: the workers
\* together cannot have been busy longer than PoolSize times the wall time.
BusyTimeFitsWall ==
  phase = "returned" =>
    SumFunction([k \in DOMAIN latencies |-> latencies[k].ms]) <= PoolSize * wallMs

(***************************************************************************)
(* The inductive invariant.  Every number below the counter is either held *)
(* by exactly one worker or settled, so settled operations are counted by  *)
(* next - PoolSize; a worker that returned keeps the number it could not   *)
(* use, and these numbers are exactly Iters .. next-1.                     *)
(***************************************************************************)
NotStarted ==
  /\ next = 0 /\ latencies = <<>> /\ errors = 0
  /\ \A w \in Worker : claim[w] = Unlaunched

ClaimsDistinct ==
  /\ \A w \in Worker : claim[w] \in 0 .. next-1
  /\ \A v, w \in Worker : v # w => claim[v] # claim[w]

LatenciesDistinct ==
  /\ \A k \in DOMAIN latencies :
       /\ latencies[k].op < next
       /\ \A w \in Worker : claim[w] # latencies[k].op
  /\ \A j, k \in DOMAIN latencies :
       j # k => latencies[j].op # latencies[k].op

SettledCounted == Len(latencies) + errors + PoolSize = next

OverrunsHeld == \A n \in Iters .. next-1 : \E w \in Worker : claim[w] = n

ClockOrder == wallStart <= clock /\ \A w \in Worker : t0[w] <= clock

\* TypeOK, and what holds of the counter, the claims and the two tallies
\* before and after the workers are launched (lines 102-118).
IInv ==
  /\ TypeOK /\ ClockOrder
  /\ phase = "warmup" => NotStarted
  /\ phase # "warmup" =>
       /\ ClaimsDistinct /\ LatenciesDistinct /\ SettledCounted
       /\ OverrunsHeld
  /\ phase = "returned" => \A w \in Worker : Exited(w)

(***************************************************************************)
(* The pool implements the batch: the state of each operation is read off  *)
(* the claims and the latencies, and the report is what timedBatch returns.*)
(***************************************************************************)
OpStatus(i) ==
  CASE i \in Succeeded -> "ok"
    [] i \in InFlight -> "running"
    [] i \in Failed -> "failed"
    [] OTHER -> "todo"

B == INSTANCE Batch WITH
       Total <- Iters, Limit <- Concurrency,
       status <- [i \in 0 .. Iters-1 |-> OpStatus(i)],
       report <- IF phase = "returned"
                 THEN {[ok |-> Len(latencies), failed |-> errors]} ELSE {}

\* timedBatch implements Batch, its progress included: the operations begin
\* in order, settle once each, and one report that counts them all is made.
ImplementsBatch == B!Spec
=============================================================================
