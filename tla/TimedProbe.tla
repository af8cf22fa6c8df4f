----------------------------- MODULE TimedProbe -----------------------------
(***************************************************************************)
(* The single-purpose probes of src/net.js: timedBatch with a client call  *)
(* for an operation.  WorkerPool says what the batch does when an          *)
(* operation settles, CeCall when the call behind it does; here they run   *)
(* together, on one clock.  probeRpcRtt and probeSendRtt make JSON calls,  *)
(* the blob probes raw ones.  Continuations and timers that are due run    *)
(* before time goes on.                                                    *)
(***************************************************************************)
EXTENDS WorkerPool, CeCall

CONSTANT ProbeKinds    \* the kinds of call the probes make

ASSUME ProbeAssumption ==
  /\ ProbeKinds \subseteq {"json", "raw"}
  /\ Messages = {"error", "aborted"}

VARIABLES kind,        \* the calls of this probe
          calls        \* the call each caller waits for
probeVars == <<vars, kind, calls>>

Main == -1             \* the batch itself, in its warm-up
Caller == Worker \cup {Main}
NoCall == [Begin("json") EXCEPT !.phase = "none"]
Called(c) == calls[c].phase # "none"
Waiting(c) == Called(c) /\ Open(calls[c])
Back(c) == Called(c) /\ ~Open(calls[c])

ProbeInit ==
  /\ Init /\ kind \in ProbeKinds
  /\ calls = [c \in Caller |-> IF c = Main /\ Warmup > 0 THEN Begin(kind) ELSE NoCall]

Then(c, more) == calls' = [calls EXCEPT ![c] = IF more THEN Begin(kind) ELSE NoCall]

WarmedUp == Back(Main) /\ WarmUp /\ Then(Main, warm' < Warmup) /\ UNCHANGED kind

Launched ==
  /\ Launch /\ UNCHANGED kind
  /\ calls' = [c \in Caller |-> IF c = Main THEN NoCall ELSE Begin(kind)]

\* A worker goes on when its call is over, with the next one if there is one.
Resumes(w) ==
  /\ Back(w) /\ UNCHANGED kind
  /\ \/ calls[w].outcome = "value" /\ Resolve(w)
     \/ calls[w].outcome # "value" /\ Reject(w, calls[w].outcome)
  /\ Then(w, next < Iters)

Returns == Return /\ UNCHANGED <<kind, calls>>

Hears(c) ==
  /\ Waiting(c) /\ \E d \in Served(calls[c]) : calls' = [calls EXCEPT ![c] = d]
  /\ UNCHANGED <<vars, kind>>

Expires(c) ==
  /\ Called(c) /\ Due(calls[c]) /\ calls' = [calls EXCEPT ![c] = Expired(@)]
  /\ UNCHANGED <<vars, kind>>

Settling(c) == Back(c) \/ (Called(c) /\ Due(calls[c]))

\* Time goes on when everyone waits.  The clock stops at its bound, time
\* does not.
Waits ==
  /\ \A c \in Caller : ~Settling(c)
  /\ \E c \in Caller : Waiting(c)
  /\ IF clock < MaxClock THEN Tick ELSE UNCHANGED vars
  /\ calls' = [c \in Caller |-> IF Called(c) THEN Older(calls[c]) ELSE NoCall]
  /\ UNCHANGED kind

ProbeNext ==
  \/ WarmedUp \/ Launched \/ Returns \/ Waits
  \/ \E w \in Worker : Resumes(w)
  \/ \E c \in Caller : Hears(c) \/ Expires(c)
  \/ phase = "returned" /\ UNCHANGED probeVars

\* The event loop runs what is ready, timers go off, and time passes.  Of the
\* node it is assumed only that it ends the body of a blob it has begun:
\* nothing else would (CeRequest, RawInTime).
EndsBlob(c) == calls[c].kind = "raw" /\ calls[c].phase = "body" /\ Hears(c)

ProbeSpec ==
  /\ ProbeInit /\ [][ProbeNext]_probeVars
  /\ WF_probeVars(WarmedUp) /\ WF_probeVars(Launched) /\ WF_probeVars(Returns)
  /\ WF_probeVars(Waits)
  /\ \A w \in Worker : WF_probeVars(Resumes(w))
  /\ \A c \in Caller : WF_probeVars(Expires(c)) /\ WF_probeVars(EndsBlob(c))
-----------------------------------------------------------------------------
(***************************************************************************)
(* Properties.                                                             *)
(***************************************************************************)
Rounds == IF Iters = 0 THEN 0 ELSE (Iters + PoolSize - 1) \div PoolSize

\* A probe of JSON calls is over within one client timeout for each warm-up
\* operation and one for each round of its workers, whatever the server does:
\* a full pool never waits for two timeouts in a row without two rounds done.
ReturnsInTime ==
  /\ \A c \in Caller : Called(c) => calls[c] \in Calls
  /\ kind = "json" /\ phase # "returned" => clock <= (Warmup + Rounds) * ClientTimeout

\* What WorkerPool assumes of its operations, that each settles and the batch
\* then goes on, is so when they are client calls.
ImplementsPool == FairSpec
=============================================================================
