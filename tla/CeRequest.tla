----------------------------- MODULE CeRequest -----------------------------
(***************************************************************************)
(* One client call in time, against a server that is slow or silent before *)
(* the headers or within the body.  A timer that is due fires before time  *)
(* goes on.                                                                *)
(***************************************************************************)
EXTENDS CeCall

VARIABLE call

CallInit(kinds) == call \in {Begin(k) : k \in kinds}

CallHears == call' \in Served(call)
CallExpires == Due(call) /\ call' = Expired(call)
CallWaits == Open(call) /\ ~Due(call) /\ call.age < Horizon /\ call' = Older(call)

CallNext == CallHears \/ CallExpires \/ CallWaits
CallSpec == CallInit(Kinds) /\ [][CallNext]_call

-----------------------------------------------------------------------------
(***************************************************************************)
(* Properties.                                                             *)
(***************************************************************************)
GivenUp(K) == call.kind \in K /\ Open(call) => call.age <= ClientTimeout

\* A JSON route and a hub task are over when the client's timeout is, also
\* when the server stalls in the middle of the body (lines 55-84, 362-384).
InTime == call \in Calls /\ GivenUp({"json", "probe", "task"})

\* "raw-body fetch with a per-request timeout" (line 179): the timeout ends
\* with the headers, before the body is read.
RawInTime == GivenUp({"raw"})

\* What makes InTime hold: the timer of such a call is armed while it is open.
ArmedWhileOpen ==
  /\ call \in Calls
  /\ call.kind \in {"json", "probe", "task"} /\ Open(call) =>
       call.timer = "armed" /\ call.age <= ClientTimeout
=============================================================================
