------------------------------- MODULE CeCall -------------------------------
(***************************************************************************)
(* One call of the clients of src/ce.js, as a record: fetch resolves when  *)
(* the headers are there, the body is read after that, and a timer may     *)
(* abort either.  What a call does with its timer and its errors is its    *)
(* kind:                                                                   *)
(*   json     _request: the JSON routes of CeClient                        *)
(*   probe    profiles(), fabricStats(): a _request that forgives 404      *)
(*   raw      putBlob, getBlob: _raw, then the caller reads the body       *)
(*   task     HubClient.submitTask                                         *)
(*   listing  HubClient.nodes, HubClient.stats                             *)
(* Age is a number of ticks since the call began.  This module says what   *)
(* becomes of a call at each event; CeRequest and TimedProbe say when the  *)
(* events happen.                                                          *)
(***************************************************************************)
EXTENDS Naturals

CONSTANTS ClientTimeout, \* the client's timeoutMs
          Horizon        \* bound: the age up to which a call is watched

ASSUME CallAssumption ==
  /\ ClientTimeout \in Nat \ {0}
  /\ Horizon \in Nat /\ Horizon > ClientTimeout

Kinds == {"json", "probe", "raw", "task", "listing"}
Timed == Kinds \ {"listing"}
Statuses == {"ok", "notFound", "failed"}

Calls ==
  [kind : Kinds, phase : {"headers", "body", "settled"},
   status : Statuses \cup {"none"},
   timer : {"none", "armed", "cleared", "fired"}, age : 0 .. Horizon,
   outcome : {"none", "value", "empty", "error", "aborted"}]

Begin(k) ==
  [kind |-> k, phase |-> "headers", status |-> "none",
   timer |-> IF k \in Timed THEN "armed" ELSE "none",
   age |-> 0, outcome |-> "none"]

Open(c) == c.phase # "settled"

\* The finally block: a timer that has not fired is cleared.
Cleared(timer) == IF timer = "armed" THEN "cleared" ELSE timer

SettledAs(c, how) ==
  [c EXCEPT !.phase = "settled", !.outcome = how, !.timer = Cleared(@)]

\* Slip: the timer covers the headers only.
HeadersStopTimer(c, s) ==
  [c EXCEPT !.phase = "body", !.status = s, !.timer = Cleared(@)]

\* Slip: the timer is armed anew for the body.
HeadersRestartTimer(c, s) ==
  [c EXCEPT !.phase = "body", !.status = s, !.age = 0]

\* _raw is done with the headers of a good response, and its finally block
\* stops the timer; nodes() and stats() throw without reading the body.
Headers(c, s) ==
  IF c.kind = "listing" /\ s # "ok" THEN SettledAs([c EXCEPT !.status = s], "error")
  ELSE [c EXCEPT !.phase = "body", !.status = s,
                 !.timer = IF c.kind = "raw" /\ s = "ok" THEN Cleared(@) ELSE @]

\* A 404 of a probed route whose body was read is no error.
Refusal(c) == IF c.kind = "probe" /\ c.status = "notFound" THEN "empty" ELSE "error"

\* What the body of a response makes of the call: the status is looked at when
\* the body was read to its end.
Body(c, how) ==
  SettledAs(c, IF how = "error" \/ c.status = "ok" THEN how ELSE Refusal(c))

\* What the server, or a connection that breaks, can make of an open call.
Served(c) ==
  CASE c.phase = "headers" -> {Headers(c, s) : s \in Statuses} \cup {SettledAs(c, "error")}
    [] c.phase = "body" -> {Body(c, how) : how \in {"value", "error"}}
    [] OTHER -> {}

\* The timer goes off.  The body of a refused _raw is optional to its error.
Due(c) == Open(c) /\ c.timer = "armed" /\ c.age = ClientTimeout
Expired(c) ==
  [c EXCEPT !.timer = "fired", !.phase = "settled",
            !.outcome = IF c.kind = "raw" /\ c.phase = "body" THEN "error" ELSE "aborted"]

Older(c) == IF Open(c) /\ c.age < Horizon THEN [c EXCEPT !.age = @ + 1] ELSE c
=============================================================================
