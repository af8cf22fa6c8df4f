--------------------------- MODULE ObjectRoundtrip ---------------------------
(***************************************************************************)
(* probeObjectRoundtrip of src/net.js, and the loop of bin/ce-netbench.js  *)
(* that calls it for one object size after the other.  A call's workers    *)
(* upload its chunks, and once all of them returned its workers download   *)
(* them.  There is no try block: the first failure rejects Promise.all and *)
(* with it the call, while the call's other workers go on with the chunks. *)
(***************************************************************************)
EXTENDS Integers, Sequences

CONSTANTS
  Sizes,       \* the object sizes, in order
  ChunkSize,
  Concurrency

ASSUME RoundtripAssumption ==
  /\ Sizes \in Seq(Nat) /\ ChunkSize \in Nat \ {0} /\ Concurrency \in Nat \ {0}

Call == DOMAIN Sizes
CeilDiv(a, b) == (a + b - 1) \div b
Chunks(c) == IF CeilDiv(Sizes[c], ChunkSize) > 1 THEN CeilDiv(Sizes[c], ChunkSize) ELSE 1
PoolSize(c) == IF Concurrency < Chunks(c) THEN Concurrency ELSE Chunks(c)
Worker == 0 .. Concurrency - 1
Pool(c) == 0 .. PoolSize(c) - 1

VARIABLES
  call,     \* the call the loop is in
  outcome,  \* "todo", "pending", "ok" or "failed", of each call
  loop,     \* which of its two loops a call has reached, "up" or "down"
  next,     \* the counter its workers share
  claim,    \* the chunk each worker has in flight, or None, or Rejected
  stored,   \* the chunks whose hash is known
  upLat, dnLat, \* the chunks timed, in the order they were pushed
  results   \* report.sections.object
vars == <<call, outcome, loop, next, claim, stored, upLat, dnLat, results>>

None == -1
Rejected == -2

Init ==
  /\ call = 1
  /\ outcome = [c \in Call |-> "todo"] /\ loop = [c \in Call |-> "up"]
  /\ next = [c \in Call |-> 0]
  /\ claim = [c \in Call |-> [w \in Worker |-> None]]
  /\ stored = [c \in Call |-> {}]
  /\ upLat = [c \in Call |-> <<>>] /\ dnLat = [c \in Call |-> <<>>]
  /\ results = <<>>

Busy(c, w) == claim[c][w] >= 0

\* The workers of a loop, each with its first chunk.
Launch(c) ==
  /\ claim' = [claim EXCEPT ![c] = [w \in Worker |-> IF w < PoolSize(c) THEN w ELSE None]]
  /\ next' = [next EXCEPT ![c] = PoolSize(c)]

\* The loop's next turn: claim a chunk, or return.
ClaimNext(c, w) ==
  /\ claim' = [claim EXCEPT ![c][w] = IF next[c] < Chunks(c) THEN next[c] ELSE None]
  /\ next' = [next EXCEPT ![c] = @ + 1]

StartCall ==
  /\ call \in Call /\ outcome[call] = "todo"
  /\ outcome' = [outcome EXCEPT ![call] = "pending"]
  /\ Launch(call)
  /\ UNCHANGED <<call, loop, stored, upLat, dnLat, results>>

Put(c, w) ==
  /\ Busy(c, w) /\ loop[c] = "up"
  /\ stored' = [stored EXCEPT ![c] = @ \cup {claim[c][w]}]
  /\ upLat' = [upLat EXCEPT ![c] = Append(@, claim[c][w])]
  /\ ClaimNext(c, w)
  /\ UNCHANGED <<call, outcome, loop, dnLat, results>>

Get(c, w) ==
  /\ Busy(c, w) /\ loop[c] = "down"
  /\ dnLat' = [dnLat EXCEPT ![c] = Append(@, claim[c][w])]
  /\ ClaimNext(c, w)
  /\ UNCHANGED <<call, outcome, loop, stored, upLat, results>>

\* Slip: a failed chunk is passed over, as timedBatch does.
FailPassed(c, w) ==
  /\ Busy(c, w)
  /\ ClaimNext(c, w)
  /\ UNCHANGED <<call, outcome, loop, stored, upLat, dnLat, results>>

\* A put or get fails: the worker rejects, and with the first one the call.
Fail(c, w) ==
  /\ Busy(c, w)
  /\ claim' = [claim EXCEPT ![c][w] = Rejected]
  /\ outcome' = [outcome EXCEPT ![c] = "failed"]
  /\ UNCHANGED <<call, loop, next, stored, upLat, dnLat, results>>

\* Slip: Promise.race in place of Promise.all.
AnyReturned(c) == \E w \in 0 .. PoolSize(c) - 1 : claim[c][w] = None

AllReturned(c) == \A w \in 0 .. PoolSize(c) - 1 : claim[c][w] = None

StartDownload(c) ==
  /\ outcome[c] = "pending" /\ loop[c] = "up" /\ AllReturned(c)
  /\ loop' = [loop EXCEPT ![c] = "down"]
  /\ Launch(c)
  /\ UNCHANGED <<call, outcome, stored, upLat, dnLat, results>>

Return(c) ==
  /\ outcome[c] = "pending" /\ loop[c] = "down" /\ AllReturned(c)
  /\ outcome' = [outcome EXCEPT ![c] = "ok"]
  /\ UNCHANGED <<call, loop, next, claim, stored, upLat, dnLat, results>>

\* The loop takes a result or the caught error, and goes on to the next size.
Record ==
  /\ call \in Call /\ outcome[call] \in {"ok", "failed"}
  /\ results' = Append(results, outcome[call]) /\ call' = call + 1
  /\ UNCHANGED <<outcome, loop, next, claim, stored, upLat, dnLat>>

Settle(c, w) == Put(c, w) \/ Get(c, w) \/ Fail(c, w)
Continue == StartCall \/ Record \/ \E c \in Call : StartDownload(c) \/ Return(c)
Stopped == call \notin Call /\ (\A c \in Call, w \in Worker : ~Busy(c, w)) /\ UNCHANGED vars

Next == Continue \/ Stopped \/ \E c \in Call, w \in Worker : Settle(c, w)

Spec == Init /\ [][Next]_vars

-----------------------------------------------------------------------------
(***************************************************************************)
(* Properties.                                                             *)
(***************************************************************************)
TypeOK ==
  /\ call \in 1 .. Len(Sizes) + 1
  /\ \A c \in Call : /\ outcome[c] \in {"todo", "pending", "ok", "failed"}
                     /\ loop[c] \in {"up", "down"} /\ next[c] \in Nat
                     /\ stored[c] \subseteq 0 .. Chunks(c) - 1
                     /\ \A w \in Worker : claim[c][w] \in -2 .. Chunks(c) - 1

\* Every chunk once, in any order.
Whole(c, lat) ==
  Len(lat) = Chunks(c) /\ {lat[j] : j \in DOMAIN lat} = 0 .. Chunks(c) - 1

\* The throughput of a call that returned is that of the whole object: each
\* chunk was put once and got once, none failed, and nothing is in flight
\* any more (lines 356, 377).
OkIsWhole ==
  TypeOK /\ \A c \in Call : outcome[c] = "ok" =>
    Whole(c, upLat[c]) /\ Whole(c, dnLat[c]) /\ \A w \in Worker : ~Busy(c, w)

\* No chunk is fetched by a hash that is not there yet: the two loops have
\* the same workers but not the same moment (lines 344, 371).
FetchesStored ==
  \A c \in Call, w \in Worker : loop[c] = "down" /\ Busy(c, w) => claim[c][w] \in stored[c]
=============================================================================
