----------------------------- MODULE Bytes_proofs -----------------------------
(***************************************************************************)
(* The bytes that are stored, signed and sent.                             *)
(*                                                                         *)
(* What a round trip gets back (ObjectRoundtrip).                          *)
(* No chunk is fetched before it is stored, for any sizes and any number   *)
(* of workers.  The induction is on Accounted: while a call uploads, every *)
(* chunk that was claimed is stored or in flight, and a worker returns     *)
(* only when no chunk is left; so when all have returned all are stored.   *)
(* A second induction counts: what a call has moved, in each phase, are    *)
(* the chunks it has claimed and no longer holds, each of them once.       *)
(*                                                                         *)
(* What is signed, for any profiles (CanonicalProfile): the bytes of two   *)
(* profiles are equal exactly when the profiles say the same.  The three   *)
(* recursive functions of a value, its text, what it says and whether JSON *)
(* would alter it, satisfy their equations: there is a walk over the       *)
(* values of each depth, from below (WholeWalk, OfEachValue).  That a text *)
(* says one thing only is then by induction on the depth: the texts of two *)
(* lists that end alike are read off member by member from the end         *)
(* (ListsRead), as the last byte of a value tells its kind and its extent. *)
(* Sorting makes the members of two objects meet at the same places        *)
(* (SameKeysSamePlaces).                                                   *)
(***************************************************************************)
EXTENDS ObjectRoundtrip, CanonicalProfile, FiniteSums_proofs, FiniteSetTheorems,
        SequenceTheorems, FunctionTheorems, TLAPS

ChunkOf(c) == 0 .. Chunks(c) - 1

\* The types the induction needs.
Typed ==
  /\ outcome \in [Call -> {"todo", "pending", "ok", "failed"}]
  /\ loop \in [Call -> {"up", "down"}]
  /\ next \in [Call -> Nat]
  /\ claim \in [Call -> [Worker -> Int]]
  /\ stored \in [Call -> SUBSET Int]
  /\ \A c \in Call, w \in Worker :
       claim[c][w] < Chunks(c) /\ (w \notin Pool(c) => claim[c][w] = None)

Accounted(c) ==
  /\ \A i \in ChunkOf(c) : i < next[c] =>
       i \in stored[c] \/ \E w \in Worker : claim[c][w] = i
  /\ \A w \in Pool(c) : claim[c][w] = None => Chunks(c) <= next[c]

Loops(c) ==
  /\ loop[c] = "up" /\ outcome[c] = "pending" => Accounted(c)
  /\ loop[c] = "down" => ChunkOf(c) \subseteq stored[c]
  /\ outcome[c] = "todo" => loop[c] = "up"
  /\ outcome[c] = "pending" => \A w \in Worker : claim[c][w] # Rejected

LoopsInv == Typed /\ \A c \in Call : Loops(c)

-----------------------------------------------------------------------------
\* There are no more workers than chunks.
LEMMA Numbers ==
  ASSUME NEW c \in Call
  PROVE  /\ Chunks(c) \in Nat \ {0} /\ PoolSize(c) \in Nat \ {0}
         /\ PoolSize(c) <= Chunks(c) /\ PoolSize(c) <= Concurrency
         /\ Pool(c) \subseteq Worker /\ Pool(c) # {}
<1>1. Sizes[c] \in Nat /\ Concurrency \in Nat \ {0} /\ ChunkSize \in Nat \ {0}
  BY RoundtripAssumption DEF Call
<1>2. CeilDiv(Sizes[c], ChunkSize) \in Int
  BY <1>1 DEF CeilDiv
<1>3. Chunks(c) \in Nat \ {0}
  BY <1>2 DEF Chunks
<1>4. /\ PoolSize(c) \in Nat \ {0}
      /\ PoolSize(c) <= Chunks(c) /\ PoolSize(c) <= Concurrency
  BY <1>1, <1>3 DEF PoolSize
<1>5. 0 \in Pool(c) /\ Pool(c) \subseteq Worker
  BY <1>1, <1>4 DEF Pool, Worker
<1> QED BY <1>3, <1>4, <1>5

LEMMA LoopsInit == Init => LoopsInv
<1> SUFFICES ASSUME Init PROVE LoopsInv
  OBVIOUS
<1>1. Typed
  BY Numbers DEF Init, Typed, None
<1>2. \A c \in Call : Loops(c)
  BY DEF Init, Loops
<1> QED BY <1>1, <1>2 DEF LoopsInv

\* The first chunks: one for each worker of the pool.
LEMMA LaunchStep ==
  ASSUME LoopsInv, NEW c \in Call, Launch(c)
  PROVE  /\ next' \in [Call -> Nat] /\ claim' \in [Call -> [Worker -> Int]]
         /\ \A d \in Call, w \in Worker :
              claim'[d][w] < Chunks(d) /\ (w \notin Pool(d) => claim'[d][w] = None)
         /\ \A w \in Worker : claim'[c][w] # Rejected
         /\ \A d \in Call \ {c} : claim'[d] = claim[d] /\ next'[d] = next[d]
         /\ next'[c] = PoolSize(c)
         /\ \A i \in ChunkOf(c) : i < next'[c] => \E w \in Worker : claim'[c][w] = i
         /\ \A w \in Pool(c) : claim'[c][w] # None
<1>1. Typed
  BY DEF LoopsInv
<1>2. claim'[c] = [w \in Worker |-> IF w < PoolSize(c) THEN w ELSE None] /\ next'[c] = PoolSize(c)
  BY <1>1 DEF Launch, Typed
<1>3. \A w \in Worker : w \in Nat /\ claim'[c][w] = IF w < PoolSize(c) THEN w ELSE None
  BY <1>2 DEF Worker
<1>4. /\ next' \in [Call -> Nat] /\ claim' \in [Call -> [Worker -> Int]]
      /\ \A d \in Call \ {c} : claim'[d] = claim[d] /\ next'[d] = next[d]
  BY <1>1, Numbers DEF Launch, Typed, Worker, None
<1>5. \A w \in Worker : /\ claim'[c][w] < Chunks(c) /\ claim'[c][w] # Rejected
                        /\ w \notin Pool(c) => claim'[c][w] = None
  <2>1. Chunks(c) \in Nat \ {0} /\ PoolSize(c) \in Nat /\ PoolSize(c) <= Chunks(c)
    BY Numbers
  <2>2. SUFFICES ASSUME NEW w \in Worker
                 PROVE  /\ claim'[c][w] < Chunks(c) /\ claim'[c][w] # Rejected
                        /\ w \notin Pool(c) => claim'[c][w] = None
    OBVIOUS
  <2>3. CASE w < PoolSize(c)
    BY <1>3, <2>1, <2>3 DEF Rejected, Pool
  <2>4. CASE ~(w < PoolSize(c))
    BY <1>3, <2>1, <2>4 DEF None, Rejected
  <2> QED BY <2>3, <2>4
<1>6. \A d \in Call, w \in Worker :
        claim'[d][w] < Chunks(d) /\ (w \notin Pool(d) => claim'[d][w] = None)
  <2>1. SUFFICES ASSUME NEW d \in Call, NEW w \in Worker
                 PROVE  claim'[d][w] < Chunks(d) /\ (w \notin Pool(d) => claim'[d][w] = None)
    OBVIOUS
  <2>2. CASE d = c
    BY <1>5, <2>2
  <2>3. CASE d # c
    BY <1>1, <1>4, <2>3 DEF Typed
  <2> QED BY <2>2, <2>3
<1>7. ASSUME NEW i \in ChunkOf(c), i < next'[c] PROVE \E w \in Worker : claim'[c][w] = i
  <2>1. i \in 0 .. Concurrency - 1 /\ i < PoolSize(c)
    BY <1>2, <1>7, Numbers, RoundtripAssumption DEF ChunkOf
  <2>2. i \in Worker /\ claim'[c][i] = i
    BY <1>3, <2>1 DEF Worker
  <2> QED BY <2>2
<1>8. \A w \in Pool(c) : claim'[c][w] # None
  BY <1>3, Numbers DEF Pool, None
<1>9. \A w \in Worker : claim'[c][w] # Rejected
  BY <1>5
<1> QED BY <1>2, <1>4, <1>6, <1>7, <1>8, <1>9

\* What is not touched keeps its part of the invariant.
LEMMA OthersStep ==
  ASSUME NEW d \in Call, Loops(d), outcome'[d] = outcome[d], loop'[d] = loop[d],
         next'[d] = next[d], claim'[d] = claim[d], stored'[d] = stored[d]
  PROVE  Loops(d)'
  BY DEF Loops, Accounted, ChunkOf

LEMMA StartCallStep == ASSUME LoopsInv, StartCall PROVE LoopsInv'
<1>0. PICK c \in Call : c = call
  BY DEF StartCall
<1>1. /\ outcome[c] = "todo" /\ Launch(c)
      /\ outcome' = [outcome EXCEPT ![c] = "pending"] /\ UNCHANGED <<loop, stored>>
  BY <1>0 DEF StartCall
<1>2. Typed /\ Loops(c) /\ \A d \in Call : Loops(d)
  BY <1>1 DEF LoopsInv
<1>3. Typed'
  BY <1>1, <1>2, LaunchStep DEF Typed
<1>4. outcome'[c] = "pending" /\ loop'[c] = "up"
  BY <1>1, <1>2 DEF Typed, Loops
<1>5. Accounted(c)'
  BY <1>1, LaunchStep DEF Accounted, ChunkOf
<1>6. Loops(c)'
  BY <1>1, <1>4, <1>5, LaunchStep DEF Loops
<1>7. ASSUME NEW d \in Call \ {c} PROVE Loops(d)'
  <2>1. outcome'[d] = outcome[d] /\ claim'[d] = claim[d] /\ next'[d] = next[d]
    BY <1>1, <1>2, LaunchStep DEF Typed
  <2> QED BY <1>1, <1>2, <2>1, OthersStep
<1> QED BY <1>3, <1>6, <1>7 DEF LoopsInv

\* Claiming: the chunk that is taken was the next one.
LEMMA ClaimStep ==
  ASSUME LoopsInv, NEW c \in Call, NEW w \in Worker, Busy(c, w), ClaimNext(c, w)
  PROVE  /\ next' \in [Call -> Nat] /\ claim' \in [Call -> [Worker -> Int]]
         /\ \A d \in Call, v \in Worker :
              claim'[d][v] < Chunks(d) /\ (v \notin Pool(d) => claim'[d][v] = None)
         /\ \A d \in Call \ {c} : claim'[d] = claim[d] /\ next'[d] = next[d]
         /\ \A v \in Worker \ {w} : claim'[c][v] = claim[c][v]
         /\ next'[c] = next[c] + 1 /\ claim'[c][w] # Rejected
         /\ claim'[c][w] = IF next[c] < Chunks(c) THEN next[c] ELSE None
<1>1. Typed
  BY DEF LoopsInv
<1>2. /\ next'[c] = next[c] + 1 /\ next[c] \in Nat
      /\ claim'[c][w] = IF next[c] < Chunks(c) THEN next[c] ELSE None
      /\ \A v \in Worker \ {w} : claim'[c][v] = claim[c][v]
      /\ \A d \in Call \ {c} : claim'[d] = claim[d] /\ next'[d] = next[d]
  BY <1>1 DEF ClaimNext, Typed
<1>3. claim'[c][w] \in Int /\ claim'[c][w] < Chunks(c) /\ w \in Pool(c)
  BY <1>1, <1>2, Numbers DEF None, Typed, Busy
<1>4. claim' \in [Call -> [Worker -> Int]] /\ next' \in [Call -> Nat]
  BY <1>1, <1>2, Numbers DEF ClaimNext, Typed, None
<1>5. \A d \in Call, v \in Worker :
        claim'[d][v] < Chunks(d) /\ (v \notin Pool(d) => claim'[d][v] = None)
  BY <1>1, <1>2, <1>3 DEF Typed
<1>6. claim'[c][w] # Rejected
  BY <1>2, Numbers DEF None, Rejected
<1> QED BY <1>2, <1>4, <1>5, <1>6

LEMMA PutStep ==
  ASSUME LoopsInv, NEW c \in Call, NEW w \in Worker, Put(c, w)
  PROVE  LoopsInv'
<1>1. /\ Busy(c, w) /\ loop[c] = "up" /\ ClaimNext(c, w) /\ UNCHANGED <<outcome, loop>>
      /\ stored' = [stored EXCEPT ![c] = @ \cup {claim[c][w]}]
      /\ Typed /\ \A d \in Call : Loops(d)
  BY DEF Put, LoopsInv
<1>2. stored'[c] = stored[c] \cup {claim[c][w]} /\ \A d \in Call \ {c} : stored'[d] = stored[d]
  BY <1>1 DEF Typed
<1>3. Typed'
  BY <1>1, ClaimStep DEF Typed
<1>4. ASSUME outcome[c] = "pending" PROVE Accounted(c)'
  <2>1. Accounted(c) /\ next[c] \in Nat /\ Chunks(c) \in Nat
    BY <1>1, <1>4, Numbers DEF Loops, Typed
  <2>2. ASSUME NEW i \in ChunkOf(c), i < next'[c]
        PROVE  i \in stored'[c] \/ \E v \in Worker : claim'[c][v] = i
    <3>1. i \in Int /\ i < Chunks(c)
      BY <2>1, <2>2 DEF ChunkOf
    <3>2. CASE i < next[c]
      <4>1. i \in stored[c] \/ \E v \in Worker : claim[c][v] = i
        BY <2>1, <2>2, <3>2 DEF Accounted
      <4> QED BY <1>1, <1>2, <4>1, ClaimStep
    <3>3. CASE i = next[c]
      BY <1>1, <3>1, <3>3, ClaimStep
    <3>4. i <= next[c]
      <4>1. next'[c] = next[c] + 1
        BY <1>1, ClaimStep
      <4> QED BY <2>1, <2>2, <3>1, <4>1
    <3> QED BY <2>1, <3>1, <3>2, <3>3, <3>4
  <2>3. ASSUME NEW v \in Pool(c), claim'[c][v] = None PROVE Chunks(c) <= next'[c]
    <3>1. v \in Worker
      BY Numbers
    <3>2. CASE v = w
      BY <1>1, <2>1, <2>3, <3>2, ClaimStep DEF None
    <3>3. CASE v # w
      BY <1>1, <2>1, <2>3, <3>1, <3>3, ClaimStep DEF Accounted
    <3> QED BY <3>2, <3>3
  <2> QED BY <2>2, <2>3 DEF Accounted, ChunkOf
<1>5. Loops(c)'
  <2>1. outcome[c] = "pending" => \A v \in Worker : claim'[c][v] # Rejected
    BY <1>1, ClaimStep DEF Loops
  <2> QED BY <1>1, <1>4, <2>1 DEF Loops
<1>6. \A d \in Call \ {c} : Loops(d)'
  BY <1>1, <1>2, ClaimStep, OthersStep
<1> QED BY <1>3, <1>5, <1>6 DEF LoopsInv

LEMMA GetStep ==
  ASSUME LoopsInv, NEW c \in Call, NEW w \in Worker, Get(c, w)
  PROVE  LoopsInv'
<1>1. /\ Busy(c, w) /\ loop[c] = "down" /\ ClaimNext(c, w) /\ UNCHANGED <<outcome, loop, stored>>
      /\ Typed /\ \A d \in Call : Loops(d)
  BY DEF Get, LoopsInv
<1>2. Typed'
  BY <1>1, ClaimStep DEF Typed
<1>3. Loops(c)'
  <2>1. outcome[c] = "pending" => \A v \in Worker : claim'[c][v] # Rejected
    BY <1>1, ClaimStep DEF Loops
  <2> QED BY <1>1, <2>1 DEF Loops, ChunkOf
<1>4. \A d \in Call \ {c} : Loops(d)'
  BY <1>1, ClaimStep, OthersStep
<1> QED BY <1>2, <1>3, <1>4 DEF LoopsInv

LEMMA FailStep ==
  ASSUME LoopsInv, NEW c \in Call, NEW w \in Worker, Fail(c, w)
  PROVE  LoopsInv'
<1>1. /\ claim' = [claim EXCEPT ![c][w] = Rejected]
      /\ outcome' = [outcome EXCEPT ![c] = "failed"]
      /\ UNCHANGED <<loop, next, stored>>
      /\ Typed /\ \A d \in Call : Loops(d)
  BY DEF Fail, LoopsInv
<1>2. /\ outcome'[c] = "failed" /\ claim' \in [Call -> [Worker -> Int]]
      /\ \A d \in Call, v \in Worker : claim'[d][v] \in {claim[d][v], Rejected}
      /\ \A d \in Call \ {c} : claim'[d] = claim[d] /\ outcome'[d] = outcome[d]
  BY <1>1 DEF Typed, Rejected
<1>3. \A d \in Call : Rejected < Chunks(d)
  BY Numbers DEF Rejected
<1>4. \A d \in Call, v \in Worker :
        claim'[d][v] < Chunks(d) /\ (v \notin Pool(d) => claim'[d][v] = None)
  <2>1. w \in Pool(c)
    BY <1>1 DEF Fail, Busy, Typed, None
  <2>2. \A d \in Call, v \in Worker :
          (d = c /\ v = w) \/ claim'[d][v] = claim[d][v]
    BY <1>1 DEF Typed
  <2>3. claim'[c][w] = Rejected
    BY <1>1 DEF Typed
  <2> QED BY <1>1, <1>3, <2>1, <2>2, <2>3 DEF Typed
<1>5. Typed'
  BY <1>1, <1>2, <1>4 DEF Typed
<1>6. Loops(c)'
  BY <1>1, <1>2 DEF Loops, ChunkOf
<1>7. \A d \in Call \ {c} : Loops(d)'
  BY <1>1, <1>2, OthersStep
<1> QED BY <1>5, <1>6, <1>7 DEF LoopsInv

\* The barrier: no worker has a chunk and none is left, so all are stored.
LEMMA StartDownloadStep ==
  ASSUME LoopsInv, NEW c \in Call, StartDownload(c)
  PROVE  LoopsInv'
<1>1. /\ outcome[c] = "pending" /\ loop[c] = "up" /\ AllReturned(c) /\ Launch(c)
      /\ loop' = [loop EXCEPT ![c] = "down"] /\ UNCHANGED <<outcome, stored>>
      /\ Typed /\ \A d \in Call : Loops(d)
  BY DEF StartDownload, LoopsInv
<1>2. loop'[c] = "down" /\ \A d \in Call \ {c} : loop'[d] = loop[d]
  BY <1>1 DEF Typed
<1>3. \A w \in Pool(c) : claim[c][w] = None
  BY <1>1 DEF AllReturned, Pool
<1>4. ChunkOf(c) \subseteq stored[c]
  <2>1. Accounted(c) /\ next[c] \in Nat /\ Chunks(c) \in Nat
    BY <1>1, Numbers DEF Loops, Typed
  <2>2. Chunks(c) <= next[c]
    BY <1>3, <2>1, Numbers DEF Accounted
  <2>3. SUFFICES ASSUME NEW i \in ChunkOf(c) PROVE i \in stored[c]
    OBVIOUS
  <2>4. i \in Nat /\ i < next[c]
    BY <2>1, <2>2 DEF ChunkOf
  <2>5. ASSUME NEW w \in Worker PROVE claim[c][w] # i
    <3>1. CASE w \in Pool(c)
      BY <1>3, <2>4, <3>1 DEF None
    <3>2. CASE w \notin Pool(c)
      BY <1>1, <2>4, <3>2 DEF Typed, None
    <3> QED BY <3>1, <3>2
  <2> QED BY <2>1, <2>4, <2>5 DEF Accounted
<1>5. Typed'
  BY <1>1, LaunchStep DEF Typed
<1>6. Loops(c)'
  BY <1>1, <1>2, <1>4, LaunchStep DEF Loops, ChunkOf
<1>7. \A d \in Call \ {c} : Loops(d)'
  BY <1>1, <1>2, LaunchStep, OthersStep
<1> QED BY <1>5, <1>6, <1>7 DEF LoopsInv

LEMMA ReturnStep ==
  ASSUME LoopsInv, NEW c \in Call, Return(c)
  PROVE  LoopsInv'
<1>1. /\ loop[c] = "down" /\ outcome' = [outcome EXCEPT ![c] = "ok"]
      /\ UNCHANGED <<loop, next, claim, stored>>
      /\ Typed /\ \A d \in Call : Loops(d)
  BY DEF Return, LoopsInv
<1>2. outcome'[c] = "ok" /\ \A d \in Call \ {c} : outcome'[d] = outcome[d]
  BY <1>1 DEF Typed
<1>3. Typed'
  BY <1>1 DEF Typed
<1>4. Loops(c)'
  BY <1>1, <1>2 DEF Loops, ChunkOf
<1>5. \A d \in Call \ {c} : Loops(d)'
  BY <1>1, <1>2, OthersStep
<1> QED BY <1>3, <1>4, <1>5 DEF LoopsInv

LEMMA QuietStep ==
  ASSUME LoopsInv, UNCHANGED <<outcome, loop, next, claim, stored>>
  PROVE  LoopsInv'
<1>1. Typed'
  BY DEF LoopsInv, Typed
<1>2. \A d \in Call : Loops(d)'
  BY OthersStep DEF LoopsInv
<1> QED BY <1>1, <1>2 DEF LoopsInv

\* The induction over both loops of every call (332-380).
THEOREM RoundtripInvariant == Spec => []LoopsInv
<1>1. LoopsInv /\ [Next]_vars => LoopsInv'
  <2> SUFFICES ASSUME LoopsInv, [Next]_vars PROVE LoopsInv'
    OBVIOUS
  <2>1. ASSUME NEW c \in Call, NEW w \in Worker, Settle(c, w) PROVE LoopsInv'
    BY <2>1, PutStep, GetStep, FailStep DEF Settle
  <2>2. CASE Continue
    BY <2>2, StartCallStep, StartDownloadStep, ReturnStep, QuietStep DEF Continue, Record
  <2>3. CASE Stopped \/ UNCHANGED vars
    BY <2>3, QuietStep DEF Stopped, vars
  <2> QED BY <2>1, <2>2, <2>3 DEF Next
<1> QED BY <1>1, LoopsInit, PTL DEF Spec

\* No download asks for a chunk whose hash is not there, for any object, chunk
\* size and number of workers (344, 371).
THEOREM RoundtripFetchesStored == Spec => []FetchesStored
<1>1. LoopsInv => FetchesStored
  <2> SUFFICES ASSUME LoopsInv, NEW c \in Call, NEW w \in Worker, loop[c] = "down", Busy(c, w)
               PROVE  claim[c][w] \in stored[c]
    BY DEF FetchesStored
  <2>1. claim[c][w] \in ChunkOf(c)
    BY Numbers DEF LoopsInv, Typed, Busy, ChunkOf
  <2> QED BY <2>1 DEF LoopsInv, Loops
<1> QED BY <1>1, RoundtripInvariant, PTL
-----------------------------------------------------------------------------
(***************************************************************************)
(* A call that returns timed every chunk once, put and got.  A loop is     *)
(* described by what its workers have timed (lat), the counter they share  *)
(* (n) and what each has in flight (cl): the chunks below the counter are  *)
(* timed or in flight, and none is both, or twice.                         *)
(***************************************************************************)
Tally(c, lat, n, cl) ==
  /\ n \in Nat /\ cl \in [Worker -> -1 .. Chunks(c) - 1] /\ lat \in Seq(ChunkOf(c))
  /\ \A i, j \in DOMAIN lat : lat[i] = lat[j] => i = j
  /\ \A i \in DOMAIN lat : lat[i] < n /\ \A w \in Worker : cl[w] # lat[i]
  /\ \A v, w \in Worker : cl[v] = cl[w] /\ cl[v] # None => v = w
  /\ \A w \in Worker : cl[w] < n /\ (w \notin Pool(c) => cl[w] = None)
  /\ \A k \in ChunkOf(c) : k < n =>
       (\E i \in DOMAIN lat : lat[i] = k) \/ \E w \in Worker : cl[w] = k
  /\ \A w \in Pool(c) : cl[w] = None => Chunks(c) <= n

Idle(c) == \A w \in Worker : claim[c][w] = None

Timed(c) ==
  /\ outcome[c] = "todo" => upLat[c] = <<>> /\ dnLat[c] = <<>> /\ Idle(c)
  /\ outcome[c] = "pending" /\ loop[c] = "up" =>
       dnLat[c] = <<>> /\ Tally(c, upLat[c], next[c], claim[c])
  /\ outcome[c] = "pending" /\ loop[c] = "down" =>
       Whole(c, upLat[c]) /\ Tally(c, dnLat[c], next[c], claim[c])
  /\ outcome[c] = "ok" => Whole(c, upLat[c]) /\ Whole(c, dnLat[c]) /\ Idle(c)

Shapes ==
  /\ call \in 1 .. Len(Sizes) + 1
  /\ upLat \in [Call -> Seq(Int)] /\ dnLat \in [Call -> Seq(Int)]
  /\ \A c \in Call : stored[c] \subseteq ChunkOf(c) /\ \A w \in Worker : Rejected <= claim[c][w]

TimedInv == Shapes /\ \A c \in Call : Timed(c)

FirstClaims(c) == [w \in Worker |-> IF w < PoolSize(c) THEN w ELSE None]
NextClaim(c, n) == IF n < Chunks(c) THEN n ELSE None

-----------------------------------------------------------------------------
\* Each worker starts with a chunk of its own, nothing timed yet.
LEMMA TallyLaunch ==
  ASSUME NEW c \in Call
  PROVE  Tally(c, <<>>, PoolSize(c), FirstClaims(c))
<1>1. /\ Chunks(c) \in Nat \ {0} /\ PoolSize(c) \in Nat \ {0}
      /\ PoolSize(c) <= Chunks(c) /\ PoolSize(c) <= Concurrency /\ Concurrency \in Nat
  BY Numbers, RoundtripAssumption
<1>2. \A w \in Worker : w \in Nat /\ FirstClaims(c)[w] = IF w < PoolSize(c) THEN w ELSE None
  BY <1>1 DEF FirstClaims, Worker
<1>3. FirstClaims(c) \in [Worker -> -1 .. Chunks(c) - 1]
  BY <1>1 DEF FirstClaims, Worker, None
<1>4. <<>> \in Seq(ChunkOf(c)) /\ DOMAIN <<>> = {}
  OBVIOUS
<1>5. \A v, w \in Worker :
        FirstClaims(c)[v] = FirstClaims(c)[w] /\ FirstClaims(c)[v] # None => v = w
  BY <1>2 DEF None
<1>6. \A w \in Worker :
        FirstClaims(c)[w] < PoolSize(c) /\ (w \notin Pool(c) => FirstClaims(c)[w] = None)
  BY <1>1, <1>2 DEF None, Pool
<1>7. ASSUME NEW k \in ChunkOf(c), k < PoolSize(c)
      PROVE  \E w \in Worker : FirstClaims(c)[w] = k
  <2>1. k \in Worker
    BY <1>1, <1>7 DEF ChunkOf, Worker
  <2> QED BY <1>2, <1>7, <2>1
<1>8. \A w \in Pool(c) : FirstClaims(c)[w] # None
  BY <1>1, <1>2 DEF None, Pool, Worker
<1> HIDE DEF FirstClaims
<1> QED BY <1>1, <1>3, <1>4, <1>5, <1>6, <1>7, <1>8 DEF Tally

\* A worker times its chunk and claims the next one.
LEMMA TallyClaim ==
  ASSUME NEW c \in Call, NEW lat, NEW n, NEW cl, NEW w \in Worker,
         Tally(c, lat, n, cl), cl[w] >= 0
  PROVE  Tally(c, Append(lat, cl[w]), n + 1, [cl EXCEPT ![w] = NextClaim(c, n)])
<1> DEFINE lat2 == Append(lat, cl[w])
           cl2 == [cl EXCEPT ![w] = NextClaim(c, n)]
<1>1. Chunks(c) \in Nat \ {0}
  BY Numbers
<1>2. /\ n \in Nat /\ cl \in [Worker -> -1 .. Chunks(c) - 1] /\ lat \in Seq(ChunkOf(c))
      /\ cl[w] \in ChunkOf(c) /\ cl[w] # None /\ cl[w] < n /\ w \in Pool(c)
  BY <1>1 DEF Tally, ChunkOf, None
<1>3. /\ cl2 \in [Worker -> -1 .. Chunks(c) - 1] /\ cl2[w] = NextClaim(c, n)
      /\ \A v \in Worker \ {w} : cl2[v] = cl[v]
      /\ NextClaim(c, n) \in {n, None} /\ NextClaim(c, n) < n + 1
  BY <1>1, <1>2 DEF NextClaim, None
<1>4. /\ lat2 \in Seq(ChunkOf(c)) /\ Len(lat) \in Nat /\ DOMAIN lat = 1 .. Len(lat)
      /\ DOMAIN lat2 = 1 .. Len(lat) + 1 /\ lat2[Len(lat) + 1] = cl[w]
      /\ \A i \in DOMAIN lat : lat2[i] = lat[i]
  BY <1>2
<1>5. \A i \in DOMAIN lat2 : i \in DOMAIN lat \/ i = Len(lat) + 1
  BY <1>4
<1>6. \A i \in DOMAIN lat : lat[i] \in Int /\ lat[i] < n /\ lat[i] # cl[w] /\ lat[i] >= 0
  BY <1>1, <1>2, <1>4 DEF Tally, ChunkOf
<1> HIDE DEF lat2, cl2
<1>7. \A i, j \in DOMAIN lat2 : lat2[i] = lat2[j] => i = j
  <2> SUFFICES ASSUME NEW i \in DOMAIN lat2, NEW j \in DOMAIN lat2, lat2[i] = lat2[j]
               PROVE  i = j
    OBVIOUS
  <2>1. CASE i \in DOMAIN lat /\ j \in DOMAIN lat
    BY <1>4, <2>1 DEF Tally
  <2>2. CASE i = Len(lat) + 1 \/ j = Len(lat) + 1
    BY <1>4, <1>5, <1>6, <2>2
  <2> QED BY <1>5, <2>1, <2>2
<1>8. \A i \in DOMAIN lat2 : lat2[i] < n + 1 /\ \A v \in Worker : cl2[v] # lat2[i]
  <2> SUFFICES ASSUME NEW i \in DOMAIN lat2
               PROVE  lat2[i] < n + 1 /\ \A v \in Worker : cl2[v] # lat2[i]
    OBVIOUS
  <2>0. cl[w] \in Int /\ cl[w] >= 0
    BY <1>1, <1>2 DEF ChunkOf
  <2>1. lat2[i] \in Int /\ lat2[i] >= 0 /\ lat2[i] < n
    BY <1>2, <1>4, <1>5, <1>6, <2>0
  <2>2. cl2[w] # lat2[i]
    BY <1>2, <1>3, <2>1 DEF None
  <2>3. ASSUME NEW v \in Worker \ {w} PROVE cl2[v] # lat2[i]
    <3>1. CASE i \in DOMAIN lat
      BY <1>3, <1>4, <3>1 DEF Tally
    <3>2. CASE i = Len(lat) + 1
      BY <1>2, <1>3, <1>4, <3>2 DEF Tally
    <3> QED BY <1>5, <3>1, <3>2
  <2> QED BY <1>2, <2>1, <2>2, <2>3
<1>9. \A u, v \in Worker : cl2[u] = cl2[v] /\ cl2[u] # None => u = v
  <2>1. \A v \in Worker : cl[v] # n
    BY <1>2 DEF Tally
  <2> QED BY <1>3, <2>1 DEF Tally
<1>10. \A v \in Worker : cl2[v] < n + 1 /\ (v \notin Pool(c) => cl2[v] = None)
  <2>1. \A v \in Worker : cl[v] \in Int /\ cl[v] < n
    BY <1>2 DEF Tally
  <2> QED BY <1>2, <1>3, <2>1 DEF Tally
<1>11. ASSUME NEW k \in ChunkOf(c), k < n + 1
       PROVE  (\E i \in DOMAIN lat2 : lat2[i] = k) \/ \E v \in Worker : cl2[v] = k
  <2>1. k \in Int /\ k < Chunks(c) /\ k >= 0
    BY <1>1 DEF ChunkOf
  <2>2. CASE k = n
    BY <1>3, <2>1, <2>2 DEF NextClaim
  <2>3. CASE k < n
    <3>1. CASE \E i \in DOMAIN lat : lat[i] = k
      BY <1>4, <3>1
    <3>2. CASE \E v \in Worker : cl[v] = k
      <4>1. PICK v \in Worker : cl[v] = k
        BY <3>2
      <4>2. CASE v = w
        BY <1>4, <4>1, <4>2
      <4>3. CASE v # w
        BY <1>3, <4>1, <4>3
      <4> QED BY <4>2, <4>3
    <3> QED BY <2>3, <3>1, <3>2 DEF Tally
  <2> QED BY <1>2, <1>11, <2>1, <2>2, <2>3
<1>12. ASSUME NEW v \in Pool(c), cl2[v] = None PROVE Chunks(c) <= n + 1
  <2>1. v \in Worker
    BY Numbers
  <2>2. CASE v = w
    BY <1>1, <1>2, <1>3, <1>12, <2>2 DEF NextClaim, None
  <2>3. CASE v # w
    BY <1>1, <1>2, <1>3, <1>12, <2>1, <2>3 DEF Tally
  <2> QED BY <2>2, <2>3
<1>13. n + 1 \in Nat
  BY <1>2
<1>14. Tally(c, lat2, n + 1, cl2)
  BY <1>3, <1>4, <1>7, <1>8, <1>9, <1>10, <1>11, <1>12, <1>13 DEF Tally
<1> QED BY <1>14 DEF lat2, cl2

\* The sizes of intervals of chunks and of operations.
LEMMA IntervalSizes ==
  ASSUME NEW n \in Nat
  PROVE  /\ IsFiniteSet(1 .. n) /\ Cardinality(1 .. n) = n
         /\ IsFiniteSet(0 .. n - 1) /\ Cardinality(0 .. n - 1) = n
<1>1. /\ IsFiniteSet(1 .. n) /\ IsFiniteSet(0 .. n - 1)
      /\ Cardinality(1 .. n) = IF 1 > n THEN 0 ELSE n - 1 + 1
      /\ Cardinality(0 .. n - 1) = IF 0 > n - 1 THEN 0 ELSE n - 1 - 0 + 1
  <2>1. 0 \in Int /\ 1 \in Int /\ n \in Int /\ n - 1 \in Int
    OBVIOUS
  <2> QED BY <2>1, FS_Interval, Zenon
<1>2. CASE n = 0
  BY <1>1, <1>2
<1>3. CASE n > 0
  BY <1>1, <1>3
<1> QED BY <1>2, <1>3

\* All workers have returned: every chunk is timed, and none twice, so there
\* are as many times as chunks.
LEMMA TallyDone ==
  ASSUME NEW c \in Call, NEW lat, NEW n, NEW cl, Tally(c, lat, n, cl),
         \A w \in Pool(c) : cl[w] = None
  PROVE  Whole(c, lat) /\ \A w \in Worker : cl[w] = None
<1>1. Chunks(c) \in Nat \ {0} /\ n \in Nat /\ lat \in Seq(ChunkOf(c)) /\ Chunks(c) <= n
  BY Numbers DEF Tally
<1>2. \A w \in Worker : cl[w] = None
  BY DEF Tally
<1>3. \A k \in ChunkOf(c) : \E i \in DOMAIN lat : lat[i] = k
  <2> SUFFICES ASSUME NEW k \in ChunkOf(c) PROVE \E i \in DOMAIN lat : lat[i] = k
    OBVIOUS
  <2>1. k < n /\ k # None
    BY <1>1 DEF ChunkOf, None
  <2> QED BY <1>2, <2>1 DEF Tally
<1>4. /\ Len(lat) \in Nat /\ DOMAIN lat = 1 .. Len(lat)
      /\ lat \in [1 .. Len(lat) -> ChunkOf(c)]
  BY <1>1
<1>5. {lat[i] : i \in DOMAIN lat} = ChunkOf(c)
  BY <1>3, <1>4
<1>6. lat \in Bijection(1 .. Len(lat), ChunkOf(c))
  BY <1>3, <1>4 DEF Tally, Bijection, Injection, Surjection, IsInjective
<1>7. /\ IsFiniteSet(1 .. Len(lat)) /\ Cardinality(1 .. Len(lat)) = Len(lat)
      /\ IsFiniteSet(ChunkOf(c)) /\ Cardinality(ChunkOf(c)) = Chunks(c)
  BY <1>1, <1>4, IntervalSizes DEF ChunkOf
<1>8. Len(lat) = Chunks(c)
  <2>1. ExistsBijection(1 .. Len(lat), ChunkOf(c))
    BY <1>6 DEF ExistsBijection
  <2> QED BY <1>7, <2>1, FS_Bijection
<1> QED BY <1>2, <1>5, <1>8 DEF Whole, ChunkOf
-----------------------------------------------------------------------------
\* A call that no action touches.
LEMMA TimedOthers ==
  ASSUME NEW d \in Call, Timed(d), outcome'[d] = outcome[d], loop'[d] = loop[d],
         next'[d] = next[d], claim'[d] = claim[d], upLat'[d] = upLat[d], dnLat'[d] = dnLat[d]
  PROVE  Timed(d)'
  BY DEF Timed, Idle, Tally, Whole

LEMMA TimedInit == Init => TimedInv
<1> SUFFICES ASSUME Init PROVE TimedInv
  OBVIOUS
<1>1. Len(Sizes) \in Nat /\ \A c \in Call : Chunks(c) \in Nat
  BY Numbers, RoundtripAssumption
<1>2. Shapes
  BY <1>1 DEF Init, Shapes, None, Rejected
<1>3. \A c \in Call : Timed(c)
  BY DEF Init, Timed, Idle
<1> QED BY <1>2, <1>3 DEF TimedInv

\* A launch leaves the loop's workers in the state TallyLaunch describes.
LEMMA LaunchTally ==
  ASSUME LoopsInv, NEW c \in Call, Launch(c)
  PROVE  /\ Tally(c, <<>>, next'[c], claim'[c])
         /\ \A w \in Worker : Rejected <= claim'[c][w]
<1>1. next'[c] = PoolSize(c) /\ claim'[c] = FirstClaims(c)
  BY DEF Launch, FirstClaims, LoopsInv, Typed
<1>2. Tally(c, <<>>, next'[c], claim'[c])
  BY <1>1, TallyLaunch
<1>3. \A w \in Worker : claim'[c][w] \in -1 .. Chunks(c) - 1
  BY <1>2 DEF Tally
<1> QED BY <1>2, <1>3, Numbers DEF Rejected

LEMMA TimedStartCall == ASSUME LoopsInv, TimedInv, StartCall PROVE TimedInv'
<1>0. PICK c \in Call : c = call
  BY DEF StartCall
<1>1. /\ outcome[c] = "todo" /\ Launch(c)
      /\ outcome' = [outcome EXCEPT ![c] = "pending"]
      /\ UNCHANGED <<call, loop, stored, upLat, dnLat>>
      /\ Typed /\ Loops(c) /\ Shapes /\ \A d \in Call : Timed(d)
  BY <1>0 DEF StartCall, LoopsInv, TimedInv
<1>2. /\ outcome'[c] = "pending" /\ loop'[c] = "up"
      /\ \A d \in Call \ {c} : outcome'[d] = outcome[d]
  BY <1>1 DEF Typed, Loops
<1>3. Timed(c)'
  <2>1. upLat'[c] = <<>> /\ dnLat'[c] = <<>>
    BY <1>1 DEF Timed
  <2>2. Tally(c, upLat'[c], next'[c], claim'[c])
    BY <1>1, <2>1, LaunchTally
  <2>3. Tally(c, upLat[c], next[c], claim[c])'
    BY <2>2 DEF Tally
  <2> QED BY <1>2, <2>1, <2>3 DEF Timed
<1>4. \A d \in Call \ {c} : Timed(d)'
  BY <1>1, <1>2, LaunchStep, TimedOthers
<1>5. Shapes'
  BY <1>1, LaunchStep, LaunchTally DEF Shapes
<1> QED BY <1>3, <1>4, <1>5 DEF TimedInv

\* A claim, seen through NextClaim.
LEMMA ClaimTally ==
  ASSUME LoopsInv, Shapes, NEW c \in Call, NEW w \in Worker, Busy(c, w), ClaimNext(c, w)
  PROVE  /\ next'[c] = next[c] + 1 /\ claim'[c] = [claim[c] EXCEPT ![w] = NextClaim(c, next[c])]
         /\ \A d \in Call, v \in Worker : Rejected <= claim'[d][v]
         /\ \A d \in Call \ {c} : claim'[d] = claim[d] /\ next'[d] = next[d]
         /\ claim[c][w] \in ChunkOf(c) /\ claim[c] \in [Worker -> Int]
<1>1. /\ next'[c] = next[c] + 1 /\ next[c] \in Nat
      /\ claim'[c] = [claim[c] EXCEPT ![w] = NextClaim(c, next[c])]
      /\ claim[c] \in [Worker -> Int]
      /\ \A d \in Call \ {c} : claim'[d] = claim[d] /\ next'[d] = next[d]
  BY DEF ClaimNext, NextClaim, LoopsInv, Typed
<1>2. \A v \in Worker : Rejected <= claim'[c][v]
  <2>1. NextClaim(c, next[c]) \in Int /\ Rejected <= NextClaim(c, next[c])
    BY <1>1, Numbers DEF NextClaim, None, Rejected
  <2>2. claim'[c][w] = NextClaim(c, next[c]) /\ \A v \in Worker \ {w} : claim'[c][v] = claim[c][v]
    BY <1>1
  <2> QED BY <2>1, <2>2 DEF Shapes
<1>3. \A d \in Call, v \in Worker : Rejected <= claim'[d][v]
  BY <1>1, <1>2 DEF Shapes
<1>4. claim[c][w] \in ChunkOf(c)
  BY Numbers DEF LoopsInv, Typed, Busy, ChunkOf
<1> QED BY <1>1, <1>3, <1>4

\* A chunk that was put, got or failed moves from the claims to the counts.
LEMMA TimedPut ==
  ASSUME LoopsInv, TimedInv, NEW c \in Call, NEW w \in Worker, Put(c, w)
  PROVE  TimedInv'
<1>1. /\ Busy(c, w) /\ loop[c] = "up" /\ ClaimNext(c, w)
      /\ stored' = [stored EXCEPT ![c] = @ \cup {claim[c][w]}]
      /\ upLat' = [upLat EXCEPT ![c] = Append(@, claim[c][w])]
      /\ UNCHANGED <<call, outcome, loop, dnLat>>
      /\ Typed /\ Loops(c) /\ Shapes /\ \A d \in Call : Timed(d)
  BY DEF Put, LoopsInv, TimedInv
<1>2. /\ upLat'[c] = Append(upLat[c], claim[c][w]) /\ stored'[c] = stored[c] \cup {claim[c][w]}
      /\ \A d \in Call \ {c} : upLat'[d] = upLat[d] /\ stored'[d] = stored[d]
  BY <1>1 DEF Typed, Shapes
<1>3. claim[c][w] >= 0 /\ claim[c][w] # None
  BY <1>1 DEF Busy, None
<1>4. Timed(c)'
  <2>1. CASE outcome[c] = "pending"
    <3>1. dnLat[c] = <<>> /\ Tally(c, upLat[c], next[c], claim[c])
      BY <1>1, <2>1 DEF Timed
    <3>2. Tally(c, upLat'[c], next'[c], claim'[c])
      <4>1. Tally(c, Append(upLat[c], claim[c][w]), next[c] + 1,
                  [claim[c] EXCEPT ![w] = NextClaim(c, next[c])])
        BY <1>3, <3>1, TallyClaim
      <4>2. /\ next'[c] = next[c] + 1
            /\ claim'[c] = [claim[c] EXCEPT ![w] = NextClaim(c, next[c])]
        BY <1>1, ClaimTally
      <4> QED BY <1>2, <4>1, <4>2
    <3>3. Tally(c, upLat[c], next[c], claim[c])'
      BY <3>2 DEF Tally
    <3> QED BY <1>1, <2>1, <3>1, <3>3 DEF Timed
  <2>2. CASE outcome[c] # "pending"
    <3>1. outcome[c] # "todo" /\ outcome[c] # "ok"
      BY <1>1, <1>3 DEF Timed, Idle
    <3> QED BY <1>1, <2>2, <3>1 DEF Timed
  <2> QED BY <2>1, <2>2
<1>5. \A d \in Call \ {c} : Timed(d)'
  BY <1>1, <1>2, ClaimTally, TimedOthers
<1>6. Shapes'
  <2>1. claim[c][w] \in ChunkOf(c) /\ claim[c][w] \in Int /\ upLat[c] \in Seq(Int)
    BY <1>1, ClaimTally DEF Shapes, Typed
  <2>2. upLat' \in [Call -> Seq(Int)]
    BY <1>1, <2>1 DEF Shapes
  <2>3. \A d \in Call : stored'[d] \subseteq ChunkOf(d)
    BY <1>1, <1>2, <2>1 DEF Shapes
  <2>4. \A d \in Call, v \in Worker : Rejected <= claim'[d][v]
    BY <1>1, ClaimTally
  <2> QED BY <1>1, <2>2, <2>3, <2>4 DEF Shapes, ChunkOf
<1> QED BY <1>4, <1>5, <1>6 DEF TimedInv

LEMMA TimedGet ==
  ASSUME LoopsInv, TimedInv, NEW c \in Call, NEW w \in Worker, Get(c, w)
  PROVE  TimedInv'
<1>1. /\ Busy(c, w) /\ loop[c] = "down" /\ ClaimNext(c, w)
      /\ dnLat' = [dnLat EXCEPT ![c] = Append(@, claim[c][w])]
      /\ UNCHANGED <<call, outcome, loop, stored, upLat>>
      /\ Typed /\ Loops(c) /\ Shapes /\ \A d \in Call : Timed(d)
  BY DEF Get, LoopsInv, TimedInv
<1>2. /\ dnLat'[c] = Append(dnLat[c], claim[c][w])
      /\ \A d \in Call \ {c} : dnLat'[d] = dnLat[d]
  BY <1>1 DEF Shapes
<1>3. claim[c][w] >= 0 /\ claim[c][w] # None
  BY <1>1 DEF Busy, None
<1>4. Timed(c)'
  <2>1. CASE outcome[c] = "pending"
    <3>1. Whole(c, upLat[c]) /\ Tally(c, dnLat[c], next[c], claim[c])
      BY <1>1, <2>1 DEF Timed
    <3>2. Tally(c, dnLat'[c], next'[c], claim'[c])
      <4>1. Tally(c, Append(dnLat[c], claim[c][w]), next[c] + 1,
                  [claim[c] EXCEPT ![w] = NextClaim(c, next[c])])
        BY <1>3, <3>1, TallyClaim
      <4>2. /\ next'[c] = next[c] + 1
            /\ claim'[c] = [claim[c] EXCEPT ![w] = NextClaim(c, next[c])]
        BY <1>1, ClaimTally
      <4> QED BY <1>2, <4>1, <4>2
    <3>3. Tally(c, dnLat[c], next[c], claim[c])'
      BY <3>2 DEF Tally
    <3>4. Whole(c, upLat[c])'
      BY <1>1, <3>1 DEF Whole
    <3> QED BY <1>1, <2>1, <3>3, <3>4 DEF Timed
  <2>2. CASE outcome[c] # "pending"
    <3>1. outcome[c] # "todo" /\ outcome[c] # "ok"
      BY <1>1, <1>3 DEF Timed, Idle
    <3> QED BY <1>1, <2>2, <3>1 DEF Timed
  <2> QED BY <2>1, <2>2
<1>5. \A d \in Call \ {c} : Timed(d)'
  BY <1>1, <1>2, ClaimTally, TimedOthers
<1>6. Shapes'
  <2>1. claim[c][w] \in Int /\ dnLat[c] \in Seq(Int)
    BY <1>1 DEF Shapes, Typed
  <2>2. dnLat' \in [Call -> Seq(Int)]
    BY <1>1, <2>1 DEF Shapes
  <2>3. \A d \in Call, v \in Worker : Rejected <= claim'[d][v]
    BY <1>1, ClaimTally
  <2> QED BY <1>1, <2>2, <2>3 DEF Shapes, ChunkOf
<1> QED BY <1>4, <1>5, <1>6 DEF TimedInv

\* A call that failed promises nothing of its times; the others are untouched.
LEMMA TimedFail ==
  ASSUME LoopsInv, TimedInv, NEW c \in Call, NEW w \in Worker, Fail(c, w)
  PROVE  TimedInv'
<1>1. /\ claim' = [claim EXCEPT ![c][w] = Rejected]
      /\ outcome' = [outcome EXCEPT ![c] = "failed"]
      /\ UNCHANGED <<call, loop, next, stored, upLat, dnLat>>
      /\ Typed /\ Shapes /\ \A d \in Call : Timed(d)
  BY DEF Fail, LoopsInv, TimedInv
<1>2. /\ outcome'[c] = "failed"
      /\ \A d \in Call \ {c} : outcome'[d] = outcome[d] /\ claim'[d] = claim[d]
      /\ \A d \in Call, v \in Worker : claim'[d][v] = claim[d][v] \/ claim'[d][v] = Rejected
  BY <1>1 DEF Typed
<1>3. Timed(c)'
  BY <1>2 DEF Timed
<1>4. \A d \in Call \ {c} : Timed(d)'
  BY <1>1, <1>2, TimedOthers
<1>5. Shapes'
  BY <1>1, <1>2 DEF Shapes, ChunkOf, Rejected
<1> QED BY <1>3, <1>4, <1>5 DEF TimedInv

\* The barrier: every chunk is timed in "up", and the download starts at none.
LEMMA TimedStartDownload ==
  ASSUME LoopsInv, TimedInv, NEW c \in Call, StartDownload(c)
  PROVE  TimedInv'
<1>1. /\ outcome[c] = "pending" /\ loop[c] = "up" /\ AllReturned(c) /\ Launch(c)
      /\ loop' = [loop EXCEPT ![c] = "down"]
      /\ UNCHANGED <<call, outcome, stored, upLat, dnLat>>
      /\ Typed /\ Shapes /\ \A d \in Call : Timed(d)
  BY DEF StartDownload, LoopsInv, TimedInv
<1>2. loop'[c] = "down" /\ \A d \in Call \ {c} : loop'[d] = loop[d]
  BY <1>1 DEF Typed
<1>3. dnLat[c] = <<>> /\ Tally(c, upLat[c], next[c], claim[c])
  BY <1>1 DEF Timed
<1>4. Whole(c, upLat[c])
  <2>1. \A w \in Pool(c) : claim[c][w] = None
    BY <1>1 DEF AllReturned, Pool
  <2> QED BY <1>3, <2>1, TallyDone
<1>5. Timed(c)'
  <2>1. Tally(c, dnLat'[c], next'[c], claim'[c])
    BY <1>1, <1>3, LaunchTally
  <2>2. Tally(c, dnLat[c], next[c], claim[c])' /\ Whole(c, upLat[c])'
    BY <1>1, <1>4, <2>1 DEF Tally, Whole
  <2> QED BY <1>1, <1>2, <2>2 DEF Timed
<1>6. \A d \in Call \ {c} : Timed(d)'
  BY <1>1, <1>2, LaunchStep, TimedOthers
<1>7. Shapes'
  BY <1>1, LaunchStep, LaunchTally DEF Shapes, ChunkOf
<1> QED BY <1>5, <1>6, <1>7 DEF TimedInv

LEMMA TimedReturn ==
  ASSUME LoopsInv, TimedInv, NEW c \in Call, Return(c)
  PROVE  TimedInv'
<1>1. /\ outcome[c] = "pending" /\ loop[c] = "down" /\ AllReturned(c)
      /\ outcome' = [outcome EXCEPT ![c] = "ok"]
      /\ UNCHANGED <<call, loop, next, claim, stored, upLat, dnLat>>
      /\ Typed /\ Shapes /\ \A d \in Call : Timed(d)
  BY DEF Return, LoopsInv, TimedInv
<1>2. outcome'[c] = "ok" /\ \A d \in Call \ {c} : outcome'[d] = outcome[d]
  BY <1>1 DEF Typed
<1>3. Whole(c, upLat[c]) /\ Tally(c, dnLat[c], next[c], claim[c])
  BY <1>1 DEF Timed
<1>4. Whole(c, dnLat[c]) /\ \A w \in Worker : claim[c][w] = None
  <2>1. \A w \in Pool(c) : claim[c][w] = None
    BY <1>1 DEF AllReturned, Pool
  <2> QED BY <1>3, <2>1, TallyDone
<1>5. Timed(c)'
  BY <1>1, <1>2, <1>3, <1>4 DEF Timed, Idle, Whole
<1>6. \A d \in Call \ {c} : Timed(d)'
  BY <1>1, <1>2, TimedOthers
<1>7. Shapes'
  BY <1>1 DEF Shapes, ChunkOf
<1> QED BY <1>5, <1>6, <1>7 DEF TimedInv

LEMMA TimedRecord == ASSUME LoopsInv, TimedInv, Record PROVE TimedInv'
<1>1. /\ call \in Call /\ call' = call + 1
      /\ UNCHANGED <<outcome, loop, next, claim, stored, upLat, dnLat>>
      /\ Shapes /\ \A d \in Call : Timed(d)
  BY DEF Record, TimedInv
<1>2. call' \in 1 .. Len(Sizes) + 1
  <2>1. Len(Sizes) \in Nat /\ DOMAIN Sizes = 1 .. Len(Sizes)
    BY RoundtripAssumption
  <2> QED BY <1>1, <2>1 DEF Call
<1>3. Shapes'
  BY <1>1, <1>2 DEF Shapes, ChunkOf
<1> QED BY <1>1, <1>3, TimedOthers DEF TimedInv

LEMMA TimedQuiet ==
  ASSUME TimedInv, UNCHANGED <<call, outcome, loop, next, claim, stored, upLat, dnLat>>
  PROVE  TimedInv'
<1>1. Shapes'
  BY DEF TimedInv, Shapes, ChunkOf
<1> QED BY <1>1, TimedOthers DEF TimedInv

\* The induction over what each loop has timed and has in flight (336-380).
THEOREM RoundtripTimes == Spec => []TimedInv
<1>1. LoopsInv /\ TimedInv /\ [Next]_vars => TimedInv'
  <2> SUFFICES ASSUME LoopsInv, TimedInv, [Next]_vars PROVE TimedInv'
    OBVIOUS
  <2>1. ASSUME NEW c \in Call, NEW w \in Worker, Settle(c, w) PROVE TimedInv'
    BY <2>1, TimedPut, TimedGet, TimedFail DEF Settle
  <2>2. CASE Continue
    BY <2>2, TimedStartCall, TimedStartDownload, TimedReturn, TimedRecord DEF Continue
  <2>3. CASE Stopped \/ UNCHANGED vars
    BY <2>3, TimedQuiet DEF Stopped, vars
  <2> QED BY <2>1, <2>2, <2>3 DEF Next
<1> QED BY <1>1, TimedInit, RoundtripInvariant, PTL DEF Spec

\* A call that returns a throughput has put every chunk of its object once and
\* got every chunk once, and has nothing in flight, for any sizes, chunk size
\* and number of workers (356, 377).
THEOREM RoundtripOkIsWhole == Spec => []OkIsWhole
<1>1. LoopsInv /\ TimedInv => OkIsWhole
  <2> SUFFICES ASSUME LoopsInv, TimedInv PROVE OkIsWhole
    OBVIOUS
  <2>1. TypeOK
    <3>1. ASSUME NEW c \in Call, NEW w \in Worker PROVE claim[c][w] \in -2 .. Chunks(c) - 1
      BY Numbers DEF LoopsInv, Typed, TimedInv, Shapes, Rejected
    <3> QED BY <3>1 DEF LoopsInv, Typed, TimedInv, Shapes, TypeOK, ChunkOf
  <2>2. ASSUME NEW c \in Call, outcome[c] = "ok"
        PROVE  Whole(c, upLat[c]) /\ Whole(c, dnLat[c]) /\ \A w \in Worker : ~Busy(c, w)
    BY <2>2 DEF TimedInv, Timed, Idle, Busy, None
  <2> QED BY <2>1, <2>2 DEF OkIsWhole
<1> QED BY <1>1, RoundtripInvariant, RoundtripTimes, PTL

(***************************************************************************)
(* CanonicalProfile: sorting, the recursion, the texts and what they tell. *)
(***************************************************************************)
\* What sorting promises: the members of M, each once, by ascending keys.
IsByKey(l, M) ==
  /\ l \in Seq(M) /\ {l[i] : i \in DOMAIN l} = M
  /\ \A i, j \in DOMAIN l : i < j => l[i][1] < l[j][1]

Members(s, I) == {s[j] : j \in I}

\* ByKey sorts: the members below each are as many as its place says.
LEMMA ByKeyIs ==
  ASSUME NEW s \in Seq(Keys \X Values), NEW I \in SUBSET DOMAIN s,
         \A i, j \in DOMAIN s : s[i][1] = s[j][1] => i = j
  PROVE  IsByKey(ByKey(s, I), Members(s, I))
<1> DEFINE below(j) == {k \in I : s[k][1] < s[j][1]}
           rank(j) == Cardinality(below(j))
           n == Cardinality(I)
           R == {rank(j) : j \in I}
           f == [j \in I |-> rank(j)]
<1>1. IsFiniteSet(I) /\ n \in Nat
  <2>1. DOMAIN s = 1 .. Len(s) /\ Len(s) \in Nat
    BY LenProperties
  <2>2. IsFiniteSet(DOMAIN s)
    BY <2>1, FS_Interval
  <2> QED BY <2>2, FS_Subset, FS_CardinalityType
<1>2. \A j \in I : s[j] \in Keys \X Values /\ s[j][1] \in Int
  BY DEF Keys
<1>3. \A j \in I : IsFiniteSet(below(j)) /\ rank(j) \in Nat
  BY <1>1, FS_Subset, FS_CardinalityType
<1>4. ASSUME NEW i \in I, NEW j \in I, s[i][1] < s[j][1] PROVE rank(i) < rank(j)
  <2>1. below(i) \subseteq below(j) \ {i} /\ i \in below(j)
    BY <1>2, <1>4
  <2>2. IsFiniteSet(below(j) \ {i}) /\ Cardinality(below(j) \ {i}) = rank(j) - 1
    BY <1>3, <2>1, FS_RemoveElement
  <2> HIDE DEF below
  <2>3. rank(i) <= rank(j) - 1
    BY <2>1, <2>2, FS_Subset
  <2> QED BY <1>3, <2>3
<1>5. \A i, j \in I : rank(i) = rank(j) => i = j
  <2> SUFFICES ASSUME NEW i \in I, NEW j \in I, rank(i) = rank(j), i # j PROVE FALSE
    OBVIOUS
  <2>1. s[i][1] < s[j][1] \/ s[j][1] < s[i][1]
    BY <1>2
  <2>2. rank(i) < rank(j) \/ rank(j) < rank(i)
    BY <1>4, <2>1, Zenon
  <2>3. rank(i) \in Nat
    BY <1>3, Zenon
  <2> HIDE DEF rank
  <2> QED BY <2>2, <2>3
<1>6. ASSUME NEW j \in I PROVE rank(j) \in 0 .. n - 1
  <2>1. below(j) \subseteq I \ {j}
    BY <1>2
  <2>2. IsFiniteSet(I \ {j}) /\ Cardinality(I \ {j}) = n - 1
    BY <1>1, FS_RemoveElement
  <2> HIDE DEF below
  <2>3. rank(j) <= n - 1
    BY <2>1, <2>2, FS_Subset
  <2> QED BY <1>1, <1>3, <2>3
<1>7. R = 0 .. n - 1
  <2>1. f \in Bijection(I, R)
    <3> HIDE DEF rank
    <3> QED BY <1>5 DEF Bijection, Injection, Surjection, IsInjective
  <2>2. IsFiniteSet(R) /\ Cardinality(R) = n
    <3> HIDE DEF f, R
    <3>1. ExistsBijection(I, R)
      BY <2>1 DEF ExistsBijection
    <3> QED BY <1>1, <3>1, FS_Bijection
  <2>3. R \subseteq 0 .. n - 1
    BY <1>6
  <2>4. IsFiniteSet(0 .. n - 1) /\ Cardinality(0 .. n - 1) = n
    <3>1. PICK z \in Int : z = n - 1 /\ (IF 0 > z THEN 0 ELSE z - 0 + 1) = n
      BY <1>1
    <3>2. /\ IsFiniteSet(0 .. z)
          /\ Cardinality(0 .. z) = IF 0 > z THEN 0 ELSE z - 0 + 1
      BY FS_Interval
    <3> QED BY <3>1, <3>2, Zenon
  <2> HIDE DEF R
  <2> QED BY <1>1, <2>2, <2>3, <2>4, FS_Subset
<1> DEFINE at(i) == CHOOSE j \in I : rank(j) = i - 1
           l == [i \in 1 .. n |-> s[at(i)]]
<1>8. ASSUME NEW i \in 1 .. n PROVE at(i) \in I /\ rank(at(i)) = i - 1
  <2>1. i - 1 \in R
    <3>1. i - 1 \in 0 .. n - 1
      BY <1>1
    <3> QED BY <1>7, <3>1
  <2>2. \E j \in I : rank(j) = i - 1
    BY <2>1
  <2> QED BY <2>2, Zenon
<1>9. ByKey(s, I) = l
  BY DEF ByKey
<1> HIDE DEF at, rank
<1>10. DOMAIN l = 1 .. n /\ \A i \in 1 .. n : l[i] = s[at(i)] /\ l[i] \in Members(s, I)
  BY <1>8 DEF Members
<1>11. l \in Seq(Members(s, I))
  BY <1>1, <1>10
<1> HIDE DEF l
<1>12. \A i, j \in DOMAIN l : i < j => l[i][1] < l[j][1]
  <2> SUFFICES ASSUME NEW i \in 1 .. n, NEW j \in 1 .. n, i < j PROVE l[i][1] < l[j][1]
    BY <1>10
  <2>1. /\ at(i) \in I /\ at(j) \in I /\ rank(at(i)) < rank(at(j))
        /\ rank(at(i)) \in Nat /\ rank(at(j)) \in Nat
    BY <1>3, <1>8
  <2>2. s[at(i)][1] \in Int /\ s[at(j)][1] \in Int
    BY <1>2, <2>1
  <2>3. at(i) # at(j)
    BY <2>1
  <2>4. s[at(i)][1] # s[at(j)][1]
    BY <2>1, <2>3
  <2>5. ~(s[at(j)][1] < s[at(i)][1])
    BY <1>4, <2>1
  <2>6. s[at(i)][1] < s[at(j)][1]
    BY <2>2, <2>4, <2>5
  <2> QED BY <1>10, <2>6
<1>13. \A j \in I : \E i \in DOMAIN l : l[i] = s[j]
  <2> SUFFICES ASSUME NEW j \in I PROVE \E i \in DOMAIN l : l[i] = s[j]
    OBVIOUS
  <2>1. rank(j) \in 0 .. n - 1
    BY <1>6
  <2>2. PICK r \in 0 .. n - 1 : r = rank(j)
    BY <2>1, Zenon
  <2>3. PICK i \in 1 .. n : i - 1 = rank(j)
    <3>1. r + 1 \in 1 .. n /\ (r + 1) - 1 = r
      BY <1>1
    <3>2. \E i \in 1 .. n : i - 1 = r
      BY <3>1
    <3> QED BY <2>2, <3>2
  <2>4. at(i) \in I /\ rank(at(i)) = rank(j)
    BY <1>8, <2>3
  <2>5. at(i) = j
    BY <1>5, <2>4, Zenon
  <2> QED BY <1>10, <2>5
<1>14. {l[i] : i \in DOMAIN l} = Members(s, I)
  BY <1>10, <1>13 DEF Members
<1> QED BY <1>9, <1>11, <1>12, <1>14 DEF IsByKey

\* Lists by key with the same keys have them at the same places.
LEMMA SameKeysSamePlaces ==
  ASSUME NEW l \in Seq(Keys \X Values), NEW m \in Seq(Keys \X Values),
         \A i, j \in DOMAIN l : i < j => l[i][1] < l[j][1],
         \A i, j \in DOMAIN m : i < j => m[i][1] < m[j][1],
         {l[i][1] : i \in DOMAIN l} = {m[i][1] : i \in DOMAIN m}
  PROVE  Len(l) = Len(m) /\ \A i \in DOMAIN l : l[i][1] = m[i][1]
<1>1. /\ DOMAIN l = 1 .. Len(l) /\ Len(l) \in Nat
      /\ DOMAIN m = 1 .. Len(m) /\ Len(m) \in Nat
  BY LenProperties
<1>2. \A i \in DOMAIN l : l[i][1] \in Nat
  <2> SUFFICES ASSUME NEW i \in DOMAIN l PROVE l[i][1] \in Nat
    OBVIOUS
  <2>1. l[i] \in Keys \X Values
    BY <1>1, ElementOfSeq
  <2> QED BY <2>1 DEF Keys
<1>3. \A i \in DOMAIN m : m[i][1] \in Nat
  <2> SUFFICES ASSUME NEW i \in DOMAIN m PROVE m[i][1] \in Nat
    OBVIOUS
  <2>1. m[i] \in Keys \X Values
    BY <1>1, ElementOfSeq
  <2> QED BY <2>1 DEF Keys
<1> DEFINE a(i) == l[i][1]
           b(i) == m[i][1]
<1>4. /\ \A i, j \in DOMAIN l : i < j => a(i) < a(j)
      /\ \A i, j \in DOMAIN m : i < j => b(i) < b(j)
  OBVIOUS
<1>5. \A i \in DOMAIN l : \E j \in DOMAIN m : b(j) = a(i)
  <2> SUFFICES ASSUME NEW i \in DOMAIN l PROVE \E j \in DOMAIN m : b(j) = a(i)
    OBVIOUS
  <2>1. l[i][1] \in {m[j][1] : j \in DOMAIN m}
    OBVIOUS
  <2> QED BY <2>1
<1>6. \A i \in DOMAIN m : \E j \in DOMAIN l : a(j) = b(i)
  <2> SUFFICES ASSUME NEW i \in DOMAIN m PROVE \E j \in DOMAIN l : a(j) = b(i)
    OBVIOUS
  <2>1. m[i][1] \in {l[j][1] : j \in DOMAIN l}
    OBVIOUS
  <2> QED BY <2>1
<1>7. /\ \A i \in DOMAIN l : a(i) \in Nat
      /\ \A i \in DOMAIN m : b(i) \in Nat
  BY <1>2, <1>3
<1> SUFFICES Len(l) = Len(m) /\ \A i \in DOMAIN l : a(i) = b(i)
  OBVIOUS
<1> HIDE DEF a, b
<1> DEFINE Bad == {i \in Nat : i \in DOMAIN l /\ i \in DOMAIN m /\ a(i) # b(i)}
<1>8. Bad = {}
  <2> SUFFICES ASSUME Bad # {} PROVE FALSE
    OBVIOUS
  <2>1. PICK p \in Bad : \A i \in Bad : p <= i
    <3>1. Bad \subseteq Nat
      OBVIOUS
    <3> HIDE DEF Bad
    <3> QED BY <3>1, LeastExists
  <2>2. p \in Nat /\ p \in DOMAIN l /\ p \in DOMAIN m /\ a(p) # b(p)
    BY <2>1
  <2>3. \A i \in Nat : i < p => i \notin Bad
    BY <2>1, <2>2
  <2>4. \A i \in Nat : i \in DOMAIN l /\ i < p => i \in DOMAIN m /\ a(i) = b(i)
    BY <1>1, <2>2, <2>3
  <2>5. \A i \in Nat : i \in DOMAIN m /\ i < p => i \in DOMAIN l /\ a(i) = b(i)
    BY <1>1, <2>2, <2>3
  <2> HIDE DEF Bad
  <2>6. ~(a(p) < b(p))
    <3> SUFFICES ASSUME a(p) < b(p) PROVE FALSE
      OBVIOUS
    <3>1. PICK j \in DOMAIN m : b(j) = a(p)
      BY <1>5, <2>2
    <3>2. j \in Nat
      BY <1>1
    <3>3. ~(p < j) /\ p # j
      BY <1>4, <1>7, <2>2, <3>1
    <3>4. j < p
      BY <2>2, <3>2, <3>3
    <3>5. j \in DOMAIN l /\ a(j) = b(j)
      BY <2>5, <3>2, <3>4
    <3>6. a(j) < a(p)
      BY <1>4, <2>2, <3>4, <3>5
    <3> QED BY <1>7, <2>2, <3>1, <3>5, <3>6
  <2>7. ~(b(p) < a(p))
    <3> SUFFICES ASSUME b(p) < a(p) PROVE FALSE
      OBVIOUS
    <3>1. PICK j \in DOMAIN l : a(j) = b(p)
      BY <1>6, <2>2
    <3>2. j \in Nat
      BY <1>1
    <3>3. ~(p < j) /\ p # j
      BY <1>4, <1>7, <2>2, <3>1
    <3>4. j < p
      BY <2>2, <3>2, <3>3
    <3>5. j \in DOMAIN m /\ a(j) = b(j)
      BY <2>4, <3>2, <3>4
    <3>6. b(j) < b(p)
      BY <1>4, <2>2, <3>4, <3>5
    <3> QED BY <1>7, <2>2, <3>1, <3>5, <3>6
  <2> QED BY <1>7, <2>2, <2>6, <2>7
<1>9. \A i \in DOMAIN l \cap DOMAIN m : a(i) = b(i)
  BY <1>1, <1>8
<1> HIDE DEF Bad
<1>10. ~(Len(m) < Len(l))
  <2> SUFFICES ASSUME Len(m) < Len(l) PROVE FALSE
    OBVIOUS
  <2>1. PICK i \in Nat : i = Len(m) + 1
    BY <1>1
  <2>2. i \in DOMAIN l
    BY <1>1, <2>1
  <2>3. PICK j \in DOMAIN m : b(j) = a(i)
    BY <1>5, <2>2
  <2>4. j \in DOMAIN l /\ j < i
    BY <1>1, <2>1
  <2>5. a(j) = b(j) /\ a(j) < a(i)
    BY <1>4, <1>9, <2>2, <2>3, <2>4
  <2> QED BY <1>7, <2>2, <2>3, <2>5
<1>11. ~(Len(l) < Len(m))
  <2> SUFFICES ASSUME Len(l) < Len(m) PROVE FALSE
    OBVIOUS
  <2>1. PICK i \in Nat : i = Len(l) + 1
    BY <1>1
  <2>2. i \in DOMAIN m
    BY <1>1, <2>1
  <2>3. PICK j \in DOMAIN l : a(j) = b(i)
    BY <1>6, <2>2
  <2>4. j \in DOMAIN m /\ j < i
    BY <1>1, <2>1
  <2>5. a(j) = b(j) /\ b(j) < b(i)
    BY <1>4, <1>9, <2>2, <2>3, <2>4
  <2> QED BY <1>7, <2>2, <2>3, <2>5
<1>12. Len(l) = Len(m)
  <2>1. PICK p \in Nat, q \in Nat : p = Len(l) /\ q = Len(m)
    BY <1>1
  <2> QED BY <1>10, <1>11, <2>1
<1> QED BY <1>1, <1>9, <1>12

\* The three things that are said of a value, from what is said within it.
Step(g, v) ==
  <<JsonText([w \in Values |-> g[w][1]], v), Says([w \in Values |-> g[w][2]], v),
    Alters([w \in Values |-> g[w][3]], v)>>
Small(n) == {v \in Values : Depth[v] < n}
Walks(g, n) == g = [v \in Small(n) |-> Step(g, v)]

\* Where the values within a value are.
LEMMA Within ==
  ASSUME CanonicalAssumption, NEW v \in Values
  PROVE  /\ v[1] = "array" => \A i \in DOMAIN v[2] : v[2][i] \in Contents(v)
         /\ v[1] = "object" => \A i \in DOMAIN v[2] : v[2][i][2] \in Contents(v)
         /\ Contents(v) \subseteq Small(Depth[v]) /\ Contents(v) \subseteq Values
         /\ Depth[v] \in Nat
<1>1. ASSUME v[1] = "array" 
      PROVE  Contents(v) = {v[2][i] : i \in DOMAIN v[2]} /\ Contents(v) \subseteq Values
  <2>1. Contents(v) = {v[2][i] : i \in DOMAIN v[2]}
    BY <1>1 DEF Contents
  <2>2. v[2] \in Seq(Values)
    BY <1>1 DEF CanonicalAssumption, Leaves
  <2>3. \A i \in DOMAIN v[2] : v[2][i] \in Values
    BY <2>2, LenProperties, ElementOfSeq
  <2> QED BY <2>1, <2>3
<1>2. ASSUME v[1] = "object" 
      PROVE  Contents(v) = {v[2][i][2] : i \in DOMAIN v[2]} /\ Contents(v) \subseteq Values
  <2>1. Contents(v) = {v[2][i][2] : i \in DOMAIN v[2]}
    BY <1>2 DEF Contents
  <2>2. v[2] \in Seq(Keys \X Values)
    BY <1>2 DEF CanonicalAssumption, Leaves
  <2>3. \A i \in DOMAIN v[2] : v[2][i] \in Keys \X Values
    BY <2>2, LenProperties, ElementOfSeq
  <2>4. \A i \in DOMAIN v[2] : v[2][i][2] \in Values
    BY <2>3
  <2> QED BY <2>1, <2>4
<1>3. v[1] # "array" /\ v[1] # "object" => Contents(v) = {}
  BY DEF Contents
<1>4. Contents(v) \subseteq Values
  BY <1>1, <1>2, <1>3
<1>5. \A w \in Contents(v) : Depth[w] < Depth[v]
  BY DEF CanonicalAssumption
<1>6. Depth[v] \in Nat
  BY DEF CanonicalAssumption
<1> QED BY <1>1, <1>2, <1>4, <1>5, <1>6 DEF Small

\* The members that are written are members of the object, each at one place.
LEMMA MembersAre ==
  ASSUME CanonicalAssumption, NEW v \in Values, v[1] = "object", NEW I \in SUBSET DOMAIN v[2]
  PROVE  /\ v[2] \in Seq(Keys \X Values)
         /\ IsByKey(ByKey(v[2], I), Members(v[2], I))
         /\ ByKey(v[2], I) \in Seq(Keys \X Values)
         /\ \A i \in DOMAIN ByKey(v[2], I) : ByKey(v[2], I)[i][2] \in Contents(v)
<1>1. /\ v[2] \in Seq(Keys \X Values)
      /\ \A i, j \in DOMAIN v[2] : v[2][i][1] = v[2][j][1] => i = j
  BY DEF CanonicalAssumption, Leaves
<1>2. IsByKey(ByKey(v[2], I), Members(v[2], I))
  BY <1>1, ByKeyIs
<1>3. PICK s : s = v[2]
  OBVIOUS
<1>4. PICK l : l = ByKey(v[2], I)
  OBVIOUS
<1>5. Members(s, I) \subseteq Keys \X Values
  <2>1. \A i \in I : s[i] \in Keys \X Values
    BY <1>1, <1>3, LenProperties, ElementOfSeq
  <2> QED BY <2>1 DEF Members
<1>6. l \in Seq(Members(s, I))
  BY <1>2, <1>3, <1>4 DEF IsByKey
<1>7. l \in Seq(Keys \X Values)
  BY <1>5, <1>6, SeqMonotonic
<1>8. \A i \in DOMAIN l : l[i] \in Members(s, I)
  BY <1>6, LenProperties, ElementOfSeq
<1>9. \A i \in DOMAIN l : \E j \in I : l[i] = s[j]
  BY <1>8 DEF Members
<1>10. \A j \in I : s[j][2] \in Contents(v)
  BY <1>3, Within
<1>11. \A i \in DOMAIN l : l[i][2] \in Contents(v)
  BY <1>9, <1>10
<1> QED BY <1>1, <1>2, <1>4, <1>7, <1>11

\* They depend on nothing else.
LEMMA StepAgrees ==
  ASSUME CanonicalAssumption, NEW v \in Values, NEW g, NEW h,
         \A w \in Contents(v) : g[w] = h[w]
  PROVE  Step(g, v) = Step(h, v)
<1> DEFINE at(k, c) == [w \in Values |-> k[w][c]]
<1>1. \A c \in 1 .. 3 : \A w \in Contents(v) : at(g, c)[w] = at(h, c)[w]
  BY Within
<1>2. ASSUME NEW a, NEW b, \A w \in Contents(v) : a[w] = b[w]
      PROVE  JsonText(a, v) = JsonText(b, v) /\ Says(a, v) = Says(b, v) /\ Alters(a, v) = Alters(b, v)
  <2>1. CASE v[1] = "array"
    <3>1. \A i \in DOMAIN v[2] : a[v[2][i]] = b[v[2][i]]
      BY <1>2, <2>1, Within
    <3>2. [i \in DOMAIN v[2] |-> a[v[2][i]]] = [i \in DOMAIN v[2] |-> b[v[2][i]]]
      BY <3>1
    <3>3. JsonText(a, v) = JsonText(b, v)
      BY <2>1, <3>2, Zenon DEF JsonText
    <3>4. Says(a, v) = Says(b, v)
      BY <2>1, <3>2, Zenon DEF Says
    <3>5. Alters(a, v) = Alters(b, v)
      BY <2>1, <3>1 DEF Alters
    <3> QED BY <3>3, <3>4, <3>5
  <2>2. CASE v[1] = "object"
    <3>1. \A i \in DOMAIN v[2] : a[v[2][i][2]] = b[v[2][i][2]]
      BY <1>2, <2>2, Within
    <3>2. Present(v) \subseteq DOMAIN v[2]
      BY DEF Present
    <3>3. PICK l : l = ByKey(v[2], Present(v))
      OBVIOUS
    <3>4. \A i \in DOMAIN l : a[l[i][2]] = b[l[i][2]]
      BY <1>2, <2>2, <3>2, <3>3, MembersAre
    <3>5. [i \in DOMAIN l |-> Labelled(l[i][1], a[l[i][2]])]
            = [i \in DOMAIN l |-> Labelled(l[i][1], b[l[i][2]])]
      BY <3>4
    <3>6. ObjectText(a, l) = ObjectText(b, l)
      BY <3>5, Zenon DEF ObjectText
    <3>7. JsonText(a, v) = JsonText(b, v)
      BY <2>2, <3>3, <3>6 DEF JsonText
    <3>8. Said(a, v[2], Present(v)) = Said(b, v[2], Present(v))
      <4>1. PICK I, s : I = Present(v) /\ s = v[2]
        OBVIOUS
      <4>2. \A i \in I : a[s[i][2]] = b[s[i][2]]
        BY <3>1, <3>2, <4>1
      <4>3. Said(a, s, I) = Said(b, s, I)
        BY <4>2 DEF Said
      <4> QED BY <4>1, <4>3
    <3>9. Says(a, v) = Says(b, v)
      BY <2>2, <3>8, Zenon DEF Says
    <3>10. Alters(a, v) = Alters(b, v)
      BY <2>2, <3>1, <3>2 DEF Alters
    <3> QED BY <3>7, <3>9, <3>10
  <2>3. CASE v[1] # "array" /\ v[1] # "object"
    BY <2>3 DEF JsonText, Says, Alters
  <2> QED BY <2>1, <2>2, <2>3
<1>3. /\ JsonText(at(g, 1), v) = JsonText(at(h, 1), v)
      /\ Says(at(g, 2), v) = Says(at(h, 2), v)
      /\ Alters(at(g, 3), v) = Alters(at(h, 3), v)
  <2> HIDE DEF at
  <2> QED BY <1>1, <1>2
<1> QED BY <1>3 DEF Step

\* There is such a walk over the values up to any depth, ...
LEMMA WalkExists ==
  ASSUME CanonicalAssumption
  PROVE  \A n \in Nat : \E g : Walks(g, n)
<1> DEFINE N == {n \in Nat : \E g : Walks(g, n)}
<1>1. 0 \in N
  <2> DEFINE g == [v \in {} |-> 0]
  <2>1. Small(0) = {}
    BY DEF Small, CanonicalAssumption
  <2>2. Walks(g, 0)
    BY <2>1 DEF Walks
  <2> QED BY <2>2
<1>2. ASSUME NEW n \in Nat, n \in N PROVE n + 1 \in N
  <2>1. PICK g : Walks(g, n)
    BY <1>2
  <2> DEFINE h == [v \in Small(n + 1) |-> Step(g, v)]
  <2>2. Small(n) \subseteq Small(n + 1)
    BY DEF Small, CanonicalAssumption
  <2>3. \A v \in Small(n) : g[v] = h[v]
    <3>1. \A v \in Small(n) : g[v] = Step(g, v)
      BY <2>1, Zenon DEF Walks
    <3> QED BY <2>2, <3>1
  <2>4. \A v \in Small(n + 1) : v \in Values /\ Contents(v) \subseteq Small(n)
    <3> SUFFICES ASSUME NEW v \in Small(n + 1)
                 PROVE  v \in Values /\ Contents(v) \subseteq Small(n)
      OBVIOUS
    <3>1. v \in Values /\ Depth[v] < n + 1
      BY DEF Small
    <3>2. Contents(v) \subseteq Small(Depth[v]) /\ Depth[v] \in Nat
      BY <3>1, Within
    <3>3. Small(Depth[v]) \subseteq Small(n)
      BY <3>1, <3>2 DEF Small, CanonicalAssumption
    <3> QED BY <3>1, <3>2, <3>3
  <2> HIDE DEF h
  <2>5. \A v \in Small(n + 1) : Step(g, v) = Step(h, v)
    <3> SUFFICES ASSUME NEW v \in Small(n + 1) PROVE Step(g, v) = Step(h, v)
      OBVIOUS
    <3>1. v \in Values /\ \A w \in Contents(v) : g[w] = h[w]
      BY <2>3, <2>4
    <3> QED BY <3>1, StepAgrees
  <2>6. Walks(h, n + 1)
    BY <2>5, Zenon DEF Walks, h
  <2> QED BY <2>6
<1> HIDE DEF N
<1>3. Nat \subseteq N
  BY <1>1, <1>2, NatSet
<1> QED BY <1>3 DEF N

\* ... and a deeper one says the same of the values of both.
LEMMA WalkUnique ==
  ASSUME CanonicalAssumption, NEW m \in Nat, NEW n \in Nat, n <= m, NEW g, NEW h,
         Walks(g, n), Walks(h, m)
  PROVE  \A v \in Small(n) : g[v] = h[v]
<1>0. /\ \A v \in Small(n) : g[v] = Step(g, v)
      /\ \A v \in Small(m) : h[v] = Step(h, v)
  BY Zenon DEF Walks
<1> DEFINE N == {k \in Nat : k <= n => \A v \in Small(k) : g[v] = h[v]}
<1>1. 0 \in N
  BY DEF Small, CanonicalAssumption
<1>2. ASSUME NEW k \in Nat, k \in N PROVE k + 1 \in N
  <2> SUFFICES ASSUME k + 1 <= n, NEW v \in Small(k + 1) PROVE g[v] = h[v]
    OBVIOUS
  <2>1. \A w \in Small(k) : g[w] = h[w]
    BY <1>2
  <2>2. v \in Values /\ Depth[v] \in Nat /\ Depth[v] < k + 1
    BY DEF Small, CanonicalAssumption
  <2>3. Contents(v) \subseteq Small(k)
    <3>1. Contents(v) \subseteq Small(Depth[v])
      BY <2>2, Within
    <3>2. Small(Depth[v]) \subseteq Small(k)
      BY <2>2 DEF Small, CanonicalAssumption
    <3> QED BY <3>1, <3>2
  <2>4. v \in Small(n) /\ v \in Small(m)
    BY <2>2 DEF Small
  <2>5. Step(g, v) = Step(h, v)
    BY <2>1, <2>2, <2>3, StepAgrees
  <2> QED BY <1>0, <2>4, <2>5
<1> HIDE DEF N
<1>3. n \in N
  BY <1>1, <1>2, NatSet
<1> QED BY <1>3 DEF N

\* So there is one over all values.
LEMMA WholeWalk ==
  ASSUME CanonicalAssumption
  PROVE  \E f : f = [v \in Values |-> Step(f, v)]
<1> DEFINE W(n) == CHOOSE g : Walks(g, n)
           f == [v \in Values |-> W(Depth[v] + 1)[v]]
<1>1. \A n \in Nat : Walks(W(n), n)
  BY WalkExists
<1>2. \A v \in Values : Depth[v] \in Nat /\ Depth[v] + 1 \in Nat /\ v \in Small(Depth[v] + 1)
  BY DEF CanonicalAssumption, Small
<1> HIDE DEF W
<1>3. ASSUME NEW n \in Nat, NEW v \in Small(n) PROVE f[v] = W(n)[v]
  <2>1. v \in Values /\ Depth[v] + 1 \in Nat /\ Depth[v] + 1 <= n
    BY <1>2 DEF Small
  <2>2. \A w \in Small(Depth[v] + 1) : W(Depth[v] + 1)[w] = W(n)[w]
    BY <1>1, <2>1, WalkUnique
  <2> QED BY <1>2, <2>1, <2>2
<1> HIDE DEF f
<1>4. ASSUME NEW v \in Values PROVE W(Depth[v] + 1)[v] = Step(f, v)
  <2>1. PICK n \in Nat : n = Depth[v] + 1 /\ Depth[v] \in Nat
    BY <1>2
  <2>2. v \in Small(n) /\ Walks(W(n), n)
    BY <1>1, <1>2, <2>1
  <2>3. W(n)[v] = Step(W(n), v)
    BY <2>2, Zenon DEF Walks
  <2>4. \A w \in Contents(v) : W(n)[w] = f[w]
    <3>1. Contents(v) \subseteq Small(Depth[v])
      BY Within
    <3>2. Small(Depth[v]) \subseteq Small(n)
      BY <2>1 DEF Small, CanonicalAssumption
    <3> QED BY <1>3, <3>1, <3>2
  <2>5. Step(W(n), v) = Step(f, v)
    BY <2>4, StepAgrees
  <2> QED BY <2>1, <2>3, <2>5
<1>5. f = [v \in Values |-> Step(f, v)]
  BY <1>4, Zenon DEF f
<1> QED BY <1>5

\* So the text, the meaning and the alteration of a value are what their
\* definitions say.
LEMMA OfEachValue ==
  ASSUME CanonicalAssumption
  PROVE  \A v \in Values : /\ CanonicalJson[v] = JsonText(CanonicalJson, v)
                           /\ Meaning[v] = Says(Meaning, v)
                           /\ Altered[v] = Alters(Altered, v)
<1>1. PICK f : f = [v \in Values |-> Step(f, v)]
  BY WholeWalk
<1> DEFINE j == [w \in Values |-> f[w][1]]
           s == [w \in Values |-> f[w][2]]
           a == [w \in Values |-> f[w][3]]
<1>2. \A v \in Values : f[v] = <<JsonText(j, v), Says(s, v), Alters(a, v)>>
  BY <1>1, Zenon DEF Step
<1>3. /\ \A v \in Values : f[v][1] = JsonText(j, v)
      /\ \A v \in Values : f[v][2] = Says(s, v)
      /\ \A v \in Values : f[v][3] = Alters(a, v)
  <2> HIDE DEF j, s, a
  <2> QED BY <1>2
<1>4. /\ j = [v \in Values |-> JsonText(j, v)]
      /\ s = [v \in Values |-> Says(s, v)]
      /\ a = [v \in Values |-> Alters(a, v)]
  BY <1>3, Zenon
<1> HIDE DEF j, s, a
<1>5. CanonicalJson = [v \in Values |-> JsonText(CanonicalJson, v)]
  BY <1>4, Zenon DEF CanonicalJson
<1>6. Meaning = [v \in Values |-> Says(Meaning, v)]
  BY <1>4, Zenon DEF Meaning
<1>7. Altered = [v \in Values |-> Alters(Altered, v)]
  BY <1>4, Zenon DEF Altered
<1>8. \A v \in Values : CanonicalJson[v] = JsonText(CanonicalJson, v)
  BY <1>5, Zenon
<1>9. \A v \in Values : Meaning[v] = Says(Meaning, v)
  BY <1>6, Zenon
<1>10. \A v \in Values : Altered[v] = Alters(Altered, v)
  BY <1>7, Zenon
<1> QED BY <1>8, <1>9, <1>10, Zenon

\* f joins the texts p one after the other.
Joins(f, p) ==
  /\ f \in [0 .. Len(p) -> Seq(Nat)] /\ f[0] = <<>>
  /\ \A i \in 1 .. Len(p) : f[i] = f[i - 1] \o p[i]

\* There is such a function, ...
LEMMA JoinExists ==
  ASSUME NEW p \in Seq(Seq(Nat))
  PROVE  \E f : Joins(f, p)
<1> DEFINE P(k) == \E f \in [0 .. k -> Seq(Nat)] :
                     f[0] = <<>> /\ \A i \in 1 .. k : f[i] = f[i - 1] \o p[i]
           N == {k \in Nat : k <= Len(p) => P(k)}
<1>0. Len(p) \in Nat /\ \A i \in 1 .. Len(p) : p[i] \in Seq(Nat)
  BY LenProperties, ElementOfSeq
<1>1. P(0)
  <2> DEFINE f == [i \in 0 .. 0 |-> <<>>]
  <2>1. f \in [0 .. 0 -> Seq(Nat)] /\ f[0] = <<>> /\ \A i \in 1 .. 0 : FALSE
    BY EmptySeq
  <2> QED BY <2>1
<1>2. ASSUME NEW k \in Nat, k + 1 <= Len(p), P(k) PROVE P(k + 1)
  <2>1. PICK f \in [0 .. k -> Seq(Nat)] :
          f[0] = <<>> /\ \A i \in 1 .. k : f[i] = f[i - 1] \o p[i]
    BY <1>2
  <2> DEFINE h == [i \in 0 .. k + 1 |-> IF i = k + 1 THEN f[k] \o p[k + 1] ELSE f[i]]
  <2>2. f[k] \o p[k + 1] \in Seq(Nat)
    <3>1. f[k] \in Seq(Nat) /\ p[k + 1] \in Seq(Nat)
      BY <1>0, <1>2
    <3> QED BY <3>1, ConcatProperties
  <2>3. h \in [0 .. k + 1 -> Seq(Nat)]
    BY <2>2
  <2>4. h[0] = <<>>
    BY <2>1
  <2>5. ASSUME NEW i \in 1 .. k + 1 PROVE h[i] = h[i - 1] \o p[i]
    <3>1. CASE i = k + 1
      <4>1. h[i] = f[k] \o p[k + 1]
        BY <3>1
      <4>2. i - 1 = k /\ h[k] = f[k]
        BY <3>1
      <4>3. h[i - 1] = f[k]
        BY <4>2, Zenon
      <4> HIDE DEF h
      <4> QED BY <3>1, <4>1, <4>3, Zenon
    <3>2. CASE i # k + 1
      <4>1. i \in 1 .. k /\ h[i] = f[i] /\ h[i - 1] = f[i - 1]
        BY <3>2
      <4> HIDE DEF h
      <4> QED BY <2>1, <4>1
    <3> QED BY <3>1, <3>2
  <2> HIDE DEF h
  <2> QED BY <2>3, <2>4, <2>5
<1> HIDE DEF P
<1>3. 0 \in N
  BY <1>1
<1>4. ASSUME NEW k \in Nat, k \in N PROVE k + 1 \in N
  BY <1>0, <1>2, <1>4
<1>5. Nat \subseteq N
  <2> HIDE DEF N
  <2> QED BY <1>3, <1>4, NatSet
<1>6. P(Len(p))
  BY <1>0, <1>5
<1> QED BY <1>6 DEF P, Joins

\* ... and flattening gives its last value.
LEMMA FlattenJoins ==
  ASSUME NEW p \in Seq(Seq(Nat))
  PROVE  \E f : Joins(f, p) /\ FlattenSeq(p) = f[Len(p)]
<1> DEFINE n == Len(p)
           joined(u, i) == IF i = 1 THEN p[i] ELSE u[i - 1] \o p[i]
           flatten == CHOOSE u : u = [i \in 1 .. n |-> joined(u, i)]
<1>0. n \in Nat /\ DOMAIN p = 1 .. n /\ \A i \in 1 .. n : p[i] \in Seq(Nat)
  BY LenProperties, ElementOfSeq
<1>1. PICK f : Joins(f, p)
  BY JoinExists
<1>2. /\ f \in [0 .. n -> Seq(Nat)] /\ f[0] = <<>>
      /\ \A i \in 1 .. n : f[i] = f[i - 1] \o p[i]
  BY <1>1 DEF Joins
<1>3. CASE n = 0
  <2>1. p = <<>>
    BY <1>3, EmptySeq
  <2>2. FlattenSeq(p) = p
    BY <1>3 DEF FlattenSeq
  <2> QED BY <1>1, <1>2, <1>3, <2>1, <2>2
<1>4. CASE n # 0
  <2>1. FlattenSeq(p) = flatten[n]
    BY <1>4, Zenon DEF FlattenSeq
  <2>2. ASSUME NEW u, \A i \in 1 .. n : u[i] = f[i], NEW i \in 1 .. n PROVE f[i] = joined(u, i)
    <3>1. CASE i = 1
      <4>1. f[1] = f[0] \o p[1]
        <5>1. 1 - 1 = 0
          OBVIOUS
        <5> QED BY <1>2, <3>1, <5>1
      <4>2. <<>> \o p[1] = p[1]
        BY <1>0, <3>1, ConcatEmptySeq
      <4> QED BY <1>2, <3>1, <4>1, <4>2
    <3>2. CASE i # 1
      <4>1. i - 1 \in 1 .. n
        BY <1>0, <3>2
      <4>2. u[i - 1] = f[i - 1]
        BY <2>2, <4>1
      <4> QED BY <1>2, <3>2, <4>2
    <3> QED BY <3>1, <3>2
  <2> HIDE DEF joined
  <2> DEFINE g == [i \in 1 .. n |-> f[i]]
  <2>3. g = [i \in 1 .. n |-> joined(g, i)]
    <3>1. \A i \in 1 .. n : g[i] = f[i]
      OBVIOUS
    <3> HIDE DEF g
    <3>2. \A i \in 1 .. n : f[i] = joined(g, i)
      BY <2>2, <3>1
    <3> QED BY <3>2, Zenon DEF g
  <2> HIDE DEF g
  <2>4. PICK u : u = flatten
    OBVIOUS
  <2>5. u = [i \in 1 .. n |-> joined(u, i)]
    BY <2>3, <2>4, Zenon
  <2>6. \A i \in 1 .. n : u[i] = joined(u, i)
    BY <2>5, Zenon
  <2> DEFINE N == {k \in Nat : k \in 1 .. n => u[k] = f[k]}
  <2>7. ASSUME NEW k \in Nat, k \in N PROVE k + 1 \in N
    <3> SUFFICES ASSUME k + 1 \in 1 .. n PROVE u[k + 1] = f[k + 1]
      OBVIOUS
    <3>1. u[k + 1] = joined(u, k + 1) /\ f[k + 1] = f[(k + 1) - 1] \o p[k + 1]
      BY <1>2, <2>6
    <3>2. (k + 1) - 1 = k
      OBVIOUS
    <3>3. CASE k = 0
      <4>1. u[1] = p[1]
        <5>1. u[1] = joined(u, 1)
          BY <3>1, <3>3
        <5> QED BY <5>1 DEF joined
      <4>2. f[1] = f[0] \o p[1]
        <5>1. k + 1 = 1
          BY <3>3
        <5>2. f[k + 1] = f[k] \o p[k + 1]
          BY <3>1, <3>2, Zenon
        <5> QED BY <3>3, <5>1, <5>2, Zenon
      <4>3. <<>> \o p[1] = p[1]
        <5>1. 1 \in 1 .. n
          BY <3>3
        <5> QED BY <1>0, <5>1, ConcatEmptySeq
      <4> QED BY <1>2, <3>3, <4>1, <4>2, <4>3
    <3>4. CASE k # 0
      <4>1. u[k] = f[k]
        BY <2>7, <3>4
      <4>2. u[k + 1] = u[(k + 1) - 1] \o p[k + 1]
        <5>1. k + 1 # 1
          BY <3>4
        <5> QED BY <3>1, <5>1, Zenon DEF joined
      <4> QED BY <3>1, <3>2, <4>1, <4>2
    <3> QED BY <3>3, <3>4
  <2>8. 0 \in N
    OBVIOUS
  <2>9. n \in N
    <3> HIDE DEF N
    <3> QED BY <1>0, <2>7, <2>8, NatSet
  <2>10. u[n] = f[n]
    BY <1>0, <1>4, <2>9
  <2> QED BY <1>1, <2>1, <2>4, <2>10
<1> QED BY <1>3, <1>4

\* Texts are sequences of letters, put one after another.
Texts == Seq(Nat)
s ++ t == s \o t

\* Three texts are put together in either order.
LEMMA ThreeTogether ==
  ASSUME NEW s \in Texts, NEW t \in Texts, NEW u \in Texts
  PROVE  (s ++ t) ++ u = s ++ (t ++ u)
BY ConcatAssociative DEF Texts, ++

\* Texts that are one with the same end are one without it.
LEMMA SameEnd ==
  ASSUME NEW s \in Texts, NEW t \in Texts, NEW u \in Texts, s ++ u = t ++ u
  PROVE  s = t
BY ConcatSimplifications, Zenon DEF Texts, ++

\* The empty text, and one text after another.
LEMMA NoText == <<>> \in Texts /\ \A s \in Texts : s ++ <<>> = s /\ <<>> ++ s = s
BY EmptySeq, ConcatEmptySeq DEF Texts, ++

\* Two texts together are a text.
LEMMA TwoTogether == \A s, t \in Texts : s ++ t \in Texts
BY ConcatProperties DEF Texts, ++

\* The end and the letters of two texts put together.
LEMMA Together ==
  ASSUME NEW s \in Texts, NEW t \in Texts
  PROVE  /\ s ++ t \in Texts /\ ToSet(s ++ t) = ToSet(s) \cup ToSet(t)
         /\ t # <<>> => s ++ t # <<>> /\ Last(s ++ t) = Last(t)
<1>1. /\ Len(s) \in Nat /\ DOMAIN s = 1 .. Len(s) /\ Len(t) \in Nat /\ DOMAIN t = 1 .. Len(t)
  BY LenProperties DEF Texts
<1>2. PICK u : u = s ++ t
  OBVIOUS
<1>3. PICK a \in Nat, b \in Nat : a = Len(s) /\ b = Len(t)
  BY <1>1
<1>4. /\ u \in Texts /\ Len(u) = a + b
      /\ \A i \in 1 .. a + b : u[i] = IF i <= a THEN s[i] ELSE t[i - a]
  BY <1>2, <1>3, ConcatProperties DEF Texts, ++
<1>5. DOMAIN u = 1 .. a + b
  BY <1>4, LenProperties DEF Texts
<1>6. DOMAIN s = 1 .. a /\ DOMAIN t = 1 .. b
  BY <1>1, <1>3
<1>7. ToSet(u) \subseteq ToSet(s) \cup ToSet(t)
  <2> SUFFICES ASSUME NEW i \in 1 .. a + b PROVE u[i] \in ToSet(s) \cup ToSet(t)
    BY <1>5 DEF ToSet
  <2>1. CASE i <= a
    <3>1. i \in DOMAIN s /\ u[i] = s[i]
      BY <1>4, <1>6, <2>1
    <3> QED BY <3>1 DEF ToSet
  <2>2. CASE ~(i <= a)
    <3>1. i - a \in DOMAIN t /\ u[i] = t[i - a]
      BY <1>4, <1>6, <2>2
    <3> QED BY <3>1 DEF ToSet
  <2> QED BY <2>1, <2>2
<1>8. ToSet(s) \subseteq ToSet(u)
  <2> SUFFICES ASSUME NEW i \in DOMAIN s PROVE s[i] \in ToSet(u)
    BY DEF ToSet
  <2>1. i \in DOMAIN u /\ u[i] = s[i]
    BY <1>4, <1>5, <1>6
  <2> QED BY <2>1 DEF ToSet
<1>9. ToSet(t) \subseteq ToSet(u)
  <2> SUFFICES ASSUME NEW i \in DOMAIN t PROVE t[i] \in ToSet(u)
    BY DEF ToSet
  <2>1. PICK k \in 1 .. a + b : k = a + i
    BY <1>6
  <2>2. ~(k <= a) /\ k - a = i
    BY <1>6, <2>1
  <2>3. k \in DOMAIN u /\ u[k] = t[i]
    BY <1>4, <1>5, <2>2
  <2> QED BY <2>3 DEF ToSet
<1>10. ASSUME t # <<>> PROVE u # <<>> /\ Last(u) = Last(t)
  <2>1. b # 0
    BY <1>3, <1>10, EmptySeq DEF Texts
  <2>2. u # <<>>
    <3>1. Len(u) # 0
      BY <1>4, <2>1
    <3> QED BY <3>1, EmptySeq
  <2>3. PICK k \in 1 .. a + b : k = a + b
    BY <2>1
  <2>4. ~(k <= a) /\ k - a = b
    BY <2>1, <2>3
  <2>5. u[k] = t[b]
    BY <1>4, <2>4
  <2>6. Len(u) = k
    BY <1>4, <2>3
  <2> QED BY <1>3, <2>2, <2>5, <2>6 DEF Last
<1>11. ToSet(u) = ToSet(s) \cup ToSet(t)
  BY <1>7, <1>8, <1>9
<1> QED BY <1>2, <1>4, <1>10, <1>11

\* One letter.
LEMMA OneLetter ==
  ASSUME NEW c \in Nat
  PROVE  <<c>> \in Texts /\ <<c>> # <<>> /\ Last(<<c>>) = c /\ ToSet(<<c>>) = {c}
<1>1. <<c>> \in Texts /\ Len(<<c>>) = 1 /\ <<c>>[1] = c /\ DOMAIN <<c>> = {1}
  BY DEF Texts
<1>2. <<c>> # <<>>
  BY <1>1
<1>3. Last(<<c>>) = c
  BY <1>1, Zenon DEF Last
<1>4. ToSet(<<c>>) = {c}
  BY <1>1, Zenon DEF ToSet
<1> QED BY <1>1, <1>2, <1>3, <1>4

\* What comes before a part.
Lead(i) == IF i = 1 THEN <<>> ELSE <<Comma>>
Separated(p) == [i \in DOMAIN p |-> IF i = 1 THEN p[i] ELSE <<Comma>> \o p[i]]

\* f lists the parts p one after the other, with commas between them.
Lists(f, p) ==
  /\ f \in [0 .. Len(p) -> Texts] /\ f[0] = <<>>
  /\ \A i \in 1 .. Len(p) : f[i] = (f[i - 1] ++ Lead(i)) ++ p[i]

\* A text is such a list between its brackets.
LEMMA TextLists ==
  ASSUME NEW p \in Seq(Texts), NEW o \in Nat, NEW c \in Nat
  PROVE  \E f : Lists(f, p) /\ Text(o, p, c) = (<<o>> ++ f[Len(p)]) ++ <<c>>
<1>1. Len(p) \in Nat /\ DOMAIN p = 1 .. Len(p) /\ \A i \in 1 .. Len(p) : p[i] \in Texts
  BY LenProperties, ElementOfSeq
<1>2. PICK q : q = Separated(p)
  OBVIOUS
<1>3. <<Comma>> \in Texts
  BY OneLetter DEF Comma
<1>4. \A i \in 1 .. Len(p) : q[i] = Lead(i) ++ p[i]
  <2> SUFFICES ASSUME NEW i \in 1 .. Len(p) PROVE q[i] = Lead(i) ++ p[i]
    OBVIOUS
  <2>1. q[i] = IF i = 1 THEN p[i] ELSE <<Comma>> ++ p[i]
    BY <1>1, <1>2 DEF Separated, ++
  <2>2. <<>> ++ p[i] = p[i]
    BY <1>1, NoText
  <2> QED BY <2>1, <2>2 DEF Lead
<1>5. \A i \in 1 .. Len(p) : q[i] \in Texts /\ Lead(i) \in Texts
  <2> SUFFICES ASSUME NEW i \in 1 .. Len(p) PROVE q[i] \in Texts /\ Lead(i) \in Texts
    OBVIOUS
  <2>1. Lead(i) \in Texts
    BY <1>3, NoText DEF Lead
  <2> QED BY <1>1, <1>4, <2>1, TwoTogether
<1>6. q \in [1 .. Len(p) -> Texts]
  <2>1. q = [i \in 1 .. Len(p) |-> q[i]]
    BY <1>1, <1>2 DEF Separated, ++
  <2> QED BY <1>5, <2>1
<1>7. q \in Seq(Texts) /\ Len(q) = Len(p)
  <2>1. q \in Seq(Texts)
    <3>1. PICK T : T = Texts
      OBVIOUS
    <3>2. PICK n \in Nat : n = Len(p)
      BY <1>1
    <3>3. q \in [1 .. n -> T]
      BY <1>6, <3>1, <3>2
    <3>4. q \in Seq(T)
      <4>1. [1 .. n -> T] \in {[1 .. k -> T] : k \in Nat}
        OBVIOUS
      <4>2. q \in UNION {[1 .. k -> T] : k \in Nat}
        BY <3>3, <4>1
      <4> QED BY <4>2, SeqDef, Zenon
    <3> QED BY <3>1, <3>4
  <2>2. DOMAIN q = 1 .. Len(p)
    BY <1>6
  <2>3. Len(q) \in Nat /\ DOMAIN q = 1 .. Len(q)
    BY <2>1, LenProperties
  <2>4. PICK a \in Nat, b \in Nat : a = Len(q) /\ b = Len(p)
    BY <1>1, <2>3
  <2>5. 1 .. a = 1 .. b
    BY <2>2, <2>3, <2>4
  <2>6. a = b
    BY <2>5
  <2> QED BY <2>1, <2>4, <2>6
<1>8. PICK f : Joins(f, q) /\ FlattenSeq(q) = f[Len(p)]
  BY <1>7, FlattenJoins DEF Texts
<1>9. Lists(f, p)
  <2>1. f \in [0 .. Len(p) -> Texts] /\ f[0] = <<>>
    BY <1>7, <1>8 DEF Joins, Texts, ++
  <2> SUFFICES ASSUME NEW i \in 1 .. Len(p) PROVE f[i] = (f[i - 1] ++ Lead(i)) ++ p[i]
    BY <2>1 DEF Lists
  <2>2. f[i] = f[i - 1] ++ (Lead(i) ++ p[i])
    BY <1>4, <1>7, <1>8 DEF Joins, Texts, ++
  <2>3. f[i - 1] \in Texts
    <3>1. i - 1 \in 0 .. Len(p)
      BY <1>1
    <3> QED BY <2>1, <3>1
  <2>4. PICK a \in Texts, l \in Texts, b \in Texts :
          a = f[i - 1] /\ l = Lead(i) /\ b = p[i]
    BY <1>1, <1>5, <2>3
  <2>5. (a ++ l) ++ b = a ++ (l ++ b)
    BY ThreeTogether
  <2> QED BY <2>2, <2>4, <2>5
<1>10. Text(o, p, c) = (<<o>> ++ FlattenSeq(q)) ++ <<c>>
  BY <1>2, Zenon DEF Text, Separated, ++
<1> QED BY <1>8, <1>9, <1>10

\* A text ends with its bracket, and throws if one of its parts does.
LEMMA TextFacts ==
  ASSUME NEW p \in Seq(Texts), NEW o \in Nat, NEW c \in Nat, o # Throw, c # Throw
  PROVE  /\ Text(o, p, c) \in Texts /\ Text(o, p, c) # <<>> /\ Last(Text(o, p, c)) = c
         /\ Throw \in ToSet(Text(o, p, c)) <=> \E i \in DOMAIN p : Throw \in ToSet(p[i])
<1>1. Len(p) \in Nat /\ DOMAIN p = 1 .. Len(p) /\ \A i \in 1 .. Len(p) : p[i] \in Texts
  BY LenProperties, ElementOfSeq
<1>2. PICK f : Lists(f, p) /\ Text(o, p, c) = (<<o>> ++ f[Len(p)]) ++ <<c>>
  BY TextLists
<1>3. /\ f \in [0 .. Len(p) -> Texts] /\ f[0] = <<>>
      /\ \A i \in 1 .. Len(p) : f[i] = (f[i - 1] ++ Lead(i)) ++ p[i]
  BY <1>2 DEF Lists
<1>4. \A i \in Nat : Lead(i) \in Texts /\ Throw \notin ToSet(Lead(i))
  <2>1. <<Comma>> \in Texts /\ ToSet(<<Comma>>) = {Comma} /\ Comma # Throw
    BY OneLetter DEF Comma, Throw
  <2>2. <<>> \in Texts /\ ToSet(<<>>) = {}
    BY NoText DEF ToSet
  <2> QED BY <2>1, <2>2 DEF Lead
<1> DEFINE P(k) == Throw \in ToSet(f[k]) <=> \E i \in 1 .. k : Throw \in ToSet(p[i])
           N == {k \in Nat : k <= Len(p) => P(k)}
<1>5. 0 \in N
  <2>1. ToSet(f[0]) = {}
    BY <1>3 DEF ToSet
  <2> QED BY <2>1
<1>6. ASSUME NEW k \in Nat, k + 1 <= Len(p), P(k) PROVE P(k + 1)
  <2>1. f[k] \in Texts /\ p[k + 1] \in Texts /\ Lead(k + 1) \in Texts
    <3>1. k \in 0 .. Len(p) /\ k + 1 \in 1 .. Len(p) /\ k + 1 \in Nat
      BY <1>1, <1>6
    <3> QED BY <1>1, <1>3, <1>4, <3>1
  <2>2. f[k + 1] = (f[k] ++ Lead(k + 1)) ++ p[k + 1]
    <3>1. k + 1 \in 1 .. Len(p) /\ (k + 1) - 1 = k
      BY <1>1, <1>6
    <3> QED BY <1>3, <3>1
  <2>3. ToSet(f[k + 1]) = (ToSet(f[k]) \cup ToSet(Lead(k + 1))) \cup ToSet(p[k + 1])
    BY <2>1, <2>2, Together
  <2>4. Throw \in ToSet(f[k + 1]) <=> Throw \in ToSet(f[k]) \/ Throw \in ToSet(p[k + 1])
    <3>1. Throw \notin ToSet(Lead(k + 1))
      BY <1>4
    <3> QED BY <2>3, <3>1
  <2>5. 1 .. k + 1 = 1 .. k \cup {k + 1}
    OBVIOUS
  <2> QED BY <1>6, <2>4, <2>5
<1>7. ASSUME NEW k \in Nat, k \in N PROVE k + 1 \in N
  <2> HIDE DEF P
  <2> QED BY <1>1, <1>6, <1>7
<1>8. P(Len(p))
  <2>1. Nat \subseteq N
    <3> HIDE DEF N
    <3> QED BY <1>5, <1>7, NatSet
  <2> HIDE DEF P
  <2> QED BY <1>1, <2>1
<1>9. PICK m \in Texts : m = f[Len(p)]
  BY <1>1, <1>3
<1>10. /\ <<o>> \in Texts /\ <<c>> \in Texts /\ <<c>> # <<>> /\ Last(<<c>>) = c
       /\ ToSet(<<o>>) = {o} /\ ToSet(<<c>>) = {c}
  BY OneLetter
<1>11. <<o>> ++ m \in Texts /\ ToSet(<<o>> ++ m) = {o} \cup ToSet(m)
  BY <1>10, Together
<1>12. /\ (<<o>> ++ m) ++ <<c>> \in Texts /\ (<<o>> ++ m) ++ <<c>> # <<>>
       /\ Last((<<o>> ++ m) ++ <<c>>) = c
       /\ ToSet((<<o>> ++ m) ++ <<c>>) = ({o} \cup ToSet(m)) \cup {c}
  <2>1. PICK h \in Texts : h = <<o>> ++ m
    BY <1>11
  <2>2. PICK e \in Texts : e = <<c>>
    BY <1>10
  <2>3. /\ h ++ e \in Texts /\ h ++ e # <<>> /\ Last(h ++ e) = Last(e)
        /\ ToSet(h ++ e) = ToSet(h) \cup ToSet(e)
    BY <1>10, <2>2, Together
  <2> QED BY <1>10, <1>11, <2>1, <2>2, <2>3
<1>13. Throw \in ToSet(m) <=> \E i \in DOMAIN p : Throw \in ToSet(p[i])
  BY <1>1, <1>8, <1>9
<1>14. PICK x : x = Text(o, p, c)
  OBVIOUS
<1>15. x = (<<o>> ++ m) ++ <<c>>
  BY <1>2, <1>9, <1>14
<1>16. Throw \in ToSet(x) <=> Throw \in ToSet(m)
  BY <1>12, <1>15
<1> QED BY <1>12, <1>13, <1>14, <1>15, <1>16

\* a is what is left of x and a list without its last part.
Left(a, x, f, p, n) ==
  /\ x ++ f[n] = a ++ p[n]
  /\ p[n] # <<>> => Last(x ++ f[n]) = Last(p[n])
  /\ n = 1 => a = x
  /\ n # 1 => a = (x ++ f[n - 1]) ++ <<Comma>> /\ Last(a) = Comma

\* The last part of a list is read off its end, and what is left ends with a
\* comma, or is what came before the list.
LEMMA ListStep ==
  ASSUME NEW p \in Seq(Texts), NEW f, Lists(f, p), NEW x \in Texts
  PROVE  /\ x ++ f[0] = x
         /\ \A n \in 0 .. Len(p) : x ++ f[n] \in Texts
         /\ \A n \in 1 .. Len(p) : \E a \in Texts : Left(a, x, f, p, n)
<1>1. Len(p) \in Nat /\ DOMAIN p = 1 .. Len(p) /\ \A i \in 1 .. Len(p) : p[i] \in Texts
  BY LenProperties, ElementOfSeq
<1>2. /\ \A n \in 0 .. Len(p) : f[n] \in Texts
      /\ f[0] = <<>>
      /\ \A i \in 1 .. Len(p) : f[i] = (f[i - 1] ++ Lead(i)) ++ p[i]
  BY DEF Lists
<1>3. x ++ <<>> = x
  BY NoText
<1>4. <<Comma>> \in Texts /\ <<Comma>> # <<>> /\ Last(<<Comma>>) = Comma
  BY OneLetter DEF Comma
<1>5. \A n \in 0 .. Len(p) : x ++ f[n] \in Texts
  <2> SUFFICES ASSUME NEW n \in 0 .. Len(p) PROVE x ++ f[n] \in Texts
    OBVIOUS
  <2>1. PICK s \in Texts : s = f[n]
    BY <1>2
  <2>2. x ++ s \in Texts
    BY TwoTogether
  <2> QED BY <2>1, <2>2
<1>6. ASSUME NEW n \in 1 .. Len(p)
      PROVE  \E a \in Texts : Left(a, x, f, p, n)
  <2>1. n - 1 \in 0 .. Len(p)
    BY <1>1
  <2>2. PICK s \in Texts : s = f[n - 1]
    BY <1>2, <2>1
  <2>3. PICK t \in Texts : t = p[n]
    BY <1>1
  <2>4. PICK l \in Texts : l = Lead(n)
    BY <1>4, NoText DEF Lead
  <2>5. f[n] = (s ++ l) ++ t
    BY <1>2, <2>2, <2>3, <2>4
  <2>6. PICK a \in Texts : a = (x ++ s) ++ l
    <3>1. PICK b \in Texts : b = x ++ s
      BY TwoTogether
    <3>2. b ++ l \in Texts
      BY TwoTogether
    <3> QED BY <3>1, <3>2
  <2>7. x ++ ((s ++ l) ++ t) = a ++ t
    <3>1. PICK b \in Texts : b = s ++ l
      BY TwoTogether
    <3>2. (x ++ b) ++ t = x ++ (b ++ t)
      BY ThreeTogether
    <3>3. (x ++ s) ++ l = x ++ (s ++ l)
      BY ThreeTogether
    <3> QED BY <2>6, <3>1, <3>2, <3>3
  <2>8. x ++ f[n] = a ++ t
    BY <2>5, <2>7
  <2>9. t # <<>> => Last(a ++ t) = Last(t)
    BY Together
  <2>10. ASSUME n = 1 PROVE a = x
    <3>1. s = <<>>
      <4>1. n - 1 = 0
        BY <2>10
      <4> QED BY <1>2, <2>2, <4>1
    <3>2. l = <<>>
      BY <2>4, <2>10 DEF Lead
    <3> QED BY <1>3, <2>6, <3>1, <3>2
  <2>11. ASSUME n # 1 PROVE a = (x ++ s) ++ <<Comma>> /\ Last(a) = Comma
    <3>1. l = <<Comma>>
      BY <2>4, <2>11 DEF Lead
    <3>2. PICK b \in Texts : b = x ++ s
      BY TwoTogether
    <3>3. a = b ++ l
      BY <2>6, <3>2
    <3>4. Last(b ++ l) = Last(l)
      BY <1>4, <3>1, Together
    <3> QED BY <1>4, <2>6, <3>1, <3>3, <3>4
  <2>12. Left(a, x, f, p, n)
    BY <2>2, <2>3, <2>8, <2>9, <2>10, <2>11, Zenon DEF Left
  <2> QED BY <2>12
<1> QED BY <1>2, <1>3, <1>5, <1>6

\* Parts that do not end as what comes before them, and parts of two lists
\* that are read off the end of what they are written after.
ClosedApart(p, o) == \A i \in DOMAIN p : p[i] # <<>> /\ Last(p[i]) \notin {o, Comma}
Known(p, q, Rel) ==
  \A i \in DOMAIN p, j \in DOMAIN q : \A x, y \in Texts :
    x ++ p[i] = y ++ q[j] => x = y /\ <<i, j>> \in Rel

\* Lists that are written alike, of parts that are known by how they are
\* written, are of as many parts, the same ones.
LEMMA ListsRead ==
  ASSUME NEW p \in Seq(Texts), NEW q \in Seq(Texts), NEW o \in Nat, o # Comma, NEW Rel,
         ClosedApart(p, o), ClosedApart(q, o), Known(p, q, Rel),
         NEW f, Lists(f, p), NEW g, Lists(g, q),
         NEW x \in Texts, Last(x) = o, NEW y \in Texts, Last(y) = o
  PROVE  \A n \in 0 .. Len(p), k \in 0 .. Len(q) :
           x ++ f[n] = y ++ g[k] => n = k /\ x = y /\ \A i \in 1 .. n : <<i, i>> \in Rel
<1>1. Len(p) \in Nat /\ DOMAIN p = 1 .. Len(p) /\ Len(q) \in Nat /\ DOMAIN q = 1 .. Len(q)
  BY LenProperties
<1>2. /\ x ++ f[0] = x /\ y ++ g[0] = y
      /\ \A n \in 0 .. Len(p) : x ++ f[n] \in Texts
      /\ \A k \in 0 .. Len(q) : y ++ g[k] \in Texts
  BY ListStep
<1>3. \A n \in 1 .. Len(p) : Last(x ++ f[n]) \notin {o, Comma}
  <2> SUFFICES ASSUME NEW n \in 1 .. Len(p) PROVE Last(x ++ f[n]) \notin {o, Comma}
    OBVIOUS
  <2>1. p[n] # <<>> => Last(x ++ f[n]) = Last(p[n])
    BY ListStep DEF Left
  <2> QED BY <1>1, <2>1 DEF ClosedApart
<1>4. \A k \in 1 .. Len(q) : Last(y ++ g[k]) \notin {o, Comma}
  <2> SUFFICES ASSUME NEW k \in 1 .. Len(q) PROVE Last(y ++ g[k]) \notin {o, Comma}
    OBVIOUS
  <2>1. q[k] # <<>> => Last(y ++ g[k]) = Last(q[k])
    BY ListStep DEF Left
  <2> QED BY <1>1, <2>1 DEF ClosedApart
<1> DEFINE P(n) == \A k \in 0 .. Len(q) :
                     x ++ f[n] = y ++ g[k] => n = k /\ x = y /\ \A i \in 1 .. n : <<i, i>> \in Rel
           N == {n \in Nat : n <= Len(p) => P(n)}
<1>5. P(0)
  <2> SUFFICES ASSUME NEW k \in 0 .. Len(q), x ++ f[0] = y ++ g[k] PROVE 0 = k /\ x = y
    OBVIOUS
  <2>1. CASE k = 0
    BY <1>2, <2>1
  <2>2. CASE k # 0
    <3>1. k \in 1 .. Len(q)
      BY <1>1, <2>2
    <3>2. Last(y ++ g[k]) # o
      BY <1>4, <3>1
    <3> QED BY <1>2, <3>2
  <2> QED BY <2>1, <2>2
<1>6. ASSUME NEW n \in Nat, n + 1 <= Len(p), P(n) PROVE P(n + 1)
  <2> SUFFICES ASSUME NEW k \in 0 .. Len(q), x ++ f[n + 1] = y ++ g[k]
               PROVE  n + 1 = k /\ x = y /\ \A i \in 1 .. n + 1 : <<i, i>> \in Rel
    OBVIOUS
  <2>0. PICK m \in 1 .. Len(p) : m = n + 1
    BY <1>1, <1>6
  <2>1. k # 0
    <3>1. Last(x ++ f[m]) # o
      BY <1>3
    <3> QED BY <1>2, <2>0, <3>1
  <2>2. k \in 1 .. Len(q)
    BY <1>1, <2>1
  <2>3. PICK a \in Texts : Left(a, x, f, p, m)
    BY ListStep
  <2>4. PICK b \in Texts : Left(b, y, g, q, k)
    BY <2>2, ListStep
  <2>5. a = b /\ <<m, k>> \in Rel
    <3>1. a ++ p[m] = b ++ q[k]
      BY <2>0, <2>3, <2>4 DEF Left
    <3> QED BY <1>1, <2>2, <3>1 DEF Known
  <2>6. CASE m = 1
    <3>1. k = 1
      BY <2>3, <2>4, <2>5, <2>6 DEF Left
    <3>2. x = y
      BY <2>3, <2>4, <2>5, <2>6, <3>1 DEF Left
    <3>3. \A i \in 1 .. m : i = 1
      BY <2>6
    <3> QED BY <2>0, <2>5, <2>6, <3>1, <3>2, <3>3
  <2>7. CASE m # 1
    <3>1. k # 1
      BY <2>3, <2>4, <2>5, <2>7 DEF Left
    <3>2. k - 1 \in 0 .. Len(q) /\ m - 1 = n /\ n \in 0 .. Len(p)
      BY <1>1, <1>6, <2>0, <2>2
    <3>3. PICK c \in Texts : c = x ++ f[n]
      BY <1>2, <3>2
    <3>4. PICK d \in Texts : d = y ++ g[k - 1]
      BY <1>2, <3>2
    <3>5. c ++ <<Comma>> = d ++ <<Comma>>
      <4>1. a = c ++ <<Comma>>
        BY <2>3, <2>7, <3>2, <3>3 DEF Left
      <4>2. b = d ++ <<Comma>>
        BY <2>4, <3>1, <3>4 DEF Left
      <4> QED BY <2>5, <4>1, <4>2
    <3>6. c = d
      <4>1. <<Comma>> \in Texts
        BY OneLetter DEF Comma
      <4> QED BY <3>5, <4>1, SameEnd
    <3>7. n = k - 1 /\ x = y /\ \A i \in 1 .. n : <<i, i>> \in Rel
      BY <1>6, <3>2, <3>3, <3>4, <3>6
    <3>8. n + 1 = k
      BY <2>2, <3>7
    <3>9. \A i \in 1 .. n + 1 : i \in 1 .. n \/ i = m
      BY <2>0
    <3>10. <<m, m>> \in Rel
      BY <2>0, <2>5, <3>8
    <3> QED BY <3>7, <3>8, <3>9, <3>10
  <2> QED BY <2>6, <2>7
<1> HIDE DEF P
<1>7. 0 \in N
  BY <1>5
<1>8. ASSUME NEW n \in Nat, n \in N PROVE n + 1 \in N
  BY <1>1, <1>6, <1>8
<1>9. Nat \subseteq N
  <2> HIDE DEF N
  <2> QED BY <1>7, <1>8, NatSet
<1>10. \A n \in 0 .. Len(p) : P(n)
  BY <1>1, <1>9
<1> QED BY <1>10 DEF P

\* So are texts with the same brackets, whatever comes before them.
LEMMA TextsRead ==
  ASSUME NEW p \in Seq(Texts), NEW q \in Seq(Texts), NEW o \in Nat, o # Comma, NEW c \in Nat,
         NEW Rel, ClosedApart(p, o), ClosedApart(q, o), Known(p, q, Rel),
         NEW s \in Texts, NEW t \in Texts, s ++ Text(o, p, c) = t ++ Text(o, q, c)
  PROVE  s = t /\ Len(p) = Len(q) /\ \A i \in DOMAIN p : <<i, i>> \in Rel
<1>1. Len(p) \in Nat /\ DOMAIN p = 1 .. Len(p) /\ Len(q) \in Nat /\ DOMAIN q = 1 .. Len(q)
  BY LenProperties
<1>2. PICK f : Lists(f, p) /\ Text(o, p, c) = (<<o>> ++ f[Len(p)]) ++ <<c>>
  BY TextLists
<1>3. PICK g : Lists(g, q) /\ Text(o, q, c) = (<<o>> ++ g[Len(q)]) ++ <<c>>
  BY TextLists
<1>4. PICK x \in Texts : x = s ++ <<o>>
  <2>1. <<o>> \in Texts
    BY OneLetter
  <2> QED BY <2>1, TwoTogether
<1>5. PICK y \in Texts : y = t ++ <<o>>
  <2>1. <<o>> \in Texts
    BY OneLetter
  <2> QED BY <2>1, TwoTogether
<1>6. Last(x) = o /\ Last(y) = o
  BY <1>4, <1>5, OneLetter, Together
<1>7. PICK a \in Texts : a = f[Len(p)]
  BY <1>1, <1>2 DEF Lists
<1>8. PICK b \in Texts : b = g[Len(q)]
  <2>1. g \in [0 .. Len(q) -> Texts]
    BY <1>3 DEF Lists
  <2>2. Len(q) \in 0 .. Len(q)
    BY <1>1
  <2> QED BY <2>1, <2>2
<1>9. PICK h \in Texts, e \in Texts : h = <<o>> /\ e = <<c>>
  BY OneLetter
<1>10. s ++ ((h ++ a) ++ e) = ((s ++ h) ++ a) ++ e
  <2>1. PICK u \in Texts : u = h ++ a
    BY TwoTogether
  <2>2. (s ++ u) ++ e = s ++ (u ++ e)
    BY ThreeTogether
  <2>3. (s ++ h) ++ a = s ++ (h ++ a)
    BY ThreeTogether
  <2> QED BY <2>1, <2>2, <2>3
<1>11. t ++ ((h ++ b) ++ e) = ((t ++ h) ++ b) ++ e
  <2>1. PICK u \in Texts : u = h ++ b
    BY TwoTogether
  <2>2. (t ++ u) ++ e = t ++ (u ++ e)
    BY ThreeTogether
  <2>3. (t ++ h) ++ b = t ++ (h ++ b)
    BY ThreeTogether
  <2> QED BY <2>1, <2>2, <2>3
<1>12. x ++ a = y ++ b
  <2>1. (x ++ a) ++ e = (y ++ b) ++ e
    BY <1>2, <1>3, <1>4, <1>5, <1>7, <1>8, <1>9, <1>10, <1>11
  <2>2. x ++ a \in Texts /\ y ++ b \in Texts
    BY TwoTogether
  <2> QED BY <2>1, <2>2, SameEnd
<1>13. /\ Len(p) \in 0 .. Len(p) /\ Len(q) \in 0 .. Len(q)
       /\ x ++ f[Len(p)] = y ++ g[Len(q)]
  BY <1>1, <1>7, <1>8, <1>12
<1>14. \A n \in 0 .. Len(p), k \in 0 .. Len(q) :
         x ++ f[n] = y ++ g[k] => n = k /\ x = y /\ \A i \in 1 .. n : <<i, i>> \in Rel
  <2>1. Lists(f, p) /\ Lists(g, q)
    BY <1>2, <1>3
  <2> QED BY <1>6, <2>1, ListsRead
<1>15. Len(p) = Len(q) /\ x = y /\ \A i \in 1 .. Len(p) : <<i, i>> \in Rel
  BY <1>13, <1>14
<1>16. s = t
  <2>1. s ++ h = t ++ h
    BY <1>4, <1>5, <1>9, <1>15
  <2> QED BY <2>1, SameEnd
<1> QED BY <1>1, <1>15, <1>16

\* How the text of a value ends.
End(v) ==
  IF v[1] = "array" THEN CloseBracket ELSE IF v[1] = "object" THEN CloseBrace
  ELSE IF v[1] = "null" THEN Null ELSE IF v[1] = "number" THEN NumberByte(v[2]) ELSE Throw

\* It is a text, which throws when the value would be altered.
Written(v) ==
  /\ CanonicalJson[v] \in Texts /\ CanonicalJson[v] # <<>> /\ Last(CanonicalJson[v]) = End(v)
  /\ Throw \in ToSet(CanonicalJson[v]) <=> Altered[v]

\* The kinds of values.
LEMMA KindsOfValues ==
  ASSUME CanonicalAssumption, NEW v \in Values
  PROVE  \/ v[1] = "array" /\ v[2] \in Seq(Values)
         \/ v[1] = "object" /\ v[2] \in Seq(Keys \X Values)
         \/ v[1] = "null" /\ v[2] = 0
         \/ v[1] = "number" /\ v[2] \in 0 .. 9
         \/ v[1] \in {"notFinite", "undefined"}
BY DEF CanonicalAssumption, Leaves

\* A value with nothing in it is the one byte it ends with.
LEMMA LeafEnds ==
  ASSUME CanonicalAssumption, NEW v \in Values, v[1] # "array", v[1] # "object"
  PROVE  /\ Leaf(v) = <<End(v)>> /\ End(v) \in Nat
         /\ End(v) = Throw <=> v[1] \notin {"null", "number"}
<1>1. CASE v[1] = "null"
  <2>1. Leaf(v) = <<110>> /\ End(v) = 110
    BY <1>1 DEF Leaf, End, Null
  <2> QED BY <1>1, <2>1 DEF Throw
<1>2. CASE v[1] = "number" /\ v[2] \in 0 .. 9
  <2>1. PICK b \in 48 .. 57 : b = NumberByte(v[2])
    BY <1>2 DEF NumberByte
  <2>2. Leaf(v) = <<b>> /\ End(v) = b
    BY <1>2, <2>1 DEF Leaf, End
  <2> QED BY <1>2, <2>1, <2>2 DEF Throw
<1>3. CASE v[1] \in {"notFinite", "undefined"}
  <2>1. Leaf(v) = <<255>> /\ End(v) = 255
    BY <1>3 DEF Leaf, End, Throw
  <2> QED BY <1>3, <2>1 DEF Throw
<1> QED BY <1>1, <1>2, <1>3, KindsOfValues

\* No text of a value ends as something that can come before one.
LEMMA EndsOfValues ==
  ASSUME CanonicalAssumption, NEW v \in Values
  PROVE  End(v) \notin {Brace, Bracket, Comma, Colon}
BY KindsOfValues
   DEF End, Brace, Bracket, Comma, Colon, CloseBrace, CloseBracket, Null, NumberByte, Throw

\* A labelled text is its key and a colon before it.
LEMMA LabelledAfter ==
  ASSUME NEW k \in Keys, NEW t \in Texts, NEW x \in Texts
  PROVE  x ++ Labelled(k, t) = ((x ++ <<KeyByte(k)>>) ++ <<Colon>>) ++ t
<1>1. KeyByte(k) \in Nat /\ Colon \in Nat
  BY DEF KeyByte, Keys, Colon
<1>2. PICK a \in Texts, b \in Texts : a = <<KeyByte(k)>> /\ b = <<Colon>>
  BY <1>1, OneLetter
<1>3. PICK h \in Texts : h = a ++ b
  BY TwoTogether
<1>4. Labelled(k, t) = h ++ t
  <2>1. <<KeyByte(k), Colon>> = <<KeyByte(k)>> \o <<Colon>>
    OBVIOUS
  <2>2. <<KeyByte(k), Colon>> = h
    BY <1>2, <1>3, <2>1 DEF ++
  <2> QED BY <2>2 DEF ++, Labelled
<1>5. (x ++ h) ++ t = x ++ (h ++ t)
  BY ThreeTogether
<1>6. (x ++ a) ++ b = x ++ (a ++ b)
  BY ThreeTogether
<1> QED BY <1>2, <1>3, <1>4, <1>5, <1>6

\* It ends as the text does, and throws when the text does.
LEMMA LabelledFacts ==
  ASSUME NEW k \in Keys, NEW t \in Texts, t # <<>>
  PROVE  /\ Labelled(k, t) \in Texts /\ Labelled(k, t) # <<>> /\ Last(Labelled(k, t)) = Last(t)
         /\ Throw \in ToSet(Labelled(k, t)) <=> Throw \in ToSet(t)
<1>1. KeyByte(k) \in Nat /\ KeyByte(k) # Throw /\ Colon \in Nat /\ Colon # Throw
  BY DEF KeyByte, Keys, Colon, Throw
<1>2. PICK h : h = <<KeyByte(k), Colon>>
  OBVIOUS
<1>3. h \in Texts /\ ToSet(h) = {KeyByte(k), Colon}
  <2>1. <<KeyByte(k), Colon>> \in Seq(Nat)
    BY <1>1
  <2>2. /\ DOMAIN <<KeyByte(k), Colon>> = 1 .. 2
        /\ <<KeyByte(k), Colon>>[1] = KeyByte(k) /\ <<KeyByte(k), Colon>>[2] = Colon
    OBVIOUS
  <2>3. DOMAIN h = {1, 2} /\ h[1] = KeyByte(k) /\ h[2] = Colon
    BY <1>2, <2>2
  <2> QED BY <1>2, <2>1, <2>3 DEF Texts, ToSet
<1>4. Labelled(k, t) = h ++ t
  BY <1>2 DEF Labelled, ++
<1>5. /\ h ++ t \in Texts /\ h ++ t # <<>> /\ Last(h ++ t) = Last(t)
      /\ ToSet(h ++ t) = ToSet(h) \cup ToSet(t)
  BY <1>3, Together
<1> QED BY <1>1, <1>3, <1>4, <1>5

\* The parts of the text of an object.
ObjectParts(l) == [i \in DOMAIN l |-> Labelled(l[i][1], CanonicalJson[l[i][2]])]

\* A list of members is written as a text.
LEMMA ObjectWritten ==
  ASSUME CanonicalAssumption, NEW l \in Seq(Keys \X Values),
         \A i \in DOMAIN l : Written(l[i][2])
  PROVE  /\ ObjectParts(l) \in Seq(Texts) /\ Len(ObjectParts(l)) = Len(l)
         /\ ClosedApart(ObjectParts(l), Brace)
         /\ ObjectText(CanonicalJson, l) = Text(Brace, ObjectParts(l), CloseBrace)
         /\ ObjectText(CanonicalJson, l) \in Texts /\ ObjectText(CanonicalJson, l) # <<>>
         /\ Last(ObjectText(CanonicalJson, l)) = CloseBrace
         /\ Throw \in ToSet(ObjectText(CanonicalJson, l)) <=> \E i \in DOMAIN l : Altered[l[i][2]]
<1>1. Len(l) \in Nat /\ DOMAIN l = 1 .. Len(l)
  BY LenProperties
<1>2. \A i \in DOMAIN l : l[i][1] \in Keys /\ l[i][2] \in Values
  <2>1. \A i \in DOMAIN l : l[i] \in Keys \X Values
    BY <1>1, ElementOfSeq
  <2> QED BY <2>1
<1>3. PICK p : p = ObjectParts(l)
  OBVIOUS
<1>4. ASSUME NEW i \in DOMAIN l
      PROVE  /\ p[i] \in Texts /\ p[i] # <<>> /\ Last(p[i]) = End(l[i][2])
             /\ Throw \in ToSet(p[i]) <=> Altered[l[i][2]]
  <2>1. p[i] = Labelled(l[i][1], CanonicalJson[l[i][2]])
    BY <1>3 DEF ObjectParts
  <2>2. PICK t \in Texts, k \in Keys :
          /\ t = CanonicalJson[l[i][2]] /\ k = l[i][1] /\ t # <<>> /\ Last(t) = End(l[i][2])
          /\ Throw \in ToSet(t) <=> Altered[l[i][2]]
    BY <1>2 DEF Written
  <2>3. /\ Labelled(k, t) \in Texts /\ Labelled(k, t) # <<>> /\ Last(Labelled(k, t)) = Last(t)
        /\ Throw \in ToSet(Labelled(k, t)) <=> Throw \in ToSet(t)
    BY <2>2, LabelledFacts
  <2> QED BY <2>1, <2>2, <2>3
<1>5. p \in Seq(Texts) /\ Len(p) = Len(l) /\ DOMAIN p = DOMAIN l
  <2>1. DOMAIN p = 1 .. Len(l) /\ p = [i \in 1 .. Len(l) |-> p[i]]
    BY <1>1, <1>3 DEF ObjectParts
  <2>2. PICK n \in Nat : n = Len(l)
    BY <1>1
  <2>3. p \in [1 .. n -> Texts]
    BY <1>1, <1>4, <2>1, <2>2
  <2>4. p \in Seq(Texts)
    <3>1. [1 .. n -> Texts] \in {[1 .. k -> Texts] : k \in Nat}
      OBVIOUS
    <3>2. p \in UNION {[1 .. k -> Texts] : k \in Nat}
      BY <2>3, <3>1
    <3> QED BY <3>2, SeqDef, Zenon
  <2>5. Len(p) \in Nat /\ DOMAIN p = 1 .. Len(p)
    BY <2>4, LenProperties
  <2>6. PICK a \in Nat : a = Len(p)
    BY <2>5
  <2>7. 1 .. a = 1 .. n
    BY <2>1, <2>2, <2>5, <2>6
  <2>8. a = n
    BY <2>7
  <2> QED BY <1>1, <2>1, <2>2, <2>4, <2>6, <2>8
<1>6. ClosedApart(p, Brace)
  <2> SUFFICES ASSUME NEW i \in DOMAIN p PROVE p[i] # <<>> /\ Last(p[i]) \notin {Brace, Comma}
    BY DEF ClosedApart
  <2>1. End(l[i][2]) \notin {Brace, Comma}
    BY <1>2, <1>5, EndsOfValues
  <2> QED BY <1>4, <1>5, <2>1
<1>7. ObjectText(CanonicalJson, l) = Text(Brace, p, CloseBrace)
  BY <1>3, Zenon DEF ObjectText, ObjectParts
<1>8. /\ Brace \in Nat /\ CloseBrace \in Nat /\ Brace # Throw /\ CloseBrace # Throw
  BY DEF Brace, CloseBrace, Throw
<1>9. PICK x : x = Text(Brace, p, CloseBrace)
  OBVIOUS
<1>10. /\ x \in Texts /\ x # <<>> /\ Last(x) = CloseBrace
       /\ Throw \in ToSet(x) <=> \E i \in DOMAIN p : Throw \in ToSet(p[i])
  BY <1>5, <1>8, <1>9, TextFacts
<1>11. Throw \in ToSet(x) <=> \E i \in DOMAIN l : Altered[l[i][2]]
  BY <1>4, <1>5, <1>10
<1> QED BY <1>3, <1>5, <1>6, <1>7, <1>9, <1>10, <1>11

\* The parts of the text of an array.
ArrayParts(e) == [i \in DOMAIN e |-> CanonicalJson[e[i]]]

\* A list of values is written as a text.
LEMMA ArrayWritten ==
  ASSUME CanonicalAssumption, NEW e \in Seq(Values), \A i \in DOMAIN e : Written(e[i])
  PROVE  /\ ArrayParts(e) \in Seq(Texts) /\ Len(ArrayParts(e)) = Len(e)
         /\ ClosedApart(ArrayParts(e), Bracket)
         /\ Text(Bracket, ArrayParts(e), CloseBracket) \in Texts
         /\ Text(Bracket, ArrayParts(e), CloseBracket) # <<>>
         /\ Last(Text(Bracket, ArrayParts(e), CloseBracket)) = CloseBracket
         /\ Throw \in ToSet(Text(Bracket, ArrayParts(e), CloseBracket))
              <=> \E i \in DOMAIN e : Altered[e[i]]
<1>1. Len(e) \in Nat /\ DOMAIN e = 1 .. Len(e) /\ \A i \in DOMAIN e : e[i] \in Values
  BY LenProperties, ElementOfSeq
<1>2. PICK p : p = ArrayParts(e)
  OBVIOUS
<1>3. ASSUME NEW i \in DOMAIN e
      PROVE  /\ p[i] \in Texts /\ p[i] # <<>> /\ Last(p[i]) = End(e[i])
             /\ Throw \in ToSet(p[i]) <=> Altered[e[i]]
  <2>1. p[i] = CanonicalJson[e[i]]
    BY <1>2 DEF ArrayParts
  <2> QED BY <2>1 DEF Written
<1>4. p \in Seq(Texts) /\ Len(p) = Len(e) /\ DOMAIN p = DOMAIN e
  <2>1. DOMAIN p = 1 .. Len(e) /\ p = [i \in 1 .. Len(e) |-> p[i]]
    BY <1>1, <1>2 DEF ArrayParts
  <2>2. PICK n \in Nat : n = Len(e)
    BY <1>1
  <2>3. p \in [1 .. n -> Texts]
    BY <1>1, <1>3, <2>1, <2>2
  <2>4. p \in Seq(Texts)
    <3>1. [1 .. n -> Texts] \in {[1 .. k -> Texts] : k \in Nat}
      OBVIOUS
    <3>2. p \in UNION {[1 .. k -> Texts] : k \in Nat}
      BY <2>3, <3>1
    <3> QED BY <3>2, SeqDef, Zenon
  <2>5. Len(p) \in Nat /\ DOMAIN p = 1 .. Len(p)
    BY <2>4, LenProperties
  <2>6. PICK a \in Nat : a = Len(p)
    BY <2>5
  <2>7. 1 .. a = 1 .. n
    BY <2>1, <2>2, <2>5, <2>6
  <2>8. a = n
    BY <2>7
  <2> QED BY <1>1, <2>1, <2>2, <2>4, <2>6, <2>8
<1>5. ClosedApart(p, Bracket)
  <2> SUFFICES ASSUME NEW i \in DOMAIN p PROVE p[i] # <<>> /\ Last(p[i]) \notin {Bracket, Comma}
    BY DEF ClosedApart
  <2>1. End(e[i]) \notin {Bracket, Comma}
    BY <1>1, <1>4, EndsOfValues
  <2> QED BY <1>3, <1>4, <2>1
<1>6. /\ Bracket \in Nat /\ CloseBracket \in Nat /\ Bracket # Throw /\ CloseBracket # Throw
  BY DEF Bracket, CloseBracket, Throw
<1>7. PICK x : x = Text(Bracket, p, CloseBracket)
  OBVIOUS
<1>8. /\ x \in Texts /\ x # <<>> /\ Last(x) = CloseBracket
      /\ Throw \in ToSet(x) <=> \E i \in DOMAIN p : Throw \in ToSet(p[i])
  BY <1>4, <1>6, <1>7, TextFacts
<1>9. Throw \in ToSet(x) <=> \E i \in DOMAIN e : Altered[e[i]]
  BY <1>3, <1>4, <1>8
<1> QED BY <1>2, <1>4, <1>5, <1>7, <1>8, <1>9

\* What is written of each kind of value.
LEMMA OfEachKind ==
  ASSUME CanonicalAssumption, NEW v \in Values
  PROVE  /\ v[1] = "array" =>
              /\ CanonicalJson[v] = Text(Bracket, ArrayParts(v[2]), CloseBracket)
              /\ Meaning[v] = <<"array", [i \in DOMAIN v[2] |-> Meaning[v[2][i]]]>>
              /\ Altered[v] = \E i \in DOMAIN v[2] : Altered[v[2][i]]
         /\ v[1] = "object" =>
              /\ CanonicalJson[v] = ObjectText(CanonicalJson, ByKey(v[2], Present(v)))
              /\ Meaning[v] = <<"object", Said(Meaning, v[2], Present(v))>>
              /\ Altered[v] = \E i \in Present(v) : Altered[v[2][i][2]]
         /\ v[1] # "array" /\ v[1] # "object" =>
              /\ CanonicalJson[v] = Leaf(v) /\ Meaning[v] = v
              /\ Altered[v] = (v[1] \notin {"null", "number"})
<1>1. /\ CanonicalJson[v] = JsonText(CanonicalJson, v)
      /\ Meaning[v] = Says(Meaning, v) /\ Altered[v] = Alters(Altered, v)
  BY OfEachValue
<1>2. ASSUME v[1] = "array" 
      PROVE  /\ CanonicalJson[v] = Text(Bracket, ArrayParts(v[2]), CloseBracket)
             /\ Meaning[v] = <<"array", [i \in DOMAIN v[2] |-> Meaning[v[2][i]]]>>
             /\ Altered[v] = \E i \in DOMAIN v[2] : Altered[v[2][i]]
  <2>1. JsonText(CanonicalJson, v) = Text(Bracket, ArrayParts(v[2]), CloseBracket)
    BY <1>2, Zenon DEF JsonText, ArrayParts
  <2>2. Says(Meaning, v) = <<"array", [i \in DOMAIN v[2] |-> Meaning[v[2][i]]]>>
    BY <1>2, Zenon DEF Says
  <2>3. Alters(Altered, v) = \E i \in DOMAIN v[2] : Altered[v[2][i]]
    BY <1>2, Zenon DEF Alters
  <2> QED BY <1>1, <2>1, <2>2, <2>3, Zenon
<1>3. ASSUME v[1] = "object" 
      PROVE  /\ CanonicalJson[v] = ObjectText(CanonicalJson, ByKey(v[2], Present(v)))
             /\ Meaning[v] = <<"object", Said(Meaning, v[2], Present(v))>>
             /\ Altered[v] = \E i \in Present(v) : Altered[v[2][i][2]]
  <2>0. v[1] # "array"
    BY <1>3
  <2>1. JsonText(CanonicalJson, v) = ObjectText(CanonicalJson, ByKey(v[2], Present(v)))
    BY <1>3, <2>0 DEF JsonText
  <2>2. Says(Meaning, v) = <<"object", Said(Meaning, v[2], Present(v))>>
    BY <1>3, <2>0 DEF Says
  <2>3. Alters(Altered, v) = \E i \in Present(v) : Altered[v[2][i][2]]
    BY <1>3, <2>0 DEF Alters
  <2> QED BY <1>1, <2>1, <2>2, <2>3, Zenon
<1>4. ASSUME v[1] # "array", v[1] # "object" 
      PROVE  /\ CanonicalJson[v] = Leaf(v) /\ Meaning[v] = v
             /\ Altered[v] = (v[1] \notin {"null", "number"})
  <2>1. JsonText(CanonicalJson, v) = Leaf(v)
    BY <1>4, Zenon DEF JsonText
  <2>2. Says(Meaning, v) = v
    BY <1>4, Zenon DEF Says
  <2>3. Alters(Altered, v) = (v[1] \notin {"null", "number"})
    BY <1>4, Zenon DEF Alters
  <2> QED BY <1>1, <2>1, <2>2, <2>3, Zenon
<1> QED BY <1>2, <1>3, <1>4, Zenon

\* What holds of a value if it holds of those within it holds of all values.
LEMMA ByDepth ==
  ASSUME CanonicalAssumption, NEW S,
         \A v \in Values : Contents(v) \subseteq S => v \in S
  PROVE  Values \subseteq S
<1> DEFINE N == {n \in Nat : Small(n) \subseteq S}
<1>1. 0 \in N
  BY DEF Small, CanonicalAssumption
<1>2. ASSUME NEW n \in Nat, n \in N PROVE n + 1 \in N
  <2> SUFFICES ASSUME NEW v \in Small(n + 1) PROVE v \in S
    OBVIOUS
  <2>1. v \in Values /\ Depth[v] \in Nat /\ Depth[v] < n + 1
    BY DEF Small, CanonicalAssumption
  <2>2. Contents(v) \subseteq Small(Depth[v])
    BY <2>1, Within
  <2>3. Small(Depth[v]) \subseteq Small(n)
    BY <2>1 DEF Small, CanonicalAssumption
  <2> QED BY <1>2, <2>1, <2>2, <2>3
<1> HIDE DEF N
<1>3. Nat \subseteq N
  BY <1>1, <1>2, NatSet
<1>4. ASSUME NEW v \in Values PROVE v \in S
  <2>1. PICK n \in Nat : n = Depth[v] + 1 /\ Depth[v] \in Nat
    BY DEF CanonicalAssumption
  <2>2. v \in Small(n)
    BY <2>1 DEF Small
  <2> QED BY <1>3, <2>2 DEF N
<1> QED BY <1>4

\* Every value is written as it should be.
LEMMA AllWritten ==
  ASSUME CanonicalAssumption
  PROVE  \A v \in Values : Written(v)
<1> DEFINE S == {v \in Values : Written(v)}
<1>1. ASSUME NEW v \in Values, \A w \in Contents(v) : Written(w) PROVE Written(v)
  <2>1. CASE v[1] = "array"
    <3>1. v[2] \in Seq(Values)
      BY <2>1, KindsOfValues
    <3>2. \A i \in DOMAIN v[2] : Written(v[2][i])
      BY <1>1, <2>1, Within
    <3>3. PICK e \in Seq(Values) : e = v[2]
      BY <3>1
    <3>4. PICK x : x = Text(Bracket, ArrayParts(e), CloseBracket)
      OBVIOUS
    <3>5. /\ x \in Texts /\ x # <<>> /\ Last(x) = CloseBracket
          /\ Throw \in ToSet(x) <=> \E i \in DOMAIN e : Altered[e[i]]
      BY <3>2, <3>3, <3>4, ArrayWritten
    <3>6. /\ CanonicalJson[v] = x /\ Altered[v] = \E i \in DOMAIN e : Altered[e[i]]
      BY <2>1, <3>3, <3>4, OfEachKind
    <3>7. End(v) = CloseBracket
      BY <2>1 DEF End
    <3> QED BY <3>5, <3>6, <3>7 DEF Written
  <2>2. CASE v[1] = "object"
    <3>0. Present(v) \in SUBSET DOMAIN v[2]
      BY DEF Present
    <3>1. PICK l : l = ByKey(v[2], Present(v))
      OBVIOUS
    <3>2. /\ l \in Seq(Keys \X Values) /\ \A i \in DOMAIN l : l[i][2] \in Contents(v)
      BY <2>2, <3>0, <3>1, MembersAre
    <3>3. PICK x : x = ObjectText(CanonicalJson, l)
      OBVIOUS
    <3>4. \A i \in DOMAIN l : Written(l[i][2])
      BY <1>1, <3>2
    <3>5. /\ x \in Texts /\ x # <<>> /\ Last(x) = CloseBrace
          /\ Throw \in ToSet(x) <=> \E i \in DOMAIN l : Altered[l[i][2]]
      BY <3>2, <3>3, <3>4, ObjectWritten
    <3>6. CanonicalJson[v] = x /\ Altered[v] = \E i \in Present(v) : Altered[v[2][i][2]]
      BY <2>2, <3>1, <3>3, OfEachKind
    <3>7. (\E i \in DOMAIN l : Altered[l[i][2]]) = \E i \in Present(v) : Altered[v[2][i][2]]
      <4>1. {l[i] : i \in DOMAIN l} = Members(v[2], Present(v))
        <5>1. IsByKey(ByKey(v[2], Present(v)), Members(v[2], Present(v)))
          BY <2>2, <3>0, MembersAre
        <5> QED BY <3>1, <5>1 DEF IsByKey
      <4>2. PICK s, I : s = v[2] /\ I = Present(v)
        OBVIOUS
      <4>3. {l[i] : i \in DOMAIN l} = {s[i] : i \in I}
        BY <4>1, <4>2 DEF Members
      <4>4. (\E i \in DOMAIN l : Altered[l[i][2]]) = \E i \in I : Altered[s[i][2]]
        <5>1. \A i \in DOMAIN l : \E j \in I : l[i] = s[j]
          <6>1. \A i \in DOMAIN l : l[i] \in {s[j] : j \in I}
            BY <4>3
          <6> QED BY <6>1
        <5>2. \A j \in I : \E i \in DOMAIN l : l[i] = s[j]
          <6>1. \A j \in I : s[j] \in {l[i] : i \in DOMAIN l}
            BY <4>3
          <6> QED BY <6>1
        <5>3. (\E i \in DOMAIN l : Altered[l[i][2]]) <=> \E i \in I : Altered[s[i][2]]
          BY <5>1, <5>2, Zenon
        <5> QED BY <5>3
      <4> QED BY <4>2, <4>4
    <3>8. End(v) = CloseBrace
      BY <2>2 DEF End
    <3> QED BY <3>5, <3>6, <3>7, <3>8 DEF Written
  <2>3. CASE v[1] # "array" /\ v[1] # "object"
    <3>1. CanonicalJson[v] = Leaf(v) /\ Altered[v] = (v[1] \notin {"null", "number"})
      BY <2>3, OfEachKind
    <3>2. PICK c : c = End(v)
      OBVIOUS
    <3>3. Leaf(v) = <<c>> /\ c \in Nat /\ (c = Throw <=> v[1] \notin {"null", "number"})
      BY <2>3, <3>2, LeafEnds
    <3>4. <<c>> \in Texts /\ <<c>> # <<>> /\ Last(<<c>>) = c /\ ToSet(<<c>>) = {c}
      BY <3>3, OneLetter
    <3>5. PICK x : x = CanonicalJson[v]
      OBVIOUS
    <3>6. x \in Texts /\ x # <<>> /\ Last(x) = End(v) /\ ToSet(x) = {c}
      BY <3>1, <3>2, <3>3, <3>4, <3>5
    <3>7. Throw \in ToSet(x) <=> Altered[v]
      BY <3>1, <3>3, <3>6
    <3> QED BY <3>5, <3>6, <3>7 DEF Written
  <2> QED BY <2>1, <2>2, <2>3
<1>2. \A v \in Values : Contents(v) \subseteq S => v \in S
  BY <1>1
<1>3. Values \subseteq S
  <2> HIDE DEF S
  <2> QED BY <1>2, ByDepth
<1> QED BY <1>3

\* What a list of members says.
SaidList(l) == {<<l[i][1], Meaning[l[i][2]]>> : i \in DOMAIN l}
SortedList(l) == l \in Seq(Keys \X Values) /\ \A i, j \in DOMAIN l : i < j => l[i][1] < l[j][1]

\* Sorting the members of an object leaves what they say.
LEMMA SaidByKey ==
  ASSUME CanonicalAssumption, NEW v \in Values, v[1] = "object", NEW I \in SUBSET DOMAIN v[2]
  PROVE  /\ SortedList(ByKey(v[2], I))
         /\ Said(Meaning, v[2], I) = SaidList(ByKey(v[2], I))
         /\ \A i \in DOMAIN ByKey(v[2], I) : \E j \in I : ByKey(v[2], I)[i] = v[2][j]
<1>1. PICK l, s : l = ByKey(v[2], I) /\ s = v[2]
  OBVIOUS
<1>2. IsByKey(l, Members(s, I)) /\ l \in Seq(Keys \X Values)
  BY <1>1, MembersAre
<1>3. SortedList(l)
  BY <1>2 DEF IsByKey, SortedList
<1>4. {l[i] : i \in DOMAIN l} = {s[j] : j \in I}
  BY <1>2 DEF IsByKey, Members
<1>5. \A i \in DOMAIN l : \E j \in I : l[i] = s[j]
  <2>1. \A i \in DOMAIN l : l[i] \in {s[j] : j \in I}
    BY <1>4
  <2> QED BY <2>1
<1>6. \A j \in I : \E i \in DOMAIN l : l[i] = s[j]
  <2>1. \A j \in I : s[j] \in {l[i] : i \in DOMAIN l}
    BY <1>4
  <2> QED BY <2>1
<1>7. Said(Meaning, s, I) \subseteq SaidList(l)
  <2> SUFFICES ASSUME NEW j \in I PROVE <<s[j][1], Meaning[s[j][2]]>> \in SaidList(l)
    BY DEF Said
  <2>1. PICK i \in DOMAIN l : l[i] = s[j]
    BY <1>6
  <2> QED BY <2>1, Zenon DEF SaidList
<1>8. SaidList(l) \subseteq Said(Meaning, s, I)
  <2> SUFFICES ASSUME NEW i \in DOMAIN l PROVE <<l[i][1], Meaning[l[i][2]]>> \in Said(Meaning, s, I)
    BY DEF SaidList
  <2>1. PICK j \in I : l[i] = s[j]
    BY <1>5
  <2> QED BY <2>1, Zenon DEF Said
<1>9. Said(Meaning, s, I) = SaidList(l)
  BY <1>7, <1>8
<1> QED BY <1>1, <1>3, <1>5, <1>9

\* Sorted lists that say the same have the same keys at the same places, with
\* values that say the same.
LEMMA SameSaid ==
  ASSUME NEW l, NEW m, SortedList(l), SortedList(m), SaidList(l) = SaidList(m)
  PROVE  /\ Len(l) = Len(m)
         /\ \A i \in DOMAIN l : l[i][1] = m[i][1] /\ Meaning[l[i][2]] = Meaning[m[i][2]]
<1>1. /\ l \in Seq(Keys \X Values) /\ \A i, j \in DOMAIN l : i < j => l[i][1] < l[j][1]
      /\ m \in Seq(Keys \X Values) /\ \A i, j \in DOMAIN m : i < j => m[i][1] < m[j][1]
  BY DEF SortedList
<1>2. \A i \in DOMAIN l : \E j \in DOMAIN m :
        l[i][1] = m[j][1] /\ Meaning[l[i][2]] = Meaning[m[j][2]]
  <2> SUFFICES ASSUME NEW i \in DOMAIN l
               PROVE  \E j \in DOMAIN m : l[i][1] = m[j][1] /\ Meaning[l[i][2]] = Meaning[m[j][2]]
    OBVIOUS
  <2>1. <<l[i][1], Meaning[l[i][2]]>> \in SaidList(m)
    <3>1. <<l[i][1], Meaning[l[i][2]]>> \in SaidList(l)
      BY Zenon DEF SaidList
    <3> QED BY <3>1
  <2>2. PICK j \in DOMAIN m : <<l[i][1], Meaning[l[i][2]]>> = <<m[j][1], Meaning[m[j][2]]>>
    BY <2>1 DEF SaidList
  <2> QED BY <2>2
<1>3. \A j \in DOMAIN m : \E i \in DOMAIN l : l[i][1] = m[j][1]
  <2> SUFFICES ASSUME NEW j \in DOMAIN m PROVE \E i \in DOMAIN l : l[i][1] = m[j][1]
    OBVIOUS
  <2>1. <<m[j][1], Meaning[m[j][2]]>> \in SaidList(l)
    <3>1. <<m[j][1], Meaning[m[j][2]]>> \in SaidList(m)
      BY Zenon DEF SaidList
    <3> QED BY <3>1
  <2>2. PICK i \in DOMAIN l : <<m[j][1], Meaning[m[j][2]]>> = <<l[i][1], Meaning[l[i][2]]>>
    BY <2>1 DEF SaidList
  <2> QED BY <2>2
<1>4. {l[i][1] : i \in DOMAIN l} = {m[i][1] : i \in DOMAIN m}
  BY <1>2, <1>3
<1>5. Len(l) = Len(m) /\ \A i \in DOMAIN l : l[i][1] = m[i][1]
  BY <1>1, <1>4, SameKeysSamePlaces
<1>6. \A i, j \in DOMAIN m : m[i][1] = m[j][1] => i = j
  <2> SUFFICES ASSUME NEW i \in DOMAIN m, NEW j \in DOMAIN m, m[i][1] = m[j][1] PROVE i = j
    OBVIOUS
  <2>1. DOMAIN m = 1 .. Len(m) /\ m[i] \in Keys \X Values /\ m[j] \in Keys \X Values
    BY <1>1, LenProperties, ElementOfSeq
  <2>2. m[i][1] \in Nat
    BY <2>1 DEF Keys
  <2>3. ~(m[i][1] < m[j][1]) /\ ~(m[j][1] < m[i][1])
    BY <2>2
  <2>4. ~(i < j) /\ ~(j < i)
    BY <1>1, <2>3
  <2>5. i \in Int /\ j \in Int
    BY <2>1
  <2> QED BY <2>4, <2>5
<1>7. DOMAIN l = DOMAIN m
  <2>1. DOMAIN l = 1 .. Len(l) /\ DOMAIN m = 1 .. Len(m)
    BY <1>1, LenProperties
  <2> QED BY <1>5, <2>1
<1>8. ASSUME NEW i \in DOMAIN l PROVE Meaning[l[i][2]] = Meaning[m[i][2]]
  <2>1. PICK j \in DOMAIN m : l[i][1] = m[j][1] /\ Meaning[l[i][2]] = Meaning[m[j][2]]
    BY <1>2
  <2>2. j = i
    BY <1>5, <1>6, <1>7, <2>1
  <2> QED BY <2>1, <2>2
<1> QED BY <1>5, <1>8

\* Values that say what v says are written like v.
Alike(v) == \A w \in Values : Meaning[v] = Meaning[w] => CanonicalJson[v] = CanonicalJson[w]

\* Members that say the same are written alike.
LEMMA ObjectsAlike ==
  ASSUME NEW l, NEW m, SortedList(l), SortedList(m), SaidList(l) = SaidList(m),
         \A i \in DOMAIN l : Alike(l[i][2])
  PROVE  ObjectText(CanonicalJson, l) = ObjectText(CanonicalJson, m)
<1>1. /\ Len(l) = Len(m)
      /\ \A i \in DOMAIN l : l[i][1] = m[i][1] /\ Meaning[l[i][2]] = Meaning[m[i][2]]
  BY SameSaid
<1>2. /\ DOMAIN l = 1 .. Len(l) /\ DOMAIN m = 1 .. Len(m)
      /\ \A i \in DOMAIN m : m[i] \in Keys \X Values
  BY LenProperties, ElementOfSeq DEF SortedList
<1>3. DOMAIN l = DOMAIN m
  BY <1>1, <1>2
<1>4. \A i \in DOMAIN m : m[i][2] \in Values
  BY <1>2
<1>5. \A i \in DOMAIN l : CanonicalJson[l[i][2]] = CanonicalJson[m[i][2]]
  BY <1>1, <1>3, <1>4 DEF Alike
<1>6. [i \in DOMAIN l |-> Labelled(l[i][1], CanonicalJson[l[i][2]])]
        = [i \in DOMAIN m |-> Labelled(m[i][1], CanonicalJson[m[i][2]])]
  BY <1>1, <1>3, <1>5
<1> QED BY <1>6, Zenon DEF ObjectText

\* So are all values that do.
LEMMA AllAlike ==
  ASSUME CanonicalAssumption
  PROVE  \A v \in Values : Alike(v)
<1> DEFINE S == {v \in Values : Alike(v)}
<1>1. ASSUME NEW v \in Values, \A u \in Contents(v) : Alike(u) PROVE Alike(v)
  <2> SUFFICES ASSUME NEW w \in Values, Meaning[v] = Meaning[w]
               PROVE  CanonicalJson[v] = CanonicalJson[w]
    BY DEF Alike
  <2>1. v[1] = w[1]
    <3>1. ASSUME NEW u \in Values PROVE Meaning[u][1] = u[1]
      <4>1. u[1] = "array" => Meaning[u] = <<"array", [i \in DOMAIN u[2] |-> Meaning[u[2][i]]]>>
        BY OfEachKind
      <4>2. u[1] = "object" => Meaning[u] = <<"object", Said(Meaning, u[2], Present(u))>>
        BY OfEachKind
      <4>3. u[1] # "array" /\ u[1] # "object" => Meaning[u] = u
        BY OfEachKind
      <4> QED BY <4>1, <4>2, <4>3
    <3> QED BY <3>1
  <2>2. CASE v[1] = "array"
    <3>1. PICK e, d : e = v[2] /\ d = w[2]
      OBVIOUS
    <3>2. e \in Seq(Values) /\ d \in Seq(Values)
      BY <2>1, <2>2, <3>1, KindsOfValues
    <3>3. /\ Meaning[v] = <<"array", [i \in DOMAIN e |-> Meaning[e[i]]]>>
          /\ CanonicalJson[v] = Text(Bracket, ArrayParts(e), CloseBracket)
      <4>1. /\ Meaning[v] = <<"array", [i \in DOMAIN v[2] |-> Meaning[v[2][i]]]>>
            /\ CanonicalJson[v] = Text(Bracket, ArrayParts(v[2]), CloseBracket)
        BY <2>2, OfEachKind
      <4> QED BY <3>1, <4>1, Zenon
    <3>4. /\ Meaning[w] = <<"array", [i \in DOMAIN d |-> Meaning[d[i]]]>>
          /\ CanonicalJson[w] = Text(Bracket, ArrayParts(d), CloseBracket)
      <4>1. /\ Meaning[w] = <<"array", [i \in DOMAIN w[2] |-> Meaning[w[2][i]]]>>
            /\ CanonicalJson[w] = Text(Bracket, ArrayParts(w[2]), CloseBracket)
        BY <2>1, <2>2, OfEachKind
      <4> QED BY <3>1, <4>1, Zenon
    <3>5. [i \in DOMAIN e |-> Meaning[e[i]]] = [i \in DOMAIN d |-> Meaning[d[i]]]
      <4>1. PICK a, b : /\ a = [i \in DOMAIN e |-> Meaning[e[i]]]
                        /\ b = [i \in DOMAIN d |-> Meaning[d[i]]]
        OBVIOUS
      <4>2. <<"array", a>> = <<"array", b>>
        BY <3>3, <3>4, <4>1, Zenon
      <4>3. a = b
        BY <4>2
      <4> QED BY <4>1, <4>3, Zenon
    <3>6. DOMAIN e = DOMAIN d
      BY <3>5
    <3>7. \A i \in DOMAIN e : Meaning[e[i]] = Meaning[d[i]]
      BY <3>5, <3>6
    <3>8. \A i \in DOMAIN d : d[i] \in Values
      BY <3>2, LenProperties, ElementOfSeq
    <3>9. \A i \in DOMAIN e : CanonicalJson[e[i]] = CanonicalJson[d[i]]
      <4>1. \A i \in DOMAIN e : Alike(e[i])
        BY <1>1, <2>2, <3>1, Within
      <4> QED BY <3>6, <3>7, <3>8, <4>1 DEF Alike
    <3>10. ArrayParts(e) = ArrayParts(d)
      BY <3>6, <3>9 DEF ArrayParts
    <3> QED BY <3>3, <3>4, <3>10
  <2>3. CASE v[1] = "object"
    <3>1. PICK l, m : l = ByKey(v[2], Present(v)) /\ m = ByKey(w[2], Present(w))
      OBVIOUS
    <3>2. Present(v) \in SUBSET DOMAIN v[2] /\ Present(w) \in SUBSET DOMAIN w[2]
      BY DEF Present
    <3>3. SortedList(l) /\ Said(Meaning, v[2], Present(v)) = SaidList(l)
      BY <2>3, <3>1, <3>2, SaidByKey
    <3>4. SortedList(m) /\ Said(Meaning, w[2], Present(w)) = SaidList(m)
      BY <2>1, <2>3, <3>1, <3>2, SaidByKey
    <3>5. /\ Meaning[v] = <<"object", Said(Meaning, v[2], Present(v))>>
          /\ CanonicalJson[v] = ObjectText(CanonicalJson, l)
      BY <2>3, <3>1, OfEachKind
    <3>6. /\ Meaning[w] = <<"object", Said(Meaning, w[2], Present(w))>>
          /\ CanonicalJson[w] = ObjectText(CanonicalJson, m)
      BY <2>1, <2>3, <3>1, OfEachKind
    <3>7. SaidList(l) = SaidList(m)
      <4>1. PICK a, b : a = SaidList(l) /\ b = SaidList(m)
        OBVIOUS
      <4>2. <<"object", a>> = <<"object", b>>
        BY <3>3, <3>4, <3>5, <3>6, <4>1, Zenon
      <4>3. a = b
        BY <4>2
      <4> QED BY <4>1, <4>3
    <3>8. \A i \in DOMAIN l : Alike(l[i][2])
      <4>1. \A i \in DOMAIN l : l[i][2] \in Contents(v)
        BY <2>3, <3>1, <3>2, MembersAre
      <4> QED BY <1>1, <4>1
    <3>9. ObjectText(CanonicalJson, l) = ObjectText(CanonicalJson, m)
      BY <3>3, <3>4, <3>7, <3>8, ObjectsAlike
    <3> QED BY <3>5, <3>6, <3>9
  <2>4. CASE v[1] # "array" /\ v[1] # "object"
    <3>1. Meaning[v] = v
      BY <2>4, OfEachKind
    <3>2. Meaning[w] = w
      BY <2>1, <2>4, OfEachKind
    <3> QED BY <3>1, <3>2
  <2> QED BY <2>2, <2>3, <2>4
<1>2. \A v \in Values : Contents(v) \subseteq S => v \in S
  BY <1>1
<1>3. Values \subseteq S
  <2> HIDE DEF S
  <2> QED BY <1>2, ByDepth
<1> QED BY <1>3

\* JSON does not alter v.
Unaltered(v) == ~Altered[v]

\* The text of v, read off the end of whatever it is written after, tells what
\* v says, when JSON alters neither it nor the value it is taken for.
Tells(v) ==
  Unaltered(v) => \A w \in Values : Unaltered(w) => \A s, t \in Texts :
    s ++ CanonicalJson[v] = t ++ CanonicalJson[w] => s = t /\ Meaning[v] = Meaning[w]

\* So do the same with a label, and a list of members.
LabelTells(k, v) ==
  \A n \in Keys, w \in Values : Unaltered(w) => \A s, t \in Texts :
    s ++ Labelled(k, CanonicalJson[v]) = t ++ Labelled(n, CanonicalJson[w])
      => s = t /\ k = n /\ Meaning[v] = Meaning[w]
ListTells(l) ==
  \A m \in Seq(Keys \X Values) : (\A i \in DOMAIN m : Unaltered(m[i][2])) => \A s, t \in Texts :
    s ++ ObjectText(CanonicalJson, l) = t ++ ObjectText(CanonicalJson, m)
      => s = t /\ SaidList(l) = SaidList(m)

\* A number is known by its letter.
LEMMA NumberBytes ==
  ASSUME NEW a \in 0 .. 9, NEW b \in 0 .. 9, NumberByte(a) = NumberByte(b)
  PROVE  a = b
BY DEF NumberByte

\* So is a key.
LEMMA KeyOfByte ==
  ASSUME NEW k \in Keys, NEW n \in Keys, KeyByte(k) = KeyByte(n)
  PROVE  k = n
BY DEF KeyByte, Keys

\* A labelled value tells what it says if the value does.
LEMMA LabelledTells ==
  ASSUME CanonicalAssumption, NEW k \in Keys, NEW v \in Values, Tells(v), Unaltered(v)
  PROVE  LabelTells(k, v)
<1> SUFFICES ASSUME NEW n \in Keys, NEW w \in Values, Unaltered(w),
                    NEW s \in Texts, NEW t \in Texts,
                    s ++ Labelled(k, CanonicalJson[v]) = t ++ Labelled(n, CanonicalJson[w])
             PROVE  s = t /\ k = n /\ Meaning[v] = Meaning[w]
  BY DEF LabelTells
<1>1. CanonicalJson[v] \in Texts /\ CanonicalJson[w] \in Texts
  BY AllWritten DEF Written
<1>2. KeyByte(k) \in Nat /\ KeyByte(n) \in Nat /\ Colon \in Nat
  BY DEF KeyByte, Keys, Colon
<1>3. PICK a \in Texts : a = <<KeyByte(k)>> /\ a # <<>> /\ Last(a) = KeyByte(k)
  BY <1>2, OneLetter
<1>4. PICK b \in Texts : b = <<KeyByte(n)>> /\ b # <<>> /\ Last(b) = KeyByte(n)
  BY <1>2, OneLetter
<1>5. PICK c \in Texts : c = <<Colon>>
  BY <1>2, OneLetter
<1>6. PICK x \in Texts : x = s ++ a
  BY TwoTogether
<1>7. PICK y \in Texts : y = t ++ b
  BY TwoTogether
<1>8. x ++ c \in Texts /\ y ++ c \in Texts
  BY TwoTogether
<1>9. s ++ Labelled(k, CanonicalJson[v]) = (x ++ c) ++ CanonicalJson[v]
  BY <1>1, <1>3, <1>5, <1>6, LabelledAfter
<1>10. t ++ Labelled(n, CanonicalJson[w]) = (y ++ c) ++ CanonicalJson[w]
  BY <1>1, <1>4, <1>5, <1>7, LabelledAfter
<1>11. x ++ c = y ++ c /\ Meaning[v] = Meaning[w]
  BY <1>8, <1>9, <1>10 DEF Tells
<1>12. x = y
  BY <1>11, SameEnd
<1>13. Last(x) = KeyByte(k) /\ Last(y) = KeyByte(n)
  BY <1>3, <1>4, <1>6, <1>7, Together
<1>14. k = n
  <2>1. KeyByte(k) = KeyByte(n)
    BY <1>12, <1>13, Zenon
  <2> QED BY <2>1, KeyOfByte
<1>15. s = t
  <2>1. s ++ a = t ++ a
    BY <1>3, <1>4, <1>6, <1>7, <1>12, <1>14
  <2> QED BY <2>1, SameEnd
<1> QED BY <1>11, <1>14, <1>15

\* A list of members does if its values do.
LEMMA ObjectsTell ==
  ASSUME CanonicalAssumption, NEW l \in Seq(Keys \X Values),
         \A i \in DOMAIN l : Tells(l[i][2]) /\ Unaltered(l[i][2])
  PROVE  ListTells(l)
<1> SUFFICES ASSUME NEW m \in Seq(Keys \X Values), \A i \in DOMAIN m : Unaltered(m[i][2]),
                    NEW s \in Texts, NEW t \in Texts,
                    s ++ ObjectText(CanonicalJson, l) = t ++ ObjectText(CanonicalJson, m)
             PROVE  s = t /\ SaidList(l) = SaidList(m)
  BY DEF ListTells
<1>1. /\ DOMAIN l = 1 .. Len(l) /\ DOMAIN m = 1 .. Len(m)
      /\ \A i \in DOMAIN l : l[i] \in Keys \X Values
      /\ \A i \in DOMAIN m : m[i] \in Keys \X Values
  BY LenProperties, ElementOfSeq
<1>2. /\ \A i \in DOMAIN l : l[i][1] \in Keys /\ l[i][2] \in Values
      /\ \A i \in DOMAIN m : m[i][1] \in Keys /\ m[i][2] \in Values
  BY <1>1
<1>3. /\ \A i \in DOMAIN l : Written(l[i][2])
      /\ \A i \in DOMAIN m : Written(m[i][2])
  BY <1>2, AllWritten
<1>4. PICK p : p = ObjectParts(l)
  OBVIOUS
<1>5. PICK q : q = ObjectParts(m)
  OBVIOUS
<1>6. /\ p \in Seq(Texts) /\ Len(p) = Len(l) /\ ClosedApart(p, Brace)
      /\ ObjectText(CanonicalJson, l) = Text(Brace, p, CloseBrace)
  BY <1>3, <1>4, ObjectWritten
<1>7. /\ q \in Seq(Texts) /\ Len(q) = Len(m) /\ ClosedApart(q, Brace)
      /\ ObjectText(CanonicalJson, m) = Text(Brace, q, CloseBrace)
  BY <1>3, <1>5, ObjectWritten
<1>8. DOMAIN p = DOMAIN l /\ DOMAIN q = DOMAIN m
  BY <1>4, <1>5 DEF ObjectParts
<1> DEFINE Rel == {e \in (DOMAIN l) \X (DOMAIN m) :
                     l[e[1]][1] = m[e[2]][1] /\ Meaning[l[e[1]][2]] = Meaning[m[e[2]][2]]}
<1>9. Known(p, q, Rel)
  <2> SUFFICES ASSUME NEW i \in DOMAIN p, NEW j \in DOMAIN q, NEW x \in Texts, NEW y \in Texts,
                      x ++ p[i] = y ++ q[j]
               PROVE  x = y /\ <<i, j>> \in Rel
    <3> HIDE DEF Rel
    <3> QED BY DEF Known
  <2>1. /\ p[i] = Labelled(l[i][1], CanonicalJson[l[i][2]])
        /\ q[j] = Labelled(m[j][1], CanonicalJson[m[j][2]])
    BY <1>4, <1>5, <1>8 DEF ObjectParts
  <2>2. PICK k \in Keys, v \in Values : k = l[i][1] /\ v = l[i][2] /\ LabelTells(k, v)
    <3>1. l[i][1] \in Keys /\ l[i][2] \in Values /\ Tells(l[i][2]) /\ Unaltered(l[i][2])
      BY <1>2, <1>8
    <3>2. LabelTells(l[i][1], l[i][2])
      BY <3>1, LabelledTells
    <3> QED BY <3>1, <3>2
  <2>3. PICK n \in Keys, w \in Values : n = m[j][1] /\ w = m[j][2] /\ Unaltered(w)
    BY <1>2, <1>8
  <2>4. x ++ Labelled(k, CanonicalJson[v]) = y ++ Labelled(n, CanonicalJson[w])
    BY <2>1, <2>2, <2>3
  <2>5. x = y /\ k = n /\ Meaning[v] = Meaning[w]
    BY <2>2, <2>3, <2>4 DEF LabelTells
  <2>6. l[i][1] = m[j][1] /\ Meaning[l[i][2]] = Meaning[m[j][2]]
    BY <2>2, <2>3, <2>5
  <2>7. <<i, j>> \in Rel
    <3>1. <<i, j>> \in (DOMAIN l) \X (DOMAIN m) /\ <<i, j>>[1] = i /\ <<i, j>>[2] = j
      BY <1>8
    <3> QED BY <2>6, <3>1, Zenon
  <2> QED BY <2>5, <2>7
<1> HIDE DEF Rel
<1>10. s = t /\ Len(p) = Len(q) /\ \A i \in DOMAIN p : <<i, i>> \in Rel
  <2>1. Brace \in Nat /\ Brace # Comma /\ CloseBrace \in Nat
    BY DEF Brace, Comma, CloseBrace
  <2>2. s ++ Text(Brace, p, CloseBrace) = t ++ Text(Brace, q, CloseBrace)
    BY <1>6, <1>7
  <2> QED BY <1>6, <1>7, <1>9, <2>1, <2>2, TextsRead
<1>11. DOMAIN l = DOMAIN m
  BY <1>1, <1>6, <1>7, <1>10
<1>12. \A i \in DOMAIN l : <<l[i][1], Meaning[l[i][2]]>> = <<m[i][1], Meaning[m[i][2]]>>
  BY <1>8, <1>10 DEF Rel
<1>13. SaidList(l) = SaidList(m)
  <2>1. PICK D : D = DOMAIN l /\ D = DOMAIN m
    BY <1>11
  <2>2. {<<l[i][1], Meaning[l[i][2]]>> : i \in D} = {<<m[i][1], Meaning[m[i][2]]>> : i \in D}
    <3> DEFINE A(i) == <<l[i][1], Meaning[l[i][2]]>>
               B(i) == <<m[i][1], Meaning[m[i][2]]>>
    <3>1. \A i \in D : A(i) = B(i)
      BY <1>12, <2>1
    <3> HIDE DEF A, B
    <3>2. {A(i) : i \in D} = {B(i) : i \in D}
      BY <3>1
    <3> QED BY <3>2 DEF A, B
  <2> QED BY <2>1, <2>2, Zenon DEF SaidList
<1> QED BY <1>10, <1>13

\* So does every value.
LEMMA AllTell ==
  ASSUME CanonicalAssumption
  PROVE  \A v \in Values : Tells(v)
<1> DEFINE S == {v \in Values : Tells(v)}
<1>1. ASSUME NEW v \in Values, \A u \in Contents(v) : Tells(u) PROVE Tells(v)
  <2> SUFFICES ASSUME Unaltered(v), NEW w \in Values, Unaltered(w), NEW s \in Texts, NEW t \in Texts,
                      s ++ CanonicalJson[v] = t ++ CanonicalJson[w]
               PROVE  s = t /\ Meaning[v] = Meaning[w]
    BY DEF Tells
  <2>1. Written(v) /\ Written(w)
    BY AllWritten
  <2>2. End(v) = End(w)
    <3>1. Last(s ++ CanonicalJson[v]) = End(v)
      BY <2>1, Together DEF Written
    <3>2. Last(t ++ CanonicalJson[w]) = End(w)
      BY <2>1, Together DEF Written
    <3> QED BY <3>1, <3>2
  <2>3. \A u \in Values : u[1] # "array" /\ u[1] # "object" /\ Unaltered(u)
          => u[1] \in {"null", "number"}
    BY OfEachKind DEF Unaltered
  <2>4. v[1] = w[1]
    <3>1. ASSUME NEW u \in Values, Unaltered(u)
          PROVE  \/ u[1] = "array" /\ End(u) = 93
                 \/ u[1] = "object" /\ End(u) = 125
                 \/ u[1] = "null" /\ End(u) = 110
                 \/ u[1] = "number" /\ End(u) \in 48 .. 57
      <4>1. u[1] \in {"array", "object", "null"} \/ (u[1] = "number" /\ u[2] \in 0 .. 9)
        BY <2>3, <3>1, KindsOfValues
      <4>2. u[1] = "number" => End(u) = 48 + u[2]
        BY DEF End, NumberByte
      <4> QED BY <4>1, <4>2 DEF End, CloseBrace, CloseBracket, Null
    <3>2. /\ \/ v[1] = "array" /\ End(v) = 93
             \/ v[1] = "object" /\ End(v) = 125
             \/ v[1] = "null" /\ End(v) = 110
             \/ v[1] = "number" /\ End(v) \in 48 .. 57
          /\ \/ w[1] = "array" /\ End(w) = 93
             \/ w[1] = "object" /\ End(w) = 125
             \/ w[1] = "null" /\ End(w) = 110
             \/ w[1] = "number" /\ End(w) \in 48 .. 57
      BY <3>1
    <3> QED BY <2>2, <3>2
  <2>5. CASE v[1] = "array"
    <3>1. PICK e, d : e = v[2] /\ d = w[2]
      OBVIOUS
    <3>2. e \in Seq(Values) /\ d \in Seq(Values)
      BY <2>4, <2>5, <3>1, KindsOfValues
    <3>3. /\ Meaning[v] = <<"array", [i \in DOMAIN e |-> Meaning[e[i]]]>>
          /\ CanonicalJson[v] = Text(Bracket, ArrayParts(e), CloseBracket)
          /\ Altered[v] = \E i \in DOMAIN e : Altered[e[i]]
      <4>1. /\ Meaning[v] = <<"array", [i \in DOMAIN v[2] |-> Meaning[v[2][i]]]>>
            /\ CanonicalJson[v] = Text(Bracket, ArrayParts(v[2]), CloseBracket)
            /\ Altered[v] = \E i \in DOMAIN v[2] : Altered[v[2][i]]
        BY <2>5, OfEachKind
      <4> QED BY <3>1, <4>1, Zenon
    <3>4. /\ Meaning[w] = <<"array", [i \in DOMAIN d |-> Meaning[d[i]]]>>
          /\ CanonicalJson[w] = Text(Bracket, ArrayParts(d), CloseBracket)
          /\ Altered[w] = \E i \in DOMAIN d : Altered[d[i]]
      <4>1. /\ Meaning[w] = <<"array", [i \in DOMAIN w[2] |-> Meaning[w[2][i]]]>>
            /\ CanonicalJson[w] = Text(Bracket, ArrayParts(w[2]), CloseBracket)
            /\ Altered[w] = \E i \in DOMAIN w[2] : Altered[w[2][i]]
        BY <2>4, <2>5, OfEachKind
      <4> QED BY <3>1, <4>1, Zenon
    <3>5. /\ DOMAIN e = 1 .. Len(e) /\ DOMAIN d = 1 .. Len(d)
          /\ \A i \in DOMAIN e : e[i] \in Values
          /\ \A i \in DOMAIN d : d[i] \in Values
      BY <3>2, LenProperties, ElementOfSeq
    <3>6. /\ \A i \in DOMAIN e : Written(e[i]) /\ Unaltered(e[i])
          /\ \A i \in DOMAIN d : Written(d[i]) /\ Unaltered(d[i])
      BY <3>3, <3>4, <3>5, AllWritten DEF Unaltered
    <3>7. \A i \in DOMAIN e : Tells(e[i])
      BY <1>1, <2>5, <3>1, Within
    <3>8. PICK p : p = ArrayParts(e)
      OBVIOUS
    <3>9. PICK q : q = ArrayParts(d)
      OBVIOUS
    <3>10. p \in Seq(Texts) /\ Len(p) = Len(e) /\ ClosedApart(p, Bracket)
      BY <3>2, <3>6, <3>8, ArrayWritten
    <3>11. q \in Seq(Texts) /\ Len(q) = Len(d) /\ ClosedApart(q, Bracket)
      BY <3>2, <3>6, <3>9, ArrayWritten
    <3>12. /\ DOMAIN p = DOMAIN e /\ DOMAIN q = DOMAIN d
           /\ \A i \in DOMAIN e : p[i] = CanonicalJson[e[i]]
           /\ \A i \in DOMAIN d : q[i] = CanonicalJson[d[i]]
      BY <3>8, <3>9 DEF ArrayParts
    <3> DEFINE Rel == {r \in (DOMAIN e) \X (DOMAIN d) : Meaning[e[r[1]]] = Meaning[d[r[2]]]}
    <3>13. Known(p, q, Rel)
      <4> SUFFICES ASSUME NEW i \in DOMAIN p, NEW j \in DOMAIN q, NEW x \in Texts, NEW y \in Texts,
                          x ++ p[i] = y ++ q[j]
                   PROVE  x = y /\ <<i, j>> \in Rel
        <5> HIDE DEF Rel
        <5> QED BY DEF Known
      <4>1. x ++ CanonicalJson[e[i]] = y ++ CanonicalJson[d[j]]
        BY <3>12
      <4>2. x = y /\ Meaning[e[i]] = Meaning[d[j]]
        BY <3>5, <3>6, <3>7, <3>12, <4>1 DEF Tells
      <4>3. <<i, j>> \in (DOMAIN e) \X (DOMAIN d) /\ <<i, j>>[1] = i /\ <<i, j>>[2] = j
        BY <3>12
      <4>4. <<i, j>> \in Rel
        BY <4>2, <4>3, Zenon
      <4> QED BY <4>2, <4>4
    <3> HIDE DEF Rel
    <3>14. s = t /\ Len(p) = Len(q) /\ \A i \in DOMAIN p : <<i, i>> \in Rel
      <4>1. Bracket \in Nat /\ Bracket # Comma /\ CloseBracket \in Nat
        BY DEF Bracket, Comma, CloseBracket
      <4>2. s ++ Text(Bracket, p, CloseBracket) = t ++ Text(Bracket, q, CloseBracket)
        BY <3>3, <3>4, <3>8, <3>9
      <4> QED BY <3>10, <3>11, <3>13, <4>1, <4>2, TextsRead
    <3>15. DOMAIN e = DOMAIN d
      BY <3>5, <3>10, <3>11, <3>14
    <3>16. \A i \in DOMAIN e : Meaning[e[i]] = Meaning[d[i]]
      BY <3>12, <3>14 DEF Rel
    <3>17. [i \in DOMAIN e |-> Meaning[e[i]]] = [i \in DOMAIN d |-> Meaning[d[i]]]
      BY <3>15, <3>16
    <3>18. Meaning[v] = Meaning[w]
      BY <3>3, <3>4, <3>17, Zenon
    <3> QED BY <3>14, <3>18
  <2>6. CASE v[1] = "object"
    <3>1. PICK l, m : l = ByKey(v[2], Present(v)) /\ m = ByKey(w[2], Present(w))
      OBVIOUS
    <3>2. Present(v) \in SUBSET DOMAIN v[2] /\ Present(w) \in SUBSET DOMAIN w[2]
      BY DEF Present
    <3>3. /\ SortedList(l) /\ Said(Meaning, v[2], Present(v)) = SaidList(l)
          /\ \A i \in DOMAIN l : \E j \in Present(v) : l[i] = v[2][j]
      BY <2>6, <3>1, <3>2, SaidByKey
    <3>4. /\ SortedList(m) /\ Said(Meaning, w[2], Present(w)) = SaidList(m)
          /\ \A i \in DOMAIN m : \E j \in Present(w) : m[i] = w[2][j]
      BY <2>4, <2>6, <3>1, <3>2, SaidByKey
    <3>5. /\ Meaning[v] = <<"object", Said(Meaning, v[2], Present(v))>>
          /\ CanonicalJson[v] = ObjectText(CanonicalJson, l)
          /\ \A j \in Present(v) : Unaltered(v[2][j][2])
      BY <2>6, <3>1, OfEachKind DEF Unaltered
    <3>6. /\ Meaning[w] = <<"object", Said(Meaning, w[2], Present(w))>>
          /\ CanonicalJson[w] = ObjectText(CanonicalJson, m)
          /\ \A j \in Present(w) : Unaltered(w[2][j][2])
      BY <2>4, <2>6, <3>1, OfEachKind DEF Unaltered
    <3>7. \A i \in DOMAIN l : Tells(l[i][2]) /\ Unaltered(l[i][2])
      <4>1. \A i \in DOMAIN l : l[i][2] \in Contents(v)
        BY <2>6, <3>1, <3>2, MembersAre
      <4>2. \A i \in DOMAIN l : Unaltered(l[i][2])
        BY <3>3, <3>5
      <4> QED BY <1>1, <4>1, <4>2
    <3>8. \A i \in DOMAIN m : Unaltered(m[i][2])
      BY <3>4, <3>6
    <3>9. s ++ ObjectText(CanonicalJson, l) = t ++ ObjectText(CanonicalJson, m)
      BY <3>5, <3>6
    <3>10. l \in Seq(Keys \X Values) /\ m \in Seq(Keys \X Values)
      BY <3>3, <3>4 DEF SortedList
    <3>11. s = t /\ SaidList(l) = SaidList(m)
      <4>1. ListTells(l)
        BY <3>7, <3>10, ObjectsTell
      <4> QED BY <3>8, <3>9, <3>10, <4>1 DEF ListTells
    <3> QED BY <3>3, <3>4, <3>5, <3>6, <3>11
  <2>7. CASE v[1] # "array" /\ v[1] # "object"
    <3>1. Meaning[v] = v /\ CanonicalJson[v] = Leaf(v) /\ v[1] \in {"null", "number"}
      BY <2>3, <2>7, OfEachKind
    <3>2. Meaning[w] = w /\ CanonicalJson[w] = Leaf(w)
      BY <2>4, <2>7, OfEachKind
    <3>3. v[2] = w[2]
      <4>1. CASE v[1] = "null"
        BY <2>4, <4>1, KindsOfValues
      <4>2. CASE v[1] = "number"
        <5>1. v[2] \in 0 .. 9 /\ w[2] \in 0 .. 9
          BY <2>4, <4>2, KindsOfValues
        <5>2. End(v) = NumberByte(v[2]) /\ End(w) = NumberByte(w[2])
          BY <2>4, <4>2 DEF End
        <5> QED BY <2>2, <5>1, <5>2, NumberBytes
      <4> QED BY <3>1, <4>1, <4>2
    <3>4. v = w
      BY <2>4, <3>3 DEF CanonicalAssumption
    <3>5. s = t
      BY <2>1, <3>4, SameEnd DEF Written
    <3> QED BY <3>4, <3>5
  <2> QED BY <2>5, <2>6, <2>7
<1>2. \A v \in Values : Contents(v) \subseteq S => v \in S
  BY <1>1
<1>3. Values \subseteq S
  <2> HIDE DEF S
  <2> QED BY <1>2, ByDepth
<1> QED BY <1>3

\* The two digits of a byte.
Digits(b) == <<b \div 16, b % 16>>

\* They give the byte back.
LEMMA DigitsOfByte ==
  ASSUME NEW b \in Nat
  PROVE  /\ b \div 16 \in Nat /\ b % 16 \in Nat /\ 16 * (b \div 16) + (b % 16) = b
OBVIOUS

\* A text with the two digits of a byte after it.
LEMMA TwoMore ==
  ASSUME NEW s \in Seq(Nat), NEW d \in Seq(Nat), NEW a \in Nat, Len(s) = a, Len(d) = 2
  PROVE  /\ Len(s \o d) = a + 2
         /\ \A i \in 1 .. a + 2 : (s \o d)[i] = IF i <= a THEN s[i] ELSE d[i - a]
<1>1. /\ Len(s \o d) = Len(s) + Len(d)
      /\ \A i \in 1 .. Len(s) + Len(d) :
           (s \o d)[i] = IF i <= Len(s) THEN s[i] ELSE d[i - Len(s)]
  BY ConcatProperties, Zenon
<1> QED BY <1>1, Zenon

\* Bytes joined as digits are the digits of each in turn.
LEMMA HexDigits ==
  ASSUME NEW bs \in Seq(Nat)
  PROVE  /\ Len(ToHex(bs)) = 2 * Len(bs)
         /\ \A i \in 1 .. Len(bs) :
              ToHex(bs)[2 * i - 1] = bs[i] \div 16 /\ ToHex(bs)[2 * i] = bs[i] % 16
<1>1. Len(bs) \in Nat /\ DOMAIN bs = 1 .. Len(bs) /\ \A i \in 1 .. Len(bs) : bs[i] \in Nat
  BY LenProperties, ElementOfSeq
<1>2. PICK n \in Nat : n = Len(bs)
  BY <1>1
<1>3. PICK p : p = [i \in 1 .. n |-> Digits(bs[i])]
  OBVIOUS
<1>4. \A i \in 1 .. n : /\ Digits(bs[i]) \in Seq(Nat) /\ Len(Digits(bs[i])) = 2
                        /\ Digits(bs[i])[1] = bs[i] \div 16 /\ Digits(bs[i])[2] = bs[i] % 16
  <2> SUFFICES ASSUME NEW i \in 1 .. n
               PROVE  /\ Digits(bs[i]) \in Seq(Nat) /\ Len(Digits(bs[i])) = 2
                      /\ Digits(bs[i])[1] = bs[i] \div 16 /\ Digits(bs[i])[2] = bs[i] % 16
    OBVIOUS
  <2>1. PICK x \in Nat, y \in Nat : x = bs[i] \div 16 /\ y = bs[i] % 16
    BY <1>1, <1>2, DigitsOfByte
  <2>2. <<x, y>> \in Seq(Nat) /\ Len(<<x, y>>) = 2 /\ <<x, y>>[1] = x /\ <<x, y>>[2] = y
    OBVIOUS
  <2>3. Digits(bs[i]) = <<x, y>>
    BY <2>1 DEF Digits
  <2> QED BY <2>1, <2>2, <2>3
<1>5. p \in Seq(Seq(Nat)) /\ Len(p) = n /\ \A i \in 1 .. n : p[i] = Digits(bs[i])
  <2>1. PICK T : T = Seq(Nat)
    OBVIOUS
  <2>2. p \in [1 .. n -> T]
    BY <1>3, <1>4, <2>1
  <2>3. p \in Seq(T)
    <3>1. [1 .. n -> T] \in {[1 .. k -> T] : k \in Nat}
      OBVIOUS
    <3>2. p \in UNION {[1 .. k -> T] : k \in Nat}
      BY <2>2, <3>1
    <3> QED BY <3>2, SeqDef, Zenon
  <2>4. Len(p) \in Nat /\ DOMAIN p = 1 .. Len(p)
    BY <2>3, LenProperties
  <2>5. PICK a \in Nat : a = Len(p)
    BY <2>4
  <2>6. 1 .. a = 1 .. n
    BY <1>3, <2>4, <2>5
  <2>7. a = n
    BY <2>6
  <2> QED BY <1>3, <2>1, <2>3, <2>5, <2>7
<1>6. PICK f : Joins(f, p) /\ FlattenSeq(p) = f[n]
  BY <1>5, FlattenJoins
<1>7. /\ f \in [0 .. n -> Seq(Nat)] /\ f[0] = <<>>
      /\ \A i \in 1 .. n : f[i] = f[i - 1] \o Digits(bs[i])
  BY <1>5, <1>6 DEF Joins
<1> DEFINE P(k) == /\ Len(f[k]) = 2 * k
                   /\ \A i \in 1 .. k : /\ f[k][2 * i - 1] = bs[i] \div 16
                                        /\ f[k][2 * i] = bs[i] % 16
           N == {k \in Nat : k <= n => P(k)}
<1>8. P(0)
  BY <1>7, EmptySeq
<1>9. ASSUME NEW k \in Nat, k + 1 <= n, P(k) PROVE P(k + 1)
  <2>1. PICK s \in Seq(Nat) : s = f[k]
    <3>1. k \in 0 .. n
      BY <1>9
    <3> QED BY <1>7, <3>1
  <2>2. PICK d \in Seq(Nat) : /\ d = Digits(bs[k + 1]) /\ Len(d) = 2
                              /\ d[1] = bs[k + 1] \div 16 /\ d[2] = bs[k + 1] % 16
    <3>1. k + 1 \in 1 .. n
      BY <1>9
    <3> QED BY <1>4, <3>1
  <2>3. PICK u : u = s \o d
    OBVIOUS
  <2>4. f[k + 1] = u
    <3>1. k + 1 \in 1 .. n
      BY <1>9
    <3>2. (k + 1) - 1 = k
      BY <1>9
    <3> QED BY <1>7, <2>1, <2>2, <2>3, <3>1, <3>2
  <2>5. Len(s) = 2 * k
    BY <1>9, <2>1
  <2>6. /\ Len(u) = 2 * k + 2
        /\ \A i \in 1 .. 2 * k + 2 : u[i] = IF i <= 2 * k THEN s[i] ELSE d[i - 2 * k]
    <3>1. PICK a \in Nat : a = 2 * k
      BY <1>9
    <3>2. Len(s) = a /\ Len(d) = 2
      BY <2>2, <2>5, <3>1
    <3>3. /\ Len(s \o d) = a + 2
          /\ \A i \in 1 .. a + 2 : (s \o d)[i] = IF i <= a THEN s[i] ELSE d[i - a]
      BY <3>2, TwoMore
    <3> QED BY <2>3, <3>1, <3>3
  <2>7. ASSUME NEW i \in 1 .. k PROVE u[2 * i - 1] = bs[i] \div 16 /\ u[2 * i] = bs[i] % 16
    <3>1. /\ 2 * i - 1 \in 1 .. 2 * k + 2 /\ 2 * i \in 1 .. 2 * k + 2
          /\ 2 * i - 1 <= 2 * k /\ 2 * i <= 2 * k
      OBVIOUS
    <3>2. u[2 * i - 1] = s[2 * i - 1] /\ u[2 * i] = s[2 * i]
      BY <2>6, <3>1
    <3>3. s[2 * i - 1] = bs[i] \div 16 /\ s[2 * i] = bs[i] % 16
      BY <1>9, <2>1
    <3> QED BY <3>2, <3>3
  <2>8. u[2 * k + 1] = bs[k + 1] \div 16 /\ u[2 * k + 2] = bs[k + 1] % 16
    <3>1. /\ 2 * k + 1 \in 1 .. 2 * k + 2 /\ 2 * k + 2 \in 1 .. 2 * k + 2
          /\ ~(2 * k + 1 <= 2 * k) /\ ~(2 * k + 2 <= 2 * k)
          /\ (2 * k + 1) - 2 * k = 1 /\ (2 * k + 2) - 2 * k = 2
      OBVIOUS
    <3>2. u[2 * k + 1] = d[1] /\ u[2 * k + 2] = d[2]
      BY <2>6, <3>1
    <3> QED BY <2>2, <3>2
  <2>9. ASSUME NEW i \in 1 .. k + 1 PROVE u[2 * i - 1] = bs[i] \div 16 /\ u[2 * i] = bs[i] % 16
    <3>1. CASE i = k + 1
      <4>1. 2 * i - 1 = 2 * k + 1 /\ 2 * i = 2 * k + 2
        BY <3>1
      <4> QED BY <2>8, <3>1, <4>1, Zenon
    <3>2. CASE i # k + 1
      <4>1. i \in 1 .. k
        BY <3>2
      <4> QED BY <2>7, <4>1
    <3> QED BY <3>1, <3>2
  <2>10. Len(u) = 2 * (k + 1)
    BY <2>6
  <2> QED BY <2>4, <2>9, <2>10
<1> HIDE DEF P
<1>10. 0 \in N
  BY <1>8
<1>11. ASSUME NEW k \in Nat, k \in N PROVE k + 1 \in N
  BY <1>9, <1>11
<1>12. Nat \subseteq N
  <2> HIDE DEF N
  <2> QED BY <1>10, <1>11, NatSet
<1>13. P(n)
  BY <1>12
<1>14. ToHex(bs) = f[n]
  <2>1. p = [i \in DOMAIN bs |-> <<bs[i] \div 16, bs[i] % 16>>]
    BY <1>1, <1>2, <1>3 DEF Digits
  <2> QED BY <1>6, <2>1 DEF ToHex
<1> QED BY <1>2, <1>13, <1>14 DEF P

\* What is read out of the hex is what was put in.
LEMMA HexIsBytes ==
  ASSUME NEW bs \in Seq(Nat)
  PROVE  FromHex(ToHex(bs)) = bs
<1>1. Len(bs) \in Nat /\ DOMAIN bs = 1 .. Len(bs) /\ \A i \in 1 .. Len(bs) : bs[i] \in Nat
  BY LenProperties, ElementOfSeq
<1>2. PICK n \in Nat : n = Len(bs)
  BY <1>1
<1>3. PICK h : h = ToHex(bs)
  OBVIOUS
<1>4. /\ Len(h) = 2 * n
      /\ \A i \in 1 .. n : h[2 * i - 1] = bs[i] \div 16 /\ h[2 * i] = bs[i] % 16
  BY <1>2, <1>3, HexDigits
<1>5. Len(h) \div 2 = n
  <2>1. (2 * n) \div 2 = n
    OBVIOUS
  <2> QED BY <1>4, <2>1, Zenon
<1>6. FromHex(h) = [i \in 1 .. n |-> 16 * h[2 * i - 1] + h[2 * i]]
  BY <1>5, Zenon DEF FromHex
<1>7. \A i \in 1 .. n : 16 * h[2 * i - 1] + h[2 * i] = bs[i]
  <2> SUFFICES ASSUME NEW i \in 1 .. n PROVE 16 * h[2 * i - 1] + h[2 * i] = bs[i]
    OBVIOUS
  <2>1. 16 * (bs[i] \div 16) + (bs[i] % 16) = bs[i]
    BY <1>1, <1>2, DigitsOfByte
  <2>2. h[2 * i - 1] = bs[i] \div 16 /\ h[2 * i] = bs[i] % 16
    BY <1>4
  <2> QED BY <2>1, <2>2, Zenon
<1>8. FromHex(h) = [i \in 1 .. n |-> bs[i]]
  BY <1>6, <1>7, Zenon
<1>9. bs = [i \in 1 .. n |-> bs[i]]
  BY <1>1, <1>2
<1> QED BY <1>3, <1>8, <1>9

\* The bytes of a profile throw when it would be altered, and are those of the
\* profiles that say the same.
LEMMA BytesOfDocument ==
  ASSUME CanonicalAssumption, NEW d \in Documents
  PROVE  /\ CanonicalBytes(d) \in Texts
         /\ (Throw \in ToSet(CanonicalBytes(d)) <=> IsAltered(d))
<1>0. d \in Values /\ d[1] = "object" /\ Signed(d) \in SUBSET DOMAIN d[2]
  BY DEF CanonicalAssumption, Signed, Present
<1>1. PICK l : l = ByKey(d[2], Signed(d))
  OBVIOUS
<1>2. /\ l \in Seq(Keys \X Values) /\ \A i \in DOMAIN l : l[i][2] \in Values
      /\ {l[i] : i \in DOMAIN l} = Members(d[2], Signed(d))
  <2>1. /\ l \in Seq(Keys \X Values) /\ IsByKey(l, Members(d[2], Signed(d)))
        /\ \A i \in DOMAIN l : l[i][2] \in Contents(d)
    BY <1>0, <1>1, MembersAre
  <2>2. Contents(d) \subseteq Values
    BY <1>0, Within
  <2> QED BY <2>1, <2>2 DEF IsByKey
<1>3. \A i \in DOMAIN l : Written(l[i][2])
  BY <1>2, AllWritten
<1>4. PICK x : x = ObjectText(CanonicalJson, l)
  OBVIOUS
<1>5. x \in Texts /\ (Throw \in ToSet(x) <=> \E i \in DOMAIN l : Altered[l[i][2]])
  BY <1>2, <1>3, <1>4, ObjectWritten
<1>6. CanonicalBytes(d) = x
  BY <1>1, <1>4 DEF CanonicalBytes
<1>7. (\E i \in DOMAIN l : Altered[l[i][2]]) <=> IsAltered(d)
  <2>1. PICK s, I : s = d[2] /\ I = Signed(d)
    OBVIOUS
  <2>2. {l[i] : i \in DOMAIN l} = {s[j] : j \in I}
    BY <1>2, <2>1 DEF Members
  <2>3. \A i \in DOMAIN l : \E j \in I : l[i] = s[j]
    <3>1. \A i \in DOMAIN l : l[i] \in {s[j] : j \in I}
      BY <2>2
    <3> QED BY <3>1
  <2>4. \A j \in I : \E i \in DOMAIN l : l[i] = s[j]
    <3>1. \A j \in I : s[j] \in {l[i] : i \in DOMAIN l}
      BY <2>2
    <3> QED BY <3>1
  <2>5. (\E i \in DOMAIN l : Altered[l[i][2]]) <=> \E j \in I : Altered[s[j][2]]
    BY <2>3, <2>4, Zenon
  <2> QED BY <2>1, <2>5 DEF IsAltered
<1> QED BY <1>5, <1>6, <1>7

\* Two profiles, one of them unaltered, have the same bytes exactly when they say
\* the same.
LEMMA BytesTell ==
  ASSUME CanonicalAssumption, NEW c \in Documents, NEW d \in Documents, ~IsAltered(c)
  PROVE  CanonicalBytes(c) = CanonicalBytes(d) <=> MeaningOf[c] = MeaningOf[d]
<1>0. /\ c \in Values /\ c[1] = "object" /\ Signed(c) \in SUBSET DOMAIN c[2]
      /\ d \in Values /\ d[1] = "object" /\ Signed(d) \in SUBSET DOMAIN d[2]
  BY DEF CanonicalAssumption, Signed, Present
<1>1. PICK l, m : l = ByKey(c[2], Signed(c)) /\ m = ByKey(d[2], Signed(d))
  OBVIOUS
<1>2. /\ SortedList(l) /\ Said(Meaning, c[2], Signed(c)) = SaidList(l)
      /\ \A i \in DOMAIN l : \E j \in Signed(c) : l[i] = c[2][j]
  BY <1>0, <1>1, SaidByKey
<1>3. /\ SortedList(m) /\ Said(Meaning, d[2], Signed(d)) = SaidList(m)
      /\ \A i \in DOMAIN m : \E j \in Signed(d) : m[i] = d[2][j]
  BY <1>0, <1>1, SaidByKey
<1>4. /\ CanonicalBytes(c) = ObjectText(CanonicalJson, l) /\ MeaningOf[c] = SaidList(l)
      /\ CanonicalBytes(d) = ObjectText(CanonicalJson, m) /\ MeaningOf[d] = SaidList(m)
  BY <1>1, <1>2, <1>3 DEF CanonicalBytes, MeaningOf
<1>5. l \in Seq(Keys \X Values) /\ m \in Seq(Keys \X Values)
  BY <1>2, <1>3 DEF SortedList
<1>6. \A i \in DOMAIN l : l[i][2] \in Values
  <2>1. \A i \in DOMAIN l : l[i] \in Keys \X Values
    BY <1>5, LenProperties, ElementOfSeq
  <2> QED BY <2>1
<1>7. ASSUME MeaningOf[c] = MeaningOf[d] PROVE CanonicalBytes(c) = CanonicalBytes(d)
  <2>1. \A i \in DOMAIN l : Alike(l[i][2])
    BY <1>6, AllAlike
  <2> QED BY <1>2, <1>3, <1>4, <1>7, <2>1, ObjectsAlike
<1>8. ASSUME CanonicalBytes(c) = CanonicalBytes(d) PROVE MeaningOf[c] = MeaningOf[d]
  <2>1. ~IsAltered(d)
    BY <1>8, BytesOfDocument
  <2>2. \A i \in DOMAIN l : Tells(l[i][2]) /\ Unaltered(l[i][2])
    BY <1>2, <1>6, AllTell DEF IsAltered, Unaltered
  <2>3. \A i \in DOMAIN m : Unaltered(m[i][2])
    BY <1>3, <2>1 DEF IsAltered, Unaltered
  <2>4. ListTells(l)
    BY <1>5, <2>2, ObjectsTell
  <2>5. <<>> \in Texts
    BY NoText
  <2>6. <<>> ++ ObjectText(CanonicalJson, l) = <<>> ++ ObjectText(CanonicalJson, m)
    BY <1>4, <1>8
  <2> QED BY <1>4, <1>5, <2>3, <2>4, <2>5, <2>6 DEF ListTells
<1> QED BY <1>7, <1>8

(***************************************************************************)
(* What is sent, and how far it has got.                                   *)
(***************************************************************************)
CanonicalTypes ==
  /\ sending \in {"whole", "encoded", "refused", "hex", "read"}
  /\ (content \in Documents /\ content[1] = "object")
     \/ (content[1] = "bytes" /\ content[2] \in Payloads)
Encoded ==
  sending # "whole" =>
    /\ bytes = IF content[1] = "bytes" THEN content[2] ELSE CanonicalBytes(content)
    /\ (sending = "refused" <=> (content[1] # "bytes" /\ Throw \in ToSet(bytes)))
Carried ==
  /\ sending \in {"hex", "read"} => hex = ToHex(bytes)
  /\ sending = "read" => received = FromHex(hex)
CanonicalInv == CanonicalTypes /\ Encoded /\ Carried

\* The invariant holds of every step.
LEMMA CanonicalInvHolds == CanonicalSpec => []CanonicalInv
<1>1. CanonicalInit(Documents, Payloads) => CanonicalInv
  <2> SUFFICES ASSUME CanonicalInit(Documents, Payloads) PROVE CanonicalInv
    OBVIOUS
  <2>1. sending = "whole"
    BY DEF CanonicalInit
  <2>2. \/ content \in Documents /\ content[1] = "object"
        \/ content[1] = "bytes" /\ content[2] \in Payloads
    <3>1. CASE content \in Documents
      BY <3>1, CanonicalAssumption DEF CanonicalAssumption
    <3>2. CASE content \in {<<"bytes", p>> : p \in Payloads}
      <4>1. PICK p \in Payloads : content = <<"bytes", p>>
        BY <3>2
      <4> QED BY <4>1
    <3> QED BY <3>1, <3>2 DEF CanonicalInit
  <2> QED BY <2>1, <2>2 DEF CanonicalInv, CanonicalTypes, Encoded, Carried
<1>2. CanonicalInv /\ [CanonicalNext]_canonicalVars => CanonicalInv'
  <2> SUFFICES ASSUME CanonicalInv, [CanonicalNext]_canonicalVars PROVE CanonicalInv'
    OBVIOUS
  <2> USE DEF CanonicalInv, CanonicalTypes, Encoded, Carried
  <2>1. CASE Encodes
    BY <2>1 DEF Encodes
  <2>2. CASE Sends
    BY <2>2 DEF Sends
  <2>3. CASE Decodes
    BY <2>3 DEF Decodes
  <2>4. CASE UNCHANGED canonicalVars
    BY <2>4 DEF canonicalVars
  <2> QED BY <2>1, <2>2, <2>3, <2>4 DEF CanonicalNext
<1> QED BY <1>1, <1>2, PTL DEF CanonicalSpec

\* What a reader gets out of the hex is what was put in; the bytes of a profile
\* are those of exactly the profiles that say the same, and one that JSON would
\* alter is refused (profile.js 400-446, ce.js 418-431).
THEOREM SignedAsMeantHolds == CanonicalSpec => []SignedAsMeant
<1>1. CanonicalInv => SignedAsMeant
  <2> SUFFICES ASSUME CanonicalInv PROVE SignedAsMeant
    OBVIOUS
  <2>0. CanonicalAssumption
    BY CanonicalAssumption
  <2>1. ASSUME sending = "read" PROVE received = bytes
    <3>1. bytes \in Seq(Nat)
      <4>1. CASE content[1] = "bytes"
        <5>1. bytes = content[2] /\ content[2] \in Payloads
          BY <2>0, <2>1, <4>1 DEF CanonicalInv, CanonicalTypes, Encoded, CanonicalAssumption
        <5>2. bytes \in Seq(0 .. 255)
          BY <2>0, <5>1 DEF CanonicalAssumption
        <5>3. 0 .. 255 \subseteq Nat
          OBVIOUS
        <5> QED BY <5>2, <5>3, SeqMonotonic
      <4>2. CASE content[1] # "bytes"
        <5>1. content \in Documents /\ bytes = CanonicalBytes(content)
          BY <2>1, <4>2 DEF CanonicalInv, CanonicalTypes, Encoded
        <5> QED BY <2>0, <5>1, BytesOfDocument DEF Texts
      <4> QED BY <4>1, <4>2
    <3>2. received = FromHex(ToHex(bytes))
      BY <2>1 DEF CanonicalInv, Carried
    <3> QED BY <3>1, <3>2, HexIsBytes
  <2>2. ASSUME sending = "refused" PROVE IsAltered(content)
    <3>1. content \in Documents /\ Throw \in ToSet(CanonicalBytes(content))
      BY <2>2 DEF CanonicalInv, CanonicalTypes, Encoded
    <3> QED BY <2>0, <3>1, BytesOfDocument
  <2>3. ASSUME sending = "encoded", content[1] = "object"
        PROVE  /\ ~IsAltered(content)
               /\ \A d \in Documents : (bytes = BytesOf[d]) = (MeaningOf[content] = MeaningOf[d])
    <3>1. /\ content \in Documents /\ bytes = CanonicalBytes(content)
          /\ Throw \notin ToSet(bytes)
      BY <2>3 DEF CanonicalInv, CanonicalTypes, Encoded
    <3>2. ~IsAltered(content)
      BY <2>0, <3>1, BytesOfDocument
    <3>3. ASSUME NEW d \in Documents
          PROVE  (bytes = BytesOf[d]) = (MeaningOf[content] = MeaningOf[d])
      <4>1. BytesOf[d] = CanonicalBytes(d)
        BY DEF BytesOf
      <4>2. CanonicalBytes(content) = CanonicalBytes(d) <=> MeaningOf[content] = MeaningOf[d]
        BY <2>0, <3>1, <3>2, BytesTell
      <4> QED BY <3>1, <4>1, <4>2
    <3> QED BY <3>2, <3>3
  <2> QED BY <2>1, <2>2, <2>3 DEF SignedAsMeant
<1> QED BY <1>1, CanonicalInvHolds, PTL
=============================================================================
