----------------------------- MODULE RemoteFetch -----------------------------
(***************************************************************************)
(* probeBlobGetRemote of src/net.js: one iteration after the other asks    *)
(* the responder of another node (handle of src/echo.js, topic putblob) to *)
(* store a new blob, and then gets it from this node, which has to find it *)
(* on the mesh and keeps it.  Either request can fail, before or after it  *)
(* was carried out, and what answers on the topic may name a blob that is  *)
(* not new: any hash that is well formed is asked for.  A blob is its      *)
(* number.                                                                 *)
(***************************************************************************)
EXTENDS Naturals, FiniteSets

CONSTANTS Fetches, \* iters
          Held     \* number of blobs this node has at the start

ASSUME FetchAssumption == Fetches \in Nat /\ Held \in Nat

VARIABLES
  round, await, \* the iteration, and "hash", "blob" or "over"
  wanted,       \* the blob whose hash it has, or 0
  minted,       \* number of blobs there are, and
  kept,         \* those of them this node has
  known,        \* the iterations answered with a blob that was here (history)
  fetched,      \* the iterations that were timed: [round, blob, cold]
  failed        \* errors
fetchVars == <<round, await, wanted, minted, kept, known, fetched, failed>>

FetchInit ==
  /\ round = 1 /\ await = IF Fetches = 0 THEN "over" ELSE "hash"
  /\ wanted = 0 /\ minted = Held /\ kept = 1 .. Held /\ known = {} /\ fetched = {} /\ failed = 0

NextRound ==
  /\ round' = round + 1 /\ wanted' = 0
  /\ await' = IF round = Fetches THEN "over" ELSE "hash"

\* Slip: the hash of an earlier iteration is used again.
AskOnce ==
  /\ await = "hash"
  /\ minted' = IF minted = 0 THEN 1 ELSE minted
  /\ wanted' = 1 /\ await' = "blob"
  /\ UNCHANGED <<round, kept, known, fetched, failed>>

\* The reply carries the hash of a new blob.
Ask ==
  /\ await = "hash"
  /\ minted' = minted + 1 /\ wanted' = minted + 1 /\ await' = "blob"
  /\ UNCHANGED <<round, kept, known, fetched, failed>>

\* The reply carries the hash of a blob there is already.
AskKnown(b) ==
  /\ await = "hash" /\ b \in 1 .. minted
  /\ wanted' = b /\ await' = "blob"
  /\ known' = IF b \in kept THEN known \cup {round} ELSE known
  /\ UNCHANGED <<round, minted, kept, fetched, failed>>

\* No reply, though a blob may have been stored, or one that is no hash.
AskFails ==
  /\ await = "hash" /\ minted' \in {minted, minted + 1}
  /\ failed' = failed + 1 /\ NextRound
  /\ UNCHANGED <<kept, known, fetched>>

Get ==
  /\ await = "blob" /\ NextRound
  /\ fetched' = fetched \cup {[round |-> round, blob |-> wanted, cold |-> wanted \notin kept]}
  /\ kept' = kept \cup {wanted}
  /\ UNCHANGED <<minted, known, failed>>

\* Not found, or given up; the node may have it by now.
GetFails ==
  /\ await = "blob" /\ kept' \in {kept, kept \cup {wanted}}
  /\ failed' = failed + 1 /\ NextRound
  /\ UNCHANGED <<minted, known, fetched>>

FetchNext == Ask \/ AskFails \/ Get \/ GetFails \/ \E b \in 1 .. minted : AskKnown(b)
FetchSpec == FetchInit /\ [][FetchNext]_fetchVars

-----------------------------------------------------------------------------
(***************************************************************************)
(* Properties.                                                             *)
(***************************************************************************)
\* "Each iteration uses a new blob to defeat caching" (line 261): every time
\* that is reported is of a blob this node did not have, unless the answer of
\* that same iteration named one that was here already: nothing that this node
\* stored or fetched in vain in an earlier iteration is measured again.  And
\* every iteration is a time or an error.
FetchesCold ==
  /\ \A f \in fetched : (f.cold \/ f.round \in known) /\ f.blob \in 1 .. minted
  /\ Cardinality(fetched) + failed = round - 1
  /\ await = "over" => Cardinality(fetched) + failed = Fetches
=============================================================================
