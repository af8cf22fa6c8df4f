------------------------------- MODULE Batch -------------------------------
(***************************************************************************)
(* What a caller of timedBatch (src/net.js) may rely on, said without its  *)
(* workers, its shared counter or its clock: a fixed list of operations is *)
(* begun in order, at most Limit are in flight at a time, each operation   *)
(* settles exactly once, and the report is made once, after the last one   *)
(* settled, and counts every operation.                                    *)
(***************************************************************************)
EXTENDS Naturals, FiniteSets

CONSTANTS Total,   \* number of operations of the batch, a natural number
          Limit    \* operations in flight at most, a positive number

Op == 0 .. Total-1

VARIABLES status,    \* where each operation is
          report     \* {} until the batch returns, then its one report

vars == <<status, report>>

Status == {"todo", "running", "ok", "failed"}
Report == [ok : Nat, failed : Nat]

In(s, f) == {i \in Op : f[i] = s}

TypeOK ==
  /\ status \in [Op -> Status]
  /\ report \in {{}} \cup {{r} : r \in [ok : 0..Total, failed : 0..Total]}

Init ==
  /\ status = [i \in Op |-> "todo"]
  /\ report = {}

(***************************************************************************)
(* Some running operations settle and some waiting ones begin.  Operations *)
(* only move forward, and one begins only after all the earlier ones did.  *)
(***************************************************************************)
Forward(before, after) ==
  \/ after = before
  \/ before = "todo" /\ after = "running"
  \/ before = "running" /\ after \in {"ok", "failed"}

Advance ==
  /\ report = {}
  /\ status' \in [Op -> Status]
  /\ status' # status
  /\ \A i \in Op : Forward(status[i], status'[i])
  /\ \A i, j \in Op : i < j /\ status'[j] # "todo" => status'[i] # "todo"
  /\ Cardinality(In("running", status')) <= Limit
  /\ UNCHANGED report

Return ==
  /\ report = {}
  /\ \A i \in Op : status[i] \in {"ok", "failed"}
  /\ report' = {[ok |-> Cardinality(In("ok", status)),
                 failed |-> Cardinality(In("failed", status))]}
  /\ UNCHANGED status

Next == Advance \/ Return

Safety == Init /\ [][Next]_vars

\* Every prefix of a batch can be completed, so this asks nothing of the
\* steps already taken: it says only that the report is made in the end.
Spec == Safety /\ <>(report # {})
=============================================================================
