----------------------------- MODULE Plausibility -----------------------------
(***************************************************************************)
(* Two judgements of a node by its GET /history: historyTrust weighs its   *)
(* profile (src/fabricstats.js), plausibilityCheck flags claims that no    *)
(* work backs (src/runner.js).  They read the same record separately, each *)
(* with its own spellings and coercions, while the node goes on working.   *)
(* A record is its number of jobs and how that field is given, its         *)
(* heartbeats, and what the field of the earnings holds.                   *)
(***************************************************************************)
EXTENDS Naturals

CONSTANTS MaxJobs,    \* bound: jobs of a record
          Tflops, Tokens,       \* what a profile claims, coerced
          MinTflops, MinTokens  \* from where a claim needs work

ASSUME PlausibilityAssumption ==
  /\ MaxJobs \in Nat /\ Tflops \subseteq Nat /\ Tokens \subseteq Nat
  /\ MinTflops \in Nat /\ MinTokens \in Nat

\* jobs_hosted as a number or as text, or jobsHosted.
Spellings == {"number", "text", "camel"}
\* Missing, "", "0", "0.00", an amount as text or as a number.
Earnings == {"missing", "empty", "zero", "zeroText", "text", "number"}
Records == [jobs : 0 .. MaxJobs, spelled : Spellings, beats : 0 .. 1, earned : Earnings]

VARIABLES boast,           \* the claim: <<tflops, tokens>>
          record,          \* the node's history
          weight,          \* historyTrust's answer, in sixtieths, or Unread
          flags,           \* plausibilityCheck's, or Unread
          checkedAt,       \* the record it read (history)
          weighedFirst     \* the weight was read before (history)
judgeVars == <<boast, record, weight, flags, checkedAt, weighedFirst>>

Unread == 100
Unflagged == {<<"unread", "none">>}

JudgeInit(claims, records) ==
  /\ boast \in claims
  /\ record \in records /\ checkedAt = record
  /\ weight = Unread /\ flags = Unflagged /\ weighedFirst = FALSE

\* What both find in the text of an amount: a digit other than 0.
HistoryTrust(r) ==
  LET jobs == IF r.spelled = "number" THEN r.jobs ELSE 0
      byJobs == (60 * jobs) \div (jobs + 1)
  IN IF r.earned = "text" /\ byJobs < 12 THEN 12 ELSE byJobs

\* Slip: the count is read in the other spelling only.
JobsHostedCamel(r) == IF r.spelled = "camel" THEN r.jobs ELSE 0

\* Number() of either spelling.
JobsHosted(r) == r.jobs

HasWork(r) == JobsHosted(r) > 0 \/ r.beats > 0 \/ r.earned \in {"text", "number"}
BigClaims == (IF boast[1] >= MinTflops THEN {"compute"} ELSE {})
             \cup (IF boast[2] >= MinTokens THEN {"llm"} ELSE {})

\* The history cannot be read: no trust.
Weighs ==
  /\ weight = Unread /\ weight' \in {HistoryTrust(record), 0}
  /\ weighedFirst' = (flags = Unflagged)
  /\ UNCHANGED <<boast, record, flags, checkedAt>>

\* Small claims are not looked into; a history that cannot be read leaves the
\* others unverified; one without work makes them implausible.
Checks ==
  /\ flags = Unflagged /\ checkedAt' = record
  /\ flags' \in {{<<"unverified", c>> : c \in BigClaims},
                 IF HasWork(record) THEN {} ELSE {<<"implausible", c>> : c \in BigClaims}}
  /\ UNCHANGED <<boast, record, weight, weighedFirst>>

\* The node works: jobs and earnings only grow.
Delivers ==
  /\ record' = [record EXCEPT !.beats = 1,
                  !.jobs = IF @ < MaxJobs THEN @ + 1 ELSE @,
                  !.earned = IF @ = "number" THEN @ ELSE "text"]
  /\ record' # record
  /\ UNCHANGED <<boast, weight, flags, checkedAt, weighedFirst>>

JudgeNext == Weighs \/ Checks \/ Delivers
JudgeSpec == JudgeInit(Tflops \X Tokens, Records) /\ [][JudgeNext]_judgeVars

-----------------------------------------------------------------------------
(***************************************************************************)
(* Properties.                                                             *)
(***************************************************************************)
Implausible == \E c \in {"compute", "llm"} : <<"implausible", c>> \in flags

\* The judgements agree: a node that had earned trust when it was weighed is
\* not called implausible afterwards, however its record is spelled; and a big
\* claim passes without a flag only over a record that shows work
\* (fabricstats.js 536-546, runner.js 267-312).
JudgementsAgree ==
  /\ weighedFirst /\ weight \in 1 .. 60 => ~Implausible
  /\ flags = {} => BigClaims = {} \/ HasWork(checkedAt)
=============================================================================
