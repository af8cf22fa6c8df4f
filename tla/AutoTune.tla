------------------------------- MODULE AutoTune -------------------------------
(***************************************************************************)
(* autoTune of src/benchmarks.js, with which cpuFlops and cpuInt choose    *)
(* how long their kernel runs: the number of iterations grows until one    *)
(* timed run reaches the target, and that run is the result.  The host     *)
(* does rate iterations in a millisecond; a run of n lasts n/rate, so      *)
(* durations are compared as fractions.  The accumulator of a run is       *)
(* determined by its seed and its n, and is represented by n.              *)
(***************************************************************************)
EXTENDS Naturals

CONSTANTS
  Rates,      \* what a host can do
  Targets,    \* targetMs
  Starts,     \* startN: 2^12 for the floats, 2^8 for the integers
  WarmN,      \* iterations of the warm-up, at most
  Minimum,    \* MIN_MEASURED_MS
  MaxGuard,   \* runs that are tried
  MaxN        \* bound: Number.MAX_SAFE_INTEGER / 4

ASSUME TuneAssumption ==
  /\ Rates \subseteq Nat \ {0} /\ Targets \subseteq Nat \ {0}
  /\ Starts \subseteq Nat \ {0} /\ WarmN \in Nat \ {0} /\ Minimum \in Nat
  /\ MaxGuard \in Nat \ {0} /\ MaxN \in Nat \ {0}

VARIABLES
  target, start, iters,
  acc,        \* the accumulator of the last run (autoTune's, and lastAcc)
  rate,       \* what the host did during it
  steady,     \* it is one rate all the time
  guard,
  tuning      \* "warm", "scaled", "timed", "reached" or "exhausted"
tuneVars == <<target, start, iters, acc, rate, steady, guard, tuning>>

TuneInit(targets, starts, rates, paces) ==
  /\ target \in targets /\ rate \in rates /\ steady \in paces
  /\ start \in starts /\ iters = start /\ acc = 0 /\ guard = 0 /\ tuning = "warm"

Least(a, b) == IF a < b THEN a ELSE b
Most(a, b) == IF a > b THEN a ELSE b

WarmsUp ==
  /\ tuning = "warm" /\ tuning' = "scaled" /\ acc' = Least(start, WarmN)
  /\ UNCHANGED <<target, start, iters, rate, steady, guard>>

\* One timed run; an unsteady host may have changed its pace.
TimedRun ==
  /\ tuning = "scaled" /\ tuning' = "timed"
  /\ acc' = iters /\ guard' = guard + 1
  /\ rate' \in (IF steady THEN {rate} ELSE Rates)
  /\ UNCHANGED <<target, start, iters, steady>>

LongEnough == iters >= target * rate /\ iters >= Minimum * rate

\* The next n: aimed a fifth above the target, at least doubled, and four
\* times as much when the run was too short to be measured.
Scaled ==
  LET aimed == (6 * target * rate + 4) \div 5
  IN Least(MaxN, IF 2 * iters > rate THEN Most(2 * iters, aimed) ELSE 4 * iters)

\* Slip: the count is scaled before the loop is left.
DecidesLate ==
  /\ tuning = "timed" /\ iters' = Scaled
  /\ tuning' = IF LongEnough THEN "reached"
               ELSE IF guard = MaxGuard THEN "exhausted" ELSE "scaled"
  /\ UNCHANGED <<target, start, acc, rate, steady, guard>>

Decides ==
  /\ tuning = "timed"
  /\ \/ LongEnough /\ tuning' = "reached" /\ UNCHANGED iters
     \/ /\ ~LongEnough /\ iters' = Scaled
        /\ tuning' = IF guard = MaxGuard THEN "exhausted" ELSE "scaled"
  /\ UNCHANGED <<target, start, acc, rate, steady, guard>>

TuneNext == WarmsUp \/ TimedRun \/ Decides
TuneSpec == TuneInit(Targets, Starts, Rates, BOOLEAN) /\ [][TuneNext]_tuneVars

-----------------------------------------------------------------------------
(***************************************************************************)
(* Properties.                                                             *)
(***************************************************************************)
Longest == 2 * Most(target, Minimum)

\* "the final timed run that crossed the target" (lines 120-124): its count
\* and its accumulator are of one run, so that a verifier that repeats the
\* count gets the accumulator; and on a steady host, of whatever speed, the
\* run lasts less than twice the target, unless the first was too long
\* already, and the rounds do not run out (lines 125-142).
TunedRunIsEvidence ==
  /\ tuning = "reached" =>
       /\ acc = iters /\ LongEnough
       /\ steady => iters = start \/ iters < Longest * rate + 2
  /\ steady => tuning # "exhausted"
=============================================================================
