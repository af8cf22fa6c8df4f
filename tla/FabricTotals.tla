---------------------------- MODULE FabricTotals ----------------------------
(***************************************************************************)
(* The totals of the scoreboard: aggregateCompute, robustSum and the       *)
(* weighting of computeVerifiedStats (src/fabricstats.js).  Of a profile's *)
(* fields there are two: cores stands for those that are summed, gflops    *)
(* for those that go through robustSum.  A trust is a number of parts of   *)
(* Whole, as an injected trustOf may give it; weighted amounts are counted *)
(* in those parts, so that nothing is rounded before the end.              *)
(***************************************************************************)
EXTENDS Naturals, Sequences, SequencesExt, FiniteSets, FiniteSetsExt

CONSTANTS Cores, Gflops, Trust, \* what profiles may hold
          Whole,                \* full trust
          ClampK,
          MaxProfiles           \* bound: profiles of a fabric

ASSUME TotalsAssumption ==
  /\ Cores \subseteq Nat /\ Gflops \subseteq Nat /\ Trust \subseteq Nat
  /\ Whole \in Nat \ {0} /\ ClampK \in Nat \ {0} /\ MaxProfiles \in Nat

Reported == [cores : Cores, gflops : Gflops, trust : Trust]

VARIABLES profiles,
          added,    \* profiles of this loop so far
          pass,     \* "display", "verified", "done"
          sum,      \* plain sums: [cores, vCores, vNodes]
          values,   \* the arrays handed to robustSum: [display, verified]
          display, verified
totalsVars == <<profiles, added, pass, sum, values, display, verified>>

Fabrics == SeqOf(Reported, MaxProfiles)

TotalsInit(fabrics) ==
  /\ profiles \in fabrics
  /\ added = 0 /\ pass = "display"
  /\ sum = [cores |-> 0, vCores |-> 0, vNodes |-> 0]
  /\ values = [display |-> <<>>, verified |-> <<>>]
  /\ display = 0 /\ verified = 0

(***************************************************************************)
(* robustSum.                                                              *)
(***************************************************************************)
\* The value at place r once the values are sorted: the least that at least r
\* of them do not exceed.
Sorted(s, r) == Min({v \in ToSet(s) : Cardinality({j \in DOMAIN s : s[j] <= v}) >= r})

\* Twice the median: the middle value counted double, or the two middle ones.
TwiceMedian(s) ==
  LET n == Len(s) IN Sorted(s, n \div 2 + 1) + Sorted(s, (n + 1) \div 2)

\* Slip: a single value above the bound is forgiven.
BelowCapForgiving(s, v) ==
  \/ Len(s) < 2 \/ TwiceMedian(s) = 0 \/ 2 * v <= ClampK * TwiceMedian(s)
  \/ Cardinality({j \in DOMAIN s : 2 * s[j] > ClampK * TwiceMedian(s)}) = 1

\* The bound on a value; none for fewer than two values or a zero median.
BelowCap(s, v) ==
  Len(s) < 2 \/ TwiceMedian(s) = 0 \/ 2 * v <= ClampK * TwiceMedian(s)

RobustSum(s) ==
  LET upTo[i \in 0 .. Len(s)] ==
        IF i = 0 THEN 0 ELSE upTo[i - 1] + (IF BelowCap(s, s[i]) THEN s[i] ELSE 0)
  IN  upTo[Len(s)]

(***************************************************************************)
(* The two loops over the profiles, and what becomes of the arrays.        *)
(***************************************************************************)
Weight(p) == IF p.trust > Whole THEN Whole ELSE p.trust

AddDisplay ==
  /\ pass = "display" /\ added < Len(profiles) /\ added' = added + 1
  /\ LET p == profiles[added']
     IN /\ sum' = [sum EXCEPT !.cores = @ + p.cores]
        /\ values' = [values EXCEPT !.display = Append(@, p.gflops)]
  /\ UNCHANGED <<profiles, pass, display, verified>>

SumDisplay ==
  /\ pass = "display" /\ added = Len(profiles)
  /\ pass' = "verified" /\ added' = 0
  /\ display' = RobustSum(values.display)
  /\ UNCHANGED <<profiles, sum, values, verified>>

AddVerified ==
  /\ pass = "verified" /\ added < Len(profiles) /\ added' = added + 1
  /\ LET p == profiles[added']
     IN /\ sum' = [sum EXCEPT !.vCores = @ + p.cores * Weight(p),
                              !.vNodes = @ + (IF Weight(p) > 0 THEN 1 ELSE 0)]
        /\ values' = [values EXCEPT !.verified = Append(@, p.gflops * Weight(p))]
  /\ UNCHANGED <<profiles, pass, display, verified>>

\* Math.round of a number of parts.
Rounded(parts) == (2 * parts + Whole) \div (2 * Whole)

SumVerified ==
  /\ pass = "verified" /\ added = Len(profiles) /\ pass' = "done" /\ added' = 0
  /\ verified' = RobustSum(values.verified)
  /\ sum' = [sum EXCEPT !.vCores = Rounded(@)]
  /\ UNCHANGED <<profiles, values, display>>

TotalsNext == AddDisplay \/ SumDisplay \/ AddVerified \/ SumVerified
TotalsSpec == TotalsInit(Fabrics) /\ [][TotalsNext]_totalsVars

-----------------------------------------------------------------------------
(***************************************************************************)
(* Properties.                                                             *)
(***************************************************************************)
TotalsTypeOK ==
  /\ profiles \in Fabrics /\ added \in 0 .. MaxProfiles
  /\ pass \in {"display", "verified", "done"}
  /\ display \in Nat /\ verified \in Nat

Done == pass = "done"
Gf(j) == profiles[j].gflops
HonestMax(j) == Max({Gf(l) : l \in DOMAIN profiles \ {j}})

\* "one machine cannot inflate the headline" (docs/nodeprofile-spec.md): from
\* three machines with the capability on, none, whatever it reports, adds more
\* than K times what an honest one does (lines 72-94).  Of two machines one
\* can: the value is then half of the median it is compared with.  Nor does a
\* trust, though trustOf return more than full, make the verified counts, with
\* their fractions rounded, more than the displayed ones (lines 588, 641-650).
OneCannotInflate ==
  /\ TotalsTypeOK
  /\ Done /\ Len(profiles) >= 3 /\ (\A j \in DOMAIN profiles : Gf(j) > 0) =>
       \A j \in DOMAIN profiles :
         display <= (Len(profiles) - 1 + ClampK) * HonestMax(j)
  /\ Done => sum.vCores <= sum.cores /\ sum.vNodes <= Len(profiles)
=============================================================================
