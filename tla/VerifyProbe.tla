----------------------------- MODULE VerifyProbe -----------------------------
(***************************************************************************)
(* verifyProbe of src/runner.js with what it calls: recheck and the local  *)
(* suite of src/benchmarks.js, and the dispatch of one kernel through the  *)
(* hub.  A run finds a rate, of iterations, elements, bytes or tokens in a *)
(* millisecond; what is reported is a metric, in whole millionths of its   *)
(* unit, and the raw evidence.  The kernels themselves, and the seed,      *)
(* which FabricSweep follows, are left out.                                *)
(***************************************************************************)
EXTENDS Integers, Sequences, SequencesExt, FiniteSets, FiniteSetsExt

CONSTANTS
  Here,          \* the machine verifyProbe runs on
  SubjectRates,  \* the rates a probe can find on the machine of the claim,
  OtherRates,    \* and on any other
  Levels,        \* the rates, and the metrics, a false claim can pretend to
  Times,         \* the milliseconds a probe can take
  Tolerance,     \* opts.tolerance, in percent
  Thousand,      \* 1e3
  Missing        \* a field of the evidence that is absent

ASSUME VerifyAssumption ==
  /\ Here \in {"subject", "other"}
  /\ SubjectRates \cup OtherRates \subseteq Nat \ {0} /\ Levels \subseteq Int
  /\ Times \subseteq Nat \ {0} /\ Tolerance \in Nat
  /\ Thousand \in Nat \ {0} /\ Missing \notin Int \cup BOOLEAN

Undefined == "undefined"
Subject == "subject"
Mega == Thousand * Thousand
Measured == [subject |-> SubjectRates, other |-> OtherRates]
Machine == DOMAIN Measured
\* The keys of BROWSER_KERNELS and the kind each one's toResult produces.
KernelGives ==
  [cpu_flops |-> "cpu_flops", cpu_int |-> "cpu_int", mem_bw |-> "mem_bw",
   llm_tokens |-> "llm_tokens", net_echo |-> "net_throughput"]
Kernel == DOMAIN KernelGives
BenchKinds == {"cpu_flops", "cpu_int", "mem_bw", "net_throughput", "disk_rw", "llm_tokens"}

-----------------------------------------------------------------------------
(* What the probes ship: a metric and the evidence it was computed from.   *)

NoRaw ==
  [iters |-> Missing, flop |-> Missing, ops |-> Missing, n |-> Missing,
   bytesPerElem |-> Missing, bytes |-> Missing, readMs |-> Missing,
   available |-> Missing, tokens |-> Missing, sentBytes |-> Missing]
Result(kind, metric, ms, raw) == [kind |-> kind, metric |-> metric, ms |-> ms, raw |-> raw]

CpuFlops(rate, ms) ==
  LET n == rate * ms
  IN  Result("cpu_flops", (n * 2) \div ms, ms, [NoRaw EXCEPT !.iters = n, !.flop = n * 2])
CpuInt(rate, ms) ==
  LET n == rate * ms
  IN  Result("cpu_int", (n \div ms) * Thousand, ms, [NoRaw EXCEPT !.iters = n, !.ops = n])
MemBandwidth(rate, ms) ==
  LET n == rate * ms
  IN  Result("mem_bw", (n * 24) \div ms, ms,
             [NoRaw EXCEPT !.n = n, !.bytes = n * 8, !.bytesPerElem = 24])
LlmTokens(rate, ms) ==
  LET tokens == rate * ms
  IN  Result("llm_tokens", (tokens \div ms) * Thousand * Mega, ms, [NoRaw EXCEPT !.tokens = tokens])
\* The time of the result is that of the write and the read, here as long.
DiskRw(rate, readMs) ==
  LET bytes == rate * readMs
  IN  Result("disk_rw", (bytes \div readMs) * Thousand, readMs + readMs,
             [NoRaw EXCEPT !.bytes = bytes, !.readMs = readMs, !.available = TRUE])
NoDisk(bytes) == Result("disk_rw", 0, 0, [NoRaw EXCEPT !.bytes = bytes, !.available = FALSE])
NetResult(metric, sentBytes, ms) ==
  Result("net_throughput", metric, ms, [NoRaw EXCEPT !.sentBytes = sentBytes])
NetThroughput(rate, ms) == LET sent == rate * ms IN NetResult((sent * 8) \div ms, sent, ms)

\* loopToResult of an answer that is ok.  The kernels that pass no count have 0
\* iterations, and their `compute` is not called.
Counted == {"cpu_flops", "cpu_int"}
LoopMetric(k, n, ms) ==
  IF k = "cpu_flops" THEN (n * 2) \div ms ELSE (n \div ms) * Thousand
LoopToResult(k, rate, ms) ==
  LET n == IF k \in Counted THEN rate * ms ELSE 0
  IN  Result(KernelGives[k], IF n = 0 THEN 0 ELSE LoopMetric(k, n, ms), ms,
             [NoRaw EXCEPT !.iters = n])

\* What a run of each probe of the local suite can give, with node:fs or not.
SuiteResults(probe, rates, fs) ==
  {CASE probe = "cpu_flops" -> CpuFlops(r, ms)
     [] probe = "cpu_int" -> CpuInt(r, ms)
     [] probe = "mem_bw" -> MemBandwidth(r, ms)
     [] probe = "llm_tokens" -> LlmTokens(r, ms)
     [] probe = "disk_rw" /\ fs -> DiskRw(r, ms)
     [] probe = "disk_rw" /\ ~fs -> NoDisk(r * ms) : r \in rates, ms \in Times}
LocalSuite == <<"cpu_flops", "cpu_int", "mem_bw", "llm_tokens", "disk_rw">>

\* What a machine that finds one of the rates can report of itself, by its
\* local suite with node:fs or not, or by a kernel through the hub.
NetReports(rates) == {NetThroughput(r, ms) : r \in rates, ms \in Times}
OwnReports(rates, fs) ==
  NetReports(rates) \cup UNION {SuiteResults(p, rates, fs) : p \in ToSet(LocalSuite)}
KernelReports(rates) == {LoopToResult(k, r, ms) : k \in Kernel, r \in rates, ms \in Times}
Reports(rates, hub, fs) == IF hub THEN KernelReports(rates) ELSE OwnReports(rates, fs)
\* A bandwidth probe of which one of the calls through the hub failed.
BrokenReports == {NetResult(0, r * ms, ms) : r \in Measured[Subject], ms \in Times}

AllReports(rates) == UNION {Reports(rates, hub, fs) : hub \in BOOLEAN, fs \in BOOLEAN}
Honest == AllReports(Measured[Subject]) \cup BrokenReports
Rescaled == {[c EXCEPT !.metric = x] : c \in Honest, x \in Levels}
UnknownKind == {[c EXCEPT !.kind = Undefined] : c \in Honest}
Claims == Honest \cup Rescaled \cup AllReports(Levels) \cup UnknownKind

-----------------------------------------------------------------------------
(* recheck of benchmarks.js: the metric again, from the evidence alone,    *)
(* as numerator and denominator.  It agrees up to the rounding of numbers. *)

Given(v, w) == IF v = Missing THEN w ELSE v  \* v ?? w

FlopCountSingle(raw) ==  \* Slip: an iteration is counted as one operation.
  Given(raw.flop, Given(raw.iters, 0))
FlopCount(raw) == Given(raw.flop, Given(raw.iters, 0) * 2)
OpCount(raw) == Given(raw.ops, Given(raw.iters, 0))
ByteCount(raw) == Given(raw.n, 0) * Given(raw.bytesPerElem, 24)

Expected(c) ==
  CASE c.kind = "cpu_flops" -> <<FlopCount(c.raw), c.ms>>
    [] c.kind = "cpu_int" -> <<OpCount(c.raw) * Thousand, c.ms>>
    [] c.kind = "mem_bw" -> <<ByteCount(c.raw), c.ms>>
    [] c.kind = "disk_rw" -> <<Given(c.raw.bytes, 0) * Thousand, Max({Given(c.raw.readMs, c.ms), 1})>>
    [] c.kind = "llm_tokens" -> <<Given(c.raw.tokens, 0) * Thousand * Mega, c.ms>>
    [] c.kind = "net_throughput" -> <<Given(c.raw.sentBytes, 0) * 8, c.ms>>

\* A quotient that is not finite is no evidence; a disk that is not there is 0.
Recheck(c) ==
  LET e == Expected(c)
  IN  IF c.kind = "disk_rw" /\ c.raw.available = FALSE THEN c.metric = 0
      ELSE e[2] # 0 /\ c.metric * e[2] = e[1]

\* The descriptors of BROWSER_KERNELS have no field `kind`; those of a suite
\* that is passed in may.
KernelKind(k, typed) == IF typed THEN KernelGives[k] ELSE Undefined
SelectKernels(kinds, typed) == {k \in Kernel : KernelKind(k, typed) \in kinds}

NoResult == [kind |-> Undefined, metric |-> 0, machine |-> Here]
OfKind(rs, kind) == {i \in DOMAIN rs : rs[i].kind = kind}
\* results.find of reprobe.
Fresh(rs, kind) ==
  IF OfKind(rs, kind) = {} THEN NoResult ELSE rs[Min(OfKind(rs, kind))]

Distance(a, b) == IF a > b THEN a - b ELSE b - a
\* The relative difference, as a pair of numerator and denominator.
Comparable(c, f) == f.metric > 0 /\ c.metric >= 0
DeltaSigned(c, f) ==  \* Slip: the difference keeps its sign.
  IF Comparable(c, f) THEN <<f.metric - c.metric, Max({f.metric, c.metric})>> ELSE <<0, 1>>
Delta(c, f) ==
  IF Comparable(c, f) THEN <<Distance(c.metric, f.metric), Max({f.metric, c.metric})>> ELSE <<0, 1>>
Within(d) == d[1] * 100 <= Tolerance * d[2]

VARIABLES
  pc,        \* "check", "suite", "kernels", "compare" or "done"
  claim,     \* the result to verify
  hub,       \* the target has a hub client
  described, \* the kernel descriptors of the suite have the field `kind`
  aimed,     \* opts.target names the subject
  fs,        \* the machines have node:fs
  recompute, \* whether recheck agreed
  left,      \* the probes or kernels the re-run has left
  rerun,     \* what the re-run gave so far, and where
  fresh, delta, verdict
verifyVars == <<pc, claim, hub, described, aimed, fs, recompute, left, rerun, fresh, delta, verdict>>
inputs == <<claim, hub, described, aimed, fs>>

VerifyInit(claims, flags) ==
  /\ pc = "check" /\ claim \in claims
  /\ hub \in flags /\ described \in flags /\ aimed \in flags /\ fs \in flags
  /\ recompute = FALSE /\ left = <<>> /\ rerun = <<>>
  /\ fresh = NoResult /\ delta = <<0, 1>> /\ verdict = "none"

RefuseKind ==
  /\ pc = "check" /\ claim.kind \notin BenchKinds
  /\ pc' = "done" /\ verdict' = "invalid kind"
  /\ UNCHANGED <<inputs, recompute, left, rerun, fresh, delta>>

CheckEvidence ==
  /\ pc = "check" /\ claim.kind \in BenchKinds
  /\ recompute' = Recheck(claim)
  /\ IF hub
     THEN pc' = "kernels" /\ left' = SetToSeq(SelectKernels({claim.kind}, described))
     ELSE pc' = "suite" /\ left' = LocalSuite
  /\ UNCHANGED <<inputs, rerun, fresh, delta, verdict>>

Found(r, n) == [kind |-> r.kind, metric |-> r.metric, machine |-> n]

\* The local suite runs in this process, whatever the target.
RunProbe ==
  /\ pc = "suite" /\ left # <<>>
  /\ \E r \in SuiteResults(Head(left), Measured[Here], fs) :
       rerun' = Append(rerun, Found(r, Here))
  /\ left' = Tail(left)
  /\ UNCHANGED <<pc, inputs, recompute, fresh, delta, verdict>>

\* A probe that throws rejects runLocalSuite; verifyProbe has no fresh run.
ProbeThrows ==
  /\ pc = "suite" /\ left # <<>>
  /\ pc' = "compare" /\ left' = <<>> /\ rerun' = <<>>
  /\ UNCHANGED <<inputs, recompute, fresh, delta, verdict>>

\* Without opts.target the hub chooses the machine.
RunKernel ==
  /\ pc = "kernels" /\ left # <<>>
  /\ \E n \in IF aimed THEN {Subject} ELSE Machine : \E rate \in Measured[n], ms \in Times :
       rerun' = Append(rerun, Found(LoopToResult(Head(left), rate, ms), n))
  /\ left' = Tail(left)
  /\ UNCHANGED <<pc, inputs, recompute, fresh, delta, verdict>>

KernelFails ==
  /\ pc = "kernels" /\ left # <<>>
  /\ left' = Tail(left)
  /\ UNCHANGED <<pc, inputs, recompute, rerun, fresh, delta, verdict>>

Reprobed ==
  /\ pc \in {"suite", "kernels"} /\ left = <<>>
  /\ pc' = "compare" /\ fresh' = Fresh(rerun, claim.kind)
  /\ UNCHANGED <<inputs, recompute, left, rerun, delta, verdict>>

Verdict(recomputed, f, d) ==
  IF ~recomputed THEN "recompute mismatch"
  ELSE IF f # NoResult /\ ~Within(d) THEN "delta" ELSE "verified"

Compare ==
  /\ pc = "compare"
  /\ pc' = "done" /\ delta' = Delta(claim, fresh)
  /\ verdict' = Verdict(recompute, fresh, delta')
  /\ UNCHANGED <<inputs, recompute, left, rerun, fresh>>

VerifyNext ==
  \/ RefuseKind \/ CheckEvidence \/ RunProbe \/ ProbeThrows
  \/ RunKernel \/ KernelFails \/ Reprobed \/ Compare
VerifySpec == VerifyInit(Claims, BOOLEAN) /\ [][VerifyNext]_verifyVars

-----------------------------------------------------------------------------
(***************************************************************************)
(* Properties.                                                             *)
(***************************************************************************)
\* The metrics of a kind that the subject can show by the means of this run.
CanShow(kind, h, f) == {r.metric : r \in {x \in Reports(Measured[Subject], h, f) : x.kind = kind}}
CloseTo(a, b) == Within(<<Distance(a, b), Max({a, b})>>)

\* What the suite, or a browser kernel through the hub, found on the subject
\* is verified by the same means, whatever fails meanwhile, unless the fresh
\* run was taken on another machine: each formula of recheck gives back the
\* metric that the probe or the kernel computed from its own evidence, with
\* the fields that the one ships and the other falls back from
\* (benchmarks.js 182-685, 742-781).
HonestVerified ==
  pc = "done" /\ claim \in Reports(Measured[Subject], hub, fs)
    /\ (fresh = NoResult \/ fresh.machine = Subject)
  => verdict = "verified"

\* A claim that is verified against a fresh run on the subject is within the
\* tolerance of something that the subject can show, however well its evidence
\* agrees with it.  Exactly two kinds of claims escape, because runner.js 238
\* then compares nothing: one of a negative metric, and one of a kind of which
\* the fresh run is always 0, which are the kernels that pass no count, and the
\* disk where there is no node:fs.
ShowsNothing(kind) == IF hub THEN kind \notin Counted ELSE kind = "disk_rw" /\ ~fs
FabricatedCaught ==
  pc = "done" /\ verdict = "verified" /\ fresh # NoResult /\ fresh.machine = Subject =>
    \/ claim.metric < 0 \/ ShowsNothing(claim.kind)
    \/ \E m \in CanShow(claim.kind, hub, fs) : CloseTo(claim.metric, m)
=============================================================================
