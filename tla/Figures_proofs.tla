---------------------------- MODULE Figures_proofs ----------------------------
(***************************************************************************)
(* The computations that run by themselves, for any number of iterations,  *)
(* jobs, nodes, profiles, rates and results:                               *)
(*   - RemoteFetch: a fetch is cold, or was answered with a known blob;    *)
(*   - Plausibility: the two judgements of a history agree;                *)
(*   - VerifyProbe: an honest result is told from a fabricated one;        *)
(*   - ProfileAssembly: a profile is valid, lists a named GPU once and     *)
(*     ships the evidence of its headlines;                                *)
(*   - ProfileBoard: the figures are of the freshest profiles shown;       *)
(*   - FabricTotals: no machine inflates the totals of three or more;      *)
(*   - AutoTune: what is reported is of the one run that was timed.        *)
(***************************************************************************)
EXTENDS RemoteFetch, Plausibility, VerifyProbe, ProfileAssembly, ProfileBoard, FabricTotals,
        AutoTune, FiniteSums_proofs, SequenceTheorems, FunctionTheorems

(***************************************************************************)
(* RemoteFetch: the blob that is waited for is not there, because the last *)
(* one that was stored is newer than any that was fetched, unless the      *)
(* answer of this iteration named one that was.                            *)
(***************************************************************************)
FetchTypes ==
  /\ round \in Nat \ {0} /\ await \in {"hash", "blob", "over"}
  /\ wanted \in Nat /\ minted \in Nat /\ kept \subseteq 1 .. minted /\ failed \in Nat
  /\ IsFiniteSet(fetched) /\ \A f \in fetched : f.round \in Nat /\ f.round < round
Awaited == await = "blob" => wanted \in 1 .. minted /\ (wanted \notin kept \/ round \in known)
Rounds == (await # "over" => round <= Fetches) /\ (await = "over" => round = Fetches + 1)
FetchInv == FetchTypes /\ Awaited /\ Rounds /\ FetchesCold

\* The next iteration waits for no blob yet.
LEMMA NextRoundFacts ==
  ASSUME FetchInv, NextRound, await # "over"
  PROVE  /\ round' = round + 1 /\ wanted' = 0
         /\ Awaited' /\ Rounds' /\ await' \in {"hash", "over"}
  BY FetchAssumption DEF FetchInv, FetchTypes, NextRound, Rounds, Awaited

\* Each answer to a fetch keeps FetchInv.
LEMMA FetchStep == ASSUME FetchInv, FetchNext PROVE FetchInv'
<1>0. /\ FetchTypes /\ Awaited /\ Rounds /\ FetchesCold /\ Cardinality(fetched) \in Nat
      /\ Cardinality(fetched) + failed = round - 1
  BY FS_CardinalityType DEF FetchInv, FetchTypes, FetchesCold
<1>1. CASE Ask
  <2>1. FetchTypes' /\ Rounds'
    BY <1>0, <1>1 DEF Ask, FetchTypes, Rounds
  <2>2. Awaited'
    BY <1>0, <1>1 DEF Ask, FetchTypes, Awaited
  <2>3. FetchesCold'
    BY <1>0, <1>1 DEF Ask, FetchTypes, FetchesCold
  <2> QED BY <2>1, <2>2, <2>3 DEF FetchInv
<1>5. CASE \E b \in 1 .. minted : AskKnown(b)
  <2>0. PICK b \in 1 .. minted : AskKnown(b)
    BY <1>5
  <2>1. FetchTypes' /\ Rounds'
    BY <1>0, <2>0 DEF AskKnown, FetchTypes, Rounds
  <2>2. Awaited'
    BY <1>0, <2>0 DEF AskKnown, FetchTypes, Awaited
  <2>3. FetchesCold'
    BY <1>0, <2>0 DEF AskKnown, FetchTypes, FetchesCold
  <2> QED BY <2>1, <2>2, <2>3 DEF FetchInv
<1>2. CASE AskFails
  <2>1. /\ round' = round + 1 /\ wanted' = 0 /\ Awaited' /\ Rounds' /\ await' \in {"hash", "over"}
        /\ failed' = failed + 1 /\ minted' \in {minted, minted + 1} /\ UNCHANGED <<kept, known, fetched>>
    BY <1>2, NextRoundFacts DEF AskFails
  <2>2. FetchTypes'
    BY <1>0, <2>1 DEF FetchTypes
  <2>3. FetchesCold'
    BY <1>0, <2>1, FetchAssumption DEF FetchTypes, FetchesCold, Rounds
  <2> QED BY <2>1, <2>2, <2>3 DEF FetchInv
<1>3. CASE GetFails
  <2>1. /\ round' = round + 1 /\ wanted' = 0 /\ Awaited' /\ Rounds' /\ await' \in {"hash", "over"}
        /\ failed' = failed + 1 /\ kept' \subseteq kept \cup {wanted} /\ UNCHANGED <<minted, known, fetched>>
        /\ wanted \in 1 .. minted
    BY <1>0, <1>3, NextRoundFacts DEF GetFails, Awaited
  <2>2. FetchTypes'
    BY <1>0, <2>1 DEF FetchTypes
  <2>3. FetchesCold'
    BY <1>0, <2>1, FetchAssumption DEF FetchTypes, FetchesCold, Rounds
  <2> QED BY <2>1, <2>2, <2>3 DEF FetchInv
<1>4. CASE Get
  <2> DEFINE f == [round |-> round, blob |-> wanted, cold |-> wanted \notin kept]
  <2>1. /\ round' = round + 1 /\ wanted' = 0 /\ Awaited' /\ Rounds' /\ await' \in {"hash", "over"}
        /\ fetched' = fetched \cup {f} /\ kept' = kept \cup {wanted} /\ UNCHANGED <<minted, known, failed>>
        /\ wanted \in 1 .. minted /\ (f.cold \/ f.round \in known) /\ f.round = round /\ f.blob = wanted
    BY <1>0, <1>4, NextRoundFacts DEF Get, Awaited
  <2>2. f \notin fetched
    BY <1>0, <2>1 DEF FetchTypes
  <2> HIDE DEF f
  <2>3. /\ Cardinality(fetched') = Cardinality(fetched) + 1
        /\ IsFiniteSet(fetched')
    BY <1>0, <2>1, <2>2, FS_AddElement DEF FetchTypes
  <2>4. FetchTypes'
    BY <1>0, <2>1, <2>3 DEF FetchTypes
  <2>5. FetchesCold'
    BY <1>0, <2>1, <2>3, FetchAssumption DEF FetchTypes, FetchesCold, Rounds
  <2> QED BY <2>1, <2>4, <2>5 DEF FetchInv
<1> QED BY <1>1, <1>2, <1>3, <1>4, <1>5 DEF FetchNext

\* No time of probeBlobGetRemote is of a blob this node had already, unless the
\* answer of its iteration named one, and each iteration is a time or an error,
\* for any number of iterations and of blobs held before (280-300).
THEOREM RemoteFetchesCold == FetchSpec => []FetchesCold
<1>1. FetchInit => FetchInv
  BY FS_EmptySet, FetchAssumption
     DEF FetchInit, FetchInv, FetchTypes, Awaited, Rounds, FetchesCold
<1>2. FetchInv /\ UNCHANGED fetchVars => FetchInv'
  BY DEF FetchInv, FetchTypes, Awaited, Rounds, FetchesCold, fetchVars
<1>3. FetchInv => FetchesCold
  BY DEF FetchInv
<1> QED BY <1>1, <1>2, <1>3, FetchStep, PTL DEF FetchSpec

-----------------------------------------------------------------------------
(***************************************************************************)
(* Plausibility: what earns trust is work, and work is not undone.         *)
(***************************************************************************)
JudgeInv ==
  /\ record \in Records
  /\ flags = Unflagged /\ weight \in 1 .. 60 => HasWork(record)
  /\ JudgementsAgree

LEMMA TrustNeedsWork == \A r \in Records : HistoryTrust(r) \in 1 .. 60 => HasWork(r)
<1> SUFFICES ASSUME NEW r \in Records, ~HasWork(r) PROVE HistoryTrust(r) = 0
  OBVIOUS
<1>1. r.jobs = 0 /\ r.earned # "text"
  BY PlausibilityAssumption DEF Records, HasWork, JobsHosted
<1>2. (60 * 0) \div (0 + 1) = 0
  OBVIOUS
<1> QED BY <1>1, <1>2 DEF HistoryTrust

LEMMA WorkStays == ASSUME record \in Records, Delivers PROVE record' \in Records /\ HasWork(record')
<1>1. /\ record.jobs \in 0 .. MaxJobs /\ record.spelled \in Spellings
      /\ record.beats \in 0 .. 1 /\ record.earned \in Earnings
  BY DEF Records
<1> DEFINE jobs == IF record.jobs < MaxJobs THEN record.jobs + 1 ELSE record.jobs
           earned == IF record.earned = "number" THEN record.earned ELSE "text"
<1>2. jobs \in 0 .. MaxJobs /\ earned \in Earnings
  BY <1>1, PlausibilityAssumption DEF Earnings
<1>3. record' = [jobs |-> jobs, spelled |-> record.spelled, beats |-> 1, earned |-> earned]
  BY DEF Delivers, Records
<1> HIDE DEF jobs, earned
<1>4. record' \in Records
  BY <1>1, <1>2, <1>3 DEF Records
<1>5. HasWork(record')
  BY <1>3 DEF HasWork
<1> QED BY <1>4, <1>5

\* A set of flags is none that could be taken for "not checked yet".
LEMMA Checked ==
  ASSUME Checks
  PROVE  flags' # Unflagged /\ (flags' = {} => BigClaims = {} \/ HasWork(record))
<1> DEFINE unverified == {<<"unverified", c>> : c \in BigClaims}
           implausible == {<<"implausible", c>> : c \in BigClaims}
<1>1. flags' \in {unverified, IF HasWork(record) THEN {} ELSE implausible}
  BY DEF Checks
<1>2. \A S \in {unverified, implausible, {}} : <<"unread", "none">> \notin S
  BY DEF BigClaims
<1>3. (unverified = {} \/ implausible = {}) => BigClaims = {}
  OBVIOUS
<1> QED BY <1>1, <1>2, <1>3 DEF Unflagged

\* A node that was weighed and had trust is not called implausible later, and
\* a big claim passes over work only, for any record and any claims.
THEOREM JudgedAlike == JudgeSpec => []JudgementsAgree
<1>1. JudgeInit(Tflops \X Tokens, Records) => JudgeInv
  <2> SUFFICES ASSUME JudgeInit(Tflops \X Tokens, Records) PROVE JudgeInv
    OBVIOUS
  <2>1. record \in Records /\ weight = 100 /\ flags # {} /\ weighedFirst = FALSE
    BY DEF JudgeInit, Unread, Unflagged
  <2> QED BY <2>1 DEF JudgeInv, JudgementsAgree
<1>2. ASSUME JudgeInv, [JudgeNext]_judgeVars PROVE JudgeInv'
  <2>1. CASE Weighs
    <3>1. /\ UNCHANGED <<boast, record, flags, checkedAt>>
          /\ weighedFirst' = (flags = Unflagged)
          /\ weight' \in 1 .. 60 => HasWork(record)
      BY <1>2, <2>1, TrustNeedsWork DEF Weighs, JudgeInv
    <3>2. flags = Unflagged => ~Implausible /\ flags # {}
      BY DEF Unflagged, Implausible
    <3> QED BY <1>2, <3>1, <3>2 DEF JudgeInv, JudgementsAgree, Implausible, BigClaims
  <2>2. CASE Checks
    <3>1. UNCHANGED <<boast, record, weight, weighedFirst>> /\ checkedAt' = record
      BY <2>2 DEF Checks
    <3>2. weighedFirst /\ weight \in 1 .. 60 => ~Implausible'
      <4>1. HasWork(record) => ~Implausible'
        BY <2>2 DEF Checks, Implausible, BigClaims
      <4>2. flags = Unflagged
        BY <2>2 DEF Checks
      <4> QED BY <1>2, <4>1, <4>2 DEF JudgeInv
    <3> QED BY <1>2, <2>2, <3>1, <3>2, Checked DEF JudgeInv, JudgementsAgree, BigClaims
  <2>3. CASE Delivers
    <3>1. UNCHANGED <<boast, weight, flags, checkedAt, weighedFirst>>
      BY <2>3 DEF Delivers
    <3> QED BY <1>2, <2>3, <3>1, WorkStays DEF JudgeInv, JudgementsAgree, Implausible, BigClaims
  <2>4. CASE UNCHANGED judgeVars
    BY <1>2, <2>4 DEF judgeVars, JudgeInv, JudgementsAgree, Implausible, BigClaims
  <2> QED BY <1>2, <2>1, <2>2, <2>3, <2>4 DEF JudgeNext
<1>3. JudgeInv => JudgementsAgree
  BY DEF JudgeInv
<1> QED BY <1>1, <1>2, <1>3, PTL DEF JudgeSpec

-----------------------------------------------------------------------------
(***************************************************************************)
(* VerifyProbe: recheck gives back what each probe and each kernel says of *)
(* its own run, and what the re-run takes on the subject is a metric that  *)
(* the subject can show.                                                   *)
(***************************************************************************)
\* A rate, or a multiple of it, is read back from the work and the time.
LEMMA DivExact == \A a \in Int, b \in Nat \ {0} : (a * b) \div b = a
OBVIOUS

LEMMA Quotients ==
  ASSUME NEW r \in Int, NEW ms \in Nat \ {0}, NEW k \in Int
  PROVE  /\ (r * ms) \div ms = r /\ ((r * ms) * k) \div ms = r * k
         /\ (r * k) * ms = (r * ms) * k
<1>1. ms \in Int /\ r * k \in Int /\ r * ms \in Int
  OBVIOUS
<1>2. (r * k) * ms = (r * ms) * k
  BY <1>1
<1>3. ((r * k) * ms) \div ms = r * k /\ (r * ms) \div ms = r
  BY <1>1, DivExact
<1> QED BY <1>2, <1>3

\* The same of a factor by its name, for the provers simplify it otherwise.
LEMMA Factor ==
  ASSUME NEW r \in Int, NEW ms \in Nat \ {0}, NEW n, n = r * ms, NEW c, NEW k \in Int, k = c
  PROVE  /\ (n * c) \div ms = r * c /\ (n \div ms) * c = r * c
         /\ (r * c) * ms = n * c
BY Quotients

\* The local suite and the kernels of the code have the kinds the board knows.
LEMMA SuiteKinds == ToSet(LocalSuite) = {"cpu_flops", "cpu_int", "mem_bw", "llm_tokens", "disk_rw"}
BY DEF ToSet, LocalSuite

LEMMA Kernels5 == Kernel = {"cpu_flops", "cpu_int", "mem_bw", "llm_tokens", "net_echo"}
BY DEF Kernel, KernelGives

LEMMA Machines == Machine = {"subject", "other"} /\ Measured["subject"] = SubjectRates /\ Measured["other"] = OtherRates
BY DEF Machine, Measured

\* SetToSeq lists the members of a finite set.
LEMMA SeqOfSet ==
  ASSUME NEW S, IsFiniteSet(S)
  PROVE  SetToSeq(S) \in Seq(S)
<1>1. Cardinality(S) \in Nat /\ ExistsBijection(1 .. Cardinality(S), S)
  BY FS_CardinalityType
<1>2. PICK f : f \in Bijection(1 .. Cardinality(S), S)
  BY <1>1 DEF ExistsBijection
<1>3. f \in [1 .. Cardinality(S) -> S] /\ IsInjective(f)
  BY <1>2 DEF Bijection, Injection
<1>4. SetToSeq(S) \in [1 .. Cardinality(S) -> S]
  BY <1>3 DEF SetToSeq
<1> QED BY <1>1, <1>4

-----------------------------------------------------------------------------
\* What recheck needs of a result: numerator and time of its formula.
LEMMA RecheckIs ==
  ASSUME NEW x, x.kind # "disk_rw", NEW num, NEW ms \in Nat \ {0},
         Expected(x) = <<num, ms>>, x.metric * ms = num
  PROVE  Recheck(x)
BY DEF Recheck

\* A field that is there is taken, one that is absent is replaced.
LEMMA GivenIs == Missing \notin Int /\ (\A v \in Int : \A w : Given(v, w) = v) /\ (\A w : Given(Missing, w) = w)
BY VerifyAssumption DEF Given

\* Each probe of the suite, and each kernel: its metric at a rate, which recheck
\* finds again (benchmarks.js).
LEMMA CpuFlopsIs ==
  ASSUME NEW r \in Int, NEW ms \in Nat \ {0}, NEW x, x = CpuFlops(r, ms)
  PROVE  x.kind = "cpu_flops" /\ x.metric = r * 2 /\ Recheck(x)
<1>1. PICK n \in Int : n = r * ms
  OBVIOUS
<1>2. x.kind = "cpu_flops" /\ x.metric = (n * 2) \div ms /\ x.ms = ms /\ x.raw.flop = n * 2
  BY <1>1 DEF CpuFlops, Result, NoRaw
<1>3. Expected(x) = <<n * 2, ms>>
  BY <1>2, GivenIs DEF Expected, FlopCount
<1>4. x.metric = r * 2 /\ x.metric * ms = n * 2
  <2>1. PICK k \in Int : k = 2
    OBVIOUS
  <2>2. (n * 2) \div ms = r * 2 /\ (r * 2) * ms = n * 2
    BY <1>1, <2>1, Factor
  <2> QED BY <1>2, <2>2
<1> QED BY <1>2, <1>3, <1>4, RecheckIs

LEMMA CpuIntIs ==
  ASSUME NEW r \in Int, NEW ms \in Nat \ {0}, NEW x, x = CpuInt(r, ms)
  PROVE  x.kind = "cpu_int" /\ x.metric = r * Thousand /\ Recheck(x)
<1>1. PICK n \in Int : n = r * ms
  OBVIOUS
<1>2. x.kind = "cpu_int" /\ x.metric = (n \div ms) * Thousand /\ x.ms = ms /\ x.raw.ops = n
  BY <1>1 DEF CpuInt, Result, NoRaw
<1>3. Expected(x) = <<n * Thousand, ms>>
  BY <1>2, GivenIs DEF Expected, OpCount
<1>4. x.metric = r * Thousand /\ x.metric * ms = n * Thousand
  <2>1. (n \div ms) * Thousand = r * Thousand /\ (r * Thousand) * ms = n * Thousand
    BY <1>1, Factor, VerifyAssumption
  <2> QED BY <1>2, <2>1
<1> QED BY <1>2, <1>3, <1>4, RecheckIs

LEMMA MemBandwidthIs ==
  ASSUME NEW r \in Int, NEW ms \in Nat \ {0}, NEW x, x = MemBandwidth(r, ms)
  PROVE  x.kind = "mem_bw" /\ x.metric = r * 24 /\ Recheck(x)
<1>1. PICK n \in Int : n = r * ms
  OBVIOUS
<1>2. /\ x.kind = "mem_bw" /\ x.metric = (n * 24) \div ms /\ x.ms = ms
      /\ x.raw.n = n /\ x.raw.bytesPerElem = 24
  BY <1>1 DEF MemBandwidth, Result, NoRaw
<1>3. Expected(x) = <<n * 24, ms>>
  BY <1>2, GivenIs DEF Expected, ByteCount
<1>4. x.metric = r * 24 /\ x.metric * ms = n * 24
  <2>1. PICK k \in Int : k = 24
    OBVIOUS
  <2>2. (n * 24) \div ms = r * 24 /\ (r * 24) * ms = n * 24
    BY <1>1, <2>1, Factor
  <2> QED BY <1>2, <2>2
<1> QED BY <1>2, <1>3, <1>4, RecheckIs

LEMMA LlmTokensIs ==
  ASSUME NEW r \in Int, NEW ms \in Nat \ {0}, NEW x, x = LlmTokens(r, ms)
  PROVE  x.kind = "llm_tokens" /\ x.metric = r * Thousand * Mega /\ Recheck(x)
<1>1. PICK n \in Int : n = r * ms
  OBVIOUS
<1>2. x.kind = "llm_tokens" /\ x.metric = (n \div ms) * Thousand * Mega /\ x.ms = ms /\ x.raw.tokens = n
  BY <1>1 DEF LlmTokens, Result, NoRaw
<1>3. Expected(x) = <<n * Thousand * Mega, ms>>
  BY <1>2, GivenIs DEF Expected
<1>4. PICK t \in Int, m \in Int : t = Thousand /\ m = Mega
  BY VerifyAssumption DEF Mega
<1>5. x.metric = r * t * m
  BY <1>1, <1>2, <1>4, Quotients
<1>6. (r * t * m) * ms = n * t * m
  BY <1>1, <1>4
<1> QED BY <1>2, <1>3, <1>4, <1>5, <1>6, RecheckIs

LEMMA NetThroughputIs ==
  ASSUME NEW r \in Int, NEW ms \in Nat \ {0}, NEW x, x = NetThroughput(r, ms)
  PROVE  x.kind = "net_throughput" /\ x.metric = r * 8 /\ Recheck(x)
<1>1. PICK n \in Int : n = r * ms
  OBVIOUS
<1>2. x.kind = "net_throughput" /\ x.metric = (n * 8) \div ms /\ x.ms = ms /\ x.raw.sentBytes = n
  BY <1>1 DEF NetThroughput, NetResult, Result, NoRaw
<1>3. Expected(x) = <<n * 8, ms>>
  BY <1>2, GivenIs DEF Expected
<1>4. x.metric = r * 8 /\ x.metric * ms = n * 8
  <2>1. PICK k \in Int : k = 8
    OBVIOUS
  <2>2. (n * 8) \div ms = r * 8 /\ (r * 8) * ms = n * 8
    BY <1>1, <2>1, Factor
  <2> QED BY <1>2, <2>2
<1> QED BY <1>2, <1>3, <1>4, RecheckIs

LEMMA DiskRwIs ==
  ASSUME NEW r \in Int, NEW ms \in Nat \ {0}, NEW x, x = DiskRw(r, ms)
  PROVE  x.kind = "disk_rw" /\ x.metric = r * Thousand /\ Recheck(x)
<1>1. PICK n \in Int : n = r * ms
  OBVIOUS
<1>2. /\ x.kind = "disk_rw" /\ x.metric = (n \div ms) * Thousand
      /\ x.raw.bytes = n /\ x.raw.readMs = ms /\ x.raw.available = TRUE
  BY <1>1 DEF DiskRw, Result, NoRaw
<1>3. Max({ms, 1}) = ms
  BY DEF Max
<1>4. Expected(x) = <<n * Thousand, ms>>
  <2>1. Given(x.raw.bytes, 0) = n /\ Given(x.raw.readMs, x.ms) = ms
    BY <1>2, GivenIs
  <2>2. Expected(x) = <<Given(x.raw.bytes, 0) * Thousand, Max({Given(x.raw.readMs, x.ms), 1})>>
    BY <1>2 DEF Expected
  <2> QED BY <1>3, <2>1, <2>2
<1>5. x.metric = r * Thousand /\ x.metric * ms = n * Thousand
  <2>1. (n \div ms) * Thousand = r * Thousand /\ (r * Thousand) * ms = n * Thousand
    BY <1>1, Factor, VerifyAssumption
  <2> QED BY <1>2, <2>1
<1> QED BY <1>2, <1>4, <1>5 DEF Recheck

LEMMA NoDiskIs ==
  ASSUME NEW bytes, NEW x, x = NoDisk(bytes)
  PROVE  x.kind = "disk_rw" /\ x.metric = 0 /\ Recheck(x)
<1>1. x.kind = "disk_rw" /\ x.metric = 0 /\ x.raw.available = FALSE
  BY DEF NoDisk, Result, NoRaw
<1> QED BY <1>1 DEF Recheck

LEMMA LoopToResultIs ==
  ASSUME NEW k \in Kernel, NEW r \in Int, NEW ms \in Nat \ {0}, NEW x, x = LoopToResult(k, r, ms)
  PROVE  /\ x.kind = KernelGives[k] /\ Recheck(x)
         /\ x.metric = IF k = "cpu_flops" THEN r * 2 ELSE IF k = "cpu_int" THEN r * Thousand ELSE 0
<1>1. PICK n \in Int : n = IF k \in Counted THEN r * ms ELSE 0
  OBVIOUS
<1>2. /\ x.kind = KernelGives[k] /\ x.ms = ms /\ x.raw = [NoRaw EXCEPT !.iters = n]
      /\ x.metric = IF n = 0 THEN 0 ELSE LoopMetric(k, n, ms)
  BY <1>1 DEF LoopToResult, Result
<1>3. /\ x.raw.iters = n /\ x.raw.flop = Missing /\ x.raw.ops = Missing /\ x.raw.n = Missing
      /\ x.raw.bytesPerElem = Missing /\ x.raw.tokens = Missing /\ x.raw.sentBytes = Missing
  BY <1>2 DEF NoRaw
<1>4. ASSUME k \in Counted, n = 0 PROVE r = 0
  BY <1>1, <1>4
<1>5. CASE k = "cpu_flops"
  <2>1. x.kind = "cpu_flops" /\ k \in Counted /\ n = r * ms
    BY <1>1, <1>2, <1>5 DEF KernelGives, Counted
  <2>2. Expected(x) = <<n * 2, ms>>
    BY <1>2, <1>3, <2>1, GivenIs DEF Expected, FlopCount
  <2>3. x.metric = r * 2 /\ x.metric * ms = n * 2
    <3>1. PICK m \in Int : m = 2
      OBVIOUS
    <3>2. (n * 2) \div ms = r * 2 /\ (r * 2) * ms = n * 2
      BY <2>1, <3>1, Factor
    <3>3. x.metric = r * 2
      BY <1>2, <1>4, <1>5, <2>1, <3>2 DEF LoopMetric
    <3> QED BY <3>2, <3>3
  <2> QED BY <1>2, <1>5, <2>1, <2>2, <2>3, RecheckIs
<1>6. CASE k = "cpu_int"
  <2>1. x.kind = "cpu_int" /\ k \in Counted /\ n = r * ms
    BY <1>1, <1>2, <1>6 DEF KernelGives, Counted
  <2>2. Expected(x) = <<n * Thousand, ms>>
    BY <1>2, <1>3, <2>1, GivenIs DEF Expected, OpCount
  <2>3. x.metric = r * Thousand /\ x.metric * ms = n * Thousand
    <3>1. (n \div ms) * Thousand = r * Thousand /\ (r * Thousand) * ms = n * Thousand
      BY <2>1, Factor, VerifyAssumption
    <3>2. x.metric = r * Thousand
      <4>1. CASE n = 0
        BY <1>2, <1>4, <2>1, <4>1, VerifyAssumption
      <4>2. CASE n # 0
        BY <1>2, <1>6, <3>1, <4>2 DEF LoopMetric
      <4> QED BY <4>1, <4>2
    <3> QED BY <3>1, <3>2
  <2> QED BY <1>2, <1>6, <2>1, <2>2, <2>3, RecheckIs
<1>7. CASE k \in {"mem_bw", "llm_tokens", "net_echo"}
  <2>1. n = 0 /\ x.metric = 0 /\ x.kind \in {"mem_bw", "llm_tokens", "net_throughput"}
    BY <1>1, <1>2, <1>7 DEF KernelGives, Counted
  <2>2. Expected(x) = <<0, ms>>
    <3>1. 0 * Given(x.raw.bytesPerElem, 24) = 0 /\ 0 * Thousand * Mega = 0
      BY <1>3, GivenIs, VerifyAssumption DEF Mega
    <3> QED BY <1>2, <1>3, <2>1, <3>1, GivenIs DEF Expected, ByteCount
  <2> QED BY <1>2, <1>7, <2>1, <2>2, RecheckIs
<1> QED BY <1>5, <1>6, <1>7, Kernels5

\* The reports of the local suite and of the bandwidth probe.
LEMMA OwnReportsAre ==
  ASSUME NEW rates, NEW f, NEW x
  PROVE  x \in OwnReports(rates, f) <=>
           x \in NetReports(rates) \/ \E p \in ToSet(LocalSuite) : x \in SuiteResults(p, rates, f)
BY DEF OwnReports

\* What a machine of these rates reports of itself, by the means of h and f.
LEMMA ReportIs ==
  ASSUME NEW rates, rates \subseteq Int, NEW h \in BOOLEAN, NEW f \in BOOLEAN,
         NEW x \in Reports(rates, h, f)
  PROVE  /\ x.kind \in BenchKinds /\ x.metric \in Int /\ Recheck(x)
         /\ rates \subseteq Nat \ {0} =>
              x.metric >= 0 /\ (~(IF h THEN x.kind \notin Counted ELSE x.kind = "disk_rw" /\ ~f) => x.metric > 0)
<1>0. /\ \A ms \in Times : ms \in Nat \ {0}
      /\ \A r \in Int : r * 2 \in Int /\ r * Thousand \in Int /\ r * 24 \in Int /\ r * 8 \in Int
                          /\ r * Thousand * Mega \in Int
  BY VerifyAssumption DEF Mega
<1>1. \A r \in Nat \ {0} : r * 2 > 0 /\ r * Thousand > 0 /\ r * 24 > 0 /\ r * 8 > 0 /\ r * Thousand * Mega > 0
  <2>1. \A a, b \in Nat \ {0} : a * b \in Nat \ {0}
    OBVIOUS
  <2>2. Thousand \in Nat \ {0} /\ Mega \in Nat \ {0}
    BY <2>1, VerifyAssumption DEF Mega
  <2>3. \A r \in Nat \ {0} : r * Thousand \in Nat \ {0} /\ r * Thousand * Mega \in Nat \ {0}
    BY <2>1, <2>2
  <2> QED BY <2>3
<1>2. CASE h
  <2>1. PICK k \in Kernel, r \in rates, ms \in Times : x = LoopToResult(k, r, ms)
    BY <1>2 DEF Reports, KernelReports
  <2>2. /\ x.kind = KernelGives[k] /\ Recheck(x)
        /\ x.metric = IF k = "cpu_flops" THEN r * 2 ELSE IF k = "cpu_int" THEN r * Thousand ELSE 0
    BY <1>0, <2>1, LoopToResultIs
  <2>3. x.kind \in BenchKinds /\ (x.kind \in Counted => k \in {"cpu_flops", "cpu_int"})
    BY <2>2, Kernels5 DEF KernelGives, BenchKinds, Counted
  <2> QED BY <1>0, <1>1, <1>2, <2>2, <2>3
<1>3. CASE ~h
  <2> SUFFICES /\ x.kind \in BenchKinds /\ x.metric \in Int /\ Recheck(x)
               /\ rates \subseteq Nat \ {0} => x.metric >= 0 /\ (x.kind # "disk_rw" \/ f => x.metric > 0)
    BY <1>3, Zenon
  <2>0. x \in OwnReports(rates, f)
    BY <1>3, Zenon DEF Reports
  <2>1. x \in NetReports(rates) \/ \E p \in ToSet(LocalSuite) : x \in SuiteResults(p, rates, f)
    BY <2>0, OwnReportsAre, Zenon
  <2>2. CASE x \in NetReports(rates)
    <3>1. PICK r \in rates, ms \in Times : x = NetThroughput(r, ms)
      BY <2>2 DEF NetReports
    <3>2. x.kind = "net_throughput" /\ x.metric = r * 8 /\ Recheck(x)
      BY <1>0, <3>1, NetThroughputIs
    <3>3. r \in Int /\ r * 8 \in Int /\ (r \in Nat \ {0} => r * 8 > 0)
      OBVIOUS
    <3>4. rates \subseteq Nat \ {0} => r \in Nat \ {0}
      OBVIOUS
    <3> QED BY <3>2, <3>3, <3>4 DEF BenchKinds
  <2>3. CASE \E p \in ToSet(LocalSuite) : x \in SuiteResults(p, rates, f)
    <3>1. PICK r \in rates, ms \in Times :
            \/ x \in {CpuFlops(r, ms), CpuInt(r, ms), MemBandwidth(r, ms), LlmTokens(r, ms)}
            \/ f /\ x = DiskRw(r, ms)
            \/ ~f /\ x = NoDisk(r * ms)
      BY <2>3, SuiteKinds DEF SuiteResults
    <3>2. CASE x = CpuFlops(r, ms)
      <4>1. x.kind = "cpu_flops" /\ x.metric = r * 2 /\ Recheck(x)
        BY <1>0, <3>2, CpuFlopsIs
      <4> QED BY <1>0, <1>1, <4>1 DEF BenchKinds
    <3>3. CASE x = CpuInt(r, ms)
      <4>1. x.kind = "cpu_int" /\ x.metric = r * Thousand /\ Recheck(x)
        BY <1>0, <3>3, CpuIntIs
      <4> QED BY <1>0, <1>1, <4>1 DEF BenchKinds
    <3>4. CASE x = MemBandwidth(r, ms)
      <4>1. x.kind = "mem_bw" /\ x.metric = r * 24 /\ Recheck(x)
        BY <1>0, <3>4, MemBandwidthIs
      <4> QED BY <1>0, <1>1, <4>1 DEF BenchKinds
    <3>5. CASE x = LlmTokens(r, ms)
      <4>1. x.kind = "llm_tokens" /\ x.metric = r * Thousand * Mega /\ Recheck(x)
        BY <1>0, <3>5, LlmTokensIs
      <4> QED BY <1>0, <1>1, <4>1 DEF BenchKinds
    <3>6. CASE f /\ x = DiskRw(r, ms)
      <4>1. x.kind = "disk_rw" /\ x.metric = r * Thousand /\ Recheck(x)
        BY <1>0, <3>6, DiskRwIs
      <4> QED BY <1>0, <1>1, <4>1 DEF BenchKinds
    <3>7. CASE ~f /\ x = NoDisk(r * ms)
      <4>1. x.kind = "disk_rw" /\ x.metric = 0 /\ Recheck(x)
        BY <3>7, NoDiskIs
      <4> QED BY <3>7, <4>1 DEF BenchKinds
    <3> QED BY <3>1, <3>2, <3>3, <3>4, <3>5, <3>6, <3>7
  <2> QED BY <2>1, <2>2, <2>3
<1> QED BY <1>2, <1>3

\* All rates are numbers, and both machines are there.
LEMMA RatesAreNat ==
  /\ \A n \in Machine : Measured[n] \subseteq Nat \ {0} /\ Measured[n] \subseteq Int
  /\ Here \in Machine /\ Subject \in Machine
BY VerifyAssumption, Machines DEF Subject

\* All results are of one form.
IsResult(x) == \E kind, metric, ms, shipped : x = Result(kind, metric, ms, shipped)
LEMMA ReportForm ==
  ASSUME NEW rates, NEW h \in BOOLEAN, NEW f \in BOOLEAN, NEW x \in Reports(rates, h, f)
  PROVE  IsResult(x)
<1>1. CASE h
  <2>1. PICK k \in Kernel, r \in rates, ms \in Times : x = LoopToResult(k, r, ms)
    BY <1>1 DEF Reports, KernelReports
  <2> QED BY <2>1, Zenon DEF LoopToResult, IsResult
<1>2. CASE ~h
  <2>0. x \in OwnReports(rates, f)
    BY <1>2, Zenon DEF Reports
  <2>1. x \in NetReports(rates) \/ \E p \in ToSet(LocalSuite) : x \in SuiteResults(p, rates, f)
    BY <2>0, OwnReportsAre, Zenon
  <2>2. CASE x \in NetReports(rates)
    <3>1. PICK r \in rates, ms \in Times : x = NetThroughput(r, ms)
      BY <2>2 DEF NetReports
    <3> QED BY <3>1, Zenon DEF NetThroughput, NetResult, IsResult
  <2>3. CASE \E p \in ToSet(LocalSuite) : x \in SuiteResults(p, rates, f)
    <3>1. PICK r \in rates, ms \in Times :
            x \in {CpuFlops(r, ms), CpuInt(r, ms), MemBandwidth(r, ms), LlmTokens(r, ms),
                   DiskRw(r, ms), NoDisk(r * ms)}
      BY <2>3, SuiteKinds DEF SuiteResults
    <3> QED BY <3>1 DEF CpuFlops, CpuInt, MemBandwidth, LlmTokens, DiskRw, NoDisk, IsResult
  <2> QED BY <2>1, <2>2, <2>3
<1> QED BY <1>1, <1>2

\* Every claim has a metric, however its fields were rewritten.
LEMMA ClaimsAre == \A c \in Claims : c.metric \in Int
<1>1. \A rates : rates \subseteq Int => \A c \in AllReports(rates) : c.metric \in Int /\ IsResult(c)
  <2> SUFFICES ASSUME NEW rates, rates \subseteq Int, NEW c \in AllReports(rates)
               PROVE  c.metric \in Int /\ IsResult(c)
    OBVIOUS
  <2>1. PICK h \in BOOLEAN, f \in BOOLEAN : c \in Reports(rates, h, f)
    BY DEF AllReports
  <2> QED BY <2>1, ReportIs, ReportForm
<1>2. \A c \in Honest : c.metric \in Int /\ IsResult(c)
  <2>1. \A c \in BrokenReports : c.metric \in Int /\ IsResult(c)
    BY DEF BrokenReports, NetResult, Result, IsResult
  <2> QED BY <1>1, <2>1, RatesAreNat DEF Honest
<1>3. \A c, y : IsResult(c) => /\ [c EXCEPT !.metric = y].metric = y
                               /\ [c EXCEPT !.kind = Undefined].metric = c.metric
  BY DEF IsResult, Result
<1>4. \A d \in Rescaled : d.metric \in Int
  <2> SUFFICES ASSUME NEW d \in Rescaled PROVE d.metric \in Int
    OBVIOUS
  <2>1. PICK c \in Honest, y \in Levels : d = [c EXCEPT !.metric = y]
    BY DEF Rescaled
  <2>2. d.metric = y
    BY <1>2, <1>3, <2>1, Zenon
  <2> QED BY <2>2, VerifyAssumption
<1>5. \A d \in UnknownKind : d.metric \in Int
  <2> SUFFICES ASSUME NEW d \in UnknownKind PROVE d.metric \in Int
    OBVIOUS
  <2>1. PICK c \in Honest : d = [c EXCEPT !.kind = Undefined]
    BY Zenon DEF UnknownKind
  <2>2. d.metric = c.metric
    BY <1>2, <1>3, <2>1, Zenon
  <2> QED BY <1>2, <2>2
<1> QED BY <1>1, <1>2, <1>4, <1>5, VerifyAssumption DEF Claims

-----------------------------------------------------------------------------
\* Inductive: what the re-run took so far was found on the machine it names, and
\* the verdict is the one of the evidence and of the fresh run.
Rerun == [kind : BenchKinds, metric : Int, machine : Machine]
Taken == {e \in Rerun : \E r \in Reports(Measured[e.machine], hub, fs) : r.kind = e.kind /\ r.metric = e.metric}
VerifyTypes ==
  /\ pc \in {"check", "suite", "kernels", "compare", "done"}
  /\ claim \in Claims /\ hub \in BOOLEAN /\ fs \in BOOLEAN /\ rerun \in Seq(Taken)
AtStart == pc = "check" => rerun = <<>> /\ fresh = NoResult
Left ==
  /\ pc = "suite" => ~hub /\ left \in Seq(ToSet(LocalSuite))
  /\ pc = "kernels" => hub /\ left \in Seq(Kernel)
FreshTaken == fresh = NoResult \/ (fresh \in Taken /\ fresh.kind = claim.kind)
Judged ==
  /\ pc \in {"suite", "kernels", "compare"} => claim.kind \in BenchKinds /\ recompute = Recheck(claim)
  /\ pc = "done" =>
       IF claim.kind \in BenchKinds
       THEN verdict = Verdict(Recheck(claim), fresh, Delta(claim, fresh))
       ELSE verdict = "invalid kind"
VerifyInv == VerifyTypes /\ AtStart /\ Left /\ FreshTaken /\ Judged

\* A report of one of the machines is one that a re-run can take.
LEMMA FoundTaken ==
  ASSUME VerifyTypes, NEW n \in Machine, NEW r \in Reports(Measured[n], hub, fs)
  PROVE  Found(r, n) \in Taken
<1>1. r.kind \in BenchKinds /\ r.metric \in Int
  BY ReportIs, RatesAreNat DEF VerifyTypes
<1> QED BY <1>1 DEF Found, Taken, Rerun

\* results.find of reprobe gives a result of the kind, or none.
LEMMA FreshIsTaken ==
  ASSUME NEW rs \in Seq(Taken), NEW kind
  PROVE  Fresh(rs, kind) = NoResult \/ (Fresh(rs, kind) \in Taken /\ Fresh(rs, kind).kind = kind)
<1>1. CASE OfKind(rs, kind) = {}
  BY <1>1 DEF Fresh
<1>2. CASE OfKind(rs, kind) # {}
  <2>1. OfKind(rs, kind) \subseteq Nat
    BY DEF OfKind
  <2>2. Min(OfKind(rs, kind)) \in OfKind(rs, kind)
    BY <1>2, <2>1, LeastExists
  <2> QED BY <1>2, <2>2 DEF Fresh, OfKind
<1> QED BY <1>1, <1>2

\* Each step of the verification keeps VerifyInv.
LEMMA VerifyStep == ASSUME VerifyInv, VerifyNext PROVE VerifyInv'
<1>0. VerifyTypes /\ AtStart /\ Left /\ FreshTaken /\ Judged
  BY DEF VerifyInv
<1>1. CASE RefuseKind
  <2>1. VerifyTypes' /\ AtStart' /\ Left' /\ FreshTaken'
    BY <1>0, <1>1 DEF RefuseKind, inputs, VerifyTypes, AtStart, Left, FreshTaken, Taken
  <2>2. Judged'
    BY <1>1 DEF RefuseKind, inputs, Judged
  <2> QED BY <2>1, <2>2 DEF VerifyInv
<1>2. CASE CheckEvidence
  <2>1. /\ pc' \in {"suite", "kernels"} /\ UNCHANGED <<inputs, rerun, fresh>>
        /\ claim.kind \in BenchKinds /\ recompute' = Recheck(claim)
    BY <1>2 DEF CheckEvidence
  <2>2. VerifyTypes' /\ AtStart' /\ FreshTaken'
    BY <1>0, <2>1 DEF inputs, VerifyTypes, AtStart, FreshTaken, Taken
  <2>3. Judged'
    BY <2>1 DEF inputs, Judged
  <2>4. Left'
    <3>1. IsFiniteSet(Kernel)
      <4>1. Kernel = {"cpu_flops"} \cup ({"cpu_int"} \cup ({"mem_bw"} \cup ({"llm_tokens"} \cup {"net_echo"})))
        BY Kernels5
      <4>2. \A x : IsFiniteSet({x})
        BY FS_Singleton
      <4> QED BY <4>1, <4>2, FS_Union
    <3>2. SelectKernels({claim.kind}, described) \subseteq Kernel
      BY DEF SelectKernels
    <3>3. SetToSeq(SelectKernels({claim.kind}, described)) \in Seq(Kernel)
      <4> DEFINE K == SelectKernels({claim.kind}, described)
      <4>1. IsFiniteSet(K)
        BY <3>1, <3>2, FS_Subset
      <4> HIDE DEF K
      <4>2. SetToSeq(K) \in Seq(K)
        BY <4>1, SeqOfSet
      <4>3. K \subseteq Kernel
        BY <3>2 DEF K
      <4>4. SetToSeq(K) \in Seq(Kernel)
        BY <4>2, <4>3
      <4> QED BY <4>4 DEF K
    <3>4. LocalSuite \in Seq(ToSet(LocalSuite))
      BY SuiteKinds DEF LocalSuite
    <3> QED BY <1>0, <1>2, <3>3, <3>4 DEF CheckEvidence, Left, inputs
  <2> QED BY <2>2, <2>3, <2>4 DEF VerifyInv
<1>3. CASE RunProbe
  <2>1. PICK r \in SuiteResults(Head(left), Measured[Here], fs) : rerun' = Append(rerun, Found(r, Here))
    BY <1>3 DEF RunProbe
  <2>2. Found(r, Here) \in Taken
    <3>1. Head(left) \in ToSet(LocalSuite) /\ ~hub
      BY <1>0, <1>3 DEF RunProbe, Left
    <3>2. r \in Reports(Measured[Here], hub, fs)
      <4>1. r \in OwnReports(Measured[Here], fs)
        BY <2>1, <3>1, OwnReportsAre, Zenon
      <4> QED BY <3>1, <4>1, Zenon DEF Reports
    <3> QED BY <1>0, <3>2, FoundTaken, RatesAreNat
  <2>3. UNCHANGED <<pc, inputs, recompute, fresh, verdict>> /\ left' = Tail(left) /\ pc = "suite" /\ left # <<>>
    BY <1>3 DEF RunProbe
  <2>4. VerifyTypes' /\ AtStart' /\ Left' /\ FreshTaken'
    BY <1>0, <2>1, <2>2, <2>3 DEF inputs, VerifyTypes, AtStart, Left, FreshTaken, Taken
  <2>5. Judged'
    BY <1>0, <2>3 DEF inputs, Judged
  <2> QED BY <2>4, <2>5 DEF VerifyInv
<1>4. CASE ProbeThrows
  <2>1. VerifyTypes' /\ AtStart' /\ Left' /\ FreshTaken'
    BY <1>0, <1>4 DEF ProbeThrows, inputs, VerifyTypes, AtStart, Left, FreshTaken, Taken
  <2>2. Judged'
    BY <1>0, <1>4 DEF ProbeThrows, inputs, Judged
  <2> QED BY <2>1, <2>2 DEF VerifyInv
<1>5. CASE RunKernel
  <2>0. PICK n \in Machine : \E got \in Measured[n], ms \in Times :
          rerun' = Append(rerun, Found(LoopToResult(Head(left), got, ms), n))
    BY <1>5, RatesAreNat DEF RunKernel
  <2>1. PICK got \in Measured[n], ms \in Times :
          rerun' = Append(rerun, Found(LoopToResult(Head(left), got, ms), n))
    BY <2>0
  <2> DEFINE r == LoopToResult(Head(left), got, ms)
  <2>2. Found(r, n) \in Taken
    <3>1. Head(left) \in Kernel /\ hub
      BY <1>0, <1>5 DEF RunKernel, Left
    <3>2. r \in Reports(Measured[n], hub, fs)
      BY <2>1, <3>1 DEF Reports, KernelReports
    <3> HIDE DEF r
    <3> QED BY <1>0, <3>2, FoundTaken
  <2> HIDE DEF r
  <2>3. UNCHANGED <<pc, inputs, recompute, fresh, verdict>> /\ left' = Tail(left) /\ pc = "kernels" /\ left # <<>>
    BY <1>5 DEF RunKernel
  <2>4. VerifyTypes' /\ AtStart' /\ FreshTaken'
    <3>1. rerun' = Append(rerun, Found(r, n))
      BY <2>1 DEF r
    <3> QED BY <1>0, <2>2, <2>3, <3>1 DEF inputs, VerifyTypes, AtStart, FreshTaken, Taken
  <2>6. Left'
    BY <1>0, <2>3 DEF inputs, Left
  <2>5. Judged'
    BY <1>0, <2>3 DEF inputs, Judged
  <2> QED BY <2>4, <2>5, <2>6 DEF VerifyInv
<1>6. CASE KernelFails
  <2>1. VerifyTypes' /\ AtStart' /\ FreshTaken'
    BY <1>0, <1>6 DEF KernelFails, inputs, VerifyTypes, AtStart, FreshTaken, Taken
  <2>3. Left'
    BY <1>0, <1>6 DEF KernelFails, inputs, Left
  <2>2. Judged'
    BY <1>0, <1>6 DEF KernelFails, inputs, Judged
  <2> QED BY <2>1, <2>2, <2>3 DEF VerifyInv
<1>7. CASE Reprobed
  <2>1. fresh' = Fresh(rerun, claim.kind) /\ pc' = "compare" /\ pc \in {"suite", "kernels"}
        /\ UNCHANGED <<inputs, recompute, rerun, verdict>>
    BY <1>7 DEF Reprobed
  <2>2. VerifyTypes' /\ AtStart' /\ Left'
    BY <1>0, <2>1 DEF inputs, VerifyTypes, AtStart, Left, Taken
  <2>3. FreshTaken'
    BY <1>0, <2>1, FreshIsTaken DEF inputs, VerifyTypes, FreshTaken, Taken
  <2>4. Judged'
    BY <1>0, <2>1 DEF inputs, Judged
  <2> QED BY <2>2, <2>3, <2>4 DEF VerifyInv
<1>8. CASE Compare
  <2>1. /\ pc = "compare" /\ pc' = "done" /\ UNCHANGED <<inputs, rerun, fresh>>
        /\ verdict' = Verdict(recompute, fresh, Delta(claim, fresh))
    BY <1>8 DEF Compare
  <2>2. VerifyTypes' /\ AtStart' /\ Left' /\ FreshTaken'
    BY <1>0, <2>1 DEF inputs, VerifyTypes, AtStart, Left, FreshTaken, Taken
  <2>3. Judged'
    BY <1>0, <2>1 DEF inputs, Judged
  <2> QED BY <2>2, <2>3 DEF VerifyInv
<1> QED BY <1>1, <1>2, <1>3, <1>4, <1>5, <1>6, <1>7, <1>8 DEF VerifyNext

-----------------------------------------------------------------------------
\* "verified" with a fresh run to compare with is within the tolerance.
LEMMA VerdictMeans ==
  ASSUME NEW c, NEW f, f # NoResult, Comparable(c, f), Verdict(Recheck(c), f, Delta(c, f)) = "verified"
  PROVE  CloseTo(c.metric, f.metric)
<1>1. Within(Delta(c, f))
  BY DEF Verdict
<1>2. Max({f.metric, c.metric}) = Max({c.metric, f.metric})
  <2>1. {f.metric, c.metric} = {c.metric, f.metric}
    OBVIOUS
  <2> QED BY <2>1
<1> QED BY <1>1, <1>2 DEF Delta, CloseTo

LEMMA VerifyStutter == ASSUME VerifyInv, UNCHANGED verifyVars PROVE VerifyInv'
<1>1. VerifyTypes /\ AtStart /\ Left /\ FreshTaken /\ Judged
  BY DEF VerifyInv
<1>2. VerifyTypes' /\ FreshTaken'
  BY <1>1 DEF VerifyTypes, FreshTaken, Taken, verifyVars, inputs
<1>3. AtStart' /\ Left' /\ Judged'
  BY <1>1 DEF AtStart, Left, Judged, verifyVars, inputs
<1> QED BY <1>2, <1>3 DEF VerifyInv

\* What the fresh run found on the subject is a metric that the subject can show.
LEMMA FreshIsShown ==
  ASSUME VerifyInv, fresh # NoResult, fresh.machine = Subject
  PROVE  /\ fresh.metric \in CanShow(claim.kind, hub, fs) /\ fresh.metric \in Int
         /\ fresh.metric > 0 \/ ShowsNothing(claim.kind)
         /\ fresh.metric >= 0
<1>1. fresh \in Taken /\ fresh.kind = claim.kind /\ hub \in BOOLEAN /\ fs \in BOOLEAN
  BY DEF VerifyInv, FreshTaken, VerifyTypes
<1>2. PICK r \in Reports(Measured[Subject], hub, fs) : r.kind = claim.kind /\ r.metric = fresh.metric
  BY <1>1 DEF Taken
<1>3. /\ r.metric \in Int /\ r.metric >= 0
      /\ ~(IF hub THEN r.kind \notin Counted ELSE r.kind = "disk_rw" /\ ~fs) => r.metric > 0
  BY <1>1, RatesAreNat, ReportIs
<1> QED BY <1>2, <1>3 DEF CanShow, ShowsNothing

\* A claim that is verified against a fresh run on the subject is near to what
\* the subject can show, for every set of rates, claims and times and every
\* tolerance, unless runner.js had nothing to compare: its metric is negative,
\* or it is of a kind of which the fresh run is always 0 (verifyProbe).
THEOREM FabricatedCaughtHolds == VerifySpec => []FabricatedCaught
<1>1. VerifyInit(Claims, BOOLEAN) => VerifyInv
  BY DEF VerifyInit, VerifyInv, VerifyTypes, AtStart, Left, FreshTaken, Judged
<1>2. VerifyInv /\ UNCHANGED verifyVars => VerifyInv'
  BY VerifyStutter
<1>3. VerifyInv => FabricatedCaught
  <2> SUFFICES ASSUME VerifyInv, pc = "done", verdict = "verified", fresh # NoResult,
                      fresh.machine = Subject, ~(claim.metric < 0), ~ShowsNothing(claim.kind)
               PROVE  \E m \in CanShow(claim.kind, hub, fs) : CloseTo(claim.metric, m)
    BY DEF FabricatedCaught
  <2>1. fresh.metric \in CanShow(claim.kind, hub, fs) /\ fresh.metric > 0
    BY FreshIsShown
  <2>2. claim.metric \in Int
    BY ClaimsAre DEF VerifyInv, VerifyTypes
  <2>3. Comparable(claim, fresh)
    BY <2>1, <2>2 DEF Comparable
  <2>4. Verdict(Recheck(claim), fresh, Delta(claim, fresh)) = "verified"
    BY DEF VerifyInv, Judged
  <2> QED BY <2>1, <2>3, <2>4, VerdictMeans
<1> QED BY <1>1, <1>2, <1>3, VerifyStep, PTL DEF VerifySpec

\* Two runs of a kind on the subject, by the same means, differ by no more than
\* opts.tolerance.  Nothing in the code sees to it, and without it an honest
\* claim is refused by design.
SubjectSteady ==
  \A h, f \in BOOLEAN, kind \in BenchKinds : \A a, b \in CanShow(kind, h, f) : CloseTo(a, b)

\* An honest result of a steady machine is verified, by either way of measuring,
\* whatever probe throws or kernel fails meanwhile: each of the six formulas of
\* recheck gives back the metric of its probe, and of its kernel, from the
\* fields that the one ships, for every rate, time and unit; and a fresh run is
\* compared with its own kind.
THEOREM HonestVerifiedHolds == ASSUME SubjectSteady PROVE VerifySpec => []HonestVerified
<1>1. VerifyInit(Claims, BOOLEAN) => VerifyInv
  BY DEF VerifyInit, VerifyInv, VerifyTypes, AtStart, Left, FreshTaken, Judged
<1>2. VerifyInv /\ UNCHANGED verifyVars => VerifyInv'
  BY VerifyStutter
<1>3. VerifyInv => HonestVerified
  <2> SUFFICES ASSUME VerifyInv, pc = "done", claim \in Reports(Measured[Subject], hub, fs),
                      fresh = NoResult \/ fresh.machine = Subject
               PROVE  verdict = "verified"
    BY DEF HonestVerified
  <2>1. claim.kind \in BenchKinds /\ Recheck(claim) /\ hub \in BOOLEAN /\ fs \in BOOLEAN
    BY ReportIs, RatesAreNat DEF VerifyInv, VerifyTypes
  <2>2. verdict = Verdict(Recheck(claim), fresh, Delta(claim, fresh))
    BY <2>1 DEF VerifyInv, Judged
  <2>3. CASE fresh = NoResult
    BY <2>1, <2>2, <2>3 DEF Verdict
  <2>4. CASE fresh # NoResult
    <3>1. fresh.metric \in CanShow(claim.kind, hub, fs) /\ claim.metric \in CanShow(claim.kind, hub, fs)
      BY <2>4, FreshIsShown DEF CanShow
    <3>2. Within(<<Distance(claim.metric, fresh.metric), Max({fresh.metric, claim.metric})>>)
      <4>1. CloseTo(claim.metric, fresh.metric)
        BY <2>1, <3>1 DEF SubjectSteady
      <4>2. {fresh.metric, claim.metric} = {claim.metric, fresh.metric}
        OBVIOUS
      <4> QED BY <4>1, <4>2 DEF CloseTo
    <3>3. Within(<<0, 1>>)
      BY VerifyAssumption DEF Within
    <3>4. Within(Delta(claim, fresh))
      BY <3>2, <3>3 DEF Delta
    <3> QED BY <2>1, <2>2, <3>4 DEF Verdict
  <2> QED BY <2>3, <2>4
<1> QED BY <1>1, <1>2, <1>3, VerifyStep, PTL DEF VerifySpec
(***************************************************************************)
(* ProfileAssembly: what a profile ships.  Least and largest places, and   *)
(* counts, come from the least natural number that is missing from a set   *)
(* (LeastExists, NatSet).                                                  *)
(***************************************************************************)
\* One of finitely many places holds the largest value.
LEMMA LargestExists ==
  ASSUME NEW n \in Nat, NEW f \in [1 .. n -> Int], NEW I \in SUBSET (1 .. n), I # {}
  PROVE  \E i \in I : \A j \in I : f[j] <= f[i]
<1> DEFINE P(m) == \A J \in SUBSET (1 .. n) : J # {} /\ J \subseteq 1 .. m =>
                      \E i \in J : \A j \in J : f[j] <= f[i]
           S == {m \in Nat : P(m)}
<1>1. 0 \in S
  <2>1. 1 .. 0 = {}
    OBVIOUS
  <2> QED BY <2>1
<1>2. ASSUME NEW m \in Nat, P(m) PROVE P(m + 1)
  <2> SUFFICES ASSUME NEW J \in SUBSET (1 .. n), J # {}, J \subseteq 1 .. m + 1
               PROVE  \E i \in J : \A j \in J : f[j] <= f[i]
    OBVIOUS
  <2> DEFINE K == J \ {m + 1}
  <2>1. K \in SUBSET (1 .. n) /\ K \subseteq 1 .. m
    OBVIOUS
  <2>2. \A j \in J : f[j] \in Int
    OBVIOUS
  <2>3. CASE K = {}
    <3>1. J = {m + 1}
      BY <2>3
    <3>2. f[m + 1] \in Int
      BY <2>2, <3>1
    <3> QED BY <3>1, <3>2
  <2>4. CASE K # {}
    <3>1. PICK i \in K : \A j \in K : f[j] <= f[i]
      BY <1>2, <2>1, <2>4
    <3>2. CASE m + 1 \in J
      <4>1. CASE f[m + 1] <= f[i]
        BY <3>1, <3>2, <4>1
      <4>2. CASE ~(f[m + 1] <= f[i])
        <5>1. \A j \in J : f[j] <= f[m + 1]
          BY <2>2, <3>1, <3>2, <4>2
        <5> QED BY <3>2, <5>1
      <4> QED BY <4>1, <4>2
    <3>3. CASE m + 1 \notin J
      BY <3>1, <3>3
    <3> QED BY <3>2, <3>3
  <2> QED BY <2>3, <2>4
<1>3. \A m \in Nat : m \in S => m + 1 \in S
  <2> SUFFICES ASSUME NEW m \in Nat, m \in S PROVE m + 1 \in S
    OBVIOUS
  <2>1. P(m)
    OBVIOUS
  <2>2. P(m + 1)
    BY <1>2, <2>1
  <2> HIDE DEF P
  <2> QED BY <2>2
<1>4. n \in S
  <2> HIDE DEF S
  <2> QED BY <1>1, <1>3, NatSet
<1> QED BY <1>4

\* pick returns a result of the kind with a finite metric if there is one,
LEMMA PickIsBest ==
  ASSUME NEW rs \in Seq(Results), NEW kind, Pickable(rs, kind) # {}
  PROVE  Pick(rs, kind) \in Pickable(rs, kind)
<1> DEFINE those == Pickable(rs, kind)
           best == {i \in those : \A j \in those : ~Greater(rs[j].metric, rs[i].metric)}
           f == [i \in 1 .. Len(rs) |-> rs[i].metric]
<1>1. those \subseteq 1 .. Len(rs) /\ Len(rs) \in Nat /\ f \in [1 .. Len(rs) -> Int]
  BY AssemblyAssumption DEF Pickable, PlacesOf
<1>2. PICK i \in those : \A j \in those : f[j] <= f[i]
  <2> HIDE DEF those, f
  <2> QED BY <1>1, LargestExists DEF those
<1>3. \A j \in those : f[j] = rs[j].metric /\ f[j] \in Int /\ f[j] >= Negative
  <2>1. \A j \in those : Finite(rs[j].metric)
    BY DEF Pickable
  <2> HIDE DEF those
  <2> QED BY <1>1, <2>1 DEF Finite
<1>4. \A j \in those : ~Greater(rs[j].metric, rs[i].metric)
  <2> SUFFICES ASSUME NEW j \in those, Greater(rs[j].metric, rs[i].metric) PROVE FALSE
    OBVIOUS
  <2> HIDE DEF those, f
  <2> QED BY <1>2, <1>3 DEF Greater, Negative, NotFinite, Infinite
<1>5. best # {} /\ best \subseteq Nat
  <2>1. i \in best /\ best \subseteq those
    BY <1>2, <1>4
  <2> HIDE DEF best, those
  <2> QED BY <1>1, <2>1
<1>6. Min(best) \in best
  <2> HIDE DEF best
  <2> QED BY <1>5, LeastExists
<1>7. Pick(rs, kind) = Min(best)
  BY DEF Pick
<1> QED BY <1>6, <1>7

\* and nothing otherwise.
LEMMA PickOfNone == \A rs, kind : Pickable(rs, kind) = {} => Pick(rs, kind) = 0
  BY DEF Pick

\* selectSamples keeps what pick returns, although it starts from the first
\* result of the kind, once that one has a finite metric.
LEMMA SampleIsPick ==
  ASSUME NEW rs \in Seq(Results), NEW kind, Pickable(rs, kind) # {},
         Finite(rs[FirstSeen(rs, kind)].metric)
  PROVE  Sample(rs, kind) = Pick(rs, kind)
<1>1. PlacesOf(rs, kind) # {} /\ PlacesOf(rs, kind) \subseteq Nat
  BY DEF Pickable, PlacesOf
<1>2. FirstSeen(rs, kind) \in PlacesOf(rs, kind)
  BY <1>1, LeastExists DEF FirstSeen
<1>3. Replacing(rs, kind) = Pickable(rs, kind)
  BY DEF Replacing, Pickable
<1>4. Replacing(rs, kind) \cup {FirstSeen(rs, kind)} = Pickable(rs, kind)
  BY <1>2, <1>3 DEF Pickable
<1> QED BY <1>3, <1>4, Zenon DEF Sample, Pick

\* It is shipped: no kind is cut off, since there are no more of them than
\* samples.
LEMMA PickIsSampled ==
  ASSUME NEW rs \in Seq(Results), NEW kind, kind # Kindless, Pickable(rs, kind) # {},
         Finite(rs[FirstSeen(rs, kind)].metric)
  PROVE  Pick(rs, kind) \in SelectSamples(rs)
<1> DEFINE kinds == {rs[i].kind : i \in DOMAIN rs} \ {Kindless}
           before(k) == {l \in kinds : FirstSeen(rs, l) < FirstSeen(rs, k)}
           all == {r.kind : r \in Results} \ {Kindless}
<1>1. kinds \subseteq all
  OBVIOUS
<1>2. IsFiniteSet(all) /\ Cardinality(all) <= MaxSamples
  BY KindsFit
<1>3. kind \in kinds
  BY DEF Pickable, PlacesOf
<1>4. FirstSeen(rs, kind) \in Nat
  <2>1. PlacesOf(rs, kind) \subseteq Nat /\ PlacesOf(rs, kind) # {}
    BY DEF Pickable, PlacesOf
  <2> QED BY <2>1, LeastExists DEF FirstSeen
<1>5. before(kind) \subseteq kinds /\ kind \notin before(kind)
  BY <1>4
<1>6. before(kind) \subseteq all \ {kind} /\ kind \in all
  BY <1>1, <1>3, <1>5
<1>7. Cardinality(before(kind)) < MaxSamples
  <2> HIDE DEF before, all, kinds
  <2>1. IsFiniteSet(all \ {kind}) /\ Cardinality(all \ {kind}) = Cardinality(all) - 1
    BY <1>2, <1>6, FS_RemoveElement
  <2>2. Cardinality(before(kind)) <= Cardinality(all \ {kind})
    BY <1>6, <2>1, FS_Subset
  <2> QED BY <1>2, <1>6, <2>1, <2>2, FS_CardinalityType, AssemblyAssumption, FS_Subset
<1>8. SelectSamples(rs) = {Sample(rs, k) : k \in {l \in kinds : Cardinality(before(l)) < MaxSamples}}
  BY DEF SelectSamples
<1> QED BY <1>3, <1>7, <1>8, SampleIsPick

\* The assembly's invariant: a profile is what assembleProfile makes of the
\* results and the environment it had, and a throw has a reason.
Assembly ==
  /\ results \in Seq(Results) /\ outcome \in {"running", "assembled", "thrown"}
  /\ env \in Environments
  /\ outcome # "running" => profile = Assembled(results, env, measured)
  /\ outcome = "thrown" => Problems(profile) # {}

\* Every step keeps it.
LEMMA AssemblyStep == ASSUME Assembly, [AssemblyNext]_assemblyVars PROVE Assembly'
<1>1. CASE Report
  BY <1>1 DEF Assembly, Report
<1>2. CASE Assemble
  BY <1>2 DEF Assembly, Assemble
<1>3. CASE UNCHANGED assemblyVars
  BY <1>3 DEF Assembly, assemblyVars
<1> QED BY <1>1, <1>2, <1>3 DEF AssemblyNext

\* A headline that is not 0 is the metric of the result picked.
LEMMA HeadlineIs ==
  ASSUME NEW rs \in Seq(Results), NEW kind, Headline(rs, kind) # 0
  PROVE  /\ Pickable(rs, kind) # {}
         /\ rs[Pick(rs, kind)].metric = Headline(rs, kind)
<1>1. Pickable(rs, kind) # {}
  BY PickOfNone DEF Headline
<1> QED BY <1>1 DEF Headline, NN

\* A storage figure that is not 0 is of the disk result picked.
LEMMA StorageIs ==
  ASSUME NEW rs \in Seq(Results), NEW field, Storage(rs, field) # 0
  PROVE  /\ Pickable(rs, "disk_rw") # {}
         /\ Storage(rs, field) \in {rs[Pick(rs, "disk_rw")][field], rs[Pick(rs, "disk_rw")].metric}
<1>1. Pickable(rs, "disk_rw") # {}
  BY PickOfNone DEF Storage
<1> QED BY <1>1 DEF Storage, NN

\* The headlines (pick) and the evidence (selectSamples) are chosen by separate
\* loops of profile.js, which skip a metric that is not finite in different
\* ways.  Whatever the probes reported, in any order and number, a reader of
\* the profile finds each measured headline in a sample it ships, unless the
\* first result of the kind had no finite metric, as makeBenchResult prevents.
THEOREM HeadlineAuditedHolds == AssemblySpec => []HeadlineAudited
<1>1. AssemblyInit(Environments, Networks) => Assembly
  BY DEF AssemblyInit, Assembly
<1>2. Assembly => HeadlineAudited
  <2> SUFFICES ASSUME Assembly, outcome = "assembled" PROVE HeadlineAudited
    BY DEF HeadlineAudited
  <2>1. results \in Seq(Results) /\ profile = Assembled(results, env, measured)
    BY DEF Assembly
  <2>2. /\ profile.gflops = Headline(results, "cpu_flops") /\ profile.memBw = Headline(results, "mem_bw")
        /\ profile.tokens = Headline(results, "llm_tokens")
        /\ profile.read = Storage(results, "read") /\ profile.write = Storage(results, "write")
        /\ profile.samples = SelectSamples(results)
    BY <2>1 DEF Assembled
  <2>3. ASSUME NEW kind, kind # Kindless, Pickable(results, kind) # {}, StartsFinite(kind)
        PROVE  Pick(results, kind) \in Sampled(kind)
    <3>1. Pick(results, kind) \in SelectSamples(results)
      BY <2>1, <2>3, PickIsSampled DEF StartsFinite
    <3>2. Pick(results, kind) \in Pickable(results, kind)
      BY <2>1, <2>3, PickIsBest
    <3> QED BY <2>2, <3>1, <3>2 DEF Sampled, Pickable, PlacesOf
  <2>4. ASSUME NEW f \in {<<profile.gflops, "cpu_flops">>, <<profile.memBw, "mem_bw">>,
                          <<profile.tokens, "llm_tokens">>}, f[1] # 0, StartsFinite(f[2])
        PROVE  \E i \in Sampled(f[2]) : results[i].metric = f[1]
    <3>1. f[1] = Headline(results, f[2]) /\ f[2] # Kindless
      BY <2>2 DEF Kindless
    <3> QED BY <2>1, <2>3, <2>4, <3>1, HeadlineIs
  <2>5. ASSUME NEW f \in {<<profile.read, "read">>, <<profile.write, "write">>}, f[1] # 0,
               StartsFinite("disk_rw")
        PROVE  \E i \in Sampled("disk_rw") : f[1] \in {results[i][f[2]], results[i].metric}
    <3>1. f[1] = Storage(results, f[2]) /\ "disk_rw" # Kindless
      BY <2>2 DEF Kindless
    <3> QED BY <2>1, <2>3, <2>5, <3>1, StorageIs
  <2> QED BY <2>4, <2>5 DEF HeadlineAudited
<1> QED BY <1>1, <1>2, AssemblyStep, PTL DEF AssemblySpec

\* One turn of the loop of mergeGpus.
MergeStep(gpus, r) == IF r.gpu = None THEN gpus ELSE MergeGpu(gpus, NormalizeGpu(r.gpu))
\* g merges the results of every set of places, from the first to the last.
Merges(g, b, rs) ==
  \A s \in SUBSET DOMAIN rs :
    g[s] = IF s = {} THEN b ELSE MergeStep(g[s \ {Max(s)}], rs[Max(s)])

\* Max is the last of some places.
LEMMA LastIn ==
  ASSUME NEW n \in Nat, NEW s \in SUBSET (1 .. n), s # {}
  PROVE  Max(s) \in s /\ \A j \in s : j <= Max(s)
<1> DEFINE f == [i \in 1 .. n |-> i]
<1>1. f \in [1 .. n -> Int]
  OBVIOUS
<1>2. \E i \in s : \A j \in s : f[j] <= f[i]
  <2> HIDE DEF f
  <2> QED BY <1>1, LargestExists
<1>3. \E i \in s : \A j \in s : i >= j
  BY <1>2
<1> QED BY <1>3 DEF Max

\* Results are finitely many; a set of places loses one with its last.
LEMMA PlacesFinite ==
  ASSUME NEW rs \in Seq(Results)
  PROVE  /\ DOMAIN rs = 1 .. Len(rs) /\ Len(rs) \in Nat /\ IsFiniteSet(DOMAIN rs)
         /\ \A s \in SUBSET DOMAIN rs : IsFiniteSet(s) /\ Cardinality(s) \in Nat
         /\ \A s \in SUBSET DOMAIN rs : s # {} =>
              /\ Max(s) \in s /\ rs[Max(s)] \in Results
              /\ s \ {Max(s)} \in SUBSET DOMAIN rs
              /\ Cardinality(s \ {Max(s)}) = Cardinality(s) - 1
<1>1. DOMAIN rs = 1 .. Len(rs) /\ Len(rs) \in Nat
  BY LenProperties
<1>2. IsFiniteSet(DOMAIN rs)
  BY <1>1, FS_Interval
<1>3. \A s \in SUBSET DOMAIN rs : IsFiniteSet(s) /\ Cardinality(s) \in Nat
  BY <1>2, FS_Subset, FS_CardinalityType
<1>4. ASSUME NEW s \in SUBSET DOMAIN rs, s # {}
      PROVE  /\ Max(s) \in s /\ rs[Max(s)] \in Results
             /\ s \ {Max(s)} \in SUBSET DOMAIN rs
             /\ Cardinality(s \ {Max(s)}) = Cardinality(s) - 1
  <2>1. Max(s) \in s
    BY <1>1, <1>4, LastIn
  <2>2. rs[Max(s)] \in Results
    BY <2>1, ElementOfSeq
  <2>3. IsFiniteSet(s)
    BY <1>3
  <2>4. Cardinality(s \ {Max(s)}) = Cardinality(s) - 1
    BY <2>1, <2>3, FS_RemoveElement
  <2> QED BY <2>1, <2>2, <2>4
<1> QED BY <1>1, <1>2, <1>3, <1>4

\* Where every turn stays, the loop has a course and ends.
LEMMA MergesExist ==
  ASSUME NEW rs \in Seq(Results), NEW V, NEW b \in V,
         \A gs \in V : \A r \in Results : MergeStep(gs, r) \in V
  PROVE  \E g \in [SUBSET DOMAIN rs -> V] : Merges(g, b, rs)
<1> DEFINE Small(n) == {s \in SUBSET DOMAIN rs : Cardinality(s) <= n}
           e(g, s) == IF s = {} THEN b ELSE MergeStep(g[s \ {Max(s)}], rs[Max(s)])
           P(n) == \E g \in [Small(n) -> V] : \A s \in Small(n) : g[s] = e(g, s)
           N == {n \in Nat : P(n)}
<1>0. \A s \in SUBSET DOMAIN rs : IsFiniteSet(s) /\ Cardinality(s) \in Nat
  BY PlacesFinite
<1>1. P(0)
  <2>1. Small(0) = {{}}
    BY <1>0, FS_EmptySet
  <2> DEFINE g == [s \in Small(0) |-> b]
  <2>2. g \in [Small(0) -> V] /\ \A s \in Small(0) : s = {} /\ g[s] = b
    BY <2>1
  <2> HIDE DEF g, Small
  <2> QED BY <2>2
<1>2. ASSUME NEW n \in Nat, P(n) PROVE P(n + 1)
  <2>1. PICK g \in [Small(n) -> V] : \A s \in Small(n) : g[s] = e(g, s)
    BY <1>2
  <2>2. ASSUME NEW s \in Small(n + 1), s # {}
        PROVE  rs[Max(s)] \in Results /\ s \ {Max(s)} \in Small(n)
    <3>1. Cardinality(s) <= n + 1 /\ Cardinality(s) \in Nat
      BY <1>0
    <3>2. /\ rs[Max(s)] \in Results /\ s \ {Max(s)} \in SUBSET DOMAIN rs
          /\ Cardinality(s \ {Max(s)}) = Cardinality(s) - 1
      BY <2>2, PlacesFinite
    <3> QED BY <3>1, <3>2
  <2> DEFINE h == [s \in Small(n + 1) |-> e(g, s)]
  <2>3. h \in [Small(n + 1) -> V]
    <3>1. \A s \in Small(n + 1) : e(g, s) \in V
      <4> HIDE DEF Small
      <4> QED BY <2>2
    <3> HIDE DEF e, Small
    <3> QED BY <3>1
  <2>4. Small(n) \subseteq Small(n + 1)
    BY <1>0
  <2>5. \A s \in Small(n) : h[s] = g[s]
    <3> HIDE DEF Small, e
    <3> QED BY <2>1, <2>4
  <2>6. \A s \in Small(n + 1) : h[s] = e(h, s)
    <3>1. \A s \in Small(n + 1) : h[s] = e(g, s)
      <4> HIDE DEF Small, e
      <4> QED OBVIOUS
    <3> HIDE DEF Small, h
    <3> QED BY <2>2, <2>5, <3>1
  <2> HIDE DEF h, Small, e
  <2> QED BY <2>3, <2>6
<1>3. \A n \in Nat : n \in N => n + 1 \in N
  <2> SUFFICES ASSUME NEW n \in Nat, n \in N PROVE n + 1 \in N
    OBVIOUS
  <2>1. P(n)
    OBVIOUS
  <2>2. P(n + 1)
    BY <1>2, <2>1
  <2> HIDE DEF P
  <2> QED BY <2>2
<1>4. 0 \in N
  <2> HIDE DEF P
  <2> QED BY <1>1
<1>5. \A n \in Nat : P(n)
  <2>1. Nat \subseteq N
    <3> HIDE DEF N
    <3> QED BY <1>3, <1>4, NatSet
  <2> HIDE DEF P
  <2> QED BY <2>1
<1>6. PICK n \in Nat : n = Cardinality(DOMAIN rs)
  BY PlacesFinite
<1>7. Small(n) = SUBSET DOMAIN rs
  BY <1>0, <1>6, PlacesFinite, FS_Subset
<1>8. P(n)
  <2> HIDE DEF P
  <2> QED BY <1>5
<1> HIDE DEF Small
<1> QED BY <1>7, <1>8 DEF Merges

\* Every such course ends in V, and so does the one that the fold takes.
LEMMA MergesStay ==
  ASSUME NEW rs \in Seq(Results), NEW V, NEW b \in V,
         \A gs \in V : \A r \in Results : MergeStep(gs, r) \in V,
         NEW g, Merges(g, b, rs)
  PROVE  g[DOMAIN rs] \in V
<1> DEFINE P(n) == \A s \in SUBSET DOMAIN rs : Cardinality(s) = n => g[s] \in V
           N == {n \in Nat : P(n)}
<1>1. P(0)
  <2>1. \A s \in SUBSET DOMAIN rs : Cardinality(s) = 0 => s = {}
    BY PlacesFinite, FS_EmptySet
  <2> QED BY <2>1 DEF Merges
<1>2. ASSUME NEW n \in Nat, P(n) PROVE P(n + 1)
  <2> SUFFICES ASSUME NEW s \in SUBSET DOMAIN rs, Cardinality(s) = n + 1 PROVE g[s] \in V
    OBVIOUS
  <2>1. s # {}
    <3>1. Cardinality({}) = 0
      BY FS_EmptySet
    <3>2. n + 1 # 0
      OBVIOUS
    <3> QED BY <3>1, <3>2, Zenon
  <2>2. /\ rs[Max(s)] \in Results /\ s \ {Max(s)} \in SUBSET DOMAIN rs
        /\ Cardinality(s \ {Max(s)}) = Cardinality(s) - 1
    BY <2>1, PlacesFinite
  <2>3. Cardinality(s \ {Max(s)}) = n
    BY <2>2
  <2>4. g[s \ {Max(s)}] \in V
    BY <1>2, <2>2, <2>3
  <2>5. g[s] = MergeStep(g[s \ {Max(s)}], rs[Max(s)])
    BY <2>1 DEF Merges
  <2> QED BY <2>2, <2>4, <2>5
<1>3. \A n \in Nat : n \in N => n + 1 \in N
  <2> SUFFICES ASSUME NEW n \in Nat, n \in N PROVE n + 1 \in N
    OBVIOUS
  <2>1. P(n)
    OBVIOUS
  <2>2. P(n + 1)
    BY <1>2, <2>1
  <2> HIDE DEF P
  <2> QED BY <2>2
<1>4. 0 \in N
  <2> HIDE DEF P
  <2> QED BY <1>1
<1>5. \A n \in Nat : P(n)
  <2>1. Nat \subseteq N
    <3> HIDE DEF N
    <3> QED BY <1>3, <1>4, NatSet
  <2> HIDE DEF P
  <2> QED BY <2>1
<1>6. PICK n \in Nat : n = Cardinality(DOMAIN rs)
  BY PlacesFinite
<1> QED BY <1>5, <1>6

\* What holds of the GPUs of the environment and is kept by every turn of the
\* loop holds of the merged GPUs.
LEMMA MergeIn ==
  ASSUME NEW rs \in Seq(Results), NEW V, NEW b \in V,
         \A gs \in V : \A r \in Results : MergeStep(gs, r) \in V
  PROVE  MergeGpus(b, rs) \in V
<1> DEFINE S == DOMAIN rs
           e(g, s) == IF s = {} THEN b ELSE MergeStep(g[s \ {Max(s)}], rs[Max(s)])
           Eq(g) == g = [s \in SUBSET S |-> e(g, s)]
<1>1. PICK g0 \in [SUBSET S -> V] : Merges(g0, b, rs)
  BY MergesExist
<1>2. Eq(g0)
  <2>1. \A s \in SUBSET S : g0[s] = e(g0, s)
    BY <1>1 DEF Merges
  <2>2. g0 = [s \in SUBSET S |-> g0[s]]
    BY <1>1
  <2> HIDE DEF e, S
  <2> QED BY <2>1, <2>2
<1> DEFINE g == CHOOSE h : Eq(h)
<1>3. Eq(g)
  <2> HIDE DEF Eq
  <2> QED BY <1>2, Zenon
<1>4. MergeGpus(b, rs) = g[S]
  BY Zenon DEF MergeGpus, FoldLeft, MapThenFoldSet, MergeStep
<1> HIDE DEF g
<1>5. Merges(g, b, rs)
  <2>1. \A s \in SUBSET S : g[s] = e(g, s)
    <3> HIDE DEF e, S
    <3> QED BY <1>3, Zenon
  <2> QED BY <2>1 DEF Merges
<1> HIDE DEF Eq
<1>6. g[DOMAIN rs] \in V
  BY <1>5, MergesStay
<1> QED BY <1>4, <1>6

\* GPUs over sets of models and of numbers, the places of a model, and a bound
\* on how many places it has.
Gpus(M, X) == [model : M, vram : X, tflops : X, backend : Backends]
Places(gpus, m) == {i \in DOMAIN gpus : gpus[i].model = m}
Once(gpus, bound) ==
  \A m \in DOMAIN bound : m # Unnamed => Cardinality(Places(gpus, m)) <= bound[m]

\* Evidence matches a GPU of the list, or its model is not in it.
LEMMA MatchIn ==
  ASSUME NEW S, NEW gpus \in Seq(S), NEW g
  PROVE  LET match == FirstOfModel(gpus, g)
         IN  /\ match # 0 => match \in DOMAIN gpus
             /\ match = 0 => \A i \in DOMAIN gpus : gpus[i].model # Unnamed => gpus[i].model # g.model
<1> DEFINE same == {i \in DOMAIN gpus : gpus[i].model # Unnamed /\ gpus[i].model = g.model}
           match == FirstOfModel(gpus, g)
<1>1. match = IF same = {} THEN 0 ELSE Min(same)
  BY DEF FirstOfModel
<1>2. DOMAIN gpus \subseteq Nat \ {0}
  BY LenProperties
<1>3. same \subseteq Nat /\ same \subseteq DOMAIN gpus
  BY <1>2
<1>4. CASE same = {}
  BY <1>1, <1>4
<1>5. CASE same # {}
  <2> HIDE DEF same
  <2>1. Min(same) \in same
    BY <1>3, <1>5, LeastExists
  <2>2. match \in DOMAIN gpus
    BY <1>1, <1>3, <1>5, <2>1
  <2> QED BY <1>2, <2>2
<1> QED BY <1>4, <1>5

\* Merging evidence keeps every count under a bound of at least one: a match
\* keeps the models, and a model that is appended was not there.
LEMMA MergeGpuKeeps ==
  ASSUME NEW M, NEW X, NEW gpus \in Seq(Gpus(M, X)), NEW g \in Gpus(M, X),
         NEW bound \in [M -> Nat], \A m \in M : bound[m] >= 1, Once(gpus, bound)
  PROVE  MergeGpu(gpus, g) \in Seq(Gpus(M, X)) /\ Once(MergeGpu(gpus, g), bound)
<1> DEFINE match == FirstOfModel(gpus, g)
           out == MergeGpu(gpus, g)
<1>1. DOMAIN gpus = 1 .. Len(gpus) /\ Len(gpus) \in Nat
      /\ \A i \in DOMAIN gpus : gpus[i] \in Gpus(M, X)
  BY LenProperties, ElementOfSeq
<1>2. /\ match # 0 => match \in DOMAIN gpus
      /\ match = 0 => \A i \in DOMAIN gpus : gpus[i].model # Unnamed => gpus[i].model # g.model
  BY MatchIn
<1> HIDE DEF match
<1>3. CASE match # 0
  <2>1. match \in DOMAIN gpus
    BY <1>2, <1>3
  <2> DEFINE a == Augment(gpus[match], g)
  <2>2. out = [gpus EXCEPT ![match] = a]
    BY <1>3 DEF MergeGpu, match
  <2>3. a \in Gpus(M, X) /\ a.model = gpus[match].model
    <3>1. PICK o \in Gpus(M, X) : o = gpus[match]
      BY <1>1, <2>1
    <3>2. Augment(o, g) \in Gpus(M, X) /\ Augment(o, g).model = o.model
      BY DEF Augment, Gpus
    <3> QED BY <3>1, <3>2
  <2> HIDE DEF a, out
  <2>4. out \in Seq(Gpus(M, X)) /\ DOMAIN out = DOMAIN gpus
    BY <2>1, <2>2, <2>3
  <2>5. \A i \in DOMAIN gpus : out[i].model = gpus[i].model
    BY <1>1, <2>2, <2>3
  <2>6. \A m : Places(out, m) = Places(gpus, m)
    BY <2>4, <2>5 DEF Places
  <2> QED BY <2>4, <2>6 DEF Once, out
<1>4. CASE match = 0
  <2>1. out = Append(gpus, g)
    BY <1>4 DEF MergeGpu, match
  <2> HIDE DEF out
  <2> DEFINE n == Len(gpus) + 1
  <2>2. /\ out \in Seq(Gpus(M, X)) /\ DOMAIN out = DOMAIN gpus \cup {n} /\ n \notin DOMAIN gpus
        /\ out[n] = g /\ \A i \in DOMAIN gpus : out[i] = gpus[i]
    BY <1>1, <2>1, AppendProperties
  <2> HIDE DEF n
  <2>3. ASSUME NEW m \in M, m # Unnamed
        PROVE  Cardinality(Places(out, m)) <= bound[m]
    <3>1. CASE m = g.model
      <4>1. Places(out, m) = {n}
        BY <1>2, <1>4, <2>2, <2>3, <3>1 DEF Places
      <4>2. Cardinality({n}) = 1
        BY FS_Singleton
      <4> QED BY <4>1, <4>2
    <3>2. CASE m # g.model
      <4>1. Places(out, m) = Places(gpus, m)
        BY <2>2, <3>2 DEF Places
      <4> QED BY <2>3, <4>1 DEF Once
    <3> QED BY <3>1, <3>2
  <2> QED BY <2>2, <2>3 DEF Once, out
<1> QED BY <1>3, <1>4

\* What NN leaves is not negative, whatever came.
LEMMA NNIsNonNeg == \A v : NonNeg(NN(v))
BY DEF NonNeg, NN

\* The larger of one and a count.
LEMMA AtLeast ==
  ASSUME NEW c \in Nat
  PROVE  Max({1, c}) \in Nat /\ Max({1, c}) >= 1 /\ Max({1, c}) >= c
<1>1. \E x \in {1, c} : \A y \in {1, c} : x >= y
  <2>1. CASE c <= 1
    BY <2>1
  <2>2. CASE ~(c <= 1)
    BY <2>2
  <2> QED BY <2>1, <2>2
<1>2. Max({1, c}) \in {1, c} /\ \A y \in {1, c} : Max({1, c}) >= y
  BY <1>1, Zenon DEF Max
<1> QED BY <1>2

\* The GPUs of an assembled profile.
LEMMA GpusAre ==
  ASSUME NEW rs \in Seq(Results), NEW e \in Environments
  PROVE  LET out == MergeGpus(NormalizeEnv(e).gpus, rs)
         IN  /\ \A i \in DOMAIN out : /\ out[i].backend \in Backends
                                      /\ NonNeg(out[i].vram) /\ NonNeg(out[i].tflops)
             /\ \A m \in {out[i].model : i \in DOMAIN out} \ {Unnamed} :
                  Cardinality(Places(out, m)) <= Max({1, Cardinality(Places(e.gpus, m))})
<1> DEFINE b == NormalizeEnv(e).gpus
           out == MergeGpus(b, rs)
           M == {e.gpus[i].model : i \in DOMAIN e.gpus} \cup {r.gpu.model : r \in Results}
           X == {NN(e.gpus[i].vram) : i \in DOMAIN e.gpus}
                  \cup {NN(e.gpus[i].tflops) : i \in DOMAIN e.gpus}
                  \cup {NN(r.gpu.vram) : r \in Results} \cup {NN(r.gpu.tflops) : r \in Results}
           bound == [m \in M |-> Max({1, Cardinality(Places(e.gpus, m))})]
           V == {gs \in Seq(Gpus(M, X)) : Once(gs, bound)}
<1>1. e.gpus \in Seq(Range(e.gpus))
  <2>1. CASE e \in Envs
    BY <2>1, AssemblyAssumption
  <2>2. CASE \E h \in Hosts : e = Detected(h)
    <3>1. e.gpus = << >>
      BY <2>2 DEF Detected
    <3> QED BY <3>1
  <2> QED BY <2>1, <2>2 DEF Environments
<1>2. PICK k \in Nat : DOMAIN e.gpus = 1 .. k
  BY <1>1, LenProperties
<1>3. b = [i \in DOMAIN e.gpus |-> NormalizeGpu(e.gpus[i])]
  BY DEF NormalizeEnv
<1>4. \A i \in DOMAIN e.gpus : NormalizeGpu(e.gpus[i]) \in Gpus(M, X)
  BY DEF NormalizeGpu, Gpus, Backends
<1>5. b \in Seq(Gpus(M, X))
  <2> HIDE DEF M, X, b
  <2> QED BY <1>2, <1>3, <1>4
<1>6. \A m : Places(b, m) = Places(e.gpus, m)
  <2>1. \A i \in DOMAIN e.gpus : NormalizeGpu(e.gpus[i]).model = e.gpus[i].model
    BY DEF NormalizeGpu
  <2> HIDE DEF b
  <2> QED BY <1>3, <2>1 DEF Places
<1>7. \A m : Cardinality(Places(e.gpus, m)) \in Nat
  <2>1. IsFiniteSet(1 .. k)
    BY FS_Interval
  <2>2. \A m : IsFiniteSet(Places(e.gpus, m))
    BY <1>2, <2>1, FS_Subset DEF Places
  <2> QED BY <2>2, FS_CardinalityType
<1>8. bound \in [M -> Nat] /\ \A m \in M : bound[m] >= 1 /\ bound[m] >= Cardinality(Places(e.gpus, m))
  <2> HIDE DEF M
  <2> QED BY <1>7, AtLeast
<1>9. b \in V
  <2> HIDE DEF b, M, X, bound
  <2> QED BY <1>5, <1>6, <1>8 DEF Once
<1>10. \A gs \in V : \A r \in Results : MergeStep(gs, r) \in V
  <2> SUFFICES ASSUME NEW gs \in V, NEW r \in Results, r.gpu # None PROVE MergeGpu(gs, NormalizeGpu(r.gpu)) \in V
    BY DEF MergeStep
  <2>1. NormalizeGpu(r.gpu) \in Gpus(M, X)
    <3>1. r.gpu.model \in M
      OBVIOUS
    <3>2. NN(r.gpu.vram) \in X /\ NN(r.gpu.tflops) \in X
      OBVIOUS
    <3> HIDE DEF M, X
    <3> QED BY <3>1, <3>2 DEF NormalizeGpu, Gpus, Backends
  <2> DEFINE g == NormalizeGpu(r.gpu)
  <2> HIDE DEF g
  <2> HIDE DEF M, X, bound
  <2>2. MergeGpu(gs, g) \in Seq(Gpus(M, X)) /\ Once(MergeGpu(gs, g), bound)
    <3>1. g \in Gpus(M, X)
      BY <2>1 DEF g
    <3> QED BY <1>8, <3>1, MergeGpuKeeps
  <2> QED BY <2>2 DEF g
<1>11. out \in V
  <2> HIDE DEF b, V
  <2> QED BY <1>9, <1>10, MergeIn
<1>12. \A x \in X : NonNeg(x)
  BY NNIsNonNeg
<1>13. \A i \in DOMAIN out : out[i] \in Gpus(M, X)
  <2> HIDE DEF out, M, X, bound
  <2> QED BY <1>11, ElementOfSeq
<1>14. ASSUME NEW i \in DOMAIN out
       PROVE  out[i].backend \in Backends /\ NonNeg(out[i].vram) /\ NonNeg(out[i].tflops)
  <2> HIDE DEF out, M, X
  <2> QED BY <1>12, <1>13 DEF Gpus
<1>15. ASSUME NEW m \in {out[i].model : i \in DOMAIN out}, m # Unnamed
       PROVE  Cardinality(Places(out, m)) <= Max({1, Cardinality(Places(e.gpus, m))})
  <2>1. m \in M
    <3> HIDE DEF out, M, X
    <3> QED BY <1>13 DEF Gpus
  <2>2. bound[m] = Max({1, Cardinality(Places(e.gpus, m))}) /\ DOMAIN bound = M
    BY <2>1
  <2> HIDE DEF out, M, X, bound
  <2> QED BY <1>11, <1>15, <2>1, <2>2 DEF Once
<1> HIDE DEF out
<1> QED BY <1>14, <1>15 DEF out

\* Every kind of the results has a first one, which is of that kind.
LEMMA FirstSeenIs ==
  ASSUME NEW rs \in Seq(Results), NEW k \in {rs[i].kind : i \in DOMAIN rs}
  PROVE  FirstSeen(rs, k) \in DOMAIN rs /\ rs[FirstSeen(rs, k)].kind = k
<1> DEFINE of == PlacesOf(rs, k)
<1>1. of \subseteq Nat /\ of # {}
  BY PlacesFinite DEF PlacesOf
<1>2. Min(of) \in of
  <2> HIDE DEF of
  <2> QED BY <1>1, LeastExists
<1> QED BY <1>2 DEF FirstSeen, PlacesOf

\* No more samples than fit are shipped, whatever the kinds are.
LEMMA SamplesFit ==
  ASSUME NEW rs \in Seq(Results)
  PROVE  /\ IsFiniteSet(SelectSamples(rs)) /\ Cardinality(SelectSamples(rs)) \in Nat
         /\ Cardinality(SelectSamples(rs)) <= MaxSamples
<1> DEFINE kinds == {rs[i].kind : i \in DOMAIN rs} \ {Kindless}
           before(k) == {l \in kinds : FirstSeen(rs, l) < FirstSeen(rs, k)}
           K == {l \in kinds : Cardinality(before(l)) < MaxSamples}
           T == {FirstSeen(rs, l) : l \in K}
<1>1. DOMAIN rs = 1 .. Len(rs) /\ Len(rs) \in Nat /\ IsFiniteSet(DOMAIN rs)
  BY PlacesFinite
<1>2. IsFiniteSet(kinds)
  <2> DEFINE f == [i \in DOMAIN rs |-> rs[i].kind]
             all == {rs[i].kind : i \in DOMAIN rs}
  <2>1. f \in [DOMAIN rs -> all] /\ \A k \in all : \E i \in DOMAIN rs : f[i] = k
    OBVIOUS
  <2>2. f \in Surjection(DOMAIN rs, all)
    <3> HIDE DEF f, all
    <3> QED BY <2>1, Fun_IsSurj
  <2>3. IsFiniteSet(all)
    <3> HIDE DEF all
    <3> QED BY <1>1, <2>2, FS_Surjection
  <2> HIDE DEF all
  <2> QED BY <2>3, FS_Subset DEF all
<1>3. \A k \in kinds : FirstSeen(rs, k) \in 1 .. Len(rs) /\ rs[FirstSeen(rs, k)].kind = k
  BY <1>1, FirstSeenIs
<1>4. \A k \in kinds : IsFiniteSet(before(k)) /\ Cardinality(before(k)) \in Nat
  <2> HIDE DEF kinds
  <2> QED BY <1>2, FS_Subset, FS_CardinalityType
<1>5. K \subseteq kinds /\ IsFiniteSet(K) /\ Cardinality(K) \in Nat
  <2>1. K \subseteq kinds
    OBVIOUS
  <2> HIDE DEF K, kinds
  <2> QED BY <1>2, <2>1, FS_Subset, FS_CardinalityType
<1>6. Cardinality(K) <= MaxSamples
  <2>1. CASE K = {}
    <3>1. Cardinality(K) = 0
      <4> HIDE DEF K
      <4> QED BY <2>1, FS_EmptySet
    <3> QED BY <3>1, AssemblyAssumption
  <2>2. CASE K # {}
    <3>1. T \in SUBSET (1 .. Len(rs)) /\ T # {}
      <4> HIDE DEF K, kinds
      <4> QED BY <1>3, <1>5, <2>2
    <3>2. Max(T) \in T /\ \A n \in T : n <= Max(T)
      <4> HIDE DEF T
      <4> QED BY <1>1, <3>1, LastIn
    <3>3. PICK l \in K : FirstSeen(rs, l) = Max(T)
      <4> HIDE DEF K
      <4> QED BY <3>2
    <3>4. \A k \in K : FirstSeen(rs, k) <= FirstSeen(rs, l)
      <4> HIDE DEF K
      <4> QED BY <3>2, <3>3
    <3>5. K \ {l} \subseteq before(l)
      <4> SUFFICES ASSUME NEW k \in K, k # l PROVE k \in before(l)
        OBVIOUS
      <4>1. k \in kinds /\ l \in kinds
        BY <1>5
      <4> HIDE DEF kinds, K
      <4>2. FirstSeen(rs, k) # FirstSeen(rs, l)
        BY <1>3, <4>1
      <4>3. FirstSeen(rs, k) < FirstSeen(rs, l)
        BY <1>3, <3>4, <4>1, <4>2
      <4> QED BY <4>1, <4>3
    <3>6. Cardinality(before(l)) < MaxSamples
      OBVIOUS
    <3>7. IsFiniteSet(before(l)) /\ Cardinality(before(l)) \in Nat
      BY <1>4, <1>5
    <3> HIDE DEF before, K
    <3>8. Cardinality(K \ {l}) <= Cardinality(before(l))
      BY <3>5, <3>7, FS_Subset
    <3>9. Cardinality(K \ {l}) = Cardinality(K) - 1
      BY <1>5, FS_RemoveElement
    <3> QED BY <1>5, <3>6, <3>7, <3>8, <3>9, AssemblyAssumption
  <2> QED BY <2>1, <2>2
<1> DEFINE samples == {Sample(rs, k) : k \in K}
<1>7. Cardinality(samples) <= Cardinality(K)
  <2> DEFINE f == [k \in K |-> Sample(rs, k)]
  <2>1. f \in [K -> samples] /\ \A p \in samples : \E k \in K : f[k] = p
    <3> HIDE DEF K
    <3> QED OBVIOUS
  <2>2. f \in Surjection(K, samples)
    <3> HIDE DEF f, K, samples
    <3> QED BY <2>1, Fun_IsSurj
  <2> HIDE DEF f, K, samples
  <2> QED BY <1>5, <2>2, FS_Surjection
<1>8. IsFiniteSet(samples) /\ Cardinality(samples) \in Nat
  <2> DEFINE f == [k \in K |-> Sample(rs, k)]
  <2>1. f \in [K -> samples] /\ \A p \in samples : \E k \in K : f[k] = p
    <3> HIDE DEF K
    <3> QED OBVIOUS
  <2>2. f \in Surjection(K, samples)
    <3> HIDE DEF f, K, samples
    <3> QED BY <2>1, Fun_IsSurj
  <2> HIDE DEF f, K, samples
  <2> QED BY <1>5, <2>2, FS_Surjection, FS_CardinalityType
<1>9. SelectSamples(rs) = samples
  BY DEF SelectSamples
<1> HIDE DEF samples, K
<1> QED BY <1>5, <1>6, <1>7, <1>8, <1>9, AssemblyAssumption

\* An assembled profile has none of the problems that validateProfile names.
LEMMA NoProblems ==
  ASSUME NEW rs \in Seq(Results), NEW e \in Environments, NEW net
  PROVE  Problems(Assembled(rs, e, net)) = {}
<1> DEFINE p == Assembled(rs, e, net)
<1>1. \A f \in {"cores", "gflops", "memBw", "totalMb", "freeGb", "tokens"} : NonNeg(p[f])
  <2>1. \A k : NonNeg(Headline(rs, k))
    BY NNIsNonNeg DEF Headline, NonNeg
  <2>2. NonNeg(p.gflops) /\ NonNeg(p.memBw) /\ NonNeg(p.tokens)
    BY <2>1 DEF Assembled
  <2>3. NonNeg(p.cores) /\ NonNeg(p.totalMb) /\ NonNeg(p.freeGb)
    BY NNIsNonNeg DEF Assembled, NormalizeEnv
  <2> HIDE DEF p
  <2> QED BY <2>2, <2>3
<1>2. \A i \in DOMAIN p.gpus : /\ p.gpus[i].backend \in Backends
                               /\ NonNeg(p.gpus[i].vram) /\ NonNeg(p.gpus[i].tflops)
  <2>1. p.gpus = MergeGpus(NormalizeEnv(e).gpus, rs)
    BY DEF Assembled
  <2> HIDE DEF p
  <2> QED BY <2>1, GpusAre
<1>3. p.kind \in NodeKinds
  BY DEF Assembled, NormalizeEnv, NodeKinds
<1>4. \A f \in {"relayRtt", "down"} : \A v \in p.network[f] : NonNeg(v)
  <2>1. \A v : \A w \in MeasuredDim(v) : NonNeg(w)
    BY DEF MeasuredDim
  <2>2. p.network.relayRtt = MeasuredDim(net.relayRtt) /\ p.network.down = MeasuredDim(net.down)
    BY DEF Assembled, BuildNetwork
  <2> HIDE DEF p
  <2> QED BY <2>1, <2>2
<1>5. Cardinality(p.samples) <= 16
  <2>1. p.samples = SelectSamples(rs)
    BY DEF Assembled
  <2>2. Cardinality(SelectSamples(rs)) <= MaxSamples
    BY SamplesFit
  <2>3. IsFiniteSet(SelectSamples(rs)) /\ Cardinality(SelectSamples(rs)) \in Nat
    BY SamplesFit
  <2> HIDE DEF p
  <2> QED BY <2>1, <2>2, <2>3, AssemblyAssumption
<1> HIDE DEF p
<1>6. Problems(p) = {}
  BY <1>1, <1>2, <1>3, <1>4, <1>5, Zenon DEF Problems
<1> QED BY <1>6 DEF p

\* profile.js coerces and types.js validates, written apart: nothing that the
\* probes report and no environment, foreign kinds, missing numbers and
\* negative ones included, makes assembleProfile throw its own profile away.
THEOREM NeverInvalidHolds == AssemblySpec => []NeverInvalid
<1>1. AssemblyInit(Environments, Networks) => Assembly
  BY DEF AssemblyInit, Assembly
<1>2. Assembly => NeverInvalid
  BY NoProblems DEF Assembly, NeverInvalid
<1> QED BY <1>1, <1>2, AssemblyStep, PTL DEF AssemblySpec

\* mergeGpus: however often and in whatever order evidence of a GPU comes, a
\* GPU with a name is listed as often as the environment has it, or once.
THEOREM NamedGpuOnceHolds == AssemblySpec => []NamedGpuOnce
<1>1. AssemblyInit(Environments, Networks) => Assembly
  BY DEF AssemblyInit, Assembly
<1>2. Assembly => NamedGpuOnce
  <2> SUFFICES ASSUME Assembly, outcome = "assembled",
                      NEW g \in {profile.gpus[i].model : i \in DOMAIN profile.gpus} \ {Unnamed}
               PROVE  Cardinality({i \in DOMAIN profile.gpus : profile.gpus[i].model = g})
                        <= Max({1, Cardinality({i \in DOMAIN env.gpus : env.gpus[i].model = g})})
    BY DEF NamedGpuOnce
  <2>1. profile.gpus = MergeGpus(NormalizeEnv(env).gpus, results)
    BY DEF Assembly, Assembled
  <2>2. PICK rs \in Seq(Results), e \in Environments : rs = results /\ e = env
    BY DEF Assembly
  <2>3. PICK out : out = profile.gpus
    OBVIOUS
  <2>4. Cardinality(Places(out, g)) <= Max({1, Cardinality(Places(e.gpus, g))})
    BY <2>1, <2>2, <2>3, GpusAre
  <2> QED BY <2>2, <2>3, <2>4 DEF Places
<1> QED BY <1>1, <1>2, AssemblyStep, PTL DEF AssemblySpec
-----------------------------------------------------------------------------
(***************************************************************************)
(* ProfileBoard: what the reader collected is what its sources showed, and *)
(* the board has the freshest of it.                                       *)
(***************************************************************************)
DecodeStep(out, p) == IF Valid(p) THEN Append(out, p) ELSE out
Decodes(g, ps) ==
  \A i \in 0 .. Len(ps) : g[i] = IF i = 0 THEN << >> ELSE DecodeStep(g[i - 1], ps[i])
\* out has the valid ones among the first n of ps, and no other.
ValidOf(out, ps, n) ==
  /\ \A i \in DOMAIN out : Valid(out[i]) /\ \E k \in 1 .. n : out[i] = ps[k]
  /\ \A k \in 1 .. n : Valid(ps[k]) => \E i \in DOMAIN out : out[i] = ps[k]

\* One more profile keeps what was decoded.
LEMMA DecodeStepKeeps ==
  ASSUME NEW S, NEW ps \in Seq(S), NEW n \in Nat, n + 1 <= Len(ps),
         NEW out \in Seq(S), ValidOf(out, ps, n)
  PROVE  /\ DecodeStep(out, ps[n + 1]) \in Seq(S)
         /\ ValidOf(DecodeStep(out, ps[n + 1]), ps, n + 1)
<1>0. /\ Len(ps) \in Nat /\ n + 1 \in 1 .. Len(ps)
      /\ \A k \in 1 .. n + 1 : k = n + 1 \/ k \in 1 .. n
      /\ \A k \in 1 .. n : k \in 1 .. n + 1
  BY LenProperties
<1>1. ps[n + 1] \in S
  BY <1>0, ElementOfSeq
<1>2. CASE ~Valid(ps[n + 1])
  BY <1>0, <1>2 DEF DecodeStep, ValidOf
<1>3. CASE Valid(ps[n + 1])
  <2> DEFINE p == ps[n + 1]
             more == Append(out, p)
  <2>1. /\ more \in Seq(S) /\ Len(more) = Len(out) + 1 /\ Len(out) \in Nat
        /\ DOMAIN more = 1 .. Len(out) + 1 /\ DOMAIN out = 1 .. Len(out)
    BY <1>1, AppendProperties, LenProperties
  <2>2. /\ \A i \in 1 .. Len(out) : more[i] = out[i]
        /\ more[Len(out) + 1] = p
    BY <1>1, AppendProperties
  <2>3. DecodeStep(out, p) = more
    BY <1>3 DEF DecodeStep
  <2> HIDE DEF more
  <2>4. ASSUME NEW i \in DOMAIN more
        PROVE  Valid(more[i]) /\ \E k \in 1 .. n + 1 : more[i] = ps[k]
    <3>1. CASE i = Len(out) + 1
      BY <1>0, <1>3, <2>2, <3>1
    <3>2. CASE i # Len(out) + 1
      <4>1. i \in DOMAIN out /\ more[i] = out[i]
        BY <2>1, <2>2, <3>2
      <4>2. Valid(out[i]) /\ \E k \in 1 .. n : out[i] = ps[k]
        BY <4>1 DEF ValidOf
      <4> QED BY <1>0, <4>1, <4>2
    <3> QED BY <3>1, <3>2
  <2>5. ASSUME NEW k \in 1 .. n + 1, Valid(ps[k])
        PROVE  \E i \in DOMAIN more : more[i] = ps[k]
    <3>1. CASE k = n + 1
      <4>1. Len(out) + 1 \in DOMAIN more
        BY <2>1
      <4> QED BY <2>2, <3>1, <4>1
    <3>2. CASE k \in 1 .. n
      <4>1. PICK i \in DOMAIN out : out[i] = ps[k]
        BY <2>5, <3>2 DEF ValidOf
      <4>2. i \in DOMAIN more /\ more[i] = out[i]
        BY <2>1, <2>2, <4>1
      <4> QED BY <4>1, <4>2
    <3> QED BY <1>0, <3>1, <3>2
  <2> QED BY <2>1, <2>3, <2>4, <2>5 DEF ValidOf
<1> QED BY <1>2, <1>3

\* The recursive function of Decoded exists.
LEMMA DecodesExist ==
  ASSUME NEW S, NEW ps \in Seq(S)
  PROVE  \E g \in [0 .. Len(ps) -> Seq(S)] : Decodes(g, ps)
<1> DEFINE V == Seq(S)
           Up(g, n) == \A i \in 0 .. n : g[i] = IF i = 0 THEN << >> ELSE DecodeStep(g[i - 1], ps[i])
           P(n) == n <= Len(ps) => \E g \in [0 .. n -> V] : Up(g, n)
           N == {n \in Nat : P(n)}
<1>0. Len(ps) \in Nat
  BY LenProperties
<1>1. P(0)
  <2> DEFINE g == [i \in 0 .. 0 |-> << >>]
  <2>1. << >> \in V
    BY EmptySeq
  <2>2. g \in [0 .. 0 -> V] /\ \A i \in 0 .. 0 : i = 0 /\ g[i] = << >>
    BY <2>1
  <2> HIDE DEF g, V
  <2> QED BY <2>2
<1>2. ASSUME NEW n \in Nat, P(n) PROVE P(n + 1)
  <2> SUFFICES ASSUME n + 1 <= Len(ps)
               PROVE  \E g \in [0 .. n + 1 -> V] : Up(g, n + 1)
    OBVIOUS
  <2>1. n <= Len(ps)
    BY <1>0
  <2>2. PICK g \in [0 .. n -> V] : Up(g, n)
    BY <1>2, <2>1
  <2> DEFINE last == DecodeStep(g[n], ps[n + 1])
             h == [i \in 0 .. n + 1 |-> IF i = n + 1 THEN last ELSE g[i]]
  <2>3. last \in V
    <3>1. n + 1 \in 1 .. Len(ps) /\ g[n] \in Seq(S)
      BY <1>0
    <3>2. ps[n + 1] \in S
      BY <3>1, ElementOfSeq
    <3>3. Append(g[n], ps[n + 1]) \in Seq(S)
      BY <3>1, <3>2, AppendProperties
    <3> QED BY <3>1, <3>3 DEF DecodeStep
  <2>4. h \in [0 .. n + 1 -> V]
    <3> HIDE DEF last, V
    <3> QED BY <2>3
  <2>5. /\ h[n + 1] = last
        /\ \A i \in 0 .. n : h[i] = g[i]
    <3> HIDE DEF last, V
    <3> QED OBVIOUS
  <2> HIDE DEF h, V
  <2>6. ASSUME NEW i \in 0 .. n + 1
        PROVE  h[i] = IF i = 0 THEN << >> ELSE DecodeStep(h[i - 1], ps[i])
    <3>1. CASE i = n + 1
      <4>1. i # 0 /\ i - 1 = n /\ n \in 0 .. n
        BY <3>1
      <4> QED BY <2>5, <3>1, <4>1
    <3>2. CASE i # n + 1
      <4>1. i \in 0 .. n /\ (i # 0 => i - 1 \in 0 .. n)
        BY <3>2
      <4>2. g[i] = IF i = 0 THEN << >> ELSE DecodeStep(g[i - 1], ps[i])
        BY <2>2, <4>1
      <4> HIDE DEF last
      <4> QED BY <2>5, <4>1, <4>2
    <3> QED BY <3>1, <3>2
  <2> QED BY <2>4, <2>6
<1>3. \A n \in Nat : n \in N => n + 1 \in N
  <2> SUFFICES ASSUME NEW n \in Nat, n \in N PROVE n + 1 \in N
    OBVIOUS
  <2>1. P(n)
    OBVIOUS
  <2>2. P(n + 1)
    BY <1>2, <2>1
  <2> HIDE DEF P
  <2> QED BY <2>2
<1>4. 0 \in N
  <2> HIDE DEF P
  <2> QED BY <1>1
<1>5. Len(ps) \in N
  <2> HIDE DEF N
  <2> QED BY <1>0, <1>3, <1>4, NatSet
<1> QED BY <1>5 DEF Decodes

\* Its value is the valid profiles.
LEMMA DecodesWhat ==
  ASSUME NEW S, NEW ps \in Seq(S), NEW g, Decodes(g, ps)
  PROVE  g[Len(ps)] \in Seq(S) /\ ValidOf(g[Len(ps)], ps, Len(ps))
<1> DEFINE P(n) == n <= Len(ps) => g[n] \in Seq(S) /\ ValidOf(g[n], ps, n)
           N == {n \in Nat : P(n)}
<1>0. Len(ps) \in Nat
  BY LenProperties
<1>1. P(0)
  <2>1. 0 \in 0 .. Len(ps)
    BY <1>0
  <2>2. g[0] = << >>
    BY <2>1 DEF Decodes
  <2>3. << >> \in Seq(S) /\ DOMAIN << >> = {} /\ 1 .. 0 = {}
    OBVIOUS
  <2> QED BY <2>2, <2>3 DEF ValidOf
<1>2. ASSUME NEW n \in Nat, P(n) PROVE P(n + 1)
  <2> SUFFICES ASSUME n + 1 <= Len(ps) PROVE g[n + 1] \in Seq(S) /\ ValidOf(g[n + 1], ps, n + 1)
    OBVIOUS
  <2>1. n + 1 \in 0 .. Len(ps) /\ n <= Len(ps) /\ n + 1 # 0 /\ n + 1 - 1 = n
    BY <1>0
  <2>2. g[n] \in Seq(S) /\ ValidOf(g[n], ps, n)
    BY <1>2, <2>1
  <2>3. g[n + 1] = DecodeStep(g[n], ps[n + 1])
    BY <2>1 DEF Decodes
  <2> QED BY <2>2, <2>3, DecodeStepKeeps
<1>3. \A n \in Nat : n \in N => n + 1 \in N
  <2> SUFFICES ASSUME NEW n \in Nat, n \in N PROVE n + 1 \in N
    OBVIOUS
  <2>1. P(n)
    OBVIOUS
  <2>2. P(n + 1)
    BY <1>2, <2>1
  <2> HIDE DEF P
  <2> QED BY <2>2
<1>4. 0 \in N
  <2> HIDE DEF P
  <2> QED BY <1>1
<1>5. Len(ps) \in N
  <2> HIDE DEF N
  <2> QED BY <1>0, <1>3, <1>4, NatSet
<1> QED BY <1>5, <1>0

\* What is decoded is a sequence of the valid ones among what was received.
LEMMA DecodedIs ==
  ASSUME NEW S, NEW ps \in Seq(S)
  PROVE  Decoded(ps) \in Seq(S) /\ ValidOf(Decoded(ps), ps, Len(ps))
<1> DEFINE e(g, i) == IF i = 0 THEN << >> ELSE DecodeStep(g[i - 1], ps[i])
           Eq(g) == g = [i \in 0 .. Len(ps) |-> e(g, i)]
<1>1. PICK g0 \in [0 .. Len(ps) -> Seq(S)] : Decodes(g0, ps)
  BY DecodesExist
<1>2. Eq(g0)
  <2>1. \A i \in 0 .. Len(ps) : g0[i] = e(g0, i)
    BY <1>1 DEF Decodes
  <2>2. g0 = [i \in 0 .. Len(ps) |-> g0[i]]
    BY <1>1
  <2> HIDE DEF e
  <2> QED BY <2>1, <2>2
<1> DEFINE g == CHOOSE h : Eq(h)
<1>3. Eq(g)
  <2> HIDE DEF Eq
  <2> QED BY <1>2, Zenon
<1>4. Decoded(ps) = g[Len(ps)]
  BY Zenon DEF Decoded, DecodeStep
<1> HIDE DEF g
<1>5. Decodes(g, ps)
  <2>1. \A i \in 0 .. Len(ps) : g[i] = e(g, i)
    <3> HIDE DEF e
    <3> QED BY <1>3, Zenon
  <2> QED BY <2>1 DEF Decodes
<1> HIDE DEF Eq
<1> QED BY <1>4, <1>5, DecodesWhat

\* Of one node no two profiles are kept, and for each that is valid and not
\* stale one is kept that is as fresh: the first of the freshest.
LEMMA KeptHas ==
  ASSUME NEW ps \in Seq(Profile), clock \in Nat
  PROVE  /\ \A q \in Kept(ps) : Valid(q) /\ \E k \in DOMAIN ps : q = ps[k]
         /\ \A p, q \in Kept(ps) : p.node = q.node => p = q
         /\ \A k \in DOMAIN ps : Valid(ps[k]) /\ ~Stale(ps[k]) =>
              \E q \in Kept(ps) : q.node = ps[k].node /\ q.at >= ps[k].at
<1> DEFINE live == {k \in DOMAIN ps : Valid(ps[k]) /\ ~Stale(ps[k])}
           First(j) == \A k \in live : j # k /\ ps[k].node = ps[j].node => Replaces(ps[j], ps[k], j, k)
<1>0. /\ Kept(ps) = {ps[j] : j \in {j \in live : First(j)}}
      /\ Len(ps) \in Nat /\ DOMAIN ps = 1 .. Len(ps)
      /\ \A k \in DOMAIN ps : ps[k] \in Profile /\ ps[k].at \in Nat
  <2>1. \A k \in 1 .. Len(ps) : ps[k] \in Profile
    BY ElementOfSeq
  <2>2. \A p \in Profile : p.at \in Nat
    BY BoardAssumption DEF Profile
  <2> QED BY <2>1, <2>2, LenProperties DEF Kept
<1>1. \A q \in Kept(ps) : \E j \in live : q = ps[j] /\ First(j)
  BY <1>0
<1>2. ASSUME NEW p \in Kept(ps), NEW q \in Kept(ps), p.node = q.node
      PROVE  p = q
  <2>1. PICK i \in live : p = ps[i] /\ First(i)
    BY <1>1
  <2>2. PICK j \in live : q = ps[j] /\ First(j)
    BY <1>1
  <2>3. CASE i = j
    BY <2>1, <2>2, <2>3
  <2>4. CASE i # j
    <3>1. Replaces(p, q, i, j) /\ Replaces(q, p, j, i)
      BY <1>2, <2>1, <2>2, <2>4
    <3>2. p.at \in Nat /\ q.at \in Nat /\ i \in Nat /\ j \in Nat
      BY <1>0, <2>1, <2>2
    <3> QED BY <3>1, <3>2 DEF Replaces
  <2> QED BY <2>3, <2>4
<1>3. ASSUME NEW k \in DOMAIN ps, Valid(ps[k]), ~Stale(ps[k])
      PROVE  \E q \in Kept(ps) : q.node = ps[k].node /\ q.at >= ps[k].at
  <2> DEFINE same == {i \in live : ps[i].node = ps[k].node}
             f == [i \in 1 .. Len(ps) |-> ps[i].at]
  <2>1. same \in SUBSET (1 .. Len(ps)) /\ k \in same /\ same # {}
    BY <1>0, <1>3
  <2>2. f \in [1 .. Len(ps) -> Int] /\ \A i \in same : f[i] = ps[i].at
    BY <1>0, <2>1
  <2>3. PICK m \in same : \A i \in same : ps[i].at <= ps[m].at
    <3> HIDE DEF f, same
    <3> QED BY <1>0, <2>1, <2>2, LargestExists
  <2> DEFINE top == {i \in same : ps[i].at = ps[m].at}
             j == Min(top)
  <2>4. j \in top /\ \A i \in top : j <= i
    <3>1. top \subseteq Nat /\ top # {}
      BY <2>1, <2>3
    <3> HIDE DEF top
    <3> QED BY <3>1, LeastExists
  <2> HIDE DEF j
  <2>5. j \in live /\ ps[j].node = ps[k].node /\ ps[j].at = ps[m].at /\ ps[k].at <= ps[j].at
    BY <2>1, <2>3, <2>4
  <2>6. ASSUME NEW i \in live, j # i, ps[i].node = ps[j].node
        PROVE  Replaces(ps[j], ps[i], j, i)
    <3>1. i \in same /\ ps[i].at <= ps[j].at
      BY <2>3, <2>5, <2>6
    <3>2. ps[i].at \in Nat /\ ps[j].at \in Nat /\ i \in Nat /\ j \in Nat
      BY <1>0, <2>5
    <3>3. CASE ps[i].at = ps[j].at
      <4>1. j <= i
        BY <2>4, <2>5, <3>1, <3>3
      <4> QED BY <2>6, <3>2, <3>3, <4>1 DEF Replaces
    <3>4. CASE ps[i].at # ps[j].at
      BY <3>1, <3>2, <3>4 DEF Replaces
    <3> QED BY <3>3, <3>4
  <2>7. ps[j] \in Kept(ps)
    BY <1>0, <2>5, <2>6
  <2>8. ps[j].at >= ps[k].at
    BY <1>0, <2>5
  <2> QED BY <2>5, <2>7, <2>8
<1>4. \A q \in Kept(ps) : Valid(q) /\ \E k \in DOMAIN ps : q = ps[k]
  BY <1>0
<1> QED BY <1>2, <1>3, <1>4

\* A board with one profile a node is finite.
LEMMA BoardFinite ==
  ASSUME NEW B, B \subseteq Profile, \A p, q \in B : p.node = q.node => p = q
  PROVE  IsFiniteSet(B) /\ Cardinality(B) \in Nat
<1> DEFINE f == [p \in B |-> p.node]
<1>1. f \in Injection(B, Node)
  <2>1. \A p \in B : p.node \in Node
    BY DEF Profile
  <2>2. f \in [B -> Node] /\ IsInjective(f)
    BY <2>1 DEF IsInjective
  <2> QED BY <2>2 DEF Injection
<1>2. IsFiniteSet(Node)
  BY BoardAssumption
<1> HIDE DEF f
<1> QED BY <1>1, <1>2, FS_Injection, FS_CardinalityType

(***************************************************************************)
(* The inductive invariant.  What was collected is all that is valid of    *)
(* what was shown, and while nothing is shown to the caller there is no    *)
(* board; the freshest of the board stay the freshest, because what is     *)
(* stale stays stale while the reader goes on.                             *)
(***************************************************************************)
Gathered ==
  /\ \A k \in DOMAIN raw : raw[k] \in seen /\ Valid(raw[k])
  /\ \A p \in seen : Valid(p) => \E k \in DOMAIN raw : raw[k] = p
Early == step \in {"served", "profiles", "signals", "dedupe"}
Freshest ==
  /\ \A p \in seen : Valid(p) /\ ~Stale(p) => \E q \in board : q.node = p.node /\ q.at >= p.at
  /\ board \subseteq {p \in seen : Valid(p)}
  /\ \A p, q \in board : p.node = q.node => p = q
Returned ==
  /\ stats.from = "node" => board = {} /\ prefer /\ ~verifying
  /\ stats.from = "reader" => stats.nodes = Cardinality(board)
  /\ stats.from # "nobody"
BoardInv ==
  /\ TypeOK /\ IsFiniteSet(directory)
  /\ Gathered
  /\ step = "served" => prefer /\ ~verifying
  /\ Early => board = {}
  /\ Shown => Freshest
  /\ step = "done" => Returned

\* What is taken from a source is gathered.
LEMMA TakeGathers ==
  ASSUME raw \in Seq(Profile), seen \subseteq Profile, Gathered,
         \E ps \in Seq(Profile) : Take(ps)
  PROVE  raw' \in Seq(Profile) /\ seen' \subseteq Profile /\ Gathered'
<1>1. PICK ps \in Seq(Profile) : Take(ps)
  OBVIOUS
<1> DEFINE more == Decoded(ps)
<1>2. more \in Seq(Profile) /\ ValidOf(more, ps, Len(ps))
  BY DecodedIs
<1>3. /\ raw' = raw \o more
      /\ seen' = seen \cup {ps[k] : k \in DOMAIN ps}
  BY <1>1 DEF Take
<1> HIDE DEF more
<1>4. /\ Len(raw) \in Nat /\ DOMAIN raw = 1 .. Len(raw)
      /\ Len(more) \in Nat /\ DOMAIN more = 1 .. Len(more)
      /\ DOMAIN ps = 1 .. Len(ps)
      /\ \A k \in 1 .. Len(ps) : ps[k] \in Profile
  BY <1>2, LenProperties, ElementOfSeq
<1>5. /\ raw' \in Seq(Profile) /\ DOMAIN raw' = 1 .. Len(raw) + Len(more)
      /\ \A i \in 1 .. Len(raw) + Len(more) :
           raw'[i] = IF i <= Len(raw) THEN raw[i] ELSE more[i - Len(raw)]
  BY <1>2, <1>3, ConcatProperties, LenProperties
<1>6. seen' \subseteq Profile
  BY <1>3, <1>4
<1>7. ASSUME NEW i \in DOMAIN raw' PROVE raw'[i] \in seen' /\ Valid(raw'[i])
  <2>1. CASE i <= Len(raw)
    <3>1. i \in DOMAIN raw /\ raw'[i] = raw[i]
      BY <1>4, <1>5, <2>1
    <3>2. raw[i] \in seen /\ Valid(raw[i])
      BY <3>1 DEF Gathered
    <3> QED BY <1>3, <3>1, <3>2
  <2>2. CASE ~(i <= Len(raw))
    <3>1. i - Len(raw) \in DOMAIN more /\ raw'[i] = more[i - Len(raw)]
      BY <1>4, <1>5, <2>2
    <3>2. PICK k \in 1 .. Len(ps) : more[i - Len(raw)] = ps[k] /\ Valid(more[i - Len(raw)])
      BY <1>2, <3>1 DEF ValidOf
    <3> QED BY <1>3, <1>4, <3>1, <3>2
  <2> QED BY <2>1, <2>2
<1>8. ASSUME NEW p \in seen', Valid(p) PROVE \E i \in DOMAIN raw' : raw'[i] = p
  <2>1. CASE p \in seen
    <3>1. PICK k \in DOMAIN raw : raw[k] = p
      BY <1>8, <2>1 DEF Gathered
    <3>2. k \in DOMAIN raw' /\ raw'[k] = raw[k]
      BY <1>4, <1>5, <3>1
    <3> QED BY <3>1, <3>2
  <2>2. CASE p \notin seen
    <3>1. PICK k \in 1 .. Len(ps) : p = ps[k]
      BY <1>3, <1>4, <2>2
    <3>2. PICK i \in DOMAIN more : more[i] = p
      BY <1>2, <1>8, <3>1 DEF ValidOf
    <3> DEFINE j == i + Len(raw)
    <3>3. /\ j \in 1 .. Len(raw) + Len(more) /\ ~(j <= Len(raw))
          /\ j - Len(raw) = i
      BY <1>4, <3>2
    <3> HIDE DEF j
    <3>4. j \in DOMAIN raw' /\ raw'[j] = more[i]
      BY <1>5, <3>3
    <3> QED BY <3>2, <3>4
  <2> QED BY <2>1, <2>2
<1> QED BY <1>5, <1>6, <1>7, <1>8 DEF Gathered, Valid

\* The network changes nothing of the reader but the age of its profiles.
LEMMA NetworkKeeps ==
  ASSUME BoardInv, Tick \/ \E n \in Node, c \in Content : Publishes(n, c)
  PROVE  BoardInv'
<1>0. /\ TypeOK /\ clock \in Nat /\ UNCHANGED Reading /\ MaxClock \in Nat /\ Lead \in Nat
      /\ UNCHANGED <<step, raw, board, asked, trusted, stats, verifying, prefer, seen>>
  <2>1. TypeOK /\ clock \in Nat /\ MaxClock \in Nat /\ Lead \in Nat
    BY BoardAssumption DEF BoardInv, TypeOK
  <2>2. UNCHANGED Reading
    BY DEF Tick, Publishes
  <2> QED BY <2>1, <2>2 DEF Reading, Choice
<1>1. CASE Tick
  <2>1. clock' = clock + 1 /\ clock' \in 0 .. MaxClock /\ UNCHANGED <<published, directory, signals>>
    BY <1>0, <1>1 DEF Tick
  <2>2. TypeOK' /\ IsFiniteSet(directory)'
    BY <1>0, <2>1 DEF TypeOK, BoardInv
  <2>3. ASSUME NEW p \in Profile, Stale(p) PROVE Stale(p)'
    <3>1. p.at \in Nat /\ MaxAge \in Nat
      BY BoardAssumption DEF Profile
    <3> QED BY <1>0, <2>1, <2>3, <3>1 DEF Stale
  <2>4. Shown' => Freshest'
    BY <1>0, <2>3 DEF BoardInv, TypeOK, Shown, Freshest, Valid
  <2> QED BY <1>0, <2>2, <2>4 DEF BoardInv, Gathered, Early, Returned, Valid
<1>2. ASSUME NEW n \in Node, NEW c \in Content, Publishes(n, c) PROVE BoardInv'
  <2> DEFINE p == [node |-> n, at |-> ClockOf(n), content |-> c]
  <2>1. /\ clock' = clock /\ published' = published + 1 /\ published < MaxPublish
        /\ \/ directory' = {q \in directory : q.node # n} \cup {p} /\ UNCHANGED signals
           \/ /\ signals' = Append(IF Len(signals) = SignalLimit THEN Tail(signals) ELSE signals, p)
              /\ UNCHANGED directory
    BY <1>2 DEF Publishes
  <2>2. p \in Profile
    <3>1. ClockOf(n) \in 0 .. MaxClock + Lead
      BY <1>0 DEF ClockOf, TypeOK
    <3> HIDE DEF ClockOf
    <3> QED BY <3>1 DEF Profile
  <2> HIDE DEF p
  <2>3. directory' \subseteq Profile /\ IsFiniteSet(directory')
    <3>1. CASE UNCHANGED directory
      BY <1>0, <3>1 DEF TypeOK, BoardInv
    <3>2. CASE directory' = {q \in directory : q.node # n} \cup {p}
      <4> DEFINE D == {q \in directory : q.node # n}
      <4>1. IsFiniteSet(directory) /\ D \in SUBSET directory /\ directory \subseteq Profile
        BY DEF BoardInv, TypeOK
      <4> HIDE DEF D
      <4>2. IsFiniteSet(D)
        BY <4>1, FS_Subset
      <4>3. IsFiniteSet(D \cup {p})
        BY <4>2, FS_AddElement
      <4> QED BY <2>2, <3>2, <4>1, <4>3 DEF D
    <3> QED BY <2>1, <3>1, <3>2
  <2>4. signals' \in Seq(Profile)
    <3>0. signals \in Seq(Profile) /\ SignalLimit \in Nat \ {0}
      BY BoardAssumption DEF BoardInv, TypeOK
    <3> DEFINE s == IF Len(signals) = SignalLimit THEN Tail(signals) ELSE signals
    <3>1. s \in Seq(Profile)
      <4>1. CASE Len(signals) = SignalLimit
        <5>1. signals # << >>
          BY <3>0, <4>1
        <5>2. Tail(signals) \in Seq(Profile)
          BY <3>0, <5>1, HeadTailProperties
        <5> QED BY <4>1, <5>2
      <4> QED BY <3>0, <4>1
    <3> HIDE DEF s
    <3>2. Append(s, p) \in Seq(Profile)
      BY <2>2, <3>1, AppendProperties
    <3> QED BY <2>1, <3>0, <3>2 DEF s
  <2>5. TypeOK'
    <3>1. published' \in 0 .. MaxPublish
      BY <1>0, <2>1, BoardAssumption DEF TypeOK
    <3> QED BY <1>0, <2>1, <2>3, <2>4, <3>1 DEF TypeOK
  <2>6. Shown' => Freshest'
    BY <1>0, <2>1 DEF BoardInv, Shown, Freshest, Stale, Valid
  <2> QED BY <1>0, <2>3, <2>5, <2>6 DEF BoardInv, Gathered, Early, Returned, Valid
<1> QED BY <1>1, <1>2

LEMMA CollectKeeps == ASSUME BoardInv, CollectProfiles \/ CollectSignals PROVE BoardInv'
<1>0. /\ TypeOK /\ IsFiniteSet(directory) /\ Gathered
      /\ raw \in Seq(Profile) /\ seen \subseteq Profile
  BY DEF BoardInv, TypeOK
<1>1. /\ Early /\ step' \in {"signals", "dedupe"}
      /\ (\E ps \in Seq(Profile) : Take(ps)) \/ UNCHANGED <<raw, seen>>
      /\ UNCHANGED <<clock, published, directory, signals, board, asked, trusted, stats, verifying, prefer>>
  <2>1. CASE CollectProfiles
    <3>1. SetToSeq(directory) \in Seq(Profile)
      <4>1. SetToSeq(directory) \in Seq(directory) /\ directory \subseteq Profile
        BY <1>0, SeqOfSet DEF TypeOK
      <4> HIDE DEF Profile
      <4> QED BY <4>1, SeqMonotonic
    <3> QED BY <2>1, <3>1 DEF CollectProfiles, Early, network, Choice
  <2>2. CASE CollectSignals
    <3>1. signals \in Seq(Profile)
      BY <1>0 DEF TypeOK
    <3> QED BY <2>2, <3>1 DEF CollectSignals, Early, network, Choice
  <2> QED BY <2>1, <2>2
<1>2. raw' \in Seq(Profile) /\ seen' \subseteq Profile /\ Gathered'
  <2>1. CASE \E ps \in Seq(Profile) : Take(ps)
    BY <1>0, <2>1, TakeGathers
  <2>2. CASE UNCHANGED <<raw, seen>>
    BY <1>0, <2>2 DEF Gathered, Valid
  <2> QED BY <1>1, <2>1, <2>2
<1>3. TypeOK'
  BY <1>0, <1>1, <1>2 DEF TypeOK, ReaderSteps
<1>4. board = {}
  BY <1>1 DEF BoardInv
<1> QED BY <1>0, <1>1, <1>2, <1>3, <1>4 DEF BoardInv, Early, Shown

\* The board is the freshest of what was gathered.
LEMMA DedupeKeeps == ASSUME BoardInv, DedupeLatest PROVE BoardInv'
<1>0. /\ TypeOK /\ IsFiniteSet(directory) /\ Gathered /\ clock \in Nat
      /\ raw \in Seq(Profile) /\ seen \subseteq Profile
  BY BoardAssumption DEF BoardInv, TypeOK
<1>1. /\ step' \in {"history", "mesh"} /\ board' = Kept(raw)
      /\ UNCHANGED <<clock, published, directory, signals, raw, asked, trusted, stats, verifying, prefer, seen>>
  BY DEF DedupeLatest, network, Choice
<1>2. /\ \A q \in Kept(raw) : Valid(q) /\ \E k \in DOMAIN raw : q = raw[k]
      /\ \A p, q \in Kept(raw) : p.node = q.node => p = q
      /\ \A k \in DOMAIN raw : Valid(raw[k]) /\ ~Stale(raw[k]) =>
           \E q \in Kept(raw) : q.node = raw[k].node /\ q.at >= raw[k].at
  BY <1>0, KeptHas
<1>3. board' \subseteq {p \in seen : Valid(p)}
  BY <1>1, <1>2 DEF Gathered, BoardInv
<1>4. ASSUME NEW p \in seen, Valid(p), ~Stale(p)
      PROVE  \E q \in board' : q.node = p.node /\ q.at >= p.at
  <2>1. PICK k \in DOMAIN raw : raw[k] = p
    BY <1>0, <1>4 DEF Gathered
  <2> QED BY <1>1, <1>2, <1>4, <2>1
<1>5. Freshest'
  <2>1. \A p : Valid(p)' = Valid(p) /\ Stale(p)' = Stale(p)
    BY <1>1 DEF Valid, Stale
  <2> QED BY <1>1, <1>2, <1>3, <1>4, <2>1 DEF Freshest
<1>6. TypeOK'
  BY <1>0, <1>1, <1>3 DEF TypeOK, ReaderSteps
<1> QED BY <1>0, <1>1, <1>5, <1>6 DEF BoardInv, Gathered, Early, Valid

\* The other awaits leave the board as it is.
LEMMA AwaitKeeps ==
  ASSUME BoardInv, AskNode \/ TrustKnown \/ ReadNetgraph \/ (\E p \in Profile : ReadHistory(p)) \/ Again
  PROVE  BoardInv'
<1>0. /\ TypeOK /\ IsFiniteSet(directory) /\ Gathered
      /\ IsFiniteSet(Node) /\ Cardinality(Node) \in Nat
  BY BoardAssumption, FS_CardinalityType DEF BoardInv
<1>1. CASE AskNode
  <2>1. /\ step = "served" /\ prefer /\ ~verifying /\ board = {}
        /\ step' \in {"done", "profiles"}
        /\ UNCHANGED <<clock, published, directory, signals, raw, board, asked, trusted, verifying, prefer, seen>>
    BY <1>1 DEF AskNode, network, Choice, BoardInv, Early
  <2>2. CASE step' = "profiles"
    <3>1. UNCHANGED stats
      BY <1>1, <2>2 DEF AskNode
    <3>2. TypeOK'
      BY <1>0, <2>1, <2>2, <3>1 DEF TypeOK, ReaderSteps
    <3> QED BY <1>0, <2>1, <2>2, <3>2 DEF BoardInv, Gathered, Shown, Valid
  <2>3. CASE step' = "done"
    <3>1. PICK n \in 0 .. Cardinality(Node), m \in 0 .. 1 : stats' = [from |-> "node", nodes |-> n, meshed |-> m]
      BY <1>1, <2>3 DEF AskNode
    <3>2. n \in Nat /\ m \in Nat
      BY <1>0
    <3>3. TypeOK'
      BY <1>0, <2>1, <2>3, <3>1, <3>2 DEF TypeOK, ReaderSteps
    <3>4. Returned' /\ ~Shown'
      BY <2>1, <2>3, <3>1 DEF Returned, Shown
    <3> QED BY <1>0, <2>1, <2>3, <3>3, <3>4 DEF BoardInv, Gathered, Early, Valid
  <2> QED BY <2>1, <2>2, <2>3
<1>2. CASE TrustKnown
  <2>1. /\ step = "history" /\ step' = "mesh"
        /\ UNCHANGED <<clock, published, directory, signals, raw, board, asked, trusted, stats, verifying, prefer, seen>>
    BY <1>2 DEF TrustKnown, network, Choice
  <2>2. TypeOK'
    BY <1>0, <2>1 DEF TypeOK, ReaderSteps
  <2> QED BY <1>0, <2>1, <2>2 DEF BoardInv, Gathered, Early, Shown, Freshest, Stale, Valid
<1>3. CASE ReadNetgraph
  <2>1. /\ step = "mesh" /\ step' = "done" /\ stats'.from = "reader"
        /\ stats'.nodes = Cardinality(board)
        /\ UNCHANGED <<clock, published, directory, signals, raw, board, asked, trusted, verifying, prefer, seen>>
    BY <1>3 DEF ReadNetgraph, network, Choice
  <2>2. Freshest /\ Freshest'
    BY <2>1 DEF BoardInv, Shown, Freshest, Stale, Valid
  <2>3. Cardinality(board) \in Nat
    <3>1. board \subseteq Profile /\ \A p, q \in board : p.node = q.node => p = q
      BY <1>0, <2>2 DEF TypeOK, Freshest
    <3> HIDE DEF Profile
    <3> QED BY <3>1, BoardFinite
  <2>4. stats' \in [from : {"nobody", "node", "reader"}, nodes : Nat, meshed : Nat]
    BY <1>3, <2>3 DEF ReadNetgraph
  <2>5. TypeOK'
    BY <1>0, <2>1, <2>4 DEF TypeOK, ReaderSteps
  <2>6. Returned'
    BY <2>1 DEF Returned
  <2> QED BY <1>0, <2>1, <2>2, <2>5, <2>6 DEF BoardInv, Gathered, Early, Valid
<1>4. ASSUME NEW p \in Profile, ReadHistory(p) PROVE BoardInv'
  <2>1. /\ asked' = asked \cup {p.node} /\ p.node \in Node
        /\ trusted' = trusted \/ trusted' = trusted \cup {p.node}
        /\ step = "history"
        /\ UNCHANGED <<clock, published, directory, signals, step, raw, board, stats, verifying, prefer, seen>>
    BY <1>4 DEF ReadHistory, TrustAfter, network, Choice, Profile
  <2>2. TypeOK'
    BY <1>0, <2>1 DEF TypeOK
  <2> QED BY <1>0, <2>1, <2>2 DEF BoardInv, Gathered, Early, Shown, Freshest, Stale, Valid
<1>5. CASE Again
  <2>1. /\ step' = FirstStep /\ raw' = << >> /\ board' = {} /\ asked' = {} /\ trusted' = {} /\ seen' = {}
        /\ stats' = NoStats
        /\ UNCHANGED <<clock, published, directory, signals, verifying, prefer>>
    BY <1>5 DEF Again, network, Choice
  <2>2. step' \in {"served", "profiles"} /\ (step' = "served" => prefer' /\ ~verifying')
    BY <2>1 DEF FirstStep
  <2>3. TypeOK'
    <3>1. NoStats \in [from : {"nobody", "node", "reader"}, nodes : Nat, meshed : Nat]
      BY DEF NoStats
    <3>2. << >> \in Seq(Profile)
      BY EmptySeq
    <3> QED BY <1>0, <2>1, <2>2, <3>1, <3>2 DEF TypeOK, ReaderSteps
  <2> QED BY <1>0, <2>1, <2>2, <2>3 DEF BoardInv, Gathered, Shown
<1> QED BY <1>1, <1>2, <1>3, <1>4, <1>5

\* Whatever the sources answered and however they overlapped, the board has the
\* freshest valid profile of each node that one of them showed and of no other
\* (collectProfiles and dedupeLatest, lines 152-214), and the caller gets the
\* node's figures or those of that board.
THEOREM FreshestShownHolds == Spec => []FreshestShown
<1>1. ASSUME Init PROVE BoardInv
  <2>1. /\ << >> \in Seq(Profile) /\ 0 \in 0 .. MaxClock /\ 0 \in 0 .. MaxPublish
        /\ NoStats \in [from : {"nobody", "node", "reader"}, nodes : Nat, meshed : Nat]
    BY BoardAssumption, EmptySeq DEF NoStats
  <2>2. step \in {"served", "profiles"} /\ (step = "served" => prefer /\ ~verifying)
    BY <1>1 DEF Init, FirstStep
  <2>3. TypeOK
    BY <1>1, <2>1, <2>2 DEF Init, TypeOK, ReaderSteps
  <2>4. IsFiniteSet(directory)
    BY <1>1, FS_EmptySet DEF Init
  <2> QED BY <1>1, <2>2, <2>3, <2>4 DEF Init, BoardInv, Gathered, Shown
<1>2. ASSUME BoardInv, [Next]_vars PROVE BoardInv'
  <2>1. CASE Next
    BY <1>2, <2>1, CollectKeeps, DedupeKeeps, AwaitKeeps, NetworkKeeps DEF Next, Reads
  <2>2. CASE UNCHANGED vars
    BY <1>2, <2>2 DEF vars, BoardInv, TypeOK, Gathered, Early, Shown, Freshest, Returned, Stale, Valid
  <2> QED BY <1>2, <2>1, <2>2
<1>3. BoardInv => FreshestShown
  BY DEF BoardInv, FreshestShown, Freshest, Returned
<1> QED BY <1>1, <1>2, <1>3, PTL DEF Spec
-----------------------------------------------------------------------------
(***************************************************************************)
(* FabricTotals: of three values or more the middle of all is at most the  *)
(* largest of any but one, so what that one adds is at most K times it.    *)
(***************************************************************************)
\* Sums of products.
LEMMA Products == \A a, b, c \in Nat : a * (b + c) = a * b + a * c /\ a * b \in Nat /\ a * b = b * a
OBVIOUS

\* Multiplication is monotonic, which the provers have to be told.
LEMMA TimesGrows == \A a, b, c \in Nat : a <= b => c * a <= c * b
<1> SUFFICES ASSUME NEW a \in Nat, NEW b \in Nat, NEW c \in Nat, a <= b PROVE c * a <= c * b
  OBVIOUS
<1>1. PICK d \in Nat : b = a + d
  <2>1. b - a \in Nat /\ b = a + (b - a)
    OBVIOUS
  <2> QED BY <2>1
<1>2. c * (a + d) = c * a + c * d /\ c * d \in Nat /\ c * a \in Nat
  BY Products
<1> QED BY <1>1, <1>2

\* A quotient is not more than what its divisor is a multiple of.
LEMMA DivBound ==
  \A x, q \in Nat, y \in Nat \ {0} : x < y * (q + 1) => x \div y \in Nat /\ x \div y <= q
<1> SUFFICES ASSUME NEW x \in Nat, NEW q \in Nat, NEW y \in Nat \ {0}, x < y * (q + 1)
             PROVE  x \div y \in Nat /\ x \div y <= q
  OBVIOUS
<1> DEFINE d == x \div y
<1>1. d \in Nat /\ y * d <= x
  OBVIOUS
<1> HIDE DEF d
<1>2. CASE d <= q
  BY <1>1, <1>2 DEF d
<1>3. CASE ~(d <= q)
  <2>1. q + 1 \in Nat /\ q + 1 <= d
    BY <1>1, <1>3
  <2>2. y * (q + 1) <= y * d
    BY <1>1, <2>1, TimesGrows
  <2>3. y * (q + 1) \in Nat /\ y * d \in Nat
    BY <1>1, <2>1, Products
  <2> QED BY <1>1, <2>2, <2>3
<1> QED BY <1>2, <1>3

\* Max finds the largest of finitely many numbers.
LEMMA MaxOf ==
  ASSUME NEW n \in Nat, NEW f \in [1 .. n -> Nat], NEW I \in SUBSET (1 .. n), I # {}
  PROVE  LET S == {f[i] : i \in I} IN
         Max(S) \in S /\ \A i \in I : f[i] <= Max(S)
<1> DEFINE S == {f[i] : i \in I}
<1>1. PICK m \in I : \A j \in I : f[j] <= f[m]
  BY LargestExists
<1>2. f[m] \in S /\ \A x \in S : f[m] >= x
  BY <1>1
<1>3. Max(S) \in S /\ \A x \in S : Max(S) >= x
  <2> HIDE DEF S
  <2> QED BY <1>2, Zenon DEF Max
<1>4. \A i \in I : f[i] \in S /\ f[i] \in Nat
  OBVIOUS
<1>5. Max(S) \in Nat
  <2> HIDE DEF Max
  <2> QED BY <1>3, <1>4
<1> HIDE DEF S
<1>6. \A i \in I : f[i] <= Max(S)
  BY <1>3, <1>4, <1>5
<1> QED BY <1>3, <1>6 DEF S

\* A value that r of the values do not exceed is at least the one at place r.
LEMMA SortedAtMost ==
  ASSUME NEW s \in Seq(Nat), NEW v \in ToSet(s), NEW r \in Nat,
         Cardinality({j \in DOMAIN s : s[j] <= v}) >= r
  PROVE  Sorted(s, r) \in ToSet(s) /\ Sorted(s, r) \in Nat /\ Sorted(s, r) <= v
<1> DEFINE S == {w \in ToSet(s) : Cardinality({j \in DOMAIN s : s[j] <= w}) >= r}
<1>1. ToSet(s) \subseteq Nat
  BY LenProperties, ElementOfSeq DEF ToSet
<1>2. v \in S /\ S \subseteq Nat /\ S \subseteq ToSet(s)
  BY <1>1
<1>3. Sorted(s, r) = Min(S)
  BY DEF Sorted
<1> HIDE DEF S
<1>4. Min(S) \in S /\ \A x \in S : Min(S) <= x
  BY <1>2, LeastExists
<1> QED BY <1>2, <1>3, <1>4

\* The median is a number; of three values or more it is at most the largest
\* of all but one.
LEMMA MedianBound ==
  ASSUME NEW s \in Seq(Nat), Len(s) >= 2
  PROVE  /\ TwiceMedian(s) \in Nat
         /\ (\A i \in DOMAIN s : s[i] > 0) => TwiceMedian(s) > 0
         /\ \A l \in DOMAIN s : Len(s) >= 3 =>
              TwiceMedian(s) <= 2 * Max({s[i] : i \in DOMAIN s \ {l}})
<1> DEFINE n == Len(s)
           a == n \div 2 + 1
           b == (n + 1) \div 2
<1>1. /\ n \in Nat /\ DOMAIN s = 1 .. n /\ s \in [1 .. n -> Nat] /\ n >= 2
  BY LenProperties
<1>2. /\ a \in Nat /\ b \in Nat /\ a <= n /\ b <= n
      /\ n >= 3 => a <= n - 1 /\ b <= n - 1
  <2> HIDE DEF n
  <2> QED BY <1>1
<1>3. TwiceMedian(s) = Sorted(s, a) + Sorted(s, b)
  BY DEF TwiceMedian
<1> HIDE DEF a, b, n
<1>4. ASSUME NEW I \in SUBSET (1 .. n), I # {}, NEW r \in Nat, r <= Cardinality(I)
      PROVE  /\ Sorted(s, r) \in ToSet(s) /\ Sorted(s, r) \in Nat
             /\ Sorted(s, r) <= Max({s[i] : i \in I})
  <2> DEFINE H == Max({s[i] : i \in I})
  <2>1. H \in {s[i] : i \in I} /\ \A i \in I : s[i] <= H
    BY <1>1, <1>4, MaxOf
  <2> HIDE DEF H
  <2>2. H \in ToSet(s)
    BY <1>1, <2>1 DEF ToSet
  <2> DEFINE J == {j \in DOMAIN s : s[j] <= H}
  <2>3. I \in SUBSET J /\ J \in SUBSET (1 .. n)
    BY <1>1, <2>1
  <2> HIDE DEF J
  <2>4. IsFiniteSet(1 .. n)
    BY <1>1, FS_Interval
  <2>5. IsFiniteSet(J)
    BY <2>3, <2>4, FS_Subset
  <2>6. Cardinality(I) <= Cardinality(J) /\ Cardinality(J) \in Nat /\ IsFiniteSet(I)
    BY <2>3, <2>5, FS_Subset, FS_CardinalityType
  <2>7. Cardinality(I) \in Nat
    BY <2>6, FS_CardinalityType
  <2>8. Cardinality(J) >= r
    BY <1>4, <2>6, <2>7
  <2>9. Sorted(s, r) \in ToSet(s) /\ Sorted(s, r) \in Nat /\ Sorted(s, r) <= H
    BY <2>2, <2>8, SortedAtMost DEF J
  <2> QED BY <2>9 DEF H
<1>5. IsFiniteSet(1 .. n) /\ Cardinality(1 .. n) = n /\ 1 .. n # {}
  <2>1. 1 \in Int /\ n \in Int /\ ~(1 > n) /\ n - 1 + 1 = n /\ 1 \in 1 .. n
    BY <1>1
  <2>2. IsFiniteSet(1 .. n) /\ Cardinality(1 .. n) = n
    BY <2>1, FS_Interval
  <2> QED BY <2>1, <2>2
<1>6. /\ Sorted(s, a) \in Nat /\ Sorted(s, b) \in Nat
      /\ Sorted(s, a) \in ToSet(s)
  BY <1>2, <1>4, <1>5
<1>7. ASSUME NEW l \in 1 .. n, n >= 3
      PROVE  Sorted(s, a) + Sorted(s, b) <= 2 * Max({s[i] : i \in 1 .. n \ {l}})
  <2> DEFINE I == (1 .. n) \ {l}
             H == Max({s[i] : i \in I})
  <2>1. I \in SUBSET (1 .. n) /\ I # {}
    <3>1. 1 \in 1 .. n /\ 2 \in 1 .. n /\ 1 # 2
      BY <1>1, <1>7
    <3>2. 1 \in I \/ 2 \in I
      BY <3>1
    <3> QED BY <3>2
  <2>2. Cardinality(I) = n - 1
    BY <1>5, FS_RemoveElement
  <2>3. H \in Nat
    <3>1. H \in {s[i] : i \in I}
      <4> HIDE DEF I
      <4> QED BY <1>1, <2>1, MaxOf
    <3> HIDE DEF H
    <3> QED BY <1>1, <2>1, <3>1
  <2>4. Sorted(s, a) <= H /\ Sorted(s, b) <= H
    <3> HIDE DEF I
    <3> QED BY <1>2, <1>4, <1>7, <2>1, <2>2
  <2> HIDE DEF H
  <2>5. Sorted(s, a) + Sorted(s, b) <= 2 * H
    BY <1>6, <2>3, <2>4
  <2> QED BY <2>5 DEF H
<1>8. TwiceMedian(s) \in Nat
  BY <1>3, <1>6
<1>10. ASSUME \A i \in DOMAIN s : s[i] > 0 PROVE TwiceMedian(s) > 0
  <2>1. PICK i \in DOMAIN s : Sorted(s, a) = s[i]
    BY <1>6 DEF ToSet
  <2> QED BY <1>3, <1>6, <1>10, <2>1
<1>9. ASSUME NEW l \in DOMAIN s, n >= 3
      PROVE  TwiceMedian(s) <= 2 * Max({s[i] : i \in DOMAIN s \ {l}})
  <2> HIDE DEF TwiceMedian, Max, Sorted
  <2> QED BY <1>1, <1>3, <1>7, <1>9
<1> QED BY <1>8, <1>9, <1>10 DEF n

\* g[i] is the sum of the first i values of f.
Sums(g, f, n) == \A i \in 0 .. n : g[i] = IF i = 0 THEN 0 ELSE g[i - 1] + f[i]

\* A sum over a sequence has partial sums.
LEMMA SumsExist ==
  ASSUME NEW n \in Nat, NEW f \in [1 .. n -> Nat]
  PROVE  \E g \in [0 .. n -> Nat] : Sums(g, f, n)
<1> DEFINE P(m) == m <= n => \E g \in [0 .. m -> Nat] : Sums(g, f, m)
           S == {m \in Nat : P(m)}
<1>1. P(0)
  <2> DEFINE g == [i \in 0 .. 0 |-> 0]
  <2>1. g \in [0 .. 0 -> Nat] /\ \A i \in 0 .. 0 : i = 0 /\ g[i] = 0
    OBVIOUS
  <2> HIDE DEF g
  <2> QED BY <2>1 DEF Sums
<1>2. ASSUME NEW m \in Nat, P(m) PROVE P(m + 1)
  <2> SUFFICES ASSUME m + 1 <= n PROVE \E g \in [0 .. m + 1 -> Nat] : Sums(g, f, m + 1)
    OBVIOUS
  <2>1. PICK g \in [0 .. m -> Nat] : Sums(g, f, m)
    BY <1>2
  <2> DEFINE last == g[m] + f[m + 1]
             h == [i \in 0 .. m + 1 |-> IF i = m + 1 THEN last ELSE g[i]]
  <2>2. last \in Nat
    <3>1. m \in 0 .. m /\ m + 1 \in 1 .. n
      OBVIOUS
    <3>2. g[m] \in Nat /\ f[m + 1] \in Nat
      BY <3>1
    <3> QED BY <3>2
  <2>3. h \in [0 .. m + 1 -> Nat] /\ h[m + 1] = last /\ \A i \in 0 .. m : h[i] = g[i]
    <3> HIDE DEF last
    <3> QED BY <2>2
  <2> HIDE DEF h
  <2>4. ASSUME NEW i \in 0 .. m + 1
        PROVE  h[i] = IF i = 0 THEN 0 ELSE h[i - 1] + f[i]
    <3>1. CASE i = m + 1
      <4>1. i # 0 /\ i - 1 = m /\ m \in 0 .. m
        BY <3>1
      <4> QED BY <2>3, <3>1, <4>1
    <3>2. CASE i # m + 1
      <4>1. i \in 0 .. m /\ (i # 0 => i - 1 \in 0 .. m)
        BY <3>2
      <4>2. g[i] = IF i = 0 THEN 0 ELSE g[i - 1] + f[i]
        BY <2>1, <4>1 DEF Sums
      <4> QED BY <2>3, <4>1, <4>2
    <3> QED BY <3>1, <3>2
  <2> QED BY <2>3, <2>4 DEF Sums
<1>3. \A m \in Nat : m \in S => m + 1 \in S
  <2> SUFFICES ASSUME NEW m \in Nat, m \in S PROVE m + 1 \in S
    OBVIOUS
  <2>1. P(m)
    OBVIOUS
  <2>2. P(m + 1)
    BY <1>2, <2>1
  <2> HIDE DEF P
  <2> QED BY <2>2
<1>4. 0 \in S
  <2> HIDE DEF P
  <2> QED BY <1>1
<1>5. n \in S
  <2> HIDE DEF S
  <2> QED BY <1>3, <1>4, NatSet
<1> QED BY <1>5

\* All values but one at most H, and that one at most T.
LEMMA SumBound ==
  ASSUME NEW n \in Nat, NEW f \in [1 .. n -> Nat], NEW g, Sums(g, f, n),
         NEW l \in 1 .. n, NEW H \in Nat, NEW T \in Nat,
         f[l] <= T, \A i \in 1 .. n : i # l => f[i] <= H
  PROVE  g[n] \in Nat /\ g[n] <= H * (n - 1) + T
<1> DEFINE P(m) == m <= n => /\ g[m] \in Nat
                             /\ (m < l => g[m] <= H * m)
                             /\ (m >= l => g[m] <= H * (m - 1) + T)
           S == {m \in Nat : P(m)}
<1>1. P(0)
  <2>1. 0 \in 0 .. n /\ 0 < l /\ ~(0 >= l)
    OBVIOUS
  <2>2. g[0] = 0
    BY <2>1 DEF Sums
  <2>3. H * 0 = 0
    OBVIOUS
  <2> QED BY <2>1, <2>2, <2>3
<1>2. ASSUME NEW m \in Nat, P(m) PROVE P(m + 1)
  <2> SUFFICES ASSUME m + 1 <= n
               PROVE  /\ g[m + 1] \in Nat
                      /\ (m + 1 < l => g[m + 1] <= H * (m + 1))
                      /\ (m + 1 >= l => g[m + 1] <= H * (m + 1 - 1) + T)
    OBVIOUS
  <2>0. m + 1 \in 1 .. n /\ m + 1 \in 0 .. n /\ m + 1 # 0 /\ m + 1 - 1 = m /\ m <= n
    OBVIOUS
  <2>1. g[m + 1] = g[m] + f[m + 1] /\ f[m + 1] \in Nat
    BY <2>0 DEF Sums
  <2>2. /\ g[m] \in Nat
        /\ (m < l => g[m] <= H * m)
        /\ (m >= l => g[m] <= H * (m - 1) + T)
    BY <1>2, <2>0
  <2>3. g[m + 1] \in Nat
    BY <2>1, <2>2
  <2>4. H * (m + 1) = H * m + H /\ H * m \in Nat
    <3>1. H * (m + 1) = H * m + H * 1 /\ H * m \in Nat /\ H * 1 = H
      BY Products
    <3> QED BY <3>1
  <2>5. CASE m + 1 < l
    <3>1. m < l /\ m + 1 # l /\ ~(m + 1 >= l)
      BY <2>5
    <3>2. f[m + 1] <= H
      BY <2>0, <3>1
    <3> QED BY <2>1, <2>2, <2>3, <2>4, <3>1, <3>2
  <2>6. CASE m + 1 = l
    <3>1. m < l /\ ~(m + 1 < l) /\ f[m + 1] <= T
      BY <2>6
    <3> QED BY <2>0, <2>1, <2>2, <2>3, <2>4, <3>1
  <2>7. CASE m >= l
    <3>1. m + 1 # l /\ ~(m + 1 < l) /\ m - 1 \in Nat /\ m - 1 + 1 = m
      BY <2>7
    <3>2. f[m + 1] <= H
      BY <2>0, <3>1
    <3>3. H * m = H * (m - 1) + H /\ H * (m - 1) \in Nat
      <4>1. H * (m - 1 + 1) = H * (m - 1) + H * 1 /\ H * (m - 1) \in Nat /\ H * 1 = H
        BY <3>1, Products
      <4> QED BY <3>1, <4>1
    <3> QED BY <2>0, <2>1, <2>2, <2>3, <2>4, <2>7, <3>1, <3>2, <3>3
  <2> QED BY <2>5, <2>6, <2>7
<1>3. \A m \in Nat : m \in S => m + 1 \in S
  <2> SUFFICES ASSUME NEW m \in Nat, m \in S PROVE m + 1 \in S
    OBVIOUS
  <2>1. P(m)
    OBVIOUS
  <2>2. P(m + 1)
    BY <1>2, <2>1
  <2> HIDE DEF P
  <2> QED BY <2>2
<1>4. 0 \in S
  <2> HIDE DEF P
  <2> QED BY <1>1
<1>5. n \in S
  <2> HIDE DEF S
  <2> QED BY <1>3, <1>4, NatSet
<1> QED BY <1>5

\* What robustSum adds of each value.
Capped(s) == [i \in 1 .. Len(s) |-> IF BelowCap(s, s[i]) THEN s[i] ELSE 0]

\* RobustSum is the last partial sum of the values below the cap.
LEMMA RobustIs ==
  ASSUME NEW s \in Seq(Nat)
  PROVE  /\ Capped(s) \in [1 .. Len(s) -> Nat]
         /\ \E g : Sums(g, Capped(s), Len(s)) /\ RobustSum(s) = g[Len(s)]
<1> DEFINE n == Len(s)
           c(v) == IF BelowCap(s, v) THEN v ELSE 0
           e(g, i) == IF i = 0 THEN 0 ELSE g[i - 1] + c(s[i])
           Eq(g) == g = [i \in 0 .. n |-> e(g, i)]
<1>0. n \in Nat /\ \A i \in 1 .. n : s[i] \in Nat
  BY LenProperties, ElementOfSeq
<1>1. Capped(s) \in [1 .. n -> Nat] /\ \A i \in 1 .. n : Capped(s)[i] = c(s[i])
  <2> HIDE DEF BelowCap
  <2> QED BY <1>0 DEF Capped
<1>2. PICK g0 \in [0 .. n -> Nat] : Sums(g0, Capped(s), n)
  <2> HIDE DEF n
  <2> QED BY <1>0, <1>1, SumsExist
<1> HIDE DEF c
<1>3. Eq(g0)
  <2>1. ASSUME NEW i \in 0 .. n PROVE g0[i] = e(g0, i)
    <3>1. i # 0 => i \in 1 .. n
      BY <1>0
    <3> QED BY <1>1, <1>2, <2>1, <3>1 DEF Sums
  <2>2. g0 = [i \in 0 .. n |-> g0[i]]
    BY <1>2
  <2> HIDE DEF e
  <2> QED BY <2>1, <2>2
<1> DEFINE g == CHOOSE h : Eq(h)
<1>4. Eq(g)
  <2> HIDE DEF Eq
  <2> QED BY <1>3, Zenon
<1>5. RobustSum(s) = g[n]
  BY Zenon DEF RobustSum, c
<1> HIDE DEF g
<1>6. Sums(g, Capped(s), n)
  <2>1. \A i \in 0 .. n : g[i] = e(g, i)
    <3> HIDE DEF e
    <3> QED BY <1>4, Zenon
  <2>2. \A i \in 0 .. n : i # 0 => i \in 1 .. n
    BY <1>0
  <2> QED BY <1>1, <2>1, <2>2 DEF Sums
<1> HIDE DEF Eq
<1> QED BY <1>1, <1>5, <1>6

\* Partial sums of numbers are numbers.
LEMMA SumsAreNat ==
  ASSUME NEW n \in Nat, NEW f \in [1 .. n -> Nat], NEW g, Sums(g, f, n)
  PROVE  g[n] \in Nat
<1> DEFINE P(m) == m <= n => g[m] \in Nat
           S == {m \in Nat : P(m)}
<1>1. P(0)
  BY DEF Sums
<1>2. ASSUME NEW m \in Nat, P(m) PROVE P(m + 1)
  BY <1>2 DEF Sums
<1>3. \A m \in Nat : m \in S => m + 1 \in S
  <2> SUFFICES ASSUME NEW m \in Nat, m \in S PROVE m + 1 \in S
    OBVIOUS
  <2>1. P(m)
    OBVIOUS
  <2>2. P(m + 1)
    BY <1>2, <2>1
  <2> HIDE DEF P
  <2> QED BY <2>2
<1>4. 0 \in S
  <2> HIDE DEF P
  <2> QED BY <1>1
<1>5. n \in S
  <2> HIDE DEF S
  <2> QED BY <1>3, <1>4, NatSet
<1> QED BY <1>5

LEMMA RobustNat == ASSUME NEW s \in Seq(Nat) PROVE RobustSum(s) \in Nat
<1>1. Len(s) \in Nat
  BY LenProperties
<1>2. PICK g : Sums(g, Capped(s), Len(s)) /\ RobustSum(s) = g[Len(s)]
  BY RobustIs
<1>3. Capped(s) \in [1 .. Len(s) -> Nat]
  BY RobustIs
<1> HIDE DEF RobustSum, Capped
<1> QED BY <1>1, <1>2, <1>3, SumsAreNat

\* No value of three or more positive ones adds more than ClampK times what an
\* other one is.
LEMMA NoneInflates ==
  ASSUME NEW s \in Seq(Nat), Len(s) >= 3, \A i \in DOMAIN s : s[i] > 0, NEW l \in DOMAIN s
  PROVE  RobustSum(s) <= (Len(s) - 1 + ClampK) * Max({s[i] : i \in DOMAIN s \ {l}})
<1> DEFINE n == Len(s)
           I == DOMAIN s \ {l}
           H == Max({s[i] : i \in I})
           T == ClampK * H
<1>0. n \in Nat /\ DOMAIN s = 1 .. n /\ s \in [1 .. n -> Nat] /\ ClampK \in Nat /\ l \in 1 .. n /\ n >= 3
  BY LenProperties, TotalsAssumption
<1>1. H \in Nat /\ \A i \in I : s[i] <= H
  <2>1. I \in SUBSET (1 .. n) /\ I # {}
    <3>1. DOMAIN s = 1 .. n /\ 1 \in 1 .. n /\ 2 \in 1 .. n /\ 1 # 2
      BY <1>0
    <3>2. 1 \in I \/ 2 \in I
      BY <3>1
    <3> QED BY <3>2
  <2>2. H \in {s[i] : i \in I} /\ \A i \in I : s[i] <= H
    <3> HIDE DEF I, n
    <3> QED BY <1>0, <2>1, MaxOf
  <2> HIDE DEF H
  <2>3. H \in Nat
    BY <1>0, <2>1, <2>2
  <2> QED BY <2>2, <2>3
<1>2. TwiceMedian(s) \in Nat /\ TwiceMedian(s) > 0 /\ TwiceMedian(s) <= 2 * H
  <2>1. /\ TwiceMedian(s) \in Nat
        /\ (\A i \in DOMAIN s : s[i] > 0) => TwiceMedian(s) > 0
        /\ TwiceMedian(s) <= 2 * Max({s[i] : i \in DOMAIN s \ {l}})
    <3> HIDE DEF I, H
    <3>1. Len(s) >= 2
      BY <1>0
    <3>2. /\ TwiceMedian(s) \in Nat
          /\ (\A i \in DOMAIN s : s[i] > 0) => TwiceMedian(s) > 0
          /\ \A j \in DOMAIN s : Len(s) >= 3 =>
               TwiceMedian(s) <= 2 * Max({s[i] : i \in DOMAIN s \ {j}})
      BY <3>1, MedianBound
    <3> HIDE DEF TwiceMedian, Max, n
    <3> QED BY <3>2
  <2> QED BY <2>1
<1> HIDE DEF n, I, H
<1>3. T \in Nat /\ 2 * T = ClampK * (2 * H)
  BY <1>0, <1>1
<1>4. ASSUME NEW i \in 1 .. n PROVE Capped(s)[i] <= T
  <2>1. Capped(s)[i] = IF BelowCap(s, s[i]) THEN s[i] ELSE 0
    BY DEF Capped, n
  <2>2. CASE ~BelowCap(s, s[i])
    BY <1>3, <2>1, <2>2
  <2>3. CASE BelowCap(s, s[i])
    <3>1. 2 * s[i] <= ClampK * TwiceMedian(s)
      BY <1>0, <1>2, <2>3 DEF BelowCap, n
    <3>2. ClampK * TwiceMedian(s) <= ClampK * (2 * H)
      <4>1. 2 * H \in Nat
        BY <1>1
      <4> QED BY <1>0, <1>2, <4>1, TimesGrows
    <3>3. s[i] \in Nat /\ ClampK * TwiceMedian(s) \in Nat
      BY <1>0, <1>2, Products
    <3>4. 2 * s[i] <= 2 * T
      BY <1>3, <3>1, <3>2, <3>3
    <3>5. s[i] <= T
      <4> HIDE DEF T
      <4> QED BY <1>3, <3>3, <3>4
    <3> QED BY <2>1, <2>3, <3>5
  <2> QED BY <2>2, <2>3
<1>5. ASSUME NEW i \in 1 .. n, i # l PROVE Capped(s)[i] <= H
  <2>1. Capped(s)[i] = (IF BelowCap(s, s[i]) THEN s[i] ELSE 0) /\ i \in I
    BY <1>0, <1>5 DEF Capped, n, I
  <2> QED BY <1>1, <2>1
<1>6. PICK g : Sums(g, Capped(s), n) /\ RobustSum(s) = g[n]
  BY RobustIs DEF n
<1>7. Capped(s) \in [1 .. n -> Nat]
  BY RobustIs DEF n
<1>8. RobustSum(s) <= H * (n - 1) + T
  <2> HIDE DEF T, Capped, RobustSum
  <2> QED BY <1>0, <1>1, <1>3, <1>4, <1>5, <1>6, <1>7, SumBound
<1>9. H * (n - 1) + T = (n - 1 + ClampK) * H
  <2>1. n - 1 \in Nat
    BY <1>0
  <2>2. H * (n - 1 + ClampK) = H * (n - 1) + H * ClampK /\ H * ClampK = ClampK * H
    BY <1>0, <1>1, <2>1, Products
  <2>3. H * (n - 1 + ClampK) = (n - 1 + ClampK) * H
    BY <1>0, <1>1, <2>1, Products
  <2> QED BY <2>2, <2>3
<1>10. RobustSum(s) <= (n - 1 + ClampK) * H
  BY <1>8, <1>9
<1> QED BY <1>0, <1>10 DEF n, H, I

(***************************************************************************)
(* The inductive invariant of the two loops: the first array holds what    *)
(* the profiles so far say, the plain sum is their sum, and the weighted   *)
(* one is at most Whole times it.                                          *)
(***************************************************************************)
CoresOf == [i \in 1 .. Len(profiles) |-> profiles[i].cores]
Before == IF pass = "display" THEN added ELSE Len(profiles)
TotalsTypes ==
  /\ TotalsTypeOK /\ added \in 0 .. Len(profiles)
  /\ sum \in [cores : Nat, vCores : Nat, vNodes : Nat]
  /\ values \in [display : Seq(Nat), verified : Seq(Nat)]
Displayed ==
  /\ Len(values.display) = Before
  /\ \A i \in 1 .. Before : values.display[i] = Gf(i)
  /\ pass # "display" => display = RobustSum(values.display)
Weighed(c) ==
  /\ sum.cores = c[Before]
  /\ pass = "display" => sum.vCores = 0 /\ sum.vNodes = 0
  /\ pass = "verified" => sum.vCores <= Whole * c[added] /\ sum.vNodes <= added
  /\ pass = "done" => sum.vCores <= sum.cores /\ sum.vNodes <= Len(profiles)
TotalsInv ==
  /\ TotalsTypes /\ Displayed
  /\ \E c \in [0 .. Len(profiles) -> Nat] : Sums(c, CoresOf, Len(profiles)) /\ Weighed(c)

\* The types of what the totals are computed from.
LEMMA ProfilesAre ==
  ASSUME profiles \in Fabrics
  PROVE  /\ profiles \in Seq(Reported) /\ Len(profiles) \in 0 .. MaxProfiles
         /\ CoresOf \in [1 .. Len(profiles) -> Nat]
         /\ \A i \in 1 .. Len(profiles) :
              /\ profiles[i].cores \in Nat /\ Gf(i) \in Nat /\ CoresOf[i] = profiles[i].cores
              /\ Weight(profiles[i]) \in 0 .. Whole
<1>1. PICK m \in 0 .. MaxProfiles : profiles \in [1 .. m -> Reported]
  BY DEF Fabrics, SeqOf
<1>2. m \in Nat /\ MaxProfiles \in Nat
  BY TotalsAssumption
<1> HIDE DEF Reported
<1>3. profiles \in Seq(Reported) /\ Len(profiles) = m
  BY <1>1, <1>2
<1>4. \A p \in Reported : p.cores \in Nat /\ p.gflops \in Nat /\ Weight(p) \in 0 .. Whole
  <2> SUFFICES ASSUME NEW p \in Reported
               PROVE  p.cores \in Nat /\ p.gflops \in Nat /\ Weight(p) \in 0 .. Whole
    OBVIOUS
  <2>1. p.cores \in Nat /\ p.gflops \in Nat /\ p.trust \in Nat /\ Whole \in Nat
    BY TotalsAssumption DEF Reported
  <2> QED BY <2>1 DEF Weight
<1>5. \A i \in 1 .. Len(profiles) : profiles[i] \in Reported
  BY <1>1, <1>3
<1> HIDE DEF Weight
<1> QED BY <1>2, <1>3, <1>4, <1>5 DEF CoresOf, Gf

\* The totals of one more profile, and what a robustSum returns.
LEMMA TotalsStep == ASSUME TotalsInv, TotalsNext PROVE TotalsInv'
<1> DEFINE n == Len(profiles)
<1>0. /\ TotalsTypes /\ Displayed
      /\ profiles \in Fabrics /\ n \in Nat /\ n <= MaxProfiles /\ added \in 0 .. n
      /\ display \in Nat /\ verified \in Nat
      /\ values.display \in Seq(Nat) /\ values.verified \in Seq(Nat)
      /\ sum.cores \in Nat /\ sum.vCores \in Nat /\ sum.vNodes \in Nat
  <2>1. TotalsTypes /\ Displayed /\ profiles \in Fabrics
    BY DEF TotalsInv, TotalsTypes, TotalsTypeOK
  <2>2. n \in 0 .. MaxProfiles /\ MaxProfiles \in Nat
    BY <2>1, ProfilesAre, TotalsAssumption
  <2> HIDE DEF n
  <2>3. n \in Nat /\ n <= MaxProfiles
    BY <2>2
  <2> QED BY <2>1, <2>3 DEF TotalsTypes, TotalsTypeOK, n
<1>1. PICK c \in [0 .. n -> Nat] : Sums(c, CoresOf, n) /\ Weighed(c)
  BY DEF TotalsInv
<1>2. \A i \in 1 .. n : /\ profiles[i].cores \in Nat /\ Gf(i) \in Nat
                        /\ Weight(profiles[i]) \in 0 .. Whole
  BY <1>0, ProfilesAre
<1>3. \A i \in 1 .. n : i - 1 \in 0 .. n /\ c[i] = c[i - 1] + profiles[i].cores
  <2>1. \A i \in 1 .. n : i \in 0 .. n /\ i # 0 /\ i - 1 \in 0 .. n
    BY <1>0
  <2>2. \A i \in 1 .. n : CoresOf[i] = profiles[i].cores
    BY <1>0, ProfilesAre
  <2> QED BY <1>1, <2>1, <2>2 DEF Sums
<1>4. ASSUME profiles' = profiles, TotalsTypes', Displayed', Weighed(c)' PROVE TotalsInv'
  <2>1. CoresOf' = CoresOf
    BY <1>4 DEF CoresOf
  <2> QED BY <1>1, <1>4, <2>1 DEF TotalsInv, Sums
<1> HIDE DEF n
<1>5. CASE AddDisplay
  <2> DEFINE p == profiles[added + 1]
             more == Append(values.display, p.gflops)
  <2>1. /\ pass = "display" /\ added < n /\ added' = added + 1 /\ added + 1 \in 1 .. n /\ added + 1 - 1 = added
        /\ sum' = [sum EXCEPT !.cores = @ + p.cores]
        /\ values' = [values EXCEPT !.display = more]
        /\ UNCHANGED <<profiles, pass, display, verified>>
    BY <1>0, <1>5 DEF AddDisplay, n
  <2>2. p.cores \in Nat /\ p.gflops \in Nat /\ p.gflops = Gf(added + 1)
    BY <1>2, <2>1 DEF Gf
  <2>9. c[added + 1] = c[added] + p.cores
    <3>1. added + 1 \in 1 .. n /\ added + 1 - 1 = added
      BY <2>1
    <3>2. c[added + 1] = c[added + 1 - 1] + p.cores
      BY <1>0, <1>3, <3>1
    <3> QED BY <3>1, <3>2
  <2> HIDE DEF p
  <2>3. /\ more \in Seq(Nat) /\ Len(more) = added + 1 /\ more[added + 1] = Gf(added + 1)
        /\ \A i \in 1 .. added : more[i] = Gf(i)
    <3>1. Len(values.display) = added /\ \A i \in 1 .. added : values.display[i] = Gf(i)
      BY <1>0, <2>1 DEF Displayed, Before
    <3>2. /\ more \in Seq(Nat) /\ Len(more) = Len(values.display) + 1
          /\ \A i \in 1 .. Len(values.display) : more[i] = values.display[i]
          /\ more[Len(values.display) + 1] = p.gflops
      <4>1. values.display \in Seq(Nat) /\ p.gflops \in Nat
        BY <1>0, <2>2
      <4> QED BY <4>1, AppendProperties
    <3> HIDE DEF more
    <3> QED BY <2>2, <3>1, <3>2
  <2> HIDE DEF more
  <2>4. values'.display = more /\ values'.verified = values.verified
    BY <1>0, <2>1 DEF TotalsTypes
  <2>5. /\ sum'.cores = sum.cores + p.cores /\ sum'.vCores = sum.vCores /\ sum'.vNodes = sum.vNodes
    BY <1>0, <2>1 DEF TotalsTypes
  <2>6. TotalsTypes'
    <3>1. sum' \in [cores : Nat, vCores : Nat, vNodes : Nat]
      <4> DEFINE x == p.cores
      <4>1. x \in Nat /\ sum' = [sum EXCEPT !.cores = @ + x]
        BY <2>1, <2>2
      <4>2. sum \in [cores : Nat, vCores : Nat, vNodes : Nat]
        BY <1>0 DEF TotalsTypes
      <4> HIDE DEF x
      <4> QED BY <4>1, <4>2
    <3>2. values' \in [display : Seq(Nat), verified : Seq(Nat)]
      BY <1>0, <2>1, <2>3 DEF TotalsTypes
    <3>3. added' \in 0 .. n /\ added' \in 0 .. MaxProfiles
      BY <1>0, <2>1, TotalsAssumption
    <3> QED BY <1>0, <2>1, <3>1, <3>2, <3>3 DEF TotalsTypes, TotalsTypeOK, n
  <2>7. Displayed'
    <3>1. Before' = added + 1
      BY <2>1 DEF Before
    <3>2. \A i \in 1 .. added + 1 : i = added + 1 \/ i \in 1 .. added
      BY <1>0
    <3> QED BY <2>1, <2>3, <2>4, <3>1, <3>2 DEF Displayed, Gf
  <2>8. Weighed(c)'
    <3>1. Before = added /\ Before' = added + 1
      BY <2>1 DEF Before
    <3> QED BY <1>1, <2>1, <2>5, <2>9, <3>1 DEF Weighed
  <2> QED BY <1>4, <2>1, <2>6, <2>7, <2>8
<1>6. CASE SumDisplay
  <2>1. /\ pass = "display" /\ added = n /\ pass' = "verified" /\ added' = 0
        /\ display' = RobustSum(values.display)
        /\ UNCHANGED <<profiles, sum, values, verified>>
    BY <1>6 DEF SumDisplay, n
  <2>2. display' \in Nat
    BY <1>0, <2>1, RobustNat
  <2>3. TotalsTypes'
    BY <1>0, <2>1, <2>2, TotalsAssumption DEF TotalsTypes, TotalsTypeOK, n
  <2>4. Before = n /\ Before' = n
    BY <2>1 DEF Before, n
  <2>5. Displayed'
    BY <1>0, <2>1, <2>4 DEF Displayed, Gf
  <2>6. Weighed(c)'
    <3>1. Whole * c[0] \in Nat
      <4>1. c[0] \in Nat /\ Whole \in Nat
        BY <1>0, <1>1, TotalsAssumption
      <4> QED BY <4>1, Products
    <3> QED BY <1>1, <2>1, <2>4, <3>1 DEF Weighed
  <2> QED BY <1>4, <2>1, <2>3, <2>5, <2>6
<1>7. CASE AddVerified
  <2> DEFINE p == profiles[added + 1]
             w == Weight(p)
             more == Append(values.verified, p.gflops * w)
  <2>1. /\ pass = "verified" /\ added < n /\ added' = added + 1 /\ added + 1 \in 1 .. n /\ added + 1 - 1 = added
        /\ sum' = [sum EXCEPT !.vCores = @ + p.cores * w, !.vNodes = @ + (IF w > 0 THEN 1 ELSE 0)]
        /\ values' = [values EXCEPT !.verified = more]
        /\ UNCHANGED <<profiles, pass, display, verified>>
    BY <1>0, <1>7 DEF AddVerified, n
  <2>2. p.cores \in Nat /\ p.gflops \in Nat /\ w \in Nat /\ w <= Whole /\ Whole \in Nat
    <3>1. Gf(added + 1) \in Nat /\ p.cores \in Nat /\ w \in 0 .. Whole
      BY <1>2, <2>1
    <3> HIDE DEF w
    <3> QED BY <3>1, TotalsAssumption DEF Gf
  <2>3. c[added + 1] = c[added] + p.cores /\ c[added] \in Nat
    BY <1>0, <1>1, <1>3, <2>1
  <2> HIDE DEF p, w
  <2>4. /\ p.cores * w \in Nat /\ p.gflops * w \in Nat
        /\ p.cores * w <= Whole * p.cores
        /\ Whole * c[added + 1] = Whole * c[added] + Whole * p.cores
        /\ Whole * c[added] \in Nat /\ Whole * p.cores \in Nat
    <3>1. p.cores * w <= p.cores * Whole
      BY <2>2, TimesGrows
    <3>2. p.cores * Whole = Whole * p.cores
      BY <2>2, Products
    <3>3. p.cores * w \in Nat /\ p.gflops * w \in Nat /\ Whole * c[added] \in Nat /\ Whole * p.cores \in Nat
      BY <2>2, <2>3, Products
    <3>4. Whole * (c[added] + p.cores) = Whole * c[added] + Whole * p.cores
      BY <2>2, <2>3, Products
    <3> QED BY <2>3, <3>1, <3>2, <3>3, <3>4
  <2>5. more \in Seq(Nat)
    BY <1>0, <2>4, AppendProperties
  <2> HIDE DEF more
  <2>6. values'.display = values.display
    BY <1>0, <2>1 DEF TotalsTypes
  <2>7. /\ sum'.cores = sum.cores /\ sum'.vCores = sum.vCores + p.cores * w
        /\ sum'.vNodes = sum.vNodes + (IF w > 0 THEN 1 ELSE 0)
    BY <1>0, <2>1 DEF TotalsTypes
  <2>8. TotalsTypes'
    <3>1. sum' \in [cores : Nat, vCores : Nat, vNodes : Nat]
      <4> DEFINE x == sum.vCores + p.cores * w
                 y == sum.vNodes + (IF w > 0 THEN 1 ELSE 0)
      <4>1. sum' = [sum EXCEPT !.vCores = x, !.vNodes = y]
        BY <2>1, Zenon
      <4>3. x \in Nat
        <5>1. \A a, b \in Nat : a + b \in Nat
          OBVIOUS
        <5>2. sum.vCores \in Nat /\ p.cores * w \in Nat
          BY <1>0, <2>4, Zenon
        <5> QED BY <5>1, <5>2, Zenon
      <4>4. y \in Nat
        BY <1>0
      <4>2. sum \in [cores : Nat, vCores : Nat, vNodes : Nat]
        BY <1>0 DEF TotalsTypes
      <4> HIDE DEF x, y
      <4> QED BY <4>1, <4>2, <4>3, <4>4
    <3>2. values' \in [display : Seq(Nat), verified : Seq(Nat)]
      BY <1>0, <2>1, <2>5 DEF TotalsTypes
    <3>3. added' \in 0 .. n /\ added' \in 0 .. MaxProfiles
      BY <1>0, <2>1, TotalsAssumption
    <3> QED BY <1>0, <2>1, <3>1, <3>2, <3>3 DEF TotalsTypes, TotalsTypeOK, n
  <2>9. Before = n /\ Before' = n
    BY <2>1 DEF Before, n
  <2>10. Displayed'
    BY <1>0, <2>1, <2>6, <2>9 DEF Displayed, Gf
  <2>11. Weighed(c)'
    <3>1. sum.vCores <= Whole * c[added] /\ sum.vNodes <= added
      BY <1>1, <2>1 DEF Weighed
    <3>2. sum'.vCores <= Whole * c[added + 1]
      BY <1>0, <2>4, <2>7, <3>1
    <3>3. sum'.vNodes <= added + 1
      BY <1>0, <2>7, <3>1
    <3> QED BY <1>1, <2>1, <2>7, <2>9, <3>2, <3>3 DEF Weighed
  <2> QED BY <1>4, <2>1, <2>8, <2>10, <2>11
<1>8. CASE SumVerified
  <2>1. /\ pass = "verified" /\ added = n /\ pass' = "done" /\ added' = 0
        /\ verified' = RobustSum(values.verified)
        /\ sum' = [sum EXCEPT !.vCores = Rounded(@)]
        /\ UNCHANGED <<profiles, values, display>>
    BY <1>8 DEF SumVerified, n
  <2>2. verified' \in Nat
    BY <1>0, <2>1, RobustNat
  <2>3. Before = n /\ Before' = n /\ n \in 0 .. n
    BY <1>0, <2>1 DEF Before, n
  <2>4. sum.vCores <= Whole * sum.cores /\ sum.vNodes <= n
    BY <1>1, <2>1, <2>3 DEF Weighed
  <2>5. Rounded(sum.vCores) \in Nat /\ Rounded(sum.vCores) <= sum.cores
    <3> DEFINE C == sum.cores
               x == 2 * sum.vCores + Whole
               y == 2 * Whole
    <3>1. Whole \in Nat \ {0} /\ C \in Nat
      BY <1>0, TotalsAssumption
    <3>2. x \in Nat /\ y \in Nat \ {0} /\ C \in Nat
      BY <1>0, <3>1
    <3>3. x < y * (C + 1)
      <4>1. y * (C + 1) = 2 * (Whole * C) + 2 * Whole /\ Whole * C \in Nat
        BY <3>1
      <4>2. 2 * sum.vCores <= 2 * (Whole * C)
        BY <1>0, <2>4, <4>1
      <4> DEFINE z == Whole * C
      <4>3. y * (C + 1) = 2 * z + 2 * Whole /\ 2 * sum.vCores <= 2 * z /\ z \in Nat
        BY <4>1, <4>2
      <4> HIDE DEF z
      <4>4. 2 * sum.vCores + Whole < 2 * z + 2 * Whole
        BY <1>0, <3>1, <4>3
      <4> QED BY <4>3, <4>4
    <3>4. Rounded(sum.vCores) = x \div y
      BY DEF Rounded
    <3> HIDE DEF x, y, C
    <3>5. x \div y \in Nat /\ x \div y <= C
      BY <3>2, <3>3, DivBound
    <3> QED BY <3>4, <3>5 DEF C
  <2> HIDE DEF Rounded
  <2>6. /\ sum'.cores = sum.cores /\ sum'.vCores = Rounded(sum.vCores) /\ sum'.vNodes = sum.vNodes
    BY <1>0, <2>1 DEF TotalsTypes
  <2>7. TotalsTypes'
    <3>1. sum' \in [cores : Nat, vCores : Nat, vNodes : Nat]
      BY <1>0, <2>1, <2>5 DEF TotalsTypes
    <3> QED BY <1>0, <2>1, <2>2, <3>1, TotalsAssumption DEF TotalsTypes, TotalsTypeOK, n
  <2>8. Displayed'
    BY <1>0, <2>1, <2>3 DEF Displayed, Gf
  <2>9. Weighed(c)'
    BY <1>1, <2>1, <2>3, <2>4, <2>5, <2>6 DEF Weighed, n
  <2> QED BY <1>4, <2>1, <2>7, <2>8, <2>9
<1> QED BY <1>5, <1>6, <1>7, <1>8 DEF TotalsNext

\* The headline is bounded by what the others report: for every number of
\* machines from three on, every clamp and every report of the one, and the
\* verified counts, weighted and rounded, are no more than the displayed ones
\* (robustSum and the two loops, lines 72-94, 230-276, 588-650).
THEOREM OneCannotInflateHolds == TotalsSpec => []OneCannotInflate
<1>1. ASSUME TotalsInit(Fabrics) PROVE TotalsInv
  <2>1. profiles \in Fabrics /\ Len(profiles) \in Nat
    BY <1>1, ProfilesAre, TotalsAssumption DEF TotalsInit
  <2>2. CoresOf \in [1 .. Len(profiles) -> Nat]
    BY <2>1, ProfilesAre
  <2>3. PICK c \in [0 .. Len(profiles) -> Nat] : Sums(c, CoresOf, Len(profiles))
    BY <2>1, <2>2, SumsExist
  <2>4. << >> \in Seq(Nat) /\ Len(<< >>) = 0
    BY EmptySeq
  <2>5. 0 \in 0 .. Len(profiles) /\ 0 \in 0 .. MaxProfiles
    BY <2>1, TotalsAssumption
  <2>6. TotalsTypes
    BY <1>1, <2>1, <2>4, <2>5 DEF TotalsInit, TotalsTypes, TotalsTypeOK
  <2>7. Displayed
    BY <1>1, <2>4 DEF TotalsInit, Displayed, Before
  <2>8. Weighed(c)
    <3>1. c[0] = 0
      BY <2>3, <2>5 DEF Sums
    <3> QED BY <1>1, <3>1 DEF TotalsInit, Weighed, Before
  <2> QED BY <2>3, <2>6, <2>7, <2>8 DEF TotalsInv
<1>2. ASSUME TotalsInv, [TotalsNext]_totalsVars PROVE TotalsInv'
  <2>1. CASE TotalsNext
    BY <1>2, <2>1, TotalsStep
  <2>2. CASE UNCHANGED totalsVars
    <3>1. /\ UNCHANGED <<profiles, added, pass, sum, values, display, verified>>
          /\ TotalsTypes /\ Displayed
      BY <1>2, <2>2 DEF totalsVars, TotalsInv
    <3>2. PICK c \in [0 .. Len(profiles) -> Nat] : Sums(c, CoresOf, Len(profiles)) /\ Weighed(c)
      BY <1>2 DEF TotalsInv
    <3>3. TotalsTypes' /\ Displayed' /\ CoresOf' = CoresOf
      BY <3>1 DEF TotalsTypes, TotalsTypeOK, Displayed, Before, CoresOf, Gf
    <3>4. Weighed(c)'
      BY <3>1, <3>2 DEF Weighed, Before
    <3> QED BY <3>1, <3>2, <3>3, <3>4 DEF TotalsInv, Sums
  <2> QED BY <1>2, <2>1, <2>2
<1>3. ASSUME TotalsInv PROVE OneCannotInflate
  <2>1. TotalsTypes /\ Displayed /\ TotalsTypeOK
    BY <1>3 DEF TotalsInv, TotalsTypes
  <2>2. Done => sum.vCores <= sum.cores /\ sum.vNodes <= Len(profiles)
    BY <1>3 DEF TotalsInv, Weighed, Done
  <2>3. ASSUME Done, Len(profiles) >= 3, \A j \in DOMAIN profiles : Gf(j) > 0, NEW l \in DOMAIN profiles
        PROVE  display <= (Len(profiles) - 1 + ClampK) * HonestMax(l)
    <3> DEFINE s == values.display
    <3>1. /\ s \in Seq(Nat) /\ Len(s) = Len(profiles) /\ display = RobustSum(s)
          /\ \A i \in 1 .. Len(s) : s[i] = Gf(i)
      BY <2>1, <2>3 DEF TotalsTypes, Displayed, Before, Done
    <3> HIDE DEF s
    <3>2. profiles \in Seq(Reported)
      BY <2>1, ProfilesAre DEF TotalsTypeOK
    <3>3. DOMAIN s = 1 .. Len(s) /\ DOMAIN profiles = DOMAIN s
      <4> HIDE DEF Reported
      <4> QED BY <3>1, <3>2, LenProperties
    <3>4. {s[i] : i \in DOMAIN s \ {l}} = {Gf(i) : i \in DOMAIN profiles \ {l}}
      BY <3>1, <3>3
    <3>5. RobustSum(s) <= (Len(s) - 1 + ClampK) * Max({s[i] : i \in DOMAIN s \ {l}})
      <4>1. l \in DOMAIN s /\ Len(s) >= 3 /\ \A i \in DOMAIN s : s[i] > 0
        BY <2>3, <3>1, <3>3
      <4> HIDE DEF RobustSum, Max
      <4> QED BY <3>1, <4>1, NoneInflates
    <3> HIDE DEF RobustSum, Max
    <3> QED BY <3>1, <3>4, <3>5 DEF HonestMax
  <2> QED BY <2>1, <2>2, <2>3 DEF OneCannotInflate
<1> QED BY <1>1, <1>2, <1>3, PTL DEF TotalsSpec
-----------------------------------------------------------------------------
(***************************************************************************)
(* AutoTune: a run that was too short is repeated at least twice as long,  *)
(* so that the rounds do not run out, and never much more than that, so    *)
(* that the last one is not long.                                          *)
(***************************************************************************)
\* The run has at least this many iterations when it is long enough.
Needed(t, r) == Most(t, Minimum) * r

\* The start, doubled in every round but the first, and the largest count are
\* enough for every host and target: 40 rounds from 256 or 4096 iterations
\* reach 2^47, more than any host does in 80 milliseconds (lines 107-111, 125-140).
RoundsReach ==
  \E p \in [0 .. MaxGuard -> Nat] :
    /\ p[0] = 1 /\ \A i \in 1 .. MaxGuard : p[i] = 2 * p[i - 1]
    /\ \A s \in Starts, t \in Targets, r \in Rates :
         Needed(t, r) <= s * p[MaxGuard - 1] /\ Needed(t, r) <= MaxN

TuneTypes ==
  /\ target \in Nat \ {0} /\ start \in Nat \ {0} /\ rate \in Nat \ {0}
  /\ target \in Targets /\ start \in Starts /\ rate \in Rates
  /\ iters \in Nat \ {0} /\ guard \in 0 .. MaxGuard /\ steady \in BOOLEAN
  /\ tuning \in {"warm", "scaled", "timed", "reached", "exhausted"}
\* Of the last run are the accumulator and, once the loop is left, the count.
OfOneRun ==
  /\ tuning \in {"timed", "reached"} => acc = iters
  /\ tuning = "reached" => LongEnough
\* How often the count was doubled: in every round before the present one.
Grown(p) ==
  /\ tuning = "warm" => guard = 0
  /\ tuning \in {"warm", "scaled"} =>
       guard < MaxGuard /\ (iters = MaxN \/ start * p[guard] <= iters)
  /\ tuning = "timed" => guard > 0 /\ (iters = MaxN \/ start * p[guard - 1] <= iters)
  /\ tuning # "exhausted"
Short == steady /\ tuning # "exhausted" => iters = start \/ iters < Longest * rate + 2

\* What a count that is too small becomes.
LEMMA ScaledIs ==
  ASSUME TuneTypes, ~LongEnough
  PROVE  /\ Scaled \in Nat \ {0}
         /\ Scaled = MaxN \/ 2 * iters <= Scaled
         /\ Scaled <= MaxN /\ Scaled < Longest * rate + 2
<1> DEFINE tr == target * rate
           mr == Most(target, Minimum) * rate
           beyond == (6 * tr + 4) \div 5
           x == IF 2 * iters > rate THEN Most(2 * iters, beyond) ELSE 4 * iters
<1>1. /\ target \in Nat \ {0} /\ rate \in Nat \ {0} /\ iters \in Nat \ {0}
      /\ MaxN \in Nat \ {0} /\ Minimum \in Nat /\ Most(target, Minimum) \in Nat
      /\ target <= Most(target, Minimum) /\ Minimum <= Most(target, Minimum)
  BY TuneAssumption DEF TuneTypes, Most
<1>2. /\ tr \in Nat /\ mr \in Nat /\ tr <= mr /\ rate <= tr
      /\ Minimum * rate <= mr /\ Minimum * rate \in Nat
  <2>1. /\ rate * target <= rate * Most(target, Minimum)
        /\ rate * Minimum <= rate * Most(target, Minimum)
        /\ rate * 1 <= rate * target
    BY <1>1, TimesGrows
  <2>2. /\ rate * target = tr /\ rate * Most(target, Minimum) = mr
        /\ rate * Minimum = Minimum * rate
        /\ tr \in Nat /\ mr \in Nat /\ rate * 1 = rate /\ Minimum * rate \in Nat
    <3> HIDE DEF Most
    <3> QED BY <1>1, Products
  <2> QED BY <2>1, <2>2
<1>3. iters < mr
  <2>1. ~(tr <= iters) \/ ~(Minimum * rate <= iters)
    BY <1>1, <1>2 DEF LongEnough
  <2> HIDE DEF tr, mr
  <2> QED BY <1>1, <1>2, <2>1
<1>4. Scaled = Least(MaxN, x)
  <2>1. 6 * target * rate = 6 * tr
    BY <1>1
  <2> QED BY <2>1 DEF Scaled
<1>5. Longest * rate = 2 * mr
  BY <1>1 DEF Longest
<1> HIDE DEF tr, mr
<1>6. beyond \in Nat /\ beyond < 2 * mr + 2
  <2>1. beyond \in Nat /\ 5 * beyond <= 6 * tr + 4
    BY <1>2
  <2> HIDE DEF beyond
  <2> QED BY <1>2, <2>1
<1> HIDE DEF beyond
<1>7. x \in Nat \ {0} /\ 2 * iters <= x /\ x < 2 * mr + 2
  BY <1>1, <1>2, <1>3, <1>6 DEF Most
<1> HIDE DEF x
<1>8. /\ Least(MaxN, x) \in Nat \ {0} /\ Least(MaxN, x) <= x /\ Least(MaxN, x) <= MaxN
      /\ Least(MaxN, x) = MaxN \/ Least(MaxN, x) = x
  BY <1>1, <1>7 DEF Least
<1> HIDE DEF Scaled, Longest, Least
<1>9. Least(MaxN, x) < 2 * mr + 2
  BY <1>2, <1>7, <1>8
<1> QED BY <1>4, <1>5, <1>7, <1>8, <1>9

\* What the tuner is left with after the last round is long enough.
LEMMA LongAtLast ==
  ASSUME TuneTypes, NEW n \in Nat, Needed(target, rate) <= n, n <= iters
  PROVE  LongEnough
<1>1. /\ target \in Nat /\ rate \in Nat /\ iters \in Nat /\ Minimum \in Nat
      /\ Most(target, Minimum) \in Nat
      /\ target <= Most(target, Minimum) /\ Minimum <= Most(target, Minimum)
  BY TuneAssumption DEF TuneTypes, Most
<1>2. /\ rate * target <= rate * Most(target, Minimum)
      /\ rate * Minimum <= rate * Most(target, Minimum)
  BY <1>1, TimesGrows
<1>3. /\ rate * target = target * rate /\ rate * Most(target, Minimum) = Needed(target, rate)
      /\ rate * Minimum = Minimum * rate
      /\ target * rate \in Nat /\ Minimum * rate \in Nat /\ Needed(target, rate) \in Nat
  <2> HIDE DEF Most
  <2> QED BY <1>1, Products DEF Needed
<1> HIDE DEF Needed
<1>4. target * rate <= iters /\ Minimum * rate <= iters
  BY <1>1, <1>2, <1>3
<1> QED BY <1>1, <1>3, <1>4 DEF LongEnough

\* A run that is too short is at least doubled, and so the rounds suffice.
LEMMA TuneStep ==
  ASSUME TuneTypes, OfOneRun, Short, TuneNext,
         NEW p \in [0 .. MaxGuard -> Nat], Grown(p),
         p[0] = 1, \A i \in 1 .. MaxGuard : p[i] = 2 * p[i - 1],
         \A s \in Starts, t \in Targets, r \in Rates :
           Needed(t, r) <= s * p[MaxGuard - 1] /\ Needed(t, r) <= MaxN
  PROVE  TuneTypes' /\ OfOneRun' /\ Short' /\ Grown(p)'
<1>0. /\ MaxGuard \in Nat \ {0} /\ guard \in Nat /\ Rates \subseteq Nat \ {0} /\ MaxN \in Nat \ {0}
      /\ start \in Nat /\ iters \in Nat
      /\ \A i \in 0 .. MaxGuard : p[i] \in Nat /\ start * p[i] \in Nat
  <2>1. \A i \in 0 .. MaxGuard : p[i] \in Nat
    OBVIOUS
  <2>2. start \in Nat /\ iters \in Nat /\ guard \in 0 .. MaxGuard
    BY DEF TuneTypes
  <2>3. \A i \in 0 .. MaxGuard : start * p[i] \in Nat
    BY <2>1, <2>2, Products
  <2>4. MaxGuard \in Nat \ {0} /\ Rates \subseteq Nat \ {0} /\ MaxN \in Nat \ {0}
    BY TuneAssumption
  <2>5. guard \in Nat
    BY <2>2, <2>4
  <2> QED BY <2>1, <2>2, <2>3, <2>4, <2>5
<1>1. CASE WarmsUp
  <2>1. /\ tuning = "warm" /\ tuning' = "scaled"
        /\ UNCHANGED <<target, start, iters, rate, steady, guard>>
    BY <1>1 DEF WarmsUp
  <2> QED BY <2>1 DEF TuneTypes, OfOneRun, Short, Grown, Longest, Most
<1>2. CASE TimedRun
  <2>1. /\ tuning = "scaled" /\ tuning' = "timed" /\ acc' = iters /\ guard' = guard + 1
        /\ rate' \in Rates /\ (steady => rate' = rate)
        /\ UNCHANGED <<target, start, iters, steady>>
    BY <1>2 DEF TimedRun, TuneTypes
  <2>2. guard < MaxGuard /\ (iters = MaxN \/ start * p[guard] <= iters)
    BY <2>1 DEF Grown
  <2>3. guard' \in 0 .. MaxGuard /\ guard' > 0 /\ guard' - 1 = guard
    BY <1>0, <2>1, <2>2
  <2>4. TuneTypes'
    BY <1>0, <2>1, <2>3 DEF TuneTypes
  <2>5. Grown(p)'
    BY <2>1, <2>2, <2>3 DEF Grown
  <2>6. Short'
    BY <2>1 DEF Short, Longest, Most
  <2> QED BY <2>1, <2>4, <2>5, <2>6 DEF OfOneRun
<1>3. CASE Decides
  <2>0. tuning = "timed" /\ acc = iters /\ UNCHANGED <<target, start, acc, rate, steady, guard>>
    BY <1>3 DEF Decides, OfOneRun
  <2>1. CASE LongEnough
    <3>1. tuning' = "reached" /\ UNCHANGED iters
      BY <1>3, <2>1 DEF Decides
    <3>2. LongEnough'
      BY <2>0, <2>1, <3>1 DEF LongEnough
    <3> QED BY <2>0, <3>1, <3>2 DEF TuneTypes, OfOneRun, Short, Grown, Longest, Most
  <2>2. CASE ~LongEnough
    <3>1. /\ iters' = Scaled
          /\ tuning' = IF guard = MaxGuard THEN "exhausted" ELSE "scaled"
      BY <1>3, <2>2 DEF Decides
    <3>2. /\ Scaled \in Nat \ {0}
          /\ Scaled = MaxN \/ 2 * iters <= Scaled
          /\ Scaled <= MaxN /\ Scaled < Longest * rate + 2
      BY <2>2, ScaledIs
    <3> HIDE DEF Scaled
    <3>3. guard > 0 /\ (iters = MaxN \/ start * p[guard - 1] <= iters)
      BY <2>0 DEF Grown
    <3>4. guard # MaxGuard
      <4>1. SUFFICES ASSUME guard = MaxGuard PROVE FALSE
        OBVIOUS
      <4>2. Needed(target, rate) <= start * p[MaxGuard - 1] /\ Needed(target, rate) <= MaxN
        BY DEF TuneTypes
      <4>3. MaxGuard - 1 \in 0 .. MaxGuard
        BY <1>0
      <4>4. start * p[MaxGuard - 1] \in Nat
        BY <1>0, <4>3
      <4>5. iters = MaxN \/ start * p[MaxGuard - 1] <= iters
        BY <3>3, <4>1
      <4> HIDE DEF Needed, LongEnough
      <4>6. CASE iters = MaxN
        <5>1. iters <= iters
          BY <1>0
        <5> QED BY <1>0, <2>2, <4>2, <4>6, <5>1, LongAtLast
      <4>7. CASE start * p[MaxGuard - 1] <= iters
        <5> DEFINE n == start * p[MaxGuard - 1]
        <5>1. n \in Nat /\ Needed(target, rate) <= n /\ n <= iters
          BY <4>2, <4>4, <4>7
        <5> HIDE DEF n
        <5> QED BY <2>2, <5>1, LongAtLast
      <4> QED BY <4>5, <4>6, <4>7
    <3>5. tuning' = "scaled" /\ guard < MaxGuard /\ guard \in 1 .. MaxGuard
      <4>1. guard \in 0 .. MaxGuard
        BY DEF TuneTypes
      <4> QED BY <1>0, <3>1, <3>3, <3>4, <4>1
    <3>6. iters' = MaxN \/ start * p[guard] <= iters'
      <4>1. p[guard] = 2 * p[guard - 1] /\ guard - 1 \in 0 .. MaxGuard /\ p[guard - 1] \in Nat
        <5>1. guard - 1 \in 0 .. MaxGuard /\ guard \in 1 .. MaxGuard
          BY <3>5, TuneAssumption
        <5>2. p[guard - 1] \in Nat
          BY <5>1
        <5> QED BY <5>1, <5>2
      <4>2. start * p[guard] = 2 * (start * p[guard - 1])
        BY <1>0, <4>1
      <4> DEFINE n == start * p[guard - 1]
      <4>3. n \in Nat /\ start * p[guard] = 2 * n /\ (iters = MaxN \/ n <= iters)
        BY <1>0, <3>3, <4>1, <4>2
      <4> HIDE DEF n
      <4>4. CASE iters = MaxN
        <5>1. /\ MaxN \in Nat /\ Scaled \in Nat
              /\ Scaled <= MaxN /\ (Scaled = MaxN \/ 2 * MaxN <= Scaled)
          BY <1>0, <3>2, <4>4
        <5>2. Scaled = MaxN
          BY <5>1
        <5> QED BY <3>1, <5>2
      <4>5. CASE n <= iters
        <5>1. iters \in Nat /\ n \in Nat /\ Scaled \in Nat /\ (Scaled = MaxN \/ 2 * iters <= Scaled)
          BY <1>0, <3>2, <4>3
        <5>2. Scaled = MaxN \/ 2 * n <= Scaled
          BY <4>5, <5>1
        <5> QED BY <3>1, <4>3, <5>2
      <4> QED BY <4>3, <4>4, <4>5
    <3>7. TuneTypes'
      BY <2>0, <3>1, <3>2, <3>5 DEF TuneTypes
    <3>8. Grown(p)'
      BY <2>0, <3>5, <3>6 DEF Grown
    <3>9. Short'
      BY <2>0, <3>1, <3>2 DEF Short, Longest, Most
    <3> QED BY <3>5, <3>7, <3>8, <3>9 DEF OfOneRun
  <2> QED BY <2>1, <2>2
<1> QED BY <1>1, <1>2, <1>3 DEF TuneNext

\* A tuned run is evidence for every host, target and start: its accumulator is
\* that of its count, it reached the target, and on a steady host it is not
\* overlong; and while 40 doublings are enough the rounds do not run out
\* (autoTune, lines 134-150).
THEOREM TunedRunIsEvidenceHolds == ASSUME RoundsReach PROVE TuneSpec => []TunedRunIsEvidence
<1>0. PICK p \in [0 .. MaxGuard -> Nat] :
        /\ p[0] = 1 /\ \A i \in 1 .. MaxGuard : p[i] = 2 * p[i - 1]
        /\ \A s \in Starts, t \in Targets, r \in Rates :
             Needed(t, r) <= s * p[MaxGuard - 1] /\ Needed(t, r) <= MaxN
  BY DEF RoundsReach
<1> DEFINE TuneInv == TuneTypes /\ OfOneRun /\ Short /\ Grown(p)
<1>1. ASSUME TuneInit(Targets, Starts, Rates, BOOLEAN) PROVE TuneInv
  <2>1. /\ target \in Targets /\ rate \in Rates /\ start \in Starts /\ steady \in BOOLEAN
        /\ iters = start /\ guard = 0 /\ tuning = "warm"
    BY <1>1 DEF TuneInit
  <2>2. MaxGuard \in Nat \ {0} /\ 0 \in 0 .. MaxGuard
    BY TuneAssumption
  <2>3. TuneTypes
    BY <2>1, <2>2, TuneAssumption DEF TuneTypes
  <2>4. Grown(p)
    <3>1. start * p[guard] = start
      BY <1>0, <2>1, <2>3 DEF TuneTypes
    <3>2. start <= iters
      BY <2>1, <2>3 DEF TuneTypes
    <3> QED BY <2>1, <2>2, <3>1, <3>2 DEF Grown
  <2> QED BY <2>1, <2>3, <2>4 DEF OfOneRun, Short
<1>2. ASSUME TuneInv, [TuneNext]_tuneVars PROVE TuneInv'
  <2>1. CASE TuneNext
    BY <1>0, <1>2, <2>1, TuneStep
  <2>2. CASE UNCHANGED tuneVars
    BY <1>2, <2>2 DEF tuneVars, TuneTypes, OfOneRun, Short, Grown, LongEnough, Longest, Most
  <2> QED BY <1>2, <2>1, <2>2
<1>3. TuneInv => TunedRunIsEvidence
  BY DEF OfOneRun, Short, Grown, TunedRunIsEvidence
<1> HIDE DEF TuneInv
<1> QED BY <1>1, <1>2, <1>3, PTL DEF TuneSpec
=============================================================================
