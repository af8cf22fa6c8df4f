--------------------------- MODULE ProfileAssembly ---------------------------
(***************************************************************************)
(* detectEnv and assembleProfile of src/profile.js: what the probes of a   *)
(* run reported, in any order and number, is folded with the environment   *)
(* into a profile, which validateProfile of src/types.js, written          *)
(* separately, has to accept.  A number is itself, or Negative, Infinite   *)
(* or NotFinite; rounding, the strings and the sizes of the raw evidence   *)
(* are left out.                                                           *)
(***************************************************************************)
EXTENDS Integers, Sequences, SequencesExt, FiniteSets, FiniteSetsExt

CONSTANTS
  Results,     \* what a probe can report
  MaxResults,  \* bounds the results of one run
  Hosts,       \* what there is for detectEnv to detect
  Envs,        \* what an override, or an injected detector, can give
  Networks,    \* args.network: what a network probe measured
  MaxSamples

Negative == -1
NotFinite == -2  \* not a number, or missing: it compares with nothing
Infinite == -3
Kindless == "kindless"  \* the kind of a result that is null, or whose kind is no text
None == [model |-> "none"]  \* no raw.gpu
Unnamed == ""

ASSUME AssemblyAssumption ==
  /\ MaxResults \in Nat
  /\ MaxSamples \in 0 .. 16  \* "mirrors validateProfile"
  /\ \A r \in Results : r.metric \in Int
  /\ \A e \in Envs : e.gpus \in Seq(Range(e.gpus))

\* The runs know six kinds (types.js), so no sample has to be dropped.
ASSUME KindsFit ==
  LET kinds == {r.kind : r \in Results} \ {Kindless}
  IN  IsFiniteSet(kinds) /\ Cardinality(kinds) <= MaxSamples

NodeKinds == {"Native", "Container", "Browser"}
Backends == {"Cuda", "Metal", "Rocm", "Vulkan", "WebGpu", "None"}

Finite(v) == v >= Negative
\* a > b of JavaScript.
Greater(a, b) ==
  a # NotFinite /\ b \notin {NotFinite, Infinite} /\ (a = Infinite \/ a > b)
NN(v) == IF v >= 0 THEN v ELSE 0
NonNeg(v) == v >= 0  \* of types.js

\* detectEnv: what a host lets see of itself.  A restricted runtime cannot
\* import node:os; a browser hides its disks, and more as it likes.
Detected(h) ==
  LET seen(runtimes, v) == IF h.runtime \in runtimes THEN v ELSE NotFinite
  IN  [kind |-> IF h.runtime = "browser" THEN "Browser" ELSE "Native",
       cores |-> seen({"node", "browser"}, h.cores), totalMb |-> seen({"node", "browser"}, h.memory),
       freeGb |-> seen({"browser"}, 0), gpus |-> <<>>, rtt |-> seen({"browser"}, h.rtt)]
Environments == Envs \cup {Detected(h) : h \in Hosts}

NormalizeGpu(g) ==
  [model |-> g.model, vram |-> NN(g.vram), tflops |-> NN(g.tflops),
   backend |-> IF g.backend \in Backends THEN g.backend ELSE "None"]

NormalizeEnvTrusting(e) ==  \* Slip: the kind of a foreign environment is kept.
  [kind |-> e.kind, cores |-> NN(e.cores), totalMb |-> NN(e.totalMb), freeGb |-> NN(e.freeGb),
   gpus |-> [i \in DOMAIN e.gpus |-> NormalizeGpu(e.gpus[i])], rtt |-> e.rtt]
NormalizeEnv(e) ==
  [kind |-> IF e.kind \in NodeKinds THEN e.kind ELSE "Native",
   cores |-> NN(e.cores), totalMb |-> NN(e.totalMb), freeGb |-> NN(e.freeGb),
   gpus |-> [i \in DOMAIN e.gpus |-> NormalizeGpu(e.gpus[i])], rtt |-> e.rtt]

\* pick skips what has no finite metric, and keeps the first best of the rest:
\* its index, or 0.
PlacesOf(rs, kind) == {i \in DOMAIN rs : rs[i].kind = kind}
Pickable(rs, kind) == {i \in PlacesOf(rs, kind) : Finite(rs[i].metric)}
Pick(rs, kind) ==
  IF Pickable(rs, kind) = {} THEN 0
  ELSE Min({i \in Pickable(rs, kind) :
              \A j \in Pickable(rs, kind) : ~Greater(rs[j].metric, rs[i].metric)})
Headline(rs, kind) == IF Pick(rs, kind) = 0 THEN 0 ELSE NN(rs[Pick(rs, kind)].metric)

\* storage: the raw figure, else the headline metric.
Storage(rs, field) ==
  LET disk == Pick(rs, "disk_rw")
  IN  IF disk = 0 THEN 0
      ELSE NN(IF Finite(rs[disk][field]) THEN rs[disk][field] ELSE rs[disk].metric)

MeasuredDim(v) == IF NonNeg(v) THEN {v} ELSE {}
\* The known dimensions; the axis is absent when there is none.
BuildNetwork(measured, link) ==
  [relayRtt |-> MeasuredDim(measured.relayRtt), down |-> MeasuredDim(measured.down),
   linkRtt |-> MeasuredDim(link)]

\* One step of mergeGpus: evidence goes to the first GPU of its model.
FirstOfModel(gpus, g) ==
  LET same == {i \in DOMAIN gpus : gpus[i].model # Unnamed /\ gpus[i].model = g.model}
  IN  IF same = {} THEN 0 ELSE Min(same)
Augment(gpu, g) ==
  [gpu EXCEPT !.tflops = IF @ = 0 THEN g.tflops ELSE @, !.vram = IF @ = 0 THEN g.vram ELSE @]
MergeGpuAppend(gpus, g) == Append(gpus, g)  \* Slip: evidence is never matched.
MergeGpu(gpus, g) ==
  LET match == FirstOfModel(gpus, g)
  IN  IF match = 0 THEN Append(gpus, g) ELSE [gpus EXCEPT ![match] = Augment(@, g)]
MergeGpus(envGpus, rs) ==
  FoldLeft(LAMBDA gpus, r : IF r.gpu = None THEN gpus ELSE MergeGpu(gpus, NormalizeGpu(r.gpu)),
           envGpus, rs)

\* selectSamples starts from the first result of a kind, whatever its metric,
\* and replaces it by one that is finite and greater: among the first and the
\* finite ones, it keeps the first that no finite one is greater than.
FirstSeen(rs, kind) == Min(PlacesOf(rs, kind))
ReplacingAny(rs, kind) ==  \* Slip: r.metric > cur.metric alone.
  {i \in PlacesOf(rs, kind) : rs[i].metric # NotFinite}
Replacing(rs, kind) == {i \in PlacesOf(rs, kind) : Finite(rs[i].metric)}
Sample(rs, kind) ==
  Min({i \in Replacing(rs, kind) \cup {FirstSeen(rs, kind)} :
         \A j \in Replacing(rs, kind) : ~Greater(rs[j].metric, rs[i].metric)})
\* The samples, as indices of results; the kinds in the order they first came.
SelectSamples(rs) ==
  LET kinds == {rs[i].kind : i \in DOMAIN rs} \ {Kindless}
      before(k) == {l \in kinds : FirstSeen(rs, l) < FirstSeen(rs, k)}
  IN  {Sample(rs, k) : k \in {l \in kinds : Cardinality(before(l)) < MaxSamples}}

Assembled(rs, env, measured) ==
  LET e == NormalizeEnv(env)
  IN  [kind |-> e.kind, cores |-> e.cores, totalMb |-> e.totalMb, freeGb |-> e.freeGb,
       gflops |-> Headline(rs, "cpu_flops"), memBw |-> Headline(rs, "mem_bw"),
       tokens |-> Headline(rs, "llm_tokens"),
       read |-> Storage(rs, "read"), write |-> Storage(rs, "write"),
       gpus |-> MergeGpus(e.gpus, rs), network |-> BuildNetwork(measured, e.rtt),
       samples |-> SelectSamples(rs)]

\* What validateProfile finds wrong, the identity of the node aside.
Problems(p) ==
  {f \in {"cores", "gflops", "memBw", "totalMb", "freeGb", "tokens"} : ~NonNeg(p[f])}
    \cup (IF \A i \in DOMAIN p.gpus : LET g == p.gpus[i] IN
               g.backend \in Backends /\ NonNeg(g.vram) /\ NonNeg(g.tflops)
          THEN {} ELSE {"gpus"})
    \cup (IF p.kind \in NodeKinds THEN {} ELSE {"kind"})
    \cup {f \in {"relayRtt", "down"} : \E v \in p.network[f] : ~NonNeg(v)}
    \cup (IF Cardinality(p.samples) <= 16 THEN {} ELSE {"samples"})

VARIABLES
  results,  \* what the probes of this run reported so far
  env, measured,
  outcome,  \* "running", "assembled" or "thrown"
  profile   \* the profile once it is assembled
assemblyVars == <<results, env, measured, outcome, profile>>

NoProfile == [samples |-> {}]

AssemblyInit(envs, networks) ==
  /\ results = <<>> /\ env \in envs /\ measured \in networks
  /\ outcome = "running" /\ profile = NoProfile

Report ==
  /\ outcome = "running" /\ Len(results) < MaxResults
  /\ \E r \in Results : results' = Append(results, r)
  /\ UNCHANGED <<env, measured, outcome, profile>>

Assemble ==
  /\ outcome = "running"
  /\ profile' = Assembled(results, env, measured)
  /\ outcome' = IF Problems(profile') = {} THEN "assembled" ELSE "thrown"
  /\ UNCHANGED <<results, env, measured>>

AssemblyNext == Report \/ Assemble
AssemblySpec == AssemblyInit(Environments, Networks) /\ [][AssemblyNext]_assemblyVars

-----------------------------------------------------------------------------
\* Whatever the environment and the probes were, what the coercions of
\* profile.js leave is a profile to the validation of types.js.
NeverInvalid == outcome # "thrown"

\* Every measured headline of a profile is the metric, or the raw figure, of
\* one of the samples the profile ships, although the two are chosen by
\* different functions that treat a metric that is not finite differently
\* (profile.js 204-211, 367-379).  One case is excepted: the first result of
\* the kind has no finite metric, and so is never replaced.  A result that
\* makeBenchResult built always has one.
Sampled(kind) == {i \in profile.samples : results[i].kind = kind}
StartsFinite(kind) == Finite(results[FirstSeen(results, kind)].metric)
HeadlineAudited ==
  outcome = "assembled" =>
    /\ \A f \in {<<profile.gflops, "cpu_flops">>, <<profile.memBw, "mem_bw">>,
                 <<profile.tokens, "llm_tokens">>} :
         f[1] # 0 /\ StartsFinite(f[2]) => \E i \in Sampled(f[2]) : results[i].metric = f[1]
    /\ \A f \in {<<profile.read, "read">>, <<profile.write, "write">>} :
         f[1] # 0 /\ StartsFinite("disk_rw") =>
           \E i \in Sampled("disk_rw") : f[1] \in {results[i][f[2]], results[i].metric}

\* A GPU that has a name is in the profile as often as in the environment, and
\* once when only evidence of it came, however often and in whatever order.
NamedGpuOnce ==
  outcome = "assembled" =>
    \A g \in {profile.gpus[i].model : i \in DOMAIN profile.gpus} \ {Unnamed} :
      Cardinality({i \in DOMAIN profile.gpus : profile.gpus[i].model = g})
        <= Max({1, Cardinality({i \in DOMAIN env.gpus : env.gpus[i].model = g})})
==============================================================================
