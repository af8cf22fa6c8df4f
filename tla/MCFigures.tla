----------------------------- MODULE MCFigures -----------------------------
(***************************************************************************)
(* What runs by itself: the computations over data that are at hand and    *)
(* one client call.  None reads what another has computed, so a behaviour  *)
(* runs one of them and leaves the others idle.                            *)
(***************************************************************************)
EXTENDS ProfileAssembly, FabricTotals, MeshHealth, VerifyProbe, CanonicalProfile,
        AutoTune, Plausibility, RemoteFetch, CeRequest

VARIABLE part  \* the computation of this behaviour

Parts == {"assembly", "totals", "mesh", "verify", "canonical", "tune", "judge", "fetch", "call"}
Of(p, set, idle) == IF part = p THEN set ELSE {idle}
AnyOf(S) == CHOOSE x \in S : TRUE

Init ==
  /\ part \in Parts
  /\ AssemblyInit(Of("assembly", Environments, AnyOf(Envs)), Of("assembly", Networks, AnyOf(Networks)))
  /\ TotalsInit(Of("totals", Fabrics, <<>>))
  /\ MeshInit(Of("mesh", Netgraphs, <<>>))
  /\ VerifyInit(Of("verify", Claims, AnyOf(Claims)), Of("verify", BOOLEAN, FALSE))
  /\ CanonicalInit(Of("canonical", Documents, <<"object", <<>>>>),
                   IF part = "canonical" THEN Payloads ELSE {})
  /\ TuneInit(Of("tune", Targets, AnyOf(Targets)), Of("tune", Starts, AnyOf(Starts)),
              Of("tune", Rates, AnyOf(Rates)), Of("tune", BOOLEAN, TRUE))
  /\ JudgeInit(Of("judge", Tflops \X Tokens, <<0, 0>>), Of("judge", Records, AnyOf(Records)))
  /\ FetchInit
  /\ CallInit(Of("call", Kinds, "json"))

Next ==
  \/ /\ part = "assembly" /\ AssemblyNext
     /\ UNCHANGED <<part, totalsVars, meshVars, verifyVars, canonicalVars, tuneVars, judgeVars, fetchVars, call>>
  \/ /\ part = "totals" /\ TotalsNext
     /\ UNCHANGED <<part, assemblyVars, meshVars, verifyVars, canonicalVars, tuneVars, judgeVars, fetchVars, call>>
  \/ /\ part = "mesh" /\ MeshNext
     /\ UNCHANGED <<part, assemblyVars, totalsVars, verifyVars, canonicalVars, tuneVars, judgeVars, fetchVars, call>>
  \/ /\ part = "verify" /\ VerifyNext
     /\ UNCHANGED <<part, assemblyVars, totalsVars, meshVars, canonicalVars, tuneVars, judgeVars, fetchVars, call>>
  \/ /\ part = "canonical" /\ CanonicalNext
     /\ UNCHANGED <<part, assemblyVars, totalsVars, meshVars, verifyVars, tuneVars, judgeVars, fetchVars, call>>
  \/ /\ part = "tune" /\ TuneNext
     /\ UNCHANGED <<part, assemblyVars, totalsVars, meshVars, verifyVars, canonicalVars, judgeVars, fetchVars, call>>
  \/ /\ part = "judge" /\ JudgeNext
     /\ UNCHANGED <<part, assemblyVars, totalsVars, meshVars, verifyVars, canonicalVars, tuneVars, fetchVars, call>>
  \/ /\ part = "fetch" /\ FetchNext
     /\ UNCHANGED <<part, assemblyVars, totalsVars, meshVars, verifyVars, canonicalVars, tuneVars,
                    judgeVars, call>>
  \/ /\ part = "call" /\ CallNext
     /\ UNCHANGED <<part, assemblyVars, totalsVars, meshVars, verifyVars, canonicalVars, tuneVars, judgeVars, fetchVars>>

Spec == Init /\ [][Next]_<<part, assemblyVars, totalsVars, meshVars, verifyVars,
                         canonicalVars, tuneVars, judgeVars, fetchVars, call>>

-----------------------------------------------------------------------------
(* Instances. *)

Probe(kind, metric, gpu) ==
  [kind |-> kind, metric |-> metric, read |-> NotFinite, write |-> NotFinite, gpu |-> gpu]
Gpu(model, backend, vram, tflops) ==
  [model |-> model, backend |-> backend, vram |-> vram, tflops |-> tflops]

\* Better and worse runs of a kind, with and without evidence of a GPU, and
\* what only a suite that does not use makeBenchResult can report.
SomeResults ==
  {Probe("cpu_flops", m, None) : m \in {1, 2, Negative, NotFinite, Infinite}}
    \cup {Probe("llm_tokens", 1, Gpu("A", "Cuda", Negative, 3)),
          Probe("llm_tokens", 2, None), Probe("llm_tokens", 2, Gpu("A", "Cuda", 8, 5)),
          Probe("mem_bw", 0, Gpu("", "WebGpu", 0, 1)), Probe("net_throughput", 4, None),
          Probe(Kindless, NotFinite, None)}
    \cup {[Probe("disk_rw", 2, None) EXCEPT !.read = 2, !.write = 1], Probe("disk_rw", 0, None)}

Env(kind, cores, gpus, rtt) ==
  [kind |-> kind, cores |-> cores, totalMb |-> 1, freeGb |-> NotFinite, gpus |-> gpus, rtt |-> rtt]
SomeEnvs ==
  {Env("Native", 4, <<Gpu("A", "Cuda", 8, 0)>>, NotFinite),
   Env("Native", 4, <<Gpu("A", "Cuda", 8, 2), Gpu("A", "Cuda", 8, 0)>>, NotFinite),
   Env("Browser", NotFinite, <<>>, 50),
   Env("Phone", Negative, <<Gpu("B", "Sycl", NotFinite, Negative)>>, Negative)}
Host(runtime, memory, rtt) == [runtime |-> runtime, cores |-> 2, memory |-> memory, rtt |-> rtt]
SomeHosts ==
  {Host("node", 4, NotFinite), Host("restricted", 4, NotFinite), Host("browser", NotFinite, 10)}
SomeNetworks == {[relayRtt |-> r, down |-> d] : r \in {NotFinite, 20}, d \in {Negative, 0}}

\* Rows between any two nodes, together at 22.5 ms by their samples and at 35 ms
\* if samples did not count; one from the other end, and rows that are skipped.
Row(from, to, rtt, samples) == [from |-> from, to |-> to, rtt |-> rtt, samples |-> samples]
SomeRows ==
  {Row(e[1], e[2], t[1], t[2]) : t \in {<<10, 3>>, <<60, Absent>>},
     e \in {<<Absent, 1>>, <<Absent, 2>>, <<Absent, 3>>, <<1, 2>>, <<1, 3>>, <<2, 3>>}}
    \cup {Row(2, 1, 60, 0), Row(1, 1, 10, 1), Row(1, 2, Negative, 1), Row(1, Absent, 10, 1)}

\* A false claim is below, at or above what a machine shows, or negative.
SomeLevels == {-4, 0, 1, 4, 8}

\* Objects of up to two members, set in either order, signed or not, over every
\* kind of value and nested objects that differ in order or in a signature.
Obj(members) == <<"object", members>>
One == <<"number", 1>>
Null0 == <<"null", 0>>
SomeValues ==
  {One, Null0, <<"number", 2>>, <<"notFinite", 0>>, <<"undefined", 0>>,
   <<"array", <<One, Null0>>>>, <<"array", <<<<"undefined", 0>>>>>>, <<"array", <<>>>>, Obj(<<>>),
   Obj(<<<<1, One>>, <<2, Null0>>>>), Obj(<<<<2, Null0>>, <<1, One>>>>), Obj(<<<<1, One>>>>)}
SomeDocuments ==
  {Obj(<<>>)} \cup {Obj(<<<<key, v>>>>) : key \in 1 .. 3, v \in SomeValues}
    \cup {Obj(<<<<keys[1], v>>, <<keys[2], w>>>>) :
            keys \in {<<1, 3>>, <<3, 1>>, <<2, 3>>}, v \in SomeValues, w \in SomeValues}
SomeNested == SomeDocuments \cup SomeValues
RECURSIVE Nesting(_)
SomeDepths == [v \in SomeNested |-> Nesting(v)]
Nesting(v) == IF Contents(v) = {} THEN 0 ELSE 1 + Max({Nesting(w) : w \in Contents(v)})
\* Sizes as the responder reads them, and the ends of a byte.
SomePayloads == {<<0, 0, 16, 0>>, <<255, 15, 1>>, <<>>}
=============================================================================
