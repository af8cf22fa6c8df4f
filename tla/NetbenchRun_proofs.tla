-------------------------- MODULE NetbenchRun_proofs --------------------------
(***************************************************************************)
(* Proofs about NetbenchRun, for any peers, options, atlas and cells: the  *)
(* report is whole, and the own responder runs for this node's cells only. *)
(* The induction is over the sections in their order: those before the     *)
(* present one are whole, those after it empty, and the present one has    *)
(* the targets up to the one it is at.  At the end, the tally of the       *)
(* responder itself (EchoResponder).                                       *)
(***************************************************************************)
EXTENDS NetbenchRun, EchoResponder, FiniteSums_proofs, SequenceTheorems

(***************************************************************************)
(* What a filter leaves: members of the sequence that are not filtered.    *)
(***************************************************************************)
KeptStep(out, x, T) == IF x \in T THEN out ELSE Append(out, x)
Keeps(g, s, T, n) ==
  \A i \in 0 .. n : g[i] = IF i = 0 THEN << >> ELSE KeptStep(g[i - 1], s[i], T)

\* Keeping or leaving out one more member adds nothing that is filtered.
LEMMA KeptStays ==
  ASSUME NEW S, NEW s \in Seq(S), NEW T, NEW out \in Seq(S \ T), NEW i \in 1 .. Len(s)
  PROVE  KeptStep(out, s[i], T) \in Seq(S \ T)
<1>1. s[i] \in S
  BY ElementOfSeq
<1>2. CASE s[i] \in T
  BY <1>2 DEF KeptStep
<1>3. CASE s[i] \notin T
  <2>1. s[i] \in S \ T
    BY <1>1, <1>3
  <2>2. Append(out, s[i]) \in Seq(S \ T)
    BY <2>1, AppendProperties
  <2> QED BY <1>3, <2>2 DEF KeptStep
<1> QED BY <1>2, <1>3

\* The prefixes of the filtered sequence, one for each prefix of the sequence.
LEMMA KeptExists ==
  ASSUME NEW S, NEW s \in Seq(S), NEW T
  PROVE  \E g \in [0 .. Len(s) -> Seq(S \ T)] : Keeps(g, s, T, Len(s))
<1> DEFINE V == Seq(S \ T)
           P(n) == n <= Len(s) => \E g \in [0 .. n -> V] : Keeps(g, s, T, n)
           N == {n \in Nat : P(n)}
<1>0. Len(s) \in Nat
  BY LenProperties
<1>1. P(0)
  <2> DEFINE g == [i \in 0 .. 0 |-> << >>]
  <2>1. << >> \in V
    BY EmptySeq
  <2>2. g \in [0 .. 0 -> V] /\ \A i \in 0 .. 0 : i = 0 /\ g[i] = << >>
    BY <2>1
  <2> HIDE DEF g, V
  <2> QED BY <2>2 DEF Keeps
<1>2. ASSUME NEW n \in Nat, P(n) PROVE P(n + 1)
  <2> SUFFICES ASSUME n + 1 <= Len(s)
               PROVE  \E g \in [0 .. n + 1 -> V] : Keeps(g, s, T, n + 1)
    OBVIOUS
  <2>1. n <= Len(s)
    BY <1>0
  <2>2. PICK g \in [0 .. n -> V] : Keeps(g, s, T, n)
    BY <1>2, <2>1
  <2> DEFINE last == KeptStep(g[n], s[n + 1], T)
             h == [i \in 0 .. n + 1 |-> IF i = n + 1 THEN last ELSE g[i]]
  <2>3. last \in V
    <3>1. n + 1 \in 1 .. Len(s) /\ g[n] \in Seq(S \ T)
      BY <1>0
    <3> QED BY <3>1, KeptStays
  <2>4. h \in [0 .. n + 1 -> V]
    <3> HIDE DEF last, V
    <3> QED BY <2>3
  <2>5. /\ h[n + 1] = last
        /\ \A i \in 0 .. n : h[i] = g[i]
    <3> HIDE DEF last, V
    <3> QED OBVIOUS
  <2> HIDE DEF h, V
  <2>6. ASSUME NEW i \in 0 .. n + 1
        PROVE  h[i] = IF i = 0 THEN << >> ELSE KeptStep(h[i - 1], s[i], T)
    <3>1. CASE i = n + 1
      <4>1. i # 0 /\ i - 1 = n /\ n \in 0 .. n
        BY <3>1
      <4> QED BY <2>5, <3>1, <4>1
    <3>2. CASE i # n + 1
      <4>1. i \in 0 .. n /\ (i # 0 => i - 1 \in 0 .. n)
        BY <3>2
      <4>2. g[i] = IF i = 0 THEN << >> ELSE KeptStep(g[i - 1], s[i], T)
        BY <2>2, <4>1 DEF Keeps
      <4> HIDE DEF last
      <4> QED BY <2>5, <4>1, <4>2
    <3> QED BY <3>1, <3>2
  <2> QED BY <2>4, <2>6 DEF Keeps
<1>3. \A n \in Nat : n \in N => n + 1 \in N
  <2> SUFFICES ASSUME NEW n \in Nat, n \in N PROVE n + 1 \in N
    OBVIOUS
  <2>1. P(n)
    OBVIOUS
  <2>2. P(n + 1)
    BY <1>2, <2>1
  <2> HIDE DEF P
  <2> QED BY <2>2
<1>4. 0 \in N
  <2> HIDE DEF P
  <2> QED BY <1>1
<1>5. Len(s) \in N
  <2> HIDE DEF N
  <2> QED BY <1>0, <1>3, <1>4, NatSet
<1> QED BY <1>5

\* Every such function ends with a sequence of members that are not filtered.
LEMMA KeptIn ==
  ASSUME NEW S, NEW s \in Seq(S), NEW T, NEW g, Keeps(g, s, T, Len(s))
  PROVE  g[Len(s)] \in Seq(S \ T)
<1> DEFINE P(n) == n <= Len(s) => g[n] \in Seq(S \ T)
           N == {n \in Nat : P(n)}
<1>0. Len(s) \in Nat
  BY LenProperties
<1>1. P(0)
  <2>1. 0 \in 0 .. Len(s)
    BY <1>0
  <2>2. g[0] = << >>
    BY <2>1 DEF Keeps
  <2> QED BY <2>2, EmptySeq
<1>2. ASSUME NEW n \in Nat, P(n) PROVE P(n + 1)
  <2> SUFFICES ASSUME n + 1 <= Len(s) PROVE g[n + 1] \in Seq(S \ T)
    OBVIOUS
  <2>1. n + 1 \in 1 .. Len(s) /\ n + 1 \in 0 .. Len(s) /\ n <= Len(s) /\ n + 1 # 0 /\ n + 1 - 1 = n
    BY <1>0
  <2>2. g[n] \in Seq(S \ T)
    BY <1>2, <2>1
  <2>3. g[n + 1] = KeptStep(g[n], s[n + 1], T)
    BY <2>1 DEF Keeps
  <2>4. KeptStep(g[n], s[n + 1], T) \in Seq(S \ T)
    BY <2>1, <2>2, KeptStays
  <2> QED BY <2>3, <2>4
<1>3. \A n \in Nat : n \in N => n + 1 \in N
  <2> SUFFICES ASSUME NEW n \in Nat, n \in N PROVE n + 1 \in N
    OBVIOUS
  <2>1. P(n)
    OBVIOUS
  <2>2. P(n + 1)
    BY <1>2, <2>1
  <2> HIDE DEF P
  <2> QED BY <2>2
<1>4. 0 \in N
  <2> HIDE DEF P
  <2> QED BY <1>1
<1>5. Len(s) \in N
  <2> HIDE DEF N
  <2> QED BY <1>0, <1>3, <1>4, NatSet
<1> QED BY <1>5

\* What Without returns holds none of T.
LEMMA WithoutIn ==
  ASSUME NEW S, NEW s \in Seq(S), NEW T
  PROVE  Without(s, T) \in Seq(S \ T)
<1> DEFINE e(g, i) == IF i = 0 THEN << >> ELSE KeptStep(g[i - 1], s[i], T)
           Eq(g) == g = [i \in 0 .. Len(s) |-> e(g, i)]
<1>1. PICK g0 \in [0 .. Len(s) -> Seq(S \ T)] : Keeps(g0, s, T, Len(s))
  BY KeptExists
<1>2. Eq(g0)
  <2>1. \A i \in 0 .. Len(s) : g0[i] = e(g0, i)
    BY <1>1 DEF Keeps
  <2>2. g0 = [i \in 0 .. Len(s) |-> g0[i]]
    BY <1>1
  <2> HIDE DEF e
  <2> QED BY <2>1, <2>2
<1> DEFINE g == CHOOSE h : Eq(h)
<1>3. Eq(g)
  <2> HIDE DEF Eq
  <2> QED BY <1>2, Zenon
<1>4. Without(s, T) = g[Len(s)]
  BY Zenon DEF Without, KeptStep
<1> HIDE DEF g
<1>5. Keeps(g, s, T, Len(s))
  <2>1. \A i \in 0 .. Len(s) : g[i] = e(g, i)
    <3> HIDE DEF e
    <3> QED BY <1>3, Zenon
  <2> QED BY <2>1 DEF Keeps
<1> HIDE DEF Eq
<1> QED BY <1>4, <1>5, KeptIn

(***************************************************************************)
(* The order of the sections.                                              *)
(***************************************************************************)
Sections == {"status", "peers", "ping", "self", "rpc", "send", "put", "get",
             "object", "remote", "conc", "pubsub", "render", "done"}
Rank(s) ==
  IF s = "status" THEN 1 ELSE IF s = "peers" THEN 2 ELSE IF s = "ping" THEN 3
  ELSE IF s = "self" THEN 4 ELSE IF s = "rpc" THEN 5 ELSE IF s = "send" THEN 6
  ELSE IF s = "put" THEN 7 ELSE IF s = "get" THEN 8 ELSE IF s = "object" THEN 9
  ELSE IF s = "remote" THEN 10 ELSE IF s = "conc" THEN 11
  ELSE IF s = "pubsub" THEN 12 ELSE IF s = "render" THEN 13 ELSE 14

\* Rank and Order are inverse to each other.
LEMMA OrderRank ==
  /\ DOMAIN Order = 1 .. 14
  /\ \A j \in 1 .. 14 : Order[j] \in Sections /\ Rank(Order[j]) = j
  /\ \A s \in Sections : Rank(s) \in 1 .. 14 /\ Order[Rank(s)] = s
<1>1. DOMAIN Order = 1 .. 14
  BY DEF Order
<1>2. /\ Order[1] = "status" /\ Order[2] = "peers" /\ Order[3] = "ping"
      /\ Order[4] = "self" /\ Order[5] = "rpc" /\ Order[6] = "send"
      /\ Order[7] = "put" /\ Order[8] = "get" /\ Order[9] = "object"
      /\ Order[10] = "remote" /\ Order[11] = "conc" /\ Order[12] = "pubsub"
      /\ Order[13] = "render" /\ Order[14] = "done"
  BY DEF Order
<1>3. \A s \in Sections : Rank(s) \in 1 .. 14 /\ Order[Rank(s)] = s
  BY <1>2 DEF Sections, Rank
<1>4. \A j \in 1 .. 14 : Order[j] \in Sections /\ Rank(Order[j]) = j
  BY <1>2 DEF Sections, Rank
<1> QED BY <1>1, <1>3, <1>4

\* The section after one is the next of the order.
LEMMA AfterIs ==
  ASSUME NEW s \in Sections, s # "done"
  PROVE  After(s) \in Sections /\ Rank(After(s)) = Rank(s) + 1
<1> DEFINE j == CHOOSE i \in DOMAIN Order : i > 1 /\ Order[i - 1] = s
<1>1. Rank(s) + 1 \in 2 .. 14
  BY DEF Rank, Sections
<1>2. \E i \in DOMAIN Order : i > 1 /\ Order[i - 1] = s
  <2>1. Rank(s) \in 1 .. 14 /\ Rank(s) + 1 - 1 = Rank(s)
    BY OrderRank
  <2> QED BY <1>1, <2>1, OrderRank
<1>3. j \in DOMAIN Order /\ j > 1 /\ Order[j - 1] = s
  BY <1>2, Zenon
<1>4. After(s) = Order[j]
  BY Zenon DEF After
<1> HIDE DEF j
<1>5. j \in 1 .. 14 /\ j - 1 \in 1 .. 14
  BY <1>3, OrderRank
<1>6. Rank(s) = j - 1
  BY <1>3, <1>5, OrderRank
<1> QED BY <1>4, <1>5, <1>6, OrderRank

\* The measured sections are between the ping and the optional pubsub probe.
LEMMA MeasuredRanks ==
  /\ \A s \in Measured : s \in Sections /\ Rank(s) \in 4 .. 11
  /\ \A s, r \in Sections : Rank(s) = Rank(r) => s = r
  /\ Rank("status") = 1 /\ Rank("peers") = 2 /\ Rank("self") = 4
  /\ Rank("rpc") = 5 /\ Rank("remote") = 10 /\ Rank("conc") = 11 /\ Rank("done") = 14
<1>1. \A s \in Measured : s \in Sections /\ Rank(s) \in 4 .. 11
  BY DEF Measured, Sections, Rank
<1>2. \A s, r \in Sections : Rank(s) = Rank(r) => s = r
  BY OrderRank
<1>3. /\ Rank("status") = 1 /\ Rank("peers") = 2 /\ Rank("self") = 4
      /\ Rank("rpc") = 5 /\ Rank("remote") = 10 /\ Rank("conc") = 11 /\ Rank("done") = 14
  BY DEF Rank
<1> QED BY <1>1, <1>2, <1>3

(***************************************************************************)
(* The inductive invariant.                                                *)
(***************************************************************************)
Types ==
  /\ TypeOK
  /\ at \in Sections \cup {"exited", "aborted"}
  /\ k \in Nat \ {0} /\ options \in Seq(Peer)
  /\ echo \subseteq seen /\ seen \subseteq Peer
  /\ stage = "probe" => cells = 0
  /\ at \in Measured => k <= Len(Targets) + 1 /\ cells <= CellsOf(at)
  /\ at \in Measured /\ stage = "sweep" => k <= Len(Targets)

\* The responder is on for this node only, and it is stopped behind the check or
\* behind the last cell of the sweep.
OwnResponder ==
  /\ inline # "off" => at \in {"self", "conc"} /\ k <= Len(Targets) /\ Target = Self
  /\ inline = "stopping" => IF stage = "probe" THEN at = "self" ELSE cells = CellsOf(at)

\* The targets of any section, as they are now.
TargetsOf(sec) ==
  IF sec \in {"rpc", "send", "remote"} THEN peers
  ELSE IF sec = "conc" THEN ConcTargets ELSE <<Self>>

Entry(s, t) == report[s][t] \in {Skip, CellsOf(s)}
Whole(s) ==
  /\ DOMAIN report[s] = Range(TargetsOf(s))
  /\ \A t \in DOMAIN report[s] : Entry(s, t)
\* t is being swept: its entry has the cells so far.
Sweeping(t) == stage = "sweep" /\ cells > 0 /\ t = Target
Begun(s) ==
  /\ \A t : t \in DOMAIN report[s] <=> ((\E j \in 1 .. k - 1 : t = Targets[j]) \/ Sweeping(t))
  /\ \A t \in DOMAIN report[s] : IF Sweeping(t) THEN report[s][t] = cells ELSE Entry(s, t)
SoFar ==
  at \in Sections =>
    \A s \in Measured :
      /\ Rank(s) < Rank(at) => Whole(s)
      /\ Rank(s) > Rank(at) => report[s] = Nothing
      /\ s = at => Begun(s)

\* A peer that is swept for its echo ran ce-echo.
Ran ==
  /\ SkippedNotFailed
  /\ stage = "sweep" /\ at \in {"rpc", "remote"} => Target \in seen

RInv == Types /\ OwnResponder /\ SoFar /\ Ran

\* The targets by section.
LEMMA TargetsAre ==
  /\ Targets = TargetsOf(at)
  /\ TargetsOf("rpc") = peers /\ TargetsOf("remote") = peers /\ TargetsOf("conc") = ConcTargets
  /\ at = "self" => Targets = <<Self>>
<1>1. Targets = TargetsOf(at)
  <2>1. CASE at \in {"rpc", "send", "remote"}
    BY <2>1, Zenon DEF Targets, TargetsOf
  <2>2. CASE at = "conc"
    <3>1. at \notin {"rpc", "send", "remote"}
      BY <2>2
    <3> QED BY <2>2, <3>1, Zenon DEF Targets, TargetsOf
  <2>3. CASE at \notin {"rpc", "send", "remote"} /\ at # "conc"
    BY <2>3, Zenon DEF Targets, TargetsOf
  <2> QED BY <2>1, <2>2, <2>3
<1>2. TargetsOf("rpc") = peers /\ TargetsOf("remote") = peers /\ TargetsOf("conc") = ConcTargets
  BY DEF TargetsOf
<1>3. at = "self" => Targets = <<Self>>
  BY <1>1 DEF TargetsOf
<1> QED BY <1>1, <1>2, <1>3

\* TargetsAre in the next state.
LEMMA TargetsAreNext == (Targets = TargetsOf(at))'
<1>1. Targets = TargetsOf(at)
  BY TargetsAre
<1> QED BY <1>1, PTL

\* Who is measured under load: this node, and peers that rpc did not skip.
LEMMA ConcMembers ==
  ASSUME peers \in Seq(Peer)
  PROVE  /\ ConcTargets \in Seq(Peer \cup {Self})
         /\ \A j \in DOMAIN ConcTargets :
              LET p == ConcTargets[j]
              IN  p = Self \/ (p \in Range(peers) /\ ~Skipped("rpc", p))
<1> DEFINE skipped == {p \in Peer : Skipped("rpc", p)}
           own == IF selfOk THEN <<Self>> ELSE << >>
           rest == Without(peers, skipped)
<1>1. peers \in Seq(Peer) /\ peers \in Seq(Range(peers)) /\ Range(peers) \subseteq Peer
  <2>1. \A j \in DOMAIN peers : peers[j] \in Peer
    BY ElementOfSeq
  <2> QED BY <2>1 DEF Range
<1>2. rest \in Seq(Range(peers) \ skipped)
  <2> HIDE DEF skipped
  <2>1. PICK ps, S, T : ps = peers /\ S = Range(peers) /\ T = skipped
    OBVIOUS
  <2>2. Without(ps, T) \in Seq(S \ T)
    BY <1>1, <2>1, WithoutIn
  <2> QED BY <2>1, <2>2
<1> DEFINE M == {Self} \cup (Range(peers) \ skipped)
<1>3. own \in Seq(M)
  <2>1. Self \in M
    OBVIOUS
  <2> HIDE DEF M
  <2>2. <<Self>> \in Seq(M)
    BY <2>1
  <2> QED BY <2>2
<1>4. ConcTargets = own \o rest
  BY DEF ConcTargets
<1>5. rest \in Seq(M)
  <2> HIDE DEF skipped, rest
  <2> QED BY <1>2
<1>6. ConcTargets \in Seq(M)
  <2> HIDE DEF M, own, rest
  <2> QED BY <1>3, <1>4, <1>5, ConcatProperties
<1>7. \A j \in DOMAIN ConcTargets : ConcTargets[j] \in M
  <2> HIDE DEF M
  <2> QED BY <1>6, ElementOfSeq
<1>8. M \subseteq Peer \cup {Self}
  BY <1>1
<1>9. ConcTargets \in Seq(Peer \cup {Self})
  <2> HIDE DEF M
  <2> QED BY <1>6, <1>8
<1>10. ASSUME NEW j \in DOMAIN ConcTargets
       PROVE  LET p == ConcTargets[j]
              IN  p = Self \/ (p \in Range(peers) /\ ~Skipped("rpc", p))
  <2>1. PICK p : p = ConcTargets[j]
    OBVIOUS
  <2>2. p = Self \/ (p \in Range(peers) /\ ~Skipped("rpc", p))
    BY <1>1, <1>7, <2>1
  <2> QED BY <2>1, <2>2
<1> QED BY <1>9, <1>10

\* Every section has a sequence of nodes to measure, this node alone included.
LEMMA TargetsType ==
  peers \in Seq(Peer) =>
    \A s : /\ TargetsOf(s) \in Seq(Peer \cup {Self})
           /\ Len(TargetsOf(s)) \in Nat /\ DOMAIN TargetsOf(s) = 1 .. Len(TargetsOf(s))
<1> SUFFICES ASSUME peers \in Seq(Peer), NEW s PROVE TargetsOf(s) \in Seq(Peer \cup {Self})
  BY LenProperties
<1>1. peers \in Seq(Peer \cup {Self})
  OBVIOUS
<1>2. <<Self>> \in Seq(Peer \cup {Self})
  OBVIOUS
<1> QED BY <1>1, <1>2, ConcMembers DEF TargetsOf

LEMMA TargetsTypeNext ==
  peers' \in Seq(Peer) =>
    \A s : /\ TargetsOf(s)' \in Seq(Peer \cup {Self})
           /\ Len(TargetsOf(s)') \in Nat /\ DOMAIN TargetsOf(s)' = 1 .. Len(TargetsOf(s)')
<1>1. (peers \in Seq(Peer) =>
        \A s : /\ TargetsOf(s) \in Seq(Peer \cup {Self})
               /\ Len(TargetsOf(s)) \in Nat /\ DOMAIN TargetsOf(s) = 1 .. Len(TargetsOf(s)))'
  BY TargetsType, PTL
<1> QED BY <1>1

\* The targets of the sections up to the present one stay: who is measured under
\* load depends on selfOk and on the rpc section, which are fixed by then.
Stay == /\ peers' = peers
        /\ Rank(at) > 10 => selfOk' = selfOk /\ report'["rpc"] = report["rpc"]

\* What earlier sections found, and so whom they measured, no longer changes.
LEMMA TargetsStay ==
  ASSUME Stay, at \in Sections
  PROVE  \A s \in Measured : Rank(s) <= Rank(at) => TargetsOf(s)' = TargetsOf(s)
<1> SUFFICES ASSUME NEW s \in Measured, Rank(s) <= Rank(at) PROVE TargetsOf(s)' = TargetsOf(s)
  OBVIOUS
<1>1. CASE s = "conc"
  <2>1. Rank(at) > 10
    BY <1>1, OrderRank, MeasuredRanks
  <2>2. selfOk' = selfOk /\ peers' = peers /\ report'["rpc"] = report["rpc"]
    BY <2>1 DEF Stay
  <2>3. ConcTargets' = ConcTargets
    BY <2>2 DEF ConcTargets, Skipped
  <2> QED BY <1>1, <2>3 DEF TargetsOf
<1>2. CASE s # "conc"
  BY <1>2 DEF TargetsOf, Stay
<1> QED BY <1>1, <1>2

\* The targets of the present section, if it is a measured one.
LEMMA NowStays ==
  ASSUME Stay, at \in Measured, at' = at
  PROVE  Targets' = Targets
<1>1. at \in Sections /\ Rank(at) <= Rank(at)
  BY MeasuredRanks
<1>2. TargetsOf(at)' = TargetsOf(at)
  <2>1. PICK s \in Measured : s = at
    OBVIOUS
  <2>2. TargetsOf(s)' = TargetsOf(s)
    BY <1>1, <2>1, TargetsStay
  <2> QED BY <2>1, <2>2
<1> QED BY <1>2, TargetsAre, TargetsAreNext

\* While a section runs, it is at one of its targets and has so many cells to fill.
LEMMA RunningFacts ==
  ASSUME Types, Running
  PROVE  /\ at \in Measured /\ at \in Sections /\ Rank(at) \in 4 .. 11
         /\ k \in 1 .. Len(Targets) /\ Len(Targets) \in Nat /\ DOMAIN Targets = 1 .. Len(Targets)
         /\ Target = Targets[k] /\ Target \in Peer \cup {Self}
         /\ Cells \in Nat \ {0} /\ CellsOf(at) \in 1 .. 2 * Cells
         /\ DOMAIN report = Measured
<1>1. at \in Measured /\ k <= Len(Targets) /\ k \in Nat \ {0} /\ peers \in Seq(Peer)
      /\ DOMAIN report = Measured
  BY DEF Running, Types, TypeOK
<1>2. Len(Targets) \in Nat /\ DOMAIN Targets = 1 .. Len(Targets) /\ Targets \in Seq(Peer \cup {Self})
  BY <1>1, TargetsType, TargetsAre
<1>3. Target = Targets[k]
  BY DEF Target
<1>4. k \in 1 .. Len(Targets)
  BY <1>1, <1>2
<1>5. Targets[k] \in Peer \cup {Self}
  BY <1>2, <1>4, ElementOfSeq
<1>6. Cells \in Nat \ {0} /\ CellsOf(at) \in 1 .. 2 * Cells
  BY RunAssumption DEF CellsOf
<1> QED BY <1>1, <1>2, <1>3, <1>4, <1>5, <1>6, MeasuredRanks

(***************************************************************************)
(* The report so far, by what a step does.                                 *)
(***************************************************************************)
\* Nothing is reported and the run stays where it is.
LEMMA SoFarKeeps ==
  ASSUME RInv, Stay, UNCHANGED <<at, k, cells, report>>, stage' = stage \/ cells = 0
  PROVE  SoFar'
<1> SUFFICES ASSUME at \in Sections, NEW s \in Measured
             PROVE  /\ Rank(s) < Rank(at) => Whole(s)'
                    /\ Rank(s) > Rank(at) => report'[s] = Nothing
                    /\ s = at => Begun(s)'
  BY DEF SoFar
<1>1. CASE Rank(s) < Rank(at)
  <2>1. TargetsOf(s)' = TargetsOf(s)
    BY <1>1, TargetsStay, OrderRank, MeasuredRanks
  <2>2. Whole(s)
    BY <1>1 DEF RInv, SoFar
  <2>3. Whole(s)'
    BY <2>1, <2>2 DEF Whole, Entry
  <2> QED BY <1>1, <2>3, MeasuredRanks, OrderRank
<1>2. CASE Rank(s) > Rank(at)
  BY <1>2, OrderRank, MeasuredRanks DEF RInv, SoFar
<1>3. CASE s = at
  <2>1. Targets' = Targets
    BY <1>3, NowStays
  <2>2. Begun(s)
    BY <1>3 DEF RInv, SoFar
  <2>3. \A t : Sweeping(t)' <=> Sweeping(t)
    BY <2>1 DEF Sweeping, Target
  <2>4. Begun(s)'
    BY <2>1, <2>2, <2>3 DEF Begun, Entry
  <2> QED BY <1>3, <2>4, OrderRank
<1>4. Rank(s) < Rank(at) \/ Rank(s) > Rank(at) \/ s = at
  BY MeasuredRanks, OrderRank
<1> QED BY <1>1, <1>2, <1>3, <1>4

\* The run goes on to the next section.
LEMMA SoFarMoves ==
  ASSUME RInv, at \in Sections, at # "done", at' = After(at), k' = 1, stage' = "probe", cells' = 0,
         UNCHANGED report, at \in Measured => k > Len(Targets),
         Rank(at) <= 2 \/ (peers' = peers /\ selfOk' = selfOk)
  PROVE  SoFar'
<1>0. at' \in Sections /\ Rank(at') = Rank(at) + 1 /\ Rank(at) \in 1 .. 14
  BY AfterIs, OrderRank
<1> SUFFICES ASSUME NEW s \in Measured
             PROVE  /\ Rank(s) < Rank(at') => Whole(s)'
                    /\ Rank(s) > Rank(at') => report'[s] = Nothing
                    /\ s = at' => Begun(s)'
  BY DEF SoFar
<1>1. Rank(s) \in 4 .. 11 /\ s \in Sections
  BY MeasuredRanks
<1>2. CASE Rank(s) < Rank(at)
  <2>1. Stay
    BY <1>0, <1>1, <1>2 DEF Stay
  <2>2. TargetsOf(s)' = TargetsOf(s)
    BY <1>0, <1>1, <1>2, <2>1, TargetsStay
  <2>3. Whole(s)
    BY <1>2 DEF RInv, SoFar
  <2>4. Whole(s)'
    BY <2>2, <2>3 DEF Whole, Entry
  <2>5. s # at' /\ ~(Rank(s) > Rank(at'))
    BY <1>0, <1>1, <1>2
  <2> QED BY <2>4, <2>5
<1>3. CASE s = at
  <2>1. Stay
    BY <1>0, <1>1, <1>3 DEF Stay
  <2>2. TargetsOf(s)' = TargetsOf(s)
    BY <1>0, <1>1, <1>3, <2>1, TargetsStay
  <2>3. Begun(s) /\ Targets = TargetsOf(s)
    BY <1>3, TargetsAre DEF RInv, SoFar
  <2>4. /\ peers \in Seq(Peer) /\ k \in Nat \ {0} /\ k <= Len(Targets) + 1
        /\ k > Len(Targets) /\ stage # "sweep"
    BY <1>3 DEF RInv, Types, TypeOK
  <2>5. Len(Targets) \in Nat /\ DOMAIN Targets = 1 .. Len(Targets)
    BY <2>3, <2>4, TargetsType
  <2>6. k - 1 = Len(Targets)
    BY <2>4, <2>5
  <2>7. \A t : t \in DOMAIN report[s] <=> (\E j \in 1 .. Len(Targets) : t = Targets[j])
    BY <2>3, <2>4, <2>6 DEF Begun, Sweeping
  <2>8. \A t \in DOMAIN report[s] : Entry(s, t)
    BY <2>3, <2>4 DEF Begun, Sweeping
  <2>9. DOMAIN report[s] = Range(TargetsOf(s))
    BY <2>3, <2>5, <2>7 DEF Range
  <2>10. Whole(s)'
    BY <2>2, <2>8, <2>9 DEF Whole, Entry
  <2>11. s # at' /\ ~(Rank(s) > Rank(at'))
    BY <1>0, <1>1, <1>3
  <2> QED BY <2>10, <2>11
<1>4. CASE Rank(s) > Rank(at)
  <2>1. report'[s] = Nothing
    BY <1>4 DEF RInv, SoFar
  <2>2. ~(Rank(s) < Rank(at'))
    BY <1>0, <1>1, <1>4
  <2>3. DOMAIN report'[s] = {} /\ (\A j \in 1 .. k' - 1 : FALSE) /\ \A t : ~Sweeping(t)'
    BY <2>1 DEF Nothing, Sweeping
  <2>4. Begun(s)'
    BY <2>3 DEF Begun
  <2> QED BY <2>1, <2>2, <2>4
<1>5. Rank(s) < Rank(at) \/ Rank(s) > Rank(at) \/ s = at
  BY <1>0, <1>1, MeasuredRanks
<1> QED BY <1>2, <1>3, <1>4, <1>5

\* One entry changes, in the present section.
LEMMA ReportedIs ==
  ASSUME Types, at \in Measured, NEW t, NEW what, Reported(t, what)
  PROVE  /\ DOMAIN report' = Measured
         /\ \A s \in Measured : s # at => report'[s] = report[s]
         /\ DOMAIN report'[at] = DOMAIN report[at] \cup {t}
         /\ report'[at][t] = what
         /\ \A u \in DOMAIN report[at] : u # t => report'[at][u] = report[at][u]
<1> DEFINE new == [u \in DOMAIN report[at] \cup {t} |-> IF u = t THEN what ELSE report[at][u]]
<1>1. DOMAIN report = Measured
  BY DEF Types, TypeOK
<1>2. report' = [report EXCEPT ![at] = new]
  BY DEF Reported
<1>3. /\ DOMAIN new = DOMAIN report[at] \cup {t} /\ new[t] = what
      /\ \A u \in DOMAIN report[at] : u # t => new[u] = report[at][u]
  OBVIOUS
<1> HIDE DEF new
<1>4. /\ DOMAIN report' = Measured /\ report'[at] = new
      /\ \A s \in Measured : s # at => report'[s] = report[s]
  BY <1>1, <1>2
<1> QED BY <1>3, <1>4

\* A target is skipped, and the next one is up; or the sweep of a target has all
\* its cells, and the next one is up; or the sweep goes on by a cell.
LEMMA SoFarSkips ==
  ASSUME RInv, Running, stage = "probe", Reported(Target, Skip), NextTarget,
         Stay
  PROVE  SoFar'
<1>0. /\ at \in Measured /\ at \in Sections /\ at' = at /\ k' = k + 1 /\ stage' = "probe" /\ cells' = 0
      /\ k \in 1 .. Len(Targets) /\ Len(Targets) \in Nat /\ Target = Targets[k]
  BY RunningFacts DEF RInv, NextTarget
<1> SUFFICES ASSUME NEW s \in Measured
             PROVE  /\ Rank(s) < Rank(at) => Whole(s)'
                    /\ Rank(s) > Rank(at) => report'[s] = Nothing
                    /\ s = at => Begun(s)'
  BY <1>0 DEF SoFar
<1>1. PICK t : t = Target
  OBVIOUS
<1>2. /\ \A r \in Measured : r # at => report'[r] = report[r]
      /\ DOMAIN report'[at] = DOMAIN report[at] \cup {t} /\ report'[at][t] = Skip
      /\ \A u \in DOMAIN report[at] : u # t => report'[at][u] = report[at][u]
  BY <1>0, <1>1, ReportedIs DEF RInv
<1>3. CASE Rank(s) < Rank(at)
  <2>1. TargetsOf(s)' = TargetsOf(s) /\ s # at
    BY <1>0, <1>3, TargetsStay, OrderRank, MeasuredRanks
  <2>2. Whole(s)
    BY <1>0, <1>3 DEF RInv, SoFar
  <2>3. Whole(s)'
    BY <1>2, <2>1, <2>2 DEF Whole, Entry
  <2> QED BY <1>3, <2>1, <2>3, MeasuredRanks, OrderRank, <1>0
<1>4. CASE Rank(s) > Rank(at)
  BY <1>0, <1>2, <1>4, OrderRank, MeasuredRanks DEF RInv, SoFar
<1>5. CASE s = at
  <2>1. Targets' = Targets
    BY <1>0, NowStays
  <2>2. Begun(at) /\ \A u : ~Sweeping(u)
    BY <1>0, <1>5 DEF RInv, SoFar, Sweeping
  <2>3. \A u : ~Sweeping(u)'
    BY <1>0 DEF Sweeping
  <2>4. \A u : u \in DOMAIN report'[at] <=> (\E j \in 1 .. k' - 1 : u = Targets[j])
    <3>1. \A u : u \in DOMAIN report[at] <=> (\E j \in 1 .. k - 1 : u = Targets[j])
      BY <2>2 DEF Begun
    <3>2. \A u : (\E j \in 1 .. k' - 1 : u = Targets[j]) <=>
                 ((\E j \in 1 .. k - 1 : u = Targets[j]) \/ u = Targets[k])
      BY <1>0
    <3> QED BY <1>0, <1>1, <1>2, <3>1, <3>2
  <2>5. \A u \in DOMAIN report'[at] : report'[at][u] \in {Skip, CellsOf(at)}
    <3>1. \A u \in DOMAIN report[at] : report[at][u] \in {Skip, CellsOf(at)}
      BY <2>2 DEF Begun, Entry
    <3> QED BY <1>2, <3>1
  <2>6. Begun(at)'
    BY <1>0, <2>1, <2>3, <2>4, <2>5 DEF Begun, Entry, CellsOf
  <2> QED BY <1>0, <1>5, <2>6, OrderRank
<1>6. Rank(s) < Rank(at) \/ Rank(s) > Rank(at) \/ s = at
  BY <1>0, MeasuredRanks, OrderRank
<1> QED BY <1>3, <1>4, <1>5, <1>6

\* The last cell of a target is that of a whole target: SoFar holds at the next one.
LEMMA SoFarNext ==
  ASSUME RInv, Running, stage = "sweep", cells = CellsOf(at), NextTarget, UNCHANGED report, Stay
  PROVE  SoFar'
<1>0. /\ at \in Measured /\ at \in Sections /\ at' = at /\ k' = k + 1 /\ stage' = "probe" /\ cells' = 0
      /\ k \in 1 .. Len(Targets) /\ Len(Targets) \in Nat /\ Target = Targets[k] /\ cells > 0
  BY RunningFacts DEF RInv, NextTarget
<1> SUFFICES ASSUME NEW s \in Measured
             PROVE  /\ Rank(s) < Rank(at) => Whole(s)'
                    /\ Rank(s) > Rank(at) => report'[s] = Nothing
                    /\ s = at => Begun(s)'
  BY <1>0 DEF SoFar
<1>3. CASE Rank(s) < Rank(at)
  <2>1. TargetsOf(s)' = TargetsOf(s) /\ s # at
    BY <1>0, <1>3, TargetsStay, OrderRank, MeasuredRanks
  <2>2. Whole(s)
    BY <1>0, <1>3 DEF RInv, SoFar
  <2>3. Whole(s)'
    BY <2>1, <2>2 DEF Whole, Entry
  <2> QED BY <1>3, <2>1, <2>3, MeasuredRanks, OrderRank, <1>0
<1>4. CASE Rank(s) > Rank(at)
  BY <1>0, <1>4, OrderRank, MeasuredRanks DEF RInv, SoFar
<1>5. CASE s = at
  <2>1. Targets' = Targets
    BY <1>0, NowStays
  <2>2. Begun(at) /\ \A u : Sweeping(u) <=> u = Target
    BY <1>0, <1>5 DEF RInv, SoFar, Sweeping
  <2>3. \A u : ~Sweeping(u)'
    BY <1>0 DEF Sweeping
  <2>4. \A u : u \in DOMAIN report[at] <=> (\E j \in 1 .. k' - 1 : u = Targets[j])
    <3>1. \A u : u \in DOMAIN report[at] <=> ((\E j \in 1 .. k - 1 : u = Targets[j]) \/ u = Target)
      BY <2>2 DEF Begun
    <3>2. \A u : (\E j \in 1 .. k' - 1 : u = Targets[j]) <=>
                 ((\E j \in 1 .. k - 1 : u = Targets[j]) \/ u = Targets[k])
      BY <1>0
    <3> QED BY <1>0, <3>1, <3>2
  <2>5. \A u \in DOMAIN report[at] : report[at][u] \in {Skip, CellsOf(at)}
    BY <2>2 DEF Begun, Entry
  <2>6. Begun(at)'
    BY <1>0, <2>1, <2>3, <2>4, <2>5 DEF Begun, Entry, CellsOf
  <2> QED BY <1>0, <1>5, <2>6, OrderRank
<1>6. Rank(s) < Rank(at) \/ Rank(s) > Rank(at) \/ s = at
  BY <1>0, MeasuredRanks, OrderRank
<1> QED BY <1>3, <1>4, <1>5, <1>6

\* One more cell keeps what was reported so far.
LEMMA SoFarCell ==
  ASSUME RInv, Running, stage = "sweep", cells' = cells + 1, Reported(Target, cells'),
         UNCHANGED <<at, stage, k>>, Stay
  PROVE  SoFar'
<1>0. /\ at \in Measured /\ at \in Sections /\ at' = at /\ k' = k /\ stage' = "sweep" /\ cells' > 0
      /\ k \in 1 .. Len(Targets) /\ Len(Targets) \in Nat /\ Target = Targets[k] /\ cells \in Nat
  BY RunningFacts DEF RInv, Types, TypeOK
<1> SUFFICES ASSUME NEW s \in Measured
             PROVE  /\ Rank(s) < Rank(at) => Whole(s)'
                    /\ Rank(s) > Rank(at) => report'[s] = Nothing
                    /\ s = at => Begun(s)'
  BY <1>0 DEF SoFar
<1>1. PICK t, c : t = Target /\ c = cells'
  OBVIOUS
<1>2. /\ \A r \in Measured : r # at => report'[r] = report[r]
      /\ DOMAIN report'[at] = DOMAIN report[at] \cup {t} /\ report'[at][t] = c
      /\ \A u \in DOMAIN report[at] : u # t => report'[at][u] = report[at][u]
  BY <1>0, <1>1, ReportedIs DEF RInv
<1>3. CASE Rank(s) < Rank(at)
  <2>1. TargetsOf(s)' = TargetsOf(s) /\ s # at
    BY <1>0, <1>3, TargetsStay, OrderRank, MeasuredRanks
  <2>2. Whole(s)
    BY <1>0, <1>3 DEF RInv, SoFar
  <2>3. Whole(s)'
    BY <1>2, <2>1, <2>2 DEF Whole, Entry
  <2> QED BY <1>3, <2>1, <2>3, MeasuredRanks, OrderRank, <1>0
<1>4. CASE Rank(s) > Rank(at)
  <2>1. s # at /\ ~(Rank(s) < Rank(at))
    BY <1>0, <1>4, OrderRank, MeasuredRanks
  <2>2. report[s] = Nothing
    BY <1>0, <1>4 DEF RInv, SoFar
  <2>3. report'[s] = Nothing
    BY <1>2, <2>1, <2>2
  <2> QED BY <2>1, <2>3
<1>5. CASE s = at
  <2>1. Targets' = Targets
    BY <1>0, NowStays
  <2>2. Begun(at) /\ \A u : Sweeping(u) => u = Target
    BY <1>0, <1>5 DEF RInv, SoFar, Sweeping
  <2>3. \A u : Sweeping(u)' <=> u = t
    BY <1>0, <1>1, <2>1 DEF Sweeping, Target
  <2>4. \A u : u \in DOMAIN report'[at] <=> ((\E j \in 1 .. k - 1 : u = Targets[j]) \/ u = t)
    <3>1. \A u : u # t => (u \in DOMAIN report[at] <=> (\E j \in 1 .. k - 1 : u = Targets[j]))
      BY <1>1, <2>2 DEF Begun
    <3> QED BY <1>2, <3>1
  <2>5. \A u \in DOMAIN report'[at] : u # t => report'[at][u] \in {Skip, CellsOf(at)}
    <3>1. \A u \in DOMAIN report[at] : u # t => report[at][u] \in {Skip, CellsOf(at)}
      BY <1>1, <2>2 DEF Begun, Entry
    <3> QED BY <1>2, <3>1
  <2>6. Begun(at)'
    BY <1>0, <1>1, <1>2, <2>1, <2>3, <2>4, <2>5 DEF Begun, Entry, CellsOf
  <2>7. ~(Rank(s) < Rank(at)) /\ ~(Rank(s) > Rank(at))
    BY <1>0, <1>5, OrderRank
  <2>8. Begun(s)'
    BY <1>5, <2>6, <1>0
  <2> QED BY <2>7, <2>8
<1>6. Rank(s) < Rank(at) \/ Rank(s) > Rank(at) \/ s = at
  BY <1>0, MeasuredRanks, OrderRank
<1> QED BY <1>3, <1>4, <1>5, <1>6

(***************************************************************************)
(* The invariant, by what a step does.                                     *)
(***************************************************************************)
Arguments == options' = options /\ echo' = echo /\ seen' = seen

\* An entry outside the rpc section leaves who is measured under load.
LEMMA StayReported ==
  ASSUME Types, at \in Measured, NEW t, NEW what, Reported(t, what),
         peers' = peers, selfOk' = selfOk
  PROVE  Stay
<1>1. Rank(at) > 10 => at # "rpc"
  BY MeasuredRanks
<1>2. "rpc" \in Measured
  BY DEF Measured
<1>3. Rank(at) > 10 => report'["rpc"] = report["rpc"]
  BY <1>1, <1>2, ReportedIs
<1> QED BY <1>3 DEF Stay

\* What a step may do to the types, when the run stays in its section ...
LEMMA TypesHere ==
  ASSUME Types, at \in Measured, at' = at, Stay, Arguments, DOMAIN report' = Measured,
         k' \in Nat \ {0}, k' <= Len(Targets) + 1,
         stage' \in {"probe", "sweep"}, stage' = "sweep" => k' <= Len(Targets),
         cells' \in 0 .. CellsOf(at), stage' = "probe" => cells' = 0,
         inline' \in {"off", "on", "stopping"}, selfOk' \in BOOLEAN
  PROVE  Types'
<1>1. Targets' = Targets
  BY NowStays
<1>2. CellsOf(at)' = CellsOf(at) /\ CellsOf(at) <= 2 * Cells /\ CellsOf(at) \in Nat /\ 2 * Cells \in Nat
  BY RunAssumption DEF CellsOf
<1>3. cells' \in 0 .. 2 * Cells /\ cells' <= CellsOf(at)
  BY <1>2
<1>4. peers' \in Seq(Peer)
  BY DEF Types, TypeOK, Stay
<1>5. TypeOK'
  BY <1>3, <1>4 DEF TypeOK, Types
<1> QED BY <1>1, <1>2, <1>3, <1>5 DEF Types, Arguments

\* ... and when it goes on to the next one.
LEMMA TypesMoves ==
  ASSUME Types, at \in Sections, at # "done", EnterNext, Arguments, peers' \in Seq(Peer),
         UNCHANGED <<inline, selfOk, report>>
  PROVE  Types'
<1>1. at' \in Sections /\ k' = 1 /\ cells' = 0 /\ stage' = "probe"
  BY AfterIs DEF EnterNext
<1>2. Targets' = TargetsOf(at)' /\ Len(Targets') \in Nat
  <2>1. Targets' = TargetsOf(at)'
    BY TargetsAreNext
  <2>2. PICK s : s = at'
    OBVIOUS
  <2>3. Len(TargetsOf(s)') \in Nat
    BY TargetsTypeNext
  <2>4. TargetsOf(s)' = TargetsOf(at)'
    BY <2>2 DEF TargetsOf
  <2> QED BY <2>1, <2>3, <2>4
<1>3. 1 <= Len(Targets') + 1
  BY <1>2
<1>4. Sections \subseteq Measured \cup Ends \cup {"status", "peers", "ping", "pubsub", "render"}
  BY DEF Sections, Measured, Ends
<1>5. 0 \in 0 .. 2 * Cells /\ CellsOf(at)' \in Nat
  BY RunAssumption DEF CellsOf
<1>6. TypeOK'
  BY <1>1, <1>4, <1>5 DEF TypeOK, Types
<1> QED BY <1>1, <1>3, <1>5, <1>6 DEF Types, Arguments

\* An entry keeps to what ran: a peer that never ran ce-echo is skipped by the
\* sections that need it, and has no entry under load.
LEMMA RanReported ==
  ASSUME Types, SkippedNotFailed, at \in Measured, seen' = seen, NEW t, NEW what, Reported(t, what),
         t \in Peer \ seen => /\ at \in {"rpc", "remote"} => what = Skip
                              /\ at # "conc"
  PROVE  SkippedNotFailed'
<1>1. /\ \A s \in Measured : s # at => report'[s] = report[s]
      /\ DOMAIN report'[at] = DOMAIN report[at] \cup {t} /\ report'[at][t] = what
      /\ \A u \in DOMAIN report[at] : u # t => report'[at][u] = report[at][u]
  BY ReportedIs
<1>2. "rpc" \in Measured /\ "remote" \in Measured /\ "conc" \in Measured
  BY DEF Measured
<1> SUFFICES ASSUME NEW p \in Peer \ seen
             PROVE  /\ p \in DOMAIN report'["rpc"] => report'["rpc"][p] = Skip
                    /\ p \in DOMAIN report'["remote"] => report'["remote"][p] = Skip
                    /\ p \notin DOMAIN report'["conc"]
  BY DEF SkippedNotFailed, Skipped
<1>3. /\ p \in DOMAIN report["rpc"] => report["rpc"][p] = Skip
      /\ p \in DOMAIN report["remote"] => report["remote"][p] = Skip
      /\ p \notin DOMAIN report["conc"]
  BY DEF SkippedNotFailed, Skipped
<1>4. p \in DOMAIN report'["rpc"] => report'["rpc"][p] = Skip
  <2>1. CASE at = "rpc"
    BY <1>1, <1>3, <2>1
  <2>2. CASE at # "rpc"
    BY <1>1, <1>2, <1>3, <2>2
  <2> QED BY <2>1, <2>2
<1>5. p \in DOMAIN report'["remote"] => report'["remote"][p] = Skip
  <2>1. CASE at = "remote"
    BY <1>1, <1>3, <2>1
  <2>2. CASE at # "remote"
    BY <1>1, <1>2, <1>3, <2>2
  <2> QED BY <2>1, <2>2
<1>6. p \notin DOMAIN report'["conc"]
  <2>1. CASE at = "conc"
    BY <1>1, <1>3, <2>1
  <2>2. CASE at # "conc"
    BY <1>1, <1>2, <1>3, <2>2
  <2> QED BY <2>1, <2>2
<1> QED BY <1>4, <1>5, <1>6

\* Nothing new in the report, and no peer forgotten.
LEMMA RanStays ==
  ASSUME SkippedNotFailed, seen \subseteq seen', report' = report
  PROVE  SkippedNotFailed'
BY DEF SkippedNotFailed, Skipped

\* The run ends before its report: nothing is promised of it.
LEMMA Halts ==
  ASSUME RInv, at' \in {"exited", "aborted"}, inline = "off",
         UNCHANGED <<options, noRemote, stage, k, cells, inline, selfOk, peers, report, echo, seen>>
  PROVE  RInv'
<1>1. at' \in Ends /\ at' \notin Measured /\ at' \notin Sections
  BY DEF Ends, Measured, Sections
<1>2. Types'
  <2>1. TypeOK'
    BY <1>1 DEF RInv, Types, TypeOK
  <2> QED BY <1>1, <2>1 DEF RInv, Types
<1>3. OwnResponder'
  BY DEF OwnResponder
<1>4. SoFar'
  BY <1>1 DEF SoFar
<1>5. Ran'
  <2>1. SkippedNotFailed'
    BY RanStays DEF RInv, Ran
  <2> QED BY <2>1 DEF Ran
<1> QED BY <1>2, <1>3, <1>4, <1>5 DEF RInv

\* The run goes on to the next section.
LEMMA Moves ==
  ASSUME RInv, at \in Sections, at # "done", EnterNext, Arguments,
         at \in Measured => k > Len(Targets), peers' \in Seq(Peer),
         Rank(at) <= 2 \/ peers' = peers, UNCHANGED <<inline, selfOk, report>>
  PROVE  RInv'
<1>1. Types'
  BY TypesMoves DEF RInv
<1>2. inline = "off"
  <2>1. inline # "off" => at \in Measured /\ k <= Len(Targets)
    BY DEF RInv, OwnResponder, Measured
  <2>2. at \in Measured => ~(k <= Len(Targets))
    <3>1. peers \in Seq(Peer) /\ k \in Nat
      BY DEF RInv, Types, TypeOK
    <3>2. Len(Targets) \in Nat
      BY <3>1, TargetsAre, TargetsType
    <3> QED BY <3>1, <3>2
  <2> QED BY <2>1, <2>2
<1>3. OwnResponder'
  BY <1>2 DEF OwnResponder
<1>4. SoFar'
  BY SoFarMoves DEF EnterNext
<1>5. Ran'
  <2>1. SkippedNotFailed'
    BY RanStays DEF RInv, Ran, Arguments
  <2> QED BY <2>1 DEF Ran, EnterNext
<1> QED BY <1>1, <1>3, <1>4, <1>5 DEF RInv

\* The target is skipped.
LEMMA SkipsTarget ==
  ASSUME RInv, Running, stage = "probe", Reported(Target, Skip), NextTarget, Arguments,
         inline' = "off", UNCHANGED <<selfOk, peers>>, at # "conc"
  PROVE  RInv'
<1>0. /\ at \in Measured /\ at' = at /\ k' = k + 1 /\ stage' = "probe" /\ cells' = 0
      /\ k \in 1 .. Len(Targets) /\ Len(Targets) \in Nat /\ CellsOf(at) \in Nat
  BY RunningFacts DEF RInv, NextTarget
<1>1. PICK t : t = Target
  OBVIOUS
<1>2. Stay /\ DOMAIN report' = Measured
  BY <1>0, <1>1, StayReported, ReportedIs DEF RInv
<1>3. Types'
  <2>1. k' \in Nat \ {0} /\ k' <= Len(Targets) + 1 /\ cells' \in 0 .. CellsOf(at)
    BY <1>0
  <2>2. selfOk' \in BOOLEAN /\ Types
    BY DEF RInv, Types, TypeOK
  <2> QED BY <1>0, <1>2, <2>1, <2>2, TypesHere
<1>4. OwnResponder'
  BY DEF OwnResponder
<1>5. SoFar'
  BY <1>2, SoFarSkips
<1>6. Ran'
  <2>1. SkippedNotFailed'
    BY <1>0, <1>1, RanReported DEF RInv, Ran, Arguments
  <2> QED BY <1>0, <2>1 DEF Ran
<1> QED BY <1>3, <1>4, <1>5, <1>6 DEF RInv

\* The target has all cells of its sweep.
LEMMA LeavesTarget ==
  ASSUME RInv, Running, stage = "sweep", cells = CellsOf(at), NextTarget, Arguments,
         inline' = "off", UNCHANGED <<selfOk, peers, report>>
  PROVE  RInv'
<1>0. /\ at \in Measured /\ at' = at /\ k' = k + 1 /\ stage' = "probe" /\ cells' = 0
      /\ k \in 1 .. Len(Targets) /\ Len(Targets) \in Nat /\ CellsOf(at) \in Nat
      /\ DOMAIN report' = Measured
  BY RunningFacts DEF RInv, NextTarget
<1>2. Stay
  BY DEF Stay
<1>3. Types'
  <2>1. k' \in Nat \ {0} /\ k' <= Len(Targets) + 1 /\ cells' \in 0 .. CellsOf(at)
    BY <1>0
  <2>2. selfOk' \in BOOLEAN /\ Types
    BY DEF RInv, Types, TypeOK
  <2> QED BY <1>0, <1>2, <2>1, <2>2, TypesHere
<1>4. OwnResponder'
  BY DEF OwnResponder
<1>5. SoFar'
  BY <1>2, SoFarNext
<1>6. Ran'
  <2>1. SkippedNotFailed'
    BY RanStays DEF RInv, Ran, Arguments
  <2> QED BY <1>0, <2>1 DEF Ran
<1> QED BY <1>3, <1>4, <1>5, <1>6 DEF RInv

\* The run stays at its target, and reports nothing.
LEMMA StaysAtTarget ==
  ASSUME RInv, Running, Arguments, UNCHANGED <<at, k, cells, peers, report>>,
         selfOk' \in BOOLEAN, selfOk' = selfOk \/ at = "self",
         stage' = stage \/ (stage = "probe" /\ stage' = "sweep"),
         inline' \in {"off", "on", "stopping"}, inline' # "off" => NeedsInline,
         inline' = "stopping" => IF stage' = "probe" THEN at = "self" ELSE cells = CellsOf(at),
         stage' = "sweep" /\ at \in {"rpc", "remote"} => Target \in seen
  PROVE  RInv'
<1>0. /\ at \in Measured /\ k \in 1 .. Len(Targets) /\ Len(Targets) \in Nat /\ CellsOf(at) \in Nat
      /\ DOMAIN report' = Measured
  BY RunningFacts DEF RInv
<1>1. Types /\ stage \in {"probe", "sweep"} /\ (stage = "probe" => cells = 0) /\ cells <= CellsOf(at)
      /\ cells \in Nat
  BY <1>0 DEF RInv, Types, TypeOK
<1>2. Stay
  BY MeasuredRanks DEF Stay
<1>3. Types'
  <2>1. k' \in Nat \ {0} /\ k' <= Len(Targets) + 1 /\ cells' \in 0 .. CellsOf(at) /\ k' <= Len(Targets)
    BY <1>0, <1>1
  <2>2. stage' \in {"probe", "sweep"} /\ (stage' = "probe" => cells' = 0)
    BY <1>1
  <2> QED BY <1>0, <1>1, <1>2, <2>1, <2>2, TypesHere
<1>4. Targets' = Targets /\ Target' = Target /\ CellsOf(at)' = CellsOf(at)
  BY <1>0, <1>2, NowStays DEF Target, CellsOf
<1>5. OwnResponder'
  BY <1>0, <1>4 DEF OwnResponder, NeedsInline
<1>6. SoFar'
  BY <1>1, <1>2, SoFarKeeps
<1>7. Ran'
  <2>1. SkippedNotFailed'
    BY RanStays DEF RInv, Ran, Arguments
  <2> QED BY <1>4, <2>1 DEF Ran, Arguments
<1> QED BY <1>3, <1>5, <1>6, <1>7 DEF RInv

(***************************************************************************)
(* The invariant, action by action.                                        *)
(***************************************************************************)
\* What a bounded sequence is.
LEMMA BoundedSeqs ==
  ASSUME NEW S, NEW n \in Nat, NEW s \in SeqOf(S, n)
  PROVE  s \in Seq(S)
<1>1. PICK m \in 0 .. n : s \in [1 .. m -> S]
  BY DEF SeqOf
<1> QED BY <1>1

\* The initial report is empty, and the sections are all ahead.
LEMMA RInvInit == Init => RInv
<1> SUFFICES ASSUME Init PROVE RInv
  OBVIOUS
<1>1. at = "status" /\ at \in Sections /\ at \notin Measured /\ Rank(at) = 1
  BY MeasuredRanks DEF Init, Sections, Measured
<1>2. options \in Seq(Peer)
  <2>1. PICK n, o : n = MaxOptions /\ o = options
    OBVIOUS
  <2>2. n \in Nat /\ o \in SeqOf(Peer, n)
    BY <2>1, RunAssumption DEF Init
  <2> QED BY <2>1, <2>2, BoundedSeqs
<1>3. Types
  <2>1. 0 \in 0 .. 2 * Cells
    BY RunAssumption
  <2>2. peers \in Seq(Peer) /\ DOMAIN report = Measured
    BY EmptySeq DEF Init
  <2>3. TypeOK
    BY <1>1, <2>1, <2>2 DEF Init, TypeOK
  <2> QED BY <1>1, <1>2, <2>3 DEF Init, Types
<1>4. OwnResponder
  BY DEF Init, OwnResponder
<1>5. SoFar
  <2>1. ASSUME NEW s \in Measured
        PROVE  ~(Rank(s) < Rank(at)) /\ s # at /\ report[s] = Nothing
    BY <1>1, MeasuredRanks DEF Init
  <2> QED BY <2>1 DEF SoFar
<1>6. Ran
  <2>1. \A s \in Measured : DOMAIN report[s] = {}
    BY DEF Init, Nothing
  <2>2. "rpc" \in Measured /\ "remote" \in Measured /\ "conc" \in Measured
    BY DEF Measured
  <2>3. SkippedNotFailed
    BY <2>1, <2>2 DEF SkippedNotFailed
  <2> QED BY <2>3 DEF Init, Ran
<1> QED BY <1>3, <1>4, <1>5, <1>6 DEF RInv

\* Each action keeps RInv, one lemma for each; first the node's status.
LEMMA KeepsStatus ==
  ASSUME RInv, NEW b, Status(b)
  PROVE  RInv'
<1>1. at = "status" /\ at \in Sections /\ at # "done" /\ at \notin Measured /\ Rank(at) <= 2
  BY MeasuredRanks DEF Status, Sections, Measured
<1>2. inline = "off" /\ peers \in Seq(Peer)
  BY <1>1 DEF RInv, OwnResponder, Types, TypeOK
<1>3. CASE b
  <2>1. EnterNext /\ Arguments /\ UNCHANGED <<inline, selfOk, peers, report>>
    BY <1>3 DEF Status, Environment, Arguments
  <2> QED BY <1>1, <1>2, <2>1, Moves
<1>4. CASE ~b
  BY <1>2, <1>4, Halts DEF Status, Environment
<1> QED BY <1>3, <1>4

\* The peers of a run are peers, wherever they come from.
LEMMA KeepsDiscover ==
  ASSUME RInv, NEW atlas \in Seq(Peer), Discover(atlas)
  PROVE  RInv'
<1>1. at = "peers" /\ at \in Sections /\ at # "done" /\ at \notin Measured /\ Rank(at) <= 2
  BY MeasuredRanks DEF Discover, Sections, Measured
<1>2. PeerArg \in Seq(Peer)
  <2>1. options \in Seq(Peer)
    BY DEF RInv, Types
  <2>2. CASE options = << >>
    BY <2>2 DEF PeerArg
  <2>3. CASE options # << >>
    <3>1. Len(options) \in DOMAIN options
      BY <2>1, <2>3
    <3>2. Last(options) \in Peer
      BY <2>1, <3>1, ElementOfSeq DEF Last
    <3> QED BY <2>3, <3>2 DEF PeerArg
  <2> QED BY <2>2, <2>3
<1>3. Without(atlas, {Id}) \in Seq(Peer)
  <2>1. PICK S, T : S = Peer /\ T = {Id}
    OBVIOUS
  <2>2. Without(atlas, T) \in Seq(S \ T)
    BY <2>1, WithoutIn
  <2>3. S \ T \subseteq Peer
    BY <2>1
  <2> QED BY <2>1, <2>2, <2>3
<1>4. peers' \in Seq(Peer)
  BY <1>2, <1>3 DEF Discover
<1>5. EnterNext /\ Arguments /\ UNCHANGED <<inline, selfOk, report>>
  BY DEF Discover, Environment, Arguments
<1> QED BY <1>1, <1>4, <1>5, Moves

\* A section that is over gives way to the next.
LEMMA KeepsMove ==
  ASSUME RInv, Single \/ FinishSection \/ Render
  PROVE  RInv'
<1>1. at \in Sections /\ at # "done"
  BY DEF Single, FinishSection, Render, Sections, Measured
<1>2. at \in Measured => k > Len(Targets)
  BY DEF Single, FinishSection, Render, Measured
<1>3. EnterNext /\ Arguments /\ UNCHANGED <<inline, selfOk, peers, report>>
  BY DEF Single, FinishSection, Render, Environment, Arguments
<1>4. peers' \in Seq(Peer)
  BY <1>3 DEF RInv, Types, TypeOK
<1> QED BY <1>1, <1>2, <1>3, <1>4, Moves

LEMMA KeepsStartInline ==
  ASSUME RInv, NEW b, StartInline(b)
  PROVE  RInv'
<1>0. /\ Running /\ NeedsInline /\ inline = "off" /\ cells = 0
      /\ UNCHANGED <<options, noRemote, echo, seen, selfOk, peers>>
  BY DEF StartInline, Environment
<1>1. CASE b
  <2>1. inline' = "on" /\ UNCHANGED <<at, stage, k, cells, threw, report>>
    BY <1>1, Zenon DEF StartInline
  <2>2. selfOk' \in BOOLEAN /\ (stage = "sweep" /\ at \in {"rpc", "remote"} => Target \in seen)
    BY <1>0 DEF RInv, Types, TypeOK, Ran
  <2> QED BY <1>0, <2>1, <2>2, StaysAtTarget DEF Arguments
<1>2. CASE ~b /\ at = "self" /\ stage = "probe"
  <2>1. Reported(Self, Skip) /\ NextTarget /\ inline' = inline
    BY <1>2, Zenon DEF StartInline
  <2>2. Target = Self /\ at # "conc"
    BY <1>0, <1>2 DEF NeedsInline
  <2> QED BY <1>0, <1>2, <2>1, <2>2, SkipsTarget DEF Arguments
<1>3. CASE ~b /\ ~(at = "self" /\ stage = "probe")
  <2>1. at' = "aborted" /\ UNCHANGED <<stage, k, cells, threw, inline, report>>
    BY <1>3, Zenon DEF StartInline
  <2> QED BY <1>0, <2>1, Halts
<1> QED BY <1>1, <1>2, <1>3

LEMMA KeepsSelfCheck ==
  ASSUME RInv, NEW b \in BOOLEAN, SelfCheck(b)
  PROVE  RInv'
<1>1. /\ Running /\ at = "self" /\ stage = "probe" /\ inline = "on" /\ selfOk' = b /\ inline' = "stopping"
      /\ UNCHANGED <<options, noRemote, echo, seen, at, stage, k, cells, threw, peers, report>>
  BY DEF SelfCheck, Environment
<1>2. NeedsInline
  BY <1>1 DEF RInv, OwnResponder, NeedsInline
<1> QED BY <1>1, <1>2, StaysAtTarget DEF Arguments

LEMMA KeepsStopInline ==
  ASSUME RInv, StopInline
  PROVE  RInv'
<1>0. /\ inline = "stopping" /\ inline' = "off"
      /\ UNCHANGED <<options, noRemote, echo, seen, selfOk, peers>>
  BY DEF StopInline, Environment
<1>1. /\ at \in {"self", "conc"} /\ k <= Len(Targets) /\ Target = Self
      /\ IF stage = "probe" THEN at = "self" ELSE cells = CellsOf(at)
      /\ stage \in {"probe", "sweep"}
  BY <1>0 DEF RInv, OwnResponder, Types, TypeOK
<1>2. Running
  BY <1>1 DEF Running, Measured
<1>3. CASE at = "self" /\ stage = "probe" /\ selfOk
  <2>1. stage' = "sweep" /\ UNCHANGED <<at, k, cells, threw, report>>
    BY <1>3, Zenon DEF StopInline
  <2>2. selfOk' \in BOOLEAN
    BY <1>0 DEF RInv, Types, TypeOK
  <2> QED BY <1>0, <1>2, <1>3, <2>1, <2>2, StaysAtTarget DEF Arguments
<1>4. CASE at = "self" /\ stage = "probe" /\ ~selfOk
  <2>1. Reported(Self, Skip) /\ NextTarget
    BY <1>4, Zenon DEF StopInline
  <2> QED BY <1>0, <1>1, <1>2, <1>4, <2>1, SkipsTarget DEF Arguments
<1>5. CASE stage = "sweep"
  <2>1. ~(at = "self" /\ stage = "probe")
    BY <1>5
  <2>2. NextTarget /\ UNCHANGED report
    BY <2>1, Zenon DEF StopInline
  <2> QED BY <1>0, <1>1, <1>2, <1>5, <2>2, LeavesTarget DEF Arguments
<1> QED BY <1>1, <1>3, <1>4, <1>5

LEMMA KeepsProbe ==
  ASSUME RInv, NEW b, Probe(b)
  PROVE  RInv'
<1>0. /\ Running /\ at \in {"rpc", "send"} /\ stage = "probe" /\ (at = "rpc" /\ b => Target \in echo)
      /\ UNCHANGED <<options, noRemote, echo, seen, inline, selfOk, peers>>
  BY DEF Probe, Environment
<1>1. inline = "off" /\ echo \subseteq seen /\ selfOk \in BOOLEAN
  BY <1>0 DEF RInv, OwnResponder, Types, TypeOK
<1>2. CASE b
  <2>1. stage' = "sweep" /\ UNCHANGED <<at, k, cells, threw, report>>
    BY <1>2 DEF Probe
  <2>2. at \in {"rpc", "remote"} => Target \in seen
    BY <1>0, <1>1, <1>2
  <2> QED BY <1>0, <1>1, <2>1, <2>2, StaysAtTarget DEF Arguments
<1>3. CASE ~b
  <2>1. Reported(Target, Skip) /\ NextTarget
    BY <1>3 DEF Probe
  <2> QED BY <1>0, <1>1, <2>1, SkipsTarget DEF Arguments
<1> QED BY <1>2, <1>3

\* A peer that rpc did not skip ran ce-echo: the section is whole, and every
\* peer that never ran it was skipped there.
LEMMA AnsweredRan ==
  ASSUME RInv, at \in {"remote", "conc"}, NEW p \in Range(peers), ~Skipped("rpc", p)
  PROVE  p \in seen
<1>1. peers \in Seq(Peer) /\ SkippedNotFailed
  BY DEF RInv, Types, TypeOK, Ran
<1>2. p \in Peer
  <2>1. \A j \in DOMAIN peers : peers[j] \in Peer
    BY <1>1, ElementOfSeq
  <2> QED BY <2>1 DEF Range
<1>3. at \in Sections /\ Rank("rpc") < Rank(at) /\ "rpc" \in Measured
  BY MeasuredRanks DEF Measured
<1>4. DOMAIN report["rpc"] = Range(peers)
  <2>1. Whole("rpc")
    BY <1>3 DEF RInv, SoFar
  <2> QED BY <2>1, TargetsAre DEF Whole
<1>5. p \notin seen => Skipped("rpc", p)
  BY <1>1, <1>2, <1>4 DEF SkippedNotFailed
<1> QED BY <1>5

LEMMA KeepsEnter ==
  ASSUME RInv, Enter
  PROVE  RInv'
<1>0. /\ Running /\ at \notin {"self", "rpc", "send"} /\ stage = "probe" /\ (NeedsInline => inline = "on")
      /\ UNCHANGED <<options, noRemote, echo, seen, inline, selfOk, peers>>
  BY DEF Enter, Environment
<1>1. CASE at = "remote" /\ Skipped("rpc", Target)
  <2>1. Reported(Target, Skip) /\ NextTarget
    BY <1>1 DEF Enter
  <2>2. inline = "off"
    BY <1>1 DEF RInv, OwnResponder
  <2> QED BY <1>0, <1>1, <2>1, <2>2, SkipsTarget DEF Arguments
<1>2. CASE ~(at = "remote" /\ Skipped("rpc", Target))
  <2>1. stage' = "sweep" /\ UNCHANGED <<at, k, cells, threw, report>>
    BY <1>2 DEF Enter
  <2>2. at = "remote" => Target \in seen
    <3> SUFFICES ASSUME at = "remote" PROVE Target \in seen
      OBVIOUS
    <3>1. Targets = peers /\ k \in DOMAIN Targets /\ Target = Targets[k]
      BY <1>0, RunningFacts, TargetsAre DEF RInv
    <3>2. PICK p : p = Target
      OBVIOUS
    <3>3. p \in Range(peers) /\ ~Skipped("rpc", p)
      BY <1>2, <3>1, <3>2 DEF Range
    <3>4. p \in seen
      BY <3>3, AnsweredRan
    <3> QED BY <3>2, <3>4
  <2>3. /\ inline \in {"off", "on", "stopping"} /\ selfOk \in BOOLEAN
        /\ inline # "stopping" /\ (inline # "off" => NeedsInline)
    BY <1>0 DEF RInv, OwnResponder, Types, TypeOK, NeedsInline
  <2> QED BY <1>0, <2>1, <2>2, <2>3, StaysAtTarget DEF Arguments
<1> QED BY <1>1, <1>2

LEMMA KeepsCell ==
  ASSUME RInv, NEW b, Cell(b)
  PROVE  RInv'
<1>0. /\ Running /\ stage = "sweep" /\ cells < CellsOf(at) /\ (NeedsInline => inline = "on")
      /\ cells' = cells + 1 /\ Reported(Target, cells')
      /\ UNCHANGED <<options, noRemote, echo, seen, at, stage, k, inline, selfOk, peers>>
  BY DEF Cell, Environment
<1>1. /\ at \in Measured /\ k \in 1 .. Len(Targets) /\ Len(Targets) \in Nat /\ DOMAIN Targets = 1 .. Len(Targets)
      /\ Target = Targets[k] /\ Target \in Peer \cup {Self} /\ CellsOf(at) \in Nat
      /\ Types /\ OwnResponder
  BY <1>0, RunningFacts DEF RInv
<1>2. PICK t, c : t = Target /\ c = cells'
  OBVIOUS
<1>3. Reported(t, c)
  BY <1>0, <1>2
<1>4. Stay /\ DOMAIN report' = Measured
  BY <1>0, <1>1, <1>3, StayReported, ReportedIs
<1>5. Types'
  <2>1. inline \in {"off", "on", "stopping"} /\ selfOk \in BOOLEAN /\ cells \in Nat
    BY <1>1 DEF Types, TypeOK
  <2>2. k' \in Nat \ {0} /\ k' <= Len(Targets) + 1 /\ k' <= Len(Targets) /\ cells' \in 0 .. CellsOf(at)
    BY <1>0, <1>1, <2>1
  <2> QED BY <1>0, <1>1, <1>4, <2>1, <2>2, TypesHere DEF Arguments
<1>6. Targets' = Targets /\ Target' = Target
  BY <1>0, <1>1, <1>4, NowStays DEF Target
<1>7. OwnResponder'
  <2>1. inline # "stopping"
    <3>1. cells \in Nat
      BY <1>1 DEF Types, TypeOK
    <3> QED BY <1>0, <1>1, <3>1 DEF OwnResponder
  <2> QED BY <1>0, <1>1, <1>6, <2>1 DEF OwnResponder
<1>8. SoFar'
  BY <1>0, <1>4, SoFarCell
<1>9. Ran'
  <2>1. t \in Peer \ seen => at \notin {"rpc", "remote"} /\ at # "conc"
    <3>1. at \in {"rpc", "remote"} => Target \in seen
      BY <1>0 DEF RInv, Ran
    <3>2. ASSUME at = "conc", t \in Peer
          PROVE  t \in seen
      <4>1. Targets = ConcTargets /\ peers \in Seq(Peer)
        BY <1>1, <3>2, TargetsAre DEF Types, TypeOK
      <4>2. LET p == ConcTargets[k] IN p = Self \/ (p \in Range(peers) /\ ~Skipped("rpc", p))
        BY <1>1, <4>1, ConcMembers
      <4>3. t # Self /\ t = ConcTargets[k]
        BY <1>1, <1>2, <3>2, <4>1, RunAssumption
      <4>4. t \in Range(peers) /\ ~Skipped("rpc", t)
        BY <4>2, <4>3
      <4> QED BY <3>2, <4>4, AnsweredRan
    <3> QED BY <1>2, <3>1, <3>2
  <2>2. SkippedNotFailed'
    BY <1>0, <1>1, <1>3, <2>1, RanReported DEF RInv, Ran
  <2>3. stage' = "sweep" /\ at' \in {"rpc", "remote"} => Target' \in seen'
    BY <1>0, <1>6 DEF RInv, Ran
  <2> QED BY <2>2, <2>3 DEF Ran
<1> QED BY <1>5, <1>7, <1>8, <1>9 DEF RInv

LEMMA KeepsFinishTarget ==
  ASSUME RInv, FinishTarget
  PROVE  RInv'
<1>0. /\ Running /\ stage = "sweep" /\ cells = CellsOf(at) /\ inline # "stopping"
      /\ UNCHANGED <<options, noRemote, echo, seen, selfOk, peers, report>>
  BY DEF FinishTarget, Environment
<1>1. inline \in {"off", "on", "stopping"} /\ selfOk \in BOOLEAN
  BY DEF RInv, Types, TypeOK
<1>2. CASE inline = "on"
  <2>1. inline' = "stopping" /\ UNCHANGED <<at, stage, k, cells, threw>>
    BY <1>2 DEF FinishTarget
  <2>2. NeedsInline /\ (at \in {"rpc", "remote"} => Target \in seen)
    BY <1>0, <1>2 DEF RInv, OwnResponder, NeedsInline, Ran
  <2> QED BY <1>0, <1>1, <2>1, <2>2, StaysAtTarget DEF Arguments
<1>3. CASE inline = "off"
  <2>1. NextTarget /\ inline' = inline
    BY <1>3 DEF FinishTarget
  <2> QED BY <1>0, <1>3, <2>1, LeavesTarget DEF Arguments
<1> QED BY <1>0, <1>1, <1>2, <1>3

\* ce-echo comes and goes: what is remembered of it only grows.
LEMMA KeepsToggle ==
  ASSUME RInv, NEW p \in Peer, Toggle(p)
  PROVE  RInv'
<1>0. /\ seen' = seen \cup echo' /\ echo' \subseteq echo \cup {p}
      /\ UNCHANGED <<options, noRemote, at, stage, k, cells, threw, inline, selfOk, peers, report>>
  BY DEF Toggle
<1>1. ConcTargets' = ConcTargets /\ Targets' = Targets
  <2>1. ConcTargets' = ConcTargets
    BY <1>0 DEF ConcTargets, Skipped
  <2>2. Targets' = TargetsOf(at)' /\ TargetsOf(at)' = TargetsOf(at)
    BY <1>0, <2>1, TargetsAreNext DEF TargetsOf
  <2> QED BY <2>1, <2>2, TargetsAre
<1>2. Types'
  <2>1. TypeOK'
    BY <1>0 DEF RInv, Types, TypeOK
  <2>2. echo' \subseteq seen' /\ seen' \subseteq Peer
    BY <1>0 DEF RInv, Types
  <2>3. CellsOf(at)' = CellsOf(at)
    BY <1>0 DEF CellsOf
  <2> QED BY <1>0, <1>1, <2>1, <2>2, <2>3 DEF RInv, Types
<1>3. OwnResponder'
  BY <1>0, <1>1 DEF RInv, OwnResponder, Target, CellsOf
<1>4. SoFar'
  BY <1>0, SoFarKeeps DEF Stay
<1>5. Ran'
  <2>1. SkippedNotFailed'
    BY <1>0, RanStays DEF RInv, Ran
  <2> QED BY <1>0, <1>1, <2>1 DEF RInv, Ran, Target
<1> QED BY <1>2, <1>3, <1>4, <1>5 DEF RInv

LEMMA KeepsStutter ==
  ASSUME RInv, UNCHANGED vars
  PROVE  RInv'
<1>0. UNCHANGED <<options, noRemote, at, stage, k, cells, threw, inline, selfOk, peers, report, echo, seen>>
  BY DEF vars
<1>1. ConcTargets' = ConcTargets /\ Targets' = Targets
  <2>1. ConcTargets' = ConcTargets
    BY <1>0 DEF ConcTargets, Skipped
  <2>2. Targets' = TargetsOf(at)' /\ TargetsOf(at)' = TargetsOf(at)
    BY <1>0, <2>1, TargetsAreNext DEF TargetsOf
  <2> QED BY <2>1, <2>2, TargetsAre
<1>2. Types'
  BY <1>0, <1>1 DEF RInv, Types, TypeOK, CellsOf
<1>3. OwnResponder'
  BY <1>0, <1>1 DEF RInv, OwnResponder, Target, CellsOf
<1>4. SoFar'
  BY <1>0, SoFarKeeps DEF Stay
<1>5. Ran'
  BY <1>0, <1>1, RanStays DEF RInv, Ran, Target
<1> QED BY <1>2, <1>3, <1>4, <1>5 DEF RInv

\* All actions together.
LEMMA RInvStep == RInv /\ [Next]_vars => RInv'
<1> SUFFICES ASSUME RInv, [Next]_vars PROVE RInv'
  OBVIOUS
<1>1. CASE Discover(<< >>)
  <2>1. << >> \in Seq(Peer)
    BY EmptySeq
  <2> QED BY <1>1, <2>1, KeepsDiscover
<1>2. CASE \E atlas \in SeqOf(Peer, MaxAtlas) : Discover(atlas)
  <2>1. PICK atlas \in SeqOf(Peer, MaxAtlas) : Discover(atlas)
    BY <1>2
  <2>2. atlas \in Seq(Peer)
    BY RunAssumption, BoundedSeqs
  <2> QED BY <2>1, <2>2, KeepsDiscover
<1>3. CASE \E b \in BOOLEAN : Status(b) \/ StartInline(b) \/ SelfCheck(b) \/ Probe(b) \/ Cell(b)
  BY <1>3, KeepsStatus, KeepsStartInline, KeepsSelfCheck, KeepsProbe, KeepsCell
<1>4. CASE Single \/ FinishSection \/ Render
  BY <1>4, KeepsMove
<1>5. CASE StopInline
  BY <1>5, KeepsStopInline
<1>6. CASE Enter
  BY <1>6, KeepsEnter
<1>7. CASE FinishTarget
  BY <1>7, KeepsFinishTarget
<1>8. CASE Stopped \/ UNCHANGED vars
  BY <1>8, KeepsStutter DEF Stopped
<1>9. CASE \E p \in Peer : Toggle(p)
  BY <1>9, KeepsToggle
<1> QED BY <1>1, <1>2, <1>3, <1>4, <1>5, <1>6, <1>7, <1>8, <1>9 DEF Next, Step

\* The responder of this process runs only while this node itself is measured,
\* whichever of its subscriptions, probes and cells fail.
THEOREM ResponderOnlyForSelfHolds == Spec => []ResponderOnlyForSelf
<1>1. RInv => ResponderOnlyForSelf
  BY DEF RInv, Types, OwnResponder, ResponderOnlyForSelf
<1> QED BY RInvInit, RInvStep, <1>1, PTL DEF Spec

\* The report of a run that reaches its end has every target of every section,
\* with all its cells or as skipped; and a peer that never ran ce-echo is skipped
\* by the sections that need it, not failed.
THEOREM WholeReportHolds == Spec => []WholeReport
<1>1. RInv => WholeReport
  <2> SUFFICES ASSUME RInv PROVE WholeReport
    OBVIOUS
  <2>1. SkippedNotFailed
    BY DEF RInv, Ran
  <2>2. ASSUME at = "done"
        PROVE  /\ \A s \in {"rpc", "send", "remote"} : DOMAIN report[s] = Range(peers)
               /\ \A s \in {"self", "put", "get", "object"} : DOMAIN report[s] = {Self}
               /\ DOMAIN report["conc"] = Range(ConcTargets)
               /\ \A s \in Measured, t \in Peer \cup {Self} :
                    t \in DOMAIN report[s] => report[s][t] \in {Skip, CellsOf(s)}
    <3>1. at \in Sections /\ \A s \in Measured : Rank(s) < Rank(at)
      BY <2>2, MeasuredRanks DEF Sections
    <3>2. \A s \in Measured : Whole(s)
      BY <3>1 DEF RInv, SoFar
    <3>3. \A s \in Measured : DOMAIN report[s] = Range(TargetsOf(s))
      BY <3>2 DEF Whole
    <3>4. \A s \in {"rpc", "send", "remote"} : s \in Measured /\ TargetsOf(s) = peers
      BY DEF Measured, TargetsOf
    <3>5. \A s \in {"self", "put", "get", "object"} : s \in Measured /\ TargetsOf(s) = <<Self>>
      BY DEF Measured, TargetsOf
    <3>6. "conc" \in Measured /\ TargetsOf("conc") = ConcTargets
      BY DEF Measured, TargetsOf
    <3>7. Range(<<Self>>) = {Self}
      BY DEF Range
    <3>8. \A s \in Measured : \A t \in DOMAIN report[s] : report[s][t] \in {Skip, CellsOf(s)}
      BY <3>2 DEF Whole, Entry
    <3> QED BY <3>3, <3>4, <3>5, <3>6, <3>7, <3>8
  <2> QED BY <2>1, <2>2 DEF WholeReport
<1> QED BY RInvInit, RInvStep, <1>1, PTL DEF Spec

(***************************************************************************)
(* EchoResponder: the tally, for any finite set of messages and any number *)
(* of losses of the stream.  The induction is on TallyInv: a handler has a *)
(* request pending only for a topic that is served, what was read and not  *)
(* yet handled is distinct messages no handler has, and a message is       *)
(* counted at the step that settles it, never again.                       *)
(***************************************************************************)
States == {"absent", "framed"} \cup Pending \cup Settled
PendingServed == \A m \in Msg : work[m] \in Pending => TopicOf(m) \in Served
FramesUnhandled ==
  \A j, i \in DOMAIN frames :
    work[frames[i]] = "framed" /\ (j # i => frames[j] # frames[i])
TopicsLeft == caller = "subscribing" => topics < Topics
TallyInv == TallyExact /\ PendingServed /\ FramesUnhandled /\ TopicsLeft


\* There are finitely many messages, so their sets can be counted.
LEMMA Finite == \A S \in SUBSET Msg : IsFiniteSet(S)
  BY FS_Subset, ResponderAssumption

LEMMA TallyInit == EchoInit => TallyInv
<1> SUFFICES ASSUME EchoInit PROVE TallyInv
  OBVIOUS
<1>1. EchoTypeOK
  <2>1. /\ caller \in {"subscribing", "serving", "rejected"} /\ topics \in 0 .. Topics
        /\ loop \in {"off", "connecting", "reading", "sleeping", "ended"}
        /\ frames \in Seq(Msg) /\ drops \in 0 .. MaxDrops
    BY ResponderAssumption DEF EchoInit, Topics
  <2>2. work \in [Msg -> {"absent", "framed"} \cup Pending \cup Settled]
    BY DEF EchoInit
  <2>3. counts \in [Served \cup {"errors"} -> Nat]
    BY DEF EchoInit
  <2>4. signal \in BOOLEAN /\ aborted \in BOOLEAN
    BY Zenon DEF EchoInit
  <2> QED BY <2>1, <2>2, <2>3, <2>4, Zenon DEF EchoTypeOK
<1>2. /\ \A t \in Served : Answered(t) = {} /\ counts[t] = 0
      /\ Failed = {} /\ counts["errors"] = 0 /\ drops = 0
  BY DEF EchoInit, Answered, Failed, Served
<1>3. PendingServed
  BY DEF EchoInit, PendingServed, Pending
<1>4. FramesUnhandled /\ TopicsLeft
  BY DEF EchoInit, FramesUnhandled, TopicsLeft, Topics
<1> QED BY <1>1, <1>2, <1>3, <1>4, FS_EmptySet DEF TallyInv, TallyExact

\* Steps that settle no message and count nothing.
LEMMA UncountedStep ==
  ASSUME TallyInv, EchoTypeOK', FramesUnhandled', TopicsLeft', UNCHANGED <<counts, drops>>,
         \A m \in Msg : work'[m] = work[m] \/
           (/\ work[m] \notin {"answered", "failed"} /\ work'[m] \notin {"answered", "failed"}
            /\ work'[m] \in Pending => TopicOf(m) \in Served)
  PROVE  TallyInv'
<1>1. \A t \in Served : Answered(t)' = Answered(t)
  BY DEF Answered
<1>2. Failed' = Failed
  BY DEF Failed
<1>3. PendingServed'
  BY DEF TallyInv, PendingServed
<1> QED BY <1>1, <1>2, <1>3 DEF TallyInv, TallyExact

\* Steps of the loop and of the caller that touch no message.
LEMMA LoopStep ==
  ASSUME TallyInv,
         Subscribes \/ CallerAborts \/ Stop \/ StreamOpens \/ StreamAborts \/ StreamEnds \/ Wakes
  PROVE  TallyInv'
<1>1. EchoTypeOK /\ UNCHANGED <<frames, work, counts, drops>>
  BY DEF TallyInv, TallyExact, Subscribes, SubscribeOk, SubscribeFails, CallerAborts, Stop,
     StreamOpens, StreamAborts, StreamEnds, Wakes, serving
<1>2. /\ caller' \in {"subscribing", "serving", "rejected"} /\ topics' \in 0 .. Topics
      /\ signal' \in BOOLEAN /\ aborted' \in BOOLEAN
      /\ loop' \in {"off", "connecting", "reading", "sleeping", "ended"}
  <2>1. CASE SubscribeOk
    BY <1>1, <2>1 DEF SubscribeOk, EchoTypeOK, TallyInv, TopicsLeft, Topics, stopping
  <2>2. CASE SubscribeFails \/ CallerAborts \/ Stop
    BY <1>1, <2>2 DEF SubscribeFails, CallerAborts, Stop, EchoTypeOK, stopping
  <2>3. CASE StreamOpens \/ StreamAborts \/ StreamEnds \/ Wakes
    BY <1>1, <2>3 DEF StreamOpens, StreamAborts, StreamEnds, Wakes, Again, EchoTypeOK, stopping
  <2> QED BY <2>1, <2>2, <2>3 DEF Subscribes
<1>3. EchoTypeOK'
  BY <1>1, <1>2 DEF EchoTypeOK
<1>4. FramesUnhandled'
  BY <1>1 DEF TallyInv, FramesUnhandled
<1>5. TopicsLeft'
  BY <1>1 DEF TallyInv, TopicsLeft, EchoTypeOK, Topics, Subscribes, SubscribeOk, SubscribeFails,
     CallerAborts, Stop, StreamOpens, StreamAborts, StreamEnds, Wakes
<1> QED BY <1>1, <1>3, <1>4, <1>5, UncountedStep

LEMMA DropStep == ASSUME TallyInv, StreamDrops PROVE TallyInv'
<1>1. /\ EchoTypeOK /\ drops' = drops + 1 /\ drops < MaxDrops /\ Count("errors")
      /\ loop' = "sleeping" /\ UNCHANGED <<caller, topics, signal, aborted, frames, work>>
  BY DEF TallyInv, TallyExact, StreamDrops, stopping
<1>2. /\ counts' \in [Served \cup {"errors"} -> Nat]
      /\ counts'["errors"] = counts["errors"] + 1
      /\ \A t \in Served : counts'[t] = counts[t]
  BY <1>1 DEF Count, EchoTypeOK, Served
<1>3. EchoTypeOK'
  BY <1>1, <1>2, ResponderAssumption DEF EchoTypeOK
<1>4. Failed' = Failed /\ \A t \in Served : Answered(t)' = Answered(t)
  BY <1>1 DEF Failed, Answered
<1>5. Cardinality(Failed) \in Nat /\ drops \in Nat
  BY <1>1, Finite, FS_CardinalityType DEF Failed, EchoTypeOK
<1>6. PendingServed' /\ FramesUnhandled' /\ TopicsLeft'
  BY <1>1 DEF TallyInv, PendingServed, FramesUnhandled, TopicsLeft
<1> QED BY <1>1, <1>2, <1>3, <1>4, <1>5, <1>6 DEF TallyInv, TallyExact

LEMMA ReadStep ==
  ASSUME TallyInv, NEW ms \in Chunks, Reads(ms)
  PROVE  TallyInv'
<1>1. /\ EchoTypeOK /\ frames' = ms
      /\ UNCHANGED <<caller, topics, signal, aborted, loop, counts, drops>>
  BY DEF TallyInv, TallyExact, Reads, stopping
<1>2. /\ ms \in Seq(Msg)
      /\ \A j, i \in DOMAIN ms : j # i => ms[j] # ms[i]
  <2>1. CASE \E m \in Msg : ms = <<m>>
    BY <2>1
  <2>2. CASE \E m, n \in Msg : ms = <<m, n>> /\ m # n
    BY <2>2
  <2> QED BY <2>1, <2>2 DEF Chunks
<1>3. \A m \in Msg : work'[m] = work[m] \/ (work[m] = "absent" /\ work'[m] = "framed")
  BY <1>1 DEF Reads
<1>4. work' \in [Msg -> States]
  BY <1>1 DEF Reads, EchoTypeOK, States
<1>5. EchoTypeOK'
  BY <1>1, <1>2, <1>4 DEF EchoTypeOK, States
<1>6. FramesUnhandled' /\ TopicsLeft'
  BY <1>1, <1>2 DEF Reads, FramesUnhandled, TallyInv, TopicsLeft
<1> QED BY <1>1, <1>3, <1>5, <1>6, UncountedStep DEF Pending

LEMMA FirstStepFacts ==
  ASSUME NEW m \in Msg
  PROVE  /\ FirstStep(m) \in Pending \cup {"ignored"}
         /\ FirstStep(m) \in Pending => TopicOf(m) \in Served
  BY DEF FirstStep, Pending, Served

\* A message is tallied once, when its handler ends.
LEMMA HandleStep == ASSUME TallyInv, Handles PROVE TallyInv'
<1>1. /\ EchoTypeOK /\ FramesUnhandled /\ frames # <<>> /\ frames' = Tail(frames)
      /\ work' = [work EXCEPT ![Head(frames)] = FirstStep(Head(frames))]
      /\ UNCHANGED <<caller, topics, signal, aborted, loop, counts, drops>>
  BY DEF TallyInv, TallyExact, Handles, MoveTo, stopping
<1>2. PICK m \in Msg : m = Head(frames)
  BY <1>1 DEF EchoTypeOK
<1>3. /\ work \in [Msg -> States] /\ work' = [work EXCEPT ![m] = FirstStep(m)]
      /\ FirstStep(m) \in States /\ work[m] = "framed"
  BY <1>1, <1>2, FirstStepFacts DEF EchoTypeOK, FramesUnhandled, States, Pending, Settled
<1>4. EchoTypeOK'
  BY <1>1, <1>3 DEF EchoTypeOK, States
<1>5. FramesUnhandled'
  <2>1. \A i \in DOMAIN frames' : /\ i + 1 \in DOMAIN frames /\ frames'[i] = frames[i + 1]
                                  /\ frames'[i] \in Msg /\ frames'[i] # m
    BY <1>1, <1>2 DEF EchoTypeOK, FramesUnhandled
  <2>2. \A i \in DOMAIN frames' : work'[frames'[i]] = work[frames'[i]]
    BY <1>3, <2>1
  <2>3. \A j, i \in DOMAIN frames' : j # i => j + 1 # i + 1
    BY <1>1 DEF EchoTypeOK
  <2> QED BY <1>1, <2>1, <2>2, <2>3 DEF FramesUnhandled
<1>6. /\ work[m] \notin {"answered", "failed"} /\ work'[m] \notin {"answered", "failed"}
      /\ work'[m] \in Pending => TopicOf(m) \in Served
      /\ \A n \in Msg \ {m} : work'[n] = work[n]
  BY <1>3, FirstStepFacts DEF Pending
<1>7. TopicsLeft'
  BY <1>1 DEF TallyInv, TopicsLeft
<1> QED BY <1>1, <1>4, <1>5, <1>6, <1>7, UncountedStep

\* A message that settles as answered or failed was counted as neither.
LEMMA SettleStep ==
  ASSUME TallyInv, NEW m \in Msg, Settles(m)
  PROVE  TallyInv'
<1>1. /\ EchoTypeOK /\ PendingServed /\ FramesUnhandled /\ work[m] \in Pending
      /\ UNCHANGED <<caller, topics, signal, aborted, loop, frames, drops>>
  BY DEF TallyInv, TallyExact, Settles, RequestOk, RequestFails, Pending, stopping
<1>0. TopicsLeft'
  BY <1>1 DEF TallyInv, TopicsLeft
<1>2. TopicOf(m) \in Served
  BY <1>1 DEF PendingServed
<1>3. ASSUME NEW to \in {"hashing", "replying", "answered", "failed"}, MoveTo(m, to)
      PROVE  /\ work' \in [Msg -> States] /\ work'[m] = to
             /\ \A n \in Msg \ {m} : work'[n] = work[n]
             /\ FramesUnhandled' /\ PendingServed'
  <2>1. /\ work' \in [Msg -> States] /\ work'[m] = to
        /\ \A n \in Msg \ {m} : work'[n] = work[n]
    BY <1>1, <1>3 DEF MoveTo, EchoTypeOK, States, Pending, Settled
  <2>2. \A i \in DOMAIN frames : frames[i] \in Msg \ {m}
    BY <1>1 DEF EchoTypeOK, FramesUnhandled, Pending
  <2>3. FramesUnhandled'
    BY <1>1, <2>1, <2>2 DEF FramesUnhandled
  <2>4. PendingServed'
    BY <1>1, <1>2, <2>1 DEF PendingServed
  <2> QED BY <2>1, <2>3, <2>4
<1>4. ASSUME NEW i \in Served \cup {"errors"}, Count(i)
      PROVE  /\ counts' \in [Served \cup {"errors"} -> Nat] /\ counts'[i] = counts[i] + 1
             /\ \A j \in (Served \cup {"errors"}) \ {i} : counts'[j] = counts[j]
  BY <1>1, <1>4 DEF Count, EchoTypeOK
<1>5. ASSUME NEW to \in {"hashing", "replying"}, MoveTo(m, to), UNCHANGED counts
      PROVE  TallyInv'
  <2>1. EchoTypeOK'
    BY <1>1, <1>3, <1>5 DEF EchoTypeOK, States
  <2> QED BY <1>0, <1>1, <1>2, <1>3, <1>5, <2>1, UncountedStep DEF Pending
<1>6. CASE MoveTo(m, "answered") /\ Count(TopicOf(m))
  <2>1. EchoTypeOK'
    BY <1>1, <1>2, <1>3, <1>4, <1>6 DEF EchoTypeOK, States
  <2>2. m \notin Answered(TopicOf(m)) /\ IsFiniteSet(Answered(TopicOf(m)))
    BY <1>1, Finite DEF Answered, Pending
  <2>3. Answered(TopicOf(m))' = Answered(TopicOf(m)) \cup {m}
    BY <1>3, <1>6 DEF Answered
  <2>4. Cardinality(Answered(TopicOf(m))') = Cardinality(Answered(TopicOf(m))) + 1
    BY <2>2, <2>3, FS_AddElement
  <2>5. \A t \in Served : t # TopicOf(m) => Answered(t)' = Answered(t)
    BY <1>3, <1>6 DEF Answered
  <2>6. Failed' = Failed
    BY <1>1, <1>3, <1>6 DEF Failed, Pending
  <2>7. "errors" # TopicOf(m)
    BY <1>2 DEF Served
  <2>8. \A t \in Served : counts'[t] = Cardinality(Answered(t))'
    BY <1>2, <1>4, <1>6, <2>4, <2>5 DEF TallyInv, TallyExact
  <2>9. counts'["errors"] = Cardinality(Failed') + drops'
    BY <1>1, <1>2, <1>4, <1>6, <2>6, <2>7 DEF TallyInv, TallyExact
  <2> QED BY <1>0, <1>3, <1>6, <2>1, <2>8, <2>9 DEF TallyInv, TallyExact
<1>7. CASE MoveTo(m, "failed") /\ Count("errors")
  <2>1. EchoTypeOK'
    BY <1>1, <1>3, <1>4, <1>7 DEF EchoTypeOK, States
  <2>2. m \notin Failed /\ IsFiniteSet(Failed)
    BY <1>1, Finite DEF Failed, Pending
  <2>3. Failed' = Failed \cup {m}
    BY <1>3, <1>7 DEF Failed
  <2>4. Cardinality(Failed') = Cardinality(Failed) + 1 /\ Cardinality(Failed) \in Nat
    BY <2>2, <2>3, FS_AddElement, FS_CardinalityType
  <2>5. \A t \in Served : Answered(t)' = Answered(t) /\ t # "errors"
    BY <1>1, <1>3, <1>7 DEF Answered, Pending, Served
  <2>6. \A t \in Served : counts'[t] = Cardinality(Answered(t))'
    BY <1>4, <1>7, <2>5 DEF TallyInv, TallyExact
  <2>7. counts'["errors"] = Cardinality(Failed') + drops'
    BY <1>1, <1>4, <1>7, <2>4 DEF TallyInv, TallyExact, EchoTypeOK
  <2> QED BY <1>0, <1>3, <1>7, <2>1, <2>6, <2>7 DEF TallyInv, TallyExact
<1> QED BY <1>2, <1>5, <1>6, <1>7 DEF Settles, RequestOk, RequestFails

\* The induction over the loop, the caller and the handlers (38-96).
THEOREM TallyInvariant == EchoSpec => []TallyInv
<1>1. TallyInv /\ [EchoNext]_echoVars => TallyInv'
  <2> SUFFICES ASSUME TallyInv, [EchoNext]_echoVars PROVE TallyInv'
    OBVIOUS
  <2>1. CASE UNCHANGED echoVars
    BY <2>1 DEF echoVars, TallyInv, TallyExact, EchoTypeOK, PendingServed, FramesUnhandled,
       TopicsLeft, Answered, Failed
  <2> QED BY <2>1, LoopStep, DropStep, ReadStep, HandleStep, SettleStep DEF EchoNext
<1> QED BY <1>1, TallyInit, PTL DEF EchoSpec

\* One count for each message that was answered or failed, whatever overlaps,
\* and one error for each loss of the stream (53-66, 73-96).
THEOREM ResponderTally == EchoSpec => []TallyExact
<1>1. TallyInv => TallyExact
  BY DEF TallyInv
<1> QED BY <1>1, TallyInvariant, PTL
===============================================================================
