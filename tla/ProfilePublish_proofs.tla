------------------------ MODULE ProfilePublish_proofs ------------------------
(***************************************************************************)
(* A profile from the measurement to the page.                             *)
(* What buildAndPublish publishes, for any number of runs and any length   *)
(* of the chain: it carries its own seed, is not backdated but for a beacon*)
(* the node did not give, and is published once.  The induction is on      *)
(* PublishInv: while a run is under way everything published is of an      *)
(* earlier run, from before the beacon the run has read.                   *)
(* What the page shows, for any number of ticks in flight: the answers of  *)
(* one node.  The induction is on PageInv: a tick asks its own node only.  *)
(* What the mesh health is computed to be, for any graph: that of the      *)
(* graph.  The induction is on MeshInv: what is fused is the graph of the  *)
(* rows that were read, and the parents are a forest whose trees are the   *)
(* components of the edges joined so far.                                  *)
(***************************************************************************)
EXTENDS ProfilePublish, ScoreboardPage, MeshHealth, FiniteSums_proofs, SequenceTheorems,
        FunctionTheorems

Ended == step \in {"resolved", "rejected"}
HasBeacon == step \in {"measure", "assemble", "publish", "signal"}
HasProfile == step \in {"publish", "signal"}

\* The run's own state: what it read is of the past, what it assembled is its
\* own and carries what it read.
OwnProfile ==
  /\ step = "assemble" => seeded = began.hash
  /\ HasProfile => /\ profile \in Profile /\ profile.run = run
                   /\ profile.beacon = began /\ profile.seed = began.hash
                   /\ profile.tip <= height /\ profile.at <= clock

\* What is published is of the past, and while a run is under way, of earlier
\* runs, from before its beacon and its profile.
PastOnly ==
  \A p \in Published :
    /\ p.run <= run /\ p.seed = p.beacon.hash /\ p.tip <= height /\ p.at <= clock
    /\ ~Ended => p.run < run
    /\ HasBeacon => NotBefore(p.tip, began)
    /\ HasProfile => p.at <= profile.at

PublishInv == TypeOK /\ OwnProfile /\ PastOnly /\ NotBackdated /\ PublishedOnce

-----------------------------------------------------------------------------
LEMMA InitInv == Init => PublishInv
  BY PublishAssumption DEF Init, PublishInv, TypeOK, OwnProfile, PastOnly, Published,
     NotBackdated, PublishedOnce, Ended, HasBeacon, HasProfile, Steps, Beacon, Hashes

\* A beacon read now is from no block before now, whatever the answer was.
LEMMA CoercedNotBefore ==
  ASSUME TypeOK, NEW b \in Coerced
  PROVE  b \in Beacon /\ \A tip \in Nat : tip <= height => NotBefore(tip, b)
<1>1. /\ b.height \in {height, 0} /\ b.hash \in {height, Empty}
      /\ b = [height |-> b.height, hash |-> b.hash]
  BY DEF Coerced
<1>2. b \in Beacon
  BY <1>1, PublishAssumption DEF TypeOK, Beacon, Hashes
<1> QED BY <1>1, <1>2 DEF NotBefore

\* Steps that publish nothing and leave what is published in the past.
LEMMA QuietStep ==
  ASSUME PublishInv, TypeOK', OwnProfile', UNCHANGED out,
         \A p \in Published :
           /\ p.run <= run' /\ p.tip <= height' /\ p.at <= clock'
           /\ ~Ended' => p.run < run'
           /\ HasBeacon' => NotBefore(p.tip, began')
           /\ HasProfile' => p.at <= profile'.at,
         step' = "resolved" => step = "resolved" /\ UNCHANGED <<via, profile>>
  PROVE  PublishInv'
<1>1. PastOnly'
  BY DEF PublishInv, PastOnly, Published, out
<1>2. NotBackdated'
  BY DEF PublishInv, NotBackdated, Published, out
<1>3. PublishedOnce'
  BY DEF PublishInv, PublishedOnce, out
<1> QED BY <1>1, <1>2, <1>3 DEF PublishInv

\* A step that publishes the profile of the run, to the node or as a signal.
LEMMA PublishStep ==
  ASSUME PublishInv, HasProfile, Published' = Published \cup {profile},
         UNCHANGED <<run, profile, height, clock>>, Ended'
  PROVE  PastOnly' /\ NotBackdated'
<1>1. \A p \in Published : p.run < run /\ NotBefore(p.tip, began) /\ p.at <= profile.at
  BY DEF PublishInv, PastOnly, HasProfile, HasBeacon, Ended
<1>2. /\ profile.run = run /\ profile.beacon = began /\ profile.seed = began.hash
      /\ profile.tip <= height /\ profile.at <= clock
  BY DEF PublishInv, OwnProfile
<1>3. run \in Nat
  BY PublishAssumption DEF PublishInv, TypeOK
<1>4. PastOnly'
  <2> SUFFICES ASSUME NEW p \in Published'
               PROVE  p.run <= run /\ p.seed = p.beacon.hash /\ p.tip <= height /\ p.at <= clock
    BY DEF PastOnly, Ended, HasBeacon, HasProfile
  <2>1. CASE p \in Published
    BY <2>1 DEF PublishInv, PastOnly
  <2>2. CASE p = profile
    BY <1>2, <1>3, <2>2
  <2> QED BY <2>1, <2>2
<1>5. NotBackdated'
  <2> SUFFICES ASSUME NEW p \in Published', NEW q \in Published', p.run < q.run
               PROVE  NotBefore(p.tip, q.beacon) /\ p.at <= q.at
    BY DEF NotBackdated
  <2>1. CASE p \in Published /\ q \in Published
    BY <2>1 DEF PublishInv, NotBackdated
  <2>2. CASE p \in Published /\ q = profile
    BY <1>1, <1>2, <2>2
  <2>3. CASE p = profile
    <3>1. q.run <= run
      BY <1>1, <1>2, <1>3 DEF PublishInv, PastOnly
    <3>2. q.run \in Nat
      BY <1>2, <1>3 DEF PublishInv, TypeOK, Published, Profile
    <3> QED BY <1>2, <1>3, <2>3, <3>1, <3>2
  <2> QED BY <2>1, <2>2, <2>3
<1> QED BY <1>4, <1>5

-----------------------------------------------------------------------------
LEMMA RunStep ==
  ASSUME PublishInv, ReadStatus \/ ReadBeacon \/ Measure \/ Throws
  PROVE  PublishInv'
<1>1. /\ TypeOK /\ OwnProfile /\ PastOnly
      /\ step \in {"status", "beacon", "measure", "assemble"}
      /\ step' \in {"beacon", "measure", "assemble", "rejected"}
      /\ UNCHANGED <<run, profile, height, clock, out>>
  BY DEF PublishInv, ReadStatus, ReadBeacon, Measure, Throws, Goto, world
<1>3. began' = began \/ (step = "beacon" /\ began' \in Coerced)
  BY DEF ReadStatus, ReadBeacon, Measure, Throws
<1>2. TypeOK'
  <2>1. began' \in Beacon
    BY <1>1, <1>3, CoercedNotBefore DEF TypeOK
  <2>2. seeded' \in Hashes
    BY <1>1 DEF TypeOK, Beacon, ReadStatus, ReadBeacon, Measure, Throws
  <2> QED BY <1>1, <2>1, <2>2
          DEF TypeOK, Steps, ReadStatus, ReadBeacon, Measure, Throws, Goto, world, out
<1>4. OwnProfile'
  BY <1>1 DEF OwnProfile, HasProfile, ReadStatus, ReadBeacon, Measure, Throws, Goto
<1>5. ASSUME NEW p \in Published
      PROVE  /\ p.run < run /\ p.tip <= height /\ p.at <= clock
             /\ HasBeacon' => NotBefore(p.tip, began')
  <2>1. /\ p.run < run /\ p.tip <= height /\ p.at <= clock
        /\ HasBeacon => NotBefore(p.tip, began)
    BY <1>1, <1>5 DEF PastOnly, Ended
  <2>2. p.tip \in Nat
    BY <1>1, PublishAssumption DEF TypeOK, Published, Profile
  <2>3. began' \in Coerced => NotBefore(p.tip, began')
    BY <1>1, <2>1, <2>2, CoercedNotBefore
  <2>4. HasBeacon' => HasBeacon \/ step = "beacon"
    BY DEF HasBeacon, ReadStatus, ReadBeacon, Measure, Throws, Goto
  <2>5. step = "beacon" /\ HasBeacon' => began' \in Coerced
    BY DEF HasBeacon, ReadStatus, ReadBeacon, Measure, Throws, Goto
  <2> QED BY <1>3, <2>1, <2>3, <2>4, <2>5
<1>6. run \in Nat /\ \A p \in Published : p.run \in Nat
  BY <1>1, PublishAssumption DEF TypeOK, Published, Profile
<1> QED BY <1>1, <1>2, <1>4, <1>5, <1>6, QuietStep DEF HasProfile

\* A profile is assembled with the beacon that the run has read.
LEMMA AssembleStep == ASSUME PublishInv, Assemble PROVE PublishInv'
<1>1. TypeOK /\ OwnProfile /\ PastOnly /\ step = "assemble" /\ step' = "publish"
  BY DEF PublishInv, Assemble, Goto
<1>2. profile' = [run |-> run, beacon |-> began, seed |-> seeded, at |-> clock, tip |-> height]
  BY DEF Assemble
<1>3. profile' \in Profile
  BY <1>1, <1>2 DEF TypeOK, Profile
<1>4. TypeOK'
  BY <1>1, <1>3 DEF Assemble, TypeOK, Steps, Goto, world, out
<1>5. OwnProfile'
  BY <1>1, <1>2, <1>3, PublishAssumption DEF Assemble, OwnProfile, TypeOK, Goto, world, HasProfile
<1>6. UNCHANGED <<run, began, height, clock, out>>
  BY DEF Assemble, Goto, world
<1>7. \A p \in Published : p.run < run /\ p.tip <= height /\ p.at <= clock
                              /\ NotBefore(p.tip, began)
  BY <1>1 DEF PastOnly, Ended, HasBeacon
<1>8. run \in Nat /\ \A p \in Published : p.run \in Nat
  BY <1>1, PublishAssumption DEF TypeOK, Published, Profile
<1> QED BY <1>1, <1>2, <1>4, <1>5, <1>6, <1>7, <1>8, QuietStep

\* A refusal that falls back has stored nothing.
LEMMA PublishProfileStep == ASSUME PublishInv, PublishProfile PROVE PublishInv'
<1>1. /\ TypeOK /\ OwnProfile /\ PastOnly /\ PublishedOnce /\ step = "publish"
      /\ UNCHANGED <<run, began, seeded, profile, height, clock, routed, air>>
  BY DEF PublishInv, PublishProfile, Goto, world
<1>2. profile \in Profile /\ profile.run = run
  BY <1>1 DEF OwnProfile, HasProfile
<1>3. /\ store' = store \/ store' = store \cup {profile}
      /\ step' = "signal" => store' = store
      /\ step' = "resolved" => store' = store \cup {profile} /\ via' = "publish"
      /\ step' \in {"resolved", "rejected", "signal"}
      /\ via' \in {"none", "publish", "signal"}
      /\ answer' \in {"none", "signed", "noRoute", "refused", "notFound", "lost"}
  BY <1>1 DEF PublishProfile, StoreAfter, FallsBack, Answers, Goto, TypeOK
<1>4. TypeOK'
  BY <1>1, <1>2, <1>3 DEF TypeOK, Steps
<1>5. OwnProfile'
  BY <1>1, <1>3 DEF OwnProfile, HasProfile
<1>6. CASE store' = store /\ step' # "resolved"
  <2>1. \A p \in Published : /\ p.run < run /\ p.tip <= height /\ p.at <= clock
                             /\ NotBefore(p.tip, began) /\ p.at <= profile.at
    BY <1>1 DEF PastOnly, Ended, HasBeacon, HasProfile
  <2>2. run \in Nat /\ \A p \in Published : p.run \in Nat
    BY <1>1, PublishAssumption DEF TypeOK, Published, Profile
  <2>3. UNCHANGED out
    BY <1>1, <1>6 DEF out
  <2> QED BY <1>1, <1>4, <1>5, <1>6, <2>1, <2>2, <2>3, QuietStep
<1>7. CASE store' = store \cup {profile} /\ step' # "signal"
  <2>1. PastOnly' /\ NotBackdated'
    BY <1>1, <1>3, <1>7, PublishStep DEF Published, Ended, HasProfile
  <2>2. profile \notin air
    <3>1. \A p \in air : p.run < run
      BY <1>1 DEF PastOnly, Published, Ended
    <3>2. run \in Nat
      BY <1>1, PublishAssumption DEF TypeOK
    <3> QED BY <1>2, <3>1, <3>2
  <2>3. PublishedOnce'
    BY <1>1, <1>3, <1>7, <2>2 DEF PublishedOnce
  <2> QED BY <1>4, <1>5, <2>1, <2>3 DEF PublishInv
<1> QED BY <1>3, <1>6, <1>7

\* A profile that was sent is published by its run alone.
LEMMA SendSignalStep == ASSUME PublishInv, SendSignal PROVE PublishInv'
<1>1. /\ TypeOK /\ OwnProfile /\ PastOnly /\ PublishedOnce /\ step = "signal"
      /\ UNCHANGED <<run, began, seeded, profile, answer, height, clock, routed, store>>
  BY DEF PublishInv, SendSignal, Goto, world
<1>2. profile \in Profile /\ profile.run = run
  BY <1>1 DEF OwnProfile, HasProfile
<1>3. /\ air' = air \/ air' = air \cup {profile}
      /\ step' \in {"resolved", "rejected"}
      /\ step' = "resolved" => profile \in air' /\ via' = "signal"
      /\ via' \in {"none", "publish", "signal"}
  BY <1>1 DEF SendSignal, Goto, TypeOK
<1>4. TypeOK' /\ OwnProfile'
  BY <1>1, <1>2, <1>3 DEF TypeOK, Steps, OwnProfile, HasProfile
<1>5. \A p \in Published : /\ p.run < run /\ p.tip <= height /\ p.at <= clock
  BY <1>1 DEF PastOnly, Ended
<1>6. run \in Nat /\ \A p \in Published : p.run \in Nat
  BY <1>1, PublishAssumption DEF TypeOK, Published, Profile
<1>7. profile \notin store /\ profile \notin air
  BY <1>2, <1>5, <1>6 DEF Published
<1>8. CASE air' = air
  <2>1. step' = "rejected" /\ UNCHANGED out
    BY <1>1, <1>3, <1>7, <1>8 DEF out
  <2> QED BY <1>1, <1>4, <1>5, <1>6, <2>1, QuietStep DEF Ended, HasBeacon, HasProfile
<1>9. CASE air' = air \cup {profile}
  <2>1. PastOnly' /\ NotBackdated'
    BY <1>1, <1>3, <1>9, PublishStep DEF Published, Ended, HasProfile
  <2>2. PublishedOnce'
    BY <1>1, <1>3, <1>7, <1>9 DEF PublishedOnce
  <2> QED BY <1>4, <2>1, <2>2 DEF PublishInv
<1> QED BY <1>3, <1>8, <1>9

\* The next run is later than all that was published.
LEMMA RunAgainStep == ASSUME PublishInv, RunAgain PROVE PublishInv'
<1>1. /\ TypeOK /\ OwnProfile /\ PastOnly
      /\ run' = run + 1 /\ run < Runs /\ step' = "status"
      /\ UNCHANGED <<began, seeded, height, clock, routed, out>>
  BY DEF PublishInv, RunAgain, world
<1>2. TypeOK'
  BY <1>1, PublishAssumption DEF RunAgain, TypeOK, Steps, out
<1>3. OwnProfile'
  BY <1>1 DEF OwnProfile, HasProfile
<1>4. \A p \in Published : /\ p.run <= run /\ p.tip <= height /\ p.at <= clock
  BY <1>1 DEF PastOnly
<1>5. run \in Nat /\ \A p \in Published : p.run \in Nat
  BY <1>1, PublishAssumption DEF TypeOK, Published, Profile
<1>6. \A p \in Published : p.run <= run' /\ p.run < run'
  BY <1>1, <1>4, <1>5
<1> QED BY <1>1, <1>2, <1>3, <1>4, <1>6, QuietStep DEF HasBeacon, HasProfile

LEMMA WorldStep ==
  ASSUME PublishInv, BeaconAdvances \/ Tick \/ Upgrade
  PROVE  PublishInv'
<1>1. /\ TypeOK /\ OwnProfile /\ PastOnly
      /\ UNCHANGED <<run, step, began, seeded, profile, answer, via, out>>
      /\ height' \in {height, height + 1} /\ height' \in 0 .. MaxHeight
      /\ clock' \in {clock, clock + 1} /\ clock' \in 0 .. MaxClock
      /\ routed' \in BOOLEAN
  <2>1. /\ TypeOK /\ OwnProfile /\ PastOnly
        /\ height \in 0 .. MaxHeight /\ clock \in 0 .. MaxClock /\ routed \in BOOLEAN
    BY DEF PublishInv, TypeOK
  <2>2. CASE BeaconAdvances
    BY <2>1, <2>2, PublishAssumption DEF BeaconAdvances
  <2>3. CASE Tick
    BY <2>1, <2>3, PublishAssumption DEF Tick
  <2>4. CASE Upgrade
    BY <2>1, <2>4, PublishAssumption DEF Upgrade
  <2> QED BY <2>2, <2>3, <2>4
<1>2. height \in Nat /\ clock \in Nat /\ height <= height' /\ clock <= clock'
  BY <1>1, PublishAssumption DEF TypeOK
<1>3. TypeOK'
  BY <1>1 DEF TypeOK, out
<1>4. HasProfile => profile.tip \in Nat /\ profile.at \in Nat
  BY <1>1, PublishAssumption DEF OwnProfile, Profile
<1>5. OwnProfile'
  BY <1>1, <1>2, <1>4, PublishAssumption DEF OwnProfile, HasProfile, TypeOK
<1>6. \A p \in Published : p.tip \in Nat /\ p.at \in Nat
  BY <1>1, PublishAssumption DEF TypeOK, Published, Profile
<1>7. \A p \in Published : /\ p.run <= run /\ p.tip <= height' /\ p.at <= clock'
                           /\ ~Ended => p.run < run
                           /\ HasBeacon => NotBefore(p.tip, began)
                           /\ HasProfile => p.at <= profile.at
  BY <1>1, <1>2, <1>6 DEF PastOnly
<1> QED BY <1>1, <1>3, <1>5, <1>7, QuietStep DEF Ended, HasBeacon, HasProfile

LEMMA IdleStep == ASSUME PublishInv, UNCHANGED vars PROVE PublishInv'
  BY DEF PublishInv, TypeOK, OwnProfile, PastOnly, NotBackdated, PublishedOnce, Published,
     Ended, HasBeacon, HasProfile, NotBefore, vars

\* The induction over buildAndPublish, block arrivals and upgrades (521-553).
THEOREM PublishInvariant == Spec => []PublishInv
<1>1. PublishInv /\ [Next]_vars => PublishInv'
  BY RunStep, AssembleStep, PublishProfileStep, SendSignalStep, RunAgainStep, WorldStep,
     IdleStep DEF Next, Moves
<1> QED BY InitInv, <1>1, PTL DEF Spec

\* Every published profile carries the hash that seeded its samples (530-547).
THEOREM PublishedSeed == Spec => []SeedIsBeacon
<1>1. PublishInv => SeedIsBeacon
  BY DEF PublishInv, PastOnly, SeedIsBeacon
<1> QED BY <1>1, PublishInvariant, PTL

\* No run's profile is from before the end of an earlier one, in its time and,
\* where the node gave it one, in its beacon (529-534).
THEOREM PublishedInOrder == Spec => []NotBackdated
<1>1. PublishInv => NotBackdated
  BY DEF PublishInv
<1> QED BY <1>1, PublishInvariant, PTL

\* A run that resolves has published, one way, for any run (468-495).
THEOREM PublishedOneWay == Spec => []PublishedOnce
<1>1. PublishInv => PublishedOnce
  BY DEF PublishInv
<1> QED BY <1>1, PublishInvariant, PTL
-----------------------------------------------------------------------------
(***************************************************************************)
(* ScoreboardPage: what is drawn is of one node.  A tick in flight asks the*)
(* node of its own client and no other, however far its requests have got. *)
(***************************************************************************)
OwnTick(t) == (\A p \in Part : t.asks[p] = t.client) /\ t.from \subseteq {t.client}

PageInv ==
  /\ OneNodeShown
  /\ \A j \in DOMAIN flight : OwnTick(flight[j])

\* A tick begins with requests to its own client.
LEMMA NewTickIs ==
  ASSUME NEW u \in Url
  PROVE  NewTick(u) \in PageTick /\ OwnTick(NewTick(u))
<1>1. Requests \in [Part -> Nat]
  BY PageAssumption
<1>2. [p \in Part |-> u] \in [Part -> Url] /\ \A p \in Part : [q \in Part |-> u][p] = u
  OBVIOUS
<1> QED BY <1>1, <1>2 DEF NewTick, PageTick, OwnTick

\* A tick that is drawn leaves the others in flight as they were.
LEMMA RemovedIs ==
  ASSUME NEW s \in Seq(PageTick), NEW j \in DOMAIN s,
         \A i \in DOMAIN s : OwnTick(s[i])
  PROVE  /\ RemoveAt(s, j) \in Seq(PageTick) /\ Len(RemoveAt(s, j)) = Len(s) - 1
         /\ \A i \in DOMAIN RemoveAt(s, j) : OwnTick(RemoveAt(s, j)[i])
<1>1. /\ Len(s) \in Nat /\ DOMAIN s = 1 .. Len(s) /\ j \in 1 .. Len(s)
      /\ \A i \in 1 .. Len(s) : s[i] \in PageTick
  BY LenProperties, ElementOfSeq
<1> DEFINE a == SubSeq(s, 1, j - 1)
           b == SubSeq(s, j + 1, Len(s))
<1>2. a \in Seq(PageTick) /\ Len(a) = j - 1 /\ \A i \in 1 .. j - 1 : a[i] = s[i]
  <2>1. 1 \in Int /\ j - 1 \in Int /\ \A i \in 1 .. j - 1 : s[i] \in PageTick
    BY <1>1
  <2>2. /\ a \in Seq(PageTick) /\ Len(a) = IF 1 <= j - 1 THEN j - 1 - 1 + 1 ELSE 0
        /\ \A i \in 1 .. j - 1 - 1 + 1 : a[i] = s[1 + i - 1]
    BY <2>1, SubSeqProperties
  <2> HIDE DEF a
  <2> QED BY <1>1, <2>2
<1>3. b \in Seq(PageTick) /\ Len(b) = Len(s) - j /\ \A i \in 1 .. Len(s) - j : b[i] = s[j + i]
  <2>1. j + 1 \in Int /\ Len(s) \in Int /\ \A i \in j + 1 .. Len(s) : s[i] \in PageTick
    BY <1>1
  <2>2. /\ b \in Seq(PageTick) /\ Len(b) = IF j + 1 <= Len(s) THEN Len(s) - (j + 1) + 1 ELSE 0
        /\ \A i \in 1 .. Len(s) - (j + 1) + 1 : b[i] = s[j + 1 + i - 1]
    BY <2>1, SubSeqProperties
  <2> HIDE DEF b
  <2>3. Len(s) - (j + 1) + 1 = Len(s) - j /\ \A i \in 1 .. Len(s) - j : j + 1 + i - 1 = j + i
    BY <1>1
  <2> QED BY <1>1, <2>2, <2>3
<1>4. RemoveAt(s, j) = a \o b
  BY DEF RemoveAt
<1> HIDE DEF a, b
<1>5. /\ a \o b \in Seq(PageTick) /\ Len(a \o b) = Len(a) + Len(b)
      /\ \A i \in 1 .. Len(a) + Len(b) :
           (a \o b)[i] = IF i <= Len(a) THEN a[i] ELSE b[i - Len(a)]
  BY <1>2, <1>3, ConcatProperties
<1>8. Len(a) + Len(b) = Len(s) - 1
  BY <1>1, <1>2, <1>3
<1>9. PICK c \in Seq(PageTick) : c = a \o b
  BY <1>5
<1>6. /\ Len(c) = Len(s) - 1 /\ DOMAIN c = 1 .. Len(s) - 1
      /\ \A i \in 1 .. Len(s) - 1 : c[i] = IF i <= j - 1 THEN a[i] ELSE b[i - (j - 1)]
  BY <1>2, <1>5, <1>8, <1>9, LenProperties
<1>7. ASSUME NEW i \in 1 .. Len(s) - 1 PROVE OwnTick(c[i])
  <2>1. CASE i <= j - 1
    <3>1. i \in 1 .. j - 1 /\ i \in 1 .. Len(s)
      BY <1>1, <2>1
    <3>2. c[i] = s[i]
      BY <1>2, <1>6, <2>1, <3>1
    <3> QED BY <1>1, <3>1, <3>2
  <2>2. CASE i > j - 1
    <3>1. i - (j - 1) \in 1 .. Len(s) - j /\ j + (i - (j - 1)) \in 1 .. Len(s)
      BY <1>1, <2>2
    <3>2. c[i] = b[i - (j - 1)]
      BY <1>1, <1>6, <2>2
    <3>3. b[i - (j - 1)] = s[j + (i - (j - 1))]
      BY <1>3, <3>1
    <3> QED BY <1>1, <3>1, <3>2, <3>3
  <2> QED BY <1>1, <2>1, <2>2
<1> QED BY <1>4, <1>6, <1>7, <1>9

\* A tick that begins is the last in flight.
LEMMA BeginIs ==
  ASSUME PageInv, NEW u \in Url, Begin(u)
  PROVE  /\ flight' \in Seq(PageTick) /\ Len(flight') <= MaxFlight /\ status' = "load"
         /\ \A j \in DOMAIN flight' : OwnTick(flight'[j])
<1>1. /\ flight \in Seq(PageTick) /\ Len(flight) < MaxFlight /\ status' = "load"
      /\ flight' = Append(flight, NewTick(u)) /\ \A j \in DOMAIN flight : OwnTick(flight[j])
  BY DEF PageInv, OneNodeShown, PageTypeOK, Begin
<1>2. NewTick(u) \in PageTick /\ OwnTick(NewTick(u))
  BY NewTickIs
<1>3. /\ flight' \in Seq(PageTick) /\ Len(flight') = Len(flight) + 1 /\ Len(flight) \in Nat
      /\ \A j \in 1 .. Len(flight) : flight'[j] = flight[j]
      /\ flight'[Len(flight) + 1] = NewTick(u)
  BY <1>1, <1>2, AppendProperties, LenProperties
<1>4. DOMAIN flight = 1 .. Len(flight) /\ DOMAIN flight' = 1 .. Len(flight) + 1
  BY <1>1, <1>3, LenProperties
<1> HIDE DEF OwnTick
<1> QED BY <1>1, <1>2, <1>3, <1>4, PageAssumption

\* A tick that has an answer has it of its own client, and asks it again.
LEMMA SettleIs ==
  ASSUME PageInv, NEW j, NEW p \in Part, Settle(j, p)
  PROVE  /\ flight' \in Seq(PageTick) /\ Len(flight') = Len(flight)
         /\ \A i \in DOMAIN flight' : OwnTick(flight'[i])
<1>1. /\ flight \in Seq(PageTick) /\ j \in DOMAIN flight /\ flight[j].left[p] > 0
      /\ \A i \in DOMAIN flight : OwnTick(flight[i])
  BY DEF PageInv, OneNodeShown, PageTypeOK, Settle
<1>2. PICK t \in PageTick : t = flight[j]
  BY <1>1, ElementOfSeq, LenProperties
<1>3. PICK got \in {{}, {t.asks[p]}} :
        flight' = [flight EXCEPT ![j] = After(t, p, got)]
  BY <1>2 DEF Settle
<1> DEFINE u == After(t, p, got)
<1>4. u \in PageTick /\ OwnTick(u)
  <2>1. OwnTick(t) /\ t.left[p] \in Nat /\ t.left[p] > 0
    BY <1>1, <1>2 DEF PageTick
  <2>2. t.left[p] - 1 \in Nat /\ got \subseteq {t.client}
    BY <1>3, <2>1 DEF OwnTick
  <2>3. u = [client |-> t.client, left |-> [t.left EXCEPT ![p] = t.left[p] - 1],
             asks |-> [t.asks EXCEPT ![p] = t.client], from |-> t.from \cup got]
    BY DEF After, NextAsks
  <2>4. /\ [t.left EXCEPT ![p] = t.left[p] - 1] \in [Part -> Nat]
        /\ [t.asks EXCEPT ![p] = t.client] \in [Part -> Url]
        /\ \A q \in Part : [t.asks EXCEPT ![p] = t.client][q] = t.client
    BY <2>1, <2>2 DEF PageTick, OwnTick
  <2>5. t.from \cup got \subseteq {t.client} /\ t.client \in Url
    BY <2>1, <2>2 DEF OwnTick, PageTick
  <2> HIDE DEF u
  <2> QED BY <2>3, <2>4, <2>5 DEF PageTick, OwnTick
<1>5. flight' = [flight EXCEPT ![j] = u]
  BY <1>3
<1> HIDE DEF u
<1>6. flight' \in Seq(PageTick) /\ Len(flight') = Len(flight) /\ DOMAIN flight' = DOMAIN flight
  BY <1>1, <1>4, <1>5, ExceptSeq
<1>7. \A i \in DOMAIN flight : flight'[i] = IF i = j THEN u ELSE flight[i]
  BY <1>5
<1> HIDE DEF OwnTick
<1> QED BY <1>1, <1>4, <1>6, <1>7

\* Whichever tick settles or is drawn, it is of its own node.
LEMMA PageStep == ASSUME PageInv, PageNext PROVE PageInv'
<1>0. /\ field \in Url /\ ce \in Url /\ auto \in BOOLEAN /\ timers \in Nat
      /\ flight \in Seq(PageTick) /\ Len(flight) <= MaxFlight /\ status \in {"load", "live"}
      /\ table \in Drawn /\ map \in Drawn /\ malformed \in 0 .. MaxMalformed
      /\ table.from \subseteq {table.of} /\ map.from \subseteq {map.of}
      /\ \A j \in DOMAIN flight : OwnTick(flight[j])
  BY DEF PageInv, OneNodeShown, PageTypeOK
<1> HIDE DEF OwnTick
<1>1. CASE Interval \/ Refresh
  <2>1. Begin(ce) /\ UNCHANGED <<field, ce, auto, timers, malformed, table, map>>
    BY <1>1 DEF Interval, Refresh, Page
  <2> QED BY <1>0, <2>1, BeginIs DEF PageInv, OneNodeShown, PageTypeOK
<1>2. CASE SetAuto
  <2>1. /\ auto' \in BOOLEAN /\ timers' \in Nat
        /\ UNCHANGED <<field, ce, flight, status, malformed, table, map>>
    BY <1>0, <1>2 DEF SetAuto, StartLoop, Page
  <2> QED BY <1>0, <2>1 DEF PageInv, OneNodeShown, PageTypeOK
<1>3. ASSUME NEW u \in Url, ChangeUrl(u) PROVE PageInv'
  <2>1. /\ field' = u /\ ce' = u /\ Begin(u)
        /\ UNCHANGED <<auto, timers, malformed, table, map>>
    BY <1>3 DEF ChangeUrl, Page
  <2> QED BY <1>0, <1>3, <2>1, BeginIs DEF PageInv, OneNodeShown, PageTypeOK
<1>4. ASSUME NEW j, NEW p \in Part, Settle(j, p) PROVE PageInv'
  <2>1. UNCHANGED <<field, ce, auto, timers, status, malformed, table, map>>
    BY <1>4 DEF Settle, Page
  <2> QED BY <1>0, <1>4, <2>1, SettleIs DEF PageInv, OneNodeShown, PageTypeOK
<1>5. ASSUME NEW j, Draw(j) \/ DrawThrows(j) PROVE PageInv'
  <2>1. /\ j \in DOMAIN flight /\ flight' = RemoveAt(flight, j)
        /\ UNCHANGED <<field, ce, auto, timers>>
        /\ status' \in {"load", "live"} /\ malformed' \in 0 .. MaxMalformed
    BY <1>0, <1>5, PageAssumption DEF Draw, DrawThrows, Settled
  <2>2. /\ flight' \in Seq(PageTick) /\ Len(flight') = Len(flight) - 1 /\ Len(flight) \in Nat
        /\ \A i \in DOMAIN flight' : OwnTick(flight'[i])
    BY <1>0, <2>1, RemovedIs, LenProperties
  <2>3. Len(flight') <= MaxFlight
    BY <1>0, <2>2, PageAssumption
  <2> DEFINE drawn == [of |-> flight[j].client, from |-> flight[j].from]
  <2>4. table' \in {table, drawn} /\ map' \in {map, drawn}
    BY <1>5 DEF Draw, DrawThrows
  <2>5. drawn \in Drawn /\ drawn.from \subseteq {drawn.of}
    <3>1. flight[j] \in PageTick /\ OwnTick(flight[j])
      BY <1>0, <2>1, ElementOfSeq, LenProperties
    <3> QED BY <3>1 DEF PageTick, OwnTick, Drawn
  <2> HIDE DEF drawn
  <2>6. /\ table' \in Drawn /\ map' \in Drawn
        /\ table'.from \subseteq {table'.of} /\ map'.from \subseteq {map'.of}
    BY <1>0, <2>4, <2>5
  <2> QED BY <1>0, <2>1, <2>2, <2>3, <2>6 DEF PageInv, OneNodeShown, PageTypeOK
<1> QED BY <1>1, <1>2, <1>3, <1>4, <1>5 DEF PageNext, TickMoves

\* However many ticks overlap, and wherever between their requests the address
\* changes, what is drawn of a tick is the answers of one node (344-381).
THEOREM OneNodeShownHolds == PageSpec => []OneNodeShown
<1>1. ASSUME PageInit PROVE PageInv
  <2>1. PICK u \in Url : /\ field = u /\ ce = u /\ auto = TRUE /\ timers = 1
                         /\ flight = <<NewTick(u)>> /\ status = "load"
                         /\ table = [of |-> u, from |-> {}] /\ map = table /\ malformed = 0
    BY <1>1 DEF PageInit
  <2>2. PICK t \in PageTick : t = NewTick(u) /\ OwnTick(t)
    BY NewTickIs
  <2>3. flight \in Seq(PageTick) /\ Len(flight) = 1 /\ \A j \in DOMAIN flight : flight[j] = t
    BY <2>1, <2>2
  <2> HIDE DEF OwnTick
  <2> QED BY <2>1, <2>2, <2>3, PageAssumption DEF PageInv, OneNodeShown, PageTypeOK, Drawn
<1>2. ASSUME PageInv, [PageNext]_pageVars PROVE PageInv'
  <2>1. CASE PageNext
    BY <1>2, <2>1, PageStep
  <2>2. CASE UNCHANGED pageVars
    BY <1>2, <2>2 DEF pageVars, PageInv, OneNodeShown, PageTypeOK
  <2> QED BY <1>2, <2>1, <2>2
<1>3. PageInv => OneNodeShown
  BY DEF PageInv
<1> QED BY <1>1, <1>2, <1>3, PTL DEF PageSpec

-----------------------------------------------------------------------------
(***************************************************************************)
(* The pairs of nodes.                                                     *)
(***************************************************************************)
\* The pairs of a set, and how many there are.
PairsIn(S) == {e \in SUBSET S : Cardinality(e) = 2}

\* A pair is any of its members and another one.
LEMMA PairIs ==
  ASSUME NEW e, IsFiniteSet(e), Cardinality(e) = 2, NEW x \in e
  PROVE  \E y : y # x /\ e = {x, y}
<1>1. IsFiniteSet(e \ {x}) /\ Cardinality(e \ {x}) = 1
  BY FS_RemoveElement
<1>2. PICK y : e \ {x} = {y}
  BY <1>1, FS_Singleton
<1> QED BY <1>2

\* Two different values are a pair.
LEMMA TwoMembers ==
  \A x, y : x # y => IsFiniteSet({x, y}) /\ Cardinality({x, y}) = 2
<1> SUFFICES ASSUME NEW x, NEW y, x # y PROVE IsFiniteSet({x, y}) /\ Cardinality({x, y}) = 2
  OBVIOUS
<1>1. IsFiniteSet({x}) /\ Cardinality({x}) = 1 /\ {x, y} = {x} \cup {y} /\ y \notin {x}
  BY FS_Singleton
<1> QED BY <1>1, FS_AddElement

\* A set of n has n(n - 1) / 2 of them.
LEMMA PairsCount ==
  ASSUME NEW S, IsFiniteSet(S)
  PROVE  /\ IsFiniteSet(PairsIn(S))
         /\ Cardinality(PairsIn(S)) = (Cardinality(S) * (Cardinality(S) - 1)) \div 2
<1> DEFINE n(T) == Cardinality(T)
           F == {T \in SUBSET S : /\ IsFiniteSet(PairsIn(T))
                                  /\ Cardinality(PairsIn(T)) = (n(T) * (n(T) - 1)) \div 2}
<1>1. {} \in F
  <2>1. PairsIn({}) = {}
    BY FS_EmptySet DEF PairsIn
  <2>2. 0 = (0 * (0 - 1)) \div 2
    OBVIOUS
  <2> QED BY <2>1, <2>2, FS_EmptySet
<1>2. ASSUME NEW T \in SUBSET S, NEW x \in S \ T, T \in F PROVE T \cup {x} \in F
  <2> DEFINE new == {{x, y} : y \in T}
             h == [y \in T |-> {x, y}]
  <2>1. IsFiniteSet(T) /\ n(T) \in Nat
    BY FS_Subset, FS_CardinalityType
  <2>2. n(T \cup {x}) = n(T) + 1
    BY <2>1, FS_AddElement
  <2>3. IsFiniteSet(new) /\ Cardinality(new) = n(T)
    <3>1. h \in Bijection(T, new)
      BY DEF Bijection, Injection, Surjection, IsInjective
    <3>2. ExistsBijection(T, new)
      BY <3>1 DEF ExistsBijection
    <3> HIDE DEF new
    <3> QED BY <2>1, <3>2, FS_Bijection
  <2>4. PairsIn(T \cup {x}) = PairsIn(T) \cup new
    <3>1. ASSUME NEW e \in PairsIn(T \cup {x}) PROVE e \in PairsIn(T) \cup new
      <4>1. IsFiniteSet(e) /\ Cardinality(e) = 2 /\ e \subseteq T \cup {x}
        <5>1. IsFiniteSet(T \cup {x})
          BY <2>1, FS_AddElement
        <5> QED BY <5>1, FS_Subset DEF PairsIn
      <4>2. CASE x \in e
        <5>1. PICK y : y # x /\ e = {x, y}
          BY <4>1, <4>2, PairIs
        <5> QED BY <4>1, <5>1
      <4>3. CASE x \notin e
        BY <4>1, <4>3 DEF PairsIn
      <4> QED BY <4>2, <4>3
    <3>2. ASSUME NEW y \in T PROVE {x, y} \in PairsIn(T \cup {x})
      BY TwoMembers DEF PairsIn
    <3>3. PairsIn(T) \subseteq PairsIn(T \cup {x})
      BY DEF PairsIn
    <3> QED BY <3>1, <3>2, <3>3
  <2>5. PairsIn(T) \cap new = {}
    BY DEF PairsIn
  <2>6. IsFiniteSet(PairsIn(T)) /\ Cardinality(PairsIn(T)) = (n(T) * (n(T) - 1)) \div 2
    BY <1>2
  <2>7. /\ IsFiniteSet(PairsIn(T) \cup new)
        /\ Cardinality(PairsIn(T) \cup new) = Cardinality(PairsIn(T)) + Cardinality(new) - Cardinality({})
    <3> HIDE DEF new
    <3> QED BY <2>3, <2>5, <2>6, FS_Union
  <2>8. \A k \in Nat : (k * (k - 1)) \div 2 + k = ((k + 1) * (k + 1 - 1)) \div 2
    <3> SUFFICES ASSUME NEW k \in Nat PROVE (k * (k - 1)) \div 2 + k = ((k + 1) * (k + 1 - 1)) \div 2
      OBVIOUS
    <3>1. PICK a \in Int : a = k * (k - 1)
      OBVIOUS
    <3>2. (k + 1) * (k + 1 - 1) = a + 2 * k
      BY <3>1
    <3>3. (a + 2 * k) \div 2 = a \div 2 + k
      OBVIOUS
    <3> QED BY <3>1, <3>2, <3>3
  <2>9. Cardinality({}) = 0 /\ Cardinality(PairsIn(T)) \in Nat
    BY <2>6, FS_EmptySet, FS_CardinalityType
  <2>10. Cardinality(PairsIn(T \cup {x})) = (n(T) * (n(T) - 1)) \div 2 + n(T)
    <3>1. Cardinality(PairsIn(T) \cup new) = Cardinality(PairsIn(T)) + n(T)
      <4> HIDE DEF new
      <4> QED BY <2>1, <2>3, <2>5, <2>7, <2>9
    <3> HIDE DEF new
    <3> QED BY <2>4, <2>6, <3>1
  <2>11. IsFiniteSet(PairsIn(T \cup {x})) /\ T \cup {x} \in SUBSET S
    <3> HIDE DEF new
    <3> QED BY <2>4, <2>7
  <2>12. Cardinality(PairsIn(T \cup {x})) = (n(T \cup {x}) * (n(T \cup {x}) - 1)) \div 2
    <3> HIDE DEF new
    <3> QED BY <2>1, <2>2, <2>8, <2>10
  <2> QED BY <2>11, <2>12
<1>3. SUBSET S \subseteq F
  <2> HIDE DEF F
  <2> QED BY <1>1, <1>2, SubsetsIn
<1> QED BY <1>3

-----------------------------------------------------------------------------
(***************************************************************************)
(* Mesh health.  The parents are a forest: each node has a root, and the   *)
(* nodes above it become fewer on the way there.  Compression keeps all of *)
(* this, and a union puts one root under another.                          *)
(***************************************************************************)
\* p is a forest: A[n] are the nodes above n, and R[n] is the root it is under.
Forest(p, A, R) ==
  /\ p \in [DOMAIN p -> DOMAIN p] /\ R \in [DOMAIN p -> DOMAIN p]
  /\ A \in [DOMAIN p -> SUBSET DOMAIN p]
  /\ \A n \in DOMAIN p :
       /\ n \notin A[n]
       /\ p[n] = n => R[n] = n
       /\ p[n] # n => p[n] \in A[n] /\ A[p[n]] \subseteq A[n]
       /\ R[n] # n => R[n] \in A[n]
       /\ R[p[n]] = R[n]
       /\ p[R[n]] = R[n] /\ A[R[n]] = {}

\* The steps up from a node are those along p.
Climbs(a, p, x, m) ==
  /\ a \in [0 .. m -> DOMAIN p] /\ a[0] = x
  /\ \A i \in 1 .. m : a[i] = p[a[i - 1]]

\* Above is the walk along p.
LEMMA AboveClimbs ==
  ASSUME NEW p, p \in [DOMAIN p -> DOMAIN p], IsFiniteSet(DOMAIN p), NEW x \in DOMAIN p
  PROVE  Climbs(Above(p, x), p, x, Cardinality(DOMAIN p))
<1> DEFINE N == {m \in Nat : \E a : Climbs(a, p, x, m)}
           c == Cardinality(DOMAIN p)
<1>1. 0 \in N
  <2> DEFINE a == [i \in 0 .. 0 |-> x]
  <2>1. Climbs(a, p, x, 0)
    BY DEF Climbs
  <2> QED BY <2>1
<1>2. ASSUME NEW m \in Nat, m \in N PROVE m + 1 \in N
  <2>1. PICK a : Climbs(a, p, x, m)
    BY <1>2
  <2> DEFINE b == [i \in 0 .. m + 1 |-> IF i = m + 1 THEN p[a[m]] ELSE a[i]]
  <2>2. Climbs(b, p, x, m + 1)
    BY <2>1 DEF Climbs
  <2> HIDE DEF b
  <2> QED BY <2>2
<1>3. Nat \subseteq N
  <2> HIDE DEF N
  <2> QED BY <1>1, <1>2, NatSet
<1>4. c \in Nat
  BY FS_CardinalityType
<1>5. PICK a : Climbs(a, p, x, c)
  BY <1>3, <1>4
<1> DEFINE nextUp(u, i) == IF i = 0 THEN x ELSE p[u[i - 1]]
           Eq(u) == u = [i \in 0 .. c |-> nextUp(u, i)]
<1>6. Eq(a)
  <2> HIDE DEF c
  <2>1. \A i \in 0 .. c : a[i] = nextUp(a, i)
    BY <1>4, <1>5 DEF Climbs
  <2>2. a = [i \in 0 .. c |-> a[i]]
    BY <1>5 DEF Climbs
  <2> HIDE DEF nextUp
  <2> QED BY <2>1, <2>2
<1> DEFINE u == CHOOSE v : Eq(v)
<1>7. Eq(u)
  <2> HIDE DEF Eq
  <2> QED BY <1>6, Zenon
<1>8. Above(p, x) = u
  BY Zenon DEF Above
<1> HIDE DEF u, c
<1>9. DOMAIN u = 0 .. c /\ \A i \in 0 .. c : u[i] = nextUp(u, i)
  <2> HIDE DEF nextUp
  <2> QED BY <1>7
<1> HIDE DEF Eq
<1> DEFINE T == {i \in Nat : i <= c => u[i] \in DOMAIN p}
<1>10. Nat \subseteq T
  <2>1. 0 \in T
    BY <1>4, <1>9
  <2>2. \A i \in Nat : i \in T => i + 1 \in T
    <3> SUFFICES ASSUME NEW i \in Nat, i \in T, i + 1 <= c PROVE u[i + 1] \in DOMAIN p
      OBVIOUS
    <3>1. i + 1 \in 0 .. c /\ i + 1 # 0 /\ i + 1 - 1 = i /\ i <= c
      BY <1>4
    <3>2. u[i + 1] = nextUp(u, i + 1)
      <4> HIDE DEF nextUp
      <4> QED BY <1>9, <3>1
    <3>3. u[i + 1] = p[u[i]]
      BY <3>1, <3>2
    <3> QED BY <3>1, <3>3
  <2> HIDE DEF T
  <2> QED BY <2>1, <2>2, NatSet
<1>11. \A i \in 0 .. c : u[i] \in DOMAIN p
  BY <1>4, <1>10
<1>12. u \in [0 .. c -> DOMAIN p]
  <2>1. u = [i \in 0 .. c |-> nextUp(u, i)]
    BY <1>7 DEF Eq
  <2> HIDE DEF nextUp
  <2> QED BY <1>9, <1>11, <2>1
<1>13. Climbs(u, p, x, c)
  <2>1. u[0] = x
    BY <1>4, <1>9
  <2>2. ASSUME NEW i \in 1 .. c PROVE u[i] = p[u[i - 1]]
    <3>1. i \in 0 .. c /\ i # 0
      BY <1>4
    <3> QED BY <1>9, <3>1
  <2> QED BY <1>12, <2>1, <2>2 DEF Climbs
<1> QED BY <1>8, <1>13 DEF c

\* find ends at the root, as the nodes above become fewer with each step, and
\* passes only nodes under that root.
LEMMA RootIs ==
  ASSUME NEW p, NEW A, NEW R, Forest(p, A, R), IsFiniteSet(DOMAIN p), NEW x \in DOMAIN p
  PROVE  /\ Root(p, x) = R[x]
         /\ DOMAIN Above(p, x) = 0 .. Cardinality(DOMAIN p)
         /\ \A i \in DOMAIN Above(p, x) : Above(p, x)[i] \in DOMAIN p /\ R[Above(p, x)[i]] = R[x]
<1> DEFINE c == Cardinality(DOMAIN p)
           a == Above(p, x)
           size(n) == Cardinality(A[n])
           S == {i \in Nat : i <= c => /\ a[i] \in DOMAIN p /\ R[a[i]] = R[x]
                                       /\ p[a[i]] = a[i] \/ size(a[i]) + i + 1 <= c}
<1>1. Climbs(a, p, x, c) /\ c \in Nat
  BY AboveClimbs, FS_CardinalityType DEF Forest
<1>2. \A n \in DOMAIN p : IsFiniteSet(A[n]) /\ size(n) \in Nat /\ size(n) + 1 <= c
  <2> SUFFICES ASSUME NEW n \in DOMAIN p
               PROVE IsFiniteSet(A[n]) /\ size(n) \in Nat /\ size(n) + 1 <= c
    OBVIOUS
  <2>1. A[n] \subseteq (DOMAIN p) \ {n}
    BY DEF Forest
  <2>2. IsFiniteSet((DOMAIN p) \ {n}) /\ Cardinality((DOMAIN p) \ {n}) = c - 1
    BY FS_RemoveElement
  <2>3. IsFiniteSet(A[n]) /\ size(n) <= c - 1 /\ size(n) \in Nat
    BY <2>1, <2>2, FS_Subset, FS_CardinalityType
  <2> QED BY <1>1, <2>3
<1>3. \A n \in DOMAIN p : p[n] # n => size(p[n]) + 1 <= size(n)
  <2> SUFFICES ASSUME NEW n \in DOMAIN p, p[n] # n PROVE size(p[n]) + 1 <= size(n)
    OBVIOUS
  <2>1. p[n] \in DOMAIN p /\ p[n] \in A[n] /\ A[p[n]] \subseteq A[n] \ {p[n]}
    BY DEF Forest
  <2>2. IsFiniteSet(A[n] \ {p[n]}) /\ Cardinality(A[n] \ {p[n]}) = size(n) - 1
    BY <1>2, <2>1, FS_RemoveElement
  <2>3. size(p[n]) <= size(n) - 1
    BY <2>1, <2>2, FS_Subset
  <2> QED BY <1>2, <2>1, <2>3
<1> HIDE DEF a, c, size
<1>4. 0 \in S
  <2>1. a[0] = x
    BY <1>1 DEF Climbs
  <2>2. size(x) + 0 + 1 <= c
    BY <1>2
  <2> QED BY <2>1, <2>2
<1>5. ASSUME NEW i \in Nat, i \in S PROVE i + 1 \in S
  <2> SUFFICES ASSUME i + 1 <= c
               PROVE  /\ a[i + 1] \in DOMAIN p /\ R[a[i + 1]] = R[x]
                      /\ p[a[i + 1]] = a[i + 1] \/ size(a[i + 1]) + (i + 1) + 1 <= c
    OBVIOUS
  <2>1. i + 1 \in 1 .. c /\ i + 1 - 1 = i /\ i <= c
    BY <1>1
  <2>2. a[i + 1] = p[a[i]]
    BY <1>1, <2>1 DEF Climbs
  <2>3. a[i] \in DOMAIN p /\ R[a[i]] = R[x]
    BY <1>5, <2>1
  <2>4. p[a[i]] = a[i] \/ size(a[i]) + i + 1 <= c
    BY <1>5, <2>1
  <2>5. a[i + 1] \in DOMAIN p /\ R[a[i + 1]] = R[x]
    BY <2>2, <2>3 DEF Forest
  <2>6. p[a[i]] # a[i] => size(a[i + 1]) + (i + 1) + 1 <= c
    <3> SUFFICES ASSUME p[a[i]] # a[i] PROVE size(a[i + 1]) + (i + 1) + 1 <= c
      OBVIOUS
    <3>1. size(a[i + 1]) + 1 <= size(a[i])
      BY <1>3, <2>2, <2>3
    <3>2. size(a[i + 1]) \in Nat /\ size(a[i]) \in Nat
      BY <1>2, <2>3, <2>5
    <3> QED BY <1>1, <2>4, <3>1, <3>2
  <2>7. p[a[i]] = a[i] => p[a[i + 1]] = a[i + 1]
    BY <2>2
  <2> QED BY <2>5, <2>6, <2>7
<1>6. Nat \subseteq S
  <2> HIDE DEF S
  <2> QED BY <1>4, <1>5, NatSet
<1>7. \A i \in 0 .. c : a[i] \in DOMAIN p /\ R[a[i]] = R[x]
  BY <1>1, <1>6
<1>8. p[a[c]] = a[c]
  <2>1. p[a[c]] = a[c] \/ size(a[c]) + c + 1 <= c
    BY <1>1, <1>6
  <2>2. size(a[c]) \in Nat
    BY <1>1, <1>2, <1>7
  <2> QED BY <1>1, <2>1, <2>2
<1>9. a[c] = R[x]
  BY <1>1, <1>7, <1>8 DEF Forest
<1>10. DOMAIN a = 0 .. c
  BY <1>1 DEF Climbs
<1>11. Root(p, x) = a[c]
  BY DEF Root, a, c
<1> QED BY <1>7, <1>9, <1>10, <1>11 DEF a, c

\* Path compression keeps the forest: each node's root, and who is above it.
LEMMA CompressedForest ==
  ASSUME NEW p, NEW A, NEW R, Forest(p, A, R), IsFiniteSet(DOMAIN p), NEW x \in DOMAIN p
  PROVE  DOMAIN Compressed(p, x) = DOMAIN p /\ Forest(Compressed(p, x), A, R)
<1> DEFINE way == {Above(p, x)[i] : i \in DOMAIN Above(p, x)}
           q == [n \in DOMAIN p |-> IF n \in way THEN R[x] ELSE p[n]]
<1>1. Root(p, x) = R[x] /\ \A n \in way : n \in DOMAIN p /\ R[n] = R[x]
  BY RootIs
<1>2. Compressed(p, x) = q
  BY <1>1 DEF Compressed
<1> HIDE DEF way
<1>3. R[x] \in DOMAIN p /\ R[R[x]] = R[x] /\ A[R[x]] = {}
  BY DEF Forest
<1>4. Forest(q, A, R)
  <2>1. q \in [DOMAIN p -> DOMAIN p] /\ DOMAIN q = DOMAIN p
    BY <1>3 DEF Forest
  <2>2. ASSUME NEW n \in DOMAIN p
        PROVE  /\ n \notin A[n]
               /\ q[n] = n => R[n] = n
               /\ q[n] # n => q[n] \in A[n] /\ A[q[n]] \subseteq A[n]
               /\ R[n] # n => R[n] \in A[n]
               /\ R[q[n]] = R[n]
               /\ q[R[n]] = R[n] /\ A[R[n]] = {}
    <3>1. n \in way => q[n] = R[x] /\ R[n] = R[x]
      BY <1>1
    <3>2. n \notin way => q[n] = p[n]
      OBVIOUS
    <3>3. q[R[n]] = R[n]
      <4>1. R[n] \in DOMAIN p /\ p[R[n]] = R[n] /\ R[R[n]] = R[n]
        BY DEF Forest
      <4> QED BY <1>1, <4>1
    <3> HIDE DEF q
    <3> QED BY <1>3, <3>1, <3>2, <3>3 DEF Forest
  <2> HIDE DEF q
  <2> QED BY <2>1, <2>2 DEF Forest
<1> QED BY <1>2, <1>4

\* The roots after one tree is hung below another.
Merged(R, x, y) == [n \in DOMAIN R |-> IF R[n] = R[x] THEN R[y] ELSE R[n]]

LEMMA LinkedForest ==
  ASSUME NEW p, NEW A, NEW R, Forest(p, A, R), NEW x \in DOMAIN p, NEW y \in DOMAIN p
  PROVE  \E B : Forest([p EXCEPT ![R[x]] = R[y]], B, Merged(R, x, y))
<1> DEFINE q == [p EXCEPT ![R[x]] = R[y]]
           M == Merged(R, x, y)
           B == [n \in DOMAIN p |-> IF R[n] = R[x] THEN A[n] \cup {R[y]} ELSE A[n]]
<1>0. /\ R[x] \in DOMAIN p /\ R[y] \in DOMAIN p /\ p[R[x]] = R[x] /\ p[R[y]] = R[y]
      /\ R[R[x]] = R[x] /\ R[R[y]] = R[y] /\ A[R[y]] = {} /\ A[R[x]] = {}
  BY DEF Forest
<1>1. CASE R[x] = R[y]
  <2>1. q = p
    BY <1>0, <1>1 DEF Forest
  <2>2. M = R
    BY <1>1 DEF Merged, Forest
  <2> QED BY <2>1, <2>2
<1>2. CASE R[x] # R[y]
  <2>1. DOMAIN q = DOMAIN p /\ DOMAIN M = DOMAIN p
    BY DEF Merged, Forest
  <2>2. q \in [DOMAIN p -> DOMAIN p] /\ M \in [DOMAIN p -> DOMAIN p] /\ B \in [DOMAIN p -> SUBSET DOMAIN p]
    BY <1>0 DEF Merged, Forest
  <2>3. /\ q[R[x]] = R[y] /\ \A n \in DOMAIN p : n # R[x] => q[n] = p[n]
        /\ \A n \in DOMAIN p : R[n] = R[x] => M[n] = R[y] /\ B[n] = A[n] \cup {R[y]}
        /\ \A n \in DOMAIN p : R[n] # R[x] => M[n] = R[n] /\ B[n] = A[n]
    BY <1>0 DEF Merged, Forest
  <2> HIDE DEF q, M, B
  <2>4. ASSUME NEW n \in DOMAIN p
        PROVE  /\ n \notin B[n]
               /\ q[n] = n => M[n] = n
               /\ q[n] # n => q[n] \in B[n] /\ B[q[n]] \subseteq B[n]
               /\ M[n] # n => M[n] \in B[n]
               /\ M[q[n]] = M[n]
               /\ q[M[n]] = M[n] /\ B[M[n]] = {}
    <3>0. /\ n \notin A[n] /\ R[n] \in DOMAIN p /\ p[n] \in DOMAIN p
          /\ p[n] = n => R[n] = n
          /\ p[n] # n => p[n] \in A[n] /\ A[p[n]] \subseteq A[n]
          /\ R[n] # n => R[n] \in A[n]
          /\ R[p[n]] = R[n]
          /\ p[R[n]] = R[n] /\ A[R[n]] = {} /\ R[R[n]] = R[n]
      BY DEF Forest
    <3>1. CASE n = R[x]
      <4>1. R[n] = R[x] /\ q[n] = R[y] /\ M[n] = R[y] /\ B[n] = {R[y]} /\ B[R[y]] = {} /\ M[R[y]] = R[y] /\ q[R[y]] = R[y]
        BY <1>0, <1>2, <2>3, <3>1
      <4> QED BY <1>2, <3>1, <4>1
    <3>2. CASE n # R[x] /\ R[n] = R[x]
      <4>1. q[n] = p[n] /\ M[n] = R[y] /\ B[n] = A[n] \cup {R[y]} /\ B[R[y]] = {} /\ q[R[y]] = R[y]
        BY <1>0, <1>2, <2>3, <3>2
      <4>2. p[n] # n /\ R[p[n]] = R[x] /\ B[p[n]] = A[p[n]] \cup {R[y]} /\ M[p[n]] = R[y]
        BY <2>3, <3>0, <3>2
      <4>3. n # R[y]
        BY <1>0, <1>2, <3>2
      <4> QED BY <3>0, <4>1, <4>2, <4>3
    <3>3. CASE R[n] # R[x]
      <4>1. n # R[x] /\ q[n] = p[n] /\ M[n] = R[n] /\ B[n] = A[n]
        BY <1>0, <2>3, <3>3
      <4>2. B[p[n]] = A[p[n]] /\ M[p[n]] = R[n]
        BY <2>3, <3>0, <3>3
      <4>3. q[R[n]] = R[n] /\ B[R[n]] = {}
        BY <2>3, <3>0, <3>3
      <4> QED BY <3>0, <4>1, <4>2, <4>3
    <3> QED BY <3>1, <3>2, <3>3
  <2>5. Forest(q, B, M)
    BY <2>1, <2>2, <2>4 DEF Forest
  <2> QED BY <2>5 DEF q, M
<1> QED BY <1>1, <1>2

\* union: two finds, then the one root is hung below the other.
LEMMA UnionForest ==
  ASSUME NEW p, NEW A, NEW R, Forest(p, A, R), IsFiniteSet(DOMAIN p),
         NEW x \in DOMAIN p, NEW y \in DOMAIN p
  PROVE  DOMAIN Union(p, x, y) = DOMAIN p /\ \E B : Forest(Union(p, x, y), B, Merged(R, x, y))
<1> DEFINE q1 == Compressed(p, x)
           q == Compressed(q1, y)
<1>1. DOMAIN q1 = DOMAIN p /\ Forest(q1, A, R)
  BY CompressedForest
<1>2. DOMAIN q = DOMAIN p /\ Forest(q, A, R)
  <2> HIDE DEF q1
  <2> QED BY <1>1, CompressedForest
<1>3. Root(p, x) = R[x] /\ Root(p, y) = R[y]
  BY RootIs
<1>4. Union(p, x, y) = [q EXCEPT ![R[x]] = R[y]]
  BY <1>3 DEF Union
<1> HIDE DEF q
<1>5. \E B : Forest([q EXCEPT ![R[x]] = R[y]], B, Merged(R, x, y))
  BY <1>2, LinkedForest
<1> QED BY <1>2, <1>4, <1>5

-----------------------------------------------------------------------------
(***************************************************************************)
(* The median.  The edges are in order by their means, so that each rank is *)
(* that of an edge, and what lies between the two middle ones halves them. *)
(***************************************************************************)
\* The sums of an edge; each row counts for one sample at least.
Mean == [wsum : Nat, samples : Nat \ {0}]

\* A product grows with its factor.
LEMMA TimesKeepsOrder == \A a, b \in Int : \A c \in Nat : a <= b => a * c <= b * c
<1> SUFFICES ASSUME NEW a \in Int, NEW b \in Int, NEW c \in Nat, a <= b PROVE a * c <= b * c
  OBVIOUS
<1>1. PICK d \in Nat : b = a + d
  <2>1. b - a \in Nat /\ b = a + (b - a)
    OBVIOUS
  <2> QED BY <2>1
<1>2. b * c = a * c + d * c
  BY <1>1
<1>3. d * c \in Nat /\ a * c \in Int
  OBVIOUS
<1> QED BY <1>2, <1>3

\* Fractions in order: what is no more than something no more than a third is no
\* more than the third.
LEMMA FractionsInOrder ==
  ASSUME NEW a \in Nat, NEW c \in Nat, NEW e \in Nat,
         NEW b \in Nat \ {0}, NEW d \in Nat \ {0}, NEW f \in Nat \ {0},
         a * d <= c * b, c * f <= e * d
  PROVE  a * f <= e * b
<1>1. PICK ad \in Int, cb \in Int, cf \in Int, ed \in Int, af \in Int, eb \in Int :
        ad = a * d /\ cb = c * b /\ cf = c * f /\ ed = e * d /\ af = a * f /\ eb = e * b
  OBVIOUS
<1>2. ad * f <= cb * f
  <2>1. ad <= cb
    BY <1>1
  <2> QED BY <2>1, TimesKeepsOrder
<1>3. cf * b <= ed * b
  <2>1. cf <= ed
    BY <1>1
  <2> QED BY <2>1, TimesKeepsOrder
<1>4. ad * f = af * d /\ cb * f = cf * b /\ ed * b = eb * d
  <2>1. (a * d) * f = (a * f) * d
    OBVIOUS
  <2>2. (c * b) * f = (c * f) * b
    OBVIOUS
  <2>3. (e * d) * b = (e * b) * d
    OBVIOUS
  <2> QED BY <1>1, <2>1, <2>2, <2>3
<1>5. af * d <= eb * d
  <2>1. ad * f \in Int /\ cb * f \in Int /\ ed * b \in Int
    OBVIOUS
  <2> QED BY <1>2, <1>3, <1>4, <2>1
<1>6. ASSUME eb + 1 <= af PROVE FALSE
  <2>1. (eb + 1) * d <= af * d
    BY <1>6, TimesKeepsOrder
  <2>2. (eb + 1) * d = eb * d + d /\ eb * d \in Int /\ af * d \in Int
    OBVIOUS
  <2> QED BY <1>5, <2>1, <2>2
<1>7. af <= eb
  BY <1>6
<1> QED BY <1>1, <1>7

\* The same for the means of edges.
LEMMA MeansInOrder ==
  ASSUME NEW l \in Mean, NEW m \in Mean, NEW n \in Mean, ~Faster(m, l), ~Faster(n, m)
  PROVE  ~Faster(n, l)
<1>1. /\ l.wsum \in Nat /\ m.wsum \in Nat /\ n.wsum \in Nat
      /\ l.samples \in Nat \ {0} /\ m.samples \in Nat \ {0} /\ n.samples \in Nat \ {0}
  BY DEF Mean
<1>2. l.wsum * m.samples <= m.wsum * l.samples /\ m.wsum * n.samples <= n.wsum * m.samples
  BY <1>1 DEF Faster
<1>3. l.wsum * n.samples <= n.wsum * l.samples
  BY <1>1, <1>2, FractionsInOrder
<1> QED BY <1>1, <1>3 DEF Faster

\* Every edge has a mean.
MeansAre == IsFiniteSet(DOMAIN fused) /\ fused \in [DOMAIN fused -> Mean]

\* No edge is faster than itself, or both faster and slower than another.
LEMMA NeverFaster ==
  ASSUME MeansAre
  PROVE  /\ \A d \in DOMAIN fused : ~Faster(fused[d], fused[d])
         /\ \A d, e \in DOMAIN fused : Faster(fused[d], fused[e]) => ~Faster(fused[e], fused[d])
<1> SUFFICES ASSUME NEW d \in DOMAIN fused, NEW e \in DOMAIN fused
             PROVE  ~(Faster(fused[d], fused[e]) /\ Faster(fused[e], fused[d]))
  BY DEF Faster
<1>1. fused[d] \in Mean /\ fused[e] \in Mean
  BY DEF MeansAre
<1>2. /\ fused[d].wsum * fused[e].samples \in Int
      /\ fused[e].wsum * fused[d].samples \in Int
  BY <1>1 DEF Mean
<1> QED BY <1>2 DEF Faster

\* Among some edges one is the slowest.
LEMMA SlowestExists ==
  ASSUME MeansAre, NEW T \in SUBSET DOMAIN fused, T # {}
  PROVE  \E s \in T : \A d \in T : ~Faster(fused[s], fused[d])
<1> DEFINE P(U) == U # {} => \E s \in U : \A d \in U : ~Faster(fused[s], fused[d])
           F == {U \in SUBSET DOMAIN fused : P(U)}
<1>1. {} \in F
  OBVIOUS
<1>2. ASSUME NEW U \in SUBSET DOMAIN fused, NEW x \in DOMAIN fused \ U, U \in F PROVE U \cup {x} \in F
  <2>1. CASE U = {}
    <3>1. P(U \cup {x})
      BY <2>1, NeverFaster
    <3> QED BY <3>1
  <2>2. CASE U # {}
    <3>1. PICK s \in U : \A d \in U : ~Faster(fused[s], fused[d])
      BY <1>2, <2>2
    <3>2. CASE Faster(fused[s], fused[x])
      <4>1. \A d \in U : ~Faster(fused[x], fused[d])
        <5> SUFFICES ASSUME NEW d \in U PROVE ~Faster(fused[x], fused[d])
          OBVIOUS
        <5>1. ~Faster(fused[x], fused[s])
          BY <3>2, NeverFaster
        <5>2. fused[x] \in Mean /\ fused[s] \in Mean /\ fused[d] \in Mean
          BY DEF MeansAre
        <5> QED BY <3>1, <5>1, <5>2, MeansInOrder
      <4>2. P(U \cup {x})
        BY <4>1, NeverFaster
      <4> QED BY <4>2
    <3>3. CASE ~Faster(fused[s], fused[x])
      <4>1. P(U \cup {x})
        BY <3>1, <3>3
      <4> QED BY <4>1
    <3> QED BY <3>2, <3>3
  <2> QED BY <2>1, <2>2
<1>3. SUBSET (DOMAIN fused) \subseteq F
  <2> HIDE DEF F
  <2> QED BY <1>1, <1>2, SubsetsIn DEF MeansAre
<1> QED BY <1>3

\* Each rank is somebody's.
LEMMA RankedExists ==
  ASSUME MeansAre, NEW r \in 1 .. Cardinality(DOMAIN fused)
  PROVE  /\ Ranked(r) \in DOMAIN fused
         /\ Cardinality(Quicker(Ranked(r))) < r /\ r <= Cardinality(NoSlower(Ranked(r)))
<1> DEFINE size(e) == Cardinality(NoSlower(e))
           C == {e \in DOMAIN fused : r <= size(e)}
           K == {size(e) : e \in C}
<1>1. \A e \in DOMAIN fused : /\ IsFiniteSet(NoSlower(e)) /\ size(e) \in Nat
                              /\ IsFiniteSet(Quicker(e)) /\ Cardinality(Quicker(e)) \in Nat
  BY FS_Subset, FS_CardinalityType DEF NoSlower, Quicker, MeansAre
<1>2. Cardinality(DOMAIN fused) \in Nat
  BY FS_CardinalityType DEF MeansAre
<1>3. DOMAIN fused # {}
  BY <1>2, FS_EmptySet
<1>4. PICK s \in DOMAIN fused : \A d \in DOMAIN fused : ~Faster(fused[s], fused[d])
  BY <1>3, SlowestExists
<1>5. s \in C
  <2>1. NoSlower(s) = DOMAIN fused
    BY <1>4 DEF NoSlower
  <2> QED BY <1>2, <2>1
<1>6. K \subseteq Nat /\ K # {}
  BY <1>1, <1>5
<1> HIDE DEF size
<1>7. PICK e \in C : \A d \in C : size(e) <= size(d)
  <2>1. Min(K) \in K /\ \A n \in K : Min(K) <= n
    <3> HIDE DEF K
    <3> QED BY <1>6, LeastExists
  <2> QED BY <2>1
<1>8. Cardinality(Quicker(e)) < r
  <2> SUFFICES ASSUME r <= Cardinality(Quicker(e)) PROVE FALSE
    BY <1>1
  <2>1. Quicker(e) # {}
    BY FS_EmptySet
  <2>2. PICK q \in Quicker(e) : \A d \in Quicker(e) : ~Faster(fused[q], fused[d])
    BY <2>1, SlowestExists DEF Quicker
  <2>3. q \in DOMAIN fused /\ Faster(fused[q], fused[e]) /\ ~Faster(fused[e], fused[q])
    BY <2>2, NeverFaster DEF Quicker
  <2>4. Quicker(e) \subseteq NoSlower(q)
    BY <2>2 DEF Quicker, NoSlower
  <2>5. r <= size(q)
    <3>1. Cardinality(Quicker(e)) <= size(q)
      BY <1>1, <2>3, <2>4, FS_Subset DEF size
    <3> QED BY <1>1, <2>3, <3>1
  <2>6. NoSlower(q) \subseteq NoSlower(e) \ {e}
    <3> SUFFICES ASSUME NEW d \in NoSlower(q) PROVE d \in NoSlower(e) /\ d # e
      OBVIOUS
    <3>1. d \in DOMAIN fused /\ ~Faster(fused[q], fused[d])
      BY DEF NoSlower
    <3>2. fused[d] \in Mean /\ fused[q] \in Mean /\ fused[e] \in Mean
      BY <2>3, <3>1 DEF MeansAre
    <3>3. ~Faster(fused[e], fused[d])
      BY <2>3, <3>1, <3>2, MeansInOrder
    <3> QED BY <2>3, <3>1, <3>3 DEF NoSlower
  <2>7. e \in NoSlower(e)
    BY NeverFaster DEF NoSlower
  <2>8. IsFiniteSet(NoSlower(e) \ {e}) /\ Cardinality(NoSlower(e) \ {e}) = size(e) - 1
    BY <1>1, <2>7, FS_RemoveElement DEF size
  <2>9. size(q) <= size(e) - 1
    BY <2>6, <2>8, FS_Subset DEF size
  <2>10. size(e) <= size(q)
    BY <1>7, <2>3, <2>5
  <2> QED BY <1>1, <2>3, <2>9, <2>10
<1>9. \E d : d \in DOMAIN fused /\ Cardinality(Quicker(d)) < r /\ r <= Cardinality(NoSlower(d))
  BY <1>8 DEF size
<1> QED BY <1>9 DEF Ranked

\* The mean of two means lies between them.
LEMMA HalfwayBetween ==
  ASSUME NEW l \in Mean, NEW h \in Mean, ~Faster(h, l),
         NEW m, m = [wsum |-> l.wsum * h.samples + h.wsum * l.samples,
                     samples |-> 2 * l.samples * h.samples]
  PROVE  m \in Mean /\ ~Faster(m, l) /\ ~Faster(h, m)
<1>1. PICK lw \in Nat, hw \in Nat, ls \in Nat \ {0}, hs \in Nat \ {0} :
        lw = l.wsum /\ hw = h.wsum /\ ls = l.samples /\ hs = h.samples
  BY DEF Mean
<1>2. PICK a \in Nat, b \in Nat, c \in Nat \ {0} : a = lw * hs /\ b = hw * ls /\ c = ls * hs
  <2>1. lw * hs \in Nat /\ hw * ls \in Nat
    OBVIOUS
  <2>2. ls * hs \in Nat \ {0}
    <3>1. PICK i \in Nat, j \in Nat : ls = i + 1 /\ hs = j + 1
      <4>1. ls - 1 \in Nat /\ hs - 1 \in Nat /\ ls = ls - 1 + 1 /\ hs = hs - 1 + 1
        OBVIOUS
      <4> QED BY <4>1
    <3>2. (i + 1) * (j + 1) = i * j + i + j + 1 /\ i * j \in Nat
      OBVIOUS
    <3> QED BY <3>1, <3>2
  <2> QED BY <2>1, <2>2
<1>3. a <= b
  BY <1>1, <1>2 DEF Faster
<1>4. m.wsum = a + b /\ m.samples = 2 * c
  <2>1. 2 * ls * hs = 2 * (ls * hs)
    OBVIOUS
  <2> QED BY <1>1, <1>2, <2>1
<1>5. m \in Mean
  BY <1>1, <1>2, <1>4 DEF Mean
<1>6. lw * (2 * c) <= (a + b) * ls
  <2>1. lw * (2 * c) = (a + a) * ls
    <3>1. lw * (2 * (ls * hs)) = (lw * hs + lw * hs) * ls
      OBVIOUS
    <3> QED BY <1>2, <3>1
  <2>2. (a + a) * ls <= (a + b) * ls
    <3>1. a + a <= a + b
      BY <1>3
    <3> QED BY <3>1, TimesKeepsOrder
  <2> QED BY <2>1, <2>2
<1>7. (a + b) * hs <= hw * (2 * c)
  <2>1. hw * (2 * c) = (b + b) * hs
    <3>1. hw * (2 * (ls * hs)) = (hw * ls + hw * ls) * hs
      OBVIOUS
    <3> QED BY <1>2, <3>1
  <2>2. (a + b) * hs <= (b + b) * hs
    <3>1. a + b <= b + b
      BY <1>3
    <3> QED BY <3>1, TimesKeepsOrder
  <2> QED BY <2>1, <2>2
<1>8. lw * (2 * c) \in Int /\ (a + b) * ls \in Int /\ (a + b) * hs \in Int /\ hw * (2 * c) \in Int
  OBVIOUS
<1> QED BY <1>1, <1>4, <1>5, <1>6, <1>7, <1>8 DEF Faster

\* The two middle edges are in order.
LEMMA MiddleInOrder ==
  ASSUME MeansAre, NEW n \in Nat \ {0}, n = Cardinality(DOMAIN fused)
  PROVE  /\ (n + 1) \div 2 \in 1 .. n /\ n \div 2 + 1 \in 1 .. n
         /\ ~Faster(fused[Ranked(n \div 2 + 1)], fused[Ranked((n + 1) \div 2)])
<1> DEFINE i == (n + 1) \div 2
           j == n \div 2 + 1
           low == Ranked(i)
           high == Ranked(j)
<1>1. i \in 1 .. n /\ j \in 1 .. n /\ i <= j
  OBVIOUS
<1> HIDE DEF i, j
<1>2. /\ low \in DOMAIN fused /\ Cardinality(Quicker(low)) < i
      /\ high \in DOMAIN fused /\ j <= Cardinality(NoSlower(high))
  BY <1>1, RankedExists
<1> HIDE DEF low, high
<1>3. ASSUME Faster(fused[high], fused[low]) PROVE FALSE
  <2>1. NoSlower(high) \subseteq Quicker(low)
    <3> SUFFICES ASSUME NEW d \in NoSlower(high) PROVE d \in Quicker(low)
      OBVIOUS
    <3>1. d \in DOMAIN fused /\ ~Faster(fused[high], fused[d])
      BY DEF NoSlower
    <3>2. fused[d] \in Mean /\ fused[high] \in Mean /\ fused[low] \in Mean
      BY <1>2, <3>1 DEF MeansAre
    <3>3. ASSUME ~Faster(fused[d], fused[low]) PROVE FALSE
      BY <1>3, <3>1, <3>2, <3>3, MeansInOrder
    <3> QED BY <3>1, <3>3 DEF Quicker
  <2>2. /\ IsFiniteSet(Quicker(low)) /\ Cardinality(Quicker(low)) \in Nat
        /\ IsFiniteSet(NoSlower(high)) /\ Cardinality(NoSlower(high)) \in Nat
    BY FS_Subset, FS_CardinalityType DEF MeansAre, Quicker, NoSlower
  <2>3. Cardinality(NoSlower(high)) <= Cardinality(Quicker(low))
    BY <2>1, <2>2, FS_Subset
  <2> QED BY <1>1, <1>2, <2>2, <2>3
<1> QED BY <1>1, <1>3 DEF i, j, low, high

\* At least half of the edges are no slower than what Median computes, and at
\* least half no faster.
LEMMA MedianHalves ==
  ASSUME MeansAre
  PROVE  /\ 2 * Cardinality({e \in DOMAIN fused : fused[e].wsum * Median[2] <= Median[1] * fused[e].samples})
              >= Cardinality(DOMAIN fused)
         /\ 2 * Cardinality({e \in DOMAIN fused : fused[e].wsum * Median[2] >= Median[1] * fused[e].samples})
              >= Cardinality(DOMAIN fused)
<1> DEFINE n == Cardinality(DOMAIN fused)
           slow(m) == {e \in DOMAIN fused : fused[e].wsum * m[2] <= m[1] * fused[e].samples}
           fast(m) == {e \in DOMAIN fused : fused[e].wsum * m[2] >= m[1] * fused[e].samples}
<1>1. n \in Nat
  BY FS_CardinalityType DEF MeansAre
<1>2. \A m : /\ IsFiniteSet(slow(m)) /\ Cardinality(slow(m)) \in Nat
             /\ IsFiniteSet(fast(m)) /\ Cardinality(fast(m)) \in Nat
  BY FS_Subset, FS_CardinalityType DEF MeansAre
<1>3. CASE n = 0
  <2> HIDE DEF n, slow, fast
  <2>1. 2 * Cardinality(slow(Median)) >= n /\ 2 * Cardinality(fast(Median)) >= n
    BY <1>2, <1>3
  <2> QED BY <2>1 DEF slow, fast, n
<1>4. CASE n # 0
  <2> DEFINE low == Ranked((n + 1) \div 2)
             high == Ranked(n \div 2 + 1)
             l == fused[low]
             h == fused[high]
             m == [wsum |-> l.wsum * h.samples + h.wsum * l.samples,
                   samples |-> 2 * l.samples * h.samples]
  <2>1. Median = <<m.wsum, m.samples>>
    BY <1>4 DEF Median
  <2>2. /\ (n + 1) \div 2 \in 1 .. n /\ n \div 2 + 1 \in 1 .. n
        /\ ~Faster(h, l)
    BY <1>1, <1>4, MiddleInOrder
  <2> HIDE DEF n
  <2>3. /\ low \in DOMAIN fused /\ (n + 1) \div 2 <= Cardinality(NoSlower(low))
        /\ high \in DOMAIN fused /\ Cardinality(Quicker(high)) < n \div 2 + 1
    BY <2>2, RankedExists DEF n
  <2> HIDE DEF low, high
  <2>4. l \in Mean /\ h \in Mean
    BY <2>3 DEF MeansAre
  <2> HIDE DEF l, h
  <2>5. m \in Mean /\ ~Faster(m, l) /\ ~Faster(h, m)
    BY <2>2, <2>4, HalfwayBetween
  <2> HIDE DEF m
  <2>6. NoSlower(low) \subseteq slow(Median)
    <3> SUFFICES ASSUME NEW e \in NoSlower(low) PROVE e \in slow(Median)
      BY DEF slow
    <3>1. e \in DOMAIN fused /\ ~Faster(l, fused[e]) /\ fused[e] \in Mean
      BY DEF NoSlower, l, MeansAre
    <3>2. ~Faster(m, fused[e])
      BY <2>4, <2>5, <3>1, MeansInOrder
    <3>3. m.wsum * fused[e].samples \in Int /\ fused[e].wsum * m.samples \in Int
      BY <2>5, <3>1 DEF Mean
    <3>4. fused[e].wsum * m.samples <= m.wsum * fused[e].samples
      BY <3>2, <3>3 DEF Faster
    <3>5. Median[1] = m.wsum /\ Median[2] = m.samples
      BY <2>1
    <3> QED BY <3>1, <3>4, <3>5
  <2>7. (DOMAIN fused) \ Quicker(high) \subseteq fast(Median)
    <3> SUFFICES ASSUME NEW e \in (DOMAIN fused) \ Quicker(high) PROVE e \in fast(Median)
      BY DEF fast
    <3>1. e \in DOMAIN fused /\ ~Faster(fused[e], h) /\ fused[e] \in Mean
      BY DEF Quicker, h, MeansAre
    <3>2. ~Faster(fused[e], m)
      BY <2>4, <2>5, <3>1, MeansInOrder
    <3>3. m.wsum * fused[e].samples \in Int /\ fused[e].wsum * m.samples \in Int
      BY <2>5, <3>1 DEF Mean
    <3>4. fused[e].wsum * m.samples >= m.wsum * fused[e].samples
      BY <3>2, <3>3 DEF Faster
    <3>5. Median[1] = m.wsum /\ Median[2] = m.samples
      BY <2>1
    <3> QED BY <3>1, <3>4, <3>5
  <2>8. Cardinality(NoSlower(low)) <= Cardinality(slow(Median))
    <3> HIDE DEF slow
    <3> QED BY <1>2, <2>6, FS_Subset
  <2>9. Cardinality((DOMAIN fused) \ Quicker(high)) <= Cardinality(fast(Median))
    <3> HIDE DEF fast
    <3> QED BY <1>2, <2>7, FS_Subset
  <2>10. Cardinality((DOMAIN fused) \ Quicker(high)) = n - Cardinality(Quicker(high))
    <3>1. DOMAIN fused \cap Quicker(high) = Quicker(high)
      BY DEF Quicker
    <3>2. Cardinality((DOMAIN fused) \ Quicker(high)) = n - Cardinality(DOMAIN fused \cap Quicker(high))
      BY FS_Difference DEF MeansAre, n
    <3> QED BY <3>1, <3>2
  <2>11. /\ Cardinality(NoSlower(low)) \in Nat /\ Cardinality(Quicker(high)) \in Nat
    BY FS_Subset, FS_CardinalityType DEF NoSlower, Quicker, MeansAre
  <2>12. /\ Cardinality(slow(Median)) \in Nat /\ Cardinality(fast(Median)) \in Nat
    BY <1>2
  <2> HIDE DEF slow, fast
  <2>13. 2 * Cardinality(slow(Median)) >= n
    BY <1>1, <2>3, <2>8, <2>11, <2>12
  <2>14. 2 * Cardinality(fast(Median)) >= n
    BY <1>1, <2>3, <2>9, <2>10, <2>11, <2>12
  <2> QED BY <2>13, <2>14 DEF slow, fast, n
<1> QED BY <1>3, <1>4

-----------------------------------------------------------------------------
(***************************************************************************)
(* Fusion.  What is fused is the graph of the rows that were read.         *)
(***************************************************************************)
\* The rows that were read, those of an edge among them, and their terms.
Read == Len(given) - Len(rows)
ReadOf(e) == {j \in RowsOf(e) : j <= Read}
Weights == [j \in DOMAIN given |-> Samples(given[j])]
Sums == [j \in DOMAIN given |-> given[j].rtt * Samples(given[j])]

\* What is fused is the graph of the rows that were read.
FusedInv ==
  /\ given \in Seq(Rows) /\ rows \in Seq(Rows) /\ Len(rows) <= Len(given)
  /\ \A i \in 1 .. Len(rows) : rows[i] = given[Read + i]
  /\ MeansAre
  /\ DOMAIN fused = {e \in SUBSET AnyId : Cardinality(e) = 2 /\ ReadOf(e) # {}}
  /\ \A e \in DOMAIN fused : /\ fused[e].wsum = SumFunctionOnSet(Sums, ReadOf(e))
                             /\ fused[e].samples = SumFunctionOnSet(Weights, ReadOf(e))
  /\ order \in Seq(DOMAIN fused) /\ \A e \in DOMAIN fused : \E i \in DOMAIN order : order[i] = e

\* A row that counts is an edge between two ids.
LEMMA UsablePair ==
  ASSUME NEW r \in Rows, Usable(r)
  PROVE  /\ Pair(r) \in SUBSET AnyId /\ IsFiniteSet(Pair(r)) /\ Cardinality(Pair(r)) = 2
         /\ From(r) # r.to /\ From(r) \in AnyId /\ r.to \in AnyId
<1>1. r.from \in Id \cup {Absent} /\ r.to \in Id \cup {Absent}
  BY MeshAssumption
<1>2. From(r) # r.to /\ From(r) \in AnyId /\ r.to \in AnyId
  BY <1>1 DEF Usable, From, AnyId
<1>3. IsFiniteSet({From(r), r.to}) /\ Cardinality({From(r), r.to}) = 2
  BY <1>2, TwoMembers
<1> QED BY <1>2, <1>3 DEF Pair

\* A row counts for one sample at least, and a usable one takes no negative time.
LEMMA TermTypes ==
  ASSUME given \in Seq(Rows)
  PROVE  /\ \A j \in DOMAIN given : Samples(given[j]) \in Nat \ {0} /\ given[j].rtt \in Int
         /\ \A j \in DOMAIN given : Weights[j] = Samples(given[j]) /\ Weights[j] \in Nat \ {0}
         /\ \A j \in DOMAIN given : Sums[j] = given[j].rtt * Samples(given[j]) /\ Sums[j] \in Int
         /\ \A j \in DOMAIN given : Usable(given[j]) => Sums[j] \in Nat
         /\ \A e : RowsOf(e) \subseteq DOMAIN given /\ IsFiniteSet(RowsOf(e))
<1>1. ASSUME NEW j \in DOMAIN given
      PROVE  /\ Samples(given[j]) \in Nat \ {0} /\ given[j].rtt \in Int
             /\ given[j].rtt * Samples(given[j]) \in Int
             /\ Usable(given[j]) => given[j].rtt * Samples(given[j]) \in Nat
  <2>1. given[j] \in Rows
    OBVIOUS
  <2>2. given[j].rtt \in Int /\ given[j].samples \in Nat \cup {Absent}
    BY <2>1, MeshAssumption
  <2>3. Samples(given[j]) \in Nat \ {0}
    BY <2>2 DEF Samples, Absent
  <2>4. \A a \in Int : \A b \in Nat : a * b \in Int /\ (a >= 0 => a * b \in Nat)
    OBVIOUS
  <2> QED BY <2>2, <2>3, <2>4 DEF Usable
<1>2. IsFiniteSet(DOMAIN given)
  <2>1. DOMAIN given = 1 .. Len(given) /\ Len(given) \in Nat
    BY LenProperties
  <2> QED BY <2>1, FS_Interval
<1>3. ASSUME NEW e PROVE RowsOf(e) \subseteq DOMAIN given /\ IsFiniteSet(RowsOf(e))
  BY <1>2, FS_Subset DEF RowsOf
<1> QED BY <1>1, <1>3 DEF Weights, Sums

\* Nothing is read and nothing fused.
LEMMA InitFused == ASSUME MeshInit(Netgraphs) PROVE FusedInv
<1>1. given \in Seq(Rows) /\ rows = given
  BY DEF MeshInit, Netgraphs, SeqOf
<1>2. Read = 0 /\ Len(given) \in Nat
  BY <1>1, LenProperties DEF Read
<1>3. \A e : ReadOf(e) = {}
  <2> SUFFICES ASSUME NEW e, NEW j \in ReadOf(e) PROVE FALSE
    OBVIOUS
  <2>1. j \in DOMAIN given /\ j <= 0
    BY <1>2 DEF ReadOf, RowsOf
  <2> QED BY <1>1, <2>1, LenProperties
<1>4. DOMAIN fused = {} /\ order = <<>>
  BY DEF MeshInit
<1>5. MeansAre
  BY <1>4, FS_EmptySet DEF MeshInit, MeansAre
<1>6. \A i \in 1 .. Len(rows) : rows[i] = given[Read + i]
  BY <1>1, <1>2
<1> QED BY <1>1, <1>2, <1>3, <1>4, <1>5, <1>6 DEF FusedInv

\* What is read does not depend on what is computed.
LEMMA SameGiven ==
  given' = given => /\ \A e : RowsOf(e)' = RowsOf(e)
                    /\ Weights' = Weights /\ Sums' = Sums
<1> SUFFICES ASSUME given' = given
             PROVE (\A e : RowsOf(e)' = RowsOf(e)) /\ Weights' = Weights /\ Sums' = Sums
  OBVIOUS
<1> QED BY DEF RowsOf, Weights, Sums

\* The later steps read nothing.
LEMMA FusedKept ==
  FusedInv /\ UNCHANGED <<given, rows, fused, order>> => FusedInv'
<1> SUFFICES ASSUME FusedInv, UNCHANGED <<given, rows, fused, order>> PROVE FusedInv'
  OBVIOUS
<1>1. (\A e : RowsOf(e)' = RowsOf(e)) /\ Weights' = Weights /\ Sums' = Sums
  BY SameGiven
<1>2. Read' = Read /\ MeansAre'
  BY DEF FusedInv, Read, MeansAre
<1>3. \A e : ReadOf(e)' = ReadOf(e)
  BY <1>1, <1>2 DEF ReadOf
<1> QED BY <1>1, <1>2, <1>3 DEF FusedInv

\* A row adds to the sums of its own edge.
LEMMA FuseStep == FusedInv /\ FuseRow => FusedInv'
<1> SUFFICES ASSUME FusedInv, FuseRow PROVE FusedInv'
  OBVIOUS
<1> DEFINE k == Read + 1
           r == Head(rows)
<1>0. PICK e : e = Pair(r)
  OBVIOUS
<1>1. /\ given \in Seq(Rows) /\ rows \in Seq(Rows) /\ rows # <<>> /\ given' = given
      /\ rows' = Tail(rows) /\ Len(rows) <= Len(given)
  BY DEF FusedInv, FuseRow
<1>2. Len(rows) \in Nat \ {0} /\ Len(given) \in Nat /\ DOMAIN given = 1 .. Len(given)
  BY <1>1, EmptySeq, LenProperties
<1>3. Len(rows') = Len(rows) - 1 /\ rows' \in Seq(Rows) /\ \A i \in 1 .. Len(rows') : rows'[i] = rows[i + 1]
  BY <1>1, HeadTailProperties
<1>4. /\ k \in DOMAIN given /\ Read \in Nat /\ Read' = k /\ r = given[k] /\ r \in Rows
  <2>1. Read \in Nat /\ k \in 1 .. Len(given) /\ Read' = k
    BY <1>1, <1>2, <1>3 DEF Read
  <2>2. r = rows[1] /\ 1 \in 1 .. Len(rows)
    BY <1>1, <1>2
  <2>3. rows[1] = given[Read + 1]
    BY <2>2 DEF FusedInv
  <2> QED BY <1>1, <1>2, <2>1, <2>2, <2>3
<1>5. \A i \in 1 .. Len(rows') : rows'[i] = given'[Read' + i]
  <2> SUFFICES ASSUME NEW i \in 1 .. Len(rows') PROVE rows'[i] = given[k + i]
    BY <1>1, <1>4
  <2>1. i + 1 \in 1 .. Len(rows) /\ k + i = Read + (i + 1)
    BY <1>2, <1>3, <1>4
  <2>2. rows[i + 1] = given[Read + (i + 1)]
    BY <2>1 DEF FusedInv
  <2> QED BY <1>3, <2>1, <2>2
<1>6. (\A d : RowsOf(d)' = RowsOf(d)) /\ Weights' = Weights /\ Sums' = Sums
  BY <1>1, SameGiven
<1>7. \A d : ReadOf(d)' = {j \in RowsOf(d) : j <= k}
  BY <1>4, <1>6 DEF ReadOf
<1> HIDE DEF k, r
<1>8. \A d : \A j \in RowsOf(d) : j <= k <=> j <= Read \/ j = k
  <2> SUFFICES ASSUME NEW d, NEW j \in RowsOf(d) PROVE j <= k <=> j <= Read \/ j = k
    OBVIOUS
  <2>1. j \in Int
    BY <1>2 DEF RowsOf
  <2> QED BY <1>4, <2>1 DEF k
<1>9. \A d : k \in RowsOf(d) <=> Usable(r) /\ e = d
  BY <1>0, <1>4 DEF RowsOf
<1>10. \A d : k \notin ReadOf(d)
  BY <1>4 DEF ReadOf, k
<1>11. \A d : ReadOf(d)' = IF Usable(r) /\ e = d THEN ReadOf(d) \cup {k} ELSE ReadOf(d)
  BY <1>7, <1>8, <1>9 DEF ReadOf
<1>12. CASE ~Usable(r)
  <2>1. UNCHANGED <<fused, order>>
    BY <1>12 DEF FuseRow, r
  <2>2. \A d : ReadOf(d)' = ReadOf(d)
    BY <1>11, <1>12
  <2>3. MeansAre'
    BY <2>1 DEF FusedInv, MeansAre
  <2>4. DOMAIN fused' = {d \in SUBSET AnyId : Cardinality(d) = 2 /\ ReadOf(d)' # {}}
    BY <2>1, <2>2 DEF FusedInv
  <2>5. \A d \in DOMAIN fused' : /\ fused'[d].wsum = SumFunctionOnSet(Sums', ReadOf(d)')
                                 /\ fused'[d].samples = SumFunctionOnSet(Weights', ReadOf(d)')
    BY <1>6, <2>1, <2>2 DEF FusedInv
  <2>6. order' \in Seq(DOMAIN fused') /\ \A d \in DOMAIN fused' : \E i \in DOMAIN order' : order'[i] = d
    BY <2>1 DEF FusedInv
  <2>7. Len(rows') <= Len(given')
    BY <1>1, <1>2, <1>3
  <2> QED BY <1>1, <1>3, <1>5, <2>3, <2>4, <2>5, <2>6, <2>7 DEF FusedInv
<1>13. CASE Usable(r)
  <2>1. /\ fused' = [d \in DOMAIN fused \cup {e} |-> IF d = e THEN Add(SoFar(e), r) ELSE fused[d]]
        /\ order' = IF e \in DOMAIN fused THEN order ELSE Append(order, e)
    BY <1>0, <1>13 DEF FuseRow, r
  <2>2. e \in SUBSET AnyId /\ Cardinality(e) = 2
    BY <1>0, <1>4, <1>13, UsablePair
  <2>3. DOMAIN fused' = {d \in SUBSET AnyId : Cardinality(d) = 2 /\ ReadOf(d)' # {}}
    BY <1>11, <1>13, <2>1, <2>2 DEF FusedInv
  <2>4. /\ SoFar(e).wsum = SumFunctionOnSet(Sums, ReadOf(e)) /\ SoFar(e).wsum \in Nat
        /\ SoFar(e).samples = SumFunctionOnSet(Weights, ReadOf(e)) /\ SoFar(e).samples \in Nat
    <3>1. CASE e \in DOMAIN fused
      BY <3>1 DEF SoFar, FusedInv, MeansAre, Mean
    <3>2. CASE e \notin DOMAIN fused
      <4>1. ReadOf(e) = {}
        BY <2>2, <3>2 DEF FusedInv
      <4>2. SoFar(e).wsum = 0 /\ SoFar(e).samples = 0
        BY <3>2 DEF SoFar
      <4>3. SumFunctionOnSet(Sums, {}) = 0 /\ SumFunctionOnSet(Weights, {}) = 0
        BY SumEmpty
      <4> QED BY <4>1, <4>2, <4>3
    <3> QED BY <3>1, <3>2
  <2>5. /\ Sums[k] = r.rtt * Samples(r) /\ Sums[k] \in Nat
        /\ Weights[k] = Samples(r) /\ Weights[k] \in Nat \ {0}
    BY <1>1, <1>4, <1>13, TermTypes
  <2>6. /\ SumFunctionOnSet(Sums, ReadOf(e) \cup {k}) = Sums[k] + SumFunctionOnSet(Sums, ReadOf(e))
        /\ SumFunctionOnSet(Weights, ReadOf(e) \cup {k}) = Weights[k] + SumFunctionOnSet(Weights, ReadOf(e))
    <3> DEFINE S == ReadOf(e) \cup {k}
    <3>1. S \subseteq RowsOf(e) /\ k \in S /\ S \ {k} = ReadOf(e)
      BY <1>9, <1>10, <1>13 DEF ReadOf
    <3>2. IsFiniteSet(S) /\ \A j \in S : Sums[j] \in Int /\ Weights[j] \in Int
      <4> HIDE DEF S
      <4>1. RowsOf(e) \subseteq DOMAIN given /\ IsFiniteSet(RowsOf(e))
        BY <1>1, TermTypes
      <4>2. IsFiniteSet(S)
        BY <3>1, <4>1, FS_Subset
      <4>3. \A j \in DOMAIN given : Sums[j] \in Int /\ Weights[j] \in Nat \ {0}
        BY <1>1, TermTypes
      <4> QED BY <3>1, <4>1, <4>2, <4>3
    <3> HIDE DEF S
    <3>3. /\ SumFunctionOnSet(Sums, S) = Sums[k] + SumFunctionOnSet(Sums, S \ {k})
          /\ SumFunctionOnSet(Weights, S) = Weights[k] + SumFunctionOnSet(Weights, S \ {k})
      BY <3>1, <3>2, SumSplit
    <3> QED BY <3>1, <3>3, Zenon DEF S
  <2>7. /\ fused'[e] = [wsum |-> SoFar(e).wsum + Sums[k], samples |-> SoFar(e).samples + Weights[k]]
        /\ \A d \in DOMAIN fused : d # e => fused'[d] = fused[d]
        /\ DOMAIN fused' = DOMAIN fused \cup {e}
    BY <2>1, <2>5 DEF Add
  <2>8. MeansAre'
    <3>1. fused'[e] \in Mean
      BY <2>4, <2>5, <2>7 DEF Mean
    <3>2. \A d \in DOMAIN fused' : fused'[d] \in Mean
      BY <2>7, <3>1 DEF FusedInv, MeansAre
    <3>3. fused' = [d \in DOMAIN fused' |-> fused'[d]]
      BY <2>1
    <3>4. IsFiniteSet(DOMAIN fused')
      <4>1. IsFiniteSet(DOMAIN fused)
        BY DEF FusedInv, MeansAre
      <4>2. IsFiniteSet((DOMAIN fused) \cup {e})
        BY <4>1, FS_AddElement
      <4> QED BY <2>7, <4>2
    <3>5. fused' \in [DOMAIN fused' -> Mean]
      BY <3>2, <3>3
    <3> QED BY <3>4, <3>5 DEF MeansAre
  <2>9. \A d \in DOMAIN fused' : /\ fused'[d].wsum = SumFunctionOnSet(Sums', ReadOf(d)')
                                 /\ fused'[d].samples = SumFunctionOnSet(Weights', ReadOf(d)')
    <3> SUFFICES ASSUME NEW d \in DOMAIN fused'
                 PROVE  /\ fused'[d].wsum = SumFunctionOnSet(Sums, ReadOf(d)')
                        /\ fused'[d].samples = SumFunctionOnSet(Weights, ReadOf(d)')
      BY <1>6
    <3>1. CASE d = e
      <4>1. ReadOf(e)' = ReadOf(e) \cup {k}
        BY <1>11, <1>13
      <4>2. /\ fused'[e].wsum = SoFar(e).wsum + Sums[k]
            /\ fused'[e].samples = SoFar(e).samples + Weights[k]
        BY <2>7
      <4>3. /\ SumFunctionOnSet(Sums, ReadOf(e) \cup {k}) = SoFar(e).wsum + Sums[k]
            /\ SumFunctionOnSet(Weights, ReadOf(e) \cup {k}) = SoFar(e).samples + Weights[k]
        BY <2>4, <2>5, <2>6
      <4> QED BY <3>1, <4>1, <4>2, <4>3
    <3>2. CASE d # e
      BY <1>11, <2>7, <3>2 DEF FusedInv
    <3> QED BY <3>1, <3>2
  <2>10. order' \in Seq(DOMAIN fused') /\ \A d \in DOMAIN fused' : \E i \in DOMAIN order' : order'[i] = d
    <3>1. order \in Seq(DOMAIN fused) /\ \A d \in DOMAIN fused : \E i \in DOMAIN order : order[i] = d
      BY DEF FusedInv
    <3>2. CASE e \in DOMAIN fused
      <4>1. order' = order /\ DOMAIN fused' = DOMAIN fused
        BY <2>1, <2>7, <3>2
      <4> QED BY <3>1, <4>1
    <3>3. CASE e \notin DOMAIN fused
      <4>1. order' = Append(order, e) /\ order \in Seq(DOMAIN fused') /\ e \in DOMAIN fused'
        BY <2>1, <2>7, <3>1, <3>3
      <4>2. /\ order' \in Seq(DOMAIN fused') /\ DOMAIN order' = 1 .. Len(order) + 1
            /\ order'[Len(order) + 1] = e /\ \A i \in 1 .. Len(order) : order'[i] = order[i]
        BY <4>1, AppendProperties
      <4>3. DOMAIN order = 1 .. Len(order) /\ Len(order) \in Nat
        BY <3>1, LenProperties
      <4>4. ASSUME NEW d \in DOMAIN fused' PROVE \E i \in DOMAIN order' : order'[i] = d
        <5>1. CASE d = e
          BY <4>2, <4>3, <5>1
        <5>2. CASE d # e
          <6>1. PICK i \in DOMAIN order : order[i] = d
            BY <2>7, <3>1, <5>2
          <6>2. i \in DOMAIN order' /\ order'[i] = d
            BY <4>2, <4>3, <6>1
          <6> QED BY <6>2
        <5> QED BY <5>1, <5>2
      <4> QED BY <4>2, <4>4
    <3> QED BY <3>2, <3>3
  <2>11. Len(rows') <= Len(given')
    BY <1>1, <1>2, <1>3
  <2> QED BY <1>1, <1>3, <1>5, <2>3, <2>8, <2>9, <2>10, <2>11 DEF FusedInv
<1> QED BY <1>12, <1>13

\* When all rows are read, what is fused is the graph.
LEMMA AllRead ==
  ASSUME FusedInv, rows = <<>>
  PROVE  /\ DOMAIN fused = Edges /\ Nodes = Named
         /\ \A e \in Edges : fused[e].wsum = SumOf(e) /\ fused[e].samples = WeightOf(e)
         /\ {e \in DOMAIN fused : Near(e)} = FastEdges
<1>1. given \in Seq(Rows) /\ DOMAIN given = 1 .. Len(given) /\ Len(given) \in Nat
  BY LenProperties DEF FusedInv
<1>2. Read = Len(given)
  BY <1>1 DEF Read
<1>3. \A e : ReadOf(e) = RowsOf(e)
  BY <1>1, <1>2 DEF ReadOf, RowsOf
<1>4. DOMAIN fused = Edges
  BY <1>3 DEF FusedInv, Edges
<1>5. Nodes = Named
  BY <1>4 DEF Nodes, Named
<1>6. ASSUME NEW e \in Edges PROVE fused[e].wsum = SumOf(e) /\ fused[e].samples = WeightOf(e)
  <2> DEFINE f == [j \in RowsOf(e) |-> given[j].rtt * Samples(given[j])]
             g == [j \in RowsOf(e) |-> Samples(given[j])]
  <2>1. RowsOf(e) \subseteq DOMAIN given /\ IsFiniteSet(RowsOf(e))
    BY <1>1, TermTypes
  <2>2. \A j \in RowsOf(e) : Sums[j] \in Int /\ Sums[j] = f[j] /\ Weights[j] \in Int /\ Weights[j] = g[j]
    BY <1>1, <2>1, TermTypes
  <2>3. DOMAIN f = RowsOf(e) /\ DOMAIN g = RowsOf(e)
    OBVIOUS
  <2>4. SumOf(e) = SumFunctionOnSet(f, RowsOf(e)) /\ WeightOf(e) = SumFunctionOnSet(g, RowsOf(e))
    BY <2>3 DEF SumOf, WeightOf, SumFunction
  <2> HIDE DEF f, g
  <2>5. /\ SumFunctionOnSet(Sums, RowsOf(e)) = SumFunctionOnSet(f, RowsOf(e))
        /\ SumFunctionOnSet(Weights, RowsOf(e)) = SumFunctionOnSet(g, RowsOf(e))
    BY <2>1, <2>2, SumEq
  <2>6. /\ fused[e].wsum = SumFunctionOnSet(Sums, RowsOf(e))
        /\ fused[e].samples = SumFunctionOnSet(Weights, RowsOf(e))
    BY <1>3, <1>4 DEF FusedInv
  <2> QED BY <2>4, <2>5, <2>6
<1>7. {e \in DOMAIN fused : Near(e)} = FastEdges
  BY <1>4, <1>6 DEF Near, FastEdges
<1> QED BY <1>4, <1>5, <1>6, <1>7

-----------------------------------------------------------------------------
(***************************************************************************)
(* The counts.  The trees are the components of the edges joined so far, and *)
(* the pairs within trees those that are connected.                        *)
(***************************************************************************)
\* The trees of p group the nodes as the edges of D connect them.
Groups(R, D) ==
  /\ \A e \in D : e \subseteq Nodes /\ \A x, y \in e : R[x] = R[y]
  /\ \A S \in SUBSET Nodes : Closed(D, S) => \A n \in Nodes : R[n] \in S <=> n \in S
Grouped(p, D) ==
  DOMAIN p = Nodes /\ \E A, R : Forest(p, A, R) /\ Groups(R, D)

\* Before any union every node is its own component.
LEMMA SinglesGrouped == Grouped(Singletons, {})
<1> DEFINE A == [n \in Nodes |-> {}]
           R == Singletons
<1>1. Forest(R, A, R)
  BY DEF Forest, Singletons
<1>2. Groups(R, {})
  BY DEF Groups, Singletons
<1>3. DOMAIN R = Nodes
  BY DEF Singletons
<1> QED BY <1>1, <1>2, <1>3 DEF Grouped

\* A union groups by one more edge.
LEMMA UnionGrouped ==
  ASSUME NEW p, NEW D, Grouped(p, D), IsFiniteSet(Nodes),
         NEW x \in Nodes, NEW y \in Nodes
  PROVE  Grouped(Union(p, x, y), D \cup {{x, y}})
<1>1. PICK A, R : Forest(p, A, R) /\ Groups(R, D)
  BY DEF Grouped
<1>2. DOMAIN p = Nodes
  BY DEF Grouped
<1> DEFINE M == Merged(R, x, y)
<1>3. DOMAIN Union(p, x, y) = Nodes /\ \E B : Forest(Union(p, x, y), B, M)
  BY <1>1, <1>2, UnionForest
<1>4. DOMAIN R = Nodes
  BY <1>1, <1>2 DEF Forest
<1>5. \A n \in Nodes : M[n] = IF R[n] = R[x] THEN R[y] ELSE R[n]
  BY <1>4 DEF Merged
<1>6. DOMAIN M = Nodes
  BY <1>4 DEF Merged
<1> HIDE DEF M
<1>7. Groups(M, D \cup {{x, y}})
  <2>1. ASSUME NEW e \in D, NEW u \in e, NEW v \in e PROVE M[u] = M[v]
    <3>1. R[u] = R[v]
      BY <1>1 DEF Groups
    <3>2. u \in Nodes /\ v \in Nodes
      BY <1>1 DEF Groups
    <3> QED BY <1>5, <3>1, <3>2
  <2>2. M[x] = M[y]
    BY <1>5
  <2>3. ASSUME NEW S \in SUBSET Nodes, Closed(D \cup {{x, y}}, S), NEW n \in Nodes
        PROVE  M[n] \in S <=> n \in S
    <3>1. Closed(D, S) /\ (x \in S <=> y \in S)
      <4>1. \A e \in D \cup {{x, y}} : e \cap S # {} => e \subseteq S
        BY <2>3 DEF Closed
      <4>2. {x, y} \cap S # {} => {x, y} \subseteq S
        BY <4>1
      <4> QED BY <4>1, <4>2 DEF Closed
    <3>2. \A m \in Nodes : R[m] \in S <=> m \in S
      BY <1>1, <3>1 DEF Groups
    <3> QED BY <1>5, <3>1, <3>2
  <2>4. ASSUME NEW e \in D \cup {{x, y}}
        PROVE  e \subseteq Nodes /\ \A u, v \in e : M[u] = M[v]
    <3>1. CASE e \in D
      <4>1. e \subseteq Nodes
        BY <1>1, <3>1 DEF Groups
      <4> QED BY <2>1, <3>1, <4>1
    <3>2. CASE e = {x, y}
      BY <2>2, <3>2
    <3> QED BY <3>1, <3>2
  <2> QED BY <2>3, <2>4 DEF Groups
<1> QED BY <1>3, <1>7 DEF Grouped

\* The roots stand for the components: each node for the set of nodes that it
\* reaches, and two nodes have one root when one reaches the other.
LEMMA GroupsAreReached ==
  ASSUME NEW p, NEW D, Grouped(p, D), IsFiniteSet(Nodes), Nodes = Named
  PROVE  \E R \in [Nodes -> Nodes] :
           /\ \A n \in Nodes : Root(p, n) = R[n] /\ R[R[n]] = R[n]
           /\ \A n \in Nodes : Reach(D, n) = {m \in Nodes : R[m] = R[n]}
<1>1. PICK A, R : Forest(p, A, R) /\ Groups(R, D)
  BY DEF Grouped
<1>2. DOMAIN p = Nodes
  BY DEF Grouped
<1>3. R \in [Nodes -> Nodes]
  BY <1>1, <1>2 DEF Forest
<1>4. \A n \in Nodes : Root(p, n) = R[n]
  BY <1>1, <1>2, RootIs
<1>5. \A n \in Nodes : R[R[n]] = R[n]
  BY <1>1, <1>2, <1>3 DEF Forest
<1>6. ASSUME NEW n \in Nodes PROVE Reach(D, n) = {m \in Nodes : R[m] = R[n]}
  <2> DEFINE S == {m \in Nodes : R[m] = R[n]}
  <2>1. S \in SUBSET Nodes /\ n \in S
    OBVIOUS
  <2>2. Closed(D, S)
    <3> SUFFICES ASSUME NEW e \in D, NEW x \in e, x \in S, NEW y \in e PROVE y \in S
      BY DEF Closed
    <3>1. R[y] = R[x] /\ y \in Nodes
      BY <1>1 DEF Groups
    <3> QED BY <3>1
  <2>3. ASSUME NEW m \in Reach(D, n) PROVE m \in S
    <3> HIDE DEF S
    <3> QED BY <2>1, <2>2 DEF Reach
  <2>4. ASSUME NEW m \in S, NEW T \in SUBSET Nodes, n \in T, Closed(D, T) PROVE m \in T
    <3>1. \A i \in Nodes : R[i] \in T <=> i \in T
      BY <1>1, <2>4 DEF Groups
    <3>2. m \in Nodes /\ R[m] = R[n]
      OBVIOUS
    <3> QED BY <2>4, <3>1, <3>2
  <2>5. ASSUME NEW m \in S PROVE m \in Reach(D, n)
    BY <2>4 DEF Reach
  <2> QED BY <2>3, <2>5
<1> QED BY <1>3, <1>4, <1>5, <1>6

\* As many roots as components.
LEMMA RootsCount ==
  ASSUME NEW D, Grouped(parent, D), IsFiniteSet(Nodes), Nodes = Named
  PROVE  /\ IsFiniteSet({Reach(D, n) : n \in Named})
         /\ Cardinality(Roots) = Cardinality({Reach(D, n) : n \in Named})
<1>1. PICK R \in [Nodes -> Nodes] :
        /\ \A n \in Nodes : Root(parent, n) = R[n] /\ R[R[n]] = R[n]
        /\ \A n \in Nodes : Reach(D, n) = {m \in Nodes : R[m] = R[n]}
  BY GroupsAreReached
<1> DEFINE Q == {R[n] : n \in Nodes}
           C == {Reach(D, n) : n \in Nodes}
           f == [r \in Q |-> {m \in Nodes : R[m] = r}]
<1>2. Roots = Q
  BY <1>1 DEF Roots
<1>3. f \in Bijection(Q, C)
  <2>1. \A n \in Nodes : f[R[n]] = Reach(D, n)
    BY <1>1
  <2>2. DOMAIN f = Q
    OBVIOUS
  <2>3. \A r \in Q : r \in f[r] /\ \A m \in f[r] : R[m] = r
    BY <1>1
  <2> HIDE DEF f
  <2>4. \A r \in Q : f[r] \in C
    BY <2>1
  <2>5. \A c \in C : \E r \in Q : f[r] = c
    BY <2>1
  <2>6. \A r, s \in Q : f[r] = f[s] => r = s
    BY <2>3
  <2>7. f \in [Q -> C]
    <3>1. f = [r \in Q |-> f[r]]
      BY DEF f
    <3> HIDE DEF Q, C
    <3> QED BY <2>4, <3>1
  <2> HIDE DEF Q, C
  <2> QED BY <2>5, <2>6, <2>7 DEF Bijection, Injection, Surjection, IsInjective
<1>4. IsFiniteSet(Q)
  <2>1. Q \subseteq Nodes
    BY <1>1
  <2> QED BY <2>1, FS_Subset
<1>5. IsFiniteSet(C) /\ Cardinality(C) = Cardinality(Q)
  <2> HIDE DEF Q, C, f
  <2>1. ExistsBijection(Q, C)
    BY <1>3 DEF ExistsBijection
  <2> QED BY <1>4, <2>1, FS_Bijection
<1> QED BY <1>2, <1>5

\* As many pairs within trees as pairs that are connected.
LEMMA PairsOfRoots ==
  ASSUME NEW D, Grouped(parent, D), IsFiniteSet(Nodes), Nodes = Named
  PROVE  LET connected == {e \in SUBSET Named : /\ Cardinality(e) = 2
                                                /\ \A x, y \in e : y \in Reach(D, x)}
         IN /\ IsFiniteSet(connected)
            /\ SumFunction([r \in Roots |-> (SizeOf(r) * (SizeOf(r) - 1)) \div 2])
                 = Cardinality(connected)
<1>1. PICK R \in [Nodes -> Nodes] :
        /\ \A n \in Nodes : Root(parent, n) = R[n] /\ R[R[n]] = R[n]
        /\ \A n \in Nodes : Reach(D, n) = {m \in Nodes : R[m] = R[n]}
  BY GroupsAreReached
<1> DEFINE Q == {R[n] : n \in Nodes}
           tree(r) == {n \in Nodes : R[n] = r}
           c == [r \in Q |-> PairsIn(tree(r))]
           connected == {e \in SUBSET Named : /\ Cardinality(e) = 2
                                              /\ \A x, y \in e : y \in Reach(D, x)}
<1>2. Roots = Q /\ \A r : SizeOf(r) = Cardinality(tree(r))
  BY <1>1 DEF Roots, SizeOf
<1>3. IsFiniteSet(Q)
  <2>1. Q \subseteq Nodes
    BY <1>1
  <2> QED BY <2>1, FS_Subset
<1>4. ASSUME NEW r \in Q
      PROVE  IsFiniteSet(c[r]) /\ Cardinality(c[r]) = (SizeOf(r) * (SizeOf(r) - 1)) \div 2
  <2>1. IsFiniteSet(tree(r))
    BY FS_Subset
  <2>2. c[r] = PairsIn(tree(r))
    OBVIOUS
  <2> HIDE DEF c, tree
  <2>3. IsFiniteSet(c[r]) /\ Cardinality(c[r]) = (Cardinality(tree(r)) * (Cardinality(tree(r)) - 1)) \div 2
    BY <2>1, <2>2, PairsCount
  <2>4. SizeOf(r) = Cardinality(tree(r))
    BY <1>2
  <2> QED BY <2>3, <2>4
<1>5. \A r, s \in Q : r # s => c[r] \cap c[s] = {}
  <2> SUFFICES ASSUME NEW r \in Q, NEW s \in Q, r # s, NEW e \in c[r] \cap c[s] PROVE FALSE
    OBVIOUS
  <2>1. e \subseteq tree(r) /\ e \subseteq tree(s) /\ Cardinality(e) = 2
    BY DEF PairsIn
  <2>2. e = {}
    BY <2>1
  <2> QED BY <2>1, <2>2, FS_EmptySet
<1>6. UNION {c[r] : r \in Q} = connected
  <2>1. ASSUME NEW r \in Q, NEW e \in c[r] PROVE e \in connected
    <3>1. e \subseteq tree(r) /\ Cardinality(e) = 2
      BY DEF PairsIn
    <3>2. \A x, y \in e : y \in Reach(D, x)
      BY <1>1, <3>1
    <3> QED BY <3>1, <3>2
  <2>2. ASSUME NEW e \in connected PROVE \E r \in Q : e \in c[r]
    <3>1. e # {} /\ Cardinality(e) = 2 /\ e \subseteq Nodes /\ \A x, y \in e : y \in Reach(D, x)
      BY FS_EmptySet
    <3>2. PICK x : x \in e
      BY <3>1
    <3>3. R[x] \in Q /\ e \subseteq tree(R[x])
      BY <1>1, <3>1, <3>2
    <3>4. e \in c[R[x]]
      BY <3>1, <3>3 DEF PairsIn
    <3> QED BY <3>3, <3>4
  <2> HIDE DEF c, connected, Q
  <2> QED BY <2>1, <2>2
<1> DEFINE sizes == [r \in Q |-> Cardinality(c[r])]
<1>7. IsFiniteSet(connected) /\ Cardinality(connected) = SumFunction(sizes)
  <2>1. /\ IsFiniteSet(UNION {c[r] : r \in Q})
        /\ Cardinality(UNION {c[r] : r \in Q}) = SumFunction([r \in Q |-> Cardinality(c[r])])
    <3> HIDE DEF c, Q
    <3> QED BY <1>3, <1>4, <1>5, DisjointSizes
  <2> QED BY <1>6, <2>1
<1>8. [r \in Roots |-> (SizeOf(r) * (SizeOf(r) - 1)) \div 2] = sizes
  <2> HIDE DEF c, Q
  <2> QED BY <1>2, <1>4
<1> HIDE DEF sizes
<1> QED BY <1>7, <1>8

Wanted == IF phase = "regions" THEN {e \in DOMAIN fused : Near(e)} ELSE DOMAIN fused

\* A pass has grouped the nodes by the edges it has joined, and those it wants
\* to join and has not are still to come.
PassInv ==
  phase \in {"regions", "pairs"} =>
    /\ todo \in Seq(DOMAIN fused)
    /\ \E D \in SUBSET Wanted : /\ \A e \in Wanted : e \in D \/ \E i \in DOMAIN todo : todo[i] = e
                                /\ Grouped(parent, D)

ConnectedPairs ==
  {e \in SUBSET Named : Cardinality(e) = 2 /\ \A x, y \in e : y \in Reach(Edges, x)}

\* What was counted is right for good, as nothing is read after the fusion.
CountInv ==
  /\ regions \in Nat /\ pairs \in Nat
  /\ phase \in {"fuse", "regions", "pairs", "done"}
  /\ phase # "fuse" => rows = <<>> /\ parent \in [Nodes -> Nodes] /\ IsMedian(medianRtt)
  /\ phase \in {"pairs", "done"} => regions = Cardinality({Reach(FastEdges, n) : n \in Named})
  /\ phase = "done" => pairs = Cardinality(ConnectedPairs)

MeshInv == FusedInv /\ PassInv /\ CountInv

\* What is fused are pairs of ids.
LEMMA EdgeIs ==
  ASSUME FusedInv, NEW e \in DOMAIN fused
  PROVE  /\ IsFiniteSet(e)
         /\ \E x, y \in AnyId : x # y /\ e = {x, y}
<1>1. PICK j \in RowsOf(e) : TRUE
  BY DEF FusedInv, ReadOf
<1>2. given[j] \in Rows /\ Usable(given[j]) /\ Pair(given[j]) = e
  BY DEF RowsOf, FusedInv
<1> QED BY <1>2, UsablePair DEF Pair

\* Finitely many rows name finitely many nodes.
LEMMA NodesFinite == ASSUME FusedInv PROVE IsFiniteSet(Nodes)
<1>1. IsFiniteSet(DOMAIN fused) /\ \A e \in DOMAIN fused : IsFiniteSet(e)
  BY EdgeIs DEF FusedInv, MeansAre
<1>2. IsFiniteSet(UNION DOMAIN fused)
  BY <1>1, FS_UNION
<1>3. IsFiniteSet(Extra)
  BY MeshAssumption
<1>4. IsFiniteSet(Extra \cup UNION DOMAIN fused)
  BY <1>2, <1>3, FS_Union
<1> QED BY <1>4 DEF Nodes

\* Ends has both members of an edge.
LEMMA EndsAre ==
  ASSUME NEW x, NEW y, x # y
  PROVE  LET e == {x, y} IN /\ Ends(e)[1] \in e /\ Ends(e)[2] \in e /\ {Ends(e)[1], Ends(e)[2]} = e
<1> DEFINE e == {x, y}
           u == CHOOSE v \in e : TRUE
           w == CHOOSE v \in e : v # u
<1>1. u \in e
  OBVIOUS
<1> HIDE DEF u
<1>2. \E v \in e : v # u
  BY <1>1
<1>3. w \in e /\ w # u
  <2> HIDE DEF e
  <2> QED BY <1>2
<1>4. Ends(e) = <<u, w>>
  BY DEF Ends, u
<1> HIDE DEF w
<1>5. {u, w} = e
  BY <1>1, <1>3
<1> HIDE DEF e
<1>6. Ends(e)[1] = u /\ Ends(e)[2] = w
  BY <1>4
<1> QED BY <1>1, <1>3, <1>5, <1>6 DEF e

\* The graph is that of the rows that were given.
LEMMA GraphKept ==
  given' = given => /\ Edges' = Edges /\ Named' = Named /\ FastEdges' = FastEdges
                    /\ \A E, n : Reach(E, n)' = Reach(E, n)
                    /\ \A m : IsMedian(m)' <=> IsMedian(m)
<1> SUFFICES ASSUME given' = given
             PROVE  /\ Edges' = Edges /\ Named' = Named /\ FastEdges' = FastEdges
                    /\ \A E, n : Reach(E, n)' = Reach(E, n)
                    /\ \A m : IsMedian(m)' <=> IsMedian(m)
  OBVIOUS
<1>1. \A e : RowsOf(e)' = RowsOf(e)
  BY SameGiven
<1>2. Edges' = Edges
  BY <1>1 DEF Edges
<1>3. Named' = Named
  BY <1>2 DEF Named
<1>4. ASSUME NEW e PROVE WeightOf(e)' = WeightOf(e) /\ SumOf(e)' = SumOf(e)
  <2>1. /\ [j \in RowsOf(e)' |-> Samples(given'[j])] = [j \in RowsOf(e) |-> Samples(given[j])]
        /\ [j \in RowsOf(e)' |-> given'[j].rtt * Samples(given'[j])]
             = [j \in RowsOf(e) |-> given[j].rtt * Samples(given[j])]
    BY <1>1
  <2> QED BY <2>1, Zenon DEF WeightOf, SumOf
<1>5. FastEdges' = FastEdges
  BY <1>2, <1>4 DEF FastEdges
<1>6. \A E, n : Reach(E, n)' = Reach(E, n)
  BY <1>3 DEF Reach
<1>7. \A m : IsMedian(m)' <=> IsMedian(m)
  BY <1>2, <1>4 DEF IsMedian
<1> QED BY <1>2, <1>3, <1>5, <1>6, <1>7

\* Grouping is by the nodes of the graph that is fused.
LEMMA GroupedNext ==
  \A D : UNCHANGED fused /\ Grouped(parent', D) => Grouped(parent, D)'
<1> SUFFICES ASSUME NEW D, UNCHANGED fused, Grouped(parent', D) PROVE Grouped(parent, D)'
  OBVIOUS
<1>1. Nodes' = Nodes
  BY DEF Nodes
<1>2. PICK A, R : Forest(parent', A, R) /\ Groups(R, D)
  BY DEF Grouped
<1>3. Groups(R, D)'
  BY <1>1, <1>2 DEF Groups
<1>4. Forest(parent, A, R)'
  BY <1>2 DEF Forest
<1>5. (DOMAIN parent)' = Nodes'
  BY <1>1 DEF Grouped
<1> QED BY <1>3, <1>4, <1>5 DEF Grouped

\* A forest maps nodes to nodes.
LEMMA GroupedType == ASSUME NEW p, NEW D, Grouped(p, D) PROVE p \in [Nodes -> Nodes]
  BY DEF Grouped, Forest

\* Both passes begin with single nodes and all edges to come.
LEMMA PassBegins ==
  FusedInv /\ UNCHANGED fused /\ todo' = order /\ parent' = Singletons => PassInv' /\ parent' \in [Nodes' -> Nodes']
<1> SUFFICES ASSUME FusedInv, UNCHANGED fused, todo' = order, parent' = Singletons
             PROVE  PassInv' /\ parent' \in [Nodes' -> Nodes']
  OBVIOUS
<1>1. Grouped(parent', {})
  BY SinglesGrouped
<1>2. Grouped(parent, {})'
  BY <1>1, GroupedNext
<1>3. Nodes' = Nodes
  BY DEF Nodes
<1>4. Wanted' \subseteq DOMAIN fused
  BY DEF Wanted
<1>5. \A e \in Wanted' : \E i \in DOMAIN todo' : todo'[i] = e
  BY <1>4 DEF FusedInv
<1>6. todo' \in Seq(DOMAIN fused')
  BY DEF FusedInv
<1>7. {} \in SUBSET Wanted' /\ \A e \in Wanted' : e \in {} \/ \E i \in DOMAIN todo' : todo'[i] = e
  BY <1>5
<1>8. PassInv'
  BY <1>2, <1>6, <1>7 DEF PassInv
<1> QED BY <1>3, <1>8 DEF Singletons

\* A step of a pass joins the ends of one edge, if it wants it.
LEMMA JoinStep == FusedInv /\ PassInv /\ Join => PassInv' /\ parent' \in [Nodes' -> Nodes']
<1> SUFFICES ASSUME FusedInv, PassInv, Join PROVE PassInv' /\ parent' \in [Nodes' -> Nodes']
  OBVIOUS
<1>1. /\ phase \in {"regions", "pairs"} /\ todo # <<>> /\ todo' = Tail(todo) /\ phase' = phase
      /\ UNCHANGED <<rows, given, fused, order>>
  BY DEF Join
<1>2. PICK e : e = Head(todo)
  OBVIOUS
<1>3. todo \in Seq(DOMAIN fused)
  BY <1>1 DEF PassInv
<1>4. PICK D \in SUBSET Wanted : /\ \A d \in Wanted : d \in D \/ \E i \in DOMAIN todo : todo[i] = d
                                 /\ Grouped(parent, D)
  BY <1>1 DEF PassInv
<1>5. Nodes' = Nodes /\ Wanted' = Wanted
  BY <1>1 DEF Nodes, Wanted, Near
<1>6. /\ e \in DOMAIN fused /\ todo' \in Seq(DOMAIN fused') /\ e = todo[1] /\ Len(todo) \in Nat \ {0}
      /\ Len(todo') = Len(todo) - 1 /\ \A i \in 1 .. Len(todo') : todo'[i] = todo[i + 1]
      /\ DOMAIN todo = 1 .. Len(todo) /\ DOMAIN todo' = 1 .. Len(todo')
  <2>1. Head(todo) \in DOMAIN fused /\ Tail(todo) \in Seq(DOMAIN fused)
    BY <1>1, <1>3, HeadTailProperties
  <2>2. Len(todo') = Len(todo) - 1 /\ \A i \in 1 .. Len(todo') : todo'[i] = todo[i + 1]
    BY <1>1, <1>3, HeadTailProperties
  <2>3. Len(todo) \in Nat \ {0} /\ DOMAIN todo = 1 .. Len(todo) /\ Head(todo) = todo[1]
    BY <1>1, <1>3, EmptySeq, LenProperties
  <2>4. DOMAIN todo' = 1 .. Len(todo')
    BY <1>1, <2>1, LenProperties
  <2> QED BY <1>1, <1>2, <2>1, <2>2, <2>3, <2>4
<1>7. \A d : (\E i \in DOMAIN todo : todo[i] = d) => d = e \/ \E i \in DOMAIN todo' : todo'[i] = d
  <2> SUFFICES ASSUME NEW i \in DOMAIN todo, i # 1
               PROVE  \E j \in DOMAIN todo' : todo'[j] = todo[i]
    BY <1>6
  <2>1. i - 1 \in DOMAIN todo' /\ todo'[i - 1] = todo[i]
    <3>1. i - 1 \in 1 .. Len(todo') /\ i - 1 + 1 = i
      BY <1>6
    <3> QED BY <1>6, <3>1
  <2> QED BY <2>1
<1>8. phase = "pairs" \/ Near(e) <=> e \in Wanted
  BY <1>1, <1>6 DEF Wanted
<1>9. \E C \in SUBSET Wanted : /\ D \subseteq C /\ (e \in Wanted => e \in C)
                               /\ Grouped(parent', C)
  <2>1. CASE e \notin Wanted
    <3>1. parent' = parent
      BY <1>2, <1>8, <2>1 DEF Join
    <3> QED BY <1>4, <2>1, <3>1
  <2>2. CASE e \in Wanted
    <3>1. parent' = Union(parent, Ends(e)[1], Ends(e)[2])
      BY <1>2, <1>8, <2>2 DEF Join
    <3>2. Ends(e)[1] \in e /\ Ends(e)[2] \in e /\ {Ends(e)[1], Ends(e)[2]} = e
      <4>1. PICK x \in AnyId, y \in AnyId : x # y /\ e = {x, y}
        BY <1>6, EdgeIs
      <4> QED BY <4>1, EndsAre
    <3>3. Ends(e)[1] \in Nodes /\ Ends(e)[2] \in Nodes
      BY <1>6, <3>2 DEF Nodes
    <3>4. Grouped(parent', D \cup {e})
      <4>1. PICK x \in Nodes, y \in Nodes : x = Ends(e)[1] /\ y = Ends(e)[2]
        BY <3>3
      <4>2. IsFiniteSet(Nodes)
        BY NodesFinite
      <4>3. Grouped(Union(parent, x, y), D \cup {{x, y}})
        BY <1>4, <4>2, UnionGrouped
      <4>4. {x, y} = e
        BY <3>2, <4>1
      <4> QED BY <3>1, <4>1, <4>3, <4>4
    <3> QED BY <2>2, <3>4
  <2> QED BY <2>1, <2>2
<1>10. PICK C \in SUBSET Wanted : D \subseteq C /\ (e \in Wanted => e \in C) /\ Grouped(parent', C)
  BY <1>9
<1>11. Grouped(parent, C)'
  BY <1>1, <1>10, GroupedNext
<1>12. C \in SUBSET Wanted' /\ \A d \in Wanted' : d \in C \/ \E i \in DOMAIN todo' : todo'[i] = d
  BY <1>4, <1>5, <1>7, <1>10
<1>13. PassInv'
  BY <1>6, <1>11, <1>12 DEF PassInv
<1>14. parent' \in [Nodes -> Nodes]
  BY <1>10, GroupedType
<1> QED BY <1>5, <1>13, <1>14

\* When a pass has no edge left it has grouped by all it wants.
LEMMA PassEnds ==
  ASSUME PassInv, phase \in {"regions", "pairs"}, todo = <<>>
  PROVE  Grouped(parent, Wanted)
<1>1. PICK D \in SUBSET Wanted : /\ \A e \in Wanted : e \in D \/ \E i \in DOMAIN todo : todo[i] = e
                                 /\ Grouped(parent, D)
  BY DEF PassInv
<1>2. DOMAIN todo = {}
  <2>1. todo \in Seq({}) /\ Len(todo) = 0
    OBVIOUS
  <2> QED BY <2>1, LenProperties
<1>3. \A e \in Wanted : e \in D
  BY <1>1, <1>2
<1>4. D = Wanted
  BY <1>3
<1> QED BY <1>1, <1>4

\* The invariant holds before the first row.
LEMMA MeshInitInv == MeshInit(Netgraphs) => MeshInv
<1> SUFFICES ASSUME MeshInit(Netgraphs) PROVE MeshInv
  OBVIOUS
<1>1. FusedInv
  BY InitFused
<1>2. phase = "fuse" /\ regions = 0 /\ pairs = 0
  BY DEF MeshInit
<1> QED BY <1>1, <1>2 DEF MeshInv, PassInv, CountInv

\* Every step of fuseEdges and meshHealth keeps it.
LEMMA MeshStep == MeshInv /\ [MeshNext]_meshVars => MeshInv'
<1> SUFFICES ASSUME MeshInv, [MeshNext]_meshVars PROVE MeshInv'
  OBVIOUS
<1>0. FusedInv /\ PassInv /\ CountInv
  BY DEF MeshInv
<1>1. CASE FuseRow
  <2>1. FusedInv'
    BY <1>0, <1>1, FuseStep
  <2>2. phase' = "fuse" /\ UNCHANGED <<regions, pairs>>
    BY <1>1 DEF FuseRow
  <2> QED BY <1>0, <2>1, <2>2 DEF MeshInv, PassInv, CountInv
<1>2. CASE StartRegions
  <2>1. /\ rows = <<>> /\ medianRtt' = Median /\ phase' = "regions" /\ todo' = order /\ parent' = Singletons
        /\ UNCHANGED <<rows, given, fused, order, regions, pairs>>
    BY <1>2 DEF StartRegions, StartPass
  <2>2. FusedInv' /\ PassInv' /\ parent' \in [Nodes' -> Nodes']
    BY <1>0, <2>1, FusedKept, PassBegins
  <2>3. IsMedian(Median)
    <3>1. DOMAIN fused = Edges /\ \A e \in Edges : fused[e].wsum = SumOf(e) /\ fused[e].samples = WeightOf(e)
      BY <1>0, <2>1, AllRead
    <3>2. /\ {e \in DOMAIN fused : fused[e].wsum * Median[2] <= Median[1] * fused[e].samples}
               = {e \in Edges : SumOf(e) * Median[2] <= Median[1] * WeightOf(e)}
          /\ {e \in DOMAIN fused : fused[e].wsum * Median[2] >= Median[1] * fused[e].samples}
               = {e \in Edges : SumOf(e) * Median[2] >= Median[1] * WeightOf(e)}
      BY <3>1
    <3>3. MeansAre
      BY <1>0 DEF FusedInv
    <3> QED BY <3>1, <3>2, <3>3, MedianHalves DEF IsMedian
  <2>4. IsMedian(medianRtt)'
    <3>1. PICK m : m = medianRtt'
      OBVIOUS
    <3>2. IsMedian(m)'
      BY <2>1, <2>3, <3>1, GraphKept
    <3> QED BY <3>1, <3>2 DEF IsMedian
  <2>5. CountInv'
    BY <1>0, <2>1, <2>2, <2>4 DEF CountInv
  <2> QED BY <2>2, <2>5 DEF MeshInv
<1>3. CASE Join
  <2>1. /\ phase \in {"regions", "pairs"} /\ phase' = phase
        /\ UNCHANGED <<rows, given, fused, order, medianRtt, regions, pairs>>
    BY <1>3 DEF Join
  <2>2. FusedInv' /\ PassInv' /\ parent' \in [Nodes' -> Nodes']
    BY <1>0, <1>3, <2>1, FusedKept, JoinStep
  <2>3. CountInv'
    BY <1>0, <2>1, <2>2, GraphKept DEF CountInv, IsMedian
  <2> QED BY <2>2, <2>3 DEF MeshInv
<1>4. CASE CountRegions
  <2>1. /\ phase = "regions" /\ todo = <<>> /\ regions' = Cardinality(Roots) /\ phase' = "pairs"
        /\ todo' = order /\ parent' = Singletons
        /\ UNCHANGED <<rows, given, fused, order, medianRtt, pairs>>
    BY <1>4 DEF CountRegions, StartPass
  <2>2. FusedInv' /\ PassInv' /\ parent' \in [Nodes' -> Nodes']
    BY <1>0, <2>1, FusedKept, PassBegins
  <2>3. regions' \in Nat /\ regions' = Cardinality({Reach(FastEdges, n) : n \in Named})
    <3>1. Nodes = Named /\ Wanted = FastEdges
      BY <1>0, <2>1, AllRead DEF CountInv, Wanted
    <3>2. Grouped(parent, FastEdges)
      BY <1>0, <2>1, <3>1, PassEnds
    <3>3. /\ IsFiniteSet({Reach(FastEdges, n) : n \in Named})
          /\ Cardinality(Roots) = Cardinality({Reach(FastEdges, n) : n \in Named})
      BY <1>0, <3>1, <3>2, NodesFinite, RootsCount
    <3> QED BY <2>1, <3>3, FS_CardinalityType
  <2>4. Cardinality({Reach(FastEdges, n) : n \in Named})' = Cardinality({Reach(FastEdges, n) : n \in Named})
    BY <2>1, GraphKept
  <2>5. CountInv'
    BY <1>0, <2>1, <2>2, <2>3, <2>4, GraphKept DEF CountInv, IsMedian
  <2> QED BY <2>2, <2>5 DEF MeshInv
<1>5. CASE CountPairs
  <2>1. /\ phase = "pairs" /\ todo = <<>> /\ phase' = "done"
        /\ pairs' = SumFunction([r \in Roots |-> (SizeOf(r) * (SizeOf(r) - 1)) \div 2])
        /\ UNCHANGED <<rows, given, fused, order, todo, parent, medianRtt, regions>>
    BY <1>5 DEF CountPairs
  <2>2. FusedInv' /\ PassInv'
    BY <1>0, <2>1, FusedKept DEF PassInv
  <2>3. pairs' \in Nat /\ pairs' = Cardinality(ConnectedPairs)
    <3>1. Nodes = Named /\ Wanted = Edges
      BY <1>0, <2>1, AllRead DEF CountInv, Wanted
    <3>2. Grouped(parent, Edges)
      BY <1>0, <2>1, <3>1, PassEnds
    <3>3. /\ IsFiniteSet(ConnectedPairs)
          /\ SumFunction([r \in Roots |-> (SizeOf(r) * (SizeOf(r) - 1)) \div 2]) = Cardinality(ConnectedPairs)
      BY <1>0, <3>1, <3>2, NodesFinite, PairsOfRoots DEF ConnectedPairs
    <3> QED BY <2>1, <3>3, FS_CardinalityType
  <2>4. ConnectedPairs' = ConnectedPairs
    BY <2>1, GraphKept DEF ConnectedPairs
  <2>5. parent' \in [Nodes' -> Nodes']
    BY <1>0, <2>1 DEF CountInv, Nodes
  <2>6. CountInv'
    BY <1>0, <2>1, <2>2, <2>3, <2>4, <2>5, GraphKept DEF CountInv, IsMedian
  <2> QED BY <2>2, <2>6 DEF MeshInv
<1>6. CASE UNCHANGED meshVars
  <2>1. UNCHANGED <<rows, given, fused, order, phase, todo, parent, medianRtt, regions, pairs>>
    BY <1>6 DEF meshVars
  <2>2. FusedInv'
    BY <1>0, <2>1, FusedKept
  <2>3. Nodes' = Nodes /\ Wanted' = Wanted
    BY <2>1 DEF Nodes, Wanted, Near
  <2>4. \A D : Grouped(parent, D) => Grouped(parent, D)'
    BY <2>1, GroupedNext
  <2>5. PassInv'
    BY <1>0, <2>1, <2>3, <2>4 DEF PassInv
  <2>6. ConnectedPairs' = ConnectedPairs
    BY <2>1, GraphKept DEF ConnectedPairs
  <2>7. CountInv'
    BY <1>0, <2>1, <2>3, <2>6, GraphKept DEF CountInv, IsMedian
  <2> QED BY <2>2, <2>5, <2>7 DEF MeshInv
<1> QED BY <1>1, <1>2, <1>3, <1>4, <1>5, <1>6 DEF MeshNext

\* The figures of the scoreboard are those of the graph that the rows describe,
\* for any rows, any number of them and any nodes (fuseEdges, meshHealth).
THEOREM CountsAreOfGraphHolds == MeshSpec => []CountsAreOfGraph
<1>1. MeshInv => CountsAreOfGraph
  <2> SUFFICES ASSUME MeshInv PROVE CountsAreOfGraph
    OBVIOUS
  <2>1. FusedInv /\ CountInv
    BY DEF MeshInv
  <2>2. DOMAIN fused \subseteq {{x, y} : x \in AnyId, y \in AnyId}
    BY <2>1, EdgeIs
  <2>3. MeshTypeOK
    BY <2>1, <2>2 DEF CountInv, MeshTypeOK
  <2> QED BY <2>1, <2>3 DEF CountInv, CountsAreOfGraph, ConnectedPairs
<1> QED BY <1>1, MeshInitInv, MeshStep, PTL DEF MeshSpec
=============================================================================
