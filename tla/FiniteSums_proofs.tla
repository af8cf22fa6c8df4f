-------------------------- MODULE FiniteSums_proofs --------------------------
(***************************************************************************)
(* What the other proofs share.  Numbers are walked through by the least   *)
(* one that is missing from a set (NatSet).  A sum over a finite set, as   *)
(* the community modules form it (SumFunctionOnSet), is the value of a     *)
(* recursive function over the subsets; the lemmas say what that value is: *)
(* nothing over the empty set, any member added to the sum of the rest,    *)
(* equal for equal terms, bounded term by term.                            *)
(***************************************************************************)
EXTENDS Integers, FiniteSetsExt, FiniteSetTheorems, NaturalsInduction, WellFoundedInduction, TLAPS

\* Every nonempty set of naturals has a least member, and Min is it.
LEMMA LeastExists ==
  ASSUME NEW S, S \subseteq Nat, S # {}
  PROVE  Min(S) \in S /\ \A n \in S : Min(S) <= n
<1>1. IsWellFoundedOn(OpToRel(<, Nat), Nat)
  BY NatLessThanWellFounded, Zenon
<1>2. \A x, y \in Nat : y < x => <<y, x>> \in OpToRel(<, Nat)
  BY Zenon DEF OpToRel
<1>3. PICK R : IsWellFoundedOn(R, Nat) /\ \A x, y \in Nat : y < x => <<y, x>> \in R
  BY <1>1, <1>2, Zenon
<1>4. \A x, y \in Nat : y < x => <<y, x>> \in R
  BY <1>3, Zenon
<1>5. PICK x \in S : \A y \in S : <<y, x>> \notin R
  BY <1>3, WFMin, Zenon
<1>6. \A y \in S : ~(y < x)
  BY <1>4, <1>5, Zenon
<1>7. \A y \in S : x <= y
  BY <1>6
<1> QED BY <1>7 DEF Min

\* A set with 0 and every successor holds all naturals.
LEMMA NatSet ==
  ASSUME NEW S, 0 \in S, \A n \in Nat : n \in S => n + 1 \in S
  PROVE  Nat \subseteq S
<1> SUFFICES ASSUME Nat \ S # {} PROVE FALSE
  OBVIOUS
<1> DEFINE m == Min(Nat \ S)
<1>1. m \in Nat \ S /\ \A n \in Nat \ S : m <= n
  BY LeastExists
<1> HIDE DEF m
<1>2. m # 0 /\ m - 1 \in Nat /\ m - 1 + 1 = m
  BY <1>1
<1>3. m - 1 \in S
  BY <1>1, <1>2
<1> QED BY <1>1, <1>2, <1>3

-----------------------------------------------------------------------------
\* A member of a set, as a fold picks it.
Member(s) == CHOOSE x \in s : TRUE
\* g adds f up over the subsets of S.
Recurs(g, f, S) ==
  \A s \in SUBSET S : g[s] = IF s = {} THEN 0 ELSE f[Member(s)] + g[s \ {Member(s)}]
Adds(g, f, S) == g \in [SUBSET S -> Int] /\ Recurs(g, f, S)

\* A subset without one of its members.
LEMMA OneLess ==
  ASSUME NEW S, IsFiniteSet(S), NEW s \in SUBSET S, NEW n \in Nat,
         Cardinality(s) = n + 1, NEW x \in s
  PROVE  Cardinality(s \ {x}) = n /\ s \ {x} \in SUBSET S /\ IsFiniteSet(s \ {x})
<1>1. IsFiniteSet(s)
  BY FS_Subset
<1>2. IsFiniteSet(s \ {x}) /\ Cardinality(s \ {x}) = Cardinality(s) - 1
  BY <1>1, FS_RemoveElement
<1>3. Cardinality(s \ {x}) = n
  BY <1>2
<1> QED BY <1>2, <1>3

\* The same, of every subset and every member.
LEMMA OneLessAll ==
  ASSUME NEW S, IsFiniteSet(S)
  PROVE  \A n \in Nat : \A s \in SUBSET S :
           Cardinality(s) = n + 1 => \A x \in s : Cardinality(s \ {x}) = n
<1> SUFFICES ASSUME NEW n \in Nat, NEW s \in SUBSET S, Cardinality(s) = n + 1, NEW x \in s
             PROVE  Cardinality(s \ {x}) = n
  OBVIOUS
<1>1. s \in SUBSET S /\ x \in s /\ n \in Nat
  OBVIOUS
<1> QED BY <1>1, OneLess

\* There is such a function, by induction on the size of the subsets.
LEMMA AddsExist ==
  ASSUME NEW S, IsFiniteSet(S), NEW f, \A x \in S : f[x] \in Int
  PROVE  \E g : Adds(g, f, S)
<1> DEFINE Small(n) == {s \in SUBSET S : Cardinality(s) <= n}
           P(n) == \E g \in [Small(n) -> Int] :
                     \A s \in Small(n) :
                       g[s] = IF s = {} THEN 0 ELSE f[Member(s)] + g[s \ {Member(s)}]
           N == {n \in Nat : P(n)}
<1>0. \A s \in SUBSET S : IsFiniteSet(s) /\ Cardinality(s) \in Nat
  BY FS_Subset, FS_CardinalityType
<1>1. P(0)
  <2>1. Small(0) = {{}}
    BY <1>0, FS_EmptySet
  <2> DEFINE g == [s \in Small(0) |-> 0]
  <2>2. g \in [Small(0) -> Int] /\ \A s \in Small(0) : s = {} /\ g[s] = 0
    BY <2>1
  <2> HIDE DEF g, Small
  <2> QED BY <2>2
<1>2. ASSUME NEW n \in Nat, P(n) PROVE P(n + 1)
  <2>1. PICK g \in [Small(n) -> Int] :
          \A s \in Small(n) : g[s] = IF s = {} THEN 0 ELSE f[Member(s)] + g[s \ {Member(s)}]
    BY <1>2
  <2>2. ASSUME NEW s \in Small(n + 1), s # {}
        PROVE  Member(s) \in S /\ s \ {Member(s)} \in Small(n)
    <3>1. Member(s) \in s
      BY <2>2 DEF Member
    <3>2. IsFiniteSet(s) /\ Cardinality(s) <= n + 1 /\ Cardinality(s) \in Nat
      BY <1>0
    <3>3. Cardinality(s \ {Member(s)}) = Cardinality(s) - 1
      BY <3>1, <3>2, FS_RemoveElement
    <3> QED BY <3>1, <3>2, <3>3
  <2> DEFINE h == [s \in Small(n + 1) |->
                   IF s = {} THEN 0 ELSE f[Member(s)] + g[s \ {Member(s)}]]
  <2>3. h \in [Small(n + 1) -> Int]
    <3> HIDE DEF Small
    <3> QED BY <2>2
  <2>4. Small(n) \subseteq Small(n + 1)
    BY <1>0
  <2>5. \A s \in Small(n) : h[s] = g[s]
    <3> HIDE DEF Small
    <3> QED BY <2>1, <2>4
  <2>6. \A s \in Small(n + 1) : h[s] = IF s = {} THEN 0 ELSE f[Member(s)] + h[s \ {Member(s)}]
    <3> HIDE DEF Small
    <3> QED BY <2>2, <2>5
  <2> HIDE DEF h, Small
  <2> QED BY <2>3, <2>6
<1>3. Nat \subseteq N
  <2>1. \A n \in Nat : n \in N => n + 1 \in N
    <3> SUFFICES ASSUME NEW n \in Nat, n \in N PROVE n + 1 \in N
      OBVIOUS
    <3>1. P(n)
      OBVIOUS
    <3>2. P(n + 1)
      BY <1>2, <3>1
    <3> HIDE DEF P
    <3> QED BY <3>2
  <2>2. 0 \in N
    <3> HIDE DEF P
    <3> QED BY <1>1
  <2> HIDE DEF N
  <2> QED BY <2>1, <2>2, NatSet
<1>4. P(Cardinality(S))
  BY <1>0, <1>3
<1>5. Small(Cardinality(S)) = SUBSET S
  BY <1>0, FS_Subset
<1> HIDE DEF Small
<1> QED BY <1>4, <1>5 DEF Adds, Recurs

\* The order in which the members are picked is immaterial.
LEMMA AddsAny ==
  ASSUME NEW S, IsFiniteSet(S), NEW f, \A x \in S : f[x] \in Int, NEW g, Adds(g, f, S)
  PROVE  \A s \in SUBSET S : \A x \in s : g[s] = f[x] + g[s \ {x}]
<1> DEFINE P(n) == \A s \in SUBSET S : Cardinality(s) = n =>
                     \A x \in s : g[s] = f[x] + g[s \ {x}]
           N == {n \in Nat : P(n)}
<1>0. \A s \in SUBSET S : IsFiniteSet(s) /\ Cardinality(s) \in Nat
  BY FS_Subset, FS_CardinalityType
<1>1. P(0)
  BY <1>0, FS_EmptySet
<1>2. ASSUME NEW n \in Nat, P(n) PROVE P(n + 1)
  <2> SUFFICES ASSUME NEW s \in SUBSET S, Cardinality(s) = n + 1, NEW x \in s
               PROVE  g[s] = f[x] + g[s \ {x}]
    OBVIOUS
  <2> DEFINE y == Member(s)
  <2>1. y \in s
    BY DEF Member
  <2>2. g[s] = f[y] + g[s \ {y}]
    BY DEF Adds, Recurs
  <2> HIDE DEF y
  <2>3. CASE x = y
    BY <2>2, <2>3
  <2>4. CASE x # y
    <3>1. Cardinality(s \ {x}) = n /\ Cardinality(s \ {y}) = n
      BY <2>1, OneLessAll
    <3>2. g[s \ {y}] = f[x] + g[(s \ {y}) \ {x}]
      BY <1>2, <2>4, <3>1
    <3>3. g[s \ {x}] = f[y] + g[(s \ {x}) \ {y}]
      BY <1>2, <2>1, <2>4, <3>1
    <3>4. (s \ {y}) \ {x} = (s \ {x}) \ {y}
      OBVIOUS
    <3>5. f[x] \in Int /\ f[y] \in Int /\ g[(s \ {x}) \ {y}] \in Int
      BY <2>1 DEF Adds, Recurs
    <3> DEFINE rest == (s \ {x}) \ {y}
    <3>6. g[s \ {y}] = f[x] + g[rest] /\ g[s \ {x}] = f[y] + g[rest] /\ g[rest] \in Int
      BY <3>2, <3>3, <3>4, <3>5
    <3> HIDE DEF rest
    <3> QED BY <2>2, <3>5, <3>6
  <2> QED BY <2>3, <2>4
<1>3. Nat \subseteq N
  <2>1. \A n \in Nat : n \in N => n + 1 \in N
    <3> SUFFICES ASSUME NEW n \in Nat, n \in N PROVE n + 1 \in N
      OBVIOUS
    <3>1. P(n)
      OBVIOUS
    <3>2. P(n + 1)
      BY <1>2, <3>1
    <3> HIDE DEF P
    <3> QED BY <3>2
  <2>2. 0 \in N
    <3> HIDE DEF P
    <3> QED BY <1>1
  <2> HIDE DEF N
  <2> QED BY <2>1, <2>2, NatSet
<1>4. \A n \in Nat : P(n)
  <2> HIDE DEF P
  <2> QED BY <1>3
<1> QED BY <1>0, <1>4

\* The recursion has one solution.
LEMMA AddsOnce ==
  ASSUME NEW S, IsFiniteSet(S), NEW f, \A x \in S : f[x] \in Int, NEW g, Adds(g, f, S),
         NEW h, Recurs(h, f, S)
  PROVE  \A s \in SUBSET S : h[s] = g[s]
<1> DEFINE P(n) == \A s \in SUBSET S : Cardinality(s) = n => h[s] = g[s]
           N == {n \in Nat : P(n)}
<1>0. \A s \in SUBSET S : IsFiniteSet(s) /\ Cardinality(s) \in Nat
  BY FS_Subset, FS_CardinalityType
<1>1. P(0)
  <2>1. \A s \in SUBSET S : Cardinality(s) = 0 => s = {}
    BY <1>0, FS_EmptySet
  <2> QED BY <2>1 DEF Adds, Recurs
<1>2. ASSUME NEW n \in Nat, P(n) PROVE P(n + 1)
  <2> SUFFICES ASSUME NEW s \in SUBSET S, Cardinality(s) = n + 1 PROVE h[s] = g[s]
    OBVIOUS
  <2>1. s # {}
    BY FS_EmptySet
  <2>2. Member(s) \in s
    BY <2>1 DEF Member
  <2>3. Cardinality(s \ {Member(s)}) = n
    BY <2>2, OneLessAll
  <2>4. h[s \ {Member(s)}] = g[s \ {Member(s)}]
    BY <1>2, <2>3
  <2>5. g[s] = f[Member(s)] + g[s \ {Member(s)}]
    BY <2>1 DEF Adds, Recurs
  <2>6. h[s] = f[Member(s)] + h[s \ {Member(s)}]
    BY <2>1 DEF Recurs
  <2> QED BY <2>4, <2>5, <2>6
<1>3. Nat \subseteq N
  <2>1. \A n \in Nat : n \in N => n + 1 \in N
    <3> SUFFICES ASSUME NEW n \in Nat, n \in N PROVE n + 1 \in N
      OBVIOUS
    <3>1. P(n)
      OBVIOUS
    <3>2. P(n + 1)
      BY <1>2, <3>1
    <3> HIDE DEF P
    <3> QED BY <3>2
  <2>2. 0 \in N
    <3> HIDE DEF P
    <3> QED BY <1>1
  <2> HIDE DEF N
  <2> QED BY <2>1, <2>2, NatSet
<1>4. \A n \in Nat : P(n)
  <2> HIDE DEF P
  <2> QED BY <1>3
<1> QED BY <1>0, <1>4

\* The sum is the value of that solution.
LEMMA SumIs ==
  ASSUME NEW S, IsFiniteSet(S), NEW f, \A x \in S : f[x] \in Int
  PROVE  \E g : Adds(g, f, S) /\ SumFunctionOnSet(f, S) = g[S]
<1> DEFINE e(g, s) == IF s = {} THEN 0 ELSE f[Member(s)] + g[s \ {Member(s)}]
           Eq(g) == g = [s \in SUBSET S |-> e(g, s)]
<1>1. PICK g0 : Adds(g0, f, S)
  BY AddsExist
<1>2. Eq(g0)
  <2>1. \A s \in SUBSET S : g0[s] = e(g0, s)
    BY <1>1 DEF Adds, Recurs
  <2>2. g0 = [s \in SUBSET S |-> g0[s]]
    BY <1>1 DEF Adds, Recurs
  <2> HIDE DEF e
  <2> QED BY <2>1, <2>2
<1> DEFINE g == CHOOSE h : Eq(h)
<1>3. Eq(g)
  <2> HIDE DEF Eq
  <2> QED BY <1>2, Zenon
<1>4. SumFunctionOnSet(f, S) = g[S]
  BY Zenon DEF SumFunctionOnSet, FoldFunctionOnSet, MapThenFoldSet, Member
<1> HIDE DEF g
<1>5. Recurs(g, f, S)
  <2>1. \A s \in SUBSET S : g[s] = e(g, s)
    <3> HIDE DEF e
    <3> QED BY <1>3, Zenon
  <2> QED BY <2>1 DEF Recurs
<1>6. \A s \in SUBSET S : g[s] = g0[s]
  <2> HIDE DEF Eq
  <2> QED BY <1>1, <1>5, AddsOnce
<1> QED BY <1>1, <1>4, <1>6

\* A sum of integers is one.
LEMMA SumInt ==
  ASSUME NEW S, IsFiniteSet(S), NEW f, \A x \in S : f[x] \in Int
  PROVE  SumFunctionOnSet(f, S) \in Int
<1>1. PICK g : Adds(g, f, S) /\ SumFunctionOnSet(f, S) = g[S]
  BY SumIs
<1> QED BY <1>1 DEF Adds

\* No terms, nothing.
LEMMA SumEmpty == ASSUME NEW f PROVE SumFunctionOnSet(f, {}) = 0
<1>1. PICK g : Adds(g, f, {}) /\ SumFunctionOnSet(f, {}) = g[{}]
  BY FS_EmptySet, SumIs
<1> QED BY <1>1 DEF Adds, Recurs

\* Any term can be taken out.
LEMMA SumSplit ==
  ASSUME NEW S, IsFiniteSet(S), NEW f, \A y \in S : f[y] \in Int, NEW x \in S
  PROVE  SumFunctionOnSet(f, S) = f[x] + SumFunctionOnSet(f, S \ {x})
<1> DEFINE T == S \ {x}
<1>1. PICK g : Adds(g, f, S) /\ SumFunctionOnSet(f, S) = g[S]
  BY SumIs
<1>2. IsFiniteSet(T) /\ T \subseteq S
  BY FS_Subset
<1>3. PICK h : Adds(h, f, T) /\ SumFunctionOnSet(f, T) = h[T]
  <2> HIDE DEF T
  <2> QED BY <1>2, SumIs
<1>4. Recurs(g, f, T)
  BY <1>1, <1>2 DEF Adds, Recurs
<1>5. g[T] = h[T]
  <2> HIDE DEF T
  <2> QED BY <1>2, <1>3, <1>4, AddsOnce
<1>6. g[S] = f[x] + g[T]
  BY <1>1, AddsAny
<1> QED BY <1>1, <1>3, <1>5, <1>6

\* Equal terms, equal sums.
LEMMA SumEq ==
  ASSUME NEW S, IsFiniteSet(S), NEW f, NEW h, \A x \in S : f[x] \in Int /\ f[x] = h[x]
  PROVE  SumFunctionOnSet(f, S) = SumFunctionOnSet(h, S)
<1>1. PICK g : Adds(g, f, S) /\ SumFunctionOnSet(f, S) = g[S]
  BY SumIs
<1>2. PICK e : Adds(e, h, S) /\ SumFunctionOnSet(h, S) = e[S]
  BY SumIs
<1>3. Recurs(e, f, S)
  <2>1. \A s \in SUBSET S : s # {} => Member(s) \in S
    BY DEF Member
  <2> QED BY <1>2, <2>1 DEF Adds, Recurs
<1> QED BY <1>1, <1>2, <1>3, AddsOnce

\* If every term grows by d at most, the sum grows by d for each.
LEMMA SumGrows ==
  ASSUME NEW S, IsFiniteSet(S), NEW f, NEW h, NEW d \in 0 .. 1,
         \A x \in S : f[x] \in Int /\ h[x] \in Int /\ f[x] <= h[x] + d
  PROVE  SumFunctionOnSet(f, S) <= SumFunctionOnSet(h, S) + d * Cardinality(S)
<1> DEFINE P(n) == \A s \in SUBSET S :
                     Cardinality(s) = n => SumFunctionOnSet(f, s) <= SumFunctionOnSet(h, s) + d * n
           N == {n \in Nat : P(n)}
<1>0. \A s \in SUBSET S : IsFiniteSet(s) /\ Cardinality(s) \in Nat
  BY FS_Subset, FS_CardinalityType
<1>1. P(0)
  <2>1. \A s \in SUBSET S : Cardinality(s) = 0 => s = {}
    BY <1>0, FS_EmptySet
  <2>2. SumFunctionOnSet(f, {}) = 0 /\ SumFunctionOnSet(h, {}) = 0
    BY SumEmpty
  <2>3. d * 0 = 0
    OBVIOUS
  <2>4. SumFunctionOnSet(f, {}) <= SumFunctionOnSet(h, {}) + d * 0
    BY <2>2, <2>3
  <2> QED BY <2>1, <2>4
<1>2. ASSUME NEW n \in Nat, P(n) PROVE P(n + 1)
  <2> SUFFICES ASSUME NEW s \in SUBSET S, Cardinality(s) = n + 1
               PROVE  SumFunctionOnSet(f, s) <= SumFunctionOnSet(h, s) + d * (n + 1)
    OBVIOUS
  <2>1. PICK x : x \in s
    BY FS_EmptySet
  <2> DEFINE t == s \ {x}
  <2>2. Cardinality(t) = n /\ t \in SUBSET S /\ IsFiniteSet(t)
    BY <2>1, OneLess
  <2>3. SumFunctionOnSet(f, s) = f[x] + SumFunctionOnSet(f, t) /\ SumFunctionOnSet(h, s) = h[x] + SumFunctionOnSet(h, t)
    BY <1>0, <2>1, SumSplit
  <2> HIDE DEF t
  <2>4. SumFunctionOnSet(f, t) <= SumFunctionOnSet(h, t) + d * n
    BY <1>2, <2>2
  <2>5. SumFunctionOnSet(f, t) \in Int /\ SumFunctionOnSet(h, t) \in Int
    BY <2>2, SumInt
  <2>6. f[x] \in Int /\ h[x] \in Int /\ f[x] <= h[x] + d
    BY <2>1
  <2>7. d * (n + 1) = d * n + d /\ d * n \in Int
    OBVIOUS
  <2> QED BY <2>3, <2>4, <2>5, <2>6, <2>7
<1>3. \A n \in Nat : n \in N => n + 1 \in N
  <2> SUFFICES ASSUME NEW n \in Nat, n \in N PROVE n + 1 \in N
    OBVIOUS
  <2>1. P(n)
    OBVIOUS
  <2>2. P(n + 1)
    BY <1>2, <2>1
  <2> HIDE DEF P
  <2> QED BY <2>2
<1>4. 0 \in N
  <2> HIDE DEF P
  <2> QED BY <1>1
<1>5. \A n \in Nat : P(n)
  <2>1. Nat \subseteq N
    <3> HIDE DEF N
    <3> QED BY <1>3, <1>4, NatSet
  <2> HIDE DEF P
  <2> QED BY <2>1
<1> QED BY <1>0, <1>5

\* Nothing but zeros adds up to zero.
LEMMA SumZero ==
  ASSUME NEW S, IsFiniteSet(S), NEW f, \A x \in S : f[x] = 0
  PROVE  SumFunctionOnSet(f, S) = 0
<1>0. \A x \in S : f[x] \in Int
  OBVIOUS
<1>1. PICK g : Adds(g, f, S) /\ SumFunctionOnSet(f, S) = g[S]
  BY <1>0, SumIs
<1> DEFINE z == [s \in SUBSET S |-> 0]
<1>2. Recurs(z, f, S)
  <2>1. \A s \in SUBSET S : s # {} => Member(s) \in s
    BY DEF Member
  <2>2. ASSUME NEW s \in SUBSET S
        PROVE  z[s] = IF s = {} THEN 0 ELSE f[Member(s)] + z[s \ {Member(s)}]
    BY <2>1
  <2> QED BY <2>2 DEF Recurs
<1>3. S \in SUBSET S /\ z[S] = 0
  OBVIOUS
<1> HIDE DEF z
<1>4. \A s \in SUBSET S : z[s] = g[s]
  BY <1>0, <1>1, <1>2, AddsOnce
<1> QED BY <1>1, <1>3, <1>4

\* The sum changes by what one member changes by.
LEMMA SumChanged ==
  ASSUME NEW S, IsFiniteSet(S), NEW f, NEW h, NEW w \in S,
         \A x \in S : f[x] \in Int /\ h[x] \in Int,
         \A x \in S : x # w => f[x] = h[x]
  PROVE  SumFunctionOnSet(h, S) = SumFunctionOnSet(f, S) - f[w] + h[w]
<1>1. SumFunctionOnSet(f, S) = f[w] + SumFunctionOnSet(f, S \ {w})
  BY SumSplit
<1>2. SumFunctionOnSet(h, S) = h[w] + SumFunctionOnSet(h, S \ {w})
  BY SumSplit
<1>3. IsFiniteSet(S \ {w})
  BY FS_Subset
<1>4. \A x \in S \ {w} : f[x] \in Int /\ f[x] = h[x]
  OBVIOUS
<1>5. SumFunctionOnSet(f, S \ {w}) = SumFunctionOnSet(h, S \ {w})
  BY <1>3, <1>4, SumEq
<1>6. SumFunctionOnSet(h, S \ {w}) \in Int
  BY <1>3, SumInt
<1>7. f[w] \in Int /\ h[w] \in Int
  OBVIOUS
<1> QED BY <1>1, <1>2, <1>5, <1>6, <1>7

-----------------------------------------------------------------------------
\* A family of sets that has the empty set and stays closed when a member of S
\* is added has every subset of S.
LEMMA SubsetsIn ==
  ASSUME NEW S, IsFiniteSet(S), NEW F, {} \in F,
         \A T \in SUBSET S : \A x \in S \ T : T \in F => T \cup {x} \in F
  PROVE  SUBSET S \subseteq F
<1> DEFINE N == {n \in Nat : \A T \in SUBSET S : Cardinality(T) = n => T \in F}
<1>1. \A T \in SUBSET S : IsFiniteSet(T) /\ Cardinality(T) \in Nat
  BY FS_Subset, FS_CardinalityType
<1>2. 0 \in N
  BY <1>1, FS_EmptySet
<1>3. ASSUME NEW n \in Nat, n \in N PROVE n + 1 \in N
  <2> SUFFICES ASSUME NEW T \in SUBSET S, Cardinality(T) = n + 1 PROVE T \in F
    OBVIOUS
  <2>0. T # {} /\ IsFiniteSet(T)
    BY <1>1, FS_EmptySet
  <2>1. PICK x : x \in T
    BY <2>0
  <2>2. T \ {x} \in SUBSET S /\ Cardinality(T \ {x}) = n
    <3>1. Cardinality(T \ {x}) = Cardinality(T) - 1
      BY <2>0, <2>1, FS_RemoveElement
    <3> QED BY <3>1
  <2>3. T \ {x} \in F
    BY <1>3, <2>2
  <2>4. (T \ {x}) \cup {x} = T /\ x \in S \ (T \ {x})
    BY <2>1
  <2> QED BY <2>2, <2>3, <2>4
<1>4. Nat \subseteq N
  <2> HIDE DEF N
  <2> QED BY <1>2, <1>3, NatSet
<1> QED BY <1>1, <1>4

\* Disjoint sets together have as many members as their sizes add up to.
LEMMA DisjointSizes ==
  ASSUME NEW R, IsFiniteSet(R), NEW c, \A r \in R : IsFiniteSet(c[r]),
         \A r, s \in R : r # s => c[r] \cap c[s] = {}
  PROVE  /\ IsFiniteSet(UNION {c[r] : r \in R})
         /\ Cardinality(UNION {c[r] : r \in R}) = SumFunction([r \in R |-> Cardinality(c[r])])
<1> DEFINE f == [r \in R |-> Cardinality(c[r])]
           U(T) == UNION {c[r] : r \in T}
           F == {T \in SUBSET R : IsFiniteSet(U(T)) /\ Cardinality(U(T)) = SumFunctionOnSet(f, T)}
<1>1. \A r \in R : f[r] = Cardinality(c[r]) /\ f[r] \in Nat
  BY FS_CardinalityType
<1>2. DOMAIN f = R
  OBVIOUS
<1> HIDE DEF f
<1>3. {} \in F
  <2>1. U({}) = {}
    OBVIOUS
  <2> QED BY <2>1, FS_EmptySet, SumEmpty
<1>4. ASSUME NEW T \in SUBSET R, NEW x \in R \ T, T \in F PROVE T \cup {x} \in F
  <2>1. IsFiniteSet(U(T)) /\ Cardinality(U(T)) = SumFunctionOnSet(f, T) /\ IsFiniteSet(c[x])
    BY <1>4
  <2>2. U(T \cup {x}) = U(T) \cup c[x] /\ U(T) \cap c[x] = {}
    OBVIOUS
  <2> HIDE DEF U
  <2>3. /\ IsFiniteSet(U(T) \cup c[x])
        /\ Cardinality(U(T) \cup c[x]) = Cardinality(U(T)) + Cardinality(c[x]) - Cardinality({})
    BY <2>1, <2>2, FS_Union
  <2>4. Cardinality(U(T)) \in Nat /\ Cardinality({}) = 0
    BY <2>1, FS_CardinalityType, FS_EmptySet
  <2>5. SumFunctionOnSet(f, T \cup {x}) = f[x] + SumFunctionOnSet(f, T)
    <3>1. IsFiniteSet(T \cup {x}) /\ \A y \in T \cup {x} : f[y] \in Int
      BY <1>1, FS_Subset
    <3>2. (T \cup {x}) \ {x} = T /\ x \in T \cup {x}
      OBVIOUS
    <3> QED BY <3>1, <3>2, SumSplit
  <2>6. Cardinality(c[x]) \in Nat /\ f[x] = Cardinality(c[x])
    BY <1>1
  <2>7. Cardinality(U(T \cup {x})) = SumFunctionOnSet(f, T \cup {x})
    <3>1. Cardinality(U(T \cup {x})) = Cardinality(U(T)) + Cardinality(c[x])
      <4>1. Cardinality(U(T) \cup c[x]) = Cardinality(U(T)) + Cardinality(c[x])
        BY <2>3, <2>4, <2>6
      <4> QED BY <2>2, <4>1, Zenon
    <3>2. SumFunctionOnSet(f, T \cup {x}) = Cardinality(c[x]) + Cardinality(U(T))
      BY <2>1, <2>5, <2>6, Zenon
    <3> QED BY <2>4, <2>6, <3>1, <3>2
  <2>8. IsFiniteSet(U(T \cup {x}))
    BY <2>2, <2>3
  <2> QED BY <2>7, <2>8
<1>5. SUBSET R \subseteq F
  <2> HIDE DEF F
  <2> QED BY <1>3, <1>4, SubsetsIn
<1>6. R \in F
  BY <1>5
<1> QED BY <1>2, <1>6 DEF SumFunction, f
=============================================================================
