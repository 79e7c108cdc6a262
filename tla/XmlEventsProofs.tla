----------------------------- MODULE XmlEventsProofs -----------------------------
(***************************************************************************)
(* Facts about documents and about numbers in order, on which the proofs   *)
(* about the engines rest.                                                 *)
(***************************************************************************)
EXTENDS XmlEvents, SequenceTheorems, FiniteSetTheorems, TLAPS

-------------------------------------------------------------------------------
(* Numbers in order.                                                       *)

Below(S, i) == {j \in S : j < i}

Rank(S, i) == Cardinality(Below(S, i))

(* Of two numbers in S, the lower has fewer below it.                      *)
LEMMA RanksAscend ==
  ASSUME NEW S \in SUBSET Int, IsFiniteSet(S), NEW i \in S, NEW j \in S, i < j
  PROVE  /\ Rank(S, i) \in Nat /\ Rank(S, j) \in Nat
         /\ Rank(S, i) < Rank(S, j)
<1>1. Below(S, j) \in SUBSET S /\ Below(S, i) \in SUBSET Below(S, j)
  <2>1. \A m \in S : m < i => m < j
    OBVIOUS
  <2> QED BY <2>1 DEF Below
<1>2. IsFiniteSet(Below(S, j))
  BY <1>1, FS_Subset
<1>3. /\ IsFiniteSet(Below(S, i))
      /\ Cardinality(Below(S, i)) <= Cardinality(Below(S, j))
      /\ Cardinality(Below(S, j)) = Cardinality(Below(S, i)) => Below(S, j) = Below(S, i)
  BY <1>1, <1>2, FS_Subset
<1>4. i \in Below(S, j) /\ i \notin Below(S, i)
  BY DEF Below
<1>5. Cardinality(Below(S, i)) \in Nat /\ Cardinality(Below(S, j)) \in Nat
  BY <1>2, <1>3, FS_CardinalityType
<1> QED BY <1>3, <1>4, <1>5 DEF Rank

LEMMA RanksDiffer ==
  ASSUME NEW S \in SUBSET Int, IsFiniteSet(S), NEW i \in S, NEW j \in S, Rank(S, i) = Rank(S, j)
  PROVE  i = j
<1>1. ~ (i < j)
  BY RanksAscend
<1>2. ~ (j < i)
  BY RanksAscend
<1> QED BY <1>1, <1>2

LEMMA RankBounded ==
  ASSUME NEW S \in SUBSET Int, IsFiniteSet(S), NEW i \in S
  PROVE  Rank(S, i) \in 0 .. Cardinality(S) - 1
<1>1. Below(S, i) \in SUBSET S /\ i \notin Below(S, i)
  BY DEF Below
<1>2. /\ IsFiniteSet(Below(S, i))
      /\ Cardinality(Below(S, i)) <= Cardinality(S)
      /\ Cardinality(S) = Cardinality(Below(S, i)) => S = Below(S, i)
  BY <1>1, FS_Subset
<1>3. Cardinality(Below(S, i)) \in Nat /\ Cardinality(S) \in Nat
  BY <1>2, FS_CardinalityType
<1> QED BY <1>1, <1>2, <1>3 DEF Rank

(* Every rank below the size of S is that of a number in S.                *)
LEMMA RanksCover ==
  ASSUME NEW S \in SUBSET Int, IsFiniteSet(S), NEW k \in 1 .. Cardinality(S)
  PROVE  \E i \in S : Rank(S, i) = k - 1
<1> DEFINE n == Cardinality(S)
           T == 0 .. n - 1
           f == [i \in S |-> Rank(S, i)]
<1>1. n \in Nat
  BY FS_CardinalityType
<1>2. IsFiniteSet(T) /\ Cardinality(T) = n
  <2>1. 0 \in Int /\ n - 1 \in Int
    BY <1>1
  <2>2. /\ IsFiniteSet(T)
        /\ Cardinality(T) = IF 0 > n - 1 THEN 0 ELSE (n - 1) - 0 + 1
    BY <2>1, FS_Interval
  <2> QED BY <1>1, <2>2
<1>3. f \in [S -> T]
  BY RankBounded
<1>4. \A i, j \in S : f[i] = f[j] => i = j
  BY RanksDiffer
<1>5. f \in Injection(S, T)
  BY <1>3, <1>4 DEF Injection, IsInjective
<1>6. f \in Surjection(S, T)
  BY <1>2, <1>5, FS_Injection
<1>7. \A t \in T : \E i \in S : f[i] = t
  BY <1>6 DEF Surjection
<1> QED BY <1>1, <1>7

(* InOrder lists the elements of S, each once, from the lowest up.         *)
LEMMA InOrderLists ==
  ASSUME NEW S \in SUBSET Int, IsFiniteSet(S)
  PROVE  /\ Cardinality(S) \in Nat
         /\ InOrder(S) \in Seq(S)
         /\ Len(InOrder(S)) = Cardinality(S)
         /\ DOMAIN InOrder(S) = 1 .. Cardinality(S)
         /\ \A k \in 1 .. Cardinality(S) : InOrder(S)[k] \in S /\ Rank(S, InOrder(S)[k]) = k - 1
         /\ \A k, m \in 1 .. Cardinality(S) : k < m => InOrder(S)[k] < InOrder(S)[m]
         /\ \A i \in S : \E k \in 1 .. Cardinality(S) : InOrder(S)[k] = i
<1> DEFINE n == Cardinality(S)
<1>1. n \in Nat
  BY FS_CardinalityType
<1>2. ASSUME NEW k \in 1 .. n
      PROVE  InOrder(S)[k] \in S /\ Rank(S, InOrder(S)[k]) = k - 1
  <2>1. InOrder(S)[k] = CHOOSE i \in S : Rank(S, i) = k - 1
    BY DEF InOrder, Rank, Below
  <2> QED BY <2>1, RanksCover
<1>3. InOrder(S) \in [1 .. n -> S]
  BY <1>2 DEF InOrder
<1>4. InOrder(S) \in Seq(S) /\ Len(InOrder(S)) = n /\ DOMAIN InOrder(S) = 1 .. n
  BY <1>1, <1>3
<1>5. ASSUME NEW k \in 1 .. n, NEW m \in 1 .. n, k < m
      PROVE  InOrder(S)[k] < InOrder(S)[m]
  <2> DEFINE i == InOrder(S)[k]
             j == InOrder(S)[m]
  <2>1. i \in S /\ j \in S /\ Rank(S, i) = k - 1 /\ Rank(S, j) = m - 1
    BY <1>2
  <2> HIDE DEF i, j
  <2>2. ~ (j < i)
    BY <1>1, <1>5, <2>1, RanksAscend
  <2>3. i # j
    BY <1>1, <1>5, <2>1
  <2>4. i < j
    BY <2>1, <2>2, <2>3
  <2> QED BY <2>4 DEF i, j
<1>6. ASSUME NEW i \in S
      PROVE  \E k \in 1 .. n : InOrder(S)[k] = i
  <2>1. Rank(S, i) \in 0 .. n - 1
    BY RankBounded
  <2> DEFINE k == Rank(S, i) + 1
             j == InOrder(S)[k]
  <2>2. k \in 1 .. n
    BY <1>1, <2>1
  <2>3. j \in S /\ Rank(S, j) = Rank(S, i)
    BY <1>2, <2>1, <2>2
  <2> HIDE DEF j
  <2>4. j = i
    BY <2>3, RanksDiffer
  <2> QED BY <2>2, <2>4 DEF j
<1> QED BY <1>1, <1>2, <1>4, <1>5, <1>6

(* A number above all of S comes last.                                     *)
LEMMA InOrderAppend ==
  ASSUME NEW S \in SUBSET Int, IsFiniteSet(S), NEW x \in Int, \A i \in S : i < x,
         NEW T, T = S \cup {x}
  PROVE  /\ IsFiniteSet(T) /\ Cardinality(T) = Cardinality(S) + 1
         /\ InOrder(T) = Append(InOrder(S), x)
<1> DEFINE n == Cardinality(S)
<1>1. /\ T \in SUBSET Int /\ IsFiniteSet(T)
      /\ Cardinality(T) = n + 1 /\ n \in Nat
  <2>1. x \notin S
    OBVIOUS
  <2> QED BY <2>1, FS_AddElement, FS_CardinalityType
<1>2. \A i \in S : Below(T, i) = Below(S, i)
  BY DEF Below
<1>3. Below(T, x) = S
  <2>1. ~ (x < x)
    OBVIOUS
  <2>2. Below(T, x) = {j \in T : j < x}
    BY DEF Below
  <2>3. \A j \in T : j < x <=> j \in S
    BY <2>1
  <2> QED BY <2>2, <2>3
<1>4. InOrder(S) \in Seq(S) /\ Len(InOrder(S)) = n
  BY InOrderLists
<1>5. ASSUME NEW k \in 1 .. n + 1
      PROVE  InOrder(T)[k] = Append(InOrder(S), x)[k]
  <2> DEFINE y == InOrder(T)[k]
  <2>1. y \in T /\ Rank(T, y) = k - 1
    BY <1>1, InOrderLists
  <2> HIDE DEF y
  <2>2. CASE k = n + 1
    <3>1. x \in T /\ Rank(T, x) = k - 1
      BY <1>1, <1>3, <2>2 DEF Rank
    <3>2. y = x
      BY <1>1, <2>1, <3>1, RanksDiffer
    <3> QED BY <1>1, <1>4, <2>2, <3>2 DEF y
  <2>3. CASE k \in 1 .. n
    <3> DEFINE i == InOrder(S)[k]
    <3>1. i \in S /\ Rank(S, i) = k - 1
      BY <2>3, InOrderLists
    <3> HIDE DEF i
    <3>2. i \in T /\ Rank(T, i) = k - 1
      BY <1>2, <3>1 DEF Rank
    <3>3. y = i
      BY <1>1, <2>1, <3>2, RanksDiffer
    <3>4. Append(InOrder(S), x)[k] = InOrder(S)[k]
      BY <1>1, <1>4, <2>3
    <3> QED BY <3>3, <3>4 DEF y, i
  <2>4. k = n + 1 \/ k \in 1 .. n
    BY <1>1
  <2> QED BY <2>2, <2>3, <2>4
<1>6. InOrder(T) \in Seq(T) /\ Len(InOrder(T)) = n + 1
  BY <1>1, InOrderLists
<1>7. Append(InOrder(S), x) \in Seq(T) /\ Len(Append(InOrder(S), x)) = n + 1
  <2>1. InOrder(S) \in Seq(T) /\ x \in T
    BY <1>4
  <2> QED BY <1>4, <2>1
<1> QED BY <1>1, <1>5, <1>6, <1>7, SeqEqual

(* A set of numbers that is not empty has a least one.                     *)
LEMMA LeastNumber ==
  ASSUME NEW S \in SUBSET Nat, S # {}
  PROVE  \E n \in S : \A m \in S : n <= m
<1> DEFINE Upto == {0 .. n : n \in S}
<1>1. Upto \subseteq FiniteSubsetsOf(Nat)
  <2>1. ASSUME NEW n \in S
        PROVE  0 .. n \in FiniteSubsetsOf(Nat)
    <3>1. IsFiniteSet(0 .. n)
      BY FS_Interval
    <3> QED BY <3>1 DEF FiniteSubsetsOf
  <2> QED BY <2>1
<1>2. Upto # {}
  OBVIOUS
<1>3. PICK u \in Upto : \A v \in Upto : <<v, u>> \notin StrictSubsetOrdering(Nat)
  BY <1>1, <1>2, FS_StrictSubsetOrderingWellFounded, WFMin
<1>4. PICK n \in S : u = 0 .. n
  BY <1>3
<1>5. ASSUME NEW m \in S, m < n
      PROVE  FALSE
  <2>1. 0 .. m \in Upto
    OBVIOUS
  <2>2. 0 .. m \subseteq 0 .. n /\ 0 .. m \in SUBSET Nat /\ 0 .. n \in SUBSET Nat
    BY <1>5
  <2>3. n \in 0 .. n /\ n \notin 0 .. m
    BY <1>5
  <2>4. <<0 .. m, 0 .. n>> \in StrictSubsetOrdering(Nat)
    BY <2>2, <2>3 DEF StrictSubsetOrdering
  <2> QED BY <1>3, <1>4, <2>1, <2>4
<1> QED BY <1>5

-------------------------------------------------------------------------------
(* Levels.                                                                 *)

Change(e) == IF e.kind = "start" THEN 1 ELSE IF e.kind = "end" THEN -1 ELSE 0

LEMMA CountStep ==
  ASSUME NEW d, NEW k, NEW i \in Nat \ {0}
  PROVE  /\ CountOf(d, i, k) \in Nat /\ CountOf(d, i - 1, k) \in Nat
         /\ CountOf(d, i, k) = CountOf(d, i - 1, k) + (IF d[i].kind = k THEN 1 ELSE 0)
<1> DEFINE C(n) == {j \in 1 .. n : d[j].kind = k}
<1>1. C(i - 1) \in SUBSET (1 .. i - 1) /\ IsFiniteSet(1 .. i - 1)
  BY FS_Interval
<1>2. IsFiniteSet(C(i - 1))
  BY <1>1, FS_Subset
<1>3. Cardinality(C(i - 1)) \in Nat
  BY <1>2, FS_CardinalityType
<1>4. 1 .. i = (1 .. i - 1) \cup {i} /\ i \notin 1 .. i - 1
  OBVIOUS
<1>5. C(i) = IF d[i].kind = k THEN C(i - 1) \cup {i} ELSE C(i - 1)
  BY <1>4
<1>6. i \notin C(i - 1)
  BY <1>4
<1> HIDE DEF C
<1>7. Cardinality(C(i - 1) \cup {i}) = Cardinality(C(i - 1)) + 1
  BY <1>2, <1>6, FS_AddElement
<1>8. CountOf(d, i, k) = Cardinality(C(i)) /\ CountOf(d, i - 1, k) = Cardinality(C(i - 1))
  BY DEF CountOf, C
<1> QED BY <1>3, <1>5, <1>7, <1>8

LEMMA LevelStep ==
  ASSUME NEW d, NEW i \in Nat \ {0}
  PROVE  /\ Level(d, i) \in Int /\ Level(d, i - 1) \in Int
         /\ Level(d, i) = Level(d, i - 1) + Change(d[i])
BY CountStep DEF Level, Change

LEMMA LevelType ==
  ASSUME NEW d, NEW i \in Nat
  PROVE  Level(d, i) \in Int
<1>1. Level(d, (i + 1) - 1) \in Int
  BY LevelStep
<1>2. (i + 1) - 1 = i
  OBVIOUS
<1> QED BY <1>1, <1>2

-------------------------------------------------------------------------------
(* The elements that are open after event n, and those that are complete.  *)

OpenAt(d, n, s) == d[s].kind = "start" /\ \A k \in s .. n : Level(d, k) >= Level(d, s)

LEMMA SubtreeMembers ==
  ASSUME NEW d \in Seq(Event), NEW s \in 1 .. Len(d), NEW i \in 1 .. Len(d)
  PROVE  i \in Subtree(d, s) <=> i = s \/ (s < i /\ OpenAt(d, i - 1, s))
<1>1. CASE d[s].kind # "start"
  BY <1>1 DEF Subtree, OpenAt
<1>2. CASE d[s].kind = "start"
  <2>1. i \in Subtree(d, s) <=> i \in s .. Len(d) /\ \A k \in s .. i - 1 : Level(d, k) >= Level(d, s)
    BY <1>2 DEF Subtree
  <2>2. i = s => \A k \in s .. i - 1 : Level(d, k) >= Level(d, s)
    OBVIOUS
  <2> QED BY <1>2, <2>1, <2>2 DEF OpenAt
<1> QED BY <1>1, <1>2

LEMMA SubtreeBounds ==
  ASSUME NEW d \in Seq(Event), NEW s \in 1 .. Len(d)
  PROVE  Subtree(d, s) \subseteq s .. Len(d)
BY DEF Subtree

(* An element is complete when it is no longer open.                       *)
LEMMA CompleteMeansClosed ==
  ASSUME NEW d \in Seq(Event), NEW s \in 1 .. Len(d)
  PROVE  IsComplete(d, s) <=> ~ OpenAt(d, Len(d), s)
<1>1. CASE d[s].kind # "start"
  BY <1>1 DEF IsComplete, OpenAt
<1>2. CASE d[s].kind = "start"
  <2> DEFINE n == Len(d)
             K == {k \in s .. n : ~ (Level(d, k) >= Level(d, s))}
  <2>1. n \in Nat /\ \A k \in s .. n : Level(d, k) \in Int
    BY LevelType
  <2>2. ASSUME IsComplete(d, s)
        PROVE  ~ OpenAt(d, n, s)
    <3>1. PICK i \in Subtree(d, s) : Level(d, i) < Level(d, s)
      BY <1>2, <2>2 DEF IsComplete
    <3>2. i \in s .. n
      BY <3>1, SubtreeBounds
    <3>3. Level(d, i) \in Int /\ Level(d, s) \in Int
      BY <2>1, <3>2, LevelType
    <3> QED BY <3>1, <3>2, <3>3 DEF OpenAt
  <2>3. ASSUME ~ OpenAt(d, n, s)
        PROVE  IsComplete(d, s)
    <3>1. K # {} /\ K \in SUBSET Nat
      BY <1>2, <2>3 DEF OpenAt
    <3>2. PICK k \in K : \A m \in K : k <= m
      BY <3>1, LeastNumber
    <3>3. k \in s .. n /\ ~ (Level(d, k) >= Level(d, s))
      BY <3>2
    <3>4. \A m \in s .. k - 1 : Level(d, m) >= Level(d, s)
      <4> SUFFICES ASSUME NEW m \in s .. k - 1 PROVE Level(d, m) >= Level(d, s)
        OBVIOUS
      <4>1. m \in s .. n /\ ~ (k <= m)
        BY <3>3
      <4> QED BY <3>2, <4>1
    <3>5. k \in Subtree(d, s)
      BY <1>2, <3>3, <3>4 DEF Subtree
    <3>6. Level(d, k) < Level(d, s)
      BY <3>3, LevelType
    <3> QED BY <1>2, <3>5, <3>6 DEF IsComplete
  <2> QED BY <2>2, <2>3
<1> QED BY <1>1, <1>2

-------------------------------------------------------------------------------
(* What one more event changes.                                            *)

Extends(D, d, e) == D = Append(d, e)

Selects(H, e) == e.kind \in {"start", "empty"} /\ e.by \cap H # {}

LEMMA LevelsAppended ==
  ASSUME NEW d \in Seq(Event), NEW e \in Event, NEW D, Extends(D, d, e)
  PROVE  /\ D \in Seq(Event) /\ Len(D) = Len(d) + 1 /\ Len(d) \in Nat
         /\ \A i \in 1 .. Len(d) : D[i] = d[i]
         /\ D[Len(d) + 1] = e
         /\ \A i \in 0 .. Len(d) : Level(D, i) = Level(d, i)
         /\ Level(D, Len(d) + 1) = Level(d, Len(d)) + Change(e)
<1>1. D \in Seq(Event) /\ Len(D) = Len(d) + 1 /\ Len(d) \in Nat
  BY AppendProperties DEF Extends
<1>2. (\A i \in 1 .. Len(d) : D[i] = d[i]) /\ D[Len(d) + 1] = e
  BY AppendProperties DEF Extends
<1>3. ASSUME NEW i \in 0 .. Len(d)
      PROVE  Level(D, i) = Level(d, i)
  <2>1. ASSUME NEW k
        PROVE  CountOf(D, i, k) = CountOf(d, i, k)
    <3>1. \A j \in 1 .. i : D[j] = d[j]
      BY <1>1, <1>2
    <3> QED BY <3>1 DEF CountOf
  <2> QED BY <2>1 DEF Level
<1>4. Level(D, Len(d) + 1) = Level(D, Len(d)) + Change(e)
  <2>1. Len(d) + 1 \in Nat \ {0} /\ (Len(d) + 1) - 1 = Len(d)
    BY <1>1
  <2> QED BY <1>2, <2>1, LevelStep
<1>5. Len(d) \in 0 .. Len(d)
  BY <1>1
<1> QED BY <1>1, <1>2, <1>3, <1>4, <1>5

LEMMA OpenAppended ==
  ASSUME NEW d \in Seq(Event), NEW e \in Event, NEW D, Extends(D, d, e), NEW s \in 1 .. Len(d)
  PROVE  /\ \A n \in 0 .. Len(d) : OpenAt(D, n, s) <=> OpenAt(d, n, s)
         /\ OpenAt(D, Len(D), s) <=>
              OpenAt(d, Len(d), s) /\ Level(d, Len(d)) + Change(e) >= Level(d, s)
<1>1. /\ D \in Seq(Event) /\ Len(D) = Len(d) + 1 /\ Len(d) \in Nat
      /\ D[s] = d[s] /\ Level(D, s) = Level(d, s)
      /\ \A i \in 0 .. Len(d) : Level(D, i) = Level(d, i)
      /\ Level(D, Len(d) + 1) = Level(d, Len(d)) + Change(e)
  BY LevelsAppended
<1>2. ASSUME NEW n \in 0 .. Len(d)
      PROVE  OpenAt(D, n, s) <=> OpenAt(d, n, s)
  <2>1. \A k \in s .. n : Level(D, k) = Level(d, k)
    BY <1>1
  <2> QED BY <1>1, <2>1 DEF OpenAt
<1>3. OpenAt(D, Len(D), s) <=> OpenAt(D, Len(d), s) /\ Level(D, Len(D)) >= Level(D, s)
  <2>1. s .. Len(D) = (s .. Len(d)) \cup {Len(D)}
    BY <1>1
  <2> QED BY <2>1 DEF OpenAt
<1>4. OpenAt(D, Len(d), s) <=> OpenAt(d, Len(d), s)
  BY <1>1, <1>2
<1> QED BY <1>1, <1>2, <1>3, <1>4

LEMMA SubtreesAppended ==
  ASSUME NEW d \in Seq(Event), NEW e \in Event, NEW D, Extends(D, d, e)
  PROVE  /\ \A s, i \in 1 .. Len(d) : i \in Subtree(D, s) <=> i \in Subtree(d, s)
         /\ \A s \in 1 .. Len(d) : Len(D) \in Subtree(D, s) <=> OpenAt(d, Len(d), s)
         /\ Subtree(D, Len(D)) = {Len(D)}
<1>1. /\ D \in Seq(Event) /\ Len(D) = Len(d) + 1 /\ Len(d) \in Nat
  BY LevelsAppended
<1>2. ASSUME NEW s \in 1 .. Len(d), NEW i \in 1 .. Len(d)
      PROVE  i \in Subtree(D, s) <=> i \in Subtree(d, s)
  <2>1. i \in Subtree(D, s) <=> i = s \/ (s < i /\ OpenAt(D, i - 1, s))
    BY <1>1, SubtreeMembers
  <2>2. i \in Subtree(d, s) <=> i = s \/ (s < i /\ OpenAt(d, i - 1, s))
    BY SubtreeMembers
  <2>3. OpenAt(D, i - 1, s) <=> OpenAt(d, i - 1, s)
    BY <1>1, OpenAppended
  <2> QED BY <2>1, <2>2, <2>3
<1>3. ASSUME NEW s \in 1 .. Len(d)
      PROVE  Len(D) \in Subtree(D, s) <=> OpenAt(d, Len(d), s)
  <2>1. Len(D) \in Subtree(D, s) <=> Len(D) = s \/ (s < Len(D) /\ OpenAt(D, Len(D) - 1, s))
    BY <1>1, SubtreeMembers
  <2>2. OpenAt(D, Len(d), s) <=> OpenAt(d, Len(d), s)
    BY <1>1, OpenAppended
  <2> QED BY <1>1, <2>1, <2>2
<1>4. Subtree(D, Len(D)) = {Len(D)}
  <2>1. Subtree(D, Len(D)) \subseteq Len(D) .. Len(D)
    BY <1>1, SubtreeBounds
  <2>2. Len(D) \in Subtree(D, Len(D))
    BY <1>1, SubtreeMembers
  <2>3. Len(D) .. Len(D) = {Len(D)}
    BY <1>1
  <2> QED BY <2>1, <2>2, <2>3
<1> QED BY <1>2, <1>3, <1>4

(* No selected element is open after the last event.                       *)
Away(d, H) == \A s \in SelectedBy(d, H) : ~ OpenAt(d, Len(d), s)

(* The outermost selected element m is open after the last event.          *)
Within(d, H, m) == m \in Outermost(d, H) /\ OpenAt(d, Len(d), m)

Due(d, H) == {s \in Outermost(d, H) : IsComplete(d, s)}

LEMMA SelectionBounds ==
  ASSUME NEW d \in Seq(Event), NEW H
  PROVE  /\ SelectedBy(d, H) \subseteq 1 .. Len(d)
         /\ Outermost(d, H) \subseteq SelectedBy(d, H)
         /\ Due(d, H) \subseteq Outermost(d, H)
         /\ IsFiniteSet(SelectedBy(d, H)) /\ IsFiniteSet(Due(d, H))
<1>1. SelectedBy(d, H) \subseteq 1 .. Len(d) /\ Outermost(d, H) \subseteq SelectedBy(d, H) /\ Due(d, H) \subseteq Outermost(d, H)
  BY DEF SelectedBy, Outermost, Due
<1>2. IsFiniteSet(1 .. Len(d))
  BY FS_Interval
<1> QED BY <1>1, <1>2, FS_Subset

LEMMA SelectionAppended ==
  ASSUME NEW d \in Seq(Event), NEW e \in Event, NEW D, Extends(D, d, e), NEW H
  PROVE  /\ SelectedBy(D, H) = SelectedBy(d, H) \cup (IF Selects(H, e) THEN {Len(D)} ELSE {})
         /\ \A s \in 1 .. Len(d) : s \in Outermost(D, H) <=> s \in Outermost(d, H)
         /\ Len(D) \in Outermost(D, H) <=> Selects(H, e) /\ Away(d, H)
<1>1. /\ D \in Seq(Event) /\ Len(D) = Len(d) + 1 /\ Len(d) \in Nat
      /\ \A i \in 1 .. Len(d) : D[i] = d[i]
      /\ D[Len(D)] = e
  BY LevelsAppended
<1>2. SelectedBy(D, H) = SelectedBy(d, H) \cup (IF Selects(H, e) THEN {Len(D)} ELSE {})
  <2>1. 1 .. Len(D) = (1 .. Len(d)) \cup {Len(D)}
    BY <1>1
  <2> QED BY <1>1, <2>1 DEF SelectedBy, IsElement, Selects
<1>3. SelectedBy(d, H) \subseteq 1 .. Len(d) /\ Len(D) \notin 1 .. Len(d)
  BY <1>1 DEF SelectedBy
<1>4. ASSUME NEW s \in 1 .. Len(d)
      PROVE  s \in Outermost(D, H) <=> s \in Outermost(d, H)
  <2>1. \A t \in SelectedBy(d, H) : s \in Subtree(D, t) <=> s \in Subtree(d, t)
    BY <1>3, SubtreesAppended
  <2>2. s \notin Subtree(D, Len(D))
    BY <1>3, SubtreesAppended
  <2>3. s \in SelectedBy(D, H) <=> s \in SelectedBy(d, H)
    BY <1>2, <1>3
  <2> QED BY <1>2, <2>1, <2>2, <2>3 DEF Outermost
<1>5. Len(D) \in Outermost(D, H) <=> Selects(H, e) /\ Away(d, H)
  <2>1. Len(D) \in SelectedBy(D, H) <=> Selects(H, e)
    BY <1>2, <1>3
  <2>2. \A t \in SelectedBy(d, H) : Len(D) \in Subtree(D, t) <=> OpenAt(d, Len(d), t)
    BY <1>3, SubtreesAppended
  <2>3. SelectedBy(D, H) \ {Len(D)} = SelectedBy(d, H)
    BY <1>2, <1>3
  <2> QED BY <2>1, <2>2, <2>3 DEF Outermost, Away
<1> QED BY <1>2, <1>4, <1>5

(* A selected element that is open when m is, is m or further in.          *)
LEMMA OthersAreDeeper ==
  ASSUME NEW d \in Seq(Event), NEW H, NEW m, Within(d, H, m),
         NEW t \in SelectedBy(d, H), OpenAt(d, Len(d), t)
  PROVE  t = m \/ (m < t /\ Level(d, t) > Level(d, m))
<1>1. m \in 1 .. Len(d) /\ t \in 1 .. Len(d) /\ m \in SelectedBy(d, H) /\ Len(d) \in Nat
  BY SelectionBounds DEF Within
<1>2. CASE t < m
  <2>1. OpenAt(d, m - 1, t)
    BY <1>1 DEF OpenAt
  <2>2. m \in Subtree(d, t)
    BY <1>1, <1>2, <2>1, SubtreeMembers
  <2> QED BY <1>1, <1>2, <2>2 DEF Within, Outermost
<1>3. CASE m < t
  <2>1. Level(d, t - 1) >= Level(d, m)
    BY <1>1, <1>3 DEF Within, OpenAt
  <2>2. Level(d, t) = Level(d, t - 1) + 1
    BY <1>1, LevelStep DEF OpenAt, Change
  <2>3. Level(d, t - 1) \in Int /\ Level(d, m) \in Int /\ Level(d, t) \in Int
    BY <1>1, LevelType
  <2> QED BY <1>3, <2>1, <2>2, <2>3
<1> QED BY <1>1, <1>2, <1>3

(* When a selected element is open, the outermost one around it is.        *)
LEMMA AwayOrWithin ==
  ASSUME NEW d \in Seq(Event), NEW H, ~ Away(d, H)
  PROVE  \E m : Within(d, H, m)
<1> DEFINE S == {s \in SelectedBy(d, H) : OpenAt(d, Len(d), s)}
<1>1. S # {} /\ S \in SUBSET Nat /\ Len(d) \in Nat
  BY SelectionBounds DEF Away
<1>2. PICK m \in S : \A s \in S : m <= s
  BY <1>1, LeastNumber
<1>3. m \in 1 .. Len(d) /\ m \in SelectedBy(d, H) /\ OpenAt(d, Len(d), m)
  BY <1>2, SelectionBounds
<1>4. ASSUME NEW t \in SelectedBy(d, H), t # m, m \in Subtree(d, t)
      PROVE  FALSE
  <2>1. t \in 1 .. Len(d)
    BY SelectionBounds
  <2>2. t < m /\ OpenAt(d, m - 1, t)
    BY <1>3, <1>4, <2>1, SubtreeMembers
  <2>3. /\ Level(d, m - 1) >= Level(d, t)
        /\ Level(d, m) = Level(d, m - 1) + 1
        /\ Level(d, t) \in Int /\ Level(d, m) \in Int /\ Level(d, m - 1) \in Int
    <3>1. m - 1 \in t .. m - 1
      BY <1>3, <2>1, <2>2
    <3>2. Level(d, m) = Level(d, m - 1) + 1
      BY <1>3, LevelStep DEF OpenAt, Change
    <3> QED BY <1>3, <2>1, <2>2, <3>1, <3>2, LevelType, LevelStep DEF OpenAt
  <2>4. \A k \in t .. Len(d) : Level(d, k) >= Level(d, t)
    <3> SUFFICES ASSUME NEW k \in t .. Len(d) PROVE Level(d, k) >= Level(d, t)
      OBVIOUS
    <3>1. CASE k \in t .. m - 1
      BY <2>2, <3>1 DEF OpenAt
    <3>2. CASE k \in m .. Len(d)
      <4>1. Level(d, k) >= Level(d, m)
        BY <1>3, <3>2 DEF OpenAt
      <4>2. Level(d, k) \in Int
        BY <1>3, <3>2, LevelType
      <4> QED BY <2>3, <4>1, <4>2
    <3> QED BY <1>3, <2>1, <3>1, <3>2
  <2>5. t \in S
    BY <2>2, <2>4 DEF OpenAt
  <2> QED BY <1>2, <1>3, <2>1, <2>2, <2>5
<1>5. m \in Outermost(d, H)
  BY <1>3, <1>4 DEF Outermost
<1> QED BY <1>3, <1>5 DEF Within

-------------------------------------------------------------------------------
(* Where the reader is after one more event: outside every selected        *)
(* element (Away), or in the outermost one, m.                             *)

LEMMA StaysAway ==
  ASSUME NEW d \in Seq(Event), NEW e \in Event, NEW D, Extends(D, d, e), NEW H,
         Away(d, H), ~ (e.kind = "start" /\ Selects(H, e))
  PROVE  Away(D, H)
<1>1. /\ D \in Seq(Event) /\ Len(D) = Len(d) + 1 /\ Len(d) \in Nat /\ D[Len(D)] = e
  BY LevelsAppended
<1>2. ASSUME NEW s \in SelectedBy(D, H)
      PROVE  ~ OpenAt(D, Len(D), s)
  <2>1. CASE s \in SelectedBy(d, H)
    BY <2>1, SelectionBounds, OpenAppended DEF Away
  <2>2. CASE Selects(H, e) /\ s = Len(D)
    BY <1>1, <2>2 DEF OpenAt
  <2> QED BY <2>1, <2>2, SelectionAppended
<1> QED BY <1>2 DEF Away

LEMMA EntersMatch ==
  ASSUME NEW d \in Seq(Event), NEW e \in Event, NEW D, Extends(D, d, e), NEW H,
         Away(d, H), e.kind = "start", Selects(H, e)
  PROVE  Within(D, H, Len(D))
<1>1. /\ D \in Seq(Event) /\ Len(D) = Len(d) + 1 /\ Len(d) \in Nat /\ D[Len(D)] = e
  BY LevelsAppended
<1>2. Len(D) \in Outermost(D, H)
  BY SelectionAppended
<1>3. OpenAt(D, Len(D), Len(D))
  <2>1. Level(D, Len(D)) \in Int
    BY <1>1, LevelType
  <2>2. \A k \in Len(D) .. Len(D) : k = Len(D)
    BY <1>1
  <2> QED BY <1>1, <2>1, <2>2 DEF OpenAt
<1> QED BY <1>2, <1>3 DEF Within

LEMMA StaysWithin ==
  ASSUME NEW d \in Seq(Event), NEW e \in Event, NEW D, Extends(D, d, e), NEW H,
         NEW m, Within(d, H, m), Level(d, Len(d)) + Change(e) >= Level(d, m)
  PROVE  Within(D, H, m)
<1>1. m \in 1 .. Len(d)
  BY SelectionBounds DEF Within
<1>2. OpenAt(D, Len(D), m)
  BY <1>1, OpenAppended DEF Within
<1>3. m \in Outermost(D, H)
  BY <1>1, SelectionAppended DEF Within
<1> QED BY <1>2, <1>3 DEF Within

LEMMA LeavesMatch ==
  ASSUME NEW d \in Seq(Event), NEW e \in Event, NEW D, Extends(D, d, e), NEW H,
         NEW m, Within(d, H, m), Level(d, Len(d)) + Change(e) < Level(d, m)
  PROVE  /\ e.kind = "end"
         /\ Away(D, H)
         /\ ~ OpenAt(D, Len(D), m)
<1>1. /\ D \in Seq(Event) /\ Len(D) = Len(d) + 1 /\ Len(d) \in Nat /\ D[Len(D)] = e
  BY LevelsAppended
<1>2. m \in 1 .. Len(d) /\ m \in SelectedBy(d, H)
  BY SelectionBounds DEF Within
<1>3. Level(d, Len(d)) \in Int /\ Level(d, m) \in Int
  BY <1>1, <1>2, LevelType
<1>4. Level(d, Len(d)) >= Level(d, m)
  BY <1>1, <1>2 DEF Within, OpenAt
<1>5. e.kind = "end"
  BY <1>3, <1>4 DEF Change
<1>6. ASSUME NEW s \in SelectedBy(d, H)
      PROVE  ~ OpenAt(D, Len(D), s)
  <2>1. s \in 1 .. Len(d)
    BY SelectionBounds
  <2> SUFFICES ASSUME OpenAt(D, Len(D), s) PROVE FALSE
    OBVIOUS
  <2>2. OpenAt(d, Len(d), s) /\ Level(d, Len(d)) + Change(e) >= Level(d, s)
    BY <2>1, OpenAppended
  <2>3. s = m \/ Level(d, s) > Level(d, m)
    BY <2>2, OthersAreDeeper
  <2>4. Level(d, s) \in Int /\ Change(e) \in Int
    BY <2>1, LevelType DEF Change
  <2> QED BY <1>3, <2>2, <2>3, <2>4
<1>7. SelectedBy(D, H) = SelectedBy(d, H)
  <2>1. ~ Selects(H, e)
    BY <1>5 DEF Selects
  <2>2. SelectedBy(D, H) = SelectedBy(d, H) \cup {}
    BY <2>1, SelectionAppended
  <2> QED BY <2>2
<1> QED BY <1>2, <1>5, <1>6, <1>7 DEF Away

-------------------------------------------------------------------------------
(* The elements that are due, and their events.                            *)

LEMMA DueAppended ==
  ASSUME NEW d \in Seq(Event), NEW e \in Event, NEW D, Extends(D, d, e), NEW H
  PROVE  /\ \A s \in 1 .. Len(d) :
              s \in Due(D, H) <=> s \in Outermost(d, H) /\ ~ OpenAt(D, Len(D), s)
         /\ Due(d, H) \subseteq Due(D, H)
         /\ \A s \in Due(d, H) : s \in 1 .. Len(d) /\ Subtree(D, s) = Subtree(d, s)
         /\ Due(D, H) \subseteq 1 .. Len(D)
<1>1. /\ D \in Seq(Event) /\ Len(D) = Len(d) + 1 /\ Len(d) \in Nat
  BY LevelsAppended
<1>2. ASSUME NEW s \in 1 .. Len(d)
      PROVE  /\ s \in Due(D, H) <=> s \in Outermost(d, H) /\ ~ OpenAt(D, Len(D), s)
             /\ s \in Due(d, H) <=> s \in Outermost(d, H) /\ ~ OpenAt(d, Len(d), s)
  <2>1. IsComplete(D, s) <=> ~ OpenAt(D, Len(D), s)
    BY <1>1, CompleteMeansClosed
  <2>2. IsComplete(d, s) <=> ~ OpenAt(d, Len(d), s)
    BY CompleteMeansClosed
  <2>3. s \in Outermost(D, H) <=> s \in Outermost(d, H)
    BY SelectionAppended
  <2> QED BY <2>1, <2>2, <2>3 DEF Due
<1>3. ASSUME NEW s \in Due(d, H)
      PROVE  s \in 1 .. Len(d) /\ s \in Due(D, H) /\ Subtree(D, s) = Subtree(d, s)
  <2>1. s \in 1 .. Len(d)
    BY SelectionBounds
  <2>2. ~ OpenAt(d, Len(d), s)
    BY <1>2, <2>1
  <2>3. s \in Due(D, H)
    BY <1>2, <2>1, <2>2, OpenAppended
  <2>4. Len(D) \notin Subtree(D, s)
    BY <2>1, <2>2, SubtreesAppended
  <2>5. Subtree(D, s) \subseteq 1 .. Len(D) /\ Subtree(d, s) \subseteq 1 .. Len(d)
    BY <1>1, <2>1, SubtreeBounds
  <2>6. \A i \in 1 .. Len(d) : i \in Subtree(D, s) <=> i \in Subtree(d, s)
    BY <2>1, SubtreesAppended
  <2>7. \A i \in 1 .. Len(D) : i \in 1 .. Len(d) \/ i = Len(D)
    BY <1>1
  <2>8. \A i : i \in Subtree(D, s) <=> i \in Subtree(d, s)
    BY <2>4, <2>5, <2>6, <2>7, <1>1
  <2> QED BY <2>1, <2>3, <2>8
<1>4. Due(D, H) \subseteq 1 .. Len(D)
  BY <1>1, SelectionBounds
<1> QED BY <1>2, <1>3, <1>4

(* Nothing becomes due at an event outside the matches, but an empty       *)
(* element that is selected.                                               *)
LEMMA DueWhenAway ==
  ASSUME NEW d \in Seq(Event), NEW e \in Event, NEW D, Extends(D, d, e), NEW H, Away(d, H)
  PROVE  Due(D, H) = IF e.kind = "empty" /\ Selects(H, e) THEN Due(d, H) \cup {Len(D)} ELSE Due(d, H)
<1>1. /\ D \in Seq(Event) /\ Len(D) = Len(d) + 1 /\ Len(d) \in Nat /\ D[Len(D)] = e
  BY LevelsAppended
<1>2. ASSUME NEW s \in 1 .. Len(d)
      PROVE  s \in Due(D, H) <=> s \in Due(d, H)
  <2>1. s \in Outermost(d, H) => ~ OpenAt(d, Len(d), s)
    BY SelectionBounds DEF Away
  <2>2. s \in Outermost(d, H) => s \in Due(d, H)
    BY <2>1, CompleteMeansClosed DEF Due
  <2>3. s \in Due(D, H) => s \in Outermost(d, H)
    BY DueAppended
  <2> QED BY <2>2, <2>3, DueAppended
<1>3. Len(D) \in Due(D, H) <=> e.kind = "empty" /\ Selects(H, e)
  <2>1. Len(D) \in Outermost(D, H) <=> Selects(H, e)
    BY SelectionAppended
  <2>2. IsComplete(D, Len(D)) <=> ~ OpenAt(D, Len(D), Len(D))
    BY <1>1, CompleteMeansClosed
  <2>3. OpenAt(D, Len(D), Len(D)) <=> e.kind = "start"
    <3>1. Level(D, Len(D)) \in Int /\ \A k \in Len(D) .. Len(D) : k = Len(D)
      BY <1>1, LevelType
    <3> QED BY <1>1, <3>1 DEF OpenAt
  <2> QED BY <2>1, <2>2, <2>3 DEF Due, Selects
<1>4. Due(D, H) \subseteq 1 .. Len(D) /\ Due(d, H) \subseteq 1 .. Len(d)
  BY <1>1, DueAppended
<1>5. \A i \in 1 .. Len(D) : i \in 1 .. Len(d) \/ i = Len(D)
  BY <1>1
<1> DEFINE new == IF e.kind = "empty" /\ Selects(H, e) THEN {Len(D)} ELSE {}
<1>6. \A i : i \in Due(D, H) <=> i \in Due(d, H) \cup new
  BY <1>1, <1>2, <1>3, <1>4, <1>5
<1> QED BY <1>6

(* In a match only the matched element becomes due, at its end tag, and it *)
(* comes after all that were.                                              *)
LEMMA DueWithin ==
  ASSUME NEW d \in Seq(Event), NEW e \in Event, NEW D, Extends(D, d, e), NEW H, NEW m, Within(d, H, m)
  PROVE  /\ Due(D, H) = IF Level(d, Len(d)) + Change(e) < Level(d, m) THEN Due(d, H) \cup {m} ELSE Due(d, H)
         /\ \A s \in Due(d, H) : s < m
<1>1. /\ D \in Seq(Event) /\ Len(D) = Len(d) + 1 /\ Len(d) \in Nat /\ D[Len(D)] = e
  BY LevelsAppended
<1>2. m \in 1 .. Len(d) /\ m \in SelectedBy(d, H) /\ m \in Outermost(d, H) /\ OpenAt(d, Len(d), m)
  BY SelectionBounds DEF Within
<1>3. ASSUME NEW s \in Outermost(d, H), s # m
      PROVE  s < m
  <2>1. s \in 1 .. Len(d)
    BY SelectionBounds
  <2>2. s \notin Subtree(d, m)
    BY <1>2, <1>3 DEF Outermost
  <2>3. CASE m < s
    <3>1. OpenAt(d, s - 1, m)
      BY <1>2, <2>1 DEF OpenAt
    <3> QED BY <1>2, <2>1, <2>2, <2>3, <3>1, SubtreeMembers
  <2> QED BY <1>2, <1>3, <2>1, <2>3
<1>4. ASSUME NEW s \in 1 .. Len(d), s # m
      PROVE  s \in Due(D, H) <=> s \in Due(d, H)
  <2>1. s \in Outermost(d, H) => ~ OpenAt(d, Len(d), s)
    BY <1>3, <1>4, <1>2, SelectionBounds, OthersAreDeeper
  <2>2. s \in Outermost(d, H) => s \in Due(d, H)
    BY <2>1, CompleteMeansClosed DEF Due
  <2>3. s \in Due(D, H) => s \in Outermost(d, H)
    BY DueAppended
  <2> QED BY <2>2, <2>3, DueAppended
<1>5. m \notin Due(d, H)
  BY <1>2, CompleteMeansClosed DEF Due
<1>6. m \in Due(D, H) <=> Level(d, Len(d)) + Change(e) < Level(d, m)
  <2>1. m \in Due(D, H) <=> ~ OpenAt(D, Len(D), m)
    BY <1>2, DueAppended
  <2>2. OpenAt(D, Len(D), m) <=> Level(d, Len(d)) + Change(e) >= Level(d, m)
    BY <1>2, OpenAppended
  <2>3. Level(d, Len(d)) \in Int /\ Level(d, m) \in Int /\ Change(e) \in Int
    BY <1>1, <1>2, LevelType DEF Change
  <2> QED BY <2>1, <2>2, <2>3
<1>7. Len(D) \notin Due(D, H)
  <2>1. ~ Away(d, H)
    BY <1>2 DEF Away
  <2> QED BY <2>1, SelectionAppended, SelectionBounds DEF Due
<1>8. Due(D, H) \subseteq 1 .. Len(D) /\ Due(d, H) \subseteq 1 .. Len(d)
  BY <1>1, DueAppended
<1>9. \A i \in 1 .. Len(D) : i \in 1 .. Len(d) \/ i = Len(D)
  BY <1>1
<1> DEFINE new == IF Level(d, Len(d)) + Change(e) < Level(d, m) THEN {m} ELSE {}
<1>10. \A i : i \in Due(D, H) <=> i \in Due(d, H) \cup new
  BY <1>1, <1>2, <1>4, <1>5, <1>6, <1>7, <1>8, <1>9
<1>11. \A s \in Due(d, H) : s < m
  BY <1>3, <1>5 DEF Due
<1> QED BY <1>10, <1>11

(* T is S, or S and one number above all of it.                            *)
GrowsAtEnd(T, S) == T = S \/ \E x \in Int : T = S \cup {x} /\ \A s \in S : s < x

LEMMA DueGrows ==
  ASSUME NEW d \in Seq(Event), NEW e \in Event, NEW D, Extends(D, d, e), NEW H
  PROVE  GrowsAtEnd(Due(D, H), Due(d, H)) /\ GrowsAtEnd(SelectedBy(D, H), SelectedBy(d, H))
<1>1. /\ D \in Seq(Event) /\ Len(D) = Len(d) + 1 /\ Len(d) \in Nat
      /\ SelectedBy(d, H) \subseteq 1 .. Len(d) /\ Due(d, H) \subseteq 1 .. Len(d)
  BY LevelsAppended, SelectionBounds
<1>2. Len(D) \in Int /\ (\A s \in Due(d, H) : s < Len(D)) /\ \A s \in SelectedBy(d, H) : s < Len(D)
  BY <1>1
<1>3. GrowsAtEnd(SelectedBy(D, H), SelectedBy(d, H))
  <2>1. SelectedBy(D, H) = SelectedBy(d, H) \cup {Len(D)} \/ SelectedBy(D, H) = SelectedBy(d, H) \cup {}
    BY SelectionAppended
  <2> QED BY <1>2, <2>1 DEF GrowsAtEnd
<1>4. CASE Away(d, H)
  <2>1. Due(D, H) = Due(d, H) \cup {Len(D)} \/ Due(D, H) = Due(d, H)
    BY <1>4, DueWhenAway
  <2> QED BY <1>2, <1>3, <2>1 DEF GrowsAtEnd
<1>5. CASE ~ Away(d, H)
  <2>1. PICK m : Within(d, H, m)
    BY <1>5, AwayOrWithin
  <2>2. m \in Int
    BY <1>1, <2>1, SelectionBounds DEF Within
  <2>3. /\ Due(D, H) = Due(d, H) \cup {m} \/ Due(D, H) = Due(d, H)
        /\ \A s \in Due(d, H) : s < m
    BY <2>1, DueWithin
  <2> QED BY <1>3, <2>2, <2>3 DEF GrowsAtEnd
<1> QED BY <1>4, <1>5

(* The numbers from m to n, as a builder holds them.                       *)
Held(m, n) == [i \in 1 .. n - m + 1 |-> m + i - 1]

LEMMA HeldGrows ==
  ASSUME NEW m \in Nat \ {0}, NEW n \in Nat, m <= n
  PROVE  /\ Held(m, n) \in Seq(Nat) /\ Len(Held(m, n)) = n - m + 1 /\ Head(Held(m, n)) = m
         /\ Held(m, n) # <<>>
         /\ Held(m, n)[Len(Held(m, n))] = n
         /\ Append(Held(m, n), n + 1) = Held(m, n + 1)
<1>1. n - m + 1 \in Nat \ {0}
  OBVIOUS
<1>2. Held(m, n) \in Seq(Nat) /\ Len(Held(m, n)) = n - m + 1
  BY <1>1 DEF Held
<1>3. Held(m, n + 1) \in Seq(Nat) /\ Len(Held(m, n + 1)) = n - m + 2
  BY <1>1 DEF Held
<1>4. Held(m, n)[1] = m /\ Held(m, n)[n - m + 1] = n
  BY <1>1 DEF Held
<1>5. Append(Held(m, n), n + 1) \in Seq(Nat) /\ Len(Append(Held(m, n), n + 1)) = n - m + 2
  BY <1>2
<1>6. \A i \in 1 .. n - m + 2 : Append(Held(m, n), n + 1)[i] = Held(m, n + 1)[i]
  BY <1>2 DEF Held
<1>7. Append(Held(m, n), n + 1) = Held(m, n + 1)
  BY <1>3, <1>5, <1>6, SeqEqual
<1>8. Held(m, n) # <<>>
  BY <1>1, <1>2, EmptySeq
<1> QED BY <1>1, <1>2, <1>4, <1>7, <1>8

LEMMA HeldOne == ASSUME NEW n \in Nat PROVE Held(n, n) = <<n>>
BY DEF Held

(* At the end tag of a match, its events are those since its start.        *)
LEMMA EventsOfMatch ==
  ASSUME NEW d \in Seq(Event), NEW e \in Event, NEW D, Extends(D, d, e), NEW H, NEW m, Within(d, H, m)
  PROVE  Subtree(D, m) = m .. Len(D) /\ SubtreeEvents(D, m) = Held(m, Len(D))
<1>1. /\ D \in Seq(Event) /\ Len(D) = Len(d) + 1 /\ Len(d) \in Nat
  BY LevelsAppended
<1>2. m \in 1 .. Len(d) /\ OpenAt(d, Len(d), m)
  BY SelectionBounds DEF Within
<1>3. ASSUME NEW i \in m .. Len(d)
      PROVE  i \in Subtree(D, m)
  <2>1. OpenAt(d, i - 1, m)
    BY <1>2 DEF OpenAt
  <2>2. i \in Subtree(d, m)
    BY <1>2, <2>1, SubtreeMembers
  <2> QED BY <1>2, <2>2, SubtreesAppended
<1>4. Len(D) \in Subtree(D, m)
  BY <1>2, SubtreesAppended
<1>5. Subtree(D, m) = m .. Len(D)
  <2>1. Subtree(D, m) \subseteq m .. Len(D)
    BY <1>1, <1>2, SubtreeBounds
  <2>2. \A i \in m .. Len(D) : i \in m .. Len(d) \/ i = Len(D)
    BY <1>1, <1>2
  <2> QED BY <1>3, <1>4, <2>1, <2>2
<1>6. Cardinality(m .. Len(D)) = Len(D) - m + 1
  BY <1>1, <1>2, FS_Interval
<1> QED BY <1>5, <1>6 DEF SubtreeEvents, Held

LEMMA EventsOfEmpty ==
  ASSUME NEW d \in Seq(Event), NEW e \in Event, NEW D, Extends(D, d, e)
  PROVE  SubtreeEvents(D, Len(D)) = <<Len(D)>>
<1>1. Subtree(D, Len(D)) = {Len(D)} /\ Len(D) \in Nat
  BY LevelsAppended, SubtreesAppended
<1>2. Cardinality({Len(D)}) = 1
  BY FS_Singleton
<1>3. SubtreeEvents(D, Len(D)) = [i \in 1 .. 1 |-> Len(D) + i - 1]
  BY <1>1, <1>2 DEF SubtreeEvents
<1> QED BY <1>1, <1>3

-------------------------------------------------------------------------------
(* What has been output, when the reader is outside the matches or in one. *)

LEMMA InsideAppended ==
  ASSUME NEW d \in Seq(Event), NEW e \in Event, NEW D, Extends(D, d, e), NEW H
  PROVE  /\ \A i \in 1 .. Len(d) : i \in Inside(D, H) <=> i \in Inside(d, H)
         /\ Len(D) \in Inside(D, H) <=>
              (Selects(H, e) /\ Away(d, H)) \/ \E m : Within(d, H, m)
<1>1. /\ D \in Seq(Event) /\ Len(D) = Len(d) + 1 /\ Len(d) \in Nat
  BY LevelsAppended
<1>2. Outermost(D, H) \subseteq 1 .. Len(D) /\ Outermost(d, H) \subseteq 1 .. Len(d)
  BY <1>1, SelectionBounds
<1>3. \A i \in 1 .. Len(D) : i \in 1 .. Len(d) \/ i = Len(D)
  BY <1>1
<1>4. ASSUME NEW i \in 1 .. Len(d)
      PROVE  i \in Inside(D, H) <=> i \in Inside(d, H)
  <2>1. i \in Inside(D, H) <=> \E s \in Outermost(D, H) : i \in Subtree(D, s)
    BY DEF Inside
  <2>2. i \in Inside(d, H) <=> \E s \in Outermost(d, H) : i \in Subtree(d, s)
    BY DEF Inside
  <2>3. i \notin Subtree(D, Len(D))
    BY <1>1, SubtreesAppended
  <2>4. \A s \in 1 .. Len(d) : s \in Outermost(D, H) <=> s \in Outermost(d, H)
    BY SelectionAppended
  <2>5. \A s \in 1 .. Len(d) : i \in Subtree(D, s) <=> i \in Subtree(d, s)
    BY SubtreesAppended
  <2> QED BY <1>2, <1>3, <2>1, <2>2, <2>3, <2>4, <2>5
<1>5. Len(D) \in Inside(D, H) <=> (Selects(H, e) /\ Away(d, H)) \/ \E m : Within(d, H, m)
  <2>1. Len(D) \in Inside(D, H) <=> \E s \in Outermost(D, H) : Len(D) \in Subtree(D, s)
    BY DEF Inside
  <2>2. Len(D) \in Subtree(D, Len(D))
    BY SubtreesAppended
  <2>3. Len(D) \in Outermost(D, H) <=> Selects(H, e) /\ Away(d, H)
    BY SelectionAppended
  <2>4. \A s \in 1 .. Len(d) : s \in Outermost(D, H) <=> s \in Outermost(d, H)
    BY SelectionAppended
  <2>5. \A s \in 1 .. Len(d) : Len(D) \in Subtree(D, s) <=> OpenAt(d, Len(d), s)
    BY SubtreesAppended
  <2>6. (\E s \in 1 .. Len(d) : s \in Outermost(D, H) /\ Len(D) \in Subtree(D, s)) <=> \E m : Within(d, H, m)
    BY <1>2, <2>4, <2>5 DEF Within
  <2> QED BY <1>2, <1>3, <2>1, <2>2, <2>3, <2>6
<1> QED BY <1>4, <1>5

(* The output for the first n events does not depend on what follows.      *)
LEMMA PlacesAppended ==
  ASSUME NEW d \in Seq(Event), NEW e \in Event, NEW D, Extends(D, d, e), NEW H, NEW gone,
         NEW n \in 0 .. Len(d)
  PROVE  OutputPlaces(D, n, H, gone) = OutputPlaces(d, n, H, gone)
<1>1. 1 .. n \subseteq 1 .. Len(d)
  OBVIOUS
<1>2. \A i \in 1 .. n : /\ i \in Inside(D, H) <=> i \in Inside(d, H)
                        /\ i \in Outermost(D, H) <=> i \in Outermost(d, H)
  BY <1>1, InsideAppended, SelectionAppended
<1>3. ASSUME NEW i \in 1 .. n
      PROVE  i \in OutputPlaces(D, n, H, gone) <=> i \in OutputPlaces(d, n, H, gone)
  <2>1. i \in OutputPlaces(D, n, H, gone) <=> (i \in Inside(D, H) => i \in Outermost(D, H) \ gone)
    BY DEF OutputPlaces
  <2>2. i \in OutputPlaces(d, n, H, gone) <=> (i \in Inside(d, H) => i \in Outermost(d, H) \ gone)
    BY DEF OutputPlaces
  <2> QED BY <1>2, <2>1, <2>2
<1>4. OutputPlaces(D, n, H, gone) \subseteq 1 .. n /\ OutputPlaces(d, n, H, gone) \subseteq 1 .. n
  BY DEF OutputPlaces
<1> QED BY <1>3, <1>4

LEMMA PlacesFinite ==
  ASSUME NEW d, NEW H, NEW gone, NEW n \in Nat
  PROVE  /\ OutputPlaces(d, n, H, gone) \subseteq 1 .. n
         /\ OutputPlaces(d, n, H, gone) \in SUBSET Int
         /\ IsFiniteSet(OutputPlaces(d, n, H, gone))
<1>1. OutputPlaces(d, n, H, gone) \subseteq 1 .. n
  BY DEF OutputPlaces
<1>2. IsFiniteSet(1 .. n)
  BY FS_Interval
<1> QED BY <1>1, <1>2, FS_Subset

PieceAt(d, H, i) == IF i \in Inside(d, H) THEN Node(i) ELSE Input(i)

LEMMA RewrittenType ==
  ASSUME NEW d, NEW H, NEW gone, NEW n \in Nat
  PROVE  LET places == InOrder(OutputPlaces(d, n, H, gone))
         IN  /\ Len(places) \in Nat /\ DOMAIN places = 1 .. Len(places)
             /\ \A k \in 1 .. Len(places) : places[k] \in 1 .. n
             /\ Rewritten(d, n, H, gone) = [k \in 1 .. Len(places) |-> PieceAt(d, H, places[k])]
<1> DEFINE P == OutputPlaces(d, n, H, gone)
<1>1. P \subseteq 1 .. n /\ P \in SUBSET Int /\ IsFiniteSet(P)
  BY PlacesFinite
<1>2. Rewritten(d, n, H, gone) = [k \in DOMAIN InOrder(P) |-> PieceAt(d, H, InOrder(P)[k])]
  BY DEF Rewritten, PieceAt
<1> HIDE DEF P
<1>3. /\ Len(InOrder(P)) \in Nat /\ DOMAIN InOrder(P) = 1 .. Len(InOrder(P))
      /\ \A k \in 1 .. Len(InOrder(P)) : InOrder(P)[k] \in P
  BY <1>1, InOrderLists
<1> QED BY <1>1, <1>2, <1>3 DEF P

LEMMA RewrittenSame ==
  ASSUME NEW d \in Seq(Event), NEW e \in Event, NEW D, Extends(D, d, e), NEW H, NEW gone, NEW left,
         NEW n \in 0 .. Len(d), NEW m \in Nat,
         OutputPlaces(D, m, H, left) = OutputPlaces(d, n, H, gone)
  PROVE  Rewritten(D, m, H, left) = Rewritten(d, n, H, gone)
<1> DEFINE places == InOrder(OutputPlaces(d, n, H, gone))
<1>1. n \in Nat /\ Len(d) \in Nat
  OBVIOUS
<1>2. /\ Len(places) \in Nat
      /\ \A k \in 1 .. Len(places) : places[k] \in 1 .. n
      /\ Rewritten(d, n, H, gone) = [k \in 1 .. Len(places) |-> PieceAt(d, H, places[k])]
  BY <1>1, RewrittenType
<1>3. Rewritten(D, m, H, left) = [k \in 1 .. Len(places) |-> PieceAt(D, H, places[k])]
  BY <1>1, RewrittenType
<1>4. \A k \in 1 .. Len(places) : PieceAt(D, H, places[k]) = PieceAt(d, H, places[k])
  BY <1>1, <1>2, InsideAppended DEF PieceAt
<1> QED BY <1>2, <1>3, <1>4

OneMore(D, m, left, d, n, gone, H, x) ==
  /\ n \in 0 .. Len(d) /\ m \in Nat /\ x \in n + 1 .. m
  /\ OutputPlaces(D, m, H, left) = OutputPlaces(d, n, H, gone) \cup {x}

LEMMA RewrittenGrows ==
  ASSUME NEW d \in Seq(Event), NEW e \in Event, NEW D, Extends(D, d, e), NEW H, NEW gone, NEW left,
         NEW n, NEW m, NEW x, OneMore(D, m, left, d, n, gone, H, x)
  PROVE  Rewritten(D, m, H, left) = Append(Rewritten(d, n, H, gone), PieceAt(D, H, x))
<1> DEFINE P == OutputPlaces(d, n, H, gone)
           Q == OutputPlaces(D, m, H, left)
           c == Cardinality(P)
<1>1. n \in Nat /\ Len(d) \in Nat /\ x \in Int /\ n \in 0 .. Len(d) /\ m \in Nat /\ x \in n + 1 .. m
  BY DEF OneMore
<1>2. P \subseteq 1 .. n /\ P \in SUBSET Int /\ IsFiniteSet(P)
  BY <1>1, PlacesFinite
<1>3. Rewritten(d, n, H, gone) = [k \in 1 .. Len(InOrder(P)) |-> PieceAt(d, H, InOrder(P)[k])]
  BY <1>1, RewrittenType
<1>4. Rewritten(D, m, H, left) = [k \in 1 .. Len(InOrder(Q)) |-> PieceAt(D, H, InOrder(Q)[k])]
  <2>1. m \in Nat
    BY <1>1
  <2> QED BY ONLY <2>1, RewrittenType
<1>5. Q = P \cup {x}
  BY DEF OneMore
<1> HIDE DEF P, Q
<1>6. \A i \in P : i < x
  BY <1>1, <1>2
<1>7. InOrder(Q) = Append(InOrder(P), x)
  BY <1>1, <1>2, <1>5, <1>6, InOrderAppend
<1>8. /\ InOrder(P) \in Seq(P) /\ Len(InOrder(P)) = c /\ c \in Nat
      /\ \A k \in 1 .. c : InOrder(P)[k] \in P
  BY <1>2, InOrderLists
<1> HIDE DEF c
<1>9. /\ Len(InOrder(Q)) = c + 1
      /\ \A k \in 1 .. c : InOrder(Q)[k] = InOrder(P)[k]
      /\ InOrder(Q)[c + 1] = x
  BY <1>7, <1>8, AppendProperties
<1>10. \A i \in P : PieceAt(D, H, i) = PieceAt(d, H, i)
  BY <1>1, <1>2, InsideAppended DEF PieceAt
<1> DEFINE r == [k \in 1 .. c |-> PieceAt(d, H, InOrder(P)[k])]
           q == [k \in 1 .. c + 1 |-> PieceAt(D, H, InOrder(Q)[k])]
           Pieces == {PieceAt(d, H, i) : i \in Int} \cup {PieceAt(D, H, i) : i \in Int}
<1>11. r \in Seq(Pieces) /\ Len(r) = c /\ q \in Seq(Pieces) /\ Len(q) = c + 1 /\ PieceAt(D, H, x) \in Pieces
  <2>1. \A k \in 1 .. c : InOrder(P)[k] \in Int
    BY <1>2, <1>8
  <2>2. \A k \in 1 .. c + 1 : InOrder(Q)[k] \in Int
    BY <1>1, <1>8, <1>9, <2>1
  <2>3. r \in [1 .. c -> Pieces] /\ q \in [1 .. c + 1 -> Pieces] /\ PieceAt(D, H, x) \in Pieces
    BY <1>1, <2>1, <2>2
  <2> HIDE DEF q, r, Pieces
  <2> QED BY <1>8, <2>3
<1>12. Append(r, PieceAt(D, H, x)) \in Seq(Pieces) /\ Len(Append(r, PieceAt(D, H, x))) = c + 1
  BY <1>8, <1>11, AppendProperties
<1>13. \A k \in 1 .. c + 1 : Append(r, PieceAt(D, H, x))[k] = q[k]
  <2>1. \A k \in 1 .. c : q[k] = r[k]
    BY <1>8, <1>9, <1>10
  <2>2. q[c + 1] = PieceAt(D, H, x)
    BY <1>8, <1>9
  <2> HIDE DEF q, r, Pieces
  <2> QED BY <1>8, <1>11, <2>1, <2>2, AppendProperties
<1>14. q = Append(r, PieceAt(D, H, x))
  <2> HIDE DEF q, r, Pieces
  <2> QED BY <1>11, <1>12, <1>13, SeqEqual
<1>15. Rewritten(d, n, H, gone) = r /\ Rewritten(D, m, H, left) = q
  BY <1>3, <1>4, <1>8, <1>9
<1> QED BY <1>14, <1>15

==============================================================================
