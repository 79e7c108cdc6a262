------------------------------ MODULE FallbackProofs ------------------------------
(***************************************************************************)
(* The second pass finds the nodes that the first one selected, for any    *)
(* document without entities that hold elements, and what it does with     *)
(* them is what the streaming rewrite does.                                *)
(***************************************************************************)
EXTENDS Fallback, XmlEventsProofs

-------------------------------------------------------------------------------
(* Numbers in order.                                                       *)

(* What comes first in T comes in the same places.                         *)
ComesFirst(S, T) == S \subseteq T /\ \A s \in S : \A t \in T \ S : s < t

LEMMA InOrderInitial ==
  ASSUME NEW T \in SUBSET Int, IsFiniteSet(T), NEW S, ComesFirst(S, T)
  PROVE  /\ IsFiniteSet(S) /\ S \in SUBSET Int
         /\ Cardinality(S) <= Cardinality(T)
         /\ Len(InOrder(S)) = Cardinality(S) /\ Len(InOrder(T)) = Cardinality(T)
         /\ Cardinality(S) \in Nat /\ Cardinality(T) \in Nat
         /\ \A k \in 1 .. Cardinality(S) : InOrder(S)[k] \in S /\ InOrder(T)[k] = InOrder(S)[k]
<1>1. IsFiniteSet(S) /\ S \in SUBSET Int /\ Cardinality(S) <= Cardinality(T)
  BY FS_Subset DEF ComesFirst
<1>2. /\ Cardinality(S) \in Nat /\ Cardinality(T) \in Nat
      /\ Len(InOrder(S)) = Cardinality(S) /\ Len(InOrder(T)) = Cardinality(T)
      /\ \A k \in 1 .. Cardinality(S) : InOrder(S)[k] \in S /\ Rank(S, InOrder(S)[k]) = k - 1
      /\ \A k \in 1 .. Cardinality(T) : InOrder(T)[k] \in T /\ Rank(T, InOrder(T)[k]) = k - 1
  BY <1>1, InOrderLists
<1>3. ASSUME NEW s \in S
      PROVE  s \in T /\ Rank(T, s) = Rank(S, s)
  <2>1. \A t \in T : t < s => t \in S
    <3> SUFFICES ASSUME NEW t \in T, t < s, t \notin S PROVE FALSE
      OBVIOUS
    <3>1. s < t /\ s \in Int /\ t \in Int
      BY <1>1 DEF ComesFirst
    <3> QED BY <3>1
  <2>2. Below(T, s) = Below(S, s)
    BY <2>1 DEF Below, ComesFirst
  <2> QED BY <2>2 DEF Rank, ComesFirst
<1>4. ASSUME NEW k \in 1 .. Cardinality(S)
      PROVE  InOrder(T)[k] = InOrder(S)[k]
  <2> DEFINE s == InOrder(S)[k]
             t == InOrder(T)[k]
  <2>1. s \in T /\ Rank(T, s) = k - 1
    BY <1>2, <1>3
  <2>2. k \in 1 .. Cardinality(T)
    BY <1>1, <1>2
  <2>3. t \in T /\ Rank(T, t) = k - 1
    BY <1>2, <2>2
  <2> HIDE DEF s, t
  <2>4. s = t
    BY <2>1, <2>3, RanksDiffer
  <2> QED BY <2>4 DEF s, t
<1> QED BY <1>1, <1>2, <1>4

LEMMA InOrderAll ==
  ASSUME NEW n \in Nat
  PROVE  InOrder(1 .. n) = [k \in 1 .. n |-> k]
<1> DEFINE T == 1 .. n
<1>1. T \in SUBSET Int /\ IsFiniteSet(T) /\ Cardinality(T) = n
  BY FS_Interval
<1>2. ASSUME NEW k \in 1 .. n
      PROVE  Rank(T, k) = k - 1
  <2>1. Below(T, k) = 1 .. k - 1
    BY DEF Below
  <2>2. Cardinality(1 .. k - 1) = k - 1
    BY FS_Interval
  <2> QED BY <2>1, <2>2 DEF Rank
<1>3. ASSUME NEW k \in 1 .. n
      PROVE  InOrder(T)[k] = k
  <2> DEFINE t == InOrder(T)[k]
  <2>1. t \in T /\ Rank(T, t) = k - 1
    BY <1>1, InOrderLists
  <2>2. k \in T /\ Rank(T, k) = k - 1
    BY <1>2
  <2> HIDE DEF t, T
  <2>3. t = k
    BY <1>1, <2>1, <2>2, RanksDiffer
  <2> QED BY <2>3 DEF t
<1>4. InOrder(T) \in Seq(T) /\ Len(InOrder(T)) = n
  BY <1>1, InOrderLists
<1> DEFINE all == [k \in 1 .. n |-> k]
<1>5. all \in Seq(T) /\ Len(all) = n /\ \A k \in 1 .. n : all[k] = k
  OBVIOUS
<1> HIDE DEF T, all
<1>6. InOrder(T) = all
  BY <1>3, <1>4, <1>5, SeqEqual
<1> QED BY <1>6 DEF T, all

(* One number more below the bound.                                        *)
LEMMA RankNext ==
  ASSUME NEW S \in SUBSET Nat, NEW n \in Nat
  PROVE  /\ Rank(S, n) \in Nat
         /\ n \in S => Rank(S, n + 1) = Rank(S, n) + 1
         /\ n \notin S => Rank(S, n + 1) = Rank(S, n)
<1>1. Below(S, n) \subseteq 0 .. n /\ IsFiniteSet(0 .. n)
  <2>1. \A i \in S : i < n => i \in 0 .. n
    OBVIOUS
  <2>2. IsFiniteSet(0 .. n)
    BY FS_Interval
  <2> QED BY <2>1, <2>2 DEF Below
<1>2. IsFiniteSet(Below(S, n)) /\ Cardinality(Below(S, n)) \in Nat
  BY <1>1, FS_Subset, FS_CardinalityType
<1>3. \A i \in S : i < n + 1 <=> i < n \/ i = n
  OBVIOUS
<1>4. n \notin Below(S, n)
  BY DEF Below
<1>5. CASE n \in S
  <2>1. Below(S, n + 1) = Below(S, n) \cup {n}
    BY <1>3, <1>5 DEF Below
  <2>2. Cardinality(Below(S, n) \cup {n}) = Cardinality(Below(S, n)) + 1
    BY <1>2, <1>4, FS_AddElement
  <2> QED BY <1>2, <1>5, <2>1, <2>2 DEF Rank
<1>6. CASE n \notin S
  <2>1. Below(S, n + 1) = Below(S, n)
    BY <1>3, <1>6 DEF Below
  <2> QED BY <1>2, <1>6, <2>1 DEF Rank
<1> QED BY <1>5, <1>6

LEMMA RankNone ==
  ASSUME NEW S \in SUBSET Nat, NEW n \in Nat, \A i \in S : ~ (i < n)
  PROVE  Rank(S, n) = 0
<1>1. Below(S, n) = {}
  BY DEF Below
<1> QED BY <1>1, FS_EmptySet DEF Rank

(* A set of numbers with a bound has a greatest one.                       *)
LEMMA GreatestNumber ==
  ASSUME NEW n \in Nat, NEW S \in SUBSET (1 .. n), S # {}
  PROVE  \E m \in S : \A t \in S : t <= m
<1> DEFINE C == {n - s : s \in S}
<1>1. C # {} /\ C \in SUBSET Nat
  <2>1. \A s \in S : n - s \in Nat
    OBVIOUS
  <2> QED BY <2>1
<1>2. PICK c \in C : \A b \in C : c <= b
  BY <1>1, LeastNumber
<1>3. PICK m \in S : c = n - m
  BY <1>2
<1>4. ASSUME NEW t \in S
      PROVE  t <= m
  <2>1. n - t \in C /\ t \in 1 .. n /\ m \in 1 .. n
    OBVIOUS
  <2>2. n - m <= n - t
    BY <1>2, <1>3, <2>1
  <2> QED BY <2>1, <2>2
<1> QED BY <1>4

-------------------------------------------------------------------------------
(* The part of a document that has been read again.                        *)

IsPrefix(D, d, n) == n \in 0 .. Len(d) /\ D = SubSeq(d, 1, n)

LEMMA PrefixLevels ==
  ASSUME NEW d \in Seq(Event), NEW n, NEW D, IsPrefix(D, d, n)
  PROVE  /\ D \in Seq(Event) /\ Len(D) = n /\ n \in Nat /\ Len(d) \in Nat /\ n <= Len(d)
         /\ \A i \in 1 .. n : D[i] = d[i]
         /\ \A i \in 0 .. n : Level(D, i) = Level(d, i)
<1>1. /\ D \in Seq(Event) /\ Len(D) = n /\ n \in Nat /\ Len(d) \in Nat /\ n <= Len(d)
      /\ \A i \in 1 .. n : D[i] = d[i]
  <2>1. n \in Nat /\ Len(d) \in Nat /\ n <= Len(d) /\ D = SubSeq(d, 1, n)
    BY DEF IsPrefix
  <2>2. \A i \in 1 .. n : d[i] \in Event
    BY <2>1
  <2>3. /\ SubSeq(d, 1, n) \in Seq(Event)
        /\ Len(SubSeq(d, 1, n)) = IF 1 <= n THEN n - 1 + 1 ELSE 0
        /\ \A i \in 1 .. n - 1 + 1 : SubSeq(d, 1, n)[i] = d[1 + i - 1]
    BY <2>1, <2>2, SubSeqProperties
  <2>4. Len(D) = n
    BY <2>1, <2>3
  <2>5. \A i \in 1 .. n : D[i] = d[i]
    <3> SUFFICES ASSUME NEW i \in 1 .. n PROVE D[i] = d[i]
      OBVIOUS
    <3>1. i \in 1 .. n - 1 + 1 /\ 1 + i - 1 = i
      BY <2>1
    <3> QED BY <2>1, <2>3, <3>1
  <2> QED BY <2>1, <2>3, <2>4, <2>5
<1>2. ASSUME NEW i \in 0 .. n
      PROVE  Level(D, i) = Level(d, i)
  <2>1. ASSUME NEW k
        PROVE  CountOf(D, i, k) = CountOf(d, i, k)
    <3>1. \A j \in 1 .. i : D[j] = d[j]
      BY <1>1
    <3> QED BY <3>1 DEF CountOf
  <2> QED BY <2>1 DEF Level
<1> QED BY <1>1, <1>2

LEMMA PrefixOpen ==
  ASSUME NEW d \in Seq(Event), NEW n, NEW D, IsPrefix(D, d, n), NEW s \in 1 .. n, NEW m \in 0 .. n
  PROVE  OpenAt(D, m, s) <=> OpenAt(d, m, s)
<1>1. D[s] = d[s] /\ n \in Nat
  BY PrefixLevels
<1>2. \A k \in s .. m : Level(D, k) = Level(d, k) /\ Level(D, s) = Level(d, s)
  BY <1>1, PrefixLevels
<1> QED BY <1>1, <1>2 DEF OpenAt

(* What is selected in the part is what is selected in it of the whole,    *)
(* and an element that is complete in the part is the same in both.        *)
LEMMA PrefixSelection ==
  ASSUME NEW d \in Seq(Event), NEW n, NEW D, IsPrefix(D, d, n), NEW H
  PROVE  /\ \A s \in 1 .. n : s \in SelectedBy(D, H) <=> s \in SelectedBy(d, H)
         /\ \A s \in 1 .. n : s \in Outermost(D, H) <=> s \in Outermost(d, H)
         /\ \A s \in 1 .. n : s \in Due(D, H) <=> s \in Outermost(d, H) /\ ~ OpenAt(d, n, s)
         /\ \A s \in Due(D, H) : s \in 1 .. n /\ SubtreeEvents(D, s) = SubtreeEvents(d, s)
<1>1. /\ D \in Seq(Event) /\ Len(D) = n /\ n \in Nat /\ Len(d) \in Nat /\ n <= Len(d)
      /\ \A i \in 1 .. n : D[i] = d[i]
  BY PrefixLevels
<1>2. \A s \in 1 .. n : s \in SelectedBy(D, H) <=> s \in SelectedBy(d, H)
  BY <1>1 DEF SelectedBy, IsElement
<1>3. SelectedBy(D, H) \subseteq 1 .. n /\ SelectedBy(d, H) \subseteq 1 .. Len(d)
  BY <1>1 DEF SelectedBy
<1>4. ASSUME NEW s \in 1 .. n, NEW t \in 1 .. n
      PROVE  s \in Subtree(D, t) <=> s \in Subtree(d, t)
  <2>1. s \in Subtree(D, t) <=> s = t \/ (t < s /\ OpenAt(D, s - 1, t))
    BY <1>1, SubtreeMembers
  <2>2. s \in Subtree(d, t) <=> s = t \/ (t < s /\ OpenAt(d, s - 1, t))
    BY <1>1, SubtreeMembers
  <2>3. OpenAt(D, s - 1, t) <=> OpenAt(d, s - 1, t)
    BY <1>1, PrefixOpen
  <2> QED BY <2>1, <2>2, <2>3
<1>5. ASSUME NEW s \in 1 .. n
      PROVE  s \in Outermost(D, H) <=> s \in Outermost(d, H)
  <2>1. ASSUME NEW t \in SelectedBy(d, H), t \notin 1 .. n
        PROVE  s \notin Subtree(d, t)
    <3>1. t \in 1 .. Len(d) /\ s < t
      BY <1>1, <1>3, <2>1
    <3> QED BY <1>1, <3>1, SubtreeBounds
  <2> QED BY <1>2, <1>3, <1>4, <2>1 DEF Outermost
<1>6. ASSUME NEW s \in 1 .. n
      PROVE  s \in Due(D, H) <=> s \in Outermost(d, H) /\ ~ OpenAt(d, n, s)
  <2>1. IsComplete(D, s) <=> ~ OpenAt(D, n, s)
    BY <1>1, CompleteMeansClosed
  <2>2. OpenAt(D, n, s) <=> OpenAt(d, n, s)
    BY <1>1, PrefixOpen
  <2> QED BY <1>5, <2>1, <2>2 DEF Due
<1>7. ASSUME NEW s \in Due(D, H)
      PROVE  s \in 1 .. n /\ SubtreeEvents(D, s) = SubtreeEvents(d, s)
  <2>1. s \in 1 .. n
    BY <1>1, SelectionBounds
  <2>2. ~ OpenAt(d, n, s)
    BY <1>6, <2>1
  <2>3. ASSUME NEW i \in 1 .. Len(d), i \in Subtree(d, s)
        PROVE  i \in 1 .. n
    <3> SUFFICES ASSUME i > n PROVE FALSE
      BY <1>1
    <3>1. s < i /\ OpenAt(d, i - 1, s)
      BY <1>1, <2>1, <2>3, SubtreeMembers
    <3>2. \A k \in s .. n : k \in s .. i - 1
      BY <1>1, <2>1
    <3> QED BY <2>2, <3>1, <3>2 DEF OpenAt
  <2>4. Subtree(D, s) \subseteq 1 .. n /\ Subtree(d, s) \subseteq 1 .. Len(d)
    BY <1>1, <2>1, SubtreeBounds
  <2>5. \A i : i \in Subtree(D, s) <=> i \in Subtree(d, s)
    BY <1>4, <2>1, <2>3, <2>4
  <2>6. Subtree(D, s) = Subtree(d, s)
    BY <2>5
  <2> QED BY <2>1, <2>6 DEF SubtreeEvents
<1> QED BY <1>2, <1>5, <1>6, <1>7

(* What is due in the part comes first among what is selected.             *)
LEMMA DueComesFirst ==
  ASSUME NEW d \in Seq(Event), NEW n, NEW D, IsPrefix(D, d, n), NEW H
  PROVE  ComesFirst(Due(D, H), Outermost(d, H))
<1>1. /\ Len(D) = n /\ D \in Seq(Event) /\ n \in Nat /\ Len(d) \in Nat /\ n <= Len(d)
  BY PrefixLevels
<1>2. \A s \in Due(D, H) : s \in 1 .. n /\ s \in Outermost(d, H) /\ ~ OpenAt(d, n, s)
  BY PrefixSelection
<1>3. ASSUME NEW s \in Due(D, H), NEW t \in Outermost(d, H) \ Due(D, H)
      PROVE  s < t
  <2>1. t \in 1 .. Len(d) /\ t \in SelectedBy(d, H) /\ s \in 1 .. n
    BY <1>2, SelectionBounds
  <2>2. CASE t > n
    BY <1>1, <2>1, <2>2
  <2>3. CASE t \in 1 .. n
    <3>1. OpenAt(d, n, t)
      BY <2>3, PrefixSelection
    <3>2. CASE t < s
      <4>1. OpenAt(d, s - 1, t)
        <5>1. \A k \in t .. s - 1 : k \in t .. n
          BY <1>1, <2>1
        <5> QED BY <3>1, <5>1 DEF OpenAt
      <4>2. s \in Subtree(d, t)
        BY <1>1, <2>1, <3>2, <4>1, SubtreeMembers
      <4>3. s \in Outermost(d, H) /\ t # s
        BY <1>2, <2>1, <3>2
      <4> QED BY <2>1, <4>2, <4>3 DEF Outermost
    <3>3. t # s
      BY <1>3
    <3> QED BY <2>1, <3>2, <3>3
  <2> QED BY <1>1, <2>1, <2>2, <2>3
<1> QED BY <1>2, <1>3 DEF ComesFirst

-------------------------------------------------------------------------------
(* Documents that the first pass reads.                                    *)

LEMMA FrontIs ==
  ASSUME NEW S, NEW s \in Seq(S), Len(s) > 0
  PROVE  /\ Front(s) \in Seq(S) /\ Len(Front(s)) = Len(s) - 1
         /\ \A i \in 1 .. Len(s) - 1 : Front(s)[i] = s[i]
         /\ Last(s) \in S /\ Len(s) \in 1 .. Len(s)
<1> DEFINE n == Len(s) - 1
<1>1. n \in Nat /\ Len(s) = n + 1
  OBVIOUS
<1>2. Front(s) = SubSeq(s, 1, n) /\ \A i \in 1 .. n : s[i] \in S
  BY DEF Front
<1>3. Last(s) \in S /\ Len(s) \in 1 .. Len(s)
  BY DEF Last
<1> HIDE DEF n
<1>4. 1 .. n = {} \/ 1 <= n
  BY <1>1
<1>5. /\ SubSeq(s, 1, n) \in Seq(S)
      /\ Len(SubSeq(s, 1, n)) = n
      /\ \A i \in 1 .. n : SubSeq(s, 1, n)[i] = s[i]
  BY <1>1, <1>2
<1> QED BY <1>1, <1>2, <1>3, <1>5

(* What the reader makes sure of at event i.                               *)
Follows(d, i) ==
  /\ d[i].by \subseteq {1}
  /\ d[i].kind \in {"end", "text", "ref"} => Level(d, i - 1) > 0
  /\ d[i].kind \in {"start", "empty"} =>
       Level(d, i - 1) > 0 \/ \A j \in 1 .. i - 1 : d[j].kind \notin {"start", "empty"}
  /\ d[i].kind = "other" => i = 1

WellRead(d) ==
  /\ d \in Seq(Event)
  /\ Len(d) <= MaxEvents
  /\ \A i \in 0 .. Len(d) : Level(d, i) >= 0
  /\ \A i \in 1 .. Len(d) : Follows(d, i)

(* The path is as long as the document is deep.                            *)
PathFits(d, p) == p \in Seq(Nat) /\ Len(p) = Level(d, Len(d))

LEMMA NothingIsWellRead == WellRead(<<>>) /\ PathFits(<<>>, <<>>)
<1>1. Level(<<>>, 0) = 0
  <2>1. \A k : {j \in 1 .. 0 : <<>>[j].kind = k} = {}
    OBVIOUS
  <2>2. \A k : CountOf(<<>>, 0, k) = 0
    BY <2>1, FS_EmptySet DEF CountOf
  <2> QED BY <2>2 DEF Level
<1>2. <<>> \in Seq(Event) /\ <<>> \in Seq(Nat) /\ Len(<<>>) = 0
  OBVIOUS
<1>3. 0 .. 0 = {0} /\ 1 .. 0 = {}
  OBVIOUS
<1>4. 0 <= MaxEvents
  BY EventsAssumption
<1>5. WellRead(<<>>)
  BY <1>1, <1>2, <1>3, <1>4 DEF WellRead
<1> QED BY <1>1, <1>2, <1>5 DEF PathFits

LEMMA WellReadGrows ==
  ASSUME WellRead(doc), PathFits(doc, path), NEW e \in Event, e.by \subseteq {1}, Read(e)
  PROVE  WellRead(doc') /\ PathFits(doc', path')
<1>1. /\ doc \in Seq(Event) /\ Len(doc) \in Nat /\ CanFollow(e) /\ Extends(doc', doc, e)
      /\ path \in Seq(Nat) /\ Len(path) = Level(doc, Len(doc)) /\ Len(path) \in Nat
  BY DEF WellRead, PathFits, Read, Extends
<1>2. /\ doc' \in Seq(Event) /\ Len(doc') = Len(doc) + 1
      /\ \A i \in 1 .. Len(doc) : doc'[i] = doc[i]
      /\ doc'[Len(doc) + 1] = e
      /\ \A i \in 0 .. Len(doc) : Level(doc', i) = Level(doc, i)
      /\ Level(doc', Len(doc) + 1) = Level(doc, Len(doc)) + Change(e)
  BY <1>1, LevelsAppended
<1>3. path # <<>> <=> Level(doc, Len(doc)) > 0
  BY <1>1, EmptySeq
<1>4. e.kind \in {"end", "text", "ref"} => Level(doc, Len(doc)) > 0
  BY <1>1, <1>3 DEF CanFollow
<1>5. Follows(doc', Len(doc) + 1)
  <2>1. (Len(doc) + 1) - 1 = Len(doc) /\ Len(doc) \in 0 .. Len(doc)
    BY <1>1
  <2>2. e.kind \in {"start", "empty"} =>
          Level(doc, Len(doc)) > 0 \/ \A j \in 1 .. Len(doc) : doc[j].kind \notin {"start", "empty"}
    BY <1>1, <1>3 DEF CanFollow, HasRoot
  <2>3. e.kind = "other" => Len(doc) + 1 = 1
    BY <1>1, EmptySeq DEF CanFollow
  <2> QED BY <1>2, <1>4, <2>1, <2>2, <2>3 DEF Follows
<1>6. ASSUME NEW i \in 1 .. Len(doc)
      PROVE  Follows(doc', i)
  <2>1. Follows(doc, i)
    BY DEF WellRead
  <2>2. /\ i - 1 \in 0 .. Len(doc) /\ doc'[i] = doc[i]
        /\ \A j \in 1 .. i - 1 : doc'[j] = doc[j]
    BY <1>1, <1>2
  <2> QED BY <1>2, <2>1, <2>2 DEF Follows
<1>7. Level(doc', Len(doc')) >= 0 /\ Level(doc, Len(doc)) \in Int
  BY <1>1, <1>2, <1>4 DEF Change
<1>8. WellRead(doc')
  <2>1. Len(doc') <= MaxEvents
    BY <1>1, <1>2, EventsAssumption DEF CanFollow
  <2>2. ASSUME NEW i \in 0 .. Len(doc')
        PROVE  Level(doc', i) >= 0
    <3>1. i \in 0 .. Len(doc) \/ i = Len(doc')
      BY <1>1, <1>2
    <3>2. \A k \in 0 .. Len(doc) : Level(doc, k) >= 0
      BY DEF WellRead
    <3> QED BY <1>2, <1>7, <3>1, <3>2
  <2>3. \A i \in 1 .. Len(doc') : i \in 1 .. Len(doc) \/ i = Len(doc) + 1
    BY <1>1, <1>2
  <2> QED BY <1>2, <1>5, <1>6, <2>1, <2>2, <2>3 DEF WellRead
<1>9. path' \in Seq(Nat) /\ Len(path') = Len(path) + Change(e)
  <2>1. path' = CASE e.kind = "start" -> Append(path, Here)
                  [] e.kind = "end" -> SubSeq(path, 1, Len(path) - 1)
                  [] OTHER -> path
    BY DEF Read
  <2>2. Here \in Nat
    BY <1>1 DEF Here
  <2>3. CASE e.kind = "start"
    <3>1. path' = Append(path, Here) /\ Change(e) = 1
      BY <2>1, <2>3 DEF Change
    <3> QED BY <1>1, <2>2, <3>1, AppendProperties
  <2>4. CASE e.kind = "end"
    <3>1. path' = SubSeq(path, 1, Len(path) - 1) /\ Change(e) = -1 /\ Len(path) > 0
      BY <1>1, <1>4, <2>1, <2>4 DEF Change
    <3>2. Front(path) \in Seq(Nat) /\ Len(Front(path)) = Len(path) - 1
      BY <1>1, <3>1, FrontIs
    <3> QED BY <1>1, <3>1, <3>2 DEF Front
  <2>5. CASE e.kind \notin {"start", "end"}
    <3>1. path' = path /\ Change(e) = 0
      BY <2>1, <2>5 DEF Change
    <3> QED BY <1>1, <3>1
  <2> QED BY <2>3, <2>4, <2>5
<1> QED BY <1>1, <1>2, <1>8, <1>9 DEF PathFits

NoRefs(d) == \A i \in 1 .. Len(d) : d[i].kind # "ref"

(* At the end of a whole document nothing is open.                         *)
LEMMA AllComplete ==
  ASSUME NEW d, WellRead(d), PathFits(d, <<>>)
  PROVE  \A s \in 1 .. Len(d) : ~ OpenAt(d, Len(d), s)
<1> SUFFICES ASSUME NEW s \in 1 .. Len(d), OpenAt(d, Len(d), s) PROVE FALSE
  OBVIOUS
<1>1. d \in Seq(Event) /\ Len(d) \in Nat /\ Level(d, Len(d)) = 0
  BY DEF WellRead, PathFits
<1>2. Level(d, Len(d)) >= Level(d, s) /\ d[s].kind = "start"
  BY <1>1 DEF OpenAt
<1>3. Level(d, s) = Level(d, s - 1) + 1 /\ Level(d, s - 1) \in Int
  BY <1>1, <1>2, LevelStep DEF Change
<1>4. Level(d, s - 1) >= 0
  BY <1>1 DEF WellRead
<1> QED BY <1>1, <1>2, <1>3, <1>4

-------------------------------------------------------------------------------
(* The tree of a document.                                                 *)

(* The start tags of the elements that event i is in.                      *)
Around(d, i) == {s \in 1 .. i - 1 : d[s].kind = "start" /\ i \in Subtree(d, s)}

ParentIn(d, i) ==
  IF Around(d, i) = {} THEN 0 ELSE CHOOSE s \in Around(d, i) : \A t \in Around(d, i) : t <= s

ChildrenIn(d, n) == {i \in 1 .. Len(d) : d[i].kind \in ElementKinds /\ ParentIn(d, i) = n}

LEMMA ChildElementsAre == \A n : ChildElements(n) = InOrder(ChildrenIn(doc, n))
BY DEF ChildElements, ChildrenIn, IsNode, ParentOf, ParentIn, Around

LEMMA AroundAreOpen ==
  ASSUME NEW d \in Seq(Event), NEW i \in 1 .. Len(d)
  PROVE  Around(d, i) = {s \in 1 .. i - 1 : OpenAt(d, i - 1, s)}
<1>1. ASSUME NEW s \in 1 .. i - 1
      PROVE  (d[s].kind = "start" /\ i \in Subtree(d, s)) <=> OpenAt(d, i - 1, s)
  <2>1. s \in 1 .. Len(d) /\ s < i
    OBVIOUS
  <2>2. i \in Subtree(d, s) <=> OpenAt(d, i - 1, s)
    BY <2>1, SubtreeMembers
  <2> QED BY <2>2 DEF OpenAt
<1> QED BY <1>1 DEF Around

(* The parent is the innermost element that is open.                       *)
LEMMA ParentIsInnermost ==
  ASSUME NEW d \in Seq(Event), NEW i \in 1 .. Len(d), Around(d, i) # {}
  PROVE  /\ ParentIn(d, i) \in 1 .. i - 1 /\ OpenAt(d, i - 1, ParentIn(d, i))
         /\ \A s \in Around(d, i) : s <= ParentIn(d, i)
<1> DEFINE A == Around(d, i)
           m == CHOOSE s \in A : \A t \in A : t <= s
<1>1. A \in SUBSET (1 .. i - 1) /\ \A s \in A : OpenAt(d, i - 1, s)
  BY AroundAreOpen
<1>2. \E s \in A : \A t \in A : t <= s
  <2>1. i - 1 \in Nat
    OBVIOUS
  <2> HIDE DEF A
  <2> QED BY <1>1, <2>1, GreatestNumber DEF A
<1>3. m \in A /\ \A t \in A : t <= m
  <2> HIDE DEF A
  <2> QED BY <1>2
<1>4. ParentIn(d, i) = m
  BY DEF ParentIn
<1> HIDE DEF m
<1> QED BY <1>1, <1>3, <1>4

-------------------------------------------------------------------------------
(* The stacks of the second pass, ns and ci, after n events.               *)

(* The nodes on the stack are the open elements, each at its own level;    *)
(* for each, as many children are counted as have been read.               *)
StackAt(d, n, ns, ci) ==
  /\ ns \in Seq(Nat) /\ Len(ns) = Level(d, n) + 1 /\ Len(ns) > 0
  /\ ns[1] = 0
  /\ \A k \in 2 .. Len(ns) : ns[k] \in 1 .. n /\ OpenAt(d, n, ns[k]) /\ Level(d, ns[k]) = k - 1
  /\ \A j, k \in 1 .. Len(ns) : j < k => ns[j] < ns[k]
  /\ \A s \in 1 .. n : OpenAt(d, n, s) => \E k \in 2 .. Len(ns) : ns[k] = s
  /\ ci \in Seq(Nat) /\ Len(ci) = Len(ns)
  /\ \A k \in 1 .. Len(ns) : ci[k] = Rank(ChildrenIn(d, ns[k]), n + 1)

LEMMA StackStarts ==
  ASSUME NEW d, WellRead(d), Level(d, 0) = 0
  PROVE  StackAt(d, 0, <<0>>, <<0>>)
<1>1. /\ <<0>> \in Seq(Nat) /\ Len(<<0>>) = 1 /\ <<0>>[1] = 0
      /\ 2 .. 1 = {} /\ 1 .. 0 = {} /\ 1 .. 1 = {1}
  OBVIOUS
<1>2. Rank(ChildrenIn(d, 0), 1) = 0
  <2>1. ChildrenIn(d, 0) \in SUBSET Nat /\ \A i \in ChildrenIn(d, 0) : ~ (i < 1)
    BY DEF ChildrenIn, WellRead
  <2> QED BY <2>1, RankNone
<1>3. \A k \in 1 .. 1 : <<0>>[k] = Rank(ChildrenIn(d, <<0>>[k]), 0 + 1)
  BY <1>1, <1>2
<1> QED BY <1>1, <1>3 DEF StackAt

(* The parent of what is read next is on top.                              *)
LEMMA ParentOnTop ==
  ASSUME NEW d \in Seq(Event), NEW n \in Nat, n < Len(d), NEW ns, NEW ci, StackAt(d, n, ns, ci)
  PROVE  /\ ParentIn(d, n + 1) = Last(ns)
         /\ \A k \in 1 .. Len(ns) - 1 : ParentIn(d, n + 1) # ns[k]
<1>1. n + 1 \in 1 .. Len(d) /\ (n + 1) - 1 = n
  OBVIOUS
<1>2. Around(d, n + 1) = {s \in 1 .. n : OpenAt(d, n, s)}
  BY <1>1, AroundAreOpen
<1>3. /\ ns \in Seq(Nat) /\ Len(ns) \in Nat /\ Len(ns) > 0 /\ ns[1] = 0 /\ Last(ns) = ns[Len(ns)]
      /\ \A k \in 2 .. Len(ns) : ns[k] \in 1 .. n /\ OpenAt(d, n, ns[k])
      /\ \A j, k \in 1 .. Len(ns) : j < k => ns[j] < ns[k]
      /\ \A s \in 1 .. n : OpenAt(d, n, s) => \E k \in 2 .. Len(ns) : ns[k] = s
      /\ \A k \in 1 .. Len(ns) : ns[k] \in Nat
  BY DEF StackAt, Last
<1>4. ParentIn(d, n + 1) = Last(ns)
  <2>1. CASE Len(ns) = 1
    <3>1. 2 .. Len(ns) = {}
      BY <2>1
    <3>2. Around(d, n + 1) = {}
      BY <1>2, <1>3, <3>1
    <3> QED BY <1>3, <2>1, <3>2 DEF ParentIn
  <2>2. CASE Len(ns) > 1
    <3>1. Len(ns) \in 2 .. Len(ns)
      BY <1>3, <2>2
    <3>2. Last(ns) \in Around(d, n + 1)
      BY <1>2, <1>3, <3>1
    <3>3. \A s \in Around(d, n + 1) : s <= Last(ns) /\ s \in Nat
      <4> SUFFICES ASSUME NEW s \in Around(d, n + 1) PROVE s <= Last(ns) /\ s \in Nat
        OBVIOUS
      <4>1. PICK k \in 2 .. Len(ns) : ns[k] = s
        BY <1>2, <1>3
      <4>2. k = Len(ns) \/ k < Len(ns)
        BY <1>3
      <4>3. k < Len(ns) => ns[k] < ns[Len(ns)]
        <5>1. k \in 1 .. Len(ns) /\ Len(ns) \in 1 .. Len(ns)
          BY <1>3, <4>1
        <5> QED BY <1>3, <5>1
      <4> QED BY <1>2, <1>3, <3>1, <4>1, <4>2, <4>3
    <3>4. /\ ParentIn(d, n + 1) \in Around(d, n + 1)
          /\ \A s \in Around(d, n + 1) : s <= ParentIn(d, n + 1)
      BY <1>1, <1>2, <3>2, ParentIsInnermost
    <3> QED BY <3>2, <3>3, <3>4
  <2>3. Len(ns) = 1 \/ Len(ns) > 1
    <3>1. Len(ns) \in Nat /\ Len(ns) > 0
      BY <1>3
    <3>2. \A l \in Nat : l > 0 => l = 1 \/ l > 1
      OBVIOUS
    <3> QED BY <3>1, <3>2
  <2> QED BY <2>1, <2>2, <2>3
<1>5. ASSUME NEW k \in 1 .. Len(ns) - 1
      PROVE  ParentIn(d, n + 1) # ns[k]
  <2>1. k \in 1 .. Len(ns) /\ Len(ns) \in 1 .. Len(ns) /\ k < Len(ns)
    BY <1>3
  <2>2. ns[k] < ns[Len(ns)] /\ ns[k] \in Nat /\ ns[Len(ns)] \in Nat
    BY <1>3, <2>1
  <2> QED BY <1>3, <1>4, <2>2
<1> QED BY <1>4, <1>5

(* The node that the second pass expects is the one that is read next.     *)
LEMMA ExpectedIsNext ==
  ASSUME doc \in Seq(Event), pos \in Nat, pos < Len(doc), StackAt(doc, pos, nodeStack, childIndex),
         doc[pos + 1].kind \in ElementKinds
  PROVE  ExpectedNode = pos + 1
<1> DEFINE n == Last(nodeStack)
           k == Last(childIndex)
           C == ChildrenIn(doc, n)
           next == pos + 1
<1>1. /\ nodeStack \in Seq(Nat) /\ Len(nodeStack) > 0 /\ Len(nodeStack) \in Nat
      /\ childIndex \in Seq(Nat) /\ Len(childIndex) = Len(nodeStack)
      /\ \A j \in 1 .. Len(nodeStack) : childIndex[j] = Rank(ChildrenIn(doc, nodeStack[j]), pos + 1)
  BY DEF StackAt
<1>2. nodeStack # <<>> /\ childIndex # <<>>
  BY <1>1, EmptySeq
<1>3. k = Rank(C, next)
  BY <1>1 DEF Last
<1>4. next \in C
  <2>1. ParentIn(doc, next) = n
    BY ParentOnTop
  <2> QED BY <2>1 DEF ChildrenIn
<1>5. C \in SUBSET Int /\ IsFiniteSet(C)
  <2>1. C \subseteq 1 .. Len(doc) /\ IsFiniteSet(1 .. Len(doc))
    BY FS_Interval DEF ChildrenIn
  <2> QED BY <2>1, FS_Subset
<1>6. ExpectedNode = IF k < Len(InOrder(C)) THEN InOrder(C)[k + 1] ELSE NoNode
  BY <1>2, ChildElementsAre DEF ExpectedNode, FindChild
<1> HIDE DEF n, k, C, next
<1>7. Rank(C, next) \in 0 .. Cardinality(C) - 1
  BY <1>4, <1>5, RankBounded
<1>8. /\ Cardinality(C) \in Nat /\ Len(InOrder(C)) = Cardinality(C)
      /\ \A j \in 1 .. Cardinality(C) : InOrder(C)[j] \in C /\ Rank(C, InOrder(C)[j]) = j - 1
  BY <1>5, InOrderLists
<1>9. k \in Nat /\ k < Cardinality(C) /\ k + 1 \in 1 .. Cardinality(C)
  BY <1>3, <1>7, <1>8
<1> DEFINE found == InOrder(C)[k + 1]
<1>10. found \in C /\ Rank(C, found) = (k + 1) - 1
  BY <1>8, <1>9
<1> HIDE DEF found
<1>11. Rank(C, found) = Rank(C, next)
  BY <1>3, <1>9, <1>10
<1>12. found = next
  BY <1>4, <1>5, <1>10, <1>11, RanksDiffer
<1> QED BY <1>6, <1>8, <1>9, <1>12 DEF found, next

(* The stacks after one more event.                                        *)

LEMMA OpenNext ==
  ASSUME NEW d \in Seq(Event), NEW n \in Nat
  PROVE  /\ \A s \in 1 .. n : OpenAt(d, n + 1, s) <=> OpenAt(d, n, s) /\ Level(d, n + 1) >= Level(d, s)
         /\ OpenAt(d, n + 1, n + 1) <=> d[n + 1].kind = "start"
         /\ Level(d, n + 1) = Level(d, n) + Change(d[n + 1])
         /\ Level(d, n) \in Int /\ Level(d, n + 1) \in Int
<1>1. ASSUME NEW s \in 1 .. n
      PROVE  OpenAt(d, n + 1, s) <=> OpenAt(d, n, s) /\ Level(d, n + 1) >= Level(d, s)
  <2>1. s .. n + 1 = (s .. n) \cup {n + 1}
    OBVIOUS
  <2> QED BY <2>1 DEF OpenAt
<1>2. Level(d, n) \in Int /\ Level(d, n + 1) \in Int
  BY LevelType
<1>3. OpenAt(d, n + 1, n + 1) <=> d[n + 1].kind = "start"
  <2>1. \A k \in n + 1 .. n + 1 : k = n + 1
    OBVIOUS
  <2> QED BY <1>2, <2>1 DEF OpenAt
<1>4. Level(d, n + 1) = Level(d, n) + Change(d[n + 1])
  <2>1. n + 1 \in Nat \ {0} /\ (n + 1) - 1 = n
    OBVIOUS
  <2> QED BY <2>1, LevelStep
<1> QED BY <1>1, <1>2, <1>3, <1>4

OneMoreChild(ci) == Append(Front(ci), Last(ci) + 1)

LEMMA OneMoreChildIs ==
  ASSUME NEW ci \in Seq(Nat), Len(ci) > 0
  PROVE  /\ OneMoreChild(ci) \in Seq(Nat) /\ Len(OneMoreChild(ci)) = Len(ci)
         /\ \A k \in 1 .. Len(ci) : OneMoreChild(ci)[k] = IF k = Len(ci) THEN ci[k] + 1 ELSE ci[k]
<1>1. /\ Front(ci) \in Seq(Nat) /\ Len(Front(ci)) = Len(ci) - 1
      /\ \A i \in 1 .. Len(ci) - 1 : Front(ci)[i] = ci[i]
      /\ Last(ci) \in Nat /\ Last(ci) = ci[Len(ci)] /\ Len(ci) \in Nat
  BY FrontIs DEF Last
<1>2. Last(ci) + 1 \in Nat
  BY <1>1
<1>3. /\ OneMoreChild(ci) \in Seq(Nat) /\ Len(OneMoreChild(ci)) = Len(Front(ci)) + 1
      /\ \A i \in 1 .. Len(Front(ci)) : OneMoreChild(ci)[i] = Front(ci)[i]
      /\ OneMoreChild(ci)[Len(Front(ci)) + 1] = Last(ci) + 1
  BY <1>1, <1>2, AppendProperties DEF OneMoreChild
<1>4. Len(OneMoreChild(ci)) = Len(ci)
  BY <1>1, <1>3
<1>5. ASSUME NEW k \in 1 .. Len(ci)
      PROVE  OneMoreChild(ci)[k] = IF k = Len(ci) THEN ci[k] + 1 ELSE ci[k]
  <2>1. CASE k = Len(ci)
    <3>1. Len(Front(ci)) + 1 = k
      BY <1>1, <2>1
    <3> QED BY <1>1, <1>3, <2>1, <3>1
  <2>2. CASE k # Len(ci)
    <3>1. k \in 1 .. Len(ci) - 1 /\ k \in 1 .. Len(Front(ci))
      BY <1>1, <2>2
    <3> QED BY <1>1, <1>3, <2>2, <3>1
  <2> QED BY <2>1, <2>2
<1> QED BY <1>3, <1>4, <1>5

(* What is above, with the facts about the stack that every step needs.    *)
LEMMA StackFacts ==
  ASSUME NEW d, NEW n \in Nat, NEW ns, NEW ci, StackAt(d, n, ns, ci)
  PROVE  /\ ns \in Seq(Nat) /\ Len(ns) \in Nat /\ Len(ns) > 0 /\ Len(ns) = Level(d, n) + 1
         /\ Len(ns) \in 1 .. Len(ns) /\ Last(ns) = ns[Len(ns)]
         /\ ns[1] = 0
         /\ \A k \in 1 .. Len(ns) : ns[k] \in 0 .. n
         /\ ci \in Seq(Nat) /\ Len(ci) = Len(ns)
         /\ \A k \in 1 .. Len(ns) : ci[k] \in Nat
<1>1. /\ ns \in Seq(Nat) /\ Len(ns) > 0 /\ Len(ns) = Level(d, n) + 1
      /\ ns[1] = 0 /\ ci \in Seq(Nat) /\ Len(ci) = Len(ns)
      /\ \A k \in 2 .. Len(ns) : ns[k] \in 1 .. n
  BY DEF StackAt
<1>2. Len(ns) \in Nat /\ Len(ns) \in 1 .. Len(ns)
  BY <1>1
<1>3. \A k \in 1 .. Len(ns) : k = 1 \/ k \in 2 .. Len(ns)
  BY <1>2
<1>4. \A k \in 1 .. Len(ns) : ns[k] \in 0 .. n
  BY <1>1, <1>3
<1>5. \A k \in 1 .. Len(ns) : ci[k] \in Nat
  BY <1>1
<1> QED BY <1>1, <1>2, <1>4, <1>5 DEF Last

(* Only the innermost open element may have got a child.                   *)
LEMMA CountNext ==
  ASSUME NEW d \in Seq(Event), NEW n \in Nat, n < Len(d), NEW ns, NEW ci, StackAt(d, n, ns, ci),
         NEW k \in 1 .. Len(ns)
  PROVE  Rank(ChildrenIn(d, ns[k]), n + 2) =
           IF d[n + 1].kind \in ElementKinds /\ k = Len(ns) THEN ci[k] + 1 ELSE ci[k]
<1> DEFINE S == ChildrenIn(d, ns[k])
<1>1. S \in SUBSET Nat /\ n + 1 \in Nat /\ (n + 1) + 1 = n + 2
  BY DEF ChildrenIn
<1>2. ci[k] = Rank(S, n + 1)
  BY DEF StackAt
<1>3. n + 1 \in S <=> d[n + 1].kind \in ElementKinds /\ k = Len(ns)
  <2>1. n + 1 \in S <=> d[n + 1].kind \in ElementKinds /\ ParentIn(d, n + 1) = ns[k]
    <3>1. n + 1 \in 1 .. Len(d)
      OBVIOUS
    <3> QED BY <3>1 DEF ChildrenIn
  <2>2. ParentIn(d, n + 1) = ns[k] <=> k = Len(ns)
    <3>1. ParentIn(d, n + 1) = Last(ns) /\ \A j \in 1 .. Len(ns) - 1 : ParentIn(d, n + 1) # ns[j]
      BY ParentOnTop
    <3>2. Last(ns) = ns[Len(ns)] /\ Len(ns) \in Nat
      BY StackFacts
    <3>3. \A l \in Nat : k \in 1 .. l => k = l \/ k \in 1 .. l - 1
      OBVIOUS
    <3>4. k = Len(ns) \/ k \in 1 .. Len(ns) - 1
      BY <3>2, <3>3
    <3> QED BY <3>1, <3>2, <3>4
  <2> QED BY <2>1, <2>2
<1> HIDE DEF S
<1>4. /\ n + 1 \in S => Rank(S, (n + 1) + 1) = Rank(S, n + 1) + 1
      /\ n + 1 \notin S => Rank(S, (n + 1) + 1) = Rank(S, n + 1)
  BY <1>1, RankNext
<1> QED BY <1>1, <1>2, <1>3, <1>4 DEF S

(* The children of an element come after it.                               *)
LEMMA NoChildYet ==
  ASSUME NEW d \in Seq(Event), NEW n \in Nat \ {0}
  PROVE  Rank(ChildrenIn(d, n), n + 1) = 0
<1>1. ChildrenIn(d, n) \in SUBSET Nat
  BY DEF ChildrenIn
<1>2. ASSUME NEW i \in ChildrenIn(d, n), i < n + 1
      PROVE  FALSE
  <2>1. i \in 1 .. Len(d) /\ ParentIn(d, i) = n
    BY DEF ChildrenIn
  <2>2. Around(d, i) # {}
    BY <2>1 DEF ParentIn
  <2>3. n \in 1 .. i - 1
    BY <2>1, <2>2, ParentIsInnermost
  <2> QED BY <1>2, <2>1, <2>3
<1> QED BY <1>1, <1>2, RankNone

CountsAt(d, n, ns, ci) ==
  /\ ci \in Seq(Nat) /\ Len(ci) = Len(ns)
  /\ \A k \in 1 .. Len(ns) : ci[k] = Rank(ChildrenIn(d, ns[k]), n + 1)

(* An event that is neither a start tag nor an end tag.                    *)
LEMMA StackStays ==
  ASSUME NEW d \in Seq(Event), NEW n \in Nat, n < Len(d), NEW ns, NEW ci, StackAt(d, n, ns, ci),
         d[n + 1].kind \notin {"start", "end"},
         NEW c, CountsAt(d, n + 1, ns, c)
  PROVE  StackAt(d, n + 1, ns, c)
<1>1. Level(d, n + 1) = Level(d, n) /\ Level(d, n) \in Int
  BY OpenNext DEF Change
<1>2. \A s \in 1 .. n : OpenAt(d, n, s) => Level(d, n) >= Level(d, s)
  BY DEF OpenAt
<1>3. \A s \in 1 .. n + 1 : OpenAt(d, n + 1, s) <=> s \in 1 .. n /\ OpenAt(d, n, s)
  <2>1. \A s \in 1 .. n + 1 : s \in 1 .. n \/ s = n + 1
    OBVIOUS
  <2>2. ~ (n + 1 \in 1 .. n)
    OBVIOUS
  <2> QED BY <1>1, <1>2, <2>1, <2>2, OpenNext
<1>4. 1 .. n \subseteq 1 .. n + 1
  OBVIOUS
<1> QED BY <1>1, <1>3, <1>4 DEF StackAt, CountsAt

LEMMA StackSame ==
  ASSUME NEW d \in Seq(Event), NEW n \in Nat, n < Len(d), NEW ns, NEW ci, StackAt(d, n, ns, ci),
         d[n + 1].kind \notin {"start", "end", "empty", "ref"}
  PROVE  StackAt(d, n + 1, ns, ci)
<1>1. \A k \in 1 .. Len(ns) : Rank(ChildrenIn(d, ns[k]), n + 2) = ci[k]
  BY CountNext DEF ElementKinds
<1>2. (n + 1) + 1 = n + 2
  OBVIOUS
<1>3. CountsAt(d, n + 1, ns, ci)
  BY <1>1, <1>2, StackFacts DEF CountsAt
<1> QED BY <1>3, StackStays

LEMMA StackEmpty ==
  ASSUME NEW d \in Seq(Event), NEW n \in Nat, n < Len(d), NEW ns, NEW ci, StackAt(d, n, ns, ci),
         d[n + 1].kind = "empty"
  PROVE  StackAt(d, n + 1, ns, OneMoreChild(ci))
<1>1. ci \in Seq(Nat) /\ Len(ci) = Len(ns) /\ Len(ci) > 0
  BY StackFacts
<1>2. /\ OneMoreChild(ci) \in Seq(Nat) /\ Len(OneMoreChild(ci)) = Len(ns)
      /\ \A k \in 1 .. Len(ns) : OneMoreChild(ci)[k] = IF k = Len(ns) THEN ci[k] + 1 ELSE ci[k]
  BY <1>1, OneMoreChildIs
<1>3. \A k \in 1 .. Len(ns) : Rank(ChildrenIn(d, ns[k]), n + 2) = OneMoreChild(ci)[k]
  BY <1>2, CountNext DEF ElementKinds
<1>4. (n + 1) + 1 = n + 2
  OBVIOUS
<1>5. CountsAt(d, n + 1, ns, OneMoreChild(ci))
  BY <1>2, <1>3, <1>4 DEF CountsAt
<1> QED BY <1>5, StackStays

(* The open elements, as StackAt has them.                                 *)
OpensAt(d, n, ns) ==
  /\ ns \in Seq(Nat) /\ Len(ns) = Level(d, n) + 1 /\ Len(ns) > 0
  /\ ns[1] = 0
  /\ \A k \in 2 .. Len(ns) : ns[k] \in 1 .. n /\ OpenAt(d, n, ns[k]) /\ Level(d, ns[k]) = k - 1
  /\ \A j, k \in 1 .. Len(ns) : j < k => ns[j] < ns[k]
  /\ \A s \in 1 .. n : OpenAt(d, n, s) => \E k \in 2 .. Len(ns) : ns[k] = s

LEMMA StackIs ==
  ASSUME NEW d, NEW n, NEW ns, NEW ci
  PROVE  StackAt(d, n, ns, ci) <=> OpensAt(d, n, ns) /\ CountsAt(d, n, ns, ci)
BY DEF StackAt, OpensAt, CountsAt

LEMMA OpensPush ==
  ASSUME NEW d \in Seq(Event), NEW n \in Nat, n < Len(d), NEW ns, NEW l \in Nat, Len(ns) = l, OpensAt(d, n, ns),
         d[n + 1].kind = "start"
  PROVE  OpensAt(d, n + 1, Append(ns, n + 1))
<1> DEFINE m == Append(ns, n + 1)
<1>1. /\ ns \in Seq(Nat) /\ l = Level(d, n) + 1 /\ l > 0 /\ ns[1] = 0
      /\ \A k \in 2 .. l : ns[k] \in 1 .. n /\ OpenAt(d, n, ns[k]) /\ Level(d, ns[k]) = k - 1
      /\ \A j, k \in 1 .. l : j < k => ns[j] < ns[k]
      /\ \A s \in 1 .. n : OpenAt(d, n, s) => \E k \in 2 .. l : ns[k] = s
  BY DEF OpensAt
<1>2. /\ m \in Seq(Nat) /\ Len(m) = l + 1
      /\ \A k \in 1 .. l : m[k] = ns[k]
      /\ m[l + 1] = n + 1
  BY <1>1, AppendProperties
<1>3. Level(d, n + 1) = Level(d, n) + 1 /\ Level(d, n) \in Int
  BY OpenNext DEF Change
<1>4. ASSUME NEW s \in 1 .. n, OpenAt(d, n, s)
      PROVE  OpenAt(d, n + 1, s)
  <2>1. Level(d, n) >= Level(d, s) /\ Level(d, s) \in Int
    BY <1>4, LevelType DEF OpenAt
  <2> QED BY <1>3, <1>4, <2>1, OpenNext
<1> HIDE DEF m
<1>5. ASSUME NEW k \in 2 .. l + 1
      PROVE  m[k] \in 1 .. n + 1 /\ OpenAt(d, n + 1, m[k]) /\ Level(d, m[k]) = k - 1
  <2>1. CASE k \in 2 .. l
    <3>1. m[k] = ns[k] /\ k \in 1 .. l
      BY <1>2, <2>1
    <3>2. ns[k] \in 1 .. n /\ OpenAt(d, n, ns[k]) /\ Level(d, ns[k]) = k - 1
      BY <1>1, <2>1
    <3>3. \A i \in 1 .. n : i \in 1 .. n + 1
      OBVIOUS
    <3> QED BY <1>4, <3>1, <3>2, <3>3
  <2>2. CASE k = l + 1
    <3>1. m[k] = n + 1 /\ n + 1 \in 1 .. n + 1
      BY <1>2, <2>2
    <3>2. Level(d, n + 1) = k - 1
      BY <1>1, <1>3, <2>2
    <3> QED BY <3>1, <3>2, OpenNext
  <2> QED BY <2>1, <2>2
<1>6. ASSUME NEW j \in 1 .. l + 1, NEW k \in 1 .. l + 1, j < k
      PROVE  m[j] < m[k]
  <2>1. j \in 1 .. l /\ m[j] = ns[j]
    BY <1>2, <1>6
  <2>2. CASE k \in 1 .. l
    BY <1>1, <1>2, <1>6, <2>1, <2>2
  <2>3. CASE k = l + 1
    <3>1. j = 1 \/ j \in 2 .. l
      BY <2>1
    <3>2. ns[j] \in 0 .. n
      BY <1>1, <3>1
    <3> QED BY <1>2, <2>1, <2>3, <3>2
  <2> QED BY <2>2, <2>3
<1>7. ASSUME NEW s \in 1 .. n + 1, OpenAt(d, n + 1, s)
      PROVE  \E k \in 2 .. l + 1 : m[k] = s
  <2>1. CASE s = n + 1
    <3>1. l + 1 \in 2 .. l + 1
      BY <1>1
    <3> QED BY <1>2, <2>1, <3>1
  <2>2. CASE s \in 1 .. n
    <3>1. PICK k \in 2 .. l : ns[k] = s
      BY <1>1, <1>7, <2>2, OpenNext
    <3>2. k \in 1 .. l /\ k \in 2 .. l + 1
      BY <3>1
    <3> QED BY <1>2, <3>1, <3>2
  <2> QED BY <2>1, <2>2
<1>8. m[1] = 0
  <2>1. 1 \in 1 .. l
    BY <1>1
  <2> QED BY <1>1, <1>2, <2>1
<1>9. Len(m) = Level(d, n + 1) + 1 /\ Len(m) > 0
  BY <1>1, <1>2, <1>3
<1>10. OpensAt(d, n + 1, m)
  BY <1>2, <1>5, <1>6, <1>7, <1>8, <1>9 DEF OpensAt
<1> QED BY <1>10 DEF m

LEMMA OpensPop ==
  ASSUME NEW d \in Seq(Event), NEW n \in Nat, n < Len(d), NEW ns, NEW l \in Nat, Len(ns) = l + 1,
         OpensAt(d, n, ns), d[n + 1].kind = "end", Level(d, n) > 0
  PROVE  OpensAt(d, n + 1, Front(ns)) /\ l > 0
<1> DEFINE m == Front(ns)
<1>1. /\ ns \in Seq(Nat) /\ l = Level(d, n) /\ ns[1] = 0
      /\ \A k \in 2 .. l + 1 : ns[k] \in 1 .. n /\ OpenAt(d, n, ns[k]) /\ Level(d, ns[k]) = k - 1
      /\ \A j, k \in 1 .. l + 1 : j < k => ns[j] < ns[k]
      /\ \A s \in 1 .. n : OpenAt(d, n, s) => \E k \in 2 .. l + 1 : ns[k] = s
  BY LevelType DEF OpensAt
<1>2. l > 0
  BY <1>1
<1>3. /\ m \in Seq(Nat) /\ Len(m) = l
      /\ \A k \in 1 .. l : m[k] = ns[k]
  <2>1. Len(ns) > 0 /\ Len(ns) - 1 = l
    BY <1>1
  <2> QED BY <1>1, <2>1, FrontIs
<1>4. Level(d, n + 1) = l - 1
  BY <1>1, OpenNext DEF Change
<1> HIDE DEF m
<1>5. ASSUME NEW k \in 2 .. l
      PROVE  m[k] \in 1 .. n + 1 /\ OpenAt(d, n + 1, m[k]) /\ Level(d, m[k]) = k - 1
  <2>1. m[k] = ns[k] /\ k \in 2 .. l + 1
    BY <1>3
  <2>2. ns[k] \in 1 .. n /\ OpenAt(d, n, ns[k]) /\ Level(d, ns[k]) = k - 1
    BY <1>1, <2>1
  <2>3. Level(d, n + 1) >= Level(d, ns[k])
    BY <1>4, <2>2
  <2>4. \A i \in 1 .. n : i \in 1 .. n + 1
    OBVIOUS
  <2> QED BY <2>1, <2>2, <2>3, <2>4, OpenNext
<1>6. \A j, k \in 1 .. l : j < k => m[j] < m[k]
  <2>1. \A j \in 1 .. l : j \in 1 .. l + 1
    OBVIOUS
  <2> QED BY <1>1, <1>3, <2>1
<1>7. ASSUME NEW s \in 1 .. n + 1, OpenAt(d, n + 1, s)
      PROVE  \E k \in 2 .. l : m[k] = s
  <2>1. s \in 1 .. n
    <3>1. s # n + 1
      BY <1>7, OpenNext
    <3> QED BY <3>1
  <2>2. OpenAt(d, n, s) /\ Level(d, n + 1) >= Level(d, s)
    BY <1>7, <2>1, OpenNext
  <2>3. PICK k \in 2 .. l + 1 : ns[k] = s
    BY <1>1, <2>1, <2>2
  <2>4. l - 1 >= k - 1
    BY <1>1, <1>4, <2>2, <2>3
  <2>5. k \in 2 .. l /\ k \in 1 .. l
    BY <2>4
  <2> QED BY <1>3, <2>3, <2>5
<1>8. m[1] = 0
  <2>1. 1 \in 1 .. l
    BY <1>2
  <2> QED BY <1>1, <1>3, <2>1
<1>9. Len(m) = Level(d, n + 1) + 1 /\ Len(m) > 0
  BY <1>2, <1>3, <1>4
<1>10. OpensAt(d, n + 1, m)
  BY <1>3, <1>5, <1>6, <1>7, <1>8, <1>9 DEF OpensAt
<1> QED BY <1>2, <1>10 DEF m

LEMMA StackPush ==
  ASSUME NEW d \in Seq(Event), NEW n \in Nat, n < Len(d), NEW ns, NEW ci, StackAt(d, n, ns, ci),
         d[n + 1].kind = "start"
  PROVE  StackAt(d, n + 1, Append(ns, n + 1), Append(OneMoreChild(ci), 0))
<1> DEFINE m == Append(ns, n + 1)
           more == OneMoreChild(ci)
           c == Append(more, 0)
           l == Len(ns)
<1>1. ns \in Seq(Nat) /\ l \in Nat /\ ci \in Seq(Nat) /\ Len(ci) = l /\ Len(ci) > 0
  BY StackFacts
<1>2. /\ more \in Seq(Nat) /\ Len(more) = l
      /\ \A k \in 1 .. l : more[k] = IF k = l THEN ci[k] + 1 ELSE ci[k]
  BY <1>1, OneMoreChildIs
<1>3. \A k \in 1 .. l : Rank(ChildrenIn(d, ns[k]), n + 2) = more[k]
  BY <1>2, CountNext DEF ElementKinds
<1> HIDE DEF more
<1>4. /\ c \in Seq(Nat) /\ Len(c) = l + 1 /\ (\A k \in 1 .. l : c[k] = more[k]) /\ c[l + 1] = 0
  BY <1>1, <1>2, AppendProperties
<1>5. Len(m) = l + 1 /\ (\A k \in 1 .. l : m[k] = ns[k]) /\ m[l + 1] = n + 1
  BY <1>1, AppendProperties
<1>6. OpensAt(d, n + 1, m)
  BY <1>1, OpensPush, StackIs
<1> HIDE DEF c, m, l
<1>7. ASSUME NEW k \in 1 .. l + 1
      PROVE  c[k] = Rank(ChildrenIn(d, m[k]), (n + 1) + 1)
  <2>1. (n + 1) + 1 = n + 2
    OBVIOUS
  <2>2. CASE k \in 1 .. l
    BY <1>3, <1>4, <1>5, <2>1, <2>2
  <2>3. CASE k = l + 1
    <3>1. n + 1 \in Nat \ {0}
      OBVIOUS
    <3>2. Rank(ChildrenIn(d, n + 1), (n + 1) + 1) = 0
      BY <3>1, NoChildYet
    <3> QED BY <1>4, <1>5, <2>3, <3>2
  <2> QED BY <1>1, <2>2, <2>3
<1>8. CountsAt(d, n + 1, m, c)
  BY <1>4, <1>5, <1>7 DEF CountsAt
<1> QED BY <1>6, <1>8, StackIs DEF m, c, more

LEMMA StackPop ==
  ASSUME NEW d \in Seq(Event), NEW n \in Nat, n < Len(d), NEW ns, NEW ci, StackAt(d, n, ns, ci),
         d[n + 1].kind = "end", Level(d, n) > 0
  PROVE  StackAt(d, n + 1, Front(ns), Front(ci))
<1> DEFINE l == Len(ns) - 1
<1>1. ns \in Seq(Nat) /\ Len(ns) > 0 /\ Len(ns) \in Nat /\ ci \in Seq(Nat) /\ Len(ci) = Len(ns)
  BY StackFacts
<1>2. l \in Nat /\ Len(ns) = l + 1
  BY <1>1
<1>3. OpensAt(d, n + 1, Front(ns))
  BY <1>2, OpensPop, StackIs
<1>4. /\ Len(Front(ns)) = l /\ \A k \in 1 .. l : Front(ns)[k] = ns[k]
  BY <1>1, FrontIs
<1>5. /\ Front(ci) \in Seq(Nat) /\ Len(Front(ci)) = l /\ \A k \in 1 .. l : Front(ci)[k] = ci[k]
  BY <1>1, FrontIs
<1>6. \A k \in 1 .. Len(ns) : Rank(ChildrenIn(d, ns[k]), n + 2) = ci[k]
  BY CountNext DEF ElementKinds
<1>7. (n + 1) + 1 = n + 2 /\ \A k \in 1 .. l : k \in 1 .. Len(ns)
  BY <1>2
<1> HIDE DEF l
<1>8. CountsAt(d, n + 1, Front(ns), Front(ci))
  BY <1>4, <1>5, <1>6, <1>7 DEF CountsAt
<1> QED BY <1>3, <1>8, StackIs

-------------------------------------------------------------------------------
(* The second pass is a rewrite, by one handler, of the document that it   *)
(* has read so far.                                                        *)

seen == SubSeq(doc, 1, pos)

(* The open elements without the document node.                            *)
Outer(ns) == [k \in 1 .. Len(ns) - 1 |-> ns[k + 1]]

asPath == Outer(nodeStack)

asOpen == [handler |-> IF InMatch THEN 1 ELSE 0, held |-> match.held, depth |-> match.depth]

asCalls == [i \in 1 .. Len(calls) |-> [handler |-> 1, held |-> calls[i]]]

(* Writing as one goes: what was written, and the part about to be copied. *)
asEchoed == IF InMatch THEN output ELSE output \o Slice(written, pos)

R == INSTANCE RewriteProofs WITH
       NumHandlers <- 1, Registrations <- {}, doc <- seen, path <- asPath, outcome <- "running",
       open <- asOpen, copied <- output, echoed <- asEchoed, calls <- asCalls

LEMMA RewriteAssumption == R!EventsAssumption
BY EventsAssumption DEF EventsAssumption, R!EventsAssumption, R!Handlers

(* What is collected has its type.                                         *)
FormOK ==
  /\ match = [held |-> match.held, depth |-> match.depth]
  /\ calls \in Seq(Seq(Nat))

(* The second pass, between two events.                                    *)
Rereading ==
  /\ WellRead(doc) /\ NoRefs(doc)
  /\ pos \in 0 .. Len(doc)
  /\ StackAt(doc, pos, nodeStack, childIndex)
  /\ FormOK
  /\ R!RInv

(* It reads the next event.                                                *)
ReadsNext == Rereading /\ pos < Len(doc) /\ doc' = doc /\ pos' = pos + 1

LEMMA SeenIs ==
  ASSUME Rereading
  PROVE  /\ IsPrefix(seen, doc, pos) /\ doc \in Seq(Event) /\ pos \in Nat /\ pos <= Len(doc) /\ Len(doc) \in Nat
         /\ seen \in Seq(Event) /\ Len(seen) = pos
         /\ \A i \in 1 .. pos : seen[i] = doc[i]
         /\ R!Here = pos + 1
<1>1. doc \in Seq(Event) /\ pos \in Nat /\ pos <= Len(doc) /\ Len(doc) \in Nat /\ IsPrefix(seen, doc, pos)
  BY DEF Rereading, WellRead, IsPrefix, seen
<1>2. /\ seen \in Seq(Event) /\ Len(seen) = pos
      /\ \A i \in 1 .. pos : seen[i] = doc[i]
  BY <1>1, PrefixLevels
<1> QED BY <1>1, <1>2 DEF R!Here

LEMMA SliceIs == \A m, n : R!Slice(m, n) = Slice(m, n)
BY DEF R!Slice, Slice, R!Input, Input

LEMMA RewriteState ==
  ASSUME Rereading
  PROVE  /\ InMatch <=> R!IsOpen
         /\ ~ InMatch => match = NotInMatch /\ asOpen = R!NoMatch
         /\ InMatch => asOpen.handler = 1 /\ match.depth > 0 /\ match.held # <<>>
         /\ match.held \in Seq(Nat) /\ match.depth \in Nat
         /\ output \in Seq(R!Piece) /\ asEchoed \in Seq(R!Piece)
         /\ written \in Nat /\ written <= pos
<1>1. R!TypeOK /\ R!BuilderInUse
  BY DEF Rereading, R!RInv, R!IInv
<1>2. Len(seen) = pos
  BY SeenIs
<1>3. /\ asOpen.held \in Seq(Nat) /\ asOpen.depth \in Nat
      /\ output \in Seq(R!Piece) /\ asEchoed \in Seq(R!Piece)
      /\ written \in 0 .. pos
  BY <1>1, <1>2 DEF R!TypeOK, R!IsMatch
<1>4. asOpen.held = match.held /\ asOpen.depth = match.depth /\ asOpen.handler = IF InMatch THEN 1 ELSE 0
  BY DEF asOpen
<1>5. InMatch => R!IsOpen
  BY <1>4 DEF R!IsOpen, R!NoMatch
<1>6. ~ InMatch => match = NotInMatch /\ asOpen = R!NoMatch
  BY DEF InMatch, NotInMatch, asOpen, R!NoMatch
<1>7. InMatch <=> R!IsOpen
  BY <1>5, <1>6 DEF R!IsOpen
<1>8. InMatch => match.depth > 0 /\ match.held # <<>>
  BY <1>1, <1>4, <1>5 DEF R!BuilderInUse
<1>9. written \in Nat /\ written <= pos
  BY <1>2, <1>3, SeenIs
<1> QED BY <1>3, <1>4, <1>6, <1>7, <1>8, <1>9

LEMMA SeenGrows ==
  ASSUME ReadsNext
  PROVE  /\ seen' = Append(seen, doc[pos + 1])
         /\ doc[pos + 1] \in Event /\ doc[pos + 1] \in R!Event
         /\ Follows(doc, pos + 1)
         /\ doc[pos + 1].kind # "ref"
         /\ pos + 1 \in 1 .. Len(doc)
<1>1. doc \in Seq(Event) /\ pos \in Nat /\ pos < Len(doc) /\ Len(doc) \in Nat
  BY SeenIs DEF ReadsNext
<1>2. pos + 1 \in 1 .. Len(doc) /\ doc[pos + 1] \in Event
  BY <1>1
<1>3. Follows(doc, pos + 1) /\ doc[pos + 1].kind # "ref"
  BY <1>2 DEF ReadsNext, Rereading, WellRead, NoRefs
<1>4. seen' = Append(seen, doc[pos + 1])
  <2>1. seen' = SubSeq(doc, 1, pos + 1)
    BY DEF seen, ReadsNext
  <2>2. IsPrefix(seen', doc, pos + 1)
    BY <1>1, <2>1 DEF IsPrefix
  <2>3. seen' \in Seq(Event) /\ Len(seen') = pos + 1 /\ \A i \in 1 .. pos + 1 : seen'[i] = doc[i]
    BY <1>1, <2>2, PrefixLevels
  <2>4. seen \in Seq(Event) /\ Len(seen) = pos /\ \A i \in 1 .. pos : seen[i] = doc[i]
    BY SeenIs DEF ReadsNext
  <2>5. /\ Append(seen, doc[pos + 1]) \in Seq(Event) /\ Len(Append(seen, doc[pos + 1])) = pos + 1
        /\ \A i \in 1 .. pos : Append(seen, doc[pos + 1])[i] = seen[i]
        /\ Append(seen, doc[pos + 1])[pos + 1] = doc[pos + 1]
    BY <1>2, <2>4, AppendProperties
  <2>6. \A i \in 1 .. pos + 1 : Append(seen, doc[pos + 1])[i] = seen'[i]
    <3>1. \A i \in 1 .. pos + 1 : i \in 1 .. pos \/ i = pos + 1
      BY <1>1
    <3> QED BY <2>3, <2>4, <2>5, <3>1
  <2> QED BY <2>3, <2>5, <2>6, SeqEqual
<1>5. doc[pos + 1] \in R!Event
  BY <1>2, <1>3 DEF Event, R!Event, R!Handlers, Follows
<1> QED BY <1>2, <1>3, <1>4, <1>5

LEMMA OuterIs ==
  ASSUME NEW ns \in Seq(Nat), Len(ns) > 0
  PROVE  /\ Outer(ns) \in Seq(Nat) /\ Len(Outer(ns)) = Len(ns) - 1 /\ Len(ns) \in Nat
         /\ \A k \in 1 .. Len(ns) - 1 : Outer(ns)[k] = ns[k + 1]
<1>1. Len(ns) - 1 \in Nat /\ Len(ns) \in Nat
  OBVIOUS
<1>2. \A k \in 1 .. Len(ns) - 1 : ns[k + 1] \in Nat
  OBVIOUS
<1>3. Outer(ns) \in [1 .. Len(ns) - 1 -> Nat]
  BY <1>2 DEF Outer
<1> QED BY <1>1, <1>3 DEF Outer

LEMMA OuterPush ==
  ASSUME NEW ns \in Seq(Nat), Len(ns) > 0, NEW x \in Nat
  PROVE  Outer(Append(ns, x)) = Append(Outer(ns), x)
<1> DEFINE l == Len(ns)
           m == Append(ns, x)
           a == Append(Outer(ns), x)
<1>1. l \in Nat /\ l > 0 /\ Outer(ns) \in Seq(Nat) /\ Len(Outer(ns)) = l - 1
      /\ \A k \in 1 .. l - 1 : Outer(ns)[k] = ns[k + 1]
  BY OuterIs
<1>2. m \in Seq(Nat) /\ Len(m) = l + 1 /\ (\A k \in 1 .. l : m[k] = ns[k]) /\ m[l + 1] = x
  BY AppendProperties
<1>3. /\ a \in Seq(Nat) /\ Len(a) = (l - 1) + 1
      /\ \A k \in 1 .. l - 1 : a[k] = Outer(ns)[k]
      /\ a[(l - 1) + 1] = x
  BY <1>1, AppendProperties
<1> HIDE DEF l, m, a
<1>4. Outer(m) \in Seq(Nat) /\ Len(Outer(m)) = l /\ \A k \in 1 .. l : Outer(m)[k] = m[k + 1]
  <2>1. (l + 1) - 1 = l /\ Len(m) > 0
    BY <1>1, <1>2
  <2> QED BY <1>2, <2>1, OuterIs
<1>5. \A k \in 1 .. l : Outer(m)[k] = a[k]
  <2> SUFFICES ASSUME NEW k \in 1 .. l PROVE Outer(m)[k] = a[k]
    OBVIOUS
  <2>1. CASE k = l
    BY <1>1, <1>2, <1>3, <1>4, <2>1
  <2>2. CASE k \in 1 .. l - 1
    <3>1. k + 1 \in 1 .. l
      BY <1>1, <2>2
    <3> QED BY <1>1, <1>2, <1>3, <1>4, <2>2, <3>1
  <2> QED BY <1>1, <2>1, <2>2
<1>6. Outer(m) = a
  <2>1. Len(a) = l
    BY <1>1, <1>3
  <2> QED BY <1>3, <1>4, <1>5, <2>1, SeqEqual
<1> QED BY <1>6 DEF m, a

LEMMA OuterPop ==
  ASSUME NEW ns \in Seq(Nat), Len(ns) > 1
  PROVE  Outer(Front(ns)) = SubSeq(Outer(ns), 1, Len(Outer(ns)) - 1)
<1> DEFINE l == Len(ns) - 2
           o == Outer(ns)
           m == Front(ns)
           a == Front(o)
<1>1. /\ l \in Nat /\ Len(ns) = l + 2 /\ Len(ns) > 0 /\ o \in Seq(Nat) /\ Len(o) = l + 1
      /\ \A k \in 1 .. l + 1 : o[k] = ns[k + 1]
  BY OuterIs
<1> HIDE DEF l, o
<1>2. m \in Seq(Nat) /\ Len(m) = l + 1 /\ \A k \in 1 .. l + 1 : m[k] = ns[k]
  <2>1. Len(ns) - 1 = l + 1
    BY <1>1
  <2>2. /\ Front(ns) \in Seq(Nat) /\ Len(Front(ns)) = Len(ns) - 1
        /\ \A k \in 1 .. Len(ns) - 1 : Front(ns)[k] = ns[k]
    BY <1>1, FrontIs
  <2> QED BY <2>1, <2>2
<1>3. a \in Seq(Nat) /\ Len(a) = l /\ \A k \in 1 .. l : a[k] = o[k]
  <2>1. Len(o) - 1 = l /\ Len(o) > 0
    BY <1>1
  <2>2. /\ Front(o) \in Seq(Nat) /\ Len(Front(o)) = Len(o) - 1
        /\ \A k \in 1 .. Len(o) - 1 : Front(o)[k] = o[k]
    BY <1>1, <2>1, FrontIs
  <2> QED BY <2>1, <2>2
<1> HIDE DEF m, a
<1>4. Outer(m) \in Seq(Nat) /\ Len(Outer(m)) = l /\ \A k \in 1 .. l : Outer(m)[k] = m[k + 1]
  <2>1. (l + 1) - 1 = l /\ Len(m) > 0
    BY <1>1, <1>2
  <2> QED BY <1>2, <2>1, OuterIs
<1>5. \A k \in 1 .. l : Outer(m)[k] = a[k]
  <2> SUFFICES ASSUME NEW k \in 1 .. l PROVE Outer(m)[k] = a[k]
    OBVIOUS
  <2>1. k + 1 \in 1 .. l + 1 /\ k \in 1 .. l + 1
    BY <1>1
  <2> QED BY <1>1, <1>2, <1>3, <1>4, <2>1
<1>6. Outer(m) = a
  BY <1>3, <1>4, <1>5, SeqEqual
<1> QED BY <1>6 DEF m, a, o, Front

-------------------------------------------------------------------------------
(* Each event of the second pass is an event of the rewrite.               *)

(* What the stacks become.                                                 *)
StacksMove ==
  LET e == doc[pos + 1]
  IN  /\ nodeStack' = CASE e.kind = "start" -> Append(nodeStack, pos + 1)
                        [] e.kind = "end" -> Front(nodeStack)
                        [] OTHER -> nodeStack
      /\ childIndex' = CASE e.kind = "start" -> Append(OneMoreChild(childIndex), 0)
                         [] e.kind = "empty" -> OneMoreChild(childIndex)
                         [] e.kind = "end" -> Front(childIndex)
                         [] OTHER -> childIndex

(* The reader returns the same event as before.                            *)
LEMMA ReadsSame ==
  ASSUME ReadsNext, StacksMove
  PROVE  R!Read(doc[pos + 1])
<1> DEFINE e == doc[pos + 1]
<1>1. /\ doc \in Seq(Event) /\ pos \in Nat /\ pos < Len(doc) /\ Len(doc) \in Nat /\ R!Here = pos + 1
      /\ seen \in Seq(Event) /\ Len(seen) = pos /\ \A i \in 1 .. pos : seen[i] = doc[i]
  BY SeenIs DEF ReadsNext
<1>2. seen' = Append(seen, e) /\ Follows(doc, pos + 1) /\ e \in Event
  BY SeenGrows
<1>3. /\ nodeStack \in Seq(Nat) /\ Len(nodeStack) \in Nat /\ Len(nodeStack) > 0
      /\ Len(nodeStack) = Level(doc, pos) + 1 /\ Level(doc, pos) \in Int
  BY <1>1, StackFacts, LevelType DEF ReadsNext, Rereading
<1>4. asPath \in Seq(Nat) /\ Len(asPath) = Level(doc, pos)
  BY <1>3, OuterIs DEF asPath
<1>5. asPath # <<>> <=> Level(doc, pos) > 0
  BY <1>3, <1>4, EmptySeq
<1>6. (pos + 1) - 1 = pos
  BY <1>1
<1>7. R!CanFollow(e)
  <2>1. Len(seen) < MaxEvents
    BY <1>1, EventsAssumption DEF ReadsNext, Rereading, WellRead
  <2>2. e.kind \in {"end", "text", "ref"} => asPath # <<>>
    BY <1>2, <1>5, <1>6 DEF Follows
  <2>3. e.kind \in {"start", "empty"} => asPath # <<>> \/ ~ R!HasRoot(seen)
    <3>1. e.kind \in {"start", "empty"} =>
            Level(doc, pos) > 0 \/ \A j \in 1 .. pos : doc[j].kind \notin {"start", "empty"}
      BY <1>2, <1>6 DEF Follows
    <3> QED BY <1>1, <1>5, <3>1 DEF R!HasRoot
  <2>4. e.kind = "other" => seen = <<>>
    <3>1. e.kind = "other" => pos = 0
      BY <1>1, <1>2 DEF Follows
    <3> QED BY <1>1, <3>1, EmptySeq
  <2> QED BY <2>1, <2>2, <2>3, <2>4 DEF R!CanFollow
<1>8. asPath' = CASE e.kind = "start" -> Append(asPath, R!Here)
                  [] e.kind = "end" -> SubSeq(asPath, 1, Len(asPath) - 1)
                  [] OTHER -> asPath
  <2>1. CASE e.kind = "start"
    <3>1. nodeStack' = Append(nodeStack, pos + 1)
      BY <2>1 DEF StacksMove
    <3>2. asPath' = Append(asPath, pos + 1)
      BY <1>1, <1>3, <3>1, OuterPush DEF asPath
    <3> QED BY <1>1, <2>1, <3>2
  <2>2. CASE e.kind = "end"
    <3>1. nodeStack' = Front(nodeStack)
      BY <2>2 DEF StacksMove
    <3>2. Level(doc, pos) > 0
      BY <1>2, <1>6, <2>2 DEF Follows
    <3>3. asPath' = SubSeq(asPath, 1, Len(asPath) - 1)
      BY <1>3, <3>1, <3>2, OuterPop DEF asPath
    <3> QED BY <2>2, <3>3
  <2>3. CASE e.kind \notin {"start", "end"}
    <3>1. nodeStack' = nodeStack
      BY <2>3 DEF StacksMove
    <3> QED BY <2>3, <3>1 DEF asPath
  <2> QED BY <2>1, <2>2, <2>3
<1> QED BY <1>2, <1>7, <1>8 DEF R!Read

LEMMA StacksFollow ==
  ASSUME ReadsNext, StacksMove
  PROVE  StackAt(doc, pos + 1, nodeStack', childIndex')
<1> DEFINE e == doc[pos + 1]
<1>1. /\ doc \in Seq(Event) /\ pos \in Nat /\ pos < Len(doc)
      /\ StackAt(doc, pos, nodeStack, childIndex)
  BY SeenIs DEF ReadsNext, Rereading
<1>2. Follows(doc, pos + 1) /\ e \in Event /\ e.kind # "ref"
  BY SeenGrows
<1>3. CASE e.kind = "start"
  BY <1>1, <1>3, StackPush DEF StacksMove
<1>4. CASE e.kind = "end"
  <2>1. Level(doc, pos) > 0
    <3>1. (pos + 1) - 1 = pos
      BY <1>1
    <3> QED BY <1>2, <1>4, <3>1 DEF Follows
  <2>2. StackAt(doc, pos + 1, Front(nodeStack), Front(childIndex))
    BY <1>1, <1>4, <2>1, StackPop
  <2> QED BY <1>4, <2>2 DEF StacksMove
<1>5. CASE e.kind = "empty"
  BY <1>1, <1>5, StackEmpty DEF StacksMove
<1>6. CASE e.kind \notin {"start", "end", "empty"}
  BY <1>1, <1>2, <1>6, StackSame DEF StacksMove
<1> QED BY <1>3, <1>4, <1>5, <1>6

(* The element that is read is found in the tree, and is its own node.     *)
LEMMA NodeFound ==
  ASSUME ReadsNext, doc[pos + 1].kind \in {"start", "empty"}
  PROVE  /\ ExpectedNode = pos + 1 /\ ExpectedNode # NoNode
         /\ ExpectedNode \in MatchingNodes <=> doc[pos + 1].by # {}
         /\ doc[pos + 1].by # {} => doc[pos + 1].by = {1} /\ R!FirstMatch(doc[pos + 1]) = 1
<1> DEFINE e == doc[pos + 1]
<1>1. /\ doc \in Seq(Event) /\ pos \in Nat /\ pos < Len(doc)
      /\ StackAt(doc, pos, nodeStack, childIndex)
  BY SeenIs DEF ReadsNext, Rereading
<1>2. ExpectedNode = pos + 1
  <2>1. e.kind \in ElementKinds
    BY DEF ElementKinds
  <2> QED BY <1>1, <2>1, ExpectedIsNext
<1>3. pos + 1 # NoNode
  BY <1>1 DEF NoNode
<1>4. pos + 1 \in 1 .. Len(doc) /\ e.by \subseteq {1}
  BY SeenGrows DEF Follows
<1>5. pos + 1 \in MatchingNodes <=> e.by # {}
  BY <1>4 DEF MatchingNodes, IsNode, ElementKinds
<1>6. e.by # {} => e.by = {1}
  BY <1>4
<1>7. e.by = {1} => R!FirstMatch(e) = 1
  <2>1. ASSUME e.by = {1}
        PROVE  R!FirstMatch(e) = CHOOSE h \in {1} : \A g \in {1} : h <= g
    BY <2>1 DEF R!FirstMatch
  <2>2. (CHOOSE h \in {1} : \A g \in {1} : h <= g) = 1
    OBVIOUS
  <2> QED BY <2>1, <2>2
<1> QED BY <1>2, <1>3, <1>5, <1>6, <1>7

LEMMA MovesStacks ==
  ASSUME ReadsNext, StartAgain \/ EmptyAgain \/ EndAgain \/ ContentAgain
  PROVE  StacksMove
<1> DEFINE e == doc[pos + 1]
<1>1. nodeStack # <<>> /\ childIndex # <<>>
  <2>1. Len(nodeStack) > 0 /\ Len(childIndex) = Len(nodeStack) /\ nodeStack \in Seq(Nat) /\ childIndex \in Seq(Nat)
    BY SeenIs, StackFacts DEF ReadsNext, Rereading
  <2> QED BY <2>1, EmptySeq
<1>2. Counted = OneMoreChild(childIndex)
  BY <1>1 DEF Counted, OneMoreChild
<1>3. CASE StartAgain
  <2>1. e.kind = "start"
    BY <1>3 DEF StartAgain
  <2>2. ExpectedNode = pos + 1 /\ ExpectedNode # NoNode
    BY <2>1, NodeFound
  <2> QED BY <1>2, <1>3, <2>1, <2>2 DEF StartAgain, StacksMove
<1>4. CASE EmptyAgain
  BY <1>2, <1>4 DEF EmptyAgain, StacksMove
<1>5. CASE EndAgain
  BY <1>1, <1>5 DEF EndAgain, StacksMove
<1>6. CASE ContentAgain
  BY <1>6 DEF ContentAgain, StacksMove
<1> QED BY <1>3, <1>4, <1>5, <1>6

LEMMA HeldIs ==
  ASSUME NEW m, NEW x, NEW y, m = [handler |-> m.handler, held |-> m.held, depth |-> m.depth]
  PROVE  [m EXCEPT !.held = x, !.depth = y] = [handler |-> m.handler, held |-> x, depth |-> y]
<1> DEFINE n == [m EXCEPT !.held = x, !.depth = y]
<1>1. n = [m EXCEPT !.held = x, !.depth = y]
  OBVIOUS
<1> HIDE DEF n
<1>2. n = [handler |-> m.handler, held |-> x, depth |-> y]
  BY <1>1
<1> QED BY <1>1, <1>2

(* An event of the matched subtree.                                        *)
LEMMA HoldIs ==
  ASSUME ReadsNext, InMatch, NEW d \in Nat \ {0}, Hold(d)
  PROVE  R!Hold(d) /\ FormOK'
<1>1. match = [held |-> match.held, depth |-> match.depth] /\ calls \in Seq(Seq(Nat))
  BY DEF ReadsNext, Rereading, FormOK
<1>2. match' = [held |-> Append(match.held, pos + 1), depth |-> d]
  BY <1>1 DEF Hold
<1>3. InMatch'
  BY <1>2 DEF InMatch, NotInMatch
<1>4. R!Here = pos + 1
  BY SeenIs DEF ReadsNext
<1>5. asOpen' = [handler |-> 1, held |-> Append(match.held, pos + 1), depth |-> d]
  BY <1>2, <1>3 DEF asOpen
<1>6. asOpen' = [asOpen EXCEPT !.held = Append(@, R!Here), !.depth = d]
  <2>1. asOpen = [handler |-> 1, held |-> match.held, depth |-> match.depth]
    BY DEF asOpen
  <2>2. asOpen.handler = 1 /\ asOpen.held = match.held
    BY <2>1
  <2>3. asOpen = [handler |-> asOpen.handler, held |-> asOpen.held, depth |-> asOpen.depth]
    BY <2>1
  <2>4. [asOpen EXCEPT !.held = Append(@, R!Here), !.depth = d]
          = [handler |-> asOpen.handler, held |-> Append(asOpen.held, R!Here), depth |-> d]
    BY <2>3, HeldIs
  <2> QED BY <1>4, <1>5, <2>2, <2>4
<1>7. UNCHANGED <<written, output, asEchoed, asCalls, removed>> /\ calls' = calls
  BY <1>3 DEF Hold, asEchoed, asCalls
<1>8. FormOK'
  <2>1. match' = [held |-> match'.held, depth |-> match'.depth]
    BY <1>2
  <2> QED BY <1>1, <1>7, <2>1 DEF FormOK
<1> QED BY <1>6, <1>7, <1>8 DEF R!Hold

(* An event outside the matches.                                           *)
LEMMA SkipIs ==
  ASSUME ReadsNext, ~ InMatch, Skip
  PROVE  R!Unmatched /\ FormOK'
<1>1. /\ output \in Seq(R!Piece) /\ written \in Nat /\ written <= pos /\ pos \in Nat /\ R!Here = pos + 1
  BY RewriteState, SeenIs DEF ReadsNext
<1>2. /\ UNCHANGED <<written, output, removed>> /\ calls' = calls /\ match' = match
  BY DEF Skip
<1>3. ~ InMatch'
  BY <1>2 DEF InMatch
<1>4. asEchoed = output \o R!Slice(written, pos) /\ asEchoed' = output \o R!Slice(written, pos + 1)
  <2>1. asEchoed = output \o Slice(written, pos)
    BY DEF asEchoed
  <2>2. asEchoed' = output \o Slice(written, pos + 1)
    BY <1>2, <1>3 DEF asEchoed, Slice, Input, ReadsNext
  <2> QED BY <2>1, <2>2, SliceIs
<1>5. Append(output \o R!Slice(written, pos), R!Input(pos + 1)) = output \o R!Slice(written, pos + 1)
  BY <1>1, RewriteAssumption, R!EchoIsCopy
<1>6. asEchoed' = Append(asEchoed, R!Input(R!Here))
  BY <1>1, <1>4, <1>5
<1>7. UNCHANGED <<asOpen, asCalls>>
  BY <1>2, <1>3 DEF asOpen, asCalls
<1>8. FormOK'
  BY <1>2 DEF ReadsNext, Rereading, FormOK
<1> QED BY <1>2, <1>6, <1>7, <1>8 DEF R!Unmatched

(* The start tag of a matching node.                                       *)
LEMMA StartIs ==
  ASSUME ReadsNext, ~ InMatch, match' = [held |-> <<pos + 1>>, depth |-> 1], output' = UpToTag,
         UNCHANGED <<written, calls, removed>>
  PROVE  /\ asOpen' = [handler |-> 1, held |-> <<R!Here>>, depth |-> 1]
         /\ output' = R!CopiedUpToMatch
         /\ UNCHANGED <<written, asEchoed, asCalls, removed>>
         /\ FormOK'
<1>1. R!Here = pos + 1 /\ R!Here - 1 = pos
  BY SeenIs DEF ReadsNext
<1>2. InMatch'
  BY DEF InMatch, NotInMatch
<1>3. asOpen' = [handler |-> 1, held |-> <<R!Here>>, depth |-> 1]
  BY <1>1, <1>2 DEF asOpen
<1>4. output' = R!CopiedUpToMatch
  BY <1>1, SliceIs DEF R!CopiedUpToMatch, UpToTag
<1>5. asEchoed' = asEchoed
  BY <1>2 DEF asEchoed, UpToTag
<1>6. FormOK'
  <2>1. calls' \in Seq(Seq(Nat))
    BY DEF ReadsNext, Rereading, FormOK
  <2>2. match' = [held |-> match'.held, depth |-> match'.depth]
    OBVIOUS
  <2> QED BY <2>1, <2>2 DEF FormOK
<1> QED BY <1>3, <1>4, <1>5, <1>6 DEF asCalls

(* One more call.                                                          *)
LEMMA CallsAppended ==
  ASSUME NEW cs \in Seq(Seq(Nat)), NEW held \in Seq(Nat)
  PROVE  [i \in 1 .. Len(Append(cs, held)) |-> [handler |-> 1, held |-> Append(cs, held)[i]]]
           = Append([i \in 1 .. Len(cs) |-> [handler |-> 1, held |-> cs[i]]], [handler |-> 1, held |-> held])
<1> DEFINE more == Append(cs, held)
           n == Len(cs)
           call(h) == [handler |-> 1, held |-> h]
           C == {call(h) : h \in Seq(Nat)}
           f == [i \in 1 .. n |-> call(cs[i])]
           g == [i \in 1 .. Len(more) |-> call(more[i])]
           a == Append(f, call(held))
<1>1. n \in Nat /\ \A i \in 1 .. n : cs[i] \in Seq(Nat)
  OBVIOUS
<1>2. Len(more) = n + 1 /\ (\A i \in 1 .. n : more[i] = cs[i]) /\ more[n + 1] = held
  BY AppendProperties
<1> HIDE DEF n, more
<1>3. \A h \in Seq(Nat) : call(h) \in C
  OBVIOUS
<1> HIDE DEF C, call
<1>4. \A i \in 1 .. n + 1 : i \in 1 .. n \/ i = n + 1
  BY <1>1
<1>5. f \in [1 .. n -> C] /\ \A i \in 1 .. n : f[i] = call(cs[i])
  BY <1>1, <1>3
<1>6. g \in [1 .. n + 1 -> C] /\ \A i \in 1 .. n + 1 : g[i] = call(more[i])
  BY <1>1, <1>2, <1>3, <1>4
<1> HIDE DEF f, g
<1>7. f \in Seq(C) /\ Len(f) = n
  BY <1>1, <1>5
<1>8. g \in Seq(C) /\ Len(g) = n + 1
  <2>1. n + 1 \in Nat
    BY <1>1
  <2> HIDE DEF g
  <2> QED BY <1>6, <2>1
<1>9. /\ a \in Seq(C) /\ Len(a) = n + 1 /\ (\A i \in 1 .. n : a[i] = f[i]) /\ a[n + 1] = call(held)
  BY <1>3, <1>7, AppendProperties
<1> HIDE DEF a
<1>10. \A i \in 1 .. n + 1 : g[i] = a[i]
  BY <1>2, <1>4, <1>5, <1>6, <1>9
<1>11. g = a
  BY <1>8, <1>9, <1>10, SeqEqual
<1> QED BY <1>11 DEF a, f, g, call, more, n

(* The callback.                                                           *)
LEMMA CallIs ==
  ASSUME ReadsNext, NEW held \in Seq(Nat), held # <<>>, CallBack(held, asEchoed)
  PROVE  /\ \E gone \in BOOLEAN : R!CallAndWrite(1, held, asEchoed, gone)
         /\ FormOK'
<1>1. PICK gone \in BOOLEAN :
        /\ calls' = Append(calls, held)
        /\ output' = IF gone THEN asEchoed ELSE Append(asEchoed, Node(Head(held)))
        /\ removed' = IF gone THEN removed \cup {Head(held)} ELSE removed
        /\ written' = pos + 1
        /\ match' = NotInMatch
  BY DEF CallBack
<1>2. /\ calls \in Seq(Seq(Nat)) /\ pos \in Nat /\ R!Here = pos + 1 /\ pos' = pos + 1
      /\ asEchoed \in Seq(R!Piece)
  BY SeenIs, RewriteState DEF ReadsNext, Rereading, FormOK
<1>3. ~ InMatch' /\ asOpen' = R!NoMatch
  BY <1>1 DEF InMatch, NotInMatch, asOpen, R!NoMatch
<1>4. /\ calls' \in Seq(Seq(Nat)) /\ Len(calls') = Len(calls) + 1 /\ Len(calls) \in Nat
      /\ \A i \in 1 .. Len(calls) : calls'[i] = calls[i]
      /\ calls'[Len(calls) + 1] = held
  BY <1>1, <1>2, AppendProperties
<1>5. asCalls' = Append(asCalls, [handler |-> 1, held |-> held])
  BY <1>1, <1>2, CallsAppended DEF asCalls
<1>6. output' \in Seq(R!Piece)
  <2>1. Head(held) \in Nat
    BY HeadTailProperties
  <2>2. Node(Head(held)) \in R!Piece
    BY <2>1 DEF Node, R!Piece
  <2> QED BY <1>1, <1>2, <2>2, AppendProperties
<1>7. asEchoed' = output'
  <2>1. asEchoed' = output' \o R!Slice(pos + 1, pos + 1)
    <3>1. asEchoed' = output' \o Slice(written', pos')
      BY <1>3 DEF asEchoed, Slice, Input
    <3> QED BY <1>1, <1>2, <3>1, SliceIs
  <2>2. R!Slice(pos + 1, pos + 1) = <<>>
    BY <1>2, RewriteAssumption, R!EmptySlice
  <2> QED BY <1>6, <2>1, <2>2, ConcatEmptySeq
<1>8. R!Node(Head(held)) = Node(Head(held))
  BY DEF R!Node, Node
<1>9. R!CallAndWrite(1, held, asEchoed, gone)
  BY <1>1, <1>2, <1>3, <1>5, <1>7, <1>8 DEF R!CallAndWrite
<1>10. FormOK'
  <2>1. match' = [held |-> match'.held, depth |-> match'.depth]
    BY <1>1 DEF NotInMatch
  <2> QED BY <1>4, <2>1 DEF FormOK
<1> QED BY <1>9, <1>10

AnyAgain == StartAgain \/ EmptyAgain \/ EndAgain \/ ContentAgain

LEMMA EventIs ==
  ASSUME ReadsNext, AnyAgain
  PROVE  R!RewriteEvent /\ FormOK'
<1> DEFINE e == doc[pos + 1]
<1>1. e \in R!Event /\ R!Read(e)
  BY MovesStacks, ReadsSame, SeenGrows DEF AnyAgain
<1>2. /\ InMatch <=> R!IsOpen
      /\ InMatch => asOpen.handler = 1 /\ match.depth > 0 /\ match.held # <<>>
      /\ match.held \in Seq(Nat) /\ match.depth \in Nat
      /\ asOpen.depth = match.depth /\ asOpen.held = match.held
      /\ R!Here = pos + 1 /\ pos \in Nat
  BY RewriteState, SeenIs DEF ReadsNext, Rereading, asOpen
<1>3. InMatch => asEchoed = output
  BY DEF asEchoed
<1>4. ~ InMatch => UpToTag = asEchoed /\ R!CopiedUpToMatch = asEchoed
  <2>1. R!Here - 1 = pos
    BY <1>2
  <2> QED BY <2>1, SliceIs DEF asEchoed, UpToTag, R!CopiedUpToMatch
<1>5. ASSUME InMatch, NEW d \in Nat \ {0}, Hold(d)
      PROVE  R!Hold(d) /\ FormOK'
  BY <1>2, <1>5, HoldIs
<1>6. ASSUME ~ InMatch, Skip
      PROVE  R!Unmatched /\ FormOK'
  BY <1>2, <1>6, SkipIs
<1>7. ASSUME NEW held \in Seq(Nat), held # <<>>, CallBack(held, asEchoed)
      PROVE  /\ \E gone \in BOOLEAN : R!CallAndWrite(1, held, asEchoed, gone)
             /\ FormOK'
  BY <1>7, CallIs
<1>8. InMatch => match.depth \in Nat \ {0} /\ match.depth + 1 \in Nat \ {0}
  BY <1>2
<1>9. ASSUME StartAgain PROVE R!StartTag(e) /\ FormOK'
  <2>1. e.kind = "start"
    BY <1>9 DEF StartAgain
  <2>2. /\ ExpectedNode \in MatchingNodes <=> e.by # {}
        /\ e.by # {} => R!FirstMatch(e) = 1
    BY <2>1, NodeFound
  <2>3. CASE InMatch /\ Hold(match.depth + 1)
    BY <1>2, <1>5, <1>8, <2>1, <2>3 DEF R!StartTag
  <2>4. CASE /\ ~ InMatch /\ ExpectedNode \in MatchingNodes
             /\ match' = [held |-> <<pos + 1>>, depth |-> 1]
             /\ output' = UpToTag
             /\ UNCHANGED <<outcome, written, calls, removed>>
    <3>1. /\ asOpen' = [handler |-> 1, held |-> <<R!Here>>, depth |-> 1]
          /\ output' = R!CopiedUpToMatch
          /\ UNCHANGED <<written, asEchoed, asCalls, removed>>
          /\ FormOK'
      BY <2>4, StartIs
    <3>2. R!StartTag(e)
      BY <1>2, <2>1, <2>2, <2>4, <3>1 DEF R!StartTag
    <3> QED BY <3>1, <3>2
  <2>5. CASE ~ InMatch /\ ExpectedNode \notin MatchingNodes /\ Skip
    BY <1>2, <1>6, <2>1, <2>2, <2>5 DEF R!StartTag
  <2> QED BY <1>9, <2>3, <2>4, <2>5 DEF StartAgain
<1>10. ASSUME EmptyAgain PROVE R!EmptyTag(e) /\ FormOK'
  <2>1. e.kind = "empty"
    BY <1>10 DEF EmptyAgain
  <2>2. /\ ExpectedNode \in MatchingNodes <=> e.by # {}
        /\ e.by # {} => R!FirstMatch(e) = 1
    BY <2>1, NodeFound
  <2>3. CASE InMatch /\ Hold(match.depth)
    BY <1>2, <1>5, <1>8, <2>1, <2>3 DEF R!EmptyTag
  <2>4. CASE ~ InMatch /\ ExpectedNode \in MatchingNodes /\ CallBack(<<pos + 1>>, UpToTag)
    <3>1. <<pos + 1>> \in Seq(Nat) /\ <<pos + 1>> # <<>>
      BY <1>2
    <3>2. /\ \E gone \in BOOLEAN : R!CallAndWrite(1, <<pos + 1>>, asEchoed, gone)
          /\ FormOK'
      BY <1>4, <1>7, <2>4, <3>1
    <3>3. R!EmptyTag(e)
      BY <1>2, <1>4, <2>1, <2>2, <2>4, <3>2 DEF R!EmptyTag
    <3> QED BY <3>2, <3>3
  <2>5. CASE ~ InMatch /\ ExpectedNode \notin MatchingNodes /\ Skip
    BY <1>2, <1>6, <2>1, <2>2, <2>5 DEF R!EmptyTag
  <2> QED BY <1>10, <2>3, <2>4, <2>5 DEF EmptyAgain
<1>11. ASSUME EndAgain PROVE R!EndTag(e) /\ FormOK'
  <2>1. e.kind = "end"
    BY <1>11 DEF EndAgain
  <2>2. CASE InMatch /\ match.depth > 1 /\ Hold(match.depth - 1)
    <3>1. match.depth - 1 \in Nat \ {0}
      BY <1>2, <2>2
    <3> QED BY <1>2, <1>5, <2>1, <2>2, <3>1 DEF R!EndTag
  <2>3. CASE InMatch /\ match.depth = 1 /\ CallBack(Append(match.held, pos + 1), output)
    <3>1. Append(match.held, pos + 1) \in Seq(Nat) /\ Append(match.held, pos + 1) # <<>>
      <4>1. pos + 1 \in Nat /\ Len(match.held) \in Nat
        BY <1>2
      <4>2. Append(match.held, pos + 1) \in Seq(Nat) /\ Len(Append(match.held, pos + 1)) = Len(match.held) + 1
        BY <1>2, <4>1, AppendProperties
      <4> QED BY <4>1, <4>2, EmptySeq
    <3>2. /\ \E gone \in BOOLEAN : R!CallAndWrite(1, Append(match.held, pos + 1), asEchoed, gone)
          /\ FormOK'
      BY <1>3, <1>7, <2>3, <3>1
    <3>3. R!EndTag(e)
      BY <1>2, <1>3, <2>1, <2>3, <3>2 DEF R!EndTag
    <3> QED BY <3>2, <3>3
  <2>4. CASE ~ InMatch /\ Skip
    BY <1>2, <1>6, <2>1, <2>4 DEF R!EndTag
  <2> QED BY <1>11, <2>2, <2>3, <2>4 DEF EndAgain
<1>12. ASSUME ContentAgain PROVE R!Content(e) /\ FormOK'
  <2>1. CASE e.kind = "text" /\ InMatch /\ Hold(match.depth)
    BY <1>2, <1>5, <1>8, <2>1 DEF R!Content
  <2>2. CASE e.kind \in {"text", "ref"} /\ ~ InMatch /\ Skip
    BY <1>2, <1>6, <2>2 DEF R!Content
  <2>3. CASE e.kind = "other" /\ Skip
    <3>1. seen = <<>>
      BY <1>1, <2>3 DEF R!Read, R!CanFollow
    <3>2. ~ R!IsOpen
      BY <3>1 DEF ReadsNext, Rereading, R!RInv, R!IInv, R!BuilderInUse
    <3> QED BY <1>2, <1>6, <2>3, <3>2 DEF R!Content
  <2> QED BY <1>12, <2>1, <2>2, <2>3 DEF ContentAgain
<1>13. (R!StartTag(e) \/ R!EmptyTag(e) \/ R!EndTag(e) \/ R!Content(e)) /\ FormOK'
  BY <1>9, <1>10, <1>11, <1>12 DEF AnyAgain
<1>14. R!RewriteEvent
  BY <1>1, <1>13 DEF R!RewriteEvent
<1> QED BY <1>13, <1>14

(* The second pass goes on as it began.                                    *)
LEMMA GoesOn ==
  ASSUME ReadsNext, AnyAgain
  PROVE  Rereading'
<1>1. R!RInv' 
  BY EventIs, RewriteAssumption, R!EventMatches DEF ReadsNext, Rereading
<1>2. StackAt(doc', pos', nodeStack', childIndex')
  BY MovesStacks, StacksFollow DEF ReadsNext, AnyAgain
<1>3. WellRead(doc') /\ NoRefs(doc')
  BY DEF ReadsNext, Rereading
<1>4. pos' \in 0 .. Len(doc')
  <2>1. pos + 1 \in 1 .. Len(doc) /\ Len(doc) \in Nat
    BY SeenGrows, SeenIs DEF ReadsNext
  <2> QED BY <2>1 DEF ReadsNext
<1>5. FormOK'
  BY EventIs
<1> QED BY <1>1, <1>2, <1>3, <1>4, <1>5 DEF Rereading

-------------------------------------------------------------------------------
(* The calls are those that are due.                                       *)

SelectedIn(d) == Outermost(d, {1})

LEMMA SelectedIs ==
  ASSUME NEW d \in Seq(Event)
  PROVE  /\ SelectedIn(d) \in SUBSET Int /\ IsFiniteSet(SelectedIn(d)) /\ Cardinality(SelectedIn(d)) \in Nat
         /\ Len(InOrder(SelectedIn(d))) = Cardinality(SelectedIn(d))
<1>1. SelectedIn(d) \in SUBSET Int /\ IsFiniteSet(SelectedIn(d))
  <2>1. /\ SelectedBy(d, {1}) \subseteq 1 .. Len(d) /\ SelectedIn(d) \subseteq SelectedBy(d, {1})
        /\ IsFiniteSet(SelectedBy(d, {1}))
    BY SelectionBounds DEF SelectedIn
  <2> QED BY <2>1, FS_Subset
<1> QED BY <1>1, InOrderLists

(* The rewrite's words are the same.                                       *)
LEMMA SameWords ==
  /\ R!Handlers = {1}
  /\ R!InOrder(R!Due(seen, R!Handlers)) = InOrder(Due(seen, {1}))
  /\ \A s : R!SubtreeEvents(seen, s) = SubtreeEvents(seen, s)
  /\ R!Rewritten(seen, Len(seen), R!Handlers, removed) = Rewritten(seen, Len(seen), {1}, removed)
  /\ \A m : R!Within(seen, R!Handlers, m) <=> Within(seen, {1}, m)
<1>1. R!Handlers = {1}
  BY DEF R!Handlers
<1>2. \A S : R!InOrder(S) = InOrder(S)
  BY DEF R!InOrder, InOrder, R!Cardinality, Cardinality
<1>3. R!Due(seen, {1}) = Due(seen, {1})
  BY DEF R!Due, Due, R!IsComplete, IsComplete, R!Outermost, Outermost, R!SelectedBy, SelectedBy,
         R!IsElement, IsElement, R!Subtree, Subtree, R!Level, Level, R!CountOf, CountOf,
         R!Cardinality, Cardinality
<1>4. \A s : R!SubtreeEvents(seen, s) = SubtreeEvents(seen, s)
  BY DEF R!SubtreeEvents, SubtreeEvents, R!Subtree, Subtree, R!Level, Level, R!CountOf, CountOf,
         R!Cardinality, Cardinality
<1>5. R!Rewritten(seen, Len(seen), {1}, removed) = Rewritten(seen, Len(seen), {1}, removed)
  BY DEF R!Rewritten, Rewritten, R!OutputPlaces, OutputPlaces, R!Inside, Inside, R!InOrder, InOrder,
         R!Outermost, Outermost, R!SelectedBy, SelectedBy, R!IsElement, IsElement,
         R!Subtree, Subtree, R!Level, Level, R!CountOf, CountOf, R!Cardinality, Cardinality,
         R!Node, Node, R!Input, Input
<1>6. \A m : R!Within(seen, {1}, m) <=> Within(seen, {1}, m)
  BY DEF R!Within, Within, R!OpenAt, OpenAt, R!Outermost, Outermost, R!SelectedBy, SelectedBy,
         R!IsElement, IsElement, R!Subtree, Subtree, R!Level, Level, R!CountOf, CountOf,
         R!Cardinality, Cardinality
<1> QED BY <1>1, <1>2, <1>3, <1>4, <1>5, <1>6

(* The calls so far are those of the first selected elements.              *)
CallsSelected ==
  /\ Len(calls) <= Len(InOrder(SelectedIn(doc)))
  /\ \A i \in 1 .. Len(calls) : calls[i] = SubtreeEvents(doc, InOrder(SelectedIn(doc))[i])

LEMMA CallsFollow ==
  ASSUME Rereading
  PROVE  /\ CallsSelected
         /\ Len(calls) = Cardinality(Due(seen, {1})) /\ Len(calls) \in Nat
<1> DEFINE S == Due(seen, {1})
           T == SelectedIn(doc)
<1>1. /\ doc \in Seq(Event) /\ IsPrefix(seen, doc, pos) /\ seen \in Seq(Event)
      /\ calls \in Seq(Seq(Nat)) /\ Len(calls) \in Nat
  BY SeenIs DEF Rereading, FormOK
<1>2. T \in SUBSET Int /\ IsFiniteSet(T) /\ Len(InOrder(T)) = Cardinality(T)
  BY <1>1, SelectedIs
<1>3. ComesFirst(S, T)
  BY <1>1, DueComesFirst DEF SelectedIn
<1>4. /\ Len(asCalls) = Len(InOrder(S))
      /\ \A i \in 1 .. Len(asCalls) : asCalls[i].held = SubtreeEvents(seen, InOrder(S)[i])
  <2>1. R!CallsAreDue(seen, asCalls)
    BY DEF Rereading, R!RInv, R!History
  <2> QED BY <2>1, SameWords DEF R!CallsAreDue, R!IsCallFor
<1>5. Len(asCalls) = Len(calls) /\ \A i \in 1 .. Len(calls) : asCalls[i].held = calls[i]
  BY <1>1 DEF asCalls
<1>6. \A s \in S : SubtreeEvents(seen, s) = SubtreeEvents(doc, s)
  BY <1>1, PrefixSelection
<1> HIDE DEF S, T
<1>7. /\ Cardinality(S) <= Cardinality(T) /\ Len(InOrder(S)) = Cardinality(S)
      /\ \A k \in 1 .. Cardinality(S) : InOrder(S)[k] \in S /\ InOrder(T)[k] = InOrder(S)[k]
  BY <1>2, <1>3, InOrderInitial
<1>8. ASSUME NEW i \in 1 .. Len(calls)
      PROVE  calls[i] = SubtreeEvents(doc, InOrder(T)[i])
  <2>1. calls[i] = SubtreeEvents(seen, InOrder(S)[i])
    BY <1>4, <1>5
  <2>2. InOrder(S)[i] \in S /\ InOrder(T)[i] = InOrder(S)[i]
    BY <1>4, <1>5, <1>7
  <2> QED BY <1>6, <2>1, <2>2
<1>9. Len(calls) <= Len(InOrder(T)) /\ Len(calls) = Cardinality(S)
  BY <1>2, <1>4, <1>5, <1>7
<1> QED BY <1>1, <1>8, <1>9 DEF CallsSelected, T, S

(* At the end of the document every selected element has been replaced.    *)
LEMMA AllEdited ==
  ASSUME Rereading, PathFits(doc, <<>>), pos = Len(doc)
  PROVE  /\ Len(calls) = Len(InOrder(SelectedIn(doc)))
         /\ output \o Slice(written, Len(doc)) = Rewritten(doc, Len(doc), {1}, removed)
<1>1. /\ doc \in Seq(Event) /\ IsPrefix(seen, doc, pos) /\ pos \in Nat
      /\ seen \in Seq(Event) /\ Len(seen) = pos /\ (\A i \in 1 .. pos : seen[i] = doc[i])
  BY SeenIs
<1>2. seen = doc
  BY <1>1, SeqEqual
<1>3. \A s \in 1 .. Len(doc) : ~ OpenAt(doc, Len(doc), s)
  BY AllComplete DEF Rereading
<1>4. /\ SelectedBy(doc, {1}) \subseteq 1 .. Len(doc) /\ SelectedIn(doc) \subseteq SelectedBy(doc, {1})
      /\ Due(doc, {1}) \subseteq SelectedIn(doc)
  BY <1>1, SelectionBounds DEF SelectedIn
<1>5. Due(seen, {1}) = SelectedIn(doc)
  <2>1. \A s \in 1 .. pos : s \in Due(seen, {1}) <=> s \in Outermost(doc, {1}) /\ ~ OpenAt(doc, pos, s)
    BY <1>1, PrefixSelection
  <2> QED BY <1>2, <1>3, <1>4, <2>1 DEF SelectedIn
<1>6. ~ InMatch
  <2> SUFFICES ASSUME InMatch PROVE FALSE
    OBVIOUS
  <2>1. PICK m : R!InMatch(m)
    BY RewriteState DEF Rereading, R!RInv, R!AtMatch
  <2>2. Within(seen, {1}, m)
    BY <2>1, SameWords DEF R!InMatch
  <2>3. m \in SelectedIn(doc) /\ OpenAt(doc, Len(doc), m)
    BY <1>2, <2>2 DEF Within, SelectedIn
  <2> QED BY <1>3, <1>4, <2>3
<1>7. Len(calls) = Len(InOrder(SelectedIn(doc)))
  BY <1>1, <1>5, CallsFollow, SelectedIs
<1>8. output \o Slice(written, Len(doc)) = Rewritten(doc, Len(doc), {1}, removed)
  <2>1. asEchoed = output \o Slice(written, Len(doc))
    BY <1>6 DEF asEchoed
  <2>2. ~ R!IsOpen
    BY <1>6, RewriteState
  <2>3. asEchoed = R!Rewritten(seen, Len(seen), R!Handlers, removed)
    BY <2>2 DEF Rereading, R!RInv, R!History, R!Settled
  <2> QED BY <1>2, <2>1, <2>3, SameWords
<1> QED BY <1>7, <1>8

(* Without a selected element the output is the input.                     *)
LEMMA NothingSelected ==
  ASSUME NEW d \in Seq(Event), SelectedBy(d, {1}) = {}
  PROVE  /\ SelectedIn(d) = {} /\ Len(InOrder(SelectedIn(d))) = 0
         /\ Rewritten(d, Len(d), {1}, {}) = [i \in 1 .. Len(d) |-> Input(i)]
<1>1. Outermost(d, {1}) = {} /\ Inside(d, {1}) = {}
  BY DEF Outermost, Inside
<1>2. Len(InOrder(SelectedIn(d))) = 0 /\ SelectedIn(d) = {}
  BY <1>1, SelectedIs, FS_EmptySet DEF SelectedIn
<1>3. OutputPlaces(d, Len(d), {1}, {}) = 1 .. Len(d)
  BY <1>1 DEF OutputPlaces
<1>4. InOrder(1 .. Len(d)) = [k \in 1 .. Len(d) |-> k]
  BY InOrderAll
<1> DEFINE places == InOrder(OutputPlaces(d, Len(d), {1}, {}))
<1>5. DOMAIN places = 1 .. Len(d) /\ \A k \in 1 .. Len(d) : places[k] = k
  BY <1>3, <1>4
<1>6. Rewritten(d, Len(d), {1}, {})
        = [k \in DOMAIN places |-> IF places[k] \in Inside(d, {1}) THEN Node(places[k]) ELSE Input(places[k])]
  BY DEF Rewritten
<1> HIDE DEF places
<1> QED BY <1>1, <1>2, <1>5, <1>6

-------------------------------------------------------------------------------
(* The invariant of both passes.                                           *)

(* Before the second pass.                                                 *)
Untouched ==
  /\ pos = 0 /\ nodeStack = <<0>> /\ childIndex = <<0>> /\ match = NotInMatch
  /\ written = 0 /\ calls = <<>> /\ removed = {}

FirstPass ==
  /\ PathFits(doc, path)
  /\ Untouched
  /\ outcome = "running" => output = <<>>
  /\ outcome = "ok" => EditsWhatWasSelected

(* A call that ended at its limit has replaced the first elements.         *)
SecondPass ==
  /\ limit # 0
  /\ PathFits(doc, <<>>)
  /\ NoRefs(doc) =>
       /\ outcome = "running" => Rereading
       /\ outcome \in {"running", "ok"}
       /\ outcome = "ok" => EditsWhatWasSelected \/ (Rereading /\ Len(calls) = limit)

FInv ==
  /\ WellRead(doc)
  /\ pass \in {1, 2}
  /\ pass = 1 => FirstPass
  /\ pass = 2 => SecondPass

(* What is said of the elements that were edited, when a limit ends it.    *)
LEMMA EndsAtLimit ==
  ASSUME Rereading, outcome # "ok" \/ Len(calls) = limit
  PROVE  EditsWhatWasSelected
<1>1. CallsSelected /\ Len(calls) \in Nat
  BY CallsFollow
<1>2. Len(calls) = limit => limit # NoLimit
  BY <1>1, EventsAssumption
<1> QED BY <1>1, <1>2 DEF EditsWhatWasSelected, CallsSelected, SelectedIn

LEMMA FInvSays == FInv => EditsWhatWasSelected
<1> SUFFICES ASSUME FInv PROVE EditsWhatWasSelected
  OBVIOUS
<1>1. doc \in Seq(Event)
  BY DEF FInv, WellRead
<1>2. CASE pass = 1 /\ outcome # "ok"
  <2>1. calls = <<>> /\ Len(calls) = 0
    BY <1>2 DEF FInv, FirstPass, Untouched
  <2>2. Len(InOrder(SelectedIn(doc))) \in Nat
    BY <1>1, SelectedIs
  <2>3. 0 <= Len(InOrder(SelectedIn(doc))) /\ 1 .. 0 = {}
    BY <2>2
  <2> QED BY <1>2, <2>1, <2>3 DEF EditsWhatWasSelected, SelectedIn
<1>3. CASE pass = 2 /\ NoRefs(doc)
  <2>1. outcome = "ok" => EditsWhatWasSelected \/ (Rereading /\ Len(calls) = limit)
    BY <1>3 DEF FInv, SecondPass
  <2>2. outcome # "ok" => Rereading
    BY <1>3 DEF FInv, SecondPass
  <2> QED BY <2>1, <2>2, EndsAtLimit
<1>4. CASE pass = 2 /\ ~ NoRefs(doc)
  BY <1>4 DEF NoRefs, EditsWhatWasSelected
<1> QED BY <1>2, <1>3, <1>4 DEF FInv, FirstPass

LEMMA FirstKeeps == EventsInit /\ FallbackInit => FInv
<1> SUFFICES ASSUME EventsInit, FallbackInit PROVE FInv
  OBVIOUS
<1>1. WellRead(doc) /\ PathFits(doc, path)
  BY NothingIsWellRead DEF EventsInit
<1>2. pass = 1 /\ Untouched /\ output = <<>> /\ outcome = "running"
  BY DEF EventsInit, FallbackInit, Untouched
<1> QED BY <1>1, <1>2 DEF FInv, FirstPass

(* Nothing to do: the limit is 0 at once or never.                         *)
LEMMA NothingKeeps == FInv /\ NothingToDo => FInv'
<1> SUFFICES ASSUME FInv, NothingToDo PROVE FInv'
  OBVIOUS
<1>1. /\ limit = 0 /\ outcome' = "ok"
      /\ UNCHANGED <<doc, path, limit, pass, pos, nodeStack, childIndex, match, written, output, calls, removed>>
  BY DEF NothingToDo, fallbackVars
<1>2. pass = 1 /\ FirstPass /\ WellRead(doc)
  BY <1>1 DEF FInv, SecondPass
<1>3. EditsWhatWasSelected'
  <2>1. calls' = <<>> /\ Len(calls') = 0
    BY <1>1, <1>2 DEF FirstPass, Untouched
  <2>2. Len(InOrder(SelectedIn(doc))) \in Nat
    BY <1>2, SelectedIs DEF WellRead
  <2>3. 0 <= Len(InOrder(SelectedIn(doc))) /\ 1 .. 0 = {} /\ limit' = 0 /\ limit' # NoLimit
    BY <1>1, <2>2, EventsAssumption
  <2> QED BY <1>1, <2>1, <2>3 DEF EditsWhatWasSelected, SelectedIn
<1>4. PathFits(doc', path') /\ WellRead(doc')
  BY <1>1, <1>2 DEF FirstPass
<1>5. Untouched'
  BY <1>1, <1>2 DEF FirstPass, Untouched
<1> QED BY <1>1, <1>2, <1>3, <1>4, <1>5 DEF FInv, FirstPass

LEMMA ParseKeeps == FInv /\ (ParseEvent \/ ParseError) => FInv'
<1> SUFFICES ASSUME FInv, ParseEvent \/ ParseError PROVE FInv'
  OBVIOUS
<1>1. /\ pass = 1 /\ outcome = "running"
      /\ UNCHANGED <<limit, pass, pos, nodeStack, childIndex, match, written, output, calls, removed>>
  BY DEF ParseEvent, ParseError, Read, ReadError, fallbackVars
<1>2. FirstPass /\ WellRead(doc)
  BY <1>1 DEF FInv
<1>3. WellRead(doc') /\ PathFits(doc', path') /\ outcome' # "ok"
  <2>1. CASE ParseEvent
    <3>1. PICK e \in Event : e.by \subseteq {1} /\ Read(e)
      BY <2>1 DEF ParseEvent
    <3> QED BY <1>1, <1>2, <2>1, <3>1, WellReadGrows DEF FirstPass, ParseEvent
  <2>2. CASE ParseError
    BY <1>2, <2>2 DEF ParseError, ReadError, FirstPass
  <2> QED BY <2>1, <2>2
<1>4. Untouched' /\ output' = <<>>
  BY <1>1, <1>2 DEF FirstPass, Untouched
<1> QED BY <1>1, <1>3, <1>4 DEF FInv, FirstPass

(* The second pass begins.                                                 *)
LEMMA RewriteBegins ==
  ASSUME WellRead(doc), NoRefs(doc), Untouched, output = <<>>
  PROVE  Rereading
<1>1. doc \in Seq(Event) /\ Len(doc) \in Nat
  BY DEF WellRead
<1>2. Level(doc, 0) = 0
  <2>1. \A k : {j \in 1 .. 0 : doc[j].kind = k} = {}
    OBVIOUS
  <2>2. \A k : CountOf(doc, 0, k) = 0
    BY <2>1, FS_EmptySet DEF CountOf
  <2> QED BY <2>2 DEF Level
<1>3. StackAt(doc, pos, nodeStack, childIndex)
  BY <1>2, StackStarts DEF Untouched
<1>4. FormOK
  <2>1. calls \in Seq(Seq(Nat))
    BY DEF Untouched
  <2>2. match = [held |-> match.held, depth |-> match.depth]
    BY DEF Untouched, NotInMatch
  <2> QED BY <2>1, <2>2 DEF FormOK
<1>5. seen = <<>>
  <2>1. IsPrefix(seen, doc, 0)
    BY <1>1 DEF IsPrefix, seen, Untouched
  <2>2. seen \in Seq(Event) /\ Len(seen) = 0
    BY <1>1, <2>1, PrefixLevels
  <2> QED BY <2>2, EmptySeq
<1>6. ~ InMatch /\ asOpen = R!NoMatch
  BY DEF Untouched, InMatch, NotInMatch, asOpen, R!NoMatch
<1>7. asPath = <<>>
  <2> DEFINE start == <<0>>
  <2>1. start \in Seq(Nat) /\ Len(start) = 1
    OBVIOUS
  <2> HIDE DEF start
  <2>2. Outer(start) \in Seq(Nat) /\ Len(Outer(start)) = 0
    BY <2>1, OuterIs
  <2>3. asPath = Outer(start)
    BY DEF asPath, Untouched, start
  <2> QED BY <2>2, <2>3, EmptySeq
<1>8. asCalls = <<>>
  BY DEF asCalls, Untouched
<1>9. asEchoed = <<>>
  <2>1. Slice(0, 0) = <<>>
    BY DEF Slice
  <2>2. asEchoed = <<>> \o <<>>
    BY <1>6, <2>1 DEF asEchoed, Untouched
  <2> QED BY <2>2
<1>10. R!EventsInit /\ R!RewriteInit
  BY <1>5, <1>6, <1>7, <1>8, <1>9 DEF R!EventsInit, R!RewriteInit, Untouched
<1>11. R!RInv
  BY <1>10, RewriteAssumption, R!InitMatches
<1> QED BY <1>1, <1>3, <1>4, <1>11 DEF Rereading, Untouched

(* What the second pass works with.                                        *)
againVars == <<doc, pos, nodeStack, childIndex, match, written, output, calls, removed>>

LEMMA RereadingStays == Rereading /\ UNCHANGED againVars => Rereading'
<1> SUFFICES ASSUME Rereading, UNCHANGED againVars PROVE Rereading'
  OBVIOUS
<1>1. UNCHANGED <<doc, pos, nodeStack, childIndex, match, written, output, calls, removed>>
  BY DEF againVars
<1>2. InMatch' <=> InMatch
  BY <1>1 DEF InMatch
<1>3. UNCHANGED <<seen, asPath, asOpen, asCalls, asEchoed>>
  BY <1>1, <1>2 DEF seen, asPath, asOpen, asCalls, asEchoed, Slice, Input
<1>4. UNCHANGED <<R!eventVars, R!rewriteVars>>
  BY <1>1, <1>3 DEF R!eventVars, R!rewriteVars
<1>5. R!RInv'
  BY <1>4, RewriteAssumption, R!StepMatches DEF Rereading
<1>6. StackAt(doc', pos', nodeStack', childIndex')
  BY <1>1 DEF Rereading
<1>7. FormOK'
  BY <1>1 DEF Rereading, FormOK
<1> QED BY <1>1, <1>5, <1>6, <1>7 DEF Rereading

LEMMA EvaluateKeeps == FInv /\ Evaluate => FInv'
<1> SUFFICES ASSUME FInv, Evaluate PROVE FInv'
  OBVIOUS
<1>1. /\ pass = 1 /\ limit # 0 /\ outcome = "running" /\ path = <<>>
      /\ UNCHANGED <<doc, path, limit, pos, nodeStack, childIndex, match, written, calls, removed>>
  BY DEF Evaluate
<1>2. /\ WellRead(doc) /\ PathFits(doc, path) /\ Untouched /\ output = <<>> /\ doc \in Seq(Event)
  BY <1>1 DEF FInv, FirstPass, WellRead
<1>3. WellRead(doc') /\ PathFits(doc', path') /\ PathFits(doc', <<>>) /\ limit' # 0
  BY <1>1, <1>2
<1>4. Untouched'
  BY <1>1, <1>2 DEF Untouched
<1>5. CASE MatchingNodes = {}
  <2>1. pass' = 1 /\ outcome' = "ok" /\ output' = [i \in 1 .. Len(doc) |-> Input(i)]
    BY <1>1, <1>5 DEF Evaluate
  <2>2. SelectedBy(doc, {1}) = {}
    <3>1. SelectedBy(doc, {1}) \subseteq MatchingNodes
      BY DEF SelectedBy, MatchingNodes, IsElement, IsNode, ElementKinds
    <3> QED BY <1>5, <3>1
  <2>3. /\ Len(InOrder(SelectedIn(doc))) = 0
        /\ Rewritten(doc, Len(doc), {1}, {}) = [i \in 1 .. Len(doc) |-> Input(i)]
    BY <1>2, <2>2, NothingSelected
  <2>4. calls' = <<>> /\ Len(calls') = 0 /\ removed' = {} /\ 1 .. 0 = {}
    BY <1>1, <1>2 DEF Untouched
  <2>5. EditsWhatWasSelected'
    BY <1>1, <2>1, <2>3, <2>4 DEF EditsWhatWasSelected, SelectedIn
  <2> QED BY <1>3, <1>4, <2>1, <2>5 DEF FInv, FirstPass
<1>6. CASE MatchingNodes # {}
  <2>1. pass' = 2 /\ UNCHANGED <<outcome, output>>
    BY <1>6 DEF Evaluate
  <2>2. NoRefs(doc) => Rereading
    BY <1>2, RewriteBegins
  <2>3. NoRefs(doc') => Rereading'
    BY <1>1, <2>1, <2>2, RereadingStays DEF againVars
  <2> QED BY <1>1, <1>3, <2>1, <2>3 DEF FInv, SecondPass
<1> QED BY <1>5, <1>6

LEMMA ReadAgainKeeps == FInv /\ ReadAgain => FInv'
<1> SUFFICES ASSUME FInv, ReadAgain PROVE FInv'
  OBVIOUS
<1>1. /\ pass = 2 /\ outcome = "running" /\ pos < Len(doc) /\ AnyAgain /\ pos' = pos + 1
      /\ UNCHANGED <<doc, path, limit, pass>>
  BY DEF ReadAgain, AnyAgain
<1>2. WellRead(doc) /\ SecondPass
  BY <1>1 DEF FInv
<1>3. outcome' = "running" \/ (outcome' = "ok" /\ Len(calls') = limit)
  BY <1>1 DEF AnyAgain, StartAgain, EmptyAgain, EndAgain, ContentAgain, Hold, Skip, CallBack
<1>4. NoRefs(doc) => Rereading'
  BY <1>1, <1>2, GoesOn DEF SecondPass, ReadsNext
<1> QED BY <1>1, <1>2, <1>3, <1>4 DEF FInv, SecondPass

LEMMA UnknownEntityKeeps == FInv /\ UnknownEntity => FInv'
<1> SUFFICES ASSUME FInv, UnknownEntity PROVE FInv'
  OBVIOUS
<1>1. /\ pass = 2 /\ outcome = "running" /\ pos < Len(doc) /\ doc[pos + 1].kind = "ref"
      /\ UNCHANGED <<doc, path, limit, pass>>
  BY DEF UnknownEntity, fallbackVars
<1>2. WellRead(doc) /\ SecondPass
  BY <1>1 DEF FInv
<1>3. ~ NoRefs(doc)
  <2> SUFFICES ASSUME NoRefs(doc) PROVE FALSE
    OBVIOUS
  <2>1. pos \in 0 .. Len(doc) /\ Len(doc) \in Nat
    BY <1>1, <1>2, SeenIs DEF SecondPass, Rereading
  <2>2. pos + 1 \in 1 .. Len(doc)
    BY <1>1, <2>1
  <2> QED BY <1>1, <2>2 DEF NoRefs
<1> QED BY <1>1, <1>2, <1>3 DEF FInv, SecondPass

LEMMA EofKeeps == FInv /\ FallbackEof => FInv'
<1> SUFFICES ASSUME FInv, FallbackEof PROVE FInv'
  OBVIOUS
<1>1. /\ pass = 2 /\ outcome = "running" /\ pos = Len(doc) /\ outcome' = "ok"
      /\ output' = output \o Slice(written, Len(doc))
      /\ UNCHANGED <<doc, path, limit, pass, pos, calls, removed>>
  BY DEF FallbackEof
<1>2. WellRead(doc) /\ SecondPass
  BY <1>1 DEF FInv
<1>3. NoRefs(doc) => EditsWhatWasSelected'
  <2> SUFFICES ASSUME NoRefs(doc) PROVE EditsWhatWasSelected'
    OBVIOUS
  <2>1. Rereading /\ PathFits(doc, <<>>)
    BY <1>1, <1>2 DEF SecondPass
  <2>2. CallsSelected
    BY <2>1, CallsFollow
  <2>3. /\ Len(calls) = Len(InOrder(SelectedIn(doc)))
        /\ output' = Rewritten(doc, Len(doc), {1}, removed)
    BY <1>1, <2>1, AllEdited
  <2> QED BY <1>1, <2>2, <2>3 DEF EditsWhatWasSelected, CallsSelected, SelectedIn
<1> QED BY <1>1, <1>2, <1>3 DEF FInv, SecondPass

LEMMA StutterKeeps == FInv /\ UNCHANGED <<eventVars, fallbackVars>> => FInv'
<1> SUFFICES ASSUME FInv, UNCHANGED <<eventVars, fallbackVars>> PROVE FInv'
  OBVIOUS
<1>1. UNCHANGED <<doc, path, outcome, limit, pass, pos, nodeStack, childIndex, match, written, output, calls, removed>>
  BY DEF eventVars, fallbackVars
<1>2. UNCHANGED againVars
  BY <1>1 DEF againVars
<1>3. Rereading => Rereading'
  BY <1>2, RereadingStays
<1>4. Untouched' <=> Untouched
  BY <1>1 DEF Untouched
<1>5. EditsWhatWasSelected' <=> EditsWhatWasSelected
  BY <1>1 DEF EditsWhatWasSelected
<1> QED BY <1>1, <1>3, <1>4, <1>5 DEF FInv, FirstPass, SecondPass

LEMMA StepsKeep == FInv /\ [FallbackNext]_<<eventVars, fallbackVars>> => FInv'
BY NothingKeeps, ParseKeeps, EvaluateKeeps, ReadAgainKeeps, UnknownEntityKeeps, EofKeeps, StutterKeeps
   DEF FallbackNext

(* When no entity holds an element, the callback of a fallback transform   *)
(* gets the outermost elements that the XPath selects in the tree, whole   *)
(* and in document order, up to the limit; none is left out on success,    *)
(* and the output is the input with them replaced (fallback.rs finds them  *)
(* again by counting children, which agrees with the tree).                *)
THEOREM SecondPassFinds == FallbackSpec => []EditsWhatWasSelected
<1> QED BY FirstKeeps, StepsKeep, FInvSays, PTL DEF FallbackSpec

==============================================================================
