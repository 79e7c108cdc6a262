--------------------------- MODULE SchemaLoadersProofs --------------------------
(***************************************************************************)
(* Proofs about the two loaders of schemas: each implements SchemaClosure, *)
(* what export collects is self-contained, and the two agree.              *)
(***************************************************************************)
EXTENDS SchemaLoaders, TLAPS

(* What a sequence holds.                                                  *)
Elems(s) == {s[i] : i \in DOMAIN s}

LEMMA EmptyElems == Elems(<<>>) = {}
BY DEF Elems

LEMMA AppendElems ==
  ASSUME NEW S, NEW s \in Seq(S), NEW e \in S
  PROVE  Append(s, e) \in Seq(S) /\ Elems(Append(s, e)) = Elems(s) \cup {e}
<1>1. Append(s, e) \in Seq(S) /\ Len(Append(s, e)) = Len(s) + 1
  OBVIOUS
<1>2. \A i \in 1 .. Len(s) : Append(s, e)[i] = s[i]
  OBVIOUS
<1>3. Append(s, e)[Len(s) + 1] = e
  OBVIOUS
<1>4. DOMAIN Append(s, e) = 1 .. Len(s) + 1 /\ DOMAIN s = 1 .. Len(s) /\ Len(s) \in Nat
  OBVIOUS
<1>5. Elems(Append(s, e)) \subseteq Elems(s) \cup {e}
  BY <1>2, <1>3, <1>4 DEF Elems
<1>6. Elems(s) \cup {e} \subseteq Elems(Append(s, e))
  <2>1. ASSUME NEW i \in 1 .. Len(s) PROVE s[i] \in Elems(Append(s, e))
    BY <1>2, <1>4 DEF Elems
  <2>2. e \in Elems(Append(s, e))
    BY <1>3, <1>4 DEF Elems
  <2> QED BY <2>1, <2>2, <1>4 DEF Elems
<1> QED BY <1>1, <1>5, <1>6

LEMMA TailElems ==
  ASSUME NEW S, NEW s \in Seq(S), s # <<>>
  PROVE  /\ Head(s) \in S /\ Tail(s) \in Seq(S)
         /\ Elems(s) = {Head(s)} \cup Elems(Tail(s))
<1>1. Head(s) \in S /\ Head(s) = s[1] /\ Len(s) \in Nat \ {0} /\ DOMAIN s = 1 .. Len(s)
  OBVIOUS
<1>2. Tail(s) \in Seq(S) /\ Len(Tail(s)) = Len(s) - 1 /\ DOMAIN Tail(s) = 1 .. Len(s) - 1
  OBVIOUS
<1>3. \A i \in 1 .. Len(s) - 1 : Tail(s)[i] = s[i + 1]
  OBVIOUS
<1>4. Elems(s) \subseteq {Head(s)} \cup Elems(Tail(s))
  <2>1. ASSUME NEW i \in 1 .. Len(s), i # 1 PROVE s[i] \in Elems(Tail(s))
    <3>1. i - 1 \in 1 .. Len(s) - 1 /\ Tail(s)[i - 1] = s[i]
      BY <1>1, <1>3, <2>1
    <3> QED BY <3>1, <1>2 DEF Elems
  <2> QED BY <2>1, <1>1 DEF Elems
<1>5. {Head(s)} \cup Elems(Tail(s)) \subseteq Elems(s)
  <2>1. Head(s) \in Elems(s)
    BY <1>1 DEF Elems
  <2>2. ASSUME NEW i \in 1 .. Len(s) - 1 PROVE Tail(s)[i] \in Elems(s)
    <3>1. i + 1 \in 1 .. Len(s) /\ Tail(s)[i] = s[i + 1]
      BY <1>1, <1>3
    <3> QED BY <3>1, <1>1 DEF Elems
  <2> QED BY <2>1, <2>2, <1>2 DEF Elems
<1> QED BY <1>1, <1>2, <1>4, <1>5

LEMMA ElemsIn ==
  ASSUME NEW S, NEW s \in Seq(S)
  PROVE  Elems(s) \subseteq S
BY DEF Elems

LEMMA KnownElems == \A u : Known(u) <=> u \in Elems(schemas)
BY DEF Known, Elems

LEMMA WantedElems ==
  \A u, d : Wanted(u, d) = {Resolve[u][l] : l \in Elems(References[d])}
<1> TAKE u, d
<1>1. ASSUME NEW x \in Wanted(u, d) PROVE x \in {Resolve[u][l] : l \in Elems(References[d])}
  BY <1>1 DEF Wanted, Elems
<1>2. ASSUME NEW x \in {Resolve[u][l] : l \in Elems(References[d])} PROVE x \in Wanted(u, d)
  BY <1>2 DEF Wanted, Elems
<1> QED BY <1>1, <1>2

LEMMA ExportWantedElems ==
  \A d : ExportWanted(d) = {ExportResolve[d][l] : l \in Elems(References[d])}
<1> TAKE d
<1>1. ASSUME NEW x \in ExportWanted(d) PROVE x \in {ExportResolve[d][l] : l \in Elems(References[d])}
  BY <1>1 DEF ExportWanted, Elems
<1>2. ASSUME NEW x \in {ExportResolve[d][l] : l \in Elems(References[d])} PROVE x \in ExportWanted(d)
  BY <1>2 DEF ExportWanted, Elems
<1> QED BY <1>1, <1>2

-------------------------------------------------------------------------------
(* The world.                                                              *)

WorldType ==
  /\ hints \in Seq(Hints) /\ problem \in BOOLEAN
  /\ broken \subseteq Uris /\ up \subseteq Uris /\ changes \in Nat

LEMMA WorldTyped == Spec => []WorldType
<1>1. Init => WorldType
  <2> SUFFICES ASSUME Init PROVE WorldType
    OBVIOUS
  <2>1. hints \in Seq(Hints)
    BY WorldAssumption DEF Init, WorldInit
  <2>2. broken \subseteq Uris /\ up \subseteq Uris /\ changes \in Nat /\ problem \in BOOLEAN
    BY DEF Init, WorldInit
  <2> QED BY <2>1, <2>2 DEF WorldType
<1>2. WorldType /\ [Load \/ Collect \/ Change]_vars => WorldType'
  BY DEF WorldType, Load, Collect, Change, NetworkChanges, vars, world
<1> QED BY <1>1, <1>2, PTL DEF Spec

LEMMA Uri ==
  ASSUME WorldType
  PROVE  /\ \A u \in Uris : Target[u] \in Uris /\ Target[Target[u]] = Target[u]
         /\ \A u \in Uris : References[u] \in Seq(Locations)
         /\ \A u \in Uris, l \in Locations : Resolve[u][l] \in Uris \cup {NoUri}
         /\ \A u \in Uris, l \in Locations : ExportResolve[u][l] \in Uris
         /\ \A i \in 1 .. Len(hints) : hints[i].location \in Uris
         /\ NoUri \notin Uris /\ Len(hints) \in Nat /\ DOMAIN hints = 1 .. Len(hints)
<1>1. \A h \in Hints : h.location \in Uris
  BY DEF Hints
<1>2. \A i \in 1 .. Len(hints) : hints[i] \in Hints
  BY DEF WorldType
<1>3. Len(hints) \in Nat /\ DOMAIN hints = 1 .. Len(hints)
  BY DEF WorldType
<1> QED BY <1>1, <1>2, <1>3, WorldAssumption

LEMMA WantedUri ==
  ASSUME WorldType, NEW u \in Uris, NEW d \in Uris
  PROVE  Wanted(u, d) \subseteq Uris \cup {NoUri}
<1>1. Elems(References[d]) \subseteq Locations
  BY Uri, ElemsIn
<1> QED BY <1>1, Uri, WantedElems

LEMMA ExportWantedUri ==
  ASSUME WorldType, NEW d \in Uris
  PROVE  ExportWanted(d) \subseteq Uris
<1>1. Elems(References[d]) \subseteq Locations
  BY Uri, ElemsIn
<1> QED BY <1>1, Uri, ExportWantedElems

-------------------------------------------------------------------------------
(* The loader.                                                             *)

LoaderType ==
  /\ hintAt \in 1 .. Len(hints) + 1
  /\ schemas \in Seq(Uris) /\ queue \in Seq(Uris) /\ pending \in Seq(Locations)
  /\ errors \subseteq Nat /\ unreachable \subseteq 1 .. Len(hints)
  /\ outcome \in {"loading", "loaded", "compiled", "refused"}

(* What is to be followed was loaded, and is what a loaded document says.  *)
FollowsItsOwn ==
  /\ Elems(queue) \subseteq Elems(schemas)
  /\ pending # <<>> =>
       current \in Elems(schemas) /\ Elems(pending) \subseteq Elems(References[Target[current]])

NothingBroken == \A s \in Elems(schemas) : Target[s] \notin broken

(* Without an error, each reference of each document loaded was loaded, or *)
(* is still to be followed.                                                *)
LeftToFollow(s, u) == s = current /\ \E l \in Elems(pending) : u = Resolve[s][l]

NothingForgotten ==
  errors = {} =>
    \A s \in Elems(schemas) :
      s \in Elems(queue) \/ \A u \in Wanted(s, Target[s]) : u \in Elems(schemas) \/ LeftToFollow(s, u)

HintsAnswered ==
  \A i \in 1 .. hintAt - 1 :
    i \in unreachable \/ i \in errors \/ Target[hints[i].location] \in Elems(schemas)

NoDocumentNoLoad == (hints = <<>> \/ problem) => 0 \in errors

LoaderDone ==
  /\ outcome # "loading" => BetweenHints /\ hintAt = Len(hints) + 1
  /\ outcome \in {"loaded", "compiled"} => errors = {} /\ \A i \in unreachable : Provided(i)

LInv ==
  /\ LoaderType /\ FollowsItsOwn /\ NothingBroken /\ NothingForgotten
  /\ HintsAnswered /\ NoDocumentNoLoad /\ LoaderDone

LEMMA LoaderStarts ==
  ASSUME WorldType, LoaderInit
  PROVE  LInv
<1>1. <<>> \in Seq(Uris) /\ <<>> \in Seq(Locations) /\ Len(hints) \in Nat
  BY DEF WorldType
<1>2. LoaderType
  BY <1>1 DEF LoaderInit, LoaderType
<1> QED BY <1>2, EmptyElems DEF LoaderInit, LInv, FollowsItsOwn, NothingBroken, NothingForgotten,
     HintsAnswered, NoDocumentNoLoad, LoaderDone

LEMMA HintFailed ==
  ASSUME WorldType, LInv, HintUnreachable \/ HintKnown \/ HintDoesNotParse, UNCHANGED world
  PROVE  LInv' /\ schemas' = schemas
<1>1. /\ UNCHANGED <<schemas, queue, current, pending, outcome, hints, broken, problem>>
      /\ outcome = "loading" /\ hintAt \in 1 .. Len(hints) /\ hintAt' = hintAt + 1
      /\ Len(hints) \in Nat
  BY Uri DEF HintUnreachable, HintKnown, HintDoesNotParse, AtHint, LInv, LoaderType, world
<1>2. /\ errors \subseteq errors' /\ unreachable \subseteq unreachable'
      /\ errors' \subseteq Nat /\ unreachable' \subseteq 1 .. Len(hints)
      /\ hintAt \in unreachable' \/ hintAt \in errors' \/ Target[hints[hintAt].location] \in Elems(schemas)
  <2>1. errors \subseteq Nat /\ unreachable \subseteq 1 .. Len(hints) /\ hintAt \in Nat
    BY <1>1 DEF LInv, LoaderType
  <2>2. CASE HintUnreachable
    BY <1>1, <2>1, <2>2 DEF HintUnreachable
  <2>3. CASE HintKnown
    BY <1>1, <2>1, <2>3, KnownElems DEF HintKnown, Hint
  <2>4. CASE HintDoesNotParse
    BY <1>1, <2>1, <2>4 DEF HintDoesNotParse
  <2> QED BY <2>2, <2>3, <2>4
<1>3. LoaderType'
  BY <1>1, <1>2 DEF LInv, LoaderType
<1>4. FollowsItsOwn' /\ NothingBroken'
  BY <1>1 DEF LInv, FollowsItsOwn, NothingBroken
<1>5. NothingForgotten'
  <2>1. errors' = {} => errors = {}
    BY <1>2
  <2> QED BY <1>1, <2>1 DEF LInv, NothingForgotten, LeftToFollow
<1>6. HintsAnswered'
  <2>1. 1 .. hintAt' - 1 = (1 .. hintAt - 1) \cup {hintAt}
    BY <1>1
  <2> QED BY <1>1, <1>2, <2>1 DEF LInv, HintsAnswered
<1>7. NoDocumentNoLoad' /\ LoaderDone'
  BY <1>1, <1>2 DEF LInv, NoDocumentNoLoad, LoaderDone
<1> QED BY <1>1, <1>3, <1>4, <1>5, <1>6, <1>7 DEF LInv

(* A hinted document is kept under its final URL.                          *)
LEMMA HintLoaded ==
  ASSUME WorldType, LInv, HintIsEntry, UNCHANGED world
  PROVE  /\ LInv'
         /\ Hint \in Uris /\ Hint \in up /\ Hint = hints[hintAt].location /\ hintAt \in 1 .. Len(hints)
         /\ Elems(schemas') = Elems(schemas) \cup {Target[Hint]}
<1> DEFINE t == Target[Hint]
<1>1. /\ UNCHANGED <<current, pending, outcome, hints, broken, problem, errors, unreachable>>
      /\ outcome = "loading" /\ hintAt \in 1 .. Len(hints) /\ hintAt' = hintAt + 1
      /\ Len(hints) \in Nat /\ queue = <<>> /\ pending = <<>>
      /\ Hint = hints[hintAt].location /\ Hint \in up
      /\ t \notin broken /\ queue' = <<t>> /\ schemas' = Append(schemas, t)
  BY Uri DEF HintIsEntry, AtHint, LInv, LoaderType, world, Hint, BetweenHints
<1>2. Hint \in Uris /\ t \in Uris /\ Target[t] = t
  BY <1>1, Uri
<1>3. schemas' \in Seq(Uris) /\ Elems(schemas') = Elems(schemas) \cup {t}
  BY <1>1, <1>2, AppendElems DEF LInv, LoaderType
<1>4. queue' \in Seq(Uris) /\ Elems(queue') = {t} /\ Elems(queue) = {}
  <2> HIDE DEF t
  <2>1. <<t>> \in Seq(Uris)
    BY <1>2
  <2>2. Elems(<<t>>) = {t}
    BY DEF Elems
  <2> QED BY <1>1, <2>1, <2>2, EmptyElems
<1> HIDE DEF t
<1>5. LoaderType'
  BY <1>1, <1>3, <1>4 DEF LInv, LoaderType
<1>6. FollowsItsOwn' /\ NothingBroken'
  BY <1>1, <1>2, <1>3, <1>4 DEF LInv, FollowsItsOwn, NothingBroken
<1>7. NothingForgotten'
  BY <1>1, <1>3, <1>4 DEF LInv, NothingForgotten, LeftToFollow
<1>8. HintsAnswered'
  <2>1. 1 .. hintAt' - 1 = (1 .. hintAt - 1) \cup {hintAt}
    BY <1>1
  <2> QED BY <1>1, <1>3, <2>1 DEF LInv, HintsAnswered, t
<1>9. NoDocumentNoLoad' /\ LoaderDone'
  BY <1>1 DEF LInv, NoDocumentNoLoad, LoaderDone
<1> QED BY <1>1, <1>2, <1>3, <1>5, <1>6, <1>7, <1>8, <1>9 DEF LInv, t

LEMMA SchemaPopped ==
  ASSUME WorldType, LInv, NextSchema, UNCHANGED world
  PROVE  LInv' /\ schemas' = schemas
<1> DEFINE h == Head(queue)
<1>1. /\ UNCHANGED <<hintAt, schemas, outcome, hints, broken, problem, errors, unreachable>>
      /\ outcome = "loading" /\ pending = <<>> /\ queue # <<>>
      /\ current' = h /\ queue' = Tail(queue) /\ pending' = References[Target[h]]
  BY DEF NextSchema, world
<1>2. h \in Uris /\ Tail(queue) \in Seq(Uris) /\ Elems(queue) = {h} \cup Elems(Tail(queue))
  BY <1>1, TailElems DEF LInv, LoaderType
<1>3. Target[h] \in Uris /\ References[Target[h]] \in Seq(Locations)
  BY <1>2, Uri
<1> HIDE DEF h
<1>4. LoaderType'
  BY <1>1, <1>2, <1>3 DEF LInv, LoaderType
<1>5. FollowsItsOwn' /\ NothingBroken'
  BY <1>1, <1>2 DEF LInv, FollowsItsOwn, NothingBroken
<1>6. NothingForgotten'
  <2> SUFFICES ASSUME errors = {}, NEW s \in Elems(schemas), s \notin Elems(queue'), NEW u \in Wanted(s, Target[s])
               PROVE  u \in Elems(schemas) \/ LeftToFollow(s, u)'
    BY <1>1 DEF NothingForgotten
  <2>1. CASE s = h
    <3>1. u \in {Resolve[s][l] : l \in Elems(References[Target[s]])}
      BY WantedElems
    <3> QED BY <2>1, <3>1, <1>1 DEF LeftToFollow
  <2>2. CASE s # h
    <3>1. s \notin Elems(queue)
      BY <1>1, <1>2, <2>2
    <3>2. ~LeftToFollow(s, u)
      BY <1>1, EmptyElems DEF LeftToFollow
    <3> QED BY <3>1, <3>2 DEF LInv, NothingForgotten
  <2> QED BY <2>1, <2>2
<1>7. HintsAnswered' /\ NoDocumentNoLoad' /\ LoaderDone'
  BY <1>1 DEF LInv, HintsAnswered, NoDocumentNoLoad, LoaderDone
<1> QED BY <1>1, <1>4, <1>5, <1>6, <1>7 DEF LInv

(* What is followed is a reference of the document being followed.         *)
LEMMA FollowedIsWanted ==
  ASSUME WorldType, LInv, AtReference
  PROVE  /\ current \in Elems(schemas) /\ current \in Uris
         /\ Followed \in Wanted(current, Target[current]) /\ Followed \in Uris \cup {NoUri}
         /\ Followed = Resolve[current][Head(pending)]
         /\ Tail(pending) \in Seq(Locations) /\ Elems(pending) = {Head(pending)} \cup Elems(Tail(pending))
<1>1. pending # <<>> /\ pending \in Seq(Locations) /\ schemas \in Seq(Uris)
  BY DEF AtReference, LInv, LoaderType
<1>2. Head(pending) \in Locations /\ Tail(pending) \in Seq(Locations)
      /\ Elems(pending) = {Head(pending)} \cup Elems(Tail(pending))
  BY <1>1, TailElems
<1>3. current \in Elems(schemas) /\ Elems(pending) \subseteq Elems(References[Target[current]])
  BY <1>1 DEF LInv, FollowsItsOwn
<1>4. current \in Uris
  BY <1>1, <1>3, ElemsIn
<1>5. Followed = Resolve[current][Head(pending)]
  BY DEF Followed
<1> QED BY <1>2, <1>3, <1>4, <1>5, Uri, WantedElems

LEMMA ReferenceFollowed ==
  ASSUME WorldType, LInv, FollowKnown \/ FollowNew, UNCHANGED world
  PROVE  LInv' /\ Elems(schemas') = Elems(schemas) \cup {Followed}
<1>0. AtReference /\ Followed # NoUri
  BY DEF FollowKnown, FollowNew
<1>1. /\ UNCHANGED <<hintAt, outcome, current, hints, broken, problem, errors, unreachable>>
      /\ outcome = "loading" /\ pending # <<>> /\ pending' = Tail(pending)
  BY <1>0 DEF FollowKnown, FollowNew, AtReference, world
<1>2. Followed \in Uris
  BY <1>0, FollowedIsWanted
<1>3. /\ schemas' \in Seq(Uris) /\ queue' \in Seq(Uris)
      /\ Elems(schemas') = Elems(schemas) \cup {Followed}
      /\ Elems(queue) \subseteq Elems(queue') /\ Elems(queue') \subseteq Elems(queue) \cup {Followed}
      /\ Followed \in Elems(queue') \/ Followed \in Elems(schemas)
      /\ Target[Followed] \notin broken
  <2>1. CASE FollowKnown
    BY <1>2, <2>1, KnownElems DEF FollowKnown, LInv, LoaderType, NothingBroken
  <2>2. CASE FollowNew
    BY <1>2, <2>2, AppendElems DEF FollowNew, LInv, LoaderType
  <2> QED BY <2>1, <2>2
<1>4. LoaderType'
  BY <1>0, <1>1, <1>3, FollowedIsWanted DEF LInv, LoaderType
<1>5. FollowsItsOwn' /\ NothingBroken'
  BY <1>0, <1>1, <1>3, FollowedIsWanted DEF LInv, FollowsItsOwn, NothingBroken
<1>6. NothingForgotten'
  <2> SUFFICES ASSUME errors = {}, NEW s \in Elems(schemas'), s \notin Elems(queue'), NEW u \in Wanted(s, Target[s])
               PROVE  u \in Elems(schemas') \/ LeftToFollow(s, u)'
    BY <1>1 DEF NothingForgotten
  <2>1. s \in Elems(schemas) /\ s \notin Elems(queue)
    BY <1>3
  <2>2. CASE u \in Elems(schemas)
    BY <2>2, <1>3
  <2>3. CASE LeftToFollow(s, u)
    <3>1. PICK l \in Elems(pending) : s = current /\ u = Resolve[s][l]
      BY <2>3 DEF LeftToFollow
    <3>2. CASE l = Head(pending)
      BY <3>1, <3>2, <1>0, <1>3, FollowedIsWanted
    <3>3. CASE l \in Elems(Tail(pending))
      BY <3>1, <3>3, <1>1 DEF LeftToFollow
    <3> QED BY <3>2, <3>3, <1>0, FollowedIsWanted
  <2> QED BY <2>1, <2>2, <2>3 DEF LInv, NothingForgotten
<1>7. HintsAnswered' /\ NoDocumentNoLoad'
  BY <1>1, <1>3 DEF LInv, HintsAnswered, NoDocumentNoLoad
<1>8. LoaderDone'
  BY <1>1 DEF LoaderDone
<1> QED BY <1>3, <1>4, <1>5, <1>6, <1>7, <1>8 DEF LInv

LEMMA ReferenceFailed ==
  ASSUME WorldType, LInv, FollowFails, UNCHANGED world
  PROVE  LInv' /\ schemas' = schemas
<1>1. /\ UNCHANGED <<hintAt, outcome, current, hints, broken, problem, schemas, unreachable>>
      /\ outcome = "loading" /\ pending' = <<>> /\ queue' = <<>> /\ errors' = errors \cup {hintAt - 1}
  BY DEF FollowFails, AtReference, world
<1>2. hintAt - 1 \in Nat /\ Len(hints) \in Nat
  BY Uri DEF LInv, LoaderType
<1>3. <<>> \in Seq(Uris) /\ <<>> \in Seq(Locations)
  OBVIOUS
<1>4. LoaderType'
  BY <1>1, <1>2, <1>3 DEF LInv, LoaderType
<1>5. FollowsItsOwn' /\ NothingBroken' /\ NothingForgotten'
  BY <1>1, EmptyElems DEF LInv, FollowsItsOwn, NothingBroken, NothingForgotten
<1>6. HintsAnswered' /\ NoDocumentNoLoad' /\ LoaderDone'
  BY <1>1 DEF LInv, HintsAnswered, NoDocumentNoLoad, LoaderDone
<1> QED BY <1>1, <1>4, <1>5, <1>6 DEF LInv

LEMMA LoadSettled ==
  ASSUME WorldType, LInv, Settle \/ Compile, UNCHANGED world
  PROVE  LInv' /\ schemas' = schemas
<1>1. UNCHANGED <<hintAt, schemas, queue, current, pending, errors, unreachable, hints, problem, broken>>
  BY DEF Settle, Compile, world
<1>2. outcome' \in {"loading", "loaded", "compiled", "refused"}
  BY DEF Settle, Compile
<1>3. LoaderType' /\ FollowsItsOwn' /\ NothingBroken' /\ HintsAnswered' /\ NoDocumentNoLoad'
  BY <1>1, <1>2 DEF LInv, LoaderType, FollowsItsOwn, NothingBroken, HintsAnswered, NoDocumentNoLoad
<1>4. NothingForgotten'
  BY <1>1 DEF LInv, NothingForgotten, LeftToFollow
<1>5. BetweenHints' /\ (hintAt = Len(hints) + 1)'
  <2>1. CASE Settle
    BY <2>1, <1>1, Uri DEF Settle, BetweenHints, LInv, LoaderType
  <2>2. CASE Compile
    BY <2>2, <1>1 DEF Compile, BetweenHints, LInv, LoaderDone
  <2> QED BY <2>1, <2>2
<1>6. outcome' \in {"loaded", "compiled"} => errors = {} /\ \A i \in unreachable : Provided(i)
  BY DEF Settle, Compile, LInv, LoaderDone
<1>7. LoaderDone'
  BY <1>1, <1>5, <1>6 DEF LoaderDone, Provided
<1> QED BY <1>1, <1>3, <1>4, <1>7 DEF LInv

LEMMA LoaderIdles ==
  ASSUME LInv, UNCHANGED <<loader, hints, problem, broken>>
  PROVE  LInv'
<1>1. UNCHANGED <<hintAt, schemas, queue, current, pending, errors, unreachable, outcome, hints, problem, broken>>
  BY DEF loader
<1>2. LoaderType' /\ FollowsItsOwn' /\ NothingBroken' /\ HintsAnswered' /\ NoDocumentNoLoad'
  BY <1>1 DEF LInv, LoaderType, FollowsItsOwn, NothingBroken, HintsAnswered, NoDocumentNoLoad
<1>3. NothingForgotten'
  BY <1>1 DEF LInv, NothingForgotten, LeftToFollow
<1>4. LoaderDone'
  BY <1>1 DEF LInv, LoaderDone, BetweenHints, Provided
<1> QED BY <1>2, <1>3, <1>4 DEF LInv

LEMMA LoaderSteps ==
  ASSUME WorldType, LInv, [Load \/ Collect \/ Change]_vars
  PROVE  LInv'
<1>1. CASE Load
  BY <1>1, HintFailed, HintLoaded, SchemaPopped, ReferenceFollowed, ReferenceFailed, LoadSettled
  DEF Load, LoaderStep
<1>2. CASE Collect \/ Change \/ UNCHANGED vars
  <2>1. UNCHANGED <<loader, hints, problem, broken>>
    BY <1>2 DEF Collect, Change, NetworkChanges, vars, world
  <2> QED BY <2>1, LoaderIdles
<1> QED BY <1>1, <1>2

LEMMA LoaderInvariant == Spec => [](WorldType /\ LInv)
<1>1. Init /\ WorldType => LInv
  BY LoaderStarts DEF Init
<1>2. LInv /\ WorldType /\ [Load \/ Collect \/ Change]_vars => LInv'
  BY LoaderSteps
<1> QED BY <1>1, <1>2, WorldTyped, PTL DEF Spec

-------------------------------------------------------------------------------
(* The loader implements SchemaClosure.                                    *)

LEMMA SameWanted == \A u, d : Closure!Wanted(u, d) = Wanted(u, d)
BY DEF Closure!Wanted, Wanted

LEMMA NeedsWanted ==
  ASSUME WorldType, NEW k \in Uris
  PROVE  Closure!Needs(k) = Wanted(k, Target[k])
<1>1. Wanted(k, Target[k]) \subseteq Uris \cup {NoUri}
  BY WantedUri, Uri
<1>2. \A u \in Wanted(k, Target[k]) : (IF u = NoUri THEN NoUri ELSE [v \in Uris |-> v][u]) = u
  BY <1>1
<1> QED BY <1>2, SameWanted DEF Closure!Needs

LEMMA LoadsOne ==
  ASSUME WorldType, LInv, NEW k \in Uris, outcome = "loading", outcome' = "loading",
         k \in Closure!HintedKeys \/ \E j \in Elems(schemas) : k \in Wanted(j, Target[j]),
         Elems(schemas') = Elems(schemas) \cup {k}
  PROVE  Closure!Load
<1>1. Elems(schemas) \subseteq Uris
  BY ElemsIn DEF LInv, LoaderType
<1>2. k \in Closure!HintedKeys \/ \E j \in Elems(schemas) : k \in Closure!Needs(j)
  BY <1>1, NeedsWanted
<1>3. ~(outcome = "compiled") /\ ((outcome = "compiled")' <=> (outcome = "compiled"))
  OBVIOUS
<1>4. k \in Closure!HintedKeys \cup UNION {Closure!Needs(j) : j \in Elems(schemas)}
  BY <1>2
<1> QED BY <1>3, <1>4 DEF Closure!Load, Elems

(* What compiles is complete.                                              *)
LEMMA LoadedIsComplete ==
  ASSUME WorldType, LInv, outcome \in {"loaded", "compiled"}
  PROVE  Closure!Complete
<1>1. errors = {} /\ BetweenHints /\ hintAt = Len(hints) + 1 /\ \A i \in unreachable : Provided(i)
  BY DEF LInv, LoaderDone
<1>2. ~problem
  BY <1>1 DEF LInv, NoDocumentNoLoad
<1>3. Elems(schemas) \subseteq Uris
  BY ElemsIn DEF LInv, LoaderType
<1>4. ASSUME NEW i \in DOMAIN hints PROVE Closure!Met(hints[i])
  <2>1. i \in 1 .. hintAt - 1
    BY <1>1, Uri
  <2>2. CASE Target[hints[i].location] \in Elems(schemas)
    BY <2>2 DEF Closure!Met, Elems
  <2>3. CASE i \in unreachable
    BY <2>3, <1>1 DEF Closure!Met, Provided
  <2> QED BY <2>1, <2>2, <2>3, <1>1 DEF LInv, HintsAnswered
<1>5. ASSUME NEW k \in Elems(schemas) PROVE Closure!Needs(k) \subseteq Elems(schemas) /\ Target[k] \notin broken
  <2>1. Elems(queue) = {} /\ Elems(pending) = {}
    BY <1>1, EmptyElems DEF BetweenHints
  <2>2. \A u \in Wanted(k, Target[k]) : u \in Elems(schemas)
    BY <1>1, <2>1 DEF LInv, NothingForgotten, LeftToFollow
  <2> QED BY <2>2, <1>3, NeedsWanted DEF LInv, NothingBroken
<1> QED BY <1>2, <1>4, <1>5 DEF Closure!Complete, Elems

LEMMA ClosureStep ==
  ASSUME WorldType, LInv, [Load \/ Collect \/ Change]_vars
  PROVE  [Closure!Load \/ Closure!Accept]_<<{schemas[i] : i \in DOMAIN schemas}, outcome = "compiled">>
<1> DEFINE cv == <<{schemas[i] : i \in DOMAIN schemas}, outcome = "compiled">>
<1>1. ASSUME UNCHANGED <<schemas, outcome>> PROVE UNCHANGED cv
  BY <1>1
<1>2. CASE HintIsEntry /\ UNCHANGED world
  <2>1. outcome = "loading" /\ outcome' = "loading" /\ Target[Hint] \in Uris /\ Hint = hints[hintAt].location
        /\ hintAt \in DOMAIN hints
    BY <1>2, HintLoaded, Uri DEF HintIsEntry, AtHint
  <2>2. Target[Hint] \in Closure!HintedKeys
    BY <2>1 DEF Closure!HintedKeys
  <2> QED BY <1>2, <2>1, <2>2, HintLoaded, LoadsOne
<1>3. CASE (FollowKnown \/ FollowNew) /\ UNCHANGED world
  <2>1. AtReference /\ Followed # NoUri /\ outcome = "loading" /\ outcome' = "loading"
    BY <1>3 DEF FollowKnown, FollowNew, AtReference
  <2>2. Elems(schemas') = Elems(schemas) \cup {Followed}
    BY <1>3, ReferenceFollowed
  <2> QED BY <2>1, <2>2, FollowedIsWanted, LoadsOne
<1>4. CASE Settle
  <2>1. schemas' = schemas /\ (outcome = "compiled" <=> outcome' = "compiled")
    BY <1>4 DEF Settle
  <2> QED BY <2>1
<1>5. CASE Compile
  <2>1. outcome = "loaded" /\ schemas' = schemas /\ outcome' \in {"compiled", "refused"}
    BY <1>5 DEF Compile
  <2>2. CASE outcome' = "compiled"
    BY <2>1, <2>2, LoadedIsComplete DEF Closure!Accept
  <2>3. CASE outcome' = "refused"
    <3>1. schemas' = schemas /\ (outcome = "compiled" <=> outcome' = "compiled")
      BY <2>1, <2>3
    <3> QED BY <3>1
  <2> QED BY <2>1, <2>2, <2>3
<1>6. CASE HintUnreachable \/ HintKnown \/ HintDoesNotParse \/ NextSchema \/ FollowFails
  <2>1. UNCHANGED <<schemas, outcome>>
    BY <1>6 DEF HintUnreachable, HintKnown, HintDoesNotParse, NextSchema, FollowFails, AtHint, AtReference
  <2> QED BY <1>1, <2>1
<1>7. CASE Collect \/ Change \/ UNCHANGED vars
  <2>1. UNCHANGED <<schemas, outcome>>
    BY <1>7 DEF Collect, Change, vars, loader
  <2> QED BY <1>1, <2>1
<1> QED BY <1>2, <1>3, <1>4, <1>5, <1>6, <1>7 DEF Load, LoaderStep

(* Validation loads only what hints and loaded documents ask for, and      *)
(* compiles only a complete set (load_hinted_schema, resolve_entry,        *)
(* settle_unreachable_hints), whatever fails and whenever servers change.  *)
THEOREM LoaderImplementsClosure == Spec => LoadsTheClosure
<1>1. Init => Closure!ClosureInit
  BY DEF Init, LoaderInit, Closure!ClosureInit
<1>2. WorldType /\ LInv /\ [Load \/ Collect \/ Change]_vars
      => [Closure!Load \/ Closure!Accept]_<<{schemas[i] : i \in DOMAIN schemas}, outcome = "compiled">>
  BY ClosureStep
<1> QED BY <1>1, <1>2, LoaderInvariant, PTL DEF Spec, LoadsTheClosure, Closure!ClosureSpec

-------------------------------------------------------------------------------
(* The collector.                                                          *)

CollectorType ==
  /\ nextHint \in 1 .. Len(hints) + 1
  /\ docs \in Seq(Uris) /\ byUri \in [Uris -> Nat]
  /\ toParse \in Seq(DOMAIN docs) /\ toFollow \in Seq(Locations) /\ parsed \subseteq DOMAIN docs
  /\ lost \subseteq 1 .. Len(hints)
  /\ collection \in {"collecting", "collected", "refused", "builtin"}

(* Each document is kept once, under its final URL, and a URL leads to     *)
(* what it is redirected to.                                               *)
NamesOneDocument ==
  /\ \A i \in DOMAIN docs : Target[docs[i]] = docs[i] /\ byUri[docs[i]] = i
  /\ \A u \in Uris : byUri[u] # 0 => byUri[u] \in DOMAIN docs /\ docs[byUri[u]] = Target[u]

Has(u) == byUri[u] # 0

(* Each reference of a parsed document was collected, or is still to be    *)
(* followed; the others are still to be parsed.                            *)
NothingLeftOut ==
  /\ \A i \in DOMAIN docs : i \in parsed \/ i \in Elems(toParse)
  /\ toFollow # <<>> => parsing \in DOMAIN docs /\ Elems(toFollow) \subseteq Elems(References[docs[parsing]])
  /\ \A i \in parsed :
       /\ docs[i] \notin broken
       /\ \A u \in ExportWanted(docs[i]) :
            Has(u) \/ (i = parsing /\ \E l \in Elems(toFollow) : u = ExportResolve[docs[i]][l])

HintsCollected ==
  \A i \in 1 .. nextHint - 1 : i \in lost \/ byUri[hints[i].location] # 0

Fulfilled(i) ==
  /\ hints[i].namespace # NoNamespace
  /\ \E j \in DOMAIN docs : NamespaceOf[docs[j]] = hints[i].namespace

CollectorDone ==
  /\ problem => collection = "refused"
  /\ collection = "builtin" => hints = <<>>
  /\ collection = "collected" =>
       /\ nextHint = Len(hints) + 1 /\ toFollow = <<>> /\ toParse = <<>>
       /\ \A i \in lost : Fulfilled(i)

CInv == CollectorType /\ NamesOneDocument /\ NothingLeftOut /\ HintsCollected /\ CollectorDone

LEMMA CollectorStarts ==
  ASSUME WorldType, CollectorInit
  PROVE  CInv
<1>1. <<>> \in Seq(Uris) /\ <<>> \in Seq(Locations) /\ Len(hints) \in Nat /\ DOMAIN <<>> = {}
  BY DEF WorldType
<1>2. <<>> \in Seq({})
  OBVIOUS
<1>3. CollectorType
  BY <1>1, <1>2 DEF CollectorInit, CollectorType, WorldType
<1> QED BY <1>1, <1>3, EmptyElems DEF CollectorInit, CInv, NamesOneDocument, NothingLeftOut,
     HintsCollected, CollectorDone, WorldType

(* fetch_new, of a URL that the set does not have.                         *)
LEMMA Fetched ==
  ASSUME WorldType, CollectorType, NamesOneDocument, NEW u \in Uris, byUri[u] = 0, FetchNew(u)
  PROVE  /\ docs' \in Seq(Uris) /\ byUri' \in [Uris -> Nat] /\ toParse' \in Seq(DOMAIN docs')
         /\ NamesOneDocument'
         /\ Elems(docs') = Elems(docs) \cup {Target[u]}
         /\ DOMAIN docs \subseteq DOMAIN docs' /\ \A i \in DOMAIN docs : docs'[i] = docs[i]
         /\ \A v \in Uris : byUri[v] # 0 => byUri'[v] # 0
         /\ \A v \in Uris : byUri'[v] # 0 => byUri[v] # 0 \/ v \in {u, Target[u]}
         /\ byUri'[u] # 0
         /\ Elems(toParse) \subseteq Elems(toParse')
         /\ \A i \in DOMAIN docs' : i \in DOMAIN docs \/ i \in Elems(toParse')
<1> DEFINE t == Target[u]
           n == Len(docs) + 1
<1>1. t \in Uris /\ Target[t] = t
  BY Uri
<1>2. docs \in Seq(Uris) /\ byUri \in [Uris -> Nat] /\ toParse \in Seq(DOMAIN docs) /\ Len(docs) \in Nat
      /\ DOMAIN docs = 1 .. Len(docs)
  BY DEF CollectorType
<1>3. CASE byUri[t] # 0
  <2>1. docs' = docs /\ toParse' = toParse /\ byUri' = [byUri EXCEPT ![t] = byUri[t], ![u] = byUri[t]]
    BY <1>3 DEF FetchNew
  <2>2. byUri[t] \in DOMAIN docs /\ docs[byUri[t]] = t
    BY <1>1, <1>3 DEF NamesOneDocument
  <2>3. byUri' \in [Uris -> Nat] /\ byUri'[u] = byUri[t] /\ \A v \in Uris \ {u} : byUri'[v] = byUri[v]
    BY <2>1, <1>1, <1>2
  <2>4. NamesOneDocument'
    <3>1. \A i \in DOMAIN docs : docs[i] # u /\ docs[i] \in Uris
      BY <1>2 DEF NamesOneDocument
    <3> QED BY <2>1, <2>2, <2>3, <3>1 DEF NamesOneDocument
  <2>5. t \in Elems(docs)
    BY <2>2 DEF Elems
  <2> QED BY <2>1, <2>2, <2>3, <2>4, <2>5, <1>2, <1>3
<1>4. CASE byUri[t] = 0
  <2>1. docs' = Append(docs, t) /\ toParse' = Append(toParse, n) /\ byUri' = [byUri EXCEPT ![t] = n, ![u] = n]
    BY <1>4 DEF FetchNew
  <2>2. docs' \in Seq(Uris) /\ Elems(docs') = Elems(docs) \cup {t} /\ DOMAIN docs' = 1 .. n
        /\ (\A i \in 1 .. Len(docs) : docs'[i] = docs[i]) /\ docs'[n] = t
    BY <2>1, <1>1, <1>2, AppendElems
  <2>3. toParse' \in Seq(DOMAIN docs') /\ Elems(toParse') = Elems(toParse) \cup {n}
    <3>1. DOMAIN docs' = DOMAIN docs \cup {n} /\ n \in DOMAIN docs'
      BY <2>2, <1>2
    <3>2. toParse \in Seq(DOMAIN docs')
      <4>1. \A A, B : A \subseteq B => Seq(A) \subseteq Seq(B)
        OBVIOUS
      <4> QED BY <4>1, <3>1, <1>2
    <3> HIDE DEF n
    <3> QED BY <3>1, <3>2, <2>1, AppendElems
  <2>4. byUri' \in [Uris -> Nat] /\ byUri'[u] = n /\ byUri'[t] = n
        /\ \A v \in Uris \ {u, t} : byUri'[v] = byUri[v]
    BY <2>1, <1>1, <1>2
  <2>5. NamesOneDocument'
    <3>1. \A i \in DOMAIN docs : docs[i] \in Uris \ {u, t} /\ Target[docs[i]] = docs[i] /\ byUri[docs[i]] = i
      BY <1>2, <1>4 DEF NamesOneDocument
    <3>2. ASSUME NEW i \in 1 .. n PROVE Target[docs'[i]] = docs'[i] /\ byUri'[docs'[i]] = i
      <4>1. CASE i = n
        BY <4>1, <2>2, <2>4, <1>1
      <4>2. CASE i # n
        <5>1. i \in DOMAIN docs /\ docs'[i] = docs[i]
          BY <4>2, <2>2, <1>2
        <5> QED BY <5>1, <3>1, <2>4
      <4> QED BY <4>1, <4>2
    <3>3. ASSUME NEW v \in Uris, byUri'[v] # 0 PROVE byUri'[v] \in 1 .. n /\ docs'[byUri'[v]] = Target[v]
      <4>1. CASE v \in {u, t}
        BY <4>1, <2>2, <2>4, <1>1, <1>2
      <4>2. CASE v \notin {u, t}
        <5>1. byUri'[v] = byUri[v] /\ byUri[v] \in 1 .. Len(docs) /\ docs[byUri[v]] = Target[v]
          BY <4>2, <3>3, <2>4, <1>2 DEF NamesOneDocument
        <5> QED BY <5>1, <2>2, <1>2
      <4> QED BY <4>1, <4>2
    <3> QED BY <3>2, <3>3, <2>2 DEF NamesOneDocument
  <2>6. \A v \in Uris : /\ byUri[v] # 0 => byUri'[v] # 0
                       /\ byUri'[v] # 0 => byUri[v] # 0 \/ v \in {u, t}
    BY <2>4, <1>2, <1>4
  <2>7. byUri'[u] # 0
    BY <2>4, <1>2
  <2>8. \A i \in DOMAIN docs' : i \in DOMAIN docs \/ i \in Elems(toParse')
    BY <2>2, <2>3, <1>2
  <2>9. DOMAIN docs \subseteq DOMAIN docs' /\ \A i \in DOMAIN docs : docs'[i] = docs[i]
    BY <2>2, <1>2
  <2> HIDE DEF n
  <2> QED BY <2>2, <2>3, <2>4, <2>5, <2>6, <2>7, <2>8, <2>9
<1> QED BY <1>3, <1>4

LEMMA DocumentElems ==
  ASSUME CollectorType
  PROVE  /\ Elems(docs) \subseteq Uris /\ \A i \in DOMAIN docs : docs[i] \in Uris /\ docs[i] \in Elems(docs)
         /\ DOMAIN docs = 1 .. Len(docs) /\ Len(docs) \in Nat
BY DEF CollectorType, Elems

LEMMA HintSkipped ==
  ASSUME WorldType, CInv, CollectKnownHint \/ LoseHint, UNCHANGED world
  PROVE  CInv' /\ docs' = docs
<1>1. /\ UNCHANGED <<docs, byUri, toParse, parsing, toFollow, parsed, collection, hints, broken, problem>>
      /\ collection = "collecting" /\ nextHint \in 1 .. Len(hints) /\ nextHint' = nextHint + 1
      /\ Len(hints) \in Nat /\ Named = hints[nextHint].location
  BY Uri DEF CollectKnownHint, LoseHint, AtNextHint, CInv, CollectorType, world, Named
<1>2. /\ lost \subseteq lost' /\ lost' \subseteq 1 .. Len(hints)
      /\ nextHint \in lost' \/ byUri[hints[nextHint].location] # 0
  BY <1>1 DEF CollectKnownHint, LoseHint, CInv, CollectorType
<1>3. CollectorType'
  BY <1>1, <1>2 DEF CInv, CollectorType
<1>4. NamesOneDocument' /\ NothingLeftOut'
  BY <1>1 DEF CInv, NamesOneDocument, NothingLeftOut, Has
<1>5. HintsCollected'
  <2>1. 1 .. nextHint' - 1 = (1 .. nextHint - 1) \cup {nextHint}
    BY <1>1
  <2> QED BY <1>1, <1>2, <2>1 DEF CInv, HintsCollected
<1>6. CollectorDone'
  BY <1>1 DEF CInv, CollectorDone
<1> QED BY <1>1, <1>3, <1>4, <1>5, <1>6 DEF CInv

(* The documents that are left of NothingLeftOut after a fetch.            *)
LEMMA FetchLeavesNothing ==
  ASSUME WorldType, CInv, NEW u \in Uris, byUri[u] = 0, FetchNew(u),
         parsing' = parsing, parsed' = parsed,
         broken' = broken, Elems(toFollow') \subseteq Elems(toFollow), toFollow' # <<>> => toFollow # <<>>,
         \A l \in Elems(toFollow) : l \in Elems(toFollow') \/ ExportResolve[docs[parsing]][l] = u
  PROVE  NothingLeftOut'
<1>1. /\ docs \in Seq(Uris) /\ DOMAIN docs \subseteq DOMAIN docs' /\ \A i \in DOMAIN docs : docs'[i] = docs[i]
      /\ \A v \in Uris : byUri[v] # 0 => byUri'[v] # 0
      /\ byUri'[u] # 0 /\ Elems(toParse) \subseteq Elems(toParse')
      /\ \A i \in DOMAIN docs' : i \in DOMAIN docs \/ i \in Elems(toParse')
  BY Fetched DEF CInv, CollectorType
<1>2. \A i \in DOMAIN docs' : i \in parsed' \/ i \in Elems(toParse')
  BY <1>1 DEF CInv, NothingLeftOut
<1>3. toFollow' # <<>> => parsing \in DOMAIN docs' /\ Elems(toFollow') \subseteq Elems(References[docs'[parsing]])
  BY <1>1 DEF CInv, NothingLeftOut
<1>4. ASSUME NEW i \in parsed PROVE docs'[i] = docs[i] /\ docs[i] \notin broken /\ i \in DOMAIN docs
  BY <1>1 DEF CInv, NothingLeftOut, CollectorType
<1>5. ASSUME NEW i \in parsed, NEW v \in ExportWanted(docs[i])
      PROVE  Has(v)' \/ (i = parsing /\ \E l \in Elems(toFollow') : v = ExportResolve[docs[i]][l])
  <2>1. v \in Uris
    BY <1>4, ExportWantedUri, DocumentElems DEF CInv
  <2>2. CASE Has(v)
    BY <2>1, <2>2, <1>1 DEF Has
  <2>3. CASE i = parsing /\ \E l \in Elems(toFollow) : v = ExportResolve[docs[i]][l]
    <3>1. PICK l \in Elems(toFollow) : v = ExportResolve[docs[i]][l]
      BY <2>3
    <3> QED BY <2>3, <3>1, <1>1 DEF Has
  <2> QED BY <2>2, <2>3 DEF CInv, NothingLeftOut
<1> QED BY <1>2, <1>3, <1>4, <1>5 DEF NothingLeftOut

(* What a fetch does to the rest of the invariant.                         *)
LEMMA FetchKeeps ==
  ASSUME WorldType, CInv, NEW u \in Uris, byUri[u] = 0, FetchNew(u), UNCHANGED <<hints, parsed, lost, collection>>,
         toFollow' \in Seq(Locations), nextHint' \in 1 .. Len(hints) + 1
  PROVE  CollectorType'
<1>1. /\ docs' \in Seq(Uris) /\ byUri' \in [Uris -> Nat] /\ toParse' \in Seq(DOMAIN docs')
      /\ DOMAIN docs \subseteq DOMAIN docs'
  BY Fetched DEF CInv
<1> QED BY <1>1 DEF CInv, CollectorType

LEMMA HintCollected ==
  ASSUME WorldType, CInv, CollectHint, UNCHANGED world
  PROVE  /\ CInv' /\ Elems(docs') = Elems(docs) \cup {Target[Named]}
         /\ Named \in Uris /\ Named = hints[nextHint].location /\ nextHint \in DOMAIN hints
<1>1. /\ UNCHANGED <<parsing, toFollow, parsed, lost, collection, hints, broken, problem>>
      /\ collection = "collecting" /\ nextHint \in 1 .. Len(hints) /\ nextHint' = nextHint + 1
      /\ Len(hints) \in Nat /\ Named = hints[nextHint].location /\ byUri[Named] = 0 /\ FetchNew(Named)
  BY Uri DEF CollectHint, AtNextHint, CInv, CollectorType, world, Named
<1>2. Named \in Uris
  BY <1>1, Uri
<1>3. CollectorType'
  BY <1>1, <1>2, FetchKeeps DEF CInv, CollectorType
<1>4. NamesOneDocument' /\ Elems(docs') = Elems(docs) \cup {Target[Named]}
  BY <1>1, <1>2, Fetched DEF CInv
<1>5. NothingLeftOut'
  BY <1>1, <1>2, FetchLeavesNothing
<1>6. HintsCollected'
  <2>1. 1 .. nextHint' - 1 = (1 .. nextHint - 1) \cup {nextHint}
    BY <1>1
  <2>2. byUri'[Named] # 0 /\ \A v \in Uris : byUri[v] # 0 => byUri'[v] # 0
    BY <1>1, <1>2, Fetched DEF CInv
  <2>3. \A i \in 1 .. nextHint - 1 : hints[i].location \in Uris
    BY <1>1, Uri
  <2> QED BY <1>1, <2>1, <2>2, <2>3 DEF CInv, HintsCollected
<1>7. CollectorDone'
  BY <1>1 DEF CInv, CollectorDone
<1> QED BY <1>1, <1>2, <1>3, <1>4, <1>5, <1>6, <1>7, Uri DEF CInv

LEMMA DocumentParsed ==
  ASSUME WorldType, CInv, ParseNext, UNCHANGED world
  PROVE  CInv' /\ docs' = docs
<1> DEFINE h == Head(toParse)
<1>1. /\ UNCHANGED <<nextHint, docs, byUri, lost, collection, hints, broken, problem>>
      /\ collection = "collecting" /\ toFollow = <<>> /\ toParse # <<>> /\ docs[h] \notin broken
      /\ parsing' = h /\ toParse' = Tail(toParse) /\ toFollow' = References[docs[h]] /\ parsed' = parsed \cup {h}
  BY DEF ParseNext, Collecting, world
<1>2. h \in DOMAIN docs /\ Tail(toParse) \in Seq(DOMAIN docs) /\ Elems(toParse) = {h} \cup Elems(Tail(toParse))
  BY <1>1, TailElems DEF CInv, CollectorType
<1> HIDE DEF h
<1>3. docs[h] \in Uris /\ References[docs[h]] \in Seq(Locations)
  BY <1>2, Uri, DocumentElems DEF CInv
<1>4. CollectorType'
  BY <1>1, <1>2, <1>3 DEF CInv, CollectorType
<1>5. NamesOneDocument'
  BY <1>1 DEF CInv, NamesOneDocument
<1>6. NothingLeftOut'
  <2>1. \A i \in DOMAIN docs : i \in parsed' \/ i \in Elems(toParse')
    BY <1>1, <1>2 DEF CInv, NothingLeftOut
  <2>2. \A v \in ExportWanted(docs[h]) : \E l \in Elems(toFollow') : v = ExportResolve[docs[h]][l]
    BY <1>1, ExportWantedElems
  <2>3. ASSUME NEW i \in parsed, NEW v \in ExportWanted(docs[i]) PROVE Has(v)
    BY <1>1, EmptyElems DEF CInv, NothingLeftOut
  <2>4. \A i \in parsed' : docs[i] \notin broken
    BY <1>1 DEF CInv, NothingLeftOut
  <2> QED BY <2>1, <2>2, <2>3, <2>4, <1>1, <1>2 DEF NothingLeftOut, Has
<1>7. HintsCollected' /\ CollectorDone'
  BY <1>1 DEF CInv, HintsCollected, CollectorDone
<1> QED BY <1>1, <1>4, <1>5, <1>6, <1>7 DEF CInv

(* What is followed is a reference of the document being parsed.           *)
LEMMA ReferenceIsWanted ==
  ASSUME WorldType, CInv, toFollow # <<>>
  PROVE  /\ parsing \in DOMAIN docs /\ docs[parsing] \in Uris
         /\ Reference \in ExportWanted(docs[parsing]) /\ Reference \in Uris
         /\ Reference = ExportResolve[docs[parsing]][Head(toFollow)]
         /\ Tail(toFollow) \in Seq(Locations) /\ Elems(toFollow) = {Head(toFollow)} \cup Elems(Tail(toFollow))
<1>1. toFollow \in Seq(Locations)
  BY DEF CInv, CollectorType
<1>2. Head(toFollow) \in Locations /\ Tail(toFollow) \in Seq(Locations)
      /\ Elems(toFollow) = {Head(toFollow)} \cup Elems(Tail(toFollow))
  BY <1>1, TailElems
<1>3. parsing \in DOMAIN docs /\ Elems(toFollow) \subseteq Elems(References[docs[parsing]])
  BY DEF CInv, NothingLeftOut
<1>4. docs[parsing] \in Uris
  BY <1>3, DocumentElems DEF CInv
<1>5. Reference = ExportResolve[docs[parsing]][Head(toFollow)]
  BY DEF Reference
<1> QED BY <1>2, <1>3, <1>4, <1>5, Uri, ExportWantedElems

LEMMA ReferenceKnown ==
  ASSUME WorldType, CInv, CollectKnown, UNCHANGED world
  PROVE  CInv' /\ docs' = docs
<1>1. /\ UNCHANGED <<nextHint, docs, byUri, toParse, parsing, parsed, lost, collection, hints, broken, problem>>
      /\ collection = "collecting" /\ toFollow # <<>> /\ toFollow' = Tail(toFollow)
      /\ byUri[Reference] # 0
  BY DEF CollectKnown, Collecting, world
<1>2. CollectorType'
  BY <1>1, ReferenceIsWanted DEF CInv, CollectorType
<1>3. NamesOneDocument' /\ HintsCollected' /\ CollectorDone'
  BY <1>1 DEF CInv, NamesOneDocument, HintsCollected, CollectorDone
<1>4. NothingLeftOut'
  <2>1. toFollow' # <<>> => parsing \in DOMAIN docs /\ Elems(toFollow') \subseteq Elems(References[docs[parsing]])
    BY <1>1, ReferenceIsWanted DEF CInv, NothingLeftOut
  <2>2. ASSUME NEW i \in parsed, NEW v \in ExportWanted(docs[i])
        PROVE  Has(v) \/ (i = parsing /\ \E l \in Elems(toFollow') : v = ExportResolve[docs[i]][l])
    <3>1. CASE i = parsing /\ \E l \in Elems(toFollow) : v = ExportResolve[docs[i]][l]
      BY <3>1, <1>1, ReferenceIsWanted DEF Has
    <3> QED BY <3>1 DEF CInv, NothingLeftOut
  <2> QED BY <2>1, <2>2, <1>1 DEF CInv, NothingLeftOut, Has
<1> QED BY <1>1, <1>2, <1>3, <1>4 DEF CInv

LEMMA ReferenceCollected ==
  ASSUME WorldType, CInv, CollectReference, UNCHANGED world
  PROVE  CInv' /\ Elems(docs') = Elems(docs) \cup {Target[Reference]}
<1>1. /\ UNCHANGED <<nextHint, parsing, parsed, lost, collection, hints, broken, problem>>
      /\ collection = "collecting" /\ toFollow # <<>> /\ toFollow' = Tail(toFollow)
      /\ byUri[Reference] = 0 /\ FetchNew(Reference)
  BY DEF CollectReference, Collecting, world
<1>2. Reference \in Uris
  BY <1>1, ReferenceIsWanted
<1>3. CollectorType'
  BY <1>1, <1>2, FetchKeeps, ReferenceIsWanted DEF CInv, CollectorType
<1>4. NamesOneDocument' /\ Elems(docs') = Elems(docs) \cup {Target[Reference]}
  BY <1>1, <1>2, Fetched DEF CInv
<1>5. NothingLeftOut'
  <2>1. Elems(toFollow') \subseteq Elems(toFollow)
        /\ \A l \in Elems(toFollow) : l \in Elems(toFollow') \/ ExportResolve[docs[parsing]][l] = Reference
    BY <1>1, ReferenceIsWanted
  <2> QED BY <1>1, <1>2, <2>1, FetchLeavesNothing
<1>6. HintsCollected'
  <2>1. \A v \in Uris : byUri[v] # 0 => byUri'[v] # 0
    BY <1>1, <1>2, Fetched DEF CInv
  <2>2. \A i \in 1 .. nextHint - 1 : hints[i].location \in Uris
    BY Uri DEF CInv, CollectorType
  <2> QED BY <1>1, <2>1, <2>2 DEF CInv, HintsCollected
<1>7. CollectorDone'
  BY <1>1 DEF CInv, CollectorDone
<1> QED BY <1>3, <1>4, <1>5, <1>6, <1>7 DEF CInv

LEMMA CollectionSettled ==
  ASSUME WorldType, CInv, CollectFails \/ SettleLost, UNCHANGED world
  PROVE  CInv' /\ docs' = docs
<1>1. /\ UNCHANGED <<nextHint, docs, byUri, toParse, parsing, toFollow, parsed, lost, hints, broken, problem>>
      /\ collection = "collecting" /\ nextHint > Len(hints) /\ collection' \in {"collected", "refused"}
  BY DEF CollectFails, SettleLost, Collecting, world
<1>2. CollectorType' /\ NamesOneDocument' /\ HintsCollected'
  BY <1>1 DEF CInv, CollectorType, NamesOneDocument, HintsCollected
<1>3. NothingLeftOut'
  BY <1>1 DEF CInv, NothingLeftOut, Has
<1>4. nextHint = Len(hints) + 1
  BY <1>1, Uri DEF CInv, CollectorType
<1>5. collection' = "collected" => toFollow = <<>> /\ toParse = <<>> /\ \A i \in lost : Fulfilled(i)
  BY <1>1 DEF CollectFails, SettleLost, Fulfilled
<1>6. CollectorDone'
  BY <1>1, <1>4, <1>5 DEF CInv, CollectorDone, Fulfilled
<1> QED BY <1>1, <1>2, <1>3, <1>6 DEF CInv

LEMMA CollectorSteps ==
  ASSUME WorldType, CInv, [Load \/ Collect \/ Change]_vars
  PROVE  CInv'
<1>1. CASE Collect
  BY <1>1, HintSkipped, HintCollected, DocumentParsed, ReferenceKnown, ReferenceCollected, CollectionSettled
  DEF Collect, CollectorStep
<1>2. CASE Load \/ Change \/ UNCHANGED vars
  <2>1. UNCHANGED <<nextHint, docs, byUri, toParse, parsing, toFollow, parsed, lost, collection, hints, broken, problem>>
    BY <1>2 DEF Load, Change, NetworkChanges, vars, world, collector
  <2>2. CollectorType' /\ NamesOneDocument' /\ HintsCollected'
    BY <2>1 DEF CInv, CollectorType, NamesOneDocument, HintsCollected
  <2>3. NothingLeftOut'
    BY <2>1 DEF CInv, NothingLeftOut, Has
  <2>4. CollectorDone'
    BY <2>1 DEF CInv, CollectorDone, Fulfilled
  <2> QED BY <2>2, <2>3, <2>4 DEF CInv
<1> QED BY <1>1, <1>2

LEMMA CollectorInvariant == Spec => [](WorldType /\ CInv)
<1>1. Init /\ WorldType => CInv
  BY CollectorStarts DEF Init
<1>2. CInv /\ WorldType /\ [Load \/ Collect \/ Change]_vars => CInv'
  BY CollectorSteps
<1> QED BY <1>1, <1>2, WorldTyped, PTL DEF Spec

-------------------------------------------------------------------------------
(* What was collected.                                                     *)

LEMMA CollectedIsClosed ==
  ASSUME WorldType, CInv, toFollow = <<>>, toParse = <<>>
  PROVE  \A i \in DOMAIN docs : docs[i] \notin broken /\ \A u \in ExportWanted(docs[i]) : Has(u)
BY EmptyElems DEF CInv, NothingLeftOut

(* Each location of each exported document leads to the one file of the    *)
(* document it means (SchemaSet::resolve, fetch_new).                      *)
THEOREM ExportsAreSelfContained == Spec => []ExportIsSelfContained
<1>1. WorldType /\ CInv => ExportIsSelfContained
  <2> SUFFICES ASSUME WorldType, CInv, collection = "collected" PROVE ExportIsSelfContained
    BY DEF ExportIsSelfContained
  <2>1. toFollow = <<>> /\ toParse = <<>>
    BY DEF CInv, CollectorDone
  <2>2. \A i, j \in DOMAIN docs : docs[i] = docs[j] => i = j
    BY DEF CInv, NamesOneDocument
  <2>3. ASSUME NEW i \in DOMAIN docs, NEW u \in ExportWanted(docs[i])
        PROVE  byUri[u] # 0 /\ docs[byUri[u]] = Target[u]
    <3>1. Has(u)
      BY <2>1, CollectedIsClosed
    <3>2. u \in Uris
      BY <3>1, ExportWantedUri, DocumentElems DEF CInv, Has
    <3> QED BY <3>1, <3>2 DEF Has, CInv, NamesOneDocument
  <2> QED BY <2>2, <2>3 DEF ExportIsSelfContained
<1> QED BY <1>1, CollectorInvariant, PTL

-------------------------------------------------------------------------------
(* The collector implements SchemaClosure.                                 *)

LEMMA SameWantedInSet == \A d : SetClosure!Wanted(d, d) = ExportWanted(d)
BY DEF SetClosure!Wanted, ExportWanted

LEMMA SetNeeds ==
  ASSUME WorldType, CInv, NEW k \in Elems(docs)
  PROVE  /\ k \in Uris /\ Target[k] = k
         /\ SetClosure!Needs(k) = {Target[u] : u \in ExportWanted(k)}
<1>1. k \in Uris /\ Target[k] = k
  BY DocumentElems DEF CInv, NamesOneDocument, Elems
<1>2. NoUri \notin ExportWanted(k)
  BY <1>1, ExportWantedUri, Uri
<1> QED BY <1>1, <1>2, SameWantedInSet DEF SetClosure!Needs

LEMMA CollectsOne ==
  ASSUME WorldType, CInv, NEW k \in Uris, collection = "collecting", collection' = "collecting",
         k \in SetClosure!HintedKeys \/ \E j \in Elems(docs) : k \in SetClosure!Needs(j),
         Elems(docs') = Elems(docs) \cup {k}
  PROVE  SetClosure!Load
<1>1. ~(collection = "collected") /\ ((collection = "collected")' <=> (collection = "collected"))
  OBVIOUS
<1>2. k \in SetClosure!HintedKeys \cup UNION {SetClosure!Needs(j) : j \in Elems(docs)}
  OBVIOUS
<1> QED BY <1>1, <1>2 DEF SetClosure!Load, Elems

LEMMA CollectedIsComplete ==
  ASSUME WorldType, CInv, SettleLost, collection' = "collected"
  PROVE  SetClosure!Complete
<1>1. /\ collection = "collecting" /\ nextHint > Len(hints) /\ toFollow = <<>> /\ toParse = <<>>
      /\ \A i \in lost : Fulfilled(i)
  BY DEF SettleLost, Collecting, Fulfilled
<1>2. ~problem
  BY <1>1 DEF CInv, CollectorDone
<1>3. ASSUME NEW i \in DOMAIN hints PROVE SetClosure!Met(hints[i])
  <2>1. i \in 1 .. nextHint - 1 /\ hints[i].location \in Uris
    BY <1>1, Uri DEF CInv, CollectorType
  <2>2. CASE byUri[hints[i].location] # 0
    <3>1. Target[hints[i].location] \in Elems(docs)
      BY <2>1, <2>2 DEF CInv, NamesOneDocument, Elems
    <3> QED BY <3>1 DEF SetClosure!Met, Elems
  <2>3. CASE i \in lost
    <3>1. PICK j \in DOMAIN docs : NamespaceOf[docs[j]] = hints[i].namespace
      BY <2>3, <1>1 DEF Fulfilled
    <3>2. docs[j] \in Elems(docs) /\ Target[docs[j]] = docs[j]
      BY DEF Elems, CInv, NamesOneDocument
    <3> QED BY <2>3, <1>1, <3>1, <3>2 DEF Fulfilled, SetClosure!Met, Elems
  <2> QED BY <2>1, <2>2, <2>3 DEF CInv, HintsCollected
<1>4. ASSUME NEW k \in Elems(docs) PROVE SetClosure!Needs(k) \subseteq Elems(docs) /\ Target[k] \notin broken
  <2>1. PICK i \in DOMAIN docs : k = docs[i]
    BY DEF Elems
  <2>2. k \notin broken /\ \A u \in ExportWanted(k) : Has(u)
    BY <2>1, <1>1, CollectedIsClosed
  <2>3. \A u \in ExportWanted(k) : u \in Uris
    BY SetNeeds, ExportWantedUri
  <2>4. \A u \in ExportWanted(k) : Target[u] \in Elems(docs)
    BY <2>2, <2>3 DEF Has, CInv, NamesOneDocument, Elems
  <2> QED BY <2>2, <2>3, <2>4, SetNeeds
<1> QED BY <1>2, <1>3, <1>4 DEF SetClosure!Complete, Elems

LEMMA SetClosureStep ==
  ASSUME WorldType, CInv, [Load \/ Collect \/ Change]_vars
  PROVE  [SetClosure!Load \/ SetClosure!Accept]_<<{docs[i] : i \in DOMAIN docs}, collection = "collected">>
<1> DEFINE cv == <<{docs[i] : i \in DOMAIN docs}, collection = "collected">>
<1>1. ASSUME docs' = docs, collection = "collected" <=> collection' = "collected" PROVE UNCHANGED cv
  BY <1>1
<1>2. CASE CollectHint /\ UNCHANGED world
  <2>1. /\ collection = "collecting" /\ collection' = "collecting"
        /\ Elems(docs') = Elems(docs) \cup {Target[Named]} /\ Target[Named] \in Uris
        /\ Named = hints[nextHint].location /\ nextHint \in DOMAIN hints
    BY <1>2, HintCollected, Uri DEF CollectHint, AtNextHint
  <2>2. Target[Named] \in SetClosure!HintedKeys
    BY <2>1 DEF SetClosure!HintedKeys
  <2> QED BY <2>1, <2>2, CollectsOne
<1>3. CASE CollectReference /\ UNCHANGED world
  <2>1. /\ collection = "collecting" /\ collection' = "collecting" /\ toFollow # <<>>
        /\ Elems(docs') = Elems(docs) \cup {Target[Reference]}
    BY <1>3, ReferenceCollected DEF CollectReference, Collecting
  <2>2. Reference \in ExportWanted(docs[parsing]) /\ docs[parsing] \in Elems(docs) /\ Reference \in Uris
    BY <2>1, ReferenceIsWanted DEF Elems
  <2>3. Target[Reference] \in SetClosure!Needs(docs[parsing]) /\ Target[Reference] \in Uris
    BY <2>1, <2>2, SetNeeds, Uri
  <2> QED BY <2>1, <2>2, <2>3, CollectsOne
<1>4. CASE CollectFails
  <2>1. docs' = docs /\ (collection = "collected" <=> collection' = "collected")
    BY <1>4 DEF CollectFails, Collecting
  <2> QED BY <1>1, <2>1
<1>5. CASE SettleLost
  <2>1. collection = "collecting" /\ docs' = docs /\ collection' \in {"collected", "refused"}
    BY <1>5 DEF SettleLost, Collecting
  <2>2. CASE collection' = "collected"
    BY <1>5, <2>1, <2>2, CollectedIsComplete DEF SetClosure!Accept
  <2>3. CASE collection' = "refused"
    BY <1>1, <2>1, <2>3
  <2> QED BY <2>1, <2>2, <2>3
<1>6. CASE CollectKnownHint \/ LoseHint \/ ParseNext \/ CollectKnown
  <2>1. UNCHANGED <<docs, collection>>
    BY <1>6 DEF CollectKnownHint, LoseHint, ParseNext, CollectKnown, AtNextHint
  <2> QED BY <1>1, <2>1
<1>7. CASE Load \/ Change \/ UNCHANGED vars
  <2>1. UNCHANGED <<docs, collection>>
    BY <1>7 DEF Load, Change, vars, collector
  <2> QED BY <1>1, <2>1
<1> QED BY <1>2, <1>3, <1>4, <1>5, <1>6, <1>7 DEF Collect, CollectorStep

(* Export collects only what hints and collected documents ask for, and    *)
(* ends well only with a complete set (SchemaSet, settle_lost_hints).      *)
THEOREM CollectorImplementsClosure == Spec => CollectsTheClosure
<1>1. Init => SetClosure!ClosureInit
  BY DEF Init, CollectorInit, SetClosure!ClosureInit
<1>2. WorldType /\ CInv /\ [Load \/ Collect \/ Change]_vars
      => [SetClosure!Load \/ SetClosure!Accept]_<<{docs[i] : i \in DOMAIN docs}, collection = "collected">>
  BY SetClosureStep
<1> QED BY <1>1, <1>2, CollectorInvariant, PTL DEF Spec, CollectsTheClosure, SetClosure!ClosureSpec

-------------------------------------------------------------------------------
(* The two agree.  A set that holds what the hints lead to and what its    *)
(* documents refer to, all of it to be fetched and parsed, bounds both;    *)
(* and what either ends with is such a set.  Documents count under their   *)
(* final URLs, and their references as export resolves them.               *)

Finals == {Target[s] : s \in Elems(schemas)}

Fits(C) ==
  /\ \A i \in DOMAIN hints : hints[i].location \in up => Target[hints[i].location] \in C
  /\ \A d \in C :
       /\ d \notin broken /\ Target[d] = d
       /\ \A u \in ExportWanted(d) : u \in up /\ Target[u] \in C

(* A hint is unreachable exactly when its server is down.                  *)
HintsTold ==
  /\ \A i \in 1 .. hintAt - 1 : hints[i].location \notin up => i \in unreachable
  /\ \A i \in unreachable : hints[i].location \notin up

FetchedWhileUp ==
  changes = 0 =>
    /\ HintsTold
    /\ \A i \in lost : hints[i].location \notin up
    /\ RedirectsLead => Elems(schemas) \subseteq up /\ \A u \in Uris : byUri[u] # 0 => u \in up

Undisturbed == changes = 0 /\ ~problem /\ hints # <<>>

LoadsWithin ==
  Undisturbed /\ (\A s \in Elems(schemas) : SameReferences(s)) =>
    \A C \in SUBSET Uris : Fits(C) => Finals \subseteq C /\ errors = {}

CollectsWithin ==
  Undisturbed =>
    \A C \in SUBSET Uris : Fits(C) =>
      /\ Elems(docs) \subseteq C
      /\ collection = "refused" =>
           nextHint = Len(hints) + 1 /\ toFollow = <<>> /\ toParse = <<>> /\ \E i \in lost : ~Fulfilled(i)

BothWithin == FetchedWhileUp /\ LoadsWithin /\ CollectsWithin

LEMMA StartWithin ==
  ASSUME Init
  PROVE  BothWithin
<1>1. Elems(schemas) = {} /\ Elems(docs) = {}
  BY EmptyElems DEF Init, LoaderInit, CollectorInit
<1>2. /\ hintAt = 1 /\ unreachable = {} /\ lost = {} /\ \A u \in Uris : byUri[u] = 0
      /\ Undisturbed => errors = {} /\ collection # "refused"
  BY DEF Init, WorldInit, LoaderInit, CollectorInit, Undisturbed
<1>3. HintsTold
  BY <1>2 DEF HintsTold
<1> QED BY <1>1, <1>2, <1>3 DEF BothWithin, FetchedWhileUp, LoadsWithin, CollectsWithin, Finals

LEMMA SameFits ==
  ASSUME UNCHANGED world
  PROVE  /\ \A C : Fits(C)' <=> Fits(C)
         /\ Undisturbed' <=> Undisturbed
         /\ RedirectsLead' <=> RedirectsLead
         /\ \A s : SameReferences(s)' <=> SameReferences(s)
BY DEF world, Fits, Undisturbed, RedirectsLead, SameReferences, Served

LEMMA ChangeWithin ==
  ASSUME WorldType, Change
  PROVE  BothWithin'
<1>1. changes' # 0
  BY DEF Change, NetworkChanges, WorldType
<1> QED BY <1>1 DEF BothWithin, FetchedWhileUp, LoadsWithin, CollectsWithin, Undisturbed

LEMMA HintsToldStep ==
  ASSUME WorldType, LInv, HintsTold, UNCHANGED world, LoaderStep
  PROVE  HintsTold'
<1>1. UNCHANGED <<hints, up>> /\ hintAt \in 1 .. Len(hints) + 1 /\ Len(hints) \in Nat
  BY Uri DEF world, LInv, LoaderType
<1>2. CASE AtHint
  <2>1. hintAt' = hintAt + 1 /\ Hint = hints[hintAt].location /\ 1 .. hintAt' - 1 = (1 .. hintAt - 1) \cup {hintAt}
    BY <1>1, <1>2 DEF AtHint, Hint
  <2>2. \/ Hint \notin up /\ unreachable' = unreachable \cup {hintAt}
        \/ Hint \in up /\ unreachable' = unreachable
    BY <1>2 DEF AtHint, BetweenHints, LoaderStep, HintUnreachable, HintKnown, HintDoesNotParse, HintIsEntry,
         NextSchema, FollowKnown, FollowNew, FollowFails, AtReference, Settle, Compile
  <2> QED BY <2>1, <2>2, <1>1 DEF HintsTold
<1>3. CASE ~AtHint
  <2>1. UNCHANGED <<hintAt, unreachable>>
    BY <1>3 DEF LoaderStep, HintUnreachable, HintKnown, HintDoesNotParse, HintIsEntry,
         NextSchema, FollowKnown, FollowNew, FollowFails, AtReference, Settle, Compile
  <2> QED BY <2>1, <1>1 DEF HintsTold
<1> QED BY <1>2, <1>3

(* What a location of a document leads to, by either resolve_uri.          *)
LEMMA SameServed ==
  ASSUME NEW s, SameReferences(s), NEW l \in Elems(References[Target[s]])
  PROVE  Served(Resolve[s][l]) = Served(ExportResolve[Target[s]][l])
<1>1. PICK i \in DOMAIN References[Target[s]] : l = References[Target[s]][i]
  BY DEF Elems
<1> QED BY <1>1 DEF SameReferences

LEMMA FollowedIsServed ==
  ASSUME WorldType, LInv, AtReference, SameReferences(current),
         NEW C, Fits(C), Finals \subseteq C
  PROVE  Followed \in up /\ Target[Followed] \in C
<1> DEFINE l == Head(pending)
           e == ExportResolve[Target[current]][l]
<1>1. /\ current \in Elems(schemas) /\ current \in Uris /\ Followed = Resolve[current][l]
      /\ l \in Elems(References[Target[current]])
  <2>1. l \in Elems(pending) /\ pending # <<>>
    BY FollowedIsWanted DEF AtReference
  <2> QED BY <2>1, FollowedIsWanted DEF LInv, FollowsItsOwn
<1>2. Target[current] \in C /\ e \in ExportWanted(Target[current])
  BY <1>1, ExportWantedElems DEF Finals
<1>3. e \in up /\ Target[e] \in C
  BY <1>2 DEF Fits
<1>4. Served(Followed) = Served(e)
  BY <1>1, SameServed
<1>5. Served(e) = Target[e] /\ Target[e] # NoUri
  BY <1>3, Uri DEF Served, WorldType
<1> QED BY <1>3, <1>4, <1>5 DEF Served

(* Steps of the loader: a set that fits leaves out no document loaded and  *)
(* has no error.                                                           *)
LEMMA LoadedWithin ==
  ASSUME WorldType, LInv, BothWithin, Load,
         RedirectsLead /\ changes = 0 => Elems(schemas') \subseteq Elems(schemas) \cup up,
         Elems(schemas) \subseteq Elems(schemas'),
         ASSUME NEW C \in SUBSET Uris, Fits(C), Finals \subseteq C, \A s \in Elems(schemas') : SameReferences(s)
         PROVE  Finals' \subseteq C /\ errors' = errors
  PROVE  BothWithin'
<1>1. UNCHANGED world /\ UNCHANGED <<hints, changes, up, docs, byUri, lost, collection, nextHint, toFollow, toParse>>
  BY DEF Load, world, collector
<1>2. FetchedWhileUp'
  <2> SUFFICES ASSUME changes = 0 PROVE FetchedWhileUp'
    BY <1>1 DEF FetchedWhileUp
  <2>1. HintsTold'
    BY HintsToldStep DEF Load, BothWithin, FetchedWhileUp
  <2> QED BY <1>1, <2>1, SameFits DEF BothWithin, FetchedWhileUp
<1>3. LoadsWithin'
  <2> SUFFICES ASSUME Undisturbed, \A s \in Elems(schemas') : SameReferences(s), NEW C \in SUBSET Uris, Fits(C)
               PROVE  Finals' \subseteq C /\ errors' = {}
    BY <1>1, SameFits DEF LoadsWithin, Elems
  <2>1. \A s \in Elems(schemas) : SameReferences(s)
    OBVIOUS
  <2>2. Finals \subseteq C /\ errors = {}
    BY <2>1 DEF BothWithin, LoadsWithin
  <2> QED BY <2>2
<1>4. CollectsWithin'
  BY <1>1, SameFits DEF BothWithin, CollectsWithin, Fulfilled
<1> QED BY <1>2, <1>3, <1>4 DEF BothWithin

LEMMA LoadWithin ==
  ASSUME WorldType, LInv, BothWithin, Load
  PROVE  BothWithin'
<1>1. UNCHANGED world /\ LoaderStep
  BY DEF Load
<1>2. ASSUME NEW C, Fits(C), NEW d \in C
      PROVE  d \notin broken /\ Target[d] = d /\ \A u \in ExportWanted(d) : u \in up /\ Target[u] \in C
  BY <1>2 DEF Fits
<1>3. CASE UNCHANGED <<schemas, errors>>
  BY <1>3, LoadedWithin DEF Finals
<1>4. CASE HintDoesNotParse
  <2>1. schemas' = schemas /\ Hint \in up /\ Target[Hint] \in broken
    BY <1>4 DEF HintDoesNotParse
  <2>2. Hint = hints[hintAt].location /\ hintAt \in DOMAIN hints
    BY <1>4, Uri DEF HintDoesNotParse, AtHint, Hint, LInv, LoaderType
  <2>3. ASSUME NEW C \in SUBSET Uris, Fits(C) PROVE FALSE
    BY <2>1, <2>2, <2>3, <1>2 DEF Fits
  <2> QED BY <2>1, <2>3, LoadedWithin DEF Finals
<1>5. CASE HintIsEntry
  <2>1. /\ Hint \in Uris /\ Hint \in up /\ Hint = hints[hintAt].location /\ hintAt \in 1 .. Len(hints)
        /\ Elems(schemas') = Elems(schemas) \cup {Target[Hint]} /\ errors' = errors
    BY <1>1, <1>5, HintLoaded DEF HintIsEntry
  <2>2. ASSUME NEW C \in SUBSET Uris, Fits(C), Finals \subseteq C PROVE Finals' \subseteq C
    <3>1. Target[Hint] \in C /\ Target[Target[Hint]] = Target[Hint]
      BY <2>1, <2>2, Uri DEF Fits
    <3> QED BY <2>1, <2>2, <3>1 DEF Finals
  <2>3. RedirectsLead => Target[Hint] \in up
    BY <2>1 DEF RedirectsLead
  <2> QED BY <2>1, <2>2, <2>3, LoadedWithin
<1>6. CASE FollowNew
  <2>1. /\ Elems(schemas') = Elems(schemas) \cup {Followed} /\ errors' = errors /\ Followed \in up
        /\ AtReference /\ current \in Elems(schemas)
    BY <1>1, <1>6, ReferenceFollowed, FollowedIsWanted DEF FollowNew
  <2>2. ASSUME NEW C \in SUBSET Uris, Fits(C), Finals \subseteq C, \A s \in Elems(schemas') : SameReferences(s)
        PROVE  Finals' \subseteq C
    <3>1. Target[Followed] \in C
      BY <2>1, <2>2, FollowedIsServed
    <3> QED BY <2>1, <2>2, <3>1 DEF Finals
  <2> QED BY <2>1, <2>2, LoadedWithin
<1>7. CASE FollowFails
  <2>1. /\ schemas' = schemas /\ AtReference /\ current \in Elems(schemas)
        /\ Followed = NoUri \/ (~Known(Followed) /\ (Followed \notin up \/ Target[Followed] \in broken))
    BY <1>1, <1>7, FollowedIsWanted DEF FollowFails
  <2>2. ASSUME NEW C \in SUBSET Uris, Fits(C), Finals \subseteq C, \A s \in Elems(schemas') : SameReferences(s)
        PROVE  FALSE
    <3>1. Followed \in up /\ Target[Followed] \in C
      BY <2>1, <2>2, FollowedIsServed
    <3>2. Followed # NoUri
      BY <3>1, Uri DEF WorldType
    <3> QED BY <2>1, <2>2, <3>1, <3>2, <1>2
  <2> QED BY <2>1, <2>2, LoadedWithin
<1>8. HintUnreachable \/ HintKnown \/ NextSchema \/ FollowKnown \/ Settle \/ Compile => UNCHANGED <<schemas, errors>>
  BY DEF HintUnreachable, HintKnown, NextSchema, FollowKnown, Settle, Compile
<1> QED BY <1>1, <1>3, <1>4, <1>5, <1>6, <1>7, <1>8 DEF LoaderStep

(* Steps of the collector, likewise.                                       *)
LEMMA CollectWithin ==
  ASSUME WorldType, CInv, BothWithin, Collect
  PROVE  BothWithin'
<1>1. UNCHANGED world /\ CollectorStep /\ UNCHANGED <<hints, changes, up, broken, problem, schemas, errors, hintAt, unreachable>>
  BY DEF Collect, world, loader
<1>2. ASSUME NEW C, Fits(C), NEW d \in C
      PROVE  d \notin broken /\ Target[d] = d /\ \A u \in ExportWanted(d) : u \in up /\ Target[u] \in C
  BY <1>2 DEF Fits
<1>3. LoadsWithin'
  BY <1>1, SameFits DEF BothWithin, LoadsWithin, Finals
<1>4. HintsTold' <=> HintsTold
  BY <1>1 DEF HintsTold
<1>5. FetchedWhileUp'
  <2> SUFFICES ASSUME changes = 0
               PROVE  /\ \A i \in lost' : hints[i].location \notin up
                      /\ RedirectsLead => \A u \in Uris : byUri'[u] # 0 => u \in up
    BY <1>1, <1>4, SameFits DEF FetchedWhileUp, BothWithin
  <2>1. /\ \A i \in lost : hints[i].location \notin up
        /\ RedirectsLead => \A u \in Uris : byUri[u] # 0 => u \in up
    BY DEF BothWithin, FetchedWhileUp
  <2>2. \A i \in lost' : hints[i].location \notin up
    BY <1>1, <2>1 DEF CollectorStep, CollectKnownHint, CollectHint, LoseHint, ParseNext, CollectKnown,
         CollectReference, CollectFails, SettleLost, Named
  <2>3. ASSUME NEW u \in Uris, u \in up, byUri[u] = 0, FetchNew(u), RedirectsLead
        PROVE  \A v \in Uris : byUri'[v] # 0 => v \in up
    <3>1. \A v \in Uris : byUri'[v] # 0 => byUri[v] # 0 \/ v \in {u, Target[u]}
      BY <2>3, Fetched DEF CInv
    <3> QED BY <2>1, <2>3, <3>1 DEF RedirectsLead
  <2>4. CASE CollectHint \/ CollectReference
    BY <2>2, <2>3, <2>4 DEF CollectHint, CollectReference, WorldType
  <2>5. CASE ~(CollectHint \/ CollectReference)
    <3>1. byUri' = byUri
      BY <1>1, <2>5 DEF CollectorStep, CollectKnownHint, LoseHint, ParseNext, CollectKnown, CollectFails, SettleLost
    <3> QED BY <2>1, <2>2, <3>1
  <2> QED BY <2>4, <2>5
<1>6. CollectsWithin'
  <2> SUFFICES ASSUME Undisturbed, NEW C \in SUBSET Uris, Fits(C)
               PROVE  /\ Elems(docs') \subseteq C
                      /\ collection' = "refused" =>
                           nextHint' = Len(hints) + 1 /\ toFollow' = <<>> /\ toParse' = <<>> /\ (\E i \in lost : ~Fulfilled(i))'
    BY <1>1, SameFits DEF CollectsWithin
  <2>1. /\ Elems(docs) \subseteq C
        /\ collection = "refused" =>
             nextHint = Len(hints) + 1 /\ toFollow = <<>> /\ toParse = <<>> /\ \E i \in lost : ~Fulfilled(i)
    BY DEF BothWithin, CollectsWithin
  <2>2. CASE CollectKnownHint \/ LoseHint \/ ParseNext \/ CollectKnown
    <3>1. docs' = docs /\ collection' = "collecting"
      BY <2>2 DEF CollectKnownHint, LoseHint, ParseNext, CollectKnown, AtNextHint, Collecting
    <3> QED BY <2>1, <3>1
  <2>3. CASE CollectHint
    <3>1. /\ collection' = "collecting" /\ Named \in up /\ Named = hints[nextHint].location /\ nextHint \in DOMAIN hints
          /\ Elems(docs') = Elems(docs) \cup {Target[Named]}
      BY <1>1, <2>3, HintCollected DEF CollectHint, AtNextHint
    <3> QED BY <2>1, <3>1 DEF Fits
  <2>4. CASE CollectReference
    <3>1. /\ collection' = "collecting" /\ Elems(docs') = Elems(docs) \cup {Target[Reference]}
          /\ parsing \in DOMAIN docs /\ Reference \in ExportWanted(docs[parsing])
      BY <1>1, <2>4, ReferenceCollected, ReferenceIsWanted DEF CollectReference, Collecting
    <3>2. docs[parsing] \in C
      BY <2>1, <3>1 DEF Elems
    <3> QED BY <2>1, <3>1, <3>2, <1>2
  <2>5. CASE CollectFails
    <3>1. CASE toFollow = <<>> /\ toParse # <<>> /\ docs[Head(toParse)] \in broken
      <4>1. Head(toParse) \in DOMAIN docs
        BY <3>1, TailElems DEF CInv, CollectorType
      <4>2. docs[Head(toParse)] \in C
        BY <2>1, <4>1 DEF Elems
      <4> QED BY <3>1, <4>2, <1>2
    <3>2. CASE toFollow # <<>> /\ Reference \notin up
      <4>1. parsing \in DOMAIN docs /\ Reference \in ExportWanted(docs[parsing])
        BY <3>2, ReferenceIsWanted
      <4>2. docs[parsing] \in C
        BY <2>1, <4>1 DEF Elems
      <4>3. Reference \in up
        BY <4>1, <4>2, <1>2
      <4> QED BY <3>2, <4>3
    <3> QED BY <2>5, <3>1, <3>2 DEF CollectFails
  <2>6. CASE SettleLost
    <3>1. /\ UNCHANGED <<docs, nextHint, toFollow, toParse, lost>> /\ toFollow = <<>> /\ toParse = <<>>
          /\ nextHint > Len(hints)
          /\ collection' = IF \A i \in lost : Fulfilled(i) THEN "collected" ELSE "refused"
      BY <2>6 DEF SettleLost, Collecting, Fulfilled
    <3>2. \A i : Fulfilled(i)' <=> Fulfilled(i)
      BY <1>1, <3>1 DEF Fulfilled
    <3>3. nextHint = Len(hints) + 1
      BY <3>1, Uri DEF CInv, CollectorType
    <3> QED BY <2>1, <3>1, <3>2, <3>3
  <2> QED BY <1>1, <2>2, <2>3, <2>4, <2>5, <2>6 DEF CollectorStep
<1> QED BY <1>3, <1>5, <1>6 DEF BothWithin

LEMMA WithinInvariant == Spec => [](WorldType /\ LInv /\ CInv /\ BothWithin)
<1>1. Init => BothWithin
  BY StartWithin
<1>2. WorldType /\ LInv /\ CInv /\ BothWithin /\ [Load \/ Collect \/ Change]_vars => BothWithin'
  <2>1. ASSUME BothWithin, UNCHANGED vars PROVE BothWithin'
    <3>1. UNCHANGED <<world, loader, collector>>
      BY <2>1 DEF vars
    <3>2. UNCHANGED <<hints, changes, up, broken, problem, schemas, errors, hintAt, unreachable, docs, byUri, lost,
                      collection, nextHint, toFollow, toParse>>
      BY <3>1 DEF world, loader, collector
    <3> QED BY <2>1, <3>1, <3>2, SameFits
        DEF BothWithin, FetchedWhileUp, HintsTold, LoadsWithin, CollectsWithin, Fulfilled, Finals
  <2> QED BY <2>1, LoadWithin, CollectWithin, ChangeWithin
<1> QED BY <1>1, <1>2, LoaderInvariant, CollectorInvariant, PTL DEF Spec

(* What the collector ends with fits, and what the loader ends with.       *)
LEMMA CollectionFits ==
  ASSUME WorldType, CInv, BothWithin, changes = 0, RedirectsLead,
         nextHint = Len(hints) + 1, toFollow = <<>>, toParse = <<>>
  PROVE  Elems(docs) \in SUBSET Uris /\ Fits(Elems(docs))
<1>1. /\ \A i \in lost : hints[i].location \notin up
      /\ \A u \in Uris : byUri[u] # 0 => u \in up
  BY DEF BothWithin, FetchedWhileUp
<1>2. \A u \in Uris : byUri[u] # 0 => Target[u] \in Elems(docs)
  BY DEF CInv, NamesOneDocument, Elems
<1>3. ASSUME NEW i \in DOMAIN hints, hints[i].location \in up PROVE Target[hints[i].location] \in Elems(docs)
  <2>1. i \in 1 .. nextHint - 1 /\ hints[i].location \in Uris
    BY Uri
  <2> QED BY <1>1, <1>2, <1>3, <2>1 DEF CInv, HintsCollected
<1>4. ASSUME NEW d \in Elems(docs)
      PROVE  d \notin broken /\ Target[d] = d /\ \A u \in ExportWanted(d) : u \in up /\ Target[u] \in Elems(docs)
  <2>1. PICK i \in DOMAIN docs : d = docs[i]
    BY DEF Elems
  <2>2. d \notin broken /\ \A u \in ExportWanted(d) : Has(u)
    BY <2>1, CollectedIsClosed
  <2>3. \A u \in ExportWanted(d) : u \in Uris /\ byUri[u] # 0
    BY <2>2, SetNeeds, ExportWantedUri DEF Has
  <2> QED BY <2>2, <2>3, <1>1, <1>2, SetNeeds
<1> QED BY <1>3, <1>4, DocumentElems DEF Fits, CInv

LEMMA LoadFits ==
  ASSUME WorldType, LInv, BothWithin, changes = 0, RedirectsLead,
         outcome # "loading", errors = {}, \A s \in Elems(schemas) : SameReferences(s)
  PROVE  Finals \in SUBSET Uris /\ Fits(Finals)
<1>1. HintsTold /\ Elems(schemas) \subseteq up /\ Elems(schemas) \subseteq Uris
  BY ElemsIn DEF BothWithin, FetchedWhileUp, LInv, LoaderType
<1>2. hintAt = Len(hints) + 1 /\ Elems(queue) = {} /\ Elems(pending) = {}
  BY EmptyElems DEF LInv, LoaderDone, BetweenHints
<1>3. ASSUME NEW i \in DOMAIN hints, hints[i].location \in up PROVE Target[hints[i].location] \in Finals
  <2>1. i \in 1 .. hintAt - 1 /\ hints[i].location \in Uris
    BY <1>2, Uri
  <2>2. Target[hints[i].location] \in Elems(schemas)
    BY <1>1, <1>3, <2>1 DEF HintsTold, LInv, HintsAnswered
  <2>3. Target[Target[hints[i].location]] = Target[hints[i].location]
    BY <2>1, Uri
  <2> QED BY <2>2, <2>3 DEF Finals
<1>4. ASSUME NEW d \in Finals
      PROVE  d \notin broken /\ Target[d] = d /\ \A u \in ExportWanted(d) : u \in up /\ Target[u] \in Finals
  <2>1. PICK s \in Elems(schemas) : d = Target[s]
    BY DEF Finals
  <2>2. s \in Uris /\ d \notin broken /\ Target[d] = d
    BY <1>1, <2>1, Uri DEF LInv, NothingBroken
  <2>3. ASSUME NEW u \in ExportWanted(d) PROVE u \in up /\ Target[u] \in Finals
    <3>1. PICK l \in Elems(References[d]) : u = ExportResolve[d][l]
      BY ExportWantedElems
    <3> DEFINE r == Resolve[s][l]
    <3>2. r \in Wanted(s, Target[s])
      BY <2>1, WantedElems
    <3>3. r \in Elems(schemas)
      BY <1>2, <3>2 DEF LInv, NothingForgotten, LeftToFollow
    <3>4. r \in up /\ Target[r] \in Finals /\ Target[r] # NoUri
      BY <1>1, <3>3, Uri DEF Finals
    <3>5. Served(r) = Served(u)
      BY <2>1, <3>1, SameServed
    <3> QED BY <3>4, <3>5 DEF Served
  <2> QED BY <2>2, <2>3
<1>5. Finals \subseteq Uris
  BY <1>1, Uri DEF Finals
<1> QED BY <1>3, <1>4, <1>5 DEF Fits

(* Validation and export agree (load_hinted_schema, SchemaSet) where the   *)
(* two resolve_uri's lead to the same documents.                           *)
THEOREM LoadersAlwaysAgree == Spec => []LoadersAgree
<1>1. ASSUME WorldType, LInv, CInv, BothWithin, changes = 0, RedirectsLead,
             outcome # "loading", collection # "collecting", hints # <<>>, \A s \in Elems(schemas) : SameReferences(s)
      PROVE  /\ outcome \in {"loaded", "compiled"} => collection = "collected"
             /\ collection = "collected" => errors = {} /\ Finals = Elems(docs)
             /\ collection = "refused" => outcome = "refused"
  <2>1. ASSUME ~problem, nextHint = Len(hints) + 1, toFollow = <<>>, toParse = <<>>
        PROVE  errors = {} /\ Finals = Elems(docs)
    <3>1. Elems(docs) \in SUBSET Uris /\ Fits(Elems(docs)) /\ Undisturbed
      BY <1>1, <2>1, CollectionFits DEF Undisturbed
    <3>2. errors = {} /\ Finals \subseteq Elems(docs)
      BY <1>1, <3>1 DEF BothWithin, LoadsWithin
    <3>3. Finals \in SUBSET Uris /\ Fits(Finals)
      BY <1>1, <3>2, LoadFits
    <3>4. Elems(docs) \subseteq Finals
      BY <1>1, <3>1, <3>3 DEF BothWithin, CollectsWithin
    <3> QED BY <3>2, <3>4
  <2>2. collection = "collected" => errors = {} /\ Finals = Elems(docs)
    BY <1>1, <2>1 DEF CInv, CollectorDone
  <2>3. ASSUME outcome \in {"loaded", "compiled"}, collection = "refused" PROVE FALSE
    <3>1. errors = {} /\ hintAt = Len(hints) + 1 /\ \A i \in unreachable : Provided(i)
      BY <1>1, <2>3 DEF LInv, LoaderDone
    <3>2. Finals \in SUBSET Uris /\ Fits(Finals) /\ Undisturbed
      BY <1>1, <3>1, LoadFits DEF LInv, NoDocumentNoLoad, Undisturbed
    <3>3. nextHint = Len(hints) + 1 /\ toFollow = <<>> /\ toParse = <<>> /\ \E i \in lost : ~Fulfilled(i)
      BY <1>1, <2>3, <3>2 DEF BothWithin, CollectsWithin
    <3>4. PICK i \in lost : ~Fulfilled(i)
      BY <3>3
    <3>5. Finals = Elems(docs)
      BY <2>1, <3>2, <3>3 DEF Undisturbed
    <3>6. i \in 1 .. hintAt - 1 /\ hints[i].location \notin up
      BY <1>1, <3>1 DEF BothWithin, FetchedWhileUp, CInv, CollectorType
    <3>7. Provided(i)
      BY <1>1, <3>1, <3>6 DEF BothWithin, FetchedWhileUp, HintsTold
    <3>8. PICK j \in DOMAIN schemas : NamespaceOf[Target[schemas[j]]] = hints[i].namespace
      BY <3>7 DEF Provided
    <3>9. Target[schemas[j]] \in Elems(docs)
      BY <3>5 DEF Elems, Finals
    <3>10. PICK k \in DOMAIN docs : docs[k] = Target[schemas[j]]
      BY <3>9 DEF Elems
    <3> QED BY <3>4, <3>7, <3>8, <3>9, <3>10 DEF Provided, Fulfilled
  <2> QED BY <1>1, <2>2, <2>3 DEF CInv, CollectorType, CollectorDone, LInv, LoaderType
<1>2. Finals = {Target[schemas[i]] : i \in DOMAIN schemas}
  BY DEF Finals, Elems
<1>3. WorldType /\ LInv /\ CInv /\ BothWithin => LoadersAgree
  BY <1>1, <1>2 DEF LoadersAgree, Elems
<1> QED BY <1>3, WithinInvariant, PTL

===============================================================================
