---------------------------- MODULE TransformerProofs ----------------------------
(***************************************************************************)
(* What the engines of the transformer promise, as properties of the whole *)
(* transformer: the invariant of the engine that runs is preserved by its  *)
(* steps, and no other engine takes any.                                   *)
(***************************************************************************)
EXTENDS Transformer, XmlEventsProofs

WP == INSTANCE RewriteProofs

FP == INSTANCE FallbackProofs WITH MaxEvents <- MaxTreeEvents

-------------------------------------------------------------------------------
(* for_each: what a stopped handler may hold and how its calls are counted. *)

Progress ==
  [held : Seq(Nat), depth : Nat, remaining : Nat \cup {NoLimit}, stopped : BOOLEAN]

(* Every variable that the loop works with has its type.                   *)
TypeOK ==
  /\ doc \in Seq(Event)
  /\ registered \in Registrations
  /\ progress \in [Handlers -> Progress]

(* The strengthening: a handler that has not stopped has calls left.       *)
Sound(p) ==
  /\ p.stopped => p.depth = 0
  /\ ~p.stopped => p.remaining # 0

IInv == TypeOK /\ \A h \in Handlers : Sound(progress[h])

-------------------------------------------------------------------------------
(* A call leaves a sound progress: there was a call left to make.          *)
LEMMA CalledIsSound ==
  ASSUME NEW p \in Progress, NEW break \in BOOLEAN, p.remaining # 0
  PROVE  Called(p, break) \in Progress /\ Sound(Called(p, break))
<1> USE EventsAssumption
<1> DEFINE left == IF p.remaining = NoLimit THEN NoLimit ELSE p.remaining - 1
           done == break \/ p.remaining = 1
           q == [held |-> <<>>, depth |-> 0, remaining |-> left, stopped |-> done]
<1>1. left \in Nat \cup {NoLimit}
  BY DEF Progress
<1>2. done \in BOOLEAN
  OBVIOUS
<1>3. ~done => left # 0
  BY DEF Progress
<1>4. <<>> \in Seq(Nat) /\ 0 \in Nat
  OBVIOUS
<1> HIDE DEF left, done
<1>5. q \in Progress
  BY <1>1, <1>2, <1>4 DEF Progress
<1>6. Sound(q)
  BY <1>3 DEF Sound
<1>7. Called(p, break) = q
  BY DEF Called, left, done
<1> QED BY <1>5, <1>6, <1>7

(* Adding an event to a subtree that is being read keeps a progress sound. *)
LEMMA HoldingIsSound ==
  ASSUME doc \in Seq(Event), NEW p \in Progress, NEW d \in Nat, Sound(p), ~p.stopped
  PROVE  Holding(p, d) \in Progress /\ Sound(Holding(p, d))
<1>1. Here \in Nat
  BY DEF Here
<1>2. Append(p.held, Here) \in Seq(Nat)
  BY <1>1 DEF Progress
<1>3. Holding(p, d) \in Progress
  BY <1>2 DEF Holding, Progress
<1>4. /\ Holding(p, d).stopped = p.stopped
      /\ Holding(p, d).remaining = p.remaining
  BY DEF Holding, Progress
<1> QED BY <1>3, <1>4 DEF Sound

LEMMA ReadKeepsType ==
  ASSUME doc \in Seq(Event), NEW e \in Event, Read(e)
  PROVE  doc' \in Seq(Event)
BY DEF Read

-------------------------------------------------------------------------------
LEMMA InitSound == EventsInit /\ DispatchInit => IInv
<1> SUFFICES ASSUME EventsInit, DispatchInit PROVE IInv
  OBVIOUS
<1> USE EventsAssumption
<1>1. ASSUME NEW h \in Handlers
      PROVE  NewProgress(registered[h].limit) \in Progress /\ Sound(NewProgress(registered[h].limit))
  <2>1. registered[h].limit \in Nat \cup {NoLimit}
    BY DEF DispatchInit
  <2>2. <<>> \in Seq(Nat)
    OBVIOUS
  <2> QED BY <2>1, <2>2 DEF NewProgress, Progress, Sound
<1> QED BY <1>1 DEF IInv, TypeOK, EventsInit, DispatchInit

(* A tag: the handlers whose callback is called, and the others.           *)
LEMMA TagSound == IInv /\ DispatchTag => IInv'
<1> SUFFICES ASSUME IInv, DispatchTag PROVE IInv'
  OBVIOUS
<1>1. PICK e \in Event :
        /\ e.kind \in {"start", "empty", "end"}
        /\ Read(e)
        /\ \E breaking \in SUBSET {h \in CalledAt(e) : registered[h].kind = "match"} :
             progress' = [h \in Handlers |->
                            IF h \in CalledAt(e) THEN Called(progress[h], h \in breaking) ELSE AfterTag(h, e)]
        /\ registered' = registered
  BY DEF DispatchTag
<1>2. PICK breaking \in SUBSET {h \in CalledAt(e) : registered[h].kind = "match"} :
        progress' = [h \in Handlers |->
                       IF h \in CalledAt(e) THEN Called(progress[h], h \in breaking) ELSE AfterTag(h, e)]
  BY <1>1
<1>3. doc' \in Seq(Event)
  BY <1>1, ReadKeepsType DEF IInv, TypeOK
<1>4. ASSUME NEW h \in Handlers
      PROVE  progress'[h] \in Progress /\ Sound(progress'[h])
  <2>1. progress[h] \in Progress /\ Sound(progress[h])
    BY DEF IInv, TypeOK
  <2>2. CASE h \in CalledAt(e)
    <3>1. ~progress[h].stopped
      BY <2>1, <2>2, <1>1 DEF CalledAt, Matches, Sound
    <3>2. progress[h].remaining # 0
      BY <3>1, <2>1 DEF Sound
    <3>3. (h \in breaking) \in BOOLEAN
      OBVIOUS
    <3>4. Called(progress[h], h \in breaking) \in Progress /\ Sound(Called(progress[h], h \in breaking))
      BY <2>1, <3>2, <3>3, CalledIsSound
    <3> QED BY <3>4, <2>2, <1>2
  <2>3. CASE h \notin CalledAt(e)
    <3>1. AfterTag(h, e) = progress[h] \/ \E d \in Nat : AfterTag(h, e) = Holding(progress[h], d) /\ ~progress[h].stopped
      BY <2>1, <1>1 DEF AfterTag, Reading, Matches, Progress, Sound
    <3>2. AfterTag(h, e) \in Progress /\ Sound(AfterTag(h, e))
      BY <3>1, <2>1, HoldingIsSound DEF IInv, TypeOK
    <3> QED BY <3>2, <2>3, <1>2
  <2> QED BY <2>2, <2>3
<1>5. progress' \in [Handlers -> Progress]
  BY <1>2, <1>4
<1> QED BY <1>1, <1>3, <1>4, <1>5 DEF IInv, TypeOK

LEMMA ContentSound == IInv /\ DispatchContent => IInv'
<1> SUFFICES ASSUME IInv, DispatchContent PROVE IInv'
  OBVIOUS
<1>1. PICK e \in Event :
        /\ Read(e)
        /\ progress' = [h \in Handlers |->
                          IF Reading(h) /\ e.kind # "other" THEN Holding(progress[h], progress[h].depth) ELSE progress[h]]
        /\ registered' = registered
  BY DEF DispatchContent
<1>2. doc' \in Seq(Event)
  BY <1>1, ReadKeepsType DEF IInv, TypeOK
<1>3. ASSUME NEW h \in Handlers
      PROVE  progress'[h] \in Progress /\ Sound(progress'[h])
  <2>1. progress[h] \in Progress /\ Sound(progress[h])
    BY DEF IInv, TypeOK
  <2>2. progress[h].depth \in Nat
    BY <2>1 DEF Progress
  <2>3. Reading(h) => ~progress[h].stopped
    BY <2>1 DEF Reading, Sound
  <2>4. Reading(h) => /\ Holding(progress[h], progress[h].depth) \in Progress
                      /\ Sound(Holding(progress[h], progress[h].depth))
    BY <2>1, <2>2, <2>3, HoldingIsSound DEF IInv, TypeOK
  <2> QED BY <2>1, <2>4, <1>1
<1>4. progress' \in [Handlers -> Progress]
  BY <1>1, <1>3
<1> QED BY <1>1, <1>2, <1>3, <1>4 DEF IInv, TypeOK

LEMMA StepSound == IInv /\ [DispatchNext]_<<eventVars, dispatchVars>> => IInv'
<1> SUFFICES ASSUME IInv, [DispatchNext]_<<eventVars, dispatchVars>> PROVE IInv'
  OBVIOUS
<1>1. CASE DispatchTag
  BY <1>1, TagSound
<1>2. CASE DispatchContent
  BY <1>2, ContentSound
<1>3. CASE DispatchUnknownEntity
  BY <1>3 DEF DispatchUnknownEntity, ReadError, dispatchVars, IInv, TypeOK, Sound
<1>4. CASE DispatchError
  BY <1>4 DEF DispatchError, ReadError, dispatchVars, IInv, TypeOK, Sound
<1>5. CASE DispatchEnd
  BY <1>5 DEF DispatchEnd, Eof, dispatchVars, IInv, TypeOK, Sound
<1>6. CASE UNCHANGED <<eventVars, dispatchVars>>
  BY <1>6 DEF eventVars, dispatchVars, IInv, TypeOK, Sound
<1> QED BY <1>1, <1>2, <1>3, <1>4, <1>5, <1>6 DEF DispatchNext

LEMMA SoundMeansHoldingNothing == IInv => StoppedHoldNothing
BY EventsAssumption DEF IInv, TypeOK, Progress, Sound, StoppedHoldNothing, Reading

-------------------------------------------------------------------------------
(* The order of calls.                                                     *)

Call == [handler : Handlers, held : Seq(Nat)]

LastEvent(c) == c.held[Len(c.held)]

(* a comes before b.                                                       *)
Before(a, b) ==
  \/ LastEvent(a) < LastEvent(b)
  \/ LastEvent(a) = LastEvent(b) /\ a.handler < b.handler

(* The calls in cs were made while the first n events were read, in order. *)
MadeInOrder(cs, n) ==
  /\ cs \in Seq(Call)
  /\ \A i \in 1 .. Len(cs) : LastEvent(cs[i]) \in 1 .. n
  /\ \A i, j \in 1 .. Len(cs) : i < j => Before(cs[i], cs[j])

(* The last of the calls was made at event n.                              *)
LastMadeAt(cs, n) == n = IF cs = <<>> THEN 0 ELSE LastEvent(cs[Len(cs)])

OInv ==
  /\ IInv
  /\ MadeInOrder(calls, Len(doc))
  /\ AllStopped => LastMadeAt(calls, Len(doc))

(* Calls at the next event, to handlers in order.                          *)
MadeNext(ns, n) ==
  /\ ns \in Seq(Call)
  /\ \A i \in 1 .. Len(ns) : LastEvent(ns[i]) = n + 1
  /\ \A i, j \in 1 .. Len(ns) : i < j => ns[i].handler < ns[j].handler

LEMMA MoreCallsInOrder ==
  ASSUME NEW n \in Nat, NEW cs, NEW ns, MadeInOrder(cs, n), MadeNext(ns, n)
  PROVE  /\ MadeInOrder(cs \o ns, n + 1)
         /\ ns # <<>> => LastMadeAt(cs \o ns, n + 1)
<1>1. /\ cs \in Seq(Call) /\ ns \in Seq(Call) /\ Len(cs) \in Nat /\ Len(ns) \in Nat
  BY DEF MadeInOrder, MadeNext
<1> DEFINE all == cs \o ns
<1>2. /\ all \in Seq(Call) /\ Len(all) = Len(cs) + Len(ns)
      /\ \A i \in 1 .. Len(cs) : all[i] = cs[i]
      /\ \A i \in Len(cs) + 1 .. Len(cs) + Len(ns) : all[i] = ns[i - Len(cs)]
  BY <1>1, ConcatProperties
<1> HIDE DEF all
<1>3. ASSUME NEW i \in 1 .. Len(all)
      PROVE  \/ i \in 1 .. Len(cs)
             \/ i \in Len(cs) + 1 .. Len(cs) + Len(ns) /\ i - Len(cs) \in 1 .. Len(ns)
  BY <1>1, <1>2
<1>4. ASSUME NEW i \in 1 .. Len(all)
      PROVE  LastEvent(all[i]) \in 1 .. n + 1
  <2>1. CASE i \in 1 .. Len(cs)
    <3>1. LastEvent(cs[i]) \in 1 .. n
      BY <2>1 DEF MadeInOrder
    <3> QED BY <1>2, <2>1, <3>1
  <2>2. CASE i \in Len(cs) + 1 .. Len(cs) + Len(ns) /\ i - Len(cs) \in 1 .. Len(ns)
    <3>1. LastEvent(ns[i - Len(cs)]) = n + 1
      BY <2>2 DEF MadeNext
    <3> QED BY <1>2, <2>2, <3>1
  <2> QED BY <1>3, <2>1, <2>2
<1>5. ASSUME NEW i \in 1 .. Len(all), NEW j \in 1 .. Len(all), i < j
      PROVE  Before(all[i], all[j])
  <2>1. CASE j \in 1 .. Len(cs)
    <3>1. i \in 1 .. Len(cs)
      BY <1>1, <1>5, <2>1
    <3>2. Before(cs[i], cs[j])
      BY <1>5, <2>1, <3>1 DEF MadeInOrder
    <3> QED BY <1>2, <2>1, <3>1, <3>2
  <2>2. CASE i \in 1 .. Len(cs) /\ j \in Len(cs) + 1 .. Len(cs) + Len(ns) /\ j - Len(cs) \in 1 .. Len(ns)
    <3>1. LastEvent(cs[i]) \in 1 .. n /\ LastEvent(ns[j - Len(cs)]) = n + 1
      BY <2>2 DEF MadeInOrder, MadeNext
    <3>2. all[i] = cs[i] /\ all[j] = ns[j - Len(cs)]
      BY <1>2, <2>2
    <3> QED BY <3>1, <3>2 DEF Before
  <2>3. CASE /\ i \in Len(cs) + 1 .. Len(cs) + Len(ns) /\ i - Len(cs) \in 1 .. Len(ns)
             /\ j \in Len(cs) + 1 .. Len(cs) + Len(ns) /\ j - Len(cs) \in 1 .. Len(ns)
    <3>1. i - Len(cs) < j - Len(cs)
      BY <1>1, <1>5, <2>3
    <3>2. /\ LastEvent(ns[i - Len(cs)]) = n + 1 /\ LastEvent(ns[j - Len(cs)]) = n + 1
          /\ ns[i - Len(cs)].handler < ns[j - Len(cs)].handler
      BY <2>3, <3>1 DEF MadeNext
    <3>3. all[i] = ns[i - Len(cs)] /\ all[j] = ns[j - Len(cs)]
      BY <1>2, <2>3
    <3> QED BY <3>2, <3>3 DEF Before
  <2> QED BY <1>3, <2>1, <2>2, <2>3
<1>6. ASSUME ns # <<>>
      PROVE  LastMadeAt(all, n + 1)
  <2>1. Len(ns) > 0
    BY <1>1, <1>6, EmptySeq
  <2>2. all[Len(all)] = ns[Len(ns)]
    BY <1>1, <1>2, <2>1
  <2>3. LastEvent(ns[Len(ns)]) = n + 1
    BY <1>1, <2>1 DEF MadeNext
  <2>4. all # <<>>
    BY <1>1, <1>2, <2>1, EmptySeq
  <2> QED BY <2>2, <2>3, <2>4 DEF LastMadeAt
<1> QED BY <1>2, <1>4, <1>5, <1>6 DEF MadeInOrder, all

(* The calls made at a tag.                                                *)
NewCalls(e) ==
  [i \in 1 .. Len(CallOrder(CalledAt(e))) |->
     [handler |-> CallOrder(CalledAt(e))[i], held |-> Received(CallOrder(CalledAt(e))[i])]]

LEMMA CalledHandlers ==
  ASSUME NEW e
  PROVE  /\ CalledAt(e) \subseteq Handlers /\ IsFiniteSet(CalledAt(e)) /\ CalledAt(e) \in SUBSET Int
<1>1. CalledAt(e) \subseteq Handlers
  BY DEF CalledAt
<1>2. IsFiniteSet(Handlers) /\ Handlers \subseteq Int
  BY EventsAssumption, FS_Interval DEF Handlers
<1> QED BY <1>1, <1>2, FS_Subset

LEMMA NewCallsMade ==
  ASSUME IInv, NEW e
  PROVE  /\ MadeNext(NewCalls(e), Len(doc))
         /\ NewCalls(e) = <<>> <=> CalledAt(e) = {}
<1> DEFINE S == CalledAt(e)
           order == InOrder(S)
<1>1. S \subseteq Handlers /\ IsFiniteSet(S) /\ S \in SUBSET Int
  BY CalledHandlers
<1>2. Len(doc) \in Nat /\ Here = Len(doc) + 1
  BY DEF IInv, TypeOK, Here
<1>3. ASSUME NEW h \in S
      PROVE  Received(h) \in Seq(Nat) /\ Received(h)[Len(Received(h))] = Len(doc) + 1
  <2>1. progress[h].held \in Seq(Nat)
    BY <1>1 DEF IInv, TypeOK, Progress
  <2> QED BY <1>2, <2>1, AppendProperties DEF Received
<1>4. /\ Len(order) \in Nat /\ Len(order) = Cardinality(S)
      /\ \A i \in 1 .. Len(order) : order[i] \in S
      /\ \A i, j \in 1 .. Len(order) : i < j => order[i] < order[j]
  BY <1>1, InOrderLists
<1>5. NewCalls(e) = [i \in 1 .. Len(order) |-> [handler |-> order[i], held |-> Received(order[i])]]
  BY DEF NewCalls, CallOrder
<1>6. S = {} <=> Len(order) = 0
  BY <1>1, <1>4, FS_EmptySet
<1> HIDE DEF S, order
<1>7. \A i \in 1 .. Len(order) : [handler |-> order[i], held |-> Received(order[i])] \in Call
  BY <1>1, <1>3, <1>4 DEF Call
<1>8. NewCalls(e) \in Seq(Call) /\ Len(NewCalls(e)) = Len(order)
  BY <1>4, <1>5, <1>7
<1>9. \A i \in 1 .. Len(order) : NewCalls(e)[i].handler = order[i] /\ LastEvent(NewCalls(e)[i]) = Len(doc) + 1
  BY <1>3, <1>4, <1>5 DEF LastEvent
<1>10. MadeNext(NewCalls(e), Len(doc))
  BY <1>4, <1>8, <1>9 DEF MadeNext
<1>11. NewCalls(e) = <<>> <=> S = {}
  BY <1>4, <1>6, <1>8, EmptySeq
<1> QED BY <1>10, <1>11 DEF S

LEMMA InitOrdered == EventsInit /\ DispatchInit => OInv
<1> SUFFICES ASSUME EventsInit, DispatchInit PROVE OInv
  OBVIOUS
<1>1. doc = <<>> /\ calls = <<>> /\ Len(doc) = 0 /\ Len(calls) = 0 /\ calls \in Seq(Call)
  BY DEF EventsInit, DispatchInit
<1>2. MadeInOrder(calls, Len(doc)) /\ LastMadeAt(calls, Len(doc))
  BY <1>1 DEF MadeInOrder, LastMadeAt
<1> QED BY <1>2, InitSound DEF OInv

(* What a tag does to the history, in one place.                           *)
LEMMA TagStep ==
  ASSUME IInv, DispatchTag
  PROVE  \E e \in Event :
           /\ e.kind \in {"start", "empty", "end"}
           /\ ~AllStopped
           /\ Read(e)
           /\ calls' = calls \o NewCalls(e)
           /\ registered' = registered
           /\ \E breaking \in SUBSET {h \in CalledAt(e) : registered[h].kind = "match"} :
                /\ progress' = [h \in Handlers |->
                                  IF h \in CalledAt(e) THEN Called(progress[h], h \in breaking) ELSE AfterTag(h, e)]
                /\ broke' = broke \cup breaking
BY DEF DispatchTag, NewCalls

LEMMA ReadAppends ==
  ASSUME IInv, NEW e \in Event, Read(e)
  PROVE  /\ doc \in Seq(Event) /\ Extends(doc', doc, e)
         /\ doc' \in Seq(Event) /\ Len(doc') = Len(doc) + 1 /\ Here = Len(doc') /\ Len(doc) \in Nat
         /\ doc'[Len(doc')] = e
         /\ \A i \in 1 .. Len(doc) : doc'[i] = doc[i]
<1>1. doc \in Seq(Event) /\ Extends(doc', doc, e)
  BY DEF Read, IInv, TypeOK, Extends
<1> QED BY <1>1, LevelsAppended DEF Here

(* A handler that is not called at a tag does not stop there.              *)
LEMMA OnlyCallsStop ==
  ASSUME IInv, NEW h \in Handlers, NEW e
  PROVE  AfterTag(h, e).stopped = progress[h].stopped
BY DEF AfterTag, Holding, IInv, TypeOK, Progress

LEMMA TagOrdered == OInv /\ DispatchTag => OInv'
<1> SUFFICES ASSUME OInv, DispatchTag PROVE OInv'
  OBVIOUS
<1>1. IInv' /\ IInv
  BY TagSound DEF OInv
<1>2. PICK e \in Event :
        /\ ~AllStopped
        /\ Read(e)
        /\ calls' = calls \o NewCalls(e)
        /\ \E breaking : progress' = [h \in Handlers |->
                                        IF h \in CalledAt(e) THEN Called(progress[h], h \in breaking) ELSE AfterTag(h, e)]
  BY <1>1, TagStep
<1>3. Len(doc') = Len(doc) + 1 /\ Len(doc) \in Nat
  BY <1>1, <1>2, ReadAppends
<1>4. MadeNext(NewCalls(e), Len(doc)) /\ (NewCalls(e) = <<>> <=> CalledAt(e) = {})
  BY <1>1, NewCallsMade
<1>5. /\ MadeInOrder(calls', Len(doc'))
      /\ NewCalls(e) # <<>> => LastMadeAt(calls', Len(doc'))
  BY <1>2, <1>3, <1>4, MoreCallsInOrder DEF OInv
<1>6. AllStopped' => CalledAt(e) # {}
  <2> SUFFICES ASSUME CalledAt(e) = {} PROVE ~AllStopped'
    OBVIOUS
  <2>1. PICK h \in Handlers : ~progress[h].stopped
    BY <1>2 DEF AllStopped
  <2>2. progress'[h] = AfterTag(h, e)
    BY <1>2
  <2>3. ~progress'[h].stopped
    BY <1>1, <2>1, <2>2, OnlyCallsStop
  <2> QED BY <2>3 DEF AllStopped
<1> QED BY <1>1, <1>4, <1>5, <1>6 DEF OInv

LEMMA ContentOrdered == OInv /\ DispatchContent => OInv'
<1> SUFFICES ASSUME OInv, DispatchContent PROVE OInv'
  OBVIOUS
<1>1. IInv' /\ IInv
  BY ContentSound DEF OInv
<1>2. PICK e \in Event :
        /\ ~AllStopped
        /\ Read(e)
        /\ progress' = [h \in Handlers |->
                          IF Reading(h) /\ e.kind # "other" THEN Holding(progress[h], progress[h].depth) ELSE progress[h]]
        /\ calls' = calls
  BY DEF DispatchContent
<1>3. Len(doc') = Len(doc) + 1 /\ Len(doc) \in Nat
  BY <1>1, <1>2, ReadAppends
<1>4. MadeInOrder(calls', Len(doc'))
  BY <1>2, <1>3 DEF OInv, MadeInOrder
<1>5. ~AllStopped'
  <2>1. PICK h \in Handlers : ~progress[h].stopped
    BY <1>2 DEF AllStopped
  <2>2. ~progress'[h].stopped
    BY <1>1, <1>2, <2>1 DEF Holding, IInv, TypeOK, Progress
  <2> QED BY <2>2 DEF AllStopped
<1> QED BY <1>1, <1>4, <1>5 DEF OInv

LEMMA StepOrdered == OInv /\ [DispatchNext]_<<eventVars, dispatchVars>> => OInv'
<1> SUFFICES ASSUME OInv, [DispatchNext]_<<eventVars, dispatchVars>> PROVE OInv'
  OBVIOUS
<1>1. IInv'
  BY StepSound DEF OInv
<1>2. CASE UNCHANGED <<doc, progress, calls>>
  BY <1>1, <1>2 DEF OInv, AllStopped
<1>3. DispatchTag \/ DispatchContent \/ UNCHANGED <<doc, progress, calls>>
  BY DEF DispatchNext, DispatchUnknownEntity, DispatchError, DispatchEnd, ReadError, Eof, eventVars, dispatchVars
<1> QED BY <1>2, <1>3, TagOrdered, ContentOrdered

LEMMA OrderedMeansInOrder == OInv => CallsOrdered
BY DEF OInv, MadeInOrder, LastMadeAt, Before, LastEvent, CallsOrdered

-------------------------------------------------------------------------------
(* The calls of one handler.                                               *)

CallsIn(cs, h) ==
  LET places == InOrder({i \in 1 .. Len(cs) : cs[i].handler = h})
  IN  [k \in DOMAIN places |-> cs[places[k]]]

(* The calls in ns are to other handlers than h.                           *)
NoneFor(ns, h) == \A i \in 1 .. Len(ns) : ns[i].handler # h

(* c is the one call in ns that is to h.                                   *)
OneFor(ns, h, c) ==
  \E k \in 1 .. Len(ns) : /\ ns[k] = c /\ c.handler = h
                          /\ \A i \in 1 .. Len(ns) : ns[i].handler = h => i = k

LEMMA CallsInType ==
  ASSUME NEW cs \in Seq(Call), NEW h
  PROVE  /\ CallsIn(cs, h) \in Seq(Call)
         /\ {i \in 1 .. Len(cs) : cs[i].handler = h} \in SUBSET Int
         /\ IsFiniteSet({i \in 1 .. Len(cs) : cs[i].handler = h})
<1> DEFINE P == {i \in 1 .. Len(cs) : cs[i].handler = h}
<1>1. P \in SUBSET Int /\ IsFiniteSet(P) /\ P \subseteq 1 .. Len(cs)
  <2>1. P \in SUBSET (1 .. Len(cs)) /\ IsFiniteSet(1 .. Len(cs))
    BY FS_Interval
  <2> HIDE DEF P
  <2>2. IsFiniteSet(P)
    BY <2>1, FS_Subset
  <2> QED BY <2>1, <2>2
<1>2. CallsIn(cs, h) = [k \in DOMAIN InOrder(P) |-> cs[InOrder(P)[k]]]
  BY DEF CallsIn
<1> HIDE DEF P
<1>3. /\ Cardinality(P) \in Nat /\ DOMAIN InOrder(P) = 1 .. Cardinality(P)
      /\ \A k \in 1 .. Cardinality(P) : InOrder(P)[k] \in P
  BY <1>1, InOrderLists
<1>4. CallsIn(cs, h) \in Seq(Call)
  <2>1. ASSUME NEW k \in 1 .. Cardinality(P)
        PROVE  cs[InOrder(P)[k]] \in Call
    <3>1. InOrder(P)[k] \in 1 .. Len(cs)
      BY <1>1, <1>3
    <3>2. \A i \in 1 .. Len(cs) : cs[i] \in Call
      OBVIOUS
    <3> QED BY <3>1, <3>2
  <2>2. CallsIn(cs, h) \in [1 .. Cardinality(P) -> Call]
    BY <1>2, <1>3, <2>1
  <2> QED BY <1>3, <2>2
<1> QED BY <1>1, <1>4 DEF P

LEMMA NoneAdded ==
  ASSUME NEW cs \in Seq(Call), NEW ns \in Seq(Call), NEW h, NoneFor(ns, h)
  PROVE  CallsIn(cs \o ns, h) = CallsIn(cs, h)
<1> DEFINE all == cs \o ns
           P == {i \in 1 .. Len(cs) : cs[i].handler = h}
           Q == {i \in 1 .. Len(all) : all[i].handler = h}
<1>1. /\ Len(all) = Len(cs) + Len(ns) /\ Len(cs) \in Nat /\ Len(ns) \in Nat
      /\ \A i \in 1 .. Len(cs) : all[i] = cs[i]
      /\ \A i \in Len(cs) + 1 .. Len(cs) + Len(ns) : all[i] = ns[i - Len(cs)]
  BY ConcatProperties
<1> HIDE DEF all
<1>2. \A i : i \in Q <=> i \in P
  <2>1. ASSUME NEW i \in 1 .. Len(cs) PROVE i \in Q <=> i \in P
    BY <1>1
  <2>2. ASSUME NEW i \in Len(cs) + 1 .. Len(cs) + Len(ns) PROVE i \notin Q
    <3>1. i - Len(cs) \in 1 .. Len(ns)
      BY <1>1
    <3> QED BY <1>1, <2>2, <3>1 DEF NoneFor
  <2>3. Q \subseteq 1 .. Len(cs) + Len(ns) /\ P \subseteq 1 .. Len(cs)
    BY <1>1
  <2>4. \A i \in 1 .. Len(cs) + Len(ns) : i \in 1 .. Len(cs) \/ i \in Len(cs) + 1 .. Len(cs) + Len(ns)
    BY <1>1
  <2> QED BY <2>1, <2>2, <2>3, <2>4
<1>3. Q = P
  BY <1>2
<1>4. \A k \in DOMAIN InOrder(P) : InOrder(P)[k] \in 1 .. Len(cs)
  <2>1. P \in SUBSET Int /\ IsFiniteSet(P) /\ P \subseteq 1 .. Len(cs)
    BY CallsInType
  <2> HIDE DEF P
  <2> QED BY <2>1, InOrderLists
<1>5. CallsIn(all, h) = [k \in DOMAIN InOrder(Q) |-> all[InOrder(Q)[k]]]
  BY DEF CallsIn
<1>6. CallsIn(cs, h) = [k \in DOMAIN InOrder(P) |-> cs[InOrder(P)[k]]]
  BY DEF CallsIn
<1> HIDE DEF P, Q
<1>7. CallsIn(all, h) = CallsIn(cs, h)
  BY <1>1, <1>3, <1>4, <1>5, <1>6
<1> QED BY <1>7 DEF all

LEMMA OneAdded ==
  ASSUME NEW cs \in Seq(Call), NEW ns \in Seq(Call), NEW h, NEW c, OneFor(ns, h, c)
  PROVE  CallsIn(cs \o ns, h) = Append(CallsIn(cs, h), c)
<1> DEFINE all == cs \o ns
           P == {i \in 1 .. Len(cs) : cs[i].handler = h}
           Q == {i \in 1 .. Len(all) : all[i].handler = h}
<1>1. /\ Len(all) = Len(cs) + Len(ns) /\ Len(cs) \in Nat /\ Len(ns) \in Nat
      /\ \A i \in 1 .. Len(cs) : all[i] = cs[i]
      /\ \A i \in Len(cs) + 1 .. Len(cs) + Len(ns) : all[i] = ns[i - Len(cs)]
      /\ all \in Seq(Call)
  BY ConcatProperties
<1> HIDE DEF all
<1>2. PICK k \in 1 .. Len(ns) : /\ ns[k] = c /\ c.handler = h
                                /\ \A i \in 1 .. Len(ns) : ns[i].handler = h => i = k
  BY DEF OneFor
<1> DEFINE x == Len(cs) + k
<1>3. x \in Len(cs) + 1 .. Len(cs) + Len(ns) /\ x \in Int /\ x - Len(cs) = k /\ all[x] = c
  <2>1. x \in Len(cs) + 1 .. Len(cs) + Len(ns) /\ x \in Int /\ x - Len(cs) = k
    BY <1>1, <1>2
  <2> HIDE DEF x
  <2>2. all[x] = ns[x - Len(cs)]
    BY <1>1, <2>1
  <2> QED BY <1>2, <2>1, <2>2
<1>4. \A i : i \in Q <=> i \in P \cup {x}
  <2>1. ASSUME NEW i \in 1 .. Len(cs) PROVE (i \in Q <=> i \in P) /\ i # x
    BY <1>1, <1>3
  <2>2. ASSUME NEW i \in Len(cs) + 1 .. Len(cs) + Len(ns) PROVE (i \in Q <=> i = x) /\ i \notin P
    <3>1. i - Len(cs) \in 1 .. Len(ns) /\ i \in 1 .. Len(all)
      BY <1>1
    <3>2. i \in Q <=> ns[i - Len(cs)].handler = h
      BY <1>1, <2>2, <3>1
    <3>3. ns[i - Len(cs)].handler = h <=> i - Len(cs) = k
      BY <1>2, <3>1
    <3> QED BY <1>1, <3>2, <3>3
  <2>3. Q \subseteq 1 .. Len(cs) + Len(ns) /\ P \subseteq 1 .. Len(cs) /\ x \in 1 .. Len(cs) + Len(ns)
    BY <1>1, <1>3
  <2>4. \A i \in 1 .. Len(cs) + Len(ns) : i \in 1 .. Len(cs) \/ i \in Len(cs) + 1 .. Len(cs) + Len(ns)
    BY <1>1
  <2> HIDE DEF Q, P, x
  <2> QED BY <2>1, <2>2, <2>3, <2>4
<1>5. Q = P \cup {x}
  BY <1>4
<1>6. P \in SUBSET Int /\ IsFiniteSet(P) /\ P \subseteq 1 .. Len(cs) /\ x \in Int
  <2>1. P \in SUBSET Int /\ IsFiniteSet(P)
    BY CallsInType
  <2>2. P \subseteq 1 .. Len(cs)
    OBVIOUS
  <2> QED BY <1>3, <2>1, <2>2
<1>7. \A i \in P : i < x
  BY <1>1, <1>6, <1>3
<1>8. CallsIn(all, h) = [j \in DOMAIN InOrder(Q) |-> all[InOrder(Q)[j]]]
  BY DEF CallsIn
<1>9. CallsIn(cs, h) = [j \in DOMAIN InOrder(P) |-> cs[InOrder(P)[j]]]
  BY DEF CallsIn
<1>10. CallsIn(all, h) \in Seq(Call) /\ CallsIn(cs, h) \in Seq(Call) /\ c \in Call
  <2>1. c \in Call
    BY <1>2
  <2> QED BY <1>1, <2>1, CallsInType
<1> HIDE DEF P, Q, x
<1> DEFINE n == Cardinality(P)
<1>11. InOrder(Q) = Append(InOrder(P), x)
  BY <1>5, <1>6, <1>7, InOrderAppend
<1>12. /\ InOrder(P) \in Seq(P) /\ Len(InOrder(P)) = n /\ n \in Nat /\ DOMAIN InOrder(P) = 1 .. n
       /\ \A j \in 1 .. n : InOrder(P)[j] \in P
  BY <1>6, InOrderLists
<1> HIDE DEF n
<1>13. /\ Len(InOrder(Q)) = n + 1 /\ DOMAIN InOrder(Q) = 1 .. n + 1
       /\ \A j \in 1 .. n : InOrder(Q)[j] = InOrder(P)[j]
       /\ InOrder(Q)[n + 1] = x
  BY <1>11, <1>12, AppendProperties
<1>14. Len(CallsIn(all, h)) = n + 1 /\ Len(CallsIn(cs, h)) = n
  BY <1>8, <1>9, <1>10, <1>12, <1>13
<1>15. ASSUME NEW j \in 1 .. n
       PROVE  CallsIn(all, h)[j] = CallsIn(cs, h)[j]
  <2>1. j \in DOMAIN InOrder(P) /\ j \in DOMAIN InOrder(Q)
    BY <1>12, <1>13
  <2>2. CallsIn(all, h)[j] = all[InOrder(P)[j]] /\ CallsIn(cs, h)[j] = cs[InOrder(P)[j]]
    BY <1>8, <1>9, <1>13, <2>1
  <2>3. InOrder(P)[j] \in 1 .. Len(cs)
    BY <1>6, <1>12
  <2> QED BY <1>1, <2>2, <2>3
<1>16. CallsIn(all, h)[n + 1] = c
  BY <1>3, <1>8, <1>12, <1>13
<1>17. /\ Append(CallsIn(cs, h), c) \in Seq(Call) /\ Len(Append(CallsIn(cs, h), c)) = n + 1
       /\ \A j \in 1 .. n : Append(CallsIn(cs, h), c)[j] = CallsIn(cs, h)[j]
       /\ Append(CallsIn(cs, h), c)[n + 1] = c
  BY <1>10, <1>14, AppendProperties
<1>18. \A j \in 1 .. n + 1 : CallsIn(all, h)[j] = Append(CallsIn(cs, h), c)[j]
  <2>1. \A j \in 1 .. n + 1 : j \in 1 .. n \/ j = n + 1
    BY <1>12
  <2> QED BY <1>15, <1>16, <1>17, <2>1
<1>19. CallsIn(all, h) = Append(CallsIn(cs, h), c)
  BY <1>10, <1>14, <1>17, <1>18, SeqEqual
<1> QED BY <1>19 DEF all

LEMMA NewCallsOf ==
  ASSUME IInv, NEW e, NEW h
  PROVE  /\ h \notin CalledAt(e) => NoneFor(NewCalls(e), h)
         /\ h \in CalledAt(e) => OneFor(NewCalls(e), h, [handler |-> h, held |-> Received(h)])
<1> DEFINE S == CalledAt(e)
           order == InOrder(S)
<1>1. IsFiniteSet(S) /\ S \in SUBSET Int
  BY CalledHandlers
<1>2. NewCalls(e) = [i \in 1 .. Len(order) |-> [handler |-> order[i], held |-> Received(order[i])]]
  BY DEF NewCalls, CallOrder
<1> HIDE DEF S
<1>3. /\ Len(order) \in Nat /\ Len(order) = Cardinality(S)
      /\ \A i \in 1 .. Len(order) : order[i] \in S
      /\ \A i, j \in 1 .. Len(order) : i < j => order[i] < order[j]
      /\ \A g \in S : \E i \in 1 .. Len(order) : order[i] = g
  BY <1>1, InOrderLists
<1> HIDE DEF order
<1>4. Len(NewCalls(e)) = Len(order)
  BY <1>2, <1>3
<1>5. ASSUME h \notin S
      PROVE  NoneFor(NewCalls(e), h)
  BY <1>2, <1>3, <1>4, <1>5 DEF NoneFor
<1>6. ASSUME h \in S
      PROVE  OneFor(NewCalls(e), h, [handler |-> h, held |-> Received(h)])
  <2>1. PICK k \in 1 .. Len(order) : order[k] = h
    BY <1>3, <1>6
  <2>2. ASSUME NEW i \in 1 .. Len(order), order[i] = h
        PROVE  i = k
    <3>1. order[i] \in Int /\ order[k] \in Int
      BY <1>1, <1>3
    <3>2. ~ (i < k) /\ ~ (k < i)
      BY <1>3, <2>1, <2>2, <3>1
    <3> QED BY <3>2
  <2>3. NewCalls(e)[k] = [handler |-> h, held |-> Received(h)]
    BY <1>2, <2>1
  <2>4. \A i \in 1 .. Len(order) : NewCalls(e)[i].handler = h => i = k
    BY <1>2, <2>2
  <2> QED BY <1>4, <2>3, <2>4 DEF OneFor
<1> QED BY <1>5, <1>6 DEF S

-------------------------------------------------------------------------------
(* The calls that are due to one handler, given its kind.                  *)

OnMatch(kind) == kind = "match"

(* The handlers of one that runs alone.                                     *)
Only(h) == {h}

DueSet(kind, h, d) == IF OnMatch(kind) THEN SelectedBy(d, Only(h)) ELSE Due(d, Only(h))

DueCall(kind, h, d, s) == [handler |-> h, held |-> IF OnMatch(kind) THEN <<s>> ELSE SubtreeEvents(d, s)]

DueCalls(kind, h, d) ==
  LET due == InOrder(DueSet(kind, h, d))
  IN  [i \in 1 .. Len(due) |-> DueCall(kind, h, d, due[i])]

(* One more is due to h after the last event of D: that for s.             *)
DueAt(kind, h, d, D, s) ==
  /\ s \in Int
  /\ DueSet(kind, h, D) = DueSet(kind, h, d) \cup {s}
  /\ \A t \in DueSet(kind, h, d) : t < s

LEMMA DueSetBounds ==
  ASSUME NEW d \in Seq(Event), NEW kind, NEW h
  PROVE  /\ DueSet(kind, h, d) \in SUBSET Int /\ IsFiniteSet(DueSet(kind, h, d))
         /\ DueSet(kind, h, d) \subseteq 1 .. Len(d)
<1>1. /\ SelectedBy(d, Only(h)) \subseteq 1 .. Len(d) /\ IsFiniteSet(SelectedBy(d, Only(h)))
      /\ Due(d, Only(h)) \subseteq 1 .. Len(d) /\ IsFiniteSet(Due(d, Only(h)))
  BY SelectionBounds
<1>2. DueSet(kind, h, d) \subseteq 1 .. Len(d) /\ IsFiniteSet(DueSet(kind, h, d))
  BY <1>1 DEF DueSet
<1> QED BY <1>2

LEMMA DueCallType ==
  ASSUME NEW d \in Seq(Event), NEW kind, NEW h \in Handlers, NEW s, s \in 1 .. Len(d)
  PROVE  DueCall(kind, h, d, s) \in Call
<1>1. <<s>> \in Seq(Nat)
  OBVIOUS
<1>2. SubtreeEvents(d, s) \in Seq(Nat)
  <2>1. Subtree(d, s) \in SUBSET (s .. Len(d)) /\ IsFiniteSet(s .. Len(d))
    BY SubtreeBounds, FS_Interval
  <2>2. Cardinality(Subtree(d, s)) \in Nat
    BY <2>1, FS_Subset, FS_CardinalityType
  <2>3. \A i \in 1 .. Cardinality(Subtree(d, s)) : s + i - 1 \in Nat
    BY <2>2
  <2> QED BY <2>2, <2>3 DEF SubtreeEvents
<1> QED BY <1>1, <1>2 DEF DueCall, Call

LEMMA DueCallsType ==
  ASSUME NEW d \in Seq(Event), NEW kind, NEW h \in Handlers
  PROVE  /\ DueCalls(kind, h, d) \in Seq(Call)
         /\ Len(DueCalls(kind, h, d)) = Len(InOrder(DueSet(kind, h, d)))
<1> DEFINE S == DueSet(kind, h, d)
           due == InOrder(S)
<1>1. S \in SUBSET Int /\ IsFiniteSet(S) /\ S \subseteq 1 .. Len(d)
  BY DueSetBounds
<1>2. DueCalls(kind, h, d) = [i \in 1 .. Len(due) |-> DueCall(kind, h, d, due[i])]
  BY DEF DueCalls
<1> HIDE DEF S
<1>3. Len(due) \in Nat /\ \A i \in 1 .. Len(due) : due[i] \in S
  BY <1>1, InOrderLists
<1> HIDE DEF due
<1>4. \A i \in 1 .. Len(due) : DueCall(kind, h, d, due[i]) \in Call
  <2> SUFFICES ASSUME NEW i \in 1 .. Len(due) PROVE DueCall(kind, h, d, due[i]) \in Call
    OBVIOUS
  <2>1. due[i] \in 1 .. Len(d)
    BY <1>1, <1>3
  <2> QED BY <2>1, DueCallType
<1> QED BY <1>2, <1>3, <1>4 DEF due, S

(* What was due is still due, for the same events.                         *)
LEMMA DueCallKept ==
  ASSUME NEW d \in Seq(Event), NEW e \in Event, NEW D, Extends(D, d, e), NEW kind, NEW h,
         NEW s, s \in DueSet(kind, h, d)
  PROVE  DueCall(kind, h, D, s) = DueCall(kind, h, d, s)
<1>1. CASE OnMatch(kind)
  BY <1>1 DEF DueCall
<1>2. CASE ~ OnMatch(kind)
  <2>1. s \in Due(d, Only(h))
    BY <1>2 DEF DueSet
  <2>2. Subtree(D, s) = Subtree(d, s)
    BY <2>1, DueAppended
  <2> QED BY <1>2, <2>2 DEF DueCall, SubtreeEvents
<1> QED BY <1>1, <1>2

LEMMA DueCallsSame ==
  ASSUME NEW d \in Seq(Event), NEW e \in Event, NEW D, Extends(D, d, e), NEW kind, NEW h,
         DueSet(kind, h, D) = DueSet(kind, h, d)
  PROVE  DueCalls(kind, h, D) = DueCalls(kind, h, d)
<1> DEFINE due == InOrder(DueSet(kind, h, d))
<1>1. \A i \in 1 .. Len(due) : due[i] \in DueSet(kind, h, d)
  <2>1. DueSet(kind, h, d) \in SUBSET Int /\ IsFiniteSet(DueSet(kind, h, d))
    BY DueSetBounds
  <2> QED BY <2>1, InOrderLists
<1>2. \A i \in 1 .. Len(due) : DueCall(kind, h, D, due[i]) = DueCall(kind, h, d, due[i])
  BY <1>1, DueCallKept
<1> QED BY <1>2 DEF DueCalls

LEMMA DueCallsGrow ==
  ASSUME NEW d \in Seq(Event), NEW e \in Event, NEW D, Extends(D, d, e), NEW kind, NEW h \in Handlers,
         NEW s, DueAt(kind, h, d, D, s)
  PROVE  /\ DueCalls(kind, h, D) = Append(DueCalls(kind, h, d), DueCall(kind, h, D, s))
         /\ DueCall(kind, h, D, s) \in Call
<1> DEFINE S == DueSet(kind, h, d)
           T == DueSet(kind, h, D)
           c == DueCall(kind, h, D, s)
           old == DueCalls(kind, h, d)
           new == DueCalls(kind, h, D)
<1>1. D \in Seq(Event)
  BY LevelsAppended
<1>2. /\ S \in SUBSET Int /\ IsFiniteSet(S) /\ T \subseteq 1 .. Len(D)
      /\ s \in Int /\ T = S \cup {s} /\ \A t \in S : t < s
  BY <1>1, DueSetBounds DEF DueAt
<1>3. c \in Call
  <2>1. s \in 1 .. Len(D)
    BY <1>2
  <2> QED BY <1>1, <2>1, DueCallType
<1>4. \A t \in S : DueCall(kind, h, D, t) = DueCall(kind, h, d, t)
  BY DueCallKept
<1>5. /\ old \in Seq(Call) /\ Len(old) = Len(InOrder(S))
      /\ new \in Seq(Call) /\ Len(new) = Len(InOrder(T))
  BY <1>1, DueCallsType
<1>6. /\ old = [i \in 1 .. Len(InOrder(S)) |-> DueCall(kind, h, d, InOrder(S)[i])]
      /\ new = [i \in 1 .. Len(InOrder(T)) |-> DueCall(kind, h, D, InOrder(T)[i])]
  BY DEF DueCalls
<1>7. c = DueCall(kind, h, D, s)
  OBVIOUS
<1> HIDE DEF S, T, c, old, new
<1> DEFINE n == Len(InOrder(S))
<1>8. InOrder(S) \in Seq(S) /\ n \in Nat /\ \A i \in 1 .. n : InOrder(S)[i] \in S
  BY <1>2, InOrderLists
<1>9. InOrder(T) = Append(InOrder(S), s)
  BY <1>2, InOrderAppend
<1>10. /\ Len(InOrder(T)) = n + 1
       /\ \A i \in 1 .. n : InOrder(T)[i] = InOrder(S)[i]
       /\ InOrder(T)[n + 1] = s
  BY <1>8, <1>9, AppendProperties
<1> HIDE DEF n
<1>11. \A i \in 1 .. n : new[i] = old[i]
  BY <1>4, <1>6, <1>8, <1>10 DEF n
<1>12. new[n + 1] = c
  BY <1>6, <1>7, <1>8, <1>10
<1>13. /\ Append(old, c) \in Seq(Call) /\ Len(Append(old, c)) = n + 1
       /\ \A i \in 1 .. n : Append(old, c)[i] = old[i]
       /\ Append(old, c)[n + 1] = c
  BY <1>3, <1>5, AppendProperties DEF n
<1>14. \A i \in 1 .. n + 1 : new[i] = Append(old, c)[i]
  <2>1. \A i \in 1 .. n + 1 : i \in 1 .. n \/ i = n + 1
    BY <1>8
  <2> QED BY <1>11, <1>12, <1>13, <2>1
<1>15. new = Append(old, c)
  BY <1>5, <1>10, <1>13, <1>14, SeqEqual
<1> QED BY <1>3, <1>15 DEF new, old, c

Prefix(made, due) == Len(made) <= Len(due) /\ \A i \in 1 .. Len(made) : made[i] = due[i]

(* To a handler that has stopped, more may be due than it was called for.  *)
LEMMA PrefixKept ==
  ASSUME NEW d \in Seq(Event), NEW e \in Event, NEW D, Extends(D, d, e), NEW kind, NEW h \in Handlers,
         NEW made \in Seq(Call), Prefix(made, DueCalls(kind, h, d))
  PROVE  Prefix(made, DueCalls(kind, h, D))
<1>1. GrowsAtEnd(DueSet(kind, h, D), DueSet(kind, h, d))
  BY DueGrows DEF DueSet
<1>2. DueSet(kind, h, D) = DueSet(kind, h, d) \/ \E s : DueAt(kind, h, d, D, s)
  BY <1>1 DEF GrowsAtEnd, DueAt
<1>3. CASE DueSet(kind, h, D) = DueSet(kind, h, d)
  <2>1. DueCalls(kind, h, D) = DueCalls(kind, h, d)
    BY <1>3, DueCallsSame
  <2> QED BY <2>1
<1>4. ASSUME NEW s, DueAt(kind, h, d, D, s)
      PROVE  Prefix(made, DueCalls(kind, h, D))
  <2> DEFINE old == DueCalls(kind, h, d)
             c == DueCall(kind, h, D, s)
  <2>1. DueCalls(kind, h, D) = Append(old, c) /\ c \in Call
    BY <1>4, DueCallsGrow
  <2>2. old \in Seq(Call) /\ Prefix(made, old)
    BY DueCallsType
  <2> HIDE DEF old, c
  <2>3. Prefix(made, Append(old, c))
    BY <2>1, <2>2, AppendProperties DEF Prefix
  <2> QED BY <2>1, <2>3
<1> QED BY <1>2, <1>3, <1>4

-------------------------------------------------------------------------------
(* What a handler that has not stopped is reading.                         *)

InSubtree(p, h, d, m) ==
  /\ Within(d, Only(h), m)
  /\ p.held = Held(m, Len(d))
  /\ p.depth = Level(d, Len(d)) - Level(d, m) + 1

Reads(p, kind, h, d) ==
  IF ~ OnMatch(kind) /\ p.depth > 0 THEN \E m : InSubtree(p, h, d, m)
  ELSE /\ p.depth = 0 /\ p.held = <<>>
       /\ ~ OnMatch(kind) => Away(d, Only(h))

LEMMA SelectsOne ==
  ASSUME NEW e, NEW h
  PROVE  Selects(Only(h), e) <=> e.kind \in {"start", "empty"} /\ h \in e.by
BY DEF Selects, Only

(* Nothing that h is called for: what is due to it stays the same.         *)
LEMMA NothingSelected ==
  ASSUME NEW d \in Seq(Event), NEW e \in Event, NEW D, Extends(D, d, e), NEW h, ~ Selects(Only(h), e), NEW kind
  PROVE  /\ OnMatch(kind) => DueSet(kind, h, D) = DueSet(kind, h, d)
         /\ Away(d, Only(h)) => Away(D, Only(h)) /\ DueSet(kind, h, D) = DueSet(kind, h, d)
<1>1. SelectedBy(D, Only(h)) = SelectedBy(d, Only(h)) \cup {}
  BY SelectionAppended
<1>2. Away(d, Only(h)) => Away(D, Only(h)) /\ Due(D, Only(h)) = Due(d, Only(h))
  BY StaysAway, DueWhenAway
<1> QED BY <1>1, <1>2 DEF DueSet

GoesOn(p, q, e, D) ==
  p.depth > 0 /\ q.held = Append(p.held, Len(D)) /\ q.depth = p.depth + Change(e) /\ q.depth > 0

(* An event in a subtree that h is reading, which does not end it.         *)
LEMMA SubtreeGoesOn ==
  ASSUME NEW d \in Seq(Event), NEW e \in Event, NEW D, Extends(D, d, e), NEW h, NEW kind, ~ OnMatch(kind),
         NEW p, NEW q, Reads(p, kind, h, d), GoesOn(p, q, e, D)
  PROVE  /\ Reads(q, kind, h, D)
         /\ DueSet(kind, h, D) = DueSet(kind, h, d)
<1> p.depth > 0 /\ q.held = Append(p.held, Len(D)) /\ q.depth = p.depth + Change(e) /\ q.depth > 0
  BY DEF GoesOn
<1>1. /\ D \in Seq(Event) /\ Len(D) = Len(d) + 1 /\ Len(d) \in Nat
  BY LevelsAppended
<1>2. PICK m : InSubtree(p, h, d, m)
  BY DEF Reads
<1>3. m \in 1 .. Len(d) /\ m \in Nat \ {0} /\ m <= Len(d) /\ Within(d, Only(h), m)
  BY <1>1, <1>2, SelectionBounds DEF InSubtree, Within
<1>4. Level(d, Len(d)) \in Int /\ Level(d, m) \in Int /\ Change(e) \in Int
  BY <1>1, <1>3, LevelType DEF Change
<1>5. Level(d, Len(d)) + Change(e) >= Level(d, m)
  BY <1>2, <1>4 DEF InSubtree
<1>6. Within(D, Only(h), m)
  BY <1>3, <1>5, StaysWithin
<1>7. q.held = Held(m, Len(D))
  <2>1. Append(Held(m, Len(d)), Len(d) + 1) = Held(m, Len(d) + 1)
    BY <1>1, <1>3, HeldGrows
  <2> QED BY <1>1, <1>2, <2>1 DEF InSubtree
<1>8. q.depth = Level(D, Len(D)) - Level(D, m) + 1
  <2>1. Level(D, Len(D)) = Level(d, Len(d)) + Change(e) /\ Level(D, m) = Level(d, m)
    BY <1>1, <1>3, LevelsAppended
  <2> QED BY <1>2, <1>4, <2>1 DEF InSubtree
<1>9. InSubtree(q, h, D, m)
  BY <1>6, <1>7, <1>8 DEF InSubtree
<1>10. Due(D, Only(h)) = Due(d, Only(h))
  <2>1. ~ (Level(d, Len(d)) + Change(e) < Level(d, m))
    BY <1>4, <1>5
  <2> QED BY <1>3, <2>1, DueWithin
<1> QED BY <1>9, <1>10 DEF Reads, DueSet

AtItsEnd(p, e) == p.depth = 1 /\ e.kind = "end"

AtItsStart(q, D) == q.depth = 1 /\ q.held = <<Len(D)>>

(* The end tag of a subtree that h is reading.                             *)
LEMMA SubtreeEnds ==
  ASSUME NEW d \in Seq(Event), NEW e \in Event, NEW D, Extends(D, d, e), NEW h, NEW kind, ~ OnMatch(kind),
         NEW p, Reads(p, kind, h, d), AtItsEnd(p, e)
  PROVE  /\ Away(D, Only(h))
         /\ \E m : DueAt(kind, h, d, D, m) /\ DueCall(kind, h, D, m) = [handler |-> h, held |-> Append(p.held, Len(D))]
<1>1. /\ D \in Seq(Event) /\ Len(D) = Len(d) + 1 /\ Len(d) \in Nat
  BY LevelsAppended
<1> p.depth = 1 /\ e.kind = "end"
  BY DEF AtItsEnd
<1>2. PICK m : InSubtree(p, h, d, m)
  BY DEF Reads
<1>3. m \in 1 .. Len(d) /\ m \in Nat \ {0} /\ m <= Len(d) /\ Within(d, Only(h), m)
  BY <1>1, <1>2, SelectionBounds DEF InSubtree, Within
<1>4. Level(d, Len(d)) + Change(e) < Level(d, m)
  <2>1. Level(d, Len(d)) \in Int /\ Level(d, m) \in Int
    BY <1>1, <1>3, LevelType
  <2>2. Level(d, Len(d)) = Level(d, m)
    BY <1>2, <2>1 DEF InSubtree
  <2>3. Change(e) = -1
    BY DEF Change
  <2> QED BY <2>1, <2>2, <2>3
<1>5. Away(D, Only(h))
  BY <1>3, <1>4, LeavesMatch
<1>6. DueAt(kind, h, d, D, m)
  <2>1. Due(D, Only(h)) = Due(d, Only(h)) \cup {m} /\ \A s \in Due(d, Only(h)) : s < m
    BY <1>3, <1>4, DueWithin
  <2>2. m \in Int
    BY <1>3
  <2> QED BY <2>1, <2>2 DEF DueAt, DueSet
<1>7. Append(p.held, Len(D)) = Held(m, Len(D))
  <2>1. Append(Held(m, Len(d)), Len(d) + 1) = Held(m, Len(d) + 1)
    BY <1>1, <1>3, HeldGrows
  <2> QED BY <1>1, <1>2, <2>1 DEF InSubtree
<1>8. SubtreeEvents(D, m) = Held(m, Len(D))
  BY <1>3, EventsOfMatch
<1>9. DueCall(kind, h, D, m) = [handler |-> h, held |-> Append(p.held, Len(D))]
  BY <1>7, <1>8 DEF DueCall
<1> QED BY <1>5, <1>6, <1>9

(* The start of a subtree.                                                 *)
LEMMA SubtreeStarts ==
  ASSUME NEW d \in Seq(Event), NEW e \in Event, NEW D, Extends(D, d, e), NEW h, NEW kind, ~ OnMatch(kind),
         Away(d, Only(h)), e.kind = "start", h \in e.by,
         NEW q, AtItsStart(q, D)
  PROVE  /\ Reads(q, kind, h, D)
         /\ DueSet(kind, h, D) = DueSet(kind, h, d)
<1>1. /\ D \in Seq(Event) /\ Len(D) \in Nat
      /\ q.depth = 1 /\ q.held = <<Len(D)>>
  BY LevelsAppended DEF AtItsStart
<1>2. Selects(Only(h), e)
  BY SelectsOne
<1>3. Within(D, Only(h), Len(D))
  BY <1>2, EntersMatch
<1>4. q.held = Held(Len(D), Len(D))
  BY <1>1, HeldOne
<1>5. q.depth = Level(D, Len(D)) - Level(D, Len(D)) + 1
  BY <1>1, LevelType
<1>6. InSubtree(q, h, D, Len(D))
  BY <1>3, <1>4, <1>5 DEF InSubtree
<1>7. Due(D, Only(h)) = Due(d, Only(h))
  BY DueWhenAway
<1> QED BY <1>1, <1>6, <1>7 DEF Reads, DueSet

(* A tag at which a match handler, or an empty element at which a subtree  *)
(* handler, is called.                                                     *)
LEMMA TagIsDue ==
  ASSUME NEW d \in Seq(Event), NEW e \in Event, NEW D, Extends(D, d, e), NEW h, NEW kind,
         h \in e.by, \/ OnMatch(kind) /\ e.kind \in {"start", "empty"}
                     \/ ~ OnMatch(kind) /\ e.kind = "empty" /\ Away(d, Only(h))
  PROVE  /\ DueAt(kind, h, d, D, Len(D))
         /\ DueCall(kind, h, D, Len(D)) = [handler |-> h, held |-> <<Len(D)>>]
         /\ ~ OnMatch(kind) => Away(D, Only(h))
<1>1. /\ D \in Seq(Event) /\ Len(D) = Len(d) + 1 /\ Len(d) \in Nat
      /\ DueSet(kind, h, d) \subseteq 1 .. Len(d)
  BY LevelsAppended, DueSetBounds
<1>2. Len(D) \in Int /\ \A t \in DueSet(kind, h, d) : t < Len(D)
  BY <1>1
<1>3. Selects(Only(h), e)
  BY SelectsOne
<1>4. CASE OnMatch(kind)
  <2>1. SelectedBy(D, Only(h)) = SelectedBy(d, Only(h)) \cup {Len(D)}
    BY <1>3, SelectionAppended
  <2> QED BY <1>2, <1>4, <2>1 DEF DueAt, DueSet, DueCall
<1>5. CASE ~ OnMatch(kind)
  <2>1. Due(D, Only(h)) = Due(d, Only(h)) \cup {Len(D)}
    BY <1>3, <1>5, DueWhenAway
  <2>2. SubtreeEvents(D, Len(D)) = <<Len(D)>>
    BY EventsOfEmpty
  <2>3. Away(D, Only(h))
    BY <1>5, StaysAway
  <2> QED BY <1>2, <1>5, <2>1, <2>2, <2>3 DEF DueAt, DueSet, DueCall
<1> QED BY <1>4, <1>5

-------------------------------------------------------------------------------
(* Each handler has been called for what is due to it.                     *)

Counted(p, most, made, broken) ==
  /\ most = NoLimit => p.remaining = NoLimit
  /\ most # NoLimit => p.remaining \in Nat /\ Len(made) + p.remaining = most
  /\ p.stopped => broken \/ Len(made) = most

UpToDate(p, kind, most, h, d, made, broken) ==
  /\ Prefix(made, DueCalls(kind, h, d))
  /\ ~p.stopped => made = DueCalls(kind, h, d) /\ Reads(p, kind, h, d)
  /\ Counted(p, most, made, broken)

HInv(h) ==
  UpToDate(progress[h], registered[h].kind, registered[h].limit, h, doc, CallsIn(calls, h), h \in broke)

AInv == OInv /\ \A h \in Handlers : HInv(h)

LEMMA CountedAfterCall ==
  ASSUME NEW p \in Progress, p.remaining # 0, NEW most, NEW made \in Seq(Call), NEW broken,
         Counted(p, most, made, broken), NEW c \in Call, NEW break \in BOOLEAN, NEW now, break => now
  PROVE  Counted(Called(p, break), most, Append(made, c), now)
<1> DEFINE q == Called(p, break)
<1>1. Len(Append(made, c)) = Len(made) + 1 /\ Len(made) \in Nat
  BY AppendProperties
<1>2. /\ q.remaining = IF p.remaining = NoLimit THEN NoLimit ELSE p.remaining - 1
      /\ q.stopped = (break \/ p.remaining = 1)
  BY DEF Called
<1>3. NoLimit \notin Nat
  BY EventsAssumption
<1> HIDE DEF q
<1>4. CASE most = NoLimit
  <2>1. p.remaining = NoLimit
    BY <1>4 DEF Counted
  <2>2. q.remaining = NoLimit /\ (q.stopped => break)
    BY <1>2, <1>3, <2>1
  <2> QED BY <1>4, <2>2 DEF Counted, q
<1>5. CASE most # NoLimit
  <2>1. p.remaining \in Nat /\ Len(made) + p.remaining = most
    BY <1>5 DEF Counted
  <2>2. q.remaining = p.remaining - 1
    BY <1>2, <1>3, <2>1
  <2>3. q.remaining \in Nat /\ Len(Append(made, c)) + q.remaining = most
    BY <1>1, <2>1, <2>2
  <2>4. q.stopped => break \/ Len(Append(made, c)) = most
    BY <1>1, <1>2, <2>1
  <2> QED BY <1>5, <2>3, <2>4 DEF Counted, q
<1> QED BY <1>4, <1>5

LEMMA PrefixOfItself == ASSUME NEW due \in Seq(Call) PROVE Prefix(due, due)
BY DEF Prefix

(* A handler that is called, for what becomes due to it.                   *)
LEMMA CalledIsUpToDate ==
  ASSUME NEW d \in Seq(Event), NEW e \in Event, NEW D, Extends(D, d, e), NEW h \in Handlers, NEW kind,
         NEW most, NEW p \in Progress, p.remaining # 0, ~ p.stopped, NEW made \in Seq(Call),
         NEW broken, UpToDate(p, kind, most, h, d, made, broken),
         NEW s, DueAt(kind, h, d, D, s), ~ OnMatch(kind) => Away(D, Only(h)),
         NEW break \in BOOLEAN, NEW now, break => now
  PROVE  UpToDate(Called(p, break), kind, most, h, D, Append(made, DueCall(kind, h, D, s)), now)
<1> DEFINE c == DueCall(kind, h, D, s)
           q == Called(p, break)
<1>1. DueCalls(kind, h, D) = Append(DueCalls(kind, h, d), c) /\ c \in Call
  BY DueCallsGrow
<1>2. made = DueCalls(kind, h, d) /\ Counted(p, most, made, broken)
  BY DEF UpToDate
<1>3. Prefix(Append(made, c), DueCalls(kind, h, D))
  <2>1. Append(made, c) \in Seq(Call)
    BY <1>1
  <2> QED BY <1>1, <1>2, <2>1, PrefixOfItself
<1>4. Reads(q, kind, h, D)
  BY DEF Reads, Called
<1> HIDE DEF c
<1>5. Counted(q, most, Append(made, c), now)
  BY <1>1, <1>2, CountedAfterCall
<1> QED BY <1>1, <1>2, <1>3, <1>4, <1>5 DEF UpToDate, c

(* A handler that is not called.                                           *)
LEMMA OtherIsUpToDate ==
  ASSUME NEW d \in Seq(Event), NEW e \in Event, NEW D, Extends(D, d, e), NEW h \in Handlers, NEW kind,
         NEW most, NEW p, NEW q, q.remaining = p.remaining, q.stopped = p.stopped, NEW made \in Seq(Call),
         NEW broken, UpToDate(p, kind, most, h, d, made, broken), NEW now, broken => now,
         ~ p.stopped => Reads(q, kind, h, D) /\ DueSet(kind, h, D) = DueSet(kind, h, d)
  PROVE  UpToDate(q, kind, most, h, D, made, now)
<1>1. Prefix(made, DueCalls(kind, h, D))
  BY PrefixKept DEF UpToDate
<1>2. ~ p.stopped => made = DueCalls(kind, h, D)
  BY DueCallsSame DEF UpToDate
<1>3. Counted(q, most, made, now)
  BY DEF UpToDate, Counted
<1> QED BY <1>1, <1>2, <1>3 DEF UpToDate

LEMMA HoldingFields ==
  ASSUME IInv, NEW h \in Handlers, NEW n
  PROVE  /\ Holding(progress[h], n).held = Append(progress[h].held, Here)
         /\ Holding(progress[h], n).depth = n
         /\ Holding(progress[h], n).remaining = progress[h].remaining
         /\ Holding(progress[h], n).stopped = progress[h].stopped
BY DEF Holding, IInv, TypeOK, Progress

(* A handler that is called at a tag, and why.                             *)
LEMMA WhyCalled ==
  ASSUME AInv, NEW e \in Event, e.kind \in {"start", "empty", "end"}, Read(e),
         NEW h \in Handlers, h \in CalledAt(e)
  PROVE  /\ ~ progress[h].stopped
         /\ ~ OnMatch(registered[h].kind) => Away(doc', Only(h))
         /\ \E s : /\ DueAt(registered[h].kind, h, doc, doc', s)
                   /\ DueCall(registered[h].kind, h, doc', s) = [handler |-> h, held |-> Received(h)]
<1> DEFINE kind == registered[h].kind
           p == progress[h]
<1>1. /\ doc \in Seq(Event) /\ Extends(doc', doc, e) /\ Here = Len(doc')
      /\ p \in Progress /\ Sound(p)
  BY ReadAppends DEF AInv, OInv, IInv, TypeOK
<1>2. ~ p.stopped
  BY <1>1 DEF CalledAt, Matches, Sound
<1>3. Reads(p, kind, h, doc)
  BY <1>2 DEF AInv, HInv, UpToDate
<1>4. Received(h) = Append(p.held, Len(doc'))
  BY <1>1 DEF Received
<1>5. CASE e.kind = "end"
  <2>1. p.depth = 1
    BY <1>5 DEF CalledAt
  <2>2. ~ OnMatch(kind)
    BY <1>3, <2>1 DEF Reads
  <2>4. AtItsEnd(p, e)
    BY <1>5, <2>1 DEF AtItsEnd
  <2> HIDE DEF kind, p
  <2>3. /\ Away(doc', Only(h))
        /\ \E m : DueAt(kind, h, doc, doc', m) /\ DueCall(kind, h, doc', m) = [handler |-> h, held |-> Append(p.held, Len(doc'))]
    BY <1>1, <1>3, <2>2, <2>4, SubtreeEnds
  <2> QED BY <1>2, <1>4, <2>3 DEF kind, p
<1>6. CASE e.kind \in {"start", "empty"}
  <2>1. h \in e.by /\ (OnMatch(kind) \/ (e.kind = "empty" /\ ~ Reading(h)))
    BY <1>6 DEF CalledAt, Matches, OnMatch
  <2>2. ~ (p.depth > 0) => p.depth = 0
    BY <1>1 DEF Progress
  <2>3. /\ p.held = <<>>
        /\ ~ OnMatch(kind) => e.kind = "empty" /\ Away(doc, Only(h))
    BY <1>3, <2>1, <2>2 DEF Reads, Reading
  <2>4. Received(h) = <<Len(doc')>>
    BY <1>4, <2>3
  <2> HIDE DEF kind, p
  <2>5. \/ OnMatch(kind) /\ e.kind \in {"start", "empty"}
        \/ ~ OnMatch(kind) /\ e.kind = "empty" /\ Away(doc, Only(h))
    BY <1>6, <2>3
  <2>6. /\ DueAt(kind, h, doc, doc', Len(doc'))
        /\ DueCall(kind, h, doc', Len(doc')) = [handler |-> h, held |-> <<Len(doc')>>]
        /\ ~ OnMatch(kind) => Away(doc', Only(h))
    BY <1>1, <2>1, <2>5, TagIsDue
  <2> QED BY <1>2, <2>4, <2>6 DEF kind, p
<1> QED BY <1>5, <1>6

(* A handler that is not called at a tag.                                  *)
LEMMA NotCalled ==
  ASSUME AInv, NEW e \in Event, e.kind \in {"start", "empty", "end"}, Read(e),
         NEW h \in Handlers, h \notin CalledAt(e)
  PROVE  /\ AfterTag(h, e).remaining = progress[h].remaining
         /\ AfterTag(h, e).stopped = progress[h].stopped
         /\ ~ progress[h].stopped => /\ Reads(AfterTag(h, e), registered[h].kind, h, doc')
                                     /\ DueSet(registered[h].kind, h, doc') = DueSet(registered[h].kind, h, doc)
<1> DEFINE kind == registered[h].kind
           p == progress[h]
           q == AfterTag(h, e)
<1>1. /\ doc \in Seq(Event) /\ Extends(doc', doc, e) /\ Here = Len(doc')
      /\ p \in Progress /\ Sound(p) /\ p.depth \in Nat /\ IInv
  BY ReadAppends DEF AInv, OInv, IInv, TypeOK, Progress
<1>2. q.remaining = p.remaining /\ q.stopped = p.stopped
  BY <1>1, HoldingFields DEF AfterTag
<1>3. ASSUME ~ p.stopped
      PROVE  Reads(q, kind, h, doc') /\ DueSet(kind, h, doc') = DueSet(kind, h, doc)
  <2>1. Reads(p, kind, h, doc)
    BY <1>3 DEF AInv, HInv, UpToDate
  <2>2. CASE OnMatch(kind)
    <3>1. p.depth = 0 /\ ~ Reading(h) /\ p.held = <<>>
      BY <1>1, <2>1, <2>2 DEF Reads, Reading
    <3>2. ~ Selects(Only(h), e) /\ ~ (e.kind = "start" /\ Matches(h, e))
      BY <1>3, <2>2, SelectsOne DEF CalledAt, Matches, OnMatch
    <3>3. q = p
      BY <1>3, <3>1, <3>2 DEF AfterTag
    <3>4. DueSet(kind, h, doc') = DueSet(kind, h, doc)
      <4> HIDE DEF kind, p, q
      <4> QED BY <1>1, <2>2, <3>2, NothingSelected
    <3> QED BY <2>2, <3>1, <3>3, <3>4 DEF Reads
  <2>3. CASE ~ OnMatch(kind) /\ p.depth = 0
    <3>1. ~ Reading(h) /\ Away(doc, Only(h)) /\ p.held = <<>>
      BY <1>1, <2>1, <2>3 DEF Reads, Reading
    <3>2. CASE e.kind = "start" /\ h \in e.by
      <4>1. q = Holding(p, 1)
        BY <1>3, <3>1, <3>2 DEF AfterTag, Matches
      <4>2. AtItsStart(q, doc')
        BY <1>1, <3>1, <4>1, HoldingFields DEF AtItsStart
      <4> HIDE DEF q, p, kind
      <4> QED BY <1>1, <2>3, <3>1, <3>2, <4>2, SubtreeStarts
    <3>3. CASE ~ (e.kind = "start" /\ h \in e.by)
      <4>1. ~ Matches(h, e) \/ e.kind # "start"
        BY <3>3 DEF Matches
      <4>2. ~ Selects(Only(h), e)
        BY <1>3, <3>1, <3>3, SelectsOne DEF CalledAt, Matches, OnMatch
      <4>3. q = p
        BY <1>3, <3>1, <4>1 DEF AfterTag
      <4>4. Away(doc', Only(h)) /\ DueSet(kind, h, doc') = DueSet(kind, h, doc)
        <5> HIDE DEF kind, p, q
        <5> QED BY <1>1, <3>1, <4>2, NothingSelected
      <4> QED BY <2>3, <3>1, <4>3, <4>4 DEF Reads
    <3> QED BY <3>2, <3>3
  <2>4. CASE ~ OnMatch(kind) /\ p.depth > 0
    <3>1. Reading(h)
      BY <2>4 DEF Reading
    <3>2. q = Holding(p, p.depth + Change(e))
      <4>1. e.kind = "empty" => p.depth + 0 = p.depth
        BY <1>1
      <4>2. p.depth + (-1) = p.depth - 1
        BY <1>1
      <4> QED BY <1>3, <3>1, <4>1, <4>2 DEF AfterTag, Change
    <3>3. p.depth + Change(e) > 0
      <4>1. e.kind = "end" => p.depth # 1
        BY DEF CalledAt
      <4> QED BY <1>1, <2>4, <4>1 DEF Change
    <3>4. q.held = Append(p.held, Len(doc')) /\ q.depth = p.depth + Change(e) /\ q.depth > 0
      BY <1>1, <3>2, <3>3, HoldingFields
    <3>5. GoesOn(p, q, e, doc')
      BY <2>4, <3>4 DEF GoesOn
    <3> HIDE DEF q, p, kind
    <3> QED BY <1>1, <2>1, <2>4, <3>5, SubtreeGoesOn
  <2> QED BY <1>1, <2>2, <2>3, <2>4
<1> QED BY <1>2, <1>3

-------------------------------------------------------------------------------
LEMMA NothingSelectedYet ==
  ASSUME NEW kind, NEW h
  PROVE  /\ DueCalls(kind, h, <<>>) = <<>>
         /\ Away(<<>>, Only(h))
<1>1. SelectedBy(<<>>, Only(h)) = {} /\ Due(<<>>, Only(h)) = {}
  BY DEF SelectedBy, Due, Outermost
<1>2. DueSet(kind, h, <<>>) = {}
  BY <1>1 DEF DueSet
<1>3. InOrder({}) \in Seq({}) /\ Len(InOrder({})) = 0
  BY InOrderLists, FS_EmptySet
<1>4. DueCalls(kind, h, <<>>) = <<>>
  BY <1>2, <1>3 DEF DueCalls
<1> QED BY <1>1, <1>4 DEF Away

LEMMA NoCallsYet == ASSUME NEW h PROVE CallsIn(<<>>, h) = <<>>
<1>1. {i \in 1 .. Len(<<>>) : <<>>[i].handler = h} = {}
  OBVIOUS
<1>2. InOrder({}) \in Seq({}) /\ Len(InOrder({})) = 0
  BY InOrderLists, FS_EmptySet
<1> QED BY <1>1, <1>2 DEF CallsIn

LEMMA InitUpToDate == EventsInit /\ DispatchInit => AInv
<1> SUFFICES ASSUME EventsInit, DispatchInit PROVE AInv
  OBVIOUS
<1>1. OInv
  BY InitOrdered
<1>2. doc = <<>> /\ calls = <<>> /\ registered \in Registrations
  BY DEF EventsInit, DispatchInit
<1>3. ASSUME NEW h \in Handlers
      PROVE  HInv(h)
  <2> DEFINE kind == registered[h].kind
             most == registered[h].limit
             p == progress[h]
  <2>1. p.held = <<>> /\ p.depth = 0 /\ p.remaining = most /\ p.stopped = (most = 0)
    BY DEF DispatchInit, NewProgress
  <2>2. most \in Nat \cup {NoLimit}
    BY <1>2, EventsAssumption
  <2> HIDE DEF kind, most, p
  <2>3. DueCalls(kind, h, doc) = <<>> /\ Away(doc, Only(h)) /\ CallsIn(calls, h) = <<>>
    BY <1>2, NothingSelectedYet, NoCallsYet
  <2>4. Reads(p, kind, h, doc)
    BY <2>1, <2>3 DEF Reads
  <2>5. Counted(p, most, <<>>, h \in broke)
    <3>1. Len(<<>>) = 0 /\ (p.stopped => most = 0) /\ p.remaining = most
      BY <2>1
    <3>2. most # NoLimit => most \in Nat /\ 0 + most = most
      BY <2>2
    <3> QED BY <3>1, <3>2 DEF Counted
  <2>6. UpToDate(p, kind, most, h, doc, CallsIn(calls, h), h \in broke)
    BY <2>3, <2>4, <2>5 DEF UpToDate, Prefix
  <2> QED BY <2>6 DEF HInv, kind, most, p
<1> QED BY <1>1, <1>3 DEF AInv

LEMMA TagUpToDate == AInv /\ DispatchTag => AInv'
<1> SUFFICES ASSUME AInv, DispatchTag PROVE AInv'
  OBVIOUS
<1>1. OInv' /\ IInv
  BY TagOrdered DEF AInv, OInv
<1>2. PICK e \in Event :
        /\ e.kind \in {"start", "empty", "end"}
        /\ Read(e)
        /\ calls' = calls \o NewCalls(e)
        /\ registered' = registered
        /\ \E breaking \in SUBSET {h \in CalledAt(e) : registered[h].kind = "match"} :
             /\ progress' = [h \in Handlers |->
                               IF h \in CalledAt(e) THEN Called(progress[h], h \in breaking) ELSE AfterTag(h, e)]
             /\ broke' = broke \cup breaking
  BY <1>1, TagStep
<1>3. PICK breaking :
        /\ progress' = [h \in Handlers |->
                          IF h \in CalledAt(e) THEN Called(progress[h], h \in breaking) ELSE AfterTag(h, e)]
        /\ broke' = broke \cup breaking
  BY <1>2
<1>4. /\ doc \in Seq(Event) /\ Extends(doc', doc, e)
      /\ calls \in Seq(Call) /\ NewCalls(e) \in Seq(Call)
  BY <1>1, <1>2, ReadAppends, NewCallsMade DEF AInv, OInv, MadeInOrder, MadeNext
<1>5. ASSUME NEW h \in Handlers
      PROVE  HInv(h)'
  <2> DEFINE kind == registered[h].kind
             most == registered[h].limit
             p == progress[h]
             q == progress'[h]
             made == CallsIn(calls, h)
             broken == h \in broke
             now == h \in broke'
  <2>1. UpToDate(p, kind, most, h, doc, made, broken)
    BY DEF AInv, HInv
  <2>2. p \in Progress /\ Sound(p) /\ made \in Seq(Call) /\ (broken => now)
    BY <1>1, <1>3, <1>4, CallsInType DEF IInv, TypeOK
  <2>3. CASE h \in CalledAt(e)
    <3>1. /\ ~ p.stopped
          /\ ~ OnMatch(kind) => Away(doc', Only(h))
          /\ \E s : /\ DueAt(kind, h, doc, doc', s)
                    /\ DueCall(kind, h, doc', s) = [handler |-> h, held |-> Received(h)]
      BY <1>2, <2>3, WhyCalled
    <3>2. PICK s : /\ DueAt(kind, h, doc, doc', s)
                   /\ DueCall(kind, h, doc', s) = [handler |-> h, held |-> Received(h)]
      BY <3>1
    <3>3. CallsIn(calls', h) = Append(made, DueCall(kind, h, doc', s))
      <4> DEFINE c == [handler |-> h, held |-> Received(h)]
      <4>1. OneFor(NewCalls(e), h, c)
        BY <1>1, <2>3, NewCallsOf
      <4>2. c = DueCall(kind, h, doc', s)
        BY <3>2
      <4> HIDE DEF c
      <4>3. CallsIn(calls \o NewCalls(e), h) = Append(CallsIn(calls, h), c)
        BY <1>4, <4>1, OneAdded
      <4> QED BY <1>2, <4>2, <4>3
    <3> DEFINE break == h \in breaking
    <3>4. q = Called(p, break) /\ (break => now) /\ break \in BOOLEAN
      BY <1>3, <2>3
    <3>5. p.remaining # 0
      BY <2>2, <3>1 DEF Sound
    <3> HIDE DEF kind, most, p, q, made, broken, now, break
    <3>6. UpToDate(q, kind, most, h, doc', Append(made, DueCall(kind, h, doc', s)), now)
      BY <1>4, <2>1, <2>2, <3>1, <3>2, <3>4, <3>5, CalledIsUpToDate
    <3> QED BY <1>2, <3>3, <3>6 DEF HInv, kind, most, q, now
  <2>4. CASE h \notin CalledAt(e)
    <3>1. /\ AfterTag(h, e).remaining = p.remaining
          /\ AfterTag(h, e).stopped = p.stopped
          /\ ~ p.stopped => /\ Reads(AfterTag(h, e), kind, h, doc')
                            /\ DueSet(kind, h, doc') = DueSet(kind, h, doc)
      BY <1>2, <2>4, NotCalled
    <3>2. q = AfterTag(h, e)
      BY <1>3, <2>4
    <3>3. CallsIn(calls', h) = made
      BY <1>1, <1>2, <1>4, <2>4, NewCallsOf, NoneAdded
    <3> HIDE DEF kind, most, p, q, made, broken, now
    <3>4. UpToDate(q, kind, most, h, doc', made, now)
      BY <1>4, <2>1, <2>2, <3>1, <3>2, OtherIsUpToDate
    <3> QED BY <1>2, <3>3, <3>4 DEF HInv, kind, most, q, now
  <2> QED BY <2>3, <2>4
<1> QED BY <1>1, <1>5 DEF AInv

(* The declaration comes first, before any subtree.                        *)
LEMMA NotInSubtreeYet ==
  ASSUME NEW p, NEW kind, NEW h, ~ OnMatch(kind), p.depth > 0, Reads(p, kind, h, <<>>)
  PROVE  FALSE
<1>1. PICK m : InSubtree(p, h, <<>>, m)
  BY DEF Reads
<1>2. m \in Outermost(<<>>, Only(h))
  BY <1>1 DEF InSubtree, Within
<1> QED BY <1>2 DEF Outermost, SelectedBy

(* A handler at text and the like.                                         *)
LEMMA AtContent ==
  ASSUME AInv, NEW e \in Event, e.kind \in {"text", "ref", "other"}, Read(e),
         NEW h \in Handlers, NEW q,
         q = IF Reading(h) /\ e.kind # "other" THEN Holding(progress[h], progress[h].depth) ELSE progress[h]
  PROVE  /\ q.remaining = progress[h].remaining
         /\ q.stopped = progress[h].stopped
         /\ ~ progress[h].stopped => /\ Reads(q, registered[h].kind, h, doc')
                                     /\ DueSet(registered[h].kind, h, doc') = DueSet(registered[h].kind, h, doc)
<1> DEFINE kind == registered[h].kind
           p == progress[h]
<1>1. /\ doc \in Seq(Event) /\ Extends(doc', doc, e) /\ Here = Len(doc')
      /\ p \in Progress /\ p.depth \in Nat /\ IInv
  BY ReadAppends DEF AInv, OInv, IInv, TypeOK, Progress
<1>2. q.remaining = p.remaining /\ q.stopped = p.stopped
  BY <1>1, HoldingFields
<1>3. ASSUME ~ p.stopped
      PROVE  Reads(q, kind, h, doc') /\ DueSet(kind, h, doc') = DueSet(kind, h, doc)
  <2>1. Reads(p, kind, h, doc)
    BY <1>3 DEF AInv, HInv, UpToDate
  <2>2. ~ Selects(Only(h), e) /\ Change(e) = 0
    BY SelectsOne DEF Change
  <2>3. CASE Reading(h)
    <3>1. p.depth > 0 /\ ~ OnMatch(kind)
      BY <2>1, <2>3 DEF Reading, Reads
    <3>2. e.kind # "other"
      <4> SUFFICES ASSUME e.kind = "other" PROVE FALSE
        OBVIOUS
      <4>1. doc = <<>>
        BY DEF Read, CanFollow
      <4>2. Reads(p, kind, h, <<>>)
        BY <2>1, <4>1
      <4> HIDE DEF p, kind
      <4> QED BY <3>1, <4>2, NotInSubtreeYet
    <3>3. q = Holding(p, p.depth)
      BY <2>3, <3>2
    <3>4. GoesOn(p, q, e, doc')
      <4>1. q.held = Append(p.held, Len(doc')) /\ q.depth = p.depth
        BY <1>1, <3>3, HoldingFields
      <4> QED BY <1>1, <2>2, <3>1, <4>1 DEF GoesOn
    <3> HIDE DEF p, kind
    <3> QED BY <1>1, <2>1, <3>1, <3>4, SubtreeGoesOn
  <2>4. CASE ~ Reading(h)
    <3>1. q = p /\ ~ (p.depth > 0)
      BY <2>4 DEF Reading
    <3> HIDE DEF p, kind
    <3>2. /\ OnMatch(kind) => DueSet(kind, h, doc') = DueSet(kind, h, doc)
          /\ Away(doc, Only(h)) => Away(doc', Only(h)) /\ DueSet(kind, h, doc') = DueSet(kind, h, doc)
      BY <1>1, <2>2, NothingSelected
    <3> QED BY <2>1, <3>1, <3>2 DEF Reads
  <2> QED BY <2>3, <2>4
<1> QED BY <1>2, <1>3

LEMMA ContentUpToDate == AInv /\ DispatchContent => AInv'
<1> SUFFICES ASSUME AInv, DispatchContent PROVE AInv'
  OBVIOUS
<1>1. OInv' /\ IInv
  BY ContentOrdered DEF AInv, OInv
<1>2. PICK e \in Event :
        /\ e.kind \in {"text", "ref", "other"}
        /\ Read(e)
        /\ progress' = [h \in Handlers |->
                          IF Reading(h) /\ e.kind # "other" THEN Holding(progress[h], progress[h].depth) ELSE progress[h]]
        /\ registered' = registered /\ calls' = calls /\ broke' = broke
  BY DEF DispatchContent
<1>3. doc \in Seq(Event) /\ Extends(doc', doc, e) /\ calls \in Seq(Call)
  BY <1>1, <1>2, ReadAppends DEF AInv, OInv, MadeInOrder
<1>4. ASSUME NEW h \in Handlers
      PROVE  HInv(h)'
  <2> DEFINE kind == registered[h].kind
             most == registered[h].limit
             p == progress[h]
             q == progress'[h]
             made == CallsIn(calls, h)
             broken == h \in broke
  <2>1. UpToDate(p, kind, most, h, doc, made, broken) /\ made \in Seq(Call)
    BY <1>3, CallsInType DEF AInv, HInv
  <2>2. q = IF Reading(h) /\ e.kind # "other" THEN Holding(p, p.depth) ELSE p
    BY <1>2
  <2>3. /\ q.remaining = p.remaining
        /\ q.stopped = p.stopped
        /\ ~ p.stopped => Reads(q, kind, h, doc') /\ DueSet(kind, h, doc') = DueSet(kind, h, doc)
    BY <1>2, <2>2, AtContent
  <2> HIDE DEF kind, most, p, q, made, broken
  <2>4. UpToDate(q, kind, most, h, doc', made, broken)
    BY <1>3, <2>1, <2>3, OtherIsUpToDate
  <2> QED BY <1>2, <2>4 DEF HInv, kind, most, q, made, broken
<1> QED BY <1>1, <1>4 DEF AInv

LEMMA StepUpToDate == AInv /\ [DispatchNext]_<<eventVars, dispatchVars>> => AInv'
<1> SUFFICES ASSUME AInv, [DispatchNext]_<<eventVars, dispatchVars>> PROVE AInv'
  OBVIOUS
<1>1. OInv'
  BY StepOrdered DEF AInv
<1>2. CASE UNCHANGED <<doc, progress, calls, registered, broke>>
  <2>1. \A h \in Handlers : HInv(h)' <=> HInv(h)
    BY <1>2 DEF HInv
  <2> QED BY <1>1, <2>1 DEF AInv
<1>3. DispatchTag \/ DispatchContent \/ UNCHANGED <<doc, progress, calls, registered, broke>>
  BY DEF DispatchNext, DispatchUnknownEntity, DispatchError, DispatchEnd, ReadError, Eof, eventVars, dispatchVars
<1> QED BY <1>2, <1>3, TagUpToDate, ContentUpToDate

LEMMA PrefixIsSubSeq ==
  ASSUME NEW made \in Seq(Call), NEW due \in Seq(Call), Prefix(made, due)
  PROVE  Len(made) <= Len(due) /\ made = SubSeq(due, 1, Len(made))
<1> DEFINE n == Len(made)
<1>1. n \in Nat /\ Len(due) \in Nat /\ n <= Len(due)
  BY DEF Prefix
<1>2. /\ SubSeq(due, 1, n) \in Seq(Call) /\ Len(SubSeq(due, 1, n)) = n
      /\ \A i \in 1 .. n : SubSeq(due, 1, n)[i] = due[i]
  BY <1>1
<1>3. \A i \in 1 .. n : made[i] = SubSeq(due, 1, n)[i]
  BY <1>2 DEF Prefix
<1> QED BY <1>1, <1>2, <1>3, SeqEqual

(* What the code's DueAlone says, in the terms of the proof.               *)
LEMMA DueAloneCalls ==
  ASSUME NEW h
  PROVE  DueAlone(h) = DueCalls(registered[h].kind, h, doc)
BY DEF DueAlone, DueCalls, DueCall, DueSet, Due, Only, OnMatch

LEMMA UpToDateMeansAlone == AInv => HandlersAlone
<1> SUFFICES ASSUME AInv, NEW h \in Handlers
             PROVE  LET made == CallsOf(h)
                        due == DueAlone(h)
                    IN  /\ Len(made) <= Len(due)
                        /\ made = SubSeq(due, 1, Len(made))
                        /\ registered[h].limit # NoLimit => Len(made) <= registered[h].limit
                        /\ ~progress[h].stopped => Len(made) = Len(due) /\ Len(made) # registered[h].limit
                        /\ progress[h].stopped => h \in broke \/ Len(made) = registered[h].limit
  BY DEF HandlersAlone
<1> DEFINE made == CallsOf(h)
           due == DueAlone(h)
           kind == registered[h].kind
           most == registered[h].limit
           p == progress[h]
<1>1. made = CallsIn(calls, h) /\ due = DueCalls(kind, h, doc)
  BY DueAloneCalls DEF CallsOf, CallsIn
<1>2. made \in Seq(Call) /\ due \in Seq(Call) /\ Len(made) \in Nat
  <2>1. calls \in Seq(Call) /\ doc \in Seq(Event)
    BY DEF AInv, OInv, MadeInOrder, IInv, TypeOK
  <2>2. CallsIn(calls, h) \in Seq(Call)
    BY <2>1, CallsInType
  <2>3. DueCalls(kind, h, doc) \in Seq(Call)
    BY <2>1, DueCallsType
  <2> QED BY <1>1, <2>2, <2>3
<1>3. UpToDate(p, kind, most, h, doc, made, h \in broke)
  BY <1>1 DEF AInv, HInv
<1>4. p \in Progress /\ Sound(p)
  BY DEF AInv, OInv, IInv, TypeOK
<1> HIDE DEF made, due, kind, most, p
<1>5. Len(made) <= Len(due) /\ made = SubSeq(due, 1, Len(made))
  BY <1>1, <1>2, <1>3, PrefixIsSubSeq DEF UpToDate
<1>6. most # NoLimit => p.remaining \in Nat /\ Len(made) + p.remaining = most
  BY <1>3 DEF UpToDate, Counted
<1>7. most # NoLimit => Len(made) <= most
  BY <1>2, <1>6
<1>8. ~ p.stopped => made = due
  BY <1>1, <1>3 DEF UpToDate
<1>9. ~ p.stopped => Len(made) # most
  BY <1>2, <1>4, <1>6, EventsAssumption DEF Sound
<1>10. p.stopped => h \in broke \/ Len(made) = most
  BY <1>3 DEF UpToDate, Counted
<1> QED BY <1>5, <1>7, <1>8, <1>9, <1>10 DEF made, due, kind, most, p

-------------------------------------------------------------------------------
(* The engine that runs keeps its invariant.                               *)
RunInv ==
  /\ engine \in {"write", "for_each", "fallback"}
  /\ engine = "write" => WP!RInv
  /\ engine = "for_each" => AInv
  /\ engine = "fallback" => FP!FInv

-------------------------------------------------------------------------------
(* The events are those of each engine's module, and so is the engine.     *)

LEMMA SameAssumption == WP!EventsAssumption /\ FP!EventsAssumption
BY EventsAssumption, TreeEventsAssumption
   DEF WP!EventsAssumption, FP!EventsAssumption,
       WP!Handlers, FP!Handlers, Handlers

LEMMA SameInit ==
  /\ EventsInit <=> WP!EventsInit
  /\ W!RewriteInit <=> WP!RewriteInit
  /\ EventsInit <=> FP!EventsInit
  /\ F!FallbackInit <=> FP!FallbackInit
<1>1. /\ EventsInit <=> WP!EventsInit
      /\ EventsInit <=> FP!EventsInit
  BY DEF EventsInit, WP!EventsInit, FP!EventsInit
<1>2. W!RewriteInit <=> WP!RewriteInit
  BY DEF W!RewriteInit, WP!RewriteInit, W!NoMatch, WP!NoMatch
<1>3. F!FallbackInit <=> FP!FallbackInit
  BY DEF F!FallbackInit, FP!FallbackInit, F!NotInMatch, FP!NotInMatch
<1> QED BY <1>1, <1>2, <1>3

LEMMA SameRewriteEvent == W!RewriteEvent <=> WP!RewriteEvent
BY DEF W!RewriteEvent, WP!RewriteEvent, W!StartTag, WP!StartTag, W!EmptyTag, WP!EmptyTag,
       W!EndTag, WP!EndTag, W!Content, WP!Content,
       W!Read, WP!Read, W!CanFollow, WP!CanFollow, W!HasRoot, WP!HasRoot, W!Here, WP!Here,
       W!Event, WP!Event, W!Handlers, WP!Handlers, W!IsOpen, WP!IsOpen, W!NoMatch, WP!NoMatch,
       W!Hold, WP!Hold, W!FirstMatch, WP!FirstMatch, W!CopiedUpToMatch, WP!CopiedUpToMatch,
       W!Slice, WP!Slice, W!Input, WP!Input, W!Unmatched, WP!Unmatched,
       W!CallAndWrite, WP!CallAndWrite, W!Node, WP!Node

LEMMA SameRewriteNext == W!RewriteNext <=> WP!RewriteNext
<1>1. W!RewriteUnknownEntity <=> WP!RewriteUnknownEntity
  BY DEF W!RewriteUnknownEntity, WP!RewriteUnknownEntity, W!IsOpen, WP!IsOpen, W!NoMatch, WP!NoMatch,
         W!Event, WP!Event, W!Handlers, WP!Handlers, W!CanFollow, WP!CanFollow, W!HasRoot, WP!HasRoot,
         W!ReadError, WP!ReadError, W!rewriteVars, WP!rewriteVars
<1>2. W!RewriteError <=> WP!RewriteError
  BY DEF W!RewriteError, WP!RewriteError, W!ReadError, WP!ReadError, W!rewriteVars, WP!rewriteVars
<1>3. W!RewriteEof <=> WP!RewriteEof
  BY DEF W!RewriteEof, WP!RewriteEof, W!Eof, WP!Eof, W!Slice, WP!Slice, W!Input, WP!Input
<1> QED BY <1>1, <1>2, <1>3, SameRewriteEvent DEF W!RewriteNext, WP!RewriteNext

LEMMA SameRewriteProperties ==
  /\ W!EachEventOnce <=> WP!EachEventOnce
  /\ W!FirstMatchWins <=> WP!FirstMatchWins
<1>1. W!EachEventOnce <=> WP!EachEventOnce
  BY DEF W!EachEventOnce, WP!EachEventOnce, W!IsOpen, WP!IsOpen, W!NoMatch, WP!NoMatch,
         W!Slice, WP!Slice, W!Input, WP!Input, W!Node, WP!Node, W!Settled, WP!Settled,
         W!Rewritten, WP!Rewritten, W!OutputPlaces, WP!OutputPlaces, W!InOrder, WP!InOrder,
         W!Inside, WP!Inside, W!Outermost, WP!Outermost, W!SelectedBy, WP!SelectedBy,
         W!IsElement, WP!IsElement, W!Subtree, WP!Subtree, W!Level, WP!Level, W!CountOf, WP!CountOf,
         W!Cardinality, WP!Cardinality,
         W!Handlers, WP!Handlers
<1>2. W!FirstMatchWins <=> WP!FirstMatchWins
  BY DEF W!FirstMatchWins, WP!FirstMatchWins, W!SubtreeEvents, WP!SubtreeEvents,
         W!IsComplete, WP!IsComplete, W!InOrder, WP!InOrder,
         W!Outermost, WP!Outermost, W!SelectedBy, WP!SelectedBy,
         W!IsElement, WP!IsElement, W!Subtree, WP!Subtree, W!Level, WP!Level, W!CountOf, WP!CountOf,
         W!Cardinality, WP!Cardinality,
         W!Handlers, WP!Handlers
<1> QED BY <1>1, <1>2

LEMMA SameExpectedNode == F!ExpectedNode = FP!ExpectedNode /\ F!MatchingNodes = FP!MatchingNodes
BY DEF F!ExpectedNode, FP!ExpectedNode, F!FindChild, FP!FindChild, F!ChildElements, FP!ChildElements,
       F!InOrder, FP!InOrder, F!Cardinality, FP!Cardinality, F!IsNode, FP!IsNode, F!ParentOf, FP!ParentOf,
       F!ElementKinds, FP!ElementKinds, F!Subtree, FP!Subtree, F!Level, FP!Level, F!CountOf, FP!CountOf,
       F!NoNode, FP!NoNode, F!Last, FP!Last, F!MatchingNodes, FP!MatchingNodes

LEMMA SameReadAgain == F!ReadAgain <=> FP!ReadAgain
<1>1. \A d : F!Hold(d) <=> FP!Hold(d)
  BY DEF F!Hold, FP!Hold
<1>2. F!Skip <=> FP!Skip
  BY DEF F!Skip, FP!Skip
<1>3. \A held, before : F!CallBack(held, before) <=> FP!CallBack(held, before)
  BY DEF F!CallBack, FP!CallBack, F!Node, FP!Node, F!NotInMatch, FP!NotInMatch
<1>4. F!UpToTag = FP!UpToTag
  BY DEF F!UpToTag, FP!UpToTag, F!Slice, FP!Slice, F!Input, FP!Input
<1>5. F!Counted = FP!Counted /\ F!NoNode = FP!NoNode /\ (F!InMatch <=> FP!InMatch)
      /\ \A s : F!Front(s) = FP!Front(s)
  BY DEF F!Counted, FP!Counted, F!NoNode, FP!NoNode, F!InMatch, FP!InMatch, F!NotInMatch, FP!NotInMatch,
         F!Front, FP!Front, F!Last, FP!Last
<1>6. F!StartAgain <=> FP!StartAgain
  BY <1>1, <1>2, <1>4, <1>5, SameExpectedNode DEF F!StartAgain, FP!StartAgain
<1>7. F!EmptyAgain <=> FP!EmptyAgain
  BY <1>1, <1>2, <1>3, <1>4, <1>5, SameExpectedNode DEF F!EmptyAgain, FP!EmptyAgain
<1>8. F!EndAgain <=> FP!EndAgain
  BY <1>1, <1>2, <1>3, <1>5 DEF F!EndAgain, FP!EndAgain
<1>9. F!ContentAgain <=> FP!ContentAgain
  BY <1>1, <1>2, <1>5 DEF F!ContentAgain, FP!ContentAgain
<1> QED BY <1>6, <1>7, <1>8, <1>9 DEF F!ReadAgain, FP!ReadAgain

LEMMA SameFallbackNext == F!FallbackNext <=> FP!FallbackNext
<1>1. F!NothingToDo <=> FP!NothingToDo
  BY DEF F!NothingToDo, FP!NothingToDo, F!fallbackVars, FP!fallbackVars
<1>2. F!ParseEvent <=> FP!ParseEvent
  BY DEF F!ParseEvent, FP!ParseEvent, F!fallbackVars, FP!fallbackVars,
         F!Read, FP!Read, F!CanFollow, FP!CanFollow, F!HasRoot, FP!HasRoot, F!Here, FP!Here,
         F!Event, FP!Event, F!Handlers, FP!Handlers
<1>3. F!ParseError <=> FP!ParseError
  BY DEF F!ParseError, FP!ParseError, F!ReadError, FP!ReadError, F!fallbackVars, FP!fallbackVars
<1>4. F!Evaluate <=> FP!Evaluate
  BY SameExpectedNode DEF F!Evaluate, FP!Evaluate, F!HasRoot, FP!HasRoot, F!Input, FP!Input
<1>5. F!UnknownEntity <=> FP!UnknownEntity
  BY DEF F!UnknownEntity, FP!UnknownEntity, F!InMatch, FP!InMatch, F!NotInMatch, FP!NotInMatch,
         F!fallbackVars, FP!fallbackVars
<1>6. F!FallbackEof <=> FP!FallbackEof
  BY DEF F!FallbackEof, FP!FallbackEof, F!Slice, FP!Slice, F!Input, FP!Input
<1> QED BY <1>1, <1>2, <1>3, <1>4, <1>5, <1>6, SameReadAgain DEF F!FallbackNext, FP!FallbackNext

LEMMA SameFallbackProperty == F!EditsWhatWasSelected <=> FP!EditsWhatWasSelected
BY DEF F!EditsWhatWasSelected, FP!EditsWhatWasSelected, F!InOrder, FP!InOrder,
       F!Rewritten, FP!Rewritten, F!OutputPlaces, FP!OutputPlaces, F!Inside, FP!Inside,
       F!Input, FP!Input, F!Node, FP!Node, F!SubtreeEvents, FP!SubtreeEvents,
       F!Outermost, FP!Outermost, F!SelectedBy, FP!SelectedBy, F!IsElement, FP!IsElement,
       F!Subtree, FP!Subtree, F!Level, FP!Level, F!CountOf, FP!CountOf, F!Cardinality, FP!Cardinality

-------------------------------------------------------------------------------
LEMMA InitRuns == Init => RunInv
<1> SUFFICES ASSUME Init PROVE RunInv
  OBVIOUS
<1>1. engine \in {"write", "for_each", "fallback"}
  BY DEF Init
<1>2. engine = "write" => WP!EventsInit /\ WP!RewriteInit
  BY SameInit DEF Init
<1>3. engine = "for_each" => EventsInit /\ DispatchInit
  BY SameInit DEF Init
<1>4. engine = "fallback" => FP!EventsInit /\ FP!FallbackInit
  BY SameInit DEF Init
<1> QED BY <1>1, <1>2, <1>3, <1>4, SameAssumption, WP!InitMatches, InitUpToDate, FP!FirstKeeps DEF RunInv

(* A rewrite: the other engines' variables are not its own.                *)
LEMMA WriteRuns == RunInv /\ Write => RunInv'
<1> SUFFICES ASSUME RunInv, Write PROVE RunInv'
  OBVIOUS
<1>1. engine = "write" /\ engine' = engine /\ WP!RInv /\ WP!RewriteNext
  BY SameRewriteNext DEF RunInv, Write
<1>2. WP!RInv'
  BY <1>1, SameAssumption, WP!StepMatches
<1> QED BY <1>1, <1>2 DEF RunInv

LEMMA ForEachRuns == RunInv /\ ForEach => RunInv'
<1> SUFFICES ASSUME RunInv, ForEach PROVE RunInv'
  OBVIOUS
<1>1. engine = "for_each" /\ engine' = engine /\ AInv /\ DispatchNext
  BY DEF RunInv, ForEach
<1>2. AInv'
  BY <1>1, StepUpToDate
<1> QED BY <1>1, <1>2 DEF RunInv

LEMMA TwoPassesRun == RunInv /\ TwoPasses => RunInv'
<1> SUFFICES ASSUME RunInv, TwoPasses PROVE RunInv'
  OBVIOUS
<1>1. engine = "fallback" /\ engine' = engine /\ FP!FInv /\ FP!FallbackNext
  BY SameFallbackNext DEF RunInv, TwoPasses
<1>2. FP!FInv'
  BY <1>1, SameAssumption, FP!StepsKeep
<1> QED BY <1>1, <1>2 DEF RunInv

LEMMA StepRuns == RunInv /\ [Next]_vars => RunInv'
<1> SUFFICES ASSUME RunInv, [Next]_vars PROVE RunInv'
  OBVIOUS
<1>1. CASE Write
  BY <1>1, WriteRuns
<1>2. CASE ForEach
  BY <1>2, ForEachRuns
<1>3. CASE TwoPasses
  BY <1>3, TwoPassesRun
<1>4. CASE UNCHANGED vars
  <2>1. engine' = engine
    BY <1>4 DEF vars
  <2>2. WP!RInv => WP!RInv'
    <3>1. UNCHANGED <<WP!eventVars, WP!rewriteVars>>
      BY <1>4 DEF vars, eventVars, rewriteOnly, WP!eventVars, WP!rewriteVars
    <3> QED BY <3>1, SameAssumption, WP!StepMatches
  <2>3. AInv => AInv'
    <3>1. UNCHANGED <<eventVars, dispatchVars>>
      BY <1>4 DEF vars, eventVars, dispatchOnly, dispatchVars
    <3> QED BY <3>1, StepUpToDate
  <2>4. FP!FInv => FP!FInv'
    <3>1. UNCHANGED <<FP!eventVars, FP!fallbackVars>>
      BY <1>4 DEF vars, eventVars, fallbackOnly, FP!eventVars, FP!fallbackVars
    <3> QED BY <3>1, SameAssumption, FP!StepsKeep
  <2> QED BY <2>1, <2>2, <2>3, <2>4 DEF RunInv
<1> QED BY <1>1, <1>2, <1>3, <1>4 DEF Next

LEMMA RunInvSays ==
  RunInv => /\ EachEventOnce /\ FirstMatchWins
            /\ CallsInOrder /\ EachHandlerAlone /\ StoppedHoldsNothing
            /\ EditsWhatWasSelected
<1> SUFFICES ASSUME RunInv
             PROVE  /\ EachEventOnce /\ FirstMatchWins
                    /\ CallsInOrder /\ EachHandlerAlone /\ StoppedHoldsNothing
                    /\ EditsWhatWasSelected
  OBVIOUS
<1>1. engine = "write" => W!EachEventOnce /\ W!FirstMatchWins
  BY SameAssumption, WP!WhatTheInvariantSays, SameRewriteProperties DEF RunInv
<1>2. engine = "for_each" => CallsOrdered /\ HandlersAlone /\ StoppedHoldNothing
  BY OrderedMeansInOrder, UpToDateMeansAlone, SoundMeansHoldingNothing DEF RunInv, AInv, OInv
<1>3. engine = "fallback" => F!EditsWhatWasSelected
  BY SameAssumption, FP!FInvSays, SameFallbackProperty DEF RunInv
<1> QED BY <1>1, <1>2, <1>3
        DEF EachEventOnce, FirstMatchWins, CallsInOrder, EachHandlerAlone,
            StoppedHoldsNothing, EditsWhatWasSelected

(* Both outputs (rewrite.rs: CopyOutput, EchoOutput) have the input so     *)
(* far, each event once, with the outermost matches replaced by what their *)
(* callback made of them.                                                  *)
THEOREM EveryEventOnce == Spec => []EachEventOnce
BY InitRuns, StepRuns, RunInvSays, PTL DEF Spec

(* Every complete outermost match is edited, in document order, once, by   *)
(* the first handler that selects it, with all its events.                 *)
THEOREM FirstHandlerWins == Spec => []FirstMatchWins
BY InitRuns, StepRuns, RunInvSays, PTL DEF Spec

(* Callbacks of a for_each are called in document order, and reading stops *)
(* at the event at which the last handler stopped.                         *)
THEOREM CallsAreInOrder == Spec => []CallsInOrder
BY InitRuns, StepRuns, RunInvSays, PTL DEF Spec

(* Each handler of a for_each is called for what it would be called for    *)
(* alone, up to its limit or its Break (dispatch.rs keeps a progress for   *)
(* each, and their subtrees overlap).                                      *)
THEOREM HandlersAreAlone == Spec => []EachHandlerAlone
BY InitRuns, StepRuns, RunInvSays, PTL DEF Spec

(* A stopped handler has no subtree in progress (the comment in start_tag  *)
(* says so, and the end tag's loop relies on it), and the count of calls   *)
(* left reaches zero only when the handler stops.                          *)
THEOREM StoppedHandlersHoldNothing == Spec => []StoppedHoldsNothing
BY InitRuns, StepRuns, RunInvSays, PTL DEF Spec

(* An XPath that needs the tree: the second pass, which counts children to *)
(* find the nodes again, edits those that the first pass selected          *)
(* (fallback.rs: find_child_element_id).                                   *)
THEOREM EditsTheSelected == Spec => []EditsWhatWasSelected
BY InitRuns, StepRuns, RunInvSays, PTL DEF Spec

==============================================================================
