--------------------------------- MODULE Dispatch --------------------------------
(***************************************************************************)
(* The event loop behind every streaming for_each                          *)
(* (src/transform/streaming/dispatch.rs).  Each handler has a progress of  *)
(* its own: it may be reading a subtree, it may have calls left, and it    *)
(* may have stopped.  Once all have, reading stops.                        *)
(***************************************************************************)
EXTENDS XmlEvents

VARIABLES
  registered, \* the callback ("node" or "match") and limit of each handler
  progress,   \* HandlerProgress of each handler
  calls,      \* history: the callback calls
  broke       \* history: the match handlers whose callback returned Break

dispatchVars == <<registered, progress, calls, broke>>

(* depth 0 is builder: None.                                               *)
NewProgress(limit) ==
  [held |-> <<>>, depth |-> 0, remaining |-> limit, stopped |-> limit = 0]

DispatchInit ==
  /\ registered \in Registrations
  /\ progress = [h \in Handlers |-> NewProgress(registered[h].limit)]
  /\ calls = <<>>
  /\ broke = {}

Reading(h) == progress[h].depth > 0

AllStopped == \A h \in Handlers : progress[h].stopped

(* A handler after a call: no subtree, and one call less.                  *)
Called(p, break) ==
  [held |-> <<>>, depth |-> 0,
   remaining |-> IF p.remaining = NoLimit THEN NoLimit ELSE p.remaining - 1,
   stopped |-> break \/ p.remaining = 1]

(* The event is added to the subtree; the builder is then at depth d.      *)
Holding(p, d) == [p EXCEPT !.held = Append(@, Here), !.depth = d]

-------------------------------------------------------------------------------
(* The handlers whose callback a tag calls, and every handler's progress   *)
(* after it.                                                               *)

Matches(h, e) == ~progress[h].stopped /\ h \in e.by

(* One match at a time over all handlers, as when rewriting.               *)
CalledAtFirst(e) ==
  {h \in Handlers : Matches(h, e) /\ (registered[h].kind = "match" \/ (e.kind = "empty" /\ \A g \in Handlers : ~Reading(g)))}

CalledAt(e) ==
  CASE e.kind \in {"start", "empty"} ->
         {h \in Handlers : Matches(h, e) /\ (registered[h].kind = "match" \/ (e.kind = "empty" /\ ~Reading(h)))}
    [] e.kind = "end" -> {h \in Handlers : progress[h].depth = 1}
    [] OTHER -> {}

(* The handlers called at one tag are called from the last to the first.   *)
CallOrderReversed(called) == [i \in 1 .. Cardinality(called) |-> InOrder(called)[Cardinality(called) + 1 - i]]

CallOrder(called) == InOrder(called)

(* What the callback of h receives: the subtree, or the start tag.         *)
Received(h) == Append(progress[h].held, Here)

(* Every other handler after a tag: in a subtree, or at the start of one.  *)
AfterTag(h, e) ==
  CASE e.kind \in {"start", "empty"} /\ progress[h].stopped -> progress[h]
    [] e.kind = "empty" /\ Reading(h) -> Holding(progress[h], progress[h].depth)
    [] e.kind = "start" /\ Reading(h) -> Holding(progress[h], progress[h].depth + 1)
    [] e.kind = "start" /\ ~Reading(h) /\ Matches(h, e) -> Holding(progress[h], 1)
    [] e.kind = "end" /\ Reading(h) -> Holding(progress[h], progress[h].depth - 1)
    [] OTHER -> progress[h]

(* A tag: the handlers in order, each on its own.  A match handler's       *)
(* callback may return Break.                                              *)
DispatchTag ==
  \E e \in Event :
    /\ e.kind \in {"start", "empty", "end"}
    /\ ~AllStopped
    /\ Read(e)
    /\ LET called == CalledAt(e)
           order == CallOrder(called)
       IN  \E breaking \in SUBSET {h \in called : registered[h].kind = "match"} :
             /\ calls' = calls \o [i \in 1 .. Len(order) |-> [handler |-> order[i], held |-> Received(order[i])]]
             /\ progress' = [h \in Handlers |->
                               IF h \in called THEN Called(progress[h], h \in breaking) ELSE AfterTag(h, e)]
             /\ broke' = broke \cup breaking
    /\ UNCHANGED <<outcome, registered>>

(* Text and the like go to every subtree being read.                       *)
DispatchContent ==
  \E e \in Event :
    /\ e.kind \in {"text", "ref", "other"}
    /\ ~AllStopped
    /\ e.kind = "ref" => \A h \in Handlers : ~Reading(h)
    /\ Read(e)
    /\ progress' = [h \in Handlers |->
                      IF Reading(h) /\ e.kind # "other" THEN Holding(progress[h], progress[h].depth) ELSE progress[h]]
    /\ UNCHANGED <<outcome, registered, calls, broke>>

(* Text that refers to an entity cannot be unescaped into a subtree.       *)
DispatchUnknownEntity ==
  /\ \E h \in Handlers : Reading(h)
  /\ \E e \in Event : e.kind = "ref" /\ CanFollow(e)
  /\ ReadError
  /\ UNCHANGED dispatchVars

DispatchError == ~AllStopped /\ ReadError /\ UNCHANGED dispatchVars

(* The end of the input, or of the loop.                                   *)
DispatchEnd ==
  /\ Eof
  /\ UNCHANGED dispatchVars

DispatchNext ==
  \/ DispatchTag \/ DispatchContent
  \/ DispatchUnknownEntity \/ DispatchError \/ DispatchEnd

DispatchSpec == EventsInit /\ DispatchInit /\ [][DispatchNext]_<<eventVars, dispatchVars>>

-------------------------------------------------------------------------------
(* Properties.                                                             *)

(* The calls of h, in the order in which they were made.                   *)
CallsOf(h) ==
  LET places == InOrder({i \in 1 .. Len(calls) : calls[i].handler = h})
  IN  [k \in DOMAIN places |-> calls[places[k]]]

(* What h is called for when it runs alone, without a limit: a match       *)
(* handler for every element its XPath selects, a subtree handler for the  *)
(* outermost ones, once they are complete.                                 *)
DueAlone(h) ==
  IF registered[h].kind = "match"
  THEN LET due == InOrder(SelectedBy(doc, {h}))
       IN  [i \in 1 .. Len(due) |-> [handler |-> h, held |-> <<due[i]>>]]
  ELSE LET due == InOrder({s \in Outermost(doc, {h}) : IsComplete(doc, s)})
       IN  [i \in 1 .. Len(due) |-> [handler |-> h, held |-> SubtreeEvents(doc, due[i])]]

(* The other handlers make no difference to a handler, nor does the end of *)
(* another: it gets what it would get alone, up to its limit or its Break, *)
(* and never more calls than its limit.                                    *)
HandlersAlone ==
  \A h \in Handlers :
    LET made == CallsOf(h)
        due == DueAlone(h)
    IN  /\ Len(made) <= Len(due)
        /\ made = SubSeq(due, 1, Len(made))
        /\ registered[h].limit # NoLimit => Len(made) <= registered[h].limit
        /\ ~progress[h].stopped => Len(made) = Len(due) /\ Len(made) # registered[h].limit
        /\ progress[h].stopped => h \in broke \/ Len(made) = registered[h].limit

(* Calls are made in document order of the event that ends what they       *)
(* receive, and handlers in order of registration at one event; reading    *)
(* stops at the event at which the last handler stopped.                   *)
CallsOrdered ==
  LET LastEvent(c) == c.held[Len(c.held)]
  IN  /\ \A i, j \in 1 .. Len(calls) :
           i < j => \/ LastEvent(calls[i]) < LastEvent(calls[j])
                    \/ LastEvent(calls[i]) = LastEvent(calls[j]) /\ calls[i].handler < calls[j].handler
      /\ AllStopped => Len(doc) = IF calls = <<>> THEN 0 ELSE LastEvent(calls[Len(calls)])

(* "A stopped subtree handler never has a subtree in progress", and the    *)
(* count of calls left does not pass zero.                                 *)
StoppedHoldNothing ==
  \A h \in Handlers :
    /\ progress[h].stopped => ~Reading(h)
    /\ progress[h].remaining # NoLimit =>
         /\ progress[h].remaining >= 0
         /\ progress[h].remaining = 0 => progress[h].stopped

==============================================================================
