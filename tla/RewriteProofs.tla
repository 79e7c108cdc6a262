------------------------------ MODULE RewriteProofs ------------------------------
(***************************************************************************)
(* Copying byte ranges and echoing events write the same, both write every *)
(* event once, and the calls are those of the outermost matches, for any   *)
(* number of handlers and any input.                                       *)
(***************************************************************************)
EXTENDS Rewrite, XmlEventsProofs

Piece == {"input", "node"} \X Nat

(* A match in progress; which handler it is for does not matter here.      *)
IsMatch(m) ==
  /\ m = [handler |-> m.handler, held |-> m.held, depth |-> m.depth]
  /\ m.held \in Seq(Nat)
  /\ m.depth \in Nat

(* Every variable that the loop works with has its type.                   *)
TypeOK ==
  /\ doc \in Seq(Event)
  /\ IsMatch(open)
  /\ written \in 0 .. Len(doc)
  /\ copied \in Seq(Piece)
  /\ echoed \in Seq(Piece)

(* The builder of an open match has an element open, the matched one first, *)
(* which has been read.                                                    *)
BuilderInUse == IsOpen => open.depth > 0 /\ open.held # <<>> /\ doc # <<>>

(* What is written for a reader is what is written for in-memory input,    *)
(* where that also has the range it is about to copy.                      *)
OutputsAgree ==
  /\ outcome # "ok" /\ ~IsOpen => echoed = copied \o Slice(written, Len(doc))
  /\ outcome # "ok" /\ IsOpen => echoed = copied
  /\ outcome = "ok" /\ ~IsOpen => echoed = copied

IInv == TypeOK /\ BuilderInUse /\ OutputsAgree

-------------------------------------------------------------------------------
(* Ranges.                                                                 *)

LEMMA SliceType ==
  ASSUME NEW m \in Nat, NEW n \in Nat, m <= n
  PROVE  /\ Slice(m, n) \in Seq(Piece)
         /\ Len(Slice(m, n)) = n - m
         /\ \A i \in 1 .. n - m : Slice(m, n)[i] = Input(m + i)
<1>1. n - m \in Nat
  OBVIOUS
<1>2. \A i \in 1 .. n - m : Input(m + i) \in Piece
  BY DEF Input, Piece
<1>3. Slice(m, n) \in [1 .. n - m -> Piece]
  BY <1>2 DEF Slice
<1>4. Slice(m, n) \in Seq(Piece)
  BY <1>1, <1>3
<1> QED BY <1>1, <1>3, <1>4 DEF Slice

LEMMA EmptySlice == ASSUME NEW n \in Nat PROVE Slice(n, n) = <<>>
BY DEF Slice

(* A range is extended by one event.                                       *)
LEMMA SliceExtended ==
  ASSUME NEW m \in Nat, NEW n \in Nat, m <= n
  PROVE  Slice(m, n + 1) = Append(Slice(m, n), Input(n + 1))
<1>1. /\ Slice(m, n) \in Seq(Piece)
      /\ Len(Slice(m, n)) = n - m
      /\ \A i \in 1 .. n - m : Slice(m, n)[i] = Input(m + i)
  BY SliceType
<1>2. /\ Slice(m, n + 1) \in Seq(Piece)
      /\ Len(Slice(m, n + 1)) = n + 1 - m
      /\ \A i \in 1 .. n + 1 - m : Slice(m, n + 1)[i] = Input(m + i)
  BY SliceType
<1>3. Input(n + 1) \in Piece
  BY DEF Input, Piece
<1>4. Append(Slice(m, n), Input(n + 1)) \in Seq(Piece)
  BY <1>1, <1>3
<1>5. Len(Append(Slice(m, n), Input(n + 1))) = Len(Slice(m, n + 1))
  BY <1>1, <1>2, <1>3
<1>6. \A i \in 1 .. n + 1 - m : Append(Slice(m, n), Input(n + 1))[i] = Slice(m, n + 1)[i]
  BY <1>1, <1>2, <1>3
<1> QED BY <1>2, <1>4, <1>5, <1>6, SeqEqual

(* Echoing an event is copying a range that is one longer.                 *)
LEMMA EchoIsCopy ==
  ASSUME NEW c \in Seq(Piece), NEW m \in Nat, NEW n \in Nat, m <= n
  PROVE  Append(c \o Slice(m, n), Input(n + 1)) = c \o Slice(m, n + 1)
<1>1. Slice(m, n) \in Seq(Piece)
  BY SliceType
<1>2. Input(n + 1) \in Piece /\ <<Input(n + 1)>> \in Seq(Piece)
  BY DEF Input, Piece
<1>3. \A s \in Seq(Piece) : Append(s, Input(n + 1)) = s \o <<Input(n + 1)>>
  BY <1>2, AppendIsConcat
<1>4. c \o Slice(m, n) \in Seq(Piece)
  BY <1>1, ConcatProperties
<1>5. Append(c \o Slice(m, n), Input(n + 1)) = (c \o Slice(m, n)) \o <<Input(n + 1)>>
  BY <1>3, <1>4
<1>6. (c \o Slice(m, n)) \o <<Input(n + 1)>> = c \o (Slice(m, n) \o <<Input(n + 1)>>)
  BY <1>1, <1>2, ConcatAssociative
<1>7. Slice(m, n) \o <<Input(n + 1)>> = Slice(m, n + 1)
  BY <1>1, <1>3, SliceExtended
<1> QED BY <1>5, <1>6, <1>7

-------------------------------------------------------------------------------
(* The actions.  Every one but the last two reads one event.               *)

LEMMA ReadExtends ==
  ASSUME TypeOK, NEW e \in Event, Read(e)
  PROVE  /\ doc' \in Seq(Event)
         /\ Len(doc') = Len(doc) + 1 /\ doc' # <<>>
         /\ Len(doc) \in Nat /\ Here = Len(doc) + 1
         /\ outcome = "running"
<1>1. doc' = Append(doc, e) /\ doc \in Seq(Event) /\ outcome = "running"
  BY DEF Read, TypeOK
<1>2. doc' \in Seq(Event) /\ Len(doc') = Len(doc) + 1
  BY <1>1, AppendProperties
<1>3. Len(doc) \in Nat /\ Here = Len(doc) + 1
  BY <1>1 DEF Here
<1>4. doc' # <<>>
  BY <1>2, <1>3, EmptySeq
<1> QED BY <1>1, <1>2, <1>3, <1>4

(* An event outside a match.                                               *)
LEMMA UnmatchedKeeps ==
  ASSUME IInv, NEW e \in Event, Read(e), UNCHANGED outcome, ~IsOpen, Unmatched
  PROVE  IInv'
<1>1. /\ doc' \in Seq(Event) /\ Len(doc') = Len(doc) + 1 /\ doc' # <<>>
      /\ Len(doc) \in Nat /\ Here = Len(doc) + 1 /\ outcome = "running"
  BY ReadExtends DEF IInv
<1>2. Input(Here) \in Piece
  BY <1>1 DEF Input, Piece
<1>3. TypeOK'
  <2>1. echoed \in Seq(Piece) /\ written \in 0 .. Len(doc) /\ copied \in Seq(Piece) /\ IsMatch(open)
    BY DEF IInv, TypeOK
  <2>2. Append(echoed, Input(Here)) \in Seq(Piece)
    BY <1>2, <2>1, AppendProperties
  <2>3. echoed' \in Seq(Piece) /\ copied' \in Seq(Piece)
    BY <2>1, <2>2 DEF Unmatched
  <2>4. written' \in 0 .. Len(doc')
    BY <1>1, <2>1 DEF Unmatched
  <2>5. IsMatch(open')
    BY <2>1 DEF Unmatched
  <2> QED BY <1>1, <2>3, <2>4, <2>5 DEF TypeOK, IsMatch
<1>4. ~IsOpen'
  BY DEF Unmatched, IsOpen
<1>5. echoed = copied \o Slice(written, Len(doc))
  BY <1>1 DEF IInv, OutputsAgree
<1>6. echoed' = copied \o Slice(written, Len(doc) + 1)
  <2>1. copied \in Seq(Piece) /\ written \in Nat /\ written <= Len(doc)
    BY <1>1 DEF IInv, TypeOK
  <2>2. Append(copied \o Slice(written, Len(doc)), Input(Len(doc) + 1)) = copied \o Slice(written, Len(doc) + 1)
    BY <1>1, <2>1, EchoIsCopy
  <2>3. echoed' = Append(echoed, Input(Len(doc) + 1))
    BY <1>1 DEF Unmatched
  <2> QED BY <1>5, <2>2, <2>3
<1>7. echoed' = copied' \o (Slice(written, Len(doc)))'
  BY <1>1, <1>6 DEF Unmatched, Slice
<1> QED BY <1>1, <1>3, <1>4, <1>7 DEF IInv, BuilderInUse, OutputsAgree

(* An event inside the open match.                                         *)
LEMMA HoldKeeps ==
  ASSUME IInv, NEW e \in Event, Read(e), UNCHANGED outcome, IsOpen,
         NEW d \in Nat \ {0}, Hold(d)
  PROVE  IInv'
<1>1. /\ doc' \in Seq(Event) /\ Len(doc') = Len(doc) + 1 /\ doc' # <<>>
      /\ Len(doc) \in Nat /\ Here = Len(doc) + 1 /\ outcome = "running"
  BY ReadExtends DEF IInv
<1>2. Append(open.held, Here) \in Seq(Nat) /\ Append(open.held, Here) # <<>>
  <2>1. open.held \in Seq(Nat) /\ Here \in Nat
    BY <1>1 DEF IInv, TypeOK, IsMatch
  <2>2. Append(open.held, Here) \in Seq(Nat) /\ Len(Append(open.held, Here)) = Len(open.held) + 1
    BY <2>1, AppendProperties
  <2>3. Len(open.held) \in Nat
    BY <2>1
  <2> QED BY <2>2, <2>3, EmptySeq
<1>3. IsMatch(open') /\ open'.depth = d /\ open'.held # <<>>
  <2>1. open = [handler |-> open.handler, held |-> open.held, depth |-> open.depth]
    BY DEF IInv, TypeOK, IsMatch
  <2>2. open' = [handler |-> open.handler, held |-> Append(open.held, Here), depth |-> d]
    BY <2>1 DEF Hold
  <2> QED BY <1>2, <2>2 DEF IsMatch
<1>4. TypeOK'
  BY <1>1, <1>3 DEF IInv, TypeOK, IsMatch, Hold
<1>5. IsOpen'
  BY <1>3 DEF IsOpen, NoMatch
<1>6. echoed' = copied' /\ outcome' = "running"
  BY <1>1 DEF IInv, OutputsAgree, Hold
<1> QED BY <1>1, <1>3, <1>4, <1>5, <1>6 DEF IInv, BuilderInUse, OutputsAgree

(* Up to a matched tag, what is copied is what was echoed.                 *)
LEMMA CopiedUpToMatchIsEchoed ==
  ASSUME IInv, NEW e \in Event, Read(e), ~IsOpen
  PROVE  CopiedUpToMatch = echoed
<1>1. Len(doc) \in Nat /\ Here = Len(doc) + 1 /\ outcome = "running"
  BY ReadExtends DEF IInv
<1>2. Here - 1 = Len(doc)
  BY <1>1
<1> QED BY <1>1, <1>2 DEF CopiedUpToMatch, IInv, OutputsAgree

LEMMA MatchStartKeeps ==
  ASSUME IInv, NEW e \in Event, Read(e), UNCHANGED outcome, ~IsOpen, e.by # {},
         open' = [handler |-> FirstMatch(e), held |-> <<Here>>, depth |-> 1],
         copied' = CopiedUpToMatch,
         UNCHANGED <<written, echoed, calls, removed>>
  PROVE  IInv'
<1>1. /\ doc' \in Seq(Event) /\ Len(doc') = Len(doc) + 1 /\ doc' # <<>>
      /\ Len(doc) \in Nat /\ Here = Len(doc) + 1 /\ outcome = "running"
  BY ReadExtends DEF IInv
<1>2. <<Here>> \in Seq(Nat) /\ <<Here>> # <<>>
  BY <1>1
<1>3. IsMatch(open') /\ IsOpen'
  BY <1>2 DEF IsMatch, IsOpen, NoMatch
<1>4. copied' = echoed
  BY CopiedUpToMatchIsEchoed
<1>5. TypeOK'
  BY <1>1, <1>3, <1>4 DEF IInv, TypeOK, IsMatch
<1> QED BY <1>1, <1>2, <1>3, <1>4, <1>5 DEF IInv, BuilderInUse, OutputsAgree

(* A complete match: both engines write the same node, or neither does.    *)
LEMMA CallKeeps ==
  ASSUME IInv, NEW e \in Event, Read(e), UNCHANGED outcome,
         NEW h, NEW held \in Seq(Nat), held # <<>>, NEW gone \in BOOLEAN,
         CallAndWrite(h, held, echoed, gone)
  PROVE  IInv'
<1>1. /\ doc' \in Seq(Event) /\ Len(doc') = Len(doc) + 1 /\ doc' # <<>>
      /\ Len(doc) \in Nat /\ Here = Len(doc) + 1 /\ outcome = "running"
  BY ReadExtends DEF IInv
<1>2. Node(Head(held)) \in Piece
  <2>1. Head(held) \in Nat
    BY HeadTailProperties
  <2> QED BY <2>1 DEF Node, Piece
<1>3. echoed' \in Seq(Piece) /\ copied' = echoed'
  BY <1>2 DEF CallAndWrite, IInv, TypeOK
<1>4. IsMatch(open') /\ ~IsOpen'
  BY DEF CallAndWrite, NoMatch, IsMatch, IsOpen
<1>5. written' = Len(doc')
  BY <1>1 DEF CallAndWrite
<1>6. (Slice(written, Len(doc)))' = <<>>
  BY <1>1, <1>5, EmptySlice DEF Slice
<1>7. copied' \o <<>> = copied'
  BY <1>3, ConcatEmptySeq
<1>8. TypeOK'
  BY <1>1, <1>3, <1>4, <1>5 DEF TypeOK, IsMatch
<1> QED BY <1>1, <1>3, <1>4, <1>6, <1>7, <1>8 DEF IInv, BuilderInUse, OutputsAgree

-------------------------------------------------------------------------------
(* The invariant holds at first and every step keeps it.                   *)

LEMMA InitKeeps == EventsInit /\ RewriteInit => IInv
<1> SUFFICES ASSUME EventsInit, RewriteInit PROVE IInv
  OBVIOUS
<1>1. doc = <<>> /\ written = 0 /\ copied = <<>> /\ echoed = <<>> /\ outcome = "running" /\ open = NoMatch
  BY DEF EventsInit, RewriteInit
<1>2. Slice(written, Len(doc)) = <<>>
  BY <1>1, EmptySlice
<1>3. copied \o <<>> = echoed
  BY <1>1
<1>4. ~IsOpen
  BY <1>1 DEF IsOpen
<1>5. TypeOK
  BY <1>1 DEF TypeOK, IsMatch, NoMatch
<1> QED BY <1>1, <1>2, <1>3, <1>4, <1>5 DEF IInv, BuilderInUse, OutputsAgree

LEMMA EventKeeps == IInv /\ RewriteEvent => IInv'
<1> SUFFICES ASSUME IInv, RewriteEvent PROVE IInv'
  OBVIOUS
<1>1. PICK e \in Event :
        /\ Read(e)
        /\ StartTag(e) \/ EmptyTag(e) \/ EndTag(e) \/ Content(e)
        /\ UNCHANGED outcome
  BY DEF RewriteEvent
<1>2. Here \in Nat /\ open.held \in Seq(Nat) /\ open.depth \in Nat
  BY <1>1, ReadExtends DEF IInv, TypeOK, IsMatch
<1>3. IsOpen => open.depth > 0 /\ open.held # <<>>
  BY DEF IInv, BuilderInUse
<1>4. CASE ~IsOpen /\ Unmatched
  BY <1>1, <1>4, UnmatchedKeeps
<1>5. ASSUME IsOpen, NEW d \in Nat \ {0}, Hold(d) PROVE IInv'
  BY <1>1, <1>5, HoldKeeps
<1>6. CASE StartTag(e)
  <2>1. CASE IsOpen /\ Hold(open.depth + 1)
    BY <1>2, <1>5, <2>1
  <2>2. CASE /\ ~IsOpen /\ e.by # {}
             /\ open' = [handler |-> FirstMatch(e), held |-> <<Here>>, depth |-> 1]
             /\ copied' = CopiedUpToMatch
             /\ UNCHANGED <<written, echoed, calls, removed>>
    BY <1>1, <2>2, MatchStartKeeps
  <2> QED BY <1>4, <1>6, <2>1, <2>2 DEF StartTag
<1>7. CASE EmptyTag(e)
  <2>1. CASE IsOpen /\ Hold(open.depth)
    BY <1>2, <1>3, <1>5, <2>1
  <2>2. ASSUME ~IsOpen, NEW gone \in BOOLEAN, CallAndWrite(FirstMatch(e), <<Here>>, CopiedUpToMatch, gone)
        PROVE  IInv'
    <3>1. <<Here>> \in Seq(Nat) /\ <<Here>> # <<>>
      BY <1>2
    <3>2. CallAndWrite(FirstMatch(e), <<Here>>, echoed, gone)
      BY <1>1, <2>2, CopiedUpToMatchIsEchoed
    <3> QED BY <1>1, <3>1, <3>2, CallKeeps
  <2> QED BY <1>4, <1>7, <2>1, <2>2 DEF EmptyTag
<1>8. CASE EndTag(e)
  <2>1. CASE IsOpen /\ open.depth > 1 /\ Hold(open.depth - 1)
    <3>1. open.depth - 1 \in Nat \ {0}
      BY <1>2, <2>1
    <3> QED BY <1>5, <2>1, <3>1
  <2>2. ASSUME IsOpen, NEW gone \in BOOLEAN, CallAndWrite(open.handler, Append(open.held, Here), copied, gone)
        PROVE  IInv'
    <3>1. Append(open.held, Here) \in Seq(Nat) /\ Len(Append(open.held, Here)) = Len(open.held) + 1
      BY <1>2, AppendProperties
    <3>2. Append(open.held, Here) # <<>>
      BY <1>2, <3>1, EmptySeq
    <3>3. copied = echoed
      BY <1>1, <2>2 DEF Read, IInv, OutputsAgree
    <3> QED BY <1>1, <2>2, <3>1, <3>2, <3>3, CallKeeps
  <2> QED BY <1>4, <1>8, <2>1, <2>2 DEF EndTag
<1>9. CASE Content(e) /\ e.kind # "other"
  BY <1>2, <1>3, <1>4, <1>5, <1>9 DEF Content
<1>10. CASE Content(e) /\ e.kind = "other"
  <2>1. doc = <<>>
    BY <1>1, <1>10 DEF Read, CanFollow
  <2>2. ~IsOpen
    BY <2>1 DEF IInv, BuilderInUse
  <2> QED BY <1>4, <1>10, <2>2 DEF Content
<1> QED BY <1>1, <1>6, <1>7, <1>8, <1>9, <1>10

LEMMA StepKeeps == IInv /\ [RewriteNext]_<<eventVars, rewriteVars>> => IInv'
<1> SUFFICES ASSUME IInv, [RewriteNext]_<<eventVars, rewriteVars>> PROVE IInv'
  OBVIOUS
<1>1. CASE RewriteEvent
  BY <1>1, EventKeeps
<1>2. CASE RewriteUnknownEntity
  BY <1>2 DEF RewriteUnknownEntity, ReadError, rewriteVars, IInv, TypeOK, IsMatch, BuilderInUse, IsOpen,
              OutputsAgree, Slice
<1>3. CASE RewriteError
  BY <1>3 DEF RewriteError, ReadError, rewriteVars, IInv, TypeOK, IsMatch, BuilderInUse, IsOpen,
              OutputsAgree, Slice
<1>4. CASE RewriteEof
  <2>1. /\ outcome = "running" /\ outcome' = "ok"
        /\ copied' = copied \o Slice(written, Len(doc))
        /\ UNCHANGED <<doc, path, open, written, echoed, calls, removed>>
    BY <1>4 DEF RewriteEof, Eof
  <2>2. written \in Nat /\ Len(doc) \in Nat /\ written <= Len(doc)
    BY DEF IInv, TypeOK
  <2>3. copied' \in Seq(Piece)
    BY <2>1, <2>2, SliceType, ConcatProperties DEF IInv, TypeOK
  <2>4. IsOpen' <=> IsOpen
    BY <2>1 DEF IsOpen
  <2> QED BY <2>1, <2>3, <2>4 DEF IInv, TypeOK, IsMatch, BuilderInUse, OutputsAgree
<1>5. CASE UNCHANGED <<eventVars, rewriteVars>>
  BY <1>5 DEF eventVars, rewriteVars, IInv, TypeOK, IsMatch, BuilderInUse, IsOpen, OutputsAgree, Slice
<1> QED BY <1>1, <1>2, <1>3, <1>4, <1>5 DEF RewriteNext

-------------------------------------------------------------------------------
(* The match that is open is the outermost selected element that the       *)
(* reader is in, and the builder has all of it that has been read.         *)

IsFirst(e, h) == h \in e.by /\ \A g \in e.by : h <= g

InMatch(m) ==
  /\ Within(doc, Handlers, m)
  /\ open.held = Held(m, Len(doc))
  /\ open.depth = Level(doc, Len(doc)) - Level(doc, m) + 1
  /\ IsFirst(doc[m], open.handler)

AtMatch == IF IsOpen THEN \E m : InMatch(m) ELSE Away(doc, Handlers)

Call == [handler : Handlers, held : Seq(Nat)]

IsCallFor(c, d, s) == c.held = SubtreeEvents(d, s) /\ IsFirst(d[s], c.handler)

CallsAreDue(d, cs) ==
  /\ cs \in Seq(Call)
  /\ Len(cs) = Len(InOrder(Due(d, Handlers)))
  /\ \A i \in 1 .. Len(cs) : IsCallFor(cs[i], d, InOrder(Due(d, Handlers))[i])

(* What is written, and what has been called, depends on the document only. *)
History ==
  /\ removed \subseteq Due(doc, Handlers)
  /\ echoed = Rewritten(doc, Settled, Handlers, removed)
  /\ CallsAreDue(doc, calls)

RInv == IInv /\ AtMatch /\ History

-------------------------------------------------------------------------------
(* The calls that are due, after one more event.                           *)

LEMMA SameCallsDue ==
  ASSUME NEW d \in Seq(Event), NEW e \in Event, NEW D, Extends(D, d, e), NEW cs, CallsAreDue(d, cs),
         Due(D, Handlers) = Due(d, Handlers)
  PROVE  CallsAreDue(D, cs)
<1> DEFINE due == InOrder(Due(d, Handlers))
<1>1. Due(d, Handlers) \in SUBSET Int /\ IsFiniteSet(Due(d, Handlers))
  BY SelectionBounds
<1>2. \A i \in 1 .. Len(due) : due[i] \in Due(d, Handlers)
  BY <1>1, InOrderLists
<1>3. \A s \in Due(d, Handlers) : SubtreeEvents(D, s) = SubtreeEvents(d, s) /\ D[s] = d[s]
  <2>1. \A s \in Due(d, Handlers) : s \in 1 .. Len(d) /\ Subtree(D, s) = Subtree(d, s)
    BY DueAppended
  <2> QED BY <2>1, LevelsAppended DEF SubtreeEvents
<1> QED BY <1>2, <1>3 DEF CallsAreDue, IsCallFor

LEMMA OneMoreCallDue ==
  ASSUME NEW d \in Seq(Event), NEW e \in Event, NEW D, Extends(D, d, e), NEW cs, CallsAreDue(d, cs),
         NEW x \in 1 .. Len(D), Due(D, Handlers) = Due(d, Handlers) \cup {x},
         \A s \in Due(d, Handlers) : s < x,
         NEW c \in Call, IsCallFor(c, D, x)
  PROVE  CallsAreDue(D, Append(cs, c))
<1> DEFINE S == Due(d, Handlers)
           T == Due(D, Handlers)
           due == InOrder(S)
<1>1. S \in SUBSET Int /\ IsFiniteSet(S) /\ x \in Int /\ T = S \cup {x}
  BY SelectionBounds
<1>2. /\ Cardinality(S) \in Nat /\ due \in Seq(S) /\ Len(due) = Cardinality(S)
      /\ \A i \in 1 .. Len(due) : due[i] \in S
  BY <1>1, InOrderLists
<1>3. \A s \in S : SubtreeEvents(D, s) = SubtreeEvents(d, s) /\ D[s] = d[s]
  <2>1. \A s \in S : s \in 1 .. Len(d) /\ Subtree(D, s) = Subtree(d, s)
    BY DueAppended
  <2> QED BY <2>1, LevelsAppended DEF SubtreeEvents
<1>4. /\ cs \in Seq(Call) /\ Len(cs) = Len(due)
      /\ \A i \in 1 .. Len(cs) : IsCallFor(cs[i], d, due[i])
  BY DEF CallsAreDue
<1>5. \A i \in 1 .. Len(cs) : IsCallFor(cs[i], D, due[i])
  BY <1>2, <1>3, <1>4 DEF IsCallFor
<1> HIDE DEF S, T, due
<1>6. InOrder(T) = Append(InOrder(S), x)
  BY <1>1, InOrderAppend DEF S
<1>7. /\ Len(InOrder(T)) = Len(due) + 1
      /\ \A i \in 1 .. Len(due) : InOrder(T)[i] = due[i]
      /\ InOrder(T)[Len(due) + 1] = x
  BY <1>2, <1>6, AppendProperties DEF due
<1>8. /\ Append(cs, c) \in Seq(Call) /\ Len(Append(cs, c)) = Len(cs) + 1
      /\ \A i \in 1 .. Len(cs) : Append(cs, c)[i] = cs[i]
      /\ Append(cs, c)[Len(cs) + 1] = c
  BY <1>4, AppendProperties
<1>9. \A i \in 1 .. Len(cs) + 1 : IsCallFor(Append(cs, c)[i], D, InOrder(T)[i])
  <2> SUFFICES ASSUME NEW i \in 1 .. Len(cs) + 1
               PROVE  IsCallFor(Append(cs, c)[i], D, InOrder(T)[i])
    OBVIOUS
  <2>1. CASE i \in 1 .. Len(cs)
    BY <1>4, <1>5, <1>7, <1>8, <2>1
  <2>2. CASE i = Len(cs) + 1
    BY <1>4, <1>7, <1>8, <2>2
  <2>3. Len(cs) \in Nat
    BY <1>4
  <2> QED BY <2>1, <2>2, <2>3
<1> QED BY <1>4, <1>7, <1>8, <1>9 DEF CallsAreDue, T

-------------------------------------------------------------------------------
(* The places of output, after one more event.                             *)

NoMore(D, m, left, d, n, gone, H) == OutputPlaces(D, m, H, left) = OutputPlaces(d, n, H, gone)

(* Outside the matches.                                                    *)
LEMMA PlacesOutside ==
  ASSUME NEW d \in Seq(Event), NEW e \in Event, NEW D, Extends(D, d, e), NEW H, Away(d, H),
         ~ Selects(H, e), NEW gone
  PROVE  /\ OutputPlaces(D, Len(D), H, gone) = OutputPlaces(d, Len(d), H, gone) \cup {Len(D)}
         /\ PieceAt(D, H, Len(D)) = Input(Len(D))
<1>1. Len(D) = Len(d) + 1 /\ Len(d) \in Nat
  BY LevelsAppended
<1>2. \A m : ~ Within(d, H, m)
  BY SelectionBounds DEF Within, Away
<1>3. Len(D) \notin Inside(D, H)
  BY <1>2, InsideAppended
<1>4. OutputPlaces(D, Len(d), H, gone) = OutputPlaces(d, Len(d), H, gone)
  BY <1>1, PlacesAppended
<1>5. \A i \in 1 .. Len(D) : i \in 1 .. Len(d) \/ i = Len(D)
  BY <1>1
<1>6. OutputPlaces(D, Len(D), H, gone) = OutputPlaces(D, Len(d), H, gone) \cup {Len(D)}
  BY <1>1, <1>3, <1>5 DEF OutputPlaces
<1> QED BY <1>3, <1>4, <1>6 DEF PieceAt

(* At a selected empty element outside the matches.                        *)
LEMMA PlacesAtEmpty ==
  ASSUME NEW d \in Seq(Event), NEW e \in Event, NEW D, Extends(D, d, e), NEW H, Away(d, H),
         Selects(H, e), NEW gone, gone \subseteq 1 .. Len(d)
  PROVE  /\ OneMore(D, Len(D), gone, d, Len(d), gone, H, Len(D))
         /\ NoMore(D, Len(D), gone \cup {Len(D)}, d, Len(d), gone, H)
         /\ PieceAt(D, H, Len(D)) = Node(Len(D))
<1>1. Len(D) = Len(d) + 1 /\ Len(d) \in Nat
  BY LevelsAppended
<1>2. Len(D) \in Inside(D, H) /\ Len(D) \in Outermost(D, H)
  BY InsideAppended, SelectionAppended
<1>3. Len(D) \notin gone /\ Len(D) \notin 1 .. Len(d)
  BY <1>1
<1>4. OutputPlaces(D, Len(d), H, gone) = OutputPlaces(d, Len(d), H, gone)
  BY <1>1, PlacesAppended
<1>5. \A i \in 1 .. Len(D) : i \in 1 .. Len(d) \/ i = Len(D)
  BY <1>1
<1>6. OutputPlaces(D, Len(D), H, gone) = OutputPlaces(D, Len(d), H, gone) \cup {Len(D)}
  BY <1>1, <1>2, <1>3, <1>5 DEF OutputPlaces
<1>7. OutputPlaces(D, Len(D), H, gone \cup {Len(D)}) = OutputPlaces(D, Len(d), H, gone)
  BY <1>1, <1>2, <1>3, <1>5 DEF OutputPlaces
<1> QED BY <1>1, <1>2, <1>4, <1>6, <1>7 DEF PieceAt, OneMore, NoMore

NotYet(n, m, gone) == n = m - 1 /\ m \notin gone

(* At the end tag of the match.                                            *)
LEMMA PlacesAtEnd ==
  ASSUME NEW d \in Seq(Event), NEW e \in Event, NEW D, Extends(D, d, e), NEW H, NEW m, Within(d, H, m),
         NEW gone, NEW n, NotYet(n, m, gone)
  PROVE  /\ OneMore(D, Len(D), gone, d, n, gone, H, m)
         /\ NoMore(D, Len(D), gone \cup {m}, d, n, gone, H)
         /\ PieceAt(D, H, m) = Node(m)
<1>1. /\ D \in Seq(Event) /\ Len(D) = Len(d) + 1 /\ Len(d) \in Nat
      /\ m \in 1 .. Len(d) /\ m \in Outermost(d, H)
  BY LevelsAppended, SelectionBounds DEF Within
<1> n = m - 1 /\ m \notin gone
  BY DEF NotYet
<1>2. m \in Outermost(D, H) /\ m \in SelectedBy(D, H)
  BY <1>1, SelectionAppended, SelectionBounds
<1>3. \A i \in m .. Len(D) : i \in Inside(D, H)
  BY <1>2, EventsOfMatch DEF Inside
<1>4. \A i \in m .. Len(D) : i # m => i \notin Outermost(D, H)
  BY <1>2, EventsOfMatch DEF Outermost
<1>5. OutputPlaces(D, n, H, gone) = OutputPlaces(d, n, H, gone)
  BY <1>1, PlacesAppended
<1>6. m \in 1 .. Len(D) /\ m \notin 1 .. n
  BY <1>1
<1>7. \A i \in 1 .. Len(D) : i \in 1 .. n \/ i \in m .. Len(D)
  BY <1>1
<1>8. 1 .. n \subseteq 1 .. Len(D)
  BY <1>1
<1>9. ASSUME NEW r
      PROVE  OutputPlaces(D, Len(D), H, r) = OutputPlaces(D, n, H, r) \cup ({m} \ r)
  <2>1. ASSUME NEW i \in 1 .. Len(D)
        PROVE  i \in OutputPlaces(D, Len(D), H, r) <=> i \in OutputPlaces(D, n, H, r) \cup ({m} \ r)
    <3>1. CASE i \in 1 .. n
      BY <1>6, <3>1 DEF OutputPlaces
    <3>2. CASE i = m
      BY <1>2, <1>3, <1>6, <1>1, <3>2 DEF OutputPlaces
    <3>3. CASE i \in m .. Len(D) /\ i # m
      <4>1. i \notin 1 .. n
        BY <1>1, <3>3
      <4> QED BY <1>3, <1>4, <3>3, <4>1 DEF OutputPlaces
    <3> QED BY <1>7, <3>1, <3>2, <3>3
  <2>2. OutputPlaces(D, Len(D), H, r) \subseteq 1 .. Len(D)
    BY DEF OutputPlaces
  <2>3. OutputPlaces(D, n, H, r) \cup ({m} \ r) \subseteq 1 .. Len(D)
    BY <1>6, <1>8 DEF OutputPlaces
  <2> QED BY <2>1, <2>2, <2>3
<1>10. OutputPlaces(D, n, H, gone \cup {m}) = OutputPlaces(D, n, H, gone)
  BY <1>6 DEF OutputPlaces
<1>11. {m} \ gone = {m} /\ {m} \ (gone \cup {m}) = {}
  OBVIOUS
<1>12. OutputPlaces(D, Len(D), H, gone) = OutputPlaces(D, n, H, gone) \cup {m}
  BY <1>9, <1>11
<1>13. OutputPlaces(D, Len(D), H, gone \cup {m}) = OutputPlaces(D, n, H, gone) \cup {}
  BY <1>9, <1>10, <1>11
<1>14. m \in Inside(D, H)
  BY <1>1, <1>3
<1> QED BY <1>1, <1>5, <1>12, <1>13, <1>14 DEF PieceAt, OneMore, NoMore

-------------------------------------------------------------------------------
(* The steps.                                                              *)

LEMMA ReadAppends ==
  ASSUME TypeOK, NEW e \in Event, Read(e)
  PROVE  /\ doc \in Seq(Event) /\ Extends(doc', doc, e)
         /\ doc' \in Seq(Event) /\ Len(doc') = Len(doc) + 1 /\ Here = Len(doc') /\ Len(doc) \in Nat
         /\ doc'[Len(doc')] = e
         /\ \A i \in 1 .. Len(doc) : doc'[i] = doc[i]
<1>1. doc \in Seq(Event) /\ Extends(doc', doc, e)
  BY DEF Read, TypeOK, Extends
<1> QED BY <1>1, ReadExtends, LevelsAppended

LEMMA FirstMatchIsFirst ==
  ASSUME NEW e \in Event, e.by # {}
  PROVE  IsFirst(e, FirstMatch(e)) /\ FirstMatch(e) \in Handlers /\ e.by \subseteq Handlers
<1>1. e.by \subseteq Handlers /\ e.by \in SUBSET Nat
  BY EventsAssumption DEF Event, Handlers
<1>2. \E h \in e.by : \A g \in e.by : h <= g
  BY <1>1, LeastNumber
<1>3. FirstMatch(e) \in e.by /\ \A g \in e.by : FirstMatch(e) <= g
  BY <1>2 DEF FirstMatch
<1> QED BY <1>1, <1>3 DEF IsFirst

LEMMA TagSelects ==
  ASSUME NEW e \in Event
  PROVE  Selects(Handlers, e) <=> e.kind \in {"start", "empty"} /\ e.by # {}
<1>1. e.by \cap Handlers = e.by
  BY EventsAssumption DEF Event, Handlers
<1> QED BY <1>1 DEF Selects

(* An event outside the matches.                                           *)
LEMMA OutsideStep ==
  ASSUME RInv, NEW e \in Event, Read(e), ~IsOpen, ~Selects(Handlers, e), Unmatched
  PROVE  AtMatch' /\ History'
<1>1. /\ doc \in Seq(Event) /\ Extends(doc', doc, e)
      /\ Len(doc') = Len(doc) + 1 /\ Here = Len(doc') /\ Len(doc) \in Nat
  BY ReadAppends DEF RInv, IInv
<1>2. Away(doc, Handlers) /\ Settled = Len(doc)
  BY DEF RInv, AtMatch, Settled
<1>3. ~IsOpen' /\ removed' = removed /\ calls' = calls /\ echoed' = Append(echoed, Input(Here))
  BY DEF Unmatched, IsOpen
<1>4. Away(doc', Handlers)
  BY <1>1, <1>2, StaysAway
<1>5. Due(doc', Handlers) = Due(doc, Handlers)
  BY <1>1, <1>2, DueWhenAway
<1>6. CallsAreDue(doc', calls)
  BY <1>1, <1>5, SameCallsDue DEF RInv, History
<1>7. Rewritten(doc', Len(doc'), Handlers, removed) = Append(Rewritten(doc, Len(doc), Handlers, removed), Input(Len(doc')))
  <2>1. /\ OutputPlaces(doc', Len(doc'), Handlers, removed) = OutputPlaces(doc, Len(doc), Handlers, removed) \cup {Len(doc')}
        /\ PieceAt(doc', Handlers, Len(doc')) = Input(Len(doc'))
    BY <1>1, <1>2, PlacesOutside
  <2>2. Len(doc) \in 0 .. Len(doc) /\ Len(doc') \in Nat /\ Len(doc') \in Len(doc) + 1 .. Len(doc')
    BY <1>1
  <2>3. OneMore(doc', Len(doc'), removed, doc, Len(doc), removed, Handlers, Len(doc'))
    BY <2>1, <2>2 DEF OneMore
  <2>4. Rewritten(doc', Len(doc'), Handlers, removed)
          = Append(Rewritten(doc, Len(doc), Handlers, removed), PieceAt(doc', Handlers, Len(doc')))
    BY <1>1, <2>3, RewrittenGrows
  <2> QED BY <2>1, <2>4
<1>8. Settled' = Len(doc')
  BY <1>3 DEF Settled
<1> QED BY <1>1, <1>2, <1>3, <1>4, <1>5, <1>6, <1>7, <1>8 DEF RInv, AtMatch, History

(* The start tag of a match.                                               *)
LEMMA StartStep ==
  ASSUME RInv, NEW e \in Event, Read(e), ~IsOpen, e.kind = "start", e.by # {},
         open' = [handler |-> FirstMatch(e), held |-> <<Here>>, depth |-> 1],
         UNCHANGED <<written, echoed, calls, removed>>
  PROVE  AtMatch' /\ History'
<1>1. /\ doc \in Seq(Event) /\ Extends(doc', doc, e) /\ doc' \in Seq(Event) /\ doc'[Len(doc')] = e
      /\ Len(doc') = Len(doc) + 1 /\ Here = Len(doc') /\ Len(doc) \in Nat
  BY ReadAppends DEF RInv, IInv
<1>2. Away(doc, Handlers) /\ Settled = Len(doc) /\ Selects(Handlers, e)
  BY TagSelects DEF RInv, AtMatch, Settled
<1>3. Within(doc', Handlers, Len(doc'))
  BY <1>1, <1>2, EntersMatch
<1>4. IsOpen' /\ Settled' = Len(doc)
  <2>1. open' # NoMatch
    BY DEF NoMatch
  <2>2. Head(open'.held) - 1 = Len(doc)
    BY <1>1
  <2> QED BY <2>1, <2>2 DEF IsOpen, Settled
<1>5. AtMatch'
  <2>1. open'.held = Held(Len(doc'), Len(doc'))
    BY <1>1, HeldOne
  <2>2. open'.depth = Level(doc', Len(doc')) - Level(doc', Len(doc')) + 1
    BY <1>1, LevelType
  <2>3. IsFirst(doc'[Len(doc')], open'.handler)
    BY <1>1, FirstMatchIsFirst
  <2>4. InMatch(Len(doc))'  <=> /\ Within(doc', Handlers, Len(doc'))
                              /\ open'.held = Held(Len(doc'), Len(doc'))
                              /\ open'.depth = Level(doc', Len(doc')) - Level(doc', Len(doc')) + 1
                              /\ IsFirst(doc'[Len(doc')], open'.handler)
    BY DEF InMatch
  <2>5. (\E m : InMatch(m))'
    BY <1>3, <2>1, <2>2, <2>3, <2>4
  <2> QED BY <1>4, <2>5 DEF AtMatch
<1>6. Due(doc', Handlers) = Due(doc, Handlers)
  BY <1>1, <1>2, DueWhenAway
<1>7. CallsAreDue(doc', calls)
  BY <1>1, <1>6, SameCallsDue DEF RInv, History
<1>8. Rewritten(doc', Len(doc), Handlers, removed) = Rewritten(doc, Len(doc), Handlers, removed)
  <2>1. Len(doc) \in 0 .. Len(doc)
    BY <1>1
  <2>2. OutputPlaces(doc', Len(doc), Handlers, removed) = OutputPlaces(doc, Len(doc), Handlers, removed)
    BY <1>1, <2>1, PlacesAppended
  <2> QED BY <1>1, <2>1, <2>2, RewrittenSame
<1> QED BY <1>2, <1>4, <1>5, <1>6, <1>7, <1>8 DEF RInv, History

(* An event inside the match; its elements are still open after it.        *)
LEMMA InsideStep ==
  ASSUME RInv, NEW e \in Event, Read(e), IsOpen, open.depth + Change(e) > 0,
         Hold(open.depth + Change(e))
  PROVE  AtMatch' /\ History'
<1>1. /\ doc \in Seq(Event) /\ Extends(doc', doc, e) /\ \A i \in 1 .. Len(doc) : doc'[i] = doc[i]
      /\ Len(doc') = Len(doc) + 1 /\ Here = Len(doc') /\ Len(doc) \in Nat
  BY ReadAppends DEF RInv, IInv
<1>2. PICK m : InMatch(m)
  BY DEF RInv, AtMatch
<1>3. m \in 1 .. Len(doc) /\ m \in Nat \ {0} /\ m <= Len(doc)
  BY <1>1, <1>2, SelectionBounds DEF InMatch, Within
<1>4. Level(doc, Len(doc)) \in Int /\ Level(doc, m) \in Int /\ Change(e) \in Int
  BY <1>1, <1>3, LevelType DEF Change
<1>5. Level(doc, Len(doc)) + Change(e) >= Level(doc, m)
  BY <1>2, <1>4 DEF InMatch
<1>6. Within(doc', Handlers, m)
  BY <1>1, <1>2, <1>5, StaysWithin DEF InMatch
<1>7. /\ open' = [open EXCEPT !.held = Append(@, Here), !.depth = open.depth + Change(e)]
      /\ echoed' = echoed /\ calls' = calls /\ removed' = removed
  BY DEF Hold
<1>8. /\ open'.handler = open.handler
      /\ open'.held = Append(open.held, Here)
      /\ open'.depth = open.depth + Change(e)
  <2>1. open = [handler |-> open.handler, held |-> open.held, depth |-> open.depth]
    BY DEF RInv, IInv, TypeOK, IsMatch
  <2> QED BY <1>7, <2>1
<1>9. open'.held = Held(m, Len(doc')) /\ Head(open'.held) = m /\ Head(open.held) = m
  <2>1. Append(Held(m, Len(doc)), Len(doc) + 1) = Held(m, Len(doc) + 1) /\ Head(Held(m, Len(doc))) = m
    BY <1>1, <1>3, HeldGrows
  <2>2. Head(Held(m, Len(doc) + 1)) = m
    <3>1. Len(doc) + 1 \in Nat /\ m <= Len(doc) + 1
      BY <1>1, <1>3
    <3> QED BY <1>3, <3>1, HeldGrows
  <2> QED BY <1>1, <1>2, <1>8, <2>1, <2>2 DEF InMatch
<1>10. IsOpen' /\ Settled' = m - 1 /\ Settled = m - 1
  <2>1. open'.depth # 0
    BY <1>8
  <2>2. open' # NoMatch
    BY <2>1 DEF NoMatch
  <2> QED BY <1>9, <2>2 DEF IsOpen, Settled
<1>11. AtMatch'
  <2>1. Level(doc', Len(doc')) = Level(doc, Len(doc)) + Change(e) /\ Level(doc', m) = Level(doc, m)
    BY <1>1, <1>3, LevelsAppended
  <2>2. open'.depth = Level(doc', Len(doc')) - Level(doc', m) + 1
    BY <1>2, <1>4, <1>8, <2>1 DEF InMatch
  <2>3. IsFirst(doc'[m], open'.handler)
    BY <1>1, <1>2, <1>3, <1>8 DEF InMatch
  <2>4. (\E n : InMatch(n))'
    BY <1>6, <1>9, <2>2, <2>3 DEF InMatch
  <2> QED BY <1>10, <2>4 DEF AtMatch
<1>12. Due(doc', Handlers) = Due(doc, Handlers)
  <2>1. ~ (Level(doc, Len(doc)) + Change(e) < Level(doc, m))
    BY <1>4, <1>5
  <2> QED BY <1>1, <1>2, <2>1, DueWithin DEF InMatch
<1>13. CallsAreDue(doc', calls)
  BY <1>1, <1>12, SameCallsDue DEF RInv, History
<1>14. Rewritten(doc', m - 1, Handlers, removed) = Rewritten(doc, m - 1, Handlers, removed)
  <2>1. m - 1 \in 0 .. Len(doc) /\ m - 1 \in Nat
    BY <1>1, <1>3
  <2>2. OutputPlaces(doc', m - 1, Handlers, removed) = OutputPlaces(doc, m - 1, Handlers, removed)
    BY <1>1, <2>1, PlacesAppended
  <2> QED BY <1>1, <2>1, <2>2, RewrittenSame
<1> QED BY <1>7, <1>10, <1>11, <1>12, <1>13, <1>14 DEF RInv, History

(* An empty element that is a match.                                       *)
LEMMA EmptyStep ==
  ASSUME RInv, NEW e \in Event, Read(e), ~IsOpen, e.kind = "empty", e.by # {},
         NEW before, NEW gone \in BOOLEAN,
         CallAndWrite(FirstMatch(e), <<Here>>, before, gone)
  PROVE  AtMatch' /\ History'
<1>1. /\ doc \in Seq(Event) /\ Extends(doc', doc, e) /\ doc' \in Seq(Event) /\ doc'[Len(doc')] = e
      /\ Len(doc') = Len(doc) + 1 /\ Here = Len(doc') /\ Len(doc) \in Nat
  BY ReadAppends DEF RInv, IInv
<1>2. Away(doc, Handlers) /\ Settled = Len(doc) /\ Selects(Handlers, e)
  BY TagSelects DEF RInv, AtMatch, Settled
<1>3. ~IsOpen' /\ Settled' = Len(doc')
  BY DEF CallAndWrite, IsOpen, Settled
<1>4. Away(doc', Handlers)
  BY <1>1, <1>2, StaysAway
<1>5. /\ Due(doc', Handlers) = Due(doc, Handlers) \cup {Len(doc')}
      /\ Due(doc, Handlers) \subseteq 1 .. Len(doc)
  BY <1>1, <1>2, DueWhenAway, SelectionBounds
<1>6. calls' = Append(calls, [handler |-> FirstMatch(e), held |-> <<Len(doc')>>])
  BY <1>1 DEF CallAndWrite
<1>7. CallsAreDue(doc', calls')
  <2> DEFINE c == [handler |-> FirstMatch(e), held |-> <<Len(doc')>>]
  <2>1. c \in Call
    BY <1>1, FirstMatchIsFirst DEF Call
  <2>2. IsCallFor(c, doc', Len(doc'))
    BY <1>1, EventsOfEmpty, FirstMatchIsFirst DEF IsCallFor
  <2>3. Len(doc') \in 1 .. Len(doc') /\ \A s \in Due(doc, Handlers) : s < Len(doc')
    BY <1>1, <1>5
  <2>4. CallsAreDue(doc, calls)
    BY DEF RInv, History
  <2> HIDE DEF c
  <2>5. CallsAreDue(doc', Append(calls, c))
    BY <1>1, <1>5, <2>1, <2>2, <2>3, <2>4, OneMoreCallDue
  <2> QED BY <1>6, <2>5 DEF c
<1>8. removed \subseteq 1 .. Len(doc)
  BY <1>5 DEF RInv, History
<1>9. /\ OneMore(doc', Len(doc'), removed, doc, Len(doc), removed, Handlers, Len(doc'))
      /\ NoMore(doc', Len(doc'), removed \cup {Len(doc')}, doc, Len(doc), removed, Handlers)
      /\ PieceAt(doc', Handlers, Len(doc')) = Node(Len(doc'))
  BY <1>1, <1>2, <1>8, PlacesAtEmpty
<1>10. Len(doc) \in 0 .. Len(doc) /\ Len(doc') \in Nat /\ Len(doc') \in Len(doc) + 1 .. Len(doc')
  BY <1>1
<1>11. Head(<<Here>>) = Len(doc')
  BY <1>1
<1>12. echoed' = Rewritten(doc', Len(doc'), Handlers, removed')
  <2>1. CASE gone
    <3>1. echoed' = echoed /\ removed' = removed \cup {Len(doc')}
      BY <1>11, <2>1 DEF CallAndWrite
    <3>2. Rewritten(doc', Len(doc'), Handlers, removed \cup {Len(doc')}) = Rewritten(doc, Len(doc), Handlers, removed)
      BY <1>1, <1>9, <1>10, RewrittenSame DEF NoMore
    <3> QED BY <1>2, <3>1, <3>2 DEF RInv, History
  <2>2. CASE ~gone
    <3>1. echoed' = Append(echoed, Node(Len(doc'))) /\ removed' = removed
      BY <1>11, <2>2 DEF CallAndWrite
    <3>2. Rewritten(doc', Len(doc'), Handlers, removed)
            = Append(Rewritten(doc, Len(doc), Handlers, removed), PieceAt(doc', Handlers, Len(doc')))
      BY <1>1, <1>9, RewrittenGrows
    <3> QED BY <1>2, <1>9, <3>1, <3>2 DEF RInv, History
  <2> QED BY <2>1, <2>2
<1>13. removed' \subseteq Due(doc', Handlers)
  <2>1. removed' \subseteq removed \cup {Len(doc')}
    BY <1>11 DEF CallAndWrite
  <2> QED BY <1>5, <2>1 DEF RInv, History
<1> QED BY <1>3, <1>4, <1>7, <1>12, <1>13 DEF AtMatch, History

(* The end tag of a match.                                                 *)
LEMMA EndStep ==
  ASSUME RInv, NEW e \in Event, Read(e), IsOpen, open.depth = 1, e.kind = "end", NEW gone \in BOOLEAN,
         CallAndWrite(open.handler, Append(open.held, Here), copied, gone)
  PROVE  AtMatch' /\ History'
<1>1. /\ doc \in Seq(Event) /\ Extends(doc', doc, e) /\ doc' \in Seq(Event)
      /\ \A i \in 1 .. Len(doc) : doc'[i] = doc[i]
      /\ Len(doc') = Len(doc) + 1 /\ Here = Len(doc') /\ Len(doc) \in Nat
  BY ReadAppends DEF RInv, IInv
<1>2. PICK m : InMatch(m)
  BY DEF RInv, AtMatch
<1>3. m \in 1 .. Len(doc) /\ m \in Nat \ {0} /\ m <= Len(doc) /\ Within(doc, Handlers, m)
  BY <1>1, <1>2, SelectionBounds DEF InMatch, Within
<1>4. Level(doc, Len(doc)) + Change(e) < Level(doc, m)
  <2>1. Level(doc, Len(doc)) \in Int /\ Level(doc, m) \in Int
    BY <1>1, <1>3, LevelType
  <2>2. Level(doc, Len(doc)) = Level(doc, m)
    BY <1>2, <2>1 DEF InMatch
  <2>3. Change(e) = -1
    BY DEF Change
  <2> QED BY <2>1, <2>2, <2>3
<1>5. Away(doc', Handlers)
  BY <1>1, <1>3, <1>4, LeavesMatch
<1>6. /\ Due(doc', Handlers) = Due(doc, Handlers) \cup {m}
      /\ \A s \in Due(doc, Handlers) : s < m
  BY <1>1, <1>3, <1>4, DueWithin
<1>7. Append(open.held, Here) = Held(m, Len(doc')) /\ Head(Held(m, Len(doc'))) = m /\ Head(open.held) = m
  <2>1. Append(Held(m, Len(doc)), Len(doc) + 1) = Held(m, Len(doc) + 1) /\ Head(Held(m, Len(doc))) = m
    BY <1>1, <1>3, HeldGrows
  <2>2. Len(doc) + 1 \in Nat /\ m <= Len(doc) + 1
    BY <1>1, <1>3
  <2>3. Head(Held(m, Len(doc) + 1)) = m
    BY <1>3, <2>2, HeldGrows
  <2> QED BY <1>1, <1>2, <2>1, <2>3 DEF InMatch
<1>8. Settled = m - 1 /\ ~IsOpen' /\ Settled' = Len(doc')
  BY <1>7 DEF CallAndWrite, IsOpen, Settled
<1>9. calls' = Append(calls, [handler |-> open.handler, held |-> Held(m, Len(doc'))])
  BY <1>7 DEF CallAndWrite
<1>10. CallsAreDue(doc', calls')
  <2> DEFINE c == [handler |-> open.handler, held |-> Held(m, Len(doc'))]
  <2>1. doc[m] \in Event /\ doc[m].by # {} /\ doc'[m] = doc[m]
    BY <1>1, <1>2, <1>3 DEF InMatch, IsFirst
  <2>2. open.handler \in Handlers
    BY <1>2, <2>1, FirstMatchIsFirst DEF InMatch, IsFirst
  <2>3. Held(m, Len(doc')) \in Seq(Nat)
    <3>1. Len(doc') \in Nat /\ m <= Len(doc')
      BY <1>1, <1>3
    <3> QED BY <1>3, <3>1, HeldGrows
  <2>4. c \in Call
    BY <2>2, <2>3 DEF Call
  <2>5. SubtreeEvents(doc', m) = Held(m, Len(doc'))
    BY <1>1, <1>3, EventsOfMatch
  <2>6. IsCallFor(c, doc', m)
    BY <1>2, <2>1, <2>5 DEF IsCallFor, InMatch
  <2>7. CallsAreDue(doc, calls) /\ m \in 1 .. Len(doc')
    BY <1>1, <1>3 DEF RInv, History
  <2> HIDE DEF c
  <2>8. CallsAreDue(doc', Append(calls, c))
    BY <1>1, <1>6, <2>4, <2>6, <2>7, OneMoreCallDue
  <2> QED BY <1>9, <2>8 DEF c
<1>11. m \notin removed
  <2>1. m \notin Due(doc, Handlers)
    BY <1>3, CompleteMeansClosed, <1>1 DEF Due, Within
  <2> QED BY <2>1 DEF RInv, History
<1>12. /\ OneMore(doc', Len(doc'), removed, doc, m - 1, removed, Handlers, m)
       /\ NoMore(doc', Len(doc'), removed \cup {m}, doc, m - 1, removed, Handlers)
       /\ PieceAt(doc', Handlers, m) = Node(m)
  <2>1. NotYet(m - 1, m, removed)
    BY <1>11 DEF NotYet
  <2> QED BY <1>1, <1>3, <2>1, PlacesAtEnd
<1>13. m - 1 \in 0 .. Len(doc) /\ Len(doc') \in Nat /\ m \in (m - 1) + 1 .. Len(doc')
  BY <1>1, <1>3
<1>14. echoed' = Rewritten(doc', Len(doc'), Handlers, removed')
  <2>1. CASE gone
    <3>1. echoed' = echoed /\ removed' = removed \cup {m}
      BY <1>7, <2>1 DEF CallAndWrite
    <3>2. Rewritten(doc', Len(doc'), Handlers, removed \cup {m}) = Rewritten(doc, m - 1, Handlers, removed)
      BY <1>1, <1>12, <1>13, RewrittenSame DEF NoMore
    <3> QED BY <1>8, <3>1, <3>2 DEF RInv, History
  <2>2. CASE ~gone
    <3>1. echoed' = Append(echoed, Node(m)) /\ removed' = removed
      BY <1>7, <2>2 DEF CallAndWrite
    <3>2. Rewritten(doc', Len(doc'), Handlers, removed)
            = Append(Rewritten(doc, m - 1, Handlers, removed), PieceAt(doc', Handlers, m))
      BY <1>1, <1>12, RewrittenGrows
    <3> QED BY <1>8, <1>12, <3>1, <3>2 DEF RInv, History
  <2> QED BY <2>1, <2>2
<1>15. removed' \subseteq Due(doc', Handlers)
  <2>1. removed' \subseteq removed \cup {m}
    BY <1>7 DEF CallAndWrite
  <2> QED BY <1>6, <2>1 DEF RInv, History
<1> QED BY <1>5, <1>8, <1>10, <1>14, <1>15 DEF AtMatch, History

LEMMA InitMatches == EventsInit /\ RewriteInit => RInv
<1> SUFFICES ASSUME EventsInit, RewriteInit PROVE RInv
  OBVIOUS
<1>1. /\ doc = <<>> /\ Len(doc) = 0 /\ open = NoMatch /\ removed = {} /\ echoed = <<>> /\ calls = <<>>
      /\ doc \in Seq(Event)
  BY DEF EventsInit, RewriteInit
<1>2. SelectedBy(doc, Handlers) = {}
  BY <1>1 DEF SelectedBy
<1>3. AtMatch
  BY <1>1, <1>2 DEF AtMatch, IsOpen, Away
<1>4. \A S : S = {} => InOrder(S) = <<>>
  BY FS_EmptySet DEF InOrder
<1>5. Due(doc, Handlers) = {} /\ OutputPlaces(doc, 0, Handlers, {}) = {}
  BY <1>2 DEF Due, Outermost, OutputPlaces
<1>6. CallsAreDue(doc, calls)
  BY <1>1, <1>4, <1>5 DEF CallsAreDue
<1>7. Rewritten(doc, 0, Handlers, {}) = <<>>
  BY <1>4, <1>5 DEF Rewritten
<1>8. History
  BY <1>1, <1>5, <1>6, <1>7 DEF History, Settled, IsOpen
<1> QED BY <1>3, <1>8, InitKeeps DEF RInv

LEMMA EventMatches == RInv /\ RewriteEvent => RInv'
<1> SUFFICES ASSUME RInv, RewriteEvent PROVE RInv'
  OBVIOUS
<1>1. PICK e \in Event :
        /\ Read(e)
        /\ StartTag(e) \/ EmptyTag(e) \/ EndTag(e) \/ Content(e)
        /\ UNCHANGED outcome
  BY DEF RewriteEvent
<1>2. IInv'
  BY EventKeeps DEF RInv
<1> SUFFICES AtMatch' /\ History'
  BY <1>2 DEF RInv
<1>3. IsOpen => open.depth \in Nat /\ open.depth > 0
  BY DEF RInv, IInv, TypeOK, IsMatch, BuilderInUse
<1>4. ASSUME ~IsOpen, Unmatched, ~ (e.kind \in {"start", "empty"} /\ e.by # {})
      PROVE  AtMatch' /\ History'
  BY <1>1, <1>4, TagSelects, OutsideStep
<1>5. CASE StartTag(e)
  <2>1. CASE IsOpen /\ Hold(open.depth + 1)
    <3>1. Change(e) = 1
      BY <1>5 DEF StartTag, Change
    <3> QED BY <1>1, <1>3, <2>1, <3>1, InsideStep
  <2>2. CASE /\ ~IsOpen /\ e.by # {}
             /\ open' = [handler |-> FirstMatch(e), held |-> <<Here>>, depth |-> 1]
             /\ UNCHANGED <<written, echoed, calls, removed>>
    BY <1>1, <1>5, <2>2, StartStep DEF StartTag
  <2> QED BY <1>4, <1>5, <2>1, <2>2 DEF StartTag
<1>6. CASE EmptyTag(e)
  <2>1. CASE IsOpen /\ Hold(open.depth)
    <3>1. Change(e) = 0 /\ open.depth + 0 = open.depth
      BY <1>3, <1>6, <2>1 DEF EmptyTag, Change
    <3> QED BY <1>1, <1>3, <2>1, <3>1, InsideStep
  <2>2. CASE /\ ~IsOpen /\ e.by # {}
             /\ \E gone \in BOOLEAN : CallAndWrite(FirstMatch(e), <<Here>>, CopiedUpToMatch, gone)
    BY <1>1, <1>6, <2>2, EmptyStep DEF EmptyTag
  <2> QED BY <1>4, <1>6, <2>1, <2>2 DEF EmptyTag
<1>7. CASE EndTag(e)
  <2>1. CASE IsOpen /\ open.depth > 1 /\ Hold(open.depth - 1)
    <3>1. Change(e) = -1 /\ open.depth + (-1) = open.depth - 1 /\ open.depth + (-1) > 0
      BY <1>3, <1>7, <2>1 DEF EndTag, Change
    <3> QED BY <1>1, <2>1, <3>1, InsideStep
  <2>2. CASE /\ IsOpen /\ open.depth = 1
             /\ \E gone \in BOOLEAN : CallAndWrite(open.handler, Append(open.held, Here), copied, gone)
    BY <1>1, <1>7, <2>2, EndStep DEF EndTag
  <2> QED BY <1>4, <1>7, <2>1, <2>2 DEF EndTag
<1>8. CASE Content(e)
  <2>1. CASE e.kind = "text" /\ IsOpen /\ Hold(open.depth)
    <3>1. Change(e) = 0 /\ open.depth + 0 = open.depth
      BY <1>3, <2>1 DEF Change
    <3> QED BY <1>1, <1>3, <2>1, <3>1, InsideStep
  <2>2. CASE e.kind \in {"text", "ref"} /\ ~IsOpen /\ Unmatched
    BY <1>4, <2>2
  <2>3. CASE e.kind = "other" /\ Unmatched
    <3>1. doc = <<>>
      BY <1>1, <2>3 DEF Read, CanFollow
    <3>2. ~IsOpen
      BY <3>1 DEF RInv, IInv, BuilderInUse
    <3> QED BY <1>4, <2>3, <3>2
  <2> QED BY <1>8, <2>1, <2>2, <2>3 DEF Content
<1> QED BY <1>1, <1>5, <1>6, <1>7, <1>8

LEMMA StepMatches == RInv /\ [RewriteNext]_<<eventVars, rewriteVars>> => RInv'
<1> SUFFICES ASSUME RInv, [RewriteNext]_<<eventVars, rewriteVars>> PROVE RInv'
  OBVIOUS
<1>1. IInv'
  BY StepKeeps DEF RInv
<1>2. CASE UNCHANGED <<doc, open, echoed, calls, removed>>
  BY <1>1, <1>2 DEF RInv, AtMatch, InMatch, IsOpen, History, Settled
<1>3. RewriteEvent \/ UNCHANGED <<doc, open, echoed, calls, removed>>
  BY DEF RewriteNext, RewriteUnknownEntity, RewriteError, RewriteEof, ReadError, Eof, eventVars, rewriteVars
<1> QED BY <1>2, <1>3, EventMatches

LEMMA WhatTheInvariantSays == RInv => EachEventOnce /\ FirstMatchWins
<1> SUFFICES ASSUME RInv PROVE EachEventOnce /\ FirstMatchWins
  OBVIOUS
<1>1. OutputsAgree
  BY DEF RInv, IInv
<1>2. EachEventOnce
  <2>1. echoed = Rewritten(doc, Settled, Handlers, removed) /\ copied \in Seq(Piece)
    BY DEF RInv, History, IInv, TypeOK
  <2>2. copied \o <<>> = copied
    BY <2>1, ConcatEmptySeq
  <2> QED BY <1>1, <2>1, <2>2 DEF EachEventOnce, OutputsAgree
<1>3. FirstMatchWins
  BY DEF RInv, History, CallsAreDue, IsCallFor, IsFirst, FirstMatchWins, Due
<1> QED BY <1>1, <1>2, <1>3

(* Whether the document is in memory or read, the output has every event   *)
(* of the input once, up to a match that the input ends in, and each match *)
(* is edited once, by the first handler that selects it, with all its      *)
(* events.                                                                 *)
THEOREM RewritesEachMatchOnce == RewriteSpec => [](EachEventOnce /\ FirstMatchWins)
<1> QED BY InitMatches, StepMatches, WhatTheInvariantSays, PTL DEF RewriteSpec

==============================================================================
