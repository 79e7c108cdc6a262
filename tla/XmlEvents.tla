-------------------------------- MODULE XmlEvents --------------------------------
(***************************************************************************)
(* The events that the transformer's engines read from a document          *)
(* (quick-xml's reader, which src/transform/ calls), and what the document *)
(* is: which events belong to an element, which elements a handler should  *)
(* get, and what the output of a rewrite should be.                        *)
(*                                                                         *)
(* An event is its kind and, for an element, the handlers whose XPath      *)
(* selects it.  Event i is the input between byte offsets i - 1 and i.     *)
(* Text, CDATA, comments and processing instructions are handled alike and *)
(* are one kind.                                                           *)
(***************************************************************************)
EXTENDS Integers, FiniteSets, Sequences

CONSTANTS
  NumHandlers,   \* handlers are registered in the order 1 .. NumHandlers
  Limits,        \* the numbers of calls a handler may be limited to
  NoLimit,       \* limit: None
  Registrations, \* the callbacks and limits that a for_each may be given
  MaxEvents      \* bound: events in the input

Handlers == 1 .. NumHandlers

ASSUME EventsAssumption ==
  /\ NumHandlers \in Nat \ {0}
  /\ NoLimit \notin Nat
  /\ Limits \subseteq Nat \cup {NoLimit}
  /\ Registrations \subseteq [Handlers -> [kind : {"node", "match"}, limit : Limits]]
  /\ MaxEvents \in Nat

(* "ref" is a text event with one reference, to an entity whose replacement *)
(* text is an empty element, which only a tree shows (to the one handler   *)
(* that is run over it); "other" is the declaration or the doctype.        *)
ElementKinds == {"start", "empty", "ref"}

Event ==
  [kind : {"start", "empty"}, by : SUBSET Handlers]
  \cup
  [kind : {"ref"}, by : SUBSET {1}]
  \cup
  [kind : {"end", "text", "other"}, by : {{}}]

VARIABLES
  doc,     \* the events read so far
  path,    \* the open elements, by the index of their start tag
  outcome  \* of the call: "running", "ok" or "error"

eventVars == <<doc, path, outcome>>

EventsInit ==
  /\ doc = <<>>
  /\ path = <<>>
  /\ outcome = "running"

(* The index of the event being read.                                      *)
Here == Len(doc) + 1

HasRoot(d) == \E i \in 1 .. Len(d) : d[i].kind \in {"start", "empty"}

(* What may come next.  An end tag without a start tag is a syntax error;  *)
(* of what is outside the root, one declaration stands for all.            *)
CanFollow(e) ==
  /\ Len(doc) < MaxEvents
  /\ e.kind \in {"end", "text", "ref"} => path # <<>>
  /\ e.kind \in {"start", "empty"} => path # <<>> \/ ~HasRoot(doc)
  /\ e.kind = "other" => doc = <<>>

(* The reader returns an event and the tracker follows it.                 *)
Read(e) ==
  /\ outcome = "running"
  /\ CanFollow(e)
  /\ doc' = Append(doc, e)
  /\ path' = CASE e.kind = "start" -> Append(path, Here)
               [] e.kind = "end" -> SubSeq(path, 1, Len(path) - 1)
               [] OTHER -> path

(* The end of the input.  The reader does not mind elements left open.     *)
Eof ==
  /\ outcome = "running"
  /\ outcome' = "ok"
  /\ UNCHANGED <<doc, path>>

(* A syntax error in the input, or one of reading it.                      *)
ReadError ==
  /\ outcome = "running"
  /\ outcome' = "error"
  /\ UNCHANGED <<doc, path>>

-------------------------------------------------------------------------------
(* The structure of a document.                                            *)

IsElement(d, s) == d[s].kind \in {"start", "empty"}

CountOf(d, i, k) == Cardinality({j \in 1 .. i : d[j].kind = k})

(* The number of elements open after event i.                              *)
Level(d, i) == CountOf(d, i, "start") - CountOf(d, i, "end")

(* The events of the element whose first event is s.                       *)
Subtree(d, s) ==
  IF d[s].kind # "start" THEN {s}
  ELSE {i \in s .. Len(d) : \A k \in s .. i - 1 : Level(d, k) >= Level(d, s)}

IsComplete(d, s) ==
  d[s].kind = "start" => \E i \in Subtree(d, s) : Level(d, i) < Level(d, s)

SelectedBy(d, H) == {s \in 1 .. Len(d) : IsElement(d, s) /\ d[s].by \cap H # {}}

(* The selected elements that are not inside another selected one.         *)
Outermost(d, H) ==
  {s \in SelectedBy(d, H) : \A t \in SelectedBy(d, H) \ {s} : s \notin Subtree(d, t)}

(* The events of a whole element, in order.                                *)
SubtreeEvents(d, s) == [i \in 1 .. Cardinality(Subtree(d, s)) |-> s + i - 1]

(* Pieces of output: an event copied, or the element at s as edited.       *)
Input(i) == <<"input", i>>
Node(s) == <<"node", s>>

(* The numbers in S, a finite set, in ascending order: the first one is    *)
(* that with none below it, the second that with one below it, and so on.  *)
InOrder(S) ==
  [k \in 1 .. Cardinality(S) |-> CHOOSE i \in S : Cardinality({j \in S : j < i}) = k - 1]

(* The events that are in a selected element.                              *)
Inside(d, H) == UNION {Subtree(d, s) : s \in Outermost(d, H)}

(* The places among the first n events from which there is output, when    *)
(* the callbacks removed the elements in removed: every event that is not  *)
(* in a selected element, and the start of each element that is left.      *)
OutputPlaces(d, n, H, removed) ==
  {i \in 1 .. n : i \in Inside(d, H) => i \in Outermost(d, H) \ removed}

(* What rewriting the first n events of d should give: the input, with     *)
(* each outermost element that a handler of H selects replaced by what its *)
(* callback made of it, and the removed ones missing.                      *)
Rewritten(d, n, H, removed) ==
  LET places == InOrder(OutputPlaces(d, n, H, removed))
  IN  [k \in DOMAIN places |-> IF places[k] \in Inside(d, H) THEN Node(places[k]) ELSE Input(places[k])]

==============================================================================
