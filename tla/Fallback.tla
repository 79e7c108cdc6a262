--------------------------------- MODULE Fallback --------------------------------
(***************************************************************************)
(* The two-pass processor for an XPath that cannot be evaluated while      *)
(* streaming (src/transform/fallback.rs).  Pass 1 parses the input into a  *)
(* tree and selects nodes in it; pass 2 reads the input again and finds    *)
(* the tree's node for each start tag by counting children.  There is one  *)
(* handler.  process_with_matches (which writes output) and                *)
(* iterate_with_matches (which has a limit and writes nothing) have the    *)
(* same loop and are one action here, of which the output counts only when *)
(* there is no limit.                                                      *)
(*                                                                         *)
(* A node of the tree is the index of its start tag, or of the reference   *)
(* to the entity it came from; 0 is the document node.                     *)
(***************************************************************************)
EXTENDS XmlEvents

VARIABLES
  limit,      \* of the handler
  pass,       \* 1: parsing; 2: reading again
  pos,        \* the events read in pass 2
  nodeStack,  \* node_stack: the nodes thought to be open
  childIndex, \* current_child_index: children seen in each open element
  match,      \* in_matched_subtree: the events in the builder, its depth
  written,    \* prev_written
  output,     \* what was written
  calls,      \* history: the subtrees passed to the callback
  removed     \* history: those that it removed

fallbackVars ==
  <<limit, pass, pos, nodeStack, childIndex, match, written, output, calls, removed>>

NotInMatch == [held |-> <<>>, depth |-> 0]

FallbackInit ==
  /\ limit \in Limits
  /\ pass = 1
  /\ pos = 0
  /\ nodeStack = <<0>>
  /\ childIndex = <<0>>
  /\ match = NotInMatch
  /\ written = 0
  /\ output = <<>>
  /\ calls = <<>>
  /\ removed = {}

InMatch == match # NotInMatch

Last(s) == s[Len(s)]

Front(s) == SubSeq(s, 1, Len(s) - 1)

-------------------------------------------------------------------------------
(* The tree.                                                               *)

IsNode(i) == doc[i].kind \in ElementKinds

(* The innermost element whose content event i is in.                      *)
ParentOf(i) ==
  LET around == {s \in 1 .. i - 1 : doc[s].kind = "start" /\ i \in Subtree(doc, s)}
  IN  IF around = {} THEN 0 ELSE CHOOSE s \in around : \A t \in around : t <= s

ChildElements(n) ==
  InOrder({i \in 1 .. Len(doc) : IsNode(i) /\ ParentOf(i) = n})

NoNode == -1

(* find_child_element_id; an empty stack stands for the document node.     *)
FindChild(n, k) == IF k < Len(ChildElements(n)) THEN ChildElements(n)[k + 1] ELSE NoNode

(* The node the next start tag is taken to be.                             *)
ExpectedNode ==
  FindChild(IF nodeStack = <<>> THEN 0 ELSE Last(nodeStack), IF childIndex = <<>> THEN 0 ELSE Last(childIndex))

(* matching_node_ids                                                       *)
MatchingNodes == {i \in 1 .. Len(doc) : IsNode(i) /\ doc[i].by # {}}

(* One more child of the innermost open element.                           *)
Counted == IF childIndex = <<>> THEN <<>> ELSE Append(Front(childIndex), Last(childIndex) + 1)

-------------------------------------------------------------------------------
(* Pass 1: a limit of 0 ends it before anything is parsed.                 *)

NothingToDo ==
  /\ limit = 0 /\ outcome = "running"
  /\ outcome' = "ok"
  /\ UNCHANGED <<doc, path, fallbackVars>>

ParseEvent ==
  /\ pass = 1 /\ limit # 0
  /\ \E e \in Event : e.by \subseteq {1} /\ Read(e)
  /\ UNCHANGED <<outcome, fallbackVars>>

(* parse is given all of the input: it does mind elements left open.       *)
ParseError ==
  /\ pass = 1 /\ limit # 0
  /\ ReadError
  /\ UNCHANGED fallbackVars

(* The tree is complete; without a matching node the input is the output.  *)
Evaluate ==
  /\ pass = 1 /\ limit # 0 /\ outcome = "running"
  /\ path = <<>> /\ HasRoot(doc)
  /\ IF MatchingNodes = {}
     THEN /\ outcome' = "ok"
          /\ output' = [i \in 1 .. Len(doc) |-> Input(i)]
          /\ UNCHANGED pass
     ELSE pass' = 2 /\ UNCHANGED <<outcome, output>>
  /\ UNCHANGED <<doc, path, limit, pos, nodeStack, childIndex, match, written, calls, removed>>

-------------------------------------------------------------------------------
(* Pass 2.                                                                 *)

Slice(from, to) == [i \in 1 .. to - from |-> Input(from + i)]

Hold(d) ==
  /\ match' = [match EXCEPT !.held = Append(@, pos + 1), !.depth = d]
  /\ UNCHANGED <<outcome, written, output, calls, removed>>

Skip == UNCHANGED <<outcome, match, written, output, calls, removed>>

(* The callback is called with the subtree; what it made of it is written. *)
(* At the limit the function returns.                                      *)
CallBack(held, before) ==
  \E gone \in BOOLEAN :
    /\ calls' = Append(calls, held)
    /\ output' = IF gone THEN before ELSE Append(before, Node(Head(held)))
    /\ removed' = IF gone THEN removed \cup {Head(held)} ELSE removed
    /\ written' = pos + 1
    /\ match' = NotInMatch
    /\ outcome' = IF Len(calls') = limit THEN "ok" ELSE "running"

UpToTag == output \o Slice(written, pos)

StartAgain ==
  /\ doc[pos + 1].kind = "start"
  /\ \/ InMatch /\ Hold(match.depth + 1)
     \/ /\ ~InMatch /\ ExpectedNode \in MatchingNodes
        /\ match' = [held |-> <<pos + 1>>, depth |-> 1]
        /\ output' = UpToTag
        /\ UNCHANGED <<outcome, written, calls, removed>>
     \/ ~InMatch /\ ExpectedNode \notin MatchingNodes /\ Skip
  /\ nodeStack' = IF ExpectedNode = NoNode THEN nodeStack ELSE Append(nodeStack, ExpectedNode)
  /\ childIndex' = Append(Counted, 0)

(* Empty elements inside a match are not counted as children.              *)
EmptyUncounted ==
  /\ doc[pos + 1].kind = "empty"
  /\ \/ InMatch /\ Hold(match.depth)
     \/ ~InMatch /\ ExpectedNode \in MatchingNodes /\ CallBack(<<pos + 1>>, UpToTag)
     \/ ~InMatch /\ ExpectedNode \notin MatchingNodes /\ Skip
  /\ UNCHANGED <<nodeStack, childIndex>>

EmptyAgain ==
  /\ doc[pos + 1].kind = "empty"
  /\ \/ InMatch /\ Hold(match.depth)
     \/ ~InMatch /\ ExpectedNode \in MatchingNodes /\ CallBack(<<pos + 1>>, UpToTag)
     \/ ~InMatch /\ ExpectedNode \notin MatchingNodes /\ Skip
  /\ childIndex' = Counted
  /\ UNCHANGED nodeStack

EndAgain ==
  /\ doc[pos + 1].kind = "end"
  /\ \/ InMatch /\ match.depth > 1 /\ Hold(match.depth - 1)
     \/ InMatch /\ match.depth = 1 /\ CallBack(Append(match.held, pos + 1), output)
     \/ ~InMatch /\ Skip
  /\ nodeStack' = IF nodeStack = <<>> THEN <<>> ELSE Front(nodeStack)
  /\ childIndex' = IF childIndex = <<>> THEN <<>> ELSE Front(childIndex)

ContentAgain ==
  /\ \/ doc[pos + 1].kind = "text" /\ InMatch /\ Hold(match.depth)
     \/ doc[pos + 1].kind \in {"text", "ref"} /\ ~InMatch /\ Skip
     \/ doc[pos + 1].kind = "other" /\ Skip
  /\ UNCHANGED <<nodeStack, childIndex>>

ReadAgain ==
  /\ pass = 2 /\ outcome = "running" /\ pos < Len(doc)
  /\ StartAgain \/ EmptyAgain \/ EndAgain \/ ContentAgain
  /\ pos' = pos + 1
  /\ UNCHANGED <<doc, path, limit, pass>>

(* A reference in a matched subtree: unescape does not know the entity.    *)
UnknownEntity ==
  /\ pass = 2 /\ outcome = "running" /\ pos < Len(doc)
  /\ doc[pos + 1].kind = "ref" /\ InMatch
  /\ outcome' = "error"
  /\ UNCHANGED <<doc, path, fallbackVars>>

FallbackEof ==
  /\ pass = 2 /\ outcome = "running" /\ pos = Len(doc)
  /\ outcome' = "ok"
  /\ output' = output \o Slice(written, Len(doc))
  /\ UNCHANGED <<doc, path, limit, pass, pos, nodeStack, childIndex, match, written, calls, removed>>

FallbackNext ==
  \/ NothingToDo \/ ParseEvent \/ ParseError \/ Evaluate
  \/ ReadAgain \/ UnknownEntity \/ FallbackEof

FallbackSpec == EventsInit /\ FallbackInit /\ [][FallbackNext]_<<eventVars, fallbackVars>>

-------------------------------------------------------------------------------
(* Properties.                                                             *)

(* Pass 2 finds the nodes that pass 1 selected, when no entity holds an    *)
(* element: the callback gets the outermost selected elements, whole and   *)
(* in document order, up to the limit; on success none is left out, and    *)
(* where there is no limit the output is the input with them replaced.     *)
EditsWhatWasSelected ==
  LET due == InOrder(Outermost(doc, {1}))
  IN  (\A i \in 1 .. Len(doc) : doc[i].kind # "ref") =>
      /\ Len(calls) <= Len(due)
      /\ \A i \in 1 .. Len(calls) : calls[i] = SubtreeEvents(doc, due[i])
      /\ outcome = "ok" => Len(calls) = Len(due) \/ Len(calls) = limit \/ limit = 0
      /\ outcome = "ok" /\ limit = NoLimit => output = Rewritten(doc, Len(doc), {1}, removed)

(* The callback is only called with elements that the XPath selects.       *)
CallsOnlySelected ==
  \A i \in 1 .. Len(calls) : Head(calls[i]) \in SelectedBy(doc, {1})

==============================================================================
