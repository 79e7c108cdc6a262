--------------------------------- MODULE Rewrite ---------------------------------
(***************************************************************************)
(* The event loop behind every streaming transform that writes output      *)
(* (src/transform/streaming/rewrite.rs), with both ways in which the input *)
(* reaches the output: in-memory input is copied in byte ranges around the *)
(* matches (CopyOutput), reader input is echoed event by event             *)
(* (EchoOutput).  The two are run side by side.                            *)
(***************************************************************************)
EXTENDS XmlEvents

VARIABLES
  open,     \* OpenMatch: the handler, the events in the builder, its depth
  written,  \* CopyOutput: end of the input already copied or replaced
  copied,   \* what CopyOutput wrote
  echoed,   \* what EchoOutput wrote
  calls,    \* history: the callback calls, each with the subtree it got
  removed   \* history: the elements that their callback removed

rewriteVars == <<open, written, copied, echoed, calls, removed>>

NoMatch == [handler |-> 0, held |-> <<>>, depth |-> 0]

RewriteInit ==
  /\ open = NoMatch
  /\ written = 0
  /\ copied = <<>>
  /\ echoed = <<>>
  /\ calls = <<>>
  /\ removed = {}

IsOpen == open # NoMatch

(* input[from..to]                                                         *)
Slice(from, to) == [i \in 1 .. to - from |-> Input(from + i)]

(* The first handler, in registration order, that matches.                 *)
FirstMatch(e) == CHOOSE h \in e.by : \A g \in e.by : h <= g

(* The event is added to the subtree being read; the builder is then at    *)
(* depth d.                                                                *)
Hold(d) ==
  /\ open' = [open EXCEPT !.held = Append(@, Here), !.depth = d]
  /\ UNCHANGED <<written, copied, echoed, calls, removed>>

(* An event outside every match.  CopyOutput copies it with its range.     *)
Unmatched ==
  /\ echoed' = Append(echoed, Input(Here))
  /\ UNCHANGED <<open, written, copied, calls, removed>>

(* match_start at the tag being read.                                      *)
CopiedUpToMatch == copied \o Slice(written, Here - 1)

(* The copied range is not marked as written off.                          *)
NodeWrittenOnly(h, held, before, gone) ==
  /\ calls' = Append(calls, [handler |-> h, held |-> held])
  /\ copied' = IF gone THEN before ELSE Append(before, Node(Head(held)))
  /\ echoed' = IF gone THEN echoed ELSE Append(echoed, Node(Head(held)))
  /\ removed' = IF gone THEN removed \cup {Head(held)} ELSE removed
  /\ open' = NoMatch
  /\ UNCHANGED written

(* The callback edits, or removes, the subtree; match_end writes it.       *)
CallAndWrite(h, held, before, gone) ==
  /\ calls' = Append(calls, [handler |-> h, held |-> held])
  /\ copied' = IF gone THEN before ELSE Append(before, Node(Head(held)))
  /\ echoed' = IF gone THEN echoed ELSE Append(echoed, Node(Head(held)))
  /\ removed' = IF gone THEN removed \cup {Head(held)} ELSE removed
  /\ open' = NoMatch
  /\ written' = Here

(* A start tag inside a match opens a match of its own.                    *)
StartEveryMatch(e) ==
  /\ e.kind = "start"
  /\ IF e.by # {}
     THEN /\ open' = [handler |-> FirstMatch(e), held |-> <<Here>>, depth |-> 1]
          /\ copied' = CopiedUpToMatch
          /\ UNCHANGED <<written, echoed, calls, removed>>
     ELSE IF IsOpen THEN Hold(open.depth + 1) ELSE Unmatched

StartTag(e) ==
  /\ e.kind = "start"
  /\ \/ IsOpen /\ Hold(open.depth + 1)
     \/ /\ ~IsOpen /\ e.by # {}
        /\ open' = [handler |-> FirstMatch(e), held |-> <<Here>>, depth |-> 1]
        /\ copied' = CopiedUpToMatch
        /\ UNCHANGED <<written, echoed, calls, removed>>
     \/ ~IsOpen /\ e.by = {} /\ Unmatched

EmptyTag(e) ==
  /\ e.kind = "empty"
  /\ \/ IsOpen /\ Hold(open.depth)
     \/ /\ ~IsOpen /\ e.by # {}
        /\ \E gone \in BOOLEAN : CallAndWrite(FirstMatch(e), <<Here>>, CopiedUpToMatch, gone)
     \/ ~IsOpen /\ e.by = {} /\ Unmatched

EndTag(e) ==
  /\ e.kind = "end"
  /\ \/ IsOpen /\ open.depth > 1 /\ Hold(open.depth - 1)
     \/ /\ IsOpen /\ open.depth = 1
        /\ \E gone \in BOOLEAN : CallAndWrite(open.handler, Append(open.held, Here), copied, gone)
     \/ ~IsOpen /\ Unmatched

(* Text and the like; declarations and the doctype are echoed anywhere.    *)
Content(e) ==
  \/ e.kind = "text" /\ IsOpen /\ Hold(open.depth)
  \/ e.kind \in {"text", "ref"} /\ ~IsOpen /\ Unmatched
  \/ e.kind = "other" /\ Unmatched

RewriteEvent ==
  \E e \in Event :
    /\ Read(e)
    /\ StartTag(e) \/ EmptyTag(e) \/ EndTag(e) \/ Content(e)
    /\ UNCHANGED outcome

(* Inside a match, text is unescaped, and only the predefined entities are *)
(* known.                                                                  *)
RewriteUnknownEntity ==
  /\ IsOpen
  /\ \E e \in Event : e.kind = "ref" /\ CanFollow(e)
  /\ ReadError
  /\ UNCHANGED rewriteVars

(* A syntax error, or an I/O error, between two events.                    *)
RewriteError == ReadError /\ UNCHANGED rewriteVars

(* output.finish(), whether or not a match is open.                        *)
RewriteEof ==
  /\ Eof
  /\ copied' = copied \o Slice(written, Len(doc))
  /\ UNCHANGED <<open, written, echoed, calls, removed>>

RewriteNext == RewriteEvent \/ RewriteUnknownEntity \/ RewriteError \/ RewriteEof

RewriteSpec == EventsInit /\ RewriteInit /\ [][RewriteNext]_<<eventVars, rewriteVars>>

-------------------------------------------------------------------------------
(* Properties.                                                             *)

(* The end of the part of the input whose output is settled.               *)
Settled == IF IsOpen THEN Head(open.held) - 1 ELSE Len(doc)

(* Every byte once: at every moment both engines have written, or are      *)
(* about to copy, exactly the input read so far with the outermost matches *)
(* replaced, so that after an error the output is a prefix of the right    *)
(* one, and at the end both wrote the same (unless the input ends inside a *)
(* match).                                                                 *)
EachEventOnce ==
  LET right == Rewritten(doc, Settled, Handlers, removed)
  IN  ~(outcome = "ok" /\ IsOpen) =>
      /\ echoed = right
      /\ copied \o (IF IsOpen \/ outcome = "ok" THEN <<>> ELSE Slice(written, Len(doc))) = right

(* Each match once, first match wins: the calls are those of the outermost *)
(* complete matches, in document order, each made by the first handler     *)
(* that selects the element, each with all the events of the element.      *)
FirstMatchWins ==
  LET due == InOrder({s \in Outermost(doc, Handlers) : IsComplete(doc, s)})
  IN  /\ Len(calls) = Len(due)
      /\ \A i \in 1 .. Len(calls) :
           /\ calls[i].held = SubtreeEvents(doc, due[i])
           /\ calls[i].handler \in doc[due[i]].by
           /\ \A h \in doc[due[i]].by : calls[i].handler <= h

(* "Unmatched regions are copied verbatim": no part of the input is in the *)
(* output of a successful rewrite twice.                                   *)
NothingTwice ==
  outcome = "ok" => \A i, j \in 1 .. Len(copied) : i # j => copied[i] # copied[j]

==============================================================================
