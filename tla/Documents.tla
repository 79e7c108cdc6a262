----------------------------- MODULE Documents -----------------------------
(***************************************************************************)
(* From bytes to a document.  One stage turns bytes into the text that is  *)
(* parsed (InputReader); the other, below, is one parse: the event loops   *)
(* of parser/mod.rs (which builds a document) and event.rs (which calls a  *)
(* handler per event).  The two loops run the same checks and the same     *)
(* expansion in the same order; here they run once and feed both sinks,    *)
(* nodes and events.                                                       *)
(*                                                                         *)
(* The tokenizer (quick-xml) is external: it delivers any sequence of      *)
(* events in which end tags match start tags.  A reference to an entity    *)
(* whose replacement text has markup interrupts the text it stands in: the *)
(* replacement is tokenized and handled as content.  work is that call     *)
(* stack, of segments still to deliver and of fragments being read.        *)
(*                                                                         *)
(* Namespace bindings are kept twice: by the well-formedness checker       *)
(* (checks.rs: a stack of URIs per prefix, an undo list, and the answer to *)
(* the last question) and by the DOM builder (parser/mod.rs: one list of   *)
(* bindings, a mark per open element, and a memo of answers).  The URI     *)
(* Unbind stands for the empty string.                                     *)
(*                                                                         *)
(* Text is a sequence of items: a character, a reference, a start tag, an  *)
(* end tag or a CDATA section.  A tag is named; Tags says what its name,   *)
(* its namespace declarations and its attributes are.  Which declarations  *)
(* of a DOCTYPE are kept is entities.rs, how references in text and in     *)
(* attribute values are expanded is expand.rs.                             *)
(***************************************************************************)
EXTENDS DocumentTree, InputReader

CONSTANTS Tags,   \* tag -> [name, prefix, binds, attrs]
          Limit   \* MAX_ENTITY_EXPANSION

ASSUME LimitAssumption == Limit \in Nat

Char(c)  == [is |-> "char",  what |-> c]
Ref(e)   == [is |-> "ref",   what |-> e]
Open(t)  == [is |-> "open",  what |-> t]
Close(t) == [is |-> "close", what |-> t]
CData(s) == [is |-> "cdata", what |-> s]

IsMarkup(item) == item.is \in {"open", "close", "cdata"}
HasMarkup(text) == \E i \in DOMAIN text : IsMarkup(text[i])

NoEntities == [replacements |-> <<>>, external |-> {}]

----------------------------------------------------------------------------
(* Declarations: dtd.decls lists [name, kind, text]; dtd.hidden says that  *)
(* an external subset or a parameter-entity reference may declare more.    *)

DeclaredNames(dtd) == {dtd.decls[i].name : i \in DOMAIN dtd.decls}

\* The first internal declaration of a name is the one that counts.
FirstInternal(dtd, e) ==
  LET is == {i \in DOMAIN dtd.decls : dtd.decls[i].name = e /\ dtd.decls[i].kind = "internal"}
  IN  IF is = {} THEN 0 ELSE CHOOSE i \in is : \A j \in is : i <= j

Replacements(dtd) ==
  [e \in {n \in DeclaredNames(dtd) : FirstInternal(dtd, n) # 0} |->
     dtd.decls[FirstInternal(dtd, e)].text]

\* External entities that are parsed, unless an internal one came first.
ExternalParsed(dtd) ==
  {e \in DeclaredNames(dtd) :
     \E i \in DOMAIN dtd.decls :
       /\ dtd.decls[i].name = e /\ dtd.decls[i].kind = "external"
       /\ FirstInternal(dtd, e) \notin 1..i}

\* The references in a replacement text, in attribute values too; the
\* content of a CDATA section has none.
References(text) ==
  FlattenSeq([i \in DOMAIN text |->
    CASE text[i].is = "ref"  -> <<text[i].what>>
      [] text[i].is = "open" ->
           LET as == Tags[text[i].what].attrs
           IN  FlattenSeq([a \in DOMAIN as |->
                 LET refs == SelectSeq(as[a].value, LAMBDA v : v.is = "ref")
                 IN  [r \in DOMAIN refs |-> refs[r].what]])
      [] OTHER -> <<>>])

\* Depth-first search with a memo: whether everything reachable from e is
\* declared and free of cycles.  Stops at the first reference that is not.
RECURSIVE Resolves(_, _, _, _)
Resolves(e, texts, declared, memo) ==
  IF e \in DOMAIN memo THEN [ok |-> memo[e] = "ok", memo |-> memo]
  ELSE LET visit(r, ref) ==
             IF ~r.ok THEN r
             ELSE IF ref \notin DOMAIN texts THEN [r EXCEPT !.ok = ref \in declared]
             ELSE Resolves(ref, texts, declared, r.memo)
           refs == References(texts[e])
           done == FoldLeft(visit,
                     [ok   |-> TRUE,
                      memo |-> [n \in DOMAIN memo \union {e} |->
                                  IF n = e THEN "in progress" ELSE memo[n]]],
                     refs)
       IN  [ok |-> done.ok, memo |-> [done.memo EXCEPT ![e] = IF done.ok THEN "ok" ELSE "bad"]]

\* parse_entity_declarations.  When every declaration is in sight, entities
\* that lead to a cycle or to an undeclared name are left out; order is the
\* order in which a hash map happens to list the names.
ParseDeclarations(dtd, order) ==
  LET texts  == Replacements(dtd)
      step(r, e) ==
        LET v == Resolves(e, texts, DeclaredNames(dtd), r.memo)
        IN  [memo |-> v.memo, kept |-> IF v.ok THEN r.kept \union {e} ELSE r.kept]
      kept   == IF dtd.hidden THEN DOMAIN texts
                ELSE FoldLeft(step, [memo |-> <<>>, kept |-> {}], order).kept
  IN  [replacements |-> [e \in kept |-> texts[e]], external |-> ExternalParsed(dtd)]

----------------------------------------------------------------------------
(* Expansion.  r carries what the expander and its caller change: the open *)
(* entities, the bytes expanded, the text so far, the segments so far and  *)
(* the error, "" for none.                                                 *)

Begin(open, expanded) ==
  [open |-> open, expanded |-> expanded, acc |-> <<>>, segments |-> <<>>, error |-> ""]

TextSegment(chars)  == [is |-> "text", chars |-> chars, name |-> ""]
MarkupSegment(e)    == [is |-> "markup", chars |-> <<>>, name |-> e]

Flush(r) ==
  IF r.acc = <<>> THEN r
  ELSE [r EXCEPT !.segments = Append(@, TextSegment(r.acc)), !.acc = <<>>]

\* Mutant: a reference costs nothing.
PushOpenFree(ents, r, e) ==
  IF e \in ToSet(r.open) THEN [r EXCEPT !.error = "recursion"]
  ELSE [r EXCEPT !.open = Append(@, e)]

PushOpen(ents, r, e) ==
  LET size == r.expanded + Len(ents.replacements[e])
  IN  IF e \in ToSet(r.open) THEN [r EXCEPT !.error = "recursion"]
      ELSE IF size > Limit THEN [r EXCEPT !.expanded = size, !.error = "limit"]
      ELSE [r EXCEPT !.expanded = size, !.open = Append(@, e)]

\* What becomes of a reference before its text is looked into.
Refused(ents, e) ==
  IF e \in DOMAIN ents.replacements THEN ""
  ELSE IF e \in ents.external THEN "external" ELSE "unknown"

\* Mutant: an entity in which something failed stays open.
CloseEntityOnSuccess(r) == IF r.error = "" THEN [r EXCEPT !.open = Front(@)] ELSE r

\* The entity opened last is closed, whatever happened in it.
CloseEntity(r) == [r EXCEPT !.open = Front(@)]

\* text_into: an entity with markup becomes a segment of its own, any other
\* is expanded in place.
RECURSIVE TextInto(_, _, _)
TextInto(ents, r, text) ==
  LET step(s, item) ==
        IF s.error # "" THEN s
        ELSE IF item.is = "char" THEN [s EXCEPT !.acc = Append(@, item.what)]
        ELSE LET e == item.what
                 p == PushOpen(ents, s, e)
             IN  IF Refused(ents, e) # "" THEN [s EXCEPT !.error = Refused(ents, e)]
                 ELSE IF HasMarkup(ents.replacements[e])
                   THEN [Flush(s) EXCEPT !.segments = Append(@, MarkupSegment(e))]
                 ELSE IF p.error # "" THEN p
                 ELSE CloseEntity(TextInto(ents, p, ents.replacements[e]))
  IN  FoldLeft(step, r, text)

\* expand_text: the segments of a text; plain text is one segment.
ExpandText(ents, open, expanded, text) ==
  LET r == TextInto(ents, Begin(open, expanded), text) IN IF r.error # "" THEN r ELSE Flush(r)

\* attr_into: everything is expanded in place, and no markup may come out.
RECURSIVE AttrInto(_, _, _)
AttrInto(ents, r, text) ==
  LET step(s, item) ==
        IF s.error # "" THEN s
        ELSE IF IsMarkup(item) THEN [s EXCEPT !.error = "markup"]
        ELSE IF item.is = "char" THEN [s EXCEPT !.acc = Append(@, item.what)]
        ELSE LET p == PushOpen(ents, s, item.what)
             IN  IF Refused(ents, item.what) # ""
                   THEN [s EXCEPT !.error = Refused(ents, item.what)]
                 ELSE IF p.error # "" THEN p
                 ELSE CloseEntity(AttrInto(ents, p, ents.replacements[item.what]))
  IN  FoldLeft(step, r, text)

\* expand_attr over all attributes of a tag in turn; values collects them.
ExpandAttrs(ents, open, expanded, attrs) ==
  LET step(r, a) ==
        LET v == AttrInto(ents, [r EXCEPT !.acc = <<>>], a.value)
        IN  IF r.error # "" THEN r ELSE [v EXCEPT !.segments = Append(@, v.acc)]
  IN  FoldLeft(step, Begin(open, expanded), attrs)

CONSTANTS Unbound,   \* the answer for a prefix nothing binds
          Unbind,    \* the empty namespace name
          Dtds,      \* document type declarations
          Texts,     \* runs of character data
          MaxEvents, \* bound on the events of the main reader
          MaxDepth   \* bound on its open elements

----------------------------------------------------------------------------
(* Namespace scopes: the checker's. *)

NoScopes == [scopes |-> <<>>, undo |-> <<>>, marks |-> <<>>, generation |-> 1,
             asked |-> [prefix |-> "", at |-> 0, bound |-> FALSE]]

OpenScope(s) == [s EXCEPT !.marks = Append(@, Len(s.undo))]

Bind(s, bind) ==
  [s EXCEPT !.scopes = [p \in DOMAIN @ \union {bind.prefix} |->
                          IF p \notin DOMAIN @ THEN <<bind.uri>>
                          ELSE IF p = bind.prefix THEN Append(@[p], bind.uri) ELSE @[p]],
            !.undo = Append(@, bind.prefix),
            !.generation = @ + 1]

\* Takes back, one by one, the declarations of the element that ends.
CloseScope(s) ==
  LET undo1(t, p) == [t EXCEPT !.scopes[p] = Front(@), !.undo = Front(@),
                               !.generation = @ + 1]
  IN  [FoldLeft(undo1, s, Reverse(SubSeq(s.undo, Last(s.marks) + 1, Len(s.undo))))
         EXCEPT !.marks = Front(@)]

\* The innermost URI of a prefix; the empty one unbinds it.
ResolveScoped(s, p) ==
  IF p \notin DOMAIN s.scopes \/ s.scopes[p] = <<>> THEN Unbound
  ELSE IF Last(s.scopes[p]) = Unbind THEN Unbound ELSE Last(s.scopes[p])

\* element_prefix_bound: the last answer serves again while nothing changed.
Ask(s, p) ==
  IF s.asked.at = s.generation /\ s.asked.prefix = p THEN s
  ELSE [s EXCEPT !.asked = [prefix |-> p, at |-> s.generation,
                            bound |-> ResolveScoped(s, p) # Unbound]]

----------------------------------------------------------------------------
(* The DOM builder's NamespaceStack. *)

EmptyStack == [bindings |-> <<>>, marks |-> <<>>, resolved |-> <<>>]

PushScope(n) == [n EXCEPT !.marks = Append(@, Len(n.bindings))]

Register(n, bind) == [n EXCEPT !.bindings = Append(@, bind), !.resolved = <<>>]

\* Mutant: the memo outlives the bindings it was made from.
PopScopeKeeping(n) ==
  LET mark == Last(n.marks)
  IN  [n EXCEPT !.marks = Front(@), !.bindings = SubSeq(@, 1, mark)]

PopScope(n) ==
  LET mark == Last(n.marks)
  IN  [n EXCEPT !.marks = Front(@),
                !.bindings = SubSeq(@, 1, mark),
                !.resolved = IF mark < Len(n.bindings) THEN <<>> ELSE @]

Innermost(bindings, p) ==
  LET is == {i \in DOMAIN bindings : bindings[i].prefix = p}
  IN  IF is = {} THEN Unbound
      ELSE bindings[CHOOSE i \in is : \A j \in is : j <= i].uri

\* resolve: the answer, remembered.
Answer(n, p) == IF p \in DOMAIN n.resolved THEN n.resolved[p] ELSE Innermost(n.bindings, p)

Remember(n, p) ==
  [n EXCEPT !.resolved = [q \in DOMAIN @ \union {p} |-> IF q = p THEN Answer(n, p) ELSE @[q]]]

----------------------------------------------------------------------------
VARIABLES given,     \* what the main reader delivered so far
          declared,  \* the DOCTYPE in it
          tags,      \* start tags the main reader saw no end tag for
          checker,   \* document structure: phase, depth, DOCTYPE seen or open
          scopes,    \* the checker's namespace scopes
          ents,      \* declared entities
          open,      \* EntityExpander.open
          expanded,  \* EntityExpander.expanded
          work,
          nodes, stack, ns,  \* the DOM builder's document, stack and bindings
          events,            \* what the streaming handler was given
          status, error

sinks == <<nodes, stack, ns, events>>
pvars == <<given, declared, tags, checker, scopes, ents, open, expanded, work, sinks, status, error>>

NoDtd == [hidden |-> FALSE, decls |-> <<>>]

Init ==
  /\ given = <<>> /\ declared = NoDtd /\ tags = <<>>
  /\ checker = [phase |-> "prolog", depth |-> 0, doctype |-> FALSE, pending |-> {}]
  /\ scopes = NoScopes
  /\ ents = NoEntities /\ open = <<>> /\ expanded = 0 /\ work = <<>>
  /\ nodes = EmptyDocument /\ stack = <<1>> /\ ns = EmptyStack /\ events = <<>>
  /\ status = "running" /\ error = ""

Reject(why) == status' = "rejected" /\ error' = why

Unchecked == UNCHANGED <<checker, scopes, ents, open, expanded, work, sinks>>

----------------------------------------------------------------------------
(* Handling one event, from the main reader or from a fragment; remaining  *)
(* is the call stack to go on with.                                        *)

\* DomBuilder.text, StreamSink.text.
EmitText(chars) ==
  /\ nodes' = Attach(nodes, stack, Leaf("text", chars))
  /\ events' = Append(events, [is |-> "text", what |-> chars, vals |-> <<>>])

Prefixed(t) == SelectSeq(Tags[t].attrs, LAMBDA a : a.prefix # None)

\* WellformedChecker.start: bind the tag's declarations, ask for its prefix,
\* resolve its attributes' prefixes, open the element.
Checked(t) ==
  LET bound == FoldLeft(Bind, OpenScope(scopes), Tags[t].binds)
      asked == IF Tags[t].prefix = None THEN bound ELSE Ask(bound, Tags[t].prefix)
      names == [i \in DOMAIN Prefixed(t) |->
                  <<ResolveScoped(bound, Prefixed(t)[i].prefix), Prefixed(t)[i].local>>]
  IN  [scopes |-> asked,
       error  |-> CASE checker.pending # {} -> "doctype"
                    [] checker.pending = {} /\ Tags[t].prefix # None /\ ~asked.asked.bound -> "unbound"
                    [] checker.pending = {} /\ \E i \in DOMAIN names : names[i][1] = Unbound -> "unbound"
                    [] checker.pending = {} /\ ~IsInjective(names) -> "duplicate"
                    [] checker.phase = "epilog" -> "second root"
                    [] OTHER -> ""]

\* start_element: the DOM side registers the declarations, resolves the
\* element's prefix and then those of its attributes.
Registered(t) == FoldLeft(Register, PushScope(ns), Tags[t].binds)
PrefixOf(t) == IF Tags[t].prefix = None THEN "" ELSE Tags[t].prefix
Asked(t) == FoldLeft(Remember, Registered(t),
                     <<PrefixOf(t)>> \o [i \in DOMAIN Prefixed(t) |-> Prefixed(t)[i].prefix])

Element(t, values) ==
  LET n == Registered(t)
      attrs == [i \in DOMAIN Tags[t].attrs |->
                  LET a == Tags[t].attrs[i]
                  IN  Attr(a.prefix, a.local,
                           IF a.prefix = None THEN None ELSE Answer(n, a.prefix), values[i])]
  IN  StartNode(t, Tags[t].prefix, Answer(n, PrefixOf(t)), attrs, Tags[t].binds)

HandleStart(t, remaining) ==
  LET c == Checked(t)
      x == ExpandAttrs(ents, open, expanded, Tags[t].attrs)
  IN \/ /\ c.error # "" /\ Reject(c.error) /\ Unchecked
     \/ /\ c.error = "" /\ scopes' = c.scopes
        /\ checker' = [checker EXCEPT !.phase = "root", !.depth = @ + 1]
        /\ open' = x.open /\ expanded' = x.expanded
        /\ \/ /\ x.error # "" /\ Reject(x.error) /\ UNCHANGED <<work, sinks>>
           \/ /\ x.error = "" /\ work' = remaining
              /\ ns' = Asked(t)
              /\ nodes' = Attach(nodes, stack, Element(t, x.segments))
              /\ stack' = Append(stack, Len(nodes) + 1)
              /\ events' = Append(events, [is |-> "open", what |-> t, vals |-> x.segments])
              /\ UNCHANGED <<status, error>>
        /\ UNCHANGED ents

HandleEnd(t, remaining) ==
  /\ scopes' = CloseScope(scopes)
  /\ checker' = [checker EXCEPT !.depth = @ - 1,
                                !.phase = IF checker.depth = 1 THEN "epilog" ELSE @]
  /\ ns' = PopScope(ns) /\ stack' = Front(stack)
  /\ events' = Append(events, [is |-> "close", what |-> t, vals |-> <<>>])
  /\ work' = remaining
  /\ UNCHANGED <<ents, open, expanded, nodes, status, error>>

IsSpace(text) == \A i \in DOMAIN text : text[i] = Char(" ")

\* Outside the root only white space is text.  Segments are delivered one by
\* one, after all of them have been computed.
HandleText(text, remaining) ==
  LET x == ExpandText(ents, open, expanded, text)
  IN \/ /\ checker.phase # "root" /\ ~IsSpace(text)
        /\ Reject("text outside") /\ Unchecked
     \/ /\ checker.phase = "root" \/ IsSpace(text)
        /\ open' = x.open /\ expanded' = x.expanded
        /\ \/ x.error # "" /\ Reject(x.error) /\ UNCHANGED work
           \/ /\ x.error = "" /\ UNCHANGED <<status, error>>
              /\ work' = Append(remaining, [is |-> "segments", name |-> "", depth |-> 0,
                                       tags |-> <<>>, left |-> x.segments])
        /\ UNCHANGED <<checker, scopes, ents, sinks>>

HandleCData(s, remaining) ==
  \/ checker.phase # "root" /\ Reject("cdata outside") /\ Unchecked
  \/ /\ checker.phase = "root" /\ work' = remaining
     /\ nodes' = Attach(nodes, stack, Leaf("cdata", <<s>>))
     /\ events' = Append(events, [is |-> "cdata", what |-> s, vals |-> <<>>])
     /\ UNCHANGED <<checker, scopes, ents, open, expanded, stack, ns, status, error>>

----------------------------------------------------------------------------
(* The main loop. *)

Read(what) ==
  /\ status = "running" /\ work = <<>> /\ Len(given) < MaxEvents
  /\ given' = given \o what

\* The DOCTYPE.  The tokenizer may cut it at a ">" inside a quoted literal;
\* the rest of the declaration then arrives as text.
Doctype(dtd, cut) ==
  /\ Read(<<[is |-> "doctype", what |-> IF cut THEN "cut" ELSE "whole"]>>)
  /\ IF checker.doctype \/ checker.phase # "prolog"
     THEN Reject("doctype") /\ UNCHANGED <<checker, ents, declared>>
     ELSE /\ declared' = dtd
          /\ \E order \in SetToSeqs(DOMAIN Replacements(dtd)) :
               ents' = IF cut THEN ents ELSE ParseDeclarations(dtd, order)
          /\ checker' = [checker EXCEPT !.doctype = TRUE,
                                        !.pending = IF cut THEN {dtd} ELSE {}]
          /\ UNCHANGED <<status, error>>
  /\ UNCHANGED <<tags, scopes, open, expanded, work, sinks>>

\* Text while the DOCTYPE is incomplete belongs to it, up to its "]" and ">";
\* here nothing follows those in the same piece of text.
DoctypeText(closes) ==
  /\ checker.pending # {}
  /\ Read(<<[is |-> "doctype", what |-> IF closes THEN "end" ELSE "more"]>>)
  /\ \E dtd \in checker.pending :
       \E order \in SetToSeqs(DOMAIN Replacements(dtd)) :
         ents' = IF closes THEN ParseDeclarations(dtd, order) ELSE ents
  /\ checker' = [checker EXCEPT !.pending = IF closes THEN {} ELSE @]
  /\ UNCHANGED <<declared, tags, scopes, open, expanded, work, sinks, status, error>>

StartTag(t) ==
  /\ Len(tags) < MaxDepth /\ Read(<<Open(t)>>)
  /\ tags' = Append(tags, t) /\ HandleStart(t, <<>>) /\ UNCHANGED declared

EndTag ==
  /\ tags # <<>> /\ Read(<<Close(Last(tags))>>)
  /\ tags' = Front(tags) /\ HandleEnd(Last(tags), <<>>) /\ UNCHANGED declared

Text(text) ==
  /\ checker.pending = {} /\ Read(text)
  /\ HandleText(text, <<>>) /\ UNCHANGED <<declared, tags>>

CDataSection ==
  /\ checker.pending = {} /\ Read(<<CData("raw")>>)
  /\ HandleCData("raw", <<>>) /\ UNCHANGED <<declared, tags>>

Eof ==
  /\ status = "running" /\ work = <<>>
  /\ given' = Append(given, [is |-> "eof", what |-> ""])
  /\ IF checker.pending # {} \/ checker.phase # "epilog"
     THEN Reject("unfinished") ELSE status' = "accepted" /\ UNCHANGED error
  /\ UNCHANGED <<declared, tags, checker, scopes, ents, open, expanded, work, sinks>>

----------------------------------------------------------------------------
(* Delivering segments and reading fragments. *)

Top == Last(work)
Below == Front(work)

Segment ==
  /\ status = "running" /\ work # <<>> /\ Top.is = "segments"
  /\ LET s == Head(Top.left)
         later == Append(Below, [Top EXCEPT !.left = Tail(@)])
         p == PushOpen(ents, Begin(open, expanded), s.name)
     IN \/ /\ Top.left = <<>> /\ work' = Below
           /\ UNCHANGED <<open, expanded, nodes, events, status, error>>
        \/ /\ Top.left # <<>> /\ s.is = "text" /\ EmitText(s.chars) /\ work' = later
           /\ UNCHANGED <<open, expanded, status, error>>
        \/ /\ Top.left # <<>> /\ s.is = "markup"
           /\ open' = p.open /\ expanded' = p.expanded
           /\ \/ p.error # "" /\ Reject(p.error) /\ UNCHANGED work
              \/ /\ p.error = "" /\ UNCHANGED <<status, error>>
                 /\ work' = Append(later, [is |-> "fragment", name |-> s.name,
                                           depth |-> checker.depth, tags |-> <<>>,
                                           left |-> ents.replacements[s.name]])
           /\ UNCHANGED <<nodes, events>>
  /\ UNCHANGED <<given, declared, tags, checker, scopes, ents, stack, ns>>

\* The text at the start of a fragment, up to its next markup.
Run(text) ==
  LET marks == {i \in DOMAIN text : IsMarkup(text[i])}
  IN  IF marks = {} THEN Len(text) ELSE (CHOOSE i \in marks : \A j \in marks : i <= j) - 1

\* The fragment's own reader has the next event; it checks end tags too.
Fragment ==
  /\ status = "running" /\ work # <<>> /\ Top.is = "fragment" /\ Top.left # <<>>
  /\ LET item == Head(Top.left)
         n    == Run(Top.left)
         closes == IF Top.tags = <<>> THEN FALSE ELSE Last(Top.tags) = item.what
         past(k, ts) == Append(Below, [Top EXCEPT !.left = SubSeq(@, k + 1, Len(@)),
                                                  !.tags = ts])
     IN \/ n > 0 /\ HandleText(SubSeq(Top.left, 1, n), past(n, Top.tags))
        \/ n = 0 /\ item.is = "open"
           /\ HandleStart(item.what, past(1, Append(Top.tags, item.what)))
        \/ n = 0 /\ item.is = "close" /\ closes
           /\ HandleEnd(item.what, past(1, Front(Top.tags)))
        \/ n = 0 /\ item.is = "close" /\ ~closes
           /\ Reject("end tag") /\ Unchecked
        \/ n = 0 /\ item.is = "cdata" /\ HandleCData(item.what, past(1, Top.tags))
  /\ UNCHANGED <<given, declared, tags>>

\* The end of the replacement text: check_balanced, then leave.
FragmentEnd ==
  /\ status = "running" /\ work # <<>> /\ Top.is = "fragment" /\ Top.left = <<>>
  /\ IF Top.depth # checker.depth
     THEN Reject("unbalanced") /\ UNCHANGED <<work, open>>
     ELSE /\ work' = Below /\ open' = Front(open)
          /\ UNCHANGED <<status, error>>
  /\ UNCHANGED <<given, declared, tags, checker, scopes, ents, expanded, sinks>>

Stopped == status # "running" /\ UNCHANGED pvars

Next ==
  \/ \E dtd \in Dtds, cut \in BOOLEAN : Doctype(dtd, cut)
  \/ \E closes \in BOOLEAN : DoctypeText(closes)
  \/ \E t \in DOMAIN Tags : StartTag(t)
  \/ EndTag
  \/ \E text \in Texts : Text(text)
  \/ CDataSection
  \/ Eof
  \/ Segment \/ Fragment \/ FragmentEnd
  \/ Stopped

----------------------------------------------------------------------------
(* Both stages.  They meet in the text alone, so a behaviour is one of     *)
(* either: of the reader over some input, or of the parser over some        *)
(* events.                                                                *)

VARIABLE stage   \* "bytes" or "events"

\* The parser has no state while bytes are read.
Unused(v) == v = "unused"

\* The stage that does not run stands still, the reader before any input.
DocumentsInit ==
  /\ ReaderInit
  /\ \/ /\ stage = "bytes"
        /\ Unused(given) /\ Unused(declared) /\ Unused(tags) /\ Unused(checker) /\ Unused(scopes)
        /\ Unused(ents) /\ Unused(open) /\ Unused(expanded) /\ Unused(work) /\ Unused(nodes)
        /\ Unused(stack) /\ Unused(ns) /\ Unused(events) /\ Unused(status) /\ Unused(error)
     \/ /\ stage = "events"
        /\ Init
        /\ input = CHOOSE any \in Inputs : TRUE

ReadBytes == stage = "bytes" /\ ReaderNext /\ UNCHANGED <<stage, pvars>>
ReadEvents == stage = "events" /\ Next /\ UNCHANGED <<stage, readerVars>>

DocumentsSpec == DocumentsInit /\ [][ReadBytes \/ ReadEvents]_<<stage, pvars, readerVars>>

----------------------------------------------------------------------------
(* Promises of the parser. *)

\* Nothing is left of the event the main reader delivered last.
Settled == work = <<>> \/ status # "running"

----------------------------------------------------------------------------
(* The included text. *)

Bad == [is |-> "bad", what |-> "", vals |-> <<>>]

Whole(dtd, e) == dtd.decls[FirstInternal(dtd, e)].text
Internal(dtd, e) == FirstInternal(dtd, e) # 0

Opens(s, i, k)  == Cardinality({j \in i..k : s[j].is = "open"})
Closes(s, i, k) == Cardinality({j \in i..k : s[j].is = "close"})

\* Every element a text opens closes in it, and the other way round.
Balanced(s) ==
  /\ Opens(s, 1, Len(s)) = Closes(s, 1, Len(s))
  /\ \A k \in DOMAIN s : s[k].is = "close" =>
       \E i \in 1..k - 1 : /\ s[i] = Open(s[k].what)
                           /\ Opens(s, i, k) = Closes(s, i, k)
                           /\ \A m \in i..k - 1 : Opens(s, i, m) > Closes(s, i, m)

\* An attribute value with its references replaced.
RECURSIVE Value(_, _, _)
Value(dtd, text, above) ==
  FlattenSeq([i \in DOMAIN text |->
    CASE text[i].is = "char" -> <<text[i].what>>
      [] text[i].is = "ref" /\ Internal(dtd, text[i].what) /\ text[i].what \notin above ->
           Value(dtd, Whole(dtd, text[i].what), above \union {text[i].what})
      [] OTHER -> <<"bad">>])

RECURSIVE Included(_, _, _)
Included(dtd, text, above) ==
  FlattenSeq([i \in DOMAIN text |->
    LET item == text[i]
        values == [a \in DOMAIN Tags[item.what].attrs |->
                     Value(dtd, Tags[item.what].attrs[a].value, above)]
    IN  CASE item.is \in {"doctype", "eof"} -> <<>>
          [] item.is = "ref" ->
               IF item.what \in above \/ ~Internal(dtd, item.what) THEN <<Bad>>
               ELSE IF ~Balanced(Whole(dtd, item.what)) THEN <<Bad>>
               ELSE Included(dtd, Whole(dtd, item.what), above \union {item.what})
          [] item.is = "open" ->
               IF \E a \in DOMAIN values : "bad" \in ToSet(values[a]) THEN <<Bad>>
               ELSE <<[is |-> "open", what |-> item.what, vals |-> values]>>
          [] OTHER -> <<[is |-> item.is, what |-> item.what, vals |-> <<>>]>>])

Inclusion == Included(declared, given, {})

\* How much replacement text the inclusion takes.
RECURSIVE Cost(_, _)
Cost(dtd, text) ==
  LET refs == References(text)
  IN  FoldLeft(LAMBDA n, e : n + Len(Whole(dtd, e)) + Cost(dtd, Whole(dtd, e)), 0, refs)

----------------------------------------------------------------------------
(* What makes a document well-formed, read off its text. *)

DepthBefore(s, i) == Opens(s, 1, i - 1) - Closes(s, 1, i - 1)

Roots(s, i) == {j \in 1..i - 1 : s[j].is = "open" /\ DepthBefore(s, j) = 0}

\* The DOCTYPE is still open at i.
Incomplete(s, i) ==
  \E j \in 1..i - 1 : /\ s[j].is = "doctype" /\ s[j].what \in {"cut", "more"}
                      /\ \A k \in j + 1 .. i - 1 : s[k].is # "doctype"

Shapely(s) ==
  \A i \in DOMAIN s :
    LET inside == DepthBefore(s, i) > 0
    IN  CASE s[i].is = "open" -> (inside \/ Roots(s, i) = {}) /\ ~Incomplete(s, i)
          [] s[i].is = "char" -> inside \/ s[i].what = " "
          [] s[i].is \in {"ref", "cdata"} -> inside
          [] s[i].is = "doctype" /\ s[i].what \in {"whole", "cut"} ->
               /\ Roots(s, i) = {}
               /\ \A j \in 1..i - 1 : s[j].is # "doctype"
          [] s[i].is = "eof" -> ~inside /\ Roots(s, i) # {} /\ ~Incomplete(s, i)
          [] OTHER -> TRUE

\* The elements around, and including, the one that opens at i.
Around(s, i) ==
  {j \in 1..i : s[j].is = "open" /\ \A k \in j..i : Opens(s, j, k) > Closes(s, j, k)}

\* What the declarations around i say of prefix p.
Meaning(s, i, p) ==
  LET declares == {j \in Around(s, i) : \E b \in ToSet(Tags[s[j].what].binds) : b.prefix = p}
      nearest  == CHOOSE j \in declares : \A k \in declares : k <= j
  IN  IF declares = {} THEN Unbound
      ELSE (CHOOSE b \in ToSet(Tags[s[nearest].what].binds) : b.prefix = p).uri

Named(s) ==
  \A i \in DOMAIN s : s[i].is = "open" =>
    LET t == Tags[s[i].what]
        used == {t.prefix} \union {t.attrs[a].prefix : a \in DOMAIN t.attrs}
    IN  /\ \A p \in used \ {None} : Meaning(s, i, p) \notin {Unbound, Unbind}
        /\ \A a, b \in DOMAIN t.attrs :
             (a # b /\ t.attrs[a].prefix # None /\ t.attrs[b].prefix # None
              /\ t.attrs[a].local = t.attrs[b].local)
             => Meaning(s, i, t.attrs[a].prefix) # Meaning(s, i, t.attrs[b].prefix)

WellFormed ==
  /\ Shapely(given)
  /\ Bad \notin ToSet(Inclusion)
  /\ Named(Inclusion)
  /\ Cost(declared, given) <= Limit

----------------------------------------------------------------------------
(* Properties. *)

\* Text events spelled out.
Spelled(es) ==
  FlattenSeq([i \in DOMAIN es |->
    IF es[i].is # "text" THEN <<es[i]>>
    ELSE [c \in DOMAIN es[i].what |-> [is |-> "char", what |-> es[i].what[c], vals |-> <<>>]]])

\* The document as events; elements still open have no end yet.
RECURSIVE Replay(_)
Replay(id) ==
  LET n == nodes[id]
      inner == FlattenSeq([c \in DOMAIN n.children |-> Replay(n.children[c])])
  IN  CASE n.type = "text"  -> <<[is |-> "text", what |-> n.content, vals |-> <<>>]>>
        [] n.type = "cdata" -> <<[is |-> "cdata", what |-> n.content[1], vals |-> <<>>]>>
        [] n.type = "document" -> inner
        [] n.type = "element" ->
             <<[is |-> "open", what |-> n.name,
                vals |-> [a \in DOMAIN n.attrs |-> n.attrs[a].value]]>> \o inner
             \o IF id \in ToSet(stack) THEN <<>>
                ELSE <<[is |-> "close", what |-> n.name, vals |-> <<>>]>>

\* A document is judged and delivered by what it stands for.  Whatever way
\* references are reached, in whatever order declarations are examined and
\* whether or not the DOCTYPE arrives whole, it is refused exactly when its
\* inclusion is not well-formed (recursive, unknown, external or unbalanced
\* entities, more expansion than allowed, unbound prefixes, content outside
\* the root); and the handler of a streaming parse and the document of a DOM
\* parse get the content of the inclusion, in its order and nothing else.
DeliversTheInclusion ==
  stage = "events" =>
    /\ Settled => (status = "rejected" <=> ~WellFormed)
    /\ Settled /\ status # "rejected" => Spelled(events) = Inclusion
    /\ Replay(1) = events

\* Every element and attribute of the document has the namespace that the
\* nearest declaration of its prefix, on itself or an ancestor, gives it,
\* whatever was resolved and remembered before.
NamespacesByAncestors ==
  stage = "events" => \A id \in DOMAIN nodes : nodes[id].type = "element" =>
    LET line == <<id>> \o Ancestors(nodes, id)
        declares(a, p) == \E b \in ToSet(nodes[a].decls) : b.prefix = p
        nearest(p) ==
          LET is == {k \in DOMAIN line : declares(line[k], p)}
          IN  IF is = {} THEN Unbound
              ELSE LET a == line[CHOOSE k \in is : \A m \in is : k <= m]
                   IN  (CHOOSE b \in ToSet(nodes[a].decls) : b.prefix = p).uri
    IN  /\ nodes[id].ns = nearest(IF nodes[id].prefix = None THEN "" ELSE nodes[id].prefix)
        /\ \A a \in ToSet(nodes[id].attrs) : a.prefix # None => a.ns = nearest(a.prefix)

\* The entities counted as open are the fragments being read, each once, also
\* after a failure: text and attributes close what they open.
OpenIsTheCallStack ==
  stage = "events" =>
  LET fragments == SelectSeq(work, LAMBDA w : w.is = "fragment")
  IN  /\ open = [i \in DOMAIN fragments |-> fragments[i].name]
      /\ IsInjective(open)
=============================================================================
