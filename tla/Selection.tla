----------------------------- MODULE Selection -----------------------------
(***************************************************************************)
(* One document read twice: by the streaming engines, which keep the chain *)
(* of open elements and match each start tag against it                    *)
(* (transform/streaming/tracker.rs), and into a tree, on which the same    *)
(* XPath is evaluated.  The tags come from Tags; the document is built and *)
(* tracked as it is read.                                                  *)
(*                                                                         *)
(* The tracker's hash maps of counters are what they count: the start tags *)
(* seen at each level.  Attribute predicates read the attributes of the    *)
(* element; that the attribute axis also creates nodes for them is         *)
(* modelled in EditedTree.                                                 *)
(***************************************************************************)
EXTENDS DocumentTree

CONSTANTS
  Failed,       \* an evaluation on the tree returned an error
  NotStreamable,   \* what one pass cannot evaluate
  Registered,   \* the prefixes the caller bound, with their namespaces
  Tags,         \* the start tags a document may have
  XPaths,       \* the location paths it is asked for
  MaxElements, MaxDepth, MaxTexts

----------------------------------------------------------------------------
(* Location paths on the tree (xpath/axes.rs, xpath/evaluator/mod.rs).  A  *)
(* result is a sequence of nodes; an evaluation that fails is Failed.      *)

\* A step: an axis, a node test and predicates.  A test or an attribute is
\* a prefix and a local name, either of which may be None (absent, or *).
Step(axis, test, preds) == [axis |-> axis, test |-> test, preds |-> preds]

ElementTest(prefix, local) == [kind |-> "element", prefix |-> prefix, local |-> local]
AnyNode == [kind |-> "node", prefix |-> None, local |-> None]
TextTest == [kind |-> "text", prefix |-> None, local |-> None]

----------------------------------------------------------------------------
(* Axes. *)

\* What follows x in the sequence: nothing if x is not in it.
After(seq, x) ==
  LET at == {i \in DOMAIN seq : seq[i] = x}
  IN  IF at = {} THEN <<>> ELSE SubSeq(seq, 1 + CHOOSE i \in at : TRUE, Len(seq))

\* What precedes x: everything if x is not in it, since the loop ends at x.
Before(seq, x) ==
  LET at == {i \in DOMAIN seq : seq[i] = x}
  IN  IF at = {} THEN seq ELSE SubSeq(seq, 1, (CHOOSE i \in at : TRUE) - 1)

SiblingList(nodes, n) ==
  IF nodes[n].parent = None THEN <<n>> ELSE nodes[nodes[n].parent].children

FollowingSibling(nodes, n) == After(SiblingList(nodes, n), n)

PrecedingSibling(nodes, n) == Reverse(Before(SiblingList(nodes, n), n))

\* Mutant: only what follows the node under its own parent.
FollowingLocal(nodes, n) ==
  FlattenSeq([s \in DOMAIN FollowingSibling(nodes, n) |-> Walk(nodes, FollowingSibling(nodes, n)[s])])

\* From the node outwards, the later siblings with all that is below them.
Following(nodes, n) ==
  LET outwards == <<n>> \o Ancestors(nodes, n)
      roots == FlattenSeq([a \in DOMAIN outwards |-> FollowingSibling(nodes, outwards[a])])
  IN  FlattenSeq([r \in DOMAIN roots |-> Walk(nodes, roots[r])])

\* A subtree backwards: what is below a node comes before it.
RECURSIVE WalkBack(_, _, _)
WalkBack(nodes, id, skip) ==
  IF id \in skip THEN <<>>
  ELSE LET back == Reverse(nodes[id].children)
       IN  FlattenSeq([c \in DOMAIN back |-> WalkBack(nodes, back[c], skip)]) \o <<id>>

Preceding(nodes, n) ==
  LET outwards == <<n>> \o Ancestors(nodes, n)
      roots == FlattenSeq([a \in DOMAIN outwards |-> PrecedingSibling(nodes, outwards[a])])
  IN  FlattenSeq([r \in DOMAIN roots |-> WalkBack(nodes, roots[r], ToSet(outwards))])

SelectAxis(nodes, axis, n) ==
  CASE axis = "self"               -> <<n>>
    [] axis = "child"              -> nodes[n].children
    [] axis = "descendant"         -> Tail(Walk(nodes, n))
    [] axis = "descendant-or-self" -> Walk(nodes, n)
    [] axis = "parent"             -> SubSeq(Ancestors(nodes, n), 1, 1)
    [] axis = "ancestor"           -> Ancestors(nodes, n)
    [] axis = "ancestor-or-self"   -> <<n>> \o Ancestors(nodes, n)
    [] axis = "following-sibling"  -> FollowingSibling(nodes, n)
    [] axis = "preceding-sibling"  -> PrecedingSibling(nodes, n)
    [] axis = "following"          -> Following(nodes, n)
    [] axis = "preceding"          -> Preceding(nodes, n)

----------------------------------------------------------------------------
(* Node tests.  The prefixes are what the evaluator's resolver binds. *)

Bound(prefixes, p) == p \in DOMAIN prefixes

\* The name as written; it decides where the namespace is not known.
Spelled(node, test) == node.prefix = test.prefix /\ test.local \in {None, node.name}

MatchesElement(node, test, prefixes) ==
  CASE test.prefix = None -> test.local \in {None, node.name}
    [] test.prefix # None /\ Bound(prefixes, test.prefix) /\ node.ns # None ->
         node.ns = prefixes[test.prefix] /\ test.local \in {None, node.name}
    [] OTHER -> Spelled(node, test)

MatchesTest(node, test, prefixes) ==
  CASE test.kind = "node"    -> TRUE
    [] test.kind = "text"    -> node.type = "text"
    [] test.kind = "element" -> node.type = "element" /\ MatchesElement(node, test, prefixes)

\* A prefix bound to nothing is an error, unless the node has that very name.
TestFails(node, test, prefixes) ==
  /\ test.kind = "element" /\ node.type = "element"
  /\ test.prefix # None /\ ~Bound(prefixes, test.prefix) /\ ~Spelled(node, test)

----------------------------------------------------------------------------
(* Predicates. *)

Compares(op, m, n) ==
  CASE op = "="  -> m = n
    [] op = "!=" -> m # n
    [] op = "<"  -> m < n
    [] op = "<=" -> m <= n
    [] op = ">"  -> m > n
    [] op = ">=" -> m >= n

\* The attributes @prefix:local selects: a bare name falls back on a
\* prefixed attribute, a prefix means its namespace.
AttributeStep(node, prefix, local, prefixes) ==
  IF prefix = None
  THEN {i \in {FindAttr(node.attrs, None, local)} : i # 0}
  ELSE {i \in DOMAIN node.attrs : node.attrs[i].ns = prefixes[prefix] /\ node.attrs[i].name = local}

AttributeFails(node, pred, prefixes) ==
  node.type = "element" /\ pred.prefix # None /\ ~Bound(prefixes, pred.prefix)

\* A comparison holds if it does for one selected attribute.
AttributeHolds(node, pred, prefixes) ==
  /\ node.type = "element"
  /\ \E i \in AttributeStep(node, pred.prefix, pred.local, prefixes) :
       pred.op = "exists" \/ Compares(pred.op, node.attrs[i].value, pred.value)

\* namespace-uri(): the empty string where there is none.
Uri(node) == IF node.ns = None THEN "" ELSE node.ns

Holds(nodes, pred, n, position, size, prefixes) ==
  CASE pred.kind = "position"  -> Compares(pred.op, position, pred.n)
    [] pred.kind = "last"      -> position = size
    [] pred.kind = "attribute" -> AttributeHolds(nodes[n], pred, prefixes)
    [] pred.kind = "not"       -> ~AttributeHolds(nodes[n], pred, prefixes)
    [] pred.kind = "uri"       -> Uri(nodes[n]) = pred.uri
    [] pred.kind = "local"     -> nodes[n].name = pred.local

PredicateFails(nodes, pred, n, prefixes) ==
  pred.kind \in {"attribute", "not"} /\ AttributeFails(nodes[n], pred, prefixes)

\* Each predicate filters what the one before it left, and counts in that.
ApplyPredicate(nodes, pred, selected, prefixes) ==
  IF \E i \in DOMAIN selected : PredicateFails(nodes, pred, selected[i], prefixes) THEN Failed
  ELSE LET kept == {i \in DOMAIN selected :
                      Holds(nodes, pred, selected[i], i, Len(selected), prefixes)}
       IN  SelectSeq([i \in DOMAIN selected |-> IF i \in kept THEN selected[i] ELSE 0],
                     LAMBDA n : n # 0)

----------------------------------------------------------------------------
(* Steps and paths. *)

EvalStep(nodes, step, n, prefixes) ==
  LET candidates == SelectAxis(nodes, step.axis, n)
      tested == SelectSeq(candidates, LAMBDA m : MatchesTest(nodes[m], step.test, prefixes))
  IN  IF \E c \in ToSet(candidates) : TestFails(nodes[c], step.test, prefixes) THEN Failed
      ELSE FoldLeft(LAMBDA sel, pred :
                      IF sel = Failed THEN Failed ELSE ApplyPredicate(nodes, pred, sel, prefixes),
                    tested, step.preds)

\* Each node once, at its first place.
Distinct(seq) ==
  FoldLeft(LAMBDA out, n : IF n \in ToSet(out) THEN out ELSE Append(out, n), <<>>, seq)

EvalFrom(nodes, step, starts, prefixes) ==
  LET each == [i \in DOMAIN starts |-> EvalStep(nodes, step, starts[i], prefixes)]
  IN  IF \E i \in DOMAIN each : each[i] = Failed THEN Failed ELSE Distinct(FlattenSeq(each))

\* Node numbers follow document order in a parsed document.
InDocumentOrder(seq) == SortSeq(seq, LAMBDA m, n : m < n)

EvalSteps(nodes, steps, starts, prefixes) ==
  LET end == FoldLeft(LAMBDA sel, step :
                        IF sel = Failed THEN Failed ELSE EvalFrom(nodes, step, sel, prefixes),
                      starts, steps)
  IN  IF end = Failed THEN Failed ELSE InDocumentOrder(end)

\* An absolute path starts at the document, a relative one at the root element.
Evaluate(nodes, xpath, prefixes) ==
  EvalSteps(nodes, xpath.steps, <<IF xpath.absolute THEN 1 ELSE RootElement(nodes)>>, prefixes)

----------------------------------------------------------------------------
(* Which location paths one pass over a document can evaluate, and the     *)
(* simpler form they are matched in (transform/xpath_analyze.rs).          *)

BackwardAxes == {"parent", "ancestor", "ancestor-or-self", "preceding", "preceding-sibling"}

\* The step that `//` stands for.
IsAnyDescendant(step) ==
  step.axis = "descendant-or-self" /\ step.test = AnyNode /\ step.preds = <<>>

\* Only equality with a string is a test of one attribute; != "" is kept to
\* mean that the attribute exists.
AttributeIsStreamable(pred) ==
  pred.op \in {"=", "exists"} \/ (pred.op = "!=" /\ pred.value # "")

\* A position counts siblings only as the first predicate of a child step.
PositionIsStreamable(step, i) ==
  i = 1 /\ step.axis # "descendant" /\ step.preds[i].op # "!="

PredsOf(step, kind) == SelectSeq(step.preds, LAMBDA p : p.kind = kind)

PredicateIsStreamable(step, i) ==
  LET pred == step.preds[i]
  IN  CASE pred.kind = "attribute" -> AttributeIsStreamable(pred)
        [] pred.kind = "position"  -> PositionIsStreamable(step, i)
        [] pred.kind = "uri"       -> Len(PredsOf(step, "uri")) = 1
        [] pred.kind = "local"     -> Len(PredsOf(step, "local")) = 1 /\ step.test.local = None
        [] OTHER                   -> FALSE

StepIsStreamable(step) ==
  /\ step.test.kind = "element"
  /\ \A i \in DOMAIN step.preds : PredicateIsStreamable(step, i)
  /\ PredsOf(step, "local") = <<>> \/ PredsOf(step, "position") = <<>>

FirstOrNone(preds, default, Field(_)) == IF preds = <<>> THEN default ELSE Field(Head(preds))

\* local-name()='x' joins the node test.
AnalyzeStep(step, deep) ==
  [deep |-> deep,
   prefix |-> step.test.prefix,
   local |-> FirstOrNone(PredsOf(step, "local"), step.test.local, LAMBDA p : p.local),
   uris |-> {p.uri : p \in ToSet(PredsOf(step, "uri"))},
   attributes |-> PredsOf(step, "attribute"),
   position |-> FirstOrNone(PredsOf(step, "position"), None, LAMBDA p : p)]

\* One more step: `//` only marks the next one.
AnalyzeNext(found, step) ==
  IF found = NotStreamable \/ step.axis \in BackwardAxes THEN NotStreamable
  ELSE IF IsAnyDescendant(step) THEN [found EXCEPT !.pending = TRUE]
  ELSE IF step.axis \notin {"child", "descendant"} \/ ~StepIsStreamable(step) THEN NotStreamable
  ELSE [pending |-> FALSE,
        steps |-> Append(found.steps,
                         AnalyzeStep(step, step.axis = "descendant" \/ found.pending))]

Analyze(xpath) ==
  LET found == FoldLeft(AnalyzeNext, [pending |-> FALSE, steps |-> <<>>], xpath.steps)
  IN  IF found = NotStreamable \/ found.pending \/ found.steps = <<>> THEN NotStreamable
      ELSE [steps |-> found.steps, absolute |-> xpath.absolute]

HasPositionPredicates(plan) == \E i \in DOMAIN plan.steps : plan.steps[i].position # None

----------------------------------------------------------------------------
(* The document and its readers. *)

VARIABLES
  path,         \* the open elements, outermost first
  counters,     \* the children seen so far: of the document, then of each open element
  nodes,        \* the tree
  stack,        \* the open nodes
  matched       \* matched[x]: the elements x selected while reading

trackerVars == <<path, counters>>

\* A start tag as read: xmlns declarations are kept beside the attributes.
Tag(prefix, name, attrs, decls) ==
  [prefix |-> prefix, name |-> name, attrs |-> attrs, decls |-> decls]

TrackerInit == path = <<>> /\ counters = <<<<>>>>

----------------------------------------------------------------------------
(* Namespaces in scope. *)

DeclaredBy(decls, prefix) == {i \in DOMAIN decls : decls[i].prefix = prefix}

\* The declaration of the nearest element, from the last of the chain.
InScope(chain, prefix) ==
  LET declaring == {i \in DOMAIN chain : DeclaredBy(chain[i].decls, prefix) # {}}
      nearest == CHOOSE i \in declaring : \A j \in declaring : j <= i
      decls == chain[nearest].decls
  IN  IF declaring = {} THEN None
      ELSE decls[CHOOSE d \in DeclaredBy(decls, prefix) : TRUE].uri

\* The namespace of an element: xmlns="" takes the default one away.
NamespaceOf(chain, tag) ==
  LET uri == InScope(chain, IF tag.prefix = None THEN "" ELSE tag.prefix)
  IN  IF uri = "" THEN None ELSE uri

\* A prefix of the XPath: the caller's binding, else the root element's.
ResolveXPathPrefix(prefix) ==
  IF prefix \in DOMAIN Registered THEN Registered[prefix]
  ELSE IF path = <<>> THEN None ELSE InScope(<<path[1]>>, prefix)

----------------------------------------------------------------------------
(* Positions among the siblings so far. *)

CountSame(seen, info, Key(_)) == Len(SelectSeq(seen, LAMBDA other : Key(other) = Key(info)))

\* The kind of sibling counted follows the node test; without a position
\* predicate only names as written are counted.
PositionsAt(seen, info, tracked) ==
  LET Count(Key(_)) == CountSame(seen, info, Key)
  IN  [any      |-> Len(seen),
       qname    |-> Count(LAMBDA t : <<t.prefix, t.name>>),
       local    |-> IF tracked THEN Count(LAMBDA t : t.name) ELSE 0,
       expanded |-> IF tracked THEN Count(LAMBDA t : <<t.ns, t.name>>) ELSE 0,
       uri      |-> IF tracked THEN Count(LAMBDA t : t.ns) ELSE 0,
       prefix   |-> IF tracked THEN Count(LAMBDA t : t.prefix) ELSE 0]

Name(tag, uri) == [prefix |-> tag.prefix, name |-> tag.name, ns |-> uri]

PushElement(tag, tracked) ==
  LET uri  == NamespaceOf(Append(path, tag), tag)
      info == Name(tag, uri)
      seen == Append(Last(counters), info)
  IN  /\ path' = Append(path, [ns |-> uri, positions |-> PositionsAt(seen, info, tracked)] @@ tag)
      /\ counters' = Append([counters EXCEPT ![Len(counters)] = seen], <<>>)

\* Mutant: the children of the element that closes go on being counted.
PopElementKeepingCounters ==
  /\ path' = Front(path)
  /\ counters' = Append(Front(Front(counters)), counters[Len(counters)])

PopElement ==
  /\ path' = Front(path)
  /\ counters' = Front(counters)

----------------------------------------------------------------------------
(* Matching. *)

\* @prefix:local by namespace, where the prefix is bound; otherwise by the
\* name as written.
AttributeValues(element, chain, pred) ==
  LET attrs == element.attrs
      uri   == IF pred.prefix = None THEN None ELSE ResolveXPathPrefix(pred.prefix)
      named == {i \in DOMAIN attrs : attrs[i].name = pred.local}
      found == IF uri = None THEN {i \in named : attrs[i].prefix = pred.prefix}
               ELSE {i \in named : attrs[i].prefix # None /\ InScope(chain, attrs[i].prefix) = uri}
  IN  {attrs[i].value : i \in found}

MatchesAttribute(element, chain, pred) ==
  \E v \in AttributeValues(element, chain, pred) :
    pred.op = "exists" \/ Compares(pred.op, v, pred.value)

\* The counter of the node test.
PositionFor(positions, step) ==
  LET bound == step.prefix # None /\ ResolveXPathPrefix(step.prefix) # None
  IN  CASE step.prefix = None /\ step.local = None -> positions.any
        [] step.prefix = None /\ step.local # None -> positions.local
        [] bound /\ step.local # None              -> positions.expanded
        [] bound /\ step.local = None              -> positions.uri
        [] step.prefix # None /\ ~bound /\ step.local # None -> positions.qname
        [] step.prefix # None /\ ~bound /\ step.local = None -> positions.prefix

NameMatches(element, step) ==
  LET uri == IF step.prefix = None THEN None ELSE ResolveXPathPrefix(step.prefix)
  IN  /\ step.prefix # None =>
           IF uri # None THEN element.ns = uri ELSE element.prefix = step.prefix
      /\ step.local \in {None, element.name}

StepMatches(step, i) ==
  /\ NameMatches(path[i], step)
  /\ \A u \in step.uris : Uri(path[i]) = u
  /\ step.position # None =>
       Compares(step.position.op, PositionFor(path[i].positions, step), step.position.n)
  /\ \A a \in DOMAIN step.attributes :
       MatchesAttribute(path[i], SubSeq(path, 1, i), step.attributes[a])

\* The open elements the first step can select.
FirstReached(step, base) ==
  {i \in DOMAIN path : (IF step.deep THEN i > base ELSE i = base + 1) /\ StepMatches(step, i)}

NextReached(reached, step) ==
  {i \in DOMAIN path : /\ IF step.deep THEN \E j \in reached : j < i ELSE i - 1 \in reached
                       /\ StepMatches(step, i)}

\* Is the innermost open element selected?
Matches(plan) ==
  LET steps == plan.steps
      depth == Len(path)
      base  == IF plan.absolute THEN 0 ELSE 1
  IN  /\ depth > base
      /\ StepMatches(Last(steps), depth)
      /\ (\E s \in DOMAIN steps : steps[s].deep) \/ depth = base + Len(steps)
      /\ depth \in FoldLeft(NextReached, FirstReached(Head(steps), base), Tail(steps))

----------------------------------------------------------------------------
(* The document, read. *)

vars == <<nodes, stack, matched, path, counters>>

Streamable == {x \in XPaths : Analyze(x) # NotStreamable}

Plan == [x \in Streamable |-> Analyze(x)]

Init ==
  /\ nodes = EmptyDocument
  /\ stack = <<1>>
  /\ matched = [x \in Streamable |-> {}]
  /\ TrackerInit

Count(type) == Cardinality({i \in DOMAIN nodes : nodes[i].type = type})

Finished == RootElement(nodes) # None /\ Len(stack) = 1

\* The parser resolves names against the declarations around them.
TreeNode(tag) ==
  LET chain == Append(path, tag)
  IN  StartNode(tag.name, tag.prefix, NamespaceOf(chain, tag),
                [i \in DOMAIN tag.attrs |->
                   Attr(tag.attrs[i].prefix, tag.attrs[i].name,
                        IF tag.attrs[i].prefix = None THEN None
                        ELSE InScope(chain, tag.attrs[i].prefix),
                        tag.attrs[i].value)],
                tag.decls)

\* Every prefix is bound, as the parser demands.
PrefixesBound(tag) ==
  \A p \in {tag.prefix} \cup {tag.attrs[i].prefix : i \in DOMAIN tag.attrs} :
    p = None \/ InScope(Append(path, tag), p) # None

ReadStart ==
  /\ ~Finished /\ Count("element") < MaxElements /\ Len(stack) <= MaxDepth
  /\ \E tag \in Tags :
       /\ PrefixesBound(tag)
       /\ nodes' = Attach(nodes, stack, TreeNode(tag))
       /\ PushElement(tag, \E x \in Streamable : HasPositionPredicates(Plan[x]))
  /\ stack' = Append(stack, Len(nodes) + 1)
  /\ matched' = [x \in Streamable |->
                   IF Matches(Plan[x])' THEN matched[x] \cup {Len(nodes) + 1} ELSE matched[x]]

ReadEnd ==
  /\ Len(stack) > 1
  /\ stack' = Front(stack)
  /\ PopElement
  /\ UNCHANGED <<nodes, matched>>

ReadText ==
  /\ Len(stack) > 1 /\ Count("text") < MaxTexts
  /\ nodes' = Attach(nodes, stack, Leaf("text", "t"))
  /\ UNCHANGED <<stack, matched, path, counters>>

Done == Finished /\ UNCHANGED vars

Next == ReadStart \/ ReadEnd \/ ReadText \/ Done

Spec == Init /\ [][Next]_vars

----------------------------------------------------------------------------
(* Properties. *)

\* What the evaluator binds: the root element's declarations and, above
\* them, the caller's.
Bindings ==
  LET decls == nodes[RootElement(nodes)].decls
  IN  Registered @@ [p \in {decls[i].prefix : i \in DOMAIN decls} |->
                       decls[CHOOSE i \in DeclaredBy(decls, p) : TRUE].uri]

\* The evaluator lets @id find p:id where there is no id, the matcher does
\* not (README).
BareTests(xpath) ==
  UNION {{step.preds[i].local : i \in {j \in DOMAIN step.preds :
            step.preds[j].kind = "attribute" /\ step.preds[j].prefix = None}}
         : step \in ToSet(xpath.steps)}

OnlyPrefixed(name) ==
  \E n \in DOMAIN nodes :
    LET named == {i \in DOMAIN nodes[n].attrs : nodes[n].attrs[i].name = name}
    IN  named # {} /\ \A i \in named : nodes[n].attrs[i].prefix # None

\* "A streamable XPath selects the same elements as the DOM evaluator"
\* (tracker.rs), where that one does not fail on a prefix: matching the
\* chain of open elements against counters finds what evaluating the path
\* on the whole tree finds.
SameSelection ==
  Finished =>
    \A x \in Streamable :
      LET selected == Evaluate(nodes, x, Bindings)
      IN  selected = Failed \/ (\E a \in BareTests(x) : OnlyPrefixed(a))
          \/ matched[x] = ToSet(selected)

\* The axes by document order and parent links alone: nodes are numbered in
\* document order.
Up(n) == {m \in DOMAIN nodes : m \in ToSet(Ancestors(nodes, n))}

Below(n) == {m \in DOMAIN nodes : n \in Up(m)}

AxisSet(axis, n) ==
  LET siblings == {m \in DOMAIN nodes : nodes[m].parent = nodes[n].parent}
  IN  CASE axis = "child"             -> {m \in DOMAIN nodes : nodes[m].parent = n}
        [] axis = "descendant"        -> Below(n)
        [] axis = "ancestor"          -> Up(n)
        [] axis = "following"         -> {m \in DOMAIN nodes : m > n} \ Below(n)
        [] axis = "preceding"         -> {m \in DOMAIN nodes : m < n} \ Up(n)
        [] axis = "following-sibling" -> {m \in siblings : m > n}
        [] axis = "preceding-sibling" -> {m \in siblings : m < n}

Ascending(set) == SetToSortSeq(set, LAMBDA m, n : m < n)

\* Forward axes run in document order, reverse axes against it, and none
\* misses a node or has one twice: positions in predicates count on it.
AxesInOrder ==
  Finished =>
    \A n \in DOMAIN nodes :
      /\ \A axis \in {"child", "descendant", "following", "following-sibling"} :
           SelectAxis(nodes, axis, n) = Ascending(AxisSet(axis, n))
      /\ \A axis \in {"ancestor", "preceding", "preceding-sibling"} :
           SelectAxis(nodes, axis, n) = Reverse(Ascending(AxisSet(axis, n)))
=============================================================================
