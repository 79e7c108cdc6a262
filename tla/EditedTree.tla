----------------------------- MODULE EditedTree -----------------------------
(***************************************************************************)
(* Editing a document in place (node/mutable.rs, transform/editable) while *)
(* XPath makes nodes for its attributes and namespaces (document.rs).  The *)
(* node array only grows: what an edit takes out of the tree stays in it,  *)
(* and its handles remain usable.                                          *)
(***************************************************************************)
EXTENDS DocumentTree

CONSTANTS
  Parsed,       \* the array after parsing
  Root,         \* the element an EditableNode holds
  Handles,      \* the nodes callers hold on to, in the tree or out of it
  Registered,   \* the namespaces registered with the transformer, by prefix
  Keys,         \* attribute names as callers write them
  Values, Texts,
  NewNodes,     \* what may be inserted
  Renames, Bindings,  \* element names (with prefix and namespace) and declarations
  MaxNodes, MaxEdits

VARIABLES
  nodes,        \* the node array
  pseudo,       \* the registry of attribute and namespace nodes
  answer,       \* the axes last asked for, of which elements, and the nodes in order
  edits         \* how many edits and queries were made

vars == <<nodes, pseudo, answer, edits>>

NoPseudoNodes == [attributes |-> <<>>, namespaces |-> <<>>, order |-> <<>>]

NoAnswer == [axes |-> <<>>, starts |-> <<>>, nodes |-> <<>>]

Init ==
  /\ nodes = Parsed
  /\ pseudo = NoPseudoNodes
  /\ answer = NoAnswer
  /\ edits = 0

ElementNodes == {n \in DOMAIN nodes : nodes[n].type = "element"}

Held == Handles \cap ElementNodes

\* Every edit counts, fits the array, and leaves older answers behind.
Edit ==
  /\ edits < MaxEdits
  /\ edits' = edits + 1
  /\ Len(nodes') <= MaxNodes
  /\ answer' = NoAnswer
  /\ UNCHANGED pseudo

----------------------------------------------------------------------------
(* Attributes. *)

Declarations(n, prefix) == {i \in DOMAIN nodes[n].decls : nodes[n].decls[i].prefix = prefix}

\* The first declaration of the prefix on the nearest element that has one;
\* an empty name is no namespace.
ResolveInScope(n, prefix) ==
  LET chain == SelectSeq(<<n>> \o Ancestors(nodes, n), LAMBDA m : Declarations(m, prefix) # {})
      ds    == Declarations(Head(chain), prefix)
      uri   == nodes[Head(chain)].decls[CHOOSE i \in ds : \A j \in ds : i <= j].uri
  IN  IF chain = <<>> \/ uri = "" THEN None ELSE uri

\* The attribute found keeps its name; a new one has the name as written.
SetAttributeOf(n, key, v) ==
  LET attrs == nodes[n].attrs
      found == FindAttr(attrs, key.prefix, key.local)
      attr  == IF found # 0 THEN [attrs[found] EXCEPT !.value = v]
               ELSE Attr(key.prefix, key.local,
                         IF key.prefix = None THEN None ELSE ResolveInScope(n, key.prefix), v)
  IN  /\ nodes' = [nodes EXCEPT ![n].attrs = SetAttr(attrs, attr)]
      /\ Edit

SetAttribute == \E n \in Held, key \in Keys, v \in Values : SetAttributeOf(n, key, v)

RemoveAttributeOf(n, key) ==
  /\ nodes' = [nodes EXCEPT ![n].attrs = RemoveAttr(@, key.prefix, key.local)]
  /\ Edit

RemoveAttribute == \E n \in Held, key \in Keys : RemoveAttributeOf(n, key)

----------------------------------------------------------------------------
(* Content. *)

\* The old children stay in the array, and go on naming their parent.
WithContent(n, text) ==
  CASE nodes[n].type \in {"text", "cdata", "comment"} -> [nodes EXCEPT ![n].content = text]
    [] nodes[n].type = "element" /\ text = "" -> [nodes EXCEPT ![n].children = <<>>]
    [] nodes[n].type = "element" /\ text # "" ->
         Append([nodes EXCEPT ![n].children = <<Len(nodes) + 1>>],
                [Leaf("text", text) EXCEPT !.parent = n])
    [] OTHER -> nodes

\* Mutant: a text that was taken out writes where its parent keeps its text now.
SetContentByParent(n, text) ==
  LET texts == {c \in ToSet(nodes[nodes[n].parent].children) : nodes[c].type = "text"}
      at    == IF nodes[n].type = "text" /\ texts # {} THEN CHOOSE c \in texts : TRUE ELSE n
  IN  nodes' = WithContent(at, text) /\ Edit

SetContentOf(n, text) == nodes' = WithContent(n, text) /\ Edit

SetContent == \E n \in Handles, text \in Texts : SetContentOf(n, text)

ClearChildrenOf(n) ==
  /\ nodes' = [nodes EXCEPT ![n].children = <<>>]
  /\ Edit

ClearChildren == \E n \in Held : ClearChildrenOf(n)

\* A node to insert: its attribute names are taken whole, without a prefix.
NewElement(name, prefix, attributes, children) ==
  [type |-> "element", name |-> name, prefix |-> prefix, attributes |-> attributes,
   children |-> children]

NewLeaf(type, content) == [type |-> type, content |-> content]

NewData(new) ==
  IF new.type # "element" THEN Leaf(new.type, new.content)
  ELSE LET uri == IF new.prefix \in DOMAIN Registered THEN Registered[new.prefix] ELSE None
           attrs == [i \in DOMAIN new.attributes |->
                       Attr(None, new.attributes[i].key, None, new.attributes[i].value)]
       IN  [Node("element", new.name, new.prefix, uri, None) EXCEPT
              !.attrs = FoldLeft(SetAttr, <<>>, attrs)]

\* Mutant: the new node is not told its parent.
RECURSIVE CreateOrphan(_, _, _)
CreateOrphan(array, parent, new) ==
  LET id == Len(array) + 1
      AddChild(a, child) ==
        [CreateOrphan(a, id, child) EXCEPT ![id].children = Append(@, Len(a) + 1)]
  IN  FoldLeft(AddChild, Append(array, NewData(new)),
               IF new.type = "element" THEN new.children ELSE <<>>)

\* Adds the node and what is below it; its parent does not know it yet.
RECURSIVE CreateNode(_, _, _)
CreateNode(array, parent, new) ==
  LET id == Len(array) + 1
      AddChild(a, child) ==
        [CreateNode(a, id, child) EXCEPT ![id].children = Append(@, Len(a) + 1)]
  IN  FoldLeft(AddChild, Append(array, [NewData(new) EXCEPT !.parent = parent]),
               IF new.type = "element" THEN new.children ELSE <<>>)

InsertNewNode(new, at) ==
  LET id == Len(nodes) + 1
  IN  /\ nodes' = [CreateNode(nodes, Root, new) EXCEPT
                     ![Root].children = IF at = "first" THEN <<id>> \o @ ELSE Append(@, id)]
      /\ Edit

AppendChild == \E new \in NewNodes : InsertNewNode(new, "last")

PrependChild == \E new \in NewNodes : InsertNewNode(new, "first")

\* A text is one word here, so an occurrence of old is all of it.
ReplaceTextBy(old, new) ==
  LET texts == {n \in ToSet(Walk(nodes, Root)) :
                  nodes[n].type \in {"text", "cdata"} /\ nodes[n].content = old}
  IN  /\ nodes' = [n \in DOMAIN nodes |->
                     IF n \in texts THEN [nodes[n] EXCEPT !.content = new] ELSE nodes[n]]
      /\ Edit

ReplaceText == \E old \in Texts \ {""}, new \in Texts : ReplaceTextBy(old, new)

----------------------------------------------------------------------------
(* Names and declarations. *)

SetNameOf(n, name) == nodes' = [nodes EXCEPT ![n].name = name] /\ Edit

SetPrefixOf(n, prefix) == nodes' = [nodes EXCEPT ![n].prefix = prefix] /\ Edit

SetNamespaceUriOf(n, uri) == nodes' = [nodes EXCEPT ![n].ns = uri] /\ Edit

AddNamespaceDeclOf(n, d) == nodes' = [nodes EXCEPT ![n].decls = Append(@, d)] /\ Edit

SetName == \E n \in Held, e \in Renames : SetNameOf(n, e.name)

SetPrefix == \E n \in Held, e \in Renames : SetPrefixOf(n, e.prefix)

SetNamespaceUri == \E n \in Held, e \in Renames : SetNamespaceUriOf(n, e.ns)

AddNamespaceDecl == \E n \in Held, d \in Bindings : AddNamespaceDeclOf(n, d)

----------------------------------------------------------------------------
(* The attribute and namespace axes. *)

\* Where a node sorts: an attribute or namespace node right after its owner.
OrderKey(order, id) ==
  IF id \in DOMAIN order THEN order[id] ELSE [owner |-> id, kind |-> 0, index |-> 0]

KeyLess(k, l) ==
  \/ k.owner < l.owner
  \/ k.owner = l.owner /\ k.kind < l.kind
  \/ k.owner = l.owner /\ k.kind = l.kind /\ k.index < l.index

SortInDocumentOrder(order, ids) ==
  SortSeq(ids, LAMBDA m, n : KeyLess(OrderKey(order, m), OrderKey(order, n)))

\* Mutant: a node made before keeps the content it was made with.
AttributeNodeAsMade(made, owner, index) ==
  LET attr  == nodes[owner].attrs[index]
      key   == <<owner, attr.prefix, attr.name>>
      id    == IF key \in DOMAIN made.pseudo.attributes THEN made.pseudo.attributes[key]
               ELSE Len(made.nodes) + 1
      node  == Node("attribute", attr.name, attr.prefix, attr.ns, attr.value)
  IN  [nodes  |-> IF id > Len(made.nodes) THEN Append(made.nodes, node) ELSE made.nodes,
       pseudo |-> [made.pseudo EXCEPT
                     !.attributes = (key :> id) @@ @,
                     !.order = (id :> [owner |-> owner, kind |-> 2, index |-> index]) @@ @],
       found  |-> Append(made.found, id)]

\* The node of an attribute: made once for its owner and name, brought up
\* to date and put in its place whenever it is asked for.
AttributeNode(made, owner, index) ==
  LET attr  == nodes[owner].attrs[index]
      key   == <<owner, attr.prefix, attr.name>>
      known == key \in DOMAIN made.pseudo.attributes
      id    == IF known THEN made.pseudo.attributes[key] ELSE Len(made.nodes) + 1
  IN  [nodes  |-> IF known
                  THEN [made.nodes EXCEPT ![id].content = attr.value, ![id].ns = attr.ns]
                  ELSE Append(made.nodes,
                              Node("attribute", attr.name, attr.prefix, attr.ns, attr.value)),
       pseudo |-> [made.pseudo EXCEPT
                     !.attributes = (key :> id) @@ @,
                     !.order = (id :> [owner |-> owner, kind |-> 2, index |-> index]) @@ @],
       found  |-> Append(made.found, id)]

NamespaceNode(made, owner, index, binding) ==
  LET key   == <<owner, binding.prefix>>
      known == key \in DOMAIN made.pseudo.namespaces
      id    == IF known THEN made.pseudo.namespaces[key] ELSE Len(made.nodes) + 1
  IN  [nodes  |-> IF known THEN [made.nodes EXCEPT ![id].content = binding.uri]
                  ELSE Append(made.nodes, Node("namespace", binding.prefix, None, None, binding.uri)),
       pseudo |-> [made.pseudo EXCEPT
                     !.namespaces = (key :> id) @@ @,
                     !.order = (id :> [owner |-> owner, kind |-> 1, index |-> index]) @@ @],
       found  |-> Append(made.found, id)]

AttributesOf(made, n) ==
  FoldLeft(LAMBDA m, i : AttributeNode(m, n, i), made, [i \in DOMAIN nodes[n].attrs |-> i])

\* @name selects the attribute the name finds.
AttributeNamed(made, n, local) ==
  LET i == FindAttr(nodes[n].attrs, None, local)
  IN  IF i = 0 THEN made ELSE AttributeNode(made, n, i)

\* The bindings in scope: xml, then one per prefix, the first declaration of
\* the nearest element; in an order of the prefixes.
InScope(n) ==
  LET chain == <<n>> \o Ancestors(nodes, n)
      all   == FlattenSeq([c \in DOMAIN chain |-> nodes[chain[c]].decls])
      first == {i \in DOMAIN all : \A j \in 1..(i - 1) : all[j].prefix # all[i].prefix}
  IN  <<[prefix |-> "xml", uri |-> "XML"]>> \o SetToSeq({all[i] : i \in first})

NamespacesOf(made, n) ==
  LET scope == InScope(n)
  IN  FoldLeft(LAMBDA m, i : NamespaceNode(m, n, i, scope[i]), made, [i \in DOMAIN scope |-> i])

\* The nodes of one axis, for each of the elements in turn.
Collect(axis, made, starts) ==
  LET From(m, n) ==
        CASE axis = "self"           -> [m EXCEPT !.found = Append(@, n)]
          [] axis = "@*"             -> AttributesOf(m, n)
          [] axis = "namespace::*"   -> NamespacesOf(m, n)
          [] OTHER                   -> AttributeNamed(m, n, axis)
  IN  FoldLeft(From, made, starts)

\* A path, or a union of paths: the operands in turn, and then all sorted.
Query(axes, starts) ==
  LET made == FoldLeft(LAMBDA m, axis : Collect(axis, m, starts),
                       [nodes |-> nodes, pseudo |-> pseudo, found |-> <<>>], axes)
  IN  /\ edits < MaxEdits
      /\ edits' = edits + 1
      /\ nodes' = made.nodes /\ Len(nodes') <= MaxNodes
      /\ pseudo' = made.pseudo
      /\ answer' = [axes |-> axes, starts |-> starts,
                    nodes |-> SortInDocumentOrder(made.pseudo.order, made.found)]

AttributeAxis ==
  \E n \in Held, axis \in {"@*"} \cup {k.local : k \in Keys} : Query(<<axis>>, <<n>>)

NamespaceAxis == \E n \in Held : Query(<<"namespace::*">>, <<n>>)

\* //@* | //namespace::* | //*
UnionOfAxes ==
  Query(<<"@*", "namespace::*", "self">>,
        SelectSeq(Walk(nodes, 1), LAMBDA n : nodes[n].type = "element"))

----------------------------------------------------------------------------
Done == edits = MaxEdits /\ UNCHANGED vars

Next ==
  \/ SetAttribute \/ RemoveAttribute \/ SetContent \/ ClearChildren \/ AppendChild \/ PrependChild
  \/ ReplaceText \/ SetName \/ SetPrefix \/ SetNamespaceUri \/ AddNamespaceDecl
  \/ AttributeAxis \/ NamespaceAxis \/ UnionOfAxes \/ Done

Spec == Init /\ [][Next]_vars

----------------------------------------------------------------------------
(* What editing a document and asking it for attributes and namespaces      *)
(* must come to: the value DocumentValue promises, links that agree, and    *)
(* answers that are current. *)

\* The value of a node and all below it.
RECURSIVE ValueOf(_, _)
ValueOf(array, id) ==
  LET n == array[id]
  IN  [type |-> n.type, name |-> n.name, prefix |-> n.prefix, ns |-> n.ns, content |-> n.content,
       attrs |-> n.attrs, decls |-> n.decls,
       kids |-> [c \in DOMAIN n.children |-> ValueOf(array, n.children[c])]]

\* The value a node to insert stands for.
RECURSIVE NewValue(_)
NewValue(new) ==
  [type |-> new.type,
   name |-> IF new.type = "element" THEN new.name ELSE "",
   prefix |-> IF new.type = "element" THEN new.prefix ELSE None,
   ns |-> IF new.type = "element" /\ new.prefix \in DOMAIN Registered
          THEN Registered[new.prefix] ELSE None,
   content |-> IF new.type = "element" THEN None ELSE new.content,
   attrs |-> IF new.type # "element" THEN <<>>
             ELSE [i \in DOMAIN new.attributes |->
                     Attr(None, new.attributes[i].key, None, new.attributes[i].value)],
   decls |-> <<>>,
   kids |-> IF new.type # "element" THEN <<>>
            ELSE [c \in DOMAIN new.children |-> NewValue(new.children[c])]]

Document == INSTANCE DocumentValue WITH tree <- ValueOf(nodes, 1)

\* Where a handle's node is: the child places that lead to it from the
\* document, by the child lists alone, or no place when it was taken out.
RECURSIVE PlacesBelow(_, _)
PlacesBelow(id, n) ==
  IF id = n THEN {<<>>}
  ELSE UNION {{<<c>> \o p : p \in PlacesBelow(nodes[id].children[c], n)} :
                c \in DOMAIN nodes[id].children}

Place(n) ==
  IF PlacesBelow(1, n) = {} THEN Document!NoPath ELSE CHOOSE p \in PlacesBelow(1, n) : TRUE

\* Each call on a handle is, on the value of the document, the call of that
\* name at the place the handle has in it with the same arguments, and
\* changes nothing when the handle's node was taken out; a query never
\* changes anything.  So the array with its leftovers, its stale parent
\* links and its extra nodes stands for a tree of values, and no edit
\* reaches another node than the one it is of (node/mutable.rs,
\* transform/editable/insert.rs).
EditsAreLocal ==
  /\ Document!Init
  /\ [][ /\ \A n \in Held :
              /\ \A key \in Keys :
                   /\ \A v \in Values :
                        SetAttributeOf(n, key, v) => Document!SetAttribute(Place(n), key, v)
                   /\ RemoveAttributeOf(n, key) => Document!RemoveAttribute(Place(n), key)
              /\ ClearChildrenOf(n) => Document!ClearChildren(Place(n))
              /\ \A e \in Renames :
                   /\ SetNameOf(n, e.name) => Document!SetName(Place(n), e.name)
                   /\ SetPrefixOf(n, e.prefix) => Document!SetPrefix(Place(n), e.prefix)
                   /\ SetNamespaceUriOf(n, e.ns) => Document!SetNamespaceUri(Place(n), e.ns)
              /\ \A d \in Bindings : AddNamespaceDeclOf(n, d) => Document!Declare(Place(n), d)
         /\ \A n \in Handles, text \in Texts :
              SetContentOf(n, text) => Document!SetContent(Place(n), text)
         /\ \A new \in NewNodes, at \in {"first", "last"} :
              InsertNewNode(new, at) => Document!AddChild(Place(Root), NewValue(new), at)
         /\ \A old \in Texts \ {""}, new \in Texts :
              ReplaceTextBy(old, new) => Document!ReplaceText(Place(Root), old, new)
         /\ (AttributeAxis \/ NamespaceAxis \/ UnionOfAxes) => Document!Query ]_vars

\* Every node of the tree is in it once and names as its parent the node
\* that has it as a child; attribute and namespace nodes are not in it.
LinksAgree ==
  LET reached == Walk(nodes, 1)
  IN  /\ IsInjective(reached)
      /\ \A n \in ToSet(reached) :
           /\ nodes[n].type \notin {"attribute", "namespace"}
           /\ \A c \in ToSet(nodes[n].children) : nodes[c].parent = n

\* What the axes should give for one element, by what is stored on it.
Current(axis, n) ==
  LET As(type, seq, Content(_)) == [i \in DOMAIN seq |-> [type |-> type, name |-> seq[i].name,
                                      prefix |-> seq[i].prefix, ns |-> seq[i].ns,
                                      content |-> Content(seq[i])]]
      attrs == As("attribute", nodes[n].attrs, LAMBDA a : a.value)
      found == FindAttr(nodes[n].attrs, None, axis)
  IN  CASE axis = "@*" -> attrs
        [] axis = "self" -> As("element", <<nodes[n]>>, LAMBDA e : e.content)
        [] axis = "namespace::*" ->
             [i \in DOMAIN InScope(n) |->
                [type |-> "namespace", name |-> InScope(n)[i].prefix, prefix |-> None, ns |-> None,
                 content |-> InScope(n)[i].uri]]
        [] OTHER -> IF found = 0 THEN <<>> ELSE <<attrs[found]>>

Shown(id) ==
  [type |-> nodes[id].type, name |-> nodes[id].name, prefix |-> nodes[id].prefix,
   ns |-> nodes[id].ns, content |-> nodes[id].content]

\* However often the element was edited and asked before, an answer shows
\* what is stored now: element by element, each before its namespaces, those
\* before its attributes, those in their order, and no node twice.
AnswersAreCurrent ==
  LET order == SelectSeq(<<"self", "namespace::*", "@*">>, LAMBDA a : a \in ToSet(answer.axes))
      axes  == IF order = <<>> THEN answer.axes ELSE order
      elements == SortSeq(answer.starts, LAMBDA m, n : m < n)
      expected == FlattenSeq([e \in DOMAIN elements |->
                    FlattenSeq([a \in DOMAIN axes |-> Current(axes[a], elements[e])])])
  IN  /\ IsInjective(answer.nodes)
      /\ [i \in DOMAIN answer.nodes |-> Shown(answer.nodes[i])] = expected
=============================================================================
