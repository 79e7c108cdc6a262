---------------------------- MODULE DocumentTree ----------------------------
(***************************************************************************)
(* The node array of a document (document.rs, node/types.rs) and how       *)
(* DocumentBuilder fills it.  A node's identity is its place in the array; *)
(* place 1 is the document node.  Attributes and namespace declarations    *)
(* live on their element.                                                  *)
(***************************************************************************)
EXTENDS Naturals, Sequences, FiniteSets, SequencesExt

CONSTANT None   \* an absent prefix, namespace, parent or content

\* An attribute keeps the prefix it was written with and the namespace that
\* prefix resolved to.
Attr(prefix, local, uri, value) ==
  [prefix |-> prefix, name |-> local, ns |-> uri, value |-> value]

Node(type, name, prefix, uri, content) ==
  [type |-> type, name |-> name, prefix |-> prefix, ns |-> uri, content |-> content,
   attrs |-> <<>>, decls |-> <<>>, parent |-> None, children |-> <<>>]

Leaf(type, content) == Node(type, "", None, None, content)

EmptyDocument == <<Leaf("document", None)>>

----------------------------------------------------------------------------
(* Attributes of one element. *)

\* Two attributes are the same when their expanded names are, or, outside
\* every namespace, their names as written.
SameAttribute(a, b) ==
  /\ a.name = b.name
  /\ a.ns = b.ns
  /\ a.ns # None \/ a.prefix = b.prefix

\* Replaces the attribute of that name where it stands, or adds it.
SetAttr(attrs, attr) ==
  LET same == {i \in DOMAIN attrs : SameAttribute(attrs[i], attr)}
  IN  IF same = {} THEN Append(attrs, attr)
      ELSE [attrs EXCEPT ![CHOOSE i \in same : \A j \in same : i <= j] = attr]

\* The place of the attribute a caller means: a qualified name means that
\* very name; a bare one prefers the unprefixed attribute and falls back on
\* the first of that local name.  0 when there is none.
FindAttr(attrs, prefix, local) ==
  LET named    == {i \in DOMAIN attrs : attrs[i].name = local}
      exact    == {i \in named : attrs[i].prefix = prefix}
      eligible == IF exact # {} \/ prefix # None THEN exact ELSE named
  IN  IF eligible = {} THEN 0 ELSE CHOOSE i \in eligible : \A j \in eligible : i <= j

\* The names under which attr_entries presents the attributes: bare, but
\* prefixed where a prefixed attribute shares its local name.
AttrKeys(attrs) ==
  [i \in DOMAIN attrs |->
     <<IF attrs[i].prefix # None /\ \E j \in DOMAIN attrs \ {i} : attrs[j].name = attrs[i].name
       THEN attrs[i].prefix ELSE None,
       attrs[i].name>>]

RemoveAttr(attrs, prefix, local) ==
  LET i == FindAttr(attrs, prefix, local) IN IF i = 0 THEN attrs ELSE RemoveAt(attrs, i)

----------------------------------------------------------------------------
(* Building. *)

\* Adds the node under the element at the top of the stack.
Attach(nodes, stack, node) ==
  Append([nodes EXCEPT ![Last(stack)].children = Append(@, Len(nodes) + 1)],
         [node EXCEPT !.parent = Last(stack)])

StartNode(name, prefix, uri, attrs, decls) ==
  [Node("element", name, prefix, uri, None) EXCEPT
     !.attrs = FoldLeft(SetAttr, <<>>, attrs), !.decls = decls]

\* The first element under the document node.
RootElement(nodes) ==
  LET roots == {i \in DOMAIN nodes : nodes[i].type = "element" /\ nodes[i].parent = 1}
  IN  IF roots = {} THEN None ELSE CHOOSE i \in roots : \A j \in roots : i <= j

----------------------------------------------------------------------------
(* Walking. *)

\* The nodes below and including id, in document order.
RECURSIVE Walk(_, _)
Walk(nodes, id) ==
  <<id>> \o FlattenSeq([c \in DOMAIN nodes[id].children |-> Walk(nodes, nodes[id].children[c])])

RECURSIVE Ancestors(_, _)
Ancestors(nodes, id) ==
  IF nodes[id].parent = None THEN <<>>
  ELSE <<nodes[id].parent>> \o Ancestors(nodes, nodes[id].parent)

\* The text of an element: all text and CDATA below it.
TextBelow(nodes, id) ==
  LET texts == SelectSeq(Walk(nodes, id), LAMBDA n : nodes[n].type \in {"text", "cdata"})
  IN  FlattenSeq([t \in DOMAIN texts |-> nodes[texts[t]].content])
=============================================================================
