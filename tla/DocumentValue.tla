--------------------------- MODULE DocumentValue ---------------------------
(***************************************************************************)
(* What editing a document promises, without node numbers: the document is *)
(* a tree of values, a handle is a path into it, and a call on it changes  *)
(* the subtree there and nothing else.  A call on a node no longer in the  *)
(* tree, and a query, change nothing.                                      *)
(***************************************************************************)
EXTENDS Naturals, Sequences, FiniteSets, SequencesExt

CONSTANT None

VARIABLE tree

\* The subtree at a path of child places.
RECURSIVE Subtree(_, _)
Subtree(t, path) == IF path = <<>> THEN t ELSE Subtree(t.kids[Head(path)], Tail(path))

RECURSIVE Put(_, _, _)
Put(t, path, new) ==
  IF path = <<>> THEN new
  ELSE [t EXCEPT !.kids[Head(path)] = Put(@, Tail(path), new)]

RECURSIVE Paths(_)
Paths(t) == {<<>>} \cup UNION {{<<k>> \o p : p \in Paths(t.kids[k])} : k \in DOMAIN t.kids}

\* The place of a node that is not in the tree.
NoPath == <<0>>

\* The call at a path changes the subtree there as Does says, and only it.
At(path, Does(_, _)) ==
  LET before == tree
      after  == tree'
  IN  IF path = NoPath THEN after = before
      ELSE /\ path \in Paths(before) \cap Paths(after)
           /\ after = Put(before, path, Subtree(after, path))
           /\ Does(Subtree(before, path), Subtree(after, path))

----------------------------------------------------------------------------
(* Attributes: a key is a prefix (or None) and a local name. *)

\* Whether the key names the attribute: a bare key also a prefixed one, if
\* there is no other.
Names(attrs, key, i) ==
  /\ attrs[i].name = key.local
  /\ \/ attrs[i].prefix = key.prefix
     \/ /\ key.prefix = None
        /\ \A j \in DOMAIN attrs : attrs[j].name = key.local => attrs[j].prefix # None /\ i <= j

Named(attrs, key) == {i \in DOMAIN attrs : Names(attrs, key, i)}

\* The attributes as before, but for places changed or gone.
Kept(before, after, except) ==
  \A i \in DOMAIN before \ except : \E j \in DOMAIN after : after[j] = before[i]

\* The key then names one attribute, with the value; the attribute it named
\* keeps its name and its namespace; no other attribute changes, unless the
\* new one has the same expanded name; and at most one is added.
SetsAttribute(key, value, before, after) ==
  /\ \E i \in DOMAIN after :
       /\ Named(after, key) = {i} /\ after[i].value = value
       /\ \A b \in Named(before, key) :
            <<after[i].prefix, after[i].ns>> = <<before[b].prefix, before[b].ns>>
       /\ Kept(before, after,
               Named(before, key)
                 \cup {b \in DOMAIN before : after[i].ns # None /\ before[b].name = key.local
                                             /\ before[b].ns = after[i].ns})
  /\ Len(after) <= Len(before) + (IF Named(before, key) = {} THEN 1 ELSE 0)

RemovesAttribute(key, before, after) ==
  /\ Kept(before, after, Named(before, key))
  /\ Len(after) = Len(before) - Cardinality(Named(before, key))

\* What the prefix is bound to at the path: the first declaration of the
\* nearest element that has one; an empty name, like none, is no namespace.
RECURSIVE BoundBelow(_, _, _, _)
BoundBelow(t, path, prefix, above) ==
  LET decls == SelectSeq(t.decls, LAMBDA d : d.prefix = prefix)
      here  == IF decls = <<>> THEN above ELSE Head(decls).uri
  IN  IF path = <<>> THEN here
      ELSE BoundBelow(t.kids[Head(path)], Tail(path), prefix, here)

Bound(path, prefix) ==
  LET uri == BoundBelow(tree, path, prefix, "")
  IN  IF prefix = None \/ uri = "" THEN None ELSE uri

\* An attribute that was not there has the namespace its prefix is bound to.
SetAttribute(path, key, value) ==
  At(path, LAMBDA t, u :
    /\ u = [t EXCEPT !.attrs = u.attrs]
    /\ SetsAttribute(key, value, t.attrs, u.attrs)
    /\ Named(t.attrs, key) = {} =>
         \E a \in ToSet(u.attrs) :
           a = [name |-> key.local, prefix |-> key.prefix, ns |-> Bound(path, key.prefix),
                value |-> value])

RemoveAttribute(path, key) ==
  At(path, LAMBDA t, u :
    /\ u = [t EXCEPT !.attrs = u.attrs]
    /\ RemovesAttribute(key, t.attrs, u.attrs))

----------------------------------------------------------------------------
(* Content. *)

Text(type, content) ==
  [type |-> type, name |-> "", prefix |-> None, ns |-> None, content |-> content,
   attrs |-> <<>>, decls |-> <<>>, kids |-> <<>>]

\* Text replaces whatever an element held, and is the whole of another node.
SetContent(path, text) ==
  At(path, LAMBDA t, u :
    u = IF t.type # "element" THEN [t EXCEPT !.content = text]
        ELSE [t EXCEPT !.kids = IF text = "" THEN <<>> ELSE <<Text("text", text)>>])

\* A new child first or last; the others keep their places.
AddChild(path, fragment, at) ==
  At(path, LAMBDA t, u :
    u = [t EXCEPT !.kids = IF at = "first" THEN <<fragment>> \o @ ELSE Append(@, fragment)])

ClearChildren(path) == At(path, LAMBDA t, u : u = [t EXCEPT !.kids = <<>>])

\* Text and CDATA anywhere below change; nothing else does.
RECURSIVE Replaced(_, _, _)
Replaced(t, old, new) ==
  IF t.type \in {"text", "cdata"} /\ t.content = old THEN [t EXCEPT !.content = new]
  ELSE [t EXCEPT !.kids = [k \in DOMAIN @ |-> Replaced(@[k], old, new)]]

ReplaceText(path, old, new) == At(path, LAMBDA t, u : u = Replaced(t, old, new))

----------------------------------------------------------------------------
(* Names and declarations, and questions. *)

SetName(path, name) == At(path, LAMBDA t, u : u = [t EXCEPT !.name = name])

SetPrefix(path, prefix) == At(path, LAMBDA t, u : u = [t EXCEPT !.prefix = prefix])

SetNamespaceUri(path, uri) == At(path, LAMBDA t, u : u = [t EXCEPT !.ns = uri])

Declare(path, d) == At(path, LAMBDA t, u : u = [t EXCEPT !.decls = Append(@, d)])

Query == tree' = tree

Init == tree.type = "document"
=============================================================================
