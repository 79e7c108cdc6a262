---------------------------- MODULE MCSelection ----------------------------
(* Selection for TLC: seven start tags over two names, two prefixes and two  *)
(* namespaces, and location paths that use each test, axis and predicate   *)
(* in and out of the places one pass allows.                               *)
EXTENDS Selection

Decl(prefix, uri) == [prefix |-> prefix, uri |-> uri]
At(prefix, name, value) == [prefix |-> prefix, name |-> name, value |-> value]

MCTags == {
  Tag(None, "a", <<>>, <<>>),
  Tag(None, "b", <<At(None, "x", "1")>>, <<>>),
  Tag("p", "a", <<At("p", "x", "1"), At(None, "x", "2")>>, <<>>),
  Tag("p", "b", <<>>, <<Decl("p", "u2"), Decl("", "u1")>>),
  Tag(None, "b", <<>>, <<Decl("", "")>>),
  Tag(None, "a", <<>>, <<Decl("p", "u1")>>),
  Tag("o", "a", <<At("o", "x", "2")>>, <<Decl("o", "u1")>>)}

MCRegistered == "q" :> "u1"

Child(prefix, name, preds) == Step("child", ElementTest(prefix, name), preds)
Deep == Step("descendant-or-self", AnyNode, <<>>)
Pos(op, n) == [kind |-> "position", op |-> op, n |-> n]
AttrIs(prefix, name, op, value) ==
  [kind |-> "attribute", prefix |-> prefix, local |-> name, op |-> op, value |-> value]
Abs(steps) == [absolute |-> TRUE, steps |-> steps]
Rel(steps) == [absolute |-> FALSE, steps |-> steps]

AnyElement == ElementTest(None, None)

MCXPaths == {
  Abs(<<Deep, Child(None, "a", <<>>)>>),
  Abs(<<Deep, Child("q", "a", <<>>)>>),
  Abs(<<Deep, Child("p", None, <<Pos("=", 2)>>)>>),
  Abs(<<Child(None, "a", <<>>), Child(None, "b", <<Pos("=", 1)>>)>>),
  Rel(<<Child(None, None, <<Pos(">=", 2)>>), Child(None, "a", <<>>)>>),
  Rel(<<Child("p", "a", <<Pos("<", 2)>>)>>),
  Rel(<<Deep, Child("q", "a", <<Pos("=", 1), AttrIs("q", "x", "=", "1")>>)>>),
  Rel(<<Step("descendant", ElementTest(None, "b"), <<AttrIs(None, "x", "exists", "")>>)>>),
  Rel(<<Step("descendant", AnyElement, <<Pos("=", 2)>>)>>),
  Abs(<<Deep, Child(None, None, <<[kind |-> "local", local |-> "a"], [kind |-> "uri", uri |-> "u1"]>>)>>),
  Abs(<<Deep, Child(None, None, <<[kind |-> "uri", uri |-> ""]>>)>>),
  Abs(<<Deep, Child(None, None, <<AttrIs(None, "x", "!=", "")>>)>>),
  Abs(<<Deep, Child(None, None, <<[kind |-> "local", local |-> "a"], Pos("=", 1)>>)>>),
  Abs(<<Deep, Child(None, "a", <<AttrIs(None, "x", "exists", ""), Pos("=", 1)>>)>>),
  Abs(<<Deep, Child(None, "a", <<AttrIs("p", "x", "!=", "1")>>)>>),
  Abs(<<Deep, Child(None, None, <<AttrIs(None, "x", "=", "2")>>)>>),
  Abs(<<Deep, Child(None, "a", <<>>), Deep, Child(None, "a", <<>>)>>),
  Abs(<<Deep, Child(None, "a", <<>>), Child(None, None, <<Pos("<=", 1)>>), Deep, Child(None, "b", <<>>)>>),
  Abs(<<Deep, Child("r", None, <<Pos("=", 1)>>)>>),
  Abs(<<Deep, Child("o", "a", <<Pos("=", 1)>>)>>),
  Abs(<<Deep, Child(None, None, <<[kind |-> "last"]>>)>>),
  Abs(<<Deep, Child(None, None, <<[AttrIs(None, "x", "exists", "") EXCEPT !.kind = "not"]>>)>>),
  Abs(<<Deep, Child(None, None, <<>>), Step("following-sibling", AnyElement, <<>>)>>),
  Abs(<<Deep, Child(None, "b", <<>>), Step("parent", AnyElement, <<>>)>>),
  Abs(<<Deep, Step("child", TextTest, <<>>)>>),
  Abs(<<Deep>>)}
=============================================================================
