----------------------------- MODULE MCEditing -----------------------------
(* Editing for TLC: a root element with the attributes p:x and x, a text   *)
(* and one child, edited and queried a few times.                          *)
EXTENDS EditedTree

MCKey(prefix, local) == [prefix |-> prefix, local |-> local]
MCBind(prefix, uri) == [prefix |-> prefix, uri |-> uri]

MCRootNode ==
  [Node("element", "r", None, None, None) EXCEPT
     !.attrs = <<Attr("p", "x", "u1", "1"), Attr(None, "x", None, "1")>>,
     !.decls = <<MCBind("p", "u1")>>, !.parent = 1, !.children = <<3, 4>>]

MCChildNode ==
  [Node("element", "a", "p", "u1", None) EXCEPT !.attrs = <<Attr("p", "x", "u1", "1")>>, !.parent = 2]

MCParsed ==
  <<[Leaf("document", None) EXCEPT !.children = <<2>>], MCRootNode,
    [Leaf("text", "t") EXCEPT !.parent = 2], MCChildNode>>

MCRegistered == "q" :> "u1"

MCKeys == {MCKey(None, "x"), MCKey("p", "x"), MCKey("q", "x")}

MCNewNodes ==
  {NewLeaf("text", "t"),
   NewElement("b", "q", <<[key |-> "x", value |-> "1"]>>,
              <<NewElement("c", None, <<>>, <<>>), NewLeaf("cdata", "t")>>)}

MCRenames == {[name |-> "r", prefix |-> "q", ns |-> "u2"]}

MCBindings == {MCBind("q", "u1"), MCBind("p", "u2")}
=============================================================================
