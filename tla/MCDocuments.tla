---------------------------- MODULE MCDocuments ----------------------------
(* Document type declarations and tags around the cases that matter; every  *)
(* input of up to four bytes, and longer ones around line ends and byte     *)
(* order marks. *)
EXTENDS Documents

Tag(name, prefix, binds, attrs) ==
  [name |-> name, prefix |-> prefix, binds |-> binds, attrs |-> attrs]
Binds(p, u) == [prefix |-> p, uri |-> u]
Attribute(p, l, v) == [prefix |-> p, local |-> l, value |-> v]

MCTags ==
  [t \in {"e", "pe", "decl", "redecl", "attr", "twice"} |->
    CASE t = "e"      -> Tag("e", None, <<>>, <<>>)
      [] t = "pe"     -> Tag("e", "p", <<>>, <<>>)
      [] t = "decl"   -> Tag("e", "p", <<Binds("p", "u"), Binds("", "v")>>, <<>>)
      [] t = "redecl" -> Tag("e", None, <<Binds("p", "v"), Binds("", Unbind)>>, <<>>)
      [] t = "attr"   -> Tag("e", None, <<>>, <<Attribute(None, "k", <<Char("x"), Ref("a")>>),
                                                Attribute("p", "k", <<Char("y")>>)>>)
      [] t = "twice"  -> Tag("e", None, <<Binds("q", "u")>>,
                             <<Attribute("p", "k", <<>>), Attribute("q", "k", <<>>)>>)]

MCTexts == { <<Char(" ")>>, <<Char("x")>>, <<Ref("a")>>,
             <<Char("x"), Ref("b"), Char("y"), Ref("a")>>, <<Ref("c"), Ref("c")>> }

Entity(name, text) == [name |-> name, kind |-> "internal", text |-> text]
Outside(name, kind) == [name |-> name, kind |-> kind, text |-> <<>>]
Dtd(hidden, decls) == [hidden |-> hidden, decls |-> decls]

MCDtds == {
  \* growing expansions, and a later declaration that does not count
  Dtd(FALSE, <<Entity("a", <<Char("x")>>), Entity("b", <<Ref("a"), Ref("a")>>),
               Entity("c", <<Ref("b"), Ref("b")>>), Entity("a", <<Ref("c")>>)>>),
  \* markup in markup, with a prefix that its context binds
  Dtd(FALSE, <<Entity("a", <<Open("pe"), Ref("b"), Close("pe"), Char("x")>>),
               Entity("b", <<Char("y"), Open("redecl"), Close("redecl")>>),
               Entity("c", <<Ref("a")>>)>>) } \union
  \* recursion through text, markup and an attribute
  { Dtd(h, <<Entity("a", <<Ref("b")>>), Entity("b", <<Open("e"), Ref("a"), Close("e")>>),
             Entity("c", <<Char("x")>>)>>) : h \in BOOLEAN } \union
  { Dtd(h, <<Entity("a", <<Open("attr"), Close("attr")>>), Entity("c", <<Open("decl"), Close("e")>>),
             Entity("b", <<Ref("c")>>)>>) : h \in BOOLEAN } \union
  \* undeclared, external and unparsed names, and one that is only quoted
  { Dtd(h, <<Outside("b", "external"), Entity("a", <<CData("zz"), Ref("c")>>),
             Entity("c", <<Char("x")>>), Entity("d", <<Ref("zz")>>)>>) : h \in BOOLEAN } \union
  { Dtd(h, <<Outside("a", "unparsed"), Entity("b", <<Open("e"), Close("e")>>),
             Entity("c", <<Ref("zz")>>), Outside("b", "external")>>) : h \in BOOLEAN } \union
  \* fragments that close what they did not open
  { Dtd(FALSE, <<Entity("a", <<Open("e")>>), Entity("b", <<Close("e")>>),
                 Entity("c", <<Open("e"), Open("redecl"), Close("e"), Close("redecl")>>)>>) }

Bytes == {"x", "CR", "LF", "EF", "BB", "BF"}

MCInputs == UNION {[1..n -> Bytes] : n \in 0..4} \union {
  <<"x", "CR", "LF", "CR", "x", "LF">>,
  <<"CR", "CR", "LF", "LF", "x">>,
  <<"EF", "BB", "BF", "CR", "LF", "x">>,
  <<"EF", "CR", "LF", "BB", "x">>,
  <<"EF", "BB", "CR", "LF", "x">>,
  <<"LF", "EF", "BB", "BF", "CR">>,
  <<"EF", "BB">> }
=============================================================================
