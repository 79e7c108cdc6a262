---------------------------- MODULE MCValidators ----------------------------
(* Small schemas, each with the tags and texts that bring out what it is    *)
(* about.  The root is always r.                                            *)
EXTENDS Validators, TLC

MCCanon == ("" :> "") @@ ("1" :> "1") @@ ("01" :> "1") @@ ("2" :> "2") @@ ("x" :> "x")

MCAny == DOMAIN MCCanon

MCSimple(values) ==
  [kind |-> "simple", anonymous |-> FALSE, base |-> None, by |-> "restriction", block |-> {},
   values |-> values, mixed |-> FALSE, hasParticles |-> FALSE, auto |-> None, children |-> <<>>,
   wildcard |-> None, attrs |-> <<>>, anyAttr |-> FALSE]

MCComplex(children, auto) ==
  [MCSimple(None) EXCEPT !.kind = "complex", !.hasParticles = auto # None \/ children # <<>>,
                         !.children = children, !.auto = auto]

MCType == [string |-> MCSimple(MCAny), int |-> MCSimple({"1", "01", "2"})]

MCDecl(type) == [NoDecl EXCEPT !.type = type]

MCLocal(n, type, min, max) ==
  [name |-> n, min |-> min, max |-> max, ref |-> FALSE, decl |-> MCDecl(type)]

MCRef(n, min, max) == [MCLocal(n, None, min, max) EXCEPT !.ref = TRUE]

(* The automaton of a flat sequence, or of a choice, of positions           *)
(* <<names, min, max>>.                                                     *)
MCFlat(ps, next, accepting) ==
  LET n == Len(ps)
  IN  [size      |-> n,
       admits    |-> [q \in 1 .. n |-> ps[q][1]],
       min       |-> [q \in 1 .. n |-> IF ps[q][2] = 0 THEN 1 ELSE ps[q][2]],
       max       |-> [q \in 1 .. n |-> ps[q][3]],
       next      |-> [s \in 0 .. n |-> next[s] \cup (IF s > 0 /\ ps[s][3] # 1 THEN {s} ELSE {})],
       accepting |-> accepting]

MCSequence(ps) ==
  LET n == Len(ps)
      Skips(s, p) == \A q \in s + 1 .. p - 1 : ps[q][2] = 0
  IN  MCFlat(ps, [s \in 0 .. n |-> {p \in s + 1 .. n : Skips(s, p)}],
             {s \in 0 .. n : Skips(s, n + 1)})

(* (p | q | ...)*                                                           *)
MCRepeated(ps) ==
  MCFlat(ps, [s \in 0 .. Len(ps) |-> 1 .. Len(ps)], 0 .. Len(ps))

MCTag(n) == [name |-> n, xsi |-> None, nil |-> FALSE, attrs |-> <<>>]

MCWith(n, a, v) == [MCTag(n) EXCEPT !.attrs = a :> v]

MCXsi(n, t) == [MCTag(n) EXCEPT !.xsi = t]

(* Elements that the schema declares globally besides r.                    *)
MCSchema(globals, types, tags, texts) ==
  [globals |-> ("r" :> MCDecl("R")) @@ globals, types |-> types @@ MCType,
   roots |-> {MCTag("r")}, tags |-> tags, texts |-> texts,
   limit |-> 4, strict |-> TRUE, heads |-> <<>>, members |-> <<>>]

(* A local declaration beside a global one of the same name, a reference.   *)
MCOrdered ==
  MCSchema(
    ("a" :> MCDecl("string")) @@ ("g" :> MCDecl("string")),
    "R" :> MCComplex(<<MCLocal("a", "int", 1, 1), MCRef("g", 0, 1), MCLocal("b", "string", 0, 2)>>,
                     MCSequence(<<<<{"a"}, 1, 1>>, <<{"g"}, 0, 1>>, <<{"b"}, 0, 2>>>>)),
    {MCTag("a"), MCTag("g"), MCTag("b"), MCTag("z")}, {"x"})

(* One name at two positions with fixed values of their own.                *)
MCPositional ==
  MCSchema(
    <<>>,
    "R" :> MCComplex(<<[MCLocal("a", "int", 1, 1) EXCEPT !.decl.fixed = "1"],
                       MCLocal("b", "string", 0, 1),
                       [MCLocal("a", "int", 1, 1) EXCEPT !.decl.fixed = "2"]>>,
                     MCSequence(<<<<{"a"}, 1, 1>>, <<{"b"}, 0, 1>>, <<{"a"}, 1, 1>>>>)),
    {MCTag("a"), MCTag("b")}, {"01", "2"})

(* The abstract head h of a group with member m, twice in a sequence.       *)
MCHeads(s) == [s EXCEPT !.heads = "m" :> "h", !.members = "h" :> {"m"}]

MCSubstitution ==
  MCHeads(MCSchema(
    ("h" :> [MCDecl("string") EXCEPT !.abstract = TRUE]) @@ ("m" :> MCDecl("int")),
    "R" :> MCComplex(<<MCRef("h", 1, 2)>>, MCSequence(<<<<{"h", "m"}, 1, 2>>>>)),
    {MCTag("h"), MCTag("m")}, {"x"}))

(* xs:all, of an element and a group's head.                                *)
MCAll ==
  MCHeads(MCSchema(
    ("h" :> MCDecl("string")) @@ ("m" :> MCDecl("string")),
    "R" :> MCComplex(<<MCLocal("a", "string", 1, 1), MCRef("h", 0, 1)>>, None),
    {MCTag("a"), MCTag("h"), MCTag("m"), MCTag("z")}, {}))

(* A wildcard alone: one or two elements, of which g is declared, with a    *)
(* required attribute.                                                      *)
MCWild(process) ==
  MCSchema(
    "g" :> MCDecl("G"),
    ("R" :> [MCComplex(<<>>, MCSequence(<<<<{"g", "z"}, 1, 2>>>>)) EXCEPT
               !.wildcard = [names |-> {"g", "z"}, process |-> process, min |-> 1, max |-> 2]]) @@
    ("G" :> [MCComplex(<<MCLocal("b", "int", 0, 1)>>, MCSequence(<<<<{"b"}, 0, 1>>>>)) EXCEPT
               !.attrs = "n" :> [required |-> TRUE, kind |-> "plain", values |-> {"1"}, typed |-> FALSE]]),
    {MCTag("g"), MCWith("g", "n", "1"), MCTag("z"), MCTag("b")}, {"x"})

(* A declared type whose extensions are blocked, below an unblocked one.    *)
MCTyped ==
  LET Derived(base, by, block) ==
        [MCComplex(<<MCLocal("b", "string", 0, 1)>>, MCSequence(<<<<{"b"}, 0, 1>>>>)) EXCEPT
           !.base = base, !.by = by, !.block = block]
  IN  MCSchema(
        <<>>,
        ("R" :> MCComplex(<<MCLocal("a", "T", 0, 1), MCLocal("c", "U", 0, 1), MCLocal("d", "V", 0, 1)>>,
                          MCSequence(<<<<{"a"}, 0, 1>>, <<{"c"}, 0, 1>>, <<{"d"}, 0, 1>>>>))) @@
        ("T" :> Derived(None, "restriction", {})) @@
        ("U" :> [Derived("T", "restriction", {"extension"}) EXCEPT
                   !.children = <<>>, !.auto = MCSequence(<<>>)]) @@
        ("W" :> Derived("U", "extension", {})) @@
        ("V" :> [Derived(None, "restriction", {}) EXCEPT !.anonymous = TRUE]),
        {MCTag("b"), MCTag("a"), MCXsi("a", "U"), MCXsi("a", "W"), MCXsi("c", "W"), MCXsi("c", "T"),
         MCXsi("d", "T"), MCXsi("d", "V"), MCXsi("a", "bogus")}, {})

(* Nillable and defaulted values, in mixed and in element-only content.     *)
MCValues(mixed) ==
  MCSchema(
    <<>>,
    "R" :> [MCComplex(<<[MCLocal("a", "int", 0, 1) EXCEPT !.decl.nillable = TRUE],
                        [MCLocal("b", "int", 0, 1) EXCEPT !.decl.default = "1"]>>,
                      MCSequence(<<<<{"a"}, 0, 1>>, <<{"b"}, 0, 1>>>>)) EXCEPT !.mixed = mixed],
    {MCTag("a"), [MCTag("a") EXCEPT !.nil = TRUE], MCTag("b"), [MCTag("b") EXCEPT !.nil = TRUE]},
    {"1", "x"})

(* IDs and references to them.                                              *)
MCAttribute(kind, typed) == [required |-> FALSE, kind |-> kind, values |-> MCAny, typed |-> typed]

MCIds ==
  MCSchema(
    <<>>,
    ("R" :> MCComplex(<<MCLocal("a", "T", 0, Unbounded)>>, MCRepeated(<<<<{"a"}, 1, 1>>>>))) @@
    ("T" :> [MCComplex(<<MCLocal("a", "T", 0, Unbounded)>>, MCRepeated(<<<<{"a"}, 1, 1>>>>)) EXCEPT
               !.attrs = ("i" :> MCAttribute("id", FALSE)) @@ ("j" :> MCAttribute("idref", FALSE))]),
    {MCWith("a", "i", "1"), MCWith("a", "j", "1"), MCWith("a", "j", "x"), MCWith("a", "q", "1"),
     [MCTag("a") EXCEPT !.attrs = ("i" :> "x") @@ ("j" :> "1")]},
    {})

(* Sections s in one another, with keys k and references f to them: a key   *)
(* of each section, a reference that a section makes, and a unique one of   *)
(* the whole document.                                                      *)
MCPath(deep, steps) == [deep |-> deep, steps |-> steps]

MCField(deep, steps, attr) == [deep |-> deep, steps |-> steps, attr |-> attr]

MCKey(kind, name, refer, selector, fields) ==
  [kind |-> kind, name |-> name, refer |-> refer, selector |-> {selector}, fields |-> fields]

MCKeyed(constraintsOfRoot, constraintsOfSection, tags, texts) ==
  LET items == <<MCLocal("k", "K", 0, Unbounded), MCLocal("f", "K", 0, Unbounded), MCRef("s", 0, Unbounded)>>
      content == MCComplex(items, MCRepeated(<<<<{"k"}, 1, 1>>, <<{"f"}, 1, 1>>, <<{"s"}, 1, 1>>>>))
      schema0 == MCSchema(
        "s" :> [MCDecl("R") EXCEPT !.constraints = constraintsOfSection],
        ("R" :> content) @@
        ("K" :> [MCComplex(<<>>, None) EXCEPT !.values = {"", "1", "01", "x"},
                   !.attrs = ("n" :> MCAttribute("plain", TRUE)) @@ ("o" :> MCAttribute("plain", FALSE))]),
        tags, texts)
  IN  [schema0 EXCEPT !.globals["r"].constraints = constraintsOfRoot]

(* Keys of each section, references from anywhere in it.                    *)
MCSections ==
  MCKeyed(
    <<>>,
    <<MCKey("key", "sk", None, MCPath(FALSE, <<"k">>), <<MCField(FALSE, <<>>, "n")>>),
      MCKey("keyref", "sf", "sk", MCPath(TRUE, <<"f">>), <<MCField(FALSE, <<>>, "n")>>)>>,
    {MCTag("s"), MCTag("k"), MCWith("k", "n", "1"), MCWith("k", "n", "x"), MCWith("f", "n", "01")}, {})

(* The reference is the root's, the key each section's: they come before    *)
(* and after one another.                                                   *)
MCAcross ==
  MCKeyed(
    <<MCKey("keyref", "rf", "sk", MCPath(TRUE, <<"f">>), <<MCField(FALSE, <<>>, "o")>>),
      MCKey("key", "sk", None, MCPath(FALSE, <<"k">>), <<MCField(FALSE, <<>>, "o")>>)>>,
    <<MCKey("key", "sk", None, MCPath(FALSE, <<"k">>), <<MCField(FALSE, <<>>, "o")>>)>>,
    {MCTag("s"), MCWith("k", "o", "1"), MCWith("f", "o", "1"), MCWith("f", "o", "01"), MCWith("k", "o", "01")}, {})

(* Two fields, one of them the text of children.                            *)
MCUnique ==
  MCKeyed(
    <<MCKey("unique", "u", None, MCPath(TRUE, <<"s">>), <<MCField(FALSE, <<"k">>, None)>>),
      MCKey("unique", "v", None, MCPath(TRUE, <<"*">>), <<MCField(FALSE, <<>>, None)>>)>>,
    <<>>,
    {MCTag("s"), MCTag("k")}, {"1", "x"})

MCSchemas ==
  {MCOrdered, MCPositional, MCSubstitution, MCAll, MCWild("skip"), MCWild("lax"), MCWild("strict"),
   MCTyped, MCValues(TRUE), MCValues(FALSE), MCIds, MCUnique}
  \cup {[s EXCEPT !.limit = 5] : s \in {MCSections, MCAcross}}

==============================================================================
