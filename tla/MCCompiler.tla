------------------------------ MODULE MCCompiler ------------------------------
(* Sets of one and two schema documents around the cases that matter, and   *)
(* pairs of content models.                                                 *)
EXTENDS SchemaCompiler, TLC

CONSTANTS A, B, C  \* names of definitions

MCDoc(tns, default, bound, defs) ==
  [tns |-> tns, bind |-> ("" :> default) @@ (Prefix :> bound),
   imports |-> {}, includes |-> FALSE, defs |-> defs, redefines |-> <<>>]

MCDef(n, refs) == [name |-> n, refs |-> refs, particle |-> Nothing]
MCQ(prefix, n) == [prefix |-> prefix, local |-> n]
MCSet(c, ds, ts, globals, groups, simple, texts) ==
  [class : c, docs : ds, types : ts, globals : globals, groups : groups, simple : simple, texts : texts]
MCInput(c, ds, ts) == MCSet(c, ds, ts, {<<>>}, {<<>>}, {<<>>}, {<<>>})

(* One definition each, that may refer to one.                             *)
MCOneRef(n) == {MCDef(n, <<>>)} \cup {MCDef(n, <<MCQ(p, m)>>) : p \in {"", Prefix}, m \in {A, B}}

MCReaches == {[imports |-> {}, includes |-> FALSE], [imports |-> {"u"}, includes |-> FALSE],
              [imports |-> {}, includes |-> TRUE]}

MCFirst ==
  {[MCDoc(tns, b[1], b[2], <<d>>) EXCEPT !.imports = r.imports, !.includes = r.includes] :
     tns \in {"", "t"}, b \in {<<"", "t">>, <<"", "u">>, <<"t", "u">>, <<"u", "t">>, <<"t", Unbound>>},
     r \in MCReaches, d \in MCOneRef(A)}

MCSecond ==
  {MCDoc(tns, b[1], b[2], <<d>>) :
     tns \in {"", "t", "u"}, b \in {<<"", Unbound>>, <<"t", "u">>, <<"", "t">>}, d \in MCOneRef(A) \cup MCOneRef(B)}

MCClasses == {"type", "group", "attributeGroup"}

MCPairs == MCInput(MCClasses, MCFirst \X MCSecond, {<<>>})

(* Three definitions in a document, each referring to up to two.           *)
MCRefLists == {<<>>} \cup {<<MCQ("", n)>> : n \in {A, B, C}}
                \cup {<<MCQ("", n), MCQ("", m)>> : n \in {A, B}, m \in {B, C}}

MCGraphs ==
  MCInput({"group"}, {<<MCDoc("t", "t", Unbound, <<MCDef(A, f), MCDef(B, g), MCDef(C, h)>>)>> : f, g, h \in MCRefLists},
          {<<>>})

(* A document that redefines the definitions of another, before or after it. *)
MCSelf == {<<>>, <<MCQ("", A)>>, <<MCQ(Prefix, A)>>, <<MCQ("", B)>>}

MCRedefining ==
  {[MCDoc("t", default, "t", <<MCDef(C, q)>>) EXCEPT !.includes = TRUE, !.redefines = r] :
     default \in {"", "t"}, q \in MCSelf,
     r \in {<<MCDef(A, self)>> : self \in MCSelf}
             \cup {<<MCDef(A, self), MCDef(n, <<MCQ("", n)>>)>> : self \in {<<>>, <<MCQ("", A)>>}, n \in {A, B}}}

MCRedefined ==
  {MCDoc("t", "t", Unbound, defs) :
     defs \in {<<MCDef(A, a), MCDef(B, b)>> : a \in {<<>>, <<MCQ("", B)>>}, b \in {<<>>, <<MCQ("", A)>>}}}

MCRedefinitions ==
  MCInput(MCClasses, MCRedefining \X MCRedefined, {<<>>}) \cup MCInput(MCClasses, MCRedefined \X MCRedefining, {<<>>})

-------------------------------------------------------------------------------
MCStr == <<"string", "anyType">>
MCTok == <<"token", "string", "anyType">>

MCLeaf(n, supers, b) ==
  [kind |-> "element", name |-> n, ns |-> "", supers |-> supers, anonymous |-> FALSE,
   nillable |-> FALSE, members |-> {}, min |-> b[1], max |-> b[2]]
MCWild(space, strength, b) ==
  [kind |-> "wildcard", space |-> space, uris |-> {""}, strength |-> strength, min |-> b[1], max |-> b[2]]
MCGroup(k, items, b) == [kind |-> k, items |-> items, min |-> b[1], max |-> b[2]]
MCGroupRef(n, b) == [kind |-> "group", ref |-> MCQ("", n), min |-> b[1], max |-> b[2]]
MCType(derivation, particle) ==
  [derivation |-> derivation, particle |-> particle, attrs |-> <<>>, groups |-> <<>>, any |-> Absent]

MCKinds == {"sequence", "choice"}
MCBounds == {<<1, 1>>, <<0, 1>>, <<1, 2>>, <<0, Unbounded>>}

(* Groups that refer to groups, in types that extend one another.          *)
MCGroupDef(n, p, refs) == [name |-> n, refs |-> refs, particle |-> p]

MCMembers ==
  {MCGroup(k, <<MCLeaf("a", MCStr, <<1, 1>>), MCLeaf("b", MCStr, b)>>, g) :
     k \in MCKinds, b \in {<<1, 1>>, <<0, 2>>}, g \in {<<1, 1>>, <<2, 3>>}}
  \cup {MCGroup("all", <<MCLeaf("a", MCStr, <<1, 1>>), MCLeaf("b", MCStr, <<0, 1>>)>>, <<m, 1>>) : m \in {0, 1}}

MCOwn ==
  {MCGroup(k, <<MCGroupRef(B, b), MCLeaf("c", MCStr, <<1, 1>>)>>, g) :
     k \in MCKinds, b \in {<<0, 1>>, <<2, 2>>}, g \in {<<1, 1>>, <<0, 2>>}}
  \cup {MCGroupRef(n, b) : n \in {A, B}, b \in {<<1, 1>>, <<1, 2>>}} \cup {Nothing}

MCLibraries ==
  {<<MCDoc("t", "t", Unbound,
      <<MCGroupDef(A, a, <<>>),
        MCGroupDef(B, MCGroup("sequence", <<MCGroupRef(A, r), MCGroupRef(n, <<1, 1>>)>>, <<1, 1>>), <<MCQ("", A), MCQ("", n)>>),
        MCGroupDef(C, MCGroup("choice", <<MCLeaf("c", MCStr, <<1, 1>>), MCLeaf("d", MCStr, <<1, 2>>)>>, <<1, 1>>), <<>>)>>)>> :
     a \in MCMembers, r \in {<<1, 1>>, <<0, 1>>, <<2, 2>>}, n \in {B, C}}

MCExtending ==
  MCInput({"group"}, MCLibraries, {<<MCType("none", p), MCType("extension", q)>> : p, q \in MCOwn})

(* Restrictions.                                                           *)
MCBaseLeaves ==
  {MCLeaf("a", MCStr, b) : b \in {<<1, 1>>, <<0, 1>>, <<1, 2>>}}
  \cup {MCLeaf("b", MCStr, b) : b \in {<<1, 1>>, <<0, Unbounded>>}} \cup {MCWild("any", 1, b) : b \in {<<1, 1>>, <<0, 2>>}}

MCDerivedLeaves ==
  {MCLeaf("a", MCTok, b) : b \in {<<1, 1>>, <<0, 1>>, <<2, 2>>}}
  \cup {MCLeaf("b", MCStr, b) : b \in {<<1, 1>>, <<0, 2>>}} \cup {MCLeaf("a", <<"x">>, <<1, 1>>)}

MCOf1(L) == {MCGroup(k, <<x>>, b) : k \in MCKinds, x \in L, b \in MCBounds}

MCDiffer(x, y) == x.kind # y.kind \/ (x.kind = "element" /\ x.name # y.name)

MCOf2(L) == UNION {{MCGroup(k, <<x, y>>, b) : k \in MCKinds, b \in MCBounds} :
                     <<x, y>> \in {z \in L \X L : MCDiffer(z[1], z[2])}}

MCAlls(L) ==
  UNION {{MCGroup("all", <<x, y>>, b) : b \in {<<1, 1>>, <<0, 1>>}} :
           <<x, y>> \in {z \in L \X L : MCDiffer(z[1], z[2]) /\ \A i \in 1 .. 2 : z[i].kind = "element" /\ z[i].max = 1}}

MCInner ==
  {MCGroup(k, <<MCLeaf("a", MCStr, <<1, 1>>), MCLeaf("b", MCStr, <<0, 1>>)>>, b) :
     k \in MCKinds, b \in {<<1, 1>>, <<0, 1>>, <<0, 0>>}}

MCNested(L) == {MCGroup(k, <<x, g>>, b) : k \in MCKinds, x \in L, g \in MCInner, b \in {<<1, 1>>, <<1, 2>>}}

MCBases == MCOf1(MCBaseLeaves) \cup MCOf2(MCBaseLeaves) \cup MCAlls(MCBaseLeaves)
             \cup MCNested({MCLeaf("a", MCStr, <<0, 1>>), MCLeaf("b", MCStr, <<1, 1>>)})

MCDeriveds == MCOf1(MCDerivedLeaves) \cup MCOf2(MCDerivedLeaves) \cup MCAlls(MCDerivedLeaves)
                \cup MCNested({MCLeaf("a", MCStr, <<1, 1>>), MCLeaf("b", MCStr, <<0, 1>>), MCLeaf("b", MCStr, <<1, 1>>)})

(* Declarations and wildcards of all sorts.                                *)
MCSorts ==
  {[MCLeaf(n, supers, b) EXCEPT !.ns = ns, !.anonymous = anon, !.nillable = nil] :
     n \in {"a", "b"}, supers \in {MCStr, MCTok, <<"x">>, <<"anyType">>}, b \in {<<1, 1>>, <<0, 2>>},
     ns \in {"", "t", Guessed}, anon \in BOOLEAN, nil \in BOOLEAN}
  \cup {MCWild(w, k, b) : w \in {"any", "other", "list"}, k \in {1, 2}, b \in {<<1, 1>>, <<0, 2>>}}

MCBaseSorts ==
  {l \in MCSorts : l.kind = "wildcard" \/ l.name = "a"} \cup {[MCLeaf("a", MCStr, <<1, 1>>) EXCEPT !.members = {"b"}]}

MCDerivedSorts == {l \in MCSorts : l.max = 1}

MCEmpty == {<<MCDoc("t", "t", Unbound, <<>>)>>}

MCTypes(derivation, P) == {MCType(derivation, p) : p \in P}

MCGlobal(what, n, type, default, fixed) ==
  [what |-> what, ns |-> "t", name |-> n, type |-> type, default |-> default, fixed |-> fixed]

MCGlobals(n) == {<<MCGlobal("element", n, Absent, Absent, Absent)>>}

(* An element in two places.                                               *)
MCTwice ==
  {MCGroup("sequence", <<MCLeaf("a", MCStr, <<1, 1>>), MCLeaf("b", MCStr, <<1, 1>>), MCLeaf("a", MCStr, b)>>, <<1, 1>>) :
     b \in {<<1, 1>>, <<1, 3>>, <<0, 1>>}}

MCRestrictions ==
  LET Of(base, derived) ==
        MCSet({"type"}, MCEmpty, MCTypes("none", base) \X MCTypes("restriction", derived), MCGlobals("b"), {<<>>}, {<<>>}, {<<>>})
  IN  Of(MCBases \cup {Nothing}, MCDeriveds \cup {Nothing}) \cup Of(MCTwice, MCTwice)

MCSortPairs ==
  MCInput({"type"}, MCEmpty, MCTypes("none", {MCGroup("choice", <<l>>, <<1, 1>>) : l \in MCBaseSorts})
                               \X MCTypes("restriction", {MCGroup("sequence", <<l>>, <<1, 1>>) : l \in MCDerivedSorts}))

(* Of an extended type.                                                    *)
MCOfExtended ==
  MCInput({"type"}, MCEmpty,
          MCTypes("none", MCInner \cup {Nothing}) \X MCTypes("extension", MCOf1({MCLeaf("a", MCStr, <<0, 1>>), MCLeaf("b", MCStr, <<1, 1>>), MCWild("any", 1, <<0, 2>>)}) \cup {Nothing})
            \X MCTypes("restriction", MCOf2(MCDerivedLeaves) \cup {Nothing}))

MCLeafGroup == MCGroup("sequence", <<MCLeaf("a", MCStr, <<1, 1>>)>>, <<1, 1>>)

(* Declarations of one name, and extensions by xs:all.                     *)
MCClashes ==
  LET Clashing == {MCLeaf("a", MCStr, <<1, 1>>), MCLeaf("a", MCTok, <<0, 1>>), [MCLeaf("a", MCStr, <<1, 1>>) EXCEPT !.ns = Guessed],
                   [MCLeaf("a", MCTok, <<1, 1>>) EXCEPT !.anonymous = TRUE]}
  IN  {MCGroup("sequence", <<x, y, z>>, <<1, 1>>) : x, y, z \in Clashing}

MCContents ==
  MCInput({"type"}, MCEmpty, MCTypes("none", MCClashes) \X MCTypes("extension", {Nothing, MCLeafGroup}))
    \cup MCInput({"type"}, MCEmpty,
                 MCTypes("none", {Nothing, MCLeafGroup})
                   \X MCTypes("extension", {Nothing, MCGroup("all", <<>>, <<1, 1>>), MCGroup("all", <<MCLeaf("b", MCStr, <<1, 1>>)>>, <<1, 1>>)}))

-------------------------------------------------------------------------------
(* Simple types, and texts for them.                                       *)

MCInt(sign, digits) == Number(sign, digits)
MCDec(sign, i, f) == [Number(sign, i) EXCEPT !.point = TRUE, !.frac = f]
MCExp(i, e) == [Number("", i) EXCEPT !.exp = e]
MCLit(is) == [form |-> "literal", is |-> is]
MCName(chars) == [form |-> "name", chars |-> chars]
MCText(w) == Clean(<<w>>)

MCStep(n, base, facets) == [name |-> n, doc |-> 1, variety |-> "restriction", of |-> <<base>>, facets |-> facets]
MCMade(n, variety, of) == [name |-> n, doc |-> 1, variety |-> variety, of |-> of, facets |-> <<>>]
MCFacet(f, v) == <<[facet |-> f, value |-> v]>>
MCRef(k) == [to |-> "type", type |-> k]
MCInline(d) == [to |-> "inline", def |-> d]

MCSimple(types, texts) ==
  MCSet({"type"}, MCEmpty, {<<>>}, {<<>>}, {<<>>}, types, {texts})

(* A type over another over a built-in one.                                *)
MCChains(bases, F, G) ==
  {<<MCStep(A, Builtin(b), f), MCStep(B, MCRef(1), g)>> : b \in bases, f \in F, g \in G}

MCRanges(values) == {MCFacet(f, MCText(v)) : f \in RangeFacets, v \in values}
MCCounts(facets, counts) == {MCFacet(f, n) : f \in facets, n \in counts}

MCNumbers ==
  <<MCText(MCInt("", <<0>>)), MCText(MCInt("-", <<0>>)), MCText(MCInt("+", <<0, 5>>)), MCText(MCDec("", <<5>>, <<0>>)),
    MCText(MCDec("", <<5>>, <<2, 5>>)), MCText(MCInt("", <<1, 0>>)), MCText(MCInt("-", <<5>>)), MCText(MCDec("-", <<>>, <<5>>)),
    MCText(MCInt("", <<1, 2, 8>>)), MCText(MCInt("-", <<1, 2, 8>>)), MCText(MCExp(<<5, 0>>, -1)), MCText(MCLit("INF")),
    MCText(MCLit("NaN")), [words |-> <<MCInt("", <<5>>)>>, white |-> "tabs"], Clean(<<>>),
    Clean(<<MCInt("", <<5>>), MCInt("", <<6>>)>>)>>

MCBoundsOfNumbers == MCRanges({MCInt("", <<5>>), MCDec("", <<0, 5>>, <<2>>), MCInt("-", <<5>>), MCInt("", <<1, 0>>)})
MCFewBounds == MCRanges({MCInt("", <<5>>)}) \cup MCCounts(DigitFacets, {0, 2}) \cup {<<>>}
MCDigitsOfNumbers == MCCounts(DigitFacets, {0, 1, 2}) \cup {<<>>}

MCTwoBounds == {l \o h : l \in MCRanges({MCInt("", <<5>>), MCInt("-", <<1>>)}), h \in MCRanges({MCInt("", <<5>>), MCInt("", <<9>>)})}

MCNumeric ==
  MCSimple(MCChains({"decimal"}, MCBoundsOfNumbers \cup MCDigitsOfNumbers, MCBoundsOfNumbers \cup MCDigitsOfNumbers)
             \cup MCChains({"integer", "byte", "unsignedByte", "float"}, MCBoundsOfNumbers, MCFewBounds)
             \cup MCChains({"decimal"}, MCTwoBounds, MCBoundsOfNumbers), MCNumbers)

MCWord(c) == MCName(<<c>>)
MCStrings ==
  <<Clean(<<>>), [words |-> <<>>, white |-> "spaces"], MCText(MCWord("a")), [words |-> <<MCWord("a")>>, white |-> "spaces"],
    [words |-> <<MCWord("a")>>, white |-> "tabs"], Clean(<<MCWord("a"), MCWord("a")>>), MCText(MCName(<<"a", "e">>)),
    MCText(MCName(<<"a", "-", "g", "e">>)), MCText(MCName(<<"a", "e", "A", "=">>)), MCText(MCName(<<"a", ":", "e">>)),
    MCText(MCInt("", <<1, 2>>))>>

MCLengths == MCCounts(LengthFacets, {0, 1, 2})
MCWhite == MCCounts({"whiteSpace"}, {"preserve", "replace", "collapse"})
MCChoices ==
  {MCFacet("pattern", {MCStrings[3], MCStrings[4]}), MCFacet("pattern", {MCStrings[3]}) \o MCFacet("pattern", {MCStrings[6]}),
   MCFacet("enumeration", MCStrings[3]), MCFacet("enumeration", MCStrings[3]) \o MCFacet("enumeration", MCStrings[7])}

MCOfStrings ==
  MCSimple(MCChains({"string", "normalizedString", "token", "NMTOKEN"}, MCLengths \cup MCWhite \cup MCChoices \cup {<<>>},
                    MCLengths \cup MCWhite \cup MCChoices)
             \cup MCChains({"hexBinary", "base64Binary", "QName", "NMTOKENS"}, MCLengths \cup {<<>>}, MCLengths \cup MCChoices)
             \cup MCChains({"string"}, {<<>>}, {l \o m : l, m \in MCLengths})
             \cup MCChains({"NMTOKENS"}, {l \o m : l, m \in MCLengths}, {<<>>}), MCStrings)

(* Dates and times around the ends of days, months and years.              *)
MCZone(s, h, m) == [sign |-> s, hours |-> h, minutes |-> m]
MCZones == <<Absent, MCZone(1, 0, 0), MCZone(1, 14, 0), MCZone(-1, 14, 0), MCZone(1, 14, 1)>>
MCMoment(shape, y, m, d, h, mi, z) ==
  [form |-> "temporal", shape |-> shape, year |-> y, month |-> m, day |-> d, hour |-> h, minute |-> mi, second |-> 0,
   tenths |-> Absent, zone |-> z]

MCDays(shape) ==
  <<MCText(MCMoment(shape, 2000, 2, 29, 0, 0, MCZones[3])), MCText(MCMoment(shape, 2000, 3, 1, 0, 0, Absent)),
    MCText(MCMoment(shape, 1999, 12, 31, 0, 0, MCZones[4])), MCText(MCMoment(shape, 2000, 1, 1, 0, 0, MCZones[2])),
    MCText(MCMoment(shape, 1900, 2, 29, 0, 0, Absent)), MCText(MCMoment(shape, 1900, 2, 28, 0, 0, MCZones[4])),
    MCText(MCMoment(shape, 1900, 3, 1, 0, 0, MCZones[2])), MCText(MCMoment(shape, 2000, 1, 1, 0, 0, MCZones[5]))>>

MCInstants ==
  <<MCText(MCMoment("dateTime", 2000, 2, 28, 24, 0, Absent)), MCText(MCMoment("dateTime", 2000, 2, 29, 14, 0, MCZones[3])),
    MCText(MCMoment("dateTime", 1999, 12, 31, 10, 0, MCZones[4])), MCText(MCMoment("dateTime", 2000, 1, 1, 0, 0, MCZones[2])),
    MCText([MCMoment("dateTime", 1999, 12, 31, 23, 59, Absent) EXCEPT !.second = 60]),
    MCText([MCMoment("dateTime", 1999, 12, 31, 23, 59, Absent) EXCEPT !.second = 59, !.tenths = 9]),
    MCText(MCMoment("dateTime", 2000, 1, 1, 24, 1, Absent)), MCText(MCMoment("dateTime", 2000, 13, 1, 0, 0, Absent))>>

MCTimes ==
  <<MCText(MCMoment("time", 2000, 1, 1, 0, 30, MCZones[3])), MCText(MCMoment("time", 2000, 1, 1, 10, 0, Absent)),
    MCText(MCMoment("time", 2000, 1, 1, 23, 59, MCZones[4])), MCText(MCMoment("time", 2000, 1, 1, 10, 0, MCZones[2])),
    MCText([MCMoment("time", 2000, 1, 1, 9, 59, MCZones[2]) EXCEPT !.second = 60])>>

MCSpan(negative, y, m, d, t, h) ==
  [form |-> "duration", negative |-> negative, years |-> y, months |-> m, days |-> d, t |-> t, hours |-> h,
   minutes |-> Absent, seconds |-> Absent, tenths |-> Absent]
MCSpans ==
  <<MCText(MCSpan(FALSE, 1, Absent, Absent, FALSE, Absent)), MCText(MCSpan(FALSE, Absent, 12, Absent, FALSE, Absent)),
    MCText(MCSpan(FALSE, Absent, 1, Absent, FALSE, Absent)), MCText(MCSpan(FALSE, Absent, Absent, 30, FALSE, Absent)),
    MCText(MCSpan(TRUE, Absent, Absent, 1, TRUE, 3)), MCText(MCSpan(FALSE, Absent, Absent, Absent, TRUE, 24)),
    MCText(MCSpan(FALSE, Absent, Absent, 1, TRUE, Absent)), MCText(MCSpan(FALSE, Absent, Absent, Absent, FALSE, Absent))>>

MCZoneRules == MCCounts({"explicitTimezone"}, {"required", "prohibited", "optional"}) \cup {<<>>}

MCOfMoments(kinds, texts) ==
  LET bounds == {MCFacet(f, texts[k]) : f \in RangeFacets, k \in 1 .. 4}
  IN  MCSimple(MCChains(kinds, bounds, bounds \cup MCZoneRules) \cup MCChains(kinds, MCZoneRules, MCZoneRules), texts)

MCTemporal ==
  MCOfMoments({"date"}, MCDays("date")) \cup MCOfMoments({"dateTime", "dateTimeStamp"}, MCInstants)
    \cup MCOfMoments({"time"}, MCTimes) \cup MCOfMoments({"duration", "yearMonthDuration"}, MCSpans)

(* Lists and unions, and what is made of them.                             *)
MCItem(f) == MCStep(A, Builtin("byte"), f)
MCMixed == MCNumbers \o MCStrings \o <<Clean(<<MCWord("a"), MCInt("", <<5>>)>>), Clean(<<MCInt("", <<5>>), MCInt("", <<9>>)>>)>>

MCSome ==
  <<MCNumbers[1], MCNumbers[3], MCNumbers[4], MCNumbers[5], MCNumbers[6], MCNumbers[9]>> \o SubSeq(MCNumbers, 12, 16)
    \o <<MCStrings[2], MCStrings[3], MCStrings[5], MCStrings[6], MCStrings[7]>> \o SubSeq(MCMixed, 28, 29)

MCVarieties ==
  LET members == {Builtin("integer"), Builtin("NCName"), MCRef(1), MCInline(MCStep(Absent, Builtin("token"), MCFacet("maxLength", 1)))}
      parts   == {Builtin("double"), Builtin("string"), MCRef(1), MCInline(MCStep(Absent, Builtin("byte"), MCFacet("minInclusive", MCText(MCInt("", <<6>>)))))}
      items   == {MCFacet("minInclusive", MCText(MCInt("", <<6>>))), <<>>}
      F       == MCCounts(LengthFacets, {1, 2}) \cup {MCFacet("enumeration", Clean(<<MCWord("a"), MCInt("", <<5>>)>>)),
                   MCFacet("pattern", {MCText(MCWord("a")), MCText(MCInt("", <<1, 0>>))}), MCFacet("whiteSpace", "collapse"),
                   MCFacet("whiteSpace", "preserve"), MCFacet("totalDigits", 1), <<>>}
  IN  {<<MCItem(i), MCMade(B, "list", <<p>>), MCStep(C, MCRef(2), f)>> : i \in items, p \in parts, f \in F}
        \cup {<<MCItem(i), MCMade(B, "union", <<p, q>>), MCStep(C, MCRef(2), f)>> : i \in items, p, q \in members, f \in F}
        \cup {<<MCItem(i), MCMade(B, "union", <<MCRef(1), Builtin("NCName")>>), MCMade(C, "list", <<MCRef(2)>>)>> : i \in items}
        \cup {<<MCItem(i), MCStep(B, MCInline(MCMade(Absent, v, <<p>>)), f)>> : i \in items, v \in {"list", "union"}, p \in parts, f \in F}
        \cup {<<MCItem(i), MCStep(B, MCInline(MCStep(Absent, MCRef(1), f)), g)>> : i \in items, f, g \in F}

(* Two documents, with types of one name.                                  *)
MCNamesakes ==
  {<<MCItem(f), [MCItem(g) EXCEPT !.doc = 2]>> : f, g \in MCRanges({MCInt("", <<5>>)})}
    \cup {<<MCItem(f), [MCStep(B, MCRef(1), g) EXCEPT !.doc = 2]>> : f, g \in MCRanges({MCInt("", <<5>>)})}

MCAcross ==
  MCSet({"type"}, {<<MCDoc("t", "t", Unbound, <<>>), MCDoc("u", "u", Unbound, <<>>)>>}, {<<>>}, {<<>>}, {<<>>},
        MCNamesakes, {MCNumbers})

(* Every built-in type, and keys of one and another.                       *)
MCWords == MCMixed \o MCDays("date") \o MCDays("gMonthDay") \o MCInstants \o MCTimes \o MCSpans
             \o <<MCText(MCLit("true")), MCText(MCLit("false")), MCText(MCInt("", <<1>>))>>

MCAlone == {<<MCStep(A, Builtin(b), <<>>)>> : b \in Kinds \cup DOMAIN StringTypes \cup DOMAIN ListTypes \cup {"NOTATION"}}

MCKeyKinds == {"decimal", "byte", "nonNegativeInteger", "float", "double", "boolean", "date", "dateTime", "time", "gMonthDay"}

MCKeys == {<<MCStep(A, Builtin(b), <<>>), MCStep(B, Builtin(c), <<>>)>> : b, c \in MCKeyKinds}

MCValues ==
  MCNumeric \cup MCOfStrings \cup MCTemporal \cup MCSimple(MCVarieties, MCSome) \cup MCAcross \cup MCSimple(MCAlone \cup MCKeys, MCWords)

-------------------------------------------------------------------------------
(* Attributes along chains of types, of integers over one another.         *)

MCIntegers == {<<MCStep(A, Builtin("integer"), <<>>), MCStep(B, MCRef(1), <<>>)>>}
MCFive == MCText(MCInt("", <<5>>))
MCZeroFive == MCText(MCInt("", <<0, 5>>))
MCSix == MCText(MCInt("", <<6>>))
MCFives == {<<MCZeroFive, MCSix>>}

MCUse(n, type, use, fixed) ==
  [ref |-> FALSE, ns |-> "", name |-> n, type |-> type, use |-> use, default |-> Absent, fixed |-> fixed]
MCUseOf(n, use, fixed) == [MCUse(n, Absent, use, fixed) EXCEPT !.ref = TRUE, !.ns = "t"]
MCHas(derivation, attrs, groups, any) ==
  [MCType(derivation, Nothing) EXCEPT !.attrs = attrs, !.groups = groups, !.any = any]
MCAny(space, strength) == [space |-> space, uris |-> {""}, strength |-> strength]

MCUsesOf(n, uses, fixed) ==
  {<<MCUse(n, type, use, f)>> : type \in {Absent, MCRef(2)}, use \in uses, f \in fixed} \cup {<<MCUseOf(n, use, f)>> : use \in uses, f \in fixed}

MCBaseUses == {<<>>} \cup MCUsesOf("x", {"optional", "required"}, {Absent, MCFive})
MCDerivedUses ==
  {<<>>} \cup MCUsesOf("x", {"optional", "required", "prohibited"}, {Absent, MCFive, MCZeroFive, MCSix})
    \cup {<<MCUse("y", MCRef(1), "optional", Absent)>>, <<MCUseOf("y", "optional", Absent)>>,
          <<MCUse("x", MCRef(2), "required", Absent), MCUse("y", Absent, "required", MCSix)>>}
MCWilds == {Absent, MCAny("any", 1), MCAny("list", 0), MCAny("other", 2)}

MCGlobalX == <<MCGlobal("attribute", "x", MCRef(2), Absent, Absent)>>

MCPairsOfUses ==
  MCSet({"type"}, MCEmpty,
        {<<MCHas("none", u, <<>>, w), MCHas("restriction", v, <<>>, x)>> : u \in MCBaseUses, w, x \in MCWilds, v \in MCDerivedUses},
        {MCGlobalX}, {<<>>}, MCIntegers, MCFives)

(* A step in between.                                                      *)
MCMiddleUses ==
  {<<>>, <<MCUse("x", Absent, "prohibited", Absent)>>, <<MCUse("x", MCRef(2), "required", MCZeroFive)>>,
   <<MCUse("y", MCRef(1), "optional", Absent)>>}

MCTriplesOfUses ==
  MCSet({"type"}, MCEmpty,
        {<<MCHas("none", u, <<>>, w), MCHas(d, v, <<>>, x), MCHas("restriction", t, <<>>, Absent)>> :
           u \in {<<>>, <<MCUse("x", MCRef(2), "optional", MCFive)>>, <<MCUse("x", MCRef(2), "required", Absent)>>},
           w, x \in {Absent, MCAny("any", 1)}, d \in {"extension", "restriction"}, v \in MCMiddleUses, t \in MCDerivedUses},
        {<<>>}, {<<>>}, MCIntegers, MCFives)

(* Groups that refer to groups, and to one that there is not.              *)
MCAttributeGroup(attrs, groups, any) == [attrs |-> attrs, groups |-> groups, any |-> any]

MCOfGroups ==
  MCSet({"type"}, MCEmpty,
        {<<MCHas("none", u, g, w), MCHas("restriction", v, h, x)>> :
           u, v \in {<<>>, <<MCUse("x", MCRef(2), "optional", Absent)>>}, g, h \in {<<>>, <<1>>, <<1, 2>>, <<2, 3>>},
           w, x \in {Absent, MCAny("list", 1)}},
        {<<>>},
        {<<MCAttributeGroup(<<MCUse("x", MCRef(2), use, MCFive)>>, <<2>>, w), MCAttributeGroup(<<MCUse("y", MCRef(1), "required", Absent)>>, n, x)>> :
           use \in {"optional", "prohibited"}, n \in {<<>>, <<3>>}, w, x \in {Absent, MCAny("any", 2)}},
        MCIntegers, MCFives)

-------------------------------------------------------------------------------
(* Values that declarations give.                                          *)

MCSomeTypes ==
  MCChains({"integer", "float"}, {<<>>, MCFacet("maxInclusive", MCFive)}, {<<>>, MCFacet("enumeration", MCFive), MCFacet("pattern", {MCZeroFive})})
    \cup MCChains({"string", "token", "NCName", "ID", "NMTOKENS"}, {<<>>, MCFacet("maxLength", 1)},
                  {<<>>, MCFacet("enumeration", MCText(MCWord("a"))), MCFacet("whiteSpace", "collapse")})
    \cup {<<MCItem(<<>>), MCMade(B, v, of)>> : v \in {"list", "union"}, of \in {<<MCRef(1)>>, <<Builtin("string")>>}}
    \cup {<<MCItem(<<>>), MCMade(B, "union", <<MCRef(1), Builtin("token")>>)>>}

MCGiven ==
  {MCFive, MCZeroFive, MCSix, MCText(MCWord("a")), MCText(MCName(<<"a", "e">>)), [MCFive EXCEPT !.white = "tabs"],
   [MCText(MCWord("a")) EXCEPT !.white = "spaces"], Clean(<<MCWord("a"), MCWord("a")>>), MCText(MCName(<<"a", "=">>)), Clean(<<>>)}

MCReferred == {MCRef(2), Builtin("integer"), Builtin("ID"), Builtin("token"), Builtin("NMTOKENS"), MCInline(MCStep(Absent, MCRef(2), <<>>)), Absent}

MCGivenByGlobals ==
  MCSet({"type"}, MCEmpty, {<<>>},
        {<<MCGlobal(what, "x", type, v, Absent)>> : what \in {"element", "attribute"}, type \in MCReferred, v \in MCGiven}
          \cup {<<MCGlobal("element", "x", [to |-> "complex", text |-> b], MCFive, Absent)>> : b \in BOOLEAN},
        {<<>>}, MCSomeTypes, {<<>>})

MCGivenByUses ==
  MCSet({"type"}, MCEmpty,
        {<<MCHas("none", <<MCUse(n, type, "optional", v), MCUse("y", MCRef(1), "optional", Absent)>>, <<>>, Absent)>> :
           n \in {"x", "y"}, type \in MCReferred, v \in MCGiven}, {<<>>}, {<<>>}, MCSomeTypes, {<<>>})

MCGivenByRefs ==
  MCSet({"type"}, MCEmpty, {<<MCHas("none", <<MCUseOf("x", "optional", v)>>, <<>>, Absent)>> : v \in MCGiven},
        {<<MCGlobal("attribute", "x", type, Absent, fixed)>> :
           type \in {MCRef(2), Builtin("integer"), Builtin("token")}, fixed \in {MCFive, Absent, MCText(MCWord("a"))}},
        {<<>>}, MCSomeTypes, {<<>>})

MCAttributes == MCPairsOfUses \cup MCTriplesOfUses \cup MCOfGroups \cup MCGivenByGlobals \cup MCGivenByUses \cup MCGivenByRefs

MCInputs ==
  MCPairs \cup MCGraphs \cup MCRedefinitions \cup MCExtending
    \cup MCRestrictions \cup MCSortPairs \cup MCOfExtended \cup MCContents \cup MCValues \cup MCAttributes

===============================================================================
