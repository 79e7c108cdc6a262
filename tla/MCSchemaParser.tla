----------------------------- MODULE MCSchemaParser -----------------------------
(* Small schema documents: every kind of element with every pair of        *)
(* children; attributes one at a time; names, prefixes and conditions.     *)
EXTENDS SchemaGrammar

MCXsdNs == "urn:xs"
MCVcNs == "urn:vc"
MCNCNames == {"a", "b", "c", "t", "p", "xs", "xmlns", "string"}
MCNumber == [n \in {"0", "1", "2", "3"} |-> CASE n = "0" -> 0 [] n = "1" -> 1 [] n = "2" -> 2 [] n = "3" -> 3]
MCUnlimited == 99
MCBuiltins == {"string"}
MCNoPrefix == "none"

-------------------------------------------------------------------------------
El(local, attrs, kids) ==
  [prefix |-> "xs", local |-> local, decls |-> <<>>, attrs |-> attrs, qualified |-> {}, kids |-> kids]

Bindings == [xs |-> MCXsdNs, t |-> "urn:t", vc |-> MCVcNs]

RootOf(attrs, kids) == [El("schema", attrs, kids) EXCEPT !.decls = Bindings]
Root(kids) == RootOf([targetNamespace |-> "urn:t"], kids)

Q(local) == [prefix |-> "t", local |-> local]
String == [prefix |-> "xs", local |-> "string"]

Letter(i) == <<"a", "b", "c">>[i]

Tok(is) == [is |-> is, prefix |-> "", name |-> ""]
Nm(prefix, name) == [is |-> "name", prefix |-> prefix, name |-> name]

(* The smallest element of a kind, for the i-th child, at the top or not.  *)
Selector == El("selector", [xpath |-> <<<<Nm("", "a")>>>>], <<>>)
Field == El("field", [xpath |-> <<<<Nm("", "b")>>>>], <<>>)

Smallest(local, i, top) ==
  LET name == [name |-> Letter(i)]
      ref  == [ref |-> Q(Letter(i))]
      base == [base |-> Q("a")]
  IN  CASE local \in {"element", "attribute"} -> El(local, name, <<>>)
        [] local = "complexType" -> El(local, IF top THEN name ELSE <<>>, <<>>)
        [] local = "simpleType" -> El(local, IF top THEN name ELSE <<>>, <<El("restriction", [base |-> String], <<>>)>>)
        [] local = "group" -> IF top THEN El(local, name, <<El("sequence", <<>>, <<>>)>>) ELSE El(local, ref, <<>>)
        [] local = "attributeGroup" -> El(local, IF top THEN name ELSE ref, <<>>)
        [] local \in {"simpleContent", "complexContent"} -> El(local, <<>>, <<El("extension", base, <<>>)>>)
        [] local \in {"restriction", "extension"} -> El(local, base, <<>>)
        [] local = "list" -> El(local, [itemType |-> String], <<>>)
        [] local = "union" -> El(local, [memberTypes |-> <<String>>], <<>>)
        [] local \in {"include", "redefine"} -> El(local, [schemaLocation |-> "l"], <<>>)
        [] local = "import" -> El(local, [namespace |-> "urn:t", schemaLocation |-> "l"], <<>>)
        [] local \in {"unique", "key"} -> El(local, name, <<Selector, Field>>)
        [] local = "keyref" -> El(local, name @@ [refer |-> Q("a")], <<Selector, Field>>)
        [] local = "selector" -> Selector
        [] local = "field" -> Field
        [] local \in SizeFacets -> El(local, [value |-> <<"2", "1", "3">>[i]], <<>>)
        [] local \in Facets -> El(local, [value |-> Letter(i)], <<>>)
        [] local = "notation" -> El(local, name @@ [public |-> "a"], <<>>)
        [] OTHER -> El(local, <<>>, <<>>)

-------------------------------------------------------------------------------
(* The smallest document with an element of a sort: its attributes, its    *)
(* children, and what is around it.                                        *)
Hosts == {"schema", "redefine", "global element", "element", "elementRef", "global attribute", "attribute", "attributeRef",
          "named complexType", "complexType", "named simpleType", "simpleContent", "complexContent", "restriction",
          "baseless restriction", "simpleContentRestriction", "simpleContentExtension", "complexContentRestriction",
          "complexContentExtension", "list", "itemless list", "union", "memberless union", "group", "groupRef",
          "attributeGroup", "attributeGroupRef", "sequence", "choice", "all", "any", "anyAttribute", "unique", "keyref",
          "selector", "field", "import", "include", "pattern", "minLength", "whiteSpace", "notation"}

LocalOf ==
  [h \in Hosts |->
    CASE h \in {"global element", "elementRef"}     -> "element"
      [] h \in {"global attribute", "attributeRef"} -> "attribute"
      [] h = "named complexType"                    -> "complexType"
      [] h = "named simpleType"                     -> "simpleType"
      [] h \in {"baseless restriction", "simpleContentRestriction", "complexContentRestriction"} -> "restriction"
      [] h \in {"simpleContentExtension", "complexContentExtension"} -> "extension"
      [] h = "itemless list"                        -> "list"
      [] h = "memberless union"                     -> "union"
      [] h = "groupRef"                             -> "group"
      [] h = "attributeGroupRef"                    -> "attributeGroup"
      [] OTHER                                      -> h]

AttrsOf(h) ==
  LET local == LocalOf[h]
  IN  CASE h = "schema"                                              -> [targetNamespace |-> "urn:t"]
        [] h \in {"elementRef", "attributeRef", "groupRef", "attributeGroupRef"} -> [ref |-> Q("a")]
        [] h \in {"complexType", "baseless restriction", "itemless list", "memberless union"} -> <<>>
        [] local \in {"restriction", "extension"}                    -> [base |-> Q("a")]
        [] local = "keyref"                                          -> [name |-> "p", refer |-> Q("a")]
        [] local \in {"element", "attribute", "complexType", "simpleType", "group", "attributeGroup", "unique"} -> [name |-> "p"]
        [] OTHER                                                     -> Smallest(local, 1, FALSE).attrs

HostKids(h) ==
  CASE h = "named simpleType"     -> <<El("restriction", [base |-> String], <<>>)>>
    [] h \in {"simpleContent", "complexContent"} -> <<El("extension", [base |-> Q("a")], <<>>)>>
    [] h \in {"baseless restriction", "itemless list", "memberless union"} -> <<Smallest("simpleType", 1, FALSE)>>
    [] h = "group"                -> <<El("sequence", <<>>, <<>>)>>
    [] h \in {"unique", "keyref"} -> <<Selector, Field>>
    [] OTHER                      -> <<>>

InType(e) == El("complexType", [name |-> "t"], <<e>>)
InSimple(e) == El("simpleType", [name |-> "t"], <<e>>)
InElement(e) == El("element", [name |-> "t"], <<e>>)

Around(h, e) ==
  CASE h = "schema" -> [e EXCEPT !.decls = Bindings]
    [] h \in {"redefine", "import", "include", "global element", "global attribute", "named complexType",
              "named simpleType", "group", "attributeGroup", "notation"} -> Root(<<e>>)
    [] h \in {"element", "elementRef", "any"} -> Root(<<InType(El("sequence", <<>>, <<e>>))>>)
    [] h \in {"simpleContentRestriction", "simpleContentExtension"} -> Root(<<InType(El("simpleContent", <<>>, <<e>>))>>)
    [] h \in {"complexContentRestriction", "complexContentExtension"} -> Root(<<InType(El("complexContent", <<>>, <<e>>))>>)
    [] h \in {"restriction", "baseless restriction", "list", "itemless list", "union", "memberless union"} -> Root(<<InSimple(e)>>)
    [] h \in {"complexType", "unique", "keyref"} -> Root(<<InElement(e)>>)
    [] h = "selector" -> Root(<<InElement(El("key", [name |-> "p"], <<e, Field>>))>>)
    [] h = "field" -> Root(<<InElement(El("key", [name |-> "p"], <<Selector, e>>))>>)
    [] h \in Facets -> Root(<<InSimple(El("restriction", [base |-> Q("a")], <<e>>))>>)
    [] OTHER -> Root(<<InType(e)>>)

HostWith(h, attrs, kids) == Around(h, El(LocalOf[h], attrs, kids))

-------------------------------------------------------------------------------
(* Every host with up to two children of every kind.                       *)
Kinds == {"annotation", "element", "attribute", "complexType", "simpleType", "group", "attributeGroup", "sequence",
          "all", "any", "anyAttribute", "complexContent", "restriction", "extension", "list", "import", "unique",
          "selector", "field", "minLength", "pattern"}

WithKinds(h, kinds) ==
  HostWith(h, AttrsOf(h), [i \in DOMAIN kinds |-> Smallest(kinds[i], i, h \in {"schema", "redefine"})])

ByContent == {WithKinds(h, kinds) : h \in Hosts \ {"minLength", "whiteSpace", "include", "field", "notation"},
                kinds \in UNION {[1..n -> Kinds] : n \in 0..2}}

(* And some with three.                                                    *)
Threes == {"annotation", "attribute", "anyAttribute", "sequence", "simpleType", "pattern"}
ByThree == {WithKinds(h, kinds) : kinds \in [1..3 -> Threes],
              h \in {"complexType", "simpleContentRestriction", "complexContentExtension", "restriction"}}

-------------------------------------------------------------------------------
(* Every host with one attribute set, or without one, and with two set.    *)
Candidates(local, a) ==
  CASE a \in {"ref", "type", "base", "itemType", "refer", "substitutionGroup"} ->
         <<Q("a"), [prefix |-> "p", local |-> "b"], Q("-")>>
    [] a = "memberTypes" -> <<<<Q("a"), String>>, <<Q("-")>>, <<>>>>
    [] a \in {"abstract", "nillable", "mixed"} -> <<"true", "0", "yes", "1">>
    [] a \in {"form", "elementFormDefault", "attributeFormDefault"} -> <<"qualified", "unqualified", "yes">>
    [] a = "use" -> <<"optional", "required", "yes">>
    [] a = "processContents" -> <<"lax", "yes">>
    [] a \in {"block", "final", "blockDefault", "finalDefault"} ->
         <<{"#all"}, {"extension"}, {"list"}, {"substitution", "restriction"}, {"#all", "extension"}, {}>>
    [] a = "namespace" /\ local # "import" -> <<{"##any"}, {"##any", "urn:t"}, {"##local", "urn:t"}, {"##other"}>>
    [] a = "minOccurs" -> <<"0", "2", "unbounded", "-">>
    [] a = "maxOccurs" -> <<"1", "unbounded", "0", "-">>
    [] a = "name" -> <<"b", "-", "xmlns">>
    [] a = "id" -> <<"a", "-">>
    [] a = "targetNamespace" -> <<"urn:t", "">>
    [] a = "xpath" -> <<<<<<Nm("", "a")>>>>, <<>>>>
    [] a = "value" -> <<"1", "-">>
    [] OTHER -> <<"a">>

TriedAttributes ==
  {"ref", "type", "base", "itemType", "refer", "substitutionGroup", "memberTypes", "abstract", "nillable", "mixed", "form",
   "attributeFormDefault", "use", "processContents", "block", "final", "finalDefault", "namespace", "minOccurs", "maxOccurs",
   "name", "id", "targetNamespace", "xpath", "value", "default", "fixed", "schemaLocation", "public", "odd"}

Setting(h, a, k) == (a :> Candidates(LocalOf[h], a)[k]) @@ AttrsOf(h)

Without(f, a) == [b \in DOMAIN f \ {a} |-> f[b]]

ByAttribute ==
  UNION {{HostWith(h, Setting(h, a, k), HostKids(h)) : k \in DOMAIN Candidates(LocalOf[h], a)} :
           h \in Hosts, a \in TriedAttributes}
  \cup {HostWith(h, Without(AttrsOf(h), a), HostKids(h)) : h \in Hosts, a \in TriedAttributes}

ByTwo ==
  UNION {{HostWith(h, Setting(h, a, i) @@ Setting(h, b, j), HostKids(h)) : i, j \in 1..2} :
    <<h, a, b>> \in {x \in Hosts \X TriedAttributes \X TriedAttributes :
      /\ {x[2], x[3]} \subseteq Attributes[LocalOf[x[1]]]
      /\ x[2] # x[3]
      /\ \A y \in {x[2], x[3]} : 2 \in DOMAIN Candidates(LocalOf[x[1]], y)}}

-------------------------------------------------------------------------------
(* Facets beside one another.                                              *)
Sized == {El(f, [value |-> v], <<>>) : f \in SizeFacets, v \in {"1", "2"}}

ByFacets == {HostWith(h, AttrsOf(h), <<f, g>>) : h \in {"restriction", "simpleContentRestriction"}, f, g \in Sized}

-------------------------------------------------------------------------------
(* Two declarations, two constraints, two ids.                             *)
Declared(local, name, kids) == El(local, [name |-> name], kids)

Declarations ==
  {Declared(local, name, Smallest(local, 1, TRUE).kids) :
     local \in {"element", "attribute", "complexType", "simpleType", "group", "attributeGroup"}, name \in {"a", "b"}}

Keyed(names) == El("element", [name |-> "t"], [k \in DOMAIN names |-> Declared("key", names[k], <<Selector, Field>>)])

WithId(e, id) == [e EXCEPT !.attrs = [id |-> id] @@ @]

Identified == {Smallest("element", 1, TRUE), El("annotation", <<>>, <<>>), El("import", [namespace |-> "urn:t"], <<>>)}

ByNames ==
  UNION {{Root(<<d, e>>) : d, e \in Declarations},
         {Root(<<d, El("redefine", [schemaLocation |-> "l"], <<e>>)>>) : d, e \in Declarations},
         {Root(<<Keyed(<<k, l>>)>>) : k, l \in {"a", "b"}},
         {Root(<<Keyed(<<k>>), Keyed(<<l>>)>>) : k, l \in {"a", "b"}},
         {Root(<<WithId(d, i), El("annotation", <<>>, <<WithId(El("documentation", <<>>, <<>>), "a")>>), WithId(e, j)>>) :
            d, e \in Identified, i, j \in {"a", "b"}},
         {RootOf([attributeFormDefault |-> f], <<El("complexType", [name |-> "t"], <<El("attribute", [name |-> "a"], <<>>),
                                                         El("attribute", [name |-> n, form |-> g], <<>>)>>)>>) :
            n \in {"a", "b"}, f, g \in Forms}}

-------------------------------------------------------------------------------
(* Names and prefixes: unprefixed schema elements, elements of other       *)
(* namespaces around and beside them, prefixes that are bound again.       *)
RECURSIVE Unprefixed(_)
Unprefixed(e) == [e EXCEPT !.prefix = IF @ = "xs" THEN "" ELSE @, !.kids = [k \in DOMAIN @ |-> Unprefixed(@[k])]]

ByDefault(e) == [Unprefixed(e) EXCEPT !.decls = ("" :> MCXsdNs) @@ @]

Other(prefix, decls, kids) == [prefix |-> prefix, local |-> "element", decls |-> decls, attrs |-> <<>>, qualified |-> {}, kids |-> kids]

Plain == El("element", [name |-> "a", type |-> Q("a")], <<>>)
Bare == El("element", [name |-> "b", type |-> [prefix |-> "", local |-> "a"]], <<>>)
Rebound(e) == [e EXCEPT !.decls = [t |-> "urn:u"]]
Rebounded(e) == [e EXCEPT !.decls = [xs |-> "urn:u"]]
Noted(decls) == El("annotation", <<>>, <<[El("documentation", <<>>, <<Plain>>) EXCEPT !.decls = decls]>>)

Pieces ==
  {Plain, Bare, Rebound(Plain), Rebounded(Plain), Rebound(El("complexType", [name |-> "a"], <<El("sequence", <<>>, <<Plain>>)>>)),
   Other("t", <<>>, <<>>), Other("t", <<>>, <<Bare>>), Other("p", [p |-> "urn:u"], <<Rebound(Bare)>>),
   Other("", <<>>, <<Plain>>), Other("", "" :> "", <<Plain>>), Other("", "" :> "urn:u", <<>>), Other("p", [p |-> MCXsdNs], <<>>),
   Noted([t |-> "urn:u"]), Noted([p |-> MCXsdNs]), Noted([xs |-> "urn:u"]),
   El("complexType", [name |-> "b"], <<Other("t", <<>>, <<El("sequence", <<>>, <<>>)>>), El("attribute", [name |-> "a"], <<>>)>>)}

ByPrefix == LET D == {Root(<<d, e>>) : d, e \in Pieces} IN D \cup {ByDefault(e) : e \in D}

-------------------------------------------------------------------------------
(* Version conditions.                                                     *)
Vc(local, value) == [prefix |-> "vc", local |-> local, value |-> value]

Conditions ==
  {Vc("minVersion", v) : v \in {10, 11}} \cup {Vc("maxVersion", v) : v \in {10, 11}}
  \cup {Vc(c, <<q>>) : c \in {"typeAvailable", "typeUnavailable"}, q \in {String, Q("string"), [prefix |-> "xs", local |-> "a"]}}
  \cup {Vc(c, <<[prefix |-> "xs", local |-> l]>>) : c \in {"facetAvailable", "facetUnavailable"}, l \in {"pattern", "a"}}

OnCondition(e, c) == [e EXCEPT !.qualified = {c}]

ByVersion ==
  UNION {
    UNION {{Root(<<OnCondition(d, c), e>>) : d \in Declarations, e \in {Smallest("element", 1, TRUE), El("include", <<>>, <<>>)}},
           {OnCondition(Root(<<Plain>>), c)},
           {Root(<<El("complexType", [name |-> "a"], <<OnCondition(El("sequence", <<>>, <<El("list", <<>>, <<>>)>>), c),
                                                       El("sequence", <<>>, <<>>)>>)>>)},
           {Root(<<InSimple(El("restriction", [base |-> String], <<OnCondition(El("pattern", [value |-> "a"], <<>>), c)>>))>>)}}
    : c \in Conditions}

-------------------------------------------------------------------------------
(* XPaths.                                                                 *)
Tokens == {Tok(is) : is \in {"dot", "slash", "slashes", "colons", "at"}}
            \cup {Nm("", "a"), Nm("", "child"), Nm("", "attribute"), Nm("p", "a"), Nm("t", "a")}

Few == {Tok("dot"), Tok("slash"), Tok("slashes"), Tok("colons"), Nm("", "a"), Nm("", "child")}

Paths == UNION {[1..n -> Tokens] : n \in 1..3} \cup {<<Tok("dot")>> \o p : p \in [1..4 -> Few]}

ByPath ==
  {HostWith(h, [xpath |-> <<p>>], <<>>) : h \in {"selector", "field"}, p \in Paths}
  \cup {HostWith("field", [xpath |-> <<p, <<Nm("", "a")>>>>], <<>>) : p \in [1..2 -> Tokens]}

-------------------------------------------------------------------------------
(* Larger documents.                                                       *)
Everything ==
  El("complexType", [name |-> "a", mixed |-> "true"],
     <<El("annotation", <<>>, <<>>),
       El("sequence", [minOccurs |-> "0"],
          <<El("choice", [maxOccurs |-> "unbounded"],
               <<Plain, El("group", [ref |-> Q("a"), minOccurs |-> "2", maxOccurs |-> "3"], <<>>),
                 El("sequence", <<>>, <<El("any", [namespace |-> {"##other"}], <<>>)>>)>>),
            El("element", [name |-> "b", nillable |-> "true"],
               <<El("complexType", <<>>,
                    <<El("complexContent", [mixed |-> "true"],
                         <<El("extension", [base |-> Q("b")],
                              <<El("all", <<>>, <<El("element", [name |-> "c", minOccurs |-> "0"],
                                                     <<El("simpleType", <<>>, <<El("union", [memberTypes |-> <<String>>],
                                                        <<Smallest("simpleType", 1, FALSE), Smallest("simpleType", 2, FALSE)>>)>>)>>)>>),
                                El("attributeGroup", [ref |-> Q("a")], <<>>),
                                El("anyAttribute", <<>>, <<>>)>>)>>)>>),
                 El("key", [name |-> "a"], <<Selector, Field, Field>>),
                 El("keyref", [name |-> "b", refer |-> Q("a")], <<Selector, Field>>)>>)>>),
       El("attribute", [name |-> "a"],
          <<El("simpleType", <<>>, <<El("list", <<>>, <<El("simpleType", <<>>,
             <<El("restriction", <<>>, <<Smallest("simpleType", 1, FALSE), Smallest("pattern", 1, FALSE)>>)>>)>>)>>)>>),
       El("attribute", [ref |-> Q("a"), use |-> "required"], <<>>)>>)

Bigger == {Root(<<Everything, El("redefine", [schemaLocation |-> "l"], <<e>>), Plain>>) :
             e \in {El("annotation", <<>>, <<>>), Rebound(Everything), El("group", [name |-> "a"], <<El("choice", <<>>, <<Plain>>)>>)}}

MCSources == <<ByContent, ByThree, ByAttribute, ByTwo, ByFacets, ByNames, ByPrefix, ByVersion, ByPath, Bigger>>
==============================================================================
