----------------------------- MODULE SchemaGrammar -----------------------------
(***************************************************************************)
(* What a parse of a schema document promises: it accepts what the schema  *)
(* for schemas allows, and its AST is the document's tree.  The grammar is *)
(* given by elements and their whole content, as the schema for schemas    *)
(* gives it, and the tree by recursion; the parser has neither.            *)
(***************************************************************************)
EXTENDS SchemaParser

-------------------------------------------------------------------------------
(* The elements of a document that count: those of the schema namespace,   *)
(* by their expanded names, outside annotations and what is pruned.  Other *)
(* elements stand for their content.                                       *)

IsSchemaName(e, scope) == InScope(scope, e.prefix) = XsdNs

RECURSIVE Visible(_, _)
Visible(e, scope) ==
  FoldLeft(LAMBDA seen, kid :
             LET inner == ScopeIn(scope, kid)
             IN  IF ~IsSchemaName(kid, inner) THEN seen \o Visible(kid, inner)
                 ELSE IF IsPruned(kid, inner) THEN seen
                 ELSE Append(seen, [e |-> kid, scope |-> inner]),
           <<>>, e.kids)

(* An element's type in the schema for schemas, in its parent's.           *)
Tops == {"schema", "redefine", "override"}

SortIn(e, parent) ==
  CASE e.local \in {"element", "attribute"} -> IF parent \in Tops THEN "global " \o e.local
                                               ELSE IF Has(e, "ref") THEN e.local \o "Ref" ELSE e.local
    [] e.local \in {"group", "attributeGroup"} -> IF parent \in Tops THEN e.local ELSE e.local \o "Ref"
    [] e.local \in {"complexType", "simpleType"} -> IF parent \in Tops THEN "named " \o e.local ELSE e.local
    [] e.local \in {"sequence", "choice", "all"} -> IF parent = "group" THEN e.local \o " of group" ELSE e.local
    [] OTHER -> KindUnder(e, parent)

(* All of them, with their sorts and their parts.                          *)
RECURSIVE Nodes(_, _, _)
Nodes(e, scope, parent) ==
  LET sort == SortIn(e, parent)
      kids == IF e.local = "annotation" THEN <<>> ELSE Visible(e, scope)
  IN  FoldLeft(LAMBDA nodes, kid : nodes \o Nodes(kid.e, kid.scope, sort),
               <<[e |-> e, scope |-> scope, sort |-> sort, kids |-> kids]>>, kids)

Document == Nodes(source, ScopeIn(<<>>, source), "")

-------------------------------------------------------------------------------
(* Content: a sequence of [of, min, max], no name in two of them.          *)

Some(of, min, max) == [of |-> of, min |-> min, max |-> max]

Note == Some({"annotation"}, 0, 1)
Uses == <<Some({"attribute", "attributeGroup"}, 0, Unlimited), Some({"anyAttribute"}, 0, 1)>>
OneParticle == Some(ParticleKinds, 0, 1)
AnyFacets == Some(Facets, 0, Unlimited)
InlineType == Some({"simpleType"}, 0, 1)

Globals == {"element", "attribute", "complexType", "simpleType", "group", "attributeGroup", "notation"}

Contents(sort) ==
  CASE sort = "schema" -> {<<Some(Globals \cup {"annotation", "import", "include", "redefine"}, 0, Unlimited)>>}
    [] sort = "redefine" ->
         {<<Some({"annotation", "complexType", "simpleType", "group", "attributeGroup"}, 0, Unlimited)>>}
    [] sort \in {"global element", "element"} ->
         {<<Note, Some({"simpleType", "complexType"}, 0, 1), Some(IdentityKinds, 0, Unlimited)>>}
    [] sort \in {"global attribute", "attribute", "list"} -> {<<Note, InlineType>>}
    [] sort \in {"named complexType", "complexType"} ->
         {<<Note, OneParticle>> \o Uses, <<Note, Some({"simpleContent", "complexContent"}, 1, 1)>>}
    [] sort \in {"named simpleType", "simpleType"} -> {<<Note, Some({"restriction", "list", "union"}, 1, 1)>>}
    [] sort \in {"simpleContent", "complexContent"} -> {<<Note, Some({"restriction", "extension"}, 1, 1)>>}
    [] sort = "simpleRestriction" -> {<<Note, InlineType, AnyFacets>>}
    [] sort = "simpleContentRestriction" -> {<<Note, InlineType, AnyFacets>> \o Uses}
    [] sort = "simpleContentExtension" -> {<<Note>> \o Uses}
    [] sort \in {"complexContentRestriction", "complexContentExtension"} -> {<<Note, OneParticle>> \o Uses}
    [] sort = "union" -> {<<Note, Some({"simpleType"}, 0, Unlimited)>>}
    [] sort = "group" -> {<<Note, Some({"all", "choice", "sequence"}, 1, 1)>>}
    [] sort = "attributeGroup" -> {<<Note>> \o Uses}
    [] sort \in {"sequence", "choice", "sequence of group", "choice of group"} ->
         {<<Note, Some({"element", "group", "choice", "sequence", "any"}, 0, Unlimited)>>}
    [] sort \in {"all", "all of group"} -> {<<Note, Some({"element"}, 0, Unlimited)>>}
    [] sort \in IdentityKinds -> {<<Note, Some({"selector"}, 1, 1), Some({"field"}, 1, Unlimited)>>}
    [] sort \in {"elementRef", "attributeRef", "groupRef", "attributeGroupRef", "any", "anyAttribute", "selector",
                 "field", "import", "include", "notation"} \cup Facets -> {<<Note>>}
    [] sort = "annotation" -> {<<>>}
    [] OTHER -> {}

(* A word of names with that content.                                      *)
Follows(word, content) ==
  LET Place(name) == CHOOSE k \in DOMAIN content : name \in content[k].of
      Count(k) == Cardinality({j \in DOMAIN word : word[j] \in content[k].of})
  IN  /\ \A j \in DOMAIN word : \E k \in DOMAIN content : word[j] \in content[k].of
      /\ \A i, j \in DOMAIN word : i < j => Place(word[i]) <= Place(word[j])
      /\ \A k \in DOMAIN content :
           /\ content[k].min <= Count(k)
           /\ content[k].max # Unlimited => Count(k) <= content[k].max

HasContent(n) ==
  \E content \in Contents(n.sort) : Follows([k \in DOMAIN n.kids |-> n.kids[k].e.local], content)

-------------------------------------------------------------------------------
(* Attributes: those an element must have, and those it may.               *)

Occurrence == {"minOccurs", "maxOccurs"}
Values == {"default", "fixed"}

Required(sort) ==
  CASE sort \in {"global element", "element", "global attribute", "attribute", "named complexType", "named simpleType",
          "group", "attributeGroup", "notation", "unique", "key"} -> {"name"}
    [] sort \in {"elementRef", "attributeRef", "groupRef", "attributeGroupRef"} -> {"ref"}
    [] sort = "keyref" -> {"name", "refer"}
    [] sort \in {"selector", "field"} -> {"xpath"}
    [] sort \in ContentDerivations -> {"base"}
    [] sort \in {"include", "redefine"} -> {"schemaLocation"}
    [] sort \in Facets -> {"value"}
    [] OTHER -> {}

Optional(sort) ==
  CASE sort = "schema" -> Attributes.schema
    [] sort = "global element" -> Values \cup {"targetNamespace", "type", "abstract", "block", "final", "nillable", "substitutionGroup"}
    [] sort = "element" -> Values \cup Occurrence \cup {"targetNamespace", "type", "block", "form", "nillable"}
    [] sort = "global attribute" -> Values \cup {"targetNamespace", "inheritable", "type"}
    [] sort = "attribute" -> Values \cup {"targetNamespace", "inheritable", "type", "form", "use"}
    [] sort = "attributeRef" -> Values \cup {"targetNamespace", "inheritable", "use"}
    [] sort = "elementRef" -> Occurrence \cup {"targetNamespace"}
    [] sort \in {"groupRef", "sequence", "choice", "all"} -> Occurrence
    [] sort = "named complexType" -> {"abstract", "mixed", "block", "final", "defaultAttributesApply"}
    [] sort = "complexType" -> {"mixed", "abstract", "block", "final", "defaultAttributesApply"}
    [] sort = "named simpleType" -> {"final"}
    [] sort = "complexContent" -> {"mixed"}
    [] sort = "simpleRestriction" -> {"base"}
    [] sort = "list" -> {"itemType"}
    [] sort = "union" -> {"memberTypes"}
    [] sort = "import" -> {"namespace", "schemaLocation"}
    [] sort = "any" -> Occurrence \cup Attributes.anyAttribute
    [] sort = "anyAttribute" -> Attributes.anyAttribute
    [] sort \in {"selector", "field"} -> {"xpathDefaultNamespace"}
    [] sort = "notation" -> {"public", "system"}
    [] sort \in Facets \ {"enumeration", "pattern"} -> {"fixed"}
    [] OTHER -> {}

HasAttributes(n) ==
  LET given == DOMAIN n.e.attrs \ {"id"}
  IN  /\ Required(n.sort) \subseteq given
      /\ given \subseteq Required(n.sort) \cup Optional(n.sort)
      /\ ~(Values \subseteq given)
      /\ n.e.local = "attribute" /\ Has(n.e, "default") => Get(n.e.attrs, "use", "optional") = "optional"
      /\ n.e.local = "attribute" => Get(n.e.attrs, "name", "") # "xmlns"
      /\ n.e.local = "notation" => given \cap {"public", "system"} # {}
      /\ \A a \in n.e.qualified : InScope(n.scope, a.prefix) # XsdNs

(* "Selector ::= Path ( '|' Path )*, Path ::= ('.//')? Step ( '/' Step )*, *)
(* Step ::= '.' | ('child::')? NameTest", and an attribute may end a field *)
(* (identity_xpath.rs).                                                    *)
Shape(s) == [k \in DOMAIN s |-> s[k].is]

IsStep(s) ==
  \/ Shape(s) \in {<<"dot">>, <<"name">>}
  \/ Shape(s) = <<"name", "colons", "name">> /\ s[1].prefix = "" /\ s[1].name = "child"

IsAttributeStep(s) ==
  \/ Shape(s) = <<"at", "name">>
  \/ Shape(s) = <<"name", "colons", "name">> /\ s[1].prefix = "" /\ s[1].name = "attribute"

FollowsPathGrammar(path, kind, scope) ==
  LET deep   == Len(path) > 2 /\ path[1].is = "dot" /\ path[2].is = "slashes"
      steps  == IF deep THEN SubSeq(path, 3, Len(path)) ELSE path
      cuts   == {0, Len(steps) + 1} \cup {k \in DOMAIN steps : steps[k].is = "slash"}
      Step(i, j) == SubSeq(steps, i + 1, j - 1)
  IN  /\ \A i, j \in cuts : (i < j /\ ~\E k \in cuts : i < k /\ k < j) =>
           \/ IsStep(Step(i, j))
           \/ kind = "field" /\ j = Len(steps) + 1 /\ IsAttributeStep(Step(i, j))
      /\ \A k \in DOMAIN path : path[k].is = "name" => path[k].prefix \in {"", "xml"} \cup DOMAIN scope

HasXPath(n) ==
  n.sort \in {"selector", "field"} =>
    /\ n.e.attrs.xpath # <<>>
    /\ \A path \in Range(n.e.attrs.xpath) : FollowsPathGrammar(path, n.sort, n.scope)

-------------------------------------------------------------------------------
(* Conditions between attributes and content, and between elements.        *)

KidsOf(n, locals) == {k \in DOMAIN n.kids : n.kids[k].e.local \in locals}

TypesAgree(n) ==
  LET inline == KidsOf(n, {"simpleType", "complexType"}) # {}
  IN  CASE n.e.local \in {"element", "attribute"}        -> ~(Has(n.e, "type") /\ inline)
        [] n.sort = "simpleRestriction"                  -> Has(n.e, "base") # inline
        [] n.sort = "list"                               -> Has(n.e, "itemType") # inline
        [] n.sort = "union"                              -> Has(n.e, "memberTypes") \/ inline
        [] OTHER                                         -> TRUE

FacetValue(n, facet) ==
  LET K == {k \in KidsOf(n, {facet}) : Get(n.kids[k].e.attrs, "value", "") \in DOMAIN Number}
  IN  {Number[n.kids[k].e.attrs.value] : k \in K}

FacetsAgree(n) ==
  /\ n.sort \in SizeFacets => n.e.attrs.value \in DOMAIN Number
  /\ \A m \in FacetValue(n, "minLength"), x \in FacetValue(n, "maxLength") : m <= x
  /\ \A f \in FacetValue(n, "fractionDigits"), t \in FacetValue(n, "totalDigits") : f <= t

MembersOnce(n) ==
  n.e.local = "all" => \A k \in KidsOf(n, {"element"}) :
    MaxOccurs(n.kids[k].e) \in {0, 1} /\ MinOccurs(n.kids[k].e) \in {0, 1}

(* Attribute uses of one element are distinct.                             *)
AttributeNames(n) ==
  [k \in KidsOf(n, {"attribute", "attributeGroup"}) |->
     IF Has(n.kids[k].e, "ref") THEN [is |-> n.kids[k].e.local, name |-> n.kids[k].e.attrs.ref.local,
                                      from |-> n.kids[k].e.attrs.ref.prefix]
     ELSE [is |-> "name", name |-> Get(n.kids[k].e.attrs, "name", ""),
           from |-> Get(n.kids[k].e.attrs, "form", Get(source.attrs, "attributeFormDefault", "unqualified"))]]

Injective(f) == \A x, y \in DOMAIN f : f[x] = f[y] => x = y

Conforms(n) ==
  /\ HasContent(n) /\ HasAttributes(n) /\ ~HasBadValue(n.e) /\ ~HasBadBounds(n.e)
  /\ HasXPath(n) /\ TypesAgree(n) /\ FacetsAgree(n) /\ MembersOnce(n)
  /\ n.sort # "schema" => Injective(AttributeNames(n))

NamedIn(nodes, locals, a) == {k \in DOMAIN nodes : nodes[k].e.local \in locals /\ Has(nodes[k].e, a)}

Distinct(nodes, K, a) == \A j, k \in K : nodes[j].e.attrs[a] = nodes[k].e.attrs[a] => j = k

SymbolSpaces == {{"complexType", "simpleType"}} \cup {{l} : l \in NamedKinds \ {"complexType", "simpleType"}}

DocumentConforms(nodes) ==
  /\ Distinct(nodes, {k \in DOMAIN nodes : Has(nodes[k].e, "id")}, "id")
  /\ \A k \in DOMAIN nodes : Has(nodes[k].e, "id") => nodes[k].e.attrs.id \in NCNames
  /\ Distinct(nodes, NamedIn(nodes, IdentityKinds, "name"), "name")
  /\ \A k \in NamedIn(nodes, IdentityKinds, "name") : nodes[k].e.attrs.name \in NCNames
  /\ \A space \in SymbolSpaces :
       LET kids == nodes[1].kids
           K    == {k \in DOMAIN kids : kids[k].e.local \in space /\ Has(kids[k].e, "name")}
       IN  Distinct(kids, K, "name")

IsSchema(nodes) ==
  /\ IsSchemaName(nodes[1].e, nodes[1].scope) /\ nodes[1].sort = "schema"
  /\ \A k \in DOMAIN nodes : Conforms(nodes[k])
  /\ DocumentConforms(nodes)

-------------------------------------------------------------------------------
(* The AST a document stands for.                                          *)

(* Booleans are read as the attribute's type has it.                       *)
Meaning(e, scope) ==
  [a \in DOMAIN e.attrs \cap Get(Kept, e.local, {}) \cap {"abstract", "nillable", "mixed"} |->
     e.attrs[a] \in {"true", "1"}] @@ Fields(e, scope)

IsMixed(e) == "mixed" \in DOMAIN e.attrs /\ e.attrs.mixed \in {"true", "1"}

(* The parts of an element, with their kinds.  A derivation is a part of   *)
(* the type, not of the element it is in.                                  *)
Wrappers == {"simpleContent", "complexContent"}

PartsOf(e, scope, kind) ==
  LET Counts(kid) == kid.e.local # "annotation"
      Part(kid, in) == [e |-> kid.e, scope |-> kid.scope, kind |-> KindUnder(kid.e, in)]
  IN  FoldLeft(LAMBDA parts, kid :
                 IF kid.e.local \notin Wrappers THEN Append(parts, Part(kid, kind))
                 ELSE LET inner == SelectSeq(Visible(kid.e, kid.scope), Counts)
                      IN  parts \o [k \in DOMAIN inner |-> Part(inner[k], kid.e.local)],
               <<>>, SelectSeq(Visible(e, scope), Counts))

PlaceOf(part, kind) ==
  CASE part.kind \in Facets            -> "facets"
    [] part.kind = "selector"          -> "selector"
    [] part.kind = "field"             -> "fields"
    [] part.kind \in {"import", "include"} -> part.kind \o "s"
    [] SlotFor(part.kind, kind) = ""   -> "lost"
    [] OTHER                           -> SlotFor(part.kind, kind)

RECURSIVE Meant(_, _, _)
Meant(e, scope, kind) ==
  LET parts  == PartsOf(e, scope, kind)
      places == {PlaceOf(parts[k], kind) : k \in DOMAIN parts}
      mixed  == \E kid \in Range(Visible(e, scope)) : kid.e.local = "complexContent" /\ IsMixed(kid.e)
      Of(part) == CASE part.kind \in Facets                -> Facet(part.e)
                    [] part.kind \in {"selector", "field"} -> XPath(part.e, part.scope)
                    [] part.kind \in {"import", "include"} -> Fields(part.e, part.scope)
                    [] OTHER                               -> Meant(part.e, part.scope, part.kind)
      At(place) == SelectSeq([k \in DOMAIN parts |-> k], LAMBDA k : PlaceOf(parts[k], kind) = place)
  IN  [kind  |-> kind,
       props |-> (IF mixed THEN [mixed |-> TRUE] ELSE <<>>) @@ Meaning(e, scope),
       slots |-> [place \in places |-> [i \in DOMAIN At(place) |-> Of(parts[At(place)[i]])]]]

(* What the handlers lose: the type a restriction of simple content        *)
(* starts from, notations, and booleans that are written as numbers.  The  *)
(* end tag of explicitTimezone ends the restriction it is in.              *)
IsLost(n) ==
  \/ n.sort = "simpleContentRestriction" /\ KidsOf(n, {"simpleType"}) # {}
  \/ n.sort \in {"notation", "explicitTimezone"}
  \/ \E a \in {"abstract", "nillable", "mixed"} : Has(n.e, a) /\ n.e.attrs[a] = "1"

-------------------------------------------------------------------------------
(* Properties.                                                             *)

Known(sort) == UNION {UNION {part.of : part \in Range(content)} : content \in Contents(sort)}

HasKnown(n) == \A kid \in Range(n.kids) : kid.e.local \in Known(n.sort)

(* What the parser does not ask for: some attributes, the particle of a    *)
(* group, and some orders and counts.                                      *)
IsTolerated(n) ==
  \/ n.sort \in ContentDerivations \cup Facets \cup {"include", "redefine"} /\ ~(Required(n.sort) \subseteq DOMAIN n.e.attrs)
  \/ n.sort \in IdentityKinds /\ Has(n.e, "ref")
  \/ n.sort = "group" /\ KidsOf(n, ParticleKinds) = {}
  \/ n.sort = "attributeGroup" /\ \E i \in KidsOf(n, {"anyAttribute"}), j \in KidsOf(n, {"attribute", "attributeGroup"}) : i < j
  \/ n.sort \in {"element", "global element"} /\
       \E i \in KidsOf(n, IdentityKinds), j \in KidsOf(n, {"simpleType", "complexType"}) : i < j
  \/ n.sort = "simpleContentRestriction" /\ Cardinality(KidsOf(n, {"simpleType"})) > 1

(* Every element of the schema namespace is known by its prefix, and no    *)
(* other element has that prefix.                                          *)
RECURSIVE IsRecognized(_, _)
IsRecognized(e, scope) ==
  LET inner == ScopeIn(scope, e)
  IN  /\ IsSchemaName(e, inner) = IsSchemaElement(e, inner, detected)
      /\ \A k \in DOMAIN e.kids : IsRecognized(e.kids[k], inner)

(* The verdict of the parser, which looks at one tag and a few counters at *)
(* a time, is that of the schema for schemas on the whole tree: a document *)
(* is refused only if it is no schema, whatever its annotations, foreign   *)
(* elements and prunings, and one without misplaced elements is accepted   *)
(* only if it is one, up to what IsTolerated lists (parser/rules).         *)
AcceptsSchemas ==
  outcome # "reading" /\ IsRecognized(source, <<>>) =>
    LET nodes == Document
    IN  IF outcome = "refused" THEN ~IsSchema(nodes)
        ELSE (\A n \in Range(nodes) : HasKnown(n)) =>
               /\ \A n \in Range(nodes) : Conforms(n) \/ IsTolerated(n)
               /\ DocumentConforms(nodes)

(* Every part of an accepted schema is in the AST once, in the part it is  *)
(* in in the document, in order, with its attributes and its names         *)
(* resolved where it stands: the frames never get out of step with the     *)
(* tags, save by what IsLost lists (handlers.rs, finishers.rs).            *)
ReadsTheTree ==
  outcome = "accepted" /\ IsRecognized(source, <<>>) =>
    LET nodes == Document
    IN  IsSchema(nodes) /\ (\A n \in Range(nodes) : ~IsLost(n))
          => ast = Meant(source, ScopeIn(<<>>, source), "schema")

==============================================================================
