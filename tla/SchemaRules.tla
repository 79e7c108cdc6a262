------------------------------ MODULE SchemaRules ------------------------------
(***************************************************************************)
(* What the schema parser asks of one element of a schema document         *)
(* (src/schema/xsd/parser/rules; parser/helpers.rs; xsd/identity_xpath.rs).*)
(*                                                                         *)
(* An element is a record                                                  *)
(*   [prefix, local, decls, attrs, qualified, kids]                        *)
(* with its namespace declarations (by prefix, "" for the default), its    *)
(* attributes without a prefix, by name, those with one, [prefix, local,   *)
(* value], and its child elements.  Values are texts, except               *)
(*   QNames              [prefix, local]                                   *)
(*   lists of QNames     sequences of those                                *)
(*   lists of tokens     sets of them                                      *)
(*   XPaths              sequences of paths, each a sequence of tokens     *)
(*                       [is, prefix, name]                                *)
(***************************************************************************)
EXTENDS Integers, SequencesExt, TLC

CONSTANTS
  XsdNs,      \* the namespace of schema documents
  VcNs,       \* the one of version conditions
  NCNames,    \* the texts that are NCNames
  Number,     \* the number a text of decimal digits is
  Unlimited,  \* the Rust Occurs::Unbounded
  Builtins    \* the local names of built-in types

Get(f, k, default) == IF k \in DOMAIN f THEN f[k] ELSE default

Has(e, a) == a \in DOMAIN e.attrs

-------------------------------------------------------------------------------
(* Kinds of elements.                                                      *)

ParticleKinds == {"group", "all", "choice", "sequence"}
IdentityKinds == {"unique", "key", "keyref"}
WildcardKinds == {"any", "anyAttribute"}

SizeFacets == {"minLength", "maxLength", "length", "totalDigits", "fractionDigits"}
Facets == SizeFacets \cup {"enumeration", "pattern", "minInclusive", "maxInclusive",
                           "minExclusive", "maxExclusive", "whiteSpace", "explicitTimezone"}

-------------------------------------------------------------------------------
(* Attributes an element may have.                                         *)

(* allowed                                                                 *)
Attributes ==
  [schema         |-> {"attributeFormDefault", "blockDefault", "elementFormDefault", "finalDefault",
                       "targetNamespace", "version", "defaultAttributes", "xpathDefaultNamespace"},
   element        |-> {"abstract", "block", "default", "final", "fixed", "form", "maxOccurs", "minOccurs",
                       "name", "nillable", "ref", "substitutionGroup", "type", "targetNamespace"},
   attribute      |-> {"default", "fixed", "form", "name", "ref", "type", "use", "targetNamespace", "inheritable"},
   complexType    |-> {"abstract", "block", "final", "mixed", "name", "defaultAttributesApply"},
   simpleType     |-> {"final", "name"},
   group          |-> {"maxOccurs", "minOccurs", "name", "ref"},
   attributeGroup |-> {"name", "ref"},
   sequence       |-> {"maxOccurs", "minOccurs"},
   choice         |-> {"maxOccurs", "minOccurs"},
   all            |-> {"maxOccurs", "minOccurs"},
   any            |-> {"maxOccurs", "minOccurs", "namespace", "processContents", "notNamespace", "notQName"},
   anyAttribute   |-> {"namespace", "processContents", "notNamespace", "notQName"},
   complexContent |-> {"mixed"},
   simpleContent  |-> {},
   annotation     |-> {},
   restriction    |-> {"base"},
   extension      |-> {"base"},
   list           |-> {"itemType"},
   union          |-> {"memberTypes"},
   include        |-> {"schemaLocation"},
   redefine       |-> {"schemaLocation"},
   override       |-> {"schemaLocation"},
   import         |-> {"namespace", "schemaLocation"},
   notation       |-> {"name", "public", "system"},
   unique         |-> {"name", "ref"},
   key            |-> {"name", "ref"},
   keyref         |-> {"name", "ref", "refer"},
   selector       |-> {"xpath", "xpathDefaultNamespace"},
   field          |-> {"xpath", "xpathDefaultNamespace"},
   appinfo        |-> {"source"},
   documentation  |-> {"source"}]
  @@ [f \in Facets |-> IF f \in {"enumeration", "pattern"} THEN {"value"} ELSE {"value", "fixed"}]

(* Those a declaration may not have at the top level, or elsewhere.        *)
ForbiddenAttributes(local, top, inGroup) ==
  CASE local = "element" /\ top                        -> {"ref", "form", "minOccurs", "maxOccurs"}
    [] local = "element" /\ ~top                       -> {"abstract", "final", "substitutionGroup"}
    [] local = "attribute" /\ top                      -> {"ref", "form", "use"}
    [] local \in {"group", "attributeGroup"} /\ top    -> {"ref", "minOccurs", "maxOccurs"}
    [] local \in {"complexType", "simpleType"} /\ ~top -> {"name"}
    [] local \in {"sequence", "choice", "all"} /\ ~top /\ inGroup -> {"minOccurs", "maxOccurs"}
    [] OTHER                                           -> {}

(* check_allowed_attributes, `detected` being the prefix of schema         *)
(* documents.  An element of another name is not checked.                  *)
HasBadAttribute(e, detected, top, inGroup) ==
  /\ e.local \in DOMAIN Attributes
  /\ \/ \E a \in e.qualified : a.prefix = detected
     \/ ~(DOMAIN e.attrs \subseteq Attributes[e.local] \cup {"id"})
     \/ e.local = "attribute" /\ Has(e, "name") /\ e.attrs.name = "xmlns"
     \/ top /\ e.local \in {"complexType", "simpleType"} /\ ~Has(e, "name")
     \/ \E a \in ForbiddenAttributes(e.local, top, inGroup) : Has(e, a)

-------------------------------------------------------------------------------
(* Values of attributes.                                                   *)

NamedKinds == {"element", "attribute", "complexType", "simpleType", "group", "attributeGroup", "notation"}

QNameAttributes ==
  [element |-> {"ref", "type", "substitutionGroup"}, attribute |-> {"ref", "type"},
   group |-> {"ref"}, attributeGroup |-> {"ref"}, restriction |-> {"base"}, extension |-> {"base"},
   list |-> {"itemType"}, keyref |-> {"refer"}]

Booleans == {"true", "false", "1", "0"}
Forms == {"qualified", "unqualified"}
Strengths == {"strict", "lax", "skip"}

EnumeratedAttributes ==
  [element        |-> [form |-> Forms, abstract |-> Booleans, nillable |-> Booleans],
   attribute      |-> [form |-> Forms, use |-> {"optional", "prohibited", "required"}],
   complexType    |-> [abstract |-> Booleans, mixed |-> Booleans],
   complexContent |-> [mixed |-> Booleans],
   schema         |-> [elementFormDefault |-> Forms, attributeFormDefault |-> Forms],
   any            |-> [processContents |-> Strengths],
   anyAttribute   |-> [processContents |-> Strengths]]

DerivationAttributes ==
  [element     |-> [block |-> {"extension", "restriction", "substitution"}, final |-> {"extension", "restriction"}],
   complexType |-> [block |-> {"extension", "restriction"}, final |-> {"extension", "restriction"}],
   simpleType  |-> [final |-> {"list", "union", "restriction"}],
   schema      |-> [blockDefault |-> {"extension", "restriction", "substitution"},
                    finalDefault |-> {"extension", "restriction", "list", "union"}]]

(* What a reference cannot have besides.                                   *)
ExcludedByRef ==
  [element   |-> {"name", "type", "form", "block", "final", "default", "fixed", "nillable",
                  "substitutionGroup", "abstract"},
   attribute |-> {"name", "type", "form"}]

(* is_valid_qname                                                          *)
IsQName(q) == q.local \in NCNames /\ (q.prefix = "" \/ q.prefix \in NCNames)

(* check_wildcard_attributes                                               *)
Hashes == {"##any", "##other", "##targetNamespace", "##local"}

IsNamespaceList(tokens) ==
  tokens \in {{"##any"}, {"##other"}} \/ tokens \cap Hashes \subseteq {"##targetNamespace", "##local"}

(* check_attribute_value_rules                                             *)
HasBadValue(e) ==
  \/ e.local \in NamedKinds /\ Has(e, "name") /\ e.attrs.name \notin NCNames
  \/ \E a \in Get(QNameAttributes, e.local, {}) : Has(e, a) /\ ~IsQName(e.attrs[a])
  \/ e.local = "union" /\ Has(e, "memberTypes") /\ \E q \in Range(e.attrs.memberTypes) : ~IsQName(q)
  \/ LET values == Get(EnumeratedAttributes, e.local, <<>>)
     IN  \E a \in DOMAIN values : Has(e, a) /\ e.attrs[a] \notin values[a]
  \/ LET tokens == Get(DerivationAttributes, e.local, <<>>)
     IN  \E a \in DOMAIN tokens : Has(e, a) /\ e.attrs[a] # {"#all"} /\ ~(e.attrs[a] \subseteq tokens[a])
  \/ Has(e, "ref") /\ \E a \in Get(ExcludedByRef, e.local, {}) : Has(e, a)
  \/ e.local = "schema" /\ Has(e, "targetNamespace") /\ e.attrs.targetNamespace = ""
  \/ e.local \in WildcardKinds /\ Has(e, "namespace") /\ ~IsNamespaceList(e.attrs.namespace)

(* check_required_attributes                                               *)
LacksAttribute(e) ==
  \/ e.local = "notation" /\ ~(Has(e, "name") /\ (Has(e, "public") \/ Has(e, "system")))
  \/ e.local \in {"selector", "field"} /\ ~Has(e, "xpath")
  \/ /\ e.local \in {"element", "attribute"}
     /\ \/ ~Has(e, "name") /\ ~Has(e, "ref")
        \/ Has(e, "default") /\ Has(e, "fixed")
        \/ e.local = "attribute" /\ Has(e, "default") /\ Has(e, "use") /\ e.attrs.use # "optional"

(* Occurs::parse.  (Numbers are small enough not to be clamped.)           *)
BoundOf(e, a) ==
  IF ~Has(e, a) THEN 1 ELSE IF e.attrs[a] = "unbounded" THEN Unlimited ELSE Number[e.attrs[a]]

IsBound(e, a) == Has(e, a) => e.attrs[a] \in DOMAIN Number \cup {"unbounded"}

MinOccurs(e) == BoundOf(e, "minOccurs")
MaxOccurs(e) == BoundOf(e, "maxOccurs")

(* parse_occurs, and handle_all                                            *)
HasBadBounds(e) ==
  /\ e.local \in ParticleKinds \cup {"element", "any"}
  /\ ~(/\ IsBound(e, "minOccurs") /\ IsBound(e, "maxOccurs")
       /\ MinOccurs(e) # Unlimited
       /\ MaxOccurs(e) = Unlimited \/ MinOccurs(e) <= MaxOccurs(e)
       /\ e.local = "all" => MinOccurs(e) <= 1 /\ MaxOccurs(e) = 1)

-------------------------------------------------------------------------------
(* Version conditions.  Versions are in tenths.                            *)

OurVersion == 10

InScope(scope, prefix) == Get(scope, prefix, "")

IsAvailable(scope, q) == InScope(scope, q.prefix) = XsdNs /\ q.local \in Builtins

(* pruned_by_versioning                                                    *)
IsPruned(e, scope) ==
  \E a \in e.qualified :
    /\ InScope(scope, a.prefix) = VcNs
    /\ CASE a.local = "minVersion"       -> a.value > OurVersion
         [] a.local = "maxVersion"       -> a.value <= OurVersion
         [] a.local = "typeAvailable"    -> \E q \in Range(a.value) : ~IsAvailable(scope, q)
         [] a.local = "typeUnavailable"  -> \E q \in Range(a.value) : IsAvailable(scope, q)
         [] a.local = "facetAvailable"   -> \E q \in Range(a.value) : q.local \notin Facets
         [] a.local = "facetUnavailable" -> \E q \in Range(a.value) : q.local \in Facets
         [] OTHER                        -> FALSE

-------------------------------------------------------------------------------
(* XPaths of selectors and fields.                                         *)

IsToken(path, i, is) == i \in DOMAIN path /\ path[i].is = is

IsNameTest(path, i, declared) ==
  IsToken(path, i, "name") /\ path[i].prefix \in {"", "xml"} \cup declared

IsAxis(path, i, axis) ==
  IsToken(path, i, "name") /\ path[i].prefix = "" /\ path[i].name = axis /\ IsToken(path, i + 1, "colons")

(* Where the step that starts at token i ends; 0 if there is none.         *)
StepEnd(path, kind, declared, i) ==
  CASE /\ IsToken(path, i, "at") /\ i + 1 = Len(path)
       /\ kind = "field" /\ IsNameTest(path, i + 1, declared)                  -> i + 1
    [] IsAxis(path, i, "child") /\ IsNameTest(path, i + 2, declared)           -> i + 2
    [] /\ IsAxis(path, i, "attribute") /\ i + 2 = Len(path)
       /\ kind = "field" /\ IsNameTest(path, i + 2, declared)                  -> i + 2
    [] IsToken(path, i, "dot")                                                 -> i
    [] IsNameTest(path, i, declared) /\ ~IsToken(path, i + 1, "colons")        -> i
    [] OTHER                                                                   -> 0

RECURSIVE StepsFrom(_, _, _, _)
StepsFrom(path, kind, declared, i) ==
  LET end == StepEnd(path, kind, declared, i)
  IN  /\ end # 0
      /\ \/ end = Len(path)
         \/ /\ IsToken(path, end + 1, "slash")
            /\ StepsFrom(path, kind, declared, end + 2)

(* validate_path                                                           *)
IsPath(path, kind, declared) ==
  LET first == IF IsToken(path, 1, "dot") /\ IsToken(path, 2, "slashes") THEN 3 ELSE 1
  IN  StepsFrom(path, kind, declared, first)

(* validate_identity_xpath                                                 *)
IsIdentityXPath(xpath, kind, declared) ==
  /\ xpath # <<>>
  /\ \A path \in Range(xpath) : IsPath(path, kind, declared)

-------------------------------------------------------------------------------
(* What is remembered of the children an element has had: ChildState.      *)

Counters == {"children", "annotations", "derivations", "particles", "selectors", "fields", "anyAttributes"}

NewState(e, parent) ==
  [local |-> e.local, parent |-> parent, isRef |-> Has(e, "ref"), hasType |-> Has(e, "type"),
   hasBase |-> \E a \in {"base", "itemType", "memberTypes"} : Has(e, a),
   phase |-> 0, keys |-> {}, seen |-> [c \in Counters |-> 0]]

IsTop(p) == p.local \in {"schema", "redefine", "override"}

(* The restriction of a simple type takes its base as a list its items.    *)
IsSimpleRestriction(p) == p.local = "restriction" /\ p.parent = "simpleType"

(* Children of which an element has one.                                   *)
Derivations(p) ==
  CASE p.local = "complexType"                         -> {"simpleContent", "complexContent"}
    [] p.local \in {"simpleContent", "complexContent"} -> {"restriction", "extension"}
    [] p.local = "element"                             -> {"simpleType", "complexType"}
    [] p.local = "simpleType"                          -> {"restriction", "list", "union"}
    [] p.local \in {"attribute", "list", "union"} \/ IsSimpleRestriction(p) -> {"simpleType"}
    [] OTHER                                           -> {}

TakesParticle(p) == p.local \in {"complexType", "group", "extension", "restriction"} /\ ~IsSimpleRestriction(p)

Counter(p, local) ==
  CASE local \in Derivations(p)                            -> "derivations"
    [] TakesParticle(p) /\ local \in ParticleKinds         -> "particles"
    [] p.local \in IdentityKinds /\ local = "selector"     -> "selectors"
    [] p.local \in IdentityKinds /\ local = "field"        -> "fields"
    [] local = "anyAttribute"                              -> "anyAttributes"
    [] OTHER                                               -> "none"

(* content_phase                                                           *)
IsOrdered(p) == p.local \in {"complexType", "restriction", "extension"}

PhaseOf(local) ==
  CASE local = "simpleType"                                                       -> 1
    [] local \in {"simpleContent", "complexContent"} \cup Facets \cup ParticleKinds -> 2
    [] local \in {"attribute", "attributeGroup"}                                  -> 3
    [] local = "anyAttribute"                                                     -> 4
    [] OTHER                                                                      -> 0

(* The attribute uses of a type or an attribute group.                     *)
KeysOf(p, e, qualified) ==
  LET form == Get(e.attrs, "form", IF qualified THEN "qualified" ELSE "unqualified")
  IN  IF p.local \notin {"complexType", "extension", "restriction", "attributeGroup"} THEN {}
      ELSE IF e.local = "attribute" /\ Has(e, "name")
           THEN {[is |-> "name", prefix |-> form, local |-> e.attrs.name]}
      ELSE IF e.local \in {"attribute", "attributeGroup"} /\ Has(e, "ref")
           THEN {[is |-> e.local, prefix |-> e.attrs.ref.prefix, local |-> e.attrs.ref.local]}
      ELSE {}

AfterChild(p, e, qualified) ==
  LET counted == {IF e.local = "annotation" THEN "annotations" ELSE "children", Counter(p, e.local)}
  IN  [p EXCEPT !.seen  = [c \in Counters |-> IF c \in counted THEN @[c] + 1 ELSE @[c]],
                !.phase = IF IsOrdered(p) /\ PhaseOf(e.local) # 0 THEN PhaseOf(e.local) ELSE @,
                !.keys  = @ \cup KeysOf(p, e, qualified)]

-------------------------------------------------------------------------------
(* Children.                                                               *)

(* check_allowed_child: elements that not every child is admitted in.      *)
IsSelective(p) ==
  p.local \in {"simpleContent", "complexContent", "simpleType", "notation", "import", "include", "selector",
               "field", "group", "attributeGroup", "element", "attribute", "all"} \cup IdentityKinds \cup WildcardKinds

Admitted(p) ==
  CASE p.local \in {"simpleContent", "complexContent", "simpleType"} -> Derivations(p) \cup {"annotation"}
    [] p.local \in IdentityKinds       -> {"annotation", "selector", "field"}
    [] p.local \in {"notation", "import", "include", "selector", "field"} \cup WildcardKinds -> {"annotation"}
    [] p.local = "group"               -> {"annotation", "all", "choice", "sequence"}
    [] p.local = "attributeGroup"      -> {"annotation", "attribute", "attributeGroup", "anyAttribute"}
    [] p.local = "element"             -> {"annotation", "simpleType", "complexType"} \cup IdentityKinds
    [] p.local = "attribute"           -> {"annotation", "simpleType"}
    [] p.local = "all"                 -> {"annotation", "element"}

(* The annotation comes first, and there is one.                           *)
IsLateAnnotation(p, local) ==
  local = "annotation" /\ ~IsTop(p) /\ (p.seen["annotations"] > 0 \/ p.seen["children"] > 0)

(* A mutant: two of one phase are out of order as well.                    *)
IsOutOfOrderOrEqual(p, local) ==
  IsOrdered(p) /\ PhaseOf(local) # 0 /\ PhaseOf(local) <= p.phase

(* check_content_order                                                     *)
IsOutOfOrder(p, local) ==
  IsOrdered(p) /\ PhaseOf(local) # 0 /\ PhaseOf(local) < p.phase

(* A second one where there is one.                                        *)
IsOneTooMany(p, local) ==
  /\ Counter(p, local) \in {"derivations", "particles", "selectors", "anyAttributes"}
  /\ p.local # "union"
  /\ p.seen[Counter(p, local)] > 0

(* check_complex_type_child: derived content is the only child.            *)
IsBesideDerivation(p, local) ==
  /\ p.local = "complexType"
  /\ \/ local \in Derivations(p) /\ p.seen["children"] > 0
     \/ local # "annotation" /\ p.seen["derivations"] > 0

(* check_derivation_particle_child                                         *)
IsOfOtherContent(p, local) ==
  /\ p.local \in {"extension", "restriction"}
  /\ \/ p.parent = "simpleContent" /\ local \in ParticleKinds
     \/ /\ p.parent = "complexContent" \/ (p.parent = "simpleContent" /\ p.local = "extension")
        /\ local \in Facets \cup {"simpleType"}

(* An inline type beside a reference to one.                               *)
IsSecondType(p, local) ==
  /\ local \in Derivations(p)
  /\ \/ p.local \in {"element", "attribute"} /\ p.hasType
     \/ (p.local = "list" \/ IsSimpleRestriction(p)) /\ p.hasBase

(* check_all_child                                                         *)
RepeatsInAll(p, e) ==
  /\ p.local = "all" /\ e.local = "element"
  /\ \E a \in {"minOccurs", "maxOccurs"} :
       Has(e, a) /\ (e.attrs[a] = "unbounded" \/ (e.attrs[a] \in DOMAIN Number /\ Number[e.attrs[a]] > 1))

(* The rules on a child e of p.                                            *)
IsBadChild(p, e, qualified) ==
  LET local == e.local
  IN  \/ IsLateAnnotation(p, local)
      \/ local = "notation" /\ ~IsTop(p)
      \/ local \in {"group", "attributeGroup"} /\ (Has(e, "ref") = IsTop(p) \/ Has(e, "name") # IsTop(p))
      \/ p.isRef /\ p.local \in {"group", "attributeGroup", "element", "attribute"} /\ local # "annotation"
      \/ IsOutOfOrder(p, local)
      \/ KeysOf(p, e, qualified) \cap p.keys # {}
      \/ IsOneTooMany(p, local)
      \/ IsSelective(p) /\ local \notin Admitted(p)
      \/ p.local \in {"sequence", "choice"} /\ local = "all"
      \/ IsBesideDerivation(p, local)
      \/ IsOfOtherContent(p, local)
      \/ IsSecondType(p, local)
      \/ p.local \in IdentityKinds /\ local = "field" /\ p.seen["selectors"] = 0
      \/ RepeatsInAll(p, e)

(* check_required_content, and handle_end for identity constraints.        *)
LacksContent(p) ==
  \/ p.local \in {"simpleContent", "complexContent", "simpleType"} /\ p.seen["derivations"] = 0
  \/ (p.local \in {"list", "union"} \/ IsSimpleRestriction(p)) /\ ~p.hasBase /\ p.seen["derivations"] = 0
  \/ p.local \in IdentityKinds /\ (p.seen["selectors"] # 1 \/ p.seen["fields"] = 0)

(* validate_facet_consistency, of a facet after the ones in s.             *)
IsInconsistent(s, f) ==
  \E g \in Range(s) :
    \/ f.facet = "minLength" /\ g.facet = "maxLength" /\ Number[f.value] > Number[g.value]
    \/ f.facet = "maxLength" /\ g.facet = "minLength" /\ Number[g.value] > Number[f.value]
    \/ f.facet = "fractionDigits" /\ g.facet = "totalDigits" /\ Number[f.value] > Number[g.value]
    \/ f.facet = "totalDigits" /\ g.facet = "fractionDigits" /\ Number[g.value] > Number[f.value]

==============================================================================
