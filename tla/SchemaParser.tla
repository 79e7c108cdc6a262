------------------------------ MODULE SchemaParser ------------------------------
(***************************************************************************)
(* Parsing a schema document into an AST (src/schema/xsd/parser: handlers, *)
(* finishers, mod.rs, stack_frame.rs; xsd/types).                          *)
(*                                                                         *)
(* Start and end tags arrive in document order.  A start tag pushes a      *)
(* frame, an end tag pops one and attaches it to the frame below.  Frames, *)
(* and the parts of the AST they become, are records                       *)
(*   [kind, props, slots]                                                  *)
(* with their fields in props, and in slots, by name, the sequences of     *)
(* their parts; a slot that can hold one thing has at most one.            *)
(***************************************************************************)
EXTENDS SchemaRules

CONSTANTS
  Sources,  \* sets of root elements of schema documents
  NoPrefix  \* the prefix of schema documents, before it is detected

VARIABLES
  source,      \* the root element
  left,        \* of every open element, the children not yet read
  open,        \* the open elements
  scopes,      \* namespaces in scope in them: default_ns_stack, ns_scope_stack
  detected,    \* xsd_prefix
  skip,        \* skip_depth
  children,    \* child_state_stack
  frames,      \* stack
  ids,         \* seen_ids
  constraints, \* seen_constraint_names
  topLevel,    \* seen_top_level
  ast,         \* schema
  outcome      \* "reading", "accepted" or "refused"

parserVars == <<source, left, open, scopes, detected, skip, children, frames, ids, constraints, topLevel, ast, outcome>>

Node(kind, props) == [kind |-> kind, props |-> props, slots |-> <<>>]

ParserInit ==
  /\ \E k \in DOMAIN Sources : source \in Sources[k]
  /\ left = <<<<source>>>>
  /\ open = <<>>
  /\ scopes = <<>>
  /\ detected = NoPrefix
  /\ skip = 0
  /\ children = <<>>
  /\ frames = <<>>
  /\ ids = {} /\ constraints = {} /\ topLevel = {}
  /\ ast = Node("schema", <<>>)
  /\ outcome = "reading"

-------------------------------------------------------------------------------
(* Tags.                                                                   *)

NextIsStart == Last(left) # <<>>
NextIsEnd == Last(left) = <<>> /\ open # <<>>

Starting == Head(Last(left))

ReadStart ==
  /\ left' = Front(left) \o <<Tail(Last(left)), Starting.kids>>
  /\ open' = Append(open, Starting)
  /\ UNCHANGED source

ReadEnd ==
  /\ left' = Front(left)
  /\ open' = Front(open)
  /\ UNCHANGED source

Top(stack) == IF stack = <<>> THEN <<>> ELSE Last(stack)

TopKind == IF frames = <<>> THEN "none" ELSE Last(frames).kind

-------------------------------------------------------------------------------
(* Names.                                                                  *)

(* The prefix is that of the first declaration of the namespace; the       *)
(* default namespace comes before others on the same element.              *)
Detected(e) ==
  LET prefixes == {p \in DOMAIN e.decls : e.decls[p] = XsdNs}
  IN  IF detected # NoPrefix \/ prefixes = {} THEN detected
      ELSE IF "" \in prefixes THEN "" ELSE CHOOSE p \in prefixes : TRUE

ScopeIn(scope, e) == e.decls @@ scope

(* is_xsd_element                                                          *)
IsSchemaElement(e, scope, prefix) ==
  IF e.prefix = "" /\ "" \in DOMAIN scope THEN scope[""] = XsdNs
  ELSE e.prefix = IF prefix = NoPrefix THEN "" ELSE prefix

(* qname.  (An undeclared prefix is in no namespace here.)                 *)
Resolved(q, scope) == [prefix |-> q.prefix, local |-> q.local, ns |-> InScope(scope, q.prefix)]

(* prefixed_bindings                                                       *)
Prefixed(scope) == [p \in DOMAIN scope \ {""} |-> scope[p]]

-------------------------------------------------------------------------------
(* What an element becomes.                                                *)

(* handle_restriction, handle_extension: the frame below decides.          *)
KindUnder(e, below) ==
  CASE e.local = "restriction" -> CASE below = "complexContent" -> "complexContentRestriction"
                                    [] below = "simpleContent"  -> "simpleContentRestriction"
                                    [] OTHER                    -> "simpleRestriction"
    [] e.local = "extension"   -> IF below = "simpleContent" THEN "simpleContentExtension" ELSE "complexContentExtension"
    [] e.local \in {"group", "attributeGroup"} /\ Has(e, "ref") -> IF e.local = "group" THEN "groupRef" ELSE "attributeGroupRef"
    [] OTHER                   -> e.local

(* The attributes that are kept, and their values in the AST:              *)
(* handle_schema, handle_element, handle_complex_type, handle_simple_type, *)
DefinitionKept ==
  [schema |-> {"targetNamespace", "elementFormDefault", "attributeFormDefault", "blockDefault", "finalDefault", "version"},
   element |-> {"name", "ref", "type", "abstract", "substitutionGroup", "block", "nillable", "default", "fixed", "form"},
   complexType |-> {"name", "abstract", "mixed", "block", "final"},
   simpleType |-> {"name", "final"}]

(* handle_attribute, handle_attribute_group, handle_group,                 *)
UseKept ==
  [attribute |-> {"name", "ref", "type", "use", "default", "fixed", "form"},
   attributeGroup |-> {"name", "ref"}, group |-> {"name", "ref"}]

(* handle_restriction, handle_extension, handle_complex_content,           *)
DerivationKept == [restriction |-> {"base"}, extension |-> {"base"}, complexContent |-> {"mixed"}]

(* handle_import, handle_include, handle_redefine, handle_override,        *)
ReferenceKept ==
  [import |-> {"namespace", "schemaLocation"}, include |-> {"schemaLocation"},
   redefine |-> {"schemaLocation"}, override |-> {"schemaLocation"}]

(* handle_unique, handle_key, handle_keyref,                               *)
ConstraintKept == [unique |-> {"name"}, key |-> {"name"}, keyref |-> {"name", "refer"}]

(* handle_list, handle_union, handle_any, handle_any_attribute.            *)
VarietyKept ==
  [list |-> {"itemType"}, union |-> {"memberTypes"},
   any |-> {"namespace", "processContents"}, anyAttribute |-> {"namespace", "processContents"}]

Kept == DefinitionKept @@ UseKept @@ DerivationKept @@ ReferenceKept @@ ConstraintKept @@ VarietyKept

(* Booleans are true only as "true".                                       *)
ValueOf(e, a, scope) ==
  LET v == e.attrs[a]
  IN  CASE a \in Get(QNameAttributes, e.local, {})  -> Resolved(v, scope)
        [] a = "memberTypes"                        -> [k \in DOMAIN v |-> Resolved(v[k], scope)]
        [] a \in {"abstract", "nillable", "mixed"}  -> v = "true"
        [] OTHER                                    -> v

Fields(e, scope) ==
  [a \in DOMAIN e.attrs \cap Get(Kept, e.local, {}) |-> ValueOf(e, a, scope)]
  @@ IF e.local \in {"element", "sequence", "choice", "all", "group", "any"}
     THEN [min |-> MinOccurs(e), max |-> MaxOccurs(e)] ELSE <<>>

(* handle_facet; handle_selector, handle_field                             *)
Facet(e) == [facet |-> e.local, value |-> Get(e.attrs, "value", "")]
XPath(e, scope) == [xpath |-> e.attrs.xpath, namespaces |-> Prefixed(scope)]

-------------------------------------------------------------------------------
(* The AST (xsd/types): the slots of every kind of node, and whether they  *)
(* hold one part or many.  What a derivation of complex content says of    *)
(* being mixed is never read, and left out.                                *)

AttributeSlots == [attributes |-> "many", attributeGroups |-> "many", anyAttribute |-> "one"]

DocumentShapes ==
  LET redefined == [simpleTypes |-> "many", complexTypes |-> "many", groups |-> "many", attributeGroups |-> "many"]
  IN  [schema   |-> [c \in {"imports", "includes", "redefines", "overrides", "elements", "types",
                            "attributes", "attributeGroups", "groups"} |-> "many"],
       redefine |-> redefined,
       override |-> redefined @@ [elements |-> "many", attributes |-> "many"]]

DeclarationShapes == [element |-> [inline |-> "one", constraints |-> "many"], attribute |-> [inline |-> "one"]]

ComplexShapes ==
  [complexType               |-> [content |-> "one"] @@ AttributeSlots,
   simpleContentExtension    |-> AttributeSlots,
   simpleContentRestriction  |-> [facets |-> "many"] @@ AttributeSlots,
   complexContentExtension   |-> [particle |-> "one"] @@ AttributeSlots,
   complexContentRestriction |-> [particle |-> "one"] @@ AttributeSlots]

SimpleShapes ==
  [simpleType |-> [content |-> "one"], simpleRestriction |-> [inline |-> "one", facets |-> "many"],
   list |-> [inline |-> "one"], union |-> [inlineTypes |-> "many"]]

GroupShapes ==
  [group |-> [particle |-> "one"], groupRef |-> [particle |-> "one"],
   attributeGroup |-> AttributeSlots, attributeGroupRef |-> AttributeSlots]

ParticleShapes ==
  [sequence |-> [particles |-> "many"], choice |-> [particles |-> "many"], all |-> [elements |-> "many"]]

ConstraintShapes == [k \in IdentityKinds |-> [selector |-> "one", fields |-> "many"]]

Shapes ==
  DocumentShapes @@ DeclarationShapes @@ ComplexShapes @@ SimpleShapes @@ GroupShapes @@ ParticleShapes @@ ConstraintShapes

Put(node, slot, x) ==
  [node EXCEPT !.slots =
     (slot :> IF Shapes[node.kind][slot] = "one" THEN <<x>> ELSE Append(Get(@, slot, <<>>), x)) @@ @]

-------------------------------------------------------------------------------
(* Where a part goes: the finishers.  The slot of a part in a frame of     *)
(* some kind; "" if it has none.                                           *)

ContentDerivations == {"simpleContentExtension", "simpleContentRestriction",
                       "complexContentExtension", "complexContentRestriction"}
ComplexDerivations == {"complexContentExtension", "complexContentRestriction"}
AttributeHolders == ContentDerivations \cup {"complexType", "attributeGroup", "attributeGroupRef"}

ElementSlot(whole) ==
  CASE whole \in {"schema", "override", "all"}                -> "elements"
    [] whole \in {"sequence", "choice"}                       -> "particles"
    [] whole \in ComplexDerivations \cup {"group", "groupRef"} -> "particle"
    [] OTHER                                                  -> ""

(* Sequences and choices; `all` is no particle among others.               *)
ModelGroupSlot(part, whole) ==
  CASE whole = "complexType"                                  -> "content"
    [] whole \in {"sequence", "choice"} /\ part # "all"       -> "particles"
    [] whole \in ComplexDerivations \cup {"group", "groupRef"} -> "particle"
    [] OTHER                                                  -> ""

GroupRefSlot(whole) ==
  CASE whole = "complexType"            -> "content"
    [] whole \in {"sequence", "choice"} -> "particles"
    [] whole \in ComplexDerivations     -> "particle"
    [] OTHER                            -> ""

AnySlot(whole) ==
  CASE whole = "complexType"            -> "content"
    [] whole \in {"sequence", "choice"} -> "particles"
    [] OTHER                            -> ""

ComplexTypeSlot(whole) ==
  CASE whole = "schema"                   -> "types"
    [] whole = "element"                  -> "inline"
    [] whole \in {"redefine", "override"} -> "complexTypes"
    [] OTHER                              -> ""

SimpleTypeSlot(whole) ==
  CASE whole = "schema"                   -> "types"
    [] whole \in {"redefine", "override"} -> "simpleTypes"
    [] whole \in {"element", "attribute", "simpleRestriction", "list"} -> "inline"
    [] whole = "union"                    -> "inlineTypes"
    [] OTHER                              -> ""

AttributeSlot(whole) == IF whole \in AttributeHolders \cup {"schema", "override"} THEN "attributes" ELSE ""

AttributeGroupSlot(part, whole) ==
  IF whole \in (IF part = "attributeGroupRef" THEN AttributeHolders ELSE {"schema", "redefine", "override"})
  THEN "attributeGroups" ELSE ""

GroupSlot(whole) == IF whole \in {"schema", "redefine", "override"} THEN "groups" ELSE ""

(* Derived content; the varieties of a simple type.                        *)
ContentSlot(part, whole) ==
  IF whole = (IF part \in ContentDerivations THEN "complexType" ELSE "simpleType") THEN "content" ELSE ""

AnyAttributeSlot(whole) == IF whole \in AttributeHolders THEN "anyAttribute" ELSE ""

ConstraintSlot(whole) == IF whole = "element" THEN "constraints" ELSE ""

RedefineSlot(part, whole) == IF whole = "schema" THEN part \o "s" ELSE ""

SlotFor(part, whole) ==
  CASE part = "element"                                   -> ElementSlot(whole)
    [] part \in {"sequence", "choice", "all"}             -> ModelGroupSlot(part, whole)
    [] part = "groupRef"                                  -> GroupRefSlot(whole)
    [] part = "any"                                       -> AnySlot(whole)
    [] part = "complexType"                               -> ComplexTypeSlot(whole)
    [] part = "simpleType"                                -> SimpleTypeSlot(whole)
    [] part = "attribute"                                 -> AttributeSlot(whole)
    [] part \in {"attributeGroup", "attributeGroupRef"}   -> AttributeGroupSlot(part, whole)
    [] part = "group"                                     -> GroupSlot(whole)
    [] part \in ContentDerivations \cup {"simpleRestriction", "list", "union"} -> ContentSlot(part, whole)
    [] part = "anyAttribute"                              -> AnyAttributeSlot(whole)
    [] part \in IdentityKinds                             -> ConstraintSlot(whole)
    [] part \in {"redefine", "override"}                  -> RedefineSlot(part, whole)
    [] OTHER                                              -> ""

(* The nearest of the frames of these kinds; 0 if there is none.           *)
Nearest(stack, kinds) ==
  LET F == {k \in DOMAIN stack : stack[k].kind \in kinds}
  IN  IF F = {} THEN 0 ELSE CHOOSE k \in F : \A j \in F : j <= k

(* A mutant: always the one below.                                         *)
WholeBelow(part, stack) == Len(stack)

(* The frame a part is attached to: the one below, or one further down.    *)
WholeOf(part, stack) ==
  CASE part \in ContentDerivations  -> Nearest(stack, {"complexType"})
    [] part \in IdentityKinds       -> Nearest(stack, {"element"})
    [] part \in {"redefine", "override"} -> Nearest(stack, {"schema"})
    [] OTHER                        -> Len(stack)

(* An element where a particle goes is wrapped, and the first one stays.   *)
IsWrapped(part, slot) == part.kind = "element" /\ slot = "particle"

Wrapped(elem) == Put(Node("sequence", [min |-> 1, max |-> 1]), "particles", elem)

AttachedTo(whole, part) ==
  LET slot == SlotFor(part.kind, whole.kind)
  IN  IF slot = "" THEN whole
      ELSE IF ~IsWrapped(part, slot) THEN Put(whole, slot, part)
      ELSE IF slot \in DOMAIN whole.slots THEN whole
      ELSE Put(whole, slot, Wrapped(part))

(* What is left when there is no frame below, or only the schema's, goes   *)
(* into the schema.                                                        *)
Attach(part, stack) ==
  LET k == WholeOf(part.kind, stack)
  IN  IF k = 0 \/ stack[k].kind = "schema"
      THEN ast' = AttachedTo(ast, part) /\ frames' = stack
      ELSE frames' = [stack EXCEPT ![k] = AttachedTo(@, part)] /\ UNCHANGED ast

(* finish_complex_content                                                  *)
MarkMixed(stack) ==
  LET k == Nearest(stack, {"complexType"})
  IN  IF k = 0 THEN stack ELSE [stack EXCEPT ![k].props = [mixed |-> TRUE] @@ @]

PutNearest(kinds, slot, x) ==
  LET k == Nearest(frames, kinds)
  IN  frames' = IF k = 0 THEN frames ELSE [frames EXCEPT ![k] = Put(@, slot, x)]

-------------------------------------------------------------------------------
(* Start tags: handle_start.                                               *)

Here == ScopeIn(Top(scopes), Starting)

IsOurs(e) == IsSchemaElement(e, Here, Detected(e))

(* check_duplicate_top_level_name: types share their names.                *)
TopLevelKeys(e) ==
  LET space == IF e.local \in {"complexType", "simpleType"} THEN "type" ELSE e.local
  IN  IF children # <<>> /\ Last(children).local = "schema" /\ e.local \in NamedKinds /\ Has(e, "name")
      THEN {[space |-> space, name |-> e.attrs.name]} ELSE {}

QualifiesAttributes == Get(ast.props, "attributeFormDefault", "unqualified") = "qualified"

(* check_structural_rules                                                  *)
IsRefused(e) ==
  LET top     == TopKind \in {"schema", "redefine", "override", "none"}
      inGroup == children # <<>> /\ Last(children).local = "group"
  IN  \/ Has(e, "id") /\ (e.attrs.id \notin NCNames \/ e.attrs.id \in ids)
      \/ TopKind = "simpleRestriction" /\ e.local \notin Facets \cup {"annotation", "simpleType", "assertion"}
      \/ /\ e.local \in IdentityKinds
         /\ ~(/\ TopKind = "element"
              /\ Has(e, "name") /\ e.attrs.name \in NCNames \ constraints
              /\ Has(e, "refer") = (e.local = "keyref"))
      \/ HasBadAttribute(e, Detected(e), top, inGroup)
      \/ HasBadValue(e)
      \/ LacksAttribute(e)
      \/ e.local = "schema" /\ children # <<>>
      \/ TopLevelKeys(e) \cap topLevel # {}
      \/ children # <<>> /\ IsBadChild(Last(children), e, QualifiesAttributes)

PushState(e, stack) == Append(stack, NewState(e, IF stack = <<>> THEN "" ELSE Last(stack).local))

Counted(e) ==
  IF children = <<>> THEN children
  ELSE [children EXCEPT ![Len(children)] = AfterChild(@, e, QualifiesAttributes)]

StartOf(e) ==
  /\ outcome = "reading"
  /\ NextIsStart
  /\ e = Starting
  /\ ReadStart
  /\ detected' = Detected(e)

(* In an annotation nothing counts, namespaces least of all.               *)
StartSkipped(e) ==
  /\ StartOf(e)
  /\ skip > 0
  /\ scopes' = Append(scopes, Last(scopes))
  /\ skip' = skip + 1
  /\ UNCHANGED <<children, frames, ids, constraints, topLevel, ast, outcome>>

(* What is not an element of schema documents is passed over: but not its  *)
(* content.                                                                *)
StartForeign(e) ==
  /\ StartOf(e)
  /\ skip = 0
  /\ ~IsOurs(e)
  /\ scopes' = Append(scopes, Here)
  /\ UNCHANGED <<skip, children, frames, ids, constraints, topLevel, ast, outcome>>

(* A declaration for other processors is skipped as annotations are, and   *)
(* its parent does not count it.                                           *)
StartPruned(e) ==
  /\ StartOf(e)
  /\ skip = 0
  /\ IsOurs(e) /\ e.local # "schema" /\ IsPruned(e, Here)
  /\ scopes' = Append(scopes, Here)
  /\ frames' = Append(frames, Node("annotation", <<>>))
  /\ children' = PushState(e, children)
  /\ skip' = 1
  /\ UNCHANGED <<ids, constraints, topLevel, ast, outcome>>

(* Of an element that is neither of these.                                 *)
StartOfOurs(e) ==
  /\ StartOf(e)
  /\ skip = 0
  /\ IsOurs(e) /\ (e.local = "schema" \/ ~IsPruned(e, Here))
  /\ scopes' = Append(scopes, Here)

(* What a handler refuses: parse_occurs, parse_facet_length,               *)
(* validate_facet_consistency, check_identity_xpath.                       *)
Restrictions == {"simpleRestriction", "simpleContentRestriction"}

FacetsSoFar == LET k == Nearest(frames, Restrictions) IN IF k = 0 THEN <<>> ELSE Get(frames[k].slots, "facets", <<>>)

IsUnusable(e) ==
  \/ HasBadBounds(e)
  \/ e.local \in SizeFacets /\ ~(Facet(e).value \in DOMAIN Number /\ ~IsInconsistent(FacetsSoFar, Facet(e)))
  \/ e.local \in {"selector", "field"} /\ ~IsIdentityXPath(Get(e.attrs, "xpath", <<>>), e.local, DOMAIN Here)

StartRefused(e) ==
  /\ StartOfOurs(e)
  /\ IsRefused(e) \/ IsUnusable(e)
  /\ outcome' = "refused"
  /\ UNCHANGED <<skip, children, frames, ids, constraints, topLevel, ast>>

StartAdmitted(e) ==
  /\ StartOfOurs(e)
  /\ ~IsRefused(e) /\ ~IsUnusable(e)
  /\ children' = PushState(e, Counted(e))
  /\ ids' = ids \cup (IF Has(e, "id") THEN {e.attrs.id} ELSE {})
  /\ constraints' = constraints \cup (IF e.local \in IdentityKinds THEN {e.attrs.name} ELSE {})
  /\ topLevel' = topLevel \cup TopLevelKeys(e)
  /\ UNCHANGED outcome

Framed ==
  {"schema", "element", "complexType", "simpleType", "attribute", "attributeGroup", "restriction", "extension",
   "complexContent", "simpleContent", "redefine", "override", "list", "union", "documentation", "appinfo"}
  \cup ParticleKinds \cup WildcardKinds \cup IdentityKinds

(* The handlers that push a frame.                                         *)
StartFramed(e) ==
  /\ StartAdmitted(e)
  /\ e.local \in Framed
  /\ frames' = Append(frames, Node(KindUnder(e, TopKind), IF e.local = "schema" THEN <<>> ELSE Fields(e, Here)))
  /\ ast' = IF e.local = "schema" THEN [ast EXCEPT !.props = Fields(e, Here)] ELSE ast
  /\ UNCHANGED skip

StartAnnotation(e) ==
  /\ StartAdmitted(e)
  /\ e.local = "annotation"
  /\ frames' = Append(frames, Node("annotation", <<>>))
  /\ skip' = 1
  /\ UNCHANGED ast

(* handle_facet                                                            *)
StartFacet(e) ==
  /\ StartAdmitted(e)
  /\ e.local \in Facets
  /\ PutNearest(Restrictions, "facets", Facet(e))
  /\ UNCHANGED <<skip, ast>>

(* handle_selector, handle_field                                           *)
StartXPath(e) ==
  /\ StartAdmitted(e)
  /\ e.local \in {"selector", "field"}
  /\ PutNearest(IdentityKinds, IF e.local = "field" THEN "fields" ELSE "selector", XPath(e, Here))
  /\ UNCHANGED <<skip, ast>>

(* handle_import, handle_include                                           *)
StartReference(e) ==
  /\ StartAdmitted(e)
  /\ e.local \in {"import", "include"}
  /\ ast' = IF e.local = "import" THEN Put(ast, "imports", Fields(e, Here))
            ELSE IF Has(e, "schemaLocation") THEN Put(ast, "includes", Fields(e, Here))
            ELSE ast
  /\ UNCHANGED <<skip, frames>>

(* An element of another name pushes no frame.                             *)
StartUnknown(e) ==
  /\ StartAdmitted(e)
  /\ e.local \notin Framed \cup Facets \cup {"annotation", "selector", "field", "import", "include"}
  /\ UNCHANGED <<skip, frames, ast>>

-------------------------------------------------------------------------------
(* End tags: handle_end.                                                   *)

(* Elements whose end tag pops no frame.                                   *)
Unframed == (Facets \ {"explicitTimezone"}) \cup {"import", "include", "selector", "field"}

EndOf(e) ==
  /\ outcome = "reading"
  /\ NextIsEnd
  /\ e = Last(open)
  /\ ReadEnd
  /\ scopes' = Front(scopes)
  /\ UNCHANGED <<detected, ids, constraints, topLevel>>

EndSkipped(e) ==
  /\ EndOf(e)
  /\ skip > 0
  /\ skip' = skip - 1
  /\ IF skip = 1 THEN frames' = Front(frames) /\ children' = Front(children)
     ELSE UNCHANGED <<frames, children>>
  /\ UNCHANGED <<ast, outcome>>

EndForeign(e) ==
  /\ EndOf(e)
  /\ skip = 0
  /\ ~IsSchemaElement(e, Last(scopes), detected)
  /\ UNCHANGED <<skip, children, frames, ast, outcome>>

EndOfOurs(e) ==
  /\ EndOf(e)
  /\ skip = 0
  /\ IsSchemaElement(e, Last(scopes), detected)
  /\ children' = Front(children)
  /\ UNCHANGED skip

EndRefused(e) ==
  /\ EndOfOurs(e)
  /\ LacksContent(Last(children))
  /\ outcome' = "refused"
  /\ UNCHANGED <<frames, ast>>

EndUnframed(e) ==
  /\ EndOfOurs(e)
  /\ ~LacksContent(Last(children))
  /\ e.local \in Unframed \/ frames = <<>>
  /\ UNCHANGED <<frames, ast, outcome>>

(* The frame that is popped is whatever is on top.                         *)
EndFramed(e) ==
  /\ EndOfOurs(e)
  /\ ~LacksContent(Last(children))
  /\ e.local \notin Unframed /\ frames # <<>>
  /\ LET part == Last(frames)
     IN  IF e.local \in {"documentation", "appinfo"} THEN frames' = Front(frames) /\ UNCHANGED ast
         ELSE IF part.kind = "complexContent" /\ Get(part.props, "mixed", FALSE)
         THEN frames' = MarkMixed(Front(frames)) /\ UNCHANGED ast
         ELSE Attach(part, Front(frames))
  /\ UNCHANGED outcome

(* finish                                                                  *)
Finish ==
  /\ outcome = "reading"
  /\ ~NextIsStart /\ ~NextIsEnd
  /\ outcome' = IF frames = <<>> THEN "accepted" ELSE "refused"
  /\ UNCHANGED <<source, left, open, scopes, detected, skip, children, frames, ids, constraints, topLevel, ast>>

Start ==
  \E e \in IF NextIsStart THEN {Starting} ELSE {} :
    \/ StartSkipped(e) \/ StartForeign(e) \/ StartPruned(e) \/ StartRefused(e)
    \/ StartFramed(e) \/ StartAnnotation(e) \/ StartFacet(e) \/ StartXPath(e)
    \/ StartReference(e) \/ StartUnknown(e)

End ==
  \E e \in IF NextIsEnd THEN {Last(open)} ELSE {} :
    EndSkipped(e) \/ EndForeign(e) \/ EndRefused(e) \/ EndUnframed(e) \/ EndFramed(e)

ParserNext == Start \/ End \/ Finish

ParserSpec == ParserInit /\ [][ParserNext]_parserVars

==============================================================================
