----------------------------- MODULE SchemaInstance -----------------------------
(***************************************************************************)
(* What the streaming and the DOM validator of src/schema/validator/       *)
(* share: the compiled schema they read, the document they validate, and   *)
(* the lookups they both make (decls.rs, xsi_type.rs, types.rs,            *)
(* attributes.rs).                                                         *)
(*                                                                         *)
(* Element names stand for expanded names.  A document is the sequence of  *)
(* its elements in document order.                                         *)
(***************************************************************************)
EXTENDS Integers, FiniteSets, Sequences

CONSTANTS
  Schemas,     \* the compiled schemas a run starts from, each with the tags and texts of
               \* its documents, and a bound on their elements: limit
  Unbounded,   \* maxOccurs="unbounded"
  None,        \* the Rust None, of any type
  Canon,       \* the canonical form of each value (value_compare.rs)
  MaxDepth     \* bound: nesting of the document

ASSUME InstanceAssumption ==
  /\ Unbounded \notin Nat
  /\ MaxDepth \in Nat

VARIABLES
  schema, \* CompiledSchema
  doc,    \* the elements read so far
  open    \* the open elements, by their index in doc, outermost first

instanceVars == <<schema, doc, open>>

(* The automata of the types: the operators of ContentAutomaton.           *)
A == INSTANCE ContentAutomaton WITH
       Names <- {}, Automata <- {}, MaxChildren <- 0, auto <- None, configs <- {},
       children <- <<>>, verdict <- "open", errors <- {}, exact <- {}

InstanceInit ==
  /\ schema \in Schemas
  /\ doc = <<>>
  /\ open = <<>>

Current == open[Len(open)]

Parent(i) == doc[i].parent

ChildrenOf(i) == {j \in DOMAIN doc : Parent(j) = i}

(* The tags a run offers.                                                 *)
Offered == IF open = <<>> THEN schema.roots ELSE schema.tags

(* A start tag: an element below the current one, or the root.             *)
OpenElement(tag) ==
  /\ Len(doc) < schema.limit
  /\ Len(open) < MaxDepth
  /\ open = <<>> => doc = <<>>
  /\ doc' = Append(doc, [tag |-> tag, text |-> "", parent |-> IF open = <<>> THEN 0 ELSE Current])
  /\ open' = Append(open, Len(doc) + 1)
  /\ UNCHANGED schema

(* Text of the current element.  The pieces of an element's own text are   *)
(* accumulated, wherever they stand; one piece before any child stands for *)
(* them.                                                                   *)
AddText(text) ==
  /\ open # <<>>
  /\ Current = Len(doc)
  /\ doc[Current].text = ""
  /\ doc' = [doc EXCEPT ![Current].text = text]
  /\ UNCHANGED <<schema, open>>

CloseElement ==
  /\ open # <<>>
  /\ open' = SubSeq(open, 1, Len(open) - 1)
  /\ UNCHANGED <<schema, doc>>

-------------------------------------------------------------------------------
(* Types.  A type is named; None is xs:anyType or an unresolved reference. *)
(* An anonymous type has a name of its own that no xsi:type can use.       *)

Type(t) == schema.types[t]

IsComplex(t) == t # None /\ Type(t).kind = "complex"

(* The n-th base of t.                                                     *)
Ancestor(t, n) ==
  LET up[k \in 0 .. n] == IF k = 0 \/ up[k - 1] = None THEN IF k = 0 THEN t ELSE None
                          ELSE Type(up[k - 1]).base
  IN  up[n]

DerivationLimit == 32

(* The walk from the substituted type s up to the declared type d.         *)
StepsTo(s, d) ==
  {n \in 1 .. Cardinality(DOMAIN schema.types) : n <= DerivationLimit /\ Ancestor(s, n) = d}

MethodsUsed(s, n) == {Type(Ancestor(s, k)).by : k \in 0 .. n - 1}

(* resolve_xsi_type: may the type named s stand for the declared type d?   *)
Substitutable(s, d) ==
  \/ d = None
  \/ /\ ~Type(d).anonymous
     /\ \/ s = d
        \/ \E n \in StepsTo(s, d) : IsComplex(d) => MethodsUsed(s, n) \cap Type(d).block = {}

(* The type that xsi:type names, which has to be a global type.            *)
NamedType(s) == s \in DOMAIN schema.types /\ ~Type(s).anonymous

-------------------------------------------------------------------------------
(* Declarations.                                                           *)

GlobalDecl(n) == IF n \in DOMAIN schema.globals THEN schema.globals[n] ELSE None

(* The declarations named n in the content model of t, in its order.       *)
DeclarationsOf(t, n) ==
  IF ~IsComplex(t) THEN <<>> ELSE SelectSeq(Type(t).children, LAMBDA c : c.name = n)

(* expects_child, FlattenedChildren::constraints                           *)
Expects(t, n) == DeclarationsOf(t, n) # <<>>

Last(s) == s[Len(s)]

(* find_local_declaration from the end of the list, and a reference leads  *)
(* to the global declaration.                                              *)
Governing(t, n) ==
  IF Expects(t, n) /\ ~Last(DeclarationsOf(t, n)).ref
  THEN Last(DeclarationsOf(t, n)).decl
  ELSE GlobalDecl(n)

(* Same name, several positions, and value constraints that differ from    *)
(* those of d.                                                             *)
IsPositional(t, n, d) ==
  \E k \in DOMAIN DeclarationsOf(t, n) :
    LET c == DeclarationsOf(t, n)[k].decl
    IN  c.fixed # d.fixed \/ c.default # d.default

Least(m, n) == IF m <= n THEN m ELSE n

(* The k-th declaration, for the k-th child named n.                      *)
DeclAt(t, n, k) ==
  LET decls == DeclarationsOf(t, n)
  IN  decls[Least(k, Len(decls))].decl

(* What an element without a declaration is held to.                       *)
NoDecl ==
  [type |-> None, nillable |-> FALSE, abstract |-> FALSE, fixed |-> None, default |-> None,
   constraints |-> <<>>]

ChildrenIn(t) == {Type(t).children[k] : k \in DOMAIN Type(t).children}

HasAutomaton(t) == IsComplex(t) /\ Type(t).auto # None

Wildcard(t) == IF IsComplex(t) THEN Type(t).wildcard ELSE None

Admits(w, n) == w # None /\ n \in w.names

(* The wildcard is the only particle: its occurrence bounds are counted.   *)
IsSoleParticle(t) == Wildcard(t) # None /\ Type(t).children = <<>>

InBounds(k, min, max) == k >= min /\ (max = Unbounded \/ k <= max)

-------------------------------------------------------------------------------
(* Values.  A text is one of a few; "" is empty.                           *)

HasSimpleValue(t) == t # None /\ Type(t).values # None

(* identity_key and compare_values: in the value space of a simple type.   *)
KeyOf(typed, v) == IF typed THEN Canon[v] ELSE v

(* The text check of a type without a simple value: element-only content.  *)
IsElementOnly(t) == IsComplex(t) /\ Type(t).values = None /\ ~Type(t).mixed

(* The schema-normalized content.                                          *)
EffectiveText(text, decl) ==
  IF text # "" THEN text
  ELSE IF decl.fixed # None THEN decl.fixed
  ELSE IF decl.default # None THEN decl.default
  ELSE ""

(* A fixed value is compared in the value space of a simple type, and as   *)
(* text otherwise.                                                         *)
MissesFixed(t, text, fixed) ==
  /\ fixed # None /\ text # ""
  /\ LET typed == HasSimpleValue(t) /\ ~IsComplex(t)
     IN  KeyOf(typed, text) # KeyOf(typed, fixed)

-------------------------------------------------------------------------------
(* Attributes (attributes.rs).                                             *)

(* An attribute of a simple type's element has no declaration.             *)
AttributesOf(t) == IF IsComplex(t) THEN Type(t).attrs ELSE <<>>

AttributeWildcard(t) == IsComplex(t) /\ Type(t).anyAttr

(* validate_element_attributes: invalid values, attributes that are not    *)
(* allowed, and required ones that are missing.                            *)
AttributeErrors(t, attrs) ==
  IF t = None THEN {}
  ELSE {n \in DOMAIN attrs : IF n \in DOMAIN AttributesOf(t)
                             THEN attrs[n] \notin AttributesOf(t)[n].values
                             ELSE ~AttributeWildcard(t)}
       \cup
       {n \in DOMAIN AttributesOf(t) : AttributesOf(t)[n].required /\ n \notin DOMAIN attrs}

(* The values of the attributes declared as xs:ID, or as xs:IDREF.         *)
ValuesOfKind(t, attrs, kind) ==
  IF t = None THEN {}
  ELSE {attrs[n] : n \in {m \in DOMAIN attrs \cap DOMAIN AttributesOf(t) : AttributesOf(t)[m].kind = kind}}

(* attribute_primitive_kind: the attribute's values have a value space.    *)
IsTyped(t, n) == n \in DOMAIN AttributesOf(t) /\ AttributesOf(t)[n].typed

-------------------------------------------------------------------------------
(* Counting children where there is no automaton (xs:all).                 *)

MembersOf(n) == IF n \in DOMAIN schema.members THEN schema.members[n] ELSE {}

(* Children of i named n or by a member of its substitution group.         *)
TotalCount(i, n) ==
  Cardinality({j \in ChildrenOf(i) : doc[j].tag.name \in {n} \cup MembersOf(n)})

(* validate_min_occurs                                                     *)
TooFew(t, i) == \E c \in ChildrenIn(t) : TotalCount(i, c.name) < c.min

-------------------------------------------------------------------------------
(* Paths of selectors and fields: [deep, steps], where "*" is any name.    *)

StepsMatch(steps, names) ==
  /\ Len(steps) = Len(names)
  /\ \A k \in DOMAIN steps : steps[k] \in {"*", names[k]}

(* StepPath::matches                                                       *)
PathMatches(p, names) ==
  IF p.deep
  THEN /\ Len(names) >= Len(p.steps)
       /\ StepsMatch(p.steps, SubSeq(names, Len(names) - Len(p.steps) + 1, Len(names)))
  ELSE StepsMatch(p.steps, names)

==============================================================================
