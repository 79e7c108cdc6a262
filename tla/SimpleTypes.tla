------------------------------ MODULE SimpleTypes ------------------------------
(***************************************************************************)
(* Simple types: their facets checked against their base when a schema is  *)
(* compiled (src/schema/xsd/compiler: facet_checks.rs, references.rs,      *)
(* base_facets.rs, types.rs), and texts against the facets gathered from   *)
(* all their steps (facets/mod.rs, PrimitiveKind::resolve, numeric.rs).    *)
(*                                                                         *)
(* A simple type is a record [name, doc, variety, of, facets]: its name,   *)
(* Absent of an anonymous one; the document it is in; "restriction",       *)
(* "list" or "union"; the types it is made of; and of a restriction the    *)
(* facets, [facet, value], in their order.  A type is referred to by       *)
(*   [to |-> "builtin", name]   [to |-> "type", type]   [to |-> "inline",  *)
(*   def]                                                                  *)
(* where type is an index among the named types, and references are        *)
(* resolved.  The value of a bound or an enumeration is a text, of a       *)
(* pattern the set of texts that it matches, and otherwise a number or a   *)
(* word.  The limits on the length of chains of types (16, 64) are not     *)
(* modelled.                                                               *)
(***************************************************************************)
EXTENDS Values

-------------------------------------------------------------------------------
(* Built-in types.                                                         *)

StringTypes == [string |-> "preserve", normalizedString |-> "replace", token |-> "collapse"]

ListTypes == [NMTOKENS |-> "NMTOKEN", IDREFS |-> "IDREF", ENTITIES |-> "ENTITY"]

(* create_xsd_primitive_types                                              *)
BuiltinBases ==
  [normalizedString |-> "string", token |-> "normalizedString", language |-> "token", NMTOKEN |-> "token",
   Name |-> "token", NCName |-> "Name", ID |-> "NCName", IDREF |-> "NCName", ENTITY |-> "NCName",
   dateTimeStamp |-> "dateTime", dayTimeDuration |-> "duration", yearMonthDuration |-> "duration",
   integer |-> "decimal", long |-> "integer", int |-> "long", short |-> "int", byte |-> "short",
   nonNegativeInteger |-> "integer", positiveInteger |-> "nonNegativeInteger",
   unsignedLong |-> "nonNegativeInteger", unsignedInt |-> "unsignedLong", unsignedShort |-> "unsignedInt",
   unsignedByte |-> "unsignedShort", nonPositiveInteger |-> "integer", negativeInteger |-> "nonPositiveInteger"]

Builtin(name) == [to |-> "builtin", name |-> name]

(* classify_builtin_base                                                   *)
ClassifyBuiltin(name) ==
  IF KindNamed(name) # Absent THEN [class |-> "primitive", kind |-> KindNamed(name)]
  ELSE IF name \in DOMAIN StringTypes THEN [class |-> "string", white |-> StringTypes[name]]
  ELSE IF name \in DOMAIN ListTypes THEN [class |-> "list"]
  ELSE [class |-> "unknown"]

(* facet_base: of a type that a schema defines nothing is known here.      *)
FacetBase(ref) == IF ref.to = "builtin" THEN ClassifyBuiltin(ref.name) ELSE [class |-> "unknown"]

-------------------------------------------------------------------------------
(* One step: check_facets.                                                 *)

Uses(facets, F) == \E k \in DOMAIN facets : facets[k].facet \in F

Declared(facets, f) ==
  LET at == {k \in DOMAIN facets : facets[k].facet = f} IN IF at = {} THEN Absent ELSE facets[Max(at)].value

LengthFacets == {"length", "minLength", "maxLength"}
DigitFacets == {"totalDigits", "fractionDigits"}
LowFacets == {"minInclusive", "minExclusive"}
HighFacets == {"maxInclusive", "maxExclusive"}
RangeFacets == LowFacets \cup HighFacets

StepFits(facets, base) ==
  LET restated == /\ base.class = "list" /\ Declared(facets, "minLength") = 1
                  /\ Declared(facets, "length") # 0
  IN  /\ \A j, k \in DOMAIN facets :
           j < k /\ facets[j].facet = facets[k].facet => facets[j].facet \in {"enumeration", "pattern", "explicitTimezone"}
      /\ Declared(facets, "totalDigits") # 0
      /\ Uses(facets, {"length"}) => ~Uses(facets, {"maxLength"}) /\ (Uses(facets, {"minLength"}) => restated)
      /\ \A E \in {LowFacets, HighFacets} : \E f \in E : ~Uses(facets, {f})

PrimitiveFits(facets, kind) ==
  /\ Uses(facets, LengthFacets) => kind \in TextKinds
  /\ Uses(facets, DigitFacets) => kind \in DecimalKinds
  /\ kind \in IntegerKinds => Declared(facets, "fractionDigits") \in {0, Absent}
  /\ Declared(facets, "whiteSpace") \in {"collapse", Absent}
  /\ Uses(facets, RangeFacets) => kind \in OrderedKinds
  /\ \A k \in DOMAIN facets :
       facets[k].facet \in RangeFacets \cup {"enumeration"} => Valid(kind, Collapsed(facets[k].value))
  /\ \A lo \in LowFacets, hi \in HighFacets :
       Uses(facets, {lo}) /\ Uses(facets, {hi}) =>
         CompareTexts(kind, Collapsed(Declared(facets, lo)), Collapsed(Declared(facets, hi))) # ">"

WhiteSpaceAllowed(white, base) ==
  CASE base = "preserve" -> TRUE [] base = "replace" -> white # "preserve" [] base = "collapse" -> white = "collapse"

StringFits(facets, white) ==
  /\ Uses(facets, {"whiteSpace"}) => WhiteSpaceAllowed(Declared(facets, "whiteSpace"), white)
  /\ ~Uses(facets, RangeFacets \cup DigitFacets)

FacetsFit(facets, base) ==
  /\ StepFits(facets, base)
  /\ base.class = "primitive" => PrimitiveFits(facets, base.kind)
  /\ base.class = "string" => StringFits(facets, base.white)

-------------------------------------------------------------------------------
(* The facets that a step inherits: InheritedFacets.                       *)

InheritedNames == LengthFacets \cup DigitFacets \cup RangeFacets \cup {"whiteSpace"}

NoFacets == [f \in InheritedNames |-> Absent]

ListFacets(minLength) == [NoFacets EXCEPT !.whiteSpace = "collapse", !.minLength = minLength]

(* builtin, builtin_primitive                                              *)
Text(word) == IF word = Absent THEN Absent ELSE Clean(<<word>>)

BuiltinFacets(base) ==
  CASE base.class = "primitive" ->
         [NoFacets EXCEPT !.minInclusive = Text(LeastOf(base.kind)), !.maxInclusive = Text(GreatestOf(base.kind)),
                          !.whiteSpace = "collapse",
                          !.fractionDigits = IF base.kind \in IntegerKinds THEN 0 ELSE Absent]
    [] base.class = "string" -> [NoFacets EXCEPT !.whiteSpace = base.white]
    [] base.class = "list"   -> ListFacets(1)

(* The other bound at its end, which a bound replaces as well.             *)
OtherBound(f) ==
  CASE f = "minInclusive" -> "minExclusive" [] f = "minExclusive" -> "minInclusive"
    [] f = "maxInclusive" -> "maxExclusive" [] f = "maxExclusive" -> "maxInclusive" [] OTHER -> f

RestrictedBy(inherited, facets) ==
  LET Replace(known, x) ==
        IF x.facet \notin InheritedNames THEN known
        ELSE [known EXCEPT ![OtherBound(x.facet)] = Absent,
                           ![x.facet] = IF x.facet \in RangeFacets THEN Collapsed(x.value) ELSE x.value]
  IN  FoldLeft(Replace, inherited, facets)

(* facets_of, facets_of_type: with the primitive kind; Absent where a type *)
(* of another document, a union or an unknown type is on the way.          *)
RECURSIVE FacetsOf(_, _, _), FacetsOfType(_, _)

FacetsOf(types, i, ref) ==
  CASE ref.to = "builtin" ->
         LET base == ClassifyBuiltin(ref.name)
         IN  IF base.class = "unknown" THEN Absent
             ELSE [known |-> BuiltinFacets(base), kind |-> IF base.class = "primitive" THEN base.kind ELSE Absent]
    [] ref.to = "type" -> IF types[ref.type].doc # i THEN Absent ELSE FacetsOfType(types, types[ref.type])
    [] OTHER           -> FacetsOfType(types, ref.def)

FacetsOfType(types, d) ==
  CASE d.variety = "restriction" ->
         LET base == FacetsOf(types, d.doc, d.of[1])
         IN  IF base = Absent THEN Absent ELSE [base EXCEPT !.known = RestrictedBy(@, d.facets)]
    [] d.variety = "list"        -> [known |-> ListFacets(Absent), kind |-> Absent]
    [] d.variety = "union"       -> Absent

-------------------------------------------------------------------------------
(* A step against what it inherits: check_against_base.                    *)

(* check_range_against_base: how a bound and one of the base may not stand *)
(* to each other.                                                          *)
InvalidOrders ==
  LET Above  == {">"}
      Under  == {"<"}
      NotLess == {">", "="}
      NotMore == {"<", "="}
      min(incl, excl) == [minInclusive |-> incl, minExclusive |-> excl, maxInclusive |-> Above, maxExclusive |-> NotLess]
      max(incl, excl) == [maxInclusive |-> Above, maxExclusive |-> excl, minInclusive |-> incl, minExclusive |-> NotMore]
  IN  [minInclusive |-> min(Under, NotMore), minExclusive |-> min(Under, Under),
       maxInclusive |-> max(Under, NotLess), maxExclusive |-> max(NotMore, Above)]

RangeFits(facet, known, kind) ==
  \A f \in RangeFacets :
    known[f] # Absent =>
      CompareTexts(kind, Collapsed(facet.value), known[f]) \notin InvalidOrders[facet.facet][f]

FitsKnown(facet, known) ==
  LET f == facet.facet
  IN  f \in InheritedNames \ RangeFacets =>
        (known[f] # Absent =>
           CASE f = "whiteSpace" -> WhiteSpaceAllowed(facet.value, known[f])
             [] f = "length"     -> facet.value = known[f]
             [] f = "minLength"  -> facet.value >= known[f]
             [] OTHER            -> facet.value <= known[f])

(* The least length is not looked at.                                      *)
FitsBaseButLength(facets, base) ==
  \A k \in DOMAIN facets : FitsKnown(facets[k], [base.known EXCEPT !.minLength = Absent])

(* A derived bound may be on either side of the base's.                    *)
FitsBaseButRange(facets, base) == \A k \in DOMAIN facets : FitsKnown(facets[k], base.known)

FitsBase(facets, base) ==
  \A k \in DOMAIN facets :
    /\ FitsKnown(facets[k], base.known)
    /\ facets[k].facet \in RangeFacets /\ base.kind # Absent => RangeFits(facets[k], base.known, base.kind)

(* check_facets_against_base: what a list or a union of the same document  *)
(* may be restricted by.                                                   *)
AllowedOn(variety) ==
  CASE variety = "restriction" -> InheritedNames \cup {"enumeration", "pattern", "explicitTimezone"}
    [] variety = "list"        -> LengthFacets \cup {"enumeration", "pattern", "whiteSpace"}
    [] variety = "union"       -> {"enumeration", "pattern"}

AgainstBase(types, d) ==
  LET ref  == d.of[1]
      base == FacetsOf(types, d.doc, ref)
  IN  /\ ref.to = "type" =>
           (types[ref.type].doc = d.doc =>
              \A k \in DOMAIN d.facets : d.facets[k].facet \in AllowedOn(types[ref.type].variety))
      /\ base # Absent => FitsBase(d.facets, base)

(* check_simple_type                                                       *)
RECURSIVE Sound(_, _)
Sound(types, d) ==
  /\ \A k \in DOMAIN d.of : d.of[k].to = "inline" => Sound(types, d.of[k].def)
  /\ d.variety = "restriction" => FacetsFit(d.facets, FacetBase(d.of[1])) /\ AgainstBase(types, d)

-------------------------------------------------------------------------------
(* Compiled: SimpleType.  A type has the facets of its own step; of a      *)
(* restriction of an anonymous type, that type's variety but not its       *)
(* facets.                                                                 *)

FacetNames == InheritedNames \cup {"explicitTimezone"}

OwnFacets(facets) == [f \in FacetNames |-> Declared(facets, f)]

ValuesOf(facets, f) == {facets[k].value : k \in {j \in DOMAIN facets : facets[j].facet = f}}

(* create_xsd_primitive_types, list_type                                   *)
BuiltinType(name) ==
  [name    |-> name,
   facets  |-> [f \in FacetNames |->
                  IF f = "whiteSpace" /\ name \in {"normalizedString", "token"} THEN StringTypes[name] ELSE Absent],
   matching |-> Absent, enumeration |-> {},
   item    |-> IF name \in DOMAIN ListTypes THEN Builtin(ListTypes[name]) ELSE Absent,
   members |-> <<>>,
   base    |-> IF name \in DOMAIN BuiltinBases THEN Builtin(BuiltinBases[name]) ELSE Absent]

(* compile_simple_type; the patterns of a step are alternatives            *)
RECURSIVE CompiledType(_)
CompiledType(d) ==
  LET inline == d.variety = "restriction" /\ d.of[1].to = "inline"
      inner  == CompiledType(d.of[1].def)
      Restricts(part, otherwise) == IF inline THEN inner[part] ELSE otherwise
  IN  [name     |-> d.name,
       facets   |-> OwnFacets(d.facets),
       matching |-> IF Uses(d.facets, {"pattern"}) THEN UNION ValuesOf(d.facets, "pattern") ELSE Absent,
       enumeration |-> ValuesOf(d.facets, "enumeration"),
       item     |-> IF d.variety = "list" THEN d.of[1] ELSE Restricts("item", Absent),
       members  |-> IF d.variety = "union" THEN d.of ELSE Restricts("members", <<>>),
       base     |-> IF d.variety = "restriction" THEN Restricts("base", d.of[1]) ELSE Absent]

DefinitionOf(types, ref) == IF ref.to = "type" THEN types[ref.type] ELSE ref.def

(* type_by_ref, simple_base_def                                            *)
TypeOf(types, ref) == IF ref.to = "builtin" THEN BuiltinType(ref.name) ELSE CompiledType(DefinitionOf(types, ref))

(* PrimitiveKind::resolve                                                  *)
RECURSIVE KindOf(_, _)
KindOf(types, t) ==
  IF KindNamed(t.name) # Absent THEN KindNamed(t.name)
  ELSE IF t.base = Absent THEN Absent
  ELSE KindOf(types, TypeOf(types, t.base))

-------------------------------------------------------------------------------
(* What a text is validated against: FacetConstraints::build.              *)

(* The steps of a type, up to where a list or a union is made.             *)
RECURSIVE StepsOf(_, _)
StepsOf(types, t) ==
  <<t>> \o IF t.item # Absent \/ t.members # <<>> \/ t.base = Absent THEN <<>>
           ELSE StepsOf(types, TypeOf(types, t.base))

(* Of each facet the nearest is taken, of patterns all.                    *)
NearestOf(steps, f) ==
  LET at == {k \in DOMAIN steps : steps[k].facets[f] # Absent} IN IF at = {} THEN Absent ELSE steps[Min(at)].facets[f]

NearestEnumeration(steps) ==
  LET at == {k \in DOMAIN steps : steps[k].enumeration # {}} IN IF at = {} THEN {} ELSE steps[Min(at)].enumeration

RECURSIVE ConstraintsOf(_, _)
ConstraintsOf(types, t) ==
  LET steps == StepsOf(types, t)
      end   == Last(steps)
      kind  == KindOf(types, t)
      white == NearestOf(steps, "whiteSpace")
      Nested(ref) == ConstraintsOf(types, TypeOf(types, ref))
  IN  [kind        |-> kind,
       facets      |-> [f \in FacetNames |-> NearestOf(steps, f)],
       matching    |-> [k \in DOMAIN steps |-> steps[k].matching],
       enumeration |-> NearestEnumeration(steps),
       white       |-> IF white # Absent THEN white
                       ELSE IF kind # Absent \/ end.item # Absent THEN "collapse" ELSE "preserve",
       item        |-> IF end.item = Absent THEN Absent ELSE Nested(end.item),
       members     |-> [k \in DOMAIN end.members |-> Nested(end.members[k])]]

(* As long as a schema is compiled the built-in types are not in its       *)
(* table: they have no white space, and a union of one that is not known   *)
(* by its kind is not checked.                                             *)
IsBuiltin(name) == KindNamed(name) # Absent \/ name \in DOMAIN StringTypes \cup DOMAIN ListTypes

RECURSIVE EarlyConstraintsOf(_, _)
EarlyConstraintsOf(types, t) ==
  LET steps == SelectSeq(StepsOf(types, t), LAMBDA s : ~IsBuiltin(s.name))
      end   == Last(steps)
      white == NearestOf(steps, "whiteSpace")
      late  == ConstraintsOf(types, t)
      Nested(ref, known) == IF ref.to = "builtin" THEN known ELSE EarlyConstraintsOf(types, TypeOf(types, ref))
  IN  [late EXCEPT
         !.white   = IF white # Absent THEN white
                     ELSE IF late.kind # Absent \/ end.item # Absent THEN "collapse" ELSE "preserve",
         !.item    = IF end.item = Absent THEN Absent ELSE Nested(end.item, late.item),
         !.members = IF \E k \in DOMAIN end.members : end.members[k].to = "builtin" /\ KindNamed(end.members[k].name) = Absent
                     THEN <<>> ELSE [k \in DOMAIN end.members |-> Nested(end.members[k], late.members[k])]]

-------------------------------------------------------------------------------
(* A text against it: FacetValidator::validate.                            *)

(* apply_whitespace                                                        *)
Whitened(white, text) ==
  CASE white = "preserve" -> text
    [] white = "replace"  -> IF text.white = "tabs" THEN [text EXCEPT !.white = "spaces"] ELSE text
    [] white = "collapse" -> Collapsed(text)

CharacterCount(text) ==
  Len(AllChars(text)) + (IF text.words = <<>> THEN 0 ELSE Len(text.words) - 1) + (IF text.white = "clean" THEN 0 ELSE 1)

(* facet_length                                                            *)
FacetLength(kind, isList, text) ==
  CASE isList                               -> Len(text.words)
    [] ~isList /\ kind = "QName"            -> Absent
    [] ~isList /\ kind = "hexBinary"        -> (CharacterCount(text) + 1) \div 2
    [] ~isList /\ kind = "base64Binary"     -> DecodedLength(AllChars(text))
    [] OTHER                                -> CharacterCount(text)

(* count_significant_digits, count_fraction_digits; digits only occur in   *)
(* numbers                                                                 *)
SignificantDigits(text) ==
  IF Len(text.words) # 1 \/ text.words[1].form # "number" THEN 1
  ELSE Max({1, Len(WithoutLeadingZeros(text.words[1].int)) + Len(WithoutTrailingZeros(text.words[1].frac))})

FractionDigits(text) ==
  IF Len(text.words) # 1 \/ text.words[1].form # "number" THEN 0 ELSE Len(text.words[1].frac)

(* has_timezone                                                            *)
HasTimezone(text) ==
  /\ Len(text.words) = 1 /\ text.words[1].form = "temporal"
  /\ text.words[1].zone # Absent

(* Where there is no order, every inclusive bound holds, and every other.  *)
WithinBound(f, order) ==
  CASE f = "minInclusive" -> order # "<" [] f = "minExclusive" -> order \notin {"<", "="}
    [] f = "maxInclusive" -> order # ">" [] f = "maxExclusive" -> order \notin {">", "="}

(* validate_length, validate_numeric_constraints,                          *)
(* validate_explicit_timezone                                              *)
Satisfies(kind, isList, f, value, text) ==
  LET length == FacetLength(kind, isList, text)
  IN  CASE f \in LengthFacets     -> length # Absent => (CASE f = "length" -> length = value
                                                           [] f = "minLength" -> length >= value
                                                           [] OTHER -> length <= value)
        [] f \in RangeFacets      -> WithinBound(f, CompareTexts(kind, text, value))
        [] f = "totalDigits"      -> SignificantDigits(text) <= value
        [] f = "fractionDigits"   -> FractionDigits(text) <= value
        [] f = "explicitTimezone" -> (CASE value = "required" -> HasTimezone(text)
                                        [] value = "prohibited" -> ~HasTimezone(text) [] OTHER -> TRUE)
        [] OTHER                  -> TRUE

(* validate, accepts: the items of a list and the members of a union have  *)
(* their own kind, members normalize the text themselves                   *)
RECURSIVE FacetsHold(_, _)

Accepts(c, text) == FacetsHold(c, text) /\ (c.kind # Absent => Valid(c.kind, text))

FacetsHold(c, text) ==
  LET value == Whitened(c.white, text)
  IN  /\ \A f \in FacetNames : c.facets[f] # Absent => Satisfies(c.kind, c.item # Absent, f, c.facets[f], value)
      /\ \A k \in DOMAIN c.matching : c.matching[k] # Absent => value \in c.matching[k]
      /\ c.enumeration # {} => value \in c.enumeration
      /\ c.item # Absent => \A k \in DOMAIN value.words : Accepts(c.item, Clean(<<value.words[k]>>))
      /\ c.members # <<>> => \E k \in DOMAIN c.members : Accepts(c.members[k], text)

-------------------------------------------------------------------------------
(* numeric.rs: numbers without facets are scanned, one or a list.          *)

ScannedKinds == FloatKinds \cup {"decimal", "integer"}

Unconstrained(c) ==
  /\ \A f \in FacetNames \ {"whiteSpace"} : c.facets[f] = Absent
  /\ \A k \in DOMAIN c.matching : c.matching[k] = Absent
  /\ c.enumeration = {} /\ c.white = "collapse" /\ c.members = <<>>

(* classify, scan_scalar, scan_list                                        *)
ScansAsNumbers(c, text) ==
  /\ Unconstrained(c)
  /\ c.item = Absent => /\ c.kind \in ScannedKinds /\ Len(text.words) = 1
                        /\ ValidWord(c.kind, text.words[1])
  /\ c.item # Absent => /\ c.kind = Absent
                        /\ Unconstrained(c.item) /\ c.item.item = Absent /\ c.item.kind \in ScannedKinds
                        /\ \A k \in DOMAIN text.words : ValidWord(c.item.kind, text.words[k])

(* validate_text_against_facets and TextOp of the streaming validator,     *)
(* validate_simple_type_facets of the other                                *)
ElementAccepts(c, text) == ScansAsNumbers(c, text) \/ Accepts(c, text)

(* validate_attribute_value                                                *)
AttributeAccepts(c, kind, text) == FacetsHold(c, text) /\ (kind # Absent => Valid(kind, text))

-------------------------------------------------------------------------------
(* validity.rs: check_simple_type, of a compiled type, its base wherever   *)
(* it is.                                                                  *)
IsValidType(types, t) ==
  LET kind   == KindOf(types, t)
      Has(F) == \E f \in F : t.facets[f] # Absent
  IN  /\ kind # Absent /\ t.item = Absent =>
           /\ Has(LengthFacets) => kind \in TextKinds
           /\ Has(RangeFacets) => kind \in OrderedKinds
           /\ Has(DigitFacets) => kind \in DecimalKinds
           /\ \A v \in t.enumeration : Valid(kind, v)
           /\ \A f \in RangeFacets : t.facets[f] # Absent => Valid(kind, t.facets[f])
      /\ \A E \in {LowFacets, HighFacets} : \E f \in E : t.facets[f] = Absent
      /\ \A E \in {{"minInclusive", "maxInclusive"}, {"minExclusive", "maxExclusive"}} :
           (\A f \in E : t.facets[f] # Absent) =>
             \A lo \in E \cap LowFacets, hi \in E \cap HighFacets : CompareTexts(kind, t.facets[lo], t.facets[hi]) # ">"

-------------------------------------------------------------------------------
(* Values that declarations give, [type, default, fixed].                  *)

GivenValue(decl) == IF decl.default # Absent THEN decl.default ELSE decl.fixed

(* The kind of a type, as far as document i tells; Absent for none.        *)
KindInDocument(types, i, ref) ==
  LET facets == FacetsOf(types, i, ref) IN IF ref = Absent THEN Absent ELSE IF facets = Absent THEN Absent ELSE facets.kind

(* check_attribute_value, check_value_constraint                           *)
IsOfKind(types, i, decl) ==
  LET kind == KindInDocument(types, i, decl.type) IN kind # Absent => Valid(kind, GivenValue(decl))

(* fails: neither as it is written nor collapsed, which a whiteSpace that  *)
(* is not known yet may do                                                 *)
Fails(types, ref, text) ==
  LET c == EarlyConstraintsOf(types, TypeOf(types, ref)) IN \A written \in {text, Collapsed(text)} : ~FacetsHold(c, written)

(* value_constraints.rs: check; built-in types are passed over             *)
ValueFits(types, decl) ==
  decl.type # Absent => (decl.type.to # "builtin" => ~Fails(types, decl.type, GivenValue(decl)))

-------------------------------------------------------------------------------
(* What a simple type means, by its definition alone: a text has the white *)
(* space that the type normalizes, belongs to the type that it is made of, *)
(* and satisfies every facet of every step.                                *)

RECURSIVE WhiteSpaceOf(_, _), RootOf(_, _), IsListType(_, _), IsIn(_, _, _)

WhiteSpaceOf(types, ref) ==
  IF ref.to = "builtin" THEN (IF ref.name \in DOMAIN StringTypes THEN StringTypes[ref.name] ELSE "collapse")
  ELSE LET d == DefinitionOf(types, ref)
       IN  CASE Uses(d.facets, {"whiteSpace"}) -> Declared(d.facets, "whiteSpace")
             [] d.variety = "list"             -> "collapse"
             [] d.variety = "union"            -> "preserve"
             [] OTHER                          -> WhiteSpaceOf(types, d.of[1])

(* The built-in type that a type restricts; Absent of a list or a union.   *)
RootOf(types, ref) ==
  IF ref.to = "builtin" THEN (IF ref.name \in DOMAIN ListTypes THEN Absent ELSE ref.name)
  ELSE LET d == DefinitionOf(types, ref) IN IF d.variety = "restriction" THEN RootOf(types, d.of[1]) ELSE Absent

IsListType(types, ref) ==
  IF ref.to = "builtin" THEN ref.name \in DOMAIN ListTypes
  ELSE LET d == DefinitionOf(types, ref)
       IN  d.variety = "list" \/ (d.variety = "restriction" /\ IsListType(types, d.of[1]))

(* Numbers, their digits aligned.                                          *)
OrderOfNumbers(v, w) ==
  LET Zeros(n)   == [k \in 1 .. n |-> 0]
      Unit(u)    == (IF u.exp = Absent THEN 0 ELSE u.exp) - Len(u.frac)
      least      == Min({Unit(v), Unit(w)})
      Digits(u)  == u.int \o u.frac \o Zeros(Unit(u) - least)
      longest    == Max({Len(Digits(v)), Len(Digits(w))})
      Aligned(u) == Zeros(longest - Len(Digits(u))) \o Digits(u)
      IsMinus(u) == u.sign = "-" /\ Range(Digits(u)) \notin {{}, {0}}
      size       == CompareDigits(Aligned(v), Aligned(w))
  IN  IF IsMinus(v) # IsMinus(w) THEN (IF IsMinus(v) THEN "<" ELSE ">")
      ELSE IF IsMinus(v) THEN Flipped(size) ELSE size

(* Dates and times, carried over to UTC.                                   *)
NextDay(y, m, d) ==
  CASE d < DaysIn(y, m) -> <<y, m, d + 1>> [] d = DaysIn(y, m) /\ m < 12 -> <<y, m + 1, 1>> [] OTHER -> <<y + 1, 1, 1>>

PreviousDay(y, m, d) ==
  CASE d > 1 -> <<y, m, d - 1>> [] d = 1 /\ m > 1 -> <<y, m - 1, DaysIn(y, m - 1)>> [] OTHER -> <<y - 1, 12, 31>>

InUtc(w) ==
  LET minute == w.hour * 60 + w.minute - Offset(w.zone) + Tenths(w) \div 600
      day    == CASE minute < 0 -> PreviousDay(w.year, w.month, w.day)
                  [] minute >= 1440 -> NextDay(w.year, w.month, w.day) [] OTHER -> <<w.year, w.month, w.day>>
  IN  day \o <<minute % 1440, Tenths(w) % 600>>

(* Of two texts of a type with this root; of floats, with the infinities.  *)
OrderOf(root, s, t) ==
  LET v == s.words[1]
      w == t.words[1]
      Rank(u) == IF u.form # "literal" THEN 0 ELSE IF u.is = "-INF" THEN -1 ELSE 1
  IN  CASE root \in DecimalKinds  -> OrderOfNumbers(v, w)
        [] root \in FloatKinds    ->
             IF "literal" \notin {v.form, w.form} THEN OrderOfNumbers(v, w)
             ELSE IF \E u \in {v, w} : u.form = "literal" /\ u.is = "NaN" THEN Absent
             ELSE CompareInts(Rank(v), Rank(w))
        [] root \in DurationKinds -> CompareDurations(v, w)
        [] OTHER                  -> CompareDigits(InUtc(v), InUtc(w))

IsIn(types, ref, text) ==
  IF ref.to = "builtin" THEN
    IF ref.name \in DOMAIN ListTypes
    THEN \A k \in DOMAIN text.words : Valid(ListTypes[ref.name], Clean(<<text.words[k]>>))
    ELSE KindNamed(ref.name) # Absent => Valid(KindNamed(ref.name), text)
  ELSE LET d == DefinitionOf(types, ref)
           root == RootOf(types, ref)
           In(part, t) == IsIn(types, part, Whitened(WhiteSpaceOf(types, part), t))
       IN  CASE d.variety = "list"  -> \A k \in DOMAIN text.words : In(d.of[1], Clean(<<text.words[k]>>))
             [] d.variety = "union" -> \E k \in DOMAIN d.of : In(d.of[k], text)
             [] OTHER ->
                  /\ IsIn(types, d.of[1], text)
                  /\ \A k \in DOMAIN d.facets :
                       LET f == d.facets[k].facet
                           v == d.facets[k].value
                       IN  CASE f \in RangeFacets    -> WithinBound(f, OrderOf(root, text, v))
                             [] f = "pattern"        -> \E p \in ValuesOf(d.facets, f) : text \in p
                             [] f = "enumeration"    -> text \in ValuesOf(d.facets, f)
                             [] OTHER -> Satisfies(IF root = Absent THEN Absent ELSE KindNamed(root),
                                                   IsListType(types, ref), f, v, text)

Belongs(types, ref, text) == IsIn(types, ref, Whitened(WhiteSpaceOf(types, ref), text))

(* The primitive type that a built-in type is derived from.                *)
RECURSIVE Primitive(_)
Primitive(name) == IF name \in DOMAIN BuiltinBases THEN Primitive(BuiltinBases[name]) ELSE name

(* One value, of types with these roots.                                   *)
SameValue(root1, s, root2, t) ==
  /\ Primitive(root1) = Primitive(root2)
  /\ CASE root1 \in DecimalKinds \cup TemporalKinds -> OrderOf(root1, s, t) = "="
       [] root1 \in FloatKinds  -> s.words = t.words \/ OrderOf(root1, s, t) = "="
       [] root1 = "boolean"     -> s.words = t.words \/ \E B \in {{"true", "1"}, {"false", "0"}} :
                                     {AllChars(s), AllChars(t)} = {IF b \in {"1", "0"} THEN <<b>> ELSE Spelled(b) : b \in B}
       [] OTHER                 -> s.words = t.words

===============================================================================
