---------------------------- MODULE SchemaCompiler ----------------------------
(***************************************************************************)
(* Compiling a set of schema documents (src/schema/xsd/compiler:           *)
(* XsdCompiler::compile, redefine, cycles, references, resolve_qname,      *)
(* group_ref_key, particles.rs, cache.rs; src/schema/types.rs: get_type,   *)
(* type_by_ref): redefinitions are applied, cycles and references checked, *)
(* types compiled, and restrictions checked.                               *)
(*                                                                         *)
(* A document is a record                                                  *)
(*   [tns, bind, imports, includes, defs, redefines]                       *)
(* with its target namespace ("" for none), what its prefixes are bound to *)
(* (the prefix "" is the default namespace), the namespaces it imports,    *)
(* whether it includes or redefines other documents, and its global        *)
(* definitions in their order.  Definitions are of one class, "type",      *)
(* "group" or "attributeGroup":                                            *)
(*   [name, refs]                                                          *)
(* refs are the QNames [prefix, local] of a type's base or a group's       *)
(* groups.  A place <<i, k>> is definition k of document i.                *)
(*                                                                         *)
(* Content models are compiled twice: to the tree that the automaton and   *)
(* the restriction checks are made from, and flattened to the bounds of    *)
(* each child, which validation goes by where there is no automaton.  In a *)
(* document a particle may also refer to a named group,                    *)
(*   [kind |-> "group", ref, min, max],                                    *)
(* and the definitions of groups have their particle.                      *)
(***************************************************************************)
EXTENDS Restriction

CONSTANTS
  Prefix,     \* the prefix beside the default one
  Unbound,    \* what an undeclared prefix is bound to
  Nowhere,    \* the place of a definition that there is not
  OtherNs,    \* a namespace and
  OtherName,  \* a name that no schema mentions
  Inputs      \* the inputs, [class, docs, types, globals, groups, simple,
              \* texts]: documents with definitions of one class; a chain of
              \* complex types in document 1, each derived from the one
              \* before it, with their own parts, [derivation, particle,
              \* attrs, groups, any]; the global declarations and the
              \* attribute groups, [attrs, groups, any], of document 1; the
              \* simple types of the documents, and texts that are validated
              \* against them

-------------------------------------------------------------------------------
(* Redefinition.                                                           *)

(* synthetic_name                                                          *)
Redefined(name) == <<name, "redefined">>

Places(docs) == UNION {{<<i, k>> : k \in DOMAIN docs[i].defs} : i \in DOMAIN docs}

DefAt(docs, p) == docs[p[1]].defs[p[2]]

Before(p, q) == p[1] < q[1] \/ (p[1] = q[1] /\ p[2] < q[2])

First(P) == CHOOSE p \in P : \A q \in P \ {p} : Before(p, q)

LastIn(P) == CHOOSE p \in P : \A q \in P \ {p} : Before(q, p)

(* apply_redefines, one redefinition of document i: the first definition   *)
(* of that name anywhere gives its name up, and references of the          *)
(* redefinition to its own name follow it.                                 *)
RedefineKeepingSelf(docs, i, r) ==
  LET named == {p \in Places(docs) : DefAt(docs, p).name = r.name}
      moved == IF named = {} THEN docs
               ELSE LET p == First(named)
                    IN  [docs EXCEPT ![p[1]].defs[p[2]].name = Redefined(r.name)]
  IN  [moved EXCEPT ![i].defs = Append(@, r)]

Redefine(docs, i, r) ==
  LET named == {p \in Places(docs) : DefAt(docs, p).name = r.name}
      moved == IF named = {} THEN docs
               ELSE LET p == First(named)
                    IN  [docs EXCEPT ![p[1]].defs[p[2]].name = Redefined(r.name)]
      self(q) == IF q.local = r.name THEN [q EXCEPT !.local = Redefined(r.name)] ELSE q
      new     == [r EXCEPT !.refs = [k \in DOMAIN r.refs |-> self(r.refs[k])]]
  IN  [moved EXCEPT ![i].defs = Append(@, new)]

-------------------------------------------------------------------------------
(* Which namespaces are strict: references into them must resolve.         *)

Defined(docs) == {docs[i].tns : i \in DOMAIN docs}

(* Strictness::compute                                                     *)
Poisoned(docs) ==
  LET chameleon == Len(docs) > 1 /\ "" \in Defined(docs)
      Satisfied(i) == \E j \in DOMAIN docs \ {i} : docs[j].tns = docs[i].tns
      partial == {i \in DOMAIN docs :
                    docs[i].includes /\ (~Satisfied(i) \/ (chameleon /\ docs[i].tns # ""))}
  IN  (UNION {docs[i].imports : i \in DOMAIN docs} \ Defined(docs))
        \cup {docs[i].tns : i \in partial}

StrictNamespaces(docs) == Defined(docs) \ Poisoned(docs)

-------------------------------------------------------------------------------
(* The tables: of definitions with one name, the last in the last document *)
(* is kept.                                                                *)

Lookup(docs, ns, local) ==
  LET P == {p \in Places(docs) : docs[p[1]].tns = ns /\ DefAt(docs, p).name = local}
  IN  IF P = {} THEN Nowhere ELSE LastIn(P)

(* In ns, or else in no namespace (a document without a target namespace   *)
(* that others include): SymbolTables::contains, CompiledSchema::type_ns.  *)
LookupOrNoNs(docs, ns, local) ==
  LET p == Lookup(docs, ns, local)
  IN  IF p # Nowhere THEN p ELSE Lookup(docs, "", local)

-------------------------------------------------------------------------------
(* The reference checker: Checker::check_ref_inner, resolve_type_info.     *)

Bound(doc, q) == doc.bind[q.prefix]

(* An unprefixed name that the default namespace lacks may be in the       *)
(* target namespace.                                                       *)
CheckedRef(docs, i, q) ==
  LET p == LookupOrNoNs(docs, Bound(docs[i], q), q.local)
  IN  IF Bound(docs[i], q) = Unbound THEN Nowhere
      ELSE IF p = Nowhere /\ q.prefix = "" THEN LookupOrNoNs(docs, docs[i].tns, q.local)
      ELSE p

(* check_ref: what is refused, the namespaces in `strict` being complete.  *)
Dangling(docs, strict, i, q) ==
  \/ Bound(docs[i], q) = Unbound
  \/ CheckedRef(docs, i, q) = Nowhere /\ Bound(docs[i], q) \in strict

Refs(docs, p) == Range(DefAt(docs, p).refs)

(* detect_cycles: a depth-first search of the definitions from each in     *)
(* turn.  In `s`, the ones being visited and the ones done; met is set     *)
(* when one being visited is met again.                                    *)
RECURSIVE Visit(_, _, _)

VisitRef(docs, i, s, q) ==
  LET target == CheckedRef(docs, i, q)
  IN  IF target = Nowhere THEN s ELSE Visit(docs, s, target)

(* Being visited is never left: what is reached twice is taken for a cycle. *)
VisitOnce(docs, s, p) ==
  IF s.met THEN s
  ELSE IF p \in s.visiting THEN [s EXCEPT !.met = TRUE]
  ELSE FoldLeft(LAMBDA t, q : VisitRef(docs, p[1], t, q),
                [s EXCEPT !.visiting = @ \cup {p}], DefAt(docs, p).refs)

Visit(docs, s, p) ==
  IF s.met \/ p \in s.done THEN s
  ELSE IF p \in s.visiting THEN [s EXCEPT !.met = TRUE]
  ELSE LET after == FoldLeft(LAMBDA t, q : VisitRef(docs, p[1], t, q),
                             [s EXCEPT !.visiting = @ \cup {p}], DefAt(docs, p).refs)
       IN  [after EXCEPT !.visiting = @ \ {p}, !.done = @ \cup {p}]

Circular(docs) ==
  LET known == {p \in Places(docs) : p = Lookup(docs, docs[p[1]].tns, DefAt(docs, p).name)}
      all   == FoldLeft(LAMBDA s, p : Visit(docs, s, p),
                        [visiting |-> {}, done |-> {}, met |-> FALSE], SetToSeq(known))
  IN  all.met

-------------------------------------------------------------------------------
(* The compiled schema.                                                    *)

(* What the prefix is bound to in the end: the last document's binding of  *)
(* it stays (namespace_bindings, prefix_namespaces).                       *)
LastBinding(docs) ==
  LET bound == {i \in DOMAIN docs : docs[i].bind[Prefix] # Unbound}
  IN  IF bound = {} THEN Unbound
      ELSE docs[CHOOSE i \in bound : \A j \in bound : j <= i].bind[Prefix]

(* Whether names of document i are written with the prefix:                *)
(* current_target_prefix.                                                  *)
HasPrefix(docs, i) == docs[i].tns # "" /\ docs[i].tns \in {docs[i].bind[Prefix], LastBinding(docs)}

Anywhere(docs, local) ==
  {Lookup(docs, ns, local) : ns \in Defined(docs)} \ {Nowhere}

OrElse(p, P) == IF p # Nowhere THEN {p} ELSE P

(* get_type: by the name as it is written, in the end in any namespace.    *)
ByString(docs, prefixed, local) ==
  LET tns == IF Defined(docs) \subseteq {""} THEN ""
             ELSE docs[CHOOSE i \in DOMAIN docs :
                         docs[i].tns # "" /\ \A j \in 1 .. i - 1 : docs[j].tns = ""].tns
      ns  == IF prefixed THEN LastBinding(docs) ELSE tns
  IN  OrElse(IF ns = Unbound THEN Nowhere ELSE LookupOrNoNs(docs, ns, local), Anywhere(docs, local))

(* resolve_qname: an unprefixed name is written with the prefix of the     *)
(* target namespace if some type is known under that.                      *)
WrittenWithPrefix(docs, i, q) ==
  \/ q.prefix = Prefix
  \/ /\ HasPrefix(docs, i)
     /\ \E p \in Places(docs) : HasPrefix(docs, p[1]) /\ DefAt(docs, p).name = q.local

(* resolve_qname_ns                                                        *)
RefNs(doc, q) == IF q.prefix = "" /\ Bound(doc, q) = "" THEN doc.tns ELSE Bound(doc, q)

(* Without the resolved name: by the name as written.                      *)
TypeByString(docs, i, q) == ByString(docs, WrittenWithPrefix(docs, i, q), q.local)

(* type_by_ref, complex_base_def, simple_base_def                          *)
TypeByRef(docs, i, q) ==
  OrElse(LookupOrNoNs(docs, RefNs(docs[i], q), q.local),
         ByString(docs, WrittenWithPrefix(docs, i, q), q.local))

(* group_ref_key                                                           *)
GroupByRef(docs, i, q) ==
  LET ns  == Bound(docs[i], q)
      key == IF q.prefix # "" THEN ns
             ELSE IF ns # "" /\ Lookup(docs, ns, q.local) # Nowhere THEN ns ELSE docs[i].tns
  IN  {Lookup(docs, key, q.local)} \ {Nowhere}

(* resolve_attribute_group: in the end in any namespace.                   *)
AttributeGroupByRef(docs, i, q) ==
  LET p == GroupByRef(docs, i, q)
  IN  IF p # {} THEN p ELSE Anywhere(docs, q.local)

CompiledRef(docs, class, i, q) ==
  CASE class = "type"           -> TypeByRef(docs, i, q)
    [] class = "group"          -> GroupByRef(docs, i, q)
    [] class = "attributeGroup" -> AttributeGroupByRef(docs, i, q)

-------------------------------------------------------------------------------
(* Particles and types.                                                    *)

IsChoiceOrSequence(p) == p.kind \in {"sequence", "choice"}

GroupAt(docs, i, p) == GroupByRef(docs, i, p.ref)

-------------------------------------------------------------------------------
(* compile_particle_tree, compile_group_ref_tree.  A reference that does   *)
(* not resolve, or leads back into a group being expanded, leaves no tree. *)
RECURSIVE Tree(_, _, _, _)

GroupTree(docs, i, p, open) ==
  LET g     == CHOOSE g \in GroupAt(docs, i, p) : TRUE
      inner == Tree(docs, g[1], DefAt(docs, g).particle, open \cup {g})
  IN  IF GroupAt(docs, i, p) \subseteq open \/ inner = Nothing THEN Nothing
      ELSE IF Once(p) THEN inner
      ELSE [kind |-> "sequence", items |-> <<inner>>, min |-> p.min, max |-> p.max]

Tree(docs, i, p, open) ==
  LET items == [k \in DOMAIN p.items |-> Tree(docs, i, p.items[k], open)]
  IN  CASE p.kind = "group"        -> GroupTree(docs, i, p, open)
        [] IsChoiceOrSequence(p)   -> IF Nothing \in Range(items) THEN Nothing ELSE [p EXCEPT !.items = items]
        [] OTHER                   -> p

-------------------------------------------------------------------------------
(* Flattened: [name, type, members, min, max] of every element, in order.  *)
(* Its type is Absent where the declaration names none: a reference does   *)
(* not, nor does one with an anonymous type or with none.                  *)
TypeNamed(leaf) == IF leaf.anonymous \/ leaf.ns = Guessed \/ Head(leaf.supers) = "anyType" THEN Absent ELSE Head(leaf.supers)

(* multiply_occurs                                                         *)
TimesMax(m, n) == IF Unbounded \in {m, n} THEN Unbounded ELSE m * n

Repeated(es, min, max) ==
  [k \in DOMAIN es |-> [es[k] EXCEPT !.min = @ * min, !.max = TimesMax(@, max)]]

RECURSIVE Elements(_, _, _, _)

AllElements(docs, i, items, open) ==
  FlattenSeq([k \in DOMAIN items |-> Elements(docs, i, items[k], open)])

(* The alternatives keep their least number.                               *)
ChoiceElementsRequired(docs, i, p, open) == Repeated(AllElements(docs, i, p.items, open), p.min, p.max)

(* compile_choice: an alternative is optional.                             *)
ChoiceElements(docs, i, p, open) == Repeated(AllElements(docs, i, p.items, open), 0, p.max)

(* The group's own bounds are those of one pass through it.                *)
GroupElementsOnce(docs, i, p, open) ==
  LET g == CHOOSE g \in GroupAt(docs, i, p) : TRUE
  IN  IF GroupAt(docs, i, p) \subseteq open THEN <<>>
      ELSE Elements(docs, g[1], DefAt(docs, g).particle, open \cup {g})

(* expand_group_ref_to_elements                                            *)
GroupElements(docs, i, p, open) ==
  LET g == CHOOSE g \in GroupAt(docs, i, p) : TRUE
  IN  IF GroupAt(docs, i, p) \subseteq open THEN <<>>
      ELSE Repeated(Elements(docs, g[1], DefAt(docs, g).particle, open \cup {g}), p.min, p.max)

(* compile_sequence, compile_choice, compile_all, compile_element          *)
Elements(docs, i, p, open) ==
  CASE p.kind = "element"  -> <<[name |-> p.name, type |-> TypeNamed(p), members |-> p.members, min |-> p.min, max |-> p.max]>>
    [] p.kind = "wildcard" -> <<>>
    [] p.kind = "sequence" -> Repeated(AllElements(docs, i, p.items, open), p.min, p.max)
    [] p.kind = "choice"   -> ChoiceElements(docs, i, p, open)
    [] p.kind = "all"      -> AllElements(docs, i, p.items, open)
    [] p.kind = "group"    -> GroupElements(docs, i, p, open)

-------------------------------------------------------------------------------
(* Along the base types of a type, the first of them underived.            *)

(* effective_particle: an extension appends its own.                       *)
Extended(base, own) ==
  IF base = Nothing THEN own
  ELSE IF own = Nothing THEN base
  ELSE [kind |-> "sequence", items |-> <<base, own>>, min |-> 1, max |-> 1]

(* The tree of the last of a chain of types.                               *)
EffectiveTree(docs, types) ==
  LET Own(t) == IF t.particle = Nothing THEN Nothing ELSE Tree(docs, 1, t.particle, {})
      Add(tree, t) == IF t.derivation = "extension" THEN Extended(tree, Own(t)) ELSE Own(t)
  IN  FoldLeft(Add, Nothing, types)

(* collect_elements_with_inheritance                                       *)
EffectiveElements(docs, types) ==
  LET Own(t) == IF t.particle = Nothing THEN <<>> ELSE Elements(docs, 1, t.particle, {})
      Add(es, t) == IF t.derivation = "extension" THEN es \o Own(t) ELSE Own(t)
  IN  FoldLeft(Add, <<>>, types)

(* flatten_type_children: of an element declared twice, the last bounds.   *)
Bounds(es) ==
  [n \in {es[k].name : k \in DOMAIN es} |->
     LET last == es[CHOOSE k \in DOMAIN es : es[k].name = n /\ \A j \in k + 1 .. Len(es) : es[j].name # n]
     IN  <<last.min, last.max>>]

HasEmptyContent(t) == t.derivation # "extension" /\ t.particle = Nothing

OwnElements(docs, t) == IF t.particle = Nothing THEN <<>> ELSE Elements(docs, 1, t.particle, {})

(* check_element_consistency: elements of one name are of the first one's  *)
(* type.                                                                   *)
Consistent(es) ==
  \A k \in DOMAIN es :
    LET first == es[Min({j \in DOMAIN es : es[j].name = es[k].name})]
    IN  Absent \notin {first.type, es[k].type} => es[k].type = first.type

(* compile_complex_type: xs:all is not added to other content (of a type   *)
(* that is declared before).                                               *)
AddsAll(t, base) == t.derivation = "extension" /\ t.particle.kind = "all" /\ t.particle.items # <<>> /\ ~HasEmptyContent(base)

-------------------------------------------------------------------------------
(* Attribute uses.  In a document a use is [ref, ns, name, type, use,      *)
(* default, fixed]; a group that a type or a group refers to is known by   *)
(* its index, any other does not resolve.                                  *)

(* compile_attribute                                                       *)
CompiledUse(restricts, u) ==
  [ref |-> u.ref, ns |-> u.ns, name |-> u.name, type |-> u.type, default |-> u.default, fixed |-> u.fixed,
   required |-> u.use = "required", prohibited |-> u.use = "prohibited" /\ restricts]

AnyLax == [space |-> "any", uris |-> {}, strength |-> 1]

(* expand_attribute_group: a group counts once, prohibited uses do not; of *)
(* wildcards the first.                                                    *)
RECURSIVE Expand(_, _, _)
Expand(groups, found, g) ==
  LET nested == [uses |-> found.uses \o SelectSeq(groups[g].attrs, LAMBDA u : u.use # "prohibited"),
                 any  |-> IF found.any = Absent THEN groups[g].any ELSE found.any,
                 seen |-> found.seen \cup {g}]
  IN  CASE g \notin DOMAIN groups -> [found EXCEPT !.any = IF @ = Absent THEN AnyLax ELSE @]
        [] g \in found.seen       -> found
        [] OTHER -> FoldLeft(LAMBDA f, h : Expand(groups, f, h), nested, groups[g].groups)

(* compile_complex_type: its attributes                                    *)
CompiledAttributes(groups, t) ==
  LET of == FoldLeft(LAMBDA f, g : Expand(groups, f, g), [uses |-> <<>>, any |-> Absent, seen |-> {}], t.groups)
      restricts == t.derivation = "restriction"
      Compiled(us) == [k \in DOMAIN us |-> CompiledUse(restricts, us[k])]
  IN  [derivation |-> t.derivation, uses |-> Compiled(t.attrs \o of.uses), any |-> IF t.any = Absent THEN of.any ELSE t.any]

(* attributes.rs: resolve_ref, by its name alone if need be                *)
DeclarationOf(globals, u) ==
  LET Named(S) == {k \in DOMAIN globals : globals[k].what = "attribute" /\ globals[k].name = u.name /\ globals[k].ns \in S}
      is == IF Named({u.ns}) # {} THEN Named({u.ns}) ELSE Named({globals[k].ns : k \in DOMAIN globals})
  IN  IF u.ref /\ is # {} THEN globals[Min(is)] ELSE u

(* collect_attributes, collect_attr_wildcard: the nearest of each, and     *)
(* what is prohibited is gone.                                             *)
Collected(chain) ==
  LET Add(us, u) == IF \E k \in DOMAIN us : SameAttribute(u, us[k]) THEN us ELSE Append(us, u)
      nearest == FoldLeft(Add, <<>>, FoldRight(LAMBDA t, us : us \o t.uses, chain, <<>>))
      with    == {k \in DOMAIN chain : chain[k].any # Absent}
  IN  [uses |-> SelectSeq(nearest, LAMBDA u : ~u.prohibited), any |-> IF with = {} THEN Absent ELSE chain[Max(with)].any]

(* validate_attribute_value: what is fixed is compared as it is written    *)
AttributeValueAccepted(simple, globals, u, text) ==
  LET decl  == DeclarationOf(globals, u)
      fixed == IF u.fixed # Absent THEN u.fixed ELSE decl.fixed
      t     == TypeOf(simple, decl.type)
  IN  /\ fixed # Absent => text = fixed
      /\ decl.type # Absent => AttributeAccepts(ConstraintsOf(simple, t), KindOf(simple, t), text)

(* validate_element_attributes: of an element with these attributes, texts *)
(* by namespace and name                                                   *)
AttributesAccepted(simple, globals, of, attrs) ==
  LET UsesFor(a)    == {k \in DOMAIN of.uses : <<of.uses[k].ns, of.uses[k].name>> = a}
      GlobalsFor(a) == {k \in DOMAIN globals : globals[k].what = "attribute" /\ <<globals[k].ns, globals[k].name>> = a}
      Decl(a)       == IF UsesFor(a) # {} THEN of.uses[Min(UsesFor(a))] ELSE [ref |-> FALSE] @@ globals[Min(GlobalsFor(a))]
  IN  /\ \A a \in DOMAIN attrs :
           /\ UsesFor(a) = {} => of.any # Absent /\ Matches(of.any, a[1]) /\ (of.any.strength = 2 => GlobalsFor(a) # {})
           /\ UsesFor(a) # {} \/ (of.any.strength > 0 /\ GlobalsFor(a) # {}) => AttributeValueAccepted(simple, globals, Decl(a), attrs[a])
      /\ \A k \in DOMAIN of.uses : of.uses[k].required => <<of.uses[k].ns, of.uses[k].name>> \in DOMAIN attrs

-------------------------------------------------------------------------------
(* Values that declarations give.                                          *)

HasValue(decl) == GivenValue(decl) # Absent

(* references.rs: check_attribute_value, check_element_value.  An element  *)
(* of a complex type [to |-> "complex", text] has a value only where there *)
(* is text.                                                                *)
DeclarationFits(simple, decl) ==
  HasValue(decl) =>
    IF decl.what = "element" /\ decl.type # Absent /\ decl.type.to = "complex" THEN decl.type.text
    ELSE /\ decl.what = "element" => KindInDocument(simple, 1, decl.type) # "ID"
         /\ IsOfKind(simple, 1, decl)

(* differs: as texts, where the type says no more                          *)
DiffersFrom(simple, decl, v, w) ==
  LET type == decl.type
      t    == TypeOf(simple, type)
      made == t.item # Absent \/ t.members # <<>>
      kind == KindOf(simple, t)
      by   == IF type = Absent THEN "text"
              ELSE IF type.to = "builtin" THEN ComparedBy(simple, type)
              ELSE IF made THEN "unknown" ELSE IF kind = Absent THEN "text" ELSE kind
  IN  Collapsed(v) # Collapsed(w) /\ AreDifferent(by, v, w)

(* value_constraints.rs: check_attribute, but for the value alone; and uses *)
(* of one attribute twice                                                  *)
UsesFit(simple, globals, uses) ==
  \A k \in DOMAIN uses :
    LET u    == uses[k]
        is   == {j \in DOMAIN globals : globals[j].what = "attribute" /\ SameAttribute(globals[j], u)}
        decl == globals[Min(is)]
    IN  /\ u.fixed # Absent /\ u.ref /\ is # {} =>
             (decl.fixed # Absent => ~DiffersFrom(simple, decl, u.fixed, decl.fixed))
        /\ ~u.prohibited => \A j \in 1 .. k - 1 : ~uses[j].prohibited => ~SameAttribute(uses[j], u)

(* What is fixed is not looked at.                                         *)
DefaultFits(simple, decl) ==
  decl.default # Absent /\ (decl.type # Absent => decl.type.to # "complex") => ValueFits(simple, decl)

(* check_element, check_attribute: of an element of a complex type nothing *)
DeclaredValueFits(simple, decl) ==
  HasValue(decl) /\ (decl.type # Absent => decl.type.to # "complex") => ValueFits(simple, decl)

(* validity.rs: check_attr_id_value_constraint                             *)
AttributeIsValid(simple, decl) ==
  HasValue(decl) /\ decl.type # Absent => KindOf(simple, TypeOf(simple, decl.type)) # "ID"

(* check_value_constraints, of an element; built-in types are passed over  *)
ElementIsValid(simple, decl) ==
  HasValue(decl) /\ decl.type # Absent =>
    (decl.type.to = "type" => LET kind == KindOf(simple, TypeOf(simple, decl.type)) IN kind # Absent => Valid(kind, GivenValue(decl)))

-------------------------------------------------------------------------------
(* Restrictions, once more, by what is declared where (validity.rs).       *)

(* find_wildcard_in_content: the first                                     *)
RECURSIVE FirstWildcard(_)
FirstWildcard(p) ==
  CASE p.kind = "wildcard"    -> p
    [] IsChoiceOrSequence(p)  -> FoldLeft(LAMBDA w, q : IF w = Nothing THEN FirstWildcard(q) ELSE w, Nothing, p.items)
    [] OTHER                  -> Nothing

(* content_elements: of what is not derived by extension                   *)
ListsElements(t) == t.derivation # "extension" /\ t.particle.kind \in {"sequence", "choice", "all", "group"}

(* The kind of ContentModel that a particle is compiled to.                *)
RECURSIVE ContentKind(_, _, _)
ContentKind(docs, i, p) ==
  IF p.kind # "group" THEN p.kind
  ELSE LET g == CHOOSE g \in GroupAt(docs, i, p) : TRUE IN IF GroupAt(docs, i, p) = {} THEN "sequence" ELSE DefAt(docs, g).particle.kind

WildcardFits(t, base) ==
  LET d == FirstWildcard(t.particle)
      b == FirstWildcard(base.particle)
  IN  d # Nothing => IF b = Nothing THEN HasEmptyContent(base) ELSE d.strength >= b.strength /\ NamespacesWithin(d, b)

(* Whatever groups they are in.                                            *)
ElementsFitAnywhere(docs, globals, t, base) ==
  LET ds == Elements(docs, 1, t.particle, {})
      bs == Elements(docs, 1, base.particle, {})
      IsMember(n) == \E j \in DOMAIN bs : n \in bs[j].members
      IsGlobal(n) == \E k \in DOMAIN globals : globals[k].what = "element" /\ globals[k].name = n
  IN  \A k \in DOMAIN ds :
        LET is == {j \in DOMAIN bs : bs[j].name = ds[k].name}
            b  == bs[Min(is)]
        IN  FirstWildcard(base.particle) = Nothing =>
              IF is = {} THEN IsMember(ds[k].name) \/ ~IsGlobal(ds[k].name)
              ELSE ds[k].min >= b.min /\ Below(ds[k].max, b.max)

ElementsFit(docs, globals, t, base) ==
  LET ds == Elements(docs, 1, t.particle, {})
      bs == Elements(docs, 1, base.particle, {})
      sequences   == {ContentKind(docs, 1, t.particle), ContentKind(docs, 1, base.particle)} = {"sequence"}
      IsMember(n) == \E j \in DOMAIN bs : n \in bs[j].members
      IsGlobal(n) == \E k \in DOMAIN globals : globals[k].what = "element" /\ globals[k].name = n
  IN  \A k \in DOMAIN ds :
        LET is == {j \in DOMAIN bs : bs[j].name = ds[k].name}
            b  == bs[Min(is)]
        IN  FirstWildcard(base.particle) = Nothing =>
              IF is = {} THEN IsMember(ds[k].name) \/ ~IsGlobal(ds[k].name)
              ELSE (sequences => ds[k].min >= b.min) /\ Below(ds[k].max, b.max)

(* check_complex_restriction                                               *)
FlattenedFits(docs, globals, t, base) ==
  /\ WildcardFits(t, base)
  /\ ListsElements(t) /\ ListsElements(base) => ElementsFit(docs, globals, t, base)

-------------------------------------------------------------------------------
VARIABLES
  given,     \* the input
  docs,      \* the documents, with redefinitions applied so far
  phase,     \* the next step, or "accepted" or "refused"
  strict,    \* the namespaces in which references must resolve
  at,        \* the document whose references are checked next
  reason,    \* why the input is refused
  tree,      \* the effective particle of the last type
  elements,  \* its flattened elements
  verdict,   \* on the last type, if it restricts the one before it
  cache,     \* by name, the simple type whose constraints are kept (FacetCache)
  judged     \* [ref, element, attribute]: of a simple type, which texts are
             \* accepted in an element and in an attribute

judging == <<cache, judged>>

vars == <<given, docs, phase, strict, at, reason, tree, elements, verdict, judging>>

Init ==
  /\ given \in Inputs
  /\ docs = given.docs
  /\ phase = "strictness"
  /\ strict = {}
  /\ at = 1
  /\ reason = "none"
  /\ tree = Nothing
  /\ elements = <<>>
  /\ verdict = "none"
  /\ cache = << >>
  /\ judged = Nothing

Refuse(why) ==
  /\ phase' = "refused"
  /\ reason' = why

(* Strictness::compute, before the redefinitions are gone.                 *)
ComputeStrictness ==
  /\ phase = "strictness"
  /\ strict' = StrictNamespaces(docs)
  /\ phase' = "redefine"
  /\ UNCHANGED <<given, docs, at, reason, tree, elements, verdict, judging>>

(* apply_redefines: the next redefinition, in the order of the documents.  *)
ApplyRedefinition ==
  /\ phase = "redefine"
  /\ \E i \in DOMAIN docs :
       /\ docs[i].redefines # <<>>
       /\ \A j \in 1 .. i - 1 : docs[j].redefines = <<>>
       /\ docs' = [Redefine(docs, i, Head(docs[i].redefines)) EXCEPT ![i].redefines = Tail(@)]
  /\ UNCHANGED <<given, phase, strict, at, reason, tree, elements, verdict, judging>>

(* check_definition_cycles                                                 *)
CheckCycles ==
  /\ phase = "redefine"
  /\ \A i \in DOMAIN docs : docs[i].redefines = <<>>
  /\ IF Circular(docs) THEN Refuse("circular") ELSE phase' = "references" /\ UNCHANGED reason
  /\ UNCHANGED <<given, docs, strict, at, tree, elements, verdict, judging>>

(* check_schema, document by document: references, facets, and values that *)
(* declarations give.                                                      *)
RefersToNothing == \E k \in DOMAIN docs[at].defs : \E q \in Refs(docs, <<at, k>>) : Dangling(docs, strict, at, q)

HasUnsoundFacets == \E k \in DOMAIN given.simple : given.simple[k].doc = at /\ ~Sound(given.simple, given.simple[k])

HasUnfitValue ==
  /\ at = 1
  /\ \/ \E k \in DOMAIN given.globals : ~DeclarationFits(given.simple, given.globals[k])
     \/ \E part \in Range(given.types) \cup Range(given.groups) : \E u \in Range(part.attrs) :
          HasValue(u) /\ ~IsOfKind(given.simple, 1, u)

CheckReferences ==
  /\ phase = "references"
  /\ at \in DOMAIN docs
  /\ IF RefersToNothing THEN Refuse("dangling") /\ UNCHANGED at
     ELSE IF HasUnsoundFacets THEN Refuse("facets") /\ UNCHANGED at
     ELSE IF HasUnfitValue THEN Refuse("value") /\ UNCHANGED at
     ELSE at' = at + 1 /\ UNCHANGED <<phase, reason>>
  /\ UNCHANGED <<given, docs, strict, tree, elements, verdict, judging>>

(* compile_schema, build_type_children_cache: of types in document 1.      *)
CompileTypes ==
  /\ phase = "references"
  /\ at \notin DOMAIN docs
  /\ tree' = EffectiveTree(docs, given.types)
  /\ elements' = EffectiveElements(docs, given.types)
  /\ IF \E k \in DOMAIN given.types : ~Consistent(OwnElements(docs, given.types[k])) \/ (k > 1 /\ AddsAll(given.types[k], given.types[k - 1]))
     THEN Refuse("content")
     ELSE phase' = "restrictions" /\ UNCHANGED reason
  /\ UNCHANGED <<given, docs, strict, at, verdict, judging>>

Restricting == {k \in 2 .. Len(given.types) : given.types[k].derivation = "restriction"}

Restricts == Len(docs) = 1 /\ Len(given.types) \in Restricting

BaseTree == EffectiveTree(docs, Front(given.types))

CompiledChain == [k \in DOMAIN given.types |-> CompiledAttributes(given.groups, given.types[k])]

(* check_restriction                                                       *)
VerdictOn(k) ==
  CheckRestriction(EffectiveTree(docs, SubSeq(given.types, 1, k)), HasEmptyContent(given.types[k]),
                   EffectiveTree(docs, SubSeq(given.types, 1, k - 1)), HasEmptyContent(given.types[k - 1]))

AllAttributesFit ==
  LET chain == CompiledChain
  IN  \A k \in Restricting : AttributesFit(given.simple, given.globals, chain[k], Effective(SubSeq(chain, 1, k - 1)))

(* check_value_constraints                                                 *)
AllValuesFit ==
  LET uses == [k \in DOMAIN given.types |-> CompiledChain[k].uses]
  IN  /\ \A decl \in Range(given.globals) \cup UNION {Range(uses[k]) : k \in DOMAIN uses} : DeclaredValueFits(given.simple, decl)
      /\ \A k \in DOMAIN uses : UsesFit(given.simple, given.globals, uses[k])

(* check_schema_validity, but for restrictions; in whatever order          *)
AllIsValid ==
  /\ \A k \in DOMAIN given.simple : IsValidType(given.simple, CompiledType(given.simple[k]))
  /\ \A k \in DOMAIN given.globals :
       LET decl == given.globals[k]
       IN  IF decl.what = "attribute" THEN AttributeIsValid(given.simple, decl) ELSE ElementIsValid(given.simple, decl)
  /\ \A k \in DOMAIN given.types : \A u \in Range(CompiledChain[k].uses) : AttributeIsValid(given.simple, u)

(* XsdCompiler::compile, what comes after compiling: most of it only for a *)
(* single document.                                                        *)
CheckCompiled ==
  /\ phase = "restrictions"
  /\ LET verdicts == [k \in Restricting |-> VerdictOn(k)]
         single   == Len(docs) = 1
     IN  /\ verdict' = IF Restricts THEN verdicts[Len(given.types)] ELSE "none"
         /\ IF single /\ "violation" \in Range(verdicts) THEN Refuse("restriction")
            ELSE IF single /\ ~AllAttributesFit THEN Refuse("attributes")
            ELSE IF single /\ ~AllValuesFit THEN Refuse("value")
            ELSE IF ~AllIsValid THEN Refuse("validity")
            ELSE IF \E k \in Restricting : ~FlattenedFits(docs, given.globals, given.types[k], given.types[k - 1])
            THEN Refuse("flattened")
            ELSE phase' = "accepted" /\ UNCHANGED reason
  /\ UNCHANGED <<given, docs, strict, at, tree, elements, judging>>

Validated == {[to |-> "type", type |-> k] : k \in DOMAIN given.simple}

(* FacetCache::get: by the name without its namespace; an anonymous type   *)
(* is not kept.                                                            *)
Cached(ref) ==
  LET name == TypeOf(given.simple, ref).name IN IF name \in DOMAIN cache THEN cache[name] ELSE ref

(* Documents are validated in which elements and attributes of a type have *)
(* the texts.                                                              *)
ValidateTexts ==
  /\ phase = "accepted"
  /\ \E ref \in Validated :
       LET t    == TypeOf(given.simple, ref)
           kind == KindOf(given.simple, t)
           c    == ConstraintsOf(given.simple, TypeOf(given.simple, Cached(ref)))
       IN  /\ cache' = cache @@ (t.name :> ref)
           /\ judged' = [ref |-> ref,
                         element   |-> [k \in DOMAIN given.texts |-> ElementAccepts(c, given.texts[k])],
                         attribute |-> [k \in DOMAIN given.texts |-> AttributeAccepts(c, kind, given.texts[k])]]
  /\ UNCHANGED <<given, docs, phase, strict, at, reason, tree, elements, verdict>>

Next ==
  \/ ComputeStrictness \/ ApplyRedefinition \/ CheckCycles
  \/ CheckReferences \/ CompileTypes \/ CheckCompiled \/ ValidateTexts

Spec == Init /\ [][Next]_vars

-------------------------------------------------------------------------------
(* Properties: references.                                                 *)

Checked(p, q) == CheckedRef(docs, p[1], q)

Compiled(p, q) == CompiledRef(docs, given.class, p[1], q)

(* In the target namespace and in none there is a definition of that name, *)
(* and it is written without a prefix where there is no default namespace: *)
(* the checker takes the one in no namespace, the compiler the other.      *)
AmbiguousWithoutPrefix(p, q) ==
  /\ q.prefix = "" /\ Bound(docs[p[1]], q) = ""
  /\ docs[p[1]].tns # ""
  /\ Lookup(docs, "", q.local) # Nowhere
  /\ Lookup(docs, docs[p[1]].tns, q.local) # Nowhere

(* A group that a document without a target namespace defines for others:  *)
(* the compiler does not look for it there, and takes an attribute group   *)
(* of that name from any namespace.                                        *)
GroupOfNoNamespace(p, q) ==
  /\ given.class \in {"group", "attributeGroup"}
  /\ docs[Checked(p, q)[1]].tns = ""
  /\ {docs[p[1]].tns, Bound(docs[p[1]], q)} # {""}

(* The reference checker and the compiler resolve references each in their *)
(* own way (references.rs check_ref_inner and cycles.rs resolve_def_key;   *)
(* resolve_qname, resolve_qname_ns, group_ref_key and the lookups of       *)
(* types.rs).  What is compiled is what was checked: a reference that      *)
(* the checker resolved leads to that definition, and to no other.  The    *)
(* two cases above, where it is not so, are left out.                      *)
CompilesWhatWasChecked ==
  phase \in {"restrictions", "accepted"} =>
    \A p \in Places(docs) : \A q \in Refs(docs, p) :
      \/ Checked(p, q) = Nowhere
      \/ AmbiguousWithoutPrefix(p, q) \/ GroupOfNoNamespace(p, q)
      \/ Compiled(p, q) = {Checked(p, q)}

Targets(p) == {Checked(p, q) : q \in Refs(docs, p)} \ {Nowhere}

(* What references lead to from the definitions P.                         *)
Reach(P) ==
  LET grow[n \in 0 .. Cardinality(Places(docs))] ==
        IF n = 0 THEN P ELSE grow[n - 1] \cup UNION {Targets(p) : p \in grow[n - 1]}
  IN  grow[Cardinality(Places(docs))]

(* Validation and compilation follow base types and groups, and would do   *)
(* so without end.  The depth-first search of detect_cycles, which shares  *)
(* its marks between starting points, refuses a set of documents exactly   *)
(* when some definition, the last of its name, leads back to itself.       *)
RefusedIffCircular ==
  LET known    == {p \in Places(docs) : p = Lookup(docs, docs[p[1]].tns, DefAt(docs, p).name)}
      circular == \E p \in known : p \in Reach(Targets(p))
  IN  /\ reason = "circular" => circular
      /\ phase \in {"references", "restrictions", "accepted"} => ~circular

(* The one redefinition there is, of the one definition of its name.       *)
Redefining(i, r, old) ==
  /\ given.docs[i].redefines = <<r>>
  /\ \A j \in DOMAIN given.docs \ {i} : given.docs[j].redefines = <<>>
  /\ {p \in Places(given.docs) : DefAt(given.docs, p).name = r.name} = {old}
  /\ given.docs[old[1]].tns = given.docs[i].tns

(* "Within the redefinition, a reference to the component's own name means *)
(* the original definition; everywhere else it means the redefinition"     *)
(* (redefine.rs), whatever document it is in, however it is written and in *)
(* whichever order the documents come.  Nothing else changes its meaning.  *)
RedefinitionTakesEffect ==
  phase \in {"references", "refused", "restrictions", "accepted"} =>
    \A i \in DOMAIN docs : \A r \in Range(given.docs[i].redefines) : \A old \in Places(given.docs) :
      Redefining(i, r, old) =>
        LET new       == <<i, Len(given.docs[i].defs) + 1>>
            Was(p, q) == CheckedRef(given.docs, p[1], q)
        IN  /\ Lookup(docs, docs[i].tns, r.name) = new
            /\ \A p \in Places(given.docs) : \A q \in Refs(given.docs, p) :
                 Checked(p, q) = IF Was(p, q) = old THEN new ELSE Was(p, q)
            /\ \A k \in DOMAIN r.refs : Checked(new, DefAt(docs, new).refs[k]) = Was(new, r.refs[k])

-------------------------------------------------------------------------------
(* Properties: content models.                                             *)

(* A particle, its leaves with the children they stand for.                *)
RECURSIVE Over(_, _)
Over(p, stands) ==
  IF IsLeaf(p) THEN [kind |-> p.kind, admits |-> stands[p], min |-> p.min, max |-> p.max]
  ELSE [p EXCEPT !.items = [k \in DOMAIN p.items |-> Over(p.items[k], stands)]]

(* Children, [name, ns, supers, nil], with their type and its base types.  *)
(* Of those a leaf stands for, the ones a base is most likely to refuse:   *)
(* nil where they may be, and of no type derived from the declared one.    *)
LettersOf(leaf) ==
  IF leaf.kind = "element"
  THEN {[name |-> leaf.name, ns |-> ns, supers |-> leaf.supers, nil |-> leaf.nillable] :
          ns \in IF leaf.ns = Guessed THEN {TargetNs, OtherNs} ELSE {leaf.ns}}
  ELSE {[name |-> OtherName, ns |-> ns, supers |-> <<"anyType">>, nil |-> FALSE] :
          ns \in {u \in {"", TargetNs, OtherNs} : Matches(leaf, u)}}

IsLetterOf(leaf, l) ==
  IF leaf.kind = "wildcard" THEN Matches(leaf, l.ns)
  ELSE /\ leaf.name = l.name /\ leaf.ns = l.ns
       /\ Head(leaf.supers) \in Range(l.supers) \cup {"anyType"}
       /\ l.nil => leaf.nillable

ElementLeaves(p) == {leaf \in Leaves(p) : leaf.kind = "element"}

(* A reference to a declaration that is missing meets a declaration of its *)
(* name: the code takes the namespace for the same.                        *)
GuessesNames(derived, base) ==
  \E d \in ElementLeaves(derived), b \in ElementLeaves(base) : Guessed \in {d.ns, b.ns} /\ b.name = d.name

(* Attribute uses by their definition: the nearest use of an attribute     *)
(* counts, and the wildcard of a restriction replaces its base's.          *)
NameOf(u) == <<u.ns, u.name>>

UseIn(chain, a) ==
  LET mentions == {k \in DOMAIN chain : \E u \in Range(chain[k].uses) : NameOf(u) = a}
      nearest  == {u \in Range(chain[Max(mentions)].uses) : NameOf(u) = a /\ ~u.prohibited}
  IN  IF mentions = {} THEN Absent ELSE IF nearest = {} THEN Absent ELSE CHOOSE u \in nearest : TRUE

WildcardSteps(chain) ==
  LET last == Max({1} \cup {k \in DOMAIN chain : chain[k].derivation = "restriction"})
  IN  {k \in last .. Len(chain) : chain[k].any # Absent}

(* The text, of the same type, is what is fixed; of durations there may be *)
(* no telling.                                                             *)
IsFixedValue(u, text) ==
  LET type == DeclarationOf(given.globals, u).type
      root == IF type = Absent THEN "string" ELSE RootOf(given.simple, type)
  IN  IF root = Absent \/ root \in DurationKinds THEN TRUE ELSE SameValue(root, text, root, u.fixed)

(* What is left out: references to attributes that are not in the schema;  *)
(* wildcards that would have to be united; one that a restriction did not  *)
(* keep, which stays in force; a use that is prohibited, and admitted by   *)
(* the wildcard beside it; types of attributes, which are not compared.    *)
AttributesTold(chain) ==
  LET base    == Front(chain)
      derived == Collected(chain)
      Type(u) == DeclarationOf(given.globals, u).type
  IN  /\ \A t \in Range(chain) : \A u \in Range(t.uses) : Resolves(given.globals, u)
      /\ Cardinality(WildcardSteps(base)) <= 1
      /\ Collected(base).any # Absent => WildcardSteps(base) # {}
      /\ \A u \in Range(Last(chain).uses) :
           /\ u.prohibited /\ derived.any # Absent => ~Matches(derived.any, u.ns)
           /\ UseIn(base, NameOf(u)) # Absent => Type(u) = Type(UseIn(base, NameOf(u)))

(* Whatever attributes the validator accepts of the derived type, the base *)
(* type admits: each as it is declared there, or by the wildcard.          *)
AttributesStayAllowed ==
  LET chain   == CompiledChain
      base    == Front(chain)
      derived == Collected(chain)
      names   == {NameOf(u) : u \in UNION {Range(t.uses) : t \in Range(chain)}} \cup {<<OtherNs, OtherName>>}
  IN  AttributesTold(chain) =>
        \A present \in SUBSET names : \A attrs \in [present -> Range(given.texts)] :
          AttributesAccepted(given.simple, given.globals, derived, attrs) =>
            \A a \in names :
              LET u == UseIn(base, a)
              IN  /\ a \in present => IF u = Absent THEN \E k \in WildcardSteps(base) : Matches(base[k].any, a[1])
                                      ELSE u.fixed # Absent => IsFixedValue(u, attrs[a])
                  /\ u # Absent /\ a \notin present => ~u.required

(* Of base groups that may not occur, the code allows one pass.            *)
ContentStaysAllowed ==
  verdict = "ok" /\ ~GuessesNames(tree, BaseTree) /\ (\A g \in Groups(BaseTree) : g.max # 0) =>
    LET letters == UNION {LettersOf(d) : d \in Leaves(tree)}
        derived == Over(tree, [leaf \in Leaves(tree) |-> LettersOf(leaf)])
        base    == Over(BaseTree, [leaf \in Leaves(BaseTree) |-> {l \in letters : IsLetterOf(leaf, l)}])
    IN  Allowed(derived) \subseteq Allowed(base)

(* The rules compare particles pairwise, in an order, splicing groups and  *)
(* multiplying ranges; attribute uses are gathered along chains of types,  *)
(* once to be checked and once to validate.  Where a type is called a      *)
(* restriction, every sequence of children it allows, its base allows too; *)
(* where it is accepted as one, so is every set of attributes.             *)
RestrictionIsSound ==
  /\ ContentStaysAllowed
  /\ phase = "accepted" /\ Restricts => AttributesStayAllowed

(* Restriction is checked twice, over the trees (restriction/mod.rs: "Only *)
(* a Violation ... rejects") and over the flattened elements, which know   *)
(* neither groups nor order (validity.rs).  The second check refuses       *)
(* nothing that the first knows to be a restriction.  Left out are two     *)
(* cases where it does: it counts elements that may not occur, and of an   *)
(* element that the base has in several places it takes the first.         *)
FlattenedAgreesWithTree ==
  reason = "flattened" /\ Restricting = {Len(given.types)} =>
    LET ds == OwnElements(docs, Last(given.types))
        bs == OwnElements(docs, Last(Front(given.types)))
        onlyOnce == \A j, k \in DOMAIN bs : bs[j].name = bs[k].name => j = k
    IN  onlyOnce /\ (\A k \in DOMAIN ds : ds[k].max # 0) => verdict # "ok"

(* The base types of a type are known to the end, or as far as the schema  *)
(* goes: then the last may turn out to be derived from any other.          *)
Known(supers) == Last(supers) = "anyType"

RECURSIVE Completed(_, _)
Completed(p, above) ==
  IF ~IsLeaf(p) THEN [p EXCEPT !.items = [k \in DOMAIN p.items |-> Completed(p.items[k], above)]]
  ELSE IF p.kind = "wildcard" THEN p
  ELSE IF Known(p.supers) THEN p ELSE [p EXCEPT !.supers = @ \o above[Last(@)]]

(* "A comparison yields Ok (definitely a valid restriction), Violation     *)
(* (definitely invalid), or Unknown ... dependent on unresolved            *)
(* information" (restriction/mod.rs): whatever the types that are missing  *)
(* turn out to be, a verdict that is not unknown stays what it is.         *)
VerdictIsDefinite ==
  verdict \in {"ok", "violation"} /\ Nothing \notin {tree, BaseTree} /\ ~GuessesNames(tree, BaseTree) =>
    LET leaves  == ElementLeaves(tree) \cup ElementLeaves(BaseTree)
        missing == {Last(l.supers) : l \in {m \in leaves : ~Known(m.supers)}}
        chains  == {<<"anyType">>} \cup {l.supers : l \in {m \in leaves : Known(m.supers)}}
    IN  \A above \in [missing -> chains] :
          CheckRestriction(Completed(tree, above), FALSE, Completed(BaseTree, above), FALSE) = verdict

(* Where there is no automaton, children are only counted.  That must not  *)
(* refuse what the content model allows: of an element declared once, no   *)
(* allowed sequence of children has fewer or more than the flattened       *)
(* bounds say, through choices, repeated groups, references to groups and  *)
(* extensions.  (An optional xs:all is flattened as if it were not.)       *)
FlattenedIsNoStricter ==
  phase = "restrictions" /\ tree # Nothing /\ (\A g \in Groups(tree) : g.kind = "all" => g.min = 1) =>
    LET Named(leaf) == IF leaf.kind = "wildcard" THEN {OtherName} ELSE {leaf.name}
        model  == Over(tree, [leaf \in Leaves(tree) |-> Named(leaf)])
        bounds == Bounds(elements)
        once   == {n \in DOMAIN bounds : Cardinality({k \in DOMAIN elements : elements[k].name = n}) = 1}
    IN  \A w \in Allowed(model) : \A n \in once :
          LET count == Cardinality({k \in DOMAIN w : w[k] = n})
          IN  bounds[n][1] <= count /\ Below(count, bounds[n][2])

-------------------------------------------------------------------------------
(* Properties: values.                                                     *)

(* Two types of one name, in different namespaces: the first that is met   *)
(* is kept for both.                                                       *)
Conflated == Cached(judged.ref) # judged.ref

(* What the checks leave out: facets of an anonymous base, which are       *)
(* dropped; a base in another document; an enumeration or a time zone that *)
(* takes the place of another; a bound that has no order with one of the   *)
(* base, as a month and thirty days have none.                             *)
RECURSIVE Unchecked(_)
Unchecked(d) ==
  \/ d.variety = "restriction" /\ d.of[1].to = "inline" /\ d.of[1].def.facets # <<>>
  \/ \E k \in DOMAIN d.of :
       /\ d.of[k].to # "builtin"
       /\ LET b == DefinitionOf(given.simple, d.of[k])
              steps == StepsOf(given.simple, CompiledType(b))
          IN  \/ b.doc # d.doc \/ Unchecked(b)
              \/ \E f \in {"enumeration", "explicitTimezone"} :
                   /\ Uses(d.facets, {f})
                   /\ \E n \in DOMAIN steps : IF f = "enumeration" THEN steps[n].enumeration # {} ELSE steps[n].facets[f] # Absent
              \/ \E f, g \in RangeFacets :
                   /\ Uses(d.facets, {f}) /\ NearestOf(steps, g) # Absent
                   /\ CompareTexts(KindOf(given.simple, CompiledType(b)), Declared(d.facets, f), NearestOf(steps, g)) = Absent

TextsByDefinition ==
  judged # Nothing =>
    (~Conflated /\ ~Unchecked(DefinitionOf(given.simple, judged.ref)) =>
       \A k \in DOMAIN given.texts :
         LET belongs == Belongs(given.simple, judged.ref, given.texts[k])
         IN  judged.element[k] = belongs /\ judged.attribute[k] = belongs)

(* A value that is given is looked at before the built-in types are known, *)
(* with such facets as there are by then.  What of a type is not: built-in *)
(* lists, and references, whose types are elsewhere.                       *)
GivenValuesAccepted ==
  LET uses       == UNION {Range(t.uses) : t \in Range(CompiledChain)}
      elements_  == {g \in Range(given.globals) : g.what = "element"}
      attributes == (Range(given.globals) \ elements_) \cup {u \in uses : ~u.ref /\ ~u.prohibited}
      Type(decl) == TypeOf(given.simple, decl.type)
      Told(decl) == /\ HasValue(decl) /\ GivenValue(decl).white = "clean"
                    /\ decl.type # Absent /\ decl.type.to # "complex"
                    /\ Last(StepsOf(given.simple, Type(decl))).name \notin DOMAIN ListTypes
      Is(decl)   == ConstraintsOf(given.simple, Type(decl))
  IN  /\ \A decl \in elements_ : Told(decl) => ElementAccepts(Is(decl), GivenValue(decl))
      /\ \A decl \in attributes : Told(decl) => AttributeAccepts(Is(decl), KindOf(given.simple, Type(decl)), GivenValue(decl))

(* Compiling keeps of each type its own facets, checked against those of   *)
(* its base; validating takes the nearest of each facet, whatever the base *)
(* says, and scans plain numbers without looking at facets at all.  So the *)
(* checks must refuse every type that would widen its base: what an        *)
(* element or an attribute may contain is what belongs to the type by its  *)
(* definition, in which every facet of every step counts.  And the values  *)
(* that declarations give are among them.                                  *)
ValuesByDefinition ==
  /\ TextsByDefinition
  /\ phase = "accepted" /\ Len(docs) = 1 /\ judged = Nothing => GivenValuesAccepted

(* Types whose values are compared as texts are compared with all others;  *)
(* durations and time stamps as well, though they have an order.           *)
ComparedAsText(root) == ClassTag(KindNamed(root)) = Absent \/ root \in DurationKinds \cup {"dateTimeStamp"}

(* A float that is written -0 has a key of its own, though it is not less  *)
(* than 0.                                                                 *)
MinusZero(root, text) ==
  /\ root \in FloatKinds /\ text.words[1].form = "number" /\ text.words[1].sign = "-"
  /\ Range(AllChars(text)) \subseteq {"-", ".", "0"}

(* Keys of identity constraints are texts: two valid values have the same  *)
(* key exactly when they are the same value of the same primitive type,    *)
(* whatever types their elements have and however they are written.        *)
KeysByValue ==
  judged # Nothing =>
    \A other \in Validated :
      LET Root(ref)   == RootOf(given.simple, ref)
          Compared(ref) ==
            {k \in DOMAIN given.texts :
               Belongs(given.simple, ref, given.texts[k]) /\ ~MinusZero(Root(ref), given.texts[k])}
          Keys(ref) == LET kind == KindOf(given.simple, TypeOf(given.simple, ref))
                       IN  [k \in Compared(ref) |-> IdentityKey(kind, given.texts[k])]
          mine   == Keys(judged.ref)
          theirs == Keys(other)
      IN  (\A ref \in {judged.ref, other} : Root(ref) # Absent /\ ~ComparedAsText(Root(ref))) =>
            \A j \in DOMAIN mine, k \in DOMAIN theirs :
              mine[j] = theirs[k]
                <=> SameValue(Root(judged.ref), given.texts[j], Root(other), given.texts[k])

==============================================================================
