---------------------------- MODULE StreamValidator ----------------------------
(***************************************************************************)
(* The streaming validator (OnePassSchemaValidator, validator/streaming/): *)
(* one pass over the events, with a stack of element contexts.  A child is *)
(* placed in its parent's content model at its start tag; what an element  *)
(* contains is judged at its end tag; IDREFs and keyrefs at the end of the *)
(* document.                                                               *)
(*                                                                         *)
(* Identity constraints (identity.rs, xsd/constraints.rs): a scope is open *)
(* for each constraint of each open element; in it, every element that the *)
(* selector selects is followed until its end tag, while its fields are    *)
(* filled in.  Keys go to tables that all scopes of one name share, and    *)
(* keyrefs wait for the end of the document.                               *)
(*                                                                         *)
(* Depths are those of the element stack, as in the code.                  *)
(***************************************************************************)
EXTENDS SchemaInstance

-------------------------------------------------------------------------------
(* Identity constraints.                                                   *)

VARIABLES
  scopes,  \* identity_scopes, in the order they were opened
  tables,  \* constraint_validator.key_values, by the name of the constraint
  pending  \* constraint_validator.pending_keyrefs: <<refer, tuple>>

identityVars == <<scopes, tables, pending>>

(* A constraint: [name, kind, refer, selector, fields], where selector is  *)
(* a set of paths and each field a path and, if it ends in one, the name   *)
(* of an attribute.                                                        *)

Unset == [is |-> "unset"]
Multiple == [is |-> "multiple"]
NotSimple == [is |-> "not_simple"]
Set(v) == [is |-> "set", value |-> v]

(* FieldState::record, record_not_simple                                   *)
Filled(field, x) == IF field = Unset THEN x ELSE Multiple

IdentityInit ==
  /\ scopes = <<>>
  /\ tables = [name \in {} |-> {}]
  /\ pending = {}

NamesOf(elements) == [k \in DOMAIN elements |-> doc[elements[k]].tag.name]

(* The names from just below depth d down to the last of the elements.     *)
Below(d, elements) == NamesOf(SubSeq(elements, d + 1, Len(elements)))

Selects(paths, names) == \E p \in paths : PathMatches(p, names)

(* One scope at a start tag, of an element of type t at the end of the     *)
(* path names: it may be selected, and its attributes are fields of the    *)
(* selected elements it belongs to.                                        *)
AtStart(scope, names, t, attrs) ==
  LET depth == Len(names)
      found == IF Selects(scope.constraint.selector, SubSeq(names, scope.depth + 1, depth))
               THEN Append(scope.selected,
                           [depth |-> depth, fields |-> [k \in DOMAIN scope.constraint.fields |-> Unset]])
               ELSE scope.selected
      Captures(s, f) ==
        /\ f.attr # None /\ f.attr \in DOMAIN attrs
        /\ PathMatches(f, SubSeq(names, s.depth + 1, depth))
      Capture(s) ==
        [s EXCEPT !.fields =
           [k \in DOMAIN s.fields |->
              LET f == scope.constraint.fields[k]
              IN  IF Captures(s, f)
                  THEN Filled(s.fields[k], Set(KeyOf(IsTyped(t, f.attr), attrs[f.attr])))
                  ELSE s.fields[k]]]
  IN  [scope EXCEPT !.selected = [k \in DOMAIN found |-> Capture(found[k])]]

Opened(constraints, depth) ==
  [k \in DOMAIN constraints |->
     [constraint |-> constraints[k], depth |-> depth, selected |-> <<>>, seen |-> {}]]

(* identity_element_start: the scopes of the element itself are opened     *)
(* first.                                                                  *)
IdentityStart(names, t, attrs, constraints) ==
  /\ LET all == scopes \o Opened(constraints, Len(names))
     IN  scopes' = [k \in DOMAIN all |-> AtStart(all[k], names, t, attrs)]
  /\ UNCHANGED <<tables, pending>>

-------------------------------------------------------------------------------
(* The end tag of the current element, of type t and with the given text.  *)

(* The ending element is a field of the selected elements it belongs to.   *)
AtEnd(scope, t, text) ==
  LET Value == IF t = None \/ HasSimpleValue(t) THEN Set(KeyOf(HasSimpleValue(t), text)) ELSE NotSimple
      Capture(s) ==
        [s EXCEPT !.fields =
           [k \in DOMAIN s.fields |->
              LET f == scope.constraint.fields[k]
              IN  IF f.attr = None /\ PathMatches(f, Below(s.depth, open))
                  THEN Filled(s.fields[k], Value)
                  ELSE s.fields[k]]]
  IN  [k \in DOMAIN scope.selected |-> Capture(scope.selected[k])]

(* The selected element that ends here, if there is one.                   *)
Ending(scope, t, text) ==
  {s \in {AtEnd(scope, t, text)[k] : k \in DOMAIN scope.selected} : s.depth = Len(open)}

Has(s, state) == \E k \in DOMAIN s.fields : s.fields[k].is = state

IsTuple(s) == \A k \in DOMAIN s.fields : s.fields[k].is = "set"

TupleOf(s) == [k \in DOMAIN s.fields |-> s.fields[k].value]

Tuples(scope, t, text) == {TupleOf(s) : s \in {x \in Ending(scope, t, text) : IsTuple(x)}}

IsKeyref(scope) == scope.constraint.kind = "keyref"

(* What is wrong with a selected element: a field that is not one value, a *)
(* missing field of a key, or a tuple that this scope has seen before.     *)
SelectedErrors(scope, s) ==
  IF Has(s, "multiple") \/ Has(s, "not_simple") THEN {"field"}
  ELSE IF Has(s, "unset") THEN IF scope.constraint.kind = "key" THEN {"field"} ELSE {}
  ELSE IF ~IsKeyref(scope) /\ TupleOf(s) \in scope.seen THEN {"duplicate"}
  ELSE {}

IdentityErrors(t, text) ==
  UNION {UNION {SelectedErrors(scopes[k], s) : s \in Ending(scopes[k], t, text)} : k \in DOMAIN scopes}

TableOf(name) == IF name \in DOMAIN tables THEN tables[name] ELSE {}

(* A key's table does not outlive its scope.                               *)
TablesAfterScoped(t, text) ==
  LET keys == {k \in DOMAIN scopes : ~IsKeyref(scopes[k]) /\ Tuples(scopes[k], t, text) # {}}
      New(name) == {k \in keys : scopes[k].constraint.name = name}
      closed == {scopes[k].constraint.name : k \in {j \in DOMAIN scopes : scopes[j].depth = Len(open)}}
  IN  [name \in (DOMAIN tables \cup {scopes[k].constraint.name : k \in keys}) \ closed |->
         TableOf(name) \cup UNION {Tuples(scopes[k], t, text) : k \in New(name)}]

(* record_complete_key_tuple                                               *)
TablesAfter(t, text) ==
  LET keys == {k \in DOMAIN scopes : ~IsKeyref(scopes[k]) /\ Tuples(scopes[k], t, text) # {}}
      New(name) == {k \in keys : scopes[k].constraint.name = name}
  IN  [name \in DOMAIN tables \cup {scopes[k].constraint.name : k \in keys} |->
         TableOf(name) \cup UNION {Tuples(scopes[k], t, text) : k \in New(name)}]

(* add_complete_keyref_tuple                                               *)
PendingAfter(t, text) ==
  pending \cup
  UNION {{<<scopes[k].constraint.refer, u>> : u \in Tuples(scopes[k], t, text)} :
         k \in {j \in DOMAIN scopes : IsKeyref(scopes[j])}}

(* What a scope keeps: the elements still open, and the tuples seen.       *)
Kept(scope, t, text) ==
  [scope EXCEPT !.selected = SelectSeq(AtEnd(scope, t, text), LAMBDA s : s.depth # Len(open)),
                !.seen = IF IsKeyref(scope) THEN @ ELSE @ \cup Tuples(scope, t, text)]

(* identity_element_end                                                    *)
IdentityEnd(t, text) ==
  /\ tables' = TablesAfter(t, text)
  /\ pending' = PendingAfter(t, text)
  /\ scopes' = SelectSeq([k \in DOMAIN scopes |-> Kept(scopes[k], t, text)],
                         LAMBDA x : x.depth # Len(open))

(* validate_keyrefs, at the end of the document.                           *)
Dangling == {p \in pending : p[2] \notin TableOf(p[1])}

-------------------------------------------------------------------------------
(* The element stack.                                                      *)

VARIABLES
  stack,    \* ElementContext of each open element
  ids,      \* seen_ids
  idrefs,   \* pending_idrefs
  found     \* the errors, as <<kind, element>>

streamVars == <<instanceVars, identityVars, stack, ids, idrefs, found>>

StreamInit ==
  /\ IdentityInit
  /\ stack = <<>>
  /\ ids = {}
  /\ idrefs = {}
  /\ found = {}

(* What the parent of the element being opened expects.                    *)
Above == IF stack = <<>> THEN [type |-> None, mode |-> None, nilled |-> FALSE] ELSE stack[Len(stack)]

(* parent_wildcard_mode                                                    *)
ModeFor(n) ==
  IF Above.mode = "skip" THEN "skip"
  ELSE IF Expects(Above.type, n) THEN None
  ELSE IF Above.mode = "lax" THEN "lax"
  ELSE IF Admits(Wildcard(Above.type), n) THEN Wildcard(Above.type).process
  ELSE None

(* The position of a new child named n among its namesakes.                *)
Occurrence(n) == Cardinality({j \in ChildrenOf(Current) : doc[j].tag.name = n}) + 1

(* The value constraints of d hold, where it has any, over those of g.     *)
Over(g, d) ==
  [g EXCEPT !.fixed = IF d.fixed # None THEN d.fixed ELSE @,
            !.default = IF d.default # None THEN d.default ELSE @,
            !.nillable = @ \/ d.nillable]

(* The value constraints are those of the last declaration, wherever the   *)
(* child stands.                                                           *)
DeclForLast(n) == Governing(Above.type, n)

(* The declaration that governs a new element: of the same-named local     *)
(* ones the last, with the value constraints of its own position.          *)
DeclFor(n) ==
  LET decls == DeclarationsOf(Above.type, n)
      g == Governing(Above.type, n)
      base == IF Last(decls).ref THEN g ELSE [g EXCEPT !.fixed = None, !.default = None, !.nillable = FALSE]
  IN  IF decls # <<>> /\ IsPositional(Above.type, n, Last(decls).decl)
      THEN Over(base, DeclAt(Above.type, n, Occurrence(n)))
      ELSE g

(* How the new element is admitted, in the order the code tries.           *)
Admission(tag) ==
  IF ModeFor(tag.name) = "skip" THEN "skip"
  ELSE IF DeclFor(tag.name) # None THEN "declared"
  ELSE IF ModeFor(tag.name) = "lax" THEN "lax"
  ELSE IF NamedType(tag.xsi) THEN "xsi_type"
  ELSE "unknown"

(* A child that cannot be placed loses the parent's configurations.        *)
PlaceInLost(ctx, n) ==
  IF ~HasAutomaton(ctx.type) THEN ctx
  ELSE [ctx EXCEPT !.configs = A!Step(Type(ctx.type).auto, @, n)]

(* step_parent_automaton: the parent's new configurations.                 *)
PlaceIn(ctx, n) ==
  IF ~HasAutomaton(ctx.type) THEN ctx
  ELSE LET next == A!Step(Type(ctx.type).auto, ctx.configs, n)
       IN  [ctx EXCEPT !.configs = IF next = {} THEN @ ELSE next]

(* The errors of that step; report is FALSE for a child that a wildcard    *)
(* admits.                                                                 *)
PlaceErrors(n, report) ==
  IF stack = <<>> \/ ~HasAutomaton(Above.type) THEN {}
  ELSE IF A!Step(Type(Above.type).auto, Above.configs, n) # {} THEN {}
  ELSE IF A!Blocked(Type(Above.type).auto, Above.configs, n) THEN {"too_many"}
  ELSE IF report THEN {"not_expected"}
  ELSE {}

(* validate_max_occurs, where the parent has no automaton: the declaration *)
(* of the child's substitution group, if it has one, is the one that       *)
(* counts.  The child itself is counted.                                   *)
CountErrors(n) ==
  LET head == IF n \in DOMAIN schema.heads THEN schema.heads[n] ELSE n
      Others == {j \in ChildrenOf(Current) : doc[j].tag.name \in {head} \cup MembersOf(head)}
  IN  IF stack = <<>> \/ ~IsComplex(Above.type) \/ HasAutomaton(Above.type) THEN {}
      ELSE {"too_many" : c \in {x \in ChildrenIn(Above.type) :
                                  x.name = head /\ x.max # Unbounded /\ Cardinality(Others) + 1 > x.max}}

(* A wildcard that is the only particle counts what it admits.             *)
CountMatched(ctx, n) ==
  IF IsSoleParticle(ctx.type) /\ Admits(Wildcard(ctx.type), n)
  THEN [ctx EXCEPT !.matched = @ + 1]
  ELSE ctx

(* The type of the new element, and what is wrong with its xsi:type.       *)
TypeFor(tag) ==
  LET declared == IF Admission(tag) = "declared" THEN DeclFor(tag.name).type ELSE None
  IN  IF tag.xsi # None /\ NamedType(tag.xsi) /\ Substitutable(tag.xsi, declared) THEN tag.xsi ELSE declared

XsiErrors(tag) == IF tag.xsi # None /\ TypeFor(tag) # tag.xsi THEN {"xsi_type"} ELSE {}

(* Abstract and nillable, of the governing declaration.                    *)
DeclErrors(tag) ==
  IF Admission(tag) # "declared" THEN {}
  ELSE (IF DeclFor(tag.name).abstract THEN {"abstract"} ELSE {})
       \cup (IF tag.nil /\ ~DeclFor(tag.name).nillable THEN {"nil"} ELSE {})

NewContext(tag) ==
  LET decl == IF Admission(tag) = "declared" THEN DeclFor(tag.name) ELSE NoDecl
  IN  [type |-> TypeFor(tag),
       nilled |-> tag.nil /\ decl.nillable,
       decl |-> decl,
       mode |-> IF Admission(tag) = "lax" THEN "lax" ELSE None,
       configs |-> A!Start,
       matched |-> 0]

SkippedContext ==
  [type |-> None, nilled |-> FALSE, decl |-> NoDecl, mode |-> "skip", configs |-> A!Start, matched |-> 0]

(* The parent's context after a child that is placed in its content, and   *)
(* after one that is not.                                                  *)
Placed(tag) ==
  IF stack = <<>> THEN <<>>
  ELSE LET counted == CountMatched(Above, tag.name)
       IN  [stack EXCEPT ![Len(stack)] =
              IF Admission(tag) = "unknown" THEN counted ELSE PlaceIn(counted, tag.name)]

Report(kinds, i) == found' = found \cup (kinds \X {i})

(* The start tag of an element in a skipped subtree, or admitted by a skip *)
(* wildcard.                                                               *)
StartSkipped(tag) ==
  /\ Admission(tag) = "skip"
  /\ stack' = Append(Placed(tag), SkippedContext)
  /\ Report(PlaceErrors(tag.name, FALSE), Len(doc) + 1)
  /\ UNCHANGED <<identityVars, ids, idrefs>>

(* validate_element, for any other.                                        *)
StartElement(tag) ==
  LET t == TypeFor(tag)
      here == Len(doc) + 1
      declared == Admission(tag) = "declared"
      new == ValuesOfKind(t, tag.attrs, "id")
  IN  /\ Admission(tag) # "skip"
      /\ stack' = Append(Placed(tag), NewContext(tag))
      /\ IdentityStart(Append(NamesOf(open), tag.name), t, tag.attrs,
                       IF declared THEN DeclFor(tag.name).constraints ELSE <<>>)
      /\ ids' = ids \cup new
      /\ idrefs' = idrefs \cup ValuesOfKind(t, tag.attrs, "idref")
      /\ Report((IF Admission(tag) = "unknown"
                 THEN IF schema.strict THEN {"unknown"} ELSE {}
                 ELSE PlaceErrors(tag.name, Admission(tag) # "lax"))
                \cup (IF declared THEN CountErrors(tag.name) ELSE {})
                \cup XsiErrors(tag) \cup DeclErrors(tag)
                \cup (IF AttributeErrors(t, tag.attrs) # {} THEN {"attribute"} ELSE {})
                \cup (IF new \cap ids # {} THEN {"duplicate_id"} ELSE {}),
                here)

StreamStart(tag) ==
  /\ OpenElement(tag)
  /\ StartSkipped(tag) \/ StartElement(tag)

StreamText(text) ==
  /\ AddText(text)
  /\ UNCHANGED <<identityVars, stack, ids, idrefs, found>>

-------------------------------------------------------------------------------
(* The end tag.                                                            *)

(* Where the wildcard is the only particle.                                *)
BoundErrors(ctx) ==
  IF IsSoleParticle(ctx.type) /\ ~InBounds(ctx.matched, Wildcard(ctx.type).min, Wildcard(ctx.type).max)
  THEN {"wildcard_bounds"} ELSE {}

NilErrors(ctx, i) ==
  IF ctx.nilled /\ (doc[i].text # "" \/ ChildrenOf(i) # {}) THEN {"nil_content"} ELSE {}

FixedErrors(ctx, i) == IF MissesFixed(ctx.type, doc[i].text, ctx.decl.fixed) THEN {"fixed"} ELSE {}

(* validate_text_content_against_type                                      *)
TextErrors(ctx, i) ==
  IF HasSimpleValue(ctx.type)
  THEN IF ctx.nilled /\ doc[i].text = "" THEN {}
       ELSE IF EffectiveText(doc[i].text, ctx.decl) \in Type(ctx.type).values THEN {} ELSE {"value"}
  ELSE IF IsElementOnly(ctx.type) /\ doc[i].text # "" THEN {"text"}
  ELSE {}

(* finish_automaton, or validate_min_occurs where there is none.           *)
FinishErrors(ctx, i) ==
  IF HasAutomaton(ctx.type)
  THEN IF ctx.nilled \/ A!CanFinish(Type(ctx.type).auto, ctx.configs) THEN {} ELSE {"incomplete"}
  ELSE IF IsComplex(ctx.type) /\ TooFew(ctx.type, i) THEN {"incomplete"} ELSE {}

(* validate_element_end                                                    *)
StreamEnd ==
  /\ CloseElement
  /\ stack' = SubSeq(stack, 1, Len(stack) - 1)
  /\ LET ctx == stack[Len(stack)]
         i == Current
         identity == IdentityErrors(ctx.type, doc[i].text)
     IN  /\ IdentityEnd(ctx.type, doc[i].text)
         /\ Report(identity \cup
                   (IF ctx.mode = "skip" THEN {}
                    ELSE BoundErrors(ctx) \cup NilErrors(ctx, i) \cup FixedErrors(ctx, i)
                         \cup TextErrors(ctx, i) \cup FinishErrors(ctx, i)),
                   i)
  /\ UNCHANGED <<ids, idrefs>>

(* finish: what was waiting for the rest of the document.  Element 0       *)
(* stands for the document.                                                *)
StreamFinishErrors ==
  (IF idrefs \subseteq ids THEN {} ELSE {<<"idref", 0>>})
  \cup (IF Dangling = {} THEN {} ELSE {<<"keyref", 0>>})

==============================================================================
