------------------------------- MODULE Validators -------------------------------
(***************************************************************************)
(* One document under both validation engines.  The streaming validator    *)
(* (StreamValidator) follows the events as the document is read.  The DOM  *)
(* validator (DomSchemaValidator, validator/dom/) follows here: the        *)
(* finished tree is visited element by element in document order, each     *)
(* with the context that its parent's visit left; identity constraints are *)
(* tasks that are evaluated over the tree after the visit, keys before     *)
(* keyrefs.                                                                *)
(***************************************************************************)
EXTENDS StreamValidator

VARIABLES
  contexts,  \* ParentContext of each visited element, and the type it was held to
  domIds,    \* DocIdState: seen_ids
  domIdrefs, \* pending_idrefs
  tasks,     \* constraint_tasks: <<element, constraint>>
  domFound   \* the errors, as <<kind, element>>

domVars == <<contexts, domIds, domIdrefs, tasks, domFound>>

DomInit ==
  /\ contexts = <<>>
  /\ domIds = {}
  /\ domIdrefs = {}
  /\ tasks = {}
  /\ domFound = {}

(* The next element in document order: the parent is visited before.       *)
Visited == Len(contexts)

NoContext == [type |-> None, wildcard |-> None]

ParentContextOf(i) == IF Parent(i) = 0 THEN NoContext ELSE contexts[Parent(i)]

AnyWildcard(process) == [names |-> {doc[j].tag.name : j \in DOMAIN doc}, process |-> process, min |-> 0, max |-> Unbounded]

DomExpects(i) == Expects(ParentContextOf(i).type, doc[i].tag.name)

(* xsi_type_declaration                                                    *)
DeclaredByXsi(i) ==
  /\ Governing(ParentContextOf(i).type, doc[i].tag.name) = None
  /\ NamedType(doc[i].tag.xsi)

DomDecl(i) ==
  IF DeclaredByXsi(i) THEN [NoDecl EXCEPT !.type = doc[i].tag.xsi]
  ELSE Governing(ParentContextOf(i).type, doc[i].tag.name)

(* The parent's wildcard admits the element, which its content model does  *)
(* not name.                                                               *)
AdmittedAs(i, process) ==
  /\ ~DomExpects(i)
  /\ ParentContextOf(i).wildcard # None
  /\ ParentContextOf(i).wildcard.process = process
  /\ Admits(ParentContextOf(i).wildcard, doc[i].tag.name)

DomType(i) ==
  LET xsi == doc[i].tag.xsi
      declared == DomDecl(i).type
  IN  IF xsi # None /\ NamedType(xsi) /\ Substitutable(xsi, declared) THEN xsi ELSE declared

(* positional_value_constraint: the value constraints of the element's own *)
(* position, for its text.                                                 *)
TextDecl(i) ==
  LET t == ParentContextOf(i).type
      n == doc[i].tag.name
      earlier == {j \in ChildrenOf(Parent(i)) : j < i /\ doc[j].tag.name = n}
      d == DeclAt(t, n, Cardinality(earlier) + 1)
  IN  IF Len(DeclarationsOf(t, n)) >= 2 /\ IsPositional(t, n, DomDecl(i))
      THEN [DomDecl(i) EXCEPT !.fixed = d.fixed, !.default = d.default, !.nillable = d.nillable]
      ELSE DomDecl(i)

IsNilled(i) == doc[i].tag.nil /\ DomDecl(i).nillable

ChildNames(i) ==
  LET kids == SelectSeq([j \in DOMAIN doc |-> j], LAMBDA j : doc[j].parent = i)
  IN  [k \in DOMAIN kids |-> doc[kids[k]].tag.name]

(* The automaton's configurations after the first k children: one that     *)
(* cannot be placed leaves them.                                           *)
After(auto, names, k) ==
  LET run[n \in 0 .. k] ==
        IF n = 0 THEN A!Start
        ELSE LET next == A!Step(auto, run[n - 1], names[n]) IN IF next = {} THEN run[n - 1] ELSE next
  IN  run[k]

(* A child that cannot be placed is reported here when it is declared: an  *)
(* undeclared one gets that error instead.                                 *)
PlacementError(t, names, k) ==
  LET auto == Type(t).auto
      before == After(auto, names, k - 1)
  IN  IF A!Step(auto, before, names[k]) # {} THEN {}
      ELSE IF A!Blocked(auto, before, names[k]) THEN {"too_many"}
      ELSE IF Expects(t, names[k]) \/ GlobalDecl(names[k]) # None THEN {"not_expected"}
      ELSE {}

(* validate_with_automaton, or the count-based checks without one; a       *)
(* placement error is the child's.                                         *)
DomContentErrors(i) ==
  LET t == DomType(i)
      names == ChildNames(i)
      kids == SelectSeq([j \in DOMAIN doc |-> j], LAMBDA j : doc[j].parent = i)
  IN  IF ~IsComplex(t) THEN {}
      ELSE IF HasAutomaton(t)
      THEN IF IsNilled(i) THEN {}
           ELSE UNION {PlacementError(t, names, k) \X {kids[k]} : k \in DOMAIN kids}
                \cup (IF A!CanFinish(Type(t).auto, After(Type(t).auto, names, Len(names))) THEN {}
                      ELSE {<<"incomplete", i>>})
      ELSE (IF TooFew(t, i) THEN {<<"incomplete", i>>} ELSE {})
           \cup {<<"too_many", i>> : c \in {x \in ChildrenIn(t) :
                                              x.max # Unbounded /\ TotalCount(i, x.name) > x.max}}

(* Where the wildcard is the only particle.                                *)
DomBoundErrors(i) ==
  LET t == DomType(i)
      matched == {j \in ChildrenOf(i) : Admits(Wildcard(t), doc[j].tag.name)}
  IN  IF IsSoleParticle(t) /\ ~InBounds(Cardinality(matched), Wildcard(t).min, Wildcard(t).max)
      THEN {"wildcard_bounds"} ELSE {}

(* validate_text_content                                                   *)
DomTextErrors(i) ==
  LET t == DomType(i)
      text == doc[i].text
  IN  (IF MissesFixed(t, text, TextDecl(i).fixed) THEN {"fixed"} ELSE {})
      \cup
      (IF HasSimpleValue(t)
       THEN IF ~IsNilled(i) /\ EffectiveText(text, TextDecl(i)) \notin Type(t).values THEN {"value"} ELSE {}
       ELSE IF IsElementOnly(t) /\ Type(t).hasParticles /\ text # "" THEN {"text"} ELSE {})

DomTagErrors(i) ==
  LET tag == doc[i].tag
      decl == DomDecl(i)
  IN  (IF tag.xsi # None /\ DomType(i) # tag.xsi THEN {"xsi_type"} ELSE {})
      \cup (IF decl.abstract THEN {"abstract"} ELSE {})
      \cup (IF tag.nil /\ ~decl.nillable THEN {"nil"} ELSE {})
      \cup (IF IsNilled(i) /\ (ChildrenOf(i) # {} \/ doc[i].text # "") THEN {"nil_content"} ELSE {})
      \cup (IF AttributeErrors(DomType(i), tag.attrs) # {} THEN {"attribute"} ELSE {})
      \cup (IF ValuesOfKind(DomType(i), tag.attrs, "id") \cap domIds # {} THEN {"duplicate_id"} ELSE {})

Tasks(i) ==
  {<<i, DomDecl(i).constraints[k]>> : k \in DOMAIN DomDecl(i).constraints}

(* An element with a declaration, its own or that of its xsi:type.         *)
VisitDeclared ==
  LET i == Visited + 1
  IN  /\ ~AdmittedAs(i, "skip")
      /\ DomDecl(i) # None
      /\ contexts' = Append(contexts, [type |-> DomType(i), wildcard |-> Wildcard(DomType(i))])
      /\ domIds' = domIds \cup ValuesOfKind(DomType(i), doc[i].tag.attrs, "id")
      /\ domIdrefs' = domIdrefs \cup ValuesOfKind(DomType(i), doc[i].tag.attrs, "idref")
      /\ tasks' = tasks \cup Tasks(i)
      /\ domFound' = domFound \cup DomContentErrors(i)
                       \cup ((DomTagErrors(i) \cup DomBoundErrors(i) \cup DomTextErrors(i)) \X {i})

(* An element without: skipped or lax with all that is in it, or unknown.  *)
VisitUndeclared ==
  LET i == Visited + 1
      lax == schema.strict /\ AdmittedAs(i, "lax")
      left == IF AdmittedAs(i, "skip") THEN [NoContext EXCEPT !.wildcard = AnyWildcard("skip")]
              ELSE IF lax THEN [NoContext EXCEPT !.wildcard = AnyWildcard("lax")]
              ELSE NoContext
  IN  /\ AdmittedAs(i, "skip") \/ DomDecl(i) = None
      /\ contexts' = Append(contexts, left)
      /\ domFound' = IF schema.strict /\ left = NoContext THEN domFound \cup {<<"unknown", i>>} ELSE domFound
      /\ UNCHANGED <<domIds, domIdrefs, tasks>>

DomVisit ==
  /\ Visited < Len(doc)
  /\ VisitDeclared \/ VisitUndeclared

-------------------------------------------------------------------------------
(* Identity constraints over the tree (dom/identity.rs).                   *)

(* The names from below element i down to j, which is in its subtree; the  *)
(* path of i itself is empty.                                              *)
Ancestors(j) ==
  LET up[k \in 0 .. MaxDepth] == IF k = 0 THEN {j} ELSE up[k - 1] \cup {Parent(x) : x \in up[k - 1] \ {0}}
  IN  up[MaxDepth] \ {0}

Within(i) == {j \in DOMAIN doc : i \in Ancestors(j)}

PathFrom(i, j) ==
  LET between == SelectSeq([k \in DOMAIN doc |-> k], LAMBDA k : k \in Ancestors(j) \cap (Within(i) \ {i}))
  IN  [k \in DOMAIN between |-> doc[between[k]].tag.name]

SelectNodes(i, paths) == {j \in Within(i) : \E p \in paths : PathMatches(p, PathFrom(i, j))}

FieldNodes(j, f) ==
  {k \in Within(j) : PathMatches(f, PathFrom(j, k)) /\ (f.attr # None => f.attr \in DOMAIN doc[k].tag.attrs)}

TypeOf(k) == contexts[k].type

(* field_value: absent, a value, or a reason why it is none.  An attribute *)
(* has a value space only directly on the selected element.                *)
FieldValue(j, f) ==
  LET nodes == FieldNodes(j, f)
      k == CHOOSE x \in nodes : TRUE
      direct == ~f.deep /\ f.steps = <<>>
  IN  IF nodes = {} THEN [is |-> "unset"]
      ELSE IF Cardinality(nodes) > 1 THEN [is |-> "multiple"]
      ELSE IF f.attr # None THEN [is |-> "set", value |-> KeyOf(direct /\ IsTyped(TypeOf(k), f.attr), doc[k].tag.attrs[f.attr])]
      ELSE IF TypeOf(k) # None /\ ~HasSimpleValue(TypeOf(k)) THEN [is |-> "not_simple"]
      ELSE [is |-> "set", value |-> KeyOf(HasSimpleValue(TypeOf(k)), doc[k].text)]

FieldsOf(j, c) == [k \in DOMAIN c.fields |-> FieldValue(j, c.fields[k])]

Some(fields, state) == \E k \in DOMAIN fields : fields[k].is = state

Complete(fields) == \A k \in DOMAIN fields : fields[k].is = "set"

(* The complete tuples of a task.                                          *)
TaskTuples(task) ==
  {FieldsOf(j, task[2]) : j \in {x \in SelectNodes(task[1], task[2].selector) : Complete(FieldsOf(x, task[2]))}}

DomKeyErrors(task) ==
  LET selected == SelectNodes(task[1], task[2].selector)
      wrong == \E j \in selected :
                 LET f == FieldsOf(j, task[2])
                 IN  Some(f, "multiple") \/ Some(f, "not_simple") \/ (task[2].kind = "key" /\ Some(f, "unset"))
      twice == \E j, k \in selected : j # k /\ Complete(FieldsOf(j, task[2])) /\ FieldsOf(j, task[2]) = FieldsOf(k, task[2])
  IN  (IF wrong THEN {"field"} ELSE {}) \cup (IF twice THEN {"duplicate"} ELSE {})

Keys == {task \in tasks : task[2].kind # "keyref"}

(* The keys are looked up among all scopes of the name; a keyref whose key *)
(* no element of the document declares is not checked.                     *)
DomKeyrefErrors(task) ==
  LET selected == SelectNodes(task[1], task[2].selector)
      referred == {k \in Keys : k[2].name = task[2].refer}
      table == UNION {TaskTuples(k) : k \in referred}
  IN  IF referred = {} THEN {}
      ELSE (IF \E j \in selected : Some(FieldsOf(j, task[2]), "not_simple") THEN {"field"} ELSE {})
           \cup (IF TaskTuples(task) \subseteq table THEN {} ELSE {"keyref"})

(* What the validator reports after the visit.                             *)
DomFinishErrors ==
  UNION {DomKeyErrors(k) : k \in Keys}
  \cup UNION {DomKeyrefErrors(k) : k \in tasks \ Keys}
  \cup (IF domIdrefs \subseteq domIds THEN {} ELSE {"idref"})

-------------------------------------------------------------------------------
(* Both, one after the other.                                              *)

VARIABLE phase \* "reading", "streamed", "visited"

vars == <<streamVars, domVars, phase>>

Init ==
  /\ InstanceInit
  /\ StreamInit
  /\ DomInit
  /\ phase = "reading"

ReadStart ==
  /\ phase = "reading"
  /\ \E tag \in Offered : StreamStart(tag)
  /\ UNCHANGED <<domVars, phase>>

ReadText ==
  /\ phase = "reading"
  /\ \E text \in schema.texts : StreamText(text)
  /\ UNCHANGED <<domVars, phase>>

ReadEnd ==
  /\ phase = "reading"
  /\ StreamEnd
  /\ UNCHANGED <<domVars, phase>>

(* The end of a well-formed document.                                      *)
StreamFinish ==
  /\ phase = "reading"
  /\ open = <<>> /\ doc # <<>>
  /\ found' = found \cup StreamFinishErrors
  /\ phase' = "streamed"
  /\ UNCHANGED <<instanceVars, identityVars, stack, ids, idrefs, domVars>>

Visit ==
  /\ phase = "streamed"
  /\ DomVisit
  /\ UNCHANGED <<streamVars, phase>>

DomFinish ==
  /\ phase = "streamed"
  /\ Visited = Len(doc)
  /\ domFound' = domFound \cup (DomFinishErrors \X {0})
  /\ phase' = "visited"
  /\ UNCHANGED <<streamVars, contexts, domIds, domIdrefs, tasks>>

(* Both have answered.                                                     *)
Done ==
  /\ phase = "visited"
  /\ UNCHANGED vars

Next == ReadStart \/ ReadText \/ ReadEnd \/ StreamFinish \/ Visit \/ DomFinish \/ Done

Spec == Init /\ [][Next]_vars

-------------------------------------------------------------------------------
(* Properties.                                                             *)

Kinds(errors) == {e[1] : e \in errors}

(* An element that neither its parent's type nor the schema declares, but  *)
(* that names its own type: there the engines differ (README).             *)
KnownByXsiOnly == \E i \in DOMAIN doc : Parent(i) # 0 /\ DeclaredByXsi(i)

DocumentKinds == {"field", "duplicate", "keyref", "idref"}

(* An element too many is the child in one engine and, where children are  *)
(* counted, the parent in the other.                                       *)
Blames(errors) ==
  {IF e[1] = "too_many" /\ Parent(e[2]) # 0 /\ ~HasAutomaton(contexts[Parent(e[2])].type)
   THEN Parent(e[2]) ELSE e[2] : e \in {x \in errors : x[1] \notin DocumentKinds}}

(* On every other document the engines agree, although one judges a child  *)
(* when it opens and the other with all its siblings: one accepts what the *)
(* other does, and where every element is known they find fault with the   *)
(* same elements.                                                          *)
SameJudgement ==
  phase = "visited" /\ ~KnownByXsiOnly =>
    /\ found = {} <=> domFound = {}
    /\ "unknown" \notin Kinds(found \cup domFound) => Blames(found) = Blames(domFound)

(* The tables, filled while scopes open and close and keyrefs precede the  *)
(* keys they refer to, find the violations that the definition of key,     *)
(* unique and keyref finds in the whole tree - of documents that are       *)
(* invalid in other ways as well.                                          *)
IdentityByTree ==
  phase = "visited" => Kinds(found) \cap DocumentKinds = Kinds(domFound) \cap DocumentKinds

==============================================================================
