------------------------------ MODULE Restriction ------------------------------
(***************************************************************************)
(* Whether a content model is a restriction of another                     *)
(* (src/schema/xsd/compiler/restriction: normalize, restrict,              *)
(* recurse_ordered, element_restrict).  A comparison answers "ok",         *)
(* "violation" or "unknown"; only a violation that no unknown took part in *)
(* makes a schema invalid.  And whether attribute uses are                 *)
(* (attribute_restriction.rs).                                             *)
(***************************************************************************)
EXTENDS SimpleTypes

CONSTANTS
  Unbounded,  \* maxOccurs="unbounded"
  TargetNs,   \* the schema's target namespace
  Guessed,    \* an element's namespace, when it is not known
  MaxLength   \* bound: the longest sequences of children that are compared

-------------------------------------------------------------------------------
(* Particles, and the sequences of children they allow.                    *)

(* A particle is an element or wildcard declaration, or a group:           *)
(*   [kind, name, admits, min, max]   with kind "element" or "wildcard"    *)
(*   [kind, items, min, max]    with kind "sequence", "choice" or "all"    *)
(* admits has the names it can be matched by: the element's own, and the   *)
(* members of its substitution group, or those in a wildcard's namespaces. *)
Nothing == [kind |-> "none"]  \* no content model

Once(p) == p.min = 1 /\ p.max = 1

IsLeaf(p) == p.kind \in {"element", "wildcard"}

(* The sequences of up to MaxLength children that p allows.  An            *)
(* alternative that cannot occur is none.                                  *)
Joined(V, W) == {v \o w : <<v, w>> \in {x \in V \X W : Len(x[1]) + Len(x[2]) <= MaxLength}}

RECURSIVE Allowed(_)

InOrder(items) == FoldLeft(LAMBDA V, q : Joined(V, Allowed(q)), {<<>>}, items)

Orders(n) == {f \in [1 .. n -> 1 .. n] : \A i, j \in 1 .. n : f[i] = f[j] => i = j}

AllowedOnce(p) ==
  CASE IsLeaf(p)           -> {<<l>> : l \in p.admits}
    [] p.kind = "sequence" -> InOrder(p.items)
    [] p.kind = "choice"   -> UNION {Allowed(p.items[i]) : i \in {j \in DOMAIN p.items : p.items[j].max # 0}}
    [] p.kind = "all"      -> UNION {InOrder([i \in DOMAIN p.items |-> p.items[f[i]]]) : f \in Orders(Len(p.items))}

(* Repeats beyond one per child change nothing.                            *)
Allowed(p) ==
  LET once == AllowedOnce(p)
      most == IF p.max = Unbounded THEN p.min + MaxLength ELSE p.max
      Again(s, n) == LET more == Joined(s.last, once)
                     IN  [last |-> more, all |-> IF n >= p.min THEN s.all \cup more ELSE s.all]
  IN  FoldLeft(Again, [last |-> {<<>>}, all |-> IF p.min = 0 THEN {<<>>} ELSE {}], [n \in 1 .. most |-> n]).all

RECURSIVE Leaves(_)
Leaves(p) == IF IsLeaf(p) THEN {p} ELSE UNION {Leaves(p.items[i]) : i \in DOMAIN p.items}

RECURSIVE Groups(_)
Groups(p) == IF IsLeaf(p) THEN {} ELSE {p} \cup UNION {Groups(p.items[i]) : i \in DOMAIN p.items}

-------------------------------------------------------------------------------
(* The leaves that are compared say more:                                  *)
(*   elements   [.., name, ns, supers, anonymous, nillable, members]       *)
(*   wildcards  [.., space, uris, strength]                                *)
(* supers are the types an element's type is or derives from, as far as    *)
(* the schema knows, the nearest first; the last of a chain that is known  *)
(* to its end is "anyType".  An element's ns is Guessed when it is a       *)
(* reference to a declaration that is not in the schema.  members is its   *)
(* substitution group.  Fixed values, `block` and union types are left     *)
(* out.                                                                    *)

Below(m, n) == n = Unbounded \/ (m # Unbounded /\ m <= n)

Exactly(p, items) == [kind |-> p, items |-> items, min |-> 1, max |-> 1]

With(p, min, max) == [p EXCEPT !.min = min, !.max = max]

-------------------------------------------------------------------------------
(* Normalization: "pointless" groups are taken away.                       *)

RECURSIVE Normalize(_)

(* Groups of the same kind are spliced in however often they occur.        *)
SplicedAlways(kind, items) ==
  FlattenSeq([i \in DOMAIN items |->
    LET n == Normalize(items[i])
    IN  IF n.max = 0 THEN <<>> ELSE IF n.kind = kind THEN n.items ELSE <<n>>])

(* The normalized items: what cannot occur is gone, and a group of the     *)
(* same kind that occurs once is spliced in.                               *)
Spliced(kind, items) ==
  FlattenSeq([i \in DOMAIN items |->
    LET n == Normalize(items[i])
    IN  IF n.max = 0 THEN <<>>
        ELSE IF n.kind = kind /\ Once(n) THEN n.items
        ELSE <<n>>])

Normalize(p) ==
  IF p.kind \notin {"sequence", "choice"} THEN p
  ELSE LET items == Spliced(p.kind, p.items)
           only  == Head(items)
       IN  IF Len(items) # 1 THEN [p EXCEPT !.items = items]
           ELSE IF Once(p) THEN only
           ELSE IF p.kind = "sequence" /\ only.kind \in {"sequence", "choice"} /\ Once(only)
                THEN With(only, p.min, p.max)
           ELSE [p EXCEPT !.items = items]

RECURSIVE Emptiable(_)
Emptiable(p) ==
  CASE IsLeaf(p)                     -> p.min = 0
    [] p.kind \in {"sequence", "all"} -> p.min = 0 \/ \A i \in DOMAIN p.items : Emptiable(p.items[i])
    [] p.kind = "choice"             -> \/ p.min = 0 \/ p.items = <<>>
                                        \/ \E i \in DOMAIN p.items : Emptiable(p.items[i])

RangeOk(d, b) == d.min >= b.min /\ Below(d.max, b.max)

-------------------------------------------------------------------------------
(* Verdicts.                                                               *)

If(ok) == IF ok THEN "ok" ELSE "violation"

(* One after another: the first that is not ok.  A violation after an      *)
(* unknown is unknown ("definite").                                        *)
AllOf(verdicts) ==
  FoldLeft(LAMBDA u, v : IF u = "ok" THEN v ELSE u, "ok", verdicts)

(* One that is ok is enough.                                               *)
OneOf(verdicts) ==
  IF "ok" \in verdicts THEN "ok"
  ELSE IF "unknown" \in verdicts THEN "unknown" ELSE "violation"

-------------------------------------------------------------------------------
(* Leaves.                                                                 *)

(* type_derivation_ok: the base's type is one the derived type derives     *)
(* from.  Nothing derives from an anonymous type.                          *)
TypeDerivationOk(d, b) ==
  IF b.anonymous THEN "violation"
  ELSE IF Head(b.supers) = "anyType" THEN "ok"
  ELSE IF d.anonymous THEN "unknown"
  ELSE IF Contains(d.supers, Head(b.supers)) THEN "ok"
  ELSE IF Last(d.supers) = "anyType" THEN "violation" ELSE "unknown"

(* element_restrict, rcase-NameAndTypeOK                                   *)
ElementRestrict(d, b) ==
  IF d.name # b.name
  THEN IF d.name \in b.members THEN "unknown" ELSE "violation"
  ELSE IF Guessed \notin {d.ns, b.ns} /\ d.ns # b.ns THEN "violation"
  ELSE IF ~RangeOk(d, b) \/ (d.nillable /\ ~b.nillable) THEN "violation"
  ELSE TypeDerivationOk(d, b)

(* WildcardConstraint::matches                                             *)
Matches(w, ns) ==
  CASE w.space = "any"   -> TRUE
    [] w.space = "other" -> ns \notin {"", TargetNs}
    [] w.space = "list"  -> ns \in w.uris

(* rcase-NSCompat                                                          *)
ElementUnderWildcard(d, b) ==
  IF ~RangeOk(d, b) THEN "violation"
  ELSE IF b.space = "any" THEN "ok"
  ELSE IF d.ns = Guessed THEN "unknown"
  ELSE If(Matches(b, d.ns))

(* Of one target namespace.                                                *)
NamespacesWithin(d, b) ==
  \/ b.space = "any"
  \/ d.space = "other" /\ b.space = "other"
  \/ d.space = "list" /\ \A u \in d.uris : Matches(b, u)

(* rcase-NSSubset                                                          *)
WildcardSubset(d, b) ==
  IF ~RangeOk(d, b) \/ d.strength < b.strength THEN "violation" ELSE If(NamespacesWithin(d, b))

-------------------------------------------------------------------------------
(* Groups.                                                                 *)

Times(m, n) == IF 0 \in {m, n} THEN 0 ELSE IF Unbounded \in {m, n} THEN Unbounded ELSE m * n

Plus(m, n) == IF Unbounded \in {m, n} THEN Unbounded ELSE m + n

Greatest(m, n) == IF Unbounded \in {m, n} THEN Unbounded ELSE IF m >= n THEN m ELSE n

Smallest(S) == CHOOSE x \in S : \A y \in S : x <= y

(* effective_total_range: how many elements p matches, <<least, most>>.    *)
RECURSIVE TotalRange(_)
TotalRange(p) ==
  LET each == [i \in DOMAIN p.items |-> TotalRange(p.items[i])]
  IN  IF IsLeaf(p) THEN <<p.min, p.max>>
      ELSE IF p.kind = "choice"
      THEN <<p.min * (IF each = <<>> THEN 0 ELSE Smallest({each[i][1] : i \in DOMAIN each})),
             Times(p.max, FoldLeft(LAMBDA m, r : Greatest(m, r[2]), 0, each))>>
      ELSE <<p.min * FoldLeft(LAMBDA m, r : m + r[1], 0, each),
             Times(p.max, FoldLeft(LAMBDA m, r : Plus(m, r[2]), 0, each))>>

RECURSIVE Compare(_, _), Recurse(_, _, _)

(* A violation counts although an unknown comparison came before it.       *)
RecurseUntainted(ds, bs, lax) ==
  IF ds = <<>> THEN If(lax \/ \A i \in DOMAIN bs : Emptiable(bs[i]))
  ELSE IF bs = <<>> THEN "violation"
  ELSE LET v == Compare(Head(ds), Head(bs))
       IN  CASE v = "ok"      -> Recurse(Tail(ds), Tail(bs), lax)
             [] v = "unknown" -> IF Recurse(Tail(ds), Tail(bs), lax) = "violation" THEN "violation" ELSE "unknown"
             [] OTHER         -> IF lax \/ Emptiable(Head(bs)) THEN Recurse(ds, Tail(bs), lax)
                                 ELSE "violation"

(* recurse_ordered: the derived items are mapped in order onto base items, *)
(* and what is passed over or left over must be emptiable (unless lax).    *)
Recurse(ds, bs, lax) ==
  IF ds = <<>> THEN If(lax \/ \A i \in DOMAIN bs : Emptiable(bs[i]))
  ELSE IF bs = <<>> THEN "violation"
  ELSE LET v == Compare(Head(ds), Head(bs))
       IN  CASE v = "ok"      -> Recurse(Tail(ds), Tail(bs), lax)
             [] v = "unknown" -> "unknown"
             [] OTHER         -> IF lax \/ Emptiable(Head(bs)) THEN Recurse(ds, Tail(bs), lax)
                                 ELSE "violation"

(* rcase-Recurse within xs:all, and rcase-RecurseUnordered: each derived   *)
(* element takes the first base element of its name that is left, and no   *)
(* required one may be left in the end.                                    *)
ByName(ds, bs) ==
  LET Left(taken, d) == {j \in DOMAIN bs \ taken : d.kind = "element" /\ bs[j].name = d.name}
      Take(s, d) ==
        IF Left(s.taken, d) = {}
        THEN [s EXCEPT !.verdicts = Append(@, "violation")]
        ELSE LET j == Smallest(Left(s.taken, d))
             IN  [taken |-> s.taken \cup {j}, verdicts |-> Append(s.verdicts, ElementRestrict(d, bs[j]))]
      all == FoldLeft(Take, [taken |-> {}, verdicts |-> <<>>], ds)
  IN  AllOf(Append(all.verdicts, If(\A j \in DOMAIN bs \ all.taken : bs[j].min = 0)))

(* rcase-NSRecurseCheckCardinality: the members by namespace only, their   *)
(* number in total.                                                        *)
GroupUnderWildcard(d, b) ==
  LET total == TotalRange(d)
      any   == With(b, 0, Unbounded)
  IN  IF total[1] < b.min \/ ~Below(total[2], b.max) THEN "violation"
      ELSE AllOf([i \in DOMAIN d.items |-> Compare(d.items[i], any)])

(* rcase-MapAndSum                                                         *)
MapAndSum(d, b) ==
  LET n == Len(d.items)
  IN  IF d.min * n < b.min \/ ~Below(IF d.max = Unbounded THEN Unbounded ELSE d.max * n, b.max)
      THEN "violation"
      ELSE AllOf([i \in DOMAIN d.items |->
                    OneOf({Compare(d.items[i], b.items[j]) : j \in DOMAIN b.items})])

(* rcase-RecurseAsIfGroup: an element for a group, wrapped in a group of   *)
(* its own, or directly as one pass through the base's.  Either will do.   *)
AsIfGroup(d, b) ==
  LET wrapped == Compare([Exactly(b.kind, <<With(d, 1, 1)>>) EXCEPT !.min = d.min, !.max = d.max], b)
      direct  == IF b.min > 1 THEN "violation"
                 ELSE IF b.kind = "sequence" THEN Recurse(<<d>>, b.items, FALSE)
                 ELSE OneOf({Compare(d, b.items[j]) : j \in DOMAIN b.items})
  IN  OneOf({wrapped, direct})

Compare(d, b) ==
  LET is == <<d.kind, b.kind>>
  IN  CASE is = <<"element", "element">>   -> ElementRestrict(d, b)
        [] is = <<"element", "wildcard">>  -> ElementUnderWildcard(d, b)
        [] is = <<"wildcard", "wildcard">> -> WildcardSubset(d, b)
        [] is = <<"sequence", "sequence">> -> IF RangeOk(d, b) THEN Recurse(d.items, b.items, FALSE) ELSE "violation"
        [] is = <<"choice", "choice">>     -> IF RangeOk(d, b) THEN Recurse(d.items, b.items, TRUE) ELSE "violation"
        [] is \in {<<"all", "all">>, <<"sequence", "all">>}
                                           -> IF RangeOk(d, b) THEN ByName(d.items, b.items) ELSE "violation"
        [] is \in {<<"element", "sequence">>, <<"element", "choice">>}
                                           -> AsIfGroup(d, b)
        [] is \in {<<"sequence", "element">>, <<"choice", "element">>}
                                           -> Compare(d, Exactly(d.kind, <<b>>))
        [] d.kind \in {"sequence", "choice", "all"} /\ b.kind = "wildcard"
                                           -> GroupUnderWildcard(d, b)
        [] is = <<"sequence", "choice">>   -> MapAndSum(d, b)
        [] is \in {<<"element", "all">>, <<"all", "element">>}
                                           -> "unknown"
        [] OTHER                           -> "violation"

-------------------------------------------------------------------------------
(* check_restriction: a type's own particle, derived by restriction, and   *)
(* its base's effective one, and whether their content is empty.           *)
CheckRestriction(own, ownEmpty, base, baseEmpty) ==
  LET d == Normalize(own)
      b == Normalize(base)
  IN  CASE base = Nothing -> IF baseEmpty /\ own # Nothing /\ ~Emptiable(own) THEN "violation" ELSE "unknown"
        [] base # Nothing /\ own = Nothing
                          -> IF ownEmpty /\ ~Emptiable(base) THEN "violation" ELSE "unknown"
        [] OTHER          -> IF d.max = 0 /\ (Emptiable(b) \/ b.max = 0) THEN "ok" ELSE Compare(d, b)

-------------------------------------------------------------------------------
(* Attribute uses.  A use is compiled to                                   *)
(*   [ref, ns, name, type, required, prohibited, default, fixed]           *)
(* where ref tells a reference to a global attribute, which has no type of *)
(* its own, from a declaration; and a type to [derivation, uses, any].     *)
(* Global declarations are [what, ns, name, type, default, fixed].         *)

SameAttribute(a, b) == a.ns = b.ns /\ a.name = b.name

(* effective: the uses and the wildcard of a type derived along a chain;   *)
(* Absent where two wildcards would have to be united.                     *)
EffectiveKeepingProhibited(chain) ==
  LET Add(base, t) ==
        LET kept == SelectSeq(base.uses, LAMBDA b : \A k \in DOMAIN t.uses : t.uses[k].prohibited \/ ~SameAttribute(t.uses[k], b))
            own  == SelectSeq(t.uses, LAMBDA a : ~a.prohibited)
        IN  IF base = Absent \/ (t.derivation = "extension" /\ Absent \notin {t.any, base.any}) THEN Absent
            ELSE [uses |-> kept \o own, any |-> IF t.derivation = "extension" /\ t.any = Absent THEN base.any ELSE t.any]
  IN  FoldLeft(Add, [uses |-> <<>>, any |-> Absent], chain)

Effective(chain) ==
  LET Add(base, t) ==
        LET kept == SelectSeq(base.uses, LAMBDA b : \A k \in DOMAIN t.uses : ~SameAttribute(t.uses[k], b))
            own  == SelectSeq(t.uses, LAMBDA a : ~a.prohibited)
        IN  IF base = Absent \/ (t.derivation = "extension" /\ Absent \notin {t.any, base.any}) THEN Absent
            ELSE [uses |-> kept \o own, any |-> IF t.derivation = "extension" /\ t.any = Absent THEN base.any ELSE t.any]
  IN  FoldLeft(Add, [uses |-> <<>>, any |-> Absent], chain)

(* same_value: how values of a type are compared, in a value space or as   *)
(* texts; those of an anonymous type are texts.                            *)
ComparedBy(simple, type) ==
  IF type = Absent THEN "text"
  ELSE CASE type.to = "inline"  -> "text"
         [] type.to = "type"    -> LET kind == KindOf(simple, TypeOf(simple, type)) IN IF kind = Absent THEN "text" ELSE kind
         [] type.to = "builtin" -> IF KindNamed(type.name) # Absent THEN KindNamed(type.name)
                                   ELSE IF type.name \in DOMAIN StringTypes THEN "text" ELSE "unknown"

(* Definitely.                                                             *)
AreDifferent(by, v, w) ==
  CASE by = "text"    -> Collapsed(v) # Collapsed(w)
    [] by = "unknown" -> FALSE
    [] OTHER          -> CompareTexts(by, v, w) \in {"<", ">"}

(* resolved                                                                *)
Resolves(globals, d) ==
  d.ref => \E k \in DOMAIN globals : globals[k].what = "attribute" /\ SameAttribute(globals[k], d)

(* check_attribute_restriction: the uses of a type against the effective   *)
(* ones of its base.  References that do not resolve are passed over.      *)
AttributesFit(simple, globals, t, base) ==
  base # Absent =>
    /\ \A k \in DOMAIN t.uses :
         LET d  == t.uses[k]
             is == {j \in DOMAIN base.uses : SameAttribute(d, base.uses[j])}
             b  == base.uses[Min(is)]
         IN  IF is = {} THEN d.prohibited \/ ~Resolves(globals, d) \/ (base.any # Absent /\ Matches(base.any, d.ns))
             ELSE /\ b.required => d.required /\ ~d.prohibited
                  /\ ~d.prohibited /\ b.fixed # Absent =>
                       d.fixed # Absent /\ ~AreDifferent(ComparedBy(simple, b.type), d.fixed, b.fixed)
    /\ t.any # Absent =>
         base.any # Absent /\ (t.any.strength >= base.any.strength /\ NamespacesWithin(t.any, base.any))

==============================================================================
