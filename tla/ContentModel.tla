----------------------------- MODULE ContentModel -----------------------------
(***************************************************************************)
(* The content-model automaton of a particle tree                          *)
(* (src/schema/xsd/content_automaton/mod.rs: Builder, glushkov,            *)
(* build_automaton_ns, check_upa) against what the tree means: which       *)
(* sequences of children XML Schema allows.                                *)
(*                                                                         *)
(* Leaves keep their occurrence bounds as a counter; a group's bounds are  *)
(* expanded into copies, up to a cap beyond which they are left open.      *)
(***************************************************************************)
EXTENDS ContentAutomaton, SequencesExt

CONSTANTS
  Particles,  \* the content models of the schema's types
  ExpandCap   \* EXPAND_CAP

(* A particle is an element or wildcard declaration, or a group:           *)
(*   [kind, name, admits, min, max]   with kind "element" or "wildcard"    *)
(*   [kind, items, min, max]          with kind "sequence" or "choice"     *)
(* admits has the names it can be matched by: the element's own, and the   *)
(* members of its substitution group, or those in a wildcard's namespaces. *)
IsLeaf(p) == p.kind \in {"element", "wildcard"}

-------------------------------------------------------------------------------
(* Glushkov sets of a part of the tree, its positions and the next         *)
(* particle id.  glushkov(node) by the node's kind:                        *)

Empty(id) ==
  [nullable |-> TRUE, first |-> {}, last |-> {}, follow |-> {}, leaves |-> <<>>, id |-> id]

Then(f, g) ==
  [nullable |-> f.nullable /\ g.nullable,
   first    |-> f.first \cup (IF f.nullable THEN g.first ELSE {}),
   last     |-> g.last \cup (IF g.nullable THEN f.last ELSE {}),
   follow   |-> f.follow \cup g.follow \cup (f.last \X g.first),
   leaves   |-> f.leaves \o g.leaves,
   id       |-> g.id]

Or(f, g) ==
  [nullable |-> f.nullable \/ g.nullable,
   first    |-> f.first \cup g.first,
   last     |-> f.last \cup g.last,
   follow   |-> f.follow \cup g.follow,
   leaves   |-> f.leaves \o g.leaves,
   id       |-> g.id]

Optional(f) == [f EXCEPT !.nullable = TRUE]

Star(f) == [f EXCEPT !.nullable = TRUE, !.follow = @ \cup (f.last \X f.first)]

(* leaf_element, leaf_wildcard: one position, with a particle id if it is  *)
(* an element's.                                                           *)
LeafParts(p, pos, id) ==
  IF p.max = 0
  THEN Empty(id)
  ELSE [nullable |-> p.min = 0,
        first    |-> {pos},
        last     |-> {pos},
        follow   |-> {},
        leaves   |-> <<[admits |-> p.admits, min |-> IF p.min = 0 THEN 1 ELSE p.min, max |-> p.max,
                        kind |-> p.kind, name |-> p.name, particle |-> id]>>,
        id       |-> IF p.kind = "element" THEN id + 1 ELSE id]

RECURSIVE Build(_, _, _)

(* build_once: one occurrence, its positions numbered from pos.            *)
BuildOnce(p, pos, id) ==
  IF IsLeaf(p) THEN LeafParts(p, pos, id)
  ELSE IF p.items = <<>> THEN Empty(id)
  ELSE LET Add(f, q) ==
             LET g == Build(q, pos + Len(f.leaves), f.id)
             IN  IF p.kind = "sequence" THEN Then(f, g) ELSE Or(f, g)
       IN  FoldLeft(Add, [Empty(id) EXCEPT !.nullable = p.kind = "sequence"], p.items)

(* The copy of a group that begins k copies later: the same particles, with *)
(* their ids, at positions of their own.                                   *)
Copy(f, k) ==
  LET n == k * Len(f.leaves)
  IN  [f EXCEPT !.first  = {q + n : q \in @},
                !.last   = {q + n : q \in @},
                !.follow = {<<e[1] + n, e[2] + n>> : e \in @}]

(* n copies one after another, the first of them copy k.                   *)
Copies(f, k, n) ==
  FoldLeft(LAMBDA g, i : Then(g, Copy(f, k + i)), Empty(f.id), [i \in 1 .. n |-> i - 1])

(* G (G (G)?)?, inside an optional part                                    *)
OptionalCopies(f, k, n) ==
  FoldLeft(LAMBDA g, i : Optional(Then(Copy(f, k + n - i), g)), Empty(f.id), [i \in 1 .. n |-> i])

(* Beyond the cap the rest is not left open.                               *)
CopiesAfterTight(p, f, k) ==
  LET capped == p.min > ExpandCap
      extra  == IF p.max = Unbounded THEN 0 ELSE p.max - p.min
  IN  CASE p.max = Unbounded                          -> Star(Copy(f, k))
        [] extra > 0 /\ ~capped /\ extra <= ExpandCap -> OptionalCopies(f, k, extra)
        [] extra > ExpandCap                          -> Star(Copy(f, k))
        [] OTHER                                      -> Empty(f.id)

(* What follows the k required copies of a group.                          *)
CopiesAfter(p, f, k) ==
  LET capped == p.min > ExpandCap
      extra  == IF p.max = Unbounded THEN 0 ELSE p.max - p.min
  IN  CASE p.max = Unbounded                          -> Star(Copy(f, k))
        [] extra > 0 /\ ~capped /\ extra <= ExpandCap -> OptionalCopies(f, k, extra)
        [] capped \/ extra > ExpandCap                -> Star(Copy(f, k))
        [] OTHER                                      -> Empty(f.id)

(* build: with the bounds of a group.                                      *)
Build(p, pos, id) ==
  LET once     == BuildOnce(p, pos, id)
      required == Least(p.min, ExpandCap)
      all      == Then(Copies(once, 0, required), CopiesAfter(p, once, required))
  IN  IF IsLeaf(p) THEN once
      ELSE IF p.max = 0 THEN Empty(id)
      ELSE IF p.min = 0 THEN Optional(all) ELSE all

-------------------------------------------------------------------------------
(* The counter is trusted to tell a repeat from a move on, always.         *)
ViolatesUpaBesideRepeats(leaves, a) ==
  \E s \in 0 .. a.size, x, y \in 1 .. a.size :
    /\ x # y /\ {x, y} \subseteq a.next[s] \ {s}
    /\ leaves[x].kind = "element" /\ leaves[y].kind = "element"
    /\ leaves[x].particle # leaves[y].particle
    /\ leaves[x].name = leaves[y].name

(* check_upa: two element transitions of one state, of different particles *)
(* with the same declared name.  With min = max the counter tells a repeat *)
(* from a move on.                                                         *)
ViolatesUpa(leaves, a) ==
  \E s \in 0 .. a.size, x, y \in 1 .. a.size :
    /\ x # y /\ {x, y} \subseteq a.next[s]
    /\ ~ (s \in {x, y} /\ a.max[s] = a.min[s])
    /\ leaves[x].kind = "element" /\ leaves[y].kind = "element"
    /\ leaves[x].particle # leaves[y].particle
    /\ leaves[x].name = leaves[y].name

(* A position that can follow itself through its group loses its upper     *)
(* bound.                                                                  *)
UpperBound(f, q) == IF <<q, q>> \in f.follow THEN Unbounded ELSE f.leaves[q].max

(* build_automaton_ns                                                      *)
AutomatonOf(p) ==
  LET f == Build(p, 1, 0)
      n == Len(f.leaves)
      a == [size      |-> n,
            admits    |-> [q \in 1 .. n |-> f.leaves[q].admits],
            min       |-> [q \in 1 .. n |-> f.leaves[q].min],
            max       |-> [q \in 1 .. n |-> UpperBound(f, q)],
            next      |-> [s \in 0 .. n |->
                             IF s = 0 THEN f.first
                             ELSE {q \in 1 .. n : <<s, q>> \in f.follow}
                                  \cup (IF UpperBound(f, s) # 1 THEN {s} ELSE {})],
            accepting |-> f.last \cup (IF f.nullable THEN {0} ELSE {}),
            particle  |-> [q \in 1 .. n |-> IF f.leaves[q].kind = "element" THEN f.leaves[q].particle ELSE -1]]
  IN  [size |-> n, admits |-> a.admits, min |-> a.min, max |-> a.max, next |-> a.next,
       accepting |-> a.accepting, particle |-> a.particle, upa |-> ViolatesUpa(f.leaves, a)]

-------------------------------------------------------------------------------
(* What a particle allows: Ends(p, w, I) are the places in w where an      *)
(* occurrence (with its bounds) can end that began at a place in I.        *)

RECURSIVE Ends(_, _, _)

EndsOnce(p, w, I) ==
  CASE IsLeaf(p)            -> {i + 1 : i \in {j \in I : j < Len(w) /\ w[j + 1] \in p.admits}}
    [] p.kind = "sequence"  -> FoldLeft(LAMBDA J, q : Ends(q, w, J), I, p.items)
    [] p.kind = "choice"    -> UNION {Ends(p.items[i], w, I) : i \in DOMAIN p.items}

(* Repeats beyond one per child change nothing.                            *)
Ends(p, w, I) ==
  LET most == IF p.max = Unbounded THEN p.min + Len(w) ELSE p.max
      after[n \in 0 .. most] == IF n = 0 THEN I ELSE EndsOnce(p, w, after[n - 1])
  IN  UNION {after[n] : n \in p.min .. most}

Allows(p, w) == Len(w) \in Ends(p, w, {0})

RECURSIVE Leaves(_)
Leaves(p) == IF IsLeaf(p) THEN {p} ELSE UNION {Leaves(p.items[i]) : i \in DOMAIN p.items}

RECURSIVE Groups(_)
Groups(p) == IF IsLeaf(p) THEN {} ELSE {p} \cup UNION {Groups(p.items[i]) : i \in DOMAIN p.items}

-------------------------------------------------------------------------------
(* The children of an element with content model `particle`.               *)

VARIABLE particle

ModelInit ==
  /\ particle \in Particles
  /\ auto = AutomatonOf(particle)
  /\ configs = Start /\ exact = Start
  /\ children = <<>> /\ verdict = "open" /\ errors = {}

ModelNext == Next /\ UNCHANGED particle

ModelSpec == ModelInit /\ [][ModelNext]_<<vars, particle>>

-------------------------------------------------------------------------------
(* Properties.                                                             *)

(* Where the automaton may accept too much: a group beyond the cap, a leaf *)
(* that follows itself through a repeated group, and a choice whose        *)
(* branches include a prohibited particle.                                 *)
Lenient ==
  \/ \E g \in Groups(particle) :
       \/ g.min > ExpandCap
       \/ g.max # Unbounded /\ g.max - g.min > ExpandCap
       \/ g.kind = "choice" /\ \E i \in DOMAIN g.items : g.items[i].max = 0
  \/ /\ \E q \in 1 .. auto.size : auto.min[q] > 1 /\ q \in auto.next[q] /\ auto.max[q] = Unbounded
     /\ \E g \in Groups(particle), l \in Leaves(particle) :
          g.max = Unbounded /\ l \in Leaves(g) /\ l.min > 1 /\ l.max # Unbounded

(* Content the schema allows is never reported, whatever was expanded,     *)
(* capped or left open: "lenient, never a false error".  And where nothing *)
(* is left open, content found valid is allowed.                           *)
ExactUnlessLenient ==
  /\ verdict = "invalid" => ~Allows(particle, children)
  /\ verdict = "valid" /\ ~Lenient => Allows(particle, children)

(* Only element particles, with no substitution groups.                    *)
Plain == \A l \in Leaves(particle) : l.kind = "element" /\ l.admits = {l.name}

(* A leaf takes child j + 1 of w: Takers(p, at, w, I) are the pairs of such *)
(* a j and the leaf's place in the tree, over all readings of w by p (with *)
(* its bounds) that begin at a place in I, whether or not they can end.    *)
RECURSIVE Takers(_, _, _, _)

TakersOnce(p, at, w, I) ==
  CASE IsLeaf(p) -> {<<j, at>> : j \in {i \in I : i < Len(w) /\ w[i + 1] \in p.admits}}
    [] p.kind = "choice" ->
         UNION {Takers(p.items[i], Append(at, i), w, I) : i \in DOMAIN p.items}
    [] p.kind = "sequence" ->
         UNION {Takers(p.items[i], Append(at, i), w,
                       FoldLeft(LAMBDA J, q : Ends(q, w, J), I, SubSeq(p.items, 1, i - 1))) :
                  i \in DOMAIN p.items}

Takers(p, at, w, I) ==
  LET most == IF p.max = Unbounded THEN p.min + Len(w) ELSE p.max
      after[n \in 0 .. most] == IF n = 0 THEN I ELSE EndsOnce(p, w, after[n - 1])
  IN  UNION {TakersOnce(p, at, w, after[n]) : n \in 0 .. (most - 1)}

(* XML Schema's rule is broken: after some children, two particles of the  *)
(* tree can each take the next one.  Repeats of a group are no particles   *)
(* of their own.                                                           *)
Ambiguous(p) ==
  \E w \in [1 .. MaxChildren -> Names] :
    \E t, u \in Takers(p, <<>>, w, {0}) : t[1] = u[1] /\ t[2] # u[2]

(* Beyond the cap the last copy of a group may always follow itself.       *)
LeftOpen == \E g \in Groups(particle) : g.min > ExpandCap

(* In a group that occurs exactly n > 1 times, a part that itself occurs a *)
(* variable number of times: its next occurrence may be of this copy of    *)
(* the group or the next, which the ids of the copies do not tell apart.   *)
LosesCount ==
  \E g \in Groups(particle) :
    /\ g.min = g.max /\ g.max > 1
    /\ \E q \in Leaves(g) \cup (Groups(g) \ {g}) : q.max # q.min /\ q.max # 1

(* check_upa, which looks only at the transitions of single states and     *)
(* takes the copies of a particle for one, reports a content model exactly *)
(* when it is ambiguous by what its particles mean, copied groups included; *)
(* except that it may report an unambiguous one whose group is left open   *)
(* beyond the cap, and may miss one where a copied group loses count.      *)
UpaIsAmbiguity ==
  Plain /\ children = <<>> =>
    /\ auto.upa /\ ~LeftOpen => Ambiguous(particle)
    /\ Ambiguous(particle) /\ ~LosesCount => auto.upa

==============================================================================
