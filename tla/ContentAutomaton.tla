---------------------------- MODULE ContentAutomaton ----------------------------
(***************************************************************************)
(* The run of a content-model automaton over the children of one element   *)
(* (src/schema/xsd/content_automaton/mod.rs: step_matched, finish), which  *)
(* the DOM validator and the streaming validator share.                    *)
(*                                                                         *)
(* A position is one element or wildcard particle; state 0 is the start    *)
(* and state p is "position p was matched last" (the code's p + 1).  The   *)
(* cursor is a set of configurations <<state, run>>, where run counts the  *)
(* consecutive matches of the position.  Run counts of positions without   *)
(* an upper bound are capped, which keeps the set finite.                  *)
(***************************************************************************)
EXTENDS Integers, FiniteSets, Sequences

CONSTANTS
  Names,       \* expanded names of child elements
  Automata,    \* the automata of the schema's types
  Unbounded,   \* maxOccurs="unbounded"
  MaxChildren  \* bound: children of the element

Bound == Nat \cup {Unbounded}

(* What build_automaton_ns makes.  min and max of a position are at least  *)
(* 1: an optional position is skipped by the transitions, and one with     *)
(* maxOccurs="0" does not exist.                                           *)
IsAutomaton(a) ==
  /\ a.size \in Nat
  /\ a.admits \in [1 .. a.size -> SUBSET Names]
  /\ a.min \in [1 .. a.size -> Nat \ {0}]
  /\ a.max \in [1 .. a.size -> Bound \ {0}]
  /\ a.next \in [0 .. a.size -> SUBSET (1 .. a.size)]
  /\ a.accepting \in SUBSET (0 .. a.size)

ASSUME AutomatonAssumption ==
  /\ Unbounded \notin Nat
  /\ MaxChildren \in Nat
  /\ \A a \in Automata : IsAutomaton(a)

-------------------------------------------------------------------------------
(* Operators on an automaton and a configuration.                          *)

Least(m, n) == IF m <= n THEN m ELSE n

(* An off-by-one: the cap is reached before the minimum.                   *)
NormRunTooLow(a, p, run) ==
  IF a.max[p] = Unbounded THEN Least(run, a.min[p] - 1) ELSE run

(* norm_run: min(run, max(min, 1)), and min is at least 1.                 *)
NormRun(a, p, run) ==
  IF a.max[p] = Unbounded THEN Least(run, a.min[p]) ELSE run

(* The minOccurs is forgotten.                                             *)
MayLeaveEarly(a, c) == TRUE

(* The position left behind has met its minOccurs.                         *)
MayLeave(a, c) == c[1] = 0 \/ c[2] >= a.min[c[1]]

MayRepeat(a, c) == a.max[c[1]] = Unbounded \/ c[2] < a.max[c[1]]

(* The transitions that admit a child named x.                             *)
Admitting(a, c, x) == {t \in a.next[c[1]] : x \in a.admits[t]}

(* step_matched, for one configuration.                                    *)
Successors(a, c, x) ==
  {<<t, 1>> : t \in {u \in Admitting(a, c, x) : u # c[1] /\ MayLeave(a, c)}}
  \cup
  {<<t, NormRun(a, t, c[2] + 1)>> : t \in {u \in Admitting(a, c, x) : u = c[1] /\ MayRepeat(a, c)}}

Step(a, C, x) == UNION {Successors(a, c, x) : c \in C}

(* A repeat was refused for its maxOccurs: blocked_max is set.             *)
Blocked(a, C, x) == \E c \in C : c[1] \in Admitting(a, c, x) /\ ~MayRepeat(a, c)

(* finish                                                                  *)
CanFinish(a, C) == \E c \in C : c[1] \in a.accepting /\ MayLeave(a, c)

(* No state has two transitions for one name that are feasible at once:    *)
(* where the repeats of a position are of a fixed count, the counter tells *)
(* a repeat from a move on.                                                *)
Deterministic(a) ==
  \A s \in 0 .. a.size : \A x, y \in a.next[s] :
    x # y /\ a.admits[x] \cap a.admits[y] # {} => s \in {x, y} /\ a.max[s] = a.min[s]

(* The same without a cap on the run counts: what the cursor stands for.   *)
ExactSuccessors(a, c, x) ==
  {<<t, 1>> : t \in {u \in Admitting(a, c, x) : u # c[1] /\ MayLeave(a, c)}}
  \cup
  {<<t, c[2] + 1>> : t \in {u \in Admitting(a, c, x) : u = c[1] /\ MayRepeat(a, c)}}

ExactStep(a, C, x) == UNION {ExactSuccessors(a, c, x) : c \in C}

-------------------------------------------------------------------------------
VARIABLES
  auto,      \* the automaton of the element's type
  configs,   \* AutomatonState
  children,  \* the names of the children so far
  verdict,   \* "open", or whether the content was found valid at the end
  errors,    \* the kinds of error reported
  exact      \* history: the configurations without the cap

vars == <<auto, configs, children, verdict, errors, exact>>

Start == {<<0, 0>>}

ErrorKinds == {"TooMany", "NotExpected", "Unfinished"}

Init ==
  /\ auto \in Automata
  /\ configs = Start
  /\ children = <<>>
  /\ verdict = "open"
  /\ errors = {}
  /\ exact = Start

(* A child that cannot be placed is reported, and the cursor stays.  (One  *)
(* that is not declared at all is reported as that instead.)               *)
Feed(x) ==
  /\ verdict = "open"
  /\ Len(children) < MaxChildren
  /\ children' = Append(children, x)
  /\ LET next == Step(auto, configs, x)
     IN  IF next # {}
         THEN configs' = next /\ errors' = errors
         ELSE /\ errors' = errors \cup {IF Blocked(auto, configs, x) THEN "TooMany" ELSE "NotExpected"}
              /\ configs' = configs
  /\ LET next == ExactStep(auto, exact, x)
     IN  exact' = IF next # {} THEN next ELSE exact
  /\ UNCHANGED <<auto, verdict>>

(* The end tag: finish, and the element's verdict.                         *)
Finish ==
  /\ verdict = "open"
  /\ errors' = errors \cup (IF CanFinish(auto, configs) THEN {} ELSE {"Unfinished"})
  /\ verdict' = IF errors' = {} THEN "valid" ELSE "invalid"
  /\ UNCHANGED <<auto, configs, children, exact>>

Next == Finish \/ \E x \in Names : Feed(x)

Spec == Init /\ [][Next]_vars

-------------------------------------------------------------------------------
(* Properties.                                                             *)

Configs(a) == (0 .. a.size) \X Nat

(* Every variable has its type.                                            *)
TypeOK ==
  /\ IsAutomaton(auto)
  /\ configs \in SUBSET Configs(auto) /\ configs # {}
  /\ exact \in SUBSET Configs(auto)
  /\ children \in Seq(Names)
  /\ verdict \in {"open", "valid", "invalid"}
  /\ errors \in SUBSET ErrorKinds

(* A configuration with its run capped.                                    *)
Capped(a, c) == IF c[1] = 0 THEN c ELSE <<c[1], NormRun(a, c[1], c[2])>>

(* Normalising the run counts loses nothing (the comment on norm_run:      *)
(* further repeats are indistinguishable): the cursor is the uncapped set  *)
(* of feasible configurations, each one capped, and content may end now    *)
(* with the cursor exactly when it may end with that set.                  *)
CapIsExact ==
  /\ configs = {Capped(auto, c) : c \in exact}
  /\ CanFinish(auto, configs) <=> CanFinish(auto, exact)

(* The cursor stays finite however many children an element has: a run     *)
(* never exceeds the position's bound, or its minimum where it has none.   *)
RunsAreBounded ==
  \A c \in configs :
    /\ c[1] = 0 => c[2] = 0
    /\ c[1] # 0 => /\ c[2] >= 1
                   /\ c[2] <= IF auto.max[c[1]] = Unbounded THEN auto.min[c[1]] ELSE auto.max[c[1]]

(* Over a deterministic automaton "validation is one transition lookup per *)
(* child element": the cursor never has to follow two configurations.      *)
OneConfiguration == Deterministic(auto) => \A c, d \in configs : c = d

==============================================================================
