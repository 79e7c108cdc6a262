------------------------- MODULE ContentAutomatonProofs -------------------------
(***************************************************************************)
(* What holds of the run of every content-model automaton, whatever its    *)
(* size, its occurrence bounds and the number of children.                 *)
(***************************************************************************)
EXTENDS ContentAutomaton, TLAPS

-------------------------------------------------------------------------------
(* Facts about one configuration.                                          *)

(* The successors of a configuration are configurations, with a run within *)
(* the bounds of their position.                                           *)
Bounded(a, c) ==
  /\ c[1] = 0 => c[2] = 0
  /\ c[1] # 0 => /\ c[2] >= 1
                 /\ c[2] <= IF a.max[c[1]] = Unbounded THEN a.min[c[1]] ELSE a.max[c[1]]

LEMMA NormRunBounds ==
  ASSUME NEW a, IsAutomaton(a), NEW p \in 1 .. a.size, NEW r \in Nat, r >= 1
  PROVE  /\ NormRun(a, p, r) \in Nat
         /\ NormRun(a, p, r) >= 1
         /\ a.max[p] = Unbounded => NormRun(a, p, r) <= a.min[p]
         /\ a.max[p] # Unbounded => NormRun(a, p, r) = r
BY DEF NormRun, Least, IsAutomaton

LEMMA SuccessorsType ==
  ASSUME NEW a, IsAutomaton(a), NEW c \in Configs(a), NEW x, NEW d \in Successors(a, c, x)
  PROVE  d \in Configs(a) /\ Bounded(a, d)
<1>1. c[1] \in 0 .. a.size /\ c[2] \in Nat
  BY DEF Configs
<1>2. Admitting(a, c, x) \subseteq 1 .. a.size
  BY <1>1 DEF Admitting, IsAutomaton
<1>3. CASE \E t \in Admitting(a, c, x) : d = <<t, 1>>
  <2>1. PICK t \in Admitting(a, c, x) : d = <<t, 1>>
    BY <1>3
  <2>2. t \in 1 .. a.size /\ d[1] = t /\ d[2] = 1 /\ t \in 0 .. a.size /\ t # 0
    BY <2>1, <1>2
  <2>3. a.min[t] \in Nat \ {0} /\ a.max[t] \in (Nat \cup {Unbounded}) \ {0}
    BY <2>2 DEF IsAutomaton, Bound
  <2> QED BY <2>1, <2>2, <2>3 DEF Bounded, Configs
<1>4. CASE \E t \in Admitting(a, c, x) : t = c[1] /\ MayRepeat(a, c) /\ d = <<t, NormRun(a, t, c[2] + 1)>>
  <2>1. PICK t \in Admitting(a, c, x) : t = c[1] /\ MayRepeat(a, c) /\ d = <<t, NormRun(a, t, c[2] + 1)>>
    BY <1>4
  <2>2. t \in 1 .. a.size /\ t \in 0 .. a.size /\ t # 0
    BY <2>1, <1>2
  <2>3. a.min[t] \in Nat \ {0} /\ a.max[t] \in (Nat \cup {Unbounded}) \ {0}
    BY <2>2 DEF IsAutomaton, Bound
  <2>4. c[2] + 1 \in Nat /\ c[2] + 1 >= 1
    BY <1>1
  <2>5. /\ NormRun(a, t, c[2] + 1) \in Nat /\ NormRun(a, t, c[2] + 1) >= 1
        /\ a.max[t] = Unbounded => NormRun(a, t, c[2] + 1) <= a.min[t]
        /\ a.max[t] # Unbounded => NormRun(a, t, c[2] + 1) = c[2] + 1
    BY <2>2, <2>4, NormRunBounds
  <2>6. a.max[t] # Unbounded => c[2] < a.max[t]
    BY <2>1 DEF MayRepeat
  <2>7. d[1] = t /\ d[2] = NormRun(a, t, c[2] + 1)
    BY <2>1
  <2>8. a.max[t] # Unbounded => d[2] <= a.max[t]
    BY <2>3, <2>5, <2>6, <2>7, <1>1
  <2>9. d \in Configs(a)
    BY <2>1, <2>2, <2>5 DEF Configs
  <2> QED BY <2>2, <2>5, <2>7, <2>8, <2>9 DEF Bounded
<1> QED BY <1>3, <1>4 DEF Successors

LEMMA ExactSuccessorsType ==
  ASSUME NEW a, IsAutomaton(a), NEW c \in Configs(a), NEW x, NEW d \in ExactSuccessors(a, c, x)
  PROVE  d \in Configs(a)
<1>1. c[1] \in 0 .. a.size /\ c[2] \in Nat
  BY DEF Configs
<1>2. Admitting(a, c, x) \subseteq 0 .. a.size
  BY <1>1 DEF Admitting, IsAutomaton
<1>3. c[2] + 1 \in Nat
  BY <1>1
<1> QED BY <1>2, <1>3 DEF ExactSuccessors, Configs

(* A capped run meets the minimum and the maximum as the real one does.    *)
LEMMA CapKeepsGuards ==
  ASSUME NEW a, IsAutomaton(a), NEW c \in Configs(a)
  PROVE  /\ Capped(a, c)[1] = c[1]
         /\ MayLeave(a, Capped(a, c)) <=> MayLeave(a, c)
         /\ MayRepeat(a, Capped(a, c)) <=> MayRepeat(a, c)
<1>1. c[1] \in 0 .. a.size /\ c[2] \in Nat /\ a.size \in Nat
  BY DEF Configs, IsAutomaton
<1>2. CASE c[1] = 0
  BY <1>2 DEF Capped
<1>3. CASE c[1] # 0
  <2>1. c[1] \in 1 .. a.size
    BY <1>1, <1>3
  <2>2. a.min[c[1]] \in Nat \ {0}
    BY <2>1 DEF IsAutomaton
  <2>3. Capped(a, c)[1] = c[1] /\ Capped(a, c)[2] = NormRun(a, c[1], c[2])
    BY <1>3 DEF Capped
  <2>4. NormRun(a, c[1], c[2]) >= a.min[c[1]] <=> c[2] >= a.min[c[1]]
    BY <1>1, <2>2 DEF NormRun, Least
  <2>5. a.max[c[1]] # Unbounded => NormRun(a, c[1], c[2]) = c[2]
    BY DEF NormRun
  <2> QED BY <1>3, <2>3, <2>4, <2>5 DEF MayLeave, MayRepeat
<1> QED BY <1>2, <1>3

(* Capping before or after a repeat is the same.                           *)
LEMMA CapOfRepeat ==
  ASSUME NEW a, IsAutomaton(a), NEW c \in Configs(a), c[1] # 0
  PROVE  Capped(a, <<c[1], c[2] + 1>>) = <<c[1], NormRun(a, c[1], Capped(a, c)[2] + 1)>>
<1>1. c[1] \in 1 .. a.size /\ c[2] \in Nat
  BY DEF Configs, IsAutomaton
<1>2. a.min[c[1]] \in Nat \ {0}
  BY <1>1 DEF IsAutomaton
<1>3. Capped(a, c)[2] = NormRun(a, c[1], c[2])
  BY DEF Capped
<1>4. NormRun(a, c[1], NormRun(a, c[1], c[2]) + 1) = NormRun(a, c[1], c[2] + 1)
  BY <1>1, <1>2 DEF NormRun, Least
<1> QED BY <1>3, <1>4 DEF Capped

LEMMA CapOfFirst ==
  ASSUME NEW a, IsAutomaton(a), NEW t \in 1 .. a.size
  PROVE  Capped(a, <<t, 1>>) = <<t, 1>>
<1>1. a.min[t] \in Nat \ {0} /\ t # 0
  BY DEF IsAutomaton
<1> QED BY <1>1 DEF Capped, NormRun, Least

(* The step of a capped configuration is the capped step.                  *)
LEMMA CapCommutes ==
  ASSUME NEW a, IsAutomaton(a), NEW c \in Configs(a), NEW x
  PROVE  Successors(a, Capped(a, c), x) = {Capped(a, d) : d \in ExactSuccessors(a, c, x)}
<1> DEFINE k == Capped(a, c)
           A == Admitting(a, c, x)
<1>1. k[1] = c[1] /\ (MayLeave(a, k) <=> MayLeave(a, c)) /\ (MayRepeat(a, k) <=> MayRepeat(a, c))
  BY CapKeepsGuards
<1>2. Admitting(a, k, x) = A
  BY <1>1 DEF Admitting
<1>3. A \subseteq 1 .. a.size
  BY DEF Admitting, IsAutomaton, Configs
<1>4. \A t \in A : Capped(a, <<t, 1>>) = <<t, 1>>
  BY <1>3, CapOfFirst
<1>5. c[1] \in A => Capped(a, <<c[1], c[2] + 1>>) = <<c[1], NormRun(a, c[1], k[2] + 1)>>
  BY <1>3, CapOfRepeat
<1> DEFINE L  == {u \in A : u # c[1] /\ MayLeave(a, c)}
           R  == {u \in A : u = c[1] /\ MayRepeat(a, c)}
<1>6. Successors(a, k, x) = {<<t, 1>> : t \in L} \cup {<<t, NormRun(a, t, k[2] + 1)>> : t \in R}
  BY <1>1, <1>2 DEF Successors
<1>7. ExactSuccessors(a, c, x) = {<<t, 1>> : t \in L} \cup {<<t, c[2] + 1>> : t \in R}
  BY DEF ExactSuccessors
<1>8. \A t \in L : Capped(a, <<t, 1>>) = <<t, 1>>
  BY <1>4
<1>9. \A t \in R : Capped(a, <<t, c[2] + 1>>) = <<t, NormRun(a, t, k[2] + 1)>>
  BY <1>5
<1>10. {Capped(a, d) : d \in ExactSuccessors(a, c, x)}
         = {Capped(a, <<t, 1>>) : t \in L} \cup {Capped(a, <<t, c[2] + 1>>) : t \in R}
  <2> HIDE DEF L, R
  <2> QED BY <1>7
<1>11. {Capped(a, <<t, 1>>) : t \in L} = {<<t, 1>> : t \in L}
  <2> HIDE DEF L, R
  <2> QED BY <1>8
<1>12. {Capped(a, <<t, c[2] + 1>>) : t \in R} = {<<t, NormRun(a, t, k[2] + 1)>> : t \in R}
  <2> HIDE DEF L, R, k
  <2> QED BY <1>9
<1> QED BY <1>6, <1>10, <1>11, <1>12

LEMMA StepCommutes ==
  ASSUME NEW a, IsAutomaton(a), NEW E \in SUBSET Configs(a), NEW x
  PROVE  Step(a, {Capped(a, c) : c \in E}, x) = {Capped(a, d) : d \in ExactStep(a, E, x)}
<1>1. \A c \in E : Successors(a, Capped(a, c), x) = {Capped(a, d) : d \in ExactSuccessors(a, c, x)}
  BY CapCommutes
<1> QED BY <1>1 DEF Step, ExactStep

(* In a deterministic automaton a child has one place to go.               *)
LEMMA OneSuccessor ==
  ASSUME NEW a, IsAutomaton(a), Deterministic(a), NEW c \in Configs(a), NEW x \in Names,
         NEW d \in Successors(a, c, x), NEW e \in Successors(a, c, x)
  PROVE  d = e
<1>1. c[1] \in 0 .. a.size /\ c[2] \in Nat
  BY DEF Configs
<1> DEFINE Goes(f, t) ==
      \/ t # c[1] /\ MayLeave(a, c) /\ f = <<t, 1>>
      \/ t = c[1] /\ MayRepeat(a, c) /\ f = <<t, NormRun(a, t, c[2] + 1)>>
<1>2. PICK t \in Admitting(a, c, x) : Goes(d, t)
  BY DEF Successors
<1>3. PICK u \in Admitting(a, c, x) : Goes(e, u)
  BY DEF Successors
<1>4. CASE t = u
  BY <1>2, <1>3, <1>4
<1>5. CASE t # u
  <2>1. t \in a.next[c[1]] /\ u \in a.next[c[1]] /\ x \in a.admits[t] \cap a.admits[u]
    BY DEF Admitting
  <2>2. c[1] \in {t, u} /\ a.max[c[1]] = a.min[c[1]]
    BY <1>1, <1>5, <2>1 DEF Deterministic
  <2>3. t \in 1 .. a.size /\ u \in 1 .. a.size
    BY <1>1, <2>1 DEF IsAutomaton
  <2>4. c[1] \in 1 .. a.size /\ c[1] # 0
    BY <2>2, <2>3
  <2>5. a.min[c[1]] \in Nat /\ Unbounded \notin Nat
    BY <2>4, AutomatonAssumption DEF IsAutomaton
  <2>6. MayLeave(a, c) /\ MayRepeat(a, c)
    BY <1>2, <1>3, <1>5, <2>2
  <2>7. c[2] >= a.min[c[1]] /\ c[2] < a.min[c[1]]
    BY <2>2, <2>4, <2>5, <2>6 DEF MayLeave, MayRepeat
  <2> QED BY <1>1, <2>5, <2>7
<1> QED BY <1>4, <1>5

-------------------------------------------------------------------------------
(* The invariant: the cursor is the capped set, which the types, the       *)
(* bounds and uniqueness of its configurations follow from step by step.   *)

CursorIsCapped == configs = {Capped(auto, c) : c \in exact}

IInv == TypeOK /\ RunsAreBounded /\ CursorIsCapped /\ OneConfiguration

LEMMA InitIInv == Init => IInv
<1> SUFFICES ASSUME Init PROVE IInv
  OBVIOUS
<1>1. IsAutomaton(auto) /\ auto.size \in Nat
  BY AutomatonAssumption DEF Init, IsAutomaton
<1>2. <<0, 0>> \in Configs(auto)
  BY <1>1 DEF Configs
<1>3. TypeOK
  BY <1>1, <1>2 DEF Init, Start, TypeOK
<1>4. RunsAreBounded
  BY DEF Init, Start, RunsAreBounded
<1>5. CursorIsCapped
  BY DEF Init, Start, CursorIsCapped, Capped
<1>6. OneConfiguration
  BY DEF Init, Start, OneConfiguration
<1> QED BY <1>3, <1>4, <1>5, <1>6 DEF IInv

LEMMA FeedIInv ==
  ASSUME IInv, NEW x \in Names, Feed(x)
  PROVE  IInv'
<1> DEFINE C == Step(auto, configs, x)
           E == ExactStep(auto, exact, x)
<1>1. /\ IsAutomaton(auto) /\ auto' = auto
      /\ configs \in SUBSET Configs(auto) /\ configs # {} /\ exact \in SUBSET Configs(auto)
  BY DEF IInv, TypeOK, Feed
<1>2. C = {Capped(auto, d) : d \in E}
  BY <1>1, StepCommutes DEF IInv, CursorIsCapped
<1>3. C # {} <=> E # {}
  BY <1>2
<1>4. configs' = IF C # {} THEN C ELSE configs
  BY DEF Feed
<1>5. exact' = IF E # {} THEN E ELSE exact
  BY DEF Feed
<1>6. \A d \in C : d \in Configs(auto) /\ Bounded(auto, d)
  BY <1>1, SuccessorsType DEF Step
<1>7. \A d \in E : d \in Configs(auto)
  BY <1>1, ExactSuccessorsType DEF ExactStep
<1>8. TypeOK'
  <2>1. IsAutomaton(auto')
    BY <1>1
  <2>2. configs' \in SUBSET Configs(auto') /\ configs' # {}
    BY <1>1, <1>4, <1>6
  <2>3. exact' \in SUBSET Configs(auto')
    BY <1>1, <1>5, <1>7
  <2>4. children' \in Seq(Names)
    BY DEF IInv, TypeOK, Feed
  <2>5. verdict' \in {"open", "valid", "invalid"}
    BY DEF IInv, TypeOK, Feed
  <2>6. errors' \in SUBSET ErrorKinds
    BY DEF IInv, TypeOK, Feed, ErrorKinds
  <2> QED BY <2>1, <2>2, <2>3, <2>4, <2>5, <2>6 DEF TypeOK
<1>9. RunsAreBounded'
  BY <1>1, <1>4, <1>6 DEF IInv, RunsAreBounded, Bounded
<1>10. CursorIsCapped'
  <2>1. CASE C # {}
    BY <1>1, <1>2, <1>3, <1>4, <1>5, <2>1 DEF CursorIsCapped
  <2>2. CASE C = {}
    BY <1>1, <1>3, <1>4, <1>5, <2>2 DEF IInv, CursorIsCapped
  <2> QED BY <2>1, <2>2
<1>11. OneConfiguration'
  <2> SUFFICES ASSUME Deterministic(auto), NEW d \in configs', NEW e \in configs'
               PROVE  d = e
    BY <1>1 DEF OneConfiguration
  <2>1. \A b, c \in configs : b = c
    BY DEF IInv, OneConfiguration
  <2>2. CASE C = {}
    BY <1>4, <2>1, <2>2
  <2>3. CASE C # {}
    <3>1. PICK b \in configs, c \in configs : d \in Successors(auto, b, x) /\ e \in Successors(auto, c, x)
      BY <1>4, <2>3 DEF Step
    <3>2. b = c /\ b \in Configs(auto)
      BY <1>1, <2>1
    <3> QED BY <1>1, <3>1, <3>2, OneSuccessor
  <2> QED BY <2>2, <2>3
<1> QED BY <1>8, <1>9, <1>10, <1>11 DEF IInv

LEMMA NextIInv == IInv /\ [Next]_vars => IInv'
<1> SUFFICES ASSUME IInv, [Next]_vars PROVE IInv'
  OBVIOUS
<1>1. CASE \E x \in Names : Feed(x)
  BY <1>1, FeedIInv
<1>2. CASE Finish
  <2>1. UNCHANGED <<auto, configs, children, exact>>
    BY <1>2 DEF Finish
  <2>2. verdict' \in {"open", "valid", "invalid"} /\ errors' \in SUBSET ErrorKinds
    BY <1>2 DEF Finish, IInv, TypeOK, ErrorKinds
  <2> QED BY <2>1, <2>2 DEF IInv, TypeOK, RunsAreBounded, CursorIsCapped, OneConfiguration
<1>3. CASE UNCHANGED vars
  BY <1>3 DEF vars, IInv, TypeOK, RunsAreBounded, CursorIsCapped, OneConfiguration
<1> QED BY <1>1, <1>2, <1>3 DEF Next

LEMMA InvariantHolds == Spec => []IInv
BY InitIInv, NextIInv, PTL DEF Spec

(* Every variable keeps its type; the cursor always has a configuration.   *)
THEOREM TypeCorrect == Spec => []TypeOK
<1>1. IInv => TypeOK
  BY DEF IInv
<1> QED BY <1>1, InvariantHolds, PTL

(* The cursor's runs never leave the bounds of their positions, however    *)
(* many children are fed (norm_run keeps AutomatonState finite).           *)
THEOREM BoundedRuns == Spec => []RunsAreBounded
<1>1. IInv => RunsAreBounded
  BY DEF IInv
<1> QED BY <1>1, InvariantHolds, PTL

(* norm_run changes no verdict: the cursor always stands for exactly the   *)
(* configurations an uncapped run would have, and finish answers the same. *)
THEOREM NormRunIsExact == Spec => []CapIsExact
<1>1. IInv => CapIsExact
  <2> SUFFICES ASSUME IInv PROVE CapIsExact
    OBVIOUS
  <2>1. configs = {Capped(auto, c) : c \in exact} /\ exact \in SUBSET Configs(auto) /\ IsAutomaton(auto)
    BY DEF IInv, TypeOK, CursorIsCapped
  <2>2. \A c \in exact : /\ Capped(auto, c)[1] = c[1]
                         /\ MayLeave(auto, Capped(auto, c)) <=> MayLeave(auto, c)
    BY <2>1, CapKeepsGuards
  <2> QED BY <2>1, <2>2 DEF CapIsExact, CanFinish
<1> QED BY <1>1, InvariantHolds, PTL

(* A deterministic automaton is run with one configuration.                *)
THEOREM DeterministicRun == Spec => []OneConfiguration
<1>1. IInv => OneConfiguration
  BY DEF IInv
<1> QED BY <1>1, InvariantHolds, PTL

==============================================================================
