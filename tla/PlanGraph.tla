------------------------------ MODULE PlanGraph ------------------------------
(***************************************************************************)
(* What becomes of an operator graph: normalize_and_validate_graph corrects *)
(* its roles, drops the names that are no step and the steps no Measure     *)
(* needs, and refuses what is left broken; the accepted steps then run in   *)
(* the order of _topological_sort. The edges change on the way, while the   *)
(* arguments go on citing what the planner wrote.                           *)
(***************************************************************************)
EXTENDS Integers, FiniteSets

CONSTANTS
  Steps,  \* the steps of the graph as drafted
  Roles,  \* the functional roles they may declare
  Ghost   \* a name that no step has

\* Contexts run first (_execution_priority). A temporal extent is treated as an extent
\* everywhere, and stands with it.
Priority == [extent |-> -1, sub_condition |-> 0, condition |-> 1, support |-> 2, measure |-> 3]

ASSUME PlanAssumption ==
  /\ IsFiniteSet(Steps)
  /\ Roles \subseteq DOMAIN Priority
  /\ {"extent", "support", "measure"} \subseteq Roles
  /\ Ghost \notin Steps

VARIABLES
  stage,    \* where the graph stands
  reads,    \* the names each step was drafted with: depends_on and the arguments
  depends,  \* its depends_on now
  role,     \* its role now
  kept,     \* the steps not dropped
  passes,   \* history: the pruning passes that dropped something
  ran       \* the steps executed

plan == <<reads, depends, role, kept>>
vars == <<stage, plan, passes, ran>>

Stages == {"reading", "relabelling", "wiring", "sorting", "pruning", "connecting",
           "binding", "executing", "refused", "answered"}

TypeOK ==
  /\ stage \in Stages
  /\ reads \in [Steps -> SUBSET (Steps \cup {Ghost})]
  /\ depends \in [Steps -> SUBSET (Steps \cup {Ghost})]
  /\ role \in [Steps -> Roles]
  /\ kept \subseteq Steps
  /\ passes \in Nat
  /\ ran \subseteq kept

Init ==
  /\ stage = "reading"
  /\ reads \in [Steps -> SUBSET (Steps \cup {Ghost})]
  /\ role \in [Steps -> Roles]
  /\ depends = reads
  /\ kept = Steps
  /\ passes = 0
  /\ ran = {}

Extents == {s \in kept : role[s] = "extent"}
Measures == {s \in kept : role[s] = "measure"}
Consumers(s) == {t \in kept : s \in depends[t]}
Consumed == {s \in Steps : \E t \in Steps : s \in depends[t]}

\* The two searches: whatever holds s and all that follows (or precedes) its members
\* holds a Measure (or a context).
ReachesMeasure(s) ==
  \A S \in SUBSET kept :
    (s \in S /\ \A n \in S : Consumers(n) \subseteq S) => S \cap Measures # {}
FromContext(s) ==
  \A S \in SUBSET kept :
    (s \in S /\ \A n \in S : depends[n] \subseteq S) => S \cap Extents # {}

\* Steps that each wait for another of them. GraphOrder has the queue that finds out.
Circular(S) == S # {} /\ \A n \in S : depends[n] \cap S # {}
Acyclic == \A S \in SUBSET kept : ~Circular(S)

Goto(next) == stage' = next /\ UNCHANGED <<passes, ran>>

\* A step is refused for its operator, its arguments or (strictly) its types, or the
\* concept graph for its bindings, roles and connections: the data decides.
Refuse ==
  /\ stage \in {"reading", "wiring", "binding"}
  /\ Goto("refused")
  /\ UNCHANGED plan

Read ==
  /\ stage = "reading"
  /\ Goto("relabelling")
  /\ UNCHANGED plan

\* A consumed Measure is none; without one the terminals are promoted.
Demoted == [s \in Steps |-> IF role[s] = "measure" /\ s \in Consumed THEN "support" ELSE role[s]]
Promoted(r) == [s \in Steps |-> IF s \notin Consumed /\ r[s] # "extent" THEN "measure" ELSE r[s]]

\* Mutant of Relabel: a Measure stays one although other steps read it.
RelabelPromoting ==
  /\ stage = "relabelling"
  /\ role' = IF Measures # {} THEN role ELSE Promoted(role)
  /\ Goto("wiring")
  /\ UNCHANGED <<reads, depends, kept>>

Relabel ==
  /\ stage = "relabelling"
  /\ role' = IF \E s \in Steps : Demoted[s] = "measure" THEN Demoted ELSE Promoted(Demoted)
  /\ Goto("wiring")
  /\ UNCHANGED <<reads, depends, kept>>

\* No dependency is left of a step that declared one, and it is no context.
Unresolved(s) == depends[s] = {Ghost} /\ role[s] # "extent"
Inverted(s) ==
  \E d \in depends[s] \cap Steps :
    /\ role[d] # "extent" /\ role[s] # "extent"
    /\ Priority[role[d]] > Priority[role[s]]

Wire ==
  /\ stage = "wiring"
  /\ IF \E s \in Steps : Unresolved(s) \/ Inverted(s)
     THEN Goto("refused") /\ UNCHANGED depends
     ELSE Goto("sorting") /\ depends' = [s \in Steps |-> depends[s] \cap Steps]
  /\ UNCHANGED <<reads, role, kept>>

Sort ==
  /\ stage = "sorting"
  /\ Goto(IF Acyclic /\ Extents # {} /\ Measures # {} THEN "pruning" ELSE "refused")
  /\ UNCHANGED plan

\* Mutant of Unused: a step is needed only by a Measure that reads it.
UnusedByMeasures == {s \in kept : role[s] # "measure" /\ Consumers(s) \cap Measures = {}}
\* A planner leftover.
Unused == {s \in kept : role[s] # "measure" /\ ~ReachesMeasure(s)}

\* One pass of the loop. It ends in the second sort, of a part of what was sorted.
Prune ==
  /\ stage = "pruning"
  /\ IF Unused # {}
     THEN /\ kept' = kept \ Unused
          /\ depends' = [s \in Steps |-> depends[s] \ Unused]
          /\ passes' = passes + 1
          /\ UNCHANGED <<stage, ran>>
     ELSE /\ Goto(IF Extents # {} THEN "connecting" ELSE "refused")
          /\ UNCHANGED <<depends, kept>>
  /\ UNCHANGED <<reads, role>>

Connect ==
  /\ stage = "connecting"
  /\ Goto(IF \A s \in kept : FromContext(s) /\ ReachesMeasure(s) THEN "binding" ELSE "refused")
  /\ UNCHANGED plan

Bind ==
  /\ stage = "binding"
  /\ Goto("executing")
  /\ UNCHANGED plan

----------------------------------------------------------------------------
Ready == {s \in kept \ ran : depends[s] \subseteq ran}

\* The next step of the order; ties are decided by position, which is left open.
\* A step that fails is recorded, and the run goes on.
Run(s) ==
  /\ stage = "executing"
  /\ s \in Ready
  /\ \A t \in Ready : Priority[role[s]] <= Priority[role[t]]
  /\ ran' = ran \cup {s}
  /\ UNCHANGED <<stage, plan, passes>>

Answer ==
  /\ stage = "executing"
  /\ ran = kept
  /\ stage' = "answered"
  /\ UNCHANGED <<plan, passes, ran>>

Ended == stage \in {"refused", "answered"} /\ UNCHANGED vars

Next ==
  \/ Refuse \/ Read \/ Relabel \/ Wire \/ Sort \/ Prune \/ Connect \/ Bind
  \/ (\E s \in Steps : Run(s)) \/ Answer \/ Ended

Spec == Init /\ [][Next]_vars
----------------------------------------------------------------------------
(* Properties.                                                             *)

\* A step that runs finds everything it cites: no argument names a step that was
\* dropped or that runs later, so _resolve_references fails only for a name that
\* never was a step, or for a step that failed itself.
CitedStepsHaveRun == \A s \in ran : reads[s] \cap Steps \subseteq ran

\* The loop settles in one pass: dropping the leftovers makes no other step a leftover.
OnePassPrunes == passes <= 1

\* The answer is read from the end of the plan: some Measure is kept and no step reads
\* one, whatever the planner labelled, and all of it is run.
MeasuresEndThePlan ==
  stage \in {"executing", "answered"} =>
    /\ Measures # {}
    /\ \A m \in Measures, s \in kept : m \notin reads[s]
    /\ stage = "answered" => Measures \subseteq ran
=============================================================================
