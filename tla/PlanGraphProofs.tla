--------------------------- MODULE PlanGraphProofs ---------------------------
(***************************************************************************)
(* Proofs about PlanGraph, for every set of steps: what an accepted graph  *)
(* cites is there when it runs, one pruning pass settles, the Measures end *)
(* the plan, and the execution is never stuck.                             *)
(***************************************************************************)
EXTENDS PlanGraph, GraphOrder, FiniteSetTheorems, TLAPS

Drafts == {"reading", "relabelling", "wiring"}
Accepted == {"pruning", "connecting", "binding", "executing", "answered"}
Wired == {"sorting"} \cup Accepted

\* Until its names are resolved the graph is the draft.
Drafted ==
  /\ stage \in Drafts => depends = reads /\ kept = Steps
  /\ stage \in Drafts \cup {"sorting"} => passes = 0

\* No step reads a Measure once the roles are corrected.
MeasuresUnread ==
  stage \in {"wiring"} \cup Wired =>
    \A m, s \in Steps : role[m] = "measure" => m \notin reads[s]

\* A kept step still depends on every step it was drafted with, and they are kept.
Resolved ==
  stage \in Wired => \A s \in kept : depends[s] = reads[s] \cap Steps /\ depends[s] \subseteq kept

Sorted == stage \in Accepted => Acyclic /\ Measures # {}

Settled == passes = 0 \/ (passes = 1 /\ (stage = "pruning" => Unused = {}))

Executed ==
  /\ stage \notin {"executing", "answered"} => ran = {}
  /\ \A s \in ran : depends[s] \subseteq ran
  /\ stage = "answered" => ran = kept

Inv ==
  /\ TypeOK /\ Drafted /\ MeasuresUnread /\ Resolved /\ Sorted /\ Settled /\ Executed

----------------------------------------------------------------------------
(* Leftovers.                                                              *)

\* What reads a leftover is one itself.
LEMMA LeftoversClosed ==
  ASSUME NEW n \in Unused
  PROVE  Consumers(n) \subseteq Unused
<1>1. PICK S \in SUBSET kept :
        /\ n \in S /\ \A x \in S : Consumers(x) \subseteq S
        /\ S \cap Measures = {}
  BY DEF Unused, ReachesMeasure
<1>2. SUFFICES ASSUME NEW t \in Consumers(n) PROVE t \in Unused
  OBVIOUS
<1>3. t \in S /\ t \in kept
  BY <1>1
<1>4. role[t] # "measure"
  BY <1>1, <1>3 DEF Measures
<1>5. ~ReachesMeasure(t)
  BY <1>1, <1>3 DEF ReachesMeasure
<1> QED
  BY <1>3, <1>4, <1>5 DEF Unused

\* A step that stays depends on no leftover.
LEMMA KeptReadsNoLeftover ==
  ASSUME NEW s \in kept \ Unused
  PROVE  depends[s] \cap Unused = {}
<1>1. SUFFICES ASSUME NEW n \in depends[s], n \in Unused PROVE FALSE
  OBVIOUS
<1>2. s \in Consumers(n)
  BY DEF Consumers
<1> QED
  BY <1>1, <1>2, LeftoversClosed

\* Dropping the leftovers makes none.
LEMMA NoNewLeftovers ==
  ASSUME TypeOK, kept' = kept \ Unused, role' = role,
         depends' = [s \in Steps |-> depends[s] \ Unused]
  PROVE  Unused' = {} /\ Measures' = Measures
<1>1. Measures' = Measures
  BY DEF Measures, Unused
<1>2. SUFFICES ASSUME NEW s \in kept', role[s] # "measure" PROVE ReachesMeasure(s)'
  BY <1>1 DEF Unused
<1>3. SUFFICES ASSUME NEW S \in SUBSET kept',
                      s \in S, \A n \in S : Consumers(n)' \subseteq S,
                      S \cap Measures = {}
               PROVE  FALSE
  BY <1>1 DEF ReachesMeasure
<1> DEFINE T == S \cup Unused
<1>4. T \in SUBSET kept
  BY DEF Unused
<1>5. \A n \in T : Consumers(n) \subseteq T
  <2>1. SUFFICES ASSUME NEW n \in S, NEW t \in Consumers(n), t \notin Unused
                 PROVE  t \in S
    BY LeftoversClosed
  <2>2. t \in kept' /\ t \in Steps /\ n \in depends[t] /\ n \notin Unused
    BY <2>1 DEF Consumers, TypeOK
  <2>3. n \in depends'[t]
    BY <2>2
  <2>4. t \in Consumers(n)'
    BY <2>2, <2>3 DEF Consumers
  <2> QED
    BY <1>3, <2>4
<1>6. T \cap Measures = {}
  BY <1>3 DEF Unused, Measures
<1>7. ~ReachesMeasure(s)
  BY <1>3, <1>4, <1>5, <1>6 DEF ReachesMeasure
<1>8. s \in Unused
  BY <1>2, <1>7 DEF Unused
<1> QED
  BY <1>8

----------------------------------------------------------------------------
(* One lemma per kind of action.                                           *)

\* A step of the validation that only decides where the graph goes.
LEMMA KeepsPlan ==
  ASSUME Inv, Refuse \/ Read \/ Sort \/ Connect \/ Bind
  PROVE  Inv'
<1> USE DEF Goto, plan
<1>1. /\ UNCHANGED <<reads, depends, role, kept, passes, ran>>
      /\ stage' \in Stages
  BY DEF Refuse, Read, Sort, Connect, Bind, Stages
<1>2. Unused' = Unused /\ Measures' = Measures /\ Acyclic' = Acyclic
  BY <1>1 DEF Unused, ReachesMeasure, Consumers, Measures, Acyclic, Circular
<1>3. CASE Refuse
  BY <1>1, <1>2, <1>3 DEF Refuse, Inv, TypeOK, Drafted, MeasuresUnread, Resolved, Sorted,
     Settled, Executed, Wired, Accepted, Drafts
<1>4. CASE Read
  BY <1>1, <1>2, <1>4 DEF Read, Inv, TypeOK, Drafted, MeasuresUnread, Resolved, Sorted,
     Settled, Executed, Wired, Accepted, Drafts
<1>5. CASE Sort
  BY <1>1, <1>2, <1>5 DEF Sort, Inv, TypeOK, Drafted, MeasuresUnread, Resolved, Sorted,
     Settled, Executed, Wired, Accepted, Drafts
<1>6. CASE Connect
  BY <1>1, <1>2, <1>6 DEF Connect, Inv, TypeOK, Drafted, MeasuresUnread, Resolved, Sorted,
     Settled, Executed, Wired, Accepted, Drafts
<1>7. CASE Bind
  BY <1>1, <1>2, <1>7 DEF Bind, Inv, TypeOK, Drafted, MeasuresUnread, Resolved, Sorted,
     Settled, Executed, Wired, Accepted, Drafts
<1> QED
  BY <1>3, <1>4, <1>5, <1>6, <1>7

\* Whatever the draft declared, the corrected Measures are steps nothing reads.
LEMMA RelabelCorrects ==
  ASSUME Inv, Relabel
  PROVE  Inv'
<1>1. /\ stage = "relabelling" /\ stage' = "wiring"
      /\ UNCHANGED <<reads, depends, kept, passes, ran>>
  BY DEF Relabel, Goto
<1>2. depends = reads /\ kept = Steps /\ passes = 0
  BY <1>1 DEF Inv, Drafted, Drafts
<1>3. role' \in [Steps -> Roles]
  BY PlanAssumption DEF Inv, TypeOK, Relabel, Demoted, Promoted
<1>4. \A m \in Steps : role'[m] = "measure" => m \notin Consumed
  <2>1. \A m \in Steps : Demoted[m] = "measure" => m \notin Consumed
    BY DEF Demoted
  <2>2. CASE \E s \in Steps : Demoted[s] = "measure"
    BY <2>1, <2>2 DEF Relabel
  <2>3. CASE ~\E s \in Steps : Demoted[s] = "measure"
    BY <2>3 DEF Relabel, Promoted
  <2> QED
    BY <2>2, <2>3
<1>5. MeasuresUnread'
  BY <1>1, <1>2, <1>4 DEF MeasuresUnread, Consumed
<1>6. TypeOK'
  BY <1>1, <1>3 DEF Inv, TypeOK, Stages
<1> QED
  BY <1>1, <1>2, <1>5, <1>6 DEF Inv, Drafted, Drafts, Resolved, Wired, Accepted, Sorted,
     Settled, Executed

\* The names that are no step are gone from the graph.
LEMMA WireResolves ==
  ASSUME Inv, Wire
  PROVE  Inv'
<1>1. stage = "wiring" /\ UNCHANGED <<reads, role, kept, passes, ran>>
  BY DEF Wire, Goto
<1>2. depends = reads /\ kept = Steps /\ passes = 0 /\ ran = {}
  BY <1>1 DEF Inv, Drafted, Drafts, Executed
<1>3. CASE stage' = "refused" /\ depends' = depends
  BY <1>1, <1>2, <1>3 DEF Inv, TypeOK, Stages, Drafted, Drafts, MeasuresUnread, Resolved,
     Wired, Accepted, Sorted, Settled, Executed
<1>4. CASE stage' = "sorting" /\ depends' = [s \in Steps |-> depends[s] \cap Steps]
  <2>1. TypeOK'
    BY <1>1, <1>4 DEF Inv, TypeOK, Stages
  <2>2. MeasuresUnread'
    BY <1>1 DEF Inv, MeasuresUnread
  <2>3. Resolved'
    BY <1>1, <1>2, <1>4 DEF Resolved
  <2> QED
    BY <1>1, <1>2, <1>4, <2>1, <2>2, <2>3 DEF Inv, Drafted, Drafts, Accepted, Sorted,
       Settled, Executed
<1> QED
  BY <1>3, <1>4 DEF Wire, Goto

\* A pass drops only leftovers, keeps every edge between the steps that stay, and
\* leaves nothing for a second one.
LEMMA PruneSettles ==
  ASSUME Inv, Prune
  PROVE  Inv'
<1>1. stage = "pruning" /\ UNCHANGED <<reads, role, ran>> /\ ran = {}
  BY DEF Prune, Goto, Inv, Executed
<1>2. CASE Unused = {}
  <2>1. /\ UNCHANGED <<depends, kept, passes>>
        /\ stage' \in {"connecting", "refused"}
    BY <1>2 DEF Prune, Goto
  <2>2. Measures' = Measures /\ Acyclic' = Acyclic
    BY <1>1, <2>1 DEF Measures, Acyclic, Circular
  <2> QED
    BY <1>1, <2>1, <2>2 DEF Inv, TypeOK, Stages, Drafted, Drafts, MeasuresUnread, Resolved,
       Wired, Accepted, Sorted, Settled, Executed
<1>3. CASE Unused # {}
  <2>1. /\ kept' = kept \ Unused
        /\ depends' = [s \in Steps |-> depends[s] \ Unused]
        /\ passes' = passes + 1
        /\ stage' = stage
    BY <1>3 DEF Prune
  <2>2. passes = 0
    BY <1>1, <1>3 DEF Inv, Settled
  <2>3. Unused' = {} /\ Measures' = Measures
    BY <1>1, <2>1, NoNewLeftovers DEF Inv
  <2>4. TypeOK'
    BY <1>1, <2>1, <2>2 DEF Inv, TypeOK
  <2>5. Resolved'
    <3>1. SUFFICES ASSUME NEW s \in kept'
                   PROVE  depends'[s] = reads[s] \cap Steps /\ depends'[s] \subseteq kept'
      BY <1>1 DEF Resolved
    <3>2. s \in kept \ Unused /\ s \in Steps
      BY <2>1 DEF Inv, TypeOK
    <3>3. depends'[s] = depends[s] /\ depends[s] \cap Unused = {}
      BY <2>1, <3>2, KeptReadsNoLeftover
    <3>4. depends[s] = reads[s] \cap Steps /\ depends[s] \subseteq kept
      BY <1>1, <3>2 DEF Inv, Resolved, Wired, Accepted
    <3> QED
      BY <2>1, <3>3, <3>4
  <2>6. Acyclic'
    <3>1. SUFFICES ASSUME NEW S \in SUBSET kept', Circular(S)' PROVE FALSE
      BY DEF Acyclic
    <3>2. S \in SUBSET kept /\ S \subseteq Steps
      BY <2>1 DEF Inv, TypeOK
    <3>3. Circular(S)
      BY <2>1, <3>1, <3>2 DEF Circular
    <3> QED
      BY <1>1, <3>2, <3>3 DEF Inv, Sorted, Accepted, Acyclic
  <2>7. Sorted'
    BY <1>1, <2>1, <2>3, <2>6 DEF Inv, Sorted, Accepted
  <2>8. Settled'
    BY <2>1, <2>2, <2>3 DEF Settled
  <2> QED
    BY <1>1, <2>1, <2>4, <2>5, <2>7, <2>8 DEF Inv, Drafted, Drafts, MeasuresUnread, Executed
<1> QED
  BY <1>2, <1>3

\* The steps run after what they read.
LEMMA RunFollows ==
  ASSUME Inv, NEW s \in Steps, Run(s)
  PROVE  Inv'
<1>1. /\ stage = "executing" /\ ran' = ran \cup {s}
      /\ UNCHANGED <<stage, reads, depends, role, kept, passes>>
      /\ s \in kept /\ depends[s] \subseteq ran
  BY DEF Run, Ready, plan
<1>2. Unused' = Unused /\ Measures' = Measures /\ Acyclic' = Acyclic
  BY <1>1 DEF Unused, ReachesMeasure, Consumers, Measures, Acyclic, Circular
<1> QED
  BY <1>1, <1>2 DEF Inv, TypeOK, Stages, Drafted, Drafts, MeasuresUnread, Resolved, Wired,
     Accepted, Sorted, Settled, Executed

LEMMA AnswerFollows ==
  ASSUME Inv, Answer
  PROVE  Inv'
<1>1. /\ stage = "executing" /\ stage' = "answered" /\ ran = kept
      /\ UNCHANGED <<reads, depends, role, kept, passes, ran>>
  BY DEF Answer, plan
<1>2. Unused' = Unused /\ Measures' = Measures /\ Acyclic' = Acyclic
  BY <1>1 DEF Unused, ReachesMeasure, Consumers, Measures, Acyclic, Circular
<1> QED
  BY <1>1, <1>2 DEF Inv, TypeOK, Stages, Drafted, Drafts, MeasuresUnread, Resolved, Wired,
     Accepted, Sorted, Settled, Executed

LEMMA InvInit == Init => Inv
<1> SUFFICES ASSUME Init PROVE Inv
  OBVIOUS
<1> QED
  BY DEF Init, Inv, TypeOK, Stages, Drafted, Drafts, MeasuresUnread, Resolved, Wired,
     Accepted, Sorted, Settled, Executed

LEMMA InvStutters ==
  ASSUME Inv, UNCHANGED vars
  PROVE  Inv'
<1>1. UNCHANGED <<stage, reads, depends, role, kept, passes, ran>>
  BY DEF vars, plan
<1>2. Unused' = Unused /\ Measures' = Measures /\ Acyclic' = Acyclic
  BY <1>1 DEF Unused, ReachesMeasure, Consumers, Measures, Acyclic, Circular
<1> QED
  BY <1>1, <1>2 DEF Inv, TypeOK, Drafted, MeasuresUnread, Resolved, Sorted, Settled, Executed

LEMMA InvStep == Inv /\ [Next]_vars => Inv'
<1> SUFFICES ASSUME Inv, [Next]_vars PROVE Inv'
  OBVIOUS
<1>1. CASE Refuse \/ Read \/ Sort \/ Connect \/ Bind
  BY <1>1, KeepsPlan
<1>2. CASE Relabel
  BY <1>2, RelabelCorrects
<1>3. CASE Wire
  BY <1>3, WireResolves
<1>4. CASE Prune
  BY <1>4, PruneSettles
<1>5. ASSUME NEW s \in Steps, Run(s) PROVE Inv'
  BY <1>5, RunFollows
<1>6. CASE Answer
  BY <1>6, AnswerFollows
<1>7. CASE Ended \/ UNCHANGED vars
  BY <1>7, InvStutters DEF Ended
<1> QED
  BY <1>1, <1>2, <1>3, <1>4, <1>5, <1>6, <1>7 DEF Next

LEMMA InvHolds == Spec => []Inv
<1> QED
  BY InvInit, InvStep, PTL DEF Spec

----------------------------------------------------------------------------
(* The theorems.                                                           *)

\* The variables of the normalization and the execution keep their types.
THEOREM PlanTypeCorrect == Spec => []TypeOK
<1>1. Inv => TypeOK
  BY DEF Inv
<1> QED
  BY InvHolds, <1>1, PTL

\* A step that runs finds all the steps it cites: normalize_and_validate_graph never
\* drops a step that an argument of a kept one names.
THEOREM CitedAlwaysRun == Spec => []CitedStepsHaveRun
<1>1. Inv => CitedStepsHaveRun
  BY DEF Inv, TypeOK, CitedStepsHaveRun, Executed, Resolved, Wired, Accepted
<1> QED
  BY InvHolds, <1>1, PTL

\* The `while True` of the pruning drops something at most once.
THEOREM PruningSettles == Spec => []OnePassPrunes
<1>1. Inv => OnePassPrunes
  BY DEF Inv, Settled, OnePassPrunes
<1> QED
  BY InvHolds, <1>1, PTL

\* An accepted plan ends in its Measures.
THEOREM MeasuresAlwaysEnd == Spec => []MeasuresEndThePlan
<1>1. Inv => MeasuresEndThePlan
  <2> SUFFICES ASSUME Inv, stage \in {"executing", "answered"}
               PROVE  /\ Measures # {}
                      /\ \A m \in Measures, s \in kept : m \notin reads[s]
                      /\ stage = "answered" => Measures \subseteq ran
    BY DEF MeasuresEndThePlan
  <2>1. Measures # {}
    BY DEF Inv, Sorted, Accepted
  <2>2. \A m \in Measures, s \in kept : m \notin reads[s]
    BY DEF Inv, TypeOK, MeasuresUnread, Wired, Accepted, Measures
  <2>3. stage = "answered" => Measures \subseteq ran
    BY DEF Inv, Executed, Measures
  <2> QED
    BY <2>1, <2>2, <2>3
<1> QED
  BY InvHolds, <1>1, PTL

\* While steps are left to execute, one of them has all it reads: the order covers the
\* accepted graph, and execution cannot stop in the middle of it.
ExecutionGoesOn == stage = "executing" /\ ran # kept => Ready # {}

THEOREM ExecutionNeverStuck == Spec => []ExecutionGoesOn
<1>1. Inv => ExecutionGoesOn
  <2> SUFFICES ASSUME Inv, stage = "executing", ran # kept, Ready = {} PROVE FALSE
    BY DEF ExecutionGoesOn
  <2>1. kept \ ran # {} /\ kept \ ran \in SUBSET kept
    BY DEF Inv, TypeOK
  <2>2. \A n \in kept \ ran : depends[n] \cap (kept \ ran) # {}
    BY DEF Inv, Resolved, Wired, Accepted, Ready
  <2>3. Circular(kept \ ran)
    BY <2>1, <2>2 DEF Circular
  <2> QED
    BY <2>1, <2>3 DEF Inv, Sorted, Accepted, Acyclic
<1> QED
  BY InvHolds, <1>1, PTL

----------------------------------------------------------------------------
(***************************************************************************)
(* The queue that sorts a graph (GraphOrder) is right for every finite      *)
(* graph and every ranking of its steps. The invariant says what the counts *)
(* and the ready list stand for at any pop: the dependencies not placed     *)
(* yet, and the steps that have none.                                       *)
(***************************************************************************)

\* The dependencies of n that are still to come.
Unplaced(n) == dependencies[n] \ Placed

Counts == \A n \in Nodes : incoming[n] = Cardinality(Unplaced(n))
ReadyNow == \A n \in Nodes : n \in ready <=> (n \notin Placed /\ Unplaced(n) = {})
DepsPlaced == \A n \in Placed : Unplaced(n) = {}

\* A cycle is never entered.
CyclesOutside == \A S \in SUBSET Nodes : Cyclic(S) => S \cap Placed = {}

\* A step that was overtaken was still waiting for one of its dependencies.
Overtaken ==
  \A m \in Nodes : \A i \in 1 .. Len(ordered) :
    (Rank[m] < Rank[ordered[i]] /\ \A j \in 1 .. i : ordered[j] # m) =>
      \E p \in dependencies[m] : \A j \in 1 .. (i - 1) : ordered[j] # p

PlacedSize == Cardinality(Placed) = Len(ordered)

Queue == OrderTypeOK /\ Counts /\ ReadyNow /\ DepsPlaced

OrderInv ==
  /\ Queue
  /\ InputsComeFirst /\ OrderedOnce /\ PlacedSize
  /\ CyclesOutside /\ Overtaken
  /\ CycleVerdict

----------------------------------------------------------------------------
\* Placing n adds it to what is placed, at the end.
LEMMA PlacedGrows ==
  ASSUME OrderTypeOK, NEW n \in Nodes, Place(n)
  PROVE  /\ ordered' \in Seq(Nodes)
         /\ Len(ordered') = Len(ordered) + 1
         /\ ordered'[Len(ordered) + 1] = n
         /\ \A i \in 1 .. Len(ordered) : ordered'[i] = ordered[i]
         /\ Placed' = Placed \cup {n}
<1>1. /\ ordered \in Seq(Nodes)
      /\ ordered' = Append(ordered, n)
  BY DEF OrderTypeOK, Place
<1>2. /\ ordered' \in Seq(Nodes)
      /\ Len(ordered') = Len(ordered) + 1
      /\ ordered'[Len(ordered) + 1] = n
      /\ \A i \in 1 .. Len(ordered) : ordered'[i] = ordered[i]
      /\ Len(ordered) \in Nat
  BY <1>1
<1>3. Placed' = Placed \cup {n}
  <2>1. ASSUME NEW x \in Placed' PROVE x \in Placed \cup {n}
    <3>1. PICK i \in 1 .. (Len(ordered) + 1) : x = ordered'[i]
      BY <2>1, <1>2 DEF Placed
    <3>2. CASE i = Len(ordered) + 1
      BY <3>1, <3>2, <1>2
    <3>3. CASE i \in 1 .. Len(ordered)
      BY <3>1, <3>3, <1>2 DEF Placed
    <3> QED
      BY <3>1, <3>2, <3>3, <1>2
  <2>2. ASSUME NEW x \in Placed PROVE x \in Placed'
    <3>1. PICK i \in 1 .. Len(ordered) : x = ordered[i]
      BY <2>2 DEF Placed
    <3>2. i \in 1 .. Len(ordered')
      BY <3>1, <1>2
    <3> QED
      BY <3>1, <3>2, <1>2 DEF Placed
  <2>3. n \in Placed'
    BY <1>2 DEF Placed
  <2> QED
    BY <2>1, <2>2, <2>3
<1> QED
  BY <1>2, <1>3

\* What is placed are steps of the graph.
LEMMA PlacedAreNodes == ASSUME OrderTypeOK PROVE Placed \subseteq Nodes
BY DEF OrderTypeOK, Placed

\* The dependencies of a step that are still to come are finitely many.
LEMMA UnplacedFinite ==
  ASSUME OrderTypeOK, NEW n \in Nodes
  PROVE  /\ IsFiniteSet(Unplaced(n))
         /\ Cardinality(Unplaced(n)) \in Nat
         /\ Cardinality(Unplaced(n)) = 0 <=> Unplaced(n) = {}
<1>1. Unplaced(n) \in SUBSET Nodes
  BY DEF OrderTypeOK, Unplaced
<1>2. IsFiniteSet(Unplaced(n))
  BY <1>1, FS_Subset, OrderAssumption
<1> QED
  BY <1>2, FS_CardinalityType, FS_EmptySet

\* The step that is placed has everything it reads.
LEMMA FirstIsReady ==
  ASSUME Queue, NEW n \in Nodes, Place(n)
  PROVE  n \notin Placed /\ Unplaced(n) = {} /\ n \notin dependencies[n]
<1>1. n \in ready
  BY DEF Place, First
<1>2. n \notin Placed /\ Unplaced(n) = {}
  BY <1>1 DEF Queue, ReadyNow
<1> QED
  BY <1>2 DEF Unplaced

\* Placing n takes n, and nothing else, off what each step waits for.
LEMMA UnplacedShrinks ==
  ASSUME Queue, NEW n \in Nodes, Place(n), NEW m \in Nodes
  PROVE  /\ Unplaced(m)' = Unplaced(m) \ {n}
         /\ n \in Unplaced(m) <=> n \in dependencies[m]
<1>1. Placed' = Placed \cup {n}
  BY PlacedGrows DEF Queue
<1>2. dependencies' = dependencies
  BY DEF Place
<1>3. n \notin Placed
  BY FirstIsReady
<1> QED
  BY <1>1, <1>2, <1>3 DEF Unplaced

\* The count of a step is still the number of steps it waits for.
LEMMA PlaceCounts ==
  ASSUME Queue, NEW n \in Nodes, Place(n), NEW m \in Nodes
  PROVE  /\ incoming'[m] = Cardinality(Unplaced(m)')
         /\ incoming'[m] \in Nat
<1>1. /\ Unplaced(m)' = Unplaced(m) \ {n}
      /\ n \in Unplaced(m) <=> n \in dependencies[m]
  BY UnplacedShrinks
<1>2. IsFiniteSet(Unplaced(m)) /\ Cardinality(Unplaced(m)) \in Nat
  BY UnplacedFinite DEF Queue
<1>3. /\ IsFiniteSet(Unplaced(m) \ {n})
      /\ Cardinality(Unplaced(m) \ {n}) =
           IF n \in Unplaced(m) THEN Cardinality(Unplaced(m)) - 1
           ELSE Cardinality(Unplaced(m))
  BY <1>2, FS_RemoveElement
<1>4. incoming[m] = Cardinality(Unplaced(m))
  BY DEF Queue, Counts
<1>5. incoming'[m] = IF n \in dependencies[m] THEN incoming[m] - 1 ELSE incoming[m]
  BY DEF Place
<1>6. incoming'[m] = Cardinality(Unplaced(m) \ {n})
  BY <1>1, <1>3, <1>4, <1>5
<1>7. Cardinality(Unplaced(m) \ {n}) \in Nat
  BY <1>3, FS_CardinalityType
<1> QED
  BY <1>1, <1>6, <1>7

\* A step is freed when the last thing it waits for is placed.
LEMMA FreedIsExact ==
  ASSUME Queue, NEW n \in Nodes, Place(n), NEW m \in Nodes
  PROVE  m \in Freed(n) <=> (n \in dependencies[m] /\ Unplaced(m)' = {})
<1>1. /\ Unplaced(m)' = Unplaced(m) \ {n}
      /\ n \in Unplaced(m) <=> n \in dependencies[m]
  BY UnplacedShrinks
<1>2. IsFiniteSet(Unplaced(m)) /\ Cardinality(Unplaced(m)) \in Nat
  BY UnplacedFinite DEF Queue
<1>3. /\ IsFiniteSet(Unplaced(m) \ {n})
      /\ Cardinality(Unplaced(m) \ {n}) =
           IF n \in Unplaced(m) THEN Cardinality(Unplaced(m)) - 1
           ELSE Cardinality(Unplaced(m))
  BY <1>2, FS_RemoveElement
<1>4. Cardinality(Unplaced(m) \ {n}) = 0 <=> Unplaced(m) \ {n} = {}
  BY <1>3, FS_EmptySet
<1>5. incoming[m] = Cardinality(Unplaced(m))
  BY DEF Queue, Counts
<1>6. CASE n \in dependencies[m]
  <2>1. incoming[m] = 1 <=> Unplaced(m) \ {n} = {}
    BY <1>1, <1>2, <1>3, <1>4, <1>5, <1>6
  <2> QED
    BY <1>1, <1>6, <2>1 DEF Freed
<1>7. CASE n \notin dependencies[m]
  BY <1>7 DEF Freed
<1> QED
  BY <1>6, <1>7

\* The counts, the ready list and the types survive a pop.
LEMMA PlaceQueue ==
  ASSUME Queue, NEW n \in Nodes, Place(n)
  PROVE  Queue'
<1>1. Placed' = Placed \cup {n} /\ ordered' \in Seq(Nodes)
  BY PlacedGrows DEF Queue
<1>2. n \notin Placed /\ Unplaced(n) = {} /\ n \notin dependencies[n]
  BY FirstIsReady
<1>3. Counts'
  BY PlaceCounts DEF Counts
<1>4. OrderTypeOK'
  <2>1. incoming' \in [Nodes -> Nat]
    <3>1. incoming' = [m \in Nodes |->
            IF n \in dependencies[m] THEN incoming[m] - 1 ELSE incoming[m]]
      BY DEF Place
    <3>2. \A m \in Nodes : incoming'[m] \in Nat
      BY PlaceCounts
    <3> QED
      BY <3>1, <3>2
  <2>2. ready' \subseteq Nodes
    BY DEF Place, Freed, Queue, OrderTypeOK
  <2> QED
    BY <1>1, <2>1, <2>2 DEF Place, Queue, OrderTypeOK
<1>5. ReadyNow'
  <2> SUFFICES ASSUME NEW m \in Nodes
               PROVE  m \in ready' <=> (m \notin Placed' /\ Unplaced(m)' = {})
    BY DEF ReadyNow
  <2>1. ready' = (ready \ {n}) \cup Freed(n)
    BY DEF Place
  <2>2. m \in ready <=> (m \notin Placed /\ Unplaced(m) = {})
    BY DEF Queue, ReadyNow
  <2>3. /\ Unplaced(m)' = Unplaced(m) \ {n}
        /\ n \in Unplaced(m) <=> n \in dependencies[m]
    BY UnplacedShrinks
  <2>4. m \in Freed(n) <=> (n \in dependencies[m] /\ Unplaced(m)' = {})
    BY FreedIsExact
  <2>5. CASE m = n
    BY <1>1, <1>2, <2>1, <2>4, <2>5
  <2>6. CASE m # n /\ n \in dependencies[m]
    <3>1. m \notin Placed
      BY <2>3, <2>6 DEF Queue, DepsPlaced
    <3> QED
      BY <1>1, <2>1, <2>2, <2>3, <2>4, <2>6, <3>1
  <2>7. CASE m # n /\ n \notin dependencies[m]
    BY <1>1, <2>1, <2>2, <2>3, <2>4, <2>7
  <2> QED
    BY <2>5, <2>6, <2>7
<1>6. DepsPlaced'
  <2> SUFFICES ASSUME NEW m \in Placed' PROVE Unplaced(m)' = {}
    BY DEF DepsPlaced
  <2>1. m \in Nodes
    BY <1>1, PlacedAreNodes DEF Queue
  <2>2. Unplaced(m)' = Unplaced(m) \ {n}
    BY <2>1, UnplacedShrinks
  <2>3. m \in Placed \/ m = n
    BY <1>1
  <2> QED
    BY <1>2, <2>2, <2>3 DEF Queue, DepsPlaced
<1> QED
  BY <1>3, <1>4, <1>5, <1>6 DEF Queue

----------------------------------------------------------------------------
\* The new last step stands after everything it reads, and was not there before.
LEMMA PlaceOrder ==
  ASSUME OrderInv, NEW n \in Nodes, Place(n)
  PROVE  InputsComeFirst' /\ OrderedOnce' /\ PlacedSize'
<1>1. /\ ordered' \in Seq(Nodes)
      /\ Len(ordered') = Len(ordered) + 1
      /\ ordered'[Len(ordered) + 1] = n
      /\ \A i \in 1 .. Len(ordered) : ordered'[i] = ordered[i]
      /\ Placed' = Placed \cup {n}
  BY PlacedGrows DEF OrderInv, Queue
<1>2. n \notin Placed /\ Unplaced(n) = {}
  BY FirstIsReady DEF OrderInv
<1>3. Len(ordered) \in Nat /\ dependencies' = dependencies
  BY DEF OrderInv, Queue, OrderTypeOK, Place
<1>4. InputsComeFirst'
  <2> SUFFICES ASSUME NEW i \in 1 .. (Len(ordered) + 1), NEW p \in dependencies[ordered'[i]]
               PROVE  \E j \in 1 .. (i - 1) : ordered'[j] = p
    BY <1>1, <1>3 DEF InputsComeFirst
  <2>1. CASE i = Len(ordered) + 1
    <3>1. p \in Placed
      BY <2>1, <1>1, <1>2 DEF Unplaced
    <3>2. PICK j \in 1 .. Len(ordered) : ordered[j] = p
      BY <3>1 DEF Placed
    <3> QED
      BY <2>1, <3>2, <1>1, <1>3
  <2>2. CASE i \in 1 .. Len(ordered)
    <3>1. PICK j \in 1 .. (i - 1) : ordered[j] = p
      BY <2>2, <1>1 DEF OrderInv, InputsComeFirst
    <3>2. j \in 1 .. Len(ordered)
      BY <2>2, <1>3
    <3> QED
      BY <3>1, <3>2, <1>1
  <2> QED
    BY <2>1, <2>2, <1>3
<1>5. OrderedOnce'
  <2>1. \A i \in 1 .. Len(ordered) : ordered'[i] # n
    BY <1>1, <1>2 DEF Placed
  <2> QED
    BY <2>1, <1>1, <1>3 DEF OrderInv, OrderedOnce
<1>6. PlacedSize'
  <2>1. IsFiniteSet(Placed)
    BY PlacedAreNodes, FS_Subset, OrderAssumption DEF OrderInv, Queue
  <2>2. Cardinality(Placed \cup {n}) = Cardinality(Placed) + 1
    BY <1>2, <2>1, FS_AddElement
  <2> QED
    BY <1>1, <2>2 DEF OrderInv, PlacedSize
<1> QED
  BY <1>4, <1>5, <1>6

\* A step whose dependencies are all placed is on no cycle outside of them.
LEMMA PlaceCycles ==
  ASSUME OrderInv, NEW n \in Nodes, Place(n)
  PROVE  CyclesOutside'
<1>1. Placed' = Placed \cup {n} /\ dependencies' = dependencies
  BY PlacedGrows DEF OrderInv, Queue, Place
<1>2. Unplaced(n) = {}
  BY FirstIsReady DEF OrderInv
<1> SUFFICES ASSUME NEW S \in SUBSET Nodes, Cyclic(S)' PROVE S \cap Placed' = {}
  BY DEF CyclesOutside
<1>3. Cyclic(S)
  BY <1>1 DEF Cyclic
<1>4. S \cap Placed = {}
  BY <1>3 DEF OrderInv, CyclesOutside
<1>5. n \notin S
  BY <1>2, <1>3, <1>4 DEF Cyclic, Unplaced
<1> QED
  BY <1>1, <1>4, <1>5

\* A step of a lower rank that is passed over is not ready, so something it reads
\* is still to come.
LEMMA PlaceOvertakes ==
  ASSUME OrderInv, NEW n \in Nodes, Place(n)
  PROVE  Overtaken'
<1>1. /\ Len(ordered') = Len(ordered) + 1
      /\ ordered'[Len(ordered) + 1] = n
      /\ \A i \in 1 .. Len(ordered) : ordered'[i] = ordered[i]
  BY PlacedGrows DEF OrderInv, Queue
<1>2. Len(ordered) \in Nat /\ dependencies' = dependencies
  BY DEF OrderInv, Queue, OrderTypeOK, Place
<1> SUFFICES ASSUME NEW m \in Nodes, NEW i \in 1 .. (Len(ordered) + 1),
                    Rank[m] < Rank[ordered'[i]], \A j \in 1 .. i : ordered'[j] # m
             PROVE  \E p \in dependencies[m] : \A j \in 1 .. (i - 1) : ordered'[j] # p
  BY <1>1, <1>2 DEF Overtaken
<1>3. CASE i \in 1 .. Len(ordered)
  <2>1. Rank[m] < Rank[ordered[i]] /\ \A j \in 1 .. i : ordered[j] # m
    BY <1>1, <1>2, <1>3
  <2>2. PICK p \in dependencies[m] : \A j \in 1 .. (i - 1) : ordered[j] # p
    BY <1>3, <2>1 DEF OrderInv, Overtaken
  <2>3. \A j \in 1 .. (i - 1) : j \in 1 .. Len(ordered)
    BY <1>2, <1>3
  <2>4. \A j \in 1 .. (i - 1) : ordered'[j] # p
    BY <2>2, <2>3, <1>1
  <2> QED
    BY <2>4
<1>4. CASE i = Len(ordered) + 1
  <2>1. Rank[m] < Rank[n]
    BY <1>1, <1>4
  <2>2. Rank[m] \in Int /\ Rank[n] \in Int
    BY OrderAssumption
  <2>3. m \notin ready
    BY <2>1, <2>2 DEF Place, First
  <2>4. m \notin Placed
    BY <1>1, <1>2, <1>4 DEF Placed
  <2>5. Unplaced(m) # {}
    BY <2>3, <2>4 DEF OrderInv, Queue, ReadyNow
  <2>6. PICK p \in dependencies[m] : p \notin Placed
    BY <2>5 DEF Unplaced
  <2>7. \A j \in 1 .. Len(ordered) : ordered'[j] # p
    BY <2>6, <1>1 DEF Placed
  <2> QED
    BY <2>7, <1>2, <1>4
<1> QED
  BY <1>2, <1>3, <1>4

\* An ordering that stops short stops at a cycle: what is left waits for what is left.
LEMMA JudgeVerdict == ASSUME OrderInv, Judge PROVE CycleVerdict'
<1>1. Placed' = Placed /\ dependencies' = dependencies
  BY DEF Judge, Placed
<1>2. Placed \subseteq Nodes
  BY PlacedAreNodes DEF OrderInv, Queue
<1>3. CASE Whole
  <2>1. Cardinality(Placed) = Cardinality(Nodes)
    BY <1>3 DEF OrderInv, PlacedSize, Whole
  <2>2. Placed = Nodes
    BY <1>2, <2>1, FS_Subset, OrderAssumption
  <2>3. \A S \in SUBSET Nodes : ~Cyclic(S)
    BY <2>2 DEF OrderInv, CyclesOutside, Cyclic
  <2>4. verdict' = "accepted" /\ \A S : Cyclic(S)' <=> Cyclic(S)
    BY <1>1, <1>3 DEF Judge, Cyclic
  <2> QED
    BY <1>1, <2>2, <2>3, <2>4 DEF CycleVerdict
<1>4. CASE ~Whole
  <2>1. Placed # Nodes
    BY <1>4 DEF OrderInv, PlacedSize, Whole
  <2>2. Nodes \ Placed # {}
    BY <1>2, <2>1
  <2>3. ASSUME NEW n \in Nodes \ Placed PROVE dependencies[n] \cap (Nodes \ Placed) # {}
    <3>1. n \notin ready
      BY DEF Judge
    <3>2. Unplaced(n) # {}
      BY <2>3, <3>1 DEF OrderInv, Queue, ReadyNow
    <3>3. dependencies[n] \subseteq Nodes
      BY DEF OrderInv, Queue, OrderTypeOK
    <3> QED
      BY <3>2, <3>3 DEF Unplaced
  <2>4. Cyclic(Nodes \ Placed)
    BY <2>2, <2>3 DEF Cyclic
  <2>5. Cyclic(Nodes \ Placed)'
    BY <1>1, <2>4 DEF Cyclic
  <2>6. verdict' = "cycle"
    BY <1>4 DEF Judge
  <2> QED
    BY <1>1, <2>5, <2>6 DEF CycleVerdict
<1> QED
  BY <1>3, <1>4

----------------------------------------------------------------------------
\* The invariant holds of a graph nothing is placed of.
LEMMA OrderInvInit == OrderInit => OrderInv
<1> SUFFICES ASSUME OrderInit PROVE OrderInv
  OBVIOUS
<1>1. ordered = <<>> /\ Len(ordered) = 0 /\ Placed = {}
  BY DEF OrderInit, Placed
<1>2. dependencies \in [Nodes -> SUBSET Nodes]
  BY DEF OrderInit
<1>3. \A n \in Nodes : Unplaced(n) = dependencies[n]
  BY <1>1 DEF Unplaced
<1>4. \A n \in Nodes : incoming[n] = Cardinality(Unplaced(n))
  BY <1>3 DEF OrderInit
<1>5. \A n \in Nodes : Cardinality(dependencies[n]) \in Nat
  <2> SUFFICES ASSUME NEW n \in Nodes PROVE Cardinality(dependencies[n]) \in Nat
    OBVIOUS
  <2>1. IsFiniteSet(dependencies[n])
    BY <1>2, FS_Subset, OrderAssumption
  <2> QED
    BY <2>1, FS_CardinalityType
<1>6. OrderTypeOK
  <2>1. incoming \in [Nodes -> Nat]
    BY <1>5 DEF OrderInit
  <2> QED
    BY <1>1, <1>2, <2>1 DEF OrderInit, OrderTypeOK
<1>7. Queue
  BY <1>1, <1>3, <1>4, <1>6 DEF Queue, Counts, ReadyNow, DepsPlaced, OrderInit
<1>8. PlacedSize
  BY <1>1, FS_EmptySet DEF PlacedSize
<1> QED
  BY <1>1, <1>7, <1>8
     DEF OrderInv, InputsComeFirst, OrderedOnce, CyclesOutside, Overtaken, CycleVerdict, OrderInit

\* The invariant is inductive.
LEMMA OrderInvHolds == OrderSpec => []OrderInv
<1>1. OrderInv /\ [OrderNext]_orderVars => OrderInv'
  <2> SUFFICES ASSUME OrderInv, [OrderNext]_orderVars PROVE OrderInv'
    OBVIOUS
  <2>1. ASSUME NEW n \in Nodes, Place(n) PROVE OrderInv'
    <3>1. CycleVerdict'
      BY <2>1 DEF Place, CycleVerdict
    <3> QED
      BY <2>1, <3>1, PlaceQueue, PlaceOrder, PlaceCycles, PlaceOvertakes DEF OrderInv
  <2>2. CASE Judge
    <3>1. UNCHANGED <<dependencies, incoming, ready, ordered>> /\ UNCHANGED Placed
      BY <2>2 DEF Judge, Placed
    <3>2. Queue'
      BY <2>2, <3>1 DEF Judge, OrderInv, Queue, OrderTypeOK, Counts, ReadyNow, DepsPlaced, Unplaced
    <3>3. InputsComeFirst' /\ OrderedOnce' /\ PlacedSize' /\ CyclesOutside' /\ Overtaken'
      BY <3>1 DEF OrderInv, InputsComeFirst, OrderedOnce, PlacedSize, CyclesOutside, Overtaken,
                  Cyclic
    <3> QED
      BY <2>2, <3>2, <3>3, JudgeVerdict DEF OrderInv
  <2>3. CASE UNCHANGED orderVars
    <3>1. UNCHANGED Placed
      BY <2>3 DEF orderVars, Placed
    <3>2. Queue'
      BY <2>3, <3>1 DEF orderVars, OrderInv, Queue, OrderTypeOK, Counts, ReadyNow, DepsPlaced, Unplaced
    <3> QED
      BY <2>3, <3>1, <3>2 DEF orderVars, OrderInv, InputsComeFirst, OrderedOnce, PlacedSize,
                  CyclesOutside, Overtaken, Cyclic, CycleVerdict
  <2> QED
    BY <2>1, <2>2, <2>3 DEF OrderNext, Judged
<1> QED
  BY OrderInvInit, <1>1, PTL DEF OrderSpec

\* The queue's variables keep their types; no count goes below zero.
THEOREM OrderTypeCorrect == OrderSpec => []OrderTypeOK
BY OrderInvHolds, PTL DEF OrderInv, Queue

\* In any graph a step is ordered after every step it reads, so the executor finds
\* its references resolved.
THEOREM InputsAlwaysFirst == OrderSpec => []InputsComeFirst
BY OrderInvHolds, PTL DEF OrderInv

\* No step of any graph is ordered twice.
THEOREM NothingOrderedTwice == OrderSpec => []OrderedOnce
BY OrderInvHolds, PTL DEF OrderInv

\* A graph is refused exactly when it has a cycle, and accepted whole.
THEOREM RefusedIffCyclic == OrderSpec => []CycleVerdict
BY OrderInvHolds, PTL DEF OrderInv

\* The order follows the ranks wherever the dependencies leave it free.
THEOREM RanksAreKept == OrderSpec => []RankedOrder
<1>1. OrderInv => RankedOrder
  <2> SUFFICES ASSUME OrderInv, NEW i \in 1 .. Len(ordered), NEW k \in 1 .. Len(ordered),
                      i < k, Rank[ordered[k]] < Rank[ordered[i]]
               PROVE  \E j \in i .. (k - 1) : ordered[j] \in dependencies[ordered[k]]
    BY DEF RankedOrder
  <2>1. ordered[k] \in Nodes /\ Len(ordered) \in Nat
    BY DEF OrderInv, Queue, OrderTypeOK
  <2>2. \A j \in 1 .. i : ordered[j] # ordered[k]
    BY <2>1 DEF OrderInv, OrderedOnce
  <2>3. PICK p \in dependencies[ordered[k]] : \A j \in 1 .. (i - 1) : ordered[j] # p
    BY <2>1, <2>2 DEF OrderInv, Overtaken
  <2>4. PICK j \in 1 .. (k - 1) : ordered[j] = p
    BY DEF OrderInv, InputsComeFirst
  <2>5. j \in i .. (k - 1)
    BY <2>1, <2>3, <2>4
  <2> QED
    BY <2>3, <2>4, <2>5
<1> QED
  BY <1>1, OrderInvHolds, PTL
=============================================================================
