--------------------------- MODULE PlanReferences ---------------------------
(***************************************************************************)
(* What the steps of a plan hand each other by reference, when its measures *)
(* are totalled (the execution loop of agent/spatial.py).                   *)
(*                                                                         *)
(* A plan is a sequence of steps [kind, reads, ends] in the order they run. *)
(* A reference is [root, path]: the step it points at and the item of its   *)
(* result, 0 for the whole. The kinds: a matrix of all the stops; a route   *)
(* between two stops ("ends"), or from where the route it reads arrives;    *)
(* the amount extracted from a result; and the sum of a list. A result is   *)
(* [ok, amounts]: every amount is the sequence of routed legs it stands for,*)
(* each marked with the step that measured it and its item there.           *)
(* A step that raises, or a tool that answers an error, leaves Broken.      *)
(***************************************************************************)
EXTENDS RouteTotals

Broken == [ok |-> FALSE, amounts |-> <<>>]
Result(amounts) == [ok |-> TRUE, amounts |-> amounts]

\* _step_sources, _derives_from: which steps a step was computed from, however many steps back.
Sources(plan, k) == {plan[k].reads[i].root : i \in DOMAIN plan[k].reads}
Derivation(plan) ==
  LET from[k \in DOMAIN plan] == Sources(plan, k) \cup UNION {from[j] : j \in Sources(plan, k)}
  IN from

\* Mutant of Addends: a measurement is added beside what it was measured from.
AddendsAll(plan, k) == plan[k].reads

\* _drop_subsumed_addends: an addend is dropped when another one was computed from the step it
\* points at, or when an earlier one points at the same step.
Addends(plan, k) ==
  LET reads == plan[k].reads
      Subsumed(i) == \E j \in DOMAIN reads :
        reads[j].root # reads[i].root /\ reads[i].root \in Derivation(plan)[reads[j].root]
      Again(i) == \E j \in 1 .. i - 1 : reads[j].root = reads[i].root
  IN ItemsAt(reads, {i \in DOMAIN reads : ~Subsumed(i) /\ ~Again(i)})
Read(plan, k) == IF plan[k].kind = "sum" THEN Addends(plan, k) ELSE plan[k].reads

\* Mutant of Resolved: the mark of a failed step travels on as data.
ResolvedAnyway(results, ref) ==
  LET v == results[ref.root]
  IN IF ref.path \in DOMAIN v.amounts THEN Result(<<v.amounts[ref.path]>>) ELSE Result(v.amounts)

\* _resolve_references: the mark of a failed step is not evidence; a path that leads nowhere
\* degrades to the object it started from.
Resolved(results, ref) ==
  LET v == results[ref.root]
  IN CASE ~v.ok -> Broken
       [] v.ok /\ ref.path \in DOMAIN v.amounts -> Result(<<v.amounts[ref.path]>>)
       [] OTHER -> v

\* _amount_number, _single_metric: a leg that was not routed carries no metres.
Measured(v) == \A i \in DOMAIN v.amounts : \A j \in DOMAIN v.amounts[i] : v.amounts[i][j].ok
Amounts(values) == FlattenSeq([i \in DOMAIN values |-> values[i].amounts])
LegsOf(v) == FlattenSeq(v.amounts)
By(k, item, pair) ==
  [by |-> k, item |-> item, from |-> pair.from, to |-> pair.to, ok |-> pair.ok, m |-> pair.m, s |-> pair.s]

\* A step's operator over what its references resolved to; failing: the routes the provider fails.
Outcome(plan, k, results, stops, failing) ==
  LET step == plan[k]
      read == [i \in DOMAIN Read(plan, k) |-> Resolved(results, Read(plan, k)[i])]
      origin == IF read = <<>> \/ (read # <<>> /\ LegsOf(read[1]) = <<>>) THEN stops[step.ends[1]]
                ELSE LegsOf(read[1])[1].to
      leg == By(k, 1, RoutedPair(origin, stops[step.ends[2]], failing # {}))
      matrix == [i \in 1 .. Len(stops) * Len(stops) |-> By(k, i, DistanceMatrix(stops, stops, failing)[i])]
  IN CASE \E i \in DOMAIN read : ~read[i].ok -> Broken
       [] (\A i \in DOMAIN read : read[i].ok) /\ step.kind = "matrix" ->
            Result([i \in DOMAIN matrix |-> <<matrix[i]>>])
       [] (\A i \in DOMAIN read : read[i].ok) /\ step.kind = "route" ->
            IF leg.ok THEN Result(<<<<leg>>>>) ELSE Broken
       [] (\A i \in DOMAIN read : read[i].ok) /\ step.kind = "extract" ->
            IF Measured(read[1]) THEN read[1] ELSE Broken
       [] (\A i \in DOMAIN read : read[i].ok) /\ step.kind = "sum" ->
            IF Measured([amounts |-> Amounts(read)]) THEN Result(<<FlattenSeq(Amounts(read))>>) ELSE Broken
=============================================================================
