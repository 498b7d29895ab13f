----------------------------- MODULE GraphOrder -----------------------------
(***************************************************************************)
(* The queue that orders an operator graph for execution, as the G1 check  *)
(* of the validator and the normalizer of the executable graph both run    *)
(* it: take the ready step of the lowest rank, count it off its consumers, *)
(* and refuse the graph if steps are left when nothing is ready. The rank  *)
(* is the id in the one and role priority, then position, in the other.    *)
(***************************************************************************)
EXTENDS Integers, Sequences, FiniteSets

CONSTANTS
  Nodes,   \* the transformation edges, or the operator steps
  Rank     \* their rank in the ready list

ASSUME OrderAssumption ==
  /\ IsFiniteSet(Nodes)
  /\ Rank \in [Nodes -> Int]
  /\ \A m, n \in Nodes : Rank[m] = Rank[n] => m = n

VARIABLES
  dependencies,  \* the graph: the steps each step reads
  incoming,      \* how many of them are not ordered yet
  ready,         \* the ready list, as a set: it is sorted before each pop
  ordered,       \* the order so far
  verdict        \* "ordering", then "accepted" or "cycle"

orderVars == <<dependencies, incoming, ready, ordered, verdict>>

Placed == {ordered[i] : i \in 1 .. Len(ordered)}

OrderTypeOK ==
  /\ dependencies \in [Nodes -> SUBSET Nodes]
  /\ incoming \in [Nodes -> Nat]
  /\ ready \subseteq Nodes
  /\ ordered \in Seq(Nodes)
  /\ verdict \in {"ordering", "accepted", "cycle"}

\* A step that reads itself is a cycle to the normalizer; G1 never sees one, as the
\* validator drops such an edge.
OrderInit ==
  /\ dependencies \in [Nodes -> SUBSET Nodes]
  /\ incoming = [n \in Nodes |-> Cardinality(dependencies[n])]
  /\ ready = {n \in Nodes : dependencies[n] = {}}
  /\ ordered = <<>>
  /\ verdict = "ordering"

\* Mutant of First: the ready list is a stack that nobody sorts.
AnyReady(n) == n \in ready
\* The list is sorted, and its head popped.
First(n) == n \in ready /\ \A m \in ready : Rank[n] <= Rank[m]

\* The consumers of n whose count it brings to zero.
Freed(n) == {m \in Nodes : n \in dependencies[m] /\ incoming[m] = 1}

Place(n) ==
  /\ verdict = "ordering"
  /\ First(n)
  /\ ordered' = Append(ordered, n)
  /\ incoming' = [m \in Nodes |->
       IF n \in dependencies[m] THEN incoming[m] - 1 ELSE incoming[m]]
  /\ ready' = (ready \ {n}) \cup Freed(n)
  /\ UNCHANGED <<dependencies, verdict>>

\* Mutant of Whole: the length is not compared.
WholeAlways == TRUE
Whole == Len(ordered) = Cardinality(Nodes)

Judge ==
  /\ verdict = "ordering"
  /\ ready = {}
  /\ verdict' = IF Whole THEN "accepted" ELSE "cycle"
  /\ UNCHANGED <<dependencies, incoming, ready, ordered>>

Judged == verdict # "ordering" /\ UNCHANGED orderVars

OrderNext == (\E n \in Nodes : Place(n)) \/ Judge \/ Judged

OrderSpec == OrderInit /\ [][OrderNext]_orderVars
----------------------------------------------------------------------------
(* Properties.                                                             *)

\* Steps that each wait for another of them: none of them can ever run.
Cyclic(S) == S # {} /\ \A n \in S : dependencies[n] \cap S # {}

\* A step stands after every step it reads, so that its references are values when
\* execute_topologically resolves them.
InputsComeFirst ==
  \A i \in 1 .. Len(ordered) : \A p \in dependencies[ordered[i]] :
    \E j \in 1 .. (i - 1) : ordered[j] = p

\* No step runs twice.
OrderedOnce ==
  \A i, j \in 1 .. Len(ordered) : ordered[i] = ordered[j] => i = j

\* The graph is refused if and only if it has a cycle, and what is accepted is the
\* whole of it.
CycleVerdict ==
  /\ verdict = "accepted" => Placed = Nodes /\ \A S \in SUBSET Nodes : ~Cyclic(S)
  /\ verdict = "cycle" => \E S \in SUBSET Nodes : Cyclic(S)

\* The order is the one the ranks ask for: a step is overtaken by a higher rank only
\* while it waits for a step at or after that one.
RankedOrder ==
  \A i, k \in 1 .. Len(ordered) :
    (i < k /\ Rank[ordered[k]] < Rank[ordered[i]]) =>
      \E j \in i .. (k - 1) : ordered[j] \in dependencies[ordered[k]]
=============================================================================
