---------------------------- MODULE ConceptGraph ----------------------------
(***************************************************************************)
(* The concept graph G of GeoFlow: concepts, and the transformations that   *)
(* read and produce them. Its types (semantics.py), the concepts a          *)
(* transformation implies (concepts.py), the rules G1 to G5 (validation.py) *)
(* and the facts bound to it before them (factorization.py).                *)
(*                                                                         *)
(* A graph is [node, pool, factors, edges]: node maps a concept's id to its *)
(* [core, role, implicit, named], pool lists the ids in the order they were *)
(* added, factors is the set of factors, edges the sequence of              *)
(* [id, t, ins, outs, factors, via, role], role the one the planner gave it *)
(* or Unsaid. An id is a pair: a name, and a number or what it was made of. *)
(* What a named concept says is its id. A factor is <<type, value, the      *)
(* concepts it cites>>.                                                     *)
(***************************************************************************)
EXTENDS Lists, FiniteSets, TLC

CoreConcepts == {"location", "object", "field", "event", "network", "amount", "proportion"}
FunctionalRoles ==
  {"extent", "temporal_extent", "sub_condition", "condition", "support", "measure"}
ContextualRoles == {"extent", "temporal_extent"}
Unsaid == "unsaid"
RoleOrder == [sub_condition |-> 0, condition |-> 1, support |-> 2, measure |-> 3]

\* TRANSFORMS: what each transformation produces by default.
OutputType ==
  [RESOLVE_PLACES |-> "object", PLACE_SEARCH |-> "object", PLACE_DETAILS |-> "object",
   DISTANCE_MEASURE |-> "object", ROUTE_MEASURE |-> "field", ROUTE_MATRIX |-> "field",
   SELECT_LEGS |-> "field", ROUTE_EXTRACT |-> "amount", ROUTE_STEPS |-> "field",
   ROUTE_COMPARE |-> "object", ROUTE_OPTIMIZE |-> "network", SCHEDULE |-> "event",
   FILTER |-> "object", SORT |-> "object", ORDINAL_SELECT |-> "object",
   EXTREME_SELECT |-> "object", AGGREGATE |-> "amount", MATCH_OPTIONS |-> "object",
   MEASURE |-> "object"]
Transforms == DOMAIN OutputType

PolymorphicOutputs ==
  [RESOLVE_PLACES |-> {"location", "object"}, DISTANCE_MEASURE |-> {"amount", "field", "object"},
   FILTER |-> {"field", "object"}, SORT |-> {"field", "object"},
   ORDINAL_SELECT |-> {"location", "object"}, EXTREME_SELECT |-> {"amount", "location", "object"},
   ROUTE_COMPARE |-> {"field", "object"}, ROUTE_OPTIMIZE |-> {"network", "object"},
   AGGREGATE |-> {"amount", "proportion"},
   MEASURE |-> {"amount", "event", "field", "network", "object", "proportion"}]

AcceptedOutputTypes(t) ==
  IF t \in DOMAIN PolymorphicOutputs THEN PolymorphicOutputs[t]
  ELSE IF t \in Transforms THEN {OutputType[t]} ELSE {}

AcceptedInputTypes ==
  [RESOLVE_PLACES |-> {"location", "object"}, PLACE_SEARCH |-> {"location", "object"},
   PLACE_DETAILS |-> {"location", "object"}, DISTANCE_MEASURE |-> {"field", "location", "object"},
   ROUTE_MEASURE |-> {"location", "network", "object"},
   ROUTE_MATRIX |-> {"location", "network", "object"}, SELECT_LEGS |-> {"field", "network"},
   ROUTE_EXTRACT |-> {"field", "network"}, ROUTE_STEPS |-> {"field", "network", "object"},
   ROUTE_COMPARE |-> {"field", "object"},
   ROUTE_OPTIMIZE |-> {"field", "location", "network", "object"},
   SCHEDULE |-> {"amount", "event", "field", "network"},
   FILTER |-> {"amount", "field", "location", "object"}, SORT |-> {"amount", "field", "object"},
   ORDINAL_SELECT |-> {"field", "object"}, EXTREME_SELECT |-> {"amount", "field", "object"},
   AGGREGATE |-> CoreConcepts \ {"event"}, MATCH_OPTIONS |-> CoreConcepts \ {"location"},
   MEASURE |-> CoreConcepts]

-----------------------------------------------------------------------------
Ids(g) == DOMAIN g.node
EdgeIds(g) == {e.id : e \in ToSet(g.edges)}

\* A concept.
IsConcept(c) == c = [core |-> c.core, role |-> c.role, implicit |-> c.implicit, named |-> c.named]

\* A transformation, and a sequence of them.
IsEdge(e) ==
  /\ e = [id |-> e.id, t |-> e.t, ins |-> e.ins, outs |-> e.outs, factors |-> e.factors, via |-> e.via,
          role |-> e.role]
  /\ e.id = <<e.id[1], e.id[2]>>
  /\ Listing(e.ins) /\ Listing(e.outs) /\ Listing(e.via)
AreEdges(edges) == Listing(edges) /\ \A i \in DOMAIN edges : IsEdge(edges[i])

\* _unique_ids, of the transformations: no graph is built in which two have one id.
NamedApart(g) == \A i, j \in DOMAIN g.edges : g.edges[i].id = g.edges[j].id => i = j

\* add: an id that is there keeps its node (also _add_concept's setdefault).
Added(g, id, node) ==
  IF id \in Ids(g) THEN g
  ELSE [g EXCEPT !.node = [i \in Ids(g) \cup {id} |-> IF i = id THEN node ELSE g.node[i]],
                 !.pool = Append(g.pool, id)]

Network == <<"implicit_network", 0>>
Route == <<"implicit_route", 0>>
SpatialField == <<"implicit_spatial_field", 0>>
ImplicitNode(core) == [core |-> core, role |-> "support", implicit |-> TRUE, named |-> TRUE]

Routing == {"ROUTE_MEASURE", "ROUTE_MATRIX", "ROUTE_OPTIMIZE", "SELECT_LEGS"}
ReadsRoutes == {"ROUTE_OPTIMIZE", "SELECT_LEGS", "ROUTE_EXTRACT", "ROUTE_COMPARE", "AGGREGATE"}

FirstOf(g, transforms) ==
  CHOOSE i \in 1..Len(g.edges) :
    g.edges[i].t \in transforms /\ \A j \in 1..(i - 1) : g.edges[j].t \notin transforms
Uses(g, transforms) == \E e \in ToSet(g.edges) : e.t \in transforms

\* The road network every routing step reads, and the route the later readers of routes get.
WithNetwork(g) ==
  IF ~Uses(g, Routing) THEN g
  ELSE LET first == FirstOf(g, Routing)
           Completed(i) ==
             LET e == g.edges[i] IN
             CASE i = first -> [e EXCEPT !.ins = Distinct(Append(@, Network)),
                                         !.outs = Distinct(Append(@, Route))]
               [] i > first /\ e.t \in ReadsRoutes /\ "field" \in AcceptedInputTypes[e.t] ->
                    [e EXCEPT !.ins = Distinct(Append(@, Route))]
               [] OTHER -> e
           nodes == Added(Added(g, Network, ImplicitNode("network")), Route, ImplicitNode("field"))
       IN [nodes EXCEPT !.edges = [i \in 1..Len(g.edges) |-> Completed(i)]]

WithSpatialField(g) ==
  LET nodes == Added(g, SpatialField, ImplicitNode("field")) IN
  IF ~Uses(g, {"DISTANCE_MEASURE", "SORT", "FILTER"}) THEN g
  ELSE IF ~Uses(g, {"DISTANCE_MEASURE"}) THEN nodes
  ELSE [nodes EXCEPT !.edges[FirstOf(g, {"DISTANCE_MEASURE"})].outs =
                       Distinct(Append(@, SpatialField))]

WithImplicitConcepts(g) == WithSpatialField(WithNetwork(g))

-----------------------------------------------------------------------------
\* validate_geoflow_graph. A verdict is "accepted" or the first rule that refuses.

Producers(g, id) == {e \in ToSet(g.edges) : id \in ToSet(e.outs)}
Parents(g, e) == {p \in ToSet(g.edges) : p # e /\ ToSet(p.outs) \cap ToSet(e.ins) # {}}

\* The concepts that some factors cite (source_concepts).
Cited(factors) == UNION {f[3] : f \in factors}

\* G4, before anything is looked up: every name is known, those that factors cite included, and
\* has one producer.
NamesKnown(g) ==
  /\ \A e \in ToSet(g.edges) :
       /\ ToSet(e.ins) \cup ToSet(e.outs) \subseteq Ids(g)
       /\ e.factors \subseteq g.factors
  /\ \A id \in Ids(g) : Cardinality(Producers(g, id)) <= 1
  /\ Cited(g.factors) \subseteq Ids(g)

\* G1, by the order that _topological_order finds (see GraphOrder).
Acyclic(g) ==
  \A S \in SUBSET ToSet(g.edges) : S # {} => \E e \in S : Parents(g, e) \cap S = {}

Contextual(g, id) == g.node[id].role \in ContextualRoles
Inverted(from, to) ==
  /\ {from, to} \subseteq DOMAIN RoleOrder
  /\ RoleOrder[from] > RoleOrder[to]

\* What is wrong with one transformation, in the order of the loop over the edges.
OutputsTyped(g, e) == \A id \in ToSet(e.outs) : g.node[id].core \in AcceptedOutputTypes(e.t)
InputsTyped(g, e) == \A id \in ToSet(e.ins) : g.node[id].core \in AcceptedInputTypes[e.t]
RolesAdvance(g, e) ==
  \A i \in ToSet(e.ins), o \in ToSet(e.outs) : ~Inverted(g.node[i].role, g.node[o].role)
EdgeVerdict(g, e) ==
  IF e.t = "MATCH_OPTIONS" THEN "match_options"
  ELSE IF e.t \notin Transforms THEN "unknown_transformation"
  ELSE IF ~OutputsTyped(g, e) THEN "output_type"
  ELSE IF ~InputsTyped(g, e) THEN "input_type"
  ELSE IF ~RolesAdvance(g, e) THEN "role_order"
  ELSE "accepted"

\* _closure and _reverse_closure: the smallest set around the start that is closed.
Closure(all, start, next) ==
  {e \in all : \A S \in SUBSET all :
                 (start \subseteq S /\ \A n \in S : next[n] \subseteq S) => e \in S}

SourceEdges(g) ==
  {e \in ToSet(g.edges) :
    /\ Parents(g, e) = {}
    /\ \/ e.ins = <<>>
       \/ \E id \in ToSet(e.ins) \cup ToSet(e.outs) : Contextual(g, id)}
MeasureEdges(g) ==
  {e \in ToSet(g.edges) : \E id \in ToSet(e.outs) : g.node[id].role = "measure"}

Verdict(g) ==
  LET all == ToSet(g.edges)
      upstream == [e \in all |-> Parents(g, e)]
      children == [e \in all |-> {c \in all : e \in upstream[c]}]
      faulty == {i \in 1..Len(g.edges) : EdgeVerdict(g, g.edges[i]) # "accepted"}
  IN IF ~NamesKnown(g) THEN "unknown_name"
     ELSE IF ~Acyclic(g) THEN "cycle"
     ELSE IF faulty # {} THEN EdgeVerdict(g, g.edges[CHOOSE i \in faulty : \A j \in faulty : i <= j])
     ELSE IF SourceEdges(g) = {} THEN "no_source"
     ELSE IF MeasureEdges(g) = {} THEN "no_measure"
     ELSE IF Closure(all, SourceEdges(g), children) # all THEN "unavailable"
     ELSE IF Closure(all, MeasureEdges(g), upstream) # all THEN "disconnected"
     ELSE "accepted"

-----------------------------------------------------------------------------
\* The facts of the question, bound to the graph before it is judged.

\* _factor_applies.
FactorsOf(t) ==
  CASE t = "FILTER" -> {"radius_m", "direction", "target_subtype"}
    [] t = "ORDINAL_SELECT" -> {"ordinal"}
    [] t = "ROUTE_MEASURE" -> {"metric", "measure"}
    [] t = "ROUTE_MATRIX" -> {"metric", "measure", "fixed_order", "return_to_start"}
    [] t = "ROUTE_OPTIMIZE" -> {"time_budget_s", "stay_duration_s", "stays", "metric", "measure",
                                "fixed_order", "return_to_start"}
    [] t = "SCHEDULE" -> {"time_budget_s", "stay_duration_s", "stays"}
    [] t = "AGGREGATE" -> {"metric", "measure", "aggregate"}
    [] OTHER -> {}

\* route_through_the_stated_stop: only a lone route that declares no stop of its own.
RoutedThrough(g, stop) ==
  LET routes == {i \in 1..Len(g.edges) : g.edges[i].t = "ROUTE_MEASURE"} IN
  IF stop \in Ids(g) /\ g.node[stop].named /\ Cardinality(routes) = 1 /\ (\A i \in routes : g.edges[i].via = <<>>)
  THEN [g EXCEPT !.edges = [i \in 1..Len(g.edges) |->
          IF i \in routes THEN [g.edges[i] EXCEPT !.ins = Distinct(Append(@, stop)), !.via = <<stop>>]
          ELSE g.edges[i]]]
  ELSE g

\* attach_grounding_factors. stated holds the facts that say something, stop the concept whose
\* text is the stop they state, or no concept.
FactorTypes(factors) == {f[1] : f \in factors}
Grounded(g, stated, stop) ==
  LET routed == RoutedThrough(g, stop)
      added == {f \in stated : f[1] \notin FactorTypes(g.factors)}
      Bound(e) == [e EXCEPT !.factors = @ \cup {f \in added : f[1] \in FactorsOf(e.t)}]
  IN [routed EXCEPT !.factors = @ \cup added, !.edges = Mapped(Bound, routed.edges)]
=============================================================================
