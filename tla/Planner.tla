------------------------------ MODULE Planner ------------------------------
(***************************************************************************)
(* One call of _factorize_validate_plan, up to its last validation (see     *)
(* PlanGraph): a draft is completed and bound to the facts of the question, *)
(* completed again, judged, turned into operators one transformation at a   *)
(* time, what the question states is bound to the operators, and roles and  *)
(* concepts to the steps.                                                   *)
(* A refusal is a ValueError, which the agent may answer with a repair or a *)
(* lenient pass (see SpatialAgent); what raises otherwise ends the question.*)
(***************************************************************************)
EXTENDS Hypergraph

CONSTANTS
  Questions, \* a question and its draft: [facts, draft], facts a statement (see Grounding) and
             \* draft what the planner writes, [node, pool, factors, edges, steps], steps if it
             \* is in the older format
  MaxSteps   \* MAX_REASONING_STEPS

ASSUME MaxStepsAssumption == MaxSteps \in Nat

\* What parsing leaves: a draft lists its concepts and transformations, part of what is part of
\* a name is part of that name (_is_shortened_name compares substrings), and what the question
\* states cites no concept (grounding_factor_nodes).
ASSUME QuestionsAssumption ==
  \A q \in Questions :
    /\ Listing(q.draft.pool) /\ ToSet(q.draft.pool) = DOMAIN q.draft.node
    /\ \A id \in DOMAIN q.draft.node : IsConcept(q.draft.node[id])
    /\ AreEdges(q.draft.edges)
    /\ q.facts.kinds \in Nat
    /\ Cited(q.facts.stated) = {}
    /\ \A s, p \in q.facts.short : s[2] = p[1] => <<s[1], p[2]>> \in q.facts.short

VARIABLES stage, draft, facts, strict, graph, plan, at, grounded, bound
vars == <<stage, draft, facts, strict, graph, plan, at, grounded, bound>>

Refusals ==
  {"empty", "duplicate", "too_long", "unknown_name", "cycle", "match_options", "unknown_transformation",
   "output_type", "input_type", "role_order", "no_source", "no_measure", "unavailable",
   "disconnected", "no_center", "unread_input"}
Ended == Refusals \cup {"bound", "index_error"}
Stages == {"drafted", "completed", "settled", "factorizing", "planned", "grounded"} \cup Ended

Init ==
  /\ stage = "drafted"
  /\ \E q \in Questions : draft = q.draft /\ facts = q.facts
  /\ strict \in BOOLEAN
  /\ graph = GraphOf(draft)
  /\ plan = NoPlan
  /\ at = 0
  /\ grounded = <<>>
  /\ bound = <<>>

StatedTypes == FactorTypes(facts.stated)

\* plan_to_geoflow and attach_grounding_factors, then the limit on what the planner wrote.
Complete ==
  /\ stage = "drafted"
  /\ IF HasEdges(draft)
     THEN /\ graph' = Grounded(IF draft.steps THEN FromSteps(draft) ELSE Canonical(draft),
                                facts.stated, facts.stop)
          /\ stage' = CASE ~NamedApart(graph') -> "duplicate"
                        [] NamedApart(graph') /\ Len(graph'.edges) > MaxSteps -> "too_long"
                        [] OTHER -> "completed"
     ELSE stage' = "empty" /\ UNCHANGED graph
  /\ UNCHANGED <<draft, facts, strict, plan, at, grounded, bound>>

\* factorize_plan: the completed graph is completed once more,
Settle ==
  /\ stage = "completed"
  /\ graph' = Canonical(graph)
  /\ stage' = IF NamedApart(graph') THEN "settled" ELSE "duplicate"
  /\ UNCHANGED <<draft, facts, strict, plan, at, grounded, bound>>

\* and validated, strict or not.
Validate ==
  /\ stage = "settled"
  /\ stage' = LET verdict == Verdict(graph) IN IF verdict = "accepted" THEN "factorizing" ELSE verdict
  /\ UNCHANGED <<draft, facts, strict, graph, plan, at, grounded, bound>>

\* One turn of the loop of factorize_semantic_graph.
Factorize ==
  /\ stage = "factorizing" /\ at < Len(graph.edges)
  /\ at' = at + 1
  /\ plan' = WithStep(plan, graph, graph.edges[at + 1], StatedTypes, strict)
  /\ stage' = IF plan'.error = "none" THEN stage ELSE plan'.error
  /\ UNCHANGED <<draft, facts, strict, graph, grounded, bound>>

Plan ==
  /\ stage = "factorizing" /\ at = Len(graph.edges)
  /\ stage' = "planned"
  /\ UNCHANGED <<draft, facts, strict, graph, plan, at, grounded, bound>>

Ground ==
  /\ stage = "planned" /\ stage' = "grounded"
  /\ grounded' = GroundedGraph(plan, facts)
  /\ UNCHANGED <<draft, facts, strict, graph, plan, at, bound>>

EdgeFor(n) == CHOOSE e \in ToSet(graph.edges) : e.id = n.id
Named ==
  [id \in {n.id : n \in ToSet(grounded)} |->
     IF id \in EdgeIds(graph)
     THEN Kept(EdgeFor([id |-> id]).outs, LAMBDA c : ~graph.node[c].implicit) ELSE <<>>]

\* The steps emit the concepts of the analysis, which the draft shares.
Bind ==
  /\ stage = "grounded" /\ stage' = "bound"
  /\ bound' = BoundGraph(grounded, Completed([pool |-> draft.pool, node |-> draft.node]), Named)
  /\ UNCHANGED <<draft, facts, strict, graph, plan, at, grounded>>

Next == Complete \/ Settle \/ Validate \/ Factorize \/ Plan \/ Ground \/ Bind
Spec == Init /\ [][Next]_vars /\ WF_vars(Next)

-----------------------------------------------------------------------------
\* Every variable keeps its shape, and a plan is only extended while the loop runs.
TypeOK ==
  /\ stage \in Stages /\ strict \in BOOLEAN
  /\ at \in 0..Len(graph.edges)
  /\ \A id \in Ids(graph) : graph.node[id].core \in CoreConcepts /\ graph.node[id].role \in FunctionalRoles
  /\ ToSet(graph.pool) = Ids(graph)

\* Names completion makes up (result_<edge>, <concept>__<edge>, the implied concepts), and drafts
\* whose names are the planner's own.
MadeUp == {"result", "renamed", "implicit_route", "implicit_spatial_field"}
NamesItsOwn(d) ==
  \A id \in ToSet(d.pool) \cup UNION {ToSet(e.outs) : e \in ToSet(d.edges)} : id[1] \notin MadeUp

\* The factors the planner wrote, those of the transformations that stay among them.
Written(d) == d.factors \cup UNION {e.factors : e \in {x \in ToSet(d.edges) : x.t # "MATCH_OPTIONS"}}

\* What completion is for: once a draft is completed, no refusal of it is about a concept of a type
\* its maker cannot produce, or a plan that answers nothing; nor about a name nothing declares or
\* two transformations make, unless a factor the planner wrote cites a concept that nothing
\* declares still, which completion leaves as it is. (A name completion makes up is not looked for
\* in the draft, which could use it for something else.)
CompletionSuffices ==
  stage = "settled" /\ NamesItsOwn(draft) =>
    /\ Verdict(graph) \notin {"output_type", "no_measure"}
    /\ Cited(Written(draft)) \subseteq Ids(graph) => Verdict(graph) # "unknown_name"

\* A node and all it depends on, however many nodes back: what every set of nodes holds that holds
\* the one and, with each node, what that depends on.
Closed(F, S) == \A n \in ToSet(F.graph) : n.id \in S => ToSet(n.deps) \subseteq S
Needs(F, id, below) == \A S \in SUBSET NodeIds(F) : id \in S /\ Closed(F, S) => below \in S

\* A transformation that reads what an earlier one makes still depends on it in the plan, however
\* many nodes were fused into it or composed between the two.
DependenciesSurvive ==
  stage = "planned" =>
    LET Of(i) == Followed(plan, graph.edges[i].id)
    IN \A j \in 1..Len(graph.edges) : \A i \in 1..(j - 1) :
         ToSet(graph.edges[i].outs) \cap ToSet(graph.edges[j].ins) # {} =>
           {Of(i), Of(j)} \subseteq NodeIds(plan) /\ Needs(plan, Of(j), Of(i))

\* The places a node was asked about: those its transformation reads and a geocode locates.
Asked(n) == ToSet(EdgeFor(n).ins) \cap Claimed(plan)
Waypoints(n) == IF "waypoints" \in DOMAIN n.args THEN ToSet(n.args.waypoints) ELSE {}

\* A route is not sent from or to a stop it goes through, if it reads two other places: with the
\* places resolved together in one list,
StopSafe(n) ==
  /\ n.op = "directions" /\ n.id \in EdgeIds(graph)
  /\ Cardinality(Asked(n) \ ToSet(EdgeFor(n).via)) >= 2
  => (ToSet(n.args.origin) \cup ToSet(n.args.destination)) \cap Waypoints(n) = {}
EndsAreNotStops == \A n \in ToSet(plan.graph) : Len(n.deps) = 1 => StopSafe(n)

\* The same wherever the places were resolved: a drive measured between two places and sent
\* through the stop the question states still ends at both of them (ends of wire_arguments).
StatedStopIsPassed == \A n \in ToSet(plan.graph) : StopSafe(n)

\* A tour over a matrix between several inputs goes over the stops that matrix measures, in
\* their order: the order a tour returns indexes into its rows.
TourMatchesMatrix ==
  \A n \in ToSet(plan.graph) :
    n.op = "tsp_tw" /\ {"nodes", "distance_matrix"} \subseteq DOMAIN n.args =>
      LET matrix == NodeOf(plan, n.args.distance_matrix[1][1])
      IN matrix.op = "distance_matrix" /\ Len(matrix.deps) >= 2 => n.args.nodes = matrix.args.origins

-----------------------------------------------------------------------------
\* What grounding leaves of the plan.
Nodes(ids) == Kept(grounded, LAMBDA n : n.id \in ids)
Literal(n, name, default) == IF name \in DOMAIN n.lit THEN n.lit[name] ELSE default

\* Every reference and every dependency is to a node listed earlier, under a name of its own: a
\* search that became several is still found by what read it.
ReferencesHold ==
  \A i \in DOMAIN grounded :
    LET earlier == {grounded[j].id : j \in 1..(i - 1)}
    IN /\ NodesRead(grounded[i].args) \cup ToSet(grounded[i].deps) \subseteq earlier
       /\ grounded[i].id \notin earlier

\* An index that named a place names the same one once the anchor is bound, unless the list is
\* read past its end: then the anchor heads it. (Two compared places replace a list of two.)
IndicesKeepTheirPlaces ==
  stage \in {"grounded", "bound"} /\ facts.pair = <<>> =>
    \A n \in {m \in ToSet(plan.graph) : m.op = "batch_geocode"} :
      LET read == IndicesRead(plan, n.id)
          names == Nodes({n.id})[1].names
      IN \/ \E k \in read : k >= Len(n.names)
         \/ \A k \in read : Alike(facts, names[k + 1], n.names[k + 1])

\* A time counted back from a deadline holds each stay of the trip once: in the tour it was read
\* off, or beside the travel it was read off. (The trip was located whole, and starts at a place
\* nobody stays at.)
StaysCountedOnce ==
  \A n \in ToSet(grounded) :
    LET above == {id \in NodeIds(plan) \ {n.id} : Needs(plan, n.id, id)}
        tours == {id \in above : OpOf(plan, id) = "tsp_tw"}
        located == {id \in above : OpOf(plan, id) = "batch_geocode"}
        stays == Mapped(LAMBDA s : s[2], facts.stays)
        inTour == FlattenSeq(Mapped(LAMBDA m : Literal(m, "service_times", <<>>), Nodes(tours)))
    IN /\ n.op = "calculate_start_time" /\ facts.objective = "none"
       /\ tours \subseteq ToSet(n.deps) /\ n.args.duration_s[1] = <<n.deps[1]>>
       /\ tours # {} => n.deps[1] \in tours
       /\ \A id \in located : NodeOf(plan, id).names = TripNames(plan)
       /\ TripNames(plan) # <<>> /\ StayFor(facts, TripNames(plan)[1]) = 0
       => Total(inTour) + Total(Literal(n, "stays", <<>>)) = Total(stays)

\* No step reads what outranks it, and no concept what it is made of, so that the two checks of
\* the order of roles that follow refuse a bound plan for one reason only: a measure that an
\* earlier step named is shared with a last step, which has no other (factorize_geoflow). What a
\* step makes of its own is named after it, and no concept of the planner's may have that name.
NothingIsOutranked ==
  stage = "bound" /\ (\A id \in DOMAIN bound.step : Derived(id) \notin ToSet(draft.pool)) =>
    \A id \in DOMAIN bound.step :
      /\ \A d \in bound.deps[id] : ~Inverted(bound.step[d], bound.step[id])
      /\ \A c \in ConceptsRead(bound, id), o \in bound.emits[id] :
           Inverted(bound.role[c], bound.role[o]) =>
             /\ bound.role[c] = "measure"
             /\ \E s, t \in DOMAIN bound.emits :
                  s # t /\ c \in bound.emits[s] \cap bound.emits[t]
=============================================================================
