--------------------------- MODULE Factorization ---------------------------
(***************************************************************************)
(* From an accepted concept graph to the operators that run                 *)
(* (geoflow_to_semantic_steps, factorize_semantic_graph, wire_arguments).   *)
(*                                                                         *)
(* A reference is <<node>>, <<node, "ranked">> or <<node, "place", k>>: all *)
(* a node emits, its ordering, or the k-th place it located. Arguments map  *)
(* a slot to the references it holds. A plan under construction has         *)
(*   graph   the nodes emitted: [id, op, args, names, deps, type, role]     *)
(*   fused   the nodes that an earlier one already does                     *)
(*   bound   for a geocode, which concept is at which place of its list     *)
(*   stops   for a matrix over a list of places, those places               *)
(*   square  the matrices from a list of places to itself                   *)
(*   error   "none", or why no plan comes of the graph                      *)
(***************************************************************************)
EXTENDS Canonicalizer, OperatorChoice

NoPlan == [graph |-> <<>>, fused |-> <<>>, bound |-> <<>>, stops |-> <<>>, square |-> {},
           error |-> "none"]
NodeIds(F) == {n.id : n \in ToSet(F.graph)}
NodeOf(F, id) == CHOOSE n \in ToSet(F.graph) : n.id = id
OpOf(F, id) == NodeOf(F, id).op
Failed(F, why) == [F EXCEPT !.error = why]
Emitted(F, node) == [F EXCEPT !.graph = Append(@, node)]
Selected(S, s) == Kept(s, LAMBDA x : x \in S)
BoundOf(F, id) == IF id \in DOMAIN F.bound THEN F.bound[id] ELSE <<>>
IsSet(F, id) ==
  \/ OpOf(F, id) \in CollectionOperators
  \/ OpOf(F, id) = "batch_geocode" /\ Len(NodeOf(F, id).names) > 1

\* geoflow_to_semantic_steps: the makers of what it reads, and what it reads by name.
Lowered(g, e) ==
  LET Maker(id) == Mapped(LAMBDA p : p.id, Kept(g.edges, LAMBDA p : p.id # e.id /\ id \in ToSet(p.outs)))
      makers == Distinct(FlattenSeq(Mapped(Maker, e.ins)))
      semantic == {f \in e.factors : f[1] \in SemanticFactors}
  IN [id |-> e.id, t |-> e.t, ins |-> makers \o e.ins, via |-> e.via,
      concepts |-> Kept(e.outs, LAMBDA id : ~g.node[id].implicit),
      role |-> IF \E id \in ToSet(e.outs) : g.node[id].role = "measure" THEN "measure"
               ELSE IF e.role = Unsaid THEN "support" ELSE e.role,
      factors |-> [type \in FactorTypes(semantic) |-> (CHOOSE f \in semantic : f[1] = type)[2]]]

-----------------------------------------------------------------------------
\* Names the graph wrote, as references to places.

\* Mutant of Followed: a node fused into another is looked for under its own name.
FollowedNot(F, name) == name

Followed(F, name) == IF name \in DOMAIN F.fused THEN F.fused[name] ELSE name
PlaceOf(F, id, k) == IF OpOf(F, id) = "batch_geocode" THEN <<id, "place", k>> ELSE <<id>>

\* _place_references: [ref, node, at], at holding the place in the node's list, if it has one.
PlaceReference(F, sources, name) ==
  LET node == Followed(F, name)
      among == Kept(sources, LAMBDA id : name \in ToSet(BoundOf(F, id)))
      index == (CHOOSE k \in DOMAIN BoundOf(F, among[1]) : BoundOf(F, among[1])[k] = name) - 1
  IN CASE node \in NodeIds(F) -> <<[ref |-> PlaceOf(F, node, 0), node |-> node, at |-> {}]>>
       [] node \notin NodeIds(F) /\ among # <<>> ->
            <<[ref |-> <<among[1], "place", index>>, node |-> among[1], at |-> {index}]>>
       [] OTHER -> <<>>
PlaceReferences(F, sources, names) ==
  FlattenSeq(Mapped(LAMBDA name : PlaceReference(F, sources, name), names))
Refs(found) == Mapped(LAMBDA p : p.ref, found)

\* _resolve_endpoints: the pair it names, unless the geocodes of the graph could be one.
Endpoints(F, step, ins) ==
  LET sources == Distinct(ins \o Selected(DOMAIN F.bound, Mapped(LAMBDA n : n.id, F.graph)))
      unmade == Kept(step.ins, LAMBDA name : name \notin NodeIds(F))
      read == PlaceReferences(F, sources, unmade)
      told == PlaceReferences(F, sources, step.concepts)
      named == IF Len(read) = 2 THEN read ELSE IF Len(told) = 2 THEN told ELSE <<>>
  IN IF step.t \notin {"DISTANCE_MEASURE", "ROUTE_MEASURE"} \/ Len(sources) >= 2 THEN <<>> ELSE named

-----------------------------------------------------------------------------
\* wire_arguments. A wiring w has the nodes that feed it (ins), the stops and ends it names, the
\* places the stops took in their own lists (taken) and the nodes that are stops (stopNodes).

Items(F, id) == IF OpOf(F, id) = "nearest" THEN <<id, "ranked">> ELSE <<id>>
Gathered(F, ids) == Mapped(LAMBDA id : Items(F, id), ids)
Each(ids) == Mapped(LAMBDA id : <<id>>, ids)
OfType(F, ids, type) == Kept(ids, LAMBDA id : NodeOf(F, id).type = type)

\* Mutant of Ends: the two ends are the first two places, whatever the stops took.
EndsFirstTwo(F, w) ==
  IF Len(w.ins) >= 2 THEN <<PlaceOf(F, w.ins[1], 0), PlaceOf(F, w.ins[2], 0)>>
  ELSE <<PlaceOf(F, w.ins[1], 0), PlaceOf(F, w.ins[1], 1)>>

\* two_places.
Ends(F, w) ==
  LET free == Kept(w.ins, LAMBDA id : id \notin w.stopNodes)
      size == Len(NodeOf(F, w.ins[1]).names)
      untaken == (0..(size - 1)) \ w.taken
      far == CHOOSE k \in untaken : \A j \in untaken : j <= k
      near == CHOOSE k \in untaken : \A j \in untaken : k <= j
  IN CASE Len(w.ends) = 2 -> w.ends
       [] w.ends = <<>> /\ Len(free) >= 2 /\ Len(w.ins) >= 2 ->
            <<PlaceOf(F, free[1], 0), PlaceOf(F, free[Len(free)], 0)>>
       [] w.ends = <<>> /\ Len(free) < 2 /\ Len(w.ins) >= 2 ->
            <<PlaceOf(F, w.ins[1], 0), PlaceOf(F, w.ins[2], 0)>>
       [] w.ends = <<>> /\ Len(w.ins) = 1 /\ w.taken # {} /\ Cardinality(untaken) >= 2 ->
            <<PlaceOf(F, w.ins[1], near), PlaceOf(F, w.ins[1], far)>>
       [] OTHER -> <<PlaceOf(F, w.ins[1], 0), PlaceOf(F, w.ins[1], 1)>>

\* every_place.
EveryPlace(F, ids) ==
  LET Located(id) == LET n == Len(NodeOf(F, id).names) IN
        IF n > 1 THEN [k \in 1..n |-> <<id, "place", k - 1>>] ELSE <<PlaceOf(F, id, 0)>>
  IN FlattenSeq(Mapped(Located, ids))

\* upstream_center: where the search that feeds it was centred.
Centers(F, ids) ==
  FlattenSeq(Mapped(LAMBDA id : IF "center" \in DOMAIN NodeOf(F, id).args
                                THEN NodeOf(F, id).args.center ELSE <<>>, ids))

Nearest(F, ids) ==
  LET single == Kept(ids, LAMBDA id : OpOf(F, id) \notin CollectionOperators)
      anchor == IF single # <<>> THEN PlaceOf(F, single[1], 0) ELSE Centers(F, ids)[1]
      others == IF single = <<>> THEN ids ELSE Kept(ids, LAMBDA id : id # single[1])
  IN IF Len(ids) < 2 \/ (single = <<>> /\ Centers(F, ids) = <<>>)
     THEN [candidates |-> Gathered(F, ids)]
     ELSE [anchor |-> <<anchor>>, candidates |-> Gathered(F, others)]

\* Mutant of Tour: its nodes are the first object that feeds it.
TourOverInput(F, ids) ==
  LET fed == OfType(F, ids, "field")
      objects == OfType(F, ids, "object")
  IN CASE fed = <<>> /\ objects = <<>> -> <<>>
       [] fed = <<>> /\ objects # <<>> -> [nodes |-> <<<<objects[1]>>>>]
       [] fed # <<>> /\ objects = <<>> -> [distance_matrix |-> <<<<fed[1]>>>>]
       [] OTHER -> [distance_matrix |-> <<<<fed[1]>>>>, nodes |-> <<<<objects[1]>>>>]

\* A tour indexes into a matrix: one that feeds it, or the first there is.
Tour(F, ids) ==
  LET fed == OfType(F, ids, "field")
      any == Kept(F.graph, LAMBDA n : n.op = "distance_matrix")
      matrix == IF fed # <<>> THEN fed[1] ELSE any[1].id
      known == IF (fed # <<>> \/ any # <<>>) /\ matrix \in DOMAIN F.stops THEN F.stops[matrix] ELSE <<>>
      objects == OfType(F, ids, "object")
      nodes == CASE known # <<>> -> known
                 [] known = <<>> /\ objects # <<>> -> <<<<objects[1]>>>>
                 [] OTHER -> <<<<ids[1]>>>>
  IN CASE fed = <<>> /\ any = <<>> -> IF ids = <<>> THEN <<>> ELSE [nodes |-> nodes]
       [] any # <<>> /\ ids = <<>> /\ known = <<>> -> [distance_matrix |-> <<<<matrix>>>>]
       [] OTHER -> [distance_matrix |-> <<<<matrix>>>>, nodes |-> nodes]

Pair(first, second, ids) ==
  [slot \in {first} \cup {s \in {second} : Len(ids) >= 2} |->
     <<<<ids[IF slot = first THEN 1 ELSE 2]>>>>]

\* The arguments of an operator that something feeds. The last row is identity_measure's, and that
\* of whatever the table does not wire.
Arguments(F, op, w) ==
  LET ids == w.ins
      whole == <<<<ids[1]>>>>
      place == <<PlaceOf(F, ids[1], 0)>>
      stops == IF Len(ids) >= 2 THEN EveryPlace(F, ids) ELSE whole
      fields == OfType(F, ids, "field")
      ends == Ends(F, w)
  IN CASE op \in {"batch_geocode", "place_search"} -> <<>>
       [] op = "nearby_places" -> [center |-> place]
       [] op \in {"batch_place_details", "place_details"} ->
            [place_id |-> IF op = "place_details" THEN place ELSE whole]
       [] op = "haversine_distance" -> [place_a |-> <<ends[1]>>, place_b |-> <<ends[2]>>]
       [] op = "pairwise_distances" -> [pairs |-> Gathered(F, ids)]
       [] op = "pairwise_extremes" -> [locations |-> Gathered(F, ids)]
       [] op = "directions" /\ w.via # <<>> ->
            [origin |-> <<ends[1]>>, destination |-> <<ends[2]>>, waypoints |-> w.via]
       [] op = "travel_time" \/ (op = "directions" /\ w.via = <<>>) ->
            [origin |-> <<ends[1]>>, destination |-> <<ends[2]>>]
       [] op = "distance_matrix" -> [origins |-> stops, destinations |-> stops]
       [] op \in {"extract_distance", "extract_duration", "steps_analysis"} -> [route |-> whole]
       [] op = "select_legs" -> [routes |-> IF fields = <<>> THEN whole ELSE <<<<fields[1]>>>>]
       [] op = "sum_route_metrics" -> [routes |-> whole]
       [] op = "compare_routes" -> [routes |-> Each(ids)]
       [] op = "tsp_tw" -> Tour(F, ids)
       [] op = "calculate_finish_time" -> [locations |-> Gathered(F, ids)]
       [] op = "calculate_start_time" -> [duration_s |-> whole]
       [] op = "within_radius" ->
            IF Len(ids) >= 2 THEN [center |-> place, candidates |-> <<<<ids[2]>>>>]
            ELSE [center |-> <<Centers(F, ids)[1]>>, candidates |-> Gathered(F, ids)]
       [] op = "filter_by_direction" ->
            IF Len(ids) >= 2 THEN [center |-> place, places |-> <<<<ids[2]>>>>]
            ELSE [places |-> whole]
       [] op = "filter_places" -> [places |-> Gathered(F, ids)]
       [] op \in {"filter_by_distance", "count_items", "sort_by", "select_by_index", "select_min",
                  "select_max"} -> [items |-> Gathered(F, ids)]
       [] op = "nearest" -> Nearest(F, ids)
       [] op = "sum_amounts" -> [amounts |-> Each(ids)]
       [] op = "difference" -> Pair("minuend", "subtrahend", ids)
       [] op = "aggregate_route_groups" -> Pair("routes", "groups", ids)
       [] op = "calculate_proportion" -> Pair("numerator", "denominator", ids)
       [] OTHER -> [value |-> whole]

\* What nothing feeds is wired empty, or takes the first of no inputs.
Wired(F, op, w) ==
  CASE w.ins # <<>> \/ op \in {"compare_routes", "sum_amounts"} -> Arguments(F, op, w)
    [] w.ins = <<>> /\ op = "tsp_tw" -> Tour(F, <<>>)
    [] OTHER -> <<>>
TakesTheFirst == {"difference", "calculate_proportion", "aggregate_route_groups", "filter_by_direction"}

-----------------------------------------------------------------------------
\* _bind_named_entities: the concepts the node resolves, or the located concepts no geocode
\* before it claimed. Nothing is listed by the question, and no candidate texts are given.
Claimed(F) == UNION {ToSet(n.names) : n \in ToSet(F.graph)}
Unclaimed(F, g) ==
  Kept(g.pool, LAMBDA id :
    /\ g.node[id].named /\ g.node[id].core \in PlaceTypes /\ g.node[id].role # "measure"
    /\ id \notin Claimed(F))
Aligned(g, step) == Kept(step.concepts, LAMBDA id : g.node[id].named)
Scope(step) == IF "scope" \in DOMAIN step.factors THEN step.factors["scope"] ELSE ""
NamesOf(F, g, step) ==
  CASE Scope(step) = "options" -> <<>>
    [] Scope(step) # "options" /\ Aligned(g, step) # <<>> -> Aligned(g, step)
    [] OTHER -> Unclaimed(F, g)

PartialConsumers == {"tsp_tw", "select_legs", "batch_geocode"}
NodesRead(args) == UNION {{ref[1] : ref \in ToSet(args[slot])} : slot \in DOMAIN args}
Unread(op, ins, args) == IF op \in PartialConsumers THEN {} ELSE ToSet(ins) \ NodesRead(args)

Node(id, op, args, deps, type, role) ==
  [id |-> id, op |-> op, args |-> args, names |-> <<>>, deps |-> deps, type |-> type, role |-> role]
Composed(id, what) == <<id[1], id[2], what>>

\* The nodes the transformation implies: the route between the places a reader of routes was
\* handed, the matrix between the stops a selection of legs was, the legs of a whole matrix.
AllGeocodes(F, ins) == Len(ins) >= 2 /\ \A id \in ToSet(ins) : OpOf(F, id) \in Geocoders
NeedsARoute(F, step, ins) == step.t \in {"ROUTE_EXTRACT", "ROUTE_STEPS"} /\ AllGeocodes(F, ins)
RouteComposed(F, step, w) ==
  LET id == Composed(step.id, "route") IN
  IF NeedsARoute(F, step, w.ins)
  THEN [F |-> Emitted(F, Node(id, "directions", Arguments(F, "directions", w), w.ins, "field", "support")),
        w |-> [w EXCEPT !.ins = <<id>>, !.via = <<>>, !.taken = {}]]
  ELSE [F |-> F, w |-> w]
Squared(F, id) == [F EXCEPT !.square = @ \cup {id}]
WithStops(F, id, stops) == [Squared(F, id) EXCEPT !.stops = Extended(@, id, stops)]
MatrixComposed(F, step, w) ==
  LET id == Composed(step.id, "matrix")
      stops == EveryPlace(F, w.ins)
      args == [origins |-> stops, destinations |-> stops]
  IN IF step.t = "SELECT_LEGS" /\ AllGeocodes(F, w.ins)
     THEN [F |-> WithStops(Emitted(F, Node(id, "distance_matrix", args, w.ins, "field", "support")),
                           id, stops),
           w |-> [w EXCEPT !.ins = <<id>>]]
     ELSE [F |-> F, w |-> w]
TotalsAMatrix(F, step, ins) ==
  /\ step.t \in {"AGGREGATE", "ROUTE_EXTRACT"}
  /\ Len(ins) = 1 /\ ins[1] \in F.square
  /\ ~("aggregate" \in DOMAIN step.factors /\ step.factors["aggregate"] \in {"difference", "proportion"})
LegsComposed(F, step, w) ==
  LET id == Composed(step.id, "legs") IN
  IF TotalsAMatrix(F, step, w.ins)
  THEN [F |-> Emitted(F, Node(id, "select_legs", [routes |-> <<<<w.ins[1]>>>>], w.ins, "field", "support")),
        w |-> [w EXCEPT !.ins = <<id>>]]
  ELSE [F |-> F, w |-> w]
Implied(F, step, w) ==
  LET Gridded(routed) == MatrixComposed(routed.F, step, routed.w)
      Legged(gridded) == LegsComposed(gridded.F, step, gridded.w)
  IN Legged(Gridded(RouteComposed(F, step, w)))

\* A tour over places nobody measured gets the matrix between them.
TourMatrix(F, step, ins) ==
  LET id == Composed(step.id, "matrix")
      places == <<<<ins[1]>>>>
      args == [origins |-> places, destinations |-> places]
  IN WithStops(Emitted(F, Node(id, "distance_matrix", args, <<ins[1]>>, "field", "support")), id, places)

\* The node itself, once its operator and arguments are known.
NodePlaced(F, g, step, op, args, ins) ==
  LET names == IF op = "batch_geocode" THEN NamesOf(F, g, step) ELSE <<>>
      aligned == IF Scope(step) = "options" THEN <<>> ELSE Aligned(g, step)
      type == IF Produces(op) \in AcceptedOutputTypes(step.t) THEN Produces(op) ELSE OutputType[step.t]
      bare == op = "tsp_tw" /\ "distance_matrix" \notin DOMAIN args /\ ins # <<>>
      measured == IF bare THEN TourMatrix(F, step, ins) ELSE F
      grid == Composed(step.id, "matrix")
      node == [id |-> step.id, op |-> op, names |-> names, type |-> type, role |-> step.role,
               args |-> IF bare THEN Extended(args, "distance_matrix", <<<<grid>>>>) ELSE args,
               deps |-> IF bare THEN Append(ins, grid) ELSE ins]
      placed == Emitted(measured, node)
  IN CASE op = "batch_geocode" /\ Len(aligned) = Len(names) ->
            [placed EXCEPT !.bound = Extended(@, step.id, aligned)]
       [] op = "distance_matrix" /\ Len(ins) >= 2 -> WithStops(placed, step.id, args.origins)
       [] op = "distance_matrix" /\ Len(ins) = 1 -> Squared(placed, step.id)
       [] OTHER -> placed

\* _resolve_via: the stops a route declares, as references and as the nodes they come from. A stop
\* resolved beside other places keeps its position, so that it is not taken for an end.
Via(F, read, names) ==
  LET found == PlaceReferences(F, read, names)
      Shares(p) == Len(BoundOf(F, p.node)) > 1
      Lone(p) == p.at = {} \/ ~Shares(p)
  IN [refs |-> Refs(found), taken |-> UNION {p.at : p \in {q \in ToSet(found) : Shares(q)}},
      nodes |-> Distinct(Mapped(LAMBDA p : p.node, Kept(found, Lone)))]

\* The wiring of a step: the nodes it reads, its stops, and the nodes its ends come from.
WiringOf(F, step) ==
  LET read == Distinct(Selected(NodeIds(F), Mapped(LAMBDA name : Followed(F, name), step.ins)))
      Fed(via) == Distinct(read \o via.nodes)
      Between(via, ends) ==
        [ins |-> Distinct(Fed(via) \o Mapped(LAMBDA p : p.node, ends)), via |-> via.refs,
         stopNodes |-> ToSet(via.nodes), ends |-> Refs(ends), taken |-> via.taken]
      Through(via) == Between(via, Endpoints(F, step, Fed(via)))
  IN Through(Via(F, read, step.via))

\* What the choice of an operator looks at.
Request(G, step, w, stated) ==
  [types |-> Mapped(LAMBDA id : NodeOf(G, id).type, w.ins),
   ops |-> Mapped(LAMBDA id : OpOf(G, id), w.ins),
   sets |-> Mapped(LAMBDA id : IsSet(G, id), w.ins),
   factors |-> step.factors, via |-> Len(w.via), ends |-> Len(w.ends), stated |-> stated]

\* The step, once its operator and arguments are known: fused into the ordering it reads, refused,
\* or placed.
StepPlaced(F, g, step, w, op, args, strict) ==
  IF step.t = "SORT" /\ Len(w.ins) = 1 /\ OpOf(F, w.ins[1]) \in {"nearest", "sort_by"}
  THEN [F EXCEPT !.fused = Extended(@, step.id, w.ins[1])]
  ELSE IF w.ins = <<>> /\ op \in TakesTheFirst THEN Failed(F, "index_error")
  ELSE IF op = "within_radius" /\ Len(w.ins) = 1 /\ Centers(F, w.ins) = <<>> THEN Failed(F, "no_center")
  ELSE IF strict /\ Unread(op, w.ins, args) # {} THEN Failed(F, "unread_input")
  ELSE NodePlaced(F, g, step, op, args, w.ins)

\* One turn of the loop of factorize_semantic_graph.
WithStep(F, g, e, stated, strict) ==
  LET step == Lowered(g, e)
      Using(i, op) == StepPlaced(i.F, g, step, i.w, op, Wired(i.F, op, i.w), strict)
      Chosen(i) == Using(i, OperatorFor(step.t, Request(i.F, step, i.w, stated)))
  IN Chosen(Implied(F, step, WiringOf(F, step)))
=============================================================================
