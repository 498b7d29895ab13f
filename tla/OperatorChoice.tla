--------------------------- MODULE OperatorChoice ---------------------------
(***************************************************************************)
(* Which operator performs a transformation (resolve_operator and the       *)
(* guards of semantics.py). A resolution r is what the choice may read:     *)
(*   types, ops, sets   of the nodes that feed it: what they produce, the   *)
(*                      operators they became, whether they emit a set      *)
(*   factors            the semantic factors of the transformation          *)
(*   via, ends          how many stops and how many ends it names           *)
(*   stated             the types of the facts the question states          *)
(* Every operator is executable and no candidate texts are given, as in the *)
(* planner's calls.                                                         *)
(***************************************************************************)
EXTENDS Lists, FiniteSets

SemanticFactors == {"ordinal", "measure", "aggregate", "extreme", "key", "target", "scope"}
Factor(r, name, default) == IF name \in DOMAIN r.factors THEN r.factors[name] ELSE default
Arity(r) == Len(r.types)

CollectionOperators ==
  {"nearby_places", "place_search", "within_radius", "filter_by_direction", "filter_places",
   "nearest", "sort_by"}
MeasuredOperators ==
  {"nearest", "within_radius", "pairwise_distances", "sort_by", "haversine_distance"}
Geocoders == {"batch_geocode"}

FansOut(r) == Arity(r) >= 2 /\ ~r.sets[1] /\ \E i \in 2..Arity(r) : r.sets[i]
OnePlaceAgainstMany(r) == FansOut(r) \/ (Arity(r) >= 3 /\ r.ends # 2)
Pairwise(r) == r.ends = 2 \/ Arity(r) = 2
BetweenPlacesOnly(r) == Arity(r) > 0 /\ ToSet(r.ops) \subseteq Geocoders
RanksFromAnAnchor(r) == Arity(r) >= 2 \/ Factor(r, "key", "distance") = "distance"
OverAMatrix(r) == ToSet(r.ops) \cap {"distance_matrix", "select_legs"} # {}
Duration(r) == Factor(r, "measure", "distance") = "duration"
OverMeasured(r) == "radius_m" \in r.stated /\ Arity(r) = 1 /\ ToSet(r.ops) \cap MeasuredOperators # {}
Grouped(r) == Factor(r, "scope", "") = "legs"
CountsASet(r) == Factor(r, "aggregate", "sum") = "count" \/ (Arity(r) = 1 /\ r.sets[1])
Aggregates(r, how) == Factor(r, "aggregate", "sum") = how

\* TRANSFORMS: the candidates of each transformation, the most specific first.
Candidates(t, r) ==
  CASE t = "RESOLVE_PLACES" -> <<<<"batch_geocode", TRUE>>>>
    [] t = "PLACE_SEARCH" -> <<<<"nearby_places", Arity(r) >= 1>>, <<"place_search", TRUE>>>>
    [] t = "PLACE_DETAILS" ->
         <<<<"place_details", Factor(r, "scope", "") = "one">>, <<"batch_place_details", TRUE>>>>
    [] t = "DISTANCE_MEASURE" ->
         <<<<"nearest", OnePlaceAgainstMany(r)>>, <<"haversine_distance", Pairwise(r)>>,
           <<"pairwise_distances", Arity(r) <= 1>>>>
    [] t = "ROUTE_MEASURE" ->
         <<<<"directions", r.via > 0>>, <<"travel_time", Duration(r)>>, <<"directions", TRUE>>>>
    [] t = "ROUTE_MATRIX" -> <<<<"distance_matrix", TRUE>>>>
    [] t = "SELECT_LEGS" -> <<<<"select_legs", TRUE>>>>
    [] t = "ROUTE_EXTRACT" ->
         <<<<"sum_route_metrics", OverAMatrix(r)>>, <<"extract_duration", Duration(r)>>,
           <<"extract_distance", TRUE>>>>
    [] t = "ROUTE_STEPS" -> <<<<"steps_analysis", TRUE>>>>
    [] t = "ROUTE_COMPARE" -> <<<<"directions", BetweenPlacesOnly(r)>>, <<"compare_routes", TRUE>>>>
    [] t = "ROUTE_OPTIMIZE" -> <<<<"tsp_tw", TRUE>>>>
    [] t = "SCHEDULE" ->
         <<<<"calculate_start_time", Factor(r, "measure", "finish") = "start">>,
           <<"calculate_finish_time", TRUE>>>>
    [] t = "FILTER" ->
         <<<<"filter_by_distance", OverMeasured(r)>>, <<"within_radius", "radius_m" \in r.stated>>,
           <<"filter_by_direction", "direction" \in r.stated>>, <<"filter_places", TRUE>>>>
    [] t = "SORT" -> <<<<"nearest", RanksFromAnAnchor(r)>>, <<"sort_by", TRUE>>>>
    [] t = "ORDINAL_SELECT" -> <<<<"select_by_index", TRUE>>>>
    [] t = "EXTREME_SELECT" ->
         <<<<"pairwise_extremes", Arity(r) <= 1>>, <<"select_min", Factor(r, "extreme", "min") = "min">>,
           <<"select_max", Factor(r, "extreme", "min") = "max">>>>
    [] t = "AGGREGATE" ->
         <<<<"difference", Aggregates(r, "difference")>>,
           <<"calculate_proportion", Aggregates(r, "proportion")>>,
           <<"sum_route_metrics", "select_legs" \in ToSet(r.ops)>>,
           <<"aggregate_route_groups", Grouped(r)>>, <<"count_items", CountsASet(r)>>,
           <<"sum_amounts", TRUE>>>>
    [] t = "MEASURE" -> <<<<"identity_measure", TRUE>>>>

\* resolve_operator: the first candidate whose guard accepts, or else the first there is.
OperatorFor(t, r) ==
  LET accepting == Kept(Candidates(t, r), LAMBDA c : c[2])
  IN IF accepting = <<>> THEN Candidates(t, r)[1][1] ELSE accepting[1][1]

\* OPERATOR_CONTRACTS: what each operator produces.
Produces(op) ==
  CASE op \in {"directions", "travel_time", "distance_matrix", "pairwise_distances",
               "steps_analysis", "select_legs"} -> "field"
    [] op \in {"haversine_distance", "pairwise_extremes", "extract_distance", "extract_duration",
               "sum_route_metrics", "sum_amounts", "difference", "aggregate_route_groups",
               "count_items"} -> "amount"
    [] op = "calculate_proportion" -> "proportion"
    [] op \in {"calculate_finish_time", "calculate_start_time"} -> "event"
    [] op = "tsp_tw" -> "network"
    [] OTHER -> "object"
=============================================================================
