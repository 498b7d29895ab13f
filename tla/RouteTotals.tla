----------------------------- MODULE RouteTotals -----------------------------
(***************************************************************************)
(* Routed legs and the amounts read off them (ToolRegistry.distance_matrix, *)
(* finish times, and SpatialOperatorRegistry's leg and amount operators).   *)
(*                                                                         *)
(* A row is a routed pair [from, to, ok, m, s]: the optional places at its  *)
(* ends, whether it was routed, its metres and its seconds (0 if not). An   *)
(* operator that raises returns <<>>, otherwise <<result>>.                 *)
(***************************************************************************)
EXTENDS Places

CONSTANTS
  Metres,          \* what the provider routes between two places
  Seconds
ASSUME RouteAssumption == {Metres, Seconds} \subseteq [Places -> [Places -> Nat]]

None == <<>>
SameEndpoint(p, q) == p.id = q.id \/ p.at = q.at

\* _as_place_list_argument: of a list of places, the rows that found nothing are dropped.
PlaceArguments(list) == Kept(list, LAMBDA p : p # <<>>)

\* One pair of _distance_matrix: a place is no distance from itself; an end that was not found,
\* or a route the provider refuses, is an error of that pair alone.
RoutedPair(from, to, fails) ==
  CASE from = <<>> \/ to = <<>> -> [from |-> from, to |-> to, ok |-> FALSE, m |-> 0, s |-> 0]
    [] from # <<>> /\ to # <<>> /\ SameEndpoint(from[1], to[1]) ->
         [from |-> from, to |-> to, ok |-> TRUE, m |-> 0, s |-> 0]
    [] OTHER -> [from |-> from, to |-> to, ok |-> ~fails,
                 m |-> IF fails THEN 0 ELSE Metres[from[1]][to[1]],
                 s |-> IF fails THEN 0 ELSE Seconds[from[1]][to[1]]]

\* _distance_matrix(origins, destinations): every origin with every destination, row by row.
DistanceMatrix(origins, destinations, failing) ==
  LET width == Len(destinations)
      Row(k) == ((k - 1) \div width) + 1
      Column(k) == ((k - 1) % width) + 1
  IN [k \in 1 .. Len(origins) * width |->
        RoutedPair(origins[Row(k)], destinations[Column(k)], <<Row(k), Column(k)>> \in failing)]

-----------------------------------------------------------------------------
\* build_duration_matrix

Labelled(labels, p) ==
  IF p = <<>> \/ (p # <<>> /\ p[1].name \in ToSet(labels)) THEN labels ELSE Append(labels, p[1].name)
LabelsOf(rows) ==
  LET labels[k \in 0 .. Len(rows)] ==
        IF k = 0 THEN <<>> ELSE Labelled(Labelled(labels[k - 1], rows[k].from), rows[k].to)
  IN labels[Len(rows)]
LegRows(rows, a, b) ==
  {k \in DOMAIN rows : /\ rows[k].ok
                       /\ rows[k].from[1].name = a
                       /\ rows[k].to[1].name = b}

\* Mutant of MissingLegs: a leg that was not routed is no leg to miss.
MissingNone(rows) == {}

MissingLegs(rows) ==
  {p \in ToSet(LabelsOf(rows)) \X ToSet(LabelsOf(rows)) : p[1] # p[2] /\ LegRows(rows, p[1], p[2]) = {}}
LegMeasure(row, metric) == IF metric = "distance" THEN row.m ELSE row.s

\* _matrix_argument: complete, and as many labels as nodes; otherwise tsp_tw refuses it. Cells are
\* by position; of two rows between the same labels the later one is read.
MatrixArgument(rows, n, metric) ==
  LET labels == LabelsOf(rows)
      Cell(a, b) == IF a = b \/ LegRows(rows, a, b) = {} THEN 0
                    ELSE LegMeasure(rows[Max(LegRows(rows, a, b))], metric)
  IN IF MissingLegs(rows) # {} \/ Len(labels) # n THEN None
     ELSE <<[i \in 1 .. n |-> [j \in 1 .. n |-> Cell(labels[i], labels[j])]]>>

-----------------------------------------------------------------------------
\* Legs and amounts.

Side(rows) == IF \E k \in 1 .. Len(rows) : k * k = Len(rows)
              THEN CHOOSE k \in 1 .. Len(rows) : k * k = Len(rows) ELSE 0

\* select_legs: the consecutive pairs of an order (the stated one, if none is given) of the stops.
SelectLegs(rows, order) ==
  LET side == Side(rows)
      walk == IF order = <<>> THEN [k \in 1 .. side |-> k] ELSE order
  IN IF side = 0 \/ Len(walk) < 2 \/ ~ToSet(walk) \subseteq 1 .. side THEN None
     ELSE <<[k \in 1 .. Len(walk) - 1 |-> rows[(walk[k] - 1) * side + walk[k + 1]]]>>
Complete(legs) == \A k \in DOMAIN legs : legs[k].ok

SumOf(legs, metric) == Total([k \in DOMAIN legs |-> LegMeasure(legs[k], metric)])

\* sum_route_metrics: the normalizer leaves the rows that failed out before they are added.
SumRouteMetrics(legs) ==
  [m |-> SumOf(Kept(legs, LAMBDA r : r.ok), "distance"),
   s |-> SumOf(Kept(legs, LAMBDA r : r.ok), "duration")]

\* sum_amounts, _amount_total: an item without a measurement refuses the sum.
SumAmounts(legs, metric) ==
  IF legs = <<>> \/ ~Complete(legs) THEN None ELSE <<SumOf(legs, metric)>>

\* difference: what one sum exceeds the other by, and its magnitude.
Difference(these, those, metric) ==
  LET a == SumAmounts(these, metric)
      b == SumAmounts(those, metric)
  IN IF a = None \/ b = None THEN None
     ELSE <<[signed |-> a[1] - b[1], value |-> Abs(a[1] - b[1])]>>

Contenders(totals) == {g \in DOMAIN totals : totals[g].complete}

\* aggregate_route_groups: totals per option; only complete ones compete, the first of equals wins.
AggregateRouteGroups(rows, groups) ==
  LET Legs(g) == [k \in DOMAIN groups[g] |-> rows[groups[g][k]]]
      totals == [g \in DOMAIN groups |->
                   [complete |-> Complete(Legs(g)), m |-> SumOf(Legs(g), "distance"),
                    s |-> SumOf(Legs(g), "duration")]]
      Least(Of(_)) == {g \in Contenders(totals) : \A h \in Contenders(totals) :
                         Of(totals[g]) < Of(totals[h]) \/ (Of(totals[g]) = Of(totals[h]) /\ g <= h)}
  IN [totals |-> totals, bestDistance |-> Chosen(Least(LAMBDA t : t.m)),
      bestDuration |-> Chosen(Least(LAMBDA t : t.s))]

\* compare_routes reads the metric off every route.
CompareRoutes(legs, metric) ==
  IF legs = <<>> \/ ~Complete(legs) THEN None
  ELSE Chosen({k \in DOMAIN legs : \A j \in DOMAIN legs :
         \/ LegMeasure(legs[k], metric) < LegMeasure(legs[j], metric)
         \/ LegMeasure(legs[k], metric) = LegMeasure(legs[j], metric) /\ k <= j})

\* calculate_finish_time: each leg in turn, with no answer for a place to itself; the provider
\* refuses that, and one leg that fails fails the tool. Forwards from a start or back from an end.
FinishTime(stops, stays, failing, clock, forwards) ==
  LET Leg(k) == RoutedPair(stops[k], stops[k + 1], <<k, k + 1>> \in failing)
      Unroutable(k) == ~Leg(k).ok \/ SameEndpoint(stops[k][1], stops[k + 1][1])
      travel == SumOf([k \in 1 .. Len(stops) - 1 |-> Leg(k)], "duration")
  IN IF Len(stays) # Len(stops) \/ \E k \in 1 .. Len(stops) - 1 : Unroutable(k) THEN None
     ELSE <<[travel |-> travel, start |-> IF forwards THEN clock ELSE clock - (travel + Total(stays)),
             finish |-> IF forwards THEN clock + travel + Total(stays) ELSE clock]>>
=============================================================================
