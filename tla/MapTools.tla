------------------------------ MODULE MapTools ------------------------------
(***************************************************************************)
(* The map tools and spatial operators, called as a plan calls them: each   *)
(* on what the ones before it returned.                                     *)
(*                                                                         *)
(* A question is about a trip, about a choice between places, or measured   *)
(* by a plan of steps of its own. Each starts with batch_geocode. A trip is *)
(* then routed, ordered or walked, its legs totalled and compared, and the  *)
(* result matched with the options. For a choice, places around the first   *)
(* one are retrieved, narrowed, ranked and matched. A plan is run step by   *)
(* step. What was totalled is worded by the model and read as an option.    *)
(* A result is <<>> until its operator has run, and stays so when it        *)
(* raises: what reads it then has nothing to run on.                        *)
(***************************************************************************)
EXTENDS PlaceResolver, OptionMatching, PlanReferences, TourPlanner, AnswerSelector

CONSTANTS
  Batches,         \* the batches a plan geocodes, and for what: [batch, about, steps]
  Itineraries,     \* the arguments of tsp_tw besides nodes and matrix
  Groups,          \* the groupings of rows options state
  Searches,        \* how places are retrieved, narrowed and matched: [kind, radius, direction, options]
  Distances,       \* the options that state metres or counts
  Offers,          \* the options as texts
  MaxFailures      \* bound: the legs of a matrix the provider fails on
ASSUME BatchAssumption == \A t \in Batches : t.batch.names \in Seq(ToSet(t.batch.names)) \ {<<>>}
ASSUME PlanAssumption ==
  \A t \in Batches : t.about = "plan" =>
    /\ t.steps \in Seq(ToSet(t.steps))
    /\ \A k \in DOMAIN t.steps :
         LET reads == t.steps[k].reads
         IN /\ t.steps[k].kind \in {"matrix", "route", "extract", "sum"}
            /\ reads \in Seq(ToSet(reads)) /\ \A i \in DOMAIN reads : reads[i].root \in 1 .. k - 1
            /\ t.steps[k].kind \in {"extract", "sum"} => reads # <<>>
ASSUME ItineraryAssumption ==
  \A it \in Itineraries : {it.open, it.close, it.stay} \subseteq Seq(Int) /\ it.budget \in Int
ASSUME SearchAssumption == \A s \in Searches : s.options \in Seq(ToSet(s.options))

VARIABLES
  task,            \* the batch being answered
  found,           \* batch_geocode: <<rows>>
  rows,            \* distance_matrix: <<rows>>
  tour,            \* tsp_tw: <<[trip, result]>>
  legs,            \* select_legs: <<rows>>
  total,           \* the sum over the legs: <<[by, legs, value]>>
  groups,          \* aggregate_route_groups
  list,            \* the candidates: <<[search, places, routed]>>
  ranked,          \* nearest: <<[by, places]>>
  values,          \* what each step of a stated plan has returned so far
  answer           \* the options matched: <<[by, result]>>

vars == <<task, values, found, rows, tour, legs, total, groups, list, ranked, answer>>
results == <<rows, tour, legs, total, groups, list, ranked, answer>>

Init ==
  /\ task \in Batches
  /\ found = <<>> /\ rows = <<>> /\ tour = <<>> /\ legs = <<>> /\ total = <<>>
  /\ groups = <<>> /\ list = <<>> /\ ranked = <<>> /\ answer = <<>> /\ values = <<>>

About(what) == task.about = what /\ found # <<>> /\ answer = <<>>
Stops == found[1]
Anchor == found[1][1]

\* invoke(batch_geocode)
Geocode ==
  /\ found = <<>> /\ ~BatchFails(task.batch)
  /\ found' = <<BatchGeocode(task.batch)>>
  /\ UNCHANGED <<task, values, results>>

-----------------------------------------------------------------------------
\* A trip.

Failures(pairs) == UNION {kSubset(k, pairs) : k \in 0 .. MaxFailures}
Pairs(stops) == (DOMAIN stops) \X (DOMAIN stops)
MayFail(stops) ==
  {p \in Pairs(stops) : /\ stops[p[1]] # <<>> /\ stops[p[2]] # <<>>
                        /\ ~SameEndpoint(stops[p[1]][1], stops[p[2]][1])}

\* invoke(distance_matrix): of the stops as a list, or each by its own reference, and whichever
\* legs the provider fails on.
RouteStops ==
  /\ About("trip") /\ rows = <<>>
  /\ \E stops \in {Stops, PlaceArguments(Stops)} \ {<<>>} :
       \E failing \in Failures(MayFail(stops)) : rows' = <<DistanceMatrix(stops, stops, failing)>>
  /\ UNCHANGED <<task, values, found, tour, legs, total, groups, list, ranked, answer>>

\* invoke(tsp_tw)
TripOf(it, n, leg) ==
  [n |-> n, leg |-> leg, open |-> it.open, close |-> it.close, stay |-> it.stay, start |-> it.start,
   end |-> it.end, budget |-> it.budget, loop |-> it.loop, fixed |-> it.fixed, metric |-> it.metric]
OrderStops ==
  /\ About("trip") /\ rows # <<>> /\ tour = <<>> /\ legs = <<>> /\ groups = <<>>
  /\ \E it \in Itineraries :
       LET matrix == MatrixArgument(rows[1], Len(Stops), it.metric)
           trip == TripOf(it, Len(Stops), matrix[1])
       IN /\ matrix # <<>> /\ ~TourRefuses(trip, it.metric)
          /\ tour' = <<[trip |-> trip, result |-> Planned(trip)]>>
  /\ UNCHANGED <<task, values, found, rows, legs, total, groups, list, ranked, answer>>

\* select_legs, over the tour's order or the stated one.
FollowLegs ==
  /\ About("trip") /\ rows # <<>> /\ legs = <<>> /\ groups = <<>>
  /\ legs' = SelectLegs(rows[1], IF tour = <<>> THEN <<>> ELSE tour[1].result.order)
  /\ legs' # <<>>
  /\ UNCHANGED <<task, values, found, rows, tour, total, groups, list, ranked, answer>>

\* sum_route_metrics, sum_amounts, and difference with the direct way from the first stop to the
\* last.
TotalLegs ==
  /\ About("trip") /\ legs # <<>> /\ total = <<>>
  /\ \/ total' = <<[by |-> "sum_route_metrics", value |-> SumRouteMetrics(legs[1]).m]>>
     \/ /\ SumAmounts(legs[1], "distance") # <<>>
        /\ total' = <<[by |-> "sum_amounts", value |-> SumAmounts(legs[1], "distance")[1]]>>
     \/ LET detour == Difference(legs[1], <<rows[1][Side(rows[1])]>>, "distance")
        IN detour # <<>> /\ total' = <<[by |-> "difference", value |-> detour[1].value]>>
  /\ UNCHANGED <<task, values, found, rows, tour, legs, groups, list, ranked, answer>>

\* aggregate_route_groups, of whole itineraries the options state.
CompareGroups ==
  /\ About("trip") /\ rows # <<>> /\ tour = <<>> /\ legs = <<>> /\ groups = <<>>
  /\ \E stated \in Groups :
       /\ \A g \in DOMAIN stated : ToSet(stated[g]) \subseteq DOMAIN rows[1]
       /\ groups' = <<[stated |-> stated] @@ AggregateRouteGroups(rows[1], stated)>>
  /\ UNCHANGED <<task, values, found, rows, tour, legs, total, list, ranked, answer>>

\* match_distance_options over the total, match_count_options over the stops visited, the
\* shortest of the legs (compare_routes), and when the stated itinerary ends.
MatchTrip ==
  /\ About("trip")
  /\ \/ /\ legs # <<>> /\ total = <<>> /\ CompareRoutes(legs[1], "duration") # <<>>
        /\ answer' = <<[by |-> "leg", result |-> CompareRoutes(legs[1], "duration")]>>
     \/ /\ tour # <<>> /\ legs = <<>> /\ tour[1].trip.fixed /\ tour[1].trip.start = 1
        /\ LET finish == FinishTime(PlaceArguments(Stops), tour[1].trip.stay, {}, 0, TRUE)
           IN finish # <<>> /\ answer' = <<[by |-> "finish", result |-> finish]>>
     \/ \E options \in Distances :
        \/ /\ total # <<>>
           /\ answer' = <<[by |-> "distance", result |-> MatchDistance(options, total[1].value).best]>>
        \/ /\ tour # <<>> /\ legs = <<>>
           /\ answer' = <<[by |-> "count", result |-> MatchCount(options, tour[1].result.visited)]>>
  /\ UNCHANGED <<task, values, found, rows, tour, legs, total, groups, list, ranked>>

-----------------------------------------------------------------------------
\* A choice.

\* The candidates: the places as they were geocoded, or invoke(nearby_places), its results merged
\* with those places.
Retrieve ==
  /\ About("choice") /\ list = <<>> /\ Anchor # <<>>
  /\ \E s \in Searches :
       LET near == Nearby(Anchor[1], s.query, s.radius)
       IN \E places \in {Stops, MergePlaces([k \in DOMAIN near |-> <<near[k]>>] \o Stops)} :
            list' = <<[search |-> s, routed |-> <<>>, places |-> places]>>
  /\ UNCHANGED <<task, values, found, rows, tour, legs, total, groups, ranked, answer>>

Narrowed(s, places, by) ==
  CASE by = "direction" -> FilterByDirection(Anchor[1], places, s.direction)
    [] by = "radius" -> WithinRadius(Anchor[1], places, s.radius)
    [] OTHER -> <<FilterPlaces(places, s.kind, s.stated)>>

\* filter_by_direction, within_radius, filter_places.
Narrow ==
  /\ About("choice") /\ list # <<>> /\ ranked = <<>>
  /\ \E by \in {"direction", "radius", "kind"} :
       /\ by = "direction" => list[1].search.direction # ""
       /\ Narrowed(list[1].search, list[1].places, by) # <<>>
       /\ list' = [list EXCEPT ![1].places = AsList(Narrowed(list[1].search, @, by)[1])]
  /\ UNCHANGED <<task, values, found, rows, tour, legs, total, groups, ranked, answer>>

\* invoke(recover_option_places)
Recover ==
  /\ About("choice") /\ list # <<>> /\ ranked = <<>>
  /\ LET s == list[1].search
         here == [k \in DOMAIN Located(list[1].places) |-> At(Located(list[1].places)[k])]
         all == RecoverOptions(Anchor[1], here, s.options, s.radius, s.direction)
     IN list' = [list EXCEPT ![1].places = [k \in DOMAIN all |-> <<all[k]>>]]
  /\ UNCHANGED <<task, values, found, rows, tour, legs, total, groups, ranked, answer>>

\* invoke(distance_matrix) from the anchor to the candidates that were located.
RouteCandidates ==
  /\ About("choice") /\ list # <<>> /\ rows = <<>> /\ ranked = <<>>
  /\ LET stops == PlaceArguments(list[1].places)
     IN /\ stops # <<>>
        /\ \E failing \in Failures({<<1, k>> : k \in DOMAIN stops}) :
             rows' = <<DistanceMatrix(<<Anchor>>, stops, failing)>>
  /\ list' = [list EXCEPT ![1].routed = list[1].places]
  /\ UNCHANGED <<task, values, found, tour, legs, total, groups, ranked, answer>>

\* nearest, by distance or by the time of the routed legs.
Rank ==
  /\ About("choice") /\ list # <<>> /\ ranked = <<>>
  /\ ~NoneLocated(list[1].places)
  /\ LET s == list[1].search
     IN \/ ranked' = <<[by |-> "distance", places |-> Nearest(Anchor[1], list[1].places, s.kind)[1]]>>
        \/ /\ rows # <<>>
           /\ ranked' = <<[by |-> "time",
                           places |-> NearestByTime(Anchor[1], list[1].places, s.kind, rows[1])[1]]>>
  /\ UNCHANGED <<task, values, found, rows, tour, legs, total, groups, list, answer>>

\* match_options over the candidates; over those ranked and near enough, match_type_options of one
\* picked by its position or measure, and match_count_options of how many there are.
MatchChoice ==
  /\ About("choice") /\ list # <<>>
  /\ LET s == list[1].search
         near == IF ranked = <<>> THEN <<>> ELSE FilterByDistance(ranked[1].places, s.radius)[1]
     IN \/ answer' = <<[by |-> "nearest", result |-> MatchOptions(s.options, list[1].places, Anchor)]>>
        \/ answer' = <<[by |-> "set", result |->
                          MatchOptionSets([k \in DOMAIN s.options |-> {s.options[k]}], s.options, list[1].places)]>>
        \/ \E pick \in {SelectByIndex(near, 1), SelectByIndex(near, -1), SelectMin(near), SelectMax(near)} :
             /\ pick # <<>>
             /\ answer' = <<[by |-> "type", result |->
                               MatchType(s.options, [k \in DOMAIN s.options |-> ""], At(pick[1]))]>>
        \/ \E options \in Distances : ranked # <<>>
             /\ answer' = <<[by |-> "count", result |-> MatchCount(options, CountItems(near))]>>
  /\ UNCHANGED <<task, values, found, rows, tour, legs, total, groups, list, ranked>>

-----------------------------------------------------------------------------
\* A plan of its own, and the option that is said.

\* The execution loop of SpatialAgent.answer: the next step, over the results so far.
RunStep ==
  /\ About("plan") /\ Len(values) < Len(task.steps)
  /\ LET k == Len(values) + 1
         routes == IF task.steps[k].kind = "matrix" THEN MayFail(Stops) ELSE {task.steps[k].ends}
     IN \E failing \in Failures(routes) :
          /\ task.steps[k].kind \in {"matrix", "route"} \/ failing = {}
          /\ values' = Append(values, Outcome(task.steps, k, values, Stops, failing))
  /\ UNCHANGED <<task, found, results>>

\* How the evaluation may word what was measured, or say that it was not.
Worded(measured) ==
  LET v == measured[1]
      metres == Append(Digitized(v), "m")
      Number(n) == [kind |-> "number", n |-> n, s |-> <<>>]
      Text(s) == [kind |-> "text", n |-> 0, s |-> s]
  IN IF measured = <<>>
     THEN {[value |-> [kind |-> "none", n |-> 0, s |-> <<>>], text |-> <<"not", "known">>]}
     ELSE {[value |-> Number(v), text |-> <<"total">>],
           [value |-> Number(v), text |-> <<"total">> \o metres],
           [value |-> Text(metres), text |-> <<"driven">>]}

\* SpatialAgent.answer's last step: the grounded answer is read as one of the options.
Select ==
  /\ About("plan") /\ Len(values) = Len(task.steps)
  /\ LET measured == IF Last(values).ok THEN <<SumOf(LegsOf(Last(values)), "distance")>> ELSE <<>>
         errors == Cardinality({k \in DOMAIN values : ~values[k].ok})
     IN \E said \in Worded(measured), options \in Offers :
          answer' = <<[by |-> "option", measured |-> measured, said |-> said, options |-> options,
                       result |-> SelectOption(said, options, errors)]>>
  /\ UNCHANGED <<task, values, found, rows, tour, legs, total, groups, list, ranked>>

Next ==
  \/ Geocode
  \/ RouteStops \/ OrderStops \/ FollowLegs \/ TotalLegs \/ CompareGroups \/ MatchTrip
  \/ RunStep \/ Select
  \/ Retrieve \/ Narrow \/ Recover \/ RouteCandidates \/ Rank \/ MatchChoice
Spec == Init /\ [][Next]_vars

-----------------------------------------------------------------------------
\* Properties.

\* Reconciling a batch that landed apart never leaves fewer names resolved, nor the places farther
\* apart, than it found them; of two names it loses neither, of more it may exchange one that was
\* found for one that was not: the names are counted, not compared (_reconcile_batch).
ReconcileNeverLoses ==
  found # <<>> =>
    LET first == FirstReading(task.batch)
        before == ResolvedNames(task.batch, first)
        after == ResolvedNames(task.batch, Stops)
    IN /\ Cardinality(before) <= Cardinality(after)
       /\ Cardinality(ToSet(task.batch.names)) <= 2 => before \subseteq after
       /\ Span(task.batch, Stops) <= Span(task.batch, first)

\* The walk starts the clock at the start's own service, which it leaves out of the total but takes
\* off the travel; the fallback does not wait for the start to open. Trips without either:
LeavesFreely(t) == t.open[t.start] = 0 /\ (t.fixed => t.stay[t.start] = 0)

\* What a tour reports as driven is what select_legs finds along its order, drive home included,
\* every leg of it routed (tsp_tw's travel_cost, build_duration_matrix, select_legs).
TourIsItsLegs ==
  tour # <<>> =>
    LET t == tour[1].trip
        r == tour[1].result
        driven == SelectLegs(rows[1], r.order)
    IN LeavesFreely(t) /\ (\A i \in 1 .. t.n : t.open[i] = 0 /\ 0 <= t.stay[i]) /\ Len(r.order) > 1 =>
         /\ driven # <<>> /\ Complete(driven[1])
         /\ r.travel = SumOf(driven[1], t.metric)

\* Driven again, a tour serves every stop while it is open and is over within the budget, however
\* it was found -- except the end the fallback appends, whose window it does not ask (tsp_tw).
ServedWhileOpen ==
  tour # <<>> =>
    LET t == tour[1].trip
        r == tour[1].result
        route == SubSeq(r.order, 1, r.visited + 1)
        at == ServedAt(t, route)
        forced == r.objective = "greedy_partial" /\ t.end # 0
    IN LeavesFreely(t) /\ r.visited > 0 =>
         /\ \A k \in 2 .. Len(route) :
              (forced /\ route[k] = t.end) \/ at[k] - t.stay[route[k]] <= t.close[route[k]]
         /\ forced \/ r.total = at[Len(route)] + Home(t, Last(route))
         /\ r.total <= t.budget

\* A stated order that fits leaves the search something to find: freed, the same trip is ordered
\* by the exact search, reaches every stop, and takes no longer (tsp_tw against its own walk, which
\* asks of the start neither its window nor the budget: trips that may begin).
FreedomNeverCostsMore ==
  tour # <<>> =>
    LET t == tour[1].trip
        r == tour[1].result
        free == Planned([t EXCEPT !.fixed = FALSE])
        mayBegin == LeavesFreely(t) /\ 0 <= t.close[t.start] /\ 0 <= t.budget
    IN t.fixed /\ mayBegin /\ r.unvisited = {} =>
         /\ free.objective = "optimal_order" /\ free.unvisited = {}
         /\ free.total <= r.total

\* Ranked by travel time, a place is measured by its own leg from the anchor, though the anchor and
\* other kinds were left out in between -- as long as the list is the one that was routed, and no
\* candidate before it was left unlocated: those the matrix drops, and nearest counts (nearest reads
\* routes by pair_index).
TimedLegIsItsOwn ==
  ranked # <<>> /\ ranked[1].by = "time" /\ list[1].routed = list[1].places =>
    \A k \in DOMAIN ranked[1].places :
      LET c == ranked[1].places[k]
      IN (\A j \in 1 .. c.index : list[1].places[j] # <<>>) =>
           c.m = IF SameEndpoint(Anchor[1], At(c)) THEN 0 ELSE Seconds[Anchor[1]][At(c)]

\* A place supports at most one option, a pairing is only passed over for a stronger one of the
\* option or of the place, and the option chosen has the best ranked place (match_options).
OnePlaceOneOption ==
  answer # <<>> /\ answer[1].by = "nearest" =>
    LET r == answer[1].result
        options == list[1].search.options
        Sim(o, k) == Similarity(options[o], At(r.ranked[k]).name)
    IN /\ \A o, u \in DOMAIN r.matched : o # u => r.matched[o] # r.matched[u]
       /\ \A o \in DOMAIN options, k \in DOMAIN r.ranked :
            Sim(o, k) >= Floor =>
              \/ o \in DOMAIN r.matched /\ Sim(o, r.matched[o]) >= Sim(o, k)
              \/ \E u \in DOMAIN r.matched : r.matched[u] = k /\ Sim(u, k) >= Sim(o, k)
       /\ \A o \in DOMAIN r.matched : r.best # <<>> /\ r.matched[r.best[1]] <= r.matched[o]

\* A result is computed from results alone: a step that failed leaves nothing that any later total
\* was taken over, the addends that were dropped included, and every leg in a total was routed
\* (_resolve_references, _drop_subsumed_addends, _amount_number).
FailureTravels ==
  About("plan") =>
    \A k \in DOMAIN values : values[k].ok =>
      /\ \A j \in Derivation(task.steps)[k] : values[j].ok
      /\ task.steps[k].kind \in {"extract", "sum"} => Measured(values[k])

\* "A total must not add a measurement to the thing it was measured from": as long as what its
\* addends share is one of them, a total counts no leg twice (_drop_subsumed_addends).
SharesNothingElse(plan, k) ==
  LET Whence(r) == {r.root} \cup Derivation(plan)[r.root]
  IN \A i, j \in DOMAIN plan[k].reads :
       LET a == plan[k].reads[i]
           b == plan[k].reads[j]
       IN a.root = b.root \/ Whence(a) \cap Whence(b) \subseteq Whence(a) \cap {a.root, b.root}
CountedOnce ==
  About("plan") =>
    \A k \in DOMAIN values :
      /\ task.steps[k].kind = "sum" /\ values[k].ok
      /\ \A j \in Derivation(task.steps)[k] \cup {k} :
           task.steps[j].kind = "sum" => SharesNothingElse(task.steps, j)
      => IsInjective(LegsOf(values[k]))

\* "The rule must only ever drop a source of another addend, never a measurement of its own": an
\* addend no other one was computed from is in the total (_drop_subsumed_addends).
OnlySourcesDropped ==
  About("plan") =>
    \A k \in DOMAIN values : task.steps[k].kind = "sum" /\ values[k].ok =>
      \A i \in DOMAIN task.steps[k].reads :
        LET ref == task.steps[k].reads[i]
        IN \/ \E j \in DOMAIN task.steps[k].reads :
                ref.root \in Derivation(task.steps)[task.steps[k].reads[j].root]
           \/ ToSet(LegsOf(Resolved(values, ref))) \subseteq ToSet(LegsOf(values[k]))

\* "An answer matches an option when, written at the precision that option is written to, it is
\* that option", and to nothing else: of what an amount rounds to, the option that is spelled in the
\* wording, or else the only one, and none where there are two -- whatever the wording, unless it
\* spells an option the amount does not round to, or has the figures of one in another unit
\* (MCQAdapter.select).
SelectionIsRounding ==
  answer # <<>> /\ answer[1].by = "option" /\ answer[1].measured # <<>> =>
    LET a == answer[1]
        m == a.measured[1]
        Lengths(o) == {q \in ToSet(ParseQuantity(a.options[o])) : q.dimension = "length"}
        fits == {o \in DOMAIN a.options : \E q \in Lengths(o) : 2 * Abs(m - q.value) <= q.resolution}
        figures == {o \in DOMAIN a.options : \E q \in Lengths(o) : q.resolution # 1 /\ m * q.resolution = q.value}
        spelt == {o \in DOMAIN a.options : \E said \in {a.said.text, a.said.value.s} :
                    said # <<>> /\ (Holds(said, a.options[o]) \/ Holds(a.options[o], said))}
    IN spelt \cup figures \subseteq fits => a.result = Alone(IF spelt = {} THEN fits ELSE spelt)
=============================================================================
