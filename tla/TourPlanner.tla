----------------------------- MODULE TourPlanner -----------------------------
(***************************************************************************)
(* Ordering an itinerary, or walking the one the question stated            *)
(* (SpatialOperatorRegistry.tsp_tw, _walk_stated_order).                    *)
(*                                                                         *)
(* A trip is [n, leg, open, close, stay, start, end, budget, loop, fixed]:  *)
(* n stops, the cost of driving from each to each, when each may be served  *)
(* and for how long, where the trip starts, the stop it must end at (0: any *)
(* stop), the time it may take, whether it returns, and whether the order   *)
(* is the question's. Without windows a stop is open from 0 to Never; the   *)
(* code's other defaults are a stay of 0 and a budget of Never. Stops are   *)
(* numbered from 1 (the code counts from 0).                                *)
(***************************************************************************)
EXTENDS Places

CONSTANTS
  Never,           \* later than anything
  MaxNodes         \* the largest trip that is ordered (9)

Clockless(t) ==
  /\ t.budget = Never
  /\ \A i \in 1 .. t.n : t.open[i] = 0 /\ t.close[i] = Never /\ t.stay[i] = 0

\* What tsp_tw raises on, besides the matrix: seconds in a matrix of metres, windows or stays that
\* are not one per node, too many nodes, and ends that the other arguments exclude.
TourRefuses(t, metric) ==
  \/ \E items \in {t.open, t.close, t.stay} : Len(items) # t.n
  \/ metric = "distance" /\ ~Clockless(t)
  \/ t.n \notin 1 .. MaxNodes
  \/ t.start \notin 1 .. t.n
  \/ t.end \notin 0 .. t.n
  \/ t.end = t.start
  \/ t.end # 0 /\ (t.fixed \/ t.loop)

Errands(t) == (1 .. t.n) \ {t.start, t.end}
Home(t, i) == IF t.loop THEN t.leg[i][t.start] ELSE 0
Served(t, i, at) == Max({at, t.open[i]}) + t.stay[i]
Stays(t, order) == Total([k \in DOMAIN order |-> t.stay[order[k]]])

-----------------------------------------------------------------------------
\* The exact search.

Routes(t) ==
  {<<t.start>> \o order \o (IF t.end = 0 THEN <<>> ELSE <<t.end>>) : order \in SetToSeqs(Errands(t))}

\* When each stop of a route has been served, waiting where it opens later.
ServedAt(t, route) ==
  LET at[k \in 1 .. Len(route)] ==
        Served(t, route[k], IF k = 1 THEN 0 ELSE at[k - 1] + t.leg[route[k - 1]][route[k]])
  IN at
Cost(t, route) == ServedAt(t, route)[Len(route)] + Home(t, route[Len(route)])

\* Mutant of OnTime: a stop that is reached the minute it closes is late.
OnTimeStrict(t, route) ==
  /\ \A k \in DOMAIN route : ServedAt(t, route)[k] - t.stay[route[k]] < t.close[route[k]]
  /\ \A k \in DOMAIN route : ServedAt(t, route)[k] <= t.budget
  /\ Cost(t, route) <= t.budget

OnTime(t, route) ==
  /\ \A k \in DOMAIN route : ServedAt(t, route)[k] - t.stay[route[k]] <= t.close[route[k]]
  /\ \A k \in DOMAIN route : ServedAt(t, route)[k] <= t.budget
  /\ Cost(t, route) <= t.budget

\* permutations() yields the routes in lexicographic order, and the first of the cheapest stays.
Earlier(r, q) == \E k \in DOMAIN r : r[k] < q[k] /\ \A j \in 1 .. k - 1 : r[j] = q[j]
Fitting(t) == {r \in Routes(t) : OnTime(t, r)}
Best(t) ==
  CHOOSE r \in Fitting(t) : \A q \in Fitting(t) :
    \/ Cost(t, r) < Cost(t, q)
    \/ Cost(t, r) = Cost(t, q) /\ (r = q \/ Earlier(r, q))

-----------------------------------------------------------------------------
\* The nearest-first walk, for trips no order of which fits, and the stated order. A walk is
\* [order, at]: the stops served so far and the time.

\* Mutant of Reaches: the drive home is not reserved.
ReachesOneWay(t, walk, i) ==
  LET arrival == walk.at + t.leg[Last(walk.order)][i]
  IN Max({arrival, t.open[i]}) <= t.close[i] /\ Served(t, i, arrival) <= t.budget

Reaches(t, walk, i) ==
  LET arrival == walk.at + t.leg[Last(walk.order)][i]
  IN /\ Max({arrival, t.open[i]}) <= t.close[i]
     /\ Served(t, i, arrival) + Home(t, i) <= t.budget
Extended(t, walk, i) ==
  [order |-> Append(walk.order, i), at |-> Served(t, i, walk.at + t.leg[Last(walk.order)][i])]

Greedy(t) ==
  LET after[k \in 0 .. t.n] ==
        IF k = 0 THEN [order |-> <<t.start>>, at |-> t.stay[t.start]]
        ELSE LET walk == after[k - 1]
                 here == Last(walk.order)
                 open == {i \in Errands(t) \ ToSet(walk.order) : Reaches(t, walk, i)}
             IN IF open = {} THEN walk
                ELSE Extended(t, walk, CHOOSE i \in open : \A j \in open :
                       t.leg[here][i] < t.leg[here][j] \/ (t.leg[here][i] = t.leg[here][j] /\ i <= j))
  IN after[t.n]

\* The stop the trip must end at is appended if the budget allows; its window is not asked.
WithEnd(t, walk) ==
  LET finish == walk.at + t.leg[Last(walk.order)][t.end] + t.stay[t.end]
  IN IF t.end = 0 \/ finish > t.budget THEN walk
     ELSE [order |-> Append(walk.order, t.end), at |-> finish]

\* _walk_stated_order: the start, then the stops as listed until one does not fit.
Walk(t) ==
  LET after[k \in 0 .. t.n] ==
        IF k = 0 THEN [order |-> <<t.start>>, at |-> 0]
        ELSE LET walk == after[k - 1]
             IN IF k # t.start /\ (1 .. k - 1) \subseteq ToSet(walk.order) /\ Reaches(t, walk, k)
                THEN Extended(t, walk, k) ELSE walk
  IN after[t.n]

-----------------------------------------------------------------------------
\* tsp_tw's result: the order with the drive home, the stops visited besides the start, the stops
\* not reached, the whole time and the part of it that was not spent at stops.
Tour(t, walk, objective) ==
  LET order == walk.order
      home == t.loop /\ (objective = "optimal_order" \/ Last(order) # t.start)
      total == walk.at + (IF home THEN t.leg[Last(order)][t.start] ELSE 0)
  IN [order |-> IF home THEN Append(order, t.start) ELSE order,
      visited |-> Len(order) - 1,
      unvisited |-> (1 .. t.n) \ ToSet(order),
      total |-> total,
      travel |-> total - Stays(t, order),
      objective |-> objective]
Planned(t) ==
  CASE t.fixed -> Tour(t, Walk(t), "stated_order")
    [] ~t.fixed /\ Fitting(t) # {} ->
         Tour(t, [order |-> Best(t), at |-> ServedAt(t, Best(t))[Len(Best(t))]], "optimal_order")
    [] OTHER -> Tour(t, WithEnd(t, Greedy(t)), "greedy_partial")
=============================================================================
