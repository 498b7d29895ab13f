------------------------------ MODULE MCPlanner ------------------------------
(***************************************************************************)
(* An instance of Planner for TLC. The drafts are those the failures of the *)
(* planner's documentation are about: places resolved together or apart, a  *)
(* measure between some of them, possibly through a stop, and a reader of   *)
(* what was measured.                                                       *)
(***************************************************************************)
EXTENDS Planner

A == <<"a", 0>>
B == <<"b", 0>>
C == <<"c", 0>>
T(n) == <<"t", n>>

Place(role) == [core |-> "object", role |-> role, implicit |-> FALSE, named |-> TRUE]
Edge(n, t, ins, outs, factors, via) ==
  [id |-> T(n), t |-> t, ins |-> ins, outs |-> outs, factors |-> factors, via |-> via, role |-> Unsaid]
Draft(edges, steps) ==
  [node |-> (A :> Place("support")) @@ (B :> Place("support")) @@ (C :> Place("support")),
   pool |-> <<A, B, C>>, factors |-> {}, edges |-> edges, steps |-> steps]

Resolutions ==
  {<<Edge(1, "RESOLVE_PLACES", ids, outs, {}, <<>>)>> : ids \in {<<A, B, C>>}, outs \in {<<>>, <<A, B, C>>}}
   \cup {<<Edge(1, "RESOLVE_PLACES", <<A, B>>, <<A, B>>, {}, <<>>)>>}
Seconds ==
  {<<>>, <<Edge(2, "RESOLVE_PLACES", <<C>>, <<C>>, {}, <<>>)>>,
   <<Edge(2, "PLACE_SEARCH", <<A>>, <<>>, {}, <<>>)>>}
Measures ==
  {<<Edge(3, t, ins, <<>>, {}, via)>> :
     t \in {"ROUTE_MEASURE", "ROUTE_MATRIX", "DISTANCE_MEASURE"},
     ins \in {<<A, B>>, <<T(1), T(2)>>, <<A, B, C>>},
     via \in {<<>>, <<B>>, <<T(2)>>}}
Readers ==
  {<<Edge(4, t, ins, <<>>, {}, <<>>)>> :
     t \in {"ROUTE_COMPARE", "ROUTE_EXTRACT", "ROUTE_OPTIMIZE", "AGGREGATE"},
     ins \in {<<T(3)>>, <<T(3), T(1)>>}}
Measured ==
  {Draft(r \o s \o m \o x, FALSE) :
     r \in Resolutions, s \in Seconds, m \in Measures, x \in Readers \cup {<<>>}}

\* Chains that rank what was found, select from it, and reuse a concept's name on the way.
Found ==
  {<<Edge(1, "PLACE_SEARCH", <<A>>, outs, {}, <<>>)>> : outs \in {<<>>, <<C>>}}
Ranks ==
  {<<Edge(2, t, ins, outs, {}, <<>>)>> :
     t \in {"SORT", "DISTANCE_MEASURE", "FILTER"}, ins \in {<<T(1)>>, <<A, T(1)>>, <<C>>},
     outs \in {<<>>, <<C>>}}
Again ==
  {<<Edge(3, t, ins, outs, {}, <<>>)>> :
     t \in {"SORT", "MATCH_OPTIONS"}, ins \in {<<T(2)>>, <<C>>}, outs \in {<<>>, <<C>>}}
Selections ==
  {<<Edge(4, t, ins, <<>>, {}, <<>>)>> :
     t \in {"ORDINAL_SELECT", "MEASURE"}, ins \in {<<T(3)>>, <<C>>}}
Ranked ==
  {Draft(f \o r \o a \o c, FALSE) :
     f \in Found, r \in Ranks, a \in Again \cup {<<>>}, c \in Selections \cup {<<>>}}
  \cup {Draft(f \o r \o a, TRUE) : f \in Found, r \in Ranks, a \in Again \cup {<<>>}}

\* Drafts that are refused, or end the question.
Bare ==
  {Draft(edges, FALSE) :
     edges \in {<<>>, <<Edge(1, "AGGREGATE", <<>>, <<>>, {<<"aggregate", "difference", {}>>}, <<>>)>>,
                <<Edge(1, "ROUTE_MATRIX", <<A>>, <<A>>, {}, <<>>)>>,
                <<Edge(1, "SORT", <<B, A>>, <<A>>, {}, <<>>), Edge(2, "MEASURE", <<A>>, <<B>>, {}, <<>>)>>,
                <<Edge(1, "RESOLVE_PLACES", <<A>>, <<A>>, {}, <<>>),
                  Edge(2, "FILTER", <<A>>, <<>>, {}, <<>>)>>,
                <<Edge(1, "RESOLVE_PLACES", <<A>>, <<A>>, {}, <<>>),
                  Edge(1, "PLACE_SEARCH", <<A>>, <<>>, {}, <<>>)>>}}

\* Questions about a trip: its places are located together or apart, toured or measured, and
\* the time counted from the tour, from a total of it, or from the legs.
Trip(edges) == Draft(edges, FALSE)
TripPlaces ==
  {<<Edge(1, "RESOLVE_PLACES", <<A, B, C>>, <<A, B, C>>, {}, <<>>)>>,
   <<Edge(1, "RESOLVE_PLACES", <<A, B>>, <<A, B>>, {}, <<>>),
     Edge(5, "RESOLVE_PLACES", <<C>>, <<C>>, {}, <<>>)>>}
TripTimes ==
  {<<Edge(3, t, <<T(2)>>, <<>>, {}, <<>>)>> : t \in {"ROUTE_OPTIMIZE", "AGGREGATE", "SELECT_LEGS"}}
Totals == {<<>>, <<Edge(4, "AGGREGATE", <<T(3)>>, <<>>, {}, <<>>)>>}
Schedules ==
  {<<Edge(6, "SCHEDULE", <<id>>, <<>>, {<<"measure", when, {}>>}, <<>>)>> :
     id \in {T(3), T(4)}, when \in {"start", "finish"}}
Trips ==
  {Trip(p \o <<Edge(2, "ROUTE_MATRIX", <<A, B, C>>, <<>>, {}, <<>>)>> \o t \o s \o x) :
     p \in TripPlaces, t \in TripTimes, s \in Totals, x \in Schedules}
Stays == <<<<B, 2>>, <<C, 3>>>>
TripFacts ==
  {[NothingStated EXCEPT !.stays = Stays, !.origin = A, !.returns = r, !.ordered = o,
                         !.objective = m, !.destination = d, !.budget = (d = C)] :
     r \in BOOLEAN, o \in BOOLEAN, m \in {"none", "distance"}, d \in {Nowhere, C}}

\* Questions that single out places: an anchor, a place written in part, two that are compared,
\* a kind to search for, a stop, turns to count.
Full == <<"b_in_full", 0>>
Located ==
  {<<Edge(1, "RESOLVE_PLACES", ids, ids, {}, <<>>)>> : ids \in {<<A>>, <<B>>, <<A, B>>, <<B, C>>}}
Uses2 ==
  {<<Edge(2, t, <<T(1)>>, <<>>, {}, <<>>)>> :
     t \in {"ROUTE_MEASURE", "DISTANCE_MEASURE", "PLACE_SEARCH"}}
Uses3 ==
  {<<Edge(3, t, ins, <<>>, {}, <<>>)>> :
     t \in {"FILTER", "SORT", "ROUTE_STEPS"}, ins \in {<<T(2)>>, <<T(1), T(2)>>}}
Uses4 == {<<>>, <<Edge(4, "AGGREGATE", <<T(3), T(2)>>, <<>>, {}, <<>>)>>}
Singled == {Trip(l \o u \o v \o w) : l \in Located, u \in Uses2, v \in Uses3 \cup {<<>>}, w \in Uses4}
SingledFacts ==
  {[NothingStated EXCEPT !.stated = s, !.anchor = a, !.kinds = k] :
     s \in {{}, {<<"radius_m", "near", {}>>, <<"target_subtype", "kind", {}>>}}, a \in {Nowhere, A, Full},
     k \in 0..2}
  \cup {[NothingStated EXCEPT !.short = {<<B, Full>>}, !.anchor = Full, !.priority = TRUE],
        [NothingStated EXCEPT !.pair = <<A, B>>, !.turns = TRUE],
        [NothingStated EXCEPT !.stated = {<<"direction", "north", {}>>}, !.turns = TRUE, !.stop = C]}

\* Chains whose concepts the planner gave roles of their own.
Declared ==
  {[Draft(<<Edge(1, "PLACE_SEARCH", <<A>>, <<>>, {}, <<>>), Edge(2, "SORT", <<T(1)>>, found, {}, <<>>),
            Edge(3, "FILTER", <<T(2)>>, kept, {}, <<>>)>> \o rest, FALSE)
      EXCEPT !.node = (A :> Place("support")) @@ (B :> Place(b)) @@ (C :> Place(c))] :
     found \in {<<>>, <<C>>}, kept \in {<<>>, <<B>>},
     rest \in {<<>>, <<Edge(4, "ORDINAL_SELECT", <<T(3)>>, <<>>, {}, <<>>)>>},
     b \in {"support", "measure"}, c \in {"extent", "condition", "measure"}}

\* Steps in a role of the planner's own, in both formats, the older one declaring concepts in it.
Playing ==
  {Draft(<<Edge(1, "PLACE_SEARCH", <<A>>, <<>>, {}, <<>>),
           [Edge(2, "SORT", <<T(1)>>, outs, {}, <<>>) EXCEPT !.role = second],
           [Edge(3, "FILTER", <<T(2)>>, <<>>, {}, <<>>) EXCEPT !.role = third],
           Edge(4, "ORDINAL_SELECT", <<T(3)>>, <<>>, {}, <<>>)>>, steps) :
     outs \in {<<>>, <<C>>}, second \in {"sub_condition", "condition", "measure"},
     third \in {Unsaid, "sub_condition", "condition", "extent"}, steps \in BOOLEAN}

\* Factors that cite a concept of the draft, one that only a transformation names, or nothing there
\* is, wherever the planner wrote them.
D == <<"d", 0>>
Cites(cited) == {<<"metric", "time", {cited}>>}
Citing ==
  {Draft(<<Edge(1, "RESOLVE_PLACES", <<A, B>>, <<A, B>>, {}, <<>>),
           Edge(2, "ROUTE_MEASURE", <<T(1)>>, outs, Cites(cited), <<>>)>>, FALSE) :
     outs \in {<<>>, <<D>>}, cited \in {A, D}}
  \cup {[Draft(<<Edge(1, "RESOLVE_PLACES", <<A, B>>, <<A, B>>, {}, <<>>),
                 Edge(2, t, <<T(1)>>, outs, {}, <<>>)>>, steps) EXCEPT !.factors = Cites(cited)] :
           t \in {"ROUTE_MEASURE", "ROUTE_MATRIX"}, outs \in {<<>>, <<D>>}, cited \in {A, D},
           steps \in BOOLEAN}

MCFacts ==
  {NothingStated, [NothingStated EXCEPT !.stated = {<<"radius_m", "near", {}>>}, !.stop = C]}
MCQuestions ==
  [draft : Measured \cup Bare, facts : MCFacts]
  \cup [draft : Ranked \cup Declared \cup Playing \cup Citing, facts : {NothingStated}]
  \cup [draft : Trips, facts : TripFacts]
  \cup [draft : Singled, facts : SingledFacts]

\* The graph the docstring of route_through_the_stated_stop describes: the stop is resolved in a
\* node of its own, and the route between the other two ignores it.
StopDrafts ==
  {Draft(<<Edge(1, "RESOLVE_PLACES", <<A, B>>, outs, {}, <<>>),
           Edge(2, "RESOLVE_PLACES", <<C>>, <<C>>, {}, <<>>),
           Edge(3, "ROUTE_MEASURE", <<A, B>>, <<>>, {}, <<>>)>>, FALSE) : outs \in {<<>>, <<A, B>>}}
StopQuestions == [draft : StopDrafts, facts : MCFacts]
=============================================================================
