----------------------------- MODULE MCMapTools -----------------------------
(***************************************************************************)
(* An instance of MapTools for TLC: a small town with a namesake of one of  *)
(* its places in the next one, which the provider lists first.              *)
(***************************************************************************)
EXTENDS MapTools

Name(brand, branch, latin) == [brand |-> brand, branch |-> branch, latin |-> latin]
A == Name("a", "", FALSE)
AN == Name("a", "north", FALSE)
B == Name("b", "", FALSE)
C == Name("c", "", FALSE)
CL == Name("c", "", TRUE)
D == Name("d", "", FALSE)
E == Name("e", "", FALSE)
F == Name("f", "", FALSE)
FL == Name("f", "", TRUE)
X == Name("x", "", FALSE)
Lot(id, at, name, kind) == [id |-> id, at |-> at, name |-> name, kind |-> kind]

\* Listed as the provider lists them: the other town first.
Town ==
  <<Lot(1, <<9, 0>>, B, "mart"), Lot(2, <<9, 1>>, AN, "cafe"), Lot(3, <<0, 0>>, A, "park"),
    Lot(4, <<2, 0>>, B, "mart"), Lot(5, <<0, 3>>, C, "cafe"), Lot(6, <<0, -1>>, D, "mart"),
    Lot(7, <<30, 0>>, E, "inn"), Lot(8, <<30, 1>>, F, "pier")>>
TownPlaces == ToSet(Town)
Road == [p \in TownPlaces |-> [q \in TownPlaces |-> 500 * Dist(p, q)]]
Slow == [p \in TownPlaces |-> [q \in TownPlaces |-> Dist(p, q) + (IF p.id < q.id THEN 1 ELSE 0)]]

Batch(names, anchor, radius, strict, down) ==
  [names |-> names, anchor |-> anchor, radius |-> radius, strict |-> strict, down |-> down]
TownBatches ==
  {[about |-> "trip", batch |-> Batch(names, <<>>, radius, strict, down)] :
     names \in {<<A, B>>, <<B, A>>, <<AN, B>>, <<B, D>>, <<A, B, C>>, <<D, A, C>>, <<B, B, A>>, <<A, X, B>>},
     radius \in {3, 12}, strict \in {TRUE}, down \in {{}, {C}, {A}}}
   \cup {[about |-> "trip", batch |-> Batch(names, <<A>>, 3, FALSE, {})] : names \in {<<CL, B>>, <<E, CL, FL>>}}
   \cup
  {[about |-> "choice", batch |-> Batch(names, anchor, 3, anchor = <<>>, {})] :
     names \in {<<A>>, <<D, CL>>, <<A, X, CL, B>>}, anchor \in {<<>>, <<A>>}}

Itinerary(open, close, stay, start, end, budget, loop, fixed, metric) ==
  [open |-> open, close |-> close, stay |-> stay, start |-> start, end |-> end,
   budget |-> budget, loop |-> loop, fixed |-> fixed, metric |-> metric]
All(v) == <<v, v, v>>
\* For three nodes, and their first two.
For(n, items) == SubSeq(items, 1, n)
TownItineraries ==
  UNION {
  {Itinerary(For(n, open), For(n, close), For(n, stay), start, end, budget, loop, fixed, "duration") :
     open \in {All(0), <<0, 5, 0>>}, close \in {All(Never), <<Never, 3, Never>>, <<Never, 5, 4>>},
     stay \in {All(0), <<0, 1, 2>>, <<2, 0, 0>>}, start \in {1, 2}, end \in {0, 3},
     budget \in {Never, 7}, loop \in BOOLEAN, fixed \in BOOLEAN}
   \cup {Itinerary(For(n, All(0)), For(n, All(Never)), For(n, All(0)), start, end, Never, loop, fixed, "distance") :
          start \in {1, 2}, end \in {0, 3}, loop \in BOOLEAN, fixed \in BOOLEAN} : n \in {2, 3}}
TownGroups ==
  {<<<<2, 6>>, <<3, 8>>>>, <<<<2>>, <<3>>>>}
TownSearches ==
  {[query |-> query, kind |-> kind, stated |-> TRUE, radius |-> radius, direction |-> direction,
    options |-> options] :
     query \in {A, B}, kind \in {"", "mart"}, radius \in {2, 12},
     direction \in {"", "S"}, options \in {<<AN, B, A>>, <<C, D>>}}
TownDistances == {<<2, 3, 1500>>, <<1, 1>>}

\* Plans over three stops: measured leg by leg or from a matrix, in up to four steps, totalled last.
Ref(root, path) == [root |-> root, path |-> path]
Step(kind, reads, ends) == [kind |-> kind, reads |-> reads, ends |-> ends]
Starts == {Step("matrix", <<>>, <<1, 1>>), Step("route", <<>>, <<1, 2>>)}
Seconds2 == {Step("route", <<>>, <<2, 3>>), Step("route", <<Ref(1, 0)>>, <<1, 3>>), Step("extract", <<Ref(1, 0)>>, <<1, 1>>)}
Refs(first, n) == {Ref(k, 0) : k \in 1 .. n} \cup (IF first.kind = "matrix" THEN {Ref(1, 2), Ref(1, 6)} ELSE {})
Thirds(first) ==
  {Step("extract", <<r>>, <<1, 1>>) : r \in Refs(first, 2)} \cup {Step("sum", <<Ref(1, 0), Ref(2, 0)>>, <<1, 1>>)}
TownPlans ==
  UNION {{<<a, b, c, Step("sum", rs, <<1, 1>>)>> :
            b \in Seconds2, c \in Thirds(a), rs \in TupleOf(Refs(a, 3), 2)} : a \in Starts}
PlanBatches(plans) ==
  {[about |-> "plan", batch |-> Batch(<<A, B, C>>, <<>>, 12, TRUE, {}), steps |-> plan] : plan \in plans}
AllBatches == TownBatches \cup PlanBatches(TownPlans)
\* The plans whose total is over single legs, no two of them the same.
LegPlanBatches ==
  PlanBatches({plan \in TownPlans : /\ \A r \in ToSet(plan[4].reads) : r.path > 0
                                    /\ IsInjective(plan[4].reads)})
Metric(n) == Append(Digitized(n), "m")
Kilo(n) == Append(Digitized(n), "km")
\* Metres beside kilometres, kilometres a half of which lies between two, and figures that an amount
\* in metres shares with one in kilometres.
TownOffers ==
  {<<Metric(1000), Metric(1500), Kilo(2)>>, <<Metric(2500), Kilo(2), Kilo(4)>>,
   <<Kilo(1), Kilo(2), <<CannotKnow>>>>, <<Kilo(3), Kilo(2), Kilo(5)>>, <<Kilo(1500), Kilo(2)>>}
=============================================================================
