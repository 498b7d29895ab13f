----------------------------- MODULE Grounding -----------------------------
(***************************************************************************)
(* What the question states, bound to the operators that need it            *)
(* (_ground_graph_literals). A grounded node also has lit, the literals     *)
(* bound to it by name. A statement of the question is                      *)
(*   stated, stop   the facts the concept graph carries (see ConceptGraph)  *)
(*   short          pairs <<written, name>>: the planner wrote part of name *)
(*   anchor, pair, origin, destination   the places it singles out          *)
(*   stays, budget, returns, ordered, objective   what it asks of a trip    *)
(*   kinds          how many searches find the kind of place it wants       *)
(*   priority, turns   whether it states a routing priority, counts turns   *)
(* The nodes come from wire_arguments: an argument is a reference, a        *)
(* duration is one whole reference, and nothing is a candidate text.        *)
(***************************************************************************)
EXTENDS Factorization

PriorityOperators == {"directions", "travel_time", "distance_matrix", "calculate_finish_time"}
Nowhere == <<"none", 0>>
NothingStated ==
  [stated |-> {}, stop |-> Nowhere, short |-> {}, anchor |-> Nowhere, pair |-> <<>>,
   origin |-> Nowhere, destination |-> Nowhere, stays |-> <<>>, budget |-> FALSE, returns |-> FALSE,
   ordered |-> FALSE, objective |-> "none", kinds |-> 0, priority |-> FALSE, turns |-> FALSE]
States(facts, type) == type \in FactorTypes(facts.stated)

\* A name, and one that is part of it.
Alike(facts, a, b) == a = b \/ <<a, b>> \in facts.short \/ <<b, a>> \in facts.short
Matching(facts, names, wanted) ==
  LET same == {i \in DOMAIN names : names[i] = wanted}
      alike == {i \in DOMAIN names : Alike(facts, names[i], wanted)}
      First(S) == {i \in S : \A j \in S : i <= j}
  IN IF same # {} THEN First(same) ELSE First(alike)

\* stated_places: what a name the planner cut short is restored to.
StatedPlaces(facts) ==
  {facts.anchor, facts.destination} \cup ToSet(facts.pair) \cup {s[1] : s \in ToSet(facts.stays)}
Verbatim(facts, name) ==
  LET full == {p \in StatedPlaces(facts) : <<name, p>> \in facts.short}
  IN IF name \in StatedPlaces(facts) \/ full = {} THEN name ELSE CHOOSE p \in full : TRUE

\* stated_stay, and stay_for: the same for a place the plan wrote in part.
StayOf(facts, name) ==
  FoldLeft(LAMBDA found, s : IF found = 0 /\ s[1] = name THEN s[2] ELSE found, 0, facts.stays)
StayFor(facts, name) ==
  FoldLeft(LAMBDA found, s : IF found = 0 /\ Alike(facts, s[1], name) THEN s[2] ELSE found,
           StayOf(facts, name), facts.stays)

\* The places of a trip, as the plan wrote them: the first list of more than two it locates.
TripNames(F) ==
  LET lists == SelectSeq(F.graph, LAMBDA n : n.op = "batch_geocode" /\ Len(n.names) > 2)
  IN IF lists = <<>> THEN <<>> ELSE lists[1].names

-----------------------------------------------------------------------------
\* _retrieval_steps.
WithLit(n, lit) ==
  [id |-> n.id, op |-> n.op, args |-> n.args, names |-> n.names, deps |-> n.deps, type |-> n.type,
   role |-> n.role, lit |-> lit]
Branch(n, k) == <<n.id[1], n.id[2], "kind", k>>

\* Mutant of Retrievals: the merge has a name of its own.
RetrievalsRenamed(n, lit, kinds) ==
  [k \in 1..(kinds + 1) |->
     IF k <= kinds THEN WithLit([n EXCEPT !.id = Branch(n, k)], lit @@ [kind |-> k])
     ELSE WithLit([n EXCEPT !.id = Composed(n.id, "merged"), !.op = "merge_places", !.type = "object",
                            !.args = [items |-> [i \in 1..kinds |-> <<Branch(n, i)>>]],
                            !.deps = [i \in 1..kinds |-> Branch(n, i)]], <<>>)]

\* A search for each spelling of the kind, and a merge that takes the name of the search.
Retrievals(n, lit, kinds) ==
  LET branch == [k \in 1..kinds |-> Branch(n, k)]
      Search(k) == WithLit([n EXCEPT !.id = branch[k]], lit @@ [kind |-> k])
      merge == [n EXCEPT !.op = "merge_places", !.type = "object", !.deps = branch,
                         !.args = [items |-> [k \in 1..kinds |-> <<branch[k]>>]]]
  IN IF kinds = 1 THEN <<WithLit(n, lit @@ [kind |-> 1])>>
     ELSE [k \in 1..kinds |-> Search(k)] \o <<WithLit(merge, <<>>)>>

-----------------------------------------------------------------------------
\* The trip: its start, its end and the tour between them.

\* Mutant of CountsItsOwnStays: the cost of a tour is taken for travel alone.
CountsNoStays(F, ref) == FALSE

\* _counts_its_own_stays: the whole cost of a tour.
CountsItsOwnStays(F, ref) == Len(ref) = 1 /\ OpOf(F, ref[1]) = "tsp_tw"

StartLiterals(F, facts, n) ==
  IF n.deps # <<>> /\ ~CountsItsOwnStays(F, n.args.duration_s[1]) /\ facts.stays # <<>>
  THEN [stays |-> Mapped(LAMBDA s : s[2], facts.stays)] ELSE <<>>

\* An itinerary is the trip, or what several nodes emit: those stops have no names yet.
Itinerary(F, n) ==
  LET locations == IF n.deps = <<>> THEN <<>> ELSE n.args.locations
      trip == TripNames(F)
  IN CASE Len(locations) > 1 -> [i \in DOMAIN locations |-> <<"$", i>>]
       [] Len(locations) = 1 /\ Len(trip) > 1 -> trip
       [] OTHER -> <<>>

\* _closed_itinerary: out from the stated base and back to it.
ClosedItinerary(F, facts, stops) ==
  LET named == Matching(facts, stops, facts.origin)
      among == IF named # {} THEN stops ELSE TripNames(F)
      found == Matching(facts, among, facts.origin)
      base == {among[i] : i \in found}
  IN CASE found = {} -> stops
       [] OTHER -> SetToSeq(base) \o SelectSeq(stops, LAMBDA s : s \notin base) \o SetToSeq(base)

FinishLiterals(F, facts, n) ==
  LET stops == Itinerary(F, n)
      visited == IF stops # <<>> /\ facts.returns THEN ClosedItinerary(F, facts, stops) ELSE stops
  IN (IF visited # stops THEN [locations |-> visited] ELSE <<>>)
     @@ (IF facts.stays # <<>> /\ visited # <<>>
         THEN [stays |-> Mapped(LAMBDA s : StayOf(facts, s), visited)] ELSE <<>>)

TourLiterals(F, facts) ==
  LET names == TripNames(F)
      metres == facts.objective = "distance"
      stays == IF metres THEN <<>> ELSE facts.stays
      budget == ~metres /\ facts.budget
      last == IF facts.ordered \/ facts.returns \/ facts.destination = Nowhere THEN {}
              ELSE Matching(facts, names, facts.destination) \ {1}
      Service(i) == IF i = 1 THEN 0 ELSE StayFor(facts, names[i])
      When(yes, name, value) == IF yes THEN name :> value ELSE <<>>
  IN When(metres, "metric", "distance")
     @@ When(stays # <<>> \/ budget, "metric", "duration")
     @@ When(budget, "time_budget", TRUE)
     @@ When(facts.returns, "return_to_start", TRUE)
     @@ When(facts.ordered, "fixed_order", TRUE)
     @@ When(last # {}, "end_index", {i - 1 : i \in last})
     @@ When(names # <<>> /\ stays # <<>>, "service_times", [i \in DOMAIN names |-> Service(i)])

-----------------------------------------------------------------------------
\* Where the places are: the geocodes, and the index each is read at.

\* _indexed_references_by_root.
IndicesRead(F, id) ==
  {r[3] : r \in {ref \in UNION {UNION {ToSet(n.args[slot]) : slot \in DOMAIN n.args} :
                                 n \in ToSet(F.graph)} : Len(ref) = 3 /\ ref[1] = id}}

\* Mutant of ReadsPastItsNames: any list that an anchor disambiguates also locates it.
ReadsAnything(F, n, names) == names # <<>>

ReadsPastItsNames(F, n, names) == names # <<>> /\ \E k \in IndicesRead(F, n.id) : k >= Len(names)

GeocodeGrounded(F, facts, n) ==
  LET written == Mapped(LAMBDA name : Verbatim(facts, name), n.names)
      paired == facts.pair # <<>> /\ Len(written) = 2
      short == written # <<>> /\ <<written[1], facts.anchor>> \in facts.short
      named == IF short THEN [written EXCEPT ![1] = facts.anchor] ELSE written
      beyond == ReadsPastItsNames(F, n, named) /\ facts.anchor \notin ToSet(named)
  IN CASE paired -> WithLit([n EXCEPT !.names = facts.pair], [anchor |-> facts.pair[1], strict |-> TRUE])
       [] ~paired /\ facts.anchor # Nowhere ->
            WithLit([n EXCEPT !.names = IF beyond THEN <<facts.anchor>> \o named ELSE named],
                    [anchor |-> facts.anchor])
       [] OTHER -> WithLit([n EXCEPT !.names = written], <<>>)

-----------------------------------------------------------------------------
\* The literals of the other operators.
OnlyRoute(F, n) ==
  /\ n.op \in {"directions", "travel_time"}
  /\ \A m \in ToSet(F.graph) : m.op \in {"directions", "travel_time"} => m.id = n.id
Analysed(F, n) ==
  Kept(n.args.amounts, LAMBDA ref : OpOf(F, ref[1]) = "steps_analysis")
Priority(facts, n) ==
  IF facts.priority /\ n.op \in PriorityOperators THEN [priority |-> TRUE] ELSE <<>>
Filtered(facts, n) ==
  CASE n.op = "nearest" /\ facts.kinds > 0 -> [required_type |-> TRUE]
    [] n.op = "filter_by_direction" /\ States(facts, "direction") -> [direction |-> TRUE]
    [] n.op = "filter_places" /\ States(facts, "target_subtype") -> [required_types |-> TRUE]
    [] n.op \in {"filter_by_distance", "within_radius"} /\ States(facts, "radius_m") -> [radius |-> TRUE]
    [] OTHER -> <<>>

\* One turn of the loop of _ground_graph_literals: the nodes that take the place of n.
GroundedNode(F, facts, n) ==
  LET As(lit) == <<WithLit(n, lit @@ Priority(facts, n))>>
  IN CASE n.op = "nearby_places" /\ facts.kinds > 0 ->
            Retrievals(n, [radius |-> States(facts, "radius_m")], facts.kinds)
       [] n.op = "calculate_start_time" -> As(StartLiterals(F, facts, n))
       [] n.op = "calculate_finish_time" -> As(FinishLiterals(F, facts, n))
       [] n.op = "tsp_tw" -> As(TourLiterals(F, facts))
       [] n.op = "sum_amounts" /\ facts.turns /\ Analysed(F, n) # <<>> ->
            <<WithLit([n EXCEPT !.args.amounts = Analysed(F, n)], [key |-> TRUE])>>
       [] OnlyRoute(F, n) /\ facts.stop # Nowhere /\ "waypoints" \notin DOMAIN n.args ->
            As([waypoints |-> facts.stop])
       [] n.op = "batch_geocode" -> <<GeocodeGrounded(F, facts, n)>>
       [] OTHER -> As(Filtered(facts, n))
GroundedGraph(F, facts) == FlattenSeq(Mapped(LAMBDA n : GroundedNode(F, facts, n), F.graph))
=============================================================================
