----------------------------- MODULE Candidates -----------------------------
(***************************************************************************)
(* The operators that narrow and rank candidate places                      *)
(* (SpatialOperatorRegistry).                                               *)
(*                                                                         *)
(* A list is a sequence of optional places: <<>> is a candidate without     *)
(* coordinates. A candidate is [index, place, m]: its position in the list  *)
(* it came from, the place and the measure it is ranked by. An operator     *)
(* that raises returns Refused; otherwise <<candidates>>.                   *)
(***************************************************************************)
EXTENDS Places

Refused == <<>>

\* sort_by: stable, by the measure.
Before(items, j, k) == items[j].m < items[k].m \/ (items[j].m = items[k].m /\ j < k)
RankOf(items, k) == Cardinality({j \in DOMAIN items : Before(items, j, k)}) + 1
Ranked(items) ==
  [r \in DOMAIN items |-> items[CHOOSE k \in DOMAIN items : RankOf(items, k) = r]]

-----------------------------------------------------------------------------
\* The candidates in hand.

\* _as_place_list keeps each one's position; a list that names places and locates none raises.
Indexed(list) == [k \in DOMAIN list |-> [index |-> k, place |-> list[k], m |-> 0]]
Located(list) == Kept(Indexed(list), LAMBDA c : c.place # <<>>)
NoneLocated(list) == list # <<>> /\ \A k \in DOMAIN list : list[k] = <<>>
At(c) == c.place[1]
IsSelf(anchor, p) == p.id = anchor.id \/ p.at = anchor.at

\* _excluding_self: a place is not near itself, unless it is all there is.
ExcludingSelf(anchor, cands) ==
  LET kept == Kept(cands, LAMBDA c : ~IsSelf(anchor, At(c)))
  IN IF kept = <<>> THEN cands ELSE kept
MeasuredFrom(anchor, cands) ==
  [k \in DOMAIN cands |-> [cands[k] EXCEPT !.m = Dist(anchor, At(cands[k]))]]

-----------------------------------------------------------------------------
\* Operators that measure from an anchor.

\* filter_by_direction
FilterByDirection(anchor, list, direction) ==
  IF NoneLocated(list) THEN Refused
  ELSE <<Ranked(MeasuredFrom(anchor, Kept(ExcludingSelf(anchor, Located(list)),
                                               LAMBDA c : LiesIn(anchor, At(c), direction))))>>

\* within_radius
WithinRadius(anchor, list, radius) ==
  IF NoneLocated(list) THEN Refused
  ELSE <<Ranked(Kept(MeasuredFrom(anchor, ExcludingSelf(anchor, Located(list))),
                          LAMBDA c : c.m <= radius))>>

\* nearest and filter_places: a kind none of the places has is a gap in the vocabulary, and the
\* filter is dropped -- unless the question stated it.
OfKind(cands, kind) ==
  LET typed == Kept(cands, LAMBDA c : At(c).kind = kind)
  IN IF kind = "" \/ typed = <<>> THEN cands ELSE typed
Nearest(anchor, list, kind) ==
  IF NoneLocated(list) THEN Refused
  ELSE <<Ranked(MeasuredFrom(anchor, OfKind(ExcludingSelf(anchor, Located(list)), kind)))>>

\* Mutant of LegTo: a candidate is paired with the leg at its rank, not at its position.
LegAtRank(rows, cands, k) == IF k \in DOMAIN rows /\ rows[k].ok THEN <<rows[k]>> ELSE <<>>

\* nearest by travel time: the k-th candidate's leg is the routed pair of its own position.
LegTo(rows, cands, k) ==
  LET index == cands[k].index
  IN IF index \in DOMAIN rows /\ rows[index].ok THEN <<rows[index]>> ELSE <<>>
NearestByTime(anchor, list, kind, rows) ==
  LET cands == OfKind(ExcludingSelf(anchor, Located(list)), kind)
      timed == [k \in DOMAIN cands |->
                  [cands[k] EXCEPT !.m = IF LegTo(rows, cands, k) = <<>> THEN -1 ELSE LegTo(rows, cands, k)[1].s]]
  IN IF NoneLocated(list) THEN Refused
     ELSE <<Ranked(Kept(timed, LAMBDA c : c.m >= 0))>>

-----------------------------------------------------------------------------
\* Operators over what was measured or found.

\* filter_places, by kind: a candidate without coordinates is kept, but has no kind.
FilterPlaces(list, kind, stated) ==
  LET selected == Kept(Located(list), LAMBDA c : At(c).kind = kind)
  IN CASE kind # "" /\ selected # <<>> -> selected
       [] kind # "" /\ selected = <<>> /\ stated /\ Located(list) # <<>> -> <<>>
       [] OTHER -> Indexed(list)

\* filter_by_distance: every item must carry the measure it is compared by.
FilterByDistance(cands, limit) == <<Kept(cands, LAMBDA c : c.m <= limit)>>

\* select_by_index (0-based in the code; a negative index counts from the end).
SelectByIndex(cands, i) ==
  CASE i >= 0 /\ i < Len(cands) -> <<cands[i + 1]>>
    [] i < 0 /\ -i <= Len(cands) -> <<cands[Len(cands) + i + 1]>>
    [] OTHER -> Refused

\* select_min, select_max: of equals, the first.
SelectMin(cands) ==
  IF cands = <<>> THEN Refused ELSE <<Ranked(cands)[1]>>
SelectMax(cands) ==
  IF cands = <<>> THEN Refused
  ELSE LET top == CHOOSE k \in DOMAIN cands : \A j \in DOMAIN cands :
                    cands[j].m < cands[k].m \/ (cands[j].m = cands[k].m /\ k <= j)
       IN <<cands[top]>>

\* merge_places: branches of a retrieval, each place once.
MergePlaces(list) ==
  ItemsAt(list, {k \in DOMAIN list : list[k] # <<>> /\ \A j \in 1 .. k - 1 : list[j] # list[k]})

\* count_items
CountItems(cands) == Len(cands)
\* What an operator that reads places receives when it is handed another's result.
AsList(cands) == [k \in DOMAIN cands |-> cands[k].place]
=============================================================================
