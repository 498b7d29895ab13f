--------------------------- MODULE OptionMatching ---------------------------
(***************************************************************************)
(* Which answer option what was measured supports: the match_*_options      *)
(* operators of SpatialOperatorRegistry. Options are sequences; an option's *)
(* number is its position. Similarities are percentages.                    *)
(***************************************************************************)
EXTENDS Candidates

Floor == 68
Similarity(m, n) == IF m = n THEN 100 ELSE IF Within(m, n) THEN 80 ELSE 0

\* Mutant of Pairings: a place one option claimed may support another as well.
PairingsShared(labels, cands, assigned) ==
  {x \in (DOMAIN labels \ DOMAIN assigned) \X DOMAIN cands :
     Similarity(labels[x[1]], At(cands[x[2]]).name) >= Floor}

\* The pairings still open: neither side used, and similar enough.
Pairings(labels, cands, assigned) ==
  {x \in (DOMAIN labels \ DOMAIN assigned) \X DOMAIN cands :
     /\ Similarity(labels[x[1]], At(cands[x[2]]).name) >= Floor
     /\ \A o \in DOMAIN assigned : assigned[o] # x[2]}
Stronger(labels, cands, a, b) ==
  LET Sim(x) == Similarity(labels[x[1]], At(cands[x[2]]).name)
  IN \/ Sim(a) > Sim(b)
     \/ Sim(a) = Sim(b) /\ (a[2] < b[2] \/ (a[2] = b[2] /\ a[1] <= b[1]))

\* _assign_unique_matches: the strongest pairing first, of equals the better ranked place's.
Claim(labels, cands, assigned) ==
  LET open == Pairings(labels, cands, assigned)
      top == CHOOSE x \in open : \A y \in open : Stronger(labels, cands, x, y)
  IN IF open = {} THEN assigned
     ELSE [o \in DOMAIN assigned \cup {top[1]} |-> IF o = top[1] THEN top[2] ELSE assigned[o]]
Assignment(labels, cands) ==
  LET after[n \in 0 .. Len(labels)] ==
        IF n = 0 THEN <<>> ELSE Claim(labels, cands, after[n - 1])
  IN after[Len(labels)]

\* match_options, mode "nearest": the option whose place ranks first.
MatchOptions(options, list, anchor) ==
  LET cands == IF anchor = <<>> THEN Located(list)
               ELSE Ranked(MeasuredFrom(anchor[1], Located(list)))
      matched == Assignment(options, cands)
      best == {o \in DOMAIN matched : \A other \in DOMAIN matched : matched[o] <= matched[other]}
  IN [ranked |-> cands, matched |-> matched, best |-> Chosen(best)]

\* match_options, mode "radius_set": options are sets of names; the one that names exactly what
\* is there, or the one that comes closest (F1), the first of equals.
MatchOptionSets(options, members, list) ==
  LET matched == Assignment(members, Located(list))
      present == {members[k] : k \in DOMAIN matched}
      Hits(o) == Cardinality(options[o] \cap present)
      Size(o) == Cardinality(options[o]) + Cardinality(present)
      Closer(o, u) ==
        CASE (options[o] = present) # (options[u] = present) -> options[o] = present
          [] Hits(o) * Size(u) # Hits(u) * Size(o) -> Hits(o) * Size(u) > Hits(u) * Size(o)
          [] OTHER -> o <= u
      best == {o \in DOMAIN options : \A u \in DOMAIN options : Closer(o, u)}
  IN [present |-> present, best |-> IF present = {} THEN <<>> ELSE Chosen(best)]

\* match_count_options: exact, and by one option alone.
MatchCount(options, count) ==
  LET exact == {o \in DOMAIN options : options[o] = count}
  IN IF Cardinality(exact) = 1 THEN Chosen(exact) ELSE <<>>

\* match_distance_options: the nearest number, and whether it is within a quarter of the measure.
MatchDistance(options, m) ==
  LET Error(o) == Abs(options[o] - m)
      best == CHOOSE o \in DOMAIN options :
                \A u \in DOMAIN options : Error(o) < Error(u) \/ (Error(o) = Error(u) /\ o <= u)
  IN IF options = <<>> THEN [best |-> <<>>, fits |-> FALSE]
     ELSE [best |-> <<best>>, fits |-> 4 * Error(best) <= Max({m, options[best], 1})]

\* match_type_options: the option most like the place's kind or name.
MatchType(options, kinds, place) ==
  LET Like(o) == IF kinds[o] = place.kind THEN 100 ELSE Similarity(options[o], place.name)
      best == {o \in DOMAIN options : Like(o) >= Floor /\ \A u \in DOMAIN options :
                 Like(u) < Like(o) \/ (Like(u) = Like(o) /\ o <= u)}
  IN Chosen(best)
=============================================================================
