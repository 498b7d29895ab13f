------------------------------- MODULE Places -------------------------------
(***************************************************************************)
(* Places, their names and where they lie (tools/spatial.py, registry.py).  *)
(*                                                                         *)
(* A place is [id, at, name, kind]: its provider id, its point <<x, y>> on  *)
(* a grid, its name and its category. A name is [brand, branch, latin]:     *)
(* who it is, which outlet ("" for none) and the script it is written in.   *)
(* Names are compared by what the character scores of the code decide: the  *)
(* same name, one inside the other, two branches of one brand, or nothing.  *)
(* An optional value is <<>> or <<value>>.                                  *)
(***************************************************************************)
EXTENDS Lists

CONSTANTS
  Places,          \* the places the provider knows
  KnownBrands      \* the brands _category_compatibility tells from other businesses
ASSUME PlacesAssumption == \A p \in Places : p.at \in Int \X Int

Abs(n) == IF n < 0 THEN -n ELSE n
Dist(p, q) == Abs(p.at[1] - q.at[1]) + Abs(p.at[2] - q.at[2])
Chosen(S) == IF S = {} THEN <<>> ELSE <<CHOOSE x \in S : TRUE>>

-----------------------------------------------------------------------------
\* Names.

SameText(m, n) == m = n
SameBrand(m, n) == m.brand = n.brand /\ m.latin = n.latin
Within(m, n) == SameBrand(m, n) /\ (m.branch = n.branch \/ "" \in {m.branch, n.branch})
Branches(m, n) == SameBrand(m, n) /\ ~Within(m, n)

\* _names_the_same_place: two branches of a brand are two places; a name in another script
\* cannot testify, and counts where the caller bounded the neighbourhood.
NamesTheSame(query, p, crossScript) ==
  Within(query, p.name) \/ (crossScript /\ query.latin # p.name.latin)

CategoryScore(query, p) ==
  CASE query.brand \notin KnownBrands -> 0
    [] query.brand \in KnownBrands /\ SameBrand(query, p.name) -> 5
    [] OTHER -> -4
BranchScore(query, p) ==
  CASE query.branch = "" \/ p.name.branch = "" -> 0
    [] query.branch # "" /\ p.name.branch = query.branch -> 2
    [] OTHER -> -2
Flag(b) == IF b THEN 1 ELSE 0

\* _best_place_match's score; of equals, max() takes the first of the list.
Score(query, anchor, p) ==
  <<Flag(SameText(query, p.name)), CategoryScore(query, p), BranchScore(query, p),
    Flag(Within(query, p.name)),
    IF anchor = <<>> THEN 0 ELSE -Dist(anchor[1], p)>>
Outscores(s, t) ==
  \E k \in DOMAIN s : s[k] > t[k] /\ \A j \in 1 .. k - 1 : s[j] = t[j]
TopScored(query, anchor, matches) ==
  CHOOSE k \in DOMAIN matches :
    \A j \in DOMAIN matches \ {k} :
      \/ Outscores(Score(query, anchor, matches[k]), Score(query, anchor, matches[j]))
      \/ Score(query, anchor, matches[k]) = Score(query, anchor, matches[j]) /\ k < j

\* _best_place_match
BestMatch(query, matches, anchor, crossScript) ==
  IF matches = <<>> THEN <<>>
  ELSE LET best == matches[TopScored(query, anchor, matches)]
       IN IF NamesTheSame(query, best, crossScript) THEN <<best>> ELSE <<>>

-----------------------------------------------------------------------------
\* Directions. A bearing on a sector's border belongs to the north or the south (round to even).

Cardinal(p, q) ==
  LET dx == q.at[1] - p.at[1]
      dy == q.at[2] - p.at[2]
  IN CASE Abs(dx) <= Abs(dy) /\ dy >= 0 -> "N"
       [] Abs(dx) <= Abs(dy) /\ dy < 0 -> "S"
       [] Abs(dx) > Abs(dy) /\ dx > 0 -> "E"
       [] OTHER -> "W"

\* The eight sectors: off both axes by more than 22.5 degrees, whose tangent is about 2/5.
Sector(p, q) ==
  LET dx == q.at[1] - p.at[1]
      dy == q.at[2] - p.at[2]
      ns == IF dy > 0 THEN "N" ELSE "S"
      ew == IF dx > 0 THEN "E" ELSE "W"
  IN IF 5 * Abs(dx) <= 2 * Abs(dy) \/ 5 * Abs(dy) <= 2 * Abs(dx)
     THEN Cardinal(p, q)
     ELSE CASE ns = "N" /\ ew = "E" -> "NE" [] ns = "N" /\ ew = "W" -> "NW"
            [] ns = "S" /\ ew = "E" -> "SE" [] OTHER -> "SW"
LiesIn(anchor, p, direction) ==
  IF direction \in {"NE", "NW", "SE", "SW"}
  THEN Sector(anchor, p) = direction ELSE Cardinal(anchor, p) = direction
=============================================================================
