---------------------------- MODULE PlaceResolver ----------------------------
(***************************************************************************)
(* How the aggregation tools turn names into places (ToolRegistry).         *)
(*                                                                         *)
(* The provider is external: Searched and Nearby say what it returns. A     *)
(* batch is [names, anchor, radius, strict, down]: the names to resolve, an *)
(* optional anchor name, the radius to look in, whether names are strict,   *)
(* and the names whose lookup fails at the provider. A row is the optional  *)
(* place of a name.                                                         *)
(***************************************************************************)
EXTENDS Places

CONSTANTS
  Locality,        \* BATCH_LOCALITY_SPAN_M
  Order            \* the order the provider lists places in: a sequence of Places
ASSUME OrderAssumption == Order \in Seq(Places)

Listed(S) == Kept(Order, LAMBDA p : p \in S)

\* _search_place_candidates: the name as written, and the brand alone while no name found fits.
NameSearch(query) ==
  LET Find(name) == {p \in Places : SameBrand(name, p.name) /\ name.branch \in {"", p.name.branch}}
      first == Find(query)
      broad == Find([query EXCEPT !.branch = ""])
  IN Listed(first) \o (IF \E p \in first : Within(query, p.name) THEN <<>> ELSE Listed(broad \ first))

\* nearby_search is tolerant: a neighbourhood without the name returns others of its kind.
KindsOf(query) == {p.kind : p \in {q \in Places : q.name.brand = query.brand}}
Nearby(anchor, query, radius) ==
  Listed({p \in Places : Dist(anchor, p) <= radius /\ p.kind \in KindsOf(query)})

\* One name of _resolve_batch, near an optional anchor.
Resolve(batch, name, anchorName, anchor) ==
  LET near == Nearby(anchor[1], name, batch.radius)
      found ==
        CASE anchor # <<>> /\ anchorName = name -> anchor
          [] anchor # <<>> /\ anchorName # name /\ near # <<>> -> near
          [] OTHER -> NameSearch(name)
      anchored == anchor # <<>> /\ anchorName # name /\ near # <<>>
      best == BestMatch(name, found, anchor, anchored /\ ~batch.strict)
  IN CASE name \in batch.down /\ ~(anchor # <<>> /\ anchorName = name) -> <<>>
       [] best = <<>> /\ anchored -> BestMatch(name, NameSearch(name), anchor, FALSE)
       [] OTHER -> best
ResolveBatch(batch, anchorName, anchor) ==
  [k \in DOMAIN batch.names |-> Resolve(batch, batch.names[k], anchorName, anchor)]

\* _resolved_places: keyed by the name, so that a name asked for twice counts once, as last found.
ResolvedNames(batch, rows) == {batch.names[k] : k \in {k \in DOMAIN rows : rows[k] # <<>>}}
PlaceOfName(batch, rows, name) ==
  rows[CHOOSE k \in DOMAIN rows :
         batch.names[k] = name /\ rows[k] # <<>>
         /\ \A j \in DOMAIN rows : batch.names[j] = name /\ rows[j] # <<>> => j <= k][1]
Span(batch, rows) ==
  LET places == {PlaceOfName(batch, rows, n) : n \in ResolvedNames(batch, rows)}
  IN Max({Dist(p, q) : p, q \in places} \cup {0})

\* The names that resolved, in the order their rows came.
Keepers(batch, rows) ==
  ItemsAt(batch.names,
          {k \in DOMAIN rows : /\ rows[k] # <<>>
                               /\ \A j \in 1 .. k - 1 : batch.names[j] # batch.names[k] \/ rows[j] = <<>>})

\* Mutant of Tighter: a reading that loses a place is the tightest of all.
TighterLosing(batch, rows, best, name) ==
  LET trial == ResolveBatch(batch, name, <<PlaceOfName(batch, rows, name)>>)
  IN IF Span(batch, trial) >= Span(batch, best) THEN best ELSE trial

\* One turn of _reconcile_batch: the place of a name is taken for right, and the batch read again
\* around it; a reading that loses a place, or is no tighter than the best one, is passed over.
Tighter(batch, rows, best, name) ==
  LET trial == ResolveBatch(batch, name, <<PlaceOfName(batch, rows, name)>>)
  IN IF \/ Cardinality(ResolvedNames(batch, trial)) < 2
        \/ Span(batch, trial) >= Span(batch, best)
     THEN best ELSE trial

\* _reconcile_batch: of a pair that landed apart, each place has its turn.
Reconciled(batch, rows) ==
  LET keepers == Keepers(batch, rows)
  IN IF Cardinality(ResolvedNames(batch, rows)) # 2 \/ Span(batch, rows) <= Min({batch.radius, Locality})
     THEN rows
     ELSE Tighter(batch, rows, Tighter(batch, rows, rows, keepers[1]), keepers[2])

\* _batch_geocode: the anchor is the one named, or the first of several names. Its own search is
\* not isolated: a provider that fails there fails the batch.
AnchorName(batch) ==
  CASE batch.anchor # <<>> -> batch.anchor
    [] batch.anchor = <<>> /\ Len(batch.names) > 1 -> <<batch.names[1]>>
    [] OTHER -> <<>>
FirstReading(batch) ==
  LET anchorName == AnchorName(batch)
  IN IF anchorName = <<>> THEN ResolveBatch(batch, <<>>, <<>>)
     ELSE ResolveBatch(batch, anchorName[1], BestMatch(anchorName[1], NameSearch(anchorName[1]), <<>>, FALSE))
BatchFails(batch) == AnchorName(batch) # <<>> /\ AnchorName(batch)[1] \in batch.down
BatchGeocode(batch) == Reconciled(batch, FirstReading(batch))

\* _recover_option_places: the options the candidates do not show, looked for near the anchor and
\* kept only inside the radius and the sector the question asks about.
RepresentsOption(option, p) == Within(option, p.name)

Recovers(anchor, places, option, radius, direction) ==
  LET near == Nearby(anchor, option, radius)
      found == Kept(IF near = <<>> THEN NameSearch(option) ELSE near, LAMBDA p : p.id # anchor.id)
      best == BestMatch(option, found, <<anchor>>, FALSE)
  IN IF \/ \E p \in ToSet(places) : RepresentsOption(option, p)
        \/ best = <<>>
        \/ best # <<>> /\ \/ ~RepresentsOption(option, best[1])
                          \/ best[1].id \in {p.id : p \in ToSet(places)}
                          \/ Dist(anchor, best[1]) > radius
                          \/ direction # "" /\ ~LiesIn(anchor, best[1], direction)
     THEN <<>> ELSE best
RecoverOptions(anchor, candidates, options, radius, direction) ==
  LET after[n \in 0 .. Len(options)] ==
        IF n = 0 THEN candidates
        ELSE after[n - 1] \o Recovers(anchor, after[n - 1], options[n], radius, direction)
  IN after[Len(options)]
=============================================================================
