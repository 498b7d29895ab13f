--------------------------- MODULE MapToolsProofs ---------------------------
(***************************************************************************)
(* What the map tools promise for any places, batches, plans and options:  *)
(* a reconciled batch loses nothing, a place supports one option, a ranking *)
(* by time reads each place's own leg, a failed step leaves nothing a later *)
(* total was taken over, a total counts no leg twice, a tour keeps to the   *)
(* windows and to the budget, reports what is driven along its legs, and is *)
(* never longer for leaving its order free.                                 *)
(*                                                                         *)
(* The operators iterate over lists, so most of the way is about loops (see *)
(* ListProofs). The invariants that carry them through the steps are        *)
(* Geocoded, ChoiceInv, PlanInv, CountInv, TripInv and DrivenInv.           *)
(***************************************************************************)
EXTENDS MapTools, ListProofs

-----------------------------------------------------------------------------
\* A finite set of integers that has a member has a greatest one.
LEMMA Greatest ==
  ASSUME NEW S \in SUBSET Int, IsFiniteSet(S), S # {}
  PROVE  Max(S) \in S /\ \A y \in S : y <= Max(S)
<1>0. PICK n \in Nat : ExistsBijection(1 .. n, S)
  BY FS_NatBijection
<1>1. PICK f : f \in Bijection(1 .. n, S)
  BY <1>0 DEF ExistsBijection
<1>2. /\ f \in [1 .. n -> S]
      /\ \A y \in S : \E i \in 1 .. n : f[i] = y
  BY <1>1 DEF Bijection, Surjection, Injection
<1>3. n # 0
  <2>1. PICK y : y \in S
    OBVIOUS
  <2> QED
    BY <2>1, <1>2
<1> DEFINE R == {p \in (1 .. n) \X (1 .. n) : f[p[1]] >= f[p[2]]}
<1>A. \A i, j \in 1 .. n : f[i] \in Int /\ (<<i, j>> \in R <=> f[i] >= f[j])
  BY Zenon, <1>2
<1>4. /\ \A i, j \in 1 .. n : i # j => <<i, j>> \in R \/ <<j, i>> \in R
      /\ \A i, j, k \in 1 .. n : <<i, j>> \in R /\ <<j, k>> \in R => <<i, k>> \in R
  <2> HIDE DEF R
  <2>1. ASSUME NEW i \in 1 .. n, NEW j \in 1 .. n
        PROVE  <<i, j>> \in R \/ <<j, i>> \in R
    BY <1>A
  <2>2. ASSUME NEW i \in 1 .. n, NEW j \in 1 .. n, NEW k \in 1 .. n, <<i, j>> \in R, <<j, k>> \in R
        PROVE  <<i, k>> \in R
    <3>1. f[i] >= f[j] /\ f[j] >= f[k]
      BY <2>2, <1>A
    <3>2. f[i] \in Int /\ f[j] \in Int /\ f[k] \in Int
      BY Zenon, <1>A
    <3>3. f[i] >= f[k]
      BY <3>1, <3>2
    <3> QED
      BY <3>3, <1>A
  <2> QED
    BY <2>1, <2>2
<1>5. PICK k \in 1 .. n : \A j \in (1 .. n) \ {k} : <<k, j>> \in R
  <2> HIDE DEF R
  <2> QED
    BY Zenon, <1>3, <1>4, FirstOfAll
<1>6. ASSUME NEW j \in 1 .. n
      PROVE  f[k] >= f[j]
  <2>1. f[k] \in Int /\ f[j] \in Int
    BY Zenon, <1>2
  <2>2. CASE j = k
    BY <2>1, <2>2
  <2>3. CASE j # k
    <3>1. <<k, j>> \in R
      BY <2>3, <1>5
    <3> QED
      BY <3>1, <1>A
  <2> QED
    BY <2>2, <2>3
<1>7. f[k] \in S /\ \A y \in S : f[k] >= y
  BY <1>2, <1>6
<1>8. Max(S) \in S /\ \A y \in S : Max(S) >= y
  BY Zenon, <1>7 DEF Max
<1> QED
  BY <1>8

-----------------------------------------------------------------------------
\* Geocoding: what a search, a batch and its reconciling return.

LEMMA PositionsAreFinite ==
  ASSUME NEW n \in Nat, NEW K \in SUBSET (1 .. n)
  PROVE  IsFiniteSet(K)
<1>1. IsFiniteSet(1 .. n)
  BY FS_Interval
<1> QED
  BY Zenon, <1>1, FS_Subset

Optional(S) == {<<>>} \cup {<<p>> : p \in S}

LEMMA DistIsInt ==
  ASSUME NEW p \in Places, NEW q \in Places
  PROVE  Dist(p, q) \in Int
<1>1. /\ p.at[1] \in Int /\ p.at[2] \in Int
      /\ q.at[1] \in Int /\ q.at[2] \in Int
  BY PlacesAssumption
<1> QED
  BY <1>1 DEF Dist, Abs

LEMMA ListedIsSeq ==
  ASSUME NEW S
  PROVE  Listed(S) \in Seq(Places)
  BY OrderAssumption, ItemsAtIsSeq DEF Listed, Kept

LEMMA NearbyIsSeq ==
  ASSUME NEW anchor, NEW query, NEW radius
  PROVE  Nearby(anchor, query, radius) \in Seq(Places)
  BY ListedIsSeq DEF Nearby

LEMMA NameSearchIsSeq ==
  ASSUME NEW query
  PROVE  NameSearch(query) \in Seq(Places)
<1> DEFINE Find(name) == {p \in Places : SameBrand(name, p.name) /\ name.branch \in {"", p.name.branch}}
           first == Find(query)
           broad == Find([query EXCEPT !.branch = ""])
           rest == IF \E p \in first : Within(query, p.name) THEN <<>> ELSE Listed(broad \ first)
<1>1. Listed(first) \in Seq(Places) /\ rest \in Seq(Places)
  <2> HIDE DEF first, broad
  <2>1. <<>> \in Seq(Places) /\ Listed(broad \ first) \in Seq(Places)
    BY ListedIsSeq
  <2> QED
    BY <2>1, ListedIsSeq
<1>2. NameSearch(query) = Listed(first) \o rest
  BY DEF NameSearch
<1> HIDE DEF first, rest
<1> QED
  BY <1>1, <1>2

\* Scores are compared from the left.
Scores == [1 .. 5 -> Int]

LEMMA ScoreIsScore ==
  ASSUME NEW query, NEW anchor \in Optional(Places), NEW p \in Places
  PROVE  Score(query, anchor, p) \in Scores
<1>1. Flag(SameText(query, p.name)) \in Int /\ Flag(Within(query, p.name)) \in Int
  BY DEF Flag
<1>2. CategoryScore(query, p) \in Int
  BY DEF CategoryScore
<1>3. BranchScore(query, p) \in Int
  BY DEF BranchScore
<1>4. (IF anchor = <<>> THEN 0 ELSE -Dist(anchor[1], p)) \in Int
  <2>1. CASE anchor = <<>>
    BY <2>1
  <2>2. CASE anchor # <<>>
    <3>1. anchor[1] \in Places
      BY <2>2 DEF Optional
    <3> QED
      BY <3>1, <2>2, DistIsInt
  <2> QED
    BY <2>1, <2>2
<1> QED
  BY <1>1, <1>2, <1>3, <1>4 DEF Score, Scores

LEMMA OutscoresIsTotal ==
  ASSUME NEW s \in Scores, NEW t \in Scores, s # t
  PROVE  Outscores(s, t) \/ Outscores(t, s)
<1> DEFINE apart == {k \in 1 .. 5 : s[k] # t[k]}
<1>1. apart # {} /\ apart \in SUBSET Nat
  BY DEF Scores
<1>2. PICK k \in apart : \A j \in apart : k <= j
  <2> HIDE DEF apart
  <2> QED
    BY <1>1, LeastNumber
<1>3. \A j \in 1 .. k - 1 : s[j] = t[j]
  BY <1>2
<1>4. s[k] > t[k] \/ t[k] > s[k]
  BY <1>2 DEF Scores
<1> QED
  BY <1>2, <1>3, <1>4 DEF Outscores, Scores

LEMMA OutscoresIsTransitive ==
  ASSUME NEW s \in Scores, NEW t \in Scores, NEW u \in Scores, Outscores(s, t), Outscores(t, u)
  PROVE  Outscores(s, u)
<1>1. PICK k \in 1 .. 5 : s[k] > t[k] /\ \A j \in 1 .. k - 1 : s[j] = t[j]
  BY DEF Outscores, Scores
<1>2. PICK l \in 1 .. 5 : t[l] > u[l] /\ \A j \in 1 .. l - 1 : t[j] = u[j]
  BY DEF Outscores, Scores
<1>3. DOMAIN s = 1 .. 5 /\ \A i \in 1 .. 5 : s[i] \in Int /\ t[i] \in Int /\ u[i] \in Int
  BY DEF Scores
<1>4. CASE k <= l
  <2>1. s[k] > u[k] /\ \A j \in 1 .. k - 1 : s[j] = u[j]
    BY <1>1, <1>2, <1>3, <1>4
  <2> QED
    BY <2>1, <1>3 DEF Outscores
<1>5. CASE l < k
  <2>1. s[l] > u[l] /\ \A j \in 1 .. l - 1 : s[j] = u[j]
    BY <1>1, <1>2, <1>3, <1>5
  <2> QED
    BY <2>1, <1>3 DEF Outscores
<1> QED
  BY <1>4, <1>5

\* The place picked of a list is one of it (_best_place_match).
LEMMA TopScoredIsThere ==
  ASSUME NEW query, NEW anchor \in Optional(Places), NEW matches \in Seq(Places), matches # <<>>
  PROVE  TopScored(query, anchor, matches) \in DOMAIN matches
<1> DEFINE S(k) == Score(query, anchor, matches[k])
           Beats(k, j) == Outscores(S(k), S(j)) \/ (S(k) = S(j) /\ k < j)
           R == {p \in (DOMAIN matches) \X (DOMAIN matches) : Beats(p[1], p[2])}
           n == Len(matches)
<1>1. n \in Nat /\ n # 0 /\ DOMAIN matches = 1 .. n /\ \A k \in 1 .. n : matches[k] \in Places
  BY EmptySeq
<1>2. \A k \in 1 .. n : S(k) \in Scores
  BY <1>1, ScoreIsScore
<1>3. \A i, j \in 1 .. n : <<i, j>> \in R <=> Beats(i, j)
  BY <1>1
<1> HIDE DEF n, S, R
<1>4. ASSUME NEW i \in 1 .. n, NEW j \in 1 .. n, i # j
      PROVE  <<i, j>> \in R \/ <<j, i>> \in R
  <2>1. CASE S(i) = S(j)
    BY <2>1, <1>1, <1>3, <1>4
  <2>2. CASE S(i) # S(j)
    BY <2>2, <1>2, <1>3, OutscoresIsTotal
  <2> QED
    BY <2>1, <2>2
<1>5. ASSUME NEW i \in 1 .. n, NEW j \in 1 .. n, NEW k \in 1 .. n, <<i, j>> \in R, <<j, k>> \in R
      PROVE  <<i, k>> \in R
  <2>1. Beats(i, j) /\ Beats(j, k)
    BY <1>3, <1>5
  <2>2. Outscores(S(i), S(j)) /\ Outscores(S(j), S(k)) => Outscores(S(i), S(k))
    BY <1>2, OutscoresIsTransitive
  <2>3. Beats(i, k)
    BY <2>1, <2>2, <1>1
  <2> QED
    BY <2>3, <1>3
<1>6. PICK k \in 1 .. n : \A j \in (1 .. n) \ {k} : <<k, j>> \in R
  BY Zenon, <1>1, <1>4, <1>5, FirstOfAll
<1>7. k \in DOMAIN matches /\ \A j \in DOMAIN matches \ {k} : Beats(k, j)
  BY Zenon, <1>6, <1>3, <1>1
<1> QED
  BY <1>7 DEF TopScored, S

LEMMA BestMatchIsPlace ==
  ASSUME NEW query, NEW matches \in Seq(Places), NEW anchor \in Optional(Places), NEW crossScript
  PROVE  BestMatch(query, matches, anchor, crossScript) \in Optional(Places)
<1>1. CASE matches = <<>>
  BY <1>1 DEF BestMatch, Optional
<1>2. CASE matches # <<>>
  <2>1. matches[TopScored(query, anchor, matches)] \in Places
    BY <1>2, TopScoredIsThere
  <2> QED
    BY <1>2, <2>1 DEF BestMatch, Optional
<1> QED
  BY <1>1, <1>2
\* One name of a batch resolves to a place or to nothing.
LEMMA ResolveIsPlace ==
  ASSUME NEW batch, NEW name, NEW anchorName, NEW anchor \in Optional(Places)
  PROVE  Resolve(batch, name, anchorName, anchor) \in Optional(Places)
<1> DEFINE near == Nearby(anchor[1], name, batch.radius)
           hits == CASE anchor # <<>> /\ anchorName = name -> anchor
                      [] anchor # <<>> /\ anchorName # name /\ near # <<>> -> near
                      [] OTHER -> NameSearch(name)
           anchored == anchor # <<>> /\ anchorName # name /\ near # <<>>
           best == BestMatch(name, hits, anchor, anchored /\ ~batch.strict)
           wide == BestMatch(name, NameSearch(name), anchor, FALSE)
<1>1. near \in Seq(Places) /\ NameSearch(name) \in Seq(Places)
  BY NearbyIsSeq, NameSearchIsSeq
<1>2. anchor \in Seq(Places)
  <2>1. CASE anchor = <<>>
    BY <2>1
  <2>2. CASE anchor # <<>>
    <3>1. PICK p \in Places : anchor = <<p>>
      BY <2>2 DEF Optional
    <3> QED
      BY <3>1
  <2> QED
    BY <2>1, <2>2
<1>3. hits \in Seq(Places)
  <2> HIDE DEF near
  <2> QED
    BY <1>1, <1>2
<1>4. best \in Optional(Places) /\ wide \in Optional(Places)
  <2> HIDE DEF hits, anchored
  <2> QED
    BY Zenon, <1>1, <1>3, BestMatchIsPlace
<1>5. <<>> \in Optional(Places)
  BY DEF Optional
<1>6. Resolve(batch, name, anchorName, anchor) \in {<<>>, best, wide}
  <2>1. Resolve(batch, name, anchorName, anchor) =
          CASE name \in batch.down /\ ~(anchor # <<>> /\ anchorName = name) -> <<>>
            [] best = <<>> /\ anchored -> wide
            [] OTHER -> best
    BY DEF Resolve
  <2> HIDE DEF best, wide, anchored
  <2> QED
    BY <2>1
<1> QED
  BY Zenon, <1>4, <1>5, <1>6

-----------------------------------------------------------------------------
\* The reading of a batch of n names: each the place of its name, or nothing.
RowsOf(batch, reading) == reading \in [DOMAIN batch.names -> Optional(Places)]
Named(batch) == Listing(batch.names)

LEMMA ResolveBatchIsRows ==
  ASSUME NEW batch, NEW anchorName, NEW anchor \in Optional(Places)
  PROVE  RowsOf(batch, ResolveBatch(batch, anchorName, anchor))
  BY ResolveIsPlace DEF RowsOf, ResolveBatch

\* The place of a name that resolved is the provider's.
LEMMA PlaceOfNameIsPlace ==
  ASSUME NEW batch, Named(batch), NEW reading, RowsOf(batch, reading),
         NEW name \in ResolvedNames(batch, reading)
  PROVE  PlaceOfName(batch, reading, name) \in Places
<1> DEFINE theirs == {k \in DOMAIN reading : batch.names[k] = name /\ reading[k] # <<>>}
<1>1. DOMAIN reading = 1 .. Len(batch.names) /\ Len(batch.names) \in Nat
  BY DEF RowsOf, Named, Listing
<1>2. theirs # {} /\ theirs \in SUBSET Int /\ theirs \in SUBSET (1 .. Len(batch.names))
  BY <1>1 DEF ResolvedNames
<1>3. IsFiniteSet(theirs)
  <2> HIDE DEF theirs
  <2> QED
    BY Zenon, <1>1, <1>2, PositionsAreFinite
<1>4. Max(theirs) \in theirs /\ \A k \in theirs : k <= Max(theirs)
  <2> HIDE DEF theirs
  <2> QED
    BY <1>2, <1>3, Greatest
<1> DEFINE Last1(k) == batch.names[k] = name /\ reading[k] # <<>>
                       /\ \A j \in DOMAIN reading : batch.names[j] = name /\ reading[j] # <<>> => j <= k
           last == CHOOSE k \in DOMAIN reading : Last1(k)
<1>5. \E k \in DOMAIN reading : Last1(k)
  BY Zenon, <1>4
<1>6. last \in DOMAIN reading /\ Last1(last)
  <2> HIDE DEF Last1
  <2> QED
    BY <1>5
<1>7. reading[last] \in Optional(Places) /\ reading[last] # <<>>
  BY <1>6 DEF RowsOf
<1>8. PlaceOfName(batch, reading, name) = reading[last][1]
  BY DEF PlaceOfName
<1> HIDE DEF last
<1> QED
  BY <1>7, <1>8 DEF Optional

LEMMA NamesAreFinite ==
  ASSUME NEW batch, Named(batch), NEW reading, RowsOf(batch, reading)
  PROVE  /\ IsFiniteSet(ResolvedNames(batch, reading))
         /\ ResolvedNames(batch, reading) \subseteq ToSet(batch.names)
<1> DEFINE hits == {k \in DOMAIN reading : reading[k] # <<>>}
           f == [k \in hits |-> batch.names[k]]
           names == ResolvedNames(batch, reading)
<1>1. DOMAIN reading = 1 .. Len(batch.names) /\ Len(batch.names) \in Nat
  BY DEF RowsOf, Named, Listing
<1>2. IsFiniteSet(hits)
  <2>1. hits \in SUBSET (1 .. Len(batch.names))
    BY <1>1
  <2> HIDE DEF hits
  <2> QED
    BY Zenon, <1>1, <2>1, PositionsAreFinite
<1>3. DOMAIN f = hits /\ names = {f[k] : k \in DOMAIN f}
  BY Zenon DEF ResolvedNames
<1>4. names \subseteq ToSet(batch.names)
  BY <1>1 DEF ResolvedNames, ToSet, RowsOf
<1> HIDE DEF f, hits, names
<1>5. IsFiniteSet(names)
  BY <1>2, <1>3, ImageIsFinite
<1> QED
  BY <1>4, <1>5 DEF names

\* How far apart places are is a number.
LEMMA SpanIsInt ==
  ASSUME NEW batch, Named(batch), NEW reading, RowsOf(batch, reading)
  PROVE  Span(batch, reading) \in Int
<1> DEFINE names == ResolvedNames(batch, reading)
           places == {PlaceOfName(batch, reading, n) : n \in names}
           apart == {Dist(p, q) : p, q \in places}
<1>1. IsFiniteSet(names)
  BY NamesAreFinite
<1>2. places \subseteq Places
  BY PlaceOfNameIsPlace
<1>3. IsFiniteSet(places)
  <2> DEFINE f == [n \in names |-> PlaceOfName(batch, reading, n)]
  <2>1. DOMAIN f = names /\ places = {f[n] : n \in DOMAIN f}
    OBVIOUS
  <2> HIDE DEF f, names, places
  <2> QED
    BY <1>1, <2>1, ImageIsFinite
<1>4. IsFiniteSet(apart)
  <2> DEFINE f == [x \in places \X places |-> Dist(x[1], x[2])]
  <2> HIDE DEF places
  <2>1. DOMAIN f = places \X places /\ apart = {f[x] : x \in DOMAIN f}
    <3>1. \A p, q \in places : <<p, q>> \in DOMAIN f /\ f[<<p, q>>] = Dist(p, q)
      OBVIOUS
    <3>2. \A x \in DOMAIN f : x[1] \in places /\ x[2] \in places /\ f[x] = Dist(x[1], x[2])
      OBVIOUS
    <3>3. apart \subseteq {f[x] : x \in DOMAIN f}
      <4> HIDE DEF f
      <4>1. ASSUME NEW d \in apart
            PROVE  \E x \in DOMAIN f : f[x] = d
        <5>1. PICK p \in places, q \in places : d = Dist(p, q)
          OBVIOUS
        <5>2. <<p, q>> \in DOMAIN f /\ f[<<p, q>>] = d
          BY <5>1, <3>1
        <5> QED
          BY <5>2
      <4> HIDE DEF apart
      <4> QED BY <4>1
    <3>4. {f[x] : x \in DOMAIN f} \subseteq apart
      <4> HIDE DEF f
      <4> QED BY <3>2
    <3> QED
      BY <3>3, <3>4
  <2>2. IsFiniteSet(places \X places)
    BY <1>3, FS_Product
  <2> HIDE DEF f, apart
  <2> QED
    BY <2>1, <2>2, ImageIsFinite
<1>5. apart \subseteq Int
  <2> HIDE DEF places
  <2> QED
    BY <1>2, DistIsInt
<1>6. /\ IsFiniteSet(apart \cup {0}) /\ apart \cup {0} \in SUBSET Int /\ apart \cup {0} # {}
  <2> HIDE DEF apart
  <2> QED
    BY <1>4, <1>5, FS_AddElement
<1>7. Max(apart \cup {0}) \in Int
  <2> HIDE DEF apart
  <2> QED
    BY <1>6, Greatest
<1> QED
  BY <1>7 DEF Span
\* A turn of reconciling, with the place of a name that resolved.
LEMMA TighterKeeps ==
  ASSUME NEW batch, Named(batch), NEW reading, RowsOf(batch, reading), NEW best, RowsOf(batch, best),
         NEW name \in ResolvedNames(batch, reading), NEW next, next = Tighter(batch, reading, best, name)
  PROVE  /\ RowsOf(batch, next)
         /\ next = best \/ 2 <= Cardinality(ResolvedNames(batch, next))
         /\ Span(batch, next) <= Span(batch, best)
<1> DEFINE place == PlaceOfName(batch, reading, name)
           trial == ResolveBatch(batch, name, <<place>>)
<1>1. <<place>> \in Optional(Places)
  BY PlaceOfNameIsPlace DEF Optional
<1>2. RowsOf(batch, trial)
  BY <1>1, ResolveBatchIsRows
<1>3. Span(batch, trial) \in Int /\ Span(batch, best) \in Int
  BY <1>2, SpanIsInt
<1>4. Cardinality(ResolvedNames(batch, trial)) \in Nat
  BY <1>2, NamesAreFinite, FS_CardinalityType
<1>5. \/ next = best
      \/ /\ next = trial
         /\ ~ (Cardinality(ResolvedNames(batch, trial)) < 2)
         /\ ~ (Span(batch, trial) >= Span(batch, best))
  BY DEF Tighter
<1> HIDE DEF trial
<1> QED
  BY <1>2, <1>3, <1>4, <1>5

\* Two names resolved are two names to take for right.
LEMMA TwoKeepers ==
  ASSUME NEW batch, Named(batch), NEW reading, RowsOf(batch, reading),
         Cardinality(ResolvedNames(batch, reading)) = 2
  PROVE  /\ Keepers(batch, reading)[1] \in ResolvedNames(batch, reading)
         /\ Keepers(batch, reading)[2] \in ResolvedNames(batch, reading)
<1> DEFINE firsts == {k \in DOMAIN reading :
                        /\ reading[k] # <<>>
                        /\ \A j \in 1 .. k - 1 : batch.names[j] # batch.names[k] \/ reading[j] = <<>>}
           keepers == ItemsAt(batch.names, firsts)
           names == ResolvedNames(batch, reading)
<1>1. /\ DOMAIN reading = 1 .. Len(batch.names) /\ Len(batch.names) \in Nat
      /\ DOMAIN batch.names = 1 .. Len(batch.names)
  BY DEF RowsOf, Named, Listing
<1>2. keepers \in Seq(ToSet(batch.names)) /\ Keepers(batch, reading) = keepers
  BY ItemsAtIsSeq DEF Named, Listing, Keepers
<1>3. ASSUME NEW i \in DOMAIN keepers
      PROVE  keepers[i] \in names
  <2>1. PICK k \in DOMAIN batch.names \cap firsts : keepers[i] = batch.names[k]
    <3> HIDE DEF firsts
    <3> QED
      BY ItemsAtAreItems DEF Named
  <2> QED
    BY Zenon, <2>1, <1>1 DEF ResolvedNames
<1>4. ASSUME NEW n \in names
      PROVE  \E i \in DOMAIN keepers : keepers[i] = n
  <2> DEFINE theirs == {k \in DOMAIN reading : batch.names[k] = n /\ reading[k] # <<>>}
  <2>1. theirs # {} /\ theirs \in SUBSET Nat
    BY <1>1 DEF ResolvedNames
  <2>2. PICK k \in theirs : \A j \in theirs : k <= j
    <3> HIDE DEF theirs
    <3> QED
      BY <2>1, LeastNumber
  <2>3. k \in firsts
    <3>1. ASSUME NEW j \in 1 .. k - 1, batch.names[j] = batch.names[k], reading[j] # <<>>
          PROVE  FALSE
      <4>1. j \in DOMAIN reading /\ j < k
        BY <1>1, <2>2
      <4>2. j \in theirs
        BY <4>1, <3>1, <2>2
      <4>3. k <= j
        BY <4>2, <2>2
      <4> QED
        BY <4>1, <4>3, <1>1
    <3> QED
      BY <3>1, <2>2
  <2>4. k \in DOMAIN batch.names \cap firsts /\ batch.names[k] = n
    BY <2>2, <2>3, <1>1
  <2> HIDE DEF firsts
  <2> QED
    BY <2>4, ItemsAreKept DEF Named
<1>5. \E a, b \in names : a # b
  <2>1. IsFiniteSet(names)
    BY NamesAreFinite
  <2> HIDE DEF names
  <2>2. Cardinality(names) = 2
    BY DEF names
  <2>3. PICK a : a \in names
    BY <2>1, <2>2, FS_EmptySet
  <2>4. names # {a}
    <3>1. Cardinality({a}) = 1
      BY Zenon, FS_Singleton
    <3> QED
      BY <2>2, <3>1
  <2> QED
    BY <2>3, <2>4
<1>6. 1 \in DOMAIN keepers /\ 2 \in DOMAIN keepers
  <2> HIDE DEF keepers, names
  <2>1. PICK a \in names, b \in names : a # b
    BY <1>5
  <2>2. PICK i \in DOMAIN keepers : keepers[i] = a
    BY <1>4
  <2>3. PICK j \in DOMAIN keepers : keepers[j] = b
    BY <1>4
  <2>4. i # j /\ DOMAIN keepers = 1 .. Len(keepers) /\ Len(keepers) \in Nat
    BY <2>1, <2>2, <2>3, <1>2
  <2> QED
    BY <2>4
<1> HIDE DEF keepers
<1> QED
  BY <1>2, <1>3, <1>6

LEMMA FirstReadingIsRows ==
  ASSUME NEW batch
  PROVE  RowsOf(batch, FirstReading(batch))
<1> DEFINE name == AnchorName(batch)
           place == BestMatch(name[1], NameSearch(name[1]), <<>>, FALSE)
<1>1. <<>> \in Optional(Places)
  BY DEF Optional
<1>2. place \in Optional(Places)
  BY Zenon, <1>1, NameSearchIsSeq, BestMatchIsPlace
<1>3. FirstReading(batch) = ResolveBatch(batch, <<>>, <<>>) \/ FirstReading(batch) = ResolveBatch(batch, name[1], place)
  BY Zenon DEF FirstReading
<1> HIDE DEF place, name
<1> QED
  BY <1>1, <1>2, <1>3, ResolveBatchIsRows

\* What reconciling a reading leaves: as many names, of two the same ones, and no farther apart.
LEMMA ReconcilingKeeps ==
  ASSUME NEW batch, Named(batch), NEW reading, RowsOf(batch, reading),
         NEW after, after = Reconciled(batch, reading)
  PROVE  /\ RowsOf(batch, after)
         /\ Cardinality(ResolvedNames(batch, reading)) <= Cardinality(ResolvedNames(batch, after))
         /\ Cardinality(ToSet(batch.names)) <= 2 =>
              ResolvedNames(batch, reading) \subseteq ResolvedNames(batch, after)
         /\ Span(batch, after) <= Span(batch, reading)
<1> DEFINE before == ResolvedNames(batch, reading)
           names == ToSet(batch.names)
           first == Tighter(batch, reading, reading, Keepers(batch, reading)[1])
           second == Tighter(batch, reading, first, Keepers(batch, reading)[2])
<1>1. Cardinality(before) \in Nat /\ Span(batch, reading) \in Int
  BY NamesAreFinite, FS_CardinalityType, SpanIsInt
<1>2. CASE after = reading
  BY <1>1, <1>2
<1>3. CASE after # reading
  <2>1. Cardinality(before) = 2 /\ after = second
    BY <1>3 DEF Reconciled
  <2>2. /\ RowsOf(batch, first)
        /\ first = reading \/ 2 <= Cardinality(ResolvedNames(batch, first))
        /\ Span(batch, first) <= Span(batch, reading)
    <3>1. Keepers(batch, reading)[1] \in ResolvedNames(batch, reading)
      BY <2>1, TwoKeepers
    <3> QED
      BY <3>1, TighterKeeps
  <2>3. /\ RowsOf(batch, after)
        /\ after = first \/ 2 <= Cardinality(ResolvedNames(batch, after))
        /\ Span(batch, after) <= Span(batch, first)
    <3>1. Keepers(batch, reading)[2] \in ResolvedNames(batch, reading)
      BY <2>1, TwoKeepers
    <3> HIDE DEF first
    <3> QED
      BY <2>1, <2>2, <3>1, TighterKeeps
  <2>4. 2 <= Cardinality(ResolvedNames(batch, after))
    BY <2>1, <2>2, <2>3
  <2>5. Span(batch, after) <= Span(batch, reading)
    <3>1. Span(batch, after) \in Int /\ Span(batch, first) \in Int
      BY <2>2, <2>3, SpanIsInt
    <3> HIDE DEF first
    <3> QED
      BY <3>1, <1>1, <2>2, <2>3
  <2>6. ASSUME Cardinality(names) <= 2
        PROVE  before \subseteq ResolvedNames(batch, after)
    <3>1. IsFiniteSet(names)
      <4>1. DOMAIN batch.names = 1 .. Len(batch.names) /\ Len(batch.names) \in Nat
        BY DEF Named, Listing
      <4>2. IsFiniteSet(DOMAIN batch.names)
        BY <4>1, NumbersCount
      <4> QED
        BY <4>2, ImageIsFinite DEF ToSet
    <3>2. before \subseteq names /\ ResolvedNames(batch, after) \subseteq names
      BY <2>3, NamesAreFinite
    <3>3. Cardinality(names) \in Nat /\ Cardinality(ResolvedNames(batch, after)) \in Nat
      BY <3>1, <2>3, NamesAreFinite, FS_CardinalityType
    <3> HIDE DEF names, before
    <3>4. Cardinality(ResolvedNames(batch, after)) <= Cardinality(names)
      BY <3>1, <3>2, FS_Subset
    <3>5. Cardinality(ResolvedNames(batch, after)) = Cardinality(names)
      BY <3>3, <3>4, <2>4, <2>6
    <3>6. ResolvedNames(batch, after) = names
      BY <3>1, <3>2, <3>5, FS_Subset
    <3> QED
      BY <3>2, <3>6
  <2> QED
    BY <2>1, <2>3, <2>4, <2>5, <2>6
<1> QED
  BY <1>2, <1>3

-----------------------------------------------------------------------------
\* A reconciled batch loses nothing.

\* batch_geocode's rows are the reading of the task's batch.
Geocoded ==
  /\ task \in Batches
  /\ found # <<>> => found = <<BatchGeocode(task.batch)>>

LEMMA GeocodedStep ==
  ASSUME Geocoded, [Next]_vars
  PROVE  Geocoded'
<1>1. CASE Geocode
  BY <1>1 DEF Geocode, Geocoded
<1>2. CASE UNCHANGED <<task, found>>
  BY <1>2 DEF Geocoded
<1>3. CASE UNCHANGED vars
  <2>1. UNCHANGED <<task, found>>
    BY <1>3 DEF vars
  <2> QED
    BY <2>1, <1>2
<1>4. Next => Geocode \/ UNCHANGED <<task, found>>
  BY Zenon DEF Next, RouteStops, OrderStops, FollowLegs, TotalLegs, CompareGroups, MatchTrip, RunStep,
         Select, Retrieve, Narrow, Recover, RouteCandidates, Rank, MatchChoice, results
<1> QED
  BY <1>1, <1>2, <1>3, <1>4

LEMMA GeocodedKeeps == Geocoded => ReconcileNeverLoses
<1> SUFFICES ASSUME Geocoded, found # <<>>
             PROVE  LET first == FirstReading(task.batch)
                        before == ResolvedNames(task.batch, first)
                        after == ResolvedNames(task.batch, Stops)
                    IN /\ Cardinality(before) <= Cardinality(after)
                       /\ Cardinality(ToSet(task.batch.names)) <= 2 => before \subseteq after
                       /\ Span(task.batch, Stops) <= Span(task.batch, first)
  BY DEF ReconcileNeverLoses
<1>1. Named(task.batch)
  BY BatchAssumption DEF Geocoded, Named, Listing
<1>2. Stops = Reconciled(task.batch, FirstReading(task.batch))
  BY DEF Geocoded, Stops, BatchGeocode
<1> QED
  BY <1>1, <1>2, FirstReadingIsRows, ReconcilingKeeps

\* However far apart a batch landed and whatever its second search finds, _reconcile_batch leaves as
\* many names resolved as before, both of two, and the places no farther apart.
THEOREM ReconcilingNeverLoses == Spec => []ReconcileNeverLoses
<1>1. Init => Geocoded
  BY DEF Init, Geocoded
<1>2. Geocoded /\ [Next]_vars => Geocoded'
  BY GeocodedStep
<1>3. Geocoded => ReconcileNeverLoses
  BY GeocodedKeeps
<1> QED
  BY <1>1, <1>2, <1>3, PTL DEF Spec

-----------------------------------------------------------------------------
\* Ranking, and matching places with options.

\* Items that have a measure to be sorted by.
Sortable(items) == Listing(items) /\ \A k \in DOMAIN items : items[k].m \in Int

\* Every rank is some item's, and no two items share one: sorting loses nothing and repeats nothing.
LEMMA RankIsOneItem ==
  ASSUME NEW items, Sortable(items), NEW r \in DOMAIN items
  PROVE  /\ \E k \in DOMAIN items : RankOf(items, k) = r
         /\ \A k, l \in DOMAIN items : RankOf(items, k) = RankOf(items, l) => k = l
<1> DEFINE D == DOMAIN items
           ahead == [k \in D |-> {j \in D : Before(items, j, k)}]
           rank == [k \in D |-> RankOf(items, k)]
<1>1. D = 1 .. Len(items) /\ Len(items) \in Nat /\ D \in SUBSET Nat
  BY DEF Sortable, Listing
<1>2. IsFiniteSet(D) /\ Cardinality(D) = Len(items)
  <2>1. IsFiniteSet(1 .. Len(items)) /\ Cardinality(1 .. Len(items)) = Len(items)
    <3>1. Len(items) \in Nat
      BY <1>1
    <3> HIDE DEF D
    <3> QED
      BY <3>1, NumbersCount
  <2> QED
    BY <1>1, <2>1
<1>3. \A k \in D : rank[k] = Cardinality(ahead[k]) + 1
  BY DEF RankOf
<1>4. \A j, k \in D : j # k => (Before(items, j, k) <=> ~Before(items, k, j))
  BY <1>1 DEF Sortable, Before
<1>5. \A i, j, k \in D : Before(items, i, j) /\ Before(items, j, k) => Before(items, i, k)
  BY <1>1 DEF Sortable, Before
<1>6. \A k \in D : ~Before(items, k, k)
  BY <1>1 DEF Sortable, Before
<1>7. \A k \in D : ahead[k] \in SUBSET (D \ {k})
  BY <1>6
<1>8. \A j, k \in D : Before(items, j, k) => ahead[j] \in SUBSET ahead[k] /\ j \in ahead[k] /\ j \notin ahead[j]
  BY <1>5, <1>6
<1>9. rank \in [D -> D]
  <2> SUFFICES ASSUME NEW k \in D
               PROVE  rank[k] \in D
    BY DEF rank
  <2>1. IsFiniteSet(D \ {k}) /\ Cardinality(D \ {k}) = Len(items) - 1
    BY Zenon, <1>2, FS_RemoveElement
  <2>2. ahead[k] \in SUBSET (D \ {k})
    BY <1>7
  <2> HIDE DEF ahead, rank
  <2>3. IsFiniteSet(ahead[k]) /\ Cardinality(ahead[k]) <= Len(items) - 1
    BY <2>1, <2>2, FS_Subset
  <2>4. Cardinality(ahead[k]) \in Nat
    BY <2>3, FS_CardinalityType
  <2> QED
    BY <1>1, <1>3, <2>3, <2>4
<1>10. \A j, k \in D : Before(items, j, k) => rank[j] # rank[k]
  <2> SUFFICES ASSUME NEW j \in D, NEW k \in D, Before(items, j, k)
               PROVE  rank[j] # rank[k]
    OBVIOUS
  <2>1. ahead[j] \in SUBSET ahead[k] /\ ahead[j] # ahead[k]
    BY <1>8
  <2>2. ahead[k] \in SUBSET D
    OBVIOUS
  <2> HIDE DEF ahead, rank
  <2>3. IsFiniteSet(ahead[k])
    BY <1>2, <2>2, FS_Subset
  <2>4. Cardinality(ahead[j]) # Cardinality(ahead[k])
    BY <2>1, <2>3, FS_Subset
  <2>5. Cardinality(ahead[j]) \in Nat /\ Cardinality(ahead[k]) \in Nat
    BY <2>1, <2>3, FS_Subset, FS_CardinalityType
  <2> QED
    BY <1>3, <2>4, <2>5
<1> HIDE DEF ahead
<1>11. \A j, k \in D : rank[j] = rank[k] => j = k
  <2> HIDE DEF rank, D
  <2> QED
    BY <1>4, <1>10
<1>12. rank \in Surjection(D, D)
  <2>1. rank \in Injection(D, D)
    BY <1>9, <1>11 DEF Injection, IsInjective
  <2> HIDE DEF rank, D
  <2> QED
    BY <1>2, <2>1, FS_Injection
<1>13. \E k \in D : rank[k] = r
  <2> HIDE DEF rank
  <2> QED
    BY <1>12 DEF Surjection
<1> QED
  BY <1>11, <1>13

LEMMA RankedIsOneItem ==
  ASSUME NEW items, Sortable(items), NEW r \in DOMAIN items
  PROVE  \E k \in DOMAIN items : RankOf(items, k) = r /\ Ranked(items)[r] = items[k]
BY RankIsOneItem DEF Ranked

LEMMA RankedIsSeq ==
  ASSUME NEW S, NEW items \in Seq(S), \A c \in S : c.m \in Int
  PROVE  Ranked(items) \in Seq(S) /\ DOMAIN Ranked(items) = DOMAIN items
<1>1. Sortable(items)
  BY ListingOfSeq DEF Sortable
<1>2. \A r \in DOMAIN items : Ranked(items)[r] \in S
  BY <1>1, RankedIsOneItem
<1>3. DOMAIN items = 1 .. Len(items) /\ Len(items) \in Nat
  OBVIOUS
<1>4. Ranked(items) = [r \in 1 .. Len(items) |-> Ranked(items)[r]]
  BY <1>3 DEF Ranked
<1>5. DOMAIN Ranked(items) = DOMAIN items
  BY DEF Ranked
<1> QED
  BY <1>2, <1>3, <1>4, <1>5

\* How alike an option and a candidate are, and the pairings that may support an option.
Alike(labels, cands, o, k) == Similarity(labels[o], At(cands[k]).name)

LEMMA AlikeIsInt ==
  ASSUME NEW labels, NEW cands, NEW o, NEW k
  PROVE  Alike(labels, cands, o, k) \in Int
BY DEF Alike, Similarity

\* Of the pairings still open, one is the strongest.
LEMMA StrongerOrders ==
  ASSUME NEW labels, NEW cands
  PROVE  /\ \A a, b \in Nat \X Nat : Stronger(labels, cands, a, b) \/ Stronger(labels, cands, b, a)
         /\ \A a, b \in Nat \X Nat : Stronger(labels, cands, a, b) /\ Stronger(labels, cands, b, a) => a = b
         /\ \A a, b, c \in Nat \X Nat : Stronger(labels, cands, a, b) /\ Stronger(labels, cands, b, c)
                                          => Stronger(labels, cands, a, c)
<1> DEFINE S(o, k) == Alike(labels, cands, o, k)
           Over(o, k, u, l) == S(o, k) > S(u, l) \/ (S(o, k) = S(u, l) /\ (k < l \/ (k = l /\ o <= u)))
<1>1. \A o, k : S(o, k) \in Int
  BY AlikeIsInt
<1>2. \A a, b : Stronger(labels, cands, a, b) <=> Over(a[1], a[2], b[1], b[2])
  BY DEF Stronger, Alike
<1> HIDE DEF S
<1> HIDE DEF Over
<1>5. \A a \in Nat \X Nat : a[1] \in Nat /\ a[2] \in Nat /\ a = <<a[1], a[2]>>
  OBVIOUS
<1>6. ASSUME NEW a \in Nat \X Nat, NEW b \in Nat \X Nat
      PROVE  /\ Stronger(labels, cands, a, b) \/ Stronger(labels, cands, b, a)
             /\ Stronger(labels, cands, a, b) /\ Stronger(labels, cands, b, a) => a = b
  <2>0. a[1] \in Nat /\ a[2] \in Nat /\ b[1] \in Nat /\ b[2] \in Nat
    BY <1>5
  <2>1. /\ Over(a[1], a[2], b[1], b[2]) \/ Over(b[1], b[2], a[1], a[2])
        /\ Over(a[1], a[2], b[1], b[2]) /\ Over(b[1], b[2], a[1], a[2]) => a[1] = b[1] /\ a[2] = b[2]
    BY <1>1, <2>0 DEF Over
  <2> QED
    BY <2>1, <1>2, <1>5
<1>7. ASSUME NEW a \in Nat \X Nat, NEW b \in Nat \X Nat, NEW c \in Nat \X Nat,
             Stronger(labels, cands, a, b), Stronger(labels, cands, b, c)
      PROVE  Stronger(labels, cands, a, c)
  <2>1. Over(a[1], a[2], b[1], b[2]) /\ Over(b[1], b[2], c[1], c[2])
    BY <1>2, <1>7
  <2>0. a[1] \in Nat /\ a[2] \in Nat /\ b[1] \in Nat /\ b[2] \in Nat /\ c[1] \in Nat /\ c[2] \in Nat
    BY <1>5
  <2>2. Over(a[1], a[2], c[1], c[2])
    BY <2>0, <2>1, <1>1 DEF Over
  <2> QED
    BY <2>2, <1>2
<1> QED
  BY <1>6, <1>7

LEMMA StrongestIsOpen ==
  ASSUME NEW labels, Listing(labels), NEW cands, Listing(cands), NEW assigned,
         Pairings(labels, cands, assigned) # {}
  PROVE  \E x \in Pairings(labels, cands, assigned) :
           \A y \in Pairings(labels, cands, assigned) : Stronger(labels, cands, x, y)
<1> DEFINE open == Pairings(labels, cands, assigned)
           all == (DOMAIN labels) \X (DOMAIN cands)
           Over(a, b) == a # b /\ Stronger(labels, cands, a, b)
<1>1. /\ DOMAIN labels = 1 .. Len(labels) /\ Len(labels) \in Nat
      /\ DOMAIN cands = 1 .. Len(cands) /\ Len(cands) \in Nat
  BY DEF Listing
<1>2. open \in SUBSET all
  BY DEF Pairings
<1>3. IsFiniteSet(open)
  <2>1. IsFiniteSet(DOMAIN labels) /\ IsFiniteSet(DOMAIN cands)
    BY <1>1, NumbersCount
  <2>2. IsFiniteSet(all)
    BY <2>1, FS_Product
  <2> HIDE DEF open, all
  <2> QED
    BY <1>2, <2>2, FS_Subset
<1>4. all \in SUBSET (Nat \X Nat)
  <2>1. DOMAIN labels \in SUBSET Nat /\ DOMAIN cands \in SUBSET Nat
    BY <1>1
  <2> QED
    BY <2>1
<1>6. \A a, b \in all : a # b => Over(a, b) \/ Over(b, a)
  <2> HIDE DEF all
  <2> QED
    BY <1>4, StrongerOrders
<1>7. \A a, b, c \in all : Over(a, b) /\ Over(b, c) => Over(a, c)
  <2> HIDE DEF all
  <2> QED
    BY <1>4, StrongerOrders
<1>8. \A a \in all : Stronger(labels, cands, a, a)
  <2> HIDE DEF all
  <2> QED
    BY <1>4, StrongerOrders
<1> HIDE DEF open, all
<1>9. PICK n \in Nat : ExistsBijection(1 .. n, open)
  BY <1>3, FS_NatBijection
<1>10. PICK f : f \in Bijection(1 .. n, open)
  BY <1>9 DEF ExistsBijection
<1>11. /\ f \in [1 .. n -> open]
       /\ \A i, j \in 1 .. n : f[i] = f[j] => i = j
       /\ \A y \in open : \E j \in 1 .. n : f[j] = y
  BY <1>10 DEF Bijection, Injection, IsInjective, Surjection
<1> DEFINE R == {x \in (1 .. n) \X (1 .. n) : Over(f[x[1]], f[x[2]])}
<1>12. n # 0
  <2>1. open # {}
    BY DEF open
  <2> QED
    BY <1>11, <2>1
<1>13. \A i, j \in 1 .. n : <<i, j>> \in R <=> Over(f[i], f[j])
  OBVIOUS
<1> HIDE DEF R, Over
<1>14. \A i, j \in 1 .. n : i # j => <<i, j>> \in R \/ <<j, i>> \in R
  BY <1>2, <1>6, <1>11, <1>13
<1>15. \A i, j, k \in 1 .. n : <<i, j>> \in R /\ <<j, k>> \in R => <<i, k>> \in R
  BY <1>2, <1>7, <1>11, <1>13
<1>16. PICK k \in 1 .. n : \A j \in (1 .. n) \ {k} : <<k, j>> \in R
  BY Zenon, <1>12, <1>14, <1>15, FirstOfAll
<1>17. ASSUME NEW y \in open PROVE Stronger(labels, cands, f[k], y)
  <2>1. PICK j \in 1 .. n : f[j] = y
    BY <1>11
  <2>2. CASE j = k
    BY <2>1, <2>2, <1>2, <1>8
  <2>3. CASE j # k
    <3>1. Over(f[k], f[j])
      BY Zenon, <2>3, <1>13, <1>16
    <3> QED
      BY <2>1, <3>1 DEF Over
  <2> QED
    BY <2>2, <2>3
<1>18. f[k] \in open
  BY <1>11
<1> QED
  BY <1>17, <1>18 DEF open

-----------------------------------------------------------------------------
\* What options may have claimed: a candidate each.
Claims(labels, cands) == UNION {[L -> DOMAIN cands] : L \in SUBSET DOMAIN labels}

LEMMA ClaimsAre ==
  ASSUME NEW labels, NEW cands, NEW m
  PROVE  m \in Claims(labels, cands) <=> /\ DOMAIN m \in SUBSET DOMAIN labels
                                         /\ m \in [DOMAIN m -> DOMAIN cands]
<1>1. ASSUME m \in Claims(labels, cands)
      PROVE  DOMAIN m \in SUBSET DOMAIN labels /\ m \in [DOMAIN m -> DOMAIN cands]
  <2>1. PICK L \in SUBSET DOMAIN labels : m \in [L -> DOMAIN cands]
    BY <1>1 DEF Claims
  <2> QED
    BY <2>1
<1>2. ASSUME DOMAIN m \in SUBSET DOMAIN labels, m \in [DOMAIN m -> DOMAIN cands]
      PROVE  m \in Claims(labels, cands)
  BY <1>2 DEF Claims
<1> QED
  BY <1>1, <1>2

\* The pairing a turn of the assignment claims.
Top(labels, cands, prev) ==
  CHOOSE x \in Pairings(labels, cands, prev) :
    \A y \in Pairings(labels, cands, prev) : Stronger(labels, cands, x, y)

LEMMA TopIsOpen ==
  ASSUME NEW labels, Listing(labels), NEW cands, Listing(cands), NEW prev,
         Pairings(labels, cands, prev) # {}
  PROVE  /\ Top(labels, cands, prev) \in Pairings(labels, cands, prev)
         /\ \A y \in Pairings(labels, cands, prev) : Stronger(labels, cands, Top(labels, cands, prev), y)
BY StrongestIsOpen DEF Top

LEMMA ClaimIsOne ==
  ASSUME NEW labels, Listing(labels), NEW cands, Listing(cands), NEW prev \in Claims(labels, cands),
         Pairings(labels, cands, prev) # {}, NEW top, top = Top(labels, cands, prev)
  PROVE  /\ Claim(labels, cands, prev) \in Claims(labels, cands)
         /\ top[1] \in DOMAIN labels \ DOMAIN prev /\ top[2] \in DOMAIN cands
         /\ DOMAIN Claim(labels, cands, prev) = DOMAIN prev \cup {top[1]}
         /\ Claim(labels, cands, prev)[top[1]] = top[2]
         /\ \A o \in DOMAIN prev : Claim(labels, cands, prev)[o] = prev[o]
<1>1. /\ top[1] \in DOMAIN labels \ DOMAIN prev /\ top[2] \in DOMAIN cands
  BY TopIsOpen DEF Pairings
<1>2. Claim(labels, cands, prev) = [o \in DOMAIN prev \cup {top[1]} |-> IF o = top[1] THEN top[2] ELSE prev[o]]
  BY DEF Claim, Top
<1>3. DOMAIN prev \in SUBSET DOMAIN labels /\ prev \in [DOMAIN prev -> DOMAIN cands]
  BY ClaimsAre
<1>4. Claim(labels, cands, prev) \in [DOMAIN prev \cup {top[1]} -> DOMAIN cands]
  BY <1>1, <1>2, <1>3
<1> QED
  BY <1>1, <1>2, <1>3, <1>4, ClaimsAre

\* An open pairing adds one option to the claims.
LEMMA ClaimGrows ==
  ASSUME NEW labels, Listing(labels), NEW cands, Listing(cands), NEW prev \in Claims(labels, cands),
         Pairings(labels, cands, prev) # {}
  PROVE  Cardinality(DOMAIN Claim(labels, cands, prev)) = Cardinality(DOMAIN prev) + 1
<1>1. PICK top : top = Top(labels, cands, prev)
  OBVIOUS
<1>2. top[1] \notin DOMAIN prev /\ DOMAIN Claim(labels, cands, prev) = DOMAIN prev \cup {top[1]}
  BY <1>1, ClaimIsOne
<1>3. DOMAIN prev \in SUBSET (1 .. Len(labels)) /\ Len(labels) \in Nat
  BY ClaimsAre DEF Listing
<1>4. IsFiniteSet(DOMAIN prev)
  BY Zenon, <1>3, PositionsAreFinite
<1> QED
  BY <1>2, <1>4, FS_AddElement

\* What holds of the claims after each turn: each good pairing is open, or passed over for one at
\* least as strong of its option or of its place.
Passed(labels, cands, m, o, k) ==
  \/ o \in DOMAIN m /\ Alike(labels, cands, o, m[o]) >= Alike(labels, cands, o, k)
  \/ \E u \in DOMAIN m : m[u] = k /\ Alike(labels, cands, u, k) >= Alike(labels, cands, o, k)
Settled(labels, cands, m) ==
  /\ \A o, u \in DOMAIN m : o # u => m[o] # m[u]
  /\ \A o \in DOMAIN labels, k \in DOMAIN cands :
       Alike(labels, cands, o, k) >= Floor => <<o, k>> \in Pairings(labels, cands, m) \/ Passed(labels, cands, m, o, k)

LEMMA PairingsAre ==
  ASSUME NEW labels, NEW cands, NEW m, NEW o \in DOMAIN labels, NEW k \in DOMAIN cands
  PROVE  <<o, k>> \in Pairings(labels, cands, m) <=>
           /\ o \notin DOMAIN m /\ Alike(labels, cands, o, k) >= Floor
           /\ \A u \in DOMAIN m : m[u] # k
BY DEF Pairings, Alike

\* A turn settles no pairing but those of the option and of the place it claims, and is stronger
\* than any of them.
LEMMA ClaimSettles ==
  ASSUME NEW labels, Listing(labels), NEW cands, Listing(cands), NEW m \in Claims(labels, cands),
         Settled(labels, cands, m)
  PROVE  Settled(labels, cands, Claim(labels, cands, m))
<1>1. CASE Pairings(labels, cands, m) = {}
  <2>1. Claim(labels, cands, m) = m
    BY <1>1 DEF Claim
  <2> QED
    BY <2>1
<1>2. CASE Pairings(labels, cands, m) # {}
  <2> DEFINE top == Top(labels, cands, m)
             next == Claim(labels, cands, m)
             Sim(o, k) == Alike(labels, cands, o, k)
  <2>1. /\ top[1] \in DOMAIN labels \ DOMAIN m /\ top[2] \in DOMAIN cands
        /\ DOMAIN next = DOMAIN m \cup {top[1]}
        /\ next[top[1]] = top[2]
        /\ \A o \in DOMAIN m : next[o] = m[o]
    BY <1>2, ClaimIsOne
  <2>2. /\ \A o \in DOMAIN m : m[o] # top[2]
        /\ \A y \in Pairings(labels, cands, m) : Sim(top[1], top[2]) >= Sim(y[1], y[2])
    <3>1. top \in Pairings(labels, cands, m)
      BY <1>2, TopIsOpen
    <3>2. \A o \in DOMAIN m : m[o] # top[2]
      BY <3>1 DEF Pairings
    <3>3. ASSUME NEW y \in Pairings(labels, cands, m)
          PROVE  Sim(top[1], top[2]) >= Sim(y[1], y[2])
      <4>1. Stronger(labels, cands, top, y)
        BY <1>2, TopIsOpen
      <4>2. Sim(top[1], top[2]) > Sim(y[1], y[2]) \/ Sim(top[1], top[2]) = Sim(y[1], y[2])
        BY <4>1 DEF Stronger, Alike
      <4> HIDE DEF top
      <4> QED
        BY <4>2, AlikeIsInt
    <3> QED
      BY <3>2, <3>3
  <2> HIDE DEF top, next, Sim
  <2>3. \A o, u \in DOMAIN next : o # u => next[o] # next[u]
    BY <2>1, <2>2 DEF Settled
  <2>4. ASSUME NEW o \in DOMAIN labels, NEW k \in DOMAIN cands, Sim(o, k) >= Floor
        PROVE  <<o, k>> \in Pairings(labels, cands, next) \/ Passed(labels, cands, next, o, k)
    <3>1. CASE Passed(labels, cands, m, o, k)
      BY <3>1, <2>1 DEF Passed
    <3>2. CASE <<o, k>> \in Pairings(labels, cands, m)
      <4>1. Sim(top[1], top[2]) >= Sim(o, k)
        BY <3>2, <2>2
      <4>2. CASE top[1] = o
        BY <4>1, <4>2, <2>1 DEF Passed, Sim
      <4>3. CASE top[2] = k
        BY <4>1, <4>3, <2>1 DEF Passed, Sim
      <4>4. CASE top[1] # o /\ top[2] # k
        <5>1. o \notin DOMAIN m /\ \A u \in DOMAIN m : m[u] # k
          BY <3>2, PairingsAre
        <5>2. o \notin DOMAIN next /\ \A u \in DOMAIN next : next[u] # k
          BY <5>1, <4>4, <2>1
        <5> QED
          BY <5>2, <2>4, PairingsAre DEF Sim
      <4> QED
        BY <4>2, <4>3, <4>4
    <3> QED
      BY <3>1, <3>2, <2>4 DEF Settled, Sim
  <2> QED
    BY <2>3, <2>4 DEF Settled, next, Sim
<1> QED
  BY <1>1, <1>2

\* After as many turns as there are options, no pairing is open.
LEMMA AssignmentSettles ==
  ASSUME NEW labels, Listing(labels), NEW cands, Listing(cands)
  PROVE  LET m == Assignment(labels, cands)
         IN /\ m \in Claims(labels, cands)
            /\ Settled(labels, cands, m)
            /\ Pairings(labels, cands, m) = {}
<1> DEFINE N == Len(labels)
           D == Claims(labels, cands)
           turn == [n \in 1 .. N |-> [m \in D |-> Claim(labels, cands, m)]]
           Loop(f) == f = [n \in 0 .. N |-> IF n = 0 THEN <<>> ELSE Claim(labels, cands, f[n - 1])]
<1>1. N \in Nat /\ DOMAIN labels = 1 .. N
  BY DEF Listing
<1>2. \A m \in D : Claim(labels, cands, m) \in D
  <2> SUFFICES ASSUME NEW m \in D
               PROVE  Claim(labels, cands, m) \in D
    OBVIOUS
  <2>1. CASE Pairings(labels, cands, m) = {}
    BY <2>1 DEF Claim
  <2>2. CASE Pairings(labels, cands, m) # {}
    BY Zenon, <2>2, ClaimIsOne
  <2> QED
    BY <2>1, <2>2
<1>3. <<>> \in D
  <2>1. DOMAIN <<>> = {} /\ <<>> \in [{} -> DOMAIN cands]
    OBVIOUS
  <2> QED
    BY Zenon, <2>1 DEF Claims
<1>4. PICK run : Run(N, D, <<>>, turn, run)
  <2>1. Turns(N, D, turn)
    BY <1>2 DEF Turns
  <2> HIDE DEF N, D, turn
  <2> QED
    BY <1>1, <1>3, <2>1, LoopRuns
<1>5. /\ run \in [0 .. N -> D] /\ run[0] = <<>>
      /\ \A n \in 1 .. N : run[n] = Claim(labels, cands, run[n - 1])
  <2> HIDE DEF D
  <2>1. \A n \in 1 .. N : n - 1 \in 0 .. N
    BY <1>1
  <2> QED
    BY Zenon, <1>4, <2>1 DEF Run
<1>6. Loop(run)
  <2> HIDE DEF D
  <2> QED
    BY <1>1, <1>5
<1>7. PICK f : f = CHOOSE g : Loop(g)
  OBVIOUS
<1>8. Loop(f)
  BY Zenon, <1>6, <1>7
<1>9. Assignment(labels, cands) = f[N]
  BY <1>7 DEF Assignment
<1> HIDE DEF D
<1>10. f[0] = <<>> /\ \A n \in 0 .. N - 1 : f[n + 1] = Claim(labels, cands, f[n])
  BY <1>1, <1>8
<1> DEFINE Full(n, m) == /\ m \in D /\ Settled(labels, cands, m)
                         /\ Pairings(labels, cands, m) = {} \/ Cardinality(DOMAIN m) = n
           T == {n \in 0 .. N : Full(n, f[n])}
<1>11. 0 \in T
  <2>1. DOMAIN <<>> = {} /\ Cardinality({}) = 0
    BY FS_EmptySet
  <2>2. Settled(labels, cands, <<>>)
    BY <2>1, PairingsAre DEF Settled
  <2> QED
    BY <1>1, <1>3, <1>10, <2>1, <2>2
<1>12. ASSUME NEW n \in 0 .. N - 1, n \in T
       PROVE  n + 1 \in T
  <2> DEFINE m == f[n]
             next == f[n + 1]
  <2>1. Full(n, m) /\ next = Claim(labels, cands, m) /\ n + 1 \in 0 .. N
    BY <1>1, <1>10, <1>12
  <2> HIDE DEF m, next
  <2>2. next \in D
    BY <2>1, <1>2
  <2>3. Settled(labels, cands, next)
    BY <2>1, ClaimSettles DEF D
  <2>4. CASE Pairings(labels, cands, m) = {}
    <3>1. next = m
      BY <2>1, <2>4 DEF Claim
    <3> QED
      BY <3>1, <2>1, <2>4 DEF next
  <2>5. CASE Pairings(labels, cands, m) # {}
    <3>1. m \in Claims(labels, cands)
      BY <2>1 DEF D
    <3>2. Cardinality(DOMAIN Claim(labels, cands, m)) = Cardinality(DOMAIN m) + 1
      BY <3>1, <2>5, ClaimGrows
    <3>3. Cardinality(DOMAIN next) = n + 1
      BY <3>2, <2>1, <2>5
    <3> QED
      BY <2>1, <2>2, <2>3, <3>3 DEF next
  <2> QED
    BY <2>4, <2>5
<1>13. Full(N, f[N])
  <2>1. T \in SUBSET Nat
    BY <1>1
  <2> HIDE DEF T, Full, N
  <2>2. 0 .. N \subseteq T
    BY Zenon, <1>1, <1>11, <1>12, <2>1, UpTo
  <2>3. N \in T
    BY <1>1, <2>2
  <2> QED
    BY <2>3 DEF T
<1>14. Pairings(labels, cands, f[N]) = {}
  <2> SUFFICES ASSUME Cardinality(DOMAIN f[N]) = N
               PROVE  Pairings(labels, cands, f[N]) = {}
    BY <1>13
  <2>1. DOMAIN f[N] \in SUBSET (1 .. N)
    BY <1>1, <1>13, ClaimsAre DEF D
  <2> HIDE DEF N
  <2>2. IsFiniteSet(1 .. N) /\ Cardinality(1 .. N) = N
    BY <1>1, NumbersCount
  <2>3. DOMAIN f[N] = 1 .. N
    BY Zenon, <2>1, <2>2, FS_Subset
  <2> QED
    BY <1>1, <2>3 DEF Pairings
<1> QED
  BY <1>9, <1>13, <1>14 DEF D

-----------------------------------------------------------------------------
\* The lists of candidates: every filter and sorting keeps them what they are.

\* Lists of places, some without coordinates; candidates; and those that were located.
Lists == Seq(Optional(Places))
Candidate == [index : Nat, place : Optional(Places), m : Int]
LocatedCandidate == {c \in Candidate : c.place # <<>>}

LEMMA AtIsPlace ==
  ASSUME NEW c \in LocatedCandidate
  PROVE  At(c) \in Places
<1>1. c.place \in Optional(Places) /\ c.place # <<>>
  BY DEF LocatedCandidate, Candidate
<1>2. PICK p \in Places : c.place = <<p>>
  BY <1>1 DEF Optional
<1> QED
  BY <1>2 DEF At

LEMMA IndexedIsSeq ==
  ASSUME NEW stops \in Lists
  PROVE  Indexed(stops) \in Seq(Candidate) /\ DOMAIN Indexed(stops) = DOMAIN stops
<1>1. DOMAIN stops = 1 .. Len(stops) /\ Len(stops) \in Nat /\ \A k \in DOMAIN stops : stops[k] \in Optional(Places)
  BY DEF Lists
<1>2. \A k \in DOMAIN stops : [index |-> k, place |-> stops[k], m |-> 0] \in Candidate
  BY <1>1 DEF Candidate
<1>3. Indexed(stops) \in [1 .. Len(stops) -> Candidate]
  BY <1>1, <1>2 DEF Indexed
<1> QED
  BY <1>1, <1>3

\* A stops's located candidates are its places that have coordinates, each at its own position.
LEMMA LocatedAre ==
  ASSUME NEW stops \in Lists
  PROVE  /\ Located(stops) \in Seq(LocatedCandidate)
         /\ \A i \in DOMAIN Located(stops) :
              /\ Located(stops)[i].index \in DOMAIN stops
              /\ Located(stops)[i].place = stops[Located(stops)[i].index]
<1> DEFINE all == Indexed(stops)
           there == {k \in DOMAIN all : all[k].place # <<>>}
<1>1. Located(stops) = ItemsAt(all, there)
  BY DEF Located, Kept
<1>2. all \in Seq(Candidate) /\ Listing(all)
  BY IndexedIsSeq, ListingOfSeq
<1>3. \A i \in DOMAIN Located(stops) : \E k \in DOMAIN all \cap there : Located(stops)[i] = all[k]
  <2> HIDE DEF all, there
  <2> QED
    BY <1>1, <1>2, ItemsAtAreItems
<1>4. \A k \in DOMAIN all : k \in DOMAIN stops /\ all[k].index = k /\ all[k].place = stops[k] /\ all[k] \in Candidate
  BY <1>2, IndexedIsSeq DEF Indexed
<1>5. ASSUME NEW i \in DOMAIN Located(stops)
      PROVE  /\ Located(stops)[i].index \in DOMAIN stops
             /\ Located(stops)[i].place = stops[Located(stops)[i].index]
             /\ Located(stops)[i] \in LocatedCandidate
  <2>1. PICK k \in DOMAIN all \cap there : Located(stops)[i] = all[k]
    BY <1>3
  <2> QED
    BY <2>1, <1>4 DEF LocatedCandidate
<1>6. Located(stops) \in Seq(Candidate)
  <2> HIDE DEF all, there
  <2> QED
    BY <1>1, <1>2, ItemsAtIsSeq
<1>7. Located(stops) \in Seq(LocatedCandidate)
  BY <1>5, <1>6
<1> QED
  BY <1>5, <1>7

\* Choosing among candidates invents none.
Choice(cands, from) == \A i \in DOMAIN cands : \E k \in DOMAIN from : cands[i] = from[k]

LEMMA ChoiceOfChoice ==
  ASSUME NEW all, NEW some, Choice(some, all), NEW few, Choice(few, some)
  PROVE  Choice(few, all)
BY DEF Choice

LEMMA KeptAre ==
  ASSUME NEW S, NEW cands \in Seq(S), NEW positions
  PROVE  ItemsAt(cands, positions) \in Seq(S) /\ Choice(ItemsAt(cands, positions), cands)
<1>1. Listing(cands)
  BY ListingOfSeq
<1> QED
  BY <1>1, ItemsAtIsSeq, ItemsAtAreItems DEF Choice

LEMMA ExcludingSelfAre ==
  ASSUME NEW anchor, NEW S, NEW cands \in Seq(S)
  PROVE  ExcludingSelf(anchor, cands) \in Seq(S) /\ Choice(ExcludingSelf(anchor, cands), cands)
<1> DEFINE others == {k \in DOMAIN cands : ~IsSelf(anchor, At(cands[k]))}
<1>1. ExcludingSelf(anchor, cands) \in {cands, ItemsAt(cands, others)}
  BY DEF ExcludingSelf, Kept
<1>2. Choice(cands, cands)
  BY DEF Choice
<1> HIDE DEF others
<1> QED
  BY <1>1, <1>2, KeptAre

LEMMA OfKindAre ==
  ASSUME NEW kind, NEW S, NEW cands \in Seq(S)
  PROVE  OfKind(cands, kind) \in Seq(S) /\ Choice(OfKind(cands, kind), cands)
<1> DEFINE typed == {k \in DOMAIN cands : At(cands[k]).kind = kind}
<1>1. OfKind(cands, kind) \in {cands, ItemsAt(cands, typed)}
  BY DEF OfKind, Kept
<1>2. Choice(cands, cands)
  BY DEF Choice
<1> HIDE DEF typed
<1> QED
  BY <1>1, <1>2, KeptAre

LEMMA MeasuredFromIsSeq ==
  ASSUME NEW anchor \in Places, NEW cands \in Seq(LocatedCandidate)
  PROVE  MeasuredFrom(anchor, cands) \in Seq(LocatedCandidate) /\ DOMAIN MeasuredFrom(anchor, cands) = DOMAIN cands
<1>1. DOMAIN cands = 1 .. Len(cands) /\ Len(cands) \in Nat
  OBVIOUS
<1>2. ASSUME NEW k \in DOMAIN cands
      PROVE  [cands[k] EXCEPT !.m = Dist(anchor, At(cands[k]))] \in LocatedCandidate
  <2>1. cands[k] \in LocatedCandidate
    OBVIOUS
  <2>2. Dist(anchor, At(cands[k])) \in Int
    BY <2>1, AtIsPlace, DistIsInt
  <2> QED
    BY Zenon, <2>1, <2>2 DEF LocatedCandidate, Candidate
<1>3. MeasuredFrom(anchor, cands) \in [1 .. Len(cands) -> LocatedCandidate]
  BY <1>1, <1>2 DEF MeasuredFrom
<1> QED
  BY <1>1, <1>3

LEMMA SortedIsSeq ==
  ASSUME NEW cands \in Seq(LocatedCandidate)
  PROVE  Ranked(cands) \in Seq(LocatedCandidate) /\ DOMAIN Ranked(cands) = DOMAIN cands
<1>1. \A c \in LocatedCandidate : c.m \in Int
  BY DEF LocatedCandidate, Candidate
<1> QED
  BY <1>1, RankedIsSeq

\* What is left of a stops of places, however it is narrowed, is a stops of places.
LEMMA AsListIsList ==
  ASSUME NEW cands \in Seq(Candidate)
  PROVE  AsList(cands) \in Lists
<1>1. DOMAIN cands = 1 .. Len(cands) /\ Len(cands) \in Nat
  OBVIOUS
<1>2. \A k \in DOMAIN cands : cands[k].place \in Optional(Places)
  <2>1. \A k \in DOMAIN cands : cands[k] \in Candidate
    OBVIOUS
  <2>2. \A c \in Candidate : c.place \in Optional(Places)
    BY DEF Candidate
  <2> QED
    BY <2>1, <2>2
<1>3. AsList(cands) \in [1 .. Len(cands) -> Optional(Places)]
  BY <1>1, <1>2 DEF AsList
<1> QED
  BY <1>3, <1>1 DEF Lists

LEMMA LocatedAreCandidates == ASSUME NEW s \in Seq(LocatedCandidate) PROVE s \in Seq(Candidate)
BY DEF LocatedCandidate

LEMMA DirectedIsSeq ==
  ASSUME NEW anchor \in Places, NEW stops \in Lists,
         NEW direction, FilterByDirection(anchor, stops, direction) # <<>>
  PROVE  FilterByDirection(anchor, stops, direction)[1] \in Seq(Candidate)
<1> DEFINE others == ExcludingSelf(anchor, Located(stops))
           that == {k \in DOMAIN others : LiesIn(anchor, At(others[k]), direction)}
<1>1. FilterByDirection(anchor, stops, direction)[1] = Ranked(MeasuredFrom(anchor, ItemsAt(others, that)))
  BY DEF FilterByDirection, Refused, Kept
<1>2. others \in Seq(LocatedCandidate)
  BY LocatedAre, ExcludingSelfAre
<1> HIDE DEF others, that
<1>3. Ranked(MeasuredFrom(anchor, ItemsAt(others, that))) \in Seq(LocatedCandidate)
  BY <1>2, KeptAre, MeasuredFromIsSeq, SortedIsSeq
<1> QED
  BY <1>1, <1>3, LocatedAreCandidates

LEMMA WithinRadiusIsSeq ==
  ASSUME NEW anchor \in Places, NEW stops \in Lists, NEW radius, WithinRadius(anchor, stops, radius) # <<>>
  PROVE  WithinRadius(anchor, stops, radius)[1] \in Seq(Candidate)
<1> DEFINE others == MeasuredFrom(anchor, ExcludingSelf(anchor, Located(stops)))
           near == {k \in DOMAIN others : others[k].m <= radius}
<1>1. WithinRadius(anchor, stops, radius)[1] = Ranked(ItemsAt(others, near))
  BY DEF WithinRadius, Refused, Kept
<1>2. others \in Seq(LocatedCandidate)
  BY LocatedAre, ExcludingSelfAre, MeasuredFromIsSeq
<1> HIDE DEF others, near
<1>3. Ranked(ItemsAt(others, near)) \in Seq(LocatedCandidate)
  BY <1>2, KeptAre, SortedIsSeq
<1> QED
  BY <1>1, <1>3, LocatedAreCandidates

LEMMA FilterPlacesIsSeq ==
  ASSUME NEW stops \in Lists, NEW kind, NEW stated
  PROVE  FilterPlaces(stops, kind, stated) \in Seq(Candidate)
<1> DEFINE typed == {k \in DOMAIN Located(stops) : At(Located(stops)[k]).kind = kind}
<1>1. FilterPlaces(stops, kind, stated) \in {<<>>, Indexed(stops), ItemsAt(Located(stops), typed)}
  BY DEF FilterPlaces, Kept
<1>2. Indexed(stops) \in Seq(Candidate) /\ <<>> \in Seq(Candidate)
  BY IndexedIsSeq
<1>3. ItemsAt(Located(stops), typed) \in Seq(Candidate)
  <2> HIDE DEF typed
  <2> QED
    BY LocatedAre, KeptAre, LocatedAreCandidates
<1> QED
  BY Zenon, <1>1, <1>2, <1>3

\* match_options supports an option by at most one place, and the strongest pairings first.
LEMMA CandidatesOfMatch ==
  ASSUME NEW stops \in Lists, NEW anchor
  PROVE  Listing(IF anchor = <<>> THEN Located(stops) ELSE Ranked(MeasuredFrom(anchor[1], Located(stops))))
<1>1. Located(stops) \in Seq(LocatedCandidate)
  BY LocatedAre
<1>2. Listing(Located(stops))
  BY <1>1, ListingOfSeq
<1> DEFINE order == Ranked(MeasuredFrom(anchor[1], Located(stops)))
           n == Len(Located(stops))
<1>3. n \in Nat /\ DOMAIN Located(stops) = 1 .. n
  BY <1>1
<1>4. order = [i \in 1 .. n |-> order[i]]
  BY <1>3 DEF Ranked, MeasuredFrom
<1>5. Listing(order)
  <2> HIDE DEF order, n
  <2> QED
    BY <1>3, <1>4, ListingOfDomain
<1> QED
  BY <1>2, <1>5

LEMMA MatchIsStable ==
  ASSUME NEW options, Listing(options), NEW stops \in Lists, NEW anchor,
         NEW r, r = MatchOptions(options, stops, anchor)
  PROVE  /\ \A o, u \in DOMAIN r.matched : o # u => r.matched[o] # r.matched[u]
         /\ \A o \in DOMAIN options, k \in DOMAIN r.ranked :
              Alike(options, r.ranked, o, k) >= Floor => Passed(options, r.ranked, r.matched, o, k)
         /\ \A o \in DOMAIN r.matched : r.best # <<>> /\ r.matched[r.best[1]] <= r.matched[o]
<1> DEFINE cands == IF anchor = <<>> THEN Located(stops) ELSE Ranked(MeasuredFrom(anchor[1], Located(stops)))
           matched == Assignment(options, cands)
           best == {o \in DOMAIN matched : \A other \in DOMAIN matched : matched[o] <= matched[other]}
<1>1. r.ranked = cands /\ r.matched = matched /\ r.best = Chosen(best)
  BY DEF MatchOptions
<1>2. Listing(cands)
  BY CandidatesOfMatch
<1>3. DOMAIN cands \in SUBSET Nat
  <2> HIDE DEF cands
  <2> QED
    BY <1>2 DEF Listing
<1> HIDE DEF cands
<1>4. /\ matched \in Claims(options, cands)
      /\ Settled(options, cands, matched)
      /\ Pairings(options, cands, matched) = {}
  BY <1>2, AssignmentSettles
<1> HIDE DEF matched
<1>5. ASSUME NEW o \in DOMAIN matched
      PROVE  r.best # <<>> /\ matched[r.best[1]] <= matched[o]
  <2> DEFINE places == {matched[u] : u \in DOMAIN matched}
  <2>1. places \in SUBSET Nat /\ places # {}
    BY <1>3, <1>4, <1>5, ClaimsAre
  <2>2. PICK k \in places : \A l \in places : k <= l
    <3> HIDE DEF places
    <3> QED
      BY <2>1, LeastNumber
  <2>3. PICK u \in DOMAIN matched : k = matched[u]
    OBVIOUS
  <2>4. u \in best
    BY <2>2, <2>3
  <2>5. r.best # <<>> /\ r.best[1] \in best
    <3> HIDE DEF best
    <3> QED
      BY <1>1, <2>4 DEF Chosen
  <2> QED
    BY <2>5
<1>6. \A o \in DOMAIN options, k \in DOMAIN cands :
         Alike(options, cands, o, k) >= Floor => Passed(options, cands, matched, o, k)
  BY <1>4 DEF Settled
<1>7. \A o, u \in DOMAIN matched : o # u => matched[o] # matched[u]
  BY <1>4 DEF Settled
<1> QED
  BY <1>1, <1>5, <1>6, <1>7

\* What the search near the anchor adds to the candidates are the provider's places.
LEMMA RecoversIsSeq ==
  ASSUME NEW anchor \in Places, NEW places, NEW option, NEW radius, NEW direction
  PROVE  Recovers(anchor, places, option, radius, direction) \in Seq(Places)
<1> DEFINE near == Nearby(anchor, option, radius)
           from == IF near = <<>> THEN NameSearch(option) ELSE near
           others == {k \in DOMAIN from : from[k].id # anchor.id}
           hits == ItemsAt(from, others)
           best == BestMatch(option, hits, <<anchor>>, FALSE)
<1>1. from \in Seq(Places)
  <2>1. near \in Seq(Places) /\ NameSearch(option) \in Seq(Places)
    BY NearbyIsSeq, NameSearchIsSeq
  <2> HIDE DEF near
  <2> QED
    BY <2>1
<1>2. hits \in Seq(Places)
  <2> HIDE DEF from, others
  <2> QED
    BY <1>1, ItemsAtIsSeq
<1>3. best \in Optional(Places)
  <2>1. <<anchor>> \in Optional(Places)
    BY DEF Optional
  <2> HIDE DEF hits
  <2> QED
    BY Zenon, <1>2, <2>1, BestMatchIsPlace
<1>4. Recovers(anchor, places, option, radius, direction) \in {<<>>, best}
  BY DEF Recovers, Kept
<1> HIDE DEF best
<1>5. best \in Seq(Places) /\ <<>> \in Seq(Places)
  <2>1. CASE best = <<>>
    BY <2>1
  <2>2. CASE best # <<>>
    <3>1. PICK p \in Places : best = <<p>>
      BY <2>2, <1>3 DEF Optional
    <3> QED
      BY <3>1
  <2> QED
    BY <2>1, <2>2
<1> QED
  BY Zenon, <1>4, <1>5

LEMMA RecoverOptionsIsSeq ==
  ASSUME NEW anchor \in Places, NEW candidates \in Seq(Places), NEW options, Listing(options),
         NEW radius, NEW direction
  PROVE  RecoverOptions(anchor, candidates, options, radius, direction) \in Seq(Places)
<1> DEFINE N == Len(options)
           D == Seq(Places)
           More(n, places) == places \o Recovers(anchor, places, options[n], radius, direction)
           turn == [n \in 1 .. N |-> [places \in D |-> More(n, places)]]
           Loop(f) == f = [n \in 0 .. N |-> IF n = 0 THEN candidates ELSE More(n, f[n - 1])]
<1>1. N \in Nat
  BY DEF Listing
<1>2. \A n \in 1 .. N, places \in D : More(n, places) \in D
  BY RecoversIsSeq
<1>3. PICK run : Run(N, D, candidates, turn, run)
  <2>1. Turns(N, D, turn)
    <3> HIDE DEF More
    <3> QED
      BY <1>2 DEF Turns
  <2> HIDE DEF N, D, turn
  <2>2. candidates \in D
    BY DEF D
  <2> QED
    BY <1>1, <2>1, <2>2, LoopRuns
<1>4. /\ run \in [0 .. N -> D] /\ run[0] = candidates
      /\ \A n \in 1 .. N : run[n] = More(n, run[n - 1])
  <2>1. \A n \in 1 .. N : n - 1 \in 0 .. N
    BY <1>1
  <2> HIDE DEF D, More
  <2> QED
    BY Zenon, <1>3, <2>1 DEF Run
<1>5. Loop(run)
  <2> HIDE DEF D, More
  <2> QED
    BY <1>1, <1>4
<1>6. PICK f : f = CHOOSE g : Loop(g)
  BY Zenon
<1>7. Loop(f)
  BY Zenon, <1>5, <1>6
<1>8. RecoverOptions(anchor, candidates, options, radius, direction) = f[N]
  BY <1>6 DEF RecoverOptions
<1> DEFINE T == {n \in 0 .. N : f[n] \in D}
<1>9. 0 .. N \subseteq T
  <2>1. T \in SUBSET Nat
    BY <1>1
  <2>2. 0 \in T
    BY <1>1, <1>7
  <2>3. ASSUME NEW n \in 0 .. N - 1, n \in T
        PROVE  n + 1 \in T
    <3>1. n + 1 \in 1 .. N /\ n + 1 \in 0 .. N /\ n + 1 # 0 /\ (n + 1) - 1 = n
      BY <1>1
    <3>2. f[n + 1] = More(n + 1, f[n])
      <4> HIDE DEF More
      <4> QED
        BY <3>1, <1>7
    <3> HIDE DEF More
    <3> QED
      BY <3>1, <3>2, <1>2, <2>3
  <2> HIDE DEF T
  <2> QED
    BY Zenon, <1>1, <2>1, <2>2, <2>3, UpTo
<1> QED
  BY <1>1, <1>8, <1>9

-----------------------------------------------------------------------------
\* A choice, step by step.

\* The candidates of a choice: a search, the list as it was routed, and the list as it stands, with
\* the anchor it is measured from.
ChoiceState == [search : Searches, routed : Lists, places : Lists]
Choosing ==
  /\ list # <<>> => found # <<>> /\ Anchor # <<>> /\ task.about = "choice"
  /\ ranked # <<>> => list # <<>>
  /\ list \in {<<>>} \cup {<<l>> : l \in ChoiceState}

\* Answered with match_options, the answer is what it makes of the list, which stays.
Matched ==
  answer # <<>> /\ answer[1].by = "nearest" =>
    /\ list # <<>>
    /\ answer[1].result = MatchOptions(list[1].search.options, list[1].places, Anchor)

\* The rows of a choice are the candidates' own legs, and a ranking by time reads those of the list
\* as it stands.
LegsAreOwn ==
  rows # <<>> /\ task.about = "choice" =>
    /\ list # <<>>
    /\ \E failing : rows[1] = DistanceMatrix(<<Anchor>>, PlaceArguments(list[1].routed), failing)
TimedRanking ==
  ranked # <<>> /\ ranked[1].by = "time" =>
    /\ rows # <<>> /\ list # <<>> /\ ~NoneLocated(list[1].places)
    /\ ranked[1].places = NearestByTime(Anchor[1], list[1].places, list[1].search.kind, rows[1])[1]
ChoiceInv == Geocoded /\ Choosing /\ Matched /\ LegsAreOwn /\ TimedRanking

LEMMA StopsAreRows ==
  ASSUME Geocoded, found # <<>>
  PROVE  /\ Stops \in Lists /\ RowsOf(task.batch, Stops)
         /\ Anchor \in Optional(Places) /\ Anchor = Stops[1]
         /\ Anchor # <<>> => Anchor[1] \in Places /\ Anchor = <<Anchor[1]>>
<1>1. Named(task.batch) /\ task.batch.names # <<>>
  BY BatchAssumption DEF Geocoded, Named, Listing
<1>2. Stops = Reconciled(task.batch, FirstReading(task.batch))
  BY DEF Geocoded, Stops, BatchGeocode
<1>3. RowsOf(task.batch, Stops)
  BY <1>1, <1>2, FirstReadingIsRows, ReconcilingKeeps
<1>4. /\ 1 \in DOMAIN task.batch.names
      /\ DOMAIN task.batch.names = 1 .. Len(task.batch.names) /\ Len(task.batch.names) \in Nat
  BY <1>1 DEF Named, Listing
<1>5. Stops \in Lists
  BY <1>3, <1>4 DEF RowsOf, Lists
<1>6. Anchor = Stops[1] /\ Anchor \in Optional(Places)
  BY <1>3, <1>4 DEF RowsOf, Stops, Anchor
<1>7. ASSUME Anchor # <<>>
      PROVE  Anchor[1] \in Places /\ Anchor = <<Anchor[1]>>
  <2>1. Anchor \in Optional(Places) /\ Anchor # <<>>
    BY <1>6, <1>7
  <2>2. PICK p \in Places : Anchor = <<p>>
    BY <2>1 DEF Optional
  <2> QED
    BY <2>2
<1> QED
  BY <1>3, <1>5, <1>6, <1>7

LEMMA RetrievedIsList ==
  ASSUME Geocoded, found # <<>>, NEW s, NEW near, near = Nearby(Anchor[1], s.query, s.radius),
         NEW places \in {Stops, MergePlaces([k \in DOMAIN near |-> <<near[k]>>] \o Stops)}
  PROVE  places \in Lists
<1> DEFINE wrapped == [k \in DOMAIN near |-> <<near[k]>>]
           all == wrapped \o Stops
           once == {k \in DOMAIN all : all[k] # <<>> /\ \A j \in 1 .. k - 1 : all[j] # all[k]}
<1>1. Stops \in Lists
  BY StopsAreRows
<1>2. wrapped \in Lists
  <2>1. near \in Seq(Places)
    BY NearbyIsSeq
  <2>2. DOMAIN near = 1 .. Len(near) /\ Len(near) \in Nat /\ \A k \in DOMAIN near : near[k] \in Places
    BY <2>1
  <2>3. \A p \in Places : <<p>> \in Optional(Places)
    BY DEF Optional
  <2>4. wrapped \in [1 .. Len(near) -> Optional(Places)]
    BY <2>2, <2>3
  <2> QED
    BY <2>2, <2>4 DEF Lists
<1>3. all \in Lists
  <2> HIDE DEF wrapped
  <2> QED
    BY <1>1, <1>2 DEF Lists
<1>4. ItemsAt(all, once) \in Lists
  <2> HIDE DEF all, once
  <2> QED
    BY <1>3, ItemsAtIsSeq DEF Lists
<1>5. MergePlaces(all) = ItemsAt(all, once)
  BY DEF MergePlaces
<1> QED
  BY Zenon, <1>1, <1>4, <1>5

LEMMA NarrowedIsList ==
  ASSUME NEW s, NEW places \in Lists, NEW by, Anchor[1] \in Places, Narrowed(s, places, by) # <<>>
  PROVE  AsList(Narrowed(s, places, by)[1]) \in Lists
<1>1. CASE by = "direction"
  <2>1. Narrowed(s, places, by) = FilterByDirection(Anchor[1], places, s.direction)
    BY <1>1 DEF Narrowed
  <2> QED
    BY <2>1, DirectedIsSeq, AsListIsList
<1>2. CASE by = "radius"
  <2>1. Narrowed(s, places, by) = WithinRadius(Anchor[1], places, s.radius)
    BY <1>2 DEF Narrowed
  <2> QED
    BY <2>1, WithinRadiusIsSeq, AsListIsList
<1>3. CASE by # "direction" /\ by # "radius"
  <2>1. Narrowed(s, places, by)[1] = FilterPlaces(places, s.kind, s.stated)
    BY <1>3 DEF Narrowed
  <2> QED
    BY <2>1, FilterPlacesIsSeq, AsListIsList
<1> QED
  BY <1>1, <1>2, <1>3

LEMMA FilledIsSeq == ASSUME NEW S, NEW n \in Nat, NEW f \in [1 .. n -> S] PROVE f \in Seq(S)
OBVIOUS

LEMMA RecoveredIsList ==
  ASSUME NEW places \in Lists, NEW s \in Searches, Anchor[1] \in Places,
         NEW here, here = [k \in DOMAIN Located(places) |-> At(Located(places)[k])],
         NEW all, all = RecoverOptions(Anchor[1], here, s.options, s.radius, s.direction)
  PROVE  [k \in DOMAIN all |-> <<all[k]>>] \in Lists
<1>1. here \in Seq(Places)
  <2>1. Located(places) \in Seq(LocatedCandidate)
    BY LocatedAre
  <2>2. /\ DOMAIN Located(places) = 1 .. Len(Located(places)) /\ Len(Located(places)) \in Nat
        /\ \A k \in DOMAIN Located(places) : Located(places)[k] \in LocatedCandidate
    BY <2>1
  <2>3. here \in [1 .. Len(Located(places)) -> Places]
    BY <2>2, AtIsPlace
  <2> QED
    BY <2>2, <2>3
<1>2. all \in Seq(Places)
  <2>1. Listing(s.options)
    BY SearchAssumption DEF Listing
  <2> QED
    BY <1>1, <2>1, RecoverOptionsIsSeq
<1>3. DOMAIN all = 1 .. Len(all) /\ Len(all) \in Nat /\ \A k \in DOMAIN all : all[k] \in Places
  BY <1>2
<1>4. \A p \in Places : <<p>> \in Optional(Places)
  BY DEF Optional
<1> DEFINE wrapped == [k \in DOMAIN all |-> <<all[k]>>]
<1>5. wrapped \in [1 .. Len(all) -> Optional(Places)]
  BY <1>3, <1>4
<1> HIDE DEF wrapped
<1>6. wrapped \in Lists
  BY Zenon, <1>3, <1>5, FilledIsSeq DEF Lists
<1> QED
  BY <1>6 DEF wrapped

\* The steps of a choice, one by one.
LEMMA ChoiceGeocode ==
  ASSUME ChoiceInv, Geocode
  PROVE  ChoiceInv'
<1>1. Geocoded'
  BY GeocodedStep DEF ChoiceInv, Next
<1>2. list = <<>> /\ UNCHANGED <<task, list, ranked, rows, answer>>
  BY DEF ChoiceInv, Choosing, Geocode, results
<1>3. Choosing'
  BY <1>2 DEF ChoiceInv, Choosing
<1>4. Matched' /\ LegsAreOwn' /\ TimedRanking'
  BY <1>2 DEF ChoiceInv, Matched, LegsAreOwn, TimedRanking
<1> QED
  BY <1>1, <1>3, <1>4 DEF ChoiceInv

\* What trips and plans do leaves the choice alone.
LEMMA ChoiceElsewhere ==
  ASSUME ChoiceInv,
         RouteStops \/ OrderStops \/ FollowLegs \/ TotalLegs \/ CompareGroups \/ MatchTrip \/ RunStep \/ Select
  PROVE  ChoiceInv'
<1>1. Geocoded'
  BY GeocodedStep DEF ChoiceInv, Next
<1>2. UNCHANGED <<task, found, list, ranked>> /\ (rows' = rows \/ task.about = "trip")
  BY Zenon DEF RouteStops, OrderStops, FollowLegs, TotalLegs, CompareGroups, MatchTrip, RunStep, Select, About, results
<1>3. Anchor' = Anchor
  BY <1>2 DEF Anchor
<1>4. answer' = answer \/ (answer' # <<>> => answer'[1].by # "nearest")
  <2>1. CASE MatchTrip
    <3>1. \/ \E r : answer' = <<[by |-> "leg", result |-> r]>>
          \/ \E r : answer' = <<[by |-> "finish", result |-> r]>>
          \/ \E r : answer' = <<[by |-> "distance", result |-> r]>>
          \/ \E r : answer' = <<[by |-> "count", result |-> r]>>
      BY <2>1, Zenon DEF MatchTrip
    <3> QED
      BY <3>1
  <2>2. CASE Select
    <3>1. \E m, s, o, r : answer' = <<[by |-> "option", measured |-> m, said |-> s, options |-> o, result |-> r]>>
      BY <2>2, Zenon DEF Select
    <3> QED
      BY <3>1
  <2>3. CASE RouteStops \/ OrderStops \/ FollowLegs \/ TotalLegs \/ CompareGroups \/ RunStep
    BY <2>3 DEF RouteStops, OrderStops, FollowLegs, TotalLegs, CompareGroups, RunStep, results
  <2> QED
    BY <2>1, <2>2, <2>3
<1>5. Choosing'
  BY <1>2, <1>3 DEF ChoiceInv, Choosing
<1>6. Matched'
  BY <1>2, <1>3, <1>4 DEF ChoiceInv, Matched
<1>7. LegsAreOwn'
  BY <1>2, <1>3 DEF ChoiceInv, LegsAreOwn
<1>8. TimedRanking'
  BY <1>2, <1>3 DEF ChoiceInv, Choosing, TimedRanking
<1> QED
  BY <1>1, <1>5, <1>6, <1>7, <1>8 DEF ChoiceInv

\* While nothing is ranked or answered, the list may change.
LEMMA ListChanges ==
  ASSUME ChoiceInv, About("choice"), ranked = <<>>, UNCHANGED <<task, found, ranked, answer>>,
         NEW l \in ChoiceState, list' = <<l>>, Anchor # <<>>
  PROVE  Choosing' /\ Matched' /\ TimedRanking'
<1>1. list' # <<>> /\ Anchor' = Anchor /\ found # <<>> /\ answer = <<>> /\ task.about = "choice"
  BY DEF About, Anchor
<1>2. Choosing'
  BY <1>1 DEF Choosing
<1>3. Matched' /\ TimedRanking'
  BY <1>1 DEF Matched, TimedRanking
<1> QED
  BY <1>2, <1>3

LEMMA ChoiceRetrieve ==
  ASSUME ChoiceInv, Retrieve
  PROVE  ChoiceInv'
<1>1. Geocoded'
  BY GeocodedStep DEF ChoiceInv, Next
<1>2. About("choice") /\ list = <<>> /\ Anchor # <<>> /\ UNCHANGED <<task, values, found, rows, ranked, answer>>
  BY DEF Retrieve
<1>3. PICK s \in Searches :
        LET near == Nearby(Anchor[1], s.query, s.radius)
        IN \E places \in {Stops, MergePlaces([k \in DOMAIN near |-> <<near[k]>>] \o Stops)} :
             list' = <<[search |-> s, routed |-> <<>>, places |-> places]>>
  BY Zenon DEF Retrieve
<1> DEFINE near == Nearby(Anchor[1], s.query, s.radius)
<1>4. PICK places \in {Stops, MergePlaces([k \in DOMAIN near |-> <<near[k]>>] \o Stops)} :
        list' = <<[search |-> s, routed |-> <<>>, places |-> places]>>
  BY <1>3
<1>5. places \in Lists
  <2>1. near = Nearby(Anchor[1], s.query, s.radius)
    OBVIOUS
  <2>2. Geocoded /\ found # <<>>
    BY <1>2 DEF ChoiceInv, About
  <2> HIDE DEF near
  <2> QED
    BY <2>1, <2>2, RetrievedIsList
<1> HIDE DEF near
<1>6. rows = <<>> /\ ranked = <<>>
  BY <1>2 DEF ChoiceInv, Choosing, LegsAreOwn, About
<1> DEFINE l == [search |-> s, routed |-> <<>>, places |-> places]
<1>7. l \in ChoiceState
  BY <1>5 DEF ChoiceState, Lists
<1> HIDE DEF l
<1>8. Choosing' /\ Matched' /\ TimedRanking'
  BY <1>2, <1>4, <1>6, <1>7, ListChanges DEF l
<1>9. LegsAreOwn'
  BY <1>2, <1>6 DEF LegsAreOwn
<1> QED
  BY <1>1, <1>8, <1>9 DEF ChoiceInv

LEMMA ListOf ==
  ASSUME ChoiceInv, list # <<>>
  PROVE  list[1] \in ChoiceState /\ list = <<list[1]>> /\ Anchor # <<>> /\ Anchor[1] \in Places
<1>1. PICK l \in ChoiceState : list = <<l>>
  BY DEF ChoiceInv, Choosing
<1>2. found # <<>> /\ Anchor # <<>> /\ Geocoded
  BY DEF ChoiceInv, Choosing
<1> QED
  BY <1>1, <1>2, StopsAreRows

\* The list is narrowed or added to: what was routed stays on record.
LEMMA PlacesChange ==
  ASSUME ChoiceInv, Geocoded', About("choice"), list # <<>>, ranked = <<>>,
         UNCHANGED <<task, found, rows, ranked, answer>>,
         NEW places \in Lists, list' = [list EXCEPT ![1].places = places]
  PROVE  ChoiceInv'
<1> DEFINE l == [list[1] EXCEPT !.places = places]
<1>1. list[1] \in ChoiceState /\ list = <<list[1]>> /\ Anchor # <<>>
  BY ListOf
<1>2. list' = <<l>> /\ l \in ChoiceState /\ l.routed = list[1].routed
  BY <1>1 DEF ChoiceState
<1> HIDE DEF l
<1>3. Choosing' /\ Matched' /\ TimedRanking'
  BY <1>1, <1>2, ListChanges
<1>4. Anchor' = Anchor /\ list' # <<>> /\ list'[1].routed = list[1].routed
  BY <1>2 DEF Anchor
<1>5. LegsAreOwn'
  BY <1>4 DEF ChoiceInv, LegsAreOwn
<1> QED
  BY <1>3, <1>5 DEF ChoiceInv

LEMMA ChoiceNarrow ==
  ASSUME ChoiceInv, Narrow
  PROVE  ChoiceInv'
<1>1. Geocoded'
  BY GeocodedStep DEF ChoiceInv, Next
<1>2. /\ About("choice") /\ list # <<>> /\ ranked = <<>>
      /\ UNCHANGED <<task, found, rows, ranked, answer>>
  BY Zenon DEF Narrow
<1>3. PICK by : /\ Narrowed(list[1].search, list[1].places, by) # <<>>
                /\ list' = [list EXCEPT ![1].places = AsList(Narrowed(list[1].search, @, by)[1])]
  BY Zenon DEF Narrow
<1> DEFINE places == AsList(Narrowed(list[1].search, list[1].places, by)[1])
<1>4. list[1] \in ChoiceState /\ list = <<list[1]>> /\ Anchor[1] \in Places
  BY <1>2, ListOf
<1>5. places \in Lists
  <2>1. list[1].places \in Lists
    BY <1>4 DEF ChoiceState
  <2> QED
    BY <1>3, <1>4, <2>1, NarrowedIsList
<1>6. list' = [list EXCEPT ![1].places = places]
  BY <1>3, <1>4
<1> HIDE DEF places
<1> QED
  BY Zenon, <1>1, <1>2, <1>5, <1>6, PlacesChange

LEMMA ChoiceRecover ==
  ASSUME ChoiceInv, Recover
  PROVE  ChoiceInv'
<1>1. Geocoded'
  BY GeocodedStep DEF ChoiceInv, Next
<1>2. /\ About("choice") /\ list # <<>> /\ ranked = <<>>
      /\ UNCHANGED <<task, found, rows, ranked, answer>>
  BY DEF Recover
<1> DEFINE s == list[1].search
           here == [k \in DOMAIN Located(list[1].places) |-> At(Located(list[1].places)[k])]
           all == RecoverOptions(Anchor[1], here, s.options, s.radius, s.direction)
           places == [k \in DOMAIN all |-> <<all[k]>>]
<1>3. list[1] \in ChoiceState /\ Anchor[1] \in Places
  BY <1>2, ListOf
<1>4. places \in Lists
  <2>1. s \in Searches /\ list[1].places \in Lists
    BY <1>3 DEF ChoiceState
  <2> HIDE DEF s
  <2> QED
    BY <1>3, <2>1, RecoveredIsList
<1>5. list' = [list EXCEPT ![1].places = places]
  BY DEF Recover
<1> HIDE DEF places
<1> QED
  BY Zenon, <1>1, <1>2, <1>4, <1>5, PlacesChange

LEMMA ChoiceRoute ==
  ASSUME ChoiceInv, RouteCandidates
  PROVE  ChoiceInv'
<1>1. Geocoded'
  BY GeocodedStep DEF ChoiceInv, Next
<1>2. /\ About("choice") /\ list # <<>> /\ rows = <<>> /\ ranked = <<>>
      /\ UNCHANGED <<task, found, ranked, answer>>
  BY DEF RouteCandidates
<1>3. PICK failing : rows' = <<DistanceMatrix(<<Anchor>>, PlaceArguments(list[1].places), failing)>>
  BY DEF RouteCandidates
<1>4. list' = [list EXCEPT ![1].routed = list[1].places]
  BY DEF RouteCandidates
<1> DEFINE l == [list[1] EXCEPT !.routed = list[1].places]
<1>5. list[1] \in ChoiceState /\ list = <<list[1]>> /\ Anchor # <<>>
  BY <1>2, ListOf
<1>6. list' = <<l>> /\ l \in ChoiceState /\ l.routed = list[1].places
  BY <1>4, <1>5 DEF ChoiceState
<1> HIDE DEF l
<1>7. Choosing' /\ Matched' /\ TimedRanking'
  BY <1>2, <1>5, <1>6, ListChanges
<1>8. Anchor' = Anchor /\ list' # <<>> /\ list'[1].routed = list[1].places
  BY <1>2, <1>6 DEF Anchor
<1>9. rows'[1] = DistanceMatrix(<<Anchor'>>, PlaceArguments(list'[1].routed), failing)
  BY <1>3, <1>8
<1>10. LegsAreOwn'
  BY <1>8, <1>9 DEF LegsAreOwn
<1> QED
  BY <1>1, <1>7, <1>10 DEF ChoiceInv

LEMMA ChoiceRank ==
  ASSUME ChoiceInv, Rank
  PROVE  ChoiceInv'
<1>1. Geocoded'
  BY GeocodedStep DEF ChoiceInv, Next
<1>2. About("choice") /\ list # <<>> /\ UNCHANGED <<task, found, rows, list, answer>>
  BY DEF Rank
<1>3. Anchor' = Anchor
  BY <1>2 DEF Anchor
<1>4. Choosing' /\ Matched' /\ LegsAreOwn'
  BY <1>2, <1>3 DEF ChoiceInv, Choosing, Matched, LegsAreOwn
<1>5. ranked' # <<>> /\ ranked'[1].by = "time" =>
        /\ rows # <<>> /\ ~NoneLocated(list[1].places)
        /\ ranked'[1].places = NearestByTime(Anchor[1], list[1].places, list[1].search.kind, rows[1])[1]
  BY DEF Rank
<1>6. TimedRanking'
  BY <1>2, <1>3, <1>5 DEF TimedRanking
<1> QED
  BY <1>1, <1>4, <1>6 DEF ChoiceInv

LEMMA ChoiceMatch ==
  ASSUME ChoiceInv, MatchChoice
  PROVE  ChoiceInv'
<1>1. Geocoded'
  BY GeocodedStep DEF ChoiceInv, Next
<1>2. About("choice") /\ list # <<>> /\ UNCHANGED <<task, found, rows, list, ranked>>
  BY Zenon DEF MatchChoice
<1>3. Anchor' = Anchor
  BY <1>2 DEF Anchor
<1>4. Choosing' /\ LegsAreOwn' /\ TimedRanking'
  BY <1>2, <1>3 DEF ChoiceInv, Choosing, LegsAreOwn, TimedRanking
<1>5. answer' # <<>> /\ answer'[1].by = "nearest" =>
        answer'[1].result = MatchOptions(list[1].search.options, list[1].places, Anchor)
  <2> DEFINE best == MatchOptions(list[1].search.options, list[1].places, Anchor)
  <2>1. \/ answer' = <<[by |-> "nearest", result |-> best]>>
        \/ \E r : answer' = <<[by |-> "set", result |-> r]>>
        \/ \E r : answer' = <<[by |-> "type", result |-> r]>>
        \/ \E r : answer' = <<[by |-> "count", result |-> r]>>
    BY Zenon DEF MatchChoice
  <2> HIDE DEF best
  <2>2. answer'[1].by # "nearest" \/ answer'[1].result = best
    BY <2>1
  <2> QED
    BY <2>2 DEF best
<1>6. Matched'
  BY <1>2, <1>3, <1>5 DEF Matched
<1> QED
  BY <1>1, <1>4, <1>6 DEF ChoiceInv

LEMMA ChoiceStep ==
  ASSUME ChoiceInv, [Next]_vars
  PROVE  ChoiceInv'
<1>1. CASE UNCHANGED vars
  <2>1. UNCHANGED <<task, found, rows, list, ranked, answer>>
    BY <1>1 DEF vars
  <2>2. Anchor' = Anchor
    BY <2>1 DEF Anchor
  <2> QED
    BY <2>1, <2>2 DEF ChoiceInv, Geocoded, Choosing, Matched, LegsAreOwn, TimedRanking
<1>2. CASE Geocode
  BY <1>2, ChoiceGeocode
<1>3. CASE RouteStops \/ OrderStops \/ FollowLegs \/ TotalLegs \/ CompareGroups \/ MatchTrip \/ RunStep \/ Select
  BY <1>3, ChoiceElsewhere
<1>4. CASE Retrieve
  BY <1>4, ChoiceRetrieve
<1>5. CASE Narrow
  BY <1>5, ChoiceNarrow
<1>6. CASE Recover
  BY <1>6, ChoiceRecover
<1>7. CASE RouteCandidates
  BY <1>7, ChoiceRoute
<1>8. CASE Rank
  BY <1>8, ChoiceRank
<1>9. CASE MatchChoice
  BY <1>9, ChoiceMatch
<1> QED
  BY <1>1, <1>2, <1>3, <1>4, <1>5, <1>6, <1>7, <1>8, <1>9 DEF Next

LEMMA ChoiceInit == Init => ChoiceInv
<1> SUFFICES ASSUME Init
             PROVE  ChoiceInv
  OBVIOUS
<1>1. Geocoded /\ rows = <<>> /\ list = <<>> /\ ranked = <<>> /\ answer = <<>>
  BY DEF Init, Geocoded
<1>2. Choosing /\ Matched
  BY <1>1 DEF Choosing, Matched
<1>3. LegsAreOwn /\ TimedRanking
  BY <1>1 DEF LegsAreOwn, TimedRanking
<1> QED
  BY <1>1, <1>2, <1>3 DEF ChoiceInv

LEMMA ChoiceIsStable == ChoiceInv => OnePlaceOneOption
<1> SUFFICES ASSUME ChoiceInv, answer # <<>>, answer[1].by = "nearest"
             PROVE  LET r == answer[1].result
                        options == list[1].search.options
                        Sim(o, k) == Similarity(options[o], At(r.ranked[k]).name)
                    IN /\ \A o, u \in DOMAIN r.matched : o # u => r.matched[o] # r.matched[u]
                       /\ \A o \in DOMAIN options, k \in DOMAIN r.ranked :
                            Sim(o, k) >= Floor =>
                              \/ o \in DOMAIN r.matched /\ Sim(o, r.matched[o]) >= Sim(o, k)
                              \/ \E u \in DOMAIN r.matched : r.matched[u] = k /\ Sim(u, k) >= Sim(o, k)
                       /\ \A o \in DOMAIN r.matched : r.best # <<>> /\ r.matched[r.best[1]] <= r.matched[o]
  BY DEF OnePlaceOneOption
<1>1. list # <<>> /\ answer[1].result = MatchOptions(list[1].search.options, list[1].places, Anchor)
  BY DEF ChoiceInv, Matched
<1>2. list[1].places \in Lists /\ Listing(list[1].search.options)
  BY <1>1, ListOf, SearchAssumption DEF ChoiceState, Listing
<1> DEFINE r == answer[1].result
           options == list[1].search.options
<1> HIDE DEF r, options
<1>3. /\ \A o, u \in DOMAIN r.matched : o # u => r.matched[o] # r.matched[u]
      /\ \A o \in DOMAIN options, k \in DOMAIN r.ranked :
           Alike(options, r.ranked, o, k) >= Floor => Passed(options, r.ranked, r.matched, o, k)
      /\ \A o \in DOMAIN r.matched : r.best # <<>> /\ r.matched[r.best[1]] <= r.matched[o]
  <2>1. r = MatchOptions(options, list[1].places, Anchor) /\ Listing(options)
    BY <1>1, <1>2 DEF r, options
  <2> QED
    BY <1>2, <2>1, MatchIsStable
<1>4. \A o \in DOMAIN options, k \in DOMAIN r.ranked :
        Similarity(options[o], At(r.ranked[k]).name) >= Floor =>
          \/ o \in DOMAIN r.matched
             /\ Similarity(options[o], At(r.ranked[r.matched[o]]).name) >= Similarity(options[o], At(r.ranked[k]).name)
          \/ \E u \in DOMAIN r.matched : r.matched[u] = k
             /\ Similarity(options[u], At(r.ranked[k]).name) >= Similarity(options[o], At(r.ranked[k]).name)
  BY <1>3 DEF Alike, Passed
<1> QED
  BY <1>3, <1>4 DEF r, options

\* For any options and candidates, match_options gives every option a place of its own, passes a
\* pairing over only for a stronger one, and answers with the option whose place ranks best.
THEOREM PlacesSupportOneOption == Spec => []OnePlaceOneOption
<1>1. Init => ChoiceInv
  BY ChoiceInit
<1>2. ChoiceInv /\ [Next]_vars => ChoiceInv'
  BY ChoiceStep
<1>3. ChoiceInv => OnePlaceOneOption
  BY ChoiceIsStable
<1> QED
  BY <1>1, <1>2, <1>3, PTL DEF Spec

-----------------------------------------------------------------------------
\* Of one origin, the k-th row of a matrix is the leg to the k-th destination.
LEMMA MatrixOfOne ==
  ASSUME NEW from, NEW stops, Listing(stops), NEW failing
  PROVE  /\ DOMAIN DistanceMatrix(<<from>>, stops, failing) = DOMAIN stops
         /\ \A k \in DOMAIN stops :
              DistanceMatrix(<<from>>, stops, failing)[k] = RoutedPair(from, stops[k], <<1, k>> \in failing)
<1> DEFINE width == Len(stops)
           Row(j) == ((j - 1) \div width) + 1
           Column(j) == ((j - 1) % width) + 1
<1>1. width \in Nat /\ DOMAIN stops = 1 .. width
  BY DEF Listing
<1>2. Len(<<from>>) = 1 /\ <<from>>[1] = from
  OBVIOUS
<1>3. DistanceMatrix(<<from>>, stops, failing) =
        [j \in 1 .. Len(<<from>>) * width |->
           RoutedPair(<<from>>[Row(j)], stops[Column(j)], <<Row(j), Column(j)>> \in failing)]
  BY DEF DistanceMatrix
<1> HIDE DEF width
<1>4. 1 .. Len(<<from>>) * width = DOMAIN stops
  BY <1>1, <1>2
<1>5. ASSUME NEW k \in DOMAIN stops
      PROVE  Row(k) = 1 /\ Column(k) = k
  <2>1. k \in 1 .. width
    BY <1>1
  <2>2. (k - 1) \div width = 0 /\ (k - 1) % width = k - 1
    BY <1>1, <2>1
  <2>3. k - 1 + 1 = k
    BY <2>1
  <2> QED
    BY <2>2, <2>3
<1> HIDE DEF Row, Column
<1>6. DOMAIN DistanceMatrix(<<from>>, stops, failing) = DOMAIN stops
  BY <1>3, <1>4
<1>7. ASSUME NEW k \in DOMAIN stops
      PROVE  DistanceMatrix(<<from>>, stops, failing)[k] =
               RoutedPair(<<from>>[Row(k)], stops[Column(k)], <<Row(k), Column(k)>> \in failing)
  BY Zenon, <1>3, <1>4, <1>7
<1>8. ASSUME NEW k \in DOMAIN stops
      PROVE  DistanceMatrix(<<from>>, stops, failing)[k] = RoutedPair(from, stops[k], <<1, k>> \in failing)
  BY <1>2, <1>5, <1>7, <1>8
<1> QED
  BY <1>6, <1>8

\* While the places up to an index were all located, dropping the others keeps it there.
LEMMA ArgumentStays ==
  ASSUME NEW stops \in Lists, NEW k \in DOMAIN stops, \A j \in 1 .. k : stops[j] # <<>>
  PROVE  /\ k \in DOMAIN PlaceArguments(stops) /\ PlaceArguments(stops)[k] = stops[k]
         /\ Listing(PlaceArguments(stops))
<1> DEFINE there == {j \in DOMAIN stops : stops[j] # <<>>}
<1>1. PlaceArguments(stops) = ItemsAt(stops, there)
  BY DEF PlaceArguments, Kept
<1>2. stops \in Seq(Optional(Places)) /\ k \in 0 .. Len(stops) /\ k \in 1 .. k /\ 1 .. k \subseteq there
  BY DEF Lists
<1> HIDE DEF there
<1>3. 1 .. k \subseteq DOMAIN ItemsAt(stops, there) /\ \A j \in 1 .. k : ItemsAt(stops, there)[j] = stops[j]
  BY Zenon, <1>2, ItemsAtFront
<1>4. Listing(ItemsAt(stops, there))
  BY <1>2, ItemsAtIsSeq, ListingOfSeq
<1> QED
  BY <1>1, <1>2, <1>3, <1>4

LEMMA RoutedMeasures ==
  ASSUME NEW from \in Optional(Places), NEW to \in Optional(Places), NEW fails \in BOOLEAN,
         NEW pair, pair = RoutedPair(from, to, fails)
  PROVE  /\ pair.m \in Nat /\ pair.s \in Nat
         /\ pair.ok => /\ from # <<>> /\ to # <<>>
                       /\ pair.s = IF SameEndpoint(from[1], to[1]) THEN 0 ELSE Seconds[from[1]][to[1]]
<1>1. CASE from = <<>> \/ to = <<>>
  <2>1. pair = [from |-> from, to |-> to, ok |-> FALSE, m |-> 0, s |-> 0]
    BY <1>1 DEF RoutedPair
  <2> QED
    BY <2>1
<1>2. CASE from # <<>> /\ to # <<>>
  <2>1. PICK p \in Places : from = <<p>>
    BY <1>2 DEF Optional
  <2>2. PICK q \in Places : to = <<q>>
    BY <1>2 DEF Optional
  <2>3. from[1] = p /\ to[1] = q /\ Metres[p][q] \in Nat /\ Seconds[p][q] \in Nat
    BY <2>1, <2>2, RouteAssumption
  <2>4. CASE SameEndpoint(from[1], to[1])
    <3>1. pair = [from |-> from, to |-> to, ok |-> TRUE, m |-> 0, s |-> 0]
      BY <1>2, <2>4 DEF RoutedPair
    <3> QED
      BY <3>1, <1>2, <2>4
  <2>5. CASE ~SameEndpoint(from[1], to[1])
    <3>1. CASE fails
      <4>1. pair = [from |-> from, to |-> to, ok |-> FALSE, m |-> 0, s |-> 0]
        BY Zenon, <1>2, <2>5, <3>1 DEF RoutedPair
      <4> QED
        BY <4>1
    <3>2. CASE ~fails
      <4>1. pair = [from |-> from, to |-> to, ok |-> TRUE, m |-> Metres[from[1]][to[1]],
                    s |-> Seconds[from[1]][to[1]]]
        BY Zenon, <1>2, <2>5, <3>2 DEF RoutedPair
      <4> QED
        BY <4>1, <1>2, <2>3, <2>5
    <3> QED
      BY <3>1, <3>2
  <2> QED
    BY <2>4, <2>5
<1> QED
  BY <1>1, <1>2

LEMMA ArgumentsAreList ==
  ASSUME NEW places \in Lists
  PROVE  /\ PlaceArguments(places) \in Lists
         /\ Listing(PlaceArguments(places))
<1> DEFINE there == {j \in DOMAIN places : places[j] # <<>>}
<1>1. PlaceArguments(places) = ItemsAt(places, there)
  BY DEF PlaceArguments, Kept
<1> HIDE DEF there
<1> QED
  BY <1>1, ItemsAtIsSeq, ListingOfSeq DEF Lists

\* What is ranked by time was located in the list, at its own index, and has its own leg's seconds.
LEMMA RankedByOwnLeg ==
  ASSUME NEW anchor \in Places, NEW places \in Lists, NEW kind, NEW failing,
         NEW row, row = DistanceMatrix(<<<<anchor>>>>, PlaceArguments(places), failing),
         NEW timed, timed = NearestByTime(anchor, places, kind, row)[1], ~NoneLocated(places),
         NEW k \in DOMAIN timed, NEW c, c = timed[k],
         \A j \in 1 .. c.index : places[j] # <<>>
  PROVE  c.m = IF SameEndpoint(anchor, At(c)) THEN 0 ELSE Seconds[anchor][At(c)]
<1> DEFINE others == ExcludingSelf(anchor, Located(places))
           cands == OfKind(others, kind)
           Clock(i) == IF LegTo(row, cands, i) = <<>> THEN -1 ELSE LegTo(row, cands, i)[1].s
           measured == [i \in DOMAIN cands |-> [cands[i] EXCEPT !.m = Clock(i)]]
           known == {i \in DOMAIN measured : measured[i].m >= 0}
           stops == PlaceArguments(places)
<1>1. /\ cands \in Seq(LocatedCandidate)
      /\ \A i \in DOMAIN cands : cands[i].index \in DOMAIN places /\ cands[i].place = places[cands[i].index]
  <2>1. Located(places) \in Seq(LocatedCandidate)
    BY LocatedAre
  <2>2. others \in Seq(LocatedCandidate) /\ Choice(others, Located(places))
    BY <2>1, ExcludingSelfAre
  <2> HIDE DEF others
  <2>3. cands \in Seq(LocatedCandidate) /\ Choice(cands, others)
    BY <2>2, OfKindAre
  <2> HIDE DEF cands
  <2>4. Choice(cands, Located(places))
    BY <2>2, <2>3, ChoiceOfChoice
  <2> QED
    BY <2>3, <2>4, LocatedAre DEF Choice
<1> HIDE DEF others, cands
<1>2. timed = Ranked(ItemsAt(measured, known))
  BY DEF NearestByTime, Kept, others, cands
<1>3. stops \in Lists /\ Listing(stops)
  BY ArgumentsAreList
<1>4. /\ DOMAIN row = DOMAIN stops
      /\ \A j \in DOMAIN row : row[j] = RoutedPair(<<anchor>>, stops[j], <<1, j>> \in failing)
  <2> HIDE DEF stops
  <2> QED
    BY <1>3, MatrixOfOne DEF stops
<1>5. <<anchor>> \in Optional(Places) /\ \A j \in DOMAIN stops : stops[j] \in Optional(Places)
  BY <1>3 DEF Lists, Optional
<1>6. \A j \in DOMAIN row :
        /\ row[j].s \in Nat
        /\ row[j].ok => row[j].s = IF SameEndpoint(anchor, stops[j][1]) THEN 0 ELSE Seconds[anchor][stops[j][1]]
  <2> SUFFICES ASSUME NEW j \in DOMAIN row
               PROVE  /\ row[j].s \in Nat
                      /\ row[j].ok => row[j].s = IF SameEndpoint(anchor, stops[j][1]) THEN 0
                                                  ELSE Seconds[anchor][stops[j][1]]
    OBVIOUS
  <2> DEFINE from == <<anchor>>
             fails == <<1, j>> \in failing
  <2> HIDE DEF stops
  <2>1. from[1] = anchor /\ fails \in BOOLEAN /\ from \in Optional(Places) /\ stops[j] \in Optional(Places)
    BY <1>4, <1>5
  <2>2. row[j] = RoutedPair(from, stops[j], fails)
    BY <1>4
  <2> HIDE DEF from, fails
  <2> QED
    BY <2>1, <2>2, RoutedMeasures
<1> HIDE DEF stops
<1>7. ASSUME NEW i \in DOMAIN cands
      PROVE  /\ Clock(i) \in Int
             /\ Clock(i) >= 0 => /\ cands[i].index \in DOMAIN row /\ row[cands[i].index].ok
                                 /\ Clock(i) = row[cands[i].index].s
  <2>1. CASE cands[i].index \in DOMAIN row /\ row[cands[i].index].ok
    <3>1. LegTo(row, cands, i) = <<row[cands[i].index]>>
      BY <2>1 DEF LegTo
    <3>2. Clock(i) = row[cands[i].index].s
      BY <3>1
    <3> HIDE DEF Clock
    <3> QED
      BY <2>1, <3>2, <1>6
  <2>2. CASE ~(cands[i].index \in DOMAIN row /\ row[cands[i].index].ok)
    <3>1. LegTo(row, cands, i) = <<>>
      BY <2>2 DEF LegTo
    <3>2. Clock(i) = -1
      BY <3>1
    <3> HIDE DEF Clock
    <3> QED
      BY <3>2
  <2> QED
    BY <2>1, <2>2
<1> HIDE DEF Clock
<1>8. \A i \in DOMAIN cands : /\ measured[i].m = Clock(i)
                              /\ measured[i].index = cands[i].index /\ measured[i].place = cands[i].place
                              /\ measured[i] \in LocatedCandidate
  <2>1. \A i \in DOMAIN cands : cands[i] \in LocatedCandidate
    BY <1>1
  <2> QED
    BY <1>7, <2>1 DEF LocatedCandidate, Candidate
<1>9. measured \in Seq(LocatedCandidate) /\ DOMAIN measured = DOMAIN cands
  <2>1. DOMAIN cands = 1 .. Len(cands) /\ Len(cands) \in Nat /\ DOMAIN measured = DOMAIN cands
    BY <1>1
  <2>2. measured \in [1 .. Len(cands) -> LocatedCandidate]
    BY <1>8, <2>1
  <2> HIDE DEF measured
  <2> QED
    BY <2>1, <2>2, FilledIsSeq
<1> HIDE DEF measured
<1>10. PICK i \in DOMAIN cands : Clock(i) >= 0 /\ c = measured[i]
  <2> DEFINE items == ItemsAt(measured, known)
  <2> HIDE DEF known
  <2>1. items \in Seq(LocatedCandidate) /\ Choice(items, measured) /\ Listing(measured)
    BY <1>9, KeptAre, ListingOfSeq
  <2>2. Sortable(items) /\ k \in DOMAIN items
    <3> HIDE DEF items
    <3>1. \A i \in DOMAIN items : items[i].m \in Int
      BY <2>1 DEF LocatedCandidate, Candidate
    <3>2. DOMAIN timed = DOMAIN items
      BY <1>2, <2>1, SortedIsSeq DEF items
    <3> QED
      BY <2>1, <3>1, <3>2, ListingOfSeq DEF Sortable
  <2>3. PICK l \in DOMAIN items : c = items[l]
    <3> HIDE DEF items
    <3> QED
      BY <1>2, <2>2, RankedIsOneItem DEF items
  <2>4. PICK i \in DOMAIN measured \cap known : items[l] = measured[i]
    BY <2>1, <2>3, ItemsAtAreItems
  <2> HIDE DEF items
  <2>5. i \in DOMAIN cands /\ Clock(i) >= 0 /\ c = measured[i]
    BY <1>8, <1>9, <2>3, <2>4 DEF known
  <2> QED
    BY <2>5
<1>11. /\ c.index = cands[i].index /\ c.place = places[c.index] /\ c.index \in DOMAIN places
       /\ c.index \in DOMAIN row /\ row[c.index].ok /\ c.m = row[c.index].s
  BY <1>1, <1>7, <1>8, <1>10
<1>12. stops[c.index] = places[c.index]
  BY <1>11, ArgumentStays DEF stops
<1> QED
  BY <1>6, <1>11, <1>12 DEF At

LEMMA ChoiceIsTimed == ChoiceInv => TimedLegIsItsOwn
<1> SUFFICES ASSUME ChoiceInv, ranked # <<>>, ranked[1].by = "time", list[1].routed = list[1].places,
                    NEW k \in DOMAIN ranked[1].places, NEW c, c = ranked[1].places[k],
                    \A j \in 1 .. c.index : list[1].places[j] # <<>>
             PROVE  c.m = IF SameEndpoint(Anchor[1], At(c)) THEN 0 ELSE Seconds[Anchor[1]][At(c)]
  BY DEF TimedLegIsItsOwn
<1>1. /\ list # <<>> /\ rows # <<>>
      /\ ranked[1].places = NearestByTime(Anchor[1], list[1].places, list[1].search.kind, rows[1])[1]
  BY DEF ChoiceInv, TimedRanking
<1>2. /\ Anchor[1] \in Places /\ list[1].places \in Lists /\ found # <<>>
      /\ task.about = "choice" /\ Geocoded /\ Anchor # <<>>
  BY <1>1, ListOf DEF ChoiceState, ChoiceInv, Choosing
<1>3. Anchor = <<Anchor[1]>>
  BY <1>2, StopsAreRows
<1>4. PICK failing : rows[1] = DistanceMatrix(<<Anchor>>, PlaceArguments(list[1].places), failing)
  BY <1>1, <1>2 DEF ChoiceInv, LegsAreOwn
<1>5. ~NoneLocated(list[1].places)
  BY DEF ChoiceInv, TimedRanking
<1> DEFINE anchor == Anchor[1]
           row == rows[1]
           places == list[1].places
           kind == list[1].search.kind
           timed == ranked[1].places
<1>6. row = DistanceMatrix(<<<<anchor>>>>, PlaceArguments(places), failing)
  BY <1>3, <1>4
<1>7. /\ anchor \in Places /\ places \in Lists /\ ~NoneLocated(places)
      /\ timed = NearestByTime(anchor, places, kind, row)[1]
  BY <1>1, <1>2, <1>5
<1>8. k \in DOMAIN timed /\ c = timed[k] /\ \A j \in 1 .. c.index : places[j] # <<>>
  OBVIOUS
<1> HIDE DEF anchor, row, places, kind, timed
<1>9. c.m = IF SameEndpoint(anchor, At(c)) THEN 0 ELSE Seconds[anchor][At(c)]
  BY <1>6, <1>7, <1>8, RankedByOwnLeg
<1> QED
  BY <1>9 DEF anchor

\* As long as the list is the one that was routed -- not narrowed, nor recovered into, since -- a
\* candidate with no unlocated place before it is ranked by the leg distance_matrix routed from the
\* anchor to it, for any places and any legs that fail, whatever the anchor and the other kinds left
\* out of the ranking in between (nearest). Of other lists and candidates nothing is claimed.
THEOREM RankedLegsAreTheirOwn == Spec => []TimedLegIsItsOwn
<1>1. Init => ChoiceInv
  BY ChoiceInit
<1>2. ChoiceInv /\ [Next]_vars => ChoiceInv'
  BY ChoiceStep
<1>3. ChoiceInv => TimedLegIsItsOwn
  BY ChoiceIsTimed
<1> QED
  BY <1>1, <1>2, <1>3, PTL DEF Spec

-----------------------------------------------------------------------------
\* Plans: what a step was computed from, and what it returns.

\* A plan in the order its steps run: each reads earlier ones.
InOrder(plan) ==
  /\ Listing(plan)
  /\ \A k \in DOMAIN plan : /\ Listing(plan[k].reads)
                            /\ \A i \in DOMAIN plan[k].reads : plan[k].reads[i].root \in 1 .. k - 1

LEMMA SourcesAreEarlier ==
  ASSUME NEW plan, InOrder(plan), NEW k \in DOMAIN plan
  PROVE  Sources(plan, k) \subseteq 1 .. k - 1
BY DEF InOrder, Sources

\* What the earlier steps were computed from decides what a step was computed from: the relation is
\* well defined.
From(plan, k, from) == Sources(plan, k) \cup UNION {from[j] : j \in Sources(plan, k)}

LEMMA DerivationIs ==
  ASSUME NEW plan, InOrder(plan)
  PROVE  /\ DOMAIN Derivation(plan) = DOMAIN plan
         /\ \A k \in DOMAIN plan : Derivation(plan)[k] = From(plan, k, Derivation(plan))
<1> DEFINE N == Len(plan)
           D == [1 .. N -> SUBSET (1 .. N)]
           none == [k \in 1 .. N |-> {}]
           turn == [k \in 1 .. N |-> [from \in D |-> [from EXCEPT ![k] = From(plan, k, from)]]]
           Loop(f) == f = [k \in DOMAIN plan |-> From(plan, k, f)]
<1>1. N \in Nat /\ DOMAIN plan = 1 .. N
  BY DEF InOrder, Listing
<1> HIDE DEF N
<1>2. \A k \in 1 .. N : Sources(plan, k) \subseteq 1 .. k - 1 /\ 1 .. k - 1 \subseteq 1 .. N
  <2> SUFFICES ASSUME NEW k \in 1 .. N
               PROVE  Sources(plan, k) \subseteq 1 .. k - 1 /\ 1 .. k - 1 \subseteq 1 .. N
    OBVIOUS
  <2>1. Sources(plan, k) \subseteq 1 .. k - 1
    BY <1>1, SourcesAreEarlier
  <2>2. 1 .. k - 1 \subseteq 1 .. N
    BY <1>1
  <2> QED
    BY <2>1, <2>2
<1>3. \A k \in 1 .. N, from \in D : From(plan, k, from) \in SUBSET (1 .. N)
  <2> SUFFICES ASSUME NEW k \in 1 .. N, NEW from \in D
               PROVE  From(plan, k, from) \in SUBSET (1 .. N)
    OBVIOUS
  <2>1. Sources(plan, k) \subseteq 1 .. N
    BY <1>2
  <2>2. \A j \in 1 .. N : from[j] \subseteq 1 .. N
    OBVIOUS
  <2> QED
    BY <2>1, <2>2 DEF From
<1>4. PICK run : Run(N, D, none, turn, run)
  <2>1. Turns(N, D, turn)
    <3>1. \A k \in 1 .. N, from \in D : [from EXCEPT ![k] = From(plan, k, from)] \in D
      BY <1>3
    <3> HIDE DEF D
    <3> QED
      BY <3>1 DEF Turns
  <2>2. none \in D
    OBVIOUS
  <2> HIDE DEF D, none, turn
  <2> QED
    BY <1>1, <2>1, <2>2, LoopRuns
<1>5. /\ run \in [0 .. N -> D]
      /\ \A k \in 1 .. N : run[k] = [run[k - 1] EXCEPT ![k] = From(plan, k, run[k - 1])]
  <2>1. \A k \in 1 .. N : k - 1 \in 0 .. N
    BY <1>1
  <2> HIDE DEF D, none
  <2> QED
    BY Zenon, <1>4, <2>1 DEF Run
<1>6. \A k \in 1 .. N : /\ run[k][k] = From(plan, k, run[k - 1])
                        /\ \A j \in 1 .. N : j # k => run[k][j] = run[k - 1][j]
  <2> SUFFICES ASSUME NEW k \in 1 .. N
               PROVE  /\ run[k][k] = From(plan, k, run[k - 1])
                      /\ \A j \in 1 .. N : j # k => run[k][j] = run[k - 1][j]
    OBVIOUS
  <2>1. run[k - 1] \in D /\ run[k] = [run[k - 1] EXCEPT ![k] = From(plan, k, run[k - 1])]
    BY <1>1, <1>5
  <2> QED
    BY Zenon, <2>1
<1> DEFINE T == {n \in 0 .. N : \A j \in 1 .. n : run[n][j] = run[j][j]}
<1>7. 0 .. N \subseteq T
  <2>1. T \in SUBSET Nat /\ 0 \in T
    BY <1>1
  <2>2. ASSUME NEW n \in 0 .. N - 1, n \in T
        PROVE  n + 1 \in T
    <3>1. n + 1 \in 1 .. N /\ n + 1 \in 0 .. N /\ (n + 1) - 1 = n
      BY <1>1
    <3>2. ASSUME NEW j \in 1 .. n + 1
          PROVE  run[n + 1][j] = run[j][j]
      <4>1. CASE j = n + 1
        BY <4>1
      <4>2. CASE j # n + 1
        <5>1. j \in 1 .. n /\ j \in 1 .. N
          BY <4>2, <1>1
        <5>2. run[n + 1][j] = run[n][j]
          BY <3>1, <4>2, <5>1, <1>6
        <5> QED
          BY <5>1, <5>2, <2>2
      <4> QED
        BY <4>1, <4>2
    <3> QED
      BY <3>1, <3>2
  <2> HIDE DEF T
  <2> QED
    BY Zenon, <1>1, <2>1, <2>2, UpTo
<1> DEFINE whole == [k \in DOMAIN plan |-> run[k][k]]
<1>8. Loop(whole)
  <2>1. ASSUME NEW k \in 1 .. N
        PROVE  run[k][k] = From(plan, k, whole)
    <3>1. \A j \in Sources(plan, k) : j \in 1 .. k - 1 /\ j \in 1 .. N /\ k - 1 \in 0 .. N
      BY <1>1, <1>2
    <3>2. \A j \in Sources(plan, k) : run[k - 1][j] = run[j][j] /\ whole[j] = run[j][j]
      BY <3>1, <1>1, <1>7
    <3>3. From(plan, k, run[k - 1]) = From(plan, k, whole)
      <4> HIDE DEF whole
      <4> QED
        BY <3>2 DEF From
    <3> QED
      BY <3>3, <1>6
  <2> QED
    BY <1>1, <2>1
<1>9. PICK f : f = CHOOSE g : Loop(g)
  OBVIOUS
<1>10. Loop(f)
  <2> HIDE DEF whole
  <2> QED
    BY <1>8, <1>9
<1>11. Derivation(plan) = f
  BY <1>9 DEF Derivation, From
<1> QED
  BY <1>10, <1>11

\* A step is computed from earlier steps only, and from what those were computed from.
LEMMA DerivationIsEarlier ==
  ASSUME NEW plan, InOrder(plan), NEW k \in DOMAIN plan
  PROVE  /\ Derivation(plan)[k] \subseteq 1 .. k - 1
         /\ Sources(plan, k) \subseteq Derivation(plan)[k]
         /\ \A j \in Derivation(plan)[k] : Derivation(plan)[j] \subseteq Derivation(plan)[k]
<1> DEFINE N == Len(plan)
           D(j) == Derivation(plan)[j]
           Good(j) == D(j) \subseteq 1 .. j - 1 /\ \A i \in D(j) : D(i) \subseteq D(j)
           T == {n \in 0 .. N : \A j \in 1 .. n : Good(j)}
<1>1. N \in Nat /\ DOMAIN plan = 1 .. N
  BY DEF InOrder, Listing
<1>2. \A j \in 1 .. N : /\ D(j) = Sources(plan, j) \cup UNION {D(i) : i \in Sources(plan, j)}
                        /\ Sources(plan, j) \subseteq 1 .. j - 1
  BY <1>1, DerivationIs, SourcesAreEarlier DEF From
<1> HIDE DEF D, N
<1>3. 0 .. N \subseteq T
  <2>1. T \in SUBSET Nat /\ 0 \in T
    BY <1>1
  <2>2. ASSUME NEW n \in 0 .. N - 1, n \in T
        PROVE  n + 1 \in T
    <3> DEFINE m == n + 1
    <3>1. m \in 1 .. N /\ m \in 0 .. N /\ m - 1 = n /\ 1 .. m = (1 .. n) \cup {m}
      BY <1>1
    <3>2. /\ Sources(plan, m) \subseteq 1 .. n
          /\ D(m) = Sources(plan, m) \cup UNION {D(i) : i \in Sources(plan, m)}
      BY <1>2, <3>1
    <3>3. \A i \in 1 .. n : D(i) \subseteq 1 .. n /\ \A j \in D(i) : D(j) \subseteq D(i)
      <4> SUFFICES ASSUME NEW i \in 1 .. n
                   PROVE  D(i) \subseteq 1 .. n /\ \A j \in D(i) : D(j) \subseteq D(i)
        OBVIOUS
      <4>1. Good(i) /\ 1 .. i - 1 \subseteq 1 .. n
        BY <2>2
      <4> QED
        BY <4>1
    <3>4. D(m) \subseteq 1 .. n
      BY <3>2, <3>3
    <3>5. ASSUME NEW i \in D(m)
          PROVE  D(i) \subseteq D(m)
      <4>1. CASE i \in Sources(plan, m)
        BY <4>1, <3>2
      <4>2. CASE i \notin Sources(plan, m)
        <5>1. PICK j \in Sources(plan, m) : i \in D(j)
          BY <4>2, <3>2
        <5>2. D(i) \subseteq D(j) /\ D(j) \subseteq D(m)
          BY <5>1, <3>2, <3>3
        <5> QED
          BY <5>2
      <4> QED
        BY <4>1, <4>2
    <3>6. Good(m)
      BY <3>1, <3>4, <3>5
    <3> HIDE DEF m, Good
    <3>7. m \in T
      BY <3>1, <3>6, <2>2
    <3> QED
      BY <3>7 DEF m
  <2> HIDE DEF T
  <2> QED
    BY Zenon, <1>1, <2>1, <2>2, UpTo
<1>4. N \in T /\ k \in 1 .. N
  BY <1>1, <1>3
<1>5. Good(k) /\ Sources(plan, k) \subseteq D(k)
  BY <1>2, <1>4
<1> QED
  BY <1>5 DEF D

\* An addend is dropped only for one that stands for it: the same step, or one computed from it.
LEMMA AddendsStand ==
  ASSUME NEW plan, InOrder(plan), NEW k \in DOMAIN plan
  PROVE  /\ \A j \in DOMAIN Addends(plan, k) : \E i \in DOMAIN plan[k].reads : Addends(plan, k)[j] = plan[k].reads[i]
         /\ \A i \in DOMAIN plan[k].reads : \E j \in DOMAIN Addends(plan, k) :
              LET r == Addends(plan, k)[j].root
              IN r = plan[k].reads[i].root \/ plan[k].reads[i].root \in Derivation(plan)[r]
<1> DEFINE reads == plan[k].reads
           Subsumed(i) == \E j \in DOMAIN reads :
             reads[j].root # reads[i].root /\ reads[i].root \in Derivation(plan)[reads[j].root]
           Again(i) == \E j \in 1 .. i - 1 : reads[j].root = reads[i].root
           kept == {i \in DOMAIN reads : ~Subsumed(i) /\ ~Again(i)}
<1>1. Addends(plan, k) = ItemsAt(reads, kept)
  BY DEF Addends
<1>2. Listing(reads) /\ \A i \in DOMAIN reads : reads[i].root \in 1 .. k - 1
  BY DEF InOrder
<1>3. k \in Nat /\ \A r \in 1 .. k - 1 : r \in DOMAIN plan
  <2>1. DOMAIN plan = 1 .. Len(plan) /\ Len(plan) \in Nat
    BY DEF InOrder, Listing
  <2> QED
    BY <2>1
<1>4. DOMAIN reads \in SUBSET Nat /\ \A i \in DOMAIN reads : 1 .. i - 1 \subseteq DOMAIN reads
  <2>1. DOMAIN reads = 1 .. Len(reads) /\ Len(reads) \in Nat
    BY <1>2 DEF Listing
  <2> QED
    BY <2>1
<1> HIDE DEF reads
<1>5. ASSUME NEW i \in DOMAIN reads
      PROVE  \E j \in kept : reads[j].root = reads[i].root \/ reads[i].root \in Derivation(plan)[reads[j].root]
  <2> DEFINE root == reads[i].root
             R == {r \in 1 .. k - 1 : /\ \E j \in DOMAIN reads : reads[j].root = r
                                      /\ r = root \/ root \in Derivation(plan)[r]}
  <2>1. root \in R
    BY <1>2
  <2>2. R \in SUBSET (1 .. k - 1) /\ R \in SUBSET Int /\ R # {}
    BY <1>3, <2>1
  <2> HIDE DEF R
  <2>3. IsFiniteSet(R)
    <3>1. k - 1 \in Nat
      BY <1>2, <1>3
    <3> QED
      BY Zenon, <2>2, <3>1, PositionsAreFinite
  <2>4. PICK top \in R : \A r \in R : r <= top
    BY Zenon, <2>2, <2>3, Greatest
  <2> DEFINE same == {j \in DOMAIN reads : reads[j].root = top}
  <2>5. same \in SUBSET Nat /\ same # {}
    BY <1>4, <2>4 DEF R
  <2>6. PICK j \in same : \A l \in same : j <= l
    <3> HIDE DEF same
    <3> QED
      BY <2>5, LeastNumber
  <2>7. j \in DOMAIN reads /\ reads[j].root = top
    OBVIOUS
  <2>8. ~Again(j)
    <3> SUFFICES ASSUME NEW l \in 1 .. j - 1, reads[l].root = reads[j].root
                 PROVE  FALSE
      OBVIOUS
    <3>1. l \in same
      BY <1>4, <2>7
    <3> QED
      BY <1>4, <2>6, <2>7, <3>1
  <2>9. ~Subsumed(j)
    <3> SUFFICES ASSUME NEW l \in DOMAIN reads, reads[l].root # reads[j].root,
                        reads[j].root \in Derivation(plan)[reads[l].root]
                 PROVE  FALSE
      OBVIOUS
    <3> DEFINE other == reads[l].root
    <3>1. other \in 1 .. k - 1 /\ other \in DOMAIN plan /\ top \in Derivation(plan)[other]
      BY <1>2, <1>3, <2>7
    <3> HIDE DEF other
    <3>2. top \in 1 .. other - 1 /\ Derivation(plan)[top] \subseteq Derivation(plan)[other]
      BY <3>1, DerivationIsEarlier
    <3>3. root \in Derivation(plan)[other]
      BY <3>1, <3>2, <2>4 DEF R
    <3>4. other \in R
      BY <3>1, <3>3 DEF R, other
    <3>5. other <= top /\ other > top
      BY <3>1, <3>2, <3>4, <2>4
    <3> QED
      BY <3>1, <3>2, <3>5, <1>3
  <2>10. j \in kept /\ (reads[j].root = root \/ root \in Derivation(plan)[reads[j].root])
    BY <2>4, <2>7, <2>8, <2>9 DEF R
  <2> QED
    BY <2>10
<1>6. kept \subseteq DOMAIN reads
  OBVIOUS
<1> HIDE DEF kept
<1>7. ASSUME NEW i \in DOMAIN reads
      PROVE  \E j \in DOMAIN Addends(plan, k) :
               LET r == Addends(plan, k)[j].root
               IN r = reads[i].root \/ reads[i].root \in Derivation(plan)[r]
  <2>1. PICK l \in kept : reads[l].root = reads[i].root \/ reads[i].root \in Derivation(plan)[reads[l].root]
    BY <1>5
  <2>2. PICK j \in DOMAIN ItemsAt(reads, kept) : ItemsAt(reads, kept)[j] = reads[l]
    BY <1>2, <1>6, <2>1, ItemsAreKept
  <2> QED
    BY <1>1, <2>1, <2>2
<1>8. \A j \in DOMAIN Addends(plan, k) : \E i \in DOMAIN reads : Addends(plan, k)[j] = reads[i]
  BY <1>1, <1>2, ItemsAtAreItems
<1> QED
  BY <1>7, <1>8 DEF reads

\* A value: whether there is one, and amounts of legs in S.
ValueOf(S, v) == v.ok \in BOOLEAN /\ v.amounts \in Seq(Seq(S))

LEMMA BrokenIsValue == ASSUME NEW S PROVE ValueOf(S, Broken) /\ ~Broken.ok
BY DEF ValueOf, Broken

LEMMA ResultIsValue ==
  ASSUME NEW S, NEW amounts \in Seq(Seq(S))
  PROVE  ValueOf(S, Result(amounts)) /\ Result(amounts).ok /\ Result(amounts).amounts = amounts
BY DEF ValueOf, Result

\* A reference resolves to a value only of a step that has one.
LEMMA ResolvedIs ==
  ASSUME NEW S, NEW outcomes, NEW ref, ValueOf(S, outcomes[ref.root])
  PROVE  ValueOf(S, Resolved(outcomes, ref)) /\ (Resolved(outcomes, ref).ok => outcomes[ref.root].ok)
<1> DEFINE v == outcomes[ref.root]
<1>1. v.ok \in BOOLEAN /\ v.amounts \in Seq(Seq(S))
  BY DEF ValueOf
<1>2. CASE ~v.ok
  <2>1. Resolved(outcomes, ref) = Broken
    BY <1>2 DEF Resolved
  <2> QED
    BY <2>1, BrokenIsValue
<1>3. CASE v.ok /\ ref.path \in DOMAIN v.amounts
  <2>1. Resolved(outcomes, ref) = Result(<<v.amounts[ref.path]>>)
    BY <1>3 DEF Resolved
  <2>2. v.amounts[ref.path] \in Seq(S)
    BY <1>1, <1>3
  <2>3. <<v.amounts[ref.path]>> \in Seq(Seq(S))
    BY <2>2
  <2> QED
    BY Zenon, <2>1, <2>3, <1>3, ResultIsValue
<1>4. CASE v.ok /\ ref.path \notin DOMAIN v.amounts
  <2>1. Resolved(outcomes, ref) = v
    BY <1>4 DEF Resolved
  <2> QED
    BY <2>1, <1>4
<1> QED
  BY <1>1, <1>2, <1>3, <1>4

\* Of legs that were all routed, a total has only such legs.
LEMMA TotalIsMeasured ==
  ASSUME NEW S, NEW amounts \in Seq(Seq(S)), Measured([amounts |-> amounts])
  PROVE  <<FlattenSeq(amounts)>> \in Seq(Seq(S)) /\ Measured(Result(<<FlattenSeq(amounts)>>))
<1> DEFINE R == {x \in S : x.ok}
           all == FlattenSeq(amounts)
<1>1. \A i \in DOMAIN amounts : amounts[i] \in Seq(R)
  <2> SUFFICES ASSUME NEW i \in DOMAIN amounts
               PROVE  amounts[i] \in Seq(R)
    OBVIOUS
  <2>1. amounts[i] \in Seq(S)
    OBVIOUS
  <2>2. \A j \in DOMAIN amounts[i] : amounts[i][j].ok
    BY DEF Measured
  <2>3. \A j \in DOMAIN amounts[i] : amounts[i][j] \in R
    BY <2>1, <2>2
  <2> HIDE DEF R
  <2> QED
    BY <2>1, <2>3
<1>2. amounts \in Seq(Seq(R))
  <2> HIDE DEF R
  <2> QED
    BY <1>1
<1>3. all \in Seq(R)
  <2> HIDE DEF R
  <2> QED
    BY <1>2, FlattenIsSeq
<1>4. all \in Seq(S)
  BY FlattenIsSeq
<1> HIDE DEF all
<1>5. \A j \in DOMAIN all : all[j].ok
  BY <1>3
<1>6. \A i \in DOMAIN <<all>> : <<all>>[i] = all
  OBVIOUS
<1>7. Measured(Result(<<all>>))
  BY <1>5, <1>6 DEF Measured, Result
<1> QED
  BY <1>4, <1>7 DEF all

LEMMA AmountsAreSeq ==
  ASSUME NEW S, NEW read, Listing(read), \A i \in DOMAIN read : ValueOf(S, read[i])
  PROVE  Amounts(read) \in Seq(Seq(S))
<1> DEFINE each == [i \in DOMAIN read |-> read[i].amounts]
<1>1. DOMAIN read = 1 .. Len(read) /\ Len(read) \in Nat
  BY DEF Listing
<1>2. each \in [1 .. Len(read) -> Seq(Seq(S))]
  BY <1>1 DEF ValueOf
<1>3. Amounts(read) = FlattenSeq(each)
  BY DEF Amounts
<1> HIDE DEF each
<1>4. each \in Seq(Seq(Seq(S)))
  BY Zenon, <1>1, <1>2, FilledIsSeq
<1> QED
  BY <1>3, <1>4, FlattenIsSeq

\* What a step reads are earlier steps.
LEMMA ReadIs ==
  ASSUME NEW plan, InOrder(plan), NEW k \in DOMAIN plan
  PROVE  /\ Listing(Read(plan, k))
         /\ \A i \in DOMAIN Read(plan, k) : Read(plan, k)[i].root \in 1 .. k - 1
<1>1. Listing(plan[k].reads) /\ \A i \in DOMAIN plan[k].reads : plan[k].reads[i].root \in 1 .. k - 1
  BY DEF InOrder
<1>2. CASE plan[k].kind # "sum"
  BY <1>1, <1>2 DEF Read
<1>3. CASE plan[k].kind = "sum"
  <2>1. Read(plan, k) = Addends(plan, k)
    BY <1>3 DEF Read
  <2>2. Listing(Addends(plan, k))
    <3>1. plan[k].reads \in Seq(ToSet(plan[k].reads))
      BY <1>1 DEF Listing
    <3> QED
      BY <3>1, ItemsAtIsSeq, ListingOfSeq DEF Addends
  <2>3. \A i \in DOMAIN Addends(plan, k) : Addends(plan, k)[i].root \in 1 .. k - 1
    BY <1>1, AddendsStand
  <2> QED
    BY <2>1, <2>2, <2>3
<1> QED
  BY <1>2, <1>3

\* A step of one of the kinds, and steps before it that have values.
OfAKind(plan, k) ==
  /\ plan[k].kind \in {"matrix", "route", "extract", "sum"}
  /\ plan[k].kind = "extract" => plan[k].reads # <<>>
ValuesBefore(S, outcomes, k) == \A j \in 1 .. k - 1 : ValueOf(S, outcomes[j])

LEMMA OutcomeIs ==
  ASSUME NEW plan, InOrder(plan), NEW k \in DOMAIN plan, OfAKind(plan, k),
         NEW S, NEW outcomes, ValuesBefore(S, outcomes, k),
         NEW stops, Len(stops) \in Nat, NEW failing,
         NEW v, v = Outcome(plan, k, outcomes, stops, failing)
  PROVE  /\ \E more : ValueOf(S \cup more, v)
         /\ v.ok => \A i \in DOMAIN Read(plan, k) : outcomes[Read(plan, k)[i].root].ok
         /\ v.ok /\ plan[k].kind \in {"extract", "sum"} => Measured(v)
<1> DEFINE step == plan[k]
           read == [i \in DOMAIN Read(plan, k) |-> Resolved(outcomes, Read(plan, k)[i])]
           origin == IF read = <<>> \/ (read # <<>> /\ LegsOf(read[1]) = <<>>) THEN stops[step.ends[1]]
                     ELSE LegsOf(read[1])[1].to
           leg == By(k, 1, RoutedPair(origin, stops[step.ends[2]], failing # {}))
           matrix == [i \in 1 .. Len(stops) * Len(stops) |-> By(k, i, DistanceMatrix(stops, stops, failing)[i])]
           cells == [i \in DOMAIN matrix |-> <<matrix[i]>>]
           Whole == \A i \in DOMAIN read : read[i].ok
<1>1. /\ Listing(read)
      /\ \A i \in DOMAIN read : ValueOf(S, read[i]) /\ (read[i].ok => outcomes[Read(plan, k)[i].root].ok)
  <2>1. Listing(Read(plan, k)) /\ \A i \in DOMAIN Read(plan, k) : Read(plan, k)[i].root \in 1 .. k - 1
    BY ReadIs
  <2>2. DOMAIN Read(plan, k) = 1 .. Len(Read(plan, k)) /\ Len(Read(plan, k)) \in Nat
    BY <2>1 DEF Listing
  <2>3. Listing(read)
    <3>1. read = [i \in 1 .. Len(Read(plan, k)) |-> read[i]]
      BY <2>2
    <3> HIDE DEF read
    <3> QED
      BY <2>2, <3>1, ListingOfDomain
  <2>4. \A i \in DOMAIN Read(plan, k) : read[i] = Resolved(outcomes, Read(plan, k)[i])
    OBVIOUS
  <2>5. DOMAIN read = DOMAIN Read(plan, k)
    OBVIOUS
  <2> HIDE DEF read
  <2> QED
    BY Zenon, <2>1, <2>3, <2>4, <2>5, ResolvedIs DEF ValuesBefore
<1>2. CASE ~Whole
  <2>1. v = Broken
    BY <1>2 DEF Outcome
  <2> QED
    BY <2>1, BrokenIsValue
<1>3. CASE Whole /\ step.kind = "matrix"
  <2>1. v = Result(cells)
    BY <1>3 DEF Outcome
  <2> DEFINE more == {matrix[i] : i \in DOMAIN matrix}
             n == Len(stops) * Len(stops)
  <2>2. n \in Nat /\ DOMAIN matrix = 1 .. n
    OBVIOUS
  <2>3. \A i \in 1 .. n : <<matrix[i]>> \in Seq(S \cup more)
    BY <2>2
  <2> HIDE DEF n, matrix, more
  <2>4. cells \in [1 .. n -> Seq(S \cup more)]
    BY <2>2, <2>3
  <2> HIDE DEF cells
  <2>5. cells \in Seq(Seq(S \cup more))
    BY <2>2, <2>4, FilledIsSeq
  <2>6. ValueOf(S \cup more, v)
    BY <2>1, <2>5, ResultIsValue
  <2> QED
    BY Zenon, <2>6, <1>1, <1>3
<1>4. CASE Whole /\ step.kind = "route"
  <2>1. v = IF leg.ok THEN Result(<<<<leg>>>>) ELSE Broken
    BY <1>4 DEF Outcome
  <2> HIDE DEF leg
  <2>2. <<<<leg>>>> \in Seq(Seq(S \cup {leg}))
    <3>1. <<leg>> \in Seq(S \cup {leg})
      OBVIOUS
    <3> QED
      BY <3>1
  <2>3. ValueOf(S \cup {leg}, v)
    BY Zenon, <2>1, <2>2, ResultIsValue, BrokenIsValue
  <2> QED
    BY Zenon, <2>3, <1>1, <1>4
<1>5. CASE Whole /\ step.kind = "extract"
  <2>1. v = IF Measured(read[1]) THEN read[1] ELSE Broken
    BY <1>5 DEF Outcome
  <2>2. 1 \in DOMAIN read
    <3>1. Read(plan, k) = plan[k].reads /\ plan[k].reads # <<>> /\ Listing(plan[k].reads)
      BY <1>5 DEF Read, InOrder, OfAKind
    <3>2. 1 \in DOMAIN Read(plan, k)
      BY <3>1 DEF Listing
    <3> QED
      BY <3>2
  <2> HIDE DEF read
  <2>3. ValueOf(S, v) /\ (v.ok => Measured(v))
    BY <1>1, <2>1, <2>2, BrokenIsValue
  <2>4. S = S \cup {}
    OBVIOUS
  <2>5. \E more : ValueOf(S \cup more, v)
    BY Zenon, <2>3, <2>4
  <2> QED
    BY Zenon, <2>3, <2>5, <1>1, <1>5 DEF read
<1>6. CASE Whole /\ step.kind = "sum"
  <2>1. v = IF Measured([amounts |-> Amounts(read)]) THEN Result(<<FlattenSeq(Amounts(read))>>) ELSE Broken
    BY <1>6 DEF Outcome
  <2>2. Amounts(read) \in Seq(Seq(S))
    <3> HIDE DEF read
    <3> QED
      BY <1>1, AmountsAreSeq
  <2>3. ValueOf(S, v) /\ (v.ok => Measured(v))
    <3> HIDE DEF read
    <3> QED
      BY Zenon, <2>1, <2>2, TotalIsMeasured, ResultIsValue, BrokenIsValue
  <2>4. S = S \cup {}
    OBVIOUS
  <2>5. \E more : ValueOf(S \cup more, v)
    BY Zenon, <2>3, <2>4
  <2> QED
    BY Zenon, <2>3, <2>5, <1>1, <1>6
<1> QED
  BY <1>2, <1>3, <1>4, <1>5, <1>6 DEF OfAKind

-----------------------------------------------------------------------------
\* A plan, step by step.

\* What a failure travels along: the steps a result was computed from have results, and what was
\* extracted or totalled was all routed.
Unbroken(plan, outcomes, k) ==
  outcomes[k].ok =>
    /\ \A j \in Derivation(plan)[k] : outcomes[j].ok
    /\ plan[k].kind \in {"extract", "sum"} => Measured(outcomes[k])

\* The steps run so far have values, each of them unbroken.
RanSoFar(plan, outcomes) ==
  /\ Listing(outcomes) /\ Len(outcomes) <= Len(plan)
  /\ \E S : \A k \in DOMAIN outcomes : ValueOf(S, outcomes[k])
  /\ \A k \in DOMAIN outcomes : Unbroken(plan, outcomes, k)
PlanInv ==
  /\ Geocoded
  /\ values # <<>> => task.about = "plan" /\ RanSoFar(task.steps, values)

LEMMA TaskIsInOrder ==
  ASSUME Geocoded, task.about = "plan"
  PROVE  /\ InOrder(task.steps)
         /\ \A k \in DOMAIN task.steps : OfAKind(task.steps, k)
BY PlanAssumption DEF Geocoded, InOrder, Listing, OfAKind

\* If all a step reads have results, so has all it was computed from, what was dropped included.
LEMMA SourcesAreWhole ==
  ASSUME NEW plan, InOrder(plan), NEW k \in DOMAIN plan,
         NEW outcomes, \A j \in 1 .. k - 1 : Unbroken(plan, outcomes, j),
         \A i \in DOMAIN Read(plan, k) : outcomes[Read(plan, k)[i].root].ok
  PROVE  \A j \in Derivation(plan)[k] : outcomes[j].ok
<1>1. /\ Listing(plan[k].reads)
      /\ \A i \in DOMAIN plan[k].reads : plan[k].reads[i].root \in 1 .. k - 1
  BY DEF InOrder
<1>2. ASSUME NEW i \in DOMAIN plan[k].reads
      PROVE  outcomes[plan[k].reads[i].root].ok
  <2>1. CASE plan[k].kind # "sum"
    BY <2>1 DEF Read
  <2>2. CASE plan[k].kind = "sum"
    <3>1. Read(plan, k) = Addends(plan, k)
      BY <2>2 DEF Read
    <3>2. PICK a \in DOMAIN Addends(plan, k) :
            LET r == Addends(plan, k)[a].root
            IN r = plan[k].reads[i].root \/ plan[k].reads[i].root \in Derivation(plan)[r]
      BY AddendsStand
    <3> DEFINE r == Addends(plan, k)[a].root
    <3>3. r \in 1 .. k - 1 /\ outcomes[r].ok
      BY <3>1, ReadIs
    <3>4. Unbroken(plan, outcomes, r)
      BY <3>3
    <3> QED
      BY <3>2, <3>3, <3>4 DEF Unbroken
  <2> QED
    BY <2>1, <2>2
<1>3. \A j \in Sources(plan, k) : j \in 1 .. k - 1 /\ outcomes[j].ok
  BY <1>1, <1>2 DEF Sources
<1>4. Derivation(plan)[k] = Sources(plan, k) \cup UNION {Derivation(plan)[j] : j \in Sources(plan, k)}
  BY DerivationIs DEF From
<1>5. \A j \in Sources(plan, k) : \A i \in Derivation(plan)[j] : outcomes[i].ok
  BY <1>3 DEF Unbroken
<1> QED
  BY <1>3, <1>4, <1>5

\* The next step's value joins the others.
LEMMA NextValueJoins ==
  ASSUME NEW plan, InOrder(plan),
         \A k \in DOMAIN plan : OfAKind(plan, k),
         NEW outcomes, RanSoFar(plan, outcomes), Len(outcomes) < Len(plan),
         NEW stops, Len(stops) \in Nat, NEW failing,
         NEW v, v = Outcome(plan, Len(outcomes) + 1, outcomes, stops, failing)
  PROVE  RanSoFar(plan, Append(outcomes, v))
<1> DEFINE n == Len(outcomes)
           k == n + 1
           all == Append(outcomes, v)
<1>1. /\ n \in Nat /\ DOMAIN outcomes = 1 .. n /\ Len(plan) \in Nat /\ DOMAIN plan = 1 .. Len(plan)
      /\ outcomes \in Seq(ToSet(outcomes))
  BY DEF RanSoFar, Listing, InOrder
<1>2. k \in DOMAIN plan /\ k - 1 = n
  BY <1>1
<1>3. /\ Len(all) = k /\ DOMAIN all = 1 .. k /\ all[k] = v /\ \A j \in 1 .. n : all[j] = outcomes[j]
      /\ Listing(all)
  <2>1. outcomes \in Seq(ToSet(outcomes) \cup {v})
    BY <1>1
  <2>2. all \in Seq(ToSet(outcomes) \cup {v})
    BY <2>1
  <2>3. Listing(all)
    BY Zenon, <2>2, ListingOfSeq
  <2>4. DOMAIN all = 1 .. k /\ Len(all) = k
    BY <1>1, <2>1
  <2>5. \A j \in 1 .. k : all[j] = IF j = k THEN v ELSE outcomes[j]
    BY <1>1, <2>1
  <2>6. k \in 1 .. k /\ \A j \in 1 .. n : j \in 1 .. k /\ j # k
    BY <1>1
  <2> QED
    BY <2>3, <2>4, <2>5, <2>6
<1>4. PICK S : \A j \in 1 .. n : ValueOf(S, outcomes[j])
  BY Zenon, <1>1 DEF RanSoFar
<1>5. v = Outcome(plan, k, outcomes, stops, failing)
  OBVIOUS
<1> HIDE DEF n, k, all
<1>6. /\ \E more : ValueOf(S \cup more, v)
      /\ v.ok => \A i \in DOMAIN Read(plan, k) : outcomes[Read(plan, k)[i].root].ok
      /\ v.ok /\ plan[k].kind \in {"extract", "sum"} => Measured(v)
  <2>1. OfAKind(plan, k)
    BY <1>2
  <2>2. ValuesBefore(S, outcomes, k)
    BY <1>2, <1>4 DEF ValuesBefore
  <2> QED
    BY <1>2, <1>5, <2>1, <2>2, OutcomeIs
<1>7. \E W : \A j \in DOMAIN all : ValueOf(W, all[j])
  <2>1. PICK more : ValueOf(S \cup more, v)
    BY Zenon, <1>6
  <2> DEFINE W == S \cup more
  <2>2. Seq(Seq(S)) \subseteq Seq(Seq(W))
    OBVIOUS
  <2>3. \A j \in 1 .. n : ValueOf(W, outcomes[j])
    <3> HIDE DEF W
    <3> QED
      BY <1>4, <2>2 DEF ValueOf
  <2>4. \A j \in DOMAIN all : j = k \/ j \in 1 .. n
    BY <1>1, <1>2, <1>3
  <2>5. \A j \in DOMAIN all : ValueOf(W, all[j])
    <3> HIDE DEF W
    <3> QED
      BY Zenon, <1>3, <2>1, <2>3, <2>4 DEF W
  <2> QED
    BY <2>5
<1>8. \A j \in 1 .. n : Unbroken(plan, outcomes, j)
  BY <1>1 DEF RanSoFar
<1>9. ASSUME NEW j \in 1 .. n
      PROVE  Unbroken(plan, all, j)
  <2>1. j \in DOMAIN plan /\ Derivation(plan)[j] \subseteq 1 .. j - 1 /\ 1 .. j - 1 \subseteq 1 .. n
    <3>1. j \in DOMAIN plan /\ 1 .. j - 1 \subseteq 1 .. n
      BY <1>1, <1>2
    <3> QED
      BY <3>1, DerivationIsEarlier
  <2>2. \A i \in Derivation(plan)[j] : all[i] = outcomes[i]
    BY Zenon, <2>1, <1>3
  <2> QED
    BY Zenon, <1>3, <1>8, <2>2 DEF Unbroken
<1>10. Unbroken(plan, all, k)
  <2>1. Derivation(plan)[k] \subseteq 1 .. n
    BY <1>2, DerivationIsEarlier
  <2>2. \A i \in Derivation(plan)[k] : all[i] = outcomes[i]
    BY <2>1, <1>3
  <2>3. v.ok => \A i \in Derivation(plan)[k] : outcomes[i].ok
    BY <1>2, <1>6, <1>8, SourcesAreWhole
  <2> QED
    BY Zenon, <1>3, <1>6, <2>2, <2>3 DEF Unbroken
<1>11. \A j \in DOMAIN all : Unbroken(plan, all, j)
  <2>1. \A j \in DOMAIN all : j = k \/ j \in 1 .. n
    BY <1>1, <1>2, <1>3
  <2> QED
    BY <2>1, <1>9, <1>10
<1>12. Len(all) <= Len(plan)
  BY <1>1, <1>2, <1>3
<1> QED
  BY Zenon, <1>3, <1>7, <1>11, <1>12 DEF RanSoFar, all

LEMMA NoneRunYet == ASSUME NEW plan, InOrder(plan) PROVE RanSoFar(plan, <<>>)
<1>1. Listing(<<>>) /\ Len(<<>>) = 0 /\ DOMAIN <<>> = {}
  BY DEF Listing
<1>2. Len(plan) \in Nat
  BY DEF InOrder, Listing
<1> QED
  BY <1>1, <1>2 DEF RanSoFar

LEMMA PlanStep ==
  ASSUME PlanInv, [Next]_vars
  PROVE  PlanInv'
<1>1. Geocoded'
  BY GeocodedStep DEF PlanInv
<1>2. CASE RunStep
  <2>1. /\ task.about = "plan" /\ found # <<>> /\ task' = task /\ Len(values) < Len(task.steps)
        /\ \E failing : values' = Append(values, Outcome(task.steps, Len(values) + 1, values, Stops, failing))
    BY <1>2 DEF RunStep, About
  <2>2. PICK failing : values' = Append(values, Outcome(task.steps, Len(values) + 1, values, Stops, failing))
    BY <2>1
  <2>3. /\ InOrder(task.steps)
        /\ \A k \in DOMAIN task.steps : OfAKind(task.steps, k)
    BY <2>1, TaskIsInOrder DEF PlanInv
  <2>4. RanSoFar(task.steps, values)
    BY <2>3, NoneRunYet DEF PlanInv
  <2>5. Len(Stops) \in Nat
    <3>1. Stops \in Lists
      BY <2>1, StopsAreRows DEF PlanInv
    <3> QED
      BY <3>1 DEF Lists
  <2>6. RanSoFar(task.steps, values')
    BY <2>1, <2>2, <2>3, <2>4, <2>5, NextValueJoins
  <2> QED
    BY <1>1, <2>1, <2>6 DEF PlanInv
<1>3. CASE UNCHANGED <<task, values>>
  <2>1. values' # <<>> => task'.about = "plan" /\ RanSoFar(task'.steps, values')
    BY <1>3 DEF PlanInv
  <2> QED
    BY <1>1, <2>1 DEF PlanInv
<1>4. Next => RunStep \/ UNCHANGED <<task, values>>
  BY Zenon DEF Next, Geocode, RouteStops, OrderStops, FollowLegs, TotalLegs, CompareGroups, MatchTrip,
         Select, Retrieve, Narrow, Recover, RouteCandidates, Rank, MatchChoice
<1> QED
  BY <1>2, <1>3, <1>4 DEF vars

\* For any plan in the order its steps run, a step has a result only if all it was computed from
\* have one, addends that _drop_subsumed_addends left out included.
THEOREM FailuresTravel == Spec => []FailureTravels
<1>1. Init => PlanInv
  BY DEF Init, PlanInv, Geocoded
<1>2. PlanInv /\ [Next]_vars => PlanInv'
  BY PlanStep
<1>3. PlanInv => FailureTravels
  <2> SUFFICES ASSUME PlanInv, NEW k \in DOMAIN values, values[k].ok
               PROVE  /\ \A j \in Derivation(task.steps)[k] : values[j].ok
                      /\ task.steps[k].kind \in {"extract", "sum"} => Measured(values[k])
    BY DEF FailureTravels
  <2>1. values # <<>>
    OBVIOUS
  <2> QED
    BY <2>1 DEF PlanInv, RanSoFar, Unbroken
<1> QED
  BY <1>1, <1>2, <1>3, PTL DEF Spec

-----------------------------------------------------------------------------
\* Plans: a total counts no leg twice.

\* Items that stand in an order relation by their positions still do, once filtered.
LEMMA ItemsAtStayApart ==
  ASSUME NEW s, Listing(s), NEW positions, NEW R,
         \A i, j \in DOMAIN s \cap positions : i < j => <<s[i], s[j]>> \in R
  PROVE  \A a, b \in DOMAIN ItemsAt(s, positions) :
           a < b => <<ItemsAt(s, positions)[a], ItemsAt(s, positions)[b]>> \in R
<1> DEFINE S == ToSet(s)
<1>0. s \in Seq(S)
  BY DEF Listing
<1> HIDE DEF S
<1>s. Len(s) \in Nat /\ DOMAIN s = 1 .. Len(s) /\ \A n \in 1 .. Len(s) : s[n] \in S
  BY <1>0
<1>1. PICK among \in [0 .. Len(s) -> Seq(S)] :
        /\ Among(s, positions, Len(s), among)
        /\ ItemsAt(s, positions) = among[Len(s)]
  BY <1>0, ItemsAtRuns
<1> DEFINE Come(n) == \A a \in DOMAIN among[n] : \E k \in (1 .. n) \cap positions : among[n][a] = s[k]
           Stand(n) == \A a, b \in DOMAIN among[n] : a < b => <<among[n][a], among[n][b]>> \in R
           T == {n \in 0 .. Len(s) : Come(n) /\ Stand(n)}
<1>2. 0 \in T
  <2>1. among[0] = <<>> /\ DOMAIN among[0] = {}
    BY <1>1 DEF Among
  <2> QED
    BY <2>1, <1>s
<1>3. ASSUME NEW n \in 0 .. Len(s) - 1, n \in T
      PROVE  n + 1 \in T
  <2>1. /\ n \in 0 .. Len(s) /\ n + 1 \in 1 .. Len(s) /\ among[n] \in Seq(S) /\ s[n + 1] \in S
        /\ Come(n) /\ Stand(n) /\ n + 1 \in 0 .. Len(s)
    BY <1>s, <1>3
  <2>2. among[n + 1] = IF n + 1 \in positions THEN Append(among[n], s[n + 1]) ELSE among[n]
    BY <2>1, <1>1 DEF Among
  <2>3. 1 .. n + 1 = (1 .. n) \cup {n + 1} /\ \A k \in 1 .. n : k < n + 1 /\ k \in DOMAIN s
    BY <2>1, <1>s
  <2>4. CASE n + 1 \notin positions
    <3>1. among[n + 1] = among[n] /\ (1 .. n + 1) \cap positions = (1 .. n) \cap positions
      BY <2>2, <2>3, <2>4
    <3>2. Come(n + 1) /\ Stand(n + 1)
      BY <3>1, <2>1
    <3> HIDE DEF Come, Stand
    <3> QED
      BY <3>2, <2>1
  <2>5. CASE n + 1 \in positions
    <3> DEFINE m == Len(among[n]) + 1
    <3>1. /\ DOMAIN among[n + 1] = DOMAIN among[n] \cup {m}
          /\ among[n + 1][m] = s[n + 1]
          /\ \A i \in DOMAIN among[n] : among[n + 1][i] = among[n][i]
      BY <2>1, <2>2, <2>5, AppendAre
    <3>2. m \in Nat /\ \A i \in DOMAIN among[n] : i \in Nat /\ i < m
      BY <2>1
    <3> HIDE DEF m
    <3>3. ASSUME NEW a \in DOMAIN among[n + 1]
          PROVE  \E k \in (1 .. n + 1) \cap positions : among[n + 1][a] = s[k]
      <4>1. CASE a = m
        BY <4>1, <3>1, <2>3, <2>5
      <4>2. CASE a \in DOMAIN among[n]
        <5>1. PICK k \in (1 .. n) \cap positions : among[n][a] = s[k]
          BY <4>2, <2>1
        <5>2. k \in (1 .. n + 1) \cap positions /\ among[n + 1][a] = s[k]
          BY <5>1, <4>2, <3>1, <2>3
        <5> QED
          BY <5>2
      <4> QED
        BY <4>1, <4>2, <3>1
    <3>4. ASSUME NEW a \in DOMAIN among[n + 1], NEW b \in DOMAIN among[n + 1], a < b
          PROVE  <<among[n + 1][a], among[n + 1][b]>> \in R
      <4>1. CASE b \in DOMAIN among[n]
        <5>1. a \in DOMAIN among[n]
          BY <4>1, <3>1, <3>2, <3>4
        <5> QED
          BY <4>1, <5>1, <3>1, <3>4, <2>1
      <4>2. CASE b = m
        <5>1. a \in DOMAIN among[n]
          BY <4>2, <3>1, <3>2, <3>4
        <5>2. PICK k \in (1 .. n) \cap positions : among[n][a] = s[k]
          BY <5>1, <2>1
        <5>3. <<s[k], s[n + 1]>> \in R
          BY Zenon, <5>2, <2>1, <2>3, <2>5, <1>s
        <5> QED
          BY Zenon, <4>2, <5>1, <5>2, <5>3, <3>1
      <4> QED
        BY <4>1, <4>2, <3>1
    <3>5. Come(n + 1) /\ Stand(n + 1)
      BY <3>3, <3>4
    <3> HIDE DEF Come, Stand
    <3> QED
      BY <3>5, <2>1
  <2> QED
    BY <2>4, <2>5
<1>4. Len(s) \in T
  <2>1. T \in SUBSET Nat /\ Len(s) \in Nat
    BY <1>0
  <2> HIDE DEF T
  <2>2. 0 .. Len(s) \subseteq T
    BY Zenon, <1>2, <1>3, <2>1, UpTo
  <2> QED
    BY <2>1, <2>2
<1> QED
  BY <1>1, <1>4

\* Amounts that share no leg, none of which counts one twice.
Apart(amounts) ==
  /\ \A i \in DOMAIN amounts : IsInjective(amounts[i])
  /\ \A i, j \in DOMAIN amounts : i # j => ToSet(amounts[i]) \cap ToSet(amounts[j]) = {}

\* Concatenation, by position.
LEMMA ConcatIs ==
  ASSUME NEW A, NEW B, NEW s \in Seq(A), NEW t \in Seq(B), NEW i \in DOMAIN (s \o t)
  PROVE  \/ i \in DOMAIN s /\ (s \o t)[i] = s[i] /\ s[i] \in A
         \/ i - Len(s) \in DOMAIN t /\ (s \o t)[i] = t[i - Len(s)] /\ t[i - Len(s)] \in B
<1>1. /\ Len(s) \in Nat /\ Len(t) \in Nat /\ DOMAIN s = 1 .. Len(s) /\ DOMAIN t = 1 .. Len(t)
      /\ s \in Seq(A \cup B) /\ t \in Seq(A \cup B)
  OBVIOUS
<1>2. /\ s \o t \in Seq(A \cup B) /\ Len(s \o t) = Len(s) + Len(t)
      /\ \A k \in 1 .. Len(s) + Len(t) : (s \o t)[k] = IF k <= Len(s) THEN s[k] ELSE t[k - Len(s)]
  BY <1>1
<1>3. i \in 1 .. Len(s) + Len(t)
  BY <1>2
<1>4. CASE i <= Len(s)
  <2>1. i \in 1 .. Len(s)
    BY <1>1, <1>3, <1>4
  <2> QED
    BY <1>1, <1>2, <1>3, <1>4, <2>1
<1>5. CASE ~(i <= Len(s))
  <2>1. i - Len(s) \in 1 .. Len(t)
    BY <1>1, <1>3, <1>5
  <2> QED
    BY <1>1, <1>2, <1>3, <1>5, <2>1
<1> QED
  BY <1>4, <1>5

LEMMA ConcatIsInjective ==
  ASSUME NEW A, NEW B, A \cap B = {}, NEW s \in Seq(A), NEW t \in Seq(B), IsInjective(s), IsInjective(t)
  PROVE  s \o t \in Seq(A \cup B) /\ IsInjective(s \o t)
<1>1. s \in Seq(A \cup B) /\ t \in Seq(A \cup B) /\ Len(s) \in Nat
  OBVIOUS
<1>2. s \o t \in Seq(A \cup B) /\ DOMAIN (s \o t) \subseteq Nat
  BY <1>1
<1>3. ASSUME NEW i \in DOMAIN (s \o t), NEW j \in DOMAIN (s \o t), (s \o t)[i] = (s \o t)[j]
      PROVE  i = j
  <2>1. \/ i \in DOMAIN s /\ (s \o t)[i] = s[i] /\ s[i] \in A
        \/ i - Len(s) \in DOMAIN t /\ (s \o t)[i] = t[i - Len(s)] /\ t[i - Len(s)] \in B
    BY ConcatIs
  <2>2. \/ j \in DOMAIN s /\ (s \o t)[j] = s[j] /\ s[j] \in A
        \/ j - Len(s) \in DOMAIN t /\ (s \o t)[j] = t[j - Len(s)] /\ t[j - Len(s)] \in B
    BY ConcatIs
  <2>3. i \in Nat /\ j \in Nat
    BY <1>2
  <2>4. CASE i \in DOMAIN s /\ j \in DOMAIN s /\ s[i] = s[j]
    BY <2>4 DEF IsInjective
  <2>5. CASE i - Len(s) \in DOMAIN t /\ j - Len(s) \in DOMAIN t /\ t[i - Len(s)] = t[j - Len(s)]
    <3>1. i - Len(s) = j - Len(s)
      BY <2>5 DEF IsInjective
    <3> QED
      BY <3>1, <2>3, <1>1
  <2> QED
    BY Zenon, <1>3, <2>1, <2>2, <2>4, <2>5
<1>4. IsInjective(s \o t)
  BY <1>3 DEF IsInjective
<1> QED
  BY <1>2, <1>4

LEMMA ConcatIsApart ==
  ASSUME NEW A, NEW B, A \cap B = {}, NEW s \in Seq(Seq(A)), NEW t \in Seq(Seq(B)), Apart(s), Apart(t)
  PROVE  s \o t \in Seq(Seq(A \cup B)) /\ Apart(s \o t)
<1>0. Seq(A) \subseteq Seq(A \cup B) /\ Seq(B) \subseteq Seq(A \cup B)
  OBVIOUS
<1>1. s \in Seq(Seq(A \cup B)) /\ t \in Seq(Seq(A \cup B)) /\ Len(s) \in Nat
  BY <1>0
<1>2. s \o t \in Seq(Seq(A \cup B)) /\ DOMAIN (s \o t) \subseteq Nat
  BY <1>1
<1>3. \A i \in DOMAIN (s \o t) :
        \/ i \in DOMAIN s /\ (s \o t)[i] = s[i] /\ s[i] \in Seq(A)
        \/ i - Len(s) \in DOMAIN t /\ (s \o t)[i] = t[i - Len(s)] /\ t[i - Len(s)] \in Seq(B)
  BY ConcatIs
<1>4. \A i \in DOMAIN (s \o t) : IsInjective((s \o t)[i])
  BY <1>3 DEF Apart
<1>5. \A x \in Seq(A), y \in Seq(B) : ToSet(x) \cap ToSet(y) = {} /\ ToSet(y) \cap ToSet(x) = {}
  <2>1. \A x \in Seq(A) : ToSet(x) \subseteq A
    BY ListingOfSeq
  <2>2. \A y \in Seq(B) : ToSet(y) \subseteq B
    BY ListingOfSeq
  <2> QED
    BY <2>1, <2>2
<1>6. ASSUME NEW i \in DOMAIN (s \o t), NEW j \in DOMAIN (s \o t), i # j
      PROVE  ToSet((s \o t)[i]) \cap ToSet((s \o t)[j]) = {}
  <2>1. i \in Nat /\ j \in Nat
    BY <1>2
  <2>2. i - Len(s) # j - Len(s)
    BY <2>1, <1>1, <1>6
  <2>3. \A p, q \in DOMAIN s : p # q => ToSet(s[p]) \cap ToSet(s[q]) = {}
    BY DEF Apart
  <2>4. \A p, q \in DOMAIN t : p # q => ToSet(t[p]) \cap ToSet(t[q]) = {}
    BY DEF Apart
  <2>5. CASE i \in DOMAIN s /\ (s \o t)[i] = s[i] /\ s[i] \in Seq(A)
    <3>1. CASE j \in DOMAIN s /\ (s \o t)[j] = s[j]
      BY <2>5, <3>1, <2>3, <1>6
    <3>2. CASE (s \o t)[j] \in Seq(B)
      BY Zenon, <2>5, <3>2, <1>5
    <3> QED
      BY Zenon, <3>1, <3>2, <1>3
  <2>6. CASE i - Len(s) \in DOMAIN t /\ (s \o t)[i] = t[i - Len(s)] /\ t[i - Len(s)] \in Seq(B)
    <3>1. CASE (s \o t)[j] \in Seq(A)
      BY Zenon, <2>6, <3>1, <1>5
    <3>2. CASE j - Len(s) \in DOMAIN t /\ (s \o t)[j] = t[j - Len(s)]
      BY <2>6, <3>2, <2>2, <2>4
    <3> QED
      BY Zenon, <3>1, <3>2, <1>3
  <2> QED
    BY Zenon, <2>5, <2>6, <1>3
<1>7. Apart(s \o t)
  BY Zenon, <1>4, <1>6 DEF Apart
<1> QED
  BY <1>2, <1>7

\* The union of the first n of a family of sets, turn by turn.
UpToNth(U, n) == UNION {U[i] : i \in 1 .. n}
LEMMA UnionGrows ==
  ASSUME NEW N \in Nat, NEW U, \A i, j \in 1 .. N : i # j => U[i] \cap U[j] = {},
         NEW n \in 1 .. N
  PROVE  UpToNth(U, n - 1) \cap U[n] = {} /\ UpToNth(U, n - 1) \cup U[n] = UpToNth(U, n)
<1>1. 1 .. n = (1 .. n - 1) \cup {n} /\ n \in 1 .. n
  OBVIOUS
<1>2. \A i \in 1 .. n - 1 : i \in 1 .. N /\ i # n
  OBVIOUS
<1>3. UpToNth(U, n - 1) \cap U[n] = {}
  BY <1>2 DEF UpToNth
<1>4. UpToNth(U, n - 1) \cup U[n] = UpToNth(U, n)
  BY <1>1 DEF UpToNth
<1> QED
  BY <1>3, <1>4

\* Amounts apart: in a row, they count nothing twice.
LEMMA FlattenIsInjective ==
  ASSUME NEW S, NEW a \in Seq(Seq(S)), Apart(a)
  PROVE  IsInjective(FlattenSeq(a))
<1> DEFINE N == Len(a)
           U == [i \in 1 .. N |-> ToSet(a[i])]
           G == [n \in 0 .. N |-> {s \in Seq(UpToNth(U, n)) : IsInjective(s)}]
<1>1. N \in Nat /\ DOMAIN a = 1 .. N /\ \A n \in 1 .. N : a[n] \in Seq(S) /\ n \in 0 .. N /\ n - 1 \in 0 .. N
  OBVIOUS
<1>2. \A n \in 1 .. N : U[n] = ToSet(a[n]) /\ a[n] \in Seq(U[n]) /\ U[n] \subseteq S /\ IsInjective(a[n])
  BY Zenon, <1>1, ListingOfSeq DEF Apart, Listing
<1>3. \A i, j \in 1 .. N : i # j => U[i] \cap U[j] = {}
  BY Zenon, <1>1, <1>2 DEF Apart
<1> HIDE DEF U
<1>4. \A n \in 0 .. N : G[n] = {s \in Seq(UpToNth(U, n)) : IsInjective(s)}
  OBVIOUS
<1>5. G \in [0 .. N -> SUBSET Seq(S)]
  <2>1. ASSUME NEW n \in 0 .. N PROVE UpToNth(U, n) \subseteq S
    BY <1>1, <1>2 DEF UpToNth
  <2>2. ASSUME NEW n \in 0 .. N PROVE Seq(UpToNth(U, n)) \subseteq Seq(S)
    BY <2>1
  <2> QED
    BY <2>2
<1> HIDE DEF G
<1>6. <<>> \in G[0]
  <2>1. 0 \in 0 .. N /\ <<>> \in Seq(UpToNth(U, 0)) /\ IsInjective(<<>>)
    BY <1>1 DEF IsInjective
  <2> QED
    BY Zenon, <1>4, <2>1
<1>7. ASSUME NEW n \in 1 .. N, NEW s \in G[n - 1]
      PROVE  s \o a[n] \in G[n]
  <2>1. s \in Seq(UpToNth(U, n - 1)) /\ IsInjective(s)
    BY Zenon, <1>1, <1>4
  <2>2. UpToNth(U, n - 1) \cap U[n] = {} /\ UpToNth(U, n - 1) \cup U[n] = UpToNth(U, n)
    BY Zenon, <1>1, <1>3, UnionGrows
  <2>3. s \o a[n] \in Seq(UpToNth(U, n)) /\ IsInjective(s \o a[n])
    BY Zenon, <1>2, <2>1, <2>2, ConcatIsInjective
  <2> QED
    BY Zenon, <1>1, <1>4, <2>3
<1>8. FlattenSeq(a) \in G[N]
  BY Zenon, <1>5, <1>6, <1>7, FlattenFollows
<1> QED
  BY <1>1, <1>4, <1>8

\* Lists of amounts that share nothing, in a row.
LEMMA FlattenIsApart ==
  ASSUME NEW S, NEW N \in Nat, NEW U, \A i, j \in 1 .. N : i # j => U[i] \cap U[j] = {},
         \A i \in 1 .. N : U[i] \subseteq S,
         NEW a \in Seq(Seq(Seq(S))), Len(a) = N,
         \A i \in 1 .. N : a[i] \in Seq(Seq(U[i])) /\ Apart(a[i])
  PROVE  Apart(FlattenSeq(a))
<1> DEFINE G == [n \in 0 .. N |-> {s \in Seq(Seq(UpToNth(U, n))) : Apart(s)}]
<1>1. \A n \in 1 .. N : n \in 0 .. N /\ n - 1 \in 0 .. N
  OBVIOUS
<1>4. \A n \in 0 .. N : G[n] = {s \in Seq(Seq(UpToNth(U, n))) : Apart(s)}
  OBVIOUS
<1>5. G \in [0 .. N -> SUBSET Seq(Seq(S))]
  <2>1. ASSUME NEW n \in 0 .. N PROVE UpToNth(U, n) \subseteq S
    BY DEF UpToNth
  <2>2. ASSUME NEW n \in 0 .. N PROVE Seq(UpToNth(U, n)) \subseteq Seq(S)
    BY <2>1
  <2>3. ASSUME NEW n \in 0 .. N PROVE Seq(Seq(UpToNth(U, n))) \subseteq Seq(Seq(S))
    BY <2>2
  <2> QED
    BY <2>3
<1> HIDE DEF G
<1>6. <<>> \in G[0]
  <2>1. 0 \in 0 .. N /\ <<>> \in Seq(Seq(UpToNth(U, 0))) /\ Apart(<<>>)
    BY DEF Apart
  <2> QED
    BY Zenon, <1>4, <2>1
<1>7. ASSUME NEW n \in 1 .. N, NEW s \in G[n - 1]
      PROVE  s \o a[n] \in G[n]
  <2>1. s \in Seq(Seq(UpToNth(U, n - 1))) /\ Apart(s)
    BY <1>1, <1>4
  <2>2. UpToNth(U, n - 1) \cap U[n] = {} /\ UpToNth(U, n - 1) \cup U[n] = UpToNth(U, n)
    BY Zenon, UnionGrows
  <2>3. s \o a[n] \in Seq(Seq(UpToNth(U, n))) /\ Apart(s \o a[n])
    BY Zenon, <2>1, <2>2, ConcatIsApart
  <2> QED
    BY Zenon, <1>1, <1>4, <2>3
<1>8. FlattenSeq(a) \in G[N]
  BY Zenon, <1>5, <1>6, <1>7, FlattenFollows
<1> QED
  BY <1>4, <1>8

\* A step and all it was computed from, and a step all of whose totals share nothing else.
Whence(plan, k) == {k} \cup Derivation(plan)[k]
SharesOnlyItself(plan, k) == \A j \in Derivation(plan)[k] \cup {k} : plan[j].kind = "sum" => SharesNothingElse(plan, j)

\* A value of a step: its legs were measured by it or by what it was computed from, and no two are
\* the same one as long as its totals are over measures that share nothing else.
MeasuredBy(S, W) == {x \in S : x.by \in W}
Counted(plan, S, k, v) ==
  /\ ValueOf(MeasuredBy(S, Whence(plan, k)), v)
  /\ SharesOnlyItself(plan, k) => Apart(v.amounts)

\* No two addends point at one step, nor one at what another was computed from.
LEMMA AddendsStandApart ==
  ASSUME NEW plan, InOrder(plan), NEW k \in DOMAIN plan,
         NEW a \in DOMAIN Addends(plan, k), NEW b \in DOMAIN Addends(plan, k), a # b
  PROVE  /\ Addends(plan, k)[a].root # Addends(plan, k)[b].root
         /\ Addends(plan, k)[a].root \notin Derivation(plan)[Addends(plan, k)[b].root]
<1> DEFINE reads == plan[k].reads
           Subsumed(i) == \E j \in DOMAIN reads :
             reads[j].root # reads[i].root /\ reads[i].root \in Derivation(plan)[reads[j].root]
           Again(i) == \E j \in 1 .. i - 1 : reads[j].root = reads[i].root
           kept == {i \in DOMAIN reads : ~Subsumed(i) /\ ~Again(i)}
           all == ItemsAt(reads, kept)
           R == {p \in ToSet(reads) \X ToSet(reads) : p[1].root # p[2].root}
<1>1. Addends(plan, k) = all
  BY DEF Addends
<1>2. Listing(reads) /\ DOMAIN reads = 1 .. Len(reads) /\ Len(reads) \in Nat
  BY DEF InOrder, Listing
<1>3. \A i, j \in DOMAIN reads \cap kept : i < j => <<reads[i], reads[j]>> \in R
  <2> SUFFICES ASSUME NEW i \in DOMAIN reads \cap kept, NEW j \in DOMAIN reads \cap kept, i < j
               PROVE  <<reads[i], reads[j]>> \in R
    OBVIOUS
  <2>1. i \in 1 .. j - 1 /\ ~Again(j)
    <3> HIDE DEF Subsumed
    <3> QED
      BY <1>2
  <2>2. reads[i] \in ToSet(reads) /\ reads[j] \in ToSet(reads)
    BY DEF ToSet
  <2> HIDE DEF reads, kept
  <2> QED
    BY <2>1, <2>2
<1>4. \A c, d \in DOMAIN all : c < d => all[c].root # all[d].root
  <2> HIDE DEF reads, kept
  <2>1. \A c, d \in DOMAIN all : c < d => <<all[c], all[d]>> \in R
    <3> HIDE DEF R
    <3> QED
      BY <1>2, <1>3, ItemsAtStayApart
  <2> HIDE DEF all
  <2> QED
    BY Zenon, <2>1
<1>5. \A c \in DOMAIN all : \E i \in DOMAIN reads \cap kept : all[c] = reads[i]
  <2> HIDE DEF reads, kept
  <2> QED
    BY <1>2, ItemsAtAreItems
<1>6. DOMAIN all \subseteq Nat
  <2>1. reads \in Seq(ToSet(reads))
    BY <1>2 DEF Listing
  <2> HIDE DEF reads, kept
  <2>2. all \in Seq(ToSet(reads))
    BY <2>1, ItemsAtIsSeq
  <2> HIDE DEF all
  <2> QED
    BY <2>2
<1>7. all[a].root # all[b].root
  <2> HIDE DEF all
  <2>1. a \in Nat /\ b \in Nat /\ (a < b \/ b < a)
    BY <1>1, <1>6
  <2> QED
    BY <1>1, <1>4, <2>1
<1>8. all[a].root \notin Derivation(plan)[all[b].root]
  <2>1. PICK i \in DOMAIN reads \cap kept : all[a] = reads[i]
    BY Zenon, <1>1, <1>5
  <2>2. PICK j \in DOMAIN reads \cap kept : all[b] = reads[j]
    BY Zenon, <1>1, <1>5
  <2>3. ~Subsumed(i)
    OBVIOUS
  <2> HIDE DEF all, kept
  <2> QED
    BY <1>7, <2>1, <2>2, <2>3
<1> QED
  BY Zenon, <1>1, <1>7, <1>8

\* What a value is made of stays apart when one of its amounts is taken.
LEMMA ResolvedIsApart ==
  ASSUME NEW S, NEW outcomes, NEW ref, ValueOf(S, outcomes[ref.root]), Apart(outcomes[ref.root].amounts)
  PROVE  Apart(Resolved(outcomes, ref).amounts)
<1> DEFINE v == outcomes[ref.root]
<1>1. CASE ~v.ok
  <2>1. Resolved(outcomes, ref) = Broken
    BY <1>1 DEF Resolved
  <2> QED
    BY <2>1 DEF Broken, Apart
<1>2. CASE v.ok /\ ref.path \in DOMAIN v.amounts
  <2>1. Resolved(outcomes, ref) = Result(<<v.amounts[ref.path]>>)
    BY <1>2 DEF Resolved
  <2>2. IsInjective(v.amounts[ref.path])
    BY <1>2 DEF Apart
  <2>3. DOMAIN <<v.amounts[ref.path]>> = {1}
    OBVIOUS
  <2> QED
    BY <2>1, <2>2, <2>3 DEF Result, Apart
<1>3. CASE v.ok /\ ref.path \notin DOMAIN v.amounts
  BY <1>3 DEF Resolved
<1> QED
  BY <1>1, <1>2, <1>3 DEF ValueOf

\* What a step is computed from, and the totals among it.
LEMMA WhenceOfSource ==
  ASSUME NEW plan, InOrder(plan), NEW k \in DOMAIN plan, NEW r \in Sources(plan, k)
  PROVE  /\ r \in DOMAIN plan
         /\ Whence(plan, r) \subseteq Whence(plan, k)
         /\ SharesOnlyItself(plan, k) => SharesOnlyItself(plan, r)
<1>1. r \in 1 .. k - 1 /\ r \in DOMAIN plan
  <2>1. DOMAIN plan = 1 .. Len(plan) /\ Len(plan) \in Nat
    BY DEF InOrder, Listing
  <2>2. r \in 1 .. k - 1
    BY DEF Sources, InOrder
  <2> QED
    BY <2>1, <2>2
<1>2. Derivation(plan)[k] = Sources(plan, k) \cup UNION {Derivation(plan)[j] : j \in Sources(plan, k)}
  BY DerivationIs DEF From
<1>3. r \in Derivation(plan)[k] /\ Derivation(plan)[r] \subseteq Derivation(plan)[k]
  BY <1>2
<1> QED
  BY <1>1, <1>3 DEF Whence, SharesOnlyItself

\* The values of the steps before, each counted.
CountedBefore(plan, S, outcomes, k) == \A j \in 1 .. k - 1 : Counted(plan, S, j, outcomes[j])

\* What a reference resolves to, of a step among those another is computed from.
LEMMA ResolvedIsCounted ==
  ASSUME NEW plan, InOrder(plan), NEW k \in DOMAIN plan, NEW S, NEW outcomes,
         CountedBefore(plan, S, outcomes, k),
         NEW ref, ref.root \in Sources(plan, k)
  PROVE  /\ ValueOf(MeasuredBy(S, Whence(plan, ref.root)), Resolved(outcomes, ref))
         /\ SharesOnlyItself(plan, k) => Apart(Resolved(outcomes, ref).amounts)
<1>1. ref.root \in 1 .. k - 1
  BY DEF Sources, InOrder
<1>2. Counted(plan, S, ref.root, outcomes[ref.root])
  BY <1>1 DEF CountedBefore
<1>3. SharesOnlyItself(plan, k) => SharesOnlyItself(plan, ref.root)
  BY WhenceOfSource
<1> QED
  BY <1>2, <1>3, ResolvedIs, ResolvedIsApart DEF Counted

\* Two addends of a sound total were computed from nothing in common.
LEMMA AddendsShareNothing ==
  ASSUME NEW plan, InOrder(plan), NEW k \in DOMAIN plan, plan[k].kind = "sum", SharesOnlyItself(plan, k),
         NEW a \in DOMAIN Addends(plan, k), NEW b \in DOMAIN Addends(plan, k), a # b
  PROVE  Whence(plan, Addends(plan, k)[a].root) \cap Whence(plan, Addends(plan, k)[b].root) = {}
<1> DEFINE p == Addends(plan, k)[a].root
           q == Addends(plan, k)[b].root
<1>1. p # q /\ p \notin Derivation(plan)[q] /\ q \notin Derivation(plan)[p]
  BY AddendsStandApart
<1>2. PICK i \in DOMAIN plan[k].reads : Addends(plan, k)[a] = plan[k].reads[i]
  BY AddendsStand
<1>3. PICK j \in DOMAIN plan[k].reads : Addends(plan, k)[b] = plan[k].reads[j]
  BY AddendsStand
<1>4. SharesNothingElse(plan, k)
  BY DEF SharesOnlyItself
<1>5. p = q \/ Whence(plan, p) \cap Whence(plan, q) \subseteq Whence(plan, p) \cap {p, q}
  BY <1>2, <1>3, <1>4 DEF SharesNothingElse, Whence
<1> HIDE DEF p, q
<1>6. Whence(plan, p) \cap Whence(plan, q) = {}
  BY <1>1, <1>5 DEF Whence
<1> QED
  BY <1>6 DEF p, q

\* A total over addends that share nothing counts nothing twice.
LEMMA TotalIsApart ==
  ASSUME NEW plan, InOrder(plan), NEW k \in DOMAIN plan, plan[k].kind = "sum",
         NEW S, NEW outcomes, CountedBefore(plan, S, outcomes, k),
         NEW read, read = [i \in DOMAIN Addends(plan, k) |-> Resolved(outcomes, Addends(plan, k)[i])]
  PROVE  /\ FlattenSeq(Amounts(read)) \in Seq(MeasuredBy(S, Whence(plan, k)))
         /\ SharesOnlyItself(plan, k) => IsInjective(FlattenSeq(Amounts(read)))
<1> DEFINE addends == Addends(plan, k)
           N == Len(addends)
           U == [i \in 1 .. N |-> MeasuredBy(S, Whence(plan, addends[i].root))]
           each == [i \in DOMAIN read |-> read[i].amounts]
           V == MeasuredBy(S, Whence(plan, k))
<1>1. N \in Nat /\ DOMAIN addends = 1 .. N
  <2>1. Read(plan, k) = addends
    BY DEF Read
  <2> HIDE DEF addends
  <2> QED
    BY <2>1, ReadIs DEF Listing
<1>2. \A i \in 1 .. N : addends[i].root \in Sources(plan, k)
  BY <1>1, AddendsStand DEF Sources
<1> HIDE DEF addends, N
<1>3. DOMAIN read = 1 .. N /\ \A i \in 1 .. N : read[i] = Resolved(outcomes, addends[i])
  BY <1>1 DEF addends
<1>4. \A i \in 1 .. N : U[i] = MeasuredBy(S, Whence(plan, addends[i].root))
  OBVIOUS
<1> HIDE DEF U
<1>5. \A i \in 1 .. N : U[i] \subseteq S /\ U[i] \subseteq V
  <2> SUFFICES ASSUME NEW i \in 1 .. N
               PROVE  U[i] \subseteq S /\ U[i] \subseteq V
    OBVIOUS
  <2>1. Whence(plan, addends[i].root) \subseteq Whence(plan, k)
    BY <1>2, WhenceOfSource
  <2> QED
    BY <1>4, <2>1 DEF MeasuredBy
<1>6. \A i \in 1 .. N : ValueOf(U[i], read[i]) /\ (SharesOnlyItself(plan, k) => Apart(read[i].amounts))
  BY <1>2, <1>3, <1>4, ResolvedIsCounted
<1>7. each = [i \in 1 .. N |-> read[i].amounts] /\ Amounts(read) = FlattenSeq(each)
  BY <1>3 DEF Amounts
<1> HIDE DEF each
<1>8. each \in Seq(Seq(Seq(V))) /\ Len(each) = N
  <2>1. \A i \in 1 .. N : read[i].amounts \in Seq(Seq(V))
    <3> SUFFICES ASSUME NEW i \in 1 .. N
                 PROVE  read[i].amounts \in Seq(Seq(V))
      OBVIOUS
    <3>1. U[i] \subseteq V /\ read[i].amounts \in Seq(Seq(U[i]))
      BY <1>5, <1>6 DEF ValueOf
    <3> HIDE DEF V
    <3>2. Seq(U[i]) \subseteq Seq(V)
      BY <3>1
    <3>3. Seq(Seq(U[i])) \subseteq Seq(Seq(V))
      BY <3>2
    <3> QED
      BY <3>1, <3>3
  <2>2. each \in [1 .. N -> Seq(Seq(V))]
    BY Zenon, <1>7, <2>1
  <2> HIDE DEF V
  <2> QED
    BY <1>1, <2>2
<1>9. Amounts(read) \in Seq(Seq(V))
  <2> HIDE DEF V
  <2> QED
    BY <1>7, <1>8, FlattenIsSeq
<1>10. FlattenSeq(Amounts(read)) \in Seq(V)
  <2> HIDE DEF V
  <2> QED
    BY <1>9, FlattenIsSeq
<1>11. ASSUME SharesOnlyItself(plan, k)
       PROVE  IsInjective(FlattenSeq(Amounts(read)))
  <2>1. ASSUME NEW i \in 1 .. N, NEW j \in 1 .. N, i # j
        PROVE  U[i] \cap U[j] = {}
    <3>1. Whence(plan, addends[i].root) \cap Whence(plan, addends[j].root) = {}
      BY Zenon, <1>1, <1>11, <2>1, AddendsShareNothing DEF addends
    <3> QED
      BY <1>4, <3>1 DEF MeasuredBy
  <2>2. \A i \in 1 .. N : each[i] \in Seq(Seq(U[i])) /\ Apart(each[i])
    BY Zenon, <1>6, <1>7, <1>11 DEF ValueOf
  <2> HIDE DEF V
  <2>3. Apart(FlattenSeq(each))
    BY Zenon, <1>1, <1>5, <1>8, <2>1, <2>2, FlattenIsApart
  <2> QED
    BY <1>7, <1>9, <2>3, FlattenIsInjective
<1> QED
  BY <1>10, <1>11

\* The value of a step, counted over those of the steps before.
LEMMA OutcomeIsCounted ==
  ASSUME NEW plan, InOrder(plan), NEW k \in DOMAIN plan, OfAKind(plan, k),
         NEW S, NEW outcomes, CountedBefore(plan, S, outcomes, k),
         NEW stops, Len(stops) \in Nat, NEW failing,
         NEW v, v = Outcome(plan, k, outcomes, stops, failing)
  PROVE  \E more : Counted(plan, S \cup more, k, v)
<1> DEFINE step == plan[k]
           read == [i \in DOMAIN Read(plan, k) |-> Resolved(outcomes, Read(plan, k)[i])]
           origin == IF read = <<>> \/ (read # <<>> /\ LegsOf(read[1]) = <<>>) THEN stops[step.ends[1]]
                     ELSE LegsOf(read[1])[1].to
           leg == By(k, 1, RoutedPair(origin, stops[step.ends[2]], failing # {}))
           matrix == [i \in 1 .. Len(stops) * Len(stops) |-> By(k, i, DistanceMatrix(stops, stops, failing)[i])]
           cells == [i \in DOMAIN matrix |-> <<matrix[i]>>]
           Whole == \A i \in DOMAIN read : read[i].ok
           W == Whence(plan, k)
<1>0. k \in W
  BY DEF Whence
<1>1. ASSUME NEW T PROVE Counted(plan, T, k, Broken)
  BY BrokenIsValue DEF Counted, Broken, Apart
<1>2. CASE ~Whole
  <2>1. v = Broken
    BY <1>2 DEF Outcome
  <2> QED
    BY <2>1, <1>1
<1>3. CASE Whole /\ step.kind = "matrix"
  <2>1. v = Result(cells)
    BY <1>3 DEF Outcome
  <2> DEFINE more == {matrix[i] : i \in DOMAIN matrix}
             n == Len(stops) * Len(stops)
             V == MeasuredBy(S \cup more, W)
  <2>2. n \in Nat /\ DOMAIN matrix = 1 .. n
    OBVIOUS
  <2>3. \A i \in 1 .. n : matrix[i] \in more /\ matrix[i].by = k /\ matrix[i].item = i
    BY <2>2 DEF By
  <2> HIDE DEF n, matrix, more
  <2>4. \A i \in 1 .. n : matrix[i] \in V
    BY <1>0, <2>3 DEF MeasuredBy
  <2>5. DOMAIN cells = 1 .. n /\ \A i \in 1 .. n : cells[i] = <<matrix[i]>>
    BY <2>2
  <2> HIDE DEF V
  <2>6. cells \in [1 .. n -> Seq(V)]
    <3>1. \A i \in 1 .. n : <<matrix[i]>> \in Seq(V)
      BY <2>4
    <3> QED
      BY <2>2, <3>1
  <2> HIDE DEF cells
  <2>7. cells \in Seq(Seq(V))
    BY <2>2, <2>6, FilledIsSeq
  <2>8. Apart(cells)
    <3>1. \A i \in 1 .. n : IsInjective(cells[i]) /\ ToSet(cells[i]) = {matrix[i]}
      <4> SUFFICES ASSUME NEW i \in 1 .. n
                   PROVE  IsInjective(cells[i]) /\ ToSet(cells[i]) = {matrix[i]}
        BY Zenon
      <4>1. DOMAIN cells[i] = {1} /\ cells[i][1] = matrix[i]
        BY <2>5
      <4> QED
        BY <4>1 DEF IsInjective, ToSet
    <3>2. \A i, j \in 1 .. n : i # j => matrix[i] # matrix[j]
      BY <2>3
    <3> QED
      BY <2>5, <3>1, <3>2 DEF Apart
  <2>9. Counted(plan, S \cup more, k, v)
    <3>1. ValueOf(V, v) /\ v.amounts = cells
      BY <2>1, <2>7, ResultIsValue
    <3> QED
      BY <2>8, <3>1 DEF Counted, V
  <2> QED
    BY Zenon, <2>9
<1>4. CASE Whole /\ step.kind = "route"
  <2>1. v = IF leg.ok THEN Result(<<<<leg>>>>) ELSE Broken
    BY <1>4 DEF Outcome
  <2>2. leg.by = k
    BY DEF By
  <2> HIDE DEF leg
  <2> DEFINE V == MeasuredBy(S \cup {leg}, W)
  <2>3. leg \in V
    BY <1>0, <2>2 DEF MeasuredBy
  <2> HIDE DEF V
  <2>4. <<<<leg>>>> \in Seq(Seq(V))
    <3>1. <<leg>> \in Seq(V)
      BY <2>3
    <3> QED
      BY <3>1
  <2>5. Apart(<<<<leg>>>>)
    <3>1. DOMAIN <<<<leg>>>> = {1} /\ <<<<leg>>>>[1] = <<leg>> /\ DOMAIN <<leg>> = {1}
      OBVIOUS
    <3> QED
      BY <3>1 DEF Apart, IsInjective
  <2>6. ValueOf(V, Result(<<<<leg>>>>)) /\ Result(<<<<leg>>>>).amounts = <<<<leg>>>>
    BY Zenon, <2>4, ResultIsValue
  <2>7. Counted(plan, S \cup {leg}, k, Result(<<<<leg>>>>))
    BY <2>5, <2>6 DEF Counted, V
  <2> QED
    BY Zenon, <1>1, <2>1, <2>7
<1>5. CASE Whole /\ step.kind = "extract"
  <2>1. v = IF Measured(read[1]) THEN read[1] ELSE Broken
    BY <1>5 DEF Outcome
  <2> DEFINE ref == plan[k].reads[1]
  <2>2. read[1] = Resolved(outcomes, ref) /\ ref.root \in Sources(plan, k)
    <3>1. Read(plan, k) = plan[k].reads /\ plan[k].reads # <<>> /\ Listing(plan[k].reads)
      BY <1>5 DEF Read, InOrder, OfAKind
    <3>2. 1 \in DOMAIN Read(plan, k)
      BY <3>1 DEF Listing
    <3> QED
      BY <3>1, <3>2 DEF Sources
  <2> HIDE DEF read, ref
  <2>3. /\ ValueOf(MeasuredBy(S, Whence(plan, ref.root)), read[1])
        /\ SharesOnlyItself(plan, k) => Apart(read[1].amounts)
    BY <2>2, ResolvedIsCounted
  <2>4. MeasuredBy(S, Whence(plan, ref.root)) \subseteq MeasuredBy(S, W)
    <3>1. Whence(plan, ref.root) \subseteq W
      BY <2>2, WhenceOfSource
    <3> HIDE DEF W
    <3> QED
      BY <3>1 DEF MeasuredBy
  <2>5. Counted(plan, S, k, read[1])
    <3> DEFINE A == MeasuredBy(S, Whence(plan, ref.root))
               B == MeasuredBy(S, W)
    <3> HIDE DEF A, B
    <3>1. Seq(A) \subseteq Seq(B)
      BY <2>4 DEF A, B
    <3>2. Seq(Seq(A)) \subseteq Seq(Seq(B))
      BY <3>1
    <3>3. ValueOf(B, read[1])
      BY <2>3, <3>2 DEF ValueOf, A
    <3> QED
      BY <2>3, <3>3 DEF Counted, B
  <2>6. Counted(plan, S, k, v) /\ S = S \cup {}
    BY <1>1, <2>1, <2>5
  <2> QED
    BY Zenon, <2>6
<1>6. CASE Whole /\ step.kind = "sum"
  <2>1. v = IF Measured([amounts |-> Amounts(read)]) THEN Result(<<FlattenSeq(Amounts(read))>>) ELSE Broken
    BY <1>6 DEF Outcome
  <2> DEFINE all == FlattenSeq(Amounts(read))
             V == MeasuredBy(S, W)
  <2>2. all \in Seq(V) /\ (SharesOnlyItself(plan, k) => IsInjective(all))
    <3>1. Read(plan, k) = Addends(plan, k)
      BY <1>6 DEF Read
    <3>2. read = [i \in DOMAIN Addends(plan, k) |-> Resolved(outcomes, Addends(plan, k)[i])]
      BY <3>1
    <3> HIDE DEF read
    <3> QED
      BY <1>6, <3>2, TotalIsApart
  <2> HIDE DEF all, V
  <2>3. <<all>> \in Seq(Seq(V)) /\ DOMAIN <<all>> = {1} /\ <<all>>[1] = all
    BY <2>2
  <2>4. SharesOnlyItself(plan, k) => Apart(<<all>>)
    BY <2>2, <2>3 DEF Apart
  <2>5. ValueOf(V, Result(<<all>>)) /\ Result(<<all>>).amounts = <<all>>
    BY Zenon, <2>3, ResultIsValue
  <2>6. Counted(plan, S, k, Result(<<all>>)) /\ S = S \cup {}
    BY <2>4, <2>5 DEF Counted, V
  <2>7. Counted(plan, S, k, v)
    BY <1>1, <2>1, <2>6 DEF all
  <2> QED
    BY Zenon, <2>6, <2>7
<1> QED
  BY <1>2, <1>3, <1>4, <1>5, <1>6 DEF OfAKind

\* The steps run so far count nothing twice.
CountedSoFar(plan, outcomes) == \E S : \A k \in DOMAIN outcomes : Counted(plan, S, k, outcomes[k])
CountInv == PlanInv /\ (values # <<>> => CountedSoFar(task.steps, values))

LEMMA NextValueIsCounted ==
  ASSUME NEW plan, InOrder(plan),
         \A k \in DOMAIN plan : OfAKind(plan, k),
         NEW outcomes, Listing(outcomes), Len(outcomes) < Len(plan), CountedSoFar(plan, outcomes),
         NEW stops, Len(stops) \in Nat, NEW failing,
         NEW v, v = Outcome(plan, Len(outcomes) + 1, outcomes, stops, failing)
  PROVE  CountedSoFar(plan, Append(outcomes, v))
<1> DEFINE n == Len(outcomes)
           k == n + 1
           all == Append(outcomes, v)
<1>1. /\ n \in Nat /\ DOMAIN outcomes = 1 .. n /\ Len(plan) \in Nat /\ DOMAIN plan = 1 .. Len(plan)
      /\ outcomes \in Seq(ToSet(outcomes))
  BY DEF Listing, InOrder
<1>2. k \in DOMAIN plan /\ k - 1 = n
  BY <1>1
<1>3. DOMAIN all = (1 .. n) \cup {k} /\ all[k] = v /\ \A j \in 1 .. n : all[j] = outcomes[j]
  <2>1. outcomes \in Seq(ToSet(outcomes) \cup {v})
    BY <1>1
  <2> QED
    BY <1>1, <2>1, AppendAre
<1>4. PICK S : \A j \in 1 .. n : Counted(plan, S, j, outcomes[j])
  BY Zenon, <1>1 DEF CountedSoFar
<1>5. v = Outcome(plan, k, outcomes, stops, failing)
  OBVIOUS
<1> HIDE DEF n, k, all
<1>6. PICK more : Counted(plan, S \cup more, k, v)
  <2>1. OfAKind(plan, k) /\ CountedBefore(plan, S, outcomes, k)
    BY <1>2, <1>4 DEF CountedBefore
  <2> QED
    BY <1>2, <1>5, <2>1, OutcomeIsCounted
<1> DEFINE T == S \cup more
<1>7. ASSUME NEW j \in 1 .. n
      PROVE  Counted(plan, T, j, outcomes[j])
  <2> DEFINE A == MeasuredBy(S, Whence(plan, j))
             B == MeasuredBy(T, Whence(plan, j))
  <2>1. A \subseteq B
    BY DEF MeasuredBy
  <2>2. Counted(plan, S, j, outcomes[j])
    BY <1>4
  <2> HIDE DEF A, B, T
  <2>3. Seq(A) \subseteq Seq(B)
    BY <2>1
  <2>4. Seq(Seq(A)) \subseteq Seq(Seq(B))
    BY <2>3
  <2>5. ValueOf(A, outcomes[j]) /\ (SharesOnlyItself(plan, j) => Apart(outcomes[j].amounts))
    BY <2>2 DEF Counted, A
  <2>6. ValueOf(B, outcomes[j])
    BY <2>4, <2>5 DEF ValueOf
  <2> QED
    BY <2>5, <2>6 DEF Counted, B
<1>8. \A j \in DOMAIN all : Counted(plan, T, j, all[j])
  <2> HIDE DEF T
  <2>1. Counted(plan, T, k, v)
    BY <1>6 DEF T
  <2> QED
    BY <1>3, <1>7, <2>1
<1> QED
  BY Zenon, <1>8 DEF CountedSoFar, all

LEMMA CountStep ==
  ASSUME CountInv, [Next]_vars
  PROVE  CountInv'
<1>1. PlanInv'
  BY PlanStep DEF CountInv
<1>2. CASE RunStep
  <2>1. /\ task.about = "plan" /\ found # <<>> /\ task' = task /\ Len(values) < Len(task.steps)
        /\ \E failing : values' = Append(values, Outcome(task.steps, Len(values) + 1, values, Stops, failing))
    BY <1>2 DEF RunStep, About
  <2>2. PICK failing : values' = Append(values, Outcome(task.steps, Len(values) + 1, values, Stops, failing))
    BY <2>1
  <2>3. /\ InOrder(task.steps)
        /\ \A k \in DOMAIN task.steps : OfAKind(task.steps, k)
    BY <2>1, TaskIsInOrder DEF PlanInv, CountInv
  <2>4. Listing(values) /\ CountedSoFar(task.steps, values)
    <3>1. CASE values = <<>>
      <4>1. Listing(<<>>) /\ DOMAIN <<>> = {}
        BY DEF Listing
      <4> QED
        BY <3>1, <4>1 DEF CountedSoFar
    <3>2. CASE values # <<>>
      <4>1. RanSoFar(task.steps, values)
        BY <3>2 DEF CountInv, PlanInv
      <4>2. CountedSoFar(task.steps, values)
        BY <3>2 DEF CountInv
      <4> QED
        BY <4>1, <4>2 DEF RanSoFar
    <3> QED
      BY <3>1, <3>2
  <2>5. Len(Stops) \in Nat
    <3>1. Stops \in Lists
      BY <2>1, StopsAreRows DEF PlanInv, CountInv
    <3> QED
      BY <3>1 DEF Lists
  <2>6. CountedSoFar(task.steps, values')
    BY <2>1, <2>2, <2>3, <2>4, <2>5, NextValueIsCounted
  <2> QED
    BY <1>1, <2>1, <2>6 DEF CountInv
<1>3. CASE UNCHANGED <<task, values>>
  <2>1. values' # <<>> => CountedSoFar(task'.steps, values')
    BY <1>3 DEF CountInv
  <2> QED
    BY <1>1, <2>1 DEF CountInv
<1>4. Next => RunStep \/ UNCHANGED <<task, values>>
  BY Zenon DEF Next, Geocode, RouteStops, OrderStops, FollowLegs, TotalLegs, CompareGroups, MatchTrip,
         Select, Retrieve, Narrow, Recover, RouteCandidates, Rank, MatchChoice
<1> QED
  BY <1>2, <1>3, <1>4 DEF vars

\* For any plan in the order its steps run, a total counts no leg twice, as long as what the addends
\* of the totals behind it share is one of those addends (_drop_subsumed_addends).
THEOREM TotalsCountOnce == Spec => []CountedOnce
<1>1. Init => CountInv
  BY DEF Init, CountInv, PlanInv, Geocoded
<1>2. CountInv /\ [Next]_vars => CountInv'
  BY CountStep
<1>3. CountInv => CountedOnce
  <2> SUFFICES ASSUME CountInv, NEW k \in DOMAIN values, SharesOnlyItself(task.steps, k)
               PROVE  IsInjective(LegsOf(values[k]))
    BY DEF CountedOnce, SharesOnlyItself
  <2>1. values # <<>>
    OBVIOUS
  <2>2. PICK S : Counted(task.steps, S, k, values[k])
    BY <2>1 DEF CountInv, CountedSoFar
  <2>3. values[k].amounts \in Seq(Seq(MeasuredBy(S, Whence(task.steps, k)))) /\ Apart(values[k].amounts)
    BY <2>2 DEF Counted, ValueOf
  <2> QED
    BY <2>3, FlattenIsInjective DEF LegsOf
<1> QED
  BY <1>1, <1>2, <1>3, PTL DEF Spec

-----------------------------------------------------------------------------
\* Tours: the clock of a walk.

\* A finite set whose members can be told apart, and consistently, has a foremost one.
LEMMA Foremost ==
  ASSUME NEW S, IsFiniteSet(S), S # {}, NEW R,
         \A x, y \in S : x # y => <<x, y>> \in R \/ <<y, x>> \in R,
         \A x, y, z \in S : <<x, y>> \in R /\ <<y, z>> \in R => <<x, z>> \in R
  PROVE  \E x \in S : \A y \in S \ {x} : <<x, y>> \in R
<1>0. PICK n \in Nat : ExistsBijection(1 .. n, S)
  BY FS_NatBijection
<1>1. PICK f : f \in Bijection(1 .. n, S)
  BY <1>0 DEF ExistsBijection
<1>2. /\ f \in [1 .. n -> S]
      /\ \A y \in S : \E i \in 1 .. n : f[i] = y
      /\ \A i, j \in 1 .. n : f[i] = f[j] => i = j
  BY <1>1 DEF Bijection, Surjection, Injection, IsInjective
<1>3. n # 0
  <2>1. PICK y : y \in S
    OBVIOUS
  <2> QED
    BY <2>1, <1>2
<1> DEFINE Q == {p \in (1 .. n) \X (1 .. n) : <<f[p[1]], f[p[2]]>> \in R}
<1>4. \A i, j \in 1 .. n : <<i, j>> \in Q <=> <<f[i], f[j]>> \in R
  BY Zenon
<1>5. \A i, j \in 1 .. n : i # j => <<i, j>> \in Q \/ <<j, i>> \in Q
  <2> HIDE DEF Q
  <2> TAKE i, j \in 1 .. n
  <2>1. f[i] \in S /\ f[j] \in S /\ (i # j => f[i] # f[j])
    BY <1>2
  <2> QED
    BY Zenon, <1>4, <2>1
<1>6. \A i, j, k \in 1 .. n : <<i, j>> \in Q /\ <<j, k>> \in Q => <<i, k>> \in Q
  <2> HIDE DEF Q
  <2> TAKE i, j, k \in 1 .. n
  <2>1. f[i] \in S /\ f[j] \in S /\ f[k] \in S
    BY <1>2
  <2> QED
    BY Zenon, <1>4, <2>1
<1>7. PICK k \in 1 .. n : \A j \in (1 .. n) \ {k} : <<k, j>> \in Q
  <2> HIDE DEF Q
  <2> QED
    BY Zenon, <1>3, <1>5, <1>6, FirstOfAll
<1>8. ASSUME NEW y \in S \ {f[k]}
      PROVE  <<f[k], y>> \in R
  <2>1. PICK j \in 1 .. n : f[j] = y
    BY <1>2
  <2>2. j \in (1 .. n) \ {k}
    BY <2>1
  <2> HIDE DEF Q
  <2> QED
    BY Zenon, <2>1, <2>2, <1>4, <1>7
<1> QED
  BY Zenon, <1>2, <1>8

-----------------------------------------------------------------------------
\* Trips: when each stop of a route is served.

\* What tsp_tw accepts, over a matrix with nothing between a stop and itself.
Accepted(t) ==
  /\ t.n \in Nat \ {0}
  /\ t.start \in 1 .. t.n
  /\ t.leg \in [1 .. t.n -> [1 .. t.n -> Nat]]
  /\ \A i \in 1 .. t.n : t.leg[i][i] = 0
  /\ t.open \in [1 .. t.n -> Int] /\ t.close \in [1 .. t.n -> Int] /\ t.stay \in [1 .. t.n -> Int]
  /\ t.budget \in Int
  /\ t.end \in (0 .. t.n) \ {t.start}
  /\ t.end # 0 => ~t.fixed /\ ~t.loop

Legal(t, route) == route \in Seq(1 .. t.n) /\ route # <<>>

LEMMA LaterOf ==
  ASSUME NEW a \in Int, NEW b \in Int
  PROVE  Max({a, b}) = IF a >= b THEN a ELSE b
<1> DEFINE later == IF a >= b THEN a ELSE b
<1>1. later \in {a, b} /\ \A y \in {a, b} : later >= y
  OBVIOUS
<1>2. \A x \in {a, b} : (\A y \in {a, b} : x >= y) => x = later
  OBVIOUS
<1> HIDE DEF later
<1> QED
  BY <1>1, <1>2 DEF Max, later

LEMMA ServedIsInt ==
  ASSUME NEW t, Accepted(t), NEW i \in 1 .. t.n, NEW at \in Int
  PROVE  /\ Served(t, i, at) \in Int
         /\ Max({at, t.open[i]}) \in Int
         /\ Served(t, i, at) - t.stay[i] = Max({at, t.open[i]})
<1>1. t.open[i] \in Int /\ t.stay[i] \in Int
  BY Zenon DEF Accepted
<1>2. Max({at, t.open[i]}) \in Int
  BY <1>1, LaterOf
<1> QED
  BY <1>1, <1>2 DEF Served

LEMMA LegIsNat ==
  ASSUME NEW t, Accepted(t), NEW i \in 1 .. t.n, NEW j \in 1 .. t.n
  PROVE  t.leg[i][j] \in Nat
BY Zenon DEF Accepted

\* The clock of a route, and that it runs.
Clock(t, route, at) ==
  at = [k \in 1 .. Len(route) |->
          Served(t, route[k], IF k = 1 THEN 0 ELSE at[k - 1] + t.leg[route[k - 1]][route[k]])]

LEMMA ClockRuns ==
  ASSUME NEW t, Accepted(t), NEW route, Legal(t, route)
  PROVE  /\ Clock(t, route, ServedAt(t, route))
         /\ ServedAt(t, route) \in [1 .. Len(route) -> Int]
<1>1. Len(route) \in Nat /\ \A k \in 1 .. Len(route) : route[k] \in 1 .. t.n
  <2> DEFINE S == 1 .. t.n
  <2>1. route \in Seq(S)
    BY DEF Legal
  <2> HIDE DEF S
  <2>2. Len(route) \in Nat /\ \A k \in 1 .. Len(route) : route[k] \in S
    BY <2>1
  <2> QED
    BY <2>2 DEF S
<1> DEFINE N == Len(route)
           Drive(k, x) == IF k = 1 THEN 0 ELSE x + t.leg[route[k - 1]][route[k]]
           turn == [k \in 1 .. N |-> [x \in Int |-> Served(t, route[k], Drive(k, x))]]
<1>2. ASSUME NEW k \in 1 .. N, NEW x \in Int
      PROVE  Drive(k, x) \in Int /\ Served(t, route[k], Drive(k, x)) \in Int
  <2>1. Drive(k, x) \in Int
    <3>1. CASE k = 1
      BY <3>1
    <3>2. CASE k # 1
      <4>1. k - 1 \in 1 .. N /\ route[k - 1] \in 1 .. t.n /\ route[k] \in 1 .. t.n
        BY <1>1, <3>2
      <4>2. t.leg[route[k - 1]][route[k]] \in Nat
        BY <4>1, LegIsNat
      <4> QED
        BY <3>2, <4>2
    <3> QED
      BY <3>1, <3>2
  <2> HIDE DEF Drive
  <2>2. route[k] \in 1 .. t.n
    BY <1>1
  <2> QED
    BY Zenon, <2>1, <2>2, ServedIsInt
<1>3. Turns(N, Int, turn)
  BY Zenon, <1>2 DEF Turns
<1>4. PICK run : Run(N, Int, 0, turn, run)
  <2> HIDE DEF turn
  <2> QED
    BY <1>1, <1>3, LoopRuns
<1> DEFINE clock == [k \in 1 .. N |-> run[k]]
<1>5. run \in [0 .. N -> Int] /\ \A k \in 1 .. N : run[k] = turn[k][run[k - 1]]
  BY <1>4 DEF Run
<1>6. ASSUME NEW k \in 1 .. N
      PROVE  clock[k] = Served(t, route[k], IF k = 1 THEN 0 ELSE clock[k - 1] + t.leg[route[k - 1]][route[k]])
  <2>1. k - 1 \in 0 .. N /\ run[k - 1] \in Int
    BY <1>5
  <2>2. turn[k][run[k - 1]] = Served(t, route[k], Drive(k, run[k - 1]))
    BY <2>1
  <2>3. k # 1 => k - 1 \in 1 .. N
    OBVIOUS
  <2>4. run[k] = Served(t, route[k], Drive(k, run[k - 1]))
    BY Zenon, <1>5, <2>2
  <2>5. Drive(k, run[k - 1]) = IF k = 1 THEN 0 ELSE clock[k - 1] + t.leg[route[k - 1]][route[k]]
    BY <2>3
  <2> HIDE DEF Drive
  <2> QED
    BY <2>4, <2>5
<1>7. Clock(t, route, clock)
  <2> HIDE DEF clock
  <2>1. clock = [k \in 1 .. N |-> clock[k]]
    BY DEF clock
  <2> QED
    BY Zenon, <1>6, <2>1 DEF Clock
<1>8. PICK at : at = CHOOSE f : Clock(t, route, f)
  OBVIOUS
<1>9. Clock(t, route, at)
  BY <1>7, <1>8
<1>10. ServedAt(t, route) = at
  BY <1>8 DEF ServedAt, Clock
<1>11. at \in [1 .. N -> Int]
  <2> DEFINE T == {m \in 0 .. N : \A k \in 1 .. m : at[k] \in Int}
  <2>1. 0 \in T
    OBVIOUS
  <2>2. ASSUME NEW m \in 0 .. N - 1, m \in T
        PROVE  m + 1 \in T
    <3>1. m + 1 \in 1 .. N /\ (m + 1 # 1 => m \in 1 .. N /\ at[m] \in Int)
      BY <2>2
    <3>2. at[m + 1] = Served(t, route[m + 1], Drive(m + 1, at[m]))
      <4>1. (m + 1) - 1 = m
        OBVIOUS
      <4> QED
        BY <1>9, <3>1, <4>1 DEF Clock
    <3>3. at[m + 1] \in Int
      <4>1. CASE m = 0
        <5>1. Drive(m + 1, at[m]) = Drive(m + 1, 0)
          BY <4>1
        <5> HIDE DEF Drive
        <5> QED
          BY <1>2, <3>1, <3>2, <5>1
      <4>2. CASE m # 0
        <5>1. m + 1 \in 1 .. N /\ at[m] \in Int
          BY <3>1, <4>2
        <5> HIDE DEF Drive
        <5> QED
          BY Zenon, <1>2, <3>2, <5>1
      <4> QED
        BY <4>1, <4>2
    <3>4. \A k \in 1 .. m + 1 : k = m + 1 \/ k \in 1 .. m
      OBVIOUS
    <3> QED
      BY <2>2, <3>1, <3>3, <3>4
  <2>3. 0 .. N \subseteq T
    <3>1. T \in SUBSET Nat
      OBVIOUS
    <3> HIDE DEF T
    <3> QED
      BY Zenon, <1>1, <2>1, <2>2, <3>1, UpTo
  <2>4. \A k \in 1 .. N : at[k] \in Int
    BY <1>1, <2>3
  <2> QED
    BY <1>9, <2>4 DEF Clock
<1> QED
  BY <1>9, <1>10, <1>11

\* Where two trips tell the same times and two routes are the same, so are their clocks.
LEMMA ClocksAgree ==
  ASSUME NEW t, Accepted(t), NEW u, Accepted(u),
         u.n = t.n, u.leg = t.leg, u.open = t.open, u.stay = t.stay,
         NEW r, Legal(t, r), NEW q, Legal(u, q),
         NEW N \in Nat, N <= Len(r), N <= Len(q), \A k \in 1 .. N : r[k] = q[k]
  PROVE  \A k \in 1 .. N : ServedAt(t, r)[k] = ServedAt(u, q)[k]
<1>1. Clock(t, r, ServedAt(t, r)) /\ Clock(u, q, ServedAt(u, q))
  BY ClockRuns
<1>2. Len(r) \in Nat /\ Len(q) \in Nat
  BY DEF Legal
<1> DEFINE T == {m \in 0 .. N : \A k \in 1 .. m : ServedAt(t, r)[k] = ServedAt(u, q)[k]}
<1>3. 0 \in T
  OBVIOUS
<1>4. ASSUME NEW m \in 0 .. N - 1, m \in T
      PROVE  m + 1 \in T
  <2>1. m + 1 \in 1 .. Len(r) /\ m + 1 \in 1 .. Len(q) /\ (m + 1) - 1 = m
    BY <1>2
  <2>2. m + 1 # 1 => m \in 1 .. N /\ ServedAt(t, r)[m] = ServedAt(u, q)[m] /\ r[m] = q[m]
    BY <1>4
  <2>3. r[m + 1] = q[m + 1] /\ m + 1 \in 0 .. N
    OBVIOUS
  <2>4. /\ ServedAt(t, r)[m + 1]
             = Served(t, r[m + 1], IF m + 1 = 1 THEN 0 ELSE ServedAt(t, r)[m] + t.leg[r[m]][r[m + 1]])
        /\ ServedAt(u, q)[m + 1]
             = Served(u, q[m + 1], IF m + 1 = 1 THEN 0 ELSE ServedAt(u, q)[m] + u.leg[q[m]][q[m + 1]])
    BY <1>1, <2>1 DEF Clock
  <2>5. \A i, x : Served(t, i, x) = Served(u, i, x)
    BY DEF Served
  <2>6. ServedAt(t, r)[m + 1] = ServedAt(u, q)[m + 1]
    <3>1. CASE m = 0
      BY <2>3, <2>4, <2>5, <3>1
    <3>2. CASE m # 0
      <4>1. m + 1 # 1
        BY <3>2
      <4> QED
        BY <2>2, <2>3, <2>4, <2>5, <4>1
    <3> QED
      BY <3>1, <3>2
  <2>7. \A k \in 1 .. m + 1 : k = m + 1 \/ k \in 1 .. m
    OBVIOUS
  <2> QED
    BY <1>4, <2>3, <2>6, <2>7
<1>5. N \in T
  <2>1. T \in SUBSET Nat /\ N \in 0 .. N
    OBVIOUS
  <2> HIDE DEF T
  <2>2. 0 .. N \subseteq T
    BY Zenon, <1>3, <1>4, <2>1, UpTo
  <2> QED
    BY <2>1, <2>2
<1> QED
  BY <1>5

\* A stop added to a route changes nothing before it.
LEMMA ClockGoesOn ==
  ASSUME NEW t, Accepted(t), NEW route, Legal(t, route), NEW i \in 1 .. t.n
  PROVE  /\ Legal(t, Append(route, i))
         /\ \A k \in 1 .. Len(route) : ServedAt(t, Append(route, i))[k] = ServedAt(t, route)[k]
         /\ ServedAt(t, Append(route, i))[Len(route) + 1]
              = Served(t, i, ServedAt(t, route)[Len(route)] + t.leg[Last(route)][i])
<1> DEFINE more == Append(route, i)
           N == Len(route)
<1>1. /\ N \in Nat \ {0} /\ Len(more) = N + 1
      /\ \A k \in 1 .. N : more[k] = route[k]
      /\ more[N + 1] = i /\ Legal(t, more)
  BY DEF Legal
<1> HIDE DEF more
<1>2. Clock(t, more, ServedAt(t, more))
  BY <1>1, ClockRuns
<1>3. \A k \in 1 .. N : ServedAt(t, more)[k] = ServedAt(t, route)[k]
  BY <1>1, ClocksAgree
<1>4. ServedAt(t, more)[N + 1] = Served(t, i, ServedAt(t, route)[N] + t.leg[Last(route)][i])
  <2>1. N + 1 \in 1 .. Len(more) /\ N + 1 # 1 /\ (N + 1) - 1 = N /\ N \in 1 .. N
    BY <1>1
  <2>2. ServedAt(t, more)[N + 1] = Served(t, more[N + 1], ServedAt(t, more)[N] + t.leg[more[N]][more[N + 1]])
    BY Zenon, <1>2, <2>1 DEF Clock
  <2>3. ServedAt(t, more)[N] = ServedAt(t, route)[N] /\ more[N] = Last(route) /\ more[N + 1] = i
    BY <1>1, <1>3, <2>1 DEF Last
  <2> QED
    BY <2>2, <2>3
<1> QED
  BY <1>1, <1>3, <1>4 DEF more

-----------------------------------------------------------------------------
\* Tours: walks that reach every stop in time.

\* A walk whose clock is that of its order, in the windows and, with the way home, in the budget.
Walks(t) == [order : {r \in Seq(1 .. t.n) : r # <<>>}, at : Int]
InTime(t, route) ==
  \A k \in 2 .. Len(route) :
    /\ ServedAt(t, route)[k] - t.stay[route[k]] <= t.close[route[k]]
    /\ ServedAt(t, route)[k] + Home(t, route[k]) <= t.budget
Sound(t, walk) ==
  /\ walk.order[1] = t.start
  /\ walk.at = ServedAt(t, walk.order)[Len(walk.order)]
  /\ InTime(t, walk.order)

LEMMA WalkIsLegal ==
  ASSUME NEW t, NEW walk \in Walks(t)
  PROVE  /\ Legal(t, walk.order) /\ walk.at \in Int
         /\ Len(walk.order) \in Nat \ {0} /\ Last(walk.order) \in 1 .. t.n
         /\ \A k \in 1 .. Len(walk.order) : walk.order[k] \in 1 .. t.n
<1> DEFINE S == 1 .. t.n
<1>1. walk.order \in Seq(S) /\ walk.order # <<>> /\ walk.at \in Int
  BY DEF Walks
<1>2. Legal(t, walk.order)
  BY <1>1 DEF Legal
<1> HIDE DEF S
<1>3. Len(walk.order) \in Nat \ {0} /\ \A k \in 1 .. Len(walk.order) : walk.order[k] \in S
  BY <1>1
<1>4. Last(walk.order) \in S
  BY <1>3 DEF Last
<1> QED
  BY <1>1, <1>2, <1>3, <1>4 DEF S

LEMMA WalkStarts ==
  ASSUME NEW t, Accepted(t), t.open[t.start] = 0, NEW at, at = t.stay[t.start]
  PROVE  /\ [order |-> <<t.start>>, at |-> at] \in Walks(t)
         /\ Sound(t, [order |-> <<t.start>>, at |-> at])
<1>1. t.start \in 1 .. t.n /\ t.stay[t.start] \in Int
  BY DEF Accepted
<1>2. Legal(t, <<t.start>>)
  <2> DEFINE S == 1 .. t.n
  <2>1. t.start \in S
    BY <1>1
  <2> HIDE DEF S
  <2>2. <<t.start>> \in Seq(S) /\ <<t.start>> # <<>>
    BY <2>1
  <2> QED
    BY <2>2 DEF Legal, S
<1>3. ServedAt(t, <<t.start>>)[1] = Served(t, t.start, 0)
  <2>1. Clock(t, <<t.start>>, ServedAt(t, <<t.start>>))
    BY <1>2, ClockRuns
  <2>2. Len(<<t.start>>) = 1 /\ <<t.start>>[1] = t.start
    OBVIOUS
  <2> QED
    BY <2>1, <2>2 DEF Clock
<1>4. Served(t, t.start, 0) = t.stay[t.start]
  BY <1>1, LaterOf DEF Served
<1>5. Len(<<t.start>>) = 1
  OBVIOUS
<1>6. Sound(t, [order |-> <<t.start>>, at |-> at])
  BY <1>3, <1>4, <1>5 DEF Sound, InTime
<1>7. [order |-> <<t.start>>, at |-> at] \in Walks(t)
  BY <1>1, <1>2 DEF Walks, Legal
<1> QED
  BY <1>6, <1>7

LEMMA HomeIsNat ==
  ASSUME NEW t, Accepted(t), NEW i \in 1 .. t.n
  PROVE  Home(t, i) \in Nat
<1>1. t.start \in 1 .. t.n
  BY DEF Accepted
<1>2. t.leg[i][t.start] \in Nat
  BY <1>1, LegIsNat
<1> QED
  BY <1>2 DEF Home

LEMMA WalkExtends ==
  ASSUME NEW t, Accepted(t), NEW walk \in Walks(t), NEW i \in 1 .. t.n
  PROVE  Extended(t, walk, i) \in Walks(t)
<1>1. Legal(t, walk.order) /\ walk.at \in Int /\ Last(walk.order) \in 1 .. t.n
  BY WalkIsLegal
<1>2. t.leg[Last(walk.order)][i] \in Nat
  BY <1>1, LegIsNat
<1>3. Served(t, i, walk.at + t.leg[Last(walk.order)][i]) \in Int
  <2>1. walk.at + t.leg[Last(walk.order)][i] \in Int
    BY <1>1, <1>2
  <2> QED
    BY Zenon, <2>1, ServedIsInt
<1>4. Legal(t, Append(walk.order, i))
  BY <1>1, ClockGoesOn
<1> QED
  BY <1>3, <1>4 DEF Extended, Walks, Legal

\* A stop that is reached in time leaves a sound walk sound.
LEMMA ReachedIsSound ==
  ASSUME NEW t, Accepted(t), NEW walk \in Walks(t), Sound(t, walk),
         NEW i \in 1 .. t.n, Reaches(t, walk, i)
  PROVE  Sound(t, Extended(t, walk, i))
<1> DEFINE N == Len(walk.order)
           more == Append(walk.order, i)
           arrival == walk.at + t.leg[Last(walk.order)][i]
<1>1. /\ Legal(t, walk.order) /\ walk.at \in Int /\ N \in Nat \ {0} /\ Last(walk.order) \in 1 .. t.n
      /\ \A k \in 1 .. N : walk.order[k] \in 1 .. t.n
  BY WalkIsLegal
<1>2. arrival \in Int
  <2>1. t.leg[Last(walk.order)][i] \in Nat
    BY <1>1, LegIsNat
  <2> QED
    BY <1>1, <2>1
<1>3. /\ \A k \in 1 .. N : ServedAt(t, more)[k] = ServedAt(t, walk.order)[k]
      /\ ServedAt(t, more)[N + 1] = Served(t, i, arrival)
  <2>1. walk.at = ServedAt(t, walk.order)[N]
    BY DEF Sound
  <2>2. PICK route : route = walk.order
    OBVIOUS
  <2>3. Legal(t, route)
    BY <1>1, <2>2
  <2>4. /\ \A k \in 1 .. Len(route) : ServedAt(t, Append(route, i))[k] = ServedAt(t, route)[k]
        /\ ServedAt(t, Append(route, i))[Len(route) + 1]
             = Served(t, i, ServedAt(t, route)[Len(route)] + t.leg[Last(route)][i])
    BY <2>3, ClockGoesOn
  <2> QED
    BY <2>1, <2>2, <2>4
<1>4. /\ Len(more) = N + 1 /\ more[N + 1] = i /\ \A k \in 1 .. N : more[k] = walk.order[k]
  <2> DEFINE S == 1 .. t.n
  <2>1. walk.order \in Seq(S) /\ i \in S
    BY <1>1 DEF Legal
  <2> HIDE DEF S
  <2> QED
    BY <2>1
<1> HIDE DEF more
<1>5. ASSUME NEW k \in 2 .. N + 1
      PROVE  /\ ServedAt(t, more)[k] - t.stay[more[k]] <= t.close[more[k]]
             /\ ServedAt(t, more)[k] + Home(t, more[k]) <= t.budget
  <2>1. CASE k = N + 1
    <3>1. Served(t, i, arrival) - t.stay[i] = Max({arrival, t.open[i]})
      BY <1>2, ServedIsInt
    <3>2. Max({arrival, t.open[i]}) <= t.close[i] /\ Served(t, i, arrival) + Home(t, i) <= t.budget
      BY DEF Reaches
    <3>3. ServedAt(t, more)[k] = Served(t, i, arrival) /\ more[k] = i
      BY <1>3, <1>4, <2>1
    <3> HIDE DEF arrival
    <3> QED
      BY <3>1, <3>2, <3>3
  <2>2. CASE k # N + 1
    <3>1. k \in 2 .. N /\ k \in 1 .. N
      BY <1>1, <2>2
    <3> QED
      BY Zenon, <1>3, <1>4, <3>1 DEF Sound, InTime
  <2> QED
    BY <2>1, <2>2
<1>6. InTime(t, more)
  BY <1>4, <1>5 DEF InTime
<1>7. more[1] = t.start
  BY <1>1, <1>4 DEF Sound
<1>8. Served(t, i, arrival) = ServedAt(t, more)[Len(more)]
  BY <1>3, <1>4
<1> QED
  BY <1>6, <1>7, <1>8 DEF Sound, Extended, more

-----------------------------------------------------------------------------
\* The nearest-first walk.

Open(t, walk) == {i \in Errands(t) \ ToSet(walk.order) : Reaches(t, walk, i)}
NearestOpen(t, walk) ==
  CHOOSE i \in Open(t, walk) : \A j \in Open(t, walk) :
    \/ t.leg[Last(walk.order)][i] < t.leg[Last(walk.order)][j]
    \/ t.leg[Last(walk.order)][i] = t.leg[Last(walk.order)][j] /\ i <= j

LEMMA NearestIsOpen ==
  ASSUME NEW t, Accepted(t), NEW walk \in Walks(t), Open(t, walk) # {}
  PROVE  NearestOpen(t, walk) \in Open(t, walk)
<1> DEFINE S == Open(t, walk)
           here == Last(walk.order)
           Precedes(i, j) == t.leg[here][i] < t.leg[here][j] \/ (t.leg[here][i] = t.leg[here][j] /\ i <= j)
           R == {p \in S \X S : Precedes(p[1], p[2])}
<1>1. S \subseteq 1 .. t.n /\ t.n \in Nat /\ here \in 1 .. t.n
  BY WalkIsLegal DEF Open, Errands, Accepted
<1>2. IsFiniteSet(S)
  BY Zenon, <1>1, PositionsAreFinite
<1>3. \A i \in S : t.leg[here][i] \in Nat /\ i \in Nat
  BY <1>1, LegIsNat
<1>4. \A i, j \in S : <<i, j>> \in R <=> Precedes(i, j)
  OBVIOUS
<1>5. \A i, j \in S : i # j => <<i, j>> \in R \/ <<j, i>> \in R
  <2> HIDE DEF R, S, here
  <2> QED
    BY <1>3, <1>4
<1>6. \A i, j, k \in S : <<i, j>> \in R /\ <<j, k>> \in R => <<i, k>> \in R
  <2> HIDE DEF R, S, here
  <2> QED
    BY <1>3, <1>4
<1>7. PICK i \in S : \A j \in S \ {i} : <<i, j>> \in R
  <2> HIDE DEF R, S
  <2>1. S # {}
    BY DEF S
  <2> QED
    BY <1>2, <1>5, <1>6, <2>1, Foremost
<1>8. \A j \in S : Precedes(i, j)
  <2> HIDE DEF R, S, here
  <2> TAKE j \in S
  <2>1. CASE j = i
    BY <1>3, <2>1
  <2>2. CASE j # i
    <3>1. <<i, j>> \in R
      BY <1>7, <2>2
    <3> HIDE DEF Precedes
    <3> QED
      BY <1>4, <3>1
  <2> QED
    BY <2>1, <2>2
<1> QED
  BY <1>8 DEF NearestOpen

LEMMA GreedyIsSound ==
  ASSUME NEW t, Accepted(t), t.open[t.start] = 0
  PROVE  Greedy(t) \in Walks(t) /\ Sound(t, Greedy(t))
<1> DEFINE first == [order |-> <<t.start>>, at |-> t.stay[t.start]]
           Onward(walk) == IF Open(t, walk) = {} THEN walk ELSE Extended(t, walk, NearestOpen(t, walk))
           D == {walk \in Walks(t) : Sound(t, walk)}
           turn == [k \in 1 .. t.n |-> [walk \in D |-> Onward(walk)]]
           Loop(after) == after = [k \in 0 .. t.n |-> IF k = 0 THEN first ELSE Onward(after[k - 1])]
<1>1. t.n \in Nat
  BY DEF Accepted
<1>2. first \in D
  BY WalkStarts
<1>3. ASSUME NEW walk \in D
      PROVE  Onward(walk) \in D
  <2>1. CASE Open(t, walk) = {}
    BY <2>1
  <2>2. CASE Open(t, walk) # {}
    <3>1. walk \in Walks(t) /\ Sound(t, walk)
      OBVIOUS
    <3>2. NearestOpen(t, walk) \in Open(t, walk)
      BY <2>2, <3>1, NearestIsOpen
    <3>3. NearestOpen(t, walk) \in 1 .. t.n /\ Reaches(t, walk, NearestOpen(t, walk))
      BY <3>2 DEF Open, Errands
    <3>4. Extended(t, walk, NearestOpen(t, walk)) \in Walks(t) /\ Sound(t, Extended(t, walk, NearestOpen(t, walk)))
      BY <3>1, <3>3, WalkExtends, ReachedIsSound
    <3> QED
      BY <2>2, <3>4
  <2> QED
    BY <2>1, <2>2
<1> HIDE DEF D, first, Onward
<1>4. Turns(t.n, D, turn)
  BY <1>3 DEF Turns
<1>5. PICK run : Run(t.n, D, first, turn, run)
  <2> HIDE DEF turn
  <2> QED
    BY <1>1, <1>2, <1>4, LoopRuns
<1>6. run \in [0 .. t.n -> D] /\ run[0] = first /\ \A k \in 1 .. t.n : run[k] = Onward(run[k - 1])
  <2>1. run \in [0 .. t.n -> D] /\ run[0] = first /\ \A k \in 1 .. t.n : run[k] = turn[k][run[k - 1]]
    BY Zenon, <1>5 DEF Run
  <2>2. \A k \in 1 .. t.n : run[k - 1] \in D
    BY <1>1, <2>1
  <2> QED
    BY Zenon, <2>1, <2>2
<1>7. Loop(run)
  <2>1. \A k \in 0 .. t.n : run[k] = IF k = 0 THEN first ELSE Onward(run[k - 1])
    BY <1>1, <1>6
  <2> QED
    BY <1>6, <2>1
<1>8. PICK after : after = CHOOSE f : Loop(f)
  OBVIOUS
<1>9. Loop(after)
  BY Zenon, <1>7, <1>8
<1>10. Greedy(t) = after[t.n]
  BY <1>8 DEF Greedy, first, Onward, Open, NearestOpen
<1> DEFINE T == {m \in 0 .. t.n : after[m] \in D}
<1>11. t.n \in T
  <2>1. 0 \in T
    BY <1>1, <1>2, <1>9
  <2>2. ASSUME NEW m \in 0 .. t.n - 1, m \in T
        PROVE  m + 1 \in T
    <3>1. m + 1 \in 0 .. t.n /\ m + 1 # 0 /\ (m + 1) - 1 = m
      BY <1>1
    <3>2. after[m + 1] = Onward(after[m])
      BY Zenon, <1>9, <3>1
    <3> QED
      BY <1>3, <2>2, <3>1, <3>2
  <2>3. T \in SUBSET Nat /\ t.n \in 0 .. t.n
    BY <1>1
  <2> HIDE DEF T
  <2>4. 0 .. t.n \subseteq T
    BY <1>1, <2>1, <2>2, <2>3, UpTo
  <2> QED
    BY <2>3, <2>4
<1> QED
  BY <1>10, <1>11 DEF D

-----------------------------------------------------------------------------
\* Tours: the stated order.

\* The stated order, which visits nothing twice.
Once(route) == \A i, j \in 1 .. Len(route) : route[i] = route[j] => i = j
Stated(t, walk, k) ==
  /\ Sound(t, walk)
  /\ Once(walk.order)
  /\ \A i \in 1 .. Len(walk.order) : walk.order[i] \in {t.start} \cup 1 .. k

LEMMA NextStated ==
  ASSUME NEW t, Accepted(t), NEW k \in 1 .. t.n, NEW walk \in Walks(t), Stated(t, walk, k - 1),
         k # t.start, Reaches(t, walk, k)
  PROVE  Stated(t, Extended(t, walk, k), k)
<1> DEFINE N == Len(walk.order)
           more == Append(walk.order, k)
<1>1. N \in Nat /\ Len(more) = N + 1 /\ more[N + 1] = k /\ \A i \in 1 .. N : more[i] = walk.order[i]
  <2> DEFINE S == 1 .. t.n
  <2>1. walk.order \in Seq(S) /\ k \in S
    BY WalkIsLegal DEF Legal
  <2> HIDE DEF S
  <2> QED
    BY <2>1
<1> HIDE DEF more
<1>2. Sound(t, Extended(t, walk, k))
  BY ReachedIsSound DEF Stated
<1>3. t.n \in Nat /\ t.start \in 1 .. t.n
  BY DEF Accepted
<1>4. \A i \in 1 .. N : more[i] \in {t.start} \cup 1 .. k - 1 /\ more[i] # k
  BY <1>1, <1>3 DEF Stated
<1>5. ASSUME NEW i \in 1 .. N + 1, NEW j \in 1 .. N + 1, more[i] = more[j]
      PROVE  i = j
  <2>1. CASE i \in 1 .. N /\ j \in 1 .. N
    BY <1>1, <1>5, <2>1 DEF Stated, Once
  <2>2. CASE i = N + 1 /\ j \in 1 .. N
    BY <1>1, <1>4, <1>5, <2>2
  <2>3. CASE j = N + 1 /\ i \in 1 .. N
    BY <1>1, <1>4, <1>5, <2>3
  <2> QED
    BY <1>1, <2>1, <2>2, <2>3
<1>6. ASSUME NEW i \in 1 .. N + 1
      PROVE  more[i] \in {t.start} \cup 1 .. k
  <2>1. CASE i \in 1 .. N
    BY <1>3, <1>4, <2>1
  <2>2. CASE i = N + 1
    BY <1>1, <2>2
  <2> QED
    BY <1>1, <2>1, <2>2
<1>7. Extended(t, walk, k).order = more
  BY DEF Extended, more
<1> QED
  BY <1>1, <1>2, <1>5, <1>6, <1>7 DEF Stated, Once

LEMMA WalkIsStated ==
  ASSUME NEW t, Accepted(t), t.open[t.start] = 0, t.stay[t.start] = 0
  PROVE  Walk(t) \in Walks(t) /\ Stated(t, Walk(t), t.n)
<1> DEFINE first == [order |-> <<t.start>>, at |-> 0]
           Goes(walk, k) == k # t.start /\ (1 .. k - 1) \subseteq ToSet(walk.order) /\ Reaches(t, walk, k)
           Onward(walk, k) == IF Goes(walk, k) THEN Extended(t, walk, k) ELSE walk
           D == Walks(t)
           turn == [k \in 1 .. t.n |-> [walk \in D |-> Onward(walk, k)]]
           Loop(after) == after = [k \in 0 .. t.n |-> IF k = 0 THEN first ELSE Onward(after[k - 1], k)]
<1>1. t.n \in Nat /\ t.start \in 1 .. t.n
  BY DEF Accepted
<1>2. first \in D /\ Sound(t, first)
  BY WalkStarts
<1>3. ASSUME NEW k \in 1 .. t.n, NEW walk \in D
      PROVE  Onward(walk, k) \in D
  <2> HIDE DEF Goes
  <2> QED
    BY WalkExtends
<1>4. Stated(t, first, 0)
  <2>1. Len(first.order) = 1 /\ first.order[1] = t.start
    OBVIOUS
  <2> HIDE DEF first
  <2> QED
    BY <1>2, <2>1 DEF Stated, Once
<1>5. ASSUME NEW k \in 1 .. t.n, NEW walk \in D, Stated(t, walk, k - 1)
      PROVE  Stated(t, Onward(walk, k), k)
  <2>1. CASE Goes(walk, k)
    BY <1>5, <2>1, NextStated
  <2>2. CASE ~Goes(walk, k)
    <3>1. Onward(walk, k) = walk
      BY <2>2
    <3>2. {t.start} \cup 1 .. k - 1 \subseteq {t.start} \cup 1 .. k
      BY <1>1
    <3> HIDE DEF Onward
    <3> QED
      BY <1>5, <3>1, <3>2 DEF Stated
  <2> QED
    BY <2>1, <2>2
<1> HIDE DEF D, first, Onward
<1>6. Turns(t.n, D, turn)
  BY <1>3 DEF Turns
<1>7. PICK run : Run(t.n, D, first, turn, run)
  <2> HIDE DEF turn
  <2> QED
    BY <1>1, <1>2, <1>6, LoopRuns
<1>8. run \in [0 .. t.n -> D] /\ run[0] = first /\ \A k \in 1 .. t.n : run[k] = Onward(run[k - 1], k)
  <2>1. run \in [0 .. t.n -> D] /\ run[0] = first /\ \A k \in 1 .. t.n : run[k] = turn[k][run[k - 1]]
    BY Zenon, <1>7 DEF Run
  <2>2. \A k \in 1 .. t.n : run[k - 1] \in D
    BY <1>1, <2>1
  <2> QED
    BY Zenon, <2>1, <2>2
<1>9. Loop(run)
  <2>1. \A k \in 0 .. t.n : run[k] = IF k = 0 THEN first ELSE Onward(run[k - 1], k)
    BY <1>1, <1>8
  <2> QED
    BY <1>8, <2>1
<1>10. PICK after : after = CHOOSE f : Loop(f)
  OBVIOUS
<1>11. Loop(after)
  BY Zenon, <1>9, <1>10
<1>12. Walk(t) = after[t.n]
  BY <1>10 DEF Walk, first, Onward
<1> DEFINE T == {m \in 0 .. t.n : after[m] \in D /\ Stated(t, after[m], m)}
<1>13. t.n \in T
  <2>1. 0 \in T
    BY <1>1, <1>2, <1>4, <1>11
  <2>2. ASSUME NEW m \in 0 .. t.n - 1, m \in T
        PROVE  m + 1 \in T
    <3>1. m + 1 \in 1 .. t.n /\ m + 1 \in 0 .. t.n /\ m + 1 # 0 /\ (m + 1) - 1 = m
      BY <1>1
    <3>2. after[m + 1] = Onward(after[m], m + 1)
      BY Zenon, <1>11, <3>1
    <3>3. Onward(after[m], m + 1) \in D /\ Stated(t, Onward(after[m], m + 1), m + 1)
      BY <1>3, <1>5, <2>2, <3>1
    <3> QED
      BY <3>1, <3>2, <3>3
  <2>3. T \in SUBSET Nat /\ t.n \in 0 .. t.n
    BY <1>1
  <2> HIDE DEF T
  <2>4. 0 .. t.n \subseteq T
    BY Zenon, <1>1, <2>1, <2>2, <2>3, UpTo
  <2> QED
    BY <2>3, <2>4
<1> QED
  BY <1>12, <1>13 DEF D

-----------------------------------------------------------------------------
\* Tours: the routes of the exact search.

\* The routes of the exact search: as long as one another, finitely many, and one of them the best.
Length(t) == 1 + Cardinality(Errands(t)) + (IF t.end = 0 THEN 0 ELSE 1)

LEMMA ErrandsAreFinite ==
  ASSUME NEW t, Accepted(t)
  PROVE  IsFiniteSet(Errands(t)) /\ Cardinality(Errands(t)) \in Nat /\ Errands(t) \subseteq 1 .. t.n
<1>1. t.n \in Nat /\ Errands(t) \subseteq 1 .. t.n
  BY DEF Accepted, Errands
<1>2. IsFiniteSet(Errands(t))
  BY Zenon, <1>1, PositionsAreFinite
<1> QED
  BY <1>1, <1>2, FS_CardinalityType

LEMMA RouteIsLegal ==
  ASSUME NEW t, Accepted(t), NEW route \in Routes(t)
  PROVE  /\ Legal(t, route) /\ route[1] = t.start /\ Len(route) = Length(t)
         /\ Length(t) \in Nat \ {0}
         /\ \A k \in 1 .. Len(route) : route[k] \in 1 .. t.n
<1> DEFINE S == 1 .. t.n
           tail == IF t.end = 0 THEN <<>> ELSE <<t.end>>
           c == Cardinality(Errands(t))
<1>1. c \in Nat /\ Errands(t) \subseteq S
  BY ErrandsAreFinite
<1>2. PICK order \in SetToSeqs(Errands(t)) : route = <<t.start>> \o order \o tail
  BY DEF Routes
<1>3. order \in [1 .. c -> Errands(t)]
  BY DEF SetToSeqs
<1>4. order \in Seq(S) /\ Len(order) = c
  <2> HIDE DEF S, c
  <2>1. order \in [1 .. c -> S]
    BY <1>1, <1>3
  <2> QED
    BY <1>1, <2>1, FilledIsSeq
<1>5. t.start \in S /\ (t.end # 0 => t.end \in S)
  BY DEF Accepted
<1> HIDE DEF S
<1>6. tail \in Seq(S) /\ Len(tail) = (IF t.end = 0 THEN 0 ELSE 1)
  BY <1>5
<1> HIDE DEF tail, c
<1>7. /\ route \in Seq(S) /\ Len(route) = 1 + Len(order) + Len(tail) /\ route[1] = t.start
  <2>1. <<t.start>> \in Seq(S) /\ Len(<<t.start>>) = 1 /\ <<t.start>>[1] = t.start
    BY <1>5
  <2>2. <<t.start>> \o order \in Seq(S) /\ Len(<<t.start>> \o order) = 1 + Len(order)
    BY <1>4, <2>1
  <2>3. (<<t.start>> \o order)[1] = t.start
    BY <1>4, <2>1
  <2>4. PICK lead : lead = <<t.start>> \o order
    BY Zenon
  <2>5. lead \in Seq(S) /\ Len(lead) = 1 + Len(order) /\ lead[1] = t.start /\ route = lead \o tail
    BY <1>2, <2>2, <2>3, <2>4
  <2>6. lead \o tail \in Seq(S) /\ Len(lead \o tail) = Len(lead) + Len(tail)
    BY Zenon, <1>6, <2>5, ConcatProperties
  <2>7. (lead \o tail)[1] = lead[1]
    BY <1>4, <1>6, <2>5
  <2> QED
    BY <2>5, <2>6, <2>7
<1>8. Len(route) = Length(t) /\ Length(t) \in Nat \ {0}
  BY <1>1, <1>4, <1>6, <1>7 DEF Length, c
<1>9. \A k \in 1 .. Len(route) : route[k] \in S
  BY <1>7
<1>10. route # <<>>
  BY <1>7, <1>8
<1> QED
  BY <1>7, <1>8, <1>9, <1>10 DEF Legal, S

LEMMA RoutesAreFinite ==
  ASSUME NEW t, Accepted(t)
  PROVE  IsFiniteSet(Routes(t))
<1> DEFINE m == Length(t)
           P == (1 .. m) \X (1 .. t.n)
           Steps(r) == {<<k, r[k]>> : k \in 1 .. m}
           g == [r \in Routes(t) |-> Steps(r)]
<1>1. CASE Routes(t) = {}
  BY <1>1, FS_EmptySet
<1>2. CASE Routes(t) # {}
  <2>1. m \in Nat /\ t.n \in Nat
    <3>1. PICK r : r \in Routes(t)
      BY <1>2
    <3> QED
      BY Zenon, <3>1, RouteIsLegal DEF Accepted
  <2>2. IsFiniteSet(SUBSET P)
    <3>1. IsFiniteSet(1 .. m) /\ IsFiniteSet(1 .. t.n)
      BY <2>1, NumbersCount
    <3>2. IsFiniteSet(P)
      BY Zenon, <3>1, FS_Product
    <3> HIDE DEF P
    <3> QED
      BY <3>2, FS_SUBSET
  <2>3. \A r \in Routes(t) : /\ r \in Seq(1 .. t.n) /\ Len(r) = m
                             /\ \A k \in 1 .. m : r[k] \in 1 .. t.n
    BY RouteIsLegal DEF Legal
  <2>4. g \in [Routes(t) -> SUBSET P]
    <3> HIDE DEF m
    <3>1. \A r \in Routes(t) : Steps(r) \subseteq P
      BY <2>3
    <3> HIDE DEF P, Steps
    <3> QED
      BY <3>1
  <2>5. ASSUME NEW r \in Routes(t), NEW q \in Routes(t), g[r] = g[q]
        PROVE  r = q
    <3>1. Steps(r) = Steps(q)
      BY <2>5
    <3>2. ASSUME NEW k \in 1 .. m
          PROVE  r[k] = q[k]
      <4> HIDE DEF m
      <4>1. <<k, r[k]>> \in Steps(r)
        OBVIOUS
      <4>2. <<k, r[k]>> \in Steps(q)
        BY Zenon, <3>1, <4>1
      <4> QED
        BY <4>2
    <3> HIDE DEF m, g
    <3> DEFINE S == 1 .. t.n
    <3>3. r \in Seq(S) /\ q \in Seq(S) /\ Len(r) = m /\ Len(q) = m
      BY <2>3
    <3> HIDE DEF S
    <3> QED
      BY <2>1, <3>2, <3>3
  <2>6. g \in Injection(Routes(t), SUBSET P)
    <3> HIDE DEF g, P
    <3>1. IsInjective(g)
      BY <2>4, <2>5 DEF IsInjective
    <3> QED
      BY <2>4, <3>1 DEF Injection
  <2> HIDE DEF g, P
  <2> QED
    BY <2>2, <2>6, FS_Injection
<1> QED
  BY <1>1, <1>2

LEMMA CostIsInt ==
  ASSUME NEW t, Accepted(t), NEW route, Legal(t, route), \A k \in 1 .. Len(route) : route[k] \in 1 .. t.n
  PROVE  Cost(t, route) \in Int
<1>1. Len(route) \in 1 .. Len(route) /\ Len(route) \in Nat
  BY DEF Legal
<1>2. ServedAt(t, route)[Len(route)] \in Int
  BY <1>1, ClockRuns
<1>3. Home(t, route[Len(route)]) \in Nat
  BY <1>1, HomeIsNat
<1> QED
  BY <1>2, <1>3 DEF Cost

\* Two routes differ somewhere first.
LEMMA FirstDifference ==
  ASSUME NEW S, NEW m \in Nat, NEW r \in Seq(S), NEW q \in Seq(S), Len(r) = m, Len(q) = m, r # q
  PROVE  \E k \in 1 .. m : r[k] # q[k] /\ \A j \in 1 .. k - 1 : r[j] = q[j]
<1> DEFINE T == {k \in 1 .. m : r[k] # q[k]}
<1>1. T # {}
  OBVIOUS
<1>2. T \in SUBSET Nat
  OBVIOUS
<1>3. PICK k \in T : \A j \in T : k <= j
  <2> HIDE DEF T
  <2> QED
    BY <1>1, <1>2, LeastNumber
<1>4. k \in 1 .. m /\ r[k] # q[k]
  OBVIOUS
<1>5. ASSUME NEW j \in 1 .. k - 1
      PROVE  r[j] = q[j]
  <2>1. j \in 1 .. m /\ ~(k <= j)
    BY <1>4
  <2> QED
    BY <1>3, <2>1
<1> QED
  BY <1>4, <1>5

LEMMA EarlierIsTotal ==
  ASSUME NEW t, Accepted(t), NEW r \in Routes(t), NEW q \in Routes(t), r # q
  PROVE  Earlier(r, q) \/ Earlier(q, r)
<1>1. /\ Length(t) \in Nat /\ r \in Seq(1 .. t.n) /\ q \in Seq(1 .. t.n)
      /\ Len(r) = Length(t) /\ Len(q) = Length(t)
      /\ \A k \in 1 .. Length(t) : r[k] \in 1 .. t.n /\ q[k] \in 1 .. t.n
  BY RouteIsLegal DEF Legal
<1>2. PICK k \in 1 .. Length(t) : r[k] # q[k] /\ \A j \in 1 .. k - 1 : r[j] = q[j]
  <2> DEFINE S == 1 .. t.n
  <2>1. r \in Seq(S) /\ q \in Seq(S)
    BY <1>1
  <2> HIDE DEF S
  <2>2. PICK m : m = Length(t)
    OBVIOUS
  <2>3. \E k \in 1 .. m : r[k] # q[k] /\ \A j \in 1 .. k - 1 : r[j] = q[j]
    <3>1. m \in Nat /\ Len(r) = m /\ Len(q) = m
      BY <1>1, <2>2
    <3> QED
      BY <2>1, <3>1, FirstDifference
  <2> QED
    BY <2>2, <2>3
<1>3. r[k] \in Nat /\ q[k] \in Nat /\ k \in DOMAIN r /\ k \in DOMAIN q
  <2>1. t.n \in Nat
    BY DEF Accepted
  <2>2. DOMAIN r = 1 .. Len(r) /\ DOMAIN q = 1 .. Len(q)
    BY RouteIsLegal DEF Legal
  <2> QED
    BY <1>1, <2>1, <2>2
<1>4. r[k] < q[k] \/ q[k] < r[k]
  BY <1>2, <1>3
<1> QED
  BY <1>2, <1>3, <1>4 DEF Earlier

LEMMA EarlierIsTransitive ==
  ASSUME NEW t, Accepted(t), NEW r \in Routes(t), NEW q \in Routes(t), NEW s \in Routes(t),
         Earlier(r, q), Earlier(q, s)
  PROVE  Earlier(r, s)
<1>1. /\ DOMAIN r = 1 .. Length(t) /\ DOMAIN q = 1 .. Length(t) /\ DOMAIN s = 1 .. Length(t)
      /\ Length(t) \in Nat
      /\ \A k \in 1 .. Length(t) : r[k] \in 1 .. t.n /\ q[k] \in 1 .. t.n /\ s[k] \in 1 .. t.n
  BY RouteIsLegal DEF Legal
<1>2. t.n \in Nat
  BY DEF Accepted
<1>3. PICK k \in 1 .. Length(t) : r[k] < q[k] /\ \A j \in 1 .. k - 1 : r[j] = q[j]
  BY <1>1 DEF Earlier
<1>4. PICK i \in 1 .. Length(t) : q[i] < s[i] /\ \A j \in 1 .. i - 1 : q[j] = s[j]
  BY <1>1 DEF Earlier
<1> DEFINE first == IF k <= i THEN k ELSE i
<1>5. first \in 1 .. Length(t) /\ first <= k /\ first <= i /\ (first = k \/ first = i)
  BY <1>1
<1> HIDE DEF first
<1>6. \A j \in 1 .. first - 1 : r[j] = s[j]
  <2> TAKE j \in 1 .. first - 1
  <2>1. j \in 1 .. k - 1 /\ j \in 1 .. i - 1
    BY <1>1, <1>5
  <2> QED
    BY <1>3, <1>4, <2>1
<1>7. r[first] < s[first]
  <2>1. r[first] \in Nat /\ q[first] \in Nat /\ s[first] \in Nat
    BY <1>1, <1>2, <1>5
  <2>2. first < k => r[first] = q[first]
    <3>1. first < k => first \in 1 .. k - 1
      BY <1>5
    <3> QED
      BY <1>3, <3>1
  <2>3. first < i => q[first] = s[first]
    <3>1. first < i => first \in 1 .. i - 1
      BY <1>5
    <3> QED
      BY <1>4, <3>1
  <2>4. first = k \/ first < k
    BY <1>1, <1>5
  <2>5. first = i \/ first < i
    BY <1>1, <1>5
  <2>6. first = k => r[first] < q[first]
    BY <1>3
  <2>7. first = i => q[first] < s[first]
    BY <1>4
  <2> QED
    BY <1>5, <2>1, <2>2, <2>3, <2>4, <2>5, <2>6, <2>7
<1> QED
  BY Zenon, <1>1, <1>5, <1>6, <1>7 DEF Earlier

LEMMA BestFits ==
  ASSUME NEW t, Accepted(t), Fitting(t) # {}
  PROVE  /\ Best(t) \in Fitting(t)
         /\ \A q \in Fitting(t) : Cost(t, Best(t)) <= Cost(t, q)
<1> DEFINE S == Fitting(t)
           Precedes(r, q) == Cost(t, r) < Cost(t, q) \/ (Cost(t, r) = Cost(t, q) /\ (r = q \/ Earlier(r, q)))
           R == {p \in S \X S : Precedes(p[1], p[2])}
<1>1. S \subseteq Routes(t)
  BY DEF Fitting
<1>2. IsFiniteSet(S)
  BY <1>1, RoutesAreFinite, FS_Subset
<1>3. \A r \in S : Cost(t, r) \in Int
  <2> TAKE r \in S
  <2>1. Legal(t, r) /\ \A k \in 1 .. Len(r) : r[k] \in 1 .. t.n
    BY <1>1, RouteIsLegal
  <2> QED
    BY <2>1, CostIsInt
<1>4. \A r, q \in S : <<r, q>> \in R <=> Precedes(r, q)
  OBVIOUS
<1>5. \A r, q \in S : r # q => <<r, q>> \in R \/ <<q, r>> \in R
  <2> HIDE DEF R, S
  <2> TAKE r, q \in S
  <2>1. r # q => Earlier(r, q) \/ Earlier(q, r)
    BY <1>1, EarlierIsTotal
  <2>2. Cost(t, r) \in Int /\ Cost(t, q) \in Int
    BY <1>3
  <2> QED
    BY <1>4, <2>1, <2>2
<1>6. \A r, q, s \in S : <<r, q>> \in R /\ <<q, s>> \in R => <<r, s>> \in R
  <2> HIDE DEF R, S
  <2> TAKE r, q, s \in S
  <2>1. Earlier(r, q) /\ Earlier(q, s) => Earlier(r, s)
    BY <1>1, EarlierIsTransitive
  <2>2. Cost(t, r) \in Int /\ Cost(t, q) \in Int /\ Cost(t, s) \in Int
    BY <1>3
  <2> QED
    BY <1>4, <2>1, <2>2
<1>7. PICK r \in S : \A q \in S \ {r} : <<r, q>> \in R
  <2> HIDE DEF R, S
  <2>1. S # {}
    BY DEF S
  <2> QED
    BY <1>2, <1>5, <1>6, <2>1, Foremost
<1>8. \A q \in S : Precedes(r, q)
  <2> HIDE DEF R, S
  <2> TAKE q \in S
  <2>1. CASE q = r
    BY <2>1
  <2>2. CASE q # r
    <3>1. <<r, q>> \in R
      BY <1>7, <2>2
    <3> HIDE DEF Precedes
    <3> QED
      BY <1>4, <3>1
  <2> QED
    BY <2>1, <2>2
<1>9. Best(t) \in S /\ \A q \in S : Precedes(Best(t), q)
  BY <1>8 DEF Best
<1> HIDE DEF S
<1>10. \A q \in S : Cost(t, Best(t)) <= Cost(t, q)
  BY <1>3, <1>9
<1> QED
  BY <1>9, <1>10 DEF S

-----------------------------------------------------------------------------
\* Tours: what is reported keeps to the windows and the budget.

\* What a tour reports of the walk it was made from.
LEMMA TourReports ==
  ASSUME NEW t, Accepted(t), NEW walk \in Walks(t), NEW objective, NEW r, r = Tour(t, walk, objective)
  PROVE  /\ r.objective = objective
         /\ r.visited = Len(walk.order) - 1
         /\ r.unvisited = (1 .. t.n) \ ToSet(walk.order)
         /\ r.total = walk.at + Home(t, Last(walk.order))
         /\ SubSeq(r.order, 1, r.visited + 1) = walk.order
<1> DEFINE N == Len(walk.order)
           home == t.loop /\ (objective = "optimal_order" \/ Last(walk.order) # t.start)
<1>1. /\ walk.at \in Int /\ N \in Nat \ {0} /\ Last(walk.order) \in 1 .. t.n
      /\ t.start \in 1 .. t.n
  BY WalkIsLegal DEF Accepted
<1>2. /\ r.objective = objective /\ r.visited = N - 1 /\ r.unvisited = (1 .. t.n) \ ToSet(walk.order)
      /\ r.total = walk.at + (IF home THEN t.leg[Last(walk.order)][t.start] ELSE 0)
      /\ r.order = IF home THEN Append(walk.order, t.start) ELSE walk.order
  BY DEF Tour
<1>3. (IF home THEN t.leg[Last(walk.order)][t.start] ELSE 0) = Home(t, Last(walk.order))
  <2>1. t.leg[t.start][t.start] = 0
    BY Zenon, <1>1 DEF Accepted
  <2> QED
    BY <2>1 DEF Home
<1>4. SubSeq(r.order, 1, N) = walk.order
  <2> DEFINE S == 1 .. t.n
  <2>1. PICK route : route = walk.order
    OBVIOUS
  <2>2. route \in Seq(S) /\ t.start \in S
    BY <1>1, <2>1, WalkIsLegal DEF Legal
  <2> HIDE DEF S
  <2>3. SubSeq(Append(route, t.start), 1, Len(route)) = route /\ SubSeq(route, 1, Len(route)) = route
    BY <2>2
  <2> HIDE DEF home
  <2> QED
    BY <1>2, <2>1, <2>3
<1>5. (N - 1) + 1 = N
  BY <1>1
<1> QED
  BY <1>2, <1>3, <1>4, <1>5

Timely(t, r) ==
  LET route == SubSeq(r.order, 1, r.visited + 1)
      at == ServedAt(t, route)
      forced == r.objective = "greedy_partial" /\ t.end # 0
  IN /\ \A k \in 2 .. Len(route) :
          (forced /\ route[k] = t.end) \/ at[k] - t.stay[route[k]] <= t.close[route[k]]
     /\ forced \/ r.total = at[Len(route)] + Home(t, Last(route))
     /\ r.total <= t.budget

LEMMA SoundIsTimely ==
  ASSUME NEW t, Accepted(t), NEW walk \in Walks(t), Sound(t, walk), NEW objective,
         NEW r, r = Tour(t, walk, objective), r.visited > 0
  PROVE  Timely(t, r)
<1> DEFINE N == Len(walk.order)
<1>1. /\ r.visited = N - 1 /\ r.total = walk.at + Home(t, Last(walk.order))
      /\ SubSeq(r.order, 1, r.visited + 1) = walk.order
  BY TourReports
<1>2. N \in Nat /\ N >= 2
  <2>1. N \in Nat
    BY WalkIsLegal
  <2> QED
    BY <1>1, <2>1
<1>3. walk.at = ServedAt(t, walk.order)[N] /\ InTime(t, walk.order)
  BY DEF Sound
<1>4. r.total <= t.budget
  <2>1. N \in 2 .. N /\ Last(walk.order) = walk.order[N]
    BY <1>2 DEF Last
  <2> QED
    BY <1>1, <1>3, <2>1 DEF InTime
<1>5. \A k \in 2 .. N : ServedAt(t, walk.order)[k] - t.stay[walk.order[k]] <= t.close[walk.order[k]]
  BY <1>3 DEF InTime
<1> QED
  BY Zenon, <1>1, <1>3, <1>4, <1>5 DEF Timely

\* The exact search.
LEMMA BestIsWalk ==
  ASSUME NEW t, Accepted(t), Fitting(t) # {},
         NEW walk, walk = [order |-> Best(t), at |-> ServedAt(t, Best(t))[Len(Best(t))]]
  PROVE  /\ walk \in Walks(t)
         /\ walk.at + Home(t, Last(walk.order)) = Cost(t, Best(t))
<1>1. Legal(t, Best(t)) /\ Len(Best(t)) \in Nat \ {0}
  BY BestFits, RouteIsLegal DEF Fitting
<1>2. ServedAt(t, Best(t))[Len(Best(t))] \in Int
  BY <1>1, ClockRuns
<1>3. walk \in Walks(t)
  BY <1>1, <1>2 DEF Walks, Legal
<1>4. Cost(t, Best(t)) = walk.at + Home(t, Last(walk.order))
  BY DEF Cost, Last
<1> QED
  BY <1>3, <1>4

LEMMA BestIsTimely ==
  ASSUME NEW t, Accepted(t), Fitting(t) # {}, NEW walk,
         walk = [order |-> Best(t), at |-> ServedAt(t, Best(t))[Len(Best(t))]],
         NEW r, r = Tour(t, walk, "optimal_order")
  PROVE  Timely(t, r)
<1>1. walk \in Walks(t) /\ walk.at + Home(t, Last(walk.order)) = Cost(t, Best(t))
  BY BestIsWalk
<1>2. /\ r.total = walk.at + Home(t, Last(walk.order))
      /\ SubSeq(r.order, 1, r.visited + 1) = walk.order
  BY <1>1, TourReports
<1>3. OnTime(t, Best(t))
  BY BestFits DEF Fitting
<1>4. Len(Best(t)) \in Nat /\ DOMAIN Best(t) = 1 .. Len(Best(t))
  BY BestFits, RouteIsLegal DEF Fitting, Legal
<1>5. walk.order = Best(t) /\ walk.at = ServedAt(t, Best(t))[Len(Best(t))]
  OBVIOUS
<1>6. \A k \in 2 .. Len(Best(t)) : k \in DOMAIN Best(t)
  BY <1>4
<1>7. /\ \A k \in 2 .. Len(Best(t)) : ServedAt(t, Best(t))[k] - t.stay[Best(t)[k]] <= t.close[Best(t)[k]]
      /\ r.total <= t.budget
  BY <1>1, <1>2, <1>3, <1>6 DEF OnTime
<1> QED
  BY Zenon, <1>2, <1>5, <1>7 DEF Timely

\* The fallback, with the end it appends.
LEMMA EndedIsTimely ==
  ASSUME NEW t, Accepted(t), NEW walk \in Walks(t), Sound(t, walk),
         NEW r, r = Tour(t, WithEnd(t, walk), "greedy_partial"), r.visited > 0
  PROVE  Timely(t, r)
<1> DEFINE N == Len(walk.order)
           finish == walk.at + t.leg[Last(walk.order)][t.end] + t.stay[t.end]
<1>1. CASE t.end = 0 \/ finish > t.budget
  <2>1. WithEnd(t, walk) = walk
    BY <1>1 DEF WithEnd
  <2> QED
    BY <2>1, SoundIsTimely
<1>2. CASE ~(t.end = 0 \/ finish > t.budget)
  <2> DEFINE ended == [order |-> Append(walk.order, t.end), at |-> finish]
             more == Append(walk.order, t.end)
  <2>1. WithEnd(t, walk) = ended
    BY <1>2 DEF WithEnd
  <2>2. t.end \in 1 .. t.n /\ t.budget \in Int /\ t.end # 0 /\ ~t.loop
    BY <1>2 DEF Accepted
  <2>3. /\ Legal(t, walk.order) /\ walk.at \in Int /\ N \in Nat \ {0} /\ Last(walk.order) \in 1 .. t.n
    BY WalkIsLegal
  <2>4. finish \in Int /\ finish <= t.budget
    <3>1. t.leg[Last(walk.order)][t.end] \in Nat /\ t.stay[t.end] \in Int
      BY Zenon, <2>2, <2>3, LegIsNat DEF Accepted
    <3>2. finish \in Int
      BY <2>3, <3>1
    <3> HIDE DEF finish
    <3> QED
      BY <1>2, <2>2, <3>2
  <2>5. /\ Legal(t, more) /\ \A k \in 1 .. N : ServedAt(t, more)[k] = ServedAt(t, walk.order)[k]
    <3>1. PICK route : route = walk.order
      OBVIOUS
    <3>2. Legal(t, route)
      BY <2>3, <3>1
    <3>3. /\ Legal(t, Append(route, t.end))
          /\ \A k \in 1 .. Len(route) : ServedAt(t, Append(route, t.end))[k] = ServedAt(t, route)[k]
      BY <2>2, <3>2, ClockGoesOn
    <3> QED
      BY <3>1, <3>3
  <2>6. /\ Len(more) = N + 1 /\ more[N + 1] = t.end /\ \A k \in 1 .. N : more[k] = walk.order[k]
    <3> DEFINE S == 1 .. t.n
    <3>1. walk.order \in Seq(S) /\ t.end \in S
      BY <2>2, <2>3 DEF Legal
    <3> HIDE DEF S
    <3> QED
      BY <3>1
  <2> HIDE DEF more, finish
  <2>7. ended \in Walks(t) /\ ended.order = more /\ ended.at = finish
    BY <2>4, <2>5 DEF Walks, Legal, more
  <2>8. /\ r.total = finish + Home(t, Last(more)) /\ r.objective = "greedy_partial"
        /\ SubSeq(r.order, 1, r.visited + 1) = more
    <3> HIDE DEF ended
    <3> QED
      BY <2>1, <2>7, TourReports
  <2>9. r.total <= t.budget
    BY <2>2, <2>4, <2>8 DEF Home
  <2>10. ASSUME NEW k \in 2 .. N + 1
         PROVE  more[k] = t.end \/ ServedAt(t, more)[k] - t.stay[more[k]] <= t.close[more[k]]
    <3>1. CASE k = N + 1
      BY <2>6, <3>1
    <3>2. CASE k # N + 1
      <4>1. k \in 2 .. N /\ k \in 1 .. N
        BY <2>3, <3>2
      <4> QED
        BY <2>5, <2>6, <4>1 DEF Sound, InTime
    <3> QED
      BY <3>1, <3>2
  <2> QED
    BY Zenon, <2>2, <2>6, <2>8, <2>9, <2>10 DEF Timely
<1> QED
  BY <1>1, <1>2

LEMMA PlannedIsTimely ==
  ASSUME NEW t, Accepted(t), t.open[t.start] = 0, t.fixed => t.stay[t.start] = 0,
         NEW r, r = Planned(t), r.visited > 0
  PROVE  Timely(t, r)
<1>1. CASE t.fixed
  <2>1. r = Tour(t, Walk(t), "stated_order")
    BY <1>1 DEF Planned
  <2>2. Walk(t) \in Walks(t) /\ Sound(t, Walk(t))
    BY <1>1, WalkIsStated DEF Stated
  <2> QED
    BY <2>1, <2>2, SoundIsTimely
<1>2. CASE ~t.fixed /\ Fitting(t) # {}
  <2>1. r = Tour(t, [order |-> Best(t), at |-> ServedAt(t, Best(t))[Len(Best(t))]], "optimal_order")
    BY <1>2 DEF Planned
  <2> QED
    BY <1>2, <2>1, BestIsTimely
<1>3. CASE ~t.fixed /\ Fitting(t) = {}
  <2>1. r = Tour(t, WithEnd(t, Greedy(t)), "greedy_partial")
    BY <1>3 DEF Planned
  <2>2. Greedy(t) \in Walks(t) /\ Sound(t, Greedy(t))
    BY GreedyIsSound
  <2> QED
    BY <2>1, <2>2, EndedIsTimely
<1> QED
  BY <1>1, <1>2, <1>3

-----------------------------------------------------------------------------
\* Tours: freeing the order of a trip costs nothing.

\* The same trip, with its order freed.
Freed(t, u) ==
  /\ Accepted(u) /\ ~u.fixed /\ u.end = 0
  /\ u.n = t.n /\ u.leg = t.leg /\ u.open = t.open /\ u.close = t.close /\ u.stay = t.stay
  /\ u.start = t.start /\ u.budget = t.budget /\ u.loop = t.loop

\* An order that visits every stop once is one of the routes.
LEMMA WholeOrderIsRoute ==
  ASSUME NEW u, Accepted(u), u.end = 0, NEW order, Legal(u, order), Once(order),
         order[1] = u.start, 1 .. u.n \subseteq ToSet(order)
  PROVE  order \in Routes(u)
<1> DEFINE S == 1 .. u.n
           L == Len(order) - 1
           E == Errands(u)
           rest == [k \in 1 .. L |-> order[k + 1]]
<1>1. order \in Seq(S) /\ order # <<>>
  BY DEF Legal
<1>2. Len(order) \in Nat \ {0} /\ L \in Nat /\ \A k \in 1 .. Len(order) : order[k] \in S
  <2> HIDE DEF S
  <2> QED
    BY <1>1
<1>3. \A k \in 1 .. L : k + 1 \in 1 .. Len(order) /\ k + 1 # 1
  BY <1>2
<1>4. 1 \in 1 .. Len(order) /\ u.start \in 1 .. u.n
  BY <1>2 DEF Accepted
<1>5. E = S \ {u.start}
  BY DEF Errands
<1> HIDE DEF E, L
<1>6. rest \in [1 .. L -> E]
  <2>1. ASSUME NEW k \in 1 .. L
        PROVE  order[k + 1] \in E
    <3>1. order[k + 1] \in S /\ order[k + 1] # order[1]
      BY <1>2, <1>3, <1>4 DEF Once
    <3> HIDE DEF S
    <3> QED
      BY <1>5, <3>1
  <2> QED
    BY <2>1
<1>7. \A i, j \in 1 .. L : i # j => rest[i] # rest[j]
  <2> TAKE i, j \in 1 .. L
  <2>1. i + 1 \in 1 .. Len(order) /\ j + 1 \in 1 .. Len(order) /\ (i + 1 = j + 1 => i = j)
    BY <1>3
  <2>2. rest[i] = order[i + 1] /\ rest[j] = order[j + 1]
    OBVIOUS
  <2> HIDE DEF rest
  <2> QED
    BY <2>1, <2>2 DEF Once
<1>8. \A e \in E : \E k \in 1 .. L : rest[k] = e
  <2> TAKE e \in E
  <2>1. e \in 1 .. u.n /\ e # u.start
    BY <1>5
  <2>2. PICK i \in DOMAIN order : order[i] = e
    BY <2>1 DEF ToSet
  <2>3. i \in 1 .. Len(order) /\ i # 1
    <3> HIDE DEF S
    <3> QED
      BY <1>1, <2>1, <2>2
  <2>4. i - 1 \in 1 .. L /\ (i - 1) + 1 = i
    BY <1>2, <2>3 DEF L
  <2>5. rest[i - 1] = e
    BY <2>2, <2>4
  <2> HIDE DEF rest
  <2> QED
    BY <2>4, <2>5
<1> HIDE DEF rest
<1>9. Cardinality(E) = L
  <2>1. rest \in Bijection(1 .. L, E)
    BY <1>6, <1>7, <1>8 DEF Bijection, Injection, Surjection, IsInjective
  <2>2. IsFiniteSet(1 .. L) /\ Cardinality(1 .. L) = L
    <3>1. L \in Nat
      BY <1>2
    <3> QED
      BY <3>1, NumbersCount
  <2>3. ExistsBijection(1 .. L, E)
    BY <2>1 DEF ExistsBijection
  <2> QED
    BY <2>2, <2>3, FS_Bijection
<1>10. rest \in SetToSeqs(E)
  BY <1>6, <1>7, <1>9 DEF SetToSeqs
<1>11. order = <<u.start>> \o rest \o <<>>
  <2>1. \A k \in 1 .. L : order[k + 1] \in S
    BY <1>2, <1>3
  <2> HIDE DEF S
  <2>2. rest \in Seq(S) /\ Len(rest) = L /\ \A k \in 1 .. L : rest[k] = order[k + 1]
    <3>1. rest \in [1 .. L -> S]
      BY <2>1 DEF rest
    <3>2. rest \in Seq(S)
      BY <1>2, <3>1, FilledIsSeq
    <3> QED
      BY <1>2, <3>1, <3>2 DEF rest
  <2>3. u.start \in S
    BY <1>4 DEF S
  <2>4. <<u.start>> \o rest \in Seq(S) /\ Len(<<u.start>> \o rest) = Len(order)
    BY <1>2, <2>2, <2>3 DEF L
  <2>5. \A k \in 1 .. Len(order) : (<<u.start>> \o rest)[k] = order[k]
    <3> TAKE k \in 1 .. Len(order)
    <3>1. CASE k = 1
      BY <2>2, <2>3, <3>1
    <3>2. CASE k # 1
      <4>1. k - 1 \in 1 .. L /\ (k - 1) + 1 = k
        BY <1>2, <3>2 DEF L
      <4>2. (<<u.start>> \o rest)[k] = rest[k - 1]
        BY <1>2, <2>2, <2>3, <3>2, <4>1 DEF L
      <4> QED
        BY <2>2, <4>1, <4>2
    <3> QED
      BY Zenon, <3>1, <3>2
  <2>6. <<u.start>> \o rest = order
    BY <1>1, <2>4, <2>5
  <2> QED
    BY <1>1, <2>4, <2>6, ConcatEmptySeq
<1> QED
  BY <1>10, <1>11 DEF Routes, E

\* And a route visits every stop.
LEMMA RouteIsWhole ==
  ASSUME NEW u, Accepted(u), u.end = 0, NEW route \in Routes(u)
  PROVE  1 .. u.n \subseteq ToSet(route)
<1> DEFINE c == Cardinality(Errands(u))
<1>1. PICK order \in SetToSeqs(Errands(u)) : route = <<u.start>> \o order \o <<>>
  BY DEF Routes
<1>2. order \in [1 .. c -> Errands(u)] /\ \A i, j \in 1 .. c : i # j => order[i] # order[j]
  BY DEF SetToSeqs
<1>3. IsFiniteSet(Errands(u)) /\ c \in Nat /\ Errands(u) = (1 .. u.n) \ {u.start}
  BY ErrandsAreFinite DEF Errands
<1> HIDE DEF c
<1>4. order \in Surjection(1 .. c, Errands(u))
  <2>1. order \in Injection(1 .. c, Errands(u))
    BY <1>2 DEF Injection, IsInjective
  <2>2. Cardinality(1 .. c) = Cardinality(Errands(u))
    BY <1>3, NumbersCount DEF c
  <2> QED
    BY <1>3, <2>1, <2>2, FS_Injection
<1>5. \A e \in Errands(u) : \E k \in 1 .. c : order[k] = e
  BY <1>4 DEF Surjection
<1>6. /\ Len(route) = c + 1 /\ DOMAIN route = 1 .. c + 1
      /\ route[1] = u.start /\ \A k \in 1 .. c : route[k + 1] = order[k]
  <2> DEFINE S == 1 .. u.n
  <2>1. u.start \in S /\ order \in [1 .. c -> S]
    BY <1>2, <1>3 DEF Accepted
  <2> HIDE DEF S
  <2>2. order \in Seq(S) /\ Len(order) = c
    BY <1>3, <2>1, FilledIsSeq
  <2>3. <<u.start>> \o order \in Seq(S)
    BY <2>1, <2>2
  <2>4. route = <<u.start>> \o order
    BY <1>1, <2>3, ConcatEmptySeq
  <2> QED
    BY <1>3, <2>1, <2>2, <2>4
<1>7. ASSUME NEW e \in 1 .. u.n
      PROVE  \E k \in DOMAIN route : route[k] = e
  <2>1. CASE e = u.start
    <3>1. 1 \in DOMAIN route /\ route[1] = e
      BY <1>3, <1>6, <2>1
    <3> QED
      BY <3>1
  <2>2. CASE e # u.start
    <3>1. PICK k \in 1 .. c : order[k] = e
      BY <1>3, <1>5, <2>2
    <3>2. k + 1 \in DOMAIN route /\ route[k + 1] = e
      BY <1>3, <1>6, <3>1
    <3> QED
      BY <3>2
  <2> QED
    BY <2>1, <2>2
<1> QED
  BY <1>7 DEF ToSet

LEMMA FreedomCostsNoMore ==
  ASSUME NEW t, Accepted(t), t.fixed, t.open[t.start] = 0, t.stay[t.start] = 0,
         0 <= t.close[t.start], 0 <= t.budget,
         NEW r, r = Planned(t), r.unvisited = {},
         NEW u, Freed(t, u), NEW free, free = Planned(u)
  PROVE  /\ free.objective = "optimal_order" /\ free.unvisited = {}
         /\ free.total <= r.total
<1> DEFINE walk == Walk(t)
           N == Len(walk.order)
<1>1. walk \in Walks(t) /\ Sound(t, walk) /\ Once(walk.order)
  BY WalkIsStated DEF Stated
<1>2. r = Tour(t, walk, "stated_order")
  BY DEF Planned
<1> HIDE DEF walk
<1>3. /\ r.total = walk.at + Home(t, Last(walk.order))
      /\ 1 .. t.n \subseteq ToSet(walk.order)
  BY <1>1, <1>2, TourReports
<1>4. /\ Legal(t, walk.order) /\ walk.at \in Int /\ N \in Nat \ {0}
      /\ \A k \in 1 .. N : walk.order[k] \in 1 .. t.n
  BY <1>1, WalkIsLegal
<1>5. /\ Accepted(u) /\ ~u.fixed /\ u.end = 0
      /\ u.n = t.n /\ u.leg = t.leg /\ u.open = t.open /\ u.close = t.close /\ u.stay = t.stay
      /\ u.start = t.start /\ u.budget = t.budget /\ u.loop = t.loop
  BY DEF Freed
<1>6. PICK order : order = walk.order
  OBVIOUS
<1>7. Legal(u, order) /\ Legal(t, order) /\ Len(order) = N
  BY <1>4, <1>5, <1>6 DEF Legal
<1>8. order \in Routes(u)
  <2>1. order[1] = u.start /\ 1 .. u.n \subseteq ToSet(order) /\ Once(order)
    BY <1>1, <1>3, <1>5, <1>6 DEF Sound
  <2> QED
    BY <1>5, <1>7, <2>1, WholeOrderIsRoute
<1>9. \A k \in 1 .. N : ServedAt(t, order)[k] = ServedAt(u, order)[k]
  BY <1>4, <1>5, <1>7, ClocksAgree
<1>10. /\ order[1] = t.start /\ walk.at = ServedAt(t, order)[N] /\ InTime(t, order)
  BY <1>1, <1>6 DEF Sound
<1>11. ServedAt(t, order)[1] = 0
  <2>1. Clock(t, order, ServedAt(t, order)) /\ 1 \in 1 .. Len(order)
    BY <1>4, <1>7, ClockRuns
  <2>2. ServedAt(t, order)[1] = Served(t, t.start, 0)
    BY <1>10, <2>1 DEF Clock
  <2>3. Max({0, 0}) = 0
    BY LaterOf
  <2> QED
    BY <2>2, <2>3 DEF Served
<1>12. \A i \in 1 .. t.n : Home(u, i) = Home(t, i) /\ Home(t, i) \in Nat
  BY <1>5, HomeIsNat DEF Home
<1>13. \A k \in 1 .. N : ServedAt(t, order)[k] \in Int /\ order[k] \in 1 .. t.n
  BY <1>4, <1>6, <1>7, ClockRuns
<1>14. t.budget \in Int /\ t.close[t.start] \in Int
  BY DEF Accepted
<1>15. ASSUME NEW k \in 1 .. N
       PROVE  /\ ServedAt(u, order)[k] - u.stay[order[k]] <= u.close[order[k]]
              /\ ServedAt(u, order)[k] + Home(u, order[k]) <= u.budget
  <2>1. CASE k = 1
    <3>1. ServedAt(u, order)[k] = 0 /\ order[k] = t.start /\ u.stay[order[k]] = 0
      BY <1>5, <1>9, <1>10, <1>11, <2>1
    <3>2. Home(u, order[k]) = 0
      <4>1. u.leg[u.start][u.start] = 0
        BY <1>5 DEF Accepted
      <4> QED
        BY <1>5, <3>1, <4>1 DEF Home
    <3> QED
      BY <1>5, <1>14, <3>1, <3>2
  <2>2. CASE k # 1
    <3>1. k \in 2 .. Len(order)
      BY <1>4, <1>7, <2>2
    <3>2. /\ ServedAt(t, order)[k] - t.stay[order[k]] <= t.close[order[k]]
          /\ ServedAt(t, order)[k] + Home(t, order[k]) <= t.budget
      BY <1>10, <3>1 DEF InTime
    <3>3. Home(u, order[k]) = Home(t, order[k])
      BY <1>12, <1>13
    <3> QED
      BY <1>5, <1>9, <3>2, <3>3
  <2> QED
    BY <2>1, <2>2
<1>16. Cost(u, order) = r.total
  <2>1. N \in 1 .. N /\ Last(walk.order) = order[N]
    BY <1>4, <1>6 DEF Last
  <2>2. Home(u, order[N]) = Home(t, order[N]) /\ ServedAt(u, order)[N] = walk.at
    BY <1>9, <1>10, <1>12, <1>13, <2>1
  <2> QED
    BY <1>3, <1>7, <2>1, <2>2 DEF Cost
<1>17. OnTime(u, order)
  <2>1. DOMAIN order = 1 .. N
    BY <1>7 DEF Legal
  <2>2. \A k \in 1 .. N : ServedAt(u, order)[k] <= u.budget
    <3> TAKE k \in 1 .. N
    <3>1. ServedAt(u, order)[k] \in Int /\ Home(u, order[k]) \in Nat /\ u.budget \in Int
      BY <1>5, <1>9, <1>12, <1>13, <1>14
    <3> QED
      BY <1>15, <3>1
  <2>3. Cost(u, order) <= u.budget
    <3>1. N \in 1 .. N
      BY <1>4
    <3> QED
      BY <1>7, <1>15, <3>1 DEF Cost
  <2> QED
    BY <1>15, <2>1, <2>2, <2>3 DEF OnTime
<1>18. order \in Fitting(u)
  BY <1>8, <1>17 DEF Fitting
<1>19. Best(u) \in Fitting(u) /\ Cost(u, Best(u)) <= r.total
  BY <1>5, <1>16, <1>18, BestFits
<1>20. PICK best : best = [order |-> Best(u), at |-> ServedAt(u, Best(u))[Len(Best(u))]]
  BY Zenon
<1>21. free = Tour(u, best, "optimal_order")
  BY <1>5, <1>18, <1>20 DEF Planned
<1>22. best \in Walks(u) /\ best.at + Home(u, Last(best.order)) = Cost(u, Best(u)) /\ best.order = Best(u)
  BY <1>5, <1>18, <1>20, BestIsWalk
<1>23. /\ free.objective = "optimal_order" /\ free.total = Cost(u, Best(u))
       /\ free.unvisited = (1 .. u.n) \ ToSet(Best(u))
  BY <1>5, <1>21, <1>22, TourReports
<1>24. 1 .. u.n \subseteq ToSet(Best(u))
  BY <1>5, <1>19, RouteIsWhole DEF Fitting
<1> QED
  BY <1>19, <1>23, <1>24

-----------------------------------------------------------------------------
\* Tours: the matrix they are read from, and the itineraries they accept.

\* A matrix of measures.
Measures(row) ==
  \E n \in Nat : DOMAIN row = 1 .. n /\ \A k \in 1 .. n : row[k].m \in Nat /\ row[k].s \in Nat

LEMMA TimesIsMonotone ==
  ASSUME NEW a \in Nat, NEW b \in Nat, NEW w \in Nat, a <= b
  PROVE  a * w <= b * w
OBVIOUS

LEMMA QuotientIsBelow ==
  ASSUME NEW width \in Nat \ {0}, NEW height \in Nat, NEW a \in Nat, a < height * width
  PROVE  a \div width \in Nat /\ a \div width < height
<1>1. /\ a \div width \in Nat /\ a = width * (a \div width) + (a % width)
      /\ a % width \in 0 .. width - 1
  OBVIOUS
<1>2. PICK q \in Nat : q = a \div width
  BY <1>1
<1>3. width * q = q * width /\ q * width \in Nat /\ height * width \in Nat
  OBVIOUS
<1>4. ASSUME height <= q PROVE FALSE
  <2>1. height * width <= q * width
    BY <1>4, TimesIsMonotone
  <2> QED
    BY <1>1, <1>2, <1>3, <2>1
<1> QED
  BY <1>1, <1>2, <1>4

LEMMA MatrixIsMeasured ==
  ASSUME NEW stops \in Lists, stops # <<>>, NEW failing
  PROVE  Measures(DistanceMatrix(stops, stops, failing))
<1> DEFINE width == Len(stops)
           Row(j) == ((j - 1) \div width) + 1
           Column(j) == ((j - 1) % width) + 1
           row == DistanceMatrix(stops, stops, failing)
<1>1. width \in Nat \ {0} /\ \A k \in 1 .. width : stops[k] \in Optional(Places)
  BY DEF Lists
<1>2. row = [j \in 1 .. width * width |->
               RoutedPair(stops[Row(j)], stops[Column(j)], <<Row(j), Column(j)>> \in failing)]
  BY DEF DistanceMatrix
<1> HIDE DEF width, row
<1>3. width * width \in Nat
  BY <1>1
<1>4. ASSUME NEW k \in 1 .. width * width
      PROVE  row[k].m \in Nat /\ row[k].s \in Nat
  <2>1. k - 1 \in Nat /\ k - 1 < width * width
    BY <1>3
  <2>2. Row(k) \in 1 .. width
    <3>1. (k - 1) \div width \in Nat /\ (k - 1) \div width < width
      BY <1>1, <2>1, QuotientIsBelow
    <3> QED
      BY <1>1, <3>1
  <2>3. Column(k) \in 1 .. width
    BY <1>1, <2>1
  <2>4. row[k] = RoutedPair(stops[Row(k)], stops[Column(k)], <<Row(k), Column(k)>> \in failing)
    BY <1>2
  <2> HIDE DEF Row, Column
  <2>5. stops[Row(k)] \in Optional(Places) /\ stops[Column(k)] \in Optional(Places)
    BY <1>1, <2>2, <2>3
  <2>6. (<<Row(k), Column(k)>> \in failing) \in BOOLEAN
    OBVIOUS
  <2> QED
    BY Zenon, <2>4, <2>5, <2>6, RoutedMeasures
<1>5. DOMAIN row = 1 .. width * width
  BY <1>2
<1>6. Measures(row)
  BY <1>3, <1>4, <1>5 DEF Measures
<1> QED
  BY <1>6 DEF row

LEMMA ArgumentIsSquare ==
  ASSUME NEW row, Measures(row), NEW n \in Nat, NEW metric,
         NEW matrix, matrix = MatrixArgument(row, n, metric), matrix # <<>>
  PROVE  /\ matrix[1] \in [1 .. n -> [1 .. n -> Nat]]
         /\ \A i \in 1 .. n : matrix[1][i][i] = 0
<1> DEFINE labels == LabelsOf(row)
           Cell(a, b) == IF a = b \/ LegRows(row, a, b) = {} THEN 0
                         ELSE LegMeasure(row[Max(LegRows(row, a, b))], metric)
<1>1. matrix = <<[i \in 1 .. n |-> [j \in 1 .. n |-> Cell(labels[i], labels[j])]]>>
  BY Zenon DEF MatrixArgument, None
<1>2. ASSUME NEW a, NEW b
      PROVE  Cell(a, b) \in Nat
  <2>1. CASE a = b \/ LegRows(row, a, b) = {}
    BY <2>1
  <2>2. CASE ~(a = b \/ LegRows(row, a, b) = {})
    <3> DEFINE K == LegRows(row, a, b)
    <3>1. PICK m \in Nat : DOMAIN row = 1 .. m /\ \A k \in 1 .. m : row[k].m \in Nat /\ row[k].s \in Nat
      BY DEF Measures
    <3>2. K \in SUBSET (1 .. m) /\ K # {}
      BY <2>2, <3>1 DEF LegRows
    <3> HIDE DEF K
    <3>3. IsFiniteSet(K) /\ K \in SUBSET Int
      <4>1. K \in SUBSET Int
        BY <3>1, <3>2
      <4> QED
        BY <3>2, <4>1, PositionsAreFinite
    <3>4. Max(K) \in 1 .. m
      BY Zenon, <3>2, <3>3, Greatest
    <3>5. LegMeasure(row[Max(K)], metric) \in Nat
      BY <3>1, <3>4 DEF LegMeasure
    <3> QED
      BY <2>2, <3>5 DEF K
  <2> QED
    BY <2>1, <2>2
<1>3. \A a : Cell(a, a) = 0
  OBVIOUS
<1> HIDE DEF Cell, labels
<1> QED
  BY <1>1, <1>2, <1>3

\* An itinerary that tsp_tw does not refuse.
LEMMA TripIsAccepted ==
  ASSUME NEW it \in Itineraries, NEW n \in Nat, NEW leg \in [1 .. n -> [1 .. n -> Nat]],
         \A i \in 1 .. n : leg[i][i] = 0,
         NEW trip, trip = TripOf(it, n, leg), NEW metric, ~TourRefuses(trip, metric)
  PROVE  /\ Accepted(trip)
         /\ trip.fixed => Freed(trip, [trip EXCEPT !.fixed = FALSE])
<1>1. /\ trip.n = n /\ trip.leg = leg /\ trip.open = it.open /\ trip.close = it.close
      /\ trip.stay = it.stay /\ trip.start = it.start /\ trip.end = it.end
      /\ trip.budget = it.budget /\ trip.loop = it.loop /\ trip.fixed = it.fixed
  BY DEF TripOf
<1>2. /\ trip.start \in 1 .. n /\ trip.end \in (0 .. n) \ {trip.start}
      /\ trip.end # 0 => ~trip.fixed /\ ~trip.loop
      /\ \A items \in {trip.open, trip.close, trip.stay} : Len(items) = n
  BY Zenon, <1>1 DEF TourRefuses
<1>3. ASSUME NEW items \in {trip.open, trip.close, trip.stay}
      PROVE  items \in [1 .. n -> Int]
  <2>1. items \in Seq(Int) /\ Len(items) = n
    BY <1>1, <1>2, ItineraryAssumption
  <2> QED
    BY <2>1
<1>4. trip.budget \in Int /\ n # 0
  BY <1>1, <1>2, ItineraryAssumption
<1>5. Accepted(trip)
  BY Zenon, <1>1, <1>2, <1>3, <1>4 DEF Accepted
<1>6. ASSUME trip.fixed
      PROVE  Freed(trip, [trip EXCEPT !.fixed = FALSE])
  <2>1. PICK free : free = [trip EXCEPT !.fixed = FALSE]
    BY Zenon
  <2>2. /\ ~free.fixed /\ free.n = trip.n /\ free.leg = trip.leg /\ free.open = trip.open
        /\ free.close = trip.close /\ free.stay = trip.stay /\ free.start = trip.start
        /\ free.end = trip.end /\ free.budget = trip.budget /\ free.loop = trip.loop
    BY <2>1 DEF TripOf
  <2>3. Accepted(free)
    BY <1>5, <2>2 DEF Accepted
  <2>4. free.end = 0
    BY <1>2, <1>6, <2>2
  <2> QED
    BY <2>1, <2>2, <2>3, <2>4 DEF Freed
<1> QED
  BY <1>5, <1>6

-----------------------------------------------------------------------------
\* A trip, step by step.

TripInv ==
  /\ Geocoded
  /\ task.about = "trip" /\ rows # <<>> => Measures(rows[1])
  /\ tour # <<>> =>
       LET t == tour[1].trip
       IN /\ Accepted(t) /\ tour[1].result = Planned(t)
          /\ t.fixed => Freed(t, [t EXCEPT !.fixed = FALSE])

LEMMA TripRoute ==
  ASSUME TripInv, RouteStops
  PROVE  TripInv'
<1>1. found # <<>> /\ Geocoded
  BY DEF RouteStops, About, TripInv
<1>2. Stops \in Lists /\ PlaceArguments(Stops) \in Lists
  BY <1>1, StopsAreRows, ArgumentsAreList
<1>3. PICK stops \in {Stops, PlaceArguments(Stops)} \ {<<>>} :
        \E failing : rows' = <<DistanceMatrix(stops, stops, failing)>>
  BY DEF RouteStops
<1>4. PICK failing : rows' = <<DistanceMatrix(stops, stops, failing)>>
  BY <1>3
<1>5. Measures(rows'[1])
  <2>1. Measures(DistanceMatrix(stops, stops, failing))
    BY <1>2, <1>3, MatrixIsMeasured
  <2>2. rows'[1] = DistanceMatrix(stops, stops, failing)
    BY <1>4
  <2> QED
    BY <2>1, <2>2
<1>6. tour' = tour
  BY DEF RouteStops
<1>7. Geocoded'
  <2>1. UNCHANGED <<task, found>>
    BY DEF RouteStops
  <2> QED
    BY <1>1, <2>1 DEF Geocoded
<1> QED
  BY <1>5, <1>6, <1>7 DEF TripInv

LEMMA TripOrder ==
  ASSUME TripInv, OrderStops
  PROVE  TripInv'
<1>1. found # <<>> /\ Geocoded /\ task.about = "trip" /\ rows # <<>> /\ Measures(rows[1])
  BY DEF OrderStops, About, TripInv
<1>2. Len(Stops) \in Nat
  <2>1. Stops \in Lists
    BY <1>1, StopsAreRows
  <2> QED
    BY <2>1 DEF Lists
<1>3. PICK it \in Itineraries :
        /\ MatrixArgument(rows[1], Len(Stops), it.metric) # <<>>
        /\ LET trip == TripOf(it, Len(Stops), MatrixArgument(rows[1], Len(Stops), it.metric)[1])
           IN ~TourRefuses(trip, it.metric) /\ tour' = <<[trip |-> trip, result |-> Planned(trip)]>>
  BY DEF OrderStops
<1>4. PICK leg : leg = MatrixArgument(rows[1], Len(Stops), it.metric)[1]
  OBVIOUS
<1>5. leg \in [1 .. Len(Stops) -> [1 .. Len(Stops) -> Nat]] /\ \A i \in 1 .. Len(Stops) : leg[i][i] = 0
  BY <1>1, <1>2, <1>3, <1>4, ArgumentIsSquare
<1>6. PICK trip : trip = TripOf(it, Len(Stops), leg)
  OBVIOUS
<1>7. ~TourRefuses(trip, it.metric) /\ tour' = <<[trip |-> trip, result |-> Planned(trip)]>>
  BY <1>3, <1>4, <1>6
<1>8. Accepted(trip) /\ (trip.fixed => Freed(trip, [trip EXCEPT !.fixed = FALSE]))
  BY Zenon, <1>2, <1>5, <1>6, <1>7, TripIsAccepted
<1>9. tour'[1].trip = trip /\ tour'[1].result = Planned(trip)
  BY <1>7
<1>10. UNCHANGED <<task, found, rows>>
  BY DEF OrderStops
<1>11. Geocoded'
  BY <1>1, <1>10 DEF Geocoded
<1> QED
  BY <1>1, <1>8, <1>9, <1>10, <1>11 DEF TripInv

LEMMA TripStep ==
  ASSUME TripInv, [Next]_vars
  PROVE  TripInv'
<1>1. Geocoded /\ Geocoded'
  BY GeocodedStep DEF TripInv
<1>2. CASE UNCHANGED <<task, rows, tour>>
  BY <1>1, <1>2 DEF TripInv
<1>3. CASE RouteCandidates
  <2>1. task.about = "choice" /\ task' = task /\ tour' = tour
    BY <1>3 DEF RouteCandidates, About
  <2> QED
    BY <1>1, <2>1 DEF TripInv
<1>4. Next => RouteStops \/ OrderStops \/ RouteCandidates \/ UNCHANGED <<task, rows, tour>>
  BY Zenon DEF Next, Geocode, FollowLegs, TotalLegs, CompareGroups, MatchTrip, RunStep, Select,
         Retrieve, Narrow, Recover, Rank, MatchChoice, results
<1>5. UNCHANGED vars => UNCHANGED <<task, rows, tour>>
  BY DEF vars
<1> QED
  BY <1>2, <1>3, <1>4, <1>5, TripRoute, TripOrder

\* For any matrix, windows, stays and budget of a trip whose start is open at once (and has no stay,
\* when the order is stated), a tour is over within the budget and serves every stop while it is
\* open, but for the end the fallback appends without asking its window (tsp_tw).
THEOREM ToursServeWhileOpen == Spec => []ServedWhileOpen
<1>1. Init => TripInv
  BY DEF Init, TripInv, Geocoded
<1>2. TripInv /\ [Next]_vars => TripInv'
  BY TripStep
<1>3. TripInv => ServedWhileOpen
  <2> SUFFICES ASSUME TripInv, tour # <<>>, LeavesFreely(tour[1].trip), tour[1].result.visited > 0
               PROVE  Timely(tour[1].trip, tour[1].result)
    BY Zenon DEF ServedWhileOpen, Timely
  <2>1. PICK t : t = tour[1].trip
    OBVIOUS
  <2>2. Accepted(t) /\ tour[1].result = Planned(t)
    BY <2>1 DEF TripInv
  <2>3. Planned(t).visited > 0 /\ t.open[t.start] = 0 /\ (t.fixed => t.stay[t.start] = 0)
    BY <2>1, <2>2 DEF LeavesFreely
  <2> QED
    BY <2>1, <2>2, <2>3, PlannedIsTimely
<1> QED
  BY <1>1, <1>2, <1>3, PTL DEF Spec

\* The exact search finds what the stated order found, and nothing dearer.
THEOREM FreedomCostsNothing == Spec => []FreedomNeverCostsMore
<1>1. Init => TripInv
  BY DEF Init, TripInv, Geocoded
<1>2. TripInv /\ [Next]_vars => TripInv'
  BY TripStep
<1>3. TripInv => FreedomNeverCostsMore
  <2> DEFINE t == tour[1].trip
             r == tour[1].result
             u == [t EXCEPT !.fixed = FALSE]
             free == Planned(u)
  <2> SUFFICES ASSUME TripInv, tour # <<>>, t.fixed, LeavesFreely(t), 0 <= t.close[t.start],
                      0 <= t.budget, r.unvisited = {}
               PROVE  /\ free.objective = "optimal_order" /\ free.unvisited = {}
                      /\ free.total <= r.total
    BY Zenon DEF FreedomNeverCostsMore
  <2>1. Accepted(t) /\ r = Planned(t) /\ Freed(t, u)
    BY DEF TripInv
  <2>2. t.open[t.start] = 0 /\ t.stay[t.start] = 0
    BY DEF LeavesFreely
  <2> HIDE DEF t, r, u
  <2> QED
    BY <2>1, <2>2, FreedomCostsNoMore
<1> QED
  BY <1>1, <1>2, <1>3, PTL DEF Spec

-----------------------------------------------------------------------------
\* Totals, turn by turn.

\* The running sum of the first n of a sequence of numbers.
Sums(s, n, run) ==
  /\ run \in [0 .. n -> Int] /\ run[0] = 0
  /\ \A k \in 1 .. n : run[k] = run[k - 1] + s[k]

LEMMA TotalRuns ==
  ASSUME NEW s \in Seq(Int)
  PROVE  \E run : Sums(s, Len(s), run) /\ Total(s) = run[Len(s)]
<1> DEFINE N == Len(s)
           turn == [n \in 1 .. N |-> [x \in Int |-> x + s[n]]]
           Loop(f) == f = [n \in 0 .. Len(s) |-> IF n = 0 THEN 0 ELSE f[n - 1] + s[n]]
<1>1. N \in Nat /\ \A n \in 1 .. N : s[n] \in Int
  OBVIOUS
<1>2. PICK run : Run(N, Int, 0, turn, run)
  <2>1. Turns(N, Int, turn)
    BY <1>1 DEF Turns
  <2>2. 0 \in Int
    OBVIOUS
  <2> HIDE DEF N, turn
  <2> QED
    BY Zenon, <1>1, <2>1, <2>2, LoopRuns
<1>3. run \in [0 .. N -> Int] /\ run[0] = 0 /\ \A n \in 1 .. N : run[n] = run[n - 1] + s[n]
  <2>1. /\ run \in [0 .. N -> Int] /\ run[0] = 0
        /\ \A n \in 1 .. N : run[n] = turn[n][run[n - 1]]
    BY <1>2 DEF Run
  <2>2. ASSUME NEW n \in 1 .. N
        PROVE  run[n] = run[n - 1] + s[n]
    <3>0. n - 1 \in 0 .. N
      BY <1>1
    <3>1. run[n - 1] \in Int
      <4> HIDE DEF turn, Loop, N
      <4> QED
        BY <2>1, <3>0
    <3>2. turn[n] = [x \in Int |-> x + s[n]]
      OBVIOUS
    <3>3. turn[n][run[n - 1]] = run[n - 1] + s[n]
      BY <3>1, <3>2
    <3> QED
      BY <2>1, <3>3
  <2> QED
    BY <2>1, <2>2
<1>4. Loop(run)
  <2>1. run = [n \in 0 .. N |-> run[n]]
    BY <1>3
  <2>2. \A n \in 0 .. N : run[n] = IF n = 0 THEN 0 ELSE run[n - 1] + s[n]
    <3> TAKE n \in 0 .. N
    <3>1. n # 0 => n \in 1 .. N
      BY <1>1
    <3> QED
      BY <1>3, <3>1
  <2> QED
    BY Zenon, <2>1, <2>2
<1>5. PICK f : f = CHOOSE g : Loop(g)
  OBVIOUS
<1>6. Loop(f)
  BY Zenon, <1>4, <1>5
<1>7. Total(s) = f[N]
  BY <1>5 DEF Total
<1> DEFINE T == {n \in 0 .. N : f[n] = run[n]}
<1>8. 0 .. N \subseteq T
  <2>1. T \in SUBSET Nat /\ 0 \in T
    <3>1. 0 \in 0 .. N
      BY <1>1
    <3> QED
      BY <1>3, <1>6, <3>1
  <2>2. ASSUME NEW n \in 0 .. N - 1, n \in T
        PROVE  n + 1 \in T
    <3>1. n + 1 \in 1 .. N /\ n + 1 \in 0 .. N /\ (n + 1) - 1 = n /\ n + 1 # 0
      BY <1>1
    <3>2. f[n + 1] = f[n] + s[n + 1]
      BY <1>6, <3>1
    <3>3. run[n + 1] = run[n] + s[n + 1]
      BY <1>3, <3>1
    <3> QED
      BY <2>2, <3>1, <3>2, <3>3
  <2> HIDE DEF T, N
  <2> QED
    BY Zenon, <1>1, <2>1, <2>2, UpTo
<1>9. N \in 0 .. N
  BY <1>1
<1>10. Total(s) = run[N] /\ Sums(s, N, run)
  BY <1>3, <1>7, <1>8, <1>9 DEF Sums
<1> QED
  BY <1>10

\* Running sums of sequences that agree so far.
LEMMA SumsAgree ==
  ASSUME NEW N \in Nat, NEW s, NEW u, NEW p, NEW q, Sums(s, N, p), NEW M \in Nat, Sums(u, M, q), N <= M,
         \A k \in 1 .. N : s[k] = u[k]
  PROVE  p[N] = q[N]
<1> DEFINE T == {n \in 0 .. N : p[n] = q[n]}
<1>1. 0 \in T /\ T \in SUBSET Nat
  BY DEF Sums
<1>2. ASSUME NEW n \in 0 .. N - 1, n \in T
      PROVE  n + 1 \in T
  <2>1. n + 1 \in 1 .. N /\ n + 1 \in 1 .. M /\ (n + 1) - 1 = n /\ n + 1 \in 0 .. N
    OBVIOUS
  <2>2. p[n + 1] = p[n] + s[n + 1] /\ q[n + 1] = q[n] + u[n + 1]
    BY <2>1 DEF Sums
  <2> QED
    BY <1>2, <2>1, <2>2
<1> HIDE DEF T
<1>3. 0 .. N \subseteq T
  BY <1>1, <1>2, UpTo
<1> QED
  BY <1>3 DEF T

LEMMA TotalIsSum ==
  ASSUME NEW N \in Nat, NEW s \in [1 .. N -> Int], NEW run, Sums(s, N, run)
  PROVE  Total(s) = run[N]
<1>1. s \in Seq(Int) /\ Len(s) = N
  OBVIOUS
<1>2. PICK p : Sums(s, N, p) /\ Total(s) = p[N]
  BY <1>1, TotalRuns
<1> QED
  BY <1>2, SumsAgree

LEMMA TotalOfMore ==
  ASSUME NEW N \in Nat, NEW s \in [1 .. N -> Int], NEW u \in [1 .. N + 1 -> Int],
         \A k \in 1 .. N : u[k] = s[k]
  PROVE  Total(s) \in Int /\ Total(u) = Total(s) + u[N + 1]
<1>1. s \in Seq(Int) /\ Len(s) = N /\ u \in Seq(Int) /\ Len(u) = N + 1 /\ N + 1 \in Nat
  OBVIOUS
<1>2. PICK p : Sums(s, N, p) /\ Total(s) = p[N]
  BY Zenon, <1>1, TotalRuns
<1>3. PICK q : Sums(u, N + 1, q) /\ Total(u) = q[N + 1]
  BY <1>1, TotalRuns
<1>4. p[N] = q[N]
  BY <1>1, <1>2, <1>3, SumsAgree
<1>5. N + 1 \in 1 .. N + 1 /\ (N + 1) - 1 = N /\ N \in 0 .. N
  OBVIOUS
<1>6. q[N + 1] = q[N] + u[N + 1] /\ p[N] \in Int
  BY <1>2, <1>3, <1>5 DEF Sums
<1> QED
  BY <1>2, <1>3, <1>4, <1>6

-----------------------------------------------------------------------------
\* Tours: what is driven.

\* What is driven along an order.
DrivesOf(t, order) == [k \in 1 .. Len(order) - 1 |-> t.leg[order[k]][order[k + 1]]]
StaysOf(t, order) == [k \in DOMAIN order |-> t.stay[order[k]]]
Drives(t, order) == Total(DrivesOf(t, order))

\* Open from the start, no stop takes less than no time.
NeverWaits(t) == \A i \in 1 .. t.n : t.open[i] = 0 /\ 0 <= t.stay[i]

LEMMA LegalIs ==
  ASSUME NEW t, Accepted(t), NEW order, Legal(t, order)
  PROVE  /\ Len(order) \in Nat \ {0} /\ DOMAIN order = 1 .. Len(order) /\ Len(order) - 1 \in Nat
         /\ \A k \in 1 .. Len(order) : order[k] \in 1 .. t.n
         /\ DrivesOf(t, order) \in [1 .. Len(order) - 1 -> Int]
         /\ \A k \in 1 .. Len(order) - 1 : DrivesOf(t, order)[k] \in Nat
         /\ StaysOf(t, order) \in [1 .. Len(order) -> Int]
<1> DEFINE S == 1 .. t.n
<1>1. order \in Seq(S) /\ order # <<>>
  BY DEF Legal
<1> HIDE DEF S
<1>2. /\ Len(order) \in Nat \ {0} /\ DOMAIN order = 1 .. Len(order) /\ Len(order) - 1 \in Nat
      /\ \A k \in 1 .. Len(order) : order[k] \in S
  BY <1>1
<1>3. ASSUME NEW k \in 1 .. Len(order) - 1
      PROVE  t.leg[order[k]][order[k + 1]] \in Nat
  <2>1. k \in 1 .. Len(order) /\ k + 1 \in 1 .. Len(order)
    BY <1>2
  <2>2. order[k] \in 1 .. t.n /\ order[k + 1] \in 1 .. t.n
    BY <1>2, <2>1 DEF S
  <2> QED
    BY <2>2, LegIsNat
<1>4. \A k \in 1 .. Len(order) : t.stay[order[k]] \in Int
  BY Zenon, <1>2 DEF S, Accepted
<1>5. /\ DrivesOf(t, order) \in [1 .. Len(order) - 1 -> Int]
      /\ \A k \in 1 .. Len(order) - 1 : DrivesOf(t, order)[k] \in Nat
  <2>1. DrivesOf(t, order) = [k \in 1 .. Len(order) - 1 |-> t.leg[order[k]][order[k + 1]]]
    BY DEF DrivesOf
  <2> QED
    BY <1>3, <2>1
<1>6. StaysOf(t, order) \in [1 .. Len(order) -> Int]
  <2>1. StaysOf(t, order) = [k \in 1 .. Len(order) |-> t.stay[order[k]]]
    BY <1>2 DEF StaysOf
  <2> QED
    BY <1>4, <2>1
<1> QED
  BY <1>2, <1>5, <1>6 DEF S

\* Without waiting, the clock is what was driven and what was spent at the stops.
LEMMA ClockIsSum ==
  ASSUME NEW t, Accepted(t), NeverWaits(t), NEW route, Legal(t, route)
  PROVE  ServedAt(t, route)[Len(route)] = Stays(t, route) + Drives(t, route)
<1> DEFINE N == Len(route)
           at == ServedAt(t, route)
           d == DrivesOf(t, route)
           s == StaysOf(t, route)
<1>1. /\ N \in Nat \ {0} /\ N - 1 \in Nat
      /\ \A k \in 1 .. N : route[k] \in 1 .. t.n
      /\ d \in [1 .. N - 1 -> Int] /\ s \in [1 .. N -> Int]
      /\ \A k \in 1 .. N - 1 : d[k] \in Nat
  BY LegalIs
<1>2. Clock(t, route, at)
  BY ClockRuns
<1>3. \A k \in 1 .. N : s[k] = t.stay[route[k]]
  BY <1>1 DEF StaysOf
<1>4. \A k \in 1 .. N - 1 : d[k] = t.leg[route[k]][route[k + 1]]
  BY DEF DrivesOf
<1>5. Stays(t, route) = Total(s) /\ Drives(t, route) = Total(d)
  BY DEF Stays, StaysOf, Drives
<1> HIDE DEF d, s, at, N
<1>6. PICK p : Sums(s, N, p) /\ Total(s) = p[N]
  <2>1. s \in Seq(Int) /\ Len(s) = N
    BY <1>1
  <2> QED
    BY <2>1, TotalRuns
<1>7. PICK q : Sums(d, N - 1, q) /\ Total(d) = q[N - 1]
  <2>1. d \in Seq(Int) /\ Len(d) = N - 1
    BY <1>1
  <2> QED
    BY <2>1, TotalRuns
<1> DEFINE T == {n \in 0 .. N : n = 0 \/ (at[n] = p[n] + q[n - 1] /\ at[n] \in Nat)}
<1>8. 0 \in T /\ T \in SUBSET Nat
  BY <1>1
<1>9. ASSUME NEW n \in 0 .. N - 1, n \in T
      PROVE  n + 1 \in T
  <2>1. n + 1 \in 1 .. N /\ n + 1 \in 0 .. N /\ (n + 1) - 1 = n /\ n \in 0 .. N - 1 /\ n \in 0 .. N
    BY <1>1
  <2>2. p[n + 1] = p[n] + s[n + 1] /\ p[n] \in Int /\ q[n] \in Int
    BY <1>6, <1>7, <2>1 DEF Sums
  <2>3. s[n + 1] = t.stay[route[n + 1]] /\ route[n + 1] \in 1 .. t.n
    BY <1>1, <1>3, <2>1
  <2>4. t.open[route[n + 1]] = 0 /\ s[n + 1] \in Nat
    <3>1. s[n + 1] \in Int
      BY <1>1, <2>1
    <3> QED
      BY <2>3, <3>1 DEF NeverWaits
  <2>5. at[n + 1] = Served(t, route[n + 1], IF n + 1 = 1 THEN 0 ELSE at[n] + t.leg[route[n]][route[n + 1]])
    BY <1>2, <2>1 DEF Clock, N
  <2>6. ASSUME NEW x \in Nat
        PROVE  Served(t, route[n + 1], x) = x + s[n + 1]
    BY <2>3, <2>4, LaterOf DEF Served
  <2>7. CASE n = 0
    <3>1. at[n + 1] = 0 + s[n + 1]
      BY <2>5, <2>6, <2>7
    <3>2. p[n] = 0 /\ q[n] = 0
      BY <1>6, <1>7, <2>7 DEF Sums
    <3> QED
      BY <2>1, <2>2, <2>4, <2>7, <3>1, <3>2
  <2>8. CASE n # 0
    <3>1. n \in 1 .. N - 1 /\ n - 1 \in 0 .. N - 1 /\ n + 1 # 1
      BY <1>1, <2>1, <2>8
    <3>2. at[n] = p[n] + q[n - 1] /\ at[n] \in Nat
      BY <1>9, <2>8
    <3>3. d[n] = t.leg[route[n]][route[n + 1]] /\ d[n] \in Nat
      BY Zenon, <1>1, <1>4, <3>1
    <3>4. q[n] = q[n - 1] + d[n] /\ q[n - 1] \in Int
      BY <1>7, <3>1 DEF Sums
    <3>5. at[n + 1] = (at[n] + d[n]) + s[n + 1]
      <4>1. at[n + 1] = Served(t, route[n + 1], at[n] + d[n])
        BY <2>5, <3>1, <3>3
      <4>2. at[n] + d[n] \in Nat
        BY <3>2, <3>3
      <4> QED
        BY <4>1, <4>2, <2>6
    <3>6. at[n + 1] \in Nat
      BY <2>4, <3>2, <3>3, <3>5
    <3>7. at[n + 1] = p[n + 1] + q[n]
      BY <2>2, <2>4, <3>2, <3>3, <3>4, <3>5
    <3> QED
      BY <2>1, <3>6, <3>7
  <2> QED
    BY <2>7, <2>8
<1>10. N \in T
  <2>1. N \in Nat /\ N \in 0 .. N
    BY <1>1
  <2> HIDE DEF T
  <2> QED
    BY <1>8, <1>9, <2>1, UpTo
<1>11. at[N] = p[N] + q[N - 1]
  BY <1>1, <1>10
<1> QED
  BY <1>5, <1>6, <1>7, <1>11 DEF at, N

\* One more stop.
LEMMA SpentOnMore ==
  ASSUME NEW t, Accepted(t), NEW order, Legal(t, order), NEW i \in 1 .. t.n
  PROVE  /\ Legal(t, Append(order, i))
         /\ Stays(t, order) \in Int /\ Drives(t, order) \in Int
         /\ Stays(t, Append(order, i)) = Stays(t, order) + t.stay[i]
         /\ Drives(t, Append(order, i)) = Drives(t, order) + t.leg[Last(order)][i]
<1> DEFINE more == Append(order, i)
           N == Len(order)
<1>1. Legal(t, more)
  BY ClockGoesOn
<1>2. /\ N \in Nat \ {0} /\ N - 1 \in Nat
      /\ DrivesOf(t, order) \in [1 .. N - 1 -> Int] /\ StaysOf(t, order) \in [1 .. N -> Int]
      /\ DOMAIN order = 1 .. N
  BY LegalIs
<1>3. /\ Len(more) = N + 1 /\ more[N + 1] = i /\ \A k \in 1 .. N : more[k] = order[k]
      /\ DOMAIN more = 1 .. N + 1
  BY DEF Legal
<1>4. /\ DrivesOf(t, more) \in [1 .. (N - 1) + 1 -> Int] /\ StaysOf(t, more) \in [1 .. N + 1 -> Int]
  <2>1. (N + 1) - 1 = (N - 1) + 1
    BY <1>2
  <2> HIDE DEF more, N
  <2>2. DrivesOf(t, more) \in [1 .. (N + 1) - 1 -> Int] /\ StaysOf(t, more) \in [1 .. N + 1 -> Int]
    BY <1>1, <1>3, LegalIs
  <2> QED
    BY <2>1, <2>2
<1> HIDE DEF more
<1>5. \A k \in 1 .. N - 1 : DrivesOf(t, more)[k] = DrivesOf(t, order)[k]
  <2> TAKE k \in 1 .. N - 1
  <2>1. k \in 1 .. N /\ k + 1 \in 1 .. N /\ k \in 1 .. Len(more) - 1
    BY <1>2, <1>3
  <2> QED
    BY <1>3, <2>1 DEF DrivesOf
<1>6. DrivesOf(t, more)[(N - 1) + 1] = t.leg[Last(order)][i]
  <2>1. (N - 1) + 1 = N /\ N \in 1 .. Len(more) - 1 /\ N \in 1 .. N
    BY <1>2, <1>3
  <2> QED
    BY <1>3, <2>1 DEF DrivesOf, Last
<1>7. \A k \in 1 .. N : StaysOf(t, more)[k] = StaysOf(t, order)[k]
  <2> TAKE k \in 1 .. N
  <2>1. k \in 1 .. N + 1
    BY <1>2
  <2> QED
    BY <1>2, <1>3, <2>1 DEF StaysOf
<1>8. StaysOf(t, more)[N + 1] = t.stay[i]
  <2>1. N + 1 \in 1 .. N + 1
    BY <1>2
  <2> QED
    BY <1>3, <2>1 DEF StaysOf
<1>9. Total(StaysOf(t, order)) \in Int /\ Total(StaysOf(t, more)) = Total(StaysOf(t, order)) + t.stay[i]
  BY Zenon, <1>2, <1>4, <1>7, <1>8, TotalOfMore
<1>10. /\ Total(DrivesOf(t, order)) \in Int
       /\ Total(DrivesOf(t, more)) = Total(DrivesOf(t, order)) + t.leg[Last(order)][i]
  <2> DEFINE M == N - 1
  <2>1. /\ M \in Nat /\ DrivesOf(t, order) \in [1 .. M -> Int] /\ DrivesOf(t, more) \in [1 .. M + 1 -> Int]
        /\ \A k \in 1 .. M : DrivesOf(t, more)[k] = DrivesOf(t, order)[k]
        /\ DrivesOf(t, more)[M + 1] = t.leg[Last(order)][i]
    BY <1>2, <1>4, <1>5, <1>6
  <2> HIDE DEF M
  <2> QED
    BY Zenon, <2>1, TotalOfMore
<1> QED
  BY Zenon, <1>1, <1>9, <1>10 DEF more, Stays, StaysOf, Drives

\* A walk whose time was all driven or spent at its stops.
Spent(t, walk) == walk.at = Stays(t, walk.order) + Drives(t, walk.order)

\* What a tour reports as driven is what its order drives.
LEMMA TourDrives ==
  ASSUME NEW t, Accepted(t), NEW walk \in Walks(t), Spent(t, walk), NEW objective,
         NEW r, r = Tour(t, walk, objective)
  PROVE  Legal(t, r.order) /\ r.travel = Drives(t, r.order)
<1> DEFINE order == walk.order
           home == t.loop /\ (objective = "optimal_order" \/ Last(order) # t.start)
<1>1. /\ r.order = IF home THEN Append(order, t.start) ELSE order
      /\ r.travel = (walk.at + (IF home THEN t.leg[Last(order)][t.start] ELSE 0)) - Stays(t, order)
  BY DEF Tour
<1>2. Legal(t, order) /\ walk.at \in Int /\ t.start \in 1 .. t.n /\ Last(order) \in 1 .. t.n
  BY WalkIsLegal DEF Accepted
<1>3. /\ Legal(t, Append(order, t.start)) /\ Stays(t, order) \in Int /\ Drives(t, order) \in Int
      /\ Drives(t, Append(order, t.start)) = Drives(t, order) + t.leg[Last(order)][t.start]
  BY <1>2, SpentOnMore
<1>4. t.leg[Last(order)][t.start] \in Nat
  BY <1>2, LegIsNat
<1>5. walk.at = Stays(t, order) + Drives(t, order)
  BY DEF Spent
<1> HIDE DEF order
<1>6. CASE home
  BY <1>1, <1>3, <1>4, <1>5, <1>6
<1>7. CASE ~home
  BY <1>1, <1>2, <1>3, <1>5, <1>7
<1> QED
  BY <1>6, <1>7

LEMMA EndedIsSpent ==
  ASSUME NEW t, Accepted(t), NEW walk \in Walks(t), Spent(t, walk)
  PROVE  WithEnd(t, walk) \in Walks(t) /\ Spent(t, WithEnd(t, walk))
<1> DEFINE finish == walk.at + t.leg[Last(walk.order)][t.end] + t.stay[t.end]
<1>1. CASE t.end = 0 \/ finish > t.budget
  <2>1. WithEnd(t, walk) = walk
    BY <1>1 DEF WithEnd
  <2> QED
    BY <2>1
<1>2. CASE ~(t.end = 0 \/ finish > t.budget)
  <2> DEFINE more == Append(walk.order, t.end)
             ended == [order |-> more, at |-> finish]
  <2>1. WithEnd(t, walk) = ended
    BY <1>2 DEF WithEnd
  <2>2. t.end \in 1 .. t.n
    BY <1>2 DEF Accepted
  <2>3. Legal(t, walk.order) /\ walk.at \in Int /\ Last(walk.order) \in 1 .. t.n
    BY WalkIsLegal
  <2>4. t.leg[Last(walk.order)][t.end] \in Nat /\ t.stay[t.end] \in Int
    BY Zenon, <2>2, <2>3, LegIsNat DEF Accepted
  <2>5. /\ Legal(t, more) /\ Stays(t, walk.order) \in Int /\ Drives(t, walk.order) \in Int
        /\ Stays(t, more) = Stays(t, walk.order) + t.stay[t.end]
        /\ Drives(t, more) = Drives(t, walk.order) + t.leg[Last(walk.order)][t.end]
    BY <2>2, <2>3, SpentOnMore
  <2>6. finish \in Int /\ finish = Stays(t, more) + Drives(t, more)
    BY <2>3, <2>4, <2>5 DEF Spent
  <2> HIDE DEF more, finish
  <2>7. ended \in Walks(t) /\ ended.order = more /\ ended.at = finish
    BY <2>5, <2>6 DEF Walks, Legal
  <2> QED
    BY <2>1, <2>6, <2>7 DEF Spent
<1> QED
  BY <1>1, <1>2

\* Of any tour.
LEMMA PlannedDrives ==
  ASSUME NEW t, Accepted(t), NeverWaits(t), t.fixed => t.stay[t.start] = 0,
         NEW r, r = Planned(t)
  PROVE  Legal(t, r.order) /\ r.travel = Drives(t, r.order)
<1>0. t.start \in 1 .. t.n /\ t.open[t.start] = 0
  BY DEF Accepted, NeverWaits
<1>1. ASSUME NEW walk \in Walks(t), walk.at = ServedAt(t, walk.order)[Len(walk.order)]
      PROVE  Spent(t, walk)
  <2>1. Legal(t, walk.order)
    BY WalkIsLegal
  <2> QED
    BY <1>1, <2>1, ClockIsSum DEF Spent
<1>2. CASE t.fixed
  <2>1. r = Tour(t, Walk(t), "stated_order")
    BY <1>2 DEF Planned
  <2>2. Walk(t) \in Walks(t) /\ Sound(t, Walk(t))
    BY <1>0, <1>2, WalkIsStated DEF Stated
  <2>3. Spent(t, Walk(t))
    BY <1>1, <2>2 DEF Sound
  <2> QED
    BY <2>1, <2>2, <2>3, TourDrives
<1>3. CASE ~t.fixed /\ Fitting(t) # {}
  <2>1. PICK walk : walk = [order |-> Best(t), at |-> ServedAt(t, Best(t))[Len(Best(t))]]
    BY Zenon
  <2>2. r = Tour(t, walk, "optimal_order")
    BY <1>3, <2>1 DEF Planned
  <2>3. walk \in Walks(t)
    BY <1>3, <2>1, BestIsWalk
  <2>4. Spent(t, walk)
    BY <1>1, <2>1, <2>3
  <2> QED
    BY <2>2, <2>3, <2>4, TourDrives
<1>4. CASE ~t.fixed /\ Fitting(t) = {}
  <2>1. r = Tour(t, WithEnd(t, Greedy(t)), "greedy_partial")
    BY <1>4 DEF Planned
  <2>2. Greedy(t) \in Walks(t) /\ Sound(t, Greedy(t))
    BY <1>0, GreedyIsSound
  <2>3. Spent(t, Greedy(t))
    BY <1>1, <2>2 DEF Sound
  <2> QED
    BY <2>1, <2>2, <2>3, EndedIsSpent, TourDrives
<1> QED
  BY <1>2, <1>3, <1>4

-----------------------------------------------------------------------------
\* Matrices: the square of the pairs, and its labels.

\* The cell of a square of side w at row i and column j, its cells laid out row by row.
CellAt(w, i, j) == (i - 1) * w + j
RowOf(w, k) == ((k - 1) \div w) + 1
ColumnOf(w, k) == ((k - 1) % w) + 1

LEMMA OneQuotient ==
  ASSUME NEW w \in Nat \ {0}, NEW p \in Nat, NEW q \in Nat, NEW a \in 0 .. w - 1, NEW b \in 0 .. w - 1,
         p * w + a = q * w + b
  PROVE  p = q /\ a = b
<1>1. ASSUME NEW x \in Nat, NEW y \in Nat, x + 1 <= y
      PROVE  x * w + w <= y * w
  <2>1. (x + 1) * w <= y * w
    BY <1>1, TimesIsMonotone
  <2>2. (x + 1) * w = x * w + w
    OBVIOUS
  <2> QED
    BY <2>1, <2>2
<1>2. p * w \in Nat /\ q * w \in Nat
  OBVIOUS
<1>3. ~(p + 1 <= q)
  <2> SUFFICES ASSUME p + 1 <= q PROVE FALSE
    OBVIOUS
  <2>1. p * w + w <= q * w
    BY <1>1
  <2> HIDE <1>1
  <2> QED
    BY <2>1, <1>2
<1>4. ~(q + 1 <= p)
  <2> SUFFICES ASSUME q + 1 <= p PROVE FALSE
    OBVIOUS
  <2>1. q * w + w <= p * w
    BY <1>1
  <2> QED
    BY <2>1, <1>2
<1>5. p = q
  BY <1>3, <1>4
<1> QED
  BY <1>2, <1>5

LEMMA CellIsThere ==
  ASSUME NEW w \in Nat \ {0}, NEW i \in 1 .. w, NEW j \in 1 .. w
  PROVE  /\ CellAt(w, i, j) \in 1 .. w * w
         /\ RowOf(w, CellAt(w, i, j)) = i /\ ColumnOf(w, CellAt(w, i, j)) = j
<1>1. (i - 1) * w \in Nat /\ w * w \in Nat
  OBVIOUS
<1>2. (i - 1) * w + w <= w * w
  <2>1. i * w <= w * w
    BY TimesIsMonotone
  <2>2. (i - 1) * w + w = i * w
    OBVIOUS
  <2> QED
    BY <2>1, <2>2
<1>3. PICK k \in Nat : k = (i - 1) * w + (j - 1)
  BY <1>1
<1>4. CellAt(w, i, j) = k + 1 /\ CellAt(w, i, j) \in 1 .. w * w
  <2>1. CellAt(w, i, j) = k + 1
    BY <1>1, <1>3 DEF CellAt
  <2>2. k + 1 <= w * w
    BY <1>1, <1>2, <1>3
  <2> QED
    BY <1>1, <2>1, <2>2
<1>5. /\ k \div w \in Nat /\ k % w \in 0 .. w - 1 /\ k = w * (k \div w) + (k % w)
  OBVIOUS
<1>6. PICK q \in Nat, b \in 0 .. w - 1 : q = k \div w /\ b = k % w
  BY <1>5
<1>7. q * w + b = (i - 1) * w + (j - 1)
  <2>1. w * q = q * w
    OBVIOUS
  <2> QED
    BY <1>3, <1>5, <1>6, <2>1
<1>8. i - 1 = q /\ j - 1 = b
  <2>1. i - 1 \in Nat /\ j - 1 \in 0 .. w - 1
    OBVIOUS
  <2> QED
    BY <1>7, <2>1, OneQuotient
<1>9. (CellAt(w, i, j) - 1) = k
  BY <1>4
<1> QED
  BY <1>4, <1>6, <1>8, <1>9 DEF RowOf, ColumnOf

LEMMA CellIsOne ==
  ASSUME NEW w \in Nat \ {0}, NEW k \in 1 .. w * w
  PROVE  /\ RowOf(w, k) \in 1 .. w /\ ColumnOf(w, k) \in 1 .. w
         /\ k = CellAt(w, RowOf(w, k), ColumnOf(w, k))
<1>1. w * w \in Nat /\ k - 1 \in Nat /\ k - 1 < w * w
  OBVIOUS
<1>2. PICK m \in Nat : m = k - 1
  BY <1>1
<1>3. m \div w \in Nat /\ m \div w < w
  BY <1>1, <1>2, QuotientIsBelow
<1>4. m % w \in 0 .. w - 1 /\ m = w * (m \div w) + (m % w)
  OBVIOUS
<1>5. PICK q \in Nat, b \in 0 .. w - 1 : q = m \div w /\ b = m % w
  BY <1>3, <1>4
<1>6. RowOf(w, k) = q + 1 /\ ColumnOf(w, k) = b + 1
  BY <1>2, <1>5 DEF RowOf, ColumnOf
<1>7. CellAt(w, q + 1, b + 1) = k
  <2>1. (q + 1) - 1 = q /\ w * q = q * w /\ q * w \in Nat
    OBVIOUS
  <2>2. CellAt(w, q + 1, b + 1) = q * w + (b + 1)
    BY <2>1 DEF CellAt
  <2>3. m = q * w + b
    BY <1>4, <1>5, <2>1
  <2> QED
    BY <1>1, <1>2, <2>1, <2>2, <2>3
<1> QED
  BY <1>3, <1>5, <1>6, <1>7

\* The pairs of a list of stops with itself.
IsGrid(row, stops) ==
  LET w == Len(stops)
  IN /\ DOMAIN row = 1 .. w * w /\ Len(row) = w * w
     /\ \A i, j \in 1 .. w : row[CellAt(w, i, j)].from = stops[i] /\ row[CellAt(w, i, j)].to = stops[j]
     /\ \A i \in 1 .. w : stops[i] # <<>> =>
          row[CellAt(w, i, i)].ok /\ row[CellAt(w, i, i)].m = 0 /\ row[CellAt(w, i, i)].s = 0

LEMMA MatrixIsGrid ==
  ASSUME NEW stops, Len(stops) \in Nat \ {0}, NEW failing
  PROVE  IsGrid(DistanceMatrix(stops, stops, failing), stops)
<1> DEFINE w == Len(stops)
           row == DistanceMatrix(stops, stops, failing)
           Pair(i, j) == RoutedPair(stops[i], stops[j], <<i, j>> \in failing)
<1>1. row = [k \in 1 .. w * w |-> Pair(RowOf(w, k), ColumnOf(w, k))]
  BY DEF DistanceMatrix, RowOf, ColumnOf
<1>2. w \in Nat \ {0} /\ w * w \in Nat
  OBVIOUS
<1> HIDE DEF row
<1>3. DOMAIN row = 1 .. w * w /\ Len(row) = w * w
  BY <1>1, <1>2
<1> HIDE DEF w
<1>4. \A i, j \in 1 .. w : row[CellAt(w, i, j)] = Pair(i, j)
  <2> TAKE i, j \in 1 .. w
  <2>1. CellAt(w, i, j) \in 1 .. w * w /\ RowOf(w, CellAt(w, i, j)) = i /\ ColumnOf(w, CellAt(w, i, j)) = j
    BY Zenon, <1>2, CellIsThere
  <2> QED
    BY <1>1, <2>1
<1>5. \A i, j \in 1 .. w : Pair(i, j).from = stops[i] /\ Pair(i, j).to = stops[j]
  BY DEF RoutedPair
<1>6. \A i \in 1 .. w : stops[i] # <<>> => Pair(i, i).ok /\ Pair(i, i).m = 0 /\ Pair(i, i).s = 0
  BY DEF RoutedPair, SameEndpoint
<1> HIDE DEF Pair
<1> QED
  BY <1>3, <1>4, <1>5, <1>6 DEF IsGrid, row, w

\* The names of places, and the labels after the first k of some stops: no name twice, every stop
\* that was found by its name, and as many labels as stops only if each found stop brought its own.
Names == {p.name : p \in Places}
NoneTwice(l) == \A i, j \in DOMAIN l : i # j => l[i] # l[j]
Fresh(l, stops, k) ==
  /\ l \in Seq(Names) /\ Len(l) <= k /\ NoneTwice(l)
  /\ \A j \in 1 .. k : stops[j] = <<>> \/ stops[j][1].name \in ToSet(l)
  /\ Len(l) = k => \A j \in 1 .. k : stops[j] # <<>> /\ l[j] = stops[j][1].name

LEMMA LabelledIs ==
  ASSUME NEW l \in Seq(Names), NEW p \in Optional(Places)
  PROVE  /\ Labelled(l, p) \in Seq(Names)
         /\ p = <<>> \/ p[1].name \in ToSet(l) => Labelled(l, p) = l
         /\ ~(p = <<>> \/ p[1].name \in ToSet(l)) => Labelled(l, p) = Append(l, p[1].name)
<1>1. CASE p = <<>> \/ (p # <<>> /\ p[1].name \in ToSet(l))
  BY <1>1 DEF Labelled
<1>2. CASE ~(p = <<>> \/ (p # <<>> /\ p[1].name \in ToSet(l)))
  <2>1. PICK q \in Places : p = <<q>>
    BY <1>2 DEF Optional
  <2>2. p[1] = q /\ q.name \in Names
    BY <2>1 DEF Names
  <2>3. Labelled(l, p) = Append(l, p[1].name)
    BY <1>2 DEF Labelled
  <2>4. PICK v \in Names : v = p[1].name
    BY <2>2
  <2>5. Append(l, v) \in Seq(Names)
    OBVIOUS
  <2> QED
    BY <1>2, <2>3, <2>4, <2>5
<1> QED
  BY <1>1, <1>2

LEMMA FreshStays ==
  ASSUME NEW stops, NEW k \in Nat, NEW l, Fresh(l, stops, k),
         NEW j \in 1 .. k, stops[j] \in Optional(Places)
  PROVE  Labelled(l, stops[j]) = l
  BY Zenon, LabelledIs DEF Fresh

LEMMA AppendIsDistinct ==
  ASSUME NEW S, NEW l \in Seq(S), NEW v \in S, v \notin ToSet(l), NoneTwice(l)
  PROVE  /\ Len(Append(l, v)) = Len(l) + 1 /\ Append(l, v)[Len(l) + 1] = v
         /\ \A i \in 1 .. Len(l) : Append(l, v)[i] = l[i]
         /\ NoneTwice(Append(l, v))
         /\ ToSet(l) \subseteq ToSet(Append(l, v)) /\ v \in ToSet(Append(l, v))
<1>1. PICK n \in Nat : n = Len(l) /\ DOMAIN l = 1 .. n
  OBVIOUS
<1>2. PICK more : more = Append(l, v)
  BY Zenon
<1>3. /\ Len(more) = n + 1 /\ DOMAIN more = 1 .. n + 1 /\ more[n + 1] = v
      /\ \A i \in 1 .. n : more[i] = l[i]
  BY <1>1, <1>2
<1>4. \A i \in 1 .. n : l[i] # v
  BY <1>1 DEF ToSet
<1>5. \A i, j \in 1 .. n : i # j => l[i] # l[j]
  BY <1>1 DEF NoneTwice
<1>6. \A i \in 1 .. n + 1 : i \in 1 .. n \/ i = n + 1
  BY <1>1
<1>7. \A i, j \in 1 .. n + 1 : i # j => more[i] # more[j]
  BY <1>3, <1>4, <1>5, <1>6
<1>8. NoneTwice(more)
  BY <1>3, <1>7 DEF NoneTwice
<1>9. n + 1 \in DOMAIN more /\ \A i \in 1 .. n : i \in DOMAIN more
  BY <1>1, <1>3
<1>10. ToSet(l) \subseteq ToSet(more) /\ v \in ToSet(more)
  BY <1>1, <1>3, <1>9 DEF ToSet
<1> QED
  BY <1>1, <1>2, <1>3, <1>8, <1>10

LEMMA FreshStep ==
  ASSUME NEW stops, NEW k \in Nat, NEW l, Fresh(l, stops, k), stops[k + 1] \in Optional(Places)
  PROVE  Fresh(Labelled(l, stops[k + 1]), stops, k + 1)
<1> DEFINE p == stops[k + 1]
           more == Labelled(l, p)
<1>1. /\ l \in Seq(Names) /\ Len(l) <= k /\ NoneTwice(l) /\ Len(l) \in Nat
      /\ \A j \in 1 .. k : stops[j] = <<>> \/ stops[j][1].name \in ToSet(l)
      /\ Len(l) = k => \A j \in 1 .. k : stops[j] # <<>> /\ l[j] = stops[j][1].name
  BY DEF Fresh
<1>2. p \in Optional(Places)
  OBVIOUS
<1>3. 1 .. k + 1 = (1 .. k) \cup {k + 1}
  OBVIOUS
<1> HIDE DEF p, more
<1>4. CASE p = <<>> \/ p[1].name \in ToSet(l)
  <2>1. more = l
    BY <1>1, <1>2, <1>4, LabelledIs DEF more
  <2>2. Len(l) # k + 1
    BY <1>1
  <2>3. \A j \in 1 .. k + 1 : stops[j] = <<>> \/ stops[j][1].name \in ToSet(l)
    BY <1>1, <1>3, <1>4 DEF p
  <2>4. Fresh(l, stops, k + 1)
    BY <1>1, <2>2, <2>3 DEF Fresh
  <2> QED
    BY <2>1, <2>4 DEF more, p
<1>5. CASE ~(p = <<>> \/ p[1].name \in ToSet(l))
  <2>1. more = Append(l, p[1].name) /\ more \in Seq(Names)
    BY <1>1, <1>2, <1>5, LabelledIs DEF more
  <2>2. PICK v : v = p[1].name
    OBVIOUS
  <2>3. /\ Len(more) = Len(l) + 1 /\ more[Len(l) + 1] = v
        /\ \A i \in 1 .. Len(l) : more[i] = l[i]
        /\ NoneTwice(more)
        /\ ToSet(l) \subseteq ToSet(more) /\ v \in ToSet(more)
    <3>1. v \in Names /\ v \notin ToSet(l)
      BY <1>2, <1>5, <2>2 DEF Optional, Names
    <3> QED
      BY <1>1, <2>1, <2>2, <3>1, AppendIsDistinct
  <2>7. \A j \in 1 .. k + 1 : stops[j] = <<>> \/ stops[j][1].name \in ToSet(more)
    BY <1>1, <1>3, <2>2, <2>3 DEF p
  <2>8. ASSUME Len(more) = k + 1, NEW j \in 1 .. k + 1
        PROVE  stops[j] # <<>> /\ more[j] = stops[j][1].name
    <3>1. Len(l) = k
      BY <1>1, <2>3, <2>8
    <3> QED
      BY <1>1, <1>3, <1>5, <2>2, <2>3, <2>8, <3>1 DEF p
  <2>9. Fresh(more, stops, k + 1)
    BY <1>1, <2>1, <2>3, <2>7, <2>8 DEF Fresh
  <2> QED
    BY <2>9 DEF more, p
<1> QED
  BY <1>4, <1>5

\* The labels of a matrix, gathered row by row.
LEMMA LabelsRun ==
  ASSUME NEW row, Len(row) \in Nat,
         \A k \in 1 .. Len(row) : {row[k].from, row[k].to} \subseteq Optional(Places)
  PROVE  \E run \in [0 .. Len(row) -> Seq(Names)] :
           /\ run[0] = <<>> /\ LabelsOf(row) = run[Len(row)]
           /\ \A k \in 1 .. Len(row) : run[k] = Labelled(Labelled(run[k - 1], row[k].from), row[k].to)
<1> DEFINE N == Len(row)
           D == Seq(Names)
           turn == [k \in 1 .. N |-> [l \in D |-> Labelled(Labelled(l, row[k].from), row[k].to)]]
           Loop(f) == f = [k \in 0 .. Len(row) |->
                             IF k = 0 THEN <<>> ELSE Labelled(Labelled(f[k - 1], row[k].from), row[k].to)]
<1>1. N \in Nat /\ \A k \in 1 .. N : {row[k].from, row[k].to} \subseteq Optional(Places)
  OBVIOUS
<1>2. \A k \in 1 .. N : \A l \in D : Labelled(Labelled(l, row[k].from), row[k].to) \in D
  <2> TAKE k \in 1 .. N
  <2> TAKE l \in D
  <2>1. row[k].from \in Optional(Places) /\ row[k].to \in Optional(Places)
    BY <1>1
  <2>2. PICK m : m = Labelled(l, row[k].from)
    OBVIOUS
  <2>3. m \in Seq(Names)
    BY <2>1, <2>2, LabelledIs
  <2>4. Labelled(m, row[k].to) \in Seq(Names)
    BY <2>1, <2>3, LabelledIs
  <2> QED
    BY <2>2, <2>4
<1>3. PICK run : Run(N, D, <<>>, turn, run)
  <2>1. Turns(N, D, turn)
    <3> HIDE DEF N, D
    <3> QED
      BY <1>2 DEF Turns
  <2>2. <<>> \in D
    OBVIOUS
  <2> HIDE DEF N, D, turn
  <2> QED
    BY <1>1, <2>1, <2>2, LoopRuns
<1>4. /\ run \in [0 .. N -> D] /\ run[0] = <<>>
      /\ \A k \in 1 .. N : run[k] = Labelled(Labelled(run[k - 1], row[k].from), row[k].to)
  <2>1. /\ run \in [0 .. N -> D] /\ run[0] = <<>> /\ \A k \in 1 .. N : run[k] = turn[k][run[k - 1]]
    BY <1>3 DEF Run
  <2> HIDE DEF D, N
  <2>2. ASSUME NEW k \in 1 .. N
        PROVE  run[k] = Labelled(Labelled(run[k - 1], row[k].from), row[k].to)
    <3>1. k - 1 \in 0 .. N
      BY <1>1
    <3>2. run[k - 1] \in D
      <4> HIDE DEF turn
      <4> QED
        BY <2>1, <3>1
    <3>3. turn[k] = [l \in D |-> Labelled(Labelled(l, row[k].from), row[k].to)]
      OBVIOUS
    <3>4. turn[k][run[k - 1]] = Labelled(Labelled(run[k - 1], row[k].from), row[k].to)
      BY <3>2, <3>3
    <3> QED
      BY <2>1, <3>4
  <2> QED
    BY <2>1, <2>2
<1> HIDE DEF D
<1>5. Loop(run)
  <2>1. run = [k \in 0 .. N |-> run[k]]
    BY <1>4
  <2>2. \A k \in 0 .. N : run[k] = IF k = 0 THEN <<>> ELSE Labelled(Labelled(run[k - 1], row[k].from), row[k].to)
    <3> TAKE k \in 0 .. N
    <3>1. k # 0 => k \in 1 .. N
      BY <1>1
    <3> QED
      BY <1>4, <3>1
  <2> QED
    BY Zenon, <2>1, <2>2
<1>6. PICK f : f = CHOOSE g : Loop(g)
  OBVIOUS
<1>7. Loop(f)
  BY Zenon, <1>5, <1>6
<1>8. LabelsOf(row) = f[N]
  BY <1>6 DEF LabelsOf
<1> DEFINE T == {k \in 0 .. N : f[k] = run[k]}
<1>9. 0 .. N \subseteq T
  <2>1. T \in SUBSET Nat /\ 0 \in T
    <3>1. 0 \in 0 .. N
      BY <1>1
    <3> QED
      BY <1>4, <1>7, <3>1
  <2>2. ASSUME NEW n \in 0 .. N - 1, n \in T
        PROVE  n + 1 \in T
    <3>1. n + 1 \in 1 .. N /\ n + 1 \in 0 .. N /\ (n + 1) - 1 = n /\ n + 1 # 0
      BY <1>1
    <3>2. f[n + 1] = Labelled(Labelled(f[n], row[n + 1].from), row[n + 1].to)
      BY <1>7, <3>1
    <3>3. run[n + 1] = Labelled(Labelled(run[n], row[n + 1].from), row[n + 1].to)
      BY <1>4, <3>1
    <3> QED
      BY <2>2, <3>1, <3>2, <3>3
  <2> HIDE DEF T, N
  <2> QED
    BY Zenon, <1>1, <2>1, <2>2, UpTo
<1>10. LabelsOf(row) = run[N]
  <2>1. N \in 0 .. N
    BY <1>1
  <2> QED
    BY <1>8, <1>9, <2>1
<1> QED
  BY Zenon, <1>4, <1>10 DEF D

LEMMA LabelsOfGrid ==
  ASSUME NEW stops \in Lists, stops # <<>>, NEW row, IsGrid(row, stops)
  PROVE  Fresh(LabelsOf(row), stops, Len(stops))
<1>1. Len(stops) \in Nat \ {0} /\ \A i \in 1 .. Len(stops) : stops[i] \in Optional(Places)
  BY DEF Lists
<1>2. PICK w \in Nat \ {0} : w = Len(stops)
  BY <1>1
<1>3. PICK M \in Nat : M = w * w
  OBVIOUS
<1>4. /\ Len(row) = M
      /\ \A i, j \in 1 .. w : row[CellAt(w, i, j)].from = stops[i] /\ row[CellAt(w, i, j)].to = stops[j]
  BY <1>2, <1>3 DEF IsGrid
<1>5. \A k \in 1 .. M : {row[k].from, row[k].to} \subseteq Optional(Places)
  <2> TAKE k \in 1 .. M
  <2>1. /\ RowOf(w, k) \in 1 .. w /\ ColumnOf(w, k) \in 1 .. w
        /\ k = CellAt(w, RowOf(w, k), ColumnOf(w, k))
    BY <1>3, CellIsOne
  <2>2. row[k].from = stops[RowOf(w, k)] /\ row[k].to = stops[ColumnOf(w, k)]
    BY <1>4, <2>1
  <2> QED
    BY <1>1, <1>2, <2>1, <2>2
<1>6. PICK run \in [0 .. M -> Seq(Names)] :
        /\ run[0] = <<>> /\ LabelsOf(row) = run[M]
        /\ \A k \in 1 .. M : run[k] = Labelled(Labelled(run[k - 1], row[k].from), row[k].to)
  BY Zenon, <1>4, <1>5, LabelsRun
<1> DEFINE Good(k) == Fresh(run[k], stops, IF k <= w THEN k ELSE w)
           T == {k \in 0 .. M : Good(k)}
<1>7. 1 <= w /\ w <= M
  <2>1. 1 * w <= w * w
    BY TimesIsMonotone
  <2> QED
    BY <1>3, <2>1
<1>8. 0 \in T /\ T \in SUBSET Nat
  <2>1. Fresh(<<>>, stops, 0)
    BY DEF Fresh, NoneTwice
  <2>2. Good(0)
    BY <1>6, <1>7, <2>1
  <2>3. 0 \in 0 .. M
    OBVIOUS
  <2> HIDE DEF Good
  <2> QED
    BY <2>2, <2>3
<1>9. ASSUME NEW n \in 0 .. M - 1, n \in T
      PROVE  n + 1 \in T
  <2>1. Good(n) /\ n + 1 \in 0 .. M
    BY <1>9
  <2>2. run[n + 1] = Labelled(Labelled(run[n], row[n + 1].from), row[n + 1].to)
    <3>1. n + 1 \in 1 .. M /\ (n + 1) - 1 = n
      OBVIOUS
    <3> QED
      BY Zenon, <1>6, <3>1
  <2>3. CASE n + 1 <= w
    <3>1. row[n + 1].from = stops[1] /\ row[n + 1].to = stops[n + 1]
      <4>1. 1 \in 1 .. w /\ n + 1 \in 1 .. w
        BY <1>7, <2>3
      <4>2. CellAt(w, 1, n + 1) = n + 1
        BY DEF CellAt
      <4>3. PICK i \in 1 .. w, j \in 1 .. w : i = 1 /\ j = n + 1
        BY <4>1
      <4>4. row[CellAt(w, i, j)].from = stops[i] /\ row[CellAt(w, i, j)].to = stops[j]
        BY <1>4
      <4> QED
        BY <4>2, <4>3, <4>4
    <3>2. Fresh(run[n], stops, n)
      BY <2>1, <2>3
    <3>3. stops[1] \in Optional(Places) /\ stops[n + 1] \in Optional(Places)
      BY <1>1, <1>2, <1>7, <2>3
    <3>4. Fresh(run[n + 1], stops, n + 1)
      <4>1. CASE n = 0
        <5>1. PICK m : m = Labelled(run[n], stops[1])
          OBVIOUS
        <5>2. Fresh(m, stops, 1)
          <6>1. Fresh(Labelled(run[n], stops[0 + 1]), stops, 0 + 1)
            BY <3>2, <3>3, <4>1, FreshStep
          <6> QED
            BY <5>1, <6>1
        <5>3. Labelled(m, stops[1]) = m
          BY <3>3, <5>2, FreshStays
        <5>4. n + 1 = 1
          BY <4>1
        <5>5. run[n + 1] = m
          BY <2>2, <3>1, <5>1, <5>3, <5>4
        <5> QED
          BY <5>2, <5>4, <5>5
      <4>2. CASE n # 0
        <5>1. Labelled(run[n], stops[1]) = run[n]
          BY <3>2, <3>3, <4>2, FreshStays
        <5>2. Fresh(Labelled(run[n], stops[n + 1]), stops, n + 1)
          BY <3>2, <3>3, FreshStep
        <5> QED
          BY <2>2, <3>1, <5>1, <5>2
      <4> QED
        BY <4>1, <4>2
    <3>5. Good(n + 1)
      BY <2>3, <3>4
    <3> HIDE DEF Good
    <3> QED
      BY <2>1, <3>5
  <2>4. CASE ~(n + 1 <= w)
    <3>1. n >= w
      BY <2>4
    <3>2. Fresh(run[n], stops, w)
      BY <2>1, <3>1
    <3>3. PICK i \in 1 .. w, j \in 1 .. w : n + 1 = CellAt(w, i, j)
      <4>1. n + 1 \in 1 .. w * w
        BY <1>3
      <4> QED
        BY <4>1, CellIsOne
    <3>4. row[n + 1].from = stops[i] /\ row[n + 1].to = stops[j]
      <4>1. row[CellAt(w, i, j)].from = stops[i] /\ row[CellAt(w, i, j)].to = stops[j]
        BY <1>4
      <4> QED
        BY <3>3, <4>1
    <3>5. stops[i] \in Optional(Places) /\ stops[j] \in Optional(Places)
      BY <1>1, <1>2
    <3>6. Labelled(run[n], stops[i]) = run[n] /\ Labelled(run[n], stops[j]) = run[n]
      BY <3>2, <3>5, FreshStays
    <3>7. run[n + 1] = run[n]
      BY <2>2, <3>4, <3>6
    <3>8. Good(n + 1)
      BY <2>4, <3>2, <3>7
    <3> HIDE DEF Good
    <3> QED
      BY <2>1, <3>8
  <2> QED
    BY <2>3, <2>4
<1>10. 0 .. M \subseteq T
  <2> HIDE DEF T
  <2> QED
    BY Zenon, <1>8, <1>9, UpTo
<1>11. Good(M)
  <2>1. M \in 0 .. M
    OBVIOUS
  <2> HIDE DEF Good
  <2> QED
    BY <1>10, <2>1
<1>12. Fresh(run[M], stops, w)
  <2>1. CASE M = w
    BY <1>11, <2>1
  <2>2. CASE ~(M <= w)
    BY <1>11, <2>2
  <2> QED
    BY <1>7, <2>1, <2>2
<1> QED
  BY <1>2, <1>6, <1>12

\* A matrix with a label for each of its n stops is of n stops, all of them found.
LEMMA GridIsWhole ==
  ASSUME NEW stops \in Lists, stops # <<>>, NEW row, IsGrid(row, stops),
         NEW n \in Nat, Len(stops) <= n, Len(LabelsOf(row)) = n
  PROVE  /\ Len(stops) = n /\ NoneTwice(LabelsOf(row)) /\ DOMAIN LabelsOf(row) = 1 .. n
         /\ \A i \in 1 .. n : stops[i] # <<>> /\ LabelsOf(row)[i] = stops[i][1].name
<1>1. Fresh(LabelsOf(row), stops, Len(stops))
  BY LabelsOfGrid
<1>2. Len(stops) \in Nat
  BY DEF Lists
<1>3. Len(stops) = n
  BY <1>1, <1>2 DEF Fresh
<1> QED
  BY <1>1, <1>3 DEF Fresh

LEMMA OnlyOneIsMax ==
  ASSUME NEW c \in Int
  PROVE  Max({c}) = c
<1>1. \A x \in {c} : (\A y \in {c} : x >= y) => x = c
  OBVIOUS
<1>2. c \in {c} /\ \A y \in {c} : c >= y
  OBVIOUS
<1> QED
  BY <1>1, <1>2 DEF Max

\* Every pair of n stops was routed, and measures what the matrix says.
Routed(row, n, leg, metric) ==
  /\ DOMAIN row = 1 .. n * n /\ Len(row) = n * n
  /\ \A i, j \in 1 .. n : row[CellAt(n, i, j)].ok /\ LegMeasure(row[CellAt(n, i, j)], metric) = leg[i][j]

LEMMA GridIsRouted ==
  ASSUME NEW stops \in Lists, stops # <<>>, NEW row, IsGrid(row, stops),
         NEW n \in Nat, Len(stops) <= n, NEW metric,
         NEW matrix, matrix = MatrixArgument(row, n, metric), matrix # <<>>
  PROVE  Routed(row, n, matrix[1], metric)
<1> DEFINE Cell(a, b) == IF a = b \/ LegRows(row, a, b) = {} THEN 0
                         ELSE LegMeasure(row[Max(LegRows(row, a, b))], metric)
<1>1. PICK labels : labels = LabelsOf(row)
  OBVIOUS
<1>2. /\ MissingLegs(row) = {} /\ Len(labels) = n
      /\ matrix[1] = [i \in 1 .. n |-> [j \in 1 .. n |-> Cell(labels[i], labels[j])]]
  BY Zenon, <1>1 DEF MatrixArgument, None
<1>3. /\ Len(stops) = n /\ NoneTwice(labels) /\ DOMAIN labels = 1 .. n
      /\ \A i \in 1 .. n : stops[i] # <<>> /\ labels[i] = stops[i][1].name
  BY <1>1, <1>2, GridIsWhole
<1>4. /\ DOMAIN row = 1 .. n * n /\ Len(row) = n * n
      /\ \A i, j \in 1 .. n : row[CellAt(n, i, j)].from = stops[i] /\ row[CellAt(n, i, j)].to = stops[j]
      /\ \A i \in 1 .. n : row[CellAt(n, i, i)].ok /\ row[CellAt(n, i, i)].m = 0 /\ row[CellAt(n, i, i)].s = 0
  BY <1>3 DEF IsGrid
<1> HIDE DEF Cell
<1>5. ASSUME NEW i \in 1 .. n, NEW j \in 1 .. n
      PROVE  row[CellAt(n, i, j)].ok /\ LegMeasure(row[CellAt(n, i, j)], metric) = matrix[1][i][j]
  <2>1. matrix[1][i][j] = Cell(labels[i], labels[j])
    BY <1>2
  <2>2. CASE i = j
    <3>1. Cell(labels[i], labels[j]) = 0
      BY <2>2 DEF Cell
    <3> QED
      BY <1>4, <2>1, <2>2, <3>1 DEF LegMeasure
  <2>3. CASE i # j
    <3>0. n \in Nat \ {0}
      OBVIOUS
    <3>1. labels[i] # labels[j]
      BY <1>3, <2>3 DEF NoneTwice
    <3>2. LegRows(row, labels[i], labels[j]) # {}
      <4>1. labels[i] \in ToSet(labels) /\ labels[j] \in ToSet(labels)
        BY <1>3 DEF ToSet
      <4>2. PICK p : p = <<labels[i], labels[j]>>
        BY Zenon
      <4>3. p \in ToSet(LabelsOf(row)) \X ToSet(LabelsOf(row)) /\ p[1] = labels[i] /\ p[2] = labels[j]
        BY <1>1, <4>1, <4>2
      <4> QED
        BY <1>2, <3>1, <4>3 DEF MissingLegs
    <3>3. ASSUME NEW k \in LegRows(row, labels[i], labels[j])
          PROVE  k = CellAt(n, i, j) /\ row[k].ok
      <4>1. /\ k \in 1 .. n * n /\ row[k].ok
            /\ row[k].from[1].name = labels[i] /\ row[k].to[1].name = labels[j]
        BY <1>4 DEF LegRows
      <4>2. PICK a \in 1 .. n, b \in 1 .. n : k = CellAt(n, a, b)
        BY Zenon, <3>0, <4>1, CellIsOne
      <4>3. row[k].from = stops[a] /\ row[k].to = stops[b]
        BY <1>4, <4>2
      <4>4. labels[a] = labels[i] /\ labels[b] = labels[j]
        BY <1>3, <4>1, <4>3
      <4>5. a = i /\ b = j
        BY <1>3, <4>4 DEF NoneTwice
      <4> QED
        BY <4>1, <4>2, <4>5
    <3>4. PICK c : c = CellAt(n, i, j)
      OBVIOUS
    <3>5. LegRows(row, labels[i], labels[j]) = {c} /\ row[c].ok
      BY <3>2, <3>3, <3>4
    <3>6. c \in Int
      <4>1. CellAt(n, i, j) \in 1 .. n * n
        BY Zenon, <3>0, CellIsThere
      <4> QED
        BY <3>4, <4>1
    <3>7. Max(LegRows(row, labels[i], labels[j])) = c
      BY <3>5, <3>6, OnlyOneIsMax
    <3>8. Cell(labels[i], labels[j]) = LegMeasure(row[c], metric)
      BY <3>1, <3>2, <3>7 DEF Cell
    <3> QED
      BY <2>1, <3>4, <3>5, <3>8
  <2> QED
    BY <2>2, <2>3
<1> QED
  BY <1>4, <1>5 DEF Routed

-----------------------------------------------------------------------------
\* Tours: the legs along an order.

LEMMA ItemsAtAreFewer ==
  ASSUME NEW S, NEW s \in Seq(S), NEW positions
  PROVE  Len(ItemsAt(s, positions)) <= Len(s)
<1>1. PICK N \in Nat : N = Len(s)
  OBVIOUS
<1>2. PICK among \in [0 .. N -> Seq(S)] :
        Among(s, positions, N, among) /\ ItemsAt(s, positions) = among[N]
  BY Zenon, <1>1, ItemsAtRuns
<1>3. \A k \in 1 .. N : s[k] \in S
  BY <1>1
<1> DEFINE T == {k \in 0 .. N : Len(among[k]) <= k}
<1>4. 0 \in T /\ T \in SUBSET Nat
  BY <1>2 DEF Among
<1>5. ASSUME NEW n \in 0 .. N - 1, n \in T
      PROVE  n + 1 \in T
  <2>1. n + 1 \in 1 .. N /\ n + 1 \in 0 .. N /\ (n + 1) - 1 = n
    OBVIOUS
  <2>2. PICK before \in Seq(S) : before = among[n] /\ Len(before) <= n /\ Len(before) \in Nat
    BY <1>2, <1>5
  <2>3. among[n + 1] = IF n + 1 \in positions THEN Append(before, s[n + 1]) ELSE before
    BY Zenon, <1>2, <2>1, <2>2 DEF Among
  <2>4. Len(Append(before, s[n + 1])) = Len(before) + 1
    BY <1>3, <2>1
  <2>5. Len(among[n + 1]) <= n + 1
    <3>1. CASE n + 1 \in positions
      BY <2>2, <2>3, <2>4, <3>1
    <3>2. CASE n + 1 \notin positions
      BY <2>2, <2>3, <3>2
    <3> QED
      BY <3>1, <3>2
  <2> QED
    BY <2>1, <2>5
<1>6. N \in T
  <2>1. N \in 0 .. N
    OBVIOUS
  <2> HIDE DEF T
  <2> QED
    BY Zenon, <1>4, <1>5, <2>1, UpTo
<1> QED
  BY <1>1, <1>2, <1>6

LEMMA SideOfSquare ==
  ASSUME NEW n \in Nat \ {0}, NEW row, Len(row) = n * n
  PROVE  Side(row) = n
<1>1. n * n \in Nat /\ n \in 1 .. n * n
  <2>1. 1 * n <= n * n
    BY TimesIsMonotone
  <2> QED
    BY <2>1
<1>2. ASSUME NEW k \in Nat, k * k = n * n
      PROVE  k = n
  <2>1. ASSUME NEW a \in Nat, NEW b \in Nat \ {0}, a + 1 <= b
        PROVE  a * a # b * b
    <3>1. a * a <= b * a
      BY <2>1, TimesIsMonotone
    <3>2. a * b + b <= b * b
      <4>1. (a + 1) * b <= b * b
        BY <2>1, TimesIsMonotone
      <4>2. (a + 1) * b = a * b + b
        OBVIOUS
      <4> QED
        BY <4>1, <4>2
    <3>3. a * b = b * a /\ a * a \in Nat /\ b * a \in Nat /\ b * b \in Nat
      OBVIOUS
    <3> QED
      BY <3>1, <3>2, <3>3
  <2>2. ~(k + 1 <= n)
    BY <1>2, <2>1
  <2>3. ~(n + 1 <= k)
    <3> SUFFICES ASSUME n + 1 <= k PROVE FALSE
      OBVIOUS
    <3>1. k \in Nat \ {0}
      OBVIOUS
    <3>2. n * n # k * k
      BY <2>1, <3>1
    <3> QED
      BY <1>2, <3>2
  <2> QED
    BY <2>2, <2>3
<1>3. \E k \in 1 .. Len(row) : k * k = Len(row)
  BY <1>1
<1>4. Side(row) \in 1 .. Len(row) /\ Side(row) * Side(row) = Len(row)
  BY Zenon, <1>3 DEF Side
<1>5. Side(row) \in Nat
  BY <1>1, <1>4
<1> QED
  BY <1>2, <1>4, <1>5

\* The legs along an order, in a matrix all of whose pairs were routed.
LEMMA LegsAreDriven ==
  ASSUME NEW t, Accepted(t), NEW row, NEW metric, Routed(row, t.n, t.leg, metric),
         NEW order, Legal(t, order), Len(order) > 1
  PROVE  /\ SelectLegs(row, order) # <<>> /\ Complete(SelectLegs(row, order)[1])
         /\ SumOf(SelectLegs(row, order)[1], metric) = Drives(t, order)
<1>1. PICK n \in Nat \ {0} : n = t.n
  BY DEF Accepted
<1>2. Side(row) = n
  BY <1>1, SideOfSquare DEF Routed
<1>3. /\ Len(order) \in Nat /\ DOMAIN order = 1 .. Len(order)
      /\ \A k \in 1 .. Len(order) : order[k] \in 1 .. n
  BY <1>1, LegalIs
<1>4. order # <<>>
  BY DEF Legal
<1>5. ToSet(order) \subseteq 1 .. n
  BY <1>3 DEF ToSet
<1>6. PICK driven : driven = [k \in 1 .. Len(order) - 1 |-> row[CellAt(n, order[k], order[k + 1])]]
  BY Zenon
<1>7. SelectLegs(row, order) = <<driven>>
  <2>1. ~(n = 0 \/ Len(order) < 2 \/ ~ToSet(order) \subseteq 1 .. n)
    BY <1>3, <1>5
  <2> QED
    BY <1>2, <1>4, <1>6, <2>1 DEF SelectLegs, CellAt, None
<1>8. ASSUME NEW k \in 1 .. Len(order) - 1
      PROVE  /\ driven[k].ok
             /\ LegMeasure(driven[k], metric) = t.leg[order[k]][order[k + 1]]
  <2>1. k \in 1 .. Len(order) /\ k + 1 \in 1 .. Len(order)
    BY <1>3
  <2>2. PICK i \in 1 .. n, j \in 1 .. n : i = order[k] /\ j = order[k + 1]
    BY <1>3, <2>1
  <2>3. driven[k] = row[CellAt(n, i, j)]
    BY <1>6, <2>2
  <2>4. row[CellAt(n, i, j)].ok /\ LegMeasure(row[CellAt(n, i, j)], metric) = t.leg[i][j]
    BY <1>1 DEF Routed
  <2> QED
    BY <2>2, <2>3, <2>4
<1>9. DOMAIN driven = 1 .. Len(order) - 1
  BY <1>6
<1>10. Complete(driven)
  BY <1>8, <1>9 DEF Complete
<1>11. [k \in DOMAIN driven |-> LegMeasure(driven[k], metric)] = DrivesOf(t, order)
  BY <1>8, <1>9 DEF DrivesOf
<1>12. SumOf(driven, metric) = Drives(t, order)
  BY <1>11 DEF SumOf, Drives
<1> QED
  BY <1>7, <1>10, <1>12

-----------------------------------------------------------------------------
\* The legs of a tour, step by step.

\* The matrix of a trip is of stops that were found, and a tour was read from all of its legs.
DrivenInv ==
  /\ TripInv
  /\ task.about = "trip" /\ rows # <<>> =>
       /\ found # <<>>
       /\ \E stops \in Lists : stops # <<>> /\ Len(stops) <= Len(Stops) /\ IsGrid(rows[1], stops)
  /\ tour # <<>> =>
       /\ task.about = "trip" /\ rows # <<>>
       /\ Routed(rows[1], tour[1].trip.n, tour[1].trip.leg, tour[1].trip.metric)

LEMMA DrivenRoute ==
  ASSUME DrivenInv, RouteStops
  PROVE  DrivenInv'
<1>0. TripInv' /\ Geocoded /\ found # <<>>
  BY TripStep DEF DrivenInv, TripInv, Next, RouteStops, About
<1>1. Stops \in Lists /\ PlaceArguments(Stops) \in Lists
  BY <1>0, StopsAreRows, ArgumentsAreList
<1>2. rows = <<>> /\ tour' = tour /\ found' = found /\ task' = task
  BY DEF RouteStops
<1>3. tour = <<>>
  BY <1>2 DEF DrivenInv
<1>4. PICK stops \in {Stops, PlaceArguments(Stops)} \ {<<>>} :
        \E failing : rows' = <<DistanceMatrix(stops, stops, failing)>>
  BY DEF RouteStops
<1>5. PICK failing : rows' = <<DistanceMatrix(stops, stops, failing)>>
  BY <1>4
<1>6. stops \in Lists /\ stops # <<>> /\ Len(stops) \in Nat \ {0}
  BY <1>1, <1>4 DEF Lists
<1>7. Len(stops) <= Len(Stops)
  <2>1. Len(PlaceArguments(Stops)) <= Len(Stops)
    BY <1>1, ItemsAtAreFewer DEF PlaceArguments, Kept, Lists
  <2>2. Len(Stops) \in Nat
    BY <1>1 DEF Lists
  <2> QED
    BY <1>4, <2>1, <2>2
<1>8. IsGrid(rows'[1], stops)
  <2>1. IsGrid(DistanceMatrix(stops, stops, failing), stops)
    BY <1>6, MatrixIsGrid
  <2>2. rows'[1] = DistanceMatrix(stops, stops, failing)
    BY <1>5
  <2> QED
    BY <2>1, <2>2
<1>9. Stops' = Stops
  BY <1>2 DEF Stops
<1>10. \E s \in Lists : s # <<>> /\ Len(s) <= Len(Stops') /\ IsGrid(rows'[1], s)
  BY <1>6, <1>7, <1>8, <1>9
<1>11. Lists' = Lists
  BY DEF Lists, Optional
<1> QED
  BY <1>0, <1>2, <1>3, <1>10 DEF DrivenInv, Lists, Optional

LEMMA DrivenOrder ==
  ASSUME DrivenInv, OrderStops
  PROVE  DrivenInv'
<1>0. TripInv' /\ Geocoded /\ found # <<>> /\ rows # <<>> /\ task.about = "trip"
  BY TripStep DEF DrivenInv, TripInv, Next, OrderStops, About
<1>1. PICK n \in Nat : n = Len(Stops)
  <2>1. Stops \in Lists
    BY <1>0, StopsAreRows
  <2> QED
    BY <2>1 DEF Lists
<1>2. PICK it \in Itineraries :
        /\ MatrixArgument(rows[1], Len(Stops), it.metric) # <<>>
        /\ tour' = <<[trip |-> TripOf(it, Len(Stops), MatrixArgument(rows[1], Len(Stops), it.metric)[1]),
                      result |-> Planned(TripOf(it, Len(Stops), MatrixArgument(rows[1], Len(Stops), it.metric)[1]))]>>
  BY DEF OrderStops
<1>3. PICK matrix : matrix = MatrixArgument(rows[1], n, it.metric)
  OBVIOUS
<1>4. PICK trip : trip = TripOf(it, n, matrix[1])
  OBVIOUS
<1>5. matrix # <<>> /\ tour' = <<[trip |-> trip, result |-> Planned(trip)]>>
  BY <1>1, <1>2, <1>3, <1>4
<1>6. tour'[1].trip.n = n /\ tour'[1].trip.leg = matrix[1] /\ tour'[1].trip.metric = it.metric
  BY <1>4, <1>5 DEF TripOf
<1>7. PICK stops \in Lists : stops # <<>> /\ Len(stops) <= n /\ IsGrid(rows[1], stops)
  BY <1>0, <1>1 DEF DrivenInv
<1>8. Routed(rows[1], n, matrix[1], it.metric)
  BY <1>3, <1>5, <1>7, GridIsRouted
<1>9. UNCHANGED <<task, found, rows>>
  BY DEF OrderStops
<1>10. Stops' = Stops
  BY <1>9 DEF Stops
<1> QED
  BY Zenon, <1>0, <1>1, <1>6, <1>7, <1>8, <1>9, <1>10 DEF DrivenInv, Lists, Optional

LEMMA DrivenStep ==
  ASSUME DrivenInv, [Next]_vars
  PROVE  DrivenInv'
<1>1. TripInv'
  BY TripStep DEF DrivenInv
<1>2. CASE UNCHANGED <<task, found, rows, tour>>
  <2>1. Stops' = Stops
    BY <1>2 DEF Stops
  <2> QED
    BY Zenon, <1>1, <1>2, <2>1 DEF DrivenInv, Lists, Optional
<1>3. CASE RouteCandidates
  <2>1. task.about = "choice" /\ task' = task /\ tour' = tour
    BY <1>3 DEF RouteCandidates, About
  <2> QED
    BY <1>1, <2>1 DEF DrivenInv
<1>4. CASE Geocode
  <2>1. found = <<>> /\ UNCHANGED <<task, rows, tour>>
    BY <1>4 DEF Geocode, results
  <2>2. ~(task.about = "trip" /\ rows # <<>>) /\ tour = <<>>
    BY <2>1 DEF DrivenInv
  <2> QED
    BY <1>1, <2>1, <2>2 DEF DrivenInv
<1>5. Next => RouteStops \/ OrderStops \/ RouteCandidates \/ Geocode \/ UNCHANGED <<task, found, rows, tour>>
  BY Zenon DEF Next, FollowLegs, TotalLegs, CompareGroups, MatchTrip, RunStep, Select,
         Retrieve, Narrow, Recover, Rank, MatchChoice, results
<1>6. UNCHANGED vars => UNCHANGED <<task, found, rows, tour>>
  BY DEF vars
<1> QED
  BY <1>2, <1>3, <1>4, <1>5, <1>6, DrivenRoute, DrivenOrder

\* For any stops and routes, what a tour reports as driven is the sum of the legs select_legs finds
\* along its order, all of them routed (tsp_tw's travel_cost, build_duration_matrix, select_legs).
THEOREM ToursAreTheirLegs == Spec => []TourIsItsLegs
<1>1. Init => DrivenInv
  BY DEF Init, DrivenInv, TripInv, Geocoded
<1>2. DrivenInv /\ [Next]_vars => DrivenInv'
  BY DrivenStep
<1>3. DrivenInv => TourIsItsLegs
  <2> SUFFICES ASSUME DrivenInv, tour # <<>>, LeavesFreely(tour[1].trip),
                      \A i \in 1 .. tour[1].trip.n : tour[1].trip.open[i] = 0 /\ 0 <= tour[1].trip.stay[i],
                      Len(tour[1].result.order) > 1
               PROVE  LET driven == SelectLegs(rows[1], tour[1].result.order)
                      IN /\ driven # <<>> /\ Complete(driven[1])
                         /\ tour[1].result.travel = SumOf(driven[1], tour[1].trip.metric)
    BY DEF TourIsItsLegs
  <2>1. PICK t, r : t = tour[1].trip /\ r = tour[1].result
    BY Zenon
  <2>2. Accepted(t) /\ r = Planned(t) /\ Routed(rows[1], t.n, t.leg, t.metric)
    BY <2>1 DEF DrivenInv, TripInv
  <2>3. NeverWaits(t) /\ (t.fixed => t.stay[t.start] = 0) /\ Len(r.order) > 1
    BY <2>1 DEF NeverWaits, LeavesFreely
  <2>4. Legal(t, r.order) /\ r.travel = Drives(t, r.order)
    BY <2>2, <2>3, PlannedDrives
  <2>5. /\ SelectLegs(rows[1], r.order) # <<>> /\ Complete(SelectLegs(rows[1], r.order)[1])
        /\ SumOf(SelectLegs(rows[1], r.order)[1], t.metric) = Drives(t, r.order)
    <3>1. PICK row, order, metric : row = rows[1] /\ order = r.order /\ metric = t.metric
      OBVIOUS
    <3>2. Routed(row, t.n, t.leg, metric) /\ Legal(t, order) /\ Len(order) > 1
      BY <2>2, <2>3, <2>4, <3>1
    <3>3. /\ SelectLegs(row, order) # <<>> /\ Complete(SelectLegs(row, order)[1])
          /\ SumOf(SelectLegs(row, order)[1], metric) = Drives(t, order)
      BY <2>2, <3>2, LegsAreDriven
    <3> QED
      BY <3>1, <3>3
  <2> QED
    BY <2>1, <2>4, <2>5
<1> QED
  BY <1>1, <1>2, <1>3, PTL DEF Spec
=============================================================================
