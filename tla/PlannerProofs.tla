--------------------------- MODULE PlannerProofs ---------------------------
(***************************************************************************)
(* Proofs about Planner, for every question whose draft has the shape that  *)
(* parsing leaves: what the plan of a draft keeps of the draft, and what    *)
(* grounding keeps of the plan.                                             *)
(***************************************************************************)
EXTENDS Planner, ListProofs

-----------------------------------------------------------------------------
\* The shape of a graph, through its completions.

IsGraph(g) ==
  /\ g = [node |-> g.node, pool |-> g.pool, factors |-> g.factors, edges |-> g.edges]
  /\ Listing(g.pool) /\ AreEdges(g.edges)
IsBuilder(b) ==
  /\ b = [node |-> b.node, pool |-> b.pool, factors |-> b.factors, edges |-> b.edges,
          producer |-> b.producer, alias |-> b.alias, promoted |-> b.promoted]
  /\ Listing(b.pool) /\ AreEdges(b.edges)

LEMMA EdgesThatAre ==
  ASSUME NEW edges, AreEdges(edges)
  PROVE  /\ Listing(edges) /\ Len(edges) \in Nat /\ DOMAIN edges = 1 .. Len(edges)
         /\ \A e \in ToSet(edges) : IsEdge(e)
         /\ edges = [i \in 1 .. Len(edges) |-> edges[i]]
<1>1. Listing(edges) /\ \A i \in DOMAIN edges : IsEdge(edges[i])
  BY DEF AreEdges
<1>2. \A e \in ToSet(edges) : IsEdge(e)
  <2>1. ASSUME NEW e \in ToSet(edges) PROVE \E i \in DOMAIN edges : e = edges[i]
    BY DEF ToSet
  <2> QED
    BY <1>1, <2>1
<1> QED
  BY <1>1, <1>2, HeadOfList

LEMMA NoEdges == AreEdges(<<>>)
BY EmptyList DEF AreEdges

LEMMA EdgesWithOneMore ==
  ASSUME NEW edges, AreEdges(edges), NEW e, IsEdge(e)
  PROVE  AreEdges(Append(edges, e))
<1>1. Listing(edges) /\ DOMAIN edges = 1 .. Len(edges) /\ \A i \in DOMAIN edges : IsEdge(edges[i])
  BY EdgesThatAre DEF AreEdges
<1> DEFINE more == Append(edges, e)
<1>2. /\ Listing(more) /\ more[Len(edges) + 1] = e
      /\ \A i \in DOMAIN edges : more[i] = edges[i]
      /\ DOMAIN more = DOMAIN edges \cup {Len(edges) + 1}
  BY <1>1, ListWithOneMore
<1> HIDE DEF more
<1>3. \A i \in DOMAIN more : IsEdge(more[i])
  BY <1>1, <1>2
<1>4. AreEdges(more)
  BY <1>2, <1>3 DEF AreEdges
<1> QED
  BY <1>4 DEF more

LEMMA EdgesOfAll ==
  ASSUME NEW n \in Nat, NEW edges, edges = [i \in 1 .. n |-> edges[i]],
         \A i \in 1 .. n : IsEdge(edges[i])
  PROVE  AreEdges(edges)
BY ListingOfDomain DEF AreEdges

LEMMA EdgesTogether ==
  ASSUME NEW edges, AreEdges(edges), NEW e, IsEdge(e)
  PROVE  AreEdges(<<e>> \o edges)
<1>1. Listing(edges) /\ Listing(<<e>>) /\ ToSet(<<e>>) = {e} /\ \A d \in ToSet(edges) : IsEdge(d)
  BY EdgesThatAre, ListOfOne
<1> DEFINE all == <<e>> \o edges
<1>2. Listing(all) /\ ToSet(all) = {e} \cup ToSet(edges)
  BY <1>1, ListsTogether
<1> HIDE DEF all
<1>3. \A i \in DOMAIN all : IsEdge(all[i])
  <2>1. \A i \in DOMAIN all : all[i] \in ToSet(all)
    BY DEF ToSet
  <2> QED
    BY <1>1, <1>2, <2>1
<1>4. AreEdges(all)
  BY <1>2, <1>3 DEF AreEdges
<1> QED
  BY <1>4 DEF all

\* What is made of each item of a list, and what is made of all of them.
LEMMA EachOfList ==
  ASSUME NEW s, Listing(s), NEW a, a = [i \in 1 .. Len(s) |-> a[i]]
  PROVE  Listing(a) /\ Len(a) = Len(s) /\ ToSet(a) = {a[i] : i \in DOMAIN s}
BY HeadOfList, ListingOfDomain DEF ToSet

LEMMA DeclaringShape ==
  ASSUME NEW b, IsBuilder(b), NEW ids, Listing(ids), NEW concept
  PROVE  Listing(Declaring(b, ids, concept).pool)
<1> DEFINE new == Distinct(Kept(ids, LAMBDA id : id \notin Ids(b)))
<1>1. Listing(Kept(ids, LAMBDA id : id \notin Ids(b)))
  BY ItemsAtList DEF Kept
<1>2. Listing(new)
  BY <1>1, DistinctList
<1>3. Declaring(b, ids, concept).pool = b.pool \o new
  BY DEF Declaring, IsBuilder
<1> HIDE DEF new
<1> QED
  BY <1>2, <1>3, ListsTogether DEF IsBuilder

LEMMA EdgeOfIsOne ==
  ASSUME NEW b, NEW id \in EdgeIds(b)
  PROVE  EdgeOf(b, id) \in ToSet(b.edges)
<1>1. \E e \in ToSet(b.edges) : e.id = id
  BY DEF EdgeIds
<1> QED
  BY <1>1 DEF EdgeOf

LEMMA ResolvedAllList ==
  ASSUME NEW b, IsBuilder(b), NEW refs, Listing(refs)
  PROVE  Listing(ResolvedAll(b, refs))
<1> DEFINE a == Mapped(LAMBDA r : Resolved(b, r), refs)
<1>1. Len(refs) \in Nat /\ a = [i \in 1 .. Len(refs) |-> a[i]]
  BY HeadOfList DEF Mapped
<1>2. ASSUME NEW i \in 1 .. Len(refs) PROVE Listing(a[i])
  <2> DEFINE r == refs[i]
  <2>1. a[i] = Resolved(b, r)
    BY DEF Mapped
  <2> HIDE DEF r, a
  <2>2. CASE r \in DOMAIN b.node
    BY <2>1, <2>2, ListOfOne DEF Resolved
  <2>3. CASE r \notin DOMAIN b.node /\ r \in EdgeIds(b)
    <3>1. Listing(EdgeOf(b, r).outs)
      BY <2>3, EdgeOfIsOne, EdgesThatAre DEF IsBuilder, IsEdge
    <3> QED
      BY <2>1, <2>3, <3>1 DEF Resolved
  <2>4. CASE r \notin DOMAIN b.node /\ r \notin EdgeIds(b)
    BY <2>1, <2>4, EmptyList DEF Resolved
  <2> QED
    BY <2>2, <2>3, <2>4
<1> HIDE DEF a
<1>3. Listing(FlattenSeq(a))
  BY <1>1, <1>2, FlattenList
<1>4. Listing(Distinct(FlattenSeq(a)))
  BY <1>3, DistinctList
<1> QED
  BY <1>4 DEF ResolvedAll, a

LEMMA EdgeOutputsList ==
  ASSUME NEW b, NEW raw, Listing(raw.outs)
  PROVE  Listing(EdgeOutputs(b, raw))
<1> DEFINE a == Mapped(LAMBDA id : WithOutput(b, raw, id), raw.outs)
<1>1. Listing(a)
  <2>1. a = [i \in 1 .. Len(raw.outs) |-> a[i]] /\ Len(raw.outs) \in Nat
    BY HeadOfList DEF Mapped
  <2> HIDE DEF a
  <2> QED
    BY <2>1, ListingOfDomain
<1>2. Listing(Distinct(a))
  <2> HIDE DEF a
  <2> QED
    BY <1>1, DistinctList
<1>3. Listing(<<Result(raw.id)>>)
  BY ListOfOne
<1> QED
  BY <1>2, <1>3 DEF EdgeOutputs

LEMMA WithOutputsShape ==
  ASSUME NEW b, IsBuilder(b), NEW raw, Listing(raw.outs), NEW role
  PROVE  IsBuilder(WithOutputs(b, raw, role))
<1> DEFINE a == Mapped(LAMBDA id : <<id, WithOutput(b, raw, id)>>, raw.outs)
           named == IF raw.outs = <<>> THEN EdgeOutputs(b, raw) ELSE FlattenSeq(a)
           declared == Declaring(b, named, Synthesized(raw.t, role))
           c == WithOutputs(b, raw, role)
<1>1. Listing(FlattenSeq(a))
  <2>1. Len(raw.outs) \in Nat /\ a = [i \in 1 .. Len(raw.outs) |-> a[i]]
    BY HeadOfList DEF Mapped
  <2>2. ASSUME NEW i \in 1 .. Len(raw.outs) PROVE Listing(a[i])
    <3>1. a[i] = <<raw.outs[i], WithOutput(b, raw, raw.outs[i])>>
      BY DEF Mapped
    <3> HIDE DEF a
    <3>2. a[i] = [k \in 1 .. 2 |-> a[i][k]]
      BY <3>1
    <3> QED
      BY <3>2, ListingOfDomain
  <2> HIDE DEF a
  <2> QED
    BY <2>1, <2>2, FlattenList
<1>2. Listing(named)
  BY <1>1, EdgeOutputsList
<1>3. Listing(declared.pool)
  <2> HIDE DEF named
  <2> QED
    BY <1>2, DeclaringShape
<1>4. /\ c = [node |-> c.node, pool |-> c.pool, factors |-> c.factors, edges |-> c.edges,
              producer |-> c.producer, alias |-> c.alias, promoted |-> c.promoted]
      /\ c.pool = declared.pool /\ c.edges = b.edges
  <2> HIDE DEF declared
  <2>1. c = [b EXCEPT !.node = declared.node, !.pool = declared.pool, !.alias = c.alias]
    BY DEF WithOutputs, IsBuilder, declared
  <2> HIDE DEF c
  <2> QED
    BY <2>1 DEF IsBuilder
<1> QED
  BY <1>3, <1>4 DEF IsBuilder

LEMMA WithEdgeShape ==
  ASSUME NEW b, IsBuilder(b), NEW raw, IsEdge(raw), NEW last
  PROVE  IsBuilder(WithEdge(b, raw, last))
<1> DEFINE role == IF last THEN "measure" ELSE "support"
           c == WithOutputs(b, raw, role)
           ins == ResolvedAll(b, raw.ins)
           outs == EdgeOutputs(b, raw)
           via == IF ResolvedAll(c, raw.via) = <<>> THEN raw.via ELSE ResolvedAll(c, raw.via)
           edge == [id |-> raw.id, t |-> raw.t, ins |-> ins, outs |-> outs,
                    factors |-> raw.factors, via |-> via, role |-> raw.role]
           d == WithEdge(b, raw, last)
<1>1. Listing(raw.ins) /\ Listing(raw.outs) /\ Listing(raw.via) /\ raw.id = <<raw.id[1], raw.id[2]>>
  BY DEF IsEdge
<1>2. IsBuilder(c)
  <2> HIDE DEF role
  <2> QED
    BY <1>1, WithOutputsShape
<1> HIDE DEF c
<1>3. Listing(ins) /\ Listing(outs) /\ Listing(via)
  BY <1>1, <1>2, ResolvedAllList, EdgeOutputsList
<1> HIDE DEF ins, outs, via
<1>4. IsEdge(edge)
  BY <1>1, <1>3 DEF IsEdge
<1>5. CASE raw.t = "MATCH_OPTIONS"
  <2>1. d = [b EXCEPT !.promoted = @ \cup ToSet(ins)]
    BY <1>5 DEF WithEdge, ins
  <2> HIDE DEF d
  <2>2. IsBuilder(d)
    BY <2>1 DEF IsBuilder
  <2> QED
    BY <2>2 DEF d
<1>6. CASE raw.t # "MATCH_OPTIONS"
  <2>1. d = [c EXCEPT !.factors = @ \cup raw.factors, !.edges = Append(@, edge),
                      !.producer = [id \in DOMAIN @ \cup ToSet(outs) |->
                                      IF id \in ToSet(outs) THEN raw.id ELSE c.producer[id]]]
    BY <1>6 DEF WithEdge, c, ins, outs, via
  <2> HIDE DEF d, edge
  <2>2. /\ d = [node |-> d.node, pool |-> d.pool, factors |-> d.factors, edges |-> d.edges,
                producer |-> d.producer, alias |-> d.alias, promoted |-> d.promoted]
        /\ d.pool = c.pool /\ d.edges = Append(c.edges, edge)
    BY <2>1, <1>2 DEF IsBuilder
  <2>3. AreEdges(Append(c.edges, edge)) /\ Listing(c.pool)
    BY <1>2, <1>4, EdgesWithOneMore DEF IsBuilder
  <2>4. IsBuilder(d)
    BY <2>2, <2>3 DEF IsBuilder
  <2> QED
    BY <2>4 DEF d
<1> QED
  BY <1>5, <1>6

LEMMA WithRoleShape ==
  ASSUME NEW b, IsBuilder(b), NEW ids, NEW role
  PROVE  IsBuilder(WithRole(b, ids, role))
<1> DEFINE c == WithRole(b, ids, role)
<1>1. c = [b EXCEPT !.node = c.node]
  BY DEF WithRole, IsBuilder
<1> HIDE DEF c
<1>2. IsBuilder(c)
  BY <1>1 DEF IsBuilder
<1> QED
  BY <1>2 DEF c

LEMMA AddedShape ==
  ASSUME NEW b, IsBuilder(b), NEW id, NEW concept
  PROVE  Listing(Added(b, id, concept).pool)
<1>1. Listing(Append(b.pool, id)) /\ Listing(b.pool)
  BY ListWithOneMore DEF IsBuilder
<1>2. Added(b, id, concept).pool = b.pool \/ Added(b, id, concept).pool = Append(b.pool, id)
  BY DEF Added, IsBuilder
<1> QED
  BY <1>1, <1>2

LEMMA StepReadsList ==
  ASSUME NEW b, IsBuilder(b), NEW name
  PROVE  Listing(StepReads(b, name))
<1>1. CASE name \in EdgeIds(b)
  <2>1. Listing(EdgeOf(b, name).outs)
    BY <1>1, EdgeOfIsOne, EdgesThatAre DEF IsBuilder, IsEdge
  <2> QED
    BY <1>1, <2>1 DEF StepReads
<1>2. CASE name \notin EdgeIds(b) /\ name \in DOMAIN b.node
  BY <1>2, ListOfOne DEF StepReads
<1>3. CASE name \notin EdgeIds(b) /\ name \notin DOMAIN b.node
  BY <1>3, EmptyList DEF StepReads
<1> QED
  BY <1>1, <1>2, <1>3

LEMMA WithStepShapedShape ==
  ASSUME NEW b, IsBuilder(b), NEW raw, IsEdge(raw), NEW last
  PROVE  IsBuilder(WithStepShaped(b, raw, last))
<1> DEFINE role == StepRole(raw, last)
           result == Result(raw.id)
           declared == IF raw.outs = <<>> THEN Added(b, result, StepResult(raw.t, role))
                       ELSE Declaring(b, raw.outs, Synthesized(raw.t, role))
           known == b.factors \cup raw.factors
           reads == Mapped(LAMBDA name : StepReads(b, name), raw.ins)
           edge == [id |-> raw.id, t |-> raw.t,
                    outs |-> IF raw.outs = <<>> THEN <<result>> ELSE raw.outs,
                    ins |-> Distinct(FlattenSeq(reads)), via |-> raw.via, role |-> raw.role,
                    factors |-> raw.factors \cup {f \in known : f[1] \in FactorsOf(raw.t)}]
           answers == UNION {ToSet(StepReads(b, name)) : name \in ToSet(raw.ins) \cap EdgeIds(b)}
           d == WithStepShaped(b, raw, last)
<1>1. Listing(raw.ins) /\ Listing(raw.outs) /\ Listing(raw.via) /\ raw.id = <<raw.id[1], raw.id[2]>>
  BY DEF IsEdge
<1>2. Listing(declared.pool)
  BY <1>1, AddedShape, DeclaringShape
<1>3. Listing(Distinct(FlattenSeq(reads)))
  <2>1. Len(raw.ins) \in Nat /\ reads = [i \in 1 .. Len(raw.ins) |-> reads[i]]
    BY <1>1, HeadOfList DEF Mapped
  <2>2. \A i \in 1 .. Len(raw.ins) : Listing(reads[i])
    BY StepReadsList DEF Mapped
  <2> HIDE DEF reads
  <2>3. Listing(FlattenSeq(reads))
    BY <2>1, <2>2, FlattenList
  <2> QED
    BY <2>3, DistinctList
<1>4. IsEdge(edge)
  <2>1. Listing(<<result>>)
    BY ListOfOne
  <2> HIDE DEF known, reads, result
  <2> QED
    BY <1>1, <1>3, <2>1 DEF IsEdge
<1>5. CASE raw.t = "MATCH_OPTIONS"
  <2>1. d = WithRole(b, answers, "measure")
    BY <1>5 DEF WithStepShaped
  <2> HIDE DEF d, answers
  <2> QED
    BY <2>1, WithRoleShape DEF d
<1>6. CASE raw.t # "MATCH_OPTIONS"
  <2>1. d = [b EXCEPT !.node = declared.node, !.pool = declared.pool, !.factors = known,
                      !.edges = Append(@, edge)]
    BY <1>6 DEF WithStepShaped
  <2> HIDE DEF d, edge, declared, known
  <2>2. /\ d = [node |-> d.node, pool |-> d.pool, factors |-> d.factors, edges |-> d.edges,
                producer |-> d.producer, alias |-> d.alias, promoted |-> d.promoted]
        /\ d.pool = declared.pool /\ d.edges = Append(b.edges, edge)
    BY <2>1 DEF IsBuilder
  <2>3. AreEdges(Append(b.edges, edge))
    BY <1>4, EdgesWithOneMore DEF IsBuilder
  <2>4. IsBuilder(d)
    BY <2>2, <2>3, <1>2 DEF IsBuilder
  <2> QED
    BY <2>4 DEF d
<1> QED
  BY <1>5, <1>6

\* One turn of the loop over what the planner wrote, and the loop.
TurnOf(written, stepped, b, i) ==
  IF stepped THEN WithStepShaped(b, written.edges[i], i = Len(written.edges))
  ELSE WithEdge(b, written.edges[i], i = Len(written.edges))
Building(written, stepped, m, after) ==
  after = [i \in 0 .. m |-> IF i = 0 THEN Builder(written) ELSE TurnOf(written, stepped, after[i - 1], i)]

LEMMA BuildingRuns ==
  ASSUME NEW written, NEW stepped, NEW n \in Nat
  PROVE  \E after : Building(written, stepped, n, after)
<1> DEFINE T == {m \in 0 .. n : \E after : Building(written, stepped, m, after)}
<1>1. 0 \in T
  <2> DEFINE after == [i \in 0 .. 0 |-> Builder(written)]
  <2>1. after = [i \in 0 .. 0 |-> IF i = 0 THEN Builder(written)
                                  ELSE TurnOf(written, stepped, after[i - 1], i)]
    OBVIOUS
  <2>2. Building(written, stepped, 0, after)
    BY <2>1 DEF Building
  <2> QED
    BY <2>2
<1>2. ASSUME NEW m \in 0 .. n - 1, m \in T
      PROVE  m + 1 \in T
  <2>1. PICK after : Building(written, stepped, m, after)
    BY <1>2
  <2> DEFINE more == [i \in 0 .. m + 1 |->
                        IF i = m + 1 THEN TurnOf(written, stepped, after[m], m + 1) ELSE after[i]]
  <2>2. \A i \in 0 .. m : after[i] = IF i = 0 THEN Builder(written)
                                     ELSE TurnOf(written, stepped, after[i - 1], i)
    BY Zenon, <2>1 DEF Building
  <2>3. ASSUME NEW i \in 0 .. m + 1
        PROVE  more[i] = IF i = 0 THEN Builder(written) ELSE TurnOf(written, stepped, more[i - 1], i)
    <3>1. CASE i = m + 1
      <4>1. i - 1 = m /\ i # 0 /\ m \in 0 .. m + 1 /\ m # m + 1
        BY <3>1
      <4>2. more[i] = TurnOf(written, stepped, after[m], i) /\ more[i - 1] = after[m]
        BY <3>1, <4>1
      <4> HIDE DEF more
      <4> QED
        BY <4>1, <4>2
    <3>2. CASE i # m + 1
      <4>1. i \in 0 .. m /\ (i = 0 \/ (i - 1 \in 0 .. m + 1 /\ i - 1 # m + 1))
        BY <3>2
      <4>2. more[i] = after[i] /\ (i # 0 => more[i - 1] = after[i - 1])
        BY <3>2, <4>1
      <4> HIDE DEF more
      <4> QED
        BY <4>1, <4>2, <2>2
    <3> QED
      BY <3>1, <3>2
  <2>4. more = [i \in 0 .. m + 1 |-> more[i]]
    OBVIOUS
  <2> HIDE DEF more
  <2>5. Building(written, stepped, m + 1, more)
    BY <2>3, <2>4 DEF Building
  <2>6. m + 1 \in 0 .. n
    OBVIOUS
  <2> QED
    BY <2>5, <2>6
<1>3. 0 .. n \subseteq T
  <2>1. T \in SUBSET Nat
    OBVIOUS
  <2> HIDE DEF T
  <2> QED
    BY <1>1, <1>2, <2>1, UpTo
<1> QED
  BY <1>3

LEMMA BuiltShape ==
  ASSUME NEW written, Listing(written.pool), AreEdges(written.edges), NEW stepped
  PROVE  IsBuilder(Built(written, stepped))
<1> DEFINE n == Len(written.edges)
           Loop(f) == f = [i \in 0 .. n |-> IF i = 0 THEN Builder(written)
                                            ELSE TurnOf(written, stepped, f[i - 1], i)]
           after == CHOOSE f : Loop(f)
<1>1. n \in Nat /\ \A i \in 1 .. n : IsEdge(written.edges[i])
  BY EdgesThatAre DEF AreEdges
<1>2. PICK f : Building(written, stepped, n, f)
  <2> HIDE DEF n
  <2> QED
    BY <1>1, BuildingRuns
<1>3. Loop(after)
  BY Zenon, <1>2 DEF Building
<1>4. Built(written, stepped) = after[n]
  BY DEF Built, TurnOf
<1> HIDE DEF after
<1>5. \A i \in 0 .. n : after[i] = IF i = 0 THEN Builder(written)
                                   ELSE TurnOf(written, stepped, after[i - 1], i)
  BY Zenon, <1>3
<1> DEFINE T == {i \in 0 .. n : IsBuilder(after[i])}
<1>6. 0 .. n \subseteq T
  <2>1. 0 \in T
    <3>1. after[0] = Builder(written) /\ 0 \in 0 .. n
      BY <1>1, <1>5
    <3>2. IsBuilder(Builder(written))
      BY NoEdges DEF IsBuilder, Builder
    <3> QED
      BY <3>1, <3>2
  <2>2. ASSUME NEW i \in 0 .. n - 1, i \in T
        PROVE  i + 1 \in T
    <3>1. i + 1 \in 0 .. n /\ i + 1 # 0 /\ (i + 1) - 1 = i /\ i + 1 \in 1 .. n /\ IsBuilder(after[i])
      BY <1>1, <2>2
    <3>2. after[i + 1] = TurnOf(written, stepped, after[i], i + 1)
      BY <1>5, <3>1
    <3>3. IsBuilder(TurnOf(written, stepped, after[i], i + 1))
      <4>1. IsEdge(written.edges[i + 1])
        BY <1>1, <3>1
      <4> QED
        BY <3>1, <4>1, WithEdgeShape, WithStepShapedShape DEF TurnOf
    <3> QED
      BY <3>1, <3>2, <3>3
  <2>3. T \in SUBSET Nat
    OBVIOUS
  <2> HIDE DEF T, n
  <2> QED
    BY <1>1, <2>1, <2>2, <2>3, UpTo
<1>7. n \in 0 .. n
  BY <1>1
<1> QED
  BY <1>4, <1>6, <1>7

\* Each completion keeps the shape.
LEMMA PromotingShape ==
  ASSUME NEW b, IsBuilder(b)
  PROVE  IsBuilder(Promoting(b))
BY WithRoleShape DEF Promoting

LEMMA PlacesResolvedShape ==
  ASSUME NEW b, IsBuilder(b)
  PROVE  IsBuilder(PlacesResolved(b))
<1> DEFINE Wanted(e) == Kept(e.ins, LAMBDA id :
             /\ id \notin DOMAIN b.producer
             /\ \/ e.t \in Placed /\ IsPlace(b, id)
                \/ e.t = "FILTER" /\ b.node[id].core = "location")
           each == Mapped(Wanted, b.edges)
           wanted == Distinct(FlattenSeq(each))
           unused == CHOOSE n \in 0..Len(b.edges) :
                       /\ <<"resolve_places", n>> \notin EdgeIds(b)
                       /\ \A m \in 0..(n - 1) : <<"resolve_places", m>> \in EdgeIds(b)
           edge == [id |-> <<"resolve_places", unused>>, t |-> "RESOLVE_PLACES", ins |-> wanted,
                    outs |-> wanted, factors |-> {}, via |-> <<>>, role |-> Unsaid]
           c == PlacesResolved(b)
<1>1. Listing(wanted)
  <2>1. Len(b.edges) \in Nat /\ each = [i \in 1 .. Len(b.edges) |-> each[i]]
    BY EdgesThatAre DEF Mapped, IsBuilder
  <2>2. ASSUME NEW i \in 1 .. Len(b.edges) PROVE Listing(each[i])
    <3>1. Listing(b.edges[i].ins)
      BY EdgesThatAre DEF IsBuilder, AreEdges, IsEdge
    <3>2. Listing(Wanted(b.edges[i]))
      BY <3>1, ItemsAtList DEF Kept
    <3> HIDE DEF Wanted
    <3> QED
      BY <3>2 DEF Mapped
  <2> HIDE DEF each
  <2>3. Listing(FlattenSeq(each))
    BY <2>1, <2>2, FlattenList
  <2> QED
    BY <2>3, DistinctList
<1>2. IsEdge(edge)
  <2> HIDE DEF wanted, unused
  <2> QED
    BY <1>1, EmptyList DEF IsEdge
<1>3. c = b \/ c = [b EXCEPT !.edges = <<edge>> \o @, !.producer = c.producer]
  <2>1. c = IF wanted = <<>> THEN b
            ELSE [b EXCEPT !.edges = <<edge>> \o @,
                           !.producer = [i \in DOMAIN @ \cup ToSet(wanted) |->
                                           IF i \in ToSet(wanted) THEN edge.id ELSE b.producer[i]]]
    BY DEF PlacesResolved
  <2> HIDE DEF c, edge, wanted
  <2> QED
    BY <2>1 DEF IsBuilder
<1>4. AreEdges(<<edge>> \o b.edges)
  <2> HIDE DEF edge
  <2> QED
    BY <1>2, EdgesTogether DEF IsBuilder
<1> HIDE DEF c, edge
<1>5. IsBuilder(c)
  BY <1>3, <1>4 DEF IsBuilder
<1> QED
  BY <1>5 DEF c

LEMMA EdgeOfParts ==
  ASSUME NEW e, IsEdge(e), NEW ins, Listing(ins), NEW outs, Listing(outs), NEW via, Listing(via),
         NEW factors
  PROVE  IsEdge([id |-> e.id, t |-> e.t, ins |-> ins, outs |-> outs,
                 factors |-> factors, via |-> via, role |-> e.role])
BY DEF IsEdge

LEMMA EdgeChanged ==
  ASSUME NEW e, IsEdge(e), NEW x, Listing(x)
  PROVE  /\ IsEdge([e EXCEPT !.ins = x]) /\ IsEdge([e EXCEPT !.outs = x]) /\ IsEdge([e EXCEPT !.via = x])
         /\ [e EXCEPT !.ins = x].id = e.id /\ [e EXCEPT !.outs = x].id = e.id
         /\ [e EXCEPT !.via = x].id = e.id
<1>1. /\ [e EXCEPT !.ins = x] = [id |-> e.id, t |-> e.t, ins |-> x, outs |-> e.outs,
                                 factors |-> e.factors, via |-> e.via, role |-> e.role]
      /\ [e EXCEPT !.outs = x] = [id |-> e.id, t |-> e.t, ins |-> e.ins, outs |-> x,
                                  factors |-> e.factors, via |-> e.via, role |-> e.role]
      /\ [e EXCEPT !.via = x] = [id |-> e.id, t |-> e.t, ins |-> e.ins, outs |-> e.outs,
                                 factors |-> e.factors, via |-> x, role |-> e.role]
  BY DEF IsEdge
<1> QED
  BY <1>1, EdgeOfParts DEF IsEdge

LEMMA EdgeChangedTwice ==
  ASSUME NEW e, IsEdge(e), NEW x, Listing(x), NEW y, Listing(y)
  PROVE  IsEdge([e EXCEPT !.ins = x, !.outs = y]) /\ IsEdge([e EXCEPT !.ins = x, !.via = y])
<1> DEFINE d == [e EXCEPT !.ins = x]
<1>1. IsEdge(d)
  BY EdgeChanged
<1>2. /\ [e EXCEPT !.ins = x, !.outs = y] = [d EXCEPT !.outs = y]
      /\ [e EXCEPT !.ins = x, !.via = y] = [d EXCEPT !.via = y]
  OBVIOUS
<1> HIDE DEF d
<1>3. IsEdge([d EXCEPT !.outs = y]) /\ IsEdge([d EXCEPT !.via = y])
  BY <1>1, EdgeChanged
<1> QED
  BY <1>2, <1>3

LEMMA InsGrown ==
  ASSUME NEW edges, AreEdges(edges), NEW first \in DOMAIN edges, NEW x, Listing(x)
  PROVE  AreEdges([edges EXCEPT ![first].ins = x])
<1> DEFINE c == [edges EXCEPT ![first].ins = x]
<1>1. /\ c = [i \in 1 .. Len(edges) |-> c[i]] /\ Len(edges) \in Nat
      /\ \A i \in 1 .. Len(edges) : c[i] = IF i = first THEN [edges[i] EXCEPT !.ins = x] ELSE edges[i]
  BY EdgesThatAre
<1>2. \A i \in 1 .. Len(edges) : IsEdge(edges[i])
  BY EdgesThatAre DEF AreEdges
<1> HIDE DEF c
<1>3. ASSUME NEW i \in 1 .. Len(edges) PROVE IsEdge(c[i])
  <2>1. IsEdge([edges[i] EXCEPT !.ins = x])
    BY <1>2, EdgeChanged
  <2> QED
    BY <1>1, <1>2, <2>1
<1>4. AreEdges(c)
  BY <1>1, <1>3, EdgesOfAll
<1> QED
  BY <1>4 DEF c

LEMMA RadiusGivenShape ==
  ASSUME NEW b, IsBuilder(b)
  PROVE  IsBuilder(RadiusGiven(b))
<1> DEFINE consumed == UNION {ToSet(e.ins) : e \in ToSet(b.edges)}
           Measured(e) == IF e.t = "DISTANCE_MEASURE"
                          THEN Kept(e.outs, LAMBDA id : id \notin consumed) ELSE <<>>
           each == Mapped(Measured, b.edges)
           unread == FlattenSeq(each)
           extents == Kept(b.pool, LAMBDA id : Contextual(b, id) /\ IsPlace(b, id))
           Locates(e) == e.t = "RESOLVE_PLACES" /\ extents[1] \in ToSet(e.ins)
           located == Kept(b.edges, Locates)
           anchor == IF located # <<>> THEN located[1].outs[1]
                     ELSE IF extents[1] \in DOMAIN b.alias THEN b.alias[extents[1]] ELSE extents[1]
           given == IF unread # <<>> THEN unread ELSE <<anchor>>
           lacking == {i \in 1..Len(b.edges) :
                         b.edges[i].t = "FILTER" /\ ToSet(b.edges[i].ins) \cap ToSet(given) = {}}
           first == CHOOSE i \in lacking : \A j \in lacking : i <= j
           filled == IF unread # <<>> THEN b.edges[first].ins \o given ELSE given \o b.edges[first].ins
           c == RadiusGiven(b)
<1>1. Listing(unread)
  <2>1. Len(b.edges) \in Nat /\ each = [i \in 1 .. Len(b.edges) |-> each[i]]
    BY EdgesThatAre DEF Mapped, IsBuilder
  <2>2. ASSUME NEW i \in 1 .. Len(b.edges) PROVE Listing(each[i])
    <3>1. Listing(b.edges[i].outs)
      BY EdgesThatAre DEF IsBuilder, AreEdges, IsEdge
    <3>2. Listing(Measured(b.edges[i]))
      <4> HIDE DEF consumed
      <4> QED
        BY <3>1, ItemsAtList, EmptyList DEF Kept
    <3> HIDE DEF Measured
    <3> QED
      BY <3>2 DEF Mapped
  <2> HIDE DEF each
  <2> QED
    BY <2>1, <2>2, FlattenList
<1>2. Listing(given)
  <2> HIDE DEF unread, anchor
  <2> QED
    BY <1>1, ListOfOne
<1>3. lacking # {} => first \in lacking
  <2> HIDE DEF given
  <2>1. lacking \in SUBSET Nat
    BY EdgesThatAre DEF IsBuilder
  <2> HIDE DEF lacking
  <2> QED
    BY <2>1, LeastNumber
<1>4. c = b \/ (lacking # {} /\ c = [b EXCEPT !.edges[first].ins = filled])
  <2> DEFINE wider == [b EXCEPT !.edges[first].ins = filled]
  <2>1. c = IF \/ FactorTypes(b.factors) \cap RadiusFactors = {}
               \/ unread = <<>> /\ extents = <<>>
               \/ lacking = {}
            THEN b ELSE wider
    BY DEF RadiusGiven
  <2>2. c = b \/ (lacking # {} /\ c = wider)
    <3> HIDE DEF c, unread, extents, lacking, wider
    <3> QED
      BY <2>1
  <2> QED
    BY <2>2
<1> HIDE DEF c, given, lacking, first, unread
<1>5. CASE c = b
  BY <1>5 DEF c
<1>6. CASE lacking # {} /\ c = [b EXCEPT !.edges[first].ins = filled]
  <2>1. first \in DOMAIN b.edges /\ Listing(b.edges[first].ins)
    BY <1>3, <1>6, EdgesThatAre DEF lacking, IsBuilder, AreEdges, IsEdge
  <2>2. Listing(filled)
    BY <1>1, <1>2, <2>1, ListsTogether
  <2> HIDE DEF filled
  <2>3. c = [b EXCEPT !.edges = [b.edges EXCEPT ![first].ins = filled]]
    BY <2>1, <1>6 DEF IsBuilder
  <2>4. AreEdges([b.edges EXCEPT ![first].ins = filled])
    BY <2>1, <2>2, InsGrown DEF IsBuilder
  <2>5. IsBuilder(c)
    BY <2>3, <2>4 DEF IsBuilder
  <2> QED
    BY <2>5 DEF c
<1> QED
  BY <1>4, <1>5, <1>6

LEMMA StopsReadShape ==
  ASSUME NEW b, IsBuilder(b)
  PROVE  IsBuilder(StopsRead(b))
<1> DEFINE c == StopsRead(b)
           n == Len(b.edges)
<1>1. /\ c = [b EXCEPT !.edges = c.edges]
      /\ c.edges = [i \in 1 .. n |-> c.edges[i]]
  BY DEF StopsRead, IsBuilder
<1>2. n \in Nat /\ \A i \in 1 .. n : IsEdge(b.edges[i])
  BY EdgesThatAre DEF IsBuilder, AreEdges
<1>3. ASSUME NEW i \in 1 .. n PROVE IsEdge(c.edges[i])
  <2>1. \/ c.edges[i] = b.edges[i]
        \/ \E positions : c.edges[i] = [b.edges[i] EXCEPT !.via = ItemsAt(b.edges[i].ins, positions)]
    BY Zenon DEF StopsRead, IsBuilder, Kept
  <2>2. CASE \E positions : c.edges[i] = [b.edges[i] EXCEPT !.via = ItemsAt(b.edges[i].ins, positions)]
    <3>1. PICK positions : c.edges[i] = [b.edges[i] EXCEPT !.via = ItemsAt(b.edges[i].ins, positions)]
      BY <2>2
    <3> DEFINE via == ItemsAt(b.edges[i].ins, positions)
    <3>2. Listing(via) /\ IsEdge(b.edges[i])
      BY <1>2, ItemsAtList DEF IsEdge
    <3>3. c.edges[i] = [b.edges[i] EXCEPT !.via = via]
      BY <3>1
    <3> HIDE DEF via, c
    <3>4. IsEdge([b.edges[i] EXCEPT !.via = via])
      BY <3>2, EdgeChanged
    <3> QED
      BY <3>3, <3>4
  <2> QED
    BY <1>2, <2>1, <2>2
<1> HIDE DEF c, n
<1>4. AreEdges(c.edges)
  BY <1>1, <1>2, <1>3, EdgesOfAll
<1>5. IsBuilder(c)
  BY <1>1, <1>4 DEF IsBuilder
<1> QED
  BY <1>5 DEF c

LEMMA RolesGivenShape ==
  ASSUME NEW b, IsBuilder(b)
  PROVE  /\ IsBuilder(Retyped(b)) /\ IsBuilder(RolesPropagated(b))
         /\ IsBuilder(LeavesRooted(b)) /\ IsBuilder(MeasureEnsured(b))
<1>1. \A c : (\E node : c = [b EXCEPT !.node = node]) => IsBuilder(c)
  BY DEF IsBuilder
<1>2. \E node : Retyped(b) = [b EXCEPT !.node = node]
  BY DEF Retyped
<1>3. \E node : RolesPropagated(b) = [b EXCEPT !.node = node]
  BY DEF RolesPropagated
<1>4. IsBuilder(LeavesRooted(b))
  BY WithRoleShape DEF LeavesRooted
<1>5. MeasureEnsured(b) = b \/ \E ids : MeasureEnsured(b) = WithRole(b, ids, "measure")
  BY Zenon DEF MeasureEnsured
<1>6. IsBuilder(MeasureEnsured(b))
  BY <1>5, WithRoleShape
<1> QED
  BY <1>1, <1>2, <1>3, <1>4, <1>6

LEMMA GraphAdded ==
  ASSUME NEW g, IsGraph(g), NEW id, NEW concept
  PROVE  IsGraph(Added(g, id, concept)) /\ Added(g, id, concept).edges = g.edges
<1>1. Listing(Append(g.pool, id))
  BY ListWithOneMore DEF IsGraph
<1> QED
  BY <1>1 DEF Added, IsGraph

LEMMA EdgeAppended ==
  ASSUME NEW e, IsEdge(e), NEW x
  PROVE  /\ Listing(Distinct(Append(e.ins, x))) /\ Listing(Distinct(Append(e.outs, x)))
         /\ IsEdge([e EXCEPT !.ins = Distinct(Append(@, x))])
         /\ IsEdge([e EXCEPT !.outs = Distinct(Append(@, x))])
<1> DEFINE ins == Distinct(Append(e.ins, x))
           outs == Distinct(Append(e.outs, x))
<1>1. Listing(ins) /\ Listing(outs)
  BY ListWithOneMore, DistinctList DEF IsEdge
<1>2. /\ [e EXCEPT !.ins = Distinct(Append(@, x))] = [e EXCEPT !.ins = ins]
      /\ [e EXCEPT !.outs = Distinct(Append(@, x))] = [e EXCEPT !.outs = outs]
  OBVIOUS
<1>3. IsEdge([e EXCEPT !.ins = ins]) /\ IsEdge([e EXCEPT !.outs = outs])
  <2> HIDE DEF ins, outs
  <2> QED
    BY <1>1, EdgeChanged
<1> QED
  BY <1>1, <1>2, <1>3

LEMMA WithNetworkShape ==
  ASSUME NEW g, IsGraph(g)
  PROVE  IsGraph(WithNetwork(g))
<1> DEFINE n == Len(g.edges)
           first == FirstOf(g, Routing)
           Completed2(i) ==
             LET e == g.edges[i] IN
             CASE i = first -> [e EXCEPT !.ins = Distinct(Append(@, Network)),
                                         !.outs = Distinct(Append(@, Route))]
               [] i > first /\ e.t \in ReadsRoutes /\ "field" \in AcceptedInputTypes[e.t] ->
                    [e EXCEPT !.ins = Distinct(Append(@, Route))]
               [] OTHER -> e
           nodes == Added(Added(g, Network, ImplicitNode("network")), Route, ImplicitNode("field"))
           c == WithNetwork(g)
           edges == [i \in 1 .. n |-> Completed2(i)]
<1>1. c = g \/ c = [nodes EXCEPT !.edges = edges]
  BY DEF WithNetwork
<1>2. IsGraph(nodes)
  BY GraphAdded
<1>3. n \in Nat /\ \A i \in 1 .. n : IsEdge(g.edges[i])
  BY EdgesThatAre DEF IsGraph, AreEdges
<1>4. ASSUME NEW i \in 1 .. n PROVE IsEdge(Completed2(i))
  <2> DEFINE e == g.edges[i]
             ins == Distinct(Append(e.ins, Network))
             outs == Distinct(Append(e.outs, Route))
             both == [e EXCEPT !.ins = Distinct(Append(@, Network)),
                               !.outs = Distinct(Append(@, Route))]
             read == [e EXCEPT !.ins = Distinct(Append(@, Route))]
  <2>1. IsEdge(e) /\ Listing(ins) /\ Listing(outs) /\ IsEdge(read)
    <3>1. IsEdge(e)
      BY <1>3
    <3> HIDE DEF e
    <3> QED
      BY <3>1, EdgeAppended
  <2>2. IsEdge(both)
    <3>1. both = [e EXCEPT !.ins = ins, !.outs = outs]
      OBVIOUS
    <3>2. IsEdge([e EXCEPT !.ins = ins, !.outs = outs])
      <4> HIDE DEF e, ins, outs
      <4> QED
        BY <2>1, EdgeChangedTwice
    <3> QED
      BY <3>1, <3>2
  <2>3. CASE i = first
    <3>1. Completed2(i) = both
      BY <2>3
    <3> QED
      BY <2>2, <3>1
  <2>4. CASE i # first /\ i > first /\ e.t \in ReadsRoutes /\ "field" \in AcceptedInputTypes[e.t]
    <3>1. Completed2(i) = read
      <4> HIDE DEF both, read, first
      <4> QED BY <2>4 DEF both, read
    <3> QED
      BY <2>1, <3>1
  <2>5. CASE i # first /\ ~(i > first /\ e.t \in ReadsRoutes /\ "field" \in AcceptedInputTypes[e.t])
    <3>1. Completed2(i) = e
      <4> HIDE DEF first
      <4> QED BY <2>5
    <3> QED
      BY <2>1, <3>1
  <2> QED
    BY <2>3, <2>4, <2>5
<1> HIDE DEF Completed2, nodes, n
<1>5. AreEdges(edges)
  <2>1. edges = [i \in 1 .. n |-> edges[i]] /\ \A i \in 1 .. n : IsEdge(edges[i])
    BY <1>4
  <2> HIDE DEF edges
  <2> QED
    BY <2>1, <1>3, EdgesOfAll
<1> HIDE DEF edges, c
<1>6. IsGraph(c)
  BY <1>1, <1>2, <1>5 DEF IsGraph
<1> QED
  BY <1>6 DEF c

LEMMA WithSpatialFieldShape ==
  ASSUME NEW g, IsGraph(g)
  PROVE  IsGraph(WithSpatialField(g))
<1> DEFINE nodes == Added(g, SpatialField, ImplicitNode("field"))
           first == FirstOf(g, {"DISTANCE_MEASURE"})
           outs == Distinct(Append(nodes.edges[first].outs, SpatialField))
           c == WithSpatialField(g)
<1>1. IsGraph(nodes) /\ nodes.edges = g.edges
  BY GraphAdded
<1>2. \/ c = g \/ c = nodes
      \/ Uses(g, {"DISTANCE_MEASURE"}) /\ c = [nodes EXCEPT !.edges[first].outs = outs]
  BY DEF WithSpatialField
<1>3. ASSUME Uses(g, {"DISTANCE_MEASURE"}) PROVE first \in DOMAIN g.edges
  <2> DEFINE T == {i \in 1 .. Len(g.edges) : g.edges[i].t \in {"DISTANCE_MEASURE"}}
  <2>1. Len(g.edges) \in Nat /\ DOMAIN g.edges = 1 .. Len(g.edges)
    BY EdgesThatAre DEF IsGraph
  <2>2. PICK e \in ToSet(g.edges) : e.t \in {"DISTANCE_MEASURE"}
    BY <1>3 DEF Uses
  <2>3. PICK k \in DOMAIN g.edges : g.edges[k] = e
    BY <2>2 DEF ToSet
  <2>4. T \in SUBSET Nat /\ T # {}
    BY <2>1, <2>2, <2>3
  <2>5. PICK i \in T : \A j \in T : i <= j
    <3> HIDE DEF T
    <3> QED
      BY <2>4, LeastNumber
  <2>6. i \in 1 .. Len(g.edges) /\ g.edges[i].t \in {"DISTANCE_MEASURE"}
        /\ \A j \in 1 .. (i - 1) : g.edges[j].t \notin {"DISTANCE_MEASURE"}
    BY <2>1, <2>5
  <2>7. FirstOf(g, {"DISTANCE_MEASURE"}) \in 1 .. Len(g.edges)
    BY <2>6 DEF FirstOf
  <2> QED
    BY <2>1, <2>7
<1> HIDE DEF nodes, first
<1>4. CASE Uses(g, {"DISTANCE_MEASURE"}) /\ c = [nodes EXCEPT !.edges[first].outs = outs]
  <2>1. first \in DOMAIN g.edges
    BY <1>3, <1>4
  <2>2. Len(g.edges) \in Nat /\ DOMAIN g.edges = 1 .. Len(g.edges) /\ \A i \in DOMAIN g.edges : IsEdge(g.edges[i])
    BY EdgesThatAre DEF IsGraph, AreEdges
  <2>3. Listing(outs)
    BY <1>1, <2>1, <2>2, EdgeAppended
  <2> HIDE DEF outs
  <2> DEFINE edges == [g.edges EXCEPT ![first].outs = outs]
  <2>4. c = [nodes EXCEPT !.edges = edges]
    BY <1>1, <1>4, <2>1 DEF IsGraph
  <2>5. AreEdges(edges)
    <3>1. edges = [i \in 1 .. Len(g.edges) |-> edges[i]]
      BY <2>2
    <3>2. ASSUME NEW i \in 1 .. Len(g.edges) PROVE IsEdge(edges[i])
      <4>1. IsEdge([g.edges[i] EXCEPT !.outs = outs]) /\ IsEdge(g.edges[i])
        BY <2>2, <2>3, EdgeChanged
      <4>2. edges[i] = IF i = first THEN [g.edges[i] EXCEPT !.outs = outs] ELSE g.edges[i]
        BY <2>1, <2>2
      <4> QED
        BY <4>1, <4>2
    <3> HIDE DEF edges
    <3> QED
      BY <2>2, <3>1, <3>2, EdgesOfAll
  <2> HIDE DEF edges, c
  <2>6. IsGraph(c)
    BY <1>1, <2>4, <2>5 DEF IsGraph
  <2> QED
    BY <2>6 DEF c
<1> HIDE DEF c
<1>5. IsGraph(c)
  BY <1>1, <1>2, <1>4 DEF c
<1> QED
  BY <1>5 DEF c

LEMMA CompletedShape ==
  ASSUME NEW written, Listing(written.pool), AreEdges(written.edges)
  PROVE  IsGraph(Canonical(written)) /\ IsGraph(FromSteps(written))
<1>1. ASSUME NEW b, IsBuilder(b) PROVE IsGraph(WithImplicitConcepts(GraphOf(b)))
  <2>1. IsGraph(GraphOf(b))
    BY <1>1 DEF IsBuilder, IsGraph, GraphOf
  <2> QED
    BY <2>1, WithNetworkShape, WithSpatialFieldShape DEF WithImplicitConcepts
<1>2. IsBuilder(Built(written, TRUE)) /\ IsBuilder(EdgesBuilt(written))
  BY BuiltShape, PromotingShape DEF EdgesBuilt
<1>3. IsBuilder(MeasureEnsured(LeavesRooted(RolesPropagated(Retyped(
        StopsRead(RadiusGiven(PlacesResolved(EdgesBuilt(written)))))))))
  <2>1. IsBuilder(StopsRead(RadiusGiven(PlacesResolved(EdgesBuilt(written)))))
    BY <1>2, PlacesResolvedShape, RadiusGivenShape, StopsReadShape
  <2> QED
    BY <2>1, RolesGivenShape
<1> QED
  BY <1>1, <1>2, <1>3 DEF Canonical, FromSteps

LEMMA RoutedThroughShape ==
  ASSUME NEW g, IsGraph(g), NEW stop
  PROVE  IsGraph(RoutedThrough(g, stop))
<1> DEFINE n == Len(g.edges)
           routes == {i \in 1..n : g.edges[i].t = "ROUTE_MEASURE"}
           Through(e) == [e EXCEPT !.ins = Distinct(Append(@, stop)), !.via = <<stop>>]
           edges == [i \in 1 .. n |-> IF i \in routes THEN Through(g.edges[i]) ELSE g.edges[i]]
           c == RoutedThrough(g, stop)
<1>1. c = g \/ c = [g EXCEPT !.edges = edges]
  BY DEF RoutedThrough
<1>2. n \in Nat /\ \A i \in 1 .. n : IsEdge(g.edges[i])
  BY EdgesThatAre DEF IsGraph, AreEdges
<1>3. ASSUME NEW i \in 1 .. n PROVE IsEdge(Through(g.edges[i]))
  <2> DEFINE e == g.edges[i]
             ins == Distinct(Append(e.ins, stop))
             via == <<stop>>
  <2>1. IsEdge(e) /\ Listing(ins) /\ Listing(via) /\ Listing(e.outs)
    BY <1>2, EdgeAppended, ListOfOne DEF IsEdge
  <2>2. Through(e) = [e EXCEPT !.ins = ins, !.via = via]
    OBVIOUS
  <2>3. IsEdge([e EXCEPT !.ins = ins, !.via = via])
    <3> HIDE DEF e, ins, via
    <3> QED
      BY <2>1, EdgeChangedTwice
  <2> QED
    BY <2>2, <2>3
<1>4. AreEdges(edges)
  <2> HIDE DEF Through, routes, n
  <2>1. edges = [i \in 1 .. n |-> edges[i]] /\ \A i \in 1 .. n : IsEdge(edges[i])
    BY <1>2, <1>3
  <2> HIDE DEF edges
  <2> QED
    BY <2>1, <1>2, EdgesOfAll
<1> HIDE DEF edges, c
<1>5. IsGraph(c)
  BY <1>1, <1>4 DEF IsGraph
<1> QED
  BY <1>5 DEF c

LEMMA GroundedShape ==
  ASSUME NEW g, IsGraph(g), NEW stated, NEW stop
  PROVE  IsGraph(Grounded(g, stated, stop))
<1> DEFINE routed == RoutedThrough(g, stop)
           added == {f \in stated : f[1] \notin FactorTypes(g.factors)}
           Bound(e) == [e EXCEPT !.factors = @ \cup {f \in added : f[1] \in FactorsOf(e.t)}]
           edges == Mapped(Bound, routed.edges)
           c == Grounded(g, stated, stop)
<1>1. IsGraph(routed)
  BY RoutedThroughShape
<1>2. c = [routed EXCEPT !.factors = @ \cup added, !.edges = edges]
  BY DEF Grounded
<1> HIDE DEF routed, added
<1>3. Len(routed.edges) \in Nat /\ \A i \in 1 .. Len(routed.edges) : IsEdge(routed.edges[i])
  BY <1>1, EdgesThatAre DEF IsGraph, AreEdges
<1>4. ASSUME NEW e, IsEdge(e) PROVE IsEdge(Bound(e))
  <2> DEFINE factors == e.factors \cup {f \in added : f[1] \in FactorsOf(e.t)}
  <2>1. Bound(e) = [id |-> e.id, t |-> e.t, ins |-> e.ins, outs |-> e.outs,
                    factors |-> factors, via |-> e.via, role |-> e.role]
    BY <1>4 DEF IsEdge
  <2> HIDE DEF factors
  <2> QED
    BY <1>4, <2>1, EdgeOfParts DEF IsEdge
<1>5. AreEdges(edges)
  <2>1. /\ edges = [i \in 1 .. Len(routed.edges) |-> edges[i]]
        /\ \A i \in 1 .. Len(routed.edges) : edges[i] = Bound(routed.edges[i])
    BY <1>3 DEF Mapped
  <2> HIDE DEF edges, Bound
  <2>2. \A i \in 1 .. Len(routed.edges) : IsEdge(edges[i])
    BY <1>3, <1>4, <2>1
  <2> QED
    BY <2>1, <2>2, <1>3, EdgesOfAll
<1> HIDE DEF edges, c
<1>6. IsGraph(c)
  BY <1>1, <1>2, <1>5 DEF IsGraph
<1> QED
  BY <1>6 DEF c

-----------------------------------------------------------------------------
\* The shape of a plan. Whatever a node reads is emitted before it.

IsRef(ref, ids) ==
  /\ ref[1] \in ids
  /\ ref = <<ref[1]>> \/ ref = <<ref[1], "ranked">> \/ \E k \in Nat : ref = <<ref[1], "place", k>>
AreRefs(refs, ids) == Listing(refs) /\ \A ref \in ToSet(refs) : IsRef(ref, ids)
AreArguments(args, ids) == \A slot \in DOMAIN args : AreRefs(args[slot], ids)
IsNode(n, ids) ==
  /\ n = [id |-> n.id, op |-> n.op, args |-> n.args, names |-> n.names, deps |-> n.deps,
          type |-> n.type, role |-> n.role]
  /\ Listing(n.names) /\ Listing(n.deps) /\ ToSet(n.deps) \subseteq ids
  /\ AreArguments(n.args, ids)
  /\ n.id \notin ids
Before(nodes, i) == {nodes[j].id : j \in 1 .. i - 1}
IsPlan(F) ==
  /\ F = [graph |-> F.graph, fused |-> F.fused, bound |-> F.bound, stops |-> F.stops,
          square |-> F.square, error |-> F.error]
  /\ Listing(F.graph) /\ \A i \in DOMAIN F.graph : IsNode(F.graph[i], Before(F.graph, i))
  /\ \A id \in DOMAIN F.bound : Listing(F.bound[id])

\* The stops known of a matrix are those it measures, and a matrix between inputs has them known.
MatricesKnown(F) ==
  /\ \A id \in DOMAIN F.stops :
       /\ id \in NodeIds(F) /\ F.stops[id] # <<>>
       /\ LET n == NodeOf(F, id) IN
          n.op = "distance_matrix" /\ "origins" \in DOMAIN n.args /\ n.args.origins = F.stops[id]
  /\ \A n \in ToSet(F.graph) : n.op = "distance_matrix" /\ Len(n.deps) >= 2 => n.id \in DOMAIN F.stops

\* A tour's matrix is in the plan, and is the one its stops are of.
Fits(F, args) ==
  {"nodes", "distance_matrix"} \subseteq DOMAIN args =>
    LET id == args.distance_matrix[1][1]
    IN /\ id \in NodeIds(F)
       /\ NodeOf(F, id).op = "distance_matrix" /\ Len(NodeOf(F, id).deps) >= 2
            => args.nodes = NodeOf(F, id).args.origins
ToursFit(F) == \A n \in ToSet(F.graph) : n.op = "tsp_tw" => Fits(F, n.args)

LEMMA NodesOfPlan ==
  ASSUME NEW F, IsPlan(F)
  PROVE  /\ Len(F.graph) \in Nat /\ DOMAIN F.graph = 1 .. Len(F.graph) /\ Listing(F.graph)
         /\ NodeIds(F) = Before(F.graph, Len(F.graph) + 1)
         /\ \A i \in DOMAIN F.graph : Before(F.graph, i) \subseteq NodeIds(F)
         /\ \A n \in ToSet(F.graph) :
              /\ n.id \in NodeIds(F) /\ Listing(n.names) /\ Listing(n.deps)
              /\ ToSet(n.deps) \subseteq NodeIds(F) /\ AreArguments(n.args, NodeIds(F))
<1>1. Len(F.graph) \in Nat /\ DOMAIN F.graph = 1 .. Len(F.graph) /\ Listing(F.graph)
  BY HeadOfList DEF IsPlan
<1>2. NodeIds(F) = Before(F.graph, Len(F.graph) + 1)
  <2>1. ToSet(F.graph) = {F.graph[j] : j \in 1 .. Len(F.graph)} /\ (Len(F.graph) + 1) - 1 = Len(F.graph)
    BY <1>1 DEF ToSet
  <2> QED
    BY <2>1 DEF NodeIds, Before
<1>3. ASSUME NEW i \in DOMAIN F.graph
      PROVE  Before(F.graph, i) \subseteq NodeIds(F)
  <2>1. 1 .. i - 1 \subseteq 1 .. (Len(F.graph) + 1) - 1
    BY <1>1
  <2> QED
    BY <1>2, <2>1 DEF Before
<1>4. ASSUME NEW n \in ToSet(F.graph)
      PROVE  /\ n.id \in NodeIds(F) /\ Listing(n.names) /\ Listing(n.deps)
             /\ ToSet(n.deps) \subseteq NodeIds(F) /\ AreArguments(n.args, NodeIds(F))
  <2>1. PICK i \in DOMAIN F.graph : n = F.graph[i]
    BY DEF ToSet
  <2>2. IsNode(n, Before(F.graph, i))
    BY <2>1 DEF IsPlan
  <2>3. \A refs : AreRefs(refs, Before(F.graph, i)) => AreRefs(refs, NodeIds(F))
    BY <1>3 DEF AreRefs, IsRef
  <2>4. AreArguments(n.args, NodeIds(F))
    BY <2>2, <2>3 DEF IsNode, AreArguments
  <2>5. n.id \in NodeIds(F)
    BY DEF NodeIds
  <2> QED
    BY <1>3, <2>2, <2>4, <2>5 DEF IsNode
<1> QED
  BY <1>1, <1>2, <1>3, <1>4

\* No two nodes of a plan have one id.
LEMMA NodeOfIs ==
  ASSUME NEW F, IsPlan(F), NEW n \in ToSet(F.graph)
  PROVE  NodeOf(F, n.id) = n
<1>1. ASSUME NEW m \in ToSet(F.graph), m.id = n.id PROVE m = n
  <2>1. PICK i \in DOMAIN F.graph, j \in DOMAIN F.graph : m = F.graph[i] /\ n = F.graph[j]
    BY DEF ToSet
  <2>2. i \in Nat /\ j \in Nat /\ DOMAIN F.graph = 1 .. Len(F.graph)
    BY NodesOfPlan
  <2>3. F.graph[i].id \notin Before(F.graph, i) /\ F.graph[j].id \notin Before(F.graph, j)
    BY DEF IsPlan, IsNode
  <2>4. CASE i < j
    <3>1. i \in 1 .. j - 1
      BY <2>2, <2>4
    <3> QED
      BY <1>1, <2>1, <2>3, <3>1 DEF Before
  <2>5. CASE j < i
    <3>1. j \in 1 .. i - 1
      BY <2>2, <2>5
    <3> QED
      BY <1>1, <2>1, <2>3, <3>1 DEF Before
  <2>6. i = j \/ i < j \/ j < i
    BY <2>2
  <2> QED
    BY <2>1, <2>4, <2>5, <2>6
<1> QED
  BY <1>1 DEF NodeOf

LEMMA NodeOfThere ==
  ASSUME NEW F, NEW id \in NodeIds(F)
  PROVE  NodeOf(F, id) \in ToSet(F.graph) /\ NodeOf(F, id).id = id
<1>1. \E n \in ToSet(F.graph) : n.id = id
  BY DEF NodeIds
<1> QED
  BY <1>1 DEF NodeOf

\* The same node, in a plan that has grown.
LEMMA NodeOfStays ==
  ASSUME NEW F, IsPlan(F), NEW G, IsPlan(G), ToSet(F.graph) \subseteq ToSet(G.graph),
         NEW id \in NodeIds(F)
  PROVE  NodeOf(G, id) = NodeOf(F, id) /\ id \in NodeIds(G)
<1>1. NodeOf(F, id) \in ToSet(G.graph) /\ NodeOf(F, id).id = id
  BY NodeOfThere
<1> QED
  BY <1>1, NodeOfIs DEF NodeIds

LEMMA EmittedPlan ==
  ASSUME NEW F, IsPlan(F), NEW n, IsNode(n, NodeIds(F))
  PROVE  LET G == Emitted(F, n) IN
         /\ IsPlan(G)
         /\ ToSet(G.graph) = ToSet(F.graph) \cup {n} /\ NodeIds(G) = NodeIds(F) \cup {n.id}
         /\ G.fused = F.fused /\ G.bound = F.bound /\ G.stops = F.stops /\ G.square = F.square
         /\ G.error = F.error
         /\ NodeOf(G, n.id) = n
<1> DEFINE G == Emitted(F, n)
           nodes == Append(F.graph, n)
<1>1. /\ G = [graph |-> nodes, fused |-> F.fused, bound |-> F.bound, stops |-> F.stops,
              square |-> F.square, error |-> F.error]
  BY DEF Emitted, IsPlan
<1>2. /\ Listing(nodes) /\ ToSet(nodes) = ToSet(F.graph) \cup {n}
      /\ nodes[Len(F.graph) + 1] = n
      /\ \A i \in DOMAIN F.graph : nodes[i] = F.graph[i]
      /\ DOMAIN nodes = DOMAIN F.graph \cup {Len(F.graph) + 1}
  BY ListWithOneMore DEF IsPlan
<1> HIDE DEF nodes
<1>3. Len(F.graph) \in Nat /\ DOMAIN F.graph = 1 .. Len(F.graph)
      /\ NodeIds(F) = Before(F.graph, Len(F.graph) + 1)
  BY NodesOfPlan
<1>4. ASSUME NEW i \in 1 .. Len(F.graph) + 1
      PROVE  Before(nodes, i) = Before(F.graph, i)
  <2>1. \A j \in 1 .. i - 1 : j \in DOMAIN F.graph
    BY <1>3
  <2> QED
    BY <1>2, <2>1 DEF Before
<1>5. ASSUME NEW i \in DOMAIN nodes PROVE IsNode(nodes[i], Before(nodes, i))
  <2>1. CASE i \in DOMAIN F.graph
    BY <2>1, <1>2, <1>3, <1>4 DEF IsPlan
  <2>2. CASE i = Len(F.graph) + 1
    BY <2>2, <1>2, <1>3, <1>4
  <2> QED
    BY <2>1, <2>2, <1>2
<1>6. IsPlan(G)
  BY <1>1, <1>2, <1>5 DEF IsPlan
<1>7. ToSet(G.graph) = ToSet(F.graph) \cup {n}
  BY <1>1, <1>2
<1>8. NodeIds(G) = NodeIds(F) \cup {n.id}
  BY <1>7 DEF NodeIds
<1>9. NodeOf(G, n.id) = n
  BY <1>6, <1>7, NodeOfIs
<1> QED
  BY <1>1, <1>6, <1>7, <1>8, <1>9

\* What a plan under construction keeps as a node is emitted that is no matrix, or a matrix over
\* one place or over stops that become known, and no tour, or one that fits.
LEMMA MatricesStay ==
  ASSUME NEW F, IsPlan(F), MatricesKnown(F), NEW n, IsNode(n, NodeIds(F)),
         n.op = "distance_matrix" => ~(Len(n.deps) >= 2)
  PROVE  MatricesKnown(Emitted(F, n))
<1> DEFINE G == Emitted(F, n)
<1>1. IsPlan(G) /\ ToSet(G.graph) = ToSet(F.graph) \cup {n} /\ G.stops = F.stops
  BY EmittedPlan
<1> HIDE DEF G
<1>2. ASSUME NEW id \in DOMAIN F.stops
      PROVE  NodeOf(G, id) = NodeOf(F, id) /\ id \in NodeIds(G)
  BY <1>1, NodeOfStays DEF MatricesKnown
<1>3. MatricesKnown(G)
  BY <1>1, <1>2 DEF MatricesKnown
<1> QED
  BY <1>3 DEF G

LEMMA WithStopsKnown ==
  ASSUME NEW F, IsPlan(F), MatricesKnown(F), NEW n, IsNode(n, NodeIds(F)),
         n.op = "distance_matrix", "origins" \in DOMAIN n.args, n.args.origins # <<>>
  PROVE  LET G == WithStops(Emitted(F, n), n.id, n.args.origins) IN
         /\ IsPlan(G) /\ MatricesKnown(G)
         /\ G.graph = Emitted(F, n).graph /\ G.fused = F.fused /\ G.error = F.error
<1> DEFINE E == Emitted(F, n)
           stops == n.args.origins
           G == WithStops(E, n.id, stops)
<1>1. /\ IsPlan(E) /\ ToSet(E.graph) = ToSet(F.graph) \cup {n} /\ E.stops = F.stops
      /\ E.fused = F.fused /\ E.error = F.error /\ NodeOf(E, n.id) = n /\ NodeIds(E) = NodeIds(F) \cup {n.id}
  BY EmittedPlan
<1> HIDE DEF E
<1>2. /\ G = [graph |-> E.graph, fused |-> E.fused, bound |-> E.bound,
              stops |-> Extended(E.stops, n.id, stops), square |-> E.square \cup {n.id},
              error |-> E.error]
  <2> DEFINE D == Squared(E, n.id)
             known == Extended(E.stops, n.id, stops)
  <2>1. /\ D = [graph |-> E.graph, fused |-> E.fused, bound |-> E.bound, stops |-> E.stops,
                square |-> E.square \cup {n.id}, error |-> E.error]
    <3>1. E = [graph |-> E.graph, fused |-> E.fused, bound |-> E.bound, stops |-> E.stops,
               square |-> E.square, error |-> E.error]
      BY <1>1 DEF IsPlan
    <3> DEFINE square == E.square \cup {n.id}
    <3>2. D = [E EXCEPT !.square = square]
      BY DEF Squared
    <3> HIDE DEF square, D
    <3>3. D = [graph |-> E.graph, fused |-> E.fused, bound |-> E.bound, stops |-> E.stops,
               square |-> square, error |-> E.error]
      BY <3>1, <3>2
    <3> QED
      BY <3>3 DEF square
  <2>2. G = [D EXCEPT !.stops = known]
    BY <2>1 DEF WithStops
  <2> HIDE DEF D, G, known
  <2>3. G = [graph |-> E.graph, fused |-> E.fused, bound |-> E.bound, stops |-> known,
             square |-> E.square \cup {n.id}, error |-> E.error]
    BY <2>1, <2>2
  <2> QED
    BY <2>3 DEF known
<1> HIDE DEF G
<1>3. IsPlan(G)
  BY <1>1, <1>2 DEF IsPlan
<1>4. \A id \in NodeIds(E) : NodeOf(G, id) = NodeOf(E, id)
  BY <1>2 DEF NodeOf
<1>5. NodeIds(G) = NodeIds(E)
  BY <1>2 DEF NodeIds
<1>6. ASSUME NEW id \in DOMAIN G.stops
      PROVE  /\ id \in NodeIds(G) /\ G.stops[id] # <<>>
             /\ NodeOf(G, id).op = "distance_matrix" /\ "origins" \in DOMAIN NodeOf(G, id).args
             /\ NodeOf(G, id).args.origins = G.stops[id]
  <2>1. /\ DOMAIN G.stops = DOMAIN F.stops \cup {n.id}
        /\ G.stops[id] = IF id = n.id THEN stops ELSE F.stops[id]
    BY <1>1, <1>2 DEF Extended
  <2>2. CASE id = n.id
    BY <2>1, <2>2, <1>1, <1>4, <1>5
  <2>3. CASE id # n.id
    <3>1. id \in DOMAIN F.stops /\ id \in NodeIds(F) /\ G.stops[id] = F.stops[id]
      BY <2>1, <2>3 DEF MatricesKnown
    <3>2. NodeOf(G, id) = NodeOf(F, id) /\ id \in NodeIds(G)
      BY <3>1, <1>1, <1>4, <1>5, NodeOfStays
    <3> QED
      BY <3>1, <3>2 DEF MatricesKnown
  <2> QED
    BY <2>2, <2>3
<1>7. ASSUME NEW m \in ToSet(G.graph), m.op = "distance_matrix", Len(m.deps) >= 2
      PROVE  m.id \in DOMAIN G.stops
  BY <1>1, <1>2, <1>7 DEF MatricesKnown, Extended
<1>8. MatricesKnown(G)
  BY <1>6, <1>7 DEF MatricesKnown
<1> QED
  BY <1>1, <1>2, <1>3, <1>8 DEF G, E

LEMMA ToursStay ==
  ASSUME NEW F, IsPlan(F), ToursFit(F), NEW G, IsPlan(G), NEW n,
         ToSet(G.graph) = ToSet(F.graph) \cup {n}, n.op = "tsp_tw" => Fits(G, n.args)
  PROVE  ToursFit(G)
<1>1. ASSUME NEW m \in ToSet(F.graph), m.op = "tsp_tw"
      PROVE  Fits(G, m.args)
  <2>1. Fits(F, m.args)
    BY <1>1 DEF ToursFit
  <2>2. \A id \in NodeIds(F) : NodeOf(G, id) = NodeOf(F, id) /\ id \in NodeIds(G)
    BY NodeOfStays
  <2> QED
    BY <2>1, <2>2 DEF Fits
<1> QED
  BY <1>1 DEF ToursFit

-----------------------------------------------------------------------------
\* What a name the graph wrote is a reference to, and what a step is wired to.

LEMMA RefTo ==
  ASSUME NEW F, NEW ids, NEW id \in ids, NEW k \in Nat
  PROVE  IsRef(PlaceOf(F, id, k), ids) /\ IsRef(<<id>>, ids) /\ IsRef(<<id, "place", k>>, ids)
         /\ IsRef(<<id, "ranked">>, ids)
BY DEF PlaceOf, IsRef

\* All that several lists hold.
LEMMA AllOfEach ==
  ASSUME NEW s, Listing(s), NEW a, a = [i \in 1 .. Len(s) |-> a[i]],
         \A i \in 1 .. Len(s) : Listing(a[i])
  PROVE  /\ Listing(FlattenSeq(a))
         /\ \A x \in ToSet(FlattenSeq(a)) : \E i \in DOMAIN s : x \in ToSet(a[i])
         /\ \A i \in DOMAIN s : ToSet(a[i]) \subseteq ToSet(FlattenSeq(a))
<1>1. Len(s) \in Nat /\ DOMAIN s = 1 .. Len(s)
  BY HeadOfList
<1>2. Listing(FlattenSeq(a)) /\ ToSet(FlattenSeq(a)) = UNION {ToSet(a[i]) : i \in 1 .. Len(s)}
  BY <1>1, FlattenList
<1> QED
  BY <1>1, <1>2

\* The items kept of a list.
LEMMA KeptOf ==
  ASSUME NEW s, Listing(s), NEW positions
  PROVE  /\ Listing(ItemsAt(s, positions))
         /\ ToSet(ItemsAt(s, positions)) \subseteq ToSet(s)
         /\ \A x \in ToSet(ItemsAt(s, positions)) : \E k \in DOMAIN s \cap positions : x = s[k]
BY ItemsAtList DEF ToSet

LEMMA PlaceReferenceIs ==
  ASSUME NEW F, IsPlan(F), NEW sources, Listing(sources), ToSet(sources) \subseteq NodeIds(F), NEW name
  PROVE  /\ Listing(PlaceReference(F, sources, name))
         /\ \A p \in ToSet(PlaceReference(F, sources, name)) :
              p.node \in NodeIds(F) /\ IsRef(p.ref, NodeIds(F))
<1> DEFINE node == Followed(F, name)
           among == Kept(sources, LAMBDA id : name \in ToSet(BoundOf(F, id)))
           index == (CHOOSE k \in DOMAIN BoundOf(F, among[1]) : BoundOf(F, among[1])[k] = name) - 1
           here == [ref |-> PlaceOf(F, node, 0), node |-> node, at |-> {}]
           there == [ref |-> <<among[1], "place", index>>, node |-> among[1], at |-> {index}]
           found == PlaceReference(F, sources, name)
<1>1. 0 \in Nat
  OBVIOUS
<1>2. CASE node \in NodeIds(F)
  <2>1. found = <<here>>
    BY <1>2 DEF PlaceReference
  <2>2. IsRef(PlaceOf(F, node, 0), NodeIds(F))
    BY <1>1, <1>2, RefTo
  <2>3. here.node \in NodeIds(F) /\ IsRef(here.ref, NodeIds(F))
    BY <1>2, <2>2
  <2> HIDE DEF here, found
  <2>4. Listing(found) /\ ToSet(found) = {here}
    BY <2>1, ListOfOne
  <2> QED
    BY <2>3, <2>4 DEF found
<1>3. CASE node \notin NodeIds(F) /\ among # <<>>
  <2>1. found = <<there>>
    BY <1>3 DEF PlaceReference
  <2>2. /\ Listing(among) /\ \A x \in ToSet(among) : \E k \in DOMAIN sources :
             x = sources[k] /\ name \in ToSet(BoundOf(F, sources[k]))
    BY KeptOf DEF Kept
  <2> HIDE DEF among
  <2>3. among[1] \in ToSet(among)
    BY <1>3, <2>2, HeadOfList
  <2>4. among[1] \in NodeIds(F) /\ name \in ToSet(BoundOf(F, among[1]))
    <3>1. PICK k \in DOMAIN sources : among[1] = sources[k] /\ name \in ToSet(BoundOf(F, sources[k]))
      BY <2>2, <2>3
    <3>2. sources[k] \in ToSet(sources)
      BY DEF ToSet
    <3> QED
      BY <3>1, <3>2
  <2>5. index \in Nat
    <3>1. Listing(BoundOf(F, among[1]))
      BY EmptyList DEF BoundOf, IsPlan
    <3> DEFINE b == BoundOf(F, among[1])
               k == CHOOSE i \in DOMAIN b : b[i] = name
    <3>2. k \in DOMAIN b
      <4> HIDE DEF b
      <4>1. name \in ToSet(b)
        BY <2>4 DEF b
      <4> QED
        BY <4>1 DEF ToSet
    <3> HIDE DEF k
    <3>3. k \in 1 .. Len(b) /\ Len(b) \in Nat
      BY <3>1, <3>2, HeadOfList
    <3>4. k - 1 \in Nat
      BY <3>3
    <3> QED
      BY <3>4 DEF k
  <2> HIDE DEF index
  <2>6. there.node \in NodeIds(F) /\ IsRef(there.ref, NodeIds(F))
    BY <2>4, <2>5, RefTo
  <2> HIDE DEF there, found
  <2>7. Listing(found) /\ ToSet(found) = {there}
    BY <2>1, ListOfOne
  <2> QED
    BY <2>6, <2>7 DEF found
<1>4. CASE node \notin NodeIds(F) /\ among = <<>>
  <2>1. found = <<>>
    BY <1>4 DEF PlaceReference
  <2> QED
    BY <2>1, EmptyList
<1> QED
  BY <1>2, <1>3, <1>4

LEMMA PlaceReferencesAre ==
  ASSUME NEW F, IsPlan(F), NEW sources, Listing(sources), ToSet(sources) \subseteq NodeIds(F),
         NEW names, Listing(names)
  PROVE  LET found == PlaceReferences(F, sources, names) IN
         /\ Listing(found)
         /\ \A p \in ToSet(found) : p.node \in NodeIds(F) /\ IsRef(p.ref, NodeIds(F))
<1> DEFINE a == Mapped(LAMBDA name : PlaceReference(F, sources, name), names)
<1>1. a = [i \in 1 .. Len(names) |-> a[i]]
      /\ \A i \in 1 .. Len(names) : a[i] = PlaceReference(F, sources, names[i])
  BY DEF Mapped
<1>2. PlaceReferences(F, sources, names) = FlattenSeq(a)
  BY DEF PlaceReferences
<1> HIDE DEF a
<1>3. \A i \in 1 .. Len(names) : Listing(a[i]) /\ \A p \in ToSet(a[i]) :
        p.node \in NodeIds(F) /\ IsRef(p.ref, NodeIds(F))
  BY <1>1, PlaceReferenceIs
<1>4. /\ Listing(FlattenSeq(a))
      /\ \A x \in ToSet(FlattenSeq(a)) : \E i \in DOMAIN names : x \in ToSet(a[i])
  BY <1>1, <1>3, AllOfEach
<1>5. DOMAIN names = 1 .. Len(names)
  BY HeadOfList
<1> QED
  BY <1>2, <1>3, <1>4, <1>5

\* The references and the nodes of what was found.
LEMMA FoundIn ==
  ASSUME NEW found, Listing(found), NEW ids,
         \A p \in ToSet(found) : p.node \in ids /\ IsRef(p.ref, ids)
  PROVE  /\ AreRefs(Refs(found), ids) /\ Len(Refs(found)) = Len(found)
         /\ Listing(Mapped(LAMBDA p : p.node, found)) /\ ToSet(Mapped(LAMBDA p : p.node, found)) \subseteq ids
<1> DEFINE refs == Refs(found)
           nodes == Mapped(LAMBDA p : p.node, found)
<1>1. /\ refs = [i \in 1 .. Len(found) |-> refs[i]] /\ \A i \in 1 .. Len(found) : refs[i] = found[i].ref
      /\ nodes = [i \in 1 .. Len(found) |-> nodes[i]] /\ \A i \in 1 .. Len(found) : nodes[i] = found[i].node
      /\ DOMAIN found = 1 .. Len(found)
  BY HeadOfList DEF Refs, Mapped
<1>2. \A i \in 1 .. Len(found) : found[i] \in ToSet(found)
  BY <1>1 DEF ToSet
<1> HIDE DEF refs, nodes
<1>3. Listing(refs) /\ Len(refs) = Len(found) /\ ToSet(refs) = {refs[i] : i \in DOMAIN found}
  <2>1. refs = [i \in 1 .. Len(found) |-> refs[i]]
    BY <1>1
  <2> QED
    BY <2>1, EachOfList
<1>5. Listing(nodes) /\ ToSet(nodes) = {nodes[i] : i \in DOMAIN found}
  <2>1. nodes = [i \in 1 .. Len(found) |-> nodes[i]]
    BY <1>1
  <2> QED
    BY <2>1, EachOfList
<1>4. AreRefs(refs, ids) /\ ToSet(nodes) \subseteq ids
  <2>1. ASSUME NEW ref \in ToSet(refs) PROVE IsRef(ref, ids)
    <3>1. PICK i \in DOMAIN found : ref = refs[i]
      BY <1>3
    <3> QED
      BY <1>1, <1>2, <3>1
  <2>2. ASSUME NEW id \in ToSet(nodes) PROVE id \in ids
    <3>1. PICK i \in DOMAIN found : id = nodes[i]
      BY <1>5
    <3> QED
      BY <1>1, <1>2, <3>1
  <2> QED
    BY <1>3, <2>1, <2>2 DEF AreRefs
<1> QED
  BY <1>3, <1>4, <1>5 DEF refs, nodes

IsWiring(w, ids) ==
  /\ w = [ins |-> w.ins, via |-> w.via, stopNodes |-> w.stopNodes, ends |-> w.ends, taken |-> w.taken]
  /\ Listing(w.ins) /\ ToSet(w.ins) \subseteq ids
  /\ AreRefs(w.via, ids) /\ AreRefs(w.ends, ids)

LEMMA NoRefs ==
  ASSUME NEW ids
  PROVE  AreRefs(<<>>, ids)
BY EmptyList DEF AreRefs

LEMMA ViaIs ==
  ASSUME NEW F, IsPlan(F), NEW read, Listing(read), ToSet(read) \subseteq NodeIds(F),
         NEW names, Listing(names)
  PROVE  LET via == Via(F, read, names) IN
         AreRefs(via.refs, NodeIds(F)) /\ Listing(via.nodes) /\ ToSet(via.nodes) \subseteq NodeIds(F)
<1> DEFINE found == PlaceReferences(F, read, names)
           Shares(p) == Len(BoundOf(F, p.node)) > 1
           Lone(p) == p.at = {} \/ ~Shares(p)
           lone == Kept(found, Lone)
           nodes == Mapped(LAMBDA p : p.node, lone)
<1>1. Listing(found) /\ \A p \in ToSet(found) : p.node \in NodeIds(F) /\ IsRef(p.ref, NodeIds(F))
  BY PlaceReferencesAre
<1>2. Via(F, read, names).refs = Refs(found) /\ Via(F, read, names).nodes = Distinct(nodes)
  BY DEF Via
<1> HIDE DEF found
<1>3. Listing(lone) /\ ToSet(lone) \subseteq ToSet(found)
  BY <1>1, KeptOf DEF Kept
<1> HIDE DEF lone
<1>4. Listing(nodes) /\ ToSet(nodes) \subseteq NodeIds(F)
  BY <1>1, <1>3, FoundIn
<1> HIDE DEF nodes
<1>5. Listing(Distinct(nodes)) /\ ToSet(Distinct(nodes)) = ToSet(nodes)
  BY <1>4, DistinctList
<1>6. AreRefs(Refs(found), NodeIds(F))
  BY <1>1, FoundIn
<1> QED
  BY <1>2, <1>4, <1>5, <1>6

LEMMA EndpointsAre ==
  ASSUME NEW F, IsPlan(F), NEW step, Listing(step.ins), Listing(step.concepts),
         NEW ins, Listing(ins), ToSet(ins) \subseteq NodeIds(F)
  PROVE  LET ends == Endpoints(F, step, ins) IN
         Listing(ends) /\ \A p \in ToSet(ends) : p.node \in NodeIds(F) /\ IsRef(p.ref, NodeIds(F))
<1> DEFINE ids == Mapped(LAMBDA n : n.id, F.graph)
           located == Selected(DOMAIN F.bound, ids)
           sources == Distinct(ins \o located)
           unmade == Kept(step.ins, LAMBDA name : name \notin NodeIds(F))
           read == PlaceReferences(F, sources, unmade)
           told == PlaceReferences(F, sources, step.concepts)
<1>1. Listing(ids) /\ ToSet(ids) \subseteq NodeIds(F)
  <2>1. ids = [i \in 1 .. Len(F.graph) |-> ids[i]] /\ \A i \in 1 .. Len(F.graph) : ids[i] = F.graph[i].id
    BY DEF Mapped
  <2> HIDE DEF ids
  <2>2. Listing(F.graph) /\ DOMAIN F.graph = 1 .. Len(F.graph)
    BY NodesOfPlan
  <2>4. Listing(ids) /\ ToSet(ids) = {ids[i] : i \in DOMAIN F.graph}
    <3>1. ids = [i \in 1 .. Len(F.graph) |-> ids[i]]
      BY <2>1
    <3> QED
      BY <2>2, <3>1, EachOfList
  <2>3. \A i \in DOMAIN F.graph : F.graph[i].id \in NodeIds(F)
    BY DEF NodeIds, ToSet
  <2> QED
    BY <2>1, <2>2, <2>3, <2>4
<1> HIDE DEF ids
<1>2. Listing(located) /\ ToSet(located) \subseteq NodeIds(F)
  BY <1>1, KeptOf DEF Selected, Kept
<1> HIDE DEF located
<1>3. Listing(sources) /\ ToSet(sources) \subseteq NodeIds(F)
  BY <1>2, ListsTogether, DistinctList
<1>4. Listing(unmade)
  BY KeptOf DEF Kept
<1> HIDE DEF sources, unmade
<1>5. /\ Listing(read) /\ \A p \in ToSet(read) : p.node \in NodeIds(F) /\ IsRef(p.ref, NodeIds(F))
      /\ Listing(told) /\ \A p \in ToSet(told) : p.node \in NodeIds(F) /\ IsRef(p.ref, NodeIds(F))
  BY <1>3, <1>4, PlaceReferencesAre
<1>6. Endpoints(F, step, ins) \in {<<>>, read, told}
  <2>1. Endpoints(F, step, ins) =
          IF step.t \notin {"DISTANCE_MEASURE", "ROUTE_MEASURE"} \/ Len(sources) >= 2 THEN <<>>
          ELSE IF Len(read) = 2 THEN read ELSE IF Len(told) = 2 THEN told ELSE <<>>
    BY DEF Endpoints, sources, located, ids, unmade
  <2> HIDE DEF read, told
  <2> QED
    BY <2>1
<1> HIDE DEF read, told
<1> QED
  BY <1>5, <1>6, EmptyList

IsStep(step) == Listing(step.ins) /\ Listing(step.via) /\ Listing(step.concepts)

\* A step reads, by their names, the transformations that make what it reads.
LEMMA LoweredIs ==
  ASSUME NEW g, AreEdges(g.edges), NEW e, IsEdge(e)
  PROVE  /\ IsStep(Lowered(g, e)) /\ Lowered(g, e).id = e.id
         /\ \A p \in ToSet(g.edges) :
              p.id # e.id /\ ToSet(p.outs) \cap ToSet(e.ins) # {} => p.id \in ToSet(Lowered(g, e).ins)
<1> DEFINE Makers(id) == Kept(g.edges, LAMBDA p : p.id # e.id /\ id \in ToSet(p.outs))
           Maker(id) == Mapped(LAMBDA p : p.id, Makers(id))
           each == Mapped(Maker, e.ins)
           makers == Distinct(FlattenSeq(each))
           step == Lowered(g, e)
<1>1. step.ins = makers \o e.ins /\ step.id = e.id /\ step.via = e.via
      /\ step.concepts = Kept(e.outs, LAMBDA id : ~g.node[id].implicit)
  BY DEF Lowered
<1>2. Listing(g.edges) /\ Listing(e.ins) /\ Listing(e.outs) /\ Listing(e.via)
  BY EdgesThatAre DEF IsEdge
<1>3. ASSUME NEW id
      PROVE  /\ Listing(Maker(id))
             /\ \A p \in ToSet(g.edges) : p.id # e.id /\ id \in ToSet(p.outs) => p.id \in ToSet(Maker(id))
  <2> DEFINE kept == Makers(id)
             positions == {k \in DOMAIN g.edges : g.edges[k].id # e.id /\ id \in ToSet(g.edges[k].outs)}
             ids == Mapped(LAMBDA p : p.id, kept)
  <2>1. Listing(kept) /\ ToSet(kept) = {g.edges[k] : k \in DOMAIN g.edges \cap positions}
    BY <1>2, ItemsAtList DEF Kept
  <2>2. Maker(id) = ids
    OBVIOUS
  <2> HIDE DEF kept
  <2>3. ids = [i \in 1 .. Len(kept) |-> ids[i]] /\ \A i \in 1 .. Len(kept) : ids[i] = kept[i].id
    BY DEF Mapped
  <2> HIDE DEF ids
  <2>6. Listing(kept) /\ ids = [i \in 1 .. Len(kept) |-> ids[i]]
    BY <2>1, <2>3
  <2>4. Listing(ids) /\ ToSet(ids) = {ids[i] : i \in DOMAIN kept} /\ DOMAIN kept = 1 .. Len(kept)
    BY <2>6, EachOfList, HeadOfList
  <2>5. ASSUME NEW p \in ToSet(g.edges), p.id # e.id, id \in ToSet(p.outs)
        PROVE  p.id \in ToSet(ids)
    <3>1. PICK k \in DOMAIN g.edges : p = g.edges[k]
      BY DEF ToSet
    <3>2. p \in ToSet(kept)
      BY <2>1, <2>5, <3>1
    <3>3. PICK i \in DOMAIN kept : p = kept[i]
      BY <3>2 DEF ToSet
    <3> QED
      BY <2>3, <2>4, <3>3
  <2> QED
    BY <2>2, <2>4, <2>5
<1>4. each = [i \in 1 .. Len(e.ins) |-> each[i]]
      /\ \A i \in 1 .. Len(e.ins) : each[i] = Maker(e.ins[i])
  BY DEF Mapped
<1> HIDE DEF Maker, each
<1>5. /\ Listing(FlattenSeq(each))
      /\ \A i \in DOMAIN e.ins : ToSet(each[i]) \subseteq ToSet(FlattenSeq(each))
  <2>1. \A i \in 1 .. Len(e.ins) : Listing(each[i])
    BY <1>3, <1>4
  <2> QED
    BY <1>2, <1>4, <2>1, AllOfEach
<1>6. Listing(makers) /\ ToSet(makers) = ToSet(FlattenSeq(each))
  BY <1>5, DistinctList
<1> HIDE DEF makers
<1>7. Listing(step.ins) /\ ToSet(step.ins) = ToSet(makers) \cup ToSet(e.ins)
  BY <1>1, <1>2, <1>6, ListsTogether
<1>8. Listing(step.concepts)
  BY <1>1, <1>2, KeptOf DEF Kept
<1>9. ASSUME NEW p \in ToSet(g.edges), p.id # e.id, ToSet(p.outs) \cap ToSet(e.ins) # {}
      PROVE  p.id \in ToSet(step.ins)
  <2>1. PICK i \in DOMAIN e.ins : e.ins[i] \in ToSet(p.outs)
    BY <1>9 DEF ToSet
  <2>2. p.id \in ToSet(Maker(e.ins[i])) /\ i \in 1 .. Len(e.ins)
    BY <1>2, <1>3, <1>9, <2>1, HeadOfList
  <2> QED
    BY <1>4, <1>5, <1>6, <1>7, <2>1, <2>2
<1> QED
  BY <1>1, <1>2, <1>7, <1>8, <1>9 DEF IsStep

LEMMA WiringIs ==
  ASSUME NEW F, IsPlan(F), NEW step, IsStep(step)
  PROVE  /\ IsWiring(WiringOf(F, step), NodeIds(F))
         /\ \A name \in ToSet(step.ins) :
              Followed(F, name) \in NodeIds(F) => Followed(F, name) \in ToSet(WiringOf(F, step).ins)
<1> DEFINE followed == Mapped(LAMBDA name : Followed(F, name), step.ins)
           kept == Selected(NodeIds(F), followed)
           read == Distinct(kept)
           via == Via(F, read, step.via)
           fed == Distinct(read \o via.nodes)
           ends == Endpoints(F, step, fed)
           nodes == Mapped(LAMBDA p : p.node, ends)
           ins == Distinct(fed \o nodes)
           w == WiringOf(F, step)
<1>1. w = [ins |-> ins, via |-> via.refs, stopNodes |-> ToSet(via.nodes), ends |-> Refs(ends),
           taken |-> via.taken]
  BY DEF WiringOf
<1>2. /\ Listing(followed) /\ ToSet(followed) = {followed[i] : i \in DOMAIN step.ins}
      /\ \A i \in DOMAIN step.ins : followed[i] = Followed(F, step.ins[i])
  <2>1. /\ followed = [i \in 1 .. Len(step.ins) |-> followed[i]]
        /\ \A i \in 1 .. Len(step.ins) : followed[i] = Followed(F, step.ins[i])
    BY DEF Mapped
  <2>2. Listing(step.ins) /\ DOMAIN step.ins = 1 .. Len(step.ins)
    BY HeadOfList DEF IsStep
  <2> HIDE DEF followed
  <2> QED
    BY <2>1, <2>2, EachOfList
<1> HIDE DEF followed
<1>3. Listing(kept) /\ ToSet(kept) = ToSet(followed) \cap NodeIds(F)
  <2> DEFINE positions == {k \in DOMAIN followed : followed[k] \in NodeIds(F)}
  <2>1. Listing(kept) /\ ToSet(kept) = {followed[k] : k \in DOMAIN followed \cap positions}
    BY <1>2, ItemsAtList DEF Selected, Kept
  <2> HIDE DEF kept
  <2> QED
    BY <2>1 DEF ToSet
<1> HIDE DEF kept
<1>4. Listing(read) /\ ToSet(read) = ToSet(followed) \cap NodeIds(F)
  BY <1>3, DistinctList
<1> HIDE DEF read
<1>5. AreRefs(via.refs, NodeIds(F)) /\ Listing(via.nodes) /\ ToSet(via.nodes) \subseteq NodeIds(F)
  <2>1. Listing(step.via) /\ ToSet(read) \subseteq NodeIds(F)
    BY <1>4 DEF IsStep
  <2> QED
    BY <1>4, <2>1, ViaIs
<1> HIDE DEF via
<1>6. Listing(fed) /\ ToSet(fed) = ToSet(read) \cup ToSet(via.nodes) /\ ToSet(fed) \subseteq NodeIds(F)
  BY <1>4, <1>5, ListsTogether, DistinctList
<1> HIDE DEF fed
<1>7. Listing(ends) /\ \A p \in ToSet(ends) : p.node \in NodeIds(F) /\ IsRef(p.ref, NodeIds(F))
  BY <1>6, EndpointsAre DEF IsStep
<1> HIDE DEF ends
<1>8. AreRefs(Refs(ends), NodeIds(F)) /\ Listing(nodes) /\ ToSet(nodes) \subseteq NodeIds(F)
  BY <1>7, FoundIn
<1> HIDE DEF nodes
<1>9. Listing(ins) /\ ToSet(ins) = ToSet(fed) \cup ToSet(nodes)
  BY <1>6, <1>8, ListsTogether, DistinctList
<1> HIDE DEF ins
<1>10. ASSUME NEW name \in ToSet(step.ins), Followed(F, name) \in NodeIds(F)
       PROVE  Followed(F, name) \in ToSet(ins)
  <2>1. PICK i \in DOMAIN step.ins : name = step.ins[i]
    BY DEF ToSet
  <2> QED
    BY <1>2, <1>4, <1>6, <1>9, <1>10, <2>1
<1> HIDE DEF w
<1>11. IsWiring(w, NodeIds(F)) /\ w.ins = ins
  BY <1>1, <1>5, <1>6, <1>8, <1>9 DEF IsWiring
<1> QED
  BY <1>10, <1>11 DEF w

-----------------------------------------------------------------------------
\* What a node depends on, in a plan that grows.

LEMMA NeedsItself ==
  ASSUME NEW F, NEW id
  PROVE  Needs(F, id, id)
BY DEF Needs

LEMMA NeedsDep ==
  ASSUME NEW F, NEW n \in ToSet(F.graph), NEW d \in ToSet(n.deps)
  PROVE  Needs(F, n.id, d)
BY DEF Needs, Closed

LEMMA NeedsThrough ==
  ASSUME NEW F, NEW a, NEW b, NEW c, Needs(F, a, b), Needs(F, b, c)
  PROVE  Needs(F, a, c)
BY DEF Needs

LEMMA NeedsGrow ==
  ASSUME NEW F, IsPlan(F), NEW G, ToSet(F.graph) \subseteq ToSet(G.graph),
         NEW a \in NodeIds(F), NEW b, Needs(F, a, b)
  PROVE  Needs(G, a, b)
<1>1. ASSUME NEW S \in SUBSET NodeIds(G), a \in S, Closed(G, S) PROVE b \in S
  <2> DEFINE U == S \cap NodeIds(F)
  <2>1. Closed(F, U)
    <3>1. \A n \in ToSet(F.graph) : ToSet(n.deps) \subseteq NodeIds(F)
      BY NodesOfPlan
    <3> QED
      BY <1>1, <3>1 DEF Closed
  <2>2. U \in SUBSET NodeIds(F) /\ a \in U
    BY <1>1
  <2>3. b \in U
    BY <2>1, <2>2 DEF Needs
  <2> QED
    BY <2>3
<1> QED
  BY <1>1 DEF Needs

\* Something is reached from a list of nodes when one of them needs it.
Reached(F, ins, x) == \E y \in ToSet(ins) : Needs(F, y, x)

Sound(F) == IsPlan(F) /\ MatricesKnown(F) /\ ToursFit(F)
Grown(F, G) == ToSet(F.graph) \subseteq ToSet(G.graph)

LEMMA GrownIds ==
  ASSUME NEW F, NEW G, Grown(F, G)
  PROVE  NodeIds(F) \subseteq NodeIds(G)
BY DEF Grown, NodeIds

LEMMA WiringGrown ==
  ASSUME NEW w, NEW ids, NEW more, IsWiring(w, ids), ids \subseteq more
  PROVE  IsWiring(w, more)
<1>1. \A ref : IsRef(ref, ids) => IsRef(ref, more)
  BY DEF IsRef
<1> QED
  BY <1>1 DEF IsWiring, AreRefs

\* What composing does: the plan stays sound and grows by nodes named after the transformation,
\* and what fed it still does.
Composes(F, w, new, i) ==
  /\ Sound(i.F) /\ Grown(F, i.F) /\ IsWiring(i.w, NodeIds(i.F))
  /\ i.F.fused = F.fused /\ i.F.error = F.error
  /\ \A n \in ToSet(i.F.graph) \ ToSet(F.graph) : n.id \in new /\ n.op # "nearby_places"
  /\ \A x \in ToSet(w.ins) : Reached(i.F, i.w.ins, x)

LEMMA ComposesNothing ==
  ASSUME NEW F, Sound(F), NEW w, IsWiring(w, NodeIds(F)), NEW i, i = [F |-> F, w |-> w], NEW new
  PROVE  Composes(F, w, new, i)
BY NeedsItself DEF Composes, Grown, Reached

LEMMA ComposesBoth ==
  ASSUME NEW F, IsPlan(F), NEW w, NEW new, NEW i, Composes(F, w, new, i),
         NEW more, NEW k, Composes(i.F, i.w, more, k)
  PROVE  Composes(F, w, new \cup more, k)
<1>1. ASSUME NEW x \in ToSet(w.ins) PROVE Reached(k.F, k.w.ins, x)
  <2>1. PICK y \in ToSet(i.w.ins) : Needs(i.F, y, x)
    BY DEF Composes, Reached
  <2>2. PICK z \in ToSet(k.w.ins) : Needs(k.F, z, y)
    BY DEF Composes, Reached
  <2>3. IsPlan(i.F) /\ ToSet(i.F.graph) \subseteq ToSet(k.F.graph) /\ y \in NodeIds(i.F)
    BY DEF Composes, Sound, Grown, IsWiring
  <2>4. Needs(k.F, y, x)
    BY <2>1, <2>3, NeedsGrow
  <2>5. Needs(k.F, z, x)
    BY <2>2, <2>4, NeedsThrough
  <2> QED
    BY <2>5 DEF Reached
<1> QED
  BY <1>1 DEF Composes, Grown

LEMMA Emptied ==
  ASSUME NEW ids, NEW w, IsWiring(w, ids), NEW id \in ids
  PROVE  /\ IsWiring([w EXCEPT !.ins = <<id>>], ids)
         /\ IsWiring([w EXCEPT !.ins = <<id>>, !.via = <<>>, !.taken = {}], ids)
<1> DEFINE ins == <<id>>
           v == [w EXCEPT !.ins = ins]
           u == [w EXCEPT !.ins = ins, !.via = <<>>, !.taken = {}]
<1>1. Listing(ins) /\ ToSet(ins) = {id}
  BY ListOfOne
<1> HIDE DEF ins
<1>2. v = [ins |-> ins, via |-> w.via, stopNodes |-> w.stopNodes, ends |-> w.ends, taken |-> w.taken]
      /\ u = [ins |-> ins, via |-> <<>>, stopNodes |-> w.stopNodes, ends |-> w.ends, taken |-> {}]
  <2> DEFINE none == <<>>
             nil == {}
             s == [v EXCEPT !.via = none]
             t == [s EXCEPT !.taken = nil]
  <2>1. w = [ins |-> w.ins, via |-> w.via, stopNodes |-> w.stopNodes, ends |-> w.ends, taken |-> w.taken]
    BY DEF IsWiring
  <2>2. u = t
    OBVIOUS
  <2> HIDE DEF none, nil, u
  <2>3. v = [ins |-> ins, via |-> w.via, stopNodes |-> w.stopNodes, ends |-> w.ends, taken |-> w.taken]
    BY <2>1
  <2> HIDE DEF v
  <2>4. s = [ins |-> ins, via |-> none, stopNodes |-> w.stopNodes, ends |-> w.ends, taken |-> w.taken]
    BY <2>3
  <2> HIDE DEF s
  <2>5. t = [ins |-> ins, via |-> none, stopNodes |-> w.stopNodes, ends |-> w.ends, taken |-> nil]
    BY <2>4
  <2> HIDE DEF t
  <2> QED
    BY <2>2, <2>3, <2>5 DEF none, nil
<1> HIDE DEF v, u
<1>3. AreRefs(w.via, ids) /\ AreRefs(w.ends, ids) /\ AreRefs(<<>>, ids)
  BY NoRefs DEF IsWiring
<1>4. IsWiring(v, ids) /\ IsWiring(u, ids)
  BY <1>1, <1>2, <1>3 DEF IsWiring
<1> QED
  BY <1>4 DEF v, u, ins

\* A node is composed over all that fed the transformation, and feeds it in their place.
LEMMA ComposesOne ==
  ASSUME NEW F, Sound(F), NEW w, IsWiring(w, NodeIds(F)),
         NEW n, IsNode(n, NodeIds(F)), n.deps = w.ins, n.op \notin {"tsp_tw", "nearby_places"},
         NEW G, IsPlan(G), MatricesKnown(G), G.graph = Emitted(F, n).graph,
         G.fused = F.fused, G.error = F.error,
         NEW v, IsWiring(v, NodeIds(G)), v.ins = <<n.id>>
  PROVE  Composes(F, w, {n.id}, [F |-> G, w |-> v])
<1> DEFINE i == [F |-> G, w |-> v]
<1>1. ToSet(G.graph) = ToSet(F.graph) \cup {n}
  BY EmittedPlan DEF Sound
<1>2. ToursFit(G)
  BY <1>1, ToursStay DEF Sound
<1>3. ASSUME NEW x \in ToSet(w.ins) PROVE Reached(G, v.ins, x)
  <2>1. Needs(G, n.id, x)
    BY <1>1, NeedsDep
  <2>2. ToSet(v.ins) = {n.id}
    BY ListOfOne
  <2> QED
    BY <2>1, <2>2 DEF Reached
<1>4. i.F = G /\ i.w = v
  OBVIOUS
<1> HIDE DEF i
<1>5. Composes(F, w, {n.id}, i)
  BY <1>1, <1>2, <1>3, <1>4 DEF Composes, Sound, Grown
<1> QED
  BY <1>5 DEF i

-----------------------------------------------------------------------------
\* The arguments of an operator are references to nodes of the plan.

LEMMA OneRef ==
  ASSUME NEW ids, NEW ref, IsRef(ref, ids)
  PROVE  AreRefs(<<ref>>, ids)
<1> DEFINE refs == <<ref>>
<1>1. Listing(refs) /\ ToSet(refs) = {ref}
  BY ListOfOne
<1> HIDE DEF refs
<1>2. AreRefs(refs, ids)
  BY <1>1 DEF AreRefs
<1> QED
  BY <1>2 DEF refs

LEMMA TwoRefs ==
  ASSUME NEW ids, NEW a, NEW b, IsRef(a, ids), IsRef(b, ids)
  PROVE  AreRefs(<<a, b>>, ids)
<1> DEFINE one == <<a>>
           both == Append(one, b)
<1>1. Listing(one) /\ ToSet(one) = {a}
  BY ListOfOne
<1>2. <<a, b>> = both
  OBVIOUS
<1> HIDE DEF one
<1>3. Listing(both) /\ ToSet(both) = {a, b}
  BY <1>1, ListWithOneMore
<1> HIDE DEF both
<1>4. AreRefs(both, ids)
  BY <1>3 DEF AreRefs
<1> QED
  BY <1>2, <1>4

LEMMA EachRef ==
  ASSUME NEW s, Listing(s), NEW ids, NEW a, a = [i \in 1 .. Len(s) |-> a[i]],
         \A i \in 1 .. Len(s) : IsRef(a[i], ids)
  PROVE  AreRefs(a, ids)
<1>1. Listing(a) /\ ToSet(a) = {a[i] : i \in DOMAIN s} /\ DOMAIN s = 1 .. Len(s)
  BY EachOfList, HeadOfList
<1> QED
  BY <1>1 DEF AreRefs

LEMMA ItemIs ==
  ASSUME NEW s, Listing(s), NEW k \in 1 .. Len(s)
  PROVE  s[k] \in ToSet(s)
BY HeadOfList DEF ToSet

LEMMA GatheredAre ==
  ASSUME NEW F, NEW ids, Listing(ids), ToSet(ids) \subseteq NodeIds(F)
  PROVE  /\ AreRefs(Gathered(F, ids), NodeIds(F))
         /\ AreRefs(Each(ids), NodeIds(F))
<1> DEFINE a == Gathered(F, ids)
           b == Each(ids)
<1>1. /\ a = [i \in 1 .. Len(ids) |-> a[i]] /\ \A i \in 1 .. Len(ids) : a[i] = Items(F, ids[i])
      /\ b = [i \in 1 .. Len(ids) |-> b[i]] /\ \A i \in 1 .. Len(ids) : b[i] = <<ids[i]>>
  BY DEF Gathered, Each, Mapped
<1> HIDE DEF a, b
<1>2. ASSUME NEW i \in 1 .. Len(ids) PROVE IsRef(a[i], NodeIds(F)) /\ IsRef(b[i], NodeIds(F))
  <2>1. ids[i] \in NodeIds(F) /\ 0 \in Nat
    BY ItemIs
  <2>2. IsRef(<<ids[i]>>, NodeIds(F)) /\ IsRef(<<ids[i], "ranked">>, NodeIds(F))
    BY <2>1, RefTo
  <2> QED
    BY <1>1, <2>2 DEF Items
<1>3. a = [i \in 1 .. Len(ids) |-> a[i]] /\ \A i \in 1 .. Len(ids) : IsRef(a[i], NodeIds(F))
  BY <1>1, <1>2
<1>4. b = [i \in 1 .. Len(ids) |-> b[i]] /\ \A i \in 1 .. Len(ids) : IsRef(b[i], NodeIds(F))
  BY <1>1, <1>2
<1>5. AreRefs(a, NodeIds(F))
  BY <1>3, EachRef
<1>6. AreRefs(b, NodeIds(F))
  BY <1>4, EachRef
<1> QED
  BY <1>5, <1>6 DEF a, b

LEMMA EachOfAll ==
  ASSUME NEW s, Listing(s), NEW ids, NEW a, a = [i \in 1 .. Len(s) |-> a[i]],
         \A i \in 1 .. Len(s) : AreRefs(a[i], ids)
  PROVE  AreRefs(FlattenSeq(a), ids)
<1>1. \A i \in 1 .. Len(s) : Listing(a[i])
  BY DEF AreRefs
<1>2. /\ Listing(FlattenSeq(a)) /\ DOMAIN s = 1 .. Len(s)
      /\ \A x \in ToSet(FlattenSeq(a)) : \E i \in DOMAIN s : x \in ToSet(a[i])
  BY <1>1, AllOfEach, HeadOfList
<1> QED
  BY <1>2 DEF AreRefs

LEMMA EveryPlaceAre ==
  ASSUME NEW F, IsPlan(F), NEW ids, Listing(ids), ToSet(ids) \subseteq NodeIds(F)
  PROVE  AreRefs(EveryPlace(F, ids), NodeIds(F)) /\ (ids # <<>> => EveryPlace(F, ids) # <<>>)
<1> DEFINE n(id) == Len(NodeOf(F, id).names)
           Located(id) == IF n(id) > 1 THEN [k \in 1 .. n(id) |-> <<id, "place", k - 1>>]
                          ELSE <<PlaceOf(F, id, 0)>>
           a == Mapped(Located, ids)
<1>1. EveryPlace(F, ids) = FlattenSeq(a)
  BY DEF EveryPlace
<1>2. a = [i \in 1 .. Len(ids) |-> a[i]] /\ \A i \in 1 .. Len(ids) : a[i] = Located(ids[i])
  BY DEF Mapped
<1> HIDE DEF a
<1>3. ASSUME NEW id \in NodeIds(F)
      PROVE  AreRefs(Located(id), NodeIds(F)) /\ \E x \in ToSet(Located(id)) : TRUE
  <2>1. CASE n(id) > 1
    <3> DEFINE names == NodeOf(F, id).names
               places == [k \in 1 .. n(id) |-> <<id, "place", k - 1>>]
    <3>1. Listing(names) /\ n(id) = Len(names) /\ n(id) \in Nat
      BY NodeOfThere, NodesOfPlan, HeadOfList
    <3>2. places = [k \in 1 .. Len(names) |-> places[k]]
          /\ \A k \in 1 .. Len(names) : places[k] = <<id, "place", k - 1>>
      OBVIOUS
    <3>3. Located(id) = places
      BY <2>1
    <3> HIDE DEF names, places, n, Located
    <3>4. ASSUME NEW k \in 1 .. Len(names) PROVE IsRef(places[k], NodeIds(F))
      <4>1. k - 1 \in Nat
        BY <3>1
      <4>2. IsRef(<<id, "place", k - 1>>, NodeIds(F))
        BY <4>1, RefTo
      <4> QED
        BY <3>2, <4>2
    <3>6. places = [k \in 1 .. Len(names) |-> places[k]]
      BY <3>2
    <3>5. AreRefs(places, NodeIds(F))
      BY <3>1, <3>4, <3>6, EachRef
    <3>7. 1 \in DOMAIN places
      BY <2>1, <3>1, <3>6
    <3>8. places[1] \in ToSet(places)
      BY <3>7 DEF ToSet
    <3> QED
      BY <3>3, <3>5, <3>8
  <2>2. CASE ~(n(id) > 1)
    <3> DEFINE here == PlaceOf(F, id, 0)
    <3>1. Located(id) = <<here>> /\ 0 \in Nat
      BY <2>2
    <3> HIDE DEF Located
    <3>2. AreRefs(<<here>>, NodeIds(F))
      BY <3>1, RefTo, OneRef
    <3> HIDE DEF here
    <3>3. here \in ToSet(<<here>>)
      BY ListOfOne
    <3> QED
      BY <3>1, <3>2, <3>3
  <2> QED
    BY <2>1, <2>2
<1> HIDE DEF Located
<1>4. \A i \in 1 .. Len(ids) : ids[i] \in NodeIds(F)
  BY ItemIs
<1>5. a = [i \in 1 .. Len(ids) |-> a[i]] /\ \A i \in 1 .. Len(ids) : AreRefs(a[i], NodeIds(F))
  BY <1>2, <1>3, <1>4
<1>6. AreRefs(FlattenSeq(a), NodeIds(F))
  BY <1>5, EachOfAll
<1>7. ASSUME ids # <<>> PROVE FlattenSeq(a) # <<>>
  <2>1. 1 \in DOMAIN ids /\ 1 \in 1 .. Len(ids)
    BY <1>7, HeadOfList
  <2>2. PICK x : x \in ToSet(a[1])
    BY <1>2, <1>3, <1>4, <2>1
  <2>3. \A i \in 1 .. Len(ids) : Listing(a[i])
    BY <1>5 DEF AreRefs
  <2>4. x \in ToSet(FlattenSeq(a))
    BY <1>2, <2>1, <2>2, <2>3, AllOfEach
  <2> QED
    BY <2>4, EmptyList
<1> QED
  BY <1>1, <1>6, <1>7

LEMMA CentersAre ==
  ASSUME NEW F, IsPlan(F), NEW ids, Listing(ids), ToSet(ids) \subseteq NodeIds(F)
  PROVE  AreRefs(Centers(F, ids), NodeIds(F))
<1> DEFINE Center(id) == IF "center" \in DOMAIN NodeOf(F, id).args THEN NodeOf(F, id).args.center ELSE <<>>
           a == Mapped(Center, ids)
<1>1. Centers(F, ids) = FlattenSeq(a)
  BY DEF Centers
<1>2. a = [i \in 1 .. Len(ids) |-> a[i]] /\ \A i \in 1 .. Len(ids) : a[i] = Center(ids[i])
  BY DEF Mapped
<1> HIDE DEF a
<1>3. ASSUME NEW id \in NodeIds(F)
      PROVE  AreRefs(Center(id), NodeIds(F))
  <2>1. AreArguments(NodeOf(F, id).args, NodeIds(F))
    BY NodeOfThere, NodesOfPlan
  <2> QED
    BY <2>1, NoRefs DEF AreArguments
<1> HIDE DEF Center
<1>4. \A i \in 1 .. Len(ids) : ids[i] \in NodeIds(F)
  BY ItemIs
<1>5. a = [i \in 1 .. Len(ids) |-> a[i]] /\ \A i \in 1 .. Len(ids) : AreRefs(a[i], NodeIds(F))
  BY <1>2, <1>3, <1>4
<1> QED
  BY <1>1, <1>5, EachOfAll

LEMMA OfTypeAre ==
  ASSUME NEW F, NEW ids, Listing(ids), ToSet(ids) \subseteq NodeIds(F), NEW type
  PROVE  LET s == OfType(F, ids, type) IN
         Listing(s) /\ ToSet(s) \subseteq NodeIds(F) /\ (s # <<>> => s[1] \in NodeIds(F))
<1> DEFINE s == OfType(F, ids, type)
<1>1. Listing(s) /\ ToSet(s) \subseteq ToSet(ids)
  BY KeptOf DEF OfType, Kept
<1> HIDE DEF s
<1>2. s # <<>> => s[1] \in NodeIds(F)
  BY <1>1, HeadOfList
<1> QED
  BY <1>1, <1>2 DEF s

\* The least and the greatest of some of the numbers below a bound.
LEMMA NearAndFar ==
  ASSUME NEW size \in Nat, NEW S \in SUBSET (0 .. (size - 1)), S # {}
  PROVE  /\ (CHOOSE k \in S : \A j \in S : j <= k) \in Nat
         /\ (CHOOSE k \in S : \A j \in S : k <= j) \in Nat
<1> DEFINE D == {(size - 1) - k : k \in S}
<1>1. D \in SUBSET Nat /\ D # {} /\ S \in SUBSET Nat
  <2>1. \A k \in S : (size - 1) - k \in Nat /\ k \in Nat
    OBVIOUS
  <2> QED
    BY <2>1
<1>2. PICK d \in D : \A e \in D : d <= e
  <2> HIDE DEF D
  <2> QED
    BY <1>1, LeastNumber
<1>3. PICK far \in S : d = (size - 1) - far
  BY <1>2
<1>4. \A j \in S : j <= far
  <2>1. ASSUME NEW j \in S PROVE j <= far
    <3>1. d <= (size - 1) - j
      BY <1>2
    <3> QED
      BY <1>3, <3>1
  <2> QED
    BY <2>1
<1>5. PICK near \in S : \A j \in S : near <= j
  BY <1>1, LeastNumber
<1>6. (CHOOSE k \in S : \A j \in S : j <= k) \in S
  BY <1>4
<1>7. (CHOOSE k \in S : \A j \in S : k <= j) \in S
  BY <1>5
<1> QED
  BY <1>1, <1>6, <1>7

LEMMA EndsAre ==
  ASSUME NEW F, IsPlan(F), NEW w, IsWiring(w, NodeIds(F)), w.ins # <<>>
  PROVE  IsRef(Ends(F, w)[1], NodeIds(F)) /\ IsRef(Ends(F, w)[2], NodeIds(F))
<1> DEFINE ids == w.ins
           free == Kept(ids, LAMBDA id : id \notin w.stopNodes)
           size == Len(NodeOf(F, ids[1]).names)
           untaken == (0..(size - 1)) \ w.taken
           far == CHOOSE k \in untaken : \A j \in untaken : j <= k
           near == CHOOSE k \in untaken : \A j \in untaken : k <= j
           ends == Ends(F, w)
           P(x) == PlaceOf(F, x, 0)
<1>1. Listing(ids) /\ ToSet(ids) \subseteq NodeIds(F) /\ Len(ids) \in Nat
  BY HeadOfList DEF IsWiring
<1>2. \A k \in 1 .. Len(ids) : ids[k] \in NodeIds(F)
  BY <1>1, ItemIs
<1>3. Len(ids) >= 1 /\ ids[1] \in NodeIds(F)
  <2>1. Len(ids) >= 1
    BY <1>1, HeadOfList
  <2> QED
    BY <1>1, <1>2, <2>1
<1>4. Listing(free) /\ ToSet(free) \subseteq NodeIds(F) /\ Len(free) \in Nat
  <2>1. Listing(free) /\ ToSet(free) \subseteq ToSet(ids)
    BY <1>1, KeptOf DEF Kept
  <2> HIDE DEF free
  <2> QED
    BY <1>1, <2>1, HeadOfList
<1>5. \/ Len(w.ends) = 2 /\ ends = w.ends
      \/ Len(free) >= 2 /\ ends = <<P(free[1]), P(free[Len(free)])>>
      \/ Len(ids) >= 2 /\ ends = <<P(ids[1]), P(ids[2])>>
      \/ Cardinality(untaken) >= 2 /\ ends = <<PlaceOf(F, ids[1], near), PlaceOf(F, ids[1], far)>>
      \/ ends = <<P(ids[1]), PlaceOf(F, ids[1], 1)>>
  <2> DEFINE two == <<P(ids[1]), P(ids[2])>>
             outer == <<P(free[1]), P(free[Len(free)])>>
             one == <<PlaceOf(F, ids[1], near), PlaceOf(F, ids[1], far)>>
             first == <<P(ids[1]), PlaceOf(F, ids[1], 1)>>
             many == Cardinality(untaken) >= 2
  <2>1. ends = CASE Len(w.ends) = 2 -> w.ends
                 [] w.ends = <<>> /\ Len(free) >= 2 /\ Len(w.ins) >= 2 -> outer
                 [] w.ends = <<>> /\ Len(free) < 2 /\ Len(w.ins) >= 2 -> two
                 [] w.ends = <<>> /\ Len(w.ins) = 1 /\ w.taken # {} /\ many -> one
                 [] OTHER -> first
    BY DEF Ends
  <2>2. w.ends = <<>> => Len(w.ends) # 2
    OBVIOUS
  <2> HIDE DEF free, untaken, near, far, ends, size, P, outer, two, one, first, many
  <2>3. Len(free) \in Nat /\ Len(w.ins) \in Nat
    BY <1>1, <1>4
  <2>4. \/ Len(w.ends) = 2 /\ ends = w.ends
        \/ Len(free) >= 2 /\ ends = outer
        \/ Len(w.ins) >= 2 /\ ends = two
        \/ many /\ ends = one
        \/ ends = first
    BY <2>1, <2>2, <2>3
  <2> QED
    BY <2>4 DEF outer, two, one, first, many
<1>6. size \in Nat
  <2>1. Listing(NodeOf(F, ids[1]).names)
    BY <1>3, NodeOfThere, NodesOfPlan
  <2> QED
    BY <2>1, HeadOfList
<1>7. ASSUME Cardinality(untaken) >= 2 PROVE near \in Nat /\ far \in Nat
  <2>1. untaken \in SUBSET (0 .. (size - 1)) /\ untaken # {}
    BY <1>7, FS_EmptySet
  <2> HIDE DEF untaken, size
  <2> QED
    BY <1>6, <2>1, NearAndFar
<1>8. \A id \in NodeIds(F), k \in Nat : IsRef(PlaceOf(F, id, k), NodeIds(F))
  BY RefTo
<1> HIDE DEF ids, free, untaken, near, far, ends, size, P
<1>9. CASE Len(w.ends) = 2 /\ ends = w.ends
  <2>1. Listing(w.ends) /\ \A ref \in ToSet(w.ends) : IsRef(ref, NodeIds(F))
    BY DEF IsWiring, AreRefs
  <2>2. w.ends[1] \in ToSet(w.ends) /\ w.ends[2] \in ToSet(w.ends)
    BY <1>9, <2>1, ItemIs
  <2> QED
    BY <1>9, <2>1, <2>2 DEF ends
<1>10. CASE Len(free) >= 2 /\ ends = <<P(free[1]), P(free[Len(free)])>>
  <2>1. 1 \in 1 .. Len(free) /\ Len(free) \in 1 .. Len(free)
    BY <1>4, <1>10
  <2>2. free[1] \in NodeIds(F) /\ free[Len(free)] \in NodeIds(F)
    BY <1>4, <2>1, ItemIs
  <2> QED
    BY <1>8, <1>10, <2>2 DEF ends, P
<1>11. CASE Len(ids) >= 2 /\ ends = <<P(ids[1]), P(ids[2])>>
  <2>1. ids[1] \in NodeIds(F) /\ ids[2] \in NodeIds(F)
    BY <1>1, <1>2, <1>11
  <2> QED
    BY <1>8, <1>11, <2>1 DEF ends, P
<1>12. CASE Cardinality(untaken) >= 2 /\ ends = <<PlaceOf(F, ids[1], near), PlaceOf(F, ids[1], far)>>
  BY <1>3, <1>7, <1>8, <1>12 DEF ends
<1>13. CASE ends = <<P(ids[1]), PlaceOf(F, ids[1], 1)>>
  BY <1>3, <1>8, <1>13 DEF ends, P
<1> QED
  BY <1>5, <1>9, <1>10, <1>11, <1>12, <1>13

\* A tour over what is known of its matrix fits it.
LEMMA TourIs ==
  ASSUME NEW F, IsPlan(F), MatricesKnown(F),
         NEW ids, Listing(ids), ToSet(ids) \subseteq NodeIds(F)
  PROVE  AreArguments(Tour(F, ids), NodeIds(F)) /\ Fits(F, Tour(F, ids))
<1> DEFINE fed == OfType(F, ids, "field")
           any == Kept(F.graph, LAMBDA n : n.op = "distance_matrix")
           matrix == IF fed # <<>> THEN fed[1] ELSE any[1].id
           known == IF (fed # <<>> \/ any # <<>>) /\ matrix \in DOMAIN F.stops THEN F.stops[matrix] ELSE <<>>
           objects == OfType(F, ids, "object")
           nodes == CASE known # <<>> -> known
                      [] known = <<>> /\ objects # <<>> -> <<<<objects[1]>>>>
                      [] OTHER -> <<<<ids[1]>>>>
           args == Tour(F, ids)
           whole == <<<<matrix>>>>
<1>1. \/ fed = <<>> /\ any = <<>> /\ ids = <<>> /\ args = <<>>
      \/ fed = <<>> /\ any = <<>> /\ ids # <<>> /\ args = [nodes |-> nodes]
      \/ any # <<>> /\ ids = <<>> /\ known = <<>> /\ args = [distance_matrix |-> whole]
      \/ (fed # <<>> \/ any # <<>>) /\ ~(any # <<>> /\ ids = <<>> /\ known = <<>>)
         /\ args = [distance_matrix |-> whole, nodes |-> nodes]
  BY Zenon DEF Tour
<1>2. Listing(fed) /\ ToSet(fed) \subseteq NodeIds(F) /\ (fed # <<>> => fed[1] \in NodeIds(F))
      /\ (objects # <<>> => objects[1] \in NodeIds(F))
  BY OfTypeAre
<1>3. Listing(any) /\ ToSet(any) \subseteq ToSet(F.graph)
  BY NodesOfPlan, KeptOf DEF Kept
<1>4. ids = <<>> => fed = <<>>
  <2>1. ToSet(fed) \subseteq ToSet(ids)
    BY KeptOf DEF OfType, Kept
  <2> HIDE DEF fed
  <2> QED
    BY <1>2, <2>1, HeadOfList, EmptyList
<1> HIDE DEF fed, any, objects
<1>5. fed # <<>> \/ any # <<>> => matrix \in NodeIds(F)
  <2>1. any # <<>> => any[1].id \in NodeIds(F)
    BY <1>3, HeadOfList DEF NodeIds
  <2> QED
    BY <1>2, <2>1
<1> HIDE DEF matrix
<1>6. \A id \in NodeIds(F) : AreRefs(<<<<id>>>>, NodeIds(F))
  <2>1. 0 \in Nat
    OBVIOUS
  <2> QED
    BY <2>1, RefTo, OneRef
<1>7. known # <<>> => AreRefs(known, NodeIds(F))
  <2>1. ASSUME matrix \in DOMAIN F.stops PROVE AreRefs(F.stops[matrix], NodeIds(F))
    <3>1. /\ matrix \in NodeIds(F) /\ "origins" \in DOMAIN NodeOf(F, matrix).args
          /\ NodeOf(F, matrix).args.origins = F.stops[matrix]
      BY <2>1 DEF MatricesKnown
    <3>2. AreArguments(NodeOf(F, matrix).args, NodeIds(F))
      BY <3>1, NodeOfThere, NodesOfPlan
    <3> QED
      BY <3>1, <3>2 DEF AreArguments
  <2> QED
    BY <2>1
<1>8. known # <<>> \/ ids # <<>> => AreRefs(nodes, NodeIds(F))
  <2>1. ids # <<>> => ids[1] \in NodeIds(F)
    BY HeadOfList
  <2> HIDE DEF known
  <2> QED
    BY <1>2, <1>6, <1>7, <2>1
<1>9. \A id \in NodeIds(F) : NodeOf(F, id).id = id /\ NodeOf(F, id) \in ToSet(F.graph)
  BY NodeOfThere
<1>10. ASSUME fed # <<>> \/ any # <<>>,
              NodeOf(F, matrix).op = "distance_matrix", Len(NodeOf(F, matrix).deps) >= 2
       PROVE  nodes = NodeOf(F, matrix).args.origins
  <2>1. matrix \in DOMAIN F.stops
    BY <1>5, <1>9, <1>10 DEF MatricesKnown
  <2>2. known = F.stops[matrix] /\ known # <<>> /\ NodeOf(F, matrix).args.origins = F.stops[matrix]
    BY <1>10, <2>1 DEF MatricesKnown
  <2> HIDE DEF known
  <2> QED
    BY <2>2
<1> HIDE DEF known, nodes, args
<1>11. AreArguments(args, NodeIds(F))
  <2>1. CASE args = <<>>
    BY <2>1 DEF AreArguments
  <2>2. CASE args = [nodes |-> nodes] /\ ids # <<>>
    BY <2>2, <1>8 DEF AreArguments
  <2>3. CASE args = [distance_matrix |-> whole] /\ any # <<>>
    BY <2>3, <1>5, <1>6 DEF AreArguments
  <2>4. CASE args = [distance_matrix |-> whole, nodes |-> nodes] /\ (fed # <<>> \/ any # <<>>)
             /\ ~(any # <<>> /\ ids = <<>> /\ known = <<>>)
    <3>1. known # <<>> \/ ids # <<>>
      BY <2>4, <1>4
    <3>2. AreRefs(nodes, NodeIds(F)) /\ AreRefs(whole, NodeIds(F))
      BY <2>4, <3>1, <1>5, <1>6, <1>8
    <3> QED
      BY <2>4, <3>2 DEF AreArguments
  <2> QED
    BY <1>1, <2>1, <2>2, <2>3, <2>4
<1>12. Fits(F, args)
  <2>1. CASE ~({"nodes", "distance_matrix"} \subseteq DOMAIN args)
    BY <2>1 DEF Fits
  <2>2. CASE {"nodes", "distance_matrix"} \subseteq DOMAIN args
    <3>1. args = [distance_matrix |-> whole, nodes |-> nodes] /\ (fed # <<>> \/ any # <<>>)
      BY <1>1, <2>2
    <3>2. args.distance_matrix[1][1] = matrix /\ args.nodes = nodes
      BY <3>1
    <3> QED
      BY <1>5, <1>10, <3>1, <3>2 DEF Fits
  <2> QED
    BY <2>1, <2>2
<1> QED
  BY <1>11, <1>12 DEF args

LEMMA NearestIs ==
  ASSUME NEW F, IsPlan(F), NEW ids, Listing(ids), ToSet(ids) \subseteq NodeIds(F), ids # <<>>
  PROVE  AreArguments(Nearest(F, ids), NodeIds(F))
<1> DEFINE single == Kept(ids, LAMBDA id : OpOf(F, id) \notin CollectionOperators)
           centers == Centers(F, ids)
           anchor == IF single # <<>> THEN PlaceOf(F, single[1], 0) ELSE centers[1]
           kept == Kept(ids, LAMBDA id : id # single[1])
           others == IF single = <<>> THEN ids ELSE kept
           all == Gathered(F, ids)
           rest == Gathered(F, others)
           args == Nearest(F, ids)
<1>1. args = IF Len(ids) < 2 \/ (single = <<>> /\ centers = <<>>)
             THEN [candidates |-> all] ELSE [anchor |-> <<anchor>>, candidates |-> rest]
  BY DEF Nearest
<1>2. Listing(single) /\ ToSet(single) \subseteq ToSet(ids) /\ Listing(kept) /\ ToSet(kept) \subseteq ToSet(ids)
  BY KeptOf DEF Kept
<1>3. AreRefs(centers, NodeIds(F))
  BY CentersAre
<1> HIDE DEF single, centers, kept
<1>4. Listing(others) /\ ToSet(others) \subseteq NodeIds(F)
  BY <1>2
<1> HIDE DEF others
<1>5. AreRefs(all, NodeIds(F)) /\ AreRefs(rest, NodeIds(F))
  BY <1>4, GatheredAre
<1>6. single # <<>> \/ centers # <<>> => IsRef(anchor, NodeIds(F))
  <2>1. CASE single # <<>>
    <3>1. single[1] \in NodeIds(F) /\ 0 \in Nat
      BY <1>2, <2>1, HeadOfList
    <3> QED
      BY <2>1, <3>1, RefTo
  <2>2. CASE single = <<>> /\ centers # <<>>
    BY <1>3, <2>2, HeadOfList DEF AreRefs
  <2> QED
    BY <2>1, <2>2
<1> HIDE DEF anchor, all, rest, args
<1>7. CASE args = [candidates |-> all]
  BY <1>5, <1>7 DEF AreArguments, args
<1>8. CASE args = [anchor |-> <<anchor>>, candidates |-> rest] /\ (single # <<>> \/ centers # <<>>)
  <2>1. AreRefs(<<anchor>>, NodeIds(F))
    BY <1>6, <1>8, OneRef
  <2> QED
    BY <1>5, <1>8, <2>1 DEF AreArguments, args
<1>9. AreArguments(args, NodeIds(F))
  BY <1>1, <1>7, <1>8 DEF args
<1> QED
  BY <1>9 DEF args

LEMMA PairIs ==
  ASSUME NEW ids, NEW S, Listing(ids), ToSet(ids) \subseteq S, ids # <<>>, NEW first, NEW second
  PROVE  AreArguments(Pair(first, second, ids), S)
<1> DEFINE args == Pair(first, second, ids)
<1>1. Len(ids) \in Nat /\ Len(ids) >= 1
  BY HeadOfList
<1>2. ASSUME NEW slot \in DOMAIN args
      PROVE  \E k \in 1 .. Len(ids) : args[slot] = <<<<ids[k]>>>>
  <2>1. /\ slot = first \/ (slot = second /\ Len(ids) >= 2)
        /\ args[slot] = <<<<ids[IF slot = first THEN 1 ELSE 2]>>>>
    BY <1>2 DEF Pair
  <2> HIDE DEF args
  <2>2. CASE slot = first
    BY <1>1, <2>1, <2>2
  <2>3. CASE slot # first
    BY <1>1, <2>1, <2>3
  <2> QED
    BY <2>2, <2>3
<1> HIDE DEF args
<1>3. ASSUME NEW k \in 1 .. Len(ids) PROVE AreRefs(<<<<ids[k]>>>>, S)
  <2>1. ids[k] \in S
    BY ItemIs
  <2>2. IsRef(<<ids[k]>>, S)
    BY <2>1 DEF IsRef
  <2> QED
    BY <2>2, OneRef
<1>4. AreArguments(args, S)
  BY <1>2, <1>3 DEF AreArguments
<1> QED
  BY <1>4 DEF args

\* An operator that has its inputs is wired to nodes of the plan.
LEMMA ArgumentsAre ==
  ASSUME NEW F, IsPlan(F), MatricesKnown(F), NEW w, IsWiring(w, NodeIds(F)), NEW op,
         w.ins # <<>> \/ op \in {"compare_routes", "sum_amounts"},
         ~(op = "within_radius" /\ Len(w.ins) = 1 /\ Centers(F, w.ins) = <<>>)
  PROVE  /\ AreArguments(Arguments(F, op, w), NodeIds(F))
         /\ op = "tsp_tw" => Fits(F, Arguments(F, op, w))
         /\ op = "distance_matrix" =>
              "origins" \in DOMAIN Arguments(F, op, w) /\ Arguments(F, op, w).origins # <<>>
<1> DEFINE ids == w.ins
           whole == <<<<ids[1]>>>>
           second == <<<<ids[2]>>>>
           place == <<PlaceOf(F, ids[1], 0)>>
           stops == IF Len(ids) >= 2 THEN EveryPlace(F, ids) ELSE whole
           fields == OfType(F, ids, "field")
           legs == IF fields = <<>> THEN whole ELSE <<<<fields[1]>>>>
           ends == Ends(F, w)
           from == <<ends[1]>>
           to == <<ends[2]>>
           all == Gathered(F, ids)
           each == Each(ids)
           centers == Centers(F, ids)
           center == <<centers[1]>>
           args == Arguments(F, op, w)
           S == NodeIds(F)
<1>1. Listing(ids) /\ ToSet(ids) \subseteq S /\ Len(ids) \in Nat /\ AreRefs(w.via, S)
  BY HeadOfList DEF IsWiring
<1>2. AreRefs(all, S) /\ AreRefs(each, S)
  BY <1>1, GatheredAre
<1>3. AreRefs(centers, S)
  BY <1>1, CentersAre
<1>4. fields # <<>> => fields[1] \in S
  BY <1>1, OfTypeAre
<1>5. \A id \in S : AreRefs(<<<<id>>>>, S) /\ AreRefs(<<PlaceOf(F, id, 0)>>, S)
  <2>1. 0 \in Nat
    OBVIOUS
  <2> QED
    BY <2>1, RefTo, OneRef
<1>6. centers # <<>> => AreRefs(center, S)
  <2> HIDE DEF centers
  <2>1. ASSUME centers # <<>> PROVE IsRef(centers[1], S)
    BY <1>3, <2>1, HeadOfList DEF AreRefs
  <2> QED
    BY <2>1, OneRef
<1>7. ASSUME ids # <<>>
      PROVE  /\ Len(ids) >= 1 /\ AreRefs(whole, S) /\ AreRefs(place, S)
             /\ AreRefs(stops, S) /\ stops # <<>>
             /\ AreRefs(from, S) /\ AreRefs(to, S) /\ AreRefs(legs, S)
             /\ Len(ids) >= 2 => AreRefs(second, S)
  <2>1. Len(ids) >= 1 /\ ids[1] \in S
    BY <1>1, <1>7, HeadOfList
  <2>2. Len(ids) >= 2 => ids[2] \in S
    BY <1>1, ItemIs
  <2>3. AreRefs(EveryPlace(F, ids), S) /\ EveryPlace(F, ids) # <<>>
    BY <1>1, <1>7, EveryPlaceAre
  <2>4. AreRefs(from, S) /\ AreRefs(to, S)
    <3>1. IsRef(ends[1], S) /\ IsRef(ends[2], S)
      BY <1>7, EndsAre
    <3> HIDE DEF ends
    <3> QED
      BY <3>1, OneRef
  <2>5. AreRefs(whole, S) /\ AreRefs(place, S) /\ whole # <<>>
    BY <1>5, <2>1
  <2>6. AreRefs(stops, S) /\ stops # <<>>
    BY <2>3, <2>5
  <2>7. AreRefs(legs, S)
    <3> HIDE DEF fields
    <3> QED
      BY <1>4, <1>5, <2>5
  <2>8. Len(ids) >= 2 => AreRefs(second, S)
    BY <1>5, <2>2
  <2> HIDE DEF ids, whole, second, place, stops, legs, from, to, S
  <2> QED
    BY <2>1, <2>4, <2>5, <2>6, <2>7, <2>8
<1>8. CASE op \in {"batch_geocode", "place_search", "nearby_places", "batch_place_details", "place_details"}
  <2>1. args \in {<<>>, [center |-> place], [place_id |-> place], [place_id |-> whole]}
    BY <1>8 DEF Arguments
  <2>2. op \notin {"tsp_tw", "distance_matrix"} /\ ids # <<>>
    BY <1>8
  <2>3. AreRefs(place, S) /\ AreRefs(whole, S)
    BY <1>7, <2>2
  <2> HIDE DEF args, place, whole, S, ids
  <2>4. AreArguments(args, S)
    BY <2>1, <2>3 DEF AreArguments
  <2> QED
    BY <2>2, <2>4 DEF args, S
<1>9. CASE op \in {"haversine_distance", "directions", "travel_time"}
  <2>1. args \in {[place_a |-> from, place_b |-> to], [origin |-> from, destination |-> to],
                  [origin |-> from, destination |-> to, waypoints |-> w.via]}
    BY <1>9 DEF Arguments
  <2>2. op \notin {"tsp_tw", "distance_matrix"} /\ ids # <<>>
    BY <1>9
  <2>3. AreRefs(from, S) /\ AreRefs(to, S)
    BY <1>7, <2>2
  <2> HIDE DEF args, from, to, S, ids
  <2>4. AreArguments(args, S)
    BY <1>1, <2>1, <2>3 DEF AreArguments
  <2> QED
    BY <2>2, <2>4 DEF args, S
<1>10. CASE op \in {"pairwise_distances", "pairwise_extremes", "calculate_finish_time", "filter_places",
                    "compare_routes", "sum_amounts", "filter_by_distance", "count_items", "sort_by",
                    "select_by_index", "select_min", "select_max"}
  <2>1. args \in {[pairs |-> all], [locations |-> all], [places |-> all], [items |-> all],
                  [routes |-> each], [amounts |-> each]}
    BY <1>10 DEF Arguments
  <2>2. op \notin {"tsp_tw", "distance_matrix"}
    BY <1>10
  <2> HIDE DEF args, all, each, S, ids
  <2>4. AreArguments(args, S)
    BY <1>2, <2>1 DEF AreArguments
  <2> QED
    BY <2>2, <2>4 DEF args, S
<1>11. CASE op \in {"extract_distance", "extract_duration", "steps_analysis", "select_legs",
                    "sum_route_metrics", "calculate_start_time", "filter_by_direction"}
  <2>1. \/ args \in {[route |-> whole], [routes |-> whole], [routes |-> legs], [duration_s |-> whole],
                     [places |-> whole]}
        \/ Len(ids) >= 2 /\ args = [center |-> place, places |-> second]
    BY <1>11 DEF Arguments
  <2>2. op \notin {"tsp_tw", "distance_matrix"} /\ ids # <<>>
    BY <1>11
  <2>3. AreRefs(whole, S) /\ AreRefs(legs, S) /\ AreRefs(place, S) /\ (Len(ids) >= 2 => AreRefs(second, S))
    BY <1>7, <2>2
  <2> HIDE DEF args, whole, legs, place, second, S, ids
  <2>4. AreArguments(args, S)
    BY <2>1, <2>3 DEF AreArguments
  <2> QED
    BY <2>2, <2>4 DEF args, S
<1>12. CASE op = "distance_matrix"
  <2>1. args = [origins |-> stops, destinations |-> stops]
    BY <1>12 DEF Arguments
  <2>2. op # "tsp_tw" /\ ids # <<>>
    BY <1>12
  <2>3. AreRefs(stops, S) /\ stops # <<>>
    BY <1>7, <2>2
  <2> HIDE DEF args, stops, S, ids
  <2>4. AreArguments(args, S) /\ "origins" \in DOMAIN args /\ args.origins # <<>>
    BY <2>1, <2>3 DEF AreArguments
  <2> QED
    BY <2>2, <2>4 DEF args, S
<1>13. CASE op = "tsp_tw"
  <2>1. args = Tour(F, ids) /\ op # "distance_matrix"
    BY <1>13 DEF Arguments
  <2> QED
    BY <1>1, <2>1, TourIs DEF args
<1>14. CASE op = "within_radius"
  <2>1. args = IF Len(ids) >= 2 THEN [center |-> place, candidates |-> second]
               ELSE [center |-> center, candidates |-> all]
    BY <1>14 DEF Arguments
  <2>2. op \notin {"tsp_tw", "distance_matrix"} /\ ids # <<>>
    BY <1>14
  <2>3. AreRefs(place, S) /\ (Len(ids) >= 2 => AreRefs(second, S)) /\ Len(ids) >= 1
    BY <1>7, <2>2
  <2>5. Len(ids) >= 2 \/ AreRefs(center, S)
    <3>2. Len(ids) = 1 => centers # <<>>
      BY <1>14
    <3> HIDE DEF ids, centers, center, S, place, second
    <3>1. Len(ids) >= 2 \/ Len(ids) = 1
      <4>1. Len(ids) \in Nat /\ Len(ids) >= 1
        BY <1>1, <2>3
      <4>2. \A k \in Nat : k >= 1 => k >= 2 \/ k = 1
        OBVIOUS
      <4> QED
        BY <4>1, <4>2
    <3> QED
      BY <1>6, <3>1, <3>2
  <2> HIDE DEF args, place, second, center, all, S, ids
  <2>4. AreArguments(args, S)
    BY <1>2, <2>1, <2>3, <2>5 DEF AreArguments
  <2> QED
    BY <2>2, <2>4 DEF args, S
<1>15. CASE op \in {"nearest", "difference", "aggregate_route_groups", "calculate_proportion"}
  <2>1. args \in {Nearest(F, ids), Pair("minuend", "subtrahend", ids), Pair("routes", "groups", ids),
                  Pair("numerator", "denominator", ids)}
    BY <1>15 DEF Arguments
  <2>2. op \notin {"tsp_tw", "distance_matrix"} /\ ids # <<>>
    BY <1>15
  <2>3. AreArguments(Nearest(F, ids), S)
    BY <1>1, <2>2, NearestIs
  <2>4. \A first, second2 : AreArguments(Pair(first, second2, ids), S)
    BY <1>1, <2>2, PairIs
  <2> HIDE DEF args, S, ids
  <2>5. AreArguments(args, S)
    BY <2>1, <2>3, <2>4
  <2> QED
    BY <2>2, <2>5 DEF args, S
<1>16. CASE op \notin {"batch_geocode", "place_search", "nearby_places", "batch_place_details", "place_details",
                       "haversine_distance", "directions", "travel_time", "pairwise_distances",
                       "pairwise_extremes", "calculate_finish_time", "filter_places", "compare_routes",
                       "sum_amounts", "filter_by_distance", "count_items", "sort_by", "select_by_index",
                       "select_min", "select_max", "extract_distance", "extract_duration", "steps_analysis",
                       "select_legs", "sum_route_metrics", "calculate_start_time", "filter_by_direction",
                       "distance_matrix", "tsp_tw", "within_radius", "nearest", "difference",
                       "aggregate_route_groups", "calculate_proportion"}
  <2>1. args = [value |-> whole]
    BY <1>16 DEF Arguments
  <2>2. op \notin {"tsp_tw", "distance_matrix"} /\ ids # <<>>
    BY <1>16
  <2>3. AreRefs(whole, S)
    BY <1>7, <2>2
  <2> HIDE DEF args, whole, S, ids
  <2>4. AreArguments(args, S)
    BY <2>1, <2>3 DEF AreArguments
  <2> QED
    BY <2>2, <2>4 DEF args, S
<1> QED
  BY <1>8, <1>9, <1>10, <1>11, <1>12, <1>13, <1>14, <1>15, <1>16

LEMMA WiredAre ==
  ASSUME NEW F, IsPlan(F), MatricesKnown(F), NEW w, IsWiring(w, NodeIds(F)), NEW op,
         ~(op = "within_radius" /\ Len(w.ins) = 1 /\ Centers(F, w.ins) = <<>>)
  PROVE  /\ AreArguments(Wired(F, op, w), NodeIds(F))
         /\ op = "tsp_tw" => Fits(F, Wired(F, op, w))
         /\ op = "distance_matrix" /\ w.ins # <<>> =>
              "origins" \in DOMAIN Wired(F, op, w) /\ Wired(F, op, w).origins # <<>>
<1>1. CASE w.ins # <<>> \/ op \in {"compare_routes", "sum_amounts"}
  <2>1. Wired(F, op, w) = Arguments(F, op, w)
    BY <1>1 DEF Wired
  <2> QED
    BY <1>1, <2>1, ArgumentsAre
<1>2. CASE w.ins = <<>> /\ op = "tsp_tw"
  <2>1. Wired(F, op, w) = Tour(F, <<>>) /\ op # "distance_matrix"
    BY <1>2 DEF Wired
  <2>2. AreArguments(Tour(F, w.ins), NodeIds(F)) /\ Fits(F, Tour(F, w.ins))
    BY TourIs DEF IsWiring
  <2> QED
    BY <1>2, <2>1, <2>2
<1>3. CASE w.ins = <<>> /\ op \notin {"tsp_tw", "compare_routes", "sum_amounts"}
  <2>1. Wired(F, op, w) = <<>>
    BY <1>3 DEF Wired
  <2>2. AreArguments(<<>>, NodeIds(F))
    BY DEF AreArguments
  <2> QED
    BY <1>3, <2>1, <2>2
<1> QED
  BY <1>1, <1>2, <1>3

-----------------------------------------------------------------------------
\* What a transformation composes before its own node.

LEMMA NodeIs ==
  ASSUME NEW ids, NEW id, id \notin ids, NEW op, NEW args, AreArguments(args, ids),
         NEW deps, Listing(deps), ToSet(deps) \subseteq ids, NEW type, NEW role
  PROVE  LET n == Node(id, op, args, deps, type, role) IN
         /\ IsNode(n, ids) /\ n.id = id /\ n.op = op /\ n.args = args /\ n.deps = deps
<1> DEFINE n == Node(id, op, args, deps, type, role)
<1>1. n = [id |-> id, op |-> op, args |-> args, names |-> <<>>, deps |-> deps, type |-> type, role |-> role]
  BY DEF Node
<1> HIDE DEF n
<1>2. IsNode(n, ids)
  BY <1>1, EmptyList DEF IsNode
<1> QED
  BY <1>1, <1>2 DEF n

LEMMA ComposedIds ==
  ASSUME NEW F, NEW w, NEW new, NEW i, Composes(F, w, new, i), NEW id \in NodeIds(i.F)
  PROVE  id \in NodeIds(F) \/ id \in new
BY DEF Composes, NodeIds

LEMMA RouteComposes ==
  ASSUME NEW F, Sound(F), NEW step, NEW w, IsWiring(w, NodeIds(F)),
         Composed(step.id, "route") \notin NodeIds(F)
  PROVE  Composes(F, w, {Composed(step.id, "route")}, RouteComposed(F, step, w))
<1> DEFINE id == Composed(step.id, "route")
           args == Arguments(F, "directions", w)
           n == Node(id, "directions", args, w.ins, "field", "support")
           G == Emitted(F, n)
           v == [w EXCEPT !.ins = <<id>>, !.via = <<>>, !.taken = {}]
           i == RouteComposed(F, step, w)
<1>1. CASE NeedsARoute(F, step, w.ins)
  <2>1. i = [F |-> G, w |-> v]
    BY <1>1 DEF RouteComposed
  <2>2. w.ins # <<>>
    <3>1. Len(w.ins) >= 2
      BY <1>1 DEF NeedsARoute, AllGeocodes
    <3> QED
      BY <3>1
  <2>3. AreArguments(args, NodeIds(F))
    BY <2>2, ArgumentsAre DEF Sound
  <2>4. Listing(w.ins) /\ ToSet(w.ins) \subseteq NodeIds(F) /\ id \notin NodeIds(F)
    BY DEF IsWiring
  <2> HIDE DEF id, args
  <2>5. /\ IsNode(n, NodeIds(F)) /\ n.deps = w.ins /\ n.id = id
        /\ n.op \notin {"tsp_tw", "nearby_places", "distance_matrix"}
    BY <2>3, <2>4, NodeIs
  <2> HIDE DEF n
  <2>6. /\ IsPlan(G) /\ MatricesKnown(G) /\ G.fused = F.fused /\ G.error = F.error
        /\ NodeIds(G) = NodeIds(F) \cup {id}
    BY <2>5, EmittedPlan, MatricesStay DEF Sound
  <2>7. IsWiring(w, NodeIds(G)) /\ id \in NodeIds(G)
    BY <2>6, WiringGrown
  <2>8. IsWiring(v, NodeIds(G))
    BY <2>7, Emptied
  <2>9. v.ins = <<n.id>>
    BY <2>5 DEF IsWiring
  <2>10. G.graph = Emitted(F, n).graph
    OBVIOUS
  <2> HIDE DEF v, G
  <2>11. Composes(F, w, {n.id}, [F |-> G, w |-> v])
    BY <2>5, <2>6, <2>8, <2>9, <2>10, ComposesOne
  <2> HIDE DEF i
  <2> QED
    BY <2>1, <2>5, <2>11 DEF i, id
<1>2. CASE ~NeedsARoute(F, step, w.ins)
  <2>1. i = [F |-> F, w |-> w]
    BY <1>2 DEF RouteComposed
  <2> QED
    BY <2>1, ComposesNothing
<1> QED
  BY <1>1, <1>2

LEMMA LegsCompose ==
  ASSUME NEW F, Sound(F), NEW step, NEW w, IsWiring(w, NodeIds(F)),
         Composed(step.id, "legs") \notin NodeIds(F)
  PROVE  Composes(F, w, {Composed(step.id, "legs")}, LegsComposed(F, step, w))
<1> DEFINE id == Composed(step.id, "legs")
           whole == <<<<w.ins[1]>>>>
           args == [routes |-> whole]
           n == Node(id, "select_legs", args, w.ins, "field", "support")
           G == Emitted(F, n)
           v == [w EXCEPT !.ins = <<id>>]
           i == LegsComposed(F, step, w)
<1>1. CASE TotalsAMatrix(F, step, w.ins)
  <2>1. i = [F |-> G, w |-> v]
    BY <1>1 DEF LegsComposed
  <2>4. Listing(w.ins) /\ ToSet(w.ins) \subseteq NodeIds(F) /\ id \notin NodeIds(F)
    BY DEF IsWiring
  <2>2. w.ins[1] \in NodeIds(F)
    <3>1. 1 \in 1 .. Len(w.ins)
      BY <1>1 DEF TotalsAMatrix
    <3> QED
      BY <2>4, <3>1, ItemIs
  <2>3. AreArguments(args, NodeIds(F))
    <3>1. AreRefs(whole, NodeIds(F))
      <4>1. 0 \in Nat
        OBVIOUS
      <4> QED
        BY <2>2, <4>1, RefTo, OneRef
    <3> HIDE DEF whole
    <3> QED
      BY <3>1 DEF AreArguments
  <2> HIDE DEF id, args
  <2>5. /\ IsNode(n, NodeIds(F)) /\ n.deps = w.ins /\ n.id = id
        /\ n.op \notin {"tsp_tw", "nearby_places", "distance_matrix"}
    BY <2>3, <2>4, NodeIs
  <2> HIDE DEF n
  <2>6. /\ IsPlan(G) /\ MatricesKnown(G) /\ G.fused = F.fused /\ G.error = F.error
        /\ NodeIds(G) = NodeIds(F) \cup {id}
    BY <2>5, EmittedPlan, MatricesStay DEF Sound
  <2>7. IsWiring(w, NodeIds(G)) /\ id \in NodeIds(G)
    BY <2>6, WiringGrown
  <2>8. IsWiring(v, NodeIds(G))
    BY <2>7, Emptied
  <2>9. v.ins = <<n.id>>
    BY <2>5 DEF IsWiring
  <2>10. G.graph = Emitted(F, n).graph
    OBVIOUS
  <2> HIDE DEF v, G
  <2>11. Composes(F, w, {n.id}, [F |-> G, w |-> v])
    BY <2>5, <2>6, <2>8, <2>9, <2>10, ComposesOne
  <2> HIDE DEF i
  <2> QED
    BY <2>1, <2>5, <2>11 DEF i, id
<1>2. CASE ~TotalsAMatrix(F, step, w.ins)
  <2>1. i = [F |-> F, w |-> w]
    BY <1>2 DEF LegsComposed
  <2> QED
    BY <2>1, ComposesNothing
<1> QED
  BY <1>1, <1>2

\* The matrix is between the stops of a selection of legs.
MatrixIds(step) == {id \in {Composed(step.id, "matrix")} : step.t = "SELECT_LEGS"}
LEMMA MatrixComposes ==
  ASSUME NEW F, Sound(F), NEW step, NEW w, IsWiring(w, NodeIds(F)),
         Composed(step.id, "matrix") \notin NodeIds(F)
  PROVE  Composes(F, w, MatrixIds(step), MatrixComposed(F, step, w))
<1> DEFINE id == Composed(step.id, "matrix")
           stops == EveryPlace(F, w.ins)
           args == [origins |-> stops, destinations |-> stops]
           n == Node(id, "distance_matrix", args, w.ins, "field", "support")
           E == Emitted(F, n)
           G == WithStops(E, id, stops)
           v == [w EXCEPT !.ins = <<id>>]
           i == MatrixComposed(F, step, w)
<1>1. CASE step.t = "SELECT_LEGS" /\ AllGeocodes(F, w.ins)
  <2>1. i = [F |-> G, w |-> v] /\ MatrixIds(step) = {id}
    BY <1>1 DEF MatrixComposed, MatrixIds
  <2>2. w.ins # <<>>
    <3>1. Len(w.ins) >= 2
      BY <1>1 DEF AllGeocodes
    <3> QED
      BY <3>1
  <2>4. Listing(w.ins) /\ ToSet(w.ins) \subseteq NodeIds(F) /\ id \notin NodeIds(F)
    BY DEF IsWiring
  <2>3. AreArguments(args, NodeIds(F)) /\ stops # <<>>
    <3>1. AreRefs(stops, NodeIds(F)) /\ stops # <<>>
      BY <2>2, <2>4, EveryPlaceAre DEF Sound
    <3> HIDE DEF stops
    <3> QED
      BY <3>1 DEF AreArguments
  <2>12. args.origins = stops /\ "origins" \in DOMAIN args
    OBVIOUS
  <2> HIDE DEF id, args, stops
  <2>5. /\ IsNode(n, NodeIds(F)) /\ n.deps = w.ins /\ n.id = id /\ n.args = args
        /\ n.op \notin {"tsp_tw", "nearby_places"} /\ n.op = "distance_matrix"
    BY <2>3, <2>4, NodeIs
  <2> HIDE DEF n
  <2>6. /\ IsPlan(G) /\ MatricesKnown(G) /\ G.fused = F.fused /\ G.error = F.error
        /\ G.graph = E.graph
    <3>1. /\ n.args.origins = stops /\ "origins" \in DOMAIN n.args /\ stops # <<>>
      BY <2>3, <2>5, <2>12
    <3>2. LET H == WithStops(Emitted(F, n), n.id, n.args.origins) IN
          /\ IsPlan(H) /\ MatricesKnown(H)
          /\ H.graph = Emitted(F, n).graph /\ H.fused = F.fused /\ H.error = F.error
      BY <2>5, <3>1, WithStopsKnown DEF Sound
    <3> QED
      BY <2>5, <3>1, <3>2
  <2>13. NodeIds(G) = NodeIds(F) \cup {id}
    <3>1. NodeIds(E) = NodeIds(F) \cup {id}
      BY <2>5, EmittedPlan DEF Sound
    <3> QED
      BY <2>6, <3>1 DEF NodeIds
  <2>7. IsWiring(w, NodeIds(G)) /\ id \in NodeIds(G)
    BY <2>13, WiringGrown
  <2>8. IsWiring(v, NodeIds(G))
    BY <2>7, Emptied
  <2>9. v.ins = <<n.id>>
    BY <2>5 DEF IsWiring
  <2> HIDE DEF v, G
  <2>11. Composes(F, w, {n.id}, [F |-> G, w |-> v])
    BY <2>5, <2>6, <2>8, <2>9, ComposesOne
  <2> HIDE DEF i
  <2> QED
    BY <2>1, <2>5, <2>11 DEF i
<1>2. CASE ~(step.t = "SELECT_LEGS" /\ AllGeocodes(F, w.ins))
  <2>1. i = [F |-> F, w |-> w]
    BY <1>2 DEF MatrixComposed
  <2> QED
    BY <2>1, ComposesNothing
<1> QED
  BY <1>1, <1>2

\* All it composes.
ImpliedIds(step) == {Composed(step.id, "route"), Composed(step.id, "legs")} \cup MatrixIds(step)
LEMMA ImpliedComposes ==
  ASSUME NEW F, Sound(F), NEW step, NEW w, IsWiring(w, NodeIds(F)),
         \A what : Composed(step.id, what) \notin NodeIds(F)
  PROVE  Composes(F, w, ImpliedIds(step), Implied(F, step, w))
<1> DEFINE routed == RouteComposed(F, step, w)
           gridded == MatrixComposed(routed.F, step, routed.w)
           legged == LegsComposed(gridded.F, step, gridded.w)
           R == {Composed(step.id, "route")}
           L == {Composed(step.id, "legs")}
<1>1. Implied(F, step, w) = legged
  BY DEF Implied
<1>2. Composed(step.id, "matrix") \notin R /\ Composed(step.id, "legs") \notin R
      /\ Composed(step.id, "legs") \notin MatrixIds(step)
  BY DEF Composed, MatrixIds
<1>3. Composes(F, w, R, routed)
  BY RouteComposes
<1> HIDE DEF routed
<1>4. Sound(routed.F) /\ IsWiring(routed.w, NodeIds(routed.F))
      /\ Composed(step.id, "matrix") \notin NodeIds(routed.F)
      /\ Composed(step.id, "legs") \notin NodeIds(routed.F)
  <2>1. Sound(routed.F) /\ IsWiring(routed.w, NodeIds(routed.F))
    BY <1>3 DEF Composes
  <2> HIDE DEF R
  <2>2. ASSUME NEW what, Composed(step.id, what) \notin R, Composed(step.id, what) \in NodeIds(routed.F)
        PROVE  FALSE
    BY <1>3, <2>2, ComposedIds
  <2> QED
    BY <1>2, <2>1, <2>2
<1>5. Composes(routed.F, routed.w, MatrixIds(step), gridded)
  BY <1>4, MatrixComposes
<1> HIDE DEF gridded
<1>6. Sound(gridded.F) /\ IsWiring(gridded.w, NodeIds(gridded.F))
      /\ Composed(step.id, "legs") \notin NodeIds(gridded.F)
  BY <1>2, <1>4, <1>5, ComposedIds DEF Composes
<1>7. Composes(gridded.F, gridded.w, L, legged)
  BY <1>6, LegsCompose
<1> HIDE DEF legged, R, L
<1>8. Composes(F, w, R \cup MatrixIds(step), gridded)
  BY <1>3, <1>5, ComposesBoth DEF Sound
<1>9. Composes(F, w, (R \cup MatrixIds(step)) \cup L, legged)
  BY <1>7, <1>8, ComposesBoth DEF Sound
<1>10. (R \cup MatrixIds(step)) \cup L = ImpliedIds(step)
  BY DEF ImpliedIds, R, L
<1> QED
  BY <1>1, <1>9, <1>10

-----------------------------------------------------------------------------
\* The node of the transformation itself.

\* What is not about the graph, or about its matrices, changes nothing of them.
LEMMA SameGraph ==
  ASSUME NEW F, Sound(F), NEW G, IsPlan(G), G.graph = F.graph, G.stops = F.stops
  PROVE  Sound(G)
<1>1. NodeIds(G) = NodeIds(F) /\ \A id : NodeOf(G, id) = NodeOf(F, id)
  BY DEF NodeIds, NodeOf
<1>2. MatricesKnown(G)
  BY <1>1 DEF Sound, MatricesKnown
<1>3. ToursFit(G)
  BY <1>1 DEF Sound, ToursFit, Fits
<1> QED
  BY <1>2, <1>3 DEF Sound

LEMMA OtherFields ==
  ASSUME NEW F, Sound(F), NEW x
  PROVE  /\ LET G == [F EXCEPT !.square = x] IN
            Sound(G) /\ G.graph = F.graph /\ G.fused = F.fused /\ G.error = F.error
         /\ LET G == [F EXCEPT !.fused = x] IN
            Sound(G) /\ G.graph = F.graph /\ G.fused = x /\ G.error = F.error
         /\ LET G == [F EXCEPT !.error = x] IN
            Sound(G) /\ G.graph = F.graph /\ G.fused = F.fused /\ G.error = x
         /\ (\A id \in DOMAIN x : Listing(x[id])) =>
              LET G == [F EXCEPT !.bound = x] IN
              Sound(G) /\ G.graph = F.graph /\ G.fused = F.fused /\ G.error = F.error
<1>1. F = [graph |-> F.graph, fused |-> F.fused, bound |-> F.bound, stops |-> F.stops,
           square |-> F.square, error |-> F.error]
  BY DEF Sound, IsPlan
<1> DEFINE A == [F EXCEPT !.square = x]
           B == [F EXCEPT !.fused = x]
           C == [F EXCEPT !.error = x]
           D == [F EXCEPT !.bound = x]
<1>2. /\ A = [graph |-> F.graph, fused |-> F.fused, bound |-> F.bound, stops |-> F.stops,
              square |-> x, error |-> F.error]
      /\ B = [graph |-> F.graph, fused |-> x, bound |-> F.bound, stops |-> F.stops,
              square |-> F.square, error |-> F.error]
      /\ C = [graph |-> F.graph, fused |-> F.fused, bound |-> F.bound, stops |-> F.stops,
              square |-> F.square, error |-> x]
      /\ D = [graph |-> F.graph, fused |-> F.fused, bound |-> x, stops |-> F.stops,
              square |-> F.square, error |-> F.error]
  BY <1>1
<1> HIDE DEF A, B, C, D
<1>3. /\ Listing(F.graph) /\ \A i \in DOMAIN F.graph : IsNode(F.graph[i], Before(F.graph, i))
      /\ \A id \in DOMAIN F.bound : Listing(F.bound[id])
  BY DEF Sound, IsPlan
<1>4. IsPlan(A) /\ IsPlan(B) /\ IsPlan(C)
  BY <1>2, <1>3 DEF IsPlan
<1>5. (\A id \in DOMAIN x : Listing(x[id])) => IsPlan(D)
  BY <1>2, <1>3 DEF IsPlan
<1>6. Sound(A) /\ Sound(B) /\ Sound(C) /\ (IsPlan(D) => Sound(D))
  BY <1>2, <1>4, SameGraph
<1> QED
  BY <1>2, <1>5, <1>6 DEF A, B, C, D

\* A plan that is given up.
LEMMA FailedIs ==
  ASSUME NEW F, Sound(F), NEW why
  PROVE  Sound(Failed(F, why)) /\ Failed(F, why).graph = F.graph /\ Failed(F, why).error = why
<1> DEFINE E == [F EXCEPT !.error = why]
<1>1. Sound(E) /\ E.graph = F.graph /\ E.error = why
  BY OtherFields
<1> HIDE DEF E
<1> QED
  BY <1>1 DEF E, Failed

LEMMA FitsGrown ==
  ASSUME NEW F, IsPlan(F), NEW G, IsPlan(G), Grown(F, G), NEW args, Fits(F, args)
  PROVE  Fits(G, args)
<1>1. \A id \in NodeIds(F) : NodeOf(G, id) = NodeOf(F, id) /\ id \in NodeIds(G)
  BY NodeOfStays DEF Grown
<1> QED
  BY <1>1 DEF Fits

\* However its node is recorded, the plan stays sound and grows by it alone.
LEMMA Placing ==
  ASSUME NEW H, Sound(H), NEW n, IsNode(n, NodeIds(H)), n.op = "tsp_tw" => Fits(H, n.args),
         n.op = "distance_matrix" => ~(Len(n.deps) >= 2)
  PROVE  LET G == Emitted(H, n) IN
         /\ Sound(G) /\ ToSet(G.graph) = ToSet(H.graph) \cup {n}
         /\ G.fused = H.fused /\ G.error = H.error
<1> DEFINE E == Emitted(H, n)
<1>1. /\ IsPlan(E) /\ ToSet(E.graph) = ToSet(H.graph) \cup {n}
      /\ E.fused = H.fused /\ E.error = H.error
  BY EmittedPlan DEF Sound
<1>2. MatricesKnown(E)
  BY MatricesStay DEF Sound
<1> HIDE DEF E
<1>3. n.op = "tsp_tw" => Fits(E, n.args)
  BY <1>1, FitsGrown DEF Sound, Grown
<1>4. ToursFit(E)
  BY <1>1, <1>3, ToursStay DEF Sound
<1>5. Sound(E)
  BY <1>1, <1>2, <1>4 DEF Sound
<1> QED
  BY <1>1, <1>5 DEF E

LEMMA PlacingSquared ==
  ASSUME NEW H, Sound(H), NEW n, IsNode(n, NodeIds(H)), n.op = "tsp_tw" => Fits(H, n.args),
         n.op = "distance_matrix" => ~(Len(n.deps) >= 2)
  PROVE  LET G == Squared(Emitted(H, n), n.id) IN
         /\ Sound(G) /\ ToSet(G.graph) = ToSet(H.graph) \cup {n}
         /\ G.fused = H.fused /\ G.error = H.error
<1> DEFINE E == Emitted(H, n)
           square == E.square \cup {n.id}
           G == Squared(E, n.id)
<1>1. G = [E EXCEPT !.square = square]
  BY DEF Squared
<1>2. Sound(E) /\ ToSet(E.graph) = ToSet(H.graph) \cup {n} /\ E.fused = H.fused /\ E.error = H.error
  BY Placing
<1> HIDE DEF E, square, G
<1>3. Sound(G) /\ G.graph = E.graph /\ G.fused = E.fused /\ G.error = E.error
  BY <1>1, <1>2, OtherFields
<1> QED
  BY <1>2, <1>3 DEF G, E

LEMMA PlacingStops ==
  ASSUME NEW H, Sound(H), NEW n, IsNode(n, NodeIds(H)),
         n.op = "distance_matrix", "origins" \in DOMAIN n.args, n.args.origins # <<>>
  PROVE  LET G == WithStops(Emitted(H, n), n.id, n.args.origins) IN
         /\ Sound(G) /\ ToSet(G.graph) = ToSet(H.graph) \cup {n}
         /\ G.fused = H.fused /\ G.error = H.error
<1> DEFINE E == Emitted(H, n)
           G == WithStops(E, n.id, n.args.origins)
<1>1. IsPlan(G) /\ MatricesKnown(G) /\ G.graph = E.graph /\ G.fused = H.fused /\ G.error = H.error
  BY WithStopsKnown DEF Sound
<1>2. ToSet(E.graph) = ToSet(H.graph) \cup {n}
  BY EmittedPlan DEF Sound
<1> HIDE DEF E, G
<1>3. ToursFit(G)
  BY <1>1, <1>2, ToursStay DEF Sound
<1>4. Sound(G) /\ ToSet(G.graph) = ToSet(H.graph) \cup {n} /\ G.fused = H.fused /\ G.error = H.error
  BY <1>1, <1>2, <1>3 DEF Sound
<1> QED
  BY <1>4 DEF G, E

LEMMA PlacingBound ==
  ASSUME NEW H, Sound(H), NEW n, IsNode(n, NodeIds(H)), n.op = "batch_geocode",
         NEW names, Listing(names)
  PROVE  LET G == [Emitted(H, n) EXCEPT !.bound = Extended(@, n.id, names)] IN
         /\ Sound(G) /\ ToSet(G.graph) = ToSet(H.graph) \cup {n}
         /\ G.fused = H.fused /\ G.error = H.error
<1> DEFINE E == Emitted(H, n)
           b == Extended(E.bound, n.id, names)
           G == [E EXCEPT !.bound = b]
<1>1. Sound(E) /\ ToSet(E.graph) = ToSet(H.graph) \cup {n} /\ E.fused = H.fused /\ E.error = H.error
  <2>1. n.op \notin {"tsp_tw", "distance_matrix"}
    OBVIOUS
  <2> QED
    BY <2>1, Placing
<1> HIDE DEF E
<1>2. \A id \in DOMAIN E.bound : Listing(E.bound[id])
  BY <1>1 DEF Sound, IsPlan
<1>3. \A id \in DOMAIN b : Listing(b[id])
  BY <1>2 DEF Extended
<1> HIDE DEF b
<1>4. Sound(G) /\ G.graph = E.graph /\ G.fused = E.fused /\ G.error = E.error
  BY <1>1, <1>3, OtherFields
<1> HIDE DEF G
<1>5. Sound(G) /\ ToSet(G.graph) = ToSet(H.graph) \cup {n} /\ G.fused = H.fused /\ G.error = H.error
  BY <1>1, <1>4
<1> QED
  BY <1>5 DEF G, E, b

\* The matrix that a tour over places nobody measured gets.
LEMMA TourMatrixIs ==
  ASSUME NEW F, Sound(F), NEW step, NEW ins, Listing(ins), ToSet(ins) \subseteq NodeIds(F), ins # <<>>,
         Composed(step.id, "matrix") \notin NodeIds(F)
  PROVE  LET H == TourMatrix(F, step, ins)
             grid == Composed(step.id, "matrix") IN
         /\ Sound(H) /\ Grown(F, H) /\ NodeIds(H) = NodeIds(F) \cup {grid}
         /\ H.fused = F.fused /\ H.error = F.error
         /\ \A n \in ToSet(H.graph) \ ToSet(F.graph) : n.id = grid /\ n.op # "nearby_places"
         /\ NodeOf(H, grid).op = "distance_matrix" /\ ~(Len(NodeOf(H, grid).deps) >= 2)
<1> DEFINE H == TourMatrix(F, step, ins)
           grid == Composed(step.id, "matrix")
           places == <<<<ins[1]>>>>
           args == [origins |-> places, destinations |-> places]
           deps == <<ins[1]>>
           n == Node(grid, "distance_matrix", args, deps, "field", "support")
<1>1. H = WithStops(Emitted(F, n), grid, places)
  BY DEF TourMatrix
<1>2. ins[1] \in NodeIds(F) /\ 0 \in Nat
  BY HeadOfList
<1>3. AreRefs(places, NodeIds(F))
  BY <1>2, RefTo, OneRef
<1>4. Listing(deps) /\ ToSet(deps) = {ins[1]} /\ Len(deps) = 1
  BY ListOfOne
<1>5. args.origins = places /\ "origins" \in DOMAIN args /\ places # <<>>
  OBVIOUS
<1>6. AreArguments(args, NodeIds(F))
  <2> HIDE DEF places
  <2> QED
    BY <1>3 DEF AreArguments
<1> HIDE DEF args, places, deps, H, grid
<1>7. IsNode(n, NodeIds(F)) /\ n.id = grid /\ n.op = "distance_matrix" /\ n.args = args /\ n.deps = deps
  BY <1>2, <1>4, <1>6, NodeIs DEF grid
<1> HIDE DEF n
<1>8. H = WithStops(Emitted(F, n), n.id, n.args.origins) /\ "origins" \in DOMAIN n.args
      /\ n.args.origins # <<>>
  BY <1>1, <1>5, <1>7
<1>9. Sound(H) /\ ToSet(H.graph) = ToSet(F.graph) \cup {n} /\ H.fused = F.fused /\ H.error = F.error
  <2>1. n.op # "tsp_tw" /\ n.op = "distance_matrix"
    BY <1>7
  <2>2. Listing(deps) /\ IsNode(n, NodeIds(F))
    BY <1>4, <1>7
  <2>3. LET G == WithStops(Emitted(F, n), n.id, n.args.origins) IN
        /\ Sound(G) /\ ToSet(G.graph) = ToSet(F.graph) \cup {n}
        /\ G.fused = F.fused /\ G.error = F.error
    BY <1>8, <2>1, <2>2, PlacingStops
  <2> QED
    BY <1>8, <2>3
<1>10. NodeIds(H) = NodeIds(F) \cup {grid}
  BY <1>7, <1>9 DEF NodeIds
<1>11. NodeOf(H, grid) = n
  BY <1>7, <1>9, NodeOfIs DEF Sound
<1>12. /\ Grown(F, H) /\ \A m \in ToSet(H.graph) \ ToSet(F.graph) : m.id = grid /\ m.op # "nearby_places"
       /\ NodeOf(H, grid).op = "distance_matrix" /\ ~(Len(NodeOf(H, grid).deps) >= 2)
  <2>1. Grown(F, H) /\ \A m \in ToSet(H.graph) \ ToSet(F.graph) : m.id = grid /\ m.op # "nearby_places"
    BY <1>7, <1>9 DEF Grown
  <2>2. Len(NodeOf(H, grid).deps) = 1 /\ NodeOf(H, grid).op = "distance_matrix"
    BY <1>4, <1>7, <1>11
  <2>3. ~(1 >= 2)
    OBVIOUS
  <2> QED
    BY <2>1, <2>2, <2>3
<1> QED
  BY <1>9, <1>10, <1>12 DEF H, grid

\* What placing the node of a transformation does.
Joined(F, step, ins, G) ==
  /\ Sound(G) /\ Grown(F, G) /\ G.fused = F.fused /\ G.error = F.error
  /\ step.id \in NodeIds(G)
  /\ \A n \in ToSet(G.graph) \ ToSet(F.graph) :
       n.id = step.id \/ (n.id = Composed(step.id, "matrix") /\ n.op # "nearby_places")
  /\ \A x \in ToSet(ins) : Needs(G, step.id, x)

LEMMA NodePlacedIs ==
  ASSUME NEW F, Sound(F), NEW g, Listing(g.pool), NEW step, IsStep(step),
         step.id = <<step.id[1], step.id[2]>>, step.id \notin NodeIds(F),
         NEW op, NEW args, AreArguments(args, NodeIds(F)),
         NEW ins, Listing(ins), ToSet(ins) \subseteq NodeIds(F),
         op = "tsp_tw" => Fits(F, args) /\ Composed(step.id, "matrix") \notin NodeIds(F),
         op = "distance_matrix" /\ ins # <<>> => "origins" \in DOMAIN args /\ args.origins # <<>>
  PROVE  Joined(F, step, ins, NodePlaced(F, g, step, op, args, ins))
<1> DEFINE names == IF op = "batch_geocode" THEN NamesOf(F, g, step) ELSE <<>>
           aligned == IF Scope(step) = "options" THEN <<>> ELSE Aligned(g, step)
           type == IF Produces(op) \in AcceptedOutputTypes(step.t) THEN Produces(op) ELSE OutputType[step.t]
           bare == op = "tsp_tw" /\ "distance_matrix" \notin DOMAIN args /\ ins # <<>>
           H == IF bare THEN TourMatrix(F, step, ins) ELSE F
           grid == Composed(step.id, "matrix")
           given == IF bare THEN Extended(args, "distance_matrix", <<<<grid>>>>) ELSE args
           deps == IF bare THEN Append(ins, grid) ELSE ins
           n == [id |-> step.id, op |-> op, names |-> names, type |-> type, role |-> step.role,
                 args |-> given, deps |-> deps]
           G == NodePlaced(F, g, step, op, args, ins)
<1>1. G = CASE op = "batch_geocode" /\ Len(aligned) = Len(names) ->
                 [Emitted(H, n) EXCEPT !.bound = Extended(@, step.id, aligned)]
            [] op = "distance_matrix" /\ Len(ins) >= 2 -> WithStops(Emitted(H, n), step.id, args.origins)
            [] op = "distance_matrix" /\ Len(ins) = 1 -> Squared(Emitted(H, n), step.id)
            [] OTHER -> Emitted(H, n)
  BY DEF NodePlaced
<1>2. Listing(names) /\ Listing(aligned)
  <2>1. Listing(Aligned(g, step)) /\ Listing(Unclaimed(F, g))
    BY KeptOf DEF Aligned, Unclaimed, Kept, IsStep
  <2>2. Listing(NamesOf(F, g, step))
    BY <2>1, EmptyList DEF NamesOf
  <2> QED
    BY <2>1, <2>2, EmptyList
<1>3. grid # step.id
  BY DEF Composed
<1> HIDE DEF names, aligned, type, G
<1>4. /\ Sound(H) /\ Grown(F, H) /\ H.fused = F.fused /\ H.error = F.error
      /\ step.id \notin NodeIds(H)
      /\ \A m \in ToSet(H.graph) \ ToSet(F.graph) : m.id = grid /\ m.op # "nearby_places"
  <2>1. CASE bare
    <3>1. H = TourMatrix(F, step, ins) /\ ins # <<>> /\ grid \notin NodeIds(F)
      BY <2>1
    <3> HIDE DEF H, grid
    <3>2. /\ Sound(H) /\ Grown(F, H) /\ NodeIds(H) = NodeIds(F) \cup {grid}
          /\ H.fused = F.fused /\ H.error = F.error
          /\ \A m \in ToSet(H.graph) \ ToSet(F.graph) : m.id = grid /\ m.op # "nearby_places"
      BY <3>1, TourMatrixIs DEF grid
    <3> QED
      BY <1>3, <3>2
  <2>2. CASE ~bare
    <3>1. H = F
      BY <2>2
    <3> HIDE DEF H, bare, grid
    <3> QED
      BY <3>1 DEF Grown
  <2> QED
    BY <2>1, <2>2
<1>5. /\ Listing(deps) /\ ToSet(deps) \subseteq NodeIds(H) /\ ToSet(ins) \subseteq ToSet(deps)
      /\ AreArguments(given, NodeIds(H))
      /\ op = "tsp_tw" => Fits(H, given)
  <2>1. NodeIds(F) \subseteq NodeIds(H)
    BY <1>4, GrownIds
  <2>2. AreArguments(args, NodeIds(H))
    <3>1. \A refs : AreRefs(refs, NodeIds(F)) => AreRefs(refs, NodeIds(H))
      BY <2>1 DEF AreRefs, IsRef
    <3> QED
      BY <3>1 DEF AreArguments
  <2>3. CASE bare
    <3> DEFINE more == Append(ins, grid)
               whole == <<<<grid>>>>
               with == Extended(args, "distance_matrix", whole)
    <3>1. H = TourMatrix(F, step, ins) /\ ins # <<>> /\ grid \notin NodeIds(F)
          /\ deps = more /\ given = with
      BY <2>3
    <3> HIDE DEF H, deps, given
    <3>2. /\ NodeIds(H) = NodeIds(F) \cup {grid}
          /\ NodeOf(H, grid).op = "distance_matrix" /\ ~(Len(NodeOf(H, grid).deps) >= 2)
      BY <3>1, TourMatrixIs
    <3> HIDE DEF grid
    <3>3. Listing(more) /\ ToSet(more) = ToSet(ins) \cup {grid}
      BY ListWithOneMore
    <3>4. AreRefs(whole, NodeIds(H))
      <4>1. 0 \in Nat /\ grid \in NodeIds(H)
        BY <3>2
      <4> QED
        BY <4>1, RefTo, OneRef
    <3>5. with.distance_matrix = whole /\ whole[1][1] = grid
      BY DEF Extended
    <3> HIDE DEF whole, more
    <3>6. AreArguments(with, NodeIds(H))
      BY <2>2, <3>4 DEF AreArguments, Extended
    <3> HIDE DEF with
    <3>7. Fits(H, with)
      BY <3>2, <3>5 DEF Fits
    <3> QED
      BY <2>1, <3>1, <3>2, <3>3, <3>6, <3>7
  <2>4. CASE ~bare
    <3>1. H = F /\ deps = ins /\ given = args
      BY <2>4
    <3> HIDE DEF H, deps, given, bare, grid
    <3> QED
      BY <2>2, <3>1
  <2> QED
    BY <2>3, <2>4
<1>6. op # "tsp_tw" => deps = ins /\ given = args /\ H = F
  OBVIOUS
<1>7. n.id = step.id /\ n.op = op /\ n.args = given /\ n.deps = deps
  OBVIOUS
<1>8. IsNode(n, NodeIds(H))
  <2>1. n = [id |-> n.id, op |-> n.op, args |-> n.args, names |-> n.names, deps |-> n.deps,
             type |-> n.type, role |-> n.role] /\ n.names = names
    OBVIOUS
  <2> HIDE DEF n, H, deps, given
  <2> QED
    BY <1>2, <1>4, <1>5, <1>7, <2>1 DEF IsNode
<1> HIDE DEF n, H, deps, given, grid, bare
<1>9. /\ Sound(G) /\ ToSet(G.graph) = ToSet(H.graph) \cup {n}
      /\ G.fused = H.fused /\ G.error = H.error
  <2>1. n.op = "tsp_tw" => Fits(H, n.args)
    BY <1>5, <1>7
  <2>2. CASE op = "batch_geocode" /\ Len(aligned) = Len(names)
    <3>1. G = [Emitted(H, n) EXCEPT !.bound = Extended(@, n.id, aligned)]
      BY <1>1, <1>7, <2>2
    <3> QED
      BY <1>2, <1>4, <1>7, <1>8, <2>2, <3>1, PlacingBound
  <2>3. CASE op = "distance_matrix" /\ Len(ins) >= 2
    <3>1. G = WithStops(Emitted(H, n), n.id, n.args.origins)
      BY <1>1, <1>6, <1>7, <2>3
    <3>2. ins # <<>>
      BY <2>3
    <3>3. n.op = "distance_matrix" /\ "origins" \in DOMAIN n.args /\ n.args.origins # <<>>
      BY <1>6, <1>7, <2>3, <3>2
    <3> QED
      BY <1>4, <1>8, <3>1, <3>3, PlacingStops
  <2>4. CASE op = "distance_matrix" /\ Len(ins) = 1
    <3>1. G = Squared(Emitted(H, n), n.id)
      BY <1>1, <1>7, <2>4
    <3>2. ~(Len(n.deps) >= 2)
      <4>1. op # "tsp_tw" /\ Len(ins) = 1
        BY <2>4
      <4>2. n.deps = ins
        BY <1>6, <1>7, <4>1, Zenon
      <4>3. Len(n.deps) = 1
        BY <4>1, <4>2, Zenon
      <4> QED
        BY <4>3
    <3> QED
      BY <1>4, <1>8, <2>1, <3>1, <3>2, PlacingSquared
  <2>5. CASE /\ ~(op = "batch_geocode" /\ Len(aligned) = Len(names))
             /\ ~(op = "distance_matrix" /\ Len(ins) >= 2)
             /\ ~(op = "distance_matrix" /\ Len(ins) = 1)
    <3>1. G = Emitted(H, n)
      BY <1>1, <2>5
    <3>2. n.op = "distance_matrix" => ~(Len(n.deps) >= 2)
      BY <1>6, <1>7, <2>5
    <3> QED
      BY <1>4, <1>8, <2>1, <3>1, <3>2, Placing
  <2> QED
    BY <2>2, <2>3, <2>4, <2>5
<1>10. \A x \in ToSet(ins) : Needs(G, step.id, x)
  BY <1>5, <1>7, <1>9, NeedsDep
<1>11. step.id \in NodeIds(G)
  BY <1>7, <1>9 DEF NodeIds
<1>12. \A m \in ToSet(G.graph) \ ToSet(F.graph) :
         m.id = step.id \/ (m.id = Composed(step.id, "matrix") /\ m.op # "nearby_places")
  BY <1>4, <1>7, <1>9 DEF grid
<1>13. Grown(F, G) /\ G.fused = F.fused /\ G.error = F.error
  BY <1>4, <1>9 DEF Grown
<1>14. Joined(F, step, ins, G)
  BY <1>9, <1>10, <1>11, <1>12, <1>13 DEF Joined
<1> QED
  BY <1>14 DEF G

\* What a turn of the loop does: the step is fused into a node of the plan, refused, or placed.
Obstacles == {"index_error", "no_center", "unread_input"}
Stepped(F, step, ins, G) ==
  /\ Sound(G) /\ Grown(F, G) /\ G.error \in {F.error} \cup Obstacles
  /\ \A n \in ToSet(G.graph) \ ToSet(F.graph) :
       n.id = step.id \/ (n.id = Composed(step.id, "matrix") /\ n.op # "nearby_places")
  /\ G.error = "none" =>
       /\ DOMAIN G.fused \subseteq DOMAIN F.fused \cup {step.id}
       /\ \A name : name # step.id => Followed(G, name) = Followed(F, name)
       /\ Followed(G, step.id) \in NodeIds(G)
       /\ \A x \in ToSet(ins) : Needs(G, Followed(G, step.id), x)

LEMMA StepPlacedIs ==
  ASSUME NEW F, Sound(F), NEW g, Listing(g.pool), NEW step, IsStep(step),
         step.id = <<step.id[1], step.id[2]>>, step.id \notin NodeIds(F), step.id \notin DOMAIN F.fused,
         NEW w, IsWiring(w, NodeIds(F)), NEW op, NEW checked,
         op = "tsp_tw" => Composed(step.id, "matrix") \notin NodeIds(F)
  PROVE  Stepped(F, step, w.ins, StepPlaced(F, g, step, w, op, Wired(F, op, w), checked))
<1> DEFINE args == Wired(F, op, w)
           G == StepPlaced(F, g, step, w, op, args, checked)
           fused == Extended(F.fused, step.id, w.ins[1])
           Fused == [F EXCEPT !.fused = fused]
           NP == NodePlaced(F, g, step, op, args, w.ins)
           far == op = "within_radius" /\ Len(w.ins) = 1 /\ Centers(F, w.ins) = <<>>
<1>1. \/ Len(w.ins) = 1 /\ G = Fused
      \/ \E why \in {"index_error", "no_center", "unread_input"} : G = Failed(F, why)
      \/ ~far /\ G = NP
  BY DEF StepPlaced
<1>2. Listing(w.ins) /\ ToSet(w.ins) \subseteq NodeIds(F)
  BY DEF IsWiring
<1>3. CASE Len(w.ins) = 1 /\ G = Fused
  <2>1. Sound(Fused) /\ Fused.graph = F.graph /\ Fused.fused = fused /\ Fused.error = F.error
    <3> HIDE DEF fused
    <3> QED
      BY OtherFields
  <2> HIDE DEF Fused, NP, args
  <2>2. Sound(G) /\ G.graph = F.graph /\ G.fused = fused /\ G.error = F.error
    BY <1>3, <2>1
  <2> HIDE DEF G
  <2>3. 1 \in 1 .. Len(w.ins) /\ Len(w.ins) = 1
    BY <1>3
  <2>4. w.ins[1] \in NodeIds(F) /\ NodeIds(G) = NodeIds(F) /\ Grown(F, G)
        /\ ToSet(G.graph) = ToSet(F.graph)
    BY <1>2, <2>2, <2>3, ItemIs DEF NodeIds, Grown
  <2>5. ToSet(w.ins) = {w.ins[1]}
    <3>1. DOMAIN w.ins = {1}
      BY <1>2, <2>3, HeadOfList
    <3> QED
      BY <3>1 DEF ToSet
  <2>6. /\ DOMAIN G.fused = DOMAIN F.fused \cup {step.id}
        /\ \A name : name # step.id => Followed(G, name) = Followed(F, name)
        /\ Followed(G, step.id) = w.ins[1]
    BY <2>2 DEF Extended, Followed
  <2>7. \A x \in ToSet(w.ins) : Needs(G, Followed(G, step.id), x)
    BY <2>5, <2>6, NeedsItself
  <2>8. Stepped(F, step, w.ins, G)
    BY <2>2, <2>4, <2>6, <2>7 DEF Stepped
  <2> QED
    BY <2>8 DEF G, args
<1>4. CASE \E why \in {"index_error", "no_center", "unread_input"} : G = Failed(F, why)
  <2>1. PICK why \in {"index_error", "no_center", "unread_input"} : G = Failed(F, why)
    BY <1>4
  <2> HIDE DEF G
  <2>2. G = [F EXCEPT !.error = why] /\ why # "none"
    BY <2>1 DEF Failed
  <2>3. Sound(G) /\ G.graph = F.graph /\ G.error = why
    <3>1. Sound(Failed(F, why)) /\ Failed(F, why).graph = F.graph /\ Failed(F, why).error = why
      BY FailedIs
    <3> QED
      BY <2>1, <3>1
  <2>4. Stepped(F, step, w.ins, G)
    BY <2>1, <2>2, <2>3 DEF Stepped, Grown, Obstacles
  <2> QED
    BY <2>4 DEF G
<1>5. CASE ~far /\ G = NP
  <2>1. /\ AreArguments(args, NodeIds(F))
        /\ op = "tsp_tw" => Fits(F, args)
        /\ op = "distance_matrix" /\ w.ins # <<>> => "origins" \in DOMAIN args /\ args.origins # <<>>
    BY <1>5, WiredAre DEF Sound
  <2> HIDE DEF args
  <2>2. Joined(F, step, w.ins, NP)
    BY <1>2, <2>1, NodePlacedIs
  <2> HIDE DEF NP
  <2>3. Joined(F, step, w.ins, G)
    BY <1>5, <2>2
  <2> HIDE DEF G
  <2>4. step.id \notin DOMAIN G.fused /\ G.fused = F.fused
    BY <2>3 DEF Joined
  <2>5. Followed(G, step.id) = step.id /\ \A name : Followed(G, name) = Followed(F, name)
    BY <2>4 DEF Followed
  <2>6. Stepped(F, step, w.ins, G)
    BY <2>3, <2>4, <2>5 DEF Joined, Stepped
  <2> QED
    BY <2>6 DEF G, args
<1> QED
  BY <1>1, <1>3, <1>4, <1>5

LEMMA LegsAreSelected ==
  ASSUME NEW r
  PROVE  OperatorFor("SELECT_LEGS", r) = "select_legs"
<1> DEFINE all == Candidates("SELECT_LEGS", r)
           accepting == Kept(all, LAMBDA c : c[2])
           one == <<"select_legs", TRUE>>
<1>1. all = <<one>>
  BY DEF Candidates
<1>2. OperatorFor("SELECT_LEGS", r) = IF accepting = <<>> THEN all[1][1] ELSE accepting[1][1]
  BY DEF OperatorFor
<1>3. Listing(all) /\ ToSet(all) = {one}
  <2> HIDE DEF all, one
  <2> QED
    BY <1>1, ListOfOne
<1>4. Listing(accepting) /\ ToSet(accepting) \subseteq {one}
  BY <1>3, KeptOf DEF Kept
<1> HIDE DEF accepting, all
<1> HIDE DEF one
<1>5. accepting # <<>> => accepting[1] = one
  BY <1>4, HeadOfList
<1>6. all[1] = one
  BY <1>1
<1>7. OperatorFor("SELECT_LEGS", r) = one[1]
  BY <1>2, <1>5, <1>6
<1> QED
  BY <1>7 DEF one

\* A transformation that is factorized leaves a sound plan, in which it needs what made its inputs.
LEMMA WithStepIs ==
  ASSUME NEW F, Sound(F), F.error = "none", NEW g, IsGraph(g), NEW e, IsEdge(e),
         e.id \notin NodeIds(F), e.id \notin DOMAIN F.fused,
         \A what : Composed(e.id, what) \notin NodeIds(F), NEW stated, NEW checked
  PROVE  LET G == WithStep(F, g, e, stated, checked) IN
         /\ Sound(G) /\ Grown(F, G) /\ G.error \in {"none"} \cup Obstacles
         /\ \A n \in ToSet(G.graph) \ ToSet(F.graph) :
              n.id = e.id \/ (n.op # "nearby_places" /\ \E what : n.id = Composed(e.id, what))
         /\ G.error = "none" =>
              /\ DOMAIN G.fused \subseteq DOMAIN F.fused \cup {e.id}
              /\ \A name : name # e.id => Followed(G, name) = Followed(F, name)
              /\ Followed(G, e.id) \in NodeIds(G)
              /\ \A p \in ToSet(g.edges) :
                   p.id # e.id /\ ToSet(p.outs) \cap ToSet(e.ins) # {} /\ Followed(F, p.id) \in NodeIds(F)
                   => Needs(G, Followed(G, e.id), Followed(F, p.id))
<1> DEFINE step == Lowered(g, e)
           w == WiringOf(F, step)
           i == Implied(F, step, w)
           op == OperatorFor(step.t, Request(i.F, step, i.w, stated))
           G == WithStep(F, g, e, stated, checked)
<1>1. /\ IsStep(step) /\ step.id = e.id
      /\ \A p \in ToSet(g.edges) :
           p.id # e.id /\ ToSet(p.outs) \cap ToSet(e.ins) # {} => p.id \in ToSet(step.ins)
  BY LoweredIs DEF IsGraph
<1>2. G = StepPlaced(i.F, g, step, i.w, op, Wired(i.F, op, i.w), checked)
  BY DEF WithStep
<1>3. step.id = <<step.id[1], step.id[2]>> /\ \A what : Composed(step.id, what) = Composed(e.id, what)
  BY <1>1 DEF IsEdge
<1> HIDE DEF step
<1>4. /\ IsWiring(w, NodeIds(F))
      /\ \A name \in ToSet(step.ins) : Followed(F, name) \in NodeIds(F) => Followed(F, name) \in ToSet(w.ins)
  BY <1>1, WiringIs DEF Sound
<1> HIDE DEF w
<1>5. Composes(F, w, ImpliedIds(step), i)
  BY <1>3, <1>4, ImpliedComposes
<1> HIDE DEF i
<1>6. /\ Sound(i.F) /\ Grown(F, i.F) /\ IsWiring(i.w, NodeIds(i.F)) /\ i.F.fused = F.fused
      /\ \A n \in ToSet(i.F.graph) \ ToSet(F.graph) : n.id \in ImpliedIds(step) /\ n.op # "nearby_places"
      /\ \A x \in ToSet(w.ins) : Reached(i.F, i.w.ins, x)
  BY <1>5 DEF Composes
<1>7. step.id \notin NodeIds(i.F)
  <2>1. step.id \notin ImpliedIds(step)
    BY <1>3 DEF ImpliedIds, MatrixIds, Composed
  <2> QED
    BY <1>1, <1>5, <2>1, ComposedIds
<1>8. op = "tsp_tw" => Composed(step.id, "matrix") \notin NodeIds(i.F)
  <2>1. ASSUME Composed(step.id, "matrix") \in NodeIds(i.F) PROVE step.t = "SELECT_LEGS"
    <3>1. Composed(step.id, "matrix") \in ImpliedIds(step)
      BY <1>3, <1>5, <2>1, ComposedIds
    <3>2. Composed(step.id, "matrix") # Composed(step.id, "route")
          /\ Composed(step.id, "matrix") # Composed(step.id, "legs")
      BY DEF Composed
    <3>3. Composed(step.id, "matrix") \in MatrixIds(step)
      BY <3>1, <3>2 DEF ImpliedIds
    <3> QED
      BY <3>3 DEF MatrixIds
  <2>2. step.t = "SELECT_LEGS" => op = "select_legs"
    BY LegsAreSelected
  <2> HIDE DEF op
  <2> QED
    BY <2>1, <2>2
<1> HIDE DEF op
<1>9. Stepped(i.F, step, i.w.ins, G)
  <2>1. Listing(g.pool) /\ step.id \notin DOMAIN i.F.fused
    BY <1>1, <1>6 DEF IsGraph
  <2>2. Stepped(i.F, step, i.w.ins, StepPlaced(i.F, g, step, i.w, op, Wired(i.F, op, i.w), checked))
    BY <1>1, <1>3, <1>6, <1>7, <1>8, <2>1, StepPlacedIs
  <2> HIDE DEF G
  <2> QED
    BY <1>2, <2>2
<1> HIDE DEF G
<1>10. Sound(G) /\ Grown(F, G) /\ G.error \in {"none"} \cup Obstacles
  <2>1. i.F.error = "none"
    BY <1>5 DEF Composes
  <2> QED
    BY <1>6, <1>9, <2>1 DEF Stepped, Grown
<1>11. ASSUME NEW n \in ToSet(G.graph) \ ToSet(F.graph)
       PROVE  n.id = e.id \/ (n.op # "nearby_places" /\ \E what : n.id = Composed(e.id, what))
  <2>1. CASE n \in ToSet(i.F.graph)
    BY <1>3, <1>6, <2>1 DEF ImpliedIds, MatrixIds
  <2>2. CASE n \notin ToSet(i.F.graph)
    BY <1>1, <1>3, <1>9, <2>2 DEF Stepped
  <2> QED
    BY <2>1, <2>2
<1>12. ASSUME G.error = "none"
       PROVE  /\ DOMAIN G.fused \subseteq DOMAIN F.fused \cup {e.id}
              /\ \A name : name # e.id => Followed(G, name) = Followed(F, name)
              /\ Followed(G, e.id) \in NodeIds(G)
              /\ \A x \in ToSet(i.w.ins) : Needs(G, Followed(G, e.id), x)
  <2>1. \A name : Followed(i.F, name) = Followed(F, name)
    BY <1>6 DEF Followed
  <2> QED
    BY <1>1, <1>6, <1>9, <1>12, <2>1 DEF Stepped
<1>13. ASSUME G.error = "none", NEW p \in ToSet(g.edges), p.id # e.id,
              ToSet(p.outs) \cap ToSet(e.ins) # {}, Followed(F, p.id) \in NodeIds(F)
       PROVE  Needs(G, Followed(G, e.id), Followed(F, p.id))
  <2>1. Followed(F, p.id) \in ToSet(w.ins)
    BY <1>1, <1>4, <1>13
  <2>2. PICK y \in ToSet(i.w.ins) : Needs(i.F, y, Followed(F, p.id))
    BY <1>6, <2>1 DEF Reached
  <2>3. y \in NodeIds(i.F) /\ ToSet(i.F.graph) \subseteq ToSet(G.graph) /\ IsPlan(i.F)
    BY <1>6, <1>9 DEF IsWiring, Stepped, Grown, Sound
  <2>4. Needs(G, y, Followed(F, p.id))
    BY <2>2, <2>3, NeedsGrow
  <2>5. Needs(G, Followed(G, e.id), y)
    BY <1>12, <1>13
  <2> QED
    BY <2>4, <2>5, NeedsThrough
<1> QED
  BY <1>10, <1>11, <1>12, <1>13 DEF G

-----------------------------------------------------------------------------
\* What the planner keeps, from the draft to the plan bound to the question.

Lasts == {"factorizing", "planned", "grounded", "bound"}
IdAt(i) == graph.edges[i].id
Owned(n, id) == n.id = id \/ (n.op # "nearby_places" /\ \E what : n.id = Composed(id, what))

ShapeInv ==
  /\ Listing(draft.pool) /\ AreEdges(draft.edges) /\ IsGraph(graph)
  /\ facts.kinds \in Nat
  /\ \A s, p \in facts.short : s[2] = p[1] => <<s[1], p[2]>> \in facts.short
  /\ at \in 0 .. Len(graph.edges)
  /\ stage \in {"settled"} \cup Lasts => NamedApart(graph)

\* Every node is named after a transformation whose turn has been.
PlanInv ==
  /\ Sound(plan)
  /\ \A n \in ToSet(plan.graph) : \E i \in 1 .. at : Owned(n, IdAt(i))
  /\ stage \in {"drafted", "completed", "settled"} => plan = NoPlan /\ at = 0
  /\ stage \in Lasts \ {"factorizing"} => at = Len(graph.edges)

\* While nothing was refused, what an earlier transformation made is there for the later ones.
FollowedInv ==
  /\ plan.error = "none"
  /\ \A id \in DOMAIN plan.fused : \E i \in 1 .. at : id = IdAt(i)
  /\ \A i \in 1 .. at : Followed(plan, IdAt(i)) \in NodeIds(plan)
  /\ \A j \in 1 .. at : \A i \in 1 .. j - 1 :
       ToSet(graph.edges[i].outs) \cap ToSet(graph.edges[j].ins) # {} =>
         Needs(plan, Followed(plan, IdAt(j)), Followed(plan, IdAt(i)))

GroundedInv ==
  /\ stage \in {"grounded", "bound"} => grounded = GroundedGraph(plan, facts)
  /\ stage \notin {"grounded", "bound"} => grounded = <<>>

IInv == ShapeInv /\ PlanInv /\ (stage \in Lasts => FollowedInv) /\ GroundedInv

LEMMA NoPlanIsSound == Sound(NoPlan)
<1>1. ToSet(NoPlan.graph) = {} /\ NodeIds(NoPlan) = {} /\ Listing(NoPlan.graph)
      /\ DOMAIN NoPlan.graph = {} /\ DOMAIN NoPlan.bound = {} /\ DOMAIN NoPlan.stops = {}
  BY EmptyList DEF NoPlan, NodeIds
<1>2. IsPlan(NoPlan)
  <2>1. NoPlan = [graph |-> NoPlan.graph, fused |-> NoPlan.fused, bound |-> NoPlan.bound,
                  stops |-> NoPlan.stops, square |-> NoPlan.square, error |-> NoPlan.error]
    BY DEF NoPlan
  <2> QED
    BY <1>1, <2>1 DEF IsPlan
<1>3. MatricesKnown(NoPlan) /\ ToursFit(NoPlan)
  BY <1>1 DEF MatricesKnown, ToursFit
<1> QED
  BY <1>2, <1>3 DEF Sound

LEMMA VerdictIs ==
  ASSUME NEW g
  PROVE  Verdict(g) \in Refusals \cup {"accepted"}
<1>1. \A e : EdgeVerdict(g, e) \in Refusals \cup {"accepted"}
  BY DEF EdgeVerdict, Refusals
<1> QED
  BY <1>1 DEF Verdict, Refusals

\* What the planner starts with.
LEMMA InitIsSound == Init => IInv
<1> SUFFICES ASSUME Init PROVE IInv
  OBVIOUS
<1>1. PICK q \in Questions : draft = q.draft /\ facts = q.facts
  BY DEF Init
<1>2. /\ Listing(draft.pool) /\ AreEdges(draft.edges) /\ facts.kinds \in Nat
      /\ \A s, p \in facts.short : s[2] = p[1] => <<s[1], p[2]>> \in facts.short
  BY <1>1, QuestionsAssumption
<1>3. IsGraph(graph) /\ Len(graph.edges) \in Nat
  BY <1>2, EdgesThatAre DEF Init, GraphOf, IsGraph
<1>4. ShapeInv
  BY <1>2, <1>3 DEF Init, ShapeInv, Lasts
<1>5. PlanInv
  <2>1. Sound(plan) /\ ToSet(plan.graph) = {}
    BY NoPlanIsSound, EmptyList DEF Init, NoPlan
  <2> QED
    BY <2>1 DEF Init, PlanInv, Lasts
<1> QED
  BY <1>4, <1>5 DEF Init, IInv, GroundedInv, Lasts

\* The edges of a graph, by place and as a set.
LEMMA EdgesGiven ==
  ASSUME IsGraph(graph)
  PROVE  /\ Len(graph.edges) \in Nat /\ DOMAIN graph.edges = 1 .. Len(graph.edges)
         /\ \A i \in 1 .. Len(graph.edges) : IsEdge(graph.edges[i]) /\ graph.edges[i] \in ToSet(graph.edges)
<1>1. AreEdges(graph.edges)
  BY DEF IsGraph
<1>2. Len(graph.edges) \in Nat /\ DOMAIN graph.edges = 1 .. Len(graph.edges)
  BY <1>1, EdgesThatAre
<1> QED
  BY <1>1, <1>2 DEF AreEdges, ToSet

\* The names of a transformation's nodes are free when its turn comes.
LEMMA FreshNames ==
  ASSUME IInv, stage = "factorizing", at < Len(graph.edges)
  PROVE  /\ IdAt(at + 1) \notin NodeIds(plan) /\ IdAt(at + 1) \notin DOMAIN plan.fused
         /\ \A what : Composed(IdAt(at + 1), what) \notin NodeIds(plan)
<1>1. /\ IsGraph(graph) /\ NamedApart(graph) /\ at \in 0 .. Len(graph.edges)
      /\ \A n \in ToSet(plan.graph) : \E i \in 1 .. at : Owned(n, IdAt(i))
      /\ \A id \in DOMAIN plan.fused : \E i \in 1 .. at : id = IdAt(i)
  BY DEF IInv, ShapeInv, PlanInv, FollowedInv, Lasts
<1>2. /\ Len(graph.edges) \in Nat /\ DOMAIN graph.edges = 1 .. Len(graph.edges)
      /\ \A i \in 1 .. Len(graph.edges) : IsEdge(graph.edges[i])
  BY <1>1, EdgesGiven
<1>3. at + 1 \in 1 .. Len(graph.edges) /\ \A i \in 1 .. at : i \in 1 .. Len(graph.edges) /\ i # at + 1
  BY <1>1, <1>2
<1>4. \A i \in 1 .. Len(graph.edges) : IdAt(i) = <<IdAt(i)[1], IdAt(i)[2]>>
  BY <1>2 DEF IsEdge, IdAt
<1>5. \A i \in 1 .. at : IdAt(i) # IdAt(at + 1)
  BY <1>1, <1>2, <1>3 DEF NamedApart, IdAt
<1>6. ASSUME NEW n \in ToSet(plan.graph)
      PROVE  n.id # IdAt(at + 1) /\ \A what : n.id # Composed(IdAt(at + 1), what)
  <2>1. PICK i \in 1 .. at : Owned(n, IdAt(i))
    BY <1>1
  <2> DEFINE a == IdAt(i)
             b == IdAt(at + 1)
  <2>2. a = <<a[1], a[2]>> /\ b = <<b[1], b[2]>> /\ a # b
    BY <1>3, <1>4, <1>5
  <2> HIDE DEF a, b
  <2>3. \A what, other : Composed(a, what) # b /\ Composed(b, what) # a /\ Composed(a, other) # Composed(b, what)
    BY <2>2 DEF Composed
  <2>4. n.id = a \/ \E what : n.id = Composed(a, what)
    BY <2>1 DEF Owned, a
  <2>5. n.id # b /\ \A what : n.id # Composed(b, what)
    BY <2>2, <2>3, <2>4
  <2> QED
    BY <2>5 DEF b
<1> QED
  BY <1>1, <1>5, <1>6 DEF NodeIds

\* A graph that is completed keeps its shape.
LEMMA CompleteKeeps ==
  ASSUME IInv, Complete
  PROVE  IInv'
<1>1. /\ Listing(draft.pool) /\ AreEdges(draft.edges) /\ IsGraph(graph)
      /\ plan = NoPlan /\ at = 0 /\ grounded = <<>> /\ stage = "drafted"
  BY DEF IInv, ShapeInv, PlanInv, GroundedInv, Complete
<1>2. IsGraph(graph')
  <2>1. CASE HasEdges(draft)
    <3>1. PICK g : IsGraph(g) /\ graph' = Grounded(g, facts.stated, facts.stop)
      BY <1>1, <2>1, CompletedShape DEF Complete
    <3> QED
      BY <3>1, GroundedShape
  <2>2. CASE ~HasEdges(draft)
    BY <1>1, <2>2 DEF Complete
  <2> QED
    BY <2>1, <2>2
<1>3. stage' \in {"duplicate", "too_long", "completed", "empty"}
  BY DEF Complete
<1>4. Len(graph.edges) \in Nat /\ Len(graph'.edges) \in Nat
  BY <1>1, <1>2, EdgesThatAre DEF IsGraph
<1>5. UNCHANGED <<draft, facts, plan, at, grounded>>
  BY DEF Complete
<1>6. ShapeInv'
  BY <1>1, <1>2, <1>3, <1>4, <1>5 DEF IInv, ShapeInv, Lasts
<1>7. ToSet(plan.graph) = {} /\ Sound(plan)
  BY <1>1, NoPlanIsSound, EmptyList DEF NoPlan
<1>8. PlanInv'
  BY <1>1, <1>3, <1>5, <1>7 DEF PlanInv, Lasts
<1> QED
  BY <1>1, <1>3, <1>5, <1>6, <1>8 DEF IInv, GroundedInv, Lasts

\* The second completion keeps the invariant,
LEMMA SettleKeeps ==
  ASSUME IInv, Settle
  PROVE  IInv'
<1>1. /\ IsGraph(graph) /\ plan = NoPlan /\ at = 0 /\ grounded = <<>> /\ stage = "completed"
  BY DEF IInv, ShapeInv, PlanInv, GroundedInv, Settle
<1>2. IsGraph(graph') /\ (stage' = "settled" => NamedApart(graph'))
  BY <1>1, CompletedShape DEF Settle, IsGraph
<1>3. stage' \in {"settled", "duplicate"} /\ UNCHANGED <<draft, facts, plan, at, grounded>>
  BY DEF Settle
<1>4. Len(graph'.edges) \in Nat
  BY <1>2, EdgesThatAre DEF IsGraph
<1>5. ShapeInv'
  BY <1>1, <1>2, <1>3, <1>4 DEF IInv, ShapeInv, Lasts
<1>6. ToSet(plan.graph) = {} /\ Sound(plan)
  BY <1>1, NoPlanIsSound, EmptyList DEF NoPlan
<1>7. PlanInv'
  BY <1>1, <1>3, <1>6 DEF PlanInv, Lasts
<1> QED
  BY <1>1, <1>3, <1>5, <1>7 DEF IInv, GroundedInv, Lasts

\* and so does the verdict,
LEMMA ValidateKeeps ==
  ASSUME IInv, Validate
  PROVE  IInv'
<1>1. stage = "settled" /\ plan = NoPlan /\ at = 0 /\ grounded = <<>>
  BY DEF IInv, PlanInv, GroundedInv, Validate
<1>2. stage' \in Refusals \cup {"factorizing"}
  BY VerdictIs DEF Validate
<1>3. UNCHANGED <<draft, facts, graph, plan, at, grounded>>
  BY DEF Validate
<1>4. ShapeInv'
  BY <1>1, <1>2, <1>3 DEF IInv, ShapeInv, Lasts, Refusals
<1>5. PlanInv'
  BY <1>1, <1>2, <1>3 DEF IInv, PlanInv, Lasts, Refusals, Owned, IdAt
<1>6. FollowedInv'
  BY <1>1, <1>3 DEF FollowedInv, NoPlan
<1> QED
  BY <1>1, <1>2, <1>3, <1>4, <1>5, <1>6 DEF IInv, GroundedInv, Lasts, Refusals

\* the turn of one transformation,
LEMMA FactorizeKeeps ==
  ASSUME IInv, Factorize
  PROVE  IInv'
<1> DEFINE e == graph.edges[at + 1]
           G == WithStep(plan, graph, e, StatedTypes, strict)
<1>1. /\ stage = "factorizing" /\ at < Len(graph.edges) /\ at' = at + 1 /\ plan' = G
      /\ UNCHANGED <<draft, facts, graph, grounded>>
      /\ stage' = IF plan'.error = "none" THEN stage ELSE plan'.error
  BY DEF Factorize
<1>2. /\ IsGraph(graph) /\ at \in 0 .. Len(graph.edges) /\ Sound(plan) /\ plan.error = "none"
      /\ \A n \in ToSet(plan.graph) : \E i \in 1 .. at : Owned(n, IdAt(i))
      /\ FollowedInv
  BY <1>1 DEF IInv, ShapeInv, PlanInv, FollowedInv, Lasts
<1>3. /\ Len(graph.edges) \in Nat
      /\ \A i \in 1 .. Len(graph.edges) : IsEdge(graph.edges[i]) /\ graph.edges[i] \in ToSet(graph.edges)
  BY <1>2, EdgesGiven
<1>4. at + 1 \in 1 .. Len(graph.edges) /\ 1 .. at + 1 = 1 .. at \cup {at + 1}
      /\ \A i \in 1 .. at : i \in 1 .. Len(graph.edges)
  BY <1>1, <1>2, <1>3
<1>5. /\ e.id \notin NodeIds(plan) /\ e.id \notin DOMAIN plan.fused
      /\ \A what : Composed(e.id, what) \notin NodeIds(plan)
  BY <1>1, FreshNames DEF IdAt
<1>6. /\ Sound(G) /\ Grown(plan, G) /\ G.error \in {"none"} \cup Obstacles
      /\ \A n \in ToSet(G.graph) \ ToSet(plan.graph) :
           n.id = e.id \/ (n.op # "nearby_places" /\ \E what : n.id = Composed(e.id, what))
      /\ G.error = "none" =>
           /\ DOMAIN G.fused \subseteq DOMAIN plan.fused \cup {e.id}
           /\ \A name : name # e.id => Followed(G, name) = Followed(plan, name)
           /\ Followed(G, e.id) \in NodeIds(G)
           /\ \A p \in ToSet(graph.edges) :
                p.id # e.id /\ ToSet(p.outs) \cap ToSet(e.ins) # {} /\ Followed(plan, p.id) \in NodeIds(plan)
                => Needs(G, Followed(G, e.id), Followed(plan, p.id))
  <2> HIDE DEF e
  <2>1. IsEdge(e)
    BY <1>3, <1>4 DEF e
  <2> QED
    BY <1>2, <1>5, <2>1, WithStepIs
<1> HIDE DEF G
<1>7. \A n \in ToSet(G.graph) : \E i \in 1 .. at + 1 : Owned(n, IdAt(i))
  BY <1>2, <1>4, <1>6 DEF Owned, IdAt
<1>8. stage' \in {"factorizing"} \cup Obstacles
  BY <1>1, <1>6
<1>9. ShapeInv'
  BY <1>1, <1>3, <1>4, <1>8 DEF IInv, ShapeInv, Lasts, Obstacles
<1>10. PlanInv'
  BY <1>1, <1>6, <1>7, <1>8 DEF PlanInv, Lasts, Obstacles, Owned, IdAt
<1>11. ASSUME G.error = "none" PROVE FollowedInv'
  <2>1. NodeIds(plan) \subseteq NodeIds(G)
    BY <1>6, GrownIds
  <2>2. IdAt(at + 1) = e.id
    BY DEF IdAt
  <2>3. \A i \in 1 .. at : IdAt(i) # e.id
    BY <1>2, <1>5, <1>1, <1>4 DEF IInv, ShapeInv, NamedApart, Lasts, IdAt
  <2>4. \A i \in 1 .. at : Followed(G, IdAt(i)) = Followed(plan, IdAt(i))
                           /\ Followed(plan, IdAt(i)) \in NodeIds(plan)
    BY <1>2, <1>6, <1>11, <2>3 DEF FollowedInv
  <2>5. \A i \in 1 .. at + 1 : Followed(G, IdAt(i)) \in NodeIds(G)
    BY <1>4, <1>6, <1>11, <2>1, <2>2, <2>4
  <2>6. \A id \in DOMAIN G.fused : \E i \in 1 .. at + 1 : id = IdAt(i)
    BY <1>2, <1>4, <1>6, <1>11, <2>2 DEF FollowedInv
  <2>7. ASSUME NEW j \in 1 .. at + 1, NEW i \in 1 .. j - 1,
               ToSet(graph.edges[i].outs) \cap ToSet(graph.edges[j].ins) # {}
        PROVE  Needs(G, Followed(G, IdAt(j)), Followed(G, IdAt(i)))
    <3>1. CASE j \in 1 .. at
      <4>1. i \in 1 .. at
        BY <1>2, <1>3, <3>1
      <4>2. Needs(plan, Followed(plan, IdAt(j)), Followed(plan, IdAt(i)))
        BY <1>2, <2>7, <3>1 DEF FollowedInv
      <4> QED
        BY <1>2, <1>6, <2>4, <3>1, <4>1, <4>2, NeedsGrow DEF Sound, Grown
    <3>2. CASE j = at + 1
      <4>1. i \in 1 .. at
        BY <1>2, <1>3, <3>2
      <4>2. graph.edges[i] \in ToSet(graph.edges) /\ graph.edges[i].id # e.id
        BY <1>3, <1>4, <2>3, <4>1 DEF IdAt
      <4>3. Needs(G, Followed(G, e.id), Followed(plan, IdAt(i)))
        BY <1>6, <1>11, <2>4, <2>7, <3>2, <4>1, <4>2 DEF IdAt
      <4> QED
        BY <2>2, <2>4, <3>2, <4>1, <4>3
    <3> QED
      BY <1>4, <3>1, <3>2
  <2> QED
    BY <1>1, <1>11, <2>5, <2>6, <2>7 DEF FollowedInv, IdAt
<1>12. stage' \in Lasts => G.error = "none"
  BY <1>1, <1>6 DEF Lasts, Obstacles
<1>13. GroundedInv'
  BY <1>1, <1>8 DEF IInv, GroundedInv, Obstacles
<1> QED
  BY <1>9, <1>10, <1>11, <1>12, <1>13 DEF IInv

\* and what follows the last turn.
LEMMA LaterKeep ==
  ASSUME IInv, Plan \/ Ground \/ Bind
  PROVE  IInv'
<1>1. /\ stage \in Lasts /\ stage' \in Lasts \ {"factorizing"} /\ at = Len(graph.edges)
      /\ UNCHANGED <<draft, facts, graph, plan, at>>
  BY DEF IInv, PlanInv, Lasts, Plan, Ground, Bind
<1>2. ShapeInv'
  BY <1>1 DEF IInv, ShapeInv
<1>3. PlanInv'
  BY <1>1 DEF IInv, PlanInv, Lasts, Owned, IdAt
<1>4. FollowedInv'
  BY <1>1 DEF IInv, FollowedInv, IdAt
<1>5. GroundedInv'
  BY <1>1 DEF IInv, GroundedInv, Plan, Ground, Bind
<1> QED
  BY <1>2, <1>3, <1>4, <1>5 DEF IInv

\* The plan of every question stays sound while it is built, and what a transformation depends on
\* stays reachable from it (factorize_semantic_graph).
THEOREM PlanIsSound == Spec => []IInv
<1>1. Init => IInv
  BY InitIsSound
<1>2. IInv /\ [Next]_vars => IInv'
  <2> SUFFICES ASSUME IInv, [Next]_vars PROVE IInv'
    OBVIOUS
  <2>1. CASE Next
    BY <2>1, CompleteKeeps, SettleKeeps, ValidateKeeps, FactorizeKeeps, LaterKeep DEF Next
  <2>2. CASE UNCHANGED vars
    BY <2>2 DEF vars, IInv, ShapeInv, PlanInv, FollowedInv, GroundedInv, Owned, IdAt
  <2> QED
    BY <2>1, <2>2
<1> QED
  BY <1>1, <1>2, PTL DEF Spec

\* What a transformation made is still what the later ones that read it depend on, however many
\* nodes _factorize_semantic_graph fused or composed.
THEOREM DependenciesHold == Spec => []DependenciesSurvive
<1>1. IInv => DependenciesSurvive
  <2> SUFFICES ASSUME IInv, stage = "planned",
                      NEW j \in 1 .. Len(graph.edges), NEW i \in 1 .. j - 1,
                      ToSet(graph.edges[i].outs) \cap ToSet(graph.edges[j].ins) # {}
               PROVE  LET Of(k) == Followed(plan, graph.edges[k].id) IN
                      {Of(i), Of(j)} \subseteq NodeIds(plan) /\ Needs(plan, Of(j), Of(i))
    BY DEF DependenciesSurvive
  <2>1. FollowedInv /\ at = Len(graph.edges) /\ IsGraph(graph)
    BY DEF IInv, PlanInv, ShapeInv, Lasts
  <2>2. Len(graph.edges) \in Nat
    BY <2>1, EdgesGiven
  <2>3. j \in 1 .. at /\ i \in 1 .. at
    BY <2>1, <2>2
  <2> QED
    BY <2>1, <2>3 DEF FollowedInv, IdAt
<1> QED
  BY <1>1, PlanIsSound, PTL

\* A tour goes over the stops that its matrix measures, in their order (_tsp_nodes), whichever
\* matrix of the plan it indexes into.
THEOREM ToursMatchMatrices == Spec => []TourMatchesMatrix
<1>1. IInv => TourMatchesMatrix
  BY DEF IInv, PlanInv, Sound, ToursFit, Fits, TourMatchesMatrix
<1> QED
  BY <1>1, PlanIsSound, PTL

-----------------------------------------------------------------------------
\* What grounding makes of a plan.

ReadsOf(n) == NodesRead(n.args) \cup ToSet(n.deps)

\* Nodes that take the place of n, itself among them.
Replaces(s, n, ids) ==
  /\ Listing(s)
  /\ \A i \in DOMAIN s :
       /\ ReadsOf(s[i]) \subseteq ids \cup Before(s, i)
       /\ s[i].id = n.id \/ (n.op = "nearby_places" /\ \E k \in Nat : s[i].id = Branch(n, k))
       /\ s[i].id \notin Before(s, i)
  /\ n.id \in {m.id : m \in ToSet(s)}

\* What a node reads is among the names it may read.
LEMMA ReadsWithin ==
  ASSUME NEW ids, NEW args, AreArguments(args, ids)
  PROVE  NodesRead(args) \subseteq ids
BY DEF NodesRead, AreArguments, AreRefs, IsRef

\* One node in the place of another.
LEMMA ReplacedByOne ==
  ASSUME NEW ids, NEW n, IsNode(n, ids), NEW m, m.id = n.id, m.deps = n.deps, NodesRead(m.args) \subseteq ids
  PROVE  Replaces(<<m>>, n, ids)
<1> DEFINE s == <<m>>
<1>1. Listing(s) /\ ToSet(s) = {m} /\ DOMAIN s = {1} /\ s[1] = m
  BY ListOfOne
<1>2. Before(s, 1) = {}
  BY DEF Before
<1>3. ReadsOf(m) \subseteq ids
  BY DEF ReadsOf, IsNode
<1> HIDE DEF s
<1>4. Replaces(s, n, ids)
  BY <1>1, <1>2, <1>3 DEF Replaces
<1> QED
  BY <1>4 DEF s

\* The node with its literals takes the place of the node.
LEMMA LiteralsReplace ==
  ASSUME NEW ids, NEW n, IsNode(n, ids), NEW lit
  PROVE  Replaces(<<WithLit(n, lit)>>, n, ids)
<1> DEFINE m == WithLit(n, lit)
<1>1. m.id = n.id /\ m.deps = n.deps /\ m.args = n.args
  BY DEF WithLit
<1>2. NodesRead(n.args) \subseteq ids
  BY ReadsWithin DEF IsNode
<1> HIDE DEF m
<1>3. Replaces(<<m>>, n, ids)
  BY <1>1, <1>2, ReplacedByOne
<1> QED
  BY <1>3 DEF m

\* So does the geocoding with the anchor bound.
LEMMA GeocodeReplaces ==
  ASSUME NEW ids, NEW n, IsNode(n, ids), NEW F, NEW facts_
  PROVE  Replaces(<<GeocodeGrounded(F, facts_, n)>>, n, ids)
<1>1. ASSUME NEW names, NEW lit
      PROVE  LET m == WithLit([n EXCEPT !.names = names], lit) IN
             m.id = n.id /\ m.deps = n.deps /\ m.args = n.args
  BY DEF WithLit, IsNode
<1> DEFINE m == GeocodeGrounded(F, facts_, n)
<1>2. m.id = n.id /\ m.deps = n.deps /\ m.args = n.args
  <2>1. \E names, lit : m = WithLit([n EXCEPT !.names = names], lit)
    BY DEF GeocodeGrounded
  <2> HIDE DEF m
  <2> QED
    BY <1>1, <2>1
<1>3. NodesRead(n.args) \subseteq ids
  BY ReadsWithin DEF IsNode
<1> HIDE DEF m
<1>4. Replaces(<<m>>, n, ids)
  BY <1>2, <1>3, ReplacedByOne
<1> QED
  BY <1>4 DEF m

\* The amounts that were analysed are amounts that were read.
LEMMA AmountsReplace ==
  ASSUME NEW ids, NEW n, IsNode(n, ids), NEW F, NEW lit
  PROVE  Replaces(<<WithLit([n EXCEPT !.args.amounts = Analysed(F, n)], lit)>>, n, ids)
<1> DEFINE some == Analysed(F, n)
           args == [n.args EXCEPT !.amounts = some]
           m == WithLit([n EXCEPT !.args.amounts = some], lit)
<1>1. "amounts" \in DOMAIN n.args => ToSet(some) \subseteq ToSet(n.args.amounts)
  <2>1. ASSUME "amounts" \in DOMAIN n.args PROVE Listing(n.args.amounts)
    BY <2>1 DEF IsNode, AreArguments, AreRefs
  <2>2. \E positions : some = ItemsAt(n.args.amounts, positions)
    BY DEF Analysed, Kept
  <2> HIDE DEF some
  <2> QED
    BY <2>1, <2>2, KeptOf
<1> HIDE DEF some
<1>2. m.id = n.id /\ m.deps = n.deps /\ m.args = args
  BY DEF WithLit, IsNode
<1>3. DOMAIN args = DOMAIN n.args
      /\ \A slot \in DOMAIN args : args[slot] = n.args[slot] \/ (slot = "amounts" /\ args[slot] = some)
  OBVIOUS
<1> HIDE DEF args, m
<1>4. NodesRead(args) \subseteq NodesRead(n.args)
  BY <1>1, <1>3 DEF NodesRead
<1>5. NodesRead(n.args) \subseteq ids
  BY ReadsWithin DEF IsNode
<1>6. Replaces(<<m>>, n, ids)
  BY <1>2, <1>4, <1>5, ReplacedByOne
<1> QED
  BY <1>6 DEF m, some

\* Joining a list of one is appending.
LEMMA LastJoined ==
  ASSUME NEW s, Listing(s), NEW x
  PROVE  s \o <<x>> = Append(s, x)
<1> DEFINE S == ToSet(s) \cup {x}
<1>1. s \in Seq(S) /\ x \in S
  <2>1. s \in Seq(ToSet(s)) /\ ToSet(s) \subseteq S /\ x \in S
    BY DEF Listing
  <2> HIDE DEF S
  <2> QED
    BY <2>1
<1> HIDE DEF S
<1> QED
  BY <1>1

\* A search for each spelling, under names of their own, and the merge under the name of the search.
LEMMA RetrievalsReplace ==
  ASSUME NEW ids, NEW n, IsNode(n, ids), n.op = "nearby_places", NEW lit, NEW kinds \in Nat, kinds > 0,
         \A k \in Nat : Branch(n, k) # n.id
  PROVE  Replaces(Retrievals(n, lit, kinds), n, ids)
<1> DEFINE branch == [k \in 1 .. kinds |-> Branch(n, k)]
           Search(k) == WithLit([n EXCEPT !.id = branch[k]], lit @@ [kind |-> k])
           items == [k \in 1 .. kinds |-> <<branch[k]>>]
           merge == [n EXCEPT !.op = "merge_places", !.type = "object", !.deps = branch,
                              !.args = [items |-> items]]
           last == WithLit(merge, <<>>)
           searches == [k \in 1 .. kinds |-> Search(k)]
           s == searches \o <<last>>
<1>1. NodesRead(n.args) \subseteq ids /\ ToSet(n.deps) \subseteq ids
  BY ReadsWithin DEF IsNode
<1>2. CASE kinds = 1
  <2>1. \E more : Retrievals(n, lit, kinds) = <<WithLit(n, more)>>
    BY <1>2 DEF Retrievals
  <2> QED
    BY <2>1, LiteralsReplace
<1>3. CASE kinds # 1
  <2>1. Retrievals(n, lit, kinds) = s
    BY <1>3 DEF Retrievals
  <2>2. ASSUME NEW k \in 1 .. kinds
        PROVE  Search(k).id = Branch(n, k) /\ ReadsOf(Search(k)) \subseteq ids
    <3> DEFINE m == Search(k)
    <3>1. m.id = branch[k] /\ m.deps = n.deps /\ m.args = n.args /\ branch[k] = Branch(n, k)
      <4>1. branch[k] = Branch(n, k)
        OBVIOUS
      <4> HIDE DEF branch
      <4> QED
        BY <4>1 DEF WithLit, IsNode
    <3> HIDE DEF m
    <3>2. m.id = Branch(n, k) /\ ReadsOf(m) \subseteq ids
      BY <1>1, <3>1 DEF ReadsOf
    <3> QED
      BY <3>2 DEF m
  <2>3. last.id = n.id /\ last.deps = branch /\ last.args = [items |-> items]
    <3> HIDE DEF branch, items
    <3> QED
      BY DEF WithLit, IsNode
  <2>4. ReadsOf(last) \subseteq {Branch(n, k) : k \in 1 .. kinds}
    <3>1. \A k \in 1 .. kinds : branch[k] = Branch(n, k) /\ items[k] = <<branch[k]>> /\ items[k][1] = branch[k]
      OBVIOUS
    <3>2. DOMAIN branch = 1 .. kinds /\ DOMAIN items = 1 .. kinds
      OBVIOUS
    <3> HIDE DEF branch, items, last
    <3>3. ToSet(branch) = {Branch(n, k) : k \in 1 .. kinds}
      BY <3>1, <3>2 DEF ToSet
    <3>4. NodesRead([items |-> items]) \subseteq {Branch(n, k) : k \in 1 .. kinds}
      BY <3>1, <3>2 DEF NodesRead, ToSet
    <3> QED
      BY <2>3, <3>3, <3>4 DEF ReadsOf
  <2>5. Listing(searches) /\ Len(searches) = kinds /\ \A k \in 1 .. kinds : searches[k] = Search(k)
    <3> HIDE DEF Search
    <3>1. Len(searches) = kinds /\ DOMAIN searches = 1 .. kinds /\ \A k \in 1 .. kinds : searches[k] = Search(k)
      OBVIOUS
    <3>2. searches = [k \in 1 .. kinds |-> searches[k]]
      OBVIOUS
    <3> HIDE DEF searches
    <3> QED
      BY <3>1, <3>2, ListingOfDomain
  <2> HIDE DEF searches, last
  <2>6. /\ Listing(s) /\ last \in ToSet(s) /\ DOMAIN s = 1 .. kinds + 1 /\ s[kinds + 1] = last
        /\ \A k \in 1 .. kinds : s[k] = searches[k]
    <3>1. s = Append(searches, last) /\ Listing(searches)
      BY <2>5, LastJoined
    <3> HIDE DEF s
    <3>2. /\ Listing(s) /\ ToSet(s) = ToSet(searches) \cup {last}
          /\ s[Len(searches) + 1] = last /\ \A i \in DOMAIN searches : s[i] = searches[i]
          /\ DOMAIN s = DOMAIN searches \cup {Len(searches) + 1}
      BY <3>1, ListWithOneMore
    <3>3. DOMAIN searches = 1 .. kinds /\ 1 .. kinds \cup {kinds + 1} = 1 .. kinds + 1
      BY <2>5, <3>1, HeadOfList
    <3> QED
      BY <2>5, <3>2, <3>3
  <2> HIDE DEF s
  <2>7. \A k \in 1 .. kinds : s[k].id = Branch(n, k) /\ ReadsOf(s[k]) \subseteq ids
    BY <2>2, <2>5, <2>6
  <2>8. \A k \in 1 .. kinds : \A j \in 1 .. kinds : j # k => Branch(n, j) # Branch(n, k)
    BY DEF Branch
  <2>9. Before(s, kinds + 1) = {Branch(n, k) : k \in 1 .. kinds}
    <3>1. (kinds + 1) - 1 = kinds
      OBVIOUS
    <3> QED
      BY <2>7, <3>1 DEF Before
  <2>10. \A k \in 1 .. kinds : s[k].id \notin Before(s, k)
    BY <2>7, <2>8 DEF Before
  <2>11. Replaces(s, n, ids)
    <3>1. DOMAIN s = 1 .. kinds \cup {kinds + 1}
      BY <2>6
    <3>2. n.id \in {m.id : m \in ToSet(s)}
      BY <2>3, <2>6
    <3>3. ASSUME NEW i \in DOMAIN s
          PROVE  /\ ReadsOf(s[i]) \subseteq ids \cup Before(s, i)
                 /\ s[i].id = n.id \/ (n.op = "nearby_places" /\ \E k \in Nat : s[i].id = Branch(n, k))
                 /\ s[i].id \notin Before(s, i)
      <4>1. CASE i \in 1 .. kinds
        BY <2>7, <2>10, <4>1
      <4>2. CASE i = kinds + 1
        BY <2>3, <2>4, <2>6, <2>9, <4>2
      <4> QED
        BY <3>1, <4>1, <4>2
    <3> QED
      BY <2>6, <3>2, <3>3 DEF Replaces
  <2> QED
    BY <2>1, <2>11
<1> QED
  BY <1>2, <1>3

\* What grounding makes of a node takes its place, whatever the operator.
LEMMA GroundedNodeReplaces ==
  ASSUME NEW ids, NEW n, IsNode(n, ids), \A k \in Nat : Branch(n, k) # n.id,
         NEW F, NEW said, said.kinds \in Nat
  PROVE  Replaces(GroundedNode(F, said, n), n, ids)
<1> DEFINE s == GroundedNode(F, said, n)
<1> DEFINE As(lit) == <<WithLit(n, lit @@ Priority(said, n))>>
           searched == Retrievals(n, [radius |-> States(said, "radius_m")], said.kinds)
           amounts == <<WithLit([n EXCEPT !.args.amounts = Analysed(F, n)], [key |-> TRUE])>>
           a == As(StartLiterals(F, said, n))
           b == As(FinishLiterals(F, said, n))
           c == As(TourLiterals(F, said))
           d == As([waypoints |-> said.stop])
           e == As(Filtered(said, n))
           geocode == <<GeocodeGrounded(F, said, n)>>
           isSum == n.op = "sum_amounts" /\ said.turns /\ Analysed(F, n) # <<>>
           isRoute == OnlyRoute(F, n) /\ said.stop # Nowhere /\ "waypoints" \notin DOMAIN n.args
<1>1. s = CASE n.op = "nearby_places" /\ said.kinds > 0 -> searched
            [] n.op = "calculate_start_time" -> a
            [] n.op = "calculate_finish_time" -> b
            [] n.op = "tsp_tw" -> c
            [] isSum -> amounts
            [] isRoute -> d
            [] n.op = "batch_geocode" -> geocode
            [] OTHER -> e
  BY DEF GroundedNode
<1>2. \E lit : a = <<WithLit(n, lit)>>
  OBVIOUS
<1>3. \E lit : b = <<WithLit(n, lit)>>
  OBVIOUS
<1>4. \E lit : c = <<WithLit(n, lit)>>
  OBVIOUS
<1>5. \E lit : d = <<WithLit(n, lit)>>
  OBVIOUS
<1>6. \E lit : e = <<WithLit(n, lit)>>
  OBVIOUS
<1>7. Replaces(a, n, ids) /\ Replaces(b, n, ids) /\ Replaces(c, n, ids) /\ Replaces(d, n, ids)
      /\ Replaces(e, n, ids)
  <2> HIDE DEF a, b, c, d, e
  <2> QED
    BY <1>2, <1>3, <1>4, <1>5, <1>6, LiteralsReplace
<1>8. Replaces(amounts, n, ids) /\ Replaces(geocode, n, ids)
  BY AmountsReplace, GeocodeReplaces
<1>9. n.op = "nearby_places" /\ said.kinds > 0 => Replaces(searched, n, ids)
  BY RetrievalsReplace
<1> HIDE DEF a, b, c, d, e, amounts, geocode, searched, isSum, isRoute
<1> HIDE DEF s
<1>10. \/ n.op = "nearby_places" /\ said.kinds > 0 /\ s = searched
       \/ s \in {a, b, c, d, e, amounts, geocode}
  BY <1>1
<1>11. Replaces(s, n, ids)
  BY <1>7, <1>8, <1>9, <1>10
<1> QED
  BY <1>11 DEF s

\* A grounded graph, in which every node is listed after what it reads, under a name of its own.
InOrder(s) ==
  \A i \in DOMAIN s : ReadsOf(s[i]) \subseteq Before(s, i) /\ s[i].id \notin Before(s, i)
IdsOf(s) == {m.id : m \in ToSet(s)}

\* A list in order stays in order with the nodes that take the place of the next one.
LEMMA ReplacingKeepsOrder ==
  ASSUME NEW s, Listing(s), InOrder(s), NEW n, NEW ids, ids \subseteq IdsOf(s),
         NEW t, Replaces(t, n, ids), IdsOf(s) \cap IdsOf(t) = {}
  PROVE  /\ Listing(s \o t) /\ InOrder(s \o t)
         /\ IdsOf(s \o t) = IdsOf(s) \cup IdsOf(t)
<1> DEFINE S == ToSet(s) \cup ToSet(t)
           u == s \o t
<1>1. Listing(t)
  BY DEF Replaces
<1>2. s \in Seq(S) /\ t \in Seq(S)
  <2>1. s \in Seq(ToSet(s)) /\ t \in Seq(ToSet(t)) /\ ToSet(s) \subseteq S /\ ToSet(t) \subseteq S
    BY <1>1 DEF Listing
  <2> HIDE DEF S
  <2> QED
    BY <2>1
<1>3. Listing(u) /\ ToSet(u) = ToSet(s) \cup ToSet(t)
  BY <1>1, ListsTogether
<1> HIDE DEF S
<1>4. /\ Len(s) \in Nat /\ Len(t) \in Nat /\ DOMAIN u = 1 .. Len(s) + Len(t)
      /\ DOMAIN s = 1 .. Len(s) /\ DOMAIN t = 1 .. Len(t)
  BY <1>2
<1>5. /\ \A i \in 1 .. Len(s) : u[i] = s[i]
      /\ \A i \in 1 .. Len(t) : u[Len(s) + i] = t[i]
  BY <1>2, <1>4
<1> HIDE DEF u
<1>6. \A i \in 1 .. Len(s) : Before(u, i) = Before(s, i)
  <2> TAKE i \in 1 .. Len(s)
  <2>1. \A j \in 1 .. i - 1 : u[j] = s[j]
    BY <1>4, <1>5
  <2> QED
    BY <2>1 DEF Before
<1>7. \A i \in 1 .. Len(t) : Before(u, Len(s) + i) = IdsOf(s) \cup Before(t, i)
  <2> TAKE i \in 1 .. Len(t)
  <2>1. ASSUME NEW x \in Before(u, Len(s) + i) PROVE x \in IdsOf(s) \cup Before(t, i)
    <3>1. PICK j \in 1 .. (Len(s) + i) - 1 : x = u[j].id
      BY DEF Before
    <3>2. CASE j <= Len(s)
      BY <1>4, <1>5, <3>1, <3>2 DEF IdsOf, ToSet
    <3>3. CASE ~(j <= Len(s))
      <4>1. j - Len(s) \in 1 .. i - 1 /\ j - Len(s) \in 1 .. Len(t) /\ Len(s) + (j - Len(s)) = j
        BY <1>4, <3>3
      <4>2. u[j] = t[j - Len(s)]
        BY <1>5, <4>1
      <4> QED
        BY <3>1, <4>1, <4>2 DEF Before
    <3> QED
      BY <3>2, <3>3
  <2>2. IdsOf(s) \subseteq Before(u, Len(s) + i)
    <3> SUFFICES ASSUME NEW m \in ToSet(s) PROVE m.id \in Before(u, Len(s) + i)
      BY DEF IdsOf
    <3>1. PICK j \in 1 .. Len(s) : m = s[j]
      BY <1>4 DEF ToSet
    <3>2. j \in 1 .. (Len(s) + i) - 1
      BY <1>4
    <3> QED
      BY <1>5, <3>1, <3>2 DEF Before
  <2>3. Before(t, i) \subseteq Before(u, Len(s) + i)
    <3> SUFFICES ASSUME NEW j \in 1 .. i - 1 PROVE t[j].id \in Before(u, Len(s) + i)
      BY DEF Before
    <3>1. j \in 1 .. Len(t) /\ Len(s) + j \in 1 .. (Len(s) + i) - 1
      BY <1>4
    <3> QED
      BY <1>5, <3>1 DEF Before
  <2> QED
    BY <2>1, <2>2, <2>3
<1>8. ASSUME NEW i \in DOMAIN u
      PROVE  ReadsOf(u[i]) \subseteq Before(u, i) /\ u[i].id \notin Before(u, i)
  <2>1. CASE i \in 1 .. Len(s)
    BY <1>4, <1>5, <1>6, <2>1 DEF InOrder
  <2>2. CASE i \notin 1 .. Len(s)
    <3> DEFINE k == i - Len(s)
    <3>1. k \in 1 .. Len(t) /\ i = Len(s) + k
      BY <1>4, <2>2
    <3> HIDE DEF k
    <3>2. u[i] = t[k] /\ Before(u, i) = IdsOf(s) \cup Before(t, k)
      BY <1>5, <1>7, <3>1
    <3>3. ReadsOf(t[k]) \subseteq ids \cup Before(t, k) /\ t[k].id \notin Before(t, k)
      BY <1>4, <3>1 DEF Replaces
    <3>4. t[k].id \in IdsOf(t)
      BY <1>4, <3>1 DEF IdsOf, ToSet
    <3> QED
      BY <3>2, <3>3, <3>4
  <2> QED
    BY <2>1, <2>2
<1>9. InOrder(u)
  BY <1>8 DEF InOrder
<1>10. IdsOf(u) = IdsOf(s) \cup IdsOf(t)
  BY <1>3 DEF IdsOf
<1> QED
  BY <1>3, <1>9, <1>10 DEF u

\* What the names of a plan's nodes look like, so that the searches that replace one are new.
Plain(n) ==
  \/ n.id = <<n.id[1], n.id[2]>>
  \/ n.op # "nearby_places" /\ \E what : n.id = <<n.id[1], n.id[2], what>>

\* The names of a split search are its own.
LEMMA BranchesAreNew ==
  ASSUME NEW n, Plain(n), NEW m, Plain(m)
  PROVE  /\ \A k \in Nat : Branch(n, k) # m.id
         /\ n.op = "nearby_places" /\ m.op = "nearby_places" =>
              \A k, j \in Nat : Branch(n, k) = Branch(m, j) => n.id = m.id
BY DEF Plain, Branch

\* What grounding keeps of the plan, node by node.
LEMMA GroundedInOrder ==
  ASSUME NEW F, IsPlan(F), \A n \in ToSet(F.graph) : Plain(n), NEW said, said.kinds \in Nat
  PROVE  /\ Listing(GroundedGraph(F, said)) /\ InOrder(GroundedGraph(F, said))
         /\ \A n \in ToSet(F.graph) : ToSet(GroundedNode(F, said, n)) \subseteq ToSet(GroundedGraph(F, said))
<1> DEFINE N == Len(F.graph)
           At(i) == F.graph[i]
           a == [i \in 1 .. N |-> GroundedNode(F, said, At(i))]
           New(i) == {id \in {At(i).id} \cup {Branch(At(i), k) : k \in Nat} :
                        id = At(i).id \/ At(i).op = "nearby_places"}
           S == UNION {ToSet(a[i]) : i \in 1 .. N}
           Upto(m) == UNION {New(i) : i \in 1 .. m}
           G == [m \in 0 .. N |->
                   {s \in Seq(S) : InOrder(s) /\ Before(F.graph, m + 1) \subseteq IdsOf(s) /\ IdsOf(s) \subseteq Upto(m)}]
<1>1. N \in Nat /\ DOMAIN F.graph = 1 .. N /\ \A i \in 1 .. N : At(i) \in ToSet(F.graph)
  BY NodesOfPlan DEF ToSet
<1>2. /\ \A i \in 1 .. N : Plain(At(i)) /\ IsNode(At(i), Before(F.graph, i))
      /\ \A i, j \in 1 .. N : At(i).id = At(j).id => i = j
  <2>1. \A i \in 1 .. N : Plain(At(i)) /\ IsNode(At(i), Before(F.graph, i))
    BY <1>1 DEF IsPlan
  <2>2. \A j \in 1 .. N : \A i \in 1 .. j - 1 : At(i).id # At(j).id
    BY <2>1 DEF IsNode, Before
  <2>3. \A i, j \in 1 .. N : i = j \/ i \in 1 .. j - 1 \/ j \in 1 .. i - 1
    BY <1>1
  <2> QED
    BY <2>1, <2>2, <2>3
<1>3. ASSUME NEW i \in 1 .. N
      PROVE  Replaces(a[i], At(i), Before(F.graph, i))
  <2>1. \A k \in Nat : Branch(At(i), k) # At(i).id
    BY <1>2, BranchesAreNew
  <2>2. a[i] = GroundedNode(F, said, At(i))
    OBVIOUS
  <2> HIDE DEF a, At
  <2> QED
    BY <1>2, <2>1, <2>2, GroundedNodeReplaces
<1>4. GroundedGraph(F, said) = FlattenSeq(a)
  BY DEF GroundedGraph, Mapped
<1>5. a = [i \in 1 .. N |-> a[i]] /\ \A i \in 1 .. N : a[i] = GroundedNode(F, said, At(i))
  OBVIOUS
<1> HIDE DEF a, N
<1>6. \A i \in 1 .. N : Listing(a[i])
  BY <1>3 DEF Replaces
<1>7. Listing(FlattenSeq(a)) /\ ToSet(FlattenSeq(a)) = S
  BY <1>1, <1>5, <1>6, FlattenList
<1>8. \A n \in ToSet(F.graph) : ToSet(GroundedNode(F, said, n)) \subseteq S
  <2> SUFFICES ASSUME NEW n \in ToSet(F.graph) PROVE ToSet(GroundedNode(F, said, n)) \subseteq S
    OBVIOUS
  <2>1. PICK i \in 1 .. N : n = At(i)
    BY <1>1 DEF ToSet
  <2> QED
    BY <1>5, <2>1
<1>9. a \in Seq(Seq(S)) /\ Len(a) = N
  <2>1. \A i \in 1 .. N : a[i] \in Seq(S)
    <3> TAKE i \in 1 .. N
    <3>1. a[i] \in Seq(ToSet(a[i])) /\ ToSet(a[i]) \subseteq S
      BY <1>6 DEF Listing
    <3> HIDE DEF S
    <3> QED
      BY <3>1
  <2> HIDE DEF S
  <2>2. a \in [1 .. N -> Seq(S)]
    BY <1>5, <2>1
  <2> QED
    BY <1>1, <2>2
<1> HIDE DEF S
<1>10. ASSUME NEW i \in 1 .. N
       PROVE  /\ IdsOf(a[i]) \subseteq New(i) /\ At(i).id \in IdsOf(a[i])
              /\ \A j \in 1 .. i - 1 : New(j) \cap New(i) = {}
  <2>1. IdsOf(a[i]) \subseteq New(i) /\ At(i).id \in IdsOf(a[i])
    <3> HIDE DEF At
    <3>1. \A m \in ToSet(a[i]) : m.id = At(i).id \/ (At(i).op = "nearby_places" /\ \E k \in Nat : m.id = Branch(At(i), k))
      BY <1>3 DEF Replaces, ToSet
    <3>2. At(i).id \in {m.id : m \in ToSet(a[i])}
      BY <1>3 DEF Replaces
    <3> QED
      BY <3>1, <3>2 DEF IdsOf
  <2>2. ASSUME NEW j \in 1 .. i - 1 PROVE New(j) \cap New(i) = {}
    <3>1. j \in 1 .. N /\ j # i
      BY <1>1
    <3> HIDE DEF At
    <3>2. At(j).id # At(i).id /\ Plain(At(i)) /\ Plain(At(j))
      BY <1>2, <3>1
    <3>3. /\ \A k \in Nat : Branch(At(i), k) # At(j).id /\ Branch(At(j), k) # At(i).id
          /\ At(i).op = "nearby_places" /\ At(j).op = "nearby_places" =>
               \A k, l \in Nat : Branch(At(i), k) # Branch(At(j), l)
      BY <3>2, BranchesAreNew
    <3> QED
      BY <3>2, <3>3
  <2> QED
    BY <2>1, <2>2
<1>11. FlattenSeq(a) \in G[N]
  <2>1. /\ \A m \in 0 .. N : G[m] = {s \in Seq(S) : InOrder(s) /\ Before(F.graph, m + 1) \subseteq IdsOf(s)
                                                    /\ IdsOf(s) \subseteq Upto(m)}
        /\ G \in [0 .. N -> SUBSET Seq(S)]
    OBVIOUS
  <2> HIDE DEF G
  <2>2. <<>> \in G[0]
    <3>1. 0 \in 0 .. N /\ <<>> \in Seq(S) /\ InOrder(<<>>) /\ IdsOf(<<>>) = {} /\ 1 .. (0 + 1) - 1 = {}
      BY <1>1, EmptyList DEF InOrder, IdsOf
    <3>2. Before(F.graph, 0 + 1) = {}
      BY <3>1 DEF Before
    <3> HIDE DEF Upto
    <3> QED
      BY <2>1, <3>1, <3>2
  <2>3. ASSUME NEW m \in 1 .. N, NEW s \in G[m - 1] PROVE s \o a[m] \in G[m]
    <3>1. m \in 0 .. N /\ m - 1 \in 0 .. N /\ (m - 1) + 1 = m /\ 1 .. m = 1 .. m - 1 \cup {m} /\ (m + 1) - 1 = m
      BY <1>1
    <3>2. s \in Seq(S) /\ InOrder(s) /\ Before(F.graph, m) \subseteq IdsOf(s) /\ IdsOf(s) \subseteq Upto(m - 1)
      BY <2>1, <3>1
    <3>3. Listing(s)
      BY <3>2, ListingOfSeq
    <3>4. IdsOf(s) \cap IdsOf(a[m]) = {}
      <4> HIDE DEF New
      <4> QED
        BY <1>10, <3>2
    <3>5. Listing(s \o a[m]) /\ InOrder(s \o a[m]) /\ IdsOf(s \o a[m]) = IdsOf(s) \cup IdsOf(a[m])
      <4>1. Replaces(a[m], At(m), Before(F.graph, m))
        BY <1>3
      <4> HIDE DEF At
      <4> QED
        BY <3>2, <3>3, <3>4, <4>1, ReplacingKeepsOrder
    <3>6. Before(F.graph, m + 1) = Before(F.graph, m) \cup {At(m).id}
      BY <3>1 DEF Before
    <3>7. Upto(m) = Upto(m - 1) \cup New(m)
      <4> HIDE DEF New
      <4> QED
        BY <3>1
    <3>8. s \o a[m] \in Seq(S)
      <4>1. a[m] \in Seq(S)
        BY <1>9
      <4> QED
        BY <3>2, <4>1
    <3> HIDE DEF Upto, New, At
    <3>9. Before(F.graph, m + 1) \subseteq IdsOf(s \o a[m]) /\ IdsOf(s \o a[m]) \subseteq Upto(m)
      BY <1>10, <3>2, <3>5, <3>6, <3>7
    <3>10. s \o a[m] \in {u \in Seq(S) : InOrder(u) /\ Before(F.graph, m + 1) \subseteq IdsOf(u)
                                        /\ IdsOf(u) \subseteq Upto(m)}
      BY <3>5, <3>8, <3>9
    <3> QED
      BY Zenon, <2>1, <3>1, <3>10
  <2> QED
    BY <1>9, <2>1, <2>2, <2>3, FlattenFollows
<1>12. N \in 0 .. N
  BY <1>1
<1>13. InOrder(FlattenSeq(a))
  <2> HIDE DEF Upto
  <2> QED
    BY <1>11, <1>12
<1> QED
  BY <1>4, <1>7, <1>8, <1>13

\* The nodes of a plan are named as splitting expects.
LEMMA NodesArePlain ==
  ASSUME IInv, NEW n \in ToSet(plan.graph)
  PROVE  Plain(n)
<1>1. /\ IsGraph(graph) /\ at \in 0 .. Len(graph.edges)
      /\ \E i \in 1 .. at : Owned(n, IdAt(i))
  BY DEF IInv, ShapeInv, PlanInv
<1>2. PICK i \in 1 .. at : Owned(n, IdAt(i))
  BY <1>1
<1>3. Len(graph.edges) \in Nat /\ \A j \in 1 .. Len(graph.edges) : IsEdge(graph.edges[j])
  BY <1>1, EdgesGiven
<1>4. i \in 1 .. Len(graph.edges)
  BY <1>1, <1>3
<1> DEFINE id == IdAt(i)
<1>5. id = <<id[1], id[2]>> /\ Owned(n, id)
  BY <1>2, <1>3, <1>4 DEF IsEdge, IdAt
<1> HIDE DEF id
<1> QED
  BY <1>5 DEF Owned, Plain, Composed

\* What grounding leaves is a list in order.
LEMMA GroundedIs ==
  ASSUME IInv, stage \in {"grounded", "bound"}
  PROVE  /\ Listing(grounded) /\ InOrder(grounded)
         /\ \A n \in ToSet(plan.graph) : ToSet(GroundedNode(plan, facts, n)) \subseteq ToSet(grounded)
<1>1. grounded = GroundedGraph(plan, facts) /\ IsPlan(plan) /\ facts.kinds \in Nat
  BY DEF IInv, GroundedInv, PlanInv, ShapeInv, Sound
<1>2. \A n \in ToSet(plan.graph) : Plain(n)
  BY NodesArePlain
<1> QED
  BY <1>1, <1>2, GroundedInOrder

\* Every reference and every dependency of what _ground_graph_literals leaves is to a node listed
\* earlier, under a name of its own.
THEOREM GroundingKeepsReferences == Spec => []ReferencesHold
<1>1. IInv => InOrder(grounded)
  <2> SUFFICES ASSUME IInv PROVE InOrder(grounded)
    OBVIOUS
  <2>1. CASE stage \in {"grounded", "bound"}
    BY <2>1, GroundedIs
  <2>2. CASE stage \notin {"grounded", "bound"}
    BY <2>2 DEF IInv, GroundedInv, InOrder
  <2> QED
    BY <2>1, <2>2
<1>2. InOrder(grounded) => ReferencesHold
  BY DEF InOrder, ReferencesHold, ReadsOf, Before
<1> QED
  BY <1>1, <1>2, PlanIsSound, PTL

\* The one node of a name.
LEMMA OnlyOneNamed ==
  ASSUME Listing(grounded), InOrder(grounded), NEW m \in ToSet(grounded)
  PROVE  Nodes({m.id})[1] = m
<1> DEFINE P == {k \in DOMAIN grounded : grounded[k].id \in {m.id}}
           some == ItemsAt(grounded, P)
<1>1. Nodes({m.id}) = some
  BY DEF Nodes, Kept
<1>2. PICK k \in DOMAIN grounded : m = grounded[k]
  BY DEF ToSet
<1>3. DOMAIN grounded = 1 .. Len(grounded) /\ Len(grounded) \in Nat
  BY HeadOfList
<1>4. \A i \in DOMAIN grounded : grounded[i].id = m.id => i = k
  <2>1. \A j \in 1 .. Len(grounded) : \A i \in 1 .. j - 1 : grounded[i].id # grounded[j].id
    BY <1>3 DEF InOrder, Before
  <2>2. \A i \in 1 .. Len(grounded) : i = k \/ i \in 1 .. k - 1 \/ k \in 1 .. i - 1
    BY <1>2, <1>3
  <2> QED
    BY <1>2, <1>3, <2>1, <2>2
<1>5. P = {k}
  BY <1>2, <1>4
<1> HIDE DEF P
<1>6. Listing(some) /\ ToSet(some) = {m}
  <2>1. ToSet(some) = {grounded[i] : i \in DOMAIN grounded \cap P}
    BY ItemsAtList
  <2>2. DOMAIN grounded \cap P = {k}
    BY <1>2, <1>5
  <2> QED
    BY <1>2, <2>1, <2>2, ItemsAtList
<1> HIDE DEF some
<1>7. some[1] = m
  BY <1>6, HeadOfList
<1> QED
  BY <1>1, <1>7

\* A restored name is one that the written one is part of.
LEMMA VerbatimIs ==
  ASSUME NEW said, NEW name
  PROVE  Verbatim(said, name) = name \/ <<name, Verbatim(said, name)>> \in said.short
<1> DEFINE full == {p \in StatedPlaces(said) : <<name, p>> \in said.short}
<1>1. full # {} => (CHOOSE p \in full : TRUE) \in full
  OBVIOUS
<1> QED
  BY <1>1 DEF Verbatim

\* While the list is not read past its end, and no two places replace it, what is located at
\* an index is what was written there, or the name it is part of.
LEMMA PlacesKept ==
  ASSUME NEW F, IsPlan(F), NEW n \in ToSet(F.graph), NEW said, said.pair = <<>>,
         \A s, p \in said.short : s[2] = p[1] => <<s[1], p[2]>> \in said.short,
         \A k \in IndicesRead(F, n.id) : ~(k >= Len(n.names)),
         NEW k \in IndicesRead(F, n.id), k \in Nat
  PROVE  Alike(said, GeocodeGrounded(F, said, n).names[k + 1], n.names[k + 1])
<1> DEFINE written == Mapped(LAMBDA name : Verbatim(said, name), n.names)
           short == written # <<>> /\ <<written[1], said.anchor>> \in said.short
           put == [written EXCEPT ![1] = said.anchor]
           named == IF short THEN put ELSE written
           beyond == ReadsPastItsNames(F, n, named) /\ said.anchor \notin ToSet(named)
           m == GeocodeGrounded(F, said, n)
<1>1. Listing(n.names) /\ Len(n.names) \in Nat /\ DOMAIN n.names = 1 .. Len(n.names)
  BY NodesOfPlan, HeadOfList
<1>2. k + 1 \in 1 .. Len(n.names)
  BY <1>1
<1>3. /\ Len(written) = Len(n.names) /\ DOMAIN written = 1 .. Len(n.names)
      /\ \A i \in 1 .. Len(n.names) : written[i] = Verbatim(said, n.names[i])
  BY <1>1 DEF Mapped
<1>4. DOMAIN put = 1 .. Len(n.names) /\ Len(put) = Len(n.names)
      /\ (1 \in 1 .. Len(n.names) => put[1] = said.anchor)
      /\ \A i \in 1 .. Len(n.names) : i # 1 => put[i] = written[i]
  <2>1. written \in Seq(ToSet(written) \cup {said.anchor})
    <3>1. written = [i \in 1 .. Len(n.names) |-> written[i]]
      BY <1>1 DEF Mapped
    <3> HIDE DEF written
    <3>2. Listing(written)
      BY <1>1, <3>1, ListingOfDomain
    <3>3. written \in Seq(ToSet(written))
      BY <3>2 DEF Listing
    <3> DEFINE S == ToSet(written) \cup {said.anchor}
    <3>4. ToSet(written) \subseteq S
      OBVIOUS
    <3> HIDE DEF S
    <3>5. written \in Seq(S)
      BY <3>3, <3>4
    <3> QED
      BY <3>5 DEF S
  <2> HIDE DEF written
  <2> QED
    BY <1>1, <1>3, <2>1
<1>5. m = CASE said.pair # <<>> /\ Len(written) = 2 ->
                 WithLit([n EXCEPT !.names = said.pair], [anchor |-> said.pair[1], strict |-> TRUE])
            [] ~(said.pair # <<>> /\ Len(written) = 2) /\ said.anchor # Nowhere ->
                 WithLit([n EXCEPT !.names = IF beyond THEN <<said.anchor>> \o named ELSE named],
                         [anchor |-> said.anchor])
            [] OTHER -> WithLit([n EXCEPT !.names = written], <<>>)
  BY DEF GeocodeGrounded
<1> HIDE DEF written, put, m
<1>6. Len(named) = Len(n.names)
  BY <1>3, <1>4
<1>7. ~beyond
  BY <1>6 DEF ReadsPastItsNames
<1>8. \A names, lit : WithLit([n EXCEPT !.names = names], lit).names = names
  <2>1. "names" \in DOMAIN n
    BY DEF IsPlan, IsNode, ToSet
  <2> QED
    BY <2>1 DEF WithLit
<1> HIDE DEF beyond
<1>9. m.names \in {named, written}
  BY <1>5, <1>7, <1>8
<1>10. Verbatim(said, n.names[k + 1]) = n.names[k + 1]
       \/ <<n.names[k + 1], Verbatim(said, n.names[k + 1])>> \in said.short
  BY VerbatimIs
<1>11. Alike(said, written[k + 1], n.names[k + 1])
  BY <1>2, <1>3, <1>10 DEF Alike
<1>12. CASE short /\ k + 1 = 1
  <2>1. named[k + 1] = said.anchor
    BY <1>2, <1>4, <1>12
  <2>2. <<written[1], said.anchor>> \in said.short
    BY <1>12
  <2> DEFINE s == <<n.names[1], written[1]>>
             p == <<written[1], said.anchor>>
  <2>3. written[1] # n.names[1] => <<n.names[1], said.anchor>> \in said.short
    <3> SUFFICES ASSUME written[1] # n.names[1] PROVE <<n.names[1], said.anchor>> \in said.short
      OBVIOUS
    <3>1. <<n.names[1], written[1]>> \in said.short
      BY <1>2, <1>3, <1>10, <1>12
    <3>2. s \in said.short /\ p \in said.short /\ s[2] = p[1] /\ s[1] = n.names[1] /\ p[2] = said.anchor
      BY <2>2, <3>1
    <3> HIDE DEF s, p
    <3> QED
      BY <3>2
  <2>4. <<n.names[1], said.anchor>> \in said.short
    BY <2>2, <2>3
  <2>5. Alike(said, named[k + 1], n.names[k + 1])
    BY <1>12, <2>1, <2>4 DEF Alike
  <2> QED
    BY <1>9, <1>11, <2>5 DEF m
<1>13. CASE ~(short /\ k + 1 = 1)
  <2>1. named[k + 1] = written[k + 1]
    BY <1>2, <1>4, <1>13
  <2> QED
    BY <1>9, <1>11, <2>1 DEF m
<1> QED
  BY <1>12, <1>13

\* An index that named a place names the same one once the anchor is bound (_bind_geocode_anchor).
THEOREM IndicesNameTheirPlaces == Spec => []IndicesKeepTheirPlaces
<1>1. IInv => IndicesKeepTheirPlaces
  <2> SUFFICES ASSUME IInv, stage \in {"grounded", "bound"}, facts.pair = <<>>,
                      NEW n \in ToSet(plan.graph), n.op = "batch_geocode",
                      \A k \in IndicesRead(plan, n.id) : ~(k >= Len(n.names)),
                      NEW k \in IndicesRead(plan, n.id)
               PROVE  Alike(facts, Nodes({n.id})[1].names[k + 1], n.names[k + 1])
    BY DEF IndicesKeepTheirPlaces
  <2> DEFINE m == GeocodeGrounded(plan, facts, n)
  <2>1. IsPlan(plan) /\ \A s, p \in facts.short : s[2] = p[1] => <<s[1], p[2]>> \in facts.short
    BY DEF IInv, PlanInv, ShapeInv, Sound
  <2>2. k \in Nat
    <3>1. PICK reader \in ToSet(plan.graph) :
            \E slot \in DOMAIN reader.args : \E r \in ToSet(reader.args[slot]) : Len(r) = 3 /\ k = r[3]
      BY DEF IndicesRead
    <3>2. PICK slot \in DOMAIN reader.args : \E r \in ToSet(reader.args[slot]) : Len(r) = 3 /\ k = r[3]
      BY <3>1
    <3>3. PICK ref \in ToSet(reader.args[slot]) : Len(ref) = 3 /\ k = ref[3]
      BY <3>2
    <3>4. IsRef(ref, NodeIds(plan))
      BY <2>1, NodesOfPlan DEF AreArguments, AreRefs
    <3> QED
      BY <3>3, <3>4 DEF IsRef
  <2>3. Alike(facts, m.names[k + 1], n.names[k + 1])
    <3> HIDE DEF m
    <3>1. Alike(facts, GeocodeGrounded(plan, facts, n).names[k + 1], n.names[k + 1])
      BY <2>1, <2>2, PlacesKept
    <3> QED
      BY <3>1 DEF m
  <2>4. m.id = n.id
    <3>1. ASSUME NEW names, NEW lit PROVE WithLit([n EXCEPT !.names = names], lit).id = n.id
      BY DEF WithLit
    <3>2. \E names, lit : m = WithLit([n EXCEPT !.names = names], lit)
      BY DEF GeocodeGrounded
    <3> HIDE DEF m
    <3> QED
      BY <3>1, <3>2
  <2>5. GroundedNode(plan, facts, n) = <<m>>
    <3> HIDE DEF m
    <3> QED
      BY DEF GroundedNode, OnlyRoute, m
  <2> HIDE DEF m
  <2>6. m \in ToSet(grounded)
    BY <2>5, GroundedIs, ListOfOne
  <2>7. Nodes({n.id})[1] = m
    BY <2>4, <2>6, GroundedIs, OnlyOneNamed
  <2> QED
    BY <2>3, <2>7
<1> QED
  BY <1>1, PlanIsSound, PTL
-----------------------------------------------------------------------------
\* The roles of the steps of a grounded graph.

IsWired(W, G) ==
  /\ W.steps = G /\ DOMAIN W.deps = IdsIn(G)
  /\ \A id \in IdsIn(G) : W.deps[id] = ReadsOf(StepIn(G, id)) \cap (IdsIn(G) \ {id})
  /\ W.sources = {id \in IdsIn(G) : W.deps[id] = {}}
  /\ W.sinks = IdsIn(G) \ UNION {W.deps[id] : id \in IdsIn(G)}

\* The wiring of a graph, field by field.
LEMMA GraphIsWired ==
  ASSUME NEW G, NEW W, W = Wiring(G)
  PROVE  IsWired(W, G)
<1> DEFINE Of(n) == ToSet(n.deps) \cup NodesRead(n.args)
           deps == [id \in IdsIn(G) |-> Of(StepIn(G, id)) \cap (IdsIn(G) \ {id})]
<1>1. W = [steps |-> G, deps |-> deps, sources |-> {id \in IdsIn(G) : deps[id] = {}},
                   sinks |-> IdsIn(G) \ UNION {deps[id] : id \in IdsIn(G)}]
  BY DEF Wiring
<1>2. /\ DOMAIN deps = IdsIn(G)
      /\ \A id \in IdsIn(G) : deps[id] = ReadsOf(StepIn(G, id)) \cap (IdsIn(G) \ {id})
  BY DEF ReadsOf
<1>3. /\ W.steps = G /\ W.deps = deps /\ W.sources = {id \in IdsIn(G) : deps[id] = {}}
      /\ W.sinks = IdsIn(G) \ UNION {deps[id] : id \in IdsIn(G)}
  <2> HIDE DEF deps
  <2> QED
    BY <1>1
<1> HIDE DEF deps
<1>4. /\ {id \in IdsIn(G) : W.deps[id] = {}} = {id \in IdsIn(G) : deps[id] = {}}
      /\ {W.deps[id] : id \in IdsIn(G)} = {deps[id] : id \in IdsIn(G)}
      /\ \A id \in IdsIn(G) : W.deps[id] = ReadsOf(StepIn(G, id)) \cap (IdsIn(G) \ {id})
  BY <1>2, <1>3
<1> QED
  BY Zenon, <1>2, <1>3, <1>4 DEF IsWired

\* A step of a graph in order is the one of its name, and depends on what is listed before it.
LEMMA StepsInOrder ==
  ASSUME NEW G, Listing(G), InOrder(G), NEW W, IsWired(W, G), NEW i \in DOMAIN G
  PROVE  /\ StepIn(G, G[i].id) = G[i] /\ G[i].id \in IdsIn(G)
         /\ W.deps[G[i].id] = ReadsOf(G[i]) /\ ReadsOf(G[i]) \subseteq Before(G, i)
         /\ G[i].id \notin Before(G, i) /\ Before(G, i) \subseteq IdsIn(G)
<1>1. DOMAIN G = 1 .. Len(G) /\ Len(G) \in Nat
  BY HeadOfList
<1>2. \A j \in DOMAIN G : G[j].id = G[i].id => j = i
  <2> SUFFICES ASSUME NEW j \in DOMAIN G, G[j].id = G[i].id, j # i PROVE FALSE
    OBVIOUS
  <2>1. CASE j < i
    <3>1. j \in 1 .. i - 1
      BY <1>1, <2>1
    <3> QED
      BY <3>1 DEF InOrder, Before
  <2>2. CASE i < j
    <3>1. i \in 1 .. j - 1
      BY <1>1, <2>2
    <3> QED
      BY <3>1 DEF InOrder, Before
  <2> QED
    BY <1>1, <2>1, <2>2
<1>3. G[i] \in ToSet(G) /\ \A n \in ToSet(G) : \E j \in DOMAIN G : n = G[j]
  BY DEF ToSet
<1>4. StepIn(G, G[i].id) = G[i]
  <2>1. \E n \in ToSet(G) : n.id = G[i].id
    BY <1>3
  <2>2. StepIn(G, G[i].id) \in ToSet(G) /\ StepIn(G, G[i].id).id = G[i].id
    BY <2>1 DEF StepIn
  <2> QED
    BY <1>2, <1>3, <2>2
<1>5. G[i].id \in IdsIn(G)
  BY <1>3 DEF IdsIn
<1>6. Before(G, i) \subseteq IdsIn(G)
  <2> SUFFICES ASSUME NEW j \in 1 .. i - 1 PROVE G[j].id \in IdsIn(G)
    BY DEF Before
  <2>1. j \in DOMAIN G
    BY <1>1
  <2> QED
    BY <2>1 DEF IdsIn, ToSet
<1>7. ReadsOf(G[i]) \subseteq Before(G, i) /\ G[i].id \notin Before(G, i)
  BY DEF InOrder
<1>8. W.deps[G[i].id] = ReadsOf(StepIn(G, G[i].id)) \cap (IdsIn(G) \ {G[i].id})
  BY <1>5 DEF IsWired
<1>9. W.deps[G[i].id] = ReadsOf(G[i])
  BY <1>4, <1>6, <1>7, <1>8
<1> QED
  BY <1>4, <1>5, <1>6, <1>7, <1>9

\* The ends have the roles of ends, and what is between them one that has a priority.
AreRoles(W, r) ==
  /\ r = [id \in IdsIn(W.steps) |-> r[id]]
  /\ \A id \in IdsIn(W.steps) :
       /\ id \in W.sources => r[id] \in ContextualRoles
       /\ id \in W.sinks \ W.sources => r[id] = "measure"
       /\ Middle(W, id) => r[id] \in DOMAIN RoleOrder
Settled(W, r, id) == Middle(W, id) => \A d \in W.deps[id] : ~Inverted(r[d], r[id])

\* The strongest roles are among those given, and there is one if one has a priority.
LEMMA StrongestIs ==
  ASSUME NEW roles
  PROVE  /\ \A role \in Strongest(roles) :
              /\ role \in roles \cap DOMAIN RoleOrder
              /\ \A other \in roles \cap DOMAIN RoleOrder : RoleOrder[other] <= RoleOrder[role]
         /\ roles \cap DOMAIN RoleOrder # {} => \E role : role \in Strongest(roles)
<1>1. \A role \in Strongest(roles) :
        /\ role \in roles \cap DOMAIN RoleOrder
        /\ \A other \in roles \cap DOMAIN RoleOrder : RoleOrder[other] <= RoleOrder[role]
  BY DEF Strongest
<1>2. /\ DOMAIN RoleOrder = {"sub_condition", "condition", "support", "measure"}
      /\ RoleOrder["sub_condition"] = 0 /\ RoleOrder["condition"] = 1
      /\ RoleOrder["support"] = 2 /\ RoleOrder["measure"] = 3
  BY DEF RoleOrder
<1>3. ASSUME roles \cap DOMAIN RoleOrder # {}
      PROVE  \E role : role \in Strongest(roles)
  <2>1. CASE "measure" \in roles
    <3>1. "measure" \in Strongest(roles)
      BY <1>2, <2>1 DEF Strongest
    <3> QED
      BY <3>1
  <2>2. CASE "measure" \notin roles /\ "support" \in roles
    <3>1. "support" \in Strongest(roles)
      BY <1>2, <2>2 DEF Strongest
    <3> QED
      BY <3>1
  <2>3. CASE roles \cap {"measure", "support"} = {} /\ "condition" \in roles
    <3>1. "condition" \in Strongest(roles)
      BY <1>2, <2>3 DEF Strongest
    <3> QED
      BY <3>1
  <2>4. CASE roles \cap {"measure", "support", "condition"} = {}
    <3>1. "sub_condition" \in Strongest(roles)
      BY <1>2, <1>3, <2>4 DEF Strongest
    <3> QED
      BY <3>1
  <2> QED
    BY <2>1, <2>2, <2>3, <2>4
<1> QED
  BY <1>1, <1>3

\* A turn settles its step and leaves the others as they were.
LEMMA RaisedStepSettles ==
  ASSUME NEW W, NEW G, IsWired(W, G), NEW r, AreRoles(W, r), NEW id \in IdsIn(G)
  PROVE  /\ AreRoles(W, RaisedStep(W, r, id)) /\ Settled(W, RaisedStep(W, r, id), id)
         /\ \A other \in IdsIn(G) \ {id} : RaisedStep(W, r, id)[other] = r[other]
<1> DEFINE now == IF r[id] \in DOMAIN RoleOrder THEN RoleOrder[r[id]] ELSE 0 - 1
           needed == Required(W, r, id)
           stronger == {role \in needed : RoleOrder[role] > now}
           one == CHOOSE role \in stronger : TRUE
           next == RaisedStep(W, r, id)
<1>1. next = IF Middle(W, id) /\ stronger # {} THEN [r EXCEPT ![id] = one] ELSE r
  BY DEF RaisedStep
<1>2. /\ \A role \in needed :
           /\ role \in DOMAIN RoleOrder
           /\ \A d \in W.deps[id] : r[d] \in DOMAIN RoleOrder => RoleOrder[r[d]] <= RoleOrder[role]
      /\ \A d \in W.deps[id] : r[d] \in DOMAIN RoleOrder => \E role : role \in needed
  <2> DEFINE roles == {r[d] : d \in W.deps[id]}
  <2>1. needed = Strongest(roles)
    BY DEF Required
  <2>2. /\ \A role \in Strongest(roles) :
              /\ role \in roles \cap DOMAIN RoleOrder
              /\ \A other \in roles \cap DOMAIN RoleOrder : RoleOrder[other] <= RoleOrder[role]
        /\ roles \cap DOMAIN RoleOrder # {} => \E role : role \in Strongest(roles)
    <3> HIDE DEF roles
    <3> QED BY StrongestIs
  <2>3. \A d \in W.deps[id] : r[d] \in roles
    OBVIOUS
  <2> HIDE DEF roles, needed
  <2> QED
    BY <2>1, <2>2, <2>3
<1>3. /\ \A d \in W.deps[id] : d \in IdsIn(G) /\ d # id
      /\ W.steps = G
  BY DEF IsWired
<1>4. \A role \in DOMAIN RoleOrder : RoleOrder[role] \in 0 .. 3
  BY DEF RoleOrder
<1> HIDE DEF needed, next
<1>5. CASE Middle(W, id) /\ stronger # {}
  <2>1. one \in needed /\ next = [r EXCEPT ![id] = one]
    BY <1>1, <1>5
  <2> HIDE DEF one, stronger, now
  <2>2. DOMAIN next = IdsIn(G) /\ next[id] = one /\ \A other \in IdsIn(G) \ {id} : next[other] = r[other]
    BY <2>1, <1>3 DEF AreRoles
  <2>3. one \in DOMAIN RoleOrder
    BY <1>2, <2>1
  <2>4. AreRoles(W, next)
    <3>1. id \notin W.sources /\ id \notin W.sinks
      BY <1>5 DEF Middle
    <3>2. next = [x \in IdsIn(G) |-> next[x]]
      BY <2>1, <1>3 DEF AreRoles
    <3> QED
      BY <3>1, <3>2, <2>2, <2>3, <1>3 DEF AreRoles
  <2>5. \A d \in W.deps[id] : next[d] = r[d]
    BY <1>3, <2>2
  <2>6. Settled(W, next, id)
    <3> SUFFICES ASSUME NEW d \in W.deps[id], next[d] \in DOMAIN RoleOrder
                 PROVE  ~(RoleOrder[next[d]] > RoleOrder[next[id]])
      BY DEF Settled, Inverted
    <3> QED
      BY <1>2, <1>4, <2>1, <2>2, <2>3, <2>5
  <2> QED
    BY <2>2, <2>4, <2>6 DEF next
<1>6. CASE ~(Middle(W, id) /\ stronger # {})
  <2>1. next = r
    BY <1>1, <1>6
  <2>2. Settled(W, r, id)
    <3> SUFFICES ASSUME Middle(W, id), NEW d \in W.deps[id],
                        r[d] \in DOMAIN RoleOrder, r[id] \in DOMAIN RoleOrder
                 PROVE  ~(RoleOrder[r[d]] > RoleOrder[r[id]])
      BY DEF Settled, Inverted
    <3>1. PICK role : role \in needed
      BY <1>2
    <3>2. ~(RoleOrder[role] > RoleOrder[r[id]])
      BY <1>6, <3>1
    <3> QED
      BY <1>2, <1>4, <3>1, <3>2
  <2> QED
    BY <2>1, <2>2 DEF next
<1> QED
  BY <1>5, <1>6

\* The assignments of roles a pass goes from and to.
Assignments(W) ==
  {r \in [IdsIn(W.steps) -> ContextualRoles \cup DOMAIN RoleOrder] : AreRoles(W, r)}

\* Roles that fit the ends are one of the assignments.
LEMMA RolesAssign ==
  ASSUME NEW W, NEW r
  PROVE  r \in Assignments(W) <=> AreRoles(W, r)
<1> SUFFICES ASSUME AreRoles(W, r) PROVE r \in [IdsIn(W.steps) -> ContextualRoles \cup DOMAIN RoleOrder]
  BY DEF Assignments
<1>1. "measure" \in DOMAIN RoleOrder
  BY DEF RoleOrder
<1>2. \A id \in IdsIn(W.steps) : r[id] \in ContextualRoles \cup DOMAIN RoleOrder
  BY <1>1 DEF AreRoles, Middle
<1> QED
  BY <1>2 DEF AreRoles

\* One pass, step by step.
LEMMA PassRuns ==
  ASSUME NEW G, Listing(G), NEW W, IsWired(W, G), NEW r, AreRoles(W, r)
  PROVE  \E after : /\ after[0] = r
                    /\ \A i \in 1 .. Len(G) : after[i] = RaisedStep(W, after[i - 1], G[i].id)
                    /\ \A i \in 0 .. Len(G) : AreRoles(W, after[i])
                    /\ RaisedOnce(W, r) = after[Len(G)]
<1> DEFINE N == Len(G)
           D == Assignments(W)
           turn == [i \in 1 .. N |-> [q \in D |-> RaisedStep(W, q, G[i].id)]]
           Loop(f) == f = [i \in 0 .. N |-> IF i = 0 THEN r ELSE RaisedStep(W, f[i - 1], G[i].id)]
<1>1. N \in Nat /\ DOMAIN G = 1 .. N /\ W.steps = G /\ r \in D
  BY HeadOfList, RolesAssign DEF IsWired
<1>2. ASSUME NEW i \in 1 .. N, NEW q \in D
      PROVE  RaisedStep(W, q, G[i].id) \in D
  <2>1. G[i].id \in IdsIn(G)
    BY <1>1 DEF IdsIn, ToSet
  <2>2. AreRoles(W, q)
    BY RolesAssign
  <2>3. AreRoles(W, RaisedStep(W, q, G[i].id))
    BY <2>1, <2>2, RaisedStepSettles
  <2> QED
    BY <2>3, RolesAssign
<1>3. Turns(N, D, turn)
  <2> HIDE DEF D, N
  <2> QED
    BY <1>2 DEF Turns
<1>4. PICK run : Run(N, D, r, turn, run)
  <2> HIDE DEF N, turn, D
  <2> QED
    BY Zenon, <1>1, <1>3, LoopRuns
<1>5. Loop(run)
  <2>1. run = [i \in 0 .. N |-> run[i]]
    BY <1>4 DEF Run
  <2>2. ASSUME NEW i \in 0 .. N
        PROVE  run[i] = IF i = 0 THEN r ELSE RaisedStep(W, run[i - 1], G[i].id)
    <3>1. CASE i = 0
      BY <3>1, <1>4 DEF Run
    <3>2. CASE i # 0
      <4>1. i \in 1 .. N /\ run[i - 1] \in D
        <5> HIDE DEF D
        <5> QED BY <3>2, <1>1, <1>4 DEF Run
      <4> HIDE DEF D, N
      <4> QED
        BY Zenon, <4>1, <3>2, <1>4 DEF Run
    <3> QED
      BY <3>1, <3>2
  <2> QED
    BY <2>1, <2>2
<1> DEFINE after == CHOOSE f : Loop(f)
<1>6. Loop(after)
  BY Zenon, <1>5
<1>7. RaisedOnce(W, r) = after[N]
  BY <1>1 DEF RaisedOnce
<1> HIDE DEF after
<1>8. after[0] = r /\ \A i \in 1 .. N : after[i] = RaisedStep(W, after[i - 1], G[i].id)
  <2>1. \A i \in 0 .. N : after[i] = IF i = 0 THEN r ELSE RaisedStep(W, after[i - 1], G[i].id)
    BY Zenon, <1>6
  <2> HIDE DEF N
  <2>2. 0 \in 0 .. N /\ \A k \in 1 .. N : k \in 0 .. N /\ k # 0
    BY <1>1
  <2> QED
    BY Zenon, <2>1, <2>2
<1> DEFINE T == {i \in 0 .. N : after[i] \in D}
<1>9. 0 .. N \subseteq T
  <2>1. 0 \in T
    BY <1>1, <1>8
  <2>2. ASSUME NEW i \in 0 .. N - 1, i \in T
        PROVE  i + 1 \in T
    <3>1. i + 1 \in 1 .. N /\ after[i] \in D /\ (i + 1) - 1 = i /\ i + 1 \in 0 .. N
      <4> HIDE DEF D
      <4> QED BY <2>2, <1>1
    <3>2. after[i + 1] = RaisedStep(W, after[i], G[i + 1].id)
      BY <3>1, <1>8
    <3>3. RaisedStep(W, after[i], G[i + 1].id) \in D
      <4> HIDE DEF D, N
      <4> QED BY <3>1, <1>2
    <3> QED
      BY <3>1, <3>2, <3>3
  <2>3. T \in SUBSET Nat
    OBVIOUS
  <2> HIDE DEF T, N
  <2> QED
    BY Zenon, <1>1, <2>1, <2>2, <2>3, UpTo
<1>10. \A i \in 0 .. N : AreRoles(W, after[i])
  BY <1>9, RolesAssign
<1> QED
  BY <1>7, <1>8, <1>10

\* After a pass no step between the ends is below what it depends on: by its turn the steps it
\* depends on have had theirs.
LEMMA PassSettles ==
  ASSUME NEW G, Listing(G), InOrder(G), NEW W, IsWired(W, G), NEW r, AreRoles(W, r)
  PROVE  /\ AreRoles(W, RaisedOnce(W, r))
         /\ \A id \in IdsIn(G) : Settled(W, RaisedOnce(W, r), id)
<1> DEFINE N == Len(G)
<1>1. N \in Nat /\ DOMAIN G = 1 .. N
  BY HeadOfList
<1>2. PICK after : /\ after[0] = r
                   /\ \A i \in 1 .. N : after[i] = RaisedStep(W, after[i - 1], G[i].id)
                   /\ \A i \in 0 .. N : AreRoles(W, after[i])
                   /\ RaisedOnce(W, r) = after[N]
  BY PassRuns
<1> DEFINE T == {i \in 0 .. N : \A j \in 1 .. i : Settled(W, after[i], G[j].id)}
<1>3. 0 .. N \subseteq T
  <2>1. 0 \in T
    BY <1>1
  <2>2. ASSUME NEW i \in 0 .. N - 1, i \in T
        PROVE  i + 1 \in T
    <3> DEFINE id == G[i + 1].id
               old == after[i]
               new == after[i + 1]
    <3>1. /\ i + 1 \in 1 .. N /\ i + 1 \in 0 .. N /\ i \in 0 .. N /\ (i + 1) - 1 = i
          /\ \A j \in 1 .. i : Settled(W, old, G[j].id)
          /\ \A j \in 1 .. i : j \in DOMAIN G
      BY <2>2, <1>1
    <3>2. new = RaisedStep(W, old, id) /\ AreRoles(W, old)
      BY <1>2, <3>1
    <3>3. id \in IdsIn(G)
      BY <1>1, <3>1 DEF IdsIn, ToSet
    <3>4. Settled(W, new, id) /\ \A other \in IdsIn(G) \ {id} : new[other] = old[other]
      <4> HIDE DEF id, old, new
      <4> QED BY <3>2, <3>3, RaisedStepSettles
    <3>5. ASSUME NEW j \in 1 .. i
          PROVE  Settled(W, new, G[j].id)
      <4>1. id \notin Before(G, i + 1) /\ Before(G, i + 1) \subseteq IdsIn(G)
        BY <1>1, <3>1, StepsInOrder
      <4>2. j \in DOMAIN G /\ j \in 1 .. (i + 1) - 1 /\ \A k \in 1 .. j - 1 : k \in 1 .. (i + 1) - 1
        BY <3>1
      <4>3. G[j].id \in Before(G, i + 1) /\ Before(G, j) \subseteq Before(G, i + 1)
        BY <4>2 DEF Before
      <4>4. W.deps[G[j].id] \subseteq Before(G, j)
        BY <4>2, StepsInOrder
      <4>5. new[G[j].id] = old[G[j].id] /\ \A d \in W.deps[G[j].id] : new[d] = old[d]
        <5> HIDE DEF id, new, old
        <5> QED BY <3>4, <4>1, <4>3, <4>4
      <4>6. Settled(W, old, G[j].id)
        BY <3>1
      <4> HIDE DEF new, old
      <4> QED
        BY <4>5, <4>6 DEF Settled
    <3>6. \A j \in 1 .. i + 1 : j \in 1 .. i \/ j = i + 1
      BY <3>1
    <3> QED
      BY <3>1, <3>4, <3>5, <3>6
  <2>3. T \in SUBSET Nat
    OBVIOUS
  <2> HIDE DEF T, N
  <2> QED
    BY Zenon, <1>1, <2>1, <2>2, <2>3, UpTo
<1>4. N \in T /\ AreRoles(W, after[N])
  BY <1>1, <1>2, <1>3
<1>5. \A id \in IdsIn(G) : \E j \in 1 .. N : id = G[j].id
  BY <1>1 DEF IdsIn, ToSet
<1> QED
  BY <1>2, <1>4, <1>5

\* What the roles are before the first pass.
LEMMA DeclaredRoles ==
  ASSUME NEW G, NEW W, IsWired(W, G),
         NEW r, r = [id \in IdsIn(G) |-> FactorizedRole(W, StepIn(G, id))]
  PROVE  AreRoles(W, r)
<1>1. W.steps = G
  BY DEF IsWired
<1>2. ASSUME NEW id \in IdsIn(G)
      PROVE  /\ id \in W.sources => r[id] \in ContextualRoles
             /\ id \in W.sinks \ W.sources => r[id] = "measure"
             /\ Middle(W, id) => r[id] \in DOMAIN RoleOrder
  <2> DEFINE n == StepIn(G, id)
  <2>1. n.id = id
    <3>1. \E m \in ToSet(G) : m.id = id
      BY DEF IdsIn
    <3> QED
      BY <3>1 DEF StepIn
  <2>2. r[id] = FactorizedRole(W, n)
    OBVIOUS
  <2>3. /\ "extent" \in ContextualRoles /\ "temporal_extent" \in ContextualRoles
        /\ \A op \in DOMAIN SemanticRole : SemanticRole[op] \in DOMAIN RoleOrder
        /\ {"sub_condition", "condition", "support"} \subseteq DOMAIN RoleOrder
    BY DEF ContextualRoles, SemanticRole, RoleOrder
  <2> HIDE DEF n
  <2>4. CASE id \in W.sources
    <3>1. r[id] = "extent" \/ r[id] = "temporal_extent"
      BY <2>1, <2>2, <2>4 DEF FactorizedRole, Middle
    <3> QED
      BY <2>3, <2>4, <3>1 DEF Middle
  <2>5. CASE id \in W.sinks \ W.sources
    <3>1. r[id] = "measure"
      BY <2>1, <2>2, <2>5 DEF FactorizedRole, Middle
    <3> QED
      BY <2>5, <3>1 DEF Middle
  <2>6. CASE Middle(W, id)
    <3>1. \/ n.op \in DOMAIN SemanticRole /\ r[id] = SemanticRole[n.op]
          \/ r[id] \in {"sub_condition", "condition", "support"}
      BY <2>1, <2>2, <2>6 DEF FactorizedRole, Middle
    <3> QED
      BY <2>3, <2>6, <3>1 DEF Middle
  <2> QED
    BY <2>4, <2>5, <2>6 DEF Middle
<1> QED
  BY <1>1, <1>2 DEF AreRoles

\* As many passes as there are steps end with one, if there are steps.
LEMMA RolesSettle ==
  ASSUME NEW G, Listing(G), InOrder(G), NEW W, IsWired(W, G)
  PROVE  AreRoles(W, RoleOf(W)) /\ \A id \in IdsIn(G) : Settled(W, RoleOf(W), id)
<1> DEFINE N == Len(G)
           D == Assignments(W)
           declared == [id \in IdsIn(G) |-> FactorizedRole(W, StepIn(G, id))]
           turn == [i \in 1 .. N |-> [q \in D |-> RaisedOnce(W, q)]]
           Loop(f) == f = [i \in 0 .. N |-> IF i = 0 THEN declared ELSE RaisedOnce(W, f[i - 1])]
<1>1. N \in Nat /\ DOMAIN G = 1 .. N /\ W.steps = G
  BY HeadOfList DEF IsWired
<1>2. declared \in D
  <2> HIDE DEF D
  <2>1. AreRoles(W, declared)
    BY DeclaredRoles
  <2> QED
    BY <2>1, RolesAssign DEF D
<1>3. ASSUME NEW q \in D
      PROVE  /\ RaisedOnce(W, q) \in D
             /\ \A id \in IdsIn(G) : Settled(W, RaisedOnce(W, q), id)
  <2>1. AreRoles(W, q)
    BY RolesAssign
  <2>2. AreRoles(W, RaisedOnce(W, q)) /\ \A id \in IdsIn(G) : Settled(W, RaisedOnce(W, q), id)
    BY <2>1, PassSettles
  <2> QED
    BY <2>2, RolesAssign
<1>4. Turns(N, D, turn)
  <2> HIDE DEF D, N
  <2> QED
    BY <1>3 DEF Turns
<1> HIDE DEF declared
<1>5. PICK run : Run(N, D, declared, turn, run)
  <2> HIDE DEF N, turn, D
  <2> QED
    BY Zenon, <1>1, <1>2, <1>4, LoopRuns
<1>6. Loop(run)
  <2>1. run = [i \in 0 .. N |-> run[i]]
    BY <1>5 DEF Run
  <2>2. ASSUME NEW i \in 0 .. N
        PROVE  run[i] = IF i = 0 THEN declared ELSE RaisedOnce(W, run[i - 1])
    <3>1. CASE i = 0
      BY <3>1, <1>5 DEF Run
    <3>2. CASE i # 0
      <4>1. i \in 1 .. N /\ run[i - 1] \in D
        <5> HIDE DEF D
        <5> QED BY <3>2, <1>1, <1>5 DEF Run
      <4> HIDE DEF D, N
      <4> QED
        BY Zenon, <4>1, <3>2, <1>5 DEF Run
    <3> QED
      BY <3>1, <3>2
  <2> QED
    BY <2>1, <2>2
<1> DEFINE after == CHOOSE f : Loop(f)
<1>7. Loop(after)
  BY Zenon, <1>6
<1>8. RoleOf(W) = after[N]
  BY <1>1 DEF RoleOf, declared
<1> HIDE DEF after
<1>9. after[0] = declared /\ \A i \in 1 .. N : after[i] = RaisedOnce(W, after[i - 1])
  <2>1. \A i \in 0 .. N : after[i] = IF i = 0 THEN declared ELSE RaisedOnce(W, after[i - 1])
    BY Zenon, <1>7
  <2> HIDE DEF N
  <2>2. 0 \in 0 .. N /\ \A k \in 1 .. N : k \in 0 .. N /\ k # 0
    BY <1>1
  <2> QED
    BY Zenon, <2>1, <2>2
<1> DEFINE T == {i \in 0 .. N : after[i] \in D}
<1>10. 0 .. N \subseteq T
  <2>1. 0 \in T
    BY <1>1, <1>2, <1>9
  <2>2. ASSUME NEW i \in 0 .. N - 1, i \in T
        PROVE  i + 1 \in T
    <3>1. i + 1 \in 1 .. N /\ after[i] \in D /\ (i + 1) - 1 = i /\ i + 1 \in 0 .. N
      <4> HIDE DEF D
      <4> QED BY <2>2, <1>1
    <3>2. after[i + 1] = RaisedOnce(W, after[i])
      BY <3>1, <1>9
    <3>3. RaisedOnce(W, after[i]) \in D
      <4> HIDE DEF D, N
      <4> QED BY <3>1, <1>3
    <3> QED
      BY <3>1, <3>2, <3>3
  <2>3. T \in SUBSET Nat
    OBVIOUS
  <2> HIDE DEF T, N
  <2> QED
    BY Zenon, <1>1, <2>1, <2>2, <2>3, UpTo
<1>11. AreRoles(W, after[N])
  <2>1. N \in T
    BY <1>1, <1>10
  <2> QED
    BY <2>1, RolesAssign
<1>12. ASSUME NEW id \in IdsIn(G)
       PROVE  Settled(W, after[N], id)
  <2>1. PICK i \in DOMAIN G : G[i].id = id
    BY DEF IdsIn, ToSet
  <2>2. N \in 1 .. N /\ N - 1 \in T
    BY <1>1, <1>10, <2>1
  <2>3. after[N - 1] \in D /\ after[N] = RaisedOnce(W, after[N - 1])
    BY <1>9, <2>2
  <2> HIDE DEF D, T, N
  <2> QED
    BY <1>3, <2>3
<1> QED
  BY <1>8, <1>11, <1>12

\* No step is below what it depends on: a source depends on nothing, and a last step is a measure.
LEMMA RolesInOrder ==
  ASSUME NEW G, Listing(G), InOrder(G), NEW W, IsWired(W, G)
  PROVE  \A id \in IdsIn(G) : \A d \in W.deps[id] : ~Inverted(RoleOf(W)[d], RoleOf(W)[id])
<1> DEFINE r == RoleOf(W)
<1>1. AreRoles(W, r) /\ \A id \in IdsIn(G) : Settled(W, r, id)
  BY RolesSettle
<1>2. W.steps = G /\ W.sources = {id \in IdsIn(G) : W.deps[id] = {}}
  BY DEF IsWired
<1> HIDE DEF r
<1>3. ASSUME NEW id \in IdsIn(G), NEW d \in W.deps[id]
      PROVE  ~Inverted(r[d], r[id])
  <2>1. id \notin W.sources
    BY <1>2
  <2>2. CASE id \in W.sinks
    <3>1. r[id] = "measure"
      BY <1>1, <1>2, <2>1, <2>2 DEF AreRoles
    <3>2. RoleOrder["measure"] = 3 /\ \A role \in DOMAIN RoleOrder : RoleOrder[role] \in 0 .. 3
      BY DEF RoleOrder
    <3> QED
      BY <3>1, <3>2 DEF Inverted
  <2>3. CASE id \notin W.sinks
    BY <1>1, <2>1, <2>3 DEF Settled, Middle
  <2> QED
    BY <2>2, <2>3
<1> QED
  BY <1>3 DEF r
-----------------------------------------------------------------------------
\* What the steps emit. A concept has the role of the step that emits it, or that of a context,
\* or it is a measure that another step emits too.

RoleFits(H, roles, id, c) ==
  \/ H.role[c] = roles[id]
  \/ H.role[c] \in ContextualRoles
  \/ H.role[c] = "measure" /\ \E other \in DOMAIN H.emits : other # id /\ c \in H.emits[other]
IsEmission(H, roles, analysis, done) ==
  /\ H = [emits |-> H.emits, role |-> H.role]
  /\ DOMAIN H.emits = done /\ ToSet(analysis.pool) \subseteq DOMAIN H.role
  /\ \A id \in done : \A c \in H.emits[id] :
       /\ c \in (ToSet(analysis.pool) \cup {Derived(id)}) \cap DOMAIN H.role
       /\ RoleFits(H, roles, id, c)
  /\ \A c \in ToSet(analysis.pool) \ EmittedIn(H) : H.role[c] = analysis.node[c].role
EndsHaveRoles(W, roles) ==
  \A id \in IdsIn(W.steps) :
    /\ id \in W.sources => roles[id] \in ContextualRoles
    /\ id \in W.sinks \ W.sources => roles[id] = "measure"
Distinguished(analysis, ids) == \A id \in ids : Derived(id) \notin ToSet(analysis.pool)

\* The concepts of some roles, as a list.
LEMMA HavingIs ==
  ASSUME NEW analysis, Listing(analysis.pool), NEW roles
  PROVE  /\ Listing(Having(analysis, roles))
         /\ ToSet(Having(analysis, roles)) =
              {c \in ToSet(analysis.pool) : analysis.node[c].role \in roles}
<1> DEFINE pool == analysis.pool
           K == {k \in DOMAIN pool : analysis.node[pool[k]].role \in roles}
           H == ItemsAt(pool, K)
<1>1. Having(analysis, roles) = H
  BY DEF Having, Kept
<1>2. Listing(H) /\ ToSet(H) = {pool[k] : k \in DOMAIN pool \cap K}
  <2> HIDE DEF K
  <2> QED
    BY ItemsAtList
<1>3. {pool[k] : k \in DOMAIN pool \cap K} = {c \in ToSet(pool) : analysis.node[c].role \in roles}
  BY DEF ToSet
<1> HIDE DEF H, K
<1> QED
  BY <1>1, <1>2, <1>3

\* What a step emits no other emitted before, or it is one concept that ends of the plan share.
LEMMA EmitsAre ==
  ASSUME NEW W, NEW analysis, Listing(analysis.pool), NEW roles, NEW done, NEW H,
         IsEmission(H, roles, analysis, done), NEW id, id \notin done,
         Derived(id) \notin ToSet(analysis.pool), NEW named, NEW role
  PROVE  LET X == Emits(H, W, role, id, named, analysis)
         IN /\ X \subseteq ToSet(analysis.pool) \cup {Derived(id)}
            /\ X \cap EmittedIn(H) # {} => id \in W.sources \cup W.sinks
<1> DEFINE pool == ToSet(analysis.pool)
           X == Emits(H, W, role, id, named, analysis)
           own == (ToSet(named) \cap pool) \ EmittedIn(H)
           left == ToSet(Having(analysis, {role})) \ EmittedIn(H)
           contexts == IF id \in W.sources THEN Having(analysis, ContextualRoles) ELSE <<>>
           measures == IF id \in W.sinks THEN Having(analysis, {"measure"}) ELSE <<>>
           shared == contexts \o measures
<1>1. X = CASE own # {} -> own
            [] own = {} /\ left # {} -> left
            [] own = {} /\ left = {} /\ shared # <<>> -> {shared[1]}
            [] OTHER -> {Derived(id)}
  BY DEF Emits
<1>2. own \subseteq pool /\ left \subseteq pool /\ own \cap EmittedIn(H) = {} /\ left \cap EmittedIn(H) = {}
  BY HavingIs
<1>3. /\ Listing(contexts) /\ ToSet(contexts) \subseteq pool
      /\ Listing(measures) /\ ToSet(measures) \subseteq pool
      /\ contexts # <<>> => id \in W.sources
      /\ measures # <<>> => id \in W.sinks
  BY HavingIs, EmptyList
<1> HIDE DEF contexts, measures
<1>4. /\ shared # <<>> => shared[1] \in pool
      /\ shared # <<>> => contexts # <<>> \/ measures # <<>>
  <2>1. Listing(shared) /\ ToSet(shared) = ToSet(contexts) \cup ToSet(measures)
    BY <1>3, ListsTogether
  <2> HIDE DEF shared
  <2>2. shared # <<>> => shared[1] \in ToSet(shared)
    BY <2>1, HeadOfList
  <2>3. shared # <<>> => ToSet(shared) # {}
    BY <2>1, HeadOfList
  <2> QED
    BY <1>3, <2>1, <2>2, <2>3, EmptyList
<1>5. Derived(id) \notin EmittedIn(H)
  <2> SUFFICES ASSUME NEW s \in done, Derived(id) \in H.emits[s] PROVE FALSE
    BY DEF EmittedIn, IsEmission
  <2>1. Derived(id) \in pool \cup {Derived(s)}
    BY DEF IsEmission
  <2>2. s # id /\ (Derived(id) = Derived(s) => id = s)
    BY DEF Derived
  <2> QED
    BY <2>1, <2>2
<1> HIDE DEF own, left, shared, X
<1>6. X \subseteq pool \cup {Derived(id)} /\ (X \cap EmittedIn(H) # {} => id \in W.sources \cup W.sinks)
  <2>1. CASE own # {}
    BY <1>1, <1>2, <2>1
  <2>2. CASE own = {} /\ left # {}
    BY <1>1, <1>2, <2>2
  <2>3. CASE own = {} /\ left = {} /\ shared # <<>>
    BY <1>1, <1>3, <1>4, <2>3
  <2>4. CASE own = {} /\ left = {} /\ shared = <<>>
    BY <1>1, <1>5, <2>4
  <2> QED
    BY <2>1, <2>2, <2>3, <2>4
<1> QED
  BY <1>6 DEF X

\* A turn keeps what the earlier ones made fitting.
LEMMA TurnEmits ==
  ASSUME NEW W, NEW roles, EndsHaveRoles(W, roles), NEW analysis, Listing(analysis.pool), NEW done,
         NEW H, IsEmission(H, roles, analysis, done), NEW id, id \notin done, id \in IdsIn(W.steps),
         NEW X, X \subseteq ToSet(analysis.pool) \cup {Derived(id)},
         X \cap EmittedIn(H) # {} => id \in W.sources \cup W.sinks
  PROVE  IsEmission(Emitting(H, id, roles[id], X), roles, analysis, done \cup {id})
<1> DEFINE K == Emitting(H, id, roles[id], X)
           pool == ToSet(analysis.pool)
<1>1. K = [emits |-> Extended(H.emits, id, X),
           role |-> [c \in DOMAIN H.role \cup X |-> IF c \in X THEN roles[id] ELSE H.role[c]]]
  BY DEF Emitting
<1>2. /\ DOMAIN K.emits = done \cup {id} /\ K.emits[id] = X
      /\ \A s \in done : K.emits[s] = H.emits[s]
      /\ DOMAIN K.role = DOMAIN H.role \cup X
      /\ \A c \in X : K.role[c] = roles[id]
      /\ \A c \in DOMAIN H.role \ X : K.role[c] = H.role[c]
  BY <1>1 DEF Extended, IsEmission
<1>3. /\ DOMAIN H.emits = done /\ pool \subseteq DOMAIN H.role
      /\ \A s \in done : \A c \in H.emits[s] :
           c \in (pool \cup {Derived(s)}) \cap DOMAIN H.role /\ RoleFits(H, roles, s, c)
      /\ \A c \in pool \ EmittedIn(H) : H.role[c] = analysis.node[c].role
  BY DEF IsEmission
<1>4. K = [emits |-> K.emits, role |-> K.role]
  BY <1>1
<1> HIDE DEF K
<1>5. ASSUME NEW s \in done, NEW c \in H.emits[s]
      PROVE  RoleFits(K, roles, s, c)
  <2>1. CASE c \in X
    <3>1. id \in W.sources \cup W.sinks
      BY <1>3, <2>1 DEF EmittedIn
    <3>2. roles[id] \in ContextualRoles \/ roles[id] = "measure"
      BY <3>1 DEF EndsHaveRoles
    <3>3. s # id /\ c \in K.emits[id] /\ id \in DOMAIN K.emits /\ K.role[c] = roles[id]
      BY <1>2, <2>1
    <3> QED
      BY <3>2, <3>3 DEF RoleFits
  <2>2. CASE c \notin X
    <3>1. RoleFits(H, roles, s, c)
      BY <1>3
    <3>2. \A t \in DOMAIN H.emits : t \in DOMAIN K.emits /\ K.emits[t] = H.emits[t]
      BY <1>2, <1>3
    <3>3. K.role[c] = H.role[c]
      <4>1. c \in DOMAIN H.role
        BY <1>3
      <4> QED
        BY <1>2, <2>2, <4>1
    <3> QED
      BY <3>1, <3>2, <3>3 DEF RoleFits
  <2> QED
    BY <2>1, <2>2
<1>6. \A c \in X : RoleFits(K, roles, id, c)
  BY <1>2 DEF RoleFits
<1>7. \A s \in done \cup {id} : \A c \in K.emits[s] :
        c \in (pool \cup {Derived(s)}) \cap DOMAIN K.role /\ RoleFits(K, roles, s, c)
  <2>1. \A c \in X : c \in (pool \cup {Derived(id)}) \cap DOMAIN K.role
    BY <1>2
  <2>2. ASSUME NEW s \in done, NEW c \in K.emits[s]
        PROVE  c \in (pool \cup {Derived(s)}) \cap DOMAIN K.role
    BY <1>2, <1>3
  <2> QED
    BY <1>2, <1>5, <1>6, <2>1, <2>2
<1>8. ASSUME NEW c \in pool \ EmittedIn(K)
      PROVE  K.role[c] = analysis.node[c].role
  <2>1. c \notin X /\ c \notin EmittedIn(H)
    BY <1>2, <1>3 DEF EmittedIn
  <2> QED
    BY <1>2, <1>3, <2>1
<1>9. IsEmission(K, roles, analysis, done \cup {id})
  BY <1>2, <1>3, <1>4, <1>7, <1>8 DEF IsEmission
<1> QED
  BY <1>9 DEF K
-----------------------------------------------------------------------------
\* The turns of the steps, one after another.

TurnsTo(W, roles, named, analysis, m, after) ==
  after = [i \in 0 .. m |->
             IF i = 0 THEN [emits |-> <<>>, role |-> [c \in ToSet(analysis.pool) |-> analysis.node[c].role]]
             ELSE Emitting(after[i - 1], W.steps[i].id, roles[W.steps[i].id],
                           Emits(after[i - 1], W, roles[W.steps[i].id], W.steps[i].id,
                                 named[W.steps[i].id], analysis))]

\* There is a run of the turns.
LEMMA EmissionRuns ==
  ASSUME NEW W, NEW roles, NEW named, NEW analysis, NEW n \in Nat
  PROVE  \E after : TurnsTo(W, roles, named, analysis, n, after)
<1> DEFINE none == [emits |-> <<>>, role |-> [c \in ToSet(analysis.pool) |-> analysis.node[c].role]]
           Turn(H, i) == Emitting(H, W.steps[i].id, roles[W.steps[i].id],
                                  Emits(H, W, roles[W.steps[i].id], W.steps[i].id,
                                        named[W.steps[i].id], analysis))
           Runs(m, f) == f = [i \in 0 .. m |-> IF i = 0 THEN none ELSE Turn(f[i - 1], i)]
           T == {m \in 0 .. n : \E after : Runs(m, after)}
<1>0. \A m, f : TurnsTo(W, roles, named, analysis, m, f) <=> Runs(m, f)
  BY Zenon DEF TurnsTo
<1> HIDE DEF none, Turn
<1>1. 0 \in T
  <2> DEFINE after == [i \in 0 .. 0 |-> none]
  <2>1. after = [i \in 0 .. 0 |-> IF i = 0 THEN none ELSE Turn(after[i - 1], i)]
    OBVIOUS
  <2>2. Runs(0, after) /\ 0 \in 0 .. n
    BY <2>1
  <2> HIDE DEF Runs, after
  <2> QED
    BY <2>2
<1>2. ASSUME NEW m \in 0 .. n - 1, m \in T
      PROVE  m + 1 \in T
  <2>1. PICK after : Runs(m, after)
    BY <1>2
  <2> DEFINE more == [i \in 0 .. m + 1 |-> IF i = m + 1 THEN Turn(after[m], m + 1) ELSE after[i]]
  <2>2. \A i \in 0 .. m : after[i] = IF i = 0 THEN none ELSE Turn(after[i - 1], i)
    BY Zenon, <2>1
  <2>3. ASSUME NEW i \in 0 .. m + 1
        PROVE  more[i] = IF i = 0 THEN none ELSE Turn(more[i - 1], i)
    <3>1. CASE i = m + 1
      <4>1. i - 1 = m /\ i # 0 /\ m \in 0 .. m + 1 /\ m # m + 1
        BY <3>1
      <4>2. more[i] = Turn(after[m], i) /\ more[i - 1] = after[m]
        BY <3>1, <4>1
      <4> HIDE DEF more
      <4> QED
        BY <4>1, <4>2
    <3>2. CASE i # m + 1
      <4>1. i \in 0 .. m /\ (i = 0 \/ (i - 1 \in 0 .. m + 1 /\ i - 1 # m + 1))
        BY <3>2
      <4>2. more[i] = after[i] /\ (i # 0 => more[i - 1] = after[i - 1])
        BY <3>2, <4>1
      <4> HIDE DEF more
      <4> QED
        BY <4>1, <4>2, <2>2
    <3> QED
      BY <3>1, <3>2
  <2>4. more = [i \in 0 .. m + 1 |-> more[i]]
    OBVIOUS
  <2> HIDE DEF more
  <2>5. Runs(m + 1, more)
    BY <2>3, <2>4
  <2>6. m + 1 \in 0 .. n
    OBVIOUS
  <2> QED
    BY <2>5, <2>6
<1>3. 0 .. n \subseteq T
  <2>1. T \in SUBSET Nat
    OBVIOUS
  <2> HIDE DEF T
  <2> QED
    BY <1>1, <1>2, <2>1, UpTo
<1>4. n \in T
  <2> HIDE DEF T
  <2> QED
    BY <1>3
<1>5. \E after : Runs(n, after)
  BY <1>4
<1> HIDE DEF Runs
<1> QED
  BY Zenon, <1>0, <1>5

\* After the turns of all steps, what each emits fits its role.
LEMMA StepsEmit ==
  ASSUME NEW G, Listing(G), InOrder(G), NEW W, IsWired(W, G), NEW roles, EndsHaveRoles(W, roles),
         NEW analysis, Listing(analysis.pool), Distinguished(analysis, IdsIn(G)), NEW named
  PROVE  IsEmission(ConceptsEmitted(W, roles, named, analysis), roles, analysis, IdsIn(G))
<1> DEFINE n == Len(W.steps)
           none == [emits |-> <<>>, role |-> [c \in ToSet(analysis.pool) |-> analysis.node[c].role]]
           Turn(H, i) == Emitting(H, W.steps[i].id, roles[W.steps[i].id],
                                  Emits(H, W, roles[W.steps[i].id], W.steps[i].id,
                                        named[W.steps[i].id], analysis))
           Loop(f) == f = [i \in 0 .. n |-> IF i = 0 THEN none ELSE Turn(f[i - 1], i)]
           after == CHOOSE f : Loop(f)
<1>1. n \in Nat /\ W.steps = G /\ n = Len(G) /\ DOMAIN G = 1 .. n
  BY HeadOfList DEF IsWired
<1>2. PICK f : TurnsTo(W, roles, named, analysis, n, f)
  <2> HIDE DEF n
  <2> QED
    BY <1>1, EmissionRuns
<1>3. Loop(f)
  BY Zenon, <1>2 DEF TurnsTo
<1>4. Loop(after)
  BY Zenon, <1>3
<1>5. ConceptsEmitted(W, roles, named, analysis) = after[n]
  BY DEF ConceptsEmitted
<1> HIDE DEF after, none, Turn
<1>6. \A i \in 0 .. n : after[i] = IF i = 0 THEN none ELSE Turn(after[i - 1], i)
  BY Zenon, <1>4
<1> DEFINE T == {i \in 0 .. n : IsEmission(after[i], roles, analysis, Before(G, i + 1))}
<1>7. 0 .. n \subseteq T
  <2>1. 0 \in T
    <3>1. after[0] = none /\ 0 \in 0 .. n
      BY <1>1, <1>6
    <3>2. Before(G, 0 + 1) = {}
      BY DEF Before
    <3>3. /\ none = [emits |-> none.emits, role |-> none.role] /\ DOMAIN none.emits = {}
          /\ ToSet(analysis.pool) \subseteq DOMAIN none.role
          /\ \A c \in ToSet(analysis.pool) \ EmittedIn(none) : none.role[c] = analysis.node[c].role
      BY EmptyList DEF none
    <3>4. IsEmission(none, roles, analysis, {})
      BY <3>3 DEF IsEmission
    <3> QED
      BY <3>1, <3>2, <3>4
  <2>2. ASSUME NEW i \in 0 .. n - 1, i \in T
        PROVE  i + 1 \in T
    <3>1. i + 1 \in 0 .. n /\ i + 1 # 0 /\ (i + 1) - 1 = i /\ i + 1 \in DOMAIN G
      BY <1>1, <2>2
    <3> DEFINE id == G[i + 1].id
               done == Before(G, i + 1)
               X == Emits(after[i], W, roles[id], id, named[id], analysis)
    <3>2. after[i + 1] = Emitting(after[i], id, roles[id], X)
      BY <1>1, <1>6, <3>1 DEF Turn
    <3>3. id \notin done /\ id \in IdsIn(G) /\ IsEmission(after[i], roles, analysis, done)
      BY <2>2, <3>1, StepsInOrder
    <3>4. Before(G, (i + 1) + 1) = done \cup {id}
      <4>1. 1 .. ((i + 1) + 1) - 1 = (1 .. (i + 1) - 1) \cup {i + 1}
        BY <1>1, <3>1
      <4> QED
        BY <4>1 DEF Before
    <3> HIDE DEF done, id
    <3>5. /\ X \subseteq ToSet(analysis.pool) \cup {Derived(id)}
          /\ X \cap EmittedIn(after[i]) # {} => id \in W.sources \cup W.sinks
      <4>1. Derived(id) \notin ToSet(analysis.pool)
        BY <3>3 DEF Distinguished
      <4> QED
        BY <3>3, <4>1, EmitsAre
    <3> HIDE DEF X
    <3>6. IsEmission(Emitting(after[i], id, roles[id], X), roles, analysis, done \cup {id})
      <4>1. id \in IdsIn(W.steps)
        BY <1>1, <3>3
      <4> QED
        BY <3>3, <3>5, <4>1, TurnEmits
    <3> QED
      BY <3>1, <3>2, <3>4, <3>6
  <2>3. T \in SUBSET Nat
    OBVIOUS
  <2> HIDE DEF T, n
  <2> QED
    BY <1>1, <2>1, <2>2, <2>3, UpTo
<1>8. Before(G, n + 1) = IdsIn(G)
  <2>1. 1 .. (n + 1) - 1 = DOMAIN G
    BY <1>1
  <2> QED
    BY <2>1 DEF Before, IdsIn, ToSet
<1>9. n \in 0 .. n
  BY <1>1
<1> QED
  BY <1>5, <1>7, <1>8, <1>9
-----------------------------------------------------------------------------
\* Names nothing has, and what the completion of the analysis leaves.

LEMMA UnusedIsNew ==
  ASSUME NEW name, NEW ids, IsFiniteSet(ids)
  PROVE  /\ Unused(name, ids) \notin ids
         /\ \E n : Unused(name, ids) = <<name, n>>
<1> DEFINE k == Cardinality(ids)
           T == {n \in 0 .. k : <<name, n>> \notin ids}
           f == [n \in 0 .. k |-> <<name, n>>]
           Free(n) == <<name, n>> \notin ids /\ \A m \in 0 .. n - 1 : <<name, m>> \in ids
<1>1. k \in Nat
  BY FS_CardinalityType
<1>2. T # {}
  <2> SUFFICES ASSUME T = {} PROVE FALSE
    OBVIOUS
  <2>1. f \in [0 .. k -> ids]
    OBVIOUS
  <2>2. IsFiniteSet(0 .. k) /\ Cardinality(0 .. k) = k + 1
    <3> HIDE DEF k
    <3>1. IsFiniteSet(0 .. k) /\ Cardinality(0 .. k) = IF 0 > k THEN 0 ELSE k - 0 + 1
      BY <1>1, FS_Interval
    <3> QED
      BY <1>1, <3>1
  <2>3. k < Cardinality(0 .. k)
    BY <1>1, <2>2
  <2>4. \A x, y \in 0 .. k : f[x] = f[y] => x = y
    OBVIOUS
  <2> DEFINE S == 0 .. k
  <2>5. f \in Injection(S, ids)
    <3> HIDE DEF f
    <3> QED
      BY <2>1, <2>4 DEF Injection, IsInjective
  <2> HIDE DEF f, S, k
  <2>6. Cardinality(S) <= Cardinality(ids)
    BY <2>5, FS_Injection
  <2> QED
    BY <1>1, <2>2, <2>6 DEF S, k
<1>3. PICK n \in T : \A m \in T : n <= m
  <2>1. T \in SUBSET Nat
    BY <1>1
  <2> HIDE DEF T
  <2> QED
    BY <1>2, <2>1, LeastNumber
<1>4. n \in 0 .. k /\ Free(n)
  <2>1. \A m \in 0 .. n - 1 : m \in 0 .. k /\ m \notin T
    BY <1>1, <1>3
  <2> QED
    BY <1>3, <2>1
<1> DEFINE chosen == CHOOSE i \in 0 .. k : Free(i)
<1>5. chosen \in 0 .. k /\ Free(chosen)
  <2> HIDE DEF Free, k
  <2> QED
    BY <1>4
<1>6. Unused(name, ids) = <<name, chosen>>
  BY DEF Unused
<1> HIDE DEF chosen
<1> QED
  BY <1>5, <1>6

\* A list has finitely many members.
LEMMA ListIsFinite ==
  ASSUME NEW s, Listing(s)
  PROVE  IsFiniteSet(ToSet(s))
<1>1. Len(s) \in Nat /\ DOMAIN s = 1 .. Len(s)
  BY HeadOfList
<1>2. IsFiniteSet(DOMAIN s)
  BY <1>1, NumbersCount
<1>3. IsFiniteSet({s[i] : i \in DOMAIN s})
  BY <1>2, ImageIsFinite
<1> QED
  BY <1>3 DEF ToSet

\* A graph has finitely many names.
LEMMA IdsAreFinite ==
  ASSUME NEW G, Listing(G)
  PROVE  IsFiniteSet(IdsIn(G))
<1> DEFINE f == [n \in ToSet(G) |-> n.id]
<1>1. IsFiniteSet(DOMAIN f)
  BY ListIsFinite
<1>2. IsFiniteSet({f[n] : n \in DOMAIN f})
  <2> HIDE DEF f
  <2> QED
    BY <1>1, ImageIsFinite
<1>3. {f[n] : n \in DOMAIN f} = IdsIn(G)
  BY DEF IdsIn
<1> QED
  BY <1>2, <1>3

\* The completed analysis names the concepts there were and new ones, and there is a measure.
LEMMA CompletedIs ==
  ASSUME NEW analysis, Listing(analysis.pool), NEW done, done = Completed(analysis)
  PROVE  /\ Listing(done.pool)
         /\ \E c \in ToSet(done.pool) : done.node[c].role = "measure"
         /\ \A c \in ToSet(done.pool) :
              c \in ToSet(analysis.pool) \/ \E n : c = <<"question_context", n>> \/ c = <<"requested_answer", n>>
<1> DEFINE ids == ToSet(analysis.pool)
           Lacks(roles) == \A id \in ids : analysis.node[id].role \notin roles
           context == IF Lacks(ContextualRoles) THEN <<Unused("question_context", ids)>> ELSE <<>>
           answer == IF Lacks({"measure"}) THEN <<Unused("requested_answer", ids)>> ELSE <<>>
           Supplied(role) == [core |-> "object", role |-> role, implicit |-> FALSE, named |-> FALSE]
           node == [id \in ids \cup ToSet(context) \cup ToSet(answer) |->
                      CASE id \in ToSet(answer) -> Supplied("measure")
                        [] id \in ToSet(context) \ ToSet(answer) -> Supplied("extent")
                        [] OTHER -> analysis.node[id]]
<1>1. done.pool = context \o analysis.pool \o answer /\ done.node = node
  <2>1. done = [pool |-> context \o analysis.pool \o answer, node |-> node]
    BY DEF Completed
  <2> HIDE DEF node, context, answer
  <2> QED
    BY <2>1
<1>2. IsFiniteSet(ids)
  BY ListIsFinite
<1>3. /\ Listing(context) /\ ToSet(context) \cap ids = {}
      /\ \A c \in ToSet(context) : \E n : c = <<"question_context", n>>
  BY <1>2, UnusedIsNew, ListOfOne, EmptyList
<1>4. /\ Listing(answer)
      /\ \A c \in ToSet(answer) : \E n : c = <<"requested_answer", n>>
  BY <1>2, UnusedIsNew, ListOfOne, EmptyList
<1>5. Lacks({"measure"}) => \E c : c \in ToSet(answer)
  <2>1. ASSUME Lacks({"measure"}) PROVE ToSet(answer) = {Unused("requested_answer", ids)}
    BY <2>1, ListOfOne
  <2> QED
    BY <2>1
<1>6. \A c \in ToSet(answer) : c \in ids \cup ToSet(context) \cup ToSet(answer) /\ node[c].role = "measure"
  <2> HIDE DEF answer, context
  <2> QED
    OBVIOUS
<1>7. \A c \in ids : c \notin ToSet(answer) => node[c] = analysis.node[c]
  <2> HIDE DEF answer, context
  <2> QED
    BY <1>3
<1>8. ~Lacks({"measure"}) => ToSet(answer) = {} /\ \E c \in ids : analysis.node[c].role = "measure"
  BY EmptyList
<1> HIDE DEF context, answer, node, Lacks
<1>9. Listing(done.pool) /\ ToSet(done.pool) = (ToSet(context) \cup ids) \cup ToSet(answer)
  <2>1. Listing(context \o analysis.pool) /\ ToSet(context \o analysis.pool) = ToSet(context) \cup ids
    BY <1>3, ListsTogether
  <2> DEFINE front == context \o analysis.pool
  <2>2. done.pool = front \o answer
    BY <1>1
  <2> HIDE DEF front, ids
  <2>3. Listing(front \o answer) /\ ToSet(front \o answer) = ToSet(front) \cup ToSet(answer)
    BY <1>4, <2>1, ListsTogether DEF front
  <2> QED
    BY <2>1, <2>2, <2>3 DEF front
<1>10. \E c \in ToSet(done.pool) : done.node[c].role = "measure"
  <2>1. CASE Lacks({"measure"})
    BY <1>1, <1>5, <1>6, <1>9, <2>1
  <2>2. CASE ~Lacks({"measure"})
    <3>1. PICK c \in ids : analysis.node[c].role = "measure"
      BY <1>8, <2>2
    <3>2. c \notin ToSet(answer)
      BY <1>8, <2>2
    <3> QED
      BY <1>1, <1>7, <1>9, <3>1, <3>2
  <2> QED
    BY <2>1, <2>2
<1> QED
  BY <1>3, <1>4, <1>9, <1>10
-----------------------------------------------------------------------------
\* The measure that ends a plan whose last steps are all its first ones too: there is nothing in
\* between.

LEMMA EndingIs ==
  ASSUME NEW G, Listing(G), NEW W, IsWired(W, G)
  PROVE  \/ Ending(W) = <<>> /\ ~(W.sinks \subseteq W.sources)
         \/ /\ W.sinks \subseteq W.sources
            /\ \E m : Ending(W) = <<m>> /\ m.id \notin IdsIn(G)
<1> DEFINE m == MeasureOf(G, G[Len(G)])
<1>1. W.steps = G
  BY DEF IsWired
<1>2. Ending(W) = IF W.sinks \subseteq W.sources THEN <<m>> ELSE <<>>
  BY <1>1 DEF Ending
<1>3. m.id = Unused("measure", IdsIn(G))
  BY DEF MeasureOf
<1>4. m.id \notin IdsIn(G)
  <2>1. IsFiniteSet(IdsIn(G))
    BY IdsAreFinite
  <2> HIDE DEF m
  <2> QED
    BY <1>3, <2>1, UnusedIsNew
<1> HIDE DEF m
<1> QED
  BY <1>2, <1>4

\* When every last step is a source, every step is.
LEMMA NothingInBetween ==
  ASSUME NEW G, Listing(G), InOrder(G), NEW W, IsWired(W, G), W.sinks \subseteq W.sources
  PROVE  IdsIn(G) \subseteq W.sources
<1> DEFINE N == Len(G)
           T == {k \in 0 .. N : \A i \in 1 .. N : i > N - k => G[i].id \in W.sources}
<1>1. N \in Nat /\ DOMAIN G = 1 .. N
  BY HeadOfList
<1>2. 0 \in T
  BY <1>1
<1>3. ASSUME NEW k \in 0 .. N - 1, k \in T
      PROVE  k + 1 \in T
  <2> DEFINE j == N - k
             id == G[j].id
  <2>1. j \in DOMAIN G /\ k + 1 \in 0 .. N
    BY <1>1
  <2>2. \A i \in 1 .. N : i > j => G[i].id \in W.sources
    BY <1>3
  <2>3. id \in IdsIn(G) /\ Before(G, j) \subseteq IdsIn(G)
    BY <2>1, StepsInOrder
  <2>4. id \in W.sources
    <3> SUFFICES ASSUME id \notin W.sources PROVE FALSE
      OBVIOUS
    <3>1. id \notin W.sinks
      OBVIOUS
    <3>2. PICK other \in IdsIn(G) : id \in W.deps[other]
      <4>1. W.sinks = IdsIn(G) \ UNION {W.deps[s] : s \in IdsIn(G)}
        BY DEF IsWired
      <4> HIDE DEF id
      <4> QED
        BY <2>3, <3>1, <4>1
    <3>3. PICK i \in DOMAIN G : other = G[i].id
      BY <3>2 DEF IdsIn, ToSet
    <3>4. id \in Before(G, i)
      BY <3>2, <3>3, StepsInOrder
    <3>5. PICK h \in 1 .. i - 1 : id = G[h].id
      BY <3>4 DEF Before
    <3>6. i > j
      <4> SUFFICES ASSUME i <= j PROVE FALSE
        BY <1>1, <2>1, <3>3
      <4>1. h \in 1 .. j - 1
        BY <1>1, <2>1, <3>3
      <4>2. id \in Before(G, j)
        BY <3>5, <4>1 DEF Before
      <4> QED
        BY <2>1, <4>2 DEF InOrder
    <3>7. other \in W.sources
      BY <1>1, <2>2, <3>3, <3>6
    <3>8. W.deps[other] = {}
      BY <3>2, <3>7 DEF IsWired
    <3> QED
      BY <3>2, <3>8
  <2>5. \A i \in 1 .. N : i > N - (k + 1) => i = j \/ i > j
    <3> HIDE DEF N, id
    <3>1. N \in Int /\ k \in Int
      BY <1>1
    <3> QED
      BY <3>1
  <2> HIDE DEF j
  <2>6. \A i \in 1 .. N : i > N - (k + 1) => G[i].id \in W.sources
    BY <2>2, <2>4, <2>5
  <2> QED
    BY <2>1, <2>6
<1>4. N \in T
  <2>1. T \in SUBSET Nat
    BY <1>1
  <2> HIDE DEF T
  <2>2. 0 .. N \subseteq T
    BY <1>1, <1>2, <1>3, <2>1, UpTo
  <2>3. N \in 0 .. N
    BY <1>1
  <2> QED
    BY <2>2, <2>3
<1>5. \A i \in DOMAIN G : G[i].id \in W.sources
  <2>1. \A i \in 1 .. N : i > N - N
    BY <1>1
  <2> QED
    BY <1>1, <1>4, <2>1
<1> QED
  BY <1>5 DEF IdsIn, ToSet

\* With the ending, each step depends on what it did.
LEMMA EndedIsWired ==
  ASSUME NEW G, Listing(G), InOrder(G), NEW W, IsWired(W, G), NEW m, m.id \notin IdsIn(G),
         NEW S, S = G \o <<m>>, NEW V, IsWired(V, S)
  PROVE  /\ IdsIn(S) = IdsIn(G) \cup {m.id} /\ ToSet(S) = ToSet(G) \cup {m}
         /\ \A id \in IdsIn(G) : V.deps[id] = W.deps[id]
         /\ V.deps[m.id] \subseteq IdsIn(S)
<1>1. ToSet(S) = ToSet(G) \cup {m}
  BY ListOfOne, ListsTogether
<1>2. IdsIn(S) = IdsIn(G) \cup {m.id}
  BY <1>1 DEF IdsIn
<1>3. ASSUME NEW id \in IdsIn(G)
      PROVE  V.deps[id] = W.deps[id]
  <2>1. PICK i \in DOMAIN G : id = G[i].id
    BY DEF IdsIn, ToSet
  <2>2. \A n \in ToSet(G) : n.id = id => n = G[i]
    <3>1. \A j \in DOMAIN G : StepIn(G, G[j].id) = G[j]
      BY StepsInOrder
    <3> QED
      BY <2>1, <3>1 DEF ToSet
  <2>3. G[i] \in ToSet(G) /\ G[i] \in ToSet(S)
    BY <1>1 DEF ToSet
  <2>4. StepIn(S, id) = G[i]
    <3>1. StepIn(S, id) \in ToSet(S) /\ StepIn(S, id).id = id
      BY <2>1, <2>3 DEF StepIn
    <3> QED
      BY <1>1, <2>2, <3>1
  <2>5. V.deps[id] = ReadsOf(G[i]) \cap (IdsIn(S) \ {id})
    BY <1>2, <2>4 DEF IsWired
  <2>6. /\ W.deps[id] = ReadsOf(G[i]) /\ ReadsOf(G[i]) \subseteq IdsIn(G) /\ id \notin ReadsOf(G[i])
    BY <2>1, StepsInOrder
  <2> QED
    BY <1>2, <2>5, <2>6
<1>4. V.deps[m.id] \subseteq IdsIn(S)
  BY <1>2 DEF IsWired
<1> QED
  BY <1>1, <1>2, <1>3, <1>4

\* The roles of the steps of a bound plan, with V its wiring.
AreFinal(V, ids, roles) ==
  /\ \A id \in ids : \A d \in V.deps[id] : d \in ids /\ ~Inverted(roles[d], roles[id])
  /\ \E n \in ToSet(V.steps) : n.id \in ids /\ roles[n.id] = "measure"

\* The roles of a bound plan are in order, and some step of it is a measure.
LEMMA FinalRoles ==
  ASSUME NEW G, Listing(G), InOrder(G), NEW W, IsWired(W, G),
         NEW S, S = G \o Ending(W), NEW V, IsWired(V, S),
         NEW roles,
         roles = [id \in IdsIn(S) |-> IF id \in IdsIn(G) THEN RoleOf(W)[id] ELSE "measure"]
  PROVE  /\ AreFinal(V, IdsIn(S), roles) /\ EndsHaveRoles(W, roles) /\ Listing(S)
         /\ Ending(W) = <<>> => IdsIn(S) = IdsIn(G)
         /\ Ending(W) # <<>> =>
              /\ \A id \in IdsIn(G) : roles[id] \in ContextualRoles
              /\ IdsIn(S) = IdsIn(G) \cup {Ending(W)[1].id} /\ Ending(W)[1].id \notin IdsIn(G)
              /\ roles[Ending(W)[1].id] = "measure"
<1>1. W.steps = G /\ V.steps = S /\ AreRoles(W, RoleOf(W))
  BY RolesSettle DEF IsWired
<1>2. \A id \in IdsIn(G) : \A d \in W.deps[id] : d \in IdsIn(G) /\ ~Inverted(RoleOf(W)[d], RoleOf(W)[id])
  <2>1. \A id \in IdsIn(G) : W.deps[id] \subseteq IdsIn(G)
    BY DEF IsWired
  <2> QED
    BY <2>1, RolesInOrder
<1>3. CASE Ending(W) = <<>> /\ ~(W.sinks \subseteq W.sources)
  <2>1. S = G
    BY <1>3 DEF Listing
  <2>2. \A id \in IdsIn(G) : roles[id] = RoleOf(W)[id] /\ V.deps[id] = W.deps[id]
    <3>1. \A id \in IdsIn(G) : roles[id] = RoleOf(W)[id]
      BY <2>1
    <3>2. \A id \in IdsIn(G) : V.deps[id] = W.deps[id]
      <4>1. IsWired(V, G)
        BY <2>1
      <4> DEFINE Of(id) == ReadsOf(StepIn(G, id)) \cap (IdsIn(G) \ {id})
      <4>2. \A id \in IdsIn(G) : W.deps[id] = Of(id)
        BY Zenon DEF IsWired
      <4>3. \A id \in IdsIn(G) : V.deps[id] = Of(id)
        BY Zenon, <4>1 DEF IsWired
      <4> HIDE DEF Of
      <4> QED
        BY <4>2, <4>3
    <3> QED
      BY <3>1, <3>2
  <2>3. EndsHaveRoles(W, roles)
    BY <1>1, <2>2 DEF EndsHaveRoles, AreRoles
  <2>4. \A id \in IdsIn(S) : \A d \in V.deps[id] : d \in IdsIn(S) /\ ~Inverted(roles[d], roles[id])
    BY <1>2, <2>1, <2>2
  <2>5. \E n \in ToSet(S) : n.id \in IdsIn(S) /\ roles[n.id] = "measure"
    <3>1. PICK id \in W.sinks : id \notin W.sources
      BY <1>3
    <3>2. id \in IdsIn(G)
      BY <3>1 DEF IsWired
    <3>3. PICK n \in ToSet(G) : n.id = id
      BY <3>2 DEF IdsIn
    <3>4. roles[id] = "measure"
      BY <1>1, <2>3, <3>1, <3>2 DEF EndsHaveRoles
    <3> QED
      BY <2>1, <3>2, <3>3, <3>4
  <2> QED
    BY <1>1, <1>3, <2>1, <2>3, <2>4, <2>5 DEF AreFinal
<1>4. CASE W.sinks \subseteq W.sources /\ \E m : Ending(W) = <<m>> /\ m.id \notin IdsIn(G)
  <2>1. PICK m : Ending(W) = <<m>> /\ m.id \notin IdsIn(G)
    BY <1>4
  <2>2. /\ IdsIn(S) = IdsIn(G) \cup {m.id} /\ ToSet(S) = ToSet(G) \cup {m}
        /\ \A id \in IdsIn(G) : V.deps[id] = W.deps[id]
        /\ V.deps[m.id] \subseteq IdsIn(S)
    <3>1. S = G \o <<m>>
      BY <2>1
    <3> QED
      BY Zenon, <2>1, <3>1, EndedIsWired
  <2>3. Ending(W)[1] = m /\ Ending(W) # <<>> /\ Listing(S)
    BY <2>1, ListOfOne, ListsTogether, EmptyList
  <2>4. (\A id \in IdsIn(G) : roles[id] = RoleOf(W)[id]) /\ roles[m.id] = "measure"
    BY <2>1, <2>2
  <2>5. EndsHaveRoles(W, roles)
    BY <1>1, <2>4 DEF EndsHaveRoles, AreRoles
  <2>6. \A id \in IdsIn(G) : roles[id] \in ContextualRoles
    BY <1>1, <1>4, <2>5, NothingInBetween DEF EndsHaveRoles
  <2>7. \A role : ~Inverted(role, "measure")
    <3>1. RoleOrder["measure"] = 3 /\ \A role \in DOMAIN RoleOrder : RoleOrder[role] \in 0 .. 3
      BY DEF RoleOrder
    <3> QED
      BY <3>1 DEF Inverted
  <2>8. \A id \in IdsIn(S) : \A d \in V.deps[id] : d \in IdsIn(S) /\ ~Inverted(roles[d], roles[id])
    BY <1>2, <2>2, <2>4, <2>7
  <2>9. \E n \in ToSet(S) : n.id \in IdsIn(S) /\ roles[n.id] = "measure"
    BY <2>2, <2>4
  <2> QED
    BY <1>1, <2>1, <2>2, <2>3, <2>4, <2>5, <2>6, <2>8, <2>9 DEF AreFinal
<1> QED
  BY <1>3, <1>4, EndingIs
-----------------------------------------------------------------------------
\* The ending emits a measure that is one already, or that a source emits as its context.

LEMMA AnsweringEmits ==
  ASSUME NEW analysis, Listing(analysis.pool),
         \E c \in ToSet(analysis.pool) : analysis.node[c].role = "measure",
         NEW roles, NEW ids, NEW H, IsEmission(H, roles, analysis, ids),
         NEW m, m.id \notin ids, roles[m.id] = "measure",
         \A id \in ids : roles[id] \in ContextualRoles
  PROVE  IsEmission(Answering(H, <<m>>, analysis), roles, analysis, ids \cup {m.id})
<1> DEFINE pool == ToSet(analysis.pool)
           c0 == Having(analysis, {"measure"})[1]
           K == Answering(H, <<m>>, analysis)
<1>1. c0 \in pool /\ analysis.node[c0].role = "measure"
  <2>1. /\ Listing(Having(analysis, {"measure"}))
        /\ ToSet(Having(analysis, {"measure"})) =
             {c \in pool : analysis.node[c].role \in {"measure"}}
    BY HavingIs
  <2> QED
    BY <2>1, HeadOfList
<1>2. /\ H = [emits |-> H.emits, role |-> H.role] /\ DOMAIN H.emits = ids /\ pool \subseteq DOMAIN H.role
      /\ \A s \in ids : \A c \in H.emits[s] :
           c \in (pool \cup {Derived(s)}) \cap DOMAIN H.role /\ RoleFits(H, roles, s, c)
      /\ \A c \in pool \ EmittedIn(H) : H.role[c] = analysis.node[c].role
  BY DEF IsEmission
<1> HIDE DEF c0
<1>3. K = [emits |-> Extended(H.emits, m.id, {c0}), role |-> H.role]
  <2>1. <<m>> # <<>> /\ <<m>>[1] = m
    BY ListOfOne, EmptyList
  <2>2. K = [H EXCEPT !.emits = Extended(@, m.id, {c0})]
    BY <2>1 DEF Answering, c0
  <2> HIDE DEF K
  <2> QED
    BY <1>2, <2>2
<1> HIDE DEF K
<1>4. /\ K.role = H.role /\ DOMAIN K.emits = ids \cup {m.id} /\ K.emits[m.id] = {c0}
      /\ \A s \in ids : K.emits[s] = H.emits[s]
  BY <1>2, <1>3 DEF Extended
<1>5. H.role[c0] = "measure" \/ H.role[c0] \in ContextualRoles
  <2>1. CASE c0 \notin EmittedIn(H)
    BY <1>1, <1>2, <2>1
  <2>2. CASE c0 \in EmittedIn(H)
    <3>1. PICK s \in ids : c0 \in H.emits[s]
      BY <1>2, <2>2 DEF EmittedIn
    <3>2. RoleFits(H, roles, s, c0) /\ roles[s] \in ContextualRoles
      BY <1>2, <3>1
    <3> QED
      BY <3>2 DEF RoleFits
  <2> QED
    BY <2>1, <2>2
<1>6. RoleFits(K, roles, m.id, c0)
  BY <1>4, <1>5 DEF RoleFits
<1>7. ASSUME NEW s \in ids, NEW c \in H.emits[s]
      PROVE  RoleFits(K, roles, s, c)
  <2>1. RoleFits(H, roles, s, c)
    BY <1>2
  <2>2. \A t \in DOMAIN H.emits : t \in DOMAIN K.emits /\ K.emits[t] = H.emits[t]
    BY <1>2, <1>4
  <2> QED
    BY <1>4, <2>1, <2>2 DEF RoleFits
<1>8. \A s \in ids \cup {m.id} : \A c \in K.emits[s] :
        c \in (pool \cup {Derived(s)}) \cap DOMAIN K.role /\ RoleFits(K, roles, s, c)
  <2>1. ASSUME NEW s \in ids, NEW c \in K.emits[s]
        PROVE  c \in (pool \cup {Derived(s)}) \cap DOMAIN K.role /\ RoleFits(K, roles, s, c)
    BY <1>2, <1>4, <1>7
  <2>2. ASSUME NEW c \in K.emits[m.id]
        PROVE  c \in (pool \cup {Derived(m.id)}) \cap DOMAIN K.role /\ RoleFits(K, roles, m.id, c)
    BY <1>1, <1>2, <1>4, <1>6
  <2> QED
    BY <2>1, <2>2
<1>9. \A c \in pool \ EmittedIn(K) : K.role[c] = analysis.node[c].role
  <2>1. EmittedIn(H) \subseteq EmittedIn(K)
    BY <1>2, <1>4 DEF EmittedIn
  <2> QED
    BY <1>2, <1>4, <2>1
<1>10. IsEmission(K, roles, analysis, ids \cup {m.id})
  BY <1>2, <1>3, <1>4, <1>8, <1>9 DEF IsEmission
<1> QED
  BY <1>10 DEF K

\* What is consumed: what is left and is no measure is a factor, and outranks its step no more.
IsConsumption(C, roles, ids) ==
  /\ DOMAIN C.emits = ids
  /\ \A id \in ids :
       /\ \A c \in C.emits[id] : RoleFits(C, roles, id, c)
       /\ \A c \in C.factors[id] : ~Inverted(C.role[c], roles[id])

\* Handing out what is left keeps what fits, and no factor outranks its reader.
LEMMA ConsumedIs ==
  ASSUME NEW steps, Listing(steps), NEW roles,
         \E n \in ToSet(steps) : n.id \in IdsIn(steps) /\ roles[n.id] = "measure",
         NEW analysis, NEW H, IsEmission(H, roles, analysis, IdsIn(steps))
  PROVE  IsConsumption(Consumed(H, steps, roles, analysis), roles, IdsIn(steps))
<1> DEFINE ids == IdsIn(steps)
           ends == Kept(steps, LAMBDA n : roles[n.id] = "measure")
           last == ends[Len(ends)].id
           left == ToSet(analysis.pool) \ EmittedIn(H)
           measures == {c \in left : H.role[c] = "measure"}
           Reader(c) == Consumer(steps, roles, c, analysis.node[c].core)
           C == Consumed(H, steps, roles, analysis)
<1>1. /\ C.emits = Extended(H.emits, last, H.emits[last] \cup measures)
      /\ C.factors = [id \in ids |-> {c \in left \ measures : Reader(c) = id}]
      /\ C.role = [c \in DOMAIN H.role |->
                     IF c \in left \ measures THEN FactorRole(H.role[c], roles[Reader(c)]) ELSE H.role[c]]
  <2> DEFINE emits == Extended(H.emits, last, H.emits[last] \cup measures)
             factors == [id \in ids |-> {c \in left \ measures : Reader(c) = id}]
             role == [c \in DOMAIN H.role |->
                       IF c \in left \ measures THEN FactorRole(H.role[c], roles[Reader(c)]) ELSE H.role[c]]
  <2>1. C = [emits |-> emits, factors |-> factors, role |-> role]
    BY DEF Consumed
  <2> HIDE DEF emits, factors, role, C
  <2>2. C.emits = emits /\ C.factors = factors /\ C.role = role
    BY <2>1
  <2> QED
    BY <2>2 DEF emits, factors, role
<1>2. last \in ids /\ roles[last] = "measure"
  <2> DEFINE K == {k \in DOMAIN steps : roles[steps[k].id] = "measure"}
  <2>1. ends = ItemsAt(steps, K)
    BY DEF Kept
  <2>2. Listing(ends) /\ ToSet(ends) = {steps[k] : k \in DOMAIN steps \cap K}
    <3> HIDE DEF K, ends
    <3> QED
      BY <2>1, ItemsAtList
  <2>3. \A n \in ToSet(ends) : n.id \in ids /\ roles[n.id] = "measure"
    <3> HIDE DEF ends
    <3> QED
      BY <2>2 DEF IdsIn, ToSet
  <2>4. ToSet(ends) # {}
    <3>1. PICK k \in DOMAIN steps : roles[steps[k].id] = "measure"
      BY DEF ToSet
    <3>2. steps[k] \in ToSet(ends)
      <4> HIDE DEF ends
      <4> QED
        BY <2>2, <3>1
    <3> QED
      BY <3>2
  <2> HIDE DEF ends
  <2>5. Len(ends) \in DOMAIN ends
    <3>1. DOMAIN ends = 1 .. Len(ends) /\ Len(ends) \in Nat /\ (ends = <<>> <=> ToSet(ends) = {})
      BY <2>2, HeadOfList
    <3>2. ends # <<>> => Len(ends) >= 1
      BY <2>2, HeadOfList
    <3> QED
      BY <2>4, <3>1, <3>2
  <2>6. ends[Len(ends)] \in ToSet(ends)
    BY <2>5 DEF ToSet
  <2> QED
    BY <2>3, <2>6
<1> HIDE DEF C, last, Reader
<1>3. /\ DOMAIN H.emits = ids /\ ToSet(analysis.pool) \subseteq DOMAIN H.role
      /\ \A s \in ids : \A c \in H.emits[s] : c \in DOMAIN H.role /\ RoleFits(H, roles, s, c)
  BY DEF IsEmission
<1>4. /\ DOMAIN C.emits = ids /\ C.emits[last] = H.emits[last] \cup measures
      /\ \A s \in ids : s # last => C.emits[s] = H.emits[s]
      /\ \A s \in ids : H.emits[s] \subseteq C.emits[s]
  BY <1>1, <1>2, <1>3 DEF Extended
<1>5. /\ \A c \in measures : C.role[c] = "measure"
      /\ \A c \in EmittedIn(H) : c \in DOMAIN H.role /\ C.role[c] = H.role[c]
      /\ \A c \in left \ measures : C.role[c] = FactorRole(H.role[c], roles[Reader(c)])
  <2>1. \A c \in EmittedIn(H) : c \in DOMAIN H.role
    BY <1>3 DEF EmittedIn
  <2>2. \A c \in left : c \in DOMAIN H.role
    BY <1>3
  <2> QED
    BY <1>1, <2>1, <2>2
<1>6. ASSUME NEW s \in ids, NEW c \in H.emits[s]
      PROVE  RoleFits(C, roles, s, c)
  <2>1. c \in EmittedIn(H)
    BY <1>3 DEF EmittedIn
  <2>2. RoleFits(H, roles, s, c) /\ C.role[c] = H.role[c]
    BY <1>3, <1>5, <2>1
  <2> QED
    BY <1>3, <1>4, <2>2 DEF RoleFits
<1>7. \A c \in measures : RoleFits(C, roles, last, c)
  BY <1>2, <1>5 DEF RoleFits
<1>8. \A id \in ids : \A c \in C.emits[id] : RoleFits(C, roles, id, c)
  <2>1. \A c \in C.emits[last] : RoleFits(C, roles, last, c)
    <3> HIDE DEF measures
    <3> QED
      BY <1>2, <1>4, <1>6, <1>7
  <2>2. \A id \in ids : id # last => \A c \in C.emits[id] : RoleFits(C, roles, id, c)
    BY <1>4, <1>6
  <2> QED
    BY <2>1, <2>2
<1>9. ASSUME NEW id \in ids, NEW c \in C.factors[id]
      PROVE  ~Inverted(C.role[c], roles[id])
  <2>1. c \in left \ measures /\ Reader(c) = id
    <3> HIDE DEF left, measures
    <3> QED
      BY <1>1
  <2>2. C.role[c] = FactorRole(H.role[c], roles[id])
    BY <1>5, <2>1
  <2>3. ~Inverted(roles[id], roles[id])
    <3>1. \A role \in DOMAIN RoleOrder : RoleOrder[role] \in Nat
      BY DEF RoleOrder
    <3> QED
      BY <3>1 DEF Inverted
  <2> QED
    BY <2>2, <2>3 DEF FactorRole
<1>10. IsConsumption(C, roles, ids)
  BY <1>4, <1>8, <1>9 DEF IsConsumption
<1> QED
  BY <1>10 DEF C

\* Nothing is outranked in what the grounded graph and the completed analysis are bound to.
Outranked(B) ==
  \E id \in DOMAIN B.step :
    \/ \E d \in B.deps[id] : Inverted(B.step[d], B.step[id])
    \/ \E c \in ConceptsRead(B, id), o \in B.emits[id] :
         /\ Inverted(B.role[c], B.role[o])
         /\ ~(/\ B.role[c] = "measure"
              /\ \E s, t \in DOMAIN B.emits : s # t /\ c \in B.emits[s] \cap B.emits[t])

\* What a step reads is one of its factors, or what it depends on emits it.
LEMMA ReadIs ==
  ASSUME NEW B, NEW id, NEW c, c \in ConceptsRead(B, id)
  PROVE  c \in B.factors[id] \/ \E d \in B.deps[id] : c \in B.emits[d]
<1> DEFINE read == {B.emits[d] : d \in B.deps[id]}
<1>1. ConceptsRead(B, id) = (UNION read) \cup B.factors[id]
  BY DEF ConceptsRead
<1>2. c \in B.factors[id] \/ \E s \in read : c \in s
  <2> HIDE DEF read
  <2> QED
    BY <1>1
<1> QED
  BY <1>2

\* Put together: a graph in order and an analysis with a measure are bound in order.
LEMMA BoundInOrder ==
  ASSUME NEW G, Listing(G), InOrder(G), NEW analysis, Listing(analysis.pool),
         \E c \in ToSet(analysis.pool) : analysis.node[c].role = "measure",
         NEW named, NEW B, B = BoundGraph(G, analysis, named),
         \A id \in DOMAIN B.step : Derived(id) \notin ToSet(analysis.pool)
  PROVE  ~Outranked(B)
<1> DEFINE W == Wiring(G)
           raised == RoleOf(W)
           ending == Ending(W)
           steps == G \o ending
           roles == [id \in IdsIn(steps) |-> IF id \in IdsIn(G) THEN raised[id] ELSE "measure"]
           emitted == Answering(ConceptsEmitted(W, roles, named, analysis), ending, analysis)
           C == Consumed(emitted, steps, roles, analysis)
           V == Wiring(steps)
<1>1. /\ B.step = roles /\ B.deps = V.deps /\ B.role = C.role /\ B.emits = C.emits
      /\ B.factors = C.factors
  <2>1. B = [steps |-> steps, step |-> roles, deps |-> V.deps, role |-> C.role,
             emits |-> C.emits, factors |-> C.factors]
    BY DEF BoundGraph
  <2> HIDE DEF steps, roles, V, C
  <2> QED
    BY <2>1
<1>2. IsWired(W, G) /\ IsWired(V, steps)
  BY GraphIsWired
<1> HIDE DEF W, V
<1>3. /\ AreFinal(V, IdsIn(steps), roles) /\ EndsHaveRoles(W, roles) /\ Listing(steps)
      /\ ending = <<>> => IdsIn(steps) = IdsIn(G)
      /\ ending # <<>> =>
           /\ \A id \in IdsIn(G) : roles[id] \in ContextualRoles
           /\ IdsIn(steps) = IdsIn(G) \cup {ending[1].id} /\ ending[1].id \notin IdsIn(G)
           /\ roles[ending[1].id] = "measure"
  BY <1>2, FinalRoles
<1>4. ending = <<>> \/ \E m : ending = <<m>>
  BY <1>2, EndingIs
<1>5. DOMAIN roles = IdsIn(steps)
  OBVIOUS
<1> HIDE DEF roles, steps, ending
<1> DEFINE H == ConceptsEmitted(W, roles, named, analysis)
<1>6. IsEmission(H, roles, analysis, IdsIn(G))
  <2>1. Distinguished(analysis, IdsIn(G))
    BY <1>1, <1>3, <1>5 DEF Distinguished
  <2> HIDE DEF H
  <2> QED
    BY <1>2, <1>3, <2>1, StepsEmit DEF H
<1> HIDE DEF H
<1>7. IsEmission(emitted, roles, analysis, IdsIn(steps))
  <2>1. CASE ending = <<>>
    <3>1. emitted = H
      BY <2>1 DEF Answering, H
    <3> QED
      BY <1>3, <1>6, <2>1, <3>1
  <2>2. CASE ending # <<>>
    <3>1. PICK m : ending = <<m>>
      BY <1>4, <2>2
    <3>2. ending[1] = m
      BY <3>1, ListOfOne
    <3>3. emitted = Answering(H, <<m>>, analysis)
      BY <3>1 DEF H
    <3>4. IsEmission(Answering(H, <<m>>, analysis), roles, analysis, IdsIn(G) \cup {m.id})
      BY <1>3, <1>6, <2>2, <3>2, AnsweringEmits
    <3> QED
      BY <1>3, <2>2, <3>2, <3>3, <3>4
  <2> QED
    BY <2>1, <2>2
<1> HIDE DEF emitted
<1>8. IsConsumption(C, roles, IdsIn(steps))
  <2>1. V.steps = steps
    BY <1>2 DEF IsWired
  <2>2. \E n \in ToSet(steps) : n.id \in IdsIn(steps) /\ roles[n.id] = "measure"
    BY <1>3, <2>1 DEF AreFinal
  <2> QED
    BY <1>3, <1>7, <2>2, ConsumedIs
<1> HIDE DEF C
<1>9. ASSUME NEW id \in DOMAIN B.step, NEW d \in B.deps[id]
      PROVE  d \in IdsIn(steps) /\ ~Inverted(B.step[d], B.step[id])
  BY <1>1, <1>3, <1>5 DEF AreFinal
<1>10. ASSUME NEW id \in DOMAIN B.step, NEW c \in ConceptsRead(B, id), NEW o \in B.emits[id],
              Inverted(B.role[c], B.role[o])
       PROVE  /\ B.role[c] = "measure"
              /\ \E s, t \in DOMAIN B.emits : s # t /\ c \in B.emits[s] \cap B.emits[t]
  <2>1. id \in IdsIn(steps)
    BY <1>1, <1>5
  <2>2. /\ \A s \in IdsIn(steps) : \A x \in B.emits[s] : RoleFits(B, B.step, s, x)
        /\ \A x \in B.factors[id] : ~Inverted(B.role[x], B.step[id])
        /\ DOMAIN B.emits = IdsIn(steps)
    BY <1>1, <1>8, <2>1 DEF IsConsumption, RoleFits
  <2>3. /\ \A role \in ContextualRoles : role \notin DOMAIN RoleOrder
        /\ \A role : ~Inverted(role, "measure")
    <3>1. /\ RoleOrder["measure"] = 3 /\ \A role \in DOMAIN RoleOrder : RoleOrder[role] \in 0 .. 3
          /\ DOMAIN RoleOrder = {"sub_condition", "condition", "support", "measure"}
      BY DEF RoleOrder
    <3> QED
      BY <3>1 DEF Inverted, ContextualRoles
  <2>4. B.role[c] \in DOMAIN RoleOrder /\ B.role[o] \in DOMAIN RoleOrder
    BY <1>10 DEF Inverted
  <2>5. B.role[o] = B.step[id]
    <3>1. RoleFits(B, B.step, id, o)
      BY <2>1, <2>2
    <3> QED
      BY <1>10, <2>3, <2>4, <3>1 DEF RoleFits
  <2>6. c \notin B.factors[id]
    BY <1>10, <2>2, <2>5
  <2>7. PICK d \in B.deps[id] : c \in B.emits[d]
    <3>1. c \in ConceptsRead(B, id)
      BY <1>10
    <3>2. c \in B.factors[id] \/ \E d \in B.deps[id] : c \in B.emits[d]
      BY Zenon, <3>1, ReadIs
    <3> QED
      BY <2>6, <3>2
  <2>8. d \in IdsIn(steps) /\ ~Inverted(B.step[d], B.step[id]) /\ RoleFits(B, B.step, d, c)
    BY <1>9, <2>2, <2>7
  <2>9. B.role[c] # B.step[d]
    BY <1>10, <2>5, <2>8
  <2> QED
    BY <2>2, <2>3, <2>4, <2>7, <2>8, <2>9 DEF RoleFits
<1> QED
  BY <1>9, <1>10 DEF Outranked
-----------------------------------------------------------------------------
\* What is bound is the grounded graph and the draft's completed analysis.

BoundInv ==
  stage = "bound" =>
    \E named : bound = BoundGraph(grounded, Completed([pool |-> draft.pool, node |-> draft.node]), named)

\* Only the last action binds, and nothing follows it.
LEMMA BoundStays ==
  ASSUME IInv, IInv', BoundInv, [Next]_vars
  PROVE  BoundInv'
<1>1. CASE UNCHANGED vars
  BY <1>1 DEF vars, BoundInv
<1>2. CASE Bind
  <2>1. bound' = BoundGraph(grounded, Completed([pool |-> draft.pool, node |-> draft.node]), Named)
        /\ UNCHANGED <<draft, grounded>>
    BY <1>2 DEF Bind
  <2> QED
    BY <2>1 DEF BoundInv
<1>3. CASE Complete \/ Settle
  <2>1. stage' # "bound"
    BY <1>3 DEF Complete, Settle
  <2> QED
    BY <2>1 DEF BoundInv
<1>4. CASE Validate
  <2>1. stage' # "bound"
    <3>1. Verdict(graph) \in Refusals \cup {"accepted"}
      BY VerdictIs
    <3>2. "bound" \notin Refusals
      BY DEF Refusals
    <3> QED
      BY <1>4, <3>1, <3>2 DEF Validate
  <2> QED
    BY <2>1 DEF BoundInv
<1>5. CASE Factorize
  <2>1. stage' # "bound"
    <3> SUFFICES ASSUME stage' = "bound" PROVE FALSE
      OBVIOUS
    <3>1. FollowedInv'
      BY DEF IInv, Lasts
    <3>2. plan'.error = "none"
      BY <3>1 DEF FollowedInv
    <3> QED
      BY <1>5, <3>2 DEF Factorize
  <2> QED
    BY <2>1 DEF BoundInv
<1>6. CASE Plan \/ Ground
  <2>1. stage' # "bound"
    BY <1>6 DEF Plan, Ground
  <2> QED
    BY <2>1 DEF BoundInv
<1> QED
  BY <1>1, <1>2, <1>3, <1>4, <1>5, <1>6 DEF Next

\* No step of a bound plan reads what outranks it, and no concept what it is made of, but for a
\* measure that an earlier step shares with a last one: the order of roles, which two checks of
\* factorize_geoflow's result are about.
THEOREM RolesStayInOrder == Spec => []NothingIsOutranked
<1>1. Init => BoundInv
  BY DEF Init, BoundInv
<1>2. IInv /\ IInv' /\ BoundInv /\ [Next]_vars => BoundInv'
  BY BoundStays
<1>3. IInv /\ BoundInv => NothingIsOutranked
  <2> SUFFICES ASSUME IInv, BoundInv, stage = "bound",
                      \A id \in DOMAIN bound.step : Derived(id) \notin ToSet(draft.pool)
               PROVE  ~Outranked(bound)
    BY DEF NothingIsOutranked, Outranked
  <2> DEFINE analysis == [pool |-> draft.pool, node |-> draft.node]
             done == Completed(analysis)
  <2>1. PICK named : bound = BoundGraph(grounded, done, named)
    BY DEF BoundInv
  <2>2. Listing(grounded) /\ InOrder(grounded)
    BY GroundedIs
  <2>3. Listing(analysis.pool) /\ analysis.pool = draft.pool
    BY DEF IInv, ShapeInv
  <2> HIDE DEF analysis
  <2>4. /\ Listing(done.pool)
        /\ \E c \in ToSet(done.pool) : done.node[c].role = "measure"
        /\ \A c \in ToSet(done.pool) :
             c \in ToSet(analysis.pool) \/ \E n : c = <<"question_context", n>> \/ c = <<"requested_answer", n>>
    BY <2>3, CompletedIs
  <2> HIDE DEF done
  <2>5. \A id \in DOMAIN bound.step : Derived(id) \notin ToSet(done.pool)
    <3>1. \A id, n : Derived(id) # <<"question_context", n>> /\ Derived(id) # <<"requested_answer", n>>
      BY DEF Derived
    <3> QED
      BY <2>3, <2>4, <3>1
  <2> QED
    BY <2>1, <2>2, <2>4, <2>5, BoundInOrder
<1> QED
  BY <1>1, <1>2, <1>3, PlanIsSound, PTL DEF Spec

-----------------------------------------------------------------------------
\* Completion leaves nothing to refuse but the planner's own structure. Names it makes up carry what
\* they were made for: the result of a transformation, or a concept that one makes again.

Made(g) == UNION {ToSet(e.outs) : e \in {d \in ToSet(g.edges) : d.t # "MATCH_OPTIONS"}}
SignedBy(id, edge) ==
  (\A x : id = Result(x) => edge = x) /\ (\A c, x : id = Renamed(c, x) => edge = x)
Signed(g) == \A e \in ToSet(g.edges) : \A id \in ToSet(e.outs) : SignedBy(id, e.id)

\* An implied concept is made by the first of some transformations, if at all.
FirstMakes(g, name, ts) ==
  \A i \in DOMAIN g.edges : name \in ToSet(g.edges[i].outs) =>
    g.edges[i].t \in ts /\ \A j \in 1 .. i - 1 : g.edges[j].t \notin ts
Distances == {"DISTANCE_MEASURE"}
Reserved(g) == FirstMakes(g, Route, Routing) /\ FirstMakes(g, SpatialField, Distances)

\* A name that completion made up is made by a transformation, but for a field that nothing measures.
Accounted(g) ==
  \A id \in Ids(g) : id[1] \in MadeUp =>
    id \in Made(g) \/ (id = SpatialField /\ g.node[id].core = "field")

AreConcepts(g) == \A id \in Ids(g) : IsConcept(g.node[id])

\* What a completion starts from, and what it keeps.
Ready(g) ==
  /\ Listing(g.pool) /\ AreEdges(g.edges) /\ ToSet(g.pool) = Ids(g)
  /\ AreConcepts(g) /\ Signed(g) /\ Reserved(g) /\ Accounted(g)
Knows(g, e) ==
  /\ e.t # "MATCH_OPTIONS" /\ e.outs # <<>> /\ e.factors \subseteq g.factors
  /\ ToSet(e.ins) \subseteq Ids(g) /\ ToSet(e.outs) \subseteq Ids(g)
Known(g) == \A e \in ToSet(g.edges) : Knows(g, e)
Once(g) ==
  \A i, j \in DOMAIN g.edges :
    ToSet(g.edges[i].outs) \cap ToSet(g.edges[j].outs) # {} => g.edges[i].id = g.edges[j].id
Fit(b) ==
  /\ IsBuilder(b) /\ ToSet(b.pool) = Ids(b) /\ Known(b)
  /\ AreConcepts(b) /\ Signed(b) /\ Reserved(b) /\ Once(b)
  /\ DOMAIN b.producer = Made(b)
  /\ \A id \in DOMAIN b.alias : b.alias[id] \in Ids(b)

LEMMA MadeUpNames ==
  /\ \A x, y : Result(x) = Result(y) => x = y
  /\ \A x, y, c, d : Renamed(c, x) = Renamed(d, y) => x = y
  /\ \A x, y, c : Result(x) # Renamed(c, y)
  /\ \A x, c : Result(x) \notin {Route, SpatialField} /\ Renamed(c, x) \notin {Route, SpatialField}
  /\ Route # SpatialField /\ Network \notin {Route, SpatialField}
  /\ \A x, c : Result(x)[1] \in MadeUp /\ Renamed(c, x)[1] \in MadeUp
  /\ Route[1] \in MadeUp /\ SpatialField[1] \in MadeUp
BY DEF Result, Renamed, Route, SpatialField, Network, MadeUp

LEMMA OwnSignature ==
  ASSUME NEW edge
  PROVE  SignedBy(Result(edge), edge) /\ \A c : SignedBy(Renamed(c, edge), edge)
BY MadeUpNames DEF SignedBy

\* A list of transformations with one more.
OneMore(edges, e, more) ==
  /\ ToSet(more) = ToSet(edges) \cup {e} /\ DOMAIN more = DOMAIN edges \cup {Len(edges) + 1}
  /\ DOMAIN edges = 1 .. Len(edges) /\ Len(edges) \in Nat
  /\ more[Len(edges) + 1] = e /\ \A i \in DOMAIN edges : more[i] = edges[i]

LEMMA EdgesThatMake ==
  ASSUME NEW edges, AreEdges(edges), NEW e
  PROVE  OneMore(edges, e, Append(edges, e))
<1>1. Listing(edges) /\ DOMAIN edges = 1 .. Len(edges) /\ Len(edges) \in Nat
  BY EdgesThatAre
<1> QED
  BY <1>1, ListWithOneMore DEF OneMore

\* Where a list of transformations stands, and what is made.
LEMMA AnEdgeIsListed ==
  ASSUME NEW edges, NEW e \in ToSet(edges)
  PROVE  \E i \in DOMAIN edges : edges[i] = e
BY DEF ToSet

LEMMA ListedIsAnEdge ==
  ASSUME NEW edges, NEW i \in DOMAIN edges
  PROVE  edges[i] \in ToSet(edges)
BY DEF ToSet

\* Declaring concepts leaves those that are known.
LEMMA DeclaringIs ==
  ASSUME NEW b, IsBuilder(b), ToSet(b.pool) = Ids(b), NEW ids, Listing(ids), NEW concept,
         NEW d, d = Declaring(b, ids, concept)
  PROVE  /\ DOMAIN d.node = Ids(b) \cup ToSet(ids) /\ ToSet(d.pool) = DOMAIN d.node
         /\ \A id \in Ids(b) : d.node[id] = b.node[id]
         /\ AreConcepts(b) /\ IsConcept(concept) => AreConcepts(d)
<1> DEFINE unknown == Kept(ids, LAMBDA id : id \notin Ids(b))
           new == Distinct(unknown)
<1>1. Listing(unknown) /\ ToSet(unknown) = {ids[k] : k \in DOMAIN ids \cap {k \in DOMAIN ids : ids[k] \notin Ids(b)}}
  BY ItemsAtList DEF Kept
<1>2. ToSet(unknown) = ToSet(ids) \ Ids(b)
  BY <1>1 DEF ToSet
<1>3. Listing(new) /\ ToSet(new) = ToSet(ids) \ Ids(b)
  <2> HIDE DEF unknown
  <2> QED
    BY <1>1, <1>2, DistinctList
<1>4. /\ d.node = [id \in Ids(b) \cup ToSet(new) |-> IF id \in Ids(b) THEN b.node[id] ELSE concept]
      /\ d.pool = b.pool \o new
  BY DEF Declaring, IsBuilder
<1> HIDE DEF new
<1>5. ToSet(d.pool) = ToSet(b.pool) \cup ToSet(new)
  BY <1>3, <1>4, ListsTogether DEF IsBuilder
<1>6. AreConcepts(b) /\ IsConcept(concept) => AreConcepts(d)
  BY <1>4 DEF AreConcepts, Ids
<1> QED
  BY <1>3, <1>4, <1>5, <1>6

\* A concept with another type or role, and those that completion adds.
LEMMA ConceptChanged ==
  ASSUME NEW c, IsConcept(c), NEW x
  PROVE  /\ IsConcept([c EXCEPT !.core = x]) /\ [c EXCEPT !.core = x].core = x
         /\ [c EXCEPT !.core = x].role = c.role
         /\ IsConcept([c EXCEPT !.role = x]) /\ [c EXCEPT !.role = x].role = x
         /\ [c EXCEPT !.role = x].core = c.core
         /\ IsConcept([c EXCEPT !.named = x])
<1>1. /\ [c EXCEPT !.core = x] = [core |-> x, role |-> c.role, implicit |-> c.implicit, named |-> c.named]
      /\ [c EXCEPT !.role = x] = [core |-> c.core, role |-> x, implicit |-> c.implicit, named |-> c.named]
      /\ [c EXCEPT !.named = x] = [core |-> c.core, role |-> c.role, implicit |-> c.implicit, named |-> x]
  BY DEF IsConcept
<1> QED
  BY <1>1 DEF IsConcept

Reroled(node, ids, role) ==
  [i \in DOMAIN node |-> IF i \in ids THEN [node[i] EXCEPT !.role = role] ELSE node[i]]

LEMMA RoleChanges ==
  ASSUME NEW node, NEW ids, NEW role, \A id \in DOMAIN node : IsConcept(node[id]),
         NEW other, other = Reroled(node, ids, role)
  PROVE  /\ DOMAIN other = DOMAIN node
         /\ \A id \in DOMAIN node : IsConcept(other[id]) /\ other[id].core = node[id].core
         /\ \A id \in DOMAIN node \cap ids : other[id].role = role
<1>1. ASSUME NEW id \in DOMAIN node
      PROVE  /\ IsConcept(other[id]) /\ other[id].core = node[id].core
             /\ id \in ids => other[id].role = role
  <2> DEFINE x == node[id]
             y == [x EXCEPT !.role = role]
  <2>1. IsConcept(x)
    OBVIOUS
  <2>2. other[id] = IF id \in ids THEN y ELSE x
    BY DEF Reroled
  <2>3. IsConcept(y) /\ y.core = x.core /\ y.role = role
    <3> HIDE DEF x
    <3> QED
      BY <2>1, ConceptChanged
  <2> HIDE DEF x, y
  <2>4. IsConcept(other[id]) /\ other[id].core = x.core /\ (id \in ids => other[id].role = role)
    BY <2>1, <2>2, <2>3
  <2> QED
    BY <2>4 DEF x
<1> QED
  BY <1>1 DEF Reroled

LEMMA ConceptsAdded ==
  /\ \A t, role : IsConcept(Synthesized(t, role)) /\ IsConcept(StepResult(t, role))
  /\ \A core : IsConcept(ImplicitNode(core)) /\ ImplicitNode(core).core = core
<1>1. ASSUME NEW t, NEW role PROVE IsConcept(Synthesized(t, role)) /\ IsConcept(StepResult(t, role))
  <2> DEFINE core == IF t \in Transforms THEN OutputType[t] ELSE "object"
  <2>1. Synthesized(t, role) = [core |-> core, role |-> role, implicit |-> TRUE, named |-> FALSE]
    BY DEF Synthesized
  <2> DEFINE s == Synthesized(t, role)
  <2>2. StepResult(t, role) = [s EXCEPT !.named = TRUE]
    BY DEF StepResult
  <2> HIDE DEF core, s
  <2>3. s = [core |-> core, role |-> role, implicit |-> TRUE, named |-> FALSE]
    BY <2>1 DEF s
  <2>4. IsConcept(s)
    BY <2>3 DEF IsConcept
  <2>5. IsConcept(StepResult(t, role))
    BY <2>2, <2>4, ConceptChanged
  <2> QED
    BY <2>4, <2>5 DEF s
<1> QED
  BY <1>1 DEF ImplicitNode, IsConcept

\* What a transformation makes.
LEMMA OutputsAre ==
  ASSUME NEW b, NEW raw, Listing(raw.outs)
  PROVE  /\ Listing(EdgeOutputs(b, raw)) /\ EdgeOutputs(b, raw) # <<>>
         /\ raw.outs = <<>> => ToSet(EdgeOutputs(b, raw)) = {Result(raw.id)}
         /\ raw.outs # <<>> => ToSet(EdgeOutputs(b, raw)) = {WithOutput(b, raw, id) : id \in ToSet(raw.outs)}
<1> DEFINE a == Mapped(LAMBDA id : WithOutput(b, raw, id), raw.outs)
<1>1. /\ a = [i \in 1 .. Len(raw.outs) |-> a[i]] /\ \A i \in 1 .. Len(raw.outs) : a[i] = WithOutput(b, raw, raw.outs[i])
  BY DEF Mapped
<1>2. Len(raw.outs) \in Nat /\ DOMAIN raw.outs = 1 .. Len(raw.outs) /\ (raw.outs = <<>> <=> ToSet(raw.outs) = {})
  BY HeadOfList
<1> HIDE DEF a
<1>3. Listing(a) /\ ToSet(a) = {a[i] : i \in DOMAIN raw.outs}
  BY <1>1, EachOfList
<1>4. ToSet(a) = {WithOutput(b, raw, id) : id \in ToSet(raw.outs)}
  <2>1. ASSUME NEW x \in ToSet(a) PROVE \E id \in ToSet(raw.outs) : x = WithOutput(b, raw, id)
    <3>1. PICK i \in DOMAIN raw.outs : x = a[i]
      BY <1>3, <2>1
    <3>2. raw.outs[i] \in ToSet(raw.outs) /\ x = WithOutput(b, raw, raw.outs[i])
      BY <1>1, <1>2, <3>1 DEF ToSet
    <3> QED
      BY <3>2
  <2>2. ASSUME NEW id \in ToSet(raw.outs) PROVE WithOutput(b, raw, id) \in ToSet(a)
    <3>1. PICK i \in DOMAIN raw.outs : raw.outs[i] = id
      BY DEF ToSet
    <3>2. a[i] = WithOutput(b, raw, id) /\ i \in DOMAIN raw.outs
      BY <1>1, <1>2, <3>1
    <3> QED
      BY <1>3, <3>2
  <2> QED
    BY <2>1, <2>2
<1>5. Listing(Distinct(a)) /\ ToSet(Distinct(a)) = ToSet(a)
  BY <1>3, DistinctList
<1>6. CASE raw.outs = <<>>
  <2>1. EdgeOutputs(b, raw) = <<Result(raw.id)>>
    BY <1>6 DEF EdgeOutputs
  <2> QED
    BY <1>6, <2>1, ListOfOne
<1>7. CASE raw.outs # <<>>
  <2>1. EdgeOutputs(b, raw) = Distinct(a)
    BY <1>7 DEF EdgeOutputs, a
  <2>2. ToSet(Distinct(a)) # {}
    BY <1>2, <1>4, <1>5, <1>7
  <2> QED
    BY <1>4, <1>5, <1>7, <2>1, <2>2, EmptyList
<1> QED
  BY <1>6, <1>7

LEMMA WithOutputsIs ==
  ASSUME NEW b, Fit(b), NEW raw, IsEdge(raw), NEW role, NEW c, c = WithOutputs(b, raw, role)
  PROVE  /\ IsBuilder(c) /\ c.edges = b.edges /\ c.factors = b.factors /\ c.producer = b.producer
         /\ Ids(c) = Ids(b) \cup ToSet(raw.outs) \cup ToSet(EdgeOutputs(b, raw))
         /\ \A id \in Ids(b) : c.node[id] = b.node[id]
         /\ ToSet(c.pool) = Ids(c) /\ AreConcepts(c) /\ \A id \in DOMAIN c.alias : c.alias[id] \in Ids(c)
<1> DEFINE a == Mapped(LAMBDA id : <<id, WithOutput(b, raw, id)>>, raw.outs)
           named == IF raw.outs = <<>> THEN EdgeOutputs(b, raw) ELSE FlattenSeq(a)
           declared == Declaring(b, named, Synthesized(raw.t, role))
           again == {id \in ToSet(raw.outs) : WithOutput(b, raw, id) # id}
<1>0. Listing(raw.outs) /\ IsBuilder(b) /\ ToSet(b.pool) = Ids(b) /\ AreConcepts(b)
  BY DEF IsEdge, Fit
<1>1. /\ raw.outs = <<>> => ToSet(EdgeOutputs(b, raw)) = {Result(raw.id)}
      /\ raw.outs # <<>> => ToSet(EdgeOutputs(b, raw)) = {WithOutput(b, raw, id) : id \in ToSet(raw.outs)}
      /\ Listing(EdgeOutputs(b, raw))
  BY <1>0, OutputsAre
<1>2. /\ a = [i \in 1 .. Len(raw.outs) |-> a[i]]
      /\ \A i \in DOMAIN raw.outs : a[i] = <<raw.outs[i], WithOutput(b, raw, raw.outs[i])>>
  BY <1>0, HeadOfList DEF Mapped
<1> HIDE DEF a
<1>3. ASSUME NEW i \in DOMAIN raw.outs
      PROVE  Listing(a[i]) /\ ToSet(a[i]) = {raw.outs[i], WithOutput(b, raw, raw.outs[i])}
  <2>1. a[i] = [k \in 1 .. 2 |-> a[i][k]] /\ a[i][1] = raw.outs[i] /\ a[i][2] = WithOutput(b, raw, raw.outs[i])
    <3> DEFINE o == WithOutput(b, raw, raw.outs[i])
    <3>1. a[i] = <<raw.outs[i], o>>
      BY <1>2
    <3> HIDE DEF o
    <3>2. a[i] = [k \in 1 .. 2 |-> a[i][k]] /\ a[i][1] = raw.outs[i] /\ a[i][2] = o
      BY <3>1
    <3> QED
      BY <3>2 DEF o
  <2>2. Listing(a[i]) /\ Len(a[i]) = 2
    BY <2>1, ListingOfDomain
  <2>3. DOMAIN a[i] = 1 .. 2
    BY <2>1
  <2> QED
    BY <2>1, <2>2, <2>3 DEF ToSet
<1>4. /\ Listing(FlattenSeq(a))
      /\ \A x \in ToSet(FlattenSeq(a)) : \E i \in DOMAIN raw.outs : x \in ToSet(a[i])
      /\ \A i \in DOMAIN raw.outs : ToSet(a[i]) \subseteq ToSet(FlattenSeq(a))
  <2>1. \A i \in 1 .. Len(raw.outs) : Listing(a[i])
    BY <1>0, <1>3, HeadOfList
  <2> QED
    BY <1>0, <1>2, <2>1, AllOfEach
<1>5. Listing(named) /\ ToSet(named) = ToSet(raw.outs) \cup ToSet(EdgeOutputs(b, raw))
  <2>1. CASE raw.outs = <<>>
    BY <1>1, <2>1, EmptyList
  <2>2. CASE raw.outs # <<>>
    <3>1. ASSUME NEW x \in ToSet(FlattenSeq(a))
          PROVE  x \in ToSet(raw.outs) \cup {WithOutput(b, raw, id) : id \in ToSet(raw.outs)}
      <4>1. PICK i \in DOMAIN raw.outs : x \in ToSet(a[i])
        BY <1>4, <3>1
      <4>2. raw.outs[i] \in ToSet(raw.outs)
        BY DEF ToSet
      <4> QED
        BY <1>3, <4>1, <4>2
    <3>2. ASSUME NEW id \in ToSet(raw.outs)
          PROVE  id \in ToSet(FlattenSeq(a)) /\ WithOutput(b, raw, id) \in ToSet(FlattenSeq(a))
      <4>1. PICK i \in DOMAIN raw.outs : raw.outs[i] = id
        BY DEF ToSet
      <4> QED
        BY <1>3, <1>4, <4>1
    <3> QED
      BY <1>1, <1>4, <2>2, <3>1, <3>2
  <2> QED
    BY <2>1, <2>2
<1> HIDE DEF named
<1>6. /\ DOMAIN declared.node = Ids(b) \cup ToSet(named) /\ ToSet(declared.pool) = DOMAIN declared.node
      /\ \A id \in Ids(b) : declared.node[id] = b.node[id]
      /\ AreConcepts(declared)
  BY <1>0, <1>5, DeclaringIs, ConceptsAdded
<1> HIDE DEF declared
<1>7. c = [b EXCEPT !.node = declared.node, !.pool = declared.pool,
                    !.alias = [id \in DOMAIN @ \cup again |->
                                 IF id \in again THEN WithOutput(b, raw, id) ELSE b.alias[id]]]
  BY DEF WithOutputs, declared, named, a
<1>8. /\ c.node = declared.node /\ c.pool = declared.pool /\ c.edges = b.edges /\ c.factors = b.factors
      /\ c.producer = b.producer
      /\ c.alias = [id \in DOMAIN b.alias \cup again |->
                      IF id \in again THEN WithOutput(b, raw, id) ELSE b.alias[id]]
  BY <1>0, <1>7 DEF IsBuilder
<1>9. IsBuilder(c)
  BY <1>0, WithOutputsShape
<1>10. ASSUME NEW id \in again PROVE WithOutput(b, raw, id) \in ToSet(EdgeOutputs(b, raw))
  BY <1>1, <1>10, EmptyList
<1>11. Ids(c) = Ids(b) \cup ToSet(raw.outs) \cup ToSet(EdgeOutputs(b, raw))
  BY <1>5, <1>6, <1>8 DEF Ids
<1>12. \A id \in DOMAIN c.alias : c.alias[id] \in Ids(c)
  <2>1. \A id \in DOMAIN b.alias : b.alias[id] \in Ids(b)
    BY DEF Fit
  <2> HIDE DEF again
  <2> QED
    BY <1>8, <1>10, <1>11, <2>1
<1>13. AreConcepts(c)
  BY <1>6, <1>8 DEF AreConcepts, Ids
<1> QED
  BY <1>6, <1>8, <1>9, <1>11, <1>12, <1>13 DEF Ids

\* What is read is known.
LEMMA ResolvedIsKnown ==
  ASSUME NEW b, Fit(b), NEW refs, Listing(refs)
  PROVE  Listing(ResolvedAll(b, refs)) /\ ToSet(ResolvedAll(b, refs)) \subseteq Ids(b)
<1> DEFINE a == Mapped(LAMBDA r : Resolved(b, r), refs)
<1>1. /\ a = [i \in 1 .. Len(refs) |-> a[i]] /\ Len(refs) \in Nat /\ DOMAIN refs = 1 .. Len(refs)
      /\ \A i \in 1 .. Len(refs) : a[i] = Resolved(b, refs[i])
  BY HeadOfList DEF Mapped
<1>2. ASSUME NEW r PROVE Listing(Resolved(b, r)) /\ ToSet(Resolved(b, r)) \subseteq Ids(b)
  <2>1. CASE r \in DOMAIN b.node
    <3> DEFINE id == IF r \in DOMAIN b.alias THEN b.alias[r] ELSE r
    <3>1. id \in Ids(b)
      BY <2>1 DEF Fit, Ids
    <3>2. Resolved(b, r) = <<id>>
      BY <2>1 DEF Resolved
    <3> HIDE DEF id
    <3> QED
      BY <3>1, <3>2, ListOfOne
  <2>2. CASE r \notin DOMAIN b.node /\ r \in EdgeIds(b)
    <3>1. EdgeOf(b, r) \in ToSet(b.edges)
      BY <2>2, EdgeOfIsOne
    <3>2. Listing(EdgeOf(b, r).outs)
      BY <3>1, EdgesThatAre DEF Fit, IsBuilder, IsEdge
    <3>3. ToSet(EdgeOf(b, r).outs) \subseteq Ids(b)
      BY <3>1 DEF Fit, Known, Knows
    <3> QED
      BY <2>2, <3>2, <3>3 DEF Resolved
  <2>3. CASE r \notin DOMAIN b.node /\ r \notin EdgeIds(b)
    BY <2>3, EmptyList DEF Resolved
  <2> QED
    BY <2>1, <2>2, <2>3
<1> HIDE DEF a
<1>3. /\ Listing(FlattenSeq(a))
      /\ \A x \in ToSet(FlattenSeq(a)) : \E i \in DOMAIN refs : x \in ToSet(a[i])
  <2>1. \A i \in 1 .. Len(refs) : Listing(a[i])
    BY <1>1, <1>2
  <2> QED
    BY <1>1, <2>1, AllOfEach
<1>4. ToSet(FlattenSeq(a)) \subseteq Ids(b)
  BY <1>1, <1>2, <1>3
<1>5. ResolvedAll(b, refs) = Distinct(FlattenSeq(a))
  BY DEF ResolvedAll, a
<1> QED
  BY <1>3, <1>4, <1>5, DistinctList

\* What the loop over a draft has done after n turns.
Follows(b, w, n) ==
  /\ Ids(w) \subseteq Ids(b) /\ Ids(b) \subseteq Ids(w) \cup Made(b)
  /\ \A m \in 1 .. n : w.edges[m].t # "MATCH_OPTIONS" =>
       b.edges # <<>> /\ ToSet(w.edges[m].outs) \subseteq Made(b)
  /\ \A j \in DOMAIN b.edges : \E m \in 1 .. n : w.edges[m].t = b.edges[j].t
  /\ \A id \in Ids(w) : b.node[id].core = w.node[id].core
  /\ b.factors \subseteq Written(w)

\* A transformation that is added to those there are: what it makes was not made, or is signed.
LEMMA WithOneMoreEdge ==
  ASSUME NEW b, AreEdges(b.edges), Signed(b), Reserved(b),
         NEW e, e.t # "MATCH_OPTIONS", NEW g, g.edges = Append(b.edges, e),
         \A id \in ToSet(e.outs) : SignedBy(id, e.id),
         NEW w, NEW n \in Nat, n + 1 \in DOMAIN w.edges, w.edges[n + 1].t = e.t, Reserved(w),
         \A j \in DOMAIN b.edges : \E m \in 1 .. n : w.edges[m].t = b.edges[j].t,
         \A id \in {Route, SpatialField} : id \in ToSet(e.outs) => id \in ToSet(w.edges[n + 1].outs)
  PROVE  Signed(g) /\ Reserved(g)
<1>1. /\ ToSet(g.edges) = ToSet(b.edges) \cup {e} /\ DOMAIN g.edges = DOMAIN b.edges \cup {Len(b.edges) + 1}
      /\ DOMAIN b.edges = 1 .. Len(b.edges) /\ Len(b.edges) \in Nat
      /\ g.edges[Len(b.edges) + 1] = e /\ \A i \in DOMAIN b.edges : g.edges[i] = b.edges[i]
  <2>1. OneMore(b.edges, e, g.edges)
    BY EdgesThatMake
  <2> QED
    BY <2>1 DEF OneMore
<1>2. Signed(g)
  <2>1. \A d \in ToSet(b.edges) : \A id \in ToSet(d.outs) : SignedBy(id, d.id)
    BY DEF Signed
  <2> QED
    BY <1>1, <2>1 DEF Signed
<1>3. ASSUME NEW name \in {Route, SpatialField}, NEW ts, FirstMakes(b, name, ts), FirstMakes(w, name, ts)
      PROVE  FirstMakes(g, name, ts)
  <2> SUFFICES ASSUME NEW i \in DOMAIN g.edges, name \in ToSet(g.edges[i].outs)
               PROVE  g.edges[i].t \in ts /\ \A j \in 1 .. i - 1 : g.edges[j].t \notin ts
    BY DEF FirstMakes
  <2>1. CASE i \in DOMAIN b.edges
    <3>1. \A j \in 1 .. i - 1 : g.edges[j] = b.edges[j]
      BY <1>1, <2>1
    <3>2. b.edges[i].t \in ts /\ \A j \in 1 .. i - 1 : b.edges[j].t \notin ts
      BY <1>1, <1>3, <2>1 DEF FirstMakes
    <3> QED
      BY <1>1, <2>1, <3>1, <3>2
  <2>2. CASE i = Len(b.edges) + 1
    <3>1. g.edges[i] = e /\ name \in ToSet(w.edges[n + 1].outs)
      BY <1>1, <2>2
    <3>2. w.edges[n + 1].t \in ts /\ \A m \in 1 .. (n + 1) - 1 : w.edges[m].t \notin ts
      BY <1>3, <3>1 DEF FirstMakes
    <3>3. \A m \in 1 .. n : w.edges[m].t \notin ts
      BY <3>2
    <3>4. ASSUME NEW j \in 1 .. i - 1 PROVE g.edges[j].t \notin ts
      <4>1. j \in DOMAIN b.edges
        BY <1>1, <2>2
      <4>2. PICK m \in 1 .. n : w.edges[m].t = b.edges[j].t
        BY <4>1
      <4> QED
        BY <1>1, <3>3, <4>1, <4>2
    <3> QED
      BY <3>1, <3>2, <3>4
  <2> QED
    BY <1>1, <2>1, <2>2
<1>4. Reserved(g)
  BY <1>3 DEF Reserved
<1> QED
  BY <1>2, <1>4

LEMMA MadeByMore ==
  ASSUME NEW b, AreEdges(b.edges), NEW e, e.t # "MATCH_OPTIONS", NEW g, g.edges = Append(b.edges, e)
  PROVE  Made(g) = Made(b) \cup ToSet(e.outs)
<1>1. OneMore(b.edges, e, g.edges)
  BY EdgesThatMake
<1>2. ToSet(g.edges) = ToSet(b.edges) \cup {e}
  BY <1>1 DEF OneMore
<1> QED
  BY <1>2 DEF Made

\* What a transformation makes was not made before, or is signed by it.
LEMMA MadeAnew ==
  ASSUME NEW w, Signed(w), NEW b, DOMAIN b.producer = Made(b), NEW raw \in ToSet(w.edges), IsEdge(raw),
         NEW o \in ToSet(EdgeOutputs(b, raw))
  PROVE  /\ SignedBy(o, raw.id)
         /\ o \notin Made(b) \/ o = Result(raw.id) \/ \E id : o = Renamed(id, raw.id)
         /\ o \in {Route, SpatialField} => o \in ToSet(raw.outs)
<1>1. CASE raw.outs = <<>>
  <2>1. o = Result(raw.id)
    BY <1>1, OutputsAre DEF IsEdge
  <2> QED
    BY <2>1, OwnSignature, MadeUpNames
<1>2. CASE raw.outs # <<>>
  <2>1. PICK id \in ToSet(raw.outs) : o = WithOutput(b, raw, id)
    BY <1>2, OutputsAre DEF IsEdge
  <2>2. CASE id \in DOMAIN b.producer
    <3>1. o = Renamed(id, raw.id)
      BY <2>1, <2>2 DEF WithOutput
    <3> QED
      BY <3>1, OwnSignature, MadeUpNames
  <2>3. CASE id \notin DOMAIN b.producer
    <3>1. o = id
      BY <2>1, <2>3 DEF WithOutput
    <3> QED
      BY <2>3, <3>1 DEF Signed
  <2> QED
    BY <2>2, <2>3
<1> QED
  BY <1>1, <1>2

LEMMA OnceMore ==
  ASSUME NEW b, AreEdges(b.edges), Once(b), Signed(b), Known(b), NEW e, e.t # "MATCH_OPTIONS",
         NEW g, g.edges = Append(b.edges, e),
         \A o \in ToSet(e.outs) :
           o \notin Made(b) \/ o = Result(e.id) \/ \E id : o = Renamed(id, e.id)
  PROVE  Once(g)
<1>1. OneMore(b.edges, e, g.edges)
  BY EdgesThatMake
<1>2. ASSUME NEW i \in DOMAIN b.edges, NEW o \in ToSet(b.edges[i].outs), o \in ToSet(e.outs)
      PROVE  b.edges[i].id = e.id
  <2>1. b.edges[i] \in ToSet(b.edges)
    BY ListedIsAnEdge
  <2>2. o \in Made(b) /\ SignedBy(o, b.edges[i].id)
    BY <1>2, <2>1 DEF Made, Signed, Known, Knows
  <2>3. o = Result(e.id) \/ \E id : o = Renamed(id, e.id)
    BY <1>2, <2>2
  <2> QED
    BY <2>2, <2>3 DEF SignedBy
<1> SUFFICES ASSUME NEW i \in DOMAIN g.edges, NEW j \in DOMAIN g.edges,
                    ToSet(g.edges[i].outs) \cap ToSet(g.edges[j].outs) # {}
             PROVE  g.edges[i].id = g.edges[j].id
  BY DEF Once
<1> DEFINE n == Len(b.edges) + 1
<1>3. /\ i \in DOMAIN b.edges \/ i = n
      /\ j \in DOMAIN b.edges \/ j = n
      /\ g.edges[n] = e /\ \A k \in DOMAIN b.edges : g.edges[k] = b.edges[k]
  BY <1>1 DEF OneMore
<1> HIDE DEF n
<1>4. CASE i \in DOMAIN b.edges /\ j \in DOMAIN b.edges
  BY <1>3, <1>4 DEF Once
<1>5. CASE i \in DOMAIN b.edges /\ j = n
  BY <1>2, <1>3, <1>5
<1>6. CASE i = n /\ j \in DOMAIN b.edges
  BY <1>2, <1>3, <1>6
<1>7. CASE i = n /\ j = n
  BY <1>7
<1> QED
  BY <1>3, <1>4, <1>5, <1>6, <1>7

\* The loop goes on.
LEMMA FollowsMore ==
  ASSUME NEW w, NEW n \in Nat, w.edges[n + 1].t # "MATCH_OPTIONS", NEW b, Follows(b, w, n),
         NEW e, e.t = w.edges[n + 1].t, NEW c, OneMore(b.edges, e, c.edges),
         Ids(b) \subseteq Ids(c), Ids(c) \subseteq Ids(b) \cup Made(c), Made(b) \subseteq Made(c),
         ToSet(w.edges[n + 1].outs) \subseteq Made(c), \A id \in Ids(b) : c.node[id] = b.node[id],
         w.edges[n + 1] \in ToSet(w.edges), c.factors = b.factors \cup w.edges[n + 1].factors
  PROVE  Follows(c, w, n + 1)
<1>0. 1 .. n + 1 = (1 .. n) \cup {n + 1}
  OBVIOUS
<1>1. Ids(w) \subseteq Ids(c) /\ Ids(c) \subseteq Ids(w) \cup Made(c)
  BY DEF Follows
<1>2. ASSUME NEW m \in 1 .. n + 1, w.edges[m].t # "MATCH_OPTIONS"
      PROVE  c.edges # <<>> /\ ToSet(w.edges[m].outs) \subseteq Made(c)
  <2>1. e \in ToSet(c.edges)
    BY DEF OneMore
  <2>2. CASE m \in 1 .. n
    BY <1>2, <2>1, <2>2, EmptyList DEF Follows
  <2>3. CASE m = n + 1
    BY <2>1, <2>3, EmptyList
  <2> QED
    BY <1>0, <2>2, <2>3
<1>3. ASSUME NEW j \in DOMAIN c.edges PROVE \E m \in 1 .. n + 1 : w.edges[m].t = c.edges[j].t
  <2>1. CASE j \in DOMAIN b.edges
    <3>1. PICK m \in 1 .. n : w.edges[m].t = b.edges[j].t
      BY <2>1 DEF Follows
    <3>2. m \in 1 .. n + 1 /\ c.edges[j] = b.edges[j]
      BY <1>0, <2>1 DEF OneMore
    <3> QED
      BY <3>1, <3>2
  <2>2. CASE j = Len(b.edges) + 1
    <3>1. c.edges[j] = e /\ n + 1 \in 1 .. n + 1
      BY <2>2 DEF OneMore
    <3> QED
      BY <3>1
  <2> QED
    BY <2>1, <2>2 DEF OneMore
<1>4. \A id \in Ids(w) : c.node[id].core = w.node[id].core
  BY DEF Follows
<1>5. c.factors \subseteq Written(w)
  BY DEF Follows, Written
<1> QED
  BY <1>1, <1>2, <1>3, <1>4, <1>5 DEF Follows

LEMMA WithEdgeFits ==
  ASSUME NEW w, Ready(w), NEW n \in Nat, n + 1 \in DOMAIN w.edges, NEW b, Fit(b), Follows(b, w, n), NEW last
  PROVE  Fit(WithEdge(b, w.edges[n + 1], last)) /\ Follows(WithEdge(b, w.edges[n + 1], last), w, n + 1)
<1> DEFINE raw == w.edges[n + 1]
           role == IF last THEN "measure" ELSE "support"
           d == WithOutputs(b, raw, role)
           ins == ResolvedAll(b, raw.ins)
           outs == EdgeOutputs(b, raw)
           via == IF ResolvedAll(d, raw.via) = <<>> THEN raw.via ELSE ResolvedAll(d, raw.via)
           edge == [id |-> raw.id, t |-> raw.t, ins |-> ins, outs |-> outs,
                    factors |-> raw.factors, via |-> via, role |-> raw.role]
           c == WithEdge(b, raw, last)
<1>0. 1 .. n + 1 = (1 .. n) \cup {n + 1}
  OBVIOUS
<1>1. IsEdge(raw) /\ raw \in ToSet(w.edges) /\ Listing(raw.ins) /\ Listing(raw.outs)
  BY ListedIsAnEdge DEF Ready, AreEdges, IsEdge
<1>2. IsBuilder(c) /\ IsBuilder(b)
  BY <1>1, WithEdgeShape DEF Fit
<1>3. CASE raw.t = "MATCH_OPTIONS"
  <2>1. c = [b EXCEPT !.promoted = @ \cup ToSet(ins)]
    BY <1>3 DEF WithEdge
  <2> HIDE DEF c
  <2>2. /\ c.node = b.node /\ c.pool = b.pool /\ c.factors = b.factors /\ c.edges = b.edges
        /\ c.producer = b.producer /\ c.alias = b.alias /\ Made(c) = Made(b)
    BY <1>2, <2>1 DEF IsBuilder, Made
  <2>3. Fit(c)
    BY <1>2, <2>2 DEF Fit, Ids, AreConcepts, Known, Knows, Signed, Reserved, FirstMakes, Once
  <2>4. Follows(c, w, n + 1)
    BY <1>0, <1>3, <2>2 DEF Follows, Ids
  <2> QED
    BY <2>3, <2>4 DEF c
<1>4. CASE raw.t # "MATCH_OPTIONS"
  <2>1. /\ IsBuilder(d) /\ d.edges = b.edges /\ d.factors = b.factors /\ d.producer = b.producer
        /\ Ids(d) = Ids(b) \cup ToSet(raw.outs) \cup ToSet(outs)
        /\ \A id \in Ids(b) : d.node[id] = b.node[id]
        /\ ToSet(d.pool) = Ids(d) /\ AreConcepts(d) /\ \A id \in DOMAIN d.alias : d.alias[id] \in Ids(d)
    <3> HIDE DEF raw, role
    <3> QED
      BY <1>1, WithOutputsIs
  <2>2. Listing(ins) /\ ToSet(ins) \subseteq Ids(b)
    BY <1>1, ResolvedIsKnown
  <2>3. outs # <<>>
    BY <1>1, OutputsAre
  <2>4. c = [d EXCEPT !.factors = @ \cup raw.factors, !.edges = Append(@, edge),
                      !.producer = [id \in DOMAIN @ \cup ToSet(outs) |->
                                      IF id \in ToSet(outs) THEN raw.id ELSE d.producer[id]]]
    BY <1>4 DEF WithEdge
  <2>5. edge.id = raw.id /\ edge.t = raw.t /\ edge.ins = ins /\ edge.outs = outs /\ edge.factors = raw.factors
    OBVIOUS
  <2> HIDE DEF c, d, edge, ins, outs, raw
  <2>6. /\ c.node = d.node /\ c.pool = d.pool /\ c.factors = b.factors \cup raw.factors
        /\ c.edges = Append(b.edges, edge) /\ c.alias = d.alias
        /\ DOMAIN c.producer = DOMAIN b.producer \cup ToSet(outs)
    BY <2>1, <2>4 DEF IsBuilder
  <2>7. Ids(c) = Ids(d)
    BY <2>6 DEF Ids
  <2>8. AreEdges(b.edges) /\ DOMAIN b.producer = Made(b) /\ Signed(w) /\ Reserved(w)
        /\ Signed(b) /\ Reserved(b) /\ Once(b) /\ Known(b)
    BY DEF Fit, IsBuilder, Ready
  <2>9. \A o \in ToSet(outs) :
          /\ SignedBy(o, raw.id)
          /\ o \notin Made(b) \/ o = Result(raw.id) \/ \E id : o = Renamed(id, raw.id)
          /\ o \in {Route, SpatialField} => o \in ToSet(raw.outs)
    BY <1>1, <2>8, MadeAnew DEF outs
  <2>10. Made(c) = Made(b) \cup ToSet(outs)
    BY <1>4, <2>5, <2>6, <2>8, MadeByMore
  <2>11. OneMore(b.edges, edge, c.edges)
    BY <2>6, <2>8, EdgesThatMake
  <2>12. \A j \in DOMAIN b.edges : \E m \in 1 .. n : w.edges[m].t = b.edges[j].t
    BY DEF Follows
  <2>13. Signed(c) /\ Reserved(c)
    BY <1>4, <2>5, <2>6, <2>8, <2>9, <2>12, WithOneMoreEdge DEF raw
  <2>14. Once(c)
    <3>1. /\ edge.t # "MATCH_OPTIONS" /\ c.edges = Append(b.edges, edge)
          /\ \A o \in ToSet(edge.outs) :
               o \notin Made(b) \/ o = Result(edge.id) \/ \E id : o = Renamed(id, edge.id)
      BY <1>4, <2>5, <2>6, <2>9
    <3> QED
      BY <2>8, <3>1, OnceMore, Zenon
  <2>15. Known(c)
    <3>1. ASSUME NEW e \in ToSet(b.edges) PROVE Knows(c, e)
      <4>1. Knows(b, e)
        BY <2>8 DEF Known
      <4> QED
        BY <2>1, <2>6, <2>7, <4>1 DEF Knows
    <3>2. Knows(c, edge)
      BY <1>4, <2>1, <2>2, <2>3, <2>5, <2>6, <2>7 DEF Knows
    <3> QED
      BY <2>11, <3>1, <3>2 DEF Known, OneMore
  <2>16. Fit(c)
    <3>1. DOMAIN c.producer = Made(c)
      BY <2>6, <2>8, <2>10
    <3>2. ToSet(c.pool) = Ids(c) /\ \A id \in DOMAIN c.alias : c.alias[id] \in Ids(c)
      BY <2>1, <2>6, <2>7
    <3>3. AreConcepts(c)
      BY <2>1, <2>6, <2>7 DEF AreConcepts
    <3> QED
      BY <1>2, <2>13, <2>14, <2>15, <3>1, <3>2, <3>3 DEF Fit
  <2>17. ToSet(raw.outs) \subseteq Made(c)
    <3>1. ASSUME NEW id \in ToSet(raw.outs) PROVE id \in Made(b) \/ id \in ToSet(outs)
      <4>1. raw.outs # <<>>
        BY EmptyList
      <4>2. WithOutput(b, raw, id) \in ToSet(outs)
        BY <1>1, <4>1, OutputsAre DEF outs
      <4> QED
        BY <2>8, <4>2 DEF WithOutput
    <3> QED
      BY <2>10, <3>1
  <2>18. Follows(c, w, n + 1)
    <3>1. /\ w.edges[n + 1].t # "MATCH_OPTIONS" /\ edge.t = w.edges[n + 1].t
          /\ ToSet(w.edges[n + 1].outs) \subseteq Made(c)
      BY <1>4, <2>5, <2>17 DEF raw
    <3>3. w.edges[n + 1] \in ToSet(w.edges) /\ c.factors = b.factors \cup w.edges[n + 1].factors
      BY <1>1, <2>6 DEF raw
    <3>2. /\ Ids(b) \subseteq Ids(c) /\ Ids(c) \subseteq Ids(b) \cup Made(c) /\ Made(b) \subseteq Made(c)
          /\ \A id \in Ids(b) : c.node[id] = b.node[id]
      BY <2>1, <2>6, <2>7, <2>10, <2>17
    <3> QED
      BY <2>11, <3>1, <3>2, <3>3, FollowsMore, Zenon
  <2> QED
    BY <2>16, <2>18 DEF c, raw
<1> QED
  BY <1>3, <1>4

\* What a draft in the older format leaves: it may make a concept twice.
Laid(b) ==
  /\ IsBuilder(b) /\ ToSet(b.pool) = Ids(b) /\ AreConcepts(b) /\ Signed(b) /\ Reserved(b)
  /\ \A e \in ToSet(b.edges) : e.t # "MATCH_OPTIONS" /\ e.factors \subseteq b.factors

LEMMA StepShapedFits ==
  ASSUME NEW w, Ready(w), NEW n \in Nat, n + 1 \in DOMAIN w.edges, NEW b, Laid(b), Follows(b, w, n), NEW last
  PROVE  /\ Laid(WithStepShaped(b, w.edges[n + 1], last))
         /\ Follows(WithStepShaped(b, w.edges[n + 1], last), w, n + 1)
<1> DEFINE raw == w.edges[n + 1]
           role == StepRole(raw, last)
           result == Result(raw.id)
           declared == IF raw.outs = <<>> THEN Added(b, result, StepResult(raw.t, role))
                       ELSE Declaring(b, raw.outs, Synthesized(raw.t, role))
           known == b.factors \cup raw.factors
           outs == IF raw.outs = <<>> THEN <<result>> ELSE raw.outs
           edge == [id |-> raw.id, t |-> raw.t, outs |-> outs,
                    ins |-> Distinct(FlattenSeq(Mapped(LAMBDA name : StepReads(b, name), raw.ins))),
                    via |-> raw.via, role |-> raw.role,
                    factors |-> raw.factors \cup {f \in known : f[1] \in FactorsOf(raw.t)}]
           answers == UNION {ToSet(StepReads(b, name)) : name \in ToSet(raw.ins) \cap EdgeIds(b)}
           c == WithStepShaped(b, raw, last)
<1>0. 1 .. n + 1 = (1 .. n) \cup {n + 1}
  OBVIOUS
<1>1. IsEdge(raw) /\ raw \in ToSet(w.edges) /\ Listing(raw.outs)
  BY ListedIsAnEdge DEF Ready, AreEdges, IsEdge
<1>2. IsBuilder(c) /\ IsBuilder(b) /\ ToSet(b.pool) = Ids(b) /\ AreConcepts(b)
  BY <1>1, WithStepShapedShape DEF Laid
<1>3. CASE raw.t = "MATCH_OPTIONS"
  <2>1. c = WithRole(b, answers, "measure")
    BY <1>3 DEF WithStepShaped
  <2> HIDE DEF c, answers
  <2>2. /\ c.node = Reroled(b.node, answers, "measure") /\ c.pool = b.pool /\ c.edges = b.edges
        /\ Made(c) = Made(b) /\ c.factors = b.factors
    BY <1>2, <2>1 DEF WithRole, IsBuilder, Made, Reroled
  <2>3. Ids(c) = Ids(b) /\ AreConcepts(c) /\ \A id \in Ids(b) : c.node[id].core = b.node[id].core
    <3>1. \A id \in DOMAIN b.node : IsConcept(b.node[id])
      BY <1>2 DEF AreConcepts, Ids
    <3>2. /\ DOMAIN c.node = DOMAIN b.node
          /\ \A id \in DOMAIN b.node : IsConcept(c.node[id]) /\ c.node[id].core = b.node[id].core
      BY <2>2, <3>1, RoleChanges
    <3> QED
      BY <3>2 DEF Ids, AreConcepts
  <2>4. Laid(c)
    BY <1>2, <2>2, <2>3 DEF Laid, Signed, Reserved, FirstMakes
  <2>5. Follows(c, w, n + 1)
    BY <1>0, <1>3, <2>2, <2>3 DEF Follows
  <2> QED
    BY <2>4, <2>5 DEF c
<1>4. CASE raw.t # "MATCH_OPTIONS"
  <2>1. Listing(outs) /\ outs # <<>> /\ ToSet(outs) = IF raw.outs = <<>> THEN {result} ELSE ToSet(raw.outs)
    BY <1>1, ListOfOne, EmptyList
  <2>2. /\ DOMAIN declared.node = Ids(b) \cup ToSet(outs) /\ ToSet(declared.pool) = DOMAIN declared.node
        /\ \A id \in Ids(b) : declared.node[id] = b.node[id]
        /\ AreConcepts(declared)
    <3>1. CASE raw.outs = <<>>
      <4>1. declared = Added(b, result, StepResult(raw.t, role)) /\ ToSet(outs) = {result}
        BY <2>1, <3>1
      <4>2. ToSet(Append(b.pool, result)) = ToSet(b.pool) \cup {result}
        BY <1>2, ListWithOneMore DEF IsBuilder
      <4> HIDE DEF declared, outs, result
      <4> QED
        BY <1>2, <4>1, <4>2, ConceptsAdded DEF Added, IsBuilder, Ids, AreConcepts
    <3>2. CASE raw.outs # <<>>
      <4>1. declared = Declaring(b, raw.outs, Synthesized(raw.t, role)) /\ ToSet(outs) = ToSet(raw.outs)
        BY <2>1, <3>2
      <4> HIDE DEF declared, outs
      <4> QED
        BY <1>1, <1>2, <4>1, DeclaringIs, ConceptsAdded
    <3> QED
      BY <3>1, <3>2
  <2>3. c = [b EXCEPT !.node = declared.node, !.pool = declared.pool, !.factors = known,
                      !.edges = Append(@, edge)]
    BY <1>4 DEF WithStepShaped
  <2>4. edge.id = raw.id /\ edge.t = raw.t /\ edge.outs = outs /\ edge.factors \subseteq known
        /\ known = b.factors \cup raw.factors
    OBVIOUS
  <2>5. \A o \in ToSet(outs) : SignedBy(o, raw.id) /\ (o \in {Route, SpatialField} => o \in ToSet(raw.outs))
    <3>1. Signed(w)
      BY DEF Ready
    <3> HIDE DEF outs, raw, Ready
    <3>2. \A o \in ToSet(raw.outs) : SignedBy(o, raw.id)
      BY <1>1, <3>1 DEF Signed
    <3>3. SignedBy(result, raw.id) /\ result \notin {Route, SpatialField}
      BY OwnSignature, MadeUpNames
    <3> HIDE DEF result
    <3> QED
      BY <2>1, <3>2, <3>3
  <2> HIDE DEF c, declared, edge, outs, raw, known
  <2>6. /\ c.node = declared.node /\ c.pool = declared.pool /\ c.edges = Append(b.edges, edge)
        /\ c.factors = known
    BY <1>2, <2>3 DEF IsBuilder
  <2>7. Ids(c) = Ids(b) \cup ToSet(outs) /\ ToSet(c.pool) = Ids(c) /\ AreConcepts(c)
    BY <2>2, <2>6 DEF Ids, AreConcepts
  <2>8. AreEdges(b.edges) /\ Signed(b) /\ Reserved(b) /\ Reserved(w)
        /\ \A e \in ToSet(b.edges) : e.t # "MATCH_OPTIONS" /\ e.factors \subseteq b.factors
    BY DEF Laid, IsBuilder, Ready
  <2>9. Made(c) = Made(b) \cup ToSet(outs)
    BY <1>4, <2>4, <2>6, <2>8, MadeByMore
  <2>10. OneMore(b.edges, edge, c.edges)
    BY <2>6, <2>8, EdgesThatMake
  <2>11. \A j \in DOMAIN b.edges : \E m \in 1 .. n : w.edges[m].t = b.edges[j].t
    BY DEF Follows
  <2>12. Signed(c) /\ Reserved(c)
    BY <1>4, <2>4, <2>5, <2>6, <2>8, <2>11, WithOneMoreEdge DEF raw
  <2>13. Laid(c)
    <3>1. \A e \in ToSet(c.edges) : e.t # "MATCH_OPTIONS" /\ e.factors \subseteq c.factors
      BY <1>4, <2>4, <2>6, <2>8, <2>10 DEF OneMore
    <3> QED
      BY <1>2, <2>7, <2>12, <3>1 DEF Laid
  <2>14. ToSet(raw.outs) \subseteq ToSet(outs)
    BY <2>1, EmptyList
  <2>15. Follows(c, w, n + 1)
    <3>1. /\ w.edges[n + 1].t # "MATCH_OPTIONS" /\ edge.t = w.edges[n + 1].t
          /\ ToSet(w.edges[n + 1].outs) \subseteq Made(c)
      BY <1>4, <2>4, <2>9, <2>14 DEF raw
    <3>2. /\ Ids(b) \subseteq Ids(c) /\ Ids(c) \subseteq Ids(b) \cup Made(c) /\ Made(b) \subseteq Made(c)
          /\ \A id \in Ids(b) : c.node[id] = b.node[id]
      BY <2>2, <2>6, <2>7, <2>9
    <3>3. w.edges[n + 1] \in ToSet(w.edges) /\ c.factors = b.factors \cup w.edges[n + 1].factors
      BY <1>1, <2>4, <2>6 DEF raw
    <3> QED
      BY <2>10, <3>1, <3>2, <3>3, FollowsMore, Zenon
  <2> QED
    BY <2>13, <2>15 DEF c, raw
<1> QED
  BY <1>3, <1>4

\* What the loop over a draft does, in the one format or the other.
Turned(w, stepped, b, i) == Follows(b, w, i) /\ IF stepped THEN Laid(b) ELSE Fit(b)

LEMMA BuilderFits ==
  ASSUME NEW w, Ready(w), NEW stepped
  PROVE  Turned(w, stepped, Builder(w), 0)
<1> DEFINE b == Builder(w)
<1>1. /\ b = [node |-> w.node, pool |-> w.pool, factors |-> w.factors, edges |-> <<>>,
              producer |-> <<>>, alias |-> <<>>, promoted |-> {}]
      /\ b.node = w.node /\ b.pool = w.pool /\ b.edges = <<>> /\ b.producer = <<>> /\ b.alias = <<>>
      /\ b.factors = w.factors
  BY DEF Builder
<1>2. Listing(w.pool) /\ ToSet(w.pool) = Ids(w) /\ AreConcepts(w)
  BY DEF Ready
<1> HIDE DEF b
<1>3. IsBuilder(b) /\ ToSet(b.pool) = Ids(b) /\ Ids(b) = Ids(w) /\ AreConcepts(b)
  BY <1>1, <1>2, NoEdges DEF IsBuilder, Ids, AreConcepts
<1>4. ToSet(b.edges) = {} /\ DOMAIN b.edges = {} /\ DOMAIN b.producer = {} /\ DOMAIN b.alias = {}
  BY <1>1, EmptyList
<1>5. Known(b) /\ Signed(b) /\ Reserved(b) /\ Once(b) /\ Made(b) = {}
  BY <1>4 DEF Known, Signed, Reserved, FirstMakes, Once, Made
<1>6. Fit(b) /\ Laid(b)
  BY <1>3, <1>4, <1>5 DEF Fit, Laid
<1>7. Follows(b, w, 0)
  <2>1. /\ 1 .. 0 = {} /\ b.factors \subseteq Written(w)
        /\ \A id \in Ids(w) : b.node[id].core = w.node[id].core
    BY <1>1 DEF Written
  <2> QED
    BY <1>3, <1>4, <2>1 DEF Follows
<1> QED
  BY <1>6, <1>7 DEF b, Turned

LEMMA BuiltFits ==
  ASSUME NEW w, Ready(w), NEW stepped
  PROVE  Turned(w, stepped, Built(w, stepped), Len(w.edges))
<1> DEFINE n == Len(w.edges)
           Loop(f) == f = [i \in 0 .. n |-> IF i = 0 THEN Builder(w) ELSE TurnOf(w, stepped, f[i - 1], i)]
           after == CHOOSE f : Loop(f)
<1>1. n \in Nat /\ DOMAIN w.edges = 1 .. n
  BY EdgesThatAre DEF Ready
<1>2. PICK f : Building(w, stepped, n, f)
  <2> HIDE DEF n
  <2> QED
    BY <1>1, BuildingRuns
<1>3. Loop(after)
  BY Zenon, <1>2 DEF Building
<1>4. Built(w, stepped) = after[n]
  BY DEF Built, TurnOf
<1> HIDE DEF after
<1>5. \A i \in 0 .. n : after[i] = IF i = 0 THEN Builder(w) ELSE TurnOf(w, stepped, after[i - 1], i)
  BY Zenon, <1>3
<1> DEFINE T == {i \in 0 .. n : Turned(w, stepped, after[i], i)}
<1>6. 0 .. n \subseteq T
  <2>1. 0 \in T
    <3>1. after[0] = Builder(w) /\ 0 \in 0 .. n
      BY <1>1, <1>5
    <3> QED
      BY <3>1, BuilderFits
  <2>2. ASSUME NEW i \in 0 .. n - 1, i \in T
        PROVE  i + 1 \in T
    <3>1. /\ i \in Nat /\ i + 1 \in 0 .. n /\ i + 1 # 0 /\ (i + 1) - 1 = i /\ i + 1 \in DOMAIN w.edges
          /\ Turned(w, stepped, after[i], i)
      BY <1>1, <2>2
    <3>2. after[i + 1] = TurnOf(w, stepped, after[i], i + 1)
      BY <1>5, <3>1
    <3>3. Turned(w, stepped, TurnOf(w, stepped, after[i], i + 1), i + 1)
      <4> DEFINE b == after[i]
                 last == i + 1 = Len(w.edges)
      <4>1. CASE stepped
        <5>1. Laid(b) /\ Follows(b, w, i) /\ TurnOf(w, stepped, b, i + 1) = WithStepShaped(b, w.edges[i + 1], last)
          BY <3>1, <4>1 DEF TurnOf, Turned
        <5> HIDE DEF b, last
        <5> QED
          BY <3>1, <4>1, <5>1, StepShapedFits DEF Turned, b
      <4>2. CASE ~stepped
        <5>1. Fit(b) /\ Follows(b, w, i) /\ TurnOf(w, stepped, b, i + 1) = WithEdge(b, w.edges[i + 1], last)
          BY <3>1, <4>2 DEF TurnOf, Turned
        <5> HIDE DEF b, last
        <5> QED
          BY <3>1, <4>2, <5>1, WithEdgeFits DEF Turned, b
      <4> QED
        BY <4>1, <4>2
    <3> QED
      BY <3>1, <3>2, <3>3
  <2>3. T \in SUBSET Nat
    OBVIOUS
  <2> HIDE DEF T, n
  <2> QED
    BY <1>1, <2>1, <2>2, <2>3, UpTo
<1>7. n \in 0 .. n
  BY <1>1
<1> QED
  BY <1>4, <1>6, <1>7

\* What a transformation implies is made, if there is such a transformation.
Provided(g) ==
  (Uses(g, Routing) => Route \in Made(g)) /\ (Uses(g, Distances) => SpatialField \in Made(g))

LEMMA FollowedIs ==
  ASSUME NEW w, Ready(w), NEW b, AreEdges(b.edges), Follows(b, w, Len(w.edges))
  PROVE  /\ Accounted(b) /\ (HasEdges(w) => b.edges # <<>>)
         /\ Provided(w) => Provided(b)
<1>1. DOMAIN w.edges = 1 .. Len(w.edges)
  BY EdgesThatAre DEF Ready
<1>2. ASSUME NEW e \in ToSet(w.edges), e.t # "MATCH_OPTIONS"
      PROVE  b.edges # <<>> /\ ToSet(e.outs) \subseteq Made(b)
  <2>1. PICK m \in DOMAIN w.edges : w.edges[m] = e
    BY AnEdgeIsListed
  <2> QED
    BY <1>1, <1>2, <2>1 DEF Follows
<1>3. Made(w) \subseteq Made(b)
  BY <1>2 DEF Made
<1>4. Accounted(b)
  <2>1. Accounted(w) /\ Ids(b) \subseteq Ids(w) \cup Made(b)
        /\ \A id \in Ids(w) : b.node[id].core = w.node[id].core
    BY DEF Ready, Follows
  <2> QED
    BY <1>3, <2>1 DEF Accounted
<1>5. HasEdges(w) => b.edges # <<>>
  BY <1>2 DEF HasEdges
<1>6. ASSUME NEW ts, Uses(b, ts) PROVE Uses(w, ts)
  <2>1. PICK e \in ToSet(b.edges) : e.t \in ts
    BY <1>6 DEF Uses
  <2>2. PICK j \in DOMAIN b.edges : b.edges[j] = e
    BY AnEdgeIsListed
  <2>3. PICK m \in 1 .. Len(w.edges) : w.edges[m].t = b.edges[j].t
    BY DEF Follows
  <2>4. w.edges[m] \in ToSet(w.edges)
    BY <1>1, ListedIsAnEdge
  <2> QED
    BY <2>1, <2>2, <2>3, <2>4 DEF Uses
<1>7. Provided(w) => Provided(b)
  BY <1>3, <1>6 DEF Provided
<1> QED
  BY <1>4, <1>5, <1>7

\* What every completion keeps, and transformations that only read otherwise than before.
Whole(b) == Fit(b) /\ Accounted(b) /\ b.edges # <<>>
SameMakers(b, c) ==
  /\ DOMAIN c.edges = DOMAIN b.edges
  /\ \A i \in DOMAIN b.edges :
       c.edges[i].id = b.edges[i].id /\ c.edges[i].t = b.edges[i].t /\ c.edges[i].outs = b.edges[i].outs

LEMMA MakersStay ==
  ASSUME NEW b, AreEdges(b.edges), NEW c, SameMakers(b, c)
  PROVE  /\ Made(c) = Made(b) /\ (Provided(b) => Provided(c)) /\ (NamedApart(c) <=> NamedApart(b))
         /\ Signed(b) => Signed(c)
         /\ Reserved(b) => Reserved(c)
         /\ Once(b) => Once(c)
<1>1. ASSUME NEW x, NEW y, SameMakers(x, y), NEW e \in ToSet(y.edges)
      PROVE  \E d \in ToSet(x.edges) : d.id = e.id /\ d.t = e.t /\ d.outs = e.outs
  <2>1. PICK i \in DOMAIN y.edges : y.edges[i] = e
    BY AnEdgeIsListed
  <2>2. i \in DOMAIN x.edges /\ x.edges[i] \in ToSet(x.edges)
    BY <1>1, ListedIsAnEdge DEF SameMakers
  <2> QED
    BY <1>1, <2>1, <2>2 DEF SameMakers
<1>2. SameMakers(c, b)
  BY DEF SameMakers
<1>3. Made(c) = Made(b)
  <2>1. Made(c) \subseteq Made(b)
    BY <1>1 DEF Made
  <2>2. Made(b) \subseteq Made(c)
    BY <1>1, <1>2 DEF Made
  <2> QED
    BY <2>1, <2>2
<1>4. \A ts : Uses(c, ts) => Uses(b, ts)
  BY <1>1 DEF Uses
<1>5. Signed(b) => Signed(c)
  <2> SUFFICES ASSUME Signed(b), NEW e \in ToSet(c.edges) PROVE \A id \in ToSet(e.outs) : SignedBy(id, e.id)
    BY DEF Signed
  <2>1. PICK d \in ToSet(b.edges) : d.id = e.id /\ d.t = e.t /\ d.outs = e.outs
    BY <1>1
  <2> QED
    BY <2>1 DEF Signed
<1>6. ASSUME NEW name, NEW ts, FirstMakes(b, name, ts) PROVE FirstMakes(c, name, ts)
  <2> SUFFICES ASSUME NEW i \in DOMAIN c.edges, name \in ToSet(c.edges[i].outs)
               PROVE  c.edges[i].t \in ts /\ \A j \in 1 .. i - 1 : c.edges[j].t \notin ts
    BY DEF FirstMakes
  <2>1. i \in DOMAIN b.edges /\ name \in ToSet(b.edges[i].outs) /\ c.edges[i].t = b.edges[i].t
    BY DEF SameMakers
  <2>2. b.edges[i].t \in ts /\ \A j \in 1 .. i - 1 : b.edges[j].t \notin ts
    BY <1>6, <2>1 DEF FirstMakes
  <2>3. ASSUME NEW j \in 1 .. i - 1 PROVE c.edges[j].t \notin ts
    <3>1. DOMAIN b.edges = 1 .. Len(b.edges) /\ Len(b.edges) \in Nat
      BY EdgesThatAre
    <3>2. j \in DOMAIN b.edges
      BY <2>1, <3>1
    <3> QED
      BY <2>2, <3>2 DEF SameMakers
  <2> QED
    BY <2>1, <2>2, <2>3
<1>7. Reserved(b) => Reserved(c)
  BY <1>6 DEF Reserved
<1>8. (Once(b) => Once(c)) /\ (NamedApart(c) <=> NamedApart(b))
  BY DEF Once, NamedApart, SameMakers
<1> QED
  BY <1>3, <1>4, <1>5, <1>7, <1>8 DEF Provided

LEMMA ReadOtherwise ==
  ASSUME NEW b, Whole(b), NEW c, IsBuilder(c), SameMakers(b, c),
         c.node = b.node, c.pool = b.pool, c.factors = b.factors, c.producer = b.producer, c.alias = b.alias,
         \A i \in DOMAIN b.edges :
           c.edges[i].factors = b.edges[i].factors /\ ToSet(c.edges[i].ins) \subseteq Ids(b)
  PROVE  Whole(c) /\ (Provided(b) => Provided(c))
<1>1. Fit(b) /\ Accounted(b) /\ b.edges # <<>> /\ AreEdges(b.edges) /\ Known(b)
  BY DEF Whole, Fit, IsBuilder
<1>2. Made(c) = Made(b) /\ (Provided(b) => Provided(c)) /\ Signed(c) /\ Reserved(c) /\ Once(c)
  BY <1>1, MakersStay DEF Fit
<1>3. Ids(c) = Ids(b) /\ Accounted(c) /\ AreConcepts(c)
  BY <1>1, <1>2 DEF Ids, Accounted, AreConcepts, Fit
<1>4. Known(c)
  <2> SUFFICES ASSUME NEW e \in ToSet(c.edges) PROVE Knows(c, e)
    BY DEF Known
  <2>1. PICK i \in DOMAIN c.edges : c.edges[i] = e
    BY AnEdgeIsListed
  <2>2. i \in DOMAIN b.edges /\ Knows(b, b.edges[i])
    BY <1>1, ListedIsAnEdge DEF SameMakers, Known
  <2>3. e.t = b.edges[i].t /\ e.outs = b.edges[i].outs /\ e.factors = b.edges[i].factors
        /\ ToSet(e.ins) \subseteq Ids(b)
    BY <2>1, <2>2 DEF SameMakers
  <2> QED
    BY <1>3, <2>2, <2>3 DEF Knows
<1>5. c.edges # <<>>
  <2>1. DOMAIN b.edges # {}
    <3>1. ToSet(b.edges) # {}
      BY <1>1, EdgesThatAre, HeadOfList
    <3> QED
      BY <3>1 DEF ToSet
  <2>2. ToSet(c.edges) # {}
    BY <2>1 DEF SameMakers, ToSet
  <2> QED
    BY <2>2, EmptyList
<1>6. Fit(c)
  BY <1>1, <1>2, <1>3, <1>4 DEF Fit
<1> QED
  BY <1>2, <1>3, <1>5, <1>6 DEF Whole

\* A transformation makes only what it can.
Typed(g) ==
  \A e \in ToSet(g.edges) : AcceptedOutputTypes(e.t) # {} =>
    \A id \in ToSet(e.outs) : g.node[id].core \in AcceptedOutputTypes(e.t)

LEMMA ToldOtherwise ==
  ASSUME NEW b, Whole(b), NEW c, IsBuilder(c), c.edges = b.edges,
         c.pool = b.pool, c.factors = b.factors, c.producer = b.producer, c.alias = b.alias,
         DOMAIN c.node = Ids(b), AreConcepts(c),
         \A id \in Ids(b) \ Made(b) : c.node[id].core = b.node[id].core
  PROVE  Whole(c) /\ (Provided(b) => Provided(c)) /\ (NamedApart(c) <=> NamedApart(b))
<1>1. Fit(b) /\ Accounted(b) /\ b.edges # <<>> /\ Known(b)
  BY DEF Whole, Fit
<1>2. Ids(c) = Ids(b) /\ SameMakers(b, c)
  BY DEF Ids, SameMakers
<1>3. /\ Made(c) = Made(b) /\ (Provided(b) => Provided(c)) /\ (NamedApart(c) <=> NamedApart(b))
      /\ Signed(c) /\ Reserved(c) /\ Once(c)
  BY <1>1, <1>2, MakersStay DEF Fit, IsBuilder
<1>4. Accounted(c) /\ Known(c)
  BY <1>1, <1>2, <1>3 DEF Accounted, Known, Knows
<1>5. Fit(c)
  BY <1>1, <1>2, <1>3, <1>4 DEF Fit
<1> QED
  BY <1>1, <1>3, <1>4, <1>5 DEF Whole

\* Another role changes nothing else.
LEMMA RoleGiven ==
  ASSUME NEW b, Whole(b), NEW ids, NEW role
  PROVE  LET c == WithRole(b, ids, role) IN
         /\ Whole(c) /\ (Provided(b) => Provided(c)) /\ (NamedApart(c) <=> NamedApart(b))
         /\ Typed(b) => Typed(c)
         /\ c.edges = b.edges /\ c.producer = b.producer /\ c.factors = b.factors
         /\ DOMAIN c.node = Ids(b) /\ \A id \in Ids(b) : c.node[id].core = b.node[id].core
         /\ \A id \in Ids(b) \cap ids : c.node[id].role = role
<1> DEFINE c == WithRole(b, ids, role)
<1>1. IsBuilder(b) /\ IsBuilder(c) /\ Known(b) /\ AreConcepts(b)
  BY WithRoleShape DEF Whole, Fit
<1>2. /\ c.node = Reroled(b.node, ids, role)
      /\ c.edges = b.edges /\ c.pool = b.pool /\ c.factors = b.factors /\ c.producer = b.producer
      /\ c.alias = b.alias
  BY <1>1 DEF WithRole, IsBuilder, Reroled
<1> HIDE DEF c
<1>3. /\ DOMAIN c.node = Ids(b) /\ AreConcepts(c) /\ \A id \in Ids(b) : c.node[id].core = b.node[id].core
      /\ \A id \in Ids(b) \cap ids : c.node[id].role = role
  <2>1. \A id \in DOMAIN b.node : IsConcept(b.node[id])
    BY <1>1 DEF AreConcepts, Ids
  <2>2. /\ DOMAIN c.node = DOMAIN b.node
        /\ \A id \in DOMAIN b.node : IsConcept(c.node[id]) /\ c.node[id].core = b.node[id].core
        /\ \A id \in DOMAIN b.node \cap ids : c.node[id].role = role
    BY <1>2, <2>1, RoleChanges
  <2> QED
    BY <2>2 DEF Ids, AreConcepts
<1>4. Whole(c) /\ (Provided(b) => Provided(c)) /\ (NamedApart(c) <=> NamedApart(b))
  BY <1>1, <1>2, <1>3, ToldOtherwise
<1>5. Typed(b) => Typed(c)
  BY <1>1, <1>2, <1>3 DEF Typed, Known, Knows
<1> QED
  BY <1>2, <1>3, <1>4, <1>5 DEF c

\* A transformation in front of the others.
InFront(edges, e, all) ==
  /\ ToSet(all) = {e} \cup ToSet(edges) /\ DOMAIN all = 1 .. Len(edges) + 1 /\ all[1] = e
  /\ \A i \in DOMAIN all : i = 1 \/ (i - 1 \in DOMAIN edges /\ all[i] = edges[i - 1])

LEMMA EdgeInFront ==
  ASSUME NEW edges, AreEdges(edges), NEW e
  PROVE  InFront(edges, e, <<e>> \o edges)
<1> DEFINE S == ToSet(edges) \cup {e}
           all == <<e>> \o edges
<1>1. Listing(edges) /\ Listing(<<e>>) /\ ToSet(<<e>>) = {e} /\ DOMAIN edges = 1 .. Len(edges) /\ Len(edges) \in Nat
  BY EdgesThatAre, ListOfOne
<1>2. ToSet(all) = {e} \cup ToSet(edges)
  BY <1>1, ListsTogether
<1>3. edges \in Seq(S) /\ <<e>> \in Seq(S)
  BY <1>1 DEF Listing
<1> HIDE DEF S
<1>4. DOMAIN all = 1 .. Len(edges) + 1 /\ all[1] = e
  BY <1>1, <1>3
<1>5. ASSUME NEW i \in DOMAIN all, i # 1 PROVE i - 1 \in DOMAIN edges /\ all[i] = edges[i - 1]
  BY <1>1, <1>3, <1>4, <1>5
<1> QED
  BY <1>2, <1>4, <1>5 DEF InFront

LEMMA FitsInFront ==
  ASSUME NEW b, AreEdges(b.edges), Known(b), Signed(b), Reserved(b), Once(b),
         NEW e, e.t = "RESOLVE_PLACES", ToSet(e.outs) \cap Made(b) = {},
         \A id \in ToSet(e.outs) : SignedBy(id, e.id) /\ id \notin {Route, SpatialField},
         NEW c, InFront(b.edges, e, c.edges)
  PROVE  /\ Signed(c) /\ Reserved(c) /\ Once(c) /\ Made(c) = Made(b) \cup ToSet(e.outs)
         /\ Provided(b) => Provided(c)
<1>1. /\ ToSet(c.edges) = {e} \cup ToSet(b.edges) /\ DOMAIN c.edges = 1 .. Len(b.edges) + 1 /\ c.edges[1] = e
      /\ \A i \in DOMAIN c.edges : i = 1 \/ (i - 1 \in DOMAIN b.edges /\ c.edges[i] = b.edges[i - 1])
      /\ Len(b.edges) \in Nat /\ DOMAIN b.edges = 1 .. Len(b.edges)
  BY EdgesThatAre DEF InFront
<1>2. Signed(c)
  BY <1>1 DEF Signed
<1>3. Made(c) = Made(b) \cup ToSet(e.outs)
  BY <1>1 DEF Made
<1>4. ASSUME NEW name \in {Route, SpatialField}, NEW ts, "RESOLVE_PLACES" \notin ts, FirstMakes(b, name, ts)
      PROVE  FirstMakes(c, name, ts)
  <2> SUFFICES ASSUME NEW i \in DOMAIN c.edges, name \in ToSet(c.edges[i].outs)
               PROVE  c.edges[i].t \in ts /\ \A j \in 1 .. i - 1 : c.edges[j].t \notin ts
    BY DEF FirstMakes
  <2>1. i # 1
    BY <1>1
  <2>2. i - 1 \in DOMAIN b.edges /\ c.edges[i] = b.edges[i - 1]
    BY <1>1, <2>1
  <2>3. b.edges[i - 1].t \in ts /\ \A j \in 1 .. (i - 1) - 1 : b.edges[j].t \notin ts
    BY <1>4, <2>2 DEF FirstMakes
  <2>4. ASSUME NEW j \in 1 .. i - 1 PROVE c.edges[j].t \notin ts
    <3>1. CASE j = 1
      BY <1>1, <1>4, <3>1
    <3>2. CASE j # 1
      <4>1. j \in DOMAIN c.edges /\ j - 1 \in 1 .. (i - 1) - 1
        BY <1>1, <3>2
      <4>2. c.edges[j] = b.edges[j - 1]
        BY <1>1, <3>2, <4>1
      <4> QED
        BY <2>3, <4>1, <4>2
    <3> QED
      BY <3>1, <3>2
  <2> QED
    BY <2>2, <2>3, <2>4
<1>5. Reserved(c)
  BY <1>4 DEF Reserved, Routing, Distances
<1>6. Once(c)
  <2>1. \A i \in DOMAIN b.edges : ToSet(b.edges[i].outs) \subseteq Made(b)
    BY ListedIsAnEdge DEF Made, Known, Knows
  <2> SUFFICES ASSUME NEW i \in DOMAIN c.edges, NEW j \in DOMAIN c.edges,
                      ToSet(c.edges[i].outs) \cap ToSet(c.edges[j].outs) # {}
               PROVE  c.edges[i].id = c.edges[j].id
    BY DEF Once
  <2>2. CASE i = 1 /\ j = 1
    BY <2>2
  <2>3. CASE i = 1 /\ j # 1
    BY <1>1, <2>1, <2>3
  <2>4. CASE i # 1 /\ j = 1
    BY <1>1, <2>1, <2>4
  <2>5. CASE i # 1 /\ j # 1
    <3>1. PICK p \in DOMAIN b.edges : c.edges[i] = b.edges[p]
      BY <1>1, <2>5
    <3>2. PICK q \in DOMAIN b.edges : c.edges[j] = b.edges[q]
      BY <1>1, <2>5
    <3>3. b.edges[p].id = b.edges[q].id
      BY <3>1, <3>2 DEF Once
    <3> QED
      BY <3>1, <3>2, <3>3
  <2> QED
    BY <2>2, <2>3, <2>4, <2>5
<1>7. \A ts \in {Routing, Distances} : Uses(c, ts) => Uses(b, ts)
  BY <1>1 DEF Uses, Routing, Distances
<1>8. Provided(b) => Provided(c)
  BY <1>3, <1>7 DEF Provided
<1> QED
  BY <1>2, <1>3, <1>5, <1>6, <1>8

LEMMA PlacesResolvedWhole ==
  ASSUME NEW b, Whole(b)
  PROVE  /\ Whole(PlacesResolved(b)) /\ (Provided(b) => Provided(PlacesResolved(b)))
         /\ PlacesResolved(b).factors = b.factors
<1> DEFINE Wanted(e) == Kept(e.ins, LAMBDA id :
             /\ id \notin DOMAIN b.producer
             /\ \/ e.t \in Placed /\ IsPlace(b, id)
                \/ e.t = "FILTER" /\ b.node[id].core = "location")
           each == Mapped(Wanted, b.edges)
           wanted == Distinct(FlattenSeq(each))
           unused == CHOOSE n \in 0..Len(b.edges) :
                       /\ <<"resolve_places", n>> \notin EdgeIds(b)
                       /\ \A m \in 0..(n - 1) : <<"resolve_places", m>> \in EdgeIds(b)
           edge == [id |-> <<"resolve_places", unused>>, t |-> "RESOLVE_PLACES", ins |-> wanted,
                    outs |-> wanted, factors |-> {}, via |-> <<>>, role |-> Unsaid]
           producer == [i \in DOMAIN b.producer \cup ToSet(wanted) |->
                          IF i \in ToSet(wanted) THEN edge.id ELSE b.producer[i]]
           c == PlacesResolved(b)
<1>1. /\ Fit(b) /\ Accounted(b) /\ b.edges # <<>> /\ IsBuilder(b) /\ AreEdges(b.edges) /\ Known(b)
      /\ Signed(b) /\ Reserved(b) /\ Once(b) /\ DOMAIN b.producer = Made(b) /\ ToSet(b.pool) = Ids(b)
      /\ AreConcepts(b)
      /\ \A id \in DOMAIN b.alias : b.alias[id] \in Ids(b)
  BY DEF Whole, Fit, IsBuilder
<1>2. IsBuilder(c)
  BY <1>1, PlacesResolvedShape
<1>3. ASSUME NEW x \in ToSet(wanted)
      PROVE  x \in Ids(b) \ Made(b) /\ b.node[x].core \in {"location", "object"}
  <2>1. /\ Listing(b.edges) /\ each = [i \in 1 .. Len(b.edges) |-> each[i]]
        /\ DOMAIN b.edges = 1 .. Len(b.edges)
        /\ \A i \in 1 .. Len(b.edges) : each[i] = Wanted(b.edges[i])
    BY <1>1, EdgesThatAre DEF Mapped
  <2>2. ASSUME NEW i \in DOMAIN b.edges
        PROVE  /\ Listing(Wanted(b.edges[i]))
               /\ \A y \in ToSet(Wanted(b.edges[i])) :
                    y \in Ids(b) \ Made(b) /\ b.node[y].core \in {"location", "object"}
    <3> DEFINE e == b.edges[i]
               wants == {k \in DOMAIN e.ins :
                           /\ e.ins[k] \notin DOMAIN b.producer
                           /\ \/ e.t \in Placed /\ IsPlace(b, e.ins[k])
                              \/ e.t = "FILTER" /\ b.node[e.ins[k]].core = "location"}
    <3>1. Listing(e.ins) /\ ToSet(e.ins) \subseteq Ids(b)
      BY <1>1, ListedIsAnEdge DEF AreEdges, IsEdge, Known, Knows
    <3>2. Wanted(e) = ItemsAt(e.ins, wants)
      BY DEF Kept
    <3> HIDE DEF Wanted
    <3>3. ASSUME NEW y \in ToSet(Wanted(e))
          PROVE  y \in Ids(b) \ Made(b) /\ b.node[y].core \in {"location", "object"}
      <4>1. PICK k \in DOMAIN e.ins \cap wants : y = e.ins[k]
        <5> HIDE DEF wants, e
        <5> QED
          BY <3>1, <3>2, KeptOf
      <4>2. y \in ToSet(e.ins)
        BY <4>1 DEF ToSet
      <4> QED
        BY <1>1, <3>1, <4>1, <4>2 DEF IsPlace, PlaceTypes
    <3>4. Listing(Wanted(e))
      <4> HIDE DEF wants, e
      <4> QED
        BY <3>1, <3>2, KeptOf
    <3> QED
      BY <3>3, <3>4
  <2> HIDE DEF Wanted, each
  <2>3. Listing(FlattenSeq(each)) /\ \A y \in ToSet(FlattenSeq(each)) : \E i \in DOMAIN b.edges : y \in ToSet(each[i])
    <3>1. \A i \in 1 .. Len(b.edges) : Listing(each[i])
      BY <2>1, <2>2
    <3> QED
      BY <2>1, <3>1, AllOfEach
  <2>4. x \in ToSet(FlattenSeq(each))
    BY <2>3, DistinctList
  <2>5. PICK i \in DOMAIN b.edges : x \in ToSet(each[i])
    BY <2>3, <2>4
  <2>6. each[i] = Wanted(b.edges[i])
    BY <2>1
  <2> QED
    BY <2>2, <2>5, <2>6
<1>4. CASE wanted = <<>>
  <2>1. c = b
    BY <1>4 DEF PlacesResolved
  <2> QED
    BY <2>1
<1>5. CASE wanted # <<>>
  <2>1. c = [b EXCEPT !.edges = <<edge>> \o @, !.producer = producer]
    BY <1>5 DEF PlacesResolved
  <2>2. edge.t = "RESOLVE_PLACES" /\ edge.outs = wanted /\ edge.ins = wanted /\ edge.factors = {}
    OBVIOUS
  <2>3. DOMAIN producer = Made(b) \cup ToSet(wanted)
    BY <1>1
  <2> HIDE DEF c, edge, producer, wanted
  <2>4. /\ c.node = b.node /\ c.pool = b.pool /\ c.factors = b.factors /\ c.alias = b.alias
        /\ c.edges = <<edge>> \o b.edges /\ c.producer = producer
    BY <1>1, <2>1 DEF IsBuilder
  <2>5. InFront(b.edges, edge, c.edges)
    BY <1>1, <2>4, EdgeInFront
  <2>6. \A id \in ToSet(edge.outs) : SignedBy(id, edge.id) /\ id \notin {Route, SpatialField}
    <3> SUFFICES ASSUME NEW id \in ToSet(wanted)
                 PROVE  SignedBy(id, edge.id) /\ id \notin {Route, SpatialField}
      BY <2>2
    <3>1. id[1] \notin MadeUp
      <4>1. id \in Ids(b) /\ id \notin Made(b) /\ b.node[id].core # "field"
        BY <1>3
      <4>2. ~(id = SpatialField /\ b.node[id].core = "field")
        BY <4>1
      <4> QED
        BY <1>1, <4>1, <4>2 DEF Accounted
    <3> QED
      BY <3>1, MadeUpNames DEF SignedBy
  <2>7. ToSet(edge.outs) \cap Made(b) = {}
    BY <1>3, <2>2
  <2>8. /\ Signed(c) /\ Reserved(c) /\ Once(c) /\ Made(c) = Made(b) \cup ToSet(wanted)
        /\ Provided(b) => Provided(c)
    <3>1. edge.t = "RESOLVE_PLACES" /\ edge.outs = wanted
      BY <2>2
    <3>2. /\ Signed(c) /\ Reserved(c) /\ Once(c) /\ Made(c) = Made(b) \cup ToSet(edge.outs)
          /\ Provided(b) => Provided(c)
      BY <1>1, <2>5, <2>6, <2>7, <3>1, FitsInFront, Zenon
    <3> QED
      BY <3>1, <3>2
  <2>9. Ids(c) = Ids(b) /\ Accounted(c) /\ AreConcepts(c)
    BY <1>1, <2>4, <2>8 DEF Accounted, Ids, AreConcepts
  <2>10. Known(c)
    <3>1. ToSet(c.edges) = {edge} \cup ToSet(b.edges)
      BY <2>5 DEF InFront
    <3>2. Knows(c, edge)
      BY <1>3, <1>5, <2>2, <2>9 DEF Knows
    <3>3. \A e \in ToSet(b.edges) : Knows(c, e)
      BY <1>1, <2>4, <2>9 DEF Known, Knows
    <3> QED
      BY <3>1, <3>2, <3>3 DEF Known
  <2>11. c.edges # <<>>
    BY <2>5, EmptyList DEF InFront
  <2>12. Fit(c)
    BY <1>1, <1>2, <2>3, <2>4, <2>8, <2>9, <2>10 DEF Fit
  <2> QED
    BY <2>4, <2>8, <2>9, <2>11, <2>12 DEF Whole, c
<1> QED
  BY <1>4, <1>5

LEMMA RadiusGivenWhole ==
  ASSUME NEW b, Whole(b)
  PROVE  /\ Whole(RadiusGiven(b)) /\ (Provided(b) => Provided(RadiusGiven(b)))
         /\ RadiusGiven(b).factors = b.factors
<1> DEFINE consumed == UNION {ToSet(e.ins) : e \in ToSet(b.edges)}
           Measured(e) == IF e.t = "DISTANCE_MEASURE"
                          THEN Kept(e.outs, LAMBDA id : id \notin consumed) ELSE <<>>
           each == Mapped(Measured, b.edges)
           unread == FlattenSeq(each)
           extents == Kept(b.pool, LAMBDA id : Contextual(b, id) /\ IsPlace(b, id))
           Locates(e) == e.t = "RESOLVE_PLACES" /\ extents[1] \in ToSet(e.ins)
           located == Kept(b.edges, Locates)
           anchor == IF located # <<>> THEN located[1].outs[1]
                     ELSE IF extents[1] \in DOMAIN b.alias THEN b.alias[extents[1]] ELSE extents[1]
           given == IF unread # <<>> THEN unread ELSE <<anchor>>
           lacking == {i \in 1..Len(b.edges) :
                         b.edges[i].t = "FILTER" /\ ToSet(b.edges[i].ins) \cap ToSet(given) = {}}
           first == CHOOSE i \in lacking : \A j \in lacking : i <= j
           filled == IF unread # <<>> THEN b.edges[first].ins \o given ELSE given \o b.edges[first].ins
           c == RadiusGiven(b)
<1>1. /\ IsBuilder(b) /\ AreEdges(b.edges) /\ Known(b) /\ ToSet(b.pool) = Ids(b) /\ Listing(b.pool)
      /\ \A id \in DOMAIN b.alias : b.alias[id] \in Ids(b)
      /\ Listing(b.edges) /\ DOMAIN b.edges = 1 .. Len(b.edges) /\ Len(b.edges) \in Nat
      /\ \A e \in ToSet(b.edges) :
           /\ Listing(e.ins) /\ Listing(e.outs) /\ e.outs # <<>>
           /\ ToSet(e.ins) \subseteq Ids(b) /\ ToSet(e.outs) \subseteq Ids(b)
  <2>1. Fit(b)
    BY DEF Whole
  <2>2. IsBuilder(b) /\ AreEdges(b.edges) /\ Known(b)
    BY <2>1 DEF Fit, IsBuilder
  <2>3. \A e \in ToSet(b.edges) : IsEdge(e) /\ Knows(b, e)
    BY <2>2, EdgesThatAre DEF Known
  <2> QED
    BY <2>1, <2>2, <2>3, EdgesThatAre DEF Fit, IsBuilder, IsEdge, Knows
<1>2. Listing(unread) /\ ToSet(unread) \subseteq Ids(b)
  <2>1. each = [i \in 1 .. Len(b.edges) |-> each[i]] /\ \A i \in 1 .. Len(b.edges) : each[i] = Measured(b.edges[i])
    BY <1>1 DEF Mapped
  <2>2. ASSUME NEW i \in 1 .. Len(b.edges) PROVE Listing(each[i]) /\ ToSet(each[i]) \subseteq Ids(b)
    <3> DEFINE e == b.edges[i]
               free == {k \in DOMAIN e.outs : e.outs[k] \notin consumed}
    <3>1. Listing(e.outs) /\ ToSet(e.outs) \subseteq Ids(b)
      BY <1>1, ListedIsAnEdge
    <3>2. each[i] = IF e.t = "DISTANCE_MEASURE" THEN ItemsAt(e.outs, free) ELSE <<>>
      BY <2>1 DEF Kept
    <3> HIDE DEF each, e, free
    <3> QED
      BY <3>1, <3>2, KeptOf, EmptyList
  <2> HIDE DEF each, Measured
  <2>3. Listing(FlattenSeq(each)) /\ \A y \in ToSet(FlattenSeq(each)) : \E i \in DOMAIN b.edges : y \in ToSet(each[i])
    BY <1>1, <2>1, <2>2, AllOfEach
  <2> QED
    BY <1>1, <2>2, <2>3
<1>3. Listing(extents) /\ ToSet(extents) \subseteq Ids(b)
  <2> DEFINE positions == {k \in DOMAIN b.pool : Contextual(b, b.pool[k]) /\ IsPlace(b, b.pool[k])}
  <2>1. extents = ItemsAt(b.pool, positions)
    BY DEF Kept
  <2> HIDE DEF extents, positions
  <2> QED
    BY <1>1, <2>1, KeptOf
<1>4. Listing(located) /\ ToSet(located) \subseteq ToSet(b.edges)
  <2> DEFINE positions == {k \in DOMAIN b.edges : Locates(b.edges[k])}
  <2>1. located = ItemsAt(b.edges, positions)
    BY DEF Kept
  <2> HIDE DEF located, positions
  <2> QED
    BY <1>1, <2>1, KeptOf
<1>5. extents # <<>> => anchor \in Ids(b)
  <2> HIDE DEF extents, located
  <2>1. extents # <<>> => extents[1] \in Ids(b)
    BY <1>3, HeadOfList
  <2>2. located # <<>> => located[1].outs[1] \in Ids(b)
    <3> SUFFICES ASSUME located # <<>> PROVE located[1].outs[1] \in Ids(b)
      OBVIOUS
    <3>1. located[1] \in ToSet(b.edges)
      BY <1>4, HeadOfList
    <3>2. located[1].outs[1] \in ToSet(located[1].outs)
      BY <1>1, <3>1, HeadOfList
    <3> QED
      BY <1>1, <3>1, <3>2
  <2> QED
    BY <1>1, <2>1, <2>2
<1>6. unread # <<>> \/ extents # <<>> => Listing(given) /\ ToSet(given) \subseteq Ids(b)
  <2> HIDE DEF unread, extents, anchor
  <2> QED
    BY <1>2, <1>5, ListOfOne
<1>7. lacking # {} => first \in lacking
  <2> HIDE DEF given
  <2>1. lacking \in SUBSET Nat
    BY <1>1
  <2> HIDE DEF lacking
  <2> QED
    BY <2>1, LeastNumber
<1>8. \/ c = b
      \/ /\ lacking # {} /\ (unread # <<>> \/ extents # <<>>)
         /\ c = [b EXCEPT !.edges[first].ins = filled]
  <2> DEFINE wider == [b EXCEPT !.edges[first].ins = filled]
  <2>1. c = IF \/ FactorTypes(b.factors) \cap RadiusFactors = {}
               \/ unread = <<>> /\ extents = <<>>
               \/ lacking = {}
            THEN b ELSE wider
    BY DEF RadiusGiven
  <2>2. c = b \/ (lacking # {} /\ (unread # <<>> \/ extents # <<>>) /\ c = wider)
    <3> HIDE DEF c, unread, extents, lacking, wider
    <3> QED
      BY <2>1
  <2> QED
    BY <2>2
<1>9. IsBuilder(c)
  BY <1>1, RadiusGivenShape
<1> HIDE DEF c, given, lacking, first, unread, extents
<1>10. CASE c = b
  BY <1>10 DEF c
<1>11. CASE /\ lacking # {} /\ (unread # <<>> \/ extents # <<>>)
            /\ c = [b EXCEPT !.edges[first].ins = filled]
  <2>1. first \in DOMAIN b.edges
    BY <1>1, <1>7, <1>11 DEF lacking
  <2>2. Listing(b.edges[first].ins) /\ ToSet(b.edges[first].ins) \subseteq Ids(b)
    BY <1>1, <2>1, ListedIsAnEdge
  <2>3. ToSet(filled) \subseteq Ids(b)
    BY <1>6, <1>11, <2>2, ListsTogether
  <2> HIDE DEF filled
  <2>4. /\ c.node = b.node /\ c.pool = b.pool /\ c.factors = b.factors /\ c.producer = b.producer
        /\ c.alias = b.alias /\ c.edges = [b.edges EXCEPT ![first].ins = filled]
    BY <1>1, <1>11, <2>1 DEF IsBuilder
  <2>5. DOMAIN c.edges = DOMAIN b.edges
    BY <2>4
  <2>6. ASSUME NEW i \in DOMAIN b.edges
        PROVE  /\ c.edges[i].id = b.edges[i].id /\ c.edges[i].t = b.edges[i].t
               /\ c.edges[i].outs = b.edges[i].outs /\ c.edges[i].factors = b.edges[i].factors
               /\ ToSet(c.edges[i].ins) \subseteq Ids(b)
    <3>1. IsEdge(b.edges[i]) /\ ToSet(b.edges[i].ins) \subseteq Ids(b)
      BY <1>1, ListedIsAnEdge DEF AreEdges
    <3>2. CASE i = first
      <4>1. c.edges[i] = [b.edges[i] EXCEPT !.ins = filled]
        BY <2>1, <2>4, <3>2
      <4> QED
        BY <2>3, <3>1, <4>1 DEF IsEdge
    <3>3. CASE i # first
      <4>1. c.edges[i] = b.edges[i]
        BY <2>4, <3>3
      <4> QED
        BY <3>1, <4>1
    <3> QED
      BY <3>2, <3>3
  <2>7. SameMakers(b, c)
    BY <2>5, <2>6 DEF SameMakers
  <2>8. Whole(c) /\ (Provided(b) => Provided(c))
    BY <1>9, <2>4, <2>6, <2>7, ReadOtherwise
  <2> QED
    BY <2>4, <2>8 DEF c
<1> QED
  BY <1>8, <1>10, <1>11

LEMMA StopsReadWhole ==
  ASSUME NEW b, Whole(b)
  PROVE  /\ Whole(StopsRead(b)) /\ (Provided(b) => Provided(StopsRead(b)))
         /\ StopsRead(b).factors = b.factors
<1> DEFINE c == StopsRead(b)
           n == Len(b.edges)
<1>1. IsBuilder(b) /\ AreEdges(b.edges) /\ Known(b) /\ DOMAIN b.edges = 1 .. n
  BY EdgesThatAre DEF Whole, Fit, IsBuilder
<1>2. IsBuilder(c)
  BY <1>1, StopsReadShape
<1>3. /\ c = [b EXCEPT !.edges = c.edges]
      /\ c.edges = [i \in 1 .. n |-> c.edges[i]]
      /\ \A i \in 1 .. n : c.edges[i] = b.edges[i] \/ \E via : c.edges[i] = [b.edges[i] EXCEPT !.via = via]
  BY <1>1, Zenon DEF StopsRead, IsBuilder
<1> HIDE DEF c
<1>4. /\ c.node = b.node /\ c.pool = b.pool /\ c.factors = b.factors /\ c.producer = b.producer
      /\ c.alias = b.alias /\ DOMAIN c.edges = DOMAIN b.edges
  BY <1>1, <1>3 DEF IsBuilder
<1>5. ASSUME NEW i \in DOMAIN b.edges
      PROVE  /\ c.edges[i].id = b.edges[i].id /\ c.edges[i].t = b.edges[i].t
             /\ c.edges[i].outs = b.edges[i].outs /\ c.edges[i].factors = b.edges[i].factors
             /\ ToSet(c.edges[i].ins) \subseteq Ids(b)
  <2>1. IsEdge(b.edges[i]) /\ ToSet(b.edges[i].ins) \subseteq Ids(b)
    BY <1>1, ListedIsAnEdge DEF AreEdges, Known, Knows
  <2>2. c.edges[i] = b.edges[i] \/ \E via : c.edges[i] = [b.edges[i] EXCEPT !.via = via]
    BY <1>1, <1>3
  <2> QED
    BY <2>1, <2>2 DEF IsEdge
<1>6. SameMakers(b, c)
  BY <1>4, <1>5 DEF SameMakers
<1>7. Whole(c) /\ (Provided(b) => Provided(c))
  BY <1>2, <1>4, <1>5, <1>6, ReadOtherwise
<1> QED
  BY <1>4, <1>7 DEF c

\* Each transformation can make what it makes by default.
LEMMA DefaultsAreAccepted ==
  ASSUME NEW t, AcceptedOutputTypes(t) # {}
  PROVE  t \in Transforms /\ OutputType[t] \in AcceptedOutputTypes(t)
<1>1. CASE t \in DOMAIN PolymorphicOutputs
  BY <1>1 DEF AcceptedOutputTypes, PolymorphicOutputs, Transforms, OutputType
<1>2. CASE t \notin DOMAIN PolymorphicOutputs
  <2>1. AcceptedOutputTypes(t) = IF t \in Transforms THEN {OutputType[t]} ELSE {}
    BY <1>2 DEF AcceptedOutputTypes
  <2> QED
    BY <2>1
<1> QED
  BY <1>1, <1>2

\* A concept of a type its one maker cannot produce gets the type it produces.
LEMMA RetypedWhole ==
  ASSUME NEW b, Whole(b)
  PROVE  LET c == Retyped(b) IN
         /\ Whole(c) /\ (Provided(b) => Provided(c)) /\ (NamedApart(c) <=> NamedApart(b))
         /\ NamedApart(b) => Typed(c)
         /\ c.factors = b.factors
<1> DEFINE Wrong(id) == \E e \in ToSet(b.edges) :
             /\ id \in ToSet(e.outs)
             /\ AcceptedOutputTypes(e.t) # {}
             /\ b.node[id].core \notin AcceptedOutputTypes(e.t)
           Maker(id) == CHOOSE e \in Producers(b, id) : TRUE
           c == Retyped(b)
<1>1. IsBuilder(b) /\ Known(b) /\ AreConcepts(b) /\ Once(b)
  BY DEF Whole, Fit
<1>2. IsBuilder(c)
  BY <1>1, RolesGivenShape
<1>3. /\ c.node = [id \in DOMAIN b.node |->
                     IF Wrong(id) THEN [b.node[id] EXCEPT !.core = OutputType[Maker(id).t]] ELSE b.node[id]]
      /\ c.edges = b.edges /\ c.pool = b.pool /\ c.factors = b.factors /\ c.producer = b.producer
      /\ c.alias = b.alias
  BY <1>1 DEF Retyped, IsBuilder
<1> HIDE DEF c
<1>4. ASSUME NEW id \in Ids(b)
      PROVE  /\ IsConcept(c.node[id])
             /\ Wrong(id) => c.node[id].core = OutputType[Maker(id).t]
             /\ ~Wrong(id) => c.node[id] = b.node[id]
  <2> DEFINE x == b.node[id]
             t == OutputType[Maker(id).t]
  <2>1. IsConcept(x)
    BY <1>1 DEF AreConcepts
  <2>2. (Wrong(id) => c.node[id] = [x EXCEPT !.core = t]) /\ (~Wrong(id) => c.node[id] = x)
    BY <1>3 DEF Ids
  <2> HIDE DEF x, t, Wrong
  <2>3. IsConcept([x EXCEPT !.core = t]) /\ [x EXCEPT !.core = t].core = t
    BY <2>1, ConceptChanged
  <2>4. IsConcept(c.node[id]) /\ (Wrong(id) => c.node[id].core = t) /\ (~Wrong(id) => c.node[id] = x)
    BY <2>1, <2>2, <2>3
  <2> QED
    BY <2>4 DEF x, t
<1>5. ASSUME NEW id \in Ids(b) \ Made(b) PROVE c.node[id].core = b.node[id].core
  <2>1. ~Wrong(id)
    BY <1>1 DEF Made, Known, Knows
  <2> QED
    BY <1>4, <2>1
<1>6. DOMAIN c.node = Ids(b) /\ AreConcepts(c)
  BY <1>3, <1>4 DEF AreConcepts, Ids
<1>7. Whole(c) /\ (Provided(b) => Provided(c)) /\ (NamedApart(c) <=> NamedApart(b))
  BY <1>2, <1>3, <1>5, <1>6, ToldOtherwise
<1>8. ASSUME NamedApart(b) PROVE Typed(c)
  <2> SUFFICES ASSUME NEW e \in ToSet(b.edges), AcceptedOutputTypes(e.t) # {}, NEW id \in ToSet(e.outs)
               PROVE  c.node[id].core \in AcceptedOutputTypes(e.t)
    BY <1>3 DEF Typed
  <2>1. id \in Ids(b)
    BY <1>1 DEF Known, Knows
  <2>2. CASE Wrong(id)
    <3>1. e \in Producers(b, id)
      BY DEF Producers
    <3>2. Maker(id) \in Producers(b, id)
      BY <3>1
    <3> DEFINE d == Maker(id)
    <3>3. d \in ToSet(b.edges) /\ id \in ToSet(d.outs)
      BY <3>2 DEF Producers
    <3> HIDE DEF d
    <3>4. PICK i \in DOMAIN b.edges : b.edges[i] = e
      BY AnEdgeIsListed
    <3>5. PICK j \in DOMAIN b.edges : b.edges[j] = d
      BY <3>3, AnEdgeIsListed
    <3>6. b.edges[i].id = b.edges[j].id
      BY <1>1, <3>3, <3>4, <3>5 DEF Once
    <3>7. d = e
      BY <1>8, <3>4, <3>5, <3>6 DEF NamedApart
    <3>8. c.node[id].core = OutputType[d.t]
      BY <1>4, <2>1, <2>2 DEF d
    <3> QED
      BY <3>7, <3>8, DefaultsAreAccepted
  <2>3. CASE ~Wrong(id)
    BY <1>4, <2>1, <2>3
  <2> QED
    BY <2>2, <2>3
<1> QED
  BY <1>3, <1>7, <1>8 DEF c

LEMMA RolesPropagatedWhole ==
  ASSUME NEW b, Whole(b)
  PROVE  LET c == RolesPropagated(b) IN
         /\ Whole(c) /\ (Provided(b) => Provided(c)) /\ (NamedApart(c) <=> NamedApart(b))
         /\ Typed(b) => Typed(c)
         /\ c.factors = b.factors
<1> DEFINE c == RolesPropagated(b)
<1>1. IsBuilder(b) /\ AreConcepts(b) /\ Known(b)
  BY DEF Whole, Fit
<1>2. IsBuilder(c)
  BY <1>1, RolesGivenShape
<1> DEFINE roles == RolesRaised(b)
<1>4. c = [b EXCEPT !.node = [id \in DOMAIN b.node |-> [b.node[id] EXCEPT !.role = roles[id]]]]
  BY DEF RolesPropagated
<1> HIDE DEF c, roles
<1>5. /\ c.node = [id \in DOMAIN b.node |-> [b.node[id] EXCEPT !.role = roles[id]]]
      /\ c.edges = b.edges /\ c.pool = b.pool /\ c.factors = b.factors /\ c.producer = b.producer
      /\ c.alias = b.alias
  BY <1>1, <1>4 DEF IsBuilder
<1>6. ASSUME NEW id \in Ids(b) PROVE IsConcept(c.node[id]) /\ c.node[id].core = b.node[id].core
  <2> DEFINE x == b.node[id]
             role == roles[id]
  <2>1. IsConcept(x)
    BY <1>1 DEF AreConcepts
  <2>2. c.node[id] = [x EXCEPT !.role = role]
    BY <1>5 DEF Ids
  <2> HIDE DEF x, role
  <2>3. IsConcept([x EXCEPT !.role = role]) /\ [x EXCEPT !.role = role].core = x.core
    BY <2>1, ConceptChanged
  <2> QED
    BY <2>2, <2>3 DEF x
<1>7. DOMAIN c.node = Ids(b) /\ AreConcepts(c)
  BY <1>5, <1>6 DEF AreConcepts, Ids
<1>8. Whole(c) /\ (Provided(b) => Provided(c)) /\ (NamedApart(c) <=> NamedApart(b))
  BY <1>2, <1>5, <1>6, <1>7, ToldOtherwise
<1>9. Typed(b) => Typed(c)
  BY <1>1, <1>5, <1>6 DEF Typed, Known, Knows
<1> QED
  BY <1>5, <1>8, <1>9 DEF c

\* In the end something that is made is a measure.
LEMMA MeasureEnsuredWhole ==
  ASSUME NEW b, Whole(b)
  PROVE  LET c == MeasureEnsured(b) IN
         /\ Whole(c) /\ (Provided(b) => Provided(c)) /\ (NamedApart(c) <=> NamedApart(b))
         /\ Typed(b) => Typed(c)
         /\ MeasureEdges(c) # {}
         /\ c.factors = b.factors
<1> DEFINE consumed == UNION {ToSet(e.ins) : e \in ToSet(b.edges)}
           LeftUnread(i) == Kept(b.edges[i].outs, LAMBDA id : id \notin consumed)
           ends == {i \in 1..Len(b.edges) : LeftUnread(i) # <<>>}
           last == CHOOSE i \in ends : \A j \in ends : j <= i
           answer == IF ends # {} THEN LeftUnread(last)[1] ELSE b.edges[Len(b.edges)].outs[1]
           c == MeasureEnsured(b)
           d == WithRole(b, {answer}, "measure")
<1>1. c = IF MeasureEdges(b) # {} THEN b ELSE d
  BY DEF MeasureEnsured
<1>2. /\ Known(b) /\ Len(b.edges) \in Nat /\ DOMAIN b.edges = 1 .. Len(b.edges) /\ Len(b.edges) >= 1
      /\ \A e \in ToSet(b.edges) : Listing(e.outs) /\ e.outs # <<>> /\ ToSet(e.outs) \subseteq Ids(b)
  <2>1. Known(b) /\ AreEdges(b.edges) /\ b.edges # <<>>
    BY DEF Whole, Fit, IsBuilder
  <2>2. \A e \in ToSet(b.edges) : IsEdge(e) /\ Knows(b, e)
    BY <2>1, EdgesThatAre DEF Known
  <2> QED
    BY <2>1, <2>2, EdgesThatAre, HeadOfList DEF IsEdge, Knows
<1>3. \E e \in ToSet(b.edges) : answer \in ToSet(e.outs)
  <2>1. CASE ends # {}
    <3>1. last \in ends
      <4> DEFINE n == Len(b.edges)
                 T == {n - i : i \in ends}
      <4>1. \A i \in ends : i \in 1 .. n
        OBVIOUS
      <4>2. n \in Nat /\ ends # {}
        BY <1>2, <2>1
      <4> HIDE DEF ends, n
      <4>3. T \in SUBSET Nat /\ T # {}
        BY <4>1, <4>2
      <4>4. PICK k \in T : \A m \in T : k <= m
        <5> HIDE DEF T
        <5> QED
          BY <4>3, LeastNumber
      <4>5. PICK i \in ends : k = n - i
        BY <4>4
      <4>6. \A j \in ends : j <= i
        BY <4>1, <4>2, <4>4, <4>5
      <4> QED
        BY <4>6
    <3> DEFINE e == b.edges[last]
               free == {k \in DOMAIN e.outs : e.outs[k] \notin consumed}
    <3>2. last \in 1 .. Len(b.edges) /\ LeftUnread(last) # <<>>
      BY <3>1
    <3>3. LeftUnread(last) = ItemsAt(e.outs, free)
      BY DEF Kept
    <3>4. answer = LeftUnread(last)[1]
      BY <2>1
    <3> HIDE DEF last, LeftUnread, ends, answer, free
    <3>5. e \in ToSet(b.edges) /\ Listing(e.outs)
      BY <1>2, <3>2, ListedIsAnEdge
    <3> HIDE DEF e
    <3>6. Listing(LeftUnread(last)) /\ ToSet(LeftUnread(last)) \subseteq ToSet(e.outs)
      BY <3>3, <3>5, KeptOf
    <3>7. answer \in ToSet(e.outs)
      BY <3>2, <3>4, <3>6, HeadOfList
    <3> QED
      BY <3>5, <3>7
  <2>2. CASE ends = {}
    <3> DEFINE e == b.edges[Len(b.edges)]
    <3>1. answer = e.outs[1]
      BY <2>2
    <3>2. e \in ToSet(b.edges)
      BY <1>2, ListedIsAnEdge
    <3> HIDE DEF answer, e
    <3>3. answer \in ToSet(e.outs)
      BY <1>2, <3>1, <3>2, HeadOfList
    <3> QED
      BY <3>2, <3>3
  <2> QED
    BY <2>1, <2>2
<1> HIDE DEF answer, c
<1>4. CASE MeasureEdges(b) # {}
  BY <1>1, <1>4 DEF c
<1>5. CASE MeasureEdges(b) = {}
  <2>1. /\ Whole(d) /\ (Provided(b) => Provided(d)) /\ (NamedApart(d) <=> NamedApart(b))
        /\ (Typed(b) => Typed(d)) /\ d.edges = b.edges /\ d.factors = b.factors
        /\ \A id \in Ids(b) \cap {answer} : d.node[id].role = "measure"
    <3> HIDE DEF d
    <3> QED
      BY RoleGiven DEF d
  <2>2. c = d
    BY <1>1, <1>5
  <2> HIDE DEF d
  <2>3. PICK e \in ToSet(b.edges) : answer \in ToSet(e.outs)
    BY <1>3
  <2>4. d.node[answer].role = "measure"
    BY <1>2, <2>1, <2>3
  <2>5. e \in MeasureEdges(d)
    BY <2>1, <2>3, <2>4 DEF MeasureEdges
  <2> QED
    BY <2>1, <2>2, <2>5 DEF c
<1> QED
  BY <1>4, <1>5

\* The first of some transformations.
LEMMA FirstIs ==
  ASSUME NEW g, AreEdges(g.edges), NEW ts, Uses(g, ts)
  PROVE  /\ FirstOf(g, ts) \in DOMAIN g.edges /\ g.edges[FirstOf(g, ts)].t \in ts
         /\ \A j \in 1 .. FirstOf(g, ts) - 1 : g.edges[j].t \notin ts
<1> DEFINE T == {i \in 1 .. Len(g.edges) : g.edges[i].t \in ts}
<1>1. Len(g.edges) \in Nat /\ DOMAIN g.edges = 1 .. Len(g.edges)
  BY EdgesThatAre
<1>2. PICK e \in ToSet(g.edges) : e.t \in ts
  BY DEF Uses
<1>3. PICK k \in DOMAIN g.edges : g.edges[k] = e
  BY AnEdgeIsListed
<1>4. T \in SUBSET Nat /\ T # {}
  BY <1>1, <1>2, <1>3
<1>5. PICK i \in T : \A j \in T : i <= j
  <2> HIDE DEF T
  <2> QED
    BY <1>4, LeastNumber
<1>6. i \in 1 .. Len(g.edges) /\ g.edges[i].t \in ts /\ \A j \in 1 .. (i - 1) : g.edges[j].t \notin ts
  BY <1>1, <1>5
<1> DEFINE First(j) == j \in 1 .. Len(g.edges) /\ g.edges[j].t \in ts
                       /\ \A m \in 1 .. (j - 1) : g.edges[m].t \notin ts
<1>7. FirstOf(g, ts) = CHOOSE j \in 1 .. Len(g.edges) :
                         g.edges[j].t \in ts /\ \A m \in 1 .. (j - 1) : g.edges[m].t \notin ts
  BY Zenon DEF FirstOf
<1>8. First(FirstOf(g, ts))
  BY <1>6, <1>7
<1> QED
  BY <1>1, <1>8

\* The transformation at one place makes one concept more.
Gains(g, c, name, first) ==
  /\ DOMAIN c.edges = DOMAIN g.edges
  /\ \A i \in DOMAIN g.edges :
       /\ c.edges[i].id = g.edges[i].id /\ c.edges[i].t = g.edges[i].t
       /\ ToSet(g.edges[i].outs) \subseteq ToSet(c.edges[i].outs)
       /\ ToSet(c.edges[i].outs) \subseteq ToSet(g.edges[i].outs) \cup {name}
       /\ i # first => ToSet(c.edges[i].outs) = ToSet(g.edges[i].outs)
  /\ name \in ToSet(c.edges[first].outs)

\* What a graph is that a completion leaves, and may start from.
Primed(g) ==
  /\ IsGraph(g) /\ Ready(g) /\ g.edges # <<>>
  /\ \A e \in ToSet(g.edges) : e.t # "MATCH_OPTIONS" /\ e.factors \subseteq g.factors

ImpliedNames == {<<Route, Routing>>, <<SpatialField, Distances>>}
ImpliedBy(g, name, ts, first) ==
  /\ <<name, ts>> \in ImpliedNames /\ first \in DOMAIN g.edges
  /\ g.edges[first].t \in ts /\ \A j \in 1 .. first - 1 : g.edges[j].t \notin ts

LEMMA GainsKeep ==
  ASSUME NEW g, Primed(g), NEW name, NEW ts, NEW first, ImpliedBy(g, name, ts, first),
         NEW c, Gains(g, c, name, first)
  PROVE  /\ Signed(c) /\ Reserved(c) /\ Made(c) = Made(g) \cup {name}
         /\ \A e \in ToSet(c.edges) : e.t # "MATCH_OPTIONS"
         /\ \A us : Uses(c, us) <=> Uses(g, us)
         /\ Once(g) => Once(c)
         /\ name \in Made(g) => \A i \in DOMAIN g.edges : ToSet(c.edges[i].outs) = ToSet(g.edges[i].outs)
<1>1. /\ DOMAIN c.edges = DOMAIN g.edges /\ DOMAIN g.edges = 1 .. Len(g.edges) /\ Len(g.edges) \in Nat
      /\ \A i \in DOMAIN g.edges : c.edges[i].id = g.edges[i].id /\ c.edges[i].t = g.edges[i].t
      /\ \A e \in ToSet(g.edges) : e.t # "MATCH_OPTIONS"
      /\ Signed(g) /\ Reserved(g)
  BY EdgesThatAre DEF Gains, Primed, Ready
<1>2. ASSUME NEW x, NEW i \in DOMAIN g.edges
      PROVE  /\ x \in ToSet(g.edges[i].outs) => x \in ToSet(c.edges[i].outs)
             /\ x \in ToSet(c.edges[i].outs) => x \in ToSet(g.edges[i].outs) \/ (x = name /\ i = first)
  BY DEF Gains
<1>3. /\ first \in DOMAIN g.edges /\ name \in ToSet(c.edges[first].outs) /\ g.edges[first].t \in ts
      /\ name \in {Route, SpatialField}
      /\ \A j \in 1 .. first - 1 : g.edges[j].t \notin ts
      /\ FirstMakes(g, name, ts)
  BY <1>1 DEF Gains, ImpliedBy, ImpliedNames, Reserved
<1>4. ASSUME NEW e \in ToSet(c.edges)
      PROVE  \E i \in DOMAIN g.edges : e = c.edges[i] /\ g.edges[i] \in ToSet(g.edges)
                /\ e.id = g.edges[i].id /\ e.t = g.edges[i].t
  <2>1. PICK i \in DOMAIN c.edges : c.edges[i] = e
    BY AnEdgeIsListed
  <2> QED
    BY <1>1, <2>1, ListedIsAnEdge
<1>5. ASSUME NEW e \in ToSet(g.edges)
      PROVE  \E i \in DOMAIN g.edges : e = g.edges[i] /\ c.edges[i] \in ToSet(c.edges)
                /\ e.id = c.edges[i].id /\ e.t = c.edges[i].t
  <2>1. PICK i \in DOMAIN g.edges : g.edges[i] = e
    BY AnEdgeIsListed
  <2> QED
    BY <1>1, <2>1, ListedIsAnEdge
<1>6. \A e \in ToSet(c.edges) : e.t # "MATCH_OPTIONS"
  BY <1>1, <1>4
<1>7. Signed(c)
  <2> SUFFICES ASSUME NEW e \in ToSet(c.edges), NEW id \in ToSet(e.outs) PROVE SignedBy(id, e.id)
    BY DEF Signed
  <2>1. PICK i \in DOMAIN g.edges : e = c.edges[i] /\ g.edges[i] \in ToSet(g.edges) /\ e.id = g.edges[i].id
    BY <1>4
  <2>2. CASE id = name
    BY <1>3, <2>2, MadeUpNames DEF SignedBy
  <2>3. CASE id # name
    BY <1>1, <1>2, <2>1, <2>3 DEF Signed
  <2> QED
    BY <2>2, <2>3
<1>8. Made(c) = Made(g) \cup {name}
  <2>1. ASSUME NEW x \in Made(c) PROVE x \in Made(g) \cup {name}
    <3>1. PICK e \in ToSet(c.edges) : x \in ToSet(e.outs)
      BY DEF Made
    <3>2. PICK i \in DOMAIN g.edges : e = c.edges[i] /\ g.edges[i] \in ToSet(g.edges)
      BY <1>4
    <3> QED
      BY <1>1, <1>2, <3>1, <3>2 DEF Made
  <2>2. ASSUME NEW x \in Made(g) PROVE x \in Made(c)
    <3>1. PICK e \in ToSet(g.edges) : x \in ToSet(e.outs)
      BY DEF Made
    <3>2. PICK i \in DOMAIN g.edges : e = g.edges[i] /\ c.edges[i] \in ToSet(c.edges)
      BY <1>5
    <3> QED
      BY <1>2, <1>6, <3>1, <3>2 DEF Made
  <2>3. name \in Made(c)
    <3>1. c.edges[first] \in ToSet(c.edges)
      BY <1>1, <1>3, ListedIsAnEdge
    <3> QED
      BY <1>3, <1>6, <3>1 DEF Made
  <2> QED
    BY <2>1, <2>2, <2>3
<1>9. \A us : Uses(c, us) <=> Uses(g, us)
  <2>1. ASSUME NEW us, Uses(c, us) PROVE Uses(g, us)
    BY <1>4, <2>1 DEF Uses
  <2>2. ASSUME NEW us, Uses(g, us) PROVE Uses(c, us)
    BY <1>5, <2>2 DEF Uses
  <2> QED
    BY <2>1, <2>2
<1>10. ASSUME NEW i \in DOMAIN g.edges, name \in ToSet(g.edges[i].outs) PROVE i = first
  <2>1. g.edges[i].t \in ts /\ \A j \in 1 .. i - 1 : g.edges[j].t \notin ts
    BY <1>3, <1>10 DEF FirstMakes
  <2>2. ~(i < first) /\ ~(first < i)
    BY <1>1, <1>3, <2>1
  <2> QED
    BY <1>1, <1>3, <2>2
<1>11. FirstMakes(c, name, ts)
  <2> SUFFICES ASSUME NEW i \in DOMAIN c.edges, name \in ToSet(c.edges[i].outs)
               PROVE  c.edges[i].t \in ts /\ \A j \in 1 .. i - 1 : c.edges[j].t \notin ts
    BY DEF FirstMakes
  <2>1. i = first
    BY <1>1, <1>2, <1>10
  <2>2. \A j \in 1 .. first - 1 : j \in DOMAIN g.edges
    BY <1>1, <1>3
  <2> QED
    BY <1>1, <1>3, <2>1, <2>2
<1>12. ASSUME NEW other, other # name, NEW us, FirstMakes(g, other, us) PROVE FirstMakes(c, other, us)
  <2> SUFFICES ASSUME NEW i \in DOMAIN c.edges, other \in ToSet(c.edges[i].outs)
               PROVE  c.edges[i].t \in us /\ \A j \in 1 .. i - 1 : c.edges[j].t \notin us
    BY DEF FirstMakes
  <2>1. g.edges[i].t \in us /\ \A j \in 1 .. i - 1 : g.edges[j].t \notin us
    BY <1>1, <1>2, <1>12 DEF FirstMakes
  <2>2. \A j \in 1 .. i - 1 : j \in DOMAIN g.edges
    BY <1>1
  <2> QED
    BY <1>1, <2>1, <2>2
<1>13. Reserved(c)
  BY <1>1, <1>11, <1>12, MadeUpNames DEF Reserved, ImpliedBy, ImpliedNames
<1>14. Once(g) => Once(c)
  <2> SUFFICES ASSUME Once(g), NEW i \in DOMAIN c.edges, NEW j \in DOMAIN c.edges,
                      NEW x \in ToSet(c.edges[i].outs), x \in ToSet(c.edges[j].outs)
               PROVE  c.edges[i].id = c.edges[j].id
    BY DEF Once
  <2>1. CASE x = name
    <3>1. i = first /\ j = first
      BY <1>1, <1>2, <1>10, <2>1
    <3> QED
      BY <3>1
  <2>2. CASE x # name
    <3>0. i \in DOMAIN g.edges /\ j \in DOMAIN g.edges
      BY <1>1
    <3>1. x \in ToSet(g.edges[i].outs) /\ x \in ToSet(g.edges[j].outs)
      <4>1. x \in ToSet(g.edges[i].outs)
        BY <3>0, <1>2, <2>2
      <4>2. x \in ToSet(g.edges[j].outs)
        BY <3>0, <1>2, <2>2
      <4> QED
        BY <4>1, <4>2
    <3>2. g.edges[i].id = g.edges[j].id
      BY <1>1, <3>1 DEF Once
    <3> QED
      BY <1>1, <3>2
  <2> QED
    BY <2>1, <2>2
<1>15. ASSUME name \in Made(g), NEW i \in DOMAIN g.edges PROVE ToSet(c.edges[i].outs) = ToSet(g.edges[i].outs)
  <2>1. PICK e \in ToSet(g.edges) : name \in ToSet(e.outs)
    BY <1>15 DEF Made
  <2>2. PICK k \in DOMAIN g.edges : g.edges[k] = e
    BY AnEdgeIsListed
  <2>3. k = first
    BY <1>10, <2>1, <2>2
  <2> QED
    BY <1>2, <2>1, <2>2, <2>3
<1> QED
  BY <1>6, <1>7, <1>8, <1>9, <1>13, <1>14, <1>15

\* What a graph is that nothing refuses but for its structure.
Done(g) == Known(g) /\ Once(g) /\ Typed(g) /\ MeasureEdges(g) # {}

\* A graph with the concepts of another, and perhaps more of the ones that are implied.
Widened(g, c) ==
  /\ Ids(g) \subseteq Ids(c) /\ \A id \in Ids(g) : c.node[id] = g.node[id]
  /\ c.factors = g.factors /\ ToSet(c.pool) = Ids(c) /\ AreConcepts(c)
  /\ \A id \in Ids(c) \ Ids(g) : id \in {Network, Route} \/ (id = SpatialField /\ c.node[id].core = "field")

LEMMA AddedIs ==
  ASSUME NEW g, IsGraph(g), ToSet(g.pool) = Ids(g), AreConcepts(g), NEW id, NEW concept, IsConcept(concept),
         NEW c, c = Added(g, id, concept)
  PROVE  /\ Ids(c) = Ids(g) \cup {id} /\ ToSet(c.pool) = Ids(c) /\ AreConcepts(c)
         /\ c.factors = g.factors /\ c.edges = g.edges
         /\ \A i \in Ids(g) : c.node[i] = g.node[i]
         /\ id \notin Ids(g) => c.node[id] = concept
<1>1. CASE id \in Ids(g)
  <2>1. c = g
    BY <1>1 DEF Added
  <2> QED
    BY <1>1, <2>1
<1>2. CASE id \notin Ids(g)
  <2> DEFINE node == [i \in Ids(g) \cup {id} |-> IF i = id THEN concept ELSE g.node[i]]
  <2>1. c = [g EXCEPT !.node = node, !.pool = Append(g.pool, id)]
    BY <1>2 DEF Added
  <2>2. /\ DOMAIN node = Ids(g) \cup {id} /\ node[id] = concept
        /\ \A i \in Ids(g) : node[i] = g.node[i]
    BY <1>2
  <2> HIDE DEF node
  <2>3. c.node = node /\ c.pool = Append(g.pool, id) /\ c.factors = g.factors /\ c.edges = g.edges
    BY <2>1 DEF IsGraph
  <2>4. ToSet(c.pool) = ToSet(g.pool) \cup {id}
    BY <2>3, ListWithOneMore DEF IsGraph
  <2>5. Ids(c) = Ids(g) \cup {id}
    BY <2>2, <2>3 DEF Ids
  <2>6. AreConcepts(c)
    <3> SUFFICES ASSUME NEW i \in Ids(c) PROVE IsConcept(c.node[i])
      BY DEF AreConcepts
    <3> QED
      BY <2>2, <2>3, <2>5 DEF AreConcepts
  <2> QED
    BY <1>2, <2>2, <2>3, <2>4, <2>5, <2>6
<1> QED
  BY <1>1, <1>2

LEMMA WidenedIs ==
  ASSUME NEW g, IsGraph(g), ToSet(g.pool) = Ids(g), AreConcepts(g), NEW id, NEW concept, IsConcept(concept),
         id \in {Network, Route} \/ (id = SpatialField /\ concept.core = "field"),
         NEW c, c = Added(g, id, concept)
  PROVE  Widened(g, c) /\ IsGraph(c) /\ id \in Ids(c) /\ c.edges = g.edges
<1>1. /\ Ids(c) = Ids(g) \cup {id} /\ ToSet(c.pool) = Ids(c) /\ AreConcepts(c)
      /\ c.factors = g.factors /\ c.edges = g.edges
      /\ \A i \in Ids(g) : c.node[i] = g.node[i]
      /\ id \notin Ids(g) => c.node[id] = concept
  BY AddedIs
<1>2. \A i \in Ids(c) \ Ids(g) : i \in {Network, Route} \/ (i = SpatialField /\ c.node[i].core = "field")
  BY <1>1
<1>3. Widened(g, c)
  BY <1>1, <1>2 DEF Widened
<1>4. IsGraph(c)
  BY GraphAdded
<1> QED
  BY <1>1, <1>3, <1>4

LEMMA WidenedTwice ==
  ASSUME NEW g, NEW c, NEW d, Widened(g, c), Widened(c, d)
  PROVE  Widened(g, d)
BY DEF Widened

\* Only the edges change from here on.
LEMMA WidenedEdges ==
  ASSUME NEW g, NEW c, Widened(g, c), NEW d, d.node = c.node, d.pool = c.pool, d.factors = c.factors
  PROVE  Widened(g, d)
BY DEF Widened, AreConcepts, Ids

\* What an implied concept leaves of a graph.
LEMMA GainsPrimed ==
  ASSUME NEW g, Primed(g), NEW name, NEW ts, NEW first, ImpliedBy(g, name, ts, first),
         NEW c, IsGraph(c), Widened(g, c), name \in Ids(c), Gains(g, c, name, first),
         \A id \in Ids(c) \ Ids(g) : id \in {Network, name} \/ (id = SpatialField /\ c.node[id].core = "field"),
         \A i \in DOMAIN g.edges :
           /\ c.edges[i].factors = g.edges[i].factors
           /\ ToSet(c.edges[i].ins) \subseteq ToSet(g.edges[i].ins) \cup Ids(c)
  PROVE  /\ Primed(c) /\ Made(c) = Made(g) \cup {name}
         /\ \A us : Uses(c, us) <=> Uses(g, us)
         /\ NamedApart(c) <=> NamedApart(g)
         /\ name \in Made(g) /\ Done(g) => Done(c)
<1>1. /\ Signed(c) /\ Reserved(c) /\ Made(c) = Made(g) \cup {name}
      /\ \A e \in ToSet(c.edges) : e.t # "MATCH_OPTIONS"
      /\ \A us : Uses(c, us) <=> Uses(g, us)
      /\ Once(g) => Once(c)
      /\ name \in Made(g) => \A i \in DOMAIN g.edges : ToSet(c.edges[i].outs) = ToSet(g.edges[i].outs)
  BY GainsKeep
<1>2. /\ IsGraph(g) /\ Ready(g) /\ g.edges # <<>> /\ AreEdges(g.edges) /\ AreEdges(c.edges)
      /\ DOMAIN g.edges = 1 .. Len(g.edges) /\ Len(g.edges) \in Nat
      /\ DOMAIN c.edges = 1 .. Len(c.edges) /\ Len(c.edges) \in Nat
      /\ first \in DOMAIN g.edges
  BY EdgesThatAre DEF Primed, IsGraph, ImpliedBy
<1>3. /\ DOMAIN c.edges = DOMAIN g.edges
      /\ \A i \in DOMAIN g.edges :
       /\ c.edges[i].id = g.edges[i].id /\ c.edges[i].t = g.edges[i].t
       /\ ToSet(g.edges[i].outs) \subseteq ToSet(c.edges[i].outs)
  BY DEF Gains
<1>4. c.edges # <<>>
  BY <1>2, <1>3
<1>5. Accounted(c)
  <2> SUFFICES ASSUME NEW id \in Ids(c), id[1] \in MadeUp
               PROVE  id \in Made(c) \/ (id = SpatialField /\ c.node[id].core = "field")
    BY DEF Accounted
  <2>1. CASE id \in Ids(g)
    <3>1. c.node[id] = g.node[id] /\ (id \in Made(g) \/ (id = SpatialField /\ g.node[id].core = "field"))
      BY <1>2, <2>1 DEF Ready, Accounted, Widened
    <3> QED
      BY <1>1, <3>1
  <2>2. CASE id \notin Ids(g)
    <3>1. Network[1] \notin MadeUp
      BY DEF Network, MadeUp
    <3> QED
      BY <1>1, <2>2, <3>1
  <2> QED
    BY <2>1, <2>2
<1>6. Primed(c)
  <2>1. Listing(c.pool) /\ ToSet(c.pool) = Ids(c) /\ AreConcepts(c)
    BY DEF IsGraph, Widened
  <2>2. Ready(c)
    BY <1>1, <1>2, <1>5, <2>1 DEF Ready
  <2>3. ASSUME NEW e \in ToSet(c.edges) PROVE e.factors \subseteq c.factors
    <3>1. PICK i \in DOMAIN c.edges : c.edges[i] = e
      BY AnEdgeIsListed
    <3>2. i \in DOMAIN g.edges /\ e.factors = g.edges[i].factors
      BY <1>3, <3>1
    <3>3. g.edges[i] \in ToSet(g.edges)
      BY <3>2, ListedIsAnEdge
    <3>4. g.edges[i].factors \subseteq g.factors /\ c.factors = g.factors
      BY <3>3 DEF Primed, Widened
    <3> QED
      BY <3>2, <3>4
  <2> QED
    BY <1>1, <1>4, <2>2, <2>3 DEF Primed
<1>7. NamedApart(c) <=> NamedApart(g)
  BY <1>3 DEF NamedApart
<1>8. ASSUME name \in Made(g), Done(g) PROVE Done(c)
  <2>1. Known(g) /\ Once(g) /\ Typed(g) /\ MeasureEdges(g) # {}
    BY <1>8 DEF Done
  <2>2. \A i \in DOMAIN g.edges : ToSet(c.edges[i].outs) = ToSet(g.edges[i].outs)
    BY <1>1, <1>8
  <2>3. ASSUME NEW i \in DOMAIN g.edges
        PROVE  /\ Knows(c, c.edges[i])
               /\ AcceptedOutputTypes(c.edges[i].t) # {} =>
                    \A id \in ToSet(c.edges[i].outs) : c.node[id].core \in AcceptedOutputTypes(c.edges[i].t)
    <3> DEFINE e == g.edges[i]
               d == c.edges[i]
    <3>1. e \in ToSet(g.edges) /\ d \in ToSet(c.edges)
      BY <1>3, ListedIsAnEdge
    <3>2. Knows(g, e)
      BY <2>1, <3>1 DEF Known
    <3>3. /\ d.t = e.t /\ d.factors = e.factors /\ ToSet(d.outs) = ToSet(e.outs)
          /\ ToSet(d.ins) \subseteq ToSet(e.ins) \cup Ids(c)
      BY <1>3, <2>2
    <3>4. Listing(d.outs) /\ Listing(e.outs)
      BY <1>2, <1>3 DEF AreEdges, IsEdge
    <3>5. AcceptedOutputTypes(e.t) # {} => \A id \in ToSet(e.outs) : g.node[id].core \in AcceptedOutputTypes(e.t)
      BY <2>1, <3>1 DEF Typed
    <3> HIDE DEF d, e
    <3>6. d.outs # <<>>
      BY <3>2, <3>3, <3>4, HeadOfList DEF Knows
    <3>7. Knows(c, d)
      BY <3>2, <3>3, <3>6 DEF Knows, Widened
    <3>8. AcceptedOutputTypes(d.t) # {} => \A id \in ToSet(d.outs) : c.node[id].core \in AcceptedOutputTypes(d.t)
      <4> SUFFICES ASSUME AcceptedOutputTypes(d.t) # {}, NEW id \in ToSet(d.outs)
                   PROVE  c.node[id].core \in AcceptedOutputTypes(d.t)
        OBVIOUS
      <4>1. id \in Ids(g) /\ g.node[id].core \in AcceptedOutputTypes(d.t)
        BY <3>2, <3>3, <3>5 DEF Knows
      <4> QED
        BY <4>1 DEF Widened
    <3> QED
      BY <3>7, <3>8 DEF d
  <2>4. ASSUME NEW e \in ToSet(c.edges) PROVE \E i \in DOMAIN g.edges : e = c.edges[i]
    BY <1>3, AnEdgeIsListed
  <2>5. Known(c)
    BY <2>3, <2>4 DEF Known
  <2>6. Typed(c)
    BY <2>3, <2>4 DEF Typed
  <2>7. MeasureEdges(c) # {}
    <3>1. PICK e \in ToSet(g.edges) : \E id \in ToSet(e.outs) : g.node[id].role = "measure"
      BY <2>1 DEF MeasureEdges
    <3>5. PICK id \in ToSet(e.outs) : g.node[id].role = "measure"
      BY <3>1
    <3>2. PICK i \in DOMAIN g.edges : g.edges[i] = e
      BY AnEdgeIsListed
    <3>3. c.edges[i] \in ToSet(c.edges) /\ id \in ToSet(c.edges[i].outs)
      BY <1>3, <2>2, <3>2, <3>5, ListedIsAnEdge
    <3>4. c.node[id].role = "measure"
      BY <2>1, <3>5 DEF Known, Knows, Widened
    <3> QED
      BY <3>3, <3>4 DEF MeasureEdges
  <2> QED
    BY <1>1, <2>1, <2>5, <2>6, <2>7 DEF Done
<1> QED
  BY <1>1, <1>6, <1>7, <1>8

\* A transformation that reads or makes one concept more.
Adds(e, d, ins, outs) ==
  /\ d.id = e.id /\ d.t = e.t /\ d.factors = e.factors
  /\ ToSet(d.ins) = ToSet(e.ins) \cup ins /\ ToSet(d.outs) = ToSet(e.outs) \cup outs

LEMMA AddsOne ==
  ASSUME NEW e, IsEdge(e), NEW x, NEW y
  PROVE  /\ Adds(e, [e EXCEPT !.ins = Distinct(Append(@, x)), !.outs = Distinct(Append(@, y))], {x}, {y})
         /\ Adds(e, [e EXCEPT !.ins = Distinct(Append(@, x))], {x}, {})
         /\ Adds(e, [e EXCEPT !.outs = Distinct(Append(@, y))], {}, {y})
         /\ Adds(e, e, {}, {})
<1> DEFINE ins == Distinct(Append(e.ins, x))
           outs == Distinct(Append(e.outs, y))
<1>1. ToSet(ins) = ToSet(e.ins) \cup {x} /\ ToSet(outs) = ToSet(e.outs) \cup {y}
  BY ListWithOneMore, DistinctList DEF IsEdge
<1>2. /\ [e EXCEPT !.ins = Distinct(Append(@, x)), !.outs = Distinct(Append(@, y))]
           = [e EXCEPT !.ins = ins, !.outs = outs]
      /\ [e EXCEPT !.ins = Distinct(Append(@, x))] = [e EXCEPT !.ins = ins]
      /\ [e EXCEPT !.outs = Distinct(Append(@, y))] = [e EXCEPT !.outs = outs]
  OBVIOUS
<1> HIDE DEF ins, outs
<1>3. /\ [e EXCEPT !.ins = ins, !.outs = outs]
           = [id |-> e.id, t |-> e.t, ins |-> ins, outs |-> outs,
              factors |-> e.factors, via |-> e.via, role |-> e.role]
      /\ [e EXCEPT !.ins = ins]
           = [id |-> e.id, t |-> e.t, ins |-> ins, outs |-> e.outs,
              factors |-> e.factors, via |-> e.via, role |-> e.role]
      /\ [e EXCEPT !.outs = outs]
           = [id |-> e.id, t |-> e.t, ins |-> e.ins, outs |-> outs,
              factors |-> e.factors, via |-> e.via, role |-> e.role]
  <2>1. e = [id |-> e.id, t |-> e.t, ins |-> e.ins, outs |-> e.outs,
             factors |-> e.factors, via |-> e.via, role |-> e.role]
    BY DEF IsEdge
  <2>2. [e EXCEPT !.ins = ins, !.outs = outs]
          = [id |-> e.id, t |-> e.t, ins |-> ins, outs |-> outs,
             factors |-> e.factors, via |-> e.via, role |-> e.role]
    <3> DEFINE d == [e EXCEPT !.ins = ins]
    <3>1. d = [id |-> e.id, t |-> e.t, ins |-> ins, outs |-> e.outs,
               factors |-> e.factors, via |-> e.via, role |-> e.role]
      BY <2>1
    <3>2. [e EXCEPT !.ins = ins, !.outs = outs] = [d EXCEPT !.outs = outs]
      OBVIOUS
    <3> HIDE DEF d
    <3>3. [d EXCEPT !.outs = outs]
            = [id |-> e.id, t |-> e.t, ins |-> ins, outs |-> outs,
               factors |-> e.factors, via |-> e.via, role |-> e.role]
      BY <3>1
    <3> QED
      BY <3>2, <3>3
  <2>3. [e EXCEPT !.ins = ins]
          = [id |-> e.id, t |-> e.t, ins |-> ins, outs |-> e.outs,
             factors |-> e.factors, via |-> e.via, role |-> e.role]
    BY <2>1
  <2>4. [e EXCEPT !.outs = outs]
          = [id |-> e.id, t |-> e.t, ins |-> e.ins, outs |-> outs,
             factors |-> e.factors, via |-> e.via, role |-> e.role]
    BY <2>1
  <2> QED
    BY <2>2, <2>3, <2>4
<1>4. /\ Adds(e, [e EXCEPT !.ins = ins, !.outs = outs], {x}, {y})
      /\ Adds(e, [e EXCEPT !.ins = ins], {x}, {})
      /\ Adds(e, [e EXCEPT !.outs = outs], {}, {y})
      /\ Adds(e, e, {}, {})
  BY <1>1, <1>3 DEF Adds
<1> QED
  BY <1>2, <1>4

\* What completing one implied concept keeps and leaves.
Completes(g, c, name, ts) ==
  /\ Primed(c) /\ Made(g) \subseteq Made(c)
  /\ \A us : Uses(c, us) <=> Uses(g, us)
  /\ NamedApart(c) <=> NamedApart(g)
  /\ c.factors = g.factors
  /\ Uses(g, ts) => name \in Made(c)
  /\ (Uses(g, ts) => name \in Made(g)) /\ Done(g) => Done(c)

LEMMA CompletesAsIs ==
  ASSUME NEW g, Primed(g), NEW name, NEW ts, ~Uses(g, ts)
  PROVE  Completes(g, g, name, ts)
BY DEF Completes

LEMMA WidenedCompletes ==
  ASSUME NEW g, Primed(g), NEW name, NEW ts, ~Uses(g, ts), NEW c, IsGraph(c), Widened(g, c), c.edges = g.edges,
         \A id \in Ids(c) \ Ids(g) : id = SpatialField /\ c.node[id].core = "field"
  PROVE  Completes(g, c, name, ts)
<1>1. Made(c) = Made(g) /\ (\A us : Uses(c, us) <=> Uses(g, us)) /\ (NamedApart(c) <=> NamedApart(g))
  BY DEF Made, Uses, NamedApart
<1>2. Primed(c)
  <2>1. Signed(c) /\ Reserved(c)
    BY DEF Primed, Ready, Signed, Reserved, FirstMakes
  <2>2. Accounted(c)
    BY <1>1 DEF Accounted, Primed, Ready, Widened
  <2> QED
    BY <2>1, <2>2 DEF Primed, Ready, IsGraph, Widened
<1>3. ASSUME Done(g) PROVE Done(c)
  <2>1. Known(c)
    BY <1>3 DEF Done, Known, Knows, Widened
  <2>2. Once(c)
    BY <1>3 DEF Done, Once
  <2>3. Typed(c)
    BY <1>3 DEF Done, Typed, Known, Knows, Widened
  <2>4. MeasureEdges(c) # {}
    BY <1>3 DEF Done, MeasureEdges, Known, Knows, Widened
  <2> QED
    BY <2>1, <2>2, <2>3, <2>4 DEF Done
<1>4. c.factors = g.factors
  BY DEF Widened
<1> QED
  BY <1>1, <1>2, <1>3, <1>4 DEF Completes

LEMMA GainsCompletes ==
  ASSUME NEW g, Primed(g), NEW name, NEW ts, NEW first, ImpliedBy(g, name, ts, first),
         NEW c, IsGraph(c), Widened(g, c), name \in Ids(c),
         \A id \in Ids(c) \ Ids(g) : id \in {Network, name} \/ (id = SpatialField /\ c.node[id].core = "field"),
         DOMAIN c.edges = DOMAIN g.edges,
         \A i \in DOMAIN g.edges :
           \E ins \in SUBSET Ids(c) :
             Adds(g.edges[i], c.edges[i], ins, IF i = first THEN {name} ELSE {})
  PROVE  Completes(g, c, name, ts)
<1>1. first \in DOMAIN g.edges
  BY DEF ImpliedBy
<1>2. ASSUME NEW i \in DOMAIN g.edges
      PROVE  /\ c.edges[i].id = g.edges[i].id /\ c.edges[i].t = g.edges[i].t
             /\ c.edges[i].factors = g.edges[i].factors
             /\ ToSet(c.edges[i].ins) \subseteq ToSet(g.edges[i].ins) \cup Ids(c)
             /\ ToSet(c.edges[i].outs) = ToSet(g.edges[i].outs) \cup (IF i = first THEN {name} ELSE {})
  <2>1. PICK ins \in SUBSET Ids(c) : Adds(g.edges[i], c.edges[i], ins, IF i = first THEN {name} ELSE {})
    OBVIOUS
  <2> QED
    BY <2>1 DEF Adds
<1>3. Gains(g, c, name, first)
  BY <1>1, <1>2 DEF Gains
<1>4. /\ Primed(c) /\ Made(c) = Made(g) \cup {name}
      /\ \A us : Uses(c, us) <=> Uses(g, us)
      /\ NamedApart(c) <=> NamedApart(g)
      /\ name \in Made(g) /\ Done(g) => Done(c)
  <2>1. \A i \in DOMAIN g.edges :
          /\ c.edges[i].factors = g.edges[i].factors
          /\ ToSet(c.edges[i].ins) \subseteq ToSet(g.edges[i].ins) \cup Ids(c)
    BY <1>2
  <2> QED
    BY <1>3, <2>1, GainsPrimed
<1>5. Uses(g, ts)
  <2>1. g.edges[first] \in ToSet(g.edges) /\ g.edges[first].t \in ts
    BY <1>1, ListedIsAnEdge DEF ImpliedBy
  <2> QED
    BY <2>1 DEF Uses
<1>6. c.factors = g.factors
  BY DEF Widened
<1> QED
  BY <1>4, <1>5, <1>6 DEF Completes

LEMMA NetworkCompletes ==
  ASSUME NEW g, Primed(g), NEW c, c = WithNetwork(g)
  PROVE  Completes(g, c, Route, Routing)
<1> DEFINE n == Len(g.edges)
           first == FirstOf(g, Routing)
           both(e) == [e EXCEPT !.ins = Distinct(Append(@, Network)), !.outs = Distinct(Append(@, Route))]
           read(e) == [e EXCEPT !.ins = Distinct(Append(@, Route))]
           Reads(i) == i > first /\ g.edges[i].t \in ReadsRoutes /\ "field" \in AcceptedInputTypes[g.edges[i].t]
           Told(i) == CASE i = first -> both(g.edges[i]) [] Reads(i) -> read(g.edges[i]) [] OTHER -> g.edges[i]
           named == Added(g, Network, ImplicitNode("network"))
           nodes == Added(named, Route, ImplicitNode("field"))
           edges == [i \in 1 .. n |-> Told(i)]
<1>1. CASE ~Uses(g, Routing)
  <2>1. c = g
    BY <1>1 DEF WithNetwork
  <2> QED
    BY <1>1, <2>1, CompletesAsIs
<1>2. CASE Uses(g, Routing)
  <2>1. c = [nodes EXCEPT !.edges = edges]
    BY <1>2 DEF WithNetwork
  <2>2. IsGraph(g) /\ AreEdges(g.edges) /\ DOMAIN g.edges = 1 .. n /\ n \in Nat /\ ToSet(g.pool) = Ids(g)
        /\ AreConcepts(g)
    BY EdgesThatAre DEF Primed, IsGraph, Ready
  <2>3. /\ first \in DOMAIN g.edges /\ g.edges[first].t \in Routing
        /\ \A j \in 1 .. first - 1 : g.edges[j].t \notin Routing
    BY <1>2, <2>2, FirstIs
  <2>4. ImpliedBy(g, Route, Routing, first)
    <3>1. <<Route, Routing>> \in ImpliedNames
      BY DEF ImpliedNames
    <3> HIDE DEF first
    <3> QED
      BY <2>3, <3>1 DEF ImpliedBy
  <2>5. Widened(g, named) /\ IsGraph(named) /\ Network \in Ids(named) /\ named.edges = g.edges
    <3>1. IsConcept(ImplicitNode("network"))
      BY ConceptsAdded
    <3> QED
      BY <2>2, <3>1, WidenedIs
  <2>6. Widened(named, nodes) /\ IsGraph(nodes) /\ Route \in Ids(nodes)
    <3>1. IsConcept(ImplicitNode("field"))
      BY ConceptsAdded
    <3>2. ToSet(named.pool) = Ids(named) /\ AreConcepts(named)
      BY <2>5 DEF Widened
    <3> HIDE DEF named
    <3> QED
      BY <2>5, <3>1, <3>2, WidenedIs
  <2>7. /\ Widened(g, nodes) /\ Network \in Ids(nodes)
        /\ \A id \in Ids(nodes) \ Ids(g) :
             id \in {Network, Route} \/ (id = SpatialField /\ nodes.node[id].core = "field")
    <3> HIDE DEF named, nodes
    <3>1. Widened(g, nodes)
      BY <2>5, <2>6, WidenedTwice
    <3> QED
      BY <2>5, <2>6, <3>1 DEF Widened
  <2>8. c.node = nodes.node /\ c.pool = nodes.pool /\ c.factors = nodes.factors /\ c.edges = edges
    <3> HIDE DEF nodes, edges
    <3> QED
      BY <2>1, <2>6 DEF IsGraph
  <2>9. Widened(g, c) /\ Ids(c) = Ids(nodes) /\ Network \in Ids(c) /\ Route \in Ids(c)
    <3> HIDE DEF nodes, edges
    <3> QED
      BY <2>6, <2>7, <2>8, WidenedEdges DEF Ids
  <2>10. IsGraph(c)
    BY <2>2, WithNetworkShape
  <2>11. \A id \in Ids(c) \ Ids(g) : id \in {Network, Route} \/ (id = SpatialField /\ c.node[id].core = "field")
    BY <2>9 DEF Widened
  <2>12. DOMAIN c.edges = DOMAIN g.edges
    <3>1. DOMAIN edges = 1 .. n
      OBVIOUS
    <3> QED
      BY <2>2, <2>8, <3>1
  <2>13. ASSUME NEW i \in DOMAIN g.edges
         PROVE  \E ins \in SUBSET Ids(c) : Adds(g.edges[i], c.edges[i], ins, IF i = first THEN {Route} ELSE {})
    <3> DEFINE e == g.edges[i]
    <3>1. IsEdge(e)
      BY <2>2 DEF AreEdges
    <3>2. c.edges[i] = Told(i)
      BY <2>2, <2>8
    <3>3. Adds(e, both(e), {Network}, {Route}) /\ Adds(e, read(e), {Route}, {}) /\ Adds(e, e, {}, {})
      <4> HIDE DEF e
      <4> QED
        BY <3>1, AddsOne
    <3>4. CASE i = first
      <4>0. ~Reads(i)
        <5> HIDE DEF first
        <5> QED
          BY <2>2, <2>3, <3>4
      <4>1. c.edges[i] = both(e)
        <5> HIDE DEF both, read, first, Reads
        <5> QED
          BY <3>2, <3>4, <4>0
      <4> HIDE DEF e, both, read, first
      <4> QED
        BY <2>9, <3>3, <3>4, <4>1 DEF e
    <3>5. CASE i # first /\ Reads(i)
      <4>1. c.edges[i] = read(e)
        <5> HIDE DEF both, read, first, Reads
        <5> QED
          BY <3>2, <3>5
      <4> HIDE DEF e, both, read, first
      <4> QED
        BY <2>9, <3>3, <3>5, <4>1 DEF e
    <3>6. CASE i # first /\ ~Reads(i)
      <4>1. c.edges[i] = e
        <5> HIDE DEF both, read, first, Reads
        <5> QED
          BY <3>2, <3>6
      <4> HIDE DEF e, both, read, first
      <4> QED
        BY <3>3, <3>6, <4>1 DEF e
    <3> QED
      BY <3>4, <3>5, <3>6
  <2> HIDE DEF first, nodes, named, edges
  <2> QED
    BY <2>4, <2>9, <2>10, <2>11, <2>12, <2>13, GainsCompletes
<1> QED
  BY <1>1, <1>2

LEMMA SpatialFieldCompletes ==
  ASSUME NEW g, Primed(g), NEW c, c = WithSpatialField(g)
  PROVE  Completes(g, c, SpatialField, Distances)
<1> DEFINE first == FirstOf(g, Distances)
           nodes == Added(g, SpatialField, ImplicitNode("field"))
           outs == Distinct(Append(nodes.edges[first].outs, SpatialField))
<1>1. IsGraph(g) /\ AreEdges(g.edges) /\ DOMAIN g.edges = 1 .. Len(g.edges) /\ ToSet(g.pool) = Ids(g)
      /\ AreConcepts(g)
  BY EdgesThatAre DEF Primed, IsGraph, Ready
<1>2. Widened(g, nodes) /\ IsGraph(nodes) /\ SpatialField \in Ids(nodes) /\ nodes.edges = g.edges
      /\ \A id \in Ids(nodes) \ Ids(g) : id = SpatialField /\ nodes.node[id].core = "field"
  <2>1. IsConcept(ImplicitNode("field")) /\ ImplicitNode("field").core = "field"
    BY ConceptsAdded
  <2>2. Widened(g, nodes) /\ IsGraph(nodes) /\ SpatialField \in Ids(nodes) /\ nodes.edges = g.edges
    BY <1>1, <2>1, WidenedIs
  <2>3. Ids(nodes) = Ids(g) \cup {SpatialField} /\ (SpatialField \notin Ids(g) => nodes.node[SpatialField] = ImplicitNode("field"))
    BY <1>1, <2>1, AddedIs
  <2> HIDE DEF nodes
  <2>4. \A id \in Ids(nodes) \ Ids(g) : id = SpatialField /\ nodes.node[id].core = "field"
    BY <2>1, <2>3
  <2> QED
    BY <2>2, <2>4
<1>3. \/ c = g /\ ~Uses(g, Distances)
      \/ c = nodes /\ ~Uses(g, Distances)
      \/ Uses(g, Distances) /\ c = [nodes EXCEPT !.edges[first].outs = outs]
  <2>1. ~Uses(g, {"DISTANCE_MEASURE", "SORT", "FILTER"}) => ~Uses(g, {"DISTANCE_MEASURE"})
    BY DEF Uses
  <2> QED
    BY <2>1 DEF WithSpatialField, Distances
<1> HIDE DEF nodes
<1>4. CASE c = g /\ ~Uses(g, Distances)
  BY <1>4, CompletesAsIs
<1>5. CASE c = nodes /\ ~Uses(g, Distances)
  BY <1>2, <1>5, WidenedCompletes
<1>6. CASE Uses(g, Distances) /\ c = [nodes EXCEPT !.edges[first].outs = outs]
  <2>1. /\ first \in DOMAIN g.edges /\ g.edges[first].t \in Distances
        /\ \A j \in 1 .. first - 1 : g.edges[j].t \notin Distances
    BY <1>1, <1>6, FirstIs
  <2> HIDE DEF first
  <2>2. ImpliedBy(g, SpatialField, Distances, first)
    <3>1. <<SpatialField, Distances>> \in ImpliedNames
      BY DEF ImpliedNames
    <3> QED
      BY <2>1, <3>1 DEF ImpliedBy
  <2> DEFINE told(e) == [e EXCEPT !.outs = Distinct(Append(@, SpatialField))]
             edges == [g.edges EXCEPT ![first] = told(g.edges[first])]
  <2>3. c = [nodes EXCEPT !.edges = edges]
    BY <1>2, <1>6, <2>1 DEF IsGraph
  <2>4. \A i \in DOMAIN g.edges : edges[i] = IF i = first THEN told(g.edges[i]) ELSE g.edges[i]
    <3> HIDE DEF told
    <3> QED
      BY <1>1, <2>1, EdgesThatAre
  <2>5. DOMAIN edges = DOMAIN g.edges
    <3> HIDE DEF told
    <3> QED
      BY <1>1, EdgesThatAre
  <2> HIDE DEF told, edges
  <2>6. c.node = nodes.node /\ c.pool = nodes.pool /\ c.factors = nodes.factors /\ c.edges = edges
    BY <1>2, <2>3 DEF IsGraph
  <2>7. Widened(g, c) /\ Ids(c) = Ids(nodes) /\ SpatialField \in Ids(c)
    BY <1>2, <2>6, WidenedEdges DEF Ids
  <2>8. IsGraph(c)
    BY <1>1, WithSpatialFieldShape
  <2>9. \A id \in Ids(c) \ Ids(g) : id \in {Network, SpatialField} \/ (id = SpatialField /\ c.node[id].core = "field")
    BY <1>2, <2>7
  <2>10. ASSUME NEW i \in DOMAIN g.edges
         PROVE  \E ins \in SUBSET Ids(c) : Adds(g.edges[i], c.edges[i], ins, IF i = first THEN {SpatialField} ELSE {})
    <3> DEFINE e == g.edges[i]
    <3>1. IsEdge(e)
      BY <1>1 DEF AreEdges
    <3>2. Adds(e, told(e), {}, {SpatialField}) /\ Adds(e, e, {}, {})
      <4> HIDE DEF e
      <4> QED
        BY <3>1, AddsOne DEF told
    <3>3. c.edges[i] = IF i = first THEN told(e) ELSE e
      BY <2>4, <2>6
    <3> HIDE DEF e
    <3> QED
      BY <3>2, <3>3 DEF e
  <2> QED
    BY <2>2, <2>5, <2>6, <2>7, <2>8, <2>9, <2>10, GainsCompletes
<1> QED
  BY <1>3, <1>4, <1>5, <1>6

\* Both implied concepts, one after the other.
LEMMA ImplicitConceptsComplete ==
  ASSUME NEW g, Primed(g), NEW c, c = WithImplicitConcepts(g)
  PROVE  /\ Primed(c) /\ Provided(c) /\ (NamedApart(c) <=> NamedApart(g)) /\ c.factors = g.factors
         /\ Provided(g) /\ Done(g) => Done(c)
<1> DEFINE n == WithNetwork(g)
<1>1. Completes(g, n, Route, Routing)
  BY NetworkCompletes
<1> HIDE DEF n
<1>2. Completes(n, c, SpatialField, Distances)
  <2>1. Primed(n) /\ c = WithSpatialField(n)
    BY <1>1 DEF Completes, n, WithImplicitConcepts
  <2> QED
    BY <2>1, SpatialFieldCompletes
<1>3. Primed(c) /\ Provided(c) /\ (NamedApart(c) <=> NamedApart(g)) /\ c.factors = g.factors
  <2>1. Primed(c) /\ (NamedApart(c) <=> NamedApart(g)) /\ c.factors = g.factors
    BY <1>1, <1>2 DEF Completes
  <2>2. Uses(c, Routing) => Route \in Made(c)
    BY <1>1, <1>2 DEF Completes
  <2>3. Uses(c, Distances) => SpatialField \in Made(c)
    BY <1>2 DEF Completes
  <2> QED
    BY <2>1, <2>2, <2>3 DEF Provided
<1>4. ASSUME Provided(g), Done(g) PROVE Done(c)
  <2>1. Done(n)
    BY <1>1, <1>4 DEF Completes, Provided
  <2>2. Uses(n, Distances) => SpatialField \in Made(n)
    BY <1>1, <1>4 DEF Completes, Provided
  <2> QED
    BY <1>2, <2>1, <2>2 DEF Completes
<1> QED
  BY <1>3, <1>4

\* What is built is a graph.
LEMMA LaidIsPrimed ==
  ASSUME NEW b, Laid(b), Accounted(b), b.edges # <<>>, NEW g, g = GraphOf(b)
  PROVE  /\ Primed(g) /\ (Provided(b) => Provided(g)) /\ (NamedApart(g) <=> NamedApart(b))
         /\ g.factors = b.factors
         /\ Known(b) /\ Once(b) /\ Typed(b) /\ MeasureEdges(b) # {} => Done(g)
<1>1. g = [node |-> b.node, pool |-> b.pool, factors |-> b.factors, edges |-> b.edges]
  BY DEF GraphOf
<1>2. g.node = b.node /\ g.pool = b.pool /\ g.factors = b.factors /\ g.edges = b.edges /\ Ids(g) = Ids(b)
  BY <1>1 DEF Ids
<1>3. IsGraph(g)
  BY <1>1, <1>2 DEF Laid, IsBuilder, IsGraph
<1>4. Made(g) = Made(b) /\ (\A us : Uses(g, us) <=> Uses(b, us)) /\ (NamedApart(g) <=> NamedApart(b))
  BY <1>2 DEF Made, Uses, NamedApart
<1>5. Ready(g)
  <2>1. Signed(g) /\ Reserved(g)
    BY <1>2 DEF Laid, Signed, Reserved, FirstMakes
  <2>2. AreConcepts(g) /\ Accounted(g)
    BY <1>2, <1>4 DEF Laid, AreConcepts, Accounted
  <2> QED
    BY <1>2, <2>1, <2>2 DEF Ready, Laid, IsBuilder
<1>6. Primed(g)
  BY <1>2, <1>3, <1>5 DEF Primed, Laid
<1>7. Provided(b) => Provided(g)
  BY <1>4 DEF Provided
<1>8. ASSUME Known(b), Once(b), Typed(b), MeasureEdges(b) # {} PROVE Done(g)
  <2>1. Known(g)
    BY <1>2, <1>8 DEF Known, Knows
  <2>0. g.edges = b.edges /\ g.node = b.node
    BY <1>2
  <2>2. Once(g)
    <3> SUFFICES ASSUME NEW i \in DOMAIN g.edges, NEW j \in DOMAIN g.edges,
                        ToSet(g.edges[i].outs) \cap ToSet(g.edges[j].outs) # {}
                 PROVE  g.edges[i].id = g.edges[j].id
      BY Zenon DEF Once
    <3>1. i \in DOMAIN b.edges /\ j \in DOMAIN b.edges
          /\ ToSet(b.edges[i].outs) \cap ToSet(b.edges[j].outs) # {}
      BY <2>0
    <3>2. b.edges[i].id = b.edges[j].id
      BY <1>8, <3>1, Zenon DEF Once
    <3> QED
      BY <2>0, <3>2
  <2>3. Typed(g)
    BY <2>0, <1>8, Zenon DEF Typed
  <2>4. MeasureEdges(g) = MeasureEdges(b)
    BY <2>0, Zenon DEF MeasureEdges
  <2> QED
    BY <1>8, <2>1, <2>2, <2>3, <2>4 DEF Done
<1> QED
  BY <1>2, <1>4, <1>6, <1>7, <1>8

LEMMA WholeIsLaid ==
  ASSUME NEW b, Whole(b)
  PROVE  Laid(b) /\ Accounted(b) /\ b.edges # <<>> /\ Known(b) /\ Once(b)
BY DEF Whole, Fit, Laid, Known, Knows

LEMMA FromStepsCompletes ==
  ASSUME NEW w, Ready(w), HasEdges(w), NEW c, c = FromSteps(w)
  PROVE  Primed(c) /\ Provided(c) /\ c.factors \subseteq Written(w)
<1> DEFINE b == Built(w, TRUE)
<1>1. Follows(b, w, Len(w.edges)) /\ Laid(b)
  BY BuiltFits DEF Turned
<1>2. c = WithImplicitConcepts(GraphOf(b))
  BY DEF FromSteps
<1> HIDE DEF b
<1>3. Accounted(b) /\ b.edges # <<>>
  <2>1. AreEdges(b.edges)
    BY <1>1 DEF Laid, IsBuilder
  <2> QED
    BY <1>1, <2>1, FollowedIs
<1>4. Primed(GraphOf(b)) /\ GraphOf(b).factors = b.factors
  BY <1>1, <1>3, LaidIsPrimed
<1>5. b.factors \subseteq Written(w)
  BY <1>1 DEF Follows
<1>6. Primed(c) /\ Provided(c) /\ c.factors = b.factors
  BY <1>2, <1>4, ImplicitConceptsComplete
<1> QED
  BY <1>5, <1>6

\* Completing a draft, and completing again what was completed.
LEMMA CanonicalCompletes ==
  ASSUME NEW w, Ready(w), HasEdges(w), NEW c, c = Canonical(w)
  PROVE  /\ Primed(c) /\ Provided(c) /\ c.factors \subseteq Written(w)
         /\ Provided(w) /\ NamedApart(c) => Done(c)
<1> DEFINE b0 == Built(w, FALSE)
           b1 == Promoting(b0)
           b2 == PlacesResolved(b1)
           b3 == RadiusGiven(b2)
           b4 == StopsRead(b3)
           b5 == Retyped(b4)
           b6 == RolesPropagated(b5)
           b7 == LeavesRooted(b6)
           b8 == MeasureEnsured(b7)
           g == GraphOf(b8)
<1>1. c = WithImplicitConcepts(g)
  BY DEF Canonical, EdgesBuilt
<1>2. Follows(b0, w, Len(w.edges)) /\ Fit(b0)
  BY BuiltFits DEF Turned
<1> HIDE DEF b0
<1>3. Whole(b0) /\ (Provided(w) => Provided(b0)) /\ b0.factors \subseteq Written(w)
  <2>1. AreEdges(b0.edges)
    BY <1>2 DEF Fit, IsBuilder
  <2>2. b0.factors \subseteq Written(w)
    BY <1>2 DEF Follows
  <2> QED
    BY <1>2, <2>1, <2>2, FollowedIs DEF Whole
<1>4. Whole(b1) /\ (Provided(b0) => Provided(b1)) /\ b1.factors = b0.factors
  BY <1>3, RoleGiven DEF Promoting
<1> HIDE DEF b1
<1>5. Whole(b2) /\ (Provided(b1) => Provided(b2)) /\ b2.factors = b1.factors
  BY <1>4, PlacesResolvedWhole
<1> HIDE DEF b2
<1>6. Whole(b3) /\ (Provided(b2) => Provided(b3)) /\ b3.factors = b2.factors
  BY <1>5, RadiusGivenWhole
<1> HIDE DEF b3
<1>7. Whole(b4) /\ (Provided(b3) => Provided(b4)) /\ b4.factors = b3.factors
  BY <1>6, StopsReadWhole
<1> HIDE DEF b4
<1>8. Whole(b5) /\ (Provided(b4) => Provided(b5)) /\ (NamedApart(b5) <=> NamedApart(b4))
      /\ (NamedApart(b4) => Typed(b5)) /\ b5.factors = b4.factors
  BY <1>7, RetypedWhole
<1> HIDE DEF b5
<1>9. Whole(b6) /\ (Provided(b5) => Provided(b6)) /\ (NamedApart(b6) <=> NamedApart(b5))
      /\ (Typed(b5) => Typed(b6)) /\ b6.factors = b5.factors
  BY <1>8, RolesPropagatedWhole
<1> HIDE DEF b6
<1>10. Whole(b7) /\ (Provided(b6) => Provided(b7)) /\ (NamedApart(b7) <=> NamedApart(b6))
       /\ (Typed(b6) => Typed(b7)) /\ b7.factors = b6.factors
  BY <1>9, RoleGiven DEF LeavesRooted
<1> HIDE DEF b7
<1>11. Whole(b8) /\ (Provided(b7) => Provided(b8)) /\ (NamedApart(b8) <=> NamedApart(b7))
       /\ (Typed(b7) => Typed(b8)) /\ MeasureEdges(b8) # {} /\ b8.factors = b7.factors
  BY <1>10, MeasureEnsuredWhole
<1> HIDE DEF b8
<1>12. Laid(b8) /\ Accounted(b8) /\ b8.edges # <<>> /\ Known(b8) /\ Once(b8)
  BY <1>11, WholeIsLaid
<1>13. /\ Primed(g) /\ (Provided(b8) => Provided(g)) /\ (NamedApart(g) <=> NamedApart(b8))
       /\ g.factors = b8.factors
       /\ Known(b8) /\ Once(b8) /\ Typed(b8) /\ MeasureEdges(b8) # {} => Done(g)
  BY <1>12, LaidIsPrimed
<1> HIDE DEF g
<1>14. /\ Primed(c) /\ Provided(c) /\ (NamedApart(c) <=> NamedApart(g)) /\ c.factors = g.factors
       /\ Provided(g) /\ Done(g) => Done(c)
  BY <1>1, <1>13, ImplicitConceptsComplete
<1>15. ASSUME Provided(w), NamedApart(c) PROVE Done(c)
  <2>1. Provided(g)
    BY <1>3, <1>4, <1>5, <1>6, <1>7, <1>8, <1>9, <1>10, <1>11, <1>13, <1>15
  <2>2. Typed(b8)
    BY <1>8, <1>9, <1>10, <1>11, <1>13, <1>14, <1>15
  <2> QED
    BY <1>11, <1>12, <1>13, <1>14, <2>1, <2>2
<1>16. c.factors \subseteq Written(w)
  BY <1>3, <1>4, <1>5, <1>6, <1>7, <1>8, <1>9, <1>10, <1>11, <1>13, <1>14
<1> QED
  BY <1>14, <1>15, <1>16

\* Binding facts changes what is read and cited, and no maker.
LEMMA RoutedMakers ==
  ASSUME NEW g, IsGraph(g), NEW stop, NEW c, c = RoutedThrough(g, stop)
  PROVE  /\ SameMakers(g, c) /\ c.node = g.node /\ c.pool = g.pool /\ c.factors = g.factors
         /\ \A i \in DOMAIN g.edges : c.edges[i].factors = g.edges[i].factors
<1> DEFINE n == Len(g.edges)
           routes == {i \in 1..n : g.edges[i].t = "ROUTE_MEASURE"}
           Through(e) == [e EXCEPT !.ins = Distinct(Append(@, stop)), !.via = <<stop>>]
           edges == [i \in 1 .. n |-> IF i \in routes THEN Through(g.edges[i]) ELSE g.edges[i]]
<1>1. c = g \/ c = [g EXCEPT !.edges = edges]
  BY DEF RoutedThrough
<1>2. n \in Nat /\ DOMAIN g.edges = 1 .. n /\ \A i \in 1 .. n : IsEdge(g.edges[i])
  BY EdgesThatAre DEF IsGraph, AreEdges
<1>3. ASSUME NEW e, IsEdge(e)
      PROVE  /\ Through(e).id = e.id /\ Through(e).t = e.t /\ Through(e).outs = e.outs
             /\ Through(e).factors = e.factors
  <2> DEFINE ins == Distinct(Append(e.ins, stop))
             via == <<stop>>
             d == [e EXCEPT !.ins = ins]
  <2>1. e = [id |-> e.id, t |-> e.t, ins |-> e.ins, outs |-> e.outs,
             factors |-> e.factors, via |-> e.via, role |-> e.role]
    BY <1>3 DEF IsEdge
  <2>2. Through(e) = [d EXCEPT !.via = via]
    OBVIOUS
  <2> HIDE DEF ins, via
  <2>3. d = [id |-> e.id, t |-> e.t, ins |-> ins, outs |-> e.outs,
             factors |-> e.factors, via |-> e.via, role |-> e.role]
    BY <2>1
  <2> HIDE DEF d, Through
  <2>4. [d EXCEPT !.via = via]
          = [id |-> e.id, t |-> e.t, ins |-> ins, outs |-> e.outs,
             factors |-> e.factors, via |-> via, role |-> e.role]
    BY <2>3
  <2> QED
    BY <2>2, <2>4
<1>4. ASSUME NEW i \in 1 .. n
      PROVE  /\ edges[i].id = g.edges[i].id /\ edges[i].t = g.edges[i].t /\ edges[i].outs = g.edges[i].outs
             /\ edges[i].factors = g.edges[i].factors
  <2> HIDE DEF Through, routes, n
  <2> QED
    BY <1>2, <1>3
<1>5. DOMAIN edges = 1 .. n
  OBVIOUS
<1> HIDE DEF edges, n
<1>6. CASE c = g
  BY <1>6 DEF SameMakers
<1>7. CASE c = [g EXCEPT !.edges = edges]
  <2>1. c.node = g.node /\ c.pool = g.pool /\ c.factors = g.factors /\ c.edges = edges
    BY <1>7 DEF IsGraph
  <2> QED
    BY <1>2, <1>4, <1>5, <2>1 DEF SameMakers
<1> QED
  BY <1>1, <1>6, <1>7

LEMMA GroundedMakers ==
  ASSUME NEW g, IsGraph(g), NEW stated, NEW stop, NEW c, c = Grounded(g, stated, stop)
  PROVE  /\ SameMakers(g, c) /\ c.node = g.node /\ c.pool = g.pool
         /\ g.factors \subseteq c.factors /\ c.factors \subseteq g.factors \cup stated
         /\ \A i \in DOMAIN g.edges : c.edges[i].factors \subseteq g.edges[i].factors \cup c.factors
<1> DEFINE routed == RoutedThrough(g, stop)
           added == {f \in stated : f[1] \notin FactorTypes(g.factors)}
           Told(e) == [e EXCEPT !.factors = @ \cup {f \in added : f[1] \in FactorsOf(e.t)}]
           edges == Mapped(Told, routed.edges)
<1>1. /\ IsGraph(routed) /\ SameMakers(g, routed) /\ routed.node = g.node /\ routed.pool = g.pool
      /\ routed.factors = g.factors /\ added \subseteq stated
      /\ \A i \in DOMAIN g.edges : routed.edges[i].factors = g.edges[i].factors
  BY RoutedThroughShape, RoutedMakers
<1>2. c = [routed EXCEPT !.factors = @ \cup added, !.edges = edges]
  BY DEF Grounded
<1> HIDE DEF routed, added
<1>3. /\ Len(routed.edges) \in Nat /\ DOMAIN routed.edges = 1 .. Len(routed.edges)
      /\ \A i \in 1 .. Len(routed.edges) : IsEdge(routed.edges[i])
  BY <1>1, EdgesThatAre DEF IsGraph, AreEdges
<1>4. ASSUME NEW e, IsEdge(e)
      PROVE  /\ Told(e).id = e.id /\ Told(e).t = e.t /\ Told(e).outs = e.outs
             /\ Told(e).factors \subseteq e.factors \cup added
  BY <1>4 DEF IsEdge
<1>5. /\ DOMAIN edges = 1 .. Len(routed.edges)
      /\ \A i \in 1 .. Len(routed.edges) : edges[i] = Told(routed.edges[i])
  BY <1>3 DEF Mapped
<1> HIDE DEF edges, Told
<1>6. /\ c.node = routed.node /\ c.pool = routed.pool /\ c.edges = edges
      /\ c.factors = routed.factors \cup added
  BY <1>1, <1>2 DEF IsGraph
<1>7. SameMakers(g, c)
  <2>1. DOMAIN c.edges = DOMAIN g.edges
    BY <1>1, <1>3, <1>5, <1>6 DEF SameMakers
  <2>2. ASSUME NEW i \in DOMAIN g.edges
        PROVE  c.edges[i].id = g.edges[i].id /\ c.edges[i].t = g.edges[i].t /\ c.edges[i].outs = g.edges[i].outs
    <3>1. i \in 1 .. Len(routed.edges) /\ i \in DOMAIN routed.edges
      BY <1>1, <1>3 DEF SameMakers
    <3>2. c.edges[i].id = routed.edges[i].id /\ c.edges[i].t = routed.edges[i].t
          /\ c.edges[i].outs = routed.edges[i].outs
      BY <1>3, <1>4, <1>5, <1>6, <3>1
    <3> QED
      BY <1>1, <3>2 DEF SameMakers
  <2> QED
    BY <2>1, <2>2 DEF SameMakers
<1>8. ASSUME NEW i \in DOMAIN g.edges PROVE c.edges[i].factors \subseteq g.edges[i].factors \cup c.factors
  <2>1. i \in 1 .. Len(routed.edges)
    BY <1>1, <1>3 DEF SameMakers
  <2>2. c.edges[i].factors \subseteq routed.edges[i].factors \cup added
    BY <1>3, <1>4, <1>5, <1>6, <2>1
  <2> QED
    BY <1>1, <1>6, <2>2
<1> QED
  BY <1>1, <1>6, <1>7, <1>8

LEMMA GroundedCompletes ==
  ASSUME NEW g, Primed(g), Provided(g), NEW stated, NEW stop, NEW c, c = Grounded(g, stated, stop)
  PROVE  Primed(c) /\ Provided(c) /\ c.factors \subseteq g.factors \cup stated
<1>1. /\ IsGraph(g) /\ Ready(g) /\ g.edges # <<>> /\ AreEdges(g.edges)
      /\ \A e \in ToSet(g.edges) : e.t # "MATCH_OPTIONS" /\ e.factors \subseteq g.factors
  BY DEF Primed, IsGraph
<1>2. /\ IsGraph(c) /\ SameMakers(g, c) /\ c.node = g.node /\ c.pool = g.pool
      /\ g.factors \subseteq c.factors /\ c.factors \subseteq g.factors \cup stated
      /\ \A i \in DOMAIN g.edges : c.edges[i].factors \subseteq g.edges[i].factors \cup c.factors
  BY <1>1, GroundedShape, GroundedMakers
<1>3. Made(c) = Made(g) /\ Provided(c) /\ Signed(c) /\ Reserved(c)
  BY <1>1, <1>2, MakersStay DEF Ready
<1>4. AreConcepts(c) /\ Accounted(c)
  BY <1>1, <1>2, <1>3 DEF Ready, AreConcepts, Accounted, Ids
<1>5. Ready(c)
  BY <1>1, <1>2, <1>3, <1>4 DEF Ready, IsGraph, Ids
<1>6. c.edges # <<>> /\ \A e \in ToSet(c.edges) : e.t # "MATCH_OPTIONS" /\ e.factors \subseteq c.factors
  <2>1. DOMAIN g.edges = 1 .. Len(g.edges) /\ Len(g.edges) \in Nat /\ DOMAIN c.edges = DOMAIN g.edges
    BY <1>1, <1>2, EdgesThatAre DEF SameMakers
  <2>2. 1 \in DOMAIN g.edges
    BY <1>1, HeadOfList DEF AreEdges
  <2>3. c.edges # <<>>
    BY <2>1, <2>2
  <2>4. ASSUME NEW e \in ToSet(c.edges) PROVE e.t # "MATCH_OPTIONS" /\ e.factors \subseteq c.factors
    <3>1. PICK i \in DOMAIN c.edges : c.edges[i] = e
      BY AnEdgeIsListed
    <3>2. g.edges[i] \in ToSet(g.edges) /\ e.t = g.edges[i].t
      BY <1>2, <3>1, ListedIsAnEdge DEF SameMakers
    <3>3. e.factors \subseteq g.edges[i].factors \cup c.factors
      BY <1>2, <2>1, <3>1
    <3> QED
      BY <1>1, <1>2, <3>2, <3>3
  <2> QED
    BY <2>3, <2>4
<1> QED
  BY <1>2, <1>3, <1>5, <1>6 DEF Primed

LEMMA OutputsAreTyped ==
  ASSUME NEW t \in Transforms
  PROVE  AcceptedOutputTypes(t) # {}
<1>1. CASE t \in DOMAIN PolymorphicOutputs
  <2>1. AcceptedOutputTypes(t) = PolymorphicOutputs[t]
    BY <1>1 DEF AcceptedOutputTypes
  <2>2. PolymorphicOutputs[t] # {}
    BY <1>1 DEF PolymorphicOutputs
  <2> QED
    BY <2>1, <2>2
<1>2. CASE t \notin DOMAIN PolymorphicOutputs
  BY <1>2 DEF AcceptedOutputTypes
<1> QED
  BY <1>1, <1>2

\* What the rules say of a graph that is done.
LEMMA DoneIsAccepted ==
  ASSUME NEW g, AreEdges(g.edges), NamedApart(g), Done(g)
  PROVE  /\ Verdict(g) \notin {"output_type", "no_measure"}
         /\ Cited(g.factors) \subseteq Ids(g) => Verdict(g) # "unknown_name"
<1> DEFINE faulty == {i \in 1 .. Len(g.edges) : EdgeVerdict(g, g.edges[i]) # "accepted"}
           first == CHOOSE i \in faulty : \A j \in faulty : i <= j
<1>1. Known(g) /\ Once(g) /\ Typed(g) /\ MeasureEdges(g) # {} /\ DOMAIN g.edges = 1 .. Len(g.edges)
  BY EdgesThatAre DEF Done
<1>2. ASSUME Cited(g.factors) \subseteq Ids(g) PROVE NamesKnown(g)
  <2>1. \A e \in ToSet(g.edges) : ToSet(e.ins) \cup ToSet(e.outs) \subseteq Ids(g) /\ e.factors \subseteq g.factors
    BY <1>1 DEF Known, Knows
  <2>2. ASSUME NEW id \in Ids(g) PROVE Cardinality(Producers(g, id)) <= 1
    <3>1. ASSUME NEW d \in Producers(g, id), NEW e \in Producers(g, id) PROVE d = e
      <4>1. d \in ToSet(g.edges) /\ e \in ToSet(g.edges) /\ id \in ToSet(d.outs) /\ id \in ToSet(e.outs)
        BY DEF Producers
      <4>2. PICK i \in DOMAIN g.edges : g.edges[i] = d
        BY <4>1, AnEdgeIsListed
      <4>3. PICK j \in DOMAIN g.edges : g.edges[j] = e
        BY <4>1, AnEdgeIsListed
      <4>4. g.edges[i].id = g.edges[j].id
        BY <1>1, <4>1, <4>2, <4>3 DEF Once
      <4> QED
        BY <4>2, <4>3, <4>4 DEF NamedApart
    <3>2. CASE Producers(g, id) = {}
      BY <3>2, FS_EmptySet
    <3>3. CASE Producers(g, id) # {}
      <4>1. PICK e \in Producers(g, id) : TRUE
        BY <3>3
      <4>2. Producers(g, id) = {e}
        BY <3>1, <4>1
      <4>3. Cardinality({e}) = 1
        BY FS_Singleton
      <4> QED
        BY <4>2, <4>3
    <3> QED
      BY <3>2, <3>3
  <2> QED
    BY <1>2, <2>1, <2>2 DEF NamesKnown
<1>3. ASSUME NEW e \in ToSet(g.edges)
      PROVE  EdgeVerdict(g, e) \notin {"unknown_name", "output_type", "no_measure"}
  <2>1. e.t \in Transforms => OutputsTyped(g, e)
    BY <1>1, OutputsAreTyped DEF Typed, OutputsTyped
  <2> QED
    BY <2>1 DEF EdgeVerdict
<1>4. faulty # {} => EdgeVerdict(g, g.edges[first]) \notin {"unknown_name", "output_type", "no_measure"}
  <2> SUFFICES ASSUME faulty # {}
               PROVE  EdgeVerdict(g, g.edges[first]) \notin {"unknown_name", "output_type", "no_measure"}
    OBVIOUS
  <2>1. faulty \in SUBSET Nat /\ faulty \subseteq DOMAIN g.edges
    BY <1>1
  <2> HIDE DEF faulty
  <2>2. \E i \in faulty : \A j \in faulty : i <= j
    BY <2>1, LeastNumber
  <2>3. first \in faulty
    BY <2>2
  <2> HIDE DEF first
  <2> QED
    BY <1>3, <2>1, <2>3, ListedIsAnEdge
<1> HIDE DEF faulty, first
<1>5. ~NamesKnown(g) => Verdict(g) = "unknown_name"
  BY Zenon DEF Verdict
<1>6. NamesKnown(g) => Verdict(g) \notin {"unknown_name", "output_type", "no_measure"}
  BY <1>1, <1>4 DEF Verdict, faulty, first
<1> QED
  BY <1>2, <1>5, <1>6

\* A draft whose names are the planner's own is one that completion may start from.
LEMMA OwnNamesAreReady ==
  ASSUME NEW d, Listing(d.pool), ToSet(d.pool) = Ids(d), AreEdges(d.edges), AreConcepts(d), NamesItsOwn(d)
  PROVE  Ready(d)
<1>1. \A id \in Ids(d) : id[1] \notin MadeUp
  BY DEF NamesItsOwn
<1>2. \A e \in ToSet(d.edges) : \A id \in ToSet(e.outs) : id[1] \notin MadeUp
  BY DEF NamesItsOwn
<1>3. Signed(d)
  <2>1. ASSUME NEW id, id[1] \notin MadeUp, NEW x PROVE SignedBy(id, x)
    BY <2>1, MadeUpNames DEF SignedBy
  <2> QED
    BY <1>2, <2>1 DEF Signed
<1>4. Reserved(d)
  <2>1. ASSUME NEW name, name[1] \in MadeUp, NEW ts PROVE FirstMakes(d, name, ts)
    BY <1>2, <2>1, ListedIsAnEdge DEF FirstMakes
  <2> QED
    BY <2>1, MadeUpNames DEF Reserved
<1>5. Accounted(d)
  BY <1>1 DEF Accounted
<1> QED
  BY <1>3, <1>4, <1>5 DEF Ready

\* A graph once completed has what its transformations imply, and no factor but what was written or
\* stated; completed twice, nothing is refused but its structure and a concept its factors cite.
CompletedInv ==
  /\ Cited(facts.stated) = {}
  /\ Listing(draft.pool) /\ ToSet(draft.pool) = Ids(draft) /\ AreEdges(draft.edges) /\ AreConcepts(draft)
  /\ NamesItsOwn(draft) =>
       /\ stage = "completed" => Primed(graph) /\ Provided(graph)
       /\ stage = "settled" => AreEdges(graph.edges) /\ NamedApart(graph) /\ Done(graph)
       /\ stage \in {"completed", "settled"} => graph.factors \subseteq Written(draft) \cup facts.stated

LEMMA CompletedInit == Init => CompletedInv
<1> SUFFICES ASSUME Init PROVE CompletedInv
  OBVIOUS
<1>1. PICK q \in Questions : draft = q.draft /\ facts = q.facts
  BY DEF Init
<1>2. stage = "drafted"
  BY DEF Init
<1>3. /\ Listing(q.draft.pool) /\ Cited(q.facts.stated) = {} /\ ToSet(q.draft.pool) = DOMAIN q.draft.node /\ AreEdges(q.draft.edges)
      /\ \A id \in DOMAIN q.draft.node : IsConcept(q.draft.node[id])
  BY QuestionsAssumption
<1> QED
  BY <1>1, <1>2, <1>3 DEF CompletedInv, Ids, AreConcepts

LEMMA CompletedStays == IInv /\ IInv' /\ CompletedInv /\ [Next]_vars => CompletedInv'
<1> SUFFICES ASSUME IInv, IInv', CompletedInv, [Next]_vars PROVE CompletedInv'
  OBVIOUS
<1>1. draft' = draft /\ facts' = facts
  BY DEF Next, Complete, Settle, Validate, Factorize, Plan, Ground, Bind, vars
<1>2. /\ Listing(draft.pool) /\ ToSet(draft.pool) = Ids(draft) /\ AreEdges(draft.edges) /\ AreConcepts(draft)
      /\ Cited(facts.stated) = {}
  BY DEF CompletedInv
<1> DEFINE known == Written(draft) \cup facts.stated
<1> SUFFICES ASSUME NamesItsOwn(draft)
             PROVE  /\ stage' = "completed" => Primed(graph') /\ Provided(graph')
                    /\ stage' = "settled" => AreEdges(graph'.edges) /\ NamedApart(graph') /\ Done(graph')
                    /\ stage' \in {"completed", "settled"} => graph'.factors \subseteq known
  BY <1>1, <1>2 DEF CompletedInv
<1>3. /\ stage = "completed" => Primed(graph) /\ Provided(graph)
      /\ stage = "settled" => AreEdges(graph.edges) /\ NamedApart(graph) /\ Done(graph)
      /\ stage \in {"completed", "settled"} => graph.factors \subseteq known
  BY DEF CompletedInv
<1>4. CASE UNCHANGED vars
  BY <1>3, <1>4 DEF vars
<1>5. CASE Complete
  <2>1. stage' # "settled"
    BY <1>5 DEF Complete
  <2>2. ASSUME stage' = "completed"
        PROVE  Primed(graph') /\ Provided(graph') /\ graph'.factors \subseteq known
    <3> DEFINE g == IF draft.steps THEN FromSteps(draft) ELSE Canonical(draft)
    <3>1. HasEdges(draft) /\ graph' = Grounded(g, facts.stated, facts.stop)
      BY <1>5, <2>2 DEF Complete
    <3>2. Ready(draft)
      BY <1>2, OwnNamesAreReady
    <3>3. Primed(g) /\ Provided(g) /\ g.factors \subseteq Written(draft)
      BY <3>1, <3>2, FromStepsCompletes, CanonicalCompletes
    <3> HIDE DEF g
    <3>4. Primed(graph') /\ Provided(graph') /\ graph'.factors \subseteq g.factors \cup facts.stated
      BY <3>1, <3>3, GroundedCompletes
    <3> QED
      BY <3>3, <3>4
  <2> QED
    BY <2>1, <2>2
<1>6. CASE Settle
  <2>1. stage = "completed" /\ graph' = Canonical(graph) /\ stage' # "completed"
        /\ (stage' = "settled" => NamedApart(graph'))
    BY <1>6 DEF Settle
  <2>2. Primed(graph) /\ Provided(graph) /\ graph.factors \subseteq known
    BY <1>3, <2>1
  <2>3. Ready(graph) /\ HasEdges(graph)
    <3>1. graph.edges # <<>> /\ Listing(graph.edges) /\ \A e \in ToSet(graph.edges) : e.t # "MATCH_OPTIONS"
      BY <2>2 DEF Primed, IsGraph, AreEdges
    <3>2. graph.edges[1] \in ToSet(graph.edges)
      BY <3>1, HeadOfList
    <3> QED
      BY <2>2, <3>1, <3>2 DEF Primed, HasEdges
  <2>4. Primed(graph') /\ (NamedApart(graph') => Done(graph')) /\ graph'.factors \subseteq Written(graph)
    BY <2>1, <2>2, <2>3, CanonicalCompletes
  <2>5. Written(graph) \subseteq graph.factors
    BY <2>2 DEF Primed, Written
  <2> HIDE DEF known
  <2>6. graph'.factors \subseteq known
    BY <2>2, <2>4, <2>5
  <2> QED
    BY <2>1, <2>4, <2>6 DEF Primed, IsGraph
<1>7. CASE Validate \/ Factorize \/ Plan \/ Ground \/ Bind
  <2>1. stage' \notin {"completed", "settled"}
    <3>1. CASE Validate
      <4>1. Verdict(graph) \notin {"completed", "settled"}
        BY Zenon DEF Verdict, EdgeVerdict
      <4> QED
        BY <3>1, <4>1 DEF Validate
    <3>2. CASE Factorize
      <4>1. at \in Nat /\ at' = at + 1 /\ (stage' \in {"completed", "settled"} => at' = 0)
        <5>1. at \in 0 .. Len(graph.edges) /\ Len(graph.edges) \in Nat
          BY EdgesThatAre DEF IInv, ShapeInv, IsGraph
        <5>2. stage' \in {"completed", "settled"} => at' = 0
          BY DEF IInv, PlanInv
        <5> QED
          BY <3>2, <5>1, <5>2 DEF Factorize
      <4> QED
        BY <4>1
    <3>3. CASE Plan \/ Ground \/ Bind
      BY <3>3 DEF Plan, Ground, Bind
    <3> QED
      BY <1>7, <3>1, <3>2, <3>3
  <2> QED
    BY <2>1
<1> QED
  BY <1>4, <1>5, <1>6, <1>7 DEF Next

\* Once a draft is completed, no concept is of a type its maker cannot produce and something it makes
\* answers; no name is made by two transformations or unknown either, unless a factor the planner
\* wrote cites a concept that nothing declares still. No other refusal of validate_geoflow_graph is
\* left but for the planner's own structure.
THEOREM CompletionIsEnough == Spec => []CompletionSuffices
<1>1. CompletedInv => CompletionSuffices
  <2> SUFFICES ASSUME CompletedInv, stage = "settled", NamesItsOwn(draft)
               PROVE  /\ Verdict(graph) \notin {"output_type", "no_measure"}
                      /\ Cited(Written(draft)) \subseteq Ids(graph) => Verdict(graph) # "unknown_name"
    BY DEF CompletionSuffices
  <2>1. AreEdges(graph.edges) /\ NamedApart(graph) /\ Done(graph)
    BY DEF CompletedInv
  <2>2. graph.factors \subseteq Written(draft) \cup facts.stated /\ Cited(facts.stated) = {}
    BY DEF CompletedInv
  <2>3. Cited(graph.factors) \subseteq Cited(Written(draft))
    BY <2>2 DEF Cited
  <2> QED
    BY <2>1, <2>3, DoneIsAccepted
<1> QED
  BY <1>1, CompletedInit, CompletedStays, PlanIsSound, PTL DEF Spec
=============================================================================
