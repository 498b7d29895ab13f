--------------------------- MODULE Canonicalizer ---------------------------
(***************************************************************************)
(* How a drafted concept graph is completed before it is judged             *)
(* (_Canonicalizer of canonicalization.py). One operator per method, on a   *)
(* builder: a graph with                                                    *)
(*   producer  the transformation that makes each concept made so far       *)
(*   alias     what a written id denotes from here on                       *)
(*   promoted  the concepts a MATCH_OPTIONS named as the answer             *)
(* A draft has the fields of a graph. Its edges are as the planner wrote    *)
(* them: ins and via (spelled in the attributes) may name concepts, earlier *)
(* transformations or nothing.                                              *)
(***************************************************************************)
EXTENDS ConceptGraph

Placed == {"ROUTE_MEASURE", "ROUTE_MATRIX", "ROUTE_OPTIMIZE", "DISTANCE_MEASURE"}
PlaceTypes == {"location", "object"}
RadiusFactors == {"radius_m", "radius"}

Builder(draft) ==
  [node |-> draft.node, pool |-> draft.pool, factors |-> draft.factors, edges |-> <<>>,
   producer |-> <<>>, alias |-> <<>>, promoted |-> {}]
GraphOf(b) == [node |-> b.node, pool |-> b.pool, factors |-> b.factors, edges |-> b.edges]

\* f, with another argument, or another value for it.
Extended(f, x, value) == [y \in DOMAIN f \cup {x} |-> IF y = x THEN value ELSE f[y]]
EdgeOf(b, id) == CHOOSE e \in ToSet(b.edges) : e.id = id

\* _resolve: a concept under its present name, the outputs of an earlier transformation, or
\* nothing at all.
Resolved(b, ref) ==
  CASE ref \in DOMAIN b.node -> <<IF ref \in DOMAIN b.alias THEN b.alias[ref] ELSE ref>>
    [] ref \notin DOMAIN b.node /\ ref \in EdgeIds(b) -> EdgeOf(b, ref).outs
    [] OTHER -> <<>>
ResolvedAll(b, refs) == Distinct(FlattenSeq(Mapped(LAMBDA r : Resolved(b, r), refs)))

\* _synthesize: a concept typed by what produces it.
Synthesized(t, role) ==
  [core |-> IF t \in Transforms THEN OutputType[t] ELSE "object", role |-> role,
   implicit |-> TRUE, named |-> FALSE]
Renamed(id, edge) == <<"renamed", <<id, edge>>>>
Result(edge) == <<"result", edge>>

\* Mutant of WithOutput: a concept keeps its name when a second transformation makes it.
WithOutputShared(b, raw, id) == id

\* _edge_outputs, one declared output: a second producer gets a concept of its own, and every
\* later reader is pointed at it.
WithOutput(b, raw, id) == IF id \in DOMAIN b.producer THEN Renamed(id, raw.id) ELSE id

EdgeOutputs(b, raw) ==
  IF raw.outs = <<>> THEN <<Result(raw.id)>>
  ELSE Distinct(Mapped(LAMBDA id : WithOutput(b, raw, id), raw.outs))

\* What an edge names is declared by it, unless it is known.
Declaring(c, ids, concept) ==
  LET new == Distinct(Kept(ids, LAMBDA id : id \notin Ids(c)))
  IN [c EXCEPT !.node = [id \in Ids(c) \cup ToSet(new) |-> IF id \in Ids(c) THEN c.node[id] ELSE concept],
               !.pool = @ \o new]
WithOutputs(b, raw, role) ==
  LET again == {id \in ToSet(raw.outs) : WithOutput(b, raw, id) # id}
      named == IF raw.outs = <<>> THEN EdgeOutputs(b, raw)
               ELSE FlattenSeq(Mapped(LAMBDA id : <<id, WithOutput(b, raw, id)>>, raw.outs))
      declared == Declaring(b, named, Synthesized(raw.t, role))
  IN [b EXCEPT !.node = declared.node, !.pool = declared.pool,
               !.alias = [id \in DOMAIN @ \cup again |->
                            IF id \in again THEN WithOutput(b, raw, id) ELSE b.alias[id]]]

\* _build_edges, one turn of its loop. What a MATCH_OPTIONS reads is the answer it wanted.
WithEdge(b, raw, last) ==
  LET ins == ResolvedAll(b, raw.ins)
      outs == EdgeOutputs(b, raw)
      Via(c) == IF ResolvedAll(c, raw.via) = <<>> THEN raw.via ELSE ResolvedAll(c, raw.via)
      Making(c) ==
        [c EXCEPT !.factors = @ \cup raw.factors,
                  !.edges = Append(@, [id |-> raw.id, t |-> raw.t, ins |-> ins, outs |-> outs,
                                       factors |-> raw.factors, via |-> Via(c), role |-> raw.role]),
                  !.producer = [id \in DOMAIN @ \cup ToSet(outs) |->
                                  IF id \in ToSet(outs) THEN raw.id ELSE c.producer[id]]]
  IN IF raw.t = "MATCH_OPTIONS" THEN [b EXCEPT !.promoted = @ \cup ToSet(ins)]
     ELSE Making(WithOutputs(b, raw, IF last THEN "measure" ELSE "support"))

\* _reroll.
WithRole(b, ids, role) ==
  [b EXCEPT !.node = [i \in DOMAIN b.node |-> IF i \in ids THEN [b.node[i] EXCEPT !.role = role]
                                              ELSE b.node[i]]]

\* plan_to_geoflow of the older wire format, in which a step names the steps it reads. What a
\* step makes unnamed has a text: the "<transformation> result" of its own id. A concept that a
\* step declares has the role the planner gave the step.
StepResult(t, role) == [Synthesized(t, role) EXCEPT !.named = TRUE]
StepReads(b, name) ==
  CASE name \in EdgeIds(b) -> EdgeOf(b, name).outs
    [] name \notin EdgeIds(b) /\ name \in DOMAIN b.node -> <<name>>
    [] OTHER -> <<>>
StepRole(raw, last) ==
  IF raw.role # Unsaid THEN raw.role ELSE IF last THEN "measure" ELSE "support"
WithStepShaped(b, raw, last) ==
  LET role == StepRole(raw, last)
      result == Result(raw.id)
      declared == IF raw.outs = <<>> THEN Added(b, result, StepResult(raw.t, role))
                  ELSE Declaring(b, raw.outs, Synthesized(raw.t, role))
      known == b.factors \cup raw.factors
      edge == [id |-> raw.id, t |-> raw.t, outs |-> IF raw.outs = <<>> THEN <<result>> ELSE raw.outs,
               ins |-> Distinct(FlattenSeq(Mapped(LAMBDA name : StepReads(b, name), raw.ins))),
               via |-> raw.via, role |-> raw.role,
               factors |-> raw.factors \cup {f \in known : f[1] \in FactorsOf(raw.t)}]
  IN IF raw.t = "MATCH_OPTIONS"
     THEN WithRole(b, UNION {ToSet(StepReads(b, name)) : name \in ToSet(raw.ins) \cap EdgeIds(b)}, "measure")
     ELSE [b EXCEPT !.node = declared.node, !.pool = declared.pool, !.factors = known,
                    !.edges = Append(@, edge)]

\* The loop over what the planner wrote, in the one format or the other.
Built(draft, stepped) ==
  LET n == Len(draft.edges)
      Turn(b, i) == IF stepped THEN WithStepShaped(b, draft.edges[i], i = n)
                    ELSE WithEdge(b, draft.edges[i], i = n)
      after[i \in 0 .. n] == IF i = 0 THEN Builder(draft) ELSE Turn(after[i - 1], i)
  IN after[n]
Promoting(b) == WithRole(b, b.promoted, "measure")
EdgesBuilt(draft) == Promoting(Built(draft, FALSE))

-----------------------------------------------------------------------------
\* The completions, in the order build() applies them.

IsPlace(b, id) == b.node[id].core \in PlaceTypes

\* _resolve_the_places_nothing_resolved: one RESOLVE_PLACES in front, over every unproduced
\* place that a measure reads, and every unproduced location that a filter reads.
PlacesResolved(b) ==
  LET Wanted(e) == Kept(e.ins, LAMBDA id :
        /\ id \notin DOMAIN b.producer
        /\ \/ e.t \in Placed /\ IsPlace(b, id)
           \/ e.t = "FILTER" /\ b.node[id].core = "location")
      wanted == Distinct(FlattenSeq(Mapped(Wanted, b.edges)))
      unused == CHOOSE n \in 0..Len(b.edges) :
                  /\ <<"resolve_places", n>> \notin EdgeIds(b)
                  /\ \A m \in 0..(n - 1) : <<"resolve_places", m>> \in EdgeIds(b)
      edge == [id |-> <<"resolve_places", unused>>, t |-> "RESOLVE_PLACES", ins |-> wanted,
               outs |-> wanted, factors |-> {}, via |-> <<>>, role |-> Unsaid]
  IN IF wanted = <<>> THEN b
     ELSE [b EXCEPT !.edges = <<edge>> \o @,
                    !.producer = [i \in DOMAIN @ \cup ToSet(wanted) |->
                                    IF i \in ToSet(wanted) THEN edge.id ELSE b.producer[i]]]

\* _give_a_radius_filter_what_it_narrows: the first filter that holds none of it gets the
\* distances nothing reads, or, if none was measured, the located extent in front.
RadiusGiven(b) ==
  LET consumed == UNION {ToSet(e.ins) : e \in ToSet(b.edges)}
      Measured(e) == IF e.t = "DISTANCE_MEASURE"
                     THEN Kept(e.outs, LAMBDA id : id \notin consumed) ELSE <<>>
      unread == FlattenSeq(Mapped(Measured, b.edges))
      extents == Kept(b.pool, LAMBDA id : Contextual(b, id) /\ IsPlace(b, id))
      Locates(e) == e.t = "RESOLVE_PLACES" /\ extents[1] \in ToSet(e.ins)
      located == Kept(b.edges, Locates)
      anchor == IF located # <<>> THEN located[1].outs[1]
                ELSE IF extents[1] \in DOMAIN b.alias THEN b.alias[extents[1]] ELSE extents[1]
      given == IF unread # <<>> THEN unread ELSE <<anchor>>
      lacking == {i \in 1..Len(b.edges) :
                    b.edges[i].t = "FILTER" /\ ToSet(b.edges[i].ins) \cap ToSet(given) = {}}
      first == CHOOSE i \in lacking : \A j \in lacking : i <= j
      filled == IF unread # <<>> THEN b.edges[first].ins \o given ELSE given \o b.edges[first].ins
  IN IF \/ FactorTypes(b.factors) \cap RadiusFactors = {}
        \/ unread = <<>> /\ extents = <<>>
        \/ lacking = {}
     THEN b ELSE [b EXCEPT !.edges[first].ins = filled]

\* _read_the_second_route_as_the_one_with_a_stop: of two routes, the one that reads the places of
\* the other and more goes through what is more.
StopsRead(b) ==
  LET routes == {i \in 1..Len(b.edges) : b.edges[i].t = "ROUTE_MEASURE" /\ b.edges[i].via = <<>>}
      Places(i) == {id \in ToSet(b.edges[i].ins) : IsPlace(b, id)}
      Within(i) == {j \in routes \ {i} : Places(j) # {} /\ Places(j) \subseteq Places(i)
                                         /\ Places(j) # Places(i)}
      Direct(i) == CHOOSE j \in Within(i) : \A k \in Within(i) : j <= k
      Through(i) == Kept(b.edges[i].ins, LAMBDA id : id \in Places(i) \ Places(Direct(i)))
  IN [b EXCEPT !.edges = [i \in 1..Len(b.edges) |->
       IF i \in routes /\ Within(i) # {} THEN [b.edges[i] EXCEPT !.via = Through(i)] ELSE b.edges[i]]]

\* _retype_produced_concepts.
Retyped(b) ==
  LET Wrong(id) == \E e \in ToSet(b.edges) :
        /\ id \in ToSet(e.outs)
        /\ AcceptedOutputTypes(e.t) # {}
        /\ b.node[id].core \notin AcceptedOutputTypes(e.t)
      Maker(id) == CHOOSE e \in Producers(b, id) : TRUE
  IN [b EXCEPT !.node = [id \in DOMAIN b.node |->
       IF Wrong(id) THEN [b.node[id] EXCEPT !.core = OutputType[Maker(id).t]] ELSE b.node[id]]]

\* _propagate_roles: one pass over the transformations as they are listed.
RolesRaised(b) ==
  LET Ranks(role, e) == {RoleOrder[role[id]] : id \in {i \in ToSet(e.ins) : role[i] \in DOMAIN RoleOrder}}
      Raised(role, e) ==
        LET ranks == Ranks(role, e)
            top == CHOOSE r \in ranks : \A q \in ranks : q <= r
            most == CHOOSE r \in DOMAIN RoleOrder : RoleOrder[r] = top
        IN [id \in DOMAIN role |->
              IF ranks # {} /\ id \in ToSet(e.outs) /\ Inverted(most, role[id]) THEN most ELSE role[id]]
      after[i \in 0 .. Len(b.edges)] ==
        IF i = 0 THEN [id \in DOMAIN b.node |-> b.node[id].role] ELSE Raised(after[i - 1], b.edges[i])
  IN after[Len(b.edges)]
RolesPropagated(b) ==
  [b EXCEPT !.node = [id \in DOMAIN b.node |-> [b.node[id] EXCEPT !.role = RolesRaised(b)[id]]]]

\* _root_the_leaves_in_context: what no other transformation makes was given by the question.
LeavesRooted(b) ==
  LET Leaf(id) ==
        \E e \in ToSet(b.edges) :
          /\ id \in ToSet(e.ins)
          /\ id \in DOMAIN b.producer => b.producer[id] = e.id
  IN WithRole(b, {id \in DOMAIN b.node : Leaf(id) /\ ~Contextual(b, id)}, "extent")

\* _ensure_measure: an answer among what nothing reads, the last listed first.
MeasureEnsured(b) ==
  LET consumed == UNION {ToSet(e.ins) : e \in ToSet(b.edges)}
      Unread(i) == Kept(b.edges[i].outs, LAMBDA id : id \notin consumed)
      ends == {i \in 1..Len(b.edges) : Unread(i) # <<>>}
      last == CHOOSE i \in ends : \A j \in ends : j <= i
      answer == IF ends # {} THEN Unread(last)[1] ELSE b.edges[Len(b.edges)].outs[1]
  IN IF MeasureEdges(b) # {} THEN b ELSE WithRole(b, {answer}, "measure")

\* build. Empty is what the ValueError of a draft without a transformation leaves.
HasEdges(draft) == \E e \in ToSet(draft.edges) : e.t # "MATCH_OPTIONS"
Canonical(draft) ==
  WithImplicitConcepts(GraphOf(
    MeasureEnsured(LeavesRooted(RolesPropagated(Retyped(
      StopsRead(RadiusGiven(PlacesResolved(EdgesBuilt(draft))))))))))

-----------------------------------------------------------------------------
\* The older wire format is completed by the implied concepts alone.
FromSteps(draft) == WithImplicitConcepts(GraphOf(Built(draft, TRUE)))
=============================================================================
