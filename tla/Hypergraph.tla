----------------------------- MODULE Hypergraph -----------------------------
(***************************************************************************)
(* The operator-concept hypergraph of a grounded plan (factorize_geoflow):  *)
(* each step gets a role its inputs cannot outrank, the concepts it emits,  *)
(* and the concepts it reads, among them the factors nothing emits.         *)
(*                                                                         *)
(* An analysis is [pool, node] like a graph's. A bound graph has            *)
(*   steps   the plan; step and deps, the role and dependencies of each     *)
(*   role    the role of each concept                                       *)
(*   emits   the concepts of each step                                      *)
(*   factors the concepts each step reads and no step emits                 *)
(* Of what a step depends on, emits and reads, the order decides nothing.   *)
(***************************************************************************)
EXTENDS Grounding

\* _unique_id: the first name nothing has.
Unused(name, ids) ==
  <<name, CHOOSE n \in 0 .. Cardinality(ids) :
            <<name, n>> \notin ids /\ \A m \in 0 .. n - 1 : <<name, m>> \in ids>>
Derived(id) == <<"derived", id>>

\* _complete_analysis_roles: there is an extent, first, and a measure, last.
Completed(analysis) ==
  LET ids == ToSet(analysis.pool)
      Lacks(roles) == \A id \in ids : analysis.node[id].role \notin roles
      context == IF Lacks(ContextualRoles) THEN <<Unused("question_context", ids)>> ELSE <<>>
      answer == IF Lacks({"measure"}) THEN <<Unused("requested_answer", ids)>> ELSE <<>>
      Supplied(role) == [core |-> "object", role |-> role, implicit |-> FALSE, named |-> FALSE]
  IN [pool |-> context \o analysis.pool \o answer,
      node |-> [id \in ids \cup ToSet(context) \cup ToSet(answer) |->
                  CASE id \in ToSet(answer) -> Supplied("measure")
                    [] id \in ToSet(context) \ ToSet(answer) -> Supplied("extent")
                    [] OTHER -> analysis.node[id]]]

\* What each step depends on, by its declaration and by what it reads, and the ends of the plan.
IdsIn(G) == {n.id : n \in ToSet(G)}
StepIn(G, id) == CHOOSE n \in ToSet(G) : n.id = id
Wiring(G) ==
  LET Read(n) == ToSet(n.deps) \cup NodesRead(n.args)
      deps == [id \in IdsIn(G) |-> Read(StepIn(G, id)) \cap (IdsIn(G) \ {id})]
  IN [steps |-> G, deps |-> deps, sources |-> {id \in IdsIn(G) : deps[id] = {}},
      sinks |-> IdsIn(G) \ UNION {deps[id] : id \in IdsIn(G)}]

-----------------------------------------------------------------------------
\* Roles. What the planner declared is advice, and only in the middle of the plan.

TemporalOperators == {"calculate_finish_time", "calculate_start_time"}
SemanticRole ==
  [nearby_places |-> "sub_condition", within_radius |-> "sub_condition",
   merge_places |-> "condition", filter_by_direction |-> "support", distance_matrix |-> "support",
   filter_places |-> "condition", steps_analysis |-> "support", tsp_tw |-> "support"]
Middle(W, id) == id \notin W.sources \cup W.sinks
FactorizedRole(W, n) ==
  CASE n.id \in W.sources /\ n.op \in TemporalOperators -> "temporal_extent"
    [] n.id \in W.sources /\ n.op \notin TemporalOperators -> "extent"
    [] n.id \in W.sinks \ W.sources -> "measure"
    [] Middle(W, n.id) /\ n.op \in DOMAIN SemanticRole -> SemanticRole[n.op]
    [] OTHER -> IF n.role \in {"sub_condition", "condition"} THEN n.role ELSE "support"

\* The strongest of some roles by priority, if one of them has a priority.
Strongest(roles) ==
  {role \in roles \cap DOMAIN RoleOrder :
     \A other \in roles \cap DOMAIN RoleOrder : RoleOrder[other] <= RoleOrder[role]}

\* Mutant of Required: only one dependency counts.
RequiredOfOne(W, r, id) ==
  Strongest({r[d] : d \in {e \in W.deps[id] : e = CHOOSE one \in W.deps[id] : TRUE}})

\* What a step's dependencies require of its role.
Required(W, r, id) == Strongest({r[d] : d \in W.deps[id]})

\* A step between the ends is raised to the strongest role among its dependencies, and the steps
\* are gone over as often as there are steps.
RaisedStep(W, r, id) ==
  LET now == IF r[id] \in DOMAIN RoleOrder THEN RoleOrder[r[id]] ELSE 0 - 1
      stronger == {role \in Required(W, r, id) : RoleOrder[role] > now}
  IN IF Middle(W, id) /\ stronger # {} THEN [r EXCEPT ![id] = CHOOSE role \in stronger : TRUE] ELSE r
RaisedOnce(W, r) ==
  LET after[i \in 0 .. Len(W.steps)] ==
        IF i = 0 THEN r ELSE RaisedStep(W, after[i - 1], W.steps[i].id)
  IN after[Len(W.steps)]
RoleOf(W) ==
  LET declared == [id \in IdsIn(W.steps) |-> FactorizedRole(W, StepIn(W.steps, id))]
      after[k \in 0 .. Len(W.steps)] == IF k = 0 THEN declared ELSE RaisedOnce(W, after[k - 1])
  IN after[Len(W.steps)]

-----------------------------------------------------------------------------
\* Concepts. A step emits those it names, or those of its role that are left, or a context or a
\* measure that is shared, or one of its own.
EmittedIn(H) == UNION {H.emits[id] : id \in DOMAIN H.emits}
Having(analysis, roles) == Kept(analysis.pool, LAMBDA c : analysis.node[c].role \in roles)
Emits(H, W, role, id, named, analysis) ==
  LET own == (ToSet(named) \cap ToSet(analysis.pool)) \ EmittedIn(H)
      left == ToSet(Having(analysis, {role})) \ EmittedIn(H)
      shared == (IF id \in W.sources THEN Having(analysis, ContextualRoles) ELSE <<>>)
                \o (IF id \in W.sinks THEN Having(analysis, {"measure"}) ELSE <<>>)
  IN CASE own # {} -> own
       [] own = {} /\ left # {} -> left
       [] own = {} /\ left = {} /\ shared # <<>> -> {shared[1]}
       [] OTHER -> {Derived(id)}

\* They have its role from then on.
Emitting(H, id, role, concepts) ==
  [emits |-> Extended(H.emits, id, concepts),
   role |-> [c \in DOMAIN H.role \cup concepts |-> IF c \in concepts THEN role ELSE H.role[c]]]
ConceptsEmitted(W, roles, named, analysis) ==
  LET Turn(H, id) == Emitting(H, id, roles[id], Emits(H, W, roles[id], id, named[id], analysis))
      after[i \in 0 .. Len(W.steps)] ==
        IF i = 0 THEN [emits |-> <<>>,
                       role |-> [c \in ToSet(analysis.pool) |-> analysis.node[c].role]]
        ELSE Turn(after[i - 1], W.steps[i].id)
  IN after[Len(W.steps)]

\* A plan in which every last step is a source as well is ended with a measure of its own, which
\* emits the first measure.
MeasureOf(G, last) ==
  [id |-> Unused("measure", IdsIn(G)), op |-> "identity_measure", args |-> [value |-> <<<<last.id>>>>],
   names |-> <<>>, deps |-> <<last.id>>, type |-> "object", role |-> "measure", lit |-> <<>>]
Ending(W) ==
  IF W.sinks \subseteq W.sources THEN <<MeasureOf(W.steps, W.steps[Len(W.steps)])>> ELSE <<>>
Answering(H, ending, analysis) ==
  IF ending = <<>> THEN H
  ELSE [H EXCEPT !.emits = Extended(@, ending[1].id, {Having(analysis, {"measure"})[1]})]

\* What is left is a measure, which the last measure emits too, or a factor of the step that
\* fits it best (_select_factor_step). Texts name places, and depend on nothing.
Score(n, c, core, measure) ==
  (IF c \in ToSet(n.names) THEN 20 ELSE 0)
  + (IF core = "amount" /\ "radius" \in DOMAIN n.lit THEN 10 ELSE 0)
  + (IF core \in PlaceTypes /\ n.op \in {"place_search", "nearby_places", "filter_places",
                                         "batch_geocode", "batch_place_details"} THEN 4 ELSE 0)
  + (IF measure THEN 1 ELSE 0)
Consumer(G, roles, c, core) ==
  LET At(i) == Score(G[i], c, core, roles[G[i].id] = "measure")
  IN G[CHOOSE i \in DOMAIN G : \A j \in DOMAIN G : At(j) < At(i) \/ (At(j) = At(i) /\ i <= j)].id

\* A factor outranks the step that reads it no more.
FactorRole(role, reader) == IF Inverted(role, reader) THEN reader ELSE role
Consumed(H, steps, roles, analysis) ==
  LET ends == Kept(steps, LAMBDA n : roles[n.id] = "measure")
      last == ends[Len(ends)].id
      left == ToSet(analysis.pool) \ EmittedIn(H)
      measures == {c \in left : H.role[c] = "measure"}
      Reader(c) == Consumer(steps, roles, c, analysis.node[c].core)
  IN [emits |-> Extended(H.emits, last, H.emits[last] \cup measures),
      factors |-> [id \in IdsIn(steps) |-> {c \in left \ measures : Reader(c) = id}],
      role |-> [c \in DOMAIN H.role |->
                  IF c \in left \ measures THEN FactorRole(H.role[c], roles[Reader(c)]) ELSE H.role[c]]]

\* factorize_geoflow, for the concepts each node names.
BoundGraph(G, analysis, named) ==
  LET W == Wiring(G)
      raised == RoleOf(W)
      ending == Ending(W)
      steps == G \o ending
      roles == [id \in IdsIn(steps) |-> IF id \in IdsIn(G) THEN raised[id] ELSE "measure"]
      emitted == Answering(ConceptsEmitted(W, roles, named, analysis), ending, analysis)
      H == Consumed(emitted, steps, roles, analysis)
  IN [steps |-> steps, step |-> roles, deps |-> Wiring(steps).deps, role |-> H.role,
      emits |-> H.emits, factors |-> H.factors]

\* The concepts a step reads: what it depends on emits, and its factors.
ConceptsRead(H, id) == (UNION {H.emits[d] : d \in H.deps[id]}) \cup H.factors[id]
=============================================================================
