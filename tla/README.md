# A verification development for K-MapEval

K-MapEval runs two map-question agents over a multiple-choice benchmark: a ReAct loop with map
tools, and Spatial-Agent, which drafts a concept graph, validates it, turns it into operator steps
and executes them. The map evidence comes from the Kakao APIs through a SQLite cache shared by all
workers; completions come from an OpenAI-compatible endpoint. What the program sells is a
*measurement*: one row per question, with the failure that explains a miss and the cost of the
answer. Most of what can go wrong in it is therefore not a crash. It is a row that is missing,
counted twice, rolled again, blamed on the wrong party or paid for and not counted.

This directory holds TLA+ modules translated from the source, TLC configurations that check them on
small instances, and TLAPS proofs for all values of the constants. Paths are relative to the
repository; `src/` below is its root, so `src/src/evaluator.py` is the package file `evaluator.py`.

## 1. Inventory

| Component | Source | State it keeps | Operations |
| --- | --- | --- | --- |
| Evaluator worker pool | `src/src/evaluator.py` | job queue, `ordered_results`, `worker_errors`, per question the attempt | `run`, `_run_parallel`, `worker`, `_run_single`, `_attempt_single`, `_failed_row` |
| Agent session | `src/main.py` 68-143 | one provider, client, registry and agent per worker thread | `create_agent_session` |
| Report and statistics | `src/src/evaluator.py` 423-680 | a JSON file per run, named by the UTC second | `_write_report`, `calculate_statistics`, `print_summary` |
| Map cache | `src/src/tools/cache.py` | tables `cache_entries` and `places` in one file | `get/set_places`, `get_place`, `store_places`, `get/set_route`, `clear_expired` |
| Kakao provider | `src/src/tools/kakao.py` | `_places`, the counters, one SQLite connection | `search_place`, `geocode`, `reverse_geocode`, `nearby_search`, `place_details`, `directions`, `dereference` |
| LLM client | `src/src/llm.py` | none between chats | `chat`, `_request_with_retries` |
| Agent contract | `src/src/agent/base.py` | `AgentResult` | `answer`, `find_provider_failure` |
| ReAct agent | `src/src/agent/react.py` | the conversation of one question | `answer`, `_one_action` |
| Spatial agent | `src/src/agent/spatial.py` | the drafted and repaired graph, results by step | `answer`, `_lenient_attempts`, `_factorize_validate_plan` |
| Concept graph and G1-G5 | `agent/concepts.py`, `agent/validation.py` | none | `plan_to_geoflow`, `validate_geoflow_graph` |
| Graph normalization | `agent/geoflow.py` | none | `normalize_and_validate_graph`, `_topological_sort` |
| Canonicalization | `agent/canonicalization.py` | the builder: producers, aliases, promoted concepts | `canonicalize_plan` |
| Factorization and semantics | `agent/factorization.py`, `agent/semantics.py` | the nodes emitted, fused and bound so far | `factorize_plan`, `resolve_operator`, `wire_arguments` |
| Grounding and hypergraph | `agent/spatial.py` 1640-2420, `agent/geoflow.py` | none | `_ground_graph_literals`, `factorize_geoflow` |
| Templates, retrieval, composition | `agent/templates.py`, `retrieval.py`, `composition.py` | a catalogue | similarity retrieval, prompts |
| Plan execution | `agent/spatial.py`, `agent/execution.py` | results by step | the step loop, `_resolve_references`, `_drop_subsumed_addends` |
| Tool registry | `src/src/tools/registry.py` | a call counter | `invoke`, batch geocoding, matrices, totals |
| Spatial operators | `src/src/tools/spatial.py` | none | narrowing, ranking, matching, amounts, tours |
| MCQ adapter and parsers | `mcq_adapter.py`, `parsing.py`, `agent/answering.py` | none | `select`, `parse_answer` |
| Query logs | `src/src/logging.py` | a file per question | `query_log` |
| Configuration, dataset, models | `config.py`, `dataset.py`, `models.py`, `tools/map.py` | none | validation of input |
| Dataset builders and audits | `src/data/` | none | offline scripts |

**Interaction.** The main thread fills a queue with all questions and one `None` per worker, starts
the threads and joins them. A thread builds its own session and then asks its agent one question
after another. The agent calls `llm.chat`, which sleeps and retries on the worker's own thread, and
`tools.invoke`, which turns every exception of a tool into an observation. Tools go to the worker's
own `KakaoMapProvider`. Spatial-Agent asks for one draft, turns it into operator steps in a chain of
pure passes (canonicalization, facts, canonicalization again, G1-G5, factorization, grounding, roles and
concepts, normalization), and hands the results of its steps to later ones by reference. Workers share the dataset, the results list, the SQLite file, the endpoint
and the output directory, and nothing else.

**What is hard here.** The interleaving of workers on the queue and on the cache file, where a
SELECT and the DELETE that follows it are two statements. Partial failure: a session that fails half
way, a worker that dies with a question in its hands, a failed page of a search, a step that fails
in a graph that goes on. Two nested retries with budgets (requests inside a chat, attempts at a
question), and the rule that an *earned* result is never asked for again. Time: expiry at a second's
granularity, read against a clock that moves while a statement waits for a lock. Bookkeeping
over early exits: what is counted when a chat raises. And, where nothing runs concurrently, a chain
of passes each of which renames, fuses, splits or reindexes what an earlier one wired: a reference,
an index or an order that was right when it was written and names something else when it is read.

**What makes each part correct.**

- *Pool*: one row per question, at its own index, never changed; a report only when it is whole; a
  worker that fails makes the run fail; no thread waits for ever; no earned result is re-rolled;
  what a session opened is closed, or its run ends as an error; the retries reported are those made.
- *Cache and provider*: nothing partial is cached; nothing older than its life is served; what is
  stored lives its life; an id given to the agent can be used for the whole session.
- *LLM client*: no request past the budget; a bounded chat; an end.
- *Agents*: exactly one explanation per miss, the right one; every completion paid for is counted;
  a conversation the endpoint accepts; budgets that bound what they say they bound; only accepted
  graphs run.
- *Graph order*: every step after its inputs, in role order, cyclic graphs refused and no other.
- *Planner*: a completed draft is refused for its own structure only; what read something still
  reads it after fusing and composing; indices and orders name the places they named; a drive passes
  its stop and reaches its ends; a stay is counted once; no step outranks what it is made of.
- *Map tools*: resolving a batch again loses no place; a tour is its legs, in its windows and budget;
  ranked places are measured by their own legs; totals count a leg once, and a failed leg or step
  never passes for a whole; an answer is the option that says it at the option's precision.
- *Operator graph*: what a step cites is there when it runs; nothing a Measure needs is dropped; the
  answer is read from the end of the plan; an accepted graph runs to the end.

The full list of hazards, each at its line and with the properties that cover it, is in
`PROJECT.json`.

## 2. Modules

```
Failures ── QuestionRow ──┬── BenchmarkRun        abstract: what a run promises
                          └── ReportStatistics ── Evaluator ── MCEvaluator, EvaluatorProofs
MapCache ── KakaoProvider ── MCKakaoProvider, KakaoProviderProofs
LLMClient ── SpatialAgentProofs
Failures ─┬─ BenchmarkAgent                       abstract: what answer() promises
          ├─ ReactAgent ── ReactAgentProofs
          └─ SpatialAgent ── SpatialAgentProofs
GraphOrder ── MCGraphOrder, PlanGraphProofs
PlanGraph ── MCPlanGraph, PlanGraphProofs
Lists ── ConceptGraph ── Canonicalizer ─┐
                         OperatorChoice ┴─ Factorization ── Grounding ── Hypergraph ── Planner
Planner ── MCPlanner
Planner, ListProofs ── PlannerProofs
Places ─┬─ PlaceResolver ───────────────┐
        ├─ Candidates ── OptionMatching ┤
        ├─ RouteTotals ─ PlanReferences ┼── MapTools ── MCMapTools, MapToolsProofs
        ├─ AnswerSelector ──────────────┤
           TourPlanner ─────────────────┘
```

### Failures, QuestionRow

The failure types as the rows spell them, and the row reduced to what the control reads: whose it
is, the failure, the name of the provider exception its message starts with (`is_transient_failure`
looks at nothing else of the message), the attempts and the calls the kept attempt made.

### Evaluator, implementing BenchmarkRun

| Model | Code |
| --- | --- |
| `head`, `JobAt`, `QueueEnd` | the `Queue` of `_run_parallel`. It is filled before a thread starts and never grows, so it is its contents by position and the position of its head |
| `pc`, `job`, `attempt`, `row` | a worker's place in `worker` and `_run_single`, and the locals it holds there |
| `held` | the parts of the session that are open: the provider's HTTP client and cache connection, and the LLM client |
| `raised` | an exception in flight in a worker, afterwards its entry in `worker_errors` |
| `results`, `outcome` | `ordered_results`, and what the main thread did after the join |
| `asked`, `withheld` | history: how often `answer()` ended for each question, and the questions an API once ended an attempt of. No guard reads them |
| `BuildProvider`, `BuildAgent`, `CloseLLM`, `CloseProvider` | the `try`/`finally` nest of the session, each able to raise. The provider is built before the `try`: a constructor that raises leaves open what it had opened (`kakao.py` 75-77), and a `cache.close()` that raises passes over the client's close (89-92) |
| `GetJob`, `AgentReturns`, `AgentRaises`, `Crash`, `Retry` | one iteration of the worker's loop. `AgentReturns` and `AgentRaises` are an attempt with the decision after it; `Crash` is an exception outside the attempt's `try` (`agent_input`, the correct option's text, `_failed_row`) |
| `Join` | the joins and the two `raise`s after them |

A run with one worker executes the same steps on the calling thread
(`_run_sequential`): there the exception propagates as itself instead of as a RuntimeError, and the
report is not written either way. `Settle` keeps one row per question as `_run_single` does: the row
of the last attempt.

`ReportStatistics` is what `calculate_statistics` says of the finished rows: the retried and
recovered ids, read when the run has reported. A row only carries what the last attempt wrote into it, so
`RetriesReported` compares those ids with the history: the questions counted as retried are the
questions `answer()` ended more than once for. `SessionsCloseOrFail` says what stays open: nothing but
what the provider's constructor or `close()` skipped by raising, and then the worker is recorded as
failed and the run is not reported.

`BenchmarkRun` has no worker: `Answer`, `Fail`, `Report`, `Abort` over `rows`. The mapping is
`rows <- results`, `failed <- (raised # {})`. That the rows of a run are *admissible* (their own
question's, at most `Retries + 1` attempts, transient only when no attempt was left) is in there.

### MapCache, KakaoProvider

An operator of `MapCache` is one SQL statement or one `with connection` transaction. The steps
*between* statements belong to `KakaoProvider`, whose actions are the statements and requests of a
worker's call in the order of the code: `Begin`, the references to resolve (`ResolveKnown` in
`_places`, else `SelectPlace` then `HitPlace` or `MissPlace`), `SelectEntry`, `HitEntry` and
`Restore` (`get_places` stores the list again), or `MissEntry`, the requests (`Answered`: a page, the
regional and then the nationwide query, or the only request; `RouteAnswered` for directions), `StoreEntry`, `StorePlaces`. `Raise`
ends a call anywhere, for a failed request or a locked database. `Restart` loses everything except
the file. A `Keys` member is an operation with canonical arguments; `Needs` are the references it
resolves first; `RouteKeys` are those of `directions`, whose payload is not a list of places.

A payload is abstracted to the ids it names, the second Kakao gave it (`born`) and whether it was
whole when it was stored. Rows never hold `born` in the code: it is what lets the model tell how old
an answer is. Coordinate literals resolve without the cache and are left out. `_record_cache_hit`
and `_normalize_places` both put places into `_places`; they are `Remember`.

### LLMClient

`chat` over ticks: `Served`, `Refused` (400, 413, 422), `Unserved` with the decision to sleep or to
give up, and `Wake`. The jitter is every pause between half and one and a half times the capped
exponential. `RequestTimeout` is taken as the bound on one request; the HTTP library's timeout is
per read, so an endpoint that trickles bytes could exceed it, and that is outside the model.

### BenchmarkAgent, ReactAgent, SpatialAgent

`BenchmarkAgent` is what the evaluator relies on: `answer()` ends once; an option and a failure
exclude each other; the map is blamed only if the trace holds a provider's failure; the agent's own
unreadable answer only if it does not; and a completion is counted in the step that pays for it, the
truncated one included. Both agents implement it (`AnswerSpec`).

`ReactAgent` keeps the conversation as a sequence of roles and call ids, `single` and `force` for the
two loops the surfaces select (`reference` is `single` without `force`, the others the reverse; the
other two combinations are constructor arguments the tests use). A text is an option, prose or empty,
which is all `parse_answer` tells apart here.

`SpatialAgent` abstracts a graph to the two verdicts `_factorize_validate_plan` can give it, with the
port's own rules and without, each "accepted", "refused" (a `ValueError`) or "raises" (anything else).
They are independent, as nothing in the code forces one from the other: normalization differs
between the passes. `Execute` runs every step whatever came of the ones before. `find_provider_failure`
is `ProviderFailed`: a step whose result holds a provider's exception. The search walks the whole
trace, texts of the model included; a completion that starts with an exception's name is ignored.

### GraphOrder

The queue discipline of `_topological_order` (G1, ranked by id) and of `_topological_sort` (the
executable graph, ranked by role priority and then position). `Rank` is injective as both keys are.
The ready list is a set because both sort it before each pop. A step that reads itself is in the model:
the validator drops such an edge before it counts, the normalizer does not and refuses the graph.

### PlanGraph

| Model | Code |
| --- | --- |
| `reads` | the names a step was drafted with: `depends_on` and the roots of the references in its arguments. The arguments never change afterwards |
| `depends`, `role`, `kept` | `depends_on`, `role` and the list of steps, which `normalize_and_validate_graph` rewrites |
| `Read`, `Refuse` | the loop over the raw steps; the refusals decided by operators, arguments, types and the concept graph, which are data here |
| `Relabel` | a Measure that is read becomes a support; without a Measure the terminals become one |
| `Wire` | names that are no step are dropped, a step left with none of its dependencies is refused, and so is an inverted role order |
| `Sort`, `Prune`, `Connect`, `Bind` | the first sort, one pass of `while True`, the two connectivity checks, the end of the function |
| `Run`, `Answer` | the loop of `SpatialAgent.answer` over the ordered steps |

Acyclicity is stated here (`Acyclic`: no set of steps that wait for one another) and found by a queue in
`GraphOrder`, where `RefusedIffCyclic` (of `PlanGraphProofs`) proves the two to be the same. `Run` takes a ready step of the
lowest role priority and leaves the tie between equal ones open, which the code breaks by position:
every order of the code is among those of the model. A name in `reads` may come from the arguments or
from `depends_on` alone; the properties hold for all of them, so the model does not tell them apart.
The result of a step is in `SpatialAgent` (failed or not) and in `PlanReferences` (its value).

### Lists, ConceptGraph, Canonicalizer

`Lists` has the list operations of the passes (`Mapped`, `Kept`, `Distinct`, `Total`) as functions of the list
instead of folds, so that what a pass does to a list of any length can be proved (`ListProofs`).

A concept graph is what the draft's JSON becomes: concepts with a core and a role, factors with the concepts
they cite (`source_concepts`), and edges that read and produce concepts and may have a role of their own
(`Unsaid` where the draft gives none; `geoflow_to_semantic_steps` keeps it for a step that makes no
measure). The roles in the drafts are those `ConceptNode` takes; a step of the older format that makes a
concept of any other is refused while it is read, before what is modelled here. `ConceptGraph` has the type tables, the concepts and factors a
transformation implies, the facts of the question attached before validation, and G1-G5 as one
`Verdict` in the order the rules are tried. `Canonicalizer` has one operator per method of
`_Canonicalizer`, each from builder to builder; the builder keeps what the object keeps (producers,
aliases, promoted answers). `Built` is the loop over the draft's edges, a turn per edge; `Canonical` completes
what it built, `FromSteps` is the older format. A draft in which two transformations have one id is
refused ("duplicate", `geoflow.py` 2513) where the code builds the graph.

### OperatorChoice, Factorization

`OperatorChoice` is `resolve_operator`: which operator performs a transformation, from the types,
operators and sets that feed it, its semantic factors and what the question states. `Factorization`
is the loop body of `factorize_semantic_graph` (`WithStep`): fuse into an earlier node, or resolve,
compose and wire a new one. The wiring is kept in full for places, stops, ends, matrices, tours and
candidates, since an index into another node's list is where it can go wrong. A node's arguments map
slots to references; the literals of a slot are left out until grounding.

### Grounding, Hypergraph, Planner

`Grounding` is `_ground_graph_literals` in its order: a search that becomes several, names repaired
and anchored, pairs, stops, trip facts (start, end, stays, budget, order), route counts, times. What the
question states is an input (`facts`): reading it off the text is `extract_facts`, not modelled.
`Hypergraph` is `factorize_geoflow`: roles raised to those of the dependencies, concepts emitted and
read. Of what a step depends on, emits and reads, only membership decides anything later, so these are
sets; the order that does decide, of the steps and of the analysis, is kept. `Planner` is one call of `_factorize_validate_plan`, a step per pass and one per turn of the
factorizing loop, with `stage` saying where it was refused. Its output is what `PlanGraph` starts from;
its verdict is the free verdict of `SpatialAgent`.

### Places, PlaceResolver, Candidates, OptionMatching, RouteTotals, TourPlanner

`Places` is geometry on a grid and names by what comparing them decides. `PlaceResolver` is the
registry's resolution: candidates by name and around an anchor, ranking, strict names, and the
reconciliation of a batch that landed apart. `Candidates` are the operators that narrow and rank,
`OptionMatching` the `match_*_options`, `RouteTotals` matrices, legs and amounts read off them,
`TourPlanner` `tsp_tw` with its exact search, its fallback and the walk of a stated order. The search
goes through all orders and keeps the first of the cheapest that fit; here that order is stated (`Best`:
no order that fits costs less, and of those that cost as much it comes first in `permutations()`).

### PlanReferences, AnswerSelector, MapTools

`PlanReferences` is what references resolve to during execution: items of results, failed markers, the
sources of a step and the addends that are dropped. An amount is the sequence of routed legs it
stands for, each known by the step and the item of its result that measured it, which is what tells a leg
counted twice from two legs of one length. `AnswerSelector` is
`MCQAdapter.select` with its precedence, over texts of atoms. `MapTools` calls all of them in the order
plans do: for a trip, for a choice between candidates, or as a plan of references whose total is then
read as an option. A result stays `<<>>` when its operator raised.

## 3. Runs

All runs complete; the sizes are distinct states.

| Run | Bounds | States | What it shows |
| --- | --- | --- | --- |
| `MCEvaluator` | 2 workers, 3 questions, 1 retry, no symmetry | 461,125 | claims, sessions, retries, the report, `RunSpec`, and `RunEnds` under fairness |
| `MCKakaoProvider` | 2 workers, 1 place, a search and a route key, TTL 1, lag 0, clock to 4, worker symmetry | 772,153 | freshness, no partial answer, ids stay usable |
| `MCKakaoLost` | 2 workers, 1 key, TTL 1, lag 1 | violation | `OnlyExpiredDeleted` |
| `MCLLMClient` | 5 attempts, backoff 1 capped at 4, budget 12, requests up to 5 ticks | 374 | budget, duration, end |
| `MCReactAgent` | 3 iterations, 2 call ids, up to 2 calls a response | 9,822 | conversation, contract, end |
| `MCGraphOrder` | every graph over 4 steps, cyclic ones and self-reading steps too | 151,804 | ranks, verdict |
| `MCSpatialAgent` | graphs of up to 3 steps | 7,552 | passes, refusals, contract, end |
| `MCPlanGraph` | every graph of 3 steps over all roles and one unknown name, step symmetry | 334,822 | citations, Measures, and by the deadlock check that an accepted graph runs to its end |
| `MCPlanner` | drafts of up to 5 edges over 3 places, under up to 16 statements of the question, some with roles the planner gave to concepts and steps or factors that cite concepts, strict and not | 181,472 | completion, dependencies, ends, tours, references, indices, stays, roles |
| `MCPlannerStop` | the two drafts of the docstring it quotes | violation | `StatedStopIsPassed` |
| `MCMapTools` | 6 places in two towns, batches of up to 4 names, every window, budget, end and order of a small set, plans of 4 steps, 1 failing leg, routes in multiples of 500 m and offers of lengths written to the metre and to the kilometre | 311,722 | resolution, tours, ranking, matching, totals, selection |
| `MCPlanTotal` | the plans of two single legs | violation | `OnlySourcesDropped` |

Why the bounds are enough. Two workers are what every race on the queue and on the file needs: each
is a pair of statements of one worker with a statement of another between. Three questions let
a worker take a second question while the other retries or has crashed with its own. One retry has
both sides of the attempt count. For the pool all of it is proved for every size as well. With TTL 1
and a clock to 4 a row is stored, hit, expired, read, deleted and stored again, and a place
passes through two lives; one place is enough since an expiry of one row reads no other. The lag of
the clock behind a statement that waits for the write lock is 0 in the passing run, which bounds it
to the product of two workers and two keys, and 1 in `MCKakaoLost`. In the chat the cap of the pause,
the budget and the attempt limit are each reached first in some behaviour. Three iterations and two call ids
give a first, a middle and a last response with distinct and with repeated ids. Four steps hold every
shape of a diamond, a chain, two components and cycles of one to four. Three steps with an unknown name give
a context, a middle and a Measure, a leftover beside a working pair, and a chain of leftovers; that
neither the order nor the pruning needs a fourth is what the proofs show.

The planner's drafts are products of the shapes its docstrings argue about (`MCPlanner`): places resolved
in one list, apart or with a search; a route, matrix or distance over some of them, with a stop or not, by
concept or by step; a reader of the result; chains that search, rank, select and reuse a name; trips with
a tour, a total or bare legs and a start or a finish to count; a place singled out and a kind to search
for. Three places are the least that tells the first, a middle and the last index apart. The town of
`MCMapTools` has a namesake next door that the provider lists first, two branches of one brand and two
places of a kind, and trips of three stops have a stop that is neither start nor end. Trips are ordered by
minutes and by metres; those by metres have no window to keep (`Never`), so their orders go through every
stop. A total is a multiple of 500 m, which lies on the half boundary of an option written to the
kilometre (1500 is both "1 km" and "2 km" to half a kilometre) and within none of some offers: no, one
and two options hold an amount, with and without one of them spelled in the wording.

`MCPlanner`, `MCMapTools` and their violations check no deadlock: a plan that is bound or refused, and a
question whose tools have answered or have nothing to run on, is where one call ends.

Bounds in the guards: `Lag` and `Horizon` (`KakaoProvider`), `MaxGraphSteps` (`SpatialAgent`),
`MaxFailures` (`MapTools`), `NQ`, `Retries`, `MaxSteps` and `MaxNodes` (the program's own),
`RequestTimeout`. The constants `Calls`, `Answers` and
`Exceptions` choose what an attempt may come to.

**Fairness.** `Evaluator`: weak fairness of each worker and of the join. Threads are scheduled; an
attempt returns, since a chat is bounded (`ChatTimeBounded`, `ChatEnds`), a tool's request has a
timeout and the agents' loops end (`AnswerEnds`). Nothing else is assumed: no queue item, no retry and
no success is promised. `LLMClient`, `ReactAgent` and `SpatialAgent`: weak fairness of the next step
of the one thread, with no fairness between outcomes, so an endpoint that always fails is a fair one.

**Mutants.** Each property has a mutated definition beside the one it replaces ("Mutant of ..."), the
plausible bug that breaks it: one stop mark for all workers, a job peeked at and then removed, a
provider not closed in a `finally` of its own, an expiry compared with `<`, pages of a failed search
kept, extra calls left in the message, a verdict that blames first, a consumer freed by any of its
predecessors, a lenient pass that starts at the draft, a pruning that keeps only what a Measure
reads, an answer that leaves before its attempts are counted, an output shared with its earlier maker, a tour over the wrong input's places, ends taken from
the first two places, a search renamed without its readers, stays added to a tour that has them, a
window tested in one direction, a role raised for one of its dependencies only, a leg read at the rank of its place, a missing leg that counts as none,
a failed marker read as a value, a tighter reading of a batch that loses a place.

**Disagreements found.** Three runs end in a violation of what a docstring, a test or the README says,
listed under "findings".

- `MCPlannerStop`: with the ends in one list and the stated stop in another, the drive is sent from the
  first end to the stop, through the stop, and never reaches the second end.
- `MCPlanTotal`: two legs of one matrix collapse to the first in a total.
- `MCKakaoLost`: a fresh row is deleted after a stale SELECT.

Others were met while translating. They have no run of their own; the models keep the code's behaviour,
and where a property above names an exception ("except", "as long as", "unless"), this is why.

*Run and cache.*
- `retry_recovered_ids` lists a question an API ended although the agent itself failed the attempt after
  that (473, against "Recovered ones carry a real result" at 495): such an id is among the recovered and
  among the failed. `RetriesReported` states what the list holds, not what the comment says of it.
- The cost columns of a question asked again are its last attempt's (`evaluator.py` 213 against the
  comment at 311).
- A provider whose constructor raises after `httpx.Client` was opened, or whose cache raises in `close()`,
  leaves that client open (`kakao.py` 75-77 and 89-92; no `try` is around the constructor, `main.py` 110).
  The run fails then, and the process ends with it: `SessionsCloseOrFail`.
- A place can be served up to two TTLs after Kakao answered it, since a hit stores the list's places
  again (`cache.py` 45 against `src/README.md` 74).
- `iteration_limit` is also the failure of a response with neither call nor text, at any step
  (`react.py` 151 against `evaluator.py` 29).
- A chat that raised is no reasoning step in `SpatialAgent` (`steps` against `asked`), while
  `ReactAgent` counts before it asks, so their `llm_calls` differ by one on a truncated completion whose
  tokens both count.

*Planner.*
- Completion adds the concepts edges and steps use, not those factors cite: a draft with a factor whose
  `source_concepts` nothing declares is refused, however it is completed (`validation.py` 57-62).
  `CompletionSuffices` leaves it that refusal.
- `_resolve_endpoints` is skipped once two geocode nodes exist anywhere in the plan (`semantics.py`
  1350-1361).
- A stop made by an edge that is no geocode is dropped without a word (1171-1176).
- A tour over a matrix with one whole input takes its nodes from the input, not from the matrix's
  origins (905-907): `TourMatchesMatrix` asks for two inputs.
- Canonicalization is not only additive (its docstring, 16-18): it renames, and a second pass may
  change what the first one left.
- A dependency on an edge listed later is dropped; a second RESOLVE of a place already located yields a
  geocode without names; the older step format geocodes texts such as "X result".
- `difference`, `calculate_proportion`, `aggregate_route_groups` and `filter_by_direction` without
  inputs end the question with an IndexError: the stage `index_error`.
- Stays, end and names of a trip follow the first geocode of more than two names, not the tour's own
  nodes; two geocodes of two names each give a tour no stays; an AGGREGATE between a tour and a start
  time hides that the tour's total holds the stays. `StaysCountedOnce` says when it is one.
- Two compared places replace any list of two names in question order; an anchor put first shifts
  the other indices when one reference reads past the list.

*Map tools.*
- `tsp_tw`'s fallback appends the fixed end without asking its window and reports the order as feasible
  (`tools/spatial.py` 1311-1324); its greedy search ignores the window of the start. The walk of a
  stated order leaves the start's stay out of the clock and still subtracts it from the travel.
- `sum_route_metrics` drops rows that failed and returns the total of the rest, while its comment
  (1582) has a total fail with its part.
- `sum_amounts` and `difference` asked for kilometres report them as `distance_m`.
- `_reconcile_batch` compares how many names were found, not which (`registry.py` 884-918, against "a
  tighter batch is not worth losing a place over" at 914): of three names, one that was found may be
  exchanged for another. `ReconcileNeverLoses` counts the names, and asks that none is lost only of
  batches of at most two, where the count decides it.
- The walk of a stated order asks the start neither for its window nor for the budget, while the search
  does: a trip that cannot begin is feasible when its order is stated and not when it is free.
  `FreedomNeverCostsMore` is about the trips that may begin.
- `match_options` does not leave the anchor out; the anchor's own search in a batch is not isolated from
  an exception; `nearest` by time pairs legs with the wrong places when the list was filtered after it
  was routed.
- `distance_matrix` drops the geocode rows that found nothing from a list of destinations
  (`_as_place_list_argument`, `registry.py` 190) and numbers the pairs it is left with; `nearest` looks a
  pair up by the candidate's "original index" (`tools/spatial.py` 2210), which counts those rows. Handed
  the same list, every candidate behind an unlocated one is ranked by the leg to another place, and the
  last is left out. `TimedLegIsItsOwn` and its theorem are about the candidates before it, in a list that
  was not narrowed since it was routed; without that condition the
  model violates it, and the two functions called one after the other show the same. An unlocated stop
  is also dropped from `directions`' waypoints: the drive goes without it.
- `MCQAdapter.select` finds "3곳" in "13곳입니다"; "알 수 없음" is selected although a step raised.

## 4. Proofs

| Module | Theorems |
| --- | --- |
| `EvaluatorProofs` | `TypeCorrect`, `QueueNeverStarves`, `ClaimsExclusive`, `NothingMissing`, `EarnedResultsKept`, `SessionsCloseOrAbort`, `RetriesAreReported`, `PoolImplementsRun` |
| `PlanGraphProofs` | of `GraphOrder`: `OrderTypeCorrect`, `InputsAlwaysFirst`, `NothingOrderedTwice`, `RefusedIffCyclic`, `RanksAreKept`; of `PlanGraph`: `PlanTypeCorrect`, `CitedAlwaysRun`, `PruningSettles`, `MeasuresAlwaysEnd`, `ExecutionNeverStuck` |
| `SpatialAgentProofs` | of `LLMClient`: `ChatTypeCorrect`, `BudgetStopsRequests`, `ChatNeverOverstays`, `RequestsAreCounted`; of `SpatialAgent`: `StagesTypeCorrect`, `OnlyAcceptedGraphsRun`, `RefusalsRunNothing`, `ChatsAreBounded`, `StagesImplementAgent` |
| `PlannerProofs` | `PlanIsSound`, `DependenciesHold`, `ToursMatchMatrices`, `GroundingKeepsReferences`, `IndicesNameTheirPlaces`, `RolesStayInOrder`, `CompletionIsEnough` |
| `KakaoProviderProofs` | `ProviderTypeCorrect`, `PartialAnswersNeverStored`, `ReturnedPlacesStayKnown`, `ServedEntriesAreFresh` |
| `ReactAgentProofs` | `LoopTypeCorrect`, `CallsAreAnswered`, `BudgetHolds`, `LoopImplementsAgent` |
| `ListProofs` | lemmas on the lists of `Lists`, for `PlannerProofs` |
| `MapToolsProofs` | `ReconcilingNeverLoses`, `PlacesSupportOneOption`, `RankedLegsAreTheirOwn`, `FailuresTravel`, `TotalsCountOnce`, `ToursServeWhileOpen`, `FreedomCostsNothing`, `ToursAreTheirLegs` |

Every assumption is one on constants, and TLC evaluates each in its runs. `RowAssumption`, `EvaluatorAssumption`,
`ClientAssumption`, `OrderAssumption` (of `GraphOrder`), `PlanAssumption` (of `PlanGraph`),
`SpatialAssumption`, `ProviderAssumption`, `CacheAssumption` and `AgentAssumption`: natural numbers, finite
non-empty sets of workers and steps, verdicts that are verdicts, an injective ranking, and that a row of the
cache is not mistaken for none (`RowsAreRecords`). For the planner and the map tools:

| Assumption | What it says | Why the code has it |
| --- | --- | --- |
| `QuestionsAssumption` | a draft lists its concepts, each a concept, and its transformations; an edge's id is a name and a number, which the ids composed from it are not; the kinds to search for are counted; the question's own factors cite no concept; what is part of a part of a name is part of the name | what `parse_plan` leaves of the JSON (`ConceptNode`, `TransformationEdge`); `grounding_factor_nodes` gives no `source_concepts`; `_is_shortened_name` compares substrings |
| `MaxStepsAssumption` | the limit on steps is a number | `MAX_REASONING_STEPS` |
| `PlacesAssumption`, `OrderAssumption`, `RouteAssumption` | coordinates are numbers, the provider's list has places, routed metres and seconds are natural | the payloads `kakao.py` normalizes |
| `BatchAssumption` | a batch names at least one place | `min_length=1` (`registry.py` 430) |
| `PlanAssumption` (of `MapTools`) | a step reads earlier steps, and a total reads some | the topological sort and its checks (`geoflow.py` 2685, 2723, 3115) |
| `ItineraryAssumption` | windows, stays and budgets are numbers | `float()` in `tsp_tw` |
| `SearchAssumption` | the options are a list | the request's schema |

*The pool.* `NoWorkerStarves` is not inductive. What makes it so is a count (`StopMarks`): past the
last question, the stop marks handed out are as many as the workers that took one, and such a worker
does not return for another. A worker at the queue has taken none, so at most `NumWorkers - 1` are
gone and a job is left (`JobLeft`). `Accounted` ties every question handed out to a row, to the
worker asking it, or to a worker that failed with it, and gives `NoRowMissing` and exclusivity;
`ControlOf` says per location what the worker holds; `RowsAdmissible` and `EndsLast` carry the
refinement. For `RetriesAreReported`, `Told` ties the history to what a worker and a row hold:
a question was asked as often as its row, or the worker that has it, counts attempts, and one that was
asked more than once had an attempt ended by an API. A run has reported only with a row for every question (`Whole`), so the
report reads the history off the rows. Each action has its own lemma, and `RunStep` maps it to a step of `BenchmarkRun` or to a
stutter.

*The chat.* The pause is weighed before it is slept, so `elapsed + delay < Budget` holds at every
sleep and `elapsed < Budget` at every later request; the end of the chat adds one request to that.

*The order.* The counts stand for the dependencies not yet placed (`Counts`), the ready list for the
steps that have none left (`ReadyNow`), and no member of a circular set is ever placed
(`CyclesOutside`). When nothing is ready, the steps left over are each waiting for another of them:
they are themselves the circular set that justifies the refusal.

*The operator graph.* What reads a leftover is a leftover (`LeftoversClosed`), so a kept step loses no
dependency to the pruning (`KeptReadsNoLeftover`), and a set that avoids the Measures among the steps
that stay, put together with the leftovers, avoids them in the whole graph: it was a leftover before
(`NoNewLeftovers`). With `Resolved`, a kept step depends on exactly the steps it cites, and an
acyclic rest always has a step to run.

*The stages.* `Validated`, `Waiting`, `Accepted` and `Counted` say per stage which verdicts led to it
and how many chats were asked for. `AgentStep` is the refinement, action by action.

*The cache and the provider.* Every row is whole and dies at most `Lag` seconds later than a life after Kakao
answered it (`RowsInv`, `LivesItsLife`): an answer is stored in the second it carries, and between two
statements of a worker at most `Lag` seconds pass (`Prompt`). A worker holds what its next statement reads
(`Placed`), and only whole answers are stored, places confirmed before they are handed out (`Confirmed`).
The theorem has every lag, life and number of workers, where the run has lag 0 and two workers.

*The loop.* `Conversation` pairs calls with observations, but for the calls of the response being executed;
`Budgeted` and `Spent` count the chats and the tools of a question, and `Undecided` says that nothing is
answered before the loop ends. The refinement is action by action.

*The map tools.* Their operators iterate over lists of any length, so most of this module is about the
operators. A recursive function is followed turn by turn: what holds of the list so far, for the
first n items, is a set of numbers with 0 and, with n, n + 1 (`UpTo`, `LoopRuns`). No induction over an
operator is needed for that, but folds, `SelectSeq`, `SetToSortSeq` and `@@` do not open this way, so the
operators that proofs go through are recursive functions or explicit ones. The invariants are small:
`Geocoded` (what was found is `_batch_geocode` of the batch), `ChoiceInv` (the rows of a choice are its
candidates' own legs, a ranking by time reads those of the list as it stands), `PlanInv` (each result
is what its step's sources make of it), `CountInv` (its legs were measured by the step or by what it was
computed from, and stand apart), `TripInv` (the matrix is one of measures, a tour is that of a trip
`tsp_tw` accepts, and so is its free version) and `DrivenInv` (the matrix is the square of some of the
stops with themselves, and every leg of it that a tour was read from was routed).
Matching is stable because each turn claims the strongest open pairing and opens none (`Settled`,
`ClaimSettles`), and ends because each adds an option (`ClaimGrows`). For tours, the clock of a walk agrees with
that of any walk it extends (`ClocksAgree`), so a walk that `Reaches` extends, stop by stop, is timely
at every stop (`Sound`); `Best` exists because the routes are finitely many and their order is total
(`RoutesAreFinite`, `EarlierIsTotal`, `Foremost`); and a stated order kept in full is one of the routes
of the free trip, on time in the search's terms (`WholeOrderIsRoute`), so the best costs no more. This
is false of trips that may not begin, which is how the difference between search and stated walk above was
found.

`ToursServeWhileOpen` is about trips whose start is open at once, and has no stay when the order is stated,
and about every stop but the end that the fallback forces: in the cases left out the code reports tours
that miss a window, as the list above says.

No leg is counted twice (`TotalsCountOnce`) because every leg is known by the step that measured it and its
place in that step's result: the addends that are kept come from steps none of which was computed from
another (`AddendsStandApart`), so what two of them share could only be a third thing, which the property
excludes, and lists that share nothing stay so when they are put in a row (`ConcatIsApart`,
`FlattenIsApart`). For `ToursAreTheirLegs` two accounts meet. Without waiting, the clock of a walk is what was
driven and what was spent at its stops (`ClockIsSum`), so taking the stays off a tour's time leaves the
drives. And the labels of a matrix are as many as the nodes only if its stops are as many, all found and
all of different names (`LabelsOfGrid`, `GridIsWhole`); then the one row between two labels is the cell at
their positions, which is where `select_legs` looks. Both need what they say: `TourIsItsLegs` is
about trips without waits whose stays are not negative, since `total_cost - service` counts a wait as
driving.

*The planner.* Its operators are the passes, so the proofs go pass by pass over lists of any length, and the
invariant (`IInv`) only says what one pass leaves for the next. `ShapeInv`: a graph stays a list of concepts
and a list of transformations. `PlanInv`: the plan is `Sound`, its nodes listed after what they read and
named apart, and every node is named after a transformation whose turn has been, so a name
made in this turn is new. `FollowedInv`: what an earlier transformation became is in the plan, and what a
later one became `Needs` it. A turn fuses, composes or wires, and each of these only adds nodes at the end
and never takes a dependency away (`Grown`, `NeedsGrow`, `NeedsThrough`), which is why a dependency survives
any number of them. `GroundedInv`: what is grounded is `GroundedGraph` of the plan; its passes rename,
split and restate nodes, and each keeps the list in order (`InOrder`): a node that became several is
replaced, where it stood, by searches and the merge that carries its name.

Roles (`RolesStayInOrder`) need three things. One pass over the steps in their order settles all of them, since
what a step depends on is listed before it; that a first step has no dependency and a last one no
reader keeps the ends out of it. What a step emits then has its role, or is a context or a measure it shares with
others (`RoleFits`): turn by turn, a concept is given a role only by a step that emits it. And the factors are
lowered to their reader's role. What is left is one measure named by a step in the middle and shared
with a last step that has no other: there the concept outranks what is made of it, and the property says so.
The antecedent on names is needed as well: `derived_<step>` (`geoflow.py` 1793) is not checked against the
concepts of the draft, and a draft that has that name shares it.

Completion (`CompletionIsEnough`) runs twice, around the factors of the question, and the invariant
(`CompletedInv`) says what each run leaves. A name that completion makes up carries the transformation it is
for (`Signed`), so a second producer's concept is new however often its name was taken; an implied concept
is made by the first of the transformations that imply it, or by none (`Reserved`). With both, no pass of
`_build_edges` gives one name two makers (`Once`), and what an edge reads or makes is declared when the edge
is added and never removed (`Known`). After the first run all that is implied is made (`Provided`), so the
second one adds nothing that its typing pass would miss: its outputs have types their makers produce
(`Typed`), and the last transformation answers. `Done` puts these together, and `DoneIsAccepted` reads
`Verdict` off it rule by rule. The theorem is about drafts whose names are the planner's own
(`NamesItsOwn`), and a refusal for a name is left to a factor the planner wrote that cites a concept
nothing declares (`Cited`, `Written`): factors are carried along and never completed. As to names,
completion looks for the names it makes up (`result_<edge>`, `<concept>__<edge>`, the
implied concepts) among the concepts and takes what it finds, so a draft that gives such a name to
another transformation's output may be refused. The drafts of the run do not; some of them cite an
undeclared concept.

Some theorems state what a run checked in an earlier form and what a proof now covers for all sizes: the
types, `NoWorkerStarves`, `NoRowMissing`, `RequestsCounted`, `InputsComeFirst`, `OrderedOnce`,
`ChatsBounded` and `OnePassPrunes`. They are no longer properties of a run.

Only model-checked:

- Liveness (`RunEnds`, `ChatEnds`, `AnswerEnds`): fairness and ENABLED are out of the prover's reach.
- `EndsAreNotStops`: it depends on how the places of a drive are listed in the drafts of the run;
  `StatedStopIsPassed` is its general form, and is false.
- `StaysCountedOnce`: sums over folds of a plan, in the cases the property names.
- `SelectionIsRounding`: an option's text is read by filters over sequences of atoms.

No module has a RECURSIVE operator.

## 5. Not modelled, and the plan

Left out for good:

- Phrase tables, prompts, templates and similarity scores: data. `extract_facts` and the other readers of
  the question's text in `geoflow.py` and `spatial.py` decide what a question states; here that is an input.
- The static checks of argument values before a plan runs (`_validate_statically_known_*`), the argument
  schemas of the tools and the wording of their observations.
- The sums, accuracies and breakdowns of the statistics, report files, query logs, printing, the command
  line and the configuration. Two passes that end in one UTC second write one report file; a file per run
  is a matter of its name, and no module has it.
- The benchmark builders and audits of `src/data/`: offline scripts.
- Sampling by the model and the content of a page: free choices.

Hazards without a property: which of several provider failures of a trace decides about asking again
(`find_provider_failure`, listed); the age of a dereferenced place, which no line of the repository
bounds; reports named by the second; a read timeout that a trickling endpoint outlasts.

Next, most important first: that a verdict of "accepted" is G1-G5, with the cycle test of `ConceptGraph` by
`RefusedIffCyclic`; and of `SelectionIsRounding` the part that reads no text: an amount that rounds to one
option alone selects it.

## 6. Running

```
tlc -workers 2 -config MCEvaluator.cfg MCEvaluator
tlapm EvaluatorProofs.tla
```

A configuration names its module in `PROJECT.json`; `MCLLMClient`, `MCReactAgent` and `MCSpatialAgent`
instantiate `LLMClient`, `ReactAgent` and `SpatialAgent` directly, `MCPlannerStop` uses `MCPlanner`,
`MCPlanTotal` `MCMapTools` and `MCKakaoLost` `MCKakaoProvider`. `MCPlanner` and `MCMapTools` take one to
two minutes each, the proofs of `PlannerProofs` about fifteen and those of `MapToolsProofs` about seven.
