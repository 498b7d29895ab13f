----------------------------- MODULE Evaluator -----------------------------
(***************************************************************************)
(* The evaluator's worker pool: a job queue filled before the threads      *)
(* start and closed by one stop mark per worker, an agent session per      *)
(* worker, the question-level retry, and the main thread that joins the    *)
(* workers and either reports or raises. A run with one worker takes the   *)
(* same steps on the calling thread.                                       *)
(***************************************************************************)
EXTENDS ReportStatistics

CONSTANTS
  Workers,     \* the benchmark-worker threads
  Answers,     \* the verdicts an agent may return
  Exceptions,  \* the failure types of the exceptions it may raise instead
  Calls        \* the numbers of LLM calls an attempt may make

ASSUME EvaluatorAssumption ==
  /\ IsFiniteSet(Workers)
  /\ Workers # {}
  /\ Answers \subseteq Verdict
  /\ Exceptions \subseteq ChatFailures
  /\ Calls \subseteq Nat

VARIABLES
  head,      \* position of the next job jobs.get() hands out
  pc,        \* where each worker stands
  job,       \* the job each worker took last
  attempt,   \* which attempt at that question it is making
  row,       \* the row its previous attempt at that question came to
  held,      \* the parts of its session that were opened and whose close was not called since
  raised,    \* workers with an exception in flight, or recorded in worker_errors
  results,   \* ordered_results
  outcome,   \* the main thread: "running", then "reported" or "aborted"
  asked,     \* history: how many calls of answer() each question came to the end of
  withheld   \* history: the questions an API once ended an attempt of

\* The history variables are written where an attempt ends and are read by no guard.
history == <<asked, withheld>>
vars == <<head, pc, job, attempt, row, held, raised, results, outcome, history>>

Locations == {"building", "idle", "asking", "backoff", "closing_llm", "closing_provider",
              "done"}
ProviderParts == {"http", "cache"}
Session == ProviderParts \cup {"llm"}

NoJob == 0
Stop == -1
NumWorkers == Cardinality(Workers)

\* The queue never grows once the threads run, so it is its contents by position
\* and the position of its head: every question in order, then a stop mark each.
JobAt(k) == IF k <= NQ THEN k ELSE Stop

\* Mutant of QueueEnd: one stop mark for the whole pool.
OneStopMark == NQ + 1
QueueEnd == NQ + NumWorkers

TypeOK ==
  /\ head \in 1 .. (QueueEnd + 1)
  /\ pc \in [Workers -> Locations]
  /\ job \in [Workers -> Questions \cup {NoJob, Stop}]
  /\ attempt \in [Workers -> 1 .. (Retries + 1)]
  /\ row \in [Workers -> Verdict \cup {NoRow}]
  /\ held \in [Workers -> SUBSET Session]
  /\ raised \in SUBSET Workers
  /\ results \in [Questions -> Row \cup {NoRow}]
  /\ outcome \in {"running", "reported", "aborted"}
  /\ asked \in [Questions -> Nat]
  /\ withheld \in SUBSET Questions

Init ==
  /\ head = 1
  /\ pc = [w \in Workers |-> "building"]
  /\ job = [w \in Workers |-> NoJob]
  /\ attempt = [w \in Workers |-> 1]
  /\ row = [w \in Workers |-> NoRow]
  /\ held = [w \in Workers |-> {}]
  /\ raised = {}
  /\ results = [i \in Questions |-> NoRow]
  /\ outcome = "running"
  /\ asked = [i \in Questions |-> 0]
  /\ withheld = {}

Goto(w, l) == pc' = [pc EXCEPT ![w] = l]

----------------------------------------------------------------------------
(* The session: create_agent_session around the worker's loop.             *)

\* build_provider runs before the try: what its constructor opened before it raised
\* (the HTTP client, then the connection of the cache) nobody closes.
BuildProvider(w) ==
  /\ pc[w] = "building" /\ held[w] = {}
  /\ \/ /\ held' = [held EXCEPT ![w] = ProviderParts]
        /\ UNCHANGED <<pc, raised>>
     \/ /\ \E opened \in {{}, {"http"}, ProviderParts} : held' = [held EXCEPT ![w] = opened]
        /\ Goto(w, "done")
        /\ raised' = raised \cup {w}
  /\ UNCHANGED <<head, job, attempt, row, results, outcome, history>>

\* The client, then the registry and the agent over it. Any of them may raise.
BuildAgent(w) ==
  /\ pc[w] = "building" /\ held[w] = ProviderParts
  /\ \/ /\ held' = [held EXCEPT ![w] = Session]
        /\ Goto(w, "idle")
        /\ UNCHANGED raised
     \/ /\ held' = [held EXCEPT ![w] = Session]
        /\ Goto(w, "closing_llm")
        /\ raised' = raised \cup {w}
     \/ /\ Goto(w, "closing_provider")
        /\ raised' = raised \cup {w}
        /\ UNCHANGED held
  /\ UNCHANGED <<head, job, attempt, row, results, outcome, history>>

\* Mutant of CloseLLM: provider.close() is not in a finally of its own, and an
\* exception of llm.close() passes over it.
CloseLLMSkippingProvider(w) ==
  /\ pc[w] = "closing_llm"
  /\ held' = [held EXCEPT ![w] = @ \ {"llm"}]
  /\ \/ /\ Goto(w, "closing_provider")
        /\ UNCHANGED raised
     \/ /\ Goto(w, "done")
        /\ raised' = raised \cup {w}
  /\ UNCHANGED <<head, job, attempt, row, results, outcome, history>>

CloseLLM(w) ==
  /\ pc[w] = "closing_llm"
  /\ held' = [held EXCEPT ![w] = @ \ {"llm"}]
  /\ raised' \in {raised, raised \cup {w}}
  /\ Goto(w, "closing_provider")
  /\ UNCHANGED <<head, job, attempt, row, results, outcome, history>>

\* The cache first, then the client: a cache.close() that raises passes over the client.
CloseProvider(w) ==
  /\ pc[w] = "closing_provider"
  /\ \/ /\ held' = [held EXCEPT ![w] = @ \ ProviderParts]
        /\ raised' \in {raised, raised \cup {w}}
     \/ /\ held' = [held EXCEPT ![w] = @ \ {"cache"}]
        /\ raised' = raised \cup {w}
  /\ Goto(w, "done")
  /\ UNCHANGED <<head, job, attempt, row, results, outcome, history>>

----------------------------------------------------------------------------
(* The worker's loop.                                                      *)

\* Mutant of GetJob: the job is read and removed in two steps.
GetJobPeeking(w) ==
  /\ pc[w] = "idle"
  /\ head <= QueueEnd
  /\ head' \in {head, head + 1}
  /\ job' = [job EXCEPT ![w] = JobAt(head)]
  /\ IF JobAt(head) = Stop
     THEN Goto(w, "closing_llm") /\ UNCHANGED <<attempt, row>>
     ELSE /\ Goto(w, "asking")
          /\ attempt' = [attempt EXCEPT ![w] = 1]
          /\ row' = [row EXCEPT ![w] = NoRow]
  /\ UNCHANGED <<held, raised, results, outcome, history>>

GetJob(w) ==
  /\ pc[w] = "idle"
  /\ head <= QueueEnd
  /\ head' = head + 1
  /\ job' = [job EXCEPT ![w] = JobAt(head)]
  /\ IF JobAt(head) = Stop
     THEN Goto(w, "closing_llm") /\ UNCHANGED <<attempt, row>>
     ELSE /\ Goto(w, "asking")
          /\ attempt' = [attempt EXCEPT ![w] = 1]
          /\ row' = [row EXCEPT ![w] = NoRow]
  /\ UNCHANGED <<held, raised, results, outcome, history>>

\* Mutant of MayAskAgain: one attempt too few.
GivesUpEarly(w) == attempt[w] < Retries
MayAskAgain(w) == attempt[w] <= Retries

\* Mutant of Settle: an answer the agent earned leaves the loop before its attempts are
\* counted, and keeps the one attempt it was written with.
SettleEarnedUncounted(w, v, calls) ==
  IF IsTransient(v) /\ MayAskAgain(w)
  THEN /\ Goto(w, "backoff")
       /\ row' = [row EXCEPT ![w] = v]
       /\ UNCHANGED results
  ELSE /\ Goto(w, "idle")
       /\ results' = [results EXCEPT ![job[w]] =
                        [of |-> job[w], failure |-> v.failure, error |-> v.error,
                         attempts |-> IF IsTransient(v) THEN attempt[w] ELSE 1,
                         llm_calls |-> calls]]
       /\ UNCHANGED row

\* An attempt came to v: ask again after a pause, or keep the row.
Settle(w, v, calls) ==
  IF IsTransient(v) /\ MayAskAgain(w)
  THEN /\ Goto(w, "backoff")
       /\ row' = [row EXCEPT ![w] = v]
       /\ UNCHANGED results
  ELSE /\ Goto(w, "idle")
       /\ results' = [results EXCEPT ![job[w]] =
                        [of |-> job[w], failure |-> v.failure, error |-> v.error,
                         attempts |-> attempt[w], llm_calls |-> calls]]
       /\ UNCHANGED row

\* answer() was called, and the attempt came to v.
Recorded(w, v) ==
  /\ asked' = [asked EXCEPT ![job[w]] = @ + 1]
  /\ withheld' = IF IsTransient(v) THEN withheld \cup {job[w]} ELSE withheld

AgentReturns(w) ==
  /\ pc[w] = "asking"
  /\ \E v \in Answers, n \in Calls : Settle(w, v, n) /\ Recorded(w, v)
  /\ UNCHANGED <<head, job, attempt, held, raised, outcome>>

\* answer() raised: a failed row, which counts no call of the attempt.
AgentRaises(w) ==
  /\ pc[w] = "asking"
  /\ \E f \in Exceptions :
       LET v == [failure |-> f, error |-> "other"] IN Settle(w, v, 0) /\ Recorded(w, v)
  /\ UNCHANGED <<head, job, attempt, held, raised, outcome>>

\* An exception outside the attempt's try (agent_input, the correct option, the
\* failed row itself) leaves the with statement: the worker is gone with its job.
Crash(w) ==
  /\ pc[w] = "asking"
  /\ raised' = raised \cup {w}
  /\ Goto(w, "closing_llm")
  /\ UNCHANGED <<head, job, attempt, row, held, results, outcome, history>>

Retry(w) ==
  /\ pc[w] = "backoff"
  /\ attempt' = [attempt EXCEPT ![w] = @ + 1]
  /\ Goto(w, "asking")
  /\ UNCHANGED <<head, job, row, held, raised, results, outcome, history>>

----------------------------------------------------------------------------
(* The main thread joins every worker, then raises or writes the report.   *)
Missing == \E i \in Questions : results[i] = NoRow

Join ==
  /\ outcome = "running"
  /\ \A w \in Workers : pc[w] = "done"
  /\ outcome' = IF raised # {} \/ Missing THEN "aborted" ELSE "reported"
  /\ UNCHANGED <<head, pc, job, attempt, row, held, raised, results, history>>

Finished == outcome # "running" /\ UNCHANGED vars

Worker(w) ==
  \/ BuildProvider(w) \/ BuildAgent(w)
  \/ GetJob(w)
  \/ AgentReturns(w) \/ AgentRaises(w) \/ Crash(w) \/ Retry(w)
  \/ CloseLLM(w) \/ CloseProvider(w)

Next == (\E w \in Workers : Worker(w)) \/ Join \/ Finished

Spec == Init /\ [][Next]_vars

\* The threads are scheduled, every attempt returns or raises (step budgets bound
\* the agents, timeouts their calls) and join returns when the threads have ended.
Fairness == (\A w \in Workers : WF_vars(Worker(w))) /\ WF_vars(Join)
FairSpec == Spec /\ Fairness
----------------------------------------------------------------------------
(* Properties.                                                             *)

\* jobs.get() has no timeout: a worker that finds the queue empty hangs, and the
\* join with it. There is always a job left for a worker that asks for one,
\* whatever the others did and wherever they crashed.
NoWorkerStarves == \A w \in Workers : pc[w] = "idle" => head <= QueueEnd

\* No two workers ever took the same question, also after one of them crashed.
ExclusiveClaim ==
  \A w, x \in Workers : w # x /\ job[w] \in Questions => job[w] # job[x]

\* The "missing results" branch after the join is unreachable: a question has no
\* row at the end only if a worker is known to have failed.
NoRowMissing == (raised = {} /\ \A w \in Workers : pc[w] = "done") => ~Missing

\* A question is asked again only if the attempt before was ended by an API: a
\* result the agent earned is never rolled again.
EarnedResultKept ==
  \A w \in Workers :
    (pc[w] = "asking" /\ attempt[w] > 1) =>
      /\ row[w] # NoRow
      /\ \/ row[w].failure = "llm_unavailable"
         \/ /\ row[w].failure = "provider_failure"
            /\ row[w].error \in {"ProviderTimeoutError", "ProviderRateLimitError"}

\* However a worker ends (normally, by a crash, by a constructor or a close that raises),
\* its LLM client was told to close; once it had a job, so was its cache. What it leaves open is
\* at most what the provider's own constructor or close skipped by raising, which is
\* recorded against the worker: a run that is reported left nothing open.
SessionsCloseOrFail ==
  \A w \in Workers : pc[w] = "done" =>
    /\ "llm" \notin held[w]
    /\ job[w] # NoJob => held[w] \subseteq {"http"}
    /\ held[w] # {} => w \in raised /\ outcome # "reported"

\* A report tells what happened: the ids it counts as retried are the questions answer() was
\* called for more than once, the recovered ones are those an API ended an attempt of and not
\* the last, and every other question an API ended an attempt of was asked until no attempt
\* was left (calculate_statistics over the rows _run_single counted).
RetriesReported ==
  outcome = "reported" =>
    /\ RetriedIds(results) = {i \in Questions : asked[i] > 1}
    /\ RecoveredIds(results) = {i \in withheld : ~IsTransient(results[i])}
    /\ \A i \in withheld \ RecoveredIds(results) : asked[i] = Retries + 1

\* The pool implements the run it is a parallel version of.
Run == INSTANCE BenchmarkRun WITH rows <- results, failed <- (raised # {})
RunSpec == Run!Spec

\* The run always ends in a report or an error.
RunEnds == <>(outcome # "running")

=============================================================================
