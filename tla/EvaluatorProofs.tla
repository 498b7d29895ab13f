-------------------------- MODULE EvaluatorProofs --------------------------
(***************************************************************************)
(* The worker pool is correct for any number of questions, workers and     *)
(* retries. The invariant counts the stop marks taken against the workers  *)
(* that took one and ties every question taken to a row or a worker.       *)
(***************************************************************************)
EXTENDS Evaluator, FiniteSetTheorems, TLAPS

Stopped == {w \in Workers : job[w] = Stop}
Working(w) == pc[w] \in {"asking", "backoff"}
Closing(w) == pc[w] \in {"closing_llm", "closing_provider", "done"}

\* A stop mark is taken once, by a worker that does not come back for a job.
StopMarks ==
  /\ head <= NQ + 1 => Stopped = {}
  /\ head > NQ + 1 => Cardinality(Stopped) = head - 1 - NQ

\* What the location of a worker says of its job, its attempt and its exceptions.
ControlOf(w) ==
  /\ job[w] \in Questions => job[w] < head
  /\ pc[w] \in {"building", "idle"} => job[w] # Stop /\ w \notin raised
  /\ Working(w) => job[w] \in Questions /\ w \notin raised /\ results[job[w]] = NoRow
  /\ Closing(w) /\ w \notin raised => job[w] = Stop
  /\ pc[w] = "backoff" => attempt[w] <= Retries /\ row[w] # NoRow /\ IsTransient(row[w])
  /\ pc[w] = "asking" /\ attempt[w] > 1 => row[w] # NoRow /\ IsTransient(row[w])

Control == \A w \in Workers : ControlOf(w)

\* A question without a row is still queued, being asked, or lost with its worker.
Accounted ==
  \A i \in Questions :
    /\ i >= head => results[i] = NoRow
    /\ i < head /\ results[i] = NoRow =>
         \E w \in Workers : job[w] = i /\ (Working(w) \/ w \in raised)

RowsAdmissible == \A i \in Questions : results[i] # NoRow => Run!Admissible(i, results[i])

\* What the location of a worker says of what it still has open.
SessionOf(w) ==
  /\ pc[w] = "closing_provider" => held[w] \subseteq ProviderParts
  /\ pc[w] = "done" => /\ held[w] \subseteq ProviderParts
                       /\ job[w] # NoJob => held[w] \subseteq {"http"}
                       /\ held[w] # {} => w \in raised
  /\ pc[w] = "building" => job[w] = NoJob

SessionsClose == \A w \in Workers : SessionOf(w)

EndsLast == outcome # "running" => \A w \in Workers : pc[w] = "done"

Inv ==
  /\ TypeOK
  /\ StopMarks
  /\ Control
  /\ ExclusiveClaim
  /\ Accounted
  /\ RowsAdmissible
  /\ SessionsClose
  /\ EndsLast

----------------------------------------------------------------------------
\* The pool has a natural number of workers, at least one.
LEMMA NumWorkersType == NumWorkers \in Nat /\ NumWorkers > 0
BY EvaluatorAssumption, FS_CardinalityType, FS_EmptySet DEF NumWorkers

\* The queue has a last position.
LEMMA QueueEndType == QueueEnd \in Nat
BY NumWorkersType, RowAssumption DEF QueueEnd

\* Some worker has taken no stop mark as long as one worker still runs its loop,
\* so the queue still holds a job for it.
LEMMA JobLeft ==
  ASSUME TypeOK, StopMarks, NEW w \in Workers, job[w] # Stop
  PROVE  head <= QueueEnd
<1>1. Stopped \subseteq Workers \ {w}
  BY DEF Stopped
<1>2. IsFiniteSet(Workers \ {w}) /\ Cardinality(Workers \ {w}) = NumWorkers - 1
  BY EvaluatorAssumption, FS_RemoveElement DEF NumWorkers
<1>3. Cardinality(Stopped) <= NumWorkers - 1
  BY <1>1, <1>2, FS_Subset
<1>4. CASE head <= NQ + 1
  BY <1>4, NumWorkersType, RowAssumption DEF TypeOK, QueueEnd
<1>5. CASE head > NQ + 1
  BY <1>3, <1>5, NumWorkersType, RowAssumption DEF TypeOK, QueueEnd, StopMarks
<1>6. QED
  BY <1>4, <1>5, NumWorkersType, RowAssumption DEF TypeOK, QueueEnd

\* The verdict AgentRaises settles is one.
LEMMA RaisedIsVerdict ==
  ASSUME NEW f \in Exceptions
  PROVE  [failure |-> f, error |-> "other"] \in Verdict
BY EvaluatorAssumption DEF Verdict, FailureTypes, ErrorNames, ChatFailures

\* The invariant holds initially.
LEMMA InitInv == Init => Inv
<1> SUFFICES ASSUME Init PROVE Inv
  OBVIOUS
<1>1. TypeOK
  BY NumWorkersType, RowAssumption DEF Init, TypeOK, QueueEnd, Locations, Session, ProviderParts
<1>2. StopMarks /\ Control /\ ExclusiveClaim /\ Accounted
  BY RowAssumption, NumWorkersType
  DEF Init, StopMarks, Stopped, Control, ControlOf, ExclusiveClaim, Accounted, Working, Closing,
      Questions, NoJob, Stop
<1>3. RowsAdmissible /\ SessionsClose /\ EndsLast
  BY DEF Init, RowsAdmissible, SessionsClose, SessionOf, EndsLast
<1>4. QED
  BY <1>1, <1>2, <1>3 DEF Inv

\* Opening and closing a session change only locations, sessions and exceptions.
LEMMA TypeSession ==
  ASSUME TypeOK, NEW w \in Workers,
         BuildProvider(w) \/ BuildAgent(w) \/ CloseLLM(w) \/ CloseProvider(w)
  PROVE  TypeOK'
<1>1. pc' \in [Workers -> Locations]
  BY DEF TypeOK, BuildProvider, BuildAgent, CloseLLM, CloseProvider, Goto, Locations
<1>2. held' \in [Workers -> SUBSET Session]
  <2>1. CASE BuildProvider(w)
    <3>1. PICK opened \in SUBSET Session : held' = [held EXCEPT ![w] = opened]
      BY <2>1 DEF BuildProvider, Session, ProviderParts
    <3>2. QED
      BY <3>1 DEF TypeOK
  <2>2. CASE BuildAgent(w)
    BY <2>2 DEF TypeOK, BuildAgent, Session
  <2>3. CASE CloseLLM(w) \/ CloseProvider(w)
    <3>1. PICK closed \in SUBSET Session : held' = [held EXCEPT ![w] = held[w] \ closed]
      BY <2>3 DEF CloseLLM, CloseProvider, Session, ProviderParts
    <3>2. held[w] \ closed \in SUBSET Session
      BY DEF TypeOK
    <3>3. QED
      BY <3>1, <3>2 DEF TypeOK
  <2>4. QED
    BY <2>1, <2>2, <2>3
<1>3. raised' \in SUBSET Workers
  BY DEF TypeOK, BuildProvider, BuildAgent, CloseLLM, CloseProvider
<1>4. UNCHANGED <<head, job, attempt, row, results, outcome, asked, withheld>>
  BY DEF BuildProvider, BuildAgent, CloseLLM, CloseProvider, history
<1>5. QED
  BY <1>1, <1>2, <1>3, <1>4 DEF TypeOK

\* Taking a job keeps the types.
LEMMA TypeGetJob ==
  ASSUME TypeOK, NEW w \in Workers, GetJob(w)
  PROVE  TypeOK'
<1>1. head \in 1 .. QueueEnd /\ head' = head + 1
  <2>1. head \in 1 .. (QueueEnd + 1)
    BY DEF TypeOK
  <2>2. head <= QueueEnd /\ head' = head + 1
    BY DEF GetJob
  <2>3. QED
    BY <2>1, <2>2, QueueEndType
<1>2. head' \in 1 .. (QueueEnd + 1)
  BY <1>1, QueueEndType
<1>3. JobAt(head) \in Questions \cup {NoJob, Stop}
  BY <1>1, RowAssumption, NumWorkersType DEF JobAt, Questions, QueueEnd
<1>4. job' \in [Workers -> Questions \cup {NoJob, Stop}]
  BY <1>3 DEF TypeOK, GetJob
<1>5. pc' \in [Workers -> Locations]
  BY DEF TypeOK, GetJob, Goto, Locations
<1>6. attempt' \in [Workers -> 1 .. (Retries + 1)]
  <2>1. attempt \in [Workers -> 1 .. (Retries + 1)] /\ 1 \in 1 .. (Retries + 1)
    BY RowAssumption DEF TypeOK
  <2>2. attempt' = attempt \/ attempt' = [attempt EXCEPT ![w] = 1]
    BY DEF GetJob
  <2>3. QED
    BY <2>1, <2>2
<1>7. row' \in [Workers -> Verdict \cup {NoRow}]
  BY DEF TypeOK, GetJob
<1>8. UNCHANGED <<held, raised, results, outcome, asked, withheld>>
  BY DEF GetJob, history
<1>9. QED
  BY <1>2, <1>4, <1>5, <1>6, <1>7, <1>8 DEF TypeOK

\* An attempt ends, whichever way.
AttemptEnds(w, v, n) ==
  /\ pc[w] = "asking"
  /\ Settle(w, v, n)
  /\ Recorded(w, v)
  /\ UNCHANGED <<head, job, attempt, held, raised, outcome>>

\* The end of an attempt keeps the types.
LEMMA TypeAttemptEnds ==
  ASSUME TypeOK, Control, NEW w \in Workers, NEW v \in Verdict, NEW n \in Nat,
         AttemptEnds(w, v, n)
  PROVE  TypeOK'
<1>1. job[w] \in Questions /\ attempt[w] \in Nat
  BY RowAssumption DEF TypeOK, Control, ControlOf, Working, AttemptEnds
<1>2. [of |-> job[w], failure |-> v.failure, error |-> v.error,
       attempts |-> attempt[w], llm_calls |-> n] \in Row
  BY <1>1 DEF Row, Verdict
<1>3. pc' \in [Workers -> Locations]
  BY DEF TypeOK, AttemptEnds, Settle, Goto, Locations
<1>4. row' \in [Workers -> Verdict \cup {NoRow}]
  BY DEF TypeOK, AttemptEnds, Settle
<1>5. results' \in [Questions -> Row \cup {NoRow}]
  BY <1>1, <1>2 DEF TypeOK, AttemptEnds, Settle
<1>6. asked' \in [Questions -> Nat] /\ withheld' \in SUBSET Questions
  <2>1. asked[job[w]] + 1 \in Nat
    BY <1>1 DEF TypeOK
  <2>2. QED
    BY <1>1, <2>1 DEF TypeOK, AttemptEnds, Recorded
<1>7. QED
  BY <1>3, <1>4, <1>5, <1>6 DEF TypeOK, AttemptEnds

\* The two actions of an attempt that ends settle a verdict.
LEMMA AttemptsEnd ==
  ASSUME NEW w \in Workers, AgentReturns(w) \/ AgentRaises(w)
  PROVE  \E v \in Verdict, n \in Nat : AttemptEnds(w, v, n)
<1>1. CASE AgentReturns(w)
  BY <1>1, EvaluatorAssumption DEF AgentReturns, AttemptEnds
<1>2. CASE AgentRaises(w)
  <2>1. PICK f \in Exceptions : /\ Settle(w, [failure |-> f, error |-> "other"], 0)
                                 /\ Recorded(w, [failure |-> f, error |-> "other"])
    BY <1>2 DEF AgentRaises
  <2>2. AttemptEnds(w, [failure |-> f, error |-> "other"], 0)
    BY <1>2, <2>1 DEF AgentRaises, AttemptEnds
  <2>3. QED
    BY <2>2, RaisedIsVerdict, EvaluatorAssumption
<1>3. QED
  BY <1>1, <1>2

\* A crash and a retry keep the types.
LEMMA TypeCrashRetry ==
  ASSUME TypeOK, Control, NEW w \in Workers, Crash(w) \/ Retry(w)
  PROVE  TypeOK'
<1>1. pc' \in [Workers -> Locations]
  BY DEF TypeOK, Crash, Retry, Goto, Locations
<1>2. attempt' \in [Workers -> 1 .. (Retries + 1)]
  <2>1. CASE Crash(w)
    BY <2>1 DEF TypeOK, Crash
  <2>2. CASE Retry(w)
    <3>1. attempt[w] \in 1 .. Retries
      BY <2>2, RowAssumption DEF TypeOK, Control, ControlOf, Retry
    <3>2. attempt[w] + 1 \in 1 .. (Retries + 1)
      BY <3>1, RowAssumption
    <3>3. QED
      BY <2>2, <3>2 DEF TypeOK, Retry
  <2>3. QED
    BY <2>1, <2>2
<1>3. raised' \in SUBSET Workers
  BY DEF TypeOK, Crash, Retry
<1>4. UNCHANGED <<head, job, row, held, results, outcome, asked, withheld>>
  BY DEF Crash, Retry, history
<1>5. QED
  BY <1>1, <1>2, <1>3, <1>4 DEF TypeOK

\* Every step keeps the types.
LEMMA TypeStep ==
  ASSUME TypeOK, Control, [Next]_vars
  PROVE  TypeOK'
<1>1. ASSUME NEW w \in Workers, Worker(w) PROVE TypeOK'
  BY <1>1, TypeSession, TypeGetJob, TypeAttemptEnds, AttemptsEnd, TypeCrashRetry DEF Worker
<1>2. CASE Join
  BY <1>2 DEF TypeOK, Join, history
<1>3. CASE UNCHANGED vars
  BY <1>3 DEF TypeOK, vars, history
<1>4. QED
  BY <1>1, <1>2, <1>3 DEF Next, Finished

----------------------------------------------------------------------------
\* A step that takes no job keeps the count of stop marks, and the claims.
LEMMA JobsUnchanged ==
  ASSUME StopMarks, ExclusiveClaim, UNCHANGED <<head, job>>
  PROVE  StopMarks' /\ ExclusiveClaim'
BY DEF StopMarks, Stopped, ExclusiveClaim

\* Opening or closing a part of a session: only the worker's location, its session
\* and its exception change.
LEMMA SessionStep ==
  ASSUME Inv, NEW w \in Workers,
         BuildProvider(w) \/ BuildAgent(w) \/ CloseLLM(w) \/ CloseProvider(w)
  PROVE  Inv'
<1>1. /\ UNCHANGED <<head, job, attempt, row, results, outcome>>
      /\ raised \subseteq raised' /\ raised' \subseteq raised \cup {w}
      /\ pc[w] \in {"building", "closing_llm", "closing_provider"}
  BY DEF BuildProvider, BuildAgent, CloseLLM, CloseProvider
<1>2. /\ \A x \in Workers : x # w => pc'[x] = pc[x]
      /\ \/ pc'[w] = "building" /\ pc[w] = "building" /\ UNCHANGED raised
         \/ pc'[w] = "idle" /\ pc[w] = "building" /\ UNCHANGED raised
         \/ Closing(w)' /\ pc[w] = "building" /\ w \in raised'
         \/ Closing(w)' /\ Closing(w)
  BY DEF Inv, TypeOK, BuildProvider, BuildAgent, CloseLLM, CloseProvider, Closing, Goto
<1>3. Control'
  BY <1>1, <1>2 DEF Inv, Control, ControlOf, Working, Closing
<1>4. Accounted'
  BY <1>1, <1>2 DEF Inv, Accounted, Working, Closing
<1>5. RowsAdmissible'
  BY <1>1 DEF Inv, RowsAdmissible
<1>6. SessionsClose'
  <2>1. ASSUME NEW x \in Workers, x # w PROVE SessionOf(x)'
    <3>1. pc'[x] = pc[x] /\ held'[x] = held[x]
      BY <2>1 DEF Inv, TypeOK, BuildProvider, BuildAgent, CloseLLM, CloseProvider, Goto
    <3>2. QED
      BY <1>1, <2>1, <3>1 DEF Inv, SessionsClose, SessionOf
  <2>2. SessionOf(w)'
    <3>1. CASE BuildProvider(w)
      BY <1>1, <3>1 DEF Inv, TypeOK, SessionsClose, SessionOf, BuildProvider, Goto, ProviderParts
    <3>2. CASE BuildAgent(w)
      BY <3>2 DEF Inv, TypeOK, BuildAgent, SessionOf, Goto, ProviderParts
    <3>3. CASE CloseLLM(w)
      <4>1. pc'[w] = "closing_provider" /\ held'[w] = held[w] \ {"llm"} /\ held[w] \subseteq Session
        BY <3>3 DEF Inv, TypeOK, CloseLLM, Goto
      <4>2. QED
        BY <4>1 DEF SessionOf, Session
    <3>4. CASE CloseProvider(w)
      <4>1. /\ pc'[w] = "done" /\ held[w] \subseteq ProviderParts
            /\ \/ held'[w] = held[w] \ ProviderParts
               \/ held'[w] = held[w] \ {"cache"} /\ w \in raised'
        BY <3>4 DEF Inv, TypeOK, SessionsClose, SessionOf, CloseProvider, Goto
      <4>2. QED
        BY <4>1 DEF SessionOf, ProviderParts
    <3>5. QED
      BY <3>1, <3>2, <3>3, <3>4
  <2>3. QED
    BY <2>1, <2>2 DEF SessionsClose
<1>7. EndsLast'
  BY <1>1 DEF Inv, EndsLast
<1>8. QED
  BY <1>1, <1>3, <1>4, <1>5, <1>6, <1>7, TypeSession, JobsUnchanged DEF Inv

\* Taking a job changes no session.
LEMMA SessionsOfOthers ==
  ASSUME Inv, NEW w \in Workers, GetJob(w)
  PROVE  SessionsClose'
<1>1. UNCHANGED <<held, raised>>
  BY DEF GetJob
<1>2. pc'[w] \in {"closing_llm", "asking"}
  BY DEF Inv, TypeOK, GetJob, Goto
<1>3. ASSUME NEW x \in Workers, x # w PROVE pc'[x] = pc[x] /\ job'[x] = job[x]
  BY <1>3 DEF Inv, TypeOK, GetJob, Goto
<1>4. QED
  BY <1>1, <1>2, <1>3 DEF Inv, SessionsClose, SessionOf

\* Taking a job: a question nobody has taken yet, or one more stop mark.
LEMMA GetJobStep ==
  ASSUME Inv, NEW w \in Workers, GetJob(w)
  PROVE  Inv'
<1>1. /\ pc[w] = "idle" /\ job[w] # Stop /\ w \notin raised
      /\ head \in Nat /\ head >= 1 /\ head' = head + 1
  <2>1. pc[w] = "idle" /\ head' = head + 1
    BY DEF GetJob
  <2>2. job[w] # Stop /\ w \notin raised
    BY <2>1 DEF Inv, Control, ControlOf
  <2>3. head \in Nat /\ head >= 1
    BY QueueEndType DEF Inv, TypeOK
  <2>4. QED
    BY <2>1, <2>2, <2>3
<1>2. job' = [job EXCEPT ![w] = JobAt(head)] /\ job \in [Workers -> Questions \cup {NoJob, Stop}]
  BY DEF Inv, TypeOK, GetJob
<1>3. CASE head <= NQ
  <2>1. JobAt(head) = head /\ head \in Questions /\ head # Stop /\ head # NoJob
    BY <1>1, <1>3 DEF JobAt, Questions, Stop, NoJob
  <2>2. results[head] = NoRow
    BY <1>1, <2>1 DEF Inv, Accounted
  <2>3. /\ pc' = [pc EXCEPT ![w] = "asking"] /\ attempt' = [attempt EXCEPT ![w] = 1]
        /\ row' = [row EXCEPT ![w] = NoRow]
        /\ UNCHANGED <<held, raised, results, outcome>>
    BY <2>1 DEF GetJob, Goto
  <2>4. StopMarks'
    BY <1>1, <1>2, <1>3, <2>1, RowAssumption DEF Inv, StopMarks, Stopped
  <2>5. ExclusiveClaim'
    BY <1>1, <1>2, <2>1 DEF Inv, Control, ControlOf, ExclusiveClaim, Questions
  <2>6. Control'
    <3>1. ASSUME NEW x \in Workers, x # w
          PROVE  pc'[x] = pc[x] /\ job'[x] = job[x] /\ attempt'[x] = attempt[x] /\ row'[x] = row[x]
      BY <1>2, <2>3, <3>1 DEF Inv, TypeOK
    <3>2. pc'[w] = "asking" /\ job'[w] = head /\ attempt'[w] = 1
      BY <1>2, <2>1, <2>3 DEF Inv, TypeOK
    <3>3. \A x \in Workers : job[x] \in Questions => job'[x] < head'
      BY <1>1, <3>1, <3>2 DEF Inv, Control, ControlOf, Questions
    <3>4. results'[head] = NoRow /\ head < head' /\ raised' = raised
      BY <1>1, <2>2, <2>3
    <3>5. ASSUME NEW x \in Workers, x # w PROVE ControlOf(x)'
      BY <2>3, <3>1, <3>3, <3>5 DEF Inv, Control, ControlOf, Working, Closing
    <3>6. ControlOf(w)'
      BY <1>1, <2>1, <3>2, <3>4 DEF ControlOf, Working, Closing
    <3>7. QED
      BY <3>5, <3>6 DEF Control
  <2>7. Accounted'
    BY <1>1, <1>2, <2>1, <2>3 DEF Inv, TypeOK, Accounted, Working, Questions
  <2>8. RowsAdmissible' /\ SessionsClose' /\ EndsLast'
    BY <1>1, <2>3, SessionsOfOthers DEF Inv, RowsAdmissible, EndsLast
  <2>9. QED
    BY <2>4, <2>5, <2>6, <2>7, <2>8, TypeGetJob DEF Inv
<1>4. CASE head > NQ
  <2>1. JobAt(head) = Stop /\ Stop \notin Questions
    BY <1>1, <1>4, RowAssumption DEF JobAt, Stop, Questions
  <2>2. /\ pc' = [pc EXCEPT ![w] = "closing_llm"]
        /\ UNCHANGED <<attempt, row, held, raised, results, outcome>>
    BY <2>1 DEF GetJob, Goto
  <2>3. StopMarks'
    <3>1. Stopped' = Stopped \cup {w} /\ w \notin Stopped
      BY <1>1, <1>2, <2>1 DEF Stopped
    <3>2. IsFiniteSet(Stopped)
      BY EvaluatorAssumption, FS_Subset DEF Stopped
    <3>3. Cardinality(Stopped') = Cardinality(Stopped) + 1
      BY <3>1, <3>2, FS_AddElement
    <3>4. Cardinality(Stopped) = head - 1 - NQ
      BY <1>1, <1>4, FS_EmptySet, RowAssumption DEF Inv, StopMarks
    <3>5. QED
      BY <1>1, <1>4, <3>3, <3>4, RowAssumption DEF StopMarks
  <2>4. ExclusiveClaim'
    BY <1>2, <2>1 DEF Inv, ExclusiveClaim
  <2>5. Control'
    <3>1. ASSUME NEW x \in Workers, x # w
          PROVE  pc'[x] = pc[x] /\ job'[x] = job[x]
      BY <1>2, <2>2, <3>1 DEF Inv, TypeOK
    <3>2. pc'[w] = "closing_llm" /\ job'[w] = Stop
      BY <1>2, <2>1, <2>2 DEF Inv, TypeOK
    <3>3. \A x \in Workers : job[x] \in Questions => job[x] < head'
      BY <1>1 DEF Inv, Control, ControlOf, Questions
    <3>4. QED
      BY <1>1, <2>1, <2>2, <3>1, <3>2, <3>3 DEF Inv, Control, ControlOf, Working, Closing
  <2>6. Accounted'
    <3>1. ASSUME NEW i \in Questions PROVE i < head /\ ~(i >= head) /\ i < head'
      BY <1>1, <1>4, RowAssumption DEF Questions
    <3>2. ASSUME NEW x \in Workers, x # w PROVE pc'[x] = pc[x] /\ job'[x] = job[x]
      BY <1>2, <2>2, <3>2 DEF Inv, TypeOK
    <3>3. ASSUME NEW i \in Questions, results'[i] = NoRow
          PROVE  \E x \in Workers : job'[x] = i /\ (Working(x)' \/ x \in raised')
      <4>1. PICK x \in Workers : job[x] = i /\ (Working(x) \/ x \in raised)
        BY <2>2, <3>1, <3>3 DEF Inv, Accounted
      <4>2. x # w
        BY <1>1, <4>1 DEF Working
      <4>3. QED
        BY <2>2, <3>2, <4>1, <4>2 DEF Working
    <3>4. ASSUME NEW i \in Questions PROVE ~(i >= head')
      BY <1>1, <3>1 DEF Questions
    <3>5. QED
      BY <3>3, <3>4 DEF Accounted
  <2>7. RowsAdmissible' /\ SessionsClose' /\ EndsLast'
    BY <1>1, <2>2, SessionsOfOthers DEF Inv, RowsAdmissible, EndsLast
  <2>8. QED
    BY <2>3, <2>4, <2>5, <2>6, <2>7, TypeGetJob DEF Inv
<1>5. QED
  BY <1>1, <1>3, <1>4, RowAssumption

\* An attempt ends: the worker pauses after a transient verdict with attempts left,
\* and otherwise the question gets its only row.
LEMMA AttemptEndsStep ==
  ASSUME Inv, NEW w \in Workers, NEW v \in Verdict, NEW n \in Nat,
         AttemptEnds(w, v, n)
  PROVE  Inv'
<1>1. /\ job[w] \in Questions /\ w \notin raised /\ results[job[w]] = NoRow
      /\ pc[w] = "asking"
  BY DEF Inv, Control, ControlOf, Working, AttemptEnds
<1>2. attempt[w] \in 1 .. (Retries + 1) /\ v # NoRow
  BY RowAssumption DEF Inv, TypeOK
<1>3. UNCHANGED <<head, job, attempt, held, raised, outcome>>
  BY DEF AttemptEnds
<1>4. CASE IsTransient(v) /\ MayAskAgain(w)
  <2>1. /\ pc' = [pc EXCEPT ![w] = "backoff"]
        /\ row' = [row EXCEPT ![w] = v]
        /\ UNCHANGED results
        /\ attempt[w] <= Retries
    BY <1>4 DEF AttemptEnds, Settle, MayAskAgain, Goto
  <2>2. Control'
    BY <1>1, <1>2, <1>3, <1>4, <2>1 DEF Inv, TypeOK, Control, ControlOf, Working, Closing
  <2>3. Accounted' /\ RowsAdmissible' /\ SessionsClose' /\ EndsLast'
    BY <1>1, <1>3, <2>1
    DEF Inv, TypeOK, Accounted, Working, RowsAdmissible, SessionsClose, SessionOf, EndsLast
  <2>4. QED
    BY <1>3, <2>2, <2>3, TypeAttemptEnds, JobsUnchanged DEF Inv
<1>5. CASE ~(IsTransient(v) /\ MayAskAgain(w))
  <2> DEFINE kept == [of |-> job[w], failure |-> v.failure, error |-> v.error,
                      attempts |-> attempt[w], llm_calls |-> n]
  <2>1. /\ pc' = [pc EXCEPT ![w] = "idle"]
        /\ results' = [results EXCEPT ![job[w]] = kept]
        /\ UNCHANGED row
    BY <1>5 DEF AttemptEnds, Settle, Goto
  <2>2. kept \in Row /\ kept # NoRow
    BY <1>1, <1>2, RowAssumption DEF Row, Verdict
  <2>3. Run!Admissible(job[w], kept)
    BY <1>1, <1>2, <1>5, RowAssumption
    DEF Run!Admissible, Run!IsTransient, IsTransient, MayAskAgain, Run!Infrastructure,
        Infrastructure, Run!Provider, Provider, Run!TransientErrors, TransientErrors
  <2>4. \A i \in Questions : results'[i] = IF i = job[w] THEN kept ELSE results[i]
    BY <1>1, <2>1 DEF Inv, TypeOK
  <2> HIDE DEF kept
  <2>5. Control'
    <3>1. ASSUME NEW x \in Workers, x # w
          PROVE  pc'[x] = pc[x] /\ (Working(x) => results'[job[x]] = results[job[x]])
      BY <1>1, <2>1, <2>4, <3>1 DEF Inv, TypeOK, Control, ControlOf, Working, ExclusiveClaim
    <3>2. pc'[w] = "idle" /\ job[w] # Stop
      BY <1>1, <2>1, RowAssumption DEF Inv, TypeOK, Questions, Stop
    <3>3. QED
      BY <1>1, <1>3, <2>1, <3>1, <3>2 DEF Inv, Control, ControlOf, Working, Closing
  <2>6. Accounted'
    <3>1. ASSUME NEW x \in Workers, x # w PROVE pc'[x] = pc[x]
      BY <2>1, <3>1 DEF Inv, TypeOK
    <3>2. job[w] < head
      BY <1>1 DEF Inv, Control, ControlOf
    <3>3. ASSUME NEW i \in Questions PROVE i >= head => i # job[w]
      BY <1>1, <3>2, QueueEndType DEF Inv, TypeOK, Questions
    <3>4. ASSUME NEW i \in Questions, i >= head PROVE results'[i] = NoRow
      BY <2>4, <3>3, <3>4 DEF Inv, Accounted
    <3>5. ASSUME NEW i \in Questions, i < head, results'[i] = NoRow
          PROVE  \E x \in Workers : job[x] = i /\ (Working(x)' \/ x \in raised)
      <4>1. results[i] = NoRow /\ i # job[w]
        BY <2>2, <2>4, <3>5
      <4>2. PICK x \in Workers : job[x] = i /\ (Working(x) \/ x \in raised)
        BY <3>5, <4>1 DEF Inv, Accounted
      <4>3. QED
        BY <3>1, <4>1, <4>2 DEF Working
    <3>6. QED
      BY <1>3, <3>4, <3>5 DEF Accounted
  <2>7. RowsAdmissible'
    BY <2>3, <2>4 DEF Inv, RowsAdmissible
  <2>8. SessionsClose' /\ EndsLast'
    BY <1>1, <1>3, <2>1 DEF Inv, TypeOK, SessionsClose, SessionOf, EndsLast
  <2>9. QED
    BY <1>3, <2>5, <2>6, <2>7, <2>8, TypeAttemptEnds, JobsUnchanged DEF Inv
<1>6. QED
  BY <1>4, <1>5

\* A crash leaves the question with a failed worker; a retry leaves it where it is.
LEMMA CrashRetryStep ==
  ASSUME Inv, NEW w \in Workers, Crash(w) \/ Retry(w)
  PROVE  Inv'
<1>1. UNCHANGED <<head, job, row, held, results, outcome>> /\ Working(w)
  BY DEF Crash, Retry, Working
<1>2. \A x \in Workers : x # w => pc'[x] = pc[x] /\ attempt'[x] = attempt[x]
  BY DEF Inv, TypeOK, Crash, Retry, Goto
<1>3. \/ pc'[w] = "closing_llm" /\ raised' = raised \cup {w}
      \/ pc[w] = "backoff" /\ pc'[w] = "asking" /\ UNCHANGED raised
  BY DEF Inv, TypeOK, Crash, Retry, Goto
<1>4. Control'
  BY <1>1, <1>2, <1>3 DEF Inv, Control, ControlOf, Working, Closing
<1>5. Accounted'
  <2>1. Working(w)' \/ w \in raised'
    BY <1>3 DEF Working
  <2>2. \A x \in Workers : Working(x) \/ x \in raised => Working(x)' \/ x \in raised'
    BY <1>2, <1>3, <2>1 DEF Working
  <2>3. QED
    BY <1>1, <2>2 DEF Inv, Accounted
<1>6. RowsAdmissible' /\ SessionsClose' /\ EndsLast'
  BY <1>1, <1>2, <1>3 DEF Inv, RowsAdmissible, SessionsClose, SessionOf, EndsLast, Working
<1>7. QED
  BY <1>1, <1>4, <1>5, <1>6, TypeCrashRetry, JobsUnchanged DEF Inv

\* A step of the main thread moves no worker.
LEMMA Unmoved ==
  ASSUME Inv, UNCHANGED <<head, pc, job, attempt, row, held, raised, results>>
  PROVE  StopMarks' /\ Control' /\ ExclusiveClaim' /\ Accounted' /\ RowsAdmissible' /\ SessionsClose'
<1>1. StopMarks' /\ ExclusiveClaim'
  BY JobsUnchanged DEF Inv
<1>2. Control'
  BY DEF Inv, Control, ControlOf, Working, Closing
<1>3. Accounted'
  BY DEF Inv, Accounted, Working
<1>4. RowsAdmissible' /\ SessionsClose'
  BY DEF Inv, RowsAdmissible, SessionsClose, SessionOf
<1>5. QED
  BY <1>1, <1>2, <1>3, <1>4

\* Every step keeps the invariant.
LEMMA NextInv ==
  ASSUME Inv, [Next]_vars
  PROVE  Inv'
<1>1. ASSUME NEW w \in Workers, Worker(w) PROVE Inv'
  BY <1>1, SessionStep, GetJobStep, AttemptsEnd, AttemptEndsStep, CrashRetryStep DEF Worker
<1>2. CASE Join
  <2>1. UNCHANGED <<head, pc, job, attempt, row, held, raised, results>>
    BY <1>2 DEF Join
  <2>2. EndsLast'
    BY <1>2, <2>1 DEF Join, EndsLast
  <2>3. QED
    BY <2>1, <2>2, TypeStep, Unmoved DEF Inv
<1>3. CASE UNCHANGED vars
  <2>1. EndsLast'
    BY <1>3 DEF vars, Inv, EndsLast
  <2>2. QED
    BY <1>3, <2>1, TypeStep, Unmoved DEF Inv, vars
<1>4. QED
  BY <1>1, <1>2, <1>3 DEF Next, Finished

\* The invariant is inductive, so it holds of every run.
LEMMA Invariance == Spec => []Inv
<1>1. Init => Inv
  BY InitInv
<1>2. Inv /\ [Next]_vars => Inv'
  BY NextInv
<1>3. QED
  BY <1>1, <1>2, PTL DEF Spec

----------------------------------------------------------------------------
\* Every variable of the pool keeps its type.
THEOREM TypeCorrect == Spec => []TypeOK
<1>1. Inv => TypeOK
  BY DEF Inv
<1>2. QED
  BY <1>1, Invariance, PTL

\* However many questions there are and wherever workers crash, a worker that asks
\* the queue for a job finds one: jobs.get() never blocks for ever.
THEOREM QueueNeverStarves == Spec => []NoWorkerStarves
<1>1. Inv => NoWorkerStarves
  BY JobLeft DEF Inv, Control, ControlOf, NoWorkerStarves
<1>2. QED
  BY <1>1, Invariance, PTL

\* No question is ever handed to two workers.
THEOREM ClaimsExclusive == Spec => []ExclusiveClaim
<1>1. Inv => ExclusiveClaim
  BY DEF Inv
<1>2. QED
  BY <1>1, Invariance, PTL

\* When every worker ended without an exception, every question has its row.
LEMMA CompleteUnlessRaised ==
  ASSUME Inv, raised = {}, \A w \in Workers : pc[w] = "done"
  PROVE  ~Missing
<1> SUFFICES ASSUME NEW i \in Questions, results[i] = NoRow
             PROVE  FALSE
  BY DEF Missing
<1>1. \A w \in Workers : job[w] = Stop
  BY DEF Inv, Control, ControlOf, Closing
<1>2. PICK w \in Workers : TRUE
  BY EvaluatorAssumption
<1>3. head > NQ + 1
  BY <1>1, <1>2, QueueEndType, RowAssumption DEF Inv, TypeOK, StopMarks, Stopped
<1>4. i < head
  BY <1>3, QueueEndType, RowAssumption DEF Inv, TypeOK, Questions
<1>5. PICK x \in Workers : job[x] = i
  BY <1>4 DEF Inv, Accounted
<1>6. QED
  BY <1>1, <1>5, RowAssumption DEF Questions, Stop

\* The missing-results branch of the join is unreachable unless a worker failed.
THEOREM NothingMissing == Spec => []NoRowMissing
<1>1. Inv => NoRowMissing
  BY CompleteUnlessRaised DEF NoRowMissing
<1>2. QED
  BY <1>1, Invariance, PTL

\* Only a question an API failed is asked again.
THEOREM EarnedResultsKept == Spec => []EarnedResultKept
<1>1. Inv => EarnedResultKept
  BY DEF Inv, Control, ControlOf, EarnedResultKept, IsTransient, Infrastructure, Provider,
         TransientErrors
<1>2. QED
  BY <1>1, Invariance, PTL

----------------------------------------------------------------------------
(* What a report leaves behind.                                            *)

Whole == outcome = "reported" => ~Missing /\ raised = {}

\* A worker that has ended takes no step, so nothing changes once a report is made.
LEMMA WholeStep ==
  ASSUME Inv, Whole, [Next]_vars
  PROVE  Whole'
<1>1. ASSUME NEW w \in Workers, Worker(w) PROVE Whole'
  <2>1. outcome' = outcome /\ pc[w] # "done"
    BY <1>1 DEF Worker, BuildProvider, BuildAgent, GetJob, AgentReturns, AgentRaises, Crash, Retry,
                CloseLLM, CloseProvider
  <2>2. outcome = "running"
    BY <2>1 DEF Inv, EndsLast
  <2>3. QED
    BY <2>1, <2>2 DEF Whole
<1>2. CASE Join
  <2>1. outcome' = "reported" => raised = {} /\ ~Missing
    BY <1>2 DEF Join
  <2>2. QED
    BY <1>2, <2>1 DEF Join, Whole, Missing
<1>3. CASE UNCHANGED vars
  BY <1>3 DEF vars, Whole, Missing
<1>4. QED
  BY <1>1, <1>2, <1>3 DEF Next, Finished

\* A report is made of every row, and of workers none of which failed.
LEMMA ReportsWhole == Spec => []Whole
<1>1. Init => Whole
  BY DEF Init, Whole
<1>2. Inv /\ Whole /\ [Next]_vars => Whole'
  BY WholeStep
<1>3. QED
  BY <1>1, <1>2, Invariance, PTL DEF Spec

\* However a worker ends, its LLM client is closed and, once it had a job, its cache; what
\* a raising constructor or close of the provider skipped is never left behind a report.
THEOREM SessionsCloseOrAbort == Spec => []SessionsCloseOrFail
<1>1. Inv /\ Whole => SessionsCloseOrFail
  BY DEF Inv, SessionsClose, SessionOf, Whole, SessionsCloseOrFail, ProviderParts
<1>2. QED
  BY <1>1, Invariance, ReportsWhole, PTL

----------------------------------------------------------------------------
(* The statistics of a report.                                             *)

\* How often the question a worker has in hand was asked, and that an API ended each time.
ToldInHand(w) ==
  Working(w) =>
    /\ asked[job[w]] = IF pc[w] = "backoff" THEN attempt[w] ELSE attempt[w] - 1
    /\ job[w] \in withheld <=> asked[job[w]] > 0

\* What the history says of a question nobody took, and of one that has its row.
ToldOfRow(i) ==
  /\ i >= head => asked[i] = 0 /\ i \notin withheld
  /\ results[i] # NoRow =>
       /\ asked[i] = results[i].attempts
       /\ asked[i] > 1 => i \in withheld
       /\ i \in withheld /\ ~IsTransient(results[i]) => asked[i] > 1

Told == /\ \A w \in Workers : ToldInHand(w)
        /\ \A i \in Questions : ToldOfRow(i)

\* A step that neither takes a job nor ends an attempt, and lets no worker begin one.
LEMMA ToldUnchanged ==
  ASSUME Inv, Told, UNCHANGED <<head, job, results, asked, withheld>>,
         \A w \in Workers : Working(w)' => Working(w) /\ ToldInHand(w)'
  PROVE  Told'
<1>1. ASSUME NEW w \in Workers PROVE ToldInHand(w)'
  BY DEF ToldInHand
<1>2. ASSUME NEW i \in Questions PROVE ToldOfRow(i)'
  BY DEF Told, ToldOfRow, IsTransient
<1>3. QED
  BY <1>1, <1>2 DEF Told

\* Opening and closing a session are such steps.
LEMMA ToldSession ==
  ASSUME Inv, Told, NEW w \in Workers,
         BuildProvider(w) \/ BuildAgent(w) \/ CloseLLM(w) \/ CloseProvider(w)
  PROVE  Told'
<1>1. UNCHANGED <<head, job, attempt, results, asked, withheld>>
  BY DEF BuildProvider, BuildAgent, CloseLLM, CloseProvider, history
<1>2. /\ \A x \in Workers : x # w => pc'[x] = pc[x]
      /\ ~Working(w)'
  BY DEF Inv, TypeOK, BuildProvider, BuildAgent, CloseLLM, CloseProvider, Working, Goto
<1>3. \A x \in Workers : Working(x)' => Working(x) /\ ToldInHand(x)'
  BY <1>1, <1>2 DEF Told, ToldInHand, Working
<1>4. QED
  BY <1>1, <1>3, ToldUnchanged

\* A crash takes the question out of the worker's hand; a retry begins the next attempt.
LEMMA ToldCrashRetry ==
  ASSUME Inv, Told, NEW w \in Workers, Crash(w) \/ Retry(w)
  PROVE  Told'
<1>1. UNCHANGED <<head, job, results, asked, withheld>>
  BY DEF Crash, Retry, history
<1>2. \A x \in Workers : x # w => pc'[x] = pc[x] /\ attempt'[x] = attempt[x]
  BY DEF Inv, TypeOK, Crash, Retry, Goto
<1>3. Working(w)' => Working(w) /\ ToldInHand(w)'
  <2>1. CASE Crash(w)
    BY <2>1 DEF Inv, TypeOK, Crash, Working, Goto
  <2>2. CASE Retry(w)
    <3>1. pc[w] = "backoff" /\ pc'[w] = "asking" /\ attempt'[w] = attempt[w] + 1
      BY <2>2 DEF Inv, TypeOK, Retry, Goto
    <3>2. attempt[w] \in Nat
      BY RowAssumption DEF Inv, TypeOK
    <3>3. QED
      BY <1>1, <3>1, <3>2 DEF Told, ToldInHand, Working
  <2>3. QED
    BY <2>1, <2>2
<1>4. \A x \in Workers : Working(x)' => Working(x) /\ ToldInHand(x)'
  BY <1>1, <1>2, <1>3 DEF Told, ToldInHand, Working
<1>5. QED
  BY <1>1, <1>4, ToldUnchanged

\* A question is taken unasked.
LEMMA ToldGetJob ==
  ASSUME Inv, Told, NEW w \in Workers, GetJob(w)
  PROVE  Told'
<1>1. /\ UNCHANGED <<results, asked, withheld>> /\ head' = head + 1 /\ head \in Nat /\ head >= 1
  BY QueueEndType DEF Inv, TypeOK, GetJob, history
<1>2. \A x \in Workers : x # w => pc'[x] = pc[x] /\ attempt'[x] = attempt[x] /\ job'[x] = job[x]
  BY DEF Inv, TypeOK, GetJob, Goto
<1>3. ASSUME NEW i \in Questions PROVE ToldOfRow(i)'
  BY <1>1 DEF Told, ToldOfRow, Questions
<1>4. ToldInHand(w)'
  <2>1. CASE head <= NQ
    <3>1. head \in Questions /\ JobAt(head) = head /\ head # Stop
      BY <1>1, <2>1 DEF JobAt, Questions, Stop
    <3>2. job'[w] = head /\ pc'[w] = "asking" /\ attempt'[w] = 1
      BY <3>1 DEF Inv, TypeOK, GetJob, Goto
    <3>3. asked[head] = 0 /\ head \notin withheld
      BY <1>1, <3>1 DEF Told, ToldOfRow
    <3>4. QED
      BY <1>1, <3>2, <3>3 DEF ToldInHand
  <2>2. CASE head > NQ
    <3>1. JobAt(head) = Stop
      BY <1>1, <2>2, RowAssumption DEF JobAt
    <3>2. pc'[w] = "closing_llm"
      BY <3>1 DEF Inv, TypeOK, GetJob, Goto
    <3>3. QED
      BY <3>2 DEF ToldInHand, Working
  <2>3. QED
    BY <1>1, <2>1, <2>2, RowAssumption
<1>5. ASSUME NEW x \in Workers, x # w PROVE ToldInHand(x)'
  BY <1>1, <1>2, <1>5 DEF Told, ToldInHand, Working
<1>6. QED
  BY <1>3, <1>4, <1>5 DEF Told

\* The end of an attempt is one more time the question was asked.
LEMMA ToldAttemptEnds ==
  ASSUME Inv, Told, NEW w \in Workers, NEW v \in Verdict, NEW n \in Nat,
         AttemptEnds(w, v, n)
  PROVE  Told'
<1>1. /\ job[w] \in Questions /\ pc[w] = "asking" /\ results[job[w]] = NoRow
      /\ UNCHANGED <<head, job, attempt>>
      /\ attempt[w] \in Nat /\ attempt[w] >= 1
  BY RowAssumption DEF Inv, TypeOK, Control, ControlOf, Working, AttemptEnds
<1>2. /\ asked' = [asked EXCEPT ![job[w]] = @ + 1]
      /\ withheld' = IF IsTransient(v) THEN withheld \cup {job[w]} ELSE withheld
  BY DEF AttemptEnds, Recorded
<1>3. asked[job[w]] = attempt[w] - 1 /\ (job[w] \in withheld <=> attempt[w] > 1)
  BY <1>1 DEF Told, ToldInHand, Working
<1>4. asked'[job[w]] = attempt[w]
  BY <1>1, <1>2, <1>3 DEF Inv, TypeOK
<1>5. \A i \in Questions : i # job[w] =>
        asked'[i] = asked[i] /\ (i \in withheld' <=> i \in withheld)
  BY <1>2 DEF Inv, TypeOK
<1>6. ASSUME NEW x \in Workers, x # w PROVE ToldInHand(x)'
  <2>1. pc'[x] = pc[x]
    BY <1>6 DEF Inv, TypeOK, AttemptEnds, Settle, Goto
  <2>2. Working(x) => job[x] \in Questions /\ job[x] # job[w]
    BY <1>1, <1>6 DEF Inv, Control, ControlOf, ExclusiveClaim
  <2>3. QED
    BY <1>1, <1>5, <2>1, <2>2 DEF Told, ToldInHand, Working
<1>7. job[w] < head
  BY <1>1 DEF Inv, Control, ControlOf
<1>8. CASE IsTransient(v) /\ MayAskAgain(w)
  <2>1. pc'[w] = "backoff" /\ results' = results
    BY <1>8 DEF Inv, TypeOK, AttemptEnds, Settle, Goto
  <2>2. ToldInHand(w)'
    BY <1>1, <1>2, <1>4, <1>8, <2>1 DEF ToldInHand
  <2>3. ASSUME NEW i \in Questions PROVE ToldOfRow(i)'
    <3>1. CASE i = job[w]
      BY <1>1, <1>7, <2>1, <3>1, QueueEndType DEF Inv, TypeOK, ToldOfRow, Questions
    <3>2. CASE i # job[w]
      BY <1>1, <1>5, <2>1, <3>2 DEF Told, ToldOfRow
    <3>3. QED
      BY <3>1, <3>2
  <2>4. QED
    BY <1>6, <2>2, <2>3 DEF Told
<1>9. CASE ~(IsTransient(v) /\ MayAskAgain(w))
  <2> DEFINE kept == [of |-> job[w], failure |-> v.failure, error |-> v.error,
                      attempts |-> attempt[w], llm_calls |-> n]
  <2>1. pc'[w] = "idle" /\ results' = [results EXCEPT ![job[w]] = kept]
    BY <1>9 DEF Inv, TypeOK, AttemptEnds, Settle, Goto
  <2>2. ToldInHand(w)'
    BY <2>1 DEF ToldInHand, Working
  <2>3. kept.attempts = attempt[w] /\ (IsTransient(kept) <=> IsTransient(v))
    BY DEF IsTransient
  <2> HIDE DEF kept
  <2>4. results'[job[w]] = kept
    BY <1>1, <2>1 DEF Inv, TypeOK
  <2>5. ASSUME NEW i \in Questions PROVE ToldOfRow(i)'
    <3>1. CASE i = job[w]
      <4>1. ~(i >= head')
        BY <1>1, <1>7, <3>1, QueueEndType DEF Inv, TypeOK, Questions
      <4>2. asked'[i] = results'[i].attempts /\ (asked'[i] > 1 => i \in withheld')
        BY <1>2, <1>3, <1>4, <2>3, <2>4, <3>1
      <4>3. i \in withheld' /\ ~IsTransient(results'[i]) => asked'[i] > 1
        BY <1>2, <1>3, <1>4, <2>3, <2>4, <3>1
      <4>4. (IsTransient(results[i]))' <=> IsTransient(results'[i])
        BY DEF IsTransient
      <4>5. QED
        BY <4>1, <4>2, <4>3, <4>4 DEF ToldOfRow
    <3>2. CASE i # job[w]
      <4>1. results'[i] = results[i]
        BY <2>1, <3>2 DEF Inv, TypeOK
      <4>2. QED
        BY <1>1, <1>5, <3>2, <4>1 DEF Told, ToldOfRow, IsTransient
    <3>3. QED
      BY <3>1, <3>2
  <2>6. QED
    BY <1>6, <2>2, <2>5 DEF Told
<1>10. QED
  BY <1>8, <1>9

\* The rows tell the history of every run.
LEMMA HistoryTold == Spec => []Told
<1>1. Init => Told
  BY DEF Init, Told, ToldInHand, ToldOfRow, Working
<1>2. ASSUME Inv, Told, [Next]_vars PROVE Told'
  <2>1. ASSUME NEW w \in Workers, Worker(w) PROVE Told'
    BY <1>2, <2>1, ToldSession, ToldGetJob, AttemptsEnd, ToldAttemptEnds, ToldCrashRetry DEF Worker
  <2>2. CASE Join
    BY <1>2, <2>2 DEF Join, history, Told, ToldInHand, ToldOfRow, Working
  <2>3. CASE UNCHANGED vars
    BY <1>2, <2>3 DEF vars, history, Told, ToldInHand, ToldOfRow, Working
  <2>4. QED
    BY <1>2, <2>1, <2>2, <2>3 DEF Next, Finished
<1>3. QED
  BY <1>1, <1>2, Invariance, PTL DEF Spec

\* A report lists as retried exactly the questions that were asked more than once, as
\* recovered exactly those an API ended an attempt of and not the last, and no question an
\* API ended was given up before its last attempt.
THEOREM RetriesAreReported == Spec => []RetriesReported
<1>1. Inv /\ Whole /\ Told => RetriesReported
  <2> SUFFICES ASSUME Inv, Whole, Told, outcome = "reported"
               PROVE  /\ RetriedIds(results) = {i \in Questions : asked[i] > 1}
                      /\ RecoveredIds(results) = {i \in withheld : ~IsTransient(results[i])}
                      /\ \A i \in withheld \ RecoveredIds(results) : asked[i] = Retries + 1
    BY DEF RetriesReported
  <2>1. ASSUME NEW i \in Questions
        PROVE  /\ asked[i] = results[i].attempts
               /\ asked[i] > 1 => i \in withheld
               /\ i \in withheld /\ ~IsTransient(results[i]) => asked[i] > 1
    BY DEF Told, ToldOfRow, Whole, Missing
  <2>2. ASSUME NEW i \in Questions, IsTransient(results[i])
        PROVE  results[i].attempts = Retries + 1
    <3>1. Run!Admissible(i, results[i])
      BY DEF Inv, RowsAdmissible, Whole, Missing
    <3>2. QED
      BY <2>2, <3>1 DEF Run!Admissible, Run!IsTransient, IsTransient, Run!Infrastructure,
         Run!Provider, Run!TransientErrors, Infrastructure, Provider, TransientErrors
  <2>3. withheld \subseteq Questions
    BY DEF Inv, TypeOK
  <2>4. RetriedIds(results) = {i \in Questions : asked[i] > 1}
    BY <2>1 DEF RetriedIds
  <2>5. RecoveredIds(results) = {i \in withheld : ~IsTransient(results[i])}
    BY <2>1, <2>3, <2>4 DEF RecoveredIds
  <2>6. \A i \in withheld \ RecoveredIds(results) : asked[i] = Retries + 1
    BY <2>1, <2>2, <2>3, <2>5
  <2>7. QED
    BY <2>4, <2>5, <2>6
<1>2. QED
  BY <1>1, Invariance, ReportsWhole, HistoryTold, PTL

----------------------------------------------------------------------------
(* The pool implements BenchmarkRun.                                       *)

\* A pool that has not started is a run that has not.
LEMMA RunInit == Init => Run!Init
BY DEF Init, Run!Init, Questions, Run!Questions

\* Only an attempt that ends changes a row, and it changes the worker's own.
LEMMA RunAttemptEnds ==
  ASSUME Inv, Inv', NEW w \in Workers, NEW v \in Verdict, NEW n \in Nat,
         AttemptEnds(w, v, n)
  PROVE  (\E i \in Run!Questions : Run!Answer(i)) \/ UNCHANGED Run!vars
<1>1. /\ job[w] \in Questions /\ results[job[w]] = NoRow /\ pc[w] = "asking"
      /\ UNCHANGED <<raised, outcome>>
  BY DEF Inv, Control, ControlOf, Working, AttemptEnds
<1>2. outcome = "running"
  BY <1>1 DEF Inv, EndsLast
<1>3. CASE UNCHANGED results
  BY <1>1, <1>3 DEF Run!vars
<1>4. CASE ~(IsTransient(v) /\ MayAskAgain(w))
  <2> DEFINE kept == [of |-> job[w], failure |-> v.failure, error |-> v.error,
                      attempts |-> attempt[w], llm_calls |-> n]
  <2>1. results' = [results EXCEPT ![job[w]] = kept]
    BY <1>4 DEF AttemptEnds, Settle
  <2>2. attempt[w] \in Nat
    BY RowAssumption DEF Inv, TypeOK
  <2>3. kept \in Row /\ kept # NoRow
    BY <1>1, <2>2, RowAssumption DEF Row, Verdict
  <2>4. results'[job[w]] = kept
    BY <1>1, <2>1 DEF Inv, TypeOK
  <2> HIDE DEF kept
  <2>5. Run!Admissible(job[w], results'[job[w]])
    BY <1>1, <2>3, <2>4 DEF Inv, RowsAdmissible
  <2>6. Run!Answer(job[w])
    BY <1>1, <1>2, <2>1, <2>3, <2>4, <2>5
    DEF Run!Answer, Run!Row, Row, Run!Questions, Questions, Run!FailureTypes, FailureTypes,
        Run!ErrorNames, ErrorNames, Run!TransientErrors, TransientErrors, Run!NoFailure,
        NoFailure, Run!Infrastructure, Infrastructure, Run!Provider, Provider, Run!Truncation,
        Truncation, Run!ContextOverflow, ContextOverflow, Run!Reasoning, Reasoning
  <2>7. QED
    BY <1>1, <2>6 DEF Run!Questions, Questions
<1>5. QED
  BY <1>3, <1>4 DEF AttemptEnds, Settle

\* Every step of the pool is a step of the run or changes nothing of it.
LEMMA RunStep ==
  ASSUME Inv, Inv', [Next]_vars
  PROVE  [Run!Next]_Run!vars
<1>1. ASSUME NEW w \in Workers, Worker(w) PROVE [Run!Next]_Run!vars
  <2>1. CASE AgentReturns(w) \/ AgentRaises(w)
    BY <2>1, AttemptsEnd, RunAttemptEnds DEF Run!Next
  <2>2. CASE ~(AgentReturns(w) \/ AgentRaises(w))
    <3>1. /\ UNCHANGED <<results, outcome>>
          /\ raised \subseteq raised'
          /\ pc[w] # "done"
      BY <1>1, <2>2
      DEF Worker, BuildProvider, BuildAgent, GetJob, Crash, Retry, CloseLLM, CloseProvider
    <3>2. outcome = "running"
      BY <3>1 DEF Inv, EndsLast
    <3>3. CASE raised = {} /\ raised' # {}
      BY <3>1, <3>2, <3>3 DEF Run!Next, Run!Fail
    <3>4. CASE ~(raised = {} /\ raised' # {})
      BY <3>1, <3>4 DEF Run!vars
    <3>5. QED
      BY <3>3, <3>4
  <2>3. QED
    BY <2>1, <2>2
<1>2. CASE Join
  <2>1. outcome = "running" /\ UNCHANGED <<results, raised>> /\ \A w \in Workers : pc[w] = "done"
    BY <1>2 DEF Join
  <2>2. CASE raised # {}
    BY <1>2, <2>1, <2>2 DEF Join, Run!Next, Run!Abort
  <2>3. CASE raised = {}
    <3>1. ~Missing
      BY <2>1, <2>3, CompleteUnlessRaised
    <3>2. QED
      BY <1>2, <2>1, <2>3, <3>1 DEF Join, Missing, Questions, Run!Next, Run!Report, Run!Questions
  <2>4. QED
    BY <2>2, <2>3
<1>3. CASE UNCHANGED vars
  BY <1>3 DEF vars, Run!vars
<1>4. QED
  BY <1>1, <1>2, <1>3 DEF Next, Finished

\* The pool implements the abstract run: one row per question, never changed, kept
\* only when the retry policy allows it; a report only of all of them and only when
\* no worker failed; an abort only when one did.
THEOREM PoolImplementsRun == Spec => RunSpec
<1>1. Init => Run!Init
  BY RunInit
<1>2. Inv /\ Inv' /\ [Next]_vars => [Run!Next]_Run!vars
  BY RunStep
<1>3. QED
  BY <1>1, <1>2, Invariance, PTL DEF Spec, RunSpec, Run!Spec
=============================================================================
