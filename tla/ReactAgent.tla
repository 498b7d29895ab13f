----------------------------- MODULE ReactAgent -----------------------------
(***************************************************************************)
(* ReactAgent.answer: the loop of chats and tool calls of one question,    *)
(* the conversation it grows, and the failure a question without an option *)
(* is recorded with. What chat does to get a completion is LLMClient's;    *)
(* here it returns one, or raises what LLMClient ends with.                *)
(***************************************************************************)
EXTENDS Integers, Sequences, FiniteSets, Failures

CONSTANTS
  MaxSteps,   \* max_steps
  CallIds     \* the tool_call ids a response may carry

ASSUME AgentAssumption == MaxSteps \in Nat \ {0}

VARIABLES
  single,     \* single_action
  force,      \* force_final_answer
  pc,         \* "chatting", "acting", "forcing" or "done"
  messages,   \* the conversation after the prompt, oldest first
  pending,    \* the calls of the last response not yet executed
  steps,      \* reasoning_steps, recorded as llm_calls
  final,      \* final_text: "" or what parse_answer makes of it
  stopped,    \* stopped_at_budget
  failure,    \* failure_type
  blamed,     \* the trace holds a serialized provider failure
  usage,      \* completions counted in the token columns
  billed      \* history: completions the endpoint wrote

config == <<single, force>>
vars == <<single, force, pc, messages, pending, steps, final, stopped, failure, blamed,
          usage, billed>>

\* A text the parser finds an option in, one it does not, and the empty one.
Option == "option"
Prose == "prose"
Empty == ""

Said(calls) == [role |-> "assistant", calls |-> calls]
Observed(id) == [role |-> "tool", calls |-> {id}]
Asked == [role |-> "user", calls |-> {}]
Message == [role : {"assistant", "tool", "user"}, calls : SUBSET CallIds]

TypeOK ==
  /\ single \in BOOLEAN /\ force \in BOOLEAN
  /\ pc \in {"chatting", "acting", "forcing", "done"}
  /\ messages \in Seq(Message)
  /\ pending \in Seq(CallIds)
  /\ steps \in 0 .. (MaxSteps + 1)
  /\ final \in {Option, Prose, Empty}
  /\ stopped \in BOOLEAN
  /\ failure \in FailureTypes
  /\ blamed \in BOOLEAN
  /\ usage \in Nat /\ billed \in Nat

Init ==
  /\ single \in BOOLEAN /\ force \in BOOLEAN
  /\ pc = "chatting"
  /\ messages = <<>>
  /\ pending = <<>>
  /\ steps = 0
  /\ final = Empty
  /\ stopped = FALSE
  /\ failure = NoFailure
  /\ blamed = FALSE
  /\ usage = 0
  /\ billed = 0

\* Mutant of Verdict: a failed API is blamed whatever the text says.
BlamesFirst(text, atBudget, byLLM) ==
  CASE byLLM # NoFailure -> byLLM
    [] blamed -> Provider
    [] text = Option -> NoFailure
    [] OTHER -> IF atBudget THEN "iteration_limit" ELSE "answer_parse_failure"

\* The except clauses, and what parse_answer finds in the text that is left.
Verdict(text, atBudget, byLLM) ==
  CASE byLLM # NoFailure -> byLLM
    [] text = Option -> NoFailure
    [] OTHER -> IF atBudget THEN "iteration_limit"
                ELSE IF blamed THEN Provider ELSE "answer_parse_failure"

Finish(text, atBudget, byLLM) ==
  /\ pc' = "done"
  /\ final' = text
  /\ stopped' = atBudget
  /\ failure' = Verdict(text, atBudget, byLLM)

\* Neither the loop nor an empty answer left a text: stop there, or ask once more.
NoAnswer ==
  IF force
  THEN /\ pc' = "forcing"
       /\ UNCHANGED <<final, stopped, failure>>
  ELSE Finish(Prose, TRUE, NoFailure)

\* The prompt of the forced answer follows the last message.
Prompted(ms) == IF force THEN Append(ms, Asked) ELSE ms

----------------------------------------------------------------------------
BudgetSpent == steps >= MaxSteps

\* Mutant of Kept: the extra calls stay in the message that is sent back.
KeptAll(calls) == {calls[i] : i \in DOMAIN calls}
\* _one_action keeps the calls of the first one's id.
Kept(calls) == IF single THEN {calls[1]} ELSE {calls[i] : i \in DOMAIN calls}
Acted(calls) == IF single THEN <<calls[1]>> ELSE calls

ChatCalls ==
  /\ pc = "chatting"
  /\ \E first, second \in CallIds, n \in {1, 2} :
       LET calls == SubSeq(<<first, second>>, 1, n) IN
         /\ messages' = Append(messages, Said(Kept(calls)))
         /\ pending' = Acted(calls)
  /\ steps' = steps + 1
  /\ usage' = usage + 1 /\ billed' = billed + 1
  /\ pc' = "acting"
  /\ UNCHANGED <<config, final, stopped, failure, blamed>>

\* A response without a call ends the loop; its text may be empty.
ChatText ==
  /\ pc = "chatting"
  /\ steps' = steps + 1
  /\ usage' = usage + 1 /\ billed' = billed + 1
  /\ \E text \in {Option, Prose, Empty} :
       LET ms == Append(messages, Said({})) IN
         IF text = Empty
         THEN NoAnswer /\ messages' = Prompted(ms)
         ELSE Finish(text, FALSE, NoFailure) /\ messages' = ms
  /\ UNCHANGED <<config, pending, blamed>>

\* The truncated completion was paid for and carries its usage.
ChatRaises ==
  /\ pc \in {"chatting", "forcing"}
  /\ steps' = steps + 1
  /\ \E f \in ChatFailures :
       LET paid == IF f = Truncation THEN 1 ELSE 0 IN
         /\ usage' = usage + paid /\ billed' = billed + paid
         /\ Finish(Empty, FALSE, f)
  /\ UNCHANGED <<config, messages, pending, blamed>>

\* Mutant of Act: a call that failed goes back to the end of the list.
ActRequeues ==
  /\ pc = "acting"
  /\ blamed' = TRUE
  /\ pending' = Append(Tail(pending), Head(pending))
  /\ UNCHANGED <<config, pc, messages, steps, final, stopped, failure, usage, billed>>

\* invoke never raises: an error is an observation. After the last call of the
\* response the loop comes round, or ends with the budget.
Act ==
  /\ pc = "acting"
  /\ blamed' \in {blamed, TRUE}
  /\ pending' = Tail(pending)
  /\ LET ms == Append(messages, Observed(Head(pending))) IN
       CASE Len(pending) > 1 -> /\ messages' = ms
                                /\ UNCHANGED <<pc, final, stopped, failure>>
         [] Len(pending) = 1 /\ ~BudgetSpent ->
              messages' = ms /\ pc' = "chatting" /\ UNCHANGED <<final, stopped, failure>>
         [] OTHER -> messages' = Prompted(ms) /\ NoAnswer
  /\ UNCHANGED <<config, steps, usage, billed>>

\* The forced answer: what it says is final, an empty text included.
ForcedAnswer ==
  /\ pc = "forcing"
  /\ steps' = steps + 1
  /\ usage' = usage + 1 /\ billed' = billed + 1
  /\ \E text \in {Option, Prose, Empty} : Finish(text, FALSE, NoFailure)
  /\ UNCHANGED <<config, messages, pending, blamed>>

\* Anything else that raises between two messages (a log entry, a result that is no
\* JSON) ends the question.
ActRaises ==
  /\ pc = "acting"
  /\ blamed' \in {blamed, TRUE}
  /\ Finish(Empty, FALSE, Reasoning)
  /\ UNCHANGED <<config, messages, pending, steps, usage, billed>>

Done == pc = "done" /\ UNCHANGED vars

Step == ChatCalls \/ ChatText \/ ChatRaises \/ Act \/ ActRaises \/ ForcedAnswer
Next == Step \/ Done

Spec == Init /\ [][Next]_vars

\* A chat ends (LLMClient), and so does a tool call, by the timeout of its request.
FairSpec == Spec /\ WF_vars(Step)
----------------------------------------------------------------------------
(* Properties.                                                             *)

Responses == {i \in 1 .. Len(messages) : messages[i].role = "assistant"}
Observations == {j \in 1 .. Len(messages) : messages[j].role = "tool"}

\* Where the answer to the call id of message i would be: before the next message
\* that is not an observation.
AnsweredIn(ms, i, id) ==
  \E j \in (i + 1) .. Len(ms) :
    /\ ms[j] = Observed(id)
    /\ \A k \in (i + 1) .. j : ms[k].role = "tool"

\* What is sent to the endpoint pairs its calls and observations: every call of every
\* response kept is followed by its observation, also when the model returned several
\* calls and one was executed, and no observation answers a call its response lacks.
CallsMatchObservations ==
  /\ pc \in {"chatting", "forcing"} =>
       \A i \in Responses : \A id \in messages[i].calls : AnsweredIn(messages, i, id)
  /\ \A j \in Observations :
       \E i \in Responses :
         /\ i < j
         /\ messages[j].calls \subseteq messages[i].calls
         /\ \A k \in (i + 1) .. j : messages[k].role = "tool"

\* Under single_action an iteration is one action, so the budget bounds the tool
\* calls of a question as it bounds its chats; a forced answer is one chat more.
BudgetBoundsActions ==
  /\ steps <= MaxSteps + (IF force THEN 1 ELSE 0)
  /\ Cardinality(Responses) <= MaxSteps
  /\ single => Cardinality(Observations) <= MaxSteps

\* The loop implements what the evaluator relies on of every agent: a row without an
\* option states why and a row with one states no failure, an API is blamed only if
\* one failed, and every completion is counted, the truncated one included, whatever
\* the question came to.
Agent == INSTANCE BenchmarkAgent WITH
  done <- (pc = "done"), option <- (final = Option)
AnswerSpec == Agent!Spec

\* Every question ends.
AnswerEnds == <>(pc = "done")
=============================================================================
