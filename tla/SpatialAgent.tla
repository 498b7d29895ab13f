---------------------------- MODULE SpatialAgent ----------------------------
(***************************************************************************)
(* SpatialAgent.answer: concept analysis, a drafted graph, its validation, *)
(* one repair, the lenient passes over the repaired and the drafted graph, *)
(* the steps of the accepted graph, the evaluation and the MCQ adapter.    *)
(* A graph is what _factorize_validate_plan makes of it: its verdict with  *)
(* the port's own argument and type rules, and its verdict without them.   *)
(***************************************************************************)
EXTENDS Integers, Sequences, Failures

CONSTANT MaxGraphSteps   \* bound: the steps of an accepted graph

ASSUME SpatialAssumption == MaxGraphSteps \in Nat \ {0}

VARIABLES
  pc,        \* the stage answer() is in
  draft,     \* the verdicts of the drafted graph
  repair,    \* the verdicts of the repaired graph
  accepted,  \* which of them is executed, and by which pass
  size,      \* how many steps the accepted graph has
  ran,       \* what each executed step came to, in order
  steps,     \* reasoning_steps, recorded as llm_calls
  asked,     \* history: the chats started
  usage,     \* completions counted in the token columns
  billed,    \* history: completions the endpoint wrote
  option,    \* predicted is not None
  failure    \* failure_type

graphs == <<draft, repair, accepted, size>>
costs == <<steps, asked, usage, billed>>
verdict == <<option, failure>>
vars == <<pc, graphs, ran, costs, verdict>>

Chatting == {"analyzing", "planning", "repairing", "evaluating"}
Stages == Chatting \cup
  {"validating_draft", "validating_repair", "relaxing_repair", "relaxing_draft",
   "executing", "adapting", "done"}

\* "raises" is any exception that is not a ValueError: the handlers let it pass.
Outcomes == {"accepted", "refused", "raises"}
Graph == [strict : Outcomes, lenient : Outcomes]
NoGraph == [strict |-> "refused", lenient |-> "refused"]
Passes == {"none", "draft", "repair", "lenient_repair", "lenient_draft"}
StepResults == {"ok", "provider_error", "error"}

TypeOK ==
  /\ pc \in Stages
  /\ draft \in Graph /\ repair \in Graph
  /\ accepted \in Passes
  /\ size \in 0 .. MaxGraphSteps
  /\ ran \in Seq(StepResults)
  /\ steps \in 0 .. 4 /\ asked \in 0 .. 4
  /\ usage \in 0 .. 4 /\ billed \in 0 .. 4
  /\ option \in BOOLEAN
  /\ failure \in FailureTypes

Init ==
  /\ pc = "analyzing"
  /\ draft = NoGraph /\ repair = NoGraph
  /\ accepted = "none"
  /\ size = 0
  /\ ran = <<>>
  /\ steps = 0 /\ asked = 0
  /\ usage = 0 /\ billed = 0
  /\ option = FALSE
  /\ failure = NoFailure

ProviderFailed == \E i \in 1 .. Len(ran) : ran[i] = "provider_error"

Fail(f) ==
  /\ pc' = "done"
  /\ failure' = f
  /\ UNCHANGED option

----------------------------------------------------------------------------
\* A chat that returned: the call and its usage are counted after it.
Answered ==
  /\ steps' = steps + 1 /\ asked' = asked + 1
  /\ usage' = usage + 1 /\ billed' = billed + 1

Analyze ==
  /\ pc = "analyzing" /\ pc' = "planning"
  /\ Answered
  /\ UNCHANGED <<graphs, ran, verdict>>

Plan ==
  /\ pc = "planning" /\ pc' = "validating_draft"
  /\ Answered
  /\ draft' \in Graph
  /\ UNCHANGED <<repair, accepted, size, ran, verdict>>

Repair ==
  /\ pc = "repairing" /\ pc' = "validating_repair"
  /\ Answered
  /\ repair' \in Graph
  /\ UNCHANGED <<draft, accepted, size, ran, verdict>>

Evaluate ==
  /\ pc = "evaluating" /\ pc' = "adapting"
  /\ Answered
  /\ UNCHANGED <<graphs, ran, verdict>>

\* Mutant of ChatRaises: the truncated completion is not added to the usage.
ChatRaisesUncounted ==
  /\ pc \in Chatting
  /\ asked' = asked + 1
  /\ \E f \in ChatFailures :
       /\ billed' = billed + (IF f = Truncation THEN 1 ELSE 0)
       /\ Fail(f)
  /\ UNCHANGED <<graphs, ran, steps, usage>>

\* A chat that raised is no reasoning step. A truncated completion carries its usage.
ChatRaises ==
  /\ pc \in Chatting
  /\ asked' = asked + 1
  /\ \E f \in ChatFailures :
       LET paid == IF f = Truncation THEN 1 ELSE 0 IN
         /\ usage' = usage + paid /\ billed' = billed + paid
         /\ Fail(f)
  /\ UNCHANGED <<graphs, ran, steps>>

----------------------------------------------------------------------------
(* Validation. A pass that accepts goes on to the execution; a ValueError  *)
(* goes on to the next pass; anything else leaves answer().                *)
Accept(pass) ==
  /\ accepted' = pass
  /\ size' \in 1 .. MaxGraphSteps
  /\ pc' = "executing"
  /\ UNCHANGED verdict

Judge(outcome, pass, next) ==
  \/ outcome = "accepted" /\ Accept(pass)
  \/ outcome = "refused" /\ pc' = next /\ UNCHANGED <<accepted, size, verdict>>
  \/ outcome = "raises" /\ Fail(Reasoning) /\ UNCHANGED <<accepted, size>>

ValidateDraft ==
  /\ pc = "validating_draft"
  /\ Judge(draft.strict, "draft", "repairing")
  /\ UNCHANGED <<draft, repair, ran, costs>>

\* Mutant of ValidateRepair: the lenient pass starts at the draft.
RelaxesDraftFirst ==
  /\ pc = "validating_repair"
  /\ Judge(repair.strict, "repair", "relaxing_draft")
  /\ UNCHANGED <<draft, repair, ran, costs>>

ValidateRepair ==
  /\ pc = "validating_repair"
  /\ Judge(repair.strict, "repair", "relaxing_repair")
  /\ UNCHANGED <<draft, repair, ran, costs>>

\* Mutant of RelaxRepair: a refused repair is validated again.
ValidatesAgain ==
  /\ pc = "relaxing_repair"
  /\ Judge(repair.lenient, "lenient_repair", "validating_repair")
  /\ UNCHANGED <<draft, repair, ran, costs>>

RelaxRepair ==
  /\ pc = "relaxing_repair"
  /\ Judge(repair.lenient, "lenient_repair", "relaxing_draft")
  /\ UNCHANGED <<draft, repair, ran, costs>>

\* Mutant of RelaxDraft: the last candidate is run whatever its verdict.
RunsLastCandidate ==
  /\ pc = "relaxing_draft"
  /\ Accept("lenient_draft")
  /\ UNCHANGED <<draft, repair, ran, costs>>

\* The last candidate: GraphValidationError.
RelaxDraft ==
  /\ pc = "relaxing_draft"
  /\ IF draft.lenient = "refused"
     THEN Fail("graph_validation_failure") /\ UNCHANGED <<accepted, size>>
     ELSE Judge(draft.lenient, "lenient_draft", "done")
  /\ UNCHANGED <<draft, repair, ran, costs>>

----------------------------------------------------------------------------
\* Every step runs, in order, whatever the steps before it came to; the loop
\* ends in the evaluation.
Execute ==
  /\ pc = "executing"
  /\ IF Len(ran) < size
     THEN (\E r \in StepResults : ran' = Append(ran, r)) /\ UNCHANGED pc
     ELSE pc' = "evaluating" /\ UNCHANGED ran
  /\ UNCHANGED <<graphs, costs, verdict>>

\* The adapter matches the grounded answer to an option or to none.
Adapt ==
  /\ pc = "adapting" /\ pc' = "done"
  /\ option' \in BOOLEAN
  /\ failure' = IF option' THEN NoFailure
                ELSE IF ProviderFailed THEN Provider ELSE "grounded_answer_unmatched"
  /\ UNCHANGED <<graphs, ran, costs>>

\* Anything else that raises, in any stage, ends the question.
Raises ==
  /\ pc # "done"
  /\ Fail(Reasoning)
  /\ UNCHANGED <<graphs, ran, costs>>

Done == pc = "done" /\ UNCHANGED vars

Step ==
  \/ Analyze \/ Plan \/ Repair \/ Evaluate \/ ChatRaises
  \/ ValidateDraft \/ ValidateRepair \/ RelaxRepair \/ RelaxDraft
  \/ Execute \/ Adapt \/ Raises
Next == Step \/ Done

Spec == Init /\ [][Next]_vars

\* The thread runs, and every chat and every tool call returns or raises.
FairSpec == Spec /\ WF_vars(Step)
----------------------------------------------------------------------------
(* Properties.                                                             *)

\* Only an accepted graph runs, and the one that costs the least evidence: leniently
\* only after both graphs were refused strictly, and the draft only after its repair
\* was refused on both passes.
RunsWhatWasAccepted ==
  /\ ran # <<>> => accepted # "none"
  /\ accepted = "draft" => draft.strict = "accepted"
  /\ accepted = "repair" => draft.strict = "refused" /\ repair.strict = "accepted"
  /\ accepted = "lenient_repair" =>
       draft.strict = "refused" /\ repair = [strict |-> "refused", lenient |-> "accepted"]
  /\ accepted = "lenient_draft" =>
       draft = [strict |-> "refused", lenient |-> "accepted"] /\ repair = NoGraph

\* A question is given up on as graph_validation_failure only when both graphs were
\* refused on both passes; nothing was executed for it, and it cost three chats.
RefusalRunsNothing ==
  failure = "graph_validation_failure" =>
    /\ draft = NoGraph /\ repair = NoGraph
    /\ ran = <<>> /\ size = 0
    /\ asked = 3

\* A question costs four chats at most, and the fourth only after a refused draft.
ChatsBounded == asked <= 4 /\ (asked = 4 => draft.strict = "refused")

\* The stages implement what the evaluator relies on of every agent: see the same
\* property of ReactAgent.
Agent == INSTANCE BenchmarkAgent WITH
  done <- (pc = "done"), blamed <- ProviderFailed
AnswerSpec == Agent!Spec

\* Every question ends.
AnswerEnds == <>(pc = "done")
=============================================================================
