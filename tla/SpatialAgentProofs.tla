------------------------- MODULE SpatialAgentProofs -------------------------
(***************************************************************************)
(* The stages of SpatialAgent.answer keep their promises for graphs of any *)
(* length. The invariant says of each stage how many chats were asked for  *)
(* and which verdicts led to it.                                           *)
(***************************************************************************)
EXTENDS SpatialAgent, LLMClient, TLAPS

\* The verdicts that lead to each stage of the validation.
Validated ==
  /\ pc \in {"analyzing", "planning"} => draft = NoGraph
  /\ pc \in {"analyzing", "planning", "validating_draft", "repairing"} => repair = NoGraph
  /\ pc \in {"repairing", "validating_repair", "relaxing_repair", "relaxing_draft"} =>
       draft.strict = "refused"
  /\ pc \in {"relaxing_repair", "relaxing_draft"} => repair.strict = "refused"
  /\ pc = "relaxing_draft" => repair.lenient = "refused"

\* Nothing is accepted, and nothing runs, before the execution.
Waiting ==
  pc \in {"analyzing", "planning", "repairing", "validating_draft", "validating_repair",
          "relaxing_repair", "relaxing_draft"} =>
    accepted = "none" /\ size = 0 /\ ran = <<>>

Accepted ==
  pc \in {"executing", "evaluating", "adapting"} => accepted # "none"

\* The chats that lead to each stage, each of them counted.
Counted ==
  /\ pc = "analyzing" => asked = 0
  /\ pc = "planning" => asked = 1
  /\ pc \in {"validating_draft", "repairing"} => asked = 2
  /\ pc \in {"validating_repair", "relaxing_repair", "relaxing_draft"} => asked = 3
  /\ pc \in {"executing", "evaluating"} =>
       asked = 2 \/ (asked = 3 /\ draft.strict = "refused")
  /\ pc = "adapting" => asked = 3 \/ (asked = 4 /\ draft.strict = "refused")
  /\ pc # "done" => steps = asked /\ usage = asked /\ billed = asked

Undecided == pc # "done" => option = FALSE /\ failure = NoFailure

Inv ==
  /\ TypeOK
  /\ Validated
  /\ Waiting
  /\ Accepted
  /\ Counted
  /\ Undecided
  /\ RunsWhatWasAccepted
  /\ RefusalRunsNothing
  /\ ChatsBounded

----------------------------------------------------------------------------
\* The invariant holds of a question nobody has asked about.
LEMMA InitInv == Init => Inv
<1> SUFFICES ASSUME Init PROVE Inv
  OBVIOUS
<1>1. draft \in Graph /\ repair \in Graph
  BY DEF Init, Graph, NoGraph, Outcomes
<1>2. TypeOK
  <2>1. size \in 0 .. MaxGraphSteps /\ ran \in Seq(StepResults)
    BY SpatialAssumption DEF Init
  <2>2. pc \in Stages /\ accepted \in Passes /\ failure \in FailureTypes
    BY DEF Init, Stages, Chatting, Passes, FailureTypes
  <2>3. steps \in 0 .. 4 /\ asked \in 0 .. 4 /\ usage \in 0 .. 4 /\ billed \in 0 .. 4
    BY DEF Init
  <2>4. option \in BOOLEAN
    BY DEF Init
  <2>5. QED
    BY <1>1, <2>1, <2>2, <2>3, <2>4 DEF TypeOK
<1>3. Validated /\ Waiting /\ Accepted
  BY DEF Init, Validated, Waiting, Accepted
<1>4. Counted /\ Undecided /\ ChatsBounded
  BY DEF Init, Counted, Undecided, ChatsBounded
<1>5. RunsWhatWasAccepted /\ RefusalRunsNothing
  BY DEF Init, RunsWhatWasAccepted, RefusalRunsNothing, NoFailure
<1>6. QED
  BY <1>2, <1>3, <1>4, <1>5 DEF Inv

\* A chat that returned goes on to the stage its answer is read in.
LEMMA ChatInv == ASSUME Inv, Analyze \/ Plan \/ Repair \/ Evaluate PROVE Inv'
<1>1. CASE Analyze
  <2>1. pc = "analyzing" /\ pc' = "planning"
    BY <1>1 DEF Analyze
  <2>2. UNCHANGED draft /\ UNCHANGED repair /\ UNCHANGED <<accepted, size, ran, option, failure>>
    BY <1>1 DEF Analyze, graphs, verdict
  <2>3. asked = 0 /\ steps = asked /\ usage = asked /\ billed = asked
    BY <2>1 DEF Inv, Counted
  <2>4. asked' = asked + 1 /\ steps' = asked' /\ usage' = asked' /\ billed' = asked'
    BY <1>1, <2>3 DEF Analyze, Answered
  <2>5. asked' \in 0 .. 4
    BY <2>3, <2>4
  <2>6. draft = NoGraph /\ repair = NoGraph
    BY <2>1 DEF Inv, Validated, Accepted
  <2>7. TypeOK'
    BY <2>1, <2>2, <2>4, <2>5 DEF Inv, TypeOK, Stages, Chatting
  <2>8. Validated' /\ Accepted'
    BY <2>1, <2>2, <2>6 DEF Validated, Accepted
  <2>9. Waiting' /\ Undecided'
    BY <2>1, <2>2 DEF Inv, Waiting, Undecided
  <2>10. Counted' /\ ChatsBounded'
    BY <2>1, <2>2, <2>3, <2>4 DEF Counted, ChatsBounded
  <2>11. RunsWhatWasAccepted' /\ RefusalRunsNothing'
    BY <2>1, <2>2 DEF Inv, Waiting, Undecided, RunsWhatWasAccepted, RefusalRunsNothing, NoFailure
  <2>12. QED
    BY <2>7, <2>8, <2>9, <2>10, <2>11 DEF Inv
<1>2. CASE Plan
  <2>1. pc = "planning" /\ pc' = "validating_draft"
    BY <1>2 DEF Plan
  <2>2. draft' \in Graph /\ UNCHANGED repair /\ UNCHANGED <<accepted, size, ran, option, failure>>
    BY <1>2 DEF Plan, graphs, verdict
  <2>3. asked = 1 /\ steps = asked /\ usage = asked /\ billed = asked
    BY <2>1 DEF Inv, Counted
  <2>4. asked' = asked + 1 /\ steps' = asked' /\ usage' = asked' /\ billed' = asked'
    BY <1>2, <2>3 DEF Plan, Answered
  <2>5. asked' \in 0 .. 4
    BY <2>3, <2>4
  <2>6. repair = NoGraph
    BY <2>1 DEF Inv, Validated, Accepted
  <2>7. TypeOK'
    BY <2>1, <2>2, <2>4, <2>5 DEF Inv, TypeOK, Stages, Chatting
  <2>8. Validated' /\ Accepted'
    BY <2>1, <2>2, <2>6 DEF Validated, Accepted
  <2>9. Waiting' /\ Undecided'
    BY <2>1, <2>2 DEF Inv, Waiting, Undecided
  <2>10. Counted' /\ ChatsBounded'
    BY <2>1, <2>2, <2>3, <2>4 DEF Counted, ChatsBounded
  <2>11. RunsWhatWasAccepted' /\ RefusalRunsNothing'
    BY <2>1, <2>2 DEF Inv, Waiting, Undecided, RunsWhatWasAccepted, RefusalRunsNothing, NoFailure
  <2>12. QED
    BY <2>7, <2>8, <2>9, <2>10, <2>11 DEF Inv
<1>3. CASE Repair
  <2>1. pc = "repairing" /\ pc' = "validating_repair"
    BY <1>3 DEF Repair
  <2>2. UNCHANGED draft /\ repair' \in Graph /\ UNCHANGED <<accepted, size, ran, option, failure>>
    BY <1>3 DEF Repair, graphs, verdict
  <2>3. asked = 2 /\ steps = asked /\ usage = asked /\ billed = asked
    BY <2>1 DEF Inv, Counted
  <2>4. asked' = asked + 1 /\ steps' = asked' /\ usage' = asked' /\ billed' = asked'
    BY <1>3, <2>3 DEF Repair, Answered
  <2>5. asked' \in 0 .. 4
    BY <2>3, <2>4
  <2>6. draft.strict = "refused"
    BY <2>1 DEF Inv, Validated, Accepted
  <2>7. TypeOK'
    BY <2>1, <2>2, <2>4, <2>5 DEF Inv, TypeOK, Stages, Chatting
  <2>8. Validated' /\ Accepted'
    BY <2>1, <2>2, <2>6 DEF Validated, Accepted
  <2>9. Waiting' /\ Undecided'
    BY <2>1, <2>2 DEF Inv, Waiting, Undecided
  <2>10. Counted' /\ ChatsBounded'
    BY <2>1, <2>2, <2>3, <2>4, <2>6 DEF Counted, ChatsBounded
  <2>11. RunsWhatWasAccepted' /\ RefusalRunsNothing'
    BY <2>1, <2>2 DEF Inv, Waiting, Undecided, RunsWhatWasAccepted, RefusalRunsNothing, NoFailure
  <2>12. QED
    BY <2>7, <2>8, <2>9, <2>10, <2>11 DEF Inv
<1>4. CASE Evaluate
  <2>1. pc = "evaluating" /\ pc' = "adapting"
    BY <1>4 DEF Evaluate
  <2>2. UNCHANGED draft /\ UNCHANGED repair /\ UNCHANGED <<accepted, size, ran, option, failure>>
    BY <1>4 DEF Evaluate, graphs, verdict
  <2>3. (asked = 2 \/ (asked = 3 /\ draft.strict = "refused")) /\ steps = asked /\ usage = asked /\ billed = asked
    BY <2>1 DEF Inv, Counted
  <2>4. asked' = asked + 1 /\ steps' = asked' /\ usage' = asked' /\ billed' = asked'
    BY <1>4, <2>3 DEF Evaluate, Answered
  <2>5. asked' \in 0 .. 4
    BY <2>3, <2>4
  <2>6. accepted # "none"
    BY <2>1 DEF Inv, Validated, Accepted
  <2>7. TypeOK'
    BY <2>1, <2>2, <2>4, <2>5 DEF Inv, TypeOK, Stages, Chatting
  <2>8. Validated' /\ Accepted'
    BY <2>1, <2>2, <2>6 DEF Validated, Accepted
  <2>9. Waiting' /\ Undecided'
    BY <2>1, <2>2 DEF Inv, Waiting, Undecided
  <2>10. Counted' /\ ChatsBounded'
    BY <2>1, <2>2, <2>3, <2>4 DEF Counted, ChatsBounded
  <2>11. RunsWhatWasAccepted' /\ RefusalRunsNothing'
    BY <2>1, <2>2 DEF Inv, Undecided, RunsWhatWasAccepted, RefusalRunsNothing, NoFailure
  <2>12. QED
    BY <2>7, <2>8, <2>9, <2>10, <2>11 DEF Inv
<1>5. QED
  BY <1>1, <1>2, <1>3, <1>4

\* A chat that raised ends the question as one of its own failures.
LEMMA ChatRaisesInv == ASSUME Inv, ChatRaises PROVE Inv'
<1>1. PICK f \in ChatFailures : usage' \in {usage, usage + 1} /\ billed' \in {billed, billed + 1}
                                /\ Fail(f)
  BY DEF ChatRaises, Inv, TypeOK
<1>2. f \in FailureTypes /\ f # "graph_validation_failure"
  BY DEF ChatFailures, FailureTypes, Infrastructure, Truncation, ContextOverflow, Reasoning
<1>3. pc \in Chatting /\ asked' = asked + 1
      /\ UNCHANGED <<draft, repair, accepted, size, ran, steps>>
  BY DEF ChatRaises, graphs
<1>4. pc' = "done" /\ failure' = f /\ UNCHANGED option
  BY <1>1 DEF Fail
<1>5. asked \in 0 .. 3 /\ (asked = 3 => draft.strict = "refused")
      /\ usage = asked /\ billed = asked
  BY <1>3 DEF Inv, Counted, Validated, Chatting
<1>6. asked' \in 0 .. 4 /\ usage' \in 0 .. 4 /\ billed' \in 0 .. 4
  BY <1>1, <1>3, <1>5
<1>7. TypeOK'
  BY <1>2, <1>3, <1>4, <1>6 DEF Inv, TypeOK, Stages
<1>8. ChatsBounded'
  BY <1>3, <1>5 DEF ChatsBounded
<1>9. Validated' /\ Waiting' /\ Accepted' /\ Counted' /\ Undecided'
  BY <1>4 DEF Validated, Waiting, Accepted, Counted, Undecided
<1>10. RunsWhatWasAccepted' /\ RefusalRunsNothing'
  BY <1>2, <1>3, <1>4 DEF Inv, RunsWhatWasAccepted, RefusalRunsNothing
<1>11. QED
  BY <1>7, <1>8, <1>9, <1>10 DEF Inv

\* A pass accepts the graph it judges, hands it on, or ends the question.
LEMMA ValidationInv ==
  ASSUME Inv, ValidateDraft \/ ValidateRepair \/ RelaxRepair \/ RelaxDraft
  PROVE  Inv'
<1>1. UNCHANGED <<draft, repair, ran, steps, asked, usage, billed, option>>
  BY DEF ValidateDraft, ValidateRepair, RelaxRepair, RelaxDraft, Judge, Accept, Fail, costs,
         verdict
<1>2. accepted = "none" /\ size = 0 /\ ran = <<>> /\ option = FALSE /\ failure = NoFailure
  BY DEF Inv, Waiting, Undecided, ValidateDraft, ValidateRepair, RelaxRepair, RelaxDraft
<1>3. /\ asked \in {2, 3} /\ steps = asked /\ usage = asked /\ billed = asked
      /\ asked = 3 => draft.strict = "refused"
  BY DEF Inv, Counted, Validated, ValidateDraft, ValidateRepair, RelaxRepair, RelaxDraft
<1>4. draft \in Graph /\ repair \in Graph
  BY DEF Inv, TypeOK
\* It ended, or it went on to the next pass, or to the execution.
<1>5. CASE pc' = "done" /\ failure' = Reasoning /\ UNCHANGED <<accepted, size>>
  <2>1. TypeOK' /\ Validated' /\ Waiting' /\ Accepted'
    BY <1>1, <1>5
    DEF Inv, TypeOK, Validated, Waiting, Accepted, Stages, FailureTypes
  <2>2. Counted' /\ Undecided' /\ ChatsBounded'
    BY <1>1, <1>3, <1>5 DEF Counted, Undecided, ChatsBounded
  <2>3. RunsWhatWasAccepted' /\ RefusalRunsNothing'
    BY <1>1, <1>2, <1>5 DEF RunsWhatWasAccepted, RefusalRunsNothing, Reasoning
  <2>4. QED
    BY <2>1, <2>2, <2>3 DEF Inv
<1>6. CASE RelaxDraft /\ draft.lenient = "refused"
  <2>1. pc = "relaxing_draft" /\ pc' = "done" /\ failure' = "graph_validation_failure"
        /\ UNCHANGED <<accepted, size>>
    BY <1>6 DEF RelaxDraft, Fail
  <2>2. draft = NoGraph /\ repair = NoGraph /\ asked = 3
    BY <1>4, <1>6, <2>1 DEF Inv, Validated, Counted, Graph, NoGraph
  <2>3. TypeOK' /\ Validated' /\ Waiting' /\ Accepted'
    BY <1>1, <2>1 DEF Inv, TypeOK, Validated, Waiting, Accepted, Stages, FailureTypes
  <2>4. Counted' /\ Undecided' /\ ChatsBounded'
    BY <1>1, <1>3, <2>1 DEF Counted, Undecided, ChatsBounded
  <2>5. RunsWhatWasAccepted' /\ RefusalRunsNothing'
    BY <1>1, <1>2, <2>1, <2>2 DEF RunsWhatWasAccepted, RefusalRunsNothing
  <2>6. QED
    BY <2>3, <2>4, <2>5 DEF Inv
<1>7. CASE /\ UNCHANGED <<accepted, size, failure>>
           /\ \/ pc = "validating_draft" /\ pc' = "repairing" /\ draft.strict = "refused"
              \/ pc = "validating_repair" /\ pc' = "relaxing_repair" /\ repair.strict = "refused"
              \/ pc = "relaxing_repair" /\ pc' = "relaxing_draft" /\ repair.lenient = "refused"
  <2>1. TypeOK'
    BY <1>1, <1>7 DEF Inv, TypeOK, Stages, Chatting
  <2>2. Validated'
    BY <1>1, <1>7 DEF Inv, Validated
  <2>3. Waiting' /\ Accepted' /\ Undecided'
    BY <1>1, <1>2, <1>7 DEF Waiting, Accepted, Undecided
  <2>4. Counted' /\ ChatsBounded'
    BY <1>1, <1>3, <1>7 DEF Inv, Counted, ChatsBounded
  <2>5. RunsWhatWasAccepted' /\ RefusalRunsNothing'
    BY <1>1, <1>2, <1>7 DEF RunsWhatWasAccepted, RefusalRunsNothing, NoFailure
  <2>6. QED
    BY <2>1, <2>2, <2>3, <2>4, <2>5 DEF Inv
<1>8. CASE /\ pc' = "executing" /\ size' \in 1 .. MaxGraphSteps /\ UNCHANGED failure
           /\ \/ pc = "validating_draft" /\ accepted' = "draft" /\ draft.strict = "accepted"
              \/ pc = "validating_repair" /\ accepted' = "repair" /\ repair.strict = "accepted"
              \/ pc = "relaxing_repair" /\ accepted' = "lenient_repair"
                 /\ repair.lenient = "accepted"
              \/ pc = "relaxing_draft" /\ accepted' = "lenient_draft"
                 /\ draft.lenient = "accepted"
  <2>1. accepted' \in Passes \ {"none"}
    BY <1>8 DEF Passes
  <2>2. TypeOK'
    BY <1>1, <1>8, <2>1, SpatialAssumption DEF Inv, TypeOK, Stages
  <2>3. Validated' /\ Waiting' /\ Accepted' /\ Undecided'
    BY <1>1, <1>2, <1>8, <2>1 DEF Validated, Waiting, Accepted, Undecided
  <2>4. Counted' /\ ChatsBounded'
    BY <1>1, <1>3, <1>8 DEF Counted, ChatsBounded
  <2>5. CASE pc = "validating_draft"
    BY <1>1, <1>2, <1>8, <2>2, <2>3, <2>4, <2>5
    DEF Inv, RunsWhatWasAccepted, RefusalRunsNothing, NoFailure
  <2>6. CASE pc = "validating_repair"
    <3>1. draft.strict = "refused"
      BY <2>6 DEF Inv, Validated
    <3>2. QED
      BY <3>1, <1>1, <1>2, <1>8, <2>2, <2>3, <2>4, <2>6
      DEF Inv, RunsWhatWasAccepted, RefusalRunsNothing, NoFailure
  <2>7. CASE pc = "relaxing_repair"
    <3>1. draft.strict = "refused" /\ repair = [strict |-> "refused", lenient |-> "accepted"]
      BY <2>7, <1>4, <1>8 DEF Inv, Validated, Graph
    <3>2. QED
      BY <3>1, <1>1, <1>2, <1>8, <2>2, <2>3, <2>4, <2>7
      DEF Inv, RunsWhatWasAccepted, RefusalRunsNothing, NoFailure
  <2>8. CASE pc = "relaxing_draft"
    <3>1. draft = [strict |-> "refused", lenient |-> "accepted"] /\ repair = NoGraph
      BY <2>8, <1>4, <1>8 DEF Inv, Validated, Graph, NoGraph
    <3>2. QED
      BY <3>1, <1>1, <1>2, <1>8, <2>2, <2>3, <2>4, <2>8
      DEF Inv, RunsWhatWasAccepted, RefusalRunsNothing, NoFailure
  <2>9. QED
    BY <1>8, <2>5, <2>6, <2>7, <2>8
<1>9. QED
  BY <1>5, <1>6, <1>7, <1>8
  DEF ValidateDraft, ValidateRepair, RelaxRepair, RelaxDraft, Judge, Accept, Fail, verdict

\* Running the accepted graph keeps the invariant, and so does whatever ends the question.
LEMMA EndingInv == ASSUME Inv, Execute \/ Adapt \/ Raises PROVE Inv'
<1>1. UNCHANGED <<draft, repair, accepted, size, steps, asked, usage, billed>>
  BY DEF Execute, Adapt, Raises, graphs, costs
<1>2. ChatsBounded'
  BY <1>1 DEF Inv, ChatsBounded
<1>3. CASE Execute
  <2>1. ran' \in Seq(StepResults)
    BY <1>3 DEF Inv, TypeOK, Execute
  <2>2. pc = "executing" /\ pc' \in {"executing", "evaluating"} /\ UNCHANGED <<option, failure>>
    BY <1>3 DEF Execute, verdict
  <2>3. TypeOK' /\ Validated' /\ Waiting'
    BY <1>1, <2>1, <2>2 DEF Inv, TypeOK, Validated, Waiting, Stages, Chatting
  <2>4. Accepted' /\ Counted' /\ Undecided'
    BY <1>1, <2>2 DEF Inv, Accepted, Counted, Undecided
  <2>5. RunsWhatWasAccepted' /\ RefusalRunsNothing'
    BY <1>1, <2>2
    DEF Inv, Accepted, Undecided, RunsWhatWasAccepted, RefusalRunsNothing, NoFailure
  <2>6. QED
    BY <1>2, <2>3, <2>4, <2>5 DEF Inv
<1>4. CASE Adapt \/ Raises
  <2>1. option' \in BOOLEAN /\ failure' \in FailureTypes
        /\ failure' # "graph_validation_failure" /\ pc' = "done" /\ UNCHANGED ran
    BY <1>4 DEF Adapt, Raises, Fail, Inv, TypeOK, FailureTypes, NoFailure, Provider, Reasoning
  <2>2. TypeOK' /\ Validated' /\ Waiting' /\ Accepted' /\ Counted' /\ Undecided'
    BY <1>1, <2>1
    DEF Inv, TypeOK, Validated, Waiting, Accepted, Counted, Undecided, Stages
  <2>3. RunsWhatWasAccepted' /\ RefusalRunsNothing'
    BY <1>1, <2>1 DEF Inv, RunsWhatWasAccepted, RefusalRunsNothing
  <2>4. QED
    BY <1>2, <2>2, <2>3 DEF Inv
<1>5. QED
  BY <1>3, <1>4

\* The invariant is inductive.
LEMMA Invariance == Spec => []Inv
<1>1. Inv /\ [Next]_vars => Inv'
  <2> SUFFICES ASSUME Inv, [Next]_vars PROVE Inv'
    OBVIOUS
  <2>1. CASE UNCHANGED vars
    BY <2>1
    DEF Inv, TypeOK, Validated, Waiting, Accepted, Counted, Undecided, RunsWhatWasAccepted,
        RefusalRunsNothing, ChatsBounded, vars, graphs, costs, verdict
  <2>2. CASE Step
    BY <2>2, ChatInv, ChatRaisesInv, ValidationInv, EndingInv DEF Step
  <2>3. QED
    BY <2>1, <2>2 DEF Next, Done
<1>2. QED
  BY <1>1, InitInv, PTL DEF Spec

----------------------------------------------------------------------------
\* Every variable of the stages keeps its type.
THEOREM StagesTypeCorrect == Spec => []TypeOK
BY Invariance, PTL DEF Inv

\* Whatever graphs the planner drafts and repairs, only an accepted one runs, and a
\* relaxed one only when nothing better was accepted.
THEOREM OnlyAcceptedGraphsRun == Spec => []RunsWhatWasAccepted
BY Invariance, PTL DEF Inv

\* A graph validation failure means that nothing was executed for the question.
THEOREM RefusalsRunNothing == Spec => []RefusalRunsNothing
BY Invariance, PTL DEF Inv

\* A question costs four chats at most.
THEOREM ChatsAreBounded == Spec => []ChatsBounded
BY Invariance, PTL DEF Inv

----------------------------------------------------------------------------
(* The stages implement the contract of an agent.                          *)

\* No step changes whether an API failed, but a step of the graph.
LEMMA BlameKept == ASSUME ran' = ran PROVE ProviderFailed' = ProviderFailed
BY DEF ProviderFailed

\* A step of the graph takes back no blame.
LEMMA BlameGrows ==
  ASSUME Inv, Execute, ProviderFailed
  PROVE  ProviderFailed'
<1>1. CASE ran' = ran
  BY <1>1, BlameKept
<1>2. CASE \E r \in StepResults : ran' = Append(ran, r)
  <2>1. PICK i \in 1 .. Len(ran) : ran[i] = "provider_error"
    BY DEF ProviderFailed
  <2>2. i \in 1 .. Len(ran') /\ ran'[i] = ran[i]
    BY <1>2 DEF Inv, TypeOK
  <2>3. QED
    BY <2>1, <2>2 DEF ProviderFailed
<1>3. QED
  BY <1>1, <1>2 DEF Execute

\* Before the execution no API has failed: nothing ran.
LEMMA AgentInit == Init => Agent!Init
BY DEF Init, Agent!Init, ProviderFailed, NoFailure, Agent!NoFailure

\* Every step of the stages is a step of the contract.
LEMMA AgentStep == ASSUME Inv, Next PROVE Agent!Step \/ UNCHANGED Agent!vars
<1>0. ProviderFailed \in BOOLEAN /\ ProviderFailed' \in BOOLEAN
  BY DEF ProviderFailed
<1>1. CASE Analyze \/ Plan \/ Repair \/ Evaluate
  <2>1. ProviderFailed' = ProviderFailed
    BY <1>1, BlameKept DEF Analyze, Plan, Repair, Evaluate
  <2>2. pc # "done" /\ pc' # "done" /\ Agent!Paid
    BY <1>1 DEF Analyze, Plan, Repair, Evaluate, Answered, Agent!Paid
  <2>3. UNCHANGED <<option, failure>>
    BY <1>1 DEF Analyze, Plan, Repair, Evaluate, verdict
  <2>4. QED
    BY <2>1, <2>2, <2>3, <1>0 DEF Agent!Step
<1>2. CASE ChatRaises
  <2>1. ProviderFailed' = ProviderFailed
    BY <1>2, BlameKept DEF ChatRaises
  <2>2. pc # "done" /\ pc' = "done" /\ option' = FALSE
    BY <1>2 DEF ChatRaises, Fail, Inv, Undecided, Chatting
  <2>3. failure' \in ChatFailures /\ (Agent!Paid \/ UNCHANGED <<usage, billed>>)
        /\ (failure' = Truncation => Agent!Paid)
    BY <1>2 DEF ChatRaises, Fail, Agent!Paid, Inv, TypeOK
  <2>4. Agent!Concluded
    BY <2>2, <2>3
    DEF Agent!Concluded, ChatFailures, Infrastructure, Truncation, ContextOverflow, Reasoning,
        Agent!FailureTypes, Agent!NoFailure, Agent!Infrastructure, Agent!Provider,
        Agent!Truncation, Agent!ContextOverflow, Agent!Reasoning
  <2>5. QED
    BY <2>1, <2>2, <2>3, <2>4, <1>0 DEF Agent!Step
<1>3. CASE ValidateDraft \/ ValidateRepair \/ RelaxRepair \/ RelaxDraft
  <2> USE DEF Judge, Accept, Fail, ValidateDraft, ValidateRepair, RelaxRepair, RelaxDraft
  <2>1. ProviderFailed' = ProviderFailed
    BY <1>3, BlameKept
  <2>2. pc # "done" /\ UNCHANGED <<usage, billed>>
    BY <1>3 DEF costs
  <2>3. \/ pc' # "done" /\ UNCHANGED <<option, failure>>
        \/ pc' = "done" /\ option' = FALSE /\ failure' \in {Reasoning, "graph_validation_failure"}
    BY <1>3 DEF Inv, Undecided, verdict
  <2>4. pc' = "done" => Agent!Concluded
    BY <2>3
    DEF Agent!Concluded, Reasoning, Agent!FailureTypes, Agent!NoFailure, Agent!Truncation,
        Agent!Provider, Agent!Reasoning
  <2>5. QED
    BY <2>1, <2>2, <2>3, <2>4, <1>0 DEF Agent!Step
<1>4. CASE Execute
  <2>1. pc # "done" /\ pc' # "done" /\ UNCHANGED <<usage, billed, option, failure>>
    BY <1>4 DEF Execute, costs, verdict
  <2>2. ProviderFailed' \in {ProviderFailed, TRUE}
    BY <1>4, <1>0, BlameGrows
  <2>3. QED
    BY <2>1, <2>2 DEF Agent!Step
<1>5. CASE Adapt
  <2>1. ProviderFailed' = ProviderFailed
    BY <1>5, BlameKept DEF Adapt
  <2>2. pc # "done" /\ pc' = "done" /\ UNCHANGED <<usage, billed>>
    BY <1>5 DEF Adapt, costs
  <2>3. Agent!Concluded
    BY <1>5, <2>1
    DEF Adapt, Agent!Concluded, NoFailure, Provider, Agent!FailureTypes, Agent!NoFailure,
        Agent!Truncation, Agent!Provider
  <2>4. QED
    BY <2>1, <2>2, <2>3, <1>0 DEF Agent!Step
<1>6. CASE Raises
  <2>1. ProviderFailed' = ProviderFailed
    BY <1>6, BlameKept DEF Raises
  <2>2. pc # "done" /\ pc' = "done" /\ UNCHANGED <<usage, billed>>
    BY <1>6 DEF Raises, Fail, costs
  <2>3. option' = FALSE /\ failure' = Reasoning
    BY <1>6 DEF Raises, Fail, Inv, Undecided
  <2>4. Agent!Concluded
    BY <2>3
    DEF Agent!Concluded, Reasoning, Agent!FailureTypes, Agent!NoFailure, Agent!Truncation,
        Agent!Provider, Agent!Reasoning
  <2>5. QED
    BY <2>1, <2>2, <2>4, <1>0 DEF Agent!Step
<1>7. CASE Done
  BY <1>7, BlameKept DEF Done, vars, costs, verdict, Agent!vars
<1>8. QED
  BY <1>1, <1>2, <1>3, <1>4, <1>5, <1>6, <1>7 DEF Next, Step

\* SpatialAgent.answer keeps the contract of BenchmarkAgent.answer: it ends once, with
\* an option or the failure that explains the miss, and counts every completion.
THEOREM StagesImplementAgent == Spec => AnswerSpec
<1>1. Inv /\ UNCHANGED vars => UNCHANGED Agent!vars
  BY BlameKept DEF vars, costs, verdict, Agent!vars
<1>2. Inv /\ [Next]_vars => [Agent!Step]_(Agent!vars)
  BY <1>1, AgentStep
<1>3. QED
  BY <1>2, AgentInit, Invariance, PTL DEF Spec, AnswerSpec, Agent!Spec

----------------------------------------------------------------------------
(***************************************************************************)
(* The chats the stages are made of (LLMClient), for every budget, timeout  *)
(* and number of retries.                                                   *)
(***************************************************************************)

\* What each location of the loop knows of the attempts and the time spent: a pause
\* is slept only if it ends inside the budget, so a request starts inside it.
ChatControl ==
  /\ chat = "asking" =>
       /\ requests = attempt
       /\ attempt = 0 => elapsed = 0
       /\ attempt > 0 => elapsed < Budget
  /\ chat = "sleeping" =>
       /\ requests = attempt + 1
       /\ attempt < MaxRetries
       /\ elapsed + delay < Budget
  /\ chat \in ChatResults =>
       /\ requests = attempt + 1
       /\ elapsed <= RequestTimeout \/ elapsed < Budget + RequestTimeout

ClientInv == ChatTypeOK /\ ChatControl

\* A pause is a number of ticks.
LEMMA DelaysAreTimes == ASSUME NEW a PROVE RetryDelays(a) \subseteq Nat
BY ClientAssumption DEF RetryDelays

\* The invariant holds of a chat that has sent nothing.
LEMMA ClientInvInit == ChatInit => ClientInv
BY ClientAssumption DEF ChatInit, ClientInv, ChatTypeOK, ChatControl, ChatResults

\* Any one of a request's ends keeps the invariant: only the pause may go on, and
\* it is weighed against the budget first.
LEMMA RequestInv ==
  ASSUME ClientInv, NEW d \in 0 .. RequestTimeout, Served(d) \/ Refused(d) \/ Unserved(d)
  PROVE  ClientInv'
<1> USE ClientAssumption DEF ClientInv, ChatTypeOK, ChatControl, ChatResults
<1>1. CASE Served(d)
  BY <1>1 DEF Served
<1>2. CASE Refused(d)
  BY <1>2 DEF Refused
<1>3. CASE Unserved(d) /\ OutOfAttempts
  BY <1>3 DEF Unserved, OutOfAttempts
<1>4. CASE Unserved(d) /\ ~OutOfAttempts
  <2>1. PICK pause \in RetryDelays(attempt) :
          IF OutOfTime(pause)
          THEN chat' = "unavailable" /\ UNCHANGED delay
          ELSE chat' = "sleeping" /\ delay' = pause
    BY <1>4 DEF Unserved
  <2>2. pause \in Nat
    BY DelaysAreTimes
  <2>3. attempt < MaxRetries
    BY <1>4 DEF OutOfAttempts
  <2> QED
    BY <1>4, <2>1, <2>2, <2>3 DEF Unserved, OutOfTime
<1> QED
  BY <1>1, <1>2, <1>3, <1>4

\* Waking up starts the next attempt, still inside the budget.
LEMMA WakeInv == ASSUME ClientInv, Wake PROVE ClientInv'
BY ClientAssumption DEF ClientInv, ChatTypeOK, ChatControl, ChatResults, Wake

\* The invariant is inductive.
LEMMA ClientInvHolds == ChatSpec => []ClientInv
<1>1. ClientInv /\ [ChatNext]_chatVars => ClientInv'
  <2> SUFFICES ASSUME ClientInv, [ChatNext]_chatVars PROVE ClientInv'
    OBVIOUS
  <2>1. CASE \E d \in 0 .. RequestTimeout : Served(d) \/ Refused(d) \/ Unserved(d)
    BY <2>1, RequestInv
  <2>2. CASE Wake
    BY <2>2, WakeInv
  <2>3. CASE ChatEnded \/ UNCHANGED chatVars
    BY <2>3 DEF ChatEnded, chatVars, ClientInv, ChatTypeOK, ChatControl
  <2> QED
    BY <2>1, <2>2, <2>3 DEF ChatNext, ChatStep
<1> QED
  BY ClientInvInit, <1>1, PTL DEF ChatSpec

\* The chat's variables keep their types.
THEOREM ChatTypeCorrect == ChatSpec => []ChatTypeOK
BY ClientInvHolds, PTL DEF ClientInv

\* No request is sent once the budget is spent (_request_with_retries weighs the
\* pause before it sleeps it).
THEOREM BudgetStopsRequests == ChatSpec => []NoRequestPastBudget
<1>1. ClientInv => NoRequestPastBudget
  BY DEF ClientInv, ChatControl, NoRequestPastBudget
<1> QED
  BY <1>1, ClientInvHolds, PTL

\* A chat never holds its worker for a budget and a request timeout.
THEOREM ChatNeverOverstays == ChatSpec => []ChatTimeBounded
<1>1. ClientInv => ChatTimeBounded
  BY ClientAssumption DEF ClientInv, ChatTypeOK, ChatControl, ChatTimeBounded, ChatResults
<1> QED
  BY <1>1, ClientInvHolds, PTL

\* The requests sent are the attempts the error reports, at most MaxRetries + 1.
THEOREM RequestsAreCounted == ChatSpec => []RequestsCounted
<1>1. ClientInv => RequestsCounted
  BY ClientAssumption DEF ClientInv, ChatTypeOK, ChatControl, RequestsCounted, ChatResults
<1> QED
  BY <1>1, ClientInvHolds, PTL
=============================================================================
