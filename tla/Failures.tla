------------------------------ MODULE Failures ------------------------------
(* The failure types a question can be recorded with: what an agent, or   *)
(* the evaluator around it, writes into a row's failure_type.              *)

NoFailure == "none"
Infrastructure == "llm_unavailable"
Provider == "provider_failure"
Truncation == "llm_output_truncated"
ContextOverflow == "llm_context_overflow"
Reasoning == "agent_reasoning_failure"

FailureTypes ==
  {NoFailure, Infrastructure, Provider, Truncation, ContextOverflow, Reasoning,
   "graph_validation_failure", "iteration_limit", "answer_parse_failure",
   "grounded_answer_unmatched"}

\* What a chat can raise into the agent that asked for it.
ChatFailures == {Infrastructure, Truncation, ContextOverflow, Reasoning}
=============================================================================
