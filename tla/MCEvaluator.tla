---------------------------- MODULE MCEvaluator ----------------------------
(* Small pools for TLC.                                                    *)
EXTENDS Evaluator

\* One verdict of each kind the retry tells apart.
MCAnswers ==
  {[failure |-> "none", error |-> "other"],
   [failure |-> "provider_failure", error |-> "PlaceNotFoundError"],
   [failure |-> "provider_failure", error |-> "ProviderTimeoutError"]}

MCExceptions == {"llm_unavailable", "agent_reasoning_failure"}
=============================================================================
