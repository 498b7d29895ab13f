---------------------------- MODULE QuestionRow ----------------------------
(***************************************************************************)
(* The row the evaluator keeps of a question, reduced to what its control  *)
(* reads: whose row it is, how the question failed, how often it was asked *)
(* and what the kept attempt cost.                                         *)
(***************************************************************************)
EXTENDS Integers, Failures

CONSTANTS
  NQ,          \* len(dataset)
  Retries,     \* question_retries: how often a question is asked again
  NoRow        \* the None of ordered_results

Questions == 1 .. NQ

\* For a provider failure, the exception its message starts with.
TransientErrors == {"ProviderTimeoutError", "ProviderRateLimitError"}
ErrorNames == TransientErrors \cup {"PlaceNotFoundError", "ProviderResponseError", "other"}

Verdict == [failure : FailureTypes, error : ErrorNames]

Row == [of : Questions, failure : FailureTypes, error : ErrorNames,
        attempts : Nat, llm_calls : Nat]

ASSUME RowAssumption ==
  /\ NQ \in Nat
  /\ Retries \in Nat
  /\ NoRow \notin Row \cup Verdict

\* Mutant of IsTransient: every provider failure is asked again for, not found too.
RetriesEveryProviderFailure(v) == v.failure \in {Infrastructure, Provider}

\* An API could not answer right now. A place that does not exist is evidence,
\* and so is every failure of the agent's own reasoning.
IsTransient(v) ==
  \/ v.failure = Infrastructure
  \/ v.failure = Provider /\ v.error \in TransientErrors

=============================================================================
