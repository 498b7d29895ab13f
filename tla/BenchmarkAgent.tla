--------------------------- MODULE BenchmarkAgent ---------------------------
(***************************************************************************)
(* What answer() promises the evaluator, whichever agent runs it: it ends  *)
(* once, with an option or with the failure that explains the miss, and it *)
(* counts every completion the endpoint wrote.                             *)
(***************************************************************************)
EXTENDS Naturals, Failures

VARIABLES
  done,     \* has answer() returned?
  option,   \* predicted_answer is not None
  failure,  \* failure_type
  blamed,   \* the trace holds a serialized provider failure
  usage,    \* completions counted in the token columns
  billed    \* completions the endpoint wrote

vars == <<done, option, failure, blamed, usage, billed>>

Init ==
  /\ done = FALSE
  /\ option = FALSE
  /\ failure = NoFailure
  /\ blamed = FALSE
  /\ usage = 0
  /\ billed = 0

\* A completion is written and counted in one step, the truncated one included.
Paid == usage' = usage + 1 /\ billed' = billed + 1

\* An option and a failure exclude each other. An API is blamed only if one failed,
\* and an answer nobody can read is the agent's own only if none did.
Concluded ==
  /\ failure' \in FailureTypes
  /\ option' <=> failure' = NoFailure
  /\ failure' = Truncation => Paid
  /\ failure' = Provider => blamed'
  /\ failure' \in {"answer_parse_failure", "grounded_answer_unmatched"} => ~blamed'

Step ==
  /\ ~done
  /\ done' \in BOOLEAN
  /\ Paid \/ UNCHANGED <<usage, billed>>
  /\ blamed' \in {blamed, TRUE}
  /\ IF done' THEN Concluded ELSE UNCHANGED <<option, failure>>

Spec == Init /\ [][Step]_vars
=============================================================================
