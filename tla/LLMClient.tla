----------------------------- MODULE LLMClient -----------------------------
(***************************************************************************)
(* OpenAIChatClient.chat: the requests one completion costs, the pauses    *)
(* between them, the attempt count and the time budget that end them, and  *)
(* the exception or the response the agent gets. Time is counted in ticks  *)
(* since the first request (time.monotonic() - started).                   *)
(***************************************************************************)
EXTENDS Integers

CONSTANTS
  MaxRetries,      \* llm_max_retries
  Backoff,         \* llm_retry_backoff_seconds
  MaxDelay,        \* MAX_RETRY_DELAY_SECONDS
  Budget,          \* llm_retry_time_budget_seconds
  RequestTimeout   \* llm_timeout_seconds, the bound on one request

ASSUME ClientAssumption ==
  /\ MaxRetries \in Nat
  /\ Backoff \in Nat /\ MaxDelay \in Nat
  /\ Budget \in Nat
  /\ RequestTimeout \in Nat

VARIABLES
  chat,      \* "asking", "sleeping", or how the chat ended
  attempt,   \* the attempt of the loop
  elapsed,   \* ticks since the chat started
  delay,     \* the pause being slept
  requests   \* history: requests sent to the endpoint

chatVars == <<chat, attempt, elapsed, delay, requests>>

ChatResults == {"answered", "truncated", "overflow", "rejected", "unavailable"}

ChatTypeOK ==
  /\ chat \in {"asking", "sleeping"} \cup ChatResults
  /\ attempt \in 0 .. MaxRetries
  /\ elapsed \in Nat
  /\ delay \in Nat
  /\ requests \in Nat

ChatInit ==
  /\ chat = "asking"
  /\ attempt = 0
  /\ elapsed = 0
  /\ delay = 0
  /\ requests = 0

\* _retry_delay: the doubled pause, capped, times a jitter of 0.5 up to 1.5.
Base(a) == IF Backoff * 2^a < MaxDelay THEN Backoff * 2^a ELSE MaxDelay
RetryDelays(a) == {d \in 0 .. 2 * MaxDelay : Base(a) <= 2 * d /\ 2 * d <= 3 * Base(a)}

\* The endpoint served the request: a completion, or one the ceiling cut off.
Served(d) ==
  /\ chat = "asking"
  /\ elapsed' = elapsed + d
  /\ requests' = requests + 1
  /\ chat' \in {"answered", "truncated"}
  /\ UNCHANGED <<attempt, delay>>

\* 400, 413 or 422: the request is at fault and is not sent again.
Refused(d) ==
  /\ chat = "asking"
  /\ elapsed' = elapsed + d
  /\ requests' = requests + 1
  /\ chat' \in {"overflow", "rejected"}
  /\ UNCHANGED <<attempt, delay>>

OutOfAttempts == attempt >= MaxRetries

\* Mutant of OutOfTime: the pause is not counted against the budget.
OutOfTimeNow(d) == elapsed' >= Budget
OutOfTime(d) == elapsed' + d >= Budget

\* No connection, a timeout, or any other status: ask again after a pause while
\* there are attempts left and the pause ends inside the budget.
Unserved(d) ==
  /\ chat = "asking"
  /\ elapsed' = elapsed + d
  /\ requests' = requests + 1
  /\ IF OutOfAttempts
     THEN chat' = "unavailable" /\ UNCHANGED delay
     ELSE \E pause \in RetryDelays(attempt) :
            IF OutOfTime(pause)
            THEN chat' = "unavailable" /\ UNCHANGED delay
            ELSE chat' = "sleeping" /\ delay' = pause
  /\ UNCHANGED attempt

\* Mutant of Wake: the pause starts over when it ends.
WakeAgain ==
  /\ chat = "sleeping"
  /\ UNCHANGED chatVars

\* time.sleep(delay), and the loop comes round.
Wake ==
  /\ chat = "sleeping"
  /\ elapsed' = elapsed + delay
  /\ attempt' = attempt + 1
  /\ delay' = 0
  /\ chat' = "asking"
  /\ UNCHANGED requests

ChatEnded == chat \in ChatResults /\ UNCHANGED chatVars

ChatStep == (\E d \in 0 .. RequestTimeout : Served(d) \/ Refused(d) \/ Unserved(d)) \/ Wake
ChatNext == ChatStep \/ ChatEnded

ChatSpec == ChatInit /\ [][ChatNext]_chatVars

\* The agent's thread runs, and a request returns by its timeout.
ChatFairSpec == ChatSpec /\ WF_chatVars(ChatStep)
----------------------------------------------------------------------------
(* Properties.                                                             *)

\* No request is sent once the budget is spent, whatever the pauses before it were:
\* the pause is weighed before it is slept.
NoRequestPastBudget == (chat = "asking" /\ attempt > 0) => elapsed < Budget

\* A chat holds its worker for less than the budget and one request more, or for
\* one request: the attempts times their timeouts are no bound on it.
ChatTimeBounded ==
  \/ elapsed <= RequestTimeout
  \/ elapsed < Budget + RequestTimeout

\* The endpoint is asked once more than MaxRetries at most, and the count the error
\* message gives (attempt + 1) is the number of requests sent.
RequestsCounted ==
  /\ requests <= MaxRetries + 1
  /\ chat \in ChatResults => requests = attempt + 1

\* The agent always gets a response or an exception.
ChatEnds == <>(chat \in ChatResults)
=============================================================================
