---------------------------- MODULE BenchmarkRun ----------------------------
(***************************************************************************)
(* What a benchmark run promises, with no worker, queue or session in it:  *)
(* every question gets one row, which is never changed; the run is         *)
(* reported when no worker failed and every row is there, and is aborted   *)
(* only because a worker failed.                                           *)
(***************************************************************************)
EXTENDS QuestionRow

VARIABLES
  rows,      \* the row of each question, NoRow before it has one
  failed,    \* has a worker failed?
  outcome    \* "running", "reported" or "aborted"

vars == <<rows, failed, outcome>>

Init ==
  /\ rows = [i \in Questions |-> NoRow]
  /\ failed = FALSE
  /\ outcome = "running"

\* A row i may keep: its own, after at most Retries + 1 attempts, and one that an
\* API failed only when no attempt was left.
Admissible(i, r) ==
  /\ r.of = i
  /\ r.attempts \in 1 .. (Retries + 1)
  /\ IsTransient(r) => r.attempts = Retries + 1

Answer(i) ==
  /\ outcome = "running"
  /\ rows[i] = NoRow
  /\ rows'[i] \in Row
  /\ Admissible(i, rows'[i])
  /\ rows' = [rows EXCEPT ![i] = rows'[i]]
  /\ UNCHANGED <<failed, outcome>>

Fail ==
  /\ outcome = "running"
  /\ failed' = TRUE
  /\ UNCHANGED <<rows, outcome>>

Report ==
  /\ outcome = "running"
  /\ ~failed
  /\ \A i \in Questions : rows[i] # NoRow
  /\ outcome' = "reported"
  /\ UNCHANGED <<rows, failed>>

Abort ==
  /\ outcome = "running"
  /\ failed
  /\ outcome' = "aborted"
  /\ UNCHANGED <<rows, failed>>

Next ==
  \/ \E i \in Questions : Answer(i)
  \/ Fail
  \/ Report
  \/ Abort

Spec == Init /\ [][Next]_vars
=============================================================================
