-------------------------- MODULE ReportStatistics --------------------------
(***************************************************************************)
(* What calculate_statistics says of the retries of a run, as a            *)
(* function of its rows: the ids it counts as retried and as recovered.    *)
(***************************************************************************)
EXTENDS QuestionRow, FiniteSets

RetriedIds(rows) == {i \in Questions : rows[i].attempts > 1}

\* retry_recovered_ids: asked again, and not ended by an API the last time.
RecoveredIds(rows) == {i \in RetriedIds(rows) : ~IsTransient(rows[i])}
=============================================================================
