----------------------------- MODULE Monitoring -----------------------------
(***************************************************************************)
(* The dashboard queries over the control tables                           *)
(* (observability/monitoring.py), for one table.  The time windows of the  *)
(* queries (last 7 days) are taken to hold all rows.                       *)
(***************************************************************************)
EXTENDS ControlStore, FiniteSetsExt

\* table_health, final_attempts: the rows of the latest attempt of each run.
FinalAttempts == {i \in DOMAIN tasks : IsLatest(i)}

\* table_health: COUNT(*), succeeded and failed.
TableHealth ==
  LET final == FinalAttempts
      Rows(s) == {i \in final : tasks[i].status = s}
  IN [runs |-> Cardinality(final),
      succeeded |-> Cardinality(Rows("SUCCEEDED")),
      failed |-> Cardinality(Rows("FAILED"))]

\* WHERE status = 'SUCCEEDED'; SUM leaves NULLs out.
CountsForVolume(row) == row.status = "SUCCEEDED" /\ row.written # Null

\* SUM of the natural numbers f[x]: the pairs of an x and one of its units.
Units(f) == UNION {{<<x, n>> : n \in 1..f[x]} : x \in DOMAIN f}
Total(f) == Cardinality(Units(f))

\* volume_trend: SUM(rows_written).
VolumeTrend == LET rows == {i \in DOMAIN tasks : CountsForVolume(tasks[i])}
               IN Total([i \in rows |-> tasks[i].written])

\* watermark_stalls, recent: the newest `n' rows in SUCCEEDED.
RecentSuccesses(n) ==
  LET ok == {i \in DOMAIN tasks : tasks[i].status = "SUCCEEDED"}
  IN {i \in ok : Cardinality({j \in ok : j > i}) < n}

\* watermark_stalls: HAVING all of them without watermark_to, and `n' rows.
Stalled(n) == /\ Cardinality(RecentSuccesses(n)) = n
              /\ \A i \in RecentSuccesses(n) : tasks[i].to = Null

\* reconciliation_issues: FAILED or WARNED; a row count check never warns.
ReconciliationIssues == {i \in DOMAIN checks : checks[i].status = "FAILED"}
=============================================================================
