---------------------------- MODULE ControlStore ----------------------------
(***************************************************************************)
(* The control tables (control/control_store.py), as far as one table of   *)
(* one environment sees them: run rows, task rows, reconciliation rows and *)
(* the config registry.  Each operator is one SQL statement.  The tables   *)
(* have no constraints: an INSERT never collides, and an UPDATE changes    *)
(* every row its WHERE clause finds.  A sequence keeps rows in the order   *)
(* of their inserts, which is the order of started_at.                     *)
(***************************************************************************)
EXTENDS Integers, Sequences

CONSTANTS RunIds,   \* run ids
          Hashes    \* config hashes: the configurations a run may use

VARIABLES runs,       \* ingestion_runs
          tasks,      \* ingestion_tasks
          checks,     \* reconciliation, the row_count checks
          registry    \* config_registry: last_run_id of each known hash

storeVars == <<runs, tasks, checks, registry>>

\* A column that is NULL.
Null == -1

Terminal == {"SUCCEEDED", "FAILED", "SKIPPED"}

RunRow == [run_id : RunIds, status : {"RUNNING", "SUCCEEDED", "FAILED", "PARTIAL"}]

TaskRow == [run_id : RunIds, attempt : Nat, hash : Hashes,
            status : {"RUNNING"} \cup Terminal,
            from : Int, to : Int, count : Int, written : Int]

CheckRow == [run_id : RunIds, status : {"PASSED", "FAILED", "SKIPPED"}]

StoreTypeOK == /\ runs \in Seq(RunRow)
               /\ tasks \in Seq(TaskRow)
               /\ checks \in Seq(CheckRow)
               /\ DOMAIN registry \in SUBSET Hashes
               /\ \A h \in DOMAIN registry : registry[h] \in RunIds

\* After init-control: CREATE TABLE IF NOT EXISTS, all empty.
StoreInit == /\ runs = <<>>
             /\ tasks = <<>>
             /\ checks = <<>>
             /\ registry = <<>>

\* UPDATE ... WHERE: the rows that match are changed, all of them.
UpdateWhere(rows, Matches(_), Change(_)) ==
  [i \in DOMAIN rows |-> IF Matches(rows[i]) THEN Change(rows[i]) ELSE rows[i]]

----------------------------------------------------------------------------
(* Runs.                                                                   *)

StartRun(r) == runs' = Append(runs, [run_id |-> r, status |-> "RUNNING"])

FinishRun(r, status) ==
  LET Matches(row) == row.run_id = r
      Change(row) == [row EXCEPT !.status = status]
  IN runs' = UpdateWhere(runs, Matches, Change)

----------------------------------------------------------------------------
(* Tasks.                                                                  *)

StartTask(r, attempt, hash) ==
  tasks' = Append(tasks, [run_id |-> r, attempt |-> attempt, hash |-> hash,
                          status |-> "RUNNING", from |-> Null, to |-> Null,
                          count |-> Null, written |-> Null])

\* TaskMetrics(): all counters NULL.
NoMetrics == [from |-> Null, to |-> Null, count |-> Null, written |-> Null]

\* assert_transition.
AllowedTransition(current, new) ==
  CASE current = "PENDING" -> new \in {"RUNNING", "SKIPPED"}
    [] current = "RUNNING" -> new \in Terminal
    [] OTHER -> FALSE

\* COALESCE(:watermark_from, watermark_from).
Coalesce(a, b) == IF a # Null THEN a ELSE b

\* MUTANT: the WHERE clause forgets the attempt.
IsAttemptOfTable(row, r, attempt) == row.run_id = r

\* WHERE run_id = ... AND table_fqn = ... AND attempt = ...
IsAttempt(row, r, attempt) == row.run_id = r /\ row.attempt = attempt

\* MUTANT: the window is not recorded.
ClosedRowWithoutWindow(row, status, metrics) ==
  [row EXCEPT !.status = status, !.from = Coalesce(metrics.from, row.from),
              !.count = metrics.count, !.written = metrics.written]

\* SET: a counter that the caller does not pass becomes NULL again.
ClosedRow(row, status, metrics) ==
  [row EXCEPT !.status = status, !.from = Coalesce(metrics.from, row.from),
              !.to = metrics.to, !.count = metrics.count,
              !.written = metrics.written]

\* finish_task.  No caller passes current_status, so what is tested against
\* the state machine is its default and not the row.
FinishTask(r, attempt, status, metrics) ==
  /\ AllowedTransition("RUNNING", status)
  /\ LET Matches(row) == IsAttempt(row, r, attempt)
         Change(row) == ClosedRow(row, status, metrics)
     IN tasks' = UpdateWhere(tasks, Matches, Change)

\* MUTANT: the first attempt stands for the table.
IsLatestFirst(i) ==
  \A j \in DOMAIN tasks : tasks[j].run_id = tasks[i].run_id
                            => tasks[i].attempt <= tasks[j].attempt

\* attempt = (SELECT MAX(attempt) ... of the same run and table).
IsLatest(i) ==
  \A j \in DOMAIN tasks : tasks[j].run_id = tasks[i].run_id
                            => tasks[j].attempt <= tasks[i].attempt

\* task_statuses: the status of the table in run r; more than one row when
\* the attempt was inserted twice.
TaskStatuses(r) == {tasks[i].status : i \in {j \in DOMAIN tasks :
                                               tasks[j].run_id = r /\ IsLatest(j)}}

\* derive_run_status over the outcomes of a batch.
DeriveRunStatus(statuses) ==
  CASE statuses \cap {"PENDING", "RUNNING"} # {} -> "RUNNING"
    [] "FAILED" \notin statuses -> "SUCCEEDED"
    [] statuses = {"FAILED"} -> "FAILED"
    [] OTHER -> "PARTIAL"

----------------------------------------------------------------------------
(* Reconciliation and the config registry.                                 *)

RecordChecks(r, status) ==
  checks' = Append(checks, [run_id |-> r, status |-> status])

\* register_config: a MERGE keyed by hash, table and environment; a known
\* configuration is touched, a new one inserted.  The instants it records
\* (first_seen_at, last_seen_at) are left out.
RegisterConfig(h, r) ==
  registry' = [g \in DOMAIN registry \cup {h} |-> IF g = h THEN r
                                                         ELSE registry[g]]
=============================================================================
