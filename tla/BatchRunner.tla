----------------------------- MODULE BatchRunner -----------------------------
(***************************************************************************)
(* A batch: many tables under one run id (orchestration/batch_runner.py).  *)
(* The main thread groups the tables into dependency levels, opens the run *)
(* row, hands each level to a pool of workers, and closes the row on every *)
(* way out.  A worker executes TableRunner.run_with_retries; here only its *)
(* task row and the outcome it returns, or the error that escapes from it, *)
(* are kept (module TableRunner has the rest).                             *)
(***************************************************************************)
EXTENDS Naturals, FiniteSets

CONSTANTS Tables,          \* every table of the configuration
          Disabled,        \* those with runtime.enabled: false
          MaxWorkers,      \* --max-workers
          SkipDependents,  \* not --continue-on-failure
          Retries          \* runtime.retries

ASSUME BatchAssumption == /\ IsFiniteSet(Tables)
                          /\ Disabled \subseteq Tables
                          /\ MaxWorkers \in Nat \ {0}
                          /\ SkipDependents \in BOOLEAN
                          /\ Retries \in Nat

VARIABLES
  selected,   \* the tables of this batch (the specs argument)
  deps,       \* table.depends_on of each table
  phase,      \* where the main thread is
  level,      \* the level order_tables put a table in, 0 before that
  depth,      \* number of levels so far
  cur,        \* the level being executed
  failed,     \* the set `failed': failed and blocked tables
  outcome,    \* result.outcomes: the status recorded for a table
  status,     \* result.status
  runRow,     \* the row in ingestion_runs
  work,       \* the future of each table
  attempt,    \* the attempt its worker is executing
  taskRow     \* status of the newest row of the table in ingestion_tasks

args == <<selected, deps>>
mainVars == <<phase, level, depth, cur, failed, outcome, status, runRow>>
workVars == <<work, attempt, taskRow>>
vars == <<args, mainVars, workVars>>

Phase == {"order", "partition", "level", "closing",
          "done", "refused", "raised", "crashed"}

Over == {"done", "refused", "raised", "crashed"}

Result == {"SUCCEEDED", "FAILED", "SKIPPED"}

Ended == Result \cup {"raised"}

Busy == {"starting", "running"}

RunStatus == {"RUNNING", "SUCCEEDED", "FAILED", "PARTIAL"}

TypeOK == /\ selected \subseteq Tables
          /\ deps \in [Tables -> SUBSET Tables]
          /\ phase \in Phase
          /\ level \in [Tables -> Nat]
          /\ depth \in Nat
          /\ cur \in Nat
          /\ failed \subseteq Tables
          /\ outcome \in [Tables -> Result \cup {"NONE"}]
          /\ status \in RunStatus
          /\ runRow \in RunStatus \cup {"NONE"}
          /\ work \in [Tables -> {"none", "queued"} \cup Busy \cup Ended]
          /\ attempt \in [Tables -> 1..(Retries + 1)]
          /\ taskRow \in [Tables -> {"NONE", "RUNNING", "SUCCEEDED", "FAILED"}]

\* select_specs: by name, group or domain, any set of tables.
Selections == SUBSET Tables

\* cmd_run: any selection but the empty one, with any dependencies between
\* the tables.
Init == /\ selected \in Selections \ {{}}
        /\ deps \in [Tables -> SUBSET Tables]
        /\ phase = "order"
        /\ level = [t \in Tables |-> 0]
        /\ depth = 0
        /\ cur = 1
        /\ failed = {}
        /\ outcome = [t \in Tables |-> "NONE"]
        /\ status = "RUNNING"
        /\ runRow = "NONE"
        /\ work = [t \in Tables |-> "none"]
        /\ attempt = [t \in Tables |-> 1]
        /\ taskRow = [t \in Tables |-> "NONE"]

----------------------------------------------------------------------------
(* order_tables.                                                           *)

\* Dependencies outside the batch are ignored.
DepsInBatch(t) == deps[t] \cap selected

\* `pending': the tables that have no level yet.
Unordered == {t \in selected : level[t] = 0}

\* MUTANT: a dependency outside the batch counts.
ReadyNeedsAbsentSiblings ==
  {t \in Unordered : \A u \in deps[t] : level[u] # 0}

\* `ready': everything it depends on has a level.
Ready == {t \in Unordered : \A u \in DepsInBatch(t) : level[u] # 0}

SelfDependent == \E t \in selected : t \in DepsInBatch(t)

OrderLevel == /\ phase = "order"
              /\ ~SelfDependent
              /\ Ready # {}
              /\ level' = [t \in Tables |-> IF t \in Ready THEN depth + 1
                                                           ELSE level[t]]
              /\ depth' = depth + 1
              /\ UNCHANGED <<args, phase, cur, failed, outcome, status,
                             runRow, workVars>>

\* DependencyError: a table depends on itself, or none of the rest can
\* start.  Nothing has been written.
Refuse == /\ phase = "order"
          /\ \/ SelfDependent
             \/ Unordered # {} /\ Ready = {}
          /\ phase' = "refused"
          /\ UNCHANGED <<args, level, depth, cur, failed, outcome, status,
                         runRow, workVars>>

----------------------------------------------------------------------------
(* BatchRunner.run: the main thread.                                       *)

\* start_run inserts the row; an error of the INSERT leaves the method.
StartRun == /\ phase = "order"
            /\ Unordered = {}
            /\ \/ /\ phase' = "partition"
                  /\ runRow' = "RUNNING"
               \/ /\ phase' = "raised"
                  /\ runRow' \in {"NONE", "RUNNING"}
            /\ UNCHANGED <<args, level, depth, cur, failed, outcome, status,
                           workVars>>

Level(n) == {t \in selected : level[t] = n}

\* _partition: the tables of the level with a failed dependency.
Blocked == IF SkipDependents
             THEN {t \in Level(cur) : deps[t] \cap failed # {}}
             ELSE {}

\* MUTANT: a blocked table does not block its own dependents.
FailedAfterSkipForgets(skipped) == failed

\* failed.add: the dependents of a blocked table are blocked too.
FailedAfterSkip(skipped) == failed \cup skipped

\* _skip_for_dependency for each of them.
SkipForDependency(skipped) ==
  /\ outcome' = [t \in Tables |-> IF t \in skipped THEN "SKIPPED"
                                                   ELSE outcome[t]]
  /\ failed' = FailedAfterSkip(skipped)

\* The next level: skip what is blocked, submit the rest.
PartitionLevel ==
  /\ phase = "partition"
  /\ cur <= depth
  /\ SkipForDependency(Blocked)
  /\ IF Blocked = Level(cur)
       THEN /\ cur' = cur + 1
            /\ UNCHANGED <<phase, work>>
       ELSE /\ phase' = "level"
            /\ work' = [t \in Tables |-> IF t \in Level(cur) \ Blocked
                                           THEN "queued" ELSE work[t]]
            /\ UNCHANGED cur
  /\ UNCHANGED <<args, level, depth, status, runRow, attempt, taskRow>>

\* A write of the event stream fails in the main thread: the run comes
\* apart, after some of the blocked tables were recorded.
CameApart == /\ phase = "partition"
             /\ \E some \in SUBSET Blocked : SkipForDependency(some)
             /\ status' = "FAILED"
             /\ phase' = "closing"
             /\ UNCHANGED <<args, level, depth, cur, runRow, workVars>>

\* The specs of this level that were handed to _run_level.
Submitted == {t \in Level(cur) : work[t] # "none"}

\* One after the other, or in a pool.
Serial == MaxWorkers = 1 \/ Cardinality(Submitted) = 1

Raised == \E t \in Submitted : work[t] = "raised"

\* MUTANT: the error of a future ends the level while others still run.
LevelOverAtFirstError == Raised \/ \A t \in Submitted : work[t] \in Ended

\* MUTANT: the level waits for an outcome of every table, errors or not.
LevelOverWithResults == \A t \in Submitted : work[t] \in Result

\* A serial level stops at the first error; the pool is left only when
\* every future has ended, the ones still queued included.
LevelOver == \/ \A t \in Submitted : work[t] \in Ended
             \/ Serial /\ Raised

\* _run_level returns the outcomes, or raises and loses them.
LevelEnds ==
  /\ phase = "level"
  /\ LevelOver
  /\ IF Raised \/ status = "FAILED"
       THEN /\ status' = "FAILED"
            /\ phase' = "closing"
            /\ UNCHANGED <<cur, failed, outcome>>
       ELSE /\ outcome' = [t \in Tables |-> IF t \in Submitted THEN work[t]
                                                              ELSE outcome[t]]
            /\ failed' = failed \cup {t \in Submitted : work[t] = "FAILED"}
            /\ cur' = cur + 1
            /\ phase' = "partition"
            /\ UNCHANGED status
  /\ UNCHANGED <<args, level, depth, runRow, workVars>>

\* KeyboardInterrupt while the main thread waits for the pool: it leaves the
\* with block only when the workers are done.
Interrupt == /\ phase = "level"
             /\ ~Serial
             /\ status' = "FAILED"
             /\ UNCHANGED <<args, phase, level, depth, cur, failed, outcome,
                            runRow, workVars>>

Recorded(s) == {t \in Tables : outcome[t] = s}

\* MUTANT: anything short of a total failure is a success.
DeriveRunStatusLenient ==
  IF Recorded("SUCCEEDED") \cup Recorded("SKIPPED") # {} THEN "SUCCEEDED"
                                                        ELSE "FAILED"

\* derive_run_status over the recorded outcomes.
DeriveRunStatus ==
  IF Recorded("FAILED") = {} THEN "SUCCEEDED"
  ELSE IF Recorded("SUCCEEDED") \cup Recorded("SKIPPED") = {} THEN "FAILED"
  ELSE "PARTIAL"

LevelsDone == /\ phase = "partition"
              /\ cur > depth
              /\ status' = DeriveRunStatus
              /\ phase' = "closing"
              /\ UNCHANGED <<args, level, depth, cur, failed, outcome, runRow,
                             workVars>>

\* finally: finish_run, whose error is only logged, and RUN_FINISHED.
FinishRun == /\ phase = "closing"
             /\ runRow' \in {status, runRow}
             /\ phase' = "done"
             /\ UNCHANGED <<args, level, depth, cur, failed, outcome, status,
                            workVars>>

\* The process is lost with all its threads.
Crash == /\ phase \notin Over
         /\ phase' = "crashed"
         /\ UNCHANGED <<args, level, depth, cur, failed, outcome, status,
                        runRow, workVars>>

----------------------------------------------------------------------------
(* A worker: run_with_retries for one table.                               *)

\* Threads end with their process, and leave the main thread's state alone.
WorkerStep == phase # "crashed" /\ UNCHANGED <<args, mainVars>>

\* A worker of the pool, or the serial loop, takes the next table.
TakeTable(t) ==
  /\ WorkerStep
  /\ phase = "level"
  /\ work[t] = "queued"
  /\ Serial => ~Raised
  /\ Cardinality({u \in Tables : work[u] \in Busy})
       < (IF Serial THEN 1 ELSE MaxWorkers)
  /\ work' = [work EXCEPT ![t] = "starting"]
  /\ UNCHANGED <<attempt, taskRow>>

\* _skip: a disabled table has an outcome and no task row.
SkipDisabled(t) == /\ WorkerStep
                   /\ work[t] = "starting"
                   /\ t \in Disabled
                   /\ \E r \in {"SKIPPED", "raised"} :
                        work' = [work EXCEPT ![t] = r]
                   /\ UNCHANGED <<attempt, taskRow>>

\* start_task: a fresh row.  Errors up to here escape from the worker.
StartTask(t) == /\ WorkerStep
                /\ work[t] = "starting"
                /\ t \notin Disabled
                /\ \/ /\ work' = [work EXCEPT ![t] = "running"]
                      /\ taskRow' = [taskRow EXCEPT ![t] = "RUNNING"]
                   \/ /\ work' = [work EXCEPT ![t] = "raised"]
                      /\ \/ UNCHANGED taskRow
                         \/ taskRow' = [taskRow EXCEPT ![t] = "RUNNING"]
                /\ UNCHANGED attempt

TaskSucceeds(t) == /\ WorkerStep
                   /\ work[t] = "running"
                   /\ work' = [work EXCEPT ![t] = "SUCCEEDED"]
                   /\ taskRow' = [taskRow EXCEPT ![t] = "SUCCEEDED"]
                   /\ UNCHANGED attempt

\* MUTANT: one attempt too many.
HasRetryOffByOne(t) == attempt[t] <= Retries + 1

\* for attempt in range(1, retries + 2).
HasRetry(t) == attempt[t] < Retries + 1

(***************************************************************************)
(* _fail.  The FAILED status may not reach the row, which then still shows *)
(* RUNNING, or SUCCEEDED when the error came after finish_task.  Then the  *)
(* next attempt, the failed outcome, or an error that escapes.             *)
(***************************************************************************)
TaskFails(t) ==
  /\ WorkerStep
  /\ work[t] = "running"
  /\ \E row \in {"FAILED", "RUNNING", "SUCCEEDED"} :
       taskRow' = [taskRow EXCEPT ![t] = row]
  /\ \/ /\ HasRetry(t)
        /\ attempt' = [attempt EXCEPT ![t] = attempt[t] + 1]
        /\ work' = [work EXCEPT ![t] = "starting"]
     \/ /\ ~HasRetry(t)
        /\ work' = [work EXCEPT ![t] = "FAILED"]
        /\ UNCHANGED attempt
     \/ /\ work' = [work EXCEPT ![t] = "raised"]
        /\ UNCHANGED attempt

Worker(t) == \/ TakeTable(t) \/ SkipDisabled(t) \/ StartTask(t)
             \/ TaskSucceeds(t) \/ TaskFails(t)

Main == \/ OrderLevel \/ Refuse \/ StartRun \/ PartitionLevel \/ CameApart
        \/ LevelEnds \/ LevelsDone \/ FinishRun

Next == Main \/ Interrupt \/ Crash \/ \E t \in Tables : Worker(t)

Spec == Init /\ [][Next]_vars

\* The threads of a live process go on; a statement returns or raises.
FairSpec == Spec /\ WF_vars(Main) /\ \A t \in Tables : WF_vars(Worker(t))

----------------------------------------------------------------------------
(* Properties.                                                             *)

\* A set of tables can be ordered: every part of it has a table that
\* depends on none of that part.
Acyclic(S) == \A P \in SUBSET S : P # {} => \E t \in P : deps[t] \cap P = {}

(***************************************************************************)
(* order_tables refuses a batch exactly when the tables in it depend on    *)
(* each other in a circle, and it finds out before anything is written.    *)
(***************************************************************************)
RefusedIffCyclic == /\ phase = "refused" => ~Acyclic(selected)
                    /\ phase \notin {"order", "refused", "crashed"}
                         => Acyclic(selected)

(***************************************************************************)
(* No table starts before what it depends on is over and, unless the run   *)
(* continues on failure, has succeeded: through levels, a pool of workers, *)
(* retries and skipped tables (blocked_by, _partition, _run_level).        *)
(***************************************************************************)
DependenciesFirst ==
  \A t \in Tables : work[t] \in Busy \cup Ended =>
    \A u \in DepsInBatch(t) :
      /\ outcome[u] # "NONE"
      /\ SkipDependents => u \in Disabled \/ taskRow[u] = "SUCCEEDED"

(***************************************************************************)
(* The run row tells the truth about the task rows: SUCCEEDED only when    *)
(* every enabled table of the batch has succeeded, PARTIAL only when one   *)
(* failed and one did not (derive_run_status, finish_run).                 *)
(***************************************************************************)
RunRowIsTruthful ==
  /\ runRow = "SUCCEEDED" =>
       \A t \in selected \ Disabled : taskRow[t] = "SUCCEEDED"
  /\ runRow = "PARTIAL" =>
       /\ \E t \in selected : work[t] = "FAILED"
       /\ \E t \in selected : outcome[t] \in {"SUCCEEDED", "SKIPPED"}

(***************************************************************************)
(* No worker is still loading a table when the run row is closed, also     *)
(* when another worker's error or an interrupt ended the run (the pool's   *)
(* with block in _run_level).                                              *)
(***************************************************************************)
ClosedRunIsQuiet == runRow \in {"SUCCEEDED", "FAILED", "PARTIAL"} =>
                      \A t \in Tables : work[t] \notin Busy

(***************************************************************************)
(* Once the run row exists, every way out of BatchRunner.run that does not *)
(* lose the process tries to close it.                                     *)
(***************************************************************************)
RunEnds == phase = "partition" ~> phase \in {"done", "crashed"}

----------------------------------------------------------------------------
(* The inductive invariant behind DependenciesFirst.                       *)

\* A table's level is above the levels of its dependencies in the batch.
LevelsInv == /\ \A t \in Tables : level[t] # 0 =>
                  /\ t \in selected
                  /\ level[t] <= depth
                  /\ \A u \in DepsInBatch(t) : level[u] # 0
                                              /\ level[u] < level[t]
             /\ phase \in {"partition", "level"} => Unordered = {}

\* What the main thread has passed is recorded, what it works on is
\* submitted or recorded, and nothing of a later level has begun.
ProgressInv ==
  /\ phase = "order" => cur = 1 /\ \A t \in Tables : work[t] = "none"
  /\ \A t \in Tables :
       /\ level[t] # 0 /\ level[t] < cur => outcome[t] # "NONE"
       /\ work[t] # "none" => level[t] # 0 /\ level[t] <= cur
       /\ phase = "partition" /\ work[t] # "none" => level[t] < cur
       /\ phase = "level" /\ level[t] = cur
            => work[t] # "none" \/ outcome[t] # "NONE"

\* A table is submitted only when its dependencies are over and well.
SubmittedInv ==
  \A t \in Tables : work[t] # "none" =>
    \A u \in DepsInBatch(t) : /\ outcome[u] # "NONE"
                              /\ SkipDependents => u \notin failed

\* A recorded table outside `failed' has ended well, and its row shows it.
OutcomeInv ==
  \A t \in Tables :
    /\ outcome[t] # "NONE" /\ t \notin failed
         => work[t] \in {"SUCCEEDED", "SKIPPED"}
    /\ work[t] = "SUCCEEDED" => taskRow[t] = "SUCCEEDED"
    /\ work[t] = "SKIPPED" => t \in Disabled

BatchInv == TypeOK /\ LevelsInv /\ ProgressInv /\ SubmittedInv /\ OutcomeInv

(***************************************************************************)
(* And behind RunRowIsTruthful: a table is in `failed' only because some   *)
(* table failed, and once the status is derived all outcomes are final.    *)
(***************************************************************************)
StatusInv ==
  /\ \A t \in Tables : /\ outcome[t] # "NONE" => t \in selected
                       /\ outcome[t] = "FAILED" => work[t] = "FAILED"
  /\ failed # {} => \E t \in Tables : outcome[t] = "FAILED"
  /\ status \in {"SUCCEEDED", "PARTIAL"} =>
       /\ phase \in {"closing", "done", "crashed"}
       /\ status = DeriveRunStatus
       /\ \A t \in selected : outcome[t] # "NONE"
  /\ runRow \in {"SUCCEEDED", "PARTIAL"} => runRow = status /\ phase = "done"

(***************************************************************************)
(* And behind ClosedRunIsQuiet: tables are loaded only while their level   *)
(* is executed, a serial level loads one at a time, and after an error it  *)
(* loads none.                                                             *)
(***************************************************************************)
QuietInv ==
  /\ \A t \in Tables :
       /\ work[t] \in Busy => phase \in {"level", "crashed"} /\ level[t] = cur
       /\ work[t] = "queued" /\ phase \in {"partition", "level"}
            => phase = "level" /\ level[t] = cur
  /\ phase = "level" /\ Serial =>
       /\ \A t, u \in Tables : work[t] \in Busy /\ work[u] \in Busy => t = u
       /\ Raised => \A t \in Tables : work[t] \notin Busy
  /\ runRow \in {"SUCCEEDED", "FAILED", "PARTIAL"} => phase = "done"
=============================================================================
