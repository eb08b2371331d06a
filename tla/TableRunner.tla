----------------------------- MODULE TableRunner -----------------------------
(***************************************************************************)
(* One incremental table with a merge target, and the drivers that may be  *)
(* working on it: the scheduled job, an operator's `ingest run', an        *)
(* `ingest backfill'.  Each driver executes TableRunner.run_with_retries   *)
(* (orchestration/runner.py) over the shared source, the shared Bronze     *)
(* table and the shared watermark row.  A step of a driver is one          *)
(* statement that reads or writes shared state; anything may happen        *)
(* between two of them, and an error or the loss of the driver may take    *)
(* the place of any of them.                                               *)
(*                                                                         *)
(* The DataFrame that the extract returns is lazy: the source is counted   *)
(* in one query, and read again in another when the MERGE runs.            *)
(***************************************************************************)
EXTENDS OracleSource, Watermark, FiniteSets

CONSTANTS Drivers,         \* processes that run this table, each many times
          Retries,         \* runtime.retries
          UseUpperBound,   \* incremental.use_upper_bound
          MaxFaults        \* bound: errors and crashes in a behaviour

ASSUME RunnerAssumption == /\ IsFiniteSet(Keys)
                           /\ Retries \in Nat
                           /\ UseUpperBound \in BOOLEAN
                           /\ MaxFaults \in Nat

VARIABLES
  target,      \* the Bronze table: the row of each key
  mark,        \* watermarks.watermark_value of this table
  lastWrite,   \* rows written by the newest commit in the Delta history
  pc,          \* where each driver is in its run
  attempt,     \* the attempt it is executing
  lower,       \* window.lower_bound of the attempt
  newMark,     \* extract.new_watermark
  count,       \* extract.source_count
  batch,       \* the rows its MERGE has read, NoRow for keys outside them
  written,     \* load.rows_written, None when the metrics were unavailable
  task,        \* status of the attempt's row in ingestion_tasks
  moved,       \* history: has this attempt moved the watermark?
  faults       \* errors and crashes so far

driverVars == <<pc, attempt, lower, newMark, count, batch, written, task,
                moved>>
vars == <<sourceVars, target, mark, lastWrite, driverVars, faults>>

\* The steps inside the try block of TableRunner.run.
TryBlock == {"window", "extract", "count", "maxwm", "read", "merge",
             "metrics", "reconcile", "advance", "finish", "audit"}

PC == TryBlock \cup {"idle", "rewound", "start", "failing", "failed"}

TaskStatus == {"NONE", "RUNNING", "SUCCEEDED", "FAILED"}

LocalsTypeOK == /\ lower \in [Drivers -> Int]
                /\ newMark \in [Drivers -> Nat \cup {None}]
                /\ count \in [Drivers -> Nat]
                /\ batch \in [Drivers -> [Keys -> Row]]
                /\ written \in [Drivers -> Nat \cup {None}]

TypeOK == /\ SourceTypeOK
          /\ LocalsTypeOK
          /\ target \in [Keys -> Row]
          /\ mark \in Nat \cup {None}
          /\ lastWrite \in Nat
          /\ pc \in [Drivers -> PC]
          /\ attempt \in [Drivers -> 1..(Retries + 1)]
          /\ task \in [Drivers -> TaskStatus]
          /\ moved \in [Drivers -> BOOLEAN]
          /\ faults \in Nat

NoBatch == [k \in Keys |-> NoRow]

Init == /\ SourceInit
        /\ target = [k \in Keys |-> NoRow]
        /\ mark = None
        /\ lastWrite = 0
        /\ pc = [d \in Drivers |-> "idle"]
        /\ attempt = [d \in Drivers |-> 1]
        /\ lower = [d \in Drivers |-> 0]
        /\ newMark = [d \in Drivers |-> None]
        /\ count = [d \in Drivers |-> 0]
        /\ batch = [d \in Drivers |-> NoBatch]
        /\ written = [d \in Drivers |-> None]
        /\ task = [d \in Drivers |-> "NONE"]
        /\ moved = [d \in Drivers |-> FALSE]
        /\ faults = 0

----------------------------------------------------------------------------
(* Control flow of a driver.                                               *)

Goto(d, from, to) == /\ pc[d] = from
                     /\ pc' = [pc EXCEPT ![d] = to]

\* The locals of _execute are gone when it returns or raises.  A local is
\* reset earlier, by the step that uses it last.
ForgetLocals(d) == /\ lower' = [lower EXCEPT ![d] = 0]
                   /\ newMark' = [newMark EXCEPT ![d] = None]
                   /\ count' = [count EXCEPT ![d] = 0]
                   /\ batch' = [batch EXCEPT ![d] = NoBatch]
                   /\ written' = [written EXCEPT ![d] = None]

KeepLocals == UNCHANGED <<lower, newMark, count, batch, written>>

\* One more error or crash, within the bound.
Fault == /\ faults < MaxFaults
         /\ faults' = faults + 1

\* The scheduler, or an operator, starts a run of this table.
StartRun(d) == /\ pc[d] \in {"idle", "rewound"}
               /\ pc' = [pc EXCEPT ![d] = "start"]
               /\ attempt' = [attempt EXCEPT ![d] = 1]
               /\ task' = [task EXCEPT ![d] = "NONE"]
               /\ moved' = [moved EXCEPT ![d] = FALSE]
               /\ KeepLocals
               /\ UNCHANGED <<sourceVars, target, mark, lastWrite, faults>>

(***************************************************************************)
(* cmd_backfill: force_set writes the mark unconditionally, then the run   *)
(* starts.  The operator rewinds: the value given is not newer than the    *)
(* stored mark.                                                            *)
(***************************************************************************)
ForceSet(d, value) == /\ Goto(d, "idle", "rewound")
                      /\ mark # None
                      /\ value <= mark
                      /\ mark' = value
                      /\ KeepLocals
                      /\ UNCHANGED <<sourceVars, target, lastWrite, attempt,
                                     task, moved, faults>>

\* register_config and start_task: a fresh row in RUNNING.
StartTask(d) == /\ Goto(d, "start", "window")
                /\ task' = [task EXCEPT ![d] = "RUNNING"]
                /\ moved' = [moved EXCEPT ![d] = FALSE]
                /\ KeepLocals
                /\ UNCHANGED <<sourceVars, target, mark, lastWrite, attempt,
                               faults>>

(***************************************************************************)
(* An error before the try block is entered is not recorded: it leaves     *)
(* TableRunner.run, the batch and the process.  The row may be inserted.   *)
(***************************************************************************)
EscapeStart(d) == /\ pc[d] \in {"rewound", "start"}
                  /\ pc' = [pc EXCEPT ![d] = "idle"]
                  /\ \/ UNCHANGED task
                     \/ /\ pc[d] = "start"
                        /\ task' = [task EXCEPT ![d] = "RUNNING"]
                  /\ Fault
                  /\ KeepLocals
                  /\ UNCHANGED <<sourceVars, target, mark, lastWrite, attempt,
                                 moved>>

----------------------------------------------------------------------------
(* The life cycle: _execute, one action per access to shared state.        *)

\* watermarks.window: read the stored mark, compute the lower bound.
Window(d) == /\ Goto(d, "window", "extract")
             /\ lower' = [lower EXCEPT ![d] = ComputeWindow(mark)]
             /\ UNCHANGED <<sourceVars, target, mark, lastWrite, attempt,
                            newMark, count, batch, written, task, moved,
                            faults>>

\* probe_upper_bound: the cut-off is read from the database's clock.
ProbeUpperBound(d) ==
  /\ Goto(d, "extract", "count")
  /\ newMark' = [newMark EXCEPT ![d] = IF UseUpperBound THEN clock ELSE None]
  /\ UNCHANGED <<sourceVars, target, mark, lastWrite, attempt, lower, count,
                 batch, written, task, moved, faults>>

\* query.upper_bound: the pinned cut-off, if cut-offs are pinned.
Upper(d) == IF UseUpperBound THEN newMark[d] ELSE None

\* The keys whose committed row the driver's query returns now.
InWindow(d) == {k \in Keys : /\ source[k] # NoRow
                             /\ AtOrAfter(source[k].wm, lower[d])
                             /\ BeforeCut(source[k].wm, Upper(d))}

\* count_source: SELECT COUNT(*) over the same query.
CountSource(d) ==
  /\ Goto(d, "count", IF UseUpperBound THEN "read" ELSE "maxwm")
  /\ count' = [count EXCEPT ![d] = Cardinality(InWindow(d))]
  /\ UNCHANGED <<sourceVars, target, mark, lastWrite, attempt, lower, newMark,
                 batch, written, task, moved, faults>>

\* probe_max_watermark: without a pinned cut-off, the newest stamp in the
\* query's result; NULL over no rows.
ProbeMaxWatermark(d) ==
  /\ Goto(d, "maxwm", "read")
  /\ \/ /\ InWindow(d) = {}
        /\ UNCHANGED newMark
     \/ \E k \in InWindow(d) :
          /\ \A j \in InWindow(d) : source[j].wm <= source[k].wm
          /\ newMark' = [newMark EXCEPT ![d] = source[k].wm]
  /\ UNCHANGED <<sourceVars, target, mark, lastWrite, attempt, lower, count,
                 batch, written, task, moved, faults>>

\* The staged view is evaluated: only here are the source rows read.
ReadBatch(d) ==
  /\ Goto(d, "read", "merge")
  /\ batch' = [batch EXCEPT ![d] =
                 [k \in Keys |-> IF k \in InWindow(d) THEN source[k]
                                                      ELSE NoRow]]
  /\ lower' = [lower EXCEPT ![d] = 0]
  /\ UNCHANGED <<sourceVars, target, mark, lastWrite, attempt, newMark, count,
                 written, task, moved, faults>>

\* MUTANT: last write wins, as with merge_guard: none.
MergeGuardNone(s, t) == TRUE

\* MUTANT: an equal watermark no longer updates.
MergeGuardStrict(s, t) == s.wm > t.wm

\* WHEN MATCHED AND (t.wm IS NULL OR s.wm >= t.wm).
MergeGuard(s, t) == s.wm >= t.wm

\* The keys a MERGE of the driver's batch updates or inserts.
Merged(d) == {k \in Keys : /\ batch[d][k] # NoRow
                           /\ \/ target[k] = NoRow
                              \/ MergeGuard(batch[d][k], target[k])}

\* _merge: one Delta commit.
Merge(d) ==
  /\ Goto(d, "merge", "metrics")
  /\ target' = [k \in Keys |-> IF k \in Merged(d) THEN batch[d][k]
                                                  ELSE target[k]]
  /\ lastWrite' = Cardinality(Merged(d))
  /\ batch' = [batch EXCEPT ![d] = NoBatch]
  /\ UNCHANGED <<sourceVars, mark, attempt, lower, newMark, count, written,
                 task, moved, faults>>

\* _collect_metrics: the newest entry of the table's history, whoever wrote
\* it; any error is swallowed and leaves the counters unset.
CollectMetrics(d) ==
  /\ Goto(d, "metrics", "reconcile")
  /\ \/ /\ written' = [written EXCEPT ![d] = lastWrite]
        /\ UNCHANGED faults
     \/ /\ UNCHANGED written
        /\ Fault
  /\ UNCHANGED <<sourceVars, target, mark, lastWrite, attempt, lower, newMark,
                 count, batch, task, moved>>

\* reconcile_row_count over a source whose keys are unique: no duplicates.
RowCountOk(d) == written[d] = None \/ written[d] = count[d]

\* Reconciler.run and record_checks; a failed check raises.
Reconcile(d) ==
  /\ pc[d] = "reconcile"
  /\ IF RowCountOk(d)
       THEN /\ pc' = [pc EXCEPT ![d] = "advance"]
            /\ count' = [count EXCEPT ![d] = 0]
            /\ written' = [written EXCEPT ![d] = None]
            /\ UNCHANGED <<lower, newMark, batch>>
       ELSE /\ pc' = [pc EXCEPT ![d] = "failing"]
            /\ ForgetLocals(d)
  /\ UNCHANGED <<sourceVars, target, mark, lastWrite, attempt, task, moved,
                 faults>>

(***************************************************************************)
(* _advance_watermark: nothing to move to holds the mark; otherwise the    *)
(* MERGE compares and writes in one statement.                             *)
(***************************************************************************)
AdvanceWatermark(d) ==
  /\ Goto(d, "advance", "finish")
  /\ IF newMark[d] # None /\ AdvanceGuard(mark, newMark[d])
       THEN /\ mark' = newMark[d]
            /\ moved' = [moved EXCEPT ![d] = TRUE]
       ELSE UNCHANGED <<mark, moved>>
  /\ ForgetLocals(d)
  /\ UNCHANGED <<sourceVars, target, lastWrite, attempt, task, faults>>

\* finish_task(SUCCEEDED): an UPDATE by run, table and attempt.
FinishTask(d) ==
  /\ Goto(d, "finish", "audit")
  /\ task' = [task EXCEPT ![d] = "SUCCEEDED"]
  /\ KeepLocals
  /\ UNCHANGED <<sourceVars, target, mark, lastWrite, attempt, moved, faults>>

\* The TASK_SUCCEEDED event is flushed; the run of this table is over.
TaskSucceeded(d) ==
  /\ Goto(d, "audit", "idle")
  /\ KeepLocals
  /\ UNCHANGED <<sourceVars, target, mark, lastWrite, attempt, task, moved,
                 faults>>

----------------------------------------------------------------------------
(* Failure: an exception in the try block, _fail, and the retry loop.      *)

\* Any statement of the try block raises.
Error(d) == /\ pc[d] \in TryBlock
            /\ pc' = [pc EXCEPT ![d] = "failing"]
            /\ Fault
            /\ ForgetLocals(d)
            /\ UNCHANGED <<sourceVars, target, mark, lastWrite, attempt, task,
                           moved>>

\* _fail: finish_task(FAILED), whose own error is only logged.
RecordFailure(d) ==
  /\ Goto(d, "failing", "failed")
  /\ \/ /\ task' = [task EXCEPT ![d] = "FAILED"]
        /\ UNCHANGED faults
     \/ /\ UNCHANGED task
        /\ Fault
  /\ KeepLocals
  /\ UNCHANGED <<sourceVars, target, mark, lastWrite, attempt, moved>>

\* MUTANT: one attempt too many.
HasRetryOffByOne(d) == attempt[d] <= Retries + 1

\* for attempt in range(1, retries + 2).
HasRetry(d) == attempt[d] < Retries + 1

\* run_with_retries: the next attempt, or the failed outcome is returned.
RetryOrStop(d) ==
  /\ pc[d] = "failed"
  /\ KeepLocals
  /\ IF HasRetry(d)
       THEN /\ pc' = [pc EXCEPT ![d] = "start"]
            /\ attempt' = [attempt EXCEPT ![d] = attempt[d] + 1]
       ELSE /\ pc' = [pc EXCEPT ![d] = "idle"]
            /\ UNCHANGED attempt
  /\ UNCHANGED <<sourceVars, target, mark, lastWrite, task, moved, faults>>

\* The flush of TASK_FAILED raises out of _fail and out of the batch.
EscapeFail(d) == /\ Goto(d, "failed", "idle")
                 /\ Fault
                 /\ KeepLocals
                 /\ UNCHANGED <<sourceVars, target, mark, lastWrite, attempt,
                                task, moved>>

\* The driver is lost: its locals are gone, its rows stay as they are.
Crash(d) == /\ pc[d] # "idle"
            /\ pc' = [pc EXCEPT ![d] = "idle"]
            /\ Fault
            /\ ForgetLocals(d)
            /\ UNCHANGED <<sourceVars, target, mark, lastWrite, attempt, task,
                           moved>>

----------------------------------------------------------------------------
Extract(d) == ProbeUpperBound(d) \/ CountSource(d) \/ ProbeMaxWatermark(d)

Load(d) == ReadBatch(d) \/ Merge(d) \/ CollectMetrics(d)

\* The steps a live driver takes by itself.
Progress(d) == \/ StartRun(d) \/ StartTask(d) \/ Window(d) \/ Extract(d)
               \/ Load(d) \/ Reconcile(d) \/ AdvanceWatermark(d)
               \/ FinishTask(d) \/ TaskSucceeded(d)
               \/ RecordFailure(d) \/ RetryOrStop(d)

\* What goes wrong, and what an operator does.
Disturb(d) == \/ EscapeStart(d) \/ Error(d) \/ EscapeFail(d) \/ Crash(d)
              \/ \E value \in 1..MaxClock : ForceSet(d, value)

Environment == /\ SourceNext
               /\ UNCHANGED <<target, mark, lastWrite, driverVars, faults>>

Next == Environment \/ \E d \in Drivers : Progress(d) \/ Disturb(d)

Spec == Init /\ [][Next]_vars

\* Time passes, transactions end, and the scheduler and the driver go on.
\* Nothing is assumed of updates, errors, crashes and backfills.
Fairness ==
  /\ WF_vars(Tick /\ UNCHANGED <<target, mark, lastWrite, driverVars, faults>>)
  /\ \A k \in Keys :
       WF_vars(Commit(k) /\ UNCHANGED <<target, mark, lastWrite, driverVars,
                                        faults>>)
  /\ \A d \in Drivers : WF_vars(Progress(d))

FairSpec == Spec /\ Fairness

----------------------------------------------------------------------------
(* Properties.                                                             *)

\* The first run reads from lower_bound_default on; older rows are left out
\* on purpose.
Wanted(k) == AtOrAfter(source[k].wm, LowerBoundDefault)

\* Every wanted row that a window starting at `bound' would not return is
\* in the target already.
MirroredBefore(bound) ==
  \A k \in Keys : Wanted(k) /\ ~AtOrAfter(source[k].wm, bound)
                    => target[k] = source[k]

(***************************************************************************)
(* No committed row is ever skipped for good: whatever the target lacks is *)
(* still inside the window of the next run (TableRunner._execute: the mark *)
(* moves only past rows whose MERGE has committed).  It needs an overlap   *)
(* that covers the commit lag.                                             *)
(***************************************************************************)
NoLoss == MirroredBefore(ComputeWindow(mark))

\* The step is the force_set of a backfill.
IsBackfill == \E d \in Drivers : pc[d] = "idle" /\ pc'[d] = "rewound"

RewindIsBackfill == mark' < mark => IsBackfill

(***************************************************************************)
(* Only a backfill moves the mark backwards: concurrent runs of one table  *)
(* cannot (WatermarkStore.advance compares inside the MERGE).              *)
(***************************************************************************)
MarkNeverRegresses == [][RewindIsBackfill]_vars

(***************************************************************************)
(* No replay of an older batch, from a retry, a backfill or a slower       *)
(* concurrent run, puts an older version of a row over a newer one (the    *)
(* guard of build_merge_sql).                                              *)
(***************************************************************************)
TargetNeverRegresses ==
  [][\A k \in Keys : target'[k].ver >= target[k].ver]_vars

(***************************************************************************)
(* Once the source is quiet, the target becomes and stays its mirror       *)
(* through errors, crashes, retries and backfills (the scheduler's next    *)
(* run repeats whatever the mark has not passed).                          *)
(***************************************************************************)
Converges == <>[](\A k \in Keys : Wanted(k) => target[k] = source[k])

(***************************************************************************)
(* RUNBOOK section 0: a task that shows FAILED has not moved the           *)
(* watermark.  (_fail records any error of the try block, also one that is *)
(* raised after the advance.)                                              *)
(***************************************************************************)
FailedTaskHeldMark == \A d \in Drivers : task[d] = "FAILED" => ~moved[d]

(***************************************************************************)
(* The drivers together implement the contract of module Mirror: every     *)
(* step of any driver is a write, a load, an advance over mirrored rows, a *)
(* rewind, or invisible.                                                   *)
(***************************************************************************)
Contract == INSTANCE Mirror WITH Keys <- Keys, source <- source,
                                target <- target, mark <- mark
ImplementsMirror == Contract!Spec

----------------------------------------------------------------------------
(* The inductive invariant behind NoLoss.                                  *)

\* Enough overlap for every transaction that was open at a cut-off.
OverlapCoversLag == IF BoundInclusive THEN Overlap >= CommitLag
                                      ELSE Overlap > CommitLag

\* Stamps are not from the future, and open transactions are recent.
StampsInv ==
  /\ clock >= 1
  /\ \A k \in Keys :
       /\ source[k].wm <= clock
       /\ pending[k] # 0 => /\ source[k].wm < pending[k]
                            /\ pending[k] <= clock
                            /\ clock - pending[k] <= CommitLag

\* A copy of the row of k is the current version or carries an older stamp.
NotNewer(row, k) == /\ row.wm <= source[k].wm
                    /\ row.wm = source[k].wm => row = source[k]

CopiesInv == \A k \in Keys : /\ NotNewer(NoRow, k)
                             /\ NotNewer(target[k], k)
                             /\ \A d \in Drivers : NotNewer(batch[d][k], k)

\* No transaction will add a row before this bound any more.
Settled(bound) == bound = LowerBoundDefault \/ bound <= clock - Overlap

\* The attempt has read its window and not yet used it.
WindowInv(d) == pc[d] \in {"extract", "count", "maxwm", "read"}
                  => /\ Settled(lower[d])
                     /\ MirroredBefore(lower[d])

\* Before the MERGE commits, its batch holds what the target lacks.
BatchInv(d) ==
  pc[d] = "merge" /\ newMark[d] # None
    => \A k \in Keys :
         Wanted(k) /\ ~AtOrAfter(source[k].wm, newMark[d] - Overlap)
           => source[k] \in {target[k], batch[d][k]}

\* Once it has committed, the new mark is true, and stays so until advanced.
LoadedInv(d) == pc[d] \in {"metrics", "reconcile", "advance"} /\ newMark[d] # None
                  => MirroredBefore(newMark[d] - Overlap)

MarksInv == /\ mark <= clock
            /\ \A d \in Drivers : newMark[d] <= clock

IInv == /\ TypeOK
        /\ StampsInv
        /\ CopiesInv
        /\ MarksInv
        /\ NoLoss
        /\ \A d \in Drivers : WindowInv(d) /\ BatchInv(d) /\ LoadedInv(d)

----------------------------------------------------------------------------
(* The invariant behind TargetNeverRegresses and ImplementsMirror.         *)

\* Every copy of the row of k: none, the committed one, the target's, those
\* in the batches.
Copies(k) == {NoRow, source[k], target[k]} \cup {batch[d][k] : d \in Drivers}

\* A newer stamp is a newer version.
InOrder(a, b) == \/ a = b
                 \/ a.wm < b.wm /\ a.ver < b.ver
                 \/ b.wm < a.wm /\ b.ver < a.ver

VersionsInv == \A k \in Keys : \A a, b \in Copies(k) : InOrder(a, b)
=============================================================================
