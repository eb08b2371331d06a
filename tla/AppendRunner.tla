---------------------------- MODULE AppendRunner ----------------------------
(***************************************************************************)
(* A table whose target is not a merge mirror: an incremental load into an *)
(* append target (an event stream: rows are inserted once and never        *)
(* changed), or a full load that overwrites its target.  Runs of it follow *)
(* each other or overlap; each is a batch of this one table, with its rows *)
(* in the control tables.  An operator may give a run the id of one that   *)
(* is over (`ingest run --run-id', "for a retry").                         *)
(*                                                                         *)
(* The life cycle is that of module TableRunner.  What differs: the write  *)
(* is not idempotent, the read is split into one query per partition, and  *)
(* the rows of the control tables are kept.                                *)
(***************************************************************************)
EXTENDS OracleSource, Watermark, Monitoring

CONSTANTS Drivers,         \* processes that may run the table at one time
          Retries,         \* runtime.retries
          StallRuns,       \* watermark_stalls(runs=...)
          MaxInvocations,  \* bound: runs in a behaviour
          MaxFaults        \* bound: errors and crashes in a behaviour

ASSUME AppendAssumption == /\ IsFiniteSet(Keys)
                           /\ Drivers \subseteq Hashes
                           /\ Retries \in Nat
                           /\ StallRuns \in Nat \ {0}
                           /\ MaxInvocations \in Nat
                           /\ MaxFaults \in Nat

VARIABLES
  spec,        \* the table's RunSpec
  target,      \* how many copies of the row of each key the target holds
  lastWrite,   \* rows of the newest commit in the Delta history
  mark,        \* watermarks.watermark_value
  markRun,     \* watermarks.run_id: the run that advanced it last
  pc,          \* where each driver is
  run,         \* its run id
  attempt,     \* the attempt it is executing
  window,      \* lower bound and cut-off of the attempt's query
  newMark,     \* extract.new_watermark
  count,       \* extract.source_count
  unread,      \* partitions of the read that have not been queried
  batch,       \* keys whose row has been read
  written,     \* load.rows_written
  invoked,     \* history: runs started so far
  reused,      \* history: run ids that were given to a second run
  movers,      \* history: runs whose advance has moved the mark
  claimed,     \* history: runs that have emitted WATERMARK_ADVANCED
  faults

tableVars == <<target, lastWrite, mark, markRun>>
localVars == <<window, newMark, count, unread, batch, written>>
driverVars == <<pc, run, attempt>>
historyVars == <<invoked, reused, movers, claimed>>
vars == <<sourceVars, storeVars, spec, tableVars, localVars, driverVars,
          historyVars, faults>>

\* pinned: incremental.use_upper_bound; parallel: several partitions are
\* configured; reconciled: quality.row_count_reconciliation.
Specs == {[mode |-> "incremental", write_mode |-> "append",
           pinned |-> TRUE, parallel |-> TRUE, reconciled |-> TRUE],
          [mode |-> "incremental", write_mode |-> "append",
           pinned |-> TRUE, parallel |-> TRUE, reconciled |-> FALSE],
          [mode |-> "incremental", write_mode |-> "append",
           pinned |-> FALSE, parallel |-> FALSE, reconciled |-> TRUE],
          [mode |-> "full", write_mode |-> "overwrite",
           pinned |-> FALSE, parallel |-> FALSE, reconciled |-> TRUE]}

TryBlock == {"window", "probe", "count", "max", "read", "write", "reconcile",
             "advance", "finish", "audit"}

PC == TryBlock \cup {"idle", "start", "failing", "close"}

NoWindow == [lower |-> None, upper |-> None]

NoRun == "no run"

\* config_hash: each driver runs from a checkout of its own, so that the
\* effective configurations of two drivers differ.
HashOf(d) == d

LocalsTypeOK == /\ window \in [Drivers -> [lower : Int, upper : Int]]
                /\ newMark \in [Drivers -> Nat \cup {None}]
                /\ count \in [Drivers -> Nat \cup {Null}]
                /\ spec.reconciled => \A d \in Drivers : count[d] # Null
                /\ unread \in [Drivers -> SUBSET SUBSET Keys]
                /\ batch \in [Drivers -> SUBSET Keys]
                /\ written \in [Drivers -> Nat \cup {Null}]

TableTypeOK == /\ target \in [Keys -> Nat]
               /\ lastWrite \in Nat
               /\ mark \in Nat \cup {None}
               /\ markRun \in RunIds \cup {NoRun}

DriverTypeOK == /\ pc \in [Drivers -> PC]
                /\ run \in [Drivers -> RunIds \cup {NoRun}]
                /\ attempt \in [Drivers -> 1..(Retries + 1)]

HistoryTypeOK == /\ invoked \in 0..MaxInvocations
                 /\ reused \subseteq RunIds
                 /\ movers \subseteq RunIds
                 /\ claimed \subseteq RunIds

TypeOK == /\ SourceTypeOK
          /\ StoreTypeOK
          /\ spec \in Specs
          /\ TableTypeOK
          /\ LocalsTypeOK
          /\ DriverTypeOK
          /\ HistoryTypeOK
          /\ faults \in 0..MaxFaults

Init == /\ SourceInit
        /\ StoreInit
        /\ spec \in Specs
        /\ target = [k \in Keys |-> 0]
        /\ lastWrite = 0
        /\ mark = None
        /\ markRun = NoRun
        /\ pc = [d \in Drivers |-> "idle"]
        /\ run = [d \in Drivers |-> NoRun]
        /\ attempt = [d \in Drivers |-> 1]
        /\ window = [d \in Drivers |-> NoWindow]
        /\ newMark = [d \in Drivers |-> None]
        /\ count = [d \in Drivers |-> 0]
        /\ unread = [d \in Drivers |-> {}]
        /\ batch = [d \in Drivers |-> {}]
        /\ written = [d \in Drivers |-> Null]
        /\ invoked = 0
        /\ reused = {}
        /\ movers = {}
        /\ claimed = {}
        /\ faults = 0

Incremental == spec.mode = "incremental"

----------------------------------------------------------------------------
(* Control flow.                                                           *)

Goto(d, from, to) == /\ pc[d] = from
                     /\ pc' = [pc EXCEPT ![d] = to]

ForgetLocals(d) == /\ window' = [window EXCEPT ![d] = NoWindow]
                   /\ newMark' = [newMark EXCEPT ![d] = None]
                   /\ count' = [count EXCEPT ![d] = 0]
                   /\ unread' = [unread EXCEPT ![d] = {}]
                   /\ batch' = [batch EXCEPT ![d] = {}]
                   /\ written' = [written EXCEPT ![d] = Null]

Fault == /\ faults < MaxFaults
         /\ faults' = faults + 1

KnownRuns == {runs[i].run_id : i \in DOMAIN runs}

\* cmd_run: a fresh run id, or that of a run which is over, given again by the
\* operator; start_run.
BeginRun(d, r) ==
  /\ Goto(d, "idle", "start")
  /\ invoked < MaxInvocations
  /\ \A o \in Drivers : run[o] # r
  /\ invoked' = invoked + 1
  /\ reused' = IF r \in KnownRuns THEN reused \cup {r} ELSE reused
  /\ StartRun(r)
  /\ run' = [run EXCEPT ![d] = r]
  /\ attempt' = [attempt EXCEPT ![d] = 1]
  /\ UNCHANGED <<sourceVars, tasks, checks, registry, spec, tableVars,
                 localVars, movers, claimed, faults>>

\* TableRunner.run: register_config, then start_task, for every attempt.
BeginTask(d) == /\ Goto(d, "start", "window")
                /\ RegisterConfig(HashOf(d), run[d])
                /\ StartTask(run[d], attempt[d], HashOf(d))
                /\ UNCHANGED <<sourceVars, runs, checks, spec, tableVars,
                               localVars, run, attempt, historyVars,
                               faults>>

(***************************************************************************)
(* An error before the try block leaves TableRunner.run, and the batch     *)
(* closes the run row as FAILED.  Depending on where it is raised, the     *)
(* configuration is registered or not, and the task row inserted or not.   *)
(***************************************************************************)
EscapeStart(d) == /\ Goto(d, "start", "close")
                  /\ \/ UNCHANGED <<registry, tasks>>
                     \/ /\ RegisterConfig(HashOf(d), run[d])
                        /\ \/ UNCHANGED tasks
                           \/ StartTask(run[d], attempt[d], HashOf(d))
                  /\ Fault
                  /\ UNCHANGED <<sourceVars, runs, checks, spec, tableVars,
                                 localVars, run, attempt, historyVars>>

----------------------------------------------------------------------------
(* _execute.                                                               *)

\* watermarks.window, in every mode; a full load puts no bound on its query
\* but records this one.
Window(d) ==
  /\ Goto(d, "window", "probe")
  /\ window' = [window EXCEPT ![d].lower = ComputeWindow(mark)]
  /\ UNCHANGED <<sourceVars, storeVars, spec, tableVars, newMark, count,
                 unread, batch, written, run, attempt,
                 historyVars, faults>>

\* MUTANT: no cut-off is pinned for a window that would be empty.
CutWhenRows(d) == IF \E k \in Keys : source[k].wm >= window[d].lower
                    THEN clock ELSE None

\* build_upper_bound_query: the clock of the source.
Cut(d) == clock

\* probe_upper_bound.
ProbeUpperBound(d) ==
  /\ Goto(d, "probe", "count")
  /\ LET cut == IF Incremental /\ spec.pinned THEN Cut(d) ELSE None
     IN /\ window' = [window EXCEPT ![d].upper = cut]
        /\ newMark' = [newMark EXCEPT ![d] = cut]
  /\ UNCHANGED <<sourceVars, storeVars, spec, tableVars, count, unread, batch,
                 written, run, attempt, historyVars, faults>>

\* MUTANT: the query has no upper bound.
InWindowUnpinned(d, k) == /\ source[k] # NoRow
                          /\ Incremental => AtOrAfter(source[k].wm, window[d].lower)

\* The row of k satisfies the predicates of the driver's query now.
InWindow(d, k) == /\ source[k] # NoRow
                  /\ Incremental => AtOrAfter(source[k].wm, window[d].lower)
                  /\ BeforeCut(source[k].wm, window[d].upper)

Result(d) == {k \in Keys : InWindow(d, k)}

(***************************************************************************)
(* probe_partition_bounds, jdbc_options and count_source.  A read that is  *)
(* not parallel, or whose probe found no rows and so no bounds to split    *)
(* on, is one query; otherwise each partition is a query of its own, here  *)
(* one per key.  Rows outside the bounds fall to the first or the last     *)
(* partition: together the partitions cover the query.  Without row count  *)
(* reconciliation nothing is counted.                                      *)
(***************************************************************************)
CountSource(d) ==
  /\ Goto(d, "count", IF Incremental /\ ~spec.pinned THEN "max" ELSE "read")
  /\ count' = [count EXCEPT ![d] = IF spec.reconciled
                                    THEN Cardinality(Result(d)) ELSE Null]
  /\ unread' = [unread EXCEPT ![d] = IF spec.parallel /\ Result(d) # {}
                                      THEN {{k} : k \in Keys} ELSE {Keys}]
  /\ UNCHANGED <<sourceVars, storeVars, spec, tableVars, window, newMark,
                 batch, written, run, attempt, historyVars, faults>>

\* probe_max_watermark: the newest stamp in the query's result, or NULL.
ProbeMaxWatermark(d) ==
  /\ Goto(d, "max", "read")
  /\ \/ /\ Result(d) = {}
        /\ UNCHANGED newMark
     \/ \E k \in Result(d) :
          /\ \A j \in Result(d) : source[j].wm <= source[k].wm
          /\ newMark' = [newMark EXCEPT ![d] = source[k].wm]
  /\ UNCHANGED <<sourceVars, storeVars, spec, tableVars, window, count, unread,
                 batch, written, run, attempt, historyVars,
                 faults>>

\* The lazy DataFrame is evaluated by the write: one partition is queried.
ReadPartition(d, p) ==
  /\ pc[d] = "read"
  /\ p \in unread[d]
  /\ unread' = [unread EXCEPT ![d] = @ \ {p}]
  /\ batch' = [batch EXCEPT ![d] = @ \cup (p \cap Result(d))]
  /\ pc' = [pc EXCEPT ![d] = IF unread[d] = {p} THEN "write" ELSE "read"]
  /\ UNCHANGED <<sourceVars, storeVars, spec, tableVars, window, newMark,
                 count, written, run, attempt, historyVars,
                 faults>>

\* _write_df: one Delta commit that adds the batch, or replaces the target.
WriteDf(d) ==
  /\ Goto(d, "write", "reconcile")
  /\ target' = [k \in Keys |->
                  (IF spec.write_mode = "append" THEN target[k] ELSE 0)
                    + (IF k \in batch[d] THEN 1 ELSE 0)]
  /\ lastWrite' = Cardinality(batch[d])
  /\ batch' = [batch EXCEPT ![d] = {}]
  /\ UNCHANGED <<sourceVars, storeVars, spec, mark, markRun, window, newMark,
                 count, unread, written, run, attempt,
                 historyVars, faults>>

\* reconcile_row_count; nothing is deduplicated for these targets.
RowCount(rows, expected) == IF expected = Null \/ rows = Null THEN "SKIPPED"
                            ELSE IF rows = expected THEN "PASSED" ELSE "FAILED"

\* MUTANT: only a load that wrote too little is refused.
PassesTooMuch(rows, expected) ==
  ~spec.reconciled \/ RowCount(rows, expected) # "FAILED" \/ rows > expected

\* report.ok; a table that is not reconciled has no row count check.
Passes(rows, expected) == ~spec.reconciled \/ RowCount(rows, expected) # "FAILED"

(***************************************************************************)
(* _collect_metrics reads the newest commit, whoever made it, and swallows *)
(* its errors; the row count check, if the table asks for one, is recorded *)
(* and raises if it failed.                                                *)
(***************************************************************************)
Reconcile(d) ==
  /\ pc[d] = "reconcile"
  /\ \E rows \in {lastWrite, Null} :
       /\ IF rows = Null THEN Fault ELSE UNCHANGED faults
       /\ IF spec.reconciled THEN RecordChecks(run[d], RowCount(rows, count[d]))
                             ELSE UNCHANGED checks
       /\ IF Passes(rows, count[d])
            THEN /\ pc' = [pc EXCEPT ![d] = "advance"]
                 /\ written' = [written EXCEPT ![d] = rows]
                 /\ UNCHANGED <<window, newMark, count, unread, batch>>
            ELSE /\ pc' = [pc EXCEPT ![d] = "failing"]
                 /\ ForgetLocals(d)
  /\ UNCHANGED <<sourceVars, runs, tasks, registry, spec, tableVars, run,
                 attempt, historyVars>>

\* _advance_watermark: nothing to move to holds the mark, else the MERGE.
AdvanceWatermark(d) ==
  /\ Goto(d, "advance", "finish")
  /\ IF newMark[d] # None /\ AdvanceGuard(mark, newMark[d])
       THEN /\ mark' = newMark[d]
            /\ markRun' = run[d]
            /\ movers' = movers \cup {run[d]}
       ELSE UNCHANGED <<mark, markRun, movers>>
  /\ UNCHANGED <<sourceVars, storeVars, spec, target, lastWrite, localVars,
                 run, attempt, invoked, reused, claimed, faults>>

\* MUTANT: the value alone decides.
MovedByValue(d) == mark = newMark[d]

\* advance reads the row again: is it this value, and this run's?
Moved(d) == mark = newMark[d] /\ markRun = run[d]

\* advance returns and WATERMARK_ADVANCED or WATERMARK_HELD is emitted;
\* finish_task(SUCCEEDED) with the metrics of the load.
Succeed(d) ==
  /\ Goto(d, "finish", "audit")
  /\ claimed' = IF newMark[d] # None /\ Moved(d) THEN claimed \cup {run[d]}
                                                ELSE claimed
  /\ FinishTask(run[d], attempt[d], "SUCCEEDED",
                [from |-> window[d].lower, to |-> newMark[d],
                 count |-> count[d], written |-> written[d]])
  /\ ForgetLocals(d)
  /\ UNCHANGED <<sourceVars, runs, checks, registry, spec, tableVars, run, attempt, invoked, reused, movers, faults>>

----------------------------------------------------------------------------
(* Failure, retry, and the end of the run.                                 *)

Error(d) == /\ pc[d] \in TryBlock
            /\ pc' = [pc EXCEPT ![d] = "failing"]
            /\ Fault
            /\ ForgetLocals(d)
            /\ UNCHANGED <<sourceVars, storeVars, spec, tableVars, run,
                           attempt, historyVars>>

\* MUTANT: one attempt too many.
HasRetryOffByOne(d) == attempt[d] <= Retries + 1

\* for attempt in range(1, retries + 2).
HasRetry(d) == attempt[d] < Retries + 1

\* _fail: finish_task(FAILED) without metrics; its own error is only logged.
FinishFailed(d) == \/ /\ FinishTask(run[d], attempt[d], "FAILED", NoMetrics)
                      /\ UNCHANGED faults
                   \/ /\ UNCHANGED tasks
                      /\ Fault

\* _fail, and run_with_retries: the next attempt or the end of the run.
RecordFailure(d) ==
  /\ pc[d] = "failing"
  /\ FinishFailed(d)
  /\ IF HasRetry(d)
       THEN /\ pc' = [pc EXCEPT ![d] = "start"]
            /\ attempt' = [attempt EXCEPT ![d] = @ + 1]
       ELSE /\ pc' = [pc EXCEPT ![d] = "close"]
            /\ UNCHANGED attempt
  /\ UNCHANGED <<sourceVars, runs, checks, registry, spec, tableVars,
                 localVars, run, historyVars>>

\* The flush of TASK_FAILED raises out of _fail and ends the batch.
EscapeFail(d) ==
  /\ Goto(d, "failing", "close")
  /\ FinishTask(run[d], attempt[d], "FAILED", NoMetrics)
  /\ Fault
  /\ UNCHANGED <<sourceVars, runs, checks, registry, spec, tableVars,
                 localVars, run, attempt, historyVars>>

\* The process is gone, or over.
Leave(d) == /\ pc' = [pc EXCEPT ![d] = "idle"]
            /\ run' = [run EXCEPT ![d] = NoRun]
            /\ attempt' = [attempt EXCEPT ![d] = 1]

\* The outcome of the batch's only table, when TASK_SUCCEEDED is flushed or
\* the attempts are used up or the batch has come apart.
Outcome(d) == IF pc[d] = "audit" THEN "SUCCEEDED" ELSE "FAILED"

\* finish_run with the status of the batch; its own error is only logged.
EndRun(d) == /\ pc[d] \in {"audit", "close"}
             /\ \/ /\ FinishRun(run[d], DeriveRunStatus({Outcome(d)}))
                   /\ UNCHANGED faults
                \/ /\ UNCHANGED runs
                   /\ Fault
             /\ Leave(d)
             /\ UNCHANGED <<sourceVars, tasks, checks, registry, spec,
                            tableVars, localVars, historyVars>>

\* The driver is lost.
Crash(d) == /\ pc[d] # "idle"
            /\ Leave(d)
            /\ ForgetLocals(d)
            /\ Fault
            /\ UNCHANGED <<sourceVars, storeVars, spec, tableVars, historyVars>>

----------------------------------------------------------------------------
Extract(d) == ProbeUpperBound(d) \/ CountSource(d) \/ ProbeMaxWatermark(d)

Load(d) == WriteDf(d) \/ \E p \in unread[d] : ReadPartition(d, p)

Progress(d) == \/ \E r \in RunIds : BeginRun(d, r)
               \/ BeginTask(d) \/ Window(d) \/ Extract(d) \/ Load(d)
               \/ Reconcile(d) \/ AdvanceWatermark(d) \/ Succeed(d)
               \/ RecordFailure(d) \/ EndRun(d)

Disturb(d) == EscapeStart(d) \/ Error(d) \/ EscapeFail(d) \/ Crash(d)

\* An event is stamped and committed in one instant, and never updated.
Insert(k) == /\ source[k] = NoRow
             /\ clock < MaxClock
             /\ source' = [source EXCEPT ![k] = [wm |-> clock, ver |-> 1]]
             /\ UNCHANGED <<clock, pending>>

Environment == /\ Tick \/ \E k \in Keys : Insert(k)
               /\ UNCHANGED <<storeVars, spec, tableVars, localVars,
                              driverVars, historyVars, faults>>

Next == Environment \/ \E d \in Drivers : Progress(d) \/ Disturb(d)

Spec == Init /\ [][Next]_vars

----------------------------------------------------------------------------
(* Properties.                                                             *)

\* An event that a window starting at `bound' leaves out, though not one
\* that the first run leaves out on purpose.
Behind(k, bound) == /\ source[k] # NoRow
                    /\ AtOrAfter(source[k].wm, LowerBoundDefault)
                    /\ ~AtOrAfter(source[k].wm, bound)

LoadedBefore(bound) == \A k \in Keys : Behind(k, bound) => target[k] >= 1

(***************************************************************************)
(* README, Incremental loads: "runs resume exactly where the last one      *)
(* stopped".  Every event below the next window is in the target.          *)
(***************************************************************************)
NoRowIsLost == Incremental => LoadedBefore(ComputeWindow(mark))

(***************************************************************************)
(* Parallel reads: when a cut-off is pinned, the queries of the partitions *)
(* together return what one query would, and what was counted, although    *)
(* the source moves between them (build_upper_bound_query).                *)
(***************************************************************************)
BatchIsWhole ==
  \A d \in Drivers : spec.pinned /\ pc[d] = "write" =>
    /\ batch[d] = Result(d)
    /\ spec.reconciled => count[d] = Cardinality(batch[d])

NoIdIsReused == reused = {}

\* The recorded window of a successful task contains the row of k.
CoveredBy(k, row) == /\ row.status = "SUCCEEDED"
                     /\ AtOrAfter(source[k].wm, row.from)
                     /\ row.to # Null
                     /\ source[k].wm < row.to

(***************************************************************************)
(* An append is not idempotent, so a retry, a crash after the commit or an *)
(* overlapping run may duplicate rows; but no copy is unaccounted for: each*)
(* has its own task row, which either did not succeed or records a window  *)
(* with the row in it.  A reader can find every duplicate from the history *)
(* (start_task before the load, finish_task with the window it used).      *)
(***************************************************************************)
CopiesAreAccountedFor ==
  NoIdIsReused /\ spec.pinned =>
    \A k \in Keys :
      target[k] <= Cardinality({i \in DOMAIN tasks :
                                  \/ tasks[i].status # "SUCCEEDED"
                                  \/ CoveredBy(k, tasks[i])})

(***************************************************************************)
(* volume_trend never reports more rows than the target got, although      *)
(* rows_written is read from a history that other runs write to: a load    *)
(* that sees another's commit fails its row count check.  That check is    *)
(* all that stands in the way: with row_count_reconciliation: false two    *)
(* overlapping runs may both report the larger load.                       *)
(***************************************************************************)
VolumeNeverOverstates ==
  NoIdIsReused /\ spec.pinned /\ spec.reconciled =>
    VolumeTrend <= Total(target)

\* The positions of run rows with this status.
RunsWith(status) == {i \in DOMAIN runs : runs[i].status = status}

\* Each failed row count check belongs to an attempt that did not succeed.
FailedChecksAreFailedTasks ==
  \A r \in RunIds :
    Cardinality({i \in ReconciliationIssues : checks[i].run_id = r})
      <= Cardinality({i \in DOMAIN tasks : /\ tasks[i].run_id = r
                                           /\ tasks[i].status # "SUCCEEDED"})

\* Every task row's config_hash has its row in the registry.
ConfigIsKnown == \A i \in DOMAIN tasks : tasks[i].hash \in DOMAIN registry

(***************************************************************************)
(* The control tables tell one story, although four statements of several  *)
(* processes write it and any of them may fail.  For a run that shows      *)
(* SUCCEEDED (from the outcomes in memory) finish_run would derive the     *)
(* same from the rows (task_statuses), and table_health counts its final   *)
(* attempt as a success; retries and lost drivers do not inflate the count *)
(* of runs; failed checks are not on successful tasks; and the registry    *)
(* knows every configuration that was used, overlapping ones too.          *)
(***************************************************************************)
DashboardsAgree ==
  /\ ConfigIsKnown
  /\ NoIdIsReused =>
       /\ \A i \in RunsWith("SUCCEEDED") :
            DeriveRunStatus(TaskStatuses(runs[i].run_id)) = "SUCCEEDED"
       /\ LET health == TableHealth
          IN /\ Cardinality(RunsWith("SUCCEEDED")) <= health.succeeded
             /\ health.runs <= Len(runs)
       /\ FailedChecksAreFailedTasks

\* A row may be overwritten in this step: its id is in use a second time, or
\* the flush of TASK_SUCCEEDED has failed after finish_task.
MayRewrite(i) == \/ tasks[i].run_id \in reused
                 \/ /\ tasks[i].status = "SUCCEEDED"
                    /\ tasks'[i].status = "FAILED"
                    /\ IsLatest(i)

(***************************************************************************)
(* RUNBOOK, guarantee 2: "retries append; they never overwrite history".   *)
(* A terminal task row stays as it is, also when the next attempt closes   *)
(* its own.  The two exceptions are in MayRewrite.                         *)
(***************************************************************************)
HistorySurvives ==
  [][\A i \in DOMAIN tasks :
       tasks[i].status \in Terminal /\ tasks'[i] # tasks[i] => MayRewrite(i)]_vars

(***************************************************************************)
(* What watermark_stalls can find while cut-offs are pinned: only tables   *)
(* that track no watermark at all.  A pinned cut-off is recorded as        *)
(* watermark_to also when the window was empty.                            *)
(***************************************************************************)
StalledMeansUntracked == Stalled(StallRuns) /\ Incremental => ~spec.pinned

(***************************************************************************)
(* WATERMARK_ADVANCED is only reported for a run that did move the mark,   *)
(* also when runs with the same cut-off overlap (advance compares value    *)
(* and run id when it reads the row again).                                *)
(***************************************************************************)
AdvanceReportIsSound == claimed \subseteq movers

----------------------------------------------------------------------------
(* The inductive invariant behind NoRowIsLost and BatchIsWhole.            *)

\* A driver has a run id while it executes a run.
RunInv == \A d \in Drivers : IF pc[d] = "idle" THEN run[d] = NoRun
                                               ELSE run[d] \in RunIds

\* An event stamped in the instant of a cut-off is inside the next window.
BoundHasNoGap == BoundInclusive \/ Overlap > 0

\* Nothing is stamped after the clock, and no mark lies ahead of it.
ClockInv == /\ clock >= 1
            /\ mark <= clock
            /\ \A k \in Keys : source[k].wm <= clock
            /\ \A d \in Drivers : /\ newMark[d] <= clock
                                  /\ window[d].upper <= clock

\* No event will be stamped before this bound any more.
Settled(bound) == bound = LowerBoundDefault \/ bound <= clock - Overlap

\* The lower bound of an attempt that has not read all of its window.
LowerInv(d) == pc[d] \in {"probe", "count", "max", "read"}
                 => Settled(window[d].lower) /\ LoadedBefore(window[d].lower)

\* From the probe on, the cut-off of the query is the mark to advance to.
Probed == {"count", "max", "read", "write", "reconcile", "advance", "finish"}

CutInv(d) == /\ pc[d] = "max" => ~spec.pinned
             /\ pc[d] \in Probed
                  => IF spec.pinned
                       THEN /\ window[d].upper = newMark[d]
                            /\ newMark[d] # None
                       ELSE window[d].upper = None

\* The partitions cover the query; rows are held only by the write that reads
\* them, when it has read them.
ReadInv(d) == /\ pc[d] = "max" => Keys \subseteq UNION unread[d]
              /\ pc[d] \notin {"read", "write"} => batch[d] = {}
              /\ pc[d] = "write" => unread[d] = {}

\* What the new mark leaves behind is in the target, in the batch, or in a
\* partition that is still to be read.
BatchInv(d) ==
  pc[d] \in {"read", "write"} /\ newMark[d] # None
    => \A k \in Keys : Behind(k, newMark[d] - Overlap)
                         => \/ target[k] >= 1
                            \/ k \in batch[d]
                            \/ k \in UNION unread[d]

\* Once the write has committed, the new mark leaves nothing behind.
WrittenInv(d) == pc[d] \in {"reconcile", "advance"} /\ newMark[d] # None
                   => LoadedBefore(newMark[d] - Overlap)

LossInv == /\ LoadedBefore(ComputeWindow(mark))
           /\ \A d \in Drivers : LowerInv(d) /\ BatchInv(d) /\ WrittenInv(d)

\* A pinned query returns the same rows whenever it is asked.
WholeInv(d) ==
  spec.pinned /\ pc[d] \in {"read", "write"}
    => /\ spec.reconciled => count[d] = Cardinality(Result(d))
       /\ batch[d] = Result(d) \ UNION unread[d]
       /\ \A p, q \in unread[d] : p = q \/ p \cap q = {}

\* All that BatchIsWhole needs, whatever the bounds of the windows.
WindowInv == /\ TypeOK
             /\ RunInv
             /\ ClockInv
             /\ \A d \in Drivers : CutInv(d) /\ ReadInv(d) /\ WholeInv(d)

IInv == WindowInv /\ (Incremental => LossInv)
=============================================================================
