# Formal model of the Oracle → Databricks ingestion framework

The framework copies Oracle tables into Delta tables ("Bronze is a 1:1
current-state mirror of Oracle") in scheduled runs. A run extracts the rows
whose watermark column lies in a window, MERGEs them into the target, compares
row counts, and only then moves the stored watermark. What makes it correct is
spread over many statements against four shared stores (Oracle, the Delta
target, the control tables, the audit table), none of which share a
transaction. The modules in this directory model those statements and their
interleavings; TLC checks them on small instances and TLAPS proves nearly all
of the safety properties for every instance.

Paths below are relative to `src/src/ingestion_framework/`.

## 1. Inventory

| Part | State | Operations | Interacts with |
|---|---|---|---|
| Table runner, `orchestration/runner.py` | locals of an attempt: window, cut-off, counts | `run_with_retries`, `run`, `_execute`, `_fail`, `_skip`, `_advance_watermark` | all of the following |
| Batch runner, `orchestration/batch_runner.py` | levels, `failed`, `result.outcomes`, thread pool | `order_tables`, `run`, `_partition`, `_run_level`, `_skip_for_dependency` | table runners (futures), control store, audit log |
| Watermark store, `control/watermark.py` | one row per table | `window`, `advance` (guarded MERGE), `force_set` | extractor, CLI |
| Control store, `control/control_store.py` | run rows, task rows, config snapshots, checks | `start_run`, `finish_run`, `start_task`, `finish_task`, `register_config`, `record_checks` | both runners |
| Audit log, `control/audit.py` | `_sequence`, `_buffer`, the audit table | `emit`, `flush` | both runners, from several threads |
| Extractor and SQL builder, `engine/extractor.py`, `engine/sql_builder.py` | none | `probe_upper_bound`, `count_source`, `probe_max_watermark`, `extract` | Oracle, read-only |
| Transformer, `engine/transformer.py` | none | deduplication, NULL-key count, staged (lazy) view | extractor, loader |
| Loader, `engine/loader.py` | the Delta table and its history | MERGE, append, overwrite, `_collect_metrics` | target |
| Reconciler, `engine/reconciler.py` | none | row count, key and expectation checks | runner |
| CLI, `cli.py` | none | `run`, `backfill`, `validate`, `deploy` … | watermark store, batch runner |
| Configuration, `config/*` , `engine/run_spec.py` | none (pure) | load, merge layers, resolve, validate, type | everything, at start |
| Bundle generator, `orchestration/bundle.py` | none (pure) | group tables into jobs, edges between tasks | configuration |
| Monitoring, `observability/monitoring.py` | none | dashboard queries over the control tables | control store |
| Alerts, logger, factory, SQL client | none of their own | delivery, output, wiring | – |

### What is hard about it

* **Several drivers for one table.** The scheduled job, an operator's
  `ingest run` and an `ingest backfill` may overlap; nothing locks a table.
  Each reads the mark, reads the source, MERGEs and advances in separate
  statements.
* **Late commits.** A transaction stamps a row and commits later. A row may be
  older than a cut-off that a run has already passed.
* **Lazy reads.** The source is counted in one query and read in another, when
  the MERGE is executed.
* **Failure between statements.** After the MERGE and before the advance; after
  the advance and before the task row is closed; inside `_fail` itself; before
  the try block, where nothing records the error.
* **Retries** repeat a load that may have been committed.
* **A check that counts.** Duplicates, NULL keys and rows that the merge guard
  rejects each shift the counts that decide whether the watermark may move, and
  the staged view is evaluated anew by every query.
* **Four layers of configuration** with null, lists, tagged lists and mappings
  over each other, and placeholders that refer to other placeholders.
* **Writes that are not idempotent.** An append repeated by a retry, a later run
  or an overlapping run adds its rows again; a bound that is exclusive on both
  sides loses the row on it.
* **Control tables without constraints.** An INSERT never collides, an UPDATE
  changes every row it finds, and an operator may give a run id again.
* **Options read in many places.** Mode, strategy, watermark type, bounds,
  column lists and write mode are read by the validator, the window, the probes,
  the query builder, the stage and the MERGE, each under its own conditions.
* **Threads without locks.** The workers of a batch share one audit buffer and
  one counter.
* **A batch has many ways out**: cycles, a failed INSERT of the run row,
  blocked tables, an escaping error of one worker while others run, an
  interrupt, the loss of the process.

### What makes each part correct

* Table: nothing committed in Oracle is skipped for good (`NoLoss`); the mark
  moves backwards only in a backfill (`MarkNeverRegresses`); no older version
  replaces a newer one (`TargetNeverRegresses`); the target becomes the mirror
  once the source is quiet (`Converges`); together, the drivers implement the
  contract of a mirror (`ImplementsMirror`).
* Append and overwrite tables: no event is lost (`NoRowIsLost`), partitions read
  at different instants are one cut (`BatchIsWhole`), and every duplicate can be
  found from the task rows (`CopiesAreAccountedFor`).
* Control tables: run rows, task rows, checks and registry tell one story
  (`DashboardsAgree`), history is not overwritten (`HistorySurvives`), the
  volume shown of a reconciled table is never more than the target got
  (`VolumeNeverOverstates`), an
  advance is claimed only by the run that made it (`AdvanceReportIsSound`), and
  what `watermark_stalls` can find is known (`StalledMeansUntracked`).
* Options: which accepted configurations cannot run (`FailuresAreKnown`), skip
  rows (`NothingIsPassedOver`) or load rows twice (`NoCopies`), and whether the
  warning about the merge guard is true (`WarningIsTrue`).
* Batch: exactly the cyclic batches are refused (`RefusedIffCyclic`); no table
  runs before, or after the failure of, what it depends on
  (`DependenciesFirst`); the run row agrees with the task rows
  (`RunRowIsTruthful`), is not closed while a worker still loads
  (`ClosedRunIsQuiet`), and is reached on every way out (`RunEnds`); the job
  generated for the same tables keeps their order (`JobKeepsOrder`).
* Staging and reconciliation, over a still source: the checks pass exactly when
  the load has made the target a mirror, if `rows_written` is what was inserted
  and updated, and a shortfall is real in any case (`ChecksAreExact`); a load that
  passes has written no row its expectations refuse (`PassedRowsAreGood`).
* Configuration: a merge does to each path what the contract `Overlay` says
  (`MergesPathByPath`), by which later layers win (`LaterLayersWin`) and nothing
  hangs below a replaced block (`NoOrphans`); a tagged list costs no entry
  (`EntriesSurvive`); a pass over the placeholders does to each text what the
  contract `Placeholders` says (`InterpolatesAllTexts`), by which a text that is
  returned is what its placeholders mean (`ResolvedTextsAreExact`) and what is
  refused deserves it (`RefusalsAreJustified`).
* Audit: a crash costs only the task that was open (`CrashLosesOpenTask`), the
  sequence numbers order a task's events even when workers interleave, and with
  one worker the whole table, once each (`SequenceOrdersTask`), with a bounded
  buffer (`BufferIsBounded`).

The list of hazards, each with the line where it bites and the properties aimed
at it, is in `PROJECT.json` under `hazards`.

## 2. Modules

| Module | Models |
|---|---|
| `OracleSource` | the source table (external): rows with stamp and version, open transactions, the database clock |
| `Watermark` | operators: the window, the guard of an advance, the two bounds of the query |
| `TableRunner` | one incremental merge table and any number of drivers working on it |
| `Mirror` | the abstract contract of such a table: write, load, advance, rewind |
| `BatchRunner` | a batch of tables with dependencies, levels, pool, run row and task rows |
| `Bundle` | the job generated for the tables of a batch: its tasks, edges, reported dependencies |
| `ControlStore` | the control tables as sequences of rows, one operator per SQL statement |
| `Monitoring` | the dashboard queries over them |
| `AppendRunner` | one append or overwrite table, any number of drivers, and its rows in the control tables |
| `RunOptions` | one table's options through validator, run specification, query, load and advance |
| `AuditLog` | `emit` and `flush`, called by several threads |
| `Staging` | one table's loads in detail: duplicate and NULL keys, the staged view, MERGE, checks and expectations |
| `ConfigResolver` | the merge of configuration layers, identity, derived defaults, placeholders |
| `Overlay` | the abstract contract of the merge: layers as functions on paths |
| `Placeholders` | the abstract contract of the interpolation: texts as a graph |
| `MC*` | symmetry sets, and the configurations and fragments to look at, for TLC |
| `TableRunner_proof` | proofs about one merge table, and that it implements `Mirror` |
| `BatchRunner_proof` | proofs about `BatchRunner` and `Bundle` |
| `AppendRunner_proof`, `AppendHistory_proof` | proofs about the rows of an append or overwrite table, and about its control tables and dashboards |
| `AuditLog_proof`, `Staging_proof`, `RunOptions_proof` | proofs about these modules |
| `Config_proof` | proofs about `Overlay` and `Placeholders` |

`TableRunner` extends `OracleSource` and `Watermark`, and instantiates `Mirror`
for the refinement. `AppendRunner` composes `OracleSource`, `Watermark` and
`Monitoring`, which extends `ControlStore`. `Bundle` extends `BatchRunner`.
`BatchRunner` and `AuditLog` each keep, of the life cycle
in `TableRunner`, what their own state depends on. `Staging` is what
`TableRunner` abstracts between read and reconciliation, for one driver;
`ConfigResolver` ends where `RunOptions` begins, with an effective configuration,
and instantiates `Overlay` and `Placeholders` for its two refinements.

### `OracleSource` and `TableRunner`

`clock` is Oracle's clock (`SYSTIMESTAMP` or the SCN), `source[k]` the committed
row of key `k`, `pending[k]` the stamp of an update that is not yet committed.
`target` is the Bronze table, `mark` the row in `watermarks`, `lastWrite` the
row count of the newest entry of the Delta history. Per driver: `pc` and the
locals of `_execute`. A driver's action is one statement that touches shared
state:

| Action | Code |
|---|---|
| `StartRun`, `RetryOrStop` | `run_with_retries`: attempts 1 to retries + 1 |
| `ForceSet` | `cmd_backfill` → `force_set`, before the run |
| `StartTask`, `EscapeStart` | `register_config`, `start_task`, first `emit`: outside the try block |
| `Window` | `WatermarkStore.window` → `compute_window` |
| `ProbeUpperBound`, `CountSource`, `ProbeMaxWatermark` | `OracleExtractor.extract` |
| `ReadBatch`, `Merge`, `CollectMetrics` | the staged view evaluated, the Delta commit, and the metrics of the newest commit, whoever made it |
| `Reconcile` | `reconcile_row_count`; a failed check raises |
| `AdvanceWatermark` | `_advance_watermark` → `advance`, one guarded MERGE |
| `FinishTask`, `TaskSucceeded` | `finish_task(SUCCEEDED)`, then the flush of `TASK_SUCCEEDED` |
| `Error`, `RecordFailure`, `EscapeFail` | an exception in the try block, `_fail`, an exception out of `_fail` |
| `Crash` | the process is lost at any statement |

A statement that raises may or may not have had its effect; both are covered,
because `Error` may be taken before or after the statement's own action. A local is reset by the step that uses it last, which
keeps equal states equal and changes nothing that any later step reads.

Abstractions, and why they are safe to make:

* A watermark value is an instant. One unit is the resolution of the column: a
  second, a microsecond, a day for date columns, one number for SCN and number
  columns. `Overlap` is the overlap that is really subtracted, in that unit
  (`compute_window` subtracts none from numbers). The canonical string forms
  order as the instants do; the comparison of numbers with a fraction is listed
  as a hazard.
* A row is its stamp and a version number; the version stands for all other
  columns. Keys are unique in the source, so the batch has no duplicates and
  the expected count is the source count. `row_count_reconciliation` is on
  (`AppendRunner` has both settings). Other checks that raise are covered by
  `Error`.
* Deletes are not propagated by the framework and are not modelled.
* `BoundInclusive` is `lower_bound_is_inclusive(spec)`. A backfill value is not
  newer than the mark: an operator who moves it forward skips rows on purpose.
* A backfill of a table that has no mark yet sets one, which the first window
  then starts from, as it would from `lower_bound_default`.
* The rows written are those inserted and updated. `parse_operation_metrics`
  prefers Delta's `numOutputRows`, which for a MERGE may also count copied rows;
  `Staging` models both, with the hazard at `loader.py:43`. Here a check that
  fails for it is an `Error`, and one that passes for it leads where unavailable
  metrics lead: the attempt goes on. Only `Converges` assumes that copied rows do
  not fail the checks for ever.
* The batch is read by one query; `AppendRunner` reads it in partitions.

### `BatchRunner`

`deps` and `selected` are chosen in `Init`, so one run of TLC covers every
dependency graph and selection. The main thread's position is `phase`; `level`,
`depth` and `cur` are the result of `order_tables` and the loop over it; `work`
is the future of each table, `taskRow` its newest row in `ingestion_tasks`. The
order of the tables inside a level (by name, in the code) is left open. Every
statement of a worker outside the try block may raise (`work = "raised"`).
In a pool the level ends when every future has ended, because the `with` block
waits, also after an error or an interrupt; a serial level ends at the first
error. One interrupt is modelled: a second one would end the wait.

### `Bundle`

`selected` is the schedule group; all other tables are in other groups, and
every table is configured. A job has no levels: `Edges` are all that is left of
the order, and a failed task blocks its dependents by the scheduler's rule. The
properties compare the two orders in the state where the batch has been ordered.
Schedules, clusters, e-mail addresses and task keys are left out.

### `ControlStore`, `Monitoring` and `AppendRunner`

Rows are records in a sequence in the order of their inserts, which is the order
of `started_at`; the tables have no keys, so nothing stops a second row with the
same (run id, table, attempt). `FinishTask` tests the transition from the
*default* of `current_status`, as every caller does. A dashboard's time window
is taken to hold all rows.

`AppendRunner` chooses in `Init` between four kinds of table: an incremental
append that is pinned and read in partitions, with `row_count_reconciliation` and
without it, one that is neither pinned nor partitioned, and a full load that
overwrites. Without reconciliation the source is not counted, there is no check
row, and `rows_written` is recorded as the metrics have it. The life cycle is that of `TableRunner`; the differences are in the table below. A
run is a batch of this one table, so `BeginRun` and `EndRun` stand for the batch
runner around it. Every driver runs from its own checkout, so `HashOf(d)` is its
configuration hash. Events are inserted and committed in one instant and never
change; late commits are the subject of `TableRunner`.

| Action | Code |
|---|---|
| `BeginRun(d, r)` | `cmd_run` with a fresh or a given run id, `start_run` |
| `BeginTask`, `EscapeStart` | `register_config`, `start_task` for each attempt, and an error at any point of them |
| `CountSource` | `probe_partition_bounds`, `jdbc_options`, `count_source` if the table is reconciled |
| `ReadPartition(d, p)` | one of the queries in which the lazy read is evaluated |
| `WriteDf` | the Delta commit of an append or an overwrite |
| `Reconcile` | `_collect_metrics`, whose error is swallowed, the row count check, `record_checks` |
| `AdvanceWatermark`, `Succeed` | the MERGE of `advance`; its second read, the event, `finish_task` |
| `RecordFailure`, `EscapeFail` | `_fail`, with `finish_task` failing or not, and the flush in it failing |
| `EndRun` | `derive_run_status`, `finish_run` |

`reused`, `movers`, `claimed` and `invoked` are history. The properties about
counts of rows exclude run ids that were given twice (`NoIdIsReused`), because
the rows of the two runs cannot be told apart then; `HistorySurvives` names
them as one of its two exceptions.

### `RunOptions`

The configuration is a record of the options whose combinations the code looks
at, chosen in `Init`; a watermark value is a kind (instant or number) and a
place, because whether a value fits the type that it is parsed with is what the
options decide. `Validate` is the semantic pass, `Window`, `BuildQuery`, `Probe`,
`Load` and `Advance` are `_execute`, and each may fail for the reason the code,
or Oracle, has. `Probe` sets up the read and asks for the newest stamp, `Load`
evaluates the query again: the DataFrame is lazy. A source query is the record
of what it selects, its bounds, and whether it is limited. Columns are the merge
key, the watermark, the split column and one other. Rows arrive at any moment,
between two steps of a run too, and several share a stamp; a row is stamped and
committed in one instant, and there is one row from the start. One driver, no
other failures, and no count that differs from the batch. A custom query is taken to project all columns and to use
its binds as `>= :lower_bound` and `< :upper_bound`. `date` behaves as
`timestamp`. The validator's rules about one value (identifiers, expectations,
credentials) are left out.

The predicates `CannotRun`, `SkipsRows` and `ReadsAgain` say which accepted
configurations are the exceptions of a property. For `CannotRun` the
property says both directions: these configurations never get through two runs,
and no other ever fails.

### `AuditLog`

`emit` is split into the increment of the counter, the construction of the
event (which reads the counter again), the append and the test of the limit;
`flush` into the test for an empty buffer, the copy element by element, the
clear and the insert. CPython may switch threads at each of these. The callers
are the events of a task in the order the runners emit them, with
`flush=True` for the one that closes an attempt, and the unflushed
`TASK_SKIPPED` of a blocked table. `pool` is the number of workers, chosen in
`Init`; `Crash` loses the buffer and every copy on its way. `RUN_STARTED` and `RUN_FINISHED`, which
belong to no table, are left out. `closed` and `dropped` are history.

### `Staging`

`raw` is what a query over the window would return now; every query evaluates
it again, and `Change` may come in between. A row has a key, complete or with a
NULL part, a watermark (0 for NULL) and a flag that says whether it violates the
table's expectation, which stands for the rules of `build_expectation_query`.
`CountSource`, `CountDuplicates`, `CountNullKeys`, `Merge`, `CollectMetrics` and
`CheckExpectations` are the queries in the order `_execute` issues them. When
rows of one key tie, any of them may be number one, anew in each evaluation. The
target holds a row per complete key; rows with a NULL key match nothing and are
only counted (`stray`). `lastWrite` is what the MERGE has inserted and updated,
`lastOutput` its `numOutputRows`: rows of the target that it leaves unchanged may
be copied with the files that are rewritten, any number of them when some row
matches (`Copies`; how many depends on the files). `CollectMetrics` takes one of
the two, whichever the release of Delta reports, or nothing when the history
cannot be read. `batch` and `quiet` are history. The row of a key that
has left the window stays in the target; a mirror of the window is what is
claimed.

### `ConfigResolver`

A configuration value is a tagged record: text, null, mapping, list, or a list
with a strategy. `MergeLayer` is one step of `merge_layers`, `Complete` is
`_apply_identity` and `_apply_derived_defaults`, `InterpolationPass` one pass of
`_interpolate`. A text is the set of its literal parts and the set of paths its
placeholders name: which parts reach a text, and from where, is what the
properties are about, not their order. Precedence and references are in the two
contracts below; `EntriesSurvive` is defined directly from the layers, without the
merge. The four
layers of `resolve` are equal in kind, so their number is a constant. Texts are
never empty and the identity of a `!merge_by` entry is a text; a list or mapping
there raises `TypeError` in the code and is left out.

### `Overlay` and `Placeholders`

`deep_merge` and `_walk_strings` are recursive, and what a recursive operator
computes for every input is out of the prover's reach. So their promise is
stated once more without recursion, TLC checks that the recursive operators keep
it, and the prover shows what follows from it.

In `Overlay` a configuration is a function on the paths that are there, with one
value for all mappings. A merge keeps the paths of the base that the override
does not replace from above, and adds its own. `Above`, the copy of a value and
what a tagged list becomes are parameters: of paths it is only asked that
`Above` is transitive, of layers that they are trees (`ProperLayers`). The mapping
(`Layering` in `ConfigResolver`) flattens each layer and `merged`; TLC evaluates
`ProperLayers` under it.

In `Placeholders` every text is a place with its literal parts and the places it
refers to; a placeholder for which no text is found refers to `Nowhere`. `Begin`
is the call of `_interpolate`, with any finite graph; `Pass` is one pass. `span`
is history: the number of references that a placeholder stands for, doubled by
each pass. The mapping (`Substitution`) takes the places from the keys and list
positions of the configuration, adds a place for each name of the identity, and
has `2^passes` for `span`.

## 3. Runs

| Run | Checks | Bounds |
|---|---|---|
| `two_drivers` | `TypeOK`, `NoLoss`, `MarkNeverRegresses`, `TargetNeverRegresses`, `ImplementsMirror`, `Converges` | one key, two drivers, overlap 1, commit lag 1, clock 1–4, two versions, one error or crash; with fairness |
| `max_watermark` | `NoLoss` | no pinned cut-off, exclusive lower bound, overlap 2 > lag 1, ties allowed; two keys, one driver, clock 1–5, one retry, two faults |
| `failed_task` | `FailedTaskHeldMark` violated | one key, one driver, one error |
| `batch_pool` | `TypeOK`, `RefusedIffCyclic`, `DependenciesFirst`, `RunRowIsTruthful`, `ClosedRunIsQuiet`, `JobKeepsOrder`, `RunEnds` | all graphs over three tables, one disabled; two workers; one retry; with fairness |
| `audit_log` | `TypeOK`, `CrashLosesOpenTask`, `SequenceOrdersTask`, `BufferIsBounded` | one or two threads, two tables, buffer of four, three events a task, one failing insert or crash |
| `audit_pool` | `NothingVanishes` violated | as `audit_log`, without faults |
| `staged_loads` | `TypeOK`, `ChecksAreExact`, `PassedRowsAreGood` | three rows over two keys and a NULL key, watermarks NULL, 1, 2; two loads, one change of the source at any point |
| `bad_row` | `BadRowsStayOut` violated | two rows, one load |
| `config_layers` | `TypeOK`, `EntriesSurvive`, `MergesPathByPath`, `InterpolatesAllTexts` | every stack of three layers from 22 fragments; five passes, as in the code |
| `append_history` | `TypeOK`, `NoRowIsLost`, `BatchIsWhole`, `CopiesAreAccountedFor`, `VolumeNeverOverstates`, `DashboardsAgree`, `StalledMeansUntracked`, `AdvanceReportIsSound`, `HistorySurvives` | four kinds of table, two keys, two drivers with different configurations, two runs, one retry, one fault, `bound_inclusive: true` |
| `append_boundary` | `NoRowIsLost` violated | one driver, two runs, no fault, the bound that `auto` picks |
| `run_options` | `TypeOK`, `FailuresAreKnown`, `NothingIsPassedOver`, `NoCopies`, `WarningIsTrue` | three slices of configurations: bounds and marks, columns and partitions, custom queries; two instants, two rows to each, three runs |

Why the bounds are enough to be interesting:

* Clock 1–4 with lag 1 and overlap 1 has a stamp before a first cut-off, a
  commit after it, a second window that reaches back exactly to the stamp, and a
  third that no longer does. Two versions are what "older" and "newer" need.
  Two drivers on one key are enough for one to overtake the other between any
  two statements; two keys are needed for a count that differs from the batch.
* Three tables have a chain in which the last table is blocked by a failure two
  levels up, a table with two dependencies, two dependents of one table, and a
  cycle beside a healthy table. The theorems about the batch hold for any number.
* A buffer of four with three events a task fills with the events of two
  tables before either is closed, and is overrun when both workers append
  between a test and a clear; two workers meet between any two steps of a flush.
* Two runs that overlap, or the second of which reuses the id of the first once
  that is over (an operator retries a run, never one in progress), and one fault
  with one retry: a committed append is repeated, a row is closed twice, a
  driver is lost between any two statements, and two runs advance to the same
  cut-off. Two keys give two partitions.
* Three runs: a first window, one that starts from a mark, and one that shows
  what the second left behind. Two instants with two rows each: a row arrives
  with the stamp of the cut-off or the mark after its neighbour was read, between
  the probe and the read, or in the next instant. All options at once are too many;
  each slice varies the options that meet in one part of the code.
* Three rows over two keys give a key with a newer and an older row beside one
  of another key or a NULL key; the second load meets rows that the first has
  written, so the guard has something to reject and the MERGE something to copy.
* Three layers give each kind of value over each other kind with something left
  below it, and references that pass through a derived value, an identity and
  a cycle of length three. A fourth layer repeats the step. What they leave open,
  more layers, deeper ones and more texts, is in the theorems about `Overlay` and
  `Placeholders`.

Symmetry is used for drivers, keys, rows, tables and threads where they are
interchangeable, never in a run with a liveness property. `CHECK_DEADLOCK FALSE`
is set in the batch, audit, staging, append and configuration runs, which model
work that ends.

Every property of a passing run has a mutant: an operator beside the
original (marked `MUTANT`) that carries a plausible bug, such as a dropped
guard, a forgotten clear or an off-by-one in the retry loop, under which the
property fails.

### Fairness

`two_drivers` assumes that Oracle's clock advances and its transactions end
(weak fairness of `Tick` and `Commit`), and that each driver goes on and the
scheduler starts the next run (weak fairness of `Progress(d)`): jobs are
scheduled periodically. Nothing is assumed of updates, errors, crashes and
backfills: they are bounded in number and may stop at any time. `batch_pool`
assumes that the threads of a live process go on: each statement returns or
raises. The process may crash at any time.

## 4. Proofs

`TableRunner_proof`, for every finite set of keys, set of drivers, overlap, lag,
retry count, kind of bound and fault bound:

* `TypeCorrect`: `Spec => []TypeOK`; in particular no attempt number exceeds
  retries + 1.
* `NothingIsSkipped`: `Spec => []NoLoss`, from two assumptions: the overlap
  covers the commit lag (`OverlapCoversLag`: `>=` for an inclusive bound, `>`
  for an exclusive one), and versions of one row have different stamps
  (`~Ties`). The first is needed: without a pinned cut-off and an overlap, a row
  that commits late is skipped. The second makes the
  argument go through for several drivers; with one driver ties do no harm, as
  `max_watermark` checks.
* `OnlyBackfillRewinds`: `Spec => MarkNeverRegresses`.

`bundle.py:9-11` limits a job to one run at a time because the rows of a losing
run would be skipped. `NothingIsSkipped` needs no such limit: with an overlap
that covers the lag, overlapping runs lose nothing.

`NoLoss` is not inductive: an advance is safe only because of what the driver
read and merged several statements before, while other drivers and transactions
went on. `IInv` follows the promise through the attempt:

1. `StampsInv`: stamps are not in the future, and open transactions are at most
   the commit lag old. Hence no row will appear before `clock - Overlap`.
2. `CopiesInv`: a copy of a row, in the target or in a driver's hands, is the
   current version or has an older stamp. Hence the merge guard never keeps the
   current version out, and never replaces it.
3. `WindowInv`: between the window and the read, everything before the lower
   bound is mirrored, and stays so, since nothing is added there any more.
4. `BatchInv`: between read and MERGE, everything before the new mark is in the
   target or in the batch.
5. `LoadedInv`: after the MERGE everything before the new mark (less the
   overlap) is mirrored, and stays so until the advance, whatever other drivers
   do. So the advance keeps `NoLoss`.
6. `MarksInv`: marks are not in the future.

`BatchRunner_proof`, for every finite set of tables, every graph and selection,
pool size, retry count, and both settings of `--continue-on-failure`:

* `TypeCorrect`.
* `DependenciesAreFirst`: `Spec => []DependenciesFirst`, by `BatchInv`: levels
  rise along dependencies (`LevelsInv`); what the main thread has passed is
  recorded, and nothing of a later level has begun (`ProgressInv`); what is
  submitted depends on recorded tables outside `failed` (`SubmittedInv`); a
  recorded table outside `failed` has ended well and its row shows it
  (`OutcomeInv`).
* `RunRowTellsTheTruth`: `Spec => []RunRowIsTruthful`, by `BatchInv` and
  `StatusInv`, which relates `result.status` and the recorded outcomes.

* `OnlyCyclesAreRefused`: `Spec => []RefusedIffCyclic`. If every table has a
  level, a part of the graph without a first table would have a table of least
  level in it, whose dependencies are lower still; if the ordering stops, what is
  left is such a part.
* `ClosedRunsAreQuiet`: `Spec => []ClosedRunIsQuiet`, by `QuietInv`: tables are
  loaded only while their own level is executed, one at a time if it is serial.
* `JobsKeepOrder`: `Spec => []JobKeepsOrder`, about `Bundle`; from `LevelsInv` and
  the theorem before last, since what a job keeps is compared with the levels.

Also in `TableRunner_proof`, under the assumptions of `NothingIsSkipped`:

* `TargetOnlyMovesForward`: `Spec => TargetNeverRegresses`, from `~Ties` alone. By
  `VersionsInv`, stamps and versions order the copies of a row alike, wherever
  they are (source, target, the batch of a driver), so the guard, which compares
  stamps, never lets an older version through.
* `RunnerImplementsMirror`: `Spec => ImplementsMirror`. `Init` implies the
  contract's; `Commit` is a write, `Merge` a load of several rows at once,
  `AdvanceWatermark` an advance, `ForceSet` a rewind, and everything else,
  `Crash` included, stutters. The advance is where `IInv` is needed: the contract
  allows it only when everything before the new mark is mirrored.

`AppendRunner_proof`, for every finite set of keys, any drivers, run ids, retries,
overlap and bounds:

* `TypeCorrect`.
* `ParallelReadIsWhole`: `Spec => []BatchIsWhole`, by `WindowInv`. Under a pinned
  cut-off the clock has passed the window (`ClockInv`, `CutInv`), so no insert
  changes what a partition returns; what has been read is the result of the
  whole query less the partitions that are left (`WholeInv`).
* `EveryEventIsLoaded`: `Spec => []NoRowIsLost` from `BoundHasNoGap`, an inclusive
  bound or an overlap; `append_boundary` shows that it is needed. `LossInv`
  follows the promise through the attempt as `IInv` does for a merge, with
  partitions that are still to be read as a third place where a row may be.

`AppendHistory_proof`, about the control tables in the same model:

* `ClosedRowsStay`: `Spec => HistorySurvives`, an action property; and
  `ControlTablesAgree`: `Spec => []DashboardsAgree`. Both rest on `RowsInv`: which
  rows the run of a driver has (`RunIdsInv`, `AttemptsInv`), and the status of the
  row of the attempt under way (`RowInv`). `SuccessInv` and `ChecksInv` relate run
  rows and checks with them; the second counts: each failed check has an
  unsuccessful attempt of its own.
* `CopiesHaveRows`: `Spec => []CopiesAreAccountedFor`, by `CopiesInv`, which counts
  the task rows that may stand for a copy and leaves out those of attempts that
  have not written yet. A write adds one copy and one such row.
* `ReportedAdvancesHappened` (`AdvanceReportIsSound`) and `PinnedTablesNeverStall`
  (`StalledMeansUntracked`), by `MoversInv` and `RecordedInv`.
* `ReportedVolumeIsReal`: `Spec => []VolumeNeverOverstates`, for reconciled tables;
  without the check the statement is false. `Total` is a sum without
  recursion, the cardinality of a disjoint union; TLC compares it with a fold
  (`TotalIsSum`). `VolumeInv` lets each task row claim the rows it reports, or will
  report once its load, which is in the target already, is recorded; all claims
  together are never more than the target holds. A write adds as many rows to the
  target as to the claims (`WriteClaims`), and no later step adds a claim, since
  the row count check has let through no other count than that of the load
  (`MetricsInv`).

`AuditLog_proof`, for every finite set of threads, any tables, buffer limit and
number of events (the value that stands for no table is not one of them):

* `TypeCorrect`.
* `BufferStaysSmall`: `Spec => []BufferIsBounded`, by `HoldInv`: the buffer is below
  the limit, but for one event of each thread that has appended and not yet
  tested or cleared.
* `EventsAreReplayable`: `Spec => []SequenceOrdersTask`. For the events of a task,
  `OwnerInv` (a table has one thread at a time, and its events come one by one)
  and `OrderInv` (the order of the numbers over every place an event can be in);
  for the table as a whole with one worker, `SerialInv`.
* `ClosedAttemptsAreKept`: `Spec => []CrashLosesOpenTask`, by `MissingInv`: what was
  emitted and is neither inserted nor dropped with a failed insert is still on
  its way, and belongs to the open table or a skipped one.

`Staging_proof`, for every finite window, set of keys and number of loads, both
settings of the checks:

* `TypeCorrect`.
* `CountChecksAreExact`: `Spec => []ChecksAreExact`. Over a still source the counts
  are those of the window (`CountInv`), and the MERGE has written as many rows as
  there are keys exactly when it has rejected none (`MergeInv`); copied rows only
  add to that, so a shortfall is real whichever metric is reported. The lemmas are
  about cardinalities: the staged view is a choice of one row for each key, and
  counting it does not depend on the choice.
* `PassedLoadsAreGood`: `Spec => []PassedRowsAreGood`: without ties there is one such
  choice, so the view that the expectations read is the one the MERGE read.

`RunOptions_proof`, for all configurations (TLC sees slices of them), any number of
rows and runs:

* `TypeCorrect` and `GuardWarningHolds` (`WarningIsTrue`).
* `OnlyKnownFailures`: `Spec => []FailuresAreKnown`. `RunInv` says what each step of a
  run has established: the window could be parsed, the query was built without
  an error, the columns it refers to were there. A first run that gets to its end
  rules out all of `CannotRun` but one (`FailsAtOnce`); that one, an overlap on an
  SCN mark, is ruled out by the second, since the first has left a mark
  (`FailureInv`).
* `NoRowIsPassedOver` (`NothingIsPassedOver`) and `NoRowIsInsertedTwice` (`NoCopies`)
  are two directions of one comparison: the rows behind the mark, which the next
  window will not return, are in the target (`PassedInv`), and what is in an
  append target is behind the mark (`CopiesInv`), however many rows share a stamp.
  A row that arrives during the run is not behind its mark, since the mark is at
  most the clock and the bound is inclusive or rewound (`NewRowsAreAhead`).

`Config_proof`, about the contracts of the configuration:

* `MergePrecedence`: `MergeSpec => []LaterLayersWin`, and `MergeLeavesNoOrphans`:
  `MergeSpec => []NoOrphans`, from `ProperLayers`: any number of layers, any trees.
  Together they are inductive. With one layer more, the last setter of a path is the new
  layer if it sets the path, and otherwise the old one unless the new layer hides
  the path (`LastSetterStep`); a path survives a merge exactly if it is not
  hidden.
* `InterpolationExact`: `PassSpec => []ResolvedTextsAreExact`, for any number of texts
  and any limit. A pass leads from a text to every second text it led to, and
  takes the parts of those between into its own, so it changes neither what a text
  means (`SubstitutedMeaning`) nor whether there is a circle (`SubstitutedCycle`).
* `InterpolationRefuses`: `PassSpec => []RefusalsAreJustified`. A placeholder that is
  left after some passes stands for a walk of `span` references in the original
  texts (`Spanned`, `WalksJoin`), and a walk of more references than there are
  texts with placeholders is circular (`LongWalkIsCyclic`). So five passes are
  enough for fifteen texts with placeholders, in whatever way they refer to each
  other.

The constants are assumed to be what the code allows and no more: finite sets of
keys, tables, threads and rows, natural bounds, `Configs \subseteq Config`; TLC evaluates these assumptions in every run.

Only model-checked:

* liveness under fairness (`Converges`, `RunEnds`), which is outside the prover;
* `ConfigResolver`: its operators are recursive over configuration values, and
  what they compute takes an induction over the data. This includes that it
  implements `Overlay` and `Placeholders`, and what becomes of the entries of
  tagged lists (`EntriesSurvive`);
* the four runs that expect a violation, each a counterexample on its own.

## 5. Findings

* **`failed_task`.** The watermark is advanced before `finish_task(SUCCEEDED)`
  and the flush of `TASK_SUCCEEDED`, inside the same try block. An error in
  either records FAILED for a task whose watermark has moved, while
  `docs/RUNBOOK.md:36-37` says that a FAILED task's watermark did not move.
  Nothing is lost by it.
* **`audit_pool`.** Two workers share the audit log without a lock; an event
  appended between the other's copy and clear is lost without any crash, while
  `control/audit.py:5-6` allows only a crash to lose events.
* **`bad_row`.** The MERGE is committed before the expectations run, so a row
  that violates a failing one is in the table when the check finds it, while
  `engine/reconciler.py:11-12` says they run before the load and
  `docs/RUNBOOK.md:152-153` that a failed check stopped the load. The watermark
  stays, so nothing is skipped.
* **`append_boundary`.** For an append target `auto` picks `>` and the cut-off is
  always `<`; the cut-off is the next lower bound, so an event stamped exactly at
  it is never loaded, while `README.md:135-136` says that "runs resume exactly
  where the last one stopped". `config/tables/sales/order_events.yaml` has these
  bounds; with a date column it concerns every row stamped with the day
  of the cut-off. With an inclusive bound nothing is lost (`append_history`).

### Further remarks

What the models show beside the findings; none of these is a violation of a
property as it is stated, most are exceptions that a property names.

* Without a pinned cut-off and without an overlap, a row that commits late is
  skipped, while `engine/sql_builder.py:343-344` says that it cannot be.
* With equal stamps the merge guard lets a slower run put an older version over a
  newer one, while `DESIGN.md:256` says that the guard stops it. The overlap of
  a later run repairs the row.
* An append that committed before an error or a crash is repeated and its rows
  are there twice, while `DESIGN.md:17` says failed runs "can be safely retried
  without duplication". `CopiesAreAccountedFor`: the task rows show where.
* A run id that is given again (`cli.py:57`) makes `finish_task` rewrite the rows
  of the earlier run, and `volume_trend` counts both. A flush of
  `TASK_SUCCEEDED` that fails turns the row of that attempt from SUCCEEDED into
  FAILED. These are the two exceptions in `MayRewrite`.
* `watermark_stalls` can find no incremental table with a pinned cut-off
  (`StalledMeansUntracked`), and lists every full load.
* A run row may be closed while a task row of it stays RUNNING: when
  `finish_task` fails inside `_fail`, the error is only logged.
* A dependency skip is not flushed: a crash may lose its event, although the
  table was over (`OnlySkipped` in `CrashLosesOpenTask`).
* A job loses an order that the batch keeps through a disabled table; the
  description names the missing edge (`LostThrough`).
* Accepted configurations that can never run twice (`CannotRun`): a default or a
  mark of another kind than `watermark_type` (an SCN table must set `number`); a
  pinned cut-off on a numeric column; a query file with a place for a bound that
  has no value; `exclude_columns` over a column that is needed (a key also where
  only `null_check_keys` uses it); a full load with the SCN strategy and a guarded
  merge; an SCN table with `columns: "*"`, since Oracle refuses
  `SELECT *, ORA_ROWSCN` (ORA-00923). The last is the default, the configuration
  of `config/tables/sales/order_events.yaml`, and the select list that
  `tests/test_sql_builder.py:133` expects.
* Accepted configurations that skip rows (`SkipsRows`): `overwrite` under a
  window; `row_limit` under a mark; an exclusive lower bound without an overlap,
  pinned or not (`engine/sql_builder.py:121-123` warns of it; `auto` picks it for
  every append).
* Accepted append configurations that load a row twice (`ReadsAgain`): a full
  load; a query file that does not use both bounds; an overlap; no pinned cut-off,
  because the new mark is probed before the rows are read.
* `numOutputRows` of a MERGE can make the row count check pass although the guard
  has rejected a row, or fail although the target is a mirror. Both are reachable
  in `Staging`; `ChecksAreExact` says what is left.
* With `row_count_reconciliation: false` a run may record the row count of
  another run's larger commit, and `volume_trend` then counts it twice.
* When the source moves between the MERGE and the expectations, a load may pass
  although rows it wrote violate one; `PassedRowsAreGood` needs a still source.
* Options without effect: `custom_schema`, which nothing but the run
  specification reads although `README.md:221` offers it; `exclude_columns`
  beside `columns: "*"`; `row_limit` of a custom query; `overlap` of a number.

## 6. Plan

Done: merge, append and overwrite tables with the contract of the mirror, the
control tables with the dashboards over them, the batch and the job generated
for it, the audit log, staging with its checks, the merge and the meaning of the
configuration; proofs of all safety properties that the prover can reach. Next:
two workers whose tables share the name of a temp view, and the comparison of
numeric marks as `DECIMAL(38,0)`.

Not modelled: alerts (delivery errors are swallowed, no state), logging, DDL,
the JSON schema and YAML parsing, credentials, argument parsing and rendering;
the monitoring queries that compare with the wall clock or only list rows. The
concurrent first INSERT of a watermark row by two runs is left to the conflict
detection of Delta.
