------------------------- MODULE AppendHistory_proof -------------------------
(***************************************************************************)
(* What the control tables and the reports on them say about the runs of   *)
(* AppendRunner: proofs for every set of keys, drivers and run ids, every  *)
(* retry count and bound.                                                  *)
(***************************************************************************)
EXTENDS AppendRunner_proof

----------------------------------------------------------------------------
(* The inductive invariant: which rows a run has while it is executed.     *)

\* The task row of the attempt that a driver is executing has been inserted
\* and not yet closed.
Attempting == TryBlock \ {"audit"}

\* The task rows of the attempt that a driver is executing.
OwnRows(d) == {i \in DOMAIN tasks : IsAttempt(tasks[i], run[d], attempt[d])}

\* Whatever is active or has a task row is a known run; no two drivers share
\* a run id at one time, and no two run rows unless the id was given again.
RunIdsInv ==
  /\ \A d, e \in Drivers :
       pc[d] # "idle" /\ pc[e] # "idle" /\ run[d] = run[e] => d = e
  /\ \A d \in Drivers : pc[d] # "idle" => run[d] \in KnownRuns
  /\ \A i \in DOMAIN tasks : tasks[i].run_id \in KnownRuns
  /\ \A i, j \in DOMAIN runs :
       runs[i].run_id = runs[j].run_id /\ runs[i].run_id \notin reused => i = j

\* An attempt has one row.
AttemptsInv ==
  \A i, j \in DOMAIN tasks :
    /\ tasks[i].run_id = tasks[j].run_id
    /\ tasks[i].attempt = tasks[j].attempt
    /\ tasks[i].run_id \notin reused
    => i = j

\* A driver is at the latest attempt of its run, and knows its row's status.
RowInv(d) ==
  pc[d] # "idle" /\ run[d] \notin reused =>
    /\ \A i \in DOMAIN tasks :
         tasks[i].run_id = run[d]
           => IF pc[d] = "start" THEN tasks[i].attempt < attempt[d]
                                 ELSE tasks[i].attempt <= attempt[d]
    /\ pc[d] \in Attempting => \E i \in OwnRows(d) : tasks[i].status = "RUNNING"
    /\ pc[d] = "audit" => \E i \in OwnRows(d) : tasks[i].status = "SUCCEEDED"
    /\ pc[d] = "failing"
         => \E i \in OwnRows(d) : tasks[i].status \in {"RUNNING", "SUCCEEDED"}

\* A row has no window until its attempt is closed.
OpenRowsInv == \A i \in DOMAIN tasks :
                 tasks[i].status = "RUNNING" => tasks[i].from = Null

RowsInv == /\ TypeOK
           /\ RunInv
           /\ OpenRowsInv
           /\ RunIdsInv
           /\ AttemptsInv
           /\ \A d \in Drivers : RowInv(d)

\* A run that shows SUCCEEDED is over, and so does its final attempt.
SuccessInv ==
  \A i \in RunsWith("SUCCEEDED") :
    runs[i].run_id \notin reused =>
      /\ \A d \in Drivers : pc[d] # "idle" => run[d] # runs[i].run_id
      /\ \E j \in DOMAIN tasks : /\ tasks[j].run_id = runs[i].run_id
                                 /\ tasks[j].status = "SUCCEEDED"
                                 /\ IsLatest(j)

FailedChecks(r) == {i \in ReconciliationIssues : checks[i].run_id = r}

Unsuccessful(r) == {i \in DOMAIN tasks : /\ tasks[i].run_id = r
                                         /\ tasks[i].status # "SUCCEEDED"}

\* A failed check has an unsuccessful attempt of its own; the attempt that is
\* under way is not one of them yet.
ChecksInv ==
  /\ \A r \in RunIds \ reused :
       Cardinality(FailedChecks(r)) <= Cardinality(Unsuccessful(r))
  /\ \A d \in Drivers :
       pc[d] \in Attempting /\ run[d] \notin reused
         => Cardinality(FailedChecks(run[d])) < Cardinality(Unsuccessful(run[d]))

\* Drivers whose row does not account for a copy of k yet: they have not
\* written, or their batch did not have k in it.
Without(d, k) == /\ pc[d] \in Attempting
                 /\ pc[d] \in {"reconcile", "advance", "finish"} => k \notin Result(d)

\* The task rows that account for a copy of k in the target.
Accounting(k) == {i \in DOMAIN tasks :
                    /\ tasks[i].status # "SUCCEEDED" \/ CoveredBy(k, tasks[i])
                    /\ \A d \in Drivers : Without(d, k) => i \notin OwnRows(d)}

CopiesInv == \A k \in Keys :
               /\ source[k] = NoRow => target[k] = 0
               /\ target[k] <= Cardinality(Accounting(k))

\* The driver has committed its load, and its task row does not say so yet.
Loaded(d) == pc[d] \in {"reconcile", "advance", "finish"}

\* What the row count check has let through.
MetricsInv == \A d \in Drivers :
                spec.reconciled /\ pc[d] \in {"advance", "finish"}
                  => written[d] \in {Null, count[d]}

\* The rows that task row i reports, or will report when its load is recorded.
Claims(i) ==
  (IF CountsForVolume(tasks[i]) THEN 1..tasks[i].written ELSE {})
    \cup UNION {1..count[d] : d \in {e \in Drivers : Loaded(e) /\ i \in OwnRows(e)}}

Claimed == UNION {{<<i, n>> : n \in Claims(i)} : i \in DOMAIN tasks}

\* Each of them is a row of its own in the target.
VolumeInv == IsFiniteSet(Claimed) /\ Cardinality(Claimed) <= Total(target)

\* A successful task of a pinned table has recorded its cut-off.
RecordedInv == spec.pinned => \A i \in DOMAIN tasks :
                                tasks[i].status = "SUCCEEDED" => tasks[i].to # Null

\* The run in the watermark row, and those that reported an advance, moved it.
MoversInv == /\ mark # None => markRun \in movers
             /\ claimed \subseteq movers

----------------------------------------------------------------------------
(* The steps of a driver, as the control tables see them.                  *)

\* The driver's task row stays as it is; its row count check may be recorded.
Move(d) == /\ pc[d] \in TryBlock
           /\ \E to \in Attempting \cup {"failing"} :
                /\ pc' = [pc EXCEPT ![d] = to]
                /\ pc[d] = "audit" => to = "failing"
                /\ \/ checks' = checks
                   \/ /\ pc[d] = "reconcile"
                      /\ \E s \in {"PASSED", "FAILED", "SKIPPED"} :
                           /\ RecordChecks(run[d], s)
                           /\ s = "FAILED" => to = "failing"
           /\ UNCHANGED <<runs, tasks, registry, run, attempt, reused>>

\* The attempt has failed, and this has been recorded or not.
Fails(d) == /\ pc[d] = "failing"
            /\ \/ tasks' = tasks
               \/ FinishTask(run[d], attempt[d], "FAILED", NoMetrics)
            /\ \/ /\ pc' = [pc EXCEPT ![d] = "start"]
                  /\ attempt' = [attempt EXCEPT ![d] = @ + 1]
               \/ /\ pc' = [pc EXCEPT ![d] = "close"]
                  /\ attempt' = attempt
            /\ UNCHANGED <<runs, checks, registry, run, reused>>

\* The driver gives up its run, and has closed the run row or not.
Stop(d) == /\ pc[d] # "idle"
           /\ Leave(d)
           /\ \/ runs' = runs
              \/ /\ pc[d] \in {"audit", "close"}
                 /\ FinishRun(run[d], IF pc[d] = "audit" THEN "SUCCEEDED"
                                                        ELSE "FAILED")
           /\ UNCHANGED <<tasks, checks, registry, reused>>

LEMMA HistoryCases ==
  ASSUME NEW d \in Drivers, Progress(d) \/ Disturb(d)
  PROVE  \/ \E r \in RunIds : BeginRun(d, r)
         \/ BeginTask(d) \/ EscapeStart(d) \/ Move(d) \/ Succeed(d)
         \/ Fails(d) \/ Stop(d)
<1> USE DEF Goto, TryBlock, Attempting, storeVars, driverVars, historyVars
<1>1. CASE Window(d)
  BY <1>1 DEF Window, Move
<1>2. CASE ProbeUpperBound(d)
  BY <1>2 DEF ProbeUpperBound, Move
<1>3. CASE CountSource(d)
  BY <1>3 DEF CountSource, Move
<1>4. CASE ProbeMaxWatermark(d)
  BY <1>4 DEF ProbeMaxWatermark, Move
<1>5. ASSUME NEW p \in unread[d], ReadPartition(d, p) PROVE Move(d)
  BY <1>5 DEF ReadPartition, Move
<1>6. CASE WriteDf(d)
  BY <1>6 DEF WriteDf, Move
<1>7. CASE Reconcile(d)
  <2>1. PICK rows \in {lastWrite, Null} :
          /\ IF spec.reconciled THEN RecordChecks(run[d], RowCount(rows, count[d]))
                                ELSE UNCHANGED checks
          /\ IF Passes(rows, count[d])
               THEN pc' = [pc EXCEPT ![d] = "advance"]
               ELSE pc' = [pc EXCEPT ![d] = "failing"]
    BY <1>7 DEF Reconcile
  <2>2. /\ RowCount(rows, count[d]) \in {"PASSED", "FAILED", "SKIPPED"}
        /\ spec.reconciled =>
             (Passes(rows, count[d]) <=> RowCount(rows, count[d]) # "FAILED")
    BY DEF RowCount, Passes
  <2> QED BY <1>7, <2>1, <2>2 DEF Reconcile, Move
<1>8. CASE AdvanceWatermark(d)
  BY <1>8 DEF AdvanceWatermark, Move
<1>9. CASE Error(d)
  BY <1>9 DEF Error, Move
<1>10. CASE RecordFailure(d)
  BY <1>10 DEF RecordFailure, FinishFailed, Fails
<1>11. CASE EscapeFail(d)
  BY <1>11 DEF EscapeFail, Fails
<1>12. CASE EndRun(d)
  <2>1. DeriveRunStatus({Outcome(d)})
          = IF pc[d] = "audit" THEN "SUCCEEDED" ELSE "FAILED"
    BY DEF DeriveRunStatus, Outcome
  <2> QED BY <1>12, <2>1 DEF EndRun, Stop
<1>13. CASE Crash(d)
  BY <1>13 DEF Crash, Stop
<1> QED BY <1>1, <1>2, <1>3, <1>4, <1>5, <1>6, <1>7, <1>8, <1>9, <1>10, <1>11,
           <1>12, <1>13
        DEF Progress, Disturb, Extract, Load

\* A step of the source, or none, leaves the drivers and their rows alone.
LEMMA QuietHistory ==
  ASSUME [Next]_vars
  PROVE  \/ \E d \in Drivers : Progress(d) \/ Disturb(d)
         \/ UNCHANGED <<storeVars, spec, tableVars, localVars, driverVars,
                        historyVars>>
BY DEF Next, Environment, vars

\* The row that start_task inserts.
NewRow(d) == [run_id |-> run[d], attempt |-> attempt[d], hash |-> HashOf(d),
              status |-> "RUNNING", from |-> Null, to |-> Null,
              count |-> Null, written |-> Null]

LEMMA StartTaskRows ==
  ASSUME TypeOK, NEW d \in Drivers, StartTask(run[d], attempt[d], HashOf(d))
  PROVE  /\ Len(tasks) + 1 \notin DOMAIN tasks
         /\ DOMAIN tasks' = DOMAIN tasks \cup {Len(tasks) + 1}
         /\ tasks'[Len(tasks) + 1] = NewRow(d)
         /\ \A i \in DOMAIN tasks : tasks'[i] = tasks[i]
<1>1. tasks \in Seq(TaskRow) /\ tasks' = Append(tasks, NewRow(d))
  BY DEF StartTask, NewRow, TypeOK, StoreTypeOK
<1>2. /\ DOMAIN tasks = 1..Len(tasks)
      /\ Len(tasks) \in Nat
  BY <1>1
<1>3. /\ Len(tasks') = Len(tasks) + 1
      /\ DOMAIN tasks' = 1..Len(tasks')
      /\ tasks'[Len(tasks) + 1] = NewRow(d)
      /\ \A i \in 1..Len(tasks) : tasks'[i] = tasks[i]
  BY <1>1, AppendProperties
<1> QED BY <1>2, <1>3

\* finish_task keeps what identifies a row.
LEMMA FinishTaskRows ==
  ASSUME TypeOK, RunInv, NEW d \in Drivers, pc[d] # "idle",
         NEW s \in Terminal, NEW m \in Metrics,
         FinishTask(run[d], attempt[d], s, m)
  PROVE  /\ DOMAIN tasks' = DOMAIN tasks
         /\ \A i \in DOMAIN tasks :
              /\ tasks'[i].run_id = tasks[i].run_id
              /\ tasks'[i].attempt = tasks[i].attempt
              /\ tasks'[i].hash = tasks[i].hash
              /\ i \in OwnRows(d)
                   => /\ tasks'[i].status = s
                      /\ tasks'[i].from = Coalesce(m.from, tasks[i].from)
                      /\ tasks'[i].to = m.to
                      /\ tasks'[i].written = m.written
              /\ i \notin OwnRows(d) => tasks'[i] = tasks[i]
<1>1. tasks \in Seq(TaskRow) /\ run[d] \in RunIds /\ attempt[d] \in Nat
  BY AppendAssumption DEF TypeOK, StoreTypeOK, RunInv, DriverTypeOK
<1>2. /\ DOMAIN tasks' = DOMAIN tasks
      /\ \A i \in DOMAIN tasks :
           tasks'[i] = IF IsAttempt(tasks[i], run[d], attempt[d])
                         THEN ClosedRow(tasks[i], s, m)
                         ELSE tasks[i]
  BY <1>1, FinishTaskType
<1>3. ASSUME NEW i \in DOMAIN tasks
      PROVE  LET row == ClosedRow(tasks[i], s, m)
             IN /\ row.run_id = tasks[i].run_id
                /\ row.attempt = tasks[i].attempt
                /\ row.hash = tasks[i].hash
                /\ row.status = s
                /\ row.from = Coalesce(m.from, tasks[i].from)
                /\ row.to = m.to
                /\ row.written = m.written
  <2>1. tasks[i] \in TaskRow
    BY <1>1
  <2> QED BY <2>1 DEF ClosedRow, TaskRow
<1> QED BY <1>2, <1>3 DEF OwnRows

\* finish_run keeps the id of a row.
LEMMA FinishRunRows ==
  ASSUME TypeOK, RunInv, NEW r, NEW s, FinishRun(r, s)
  PROVE  /\ DOMAIN runs' = DOMAIN runs
         /\ \A i \in DOMAIN runs :
              /\ runs'[i].run_id = runs[i].run_id
              /\ runs[i].run_id = r => runs'[i].status = s
              /\ runs[i].run_id # r => runs'[i] = runs[i]
<1>1. \A i \in DOMAIN runs : runs[i] \in RunRow
  BY DEF TypeOK, StoreTypeOK
<1> QED BY <1>1 DEF FinishRun, UpdateWhere, RunRow

LEMMA StartRunRows ==
  ASSUME TypeOK, NEW r \in RunIds, StartRun(r)
  PROVE  /\ Len(runs) + 1 \notin DOMAIN runs
         /\ DOMAIN runs' = DOMAIN runs \cup {Len(runs) + 1}
         /\ runs'[Len(runs) + 1].run_id = r
         /\ runs'[Len(runs) + 1].status = "RUNNING"
         /\ \A i \in DOMAIN runs : runs'[i] = runs[i]
         /\ KnownRuns' = KnownRuns \cup {r}
<1> DEFINE row == [run_id |-> r, status |-> "RUNNING"]
<1>1. runs \in Seq(RunRow) /\ runs' = Append(runs, row)
  BY DEF StartRun, TypeOK, StoreTypeOK
<1>2. /\ DOMAIN runs = 1..Len(runs)
      /\ Len(runs) \in Nat
  BY <1>1
<1>3. /\ Len(runs') = Len(runs) + 1
      /\ DOMAIN runs' = 1..Len(runs')
      /\ runs'[Len(runs) + 1] = row
      /\ \A i \in 1..Len(runs) : runs'[i] = runs[i]
  BY <1>1, AppendProperties
<1>4. /\ Len(runs) + 1 \notin DOMAIN runs
      /\ DOMAIN runs' = DOMAIN runs \cup {Len(runs) + 1}
  BY <1>2, <1>3
<1>5. KnownRuns' = KnownRuns \cup {r}
  BY <1>2, <1>3, <1>4 DEF KnownRuns
<1> QED BY <1>2, <1>3, <1>4, <1>5

----------------------------------------------------------------------------
(* Runs, attempts and their rows.                                          *)

\* No step takes the id of a run row, or of a task row, away.
LEMMA KnownStep ==
  ASSUME TypeOK, RunInv, NEW d \in Drivers, Progress(d) \/ Disturb(d)
  PROVE  KnownRuns \subseteq KnownRuns'
<1>1. CASE runs' = runs
  BY <1>1 DEF KnownRuns
<1>2. ASSUME NEW r \in RunIds, BeginRun(d, r) PROVE KnownRuns \subseteq KnownRuns'
  BY <1>2, StartRunRows DEF BeginRun
<1>3. ASSUME NEW r, NEW s, FinishRun(r, s) PROVE KnownRuns \subseteq KnownRuns'
  BY <1>3, FinishRunRows DEF KnownRuns
<1> QED BY <1>1, <1>2, <1>3, HistoryCases
        DEF BeginTask, EscapeStart, Move, Succeed, Fails, Stop

\* Which rows of ingestion_tasks a step of driver d can touch.
LEMMA TouchedRows ==
  ASSUME RowsInv, NEW d \in Drivers, Progress(d) \/ Disturb(d)
  PROVE  /\ \A i \in DOMAIN tasks :
              /\ i \in DOMAIN tasks'
              /\ tasks'[i].run_id = tasks[i].run_id
              /\ tasks'[i].attempt = tasks[i].attempt
              /\ tasks'[i].hash = tasks[i].hash
              /\ tasks'[i] # tasks[i] => /\ pc[d] \in {"finish", "failing"}
                                         /\ i \in OwnRows(d)
                                         /\ tasks'[i].status \in Terminal
         /\ \A i \in DOMAIN tasks' \ DOMAIN tasks :
              /\ pc[d] = "start"
              /\ i = Len(tasks) + 1
              /\ tasks'[i] = NewRow(d)
<1>1. CASE tasks' = tasks
  BY <1>1
<1>2. CASE pc[d] = "start" /\ StartTask(run[d], attempt[d], HashOf(d))
  BY <1>2, StartTaskRows DEF RowsInv
<1>3. ASSUME pc[d] \in {"finish", "failing"}, NEW s \in Terminal,
             NEW m \in Metrics, FinishTask(run[d], attempt[d], s, m)
      PROVE  /\ DOMAIN tasks' = DOMAIN tasks
             /\ \A i \in DOMAIN tasks :
                  /\ tasks'[i].run_id = tasks[i].run_id
                  /\ tasks'[i].attempt = tasks[i].attempt
                  /\ tasks'[i].hash = tasks[i].hash
                  /\ tasks'[i] # tasks[i] => /\ i \in OwnRows(d)
                                             /\ tasks'[i].status \in Terminal
  BY <1>3, FinishTaskRows DEF RowsInv
<1>4. CASE Succeed(d)
  <2>1. /\ [from |-> window[d].lower, to |-> newMark[d], count |-> count[d],
            written |-> written[d]] \in Metrics
        /\ "SUCCEEDED" \in Terminal
    BY DEF RowsInv, TypeOK, LocalsTypeOK, Metrics, Terminal, None, Null
  <2> QED BY <1>3, <1>4, <2>1 DEF Succeed, Goto
<1>5. CASE Fails(d)
  <2>1. NoMetrics \in Metrics /\ "FAILED" \in Terminal
    BY DEF NoMetrics, Metrics, Terminal, Null
  <2> QED BY <1>1, <1>3, <1>5, <2>1 DEF Fails
<1> QED BY <1>1, <1>2, <1>4, <1>5, HistoryCases
        DEF BeginRun, BeginTask, EscapeStart, Move, Stop, Goto

LEMMA RunIdsStep ==
  ASSUME RowsInv, NEW d \in Drivers, Progress(d) \/ Disturb(d)
  PROVE  RunIdsInv'
<1> USE DEF RowsInv
<1>1. ASSUME NEW i \in DOMAIN tasks' PROVE tasks'[i].run_id \in KnownRuns'
  <2>1. CASE i \in DOMAIN tasks
    BY <2>1, KnownStep, TouchedRows DEF RunIdsInv
  <2>2. CASE i \notin DOMAIN tasks
    <3>1. tasks'[i].run_id = run[d] /\ pc[d] # "idle"
      BY <2>2, TouchedRows DEF NewRow
    <3> QED BY <3>1, KnownStep DEF RunIdsInv
  <2> QED BY <2>1, <2>2
<1>2. CASE /\ UNCHANGED <<run, reused>>
           /\ pc[d] # "idle"
           /\ \A e \in Drivers \ {d} : pc'[e] = pc[e]
           /\ runs' = runs
  BY <1>1, <1>2 DEF RunIdsInv, KnownRuns
<1>3. ASSUME NEW r \in RunIds, BeginRun(d, r) PROVE RunIdsInv'
  <2>1. /\ \A e \in Drivers \ {d} : pc'[e] = pc[e] /\ run'[e] = run[e]
        /\ run'[d] = r
        /\ \A o \in Drivers : run[o] # r
        /\ reused \subseteq reused'
        /\ r \in KnownRuns => r \in reused'
    BY <1>3 DEF BeginRun, Goto, TypeOK, DriverTypeOK
  <2>2. KnownRuns' = KnownRuns \cup {r}
    BY <1>3, StartRunRows DEF BeginRun
  <2>3. \A a, b \in Drivers :
          pc'[a] # "idle" /\ pc'[b] # "idle" /\ run'[a] = run'[b] => a = b
    BY <2>1 DEF RunIdsInv
  <2>4. \A e \in Drivers : pc'[e] # "idle" => run'[e] \in KnownRuns'
    BY <2>1, <2>2 DEF RunIdsInv
  <2>5. ASSUME NEW i \in DOMAIN runs', NEW j \in DOMAIN runs',
               runs'[i].run_id = runs'[j].run_id, runs'[i].run_id \notin reused'
        PROVE  i = j
    <3>1. PICK n : /\ DOMAIN runs' = DOMAIN runs \cup {n}
                   /\ runs'[n].run_id = r
                   /\ \A h \in DOMAIN runs : runs'[h] = runs[h]
      BY <1>3, StartRunRows DEF BeginRun
    <3>2. CASE i \in DOMAIN runs /\ j \in DOMAIN runs
      BY <2>1, <2>5, <3>1, <3>2 DEF RunIdsInv
    <3>3. ASSUME NEW h \in DOMAIN runs, runs[h].run_id = r PROVE r \in reused'
      BY <2>1, <3>3 DEF KnownRuns
    <3> QED BY <2>5, <3>1, <3>2, <3>3
  <2> QED BY <1>1, <2>3, <2>4, <2>5 DEF RunIdsInv
<1>4. CASE Stop(d)
  <2>1. /\ \A e \in Drivers \ {d} : pc'[e] = pc[e] /\ run'[e] = run[e]
        /\ pc'[d] = "idle" /\ run'[d] = NoRun
        /\ reused' = reused
    BY <1>4 DEF Stop, Leave, TypeOK, DriverTypeOK
  <2>2. /\ DOMAIN runs' = DOMAIN runs
        /\ \A i \in DOMAIN runs : runs'[i].run_id = runs[i].run_id
    BY <1>4, FinishRunRows DEF Stop
  <2>3. \A e \in Drivers : pc'[e] # "idle" => run'[e] \in KnownRuns'
    BY <2>1, KnownStep DEF RunIdsInv
  <2>4. \A a, b \in Drivers :
          pc'[a] # "idle" /\ pc'[b] # "idle" /\ run'[a] = run'[b] => a = b
    BY <2>1 DEF RunIdsInv
  <2> QED BY <1>1, <2>1, <2>2, <2>3, <2>4 DEF RunIdsInv
<1>5. CASE BeginTask(d) \/ EscapeStart(d) \/ Move(d) \/ Succeed(d) \/ Fails(d)
  <2>1. /\ UNCHANGED <<run, reused, runs>>
        /\ pc[d] # "idle"
        /\ \A e \in Drivers \ {d} : pc'[e] = pc[e]
    BY <1>5
    DEF BeginTask, EscapeStart, Move, Succeed, Fails, Goto, historyVars,
        TypeOK, DriverTypeOK, TryBlock
  <2> QED BY <1>2, <2>1
<1> QED BY <1>3, <1>4, <1>5, HistoryCases

\* What a driver's step keeps of the other drivers, and of the history.
LEMMA OtherDrivers ==
  ASSUME TypeOK, NEW d \in Drivers, Progress(d) \/ Disturb(d)
  PROVE  /\ reused \subseteq reused'
         /\ \A e \in Drivers \ {d} : /\ pc'[e] = pc[e]
                                     /\ run'[e] = run[e]
                                     /\ attempt'[e] = attempt[e]
<1> USE DEF TypeOK, DriverTypeOK, Goto, historyVars
<1>1. ASSUME NEW r \in RunIds, BeginRun(d, r)
      PROVE  /\ reused \subseteq reused'
             /\ \A e \in Drivers \ {d} : /\ pc'[e] = pc[e]
                                         /\ run'[e] = run[e]
                                         /\ attempt'[e] = attempt[e]
  BY <1>1 DEF BeginRun
<1>2. CASE BeginTask(d) \/ EscapeStart(d) \/ Move(d) \/ Succeed(d)
  BY <1>2 DEF BeginTask, EscapeStart, Move, Succeed
<1>3. CASE Fails(d) \/ Stop(d)
  BY <1>3 DEF Fails, Stop, Leave
<1> QED BY <1>1, <1>2, <1>3, HistoryCases

LEMMA AttemptsStep ==
  ASSUME RowsInv, NEW d \in Drivers, Progress(d) \/ Disturb(d)
  PROVE  AttemptsInv'
<1> SUFFICES ASSUME NEW i \in DOMAIN tasks', NEW j \in DOMAIN tasks',
                    tasks'[i].run_id = tasks'[j].run_id,
                    tasks'[i].attempt = tasks'[j].attempt,
                    tasks'[i].run_id \notin reused'
             PROVE  i = j
  BY DEF AttemptsInv
<1> USE DEF RowsInv
<1>1. tasks'[i].run_id \notin reused
  BY OtherDrivers
<1>2. CASE i \in DOMAIN tasks /\ j \in DOMAIN tasks
  BY <1>1, <1>2, TouchedRows DEF AttemptsInv
<1>3. CASE i \notin DOMAIN tasks /\ j \notin DOMAIN tasks
  BY <1>3, TouchedRows
<1>4. ASSUME NEW a \in DOMAIN tasks' \ DOMAIN tasks, NEW b \in DOMAIN tasks,
             tasks'[a].run_id = tasks'[b].run_id,
             tasks'[a].attempt = tasks'[b].attempt,
             tasks'[a].run_id \notin reused
      PROVE  FALSE
  <2>1. /\ pc[d] = "start"
        /\ tasks'[a].run_id = run[d]
        /\ tasks'[a].attempt = attempt[d]
    BY TouchedRows DEF NewRow
  <2>2. tasks[b].run_id = run[d] /\ tasks[b].attempt = attempt[d]
    BY <1>4, <2>1, TouchedRows
  <2>3. tasks[b].attempt < attempt[d]
    BY <1>4, <2>1, <2>2 DEF RowInv
  <2>4. attempt[d] \in Nat
    BY AppendAssumption DEF TypeOK, DriverTypeOK
  <2> QED BY <2>2, <2>3, <2>4
<1> QED BY <1>1, <1>2, <1>3, <1>4

\* The rows of other runs are not touched.
LEMMA OtherRunRows ==
  ASSUME RowsInv, NEW d \in Drivers, Progress(d) \/ Disturb(d),
         NEW r, pc[d] # "idle" => r # run[d]
  PROVE  /\ \A i \in DOMAIN tasks' :
              tasks'[i].run_id = r => i \in DOMAIN tasks /\ tasks'[i] = tasks[i]
         /\ \A i \in DOMAIN tasks :
              tasks[i].run_id = r => i \in DOMAIN tasks' /\ tasks'[i] = tasks[i]
<1>1. \A i \in DOMAIN tasks :
        tasks[i].run_id = r => i \in DOMAIN tasks' /\ tasks'[i] = tasks[i]
  BY TouchedRows DEF OwnRows, IsAttempt
<1>2. ASSUME NEW i \in DOMAIN tasks', tasks'[i].run_id = r
      PROVE  i \in DOMAIN tasks /\ tasks'[i] = tasks[i]
  <2>1. CASE i \in DOMAIN tasks
    BY <1>1, <1>2, <2>1, TouchedRows
  <2>2. CASE i \notin DOMAIN tasks
    BY <1>2, <2>2, TouchedRows DEF NewRow
  <2> QED BY <2>1, <2>2
<1> QED BY <1>1, <1>2

LEMMA OtherRowStep ==
  ASSUME RowsInv, NEW d \in Drivers, Progress(d) \/ Disturb(d),
         NEW e \in Drivers \ {d}
  PROVE  RowInv(e)'
<1> SUFFICES ASSUME pc'[e] # "idle", run'[e] \notin reused' PROVE RowInv(e)'
  BY DEF RowInv
<1> USE DEF RowsInv
<1>1. /\ pc'[e] = pc[e] /\ run'[e] = run[e] /\ attempt'[e] = attempt[e]
      /\ run[e] \notin reused /\ pc[e] # "idle"
  BY OtherDrivers
<1>2. pc[d] # "idle" => run[e] # run[d]
  BY <1>1 DEF RunIdsInv
<1>3. /\ \A i \in DOMAIN tasks' :
           tasks'[i].run_id = run[e] => i \in DOMAIN tasks /\ tasks'[i] = tasks[i]
      /\ \A i \in OwnRows(e) : i \in OwnRows(e)' /\ tasks'[i] = tasks[i]
  BY <1>1, <1>2, OtherRunRows DEF OwnRows, IsAttempt
<1> QED BY <1>1, <1>3 DEF RowInv

LEMMA OwnRowStep ==
  ASSUME RowsInv, NEW d \in Drivers, Progress(d) \/ Disturb(d)
  PROVE  RowInv(d)'
<1> SUFFICES ASSUME pc'[d] # "idle", run'[d] \notin reused' PROVE RowInv(d)'
  BY DEF RowInv
<1> USE DEF RowsInv, TypeOK, DriverTypeOK
<1>0. /\ attempt[d] \in Nat
      /\ \A i \in DOMAIN tasks : tasks[i].attempt \in Nat
  <2>1. \A i \in DOMAIN tasks : tasks[i] \in TaskRow
    BY DEF StoreTypeOK
  <2> QED BY <2>1, AppendAssumption DEF TaskRow
<1>1. ASSUME NEW r \in RunIds, BeginRun(d, r) PROVE RowInv(d)'
  <2>1. /\ pc'[d] = "start" /\ run'[d] = r
        /\ r \notin KnownRuns
        /\ tasks' = tasks
    BY <1>1 DEF BeginRun, Goto
  <2>2. \A i \in DOMAIN tasks : tasks[i].run_id # r
    BY <2>1 DEF RunIdsInv
  <2> QED BY <2>1, <2>2 DEF RowInv, Attempting, TryBlock
<1>2. ASSUME NEW x, pc' = [pc EXCEPT ![d] = x], pc[d] = "start",
             UNCHANGED <<run, attempt, reused>>,
             StartTask(run[d], attempt[d], HashOf(d)), x \in {"window", "close"}
      PROVE  RowInv(d)'
  <2>1. PICK n : /\ DOMAIN tasks' = DOMAIN tasks \cup {n}
                 /\ tasks'[n] = NewRow(d)
                 /\ \A i \in DOMAIN tasks : tasks'[i] = tasks[i]
    BY <1>2, StartTaskRows
  <2>2. pc'[d] = x /\ run'[d] = run[d] /\ attempt'[d] = attempt[d]
    BY <1>2
  <2>3. n \in OwnRows(d)' /\ tasks'[n].status = "RUNNING"
    BY <2>1, <2>2 DEF OwnRows, IsAttempt, NewRow
  <2>4. ASSUME NEW i \in DOMAIN tasks', tasks'[i].run_id = run'[d]
        PROVE  tasks'[i].attempt <= attempt'[d]
    <3>1. CASE i = n
      BY <1>0, <2>1, <2>2, <3>1 DEF NewRow
    <3>2. CASE i \in DOMAIN tasks
      BY <1>0, <1>2, <2>1, <2>2, <2>4, <3>2 DEF RowInv
    <3> QED BY <2>1, <3>1, <3>2
  <2> QED BY <1>2, <2>2, <2>3, <2>4 DEF RowInv
<1>3. CASE BeginTask(d)
  BY <1>2, <1>3 DEF BeginTask, Goto, historyVars
<1>4. CASE EscapeStart(d)
  <2>1. CASE StartTask(run[d], attempt[d], HashOf(d))
    BY <1>2, <1>4, <2>1 DEF EscapeStart, Goto, historyVars
  <2>2. CASE tasks' = tasks
    <3>1. /\ pc[d] = "start" /\ pc'[d] = "close"
          /\ UNCHANGED <<run, attempt, reused>>
      BY <1>4 DEF EscapeStart, Goto, historyVars
    <3> QED BY <1>0, <2>2, <3>1 DEF RowInv, Attempting, TryBlock
  <2> QED BY <1>4, <2>1, <2>2 DEF EscapeStart
<1>5. CASE Move(d)
  <2>1. /\ pc[d] \in TryBlock
        /\ pc'[d] \in Attempting \cup {"failing"}
        /\ pc[d] = "audit" => pc'[d] = "failing"
        /\ UNCHANGED <<tasks, run, attempt, reused>>
    BY <1>5 DEF Move
  <2> QED BY <2>1 DEF RowInv, OwnRows, Attempting, TryBlock
<1>6. CASE Succeed(d)
  <2>1. /\ pc[d] = "finish" /\ pc'[d] = "audit"
        /\ UNCHANGED <<run, attempt, reused>>
    BY <1>6 DEF Succeed, Goto
  <2>2. /\ [from |-> window[d].lower, to |-> newMark[d], count |-> count[d],
            written |-> written[d]] \in Metrics
        /\ "SUCCEEDED" \in Terminal
    BY DEF LocalsTypeOK, Metrics, Terminal, None, Null
  <2>3. /\ DOMAIN tasks' = DOMAIN tasks
        /\ \A i \in DOMAIN tasks :
             /\ tasks'[i].run_id = tasks[i].run_id
             /\ tasks'[i].attempt = tasks[i].attempt
             /\ i \in OwnRows(d) => tasks'[i].status = "SUCCEEDED"
    BY <1>6, <2>1, <2>2, FinishTaskRows DEF Succeed
  <2>4. PICK i \in OwnRows(d) : TRUE
    BY <2>1 DEF RowInv, Attempting, TryBlock
  <2>5. i \in OwnRows(d)' /\ tasks'[i].status = "SUCCEEDED"
    BY <2>1, <2>3, <2>4 DEF OwnRows, IsAttempt
  <2> QED BY <2>1, <2>3, <2>5 DEF RowInv, Attempting, TryBlock
<1>7. CASE Fails(d)
  <2>1. /\ pc[d] = "failing"
        /\ UNCHANGED <<run, reused>>
        /\ \/ pc'[d] = "start" /\ attempt'[d] = attempt[d] + 1
           \/ pc'[d] = "close" /\ attempt'[d] = attempt[d]
    BY <1>7 DEF Fails
  <2>2. \A i \in DOMAIN tasks' :
          /\ i \in DOMAIN tasks
          /\ tasks'[i].run_id = tasks[i].run_id
          /\ tasks'[i].attempt = tasks[i].attempt
    BY <2>1, TouchedRows
  <2>3. \A i \in DOMAIN tasks' :
          tasks'[i].run_id = run'[d] => tasks'[i].attempt <= attempt[d]
    BY <2>1, <2>2 DEF RowInv
  <2>4. \A i \in DOMAIN tasks' :
          tasks'[i].run_id = run'[d]
            => IF pc'[d] = "start" THEN tasks'[i].attempt < attempt'[d]
                                   ELSE tasks'[i].attempt <= attempt'[d]
    BY <1>0, <2>1, <2>2, <2>3
  <2> QED BY <2>1, <2>4 DEF RowInv, Attempting, TryBlock
<1>8. CASE Stop(d)
  BY <1>8 DEF Stop, Leave
<1> QED BY <1>1, <1>3, <1>4, <1>5, <1>6, <1>7, <1>8, HistoryCases

LEMMA OpenRowsStep ==
  ASSUME RowsInv, NEW d \in Drivers, Progress(d) \/ Disturb(d)
  PROVE  OpenRowsInv'
<1> SUFFICES ASSUME NEW i \in DOMAIN tasks', tasks'[i].status = "RUNNING"
             PROVE  tasks'[i].from = Null
  BY DEF OpenRowsInv
<1>1. CASE i \in DOMAIN tasks
  BY <1>1, TouchedRows DEF RowsInv, OpenRowsInv, Terminal
<1>2. CASE i \notin DOMAIN tasks
  BY <1>2, TouchedRows DEF NewRow
<1> QED BY <1>1, <1>2

LEMMA RowsInit == Init => RowsInv
<1> SUFFICES ASSUME Init PROVE RowsInv
  OBVIOUS
<1>1. /\ DOMAIN tasks = {} /\ DOMAIN runs = {}
      /\ \A d \in Drivers : pc[d] = "idle"
  BY DEF Init, StoreInit
<1> QED BY <1>1, TypeInit
        DEF RowsInv, RunIdsInv, AttemptsInv, RowInv, OpenRowsInv

LEMMA RowsStep == RowsInv /\ [Next]_vars => RowsInv'
<1> SUFFICES ASSUME RowsInv, [Next]_vars PROVE RowsInv'
  OBVIOUS
<1>1. TypeOK' /\ RunInv'
  BY TypeStep DEF RowsInv
<1>2. ASSUME NEW d \in Drivers, Progress(d) \/ Disturb(d) PROVE RowsInv'
  <2>1. \A e \in Drivers : RowInv(e)'
    BY <1>2, OtherRowStep, OwnRowStep
  <2> QED BY <1>1, <1>2, <2>1, RunIdsStep, AttemptsStep, OpenRowsStep
         DEF RowsInv
<1>3. CASE UNCHANGED <<storeVars, driverVars, historyVars>>
  BY <1>1, <1>3
  DEF storeVars, driverVars, historyVars, RowsInv, RunIdsInv, AttemptsInv,
      RowInv, OwnRows, KnownRuns, OpenRowsInv
<1> QED BY <1>2, <1>3, QuietHistory

(***************************************************************************)
(* RUNBOOK, guarantee 2: "retries append; they never overwrite history".   *)
(* finish_task (ControlStore.FinishTask) has no guard on the status of the *)
(* rows it updates.  It still changes no row that is closed, in any        *)
(* interleaving of drivers, retries, failures and crashes, but for the two *)
(* exceptions in MayRewrite: the id of the run was given again, or the     *)
(* flush after a success has failed and the run's last row is rewritten.   *)
(***************************************************************************)
THEOREM ClosedRowsStay == Spec => HistorySurvives
<1> DEFINE Kept == \A i \in DOMAIN tasks :
                     tasks[i].status \in Terminal /\ tasks'[i] # tasks[i]
                       => MayRewrite(i)
<1>1. ASSUME RowsInv, [Next]_vars PROVE [Kept]_vars
  <2> SUFFICES ASSUME NEW i \in DOMAIN tasks, tasks[i].status \in Terminal,
                      tasks'[i] # tasks[i], tasks[i].run_id \notin reused
               PROVE  MayRewrite(i)
    BY DEF MayRewrite
  <2> USE <1>1 DEF RowsInv
  <2>1. PICK d \in Drivers : Progress(d) \/ Disturb(d)
    BY QuietHistory DEF storeVars
  <2>2. pc[d] \in {"finish", "failing"} /\ i \in OwnRows(d)
    BY <2>1, TouchedRows
  <2>3. /\ tasks[i].run_id = run[d]
        /\ \A j \in OwnRows(d) : j = i
    BY <2>2 DEF OwnRows, IsAttempt, AttemptsInv
  <2>4. tasks[i].status # "RUNNING"
    BY DEF Terminal
  <2>5. pc[d] = "failing" /\ tasks[i].status = "SUCCEEDED"
    BY <2>2, <2>3, <2>4 DEF RowInv, Attempting, TryBlock
  <2>6. IsLatest(i)
    BY <2>2, <2>3, <2>5 DEF RowInv, IsLatest, OwnRows, IsAttempt
  <2>7. Fails(d)
    BY <2>1, <2>5, HistoryCases
    DEF BeginRun, BeginTask, EscapeStart, Move, Succeed, Goto, TryBlock, Stop
  <2>8. FinishTask(run[d], attempt[d], "FAILED", NoMetrics)
    BY <2>7 DEF Fails
  <2>9. NoMetrics \in Metrics /\ "FAILED" \in Terminal
    BY DEF NoMetrics, Metrics, Terminal, Null
  <2>10. tasks'[i].status = "FAILED"
    BY <2>2, <2>5, <2>8, <2>9, FinishTaskRows
  <2> QED BY <2>5, <2>6, <2>10 DEF MayRewrite
<1> QED BY <1>1, RowsInit, RowsStep, PTL DEF Spec, HistorySurvives

----------------------------------------------------------------------------
(* The report of an advance.                                               *)

\* Only AdvanceWatermark writes the watermark row, and only Succeed reports.
LEMMA MoversStep ==
  ASSUME TypeOK, MoversInv, [Next]_vars
  PROVE  MoversInv'
<1> USE DEF MoversInv
<1>1. CASE UNCHANGED <<mark, markRun, movers, claimed>>
  BY <1>1
<1>2. ASSUME NEW d \in Drivers, AdvanceWatermark(d) PROVE MoversInv'
  BY <1>2 DEF AdvanceWatermark
<1>3. ASSUME NEW d \in Drivers, Succeed(d) PROVE MoversInv'
  <2>1. /\ UNCHANGED <<mark, markRun, movers>>
        /\ \/ claimed' = claimed
           \/ /\ claimed' = claimed \cup {run[d]}
              /\ newMark[d] # None
              /\ mark = newMark[d]
              /\ markRun = run[d]
    BY <1>3 DEF Succeed, Moved, tableVars
  <2> QED BY <2>1
<1>4. ASSUME NEW d \in Drivers, Progress(d) \/ Disturb(d)
      PROVE  \/ AdvanceWatermark(d) \/ Succeed(d)
             \/ UNCHANGED <<mark, markRun, movers, claimed>>
  BY <1>4
  DEF Progress, Disturb, Extract, Load, BeginRun, BeginTask, Window,
      ProbeUpperBound, CountSource, ProbeMaxWatermark, WriteDf, ReadPartition,
      Reconcile, RecordFailure, EndRun, EscapeStart, Error, EscapeFail, Crash,
      tableVars, historyVars
<1> QED BY <1>1, <1>2, <1>3, <1>4, QuietHistory DEF tableVars, historyVars

(***************************************************************************)
(* WATERMARK_ADVANCED is only reported for runs that did move the mark.    *)
(* advance reads the watermark row again after its MERGE, and other        *)
(* drivers may have moved it in between: the value and the run id that it  *)
(* compares (Moved) are enough, for any number of overlapping runs.        *)
(***************************************************************************)
THEOREM ReportedAdvancesHappened == Spec => []AdvanceReportIsSound
<1>1. Init => MoversInv
  BY DEF Init, MoversInv
<1>2. TypeOK /\ MoversInv /\ [Next]_vars => MoversInv'
  BY MoversStep
<1>3. MoversInv => AdvanceReportIsSound
  BY DEF MoversInv, AdvanceReportIsSound
<1> QED BY <1>1, <1>2, <1>3, TypeCorrect, PTL DEF Spec

----------------------------------------------------------------------------
(* Stalls.                                                                 *)

\* What Succeed writes is the cut-off that the driver has pinned.
LEMMA RecordedStep ==
  ASSUME RowsInv, WindowInv, RecordedInv, [Next]_vars
  PROVE  RecordedInv'
<1> USE DEF RecordedInv
<1>1. spec' = spec
  BY Frame, QuietStep DEF RowsInv
<1>2. ASSUME NEW d \in Drivers, Progress(d) \/ Disturb(d) PROVE RecordedInv'
  <2> SUFFICES ASSUME spec.pinned, NEW i \in DOMAIN tasks',
                      tasks'[i].status = "SUCCEEDED"
               PROVE  tasks'[i].to # Null
    BY <1>1
  <2>1. CASE i \notin DOMAIN tasks
    BY <1>2, <2>1, TouchedRows DEF NewRow
  <2>2. CASE i \in DOMAIN tasks /\ tasks'[i] = tasks[i]
    BY <2>2
  <2>3. CASE i \in DOMAIN tasks /\ tasks'[i] # tasks[i]
    <3>1. i \in OwnRows(d) /\ pc[d] # "idle"
      BY <1>2, <2>3, TouchedRows
    <3>2. Succeed(d) \/ Fails(d)
      BY <1>2, <2>3, StartTaskRows, HistoryCases
      DEF RowsInv, BeginRun, BeginTask, EscapeStart, Move, Stop
    <3>3. CASE Succeed(d)
      <4> DEFINE m == [from |-> window[d].lower, to |-> newMark[d],
                       count |-> count[d], written |-> written[d]]
      <4>1. m \in Metrics /\ "SUCCEEDED" \in Terminal
        BY DEF RowsInv, TypeOK, LocalsTypeOK, Metrics, Terminal, None, Null
      <4>2. FinishTask(run[d], attempt[d], "SUCCEEDED", m)
        BY <3>3 DEF Succeed
      <4>3. tasks'[i].to = m.to
        BY <3>1, <4>1, <4>2, FinishTaskRows DEF RowsInv
      <4>4. newMark[d] # None
        BY <3>3 DEF Succeed, Goto, WindowInv, CutInv, Probed
      <4> QED BY <4>3, <4>4 DEF None, Null
    <3>4. CASE Fails(d)
      <4>1. NoMetrics \in Metrics /\ "FAILED" \in Terminal
        BY DEF NoMetrics, Metrics, Terminal, Null
      <4>2. FinishTask(run[d], attempt[d], "FAILED", NoMetrics)
        BY <2>3, <3>4 DEF Fails
      <4> QED BY <3>1, <4>1, <4>2, FinishTaskRows DEF RowsInv
    <3> QED BY <3>2, <3>3, <3>4
  <2> QED BY <2>1, <2>2, <2>3
<1>3. CASE UNCHANGED <<tasks, spec>>
  BY <1>3
<1> QED BY <1>2, <1>3, QuietHistory DEF storeVars

(***************************************************************************)
(* watermark_stalls (Monitoring.Stalled) never reports an incremental      *)
(* table whose cut-offs are pinned: each of its successful tasks has       *)
(* recorded a watermark_to, whatever failed, was retried or overlapped.    *)
(***************************************************************************)
THEOREM PinnedTablesNeverStall == Spec => []StalledMeansUntracked
<1>1. Init => RecordedInv
  <2>1. Init => DOMAIN tasks = {}
    BY DEF Init, StoreInit
  <2> QED BY <2>1 DEF RecordedInv
<1>2. RowsInv /\ WindowInv /\ RecordedInv /\ [Next]_vars => RecordedInv'
  BY RecordedStep
<1>3. ASSUME RecordedInv PROVE StalledMeansUntracked
  <2> SUFFICES ASSUME Stalled(StallRuns), spec.pinned PROVE FALSE
    BY DEF StalledMeansUntracked
  <2>1. Cardinality(RecentSuccesses(StallRuns)) # 0
    BY AppendAssumption DEF Stalled
  <2>2. PICK i \in RecentSuccesses(StallRuns) : TRUE
    BY <2>1, FS_EmptySet
  <2>3. i \in DOMAIN tasks /\ tasks[i].status = "SUCCEEDED"
    BY <2>2 DEF RecentSuccesses
  <2> QED BY <1>3, <2>2, <2>3 DEF Stalled, RecordedInv
<1> QED BY <1>1, <1>2, <1>3, RowsInit, RowsStep, WindowInit, WindowStep, PTL
        DEF Spec

----------------------------------------------------------------------------
(* The dashboards.                                                         *)

\* A configuration is registered before the row that names it.
LEMMA ConfigStep ==
  ASSUME RowsInv, ConfigIsKnown, [Next]_vars
  PROVE  ConfigIsKnown'
<1>1. ASSUME NEW d \in Drivers, Progress(d) \/ Disturb(d) PROVE ConfigIsKnown'
  <2>1. \/ registry' = registry
        \/ RegisterConfig(HashOf(d), run[d])
    BY <1>1, HistoryCases
    DEF BeginRun, BeginTask, EscapeStart, Move, Succeed, Fails, Stop
  <2>2. DOMAIN registry \subseteq DOMAIN registry'
    BY <2>1 DEF RegisterConfig
  <2> SUFFICES ASSUME NEW i \in DOMAIN tasks'
               PROVE  tasks'[i].hash \in DOMAIN registry'
    BY DEF ConfigIsKnown
  <2>3. CASE i \in DOMAIN tasks
    BY <1>1, <2>2, <2>3, TouchedRows DEF ConfigIsKnown
  <2>4. CASE i \notin DOMAIN tasks
    <3>1. pc[d] = "start" /\ tasks'[i].hash = HashOf(d)
      BY <1>1, <2>4, TouchedRows DEF NewRow
    <3>2. RegisterConfig(HashOf(d), run[d])
      BY <1>1, <2>4, <3>1, HistoryCases, TouchedRows
      DEF BeginRun, BeginTask, EscapeStart, Move, Succeed, Fails, Stop, Goto,
          TryBlock
    <3> QED BY <3>1, <3>2 DEF RegisterConfig
  <2> QED BY <2>3, <2>4
<1>2. CASE UNCHANGED <<tasks, registry>>
  BY <1>2 DEF ConfigIsKnown
<1> QED BY <1>1, <1>2, QuietHistory DEF storeVars

\* A run row shows SUCCEEDED when its driver has seen its task row do so.
LEMMA SuccessStep ==
  ASSUME RowsInv, SuccessInv, [Next]_vars
  PROVE  SuccessInv'
<1> USE DEF RowsInv
<1>1. ASSUME NEW d \in Drivers, Progress(d) \/ Disturb(d),
             NEW i \in DOMAIN runs', runs'[i].status = "SUCCEEDED",
             runs'[i].run_id \notin reused'
      PROVE  /\ \A e \in Drivers : pc'[e] # "idle" => run'[e] # runs'[i].run_id
             /\ \E j \in DOMAIN tasks' : /\ tasks'[j].run_id = runs'[i].run_id
                                         /\ tasks'[j].status = "SUCCEEDED"
                                         /\ IsLatest(j)'
  <2> DEFINE r == runs'[i].run_id
  <2>1. r \notin reused
    BY <1>1, OtherDrivers
  <2>2. ASSUME NEW j \in DOMAIN tasks, tasks[j].run_id = r,
               tasks[j].status = "SUCCEEDED", IsLatest(j),
               pc[d] # "idle" => r # run[d]
        PROVE  /\ j \in DOMAIN tasks'
               /\ tasks'[j].run_id = r
               /\ tasks'[j].status = "SUCCEEDED"
               /\ IsLatest(j)'
    <3>1. /\ \A h \in DOMAIN tasks' :
               tasks'[h].run_id = r => h \in DOMAIN tasks /\ tasks'[h] = tasks[h]
          /\ j \in DOMAIN tasks' /\ tasks'[j] = tasks[j]
      BY <1>1, <2>2, OtherRunRows
    <3> QED BY <2>2, <3>1 DEF IsLatest
  <2>3. ASSUME i \in DOMAIN runs, runs[i].status = "SUCCEEDED",
               runs[i].run_id = r,
               \A e \in Drivers : pc'[e] # "idle" => run'[e] = run[e] /\ pc[e] # "idle"
        PROVE  /\ \A e \in Drivers : pc'[e] # "idle" => run'[e] # r
               /\ \E j \in DOMAIN tasks' : /\ tasks'[j].run_id = r
                                           /\ tasks'[j].status = "SUCCEEDED"
                                           /\ IsLatest(j)'
    <3>1. /\ \A e \in Drivers : pc[e] # "idle" => run[e] # r
          /\ \E j \in DOMAIN tasks : /\ tasks[j].run_id = r
                                     /\ tasks[j].status = "SUCCEEDED"
                                     /\ IsLatest(j)
      BY <2>1, <2>3 DEF SuccessInv, RunsWith
    <3> QED BY <2>2, <2>3, <3>1
  <2>4. ASSUME NEW q \in RunIds, BeginRun(d, q)
        PROVE  /\ \A e \in Drivers : pc'[e] # "idle" => run'[e] # r
               /\ \E j \in DOMAIN tasks' : /\ tasks'[j].run_id = r
                                           /\ tasks'[j].status = "SUCCEEDED"
                                           /\ IsLatest(j)'
    <3>1. /\ i \in DOMAIN runs
          /\ runs'[i] = runs[i]
      BY <1>1, <2>4, StartRunRows DEF BeginRun
    <3>2. /\ q \in KnownRuns => q \in reused'
          /\ run'[d] = q /\ pc[d] = "idle"
          /\ \A e \in Drivers \ {d} : pc'[e] = pc[e] /\ run'[e] = run[e]
      BY <2>4 DEF BeginRun, Goto, TypeOK, DriverTypeOK
    <3>3. r # q
      BY <1>1, <3>1, <3>2 DEF KnownRuns
    <3>4. /\ \A e \in Drivers : pc[e] # "idle" => run[e] # r
          /\ \E j \in DOMAIN tasks : /\ tasks[j].run_id = r
                                     /\ tasks[j].status = "SUCCEEDED"
                                     /\ IsLatest(j)
      BY <1>1, <2>1, <3>1 DEF SuccessInv, RunsWith
    <3> QED BY <2>2, <3>2, <3>3, <3>4
  <2>5. CASE Stop(d)
    <3>1. /\ \A e \in Drivers \ {d} : pc'[e] = pc[e] /\ run'[e] = run[e]
          /\ pc'[d] = "idle"
          /\ pc[d] # "idle"
          /\ tasks' = tasks
      BY <2>5 DEF Stop, Leave, TypeOK, DriverTypeOK
    <3>2. CASE runs'[i] = runs[i] /\ i \in DOMAIN runs
      <4>1. \A e \in Drivers : pc'[e] # "idle" => run'[e] = run[e] /\ pc[e] # "idle"
        BY <3>1
      <4> QED BY <1>1, <2>3, <3>2, <4>1
    <3>3. CASE /\ i \in DOMAIN runs
               /\ runs[i].run_id = run[d]
               /\ r = run[d]
               /\ pc[d] = "audit"
      <4>1. PICK j \in OwnRows(d) : tasks[j].status = "SUCCEEDED"
        BY <2>1, <3>3 DEF RowInv
      <4>2. j \in DOMAIN tasks /\ tasks[j].run_id = r /\ IsLatest(j)
        BY <2>1, <3>3, <4>1 DEF RowInv, OwnRows, IsAttempt, IsLatest
      <4>3. IsLatest(j)'
        BY <3>1, <4>2 DEF IsLatest
      <4>4. \A e \in Drivers : pc'[e] # "idle" => run'[e] # r
        BY <3>1, <3>3 DEF RunIdsInv
      <4> QED BY <3>1, <4>1, <4>2, <4>3, <4>4
    <3>4. CASE FinishRun(run[d], IF pc[d] = "audit" THEN "SUCCEEDED" ELSE "FAILED")
      BY <1>1, <3>2, <3>3, <3>4, FinishRunRows
    <3>5. CASE runs' = runs
      BY <1>1, <3>2, <3>5
    <3> QED BY <2>5, <3>4, <3>5 DEF Stop
  <2>6. CASE BeginTask(d) \/ EscapeStart(d) \/ Move(d) \/ Succeed(d) \/ Fails(d)
    <3>1. runs' = runs /\ run' = run /\ pc[d] # "idle"
      BY <2>6
      DEF BeginTask, EscapeStart, Move, Succeed, Fails, Goto, TryBlock
    <3>2. \A e \in Drivers : pc'[e] # "idle" => run'[e] = run[e] /\ pc[e] # "idle"
      BY <1>1, <3>1, OtherDrivers
    <3> QED BY <1>1, <2>3, <3>1, <3>2
  <2> QED BY <1>1, <2>4, <2>5, <2>6, HistoryCases
<1>2. CASE UNCHANGED <<runs, tasks, run, pc, reused>>
  BY <1>2 DEF SuccessInv, RunsWith, IsLatest
<1> QED BY <1>1, <1>2, QuietHistory
        DEF storeVars, driverVars, historyVars, SuccessInv, RunsWith

\* The rows of a table are finitely many.
LEMMA RowCounts ==
  ASSUME NEW S, NEW s \in Seq(S), NEW T \in SUBSET DOMAIN s
  PROVE  IsFiniteSet(T) /\ Cardinality(T) \in Nat
<1>1. DOMAIN s = 1..Len(s) /\ Len(s) \in Nat
  OBVIOUS
<1>2. IsFiniteSet(DOMAIN s)
  BY <1>1, FS_Interval
<1> QED BY <1>2, FS_Subset, FS_CardinalityType

\* The rows that are counted are finitely many.
LEMMA CheckCounts ==
  ASSUME TypeOK, NEW r
  PROVE  /\ IsFiniteSet(FailedChecks(r)) /\ Cardinality(FailedChecks(r)) \in Nat
         /\ IsFiniteSet(Unsuccessful(r)) /\ Cardinality(Unsuccessful(r)) \in Nat
<1>1. FailedChecks(r) \in SUBSET DOMAIN checks
  BY DEF FailedChecks, ReconciliationIssues
<1>2. Unsuccessful(r) \in SUBSET DOMAIN tasks
  BY DEF Unsuccessful
<1> QED BY <1>1, <1>2, RowCounts DEF TypeOK, StoreTypeOK

\* A check that did not fail is not counted; a failed one counts for its run.
LEMMA RecordChecksRows ==
  ASSUME TypeOK, NEW q, NEW s, RecordChecks(q, s), NEW r
  PROVE  \/ FailedChecks(r)' = FailedChecks(r)
         \/ /\ s = "FAILED"
            /\ q = r
            /\ Cardinality(FailedChecks(r)') = Cardinality(FailedChecks(r)) + 1
<1> DEFINE row == [run_id |-> q, status |-> s]
           n == Len(checks) + 1
<1>1. checks \in Seq(CheckRow) /\ checks' = Append(checks, row)
  BY DEF RecordChecks, TypeOK, StoreTypeOK
<1>2. DOMAIN checks = 1..Len(checks) /\ Len(checks) \in Nat
  BY <1>1
<1>3. /\ DOMAIN checks' = 1..n
      /\ checks'[n] = row
      /\ \A i \in 1..Len(checks) : checks'[i] = checks[i]
  BY <1>1
<1>4. /\ DOMAIN checks' = DOMAIN checks \cup {n}
      /\ n \notin DOMAIN checks
      /\ \A i \in DOMAIN checks : checks'[i] = checks[i]
      /\ checks'[n].run_id = q /\ checks'[n].status = s
  BY <1>2, <1>3
<1> HIDE DEF n
<1>5. CASE s = "FAILED" /\ q = r
  <2>1. FailedChecks(r)' = FailedChecks(r) \cup {n} /\ n \notin FailedChecks(r)
    BY <1>4, <1>5 DEF FailedChecks, ReconciliationIssues
  <2> QED BY <1>5, <2>1, CheckCounts, FS_AddElement
<1>6. CASE ~(s = "FAILED" /\ q = r)
  <2>1. FailedChecks(r)' = FailedChecks(r)
    BY <1>4, <1>6 DEF FailedChecks, ReconciliationIssues
  <2> QED BY <2>1
<1> QED BY <1>5, <1>6

\* How a step of driver d changes the number of its run's unsuccessful rows.
LEMMA UnsuccessfulStep ==
  ASSUME RowsInv, NEW d \in Drivers, pc[d] # "idle",
         NEW r, r = run[d], r \notin reused, Progress(d) \/ Disturb(d)
  PROVE  LET before == Cardinality(Unsuccessful(r))
             after == Cardinality(Unsuccessful(r)')
         IN /\ BeginTask(d) => after = before + 1
            /\ Succeed(d) => after = before - 1
            /\ ~Succeed(d) => after >= before
<1> USE DEF RowsInv
<1>1. ASSUME StartTask(run[d], attempt[d], HashOf(d))
      PROVE  Cardinality(Unsuccessful(r)') = Cardinality(Unsuccessful(r)) + 1
  <2>1. PICK n : /\ n \notin DOMAIN tasks
                 /\ DOMAIN tasks' = DOMAIN tasks \cup {n}
                 /\ tasks'[n] = NewRow(d)
                 /\ \A i \in DOMAIN tasks : tasks'[i] = tasks[i]
    BY <1>1, StartTaskRows
  <2>2. tasks'[n].run_id = r /\ tasks'[n].status # "SUCCEEDED"
    BY <2>1 DEF NewRow
  <2>3. Unsuccessful(r)' = Unsuccessful(r) \cup {n} /\ n \notin Unsuccessful(r)
    BY <2>1, <2>2 DEF Unsuccessful
  <2> QED BY <2>3, CheckCounts, FS_AddElement
<1>2. ASSUME Succeed(d)
      PROVE  Cardinality(Unsuccessful(r)') = Cardinality(Unsuccessful(r)) - 1
  <2> DEFINE m == [from |-> window[d].lower, to |-> newMark[d],
                   count |-> count[d], written |-> written[d]]
  <2>1. m \in Metrics /\ "SUCCEEDED" \in Terminal
    BY DEF TypeOK, LocalsTypeOK, Metrics, Terminal, None, Null
  <2>2. FinishTask(run[d], attempt[d], "SUCCEEDED", m) /\ pc[d] = "finish"
    BY <1>2 DEF Succeed, Goto
  <2>3. PICK i \in OwnRows(d) : tasks[i].status = "RUNNING"
    BY <2>2 DEF RowInv, Attempting, TryBlock
  <2>4. /\ i \in DOMAIN tasks
        /\ tasks[i].run_id = r
        /\ \A j \in OwnRows(d) : j = i
    BY <2>3 DEF OwnRows, IsAttempt, AttemptsInv
  <2>5. /\ DOMAIN tasks' = DOMAIN tasks
        /\ tasks'[i].status = "SUCCEEDED"
        /\ \A j \in DOMAIN tasks \ {i} : tasks'[j] = tasks[j]
    BY <2>1, <2>2, <2>3, <2>4, FinishTaskRows
  <2>6. Unsuccessful(r)' = Unsuccessful(r) \ {i} /\ i \in Unsuccessful(r)
    BY <2>3, <2>4, <2>5 DEF Unsuccessful
  <2> QED BY <2>6, CheckCounts, FS_RemoveElement
<1>3. ASSUME tasks' = tasks
      PROVE  Cardinality(Unsuccessful(r)') >= Cardinality(Unsuccessful(r))
  <2>1. Unsuccessful(r)' = Unsuccessful(r)
    BY <1>3 DEF Unsuccessful
  <2> QED BY <2>1, CheckCounts
<1>4. ASSUME pc[d] = "failing",
             FinishTask(run[d], attempt[d], "FAILED", NoMetrics)
      PROVE  Cardinality(Unsuccessful(r)') >= Cardinality(Unsuccessful(r))
  <2>1. NoMetrics \in Metrics /\ "FAILED" \in Terminal
    BY DEF NoMetrics, Metrics, Terminal, Null
  <2>2. Unsuccessful(r) \subseteq Unsuccessful(r)'
    BY <1>4, <2>1, FinishTaskRows DEF Unsuccessful
  <2>3. /\ IsFiniteSet(Unsuccessful(r)')
        /\ Cardinality(Unsuccessful(r)') \in Nat
    <3>1. tasks' \in Seq(TaskRow)
      BY TypeDriver DEF TypeOK, StoreTypeOK
    <3> QED BY <3>1, RowCounts DEF Unsuccessful
  <2> QED BY <2>2, <2>3, CheckCounts, FS_Subset
<1>5. CASE Succeed(d)
  <2>1. ~BeginTask(d)
    BY <1>5 DEF Succeed, BeginTask, Goto
  <2> QED BY <1>2, <1>5, <2>1
<1>6. CASE ~Succeed(d)
  BY <1>1, <1>3, <1>4, <1>6, CheckCounts, HistoryCases
  DEF BeginRun, BeginTask, EscapeStart, Move, Fails, Stop, Goto
<1> QED BY <1>5, <1>6

\* A driver whose check fails gives its attempt up as unsuccessful.
LEMMA ChecksStep ==
  ASSUME RowsInv, ChecksInv, [Next]_vars
  PROVE  ChecksInv'
<1> USE DEF RowsInv
<1> DEFINE F(r) == Cardinality(FailedChecks(r))
           U(r) == Cardinality(Unsuccessful(r))
<1>0. TypeOK'
  BY TypeStep
<1>1. ASSUME NEW d \in Drivers, Progress(d) \/ Disturb(d) PROVE ChecksInv'
  \* Other runs.
  <2>1. ASSUME NEW r, pc[d] # "idle" => r # run[d]
        PROVE  F(r)' = F(r) /\ U(r)' = U(r)
    <3>1. Unsuccessful(r)' = Unsuccessful(r)
      BY <1>1, <2>1, OtherRunRows DEF Unsuccessful
    <3>2. CASE checks' = checks
      BY <3>1, <3>2 DEF FailedChecks, ReconciliationIssues
    <3>3. ASSUME NEW s, pc[d] = "reconcile", RecordChecks(run[d], s)
          PROVE  FailedChecks(r)' = FailedChecks(r)
      <4>1. PICK q : q = run[d]
        OBVIOUS
      <4> QED BY <2>1, <3>3, <4>1, RecordChecksRows
    <3> QED BY <1>1, <3>1, <3>2, <3>3, HistoryCases
            DEF BeginRun, BeginTask, EscapeStart, Move, Succeed, Fails, Stop
  \* The run of d.
  <2>2. ASSUME NEW r, r = run[d], pc[d] # "idle", r \notin reused, r \in RunIds
        PROVE  /\ F(r)' <= U(r)'
               /\ pc'[d] \in Attempting => F(r)' < U(r)'
    <3> DEFINE f == F(r)  u == U(r)  g == F(r)'  v == U(r)'
    <3>1. /\ f \in Nat /\ u \in Nat /\ g \in Nat /\ v \in Nat
          /\ f <= u
          /\ pc[d] \in Attempting => f < u
      <4>1. /\ f \in Nat /\ u \in Nat
            /\ f <= u
            /\ pc[d] \in Attempting => f < u
        BY <2>2, CheckCounts DEF ChecksInv
      <4>2. checks' \in Seq(CheckRow) /\ tasks' \in Seq(TaskRow)
        BY <1>0 DEF TypeOK, StoreTypeOK
      <4>3. /\ FailedChecks(r)' \in SUBSET DOMAIN checks'
            /\ Unsuccessful(r)' \in SUBSET DOMAIN tasks'
        BY DEF FailedChecks, ReconciliationIssues, Unsuccessful
      <4>4. g \in Nat /\ v \in Nat
        BY <4>2, <4>3, RowCounts
      <4> QED BY <4>1, <4>4
    <3>2. /\ BeginTask(d) => v = u + 1
          /\ Succeed(d) => v = u - 1
          /\ ~Succeed(d) => v >= u
      BY <1>1, <2>2, UnsuccessfulStep
    <3>3. checks' = checks => g = f
      BY DEF FailedChecks, ReconciliationIssues
    <3> HIDE DEF f, u, g, v
    <3>4. CASE BeginTask(d)
      <4>1. g = f /\ v = u + 1
        BY <3>2, <3>3, <3>4 DEF BeginTask
      <4>2. g <= v /\ g < v
        BY <3>1, <4>1
      <4> QED BY <4>2 DEF g, v
    <3>5. CASE Succeed(d)
      <4>1. g = f /\ v = u - 1 /\ f < u /\ pc'[d] = "audit"
        BY <3>1, <3>2, <3>3, <3>5
        DEF Succeed, Goto, Attempting, TryBlock, TypeOK, DriverTypeOK
      <4>2. g <= v /\ pc'[d] \notin Attempting
        BY <3>1, <4>1 DEF Attempting
      <4> QED BY <4>2 DEF g, v
    <3>6. CASE EscapeStart(d) \/ Fails(d) \/ Stop(d)
      <4>1. checks' = checks /\ ~Succeed(d) /\ pc'[d] \notin Attempting
        BY <3>6
        DEF EscapeStart, Fails, Stop, Leave, Succeed, Goto, Attempting,
            TryBlock, TypeOK, DriverTypeOK
      <4>2. g <= v
        BY <3>1, <3>2, <3>3, <4>1
      <4> QED BY <4>1, <4>2 DEF g, v
    <3>7. CASE Move(d)
      <4>1. v >= u
        BY <3>2, <3>7 DEF Move, Succeed, Goto, Attempting, TryBlock, TypeOK,
                          DriverTypeOK
      <4>2. CASE checks' = checks
        <5>1. pc'[d] \in Attempting => pc[d] \in Attempting
          BY <3>7 DEF Move, Attempting, TypeOK, DriverTypeOK, TryBlock
        <5>2. g <= v /\ (pc'[d] \in Attempting => g < v)
          BY <3>1, <3>3, <4>1, <4>2, <5>1
        <5> QED BY <5>2 DEF g, v
      <4>3. ASSUME NEW s, RecordChecks(r, s), pc[d] = "reconcile",
                   s = "FAILED" => pc'[d] = "failing"
            PROVE  g <= v /\ (pc'[d] \in Attempting => g < v)
        <5>1. g = f \/ (s = "FAILED" /\ g = f + 1)
          BY <4>3, RecordChecksRows DEF f, g
        <5>2. pc[d] \in Attempting /\ "failing" \notin Attempting
          BY <4>3 DEF Attempting, TryBlock
        <5> QED BY <3>1, <4>1, <4>3, <5>1, <5>2
      <4>4. \/ checks' = checks
            \/ \E s : /\ RecordChecks(r, s)
                      /\ pc[d] = "reconcile"
                      /\ s = "FAILED" => pc'[d] = "failing"
        BY <2>2, <3>7 DEF Move, TypeOK, DriverTypeOK
      <4> QED BY <4>2, <4>3, <4>4 DEF g, v
    <3>8. \A q \in RunIds : ~BeginRun(d, q)
      BY <2>2 DEF BeginRun, Goto
    <3> QED BY <1>1, <3>4, <3>5, <3>6, <3>7, <3>8, HistoryCases
  <2> HIDE DEF F, U
  <2>3. /\ reused \subseteq reused'
        /\ \A e \in Drivers \ {d} : pc'[e] = pc[e] /\ run'[e] = run[e]
    BY <1>1, OtherDrivers
  <2>4. ASSUME NEW r \in RunIds \ reused' PROVE F(r)' <= U(r)'
    <3>1. CASE pc[d] # "idle" => r # run[d]
      BY <2>1, <2>3, <3>1 DEF ChecksInv, F, U
    <3>2. CASE pc[d] # "idle" /\ r = run[d]
      BY <2>2, <2>3, <3>2
    <3> QED BY <3>1, <3>2
  <2>5. ASSUME NEW e \in Drivers, pc'[e] \in Attempting, NEW r, r = run'[e],
               r \notin reused'
        PROVE  F(r)' < U(r)'
    <3>0. "idle" \notin Attempting /\ r \in RunIds
      BY <2>5, TypeStep DEF Attempting, TryBlock, RunInv
    <3>1. CASE e = d
      <4>1. pc[d] # "idle" /\ run'[d] = run[d]
        BY <1>1, <2>5, <3>1, HistoryCases
        DEF BeginRun, BeginTask, EscapeStart, Move, Succeed, Fails, Stop, Leave,
            Goto, Attempting, TryBlock, TypeOK, DriverTypeOK
      <4> QED BY <2>2, <2>3, <2>5, <3>0, <3>1, <4>1
    <3>2. CASE e # d
      <4>1. /\ pc[e] \in Attempting /\ run[e] = r /\ r \notin reused
            /\ pc[d] # "idle" => r # run[d]
        BY <2>3, <2>5, <3>0, <3>2 DEF RunIdsInv
      <4>2. F(r) < U(r)
        BY <4>1 DEF ChecksInv, F, U
      <4> QED BY <2>1, <4>1, <4>2
    <3> QED BY <3>1, <3>2
  <2>6. \A e \in Drivers :
          pc'[e] \in Attempting /\ run'[e] \notin reused'
            => Cardinality(FailedChecks(run[e])') < Cardinality(Unsuccessful(run[e])')
    <3> TAKE e \in Drivers
    <3>1. PICK r : r = run'[e]
      OBVIOUS
    <3>2. /\ FailedChecks(run[e])' = FailedChecks(r)'
          /\ Unsuccessful(run[e])' = Unsuccessful(r)'
      BY <3>1 DEF FailedChecks, Unsuccessful
    <3> QED BY <2>5, <3>1, <3>2 DEF F, U
  <2> QED BY <2>4, <2>6 DEF ChecksInv, F, U
<1>2. CASE UNCHANGED <<checks, tasks, run, pc, reused>>
  BY <1>2 DEF ChecksInv, FailedChecks, ReconciliationIssues, Unsuccessful
<1> QED BY <1>1, <1>2, QuietHistory DEF storeVars, driverVars, historyVars

\* A finite set is at least as large as what maps into it one to one.
LEMMA OneToOne ==
  ASSUME NEW S, NEW T, IsFiniteSet(T), NEW f \in [S -> T],
         \A a, b \in S : f[a] = f[b] => a = b
  PROVE  Cardinality(S) <= Cardinality(T)
<1>1. f \in Injection(S, T)
  BY DEF Injection, IsInjective
<1> QED BY <1>1, FS_Injection

\* The final attempt of a run is one row.
LEMMA OneFinalAttempt ==
  ASSUME RowsInv, NoIdIsReused,
         NEW i \in FinalAttempts, NEW j \in FinalAttempts,
         tasks[i].run_id = tasks[j].run_id
  PROVE  i = j
<1>1. i \in DOMAIN tasks /\ j \in DOMAIN tasks
  BY DEF FinalAttempts
<1>2. \A h \in DOMAIN tasks : tasks[h] \in TaskRow
  BY DEF RowsInv, TypeOK, StoreTypeOK
<1>3. tasks[i].attempt \in Nat /\ tasks[j].attempt \in Nat
  BY <1>1, <1>2 DEF TaskRow
<1>4. tasks[i].attempt = tasks[j].attempt
  BY <1>1, <1>3 DEF FinalAttempts, IsLatest
<1> QED BY <1>1, <1>4 DEF RowsInv, AttemptsInv, NoIdIsReused

\* A run's SUCCEEDED is what finish_run would derive from the task rows.
LEMMA DerivedFromRows ==
  ASSUME RowsInv, SuccessInv, NoIdIsReused, NEW i \in RunsWith("SUCCEEDED")
  PROVE  DeriveRunStatus(TaskStatuses(runs[i].run_id)) = "SUCCEEDED"
<1>1. PICK j \in DOMAIN tasks : /\ tasks[j].run_id = runs[i].run_id
                                /\ tasks[j].status = "SUCCEEDED"
                                /\ IsLatest(j)
  BY DEF SuccessInv, NoIdIsReused
<1>2. \A h \in DOMAIN tasks :
        tasks[h].run_id = runs[i].run_id /\ IsLatest(h) => h = j
  BY <1>1, OneFinalAttempt DEF FinalAttempts
<1>3. TaskStatuses(runs[i].run_id) = {"SUCCEEDED"}
  BY <1>1, <1>2 DEF TaskStatuses
<1> QED BY <1>3 DEF DeriveRunStatus

\* table_health counts every successful run, and no run twice.
LEMMA HealthCounts ==
  ASSUME RowsInv, SuccessInv, NoIdIsReused
  PROVE  /\ Cardinality(RunsWith("SUCCEEDED")) <= TableHealth.succeeded
         /\ TableHealth.runs <= Len(runs)
<1> DEFINE Good == {i \in FinalAttempts : tasks[i].status = "SUCCEEDED"}
<1>1. /\ TableHealth.succeeded = Cardinality(Good)
      /\ TableHealth.runs = Cardinality(FinalAttempts)
  BY DEF TableHealth
<1>2. runs \in Seq(RunRow) /\ tasks \in Seq(TaskRow)
  BY DEF RowsInv, TypeOK, StoreTypeOK
<1>3. Cardinality(RunsWith("SUCCEEDED")) <= Cardinality(Good)
  <2>1. \A i \in RunsWith("SUCCEEDED") :
          \E j \in Good : tasks[j].run_id = runs[i].run_id
    BY DEF SuccessInv, NoIdIsReused, FinalAttempts
  <2> DEFINE f == [i \in RunsWith("SUCCEEDED") |->
                     CHOOSE j \in Good : tasks[j].run_id = runs[i].run_id]
  <2>2. \A i \in RunsWith("SUCCEEDED") :
          f[i] \in Good /\ tasks[f[i]].run_id = runs[i].run_id
    BY <2>1
  <2>3. \A a, b \in RunsWith("SUCCEEDED") : f[a] = f[b] => a = b
    <3>1. \A a, b \in RunsWith("SUCCEEDED") :
            runs[a].run_id = runs[b].run_id => a = b
      BY DEF RowsInv, RunIdsInv, NoIdIsReused, RunsWith
    <3> HIDE DEF f
    <3> QED BY <2>2, <3>1
  <2>4. f \in [RunsWith("SUCCEEDED") -> Good]
    BY <2>2
  <2>5. IsFiniteSet(Good)
    BY <1>2, RowCounts DEF FinalAttempts
  <2> HIDE DEF f, Good
  <2> QED BY <2>3, <2>4, <2>5, OneToOne
<1>4. Cardinality(FinalAttempts) <= Len(runs)
  <2>1. DOMAIN runs = 1..Len(runs) /\ Len(runs) \in Nat
    BY <1>2
  <2>2. IsFiniteSet(DOMAIN runs) /\ Cardinality(DOMAIN runs) = Len(runs)
    <3>1. /\ IsFiniteSet(1..Len(runs))
          /\ Cardinality(1..Len(runs)) = IF 1 > Len(runs) THEN 0 ELSE Len(runs) - 1 + 1
      BY <2>1, FS_Interval
    <3> QED BY <2>1, <3>1
  <2>3. \A j \in FinalAttempts :
          \E i \in DOMAIN runs : runs[i].run_id = tasks[j].run_id
    BY DEF RowsInv, RunIdsInv, KnownRuns, FinalAttempts
  <2> DEFINE f == [j \in FinalAttempts |->
                     CHOOSE i \in DOMAIN runs : runs[i].run_id = tasks[j].run_id]
  <2>4. \A j \in FinalAttempts :
          f[j] \in DOMAIN runs /\ runs[f[j]].run_id = tasks[j].run_id
    BY <2>3
  <2>5. \A a, b \in FinalAttempts : f[a] = f[b] => a = b
    BY <2>4, OneFinalAttempt
  <2>6. f \in [FinalAttempts -> DOMAIN runs]
    BY <2>4
  <2> HIDE DEF f
  <2> QED BY <2>2, <2>5, <2>6, OneToOne
<1> QED BY <1>1, <1>3, <1>4

(***************************************************************************)
(* The control tables tell one story: run rows, task rows, checks and the  *)
(* config registry, which are written by separate statements of several    *)
(* processes, agree in the ways DashboardsAgree lists, for any number of   *)
(* drivers, runs and retries, whichever statement fails.                   *)
(***************************************************************************)
THEOREM ControlTablesAgree == Spec => []DashboardsAgree
<1> DEFINE TablesInv == SuccessInv /\ ChecksInv /\ ConfigIsKnown
<1>1. ASSUME Init PROVE TablesInv
  <2>1. /\ DOMAIN tasks = {} /\ DOMAIN runs = {} /\ DOMAIN checks = {}
        /\ \A d \in Drivers : pc[d] = "idle"
    BY <1>1 DEF Init, StoreInit
  <2>2. \A r : FailedChecks(r) = {} /\ Unsuccessful(r) = {}
    BY <2>1 DEF FailedChecks, ReconciliationIssues, Unsuccessful
  <2>3. ChecksInv
    <3>1. \A r : /\ Cardinality(FailedChecks(r)) = 0
                 /\ Cardinality(Unsuccessful(r)) = 0
      BY <2>2, FS_EmptySet
    <3> QED BY <2>1, <3>1 DEF ChecksInv, Attempting, TryBlock
  <2> QED BY <2>1, <2>3 DEF SuccessInv, RunsWith, ConfigIsKnown
<1>2. RowsInv /\ TablesInv /\ [Next]_vars => TablesInv'
  BY SuccessStep, ChecksStep, ConfigStep
<1>3. ASSUME RowsInv, TablesInv PROVE DashboardsAgree
  <2>1. NoIdIsReused => FailedChecksAreFailedTasks
    BY <1>3
    DEF ChecksInv, FailedChecksAreFailedTasks, FailedChecks, Unsuccessful,
        NoIdIsReused
  <2> QED BY <1>3, <2>1, DerivedFromRows, HealthCounts DEF DashboardsAgree
<1> QED BY <1>1, <1>2, <1>3, RowsInit, RowsStep, PTL DEF Spec

----------------------------------------------------------------------------
(* Copies.                                                                 *)

LEMMA AccountingCount ==
  ASSUME TypeOK, NEW k
  PROVE  IsFiniteSet(Accounting(k)) /\ Cardinality(Accounting(k)) \in Nat
BY RowCounts DEF Accounting, TypeOK, StoreTypeOK

\* What a query returns does not change while its driver checks the load.
LEMMA CheckedResult ==
  ASSUME WindowInv, NEW d \in Drivers, Progress(d) \/ Disturb(d),
         pc[d] \in {"reconcile", "advance", "finish"}, pc'[d] \in Attempting
  PROVE  /\ pc'[d] \in {"reconcile", "advance", "finish"}
         /\ Result(d)' = Result(d)
<1>1. /\ UNCHANGED <<source, spec>>
  BY Frame DEF WindowInv, sourceVars
<1>2. pc'[d] \in {"reconcile", "advance", "finish"} /\ window'[d] = window[d]
  <2>1. CASE Checked(d)
    BY <2>1 DEF Checked
  <2>2. CASE AdvanceWatermark(d)
    BY <2>2
    DEF AdvanceWatermark, Goto, localVars, WindowInv, TypeOK, DriverTypeOK
  <2>3. CASE Outside(d)
    <3>1. pc'[d] = "window"
      BY <2>3 DEF Outside, Attempting, TryBlock, Probed
    <3> QED BY <3>1, HistoryCases
        DEF BeginRun, BeginTask, EscapeStart, Fails, Stop, Leave, Succeed, Goto,
            WindowInv, TypeOK, DriverTypeOK, Move, Progress, Disturb, Extract,
            Load, Window, ProbeUpperBound, CountSource, ProbeMaxWatermark,
            WriteDf, ReadPartition, Reconcile, AdvanceWatermark, RecordFailure,
            EndRun, Error, EscapeFail, Crash
  <2> QED BY <2>1, <2>2, <2>3, StepCases
          DEF WindowInv, Window, ProbeUpperBound, CountSource,
              ProbeMaxWatermark, WriteDf, ReadPartition, Goto
<1> QED BY <1>1, <1>2 DEF Result, InWindow, Incremental

\* A row that accounts for a copy keeps doing so.
LEMMA AccountingKept ==
  ASSUME WindowInv, RowsInv, spec.pinned, NoIdIsReused,
         NEW d \in Drivers, Progress(d) \/ Disturb(d), NEW k \in Keys
  PROVE  Accounting(k) \subseteq Accounting(k)'
<1> SUFFICES ASSUME NEW i \in Accounting(k) PROVE i \in Accounting(k)'
  OBVIOUS
<1> USE DEF RowsInv
<1>0. UNCHANGED <<source, spec>> /\ i \in DOMAIN tasks
  BY Frame DEF sourceVars, Accounting
<1>1. /\ i \in DOMAIN tasks'
      /\ tasks'[i].run_id = tasks[i].run_id
      /\ tasks'[i].attempt = tasks[i].attempt
  BY <1>0, TouchedRows
<1>2. tasks'[i].status # "SUCCEEDED" \/ CoveredBy(k, tasks[i])'
  <2>1. CASE tasks'[i] = tasks[i]
    BY <1>0, <2>1 DEF Accounting, CoveredBy
  <2>2. CASE tasks'[i] # tasks[i]
    <3>1. i \in OwnRows(d) /\ pc[d] # "idle"
      BY <1>0, <2>2, TouchedRows
    <3>2. Succeed(d) \/ Fails(d)
      BY <1>0, <2>2, StartTaskRows, HistoryCases
      DEF BeginRun, BeginTask, EscapeStart, Move, Stop
    <3>3. CASE Succeed(d)
      <4> DEFINE m == [from |-> window[d].lower, to |-> newMark[d],
                       count |-> count[d], written |-> written[d]]
      <4>1. m \in Metrics /\ "SUCCEEDED" \in Terminal
        BY DEF TypeOK, LocalsTypeOK, Metrics, Terminal, None, Null
      <4>2. FinishTask(run[d], attempt[d], "SUCCEEDED", m) /\ pc[d] = "finish"
        BY <3>3 DEF Succeed, Goto
      <4>3. /\ tasks'[i].status = "SUCCEEDED"
            /\ tasks'[i].from = Coalesce(window[d].lower, tasks[i].from)
            /\ tasks'[i].to = newMark[d]
        BY <1>0, <3>1, <4>1, <4>2, FinishTaskRows
      <4>4. tasks[i].status = "RUNNING"
        <5>1. PICK j \in OwnRows(d) : tasks[j].status = "RUNNING"
          BY <4>2 DEF RowInv, Attempting, TryBlock, NoIdIsReused
        <5> QED BY <3>1, <5>1 DEF AttemptsInv, OwnRows, IsAttempt, NoIdIsReused
      <4>5. tasks'[i].from = window[d].lower
        BY <1>0, <4>3, <4>4 DEF Coalesce, OpenRowsInv
      <4>6. k \in Result(d)
        BY <3>1, <4>2 DEF Accounting, Without, Attempting, TryBlock
      <4>7. newMark[d] # None /\ window[d].upper = newMark[d]
        BY <4>2 DEF WindowInv, CutInv, Probed
      <4>8. /\ AtOrAfter(source[k].wm, window[d].lower)
            /\ source[k].wm < newMark[d]
        BY <4>6, <4>7, SpecFacts DEF Result, InWindow, BeforeCut
      <4> QED BY <1>0, <4>3, <4>5, <4>7, <4>8 DEF CoveredBy, None, Null
    <3>4. CASE Fails(d)
      <4>1. NoMetrics \in Metrics /\ "FAILED" \in Terminal
        BY DEF NoMetrics, Metrics, Terminal, Null
      <4>2. FinishTask(run[d], attempt[d], "FAILED", NoMetrics)
        BY <2>2, <3>4 DEF Fails
      <4>3. tasks'[i].status = "FAILED"
        BY <1>0, <3>1, <4>1, <4>2, FinishTaskRows
      <4> QED BY <4>3
    <3> QED BY <3>2, <3>3, <3>4
  <2> QED BY <2>1, <2>2
<1>3. ASSUME NEW e \in Drivers \ {d}, Without(e, k)' PROVE i \notin OwnRows(e)'
  <2>1. /\ pc'[e] = pc[e] /\ run'[e] = run[e] /\ attempt'[e] = attempt[e]
        /\ window'[e] = window[e]
    BY OtherDrivers, Frame DEF Same
  <2>2. Result(e)' = Result(e)
    BY <1>0, <2>1 DEF Result, InWindow, Incremental
  <2>3. Without(e, k)
    BY <1>3, <2>1, <2>2 DEF Without
  <2> QED BY <1>1, <2>1, <2>3 DEF Accounting, OwnRows, IsAttempt
<1>4. ASSUME Without(d, k)' PROVE i \notin OwnRows(d)'
  <2>1. pc'[d] \in Attempting
    BY <1>4 DEF Without
  <2>2. CASE BeginTask(d)
    <3>1. /\ pc[d] = "start"
          /\ run'[d] = run[d] /\ attempt'[d] = attempt[d]
          /\ attempt[d] \in Nat
      BY <2>2, AppendAssumption DEF BeginTask, Goto, TypeOK, DriverTypeOK
    <3>2. tasks[i].run_id = run[d] => tasks[i].attempt < attempt[d]
      BY <1>0, <3>1 DEF RowInv, NoIdIsReused
    <3> QED BY <1>1, <3>1, <3>2 DEF OwnRows, IsAttempt
  <2>3. CASE Move(d)
    <3>1. /\ pc[d] \in Attempting
          /\ run'[d] = run[d] /\ attempt'[d] = attempt[d]
      BY <2>1, <2>3 DEF Move, Attempting, TryBlock, TypeOK, DriverTypeOK
    <3>2. Without(d, k)
      BY <1>4, <2>1, <3>1, CheckedResult DEF Without
    <3> QED BY <1>1, <3>1, <3>2 DEF Accounting, OwnRows, IsAttempt
  <2> QED BY <2>1, <2>2, <2>3, HistoryCases
          DEF BeginRun, EscapeStart, Succeed, Fails, Stop, Leave, Goto,
              Attempting, TryBlock, TypeOK, DriverTypeOK
<1> QED BY <1>1, <1>2, <1>3, <1>4 DEF Accounting

\* A copy that a write adds is accounted for by the writer's own row.
LEMMA WriteAccounted ==
  ASSUME WindowInv, RowsInv, spec.pinned, NoIdIsReused, CopiesInv,
         NEW d \in Drivers, WriteDf(d), NEW k \in Keys
  PROVE  /\ source[k] = NoRow => target'[k] = 0
         /\ target'[k] <= Cardinality(Accounting(k)')
<1> USE DEF RowsInv
<1>0. Progress(d)
  BY DEF Progress, Load
<1>1. /\ pc[d] = "write" /\ pc'[d] = "reconcile"
      /\ target'[k] = target[k] + (IF k \in batch[d] THEN 1 ELSE 0)
      /\ UNCHANGED <<tasks, run, attempt, window, source, spec>>
  BY SpecFacts
  DEF WriteDf, Goto, sourceVars, storeVars, TypeOK, DriverTypeOK
<1>2. batch[d] = Result(d)
  <2>1. /\ unread[d] = {}
        /\ batch[d] = Result(d) \ UNION unread[d]
    BY <1>1 DEF WindowInv, ReadInv, WholeInv
  <2>2. UNION unread[d] = {}
    BY <2>1
  <2> QED BY <2>1, <2>2
<1>3. target[k] \in Nat /\ target[k] <= Cardinality(Accounting(k))
  BY DEF TypeOK, TableTypeOK, CopiesInv
<1>4. /\ IsFiniteSet(Accounting(k)) /\ Cardinality(Accounting(k)) \in Nat
      /\ IsFiniteSet(Accounting(k)') /\ Cardinality(Accounting(k)') \in Nat
  <2>1. tasks' \in Seq(TaskRow)
    BY <1>1 DEF TypeOK, StoreTypeOK
  <2>2. Accounting(k)' \in SUBSET DOMAIN tasks'
    BY DEF Accounting
  <2> QED BY <2>1, <2>2, RowCounts, AccountingCount
<1>5. Accounting(k) \subseteq Accounting(k)'
  BY <1>0, AccountingKept
<1>6. CASE k \in batch[d]
  <2>1. source[k] # NoRow
    BY <1>2, <1>6 DEF Result, InWindow
  <2>2. PICK o \in OwnRows(d) : tasks[o].status = "RUNNING"
    BY <1>1 DEF RowInv, Attempting, TryBlock, NoIdIsReused
  <2>3. o \notin Accounting(k)
    BY <1>1, <2>2 DEF Accounting, Without, Attempting, TryBlock
  <2>4. o \in Accounting(k)'
    <3>1. o \in DOMAIN tasks' /\ tasks'[o].status # "SUCCEEDED"
      BY <1>1, <2>2 DEF OwnRows
    <3>2. Result(d)' = Result(d)
      BY <1>1 DEF Result, InWindow, Incremental
    <3>3. ~Without(d, k)'
      BY <1>1, <1>2, <1>6, <3>2 DEF Without
    <3>4. ASSUME NEW e \in Drivers \ {d}, Without(e, k)' PROVE o \notin OwnRows(e)'
      <4>1. pc'[e] = pc[e] /\ pc[e] # "idle" /\ pc[d] # "idle"
        BY <1>0, <1>1, <3>4, OtherDrivers DEF Without, Attempting, TryBlock
      <4>2. run[e] # run[d]
        BY <4>1 DEF RunIdsInv
      <4> QED BY <1>1, <2>2, <4>2 DEF OwnRows, IsAttempt
    <3> QED BY <3>1, <3>3, <3>4 DEF Accounting
  <2>5. /\ IsFiniteSet(Accounting(k) \cup {o})
        /\ Cardinality(Accounting(k) \cup {o}) = Cardinality(Accounting(k)) + 1
    BY <1>4, <2>3, FS_AddElement
  <2>6. Cardinality(Accounting(k) \cup {o}) <= Cardinality(Accounting(k)')
    BY <1>4, <1>5, <2>4, FS_Subset
  <2> QED BY <1>1, <1>3, <1>4, <1>6, <2>1, <2>5, <2>6
<1>7. CASE k \notin batch[d]
  <2>1. target'[k] = target[k]
    BY <1>1, <1>3, <1>7
  <2>2. Cardinality(Accounting(k)) <= Cardinality(Accounting(k)')
    BY <1>4, <1>5, FS_Subset
  <2> QED BY <1>3, <1>4, <2>1, <2>2 DEF CopiesInv
<1> QED BY <1>6, <1>7

\* The other steps of a driver add no copy.
LEMMA DriverAccounted ==
  ASSUME WindowInv, RowsInv, spec.pinned, NoIdIsReused, CopiesInv,
         NEW d \in Drivers, Progress(d) \/ Disturb(d)
  PROVE  CopiesInv'
<1> USE DEF RowsInv
<1>1. source' = source /\ (target' = target \/ WriteDf(d))
  BY Frame DEF sourceVars
<1>2. CASE WriteDf(d)
  BY <1>1, <1>2, WriteAccounted DEF CopiesInv
<1>3. ASSUME target' = target, NEW k \in Keys
      PROVE  target'[k] <= Cardinality(Accounting(k)')
  <2>1. tasks' \in Seq(TaskRow)
    BY TypeDriver DEF TypeOK, StoreTypeOK
  <2>2. Accounting(k)' \in SUBSET DOMAIN tasks'
    BY DEF Accounting
  <2>3. IsFiniteSet(Accounting(k)') /\ Cardinality(Accounting(k)') \in Nat
    BY <2>1, <2>2, RowCounts
  <2>4. Cardinality(Accounting(k)) <= Cardinality(Accounting(k)')
    BY <2>3, AccountingKept, FS_Subset
  <2>5. target[k] \in Nat /\ target[k] <= Cardinality(Accounting(k))
    BY DEF TypeOK, TableTypeOK, CopiesInv
  <2> QED BY <1>3, <2>3, <2>4, <2>5, AccountingCount
<1> QED BY <1>1, <1>2, <1>3 DEF CopiesInv

\* An event that appears has no copies, and is in no window that is pinned.
LEMMA SourceAccounted ==
  ASSUME WindowInv, RowsInv, spec.pinned, CopiesInv, [Next]_vars,
         UNCHANGED <<storeVars, spec, tableVars, localVars, driverVars>>
  PROVE  CopiesInv'
<1> USE DEF RowsInv, storeVars, tableVars, localVars, driverVars
<1> SUFFICES ASSUME NEW k \in Keys
             PROVE  /\ source'[k] = NoRow => target[k] = 0
                    /\ target[k] <= Cardinality(Accounting(k)')
  BY DEF CopiesInv
<1>1. source'[k] = source[k] \/ Insert(k)
  <2>1. ASSUME NEW j \in Keys, Insert(j), j # k PROVE source'[k] = source[k]
    BY <2>1 DEF Insert, TypeOK, SourceTypeOK
  <2> QED BY <2>1, Frame, QuietStep DEF Tick, sourceVars
<1>2. CASE Insert(k)
  <2>1. target[k] = 0
    BY <1>2 DEF Insert, CopiesInv
  <2>2. Cardinality(Accounting(k)') \in Nat
    <3>1. tasks' \in Seq(TaskRow) /\ Accounting(k)' \in SUBSET DOMAIN tasks'
      BY DEF Accounting, TypeOK, StoreTypeOK
    <3> QED BY <3>1, RowCounts
  <2> QED BY <2>1, <2>2
<1>3. CASE source'[k] = source[k]
  <2>1. ASSUME NEW e \in Drivers PROVE Without(e, k)' <=> Without(e, k)
    <3>1. CASE pc[e] \in {"reconcile", "advance", "finish"}
      <4>1. Result(e)' = Result(e)
        BY <3>1, ResultStable DEF WindowInv, Probed
      <4> QED BY <4>1 DEF Without
    <3>2. CASE pc[e] \notin {"reconcile", "advance", "finish"}
      BY <3>2 DEF Without
    <3> QED BY <3>1, <3>2
  <2>2. \A e \in Drivers : OwnRows(e)' = OwnRows(e)
    BY DEF OwnRows
  <2>3. \A i \in DOMAIN tasks : CoveredBy(k, tasks[i])' <=> CoveredBy(k, tasks[i])
    BY <1>3 DEF CoveredBy
  <2>4. Accounting(k)' = Accounting(k)
    BY <2>1, <2>2, <2>3 DEF Accounting
  <2> QED BY <1>3, <2>4 DEF CopiesInv
<1> QED BY <1>1, <1>2, <1>3

(***************************************************************************)
(* An append is not idempotent, but every copy of an event in the target   *)
(* has a task row of its own that did not succeed or that records a window *)
(* with the event in it: start_task comes before the load, and the window  *)
(* that finish_task records is the one that was read.  For pinned cut-offs *)
(* and ids that are not given twice, and any number of drivers, runs,      *)
(* retries and crashes.                                                    *)
(***************************************************************************)
THEOREM CopiesHaveRows == Spec => []CopiesAreAccountedFor
<1> DEFINE Guarded == NoIdIsReused /\ spec.pinned => CopiesInv
<1>1. ASSUME Init PROVE Guarded
  <2>1. \A k \in Keys : target[k] = 0 /\ Cardinality(Accounting(k)) \in Nat
    BY <1>1, TypeInit, AccountingCount DEF Init
  <2>2. \A n \in Nat : 0 <= n
    OBVIOUS
  <2>3. CopiesInv
    BY <2>1, <2>2 DEF CopiesInv
  <2> QED BY <2>3
<1>2. ASSUME WindowInv, RowsInv, Guarded, [Next]_vars PROVE Guarded'
  <2> SUFFICES ASSUME NoIdIsReused', spec'.pinned PROVE CopiesInv'
    OBVIOUS
  <2>1. spec' = spec
    BY <1>2, Frame, QuietStep DEF RowsInv
  <2>2. ASSUME NEW d \in Drivers, Progress(d) \/ Disturb(d) PROVE CopiesInv'
    <3>1. NoIdIsReused
      BY <1>2, <2>2, OtherDrivers DEF NoIdIsReused, RowsInv
    <3> QED BY <1>2, <2>1, <2>2, <3>1, DriverAccounted
  <2>3. CASE UNCHANGED <<storeVars, spec, tableVars, localVars, driverVars,
                         historyVars>>
    <3>1. NoIdIsReused
      BY <2>3 DEF NoIdIsReused, historyVars
    <3> QED BY <1>2, <2>1, <2>3, <3>1, SourceAccounted
  <2> QED BY <1>2, <2>2, <2>3, QuietHistory
<1>3. ASSUME RowsInv, Guarded PROVE CopiesAreAccountedFor
  <2> SUFFICES ASSUME NoIdIsReused, spec.pinned, NEW k \in Keys
               PROVE  target[k] <= Cardinality({i \in DOMAIN tasks :
                                                  \/ tasks[i].status # "SUCCEEDED"
                                                  \/ CoveredBy(k, tasks[i])})
    BY DEF CopiesAreAccountedFor
  <2> DEFINE S == {i \in DOMAIN tasks : \/ tasks[i].status # "SUCCEEDED"
                                        \/ CoveredBy(k, tasks[i])}
  <2>1. tasks \in Seq(TaskRow) /\ target[k] \in Nat
    BY <1>3 DEF RowsInv, TypeOK, StoreTypeOK, TableTypeOK
  <2>2. IsFiniteSet(S) /\ Cardinality(S) \in Nat
    BY <2>1, RowCounts
  <2>3. Accounting(k) \subseteq S
    BY DEF Accounting
  <2> HIDE DEF S
  <2>4. Cardinality(Accounting(k)) <= Cardinality(S)
    BY <2>2, <2>3, FS_Subset
  <2>5. target[k] <= Cardinality(Accounting(k))
    BY <1>3 DEF CopiesInv
  <2>6. target[k] <= Cardinality(S)
    BY <1>3, <2>1, <2>2, <2>4, <2>5, AccountingCount DEF RowsInv
  <2> QED BY <2>6 DEF S
<1> HIDE DEF Guarded
<1> QED BY <1>1, <1>2, <1>3, WindowInit, WindowStep, RowsInit, RowsStep, PTL
        DEF Spec

----------------------------------------------------------------------------
(* Volumes.                                                                *)

\* There are n numbers from 1 to n.
LEMMA FirstNumbers ==
  ASSUME NEW n \in Nat
  PROVE  IsFiniteSet(1..n) /\ Cardinality(1..n) = n
<1>1. 1 \in Int /\ n \in Int
  OBVIOUS
<1>2. /\ IsFiniteSet(1..n)
      /\ Cardinality(1..n) = IF 1 > n THEN 0 ELSE n - 1 + 1
  BY <1>1, FS_Interval
<1>3. (IF 1 > n THEN 0 ELSE n - 1 + 1) = n
  OBVIOUS
<1> QED BY <1>2, <1>3

\* A sum of finitely many natural numbers is a natural number.
LEMMA TotalType ==
  ASSUME NEW S, IsFiniteSet(S), NEW f \in [S -> Nat]
  PROVE  IsFiniteSet(Units(f)) /\ Total(f) \in Nat
<1> DEFINE Of(x) == {<<x, n>> : n \in 1..f[x]}
           All == {Of(x) : x \in S}
<1>1. ASSUME NEW x \in S PROVE IsFiniteSet(Of(x))
  <2> DEFINE h == [n \in 1..f[x] |-> <<x, n>>]
  <2>1. h \in Surjection(1..f[x], Of(x))
    BY DEF Surjection
  <2>2. IsFiniteSet(1..f[x])
    BY FirstNumbers
  <2> QED BY <2>1, <2>2, FS_Surjection
<1>2. IsFiniteSet(All)
  <2> DEFINE h == [x \in S |-> Of(x)]
  <2> HIDE DEF Of
  <2>1. h \in Surjection(S, All)
    BY DEF Surjection
  <2> QED BY <2>1, FS_Surjection
<1>3. IsFiniteSet(UNION All)
  <2>1. \A T \in All : IsFiniteSet(T)
    BY <1>1
  <2> HIDE DEF All
  <2> QED BY <1>2, <2>1, FS_UNION
<1>4. Units(f) = UNION All
  BY DEF Units
<1> QED BY <1>3, <1>4, FS_CardinalityType DEF Total

LEMMA UnitsMember ==
  ASSUME NEW S, NEW f \in [S -> Nat], NEW p
  PROVE  p \in Units(f) <=> \E x \in S : \E n \in 1..f[x] : p = <<x, n>>
BY DEF Units

\* One more for each member of B.
LEMMA TotalAdd ==
  ASSUME NEW S, IsFiniteSet(S), NEW f \in [S -> Nat], NEW g \in [S -> Nat],
         NEW B \in SUBSET S,
         \A x \in S : g[x] = f[x] + (IF x \in B THEN 1 ELSE 0)
  PROVE  Total(g) = Total(f) + Cardinality(B)
<1> DEFINE New == {<<x, f[x] + 1>> : x \in B}
           h == [x \in B |-> <<x, f[x] + 1>>]
<1>1. IsFiniteSet(B)
  BY FS_Subset
<1>2. h \in Bijection(B, New)
  <2>1. h \in [B -> New] /\ \A p \in New : \E x \in B : h[x] = p
    OBVIOUS
  <2>2. \A x, y \in B : h[x] = h[y] => x = y
    OBVIOUS
  <2> QED BY <2>1, <2>2 DEF Bijection, Injection, IsInjective, Surjection
<1>3. IsFiniteSet(New) /\ Cardinality(New) = Cardinality(B)
  BY <1>1, <1>2, FS_Bijection DEF ExistsBijection
<1>4. Units(g) = Units(f) \cup New
  <2>1. ASSUME NEW p \in Units(g) PROVE p \in Units(f) \cup New
    <3>1. PICK x \in S : \E n \in 1..g[x] : p = <<x, n>>
      BY <2>1, UnitsMember
    <3>2. PICK n \in 1..g[x] : p = <<x, n>>
      BY <3>1
    <3>3. CASE n \in 1..f[x]
      BY <3>2, <3>3, UnitsMember
    <3>4. CASE n \notin 1..f[x]
      BY <3>2, <3>4
    <3> QED BY <3>3, <3>4
  <2>2. ASSUME NEW p \in Units(f) PROVE p \in Units(g)
    <3>1. PICK x \in S : \E n \in 1..f[x] : p = <<x, n>>
      BY <2>2, UnitsMember
    <3>2. \A n \in 1..f[x] : n \in 1..g[x]
      OBVIOUS
    <3> QED BY <3>1, <3>2, UnitsMember
  <2>3. ASSUME NEW p \in New PROVE p \in Units(g)
    <3>1. PICK x \in B : p = <<x, f[x] + 1>>
      BY <2>3
    <3>2. f[x] + 1 \in 1..g[x]
      BY <3>1
    <3> QED BY <3>1, <3>2, UnitsMember
  <2> QED BY <2>1, <2>2, <2>3
<1>5. Units(f) \cap New = {}
  <2> SUFFICES ASSUME NEW p \in Units(f), p \in New PROVE FALSE
    OBVIOUS
  <2>1. PICK x \in S : \E n \in 1..f[x] : p = <<x, n>>
    BY UnitsMember
  <2>2. PICK y \in B : p = <<y, f[y] + 1>>
    OBVIOUS
  <2> QED BY <2>1, <2>2
<1> HIDE DEF New
<1>6. Cardinality(Units(f) \cup New)
        = Cardinality(Units(f)) + Cardinality(New) - Cardinality({})
  BY <1>3, <1>5, TotalType, FS_Union
<1> QED BY <1>1, <1>3, <1>4, <1>6, TotalType, FS_EmptySet, FS_CardinalityType
        DEF Total

\* The check lets a load through with as many rows as were counted, or with
\* no metrics; nothing changes what it has found.
LEMMA MetricsStep ==
  ASSUME TypeOK, MetricsInv, [Next]_vars
  PROVE  MetricsInv'
<1> SUFFICES ASSUME NEW e \in Drivers, spec'.reconciled,
                    pc'[e] \in {"advance", "finish"}
             PROVE  written'[e] \in {Null, count'[e]}
  BY DEF MetricsInv
<1>0. spec' = spec
  BY Frame, QuietStep
<1>1. ASSUME Same(e) PROVE written'[e] \in {Null, count'[e]}
  BY <1>0, <1>1 DEF Same, MetricsInv
<1>2. ASSUME Progress(e) \/ Disturb(e) PROVE written'[e] \in {Null, count'[e]}
  <2> USE DEF TypeOK, DriverTypeOK, Goto
  <2>1. CASE Checked(e)
    BY <1>0, <2>1 DEF Checked
  <2>2. CASE AdvanceWatermark(e)
    BY <1>0, <2>2 DEF AdvanceWatermark, localVars, MetricsInv
  <2>3. CASE Outside(e)
    BY <2>3 DEF Outside, Probed
  <2> QED BY <1>2, <2>1, <2>2, <2>3, StepCases
          DEF Window, ProbeUpperBound, CountSource, ProbeMaxWatermark,
              ReadPartition, WriteDf
<1> QED BY <1>1, <1>2, Frame, QuietStep

LEMMA ClaimedMember ==
  ASSUME NEW i \in DOMAIN tasks, NEW n
  PROVE  <<i, n>> \in Claimed
           <=> \/ CountsForVolume(tasks[i]) /\ n \in 1..tasks[i].written
               \/ \E d \in Drivers : /\ Loaded(d)
                                     /\ i \in OwnRows(d)
                                     /\ n \in 1..count[d]
BY DEF Claimed, Claims

\* A driver that has loaded stays as it is, or has just written.
LEMMA StaysLoaded ==
  ASSUME TypeOK, NEW d \in Drivers, Progress(d) \/ Disturb(d), Loaded(d)',
         ~WriteDf(d)
  PROVE  /\ Loaded(d)
         /\ UNCHANGED tasks
         /\ count'[d] = count[d] /\ run'[d] = run[d] /\ attempt'[d] = attempt[d]
<1> USE DEF TypeOK, DriverTypeOK, Goto, Loaded
<1>1. Loaded(d) /\ count'[d] = count[d]
  <2>1. CASE Checked(d)
    BY <2>1 DEF Checked
  <2>2. CASE AdvanceWatermark(d)
    BY <2>2 DEF AdvanceWatermark, localVars
  <2>3. CASE Outside(d)
    BY <2>3 DEF Outside, Probed
  <2> QED BY <2>1, <2>2, <2>3, StepCases
          DEF Window, ProbeUpperBound, CountSource, ProbeMaxWatermark,
              ReadPartition
<1>2. CASE Move(d)
  BY <1>1, <1>2 DEF Move
<1>3. CASE Succeed(d) \/ Fails(d) \/ Stop(d) \/ BeginTask(d) \/ EscapeStart(d)
  BY <1>3 DEF Succeed, Fails, Stop, Leave, BeginTask, EscapeStart
<1>4. ASSUME NEW r \in RunIds, BeginRun(d, r) PROVE FALSE
  BY <1>4 DEF BeginRun
<1> QED BY <1>1, <1>2, <1>3, <1>4, HistoryCases

\* A step that writes nothing to the target gives no row a new claim: a task
\* that is closed as SUCCEEDED reports what its load had put there.
LEMMA ClaimsKept ==
  ASSUME RowsInv, MetricsInv, spec.reconciled, NoIdIsReused,
         NEW d \in Drivers, Progress(d) \/ Disturb(d), ~WriteDf(d),
         NEW i \in DOMAIN tasks', NEW n,
         \/ CountsForVolume(tasks'[i]) /\ n \in 1..tasks'[i].written
         \/ \E e \in Drivers : /\ Loaded(e)'
                               /\ i \in OwnRows(e)'
                               /\ n \in 1..count'[e]
  PROVE  i \in DOMAIN tasks /\ <<i, n>> \in Claimed
<1> USE DEF RowsInv
<1>1. ASSUME CountsForVolume(tasks'[i]), n \in 1..tasks'[i].written
      PROVE  i \in DOMAIN tasks /\ <<i, n>> \in Claimed
  <2>1. i \in DOMAIN tasks
    <3>1. CASE i \notin DOMAIN tasks
      <4>1. tasks'[i].status = "RUNNING"
        BY <3>1, TouchedRows DEF NewRow
      <4> QED BY <1>1, <4>1 DEF CountsForVolume
    <3> QED BY <3>1
  <2>2. CASE tasks'[i] = tasks[i]
    BY <1>1, <2>1, <2>2, ClaimedMember
  <2>3. CASE tasks'[i] # tasks[i]
    <3>1. i \in OwnRows(d) /\ pc[d] # "idle"
      BY <2>1, <2>3, TouchedRows
    <3>2. Succeed(d) \/ Fails(d)
      BY <2>1, <2>3, StartTaskRows, HistoryCases
      DEF BeginRun, BeginTask, EscapeStart, Move, Stop
    <3>3. CASE Succeed(d)
      <4> DEFINE m == [from |-> window[d].lower, to |-> newMark[d],
                       count |-> count[d], written |-> written[d]]
      <4>1. m \in Metrics /\ "SUCCEEDED" \in Terminal
        BY DEF TypeOK, LocalsTypeOK, Metrics, Terminal, None, Null
      <4>2. FinishTask(run[d], attempt[d], "SUCCEEDED", m) /\ pc[d] = "finish"
        BY <3>3 DEF Succeed, Goto
      <4>3. tasks'[i].written = written[d]
        BY <2>1, <3>1, <4>1, <4>2, FinishTaskRows
      <4>4. written[d] = count[d]
        BY <1>1, <4>2, <4>3 DEF MetricsInv, CountsForVolume
      <4> QED BY <1>1, <2>1, <3>1, <4>2, <4>3, <4>4, ClaimedMember DEF Loaded
    <3>4. CASE Fails(d)
      <4>1. NoMetrics \in Metrics /\ "FAILED" \in Terminal
        BY DEF NoMetrics, Metrics, Terminal, Null
      <4>2. FinishTask(run[d], attempt[d], "FAILED", NoMetrics)
        BY <2>3, <3>4 DEF Fails
      <4>3. tasks'[i].status = "FAILED"
        BY <2>1, <3>1, <4>1, <4>2, FinishTaskRows
      <4> QED BY <1>1, <4>3 DEF CountsForVolume
    <3> QED BY <3>2, <3>3, <3>4
  <2> QED BY <2>2, <2>3
<1>2. ASSUME NEW e \in Drivers, Loaded(e)', i \in OwnRows(e)', n \in 1..count'[e]
      PROVE  i \in DOMAIN tasks /\ <<i, n>> \in Claimed
  <2>1. CASE e = d
    <3>1. /\ Loaded(d) /\ tasks' = tasks /\ count'[d] = count[d]
          /\ run'[d] = run[d] /\ attempt'[d] = attempt[d]
      BY <1>2, <2>1, StaysLoaded
    <3>2. i \in OwnRows(d)
      BY <1>2, <2>1, <3>1 DEF OwnRows
    <3> QED BY <1>2, <2>1, <3>1, <3>2, ClaimedMember
  <2>2. CASE e # d
    <3>1. /\ pc'[e] = pc[e] /\ run'[e] = run[e] /\ attempt'[e] = attempt[e]
          /\ count'[e] = count[e]
      BY <2>2, OtherDrivers, Frame DEF Same
    <3>2. Loaded(e) /\ pc[e] # "idle"
      BY <1>2, <3>1 DEF Loaded
    <3>3. tasks'[i].run_id = run[e] /\ tasks'[i].attempt = attempt[e]
      BY <1>2, <3>1 DEF OwnRows, IsAttempt
    <3>4. i \in DOMAIN tasks
      <4>1. CASE i \notin DOMAIN tasks
        <5>1. pc[d] = "start" /\ tasks'[i].run_id = run[d]
          BY <4>1, TouchedRows DEF NewRow
        <5> QED BY <2>2, <3>2, <3>3, <5>1 DEF RunIdsInv
      <4> QED BY <4>1
    <3>5. i \in OwnRows(e)
      BY <3>3, <3>4, TouchedRows DEF OwnRows, IsAttempt
    <3> QED BY <1>2, <3>1, <3>2, <3>4, <3>5, ClaimedMember
  <2> QED BY <2>1, <2>2
<1> QED BY <1>1, <1>2

\* A write adds as many rows to the target as its attempt will report.
LEMMA WriteClaims ==
  ASSUME WindowInv, RowsInv, spec.pinned, spec.reconciled, NoIdIsReused,
         VolumeInv,
         NEW d \in Drivers, WriteDf(d)
  PROVE  VolumeInv'
<1> USE DEF RowsInv
<1>0. Progress(d)
  BY DEF Progress, Load
<1>1. /\ pc[d] = "write" /\ pc'[d] = "reconcile"
      /\ target' = [k \in Keys |-> target[k] + (IF k \in batch[d] THEN 1 ELSE 0)]
      /\ UNCHANGED <<tasks, run, attempt, count>>
      /\ \A e \in Drivers \ {d} : pc'[e] = pc[e]
  BY SpecFacts DEF WriteDf, Goto, storeVars, TypeOK, DriverTypeOK
<1>2. count[d] = Cardinality(batch[d])
  <2>1. /\ unread[d] = {}
        /\ batch[d] = Result(d) \ UNION unread[d]
        /\ count[d] = Cardinality(Result(d))
    BY <1>1 DEF WindowInv, ReadInv, WholeInv
  <2>2. UNION unread[d] = {}
    BY <2>1
  <2>3. batch[d] = Result(d)
    BY <2>1, <2>2
  <2> QED BY <2>1, <2>3
<1>3. /\ target \in [Keys -> Nat] /\ target' \in [Keys -> Nat]
      /\ batch[d] \in SUBSET Keys /\ IsFiniteSet(Keys)
      /\ count[d] \in Nat
  BY <1>1, AppendAssumption DEF TypeOK, TableTypeOK, LocalsTypeOK, Null
<1>4. /\ Total(target') = Total(target) + Cardinality(batch[d])
      /\ Total(target) \in Nat
  BY <1>1, <1>3, TotalAdd, TotalType
<1>5. PICK o \in OwnRows(d) : tasks[o].status = "RUNNING"
  BY <1>1 DEF RowInv, Attempting, TryBlock, NoIdIsReused
<1>6. OwnRows(d) = {o}
  BY <1>5 DEF AttemptsInv, OwnRows, IsAttempt, NoIdIsReused
<1> DEFINE New == {<<o, n>> : n \in 1..count[d]}
<1>7. IsFiniteSet(New) /\ Cardinality(New) <= count[d]
  <2> DEFINE h == [n \in 1..count[d] |-> <<o, n>>]
  <2>1. h \in Surjection(1..count[d], New)
    BY DEF Surjection
  <2>2. IsFiniteSet(1..count[d]) /\ Cardinality(1..count[d]) = count[d]
    BY <1>3, FirstNumbers
  <2> QED BY <2>1, <2>2, FS_Surjection
<1>8. Claimed' \subseteq Claimed \cup New
  <2> SUFFICES ASSUME NEW p \in Claimed' PROVE p \in Claimed \cup New
    OBVIOUS
  <2>1. PICK i \in DOMAIN tasks : \E n \in Claims(i)' : p = <<i, n>>
    BY <1>1 DEF Claimed
  <2>2. PICK n \in Claims(i)' : p = <<i, n>>
    BY <2>1
  <2>3. CASE CountsForVolume(tasks[i]) /\ n \in 1..tasks[i].written
    BY <2>2, <2>3, ClaimedMember
  <2>4. ASSUME NEW e \in Drivers, Loaded(e)', i \in OwnRows(e)', n \in 1..count[e]
        PROVE  p \in Claimed \cup New
    <3>1. i \in OwnRows(e)
      BY <1>1, <2>4 DEF OwnRows
    <3>2. CASE e = d
      BY <1>6, <2>2, <2>4, <3>1, <3>2
    <3>3. CASE e # d
      BY <1>1, <2>2, <2>4, <3>1, <3>3, ClaimedMember DEF Loaded
    <3> QED BY <3>2, <3>3
  <2> QED BY <1>1, <2>2, <2>3, <2>4 DEF Claims, CountsForVolume
<1> HIDE DEF New
<1>9. /\ IsFiniteSet(Claimed) /\ Cardinality(Claimed) \in Nat
      /\ Cardinality(New) \in Nat
      /\ Cardinality(Claimed) <= Total(target)
  BY <1>7, FS_CardinalityType DEF VolumeInv
<1>10. /\ IsFiniteSet(Claimed \cup New)
       /\ Cardinality(Claimed \cup New) <= Cardinality(Claimed) + Cardinality(New)
       /\ Cardinality(Claimed \cup New) \in Nat
  <2>1. IsFiniteSet(Claimed \cap New) /\ Cardinality(Claimed \cap New) \in Nat
    BY <1>9, FS_Intersection, FS_CardinalityType
  <2>2. /\ IsFiniteSet(Claimed \cup New)
        /\ Cardinality(Claimed \cup New)
             = Cardinality(Claimed) + Cardinality(New) - Cardinality(Claimed \cap New)
    BY <1>7, <1>9, FS_Union
  <2>3. Cardinality(Claimed \cup New) \in Nat
    BY <2>2, FS_CardinalityType
  <2> QED BY <1>9, <2>1, <2>2, <2>3
<1>11. IsFiniteSet(Claimed') /\ Cardinality(Claimed') <= Cardinality(Claimed \cup New)
  BY <1>8, <1>10, FS_Subset
<1>12. Cardinality(Claimed') \in Nat
  BY <1>11, FS_CardinalityType
<1>13. Cardinality(Claimed') <= Total(target')
  BY <1>2, <1>3, <1>4, <1>7, <1>9, <1>10, <1>11, <1>12
<1>14. Total(target)' = Total(target')
  BY DEF Total, Units
<1> QED BY <1>11, <1>13, <1>14 DEF VolumeInv

(***************************************************************************)
(* volume_trend never reports more rows than the target got: rows_written  *)
(* is read from a history that other runs write to (_collect_metrics), but *)
(* the row count check lets through only the number that was counted, and  *)
(* a pinned load has written as many.  For reconciled tables with pinned   *)
(* cut-offs and ids that are not given twice, and any number of drivers,   *)
(* runs, retries, lost metrics and crashes.                                *)
(***************************************************************************)
THEOREM ReportedVolumeIsReal == Spec => []VolumeNeverOverstates
<1> DEFINE Guarded == NoIdIsReused /\ spec.pinned /\ spec.reconciled => VolumeInv
<1>1. ASSUME Init PROVE MetricsInv /\ Guarded
  <2>1. /\ \A d \in Drivers : pc[d] = "idle"
        /\ DOMAIN tasks = {}
    BY <1>1 DEF Init, StoreInit
  <2>2. MetricsInv /\ Claimed = {}
    BY <2>1 DEF MetricsInv, Claimed
  <2>3. Total(target) \in Nat
    BY <1>1, TypeInit, AppendAssumption, TotalType DEF TypeOK, TableTypeOK
  <2>4. VolumeInv
    BY <2>2, <2>3, FS_EmptySet DEF VolumeInv
  <2> QED BY <2>2, <2>4
<1>2. ASSUME WindowInv, RowsInv, MetricsInv, Guarded, [Next]_vars PROVE Guarded'
  <2> SUFFICES ASSUME NoIdIsReused', spec'.pinned, spec'.reconciled
               PROVE  VolumeInv'
    OBVIOUS
  <2>1. spec' = spec
    BY <1>2, Frame, QuietStep DEF RowsInv
  <2>2. ASSUME NEW d \in Drivers, Progress(d) \/ Disturb(d) PROVE VolumeInv'
    <3>1. NoIdIsReused
      BY <1>2, <2>2, OtherDrivers DEF NoIdIsReused, RowsInv
    <3>2. VolumeInv
      BY <1>2, <2>1, <3>1
    <3>3. CASE WriteDf(d)
      BY <1>2, <2>1, <3>1, <3>2, <3>3, WriteClaims
    <3>4. CASE ~WriteDf(d)
      <4>1. target' = target
        BY <1>2, <2>2, <3>4, Frame DEF RowsInv
      <4>2. Claimed' \subseteq Claimed
        <5> SUFFICES ASSUME NEW p \in Claimed' PROVE p \in Claimed
          OBVIOUS
        <5>1. PICK i \in DOMAIN tasks' : \E n \in Claims(i)' : p = <<i, n>>
          BY DEF Claimed
        <5>2. PICK n \in Claims(i)' : p = <<i, n>>
          BY <5>1
        <5>3. \/ CountsForVolume(tasks'[i]) /\ n \in 1..tasks'[i].written
              \/ \E e \in Drivers : /\ Loaded(e)'
                                    /\ i \in OwnRows(e)'
                                    /\ n \in 1..count'[e]
          BY <5>2 DEF Claims, CountsForVolume
        <5>4. <<i, n>> \in Claimed
          BY <1>2, <2>1, <2>2, <3>1, <3>4, <5>3, ClaimsKept
        <5> QED BY <5>2, <5>4
      <4>3. /\ IsFiniteSet(Claimed') /\ Cardinality(Claimed') <= Cardinality(Claimed)
            /\ Cardinality(Claimed') \in Nat /\ Cardinality(Claimed) \in Nat
        BY <3>2, <4>2, FS_Subset, FS_CardinalityType DEF VolumeInv
      <4>4. Total(target) \in Nat /\ Total(target)' = Total(target)
        BY <1>2, <4>1, AppendAssumption, TotalType
        DEF RowsInv, TypeOK, TableTypeOK
      <4> QED BY <3>2, <4>3, <4>4 DEF VolumeInv
    <3> QED BY <3>3, <3>4
  <2>3. CASE UNCHANGED <<storeVars, spec, tableVars, localVars, driverVars,
                         historyVars>>
    <3> USE <2>3 DEF storeVars, tableVars, localVars, driverVars, historyVars
    <3>1. NoIdIsReused
      BY DEF NoIdIsReused
    <3>2. Claimed' = Claimed /\ Total(target)' = Total(target)
      BY DEF Claimed, Claims, CountsForVolume, Loaded, OwnRows
    <3> QED BY <1>2, <2>1, <3>1, <3>2 DEF VolumeInv
  <2> QED BY <1>2, <2>2, <2>3, QuietHistory
<1>3. ASSUME RowsInv, Guarded PROVE VolumeNeverOverstates
  <2> SUFFICES ASSUME NoIdIsReused, spec.pinned, spec.reconciled
               PROVE  VolumeTrend <= Total(target)
    BY DEF VolumeNeverOverstates
  <2> DEFINE rows == {i \in DOMAIN tasks : CountsForVolume(tasks[i])}
             f == [i \in rows |-> tasks[i].written]
  <2>1. Units(f) \subseteq Claimed
    <3> SUFFICES ASSUME NEW p \in Units(f) PROVE p \in Claimed
      OBVIOUS
    <3>1. PICK i \in rows : \E n \in 1..tasks[i].written : p = <<i, n>>
      BY DEF Units
    <3> QED BY <3>1, ClaimedMember
  <2>2. /\ IsFiniteSet(Units(f)) /\ Cardinality(Units(f)) \in Nat
        /\ Cardinality(Units(f)) <= Cardinality(Claimed)
        /\ Cardinality(Claimed) \in Nat
    BY <1>3, <2>1, FS_Subset, FS_CardinalityType DEF VolumeInv
  <2>3. VolumeTrend = Cardinality(Units(f))
    BY DEF VolumeTrend, Total
  <2>4. Total(target) \in Nat
    BY <1>3, AppendAssumption, TotalType DEF RowsInv, TypeOK, TableTypeOK
  <2> QED BY <1>3, <2>2, <2>3, <2>4 DEF VolumeInv
<1>4. RowsInv /\ MetricsInv /\ [Next]_vars => MetricsInv'
  BY MetricsStep DEF RowsInv
<1> HIDE DEF Guarded
<1> QED BY <1>1, <1>2, <1>3, <1>4, WindowInit, WindowStep, RowsInit, RowsStep, PTL
        DEF Spec
=============================================================================
