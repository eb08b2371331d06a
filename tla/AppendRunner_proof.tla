------------------------- MODULE AppendRunner_proof -------------------------
(***************************************************************************)
(* Proofs about AppendRunner for every set of keys, drivers and run ids,   *)
(* every overlap, retry count and bound.                                   *)
(***************************************************************************)
EXTENDS AppendRunner, FiniteSetTheorems, SequenceTheorems, TLAPS

\* A subset of the keys has a natural number of elements (count_source, and
\* the operation metrics of a write).
LEMMA KeyCount == ASSUME NEW S, S \subseteq Keys
                  PROVE  Cardinality(S) \in Nat
BY AppendAssumption, FS_Subset, FS_CardinalityType

LEMMA NoRowType == NoRow \in Row
BY DEF NoRow, Row

----------------------------------------------------------------------------
(* The statements on the control tables.                                   *)

\* Rows that are updated in place are still a table.
LEMMA SameLength ==
  ASSUME NEW S, NEW s \in Seq(S), NEW t \in [DOMAIN s -> S]
  PROVE  t \in Seq(S) /\ DOMAIN t = DOMAIN s
BY LenProperties, SeqDef

LEMMA StartRunType ==
  ASSUME runs \in Seq(RunRow), NEW r \in RunIds, StartRun(r)
  PROVE  runs' \in Seq(RunRow)
BY DEF StartRun, RunRow

LEMMA FinishRunType ==
  ASSUME runs \in Seq(RunRow), NEW r \in RunIds,
         NEW s \in {"RUNNING", "SUCCEEDED", "FAILED", "PARTIAL"},
         FinishRun(r, s)
  PROVE  runs' \in Seq(RunRow) /\ DOMAIN runs' = DOMAIN runs
<1>1. \A i \in DOMAIN runs : runs[i] \in RunRow
  OBVIOUS
<1>2. runs' \in [DOMAIN runs -> RunRow]
  BY <1>1 DEF FinishRun, UpdateWhere, RunRow
<1> QED BY <1>2, SameLength

LEMMA StartTaskType ==
  ASSUME tasks \in Seq(TaskRow), NEW r \in RunIds, NEW n \in Nat,
         NEW h \in Hashes, StartTask(r, n, h)
  PROVE  tasks' \in Seq(TaskRow)
BY DEF StartTask, TaskRow, Null, Terminal

Metrics == [from : Int, to : Int, count : Int, written : Int]

LEMMA FinishTaskType ==
  ASSUME tasks \in Seq(TaskRow), NEW r \in RunIds, NEW n \in Nat,
         NEW s \in Terminal, NEW m \in Metrics, FinishTask(r, n, s, m)
  PROVE  /\ tasks' \in Seq(TaskRow)
         /\ DOMAIN tasks' = DOMAIN tasks
         /\ \A i \in DOMAIN tasks :
              tasks'[i] = IF IsAttempt(tasks[i], r, n)
                            THEN ClosedRow(tasks[i], s, m)
                            ELSE tasks[i]
<1>1. tasks' = [i \in DOMAIN tasks |-> IF IsAttempt(tasks[i], r, n)
                                         THEN ClosedRow(tasks[i], s, m)
                                         ELSE tasks[i]]
  BY DEF FinishTask, UpdateWhere
<1>2. ASSUME NEW row \in TaskRow PROVE ClosedRow(row, s, m) \in TaskRow
  BY DEF ClosedRow, Coalesce, TaskRow, Metrics, Terminal
<1>3. \A i \in DOMAIN tasks : tasks[i] \in TaskRow
  OBVIOUS
<1>4. tasks' \in [DOMAIN tasks -> TaskRow]
  BY <1>1, <1>2, <1>3
<1> QED BY <1>1, <1>4, SameLength

LEMMA RegisterConfigType ==
  ASSUME DOMAIN registry \in SUBSET Hashes,
         \A h \in DOMAIN registry : registry[h] \in RunIds,
         NEW h \in Hashes, NEW r \in RunIds, RegisterConfig(h, r)
  PROVE  /\ DOMAIN registry' = DOMAIN registry \cup {h}
         /\ \A g \in DOMAIN registry' : registry'[g] \in RunIds
BY DEF RegisterConfig

LEMMA RecordChecksType ==
  ASSUME checks \in Seq(CheckRow), NEW r \in RunIds,
         NEW s \in {"PASSED", "FAILED", "SKIPPED"}, RecordChecks(r, s)
  PROVE  checks' \in Seq(CheckRow)
BY DEF RecordChecks, CheckRow

----------------------------------------------------------------------------
(* Type correctness.                                                       *)

LEMMA TypeInit == Init => TypeOK /\ RunInv
<1> SUFFICES ASSUME Init PROVE TypeOK /\ RunInv
  OBVIOUS
<1>1. SourceTypeOK
  BY NoRowType DEF Init, SourceInit, SourceTypeOK
<1>2. StoreTypeOK
  BY DEF Init, StoreInit, StoreTypeOK
<1>3. LocalsTypeOK
  BY DEF Init, LocalsTypeOK, NoWindow, None, Null
<1>4. TableTypeOK
  BY DEF Init, TableTypeOK
<1>5. DriverTypeOK
  BY AppendAssumption DEF Init, DriverTypeOK, PC
<1>6. HistoryTypeOK /\ faults \in 0..MaxFaults
  BY AppendAssumption DEF Init, HistoryTypeOK
<1>7. RunInv
  BY DEF Init, RunInv
<1> QED BY <1>1, <1>2, <1>3, <1>4, <1>5, <1>6, <1>7 DEF Init, TypeOK

LEMMA ForgetType ==
  ASSUME LocalsTypeOK, NEW d \in Drivers, ForgetLocals(d), spec' = spec
  PROVE  LocalsTypeOK'
BY DEF ForgetLocals, LocalsTypeOK, NoWindow, None, Null

LEMMA KeepType ==
  ASSUME LocalsTypeOK, UNCHANGED localVars, spec' = spec
  PROVE  LocalsTypeOK'
BY DEF localVars, LocalsTypeOK

LEMMA FaultType ==
  ASSUME faults \in 0..MaxFaults, Fault
  PROVE  faults' \in 0..MaxFaults
BY AppendAssumption DEF Fault

\* Moving along within a run keeps the driver's variables in their types.
LEMMA MoveType ==
  ASSUME DriverTypeOK, RunInv, NEW d \in Drivers, NEW to \in PC \ {"idle"},
         pc[d] # "idle", pc' = [pc EXCEPT ![d] = to], UNCHANGED <<run, attempt>>
  PROVE  DriverTypeOK' /\ RunInv'
BY DEF DriverTypeOK, RunInv, PC

LEMMA LeaveType ==
  ASSUME DriverTypeOK, RunInv, NEW d \in Drivers, Leave(d)
  PROVE  DriverTypeOK' /\ RunInv'
BY AppendAssumption DEF Leave, DriverTypeOK, RunInv, PC

\* Every action of a driver keeps every variable in its type.
LEMMA TypeDriver ==
  ASSUME TypeOK, RunInv, NEW d \in Drivers, Progress(d) \/ Disturb(d)
  PROVE  TypeOK' /\ RunInv'
<1> DEFINE Good == TypeOK' /\ RunInv'
<1> SUFFICES Good
  OBVIOUS
<1>1. ASSUME UNCHANGED <<sourceVars, spec>>, StoreTypeOK', TableTypeOK',
             LocalsTypeOK', DriverTypeOK', RunInv', HistoryTypeOK',
             faults' \in 0..MaxFaults
      PROVE  Good
  BY <1>1 DEF TypeOK, SourceTypeOK, sourceVars
<1>2. UNCHANGED storeVars => StoreTypeOK'
  BY DEF TypeOK, StoreTypeOK, storeVars
<1>3. UNCHANGED tableVars => TableTypeOK'
  BY DEF TypeOK, TableTypeOK, tableVars
<1>4. UNCHANGED historyVars => HistoryTypeOK'
  BY DEF TypeOK, HistoryTypeOK, historyVars
<1>5. UNCHANGED <<localVars, spec>> => LocalsTypeOK'
  BY KeepType DEF TypeOK
<1>6. ForgetLocals(d) /\ spec' = spec => LocalsTypeOK'
  BY ForgetType DEF TypeOK
<1>7. Fault \/ UNCHANGED faults => faults' \in 0..MaxFaults
  BY FaultType DEF TypeOK
<1>8. ASSUME NEW to \in PC \ {"idle"}, pc[d] # "idle",
             pc' = [pc EXCEPT ![d] = to], UNCHANGED <<run, attempt>>
      PROVE  DriverTypeOK' /\ RunInv'
  BY <1>8, MoveType DEF TypeOK
<1>9. pc[d] # "idle" => /\ run[d] \in RunIds
                        /\ attempt[d] \in Nat
                        /\ d \in Hashes
  BY AppendAssumption DEF RunInv, TypeOK, DriverTypeOK
<1> HIDE DEF Good
<1>10. ASSUME NEW r \in RunIds, BeginRun(d, r) PROVE Good
  <2>1. StoreTypeOK'
    BY <1>10, StartRunType DEF BeginRun, TypeOK, StoreTypeOK
  <2>2. DriverTypeOK' /\ RunInv'
    BY <1>10, AppendAssumption DEF BeginRun, Goto, TypeOK, DriverTypeOK, RunInv, PC
  <2>3. HistoryTypeOK'
    BY <1>10, AppendAssumption DEF BeginRun, TypeOK, HistoryTypeOK
  <2> QED BY <1>1, <1>3, <1>5, <1>7, <1>10, <2>1, <2>2, <2>3 DEF BeginRun
<1>11. CASE BeginTask(d)
  <2>1. StoreTypeOK'
    BY <1>9, <1>11, StartTaskType, RegisterConfigType
    DEF BeginTask, Goto, HashOf, TypeOK, StoreTypeOK
  <2>2. DriverTypeOK' /\ RunInv'
    BY <1>8, <1>11 DEF BeginTask, Goto, PC, TryBlock
  <2> QED BY <1>1, <1>3, <1>4, <1>5, <1>7, <1>11, <2>1, <2>2 DEF BeginTask
<1>12. CASE EscapeStart(d)
  <2>1. registry' = registry \/ RegisterConfig(d, run[d])
    BY <1>12 DEF EscapeStart, HashOf
  <2>2. tasks' = tasks \/ StartTask(run[d], attempt[d], d)
    BY <1>12 DEF EscapeStart, HashOf
  <2>3. StoreTypeOK'
    BY <1>9, <1>12, <2>1, <2>2, StartTaskType, RegisterConfigType
    DEF EscapeStart, Goto, TypeOK, StoreTypeOK
  <2>4. DriverTypeOK' /\ RunInv'
    BY <1>8, <1>12 DEF EscapeStart, Goto, PC
  <2> QED BY <1>1, <1>3, <1>4, <1>5, <1>7, <1>12, <2>3, <2>4 DEF EscapeStart
<1>13. CASE Window(d)
  <2>1. ComputeWindow(mark) \in Int
    BY WatermarkAssumption DEF ComputeWindow, None, TypeOK, TableTypeOK
  <2>2. LocalsTypeOK'
    BY <1>13, <2>1 DEF Window, TypeOK, LocalsTypeOK
  <2>3. DriverTypeOK' /\ RunInv'
    BY <1>8, <1>13 DEF Window, Goto, PC, TryBlock
  <2> QED BY <1>1, <1>2, <1>3, <1>4, <1>7, <1>13, <2>2, <2>3 DEF Window
<1>14. CASE ProbeUpperBound(d)
  <2>1. LocalsTypeOK'
    BY <1>14 DEF ProbeUpperBound, Cut, None, TypeOK, LocalsTypeOK, SourceTypeOK
  <2>2. DriverTypeOK' /\ RunInv'
    BY <1>8, <1>14 DEF ProbeUpperBound, Goto, PC, TryBlock
  <2> QED BY <1>1, <1>2, <1>3, <1>4, <1>7, <1>14, <2>1, <2>2
          DEF ProbeUpperBound
<1>15. CASE CountSource(d)
  <2>1. Cardinality(Result(d)) \in Nat
    BY KeyCount DEF Result
  <2>2. /\ {{k} : k \in Keys} \in SUBSET SUBSET Keys
        /\ {Keys} \in SUBSET SUBSET Keys
    OBVIOUS
  <2>3. LocalsTypeOK'
    BY <1>15, <2>1, <2>2 DEF CountSource, TypeOK, LocalsTypeOK, Null
  <2>4. DriverTypeOK' /\ RunInv'
    BY <1>8, <1>15 DEF CountSource, Goto, PC, TryBlock
  <2> QED BY <1>1, <1>2, <1>3, <1>4, <1>7, <1>15, <2>3, <2>4
          DEF CountSource
<1>16. CASE ProbeMaxWatermark(d)
  <2>1. LocalsTypeOK'
    BY <1>16 DEF ProbeMaxWatermark, Result, TypeOK, LocalsTypeOK,
                 SourceTypeOK, Row
  <2>2. DriverTypeOK' /\ RunInv'
    BY <1>8, <1>16 DEF ProbeMaxWatermark, Goto, PC, TryBlock
  <2> QED BY <1>1, <1>2, <1>3, <1>4, <1>7, <1>16, <2>1, <2>2
          DEF ProbeMaxWatermark
<1>17. ASSUME NEW p \in unread[d], ReadPartition(d, p) PROVE Good
  <2>1. LocalsTypeOK'
    BY <1>17 DEF ReadPartition, Result, TypeOK, LocalsTypeOK
  <2>2. DriverTypeOK' /\ RunInv'
    BY <1>8, <1>17 DEF ReadPartition, PC, TryBlock
  <2> QED BY <1>1, <1>2, <1>3, <1>4, <1>7, <1>17, <2>1, <2>2
          DEF ReadPartition
<1>18. CASE WriteDf(d)
  <2>1. Cardinality(batch[d]) \in Nat
    BY KeyCount DEF TypeOK, LocalsTypeOK
  <2>2. TableTypeOK'
    BY <1>18, <2>1 DEF WriteDf, TypeOK, TableTypeOK
  <2>3. LocalsTypeOK'
    BY <1>18 DEF WriteDf, TypeOK, LocalsTypeOK
  <2>4. DriverTypeOK' /\ RunInv'
    BY <1>8, <1>18 DEF WriteDf, Goto, PC, TryBlock
  <2> QED BY <1>1, <1>2, <1>4, <1>7, <1>18, <2>2, <2>3, <2>4 DEF WriteDf
<1>19. CASE Reconcile(d)
  <2>1. PICK rows \in {lastWrite, Null} :
          /\ IF rows = Null THEN Fault ELSE UNCHANGED faults
          /\ IF spec.reconciled THEN RecordChecks(run[d], RowCount(rows, count[d]))
                                ELSE UNCHANGED checks
          /\ IF Passes(rows, count[d])
               THEN /\ pc' = [pc EXCEPT ![d] = "advance"]
                    /\ written' = [written EXCEPT ![d] = rows]
                    /\ UNCHANGED <<window, newMark, count, unread, batch>>
               ELSE /\ pc' = [pc EXCEPT ![d] = "failing"]
                    /\ ForgetLocals(d)
    BY <1>19 DEF Reconcile
  <2>2. checks' \in Seq(CheckRow)
    BY <1>9, <1>19, <2>1, RecordChecksType
    DEF Reconcile, RowCount, TypeOK, StoreTypeOK
  <2>3. StoreTypeOK'
    BY <1>19, <2>2 DEF Reconcile, TypeOK, StoreTypeOK
  <2>4. LocalsTypeOK'
    <3>1. CASE Passes(rows, count[d])
      BY <1>19, <2>1, <3>1 DEF Reconcile, TypeOK, LocalsTypeOK, TableTypeOK
    <3>2. CASE ~Passes(rows, count[d])
      BY <1>6, <1>19, <2>1, <3>2 DEF Reconcile
    <3> QED BY <3>1, <3>2
  <2>5. DriverTypeOK' /\ RunInv'
    BY <1>8, <1>19, <2>1 DEF Reconcile, PC, TryBlock
  <2> QED BY <1>1, <1>3, <1>4, <1>7, <1>19, <2>1, <2>3, <2>4, <2>5
          DEF Reconcile
<1>20. CASE AdvanceWatermark(d)
  <2>1. TableTypeOK' /\ HistoryTypeOK'
    BY <1>9, <1>20
    DEF AdvanceWatermark, Goto, TypeOK, TableTypeOK, HistoryTypeOK, LocalsTypeOK
  <2>2. DriverTypeOK' /\ RunInv'
    BY <1>8, <1>20 DEF AdvanceWatermark, Goto, PC, TryBlock
  <2> QED BY <1>1, <1>2, <1>5, <1>7, <1>20, <2>1, <2>2 DEF AdvanceWatermark
<1>21. CASE Succeed(d)
  <2>1. [from |-> window[d].lower, to |-> newMark[d],
         count |-> count[d], written |-> written[d]] \in Metrics
    BY DEF Metrics, TypeOK, LocalsTypeOK, None, Null
  <2>2. tasks' \in Seq(TaskRow)
    BY <1>9, <1>21, <2>1, FinishTaskType
    DEF Succeed, Goto, Terminal, TypeOK, StoreTypeOK
  <2>3. StoreTypeOK'
    BY <1>21, <2>2 DEF Succeed, TypeOK, StoreTypeOK
  <2>4. HistoryTypeOK'
    BY <1>9, <1>21 DEF Succeed, Goto, TypeOK, HistoryTypeOK
  <2>5. DriverTypeOK' /\ RunInv'
    BY <1>8, <1>21 DEF Succeed, Goto, PC, TryBlock
  <2> QED BY <1>1, <1>3, <1>6, <1>7, <1>21, <2>3, <2>4, <2>5 DEF Succeed
<1>22. NoMetrics \in Metrics
  BY DEF NoMetrics, Metrics, Null
<1>23. CASE RecordFailure(d)
  <2>1. tasks' = tasks \/ FinishTask(run[d], attempt[d], "FAILED", NoMetrics)
    BY <1>23 DEF RecordFailure, FinishFailed
  <2>2. tasks' \in Seq(TaskRow)
    BY <1>9, <1>22, <1>23, <2>1, FinishTaskType
    DEF RecordFailure, Terminal, TypeOK, StoreTypeOK
  <2>3. StoreTypeOK'
    BY <1>23, <2>2 DEF RecordFailure, TypeOK, StoreTypeOK
  <2>4. faults' \in 0..MaxFaults
    BY <1>7, <1>23 DEF RecordFailure, FinishFailed
  <2>5. DriverTypeOK' /\ RunInv'
    BY <1>23, AppendAssumption
    DEF RecordFailure, HasRetry, TypeOK, DriverTypeOK, RunInv, PC
  <2> QED BY <1>1, <1>3, <1>4, <1>5, <1>23, <2>3, <2>4, <2>5
          DEF RecordFailure
<1>24. CASE EscapeFail(d)
  <2>1. tasks' \in Seq(TaskRow)
    BY <1>9, <1>22, <1>24, FinishTaskType
    DEF EscapeFail, Goto, Terminal, TypeOK, StoreTypeOK
  <2>2. StoreTypeOK'
    BY <1>24, <2>1 DEF EscapeFail, TypeOK, StoreTypeOK
  <2>3. DriverTypeOK' /\ RunInv'
    BY <1>8, <1>24 DEF EscapeFail, Goto, PC
  <2> QED BY <1>1, <1>3, <1>4, <1>5, <1>7, <1>24, <2>2, <2>3 DEF EscapeFail
<1>25. CASE EndRun(d)
  <2>1. DeriveRunStatus({Outcome(d)}) \in {"RUNNING", "SUCCEEDED", "FAILED",
                                           "PARTIAL"}
    BY DEF DeriveRunStatus
  <2>2. runs' \in Seq(RunRow)
    BY <1>9, <1>25, <2>1, FinishRunType DEF EndRun, TypeOK, StoreTypeOK
  <2>3. StoreTypeOK'
    BY <1>25, <2>2 DEF EndRun, TypeOK, StoreTypeOK
  <2>4. DriverTypeOK' /\ RunInv'
    BY <1>25, LeaveType DEF EndRun, TypeOK
  <2>5. faults' \in 0..MaxFaults
    BY <1>7, <1>25 DEF EndRun
  <2> QED BY <1>1, <1>3, <1>4, <1>5, <1>25, <2>3, <2>4, <2>5 DEF EndRun
<1>26. CASE Error(d)
  <2>1. DriverTypeOK' /\ RunInv'
    BY <1>8, <1>26 DEF Error, PC, TryBlock
  <2> QED BY <1>1, <1>2, <1>3, <1>4, <1>6, <1>7, <1>26, <2>1 DEF Error
<1>27. CASE Crash(d)
  <2>1. DriverTypeOK' /\ RunInv'
    BY <1>27, LeaveType DEF Crash, TypeOK
  <2> QED BY <1>1, <1>2, <1>3, <1>4, <1>6, <1>7, <1>27, <2>1 DEF Crash
<1> QED
  BY <1>10, <1>11, <1>12, <1>13, <1>14, <1>15, <1>16, <1>17, <1>18, <1>19,
     <1>20, <1>21, <1>23, <1>24, <1>25, <1>26, <1>27
  DEF Good, Progress, Disturb, Extract, Load

LEMMA TypeStep == TypeOK /\ RunInv /\ [Next]_vars => TypeOK' /\ RunInv'
<1> SUFFICES ASSUME TypeOK, RunInv, [Next]_vars PROVE TypeOK' /\ RunInv'
  OBVIOUS
<1>1. ASSUME SourceTypeOK',
             UNCHANGED <<storeVars, spec, tableVars, localVars, driverVars,
                         historyVars, faults>>
      PROVE  TypeOK' /\ RunInv'
  BY <1>1 DEF TypeOK, RunInv, StoreTypeOK, TableTypeOK, LocalsTypeOK,
              DriverTypeOK, HistoryTypeOK, storeVars, tableVars, localVars,
              driverVars, historyVars
<1>2. CASE Environment
  <2>1. CASE Tick
    BY <1>1, <1>2, <2>1 DEF Environment, Tick, TypeOK, SourceTypeOK
  <2>2. ASSUME NEW k \in Keys, Insert(k) PROVE TypeOK' /\ RunInv'
    <3>1. SourceTypeOK'
      BY <2>2 DEF Insert, TypeOK, SourceTypeOK, Row
    <3> QED BY <1>1, <1>2, <3>1 DEF Environment
  <2> QED BY <1>2, <2>1, <2>2 DEF Environment
<1>3. CASE UNCHANGED vars
  BY <1>1, <1>3 DEF vars, sourceVars, SourceTypeOK, TypeOK
<1> QED BY <1>2, <1>3, TypeDriver DEF Next

\* Every variable of the runner keeps its type in every behaviour; no attempt
\* number exceeds retries + 1, and every row of the control tables is of its
\* table's type, with the id of a run.
THEOREM TypeCorrect == Spec => []TypeOK
BY TypeInit, TypeStep, PTL DEF Spec

----------------------------------------------------------------------------
(* What a step can touch.                                                  *)

\* Driver e keeps its place and its locals.
Same(e) == /\ pc'[e] = pc[e]
           /\ window'[e] = window[e]
           /\ newMark'[e] = newMark[e]
           /\ count'[e] = count[e]
           /\ unread'[e] = unread[e]
           /\ batch'[e] = batch[e]
           /\ written'[e] = written[e]

\* The driver's row count check has passed: it found as many rows as were
\* counted, or no metrics; or there is no check.
Checked(d) == /\ pc[d] = "reconcile"
              /\ pc'[d] = "advance"
              /\ window'[d] = window[d]
              /\ newMark'[d] = newMark[d]
              /\ count'[d] = count[d]
              /\ batch'[d] = batch[d]
              /\ spec.reconciled => written'[d] \in {Null, count[d]}

\* The driver is before its window, or its attempt is over.
Outside(d) == /\ pc'[d] \notin Probed \cup {"probe"}
              /\ \/ batch'[d] = {}
                 \/ pc[d] \notin {"read", "write"} /\ batch' = batch
              /\ \/ newMark'[d] = None /\ window'[d] = NoWindow
                 \/ newMark'[d] = newMark[d] /\ window'[d] = window[d]

\* The steps by which a driver works on its window; every other step leaves
\* it outside.
LEMMA StepCases ==
  ASSUME TypeOK, NEW d \in Drivers, Progress(d) \/ Disturb(d)
  PROVE  \/ Window(d) \/ ProbeUpperBound(d) \/ CountSource(d)
         \/ ProbeMaxWatermark(d) \/ WriteDf(d)
         \/ \E p \in unread[d] : ReadPartition(d, p)
         \/ Checked(d) \/ AdvanceWatermark(d) \/ Outside(d)
<1>1. ASSUME ForgetLocals(d), NEW x,
             pc' = [pc EXCEPT ![d] = x], x \notin Probed \cup {"probe"}
      PROVE  Outside(d)
  <2>1. batch'[d] = {} /\ newMark'[d] = None /\ window'[d] = NoWindow
    BY <1>1 DEF ForgetLocals, TypeOK, LocalsTypeOK
  <2>2. pc'[d] = x
    BY <1>1 DEF TypeOK, DriverTypeOK
  <2> QED BY <1>1, <2>1, <2>2 DEF Outside
<1>2. ASSUME UNCHANGED localVars, pc[d] \notin {"read", "write"}, NEW x,
             pc' = [pc EXCEPT ![d] = x], x \notin Probed \cup {"probe"}
      PROVE  Outside(d)
  BY <1>2 DEF Outside, localVars, TypeOK, DriverTypeOK
<1> USE DEF TypeOK, DriverTypeOK, LocalsTypeOK, Probed
<1>3. CASE Reconcile(d)
  <2>1. PICK rows \in {lastWrite, Null} :
          IF Passes(rows, count[d])
            THEN /\ pc' = [pc EXCEPT ![d] = "advance"]
                 /\ written' = [written EXCEPT ![d] = rows]
                 /\ UNCHANGED <<window, newMark, count, unread, batch>>
            ELSE /\ pc' = [pc EXCEPT ![d] = "failing"]
                 /\ ForgetLocals(d)
    BY <1>3 DEF Reconcile
  <2>2. CASE Passes(rows, count[d])
    <3>1. spec.reconciled => rows \in {Null, count[d]}
      BY <2>2 DEF Passes, RowCount, Null
    <3> QED BY <1>3, <2>1, <2>2, <3>1 DEF Reconcile, Checked
  <2>3. CASE ~Passes(rows, count[d])
    BY <1>1, <2>1, <2>3
  <2> QED BY <2>2, <2>3
<1>4. ASSUME NEW r \in RunIds, BeginRun(d, r) PROVE Outside(d)
  BY <1>2, <1>4 DEF BeginRun, Goto
<1>5. CASE BeginTask(d)
  BY <1>2, <1>5 DEF BeginTask, Goto
<1>6. CASE Succeed(d)
  BY <1>1, <1>6 DEF Succeed, Goto
<1>7. CASE RecordFailure(d)
  <2>1. PICK x \in {"start", "close"} : pc' = [pc EXCEPT ![d] = x]
    BY <1>7 DEF RecordFailure
  <2> QED BY <1>2, <1>7, <2>1 DEF RecordFailure
<1>8. CASE EndRun(d)
  BY <1>2, <1>8 DEF EndRun, Leave
<1>9. CASE EscapeStart(d)
  BY <1>2, <1>9 DEF EscapeStart, Goto
<1>10. CASE Error(d)
  BY <1>1, <1>10 DEF Error
<1>11. CASE EscapeFail(d)
  BY <1>2, <1>11 DEF EscapeFail, Goto
<1>12. CASE Crash(d)
  BY <1>1, <1>12 DEF Crash, Leave
<1> QED BY <1>3, <1>4, <1>5, <1>6, <1>7, <1>8, <1>9, <1>10, <1>11, <1>12
        DEF Progress, Disturb, Extract, Load

\* A step of driver d leaves the source, the table's specification and the
\* other drivers alone; only its write changes the target, and only its
\* advance the mark.
LEMMA Frame ==
  ASSUME TypeOK, NEW d \in Drivers, Progress(d) \/ Disturb(d)
  PROVE  /\ UNCHANGED <<sourceVars, spec>>
         /\ target' = target \/ WriteDf(d)
         /\ mark' = mark \/ AdvanceWatermark(d)
         /\ \A e \in Drivers \ {d} : Same(e)
<1> DEFINE Others == \A e \in Drivers \ {d} : Same(e)
           Shared == /\ UNCHANGED <<sourceVars, spec>>
                     /\ target' = target \/ WriteDf(d)
                     /\ mark' = mark \/ AdvanceWatermark(d)
<1> SUFFICES Shared /\ Others
  OBVIOUS
<1>1. ASSUME NEW x, pc' = [pc EXCEPT ![d] = x],
             UNCHANGED localVars \/ ForgetLocals(d)
      PROVE  Others
  BY <1>1 DEF localVars, ForgetLocals, Same, TypeOK, LocalsTypeOK, DriverTypeOK
<1>2. UNCHANGED <<sourceVars, spec, tableVars>> => Shared
  BY DEF tableVars
<1> HIDE DEF Others, Shared
<1> USE DEF Goto
<1>3. ASSUME NEW r \in RunIds, BeginRun(d, r) PROVE Shared /\ Others
  BY <1>1, <1>2, <1>3 DEF BeginRun
<1>4. CASE BeginTask(d)
  BY <1>1, <1>2, <1>4 DEF BeginTask
<1>5. CASE Window(d)
  BY <1>2, <1>5 DEF Window, Others, Same, TypeOK, LocalsTypeOK, DriverTypeOK
<1>6. CASE ProbeUpperBound(d)
  BY <1>2, <1>6
  DEF ProbeUpperBound, Others, Same, TypeOK, LocalsTypeOK, DriverTypeOK
<1>7. CASE CountSource(d)
  BY <1>2, <1>7
  DEF CountSource, Others, Same, TypeOK, LocalsTypeOK, DriverTypeOK
<1>8. CASE ProbeMaxWatermark(d)
  BY <1>2, <1>8
  DEF ProbeMaxWatermark, Others, Same, TypeOK, LocalsTypeOK, DriverTypeOK
<1>9. ASSUME NEW p \in unread[d], ReadPartition(d, p) PROVE Shared /\ Others
  BY <1>2, <1>9
  DEF ReadPartition, Others, Same, TypeOK, LocalsTypeOK, DriverTypeOK
<1>10. CASE WriteDf(d)
  <2>1. Shared
    BY <1>10 DEF WriteDf, Shared
  <2>2. Others
    BY <1>10 DEF WriteDf, Others, Same, TypeOK, LocalsTypeOK, DriverTypeOK
  <2> QED BY <2>1, <2>2
<1>11. CASE Reconcile(d)
  <2>1. Shared
    BY <1>2, <1>11 DEF Reconcile
  <2>2. PICK rows \in {lastWrite, Null} :
          IF Passes(rows, count[d])
            THEN /\ pc' = [pc EXCEPT ![d] = "advance"]
                 /\ written' = [written EXCEPT ![d] = rows]
                 /\ UNCHANGED <<window, newMark, count, unread, batch>>
            ELSE /\ pc' = [pc EXCEPT ![d] = "failing"]
                 /\ ForgetLocals(d)
    BY <1>11 DEF Reconcile
  <2>3. CASE Passes(rows, count[d])
    BY <2>1, <2>2, <2>3 DEF Others, Same, TypeOK, LocalsTypeOK, DriverTypeOK
  <2>4. CASE ~Passes(rows, count[d])
    BY <1>1, <2>1, <2>2, <2>4
  <2> QED BY <2>3, <2>4
<1>12. CASE AdvanceWatermark(d)
  <2>1. Shared
    BY <1>12 DEF AdvanceWatermark, Shared
  <2> QED BY <1>1, <1>12, <2>1 DEF AdvanceWatermark
<1>13. CASE Succeed(d)
  BY <1>1, <1>2, <1>13 DEF Succeed
<1>14. CASE RecordFailure(d)
  BY <1>1, <1>2, <1>14 DEF RecordFailure
<1>15. CASE EndRun(d)
  BY <1>1, <1>2, <1>15 DEF EndRun, Leave
<1>16. CASE EscapeStart(d)
  BY <1>1, <1>2, <1>16 DEF EscapeStart
<1>17. CASE Error(d)
  BY <1>1, <1>2, <1>17 DEF Error
<1>18. CASE EscapeFail(d)
  BY <1>1, <1>2, <1>18 DEF EscapeFail
<1>19. CASE Crash(d)
  BY <1>1, <1>2, <1>19 DEF Crash, Leave
<1> QED BY <1>3, <1>4, <1>5, <1>6, <1>7, <1>8, <1>9, <1>10, <1>11, <1>12,
           <1>13, <1>14, <1>15, <1>16, <1>17, <1>18, <1>19
        DEF Progress, Disturb, Extract, Load

\* A step of the source, or none, leaves every driver alone.
LEMMA QuietStep ==
  ASSUME TypeOK, [Next]_vars
  PROVE  \/ \E d \in Drivers : Progress(d) \/ Disturb(d)
         \/ /\ UNCHANGED <<spec, target, mark>>
            /\ \A e \in Drivers : Same(e)
            /\ \/ UNCHANGED <<source, clock>>
               \/ Tick
               \/ \E k \in Keys : Insert(k)
BY DEF Next, Environment, vars, tableVars, localVars, driverVars, sourceVars,
       Same

----------------------------------------------------------------------------
(* The inductive invariant.                                                *)

\* Incremental tables of this module are append targets, and only they pin.
LEMMA SpecFacts ==
  ASSUME TypeOK
  PROVE  /\ Incremental => spec.write_mode = "append"
         /\ spec.pinned => Incremental
         /\ spec.pinned \in BOOLEAN
<1> DEFINE s1 == [mode |-> "incremental", write_mode |-> "append",
                  pinned |-> TRUE, parallel |-> TRUE, reconciled |-> TRUE]
           s2 == [mode |-> "incremental", write_mode |-> "append",
                  pinned |-> TRUE, parallel |-> TRUE, reconciled |-> FALSE]
           s3 == [mode |-> "incremental", write_mode |-> "append",
                  pinned |-> FALSE, parallel |-> FALSE, reconciled |-> TRUE]
           s4 == [mode |-> "full", write_mode |-> "overwrite",
                  pinned |-> FALSE, parallel |-> FALSE, reconciled |-> TRUE]
<1>1. spec = s1 \/ spec = s2 \/ spec = s3 \/ spec = s4
  BY DEF TypeOK, Specs
<1>2. CASE spec = s1
  BY <1>2 DEF Incremental
<1>3. CASE spec = s2
  BY <1>3 DEF Incremental
<1>4. CASE spec = s3
  BY <1>4 DEF Incremental
<1>5. CASE spec = s4
  BY <1>5 DEF Incremental
<1> QED BY <1>1, <1>2, <1>3, <1>4, <1>5

\* The marks a driver holds come from the clock or from a stamp, and the
\* stored mark from a driver.
LEMMA ClockStep ==
  ASSUME TypeOK, TypeOK', ClockInv, [Next]_vars
  PROVE  ClockInv'
<1> USE DEF ClockInv, TypeOK, SourceTypeOK, Row
<1>1. ASSUME NEW d \in Drivers, Progress(d) \/ Disturb(d) PROVE ClockInv'
  <2>1. /\ UNCHANGED <<clock, source>>
        /\ \A e \in Drivers \ {d} : /\ newMark'[e] = newMark[e]
                                    /\ window'[e] = window[e]
        /\ mark' = mark \/ AdvanceWatermark(d)
    BY <1>1, Frame DEF sourceVars, Same
  <2>2. mark' <= clock
    BY <2>1 DEF AdvanceWatermark
  <2>3. ASSUME newMark'[d] <= clock, window'[d].upper <= clock PROVE ClockInv'
    BY <2>1, <2>2, <2>3
  <2>4. CASE Window(d)
    BY <2>3, <2>4 DEF Window, LocalsTypeOK
  <2>5. CASE ProbeUpperBound(d)
    BY <2>3, <2>5 DEF ProbeUpperBound, LocalsTypeOK, Cut, None
  <2>6. CASE ProbeMaxWatermark(d)
    BY <2>3, <2>6 DEF ProbeMaxWatermark, LocalsTypeOK, Result
  <2>7. CASE CountSource(d) \/ WriteDf(d) \/ AdvanceWatermark(d)
             \/ \E p \in unread[d] : ReadPartition(d, p)
    BY <2>3, <2>7
    DEF CountSource, WriteDf, AdvanceWatermark, ReadPartition, localVars
  <2>8. CASE Checked(d)
    BY <2>3, <2>8 DEF Checked
  <2>9. CASE Outside(d)
    BY <2>3, <2>9 DEF Outside, NoWindow, None
  <2> QED BY <1>1, <2>4, <2>5, <2>6, <2>7, <2>8, <2>9, StepCases
<1>2. ASSUME UNCHANGED mark, \A e \in Drivers : Same(e),
             \/ UNCHANGED <<source, clock>>
             \/ Tick
             \/ \E k \in Keys : Insert(k)
      PROVE  ClockInv'
  <2>1. /\ clock' \in {clock, clock + 1}
        /\ \A k \in Keys : source'[k].wm \in {source[k].wm, clock}
    BY <1>2 DEF Tick, Insert
  <2>2. \A e \in Drivers : newMark'[e] = newMark[e] /\ window'[e] = window[e]
    BY <1>2 DEF Same
  <2>3. clock \in Nat /\ clock >= 1 /\ mark \in Int /\ mark <= clock
    BY DEF TableTypeOK, None
  <2>4. clock' >= clock /\ clock' \in Nat
    BY <2>1, <2>3
  <2>5. \A e \in Drivers : /\ newMark[e] \in Int /\ newMark[e] <= clock
                            /\ window[e].upper \in Int /\ window[e].upper <= clock
    BY DEF LocalsTypeOK, None
  <2>6. \A e \in Drivers : newMark'[e] <= clock' /\ window'[e].upper <= clock'
    BY <2>2, <2>3, <2>4, <2>5
  <2>7. \A k \in Keys : source'[k].wm <= clock'
    BY <2>1, <2>3, <2>4
  <2> QED BY <1>2, <2>3, <2>4, <2>6, <2>7
<1> QED BY <1>1, <1>2, QuietStep

\* From the probe on, the cut-off and the new mark stay what they are.
LEMMA CutStep ==
  ASSUME TypeOK, TypeOK', ClockInv, [Next]_vars, NEW e \in Drivers, CutInv(e)
  PROVE  CutInv(e)'
<1> USE DEF CutInv, Probed
<1>1. spec' = spec
  BY Frame, QuietStep
<1>2. ASSUME Same(e) PROVE CutInv(e)'
  BY <1>1, <1>2 DEF Same
<1>3. ASSUME Progress(e) \/ Disturb(e) PROVE CutInv(e)'
  <2> USE DEF TypeOK, LocalsTypeOK, DriverTypeOK, Goto
  <2>1. CASE Window(e)
    BY <2>1 DEF Window
  <2>2. CASE ProbeUpperBound(e)
    <3>1. /\ window'[e].upper = IF Incremental /\ spec.pinned THEN clock ELSE None
          /\ newMark'[e] = window'[e].upper
          /\ pc'[e] = "count"
      BY <2>2 DEF ProbeUpperBound, Cut
    <3>2. clock # None
      BY DEF ClockInv, SourceTypeOK, None
    <3> QED BY <1>1, <3>1, <3>2, SpecFacts
  <2>3. CASE CountSource(e) \/ WriteDf(e) \/ AdvanceWatermark(e)
             \/ \E p \in unread[e] : ReadPartition(e, p)
    <3>1. /\ window'[e] = window[e] /\ newMark'[e] = newMark[e]
          /\ pc[e] \in Probed /\ pc'[e] \in Probed
      BY <2>3
      DEF CountSource, WriteDf, AdvanceWatermark, ReadPartition, localVars
    <3>2. pc'[e] = "max" => ~spec.pinned
      BY <2>3, SpecFacts
      DEF CountSource, WriteDf, AdvanceWatermark, ReadPartition
    <3> QED BY <1>1, <3>1, <3>2
  <2>4. CASE ProbeMaxWatermark(e)
    <3>1. /\ pc[e] = "max" /\ pc'[e] = "read"
          /\ window'[e] = window[e]
      BY <2>4 DEF ProbeMaxWatermark
    <3> QED BY <1>1, <3>1
  <2>5. CASE Checked(e)
    BY <1>1, <2>5 DEF Checked
  <2>6. CASE Outside(e)
    BY <2>6 DEF Outside
  <2> QED BY <1>3, <2>1, <2>2, <2>3, <2>4, <2>5, <2>6, StepCases
<1> QED BY <1>2, <1>3, Frame, QuietStep

\* The partitions of a read cover its query.
LEMMA PartitionsCover ==
  ASSUME TypeOK, NEW d \in Drivers, CountSource(d)
  PROVE  Keys \subseteq UNION unread'[d]
<1>1. unread'[d] = {{k} : k \in Keys} \/ unread'[d] = {Keys}
  BY DEF CountSource, TypeOK, LocalsTypeOK
<1> QED BY <1>1

\* A batch is held from the first partition read to the write.
LEMMA ReadStep ==
  ASSUME TypeOK, [Next]_vars, NEW e \in Drivers, ReadInv(e)
  PROVE  ReadInv(e)'
<1> USE DEF ReadInv
<1>1. ASSUME Same(e) PROVE ReadInv(e)'
  BY <1>1 DEF Same
<1>2. ASSUME Progress(e) \/ Disturb(e) PROVE ReadInv(e)'
  <2> USE DEF TypeOK, LocalsTypeOK, DriverTypeOK, Goto
  <2>1. CASE Window(e) \/ ProbeUpperBound(e) \/ ProbeMaxWatermark(e)
    BY <2>1 DEF Window, ProbeUpperBound, ProbeMaxWatermark
  <2>2. CASE CountSource(e)
    <3>1. Keys \subseteq UNION unread'[e]
      BY <2>2, PartitionsCover
    <3> QED BY <2>2, <3>1 DEF CountSource
  <2>3. CASE WriteDf(e) \/ AdvanceWatermark(e)
    BY <2>3 DEF WriteDf, AdvanceWatermark, localVars
  <2>4. ASSUME NEW p \in unread[e], ReadPartition(e, p) PROVE ReadInv(e)'
    <3>1. CASE unread[e] = {p}
      BY <2>4, <3>1 DEF ReadPartition
    <3>2. CASE unread[e] # {p}
      BY <2>4, <3>2 DEF ReadPartition
    <3> QED BY <3>1, <3>2
  <2>5. CASE Checked(e)
    BY <2>5 DEF Checked
  <2>6. CASE Outside(e)
    BY <2>6 DEF Outside, Probed
  <2> QED BY <1>2, <2>1, <2>2, <2>3, <2>4, <2>5, <2>6, StepCases
<1> QED BY <1>1, <1>2, Frame, QuietStep

\* An event that appears is stamped now: it is not behind a settled bound.
LEMMA BehindBefore ==
  ASSUME BoundHasNoGap, TypeOK, ClockInv, [Next]_vars,
         NEW b \in Int, Settled(b), NEW k \in Keys, Behind(k, b)'
  PROVE  Behind(k, b)
<1> USE WatermarkAssumption
<1>1. CASE source'[k] = source[k]
  BY <1>1 DEF Behind, AtOrAfter
<1>2. CASE Insert(k)
  <2>1. source'[k].wm = clock /\ clock \in Nat
    BY <1>2 DEF Insert, TypeOK, SourceTypeOK
  <2>2. AtOrAfter(clock, LowerBoundDefault) => AtOrAfter(clock, b)
    BY <2>1 DEF Settled, AtOrAfter, BoundHasNoGap
  <2>3. AtOrAfter(clock, LowerBoundDefault) /\ ~AtOrAfter(clock, b)
    BY <2>1 DEF Behind, AtOrAfter
  <2> QED BY <2>2, <2>3
<1>3. source'[k] = source[k] \/ Insert(k)
  <2>1. ASSUME NEW j \in Keys, Insert(j), j # k PROVE source'[k] = source[k]
    BY <2>1 DEF Insert, TypeOK, SourceTypeOK
  <2> QED BY <2>1, Frame, QuietStep DEF Tick, sourceVars
<1> QED BY <1>1, <1>2, <1>3

\* An append target only grows.
LEMMA TargetGrows ==
  ASSUME TypeOK, Incremental, [Next]_vars, NEW k \in Keys, target[k] >= 1
  PROVE  target'[k] >= 1
<1>1. ASSUME NEW d \in Drivers, WriteDf(d) PROVE target'[k] >= 1
  <2>1. target'[k] = target[k] + (IF k \in batch[d] THEN 1 ELSE 0)
    BY <1>1, SpecFacts DEF WriteDf
  <2> QED BY <2>1 DEF TypeOK, TableTypeOK
<1> QED BY <1>1, Frame, QuietStep

\* A bound behind an instant is behind every later one.
LEMMA LaterInstant ==
  \A b, t, u, lag \in Int : b <= t - lag /\ t <= u => b <= u - lag
OBVIOUS

\* The clock never runs backwards, so a settled bound stays settled.
LEMMA SettledStable ==
  ASSUME TypeOK, [Next]_vars, NEW b \in Int, Settled(b)
  PROVE  Settled(b)'
<1>1. clock' \in {clock, clock + 1}
  BY Frame, QuietStep DEF Tick, Insert, sourceVars
<1>2. clock \in Int /\ Overlap \in Int
  BY WatermarkAssumption DEF TypeOK, SourceTypeOK
<1>3. clock' \in Int /\ clock <= clock'
  BY <1>1, <1>2
<1>4. b <= clock - Overlap => b <= clock' - Overlap
  BY <1>2, <1>3, LaterInstant
<1> QED BY <1>4 DEF Settled

\* What is loaded before a settled bound stays loaded.
LEMMA LoadedStable ==
  ASSUME BoundHasNoGap, TypeOK, ClockInv, Incremental, [Next]_vars,
         NEW b \in Int, Settled(b), LoadedBefore(b)
  PROVE  LoadedBefore(b)'
<1> SUFFICES ASSUME NEW k \in Keys, Behind(k, b)' PROVE target'[k] >= 1
  BY DEF LoadedBefore
<1>1. Behind(k, b)
  BY BehindBefore
<1> QED BY <1>1, TargetGrows DEF LoadedBefore

\* The mark to advance to is a settled bound, once the overlap is taken off.
LEMMA NewMarkSettled ==
  ASSUME TypeOK, ClockInv, NEW d \in Drivers, newMark[d] # None
  PROVE  /\ newMark[d] - Overlap \in Int
         /\ Settled(newMark[d] - Overlap)
<1>1. newMark[d] \in Nat /\ newMark[d] <= clock
  BY DEF TypeOK, LocalsTypeOK, ClockInv
<1>2. clock \in Int /\ Overlap \in Int
  BY WatermarkAssumption DEF TypeOK, SourceTypeOK
<1> QED BY <1>1, <1>2 DEF Settled

LEMMA WindowSettled ==
  ASSUME TypeOK, ClockInv
  PROVE  ComputeWindow(mark) \in Int /\ Settled(ComputeWindow(mark))
BY WatermarkAssumption
DEF ComputeWindow, Settled, None, TypeOK, TableTypeOK, SourceTypeOK, ClockInv

\* The stored mark stays true: it is kept over settled events, or moved to
\* where the advancing driver has loaded everything before.
LEMMA MarkStep ==
  ASSUME BoundHasNoGap, IInv, Incremental, [Next]_vars
  PROVE  LoadedBefore(ComputeWindow(mark))'
<1> USE DEF IInv, WindowInv, LossInv
<1>1. CASE mark' = mark
  <2>1. PICK b \in Int : b = ComputeWindow(mark)
    BY WindowSettled
  <2>2. LoadedBefore(b)'
    BY <2>1, WindowSettled, LoadedStable
  <2>3. b = ComputeWindow(mark')
    BY <1>1, <2>1
  <2> QED BY <2>2, <2>3 DEF LoadedBefore, Behind, ComputeWindow
<1>2. ASSUME NEW d \in Drivers, AdvanceWatermark(d), mark' # mark
      PROVE  LoadedBefore(ComputeWindow(mark))'
  <2>1. /\ mark' = newMark[d]
        /\ newMark[d] # None
        /\ pc[d] = "advance"
        /\ UNCHANGED <<source, target>>
    BY <1>2 DEF AdvanceWatermark, Goto, sourceVars
  <2>2. LoadedBefore(newMark[d] - Overlap)
    BY <2>1 DEF WrittenInv
  <2> QED BY <2>1, <2>2 DEF LoadedBefore, Behind, ComputeWindow, AtOrAfter
<1> QED BY <1>1, <1>2, Frame, QuietStep

\* The lower bound an attempt has computed stays complete from below.
LEMMA LowerStep ==
  ASSUME BoundHasNoGap, IInv, Incremental, [Next]_vars, NEW e \in Drivers
  PROVE  LowerInv(e)'
<1> DEFINE Open == {"probe", "count", "max", "read"}
<1> USE DEF IInv, WindowInv, LossInv
<1>1. ASSUME pc[e] \in Open, window'[e].lower = window[e].lower
      PROVE  LowerInv(e)'
  <2>1. PICK b \in Int : b = window[e].lower
    BY DEF TypeOK, LocalsTypeOK
  <2>2. Settled(b) /\ LoadedBefore(b)
    BY <1>1, <2>1 DEF LowerInv
  <2>3. Settled(b)' /\ LoadedBefore(b)'
    BY <2>2, SettledStable, LoadedStable
  <2> QED BY <1>1, <2>1, <2>3 DEF LowerInv, Settled, LoadedBefore, Behind
<1>2. CASE pc'[e] \notin Open
  BY <1>2 DEF LowerInv
<1>3. ASSUME Same(e) PROVE LowerInv(e)'
  BY <1>1, <1>2, <1>3 DEF Same
<1>4. ASSUME Progress(e) \/ Disturb(e) PROVE LowerInv(e)'
  <2> USE DEF TypeOK, LocalsTypeOK, DriverTypeOK, Goto
  <2>1. CASE Window(e)
    <3>1. /\ window'[e].lower = ComputeWindow(mark)
          /\ UNCHANGED <<source, target, clock>>
      BY <2>1 DEF Window, sourceVars, tableVars
    <3>2. Settled(ComputeWindow(mark)) /\ LoadedBefore(ComputeWindow(mark))
      BY WindowSettled
    <3> QED BY <3>1, <3>2 DEF LowerInv, Settled, LoadedBefore, Behind, AtOrAfter
  <2>2. CASE ProbeUpperBound(e)
    BY <1>1, <2>2 DEF ProbeUpperBound
  <2>3. CASE CountSource(e) \/ ProbeMaxWatermark(e)
             \/ \E p \in unread[e] : ReadPartition(e, p)
    BY <1>1, <2>3 DEF CountSource, ProbeMaxWatermark, ReadPartition
  <2>4. CASE WriteDf(e) \/ AdvanceWatermark(e) \/ Checked(e)
    BY <1>2, <2>4 DEF WriteDf, AdvanceWatermark, Checked
  <2>5. CASE Outside(e)
    BY <1>2, <2>5 DEF Outside, Probed
  <2> QED BY <1>4, <2>1, <2>2, <2>3, <2>4, <2>5, StepCases
<1> QED BY <1>3, <1>4, Frame, QuietStep

\* Until its write commits, the target, the batch and the partitions that are
\* still to be read hold every event that the new mark will leave behind.
LEMMA BatchStep ==
  ASSUME BoundHasNoGap, IInv, Incremental, [Next]_vars, NEW e \in Drivers
  PROVE  BatchInv(e)'
<1> USE DEF IInv, WindowInv, LossInv
<1>1. ASSUME pc[e] \in {"read", "write"}, newMark'[e] = newMark[e],
             batch'[e] = batch[e], unread'[e] = unread[e]
      PROVE  BatchInv(e)'
  <2> SUFFICES ASSUME newMark[e] # None, NEW k \in Keys,
                      Behind(k, newMark[e] - Overlap)'
               PROVE  target'[k] >= 1 \/ k \in batch[e] \/ k \in UNION unread[e]
    BY <1>1 DEF BatchInv, Behind
  <2>1. PICK b \in Int : b = newMark[e] - Overlap
    BY NewMarkSettled
  <2>2. newMark'[e] - Overlap = b /\ Settled(b)
    BY <1>1, <2>1, NewMarkSettled
  <2>3. Behind(k, b)'
    BY <2>2 DEF Behind
  <2>4. Behind(k, b)
    BY <2>2, <2>3, BehindBefore
  <2> QED BY <1>1, <2>1, <2>4, TargetGrows DEF BatchInv
<1>2. CASE pc'[e] \notin {"read", "write"}
  BY <1>2 DEF BatchInv
<1>3. ASSUME Same(e) PROVE BatchInv(e)'
  BY <1>1, <1>2, <1>3 DEF Same
<1>4. ASSUME Progress(e) \/ Disturb(e) PROVE BatchInv(e)'
  <2>1. CASE CountSource(e)
    BY <2>1, PartitionsCover DEF BatchInv
  <2>2. CASE ProbeMaxWatermark(e)
    <3>1. pc[e] = "max" /\ unread' = unread
      BY <2>2 DEF ProbeMaxWatermark, Goto
    <3> QED BY <3>1 DEF BatchInv, ReadInv
  <2>3. ASSUME NEW p \in unread[e], ReadPartition(e, p) PROVE BatchInv(e)'
    <3>1. /\ pc[e] = "read"
          /\ unread'[e] = unread[e] \ {p}
          /\ batch'[e] = batch[e] \cup (p \cap Result(e))
          /\ newMark'[e] = newMark[e]
          /\ UNCHANGED <<source, target>>
      BY <2>3 DEF ReadPartition, TypeOK, LocalsTypeOK, sourceVars, tableVars
    <3> SUFFICES ASSUME newMark[e] # None, NEW k \in Keys,
                        Behind(k, newMark[e] - Overlap)
                 PROVE  \/ target[k] >= 1
                        \/ k \in batch'[e]
                        \/ k \in UNION unread'[e]
      BY <3>1 DEF BatchInv, Behind, AtOrAfter
    <3>2. target[k] >= 1 \/ k \in batch[e] \/ k \in UNION unread[e]
      BY <3>1 DEF BatchInv
    <3>3. CASE k \in p
      <4>1. CASE ~AtOrAfter(source[k].wm, window[e].lower)
        BY <3>1, <4>1 DEF LowerInv, LoadedBefore, Behind
      <4>2. CASE AtOrAfter(source[k].wm, window[e].lower)
        <5>1. /\ newMark[e] \in Nat
              /\ source[k].wm \in Nat
          BY DEF TypeOK, SourceTypeOK, LocalsTypeOK, Row
        <5>2. source[k].wm < newMark[e]
          BY <5>1, WatermarkAssumption DEF Behind, AtOrAfter, BoundHasNoGap
        <5>3. window[e].upper \in {None, newMark[e]}
          BY <3>1 DEF CutInv, Probed
        <5>4. k \in Result(e)
          BY <4>2, <5>2, <5>3 DEF Result, InWindow, BeforeCut, Behind
        <5> QED BY <3>1, <3>3, <5>4
      <4> QED BY <4>1, <4>2
    <3>4. CASE k \notin p
      BY <3>1, <3>2, <3>4
    <3> QED BY <3>3, <3>4
  <2> USE DEF TypeOK, DriverTypeOK, Goto
  <2>4. CASE Window(e) \/ ProbeUpperBound(e) \/ WriteDf(e)
             \/ AdvanceWatermark(e) \/ Checked(e)
    BY <1>2, <2>4
    DEF Window, ProbeUpperBound, WriteDf, AdvanceWatermark, Checked
  <2>5. CASE Outside(e)
    BY <1>2, <2>5 DEF Outside, Probed
  <2> QED BY <1>4, <2>1, <2>2, <2>3, <2>4, <2>5, StepCases
<1> QED BY <1>3, <1>4, Frame, QuietStep

\* Once its write has committed, the new mark leaves nothing behind, whatever
\* the other drivers and the source do.
LEMMA WrittenStep ==
  ASSUME BoundHasNoGap, IInv, Incremental, [Next]_vars, NEW e \in Drivers
  PROVE  WrittenInv(e)'
<1> USE DEF IInv, WindowInv, LossInv
<1>1. ASSUME pc[e] \in {"reconcile", "advance"}, newMark'[e] = newMark[e]
      PROVE  WrittenInv(e)'
  <2> SUFFICES ASSUME newMark[e] # None
               PROVE  LoadedBefore(newMark[e] - Overlap)'
    BY <1>1 DEF WrittenInv, LoadedBefore, Behind
  <2>1. PICK b \in Int : b = newMark[e] - Overlap
    BY NewMarkSettled
  <2>2. newMark'[e] - Overlap = b /\ Settled(b) /\ LoadedBefore(b)
    BY <1>1, <2>1, NewMarkSettled DEF WrittenInv
  <2>3. LoadedBefore(b)'
    BY <2>2, LoadedStable
  <2> QED BY <2>2, <2>3 DEF LoadedBefore, Behind
<1>2. CASE pc'[e] \notin {"reconcile", "advance"}
  BY <1>2 DEF WrittenInv
<1>3. ASSUME Same(e) PROVE WrittenInv(e)'
  BY <1>1, <1>2, <1>3 DEF Same
<1>4. ASSUME Progress(e) \/ Disturb(e) PROVE WrittenInv(e)'
  <2> USE DEF TypeOK, DriverTypeOK, Goto
  <2>1. CASE WriteDf(e)
    <3>1. /\ pc[e] = "write"
          /\ newMark' = newMark
          /\ source' = source
          /\ \A k \in Keys : target'[k] = target[k] + (IF k \in batch[e] THEN 1 ELSE 0)
      BY <2>1, SpecFacts DEF WriteDf, sourceVars
    <3> SUFFICES ASSUME newMark[e] # None, NEW k \in Keys,
                        Behind(k, newMark[e] - Overlap)
                 PROVE  target'[k] >= 1
      BY <3>1 DEF WrittenInv, LoadedBefore, Behind, AtOrAfter
    <3>2. target[k] >= 1 \/ k \in batch[e]
      BY <3>1 DEF BatchInv, ReadInv
    <3> QED BY <3>1, <3>2 DEF TableTypeOK
  <2>2. CASE Checked(e)
    BY <1>1, <2>2 DEF Checked
  <2>3. CASE Window(e) \/ ProbeUpperBound(e) \/ CountSource(e)
             \/ ProbeMaxWatermark(e) \/ AdvanceWatermark(e)
             \/ \E p \in unread[e] : ReadPartition(e, p)
    BY <1>2, <2>3
    DEF Window, ProbeUpperBound, CountSource, ProbeMaxWatermark,
        AdvanceWatermark, ReadPartition
  <2>4. CASE Outside(e)
    BY <1>2, <2>4 DEF Outside, Probed
  <2> QED BY <1>4, <2>1, <2>2, <2>3, <2>4, StepCases
<1> QED BY <1>3, <1>4, Frame, QuietStep

\* A pinned query returns what it returned before: what is stamped now is not
\* before the cut-off.
LEMMA ResultStable ==
  ASSUME TypeOK, ClockInv, [Next]_vars, NEW e \in Drivers, CutInv(e),
         spec.pinned, pc[e] \in Probed, window'[e] = window[e]
  PROVE  Result(e)' = Result(e)
<1>1. /\ window[e].upper # None
      /\ window[e].upper \in Int
      /\ window[e].upper <= clock
      /\ clock \in Nat
  BY DEF CutInv, ClockInv, TypeOK, LocalsTypeOK, SourceTypeOK
<1>2. spec' = spec
  BY Frame, QuietStep
<1>3. ASSUME NEW k \in Keys PROVE InWindow(e, k)' <=> InWindow(e, k)
  <2>1. CASE source'[k] = source[k]
    BY <1>2, <2>1 DEF InWindow, Incremental, AtOrAfter, BeforeCut
  <2>2. CASE Insert(k)
    <3>1. source[k] = NoRow /\ source'[k].wm = clock
      BY <2>2 DEF Insert, TypeOK, SourceTypeOK
    <3>2. ~InWindow(e, k)
      BY <3>1 DEF InWindow
    <3>3. ~InWindow(e, k)'
      BY <1>1, <3>1 DEF InWindow, BeforeCut
    <3> QED BY <3>2, <3>3
  <2>3. source'[k] = source[k] \/ Insert(k)
    <3>1. ASSUME NEW j \in Keys, Insert(j), j # k PROVE source'[k] = source[k]
      BY <3>1 DEF Insert, TypeOK, SourceTypeOK
    <3> QED BY <3>1, Frame, QuietStep DEF Tick, sourceVars
  <2> QED BY <2>1, <2>2, <2>3
<1> QED BY <1>3 DEF Result

\* A batch holds the query's rows of every partition that has been read, also
\* when the source moves between two of them.
LEMMA WholeStep ==
  ASSUME WindowInv, [Next]_vars, NEW e \in Drivers
  PROVE  WholeInv(e)'
<1> USE DEF WindowInv
<1> SUFFICES ASSUME spec'.pinned, pc'[e] \in {"read", "write"}
             PROVE  WholeInv(e)'
  BY DEF WholeInv
<1>1. spec' = spec
  BY Frame, QuietStep
<1>2. ASSUME Same(e) PROVE WholeInv(e)'
  <2>1. Result(e)' = Result(e)
    BY <1>1, <1>2, ResultStable DEF Same, Probed
  <2> QED BY <1>1, <1>2, <2>1 DEF Same, WholeInv
<1>3. ASSUME Progress(e) \/ Disturb(e) PROVE WholeInv(e)'
  <2> USE DEF TypeOK, LocalsTypeOK, DriverTypeOK, Goto
  <2>1. CASE CountSource(e)
    <3>1. /\ pc[e] = "count"
          /\ spec.reconciled => count'[e] = Cardinality(Result(e))
          /\ unread'[e] = {{k} : k \in Keys} \/ unread'[e] = {Keys}
          /\ batch'[e] = batch[e]
          /\ window'[e] = window[e]
      BY <2>1 DEF CountSource
    <3>2. batch[e] = {}
      BY <3>1 DEF ReadInv
    <3>3. Result(e)' = Result(e)
      BY <1>1, <3>1, ResultStable DEF Probed
    <3>4. Result(e) \ UNION unread'[e] = {}
      BY <2>1, PartitionsCover DEF Result
    <3>5. \A p, q \in unread'[e] : p = q \/ p \cap q = {}
      <4>1. CASE unread'[e] = {{k} : k \in Keys}
        <5> SUFFICES ASSUME NEW j \in Keys, NEW k \in Keys
                     PROVE  {j} = {k} \/ {j} \cap {k} = {}
          BY <4>1
        <5> QED OBVIOUS
      <4>2. CASE unread'[e] = {Keys}
        BY <4>2
      <4> QED BY <3>1, <4>1, <4>2
    <3> QED BY <1>1, <3>1, <3>2, <3>3, <3>4, <3>5 DEF WholeInv
  <2>2. CASE ProbeMaxWatermark(e)
    BY <1>1, <2>2 DEF ProbeMaxWatermark, CutInv
  <2>3. ASSUME NEW p \in unread[e], ReadPartition(e, p) PROVE WholeInv(e)'
    <3>1. /\ pc[e] = "read"
          /\ unread'[e] = unread[e] \ {p}
          /\ batch'[e] = batch[e] \cup (p \cap Result(e))
          /\ count'[e] = count[e]
          /\ window'[e] = window[e]
      BY <2>3 DEF ReadPartition
    <3>2. Result(e)' = Result(e)
      BY <1>1, <3>1, ResultStable DEF Probed
    <3>3. /\ spec.reconciled => count[e] = Cardinality(Result(e))
          /\ batch[e] = Result(e) \ UNION unread[e]
          /\ \A a, b \in unread[e] : a = b \/ a \cap b = {}
      BY <1>1, <3>1 DEF WholeInv
    <3>4. batch'[e] = Result(e) \ UNION unread'[e]
      <4>1. ASSUME NEW k \in Result(e)
            PROVE  k \in batch'[e] <=> k \notin UNION unread'[e]
        BY <3>1, <3>3, <4>1
      <4> QED BY <3>1, <3>3, <4>1
    <3> QED BY <1>1, <3>1, <3>2, <3>3, <3>4 DEF WholeInv
  <2>4. CASE Window(e) \/ ProbeUpperBound(e) \/ WriteDf(e)
             \/ AdvanceWatermark(e) \/ Checked(e)
    BY <2>4 DEF Window, ProbeUpperBound, WriteDf, AdvanceWatermark, Checked
  <2>5. CASE Outside(e)
    BY <2>5 DEF Outside, Probed
  <2> QED BY <1>3, <2>1, <2>2, <2>3, <2>4, <2>5, StepCases
<1> QED BY <1>2, <1>3, Frame, QuietStep

LEMMA WindowInit == Init => WindowInv
<1> SUFFICES ASSUME Init PROVE WindowInv
  OBVIOUS
<1>1. ClockInv
  BY DEF Init, SourceInit, ClockInv, None, NoRow, NoWindow
<1>2. \A d \in Drivers : pc[d] = "idle" /\ batch[d] = {}
  BY DEF Init
<1>3. \A d \in Drivers : CutInv(d) /\ ReadInv(d) /\ WholeInv(d)
  BY <1>2 DEF CutInv, ReadInv, WholeInv, Probed
<1> QED BY <1>1, <1>3, TypeInit DEF WindowInv

LEMMA WindowStep == WindowInv /\ [Next]_vars => WindowInv'
<1> SUFFICES ASSUME WindowInv, [Next]_vars PROVE WindowInv'
  OBVIOUS
<1>1. TypeOK' /\ RunInv'
  BY TypeStep DEF WindowInv
<1>2. ClockInv'
  BY <1>1, ClockStep DEF WindowInv
<1>3. ASSUME NEW e \in Drivers PROVE CutInv(e)' /\ ReadInv(e)' /\ WholeInv(e)'
  BY <1>1, CutStep, ReadStep, WholeStep DEF WindowInv
<1> QED BY <1>1, <1>2, <1>3 DEF WindowInv

(***************************************************************************)
(* Parallel reads under a pinned cut-off: when the write has queried every *)
(* partition (ReadPartition), its rows are the result of one query and as  *)
(* many as were counted, for every number of partitions, drivers and       *)
(* inserts in between.                                                     *)
(***************************************************************************)
THEOREM ParallelReadIsWhole == Spec => []BatchIsWhole
<1>1. ASSUME WindowInv PROVE BatchIsWhole
  <2> SUFFICES ASSUME NEW d \in Drivers, spec.pinned, pc[d] = "write"
               PROVE  /\ batch[d] = Result(d)
                      /\ spec.reconciled => count[d] = Cardinality(batch[d])
    BY DEF BatchIsWhole
  <2>1. unread[d] = {}
    BY <1>1 DEF WindowInv, ReadInv
  <2>2. /\ spec.reconciled => count[d] = Cardinality(Result(d))
        /\ batch[d] = Result(d) \ UNION unread[d]
    BY <1>1 DEF WindowInv, WholeInv
  <2>3. UNION unread[d] = {}
    BY <2>1
  <2> QED BY <2>2, <2>3
<1> QED BY <1>1, WindowInit, WindowStep, PTL DEF Spec

LEMMA IInvInit == Init => IInv
<1> SUFFICES ASSUME Init PROVE IInv
  OBVIOUS
<1>1. \A k \in Keys : source[k] = NoRow
  BY DEF Init, SourceInit
<1>2. LossInv
  <2>1. \A b \in Int : LoadedBefore(b)
    BY <1>1 DEF LoadedBefore, Behind
  <2>2. LoadedBefore(ComputeWindow(mark))
    BY <1>1 DEF LoadedBefore, Behind
  <2>3. \A d \in Drivers : pc[d] = "idle"
    BY DEF Init
  <2> QED BY <2>2, <2>3 DEF LossInv, LowerInv, BatchInv, WrittenInv
<1> QED BY <1>2, WindowInit DEF IInv

LEMMA IInvStep == ASSUME BoundHasNoGap
                  PROVE  IInv /\ [Next]_vars => IInv'
<1> SUFFICES ASSUME IInv, [Next]_vars PROVE IInv'
  OBVIOUS
<1>1. WindowInv'
  BY WindowStep DEF IInv
<1>2. ASSUME Incremental' PROVE LossInv'
  <2>1. Incremental
    BY <1>2, Frame, QuietStep DEF Incremental, IInv, WindowInv
  <2> QED BY <2>1, MarkStep, LowerStep, BatchStep, WrittenStep DEF LossInv
<1> QED BY <1>1, <1>2 DEF IInv

(***************************************************************************)
(* README, Incremental loads: "runs resume exactly where the last one      *)
(* stopped".  If an event stamped in the instant of a cut-off is inside    *)
(* the next window (BoundHasNoGap: the bound is inclusive or there is an   *)
(* overlap), then no interleaving of drivers, failures, retries and        *)
(* inserts lets AdvanceWatermark move the mark past an event that no       *)
(* WriteDf has committed.  The run append_boundary shows that the          *)
(* hypothesis is needed.                                                   *)
(***************************************************************************)
THEOREM EveryEventIsLoaded == ASSUME BoundHasNoGap
                              PROVE  Spec => []NoRowIsLost
<1>1. IInv => NoRowIsLost
  BY DEF IInv, LossInv, NoRowIsLost
<1> QED BY <1>1, IInvInit, IInvStep, PTL DEF Spec
=============================================================================
