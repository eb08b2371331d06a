-------------------------- MODULE TableRunner_proof --------------------------
(***************************************************************************)
(* Proofs about TableRunner for every set of keys and drivers, every       *)
(* overlap, commit lag, retry count, clock, version and fault bound.       *)
(***************************************************************************)
EXTENDS TableRunner, FiniteSetTheorems, TLAPS

\* A subset of the keys has a natural number of elements (count_source, and
\* the operation metrics of a MERGE).
LEMMA KeyCount == ASSUME NEW S, S \subseteq Keys
                  PROVE  Cardinality(S) \in Nat
BY RunnerAssumption, FS_Subset, FS_CardinalityType

\* No row is a row of the table's type.
LEMMA NoRowType == NoRow \in Row /\ NoBatch \in [Keys -> Row]
BY DEF NoRow, Row, NoBatch

----------------------------------------------------------------------------
(* Type correctness.                                                       *)

LEMMA TypeInit == Init => TypeOK
<1> SUFFICES ASSUME Init PROVE TypeOK
  OBVIOUS
<1>1. SourceTypeOK
  BY NoRowType DEF Init, SourceInit, SourceTypeOK
<1>2. LocalsTypeOK
  BY NoRowType DEF Init, LocalsTypeOK
<1>3. 1 \in 1..(Retries + 1)
  BY RunnerAssumption
<1> QED
  BY <1>1, <1>2, <1>3, NoRowType DEF Init, TypeOK, PC, TryBlock, TaskStatus

\* Locals keep their type when they are kept, and get it when forgotten.
LEMMA LocalsStep ==
  ASSUME LocalsTypeOK, NEW d \in Drivers, KeepLocals \/ ForgetLocals(d)
  PROVE  LocalsTypeOK'
<1>1. CASE KeepLocals
  BY <1>1 DEF KeepLocals, LocalsTypeOK
<1>2. CASE ForgetLocals(d)
  BY <1>2, NoRowType DEF ForgetLocals, LocalsTypeOK
<1> QED BY <1>1, <1>2

\* Every action keeps every variable in its type.
LEMMA TypeStep == TypeOK /\ [Next]_vars => TypeOK'
<1> SUFFICES ASSUME TypeOK, [Next]_vars PROVE TypeOK'
  OBVIOUS
<1> USE DEF TypeOK, sourceVars
<1>1. CASE Environment
  <2>1. LocalsTypeOK'
    BY <1>1 DEF Environment, driverVars, LocalsTypeOK
  <2>2. SourceTypeOK'
    <3>1. CASE Tick
      BY <3>1 DEF Tick, SourceTypeOK
    <3>2. ASSUME NEW k \in Keys, Update(k) PROVE SourceTypeOK'
      BY <3>2 DEF Update, SourceTypeOK
    <3>3. ASSUME NEW k \in Keys, Commit(k) PROVE SourceTypeOK'
      BY <3>3 DEF Commit, SourceTypeOK, Row
    <3> QED BY <1>1, <3>1, <3>2, <3>3 DEF Environment, SourceNext
  <2> QED BY <1>1, <2>1, <2>2 DEF Environment, driverVars
<1>2. ASSUME UNCHANGED sourceVars, LocalsTypeOK',
             target' \in [Keys -> Row], mark' \in Nat \cup {None},
             lastWrite' \in Nat, pc' \in [Drivers -> PC],
             attempt' \in [Drivers -> 1..(Retries + 1)],
             task' \in [Drivers -> TaskStatus],
             moved' \in [Drivers -> BOOLEAN], faults' \in Nat
      PROVE  TypeOK'
  BY <1>2 DEF SourceTypeOK
<1>3. ASSUME NEW d \in Drivers, Progress(d) PROVE TypeOK'
  <2> USE DEF Goto, PC, TryBlock, TaskStatus
  <2>1. CASE StartRun(d)
    BY <2>1, <1>2, LocalsStep, RunnerAssumption DEF StartRun
  <2>2. CASE StartTask(d)
    BY <2>2, <1>2, LocalsStep DEF StartTask
  <2>3. CASE Window(d)
    <3>1. ComputeWindow(mark) \in Int
      BY WatermarkAssumption DEF ComputeWindow, None
    <3>2. LocalsTypeOK'
      BY <2>3, <3>1 DEF Window, LocalsTypeOK
    <3> QED BY <2>3, <3>2, <1>2 DEF Window
  <2>4. CASE ProbeUpperBound(d)
    <3>1. LocalsTypeOK'
      BY <2>4 DEF ProbeUpperBound, LocalsTypeOK, SourceTypeOK
    <3> QED BY <2>4, <3>1, <1>2 DEF ProbeUpperBound
  <2>5. CASE CountSource(d)
    <3>1. Cardinality(InWindow(d)) \in Nat
      BY KeyCount DEF InWindow
    <3>2. LocalsTypeOK'
      BY <2>5, <3>1 DEF CountSource, LocalsTypeOK
    <3> QED BY <2>5, <3>2, <1>2 DEF CountSource
  <2>6. CASE ProbeMaxWatermark(d)
    <3>1. LocalsTypeOK'
      BY <2>6 DEF ProbeMaxWatermark, InWindow, LocalsTypeOK, SourceTypeOK, Row
    <3> QED BY <2>6, <3>1, <1>2 DEF ProbeMaxWatermark
  <2>7. CASE ReadBatch(d)
    <3>1. LocalsTypeOK'
      BY <2>7, NoRowType DEF ReadBatch, LocalsTypeOK, SourceTypeOK
    <3> QED BY <2>7, <3>1, <1>2 DEF ReadBatch
  <2>8. CASE Merge(d)
    <3>1. Cardinality(Merged(d)) \in Nat
      BY KeyCount DEF Merged
    <3>2. LocalsTypeOK'
      BY <2>8, NoRowType DEF Merge, LocalsTypeOK
    <3>3. target' \in [Keys -> Row]
      BY <2>8 DEF Merge, LocalsTypeOK
    <3> QED BY <2>8, <3>1, <3>2, <3>3, <1>2 DEF Merge
  <2>9. CASE CollectMetrics(d)
    <3>1. LocalsTypeOK'
      BY <2>9 DEF CollectMetrics, LocalsTypeOK
    <3>2. faults' \in Nat
      BY <2>9, RunnerAssumption DEF CollectMetrics, Fault
    <3> QED BY <2>9, <3>1, <3>2, <1>2 DEF CollectMetrics
  <2>10. CASE Reconcile(d)
    <3>1. LocalsTypeOK'
      <4>1. CASE RowCountOk(d)
        <5>1. /\ count' = [count EXCEPT ![d] = 0]
              /\ written' = [written EXCEPT ![d] = None]
              /\ UNCHANGED <<lower, newMark, batch>>
          BY <2>10, <4>1 DEF Reconcile
        <5> QED BY <5>1 DEF LocalsTypeOK
      <4>2. CASE ~RowCountOk(d)
        BY <2>10, <4>2, LocalsStep DEF Reconcile
      <4> QED BY <4>1, <4>2
    <3>2. pc' \in [Drivers -> PC]
      BY <2>10 DEF Reconcile
    <3> QED BY <2>10, <3>1, <3>2, <1>2 DEF Reconcile
  <2>11. CASE AdvanceWatermark(d)
    <3>1. LocalsTypeOK'
      BY <2>11, LocalsStep DEF AdvanceWatermark
    <3>2. mark' \in Nat \cup {None} /\ moved' \in [Drivers -> BOOLEAN]
      BY <2>11 DEF AdvanceWatermark, LocalsTypeOK
    <3> QED BY <2>11, <3>1, <3>2, <1>2 DEF AdvanceWatermark
  <2>12. CASE FinishTask(d)
    BY <2>12, <1>2, LocalsStep DEF FinishTask
  <2>13. CASE TaskSucceeded(d)
    BY <2>13, <1>2, LocalsStep DEF TaskSucceeded
  <2>14. CASE RecordFailure(d)
    <3>1. faults' \in Nat /\ task' \in [Drivers -> TaskStatus]
      BY <2>14 DEF RecordFailure, Fault
    <3> QED BY <2>14, <3>1, <1>2, LocalsStep DEF RecordFailure
  <2>15. CASE RetryOrStop(d)
    <3>1. /\ pc' \in [Drivers -> PC]
          /\ attempt' \in [Drivers -> 1..(Retries + 1)]
      BY <2>15, RunnerAssumption DEF RetryOrStop, HasRetry
    <3> QED BY <2>15, <3>1, <1>2, LocalsStep DEF RetryOrStop
  <2> QED BY <1>3, <2>1, <2>2, <2>3, <2>4, <2>5, <2>6, <2>7, <2>8, <2>9,
             <2>10, <2>11, <2>12, <2>13, <2>14, <2>15
          DEF Progress, Extract, Load
<1>4. ASSUME NEW d \in Drivers, Disturb(d) PROVE TypeOK'
  <2> USE DEF Goto, Fault, PC, TryBlock, TaskStatus
  <2>1. CASE EscapeStart(d)
    <3>1. task' \in [Drivers -> TaskStatus]
      BY <2>1 DEF EscapeStart
    <3>2. LocalsTypeOK'
      BY <2>1, LocalsStep DEF EscapeStart
    <3>3. pc' \in [Drivers -> PC] /\ faults' \in Nat
      BY <2>1 DEF EscapeStart
    <3> QED BY <2>1, <3>1, <3>2, <3>3, <1>2 DEF EscapeStart
  <2>2. CASE Error(d)
    BY <2>2, <1>2, LocalsStep DEF Error
  <2>3. CASE EscapeFail(d)
    BY <2>3, <1>2, LocalsStep DEF EscapeFail
  <2>4. CASE Crash(d)
    BY <2>4, <1>2, LocalsStep DEF Crash
  <2>5. ASSUME NEW value \in 1..MaxClock, ForceSet(d, value) PROVE TypeOK'
    BY <2>5, <1>2, LocalsStep, SourceAssumption DEF ForceSet
  <2> QED BY <1>4, <2>1, <2>2, <2>3, <2>4, <2>5 DEF Disturb
<1>5. CASE UNCHANGED vars
  BY <1>5 DEF vars, driverVars, SourceTypeOK, LocalsTypeOK
<1> QED BY <1>1, <1>3, <1>4, <1>5 DEF Next

\* Every variable of the runner keeps its type in every behaviour.
THEOREM TypeCorrect == Spec => []TypeOK
BY TypeInit, TypeStep, PTL DEF Spec

----------------------------------------------------------------------------
(* What a step can touch.                                                  *)

\* A step of driver d leaves the source and the other drivers alone, writes
\* the target only in its MERGE, and takes rows only from the source.
LEMMA Frame ==
  ASSUME TypeOK, NEW d \in Drivers, Progress(d) \/ Disturb(d)
  PROVE  /\ UNCHANGED sourceVars
         /\ target' = target \/ Merge(d)
         /\ \A e \in Drivers \ {d} : /\ pc'[e] = pc[e]
                                     /\ lower'[e] = lower[e]
                                     /\ newMark'[e] = newMark[e]
                                     /\ batch'[e] = batch[e]
         /\ \A k \in Keys : batch'[d][k] \in {batch[d][k], source[k], NoRow}
<1> DEFINE Others == \A e \in Drivers \ {d} : /\ pc'[e] = pc[e]
                                              /\ lower'[e] = lower[e]
                                              /\ newMark'[e] = newMark[e]
                                              /\ batch'[e] = batch[e]
           Rows == \A k \in Keys :
                     batch'[d][k] \in {batch[d][k], source[k], NoRow}
<1> SUFFICES /\ UNCHANGED sourceVars
             /\ target' = target \/ Merge(d)
             /\ Others
             /\ Rows
  OBVIOUS
<1>1. KeepLocals => Rows
  BY DEF KeepLocals
<1>2. ForgetLocals(d) => Rows
  BY DEF ForgetLocals, NoBatch, TypeOK, LocalsTypeOK
<1>3. UNCHANGED <<lower, newMark, batch>> => Rows
  OBVIOUS
<1>4. ASSUME NEW x, pc' = [pc EXCEPT ![d] = x], KeepLocals \/ ForgetLocals(d)
      PROVE  Others
  BY <1>4 DEF KeepLocals, ForgetLocals, TypeOK, LocalsTypeOK
<1> HIDE DEF Others, Rows
<1> USE DEF Goto
<1>5. CASE StartRun(d)
  BY <1>1, <1>4, <1>5 DEF StartRun
<1>6. CASE StartTask(d)
  BY <1>1, <1>4, <1>6 DEF StartTask
<1>7. CASE Window(d)
  BY <1>7 DEF Window, Others, Rows, TypeOK, LocalsTypeOK
<1>8. CASE ProbeUpperBound(d)
  BY <1>8 DEF ProbeUpperBound, Others, Rows, TypeOK, LocalsTypeOK
<1>9. CASE CountSource(d)
  BY <1>9 DEF CountSource, Others, Rows, TypeOK, LocalsTypeOK
<1>10. CASE ProbeMaxWatermark(d)
  BY <1>10 DEF ProbeMaxWatermark, Others, Rows, TypeOK, LocalsTypeOK
<1>11. CASE ReadBatch(d)
  BY <1>11 DEF ReadBatch, Others, Rows, TypeOK, LocalsTypeOK
<1>12. CASE Merge(d)
  BY <1>12 DEF Merge, Others, Rows, NoBatch, TypeOK, LocalsTypeOK
<1>13. CASE CollectMetrics(d)
  BY <1>13 DEF CollectMetrics, Others, Rows, TypeOK, LocalsTypeOK
<1>14. CASE Reconcile(d)
  <2>1. CASE RowCountOk(d)
    BY <1>14, <2>1 DEF Reconcile, Others, Rows, TypeOK, LocalsTypeOK
  <2>2. CASE ~RowCountOk(d)
    BY <1>2, <1>4, <1>14, <2>2 DEF Reconcile
  <2> QED BY <2>1, <2>2
<1>15. CASE AdvanceWatermark(d)
  BY <1>2, <1>4, <1>15 DEF AdvanceWatermark
<1>16. CASE FinishTask(d)
  BY <1>1, <1>4, <1>16 DEF FinishTask
<1>17. CASE TaskSucceeded(d)
  BY <1>1, <1>4, <1>17 DEF TaskSucceeded
<1>18. CASE RecordFailure(d)
  BY <1>1, <1>4, <1>18 DEF RecordFailure
<1>19. CASE RetryOrStop(d)
  BY <1>1, <1>4, <1>19 DEF RetryOrStop
<1>20. CASE EscapeStart(d)
  BY <1>1, <1>4, <1>20 DEF EscapeStart
<1>21. CASE Error(d)
  BY <1>2, <1>4, <1>21 DEF Error
<1>22. CASE EscapeFail(d)
  BY <1>1, <1>4, <1>22 DEF EscapeFail
<1>23. CASE Crash(d)
  BY <1>2, <1>4, <1>23 DEF Crash
<1>24. CASE \E value \in 1..MaxClock : ForceSet(d, value)
  BY <1>1, <1>4, <1>24 DEF ForceSet
<1> QED BY <1>5, <1>6, <1>7, <1>8, <1>9, <1>10, <1>11, <1>12, <1>13, <1>14,
           <1>15, <1>16, <1>17, <1>18, <1>19, <1>20, <1>21, <1>22, <1>23,
           <1>24
        DEF Progress, Disturb, Extract, Load

----------------------------------------------------------------------------
(* The inductive invariant.                                                *)

\* Stamps stay in order: a transaction stamps after the last version of its
\* row and commits within the lag.
LEMMA StampsStep ==
  ASSUME ~Ties, TypeOK, StampsInv, [Next]_vars
  PROVE  StampsInv'
<1> USE SourceAssumption DEF StampsInv, TypeOK, SourceTypeOK, Row
<1>1. CASE Tick
  BY <1>1 DEF Tick
<1>2. ASSUME NEW k \in Keys, Update(k) PROVE StampsInv'
  BY <1>2 DEF Update
<1>3. ASSUME NEW k \in Keys, Commit(k) PROVE StampsInv'
  BY <1>3 DEF Commit
<1>4. CASE UNCHANGED sourceVars
  BY <1>4 DEF sourceVars
<1> QED
  BY <1>1, <1>2, <1>3, <1>4, Frame
  DEF Next, Environment, SourceNext, vars, TypeOK

\* No copy of a row, in the target or in a batch that is still to be merged,
\* is newer than the source, and equal stamps mean equal versions.
LEMMA CopiesStep ==
  ASSUME ~Ties, TypeOK, TypeOK', StampsInv, CopiesInv, [Next]_vars
  PROVE  CopiesInv'
<1>1. ASSUME NEW k \in Keys, Commit(k),
             UNCHANGED <<target, driverVars>>
      PROVE  CopiesInv'
  <2>1. /\ source'[k].wm = pending[k]
        /\ source[k].wm < pending[k]
        /\ source'[k].wm \in Nat
        /\ \A j \in Keys \ {k} : source'[j] = source[j]
    BY <1>1 DEF Commit, StampsInv, TypeOK, SourceTypeOK, Row
  <2>2. ASSUME NEW row \in Row, NotNewer(row, k) PROVE row.wm < source'[k].wm
    BY <2>1, <2>2 DEF NotNewer, Row, TypeOK, SourceTypeOK
  <2>3. /\ NoRow.wm < source'[k].wm
        /\ target[k].wm < source'[k].wm
        /\ \A d \in Drivers : batch[d][k].wm < source'[k].wm
    BY <2>2, NoRowType DEF CopiesInv, TypeOK, LocalsTypeOK
  <2>4. /\ NoRow.wm \in Nat
        /\ target[k].wm \in Nat
        /\ \A d \in Drivers : batch[d][k].wm \in Nat
    BY NoRowType DEF TypeOK, LocalsTypeOK, Row
  <2> QED BY <1>1, <2>1, <2>3, <2>4 DEF CopiesInv, NotNewer, driverVars
<1>2. ASSUME UNCHANGED source, UNCHANGED <<target, driverVars>>
      PROVE  CopiesInv'
  BY <1>2 DEF CopiesInv, NotNewer, driverVars
<1>3. ASSUME NEW d \in Drivers, Progress(d) \/ Disturb(d)
      PROVE  CopiesInv'
  <2>1. /\ UNCHANGED source
        /\ target' = target \/ Merge(d)
        /\ \A e \in Drivers \ {d} : batch'[e] = batch[e]
        /\ \A k \in Keys : batch'[d][k] \in {batch[d][k], source[k], NoRow}
    BY <1>3, Frame DEF sourceVars
  <2>2. \A k \in Keys : target'[k] \in {target[k], batch[d][k]}
    BY <2>1 DEF Merge
  <2>3. \A k \in Keys : NotNewer(source[k], k)
    BY DEF NotNewer, TypeOK, SourceTypeOK, Row
  <2> QED BY <2>1, <2>2, <2>3 DEF CopiesInv, NotNewer
<1> QED
  BY <1>1, <1>2, <1>3
  DEF Next, Environment, SourceNext, Tick, Update, vars, sourceVars

\* The source changes no wanted row before a settled bound: whatever commits
\* from now on is stamped later than that.
LEMMA SettledBelow ==
  ASSUME OverlapCoversLag, TypeOK, StampsInv, [Next]_vars,
         NEW bound \in Int, Settled(bound),
         NEW k \in Keys, Wanted(k)', ~AtOrAfter(source'[k].wm, bound)
  PROVE  /\ source'[k] = source[k]
         /\ Wanted(k)
         /\ ~AtOrAfter(source[k].wm, bound)
<1> USE SourceAssumption, WatermarkAssumption
<1>1. CASE source'[k] = source[k]
  BY <1>1 DEF Wanted, AtOrAfter
<1>2. CASE Commit(k)
  <2>1. source'[k].wm = pending[k] /\ pending[k] \in Nat
    BY <1>2 DEF Commit, TypeOK, SourceTypeOK
  <2>2. clock - pending[k] <= CommitLag
    BY <1>2 DEF Commit, StampsInv
  <2>3. AtOrAfter(pending[k], LowerBoundDefault) => AtOrAfter(pending[k], bound)
    BY <2>1, <2>2 DEF Settled, AtOrAfter, OverlapCoversLag, TypeOK, SourceTypeOK
  <2>4. AtOrAfter(pending[k], LowerBoundDefault)
    BY <2>1 DEF Wanted, AtOrAfter
  <2> QED BY <2>1, <2>3, <2>4
<1>3. source'[k] = source[k] \/ Commit(k)
  <2>1. ASSUME NEW j \in Keys, Commit(j), j # k PROVE source'[k] = source[k]
    BY <2>1 DEF Commit, TypeOK, SourceTypeOK
  <2> QED BY <2>1, Frame DEF Next, Environment, SourceNext, Tick, Update,
                             vars, sourceVars
<1> QED BY <1>1, <1>2, <1>3

\* No MERGE replaces the current version of a row: the guard lets only rows
\* with the same or a newer stamp through, and there is none newer.
LEMMA KeepsCurrent ==
  ASSUME TypeOK, CopiesInv, [Next]_vars,
         NEW k \in Keys, target[k] = source[k], source'[k] = source[k]
  PROVE  target'[k] = source'[k]
<1>1. ASSUME NEW d \in Drivers, Merge(d) PROVE target'[k] = source'[k]
  <2>1. CASE k \in Merged(d)
    <3>1. target'[k] = batch[d][k]
      BY <1>1, <2>1 DEF Merge
    <3>2. /\ batch[d][k] \in Row /\ source[k] \in Row
          /\ NotNewer(batch[d][k], k) /\ NotNewer(NoRow, k)
      BY DEF CopiesInv, TypeOK, SourceTypeOK, LocalsTypeOK
    <3>3. batch[d][k].wm >= source[k].wm
      BY <2>1, <3>2 DEF Merged, MergeGuard, NoRow, Row
    <3> QED BY <3>1, <3>2, <3>3 DEF NotNewer, Row
  <2>2. CASE k \notin Merged(d)
    BY <1>1, <2>2 DEF Merge
  <2> QED BY <2>1, <2>2
<1>2. CASE target' = target
  BY <1>2
<1> QED BY <1>1, <1>2, Frame DEF Next, Environment, vars

\* A bound behind an instant is behind every later one.
LEMMA LaterInstant ==
  \A b, t, u, lag \in Int : b <= t - lag /\ t <= u => b <= u - lag
OBVIOUS

\* The clock never runs backwards, so a settled bound stays settled.
LEMMA SettledStable ==
  ASSUME TypeOK, [Next]_vars, NEW bound \in Int, Settled(bound)
  PROVE  Settled(bound)'
<1>1. clock' \in {clock, clock + 1}
  BY Frame DEF Next, Environment, SourceNext, Tick, Update, Commit, vars,
               sourceVars
<1>2. clock \in Int /\ Overlap \in Int
  BY WatermarkAssumption DEF TypeOK, SourceTypeOK
<1>3. CASE bound = LowerBoundDefault
  BY <1>3 DEF Settled
<1>4. CASE bound <= clock - Overlap
  <2>1. clock' \in Int /\ clock <= clock'
    BY <1>1, <1>2
  <2>2. bound <= clock' - Overlap
    BY <1>2, <1>4, <2>1, LaterInstant
  <2> QED BY <2>2 DEF Settled
<1> QED BY <1>3, <1>4 DEF Settled

\* What is mirrored before a settled bound stays mirrored.
LEMMA MirroredStable ==
  ASSUME OverlapCoversLag, TypeOK, StampsInv, CopiesInv, [Next]_vars,
         NEW bound \in Int, Settled(bound), MirroredBefore(bound)
  PROVE  MirroredBefore(bound)'
<1> SUFFICES ASSUME NEW k \in Keys, Wanted(k)', ~AtOrAfter(source'[k].wm, bound)
             PROVE  target'[k] = source'[k]
  BY DEF MirroredBefore, AtOrAfter
<1>1. /\ source'[k] = source[k]
      /\ Wanted(k)
      /\ ~AtOrAfter(source[k].wm, bound)
  BY SettledBelow
<1>2. target[k] = source[k]
  BY <1>1 DEF MirroredBefore
<1> QED BY <1>1, <1>2, KeepsCurrent

\* The marks a driver holds come from the clock or from a stamp, and the
\* stored mark from a driver or an operator who rewinds it.
LEMMA MarksStep ==
  ASSUME TypeOK, StampsInv, MarksInv, [Next]_vars
  PROVE  MarksInv'
<1> USE DEF MarksInv, TypeOK, SourceTypeOK, LocalsTypeOK
<1>1. CASE Environment
  <2>1. clock' \in {clock, clock + 1}
    BY <1>1 DEF Environment, SourceNext, Tick, Update, Commit
  <2> QED BY <1>1, <2>1 DEF Environment, driverVars, None
<1>2. ASSUME NEW d \in Drivers, Progress(d) \/ Disturb(d) PROVE MarksInv'
  <2>1. clock' = clock /\ \A e \in Drivers \ {d} : newMark'[e] = newMark[e]
    BY <1>2, Frame DEF sourceVars
  <2>2. ASSUME mark' <= clock, newMark'[d] <= clock PROVE MarksInv'
    BY <2>1, <2>2
  <2>3. CASE UNCHANGED <<mark, newMark>>
    BY <2>2, <2>3
  <2>4. CASE ForgetLocals(d) /\ mark' \in {mark, newMark[d]}
    BY <2>2, <2>4 DEF ForgetLocals, None
  <2>5. CASE ProbeUpperBound(d)
    BY <2>2, <2>5 DEF ProbeUpperBound, None
  <2>6. CASE ProbeMaxWatermark(d)
    BY <2>2, <2>6 DEF ProbeMaxWatermark, InWindow, StampsInv
  <2>7. CASE \E value \in 1..MaxClock : ForceSet(d, value)
    BY <2>2, <2>7, SourceAssumption DEF ForceSet, KeepLocals, None
  <2>8. CASE AdvanceWatermark(d)
    BY <2>4, <2>8 DEF AdvanceWatermark
  <2> QED
    BY <1>2, <2>3, <2>4, <2>5, <2>6, <2>7, <2>8
    DEF Progress, Disturb, Extract, Load, StartRun, StartTask, Window,
        CountSource, ReadBatch, Merge, CollectMetrics, Reconcile, FinishTask,
        TaskSucceeded, RecordFailure, RetryOrStop, EscapeStart, Error,
        EscapeFail, Crash, KeepLocals
<1>3. CASE UNCHANGED vars
  BY <1>3 DEF vars, sourceVars, driverVars
<1> QED BY <1>1, <1>2, <1>3 DEF Next

\* The stored mark stays true: it is kept over settled rows, moved forward
\* only over rows that the advancing driver has loaded, or rewound.
LEMMA NoLossStep ==
  ASSUME OverlapCoversLag, IInv, [Next]_vars
  PROVE  NoLoss'
<1> USE WatermarkAssumption
<1>1. CASE mark' = mark
  <2>1. ComputeWindow(mark) \in Int /\ Settled(ComputeWindow(mark))
    BY DEF ComputeWindow, Settled, None, IInv, TypeOK, SourceTypeOK, MarksInv
  <2>2. MirroredBefore(ComputeWindow(mark))
    BY DEF IInv, NoLoss
  <2>3. \A b \in Int : Settled(b) /\ MirroredBefore(b) => MirroredBefore(b)'
    BY MirroredStable DEF IInv
  <2>4. PICK b \in Int : b = ComputeWindow(mark)
    BY <2>1
  <2>5. MirroredBefore(b)'
    BY <2>1, <2>2, <2>3, <2>4
  <2>6. b = ComputeWindow(mark')
    BY <1>1, <2>4
  <2> QED BY <2>5, <2>6 DEF NoLoss, MirroredBefore, ComputeWindow
<1>2. ASSUME NEW d \in Drivers, AdvanceWatermark(d), mark' # mark PROVE NoLoss'
  <2>1. /\ mark' = newMark[d]
        /\ newMark[d] # None
        /\ pc[d] = "advance"
        /\ UNCHANGED <<source, target>>
    BY <1>2 DEF AdvanceWatermark, Goto, sourceVars
  <2>2. MirroredBefore(newMark[d] - Overlap)
    BY <2>1 DEF IInv, LoadedInv
  <2> QED BY <2>1, <2>2 DEF NoLoss, MirroredBefore, Wanted, ComputeWindow,
                            AtOrAfter
<1>3. ASSUME NEW d \in Drivers, NEW value \in 1..MaxClock, ForceSet(d, value)
      PROVE  NoLoss'
  <2>1. /\ mark \in Nat
        /\ mark' = value
        /\ value <= mark
        /\ UNCHANGED <<source, target>>
    BY <1>3 DEF ForceSet, sourceVars, IInv, TypeOK
  <2>2. value # None /\ mark # None /\ value \in Int
    BY <2>1, SourceAssumption DEF None
  <2>3. \A k \in Keys : ~AtOrAfter(source[k].wm, value - Overlap)
                          => ~AtOrAfter(source[k].wm, mark - Overlap)
    BY <2>1, <2>2 DEF AtOrAfter, IInv, TypeOK, SourceTypeOK, Row
  <2> QED BY <2>1, <2>2, <2>3 DEF IInv, NoLoss, MirroredBefore, Wanted,
                                  ComputeWindow, AtOrAfter
<1>4. ASSUME NEW d \in Drivers, Progress(d) \/ Disturb(d)
      PROVE  \/ mark' = mark
             \/ AdvanceWatermark(d)
             \/ \E value \in 1..MaxClock : ForceSet(d, value)
  BY <1>4 DEF Progress, Disturb, Extract, Load, StartRun, StartTask, Window,
        ProbeUpperBound, CountSource, ProbeMaxWatermark, ReadBatch, Merge,
        CollectMetrics, Reconcile, FinishTask, TaskSucceeded, RecordFailure,
        RetryOrStop, EscapeStart, Error, EscapeFail, Crash
<1> QED BY <1>1, <1>2, <1>3, <1>4 DEF Next, Environment, vars

\* A window that has been read and not used stays complete from below.
LEMMA WindowStep ==
  ASSUME OverlapCoversLag, IInv, [Next]_vars, NEW e \in Drivers
  PROVE  WindowInv(e)'
<1> DEFINE Open == {"extract", "count", "maxwm", "read"}
<1>1. ASSUME pc[e] \in Open, lower'[e] = lower[e] PROVE WindowInv(e)'
  <2>1. lower[e] \in Int /\ Settled(lower[e]) /\ MirroredBefore(lower[e])
    BY <1>1 DEF IInv, TypeOK, LocalsTypeOK, WindowInv
  <2>2. PICK b \in Int : b = lower[e]
    BY <2>1
  <2>3. MirroredBefore(b)' /\ Settled(b)'
    BY <2>1, <2>2, MirroredStable, SettledStable DEF IInv
  <2> QED BY <1>1, <2>2, <2>3 DEF WindowInv, MirroredBefore, Settled
<1>2. CASE Window(e)
  <2>1. /\ lower'[e] = ComputeWindow(mark)
        /\ UNCHANGED <<source, target, clock>>
    BY <1>2 DEF Window, sourceVars, IInv, TypeOK, LocalsTypeOK
  <2>2. Settled(ComputeWindow(mark))
    BY WatermarkAssumption
    DEF ComputeWindow, Settled, None, IInv, TypeOK, SourceTypeOK, MarksInv
  <2> QED BY <2>1, <2>2 DEF IInv, NoLoss, WindowInv, MirroredBefore, Wanted,
                            AtOrAfter, Settled
<1>3. CASE pc'[e] \notin Open
  BY <1>3 DEF WindowInv
<1>4. CASE UNCHANGED <<pc, lower>>
  BY <1>1, <1>3, <1>4
<1>5. ASSUME NEW d \in Drivers \ {e}, Progress(d) \/ Disturb(d)
      PROVE  WindowInv(e)'
  <2>1. pc'[e] = pc[e] /\ lower'[e] = lower[e]
    BY <1>5, Frame DEF IInv
  <2> QED BY <1>1, <1>3, <2>1
<1>6. ASSUME Progress(e) \/ Disturb(e) PROVE WindowInv(e)'
  <2> USE DEF Goto, IInv, TypeOK
  <2>1. CASE ProbeUpperBound(e) \/ CountSource(e) \/ ProbeMaxWatermark(e)
    BY <1>1, <2>1 DEF ProbeUpperBound, CountSource, ProbeMaxWatermark
  <2>2. CASE StartRun(e) \/ StartTask(e) \/ ReadBatch(e) \/ Merge(e)
    BY <1>3, <2>2 DEF StartRun, StartTask, ReadBatch, Merge
  <2>3. CASE CollectMetrics(e) \/ Reconcile(e) \/ AdvanceWatermark(e)
    BY <1>3, <2>3 DEF CollectMetrics, Reconcile, AdvanceWatermark
  <2>4. CASE FinishTask(e) \/ TaskSucceeded(e) \/ RecordFailure(e)
             \/ RetryOrStop(e)
    BY <1>3, <2>4 DEF FinishTask, TaskSucceeded, RecordFailure, RetryOrStop
  <2>5. CASE Disturb(e)
    BY <1>3, <2>5 DEF Disturb, EscapeStart, Error, EscapeFail, Crash, ForceSet
  <2> QED BY <1>2, <1>6, <2>1, <2>2, <2>3, <2>4, <2>5
          DEF Progress, Extract, Load
<1> QED BY <1>4, <1>5, <1>6 DEF Next, Environment, vars, driverVars

\* Until its MERGE commits, a batch and the target together hold every row
\* that the new mark will leave behind.
LEMMA BatchStep ==
  ASSUME OverlapCoversLag, IInv, [Next]_vars, NEW e \in Drivers
  PROVE  BatchInv(e)'
<1>1. ASSUME pc[e] = "merge", newMark'[e] = newMark[e], batch'[e] = batch[e]
      PROVE  BatchInv(e)'
  <2> SUFFICES ASSUME newMark[e] # None,
                      NEW k \in Keys, Wanted(k)',
                      ~AtOrAfter(source'[k].wm, newMark[e] - Overlap)
               PROVE  source'[k] \in {target'[k], batch[e][k]}
    BY <1>1 DEF BatchInv, AtOrAfter
  <2>1. /\ newMark[e] - Overlap \in Int
        /\ Settled(newMark[e] - Overlap)
    <3>1. newMark[e] \in Nat /\ newMark[e] <= clock
      BY DEF IInv, TypeOK, LocalsTypeOK, MarksInv
    <3>2. clock \in Int /\ Overlap \in Int
      BY WatermarkAssumption DEF IInv, TypeOK, SourceTypeOK
    <3> QED BY <3>1, <3>2 DEF Settled
  <2>2. /\ source'[k] = source[k]
        /\ Wanted(k)
        /\ ~AtOrAfter(source[k].wm, newMark[e] - Overlap)
    BY <2>1, SettledBelow DEF IInv
  <2>3. source[k] \in {target[k], batch[e][k]}
    BY <1>1, <2>2 DEF IInv, BatchInv
  <2>4. CASE source[k] = target[k]
    BY <2>2, <2>4, KeepsCurrent DEF IInv
  <2> QED BY <2>2, <2>3, <2>4
<1>2. CASE ReadBatch(e)
  <2> SUFFICES ASSUME newMark[e] # None, NEW k \in Keys, Wanted(k),
                      ~AtOrAfter(source[k].wm, newMark[e] - Overlap)
               PROVE  source[k] \in {target[k], batch'[e][k]}
    BY <1>2 DEF ReadBatch, sourceVars, BatchInv, Wanted, AtOrAfter
  <2>1. /\ pc[e] = "read"
        /\ batch'[e][k] = IF k \in InWindow(e) THEN source[k] ELSE NoRow
    BY <1>2 DEF ReadBatch, Goto, IInv, TypeOK, LocalsTypeOK
  <2>2. CASE source[k] = NoRow
    BY <2>2 DEF IInv, CopiesInv, NotNewer, NoRow, Row, TypeOK
  <2>3. CASE ~AtOrAfter(source[k].wm, lower[e])
    BY <2>1, <2>3 DEF IInv, WindowInv, MirroredBefore
  <2>4. CASE source[k] # NoRow /\ AtOrAfter(source[k].wm, lower[e])
    <3>1. /\ newMark[e] \in Nat
          /\ source[k].wm \in Nat
      BY DEF IInv, TypeOK, SourceTypeOK, LocalsTypeOK, Row
    <3>2. source[k].wm < newMark[e]
      BY <3>1, WatermarkAssumption, SourceAssumption
      DEF AtOrAfter, OverlapCoversLag
    <3>3. k \in InWindow(e)
      BY <2>4, <3>2 DEF InWindow, BeforeCut, Upper
    <3> QED BY <2>1, <3>3
  <2> QED BY <2>2, <2>3, <2>4
<1>3. CASE pc'[e] # "merge"
  BY <1>3 DEF BatchInv
<1>4. CASE UNCHANGED <<pc, newMark, batch>>
  BY <1>1, <1>3, <1>4
<1>5. ASSUME NEW d \in Drivers \ {e}, Progress(d) \/ Disturb(d)
      PROVE  BatchInv(e)'
  <2>1. /\ pc'[e] = pc[e]
        /\ newMark'[e] = newMark[e]
        /\ batch'[e] = batch[e]
    BY <1>5, Frame DEF IInv
  <2> QED BY <1>1, <1>3, <2>1
<1>6. ASSUME Progress(e) \/ Disturb(e) PROVE BatchInv(e)'
  <2> USE DEF Goto, IInv, TypeOK
  <2>1. CASE StartRun(e) \/ StartTask(e) \/ Window(e) \/ Extract(e)
    BY <1>3, <2>1 DEF StartRun, StartTask, Window, Extract, ProbeUpperBound,
                      CountSource, ProbeMaxWatermark
  <2>2. CASE Merge(e) \/ CollectMetrics(e) \/ Reconcile(e)
             \/ AdvanceWatermark(e)
    BY <1>3, <2>2 DEF Merge, CollectMetrics, Reconcile, AdvanceWatermark
  <2>3. CASE FinishTask(e) \/ TaskSucceeded(e) \/ RecordFailure(e)
             \/ RetryOrStop(e)
    BY <1>3, <2>3 DEF FinishTask, TaskSucceeded, RecordFailure, RetryOrStop
  <2>4. CASE Disturb(e)
    BY <1>3, <2>4 DEF Disturb, EscapeStart, Error, EscapeFail, Crash, ForceSet
  <2> QED BY <1>2, <1>6, <2>1, <2>2, <2>3, <2>4 DEF Progress, Load
<1> QED BY <1>4, <1>5, <1>6 DEF Next, Environment, vars, driverVars

\* Once its MERGE has committed, what the new mark leaves behind is in the
\* target, and stays there whatever the other drivers and the source do.
LEMMA LoadedStep ==
  ASSUME OverlapCoversLag, IInv, [Next]_vars, NEW e \in Drivers
  PROVE  LoadedInv(e)'
<1> DEFINE After == {"metrics", "reconcile", "advance"}
<1>1. ASSUME pc[e] \in After, newMark'[e] = newMark[e] PROVE LoadedInv(e)'
  <2> SUFFICES ASSUME newMark[e] # None PROVE LoadedInv(e)'
    BY <1>1 DEF LoadedInv
  <2>1. newMark[e] \in Nat /\ newMark[e] <= clock
    BY DEF IInv, TypeOK, LocalsTypeOK, MarksInv
  <2>2. clock \in Int /\ Overlap \in Int
    BY WatermarkAssumption DEF IInv, TypeOK, SourceTypeOK
  <2>3. PICK b \in Int : b = newMark[e] - Overlap
    BY <2>1, <2>2
  <2>4. Settled(b)
    BY <2>1, <2>2, <2>3 DEF Settled
  <2>5. MirroredBefore(b)
    BY <1>1, <2>3 DEF IInv, LoadedInv
  <2>6. MirroredBefore(b)'
    BY <2>4, <2>5, MirroredStable DEF IInv
  <2>7. b = newMark'[e] - Overlap
    BY <1>1, <2>3
  <2> QED BY <2>6, <2>7 DEF LoadedInv, MirroredBefore
<1>2. CASE Merge(e)
  <2> SUFFICES ASSUME newMark[e] # None, NEW k \in Keys, Wanted(k),
                      ~AtOrAfter(source[k].wm, newMark[e] - Overlap)
               PROVE  target'[k] = source[k]
    BY <1>2 DEF Merge, sourceVars, LoadedInv, MirroredBefore, Wanted, AtOrAfter
  <2>1. source[k] \in {target[k], batch[e][k]}
    BY <1>2 DEF Merge, Goto, IInv, BatchInv
  <2>2. CASE source[k] = target[k]
    <3>1. source'[k] = source[k]
      BY <1>2 DEF Merge, sourceVars
    <3> QED BY <2>2, <3>1, KeepsCurrent DEF IInv
  <2>3. CASE source[k] = batch[e][k] /\ source[k] # target[k]
    <3>1. /\ target[k] \in Row /\ source[k] \in Row
          /\ NotNewer(target[k], k) /\ NotNewer(NoRow, k)
      BY DEF IInv, TypeOK, SourceTypeOK, CopiesInv
    <3>2. source[k] # NoRow
      BY <2>3, <3>1 DEF NotNewer, NoRow, Row
    <3>3. k \in Merged(e)
      BY <2>3, <3>1, <3>2 DEF Merged, MergeGuard, NotNewer, Row
    <3> QED BY <1>2, <2>3, <3>3 DEF Merge
  <2> QED BY <2>1, <2>2, <2>3
<1>3. CASE pc'[e] \notin After
  BY <1>3 DEF LoadedInv
<1>4. CASE UNCHANGED <<pc, newMark>>
  BY <1>1, <1>3, <1>4
<1>5. ASSUME NEW d \in Drivers \ {e}, Progress(d) \/ Disturb(d)
      PROVE  LoadedInv(e)'
  <2>1. pc'[e] = pc[e] /\ newMark'[e] = newMark[e]
    BY <1>5, Frame DEF IInv
  <2> QED BY <1>1, <1>3, <2>1
<1>6. ASSUME Progress(e) \/ Disturb(e) PROVE LoadedInv(e)'
  <2> USE DEF Goto, IInv, TypeOK
  <2>1. CASE StartRun(e) \/ StartTask(e) \/ Window(e) \/ Extract(e)
    BY <1>3, <2>1 DEF StartRun, StartTask, Window, Extract, ProbeUpperBound,
                      CountSource, ProbeMaxWatermark
  <2>2. CASE ReadBatch(e) \/ AdvanceWatermark(e)
    BY <1>3, <2>2 DEF ReadBatch, AdvanceWatermark
  <2>3. CASE CollectMetrics(e)
    BY <1>1, <2>3 DEF CollectMetrics
  <2>4. CASE Reconcile(e)
    <3>1. CASE RowCountOk(e)
      BY <1>1, <2>4, <3>1 DEF Reconcile
    <3>2. CASE ~RowCountOk(e)
      BY <1>3, <2>4, <3>2 DEF Reconcile
    <3> QED BY <3>1, <3>2
  <2>5. CASE FinishTask(e) \/ TaskSucceeded(e) \/ RecordFailure(e)
             \/ RetryOrStop(e)
    BY <1>3, <2>5 DEF FinishTask, TaskSucceeded, RecordFailure, RetryOrStop
  <2>6. CASE Disturb(e)
    BY <1>3, <2>6 DEF Disturb, EscapeStart, Error, EscapeFail, Crash, ForceSet
  <2> QED BY <1>2, <1>6, <2>1, <2>2, <2>3, <2>4, <2>5, <2>6
          DEF Progress, Load
<1> QED BY <1>4, <1>5, <1>6 DEF Next, Environment, vars, driverVars

LEMMA IInvInit == Init => IInv
<1> SUFFICES ASSUME Init PROVE IInv
  OBVIOUS
<1>1. TypeOK
  BY TypeInit
<1>2. StampsInv
  BY DEF Init, SourceInit, StampsInv, NoRow
<1>3. CopiesInv
  <2>1. \A k \in Keys : NotNewer(NoRow, k)
    <3>1. \A k \in Keys : source[k] = NoRow
      BY DEF Init, SourceInit
    <3>2. NoRow.wm = 0
      BY DEF NoRow
    <3>3. NoRow.wm <= NoRow.wm
      BY <3>2
    <3> QED BY <3>1, <3>3 DEF NotNewer
  <2>2. \A k \in Keys : target[k] = NoRow
    BY DEF Init
  <2>3. \A k \in Keys : \A d \in Drivers : batch[d][k] = NoRow
    BY DEF Init, NoBatch
  <2> QED BY <2>1, <2>2, <2>3 DEF CopiesInv
<1>4. MarksInv
  BY DEF Init, SourceInit, MarksInv, None
<1>5. NoLoss
  BY DEF Init, SourceInit, NoLoss, MirroredBefore
<1>6. \A d \in Drivers : WindowInv(d) /\ BatchInv(d) /\ LoadedInv(d)
  BY DEF Init, WindowInv, BatchInv, LoadedInv
<1> QED BY <1>1, <1>2, <1>3, <1>4, <1>5, <1>6 DEF IInv

LEMMA IInvStep ==
  ASSUME ~Ties, OverlapCoversLag, IInv, [Next]_vars
  PROVE  IInv'
<1>1. TypeOK'
  BY TypeStep DEF IInv
<1>2. StampsInv'
  BY StampsStep DEF IInv
<1>3. CopiesInv'
  BY <1>1, CopiesStep DEF IInv
<1>4. MarksInv'
  BY MarksStep DEF IInv
<1>5. NoLoss'
  BY NoLossStep
<1>6. \A d \in Drivers : (WindowInv(d) /\ BatchInv(d) /\ LoadedInv(d))'
  BY WindowStep, BatchStep, LoadedStep
<1> QED BY <1>1, <1>2, <1>3, <1>4, <1>5, <1>6 DEF IInv

\* No committed row is skipped for good, for any number of concurrent runs,
\* backfills, errors and crashes: if the overlap covers the commit lag and a
\* row's stamps are distinct, what the target lacks is in the next window.
THEOREM NothingIsSkipped ==
  ASSUME ~Ties, OverlapCoversLag
  PROVE  Spec => []NoLoss
<1>1. IInv /\ [Next]_vars => IInv'
  BY IInvStep
<1>2. IInv => NoLoss
  BY DEF IInv
<1> QED BY <1>1, <1>2, IInvInit, PTL DEF Spec

\* However many runs of a table overlap, the stored mark moves backwards only
\* in the force_set of a backfill; the guard inside the MERGE of advance is
\* enough, without any lock between the runs.
THEOREM OnlyBackfillRewinds == Spec => MarkNeverRegresses
<1>1. ASSUME TypeOK, [Next]_vars, mark' < mark PROVE IsBackfill
  <2>1. mark \in Int /\ ~(mark < mark)
    BY <1>1 DEF TypeOK, None
  <2>2. PICK d \in Drivers : Progress(d) \/ Disturb(d)
    BY <1>1, <2>1 DEF Next, Environment, vars
  <2>3. ~AdvanceWatermark(d)
    <3> SUFFICES ASSUME AdvanceWatermark(d) PROVE FALSE
      OBVIOUS
    <3>1. /\ mark' = newMark[d]
          /\ newMark[d] # None
          /\ mark = None \/ newMark[d] > mark
      BY <1>1, <2>1 DEF AdvanceWatermark, AdvanceGuard
    <3>2. newMark[d] \in Nat
      BY <1>1, <3>1 DEF TypeOK, LocalsTypeOK
    <3> QED BY <1>1, <2>1, <3>1, <3>2 DEF None
  <2>4. PICK value \in 1..MaxClock : ForceSet(d, value)
    BY <1>1, <2>1, <2>2, <2>3
    DEF Progress, Disturb, Extract, Load, StartRun, StartTask, Window,
        ProbeUpperBound, CountSource, ProbeMaxWatermark, ReadBatch, Merge,
        CollectMetrics, Reconcile, FinishTask, TaskSucceeded, RecordFailure,
        RetryOrStop, EscapeStart, Error, EscapeFail, Crash
  <2>5. pc[d] = "idle" /\ pc'[d] = "rewound"
    BY <1>1, <2>4 DEF ForceSet, Goto, TypeOK
  <2> QED BY <2>5 DEF IsBackfill
<1>2. TypeOK /\ [Next]_vars => [RewindIsBackfill]_vars
  BY <1>1 DEF RewindIsBackfill
<1>3. TypeOK /\ [Next]_vars => TypeOK'
  BY TypeStep
<1> QED BY <1>2, <1>3, TypeInit, PTL DEF Spec, MarkNeverRegresses

----------------------------------------------------------------------------
(***************************************************************************)
(* TableRunner implements Mirror: what the drivers do with windows,        *)
(* batches, retries and crashes is, seen from the source, the target and   *)
(* the mark, a load that only moves forward and a mark that keeps its      *)
(* promise.  Built on the inductive invariant above.                       *)
(***************************************************************************)

----------------------------------------------------------------------------
(* Versions.                                                               *)

\* A step of a driver copies rows that exist, and makes none up.
LEMMA CopiesStay ==
  ASSUME TypeOK, NEW d \in Drivers, Progress(d) \/ Disturb(d), NEW k \in Keys
  PROVE  Copies(k)' \subseteq Copies(k)
<1>1. /\ source' = source
      /\ target' = target \/ Merge(d)
      /\ \A e \in Drivers \ {d} : batch'[e] = batch[e]
      /\ batch'[d][k] \in {batch[d][k], source[k], NoRow}
  BY Frame DEF sourceVars
<1>2. target'[k] \in {target[k], batch[d][k]}
  BY <1>1 DEF Merge
<1>3. \A e \in Drivers : batch'[e][k] \in Copies(k)
  BY <1>1 DEF Copies
<1> QED BY <1>1, <1>2, <1>3 DEF Copies

\* The source only makes a row newer than all its copies (a transaction
\* stamps after the row's last stamp), and drivers only copy.
LEMMA VersionsStep ==
  ASSUME ~Ties, TypeOK, TypeOK', StampsInv, CopiesInv, VersionsInv, [Next]_vars
  PROVE  VersionsInv'
<1>1. ASSUME NEW k \in Keys, Commit(k), UNCHANGED <<target, driverVars>>
      PROVE  VersionsInv'
  <2>1. /\ source'[k] = [wm |-> pending[k], ver |-> source[k].ver + 1]
        /\ \A j \in Keys \ {k} : source'[j] = source[j]
        /\ source[k].wm < pending[k]
        /\ pending[k] \in Nat
    BY <1>1 DEF Commit, StampsInv, TypeOK, SourceTypeOK
  <2>2. \A j \in Keys \ {k} : Copies(j)' = Copies(j)
    BY <1>1, <2>1 DEF Copies, driverVars
  <2>3. Copies(k)' \subseteq Copies(k) \cup {source'[k]}
    BY <1>1 DEF Copies, driverVars
  <2>4. ASSUME NEW a \in Copies(k) PROVE InOrder(a, source'[k]) /\ InOrder(source'[k], a)
    <3>1. a \in Row /\ source[k] \in Row
      BY NoRowType DEF Copies, TypeOK, SourceTypeOK, LocalsTypeOK
    <3>2. a.wm <= source[k].wm
      BY <3>1 DEF Copies, CopiesInv, NotNewer, Row
    <3>3. InOrder(a, source[k])
      BY DEF VersionsInv, Copies
    <3>4. a.ver <= source[k].ver
      BY <3>1, <3>2, <3>3 DEF InOrder, Row
    <3> QED BY <2>1, <3>1, <3>2, <3>4 DEF InOrder, Row
  <2>5. \A a, b \in Copies(k)' : InOrder(a, b)
    BY <2>3, <2>4 DEF VersionsInv, InOrder
  <2> QED BY <2>2, <2>5 DEF VersionsInv, InOrder
<1>2. ASSUME \A k \in Keys : Copies(k)' \subseteq Copies(k) PROVE VersionsInv'
  BY <1>2 DEF VersionsInv, InOrder
<1>3. ASSUME UNCHANGED <<source, target, driverVars>> PROVE VersionsInv'
  BY <1>2, <1>3 DEF Copies, driverVars
<1> QED
  BY <1>1, <1>2, <1>3, CopiesStay
  DEF Next, Environment, SourceNext, Tick, Update, vars, sourceVars

ForwardInv == TypeOK /\ StampsInv /\ CopiesInv /\ VersionsInv

LEMMA ForwardInit == Init => ForwardInv
<1> SUFFICES ASSUME Init PROVE VersionsInv
  BY IInvInit DEF IInv, ForwardInv
<1>1. \A k \in Keys : Copies(k) \subseteq {NoRow}
  BY DEF Init, SourceInit, Copies, NoBatch
<1> QED BY <1>1 DEF VersionsInv, InOrder

LEMMA ForwardStep ==
  ASSUME ~Ties, ForwardInv, [Next]_vars
  PROVE  ForwardInv'
<1>1. TypeOK'
  BY TypeStep DEF ForwardInv
<1> QED BY <1>1, StampsStep, CopiesStep, VersionsStep DEF ForwardInv

\* What a MERGE leaves in the target is what was there or a newer version.
LEMMA MergeForward ==
  ASSUME ForwardInv, NEW d \in Drivers, Merge(d), NEW k \in Keys
  PROVE  \/ target'[k] = target[k]
         \/ target[k].ver < target'[k].ver
<1> SUFFICES ASSUME k \in Merged(d), batch[d][k] # target[k]
             PROVE  target[k].ver < batch[d][k].ver
  BY DEF Merge
<1>1. /\ batch[d][k] \in Row /\ target[k] \in Row
      /\ batch[d][k] # NoRow
  BY DEF Merged, ForwardInv, TypeOK, LocalsTypeOK
<1>2. InOrder(batch[d][k], target[k]) /\ InOrder(batch[d][k], NoRow)
  BY DEF ForwardInv, VersionsInv, Copies
<1>3. CASE target[k] = NoRow
  BY <1>1, <1>2, <1>3 DEF InOrder, NoRow, Row
<1>4. CASE batch[d][k].wm >= target[k].wm
  BY <1>1, <1>2, <1>4 DEF InOrder, Row
<1> QED BY <1>3, <1>4 DEF Merged, MergeGuard

\* No replay, from a retry, a backfill or a slower concurrent run, puts an
\* older version of a row over a newer one, if a row's stamps are distinct.
THEOREM TargetOnlyMovesForward ==
  ASSUME ~Ties
  PROVE  Spec => TargetNeverRegresses
<1> DEFINE Forward == \A k \in Keys : target'[k].ver >= target[k].ver
<1>1. ASSUME ForwardInv, [Next]_vars PROVE Forward
  <2> SUFFICES ASSUME NEW k \in Keys PROVE target'[k].ver >= target[k].ver
    OBVIOUS
  <2>1. target[k].ver \in Nat /\ target'[k].ver \in Nat
    BY <1>1, TypeStep DEF ForwardInv, TypeOK, Row
  <2>2. target' = target \/ \E d \in Drivers : Merge(d)
    BY <1>1, Frame DEF ForwardInv, Next, Environment, vars
  <2> QED BY <1>1, <2>1, <2>2, MergeForward
<1>2. ForwardInv /\ [Next]_vars => ForwardInv'
  BY ForwardStep
<1>3. ForwardInv /\ [Next]_vars => [Forward]_vars
  BY <1>1
<1> QED BY <1>2, <1>3, ForwardInit, PTL DEF Spec, TargetNeverRegresses

----------------------------------------------------------------------------
(* The refinement.                                                         *)

MirrorInv == IInv /\ VersionsInv

LEMMA MirrorInvStep ==
  ASSUME ~Ties, OverlapCoversLag, MirrorInv, [Next]_vars
  PROVE  MirrorInv'
BY IInvStep, VersionsStep DEF MirrorInv, IInv

\* A commit at the source is a Write of the contract: because the overlap
\* covers the commit lag, the new version is inside the next window.
LEMMA CommitIsWrite ==
  ASSUME OverlapCoversLag, MirrorInv, NEW k \in Keys, Commit(k),
         UNCHANGED <<target, mark>>
  PROVE  Contract!Write(k)
<1>1. /\ source' = [source EXCEPT ![k] = [wm  |-> pending[k],
                                          ver |-> source[k].ver + 1]]
      /\ pending[k] \in Nat
      /\ clock - pending[k] <= CommitLag
      /\ clock \in Nat
      /\ source \in [Keys -> Row]
  BY DEF Commit, MirrorInv, IInv, TypeOK, SourceTypeOK, StampsInv
<1>2. /\ source'[k].wm = pending[k]
      /\ source'[k].ver = source[k].ver + 1
      /\ source'[k] \in [wm : Nat, ver : Nat]
      /\ source' = [source EXCEPT ![k] = source'[k]]
  BY <1>1 DEF Row
<1>3. ComputeWindow(mark) = LowerBoundDefault \/ ComputeWindow(mark) <= clock - Overlap
  BY <1>1, WatermarkAssumption
  DEF ComputeWindow, None, MirrorInv, IInv, TypeOK, MarksInv
<1>4. ComputeWindow(mark) \in Int
  BY WatermarkAssumption DEF ComputeWindow, None, MirrorInv, IInv, TypeOK
<1>5. AtOrAfter(pending[k], LowerBoundDefault)
        => AtOrAfter(pending[k], ComputeWindow(mark))
  <2> HIDE DEF ComputeWindow
  <2> QED BY <1>1, <1>3, <1>4, WatermarkAssumption, SourceAssumption
          DEF AtOrAfter, OverlapCoversLag
<1> QED BY <1>2, <1>5
        DEF Contract!Write, Contract!AtOrAfter, Contract!ComputeWindow,
            Contract!None, AtOrAfter, ComputeWindow, None

\* A MERGE is a Load of the contract: the target takes versions that are not
\* older than its own and not newer than the source's.
LEMMA MergeIsLoad ==
  ASSUME MirrorInv, TypeOK', NEW d \in Drivers, Merge(d)
  PROVE  Contract!Load
<1>1. ForwardInv
  BY DEF MirrorInv, IInv, ForwardInv
<1>2. target' \in [Keys -> [wm : Nat, ver : Nat]]
  BY DEF TypeOK, Row
<1>3. UNCHANGED <<source, mark>>
  BY DEF Merge, sourceVars
<1>4. ASSUME NEW k \in Keys
      PROVE  /\ target[k].ver <= target'[k].ver
             /\ target'[k].ver <= source[k].ver
             /\ target'[k].ver = target[k].ver => target'[k] = target[k]
             /\ target'[k].ver = source[k].ver => target'[k] = source[k]
  <2>1. target[k] \in Row /\ target'[k] \in Row /\ source[k] \in Row
    BY <1>1 DEF ForwardInv, TypeOK, SourceTypeOK
  <2>2. target'[k] = target[k] \/ target[k].ver < target'[k].ver
    BY <1>1, MergeForward
  <2>3. target'[k] \in {target[k], batch[d][k]}
    BY DEF Merge
  <2>4. InOrder(target'[k], source[k])
    BY <1>1, <2>3 DEF ForwardInv, VersionsInv, Copies
  <2>5. target'[k].wm <= source[k].wm
    BY <1>1, <2>3 DEF ForwardInv, CopiesInv, NotNewer
  <2> QED BY <2>1, <2>2, <2>4, <2>5 DEF InOrder, Row
<1> QED BY <1>2, <1>3, <1>4 DEF Contract!Load

\* An advance that moves the mark is an Advance of the contract: the driver
\* has loaded what the new mark leaves behind.
LEMMA AdvanceIsAdvance ==
  ASSUME MirrorInv, NEW d \in Drivers, AdvanceWatermark(d), mark' # mark
  PROVE  Contract!Advance
<1>1. /\ mark' = newMark[d]
      /\ newMark[d] # None
      /\ mark = None \/ newMark[d] > mark
      /\ pc[d] = "advance"
      /\ UNCHANGED <<source, target>>
  BY DEF AdvanceWatermark, AdvanceGuard, Goto, sourceVars
<1>2. mark' \in Nat
  BY <1>1 DEF MirrorInv, IInv, TypeOK, LocalsTypeOK
<1>3. MirroredBefore(newMark[d] - Overlap)
  BY <1>1 DEF MirrorInv, IInv, LoadedInv
<1> QED BY <1>1, <1>2, <1>3
        DEF Contract!Advance, Contract!AdvanceGuard, Contract!MirroredBefore,
            Contract!AtOrAfter, Contract!ComputeWindow, Contract!None,
            MirroredBefore, Wanted, AtOrAfter, None

\* The drivers together implement the contract of Mirror, for any number of
\* them and whatever errors, crashes, retries and backfills they meet, if the
\* overlap covers the commit lag and a row's stamps are distinct.
THEOREM RunnerImplementsMirror ==
  ASSUME ~Ties, OverlapCoversLag
  PROVE  Spec => ImplementsMirror
<1>1. Init => Contract!Init
  BY DEF Init, SourceInit, NoRow, None, Contract!Init, Contract!NoRow,
         Contract!None
<1>2. Init => MirrorInv
  BY IInvInit, ForwardInit DEF MirrorInv, ForwardInv
<1>3. MirrorInv /\ [Next]_vars => MirrorInv'
  BY MirrorInvStep
<1>4. ASSUME MirrorInv, [Next]_vars
      PROVE  [Contract!Next]_(Contract!mirrorVars)
  <2>1. TypeOK /\ TypeOK'
    BY <1>4, TypeStep DEF MirrorInv, IInv
  <2>2. CASE UNCHANGED <<source, target, mark>>
    BY <2>2 DEF Contract!mirrorVars
  <2>3. ASSUME NEW k \in Keys, Commit(k), UNCHANGED <<target, mark>>
        PROVE  Contract!Next
    BY <1>4, <2>3, CommitIsWrite DEF Contract!Next
  <2>4. CASE Environment
    BY <2>2, <2>3, <2>4 DEF Environment, SourceNext, Tick, Update
  <2>5. ASSUME NEW d \in Drivers, Progress(d) \/ Disturb(d)
        PROVE  [Contract!Next]_(Contract!mirrorVars)
    <3>1. source' = source /\ (target' = target \/ Merge(d))
      BY <2>1, <2>5, Frame DEF sourceVars
    <3>2. CASE Merge(d)
      BY <1>4, <2>1, <3>2, MergeIsLoad DEF Contract!Next
    <3>3. CASE AdvanceWatermark(d)
      <4>1. target' = target
        BY <3>3 DEF AdvanceWatermark
      <4> QED BY <1>4, <2>2, <3>1, <3>3, <4>1, AdvanceIsAdvance
              DEF Contract!Next
    <3>4. ASSUME NEW value \in 1..MaxClock, ForceSet(d, value)
          PROVE  Contract!Next
      <4>1. /\ mark # None /\ mark' = value /\ value <= mark
            /\ UNCHANGED <<source, target>>
            /\ value \in Nat
        BY <3>4, SourceAssumption DEF ForceSet, sourceVars
      <4> QED BY <4>1 DEF Contract!Next, Contract!Rewind, Contract!None, None
    <3>5. CASE mark' = mark /\ ~Merge(d)
      BY <2>2, <3>1, <3>5
    <3> QED
      BY <2>5, <3>2, <3>3, <3>4, <3>5
      DEF Progress, Disturb, Extract, Load, StartRun, StartTask, Window,
          ProbeUpperBound, CountSource, ProbeMaxWatermark, ReadBatch, Merge,
          CollectMetrics, Reconcile, FinishTask, TaskSucceeded,
          RecordFailure, RetryOrStop, EscapeStart, Error, EscapeFail, Crash
  <2> QED BY <1>4, <2>2, <2>4, <2>5 DEF Next, vars, sourceVars
<1>5. MirrorInv /\ [Next]_vars => [Contract!Next]_(Contract!mirrorVars)
  BY <1>4
<1> QED BY <1>1, <1>2, <1>3, <1>5, PTL
        DEF Spec, ImplementsMirror, Contract!Spec
=============================================================================
