-------------------------- MODULE BatchRunner_proof --------------------------
(***************************************************************************)
(* Proofs about modules BatchRunner and Bundle, for every set of tables,   *)
(* every graph of dependencies, every pool size and every number of        *)
(* retries.                                                                *)
(***************************************************************************)
EXTENDS Bundle, FiniteSetTheorems, WellFoundedInduction, TLAPS

LEMMA TypeInit == Init => TypeOK
<1> SUFFICES ASSUME Init PROVE TypeOK
  OBVIOUS
<1>1. 1 \in 1..(Retries + 1)
  BY BatchAssumption
<1> QED BY <1>1 DEF Init, Selections, TypeOK, Phase, Result, RunStatus, Busy, Ended

\* A step of the main thread keeps the types; the workers' state changes
\* only when a level is submitted.
LEMMA TypeMain ==
  ASSUME TypeOK, Main \/ Interrupt \/ Crash
  PROVE  TypeOK'
<1> USE DEF TypeOK, Phase, RunStatus, args, workVars
<1>1. CASE OrderLevel
  <2>1. level' \in [Tables -> Nat] /\ depth' \in Nat
    BY <1>1 DEF OrderLevel
  <2> QED BY <1>1, <2>1 DEF OrderLevel
<1>2. CASE Refuse
  BY <1>2 DEF Refuse
<1>3. CASE StartRun
  BY <1>3 DEF StartRun
<1>4. CASE PartitionLevel
  <2>1. /\ outcome' \in [Tables -> Result \cup {"NONE"}]
        /\ failed' \subseteq Tables
    BY <1>4 DEF PartitionLevel, SkipForDependency, FailedAfterSkip, Blocked,
                Level, Result
  <2>2. /\ work' \in [Tables -> {"none", "queued"} \cup Busy \cup Ended]
        /\ phase' \in Phase /\ cur' \in Nat
    BY <1>4 DEF PartitionLevel
  <2> QED BY <1>4, <2>1, <2>2 DEF PartitionLevel
<1>5. CASE CameApart
  <2>1. PICK some \in SUBSET Blocked : SkipForDependency(some)
    BY <1>5 DEF CameApart
  <2>2. some \subseteq Tables
    BY DEF Blocked, Level
  <2>3. /\ outcome' \in [Tables -> Result \cup {"NONE"}]
        /\ failed' \subseteq Tables
    BY <2>1, <2>2 DEF SkipForDependency, FailedAfterSkip, Result
  <2> QED BY <1>5, <2>3 DEF CameApart
<1>6. CASE LevelEnds
  <2>1. CASE Raised \/ status = "FAILED"
    BY <1>6, <2>1 DEF LevelEnds
  <2>2. CASE ~(Raised \/ status = "FAILED")
    <3>1. \A t \in Submitted : work[t] \in Result
      BY <1>6, <2>2 DEF LevelEnds, LevelOver, Raised, Ended
    <3>2. outcome' \in [Tables -> Result \cup {"NONE"}]
      BY <1>6, <2>2, <3>1 DEF LevelEnds
    <3>3. failed' \subseteq Tables
      BY <1>6, <2>2 DEF LevelEnds, Submitted, Level
    <3> QED BY <1>6, <2>2, <3>2, <3>3 DEF LevelEnds
  <2> QED BY <2>1, <2>2
<1>7. CASE LevelsDone
  BY <1>7 DEF LevelsDone, DeriveRunStatus
<1>8. CASE FinishRun
  BY <1>8 DEF FinishRun
<1>9. CASE Interrupt
  BY <1>9 DEF Interrupt
<1>10. CASE Crash
  BY <1>10 DEF Crash
<1> QED BY <1>1, <1>2, <1>3, <1>4, <1>5, <1>6, <1>7, <1>8, <1>9, <1>10 DEF Main

\* What a step of the worker of t can touch, and what it leaves alone.
LEMMA WorkerFrame ==
  ASSUME TypeOK, NEW t \in Tables, Worker(t)
  PROVE  /\ UNCHANGED <<args, mainVars>>
         /\ work[t] \in {"queued"} \cup Busy
         /\ \E w \in Busy \cup Ended : work' = [work EXCEPT ![t] = w]
         /\ \A u \in Tables \ {t} : taskRow'[u] = taskRow[u]
         /\ work'[t] = "SUCCEEDED" => taskRow'[t] = "SUCCEEDED"
         /\ work'[t] = "SKIPPED" => t \in Disabled
<1> USE DEF TypeOK, WorkerStep, Busy, Ended, Result
<1>1. CASE TakeTable(t)
  BY <1>1 DEF TakeTable
<1>2. CASE SkipDisabled(t)
  BY <1>2 DEF SkipDisabled
<1>3. CASE StartTask(t)
  BY <1>3 DEF StartTask
<1>4. CASE TaskSucceeds(t)
  BY <1>4 DEF TaskSucceeds
<1>5. CASE TaskFails(t)
  BY <1>5 DEF TaskFails
<1> QED BY <1>1, <1>2, <1>3, <1>4, <1>5 DEF Worker

LEMMA TypeWorker ==
  ASSUME TypeOK, NEW t \in Tables, Worker(t)
  PROVE  TypeOK'
<1>1. /\ UNCHANGED <<args, mainVars>>
      /\ work' \in [Tables -> {"none", "queued"} \cup Busy \cup Ended]
  BY WorkerFrame DEF TypeOK
<1>2. taskRow' \in [Tables -> {"NONE", "RUNNING", "SUCCEEDED", "FAILED"}]
  BY DEF Worker, TakeTable, SkipDisabled, StartTask, TaskSucceeds, TaskFails,
         TypeOK
<1>3. attempt' \in [Tables -> 1..(Retries + 1)]
  <2>1. CASE TaskFails(t)
    <3>1. HasRetry(t) => attempt[t] + 1 \in 1..(Retries + 1)
      BY BatchAssumption DEF HasRetry, TypeOK
    <3> QED BY <2>1, <3>1 DEF TaskFails, TypeOK
  <2>2. CASE ~TaskFails(t)
    BY <2>2 DEF Worker, TakeTable, SkipDisabled, StartTask, TaskSucceeds,
                TypeOK
  <2> QED BY <2>1, <2>2
<1> QED BY <1>1, <1>2, <1>3 DEF TypeOK, args, mainVars

LEMMA TypeStep == TypeOK /\ [Next]_vars => TypeOK'
<1> SUFFICES ASSUME TypeOK, [Next]_vars PROVE TypeOK'
  OBVIOUS
<1>1. CASE UNCHANGED vars
  BY <1>1 DEF vars, args, mainVars, workVars, TypeOK
<1>2. CASE Next
  BY <1>2, TypeMain, TypeWorker DEF Next
<1> QED BY <1>1, <1>2

\* Every reachable state is well typed; in particular no table is tried more
\* often than its configuration allows.
THEOREM TypeCorrect == Spec => []TypeOK
BY TypeInit, TypeStep, PTL DEF Spec

----------------------------------------------------------------------------
(* Dependencies first.                                                     *)

\* The cases of a step, with the worker's own left whole.
LEMMA StepCases ==
  ASSUME [Next]_vars
  PROVE  \/ OrderLevel \/ StartRun \/ PartitionLevel \/ CameApart \/ LevelEnds
         \/ /\ UNCHANGED <<args, level, depth, cur, failed, outcome, workVars>>
            /\ phase' \in {phase, "refused", "closing", "done", "crashed"}
         \/ \E t \in Tables : Worker(t)
BY DEF Next, Main, Refuse, LevelsDone, FinishRun, Interrupt, Crash, vars, args,
       mainVars, workVars

LEMMA LevelsStep ==
  ASSUME TypeOK, LevelsInv, [Next]_vars
  PROVE  LevelsInv'
<1> USE DEF LevelsInv, DepsInBatch, Unordered, args
<1>1. CASE OrderLevel
  <2> SUFFICES ASSUME NEW t \in Tables, level'[t] # 0
               PROVE  /\ t \in selected
                      /\ level'[t] <= depth'
                      /\ \A u \in DepsInBatch(t) : /\ level'[u] # 0
                                                   /\ level'[u] < level'[t]
    BY <1>1 DEF OrderLevel
  <2>1. /\ depth' = depth + 1 /\ depth \in Nat
        /\ \A u \in Tables : level[u] \in Nat /\ level'[u] =
             IF u \in Ready THEN depth + 1 ELSE level[u]
        /\ \A u \in selected : u \in Tables
    BY <1>1 DEF OrderLevel, TypeOK
  <2>2. \A u \in Tables : level[u] # 0 => u \notin Ready
    BY DEF Ready
  <2>3. CASE t \in Ready
    <3>1. \A u \in DepsInBatch(t) : u \in Tables /\ level[u] # 0
      BY <2>1, <2>3 DEF Ready
    <3> QED BY <2>1, <2>2, <2>3, <3>1 DEF Ready
  <2>4. CASE t \notin Ready
    BY <2>1, <2>2, <2>4
  <2> QED BY <2>3, <2>4
<1>2. CASE StartRun
  BY <1>2 DEF StartRun
<1>3. CASE PartitionLevel
  BY <1>3 DEF PartitionLevel
<1>4. CASE CameApart
  BY <1>4 DEF CameApart
<1>5. CASE LevelEnds
  BY <1>5 DEF LevelEnds
<1>6. CASE /\ UNCHANGED <<args, level, depth, cur, failed, outcome, workVars>>
           /\ phase' \in {phase, "refused", "closing", "done", "crashed"}
  BY <1>6
<1>7. CASE \E t \in Tables : Worker(t)
  BY <1>7, WorkerFrame DEF mainVars
<1> QED BY <1>1, <1>2, <1>3, <1>4, <1>5, <1>6, <1>7, StepCases

LEMMA ProgressStep ==
  ASSUME TypeOK, LevelsInv, ProgressInv, [Next]_vars
  PROVE  ProgressInv'
<1> USE DEF ProgressInv, args
<1>1. CASE OrderLevel
  <2>1. /\ cur' = 1 /\ work' = work /\ phase' = "order"
        /\ \A t \in Tables : work[t] = "none"
    BY <1>1 DEF OrderLevel, workVars
  <2>2. \A t \in Tables : level'[t] \in Nat
    BY <1>1 DEF OrderLevel, TypeOK
  <2>3. \A t \in Tables : ~(level'[t] # 0 /\ level'[t] < 1)
    BY <2>2
  <2> QED BY <1>1, <2>1, <2>3
<1>2. CASE StartRun
  BY <1>2 DEF StartRun, workVars
<1>3. CASE PartitionLevel
  <2>1. /\ \A t \in Tables : level[t] \in Nat
        /\ cur \in Nat /\ level' = level
        /\ \A t \in Tables : outcome'[t] = IF t \in Blocked THEN "SKIPPED"
                                                           ELSE outcome[t]
    BY <1>3 DEF PartitionLevel, SkipForDependency, TypeOK
  <2>2. \A t \in Tables : level[t] = cur /\ level[t] # 0 => t \in Level(cur)
    BY <2>1 DEF LevelsInv, Level
  <2>3. \A t \in Tables : t \in Level(cur) => level[t] = cur /\ level[t] # 0
    BY <1>3, <2>1 DEF Level, LevelsInv, Unordered, PartitionLevel
  <2>4. CASE Blocked = Level(cur)
    <3>1. cur' = cur + 1 /\ phase' = "partition" /\ work' = work
      BY <1>3, <2>4 DEF PartitionLevel
    <3>2. ASSUME NEW t \in Tables, level[t] # 0, level[t] < cur + 1
          PROVE  outcome'[t] # "NONE"
      <4>1. level[t] < cur \/ level[t] = cur
        BY <2>1, <3>2
      <4> QED BY <2>1, <2>2, <2>4, <3>2, <4>1
    <3>3. \A t \in Tables : work[t] # "none" => /\ level[t] # 0
                                               /\ level[t] < cur + 1
      BY <2>1
    <3> QED BY <2>1, <3>1, <3>2, <3>3
  <2>5. CASE Blocked # Level(cur)
    <3>1. /\ cur' = cur /\ phase' = "level"
          /\ \A t \in Tables : work'[t] = IF t \in Level(cur) \ Blocked
                                            THEN "queued" ELSE work[t]
      BY <1>3, <2>5 DEF PartitionLevel
    <3>2. ASSUME NEW t \in Tables, level[t] = cur
          PROVE  work'[t] # "none" \/ outcome'[t] # "NONE"
      <4>1. cur # 0
        <5>1. Blocked \subseteq Level(cur)
          BY DEF Blocked
        <5>2. PICK x \in Level(cur) : x \notin Blocked
          BY <2>5, <5>1, Zenon
        <5>3. x \in Tables
          BY DEF Level, TypeOK
        <5> QED BY <2>3, <5>2, <5>3
      <4> QED BY <2>1, <2>2, <3>1, <3>2, <4>1
    <3> QED BY <1>3, <2>1, <2>3, <3>1, <3>2 DEF PartitionLevel
  <2> QED BY <2>4, <2>5
<1>4. CASE CameApart
  BY <1>4 DEF CameApart, SkipForDependency, workVars
<1>5. CASE LevelEnds
  <2>1. CASE Raised \/ status = "FAILED"
    BY <1>5, <2>1 DEF LevelEnds, workVars
  <2>2. CASE ~(Raised \/ status = "FAILED")
    <3>1. /\ level' = level /\ work' = work /\ cur' = cur + 1 /\ cur \in Nat
          /\ phase' = "partition"
          /\ \A t \in Tables : level[t] \in Nat
          /\ \A t \in Tables : outcome'[t] = IF t \in Submitted THEN work[t]
                                                               ELSE outcome[t]
      BY <1>5, <2>2 DEF LevelEnds, workVars, TypeOK
    <3>2. \A t \in Submitted : work[t] # "NONE"
      BY <1>5, <2>2 DEF LevelEnds, LevelOver, Ended, Result
    <3>3. \A t \in Tables : level[t] # 0 /\ level[t] = cur /\ work[t] # "none"
                              => t \in Submitted
      BY DEF Submitted, Level, LevelsInv
    <3>4. ASSUME NEW t \in Tables, level[t] # 0, level[t] < cur + 1
          PROVE  outcome'[t] # "NONE"
      <4>1. level[t] < cur \/ level[t] = cur
        BY <3>1, <3>4
      <4> QED BY <1>5, <3>1, <3>2, <3>3, <3>4, <4>1 DEF LevelEnds
    <3> QED BY <3>1, <3>4
  <2> QED BY <2>1, <2>2
<1>6. CASE /\ UNCHANGED <<args, level, depth, cur, failed, outcome, workVars>>
           /\ phase' \in {phase, "refused", "closing", "done", "crashed"}
  BY <1>6 DEF workVars
<1>7. CASE \E t \in Tables : Worker(t)
  <2>1. PICK t \in Tables : Worker(t)
    BY <1>7
  <2>2. /\ UNCHANGED <<args, mainVars>>
        /\ work[t] # "none" /\ work'[t] # "none"
        /\ \A u \in Tables \ {t} : work'[u] = work[u]
    BY <2>1, WorkerFrame DEF Busy, Ended, Result, TypeOK
  <2> QED BY <2>2 DEF mainVars
<1> QED BY <1>1, <1>2, <1>3, <1>4, <1>5, <1>6, <1>7, StepCases

\* What the main thread adds to `failed' and to the outcomes is of the level
\* it is working on, and nothing recorded is ever taken back.
LEMMA RecordsCurrent ==
  ASSUME TypeOK, LevelsInv, ProgressInv, [Next]_vars
  PROVE  /\ args' = args
         /\ \A t \in Tables : outcome[t] # "NONE" => outcome'[t] # "NONE"
         /\ \A t \in Tables : t \in failed' => t \in failed \/ level[t] = cur
<1> USE DEF args
<1>1. CASE PartitionLevel
  BY <1>1 DEF PartitionLevel, SkipForDependency, FailedAfterSkip, Blocked,
              Level, TypeOK
<1>2. CASE CameApart
  BY <1>2 DEF CameApart, SkipForDependency, FailedAfterSkip, Blocked, Level,
              TypeOK
<1>3. CASE LevelEnds
  BY <1>3 DEF LevelEnds, LevelOver, Ended, Result, Submitted, Level, TypeOK,
              Raised
<1>4. CASE \E t \in Tables : Worker(t)
  BY <1>4, WorkerFrame DEF mainVars
<1> QED BY <1>1, <1>2, <1>3, <1>4, StepCases DEF OrderLevel, StartRun

LEMMA SubmittedStep ==
  ASSUME BatchInv, [Next]_vars
  PROVE  SubmittedInv'
<1> SUFFICES ASSUME NEW t \in Tables, work'[t] # "none",
                    NEW u \in DepsInBatch(t)
             PROVE  /\ outcome'[u] # "NONE"
                    /\ SkipDependents => u \notin failed'
  BY RecordsCurrent DEF SubmittedInv, DepsInBatch, args, BatchInv
<1>1. u \in Tables /\ level[u] \in Nat /\ level[t] \in Nat /\ cur \in Nat
  BY DEF BatchInv, TypeOK, DepsInBatch
<1>2. CASE work[t] # "none"
  <2>1. level[t] <= cur /\ level[u] < level[t]
    BY <1>2 DEF BatchInv, ProgressInv, LevelsInv
  <2>2. level[u] # cur
    BY <1>1, <2>1
  <2> QED BY <1>1, <1>2, <2>2, RecordsCurrent DEF BatchInv, SubmittedInv
<1>3. CASE work[t] = "none"
  <2>1. PartitionLevel /\ t \in Level(cur) \ Blocked
    <3>1. CASE PartitionLevel
      BY <1>3, <3>1 DEF PartitionLevel, BatchInv, TypeOK
    <3>2. CASE \E v \in Tables : Worker(v)
      <4>1. PICK v \in Tables : Worker(v)
        BY <3>2
      <4>2. work[v] # "none" /\ \A x \in Tables \ {v} : work'[x] = work[x]
        BY <4>1, WorkerFrame DEF Busy, BatchInv, TypeOK
      <4> QED BY <1>3, <4>2
    <3>3. CASE ~PartitionLevel /\ ~ \E v \in Tables : Worker(v)
      BY <1>3, <3>3, StepCases
      DEF OrderLevel, StartRun, CameApart, LevelEnds, workVars
    <3> QED BY <3>1, <3>2, <3>3
  <2>2. level[t] = cur /\ level[t] # 0
    BY <2>1 DEF Level, PartitionLevel, BatchInv, LevelsInv, Unordered
  <2>3. level[u] # 0 /\ level[u] < cur
    BY <2>2 DEF BatchInv, LevelsInv
  <2>4. outcome[u] # "NONE" /\ level[u] # cur
    BY <1>1, <2>3 DEF BatchInv, ProgressInv
  <2>5. SkipDependents => u \notin failed
    BY <2>1 DEF Blocked, DepsInBatch
  <2> QED BY <1>1, <2>4, <2>5, RecordsCurrent DEF BatchInv
<1> QED BY <1>2, <1>3

LEMMA OutcomeStep ==
  ASSUME BatchInv, [Next]_vars
  PROVE  OutcomeInv'
<1> USE DEF OutcomeInv
<1>1. OutcomeInv /\ TypeOK
  BY DEF BatchInv
<1>2. CASE OrderLevel \/ StartRun
  BY <1>1, <1>2 DEF OrderLevel, StartRun, workVars
<1>3. CASE PartitionLevel
  <2>1. /\ taskRow' = taskRow
        /\ \A t \in Tables :
             /\ outcome'[t] = IF t \in Blocked THEN "SKIPPED" ELSE outcome[t]
             /\ t \notin failed' => t \notin failed /\ t \notin Blocked
    BY <1>1, <1>3 DEF PartitionLevel, SkipForDependency, FailedAfterSkip,
                      TypeOK
  <2>2. \A t \in Tables : \/ work'[t] = work[t]
                          \/ /\ work'[t] = "queued"
                             /\ t \in Level(cur) \ Blocked
    BY <1>1, <1>3 DEF PartitionLevel, TypeOK
  <2>3. \A t \in Level(cur) : work[t] = "none"
    BY <1>1, <1>3 DEF BatchInv, ProgressInv, PartitionLevel, Level, TypeOK
  <2> QED BY <1>1, <2>1, <2>2, <2>3 DEF TypeOK, Level
<1>4. CASE CameApart
  <2>1. PICK some \in SUBSET Blocked : SkipForDependency(some)
    BY <1>4 DEF CameApart
  <2> QED BY <1>1, <1>4, <2>1 DEF CameApart, SkipForDependency,
                                  FailedAfterSkip, workVars
<1>5. CASE LevelEnds
  <2>1. CASE Raised \/ status = "FAILED"
    BY <1>1, <1>5, <2>1 DEF LevelEnds, workVars
  <2>2. CASE ~(Raised \/ status = "FAILED")
    <3>1. /\ work' = work /\ taskRow' = taskRow
          /\ \A t \in Submitted : work[t] \in Result
          /\ failed' = failed \cup {t \in Submitted : work[t] = "FAILED"}
          /\ \A t \in Tables : outcome'[t] = IF t \in Submitted THEN work[t]
                                                               ELSE outcome[t]
      BY <1>5, <2>2 DEF LevelEnds, LevelOver, Ended, workVars, Raised
    <3> QED BY <1>1, <3>1 DEF Result
  <2> QED BY <2>1, <2>2
<1>6. CASE /\ UNCHANGED <<args, level, depth, cur, failed, outcome, workVars>>
           /\ phase' \in {phase, "refused", "closing", "done", "crashed"}
  BY <1>1, <1>6 DEF workVars
<1>7. CASE \E t \in Tables : Worker(t)
  <2>1. PICK t \in Tables : Worker(t)
    BY <1>7
  <2>2. /\ UNCHANGED <<outcome, failed>>
        /\ work[t] \notin {"SUCCEEDED", "SKIPPED"}
        /\ work'[t] = "SUCCEEDED" => taskRow'[t] = "SUCCEEDED"
        /\ work'[t] = "SKIPPED" => t \in Disabled
        /\ \A u \in Tables \ {t} : work'[u] = work[u] /\ taskRow'[u] = taskRow[u]
    BY <1>1, <2>1, WorkerFrame DEF Busy, mainVars, TypeOK
  <2> QED BY <1>1, <2>2
<1> QED BY <1>2, <1>3, <1>4, <1>5, <1>6, <1>7, StepCases

LEMMA BatchInvInit == Init => BatchInv
<1> SUFFICES ASSUME Init PROVE BatchInv
  OBVIOUS
<1>1. TypeOK
  BY TypeInit
<1> QED BY <1>1 DEF Init, Selections, BatchInv, LevelsInv, ProgressInv, SubmittedInv,
                    OutcomeInv, TypeOK

LEMMA BatchInvStep == BatchInv /\ [Next]_vars => BatchInv'
<1> SUFFICES ASSUME BatchInv, [Next]_vars PROVE BatchInv'
  OBVIOUS
<1>1. TypeOK' /\ LevelsInv' /\ ProgressInv'
  BY TypeStep, LevelsStep, ProgressStep DEF BatchInv
<1>2. SubmittedInv' /\ OutcomeInv'
  BY SubmittedStep, OutcomeStep
<1> QED BY <1>1, <1>2 DEF BatchInv

\* Whatever the graph of dependencies and the size of the pool, no table
\* starts before what it depends on has been recorded and, unless the run
\* continues on failure, shows SUCCEEDED in its task row or is disabled.
THEOREM DependenciesAreFirst == Spec => []DependenciesFirst
<1>1. BatchInv => DependenciesFirst
  <2> SUFFICES ASSUME BatchInv, NEW t \in Tables, work[t] \in Busy \cup Ended,
                      NEW u \in DepsInBatch(t)
               PROVE  /\ outcome[u] # "NONE"
                      /\ SkipDependents => \/ u \in Disabled
                                           \/ taskRow[u] = "SUCCEEDED"
    BY DEF DependenciesFirst
  <2>1. work[t] # "none"
    BY DEF Busy, Ended, Result
  <2>2. u \in Tables
    BY DEF DepsInBatch, BatchInv, TypeOK
  <2>3. outcome[u] # "NONE" /\ (SkipDependents => u \notin failed)
    BY <2>1 DEF BatchInv, SubmittedInv
  <2> QED BY <2>2, <2>3 DEF BatchInv, OutcomeInv
<1>2. BatchInv /\ [Next]_vars => BatchInv'
  BY BatchInvStep
<1> QED BY <1>1, <1>2, BatchInvInit, PTL DEF Spec

----------------------------------------------------------------------------
(* The run row.                                                            *)

\* The part of StatusInv about recorded outcomes.
LEMMA RecordedStep ==
  ASSUME BatchInv, StatusInv, [Next]_vars
  PROVE  /\ \A t \in Tables : /\ outcome'[t] # "NONE" => t \in selected'
                              /\ outcome'[t] = "FAILED" => work'[t] = "FAILED"
         /\ failed' # {} => \E t \in Tables : outcome'[t] = "FAILED"
<1> USE DEF StatusInv, args
<1>1. TypeOK
  BY DEF BatchInv
<1>2. CASE PartitionLevel
  <2>1. \A t \in Level(cur) : t \in Tables /\ t \in selected /\ work[t] = "none"
    BY <1>1, <1>2 DEF BatchInv, ProgressInv, PartitionLevel, Level, TypeOK
  <2>2. Blocked \subseteq Level(cur) /\ (Blocked # {} => failed # {})
    BY DEF Blocked
  <2>3. /\ selected' = selected
        /\ failed' = failed \cup Blocked
        /\ \A t \in Tables :
             /\ outcome'[t] = IF t \in Blocked THEN "SKIPPED" ELSE outcome[t]
             /\ t \notin Level(cur) => work'[t] = work[t]
    BY <1>1, <1>2 DEF PartitionLevel, SkipForDependency, FailedAfterSkip, TypeOK
  <2>4. \A t \in Tables : outcome[t] = "FAILED" =>
          t \notin Level(cur) /\ outcome'[t] = "FAILED"
    BY <2>1, <2>2, <2>3
  <2>5. failed' # {} => failed # {}
    BY <2>2, <2>3
  <2> QED BY <2>1, <2>2, <2>3, <2>4, <2>5
<1>3. CASE CameApart
  <2>1. PICK some \in SUBSET Blocked : SkipForDependency(some)
    BY <1>3 DEF CameApart
  <2>2. \A t \in Level(cur) : t \in Tables /\ t \in selected /\ work[t] = "none"
    BY <1>1, <1>3 DEF BatchInv, ProgressInv, CameApart, Level, TypeOK
  <2>3. some \subseteq Level(cur) /\ (some # {} => failed # {})
    BY DEF Blocked
  <2>4. /\ selected' = selected /\ work' = work
        /\ failed' = failed \cup some
        /\ \A t \in Tables :
             outcome'[t] = IF t \in some THEN "SKIPPED" ELSE outcome[t]
    BY <1>3, <2>1 DEF CameApart, SkipForDependency, FailedAfterSkip, workVars
  <2>5. \A t \in Tables : outcome[t] = "FAILED" => outcome'[t] = "FAILED"
    BY <2>2, <2>3, <2>4
  <2>6. failed' # {} => failed # {}
    BY <2>3, <2>4
  <2> QED BY <2>2, <2>3, <2>4, <2>5, <2>6
<1>4. CASE LevelEnds
  <2>1. CASE Raised \/ status = "FAILED"
    BY <1>4, <2>1 DEF LevelEnds, workVars
  <2>2. CASE ~(Raised \/ status = "FAILED")
    <3>1. /\ work' = work /\ selected' = selected
          /\ failed' = failed \cup {t \in Submitted : work[t] = "FAILED"}
          /\ \A t \in Tables : outcome'[t] = IF t \in Submitted THEN work[t]
                                                               ELSE outcome[t]
      BY <1>4, <2>2 DEF LevelEnds, workVars
    <3>2. \A t \in Submitted : t \in Tables /\ t \in selected
      BY <1>1 DEF Submitted, Level, TypeOK
    <3>3. \A t \in Tables : outcome[t] = "FAILED" => outcome'[t] = "FAILED"
      BY <3>1
    <3>4. failed' # {} => \/ failed # {}
                          \/ \E t \in Submitted : work[t] = "FAILED"
      BY <3>1
    <3> QED BY <3>1, <3>2, <3>3, <3>4
  <2> QED BY <2>1, <2>2
<1>5. CASE \E t \in Tables : Worker(t)
  <2>1. PICK t \in Tables : Worker(t)
    BY <1>5
  <2>2. /\ UNCHANGED <<selected, outcome, failed>>
        /\ work[t] # "FAILED"
        /\ \A u \in Tables \ {t} : work'[u] = work[u]
    BY <1>1, <2>1, WorkerFrame DEF Busy, mainVars, TypeOK
  <2> QED BY <2>2
<1> QED BY <1>2, <1>3, <1>4, <1>5, StepCases DEF OrderLevel, StartRun, workVars

\* The part about the derived status.
LEMMA StatusStep ==
  ASSUME BatchInv, StatusInv, [Next]_vars
  PROVE  /\ status' \in {"SUCCEEDED", "PARTIAL"} =>
              /\ phase' \in {"closing", "done", "crashed"}
              /\ status' = DeriveRunStatus'
              /\ \A t \in selected' : outcome'[t] # "NONE"
         /\ runRow' \in {"SUCCEEDED", "PARTIAL"}
              => runRow' = status' /\ phase' = "done"
<1> USE DEF StatusInv, args
<1>1. CASE LevelsDone
  <2>1. /\ UNCHANGED <<selected, outcome, runRow>>
        /\ status' = DeriveRunStatus /\ phase' = "closing"
        /\ phase = "partition" /\ cur > depth
    BY <1>1 DEF LevelsDone
  <2>2. DeriveRunStatus' = DeriveRunStatus
    BY <2>1 DEF DeriveRunStatus, Recorded
  <2>3. ASSUME NEW t \in selected PROVE outcome[t] # "NONE"
    <3>1. t \in Tables /\ level[t] \in Nat /\ depth \in Nat /\ cur \in Nat
      BY DEF BatchInv, TypeOK
    <3>2. level[t] # 0 /\ level[t] <= depth
      BY <2>1, <3>1 DEF BatchInv, LevelsInv, Unordered
    <3>3. level[t] < cur
      BY <2>1, <3>1, <3>2
    <3> QED BY <3>1, <3>2, <3>3 DEF BatchInv, ProgressInv
  <2> QED BY <2>1, <2>2, <2>3
<1>2. CASE FinishRun \/ Crash \/ Refuse \/ Interrupt \/ UNCHANGED vars
  <2>1. UNCHANGED <<selected, outcome>>
    BY <1>2 DEF FinishRun, Crash, Refuse, Interrupt, vars, mainVars
  <2>2. DeriveRunStatus' = DeriveRunStatus
    BY <2>1 DEF DeriveRunStatus, Recorded
  <2> QED BY <1>2, <2>1, <2>2
          DEF FinishRun, Crash, Refuse, Interrupt, vars, mainVars, Over
<1>3. CASE OrderLevel \/ StartRun \/ PartitionLevel \/ CameApart \/ LevelEnds
  <2>1. phase \in {"order", "partition", "level"}
    BY <1>3 DEF OrderLevel, StartRun, PartitionLevel, CameApart, LevelEnds
  <2>2. /\ status' \in {status, "FAILED"}
        /\ runRow' \in {runRow, "NONE", "RUNNING"}
    BY <1>3 DEF OrderLevel, StartRun, PartitionLevel, CameApart, LevelEnds
  <2> QED BY <2>1, <2>2
<1>4. CASE \E t \in Tables : Worker(t)
  <2>1. UNCHANGED <<selected, outcome, status, phase, runRow>>
    BY <1>4, WorkerFrame DEF mainVars, BatchInv
  <2>2. DeriveRunStatus' = DeriveRunStatus
    BY <2>1 DEF DeriveRunStatus, Recorded
  <2> QED BY <2>1, <2>2
<1> QED BY <1>1, <1>2, <1>3, <1>4 DEF Next, Main

\* A run row that says SUCCEEDED or PARTIAL agrees with the task rows, for
\* every graph, pool, failure and interrupt.
THEOREM RunRowTellsTheTruth == Spec => []RunRowIsTruthful
<1>1. BatchInv /\ StatusInv => RunRowIsTruthful
  <2> SUFFICES ASSUME BatchInv, StatusInv PROVE RunRowIsTruthful
    OBVIOUS
  <2>1. ASSUME runRow = "SUCCEEDED", NEW t \in selected \ Disabled
        PROVE  taskRow[t] = "SUCCEEDED"
    <3>1. Recorded("FAILED") = {} /\ outcome[t] # "NONE" /\ t \in Tables
      BY <2>1 DEF StatusInv, DeriveRunStatus, BatchInv, TypeOK
    <3>2. t \notin failed
      BY <3>1 DEF StatusInv, Recorded
    <3> QED BY <2>1, <3>1, <3>2 DEF BatchInv, OutcomeInv
  <2>2. ASSUME runRow = "PARTIAL"
        PROVE  /\ \E t \in selected : work[t] = "FAILED"
               /\ \E t \in selected : outcome[t] \in {"SUCCEEDED", "SKIPPED"}
    <3>1. /\ Recorded("FAILED") # {}
          /\ Recorded("SUCCEEDED") \cup Recorded("SKIPPED") # {}
      BY <2>2 DEF StatusInv, DeriveRunStatus
    <3> QED BY <3>1 DEF StatusInv, Recorded
  <2> QED BY <2>1, <2>2 DEF RunRowIsTruthful
<1>2. Init => BatchInv /\ StatusInv
  BY BatchInvInit DEF Init, Selections, StatusInv
<1>3. BatchInv /\ StatusInv /\ [Next]_vars => (BatchInv /\ StatusInv)'
  <2> SUFFICES ASSUME BatchInv, StatusInv, [Next]_vars
               PROVE  BatchInv' /\ StatusInv'
    OBVIOUS
  <2> QED BY BatchInvStep, RecordedStep, StatusStep DEF StatusInv
<1> QED BY <1>1, <1>2, <1>3, PTL DEF Spec

----------------------------------------------------------------------------
(* Which batches are refused.                                              *)

LEMMA LeastNat ==
  ASSUME NEW T, T \subseteq Nat, T # {}
  PROVE  \E x \in T : \A y \in T : x <= y
<1> DEFINE R == OpToRel(<, Nat)
<1>1. IsWellFoundedOn(R, Nat)
  BY NatLessThanWellFounded
<1>2. \A x, y \in Nat : <<x, y>> \in R <=> x < y
  BY DEF OpToRel
<1> HIDE DEF R
<1>3. PICK x \in T : \A y \in T : ~(<<y, x>> \in R)
  BY <1>1, WFMin
<1>4. \A y \in T : ~(y < x)
  BY <1>2, <1>3
<1> QED BY <1>4

\* Tables that all have a level can be ordered: in every part of them, one
\* of the least level depends on none of that part.
LEMMA LevelsAreAcyclic ==
  ASSUME TypeOK, LevelsInv, Unordered = {}
  PROVE  Acyclic(selected)
<1> SUFFICES ASSUME NEW P \in SUBSET selected, P # {}
             PROVE  \E t \in P : deps[t] \cap P = {}
  BY DEF Acyclic
<1> DEFINE L == {level[t] : t \in P}
<1>1. \A t \in P : t \in Tables /\ level[t] \in Nat /\ level[t] # 0
  BY DEF TypeOK, Unordered
<1>2. L \subseteq Nat /\ L # {}
  BY <1>1
<1>3. PICK m \in L : \A n \in L : m <= n
  BY <1>2, LeastNat
<1>4. PICK t \in P : level[t] = m
  BY <1>3
<1>5. ASSUME NEW u \in deps[t] \cap P PROVE FALSE
  <2>1. u \in DepsInBatch(t)
    BY <1>5 DEF DepsInBatch
  <2>2. level[u] < level[t]
    BY <1>1, <1>4, <2>1 DEF LevelsInv
  <2>3. level[t] <= level[u]
    BY <1>3, <1>4, <1>5
  <2> QED BY <1>1, <1>4, <1>5, <2>2, <2>3
<1> QED BY <1>4, <1>5

\* A table that depends on itself, or a rest of which none can start, is a
\* part without a first table.
LEMMA RefusedAreCyclic ==
  ASSUME TypeOK, SelfDependent \/ (Unordered # {} /\ Ready = {})
  PROVE  ~Acyclic(selected)
<1>1. CASE SelfDependent
  <2>1. PICK t \in selected : t \in deps[t]
    BY <1>1 DEF SelfDependent, DepsInBatch
  <2>2. {t} \in SUBSET selected /\ {t} # {}
    BY <2>1
  <2>3. \A u \in {t} : deps[u] \cap {t} # {}
    BY <2>1
  <2> QED BY <2>2, <2>3 DEF Acyclic
<1>2. CASE Unordered # {} /\ Ready = {}
  <2>1. Unordered \in SUBSET selected
    BY DEF Unordered
  <2>2. ASSUME NEW t \in Unordered PROVE deps[t] \cap Unordered # {}
    <3>1. PICK u \in DepsInBatch(t) : level[u] = 0
      BY <1>2, <2>2 DEF Ready
    <3> QED BY <3>1 DEF DepsInBatch, Unordered
  <2> QED BY <1>2, <2>1, <2>2 DEF Acyclic
<1> QED BY <1>1, <1>2

\* order_tables refuses a batch exactly when its tables depend on each other
\* in a circle, whatever the dependencies (DependencyError).
THEOREM OnlyCyclesAreRefused == Spec => []RefusedIffCyclic
<1>1. Init => RefusedIffCyclic
  BY DEF Init, RefusedIffCyclic
<1>2. ASSUME BatchInv, RefusedIffCyclic, [Next]_vars PROVE RefusedIffCyclic'
  <2>0. TypeOK /\ LevelsInv
    BY <1>2 DEF BatchInv
  <2>1. CASE Refuse
    BY <2>0, <2>1, RefusedAreCyclic
       DEF Refuse, args, Acyclic, RefusedIffCyclic
  <2>2. CASE StartRun
    BY <2>0, <2>2, LevelsAreAcyclic
       DEF StartRun, args, Acyclic, RefusedIffCyclic
  <2>3. CASE /\ ~Refuse /\ ~StartRun
    <3>1. /\ selected' = selected /\ deps' = deps
          /\ phase' = "refused" => phase = "refused"
          /\ phase' \notin {"order", "refused", "crashed"}
               => phase \notin {"order", "refused", "crashed"}
      BY <1>2, <2>0, <2>3, WorkerFrame
         DEF Next, Main, OrderLevel, PartitionLevel, CameApart, LevelEnds,
             LevelsDone, FinishRun, Interrupt, Crash, vars, args, mainVars
    <3> QED BY <1>2, <3>1 DEF RefusedIffCyclic, Acyclic
  <2> QED BY <2>1, <2>2, <2>3
<1> QED BY <1>1, <1>2, BatchInvInit, BatchInvStep, PTL DEF Spec

----------------------------------------------------------------------------
(* The closed run.                                                         *)

\* The step of a worker, as far as QuietInv looks at it.
LEMMA WorkerCases ==
  ASSUME TypeOK, NEW t \in Tables, Worker(t)
  PROVE  /\ work[t] = "queued" => /\ phase = "level"
                                  /\ work'[t] = "starting"
                                  /\ Serial => /\ ~Raised
                                               /\ \A u \in Tables : work[u] \notin Busy
         /\ work[t] \in {"queued"} \cup Busy
         /\ work'[t] \in Busy \cup Ended
         /\ \A u \in Tables \ {t} : work'[u] = work[u]
         /\ UNCHANGED <<args, mainVars>>
<1>1. CASE TakeTable(t)
  <2>1. ASSUME Serial PROVE \A u \in Tables : work[u] \notin Busy
    <3> DEFINE B == {u \in Tables : work[u] \in Busy}
    <3>1. IsFiniteSet(B)
      BY BatchAssumption, FS_Subset
    <3>2. Cardinality(B) < 1
      BY <1>1, <2>1 DEF TakeTable
    <3>3. Cardinality(B) \in Nat
      BY <3>1, FS_CardinalityType
    <3>4. Cardinality(B) = 0
      BY <3>2, <3>3
    <3>5. B = {}
      BY <3>1, <3>4, FS_EmptySet
    <3> QED BY <3>5
  <2> QED BY <1>1, <2>1 DEF TakeTable, WorkerStep, TypeOK, Busy
<1>2. CASE ~TakeTable(t)
  <2>1. work[t] # "queued"
    BY <1>2 DEF Worker, SkipDisabled, StartTask, TaskSucceeds, TaskFails
  <2> QED BY <2>1, WorkerFrame DEF TypeOK
<1> QED BY <1>1, <1>2

LEMMA QuietWorker ==
  ASSUME TypeOK, QuietInv, NEW t \in Tables, Worker(t)
  PROVE  QuietInv'
<1>0. /\ work[t] = "queued" => /\ phase = "level"
                               /\ work'[t] = "starting"
                               /\ Serial => /\ ~Raised
                                            /\ \A u \in Tables : work[u] \notin Busy
      /\ work[t] \in {"queued"} \cup Busy
      /\ work'[t] \in Busy \cup Ended
      /\ \A u \in Tables \ {t} : work'[u] = work[u]
      /\ UNCHANGED <<phase, level, cur, selected, runRow>>
  BY WorkerCases DEF args, mainVars
<1>1. /\ Submitted' = Submitted
      /\ Serial' <=> Serial
  <2>1. \A u \in Tables : work'[u] # "none" <=> work[u] # "none"
    BY <1>0 DEF Busy, Ended, Result
  <2>2. Submitted' = Submitted
    BY <1>0, <2>1 DEF Submitted, Level, TypeOK
  <2> QED BY <2>2 DEF Serial
<1>2. \A u \in Tables :
        /\ work'[u] \in Busy => phase \in {"level", "crashed"} /\ level[u] = cur
        /\ work'[u] = "queued" /\ phase \in {"partition", "level"}
             => phase = "level" /\ level[u] = cur
  BY <1>0 DEF QuietInv, Busy, Ended, Result
<1>3. ASSUME phase = "level", Serial
      PROVE  /\ \A v, u \in Tables : work'[v] \in Busy /\ work'[u] \in Busy => v = u
             /\ Raised' => \A u \in Tables : work'[u] \notin Busy
  \* Nobody but t is being loaded, and no error is known.
  <2>1. ~Raised /\ \A u \in Tables \ {t} : work[u] \notin Busy
    BY <1>0, <1>3 DEF QuietInv
  <2>2. \A u \in Tables \ {t} : work'[u] \notin Busy
    BY <1>0, <2>1
  <2>3. ASSUME Raised' PROVE work'[t] \notin Busy
    <3>1. PICK u \in Submitted : work'[u] = "raised"
      BY <1>1, <2>3 DEF Raised
    <3>2. u \in Tables
      BY <3>1 DEF Submitted, Level, TypeOK
    <3>3. u = t
      BY <1>0, <2>1, <3>1, <3>2 DEF Raised
    <3> QED BY <3>1, <3>3 DEF Busy
  <2> QED BY <2>2, <2>3
<1> QED BY <1>0, <1>1, <1>2, <1>3 DEF QuietInv

\* When a level is over, nothing of it is being loaded.
LEMMA LevelOverIsQuiet ==
  ASSUME BatchInv, QuietInv, phase = "level", LevelOver, NEW t \in Tables
  PROVE  /\ work[t] \notin Busy
         /\ ~Raised => work[t] # "queued"
<1>1. work[t] \in Busy \cup {"queued"} => t \in Submitted
  <2> SUFFICES ASSUME work[t] \in Busy \cup {"queued"} PROVE t \in Submitted
    OBVIOUS
  <2>1. level[t] = cur
    BY DEF QuietInv
  <2>2. work[t] # "none"
    BY DEF Busy
  <2>3. t \in selected
    BY <2>2 DEF BatchInv, ProgressInv, LevelsInv
  <2> QED BY <2>1, <2>2, <2>3 DEF Submitted, Level
<1>2. CASE \A u \in Submitted : work[u] \in Ended
  BY <1>1, <1>2 DEF Busy, Ended, Result
<1>3. CASE Serial /\ Raised
  BY <1>3 DEF QuietInv
<1> QED BY <1>2, <1>3 DEF LevelOver

LEMMA QuietStep == BatchInv /\ QuietInv /\ [Next]_vars => QuietInv'
<1> SUFFICES ASSUME BatchInv, QuietInv, [Next]_vars PROVE QuietInv'
  OBVIOUS
<1>0. TypeOK
  BY DEF BatchInv
\* Where no level is executed, nobody loads.
<1>1. ASSUME phase' # "level", work' = work, level' = level,
             \A t \in Tables : work[t] \in Busy => phase' = "crashed" /\ cur' = cur,
             \A t \in Tables : work[t] = "queued" => phase' # "partition",
             runRow' \in {"SUCCEEDED", "FAILED", "PARTIAL"} => phase' = "done"
      PROVE  QuietInv'
  BY <1>1 DEF QuietInv
<1>2. CASE OrderLevel \/ Refuse \/ StartRun
  <2>1. phase = "order" /\ \A t \in Tables : work[t] = "none"
    BY <1>2 DEF OrderLevel, Refuse, StartRun, BatchInv, ProgressInv
  <2> QED BY <1>2, <2>1 DEF OrderLevel, Refuse, StartRun, QuietInv, workVars, Busy
<1>3. CASE PartitionLevel
  <2>1. \A t \in Tables : work[t] \notin Busy /\ work[t] # "queued"
    BY <1>3 DEF PartitionLevel, QuietInv
  <2>2. /\ phase = "partition" /\ runRow' = runRow /\ level' = level
        /\ \A t \in Tables : work'[t] # work[t] =>
             /\ work'[t] = "queued" /\ level[t] = cur
             /\ cur' = cur /\ phase' = "level"
    BY <1>0, <1>3 DEF PartitionLevel, Level, TypeOK
  <2>3. \A t \in Tables : work'[t] \notin Busy
    BY <2>1, <2>2 DEF Busy
  <2> QED BY <2>1, <2>2, <2>3 DEF QuietInv
<1>4. CASE CameApart \/ LevelsDone
  BY <1>1, <1>4 DEF CameApart, LevelsDone, QuietInv, workVars
<1>5. CASE LevelEnds
  <2>1. \A t \in Tables : /\ work[t] \notin Busy
                          /\ ~Raised => work[t] # "queued"
    BY <1>5, LevelOverIsQuiet DEF LevelEnds
  <2> QED BY <1>1, <1>5, <2>1 DEF LevelEnds, QuietInv, workVars
<1>6. CASE FinishRun
  BY <1>1, <1>6 DEF FinishRun, QuietInv, workVars
<1>7. CASE Crash
  BY <1>1, <1>7 DEF Crash, QuietInv, workVars, Over
<1>8. CASE Interrupt \/ UNCHANGED vars
  <2>1. UNCHANGED <<work, level, cur, phase, selected, runRow>>
    BY <1>8 DEF Interrupt, vars, args, mainVars, workVars
  <2> QED BY <2>1 DEF QuietInv, Serial, Submitted, Level, Raised
<1>9. ASSUME NEW t \in Tables, Worker(t) PROVE QuietInv'
  BY <1>0, <1>9, QuietWorker
<1> QED BY <1>2, <1>3, <1>4, <1>5, <1>6, <1>7, <1>8, <1>9 DEF Next, Main

\* No worker is still loading a table when the run row is closed, for every
\* pool, also when an error or an interrupt ended the run (_run_level).
THEOREM ClosedRunsAreQuiet == Spec => []ClosedRunIsQuiet
<1>1. Init => QuietInv
  BY DEF Init, QuietInv, Busy
<1>2. QuietInv => ClosedRunIsQuiet
  BY DEF QuietInv, ClosedRunIsQuiet
<1> QED BY <1>1, <1>2, QuietStep, BatchInvInit, BatchInvStep, PTL DEF Spec

----------------------------------------------------------------------------
(* The generated job.                                                      *)

\* What comes before t in the job, and what a disabled table that one of
\* these depends on has before it in the batch, is closed under the
\* dependencies of the batch.
LEMMA JobOrder ==
  ASSUME TypeOK, NEW t \in JobTables, NEW u \in JobTables, BatchBefore(u, t)
  PROVE  JobBefore(u, t) \/ \E d \in selected : LostThrough(d, u, t)
<1> DEFINE R == {x \in JobTables : JobBefore(x, t)}
           D == {d \in selected \cap Disabled : \E x \in R : d \in deps[x]}
           Q == R \cup {y \in selected : \E d \in D : BatchBefore(y, d)}
<1>1. t \in R
  BY DEF JobBefore, Leads
<1>2. \A x \in R : Edges(x) \subseteq R
  <2> SUFFICES ASSUME NEW x \in R, NEW y \in Edges(x) PROVE JobBefore(y, t)
    BY DEF Edges
  <2> SUFFICES ASSUME NEW P \in SUBSET JobTables, t \in P,
                      \A z \in P : Edges(z) \subseteq P
               PROVE  y \in P
    BY DEF JobBefore, Leads
  <2>1. x \in P
    BY DEF JobBefore, Leads
  <2> QED BY <2>1
<1>3. \A d \in D, y \in selected : BatchBefore(y, d)
        => \A z \in DepsInBatch(y) : BatchBefore(z, d)
  BY DEF BatchBefore, Leads
<1>4. \A d \in D : BatchBefore(d, d)
  BY DEF BatchBefore, Leads
<1>5. ASSUME NEW x \in Q PROVE DepsInBatch(x) \subseteq Q
  <2> SUFFICES ASSUME NEW v \in DepsInBatch(x) PROVE v \in Q
    OBVIOUS
  <2>0. v \in selected /\ v \in deps[x]
    BY DEF DepsInBatch
  <2>1. CASE x \in R /\ v \notin Disabled
    BY <1>2, <2>0, <2>1 DEF Edges, JobTables
  <2>2. CASE x \in R /\ v \in Disabled
    BY <1>4, <2>0, <2>2
  <2>3. CASE x \notin R
    BY <1>3, <1>5, <2>0, <2>3
  <2> QED BY <2>1, <2>2, <2>3
<1>6. Q \in SUBSET selected /\ t \in Q
  BY <1>1 DEF JobTables
<1>7. u \in Q
  BY <1>5, <1>6 DEF BatchBefore, Leads
<1>8. ASSUME NEW d \in D, BatchBefore(u, d) PROVE LostThrough(d, u, t)
  <2>1. PICK x \in R : d \in deps[x]
    OBVIOUS
  <2>2. d \in Tables /\ d \notin JobTables
    BY DEF TypeOK, JobTables
  <2>3. <<x, d>> \in NotExpressed
    BY <2>1, <2>2 DEF NotExpressed
  <2> QED BY <1>8, <2>1, <2>3 DEF LostThrough
<1> QED BY <1>7, <1>8

\* bundle.py: "Silently dropping an ordering constraint would be the worst
\* outcome".  The job of a group orders what the batch orders, or its
\* description names the missing edge, for every graph of dependencies.
THEOREM JobsKeepOrder == Spec => []JobKeepsOrder
<1>1. ASSUME BatchInv, RefusedIffCyclic, Ordered PROVE JobFitsLevels
  <2>1. Acyclic(selected)
    BY <1>1 DEF RefusedIffCyclic, Ordered
  <2>2. Acyclic(JobTables)
    BY <2>1 DEF Acyclic, JobTables
  <2>3. ASSUME NEW t \in JobTables, NEW u \in Edges(t)
        PROVE  u \in JobTables /\ level[u] < level[t]
    <3>1. t \in Tables /\ t \in selected /\ Unordered = {}
      BY <1>1 DEF JobTables, BatchInv, TypeOK, LevelsInv, Ordered
    <3>2. level[t] # 0 /\ u \in DepsInBatch(t)
      BY <3>1 DEF Unordered, Edges, DepsInBatch, JobTables
    <3> QED BY <1>1, <3>1, <3>2 DEF BatchInv, LevelsInv, Edges
  <2> QED BY <2>2, <2>3 DEF JobFitsLevels
<1>2. ASSUME BatchInv, RefusedIffCyclic PROVE JobKeepsOrder
  <2> SUFFICES ASSUME Ordered PROVE JobKeepsOrder
    BY DEF JobKeepsOrder
  <2>1. \A t, u \in JobTables :
          t # u /\ BatchBefore(u, t) =>
            JobBefore(u, t) \/ \E d \in selected : LostThrough(d, u, t)
    BY <1>2, JobOrder DEF BatchInv
  <2>2. \A pair \in CrossGroupReport : pair[1] \in JobTables => pair \in NotExpressed
    BY DEF CrossGroupReport, NotExpressed, JobTables
  <2> QED BY <1>1, <1>2, <2>1, <2>2 DEF JobKeepsOrder
<1> QED BY <1>2, OnlyCyclesAreRefused, BatchInvInit, BatchInvStep, PTL DEF Spec
=============================================================================
