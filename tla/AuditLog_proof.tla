--------------------------- MODULE AuditLog_proof ---------------------------
(***************************************************************************)
(* Proofs about AuditLog for every set of tables, every size of the pool,  *)
(* every buffer limit and every number of events and faults.               *)
(***************************************************************************)
EXTENDS AuditLog, FiniteSetTheorems, SequenceTheorems, TLAPS

----------------------------------------------------------------------------
(* Types.                                                                  *)

\* A thread that is inside emit has an event; only a thread that executes a
\* table emits with flush=True.
CallInv == \A th \in Threads :
             /\ pc[th] \notin {"idle", "dead"} => event[th] \in Event
             /\ flushing[th] # "no" => table[th] # NoTable

LEMMA TypeInit == Init => TypeOK /\ CallInv
BY AuditAssumption DEF Init, TypeOK, CallInv, PC, NoEvent

\* Entering emit.
LEMMA EmitType ==
  ASSUME TypeOK, CallInv, NEW th \in Threads, NEW t \in Tables,
         NEW flush \in {"no", "attempt", "table"}, Emit(th, t, flush),
         emitted[t] < MaxEvents,
         \/ table' = table /\ (flush = "no" \/ table[th] = t)
         \/ table' = [table EXCEPT ![th] = t]
  PROVE  TypeOK' /\ CallInv'
<1> USE AuditAssumption
<1>1. emitted[t] \in Nat /\ emitted[t] + 1 \in 1..MaxEvents
  BY DEF TypeOK
<1>2. [of |-> t, nth |-> emitted[t] + 1, seq |-> 0] \in Event
  BY <1>1 DEF Event
<1>3. /\ sequence' \in Nat
      /\ emitted' \in [Tables -> 0..MaxEvents]
      /\ pc' \in [Threads -> PC]
      /\ event' \in [Threads -> Event \cup {NoEvent}]
      /\ flushing' \in [Threads -> {"no", "attempt", "table"}]
  BY <1>1, <1>2 DEF Emit, Goto, NextSequence, TypeOK, PC
<1>4. /\ table' \in [Threads -> Tables \cup {NoTable}]
      /\ \A o \in Threads \ {th} : table'[o] = table[o]
      /\ flush # "no" => table'[th] # NoTable
  BY DEF TypeOK
<1>5. TypeOK'
  BY <1>3, <1>4 DEF TypeOK, Emit
<1>6. CallInv'
  BY <1>2, <1>4 DEF CallInv, TypeOK, Emit, Goto
<1> QED BY <1>5, <1>6

\* Leaving emit.
LEMMA LeaveType ==
  ASSUME TypeOK, CallInv, NEW th \in Threads, Leave(th)
  PROVE  /\ pc' \in [Threads -> PC]
         /\ event' \in [Threads -> Event \cup {NoEvent}]
         /\ flushing' \in [Threads -> {"no", "attempt", "table"}]
         /\ closed' \in [Tables -> 0..MaxEvents]
         /\ table' \in [Threads -> Tables \cup {NoTable}]
         /\ CallInv'
<1>1. flushing[th] # "no" => table[th] \in Tables
  BY DEF TypeOK, CallInv
<1>2. closed' \in [Tables -> 0..MaxEvents]
  BY <1>1 DEF TypeOK, Leave
<1>3. /\ pc' \in [Threads -> PC]
      /\ event' \in [Threads -> Event \cup {NoEvent}]
      /\ flushing' \in [Threads -> {"no", "attempt", "table"}]
      /\ table' \in [Threads -> Tables \cup {NoTable}]
  BY DEF TypeOK, Leave, PC
<1>4. CallInv'
  BY DEF TypeOK, Leave, CallInv
<1> QED BY <1>2, <1>3, <1>4

LEMMA TypeStep == TypeOK /\ CallInv /\ [Next]_vars => TypeOK' /\ CallInv'
<1> SUFFICES ASSUME TypeOK, CallInv, [Next]_vars PROVE TypeOK' /\ CallInv'
  OBVIOUS
<1> USE AuditAssumption
<1>1. CASE UNCHANGED vars
  BY <1>1 DEF vars, TypeOK, CallInv
<1>2. CASE Crash
  <2>1. faults' \in 0..MaxFaults /\ buffer' \in Seq(Event)
    BY <1>2 DEF Crash, TypeOK
  <2>2. rows' \in [Threads -> Seq(Event)]
    BY <1>2 DEF Crash
  <2>3. TypeOK'
    BY <1>2, <2>1, <2>2 DEF Crash, TypeOK, PC
  <2>4. CallInv'
    BY <1>2 DEF Crash, CallInv
  <2> QED BY <2>3, <2>4
<1>3. ASSUME NEW th \in pool,
             Caller(th) \/ InEmit(th) \/ InFlush(th)
      PROVE  TypeOK' /\ CallInv'
  <2>0. th \in Threads
    BY <1>3 DEF TypeOK
  <2>1. CASE Caller(th)
    <3>1. PICK t \in Tables : \/ TaskStarted(th, t) \/ StageEvent(th, t)
                              \/ AttemptFailed(th, t) \/ TaskEnded(th, t)
                              \/ SkipDisabled(th, t) \/ SkipForDependency(th, t)
      BY <2>1 DEF Caller
    <3>2. PICK flush \in {"no", "attempt", "table"} :
            /\ Emit(th, t, flush)
            /\ \/ table' = table /\ (flush = "no" \/ table[th] = t)
               \/ table' = [table EXCEPT ![th] = t]
      BY <3>1 DEF TaskStarted, StageEvent, AttemptFailed, TaskEnded,
                  SkipDisabled, SkipForDependency
    <3>3. emitted[t] < MaxEvents
      <4>1. emitted[t] \in Nat
        BY DEF TypeOK
      <4>2. emitted[t] = 0 \/ emitted[t] < MaxEvents - 1 \/ emitted[t] < MaxEvents
        BY <3>1 DEF TaskStarted, StageEvent, AttemptFailed, TaskEnded,
                    SkipDisabled, SkipForDependency
      <4> QED BY <4>1, <4>2
    <3> QED BY <2>0, <3>2, <3>3, EmitType
  <2>2. CASE Create(th)
    <3>1. event[th] \in Event /\ sequence \in Nat
      BY <2>0, <2>2 DEF Create, Goto, CallInv, TypeOK
    <3>2. [event[th] EXCEPT !.seq = sequence] \in Event
      BY <3>1 DEF Event
    <3>3. /\ pc' \in [Threads -> PC]
          /\ event' \in [Threads -> Event \cup {NoEvent}]
          /\ event'[th] \in Event
      BY <2>0, <2>2, <3>2 DEF Create, Goto, TypeOK, PC
    <3>4. TypeOK'
      BY <2>2, <3>3 DEF Create, TypeOK
    <3>5. CallInv'
      BY <2>0, <2>2, <3>3 DEF Create, Goto, CallInv, TypeOK
    <3> QED BY <3>4, <3>5
  <2>3. CASE AppendEvent(th)
    <3>0. event[th] \in Event /\ buffer \in Seq(Event)
      BY <2>0, <2>3 DEF AppendEvent, Goto, CallInv, TypeOK
    <3>1. event[th] \in Event /\ buffer' \in Seq(Event)
      BY <2>3, <3>0 DEF AppendEvent
    <3>2. TypeOK'
      BY <2>0, <2>3, <3>1 DEF AppendEvent, Goto, TypeOK, PC
    <3>3. CallInv'
      BY <2>0, <2>3, <3>1 DEF AppendEvent, Goto, CallInv, TypeOK
    <3> QED BY <3>2, <3>3
  <2>4. ASSUME NEW x \in {"flush", "copy"}, pc[th] \in {"test", "flush"},
               pc' = [pc EXCEPT ![th] = x],
               UNCHANGED <<pool, sequence, buffer, log, emitted, rows, dropped,
                           faults, event, flushing, closed, table>>
        PROVE  TypeOK' /\ CallInv'
    BY <2>0, <2>4 DEF TypeOK, PC, CallInv
  <2>5. ASSUME Leave(th),
               UNCHANGED <<pool, sequence, buffer, log, emitted, rows, dropped,
                           faults>>
        PROVE  TypeOK' /\ CallInv'
    BY <2>0, <2>5, LeaveType DEF TypeOK
  <2>6. CASE TestFlush(th)
    BY <2>4, <2>5, <2>6 DEF TestFlush
  <2>7. CASE TestEmpty(th)
    BY <2>4, <2>5, <2>7 DEF TestEmpty
  <2>8. CASE CopyNext(th)
    <3>1. rows' \in [Threads -> Seq(Event)] /\ pc' \in [Threads -> PC]
      <4>1. CASE Len(rows[th]) < Len(buffer)
        <5>1. Len(rows[th]) + 1 \in 1..Len(buffer)
          BY <2>0, <4>1 DEF TypeOK
        <5>2. Append(rows[th], buffer[Len(rows[th]) + 1]) \in Seq(Event)
          BY <2>0, <5>1 DEF TypeOK
        <5> QED BY <2>8, <4>1, <5>2 DEF CopyNext, TypeOK
      <4>2. CASE ~(Len(rows[th]) < Len(buffer))
        BY <2>0, <2>8, <4>2 DEF CopyNext, TypeOK, PC
      <4> QED BY <4>1, <4>2
    <3>2. TypeOK'
      BY <2>8, <3>1 DEF CopyNext, TypeOK
    <3>3. CallInv'
      BY <2>0, <2>8 DEF CopyNext, CallInv, TypeOK
    <3> QED BY <3>2, <3>3
  <2>9. CASE Clear(th)
    <3>1. buffer' \in Seq(Event)
      BY <2>9 DEF Clear
    <3>2. TypeOK'
      BY <2>0, <2>9, <3>1 DEF Clear, Goto, TypeOK, PC
    <3>3. CallInv'
      BY <2>0, <2>9 DEF Clear, Goto, CallInv, TypeOK
    <3> QED BY <3>2, <3>3
  <2>10. CASE Insert(th)
    <3>1. rows' \in [Threads -> Seq(Event)]
      BY <2>0, <2>10 DEF Insert, TypeOK
    <3>2. log' \in Seq(Event) /\ dropped' \subseteq Event /\ faults' \in 0..MaxFaults
      <4>1. rows[th] \in Seq(Event) /\ log \in Seq(Event)
        BY <2>0 DEF TypeOK
      <4>2. \A i \in 1..Len(rows[th]) : rows[th][i] \in Event
        BY <4>1
      <4>3. log \o rows[th] \in Seq(Event)
        BY <4>1
      <4>4. {rows[th][i] : i \in 1..Len(rows[th])} \subseteq Event
        BY <4>2
      <4>5. CASE log' = log \o rows[th] /\ UNCHANGED <<dropped, faults>>
        BY <4>3, <4>5 DEF TypeOK
      <4>6. CASE /\ faults < MaxFaults
                 /\ faults' = faults + 1
                 /\ dropped' = dropped \cup {rows[th][i] : i \in 1..Len(rows[th])}
                 /\ log' = log
        BY <4>4, <4>6 DEF TypeOK
      <4> QED BY <2>10, <4>5, <4>6 DEF Insert
    <3> QED BY <2>0, <2>10, <3>1, <3>2, LeaveType DEF Insert, TypeOK
  <2> QED BY <1>3, <2>1, <2>2, <2>3, <2>6, <2>7, <2>8, <2>9, <2>10
          DEF InEmit, InFlush
<1> QED BY <1>1, <1>2, <1>3 DEF Next

\* Every variable of the audit log keeps its type, with any number of threads.
THEOREM TypeCorrect == Spec => []TypeOK
BY TypeInit, TypeStep, PTL DEF Spec

----------------------------------------------------------------------------
(* The size of the buffer.                                                 *)

\* Threads that have appended an event and not yet tested or cleared.
Holders == {th \in pool : pc[th] \in {"test", "flush", "copy", "clear"}}

\* Below the limit, but for the last event of each holder.
HoldInv == Len(buffer) < BufferLimit + Cardinality(Holders)

LEMMA HoldersCount ==
  ASSUME TypeOK
  PROVE  /\ IsFiniteSet(Holders) /\ IsFiniteSet(pool)
         /\ Cardinality(Holders) \in Nat /\ Cardinality(pool) \in Nat
         /\ Cardinality(Holders) <= Cardinality(pool)
<1>1. IsFiniteSet(pool)
  BY AuditAssumption, FS_Subset DEF TypeOK
<1>2. Holders \in SUBSET pool
  BY DEF Holders
<1> QED BY <1>1, <1>2, FS_Subset, FS_CardinalityType

LEMMA HoldStep == TypeOK /\ HoldInv /\ [Next]_vars => HoldInv'
<1> SUFFICES ASSUME TypeOK, HoldInv, [Next]_vars PROVE HoldInv'
  OBVIOUS
<1> USE AuditAssumption DEF HoldInv
<1>0. /\ Len(buffer) \in Nat
      /\ pool' = pool /\ pool \subseteq Threads
  <2>1. pool' = pool
    BY DEF Next, Crash, Caller, InEmit, InFlush, TaskStarted, StageEvent,
           AttemptFailed, TaskEnded, SkipDisabled, SkipForDependency, Emit,
           Create, AppendEvent, TestFlush, TestEmpty, CopyNext, Clear, Insert,
           vars
  <2> QED BY <2>1 DEF TypeOK
<1>1. IsFiniteSet(Holders') /\ Cardinality(Holders') \in Nat
  <2>1. Holders' \in SUBSET pool
    BY <1>0 DEF Holders
  <2> QED BY <2>1, HoldersCount, FS_Subset, FS_CardinalityType
\* A buffer below the limit meets the bound whoever holds.
<1>2. CASE Len(buffer') < BufferLimit /\ Len(buffer') \in Nat
  BY <1>1, <1>2
<1>3. CASE buffer' = buffer /\ Holders' = Holders
  BY <1>3
<1>4. CASE buffer' = <<>>
  BY <1>2, <1>4
<1>5. ASSUME NEW th \in pool, NEW x, pc' = [pc EXCEPT ![th] = x],
             buffer' = buffer,
             pc[th] \in {"test", "flush", "copy", "clear"}
               <=> x \in {"test", "flush", "copy", "clear"}
      PROVE  HoldInv'
  <2>1. Holders' = Holders
    BY <1>0, <1>5 DEF Holders, TypeOK
  <2> QED BY <1>3, <1>5, <2>1
<1>6. ASSUME NEW th \in pool, Caller(th) PROVE HoldInv'
  <2>1. /\ buffer' = buffer
        /\ pc[th] = "idle"
        /\ pc' = [pc EXCEPT ![th] = "create"]
    BY <1>6 DEF Caller, TaskStarted, StageEvent, AttemptFailed, TaskEnded,
                SkipDisabled, SkipForDependency, Emit, Goto
  <2> QED BY <1>5, <2>1
<1>7. ASSUME NEW th \in pool, Create(th) PROVE HoldInv'
  BY <1>5, <1>7 DEF Create, Goto
<1>8. ASSUME NEW th \in pool, AppendEvent(th) PROVE HoldInv'
  <2>1. Holders' = Holders \cup {th} /\ th \notin Holders
    BY <1>0, <1>8 DEF AppendEvent, Goto, Holders, TypeOK
  <2>2. Cardinality(Holders') = Cardinality(Holders) + 1
    BY <2>1, HoldersCount, FS_AddElement
  <2>3. Len(buffer') = Len(buffer) + 1
    BY <1>8 DEF AppendEvent, TypeOK
  <2> QED BY <1>0, <2>2, <2>3, HoldersCount
<1>9. ASSUME NEW th \in pool, TestFlush(th) PROVE HoldInv'
  <2>1. CASE MustFlush(th)
    BY <1>5, <1>9, <2>1 DEF TestFlush
  <2>2. CASE ~MustFlush(th)
    BY <1>0, <1>2, <1>9, <2>2 DEF TestFlush, MustFlush, Full
  <2> QED BY <2>1, <2>2
<1>10. ASSUME NEW th \in pool, TestEmpty(th) PROVE HoldInv'
  BY <1>4, <1>5, <1>10 DEF TestEmpty
<1>11. ASSUME NEW th \in pool, CopyNext(th) PROVE HoldInv'
  <2>1. CASE pc' = pc
    BY <1>0, <1>3, <1>11, <2>1 DEF CopyNext, Holders
  <2>2. CASE pc' = [pc EXCEPT ![th] = "clear"]
    BY <1>5, <1>11, <2>2 DEF CopyNext
  <2> QED BY <1>11, <2>1, <2>2 DEF CopyNext
<1>12. ASSUME NEW th \in pool, Insert(th) PROVE HoldInv'
  BY <1>5, <1>12 DEF Insert, Leave
<1>13. CASE Crash
  BY <1>4, <1>13 DEF Crash
<1>14. ASSUME NEW th \in pool, Clear(th) PROVE HoldInv'
  BY <1>4, <1>14 DEF Clear
<1>15. CASE UNCHANGED vars
  BY <1>3, <1>15 DEF vars, Holders
<1> QED BY <1>6, <1>7, <1>8, <1>9, <1>10, <1>11, <1>12, <1>13, <1>14, <1>15
        DEF Next, InEmit, InFlush

(***************************************************************************)
(* The buffer holds at most buffer_limit events and one more for each      *)
(* further worker.  There is no lock between an append (AppendEvent), the  *)
(* test of the limit (TestFlush) and clear: a thread that has appended and *)
(* not yet tested or cleared accounts for one event over the limit.        *)
(***************************************************************************)
THEOREM BufferStaysSmall == Spec => []BufferIsBounded
<1>1. Init => HoldInv
  <2> SUFFICES ASSUME Init PROVE HoldInv
    OBVIOUS
  <2>1. Len(buffer) = 0
    BY DEF Init
  <2> QED BY <2>1, AuditAssumption, TypeInit, HoldersCount DEF HoldInv
<1>2. ASSUME TypeOK, HoldInv PROVE BufferIsBounded
  <2>1. Len(buffer) \in Nat
    BY <1>2 DEF TypeOK
  <2> QED BY <1>2, <2>1, AuditAssumption, HoldersCount
          DEF HoldInv, BufferIsBounded
<1> QED BY <1>1, <1>2, HoldStep, TypeCorrect, PTL DEF Spec

----------------------------------------------------------------------------
(* Which thread emits for which table.                                     *)

Busy(th) == pc[th] \notin {"idle", "dead"}

\* A table is executed by one thread, and its events are emitted one by one.
OwnerInv ==
  /\ \A a, b \in Threads : table[a] # NoTable /\ table[a] = table[b] => a = b
  /\ \A a \in Threads : table[a] # NoTable => emitted[table[a]] >= 1
  /\ \A a \in Threads : Busy(a) => event[a].nth <= emitted[event[a].of]
  /\ \A a, b \in Threads : Busy(a) /\ table[b] = event[a].of => a = b
  /\ \A a, b \in Threads : Busy(a) /\ Busy(b) /\ event[a].of = event[b].of => a = b

\* A caller enters emit for the table it executes, or for one that has no
\* event yet.
LEMMA CallerCases ==
  ASSUME TypeOK, NEW th \in Threads, Caller(th)
  PROVE  \E t \in Tables, flush \in {"no", "attempt", "table"} :
           /\ Emit(th, t, flush)
           /\ \/ table[th] = t /\ table' = table
              \/ /\ emitted[t] = 0
                 /\ table[th] = NoTable
                 /\ table' = [table EXCEPT ![th] = t]
              \/ /\ emitted[t] = 0 /\ flush = "no" /\ table' = table
                 /\ \A o \in pool : pc[o] = "idle" /\ table[o] = NoTable
BY DEF Caller, TaskStarted, StageEvent, AttemptFailed, TaskEnded,
       SkipDisabled, SkipForDependency

\* What every other step does to the tables and the events on their way.
LEMMA OtherSteps ==
  ASSUME TypeOK, [Next]_vars, \A th \in pool : ~Caller(th)
  PROVE  /\ emitted' = emitted /\ sequence' = sequence
         /\ \A a \in Threads :
              /\ table'[a] \in {table[a], NoTable}
              /\ Busy(a)' => /\ Busy(a)
                             /\ event'[a].of = event[a].of
                             /\ event'[a].nth = event[a].nth
<1>0. pool \subseteq Threads
  BY DEF TypeOK
<1>1. CASE UNCHANGED vars
  BY <1>1 DEF vars, Busy
<1>2. CASE Crash
  BY <1>2 DEF Crash, Busy
<1>3. ASSUME NEW th \in pool, Create(th)
      PROVE  /\ emitted' = emitted /\ sequence' = sequence
             /\ \A a \in Threads :
                  /\ table'[a] \in {table[a], NoTable}
                  /\ Busy(a)' => /\ Busy(a)
                                 /\ event'[a].of = event[a].of
                                 /\ event'[a].nth = event[a].nth
  <2>1. event' = [event EXCEPT ![th] = [event[th] EXCEPT !.seq = sequence]]
    BY <1>3 DEF Create
  <2>2. event[th] \in Event \cup {NoEvent}
    BY <1>0 DEF TypeOK
  <2>3. /\ [event[th] EXCEPT !.seq = sequence].of = event[th].of
        /\ [event[th] EXCEPT !.seq = sequence].nth = event[th].nth
    BY <2>2 DEF Event, NoEvent
  <2>4. \A a \in Threads : /\ event'[a].of = event[a].of
                           /\ event'[a].nth = event[a].nth
    BY <1>0, <2>1, <2>3 DEF TypeOK
  <2> QED BY <1>0, <1>3, <2>4 DEF Create, Goto, Busy, TypeOK
<1>4. ASSUME NEW th \in pool, AppendEvent(th) \/ CopyNext(th) \/ Clear(th)
      PROVE  /\ emitted' = emitted /\ sequence' = sequence
             /\ table' = table /\ event' = event
             /\ \A a \in Threads : Busy(a)' => Busy(a)
  BY <1>0, <1>4 DEF AppendEvent, CopyNext, Clear, Goto, Busy, TypeOK
<1>5. ASSUME NEW th \in pool, TestFlush(th) \/ TestEmpty(th) \/ Insert(th)
      PROVE  /\ emitted' = emitted /\ sequence' = sequence
             /\ \A a \in Threads :
                  /\ table'[a] \in {table[a], NoTable}
                  /\ Busy(a)' => Busy(a) /\ event'[a] = event[a]
  BY <1>0, <1>5 DEF TestFlush, TestEmpty, Insert, Leave, Busy, TypeOK
<1> QED BY <1>1, <1>2, <1>3, <1>4, <1>5 DEF Next, InEmit, InFlush

LEMMA OwnerStep == TypeOK /\ CallInv /\ OwnerInv /\ [Next]_vars => OwnerInv'
<1> SUFFICES ASSUME TypeOK, CallInv, OwnerInv, [Next]_vars PROVE OwnerInv'
  OBVIOUS
<1>0. pool \subseteq Threads /\ emitted \in [Tables -> Nat]
  BY DEF TypeOK
<1>1. \A a \in Threads : Busy(a) => event[a].of \in Tables /\ event[a].nth \in Nat \ {0}
  BY DEF CallInv, Busy, Event
<1>2. CASE \A th \in pool : ~Caller(th)
  <2>1. /\ emitted' = emitted
        /\ \A a \in Threads :
             /\ table'[a] \in {table[a], NoTable}
             /\ Busy(a)' => /\ Busy(a)
                            /\ event'[a].of = event[a].of
                            /\ event'[a].nth = event[a].nth
    BY <1>2, OtherSteps
  <2>2. \A a, b \in Threads :
          table'[a] # NoTable /\ table'[a] = table'[b] => a = b
    BY <2>1 DEF OwnerInv
  <2>3. \A a \in Threads : table'[a] # NoTable => emitted'[table'[a]] >= 1
    BY <2>1 DEF OwnerInv
  <2>4. \A a \in Threads : Busy(a)' => event'[a].nth <= emitted'[event'[a].of]
    BY <2>1 DEF OwnerInv
  <2>5. \A a, b \in Threads : Busy(a)' /\ table'[b] = event'[a].of => a = b
    BY <1>1, <2>1, AuditAssumption DEF OwnerInv
  <2>6. \A a, b \in Threads :
          Busy(a)' /\ Busy(b)' /\ event'[a].of = event'[b].of => a = b
    BY <2>1 DEF OwnerInv
  <2> QED BY <2>2, <2>3, <2>4, <2>5, <2>6 DEF OwnerInv
<1>3. ASSUME NEW th \in pool, Caller(th) PROVE OwnerInv'
  <2>0. th \in Threads
    BY <1>0, <1>3
  <2>1. PICK t \in Tables, flush \in {"no", "attempt", "table"} :
           /\ Emit(th, t, flush)
           /\ \/ table[th] = t /\ table' = table
              \/ /\ emitted[t] = 0
                 /\ table[th] = NoTable
                 /\ table' = [table EXCEPT ![th] = t]
              \/ /\ emitted[t] = 0 /\ flush = "no" /\ table' = table
                 /\ \A o \in pool : pc[o] = "idle" /\ table[o] = NoTable
    BY <1>3, <2>0, CallerCases
  <2>2. /\ event'[th].of = t /\ event'[th].nth = emitted[t] + 1
        /\ \A a \in Threads \ {th} :
             event'[a] = event[a] /\ table'[a] = table[a] /\ (Busy(a)' <=> Busy(a))
        /\ emitted'[t] = emitted[t] + 1
        /\ \A u \in Tables : emitted'[u] >= emitted[u]
        /\ ~Busy(th)
    BY <1>0, <2>0, <2>1 DEF Emit, Goto, Busy, TypeOK
  \* Nobody else executes t or emits for it.
  <2>3. \A b \in Threads \ {th} : table[b] # t /\ (Busy(b) => event[b].of # t)
    <3> SUFFICES ASSUME NEW b \in Threads \ {th}
                 PROVE  table[b] # t /\ (Busy(b) => event[b].of # t)
      OBVIOUS
    <3>1. t # NoTable
      BY AuditAssumption
    <3>2. CASE table[th] = t
      BY <2>0, <3>1, <3>2 DEF OwnerInv
    <3>3. CASE emitted[t] = 0
      BY <1>1, <3>1, <3>3 DEF OwnerInv
    <3> QED BY <2>1, <3>2, <3>3
  <2>4. table'[th] \in {table[th], t} /\ t # NoTable
    BY <2>0, <2>1, AuditAssumption DEF TypeOK
  <2>5. \A a, b \in Threads :
          table'[a] # NoTable /\ table'[a] = table'[b] => a = b
    BY <2>2, <2>3, <2>4 DEF OwnerInv
  <2>6. \A a \in Threads : table'[a] # NoTable => emitted'[table'[a]] >= 1
    <3>1. \A a \in Threads : table[a] # NoTable => emitted'[table[a]] >= 1
      <4> SUFFICES ASSUME NEW a \in Threads, table[a] # NoTable
                   PROVE  emitted'[table[a]] >= 1
        OBVIOUS
      <4>1. table[a] \in Tables /\ emitted[table[a]] >= 1
        BY DEF TypeOK, OwnerInv
      <4>2. emitted' \in [Tables -> Nat]
        BY <1>0, <2>1 DEF Emit
      <4> QED BY <1>0, <2>2, <4>1, <4>2
    <3> QED BY <1>0, <2>2, <2>4, <3>1
  <2>7. \A a \in Threads : Busy(a)' => event'[a].nth <= emitted'[event'[a].of]
    <3> SUFFICES ASSUME NEW a \in Threads, Busy(a)'
                 PROVE  event'[a].nth <= emitted'[event'[a].of]
      OBVIOUS
    <3>1. CASE a = th
      BY <1>0, <2>2, <3>1
    <3>2. CASE a # th
      <4>1. Busy(a) /\ event'[a] = event[a]
        BY <2>2, <3>2
      <4>2. event[a].nth <= emitted[event[a].of]
        BY <4>1 DEF OwnerInv
      <4>3. emitted' \in [Tables -> Nat]
        BY <1>0, <2>1 DEF Emit
      <4> QED BY <1>0, <1>1, <2>2, <4>1, <4>2, <4>3
    <3> QED BY <3>1, <3>2
  <2>8. \A a, b \in Threads : Busy(a)' /\ table'[b] = event'[a].of => a = b
    <3> SUFFICES ASSUME NEW a \in Threads, NEW b \in Threads, a # b, Busy(a)',
                        table'[b] = event'[a].of
                 PROVE  FALSE
      OBVIOUS
    <3>1. CASE a = th
      BY <2>2, <2>3, <3>1
    <3>2. CASE b = th
      BY <1>1, <2>2, <2>3, <2>4, <3>2, AuditAssumption DEF OwnerInv
    <3>3. CASE a # th /\ b # th
      BY <2>2, <3>3 DEF OwnerInv
    <3> QED BY <3>1, <3>2, <3>3
  <2>9. \A a, b \in Threads :
          Busy(a)' /\ Busy(b)' /\ event'[a].of = event'[b].of => a = b
    BY <2>2, <2>3 DEF OwnerInv
  <2> QED BY <2>5, <2>6, <2>7, <2>8, <2>9 DEF OwnerInv
<1> QED BY <1>2, <1>3

----------------------------------------------------------------------------
(* The numbers of the events.                                              *)

Elems(s) == {s[i] : i \in 1..Len(s)}

\* The thread's event has its number.
Numbered(th) == pc[th] \in {"append", "test", "flush", "copy", "clear", "insert"}

\* Every event that has its number.
Known == {e \in Event : \/ e \in Elems(log) \/ e \in Elems(buffer)
                        \/ \E th \in Threads : \/ e \in Elems(rows[th])
                                               \/ Numbered(th) /\ e = event[th]}

OrderInv ==
  /\ \A e \in Known : e.seq <= sequence /\ e.nth <= emitted[e.of]
  /\ \A e, f \in Known : e.of = f.of /\ e.nth < f.nth => e.seq < f.seq
  /\ \A th \in Threads : pc[th] = "create"
       => \A e \in Known : e.of = event[th].of
                             => e.seq < sequence /\ e.nth < event[th].nth

LEMMA ElemsAppend ==
  ASSUME NEW S, NEW s \in Seq(S), NEW e \in S
  PROVE  Elems(Append(s, e)) = Elems(s) \cup {e}
<1>1. /\ Len(Append(s, e)) = Len(s) + 1
      /\ \A i \in 1..Len(s) : Append(s, e)[i] = s[i]
      /\ Append(s, e)[Len(s) + 1] = e
      /\ Len(s) \in Nat
  BY AppendProperties
<1>2. ASSUME NEW x \in Elems(Append(s, e)) PROVE x \in Elems(s) \cup {e}
  BY <1>1 DEF Elems
<1>3. ASSUME NEW x \in Elems(s) \cup {e} PROVE x \in Elems(Append(s, e))
  BY <1>1 DEF Elems
<1> QED BY <1>2, <1>3

LEMMA ElemsConcat ==
  ASSUME NEW S, NEW s \in Seq(S), NEW t \in Seq(S)
  PROVE  Elems(s \o t) = Elems(s) \cup Elems(t)
<1>1. /\ Len(s \o t) = Len(s) + Len(t)
      /\ \A i \in 1..Len(s) : (s \o t)[i] = s[i]
      /\ \A i \in 1..Len(t) : (s \o t)[Len(s) + i] = t[i]
      /\ Len(s) \in Nat /\ Len(t) \in Nat
  OBVIOUS
<1>2. ASSUME NEW x \in Elems(s \o t) PROVE x \in Elems(s) \cup Elems(t)
  <2>1. PICK i \in 1..Len(s) + Len(t) : x = (s \o t)[i]
    BY <1>1, <1>2 DEF Elems
  <2>2. CASE i \in 1..Len(s)
    BY <1>1, <2>1, <2>2 DEF Elems
  <2>3. CASE i \notin 1..Len(s)
    <3>1. i - Len(s) \in 1..Len(t) /\ i = Len(s) + (i - Len(s))
      BY <1>1, <2>3
    <3>2. x = t[i - Len(s)]
      BY <1>1, <2>1, <3>1
    <3> QED BY <3>1, <3>2 DEF Elems
  <2> QED BY <2>2, <2>3
<1>3. ASSUME NEW x \in Elems(s) PROVE x \in Elems(s \o t)
  <2>1. PICK i \in 1..Len(s) : x = s[i]
    BY <1>3 DEF Elems
  <2>2. i \in 1..Len(s \o t) /\ x = (s \o t)[i]
    BY <1>1, <2>1
  <2> QED BY <2>2 DEF Elems
<1>4. ASSUME NEW x \in Elems(t) PROVE x \in Elems(s \o t)
  <2>1. PICK i \in 1..Len(t) : x = t[i]
    BY <1>4 DEF Elems
  <2>2. Len(s) + i \in 1..Len(s \o t) /\ x = (s \o t)[Len(s) + i]
    BY <1>1, <2>1
  <2> QED BY <2>2 DEF Elems
<1> QED BY <1>2, <1>3, <1>4

LEMMA ElemsEmpty == Elems(<<>>) = {}
BY DEF Elems

\* No step but Create makes an event known.
LEMMA KnownStep ==
  ASSUME TypeOK, CallInv, [Next]_vars, \A th \in pool : ~Create(th)
  PROVE  Known' \subseteq Known
<1>0. pool \subseteq Threads
  BY DEF TypeOK
<1>1. CASE UNCHANGED vars
  BY <1>1 DEF vars, Known, Numbered, Elems
<1>2. CASE Crash
  BY <1>2, ElemsEmpty DEF Crash, Known, Numbered
<1>3. ASSUME NEW th \in pool, Caller(th) PROVE Known' \subseteq Known
  <2>1. /\ log' = log /\ buffer' = buffer /\ rows' = rows
        /\ \A a \in Threads : Numbered(a)' => Numbered(a) /\ event'[a] = event[a]
    BY <1>0, <1>3 DEF Caller, TaskStarted, StageEvent, AttemptFailed, TaskEnded,
                SkipDisabled, SkipForDependency, Emit, Goto, Numbered, TypeOK
  <2> QED BY <2>1 DEF Known
<1>4. ASSUME NEW th \in pool, AppendEvent(th) PROVE Known' \subseteq Known
  <2>1. event[th] \in Event /\ buffer \in Seq(Event) /\ Numbered(th)
    BY <1>0, <1>4 DEF AppendEvent, Goto, CallInv, TypeOK, Numbered
  <2>2. Elems(buffer)' = Elems(buffer) \cup {event[th]}
    BY <1>4, <2>1, ElemsAppend DEF AppendEvent
  <2>3. /\ log' = log /\ rows' = rows /\ event' = event
        /\ \A a \in Threads : Numbered(a)' => Numbered(a)
    BY <1>0, <1>4 DEF AppendEvent, Goto, Numbered, TypeOK
  <2> QED BY <1>0, <2>1, <2>2, <2>3 DEF Known
<1>5. ASSUME NEW th \in pool, TestFlush(th) \/ TestEmpty(th)
      PROVE  Known' \subseteq Known
  <2>1. /\ log' = log /\ buffer' = buffer /\ rows' = rows
        /\ \A a \in Threads : Numbered(a)' => Numbered(a) /\ event'[a] = event[a]
    BY <1>0, <1>5 DEF TestFlush, TestEmpty, Leave, Numbered, TypeOK
  <2> QED BY <2>1 DEF Known
<1>6. ASSUME NEW th \in pool, CopyNext(th) PROVE Known' \subseteq Known
  <2>1. /\ log' = log /\ buffer' = buffer /\ event' = event
        /\ \A a \in Threads : Numbered(a)' => Numbered(a)
    BY <1>0, <1>6 DEF CopyNext, Numbered, TypeOK
  <2>2. \A a \in Threads : Elems(rows'[a]) \subseteq Elems(rows[a]) \cup Elems(buffer)
    <3>1. CASE rows' = rows
      BY <3>1
    <3>2. CASE /\ Len(rows[th]) < Len(buffer)
               /\ rows' = [rows EXCEPT ![th] =
                             Append(@, buffer[Len(rows[th]) + 1])]
      <4>1. /\ buffer[Len(rows[th]) + 1] \in Elems(buffer)
            /\ buffer[Len(rows[th]) + 1] \in Event
            /\ rows[th] \in Seq(Event)
        BY <1>0, <3>2 DEF Elems, TypeOK
      <4>2. Elems(rows'[th]) = Elems(rows[th]) \cup {buffer[Len(rows[th]) + 1]}
        BY <1>0, <3>2, <4>1, ElemsAppend DEF TypeOK
      <4> QED BY <1>0, <3>2, <4>1, <4>2 DEF TypeOK
    <3> QED BY <1>6, <3>1, <3>2 DEF CopyNext
  <2> QED BY <2>1, <2>2 DEF Known
<1>7. ASSUME NEW th \in pool, Clear(th) PROVE Known' \subseteq Known
  <2>1. /\ log' = log /\ rows' = rows /\ event' = event /\ buffer' = <<>>
        /\ \A a \in Threads : Numbered(a)' => Numbered(a)
    BY <1>0, <1>7 DEF Clear, Goto, Numbered, TypeOK
  <2> QED BY <2>1, ElemsEmpty DEF Known
<1>8. ASSUME NEW th \in pool, Insert(th) PROVE Known' \subseteq Known
  <2>1. /\ buffer' = buffer
        /\ log' \in {log, log \o rows[th]}
        /\ \A a \in Threads : Numbered(a)' => Numbered(a) /\ event'[a] = event[a]
        /\ \A a \in Threads : rows'[a] \in {rows[a], <<>>}
    BY <1>0, <1>8 DEF Insert, Leave, Numbered, TypeOK
  <2>2. Elems(log)' \subseteq Elems(log) \cup Elems(rows[th])
    <3>1. Elems(log \o rows[th]) = Elems(log) \cup Elems(rows[th])
      BY <1>0, ElemsConcat DEF TypeOK
    <3>2. Elems(log)' = Elems(log')
      BY DEF Elems
    <3> QED BY <2>1, <3>1, <3>2
  <2> QED BY <1>0, <2>1, <2>2, ElemsEmpty DEF Known
<1> QED BY <1>1, <1>2, <1>3, <1>4, <1>5, <1>6, <1>7, <1>8
        DEF Next, InEmit, InFlush

LEMMA OrderStep ==
  TypeOK /\ CallInv /\ OwnerInv /\ OrderInv /\ [Next]_vars => OrderInv'
<1> SUFFICES ASSUME TypeOK, CallInv, OwnerInv, OrderInv, [Next]_vars
             PROVE  OrderInv'
  OBVIOUS
<1>0. /\ pool \subseteq Threads /\ emitted \in [Tables -> Nat]
      /\ sequence \in Nat
  BY DEF TypeOK
<1>1. \A e \in Known : e.of \in Tables /\ e.nth \in Nat /\ e.seq \in Nat
  BY DEF Known, Event
\* The next event of t: above every number and behind every event of t.
<1>2. ASSUME NEW th \in pool, Caller(th) PROVE OrderInv'
  <2>1. PICK t \in Tables, flush \in {"no", "attempt", "table"} :
          Emit(th, t, flush)
    BY <1>0, <1>2, CallerCases
  <2>2. Known' \subseteq Known
    <3>1. \A o \in pool : ~Create(o)
      <4> SUFFICES ASSUME NEW o \in pool, Create(o) PROVE FALSE
        OBVIOUS
      <4>1. sequence' = sequence + 1 /\ sequence' = sequence
        BY <2>1 DEF Create, Emit, NextSequence
      <4> QED BY <1>0, <4>1
    <3> QED BY <3>1, KnownStep
  <2>3. /\ sequence' = sequence + 1
        /\ emitted' = [emitted EXCEPT ![t] = @ + 1]
        /\ event'[th].of = t /\ event'[th].nth = emitted[t] + 1
        /\ \A a \in Threads \ {th} : pc'[a] = pc[a] /\ event'[a] = event[a]
    BY <1>0, <2>1 DEF Emit, Goto, NextSequence, TypeOK
  <2>4. \A u \in Tables : emitted'[u] \in Nat /\ emitted'[u] >= emitted[u]
    BY <1>0, <2>3
  <2>5. \A e \in Known' : e.seq <= sequence' /\ e.nth <= emitted'[e.of]
    <3> SUFFICES ASSUME NEW e \in Known
                 PROVE  e.seq <= sequence' /\ e.nth <= emitted'[e.of]
      BY <2>2
    <3>1. e.seq <= sequence /\ e.nth <= emitted[e.of]
      BY DEF OrderInv
    <3> QED BY <1>0, <1>1, <2>3, <2>4, <3>1
  <2>6. ASSUME NEW a \in Threads, pc'[a] = "create", NEW e \in Known',
               e.of = event'[a].of
        PROVE  e.seq < sequence' /\ e.nth < event'[a].nth
    <3>0. e \in Known
      BY <2>2
    <3>1. e.seq <= sequence /\ e.nth <= emitted[e.of]
      BY <3>0 DEF OrderInv
    <3>2. CASE a = th
      BY <1>0, <1>1, <2>3, <2>6, <3>0, <3>1, <3>2
    <3>3. CASE a # th
      <4>1. e.seq < sequence /\ e.nth < event'[a].nth
        BY <2>3, <2>6, <3>0, <3>3 DEF OrderInv
      <4> QED BY <1>0, <1>1, <2>3, <3>0, <4>1
    <3> QED BY <3>2, <3>3
  <2> QED BY <2>2, <2>5, <2>6 DEF OrderInv
<1>3. ASSUME NEW th \in pool, Create(th) PROVE OrderInv'
  <2>0. th \in Threads /\ pc[th] = "create" /\ event[th] \in Event
    BY <1>0, <1>3 DEF Create, Goto, CallInv
  <2> DEFINE e0 == event'[th]
  <2>1. /\ e0.of = event[th].of /\ e0.nth = event[th].nth /\ e0.seq = sequence
        /\ \A a \in Threads \ {th} : event'[a] = event[a]
    <3>1. event' = [event EXCEPT ![th] = [event[th] EXCEPT !.seq = sequence]]
      BY <1>3 DEF Create
    <3> QED BY <2>0, <3>1 DEF Event, TypeOK
  <2>2. Known' \subseteq Known \cup {e0}
    <3>1. /\ log' = log /\ buffer' = buffer /\ rows' = rows
          /\ \A a \in Threads \ {th} : Numbered(a)' => Numbered(a)
      BY <1>3, <2>0 DEF Create, Goto, Numbered, TypeOK
    <3> QED BY <2>1, <3>1 DEF Known
  <2>3. sequence' = sequence /\ emitted' = emitted
    BY <1>3 DEF Create
  <2>4. \A e \in Known : e.of = e0.of => e.seq < e0.seq /\ e.nth < e0.nth
    BY <2>0, <2>1 DEF OrderInv
  <2>5. e0.nth \in Nat /\ e0.nth <= emitted[e0.of]
    BY <2>0, <2>1 DEF OwnerInv, Busy, Event
  <2>6. \A e \in Known' : e.seq <= sequence' /\ e.nth <= emitted'[e.of]
    <3> SUFFICES ASSUME NEW e \in Known'
                 PROVE  e.seq <= sequence /\ e.nth <= emitted[e.of]
      BY <2>3
    <3>1. CASE e \in Known
      BY <3>1 DEF OrderInv
    <3>2. CASE e = e0
      BY <1>0, <2>1, <2>5, <3>2
    <3> QED BY <2>2, <3>1, <3>2
  <2>7. ASSUME NEW e \in Known', NEW f \in Known', e.of = f.of, e.nth < f.nth
        PROVE  e.seq < f.seq
    <3>1. CASE e \in Known /\ f \in Known
      BY <2>7, <3>1 DEF OrderInv
    <3>2. CASE e \in Known /\ f = e0
      BY <2>4, <2>7, <3>2
    <3>3. CASE f \in Known /\ e = e0
      <4>1. f.nth < e0.nth /\ e0.nth < f.nth /\ f.nth \in Nat
        BY <1>1, <2>4, <2>7, <3>3
      <4> QED BY <2>5, <4>1
    <3>4. CASE e = e0 /\ f = e0
      BY <2>5, <2>7, <3>4
    <3> QED BY <2>2, <2>7, <3>1, <3>2, <3>3, <3>4
  <2>8. ASSUME NEW a \in Threads, pc'[a] = "create", NEW e \in Known',
               e.of = event'[a].of
        PROVE  e.seq < sequence' /\ e.nth < event'[a].nth
    <3>1. a # th /\ pc[a] = "create" /\ event'[a] = event[a]
      BY <1>3, <2>0, <2>1, <2>8 DEF Create, Goto, TypeOK
    <3>2. event[a].of # event[th].of
      BY <2>0, <3>1 DEF OwnerInv, Busy
    <3>3. e \in Known
      BY <2>1, <2>2, <2>8, <3>1, <3>2
    <3> QED BY <2>3, <2>8, <3>1, <3>3 DEF OrderInv
  <2> QED BY <2>6, <2>7, <2>8 DEF OrderInv
<1>4. CASE \A th \in pool : ~Caller(th) /\ ~Create(th)
  <2>1. Known' \subseteq Known /\ emitted' = emitted /\ sequence' = sequence
    BY <1>4, KnownStep, OtherSteps
  <2>2. \A a \in Threads : pc'[a] = "create"
          => pc[a] = "create" /\ event'[a] = event[a]
    <3>1. CASE UNCHANGED vars
      BY <3>1 DEF vars
    <3>2. CASE Crash
      BY <3>2 DEF Crash
    <3>3. ASSUME NEW th \in pool,
                 AppendEvent(th) \/ TestFlush(th) \/ InFlush(th)
          PROVE  \A a \in Threads : pc'[a] = "create"
                   => pc[a] = "create" /\ event'[a] = event[a]
      BY <1>0, <3>3 DEF AppendEvent, Goto, TestFlush, InFlush, TestEmpty,
                        CopyNext, Clear, Insert, Leave, TypeOK
    <3> QED BY <1>4, <3>1, <3>2, <3>3 DEF Next, InEmit
  <2> QED BY <2>1, <2>2 DEF OrderInv
<1> QED BY <1>2, <1>3, <1>4

----------------------------------------------------------------------------
(* One worker.                                                             *)

Increasing(s) == \A i, j \in 1..Len(s) : i < j => s[i].seq < s[j].seq

Before(s, t) == \A i \in 1..Len(s), j \in 1..Len(t) : s[i].seq < t[j].seq

AllBelow(s, n) == \A i \in 1..Len(s) : s[i].seq < n

\* The buffer continues the audit table, and a flush copies the buffer.
SerialOf(w) ==
  /\ Increasing(log) /\ Increasing(buffer) /\ Before(log, buffer)
  /\ Increasing(rows[w]) /\ Before(log, rows[w])
  /\ pc[w] \notin {"copy", "clear", "insert"} => rows[w] = <<>>
  /\ pc[w] = "copy" => /\ Len(rows[w]) <= Len(buffer)
                       /\ \A i \in 1..Len(rows[w]) : rows[w][i] = buffer[i]
  /\ pc[w] = "clear" => rows[w] = buffer
  /\ pc[w] = "insert" => buffer = <<>>
  /\ pc[w] = "create" => AllBelow(log, sequence) /\ AllBelow(buffer, sequence)
  /\ pc[w] = "append" => /\ AllBelow(log, event[w].seq)
                         /\ AllBelow(buffer, event[w].seq)

SerialInv == \A w \in Threads : pool = {w} => SerialOf(w)

LEMMA OrderedEmpty ==
  ASSUME NEW s
  PROVE  Increasing(<<>>) /\ Before(s, <<>>)
BY DEF Increasing, Before

LEMMA OrderedAppend ==
  ASSUME NEW s \in Seq(Event), NEW u \in Seq(Event), NEW e \in Event,
         Increasing(s), Before(u, s), AllBelow(s, e.seq), AllBelow(u, e.seq)
  PROVE  Increasing(Append(s, e)) /\ Before(u, Append(s, e))
<1>1. /\ Len(Append(s, e)) = Len(s) + 1
      /\ \A i \in 1..Len(s) : Append(s, e)[i] = s[i]
      /\ Append(s, e)[Len(s) + 1] = e
      /\ Len(s) \in Nat
  BY AppendProperties
<1>2. \A i \in 1..Len(s) + 1 : i \in 1..Len(s) \/ i = Len(s) + 1
  BY <1>1
<1>3. ASSUME NEW i \in 1..Len(s) + 1, NEW j \in 1..Len(s) + 1, i < j
      PROVE  Append(s, e)[i].seq < Append(s, e)[j].seq
  <2>1. i \in 1..Len(s)
    BY <1>1, <1>3
  <2>2. CASE j \in 1..Len(s)
    BY <1>1, <1>3, <2>1, <2>2 DEF Increasing
  <2>3. CASE j = Len(s) + 1
    BY <1>1, <2>1, <2>3 DEF AllBelow
  <2> QED BY <1>2, <2>2, <2>3
<1>4. Before(u, Append(s, e))
  BY <1>1, <1>2 DEF Before, AllBelow
<1> QED BY <1>1, <1>3, <1>4 DEF Increasing

LEMMA OrderedConcat ==
  ASSUME NEW s \in Seq(Event), NEW u \in Seq(Event),
         Increasing(s), Increasing(u), Before(s, u)
  PROVE  Increasing(s \o u)
<1>1. /\ Len(s \o u) = Len(s) + Len(u)
      /\ \A i \in 1..Len(s) : (s \o u)[i] = s[i]
      /\ \A i \in 1..Len(u) : (s \o u)[Len(s) + i] = u[i]
      /\ Len(s) \in Nat /\ Len(u) \in Nat
  OBVIOUS
<1>2. \A i \in 1..Len(s \o u) :
        \/ i \in 1..Len(s)
        \/ i - Len(s) \in 1..Len(u) /\ (s \o u)[i] = u[i - Len(s)]
  <2> SUFFICES ASSUME NEW i \in 1..Len(s \o u), i \notin 1..Len(s)
               PROVE  i - Len(s) \in 1..Len(u) /\ (s \o u)[i] = u[i - Len(s)]
    OBVIOUS
  <2>1. i - Len(s) \in 1..Len(u) /\ i = Len(s) + (i - Len(s))
    BY <1>1
  <2> QED BY <1>1, <2>1
<1> SUFFICES ASSUME NEW i \in 1..Len(s \o u), NEW j \in 1..Len(s \o u), i < j
             PROVE  (s \o u)[i].seq < (s \o u)[j].seq
  BY DEF Increasing
<1>3. CASE i \in 1..Len(s) /\ j \in 1..Len(s)
  BY <1>1, <1>3 DEF Increasing
<1>4. CASE i \in 1..Len(s) /\ j \notin 1..Len(s)
  BY <1>1, <1>2, <1>4 DEF Before
<1>5. CASE i \notin 1..Len(s)
  <2>1. j \notin 1..Len(s)
    BY <1>1, <1>5
  <2>2. i - Len(s) < j - Len(s)
    BY <1>1
  <2> QED BY <1>2, <1>5, <2>1, <2>2 DEF Increasing
<1> QED BY <1>3, <1>4, <1>5

LEMMA PoolStays == [Next]_vars => pool' = pool
BY DEF Next, Crash, Caller, InEmit, InFlush, TaskStarted, StageEvent,
       AttemptFailed, TaskEnded, SkipDisabled, SkipForDependency, Emit, Create,
       AppendEvent, TestFlush, TestEmpty, CopyNext, Clear, Insert, vars

\* The last element that is copied keeps the copy a part of the buffer.
LEMMA CopyStep ==
  ASSUME TypeOK, NEW w \in Threads, SerialOf(w), CopyNext(w)
  PROVE  SerialOf(w)'
<1> DEFINE k == Len(rows[w]) + 1
<1>0. /\ rows[w] \in Seq(Event) /\ buffer \in Seq(Event) /\ log \in Seq(Event)
      /\ Len(rows[w]) \in Nat /\ Len(buffer) \in Nat
      /\ pc[w] = "copy" /\ log' = log /\ buffer' = buffer
  BY DEF CopyNext, TypeOK
<1>1. /\ Len(rows[w]) <= Len(buffer)
      /\ \A i \in 1..Len(rows[w]) : rows[w][i] = buffer[i]
  BY <1>0 DEF SerialOf
<1>2. CASE Len(rows[w]) < Len(buffer)
  <2>1. /\ rows' = [rows EXCEPT ![w] = Append(rows[w], buffer[k])]
        /\ pc' = pc
    BY <1>2 DEF CopyNext
  <2>2. k \in 1..Len(buffer)
    BY <1>0, <1>2
  <2>3. rows'[w] = Append(rows[w], buffer[k]) /\ buffer[k] \in Event
    BY <1>0, <2>1, <2>2 DEF TypeOK
  <2>4. /\ Len(rows'[w]) = k
        /\ \A i \in 1..Len(rows[w]) : rows'[w][i] = rows[w][i]
        /\ rows'[w][k] = buffer[k]
    BY <1>0, <2>3, AppendProperties
  <2>5. \A i \in 1..k : rows'[w][i] = buffer[i] /\ i \in 1..Len(buffer)
    BY <1>0, <1>1, <2>2, <2>4
  <2>6. Increasing(rows'[w])
    BY <2>4, <2>5 DEF Increasing, SerialOf
  <2>7. Before(log, rows'[w])
    BY <2>4, <2>5 DEF Before, SerialOf
  <2>8. Len(rows'[w]) <= Len(buffer)
    BY <1>0, <2>2, <2>4
  <2> QED BY <1>0, <2>1, <2>4, <2>5, <2>6, <2>7, <2>8
          DEF SerialOf, Increasing, Before
<1>3. CASE ~(Len(rows[w]) < Len(buffer))
  <2>1. pc'[w] = "clear" /\ rows' = rows
    BY <1>3 DEF CopyNext, TypeOK
  <2>2. Len(rows[w]) = Len(buffer)
    BY <1>0, <1>1, <1>3
  <2>3. rows[w] = buffer
    BY <1>0, <1>1, <2>2, SeqEqual
  <2> QED BY <1>0, <2>1, <2>3 DEF SerialOf, Increasing, Before
<1> QED BY <1>2, <1>3

LEMMA SerialStep ==
  TypeOK /\ CallInv /\ OrderInv /\ SerialInv /\ [Next]_vars => SerialInv'
<1> SUFFICES ASSUME TypeOK, CallInv, OrderInv, SerialInv, [Next]_vars,
                    NEW w \in Threads, pool = {w}
             PROVE  SerialOf(w)'
  BY PoolStays DEF SerialInv
<1>0. SerialOf(w)
  BY DEF SerialInv
<1>1. /\ rows[w] \in Seq(Event) /\ buffer \in Seq(Event) /\ log \in Seq(Event)
      /\ rows \in [Threads -> Seq(Event)] /\ sequence \in Nat
      /\ pc \in [Threads -> PC]
  BY DEF TypeOK
<1>2. CASE UNCHANGED vars
  BY <1>0, <1>2 DEF vars, SerialOf, Increasing, Before, AllBelow
<1>3. CASE Crash
  <2>1. /\ buffer' = <<>> /\ rows'[w] = <<>> /\ log' = log
        /\ pc'[w] = "dead"
    BY <1>3 DEF Crash
  <2>2. Increasing(log')
    BY <1>0, <2>1 DEF SerialOf
  <2> QED BY <2>1, <2>2, OrderedEmpty DEF SerialOf
<1>4. CASE Caller(w)
  <2>1. /\ pc[w] = "idle" /\ pc'[w] = "create"
        /\ log' = log /\ buffer' = buffer /\ rows' = rows
        /\ sequence' = sequence + 1
    BY <1>1, <1>4 DEF Caller, TaskStarted, StageEvent, AttemptFailed, TaskEnded,
                SkipDisabled, SkipForDependency, Emit, Goto, NextSequence
  <2>2. ASSUME NEW s \in Seq(Event), Elems(s) \subseteq Known
        PROVE  AllBelow(s, sequence + 1)
    <3> SUFFICES ASSUME NEW i \in 1..Len(s) PROVE s[i].seq < sequence + 1
      BY DEF AllBelow
    <3>1. s[i] \in Known
      BY <2>2 DEF Elems
    <3>2. s[i].seq <= sequence /\ s[i].seq \in Nat
      BY <3>1 DEF OrderInv, Known, Event
    <3> QED BY <1>1, <3>2
  <2>3. Elems(log) \subseteq Known /\ Elems(buffer) \subseteq Known
    BY <1>1 DEF Known, Elems
  <2>4. AllBelow(log, sequence') /\ AllBelow(buffer, sequence')
    BY <1>1, <2>1, <2>2, <2>3
  <2> QED BY <1>0, <2>1, <2>4 DEF SerialOf, Increasing, Before, AllBelow
<1>5. CASE Create(w)
  <2>1. /\ pc[w] = "create" /\ pc'[w] = "append"
        /\ log' = log /\ buffer' = buffer /\ rows' = rows
    BY <1>1, <1>5 DEF Create, Goto
  <2>2. event'[w].seq = sequence
    BY <1>5, <2>1 DEF Create, CallInv, Event, TypeOK
  <2> QED BY <1>0, <2>1, <2>2 DEF SerialOf, Increasing, Before, AllBelow
<1>6. CASE AppendEvent(w)
  <2>1. /\ pc[w] = "append" /\ pc'[w] = "test" /\ event[w] \in Event
        /\ log' = log /\ rows' = rows /\ buffer' = Append(buffer, event[w])
    BY <1>1, <1>6 DEF AppendEvent, Goto, CallInv
  <2>2. Increasing(buffer') /\ Before(log', buffer')
    BY <1>0, <1>1, <2>1, OrderedAppend DEF SerialOf
  <2> QED BY <1>0, <2>1, <2>2 DEF SerialOf, Increasing, Before
<1>7. CASE TestFlush(w) \/ TestEmpty(w)
  <2>1. /\ pc[w] \in {"test", "flush"} /\ pc'[w] \in {"flush", "copy", "idle"}
        /\ log' = log /\ buffer' = buffer /\ rows' = rows
    BY <1>1, <1>7 DEF TestFlush, TestEmpty, Leave
  <2>2. rows[w] = <<>>
    BY <1>0, <2>1 DEF SerialOf
  <2>3. Len(rows[w]) = 0 /\ Len(buffer) \in Nat
    BY <1>1, <2>2
  <2>4. Len(rows[w]) <= Len(buffer) /\ \A i \in 1..Len(rows[w]) : rows[w][i] = buffer[i]
    BY <2>3
  <2> QED BY <1>0, <2>1, <2>2, <2>4 DEF SerialOf, Increasing, Before
<1>8. CASE CopyNext(w)
  BY <1>0, <1>8, CopyStep
<1>9. CASE Clear(w)
  <2>1. /\ pc[w] = "clear" /\ pc'[w] = "insert"
        /\ log' = log /\ rows' = rows /\ buffer' = <<>>
    BY <1>1, <1>9 DEF Clear, Goto
  <2>2. Increasing(buffer') /\ Before(log', buffer')
    BY <2>1, OrderedEmpty
  <2> QED BY <1>0, <2>1, <2>2 DEF SerialOf, Increasing, Before
<1>10. CASE Insert(w)
  <2>1. /\ pc[w] = "insert" /\ pc'[w] = "idle" /\ buffer' = buffer
        /\ rows'[w] = <<>> /\ log' \in {log, log \o rows[w]}
    BY <1>1, <1>10 DEF Insert, Leave
  <2>2. buffer' = <<>>
    BY <1>0, <2>1 DEF SerialOf
  <2>3. Increasing(log')
    BY <1>0, <1>1, <2>1, OrderedConcat DEF SerialOf
  <2> QED BY <2>1, <2>2, <2>3, OrderedEmpty DEF SerialOf
<1> QED BY <1>2, <1>3, <1>4, <1>5, <1>6, <1>7, <1>8, <1>9, <1>10
        DEF Next, InEmit, InFlush

\* Everything that orders the events, as one inductive invariant.
LEMMA Ordered == Spec => [](TypeOK /\ CallInv /\ OwnerInv /\ OrderInv /\ SerialInv)
<1>1. Init => OwnerInv
  BY DEF Init, OwnerInv, Busy
<1>2. Init => OrderInv
  BY ElemsEmpty DEF Init, OrderInv, Known, Numbered
<1>3. Init => SerialInv
  <2> SUFFICES ASSUME Init, NEW w \in Threads PROVE SerialOf(w)
    BY DEF SerialInv
  <2>1. /\ log = <<>> /\ buffer = <<>> /\ rows[w] = <<>> /\ pc[w] = "idle"
    BY DEF Init
  <2> QED BY <2>1, OrderedEmpty DEF SerialOf
<1> QED BY <1>1, <1>2, <1>3, TypeInit, TypeStep, OwnerStep, OrderStep,
           SerialStep, PTL DEF Spec

LEMMA SerialPool ==
  ASSUME TypeOK, Serial
  PROVE  \E w \in Threads : pool = {w}
<1>1. IsFiniteSet(pool)
  BY AuditAssumption, FS_Subset DEF TypeOK
<1>2. PICK w : pool = {w}
  BY <1>1, FS_Singleton DEF Serial
<1> QED BY <1>2 DEF TypeOK

(***************************************************************************)
(* schema.py: `sequence' is the "order of events within a task, for stable *)
(* replay".  The events of one task carry increasing numbers although the  *)
(* counter is incremented (Emit) and read again (Create) in two steps and  *)
(* other workers may come in between; with one worker the audit table as a *)
(* whole is in this order.                                                 *)
(***************************************************************************)
THEOREM EventsAreReplayable == Spec => []SequenceOrdersTask
<1>1. ASSUME TypeOK, OrderInv, SerialInv PROVE SequenceOrdersTask
  <2>1. Serial => LogIsInOrder
    BY <1>1, SerialPool DEF SerialInv, SerialOf, Increasing, LogIsInOrder
  <2>2. \A i \in 1..Len(log) : log[i] \in Known
    BY <1>1 DEF TypeOK, Known, Elems
  <2>3. \A i, j \in 1..Len(log) :
          log[i].of = log[j].of /\ log[i].nth < log[j].nth
            => log[i].seq < log[j].seq
    BY <1>1, <2>2 DEF OrderInv
  <2> QED BY <2>1, <2>3 DEF SequenceOrdersTask
<1> QED BY <1>1, Ordered, PTL

----------------------------------------------------------------------------
(* What a crash loses.                                                     *)

\* Event n of table t is one of s.
Holds(s, t, n) == \E e \in Elems(s) : SameEvent(e, t, n)

\* Event n of table t is on its way to the audit table.
Pending(w, t, n) ==
  \/ pc[w] = "insert" /\ Holds(rows[w], t, n)
  \/ pc[w] \in {"create", "append"} /\ SameEvent(event[w], t, n)
  \/ pc[w] # "insert" /\ Holds(buffer, t, n)

Missing(t, n) == ~Inserted(t, n) /\ ~Dropped(t, n)

\* What is missing from the audit table is pending, or was when the process
\* died, and belongs to the open table or to a skipped one.
MissingOf(w) ==
  \A t \in Tables : \A n \in 1..emitted[t] :
    Missing(t, n) => /\ n > closed[t]
                     /\ table[w] = t \/ OnlySkipped(t)
                     /\ pc[w] # "dead" => Pending(w, t, n)

MissingInv == \A w \in Threads : pool = {w} => MissingOf(w)

ClosedInv == \A t \in Tables : closed[t] <= emitted[t]

LEMMA ClosedStep == TypeOK /\ ClosedInv /\ [Next]_vars => ClosedInv'
<1> SUFFICES ASSUME TypeOK, ClosedInv, [Next]_vars PROVE ClosedInv'
  OBVIOUS
<1>0. /\ pool \subseteq Threads
      /\ emitted \in [Tables -> Nat] /\ closed \in [Tables -> Nat]
  BY DEF TypeOK
<1>1. CASE emitted' = emitted /\ closed' = closed
  BY <1>1 DEF ClosedInv
<1>2. ASSUME NEW th \in pool, Leave(th), emitted' = emitted PROVE ClosedInv'
  <2>1. \A t \in Tables : closed'[t] \in {closed[t], emitted[t]}
    BY <1>0, <1>2 DEF Leave
  <2> QED BY <1>0, <1>2, <2>1 DEF ClosedInv
<1>3. ASSUME NEW th \in pool, Caller(th) PROVE ClosedInv'
  <2>1. PICK t \in Tables, flush \in {"no", "attempt", "table"} :
          Emit(th, t, flush)
    BY <1>0, <1>3, CallerCases
  <2>2. /\ closed' = closed
        /\ \A u \in Tables : emitted'[u] \in Nat /\ emitted'[u] >= emitted[u]
    BY <1>0, <2>1 DEF Emit
  <2> QED BY <1>0, <2>2 DEF ClosedInv
<1>4. ASSUME NEW th \in pool, InEmit(th) \/ InFlush(th) PROVE ClosedInv'
  <2>1. CASE Create(th) \/ AppendEvent(th) \/ CopyNext(th) \/ Clear(th)
    BY <1>1, <2>1 DEF Create, AppendEvent, CopyNext, Clear
  <2>2. CASE TestFlush(th) \/ TestEmpty(th) \/ Insert(th)
    BY <1>1, <1>2, <2>2 DEF TestFlush, TestEmpty, Insert
  <2> QED BY <1>4, <2>1, <2>2 DEF InEmit, InFlush
<1>5. CASE Crash \/ UNCHANGED vars
  BY <1>1, <1>5 DEF Crash, vars
<1> QED BY <1>3, <1>4, <1>5 DEF Next

\* The next event is pending, and its table is open or only skipped.
LEMMA MissingEmit ==
  ASSUME TypeOK, ClosedInv, NEW w \in Threads, pool = {w}, MissingOf(w),
         Caller(w)
  PROVE  MissingOf(w)'
<1>0. /\ emitted \in [Tables -> Nat] /\ closed \in [Tables -> Nat]
      /\ table \in [Threads -> Tables \cup {NoTable}]
      /\ pc \in [Threads -> PC]
      /\ event \in [Threads -> Event \cup {NoEvent}]
  BY DEF TypeOK
<1>1. PICK t0 \in Tables, flush \in {"no", "attempt", "table"} :
           /\ Emit(w, t0, flush)
           /\ \/ table[w] = t0 /\ table' = table
              \/ /\ emitted[t0] = 0
                 /\ table[w] = NoTable
                 /\ table' = [table EXCEPT ![w] = t0]
              \/ /\ emitted[t0] = 0 /\ flush = "no" /\ table' = table
                 /\ \A o \in pool : pc[o] = "idle" /\ table[o] = NoTable
  BY CallerCases
<1>2. /\ pc[w] = "idle" /\ pc'[w] = "create"
      /\ emitted' = [emitted EXCEPT ![t0] = @ + 1]
      /\ event'[w].of = t0 /\ event'[w].nth = emitted[t0] + 1
      /\ log' = log /\ dropped' = dropped /\ buffer' = buffer /\ closed' = closed
  BY <1>0, <1>1 DEF Emit, Goto
<1> SUFFICES ASSUME NEW t \in Tables, NEW n \in 1..emitted'[t], Missing(t, n)'
             PROVE  /\ n > closed[t]
                    /\ table'[w] = t \/ OnlySkipped(t)'
                    /\ Pending(w, t, n)'
  BY <1>2 DEF MissingOf
<1>3. Missing(t, n)
  BY <1>2 DEF Missing, Inserted, Dropped
<1>4. closed[t] <= emitted[t]
  BY DEF ClosedInv
<1>5. CASE n \in 1..emitted[t]
  <2>1. n > closed[t] /\ (table[w] = t \/ OnlySkipped(t)) /\ Pending(w, t, n)
    BY <1>2, <1>3, <1>5 DEF MissingOf
  <2>2. Pending(w, t, n)'
    BY <1>2, <2>1 DEF Pending, Holds
  <2>3. CASE t = t0
    <3>1. emitted[t0] # 0
      BY <1>0, <1>5, <2>3
    <3> QED BY <1>1, <2>1, <2>2, <2>3, <3>1
  <2>4. CASE t # t0
    <3>1. emitted'[t] = emitted[t]
      BY <1>0, <1>2, <2>4
    <3>2. OnlySkipped(t) => OnlySkipped(t)'
      BY <1>2, <3>1 DEF OnlySkipped
    <3>3. table[w] = t => table'[w] = t
      BY <1>0, <1>1, AuditAssumption
    <3> QED BY <2>1, <2>2, <3>2, <3>3
  <2> QED BY <2>3, <2>4
<1>6. CASE n \notin 1..emitted[t]
  <2>1. t = t0 /\ n = emitted[t0] + 1
    BY <1>0, <1>2, <1>6
  <2>2. n > closed[t]
    BY <1>0, <1>4, <2>1
  <2>3. Pending(w, t, n)'
    BY <1>2, <2>1 DEF Pending, SameEvent
  <2>4. table'[w] = t \/ OnlySkipped(t)'
    <3>1. CASE emitted[t0] = 0 /\ table' = table
      <4>1. emitted'[t0] = 1 /\ closed[t0] = 0
        BY <1>0, <1>2, <1>4, <2>1, <3>1
      <4> QED BY <1>2, <2>1, <4>1 DEF OnlySkipped
    <3>2. CASE ~(emitted[t0] = 0 /\ table' = table)
      BY <1>0, <1>1, <2>1, <3>2
    <3> QED BY <3>1, <3>2
  <2> QED BY <2>2, <2>3, <2>4
<1> QED BY <1>5, <1>6

LEMMA MissingStep ==
  TypeOK /\ CallInv /\ SerialInv /\ ClosedInv /\ MissingInv /\ [Next]_vars
    => MissingInv'
<1> SUFFICES ASSUME TypeOK, CallInv, SerialInv, ClosedInv, MissingInv,
                    [Next]_vars, NEW w \in Threads, pool = {w}
             PROVE  MissingOf(w)'
  BY PoolStays DEF MissingInv
<1>0. SerialOf(w) /\ MissingOf(w)
  BY DEF SerialInv, MissingInv
<1>1. /\ rows[w] \in Seq(Event) /\ buffer \in Seq(Event) /\ log \in Seq(Event)
      /\ rows \in [Threads -> Seq(Event)]
      /\ pc \in [Threads -> PC]
      /\ event \in [Threads -> Event \cup {NoEvent}]
  BY DEF TypeOK
\* A step that neither closes nor emits, and that keeps pending events so.
<1>2. ASSUME UNCHANGED <<log, dropped, emitted, closed>>, table' = table,
             \A t \in Tables, n \in Nat :
               pc'[w] # "dead" => pc[w] # "dead"
                                    /\ (Pending(w, t, n) => Pending(w, t, n)')
      PROVE  MissingOf(w)'
  <2> SUFFICES ASSUME NEW t \in Tables, NEW n \in 1..emitted[t], Missing(t, n)'
               PROVE  /\ n > closed[t]
                      /\ table[w] = t \/ OnlySkipped(t)'
                      /\ pc'[w] # "dead" => Pending(w, t, n)'
    BY <1>2 DEF MissingOf
  <2>1. Missing(t, n) /\ (OnlySkipped(t) <=> OnlySkipped(t)')
    BY <1>2 DEF Missing, Inserted, Dropped, OnlySkipped
  <2>2. n \in Nat
    OBVIOUS
  <2> QED BY <1>0, <1>2, <2>1, <2>2 DEF MissingOf
\* A step after which nothing is missing.
<1>3. ASSUME emitted' = emitted, pc[w] # "dead",
             \A t \in Tables, n \in Nat :
               Missing(t, n)' => Missing(t, n) /\ ~Pending(w, t, n)
      PROVE  MissingOf(w)'
  BY <1>0, <1>3 DEF MissingOf
<1>4. CASE UNCHANGED vars
  BY <1>2, <1>4 DEF vars, Pending, Holds
<1>5. CASE Crash
  <2>1. pc'[w] = "dead"
    BY <1>5 DEF Crash
  <2> QED BY <1>2, <1>5, <2>1 DEF Crash
<1>6. CASE Caller(w)
  BY <1>0, <1>6, MissingEmit
<1>7. CASE Create(w)
  <2>1. /\ pc[w] = "create" /\ pc'[w] = "append" /\ buffer' = buffer
        /\ event'[w].of = event[w].of /\ event'[w].nth = event[w].nth
    <3>1. event[w] \in Event /\ pc[w] = "create"
      BY <1>7 DEF Create, Goto, CallInv
    <3>2. event'[w] = [event[w] EXCEPT !.seq = sequence]
      BY <1>1, <1>7 DEF Create
    <3> QED BY <1>1, <1>7, <3>1, <3>2 DEF Create, Goto, Event
  <2>2. \A t \in Tables, n \in Nat : Pending(w, t, n) => Pending(w, t, n)'
    BY <2>1 DEF Pending, Holds, SameEvent
  <2> QED BY <1>2, <1>7, <2>1, <2>2 DEF Create
<1>8. CASE AppendEvent(w)
  <2>1. /\ pc[w] = "append" /\ pc'[w] = "test" /\ event[w] \in Event
        /\ buffer' = Append(buffer, event[w])
    BY <1>1, <1>8 DEF AppendEvent, Goto, CallInv
  <2>2. Elems(buffer') = Elems(buffer) \cup {event[w]}
    BY <1>1, <2>1, ElemsAppend
  <2>3. \A t \in Tables, n \in Nat : Pending(w, t, n) => Pending(w, t, n)'
    BY <2>1, <2>2 DEF Pending, Holds
  <2> QED BY <1>2, <1>8, <2>1, <2>3 DEF AppendEvent
<1>9. CASE TestFlush(w)
  <2>1. /\ pc[w] = "test" /\ pc'[w] \in {"flush", "idle"} /\ buffer' = buffer
        /\ closed' = closed /\ table' = table
    BY <1>1, <1>9 DEF TestFlush, MustFlush, Leave
  <2>2. \A t \in Tables, n \in Nat : Pending(w, t, n) => Pending(w, t, n)'
    BY <2>1 DEF Pending, Holds
  <2> QED BY <1>2, <1>9, <2>1, <2>2 DEF TestFlush
<1>10. CASE TestEmpty(w)
  <2>1. CASE buffer = <<>>
    <3>1. \A t \in Tables, n \in Nat : ~Pending(w, t, n)
      BY <1>10, <2>1, ElemsEmpty DEF TestEmpty, Pending, Holds
    <3>2. \A t \in Tables, n \in Nat : Missing(t, n)' => Missing(t, n)
      BY <1>10 DEF TestEmpty, Missing, Inserted, Dropped
    <3> QED BY <1>3, <1>10, <3>1, <3>2 DEF TestEmpty
  <2>2. CASE buffer # <<>>
    <3>1. pc[w] = "flush" /\ pc'[w] = "copy" /\ buffer' = buffer
      BY <1>1, <1>10, <2>2 DEF TestEmpty
    <3>2. \A t \in Tables, n \in Nat : Pending(w, t, n) => Pending(w, t, n)'
      BY <3>1 DEF Pending, Holds
    <3> QED BY <1>2, <1>10, <2>2, <3>1, <3>2 DEF TestEmpty
  <2> QED BY <2>1, <2>2
<1>11. CASE CopyNext(w)
  <2>1. pc[w] = "copy" /\ pc'[w] \in {"copy", "clear"} /\ buffer' = buffer
    BY <1>1, <1>11 DEF CopyNext
  <2>2. \A t \in Tables, n \in Nat : Pending(w, t, n) => Pending(w, t, n)'
    BY <2>1 DEF Pending, Holds
  <2> QED BY <1>2, <1>11, <2>1, <2>2 DEF CopyNext
\* The copy is the buffer as it is when it is cleared.
<1>12. CASE Clear(w)
  <2>1. pc[w] = "clear" /\ pc'[w] = "insert" /\ rows' = rows /\ rows[w] = buffer
    BY <1>0, <1>1, <1>12 DEF Clear, Goto, SerialOf
  <2>2. \A t \in Tables, n \in Nat : Pending(w, t, n) => Pending(w, t, n)'
    BY <2>1 DEF Pending, Holds
  <2> QED BY <1>2, <1>12, <2>1, <2>2 DEF Clear
\* What was pending is inserted, or dropped with the insert that failed.
<1>13. CASE Insert(w)
  <2>1. pc[w] = "insert" /\ emitted' = emitted
    BY <1>13 DEF Insert
  <2>2. ASSUME NEW t \in Tables, NEW n \in Nat, Missing(t, n)'
        PROVE  Missing(t, n) /\ ~Holds(rows[w], t, n)
    <3>0. /\ Inserted(t, n) <=> Holds(log, t, n)
          /\ Inserted(t, n)' <=> Holds(log', t, n)
      BY DEF Inserted, Holds, Elems
    <3>1. CASE log' = log \o rows[w] /\ dropped' = dropped
      <4>1. Elems(log') = Elems(log) \cup Elems(rows[w])
        BY <1>1, <3>1, ElemsConcat
      <4> QED BY <2>2, <3>0, <3>1, <4>1 DEF Missing, Dropped, Holds
    <3>2. CASE dropped' = dropped \cup Elems(rows[w]) /\ log' = log
      BY <2>2, <3>0, <3>2 DEF Missing, Dropped, Holds
    <3> QED BY <1>13, <3>1, <3>2 DEF Insert, Elems
  <2>3. \A t \in Tables, n \in Nat :
          Missing(t, n)' => Missing(t, n) /\ ~Pending(w, t, n)
    BY <2>1, <2>2 DEF Pending
  <2> QED BY <1>3, <2>1, <2>3
<1> QED BY <1>4, <1>5, <1>6, <1>7, <1>8, <1>9, <1>10, <1>11, <1>12, <1>13
        DEF Next, InEmit, InFlush

(***************************************************************************)
(* audit.py: "a crash loses at most the events of the task that crashed".  *)
(* With one worker, and whatever inserts fail, what is missing from the    *)
(* audit table after a crash (Crash) belongs to the table that was being   *)
(* executed, to a failed insert or to a table skipped for a dependency;    *)
(* nothing of a closed attempt is missing, because emit(flush=True)        *)
(* returns only when the buffer was inserted (TestEmpty, Insert).          *)
(***************************************************************************)
THEOREM ClosedAttemptsAreKept == Spec => []CrashLosesOpenTask
<1>1. Init => ClosedInv /\ MissingInv
  BY DEF Init, ClosedInv, MissingInv, MissingOf
<1>2. ASSUME TypeOK, MissingInv PROVE CrashLosesOpenTask
  <2> SUFFICES ASSUME Serial, NEW t \in Tables, NEW n \in 1..MaxEvents,
                      n <= emitted[t], ~Inserted(t, n), ~Dropped(t, n)
               PROVE  /\ n > closed[t]
                      /\ (\A th \in pool : pc[th] = "dead")
                           => OnlySkipped(t) \/ \E th \in pool : table[th] = t
    BY DEF CrashLosesOpenTask
  <2>1. PICK w \in Threads : pool = {w}
    BY <1>2, SerialPool
  <2>2. n \in 1..emitted[t]
    BY <1>2 DEF TypeOK
  <2> QED BY <1>2, <2>1, <2>2 DEF MissingInv, MissingOf, Missing
<1> QED BY <1>1, <1>2, ClosedStep, MissingStep, Ordered, PTL DEF Spec
=============================================================================
