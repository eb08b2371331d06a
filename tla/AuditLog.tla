------------------------------ MODULE AuditLog ------------------------------
(***************************************************************************)
(* The audit event stream (control/audit.py) and the threads of one        *)
(* process that write to it.  One AuditLog object is shared by the whole   *)
(* batch; with --max-workers above 1 its callers are the threads of the    *)
(* pool.  There is no lock: the interpreter may switch threads at every    *)
(* call, so emit and flush are split where another thread can come in      *)
(* between.                                                                *)
(*                                                                         *)
(* A thread executes one table after the other: TASK_STARTED and the       *)
(* events of the stages are buffered, the event that closes an attempt is  *)
(* emitted with flush=True.  A table that is blocked by a dependency gets  *)
(* one TASK_SKIPPED event, from the main thread, without a flush.          *)
(* RUN_STARTED and RUN_FINISHED, which belong to no table, are left out.   *)
(***************************************************************************)
EXTENDS Naturals, Sequences, FiniteSets

CONSTANTS Threads,       \* workers a pool may have
          Tables,
          BufferLimit,   \* AuditLog(buffer_limit=...)
          MaxEvents,     \* bound: events of one task
          MaxFaults      \* bound: inserts that fail, and the crash

\* A thread between two tables.
NoTable == "no table"

ASSUME AuditAssumption == /\ IsFiniteSet(Threads)
                          /\ NoTable \notin Tables
                          /\ BufferLimit \in Nat \ {0}
                          /\ MaxEvents \in Nat \ {0}
                          /\ MaxFaults \in Nat

VARIABLES
  pool,       \* the workers of this batch: --max-workers of them
  sequence,   \* self._sequence
  buffer,     \* self._buffer
  log,        \* the rows of the audit table, in the order of their inserts
  emitted,    \* events of each table so far
  table,      \* the table a thread is executing, NoTable between two
  pc,         \* where the thread is in emit and flush
  event,      \* the event it is emitting
  flushing,   \* emit's flush argument: "no", or what the event closes
  rows,       \* flush's local copy of the buffer
  closed,     \* history: events of each table when an attempt was last closed
  dropped,    \* history: events of inserts that failed
  faults

vars == <<pool, sequence, buffer, log, emitted, table, pc, event, flushing,
          rows, closed, dropped, faults>>

\* An event: its table, its place among the table's events, its sequence.
Event == [of : Tables, nth : 1..MaxEvents, seq : Nat]

NoEvent == [of |-> NoTable, nth |-> 0, seq |-> 0]

PC == {"idle", "create", "append", "test", "flush", "copy", "clear", "insert",
       "dead"}

TypeOK == /\ pool \subseteq Threads
          /\ sequence \in Nat
          /\ buffer \in Seq(Event)
          /\ log \in Seq(Event)
          /\ emitted \in [Tables -> 0..MaxEvents]
          /\ table \in [Threads -> Tables \cup {NoTable}]
          /\ pc \in [Threads -> PC]
          /\ event \in [Threads -> Event \cup {NoEvent}]
          /\ flushing \in [Threads -> {"no", "attempt", "table"}]
          /\ rows \in [Threads -> Seq(Event)]
          /\ closed \in [Tables -> 0..MaxEvents]
          /\ dropped \in SUBSET Event
          /\ faults \in 0..MaxFaults

Init == /\ pool \in (SUBSET Threads) \ {{}}
        /\ sequence = 0
        /\ buffer = <<>>
        /\ log = <<>>
        /\ emitted = [t \in Tables |-> 0]
        /\ table = [th \in Threads |-> NoTable]
        /\ pc = [th \in Threads |-> "idle"]
        /\ event = [th \in Threads |-> NoEvent]
        /\ flushing = [th \in Threads |-> "no"]
        /\ rows = [th \in Threads |-> <<>>]
        /\ closed = [t \in Tables |-> 0]
        /\ dropped = {}
        /\ faults = 0

Goto(th, from, to) == /\ pc[th] = from
                      /\ pc' = [pc EXCEPT ![th] = to]

----------------------------------------------------------------------------
(* The callers.                                                            *)

\* MUTANT: the sequence starts again with every flush.
NextSequenceInBuffer == Len(buffer) + 1

NextSequence == sequence + 1

\* Enter emit for the next event of table t: self._sequence += 1.
Emit(th, t, flush) ==
  /\ Goto(th, "idle", "create")
  /\ sequence' = NextSequence
  /\ emitted' = [emitted EXCEPT ![t] = @ + 1]
  /\ event' = [event EXCEPT ![th] = [of |-> t, nth |-> emitted[t] + 1,
                                     seq |-> 0]]
  /\ flushing' = [flushing EXCEPT ![th] = flush]
  /\ UNCHANGED <<pool, buffer, log, rows, closed, dropped, faults>>

\* The main thread is skipping a table; the level is not yet submitted.
Skipping == \E th \in pool : pc[th] # "idle" /\ table[th] = NoTable

\* TASK_STARTED of a table's first attempt.
TaskStarted(th, t) == /\ table[th] = NoTable
                      /\ ~Skipping
                      /\ emitted[t] = 0
                      /\ table' = [table EXCEPT ![th] = t]
                      /\ Emit(th, t, "no")

\* An event of a stage, or TASK_RETRYING and the next TASK_STARTED.
StageEvent(th, t) == /\ table[th] = t
                     /\ emitted[t] < MaxEvents - 1
                     /\ UNCHANGED table
                     /\ Emit(th, t, "no")

\* TASK_FAILED of an attempt that is retried.
AttemptFailed(th, t) == /\ table[th] = t
                        /\ emitted[t] < MaxEvents - 1
                        /\ UNCHANGED table
                        /\ Emit(th, t, "attempt")

\* TASK_SUCCEEDED, or the last TASK_FAILED.
TaskEnded(th, t) == /\ table[th] = t
                    /\ emitted[t] < MaxEvents
                    /\ UNCHANGED table
                    /\ Emit(th, t, "table")

\* TASK_SKIPPED of a disabled table, its only event.
SkipDisabled(th, t) == /\ table[th] = NoTable
                       /\ ~Skipping
                       /\ emitted[t] = 0
                       /\ table' = [table EXCEPT ![th] = t]
                       /\ Emit(th, t, "table")

\* MUTANT: a table that was skipped is skipped again.
SkipForDependencyAgain(th, t) ==
  /\ \A o \in pool : pc[o] = "idle" /\ table[o] = NoTable
  /\ \E u \in Tables \ {t} : closed[u] > 0
  /\ UNCHANGED table
  /\ Emit(th, t, "no")

\* TASK_SKIPPED for a dependency that has failed: between two levels, when
\* no worker runs.
SkipForDependency(th, t) ==
  /\ \A o \in pool : pc[o] = "idle" /\ table[o] = NoTable
  /\ \E u \in Tables : closed[u] > 0
  /\ emitted[t] = 0
  /\ UNCHANGED table
  /\ Emit(th, t, "no")

----------------------------------------------------------------------------
(* emit.                                                                   *)

\* AuditEvent(...): the counter is read again, not the value just written.
Create(th) ==
  /\ Goto(th, "create", "append")
  /\ event' = [event EXCEPT ![th].seq = sequence]
  /\ UNCHANGED <<pool, sequence, buffer, log, emitted, table, flushing, rows, closed,
                 dropped, faults>>

AppendEvent(th) ==
  /\ Goto(th, "append", "test")
  /\ buffer' = Append(buffer, event[th])
  /\ UNCHANGED <<pool, sequence, log, emitted, table, event, flushing, rows, closed,
                 dropped, faults>>

\* MUTANT: the limit is tested one event too late.
FullOffByOne == Len(buffer) > BufferLimit

Full == Len(buffer) >= BufferLimit

\* MUTANT: emit ignores its flush argument.
MustFlushIgnored(th) == Full

\* if flush or len(buffer) >= limit.
MustFlush(th) == flushing[th] # "no" \/ Full

\* Leave emit, by a return or an exception.
Leave(th) ==
  /\ pc' = [pc EXCEPT ![th] = "idle"]
  /\ event' = [event EXCEPT ![th] = NoEvent]
  /\ flushing' = [flushing EXCEPT ![th] = "no"]
  /\ closed' = IF flushing[th] = "no"
                 THEN closed
                 ELSE [closed EXCEPT ![table[th]] = emitted[table[th]]]
  /\ table' = IF flushing[th] = "table"
                THEN [table EXCEPT ![th] = NoTable]
                ELSE table

TestFlush(th) ==
  /\ pc[th] = "test"
  /\ IF MustFlush(th)
       THEN /\ pc' = [pc EXCEPT ![th] = "flush"]
            /\ UNCHANGED <<event, flushing, closed, table>>
       ELSE Leave(th)
  /\ UNCHANGED <<pool, sequence, buffer, log, emitted, rows, dropped, faults>>

----------------------------------------------------------------------------
(* flush.                                                                  *)

\* if not self._buffer: return 0.
TestEmpty(th) ==
  /\ pc[th] = "flush"
  /\ IF buffer = <<>>
       THEN Leave(th)
       ELSE /\ pc' = [pc EXCEPT ![th] = "copy"]
            /\ UNCHANGED <<event, flushing, closed, table>>
  /\ UNCHANGED <<pool, sequence, buffer, log, emitted, rows, dropped, faults>>

\* The comprehension takes the next element of the list as it is now.
CopyNext(th) ==
  /\ pc[th] = "copy"
  /\ IF Len(rows[th]) < Len(buffer)
       THEN /\ rows' = [rows EXCEPT ![th] =
                          Append(@, buffer[Len(rows[th]) + 1])]
            /\ UNCHANGED pc
       ELSE /\ pc' = [pc EXCEPT ![th] = "clear"]
            /\ UNCHANGED rows
  /\ UNCHANGED <<pool, sequence, buffer, log, emitted, table, event, flushing,
                 closed, dropped, faults>>

\* self._buffer.clear().
Clear(th) ==
  /\ Goto(th, "clear", "insert")
  /\ buffer' = <<>>
  /\ UNCHANGED <<pool, sequence, log, emitted, table, event, flushing, rows, closed,
                 dropped, faults>>

\* insert_rows.  An error leaves flush and emit; the rows are gone.
Insert(th) ==
  /\ pc[th] = "insert"
  /\ \/ /\ log' = log \o rows[th]
        /\ UNCHANGED <<dropped, faults>>
     \/ /\ faults < MaxFaults
        /\ faults' = faults + 1
        /\ dropped' = dropped \cup {rows[th][i] : i \in 1..Len(rows[th])}
        /\ UNCHANGED log
  /\ rows' = [rows EXCEPT ![th] = <<>>]
  /\ Leave(th)
  /\ UNCHANGED <<pool, sequence, buffer, emitted>>

----------------------------------------------------------------------------
Caller(th) == \E t \in Tables : \/ TaskStarted(th, t) \/ StageEvent(th, t)
                                \/ AttemptFailed(th, t) \/ TaskEnded(th, t)
                                \/ SkipDisabled(th, t)
                                \/ SkipForDependency(th, t)

InEmit(th) == Create(th) \/ AppendEvent(th) \/ TestFlush(th)

InFlush(th) == TestEmpty(th) \/ CopyNext(th) \/ Clear(th) \/ Insert(th)

(***************************************************************************)
(* The process is lost: the buffer and the rows on their way go with it.   *)
(* The tables that were open stay as they were, for the properties.        *)
(***************************************************************************)
Crash == /\ \A th \in pool : pc[th] # "dead"
         /\ faults < MaxFaults
         /\ faults' = faults + 1
         /\ pc' = [th \in Threads |-> "dead"]
         /\ buffer' = <<>>
         /\ rows' = [th \in Threads |-> <<>>]
         /\ event' = [th \in Threads |-> NoEvent]
         /\ flushing' = [th \in Threads |-> "no"]
         /\ UNCHANGED <<pool, sequence, log, emitted, table, closed, dropped>>

Next == Crash \/ \E th \in pool : Caller(th) \/ InEmit(th) \/ InFlush(th)

Spec == Init /\ [][Next]_vars

----------------------------------------------------------------------------
(* Properties.                                                             *)

SameEvent(e, t, n) == e.of = t /\ e.nth = n

Inserted(t, n) == \E i \in 1..Len(log) : SameEvent(log[i], t, n)

Dropped(t, n) == \E e \in dropped : SameEvent(e, t, n)

Serial == Cardinality(pool) = 1

\* The main thread emitted TASK_SKIPPED for t and the buffer was not flushed.
OnlySkipped(t) == emitted[t] = 1 /\ closed[t] = 0

(***************************************************************************)
(* audit.py: "a crash loses at most the events of the task that crashed".  *)
(* When the process dies, what is missing from the audit table belongs to  *)
(* the table that was being executed, was part of an insert that failed,   *)
(* or is the TASK_SKIPPED of a table blocked by a dependency, which is not *)
(* flushed.  Of a closed attempt nothing is missing, dead or alive.  Holds *)
(* for one worker; run audit_pool shows what two workers lose.             *)
(***************************************************************************)
CrashLosesOpenTask ==
  Serial =>
    \A t \in Tables, n \in 1..MaxEvents :
      n <= emitted[t] /\ ~Inserted(t, n) /\ ~Dropped(t, n)
        => /\ n > closed[t]
           /\ (\A th \in pool : pc[th] = "dead")
                => OnlySkipped(t) \/ \E th \in pool : table[th] = t

(***************************************************************************)
(* Whenever no call of the log is under way, every event is in the buffer, *)
(* in the audit table, or was part of an insert that failed: audit.py says *)
(* that only a crash loses events.                                         *)
(***************************************************************************)
NothingVanishes ==
  (\A th \in Threads : pc[th] = "idle") =>
    \A t \in Tables : \A n \in 1..emitted[t] :
      \/ Inserted(t, n)
      \/ Dropped(t, n)
      \/ \E i \in 1..Len(buffer) : SameEvent(buffer[i], t, n)

\* The audit table has each event once, and in the order of `sequence'.
LogIsInOrder == \A i, j \in 1..Len(log) : i < j => log[i].seq < log[j].seq

(***************************************************************************)
(* schema.py: `sequence' is the "order of events within a task, for stable *)
(* replay".  With one worker the audit table is in this order as a whole,  *)
(* without an event twice.  With several, which interrupt each other       *)
(* between the increment of the counter and its use, the events of one     *)
(* task still carry increasing numbers.                                    *)
(***************************************************************************)
SequenceOrdersTask ==
  /\ Serial => LogIsInOrder
  /\ \A i, j \in 1..Len(log) :
       log[i].of = log[j].of /\ log[i].nth < log[j].nth
         => log[i].seq < log[j].seq

(***************************************************************************)
(* The buffer holds at most buffer_limit events, and one more for each     *)
(* further worker, also when inserts fail and when one worker appends      *)
(* while another is between its test and clear.                            *)
(***************************************************************************)
BufferIsBounded == Len(buffer) < BufferLimit + Cardinality(pool)
=============================================================================
