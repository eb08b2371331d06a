------------------------------- MODULE Staging -------------------------------
(***************************************************************************)
(* One table's loads between the extract and the advance: the staging      *)
(* statement that reduces a batch to the newest row of each merge key      *)
(* (engine/transformer.py), the MERGE (engine/loader.py) and the checks    *)
(* that decide whether the watermark may move (engine/reconciler.py).      *)
(*                                                                         *)
(* Here the merge key need not be unique in the source and may be NULL.    *)
(* The raw view is lazy: the source count, the duplicate count, the count  *)
(* of NULL keys, the MERGE and the expectations each evaluate it again, in *)
(* this order, and the rows of the window may change in between.           *)
(***************************************************************************)
EXTENDS Integers, FiniteSets

CONSTANTS Slots,              \* places for the physical rows of the window
          Keys,               \* complete values of the merge key
          NullKeys,           \* values of the merge key with a NULL part
          MaxStamp,           \* bound: the newest watermark of a row
          Ties,               \* may rows of one key carry equal watermarks?
          Incremental,        \* an incremental table, not a full load?
          NullCheckKeys,      \* quality.null_check_keys
          ExpectationAction,  \* "fail" or "warn"
          MaxMoves,           \* bound: changes of the source
          MaxLoads            \* bound: loads of the window

ASSUME StagingAssumption == /\ IsFiniteSet(Slots)
                            /\ IsFiniteSet(Keys)
                            /\ Keys \cap NullKeys = {}
                            /\ MaxStamp \in Nat
                            /\ Ties \in BOOLEAN
                            /\ Incremental \in BOOLEAN
                            /\ NullCheckKeys \in BOOLEAN
                            /\ ExpectationAction \in {"fail", "warn"}
                            /\ MaxMoves \in Nat
                            /\ MaxLoads \in Nat

VARIABLES
  raw,         \* the rows of the window, as a query would return them now
  target,      \* the row of each complete key in the Bronze table
  stray,       \* rows with a NULL key in the Bronze table
  lastWrite,   \* rows inserted and updated by the newest commit
  lastOutput,  \* its numOutputRows: also the rows it has copied unchanged
  pc,          \* the next query of the load
  count,       \* extract.source_count
  duplicates,  \* stage.duplicates_removed
  nullRows,    \* stage.null_key_rows
  written,     \* load.rows_written, Unknown when metrics were unavailable
  violations,  \* rows that violate the table's expectation
  batch,       \* history: the rows the MERGE has read
  quiet,       \* history: has the source kept still since the load began?
  moves,
  loads

counts == <<count, duplicates, nullRows, written, violations>>
vars == <<raw, target, stray, lastWrite, lastOutput, pc, counts, batch, quiet,
          moves, loads>>

\* A row: its key, its watermark (0 for NULL, which orders below all others
\* and beats nothing in the guard), and whether it violates an expectation.
Row == [key : Keys \cup NullKeys, wm : 0..MaxStamp, bad : BOOLEAN]

NoRow == [key |-> "none", wm |-> 0, bad |-> FALSE]

\* SQL's NULL in a counter.
Unknown == -1

Present == {s \in Slots : raw[s] # NoRow}

Group(k) == {s \in Present : raw[s].key = k}

\* Without ties, the newest row of a key is one row.
Distinct(table) ==
  \A r, s \in Slots : table[r] # NoRow /\ r # s =>
    table[r].key # table[s].key \/ table[r].wm # table[s].wm

TypeOK == /\ raw \in [Slots -> Row \cup {NoRow}]
          /\ target \in [Keys -> Row \cup {NoRow}]
          /\ stray \in Nat
          /\ lastWrite \in Nat
          /\ lastOutput \in Nat
          /\ pc \in {"count", "duplicates", "nulls", "merge", "metrics",
                     "expectations", "checked"}
          /\ count \in Nat
          /\ duplicates \in Nat
          /\ nullRows \in Nat \cup {Unknown}
          /\ written \in Nat \cup {Unknown}
          /\ violations \in Nat
          /\ batch \subseteq Row
          /\ quiet \in BOOLEAN
          /\ moves \in 0..MaxMoves
          /\ loads \in 0..MaxLoads

\* An empty target, and any rows in the window.
Init == /\ raw \in [Slots -> Row \cup {NoRow}]
        /\ Ties \/ Distinct(raw)
        /\ target = [k \in Keys |-> NoRow]
        /\ stray = 0
        /\ lastWrite = 0
        /\ lastOutput = 0
        /\ pc = "count"
        /\ count = 0
        /\ duplicates = 0
        /\ nullRows = Unknown
        /\ written = Unknown
        /\ violations = 0
        /\ batch = {}
        /\ quiet = TRUE
        /\ moves = 0
        /\ loads = 0

----------------------------------------------------------------------------
(* The source.                                                             *)

\* A row enters the window, leaves it, or is another when read again.
Change(s, row) == /\ moves < MaxMoves
                  /\ raw[s] # row
                  /\ raw' = [raw EXCEPT ![s] = row]
                  /\ Ties \/ Distinct(raw')
                  /\ quiet' = FALSE
                  /\ moves' = moves + 1
                  /\ UNCHANGED <<target, stray, lastWrite, lastOutput, pc, counts,
                                 batch, loads>>

----------------------------------------------------------------------------
(* extract and stage: three counts.                                        *)

\* build_count_query.
CountSource == /\ pc = "count"
               /\ loads < MaxLoads
               /\ count' = Cardinality(Present)
               /\ quiet' = TRUE
               /\ pc' = "duplicates"
               /\ UNCHANGED <<raw, target, stray, lastWrite, lastOutput,
                              duplicates, nullRows, written, violations, batch,
                              moves, loads>>

\* MUTANT: the difference is taken the wrong way round.
DuplicateRowsSwapped ==
  Cardinality({raw[s].key : s \in Present} \ NullKeys) - Cardinality(Present)

\* COUNT(*) - COUNT(DISTINCT keys): COUNT DISTINCT leaves out NULL keys.
DuplicateRows ==
  Cardinality(Present) - Cardinality({raw[s].key : s \in Present} \ NullKeys)

CountDuplicates == /\ pc = "duplicates"
                   /\ duplicates' = DuplicateRows
                   /\ pc' = IF NullCheckKeys THEN "nulls" ELSE "merge"
                   /\ UNCHANGED <<raw, target, stray, lastWrite, lastOutput,
                                  count, nullRows, written, violations, batch,
                                  quiet, moves, loads>>

\* build_null_key_query.
NullKeyRows == Cardinality({s \in Present : raw[s].key \in NullKeys})

CountNullKeys == /\ pc = "nulls"
                 /\ nullRows' = NullKeyRows
                 /\ pc' = "merge"
                 /\ UNCHANGED <<raw, target, stray, lastWrite, lastOutput,
                                count, duplicates, written, violations, batch,
                                quiet, moves, loads>>

----------------------------------------------------------------------------
(* The staged view and the MERGE.                                          *)

\* ORDER BY watermark DESC NULLS LAST: the rows that may be number one.
Survivors(k) == {s \in Group(k) : \A r \in Group(k) : raw[r].wm <= raw[s].wm}

\* ROW_NUMBER() OVER (PARTITION BY keys ...) = 1: one survivor of every key,
\* and a partition of its own for each NULL key.
Stagings ==
  LET groups == {k \in Keys \cup NullKeys : Group(k) # {}}
  IN  {{raw[pick[k]] : k \in groups} :
         pick \in {p \in [groups -> Slots] :
                     \A k \in groups : p[k] \in Survivors(k)}}

\* WHEN MATCHED AND (t.wm IS NULL OR s.wm >= t.wm), or NOT MATCHED.
Accepted(rows) ==
  {r \in rows : /\ r.key \in Keys
                /\ target[r.key] = NoRow \/ r.wm >= target[r.key].wm}

\* A NULL key matches nothing: NOT MATCHED, INSERT.
Unmatched(rows) == {r \in rows : r.key \in NullKeys}

\* Rows of the target that this MERGE leaves as they are. It rewrites whole
\* files: when some row matches, any of these may lie in a file it touches
\* and be copied into the new one.
Kept(rows) == Cardinality({k \in Keys : /\ target[k] # NoRow
                                        /\ \A r \in Accepted(rows) : r.key # k})
              + stray

Copies(rows) ==
  IF \E r \in rows : r.key \in Keys /\ target[r.key] # NoRow
    THEN 0..Kept(rows) ELSE {0}

\* build_merge_sql on the staged view, which is evaluated here.
Merge == /\ pc = "merge"
         /\ \E rows \in Stagings :
              /\ batch' = rows
              /\ target' = [k \in Keys |->
                              IF \E r \in Accepted(rows) : r.key = k
                                THEN CHOOSE r \in Accepted(rows) : r.key = k
                                ELSE target[k]]
              /\ stray' = stray + Cardinality(Unmatched(rows))
              /\ lastWrite' = Cardinality(Accepted(rows) \cup Unmatched(rows))
              /\ \E copied \in Copies(rows) : lastOutput' = lastWrite' + copied
         /\ pc' = "metrics"
         /\ UNCHANGED <<raw, counts, quiet, moves, loads>>

\* _collect_metrics: numOutputRows if the commit reports it, else the rows
\* inserted and updated; an error leaves rows_written unset.
CollectMetrics == /\ pc = "metrics"
                  /\ written' \in {lastOutput, lastWrite, Unknown}
                  /\ pc' = "expectations"
                  /\ UNCHANGED <<raw, target, stray, lastWrite, lastOutput,
                                 count, duplicates, nullRows, violations, batch,
                                 quiet, moves, loads>>

----------------------------------------------------------------------------
(* Reconciler.run.                                                         *)

\* build_expectation_query counts the violations in the staged view, which
\* is evaluated once more.
CheckExpectations == /\ pc = "expectations"
                     /\ \E rows \in Stagings :
                          violations' = Cardinality({r \in rows : r.bad})
                     /\ pc' = "checked"
                     /\ UNCHANGED <<raw, target, stray, lastWrite, lastOutput,
                                    count, duplicates, nullRows, written, batch,
                                    quiet, moves, loads>>

\* MUTANT: the source count is compared straight with the rows written.
ReconcileRowCountRaw ==
  IF written = Unknown THEN "SKIPPED"
  ELSE IF written = count THEN "PASSED" ELSE "FAILED"

ReconcileRowCount ==
  IF written = Unknown THEN "SKIPPED"
  ELSE IF written + duplicates = count THEN "PASSED" ELSE "FAILED"

\* Duplicates are never a failure.
CheckDuplicates == IF duplicates = 0 \/ Incremental THEN "PASSED" ELSE "WARNED"

CheckNullKeys ==
  IF nullRows = Unknown THEN "SKIPPED"
  ELSE IF nullRows = 0 THEN "PASSED" ELSE "FAILED"

\* MUTANT: a violation is reported and never fails the load.
EvaluateExpectationWarns == IF violations = 0 THEN "PASSED" ELSE "WARNED"

EvaluateExpectation ==
  IF violations = 0 THEN "PASSED"
  ELSE IF ExpectationAction = "fail" THEN "FAILED" ELSE "WARNED"

\* report.ok.
CountsOk == "FAILED" \notin {ReconcileRowCount, CheckDuplicates, CheckNullKeys}
ReportOk == CountsOk /\ EvaluateExpectation # "FAILED"

\* A retry, or the next run, loads the window again.
NextLoad == /\ pc = "checked"
            /\ loads' = loads + 1
            /\ pc' = "count"
            /\ count' = 0
            /\ duplicates' = 0
            /\ nullRows' = Unknown
            /\ written' = Unknown
            /\ violations' = 0
            /\ batch' = {}
            /\ UNCHANGED <<raw, target, stray, lastWrite, lastOutput, quiet,
                           moves>>

Query == \/ CountSource \/ CountDuplicates \/ CountNullKeys \/ Merge
         \/ CollectMetrics \/ CheckExpectations \/ NextLoad

Next == Query \/ \E s \in Slots, row \in Row \cup {NoRow} : Change(s, row)

Spec == Init /\ [][Next]_vars

----------------------------------------------------------------------------
(* Properties.                                                             *)

\* The newest row of every key in the window is in the target, and no row
\* of the window has a NULL key.
Mirrored == /\ NullKeyRows = 0
            /\ \A k \in Keys : Group(k) # {} =>
                 \E s \in Survivors(k) : target[k] = raw[s]

(***************************************************************************)
(* While the source keeps still, what reconcile_row_count and              *)
(* check_null_keys say of the load, whose duplicates, NULL keys and rows   *)
(* that the merge guard rejects all change a count:                        *)
(*   - when rows_written is the rows inserted and updated, they pass       *)
(*     exactly when the load has made the target a mirror of the window;   *)
(*   - when it is numOutputRows, copied rows may hide a rejected one or    *)
(*     fail a perfect load, but a shortfall is always a rejected row.      *)
(***************************************************************************)
ChecksAreExact ==
  pc = "checked" /\ quiet /\ written # Unknown /\ NullCheckKeys =>
    /\ written = lastWrite => (CountsOk <=> Mirrored)
    /\ written + duplicates < count => ~Mirrored

(***************************************************************************)
(* When the source keeps still and no two rows of a key tie, a load that   *)
(* passes has written no row that violates a failing expectation, although *)
(* the expectations read the batch again (Reconciler._evaluate).           *)
(***************************************************************************)
PassedRowsAreGood ==
  pc = "checked" /\ quiet /\ ~Ties /\ ExpectationAction = "fail" /\ ReportOk
    => \A r \in batch : ~r.bad

(***************************************************************************)
(* reconciler.py: expectations run before the load, on the data that is    *)
(* about to become the table; a row that violates a failing one does not   *)
(* become part of it.                                                      *)
(***************************************************************************)
BadRowsStayOut ==
  ExpectationAction = "fail" => \A k \in Keys : ~target[k].bad
=============================================================================
