----------------------------- MODULE RunOptions -----------------------------
(***************************************************************************)
(* What becomes of a table's options: the validator (config/validator.py)  *)
(* accepts an effective configuration or not, RunSpec (engine/run_spec.py) *)
(* gives it types, and the runs of the table act on it: the window, the    *)
(* cut-off, the source query, the staged columns, the write.  The options  *)
(* are read in each of these places, with conditions of its own; whether   *)
(* the places agree shows only when all of them see the same record.       *)
(*                                                                         *)
(* One driver, no failures other than those the configuration causes, and  *)
(* runs one after the other: modules TableRunner and AppendRunner have the *)
(* rest.  Columns are K (the merge key), WM (the watermark), P (to split   *)
(* the read on) and X.  Rows arrive at any moment, in the middle of a run  *)
(* too, stamped with the instant they arrive in; several share a stamp.    *)
(***************************************************************************)
EXTENDS Integers, FiniteSets, FiniteSetsExt

CONSTANTS Configs,   \* the effective configurations to look at
          MaxClock,  \* bound: the last instant
          MaxTies,   \* bound: rows that share a stamp
          MaxRuns    \* bound: runs of the table

Columns == {"K", "WM", "P", "X"}

Scn == "ORA_ROWSCN"

\* columns: "*".
Star == {"*"}

\* watermark_type date behaves as timestamp does.  lower_bound_default is
\* absent, the text of an instant, or a number; overlap is PT0S or not;
\* binds are the placeholders that occur in the query file.
Config == [mode : {"full", "incremental", "query"},
           strategy : {"watermark", "scn"},
           watermark_column : BOOLEAN,
           watermark_type : {"timestamp", "number"},
           overlap : 0..1,
           lower_bound_default : {"none", "time", "number"},
           bound_inclusive : {"auto", "true", "false"},
           use_upper_bound : BOOLEAN,
           columns : (SUBSET Columns) \cup {Star},
           exclude_columns : SUBSET Columns,
           filter : BOOLEAN,
           query_file : BOOLEAN,
           binds : SUBSET {"lower", "upper"},
           row_limit : BOOLEAN,
           write_mode : {"merge", "append", "overwrite"},
           merge_keys : BOOLEAN,
           merge_guard : {"watermark", "none"},
           null_check_keys : BOOLEAN,
           partition_column : BOOLEAN,
           num_partitions : 1..2,
           bounds : {"auto", "explicit", "unset"}]   \* unset: explicit, no values

ASSUME OptionsAssumption == /\ Configs \subseteq Config
                            /\ MaxClock \in Nat \ {0}
                            /\ MaxTies \in Nat \ {0}
                            /\ MaxRuns \in Nat

VARIABLES
  cfg,      \* the effective configuration
  pc,       \* where the table's run is
  clock,    \* the source's clock
  source,   \* its rows
  stored,   \* the watermark row: kind and value, or NoValue
  lower,    \* window.lower_bound
  upper,    \* the pinned cut-off
  query,    \* the source query
  newMark,  \* extract.new_watermark
  target,   \* how many copies of each row the target holds
  error,    \* why the run failed
  done      \* runs that have succeeded

vars == <<cfg, pc, clock, source, stored, lower, upper, query, newMark,
          target, error, done>>

Row == [at : 1..MaxClock, id : 1..MaxTies]

NoValue == [kind |-> "none", at |-> -1]

Value == [kind : {"time", "number"}, at : Int] \cup {NoValue}

\* A source query: what it selects from, the columns, the bounds (NoValue
\* where it has none), whether the lower one is inclusive, and the limit.
NoQuery == [from |-> "nothing"]

----------------------------------------------------------------------------
(* RunSpec: the properties of the typed configuration.                     *)

UsesScn(o) == o.strategy = "scn"

IsIncremental(o) == o.mode = "incremental"

\* effective_watermark_column.
WatermarkColumns(o) == IF UsesScn(o) THEN {Scn}
                       ELSE IF o.watermark_column THEN {"WM"} ELSE {}

TracksWatermark(o) == \/ IsIncremental(o)
                      \/ o.mode = "query" /\ WatermarkColumns(o) # {}

IsParallel(o) == o.num_partitions > 1 /\ o.partition_column

\* wtype, as the query builder, the probes and the advance see it.
BoundType(o) == IF UsesScn(o) THEN "number" ELSE o.watermark_type

\* lower_bound_is_inclusive.
LowerInclusive(o) == IF o.bound_inclusive = "auto" THEN o.write_mode # "append"
                                                  ELSE o.bound_inclusive = "true"

Pinned(o) == TracksWatermark(o) /\ o.use_upper_bound

----------------------------------------------------------------------------
(* Watermark values.                                                       *)

\* canonicalize, parse and literal: does this kind of value have the type?
Fits(kind, type) == kind = (IF type = "number" THEN "number" ELSE "time")

\* The kind of the cut-off that build_upper_bound_query asks for.
CutKind(o) == IF UsesScn(o) THEN "number" ELSE "time"

\* MUTANT: the newest stamp is rendered with watermark_type, SCN or not.
ColumnKindByType(o) == IF o.watermark_type = "number" THEN "number" ELSE "time"

\* The kind in which probe_max_watermark renders the effective column.
ColumnKind(o) == IF BoundType(o) = "number" THEN "number" ELSE "time"

----------------------------------------------------------------------------
(* The validator.                                                          *)

Explicit(o) == o.columns # Star

\* Extraction mode coherence.
ModeErrors(o) ==
  {e \in {"no watermark", "scn and column", "overlap"} :
     \/ /\ e = "no watermark"
        /\ IsIncremental(o) /\ ~UsesScn(o) /\ ~o.watermark_column
     \/ /\ e = "scn and column"
        /\ IsIncremental(o) /\ UsesScn(o) /\ o.watermark_column
     \/ /\ e = "overlap"
        /\ ~IsIncremental(o) /\ o.overlap # 0}

\* lower_bound_default must canonicalize, if the mode is incremental.
DefaultErrors(o) ==
  IF /\ IsIncremental(o)
     /\ o.lower_bound_default # "none"
     /\ ~Fits(o.lower_bound_default, BoundType(o))
  THEN {"default"} ELSE {}

\* mode: query needs its file, and nothing that it would not use.
QueryErrors(o) ==
  {e \in {"no file", "columns", "filter", "file"} :
     \/ e = "no file" /\ o.mode = "query" /\ ~o.query_file
     \/ e = "columns" /\ o.mode = "query" /\ Explicit(o)
     \/ e = "filter" /\ o.mode = "query" /\ o.filter
     \/ e = "file" /\ o.mode # "query" /\ o.query_file}

\* MUTANT: the watermark column need not be selected.
ColumnErrorsNoWatermark(o) ==
  IF ~Explicit(o) THEN {}
  ELSE {c \in Columns \ o.columns : \/ c = "K" /\ o.merge_keys
                                    \/ c = "P" /\ o.partition_column}

\* Column-set consistency: the columns that are used and not selected.
\* exclude_columns is not looked at.
ColumnErrors(o) ==
  IF ~Explicit(o) THEN {}
  ELSE {c \in Columns \ o.columns : \/ c = "K" /\ o.merge_keys
                                    \/ c = "WM" /\ o.watermark_column
                                    \/ c = "P" /\ o.partition_column}

\* A merge needs keys; explicit bounds need their values.
OtherErrors(o) ==
  {e \in {"no keys", "no bounds"} :
     \/ e = "no keys" /\ o.write_mode = "merge" /\ ~o.merge_keys
     \/ e = "no bounds" /\ o.bounds = "unset" /\ o.partition_column}

Errors(o) == ModeErrors(o) \cup DefaultErrors(o) \cup QueryErrors(o)
               \cup ColumnErrors(o) \cup OtherErrors(o)

\* MUTANT: the warning looks at the guard alone.
WarnsOfNoGuardAlways(o) == o.write_mode = "merge" /\ o.merge_guard = "watermark"

\* "the guard will be omitted and the merge becomes last-write-wins".
WarnsOfNoGuard(o) == /\ o.write_mode = "merge"
                     /\ o.merge_guard = "watermark"
                     /\ ~o.watermark_column

----------------------------------------------------------------------------
(* The source query.                                                       *)

\* build_projection.
Projection(o) ==
  (IF o.columns = Star THEN Columns ELSE o.columns \ o.exclude_columns)
    \cup (IF IsIncremental(o) /\ UsesScn(o) THEN {Scn} ELSE {})

\* render_query_template: the placeholders without a value.
Unresolved(o, lo, up) == {b \in o.binds : \/ b = "lower" /\ lo = NoValue
                                          \/ b = "upper" /\ up = NoValue}

\* What build_query makes of the options, given its two bounds.
SourceQuery(o, lo, up) ==
  IF o.mode = "query"
  THEN [from |-> "file", columns |-> Columns \cup WatermarkColumns(o),
        lower |-> IF "lower" \in o.binds THEN lo ELSE NoValue,
        inclusive |-> TRUE,
        upper |-> IF "upper" \in o.binds THEN up ELSE NoValue,
        limit |-> FALSE]
  ELSE [from |-> "table", columns |-> Projection(o),
        lower |-> IF IsIncremental(o) THEN lo ELSE NoValue,
        inclusive |-> LowerInclusive(o),
        upper |-> IF IsIncremental(o) THEN up ELSE NoValue,
        limit |-> o.row_limit]

\* MUTANT: the cut-off is inclusive.
InBoundsToCut(q, at) ==
  /\ \/ q.lower = NoValue
     \/ at > q.lower.at
     \/ q.inclusive /\ at = q.lower.at
  /\ q.upper = NoValue \/ at <= q.upper.at

\* Is the row stamped `at' within the bounds of query q?
InBounds(q, at) ==
  /\ \/ q.lower = NoValue
     \/ at > q.lower.at
     \/ q.inclusive /\ at = q.lower.at
  /\ q.upper = NoValue \/ at < q.upper.at

\* The errors of the builder; render_query_template makes literals of both
\* bounds, whether the file has a place for them or not.
QueryError(o, lo, up) ==
  CASE o.mode = "query" /\ ~o.query_file -> "no query file"
    [] /\ TracksWatermark(o) /\ lo # NoValue
       /\ ~Fits(lo.kind, BoundType(o)) -> "bad literal"
    [] o.mode = "query" /\ Unresolved(o, lo, up) # {} -> "unresolved placeholder"
    [] o.mode # "query" /\ Projection(o) \subseteq {Scn} -> "nothing to select"
    [] IsIncremental(o) /\ WatermarkColumns(o) = {} -> "no watermark column"
    [] OTHER -> "none"

\* Oracle takes `*' in a list of columns only where it stands alone: with
\* the pseudo-column appended, SELECT *, ORA_ROWSCN is ORA-00923.
StarAndScn(o) == ~Explicit(o) /\ IsIncremental(o) /\ UsesScn(o)

\* The read and the probes: the statement itself, the bounds and the column
\* to split on, the newest stamp.
ReadError(o, q) ==
  CASE StarAndScn(o) -> "not a statement"
    [] IsParallel(o) /\ o.bounds = "unset" -> "no bounds"
    [] IsParallel(o) /\ "P" \notin q.columns -> "no split column"
    [] /\ TracksWatermark(o) /\ ~Pinned(o)
       /\ ~(WatermarkColumns(o) \subseteq q.columns) -> "no column to probe"
    [] OTHER -> "none"

----------------------------------------------------------------------------
(* The target.                                                             *)

\* merge_guard_column.
GuardColumns(o) == IF o.merge_guard = "watermark" THEN WatermarkColumns(o) ELSE {}

\* build_stage_query removes duplicates for a merge; the count of NULL keys.
UsesKeys(o) == o.merge_keys /\ (o.write_mode = "merge" \/ o.null_check_keys)

\* build_stage_query, the NULL key count, build_merge_sql.
LoadError(o, q) ==
  CASE UsesKeys(o) /\ "K" \notin q.columns -> "no key column"
    [] o.write_mode = "merge" /\ ~o.merge_keys -> "no merge keys"
    [] /\ o.write_mode = "merge"
       /\ ~(GuardColumns(o) \subseteq q.columns) -> "no guard column"
    [] OTHER -> "none"

\* FETCH FIRST n ROWS ONLY: some of the rows, here one of them.
Limited(q, rows) == IF q.limit /\ rows # {} THEN {{r} : r \in rows} ELSE {rows}

\* What the source answers to query q now.
Answers(q) == Limited(q, {r \in source : InBounds(q, r.at)})

\* loader.write.  Rows are never changed: a merge leaves one copy of each.
Written(o, rows) ==
  [r \in Row |->
     CASE o.write_mode = "merge" -> IF r \in rows THEN 1 ELSE target[r]
       [] o.write_mode = "append" -> target[r] + (IF r \in rows THEN 1 ELSE 0)
       [] OTHER -> IF r \in rows THEN 1 ELSE 0]

----------------------------------------------------------------------------
(* The life of the table.                                                  *)

TypeOK == /\ cfg \in Config
          /\ pc \in {"validate", "rejected", "idle", "extract", "probe", "load",
                    "advance", "failed"}
          /\ clock \in 1..MaxClock
          /\ source \subseteq Row
          /\ {stored, lower, upper, newMark} \subseteq Value
          /\ target \in [Row -> 0..MaxRuns]
          /\ stored # NoValue => Fits(stored.kind, BoundType(cfg))

Init == /\ cfg \in Configs
        /\ pc = "validate"
        /\ clock = 1
        /\ source = {[at |-> 1, id |-> 1]}
        /\ stored = NoValue
        /\ lower = NoValue
        /\ upper = NoValue
        /\ query = NoQuery
        /\ newMark = NoValue
        /\ target = [r \in Row |-> 0]
        /\ error = "none"
        /\ done = 0

\* load_run_spec: validate, raise_if_failed, from_config.
Validate == /\ pc = "validate"
            /\ pc' = IF Errors(cfg) = {} THEN "idle" ELSE "rejected"
            /\ UNCHANGED <<cfg, clock, source, stored, lower, upper, query,
                           newMark, target, error, done>>

\* The run fails: the task is FAILED, and so is every retry.
Fail(reason) == /\ error' = reason
                /\ pc' = "failed"

\* MUTANT: the overlap has the wrong sign.
OverlapOfNegative(o) == IF o.watermark_type = "number" THEN 0 ELSE -o.overlap

\* compute_window rewinds time-typed marks only.
OverlapOf(o) == IF o.watermark_type = "number" THEN 0 ELSE o.overlap

\* The lower bound of compute_window: the default, until there is a mark.
WindowStart ==
  IF stored # NoValue THEN [stored EXCEPT !.at = @ - OverlapOf(cfg)]
  ELSE IF cfg.lower_bound_default = "none" THEN NoValue
  ELSE [kind |-> cfg.lower_bound_default, at |-> 0]

\* What _execute does first: window, with watermark_type for its type, SCN
\* or not, and in every mode.
Window ==
  /\ pc = "idle"
  /\ done < MaxRuns
  /\ LET first == stored = NoValue
         kind == IF first THEN cfg.lower_bound_default ELSE stored.kind
         parsed == IF first THEN kind # "none" ELSE OverlapOf(cfg) # 0
     IN IF parsed /\ ~Fits(kind, cfg.watermark_type)
          THEN /\ Fail("bad window")
               /\ UNCHANGED lower
          ELSE /\ pc' = "extract"
               /\ lower' = WindowStart
               /\ UNCHANGED error
  /\ UNCHANGED <<cfg, clock, source, stored, upper, query, newMark, target,
                 done>>

\* The answer to build_upper_bound_query.
CutOf(o, at) == IF Pinned(o) THEN [kind |-> CutKind(o), at |-> at] ELSE NoValue

\* probe_upper_bound and build_query.
BuildQuery ==
  /\ pc = "extract"
  /\ LET cut == CutOf(cfg, clock)
         lo == IF TracksWatermark(cfg) THEN lower ELSE NoValue
         why == QueryError(cfg, lo, cut)
     IN IF cut # NoValue /\ ~Fits(cut.kind, BoundType(cfg))
          THEN /\ Fail("bad cut-off")
               /\ UNCHANGED <<upper, query>>
          ELSE IF why # "none"
          THEN /\ Fail(why)
               /\ UNCHANGED <<upper, query>>
          ELSE /\ upper' = cut
               /\ query' = SourceQuery(cfg, lo, cut)
               /\ pc' = "probe"
               /\ UNCHANGED error
  /\ UNCHANGED <<cfg, clock, source, stored, lower, newMark, target, done>>

\* extract.new_watermark, when the source answers with these rows: the
\* cut-off, or else the newest stamp among them.
NewWatermark(rows) ==
  IF upper # NoValue THEN upper
  ELSE IF TracksWatermark(cfg) /\ rows # {}
  THEN [kind |-> ColumnKind(cfg), at |-> Max({r.at : r \in rows})]
  ELSE NoValue

\* The JDBC read is set up, and the newest stamp probed; no row is read yet.
Probe == /\ pc = "probe"
         /\ LET why == ReadError(cfg, query)
            IN IF why # "none"
                 THEN /\ Fail(why)
                      /\ UNCHANGED newMark
                 ELSE /\ \E rows \in Answers(query) : newMark' = NewWatermark(rows)
                      /\ pc' = "load"
                      /\ UNCHANGED error
         /\ UNCHANGED <<cfg, clock, source, stored, lower, upper, query, target,
                        done>>

\* stage, then loader.write, which is when the rows are read; the checks
\* pass.
Load == /\ pc = "load"
        /\ LET why == LoadError(cfg, query)
           IN IF why # "none"
                THEN /\ Fail(why)
                     /\ UNCHANGED target
                ELSE /\ \E rows \in Answers(query) : target' = Written(cfg, rows)
                     /\ pc' = "advance"
                     /\ UNCHANGED error
        /\ UNCHANGED <<cfg, clock, source, stored, lower, upper, query, newMark,
                       done>>

\* _advance_watermark, finish_task.
Advance == /\ pc = "advance"
           /\ stored' = IF TracksWatermark(cfg) /\ newMark.at > stored.at
                          THEN newMark ELSE stored
           /\ pc' = "idle"
           /\ done' = done + 1
           /\ lower' = NoValue
           /\ upper' = NoValue
           /\ query' = NoQuery
           /\ newMark' = NoValue
           /\ UNCHANGED <<cfg, clock, source, target, error>>

\* What the source's users do, while the table is idle or running.
Running == pc \in {"idle", "extract", "probe", "load", "advance"}

\* A row is committed; it bears the stamp of this instant.
Arrive(id) == /\ Running
              /\ [at |-> clock, id |-> id] \notin source
              /\ source' = source \cup {[at |-> clock, id |-> id]}
              /\ UNCHANGED <<cfg, pc, clock, stored, lower, upper, query,
                             newMark, target, error, done>>

Tick == /\ Running
        /\ clock < MaxClock
        /\ clock' = clock + 1
        /\ UNCHANGED <<cfg, pc, source, stored, lower, upper, query, newMark,
                       target, error, done>>

Next == \/ Validate \/ Window \/ BuildQuery \/ Probe \/ Load \/ Advance
        \/ \E id \in 1..MaxTies : Arrive(id)
        \/ Tick

Spec == Init /\ [][Next]_vars

----------------------------------------------------------------------------
(* Accepted configurations that cannot run, and what they have in common.  *)

\* The window is typed by watermark_type: a default that is not of this
\* type is canonicalized in every mode, though validated in one; the mark
\* of an SCN table is a number, and an overlap makes the window parse it.
WrongWindowType(o) ==
  \/ /\ o.lower_bound_default # "none"
     /\ \/ ~Fits(o.lower_bound_default, o.watermark_type)
        \/ TracksWatermark(o) /\ ~Fits(o.lower_bound_default, BoundType(o))
  \/ UsesScn(o) /\ OverlapOf(o) # 0

\* The cut-off of a numeric watermark column is asked of SYSTIMESTAMP.
WrongCutType(o) == Pinned(o) /\ ~UsesScn(o) /\ o.watermark_type = "number"

\* A query file has a place for a bound that a run, or the first, lacks.
NoValueToBind(o) ==
  /\ o.mode = "query"
  /\ \/ /\ "lower" \in o.binds
        /\ ~TracksWatermark(o) \/ o.lower_bound_default = "none"
     \/ "upper" \in o.binds /\ ~Pinned(o)

\* The columns that the read, the stage or the MERGE refer to.
Needed(o) == (IF UsesKeys(o) THEN {"K"} ELSE {})
               \cup (IF IsParallel(o) THEN {"P"} ELSE {})
               \cup (IF o.write_mode = "merge" THEN GuardColumns(o) ELSE {})
               \cup (IF TracksWatermark(o) /\ ~Pinned(o) THEN WatermarkColumns(o)
                                                        ELSE {})

\* exclude_columns takes away a column that is needed, or all of them.
ExcludesNeeded(o) == /\ o.mode # "query" /\ Explicit(o)
                     /\ \/ o.exclude_columns \cap Needed(o) # {}
                        \/ o.columns \subseteq o.exclude_columns

\* The SCN is selected for incremental tables only, and guards every merge.
UnselectedGuard(o) == /\ o.mode = "full" /\ UsesScn(o)
                      /\ o.write_mode = "merge" /\ o.merge_guard = "watermark"

CannotRun(o) == \/ WrongWindowType(o) \/ WrongCutType(o) \/ NoValueToBind(o)
                \/ ExcludesNeeded(o) \/ UnselectedGuard(o) \/ StarAndScn(o)

----------------------------------------------------------------------------
(* Properties.                                                             *)

\* The errors that the builder and the loader keep for configurations which
\* "config validation should have caught" (build_predicates).
ValidatorCatches == error \notin {"no query file", "no watermark column",
                                  "no merge keys", "no bounds"}

(***************************************************************************)
(* An accepted configuration runs, and runs again, unless it is one of     *)
(* CannotRun; and those never get through two runs.  validator.py says it  *)
(* catches what "the framework cannot do"; this is the list of what it     *)
(* leaves, complete and without an entry too many.  What the builder and   *)
(* the loader expect it to catch, it does catch.                           *)
(***************************************************************************)
FailuresAreKnown == /\ ValidatorCatches
                    /\ error # "none" => CannotRun(cfg)
                    /\ done >= 2 => ~CannotRun(cfg)

\* The query of the next run, before its cut-off is known.
NextQuery == SourceQuery(cfg, [stored EXCEPT !.at = @ - OverlapOf(cfg)], NoValue)

\* Accepted configurations that skip rows: a window that replaces the whole
\* target, a limited read under a mark that moves, and an exclusive lower
\* bound with nothing to rewind it: a row may bear the stamp of the mark and
\* not have been read, because it is newer than the read or because it is
\* not before the cut-off.
SkipsRows(o) ==
  \/ o.write_mode = "overwrite" /\ (o.mode = "query" => "lower" \in o.binds)
  \/ o.mode # "query" /\ (o.row_limit \/ (~LowerInclusive(o) /\ OverlapOf(o) = 0))

(***************************************************************************)
(* Every row that the next window will not return is in the target, for    *)
(* all accepted configurations but those of SkipsRows: whatever the mode,  *)
(* the kind of mark, the bounds and the overlap, and whenever rows with    *)
(* the stamp of the boundary arrive (lower_bound_is_inclusive).            *)
(***************************************************************************)
NothingIsPassedOver ==
  pc = "idle" /\ stored # NoValue /\ ~SkipsRows(cfg) =>
    \A r \in source : InBounds(NextQuery, r.at) \/ target[r] > 0

\* Accepted append configurations that read a row more than once.  Without a
\* cut-off the mark is probed before the rows are read: what arrives between
\* the two is loaded, and is newer than the mark.
ReadsAgain(o) ==
  \/ o.mode = "full"
  \/ o.mode = "query" /\ o.binds # {"lower", "upper"}
  \/ /\ o.mode = "incremental"
     /\ OverlapOf(o) # 0 \/ ~Pinned(o)

(***************************************************************************)
(* No run inserts a row that an earlier one has inserted, except into an   *)
(* append target whose configuration is in ReadsAgain                      *)
(* (lower_bound_is_inclusive: "duplicates for an append target").          *)
(***************************************************************************)
NoCopies == ~(cfg.write_mode = "append" /\ ReadsAgain(cfg))
              => \A r \in Row : target[r] <= 1

(***************************************************************************)
(* The validator warns that a merge is last-write-wins whenever its MERGE  *)
(* has no guard although one is configured (merge_guard_column), and       *)
(* otherwise only for SCN tables, which have one.                          *)
(***************************************************************************)
WarningIsTrue ==
  pc = "advance" /\ cfg.write_mode = "merge" /\ cfg.merge_guard = "watermark"
    => /\ GuardColumns(cfg) = {} => WarnsOfNoGuard(cfg)
       /\ WarnsOfNoGuard(cfg) => GuardColumns(cfg) = {} \/ UsesScn(cfg)
=============================================================================
