-------------------------- MODULE RunOptions_proof --------------------------
(***************************************************************************)
(* Proofs about module RunOptions, for every combination of the options:   *)
(* TLC looks at slices of Config, the theorems hold for all of it, for     *)
(* every number of runs and of rows.                                       *)
(***************************************************************************)
EXTENDS RunOptions, WellFoundedInduction, TLAPS

----------------------------------------------------------------------------
(* What the validator lets through.                                        *)

Valid(o) == o \in Config /\ Errors(o) = {}

\* The errors that a valid configuration does not have.
LEMMA ValidFacts ==
  ASSUME NEW o, Valid(o)
  PROVE  /\ IsIncremental(o) => /\ UsesScn(o) \/ o.watermark_column
                                /\ ~(UsesScn(o) /\ o.watermark_column)
         /\ ~IsIncremental(o) => o.overlap = 0
         /\ IsIncremental(o) /\ o.lower_bound_default # "none"
              => Fits(o.lower_bound_default, BoundType(o))
         /\ o.mode = "query" => o.query_file /\ o.columns = Star /\ ~o.filter
         /\ Explicit(o) => /\ o.merge_keys => "K" \in o.columns
                           /\ o.watermark_column => "WM" \in o.columns
                           /\ o.partition_column => "P" \in o.columns
         /\ o.write_mode = "merge" => o.merge_keys
         /\ o.partition_column => o.bounds # "unset"
<1>1. /\ ModeErrors(o) = {} /\ DefaultErrors(o) = {} /\ QueryErrors(o) = {}
      /\ ColumnErrors(o) = {} /\ OtherErrors(o) = {}
  BY DEF Valid, Errors
<1>3. IsIncremental(o) => /\ UsesScn(o) \/ o.watermark_column
                          /\ ~(UsesScn(o) /\ o.watermark_column)
  BY <1>1 DEF ModeErrors
<1>4. ~IsIncremental(o) => o.overlap = 0
  BY <1>1 DEF ModeErrors
<1>5. IsIncremental(o) /\ o.lower_bound_default # "none"
        => Fits(o.lower_bound_default, BoundType(o))
  BY <1>1 DEF DefaultErrors
<1>6. o.mode = "query" => o.query_file /\ o.columns = Star /\ ~o.filter
  BY <1>1 DEF QueryErrors, Explicit
<1>7. Explicit(o) => /\ o.merge_keys => "K" \in o.columns
                     /\ o.watermark_column => "WM" \in o.columns
                     /\ o.partition_column => "P" \in o.columns
  BY <1>1 DEF ColumnErrors, Columns
<1>8. /\ o.write_mode = "merge" => o.merge_keys
      /\ o.partition_column => o.bounds # "unset"
  BY <1>1 DEF OtherErrors
<1> QED BY <1>3, <1>4, <1>5, <1>6, <1>7, <1>8

\* The columns of a source query.
LEMMA QueryColumns ==
  ASSUME NEW o, Valid(o), NEW lo, NEW up
  PROVE  LET q == SourceQuery(o, lo, up)
         IN  /\ o.mode = "query" => Columns \cup WatermarkColumns(o) \subseteq q.columns
             /\ o.mode # "query" => q.columns = Projection(o)
BY DEF SourceQuery

LEMMA ProjectionFacts ==
  ASSUME NEW o, Valid(o)
  PROVE  /\ ~Explicit(o) => Columns \subseteq Projection(o)
         /\ Explicit(o) => \A c \in Columns :
              c \in Projection(o) <=> c \in o.columns /\ c \notin o.exclude_columns
         /\ Scn \in Projection(o) <=> IsIncremental(o) /\ UsesScn(o)
<1>1. o.columns \subseteq Columns \/ o.columns = Star
  BY DEF Valid, Config
<1>2. Scn \notin Columns /\ Scn \notin Star
  BY DEF Scn, Columns, Star
<1> QED BY <1>1, <1>2 DEF Projection, Explicit

----------------------------------------------------------------------------
(* The inductive invariant: what each step of a run has established.       *)

InRun == pc \in {"extract", "probe", "load", "advance"}

\* What a run is given, and what it counts.
StateInv == /\ cfg \in Config
            /\ pc \in {"validate", "rejected", "idle", "extract", "probe", "load",
                       "advance", "failed"}
            /\ clock \in 1..MaxClock
            /\ source \subseteq Row /\ source # {}
            /\ \A r \in source : r.at <= clock
            /\ pc \notin {"validate", "rejected"} => Errors(cfg) = {}
            /\ pc \in {"validate", "rejected"} => done = 0
            /\ error # "none" => pc = "failed"
            /\ done \in 0..MaxRuns
            /\ InRun => done < MaxRuns
            /\ target \in [Row -> Nat]
            /\ \A r \in Row : target[r] <= done + (IF pc = "advance" THEN 1 ELSE 0)

\* A mark is of the type of the bounds, and not in the future.
IsMark(m) == m # NoValue => /\ m \in Value
                            /\ TracksWatermark(cfg)
                            /\ Fits(m.kind, BoundType(cfg))
                            /\ m.at \in 1..clock

MarkInv == /\ done = 0 => stored = NoValue
           /\ IsMark(stored)

\* What Window parses has the type that it expects.
WindowParses ==
  IF stored = NoValue
  THEN cfg.lower_bound_default = "none"
       \/ Fits(cfg.lower_bound_default, cfg.watermark_type)
  ELSE OverlapOf(cfg) = 0 \/ Fits(stored.kind, cfg.watermark_type)

WindowInv == /\ lower \in Value
             /\ InRun => WindowParses /\ lower = WindowStart

\* The lower bound, for the tables that have one.
BoundUsed == IF TracksWatermark(cfg) THEN lower ELSE NoValue

QueryInv == /\ upper \in Value
            /\ pc \in {"probe", "load", "advance"} =>
                 /\ IsMark(upper)
                 /\ upper # NoValue <=> Pinned(cfg)
                 /\ Pinned(cfg) => upper.kind = CutKind(cfg)
                 /\ QueryError(cfg, BoundUsed, upper) = "none"
                 /\ query = SourceQuery(cfg, BoundUsed, upper)

\* A query without bounds has found a row: there is one from the start.
ProbeInv == /\ IsMark(newMark)
            /\ pc \in {"load", "advance"} =>
                 /\ ReadError(cfg, query) = "none"
                 /\ Pinned(cfg) => newMark = upper
                 /\ /\ TracksWatermark(cfg)
                    /\ query.lower = NoValue /\ query.upper = NoValue
                    => newMark # NoValue

LoadedInv == pc = "advance" => LoadError(cfg, query) = "none"

\* What holds of every run; the properties below rest on it.
RunInv == StateInv /\ MarkInv /\ WindowInv /\ QueryInv /\ ProbeInv /\ LoadedInv

\* The part of CannotRun that shows in the first run; the rest, the overlap
\* of an SCN table, shows once there is a mark.
FailsAtOnce(o) ==
  \/ /\ o.lower_bound_default # "none"
     /\ \/ ~Fits(o.lower_bound_default, o.watermark_type)
        \/ TracksWatermark(o) /\ ~Fits(o.lower_bound_default, BoundType(o))
  \/ WrongCutType(o) \/ NoValueToBind(o) \/ ExcludesNeeded(o) \/ UnselectedGuard(o)
  \/ StarAndScn(o)

FailsOnMark(o) == UsesScn(o) /\ OverlapOf(o) # 0

FailureInv == /\ ValidatorCatches
              /\ error # "none" => CannotRun(cfg)
              /\ done >= 1 => ~FailsAtOnce(cfg)
              /\ done >= 1 /\ FailsOnMark(cfg) => stored # NoValue
              /\ done >= 2 => ~FailsOnMark(cfg)

\* Which bounds a query has a place for, and whether the lower one is in it.
UsesLower(o) == IF o.mode = "query" THEN "lower" \in o.binds ELSE IsIncremental(o)

UsesUpper(o) == IF o.mode = "query" THEN "upper" \in o.binds ELSE IsIncremental(o)

FromLower(o) == o.mode = "query" \/ LowerInclusive(o)

\* Is a row stamped `t' before the lower bound `at'?
Before(o, at, t) == UsesLower(o) /\ (t < at \/ (t = at /\ ~FromLower(o)))

\* Rows that a window which starts at mark m will not return.
Behind(m, r) == m # NoValue /\ Before(cfg, m.at - OverlapOf(cfg), r.at)

\* A row behind the mark is in the target, and a row behind the next mark
\* is as soon as the run has written.
PassedInv == ~SkipsRows(cfg) =>
  \A r \in source : Behind(stored, r) \/ (pc = "advance" /\ Behind(newMark, r))
                      => target[r] > 0

\* A row in an append target is behind the mark, or the next one.
CopiesInv ==
  /\ cfg.write_mode # "append" => \A r \in Row : target[r] <= 1
  /\ cfg.write_mode = "append" /\ ~ReadsAgain(cfg) =>
       \A r \in Row :
         /\ target[r] <= 1
         /\ target[r] > 0 => \/ Behind(stored, r)
                             \/ pc = "advance" /\ Behind(newMark, r)

----------------------------------------------------------------------------
(* Watermark values and rows.                                              *)

\* The newest stamp of a batch is one of its stamps, and no other is newer.
LEMMA NewestStamp ==
  ASSUME NEW n \in Nat, NEW S, S \subseteq 1..n, S # {}
  PROVE  Max(S) \in S /\ \A r \in S : r <= Max(S)
<1> DEFINE R == OpToRel(<, Nat)
           B == {b \in Nat : \A r \in S : r <= b}
<1>1. IsWellFoundedOn(R, Nat)
  BY NatLessThanWellFounded
<1>2. \A x, y \in Nat : <<x, y>> \in R <=> x < y
  BY DEF OpToRel
<1>3. n \in B
  OBVIOUS
<1> HIDE DEF R
<1>4. PICK m \in B : \A b \in B : ~(<<b, m>> \in R)
  <2>1. B \subseteq Nat /\ B # {}
    BY <1>3
  <2> QED BY <1>1, <2>1, WFMin
<1>5. m \in S
  <2>1. m > 0
    <3>1. PICK r \in S : TRUE
      OBVIOUS
    <3>2. r \in 1..n /\ r <= m
      OBVIOUS
    <3> QED BY <3>2
  <2>2. m - 1 \notin B
    <3>1. m - 1 \in Nat /\ m \in Nat /\ m - 1 < m
      BY <2>1
    <3>2. <<m - 1, m>> \in R
      BY <1>2, <3>1
    <3> QED BY <1>4, <3>2
  <2>3. PICK r \in S : r > m - 1
    BY <2>1, <2>2
  <2>4. r = m
    BY <2>3
  <2> QED BY <2>3, <2>4
<1>6. \E x \in S : \A y \in S : x >= y
  BY <1>5
<1>7. /\ Max(S) \in S
      /\ \A y \in S : Max(S) >= y
  BY <1>6 DEF Max
<1> QED BY <1>7

LEMMA CutFacts ==
  ASSUME NEW o \in Config, NEW at \in Int
  PROVE  /\ CutOf(o, at) \in Value
         /\ CutOf(o, at) # NoValue <=> Pinned(o)
         /\ Pinned(o) => CutOf(o, at).at = at /\ CutOf(o, at).kind = CutKind(o)
BY DEF CutOf, CutKind, Value, NoValue

LEMMA OverlapFacts ==
  ASSUME NEW o \in Config
  PROVE  OverlapOf(o) \in 0..1
BY DEF OverlapOf, Config

\* A read with a limit returns less, never something else.
LEMMA LimitedFacts ==
  ASSUME NEW q, NEW S, NEW b \in Limited(q, S)
  PROVE  /\ b \subseteq S
         /\ S # {} => b # {}
         /\ ~q.limit => b = S
BY DEF Limited

----------------------------------------------------------------------------
(* Every run: RunInv is inductive.                                         *)

LEMMA RunInit == Init => RunInv
<1> SUFFICES ASSUME Init PROVE RunInv
  OBVIOUS
<1>1. StateInv
  BY OptionsAssumption DEF Init, StateInv, InRun, Row
<1>2. MarkInv /\ WindowInv /\ QueryInv /\ ProbeInv /\ LoadedInv
  BY DEF Init, MarkInv, IsMark, WindowInv, InRun, QueryInv, ProbeInv, LoadedInv, Value
<1> QED BY <1>1, <1>2 DEF RunInv

LEMMA WindowStartType ==
  ASSUME StateInv, MarkInv
  PROVE  WindowStart \in Value
<1>1. OverlapOf(cfg) \in Int /\ cfg.lower_bound_default \in {"none", "time", "number"}
  BY OverlapFacts DEF StateInv, Config
<1>2. CASE stored # NoValue
  <2>1. stored \in [kind : {"time", "number"}, at : Int]
    BY <1>2 DEF MarkInv, IsMark, Value
  <2> QED BY <1>1, <1>2, <2>1 DEF WindowStart, Value
<1>3. CASE stored = NoValue
  BY <1>1, <1>3 DEF WindowStart, Value
<1> QED BY <1>2, <1>3

LEMMA WindowStep == ASSUME RunInv, Window PROVE RunInv'
<1> USE DEF RunInv
<1>1. pc = "idle" /\ done < MaxRuns /\ pc' \in {"failed", "extract"}
  BY DEF Window, Fail
<1>2. UNCHANGED <<cfg, clock, source, stored, upper, query, newMark, target, done>>
  BY DEF Window
<1>3. error' # "none" => pc' = "failed"
  BY <1>1 DEF Window, Fail, StateInv
<1>4. StateInv'
  BY <1>1, <1>2, <1>3 DEF StateInv, InRun
<1>5. MarkInv'
  BY <1>2 DEF MarkInv, IsMark
<1>6. pc' = "extract" => WindowParses' /\ lower' = WindowStart'
  <2> SUFFICES ASSUME pc' = "extract"
               PROVE  WindowParses' /\ lower' = WindowStart'
    OBVIOUS
  <2>1. CASE stored = NoValue
    BY <1>2, <2>1 DEF Window, Fail, WindowParses, WindowStart
  <2>2. CASE stored # NoValue
    <3>1. stored.kind # "none"
      BY <2>2 DEF MarkInv, IsMark, Fits
    <3> QED BY <1>2, <2>2, <3>1 DEF Window, Fail, WindowParses, WindowStart
  <2> QED BY <2>1, <2>2
<1>7. WindowInv'
  <2>1. CASE pc' = "extract"
    <3>1. WindowStart \in Value /\ WindowStart' = WindowStart
      BY <1>2, WindowStartType DEF WindowStart
    <3> QED BY <1>6, <2>1, <3>1 DEF WindowInv
  <2>2. CASE pc' = "failed"
    BY <1>1, <2>2 DEF Window, Fail, WindowInv, InRun
  <2> QED BY <1>1, <2>1, <2>2
<1>8. QueryInv' /\ ProbeInv' /\ LoadedInv'
  BY <1>1, <1>2 DEF QueryInv, ProbeInv, IsMark, LoadedInv
<1> QED BY <1>4, <1>5, <1>7, <1>8

LEMMA BuildQueryStep == ASSUME RunInv, BuildQuery PROVE RunInv'
<1> USE DEF RunInv
<1>1. pc = "extract" /\ pc' \in {"failed", "probe"}
  BY DEF BuildQuery, Fail
<1>2. UNCHANGED <<cfg, clock, source, stored, lower, newMark, target, done>>
  BY DEF BuildQuery
<1>3. error' # "none" => pc' = "failed"
  BY <1>1 DEF BuildQuery, Fail, StateInv
<1>4. StateInv'
  BY <1>1, <1>2, <1>3 DEF StateInv, InRun
<1>5. MarkInv'
  BY <1>2 DEF MarkInv, IsMark
<1>6. WindowInv'
  BY <1>1, <1>2 DEF WindowInv, InRun, WindowParses, WindowStart
<1>7. QueryInv'
  <2>1. CASE pc' = "probe"
    <3>1. cfg \in Config /\ clock \in Int /\ clock \in 1..clock
      BY DEF StateInv
    <3>2. /\ CutOf(cfg, clock) \in Value
          /\ CutOf(cfg, clock) # NoValue <=> Pinned(cfg)
          /\ Pinned(cfg) => /\ CutOf(cfg, clock).at = clock
                            /\ CutOf(cfg, clock).kind = CutKind(cfg)
      BY <3>1, CutFacts
    <3>3. /\ upper' = CutOf(cfg, clock)
          /\ upper' # NoValue => Fits(upper'.kind, BoundType(cfg))
          /\ QueryError(cfg, BoundUsed, upper') = "none"
          /\ query' = SourceQuery(cfg, BoundUsed, upper')
      BY <2>1 DEF BuildQuery, Fail, BoundUsed
    <3>4. BoundUsed' = BoundUsed
      BY <1>2 DEF BoundUsed
    <3>5. IsMark(upper)'
      BY <1>2, <3>1, <3>2, <3>3 DEF IsMark, Pinned
    <3> QED BY <1>2, <3>2, <3>3, <3>4, <3>5 DEF QueryInv
  <2>2. CASE pc' = "failed"
    BY <1>1, <2>2 DEF BuildQuery, Fail, QueryInv
  <2> QED BY <1>1, <2>1, <2>2
<1>8. ProbeInv' /\ LoadedInv'
  BY <1>1, <1>2 DEF ProbeInv, IsMark, LoadedInv
<1> QED BY <1>4, <1>5, <1>6, <1>7, <1>8

\* What Probe takes for the next mark.
LEMMA NewWatermarkFacts ==
  ASSUME RunInv, pc = "probe", NEW rows \in Answers(query)
  PROVE  /\ IsMark(NewWatermark(rows))
         /\ Pinned(cfg) => NewWatermark(rows) = upper
         /\ /\ TracksWatermark(cfg)
            /\ query.lower = NoValue /\ query.upper = NoValue
            => NewWatermark(rows) # NoValue
<1> USE DEF RunInv
<1> DEFINE found == {r \in source : InBounds(query, r.at)}
           stamps == {r.at : r \in rows}
<1>1. /\ cfg \in Config /\ clock \in Nat /\ MaxClock \in Nat
      /\ source \subseteq Row /\ source # {} /\ \A r \in source : r.at <= clock
  BY OptionsAssumption DEF StateInv
<1>2. /\ IsMark(upper)
      /\ upper # NoValue <=> Pinned(cfg)
  BY DEF QueryInv
<1>3. rows \subseteq found /\ (found # {} => rows # {})
  BY LimitedFacts DEF Answers
<1>4. stamps \subseteq 1..clock
  <2> SUFFICES ASSUME NEW r \in rows PROVE r.at \in 1..clock
    OBVIOUS
  <2>1. r \in source
    BY <1>3
  <2>2. r.at \in 1..MaxClock /\ r.at <= clock
    BY <1>1, <2>1 DEF Row
  <2> QED BY <1>1, <2>2
<1>5. CASE Pinned(cfg)
  BY <1>2, <1>5 DEF NewWatermark
<1>6. CASE ~Pinned(cfg) /\ TracksWatermark(cfg) /\ rows # {}
  <2>1. NewWatermark(rows) = [kind |-> ColumnKind(cfg), at |-> Max(stamps)]
    BY <1>2, <1>6 DEF NewWatermark
  <2>2. stamps # {}
    BY <1>6
  <2>3. Max(stamps) \in 1..clock
    <3> HIDE DEF stamps
    <3> QED BY <1>1, <1>4, <2>2, NewestStamp
  <2>4. ColumnKind(cfg) \in {"time", "number"} /\ Fits(ColumnKind(cfg), BoundType(cfg))
    BY DEF ColumnKind, Fits
  <2>5. /\ NewWatermark(rows) \in Value
        /\ NewWatermark(rows).kind = ColumnKind(cfg)
        /\ NewWatermark(rows).at \in 1..clock
        /\ NewWatermark(rows) # NoValue
    <3> HIDE DEF RunInv
    <3> DEFINE m == Max(stamps)
    <3>1. m \in Int /\ m \in 1..clock /\ m # -1
      BY <1>1, <2>3
    <3> HIDE DEF m
    <3> QED BY <2>1, <2>4, <3>1 DEF Value, NoValue, m
  <2> QED BY <1>6, <2>4, <2>5 DEF IsMark
<1>7. CASE ~Pinned(cfg) /\ ~(TracksWatermark(cfg) /\ rows # {})
  <2>1. NewWatermark(rows) = NoValue
    BY <1>2, <1>7 DEF NewWatermark
  <2>2. ~(TracksWatermark(cfg) /\ query.lower = NoValue /\ query.upper = NoValue)
    <3> SUFFICES ASSUME TracksWatermark(cfg), query.lower = NoValue,
                        query.upper = NoValue
                 PROVE  FALSE
      OBVIOUS
    <3>1. found = source
      BY DEF InBounds
    <3> QED BY <1>1, <1>3, <1>7, <3>1
  <2> QED BY <1>7, <2>1, <2>2 DEF IsMark
<1> QED BY <1>5, <1>6, <1>7

LEMMA ProbeStep == ASSUME RunInv, Probe PROVE RunInv'
<1> USE DEF RunInv
<1>1. pc = "probe" /\ pc' \in {"failed", "load"}
  BY DEF Probe, Fail
<1>2. UNCHANGED <<cfg, clock, source, stored, lower, upper, query, target, done>>
  BY DEF Probe
<1>3. error' # "none" => pc' = "failed"
  BY <1>1 DEF Probe, Fail, StateInv
<1>4. StateInv'
  BY <1>1, <1>2, <1>3 DEF StateInv, InRun
<1>5. MarkInv' /\ WindowInv' /\ QueryInv'
  BY <1>1, <1>2 DEF MarkInv, IsMark, WindowInv, InRun, WindowParses, WindowStart,
                    QueryInv, BoundUsed
<1>6. ProbeInv'
  <2>1. CASE pc' = "load"
    <3>1. ReadError(cfg, query) = "none"
      BY <2>1 DEF Probe, Fail
    <3>2. PICK rows \in Answers(query) : newMark' = NewWatermark(rows)
      BY <2>1 DEF Probe, Fail
    <3>3. /\ IsMark(newMark')
          /\ Pinned(cfg) => newMark' = upper
          /\ /\ TracksWatermark(cfg)
             /\ query.lower = NoValue /\ query.upper = NoValue
             => newMark' # NoValue
      BY <1>1, <3>2, NewWatermarkFacts
    <3> QED BY <1>2, <3>1, <3>3 DEF ProbeInv, IsMark
  <2>2. CASE pc' = "failed"
    BY <1>1, <1>2, <2>2 DEF Probe, Fail, ProbeInv, IsMark
  <2> QED BY <1>1, <2>1, <2>2
<1>7. LoadedInv'
  BY <1>1 DEF LoadedInv
<1> QED BY <1>4, <1>5, <1>6, <1>7

LEMMA LoadStep == ASSUME RunInv, Load PROVE RunInv'
<1> USE DEF RunInv
<1>1. pc = "load" /\ pc' \in {"failed", "advance"}
  BY DEF Load, Fail
<1>2. UNCHANGED <<cfg, clock, source, stored, lower, upper, query, newMark, done>>
  BY DEF Load
<1>3. error' # "none" => pc' = "failed"
  BY <1>1 DEF Load, Fail, StateInv
<1>4. pc' = "advance" => /\ \E rows \in Answers(query) : target' = Written(cfg, rows)
                         /\ LoadError(cfg, query) = "none"
  BY DEF Load, Fail
<1>5. pc' = "failed" => target' = target
  BY DEF Load, Fail
<1>6. /\ \A r \in Row : target[r] \in Nat /\ target[r] <= done
      /\ done \in Nat
  BY <1>1 DEF StateInv
<1>7. /\ target' \in [Row -> Nat]
      /\ \A r \in Row : target'[r] <= done + (IF pc' = "advance" THEN 1 ELSE 0)
  <2>1. CASE pc' = "advance"
    <3>1. PICK rows : target' = Written(cfg, rows)
      BY <1>4, <2>1
    <3>2. \A r \in Row : /\ Written(cfg, rows)[r] \in Nat
                         /\ Written(cfg, rows)[r] <= done + 1
      BY <1>6 DEF Written
    <3>3. Written(cfg, rows) \in [Row -> Nat]
      BY <1>6 DEF Written
    <3> QED BY <2>1, <3>1, <3>2, <3>3
  <2>2. CASE pc' = "failed"
    BY <1>5, <1>6, <2>2 DEF StateInv
  <2> QED BY <1>1, <2>1, <2>2
<1>8. StateInv'
  BY <1>1, <1>2, <1>3, <1>7 DEF StateInv, InRun
<1>9. MarkInv' /\ WindowInv' /\ QueryInv'
  BY <1>1, <1>2 DEF MarkInv, IsMark, WindowInv, InRun, WindowParses, WindowStart,
                    QueryInv, BoundUsed
<1>10. ProbeInv' /\ LoadedInv'
  BY <1>1, <1>2, <1>4 DEF ProbeInv, IsMark, LoadedInv
<1> QED BY <1>8, <1>9, <1>10

\* Where the mark is, before and after Advance.
LEMMA AdvanceFacts ==
  ASSUME RunInv, Advance
  PROVE  /\ stored.at \in Int /\ stored'.at \in Int /\ newMark.at \in Int
         /\ stored # NoValue => stored' # NoValue /\ stored.at <= stored'.at
         /\ newMark # NoValue => stored' # NoValue /\ newMark.at <= stored'.at
         /\ stored' = stored \/ (stored' = newMark /\ newMark # NoValue)
<1> USE DEF RunInv
<1>1. /\ newMark = NoValue \/ (newMark.at \in 1..clock /\ TracksWatermark(cfg))
      /\ stored = NoValue \/ stored.at \in 1..clock
      /\ clock \in Nat
  BY DEF MarkInv, ProbeInv, IsMark, StateInv
<1>2. NoValue.at = -1
  BY DEF NoValue
<1>3. CASE TracksWatermark(cfg) /\ newMark.at > stored.at
  <2>1. stored' = newMark
    BY <1>3 DEF Advance
  <2> QED BY <1>1, <1>2, <1>3, <2>1
<1>4. CASE ~(TracksWatermark(cfg) /\ newMark.at > stored.at)
  <2>1. stored' = stored
    BY <1>4 DEF Advance
  <2> QED BY <1>1, <1>2, <1>4, <2>1
<1> QED BY <1>3, <1>4

LEMMA AdvanceStep == ASSUME RunInv, Advance PROVE RunInv'
<1> USE DEF RunInv
<1>1. /\ pc = "advance" /\ pc' = "idle"
      /\ done' = done + 1
      /\ lower' = NoValue /\ upper' = NoValue /\ newMark' = NoValue
      /\ UNCHANGED <<cfg, clock, source, target, error>>
  BY DEF Advance
<1>2. StateInv'
  <2>1. done \in 0..MaxRuns /\ done < MaxRuns
    BY <1>1 DEF StateInv, InRun
  <2>2. \A r \in Row : target[r] <= done + 1
    BY <1>1 DEF StateInv
  <2>3. error # "none" => pc = "failed"
    BY DEF StateInv
  <2> QED BY <1>1, <2>1, <2>2, <2>3, OptionsAssumption DEF StateInv, InRun
<1>3. MarkInv'
  <2>1. done' # 0
    BY <1>1 DEF StateInv
  <2>2. IsMark(stored)'
    BY <1>1, AdvanceFacts DEF MarkInv, ProbeInv, IsMark
  <2> QED BY <1>1, <2>1, <2>2 DEF MarkInv
<1>4. WindowInv' /\ QueryInv' /\ ProbeInv' /\ LoadedInv'
  BY <1>1 DEF WindowInv, InRun, QueryInv, ProbeInv, IsMark, LoadedInv, Value
<1> QED BY <1>2, <1>3, <1>4

\* The source's users: what a mark may be can only grow.
LEMMA SourceStep ==
  ASSUME RunInv, Tick \/ (\E id \in 1..MaxTies : Arrive(id))
  PROVE  RunInv'
<1> USE DEF RunInv
<1>1. UNCHANGED <<cfg, pc, stored, lower, upper, query, newMark, target, error, done>>
  BY DEF Tick, Arrive
<1>2. /\ clock \in 1..MaxClock /\ MaxClock \in Nat
      /\ source \subseteq Row /\ \A r \in source : r.at <= clock
  BY OptionsAssumption DEF StateInv
<1>3. /\ clock' \in 1..MaxClock /\ clock <= clock'
      /\ source' \subseteq Row /\ source \subseteq source'
      /\ \A r \in source' : r.at <= clock'
  <2>1. CASE Tick
    <3>1. clock' = clock + 1 /\ clock < MaxClock /\ source' = source
      BY <2>1 DEF Tick
    <3>2. \A r \in source : r.at \in Int
      BY <1>2 DEF Row
    <3> QED BY <1>2, <3>1, <3>2
  <2>2. CASE \E id \in 1..MaxTies : Arrive(id)
    <3>1. PICK id \in 1..MaxTies : Arrive(id)
      BY <2>2
    <3>2. clock' = clock /\ source' = source \cup {[at |-> clock, id |-> id]}
      BY <3>1 DEF Arrive
    <3>3. [at |-> clock, id |-> id] \in Row
      BY <1>2 DEF Row
    <3> QED BY <1>2, <3>2, <3>3
  <2> QED BY <2>1, <2>2
<1>4. StateInv'
  BY <1>1, <1>3 DEF StateInv, InRun
<1>5. \A m : IsMark(m) => IsMark(m)'
  BY <1>1, <1>2, <1>3 DEF IsMark
<1>6. MarkInv' /\ WindowInv'
  BY <1>1, <1>5 DEF MarkInv, WindowInv, InRun, WindowParses, WindowStart
<1>7. QueryInv'
  BY <1>1, <1>5 DEF QueryInv, BoundUsed
<1>8. ProbeInv' /\ LoadedInv'
  BY <1>1, <1>5 DEF ProbeInv, LoadedInv
<1> QED BY <1>4, <1>6, <1>7, <1>8

LEMMA RunStep == RunInv /\ [Next]_vars => RunInv'
<1> SUFFICES ASSUME RunInv, [Next]_vars PROVE RunInv'
  OBVIOUS
<1>1. CASE Validate
  <2>1. pc = "validate" /\ pc' = IF Errors(cfg) = {} THEN "idle" ELSE "rejected"
    BY <1>1 DEF Validate
  <2>2. UNCHANGED <<cfg, clock, source, stored, lower, upper, query, newMark,
                    target, error, done>>
    BY <1>1 DEF Validate
  <2>3. StateInv'
    BY <2>1, <2>2 DEF RunInv, StateInv, InRun
  <2>4. MarkInv' /\ WindowInv' /\ QueryInv' /\ ProbeInv' /\ LoadedInv'
    BY <2>1, <2>2 DEF RunInv, MarkInv, IsMark, WindowInv, InRun, QueryInv,
                      ProbeInv, LoadedInv
  <2> QED BY <2>3, <2>4 DEF RunInv
<1>2. CASE UNCHANGED vars
  BY <1>2 DEF vars, RunInv, StateInv, MarkInv, IsMark, WindowInv, InRun,
              WindowParses, WindowStart, QueryInv, BoundUsed, ProbeInv, LoadedInv
<1> QED BY <1>1, <1>2, WindowStep, BuildQueryStep, ProbeStep, LoadStep,
           AdvanceStep, SourceStep DEF Next

LEMMA RunInvariant == Spec => []RunInv
BY RunInit, RunStep, PTL DEF Spec

(***************************************************************************)
(* Every state of every run is of its type; in particular the stored mark, *)
(* which Advance writes from the cut-off or from the newest stamp, is      *)
(* always of the type that build_predicates makes literals of.             *)
(***************************************************************************)
THEOREM TypeCorrect == Spec => []TypeOK
<1>1. RunInv => TypeOK
  <2> SUFFICES ASSUME RunInv PROVE TypeOK
    OBVIOUS
  <2>1. {stored, lower, upper, newMark} \subseteq Value
    BY DEF RunInv, MarkInv, WindowInv, QueryInv, ProbeInv, IsMark, Value
  <2>2. \A r \in Row : target[r] \in 0..MaxRuns
    BY OptionsAssumption DEF RunInv, StateInv, InRun
  <2>3. target \in [Row -> 0..MaxRuns]
    BY <2>2 DEF RunInv, StateInv
  <2> QED BY <2>1, <2>3 DEF RunInv, StateInv, MarkInv, IsMark, TypeOK
<1> QED BY <1>1, RunInvariant, PTL

(***************************************************************************)
(* The validator's warning that a merge is last-write-wins agrees with     *)
(* merge_guard_column for every configuration: it is given whenever the    *)
(* MERGE has no guard, and is wrong for SCN tables at most.                *)
(***************************************************************************)
THEOREM GuardWarningHolds == Spec => []WarningIsTrue
<1>1. WarningIsTrue
  BY DEF WarningIsTrue, GuardColumns, WatermarkColumns, WarnsOfNoGuard
<1> QED BY <1>1, PTL

----------------------------------------------------------------------------
(* Which accepted configurations fail, and when.                           *)

\* The columns that a run refers to are in its query, unless they were
\* excluded, or are the SCN in a full load.
LEMMA SelectedColumns ==
  ASSUME NEW o, Valid(o), NEW lo, NEW up
  PROVE  LET q == SourceQuery(o, lo, up)
         IN  /\ o.mode = "query" => Needed(o) \subseteq q.columns
             /\ o.mode # "query" /\ Explicit(o) =>
                  \A c \in Needed(o) : c # Scn =>
                    (c \in q.columns <=> c \notin o.exclude_columns)
             /\ ~Explicit(o) => Needed(o) \ {Scn} \subseteq q.columns
             /\ o.mode # "query" => (Scn \in q.columns <=> IsIncremental(o) /\ UsesScn(o))
<1> DEFINE q == SourceQuery(o, lo, up)
<1>1. Needed(o) \subseteq {"K", "P"} \cup WatermarkColumns(o)
  BY DEF Needed, UsesKeys, GuardColumns
<1>2. WatermarkColumns(o) \subseteq {"WM", Scn}
  BY DEF WatermarkColumns
<1>3. "WM" \in Needed(o) => o.watermark_column
  BY DEF Needed, GuardColumns, WatermarkColumns, Scn
<1>4. "K" \in Needed(o) => o.merge_keys
  BY DEF Needed, UsesKeys, GuardColumns, WatermarkColumns, Scn
<1>5. "P" \in Needed(o) => o.partition_column
  BY DEF Needed, GuardColumns, WatermarkColumns, Scn, IsParallel
<1>6. {"K", "P", "WM"} \subseteq Columns /\ Scn \notin Columns
  BY DEF Columns, Scn
<1>7. CASE o.mode = "query"
  <2>1. Columns \cup WatermarkColumns(o) \subseteq q.columns
    BY <1>7, QueryColumns
  <2>2. ~Explicit(o)
    BY <1>7, ValidFacts DEF Explicit
  <2> HIDE DEF q
  <2> QED BY <1>1, <1>2, <1>6, <1>7, <2>1, <2>2 DEF q
<1>8. CASE o.mode # "query"
  <2>1. q.columns = Projection(o)
    BY <1>8, QueryColumns
  <2>2. /\ ~Explicit(o) => Columns \subseteq Projection(o)
        /\ Explicit(o) => \A c \in Columns :
              c \in Projection(o) <=> c \in o.columns /\ c \notin o.exclude_columns
        /\ Scn \in Projection(o) <=> IsIncremental(o) /\ UsesScn(o)
    BY ProjectionFacts
  <2>3. Explicit(o) => \A c \in Needed(o) : c # Scn => c \in o.columns
    BY <1>1, <1>2, <1>3, <1>4, <1>5, ValidFacts
  <2>4. \A c \in Needed(o) : c # Scn => c \in Columns
    BY <1>1, <1>2, <1>6
  <2> HIDE DEF q
  <2> QED BY <1>8, <2>1, <2>2, <2>3, <2>4 DEF q
<1> QED BY <1>7, <1>8

LEMMA QueryErrorFacts ==
  ASSUME NEW o, Valid(o), NEW lo, NEW up
  PROVE  LET e == QueryError(o, lo, up)
             literal == /\ TracksWatermark(o) /\ lo # NoValue
                        /\ ~Fits(lo.kind, BoundType(o))
             unresolved == o.mode = "query" /\ Unresolved(o, lo, up) # {}
             nothing == o.mode # "query" /\ Projection(o) \subseteq {Scn}
         IN  /\ e \in {"bad literal", "unresolved placeholder",
                        "nothing to select", "none"}
             /\ e = "none" <=> ~literal /\ ~unresolved /\ ~nothing
<1>1. o.mode = "query" => o.query_file
  BY ValidFacts
<1>2. ~(IsIncremental(o) /\ WatermarkColumns(o) = {})
  BY ValidFacts DEF WatermarkColumns
<1> QED BY <1>1, <1>2 DEF QueryError

LEMMA ReadErrorFacts ==
  ASSUME NEW o, Valid(o), NEW lo, NEW up
  PROVE  LET q == SourceQuery(o, lo, up)
         IN  /\ ReadError(o, q) \in {"not a statement", "no split column",
                                      "no column to probe", "none"}
             /\ ReadError(o, q) # "none" => ExcludesNeeded(o) \/ StarAndScn(o)
             /\ ReadError(o, q) = "none" =>
                  /\ ~StarAndScn(o)
                  /\ IsParallel(o) => "P" \in q.columns
                  /\ TracksWatermark(o) /\ ~Pinned(o)
                       => WatermarkColumns(o) \subseteq q.columns
<1> DEFINE q == SourceQuery(o, lo, up)
           split == IsParallel(o) /\ "P" \notin q.columns
           probe == /\ TracksWatermark(o) /\ ~Pinned(o)
                    /\ ~(WatermarkColumns(o) \subseteq q.columns)
<1>1. ~(IsParallel(o) /\ o.bounds = "unset")
  BY ValidFacts DEF IsParallel
<1>2. /\ ReadError(o, q) \in {"not a statement", "no split column",
                               "no column to probe", "none"}
      /\ ReadError(o, q) # "none" => split \/ probe \/ StarAndScn(o)
      /\ ReadError(o, q) = "none" => ~split /\ ~probe /\ ~StarAndScn(o)
  <2> HIDE DEF q
  <2> QED BY <1>1 DEF ReadError
<1>3. /\ o.mode = "query" => Needed(o) \subseteq q.columns
      /\ o.mode # "query" /\ Explicit(o) =>
           \A c \in Needed(o) : c # Scn =>
             (c \in q.columns <=> c \notin o.exclude_columns)
      /\ ~Explicit(o) => Needed(o) \ {Scn} \subseteq q.columns
      /\ o.mode # "query" => (Scn \in q.columns <=> IsIncremental(o) /\ UsesScn(o))
  BY SelectedColumns
<1> HIDE DEF q
<1>4. split => "P" \in Needed(o) /\ "P" # Scn
  BY DEF Needed, Scn
<1>5. probe => \E c \in Needed(o) : c # Scn /\ c \notin q.columns
  <2> SUFFICES ASSUME probe
               PROVE  \E c \in Needed(o) : c # Scn /\ c \notin q.columns
    OBVIOUS
  <2>1. PICK c \in WatermarkColumns(o) : c \notin q.columns
    OBVIOUS
  <2>2. c \in Needed(o)
    BY DEF Needed
  <2>3. c # Scn
    <3> SUFFICES ASSUME c = Scn PROVE FALSE
      OBVIOUS
    <3>1. UsesScn(o)
      BY <2>1 DEF WatermarkColumns, Scn
    <3>2. o.mode # "query"
      BY <1>3, <2>1, <2>2
    <3>3. IsIncremental(o)
      BY <3>2 DEF TracksWatermark
    <3> QED BY <1>3, <2>1, <3>1, <3>2, <3>3
  <2> QED BY <2>1, <2>2, <2>3
<1>6. split \/ probe => ExcludesNeeded(o)
  <2> SUFFICES ASSUME NEW c \in Needed(o), c # Scn, c \notin q.columns
               PROVE  ExcludesNeeded(o)
    BY <1>4, <1>5
  <2>1. o.mode # "query" /\ Explicit(o)
    BY <1>3
  <2>2. c \in o.exclude_columns
    BY <1>3, <2>1
  <2> QED BY <2>1, <2>2 DEF ExcludesNeeded
<1>7. ~split /\ ~probe =>
        /\ IsParallel(o) => "P" \in q.columns
        /\ TracksWatermark(o) /\ ~Pinned(o) => WatermarkColumns(o) \subseteq q.columns
  OBVIOUS
<1> HIDE DEF split, probe
<1> QED BY <1>2, <1>6, <1>7 DEF q

LEMMA LoadErrorFacts ==
  ASSUME NEW o, Valid(o), NEW lo, NEW up
  PROVE  LET q == SourceQuery(o, lo, up)
         IN  /\ LoadError(o, q) \in {"no key column", "no guard column", "none"}
             /\ LoadError(o, q) # "none" => ExcludesNeeded(o) \/ UnselectedGuard(o)
             /\ LoadError(o, q) = "none" =>
                  /\ UsesKeys(o) => "K" \in q.columns
                  /\ o.write_mode = "merge" => GuardColumns(o) \subseteq q.columns
<1> DEFINE q == SourceQuery(o, lo, up)
           key == UsesKeys(o) /\ "K" \notin q.columns
           guard == o.write_mode = "merge" /\ ~(GuardColumns(o) \subseteq q.columns)
<1>1. ~(o.write_mode = "merge" /\ ~o.merge_keys)
  BY ValidFacts
<1>2. /\ LoadError(o, q) \in {"no key column", "no guard column", "none"}
      /\ LoadError(o, q) # "none" => key \/ guard
      /\ LoadError(o, q) = "none" => ~key /\ ~guard
  <2> HIDE DEF q
  <2> QED BY <1>1 DEF LoadError
<1>3. /\ o.mode = "query" => Needed(o) \subseteq q.columns
      /\ o.mode # "query" /\ Explicit(o) =>
           \A c \in Needed(o) : c # Scn =>
             (c \in q.columns <=> c \notin o.exclude_columns)
      /\ ~Explicit(o) => Needed(o) \ {Scn} \subseteq q.columns
      /\ o.mode # "query" => (Scn \in q.columns <=> IsIncremental(o) /\ UsesScn(o))
  BY SelectedColumns
<1> HIDE DEF q
<1>4. key => "K" \in Needed(o) /\ "K" # Scn
  BY DEF Needed, Scn
<1>5. ASSUME NEW c \in Needed(o), c # Scn, c \notin q.columns
      PROVE  ExcludesNeeded(o)
  <2>1. o.mode # "query" /\ Explicit(o)
    BY <1>3, <1>5
  <2>2. c \in o.exclude_columns
    BY <1>3, <1>5, <2>1
  <2> QED BY <2>1, <2>2 DEF ExcludesNeeded
<1>6. guard => ExcludesNeeded(o) \/ UnselectedGuard(o)
  <2> SUFFICES ASSUME guard PROVE ExcludesNeeded(o) \/ UnselectedGuard(o)
    OBVIOUS
  <2>1. PICK c \in GuardColumns(o) : c \notin q.columns
    OBVIOUS
  <2>2. c \in Needed(o)
    BY DEF Needed
  <2>3. CASE c # Scn
    BY <1>5, <2>1, <2>2, <2>3
  <2>4. CASE c = Scn
    <3>1. UsesScn(o) /\ o.merge_guard = "watermark"
      BY <2>1, <2>4 DEF GuardColumns, WatermarkColumns, Scn
    <3>2. o.mode # "query"
      BY <1>3, <2>1, <2>2
    <3>3. ~IsIncremental(o)
      BY <1>3, <2>1, <2>4, <3>1, <3>2
    <3>4. o.mode = "full"
      BY <3>2, <3>3 DEF Valid, Config, IsIncremental
    <3> QED BY <3>1, <3>4 DEF UnselectedGuard
  <2> QED BY <2>3, <2>4
<1>7. ~key /\ ~guard => /\ UsesKeys(o) => "K" \in q.columns
                        /\ o.write_mode = "merge" => GuardColumns(o) \subseteq q.columns
  OBVIOUS
<1>8. key => ExcludesNeeded(o)
  BY <1>4, <1>5
<1> HIDE DEF key, guard
<1> QED BY <1>2, <1>6, <1>7, <1>8 DEF q

\* A run that gets as far as the advance has all the columns it refers to.
LEMMA ColumnsWereThere ==
  ASSUME NEW o, Valid(o), NEW lo, NEW up,
         QueryError(o, lo, up) = "none",
         ReadError(o, SourceQuery(o, lo, up)) = "none",
         LoadError(o, SourceQuery(o, lo, up)) = "none"
  PROVE  ~ExcludesNeeded(o) /\ ~UnselectedGuard(o) /\ ~StarAndScn(o)
<1> DEFINE q == SourceQuery(o, lo, up)
<1>1. /\ ~StarAndScn(o)
      /\ IsParallel(o) => "P" \in q.columns
      /\ TracksWatermark(o) /\ ~Pinned(o) => WatermarkColumns(o) \subseteq q.columns
  BY ReadErrorFacts
<1>2. /\ UsesKeys(o) => "K" \in q.columns
      /\ o.write_mode = "merge" => GuardColumns(o) \subseteq q.columns
  BY LoadErrorFacts
<1>3. /\ o.mode # "query" /\ Explicit(o) =>
           \A c \in Needed(o) : c # Scn =>
             (c \in q.columns <=> c \notin o.exclude_columns)
      /\ o.mode # "query" => (Scn \in q.columns <=> IsIncremental(o) /\ UsesScn(o))
  BY SelectedColumns
<1>4. o.mode # "query" => ~(Projection(o) \subseteq {Scn})
  BY QueryErrorFacts
<1> HIDE DEF q
<1>5. Needed(o) \subseteq q.columns
  BY <1>1, <1>2 DEF Needed
<1>6. ~ExcludesNeeded(o)
  <2> SUFFICES ASSUME o.mode # "query", Explicit(o),
                      \/ \E c \in Needed(o) : c \in o.exclude_columns
                      \/ o.columns \subseteq o.exclude_columns
               PROVE  FALSE
    BY DEF ExcludesNeeded
  <2>1. ASSUME NEW c \in Needed(o), c \in o.exclude_columns PROVE FALSE
    <3>1. c # Scn
      BY <2>1 DEF Valid, Config, Columns, Scn
    <3> QED BY <1>3, <1>5, <2>1, <3>1
  <2>2. ASSUME o.columns \subseteq o.exclude_columns PROVE FALSE
    <3>1. Projection(o) \subseteq {Scn}
      BY <2>2 DEF Projection, Explicit
    <3> QED BY <1>4, <3>1
  <2> QED BY <2>1, <2>2
<1>7. ~UnselectedGuard(o)
  <2> SUFFICES ASSUME UnselectedGuard(o) PROVE FALSE
    OBVIOUS
  <2>1. Scn \in Needed(o)
    BY DEF UnselectedGuard, Needed, GuardColumns, WatermarkColumns
  <2> QED BY <1>3, <1>5, <2>1 DEF UnselectedGuard, IsIncremental
<1> QED BY <1>1, <1>6, <1>7

\* A reason to fail that the validator leaves, and one it would catch.
LEMMA WindowFailure ==
  ASSUME RunInv, FailureInv, Window
  PROVE  ValidatorCatches' /\ (error' # "none" => CannotRun(cfg))
<1>1. CASE pc' # "failed"
  BY <1>1 DEF Window, Fail, FailureInv, ValidatorCatches
<1>2. CASE pc' = "failed"
  <2>1. error' = "bad window"
    BY <1>2 DEF Window, Fail
  <2>2. CASE stored = NoValue
    <3>1. /\ cfg.lower_bound_default # "none"
          /\ ~Fits(cfg.lower_bound_default, cfg.watermark_type)
      BY <1>2, <2>2 DEF Window, Fail
    <3> QED BY <2>1, <3>1 DEF ValidatorCatches, CannotRun, WrongWindowType
  <2>3. CASE stored # NoValue
    <3>1. OverlapOf(cfg) # 0 /\ ~Fits(stored.kind, cfg.watermark_type)
      BY <1>2, <2>3 DEF Window, Fail
    <3>2. UsesScn(cfg)
      BY <2>3, <3>1 DEF RunInv, MarkInv, IsMark, BoundType
    <3> QED BY <2>1, <3>1, <3>2 DEF ValidatorCatches, CannotRun, WrongWindowType
  <2> QED BY <2>2, <2>3
<1> QED BY <1>1, <1>2

LEMMA BuildQueryFailure ==
  ASSUME RunInv, FailureInv, BuildQuery
  PROVE  ValidatorCatches' /\ (error' # "none" => CannotRun(cfg))
<1> DEFINE cut == CutOf(cfg, clock)
           why == QueryError(cfg, BoundUsed, cut)
<1>1. Valid(cfg) /\ pc = "extract" /\ clock \in Int /\ cfg \in Config
  <2>1. pc = "extract"
    BY DEF BuildQuery
  <2> QED BY <2>1 DEF RunInv, StateInv, Valid
<1>2. /\ cut # NoValue <=> Pinned(cfg)
      /\ Pinned(cfg) => cut.kind = CutKind(cfg)
  BY <1>1, CutFacts
<1>3. lower = WindowStart
  BY <1>1 DEF RunInv, WindowInv, InRun
<1>4. CASE cut # NoValue /\ ~Fits(cut.kind, BoundType(cfg))
  <2>1. error' = "bad cut-off"
    BY <1>4 DEF BuildQuery, Fail
  <2>2. ~UsesScn(cfg) /\ cfg.watermark_type = "number"
    BY <1>1, <1>2, <1>4 DEF Fits, CutKind, BoundType, Config
  <2> QED BY <1>2, <1>4, <2>1, <2>2 DEF ValidatorCatches, CannotRun, WrongCutType
<1>5. CASE ~(cut # NoValue /\ ~Fits(cut.kind, BoundType(cfg))) /\ why # "none"
  <2>1. error' = why
    BY <1>5 DEF BuildQuery, Fail, BoundUsed
  <2>2. ValidatorCatches'
    BY <1>1, <2>1, QueryErrorFacts DEF ValidatorCatches
  <2>3. \/ /\ TracksWatermark(cfg) /\ BoundUsed # NoValue
           /\ ~Fits(BoundUsed.kind, BoundType(cfg))
        \/ cfg.mode = "query" /\ Unresolved(cfg, BoundUsed, cut) # {}
        \/ cfg.mode # "query" /\ Projection(cfg) \subseteq {Scn}
    BY <1>1, <1>5, QueryErrorFacts
  <2>4. ASSUME TracksWatermark(cfg), BoundUsed # NoValue,
               ~Fits(BoundUsed.kind, BoundType(cfg))
        PROVE  CannotRun(cfg)
    <3>1. BoundUsed = WindowStart
      BY <1>3, <2>4 DEF BoundUsed
    <3>2. CASE stored = NoValue
      <4>1. /\ cfg.lower_bound_default # "none"
            /\ WindowStart.kind = cfg.lower_bound_default
        BY <2>4, <3>1, <3>2 DEF WindowStart
      <4> QED BY <2>4, <3>1, <4>1 DEF CannotRun, WrongWindowType
    <3>3. CASE stored # NoValue
      <4>1. stored \in [kind : {"time", "number"}, at : Int]
        BY <3>3 DEF RunInv, MarkInv, IsMark, Value
      <4>2. WindowStart.kind = stored.kind
        BY <3>3, <4>1 DEF WindowStart
      <4> QED BY <2>4, <3>1, <3>3, <4>2 DEF RunInv, MarkInv, IsMark
    <3> QED BY <3>2, <3>3
  <2>5. ASSUME cfg.mode = "query", Unresolved(cfg, BoundUsed, cut) # {}
        PROVE  CannotRun(cfg)
    <3>1. \/ "lower" \in cfg.binds /\ BoundUsed = NoValue
          \/ "upper" \in cfg.binds /\ cut = NoValue
      BY <2>5 DEF Unresolved
    <3>2. BoundUsed = NoValue /\ TracksWatermark(cfg) => cfg.lower_bound_default = "none"
      <4> SUFFICES ASSUME BoundUsed = NoValue, TracksWatermark(cfg),
                          cfg.lower_bound_default # "none"
                   PROVE  FALSE
        OBVIOUS
      <4>1. WindowStart = NoValue
        BY <1>3 DEF BoundUsed
      <4>2. NoValue.at = -1 /\ NoValue.kind = "none"
        BY DEF NoValue
      <4>3. stored # NoValue
        BY <4>1, <4>2 DEF WindowStart
      <4>4. /\ stored \in [kind : {"time", "number"}, at : Int]
        BY <4>3 DEF RunInv, MarkInv, IsMark, Value
      <4>5. WindowStart.kind = stored.kind
        BY <4>3, <4>4 DEF WindowStart
      <4> QED BY <4>1, <4>2, <4>4, <4>5
    <3>3. NoValueToBind(cfg)
      BY <1>2, <2>5, <3>1, <3>2 DEF NoValueToBind
    <3> QED BY <3>3 DEF CannotRun
  <2>6. ASSUME cfg.mode # "query", Projection(cfg) \subseteq {Scn}
        PROVE  CannotRun(cfg)
    <3>1. "X" \in Columns /\ "X" # Scn /\ Scn \notin Columns
      BY DEF Columns, Scn
    <3>2. Explicit(cfg)
      BY <1>1, <2>6, <3>1, ProjectionFacts
    <3>3. cfg.columns \subseteq cfg.exclude_columns
      BY <2>6, <3>1, <3>2, <1>1 DEF Projection, Explicit, Config
    <3> QED BY <2>6, <3>2, <3>3 DEF CannotRun, ExcludesNeeded
  <2> QED BY <2>2, <2>3, <2>4, <2>5, <2>6
<1>6. CASE ~(cut # NoValue /\ ~Fits(cut.kind, BoundType(cfg))) /\ why = "none"
  <2>1. error' = error
    BY <1>6 DEF BuildQuery, BoundUsed
  <2> QED BY <2>1 DEF FailureInv, ValidatorCatches
<1> QED BY <1>4, <1>5, <1>6

LEMMA LaterFailure ==
  ASSUME RunInv, FailureInv, Probe \/ Load
  PROVE  ValidatorCatches' /\ (error' # "none" => CannotRun(cfg))
<1>1. Valid(cfg) /\ query = SourceQuery(cfg, BoundUsed, upper)
  BY DEF Probe, Load, RunInv, StateInv, QueryInv, Valid
<1>2. \/ error' = error
      \/ error' = ReadError(cfg, query)
      \/ error' = LoadError(cfg, query)
  BY DEF Probe, Load, Fail
<1>3. CASE error' = error
  BY <1>3 DEF FailureInv, ValidatorCatches
<1>4. CASE error' = ReadError(cfg, query)
  BY <1>1, <1>4, ReadErrorFacts DEF ValidatorCatches, CannotRun
<1>5. CASE error' = LoadError(cfg, query)
  BY <1>1, <1>5, LoadErrorFacts DEF ValidatorCatches, CannotRun
<1> QED BY <1>2, <1>3, <1>4, <1>5

\* A first run that succeeds rules out all of CannotRun but FailsOnMark.
LEMMA FirstRun ==
  ASSUME RunInv, pc = "advance", stored = NoValue
  PROVE  ~FailsAtOnce(cfg)
<1> DEFINE d == cfg.lower_bound_default
<1>1. Valid(cfg) /\ cfg \in Config /\ clock \in Int
  BY DEF RunInv, StateInv, Valid
<1>2. /\ d = "none" \/ Fits(d, cfg.watermark_type)
      /\ lower = IF d = "none" THEN NoValue ELSE [kind |-> d, at |-> 0]
  BY DEF RunInv, WindowInv, InRun, WindowParses, WindowStart
<1>3. /\ upper # NoValue => Fits(upper.kind, BoundType(cfg))
      /\ QueryError(cfg, BoundUsed, upper) = "none"
      /\ query = SourceQuery(cfg, BoundUsed, upper)
  BY DEF RunInv, QueryInv, IsMark
<1>4. /\ ~(/\ TracksWatermark(cfg) /\ BoundUsed # NoValue
           /\ ~Fits(BoundUsed.kind, BoundType(cfg)))
      /\ ~(cfg.mode = "query" /\ Unresolved(cfg, BoundUsed, upper) # {})
  BY <1>1, <1>3, QueryErrorFacts
<1>5. /\ upper # NoValue <=> Pinned(cfg)
      /\ Pinned(cfg) => upper.kind = CutKind(cfg)
  BY DEF RunInv, QueryInv
<1>6. ~(d # "none" /\ ~Fits(d, cfg.watermark_type))
  BY <1>2
<1>7. ~(d # "none" /\ TracksWatermark(cfg) /\ ~Fits(d, BoundType(cfg)))
  <2> SUFFICES ASSUME d # "none", TracksWatermark(cfg) PROVE Fits(d, BoundType(cfg))
    OBVIOUS
  <2>1. BoundUsed = [kind |-> d, at |-> 0]
    BY <1>2 DEF BoundUsed
  <2>2. BoundUsed # NoValue /\ BoundUsed.kind = d
    <3>1. BoundUsed.at = 0 /\ NoValue.at = -1
      BY <2>1 DEF NoValue
    <3> QED BY <2>1, <3>1
  <2> QED BY <1>4, <2>2
<1>8. ~WrongCutType(cfg)
  BY <1>3, <1>5 DEF WrongCutType, CutKind, Fits, BoundType
<1>9. ~NoValueToBind(cfg)
  <2> SUFFICES ASSUME cfg.mode = "query" PROVE ~NoValueToBind(cfg)
    BY DEF NoValueToBind
  <2>1. Unresolved(cfg, BoundUsed, upper) = {}
    BY <1>4
  <2>2. "lower" \in cfg.binds => BoundUsed # NoValue
    BY <2>1 DEF Unresolved
  <2>3. "upper" \in cfg.binds => upper # NoValue
    BY <2>1 DEF Unresolved
  <2>4. BoundUsed # NoValue => TracksWatermark(cfg) /\ d # "none"
    BY <1>2 DEF BoundUsed
  <2> QED BY <1>5, <2>2, <2>3, <2>4 DEF NoValueToBind
<1>10. ~ExcludesNeeded(cfg) /\ ~UnselectedGuard(cfg) /\ ~StarAndScn(cfg)
  <2>1. ReadError(cfg, query) = "none" /\ LoadError(cfg, query) = "none"
    BY DEF RunInv, ProbeInv, LoadedInv
  <2> QED BY <1>1, <1>3, <2>1, ColumnsWereThere
<1> QED BY <1>6, <1>7, <1>8, <1>9, <1>10 DEF FailsAtOnce

\* An SCN table with an overlap has a mark after its first run.
LEMMA MarkAfterFirstRun ==
  ASSUME RunInv, Advance, FailsOnMark(cfg)
  PROVE  stored' # NoValue
<1> SUFFICES ASSUME stored = NoValue PROVE stored' # NoValue
  BY AdvanceFacts
<1>1. pc = "advance"
  BY DEF Advance
<1>2. Valid(cfg) /\ cfg \in Config /\ clock \in Nat /\ clock >= 1
  BY <1>1 DEF RunInv, StateInv, Valid
<1>3. cfg.watermark_type = "timestamp" /\ cfg.overlap # 0 /\ UsesScn(cfg)
  BY <1>2 DEF FailsOnMark, OverlapOf, Config
<1>4. IsIncremental(cfg) /\ TracksWatermark(cfg)
  BY <1>2, <1>3, ValidFacts DEF TracksWatermark
<1>5. /\ query = SourceQuery(cfg, BoundUsed, upper)
      /\ upper # NoValue <=> Pinned(cfg)
  BY <1>1 DEF RunInv, QueryInv
<1>6. newMark # NoValue
  <2>1. CASE Pinned(cfg)
    BY <1>1, <1>5, <2>1 DEF RunInv, ProbeInv
  <2>2. CASE ~Pinned(cfg)
    <3>1. cfg.lower_bound_default = "none"
      <4>1. \/ cfg.lower_bound_default = "none"
            \/ Fits(cfg.lower_bound_default, cfg.watermark_type)
        BY <1>1 DEF RunInv, WindowInv, InRun, WindowParses
      <4>2. \/ cfg.lower_bound_default = "none"
            \/ Fits(cfg.lower_bound_default, BoundType(cfg))
        BY <1>2, <1>4, ValidFacts
      <4> QED BY <1>3, <4>1, <4>2 DEF Fits, BoundType
    <3>2. BoundUsed = NoValue
      BY <1>1, <1>4, <3>1 DEF RunInv, WindowInv, InRun, WindowStart, BoundUsed
    <3>3. query.lower = NoValue /\ query.upper = NoValue
      BY <1>4, <1>5, <2>2, <3>2 DEF SourceQuery, IsIncremental
    <3> QED BY <1>1, <1>4, <3>3 DEF RunInv, ProbeInv
  <2> QED BY <2>1, <2>2
<1> QED BY <1>6, AdvanceFacts

\* And none after that: its window cannot parse the mark.
LEMMA NoSecondRun ==
  ASSUME RunInv, pc = "advance", stored # NoValue
  PROVE  ~FailsOnMark(cfg)
<1> SUFFICES ASSUME FailsOnMark(cfg) PROVE FALSE
  OBVIOUS
<1>1. Fits(stored.kind, cfg.watermark_type) /\ OverlapOf(cfg) # 0 /\ UsesScn(cfg)
  BY DEF RunInv, WindowInv, InRun, WindowParses, FailsOnMark
<1>2. Fits(stored.kind, BoundType(cfg)) /\ cfg \in Config
  BY DEF RunInv, MarkInv, IsMark, StateInv
<1> QED BY <1>1, <1>2 DEF Fits, BoundType, OverlapOf

LEMMA FailureStep == RunInv /\ FailureInv /\ [Next]_vars => FailureInv'
<1> SUFFICES ASSUME RunInv, FailureInv, [Next]_vars PROVE FailureInv'
  OBVIOUS
<1>1. CASE Advance
  <2>1. /\ pc = "advance" /\ done' = done + 1 /\ cfg' = cfg /\ error' = error
    BY <1>1 DEF Advance
  <2>2. done \in Nat /\ (done = 0 => stored = NoValue)
    BY DEF RunInv, StateInv, MarkInv
  <2>3. ~FailsAtOnce(cfg)
    BY <2>1, <2>2, FirstRun DEF FailureInv
  <2>4. FailsOnMark(cfg) => stored' # NoValue
    BY <1>1, MarkAfterFirstRun
  <2>5. done' >= 2 => ~FailsOnMark(cfg)
    <3> SUFFICES ASSUME done >= 1, FailsOnMark(cfg) PROVE FALSE
      BY <2>1, <2>2
    <3>1. stored # NoValue
      BY DEF FailureInv
    <3> QED BY <2>1, <3>1, NoSecondRun
  <2> QED BY <2>1, <2>3, <2>4, <2>5 DEF FailureInv, ValidatorCatches
<1>2. CASE Window \/ BuildQuery \/ Probe \/ Load
  <2>1. UNCHANGED <<cfg, stored, done>>
    BY <1>2 DEF Window, BuildQuery, Probe, Load
  <2>2. ValidatorCatches' /\ (error' # "none" => CannotRun(cfg))
    BY <1>2, WindowFailure, BuildQueryFailure, LaterFailure
  <2> QED BY <2>1, <2>2 DEF FailureInv
<1>3. CASE \/ Validate \/ Tick \/ (\E id \in 1..MaxTies : Arrive(id))
            \/ UNCHANGED vars
  BY <1>3 DEF Validate, Tick, Arrive, vars, FailureInv, ValidatorCatches
<1> QED BY <1>1, <1>2, <1>3 DEF Next

(***************************************************************************)
(* The list of accepted configurations that cannot run (CannotRun) is      *)
(* complete, and has no entry too many: a run fails only for one of them,  *)
(* none of them gets through two runs, and no run fails for a reason that  *)
(* the builder or the loader leaves to the validator ("config validation   *)
(* should have caught").                                                   *)
(***************************************************************************)
THEOREM OnlyKnownFailures == Spec => []FailuresAreKnown
<1>1. Init => FailureInv
  BY DEF Init, FailureInv, ValidatorCatches
<1>2. RunInv /\ FailureInv => FailuresAreKnown
  <2>1. RunInv => done \in Nat
    BY DEF RunInv, StateInv
  <2>2. CannotRun(cfg) => FailsAtOnce(cfg) \/ FailsOnMark(cfg)
    BY DEF CannotRun, WrongWindowType, FailsAtOnce, FailsOnMark
  <2> QED BY <2>1, <2>2 DEF FailureInv, FailuresAreKnown
<1> QED BY <1>1, <1>2, RunInit, RunStep, FailureStep, PTL DEF Spec

----------------------------------------------------------------------------
(* Rows behind the mark.                                                   *)

LEMMA BoundsOfQuery ==
  ASSUME NEW o, NEW lo, NEW up, NEW r \in Int,
         lo # NoValue => lo.at \in Int, up # NoValue => up.at \in Int
  PROVE  InBounds(SourceQuery(o, lo, up), r) <=>
           /\ lo = NoValue \/ ~Before(o, lo.at, r)
           /\ up = NoValue \/ ~UsesUpper(o) \/ r < up.at
<1> DEFINE q == SourceQuery(o, lo, up)
<1>1. /\ q.lower = IF UsesLower(o) THEN lo ELSE NoValue
      /\ q.upper = IF UsesUpper(o) THEN up ELSE NoValue
      /\ q.inclusive <=> FromLower(o)
  <2>1. CASE o.mode = "query"
    BY <2>1 DEF SourceQuery, UsesLower, UsesUpper, FromLower
  <2>2. CASE o.mode # "query"
    BY <2>2 DEF SourceQuery, UsesLower, UsesUpper, FromLower
  <2> QED BY <2>1, <2>2
<1> HIDE DEF q
<1>2. InBounds(q, r) <=> /\ lo = NoValue \/ ~Before(o, lo.at, r)
                         /\ up = NoValue \/ ~UsesUpper(o) \/ r < up.at
  BY <1>1 DEF InBounds, Before
<1> QED BY <1>2 DEF q

\* The window of the next run returns the rows that are not behind the mark.
LEMMA NextQueryReturns ==
  ASSUME RunInv, stored # NoValue, NEW r \in Row
  PROVE  InBounds(NextQuery, r.at) <=> ~Behind(stored, r)
<1> DEFINE start == [stored EXCEPT !.at = @ - OverlapOf(cfg)]
<1>1. /\ stored \in [kind : {"time", "number"}, at : Int]
      /\ OverlapOf(cfg) \in Int /\ r.at \in Int
  BY OverlapFacts, OptionsAssumption DEF RunInv, StateInv, MarkInv, IsMark, Value, Row
<1>2. /\ start.at = stored.at - OverlapOf(cfg) /\ start.at \in Int
      /\ start.kind = stored.kind
  BY <1>1
<1>3. start # NoValue
  <2>1. NoValue.kind = "none" /\ stored.kind # "none"
    BY <1>1 DEF NoValue
  <2> QED BY <1>2, <2>1
<1>4. NextQuery = SourceQuery(cfg, start, NoValue)
  BY DEF NextQuery
<1> HIDE DEF start
<1>5. InBounds(SourceQuery(cfg, start, NoValue), r.at) <=> ~Before(cfg, start.at, r.at)
  BY <1>1, <1>2, <1>3, BoundsOfQuery
<1> QED BY <1>2, <1>4, <1>5 DEF Behind

\* What a run reads, in terms of the mark and the cut-off.
LEMMA RowsRead ==
  ASSUME RunInv, pc = "load", NEW rows \in Answers(query), NEW r \in source
  PROVE  /\ r \in rows => InBounds(query, r.at)
         /\ InBounds(query, r.at) /\ ~query.limit => r \in rows
         /\ InBounds(query, r.at) <=>
              /\ ~Behind(stored, r)
              /\ ~Pinned(cfg) \/ ~UsesUpper(cfg) \/ r.at < upper.at
<1>1. cfg \in Config /\ clock \in Int /\ r.at \in Int /\ r.at >= 1
  BY OptionsAssumption DEF RunInv, StateInv, Row
<1>2. /\ query = SourceQuery(cfg, BoundUsed, upper)
      /\ upper # NoValue <=> Pinned(cfg)
      /\ upper # NoValue => upper.at \in Int
  BY <1>1 DEF RunInv, QueryInv, IsMark
<1>3. BoundUsed = IF TracksWatermark(cfg) THEN WindowStart ELSE NoValue
  BY DEF RunInv, WindowInv, InRun, BoundUsed
<1>4. /\ BoundUsed # NoValue => BoundUsed.at \in Int
      /\ Behind(stored, r) <=> BoundUsed # NoValue /\ Before(cfg, BoundUsed.at, r.at)
  <2>1. CASE stored # NoValue
    <3>1. /\ TracksWatermark(cfg) /\ stored \in [kind : {"time", "number"}, at : Int]
          /\ OverlapOf(cfg) \in Int
      BY <1>1, <2>1, OverlapFacts DEF RunInv, MarkInv, IsMark, Value
    <3>2. BoundUsed = [stored EXCEPT !.at = @ - OverlapOf(cfg)]
      BY <1>3, <2>1, <3>1 DEF WindowStart
    <3>3. /\ BoundUsed.at = stored.at - OverlapOf(cfg)
          /\ BoundUsed.kind = stored.kind
      BY <3>1, <3>2
    <3>4. BoundUsed # NoValue
      <4>1. NoValue.kind = "none" /\ stored.kind # "none"
        BY <3>1 DEF NoValue
      <4> QED BY <3>3, <4>1
    <3> QED BY <2>1, <3>1, <3>3, <3>4 DEF Behind
  <2>2. CASE stored = NoValue
    <3>1. BoundUsed = NoValue \/ BoundUsed.at = 0
      BY <1>3, <2>2 DEF WindowStart
    <3>2. BoundUsed # NoValue => ~Before(cfg, BoundUsed.at, r.at)
      BY <1>1, <3>1 DEF Before
    <3> QED BY <2>2, <3>1, <3>2 DEF Behind
  <2> QED BY <2>1, <2>2
<1>5. InBounds(query, r.at) <=>
        /\ BoundUsed = NoValue \/ ~Before(cfg, BoundUsed.at, r.at)
        /\ upper = NoValue \/ ~UsesUpper(cfg) \/ r.at < upper.at
  BY <1>1, <1>2, <1>4, BoundsOfQuery
<1>6. /\ r \in rows => InBounds(query, r.at)
      /\ InBounds(query, r.at) /\ ~query.limit => r \in rows
  BY LimitedFacts DEF Answers
<1> QED BY <1>2, <1>4, <1>5, <1>6

\* A row that was read, or could have been, is in the source.
LEMMA AnswersAreRows ==
  ASSUME RunInv, NEW rows \in Answers(query)
  PROVE  rows \subseteq source /\ source \subseteq Row
BY LimitedFacts DEF Answers, RunInv, StateInv

\* A row that arrives now is not behind any mark: it has the stamp of the
\* mark at the least, and a bound that excludes it is rewound.
LEMMA NewRowsAreAhead ==
  ASSUME RunInv, ~SkipsRows(cfg), NEW m, IsMark(m), NEW r, r.at = clock
  PROVE  ~Behind(m, r)
<1> SUFFICES ASSUME m # NoValue, Before(cfg, m.at - OverlapOf(cfg), clock) PROVE FALSE
  BY DEF Behind
<1>1. /\ cfg \in Config /\ clock \in Int /\ m.at \in Int /\ m.at <= clock
      /\ OverlapOf(cfg) \in 0..1
  BY OverlapFacts DEF RunInv, StateInv, IsMark
<1>2. m.at = clock /\ OverlapOf(cfg) = 0 /\ ~FromLower(cfg)
  BY <1>1 DEF Before
<1> QED BY <1>2 DEF SkipsRows, FromLower

\* What is behind the next mark is in the target once the run has written.
LEMMA LoadedRows ==
  ASSUME RunInv, PassedInv, Load, ~SkipsRows(cfg), pc' = "advance",
         NEW r \in source, Behind(stored, r) \/ Behind(newMark, r)
  PROVE  target'[r] > 0
<1>1. /\ cfg \in Config /\ r \in Row /\ r.at \in Int /\ pc = "load"
      /\ target \in [Row -> Nat]
  BY OptionsAssumption DEF Load, RunInv, StateInv, Row
<1>2. PICK rows \in Answers(query) : target' = Written(cfg, rows)
  BY DEF Load, Fail
<1>3. Behind(stored, r) \/ r \in rows
  <2> SUFFICES ASSUME ~Behind(stored, r), Behind(newMark, r) PROVE r \in rows
    OBVIOUS
  <2>1. ~query.limit
    <3>1. query = SourceQuery(cfg, BoundUsed, upper)
      BY <1>1 DEF RunInv, QueryInv
    <3>2. cfg.mode # "query" => ~cfg.row_limit
      BY DEF SkipsRows
    <3>3. cfg.mode # "query" => query.limit = cfg.row_limit
      BY <3>1 DEF SourceQuery
    <3>4. cfg.mode = "query" => query.limit = FALSE
      BY <3>1 DEF SourceQuery
    <3> QED BY <3>2, <3>3, <3>4
  <2>2. ~Pinned(cfg) \/ ~UsesUpper(cfg) \/ r.at < upper.at
    <3> SUFFICES ASSUME Pinned(cfg) PROVE r.at < upper.at
      OBVIOUS
    <3>1. newMark = upper /\ newMark # NoValue /\ newMark.at \in Int
      BY <1>1 DEF RunInv, ProbeInv, QueryInv, IsMark
    <3>2. OverlapOf(cfg) \in 0..1 /\ Before(cfg, newMark.at - OverlapOf(cfg), r.at)
      BY <1>1, OverlapFacts DEF Behind
    <3>3. OverlapOf(cfg) = 0 => FromLower(cfg)
      BY DEF SkipsRows, FromLower
    <3> QED BY <1>1, <3>1, <3>2, <3>3 DEF Before
  <2> QED BY <1>1, <2>1, <2>2, RowsRead
<1>4. CASE r \in rows
  BY <1>1, <1>2, <1>4 DEF Written
<1>5. CASE r \notin rows
  <2>1. Behind(stored, r) /\ target[r] > 0 /\ target[r] \in Nat
    BY <1>1, <1>3, <1>5 DEF PassedInv
  <2>2. cfg.write_mode # "overwrite"
    <3> SUFFICES ASSUME cfg.write_mode = "overwrite" PROVE FALSE
      OBVIOUS
    <3>1. cfg.mode = "query" /\ "lower" \notin cfg.binds
      BY DEF SkipsRows
    <3> QED BY <2>1, <3>1 DEF Behind, Before, UsesLower
  <2>3. Written(cfg, rows)[r] \in {target[r], target[r] + 0}
    BY <1>1, <1>5, <2>2 DEF Written, Config
  <2> QED BY <1>2, <2>1, <2>3
<1> QED BY <1>4, <1>5

LEMMA PassedStep == RunInv /\ PassedInv /\ [Next]_vars => PassedInv'
<1> SUFFICES ASSUME RunInv, PassedInv, [Next]_vars, ~SkipsRows(cfg),
                    NEW r \in source',
                    Behind(stored, r)' \/ (pc' = "advance" /\ Behind(newMark, r)')
             PROVE  target'[r] > 0
  BY DEF PassedInv, Next, Validate, Window, BuildQuery, Probe, Load, Advance,
         Arrive, Tick, vars
<1>1. CASE Validate \/ Window \/ BuildQuery \/ Probe
  <2>1. UNCHANGED <<cfg, source, stored, target>> /\ pc' # "advance"
    BY <1>1 DEF Validate, Window, BuildQuery, Probe, Fail
  <2>2. Behind(stored, r)
    BY <2>1 DEF Behind
  <2> QED BY <2>1, <2>2 DEF PassedInv
<1>2. CASE Load
  <2>1. UNCHANGED <<cfg, source, stored, newMark>>
    BY <1>2 DEF Load
  <2>2. Behind(stored, r) \/ (pc' = "advance" /\ Behind(newMark, r))
    BY <2>1 DEF Behind
  <2>3. CASE pc' = "advance"
    BY <1>2, <2>1, <2>2, <2>3, LoadedRows
  <2>4. CASE pc' # "advance"
    <3>1. target' = target
      BY <1>2, <2>4 DEF Load
    <3> QED BY <2>1, <2>2, <2>4, <3>1 DEF PassedInv
  <2> QED BY <2>3, <2>4
<1>3. CASE Advance
  <2>1. /\ pc = "advance" /\ pc' = "idle" /\ UNCHANGED <<cfg, source, target>>
    BY <1>3 DEF Advance
  <2>2. Behind(stored, r) \/ Behind(newMark, r)
    BY <1>3, <2>1, AdvanceFacts DEF Behind
  <2> QED BY <2>1, <2>2 DEF PassedInv
<1>4. CASE Tick \/ UNCHANGED vars
  <2>1. UNCHANGED <<cfg, pc, source, stored, newMark, target>>
    BY <1>4 DEF Tick, vars
  <2> QED BY <2>1 DEF PassedInv, Behind
<1>5. CASE \E id \in 1..MaxTies : Arrive(id)
  <2>1. UNCHANGED <<cfg, pc, stored, newMark, target>>
    BY <1>5 DEF Arrive
  <2>2. Behind(stored, r) \/ (pc = "advance" /\ Behind(newMark, r))
    BY <2>1 DEF Behind
  <2>3. IsMark(stored) /\ IsMark(newMark)
    BY DEF RunInv, MarkInv, ProbeInv
  <2>4. r \in source \/ r.at = clock
    BY <1>5 DEF Arrive
  <2>5. r \in source
    BY <2>2, <2>3, <2>4, NewRowsAreAhead
  <2> QED BY <2>1, <2>2, <2>5 DEF PassedInv
<1> QED BY <1>1, <1>2, <1>3, <1>4, <1>5 DEF Next

(***************************************************************************)
(* No accepted configuration outside SkipsRows passes over a row: what the *)
(* window of the next run (compute_window, build_predicates) will not      *)
(* return, the target has, whatever the mode, the kind of mark, the bounds *)
(* and the overlap, and however many rows share the stamp of the boundary  *)
(* and arrive after it was read.                                           *)
(***************************************************************************)
THEOREM NoRowIsPassedOver == Spec => []NothingIsPassedOver
<1>1. Init => PassedInv
  BY DEF Init, PassedInv, Behind
<1>2. RunInv /\ PassedInv => NothingIsPassedOver
  <2> SUFFICES ASSUME RunInv, PassedInv, stored # NoValue, ~SkipsRows(cfg),
                      NEW r \in source
               PROVE  InBounds(NextQuery, r.at) \/ target[r] > 0
    BY DEF NothingIsPassedOver
  <2>1. r \in Row
    BY DEF RunInv, StateInv
  <2>2. InBounds(NextQuery, r.at) <=> ~Behind(stored, r)
    BY <2>1, NextQueryReturns
  <2> QED BY <2>2 DEF PassedInv
<1> QED BY <1>1, <1>2, RunInit, RunStep, PassedStep, PTL DEF Spec

\* What a run reads lies behind the mark it will leave, unless the
\* configuration reads rows again.
LEMMA ReadRowsFallBehind ==
  ASSUME RunInv, pc = "load", ~ReadsAgain(cfg),
         NEW rows \in Answers(query), NEW r \in rows
  PROVE  ~Behind(stored, r) /\ Behind(newMark, r)
<1>1. Valid(cfg) /\ cfg \in Config
  BY DEF RunInv, StateInv, Valid
<1>2. r \in source /\ r.at \in Int
  BY AnswersAreRows, OptionsAssumption DEF Row
<1>3. ~Behind(stored, r) /\ (~Pinned(cfg) \/ ~UsesUpper(cfg) \/ r.at < upper.at)
  BY <1>2, RowsRead
<1>4. cfg.mode \in {"query", "incremental"}
  BY <1>1 DEF ReadsAgain, Config
<1>5. OverlapOf(cfg) = 0
  <2>1. CASE cfg.mode = "query"
    <3>1. cfg.overlap = 0
      BY <1>1, <2>1, ValidFacts DEF IsIncremental
    <3> QED BY <3>1 DEF OverlapOf
  <2>2. CASE cfg.mode = "incremental"
    BY <2>2 DEF ReadsAgain
  <2> QED BY <1>4, <2>1, <2>2
<1>6. UsesLower(cfg) /\ UsesUpper(cfg)
  BY <1>4 DEF ReadsAgain, UsesLower, UsesUpper, IsIncremental
<1>7. Pinned(cfg)
  <2>1. CASE cfg.mode = "query"
    <3>1. QueryError(cfg, BoundUsed, upper) = "none" /\ (upper # NoValue <=> Pinned(cfg))
      BY DEF RunInv, QueryInv
    <3>2. Unresolved(cfg, BoundUsed, upper) = {}
      BY <1>1, <2>1, <3>1, QueryErrorFacts
    <3> QED BY <1>6, <2>1, <3>1, <3>2 DEF Unresolved, UsesUpper
  <2>2. CASE cfg.mode = "incremental"
    BY <2>2 DEF ReadsAgain
  <2> QED BY <1>4, <2>1, <2>2
<1>8. newMark = upper /\ upper # NoValue /\ upper.at \in Int
  BY <1>7 DEF RunInv, ProbeInv, QueryInv, IsMark
<1>9. Before(cfg, newMark.at - OverlapOf(cfg), r.at)
  BY <1>2, <1>3, <1>5, <1>6, <1>7, <1>8 DEF Before
<1> QED BY <1>3, <1>8, <1>9 DEF Behind

LEMMA CopiesStep == RunInv /\ CopiesInv /\ [Next]_vars => CopiesInv'
<1> SUFFICES ASSUME RunInv, CopiesInv, [Next]_vars PROVE CopiesInv'
  OBVIOUS
<1>1. cfg \in Config /\ target \in [Row -> Nat]
  BY DEF RunInv, StateInv
<1>2. CASE Validate \/ Window \/ BuildQuery \/ Probe
  <2>1. UNCHANGED <<cfg, stored, target>> /\ pc # "advance"
    BY <1>2 DEF Validate, Window, BuildQuery, Probe
  <2> QED BY <2>1 DEF CopiesInv, Behind
<1>3. CASE Tick \/ (\E id \in 1..MaxTies : Arrive(id)) \/ UNCHANGED vars
  <2>1. UNCHANGED <<cfg, pc, stored, newMark, target>>
    BY <1>3 DEF Tick, Arrive, vars
  <2> QED BY <2>1 DEF CopiesInv, Behind
<1>4. CASE Load
  <2>1. pc = "load" /\ UNCHANGED <<cfg, stored, newMark>>
    BY <1>4 DEF Load
  <2>2. CASE target' = target
    BY <2>1, <2>2 DEF CopiesInv, Behind
  <2>3. CASE target' # target
    <3>1. /\ pc' = "advance"
          /\ \E rows \in Answers(query) : target' = Written(cfg, rows)
      BY <1>4, <2>3 DEF Load
    <3>2. PICK rows \in Answers(query) : target' = Written(cfg, rows)
      BY <3>1
    <3>3. cfg.write_mode # "append" => \A r \in Row : target'[r] <= 1
      BY <1>1, <3>2 DEF Written, CopiesInv
    <3>4. ASSUME cfg.write_mode = "append", ~ReadsAgain(cfg), NEW r \in Row
          PROVE  /\ target'[r] <= 1
                 /\ target'[r] > 0 => Behind(stored, r) \/ Behind(newMark, r)
      <4>1. /\ target[r] \in Nat /\ target[r] <= 1
            /\ target[r] > 0 => Behind(stored, r)
        BY <1>1, <2>1, <3>4 DEF CopiesInv
      <4>2. target'[r] = target[r] + (IF r \in rows THEN 1 ELSE 0)
        BY <3>2, <3>4 DEF Written
      <4>3. CASE r \in rows
        <5>1. ~Behind(stored, r) /\ Behind(newMark, r)
          BY <2>1, <3>4, <4>3, ReadRowsFallBehind
        <5> QED BY <4>1, <4>2, <4>3, <5>1
      <4>4. CASE r \notin rows
        BY <4>1, <4>2, <4>4
      <4> QED BY <4>3, <4>4
    <3> QED BY <2>1, <3>1, <3>3, <3>4 DEF CopiesInv, Behind
  <2> QED BY <2>2, <2>3
<1>5. CASE Advance
  <2>1. UNCHANGED <<cfg, target>> /\ pc = "advance" /\ pc' = "idle"
    BY <1>5 DEF Advance
  <2>2. ASSUME NEW r \in Row, Behind(stored, r) \/ Behind(newMark, r)
        PROVE  Behind(stored, r)'
    <3>1. r.at \in Int /\ OverlapOf(cfg) \in Int
      BY <1>1, OverlapFacts, OptionsAssumption DEF Row
    <3>2. /\ stored.at \in Int /\ stored'.at \in Int /\ newMark.at \in Int
          /\ stored # NoValue => stored' # NoValue /\ stored.at <= stored'.at
          /\ newMark # NoValue => stored' # NoValue /\ newMark.at <= stored'.at
      BY <1>5, AdvanceFacts
    <3>3. PICK m \in {stored, newMark} : Behind(m, r)
      BY <2>2
    <3>4. /\ m.at \in Int /\ stored' # NoValue /\ m.at <= stored'.at
          /\ Before(cfg, m.at - OverlapOf(cfg), r.at)
      BY <3>2, <3>3 DEF Behind
    <3>5. Before(cfg, stored'.at - OverlapOf(cfg), r.at)
      BY <3>1, <3>2, <3>4 DEF Before
    <3> QED BY <2>1, <3>4, <3>5 DEF Behind
  <2> QED BY <2>1, <2>2 DEF CopiesInv
<1> QED BY <1>2, <1>3, <1>4, <1>5 DEF Next

(***************************************************************************)
(* No run inserts a row that an earlier one has inserted, unless the       *)
(* configuration appends and is one of ReadsAgain: for the others, the     *)
(* lower bound of each query starts where the cut-off of the last one      *)
(* ended.                                                                  *)
(***************************************************************************)
THEOREM NoRowIsInsertedTwice == Spec => []NoCopies
<1>1. Init => CopiesInv
  BY DEF Init, CopiesInv
<1>2. CopiesInv => NoCopies
  BY DEF CopiesInv, NoCopies
<1> QED BY <1>1, <1>2, RunInit, RunStep, CopiesStep, PTL DEF Spec
=============================================================================
