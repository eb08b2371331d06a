------------------------------ MODULE Watermark ------------------------------
(***************************************************************************)
(* What the framework computes with watermark values: the window of the    *)
(* next extract (control/watermark.py), the guard of an advance, and the   *)
(* two predicates that bound the source query (engine/sql_builder.py).     *)
(* A value is an instant; the canonical string forms order the same way.   *)
(***************************************************************************)
EXTENDS Integers

CONSTANTS Overlap,             \* incremental.overlap
          LowerBoundDefault,   \* incremental.lower_bound_default
          BoundInclusive       \* lower_bound_is_inclusive(spec)

ASSUME WatermarkAssumption == /\ Overlap \in Nat
                              /\ LowerBoundDefault \in Nat
                              /\ BoundInclusive \in BOOLEAN

\* Python's None and SQL's NULL: no watermark is stored, no bound is known.
None == -1

\* MUTANT: the overlap is not subtracted from the stored mark.
ComputeWindowWithoutOverlap(stored) ==
  IF stored = None THEN LowerBoundDefault ELSE stored

\* The lower bound of the next extract, given the stored watermark.
ComputeWindow(stored) ==
  IF stored = None THEN LowerBoundDefault ELSE stored - Overlap

\* MUTANT: the MERGE updates the stored mark whatever its value.
AdvanceGuardDropped(old, new) == TRUE

\* WHEN MATCHED AND (t.watermark_value IS NULL OR new > old).
AdvanceGuard(old, new) == old = None \/ new > old

\* MUTANT: the bound is exclusive whatever bound_inclusive says.
AtOrAfterExclusive(wm, lower) == wm > lower

\* The lower bound predicate: column >= lower, or column > lower.
AtOrAfter(wm, lower) == IF BoundInclusive THEN wm >= lower ELSE wm > lower

\* The upper bound predicate, present only when a cut-off was pinned.
BeforeCut(wm, upper) == upper = None \/ wm < upper
=============================================================================
