------------------------------ MODULE MCStaging ------------------------------
(* Module Staging for TLC.                                                 *)
EXTENDS Staging, TLC

\* Slots are interchangeable, and so are keys.
StagingSymmetry == Permutations(Slots) \cup Permutations(Keys)
=============================================================================
