----------------------------- MODULE MCAuditLog -----------------------------
(* Module AuditLog for TLC.                                                *)
EXTENDS AuditLog, TLC

AuditSymmetry == Permutations(Threads) \cup Permutations(Tables)
=============================================================================
