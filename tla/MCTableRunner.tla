---------------------------- MODULE MCTableRunner ----------------------------
(* TableRunner on small instances.                                         *)
EXTENDS TableRunner, TLC

\* Drivers are interchangeable.
DriverSymmetry == Permutations(Drivers)
=============================================================================
