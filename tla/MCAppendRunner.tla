--------------------------- MODULE MCAppendRunner ---------------------------
(* AppendRunner on small instances.                                        *)
EXTENDS AppendRunner, TLC

AppendSymmetry == Permutations(Drivers) \cup Permutations(RunIds)
                    \cup Permutations(Keys)

\* The definition of a sum against that of the community modules.
ASSUME TotalIsSum == \A f \in [1..3 -> 0..3] :
                       Total(f) = MapThenSumSet(LAMBDA i : f[i], 1..3)
=============================================================================
