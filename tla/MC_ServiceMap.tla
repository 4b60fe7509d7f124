--------------------------- MODULE MC_ServiceMap ---------------------------
(* Instances of ServiceMap for TLC.                                        *)
EXTENDS ServiceMap, TLC

Symmetry == Permutations(Socks)
=============================================================================
