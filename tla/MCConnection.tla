---------------------------- MODULE MCConnection ----------------------------
(* Small instances of ConnectionRefresh.                                    *)
EXTENDS ConnectionRefresh, TLC

Symmetry == Permutations(Callers) \cup Permutations(Admins)
=============================================================================
