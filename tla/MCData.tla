------------------------------- MODULE MCData -------------------------------
(* Small instances of DataPlane.                                            *)
EXTENDS DataPlane, TLC

Symmetry == Permutations(Items) \cup Permutations(Workers) \cup Permutations(Creates)
=============================================================================
