-------------------------------- MODULE MCGate -------------------------------
(* Small instances of DraftGate.                                            *)
EXTENDS DraftGate, TLC

CONSTANTS first, revised

\* A first pass and a revision pass.
Revision == [r \in Results |-> IF r = revised THEN 2 ELSE 1]

\* Every platform has a connection, or none.
Sets == {{}, Gated}

Symmetry == Permutations(Gated) \cup Permutations(Runs) \cup Permutations(Operators)
=============================================================================
