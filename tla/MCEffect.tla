------------------------------ MODULE MCEffect ------------------------------
(* Small instances of EffectCommand.                                        *)
EXTENDS EffectCommand, TLC

CONSTANTS c1, c2

NoDeps == [c \in Commands |-> {}]
DueNow == [c \in Commands |-> 0]
\* c2 is a scheduled thread that depends on the post c1.
Chain == [c \in Commands |-> IF c = c2 THEN {c1} ELSE {}]
Scheduled == [c \in Commands |-> IF c = c2 THEN 1 ELSE 0]

WorkerSymmetry == Permutations(Workers)
============================================================================
