---------------------------- MODULE MCProduction ----------------------------
(* Small instances of ProductionPlan: one clip and the pack made of it.     *)
EXTENDS ProductionPlan, TLC

CONSTANTS video, song, pack,  \* operations
          draft,              \* a model call of a stage handler
          job, workspace

Symmetry == Permutations(Workers)
Kinds == (video :> "nova_reel") @@ (song :> "elevenlabs") @@ (pack :> "internal")
MCKind == [o \in Ops |-> Kinds[o]]
\* The pack needs the rest.
MCDependsOn == [o \in Ops |-> IF o = pack THEN Ops \ {pack} ELSE {}]
MCPrice == [o \in Ops |-> 1]
MCSpends == {c \in [rev: 1..MaxRevision, op: Ops, run: {0}] : MCKind[c.op] # "internal"}
              \cup Calls
MCJobOf == [s \in MCSpends |-> job]
MCCost == [s \in MCSpends |-> 1]
\* Two spends of the workspace race for one when there is a single revision.
MCLimit == (job :> 2) @@ (workspace :> MaxRevision)
============================================================================
