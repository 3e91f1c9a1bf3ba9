------------------------------ MODULE MCDynamo ------------------------------
(* Two records in two partitions, or in one, and three transactions.        *)
EXTENDS DynamoTransaction, TLC

CONSTANTS a, b, one

Symmetry == Permutations(Txs)
MCPartOf == [k \in Keys |-> one]
P(reads, queries, write, large) ==
  [reads |-> reads, queries |-> queries, large |-> large,
   writes |-> [k \in Keys |-> IF k \in DOMAIN write THEN write[k] ELSE "none"]]
\* Insert, large or small; change what was read; remove; write by a query.
MCPlans ==
  {P({}, {}, a :> "insert", TRUE), P({a}, {}, a :> "put", FALSE),
   P({a}, {}, b :> "put", FALSE), P({}, {}, a :> "remove", FALSE),
   P({}, {one}, b :> "insert", FALSE), P({b}, {one}, a :> "patch", TRUE),
   P({a}, {}, <<>>, FALSE)}
=============================================================================
