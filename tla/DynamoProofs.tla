----------------------------- MODULE DynamoProofs -----------------------------
(* Proofs, for any records, partitions, calls and plans, that a call takes    *)
(* effect at most once and on the state its work saw, and that the blob of a *)
(* record that can be read is in S3.                                         *)
EXTENDS DynamoTransaction, TLAPS

\* The transaction of a call that starts, or starts over, is well formed.
LEMMA FreshType == ASSUME NEW n \in 0..Attempts PROVE Fresh(n) \in Tx
<1>1. NoRow \in Row
  BY DEF NoRow, Row
<1>2. NoPlan \in Plan
  BY DEF NoPlan, Plan, Kinds
<1> QED BY <1>1, <1>2 DEF Fresh, Tx, Steps

\* The type invariant holds at first.
LEMMA InitType == Init => TypeOK
<1>1. NoRow \in Row
  BY DEF NoRow, Row
<1>2. Fresh(0) \in Tx
  BY FreshType, DynamoAssumption
<1> QED BY <1>1, <1>2 DEF Init, TypeOK

\* The record that a write leaves.
LEMMA BecomesFacts ==
  ASSUME TypeOK, NEW t \in Txs, NEW k \in Keys
  PROVE  /\ Becomes(t, k) \in Row
         /\ k \in Puts(t) =>
              /\ Becomes(t, k).present /\ Becomes(t, k).rev = tx[t].read[k].rev + 1
              /\ Becomes(t, k).by = t /\ Becomes(t, k).blob = tx[t].plan.large
              /\ Becomes(t, k).life = IF row[k].present THEN row[k].life ELSE row[k].life + 1
         /\ tx[t].plan.writes[k] = "remove" =>
              /\ ~Becomes(t, k).present /\ Becomes(t, k).rev = 0
              /\ Becomes(t, k).by = None /\ ~Becomes(t, k).blob
              /\ Becomes(t, k).life = IF row[k].present THEN row[k].life + 1 ELSE row[k].life
         /\ tx[t].plan.writes[k] = "none" => Becomes(t, k) = row[k]
         /\ tx[t].plan.writes[k] # "none" =>
              k \in Puts(t) \/ tx[t].plan.writes[k] = "remove"
<1>1. /\ row[k] \in Row /\ tx[t].read[k] \in Row /\ tx[t].plan \in Plan
      /\ tx[t].plan.writes[k] \in Kinds /\ tx[t].plan.large \in BOOLEAN
  BY DEF TypeOK, Tx, Plan
<1>2. /\ row[k].present \in BOOLEAN /\ row[k].life \in Nat /\ tx[t].read[k].rev \in Nat
  BY <1>1 DEF Row
<1>3. CASE k \in Puts(t)
  <2>1. Becomes(t, k) =
         [present |-> TRUE, rev |-> tx[t].read[k].rev + 1, by |-> t, blob |-> tx[t].plan.large,
          life |-> IF row[k].present THEN row[k].life ELSE row[k].life + 1]
    BY <1>3 DEF Becomes, Puts
  <2>2. tx[t].plan.writes[k] # "remove" /\ tx[t].plan.writes[k] # "none"
    BY <1>3 DEF Puts
  <2>3. Becomes(t, k) \in Row
    BY <2>1, <1>1, <1>2 DEF Row
  <2> QED BY <1>3, <2>1, <2>2, <2>3
<1>4. CASE tx[t].plan.writes[k] = "remove"
  <2>1. k \notin Puts(t)
    BY <1>4 DEF Puts
  <2>2. Becomes(t, k) =
         [present |-> FALSE, rev |-> 0, by |-> None, blob |-> FALSE,
          life |-> IF row[k].present THEN row[k].life + 1 ELSE row[k].life]
    BY <1>4, <2>1 DEF Becomes
  <2>3. Becomes(t, k) \in Row
    BY <2>2, <1>1, <1>2 DEF Row
  <2> QED BY <1>4, <2>1, <2>2, <2>3
<1>5. CASE tx[t].plan.writes[k] = "none"
  <2>1. k \notin Puts(t)
    BY <1>5 DEF Puts
  <2>2. Becomes(t, k) = row[k]
    BY <1>5, <2>1 DEF Becomes
  <2> QED BY <1>1, <1>5, <2>1, <2>2
<1>6. tx[t].plan.writes[k] \in {"put", "patch", "insert"} => k \in Puts(t)
  BY DEF Puts
<1> QED BY <1>1, <1>3, <1>4, <1>5, <1>6 DEF Kinds

\* Only the call that takes a step changes, and keeps its type.
LEMMA CallType ==
  ASSUME TypeOK, NEW t \in Txs,
         Begin(t) \/ Prepare(t) \/ Upload(t) \/ Commit(t) \/ CommitLost(t) \/ Cancel(t)
           \/ (\E k \in Keys : Read(t, k) \/ Scan(t, k)) \/ (\E p \in Parts : TakeFence(t, p))
  PROVE  tx' \in [Txs -> Tx] /\ \A u \in Txs \ {t} : tx'[u] = tx[u]
<1>0. tx \in [Txs -> Tx] /\ tx[t] \in Tx /\ tx[t].attempt \in 0..Attempts /\ Attempts \in Nat
      /\ row \in [Keys -> Row] /\ fence \in [Parts -> Nat]
  BY DynamoAssumption DEF TypeOK, Tx
<1>s. ASSUME NEW s \in Tx, tx' = [tx EXCEPT ![t] = s]
      PROVE  tx' \in [Txs -> Tx] /\ \A u \in Txs \ {t} : tx'[u] = tx[u]
  BY <1>s, <1>0
<1>e. ASSUME NEW how \in Steps, Ends(t, how)
      PROVE  tx' \in [Txs -> Tx] /\ \A u \in Txs \ {t} : tx'[u] = tx[u]
  BY <1>e, <1>0 DEF Ends, Tx
<1>1. CASE Begin(t)
  <2>1. PICK p \in Plans : tx' = [tx EXCEPT ![t].pc = "work", ![t].plan = p]
    BY <1>1 DEF Begin
  <2>2. p \in Plan
    BY DynamoAssumption
  <2> QED BY <2>1, <2>2, <1>0 DEF Tx, Steps
<1>2. CASE Prepare(t)
  BY <1>2, <1>e DEF Prepare, Steps
<1>3. CASE Upload(t) \/ Commit(t) \/ CommitLost(t)
  BY <1>3, <1>e DEF Upload, Commit, CommitLost, Steps
<1>4. CASE Cancel(t)
  <2>1. tx[t].attempt + 1 < Attempts => Fresh(tx[t].attempt + 1) \in Tx
    BY <1>0, FreshType
  <2> QED BY <1>4, <2>1, <1>s, <1>e, <1>0 DEF Cancel, Steps
<1>5. ASSUME NEW k \in Keys, Read(t, k)
      PROVE  tx' \in [Txs -> Tx] /\ \A u \in Txs \ {t} : tx'[u] = tx[u]
  BY <1>5, <1>0 DEF Read, Tx
<1>6. ASSUME NEW k \in Keys, Scan(t, k)
      PROVE  tx' \in [Txs -> Tx] /\ \A u \in Txs \ {t} : tx'[u] = tx[u]
  BY <1>6, <1>0 DEF Scan, Tx
<1>7. ASSUME NEW p \in Parts, TakeFence(t, p)
      PROVE  tx' \in [Txs -> Tx] /\ \A u \in Txs \ {t} : tx'[u] = tx[u]
  BY <1>7, <1>0 DEF TakeFence, Tx
<1> QED BY <1>1, <1>2, <1>3, <1>4, <1>5, <1>6, <1>7

\* The steps of call t.
CallStep(t) ==
  \/ Begin(t) \/ Prepare(t) \/ Upload(t) \/ Commit(t) \/ CommitLost(t) \/ Cancel(t)
  \/ (\E k \in Keys : Read(t, k) \/ Scan(t, k))
  \/ (\E p \in Parts : TakeFence(t, p))

\* No step leaves the types.
LEMMA NextType == ASSUME TypeOK, [Next]_vars PROVE TypeOK'
<1>1. ASSUME NEW t \in Txs, CallStep(t) PROVE TypeOK'
  <2>1. tx' \in [Txs -> Tx]
    BY <1>1, CallType DEF CallStep
  <2>2. CASE Commit(t)
    <3>1. row' \in [Keys -> Row]
      BY <2>2, BecomesFacts DEF Commit, TakesEffect
    <3>2. fence' \in [Parts -> Nat]
      BY <2>2 DEF Commit, TakesEffect, TypeOK
    <3>3. tomb' \in [Keys -> {"absent", "pending", "completed"}]
      BY <2>2 DEF Commit, TakesEffect, TypeOK
    <3>4. applied' \in [Txs -> Nat] /\ stored' = stored
      BY <2>2 DEF Commit, TakesEffect, TypeOK
    <3> QED BY <2>1, <3>1, <3>2, <3>3, <3>4 DEF TypeOK
  <2>3. CASE Upload(t)
    <3>1. stored' \in [Keys -> SUBSET Txs]
      BY <2>3 DEF Upload, TypeOK
    <3> QED BY <2>1, <2>3, <3>1 DEF Upload, TypeOK
  <2>4. CASE UNCHANGED <<row, fence, stored, tomb, applied>>
    BY <2>1, <2>4 DEF TypeOK
  <2> QED BY <1>1, <2>2, <2>3, <2>4
          DEF CallStep, Begin, Prepare, CommitLost, Cancel, Read, Scan, TakeFence
<1>2. ASSUME NEW k \in Keys, Erase(k) PROVE TypeOK'
  BY <1>2 DEF Erase, TypeOK
<1>3. CASE UNCHANGED vars
  BY <1>3 DEF vars, TypeOK
<1> QED BY <1>1, <1>2, <1>3 DEF Next, CallStep

\* Every variable keeps its type.
THEOREM TypeCorrect == Spec => []TypeOK
  BY InitType, NextType, PTL DEF Spec

----------------------------------------------------------------------------
(* The invariant.                                                           *)

\* What is known of the calls, the records and the constants.
LEMMA Facts ==
  ASSUME TypeOK
  PROVE  /\ \A k \in Keys : PartOf[k] \in Parts
         /\ \A p \in Parts : fence[p] \in Nat
         /\ \A t \in Txs : applied[t] \in Nat
         /\ \A k \in Keys : /\ row[k] \in Row /\ row[k].rev \in Nat /\ row[k].life \in Nat
                            /\ row[k].present \in BOOLEAN /\ row[k].blob \in BOOLEAN
         /\ \A t \in Txs : /\ tx[t] \in Tx
                           /\ tx[t].seen \subseteq Keys /\ tx[t].scanned \subseteq Keys
                           /\ tx[t].fenced \subseteq Parts /\ tx[t].pc \in Steps
                           /\ \A p \in Parts : tx[t].at[p] \in Nat
                           /\ \A k \in Keys : /\ tx[t].read[k] \in Row
                                              /\ tx[t].read[k].rev \in Nat
                                              /\ tx[t].read[k].life \in Nat
         /\ \A k \in Keys : tomb[k] \in {"absent", "pending", "completed"}
<1>1. \A k \in Keys : PartOf[k] \in Parts
  BY DynamoAssumption
<1>2. \A t \in Txs : tx[t] \in Tx
  BY DEF TypeOK
<1>3. ASSUME NEW t \in Txs
      PROVE  /\ tx[t].seen \subseteq Keys /\ tx[t].scanned \subseteq Keys
             /\ tx[t].fenced \subseteq Parts /\ tx[t].pc \in Steps
             /\ \A p \in Parts : tx[t].at[p] \in Nat
             /\ \A k \in Keys : /\ tx[t].read[k] \in Row
                                /\ tx[t].read[k].rev \in Nat /\ tx[t].read[k].life \in Nat
  BY <1>2 DEF Tx, Row
<1>4. \A k \in Keys : row[k] \in Row
  BY DEF TypeOK
<1>5. \A k \in Keys : /\ row[k].rev \in Nat /\ row[k].life \in Nat
                     /\ row[k].present \in BOOLEAN /\ row[k].blob \in BOOLEAN
  BY <1>4 DEF Row
<1> QED BY <1>1, <1>2, <1>3, <1>4, <1>5 DEF TypeOK

\* A call that does not move keeps what is known of it while the store stands.
LEMMA CallFrame ==
  ASSUME NEW t \in Txs, CallSound(t), tx'[t] = tx[t],
         UNCHANGED <<row, fence, tomb, applied>>, \A k \in Keys : stored[k] \subseteq stored'[k]
  PROVE  CallSound(t)'
  BY DEF CallSound, Behind, Prepared, WorkDone, Queried, Written, WrittenParts, Puts

\* A step of a call that does not touch the store keeps the invariant, if it is
\* sound for the call itself.
LEMMA QuietStep ==
  ASSUME TypeOK, DynamoInv, NEW t \in Txs, CallSound(t)',
         UNCHANGED <<row, fence, stored, tomb, applied>>,
         \A u \in Txs \ {t} : tx'[u] = tx[u]
  PROVE  DynamoInv'
<1>1. ASSUME NEW u \in Txs PROVE CallSound(u)'
  BY <1>1, CallFrame DEF DynamoInv
<1>2. ASSUME NEW k \in Keys PROVE RecordSound(k)'
  BY DEF DynamoInv, RecordSound
<1> QED BY <1>1, <1>2 DEF DynamoInv

\* A call that is not over has had no effect.
LEMMA NoEffectYet ==
  ASSUME TypeOK, NEW t \in Txs, CallSound(t), tx[t].pc = "commit" PROVE applied[t] = 0
<1>1. applied[t] \in Nat
  BY DEF TypeOK
<1>2. applied[t] <= 1 /\ applied[t] # 1
  BY DEF CallSound
<1> QED BY <1>1, <1>2

\* The reads of the work, and a retry that starts over.
LEMMA WorkKeeps ==
  ASSUME TypeOK, DynamoInv, NEW t \in Txs,
         Begin(t) \/ Cancel(t) \/ (\E k \in Keys : Read(t, k) \/ Scan(t, k))
           \/ (\E p \in Parts : TakeFence(t, p))
  PROVE  DynamoInv'
<1>0. /\ tx \in [Txs -> Tx] /\ tx[t] \in Tx /\ CallSound(t)
      /\ tx[t].read \in [Keys -> Row] /\ tx[t].at \in [Parts -> Nat] /\ tx[t].page \in [Keys -> Row]
      /\ fence \in [Parts -> Nat] /\ row \in [Keys -> Row]
  BY DEF TypeOK, DynamoInv, Tx
<1>u. \A u \in Txs \ {t} : tx'[u] = tx[u]
  BY CallType
<1>k. UNCHANGED <<row, fence, stored, tomb, applied>>
  BY DEF Begin, Cancel, Read, Scan, TakeFence
<1>1. CASE Begin(t)
  <2>1. PICK p \in Plans : tx' = [tx EXCEPT ![t].pc = "work", ![t].plan = p]
    BY <1>1 DEF Begin
  <2>2. /\ tx'[t].pc = "work" /\ tx'[t].seen = tx[t].seen /\ tx'[t].read = tx[t].read
        /\ tx'[t].fenced = tx[t].fenced /\ tx'[t].at = tx[t].at
        /\ tx'[t].scanned = tx[t].scanned /\ tx'[t].page = tx[t].page /\ tx[t].pc = "idle"
    BY <1>1, <2>1, <1>0 DEF Begin, Tx
  <2>3. CallSound(t)'
    BY <2>2, <1>0, <1>k, Facts DEF CallSound, Behind
  <2> QED BY <2>3, <1>u, <1>k, QuietStep
<1>2. CASE Cancel(t)
  <2>1. \/ tx'[t] = Fresh(tx[t].attempt + 1)
        \/ tx'[t] = [tx[t] EXCEPT !.pc = "failed"]
    BY <1>2, <1>0 DEF Cancel, Ends
  <2>2. CASE tx'[t] = Fresh(tx[t].attempt + 1)
    <3>1. /\ tx'[t].pc = "idle" /\ tx'[t].seen = {} /\ tx'[t].fenced = {} /\ tx'[t].scanned = {}
      BY <2>2 DEF Fresh
    <3>2. applied'[t] = 0
      BY <1>2, <1>0, <1>k, NoEffectYet DEF Cancel
    <3>3. CallSound(t)'
      BY <3>1, <3>2, <1>k DEF CallSound, Puts
    <3> QED BY <3>3, <1>u, <1>k, QuietStep
  <2>3. CASE tx'[t] = [tx[t] EXCEPT !.pc = "failed"]
    <3>1. /\ tx'[t].pc = "failed" /\ tx'[t].seen = tx[t].seen /\ tx'[t].read = tx[t].read
          /\ tx'[t].fenced = tx[t].fenced /\ tx'[t].at = tx[t].at
          /\ tx'[t].scanned = tx[t].scanned /\ tx'[t].page = tx[t].page
          /\ tx[t].pc = "commit"
      BY <1>2, <2>3, <1>0 DEF Tx, Cancel
    <3>2. CallSound(t)'
      BY <3>1, <1>0, <1>k, Facts DEF CallSound, Behind
    <3> QED BY <3>2, <1>u, <1>k, QuietStep
  <2> QED BY <2>1, <2>2, <2>3
<1>3. ASSUME NEW k \in Keys, Read(t, k) PROVE DynamoInv'
  <2>1. /\ tx'[t].pc = "work" /\ tx'[t].seen = tx[t].seen \cup {k} /\ k \notin tx[t].seen
        /\ tx'[t].read = [tx[t].read EXCEPT ![k] = row[k]]
        /\ tx'[t].fenced = tx[t].fenced /\ tx'[t].at = tx[t].at /\ tx[t].pc = "work"
        /\ tx'[t].scanned = tx[t].scanned /\ tx'[t].page = tx[t].page
    BY <1>3, <1>0 DEF Read, Tx
  <2>2. \A j \in tx'[t].seen : Behind(tx'[t].read[j], j)
    BY <2>1, <1>0, Facts DEF CallSound, Behind
  <2>3. CallSound(t)'
    BY <2>1, <2>2, <1>0, <1>k, Facts DEF CallSound, Behind
  <2> QED BY <2>3, <1>u, <1>k, QuietStep
<1>4. ASSUME NEW k \in Keys, Scan(t, k) PROVE DynamoInv'
  <2>1. /\ tx'[t].pc = "work" /\ tx'[t].scanned = tx[t].scanned \cup {k}
        /\ k \notin tx[t].scanned /\ PartOf[k] \in tx[t].fenced
        /\ tx'[t].page = [tx[t].page EXCEPT ![k] = row[k]] /\ tx[t].pc = "work"
        /\ tx'[t].fenced = tx[t].fenced /\ tx'[t].at = tx[t].at
        /\ tx'[t].seen = tx[t].seen /\ tx'[t].read = tx[t].read
    BY <1>4, <1>0 DEF Scan, Tx
  <2>2. \A j \in tx'[t].scanned :
          /\ PartOf[j] \in tx'[t].fenced
          /\ fence[PartOf[j]] = tx'[t].at[PartOf[j]] => tx'[t].page[j] = row[j]
    BY <2>1, <1>0, Facts DEF CallSound
  <2>3. CallSound(t)'
    BY <2>1, <2>2, <1>0, <1>k, Facts DEF CallSound, Behind
  <2> QED BY <2>3, <1>u, <1>k, QuietStep
<1>5. ASSUME NEW p \in Parts, TakeFence(t, p) PROVE DynamoInv'
  <2>1. /\ tx'[t].pc = "work" /\ tx'[t].fenced = tx[t].fenced \cup {p} /\ p \notin tx[t].fenced
        /\ tx'[t].at = [tx[t].at EXCEPT ![p] = fence[p]] /\ tx[t].pc = "work"
        /\ tx'[t].scanned = tx[t].scanned /\ tx'[t].page = tx[t].page
        /\ tx'[t].seen = tx[t].seen /\ tx'[t].read = tx[t].read
    BY <1>5, <1>0 DEF TakeFence, Tx
  <2>2. \A q \in tx'[t].fenced : tx'[t].at[q] <= fence[q]
    BY <2>1, <1>0, Facts DEF CallSound
  <2>3. \A j \in tx'[t].scanned :
          /\ PartOf[j] \in tx'[t].fenced
          /\ fence[PartOf[j]] = tx'[t].at[PartOf[j]] => tx'[t].page[j] = row[j]
    BY <2>1, <1>0, Facts DEF CallSound
  <2>4. CallSound(t)'
    BY <2>1, <2>2, <2>3, <1>0, <1>k, Facts DEF CallSound, Behind
  <2> QED BY <2>4, <1>u, <1>k, QuietStep
<1> QED BY <1>1, <1>2, <1>3, <1>4, <1>5

\* Preparing, sending and losing a commit.
LEMMA SendKeeps ==
  ASSUME TypeOK, DynamoInv, NEW t \in Txs, Prepare(t) \/ Upload(t) \/ CommitLost(t)
  PROVE  DynamoInv'
<1>0. /\ tx \in [Txs -> Tx] /\ tx[t] \in Tx /\ CallSound(t)
      /\ stored \in [Keys -> SUBSET Txs]
  BY DEF TypeOK, DynamoInv
<1>u. \A u \in Txs \ {t} : tx'[u] = tx[u]
  BY CallType
<1>e. ASSUME NEW how, Ends(t, how)
      PROVE  /\ tx'[t].pc = how /\ tx'[t].seen = tx[t].seen /\ tx'[t].read = tx[t].read
             /\ tx'[t].fenced = tx[t].fenced /\ tx'[t].at = tx[t].at
             /\ tx'[t].scanned = tx[t].scanned /\ tx'[t].page = tx[t].page
             /\ tx'[t].plan = tx[t].plan
  BY <1>e, <1>0 DEF Ends, Tx
<1>p. ASSUME NEW how, Ends(t, how) PROVE Prepared(t)' = Prepared(t) /\ Puts(t)' = Puts(t)
  BY <1>e, <1>p DEF Prepared, WorkDone, Queried, Written, WrittenParts, Puts
<1>1. CASE Prepare(t)
  <2>1. UNCHANGED <<row, fence, stored, tomb, applied>> /\ tx[t].pc = "work"
    BY <1>1 DEF Prepare
  <2>2. PICK how : Ends(t, how) /\ (how \in {"upload", "commit"} => Prepared(t))
                   /\ (how = "commit" => ~tx[t].plan.large)
    BY <1>1 DEF Prepare
  <2>3. CallSound(t)'
    BY <2>1, <2>2, <1>e, <1>p, <1>0, Facts DEF CallSound, Behind
  <2> QED BY <2>1, <2>3, <1>u, QuietStep
<1>2. CASE CommitLost(t)
  <2>1. UNCHANGED <<row, fence, stored, tomb, applied>> /\ Ends(t, "unknown")
    BY <1>2 DEF CommitLost
  <2>2. CallSound(t)'
    BY <2>1, <1>e, <1>0 DEF CallSound, Behind
  <2> QED BY <2>1, <2>2, <1>u, QuietStep
<1>3. CASE Upload(t)
  <2>1. /\ UNCHANGED <<row, fence, tomb, applied>> /\ Ends(t, "commit") /\ tx[t].pc = "upload"
        /\ \A k \in Keys : /\ stored[k] \subseteq stored'[k]
                           /\ k \in Puts(t) => t \in stored'[k]
    BY <1>3 DEF Upload
  <2>2. Puts(t) \subseteq Keys
    BY DEF Puts
  <2>3. CallSound(t)'
    BY <2>1, <2>2, <1>e, <1>p, <1>0 DEF CallSound, Behind
  <2>4. ASSUME NEW u \in Txs PROVE CallSound(u)'
    BY <2>1, <2>3, <1>u, CallFrame DEF DynamoInv
  <2>5. ASSUME NEW k \in Keys PROVE RecordSound(k)'
    BY <2>1 DEF DynamoInv, RecordSound
  <2> QED BY <2>4, <2>5 DEF DynamoInv
<1> QED BY <1>1, <1>2, <1>3

\* A record read before stays behind the record that a commit leaves.
LEMMA StaysBehind ==
  ASSUME TypeOK, DynamoInv, NEW t \in Txs, Commit(t), NEW r \in Row, NEW k \in Keys, Behind(r, k)
  PROVE  Behind(r, k)'
<1>0. /\ row'[k] = Becomes(t, k) /\ row[k] \in Row /\ r.life \in Nat /\ r.rev \in Nat
      /\ row[k].life \in Nat /\ row[k].rev \in Nat /\ ConditionsHold(t) /\ CallSound(t)
      /\ row[k].present \in BOOLEAN /\ Written(t) \subseteq tx[t].seen /\ RecordSound(k)
  BY Facts DEF Commit, TakesEffect, Row, DynamoInv, CallSound, Prepared
<1>1. CASE k \in Puts(t)
  <2>1. k \in tx[t].seen
    BY <1>1, <1>0 DEF Written, Puts
  <2>2. row'[k].rev = row[k].rev + 1
    BY <1>0, <1>1, <2>1, BecomesFacts DEF ConditionsHold
  <2>3. row'[k].life = IF row[k].present THEN row[k].life ELSE row[k].life + 1
    BY <1>0, <1>1, BecomesFacts
  <2> QED BY <1>0, <2>2, <2>3 DEF Behind
<1>2. CASE tx[t].plan.writes[k] = "remove"
  <2>1. /\ ~row'[k].present /\ row'[k].rev = 0 /\ row'[k].by = None /\ ~row'[k].blob
        /\ row'[k].life = IF row[k].present THEN row[k].life + 1 ELSE row[k].life
        /\ row'[k] \in Row
    BY <1>0, <1>2, BecomesFacts
  <2>2. CASE row[k].present
    BY <1>0, <2>1, <2>2 DEF Behind
  <2>3. CASE ~row[k].present
    <3>1. row[k].rev = 0 /\ row[k].by = None /\ ~row[k].blob
      BY <1>0, <2>3 DEF RecordSound
    <3>2. row'[k] = row[k]
      BY <1>0, <2>1, <2>3, <3>1 DEF Row
    <3> QED BY <3>2 DEF Behind
  <2> QED BY <1>0, <2>2, <2>3
<1>3. CASE tx[t].plan.writes[k] = "none"
  <2>1. row'[k] = row[k]
    BY <1>0, <1>3, BecomesFacts
  <2> QED BY <2>1 DEF Behind
<1> QED BY <1>1, <1>2, <1>3, BecomesFacts

\* A commit that takes effect keeps the invariant.
LEMMA CommitKeeps == ASSUME TypeOK, DynamoInv, NEW t \in Txs, Commit(t) PROVE DynamoInv'
<1>0. /\ tx \in [Txs -> Tx] /\ tx[t] \in Tx /\ CallSound(t) /\ tx[t].pc = "commit"
      /\ ConditionsHold(t) /\ Prepared(t) /\ fence \in [Parts -> Nat]
      /\ tomb \in [Keys -> {"absent", "pending", "completed"}] /\ applied \in [Txs -> Nat]
      /\ stored' = stored /\ PartOf \in [Keys -> Parts]
  BY DynamoAssumption DEF TypeOK, DynamoInv, CallSound, Commit, TakesEffect
<1>1. /\ \A u \in Txs \ {t} : tx'[u] = tx[u] /\ applied'[u] = applied[u]
      /\ tx'[t].pc \in {"done", "unknown"} /\ tx'[t].plan = tx[t].plan
      /\ tx'[t].seen = tx[t].seen /\ tx'[t].read = tx[t].read
      /\ tx'[t].fenced = tx[t].fenced /\ tx'[t].at = tx[t].at
      /\ tx'[t].scanned = tx[t].scanned /\ tx'[t].page = tx[t].page
      /\ applied'[t] = applied[t] + 1
  BY <1>0 DEF Commit, TakesEffect, Ends, Tx
<1>2. applied'[t] = 1
  BY <1>0, <1>1, NoEffectYet
<1>3. /\ fence' \in [Parts -> Nat]
      /\ \A p \in Parts : fence[p] <= fence'[p]
      /\ \A p \in Parts : p \in tx[t].fenced => fence'[p] = fence[p] + 1
  BY <1>0 DEF Commit, TakesEffect
<1>4. ASSUME NEW k \in Keys, PartOf[k] \notin tx[t].fenced PROVE row'[k] = row[k]
  <2>1. tx[t].plan.writes[k] = "none"
    BY <1>0, <1>4 DEF Prepared, WrittenParts, Written
  <2> QED BY <2>1, <1>0, BecomesFacts DEF Commit, TakesEffect
<1>5. \A k \in Keys : tomb'[k] = "absent" => tomb[k] = "absent"
  BY DEF Commit, TakesEffect
<1>6. ASSUME NEW u \in Txs PROVE CallSound(u)'
  <2>1. /\ CallSound(u) /\ tx'[u].seen = tx[u].seen /\ tx'[u].read = tx[u].read
        /\ tx'[u].fenced = tx[u].fenced /\ tx'[u].at = tx[u].at
        /\ tx'[u].scanned = tx[u].scanned /\ tx'[u].page = tx[u].page
    BY <1>1 DEF DynamoInv
  <2>2. applied'[u] <= 1 /\ (applied'[u] = 1 => tx'[u].pc \in {"done", "unknown"})
    BY <1>1, <1>2, <2>1 DEF CallSound
  <2>3. \A k \in tx[u].seen : Behind(tx[u].read[k], k)'
    <3>1. ASSUME NEW k \in tx[u].seen PROVE Behind(tx[u].read[k], k)'
      <4>1. k \in Keys /\ tx[u].read[k] \in Row /\ Behind(tx[u].read[k], k)
        BY <3>1, <2>1, Facts DEF CallSound
      <4> DEFINE r == tx[u].read[k]
      <4>2. ASSUME NEW s \in Row, Behind(s, k) PROVE Behind(s, k)'
        BY <4>1, <4>2, StaysBehind
      <4>3. tx'[u].read[k] = r
        BY <2>1
      <4>4. /\ r.life <= row'[k].life
            /\ r.life = row'[k].life => r.rev <= row'[k].rev
            /\ r.life = row'[k].life /\ r.rev = row'[k].rev => r = row'[k]
        BY <4>1, <4>2 DEF Behind
      <4> QED BY <4>3, <4>4 DEF Behind
    <3> QED BY <3>1
  <2>4. \A p \in tx'[u].fenced : tx'[u].at[p] <= fence'[p]
    <3>1. ASSUME NEW p \in tx[u].fenced PROVE tx[u].at[p] <= fence'[p]
      <4>1. /\ p \in Parts /\ tx[u].at[p] \in Nat /\ fence[p] \in Nat /\ fence'[p] \in Nat
            /\ fence[p] <= fence'[p]
        <5>1. p \in Parts
          BY <3>1, Facts
        <5> QED BY <5>1, <1>3, Facts
      <4>2. tx[u].at[p] <= fence[p]
        BY <3>1, <2>1 DEF CallSound
      <4> QED BY <4>1, <4>2
    <3> QED BY <3>1, <2>1
  <2>5. \A k \in tx'[u].scanned :
          /\ PartOf[k] \in tx'[u].fenced
          /\ fence'[PartOf[k]] = tx'[u].at[PartOf[k]] => tx'[u].page[k] = row'[k]
    <3>1. ASSUME NEW k \in tx[u].scanned, fence'[PartOf[k]] = tx[u].at[PartOf[k]]
          PROVE  tx[u].page[k] = row'[k]
      <4>1. /\ k \in Keys /\ PartOf[k] \in Parts /\ PartOf[k] \in tx[u].fenced
            /\ tx[u].at[PartOf[k]] <= fence[PartOf[k]]
            /\ tx[u].at[PartOf[k]] \in Nat /\ fence[PartOf[k]] \in Nat
        BY <2>1, Facts DEF CallSound
      <4>2. PartOf[k] \notin tx[t].fenced /\ fence[PartOf[k]] = tx[u].at[PartOf[k]]
        <5>1. PICK p \in Parts : p = PartOf[k]
          BY <4>1
        <5>2. /\ fence'[p] \in Nat /\ fence[p] <= fence'[p]
              /\ p \in tx[t].fenced => fence'[p] = fence[p] + 1
          BY <1>3
        <5>3. PICK a \in Nat : a = tx[u].at[p] /\ a <= fence[p] /\ fence'[p] = a
          BY <4>1, <3>1, <5>1
        <5>4. fence[p] \in Nat
          BY <4>1, <5>1
        <5> QED BY <5>1, <5>2, <5>3, <5>4
      <4> QED BY <4>1, <4>2, <1>4, <2>1 DEF CallSound
    <3>2. \A k \in tx[u].scanned : PartOf[k] \in tx[u].fenced
      BY <2>1 DEF CallSound
    <3> QED BY <3>1, <3>2, <2>1
  <2>6. CASE u = t
    <3>1. tx'[u].pc \notin {"upload", "commit"}
      BY <1>1, <2>6
    <3> QED BY <2>1, <2>2, <2>3, <2>4, <2>5, <3>1 DEF CallSound
  <2>7. CASE u # t
    <3>1. tx'[u] = tx[u]
      BY <2>7, <1>1
    <3>2. Prepared(u)' = Prepared(u) /\ Puts(u)' = Puts(u) /\ Puts(u) \subseteq Keys
      BY <3>1 DEF Prepared, WorkDone, Queried, Written, WrittenParts, Puts
    <3>3. (tx[u].pc = "commit" /\ tx[u].plan.large =>
            \A k \in Puts(u) : tomb[k] = "absent" => u \in stored[k])'
      BY <2>1, <3>1, <3>2, <1>0, <1>5 DEF CallSound
    <3>4. (tx[u].pc \in {"upload", "commit"} => Prepared(u))'
      BY <2>1, <3>1, <3>2 DEF CallSound
    <3> QED BY <2>1, <2>2, <2>3, <2>4, <2>5, <3>3, <3>4 DEF CallSound
  <2> QED BY <2>6, <2>7
<1>7. ASSUME NEW k \in Keys PROVE RecordSound(k)'
  <2>0. /\ row'[k] = Becomes(t, k) /\ RecordSound(k)
        /\ tomb'[k] = IF tx[t].plan.writes[k] = "remove" /\ tx[t].read[k].blob
                        THEN "pending" ELSE tomb[k]
    BY DEF Commit, TakesEffect, DynamoInv
  <2>1. CASE k \in Puts(t)
    <3>1. /\ row'[k].present /\ row'[k].rev > 0 /\ row'[k].by = t
          /\ row'[k].blob = tx[t].plan.large /\ tomb'[k] = tomb[k]
      BY <2>0, <2>1, BecomesFacts, Facts DEF Puts
    <3>2. tx[t].plan.large => tomb[k] = "absent" /\ t \in stored[k]
      BY <2>1, <1>0 DEF ConditionsHold, Guarded, CallSound
    <3> QED BY <3>1, <3>2, <1>0 DEF RecordSound
  <2>2. CASE tx[t].plan.writes[k] = "remove"
    <3>1. /\ ~row'[k].present /\ row'[k].rev = 0 /\ row'[k].by = None /\ ~row'[k].blob
      BY <2>0, <2>2, BecomesFacts
    <3> QED BY <3>1 DEF RecordSound
  <2>3. CASE tx[t].plan.writes[k] = "none"
    <3>1. row'[k] = row[k] /\ tomb'[k] = tomb[k]
      BY <2>0, <2>3, BecomesFacts
    <3> QED BY <3>1, <2>0, <1>0 DEF RecordSound
  <2> QED BY <2>1, <2>2, <2>3, BecomesFacts
<1> QED BY <1>6, <1>7 DEF DynamoInv

\* An erasure keeps it: no record that can be read is up for one.
LEMMA EraseKeeps == ASSUME TypeOK, DynamoInv, NEW k \in Keys, Erase(k) PROVE DynamoInv'
<1>0. /\ UNCHANGED <<row, fence, tx, applied>> /\ tomb[k] = "pending"
      /\ tomb'[k] # "absent"
      /\ \A j \in Keys \ {k} : stored'[j] = stored[j] /\ tomb'[j] = tomb[j]
  BY DEF Erase, TypeOK
<1>1. ASSUME NEW u \in Txs PROVE CallSound(u)'
  <2>1. CallSound(u) /\ tx'[u] = tx[u]
    BY <1>0 DEF DynamoInv
  <2>2. Prepared(u)' = Prepared(u) /\ Puts(u)' = Puts(u) /\ Puts(u) \subseteq Keys
    BY <1>0 DEF Prepared, WorkDone, Queried, Written, WrittenParts, Puts
  <2>3. (tx[u].pc = "commit" /\ tx[u].plan.large =>
          \A j \in Puts(u) : tomb[j] = "absent" => u \in stored[j])'
    BY <2>1, <2>2, <1>0 DEF CallSound
  <2> QED BY <2>1, <2>2, <2>3, <1>0 DEF CallSound, Behind
<1>2. ASSUME NEW j \in Keys PROVE RecordSound(j)'
  BY <1>0 DEF DynamoInv, RecordSound
<1> QED BY <1>1, <1>2 DEF DynamoInv

\* No step of a call, and no erasure, breaks the invariant.
LEMMA InvInductive ==
  /\ Init => DynamoInv
  /\ TypeOK /\ DynamoInv /\ [Next]_vars => DynamoInv'
<1>1. ASSUME Init PROVE DynamoInv
  <2>1. \A t \in Txs : /\ tx[t].pc = "idle" /\ tx[t].seen = {} /\ tx[t].fenced = {}
                      /\ tx[t].scanned = {} /\ applied[t] = 0
    BY <1>1 DEF Init, Fresh
  <2>2. \A t \in Txs : CallSound(t)
    BY <2>1 DEF CallSound
  <2>3. \A k \in Keys : RecordSound(k)
    BY <1>1 DEF Init, RecordSound, NoRow
  <2> QED BY <2>2, <2>3 DEF DynamoInv
<1>2. ASSUME TypeOK, DynamoInv, [Next]_vars PROVE DynamoInv'
  <2>1. CASE UNCHANGED vars
    <3>1. \A t \in Txs : CallSound(t)'
      BY <1>2, <2>1, CallFrame DEF DynamoInv, vars
    <3>2. \A k \in Keys : RecordSound(k)'
      BY <1>2, <2>1 DEF DynamoInv, vars, RecordSound
    <3> QED BY <3>1, <3>2 DEF DynamoInv
  <2> QED BY <1>2, <2>1, WorkKeeps, SendKeeps, CommitKeeps, EraseKeeps DEF Next
<1> QED BY <1>1, <1>2

\* No call takes effect twice or after it gave up, and what it holds of the
\* store is what the invariant says.
THEOREM InvHolds == Spec => []DynamoInv
<1>1. TypeOK /\ DynamoInv /\ [Next]_vars => (TypeOK /\ DynamoInv)'
  BY NextType, InvInductive
<1>2. Init => TypeOK /\ DynamoInv
  BY InitType, InvInductive
<1> QED BY <1>1, <1>2, PTL DEF Spec

\* The blob of a record that can be read is in S3.
THEOREM BlobsAlwaysResolve == Spec => []BlobsResolve
<1>1. DynamoInv => BlobsResolve
  BY DEF DynamoInv, RecordSound, BlobsResolve
<1> QED BY <1>1, InvHolds, PTL

\* A commit takes effect on the state that its work saw.
THEOREM CommitsOnly == Spec => CommitsOnWhatItSaw
<1> DEFINE Saw(t) == /\ \A k \in Queried(t) : tx[t].page[k] = row[k]
                     /\ \A k \in tx[t].plan.reads :
                          row[k].life = tx[t].read[k].life => tx[t].read[k] = row[k]
<1>1. ASSUME TypeOK, DynamoInv, Next, NEW t \in Txs, applied'[t] # applied[t] PROVE Saw(t)
  <2>1. ASSUME NEW u \in Txs, Commit(u) PROVE u = t
    BY <1>1, <2>1 DEF Commit, TakesEffect, TypeOK
  <2>2. Commit(t)
    BY <1>1, <2>1 DEF Next, Begin, Prepare, Upload, CommitLost, Cancel, Read, Scan, TakeFence,
                      Erase
  <2>3. /\ ConditionsHold(t) /\ CallSound(t) /\ Prepared(t)
    BY <1>1, <2>2 DEF Commit, DynamoInv, CallSound
  <2>4. ASSUME NEW k \in Queried(t) PROVE tx[t].page[k] = row[k]
    <3>1. k \in tx[t].scanned
      BY <2>3 DEF Prepared, WorkDone
    <3> QED BY <3>1, <2>3 DEF CallSound, ConditionsHold
  <2>5. ASSUME NEW k \in tx[t].plan.reads, row[k].life = tx[t].read[k].life
        PROVE  tx[t].read[k] = row[k]
    <3>1. k \in tx[t].seen
      BY <2>3 DEF Prepared, WorkDone
    <3> QED BY <3>1, <2>3, <2>5 DEF CallSound, ConditionsHold, Behind
  <2> QED BY <2>4, <2>5
<1>2. TypeOK /\ DynamoInv /\ [Next]_vars =>
        [\A t \in Txs : applied'[t] # applied[t] => Saw(t)]_vars
  BY <1>1
<1> QED BY <1>2, TypeCorrect, InvHolds, PTL DEF CommitsOnWhatItSaw, Spec
=============================================================================
