-------------------------- MODULE DynamoTransaction --------------------------
(* The record repository every aggregate of the web tier commits through.   *)
(*                                                                          *)
(* A transaction reads records one by one and scans partitions, each read a *)
(* consistent read of its own; its writes are sent as one conditional       *)
(* TransactWrite.  A record carries a revision, which starts over when it is *)
(* inserted again after a removal; a partition carries a revision that      *)
(* every write and every scan of it raises.  A large value is kept as a blob *)
(* in S3, uploaded before the commit and erased after the record's removal.  *)
EXTENDS Integers, FiniteSets

CONSTANTS
  Keys,      \* the records
  Parts,     \* the partitions
  PartOf,    \* PartOf[k]: the partition of record k
  Txs,       \* the calls of atomic()
  Plans,     \* what the work of a call may read and write
  Attempts   \* how often atomic() tries: 5 in the code

Kinds == {"none", "put", "patch", "insert", "remove"}
Plan == [reads: SUBSET Keys, queries: SUBSET Parts, writes: [Keys -> Kinds], large: BOOLEAN]

ASSUME DynamoAssumption ==
  /\ PartOf \in [Keys -> Parts]
  /\ Plans \subseteq Plan
  /\ Attempts \in Nat \ {0}

VARIABLES
  row,      \* row[k]: the stored record
  fence,    \* fence[p]: the revision of partition p
  stored,   \* stored[k]: the calls whose value of k is a blob in S3
  tomb,     \* tomb[k]: the erasure record of the blobs of k
  tx,       \* tx[t]: the transaction of call t
  applied   \* applied[t]: how often the writes of call t took effect

vars == <<row, fence, stored, tomb, tx, applied>>

\* life counts the insertions and removals of the key; by: the call whose value
\* it is, none at first.
None == "none"
Row == [present: BOOLEAN, rev: Nat, life: Nat, by: Txs \cup {None}, blob: BOOLEAN]
Steps == {"idle", "work", "upload", "commit", "done", "failed", "unknown"}
\* seen, fenced, scanned: the records read, the fences taken, the records that
\* a query went over; read, at, page: what they showed.
Tx == [pc: Steps, attempt: 0..Attempts, plan: Plan,
       seen: SUBSET Keys, read: [Keys -> Row],
       fenced: SUBSET Parts, at: [Parts -> Nat],
       scanned: SUBSET Keys, page: [Keys -> Row]]

\* The type of every variable.
TypeOK ==
  /\ row \in [Keys -> Row]
  /\ fence \in [Parts -> Nat]
  /\ stored \in [Keys -> SUBSET Txs]
  /\ tomb \in [Keys -> {"absent", "pending", "completed"}]
  /\ tx \in [Txs -> Tx]
  /\ applied \in [Txs -> Nat]

NoRow == [present |-> FALSE, rev |-> 0, life |-> 0, by |-> None, blob |-> FALSE]
NoPlan == [reads |-> {}, queries |-> {}, writes |-> [k \in Keys |-> "none"], large |-> FALSE]
Fresh(attempt) ==
  [pc |-> "idle", attempt |-> attempt, plan |-> NoPlan,
   seen |-> {}, read |-> [k \in Keys |-> NoRow], fenced |-> {}, at |-> [p \in Parts |-> 0],
   scanned |-> {}, page |-> [k \in Keys |-> NoRow]]

Init ==
  /\ row = [k \in Keys |-> NoRow]
  /\ fence = [p \in Parts |-> 0]
  /\ stored = [k \in Keys |-> {}]
  /\ tomb = [k \in Keys |-> "absent"]
  /\ tx = [t \in Txs |-> Fresh(0)]
  /\ applied = [t \in Txs |-> 0]

----------------------------------------------------------------------------
(* The work of a call: its reads.                                           *)

Written(t) == {k \in Keys : tx[t].plan.writes[k] # "none"}
WrittenParts(t) == {PartOf[k] : k \in Written(t)}
Queried(t) == {k \in Keys : PartOf[k] \in tx[t].plan.queries}

\* The work function has returned; the commit has what it needs.
WorkDone(t) ==
  tx[t].plan.reads \subseteq tx[t].seen /\ Queried(t) \subseteq tx[t].scanned
Prepared(t) ==
  WorkDone(t) /\ Written(t) \subseteq tx[t].seen /\ WrittenParts(t) \subseteq tx[t].fenced

\* Every attempt runs the work again, which may go another way.
Begin(t) ==
  /\ tx[t].pc = "idle"
  /\ \E p \in Plans : tx' = [tx EXCEPT ![t].pc = "work", ![t].plan = p]
  /\ UNCHANGED <<row, fence, stored, tomb, applied>>

\* A record is read once, by the work or by the commit that is to write it.
Read(t, k) ==
  /\ tx[t].pc = "work" /\ k \notin tx[t].seen
  /\ \/ k \in tx[t].plan.reads
     \/ WorkDone(t) /\ k \in Written(t) /\ PartOf[k] \in tx[t].fenced
  /\ tx' = [tx EXCEPT ![t].seen = @ \cup {k}, ![t].read[k] = row[k]]
  /\ UNCHANGED <<row, fence, stored, tomb, applied>>

\* A partition is fenced once: before it is scanned, or at the commit.
TakeFence(t, p) ==
  /\ tx[t].pc = "work" /\ p \notin tx[t].fenced
  /\ p \in tx[t].plan.queries \/ (WorkDone(t) /\ p \in WrittenParts(t))
  /\ tx' = [tx EXCEPT ![t].fenced = @ \cup {p}, ![t].at[p] = fence[p]]
  /\ UNCHANGED <<row, fence, stored, tomb, applied>>

Bug_ScansUnfenced(t, k) ==
  /\ tx[t].pc = "work" /\ k \in Queried(t) \ tx[t].scanned
  /\ tx' = [tx EXCEPT ![t].scanned = @ \cup {k}, ![t].page[k] = row[k]]
  /\ UNCHANGED <<row, fence, stored, tomb, applied>>

\* The pages of a query come one after the other, records of a page together;
\* here every record may come with a page of its own.
Scan(t, k) ==
  /\ tx[t].pc = "work" /\ k \in Queried(t) \ tx[t].scanned
  /\ PartOf[k] \in tx[t].fenced
  /\ tx' = [tx EXCEPT ![t].scanned = @ \cup {k}, ![t].page[k] = row[k]]
  /\ UNCHANGED <<row, fence, stored, tomb, applied>>

----------------------------------------------------------------------------
(* The commit.                                                              *)

Ends(t, how) == tx' = [tx EXCEPT ![t].pc = how]
Puts(t) == {k \in Keys : tx[t].plan.writes[k] \in {"put", "patch", "insert"}}
Bug_ReplacesOnly(t) == {k \in Puts(t) : tx[t].read[k].blob}

\* The erasure record is read, and must not be there, when the value is large
\* or replaces a large one.
Guarded(t) == {k \in Puts(t) : tx[t].plan.large \/ tx[t].read[k].blob}

Legal(t) ==
  \A k \in Keys :
    /\ tx[t].plan.writes[k] = "insert" => ~tx[t].read[k].present
    /\ tx[t].plan.writes[k] = "patch" => tx[t].read[k].present

\* A transaction that writes nothing ends without any check of what it read.
Prepare(t) ==
  /\ tx[t].pc = "work" /\ WorkDone(t)
  /\ \/ Written(t) = {} /\ Ends(t, "done")
     \/ /\ Written(t) # {} /\ Prepared(t)
        /\ IF Legal(t) /\ \A k \in Guarded(t) : tomb[k] = "absent"
             THEN Ends(t, IF tx[t].plan.large THEN "upload" ELSE "commit")
             ELSE Ends(t, "failed")
  /\ UNCHANGED <<row, fence, stored, tomb, applied>>

\* storedValue: the blobs are in S3 before the commit is sent.
Upload(t) ==
  /\ tx[t].pc = "upload"
  /\ stored' = [k \in Keys |-> IF k \in Puts(t) THEN stored[k] \cup {t} ELSE stored[k]]
  /\ Ends(t, "commit")
  /\ UNCHANGED <<row, fence, tomb, applied>>

\* Records are checked by presence and revision, fences by revision.
ConditionsHold(t) ==
  /\ \A k \in tx[t].seen :
       row[k].present = tx[t].read[k].present /\ row[k].rev = tx[t].read[k].rev
  /\ \A p \in tx[t].fenced : fence[p] = tx[t].at[p]
  /\ \A k \in Guarded(t) : tomb[k] = "absent"

Becomes(t, k) ==
  CASE k \in Puts(t) ->
         [present |-> TRUE, rev |-> tx[t].read[k].rev + 1, by |-> t, blob |-> tx[t].plan.large,
          life |-> IF row[k].present THEN row[k].life ELSE row[k].life + 1]
    [] tx[t].plan.writes[k] = "remove" ->
         [present |-> FALSE, rev |-> 0, by |-> None, blob |-> FALSE,
          life |-> IF row[k].present THEN row[k].life + 1 ELSE row[k].life]
    [] OTHER -> row[k]

\* Every item at once; a removed record with a blob leaves an erasure record.
TakesEffect(t) ==
  /\ row' = [k \in Keys |-> Becomes(t, k)]
  /\ fence' = [p \in Parts |-> IF p \in tx[t].fenced THEN fence[p] + 1 ELSE fence[p]]
  /\ tomb' = [k \in Keys |->
       IF tx[t].plan.writes[k] = "remove" /\ tx[t].read[k].blob THEN "pending" ELSE tomb[k]]
  /\ applied' = [applied EXCEPT ![t] = @ + 1]
  /\ UNCHANGED stored

Bug_RetriesUnknown(t) ==
  /\ tx[t].pc = "commit" /\ ConditionsHold(t)
  /\ TakesEffect(t)
  /\ \/ Ends(t, "done")
     \/ tx[t].attempt + 1 < Attempts /\ tx' = [tx EXCEPT ![t] = Fresh(@.attempt + 1)]

Commit(t) ==
  /\ tx[t].pc = "commit" /\ ConditionsHold(t)
  /\ TakesEffect(t)
  /\ Ends(t, "done") \/ Ends(t, "unknown")

\* The request is lost on its way.
CommitLost(t) ==
  /\ tx[t].pc = "commit"
  /\ Ends(t, "unknown")
  /\ UNCHANGED <<row, fence, stored, tomb, applied>>

\* A failed condition, or a conflict with another transaction in flight: what
\* was read is dropped and the work starts over, up to the last try. Any other
\* refusal ends the call.
Cancel(t) ==
  /\ tx[t].pc = "commit"
  /\ \/ tx[t].attempt + 1 < Attempts /\ tx' = [tx EXCEPT ![t] = Fresh(@.attempt + 1)]
     \/ Ends(t, "failed")
  /\ UNCHANGED <<row, fence, stored, tomb, applied>>

----------------------------------------------------------------------------
\* recoverBlobErasure: the versions are erased, then the record is marked; a
\* crash between the two, or a late answer, leaves it pending.
Erase(k) ==
  /\ tomb[k] = "pending"
  /\ stored' = [stored EXCEPT ![k] = {}]
  /\ tomb' = [tomb EXCEPT ![k] = "completed"] \/ UNCHANGED tomb
  /\ UNCHANGED <<row, fence, tx, applied>>

Next ==
  \/ \E t \in Txs :
       \/ Begin(t) \/ Prepare(t) \/ Upload(t) \/ Commit(t) \/ CommitLost(t) \/ Cancel(t)
       \/ \E k \in Keys : Read(t, k) \/ Scan(t, k)
       \/ \E p \in Parts : TakeFence(t, p)
  \/ \E k \in Keys : Erase(k)

Spec == Init /\ [][Next]_vars

----------------------------------------------------------------------------
(* What must hold.                                                          *)

\* Nothing an earlier state showed lies ahead of the store, and a fence or a
\* version that is still current shows the store as it is.
Behind(r, k) ==
  /\ r.life <= row[k].life
  /\ r.life = row[k].life => r.rev <= row[k].rev
  /\ r.life = row[k].life /\ r.rev = row[k].rev => r = row[k]

\* What call t holds of the store is never newer than the store, and exact while
\* the fence or the version it goes by is current; its effect comes last.
CallSound(t) ==
  /\ applied[t] <= 1
  /\ applied[t] = 1 => tx[t].pc \in {"done", "unknown"}
  /\ \A k \in tx[t].seen : Behind(tx[t].read[k], k)
  /\ \A p \in tx[t].fenced : tx[t].at[p] <= fence[p]
  /\ \A k \in tx[t].scanned :
       /\ PartOf[k] \in tx[t].fenced
       /\ fence[PartOf[k]] = tx[t].at[PartOf[k]] => tx[t].page[k] = row[k]
  /\ tx[t].pc \in {"upload", "commit"} => Prepared(t)
  /\ tx[t].pc = "commit" /\ tx[t].plan.large =>
       \A k \in Puts(t) : tomb[k] = "absent" => t \in stored[k]

\* A value that is a blob is in S3 and not up for erasure.
RecordSound(k) ==
  /\ row[k].present <=> row[k].rev > 0
  /\ row[k].present \/ (row[k].by = None /\ ~row[k].blob)
  /\ row[k].blob => row[k].by \in stored[k] /\ tomb[k] = "absent"

\* The inductive invariant: a call takes effect at most once, and only if it is
\* over, with nothing stale in its hands; no readable record has lost its blob.
DynamoInv == (\A t \in Txs : CallSound(t)) /\ (\A k \in Keys : RecordSound(k))

\* The blob of a record that can be read is in S3: neither the erasure of an
\* earlier life of the record nor a failed commit takes it away.
BlobsResolve == \A k \in Keys : row[k].blob => row[k].by \in stored[k]

\* A commit takes effect on the very state its work saw: every partition it
\* queried is still exactly what all the pages showed, and every record it read
\* is still the same value, unless it was removed and inserted again since.
CommitsOnWhatItSaw ==
  [][\A t \in Txs :
       applied'[t] # applied[t] =>
         /\ \A k \in Queried(t) : tx[t].page[k] = row[k]
         /\ \A k \in tx[t].plan.reads :
              row[k].life = tx[t].read[k].life => tx[t].read[k] = row[k]]_vars
=============================================================================
