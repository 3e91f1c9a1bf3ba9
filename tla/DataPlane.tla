------------------------------ MODULE DataPlane ------------------------------
(* A data batch, its work items and the consumers that normalize them.      *)
(*                                                                          *)
(* A create call writes the batch as initializing, then the work items in   *)
(* groups, then the batch as pending; the call may be repeated while it has  *)
(* not got that far. Items are published within a concurrency limit, and    *)
(* again when a visibility window or a lease has run out. A consumer claims *)
(* an item under a lease and an attempt budget, normalizes the document and *)
(* finalizes it, which reduces all the items to the state of the batch.     *)
EXTENDS Integers, FiniteSets

CONSTANTS
  Items,         \* the work items; a group of one create write each
  Creates,       \* the create calls for the batch
  None,          \* no work item
  Workers,       \* concurrent consumers of the data queue
  MaxAttempts,   \* maxAttempts of the batch
  MaxInFlight,   \* maxInFlight of the batch
  AllowPartial, MinPercent,  \* the fan-in policy
  Faults,        \* the failures met, a subset of AllFaults
  MaxClaims      \* bound: the claims of an item after which none is lost

\* A create call dies, or a write of it fails; a consumer dies or meets an
\* unexpected error; a lease runs out under a slow one; an answer is lost; a
\* message is dead-lettered.
AllFaults == {"create", "crash", "expire", "web", "drop"}

ASSUME DataAssumption ==
  /\ Items # {} /\ IsFiniteSet(Items) /\ None \notin Items
  /\ MaxAttempts \in Nat \ {0} /\ MaxInFlight \in Nat \ {0}
  /\ AllowPartial \in BOOLEAN /\ MinPercent \in 0..100
  /\ Faults \subseteq AllFaults /\ MaxClaims \in Nat \ {0}

VARIABLES
  batch,    \* the batch: its state, and whether a failureCode says incomplete
  item,     \* item[i]: the stored work item
  claims,   \* claims[i]: the claims of i so far; each had its own token
  create,   \* create[c]: where create call c stands, and the items it has yet to write
  queue,    \* the items with a message in the data queue
  marking,  \* the items published but not yet marked dispatched
  worker    \* worker[w]: where consumer w stands with its message

vars == <<batch, item, claims, create, queue, marking, worker>>

BatchStates == {"absent", "initializing", "pending", "running", "complete", "partial", "failed"}
Ended == {"complete", "partial", "failed"}
ItemStates == {"absent", "pending", "claimed", "succeeded", "failed", "dead_lettered"}
Terminal == {"succeeded", "dead_lettered"}

\* owner: the token of the claim, by its number; sent: lastDispatchedAt lies in
\* the visibility window.
Item == [state: ItemStates, attempt: 0..MaxAttempts, epoch: 0..MaxAttempts, owner: Nat,
         live: BOOLEAN, sent: BOOLEAN]

\* The type of every variable.
TypeOK ==
  /\ batch \in [state: BatchStates, incomplete: BOOLEAN]
  /\ item \in [Items -> Item]
  /\ claims \in [Items -> Nat]
  /\ create \in [Creates -> [pc: {"idle", "writing", "over", "dead"}, left: SUBSET Items]]
  /\ queue \in SUBSET Items
  /\ marking \in SUBSET Items
  /\ worker \in [Workers -> [pc: {"idle", "claim", "work"}, on: Items \cup {None},
                             epoch: 0..MaxAttempts, token: Nat]]

NoItem == [state |-> "absent", attempt |-> 0, epoch |-> 0, owner |-> 0, live |-> FALSE,
           sent |-> FALSE]
NewItem == [NoItem EXCEPT !.state = "pending"]
Idle == [pc |-> "idle", on |-> None, epoch |-> 0, token |-> 0]

Init ==
  /\ batch = [state |-> "absent", incomplete |-> FALSE]
  /\ item = [i \in Items |-> NoItem]
  /\ claims = [i \in Items |-> 0]
  /\ create = [c \in Creates |-> [pc |-> "idle", left |-> {}]]
  /\ queue = {} /\ marking = {}
  /\ worker = [w \in Workers |-> Idle]

----------------------------------------------------------------------------
(* Creating the batch.                                                      *)

delivery == <<queue, marking, worker>>

Creatable ==
  batch.state \in {"absent", "initializing"} \/ (batch.state = "failed" /\ batch.incomplete)

CreateBatch(c) ==
  /\ create[c].pc = "idle"
  /\ \/ /\ Creatable
        /\ batch' = [state |-> "initializing", incomplete |-> FALSE]
        /\ create' = [create EXCEPT ![c] = [pc |-> "writing", left |-> Items]]
     \/ /\ ~Creatable
        /\ create' = [create EXCEPT ![c].pc = "over"]
        /\ UNCHANGED batch
  /\ UNCHANGED <<item, claims, delivery>>

\* The item is written as it came, whatever is stored.
WriteItem(c, i) ==
  /\ create[c].pc = "writing" /\ i \in create[c].left
  /\ item' = [item EXCEPT ![i] = NewItem]
  /\ create' = [create EXCEPT ![c].left = @ \ {i}]
  /\ UNCHANGED <<batch, claims, delivery>>

CreateDone(c) ==
  /\ create[c].pc = "writing" /\ create[c].left = {}
  /\ batch' = [batch EXCEPT !.state = "pending"]
  /\ create' = [create EXCEPT ![c].pc = "over"]
  /\ UNCHANGED <<item, claims, delivery>>

\* A write throws, which is recorded; or the process dies: "dead" is a call
\* that another had overtaken by then, "over" one that left the batch unfinished.
CreateFails(c) ==
  /\ "create" \in Faults /\ create[c].pc = "writing"
  /\ \/ /\ batch' = [state |-> "failed", incomplete |-> TRUE]
        /\ create' = [create EXCEPT ![c].pc = "over"]
     \/ /\ create' = [create EXCEPT ![c].pc =
                        IF batch.state = "initializing" THEN "over" ELSE "dead"]
        /\ UNCHANGED batch
  /\ UNCHANGED <<item, claims, delivery>>

CreateStep(c) ==
  CreateBatch(c) \/ CreateDone(c) \/ CreateFails(c) \/ \E i \in Items : WriteItem(c, i)

----------------------------------------------------------------------------
(* Publishing: the dispatch route and the recovery that runs periodically.  *)

Waiting(i) == item[i].state \in {"pending", "failed"}
Eligible(i) == (Waiting(i) /\ ~item[i].sent) \/ (item[i].state = "claimed" /\ ~item[i].live)
Active == {i \in Items : (item[i].state = "claimed" /\ item[i].live)
                           \/ (Waiting(i) /\ item[i].sent)}

Publish(i) ==
  /\ batch.state \in {"pending", "running"}
  /\ Eligible(i) /\ Cardinality(Active) < MaxInFlight
  /\ queue' = queue \cup {i}
  /\ marking' = marking \cup {i}
  /\ UNCHANGED <<batch, item, claims, create, worker>>

\* markDispatched; it comes after the publication, and after whatever became of
\* the item meanwhile.
MarkDispatched(i) ==
  /\ i \in marking
  /\ marking' = marking \ {i}
  /\ item' = IF Waiting(i) THEN [item EXCEPT ![i].sent = TRUE] ELSE item
  /\ UNCHANGED <<batch, claims, create, queue, worker>>

\* The visibility window passes.
Lapse(i) ==
  /\ item[i].sent
  /\ item' = [item EXCEPT ![i].sent = FALSE]
  /\ UNCHANGED <<batch, claims, create, delivery>>

----------------------------------------------------------------------------
(* A consumer.                                                              *)

Done(w, acked) ==
  /\ worker' = [worker EXCEPT ![w] = Idle]
  /\ queue' = IF acked THEN queue \ {worker[w].on} ELSE queue
  /\ UNCHANGED marking

\* The message of a batch that has ended is acknowledged.
Receive(w, i) ==
  /\ worker[w].pc = "idle" /\ i \in queue
  /\ \/ /\ batch.state \in Ended
        /\ queue' = queue \ {i}
        /\ UNCHANGED worker
     \/ /\ batch.state \notin Ended
        /\ worker' = [worker EXCEPT ![w].pc = "claim", ![w].on = i]
        /\ UNCHANGED queue
  /\ UNCHANGED <<batch, item, claims, create, marking>>

\* An item that is over is acknowledged; another's claim leaves the message.
ClaimNothing(w) ==
  LET k == item[worker[w].on] IN
  /\ worker[w].pc = "claim"
  /\ \/ k.state \in Terminal /\ Done(w, TRUE)
     \/ k.state = "claimed" /\ k.live /\ Done(w, FALSE)
  /\ UNCHANGED <<batch, item, claims, create>>

Bug_ClaimsFinished(i) == ~item[i].live

Claimable(i) == Waiting(i) \/ (item[i].state = "claimed" /\ ~item[i].live)

\* An item without attempts left is dead; the batch is not reduced.
DeadLetter(w) ==
  LET i == worker[w].on IN
  /\ worker[w].pc = "claim" /\ Claimable(i) /\ item[i].attempt >= MaxAttempts
  /\ item' = [item EXCEPT ![i].state = "dead_lettered", ![i].owner = 0, ![i].live = FALSE]
  /\ Done(w, TRUE)
  /\ UNCHANGED <<batch, claims, create>>

ClaimItem(w) ==
  LET i == worker[w].on IN
  /\ worker[w].pc = "claim" /\ Claimable(i) /\ item[i].attempt < MaxAttempts
  /\ item' = [item EXCEPT ![i].state = "claimed", ![i].attempt = @ + 1, ![i].epoch = @ + 1,
                          ![i].owner = claims[i] + 1, ![i].live = TRUE]
  /\ claims' = [claims EXCEPT ![i] = @ + 1]
  /\ batch' = [batch EXCEPT !.state = IF @ = "pending" THEN "running" ELSE @]
  /\ worker' = [worker EXCEPT ![w].pc = "work", ![w].epoch = item[i].epoch + 1,
                              ![w].token = claims[i] + 1]
  /\ UNCHANGED <<create, queue, marking>>

Enough(S) == AllowPartial /\ Cardinality(S) * 100 >= MinPercent * Cardinality(Items)

\* reduceBatchOutcome; nothing cancels an item.
Reduced(items) ==
  LET over == {i \in Items : items[i].state \in Terminal}
      good == {i \in Items : items[i].state = "succeeded"}
  IN  IF over # Items THEN "running"
      ELSE IF good = Items THEN "complete"
      ELSE IF Enough(good) THEN "partial"
      ELSE "failed"

\* The fence of a finalization; an expired lease that nobody took over is no bar.
Owns(w) ==
  LET k == item[worker[w].on] IN
  k.state = "claimed" /\ k.epoch = worker[w].epoch /\ k.owner = worker[w].token

\* The document is normalized, or is no valid document.
Finalize(w, outcome) ==
  LET i == worker[w].on
      state == IF outcome = "failed" /\ item[i].attempt >= MaxAttempts THEN "dead_lettered"
               ELSE outcome
  IN
  /\ worker[w].pc = "work" /\ Owns(w)
  /\ item' = [item EXCEPT ![i].state = state, ![i].owner = 0, ![i].live = FALSE]
  /\ batch' = [batch EXCEPT !.state = Reduced(item')]
  /\ Done(w, state \in Terminal) \/ ("web" \in Faults /\ Done(w, FALSE))
  /\ UNCHANGED <<claims, create>>

\* The finalization is refused.
Refused(w) ==
  /\ worker[w].pc = "work" /\ ~Owns(w)
  /\ Done(w, FALSE)
  /\ UNCHANGED <<batch, item, claims, create>>

\* It dies, or an unexpected error leaves its lease to run out.
Crash(w) ==
  /\ "crash" \in Faults /\ worker[w].pc = "work" /\ claims[worker[w].on] < MaxClaims
  /\ Done(w, FALSE)
  /\ UNCHANGED <<batch, item, claims, create>>

Expire(i) ==
  /\ item[i].live
  /\ \/ "expire" \in Faults /\ claims[i] < MaxClaims
     \/ \A w \in Workers : ~(worker[w].pc = "work" /\ worker[w].on = i /\ Owns(w))
  /\ item' = [item EXCEPT ![i].live = FALSE]
  /\ UNCHANGED <<batch, claims, create, delivery>>

DropMessage(i) ==
  /\ "drop" \in Faults /\ i \in queue
  /\ queue' = queue \ {i}
  /\ UNCHANGED <<batch, item, claims, create, marking, worker>>

WorkerStep(w) ==
  \/ \E i \in Items : Receive(w, i)
  \/ ClaimNothing(w) \/ DeadLetter(w) \/ ClaimItem(w) \/ Refused(w)
  \/ \E outcome \in {"succeeded", "failed"} : Finalize(w, outcome)

Next ==
  \/ \E c \in Creates : CreateStep(c)
  \/ \E i \in Items : Publish(i) \/ MarkDispatched(i) \/ Lapse(i) \/ Expire(i) \/ DropMessage(i)
  \/ \E w \in Workers : WorkerStep(w) \/ Crash(w)

Spec == Init /\ [][Next]_vars

----------------------------------------------------------------------------
(* What must hold.                                                          *)

\* No create call is at work, or died at it after another had ended.
Quiet == \A c \in Creates : create[c].pc \in {"idle", "over"}

\* What fan-in says of the batch is, and stays, true of its items: an ended
\* batch has no item that may still run, is complete only if all succeeded and
\* partial only within its policy, whichever deliveries, takeovers and late
\* finalizations came after, and although a call died in the middle of creating
\* it. Items that a create call writes anew behind another are the exception.
FanInIsTrue ==
  Quiet =>
    /\ batch.state \in Ended /\ ~batch.incomplete => batch.state = Reduced(item)
    /\ batch.state = "complete" => \A i \in Items : item[i].state = "succeeded"
=============================================================================
