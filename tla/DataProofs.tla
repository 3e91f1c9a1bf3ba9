----------------------------- MODULE DataProofs -----------------------------
(* Proofs, for any items, consumers, create calls, attempt budget, fan-in   *)
(* policy and faults, that the records of a data batch keep their types,    *)
(* that the batch says of its items what is true of them, and that no two   *)
(* consumers can finalize the same item.                                    *)
EXTENDS DataPlane, TLAPS

LEMMA Consts ==
  /\ None \notin Items
  /\ MaxAttempts \in Nat \ {0} /\ MaxInFlight \in Nat \ {0}
BY DataAssumption DEF DataAssumption

----------------------------------------------------------------------------
(* Types.                                                                   *)

\* A consumer that is not idle has the message of an item.
Holding == \A w \in Workers : worker[w].pc # "idle" => worker[w].on \in Items

\* The epoch of an item counts its attempts: a claim raises both, and a create
\* call that writes the item anew resets both.
EpochIsAttempt == \A i \in Items : item[i].epoch = item[i].attempt

Typed == TypeOK /\ Holding /\ EpochIsAttempt

\* What a consumer is on, and the item behind it.
LEMMA OnItem ==
  ASSUME Typed, NEW w \in Workers, worker[w].pc # "idle"
  PROVE  /\ worker[w].on \in Items
         /\ item[worker[w].on] \in Item
BY DEF Typed, TypeOK, Holding

LEMMA TypedStart == Init => Typed
<1> SUFFICES ASSUME Init PROVE Typed
  OBVIOUS
<1>1. NoItem \in Item /\ NoItem.epoch = NoItem.attempt
  BY Consts DEF NoItem, Item, ItemStates
<1>2. Idle \in [pc: {"idle", "claim", "work"}, on: Items \cup {None}, epoch: 0..MaxAttempts,
               token: Nat]
  BY Consts DEF Idle
<1>3. TypeOK
  BY <1>1, <1>2 DEF Init, TypeOK, BatchStates
<1>4. Holding
  BY DEF Init, Idle, Holding
<1>5. EpochIsAttempt
  BY <1>1 DEF Init, EpochIsAttempt
<1> QED BY <1>3, <1>4, <1>5 DEF Typed

\* One item is replaced by another whose epoch is its attempt.
LEMMA ItemTyped ==
  ASSUME Typed, NEW i \in Items, NEW k \in Item, k.epoch = k.attempt,
         item' = [item EXCEPT ![i] = k]
  PROVE  item' \in [Items -> Item] /\ EpochIsAttempt'
<1>1. item \in [Items -> Item]
  BY DEF Typed, TypeOK
<1>2. item' \in [Items -> Item]
  BY <1>1
<1>3. ASSUME NEW j \in Items PROVE item'[j].epoch = item'[j].attempt
  BY <1>1 DEF Typed, EpochIsAttempt
<1> QED BY <1>2, <1>3 DEF EpochIsAttempt

\* A consumer goes idle, and its message is acknowledged or not.
Rests(w) ==
  /\ worker' = [worker EXCEPT ![w] = Idle]
  /\ queue' = queue \/ queue' = queue \ {worker[w].on}
  /\ marking' = marking

LEMMA DoneTyped ==
  ASSUME Typed, NEW w \in Workers, Rests(w)
  PROVE  /\ worker' \in [Workers -> [pc: {"idle", "claim", "work"}, on: Items \cup {None},
                                     epoch: 0..MaxAttempts, token: Nat]]
         /\ queue' \in SUBSET Items /\ marking' \in SUBSET Items
         /\ Holding'
<1>1. Idle \in [pc: {"idle", "claim", "work"}, on: Items \cup {None}, epoch: 0..MaxAttempts,
               token: Nat]
  BY Consts DEF Idle
<1>2. worker' = [worker EXCEPT ![w] = Idle] /\ marking' = marking
      /\ (queue' = queue \/ queue' = queue \ {worker[w].on})
  BY DEF Rests
<1>3. Holding'
  BY <1>2 DEF Typed, TypeOK, Holding, Idle
<1> QED BY <1>1, <1>2, <1>3 DEF Typed, TypeOK

\* The create calls.
LEMMA CreateTyped ==
  ASSUME Typed, NEW c \in Creates, CreateStep(c)
  PROVE  Typed'
<1>0. /\ batch \in [state: BatchStates, incomplete: BOOLEAN]
      /\ create \in [Creates -> [pc: {"idle", "writing", "over", "dead"}, left: SUBSET Items]]
  BY DEF Typed, TypeOK
<1>1. CASE \E i \in Items : WriteItem(c, i)
  <2>1. PICK i \in Items : WriteItem(c, i)
    BY <1>1
  <2>2. NewItem \in Item /\ NewItem.epoch = NewItem.attempt
    <3>1. NoItem \in Item /\ NoItem.epoch = NoItem.attempt
      BY Consts DEF NoItem, Item, ItemStates
    <3> QED BY <3>1 DEF NewItem, Item, ItemStates
  <2>3. item' \in [Items -> Item] /\ EpochIsAttempt'
    BY <2>1, <2>2, ItemTyped DEF WriteItem
  <2>4. create' \in [Creates -> [pc: {"idle", "writing", "over", "dead"}, left: SUBSET Items]]
    BY <1>0, <2>1 DEF WriteItem
  <2> QED BY <2>1, <2>3, <2>4 DEF WriteItem, delivery, Typed, TypeOK, Holding
<1>2. CASE CreateBatch(c) \/ CreateDone(c) \/ CreateFails(c)
  <2>1. UNCHANGED <<item, claims, queue, marking, worker>>
    BY <1>2 DEF CreateBatch, CreateDone, CreateFails, delivery
  <2>2. batch' \in [state: BatchStates, incomplete: BOOLEAN]
    <3>1. \/ batch' = batch \/ batch' = [batch EXCEPT !.state = "pending"]
          \/ batch' = [state |-> "initializing", incomplete |-> FALSE]
          \/ batch' = [state |-> "failed", incomplete |-> TRUE]
      <4>1. CASE CreateBatch(c)
        BY <4>1, Zenon DEF CreateBatch
      <4>2. CASE CreateDone(c)
        BY <4>2, Zenon DEF CreateDone
      <4>3. CASE CreateFails(c)
        BY <4>3 DEF CreateFails
      <4> QED BY <1>2, <4>1, <4>2, <4>3
    <3>2. "pending" \in BatchStates /\ "initializing" \in BatchStates /\ "failed" \in BatchStates
      BY DEF BatchStates
    <3>3. CASE batch' = [batch EXCEPT !.state = "pending"]
      BY <1>0, <3>2, <3>3
    <3>4. \A x \in BatchStates, b \in BOOLEAN :
            [state |-> x, incomplete |-> b] \in [state: BatchStates, incomplete: BOOLEAN]
      OBVIOUS
    <3>5. TRUE \in BOOLEAN /\ FALSE \in BOOLEAN
      OBVIOUS
    <3> QED BY <1>0, <3>1, <3>2, <3>3, <3>4, <3>5, Zenon
  <2>3. create' \in [Creates -> [pc: {"idle", "writing", "over", "dead"}, left: SUBSET Items]]
    <3>1. CASE CreateBatch(c)
      BY <1>0, <3>1 DEF CreateBatch
    <3>2. CASE CreateDone(c)
      BY <1>0, <3>2 DEF CreateDone
    <3>3. CASE CreateFails(c)
      BY <1>0, <3>3 DEF CreateFails
    <3> QED BY <1>2, <3>1, <3>2, <3>3
  <2> QED BY <2>1, <2>2, <2>3 DEF Typed, TypeOK, Holding, EpochIsAttempt
<1> QED BY <1>1, <1>2 DEF CreateStep

\* Publishing, its mark, the two clocks and the loss of a message.
LEMMA DeliveryTyped ==
  ASSUME Typed, NEW i \in Items,
         Publish(i) \/ MarkDispatched(i) \/ Lapse(i) \/ Expire(i) \/ DropMessage(i)
  PROVE  Typed'
<1>0. item[i] \in Item /\ item[i].epoch = item[i].attempt
  BY DEF Typed, TypeOK, EpochIsAttempt
<1>1. CASE Publish(i) \/ DropMessage(i)
  BY <1>1 DEF Publish, DropMessage, Typed, TypeOK, Holding, EpochIsAttempt
<1>2. ASSUME item' = [item EXCEPT ![i].sent = TRUE] \/ item' = [item EXCEPT ![i].sent = FALSE]
               \/ item' = [item EXCEPT ![i].live = FALSE]
      PROVE  item' \in [Items -> Item] /\ EpochIsAttempt'
  <2>1. PICK k \in {[item[i] EXCEPT !.sent = TRUE], [item[i] EXCEPT !.sent = FALSE],
                    [item[i] EXCEPT !.live = FALSE]} : item' = [item EXCEPT ![i] = k]
    BY <1>2
  <2>2. k \in Item /\ k.epoch = k.attempt
    BY <1>0, <2>1 DEF Item
  <2> QED BY <2>1, <2>2, ItemTyped
<1>3. CASE MarkDispatched(i) \/ Lapse(i) \/ Expire(i)
  <2>1. /\ item' \in [Items -> Item] /\ EpochIsAttempt'
        /\ UNCHANGED <<batch, claims, create, queue, worker>>
        /\ marking' = marking \/ marking' = marking \ {i}
    BY <1>2, <1>3 DEF MarkDispatched, Lapse, Expire, delivery, Typed, TypeOK, EpochIsAttempt
  <2> QED BY <2>1 DEF Typed, TypeOK, Holding
<1> QED BY <1>1, <1>3

\* The consumers.
LEMMA WorkerTyped ==
  ASSUME Typed, NEW w \in Workers, WorkerStep(w) \/ Crash(w)
  PROVE  Typed'
<1> DEFINE i == worker[w].on
<1>0. /\ batch \in [state: BatchStates, incomplete: BOOLEAN]
      /\ claims \in [Items -> Nat] /\ item \in [Items -> Item]
      /\ worker \in [Workers -> [pc: {"idle", "claim", "work"}, on: Items \cup {None},
                                 epoch: 0..MaxAttempts, token: Nat]]
  BY DEF Typed, TypeOK
<1>1. CASE \E j \in Items : Receive(w, j)
  <2>1. PICK j \in Items : Receive(w, j)
    BY <1>1
  <2>2. worker' = worker \/ worker' = [worker EXCEPT ![w].pc = "claim", ![w].on = j]
    BY <2>1 DEF Receive
  <2>3. Holding' /\ worker' \in [Workers -> [pc: {"idle", "claim", "work"}, on: Items \cup {None},
                                             epoch: 0..MaxAttempts, token: Nat]]
    BY <1>0, <2>2 DEF Typed, Holding
  <2> QED BY <2>1, <2>3 DEF Receive, Typed, TypeOK, EpochIsAttempt
<1>2. CASE ClaimNothing(w) \/ Refused(w) \/ Crash(w)
  <2>1. Rests(w)
    BY <1>2 DEF ClaimNothing, Refused, Crash, Done, Rests
  <2>2. UNCHANGED <<batch, item, claims, create>>
    BY <1>2 DEF ClaimNothing, Refused, Crash
  <2> QED BY <2>1, <2>2, DoneTyped DEF Typed, TypeOK, EpochIsAttempt
<1>3. CASE DeadLetter(w)
  <2>1. i \in Items /\ item[i] \in Item /\ item[i].epoch = item[i].attempt
    BY <1>3, OnItem DEF DeadLetter, Typed, EpochIsAttempt
  <2> DEFINE k == [item[i] EXCEPT !.state = "dead_lettered", !.owner = 0, !.live = FALSE]
  <2>2. k \in Item /\ k.epoch = k.attempt
    BY <2>1 DEF Item, ItemStates
  <2>3. item' = [item EXCEPT ![i] = k]
    BY <1>3 DEF DeadLetter
  <2> HIDE DEF k, i
  <2>4. item' \in [Items -> Item] /\ EpochIsAttempt'
    BY <2>1, <2>2, <2>3, ItemTyped
  <2>5. Rests(w) /\ UNCHANGED <<batch, claims, create>>
    BY <1>3 DEF DeadLetter, Done, Rests
  <2> QED BY <2>4, <2>5, DoneTyped DEF Typed, TypeOK
<1>4. CASE ClaimItem(w)
  <2>1. i \in Items /\ item[i] \in Item /\ item[i].epoch = item[i].attempt /\ claims[i] \in Nat
    BY <1>0, <1>4, OnItem DEF ClaimItem, Typed, EpochIsAttempt
  <2> DEFINE k == [item[i] EXCEPT !.state = "claimed", !.attempt = item[i].attempt + 1,
                                  !.epoch = item[i].epoch + 1, !.owner = claims[i] + 1,
                                  !.live = TRUE]
  <2>2. item[i].attempt + 1 \in 0..MaxAttempts
    <3>1. item[i].attempt \in 0..MaxAttempts /\ item[i].attempt < MaxAttempts
      BY <1>4, <2>1 DEF ClaimItem, Item
    <3> HIDE DEF i
    <3> QED BY <3>1, Consts
  <2>3. k \in Item /\ k.epoch = k.attempt
    <3>1. item[i].epoch + 1 = item[i].attempt + 1 /\ claims[i] + 1 \in Nat
      BY <2>1
    <3> HIDE DEF i
    <3> QED BY <2>1, <2>2, <3>1 DEF Item, ItemStates
  <2>4. item' = [item EXCEPT ![i] = k]
    BY <1>4 DEF ClaimItem
  <2>5. worker' = [worker EXCEPT ![w].pc = "work", ![w].epoch = item[i].epoch + 1,
                                 ![w].token = claims[i] + 1]
    BY <1>4 DEF ClaimItem
  <2>6. batch' = [batch EXCEPT !.state = IF @ = "pending" THEN "running" ELSE @]
        /\ claims' = [claims EXCEPT ![i] = claims[i] + 1] /\ UNCHANGED <<create, queue, marking>>
    BY <1>4 DEF ClaimItem
  <2> HIDE DEF k
  <2>7. item' \in [Items -> Item] /\ EpochIsAttempt'
    BY <2>1, <2>3, <2>4, ItemTyped
  <2>8. Holding' /\ worker' \in [Workers -> [pc: {"idle", "claim", "work"}, on: Items \cup {None},
                                             epoch: 0..MaxAttempts, token: Nat]]
    <3>1. worker[w].pc # "idle"
      BY <1>4 DEF ClaimItem
    <3>2. item[i].epoch + 1 \in 0..MaxAttempts /\ claims[i] + 1 \in Nat
      BY <2>1, <2>2
    <3>3. Holding'
      BY <1>0, <2>5, <3>1 DEF Typed, Holding
    <3> HIDE DEF i
    <3>4. worker' \in [Workers -> [pc: {"idle", "claim", "work"}, on: Items \cup {None},
                                   epoch: 0..MaxAttempts, token: Nat]]
      <4> DEFINE r == [worker[w] EXCEPT !.pc = "work", !.epoch = item[i].epoch + 1,
                                        !.token = claims[i] + 1]
      <4>1. r \in [pc: {"idle", "claim", "work"}, on: Items \cup {None},
                   epoch: 0..MaxAttempts, token: Nat]
        BY <1>0, <3>2
      <4>2. worker' = [worker EXCEPT ![w] = r]
        BY <2>5
      <4> HIDE DEF r
      <4> QED BY <1>0, <4>1, <4>2
    <3> QED BY <3>3, <3>4
  <2>9. batch' \in [state: BatchStates, incomplete: BOOLEAN] /\ claims' \in [Items -> Nat]
    BY <1>0, <2>1, <2>6 DEF BatchStates
  <2> QED BY <2>6, <2>7, <2>8, <2>9 DEF Typed, TypeOK
<1>5. CASE \E outcome \in {"succeeded", "failed"} : Finalize(w, outcome)
  <2>1. PICK outcome \in {"succeeded", "failed"} : Finalize(w, outcome)
    BY <1>5
  <2>2. i \in Items /\ item[i] \in Item /\ item[i].epoch = item[i].attempt
    BY <2>1, OnItem DEF Finalize, Typed, EpochIsAttempt
  <2>3. PICK state \in {"succeeded", "failed", "dead_lettered"} :
          item' = [item EXCEPT ![i].state = state, ![i].owner = 0, ![i].live = FALSE]
    BY <2>1 DEF Finalize
  <2> DEFINE k == [item[i] EXCEPT !.state = state, !.owner = 0, !.live = FALSE]
  <2>4. k \in Item /\ k.epoch = k.attempt
    BY <2>2, <2>3 DEF Item, ItemStates
  <2>5. item' = [item EXCEPT ![i] = k]
    BY <2>3
  <2> HIDE DEF k, i
  <2>6. item' \in [Items -> Item] /\ EpochIsAttempt'
    BY <2>2, <2>4, <2>5, ItemTyped
  <2>7. batch' \in [state: BatchStates, incomplete: BOOLEAN]
    <3>1. batch' = [batch EXCEPT !.state = Reduced(item')]
      BY <2>1 DEF Finalize
    <3>2. Reduced(item') \in BatchStates
      BY DEF Reduced, BatchStates
    <3> QED BY <1>0, <3>1, <3>2
  <2>8. Rests(w) /\ UNCHANGED <<claims, create>>
    BY <2>1 DEF Finalize, Done, Rests
  <2> QED BY <2>6, <2>7, <2>8, DoneTyped DEF Typed, TypeOK
<1> QED BY <1>1, <1>2, <1>3, <1>4, <1>5 DEF WorkerStep

LEMMA TypedStep == Typed /\ [Next]_vars => Typed'
<1>1. ASSUME Typed, UNCHANGED vars PROVE Typed'
  BY <1>1 DEF vars, Typed, TypeOK, Holding, EpochIsAttempt
<1> QED BY <1>1, CreateTyped, DeliveryTyped, WorkerTyped DEF Next

\* The batch, its items and its consumers keep their types: no item is claimed
\* more often than its batch allows, and its epoch counts its claims.
THEOREM Typing == Spec => []TypeOK
<1>1. Spec => []Typed
  BY TypedStart, TypedStep, PTL DEF Spec
<1>2. Typed => TypeOK
  BY DEF Typed
<1> QED BY <1>1, <1>2, PTL

----------------------------------------------------------------------------
(* One holder.                                                              *)

\* Of several consumers working on one item at most one can finalize it: the
\* claim is fenced by its token, although a lease that ran out is no bar, an
\* epoch comes again when a create call writes the item anew, and the earlier
\* holders never learn of the takeover before they try.
OneHolder ==
  \A v, w \in Workers :
    /\ worker[v].pc = "work" /\ worker[w].pc = "work" /\ worker[v].on = worker[w].on
    /\ Owns(v) /\ Owns(w)
    => v = w

\* A token was drawn by a claim that has been made, and by one consumer only.
TokensDrawn ==
  \A w \in Workers : worker[w].pc = "work" => worker[w].token \in 1..claims[worker[w].on]

TokensApart ==
  \A v, w \in Workers :
    v # w /\ worker[v].pc = "work" /\ worker[w].pc = "work" /\ worker[v].on = worker[w].on
    => worker[v].token # worker[w].token

Tokens == TokensDrawn /\ TokensApart

LEMMA TokensStart == Init => Tokens
BY DEF Init, Idle, Tokens, TokensDrawn, TokensApart

\* A step that leaves the claims alone and brings no consumer to work.
LEMMA TokensSame ==
  ASSUME Tokens, claims' = claims,
         \A w \in Workers : worker'[w] = worker[w] \/ worker'[w].pc # "work"
  PROVE  Tokens'
<1>1. TokensDrawn'
  BY DEF Tokens, TokensDrawn
<1>2. ASSUME NEW v \in Workers, NEW w \in Workers, v # w,
             worker'[v].pc = "work", worker'[w].pc = "work", worker'[v].on = worker'[w].on
      PROVE  worker'[v].token # worker'[w].token
  <2>1. worker'[v] = worker[v] /\ worker'[w] = worker[w]
    BY <1>2
  <2> QED BY <1>2, <2>1 DEF Tokens, TokensApart
<1> QED BY <1>1, <1>2 DEF Tokens, TokensApart

\* A claim draws a token beyond all that were drawn for the item.
LEMMA TokensClaim ==
  ASSUME Typed, Tokens, NEW w \in Workers, ClaimItem(w)
  PROVE  Tokens'
<1> DEFINE i == worker[w].on
<1>1. i \in Items /\ claims \in [Items -> Nat]
  BY OnItem DEF ClaimItem, Typed, TypeOK
<1>2. claims' = [claims EXCEPT ![i] = claims[i] + 1]
  BY DEF ClaimItem
<1>3. /\ worker'[w].pc = "work" /\ worker'[w].on = i /\ worker'[w].token = claims[i] + 1
      /\ \A v \in Workers \ {w} : worker'[v] = worker[v]
  BY DEF ClaimItem, Typed, TypeOK
<1>4. \A v \in Workers : worker[v].pc = "work" => worker[v].on \in Items
  BY DEF Typed, Holding
<1> HIDE DEF i
<1>5. ASSUME NEW v \in Workers \ {w}, worker[v].pc = "work"
      PROVE  /\ worker[v].token \in 1..claims'[worker[v].on]
             /\ worker[v].on = i => worker[v].token # claims[i] + 1
  <2>1. worker[v].token \in 1..claims[worker[v].on] /\ worker[v].on \in Items
    BY <1>4, <1>5 DEF Tokens, TokensDrawn
  <2>2. CASE worker[v].on = i
    BY <1>1, <1>2, <2>1, <2>2
  <2>3. CASE worker[v].on # i
    BY <1>1, <1>2, <2>1, <2>3
  <2> QED BY <2>2, <2>3
<1>6. TokensDrawn'
  <2>1. ASSUME NEW v \in Workers, worker'[v].pc = "work"
        PROVE  worker'[v].token \in 1..claims'[worker'[v].on]
    <3>1. CASE v = w
      BY <1>1, <1>2, <1>3, <3>1
    <3>2. CASE v # w
      BY <1>3, <1>5, <2>1, <3>2
    <3> QED BY <3>1, <3>2
  <2> QED BY <2>1 DEF TokensDrawn
<1>7. TokensApart'
  <2>1. ASSUME NEW u \in Workers, NEW v \in Workers, u # v,
               worker'[u].pc = "work", worker'[v].pc = "work", worker'[u].on = worker'[v].on
        PROVE  worker'[u].token # worker'[v].token
    <3>1. CASE u = w
      BY <1>3, <1>5, <2>1, <3>1
    <3>2. CASE v = w
      BY <1>3, <1>5, <2>1, <3>2
    <3>3. CASE u # w /\ v # w
      BY <1>3, <2>1, <3>3 DEF Tokens, TokensApart
    <3> QED BY <3>1, <3>2, <3>3
  <2> QED BY <2>1 DEF TokensApart
<1> QED BY <1>6, <1>7 DEF Tokens

LEMMA TokensStep == Typed /\ Tokens /\ [Next]_vars => Tokens'
<1> SUFFICES ASSUME Typed, Tokens, [Next]_vars PROVE Tokens'
  OBVIOUS
<1>1. CASE UNCHANGED vars
  BY <1>1, TokensSame DEF vars
<1>2. ASSUME NEW c \in Creates, CreateStep(c) PROVE Tokens'
  <2>1. UNCHANGED <<claims, worker>>
    BY <1>2 DEF CreateStep, CreateBatch, CreateDone, CreateFails, WriteItem, delivery
  <2> QED BY <2>1, TokensSame
<1>3. ASSUME NEW i \in Items,
             Publish(i) \/ MarkDispatched(i) \/ Lapse(i) \/ Expire(i) \/ DropMessage(i)
      PROVE  Tokens'
  <2>1. UNCHANGED <<claims, worker>>
    BY <1>3 DEF Publish, MarkDispatched, Lapse, Expire, DropMessage, delivery
  <2> QED BY <2>1, TokensSame
<1>4. ASSUME NEW w \in Workers, WorkerStep(w) \/ Crash(w) PROVE Tokens'
  <2>0. \A v \in Workers : worker[v] \in [pc: {"idle", "claim", "work"}, on: Items \cup {None},
                                          epoch: 0..MaxAttempts, token: Nat]
    BY DEF Typed, TypeOK
  <2>1. CASE ClaimItem(w)
    BY <2>1, TokensClaim
  <2>2. CASE \E j \in Items : Receive(w, j)
    <3>1. PICK j \in Items : Receive(w, j)
      BY <2>2
    <3>2. claims' = claims
          /\ (worker' = worker \/ worker' = [worker EXCEPT ![w].pc = "claim", ![w].on = j])
      BY <3>1 DEF Receive
    <3>3. \A v \in Workers : worker'[v] = worker[v] \/ worker'[v].pc # "work"
      BY <3>2 DEF Typed, TypeOK
    <3> QED BY <3>2, <3>3, TokensSame
  <2>3. CASE \/ ClaimNothing(w) \/ DeadLetter(w) \/ Refused(w) \/ Crash(w)
             \/ \E outcome \in {"succeeded", "failed"} : Finalize(w, outcome)
    <3>1. Rests(w) /\ claims' = claims
      BY <2>3 DEF ClaimNothing, DeadLetter, Refused, Crash, Finalize, Done, Rests
    <3>2. \A v \in Workers : worker'[v] = worker[v] \/ worker'[v].pc # "work"
      BY <3>1 DEF Rests, Idle, Typed, TypeOK
    <3> QED BY <3>1, <3>2, TokensSame
  <2> QED BY <1>4, <2>1, <2>2, <2>3 DEF WorkerStep
<1> QED BY <1>1, <1>2, <1>3, <1>4 DEF Next

\* Whatever leases run out and whoever takes over, an item has one consumer
\* that can finalize it: nobody else holds the token stored in it.
THEOREM OneHolderHolds == Spec => []OneHolder
<1>1. Spec => [](Typed /\ Tokens)
  BY TypedStart, TypedStep, TokensStart, TokensStep, PTL DEF Spec
<1>2. Tokens => OneHolder
  BY DEF Tokens, TokensApart, OneHolder, Owns
<1> QED BY <1>1, <1>2, PTL

----------------------------------------------------------------------------
(* Fan-in.                                                                  *)

\* The reduction asks for nothing but the state of each item.
LEMMA SameReduction ==
  ASSUME NEW f, NEW g, \A i \in Items : f[i].state = g[i].state
  PROVE  Reduced(f) = Reduced(g)
<1>1. /\ {i \in Items : f[i].state \in Terminal} = {i \in Items : g[i].state \in Terminal}
      /\ {i \in Items : f[i].state = "succeeded"} = {i \in Items : g[i].state = "succeeded"}
  OBVIOUS
<1> QED BY <1>1 DEF Reduced

\* What each verdict of the reduction means.
LEMMA ReducedMeans ==
  ASSUME NEW f
  PROVE  /\ Reduced(f) \in Ended => \A i \in Items : f[i].state \in Terminal
         /\ Reduced(f) = "complete" => \A i \in Items : f[i].state = "succeeded"
<1> DEFINE over == {i \in Items : f[i].state \in Terminal}
           good == {i \in Items : f[i].state = "succeeded"}
<1>1. over # Items => Reduced(f) = "running"
  BY DEF Reduced
<1>2. good # Items => Reduced(f) # "complete"
  BY DEF Reduced
<1> QED BY <1>1, <1>2 DEF Ended

\* With every create call at rest, a batch that says it has ended has no item
\* that could still change.
LEMMA Settled ==
  ASSUME FanInIsTrue, Quiet, batch.state \in Ended,
         ~batch.incomplete \/ batch.state = "complete"
  PROVE  \A i \in Items : item[i].state \in Terminal
<1>1. CASE batch.state = "complete"
  BY <1>1 DEF FanInIsTrue, Terminal
<1>2. CASE ~batch.incomplete
  <2>1. Reduced(item) \in Ended
    BY <1>2 DEF FanInIsTrue
  <2> QED BY <2>1, ReducedMeans
<1> QED BY <1>1, <1>2

\* A step that keeps the state of every item keeps what the batch says.
LEMMA SameFanIn ==
  ASSUME FanInIsTrue, UNCHANGED <<batch, create>>,
         \A i \in Items : item'[i].state = item[i].state
  PROVE  FanInIsTrue'
<1>1. Reduced(item') = Reduced(item)
  BY SameReduction
<1>2. Quiet' = Quiet
  BY DEF Quiet
<1>3. Reduced(item)' = Reduced(item')
  BY DEF Reduced, Enough
<1> QED BY <1>1, <1>2, <1>3 DEF FanInIsTrue

\* A create call that ends leaves a batch that has not ended, or says it is
\* incomplete; one that has begun, or died too late, keeps it from being quiet.
LEMMA CreateFanIn ==
  ASSUME Typed, FanInIsTrue, NEW c \in Creates, CreateStep(c)
  PROVE  FanInIsTrue'
<1>0. /\ batch \in [state: BatchStates, incomplete: BOOLEAN]
      /\ create \in [Creates -> [pc: {"idle", "writing", "over", "dead"}, left: SUBSET Items]]
  BY DEF Typed, TypeOK
<1>1. CASE CreateBatch(c)
  <2>1. CASE Creatable
    <3>1. create'[c].pc = "writing"
      BY <1>0, <1>1, <2>1 DEF CreateBatch
    <3> QED BY <3>1 DEF Quiet, FanInIsTrue
  <2>2. CASE ~Creatable
    <3>1. /\ UNCHANGED <<batch, item>> /\ create' = [create EXCEPT ![c].pc = "over"]
          /\ create[c].pc = "idle"
      BY <1>1, <2>2 DEF CreateBatch
    <3>2. Quiet' => Quiet
      BY <1>0, <3>1 DEF Quiet
    <3> QED BY <3>1, <3>2 DEF FanInIsTrue, Reduced
  <2> QED BY <2>1, <2>2
<1>2. CASE CreateDone(c)
  <2>1. batch'.state = "pending"
    BY <1>0, <1>2 DEF CreateDone
  <2> QED BY <2>1 DEF FanInIsTrue, Ended
<1>3. CASE CreateFails(c)
  <2>1. \/ batch'.incomplete = TRUE /\ batch'.state = "failed"
        \/ batch' = batch /\ batch.state = "initializing"
        \/ create' = [create EXCEPT ![c].pc = "dead"]
    BY <1>3 DEF CreateFails
  <2>2. CASE batch'.incomplete = TRUE /\ batch'.state = "failed"
    BY <2>2 DEF FanInIsTrue
  <2>3. CASE create' = [create EXCEPT ![c].pc = "dead"]
    <3>1. create'[c].pc = "dead"
      BY <1>0, <2>3
    <3> QED BY <3>1 DEF FanInIsTrue, Quiet
  <2>4. CASE batch' = batch /\ batch.state = "initializing"
    BY <2>4 DEF FanInIsTrue, Ended
  <2> QED BY <2>1, <2>2, <2>3, <2>4
<1>4. CASE \E i \in Items : WriteItem(c, i)
  <2>1. PICK i \in Items : WriteItem(c, i)
    BY <1>4
  <2>2. create[c].pc = "writing" /\ create' = [create EXCEPT ![c].left = create[c].left \ {i}]
    BY <2>1 DEF WriteItem
  <2>3. create'[c].pc = "writing"
    BY <1>0, <2>2
  <2> QED BY <2>3 DEF FanInIsTrue, Quiet
<1> QED BY <1>1, <1>2, <1>3, <1>4 DEF CreateStep

\* Delivery changes no state of an item.
LEMMA DeliveryFanIn ==
  ASSUME Typed, FanInIsTrue, NEW i \in Items,
         Publish(i) \/ MarkDispatched(i) \/ Lapse(i) \/ Expire(i) \/ DropMessage(i)
  PROVE  FanInIsTrue'
<1>0. item \in [Items -> Item]
  BY DEF Typed, TypeOK
<1>1. UNCHANGED <<batch, create>>
  BY DEF Publish, MarkDispatched, Lapse, Expire, DropMessage
<1>2. \/ item' = item \/ item' = [item EXCEPT ![i].sent = TRUE]
      \/ item' = [item EXCEPT ![i].sent = FALSE] \/ item' = [item EXCEPT ![i].live = FALSE]
  BY DEF Publish, MarkDispatched, Lapse, Expire, DropMessage
<1>3. \A j \in Items : item'[j].state = item[j].state
  BY <1>0, <1>2 DEF Item
<1> QED BY <1>1, <1>3, SameFanIn

\* Only an item that is not over is claimed or dead-lettered, so the batch does
\* not say that it has ended.
LEMMA TakenFanIn ==
  ASSUME Typed, FanInIsTrue, NEW w \in Workers, DeadLetter(w) \/ ClaimItem(w)
  PROVE  FanInIsTrue'
<1> DEFINE i == worker[w].on
<1>0. batch \in [state: BatchStates, incomplete: BOOLEAN]
  BY DEF Typed, TypeOK
<1>1. i \in Items
  BY OnItem DEF DeadLetter, ClaimItem
<1>2. item[i].state \notin Terminal
  BY DEF DeadLetter, ClaimItem, Claimable, Waiting, Terminal
<1> HIDE DEF i
<1>3. Quiet => /\ batch.state # "complete"
               /\ batch.state \in Ended => batch.incomplete
  BY <1>1, <1>2, Settled DEF Ended
<1>4. /\ Quiet' = Quiet /\ batch'.incomplete = batch.incomplete
      /\ batch'.state = batch.state \/ batch'.state = "running"
  BY <1>0 DEF DeadLetter, ClaimItem, Quiet
<1> QED BY <1>0, <1>3, <1>4 DEF FanInIsTrue, Ended

\* A finalization leaves the batch as the reduction of the items it leaves.
LEMMA FinalizeFanIn ==
  ASSUME Typed, NEW w \in Workers, NEW outcome, Finalize(w, outcome)
  PROVE  FanInIsTrue'
<1>1. batch \in [state: BatchStates, incomplete: BOOLEAN]
  BY DEF Typed, TypeOK
<1>2. batch' = [batch EXCEPT !.state = Reduced(item')]
  BY DEF Finalize
<1>3. batch'.state = Reduced(item')
  BY <1>1, <1>2
<1> QED BY <1>3, ReducedMeans DEF FanInIsTrue

LEMMA FanInStep == Typed /\ FanInIsTrue /\ [Next]_vars => FanInIsTrue'
<1> SUFFICES ASSUME Typed, FanInIsTrue, [Next]_vars PROVE FanInIsTrue'
  OBVIOUS
<1>1. CASE UNCHANGED vars
  BY <1>1, SameFanIn DEF vars
<1>2. ASSUME NEW w \in Workers, WorkerStep(w) \/ Crash(w) PROVE FanInIsTrue'
  <2>1. CASE DeadLetter(w) \/ ClaimItem(w)
    BY <2>1, TakenFanIn
  <2>2. CASE \E outcome \in {"succeeded", "failed"} : Finalize(w, outcome)
    BY <2>2, FinalizeFanIn
  <2>3. CASE (\E j \in Items : Receive(w, j)) \/ ClaimNothing(w) \/ Refused(w) \/ Crash(w)
    <3>1. UNCHANGED <<batch, item, create>>
      BY <2>3 DEF Receive, ClaimNothing, Refused, Crash
    <3> QED BY <3>1, SameFanIn
  <2> QED BY <1>2, <2>1, <2>2, <2>3 DEF WorkerStep
<1> QED BY <1>1, <1>2, CreateFanIn, DeliveryFanIn DEF Next

\* What fan-in says of a batch is, and stays, true of its items.
THEOREM FanInHolds == Spec => []FanInIsTrue
<1>1. Init => FanInIsTrue
  BY DEF Init, FanInIsTrue, Ended
<1>2. Spec => [](Typed /\ FanInIsTrue)
  BY <1>1, TypedStart, TypedStep, FanInStep, PTL DEF Spec
<1> QED BY <1>2, PTL
=============================================================================
