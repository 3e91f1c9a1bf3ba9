--------------------------- MODULE ProductionProofs ---------------------------
(* The promises of a production plan and of the budget it draws on, for any *)
(* graph of operations, any number of workers, revisions and reruns, and any *)
(* prices and limits.                                                       *)
EXTENDS ProductionPlan, FiniteSetTheorems, TLAPS

\* TypeOK but for the two running totals, which are known to be integers only:
\* that they are never negative is a matter of the sums behind them; and but for
\* the unawaited requests, which nothing else depends on.
Typed ==
  /\ reservation \in [Spends -> ReservationStates]
  /\ reserved \in [Accounts -> Int]
  /\ observed \in [Accounts -> Int]
  /\ call \in [Calls -> CallSteps]
  /\ plan \in [rev: 1..MaxRevision, state: PlanStates, run: 0..MaxRun, reserved: Nat]
  /\ expired \in BOOLEAN
  /\ claim \in [Wake -> Claim]
  /\ outbox \in [Wake -> OutboxStates]
  /\ queue \in SUBSET Wake
  /\ worker \in [Workers -> Worker]
  /\ paid \in [Wake -> Nat]

----------------------------------------------------------------------------
(* The inductive invariant, record by record and worker by worker.          *)

\* c is an identity of the approved plan or of an earlier one.
Reached(c) ==
  \/ c.rev < plan.rev
  \/ c.rev = plan.rev /\ plan.state = "approved" /\ c.run <= (IF Paid(c.op) THEN 0 ELSE plan.run)

\* Which states of a claim can be met with which other fields of it.
ClaimSound(c) ==
  /\ claim[c].state = "absent" => claim[c] = NoClaim
  /\ claim[c].state \in Final => ~claim[c].live
  /\ claim[c].state = "submitting" => ~claim[c].id
  /\ claim[c].state = "waiting" => claim[c].id

\* An outbox record exists for every claim and every wake, only of what was
\* approved; it is completed only when the claim is over, and superseded only
\* when the plan has gone on.
OutboxSound(c) ==
  /\ claim[c].state # "absent" \/ c \in queue => outbox[c] # "absent"
  /\ outbox[c] # "absent" => Reached(c)
  /\ outbox[c] = "completed" => claim[c].state \in Final
  /\ outbox[c] = "superseded" => ~Current(c)

\* The provider is asked once, and the money is given back or spent only of
\* what has failed or succeeded.
PaidSound(c) ==
  /\ paid[c] > 0 => Submitted(c)
  /\ paid[c] <= 1
  /\ reservation[c] = "released" => claim[c].state = "failed"
  /\ reservation[c] = "finalized" => claim[c].state = "succeeded"

\* What a worker relies on at each of its steps.
WorkerSound(w) ==
  LET c == worker[w].on IN
  /\ ~At(w, "idle") => 1 <= worker[w].token /\ worker[w].token <= claim[c].attempt
  /\ ~At(w, "idle") /\ ~At(w, "make") => c \in PaidWake
  /\ (At(w, "reserve") \/ At(w, "admit")) /\ Owner(w) => worker[w].resumed = claim[c].id
  /\ At(w, "start") /\ Owner(w) => ~claim[c].id
  /\ At(w, "start") /\ Owner(w) /\ claim[c].state = "claimed" => reservation[c] \in Open
  /\ At(w, "call") =>
       /\ paid[c] = 0 /\ reservation[c] \in Open
       /\ claim[c].state = "uncertain" \/ (claim[c].state = "submitting" /\ Owner(w))
  /\ At(w, "release") => claim[c].state = "failed"
  /\ At(w, "usage") => claim[c].state = "succeeded"

\* A claim has at most one owner, and one worker about to call its provider.
Alone(v, w) ==
  ~At(v, "idle") /\ ~At(w, "idle") /\ worker[v].on = worker[w].on
    /\ (worker[v].token = worker[w].token \/ (At(v, "call") /\ At(w, "call"))) => v = w

Books ==
  /\ \A c \in Wake : ClaimSound(c) /\ OutboxSound(c)
  /\ \A c \in PaidWake : PaidSound(c)
  /\ TriggerNotLost

Crew ==
  /\ \A w \in Workers : WorkerSound(w)
  /\ \A v \in Workers, w \in Workers : Alone(v, w)

Inv == Books /\ Crew

----------------------------------------------------------------------------
(* Types.                                                                   *)

\* The constants, as the provers need them.
LEMMA Consts ==
  /\ MaxRevision \in Nat \ {0} /\ MaxRun \in Nat /\ MaxAttempt \in Nat \ {0}
  /\ Ceiling \in Nat /\ Price \in [Ops -> Nat] /\ Wake # {}
  /\ PaidWake \subseteq Spends /\ PaidWake \cap Calls = {} /\ Calls \subseteq Spends
  /\ JobOf \in [Spends -> Jobs] /\ Cost \in [Spends -> Nat \ {0}] /\ Limit \in [Accounts -> Nat]
<1>1. PICK o \in Ops : TRUE
  BY PlanAssumption
<1>2. [rev |-> 1, op |-> o, run |-> 0] \in Wake
  BY <1>1, PlanAssumption DEF Wake
<1>3. Wake # {}
  BY <1>2
<1> QED BY <1>3, PlanAssumption, BudgetAssumption

\* An operation has an identity under every plan.
LEMMA IdType ==
  ASSUME Typed, NEW o \in Ops
  PROVE  Id(plan, o) \in Wake /\ Id(plan, o).op = o
BY Consts DEF Typed, Id, Wake

\* A worker without a wake.
LEMMA IdleType == Idle \in Worker
<1>1. (CHOOSE c \in Wake : TRUE) \in Wake
  BY Consts
<1> QED BY <1>1, Consts DEF Idle, Worker, WorkerSteps

\* A claim that was never made.
LEMMA NoClaimType == NoClaim \in Claim
BY Consts DEF NoClaim, Claim, ClaimStates

\* Init establishes the types.
LEMMA InitTyped == Init => Typed
<1> SUFFICES ASSUME Init PROVE Typed
  OBVIOUS
<1> USE DEF Init, BudgetInit
<1>1. plan \in [rev: 1..MaxRevision, state: PlanStates, run: 0..MaxRun, reserved: Nat]
  BY Consts DEF PlanStates
<1>2. claim \in [Wake -> Claim] /\ worker \in [Workers -> Worker]
  BY NoClaimType, IdleType
<1>3. outbox \in [Wake -> OutboxStates] /\ paid \in [Wake -> Nat] /\ queue \in SUBSET Wake
  BY DEF OutboxStates
<1>4. /\ reservation \in [Spends -> ReservationStates] /\ call \in [Calls -> CallSteps]
      /\ reserved \in [Accounts -> Int] /\ observed \in [Accounts -> Int]
  BY DEF ReservationStates, CallSteps
<1> QED BY <1>1, <1>2, <1>3, <1>4 DEF Typed

\* A usage is an amount within what was reserved for it.
LEMMA UsageFits ==
  ASSUME NEW s \in Spends, NEW u \in Usages(s)
  PROVE  u \in Int /\ u <= Cost[s]
<1>1. Cost[s] \in Int
  BY Consts
<1> QED BY <1>1 DEF Usages

\* The books keep their types, whichever transaction moves them.
LEMMA BudgetTyped ==
  ASSUME Typed, NEW s \in Spends,
         \/ \E a \in BOOLEAN : Reserve(s, a)
         \/ FinalizeUsage(s) \/ ResolveUncertain(s) \/ ResolveNotInvoked(s) \/ UNCHANGED budget
  PROVE  /\ reservation' \in [Spends -> ReservationStates]
         /\ reserved' \in [Accounts -> Int]
         /\ observed' \in [Accounts -> Int]
<1>1. Cost[s] \in Int
  BY Consts
<1>3. Moved(reserved, s, Cost[s]) \in [Accounts -> Int]
      /\ Moved(reserved, s, -Cost[s]) \in [Accounts -> Int]
      /\ \A u \in Usages(s) : Moved(observed, s, u) \in [Accounts -> Int]
  BY <1>1, UsageFits DEF Typed, Moved
<1>4. /\ "reserved" \in ReservationStates /\ "rejected" \in ReservationStates
      /\ "finalized" \in ReservationStates /\ "released" \in ReservationStates
      /\ "uncertain" \in ReservationStates
  BY DEF ReservationStates
<1>5. CASE UNCHANGED budget
  BY <1>5 DEF budget, Typed
<1>6. CASE \E a \in BOOLEAN : Reserve(s, a)
  BY <1>6, <1>3, <1>4 DEF Reserve, budget, Typed
<1>7. CASE FinalizeUsage(s)
  <2>1. PICK u \in Usages(s) :
             /\ reservation' = [reservation EXCEPT ![s] = "finalized"]
             /\ reserved' = Moved(reserved, s, -Cost[s])
             /\ observed' = Moved(observed, s, u)
    BY <1>7 DEF FinalizeUsage
  <2> QED BY <2>1, <1>3, <1>4 DEF Typed
<1>8. CASE ResolveUncertain(s)
  BY <1>8, <1>4 DEF ResolveUncertain, Typed
<1>9. CASE ResolveNotInvoked(s)
  BY <1>9, <1>3, <1>4 DEF ResolveNotInvoked, budget, Typed
<1> QED BY <1>5, <1>6, <1>7, <1>8, <1>9

----------------------------------------------------------------------------
(* What the changes of a record are, field by field.                        *)

\* Only the claim c changes, and it stays the same claimant's.
Rewrites(c, state, live, id) ==
  /\ claim' \in [Wake -> Claim]
  /\ claim'[c].state = state /\ claim'[c].live = live /\ claim'[c].id = id
  /\ claim'[c].attempt = claim[c].attempt
  /\ \A d \in Wake : d # c => claim'[d] = claim[d]

\* A claim that ends keeps its claimant and its provider identity.
LEMMA SettledFacts ==
  ASSUME Typed, NEW c \in Wake, NEW s \in Final, Settled(c, s)
  PROVE  Rewrites(c, s, FALSE, claim[c].id)
<1>1. claim[c] \in Claim /\ claim \in [Wake -> Claim]
  BY DEF Typed
<1>2. claim' = [claim EXCEPT ![c] = [claim[c] EXCEPT !.state = s, !.live = FALSE]]
  BY <1>1 DEF Settled
<1>3. [claim[c] EXCEPT !.state = s, !.live = FALSE] \in Claim
  BY <1>1 DEF Claim, ClaimStates, Final
<1> QED BY <1>1, <1>2, <1>3 DEF Rewrites, Claim

\* A lease that runs out changes nothing else.
LEMMA ExpireFacts ==
  ASSUME Typed, NEW c \in Wake, Expire(c)
  PROVE  Rewrites(c, claim[c].state, FALSE, claim[c].id)
<1>1. claim[c] \in Claim /\ claim \in [Wake -> Claim]
  BY DEF Typed
<1>2. claim' = [claim EXCEPT ![c] = [claim[c] EXCEPT !.live = FALSE]]
  BY <1>1 DEF Expire
<1>3. [claim[c] EXCEPT !.live = FALSE] \in Claim
  BY <1>1 DEF Claim
<1> QED BY <1>1, <1>2, <1>3 DEF Rewrites, Claim

\* A worker that is where it should be holds a wake.
LEMMA OnType ==
  ASSUME Typed, NEW w \in Workers
  PROVE  worker[w].on \in Wake /\ worker[w] \in Worker /\ claim[worker[w].on] \in Claim
BY DEF Typed, Worker

\* A submission begins.
LEMMA StartFacts ==
  ASSUME Typed, NEW w \in Workers, StartSubmission(w)
  PROVE  LET c == worker[w].on IN
         Rewrites(c, "submitting", claim[c].live, claim[c].id)
<1> DEFINE c == worker[w].on
<1>1. claim[c] \in Claim /\ claim \in [Wake -> Claim] /\ c \in Wake
  BY OnType DEF Typed
<1>2. claim' = [claim EXCEPT ![c] = [claim[c] EXCEPT !.state = "submitting"]]
  BY <1>1 DEF StartSubmission
<1>3. [claim[c] EXCEPT !.state = "submitting"] \in Claim
  BY <1>1 DEF Claim, ClaimStates
<1> QED BY <1>1, <1>2, <1>3 DEF Rewrites, Claim

\* The provider's identity is stored and the lease renewed.
LEMMA RecordFacts ==
  ASSUME Typed, NEW w \in Workers, RecordProvider(w)
  PROVE  LET c == worker[w].on IN
         /\ Rewrites(c, "waiting", TRUE, TRUE)
         /\ outbox' = [outbox EXCEPT ![c] = "open"]
<1> DEFINE c == worker[w].on
<1>1. claim[c] \in Claim /\ claim \in [Wake -> Claim] /\ c \in Wake
  BY OnType DEF Typed
<1>2. claim' = [claim EXCEPT ![c] = [claim[c] EXCEPT !.state = "waiting", !.id = TRUE, !.live = TRUE]]
  BY <1>1 DEF RecordProvider
<1>3. [claim[c] EXCEPT !.state = "waiting", !.id = TRUE, !.live = TRUE] \in Claim
  BY <1>1 DEF Claim, ClaimStates
<1> QED BY <1>1, <1>2, <1>3 DEF Rewrites, Claim, RecordProvider

\* A claim is taken, or taken over, under a new token.
LEMMA ClaimFacts ==
  ASSUME Typed, NEW w \in Workers, NEW c \in Wake, ClaimOperation(w, c)
  PROVE  /\ claim' \in [Wake -> Claim]
         /\ claim'[c].state = "claimed" /\ claim'[c].live = TRUE /\ claim'[c].id = claim[c].id
         /\ claim'[c].attempt = claim[c].attempt + 1 /\ claim[c].attempt \in Nat
         /\ \A d \in Wake : d # c => claim'[d] = claim[d]
         /\ worker' \in [Workers -> Worker]
         /\ worker'[w].pc = (IF Paid(c.op) THEN "reserve" ELSE "make")
         /\ worker'[w].on = c /\ worker'[w].token = claim[c].attempt + 1
         /\ worker'[w].resumed = claim[c].id
         /\ \A v \in Workers : v # w => worker'[v] = worker[v]
<1> DEFINE k == [claim[c] EXCEPT !.state = "claimed", !.attempt = @ + 1, !.live = TRUE]
           u == [pc |-> IF Paid(c.op) THEN "reserve" ELSE "make", on |-> c,
                 token |-> claim[c].attempt + 1, resumed |-> claim[c].id, valid |-> ~expired,
                 id |-> claim[c].id, settle |-> FALSE]
<1>1. claim[c] \in Claim /\ claim \in [Wake -> Claim] /\ worker \in [Workers -> Worker]
      /\ claim[c].attempt \in 0..MaxAttempt /\ claim[c].id \in BOOLEAN
  BY DEF Typed, Claim
<1>2. claim' = [claim EXCEPT ![c] = k]
  BY <1>1 DEF ClaimOperation
<1>3. worker' = [worker EXCEPT ![w] = u]
  BY DEF ClaimOperation
<1>4. claim[c].attempt + 1 \in 0..MaxAttempt /\ claim[c].attempt \in Nat
  BY <1>1, Consts DEF ClaimOperation
<1>5. k \in Claim
  BY <1>1, <1>4 DEF Claim, ClaimStates
<1>6. (~expired) \in BOOLEAN
  OBVIOUS
<1>7. u \in Worker
  BY <1>1, <1>4, <1>6 DEF Worker, WorkerSteps
<1>8. k.state = "claimed" /\ k.live = TRUE /\ k.id = claim[c].id /\ k.attempt = claim[c].attempt + 1
  BY <1>1 DEF Claim
<1>9. claim' \in [Wake -> Claim] /\ claim'[c] = k /\ \A d \in Wake : d # c => claim'[d] = claim[d]
  BY <1>1, <1>2, <1>5
<1>10. worker' \in [Workers -> Worker] /\ worker'[w] = u
       /\ \A v \in Workers : v # w => worker'[v] = worker[v]
  BY <1>1, <1>3, <1>7
<1> HIDE DEF k
<1> QED BY <1>4, <1>8, <1>9, <1>10

\* Worker w goes on with the wake it holds.
Moves(w, pc) ==
  /\ worker' \in [Workers -> Worker]
  /\ worker'[w].pc = pc /\ worker'[w].on = worker[w].on
  /\ worker'[w].token = worker[w].token /\ worker'[w].resumed = worker[w].resumed
  /\ \A v \in Workers : v # w => worker'[v] = worker[v]

\* Worker w is done with its wake.
Frees(w) ==
  /\ worker' \in [Workers -> Worker]
  /\ worker'[w].pc = "idle"
  /\ \A v \in Workers : v # w => worker'[v] = worker[v]

\* A step from one web request to the next.
LEMMA GoesFacts ==
  ASSUME Typed, NEW w \in Workers, NEW pc \in WorkerSteps, Goes(w, pc)
  PROVE  Moves(w, pc)
<1>1. worker[w] \in Worker /\ worker \in [Workers -> Worker]
  BY DEF Typed
<1>2. worker' = [worker EXCEPT ![w] = [worker[w] EXCEPT !.pc = pc]]
  BY <1>1 DEF Goes
<1>3. [worker[w] EXCEPT !.pc = pc] \in Worker
  BY <1>1 DEF Worker
<1> QED BY <1>1, <1>2, <1>3 DEF Moves, Worker

\* A step to the refusal.
LEMMA RefusesFacts ==
  ASSUME Typed, NEW w \in Workers, NEW s \in BOOLEAN, Refuses(w, s)
  PROVE  Moves(w, "refuse")
<1>1. worker[w] \in Worker /\ worker \in [Workers -> Worker]
  BY DEF Typed
<1>2. worker' = [worker EXCEPT ![w] = [worker[w] EXCEPT !.pc = "refuse", !.settle = s]]
  BY <1>1 DEF Refuses
<1>3. [worker[w] EXCEPT !.pc = "refuse", !.settle = s] \in Worker
  BY <1>1 DEF Worker, WorkerSteps
<1> QED BY <1>1, <1>2, <1>3 DEF Moves, Worker

\* The end of a delivery.
LEMMA ReleasedFacts ==
  ASSUME Typed, NEW w \in Workers, NEW a \in BOOLEAN, Released(w, a)
  PROVE  Frees(w) /\ queue' \in SUBSET Wake /\ queue' \subseteq queue
<1>1. Idle \in Worker /\ Idle.pc = "idle" /\ worker \in [Workers -> Worker]
  BY IdleType DEF Typed, Idle
<1>2. worker' = [worker EXCEPT ![w] = Idle]
  BY DEF Released
<1> QED BY <1>1, <1>2 DEF Frees, Typed, Released

----------------------------------------------------------------------------
(* The workers that a step does not move.                                   *)

\* Worker v, who stays where it is, keeps what it relies on: its claim changes
\* only in the hands of another owner, by its lease, or to be closed over a
\* lost submission, and the money of a claim that is not over stays aside.
LEMMA KeepsWorker ==
  ASSUME Typed, Inv, NEW v \in Workers, worker'[v] = worker[v], NEW k, k = worker[v].on,
         \/ claim'[k] = claim[k]
         \/ /\ claim'[k].attempt \in Nat /\ claim'[k].attempt >= claim[k].attempt
            /\ claim'[k].attempt # worker[v].token
            /\ claim[k].state \notin Final /\ ~At(v, "call")
         \/ /\ claim'[k].attempt = claim[k].attempt /\ claim'[k].id = claim[k].id
            /\ claim'[k].state = claim[k].state
         \/ /\ claim'[k].attempt = claim[k].attempt /\ claim'[k].id = claim[k].id
            /\ claim[k].state \notin Final /\ claim'[k].state = "uncertain",
         paid'[k] = paid[k] \/ ~At(v, "call"),
         reservation[k] \in Open => reservation'[k] \in Open \/ claim[k].state \in {"failed", "succeeded"}
  PROVE  WorkerSound(v)'
<1>1. WorkerSound(v) /\ k \in Wake /\ claim[k].attempt \in Nat /\ worker[v].token \in Nat
  BY OnType, Consts DEF Inv, Crew, Claim, Worker
<1>2. At(v, "call") => claim[k].state \in {"uncertain", "submitting"}
  BY <1>1 DEF WorkerSound
<1> USE DEF WorkerSound, At, Owner, Final
<1>3. (~At(v, "idle") => 1 <= worker[v].token /\ worker[v].token <= claim[k].attempt)'
  BY <1>1
<1>4. (~At(v, "idle") /\ ~At(v, "make") => k \in PaidWake)'
  BY <1>1
<1>5. ((At(v, "reserve") \/ At(v, "admit")) /\ Owner(v) => worker[v].resumed = claim[k].id)'
  BY <1>1
<1>6. (At(v, "start") /\ Owner(v) => ~claim[k].id)'
  BY <1>1
<1>7. (At(v, "start") /\ Owner(v) /\ claim[k].state = "claimed" => reservation[k] \in Open)'
  BY <1>1
<1>8. (At(v, "call") =>
         /\ paid[k] = 0 /\ reservation[k] \in Open
         /\ claim[k].state = "uncertain" \/ (claim[k].state = "submitting" /\ Owner(v)))'
  BY <1>1, <1>2
<1>9. (At(v, "release") => claim[k].state = "failed")' /\ (At(v, "usage") => claim[k].state = "succeeded")'
  BY <1>1
<1> QED BY <1>3, <1>4, <1>5, <1>6, <1>7, <1>8, <1>9

\* Who owns a claim is alone with it.
LEMMA OtherOwner ==
  ASSUME Typed, Inv, NEW v \in Workers, NEW w \in Workers, v # w,
         ~At(w, "idle"), ~At(v, "idle"), Owner(w), worker[v].on = worker[w].on
  PROVE  ~Owner(v)
BY DEF Inv, Crew, Alone, Owner

\* A worker that moves on, or is done, stays alone.
LEMMA StaysAlone ==
  ASSUME Typed, Inv, NEW w \in Workers, NEW pc,
         \/ Frees(w)
         \/ /\ Moves(w, pc) /\ ~At(w, "idle")
            /\ pc # "call" \/ \A v \in Workers : At(v, "call") => worker[v].on # worker[w].on
  PROVE  \A u \in Workers, v \in Workers : Alone(u, v)'
<1> SUFFICES ASSUME NEW u \in Workers, NEW v \in Workers PROVE Alone(u, v)'
  OBVIOUS
<1>1. Alone(u, v) /\ Alone(v, u)
  BY DEF Inv, Crew
<1>2. CASE Frees(w)
  BY <1>1, <1>2 DEF Alone, Frees, At
<1>3. CASE ~Frees(w)
  BY <1>1, <1>3 DEF Alone, Moves, At
<1> QED BY <1>2, <1>3

----------------------------------------------------------------------------
(* The records that a step changes.                                         *)

\* The money of a paid operation moves as its claim allows.
MoneyFits ==
  \A d \in PaidWake :
    \/ reservation'[d] = reservation[d]
    \/ reservation'[d] \in {"reserved", "rejected", "uncertain"}
    \/ reservation'[d] = "released" /\ claim[d].state = "failed"
    \/ reservation'[d] = "finalized" /\ claim[d].state = "succeeded"

\* A wake is sent only of an open record.
QueueFits == \A d \in Wake : d \in queue' => d \in queue \/ outbox[d] = "open"

\* A step that changes no claim and no outbox record keeps the books sound.
LEMMA KeepsBooks ==
  ASSUME Typed, Inv, plan' = plan, claim' = claim, outbox' = outbox, paid' = paid,
         MoneyFits, QueueFits
  PROVE  Books'
<1> USE DEF Inv, Books
<1>1. ASSUME NEW c \in Wake PROVE (ClaimSound(c) /\ OutboxSound(c))'
  BY <1>1 DEF ClaimSound, OutboxSound, QueueFits, Reached, Current, Id
<1>2. ASSUME NEW c \in PaidWake PROVE PaidSound(c)'
  <2>1. PaidSound(c)
    BY <1>2
  <2> QED BY <2>1, <1>2 DEF PaidSound, MoneyFits, Submitted
<1>3. TriggerNotLost'
  BY DEF TriggerNotLost, Claimable, Current, Done, Id
<1> QED BY <1>1, <1>2, <1>3

\* The claim c, which is not over, changes without success: its record is
\* closed only with it, and opened only if it was there.
LEMMA RewriteBooks ==
  ASSUME Typed, Inv, NEW c \in Wake, NEW s, NEW live, NEW id,
         plan' = plan, paid' = paid, reservation' = reservation, QueueFits,
         Rewrites(c, s, live, id), claim[c].state \notin Final, claim[c].state # "absent",
         \/ s \in {"failed", "uncertain"} /\ ~live
         \/ s = "submitting" /\ ~id
         \/ s = "waiting" /\ id
         \/ s = claim[c].state /\ id = claim[c].id,
         \/ outbox' = outbox
         \/ s = "waiting" /\ outbox' = [outbox EXCEPT ![c] = "open"]
         \/ s \in {"failed", "uncertain"} /\ outbox' = [outbox EXCEPT ![c] = "completed"]
  PROVE  Books'
<1> USE DEF Inv, Books
<1>0. claim[c] \in Claim /\ outbox \in [Wake -> OutboxStates] /\ ClaimSound(c) /\ OutboxSound(c)
  BY DEF Typed
<1>1. ASSUME NEW d \in Wake PROVE ClaimSound(d)'
  <2>1. CASE d # c
    BY <2>1, <1>1 DEF ClaimSound, Rewrites
  <2>2. CASE d = c
    BY <2>2, <1>0 DEF ClaimSound, Rewrites, Final
  <2> QED BY <2>1, <2>2
<1>2. ASSUME NEW d \in Wake PROVE OutboxSound(d)'
  <2>0. OutboxSound(d) /\ (Reached(d)' <=> Reached(d)) /\ (Current(d)' <=> Current(d))
    BY <1>2 DEF Reached, Current, Id
  <2>1. CASE d # c
    <3>1. outbox'[d] = outbox[d] /\ claim'[d] = claim[d]
      BY <2>1, <1>0, <1>2 DEF Rewrites
    <3> QED BY <3>1, <2>0, <1>2 DEF OutboxSound, QueueFits
  <2>2. CASE d = c
    <3>1. claim'[c].state = s
      BY DEF Rewrites
    <3>2. outbox[c] # "absent"
      BY <1>0 DEF OutboxSound
    <3>3. \/ outbox'[c] = outbox[c]
          \/ outbox'[c] = "open"
          \/ outbox'[c] = "completed" /\ s \in Final
      BY <1>0 DEF Final
    <3> QED BY <3>1, <3>2, <3>3, <2>2, <2>0, <1>0 DEF OutboxSound, Final
  <2> QED BY <2>1, <2>2
<1>3. ASSUME NEW d \in PaidWake PROVE PaidSound(d)'
  <2>0. PaidSound(d) /\ d \in Wake
    BY <1>3 DEF PaidWake
  <2>1. CASE d # c
    BY <2>0, <2>1 DEF PaidSound, Submitted, Rewrites
  <2>2. CASE d = c
    BY <2>0, <2>2, <1>0 DEF PaidSound, Submitted, Rewrites, Final
  <2> QED BY <2>1, <2>2
<1>4. TriggerNotLost'
  <2>1. ASSUME NEW o \in Ops PROVE Id(plan, o)' = Id(plan, o) /\ (Done(o)' <=> Done(o))
    BY <2>1, IdType DEF Id, Done, Rewrites, Final
  <2>2. ASSUME NEW o \in Ops, Claimable(Id(plan, o))', claim'[Id(plan, o)].state \notin Final
        PROVE  outbox'[Id(plan, o)] = "open"
    <3> DEFINE i == Id(plan, o)
    <3>1. i \in Wake /\ i.op = o /\ DependsOn[o] \subseteq Ops
      BY <2>2, IdType, PlanAssumption
    <3>2. Claimable(i)
      BY <2>1, <2>2, <3>1 DEF Claimable, Current, Id
    <3>3. claim[i].state \notin Final
      BY <2>2, <3>1 DEF Rewrites, Final
    <3>4. outbox[i] = "open"
      BY <3>2, <3>3 DEF TriggerNotLost
    <3>5. CASE i # c
      BY <3>4, <3>5, <3>1, <1>0
    <3>6. CASE i = c
      <4>1. s \notin Final
        BY <2>2, <3>6 DEF Rewrites
      <4> QED BY <4>1, <3>4, <3>6, <3>1, <1>0 DEF Final
    <3> QED BY <3>5, <3>6
  <2>3. \A o \in Ops : Id(plan', o) = Id(plan, o)
    BY <2>1 DEF Id
  <2> QED BY <2>2, <2>3 DEF TriggerNotLost
<1> QED BY <1>1, <1>2, <1>3, <1>4

\* A success closes its record and opens those of the operations it readies.
LEMMA CompleteBooks ==
  ASSUME Typed, Inv, NEW w \in Workers, Complete(w),
         plan' = plan, paid' = paid, reservation' = reservation, QueueFits
  PROVE  Books'
<1> DEFINE c == worker[w].on
<1> USE DEF Inv, Books
<1>0. /\ c \in Wake /\ claim[c] \in Claim /\ outbox \in [Wake -> OutboxStates]
      /\ ClaimSound(c) /\ OutboxSound(c)
      /\ claim[c].state \in {"claimed", "waiting"}
  BY OnType DEF Typed, Complete, CanComplete
<1>1. Rewrites(c, "succeeded", FALSE, claim[c].id)
  BY <1>0, SettledFacts DEF Complete, Final
<1>2. ASSUME NEW d \in Wake PROVE ClaimSound(d)'
  BY <1>1, <1>2, <1>0 DEF ClaimSound, Rewrites, Final
<1>3. /\ outbox'[c] = "completed"
      /\ \A d \in Wake : d # c =>
           outbox'[d] = IF Current(c) /\ d.op \in Readied(c.op) /\ d = Id(plan, d.op)
                         THEN "open" ELSE outbox[d]
  BY <1>0 DEF Complete
<1>4. ASSUME NEW d \in Wake, Current(c), d.op \in Readied(c.op), d = Id(plan, d.op)
      PROVE  outbox[d] = "absent" /\ Reached(d)
  <2>1. outbox[d] = "absent"
    BY <1>4 DEF Complete, CanComplete
  <2> QED BY <2>1, <1>4, Consts DEF Reached, Current, Id, Typed
<1>5. ASSUME NEW d \in Wake PROVE OutboxSound(d)'
  <2>0. OutboxSound(d) /\ (Reached(d)' <=> Reached(d)) /\ (Current(d)' <=> Current(d))
    BY <1>5 DEF Reached, Current, Id
  <2>1. CASE d = c
    BY <2>0, <2>1, <1>0, <1>1, <1>3 DEF OutboxSound, Rewrites, Final
  <2>2. CASE d # c
    <3>1. claim'[d] = claim[d]
      BY <2>2, <1>1, <1>5 DEF Rewrites
    <3>2. \/ outbox'[d] = outbox[d]
          \/ outbox'[d] = "open" /\ Reached(d)
      BY <2>2, <1>3, <1>4, <1>5
    <3> QED BY <3>1, <3>2, <2>0, <1>5 DEF OutboxSound, QueueFits
  <2> QED BY <2>1, <2>2
<1>6. ASSUME NEW d \in PaidWake PROVE PaidSound(d)'
  <2>0. PaidSound(d) /\ d \in Wake
    BY <1>6 DEF PaidWake
  <2> QED BY <2>0, <1>0, <1>1 DEF PaidSound, Submitted, Rewrites, Final
<1>7. TriggerNotLost'
  <2>1. ASSUME NEW o \in Ops, Claimable(Id(plan, o))', claim'[Id(plan, o)].state \notin Final
        PROVE  outbox'[Id(plan, o)] = "open"
    <3> DEFINE i == Id(plan, o)
    <3>1. i \in Wake /\ i.op = o /\ DependsOn[o] \subseteq Ops
      BY <2>1, IdType, PlanAssumption
    <3>2. i # c /\ claim'[i] = claim[i]
      BY <2>1, <3>1, <1>1 DEF Rewrites, Final
    <3>3. Current(i) /\ plan.state = "approved"
      BY <2>1, <3>1 DEF Claimable, Current, Id
    <3>4. CASE Claimable(i)
      <4>1. outbox[i] = "open"
        BY <3>4, <3>2, <2>1 DEF TriggerNotLost
      <4> QED BY <4>1, <1>3, <3>1, <3>2
    <3>5. CASE ~Claimable(i)
      <4>1. \A d \in Ops : d # c.op => claim'[Id(plan, d)] = claim[Id(plan, d)]
        BY <1>1, IdType DEF Rewrites
      <4>2. \A d \in DependsOn[o] : claim'[Id(plan, d)].state = "succeeded"
        BY <2>1, <3>1 DEF Claimable, Done, Id
      <4>3. PICK e \in DependsOn[o] : claim[Id(plan, e)].state # "succeeded"
        BY <3>3, <3>1, <3>5 DEF Claimable, Done
      <4>4. Id(plan, e) = c /\ e = c.op
        BY <4>2, <4>3, <3>1, <1>1, IdType DEF Rewrites
      <4>5. Current(c)
        BY <4>4, <3>3 DEF Current
      <4>6. o \in Readied(c.op)
        BY <4>1, <4>2, <4>4, <3>1 DEF Readied, Done
      <4> QED BY <4>5, <4>6, <1>3, <3>1, <3>2
    <3> QED BY <3>4, <3>5
  <2>2. \A o \in Ops : Id(plan', o) = Id(plan, o)
    BY DEF Id
  <2> QED BY <2>1, <2>2 DEF TriggerNotLost
<1> QED BY <1>2, <1>5, <1>6, <1>7

\* A claim is taken: its submission, if there was one, left an identity.
LEMMA ClaimBooks ==
  ASSUME Typed, Inv, NEW w \in Workers, NEW c \in Wake, ClaimOperation(w, c)
  PROVE  Books'
<1> USE DEF Inv, Books
<1>0. claim[c] \in Claim /\ ClaimSound(c) /\ OutboxSound(c) /\ claim[c].state \notin Final
      /\ ~Ambiguous(c) /\ Claimable(c) /\ c \in queue
  BY DEF Typed, ClaimOperation
<1>1. /\ claim'[c].state = "claimed" /\ claim'[c].id = claim[c].id
      /\ \A d \in Wake : d # c => claim'[d] = claim[d]
  BY ClaimFacts
<1>2. /\ outbox' = outbox /\ queue' = queue /\ paid' = paid /\ reservation' = reservation
      /\ plan'.rev = plan.rev /\ plan'.run = plan.run /\ plan'.state = plan.state
  BY DEF ClaimOperation, budget, Typed
<1>3. ASSUME NEW d \in Wake PROVE ClaimSound(d)'
  BY <1>1, <1>3 DEF ClaimSound, Final
<1>4. ASSUME NEW d \in Wake PROVE OutboxSound(d)'
  <2>0. OutboxSound(d) /\ (Reached(d)' <=> Reached(d)) /\ (Current(d)' <=> Current(d))
    BY <1>2, <1>4 DEF Reached, Current, Id
  <2>1. CASE d = c
    BY <2>0, <2>1, <1>0, <1>1, <1>2 DEF OutboxSound, Final
  <2>2. CASE d # c
    BY <2>0, <2>2, <1>1, <1>2, <1>4 DEF OutboxSound
  <2> QED BY <2>1, <2>2
<1>5. ASSUME NEW d \in PaidWake PROVE PaidSound(d)'
  <2>0. PaidSound(d) /\ d \in Wake
    BY <1>5 DEF PaidWake
  <2>1. CASE d = c
    <3>1. paid[c] > 0 => claim[c].id
      BY <2>0, <2>1, <1>5, <1>0 DEF PaidSound, Submitted, ClaimSound, Ambiguous, Final, PaidWake
    <3> QED BY <3>1, <2>0, <2>1, <1>0, <1>1, <1>2 DEF PaidSound, Submitted, Final
  <2>2. CASE d # c
    BY <2>0, <2>2, <1>1, <1>2 DEF PaidSound, Submitted
  <2> QED BY <2>1, <2>2
<1>6. TriggerNotLost'
  <2>1. ASSUME NEW o \in Ops PROVE Id(plan', o) = Id(plan, o) /\ Id(plan, o) \in Wake
    BY <2>1, <1>2, IdType DEF Id
  <2>2. ASSUME NEW o \in Ops PROVE Done(o)' => Done(o)
    BY <2>1, <2>2, <1>1 DEF Done
  <2>3. ASSUME NEW o \in Ops PROVE Claimable(Id(plan, o))' => Claimable(Id(plan, o))
    <3>1. Id(plan, o).op = o /\ DependsOn[o] \subseteq Ops
      BY <2>3, IdType, PlanAssumption
    <3> QED BY <3>1, <2>1, <2>2, <2>3, <1>2 DEF Claimable, Current
  <2>4. ASSUME NEW d \in Wake PROVE claim'[d].state \notin Final => claim[d].state \notin Final
    BY <2>4, <1>0, <1>1
  <2> QED BY <2>1, <2>3, <2>4, <1>2 DEF TriggerNotLost
<1> QED BY <1>3, <1>4, <1>5, <1>6

\* The provider is asked by the one worker that may ask.
LEMMA CallBooks ==
  ASSUME Typed, Inv, NEW w \in Workers, CallProvider(w)
  PROVE  Books'
<1> DEFINE c == worker[w].on
<1> USE DEF Inv, Books
<1>0. c \in PaidWake /\ c \in Wake /\ paid \in [Wake -> Nat] /\ paid[c] = 0 /\ Submitted(c)
  BY OnType DEF Crew, WorkerSound, CallProvider, At, Submitted, Typed
<1>1. plan' = plan /\ queue' = queue /\ claim' = claim /\ outbox' = outbox /\ reservation' = reservation
  BY DEF CallProvider, world, records, budget
<1>2. ASSUME NEW d \in Wake PROVE (ClaimSound(d) /\ OutboxSound(d))'
  BY <1>1, <1>2 DEF ClaimSound, OutboxSound, Reached, Current, Id
<1>3. ASSUME NEW d \in PaidWake PROVE PaidSound(d)'
  <2>1. PaidSound(d) /\ d \in Wake
    BY <1>3 DEF PaidWake
  <2>2. paid'[d] = IF d = c THEN 1 ELSE paid[d]
    BY <2>1, <1>0 DEF CallProvider
  <2> QED BY <2>1, <2>2, <1>0, <1>1 DEF PaidSound, Submitted
<1>4. TriggerNotLost'
  BY <1>1 DEF TriggerNotLost, Claimable, Current, Done, Id
<1> QED BY <1>2, <1>3, <1>4

----------------------------------------------------------------------------
(* The operator's steps.                                                    *)

\* A step that touches neither claims, workers nor money keeps the crew sound.
LEMMA SameCrew ==
  ASSUME Typed, Inv, UNCHANGED <<claim, worker, paid, reservation>>
  PROVE  Crew'
<1>1. ASSUME NEW v \in Workers PROVE WorkerSound(v)'
  BY <1>1, KeepsWorker
<1>2. ASSUME NEW u \in Workers, NEW v \in Workers PROVE Alone(u, v)'
  BY <1>2 DEF Inv, Crew, Alone, At
<1> QED BY <1>1, <1>2 DEF Crew

\* The books after a step of the operator, from what it does to the records.
LEMMA OperatorBooks ==
  ASSUME Typed, Inv, UNCHANGED <<claim, queue, paid, reservation>>,
         \A c \in Wake : outbox[c] # "absent" => outbox'[c] # "absent",
         \A c \in Wake : outbox'[c] # "absent" => Reached(c)',
         \A c \in Wake : outbox'[c] = "completed" => outbox[c] = "completed",
         \A c \in Wake : outbox'[c] = "superseded" => ~Current(c)',
         TriggerNotLost'
  PROVE  Books'
<1> USE DEF Inv, Books
<1>1. ASSUME NEW c \in Wake PROVE (ClaimSound(c) /\ OutboxSound(c))'
  BY <1>1 DEF ClaimSound, OutboxSound
<1>2. ASSUME NEW c \in PaidWake PROVE PaidSound(c)'
  BY <1>2 DEF PaidSound, Submitted
<1> QED BY <1>1, <1>2

\* What the types say of the plan.
LEMMA PlanType ==
  ASSUME Typed
  PROVE  /\ plan.rev \in 1..MaxRevision /\ plan.rev \in Nat /\ plan.state \in PlanStates
         /\ plan.run \in 0..MaxRun /\ plan.run \in Nat /\ plan.reserved \in Nat
         /\ \A c \in Wake : c.rev \in Nat /\ c.run \in Nat /\ c.op \in Ops
BY Consts DEF Typed, Wake

\* A new revision, and every record of the current one withdrawn.
LEMMA ProposeStep == Typed /\ Inv /\ Propose => Typed' /\ Inv'
<1> SUFFICES ASSUME Typed, Inv, Propose PROVE Typed' /\ Inv'
  OBVIOUS
<1>0. OutboxStates = {"absent", "open", "completed", "superseded"} /\ outbox \in [Wake -> OutboxStates]
  BY DEF OutboxStates, Typed
<1>1. plan' = [rev |-> plan.rev + 1, state |-> "proposed", run |-> 0, reserved |-> 0]
  BY DEF Propose
<1>2. outbox' \in [Wake -> OutboxStates]
      /\ \A c \in Wake : outbox'[c] = IF c = Id(plan, c.op) /\ outbox[c] # "absent"
                                        THEN "superseded" ELSE outbox[c]
  BY <1>0 DEF Propose
<1>3. UNCHANGED <<claim, queue, worker, paid, reservation, reserved, observed, call>>
  BY DEF Propose, budget
<1>4. Typed'
  <2>1. plan' \in [rev: 1..MaxRevision, state: PlanStates, run: 0..MaxRun, reserved: Nat]
    BY <1>1, PlanType, Consts DEF Propose, PlanStates
  <2> QED BY <2>1, <1>2, <1>3 DEF Typed, Propose
<1>5. ASSUME NEW c \in Wake, outbox'[c] # "absent" PROVE Reached(c)'
  <2>1. OutboxSound(c) /\ outbox[c] # "absent"
    BY <1>5, <1>2 DEF Inv, Books
  <2> QED BY <2>1, <1>1, PlanType DEF OutboxSound, Reached
<1>6. \A c \in Wake : ~Current(c)'
  BY <1>1 DEF Current
<1>7. TriggerNotLost'
  BY <1>1 DEF TriggerNotLost, Claimable, Current
<1>8. Books'
  BY <1>2, <1>3, <1>5, <1>6, <1>7, <1>0, OperatorBooks
<1> QED BY <1>3, <1>4, <1>8, SameCrew DEF Inv

\* Sealing and rejecting change the state of a plan that is not approved.
LEMMA SealStep == Typed /\ Inv /\ (Seal \/ Reject) => Typed' /\ Inv'
<1> SUFFICES ASSUME Typed, Inv, Seal \/ Reject PROVE Typed' /\ Inv'
  OBVIOUS
<1>1. /\ plan'.rev = plan.rev /\ plan'.run = plan.run /\ plan'.state # "approved"
      /\ plan.state # "approved"
      /\ plan' \in [rev: 1..MaxRevision, state: PlanStates, run: 0..MaxRun, reserved: Nat]
  BY DEF Seal, Reject, PlanStates, Typed
<1>3. UNCHANGED <<expired, claim, outbox, queue, worker, paid, reservation, reserved, observed, call>>
  BY DEF Seal, Reject, budget
<1>4. Typed'
  BY <1>1, <1>3 DEF Typed
<1>5. ASSUME NEW c \in Wake, outbox'[c] # "absent" PROVE Reached(c)'
  BY <1>5, <1>1, <1>3 DEF OutboxSound, Reached, Inv, Books
<1>6. \A c \in Wake : ~Current(c)'
  BY <1>1 DEF Current
<1>7. TriggerNotLost'
  BY <1>1 DEF TriggerNotLost, Claimable, Current
<1>8. Books'
  BY <1>3, <1>5, <1>6, <1>7, OperatorBooks
<1> QED BY <1>3, <1>4, <1>8, SameCrew DEF Inv

\* The approval opens the records of the roots; nothing else has begun.
LEMMA ApproveStep == Typed /\ Inv /\ Approve => Typed' /\ Inv'
<1> SUFFICES ASSUME Typed, Inv, Approve PROVE Typed' /\ Inv'
  OBVIOUS
<1>0. OutboxStates = {"absent", "open", "completed", "superseded"} /\ outbox \in [Wake -> OutboxStates]
  BY DEF OutboxStates, Typed
<1>1. /\ plan'.rev = plan.rev /\ plan'.run = plan.run /\ plan'.state = "approved"
      /\ plan.state = "sealed"
      /\ plan' \in [rev: 1..MaxRevision, state: PlanStates, run: 0..MaxRun, reserved: Nat]
  BY DEF Approve, PlanStates, Typed
<1>2. outbox' \in [Wake -> OutboxStates]
      /\ \A c \in Wake : outbox'[c] = IF c = Id(plan, c.op) /\ DependsOn[c.op] = {}
                                        THEN "open" ELSE outbox[c]
  BY <1>0 DEF Approve
<1>3. UNCHANGED <<expired, claim, queue, worker, paid, reservation, reserved, observed, call>>
  BY DEF Approve, budget
<1>4. Typed'
  BY <1>1, <1>2, <1>3 DEF Typed
<1>5. ASSUME NEW c \in Wake, outbox[c] # "absent" PROVE c.rev < plan.rev
  BY <1>5, <1>1 DEF OutboxSound, Reached, Inv, Books
<1>6. ASSUME NEW c \in Wake, c = Id(plan, c.op) PROVE c.rev = plan.rev /\ outbox[c] = "absent" /\ Reached(c)'
  <2>1. c.rev = plan.rev /\ c.run = IF Paid(c.op) THEN 0 ELSE plan.run
    BY <1>6 DEF Id
  <2>2. Reached(c)'
    BY <2>1, <1>1, PlanType DEF Reached
  <2> QED BY <2>1, <2>2, <1>5, <1>6, PlanType
<1>7. ASSUME NEW c \in Wake, outbox'[c] # "absent" PROVE Reached(c)'
  BY <1>1, <1>2, <1>5, <1>6, <1>7 DEF Reached
<1>8. ASSUME NEW c \in Wake, outbox'[c] = "superseded" PROVE ~Current(c)'
  <2>1. c.rev < plan.rev
    BY <1>2, <1>5, <1>8
  <2> QED BY <2>1, <1>1, PlanType DEF Current, Id
<1>9. TriggerNotLost'
  <2>1. ASSUME NEW o \in Ops PROVE Id(plan', o) = Id(plan, o) /\ Id(plan, o) \in Wake /\ Id(plan, o).op = o
    BY <2>1, <1>1, IdType DEF Id
  <2>2. ASSUME NEW o \in Ops PROVE ~Done(o)'
    <3>1. outbox[Id(plan, o)] = "absent"
      BY <2>1, <2>2, <1>6
    <3>2. claim[Id(plan, o)].state = "absent"
      BY <3>1, <2>1, <2>2 DEF Inv, Books, OutboxSound
    <3> QED BY <3>2, <2>1, <2>2, <1>3 DEF Done
  <2>3. ASSUME NEW o \in Ops, Claimable(Id(plan, o))' PROVE outbox'[Id(plan, o)] = "open"
    <3>1. DependsOn[o] = {}
      BY <2>1, <2>2, <2>3, <1>1, PlanAssumption DEF Claimable
    <3> QED BY <3>1, <2>1, <2>3, <1>2
  <2> QED BY <2>1, <2>3 DEF TriggerNotLost
<1>10. Books'
  BY <1>2, <1>3, <1>7, <1>8, <1>9, <1>0, OperatorBooks
<1> QED BY <1>3, <1>4, <1>10, SameCrew DEF Inv

\* A new run opens the records of its roots; it has no claims yet.
LEMMA RerenderStep == Typed /\ Inv /\ Rerender => Typed' /\ Inv'
<1> SUFFICES ASSUME Typed, Inv, Rerender PROVE Typed' /\ Inv'
  OBVIOUS
<1>0. OutboxStates = {"absent", "open", "completed", "superseded"} /\ outbox \in [Wake -> OutboxStates]
  BY DEF OutboxStates, Typed
<1>1. /\ plan'.rev = plan.rev /\ plan'.run = plan.run + 1 /\ plan'.state = "approved"
      /\ plan.state = "approved"
      /\ plan' \in [rev: 1..MaxRevision, state: PlanStates, run: 0..MaxRun, reserved: Nat]
  <2>1. plan.run + 1 \in 0..MaxRun
    BY PlanType, Consts DEF Rerender
  <2> QED BY <2>1 DEF Rerender, PlanStates, Typed
<1>2. outbox' \in [Wake -> OutboxStates]
      /\ \A c \in Wake : outbox'[c] =
           IF c = Id(plan, c.op) /\ ~Paid(c.op) /\ outbox[c] = "open" THEN "superseded"
           ELSE IF c = Id(plan', c.op) /\ c.op \in RenderRoots THEN "open"
           ELSE outbox[c]
  BY <1>0 DEF Rerender
<1>3. UNCHANGED <<expired, claim, queue, worker, paid, reservation, reserved, observed, call>>
  BY DEF Rerender, budget
<1>4. Typed'
  BY <1>1, <1>2, <1>3 DEF Typed
<1>5. ASSUME NEW c \in Wake, Reached(c) PROVE Reached(c)'
  BY <1>5, <1>1, PlanType DEF Reached
<1>6. ASSUME NEW c \in Wake, c = Id(plan', c.op), ~Paid(c.op)
      PROVE  c # Id(plan, c.op) /\ Reached(c)' /\ outbox[c] = "absent" /\ claim[c].state = "absent"
  <2>1. c.rev = plan.rev /\ c.run = plan.run + 1
    BY <1>1, <1>6 DEF Id
  <2>2. ~Reached(c)
    BY <2>1, <1>6, PlanType DEF Reached
  <2>3. outbox[c] = "absent" /\ claim[c].state = "absent"
    BY <2>2, <1>6 DEF Inv, Books, OutboxSound
  <2>4. c # Id(plan, c.op)
    BY <2>1, <1>6, PlanType DEF Id
  <2>5. Reached(c)'
    BY <2>1, <1>1, <1>6, PlanType DEF Reached
  <2> QED BY <2>3, <2>4, <2>5
<1>7. ASSUME NEW c \in Wake, outbox'[c] # "absent" PROVE Reached(c)'
  <2>1. CASE outbox[c] # "absent"
    BY <2>1, <1>5, <1>7 DEF Inv, Books, OutboxSound
  <2>2. CASE outbox[c] = "absent"
    BY <2>2, <1>2, <1>6, <1>7 DEF RenderRoots, Internal
  <2> QED BY <2>1, <2>2
<1>8. ASSUME NEW c \in Wake, outbox'[c] = "superseded" PROVE ~Current(c)'
  <2>1. CASE Paid(c.op)
    <3>1. outbox[c] = "superseded"
      BY <2>1, <1>2, <1>8
    <3>2. ~Current(c)
      BY <3>1, <1>8 DEF Inv, Books, OutboxSound
    <3> QED BY <3>2, <2>1, <1>1 DEF Current, Id
  <2>2. CASE ~Paid(c.op) /\ c = Id(plan', c.op)
    BY <2>2, <1>2, <1>6, <1>8
  <2>3. CASE c # Id(plan', c.op)
    BY <2>3 DEF Current
  <2> QED BY <2>1, <2>2, <2>3
<1>9. TriggerNotLost'
  <2>1. ASSUME NEW o \in Ops PROVE Id(plan', o) \in Wake /\ Id(plan', o).op = o
    <3>1. plan'.run \in 0..MaxRun /\ plan'.rev \in 1..MaxRevision /\ 0 \in 0..MaxRun
      BY <1>1, Consts
    <3> QED BY <3>1, <2>1 DEF Id, Wake
  <2>2. ASSUME NEW o \in Ops, Paid(o) PROVE Done(o)' 
    <3>1. Done(o) /\ Id(plan', o) = Id(plan, o)
      BY <2>2, <1>1 DEF Rerender, Internal, Id
    <3> QED BY <3>1, <1>3 DEF Done
  <2>3. ASSUME NEW o \in Ops, ~Paid(o) PROVE ~Done(o)'
    <3>1. claim[Id(plan', o)].state = "absent"
      BY <2>1, <2>3, <1>6
    <3> QED BY <3>1, <1>3 DEF Done
  <2>4. ASSUME NEW o \in Ops, Claimable(Id(plan, o))', claim'[Id(plan', o)].state \notin Final
        PROVE  outbox'[Id(plan', o)] = "open"
    <3>1. ~Paid(o)
      BY <2>2, <2>4 DEF Done, Final
    <3>2. \A d \in DependsOn[o] : Paid(d)
      BY <2>1, <2>3, <2>4, PlanAssumption DEF Claimable
    <3>3. o \in RenderRoots
      BY <3>1, <3>2, <2>4 DEF RenderRoots, Internal
    <3> QED BY <3>1, <3>3, <2>1, <2>4, <1>2, <1>6
  <2> QED BY <2>4 DEF TriggerNotLost
<1>10. Books'
  BY <1>2, <1>3, <1>7, <1>8, <1>9, <1>0, OperatorBooks
<1> QED BY <1>3, <1>4, <1>10, SameCrew DEF Inv

----------------------------------------------------------------------------
(* Deliveries, leases and claims.                                           *)

\* Steps that move messages, time or the money of model calls only.
LEMMA QuietStep ==
  ASSUME Typed, Inv,
         UNCHANGED <<plan, claim, outbox, worker, paid>>, expired' \in BOOLEAN,
         queue' \in SUBSET Wake, QueueFits,
         reservation' \in [Spends -> ReservationStates], reserved' \in [Accounts -> Int],
         observed' \in [Accounts -> Int], call' \in [Calls -> CallSteps],
         \A d \in PaidWake : reservation'[d] = reservation[d]
  PROVE  Typed' /\ Inv'
<1>1. Typed'
  BY DEF Typed
<1>2. Books'
  BY KeepsBooks DEF MoneyFits
<1>3. ASSUME NEW v \in Workers PROVE WorkerSound(v)'
  <2> DEFINE k == worker[v].on
  <2>1. CASE k \in PaidWake
    BY <2>1, <1>3, KeepsWorker
  <2>2. CASE k \notin PaidWake
    <3>1. At(v, "idle") \/ At(v, "make")
      BY <2>2, <1>3 DEF Inv, Crew, WorkerSound
    <3> QED BY <3>1, <1>3 DEF Inv, Crew, WorkerSound, At, Owner
  <2> QED BY <2>1, <2>2
<1>4. ASSUME NEW u \in Workers, NEW v \in Workers PROVE Alone(u, v)'
  BY <1>4 DEF Inv, Crew, Alone, At
<1> QED BY <1>1, <1>2, <1>3, <1>4 DEF Inv, Crew

\* Publishing, acknowledging, giving up on a wake, and the mandate's expiry.
LEMMA MessageStep ==
  ASSUME Typed, Inv,
         \/ \E c \in Wake : Dispatch(c) \/ DropWake(c)
         \/ \E c \in Wake, w \in Workers : AckWake(w, c)
         \/ MandateExpires
  PROVE  Typed' /\ Inv'
<1> USE DEF budget
<1>1. ASSUME NEW c \in Wake, Dispatch(c) PROVE Typed' /\ Inv'
  <2>1. queue' \in SUBSET Wake /\ QueueFits
    BY <1>1 DEF Dispatch, Typed, QueueFits
  <2> QED BY <2>1, <1>1, QuietStep DEF Dispatch, Typed
<1>2. ASSUME NEW c \in Wake, queue' = queue \ {c},
             UNCHANGED <<plan, expired, claim, outbox, worker, paid, budget, call>>
      PROVE  Typed' /\ Inv'
  <2>1. queue' \in SUBSET Wake /\ QueueFits
    BY <1>2 DEF Typed, QueueFits
  <2> QED BY <2>1, <1>2, QuietStep DEF Typed
<1>3. ASSUME MandateExpires PROVE Typed' /\ Inv'
  <2>1. queue' \in SUBSET Wake /\ QueueFits
    BY <1>3 DEF MandateExpires, Typed, QueueFits
  <2> QED BY <2>1, <1>3, QuietStep DEF MandateExpires, Typed
<1>4. ASSUME NEW c \in Wake, DropWake(c) PROVE Typed' /\ Inv'
  BY <1>4, <1>2 DEF DropWake
<1>5. ASSUME NEW c \in Wake, NEW w \in Workers, AckWake(w, c) PROVE Typed' /\ Inv'
  BY <1>5, <1>2 DEF AckWake
<1> QED BY <1>1, <1>3, <1>4, <1>5

\* A model call of a stage handler touches no reservation of the plan.
LEMMA MeteredStep == Typed /\ Inv /\ MeteredCall => Typed' /\ Inv'
<1> SUFFICES ASSUME Typed, Inv, MeteredCall PROVE Typed' /\ Inv'
  OBVIOUS
<1>1. PICK s \in Calls : CallStep(s)
  BY DEF MeteredCall
<1>2. s \in Spends /\ s \notin PaidWake
  BY Consts
<1>3. \/ Reserve(s, FALSE) \/ FinalizeUsage(s) \/ ResolveUncertain(s) \/ ResolveNotInvoked(s)
      \/ UNCHANGED budget
  BY <1>1 DEF CallStep, CallReserve, CallInvoke, CallReport, CallFail, CallCrash
<1>4. /\ reservation' \in [Spends -> ReservationStates]
      /\ reserved' \in [Accounts -> Int] /\ observed' \in [Accounts -> Int]
  BY <1>2, <1>3, BudgetTyped
<1>5. call' \in [Calls -> CallSteps]
  BY <1>1 DEF CallStep, CallReserve, CallInvoke, CallReport, CallFail, CallCrash, CallSteps, Typed
<1>6. \A d \in PaidWake : reservation'[d] = reservation[d]
  <2> SUFFICES ASSUME NEW d \in PaidWake PROVE reservation'[d] = reservation[d]
    OBVIOUS
  <2>1. d \in Spends /\ d # s /\ reservation \in [Spends -> ReservationStates]
    BY <1>2, Consts DEF Typed
  <2> QED BY <2>1, <1>3 DEF Reserve, FinalizeUsage, ResolveUncertain, ResolveNotInvoked, budget
<1>7. UNCHANGED <<plan, expired, claim, outbox, queue, worker, paid>>
  BY DEF MeteredCall
<1>8. queue' \in SUBSET Wake /\ QueueFits /\ expired' \in BOOLEAN
  BY <1>7 DEF Typed, QueueFits
<1> QED BY <1>4, <1>5, <1>6, <1>7, <1>8, QuietStep

\* A lease runs out.
LEMMA ExpireStep ==
  ASSUME Typed, Inv, NEW c \in Wake, Expire(c)
  PROVE  Typed' /\ Inv'
<1>0. Rewrites(c, claim[c].state, FALSE, claim[c].id)
  BY ExpireFacts
<1>1. UNCHANGED <<plan, expired, outbox, queue, worker, paid, reservation, reserved, observed, call>>
  BY DEF Expire, budget
<1>2. Typed'
  BY <1>0, <1>1 DEF Typed, Rewrites
<1>3. ClaimSound(c) /\ claim[c].live /\ claim[c] \in Claim
  BY DEF Inv, Books, Expire, Typed
<1>4. claim[c].state \notin Final /\ claim[c].state # "absent"
  BY <1>3 DEF ClaimSound, NoClaim
<1>5. QueueFits
  BY <1>1 DEF QueueFits
<1>6. Books'
  BY <1>0, <1>1, <1>4, <1>5, RewriteBooks
<1>7. ASSUME NEW v \in Workers PROVE WorkerSound(v)'
  <2> DEFINE k == worker[v].on
  <2>1. k \in Wake
    BY <1>7, OnType
  <2>2. /\ claim'[k].attempt = claim[k].attempt /\ claim'[k].id = claim[k].id
        /\ claim'[k].state = claim[k].state
    BY <2>1, <1>0 DEF Rewrites
  <2> QED BY <2>2, <1>1, <1>7, KeepsWorker
<1>8. ASSUME NEW u \in Workers, NEW v \in Workers PROVE Alone(u, v)'
  BY <1>8, <1>1 DEF Inv, Crew, Alone, At
<1> QED BY <1>2, <1>6, <1>7, <1>8 DEF Inv, Crew

\* A dead submission is closed.
LEMMA QuarantinedStep ==
  ASSUME Typed, Inv, NEW w \in Workers, NEW c \in Wake, Quarantined(w, c)
  PROVE  Typed' /\ Inv'
<1>0. Rewrites(c, "uncertain", FALSE, claim[c].id)
  BY SettledFacts DEF Quarantined, Final
<1>1. UNCHANGED <<plan, expired, worker, paid, reservation, reserved, observed, call>>
      /\ outbox' = [outbox EXCEPT ![c] = "completed"] /\ queue' = queue \ {c}
      /\ claim[c].state \in {"claimed", "submitting", "waiting"}
  BY DEF Quarantined, budget
<1>2. Typed'
  BY <1>0, <1>1 DEF Typed, Rewrites, OutboxStates
<1>4. claim[c].state \notin Final /\ claim[c].state # "absent"
  BY <1>1 DEF Final
<1>5. QueueFits
  BY <1>1 DEF QueueFits
<1>6. Books'
  BY <1>0, <1>1, <1>4, <1>5, RewriteBooks
<1>7. ASSUME NEW v \in Workers PROVE WorkerSound(v)'
  <2> DEFINE k == worker[v].on
  <2>1. k \in Wake
    BY <1>7, OnType
  <2>2. \/ claim'[k] = claim[k]
        \/ /\ claim'[k].attempt = claim[k].attempt /\ claim'[k].id = claim[k].id
           /\ claim[k].state \notin Final /\ claim'[k].state = "uncertain"
    BY <2>1, <1>0, <1>4 DEF Rewrites
  <2> QED BY <2>2, <1>1, <1>7, KeepsWorker
<1>8. ASSUME NEW u \in Workers, NEW v \in Workers PROVE Alone(u, v)'
  BY <1>8, <1>1 DEF Inv, Crew, Alone, At
<1> QED BY <1>2, <1>6, <1>7, <1>8 DEF Inv, Crew

\* A worker claims an operation: whoever held it before is no owner any more.
LEMMA ClaimStep ==
  ASSUME Typed, Inv, NEW w \in Workers, NEW c \in Wake, ClaimOperation(w, c)
  PROVE  Typed' /\ Inv'
<1>1. UNCHANGED <<expired, outbox, queue, paid, reservation, reserved, observed, call>>
      /\ worker[w].pc = "idle" /\ claim[c].state \notin Final /\ ~Ambiguous(c) /\ Claimable(c)
  BY DEF ClaimOperation, budget
<1>2. Typed'
  <2>1. plan' \in [rev: 1..MaxRevision, state: PlanStates, run: 0..MaxRun, reserved: Nat]
    <3>1. c.op \in Ops /\ plan.reserved + Price[c.op] \in Nat
      BY PlanType, Consts
    <3> QED BY <3>1 DEF ClaimOperation, Typed
  <2> QED BY <2>1, <1>1, ClaimFacts DEF Typed
<1>3. Books'
  BY ClaimBooks
<1>4. ASSUME NEW v \in Workers, v # w PROVE WorkerSound(v)'
  <2> DEFINE k == worker[v].on
  <2>1. k \in Wake /\ worker'[v] = worker[v]
    BY <1>4, OnType, ClaimFacts
  <2>2. CASE k # c
    <3>1. \A d \in Wake : d # c => claim'[d] = claim[d]
      BY ClaimFacts
    <3>2. claim'[k] = claim[k]
      BY <2>1, <2>2, <3>1
    <3> QED BY <3>2, <2>1, <1>1, <1>4, KeepsWorker
  <2>3. CASE k = c /\ ~At(v, "idle")
    <3>1. WorkerSound(v) /\ ClaimSound(c) /\ worker[v].token \in Nat
      BY <1>4, OnType DEF Inv, Crew, Books, Worker
    <3>2. claim'[k].attempt = claim[k].attempt + 1 /\ claim[k].attempt \in Nat
          /\ worker[v].token <= claim[k].attempt
      BY <2>3, <3>1, ClaimFacts DEF WorkerSound
    <3>3. ~At(v, "call")
      BY <2>3, <3>1, <1>1, PlanAssumption DEF WorkerSound, ClaimSound, Ambiguous, PaidWake, Final, At
    <3> QED BY <3>1, <3>2, <3>3, <2>1, <2>3, <1>1, <1>4, KeepsWorker
  <2>4. CASE At(v, "idle")
    BY <2>1, <2>4 DEF WorkerSound, At
  <2> QED BY <2>2, <2>3, <2>4
<1>5. WorkerSound(w)'
  <2>1. Paid(c.op) => c \in PaidWake
    BY <1>1 DEF PaidWake, Claimable, Current, Id
  <2>2. /\ worker'[w].pc = (IF Paid(c.op) THEN "reserve" ELSE "make")
        /\ worker'[w].on = c /\ worker'[w].token = claim[c].attempt + 1
        /\ worker'[w].resumed = claim[c].id /\ claim'[c].id = claim[c].id
        /\ claim'[c].attempt = claim[c].attempt + 1 /\ claim[c].attempt \in Nat
    BY ClaimFacts
  <2> QED BY <2>1, <2>2 DEF WorkerSound, At, Owner
<1>6. ASSUME NEW u \in Workers, NEW v \in Workers PROVE Alone(u, v)'
  <2>1. ASSUME NEW x \in Workers, x # w, ~At(x, "idle")
        PROVE  worker'[x] = worker[x] /\ worker[x].token <= claim[worker[x].on].attempt
               /\ worker[x].token \in Nat
    <3>1. worker'[x] = worker[x]
      BY <2>1, ClaimFacts
    <3>2. WorkerSound(x) /\ worker[x].token \in Nat
      BY <2>1, OnType DEF Inv, Crew, Worker
    <3> QED BY <3>1, <3>2, <2>1 DEF WorkerSound
  <2>2. worker'[w].on = c /\ worker'[w].token = claim[c].attempt + 1 /\ claim[c].attempt \in Nat
        /\ worker'[w].pc \in {"reserve", "make"}
    BY ClaimFacts
  <2>3. \A x \in Workers : x # w => worker'[x] = worker[x]
    BY ClaimFacts
  <2>4. CASE u # w /\ v # w
    BY <2>3, <2>4, <1>6 DEF Inv, Crew, Alone, At
  <2>5. CASE u = w /\ v # w
    BY <2>1, <2>2, <2>3, <2>5, <1>6 DEF Alone, At
  <2>6. CASE u # w /\ v = w
    BY <2>1, <2>2, <2>3, <2>6, <1>6 DEF Alone, At
  <2>7. CASE u = v
    BY <2>7 DEF Alone
  <2> QED BY <2>4, <2>5, <2>6, <2>7
<1> QED BY <1>2, <1>3, <1>4, <1>5, <1>6 DEF Inv, Crew

----------------------------------------------------------------------------
(* What a step of a worker does to the records.                             *)

\* The worker changes its own claim, which is not over, or no claim.
Changes(w) ==
  \/ claim' = claim
  \/ /\ Owner(w) /\ claim[worker[w].on].state \notin Final
     /\ \E s, live, id : Rewrites(worker[w].on, s, live, id)

\* A failure is recorded.
LEMMA FailEffect ==
  ASSUME Typed, Inv, NEW w \in Workers, NEW s \in {"failed", "uncertain"},
         RecordFailure(w, s), plan' = plan, paid' = paid, reservation' = reservation, QueueFits
  PROVE  /\ Books' /\ Changes(w) /\ outbox' \in [Wake -> OutboxStates]
         /\ Rewrites(worker[w].on, s, FALSE, claim[worker[w].on].id)
<1> DEFINE c == worker[w].on
<1>1. c \in Wake /\ Rewrites(c, s, FALSE, claim[c].id)
  BY OnType, SettledFacts DEF RecordFailure, Final
<1>2. claim[c].state \notin Final /\ claim[c].state # "absent" /\ Owner(w)
  BY DEF RecordFailure, CanFail, Final
<1>3. outbox' = [outbox EXCEPT ![c] = "completed"]
  BY DEF RecordFailure
<1>4. Books'
  BY <1>1, <1>2, <1>3, RewriteBooks
<1>5. outbox' \in [Wake -> OutboxStates]
  BY <1>3 DEF Typed, OutboxStates
<1> QED BY <1>1, <1>2, <1>4, <1>5 DEF Changes

\* A provider identity is recorded.
LEMMA RecordEffect ==
  ASSUME Typed, Inv, NEW w \in Workers,
         RecordProvider(w), plan' = plan, paid' = paid, reservation' = reservation, QueueFits
  PROVE  /\ Books' /\ Changes(w) /\ outbox' \in [Wake -> OutboxStates]
         /\ Rewrites(worker[w].on, "waiting", TRUE, TRUE)
<1> DEFINE c == worker[w].on
<1>1. c \in Wake /\ Rewrites(c, "waiting", TRUE, TRUE) /\ outbox' = [outbox EXCEPT ![c] = "open"]
  BY OnType, RecordFacts
<1>2. claim[c].state \notin Final /\ claim[c].state # "absent" /\ Owner(w)
  BY DEF RecordProvider, CanPersist, Final
<1>3. Books'
  BY <1>1, <1>2, RewriteBooks
<1>4. outbox' \in [Wake -> OutboxStates]
  BY <1>1 DEF Typed, OutboxStates
<1> QED BY <1>1, <1>2, <1>3, <1>4 DEF Changes

\* A success is recorded.
LEMMA CompleteEffect ==
  ASSUME Typed, Inv, NEW w \in Workers,
         Complete(w), plan' = plan, paid' = paid, reservation' = reservation, QueueFits
  PROVE  /\ Books' /\ Changes(w) /\ outbox' \in [Wake -> OutboxStates]
         /\ Rewrites(worker[w].on, "succeeded", FALSE, claim[worker[w].on].id)
<1> DEFINE c == worker[w].on
<1>1. c \in Wake /\ Rewrites(c, "succeeded", FALSE, claim[c].id)
  BY OnType, SettledFacts DEF Complete, Final
<1>2. claim[c].state \notin Final /\ Owner(w)
  BY DEF Complete, CanComplete, Final
<1>3. Books'
  BY CompleteBooks
<1>4. outbox' \in [Wake -> OutboxStates]
  <2>1. /\ outbox \in [Wake -> OutboxStates] /\ "open" \in OutboxStates
        /\ "completed" \in OutboxStates
    BY DEF Typed, OutboxStates
  <2> QED BY <2>1 DEF Complete
<1> QED BY <1>1, <1>2, <1>3, <1>4 DEF Changes

\* A step that changes the claim of worker w only leaves the others sound.
LEMMA ChangesOthers ==
  ASSUME Typed, Inv, NEW w \in Workers, ~At(w, "idle"), Changes(w),
         paid' = paid, reservation' = reservation,
         NEW v \in Workers, v # w, worker'[v] = worker[v]
  PROVE  WorkerSound(v)'
<1> DEFINE c == worker[w].on
           k == worker[v].on
<1>1. k \in Wake /\ c \in Wake
  BY OnType
<1>2. CASE claim'[k] = claim[k]
  BY <1>2, KeepsWorker
<1>3. CASE At(v, "idle")
  BY <1>3 DEF WorkerSound, At
<1>4. CASE claim'[k] # claim[k] /\ ~At(v, "idle")
  <2>1. k = c /\ Owner(w) /\ claim[c].state \notin Final /\ claim'[c].attempt = claim[c].attempt
    BY <1>1, <1>4 DEF Changes, Rewrites
  <2>2. ~Owner(v)
    BY <2>1, <1>4, OtherOwner
  <2>3. WorkerSound(v) /\ claim[k].attempt \in Nat
    BY OnType, Consts DEF Inv, Crew, Claim
  <2>4. ~At(v, "call")
    BY <2>1, <2>2, <2>3 DEF WorkerSound, Final
  <2> QED BY <2>1, <2>2, <2>3, <2>4, KeepsWorker DEF Owner
<1> QED BY <1>2, <1>3, <1>4

\* A worker at a step that needs nothing of its claim.
Plain == {"persist", "poll", "store", "refuse", "quarantine", "settle"}

\* A worker that lets go, or goes to such a step, relies on nothing new.
LEMMA LandsSound ==
  ASSUME Typed, Inv, NEW w \in Workers, ~At(w, "idle"), ~At(w, "make"), Changes(w),
         NEW pc \in Plain, Moves(w, pc)
  PROVE  WorkerSound(w)'
<1> DEFINE c == worker[w].on
<1>1. WorkerSound(w) /\ c \in Wake
  BY OnType DEF Inv, Crew
<1>2. claim'[c].attempt = claim[c].attempt
  BY <1>1 DEF Changes, Rewrites
<1> QED BY <1>1, <1>2 DEF WorkerSound, Moves, At, Plain

\* A worker that is done relies on nothing.
LEMMA FreesSound ==
  ASSUME NEW w \in Workers, Frees(w)
  PROVE  WorkerSound(w)'
BY DEF WorkerSound, Frees, At

\* The invariant, from what one worker does to its records.
LEMMA WorkerKeeps ==
  ASSUME Typed, Inv, NEW w \in Workers, ~At(w, "idle"), NEW pc,
         UNCHANGED <<plan, expired, paid, reservation, reserved, observed, call>>,
         queue' \in SUBSET Wake, outbox' \in [Wake -> OutboxStates],
         Changes(w), Books', WorkerSound(w)',
         \/ Frees(w)
         \/ /\ Moves(w, pc)
            /\ pc # "call" \/ \A v \in Workers : At(v, "call") => worker[v].on # worker[w].on
  PROVE  Typed' /\ Inv'
<1>1. claim' \in [Wake -> Claim] /\ worker' \in [Workers -> Worker]
  BY DEF Changes, Rewrites, Typed, Frees, Moves
<1>2. Typed'
  BY <1>1 DEF Typed
<1>3. \A v \in Workers : v # w => worker'[v] = worker[v]
  BY DEF Frees, Moves
<1>4. \A v \in Workers : WorkerSound(v)'
  BY <1>3, ChangesOthers
<1>5. \A u \in Workers, v \in Workers : Alone(u, v)'
  BY StaysAlone
<1> QED BY <1>2, <1>4, <1>5 DEF Inv, Crew

\* The same for a step that changes no record.
LEMMA MovesOn ==
  ASSUME Typed, Inv, NEW w \in Workers, ~At(w, "idle"),
         UNCHANGED <<plan, expired, claim, outbox, paid, reservation, reserved, observed, call>>,
         queue' \subseteq queue,
         \/ Frees(w)
         \/ ~At(w, "make") /\ \E pc \in Plain : Moves(w, pc)
  PROVE  Typed' /\ Inv'
<1>1. queue' \in SUBSET Wake /\ QueueFits /\ outbox' \in [Wake -> OutboxStates] /\ Changes(w)
  BY DEF Typed, QueueFits, Changes
<1>2. Books'
  BY <1>1, KeepsBooks DEF MoneyFits
<1>3. CASE Frees(w)
  BY <1>1, <1>2, <1>3, FreesSound, WorkerKeeps
<1>4. CASE ~At(w, "make") /\ \E pc \in Plain : Moves(w, pc)
  <2>1. PICK pc \in Plain : Moves(w, pc)
    BY <1>4
  <2>2. WorkerSound(w)' /\ pc # "call"
    BY <2>1, <1>1, <1>4, LandsSound DEF Plain
  <2> QED BY <2>1, <2>2, <1>1, <1>2, WorkerKeeps
<1> QED BY <1>3, <1>4

----------------------------------------------------------------------------
(* The steps of a worker.                                                   *)

\* The death of a worker.
LEMMA CrashStep ==
  ASSUME Typed, Inv, NEW w \in Workers, Crash(w)
  PROVE  Typed' /\ Inv'
<1>1. Released(w, FALSE) /\ ~At(w, "idle")
      /\ UNCHANGED <<plan, expired, claim, outbox, paid, reservation, reserved, observed, call>>
  BY DEF Crash, At, budget
<1> QED BY <1>1, ReleasedFacts, MovesOn

\* A recorded success or failure, after which the worker is done.
LEMMA FreesWith ==
  ASSUME Typed, Inv, NEW w \in Workers, ~At(w, "idle"), NEW a \in BOOLEAN, Released(w, a),
         UNCHANGED <<plan, expired, paid, reservation, reserved, observed, call>>,
         \/ Complete(w)
         \/ \E s \in {"failed", "uncertain"} : RecordFailure(w, s)
         \/ RecordProvider(w)
  PROVE  Typed' /\ Inv'
<1>1. Frees(w) /\ queue' \in SUBSET Wake /\ QueueFits
  BY ReleasedFacts DEF QueueFits
<1>2. Books' /\ Changes(w) /\ outbox' \in [Wake -> OutboxStates]
  BY <1>1, CompleteEffect, FailEffect, RecordEffect
<1> QED BY <1>1, <1>2, FreesSound, WorkerKeeps

\* A recorded success or failure, after which the worker goes on.
LEMMA GoesWith ==
  ASSUME Typed, Inv, NEW w \in Workers, ~At(w, "idle"), ~At(w, "make"), NEW pc \in Plain, Moves(w, pc),
         UNCHANGED <<plan, expired, queue, paid, reservation, reserved, observed, call>>,
         \/ Complete(w)
         \/ \E s \in {"failed", "uncertain"} : RecordFailure(w, s)
         \/ RecordProvider(w)
  PROVE  Typed' /\ Inv'
<1>1. queue' \in SUBSET Wake /\ QueueFits
  BY DEF QueueFits, Typed
<1>2. Books' /\ Changes(w) /\ outbox' \in [Wake -> OutboxStates]
  BY <1>1, CompleteEffect, FailEffect, RecordEffect
<1>3. WorkerSound(w)' /\ pc # "call"
  BY <1>2, LandsSound DEF Plain
<1> QED BY <1>1, <1>2, <1>3, WorkerKeeps

\* An internal operation ends, or fails.
LEMMA InternalStep ==
  ASSUME Typed, Inv, NEW w \in Workers, MakeInternal(w) \/ FailInternal(w)
  PROVE  Typed' /\ Inv'
<1>1. ~At(w, "idle") /\ UNCHANGED <<plan, expired, paid, reservation, reserved, observed, call>>
  BY DEF MakeInternal, FailInternal, At, budget
<1>2. \E a \in BOOLEAN : Released(w, a)
  BY DEF MakeInternal, FailInternal
<1>3. \/ Complete(w) \/ RecordFailure(w, "failed") \/ UNCHANGED records
  BY DEF MakeInternal, FailInternal
<1>4. CASE Complete(w) \/ RecordFailure(w, "failed")
  BY <1>1, <1>2, <1>4, FreesWith
<1>5. CASE UNCHANGED records
  BY <1>1, <1>2, <1>5, ReleasedFacts, MovesOn DEF records
<1> QED BY <1>3, <1>4, <1>5

\* The steps that only choose the way to go on.
LEMMA TurnStep ==
  ASSUME Typed, Inv, NEW w \in Workers, ReserveFails(w) \/ ReserveTimesOut(w) \/ StartFails(w)
  PROVE  Typed' /\ Inv'
<1>1. /\ ~At(w, "idle") /\ ~At(w, "make")
      /\ UNCHANGED <<plan, expired, queue, claim, outbox, paid, reservation, reserved, observed, call>>
  BY DEF ReserveFails, ReserveTimesOut, StartFails, At, world, records, budget
<1>2. \E s \in BOOLEAN : Refuses(w, s)
  BY DEF ReserveFails, ReserveTimesOut, StartFails
<1>3. Moves(w, "refuse") /\ "refuse" \in Plain
  BY <1>2, RefusesFacts DEF Plain
<1> QED BY <1>1, <1>3, MovesOn

\* The reservation is authorized: the worker waits for the transaction.
LEMMA AuthorizeStep ==
  ASSUME Typed, Inv, NEW w \in Workers, AuthorizeBudget(w)
  PROVE  Typed' /\ Inv'
<1>1. /\ At(w, "reserve") /\ ~At(w, "idle") /\ ~At(w, "make")
      /\ UNCHANGED <<plan, expired, queue, claim, outbox, paid, reservation, reserved, observed, call>>
  BY DEF AuthorizeBudget, At, world, records, budget
<1>2. Moves(w, "admit") /\ "admit" # "call"
  BY GoesFacts DEF AuthorizeBudget, WorkerSteps
<1>3. queue' \in SUBSET Wake /\ QueueFits /\ outbox' \in [Wake -> OutboxStates] /\ Changes(w)
  BY <1>1 DEF Typed, QueueFits, Changes
<1>4. Books'
  BY <1>1, <1>3, KeepsBooks DEF MoneyFits
<1>5. WorkerSound(w)'
  <2>1. WorkerSound(w)
    BY DEF Inv, Crew
  <2> QED BY <2>1, <1>1, <1>2 DEF WorkerSound, Moves, At, Owner
<1> QED BY <1>1, <1>2, <1>3, <1>4, <1>5, WorkerKeeps

\* The refusal of an operation that was not submitted.
LEMMA RefuseStep ==
  ASSUME Typed, Inv, NEW w \in Workers, Refuse(w)
  PROVE  Typed' /\ Inv'
<1> DEFINE c == worker[w].on
<1>1. ~At(w, "idle") /\ ~At(w, "make") /\ UNCHANGED <<plan, expired, paid, reservation, reserved, observed, call>>
  BY DEF Refuse, At, budget
<1>2. CASE UNCHANGED records /\ Released(w, FALSE)
  BY <1>1, <1>2, ReleasedFacts, MovesOn DEF records
<1>3. CASE RecordFailure(w, "failed") /\ Released(w, TRUE)
  BY <1>1, <1>3, FreesWith
<1>4. CASE RecordFailure(w, "failed") /\ Goes(w, "release") /\ UNCHANGED queue
  <2>1. queue' \in SUBSET Wake /\ QueueFits /\ Moves(w, "release")
    BY <1>4, GoesFacts DEF QueueFits, Typed, WorkerSteps
  <2>2. /\ Books' /\ Changes(w) /\ outbox' \in [Wake -> OutboxStates]
        /\ Rewrites(c, "failed", FALSE, claim[c].id)
    BY <2>1, <1>1, <1>4, FailEffect
  <2>3. WorkerSound(w) /\ c \in Wake
    BY OnType DEF Inv, Crew
  <2>4. WorkerSound(w)'
    BY <2>1, <2>2, <2>3, <1>1 DEF WorkerSound, Moves, Rewrites, At
  <2> QED BY <2>1, <2>2, <2>4, <1>1, WorkerKeeps
<1> QED BY <1>2, <1>3, <1>4 DEF Refuse

\* The submission is recorded as begun: the worker may call.
LEMMA StartStep ==
  ASSUME Typed, Inv, NEW w \in Workers, StartSubmission(w)
  PROVE  Typed' /\ Inv'
<1> DEFINE c == worker[w].on
<1>1. /\ At(w, "start") /\ ~At(w, "idle") /\ ~At(w, "make") /\ Owner(w) /\ claim[c].state = "claimed"
      /\ UNCHANGED <<plan, expired, queue, outbox, paid, reservation, reserved, observed, call>>
  BY DEF StartSubmission, Submittable, At, world, budget
<1>2. Rewrites(c, "submitting", claim[c].live, claim[c].id)
  BY StartFacts
<1>3. WorkerSound(w) /\ c \in Wake /\ c \in PaidWake
  BY <1>1, OnType DEF Inv, Crew, WorkerSound, At
<1>4. ~claim[c].id /\ reservation[c] \in Open
  BY <1>1, <1>3 DEF WorkerSound
<1>5. queue' \in SUBSET Wake /\ QueueFits /\ outbox' \in [Wake -> OutboxStates]
  BY <1>1 DEF QueueFits, Typed
<1>6. Books' /\ Changes(w)
  <2>1. claim[c].state \notin Final /\ claim[c].state # "absent"
    BY <1>1 DEF Final
  <2>2. Books'
    BY <2>1, <1>1, <1>2, <1>3, <1>4, <1>5, RewriteBooks
  <2> QED BY <2>1, <2>2, <1>1, <1>2 DEF Changes
<1>7. CASE Goes(w, "call")
  <2>1. Moves(w, "call")
    BY <1>7, GoesFacts DEF WorkerSteps
  <2>2. ASSUME NEW v \in Workers, At(v, "call") PROVE worker[v].on # c
    <3>1. WorkerSound(v) /\ v # w /\ ~At(v, "idle")
      BY <2>2, <1>1 DEF Inv, Crew, At
    <3>2. CASE worker[v].on = c
      <4>1. ~Owner(v)
        BY <3>1, <3>2, <1>1, OtherOwner
      <4> QED BY <4>1, <3>1, <3>2, <2>2, <1>1 DEF WorkerSound
    <3> QED BY <3>2
  <2>3. paid[c] = 0
    <3>1. PaidSound(c) /\ ClaimSound(c) /\ paid[c] \in Nat
      BY <1>3 DEF Inv, Books, Typed
    <3> QED BY <3>1, <1>1, <1>4 DEF PaidSound, Submitted
  <2>4. WorkerSound(w)'
    BY <2>1, <2>3, <1>1, <1>2, <1>3, <1>4 DEF WorkerSound, Moves, Rewrites, At, Owner
  <2> QED BY <2>1, <2>2, <2>4, <1>1, <1>5, <1>6, WorkerKeeps
<1>8. CASE Refuses(w, TRUE)
  <2>1. Moves(w, "refuse") /\ "refuse" \in Plain /\ "refuse" # "call"
    BY <1>8, RefusesFacts DEF Plain
  <2>2. WorkerSound(w)'
    BY <2>1, <1>1, <1>6, LandsSound
  <2> QED BY <2>1, <2>2, <1>1, <1>5, <1>6, WorkerKeeps
<1> QED BY <1>7, <1>8 DEF StartSubmission

\* The provider is called.
LEMMA CallStepKeeps ==
  ASSUME Typed, Inv, NEW w \in Workers, CallProvider(w)
  PROVE  Typed' /\ Inv'
<1> DEFINE c == worker[w].on
<1>1. /\ At(w, "call") /\ ~At(w, "idle") /\ ~At(w, "make")
      /\ UNCHANGED <<plan, expired, queue, claim, outbox, reservation, reserved, observed, call>>
      /\ paid' = [paid EXCEPT ![c] = @ + 1]
  BY DEF CallProvider, At, world, records, budget
<1>2. \E pc \in Plain : Moves(w, pc)
  BY GoesFacts DEF CallProvider, WorkerSteps, Plain
<1>3. PICK pc \in Plain : Moves(w, pc)
  BY <1>2
<1>4. Typed'
  <2>1. paid' \in [Wake -> Nat] /\ worker' \in [Workers -> Worker]
    BY <1>1, <1>3, OnType DEF Moves, Typed
  <2> QED BY <2>1, <1>1 DEF Typed
<1>5. Books'
  BY CallBooks
<1>6. WorkerSound(w)'
  <2>1. Changes(w)
    BY <1>1 DEF Changes
  <2> QED BY <2>1, <1>1, <1>3, LandsSound
<1>7. ASSUME NEW v \in Workers, v # w PROVE WorkerSound(v)'
  <2> DEFINE k == worker[v].on
  <2>1. k \in Wake /\ worker'[v] = worker[v]
    BY <1>3, <1>7, OnType DEF Moves
  <2>2. paid'[k] = paid[k] \/ ~At(v, "call")
    <3>1. CASE k = c
      BY <3>1, <1>1, <1>7 DEF Inv, Crew, Alone, At
    <3>2. CASE k # c
      BY <3>2, <2>1, <1>1 DEF Typed
    <3> QED BY <3>1, <3>2
  <2> QED BY <2>1, <2>2, <1>1, <1>7, KeepsWorker
<1>8. pc # "call"
  BY DEF Plain
<1>9. \A u \in Workers, v \in Workers : Alone(u, v)'
  BY <1>1, <1>3, <1>8, StaysAlone
<1> QED BY <1>4, <1>5, <1>6, <1>7, <1>9 DEF Inv, Crew

\* The answer of the provider is stored, or the worker goes to close the claim.
LEMMA PersistStep ==
  ASSUME Typed, Inv, NEW w \in Workers, PersistProvider(w)
  PROVE  Typed' /\ Inv'
<1> DEFINE c == worker[w].on
           next == IF Kind[c.op] = "nova_reel" THEN "poll" ELSE "store"
<1>1. /\ ~At(w, "idle") /\ ~At(w, "make")
      /\ UNCHANGED <<plan, expired, queue, paid, reservation, reserved, observed, call>>
  BY DEF PersistProvider, At, world, budget
<1>2. CASE RecordProvider(w) /\ worker' = [worker EXCEPT ![w].id = TRUE, ![w].pc = next]
  <2>1. worker[w] \in Worker /\ worker \in [Workers -> Worker]
    BY DEF Typed
  <2>2. worker' = [worker EXCEPT ![w] = [worker[w] EXCEPT !.id = TRUE, !.pc = next]]
    BY <1>2, <2>1
  <2>3. next \in Plain /\ next \in WorkerSteps
    BY DEF Plain, WorkerSteps
  <2> HIDE DEF next
  <2>4. [worker[w] EXCEPT !.id = TRUE, !.pc = next] \in Worker
    BY <2>1, <2>3 DEF Worker
  <2>5. Moves(w, next)
    BY <2>1, <2>2, <2>4 DEF Moves, Worker
  <2> QED BY <2>3, <2>5, <1>1, <1>2, GoesWith
<1>3. CASE RecordProvider(w) /\ Goes(w, "quarantine")
  <2>1. Moves(w, "quarantine") /\ "quarantine" \in Plain
    BY <1>3, GoesFacts DEF Plain, WorkerSteps
  <2> QED BY <2>1, <1>1, <1>3, GoesWith
<1>4. CASE UNCHANGED records /\ Goes(w, "quarantine")
  <2>1. Moves(w, "quarantine") /\ "quarantine" \in Plain
    BY <1>4, GoesFacts DEF Plain, WorkerSteps
  <2> QED BY <2>1, <1>1, <1>4, MovesOn DEF records
<1> QED BY <1>2, <1>3, <1>4 DEF PersistProvider

\* A poll finds the result, an error, or nothing yet.
LEMMA PollStep ==
  ASSUME Typed, Inv, NEW w \in Workers, PollProvider(w)
  PROVE  Typed' /\ Inv'
<1>1. /\ ~At(w, "idle") /\ ~At(w, "make")
      /\ UNCHANGED <<plan, expired, paid, reservation, reserved, observed, call>>
  BY DEF PollProvider, At, budget
<1>2. CASE (Goes(w, "store") \/ Goes(w, "quarantine")) /\ UNCHANGED <<records, queue>>
  <2>1. /\ Moves(w, "store") \/ Moves(w, "quarantine")
        /\ "store" \in Plain /\ "quarantine" \in Plain
    BY <1>2, GoesFacts DEF Plain, WorkerSteps
  <2> QED BY <2>1, <1>1, <1>2, MovesOn DEF records
<1>3. CASE RecordProvider(w) /\ Released(w, TRUE)
  BY <1>1, <1>3, FreesWith
<1>4. CASE UNCHANGED records /\ Released(w, FALSE)
  BY <1>1, <1>4, ReleasedFacts, MovesOn DEF records
<1> QED BY <1>2, <1>3, <1>4 DEF PollProvider

\* The result is stored, or its loss taken for the operation's failure.
LEMMA StoreStep ==
  ASSUME Typed, Inv, NEW w \in Workers, StoreArtifact(w)
  PROVE  Typed' /\ Inv'
<1> DEFINE c == worker[w].on
<1>1. /\ ~At(w, "idle") /\ ~At(w, "make")
      /\ UNCHANGED <<plan, expired, queue, paid, reservation, reserved, observed, call>>
  BY DEF StoreArtifact, At, world, budget
<1>2. CASE Complete(w) /\ Goes(w, "usage")
  <2>1. queue' \in SUBSET Wake /\ QueueFits /\ Moves(w, "usage")
    BY <1>1, <1>2, GoesFacts DEF QueueFits, Typed, WorkerSteps
  <2>2. /\ Books' /\ Changes(w) /\ outbox' \in [Wake -> OutboxStates]
        /\ Rewrites(c, "succeeded", FALSE, claim[c].id)
    BY <2>1, <1>1, <1>2, CompleteEffect
  <2>3. WorkerSound(w) /\ c \in Wake
    BY OnType DEF Inv, Crew
  <2>4. WorkerSound(w)'
    BY <2>1, <2>2, <2>3, <1>1 DEF WorkerSound, Moves, Rewrites, At
  <2> QED BY <2>1, <2>2, <2>4, <1>1, WorkerKeeps
<1>3. CASE Complete(w) /\ Goes(w, "quarantine")
  <2>1. Moves(w, "quarantine") /\ "quarantine" \in Plain
    BY <1>3, GoesFacts DEF Plain, WorkerSteps
  <2> QED BY <2>1, <1>1, <1>3, GoesWith
<1>4. CASE UNCHANGED records /\ Goes(w, "quarantine")
  <2>1. Moves(w, "quarantine") /\ "quarantine" \in Plain
    BY <1>4, GoesFacts DEF Plain, WorkerSteps
  <2> QED BY <2>1, <1>1, <1>4, MovesOn DEF records
<1> QED BY <1>2, <1>3, <1>4 DEF StoreArtifact

\* The claim is closed after an error.
LEMMA QuarantineStep ==
  ASSUME Typed, Inv, NEW w \in Workers, Quarantine(w)
  PROVE  Typed' /\ Inv'
<1>1. /\ ~At(w, "idle") /\ ~At(w, "make") /\ Goes(w, "settle")
      /\ UNCHANGED <<plan, expired, queue, paid, reservation, reserved, observed, call>>
  BY DEF Quarantine, At, world, budget
<1>2. Moves(w, "settle") /\ "settle" \in Plain
  BY <1>1, GoesFacts DEF Plain, WorkerSteps
<1>3. CASE \E s \in {"failed", "uncertain"} : RecordFailure(w, s)
  BY <1>1, <1>2, <1>3, GoesWith
<1>4. CASE UNCHANGED records
  BY <1>1, <1>2, <1>4, MovesOn DEF records
<1>5. (IF worker[w].id THEN "failed" ELSE "uncertain") \in {"failed", "uncertain"}
  OBVIOUS
<1> QED BY <1>3, <1>4, <1>5 DEF Quarantine

\* A step of a worker that moves the money of its operation.
LEMMA MoneyStep ==
  ASSUME Typed, Inv, NEW w \in Workers, ~At(w, "idle"), NEW c, c = worker[w].on, c \in PaidWake, NEW pc,
         UNCHANGED <<plan, expired, claim, outbox, paid, call>>, queue' \subseteq queue,
         \/ Reserve(c, TRUE) \/ ResolveUncertain(c) \/ UNCHANGED budget
         \/ FinalizeUsage(c) /\ claim[c].state = "succeeded"
         \/ ResolveNotInvoked(c) /\ claim[c].state = "failed",
         Frees(w) \/ (Moves(w, pc) /\ pc # "call" /\ WorkerSound(w)')
  PROVE  Typed' /\ Inv'
<1>1. c \in Spends /\ PaidWake \subseteq Spends /\ reservation \in [Spends -> ReservationStates]
  BY Consts DEF Typed
<1>2. /\ reservation' \in [Spends -> ReservationStates]
      /\ reserved' \in [Accounts -> Int] /\ observed' \in [Accounts -> Int]
  BY <1>1, BudgetTyped
<1>3. Typed'
  BY <1>2 DEF Typed, Frees, Moves
<1>4. /\ \A d \in PaidWake : d # c => reservation'[d] = reservation[d]
      /\ \/ reservation'[c] = reservation[c]
         \/ reservation[c] = "absent" /\ reservation'[c] \in {"reserved", "rejected"}
         \/ reservation'[c] = "uncertain"
         \/ reservation'[c] = "released" /\ claim[c].state = "failed"
         \/ reservation'[c] = "finalized" /\ claim[c].state = "succeeded"
  BY <1>1 DEF Reserve, FinalizeUsage, ResolveUncertain, ResolveNotInvoked, budget
<1>5. Books'
  <2>1. MoneyFits
    BY <1>4 DEF MoneyFits
  <2>2. QueueFits
    BY DEF QueueFits
  <2> QED BY <2>1, <2>2, KeepsBooks
<1>6. ASSUME NEW v \in Workers, v # w PROVE WorkerSound(v)'
  <2> DEFINE k == worker[v].on
  <2>0. worker'[v] = worker[v]
    BY <1>6 DEF Frees, Moves
  <2>1. CASE k \in PaidWake
    <3>1. reservation[k] \in Open => reservation'[k] \in Open \/ claim[k].state \in {"failed", "succeeded"}
      BY <1>4, <2>1 DEF Open
    <3> QED BY <3>1, <2>0, <1>6, KeepsWorker
  <2>2. CASE k \notin PaidWake
    <3>1. At(v, "idle") \/ At(v, "make")
      BY <2>2, <1>6 DEF Inv, Crew, WorkerSound
    <3> QED BY <3>1, <2>0, <1>6 DEF Inv, Crew, WorkerSound, At, Owner
  <2> QED BY <2>1, <2>2
<1>7. WorkerSound(w)'
  BY FreesSound
<1>8. \A u \in Workers, v \in Workers : Alone(u, v)'
  BY StaysAlone
<1> QED BY <1>3, <1>5, <1>6, <1>7, <1>8 DEF Inv, Crew

\* The budget answers: the reservation is there unless it was refused.
LEMMA ReserveStep ==
  ASSUME Typed, Inv, NEW w \in Workers, ReserveBudget(w)
  PROVE  Typed' /\ Inv'
<1> DEFINE c == worker[w].on
<1>1. /\ At(w, "admit") /\ ~At(w, "idle") /\ ~At(w, "make") /\ Reserve(c, TRUE)
      /\ UNCHANGED <<plan, expired, queue, claim, outbox, paid, call>>
  BY DEF ReserveBudget, At, world, records
<1>2. WorkerSound(w) /\ c \in PaidWake /\ c \in Wake /\ c \in Spends
  BY <1>1, OnType, Consts DEF Inv, Crew, WorkerSound, At
<1>3. Changes(w)
  BY <1>1 DEF Changes
<1>4. CASE \E s \in BOOLEAN : Refuses(w, s)
  <2>1. Moves(w, "refuse") /\ "refuse" \in Plain
    BY <1>4, RefusesFacts DEF Plain
  <2>2. WorkerSound(w)'
    BY <2>1, <1>1, <1>3, LandsSound
  <2> QED BY <2>1, <2>2, <1>1, <1>2, MoneyStep
<1>5. CASE Goes(w, "poll")
  <2>1. Moves(w, "poll") /\ "poll" \in Plain
    BY <1>5, GoesFacts DEF Plain, WorkerSteps
  <2>2. WorkerSound(w)'
    BY <2>1, <1>1, <1>3, LandsSound
  <2> QED BY <2>1, <2>2, <1>1, <1>2, MoneyStep
<1>6. CASE Goes(w, "start") /\ ~worker[w].resumed /\ Admitted(reservation'[c])
  <2>1. Moves(w, "start")
    BY <1>6, GoesFacts DEF WorkerSteps
  <2>2. Owner(w) => ~claim[c].id
    BY <1>1, <1>2, <1>6 DEF WorkerSound
  <2>3. claim[c].state = "claimed" => reservation'[c] \in Open
    <3>1. PaidSound(c) /\ reservation \in [Spends -> ReservationStates]
      BY <1>2 DEF Inv, Books, Typed
    <3>2. reservation'[c] = reservation[c] \/ reservation'[c] \in {"reserved", "rejected"}
      BY <1>1, <1>2, <3>1 DEF Reserve, budget
    <3> QED BY <3>1, <3>2, <1>2, <1>6 DEF PaidSound, Admitted, Open, ReservationStates
  <2>4. WorkerSound(w)'
    BY <2>1, <2>2, <2>3, <1>1, <1>2 DEF WorkerSound, Moves, At, Owner
  <2> QED BY <2>1, <2>4, <1>1, <1>2, MoneyStep
<1> QED BY <1>4, <1>5, <1>6 DEF ReserveBudget

\* The budget answers a request that nobody waits for any more.
LEMMA LateStep ==
  ASSUME Typed, Inv, NEW c \in PaidWake, LateReserve(c)
  PROVE  Typed' /\ Inv'
<1>1. UNCHANGED <<plan, expired, claim, outbox, queue, worker, paid, call>> /\ Reserve(c, TRUE)
  BY DEF LateReserve
<1>2. c \in Spends /\ PaidWake \subseteq Spends /\ reservation \in [Spends -> ReservationStates]
  BY Consts DEF Typed
<1>3. /\ reservation' \in [Spends -> ReservationStates]
      /\ reserved' \in [Accounts -> Int] /\ observed' \in [Accounts -> Int]
  BY <1>1, <1>2, BudgetTyped
<1>4. Typed'
  BY <1>1, <1>3 DEF Typed
<1>5. \A s \in Spends :
        \/ reservation'[s] = reservation[s]
        \/ reservation[s] = "absent" /\ reservation'[s] \in {"reserved", "rejected"}
  BY <1>1, <1>2 DEF Reserve, budget
<1>6. Books'
  <2>1. MoneyFits /\ QueueFits
    BY <1>1, <1>2, <1>5 DEF MoneyFits, QueueFits
  <2> QED BY <2>1, <1>1, KeepsBooks
<1>7. ASSUME NEW v \in Workers PROVE WorkerSound(v)'
  <2> DEFINE k == worker[v].on
  <2>1. WorkerSound(v) /\ worker'[v] = worker[v]
    BY <1>1, <1>7 DEF Inv, Crew
  <2>2. CASE k \in PaidWake
    <3>1. reservation[k] \in Open => reservation'[k] \in Open
      BY <1>2, <1>5, <2>2 DEF Open
    <3> QED BY <3>1, <2>1, <1>1, <1>7, KeepsWorker
  <2>3. CASE k \notin PaidWake
    <3>1. At(v, "idle") \/ At(v, "make")
      BY <2>1, <2>3 DEF WorkerSound
    <3> QED BY <3>1, <2>1, <1>1 DEF WorkerSound, At, Owner
  <2> QED BY <2>2, <2>3
<1>8. \A u \in Workers, v \in Workers : Alone(u, v)'
  BY <1>1 DEF Inv, Crew, Alone, At
<1> QED BY <1>4, <1>6, <1>7, <1>8 DEF Inv, Crew

\* The reservation of a call is given back, spent or left open.
LEMMA SettleStep ==
  ASSUME Typed, Inv, NEW w \in Workers, Release(w) \/ ReportUsage(w) \/ Settle(w)
  PROVE  Typed' /\ Inv'
<1> DEFINE c == worker[w].on
<1>1. /\ ~At(w, "idle") /\ ~At(w, "make")
      /\ UNCHANGED <<plan, expired, claim, outbox, paid, call>>
  BY DEF Release, ReportUsage, Settle, At, records
<1>2. WorkerSound(w) /\ c \in PaidWake
  BY <1>1 DEF Inv, Crew, WorkerSound
<1>3. Frees(w) /\ queue' \subseteq queue
  BY ReleasedFacts DEF Release, ReportUsage, Settle
<1>4. CASE Release(w)
  <2>1. claim[c].state = "failed"
    BY <1>4, <1>2 DEF Release, WorkerSound
  <2>2. ResolveNotInvoked(c) \/ UNCHANGED budget
    BY <1>4 DEF Release
  <2> QED BY <2>1, <2>2, <1>1, <1>2, <1>3, MoneyStep
<1>5. CASE ReportUsage(w)
  <2>1. claim[c].state = "succeeded"
    BY <1>5, <1>2 DEF ReportUsage, WorkerSound
  <2>2. FinalizeUsage(c) \/ UNCHANGED budget
    BY <1>5 DEF ReportUsage
  <2> QED BY <2>1, <2>2, <1>1, <1>2, <1>3, MoneyStep
<1>6. CASE Settle(w)
  <2>2. ResolveUncertain(c) \/ UNCHANGED budget
    BY <1>6 DEF Settle
  <2> QED BY <2>2, <1>1, <1>2, <1>3, MoneyStep
<1> QED BY <1>4, <1>5, <1>6

----------------------------------------------------------------------------
(* The invariant.                                                           *)

\* Nothing is approved, claimed or paid at first.
LEMMA InitInv == Init => Inv
<1> SUFFICES ASSUME Init PROVE Inv
  OBVIOUS
<1>1. /\ plan.state = "proposed"
      /\ \A c \in Wake : claim[c] = NoClaim /\ outbox[c] = "absent" /\ paid[c] = 0 /\ c \notin queue
      /\ \A s \in Spends : reservation[s] = "absent"
      /\ \A w \in Workers : worker[w].pc = "idle"
  BY DEF Init, BudgetInit, Idle
<1>2. ASSUME NEW c \in Wake PROVE ClaimSound(c) /\ OutboxSound(c)
  BY <1>1, <1>2 DEF ClaimSound, OutboxSound, NoClaim, Final
<1>3. ASSUME NEW c \in PaidWake PROVE PaidSound(c)
  <2>1. c \in Wake /\ c \in Spends
    BY <1>3, Consts DEF PaidWake
  <2> QED BY <2>1, <1>1 DEF PaidSound
<1>4. TriggerNotLost
  BY <1>1 DEF TriggerNotLost, Claimable, Current
<1>5. \A w \in Workers : WorkerSound(w)
  BY <1>1 DEF WorkerSound, At
<1>6. \A v \in Workers, w \in Workers : Alone(v, w)
  BY <1>1 DEF Alone, At
<1> QED BY <1>2, <1>3, <1>4, <1>5, <1>6 DEF Inv, Books, Crew

\* Every step preserves it.
LEMMA NextInv == Typed /\ Inv /\ [Next]_vars => Typed' /\ Inv'
<1> SUFFICES ASSUME Typed, Inv, [Next]_vars PROVE Typed' /\ Inv'
  OBVIOUS
<1>1. CASE OperatorStep
  <2>1. CASE Propose BY <2>1, ProposeStep
  <2>2. CASE Seal \/ Reject BY <2>2, SealStep
  <2>3. CASE Approve BY <2>3, ApproveStep
  <2>4. CASE Rerender BY <2>4, RerenderStep
  <2>5. CASE MandateExpires BY <2>5, MessageStep
  <2> QED BY <1>1, <2>1, <2>2, <2>3, <2>4, <2>5 DEF OperatorStep
<1>2. CASE MeteredCall
  BY <1>2, MeteredStep
<1>3. ASSUME NEW c \in Wake, Dispatch(c) \/ Expire(c) \/ DropWake(c) PROVE Typed' /\ Inv'
  BY <1>3, MessageStep, ExpireStep
<1>4. ASSUME NEW w \in Workers, Crash(w) PROVE Typed' /\ Inv'
  BY <1>4, CrashStep
<1>5. ASSUME NEW w \in Workers, WorkerStep(w) PROVE Typed' /\ Inv'
  <2>1. ASSUME NEW c \in Wake, AckWake(w, c) PROVE Typed' /\ Inv'
    BY <2>1, MessageStep
  <2>2. ASSUME NEW c \in Wake, Quarantined(w, c) PROVE Typed' /\ Inv'
    BY <2>2, QuarantinedStep
  <2>3. ASSUME NEW c \in Wake, ClaimOperation(w, c) PROVE Typed' /\ Inv'
    BY <2>3, ClaimStep
  <2>4. CASE MakeInternal(w) \/ FailInternal(w) BY <2>4, InternalStep
  <2>5. CASE PaidStep(w)
    BY <2>5, AuthorizeStep, ReserveStep, TurnStep, StartStep, RefuseStep, SettleStep, CallStepKeeps,
       PersistStep, PollStep, StoreStep, QuarantineStep DEF PaidStep
  <2> QED BY <1>5, <2>1, <2>2, <2>3, <2>4, <2>5 DEF WorkerStep
<1>6. CASE UNCHANGED vars
  <2>1. UNCHANGED <<plan, expired, claim, outbox, queue, worker, paid, reservation, reserved,
                    observed, call>>
    BY <1>6 DEF vars, budget
  <2>2. queue' \in SUBSET Wake /\ QueueFits /\ expired' \in BOOLEAN
    BY <2>1 DEF Typed, QueueFits
  <2> QED BY <2>1, <2>2, QuietStep DEF Typed
<1>7. ASSUME NEW c \in PaidWake, LateReserve(c) PROVE Typed' /\ Inv'
  BY <1>7, LateStep
<1> QED BY <1>1, <1>2, <1>3, <1>4, <1>5, <1>6, <1>7 DEF Next

\* The types of all that is stored and of all that is in the workers' hands,
\* and what its parts say of one another, hold at all times.
THEOREM InvHolds == Spec => [](Typed /\ Inv)
<1>1. Init => Typed /\ Inv
  BY InitTyped, InitInv
<1> QED BY <1>1, NextInv, PTL DEF Spec

\* The invariant of the runs: what was never submitted alone is submitted, by
\* its claimant, and an identity is known only of a call that was made.
THEOREM PlanInvHolds == Spec => []PlanInv
<1>1. Typed /\ Inv => PlanInv
  <2> SUFFICES ASSUME Typed, Inv PROVE PlanInv
    OBVIOUS
  <2>1. ASSUME NEW c \in PaidWake
        PROVE  /\ claim[c].state = "absent" => claim[c] = NoClaim
               /\ paid[c] > 0 => Submitted(c)
               /\ paid[c] <= 1
    <3>1. c \in Wake
      BY <2>1 DEF PaidWake
    <3> QED BY <3>1, <2>1 DEF Inv, Books, ClaimSound, PaidSound
  <2>2. ASSUME NEW w \in Workers
        PROVE  LET c == worker[w].on IN
               /\ ~At(w, "idle") => 1 <= worker[w].token /\ worker[w].token <= claim[c].attempt
               /\ ~At(w, "idle") /\ ~At(w, "make") => c \in PaidWake
               /\ At(w, "start") /\ Owner(w) => ~claim[c].id
               /\ At(w, "call") => Submitted(c) /\ paid[c] = 0
    BY <2>2 DEF Inv, Crew, WorkerSound, Submitted
  <2>3. ASSUME NEW w \in Workers, NEW v \in Workers,
               At(w, "call"), At(v, "call"), worker[v].on = worker[w].on
        PROVE  v = w
    BY <2>3 DEF Inv, Crew, Alone, At
  <2> QED BY <2>1, <2>2, <2>3 DEF PlanInv
<1> QED BY <1>1, InvHolds, PTL

\* No provider is asked twice to do what the operator paid for once, whatever
\* is redelivered, dies or expires on the way (claimPaidProductionOperation).
THEOREM PaidOnceHolds == Spec => []PaidOnce
<1>1. Typed /\ Inv => PaidOnce
  BY DEF Inv, Books, PaidSound, PaidOnce
<1> QED BY <1>1, InvHolds, PTL

\* No provider is called without the money for it set aside.
THEOREM CallIsCoveredHolds == Spec => []CallIsCovered
<1>1. Typed /\ Inv => CallIsCovered
  BY DEF Inv, Crew, WorkerSound, CallIsCovered
<1> QED BY <1>1, InvHolds, PTL

\* Whatever can be done under the approved plan has a record to publish.
THEOREM TriggerNotLostHolds == Spec => []TriggerNotLost
<1>1. Typed /\ Inv => TriggerNotLost
  BY DEF Inv, Books
<1> QED BY <1>1, InvHolds, PTL

----------------------------------------------------------------------------
(* The limits of the accounts.                                              *)

\* A transaction on the books overdraws no account.
LEMMA BudgetWithin ==
  ASSUME Typed, WithinLimits, NEW s \in Spends,
         \/ \E a \in BOOLEAN : Reserve(s, a)
         \/ FinalizeUsage(s) \/ ResolveUncertain(s) \/ ResolveNotInvoked(s) \/ UNCHANGED budget
  PROVE  WithinLimits'
<1> SUFFICES ASSUME NEW a \in Accounts PROVE reserved'[a] + observed'[a] <= Limit[a]
  BY DEF WithinLimits
<1>1. /\ Cost[s] \in Nat /\ Limit[a] \in Nat /\ reserved[a] \in Int /\ observed[a] \in Int
      /\ reserved[a] + observed[a] <= Limit[a]
      /\ reserved \in [Accounts -> Int] /\ observed \in [Accounts -> Int]
  BY Consts DEF Typed, WithinLimits
<1>2. CASE UNCHANGED budget
  BY <1>1, <1>2 DEF budget
<1>3. CASE \E b \in BOOLEAN : Reserve(s, b)
  <2>1. CASE UNCHANGED <<reserved, observed>>
    BY <1>1, <2>1
  <2>2. CASE reserved' = Moved(reserved, s, Cost[s]) /\ UNCHANGED observed
             /\ \A x \in Charged(s) : CanReserve(x, s)
    BY <1>1, <2>2 DEF Moved, CanReserve
  <2> QED BY <1>3, <2>1, <2>2 DEF Reserve, Accepts, budget
<1>4. CASE FinalizeUsage(s)
  <2>1. PICK u \in Usages(s) :
             reserved' = Moved(reserved, s, -Cost[s]) /\ observed' = Moved(observed, s, u)
    BY <1>4 DEF FinalizeUsage
  <2>2. u \in Int /\ u <= Cost[s]
    BY UsageFits
  <2> QED BY <1>1, <2>1, <2>2 DEF Moved
<1>5. CASE ResolveUncertain(s)
  BY <1>1, <1>5 DEF ResolveUncertain
<1>6. CASE ResolveNotInvoked(s)
  BY <1>1, <1>6 DEF ResolveNotInvoked, Moved, budget
<1> QED BY <1>2, <1>3, <1>4, <1>5, <1>6

\* A step of the plan is a transaction on the books of one spend, or none.
LEMMA OneTransaction ==
  ASSUME Typed, Inv, [Next]_vars
  PROVE  \/ UNCHANGED budget
         \/ \E s \in Spends :
              \/ \E a \in BOOLEAN : Reserve(s, a)
              \/ FinalizeUsage(s) \/ ResolveUncertain(s) \/ ResolveNotInvoked(s)
<1>1. CASE OperatorStep
  BY <1>1 DEF OperatorStep, Propose, Seal, Approve, Reject, Rerender, MandateExpires
<1>2. CASE MeteredCall
  <2>1. PICK s \in Calls : CallStep(s)
    BY <1>2 DEF MeteredCall
  <2> QED BY <2>1, Consts DEF CallStep, CallReserve, CallInvoke, CallReport, CallFail, CallCrash
<1>3. CASE \E c \in Wake : Dispatch(c) \/ Expire(c) \/ DropWake(c)
  BY <1>3 DEF Dispatch, Expire, DropWake
<1>4. ASSUME NEW w \in Workers, Crash(w) PROVE UNCHANGED budget
  BY <1>4 DEF Crash
<1>5. ASSUME NEW w \in Workers, WorkerStep(w)
      PROVE \/ UNCHANGED budget
            \/ \E s \in Spends :
                 \/ \E a \in BOOLEAN : Reserve(s, a)
                 \/ FinalizeUsage(s) \/ ResolveUncertain(s) \/ ResolveNotInvoked(s)
  <2> DEFINE c == worker[w].on
  <2>1. CASE (\E d \in Wake : AckWake(w, d) \/ Quarantined(w, d) \/ ClaimOperation(w, d))
             \/ MakeInternal(w) \/ FailInternal(w)
    BY <2>1 DEF AckWake, Quarantined, ClaimOperation, MakeInternal, FailInternal
  <2>2. CASE PaidStep(w)
    <3>1. ~At(w, "idle") /\ ~At(w, "make")
      BY <2>2 DEF PaidStep, AuthorizeBudget, ReserveBudget, ReserveFails, ReserveTimesOut,
                  StartSubmission, StartFails, Refuse, Release, CallProvider,
                  PersistProvider, PollProvider, StoreArtifact, ReportUsage, Quarantine, Settle, At
    <3>2. c \in Spends
      BY <3>1, Consts DEF Inv, Crew, WorkerSound
    <3>3. CASE ReserveBudget(w) \/ Release(w) \/ ReportUsage(w) \/ Settle(w)
      BY <3>2, <3>3 DEF ReserveBudget, Release, ReportUsage, Settle
    <3>4. CASE \/ AuthorizeBudget(w) \/ ReserveFails(w) \/ ReserveTimesOut(w) \/ StartSubmission(w)
               \/ StartFails(w) \/ Refuse(w) \/ CallProvider(w) \/ PersistProvider(w)
               \/ PollProvider(w) \/ StoreArtifact(w) \/ Quarantine(w)
      BY <3>4 DEF AuthorizeBudget, ReserveFails, ReserveTimesOut, StartSubmission, StartFails, Refuse,
                  CallProvider, PersistProvider, PollProvider, StoreArtifact, Quarantine
    <3> QED BY <2>2, <3>3, <3>4 DEF PaidStep
  <2> QED BY <1>5, <2>1, <2>2 DEF WorkerStep
<1>6. CASE UNCHANGED vars
  BY <1>6 DEF vars
<1>7. CASE \E c \in PaidWake : LateReserve(c)
  BY <1>7, Consts DEF LateReserve
<1> QED BY <1>1, <1>2, <1>3, <1>4, <1>5, <1>6, <1>7 DEF Next

\* Neither a job nor the workspace is overdrawn, whoever reserves, settles or
\* forgets what in which order (canReserve and the three budget transactions).
THEOREM WithinLimitsHolds == Spec => []WithinLimits
<1>1. Init => WithinLimits
  BY Consts DEF Init, BudgetInit, WithinLimits
<1>2. Typed /\ Inv /\ WithinLimits /\ [Next]_vars => WithinLimits'
  <2> SUFFICES ASSUME Typed, Inv, WithinLimits, [Next]_vars PROVE WithinLimits'
    OBVIOUS
  <2>1. CASE UNCHANGED budget
    BY <2>1 DEF WithinLimits, budget
  <2>2. ASSUME NEW s \in Spends,
               \/ \E a \in BOOLEAN : Reserve(s, a)
               \/ FinalizeUsage(s) \/ ResolveUncertain(s) \/ ResolveNotInvoked(s)
        PROVE  WithinLimits'
    BY <2>2, BudgetWithin
  <2> QED BY <2>1, <2>2, OneTransaction
<1> QED BY <1>1, <1>2, InvHolds, PTL DEF Spec

----------------------------------------------------------------------------
(* Sums over a finite set.  The library's induction rules take an operator,  *)
(* so the induction is on a smallest subset for which a claim fails.         *)

\* The sum of f over a set, as MapThenSumSet computes it: in the order CHOOSE
\* gives. IsSum: g holds the sums of all subsets of S.
Chosen(s) == CHOOSE x \in s : TRUE
IsSum(g, f, S) ==
  g = [s \in SUBSET S |-> IF s = {} THEN 0 ELSE f[Chosen(s)] + g[s \ {Chosen(s)}]]

Sum(f, S) == MapThenSumSet(LAMBDA x : f[x], S)

LEMMA SumIs ==
  ASSUME NEW f, NEW S
  PROVE  Sum(f, S) = (CHOOSE g : IsSum(g, f, S))[S]
BY Zenon DEF Sum, MapThenSumSet, MapThenFoldSet, IsSum, Chosen

\* Among the subsets of a finite set that have a property one is minimal.
LEMMA Minimal ==
  ASSUME NEW S, IsFiniteSet(S), NEW T, T \subseteq SUBSET S, T # {}
  PROVE  \E x \in T : \A y \in T : y \subseteq x => y = x
<1>1. IsWellFoundedOn(StrictSubsetOrdering(S), SUBSET S)
  BY FS_StrictSubsetOrderingWellFounded, FS_FiniteSubsetsOfFinite
<1>2. PICK x \in T : \A y \in T : ~ (<<y, x>> \in StrictSubsetOrdering(S))
  BY <1>1, WFMin
<1>3. \A y \in T : y \subseteq x => y = x
  BY <1>2 DEF StrictSubsetOrdering
<1> QED BY <1>3

LEMMA ChosenIn == \A s : s # {} => Chosen(s) \in s
BY DEF Chosen

\* Where two sums are of the same values they are the same.
LEMMA SumUnique ==
  ASSUME NEW S, IsFiniteSet(S), NEW A, NEW B, S \subseteq A, S \subseteq B,
         NEW f, NEW h, \A x \in S : f[x] = h[x],
         NEW g, IsSum(g, f, A), NEW k, IsSum(k, h, B)
  PROVE  g[S] = k[S]
<1> DEFINE T == {s \in SUBSET S : g[s] # k[s]}
<1>1. SUFFICES ASSUME T # {} PROVE FALSE
  OBVIOUS
<1>2. PICK s \in T : \A y \in T : y \subseteq s => y = s
  <2>1. T \subseteq SUBSET S
    OBVIOUS
  <2> HIDE DEF T
  <2> QED BY <1>1, <2>1, Minimal
<1>3. s \in SUBSET A /\ s \in SUBSET B /\ s \in SUBSET S
  OBVIOUS
<1>4. g[s] = IF s = {} THEN 0 ELSE f[Chosen(s)] + g[s \ {Chosen(s)}]
  BY <1>3 DEF IsSum
<1>5. k[s] = IF s = {} THEN 0 ELSE h[Chosen(s)] + k[s \ {Chosen(s)}]
  BY <1>3 DEF IsSum
<1>6. s # {}
  BY <1>4, <1>5
<1>7. Chosen(s) \in s
  BY <1>6, ChosenIn
<1>8. g[s \ {Chosen(s)}] = k[s \ {Chosen(s)}]
  BY <1>2, <1>3, <1>7
<1> QED BY <1>3, <1>4, <1>5, <1>6, <1>7, <1>8

\* Every finite set has its sums.
LEMMA SumExists ==
  ASSUME NEW S, IsFiniteSet(S), NEW f
  PROVE  \E g : IsSum(g, f, S)
<1> DEFINE T == {s \in SUBSET S : ~ \E g : IsSum(g, f, s)}
<1>1. SUFFICES ASSUME T # {} PROVE FALSE
  OBVIOUS
<1>2. PICK s \in T : \A y \in T : y \subseteq s => y = s
  <2>1. T \subseteq SUBSET S
    OBVIOUS
  <2> HIDE DEF T
  <2> QED BY <1>1, <2>1, Minimal
<1> DEFINE part(t) == CHOOSE g : IsSum(g, f, t)
           below(t) == IF t = {} THEN 0 ELSE f[Chosen(t)] + part(t \ {Chosen(t)})[t \ {Chosen(t)}]
           whole == [t \in SUBSET s |-> below(t)]
<1>3. \A t \in SUBSET s : t # s => IsSum(part(t), f, t)
  BY <1>2
<1>4. ASSUME NEW t \in SUBSET s, t # {}
      PROVE  whole[t \ {Chosen(t)}] = part(t \ {Chosen(t)})[t \ {Chosen(t)}]
  <2> DEFINE u == t \ {Chosen(t)}
  <2>1. u \in SUBSET s /\ u # s /\ IsFiniteSet(u)
    <3>1. Chosen(t) \in t
      BY <1>4, ChosenIn
    <3>2. IsFiniteSet(s)
      BY FS_Subset
    <3> QED BY <3>1, <3>2, FS_Subset
  <2>2. IsSum(part(u), f, u)
    BY <1>3, <2>1
  <2>3. whole[u] = below(u)
    BY <2>1
  <2>4. part(u)[u] = IF u = {} THEN 0 ELSE f[Chosen(u)] + part(u)[u \ {Chosen(u)}]
    BY <2>2 DEF IsSum
  <2>5. ASSUME u # {} PROVE part(u)[u \ {Chosen(u)}] = part(u \ {Chosen(u)})[u \ {Chosen(u)}]
    <3> DEFINE v == u \ {Chosen(u)}
    <3>1. v \subseteq u /\ v # s /\ v \in SUBSET s /\ IsFiniteSet(v)
      BY <2>1, <2>5, ChosenIn, FS_Subset
    <3>2. IsSum(part(v), f, v)
      BY <1>3, <3>1
    <3> HIDE DEF part, v, u
    <3>3. part(u)[v] = part(v)[v]
      BY <2>2, <3>1, <3>2, SumUnique
    <3> QED BY <3>3 DEF v, u
  <2> QED BY <2>3, <2>4, <2>5
<1>5. IsSum(whole, f, s)
  <2>1. ASSUME NEW t \in SUBSET s
        PROVE  below(t) = IF t = {} THEN 0 ELSE f[Chosen(t)] + whole[t \ {Chosen(t)}]
    <3>1. CASE t = {}
      BY <3>1
    <3>2. CASE t # {}
      <4> HIDE DEF whole, part
      <4> QED BY <1>4, <3>2
    <3> QED BY <3>1, <3>2
  <2>2. whole = [t \in SUBSET s |-> below(t)]
    OBVIOUS
  <2> HIDE DEF whole, below, part
  <2> QED BY <2>1, <2>2, Zenon DEF IsSum
<1> QED BY <1>2, <1>5

\* Sums of integers are integers, and of naturals naturals.
LEMMA SumType ==
  ASSUME NEW S, IsFiniteSet(S), NEW f, NEW N \in {Nat, Int}, \A x \in S : f[x] \in N,
         NEW g, IsSum(g, f, S)
  PROVE  \A s \in SUBSET S : g[s] \in N
<1> DEFINE T == {s \in SUBSET S : g[s] \notin N}
<1>1. SUFFICES ASSUME T # {} PROVE FALSE
  OBVIOUS
<1>2. PICK s \in T : \A y \in T : y \subseteq s => y = s
  <2>1. T \subseteq SUBSET S
    OBVIOUS
  <2> HIDE DEF T
  <2> QED BY <1>1, <2>1, Minimal
<1>3. g[s] = IF s = {} THEN 0 ELSE f[Chosen(s)] + g[s \ {Chosen(s)}]
  BY DEF IsSum
<1>4. s # {}
  BY <1>3
<1>5. Chosen(s) \in s
  BY <1>4, ChosenIn
<1>6. g[s \ {Chosen(s)}] \in N
  BY <1>2, <1>5
<1>7. f[Chosen(s)] \in N
  BY <1>5
<1> QED BY <1>3, <1>4, <1>6, <1>7

\* The order does not matter: any element may be taken first.
LEMMA SumTakes ==
  ASSUME NEW S, IsFiniteSet(S), NEW f, \A x \in S : f[x] \in Int,
         NEW g, IsSum(g, f, S)
  PROVE  \A s \in SUBSET S : \A z \in s : g[s] = f[z] + g[s \ {z}]
<1> DEFINE T == {s \in SUBSET S : \E z \in s : g[s] # f[z] + g[s \ {z}]}
<1>1. SUFFICES ASSUME T # {} PROVE FALSE
  OBVIOUS
<1>2. PICK s \in T : \A y \in T : y \subseteq s => y = s
  <2>1. T \subseteq SUBSET S
    OBVIOUS
  <2> HIDE DEF T
  <2> QED BY <1>1, <2>1, Minimal
<1>3. PICK z \in s : g[s] # f[z] + g[s \ {z}]
  OBVIOUS
<1> DEFINE x == Chosen(s)
<1>4. x \in s
  BY <1>3, ChosenIn
<1>5. g[s] = f[x] + g[s \ {x}]
  BY <1>3 DEF IsSum
<1>6. x # z
  BY <1>3, <1>5
<1> HIDE DEF x
<1>7. g[s \ {x}] = f[z] + g[(s \ {x}) \ {z}]
  <2>1. s \ {x} \in SUBSET S /\ s \ {x} \subseteq s /\ s \ {x} # s /\ z \in s \ {x}
    BY <1>4, <1>6
  <2> QED BY <1>2, <2>1
<1>8. g[s \ {z}] = f[x] + g[(s \ {z}) \ {x}]
  <2>1. s \ {z} \in SUBSET S /\ s \ {z} \subseteq s /\ s \ {z} # s /\ x \in s \ {z}
    BY <1>4, <1>6
  <2> QED BY <1>2, <2>1
<1>9. (s \ {x}) \ {z} = (s \ {z}) \ {x}
  OBVIOUS
<1>10. f[x] \in Int /\ f[z] \in Int
  BY <1>4
<1>11. g[(s \ {z}) \ {x}] \in Int
  <2>1. Int \in {Nat, Int}
    OBVIOUS
  <2> QED BY <2>1, SumType
<1> DEFINE rest == g[(s \ {z}) \ {x}]
           noX == g[s \ {x}]
           noZ == g[s \ {z}]
           all == g[s]
<1>12. noX = f[z] + rest /\ noZ = f[x] + rest /\ all = f[x] + noX /\ all # f[z] + noZ
  BY <1>3, <1>5, <1>7, <1>8, <1>9
<1> HIDE DEF rest, noX, noZ, all
<1>13. rest \in Int
  BY <1>11 DEF rest
<1> QED BY <1>10, <1>12, <1>13

\* The sum over a finite set has the sums of its subsets under it.
LEMMA SumOf ==
  ASSUME NEW S, IsFiniteSet(S), NEW f
  PROVE  \E g : IsSum(g, f, S) /\ Sum(f, S) = g[S]
<1> DEFINE g == CHOOSE k : IsSum(k, f, S)
<1>1. IsSum(g, f, S)
  BY SumExists
<1>2. Sum(f, S) = g[S]
  BY SumIs, Zenon
<1> QED BY <1>1, <1>2

\* A sum over nothing but zeros is zero; sums of naturals are naturals.
LEMMA SumZero ==
  ASSUME NEW S, IsFiniteSet(S), NEW f, \A x \in S : f[x] = 0
  PROVE  Sum(f, S) = 0
<1>1. PICK g : IsSum(g, f, S) /\ Sum(f, S) = g[S]
  BY SumOf
<1> DEFINE T == {s \in SUBSET S : g[s] # 0}
<1>2. SUFFICES ASSUME T # {} PROVE FALSE
  BY <1>1
<1>3. PICK s \in T : \A y \in T : y \subseteq s => y = s
  <2>1. T \subseteq SUBSET S
    OBVIOUS
  <2> HIDE DEF T
  <2> QED BY <1>2, <2>1, Minimal
<1>4. g[s] = IF s = {} THEN 0 ELSE f[Chosen(s)] + g[s \ {Chosen(s)}]
  BY <1>1 DEF IsSum
<1>5. s # {}
  BY <1>4
<1>6. Chosen(s) \in s
  BY <1>5, ChosenIn
<1>7. g[s \ {Chosen(s)}] = 0 /\ f[Chosen(s)] = 0
  BY <1>3, <1>6
<1> QED BY <1>4, <1>5, <1>7

LEMMA SumNat ==
  ASSUME NEW S, IsFiniteSet(S), NEW f, \A x \in S : f[x] \in Nat
  PROVE  Sum(f, S) \in Nat
<1>1. PICK g : IsSum(g, f, S) /\ Sum(f, S) = g[S]
  BY SumOf
<1>2. Nat \in {Nat, Int}
  OBVIOUS
<1>3. \A s \in SUBSET S : g[s] \in Nat
  BY <1>1, <1>2, SumType
<1> QED BY <1>1, <1>3

\* Where two functions agree but for one element of the set, their sums
\* differ by what they make of it.
LEMMA SumChanges ==
  ASSUME NEW S, IsFiniteSet(S), NEW z, NEW f, NEW h,
         \A x \in S : f[x] \in Int /\ h[x] \in Int,
         \A x \in S \ {z} : h[x] = f[x]
  PROVE  Sum(h, S) = Sum(f, S) + (IF z \in S THEN h[z] - f[z] ELSE 0)
<1>1. PICK g : IsSum(g, f, S) /\ Sum(f, S) = g[S]
  BY SumOf
<1>2. PICK k : IsSum(k, h, S) /\ Sum(h, S) = k[S]
  BY SumOf
<1>3. IsFiniteSet(S \ {z}) /\ S \ {z} \subseteq S
  BY FS_RemoveElement
<1>4. k[S \ {z}] = g[S \ {z}]
  <2> DEFINE R == S \ {z}
  <2>1. IsFiniteSet(R) /\ R \subseteq S /\ \A x \in R : f[x] = h[x]
    BY <1>3
  <2> HIDE DEF R
  <2>2. g[R] = k[R]
    BY <1>1, <1>2, <2>1, SumUnique
  <2> QED BY <2>2 DEF R
<1>5. g[S] \in Int /\ g[S \ {z}] \in Int
  <2>1. Int \in {Nat, Int}
    OBVIOUS
  <2>2. \A s \in SUBSET S : g[s] \in Int
    BY <1>1, <2>1, SumType
  <2> QED BY <1>3, <2>2
<1>6. CASE z \in S
  <2>0. (\A x \in S : f[x] \in Int) /\ (\A x \in S : h[x] \in Int)
    OBVIOUS
  <2>1. g[S] = f[z] + g[S \ {z}]
    BY <1>1, <1>6, <2>0, SumTakes
  <2>2. k[S] = h[z] + k[S \ {z}]
    BY <1>2, <1>6, <2>0, SumTakes
  <2> QED BY <1>1, <1>2, <1>4, <1>5, <1>6, <2>1, <2>2
<1>7. CASE z \notin S
  <2>1. S \ {z} = S
    BY <1>7
  <2> QED BY <1>1, <1>2, <1>4, <1>5, <1>7, <2>1
<1> QED BY <1>6, <1>7

----------------------------------------------------------------------------
(* The books balance.                                                       *)

\* What a reservation sets aside, and who pays for what.
Aside == [s \in Spends |-> IF reservation[s] \in Open THEN Cost[s] ELSE 0]
PaidBy(a) == {s \in Spends : a \in Charged(s)}

\* The totals are the sums, and a usage is recorded of what was finalized only.
Booked ==
  /\ LedgerBalances
  /\ usage \in [Spends -> Nat]
  /\ \A s \in Spends : reservation[s] # "finalized" => usage[s] = 0

LEMMA TotalIsSum == \A a, f : Total(a, f) = Sum(f, PaidBy(a))
BY Zenon DEF Total, Sum, PaidBy

LEMMA PaidByFinite == \A a : IsFiniteSet(PaidBy(a))
<1> SUFFICES ASSUME NEW a PROVE IsFiniteSet(PaidBy(a))
  OBVIOUS
<1>1. IsFiniteSet(Spends) /\ PaidBy(a) \in SUBSET Spends
  BY BudgetAssumption DEF PaidBy
<1> QED BY <1>1, FS_Subset

\* When one spend sets aside another amount than before, or has another usage,
\* the totals of those it is charged to differ by that.
LEMMA TotalMoves ==
  ASSUME NEW a \in Accounts, NEW s \in Spends, NEW f \in [Spends -> Nat], NEW h \in [Spends -> Nat],
         \A r \in Spends \ {s} : h[r] = f[r]
  PROVE  Total(a, h) = Total(a, f) + (IF a \in Charged(s) THEN h[s] - f[s] ELSE 0)
<1>1. IsFiniteSet(PaidBy(a)) /\ PaidBy(a) \subseteq Spends /\ (s \in PaidBy(a) <=> a \in Charged(s))
  BY PaidByFinite DEF PaidBy
<1>2. /\ \A r \in PaidBy(a) : f[r] \in Int /\ h[r] \in Int
      /\ \A r \in PaidBy(a) \ {s} : h[r] = f[r]
  BY <1>1
<1>3. Sum(h, PaidBy(a)) = Sum(f, PaidBy(a)) + (IF s \in PaidBy(a) THEN h[s] - f[s] ELSE 0)
  BY <1>1, <1>2, SumChanges
<1> QED BY <1>1, <1>3, TotalIsSum

\* A transaction that moves the totals of the charged accounts by what it
\* changes of one reservation and one usage keeps the balance.
LEMMA BalanceMoves ==
  ASSUME Typed, Booked, NEW s \in Spends,
         reservation' \in [Spends -> ReservationStates], usage' \in [Spends -> Nat],
         \A r \in Spends \ {s} : reservation'[r] = reservation[r] /\ usage'[r] = usage[r],
         reserved' = Moved(reserved, s, Aside'[s] - Aside[s]),
         observed' = Moved(observed, s, usage'[s] - usage[s])
  PROVE  LedgerBalances'
<1>1. Aside \in [Spends -> Nat] /\ Aside' \in [Spends -> Nat]
  BY Consts DEF Aside
<1>2. \A r \in Spends \ {s} : Aside'[r] = Aside[r]
  BY DEF Aside
<1> SUFFICES ASSUME NEW a \in Accounts
             PROVE  reserved'[a] = Total(a, Aside') /\ observed'[a] = Total(a, usage')
  BY DEF LedgerBalances, Aside
<1>3. reserved[a] = Total(a, Aside) /\ observed[a] = Total(a, usage)
  BY DEF Booked, LedgerBalances, Aside
<1>4. reserved[a] \in Int /\ observed[a] \in Int /\ Aside[s] \in Nat /\ Aside'[s] \in Nat
      /\ usage[s] \in Nat /\ usage'[s] \in Nat
  BY <1>1 DEF Typed, Booked
<1>5. Total(a, Aside') = Total(a, Aside) + (IF a \in Charged(s) THEN Aside'[s] - Aside[s] ELSE 0)
  BY <1>1, <1>2, TotalMoves
<1>6. Total(a, usage') = Total(a, usage) + (IF a \in Charged(s) THEN usage'[s] - usage[s] ELSE 0)
  BY TotalMoves DEF Booked
<1>7. /\ reserved'[a] = IF a \in Charged(s) THEN reserved[a] + (Aside'[s] - Aside[s]) ELSE reserved[a]
      /\ observed'[a] = IF a \in Charged(s) THEN observed[a] + (usage'[s] - usage[s]) ELSE observed[a]
  BY DEF Moved
<1> QED BY <1>3, <1>4, <1>5, <1>6, <1>7

LEMMA MovedByNothing ==
  ASSUME NEW ledger \in [Accounts -> Int], NEW s \in Spends
  PROVE  Moved(ledger, s, 0) = ledger
<1>1. \A a \in Accounts : Moved(ledger, s, 0)[a] = ledger[a]
  BY DEF Moved
<1>2. Moved(ledger, s, 0) = [a \in Accounts |-> Moved(ledger, s, 0)[a]]
  BY DEF Moved
<1> QED BY <1>1, <1>2, Zenon

\* A reservation is opened, closed or set aside for good, and the totals follow.
LEMMA BookedMoves ==
  ASSUME Typed, Booked, NEW s \in Spends, NEW state \in ReservationStates, NEW actual \in Nat,
         reservation' = [reservation EXCEPT ![s] = state],
         usage' = [usage EXCEPT ![s] = actual], state # "finalized" => actual = 0,
         NEW before \in Nat, before = IF reservation[s] \in Open THEN Cost[s] ELSE 0,
         NEW after \in Nat, after = IF state \in Open THEN Cost[s] ELSE 0,
         reserved' = Moved(reserved, s, after - before),
         observed' = Moved(observed, s, actual - usage[s])
  PROVE  Booked'
<1>1. /\ reservation' \in [Spends -> ReservationStates] /\ usage' \in [Spends -> Nat]
      /\ \A r \in Spends \ {s} : reservation'[r] = reservation[r] /\ usage'[r] = usage[r]
      /\ reservation'[s] = state /\ usage'[s] = actual
  BY DEF Typed, Booked
<1>2. Aside[s] = before /\ Aside'[s] = after
  BY <1>1 DEF Aside
<1>3. LedgerBalances'
  BY <1>1, <1>2, BalanceMoves
<1>4. \A r \in Spends : reservation'[r] # "finalized" => usage'[r] = 0
  BY <1>1 DEF Booked
<1> QED BY <1>1, <1>3, <1>4 DEF Booked

\* Each transaction of the budget keeps the balance.
LEMMA BookedKept ==
  ASSUME Typed, Booked, NEW s \in Spends,
         \/ \E a \in BOOLEAN : Reserve(s, a)
         \/ FinalizeUsage(s) \/ ResolveUncertain(s) \/ ResolveNotInvoked(s) \/ UNCHANGED budget
  PROVE  Booked'
<1>0. /\ Cost[s] \in Nat /\ reservation[s] \in ReservationStates
      /\ reserved \in [Accounts -> Int] /\ observed \in [Accounts -> Int]
      /\ reservation \in [Spends -> ReservationStates] /\ usage \in [Spends -> Nat]
      /\ usage[s] \in Nat /\ (reservation[s] # "finalized" => usage[s] = 0)
  BY Consts DEF Typed, Booked
<1>1. CASE UNCHANGED budget
  BY <1>1 DEF budget, Booked, LedgerBalances
<1>2. reservation[s] # "finalized" => usage = [usage EXCEPT ![s] = 0]
  BY <1>0
<1>3. observed = Moved(observed, s, 0) /\ reserved = Moved(reserved, s, 0)
  BY <1>0, MovedByNothing
<1>4. CASE \E a \in BOOLEAN : Reserve(s, a)
  <2>1. CASE /\ reservation[s] = "absent" /\ reservation' = [reservation EXCEPT ![s] = "reserved"]
             /\ reserved' = Moved(reserved, s, Cost[s]) /\ UNCHANGED <<observed, usage>>
    <3>1. usage[s] = 0 /\ usage' = [usage EXCEPT ![s] = 0]
      BY <1>0, <1>2, <2>1
    <3>2. /\ 0 = IF reservation[s] \in Open THEN Cost[s] ELSE 0
          /\ Cost[s] = IF "reserved" \in Open THEN Cost[s] ELSE 0
      BY <2>1 DEF Open
    <3>3. Cost[s] - 0 = Cost[s] /\ 0 - usage[s] = 0 /\ "reserved" \in ReservationStates
      BY <1>0, <3>1 DEF ReservationStates
    <3>4. reserved' = Moved(reserved, s, Cost[s] - 0) /\ observed' = Moved(observed, s, 0 - usage[s])
      BY <1>3, <2>1, <3>3
    <3>5. /\ reservation' = [reservation EXCEPT ![s] = "reserved"]
          /\ "reserved" # "finalized"
      BY <2>1
    <3>6. 0 \in Nat /\ Cost[s] \in Nat /\ usage' = [usage EXCEPT ![s] = 0]
      BY <1>0, <3>1
    <3> QED BY <3>2, <3>3, <3>4, <3>5, <3>6, BookedMoves
  <2>2. CASE /\ reservation[s] = "absent" /\ reservation' = [reservation EXCEPT ![s] = "rejected"]
             /\ UNCHANGED <<reserved, observed, usage>>
    <3>1. usage[s] = 0 /\ usage' = [usage EXCEPT ![s] = 0]
      BY <1>0, <1>2, <2>2
    <3>2. /\ 0 = IF reservation[s] \in Open THEN Cost[s] ELSE 0
          /\ 0 = IF "rejected" \in Open THEN Cost[s] ELSE 0
      BY <2>2 DEF Open
    <3>3. 0 - 0 = 0 /\ 0 - usage[s] = 0 /\ "rejected" \in ReservationStates
      BY <1>0, <3>1 DEF ReservationStates
    <3>4. reserved' = Moved(reserved, s, 0 - 0) /\ observed' = Moved(observed, s, 0 - usage[s])
      BY <1>3, <2>2, <3>3
    <3>5. /\ reservation' = [reservation EXCEPT ![s] = "rejected"]
          /\ "rejected" # "finalized"
      BY <2>2
    <3>6. 0 \in Nat /\ Cost[s] \in Nat /\ usage' = [usage EXCEPT ![s] = 0]
      BY <1>0, <3>1
    <3> QED BY <3>2, <3>3, <3>4, <3>5, <3>6, BookedMoves
  <2> QED BY <1>1, <1>4, <2>1, <2>2 DEF Reserve
<1>5. CASE FinalizeUsage(s)
  <2>1. PICK u \in Usages(s) :
             /\ reservation[s] = "reserved"
             /\ reservation' = [reservation EXCEPT ![s] = "finalized"]
             /\ reserved' = Moved(reserved, s, -Cost[s])
             /\ observed' = Moved(observed, s, u)
             /\ usage' = [usage EXCEPT ![s] = u]
    BY <1>5 DEF FinalizeUsage
  <2>2. u \in Nat
    BY <1>0 DEF Usages
  <2>3. /\ Cost[s] = IF reservation[s] \in Open THEN Cost[s] ELSE 0
        /\ 0 = IF "finalized" \in Open THEN Cost[s] ELSE 0
    BY <2>1 DEF Open
  <2>4. 0 - Cost[s] = -Cost[s] /\ u - usage[s] = u /\ "finalized" \in ReservationStates
    BY <1>0, <2>1, <2>2 DEF ReservationStates
  <2> QED BY <1>0, <2>1, <2>2, <2>3, <2>4, BookedMoves
<1>6. CASE ResolveUncertain(s)
  <2>1. CASE reservation[s] = "reserved"
    <3>1. usage[s] = 0 /\ usage' = [usage EXCEPT ![s] = 0]
      BY <1>0, <1>2, <1>6, <2>1 DEF ResolveUncertain
    <3>2. /\ Cost[s] = IF reservation[s] \in Open THEN Cost[s] ELSE 0
          /\ Cost[s] = IF "uncertain" \in Open THEN Cost[s] ELSE 0
      BY <2>1 DEF Open
    <3>3. Cost[s] - Cost[s] = 0 /\ 0 - usage[s] = 0 /\ "uncertain" \in ReservationStates
      BY <1>0, <3>1 DEF ReservationStates
    <3>4. /\ reservation' = [reservation EXCEPT ![s] = "uncertain"]
          /\ reserved' = reserved /\ observed' = observed
      BY <1>6, <2>1 DEF ResolveUncertain
    <3> QED BY <1>0, <1>3, <3>1, <3>2, <3>3, <3>4, BookedMoves
  <2>2. CASE reservation[s] # "reserved"
    <3>1. reservation' = reservation
      BY <1>0, <1>6, <2>2 DEF ResolveUncertain
    <3> QED BY <1>1, <1>6, <3>1 DEF ResolveUncertain, budget
  <2> QED BY <2>1, <2>2
<1>7. CASE ResolveNotInvoked(s)
  <2>1. CASE /\ reservation[s] = "reserved" /\ reservation' = [reservation EXCEPT ![s] = "released"]
             /\ reserved' = Moved(reserved, s, -Cost[s]) /\ UNCHANGED <<observed, usage>>
    <3>1. usage[s] = 0 /\ usage' = [usage EXCEPT ![s] = 0]
      BY <1>0, <1>2, <2>1
    <3>2. /\ Cost[s] = IF reservation[s] \in Open THEN Cost[s] ELSE 0
          /\ 0 = IF "released" \in Open THEN Cost[s] ELSE 0
      BY <2>1 DEF Open
    <3>3. 0 - Cost[s] = -Cost[s] /\ 0 - usage[s] = 0 /\ "released" \in ReservationStates
      BY <1>0, <3>1 DEF ReservationStates
    <3>4. reserved' = Moved(reserved, s, 0 - Cost[s]) /\ observed' = Moved(observed, s, 0 - usage[s])
      BY <1>3, <2>1, <3>3
    <3>5. /\ reservation' = [reservation EXCEPT ![s] = "released"]
          /\ "released" # "finalized"
      BY <2>1
    <3>6. 0 \in Nat /\ Cost[s] \in Nat /\ usage' = [usage EXCEPT ![s] = 0]
      BY <1>0, <3>1
    <3> QED BY <3>2, <3>3, <3>4, <3>5, <3>6, BookedMoves
  <2> QED BY <1>1, <1>7, <2>1 DEF ResolveNotInvoked
<1> QED BY <1>1, <1>4, <1>5, <1>6, <1>7

\* At the start the sums are sums of zeros.
LEMMA BookedStart == Init => Booked
<1> SUFFICES ASSUME Init PROVE Booked
  OBVIOUS
<1> USE DEF Init, BudgetInit
<1>1. /\ \A s \in Spends : Aside[s] = 0
      /\ \A s \in Spends : usage[s] = 0
      /\ usage \in [Spends -> Nat]
  BY DEF Aside, Open
<1>2. ASSUME NEW a \in Accounts PROVE Total(a, Aside) = 0 /\ Total(a, usage) = 0
  <2>1. IsFiniteSet(PaidBy(a)) /\ PaidBy(a) \subseteq Spends
    BY PaidByFinite DEF PaidBy
  <2> QED BY <1>1, <2>1, SumZero, TotalIsSum
<1>3. reserved = [a \in Accounts |-> 0] /\ observed = [a \in Accounts |-> 0]
  OBVIOUS
<1>4. LedgerBalances
  BY <1>2, <1>3 DEF LedgerBalances, Aside
<1> QED BY <1>1, <1>4 DEF Booked

LEMMA BookedAlways == Spec => []Booked
<1>1. Typed /\ Inv /\ Booked /\ [Next]_vars => Booked'
  <2> SUFFICES ASSUME Typed, Inv, Booked, [Next]_vars PROVE Booked'
    OBVIOUS
  <2>1. CASE UNCHANGED budget
    BY <2>1 DEF Booked, LedgerBalances, budget
  <2>2. ASSUME NEW s \in Spends,
               \/ \E a \in BOOLEAN : Reserve(s, a)
               \/ FinalizeUsage(s) \/ ResolveUncertain(s) \/ ResolveNotInvoked(s)
        PROVE  Booked'
    BY <2>2, BookedKept
  <2> QED BY <2>1, <2>2, OneTransaction
<1> QED BY <1>1, BookedStart, InvHolds, PTL DEF Spec

\* The running totals of every account are the sums of the open reservations
\* and of the usage records behind them, for any spends, prices and accounts.
THEOREM LedgerBalancesHolds == Spec => []LedgerBalances
<1>1. Booked => LedgerBalances
  BY DEF Booked
<1> QED BY <1>1, BookedAlways, PTL

\* The requests that nobody waits for any more are of wakes that were served.
LEMMA LateAlways == Spec => [](late \in SUBSET Wake)
<1>1. Init => late \in SUBSET Wake
  BY DEF Init
<1>2. Typed /\ late \in SUBSET Wake /\ [Next]_vars => (late \in SUBSET Wake)'
  <2> SUFFICES ASSUME Typed, late \in SUBSET Wake, [Next]_vars PROVE late' \in SUBSET Wake
    OBVIOUS
  <2>1. CASE OperatorStep \/ MeteredCall \/ UNCHANGED vars
    BY <2>1 DEF OperatorStep, Propose, Seal, Approve, Reject, Rerender, MandateExpires, MeteredCall, vars
  <2>2. CASE \E c \in Wake : Dispatch(c) \/ Expire(c) \/ DropWake(c)
    BY <2>2 DEF Dispatch, Expire, DropWake
  <2>3. CASE \E c \in PaidWake : LateReserve(c)
    BY <2>3 DEF LateReserve
  <2>4. ASSUME NEW w \in Workers, Crash(w) \/ WorkerStep(w) PROVE late' \in SUBSET Wake
    <3>1. worker[w].on \in Wake
      BY OnType
    <3>2. CASE Crash(w) \/ ReserveTimesOut(w)
      BY <3>1, <3>2 DEF Crash, ReserveTimesOut
    <3>3. CASE (\E c \in Wake : AckWake(w, c) \/ Quarantined(w, c) \/ ClaimOperation(w, c))
               \/ MakeInternal(w) \/ FailInternal(w)
      BY <3>3 DEF AckWake, Quarantined, ClaimOperation, MakeInternal, FailInternal
    <3>4. CASE PaidStep(w) /\ ~ReserveTimesOut(w)
      BY <3>4 DEF PaidStep, AuthorizeBudget, ReserveBudget, ReserveFails, StartSubmission, StartFails,
                  Refuse, Release, CallProvider, PersistProvider, PollProvider, StoreArtifact,
                  ReportUsage, Quarantine, Settle, world
    <3> QED BY <2>4, <3>2, <3>3, <3>4 DEF WorkerStep
  <2> QED BY <2>1, <2>2, <2>3, <2>4 DEF Next
<1> QED BY <1>1, <1>2, InvHolds, PTL DEF Spec

\* No total is ever negative: with the balance the types are complete.
THEOREM TypingHolds == Spec => []TypeOK
<1>1. Typed /\ Booked /\ late \in SUBSET Wake => TypeOK
  <2> SUFFICES ASSUME Typed, Booked, late \in SUBSET Wake PROVE TypeOK
    OBVIOUS
  <2>1. ASSUME NEW a \in Accounts PROVE reserved[a] \in Nat /\ observed[a] \in Nat
    <3>1. IsFiniteSet(PaidBy(a)) /\ PaidBy(a) \subseteq Spends
      BY PaidByFinite DEF PaidBy
    <3>2. \A s \in PaidBy(a) : Aside[s] \in Nat /\ usage[s] \in Nat
      BY <3>1, Consts DEF Aside, Booked
    <3>3. Total(a, Aside) \in Nat /\ Total(a, usage) \in Nat
      BY <3>1, <3>2, SumNat, TotalIsSum
    <3> QED BY <3>3 DEF Booked, LedgerBalances, Aside
  <2>2. reserved \in [Accounts -> Nat] /\ observed \in [Accounts -> Nat]
    BY <2>1 DEF Typed
  <2> QED BY <2>2 DEF Typed, Booked, TypeOK, BudgetTypeOK
<1> QED BY <1>1, InvHolds, BookedAlways, LateAlways, PTL

----------------------------------------------------------------------------
(* What a step may never do.                                                *)

\* The record of an operation that is over is not opened by a worker's result.
LEMMA RecordsOver ==
  ASSUME Typed, Inv, NEW w \in Workers, NEW c \in Wake, claim[c].state \in Final,
         \/ Complete(w) \/ RecordProvider(w)
         \/ \E s \in {"failed", "uncertain"} : RecordFailure(w, s)
  PROVE  claim'[c] = claim[c] /\ (outbox'[c] = "open" => outbox[c] = "open")
<1> DEFINE k == worker[w].on
<1>1. k \in Wake /\ outbox \in [Wake -> OutboxStates] /\ outbox[c] # "absent" /\ claim[k].state \notin Final
      /\ claim \in [Wake -> Claim]
  <2>1. OutboxSound(c)
    BY DEF Inv, Books
  <2> QED BY <2>1, OnType DEF OutboxSound, Final, Complete, CanComplete, RecordFailure, CanFail,
             RecordProvider, CanPersist, Typed
<1>2. CASE RecordProvider(w)
  BY <1>1, <1>2, RecordFacts DEF Rewrites
<1>3. CASE \E s \in {"failed", "uncertain"} : RecordFailure(w, s)
  BY <1>1, <1>3 DEF RecordFailure, Settled
<1>4. CASE Complete(w)
  <2>1. claim'[c] = claim[c]
    BY <1>1, <1>4 DEF Complete, Settled
  <2>2. Current(k) /\ c.op \in Readied(k.op) /\ c = Id(plan, c.op) => outbox[c] = "absent"
    BY <1>4 DEF Complete, CanComplete
  <2>3. outbox'[c] = outbox[c]
    BY <2>2, <1>1, <1>4 DEF Complete
  <2> QED BY <2>1, <2>3
<1> QED BY <1>2, <1>3, <1>4

\* What is over stays as it ended, under whatever comes late (assertClaimOwner
\* and the state checks of every record the plan store writes).
THEOREM OverIsOverHolds == Spec => OverIsOver
<1>1. Typed /\ Inv /\ [Next]_vars =>
        [\A c \in Wake :
           claim[c].state \in Final =>
             /\ claim'[c] = claim[c]
             /\ outbox'[c] = "open" => outbox[c] = "open"]_vars
  <2> SUFFICES ASSUME Typed, Inv, Next, NEW c \in Wake, claim[c].state \in Final
               PROVE  claim'[c] = claim[c] /\ (outbox'[c] = "open" => outbox[c] = "open")
    OBVIOUS
  <2>0. /\ ClaimSound(c) /\ OutboxSound(c) /\ claim[c].state # "absent" /\ outbox[c] # "absent"
        /\ outbox \in [Wake -> OutboxStates] /\ claim \in [Wake -> Claim] /\ c.op \in Ops
        /\ Reached(c)
    BY PlanType DEF Inv, Books, OutboxSound, Final, Typed
  <2>1. CASE OperatorStep
    <3>1. claim' = claim
      BY <2>1 DEF OperatorStep, Propose, Seal, Approve, Reject, Rerender, MandateExpires
    <3>2. CASE Propose \/ Seal \/ Reject \/ MandateExpires
      BY <3>2, <2>0 DEF Propose, Seal, Reject, MandateExpires
    <3>3. CASE Approve
      <4>1. c # Id(plan, c.op)
        BY <3>3, <2>0, PlanType DEF Approve, Reached, Id
      <4> QED BY <4>1, <3>3, <2>0 DEF Approve
    <3>4. CASE Rerender
      <4>1. ~Paid(c.op) => c # Id(plan', c.op)
        BY <3>4, <2>0, PlanType DEF Rerender, Reached, Id
      <4> QED BY <4>1, <3>4, <2>0 DEF Rerender, RenderRoots, Internal
    <3> QED BY <2>1, <3>1, <3>2, <3>3, <3>4 DEF OperatorStep
  <2>2. CASE MeteredCall
    BY <2>2 DEF MeteredCall
  <2>3. ASSUME NEW d \in Wake, Dispatch(d) \/ Expire(d) \/ DropWake(d)
        PROVE  claim'[c] = claim[c] /\ outbox' = outbox
    BY <2>3, <2>0 DEF Dispatch, Expire, DropWake, ClaimSound
  <2>4. ASSUME NEW w \in Workers, Crash(w) PROVE UNCHANGED <<claim, outbox>>
    BY <2>4 DEF Crash
  <2>5. ASSUME NEW w \in Workers, WorkerStep(w)
        PROVE  claim'[c] = claim[c] /\ (outbox'[c] = "open" => outbox[c] = "open")
    <3>1. ASSUME NEW d \in Wake, AckWake(w, d) \/ Quarantined(w, d) \/ ClaimOperation(w, d)
          PROVE  claim'[c] = claim[c] /\ (outbox'[c] = "open" => outbox[c] = "open")
      BY <3>1, <2>0 DEF AckWake, Quarantined, Settled, ClaimOperation, Final
    <3>2. CASE UNCHANGED records
      BY <3>2 DEF records
    <3>3. CASE Complete(w) \/ RecordProvider(w) \/ \E s \in {"failed", "uncertain"} : RecordFailure(w, s)
      BY <3>3, RecordsOver
    <3>4. CASE StartSubmission(w)
      BY <3>4, <2>0 DEF StartSubmission, Submittable, Final
    <3>5. CASE MakeInternal(w) \/ FailInternal(w)
      BY <3>2, <3>3, <3>5 DEF MakeInternal, FailInternal
    <3>6. CASE PaidStep(w)
      <4>1. CASE Quarantine(w)
        <5>1. (IF worker[w].id THEN "failed" ELSE "uncertain") \in {"failed", "uncertain"}
          OBVIOUS
        <5> QED BY <5>1, <4>1, <3>2, <3>3 DEF Quarantine
      <4>2. CASE \/ AuthorizeBudget(w) \/ ReserveBudget(w) \/ ReserveFails(w) \/ ReserveTimesOut(w)
                 \/ StartFails(w) \/ Release(w) \/ CallProvider(w) \/ ReportUsage(w) \/ Settle(w)
        BY <4>2, <3>2 DEF AuthorizeBudget, ReserveBudget, ReserveFails, ReserveTimesOut, StartFails,
                          Release, CallProvider, ReportUsage, Settle
      <4>3. CASE Refuse(w) \/ PersistProvider(w) \/ PollProvider(w) \/ StoreArtifact(w)
        BY <4>3, <3>2, <3>3 DEF Refuse, PersistProvider, PollProvider, StoreArtifact, records
      <4> QED BY <3>6, <3>4, <4>1, <4>2, <4>3 DEF PaidStep
    <3> QED BY <2>5, <3>1, <3>5, <3>6 DEF WorkerStep
  <2>6. CASE \E d \in PaidWake : LateReserve(d)
    BY <2>6 DEF LateReserve
  <2> QED BY <2>1, <2>2, <2>3, <2>4, <2>5, <2>6 DEF Next
<1> QED BY <1>1, InvHolds, PTL DEF Spec, OverIsOver

\* A step of worker v leaves the places of the others alone.
LEMMA OneWorkerMoves ==
  ASSUME Typed, NEW v \in Workers, WorkerStep(v) \/ Crash(v), NEW w \in Workers, w # v
  PROVE  worker'[w] = worker[w]
<1>1. ASSUME NEW pc \in WorkerSteps, Goes(v, pc) PROVE worker'[w] = worker[w]
  BY <1>1 DEF Goes, Typed
<1>2. ASSUME NEW s \in BOOLEAN, Refuses(v, s) PROVE worker'[w] = worker[w]
  BY <1>2 DEF Refuses, Typed
<1>3. ASSUME NEW a \in BOOLEAN, Released(v, a) PROVE worker'[w] = worker[w]
  BY <1>3 DEF Released, Typed
<1>4. ASSUME NEW c \in Wake, AckWake(v, c) \/ Quarantined(v, c) \/ ClaimOperation(v, c)
      PROVE  worker'[w] = worker[w]
  BY <1>4 DEF AckWake, Quarantined, ClaimOperation, Typed
<1>5. CASE MakeInternal(v) \/ FailInternal(v) \/ Crash(v)
  BY <1>3, <1>5 DEF MakeInternal, FailInternal, Crash
<1>6. CASE PaidStep(v)
  <2>1. {"admit", "poll", "start", "call", "release", "persist", "quarantine", "store", "usage",
          "settle"} \subseteq WorkerSteps
    BY DEF WorkerSteps
  <2>2. CASE \/ AuthorizeBudget(v) \/ ReserveBudget(v) \/ ReserveFails(v) \/ ReserveTimesOut(v)
             \/ StartSubmission(v) \/ StartFails(v)
    BY <1>1, <1>2, <2>1, <2>2 DEF AuthorizeBudget, ReserveBudget, ReserveFails, ReserveTimesOut,
       StartSubmission, StartFails
  <2>3. CASE Refuse(v) \/ Release(v) \/ ReportUsage(v) \/ Settle(v) \/ Quarantine(v)
    BY <1>1, <1>3, <2>1, <2>3 DEF Refuse, Release, ReportUsage, Settle, Quarantine
  <2>4. CASE CallProvider(v) \/ PollProvider(v) \/ StoreArtifact(v)
    BY <1>1, <1>3, <2>1, <2>4 DEF CallProvider, PollProvider, StoreArtifact
  <2>5. CASE PersistProvider(v)
    BY <1>1, <2>1, <2>5 DEF PersistProvider, Typed
  <2> QED BY <1>6, <2>2, <2>3, <2>4, <2>5 DEF PaidStep
<1> QED BY <1>4, <1>5, <1>6 DEF WorkerStep

\* A worker that lost its claim changes neither the claim nor its outbox record,
\* however late it acts (assertClaimOwner).
THEOREM StaleClaimantHolds == Spec => StaleClaimantChangesNothing
<1>1. Typed /\ Inv /\ [Next]_vars =>
        [\A w \in Workers :
           ~At(w, "idle") /\ ~Owner(w) /\ worker'[w] # worker[w] => UNCHANGED records]_vars
  <2> SUFFICES ASSUME Typed, Inv, Next, NEW w \in Workers,
                      ~At(w, "idle"), ~Owner(w), worker'[w] # worker[w]
               PROVE  UNCHANGED records
    OBVIOUS
  <2>1. CASE OperatorStep
    BY <2>1 DEF OperatorStep, Propose, Seal, Approve, Reject, Rerender, MandateExpires
  <2>2. CASE MeteredCall
    BY <2>2 DEF MeteredCall
  <2>3. CASE \E d \in Wake : Dispatch(d) \/ Expire(d) \/ DropWake(d)
    BY <2>3 DEF Dispatch, Expire, DropWake
  <2>4. ASSUME NEW v \in Workers, WorkerStep(v) \/ Crash(v) PROVE v = w
    BY <2>4, OneWorkerMoves
  <2>5. CASE Crash(w)
    BY <2>5 DEF Crash, records
  <2>6. CASE WorkerStep(w)
    <3>1. ~Complete(w) /\ ~RecordProvider(w) /\ (\A s : ~RecordFailure(w, s)) /\ ~StartSubmission(w)
      BY DEF Complete, CanComplete, RecordProvider, CanPersist, RecordFailure, CanFail, StartSubmission,
             Submittable
    <3>2. \A c \in Wake : ~AckWake(w, c) /\ ~Quarantined(w, c) /\ ~ClaimOperation(w, c)
      BY DEF At, AckWake, Quarantined, ClaimOperation
    <3>3. CASE MakeInternal(w) \/ FailInternal(w)
      BY <3>1, <3>3 DEF MakeInternal, FailInternal
    <3>4. CASE PaidStep(w)
      <4>1. CASE \/ AuthorizeBudget(w) \/ ReserveBudget(w) \/ ReserveFails(w) \/ ReserveTimesOut(w)
                 \/ StartFails(w) \/ Release(w) \/ CallProvider(w) \/ ReportUsage(w) \/ Settle(w)
        BY <4>1 DEF AuthorizeBudget, ReserveBudget, ReserveFails, ReserveTimesOut, StartFails, Release,
                    CallProvider, ReportUsage, Settle
      <4>2. CASE \/ Refuse(w) \/ PersistProvider(w) \/ PollProvider(w) \/ StoreArtifact(w)
                 \/ Quarantine(w)
        BY <4>2, <3>1 DEF Refuse, PersistProvider, PollProvider, StoreArtifact, Quarantine, records
      <4> QED BY <3>1, <3>4, <4>1, <4>2 DEF PaidStep
    <3> QED BY <2>6, <3>2, <3>3, <3>4 DEF WorkerStep
  <2>7. CASE \E c \in PaidWake : LateReserve(c)
    BY <2>7 DEF LateReserve
  <2> QED BY <2>1, <2>2, <2>3, <2>4, <2>5, <2>6, <2>7 DEF Next
<1> QED BY <1>1, InvHolds, PTL DEF Spec, StaleClaimantChangesNothing

----------------------------------------------------------------------------
(* The contract of an operation that is paid for.                           *)

\* The steps of a worker behind the call to the provider.
Behind == {"persist", "poll", "store", "quarantine"}

\* A worker that is, or is about to be, on the result of a call: it is behind
\* the call, or asks for the money of an operation with a provider identity.
Resumes(u) == u.pc \in Behind \/ (u.pc \in {"reserve", "admit"} /\ u.resumed)

\* A provider's identity, and a worker on the result of a call, are of a call
\* made.
CallsMade ==
  /\ \A c \in PaidWake : claim[c].id => paid[c] = 1
  /\ \A w \in Workers : Resumes(worker[w]) => paid[worker[w].on] = 1

\* Who is on the result of a call is on an operation that is paid for.
LEMMA ResumesPaid ==
  ASSUME Inv, NEW w \in Workers, Resumes(worker[w])
  PROVE  worker[w].on \in PaidWake
BY DEF Inv, Crew, WorkerSound, At, Behind, Resumes

\* The records a worker closes, or begins to submit, keep their identities.
LEMMA IdsKept ==
  ASSUME Typed, NEW w \in Workers,
         \/ Complete(w) \/ StartSubmission(w) \/ UNCHANGED claim
         \/ \E s \in {"failed", "uncertain"} : RecordFailure(w, s)
  PROVE  \A c \in Wake : claim'[c].id = claim[c].id
<1>1. worker[w].on \in Wake
  BY OnType
<1>2. CASE Complete(w)
  BY <1>1, <1>2, SettledFacts DEF Complete, Final, Rewrites
<1>3. CASE \E s \in {"failed", "uncertain"} : RecordFailure(w, s)
  BY <1>1, <1>3, SettledFacts DEF RecordFailure, Final, Rewrites
<1>4. CASE StartSubmission(w)
  BY <1>1, <1>4, StartFacts DEF Rewrites
<1> QED BY <1>2, <1>3, <1>4

\* A step of worker w that brings no identity and nobody on the result of a call
\* that was not made.
LEMMA CallsStay ==
  ASSUME Typed, Inv, CallsMade, NEW w \in Workers,
         \A c \in PaidWake : paid[c] = 1 => paid'[c] = 1,
         \A c \in PaidWake : claim'[c].id => claim[c].id \/ paid'[c] = 1,
         \A v \in Workers : v # w => worker'[v] = worker[v],
         Resumes(worker'[w]) => paid'[worker'[w].on] = 1
  PROVE  CallsMade'
<1>1. \A c \in PaidWake : claim'[c].id => paid'[c] = 1
  BY DEF CallsMade
<1>2. ASSUME NEW v \in Workers, Resumes(worker'[v]) PROVE paid'[worker'[v].on] = 1
  <2>1. CASE v = w
    BY <1>2, <2>1
  <2>2. CASE v # w
    BY <1>2, <2>2, ResumesPaid DEF CallsMade
  <2> QED BY <2>1, <2>2
<1> QED BY <1>1, <1>2 DEF CallsMade

\* The step from one web request to the next, and the last of a delivery.
LEMMA CallsMove ==
  ASSUME Typed, Inv, CallsMade, NEW w \in Workers, UNCHANGED paid,
         \A c \in PaidWake : claim'[c].id => claim[c].id \/ paid[c] = 1,
         \/ Frees(w)
         \/ \E pc \in WorkerSteps \ {"reserve", "admit"} :
              Moves(w, pc) /\ (pc \in Behind => paid[worker[w].on] = 1)
  PROVE  CallsMade'
<1>1. Resumes(worker'[w]) => paid'[worker'[w].on] = 1
  BY DEF Frees, Moves, Behind, Resumes
<1>2. \A v \in Workers : v # w => worker'[v] = worker[v]
  BY DEF Frees, Moves
<1> QED BY <1>1, <1>2, CallsStay

LEMMA CallsStep == Typed /\ Inv /\ CallsMade /\ [Next]_vars => CallsMade'
<1> SUFFICES ASSUME Typed, Inv, CallsMade, [Next]_vars PROVE CallsMade'
  OBVIOUS
<1>0. \A c \in PaidWake : c \in Wake
  BY DEF PaidWake
<1>1. CASE UNCHANGED <<claim, paid, worker>>
  BY <1>1 DEF CallsMade
<1>2. CASE OperatorStep \/ MeteredCall
  BY <1>1, <1>2 DEF OperatorStep, Propose, Seal, Approve, Reject, Rerender, MandateExpires, MeteredCall
<1>3. ASSUME NEW c \in Wake, Dispatch(c) \/ Expire(c) \/ DropWake(c) PROVE CallsMade'
  <2>1. CASE Dispatch(c) \/ DropWake(c)
    BY <1>1, <2>1 DEF Dispatch, DropWake
  <2>2. CASE Expire(c)
    BY <1>0, <2>2, ExpireFacts DEF Expire, Rewrites, CallsMade
  <2> QED BY <1>3, <2>1, <2>2
<1>4. ASSUME NEW w \in Workers, NEW c \in Wake, AckWake(w, c) \/ Quarantined(w, c) \/ ClaimOperation(w, c)
      PROVE  CallsMade'
  <2>1. CASE AckWake(w, c)
    BY <1>1, <2>1 DEF AckWake
  <2>2. CASE Quarantined(w, c)
    BY <1>0, <2>2, SettledFacts DEF Quarantined, Final, Rewrites, CallsMade
  <2>3. CASE ClaimOperation(w, c)
    <3>1. paid' = paid
      BY <2>3 DEF ClaimOperation
    <3>2. /\ worker'[w].pc = (IF Paid(c.op) THEN "reserve" ELSE "make")
          /\ worker'[w].on = c /\ worker'[w].resumed = claim[c].id
          /\ \A v \in Workers : v # w => worker'[v] = worker[v]
      BY <2>3, ClaimFacts
    <3>3. \A d \in Wake : claim'[d].id = claim[d].id
      BY <2>3, ClaimFacts
    <3>4. Paid(c.op) => c \in PaidWake
      BY <1>4, <2>3 DEF ClaimOperation, Claimable, Current, Id, PaidWake
    <3>5. Resumes(worker'[w]) => paid'[worker'[w].on] = 1
      BY <3>1, <3>2, <3>4 DEF Resumes, Behind, CallsMade
    <3> QED BY <1>0, <3>1, <3>2, <3>3, <3>5, CallsStay
  <2> QED BY <1>4, <2>1, <2>2, <2>3
<1>5. ASSUME NEW w \in Workers, Crash(w) \/ MakeInternal(w) \/ FailInternal(w) PROVE CallsMade'
  <2>1. Frees(w) /\ paid' = paid
    BY <1>5, ReleasedFacts DEF Crash, MakeInternal, FailInternal
  <2>2. \A d \in Wake : claim'[d].id = claim[d].id
    BY <1>5, IdsKept DEF Crash, MakeInternal, FailInternal, records
  <2> QED BY <1>0, <2>1, <2>2, CallsMove
<1>6. ASSUME NEW w \in Workers, PaidStep(w) PROVE CallsMade'
  <2> DEFINE c == worker[w].on
  <2>0. /\ {"poll", "start", "refuse", "call", "release", "persist", "quarantine", "store", "usage",
            "settle"} \subseteq WorkerSteps \ {"reserve", "admit"}
        /\ {"start", "refuse", "call", "release", "usage", "settle"} \cap Behind = {}
    BY DEF WorkerSteps, Behind
  <2>1. c \in PaidWake /\ WorkerSound(w)
    BY <1>6 DEF PaidStep, AuthorizeBudget, ReserveBudget, ReserveFails, ReserveTimesOut,
       StartSubmission, StartFails, Refuse, Release, CallProvider, PersistProvider, PollProvider,
       StoreArtifact, ReportUsage, Quarantine, Settle, At, Inv, Crew, WorkerSound
  <2> HIDE DEF c
  <2>2. CASE ReserveBudget(w)
    <3>1. UNCHANGED <<claim, paid>>
      BY <2>2 DEF ReserveBudget, records
    <3>2. \/ Goes(w, "poll") /\ worker[w].resumed
          \/ Goes(w, "start") \/ \E s \in BOOLEAN : Refuses(w, s)
      BY <2>2 DEF ReserveBudget
    <3>3. worker[w].resumed => paid[c] = 1
      BY <2>2 DEF ReserveBudget, At, Resumes, CallsMade, c
    <3>4. \E pc \in WorkerSteps \ {"reserve", "admit"} : Moves(w, pc) /\ (pc \in Behind => paid[c] = 1)
      BY <2>0, <3>2, <3>3, GoesFacts, RefusesFacts
    <3> QED BY <3>1, <3>4, CallsMove DEF c
  <2>3. CASE ReserveFails(w) \/ ReserveTimesOut(w) \/ StartFails(w)
    <3>1. UNCHANGED <<claim, paid>> /\ \E s \in BOOLEAN : Refuses(w, s)
      BY <2>3 DEF ReserveFails, ReserveTimesOut, StartFails, records
    <3>2. Moves(w, "refuse")
      BY <3>1, RefusesFacts
    <3> QED BY <2>0, <3>1, <3>2, CallsMove
  <2>4. CASE StartSubmission(w)
    <3>1. paid' = paid /\ (Goes(w, "call") \/ Refuses(w, TRUE))
      BY <2>4 DEF StartSubmission
    <3>2. Moves(w, "call") \/ Moves(w, "refuse")
      BY <2>0, <3>1, GoesFacts, RefusesFacts
    <3>3. \A d \in Wake : claim'[d].id = claim[d].id
      BY <2>4, IdsKept
    <3> QED BY <1>0, <2>0, <3>1, <3>2, <3>3, CallsMove
  <2>5. CASE Refuse(w)
    <3>1. paid' = paid /\ (Goes(w, "release") \/ \E a \in BOOLEAN : Released(w, a))
      BY <2>5 DEF Refuse
    <3>2. Moves(w, "release") \/ Frees(w)
      BY <2>0, <3>1, GoesFacts, ReleasedFacts
    <3>3. \A d \in Wake : claim'[d].id = claim[d].id
      BY <2>5, IdsKept DEF Refuse, records
    <3> QED BY <1>0, <2>0, <3>1, <3>2, <3>3, CallsMove
  <2>6. CASE Release(w) \/ ReportUsage(w) \/ Settle(w)
    <3>1. UNCHANGED <<claim, paid>> /\ \E a \in BOOLEAN : Released(w, a)
      BY <2>6 DEF Release, ReportUsage, Settle, records
    <3>2. Frees(w)
      BY <3>1, ReleasedFacts
    <3> QED BY <3>1, <3>2, CallsMove
  <2>7. CASE CallProvider(w)
    <3>1. /\ claim' = claim /\ paid' = [paid EXCEPT ![c] = paid[c] + 1] /\ paid[c] = 0
          /\ paid \in [Wake -> Nat] /\ c \in Wake
      BY <1>0, <2>1, <2>7 DEF CallProvider, records, WorkerSound, Typed, c
    <3>2. Moves(w, "persist") \/ Moves(w, "quarantine")
      BY <2>0, <2>7, GoesFacts DEF CallProvider
    <3>3. paid'[c] = 1 /\ \A d \in PaidWake : paid[d] = 1 => paid'[d] = 1
      BY <1>0, <3>1
    <3>4. worker'[w].on = c /\ \A v \in Workers : v # w => worker'[v] = worker[v]
      BY <3>2 DEF Moves, c
    <3> QED BY <3>1, <3>3, <3>4, CallsStay
  <2>8. CASE PersistProvider(w) \/ PollProvider(w)
    <3>1. paid' = paid /\ paid[c] = 1
      BY <2>8 DEF PersistProvider, PollProvider, At, Behind, Resumes, CallsMade, c
    <3>2. ASSUME NEW d \in PaidWake, claim'[d].id PROVE claim[d].id \/ paid[d] = 1
      <4>1. CASE UNCHANGED claim
        BY <3>2, <4>1
      <4>2. CASE RecordProvider(w)
        BY <1>0, <3>1, <3>2, <4>2, RecordFacts DEF Rewrites, c
      <4> QED BY <2>8, <4>1, <4>2 DEF PersistProvider, PollProvider, records
    <3>3. Frees(w) \/ \E pc \in WorkerSteps \ {"reserve", "admit"} : Moves(w, pc)
      <4>1. CASE \E pc \in {"store", "quarantine"} : Goes(w, pc)
        BY <2>0, <4>1, GoesFacts
      <4>2. CASE \E a \in BOOLEAN : Released(w, a)
        BY <4>2, ReleasedFacts
      <4>3. ASSUME NEW pc \in {"poll", "store"}, worker' = [worker EXCEPT ![w].id = TRUE, ![w].pc = pc]
            PROVE  Moves(w, pc)
        <5>1. worker[w] \in Worker /\ worker \in [Workers -> Worker]
          BY DEF Typed
        <5>2. worker' = [worker EXCEPT ![w] = [worker[w] EXCEPT !.id = TRUE, !.pc = pc]]
          BY <4>3, <5>1
        <5>3. [worker[w] EXCEPT !.id = TRUE, !.pc = pc] \in Worker
          BY <2>0, <5>1 DEF Worker
        <5> QED BY <5>1, <5>2, <5>3 DEF Moves, Worker
      <4>4. PersistProvider(w) =>
              \/ \E pc \in {"poll", "store"} : worker' = [worker EXCEPT ![w].id = TRUE, ![w].pc = pc]
              \/ Goes(w, "quarantine")
        BY DEF PersistProvider
      <4> QED BY <2>0, <2>8, <4>1, <4>2, <4>3, <4>4 DEF PollProvider
    <3> QED BY <3>1, <3>2, <3>3, CallsMove DEF c
  <2>9. CASE StoreArtifact(w)
    <3>1. paid' = paid /\ paid[c] = 1 /\ (Goes(w, "usage") \/ Goes(w, "quarantine"))
      BY <2>9 DEF StoreArtifact, At, Behind, Resumes, CallsMade, c
    <3>2. \A d \in Wake : claim'[d].id = claim[d].id
      BY <2>9, IdsKept DEF StoreArtifact, records
    <3>3. Moves(w, "usage") \/ Moves(w, "quarantine")
      BY <2>0, <3>1, GoesFacts
    <3> QED BY <1>0, <2>0, <3>1, <3>2, <3>3, CallsMove DEF c
  <2>10. CASE Quarantine(w)
    <3>1. paid' = paid /\ Goes(w, "settle")
      BY <2>10 DEF Quarantine
    <3>2. \A d \in Wake : claim'[d].id = claim[d].id
      <4>1. (IF worker[w].id THEN "failed" ELSE "uncertain") \in {"failed", "uncertain"}
        OBVIOUS
      <4> QED BY <2>10, <4>1, IdsKept DEF Quarantine, records
    <3>3. Moves(w, "settle")
      BY <2>0, <3>1, GoesFacts
    <3> QED BY <1>0, <2>0, <3>1, <3>2, <3>3, CallsMove
  <2>11. CASE AuthorizeBudget(w)
    <3>1. UNCHANGED <<claim, paid>> /\ worker[w].pc = "reserve" /\ Goes(w, "admit")
      BY <2>11 DEF AuthorizeBudget, records, At
    <3>2. Moves(w, "admit")
      BY <3>1, GoesFacts DEF WorkerSteps
    <3>3. Resumes(worker'[w]) => paid'[worker'[w].on] = 1
      BY <3>1, <3>2 DEF Moves, Resumes, Behind, CallsMade
    <3> QED BY <3>1, <3>2, <3>3, CallsStay DEF Moves
  <2> QED BY <1>6, <2>2, <2>3, <2>4, <2>5, <2>6, <2>7, <2>8, <2>9, <2>10, <2>11 DEF PaidStep
<1>7. CASE UNCHANGED vars \/ \E c \in PaidWake : LateReserve(c)
  BY <1>1, <1>7 DEF vars, LateReserve
<1> QED BY <1>2, <1>3, <1>4, <1>5, <1>6, <1>7 DEF Next, WorkerStep

LEMMA CallsAlways == Spec => []CallsMade
<1>1. Init => CallsMade
  <2> SUFFICES ASSUME Init PROVE CallsMade
    OBVIOUS
  <2>1. \A c \in PaidWake : ~claim[c].id
    BY DEF Init, NoClaim, PaidWake
  <2>2. \A w \in Workers : ~Resumes(worker[w])
    BY DEF Init, Idle, Behind, Resumes
  <2> QED BY <2>1, <2>2 DEF CallsMade
<1> QED BY <1>1, CallsStep, InvHolds, PTL DEF Spec

\* What a step leaves alone of the paid operations other than c.
StatusElse(c) == \A d \in PaidWake : d # c => StatusOf(d)' = StatusOf(d)
MoneyElse(c) == \A d \in PaidWake : d # c => MoneyOf(d)' = MoneyOf(d)
StatusSame == \A d \in PaidWake : StatusOf(d)' = StatusOf(d)
MoneySame == \A d \in PaidWake : MoneyOf(d)' = MoneyOf(d)
AskedSame == \A d \in PaidWake : paid'[d] = paid[d]

mapped == <<PaidStatus, Asked, PaidMoney>>

\* The money is set aside, whatever the status: whose request it was may be
\* long gone.
Asides(c) ==
  /\ PaidMoney[c] = "none" /\ PaidMoney' = [PaidMoney EXCEPT ![c] = "aside"]
  /\ PaidStatus' = PaidStatus /\ Asked' = Asked

\* A step of the contract, or of a request for money.
Stepped == Abstract!Step \/ \E c \in PaidWake : Asides(c)

\* A step the contract does not see.
LEMMA Unseen ==
  /\ StatusSame => PaidStatus' = PaidStatus
  /\ MoneySame => PaidMoney' = PaidMoney
  /\ AskedSame => Asked' = Asked
BY DEF StatusSame, MoneySame, AskedSame, PaidStatus, PaidMoney, Asked

\* A step that moves the status of one operation.
LEMMA StatusMoves ==
  ASSUME NEW c \in PaidWake, StatusElse(c), MoneySame, AskedSame,
         \/ StatusOf(c) = "open" /\ MoneyOf(c) = "aside" /\ StatusOf(c)' = "submitted"
         \/ StatusOf(c) = "submitted" /\ paid[c] = 1 /\ StatusOf(c)' = "succeeded"
         \/ StatusOf(c) \in {"open", "submitted"} /\ StatusOf(c)' = "failed"
         \/ StatusOf(c) = "submitted" /\ StatusOf(c)' = "uncertain"
  PROVE  Abstract!Step
<1>1. PaidMoney' = PaidMoney /\ Asked' = Asked
  BY Unseen
<1>2. PaidStatus' = [PaidStatus EXCEPT ![c] = StatusOf(c)']
  BY DEF StatusElse, PaidStatus
<1>3. PaidStatus[c] = StatusOf(c) /\ PaidMoney[c] = MoneyOf(c) /\ Asked[c] = paid[c]
  BY DEF PaidStatus, PaidMoney, Asked
<1>4. Abstract!Submit(c) \/ Abstract!Succeed(c) \/ Abstract!Fail(c) \/ Abstract!GiveUp(c)
  BY <1>1, <1>2, <1>3 DEF Abstract!Submit, Abstract!Succeed, Abstract!Fail, Abstract!GiveUp, Abstract!Becomes
<1> QED BY <1>4 DEF Abstract!Step

\* A step that moves the money of one operation.
LEMMA MoneyMoves ==
  ASSUME NEW c \in PaidWake, MoneyElse(c), StatusSame, AskedSame,
         \/ MoneyOf(c) = "none" /\ MoneyOf(c)' = "aside"
         \/ StatusOf(c) = "succeeded" /\ MoneyOf(c) = "aside" /\ MoneyOf(c)' = "spent"
         \/ StatusOf(c) = "failed" /\ MoneyOf(c) = "aside" /\ MoneyOf(c)' = "returned"
  PROVE  Stepped
<1>1. PaidStatus' = PaidStatus /\ Asked' = Asked
  BY Unseen
<1>2. PaidMoney' = [PaidMoney EXCEPT ![c] = MoneyOf(c)']
  BY DEF MoneyElse, PaidMoney
<1>3. PaidStatus[c] = StatusOf(c) /\ PaidMoney[c] = MoneyOf(c)
  BY DEF PaidStatus, PaidMoney
<1>4. Asides(c) \/ Abstract!Spend(c) \/ Abstract!GiveBack(c)
  BY <1>1, <1>2, <1>3 DEF Asides, Abstract!Spend, Abstract!GiveBack, Abstract!Pays
<1> QED BY <1>4 DEF Abstract!Step, Stepped

\* The status asks for the claim only, the money for the reservation only.
LEMMA SameRecords ==
  /\ claim' = claim => StatusSame
  /\ reservation' = reservation => MoneySame
  /\ paid' = paid => AskedSame
BY DEF StatusSame, MoneySame, AskedSame, StatusOf, MoneyOf, Submitted

\* One claim is rewritten.
LEMMA RewrittenStatus ==
  ASSUME NEW c \in Wake, NEW s, NEW live, NEW id, Rewrites(c, s, live, id)
  PROVE  /\ StatusElse(c)
         /\ StatusOf(c)' = IF s \in Final THEN s
                           ELSE IF s \in {"submitting", "waiting"} \/ id THEN "submitted" ELSE "open"
<1>1. \A d \in PaidWake : d # c => claim'[d] = claim[d]
  BY DEF Rewrites, PaidWake
<1>2. StatusElse(c)
  BY <1>1 DEF StatusElse, StatusOf, Submitted
<1>3. claim'[c].state = s /\ claim'[c].id = id
  BY DEF Rewrites
<1> QED BY <1>2, <1>3 DEF StatusOf, Submitted, Final

\* An operation that is closed: as a success of what was asked for, as a
\* failure, or, after the call, as uncertain.
LEMMA ClosesContract ==
  ASSUME Typed, Inv, CallsMade, NEW w \in Workers, UNCHANGED <<paid, reservation>>,
         \/ Complete(w) \/ RecordFailure(w, "failed")
         \/ RecordFailure(w, "uncertain") /\ At(w, "quarantine")
  PROVE  Abstract!Step \/ UNCHANGED mapped
<1>0. PICK c \in Wake : c = worker[w].on
  BY OnType
<1>1. MoneySame /\ AskedSame
  BY SameRecords
<1>2. PICK s \in {"succeeded", "failed", "uncertain"} :
        /\ Settled(c, s)
        /\ \/ s = "succeeded" /\ CanComplete(w)
           \/ s = "failed" /\ CanFail(w)
           \/ s = "uncertain" /\ CanFail(w) /\ At(w, "quarantine")
  BY <1>0 DEF Complete, RecordFailure
<1>3. s \in Final
  BY DEF Final
<1>4. Rewrites(c, s, FALSE, claim[c].id)
  BY <1>2, <1>3, SettledFacts
<1>5. StatusElse(c) /\ StatusOf(c)' = s
  BY <1>3, <1>4, RewrittenStatus
<1>6. CASE c \notin PaidWake
  <2>1. StatusSame
    BY <1>5, <1>6 DEF StatusElse, StatusSame
  <2> QED BY <1>1, <2>1, Unseen DEF mapped
<1>7. CASE c \in PaidWake
  <2>1. CASE s = "succeeded"
    <3>1. claim[c].state \in {"claimed", "waiting"} /\ claim[c].id
      BY <1>0, <1>2, <1>7, <2>1 DEF CanComplete, PaidWake
    <3>2. StatusOf(c) = "submitted" /\ paid[c] = 1
      BY <1>7, <3>1 DEF StatusOf, Submitted, Final, CallsMade
    <3>3. StatusOf(c)' = "succeeded"
      BY <1>5, <2>1
    <3> QED BY <1>1, <1>5, <1>7, <3>2, <3>3, StatusMoves
  <2>2. CASE s = "failed"
    <3>1. claim[c].state \in {"claimed", "submitting", "waiting"}
      BY <1>0, <1>2, <2>2 DEF CanFail
    <3>2. StatusOf(c) \in {"open", "submitted"}
      BY <3>1 DEF StatusOf, Final
    <3>3. StatusOf(c)' = "failed"
      BY <1>5, <2>2
    <3> QED BY <1>1, <1>5, <1>7, <3>2, <3>3, StatusMoves
  <2>3. CASE s = "uncertain"
    <3>1. paid[c] = 1 /\ claim[c].state \notin Final
      BY <1>0, <1>2, <2>3 DEF CanFail, Final, CallsMade, At, Behind, Resumes
    <3>2. Submitted(c)
      BY <1>7, <3>1 DEF Inv, Books, PaidSound
    <3>3. StatusOf(c) = "submitted"
      BY <3>1, <3>2 DEF StatusOf
    <3>4. StatusOf(c)' = "uncertain"
      BY <1>5, <2>3
    <3> QED BY <1>1, <1>5, <1>7, <3>3, <3>4, StatusMoves
  <2> QED BY <2>1, <2>2, <2>3
<1> QED BY <1>6, <1>7

\* A provider identity is stored of an operation that is submitted.
LEMMA RecordsContract ==
  ASSUME Typed, NEW w \in Workers, RecordProvider(w), UNCHANGED <<paid, reservation>>
  PROVE  UNCHANGED mapped
<1>0. PICK c \in Wake : c = worker[w].on
  BY OnType
<1>1. Rewrites(c, "waiting", TRUE, TRUE)
  BY <1>0, RecordFacts
<1>2. StatusElse(c) /\ StatusOf(c)' = "submitted"
  BY <1>1, RewrittenStatus DEF Final
<1>3. StatusOf(c) = "submitted"
  BY <1>0 DEF RecordProvider, CanPersist, StatusOf, Submitted, Final
<1>4. StatusSame
  BY <1>2, <1>3 DEF StatusElse, StatusSame
<1> QED BY <1>4, SameRecords, Unseen DEF mapped

\* A claim is taken, taken over, expired or given up.
LEMMA ClaimContract ==
  ASSUME Typed, Inv, NEW c \in Wake, UNCHANGED <<paid, reservation>>,
         \/ Expire(c)
         \/ \E w \in Workers : AckWake(w, c) \/ Quarantined(w, c) \/ ClaimOperation(w, c)
  PROVE  Abstract!Step \/ UNCHANGED mapped
<1>0. MoneySame /\ AskedSame
  BY SameRecords
<1>1. ClaimSound(c) /\ claim[c] \in Claim
  BY DEF Inv, Books, Typed
<1>2. CASE \E w \in Workers : AckWake(w, c)
  BY <1>2, SameRecords, Unseen DEF AckWake, mapped
<1>3. CASE Expire(c)
  <2>1. Rewrites(c, claim[c].state, FALSE, claim[c].id)
    BY <1>3, ExpireFacts
  <2>2. /\ StatusElse(c)
        /\ claim'[c].state = claim[c].state /\ claim'[c].id = claim[c].id
    BY <2>1, RewrittenStatus DEF Rewrites
  <2>3. StatusOf(c)' = StatusOf(c)
    BY <2>2 DEF StatusOf, Submitted
  <2>4. StatusSame
    BY <2>2, <2>3 DEF StatusElse, StatusSame
  <2> QED BY <1>0, <2>4, Unseen DEF mapped
<1>4. CASE \E w \in Workers : Quarantined(w, c)
  <2>1. PICK w \in Workers : Quarantined(w, c)
    BY <1>4
  <2>2. Rewrites(c, "uncertain", FALSE, claim[c].id)
    BY <2>1, SettledFacts DEF Quarantined, Final
  <2>3. StatusElse(c) /\ StatusOf(c)' = "uncertain"
    BY <2>2, RewrittenStatus DEF Final
  <2>4. c \in PaidWake
    BY <2>1 DEF Quarantined, Ambiguous, Claimable, Current, Id, PaidWake
  <2>5. StatusOf(c) = "submitted"
    BY <2>1 DEF Quarantined, Ambiguous, StatusOf, Submitted, Final
  <2> QED BY <1>0, <2>3, <2>4, <2>5, StatusMoves
<1>5. CASE \E w \in Workers : ClaimOperation(w, c)
  <2>1. PICK w \in Workers : ClaimOperation(w, c)
    BY <1>5
  <2>2. /\ claim'[c].state = "claimed" /\ claim'[c].id = claim[c].id
        /\ \A d \in Wake : d # c => claim'[d] = claim[d]
    BY <2>1, ClaimFacts
  <2>3. StatusElse(c)
    BY <2>2 DEF StatusElse, StatusOf, Submitted, PaidWake
  <2>4. c \in PaidWake => StatusOf(c)' = StatusOf(c)
    <3>1. StatusOf(c)' = IF claim[c].id THEN "submitted" ELSE "open"
      BY <2>2 DEF StatusOf, Submitted, Final
    <3>2. claim[c].state \in {"absent", "claimed", "submitting", "waiting"}
      BY <1>1, <2>1 DEF ClaimOperation, Claim, ClaimStates, Final
    <3>3. c \in PaidWake => claim[c].state # "submitting"
      BY <1>1, <2>1 DEF ClaimOperation, Ambiguous, ClaimSound, PaidWake
    <3>4. claim[c].state = "absent" => claim[c].id = FALSE
      BY <1>1 DEF ClaimSound, NoClaim
    <3>5. claim[c].state = "waiting" => claim[c].id
      BY <1>1 DEF ClaimSound
    <3> QED BY <3>1, <3>2, <3>3, <3>4, <3>5 DEF StatusOf, Submitted, Final
  <2>5. StatusSame
    BY <2>3, <2>4 DEF StatusElse, StatusSame
  <2> QED BY <1>0, <2>5, Unseen DEF mapped
<1> QED BY <1>2, <1>3, <1>4, <1>5

\* The budget answers about one operation, whose claim stays as it is.
LEMMA MoneyContract ==
  ASSUME Typed, NEW c \in PaidWake, UNCHANGED <<claim, paid>>,
         \/ Reserve(c, TRUE) \/ ResolveUncertain(c) \/ UNCHANGED budget
         \/ FinalizeUsage(c) /\ claim[c].state = "succeeded"
         \/ ResolveNotInvoked(c) /\ claim[c].state = "failed"
  PROVE  Stepped \/ UNCHANGED mapped
<1>1. StatusSame /\ AskedSame
  BY SameRecords
<1>2. c \in Spends /\ PaidWake \subseteq Spends /\ reservation \in [Spends -> ReservationStates]
  BY Consts DEF Typed
<1>3. /\ \A d \in PaidWake : d # c => reservation'[d] = reservation[d]
      /\ \/ reservation'[c] = reservation[c]
         \/ reservation[c] = "absent" /\ reservation'[c] = "rejected"
         \/ reservation[c] = "reserved" /\ reservation'[c] = "uncertain"
         \/ reservation[c] = "absent" /\ reservation'[c] = "reserved"
         \/ /\ reservation[c] = "reserved" /\ reservation'[c] = "released"
            /\ claim[c].state = "failed"
         \/ /\ reservation[c] = "reserved" /\ reservation'[c] = "finalized"
            /\ claim[c].state = "succeeded"
  BY <1>2 DEF Reserve, FinalizeUsage, ResolveUncertain, ResolveNotInvoked, budget
<1>4. MoneyElse(c)
  BY <1>3 DEF MoneyElse, MoneyOf
<1>5. CASE \/ reservation'[c] = reservation[c]
           \/ reservation[c] = "absent" /\ reservation'[c] = "rejected"
           \/ reservation[c] = "reserved" /\ reservation'[c] = "uncertain"
  <2>1. MoneyOf(c)' = MoneyOf(c)
    BY <1>5 DEF MoneyOf, Open
  <2>2. MoneySame
    BY <1>4, <2>1 DEF MoneyElse, MoneySame
  <2> QED BY <1>1, <2>2, Unseen DEF mapped
<1>6. CASE reservation[c] = "absent" /\ reservation'[c] = "reserved"
  <2>1. MoneyOf(c) = "none" /\ MoneyOf(c)' = "aside"
    BY <1>6 DEF MoneyOf, Open
  <2> QED BY <1>1, <1>4, <1>6, <2>1, MoneyMoves
<1>7. CASE /\ reservation[c] = "reserved" /\ reservation'[c] = "released"
           /\ claim[c].state = "failed"
  <2>1. MoneyOf(c) = "aside" /\ MoneyOf(c)' = "returned"
    BY <1>7 DEF MoneyOf, Open
  <2>2. StatusOf(c) = "failed"
    BY <1>7 DEF StatusOf, Final
  <2> QED BY <1>1, <1>4, <2>1, <2>2, MoneyMoves
<1>8. CASE /\ reservation[c] = "reserved" /\ reservation'[c] = "finalized"
           /\ claim[c].state = "succeeded"
  <2>1. MoneyOf(c) = "aside" /\ MoneyOf(c)' = "spent"
    BY <1>8 DEF MoneyOf, Open
  <2>2. StatusOf(c) = "succeeded"
    BY <1>8 DEF StatusOf, Final
  <2> QED BY <1>1, <1>4, <2>1, <2>2, MoneyMoves
<1> QED BY <1>3, <1>5, <1>6, <1>7, <1>8

\* Whoever releases, reports or settles knows how the claim stands.
LEMMA BudgetContract ==
  ASSUME Typed, Inv, NEW w \in Workers,
         ReserveBudget(w) \/ Release(w) \/ ReportUsage(w) \/ Settle(w)
  PROVE  Stepped \/ UNCHANGED mapped
<1>0. PICK c \in Wake : c = worker[w].on
  BY OnType
<1>1. UNCHANGED <<claim, paid>>
  BY DEF ReserveBudget, Release, ReportUsage, Settle, records
<1>2. WorkerSound(w)
  BY DEF Inv, Crew
<1>3. c \in PaidWake
  BY <1>0, <1>2 DEF ReserveBudget, Release, ReportUsage, Settle, At, WorkerSound
<1>4. CASE ReserveBudget(w)
  <2>1. Reserve(c, TRUE)
    BY <1>0, <1>4 DEF ReserveBudget
  <2> QED BY <1>1, <1>3, <2>1, MoneyContract
<1>5. CASE Release(w)
  <2>1. claim[c].state = "failed" /\ (ResolveNotInvoked(c) \/ UNCHANGED budget)
    BY <1>0, <1>2, <1>5 DEF Release, WorkerSound
  <2> QED BY <1>1, <1>3, <2>1, MoneyContract
<1>6. CASE ReportUsage(w)
  <2>1. claim[c].state = "succeeded" /\ (FinalizeUsage(c) \/ UNCHANGED budget)
    BY <1>0, <1>2, <1>6 DEF ReportUsage, WorkerSound
  <2> QED BY <1>1, <1>3, <2>1, MoneyContract
<1>7. CASE Settle(w)
  <2>1. ResolveUncertain(c) \/ UNCHANGED budget
    BY <1>0, <1>7 DEF Settle
  <2> QED BY <1>1, <1>3, <2>1, MoneyContract
<1> QED BY <1>4, <1>5, <1>6, <1>7

\* A model call of a stage handler is no operation of the plan.
LEMMA MeteredContract ==
  ASSUME Typed, MeteredCall
  PROVE  UNCHANGED mapped
<1>1. PICK s \in Calls : CallStep(s)
  BY DEF MeteredCall
<1>2. s \in Spends /\ s \notin PaidWake
  BY Consts
<1>3. \/ Reserve(s, FALSE) \/ FinalizeUsage(s) \/ ResolveUncertain(s) \/ ResolveNotInvoked(s)
      \/ UNCHANGED budget
  BY <1>1 DEF CallStep, CallReserve, CallInvoke, CallReport, CallFail, CallCrash
<1>4. \A d \in PaidWake : reservation'[d] = reservation[d]
  <2> SUFFICES ASSUME NEW d \in PaidWake PROVE reservation'[d] = reservation[d]
    OBVIOUS
  <2>1. d \in Spends /\ d # s /\ reservation \in [Spends -> ReservationStates]
    BY <1>2, Consts DEF Typed
  <2> QED BY <2>1, <1>3 DEF Reserve, FinalizeUsage, ResolveUncertain, ResolveNotInvoked, budget
<1>5. MoneySame
  BY <1>4 DEF MoneySame, MoneyOf
<1> QED BY <1>5, SameRecords, Unseen DEF MeteredCall, mapped

\* A submission begins with the money set aside.
LEMMA SubmitContract ==
  ASSUME Typed, Inv, NEW w \in Workers, StartSubmission(w)
  PROVE  Abstract!Step
<1>0. PICK c \in Wake : c = worker[w].on
  BY OnType
<1>1. MoneySame /\ AskedSame
  BY SameRecords DEF StartSubmission, budget
<1>2. Rewrites(c, "submitting", claim[c].live, claim[c].id)
  BY <1>0, StartFacts
<1>3. StatusElse(c) /\ StatusOf(c)' = "submitted"
  BY <1>2, RewrittenStatus DEF Final
<1>4. WorkerSound(w) /\ At(w, "start") /\ Owner(w) /\ claim[c].state = "claimed"
  BY <1>0 DEF StartSubmission, Submittable, Inv, Crew
<1>5. c \in PaidWake /\ ~claim[c].id /\ reservation[c] \in Open
  BY <1>0, <1>4 DEF WorkerSound, At
<1>6. StatusOf(c) = "open" /\ MoneyOf(c) = "aside"
  BY <1>4, <1>5 DEF StatusOf, MoneyOf, Submitted, Final
<1> QED BY <1>1, <1>3, <1>5, <1>6, StatusMoves

\* The provider is asked for what was submitted, with the money set aside.
LEMMA AskContract ==
  ASSUME Typed, Inv, NEW w \in Workers, CallProvider(w)
  PROVE  Abstract!Step
<1>0. PICK c \in Wake : c = worker[w].on
  BY OnType
<1>1. StatusSame /\ MoneySame
  BY SameRecords DEF CallProvider, records, budget
<1>2. WorkerSound(w) /\ At(w, "call")
  BY DEF CallProvider, Inv, Crew
<1>3. /\ c \in PaidWake /\ paid[c] = 0 /\ reservation[c] \in Open
      /\ claim[c].state \in {"submitting", "uncertain"}
  BY <1>0, <1>2 DEF WorkerSound, At
<1>4. paid' = [paid EXCEPT ![c] = 1]
  BY <1>0, <1>3 DEF CallProvider
<1>5. Asked' = [Asked EXCEPT ![c] = 1]
  BY <1>3, <1>4 DEF Asked, Typed, PaidWake
<1>6. PaidStatus' = PaidStatus /\ PaidMoney' = PaidMoney
  BY <1>1, Unseen
<1>7. /\ PaidStatus[c] \in {"submitted", "uncertain"}
      /\ PaidMoney[c] = "aside" /\ Asked[c] = 0
  BY <1>3 DEF PaidStatus, PaidMoney, Asked, StatusOf, MoneyOf, Submitted, Final
<1>8. Abstract!Ask(c)
  BY <1>5, <1>6, <1>7 DEF Abstract!Ask
<1> QED BY <1>3, <1>8 DEF Abstract!Step

\* Every step of the plan is a step of its contract, a request for money, or
\* none.
LEMMA ContractStep ==
  ASSUME Typed, Inv, CallsMade, [Next]_vars
  PROVE  Stepped \/ UNCHANGED mapped
<1> USE DEF Stepped
<1>1. CASE UNCHANGED <<claim, paid, reservation>>
  BY <1>1, SameRecords, Unseen DEF mapped
<1>2. CASE OperatorStep \/ UNCHANGED vars \/ \E c \in Wake : Dispatch(c) \/ DropWake(c)
  BY <1>1, <1>2 DEF OperatorStep, Propose, Seal, Approve, Reject, Rerender, MandateExpires, Dispatch,
     DropWake, budget, vars
<1>3. CASE MeteredCall
  BY <1>3, MeteredContract
<1>4. CASE \E c \in Wake : Expire(c)
  BY <1>4, ClaimContract DEF Expire, budget
<1>5. ASSUME NEW w \in Workers, NEW c \in Wake, AckWake(w, c) \/ Quarantined(w, c) \/ ClaimOperation(w, c)
      PROVE  Stepped \/ UNCHANGED mapped
  <2>1. UNCHANGED <<paid, reservation>>
    BY <1>5 DEF AckWake, Quarantined, ClaimOperation, budget
  <2> QED BY <1>5, <2>1, ClaimContract
<1>6. ASSUME NEW w \in Workers, MakeInternal(w) \/ FailInternal(w) \/ Crash(w)
      PROVE  Stepped \/ UNCHANGED mapped
  <2>1. UNCHANGED <<paid, reservation>>
    BY <1>6 DEF MakeInternal, FailInternal, Crash, budget
  <2>2. Complete(w) \/ RecordFailure(w, "failed") \/ UNCHANGED claim
    BY <1>6 DEF MakeInternal, FailInternal, Crash, records
  <2> QED BY <1>1, <2>1, <2>2, ClosesContract
<1>7. ASSUME NEW w \in Workers, PaidStep(w)
      PROVE  Stepped \/ UNCHANGED mapped
  <2>1. CASE ReserveBudget(w) \/ Release(w) \/ ReportUsage(w) \/ Settle(w)
    BY <2>1, BudgetContract
  <2>2. CASE StartSubmission(w)
    BY <2>2, SubmitContract
  <2>3. CASE CallProvider(w)
    BY <2>3, AskContract
  <2>4. CASE AuthorizeBudget(w) \/ ReserveFails(w) \/ ReserveTimesOut(w) \/ StartFails(w)
    BY <1>1, <2>4 DEF AuthorizeBudget, ReserveFails, ReserveTimesOut, StartFails, records, budget
  <2>5. CASE PersistProvider(w) \/ PollProvider(w)
    <3>1. UNCHANGED <<paid, reservation>> /\ (RecordProvider(w) \/ UNCHANGED claim)
      BY <2>5 DEF PersistProvider, PollProvider, records, budget
    <3> QED BY <1>1, <3>1, RecordsContract
  <2>6. CASE Refuse(w) \/ StoreArtifact(w)
    <3>1. /\ UNCHANGED <<paid, reservation>>
          /\ Complete(w) \/ RecordFailure(w, "failed") \/ UNCHANGED claim
      BY <2>6 DEF Refuse, StoreArtifact, records, budget
    <3> QED BY <1>1, <3>1, ClosesContract
  <2>7. CASE Quarantine(w)
    <3>1. UNCHANGED <<paid, reservation>> /\ At(w, "quarantine")
      BY <2>7 DEF Quarantine, budget
    <3>2. RecordFailure(w, "failed") \/ RecordFailure(w, "uncertain") \/ UNCHANGED claim
      BY <2>7 DEF Quarantine, records
    <3> QED BY <1>1, <3>1, <3>2, ClosesContract
  <2> QED BY <1>7, <2>1, <2>2, <2>3, <2>4, <2>5, <2>6, <2>7 DEF PaidStep
<1>8. CASE \E c \in PaidWake : LateReserve(c)
  BY <1>8, MoneyContract DEF LateReserve
<1> QED BY <1>2, <1>3, <1>4, <1>5, <1>6, <1>7, <1>8 DEF Next, WorkerStep

\* What was submitted has had its money from the start: a late request cannot
\* find it without.
MoneyFirst ==
  \A c \in PaidWake :
    PaidStatus[c] \in {"submitted", "succeeded", "uncertain"} => PaidMoney[c] # "none"

\* The contract keeps it so, and so does a request for money.
LEMMA MoneyFirstStep ==
  ASSUME MoneyFirst, Stepped \/ UNCHANGED mapped
  PROVE  MoneyFirst'
<1>1. /\ PaidStatus = [d \in PaidWake |-> PaidStatus[d]]
      /\ PaidMoney = [d \in PaidWake |-> PaidMoney[d]]
  BY DEF PaidStatus, PaidMoney
<1>2. CASE UNCHANGED mapped
  BY <1>2 DEF mapped, MoneyFirst
<1>3. ASSUME NEW c \in PaidWake, NEW p, p # "none",
             PaidMoney' = [PaidMoney EXCEPT ![c] = p], PaidStatus' = PaidStatus
      PROVE  MoneyFirst'
  BY <1>1, <1>3 DEF MoneyFirst
<1>4. ASSUME NEW c \in PaidWake, NEW s, PaidMoney' = PaidMoney, PaidStatus' = [PaidStatus EXCEPT ![c] = s],
             \/ s = "failed" \/ PaidMoney[c] # "none"
      PROVE  MoneyFirst'
  BY <1>1, <1>4 DEF MoneyFirst
<1>5. ASSUME NEW c \in PaidWake, Asides(c) PROVE MoneyFirst'
  BY <1>3, <1>5 DEF Asides
<1>6. ASSUME Abstract!Step PROVE MoneyFirst'
  <2>1. PICK c \in PaidWake :
          \/ Abstract!SetAside(c) \/ Abstract!Spend(c) \/ Abstract!GiveBack(c)
          \/ Abstract!Submit(c) \/ Abstract!Succeed(c) \/ Abstract!Fail(c) \/ Abstract!GiveUp(c)
          \/ Abstract!Ask(c)
    BY <1>6 DEF Abstract!Step
  <2>2. CASE Abstract!SetAside(c) \/ Abstract!Spend(c) \/ Abstract!GiveBack(c)
    BY <1>3, <2>2 DEF Abstract!SetAside, Abstract!Spend, Abstract!GiveBack, Abstract!Pays
  <2>3. CASE Abstract!Submit(c) \/ Abstract!Succeed(c) \/ Abstract!Fail(c) \/ Abstract!GiveUp(c)
    <3>1. PaidStatus[c] = "submitted" => PaidMoney[c] # "none"
      BY DEF MoneyFirst
    <3> QED BY <1>4, <2>3, <3>1 DEF Abstract!Submit, Abstract!Succeed, Abstract!Fail, Abstract!GiveUp,
                                    Abstract!Becomes
  <2>4. CASE Abstract!Ask(c)
    BY <2>4 DEF Abstract!Ask, MoneyFirst
  <2> QED BY <2>1, <2>2, <2>3, <2>4
<1> QED BY <1>2, <1>5, <1>6 DEF Stepped

\* So a request for money finds an operation that is still open, or has failed.
LEMMA AsidesContract ==
  ASSUME Typed, MoneyFirst, NEW c \in PaidWake, Asides(c)
  PROVE  Abstract!Step
<1>1. PaidStatus[c] \in {"open", "submitted", "succeeded", "failed", "uncertain"}
  BY DEF PaidStatus, StatusOf, Final
<1>2. PaidStatus[c] \in {"open", "failed"}
  BY <1>1 DEF Asides, MoneyFirst
<1>3. Abstract!SetAside(c)
  BY <1>2 DEF Asides, Abstract!SetAside, Abstract!Pays
<1> QED BY <1>3 DEF Abstract!Step

\* Workers, leases, redeliveries, revisions and the shared budget do to an
\* operation that is paid for only what its contract allows: every run of the
\* plan is, operation by operation, a run of the contract.
THEOREM ContractHolds == Spec => ImplementsPlanContract
<1>1. Init => Abstract!Start
  <2> SUFFICES ASSUME Init PROVE Abstract!Start
    OBVIOUS
  <2>1. PaidWake \subseteq Wake /\ PaidWake \subseteq Spends
    BY Consts DEF PaidWake
  <2>2. ASSUME NEW c \in PaidWake
        PROVE  StatusOf(c) = "open" /\ MoneyOf(c) = "none" /\ paid[c] = 0
    BY <2>1 DEF Init, BudgetInit, NoClaim, StatusOf, MoneyOf, Submitted, Final, Open
  <2> QED BY <2>2 DEF Abstract!Start, PaidStatus, PaidMoney, Asked
<1>2. Init => MoneyFirst
  BY <1>1 DEF Abstract!Start, MoneyFirst
<1>3. Typed /\ Inv /\ CallsMade /\ MoneyFirst /\ [Next]_vars => MoneyFirst' /\ [Abstract!Step]_mapped
  BY ContractStep, MoneyFirstStep, AsidesContract DEF Stepped
<1> QED BY <1>1, <1>2, <1>3, InvHolds, CallsAlways, PTL
        DEF Spec, ImplementsPlanContract, Abstract!Contract, mapped
=============================================================================
