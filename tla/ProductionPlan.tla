---------------------------- MODULE ProductionPlan ----------------------------
(* A production plan: a graph of paid and of internal media operations.     *)
(*                                                                          *)
(* An operator approves one revision of the plan.  The approval is a mandate *)
(* to spend up to a ceiling until it expires, and writes an outbox record   *)
(* for every operation that depends on nothing.  A dispatcher publishes due *)
(* records again and again until their operation is over; a worker that     *)
(* receives the wake claims the operation under a lease, reserves the money *)
(* of a paid one, submits it to its provider, polls and stores the result.  *)
(* The completion writes the outbox records of the operations it makes      *)
(* ready.  A claim, its outbox record and its wake share one identity: the  *)
(* revision, the operation and, for an internal one, the render run.        *)
EXTENDS JobBudget

CONSTANTS
  Ops,          \* the operations of the plan's graph
  Kind,         \* Kind[o]: internal, or the provider of a paid operation
  DependsOn,    \* DependsOn[o]: the operations o needs the results of
  Price,        \* Price[o]: the sealed quote of a paid operation
  Ceiling,      \* maximumCostUsd of the mandate
  Workers,      \* concurrent consumers of the production queue
  Faults,       \* the failures met, a subset of AllFaults
  MaxRevision,  \* bound: the last revision proposed
  MaxRun,       \* bound: the last render run of a revision
  MaxAttempt    \* bound: the claims after which no worker or lease is lost

\* A worker dies; a lease runs out under a slow one; the answer of a web
\* request is lost; the provider fails; the operation itself cannot be done;
\* the mandate expires; a wake is dead-lettered.
AllFaults == {"crash", "expire", "web", "provider", "protocol", "mandate", "drop"}

Wake == [rev: 1..MaxRevision, op: Ops, run: 0..MaxRun]
Paid(o) == Kind[o] # "internal"
PaidWake == {c \in Wake : Paid(c.op) /\ c.run = 0}

ASSUME PlanAssumption ==
  /\ Ops # {}
  /\ Kind \in [Ops -> {"internal", "nova_reel", "elevenlabs", "nova_canvas"}]
  /\ DependsOn \in [Ops -> SUBSET Ops]
  /\ PaidWake \subseteq Spends /\ PaidWake \cap Calls = {}
  /\ Price \in [Ops -> Nat]
  /\ \A c \in PaidWake : Cost[c] = Price[c.op]
  /\ Ceiling \in Nat /\ Faults \subseteq AllFaults
  /\ MaxRevision \in Nat \ {0} /\ MaxRun \in Nat /\ MaxAttempt \in Nat \ {0}

VARIABLES
  plan,     \* the aggregate: revision, state, render run, reserved cost
  expired,  \* the mandate of the current revision is past its expiry
  claim,    \* claim[c]: the claim record of an operation
  outbox,   \* outbox[c]: the state of its outbox record
  queue,    \* the wakes in the production queue
  worker,   \* worker[w]: where consumer w stands with its wake
  late,     \* the operations a reservation is still under way for, unawaited
  paid      \* paid[c]: how often the provider was asked to do c

vars == <<plan, expired, claim, outbox, queue, worker, late, paid, budget, call>>

PlanStates == {"proposed", "sealed", "approved", "rejected"}
ClaimStates == {"absent", "claimed", "submitting", "waiting", "succeeded", "failed",
                "uncertain"}
Final == {"succeeded", "failed", "uncertain"}
OutboxStates == {"absent", "open", "completed", "superseded"}
WorkerSteps == {"idle", "make", "reserve", "admit", "start", "call", "persist", "poll", "store",
                "usage", "refuse", "release", "quarantine", "settle"}

\* attempt names the token of the last claimant; id: a provider identity is stored.
Claim == [state: ClaimStates, attempt: 0..MaxAttempt, live: BOOLEAN, id: BOOLEAN]
\* resumed: the claim already had an identity; valid: the mandate was valid at
\* the claim; id: active_provider_id; settle: a refusal that also releases.
Worker == [pc: WorkerSteps, on: Wake, token: 0..MaxAttempt, resumed: BOOLEAN,
           valid: BOOLEAN, id: BOOLEAN, settle: BOOLEAN]

\* The type of every variable.
TypeOK ==
  /\ BudgetTypeOK
  /\ plan \in [rev: 1..MaxRevision, state: PlanStates, run: 0..MaxRun, reserved: Nat]
  /\ expired \in BOOLEAN
  /\ claim \in [Wake -> Claim]
  /\ outbox \in [Wake -> OutboxStates]
  /\ queue \in SUBSET Wake
  /\ worker \in [Workers -> Worker]
  /\ late \in SUBSET Wake
  /\ paid \in [Wake -> Nat]

NoClaim == [state |-> "absent", attempt |-> 0, live |-> FALSE, id |-> FALSE]
Idle == [pc |-> "idle", on |-> CHOOSE c \in Wake : TRUE, token |-> 0, resumed |-> FALSE,
         valid |-> FALSE, id |-> FALSE, settle |-> FALSE]

\* The first revision has just been proposed.
Init ==
  /\ BudgetInit
  /\ plan = [rev |-> 1, state |-> "proposed", run |-> 0, reserved |-> 0]
  /\ expired = FALSE
  /\ claim = [c \in Wake |-> NoClaim]
  /\ outbox = [c \in Wake |-> "absent"]
  /\ queue = {}
  /\ worker = [w \in Workers |-> Idle]
  /\ late = {}
  /\ paid = [c \in Wake |-> 0]

----------------------------------------------------------------------------
(* The graph of the current revision.                                       *)

\* The identity of operation o under plan p; only internal ones are rerun.
Id(p, o) == [rev |-> p.rev, op |-> o, run |-> IF Paid(o) THEN 0 ELSE p.run]
Current(c) == plan.state = "approved" /\ c = Id(plan, c.op)
Done(o) == claim[Id(plan, o)].state = "succeeded"

Bug_WaitsForItself(o) ==
  {d \in Ops : o \in DependsOn[d] /\ \A e \in DependsOn[d] : Done(e)}

\* The operations that the success of o makes ready.
Readied(o) ==
  {d \in Ops : o \in DependsOn[d] /\ \A e \in DependsOn[d] \ {o} : Done(e)}

Internal == {o \in Ops : ~Paid(o)}
RenderRoots == {o \in Internal : \A d \in DependsOn[o] : Paid(d)}

----------------------------------------------------------------------------
(* The operator.                                                            *)

\* A new revision withdraws every outbox record of the current one.
Propose ==
  /\ plan.rev < MaxRevision
  /\ plan' = [rev |-> plan.rev + 1, state |-> "proposed", run |-> 0, reserved |-> 0]
  /\ expired' = FALSE
  /\ outbox' = [c \in Wake |->
       IF c = Id(plan, c.op) /\ outbox[c] # "absent" THEN "superseded" ELSE outbox[c]]
  /\ UNCHANGED <<claim, queue, worker, late, paid, budget, call>>

Seal ==
  /\ plan.state = "proposed"
  /\ plan' = [plan EXCEPT !.state = "sealed"]
  /\ UNCHANGED <<expired, claim, outbox, queue, worker, late, paid, budget, call>>

Approve ==
  /\ plan.state = "sealed"
  /\ plan' = [plan EXCEPT !.state = "approved", !.reserved = 0]
  /\ outbox' = [c \in Wake |->
       IF c = Id(plan, c.op) /\ DependsOn[c.op] = {} THEN "open" ELSE outbox[c]]
  /\ UNCHANGED <<expired, claim, queue, worker, late, paid, budget, call>>

Reject ==
  /\ plan.state = "sealed"
  /\ plan' = [plan EXCEPT !.state = "rejected"]
  /\ UNCHANGED <<expired, claim, outbox, queue, worker, late, paid, budget, call>>

\* Render again from the paid results: a new run of the internal operations.
Rerender ==
  /\ plan.state = "approved" /\ plan.run < MaxRun
  /\ RenderRoots # {}
  /\ \A o \in Ops \ Internal : Done(o)
  /\ plan' = [plan EXCEPT !.run = @ + 1]
  /\ outbox' = [c \in Wake |->
       IF c = Id(plan, c.op) /\ ~Paid(c.op) /\ outbox[c] = "open" THEN "superseded"
       ELSE IF c = Id(plan', c.op) /\ c.op \in RenderRoots THEN "open"
       ELSE outbox[c]]
  /\ UNCHANGED <<expired, claim, queue, worker, late, paid, budget, call>>

MandateExpires ==
  /\ "mandate" \in Faults /\ plan.state = "approved"
  /\ expired' = TRUE
  /\ UNCHANGED <<plan, claim, outbox, queue, worker, late, paid, budget, call>>

OperatorStep == Propose \/ Seal \/ Approve \/ Reject \/ Rerender \/ MandateExpires

----------------------------------------------------------------------------
(* The dispatcher.  A record that is pending, publishing or published is    *)
(* open: claiming it for publication, settling it and releasing it only move *)
(* it between the three, and each of them is due again when its time comes.  *)

Bug_PublishedOnce(c) ==
  /\ outbox[c] = "open"
  /\ queue' = queue \cup {c}
  /\ outbox' = [outbox EXCEPT ![c] = "completed"]
  /\ UNCHANGED <<plan, expired, claim, worker, late, paid, budget, call>>

Dispatch(c) ==
  /\ outbox[c] = "open"
  /\ queue' = queue \cup {c}
  /\ UNCHANGED <<plan, expired, claim, outbox, worker, late, paid, budget, call>>

----------------------------------------------------------------------------
(* Claims.                                                                  *)

\* What the worker wants is no longer, or not yet, to be done: the claim throws.
Claimable(c) == Current(c) /\ \A d \in DependsOn[c.op] : Done(d)

Bug_SubmitsAgain(c) == Kind[c.op] = "elevenlabs" /\ claim[c].id

\* A dead worker may have submitted it, or has lost the song it was handed.
Ambiguous(c) ==
  /\ Paid(c.op)
  /\ \/ claim[c].state = "submitting" /\ ~claim[c].id
     \/ Kind[c.op] = "elevenlabs" /\ claim[c].id

Affordable(c) ==
  Paid(c.op) =>
    /\ claim[c].id \/ ~expired
    /\ plan.reserved + (IF claim[c].state = "absent" THEN Price[c.op] ELSE 0) <= Ceiling

Settled(c, state) == claim' = [claim EXCEPT ![c].state = state, ![c].live = FALSE]
Released(w, acked) ==
  /\ worker' = [worker EXCEPT ![w] = Idle]
  /\ queue' = IF acked THEN queue \ {worker[w].on} ELSE queue

\* The operation is over or another worker's: the wake is acknowledged.
AckWake(w, c) ==
  /\ worker[w].pc = "idle" /\ c \in queue /\ Claimable(c)
  /\ claim[c].state \in Final \/ claim[c].live
  /\ queue' = queue \ {c}
  /\ UNCHANGED <<plan, expired, claim, outbox, worker, late, paid, budget, call>>

\* Its lease has run out and it must not be repeated.
Quarantined(w, c) ==
  /\ worker[w].pc = "idle" /\ c \in queue /\ Claimable(c)
  /\ claim[c].state \in {"claimed", "submitting", "waiting"} /\ ~claim[c].live
  /\ Ambiguous(c)
  /\ Settled(c, "uncertain")
  /\ outbox' = [outbox EXCEPT ![c] = "completed"]
  /\ queue' = queue \ {c}
  /\ UNCHANGED <<plan, expired, worker, late, paid, budget, call>>

Bug_ForgetsProvider(w, c) ==
  /\ worker[w].pc = "idle" /\ c \in queue /\ Claimable(c)
  /\ claim[c].state \notin Final /\ ~claim[c].live /\ ~Ambiguous(c)
  /\ Affordable(c) /\ claim[c].attempt < MaxAttempt
  /\ claim' = [claim EXCEPT ![c].state = "claimed", ![c].attempt = @ + 1, ![c].live = TRUE]
  /\ plan' = [plan EXCEPT !.reserved =
       IF Paid(c.op) /\ claim[c].state = "absent" THEN @ + Price[c.op] ELSE @]
  /\ worker' = [worker EXCEPT ![w] =
       [pc |-> IF Paid(c.op) THEN "reserve" ELSE "make", on |-> c,
        token |-> claim[c].attempt + 1, resumed |-> FALSE, valid |-> ~expired,
        id |-> FALSE, settle |-> FALSE]]
  /\ UNCHANGED <<expired, outbox, queue, late, paid, budget, call>>

ClaimOperation(w, c) ==
  /\ worker[w].pc = "idle" /\ c \in queue /\ Claimable(c)
  /\ claim[c].state \notin Final /\ ~claim[c].live /\ ~Ambiguous(c)
  /\ Affordable(c) /\ claim[c].attempt < MaxAttempt
  /\ claim' = [claim EXCEPT ![c].state = "claimed", ![c].attempt = @ + 1, ![c].live = TRUE]
  /\ plan' = [plan EXCEPT !.reserved =
       IF Paid(c.op) /\ claim[c].state = "absent" THEN @ + Price[c.op] ELSE @]
  /\ worker' = [worker EXCEPT ![w] =
       [pc |-> IF Paid(c.op) THEN "reserve" ELSE "make", on |-> c,
        token |-> claim[c].attempt + 1, resumed |-> claim[c].id, valid |-> ~expired,
        id |-> claim[c].id, settle |-> FALSE]]
  /\ UNCHANGED <<expired, outbox, queue, late, paid, budget, call>>

\* The queue gives up on a wake that is refused again and again.
DropWake(c) ==
  /\ c \in queue /\ "drop" \in Faults
  /\ ~Claimable(c) \/ ~Affordable(c)
  /\ queue' = queue \ {c}
  /\ UNCHANGED <<plan, expired, claim, outbox, worker, late, paid, budget, call>>

Owner(w) == claim[worker[w].on].attempt = worker[w].token

\* A lease runs out: of a slow worker, of a dead one, or until the next poll.
Expire(c) ==
  /\ claim[c].live /\ claim[c].attempt < MaxAttempt
  /\ \/ "expire" \in Faults
     \/ \A w \in Workers : ~(worker[w].pc # "idle" /\ worker[w].on = c /\ Owner(w))
  /\ claim' = [claim EXCEPT ![c].live = FALSE]
  /\ UNCHANGED <<plan, expired, outbox, queue, worker, late, paid, budget, call>>

Crash(w) ==
  /\ "crash" \in Faults /\ worker[w].pc # "idle" /\ worker[w].token < MaxAttempt
  /\ Released(w, FALSE)
  /\ late' = IF worker[w].pc = "admit" THEN late \cup {worker[w].on} ELSE late
  /\ UNCHANGED <<plan, expired, claim, outbox, paid, budget, call>>

----------------------------------------------------------------------------
(* Storing a result, and recording a failure.                               *)

\* The records of the operations made ready are inserted: a record that is
\* already there makes the whole transaction throw.
CanComplete(w) ==
  LET c == worker[w].on IN
  /\ Owner(w)
  /\ IF Paid(c.op) THEN claim[c].state \in {"claimed", "waiting"} /\ claim[c].id
                   ELSE claim[c].state = "claimed" /\ Current(c)
  /\ Current(c) => \A d \in Readied(c.op) : outbox[Id(plan, d)] = "absent"

Complete(w) ==
  LET c == worker[w].on IN
  /\ CanComplete(w)
  /\ Settled(c, "succeeded")
  /\ outbox' = [d \in Wake |->
       IF d = c THEN "completed"
       ELSE IF Current(c) /\ d.op \in Readied(c.op) /\ d = Id(plan, d.op) THEN "open"
       ELSE outbox[d]]

Bug_NoOwner(w) == claim[worker[w].on].state \in {"claimed", "submitting", "waiting"}

CanFail(w) == Owner(w) /\ claim[worker[w].on].state \in {"claimed", "submitting", "waiting"}

RecordFailure(w, state) ==
  /\ CanFail(w)
  /\ Settled(worker[w].on, state)
  /\ outbox' = [outbox EXCEPT ![worker[w].on] = "completed"]

records == <<claim, outbox>>

\* The render or inspection is done and stored; its answer may be lost.
MakeInternal(w) ==
  /\ worker[w].pc = "make"
  /\ Complete(w)
  /\ \/ Released(w, TRUE)
     \/ "web" \in Faults /\ Released(w, FALSE)
  /\ UNCHANGED <<plan, expired, late, paid, budget, call>>

\* It fails for good, which is recorded; or for now, or it cannot be stored.
FailInternal(w) ==
  /\ worker[w].pc = "make"
  /\ \/ "protocol" \in Faults /\ RecordFailure(w, "failed")
     \/ /\ ("web" \in Faults /\ worker[w].token < MaxAttempt) \/ ~CanComplete(w)
        /\ UNCHANGED records
  /\ Released(w, FALSE)
  /\ UNCHANGED <<plan, expired, late, paid, budget, call>>

----------------------------------------------------------------------------
(* A paid operation: execute_production_operation, web request by request.  *)

At(w, pc) == worker[w].pc = pc
Goes(w, pc) == worker' = [worker EXCEPT ![w].pc = pc]
Refuses(w, settle) == worker' = [worker EXCEPT ![w].pc = "refuse", ![w].settle = settle]
world == <<plan, expired, queue, late, call>>

\* authorizeProductionBudgetReservation; a claim with a provider identity is
\* judged by the instant of its claim.
BudgetAuthorized(w) ==
  LET c == worker[w].on IN
  /\ Owner(w) /\ claim[c].state \in {"claimed", "submitting", "waiting"} /\ Current(c)
  /\ IF claim[c].id THEN worker[w].valid ELSE ~expired

\* The route reads plan, claim and mandate outside any transaction; each of the
\* conditions, once false, stays false for this claimant, so that the first of
\* the reads decides.
AuthorizeBudget(w) ==
  /\ At(w, "reserve") /\ BudgetAuthorized(w)
  /\ Goes(w, "admit")
  /\ UNCHANGED <<world, records, paid, budget>>

\* The transaction that follows reads neither plan nor claim again; its answer
\* may be lost.
ReserveBudget(w) ==
  /\ At(w, "admit")
  /\ Reserve(worker[w].on, TRUE)
  /\ \/ /\ Admitted(reservation'[worker[w].on])
        /\ Goes(w, IF worker[w].resumed THEN "poll" ELSE "start")
     \/ ~Admitted(reservation'[worker[w].on]) /\ Refuses(w, FALSE)
     \/ "web" \in Faults /\ Refuses(w, TRUE)
  /\ UNCHANGED <<world, records, paid>>

\* The request is refused or never arrives; or the operation is found not to
\* be executable (configuration, conditioning) before it is made.
ReserveFails(w) ==
  /\ At(w, "reserve")
  /\ \/ (~BudgetAuthorized(w) \/ "web" \in Faults) /\ Refuses(w, TRUE)
     \/ "protocol" \in Faults /\ Refuses(w, FALSE)
  /\ UNCHANGED <<world, records, paid, budget>>

\* The worker gives up waiting for a request that is still being served.
ReserveTimesOut(w) ==
  /\ At(w, "admit") /\ "web" \in Faults
  /\ late' = late \cup {worker[w].on}
  /\ Refuses(w, TRUE)
  /\ UNCHANGED <<plan, expired, queue, call, records, paid, budget>>

\* The transaction of a request that nobody waits for any more.
LateReserve(c) ==
  /\ c \in late
  /\ Reserve(c, TRUE)
  /\ late' = late \ {c}
  /\ UNCHANGED <<plan, expired, claim, outbox, queue, worker, paid, call>>

\* startProductionProviderSubmission behind its route, which knows two of the
\* three providers.
Submittable(w) ==
  LET c == worker[w].on IN
  /\ Owner(w) /\ claim[c].state = "claimed" /\ Current(c) /\ ~expired
  /\ Kind[c.op] \in {"nova_reel", "elevenlabs"}

StartSubmission(w) ==
  /\ At(w, "start") /\ Submittable(w)
  /\ claim' = [claim EXCEPT ![worker[w].on].state = "submitting"]
  /\ Goes(w, "call") \/ ("web" \in Faults /\ Refuses(w, TRUE))
  /\ UNCHANGED <<world, outbox, paid, budget>>

StartFails(w) ==
  /\ At(w, "start") /\ (~Submittable(w) \/ "web" \in Faults)
  /\ Refuses(w, TRUE)
  /\ UNCHANGED <<world, records, paid, budget>>

Bug_ReleasesAnyway(w) ==
  /\ At(w, "refuse")
  /\ RecordFailure(w, "failed") \/ (~CanFail(w) /\ UNCHANGED records)
  /\ Goes(w, "release")
  /\ UNCHANGED <<world, paid, budget>>

\* The failure is recorded first; if that throws, nothing is released.
Refuse(w) ==
  /\ At(w, "refuse")
  /\ \/ /\ RecordFailure(w, "failed")
        /\ IF worker[w].settle THEN Goes(w, "release") /\ UNCHANGED queue
                               ELSE Released(w, TRUE)
     \/ ~CanFail(w) /\ UNCHANGED records /\ Released(w, FALSE)
     \/ "web" \in Faults /\ worker[w].token < MaxAttempt
        /\ UNCHANGED records /\ Released(w, FALSE)
  /\ UNCHANGED <<plan, expired, late, paid, budget, call>>

\* The reservation is resolved as not invoked, if the request gets through.
Release(w) ==
  /\ At(w, "release")
  /\ ResolveNotInvoked(worker[w].on) \/ ("web" \in Faults /\ UNCHANGED budget)
  /\ Released(w, TRUE)
  /\ UNCHANGED <<plan, expired, records, late, paid, call>>

\* The provider is asked to do the work.
CallProvider(w) ==
  /\ At(w, "call")
  /\ paid' = [paid EXCEPT ![worker[w].on] = @ + 1]
  /\ Goes(w, "persist") \/ ("provider" \in Faults /\ Goes(w, "quarantine"))
  /\ UNCHANGED <<world, records, budget>>

\* recordProductionProviderOperation: whatever the outbox record was, it is
\* pending again, and the lease lasts until the next poll.
CanPersist(w) ==
  LET k == claim[worker[w].on] IN
  Owner(w) /\ (k.state \in {"submitting", "waiting"} \/ (k.state = "claimed" /\ k.id))

RecordProvider(w) ==
  /\ CanPersist(w)
  /\ claim' = [claim EXCEPT ![worker[w].on].state = "waiting", ![worker[w].on].id = TRUE,
                            ![worker[w].on].live = TRUE]
  /\ outbox' = [outbox EXCEPT ![worker[w].on] = "open"]

PersistProvider(w) ==
  /\ At(w, "persist")
  /\ \/ /\ RecordProvider(w)
        /\ worker' = [worker EXCEPT ![w].id = TRUE, ![w].pc =
             IF Kind[worker[w].on.op] = "nova_reel" THEN "poll" ELSE "store"]
     \/ RecordProvider(w) /\ "web" \in Faults /\ Goes(w, "quarantine")
     \/ (~CanPersist(w) \/ "web" \in Faults) /\ UNCHANGED records /\ Goes(w, "quarantine")
  /\ UNCHANGED <<world, paid, budget>>

\* The video is ready, has failed, or is left for the next poll; a transient
\* error of the provider leaves it too.
PollProvider(w) ==
  /\ At(w, "poll")
  /\ \/ Goes(w, "store") /\ UNCHANGED <<records, queue>>
     \/ "provider" \in Faults /\ Goes(w, "quarantine") /\ UNCHANGED <<records, queue>>
     \/ worker[w].token < MaxAttempt /\ RecordProvider(w) /\ Released(w, TRUE)
     \/ ~CanPersist(w) /\ UNCHANGED records /\ Released(w, FALSE)
  /\ UNCHANGED <<plan, expired, late, paid, budget, call>>

\* upload_production_artifact; its failure is taken for the operation's.
StoreArtifact(w) ==
  /\ At(w, "store")
  /\ \/ Complete(w) /\ (Goes(w, "usage") \/ ("web" \in Faults /\ Goes(w, "quarantine")))
     \/ (~CanComplete(w) \/ "web" \in Faults) /\ UNCHANGED records /\ Goes(w, "quarantine")
  /\ UNCHANGED <<world, paid, budget>>

\* Best effort: the usage may be lost, or find the reservation settled.
ReportUsage(w) ==
  /\ At(w, "usage")
  /\ \/ FinalizeUsage(worker[w].on)
     \/ reservation[worker[w].on] # "reserved" /\ UNCHANGED budget
     \/ "web" \in Faults /\ UNCHANGED budget
  /\ Released(w, TRUE)
  /\ UNCHANGED <<plan, expired, records, late, paid, call>>

\* An error after the call: the claim is closed, failed when the provider's
\* identity is known and uncertain when it is not, if the request gets through.
Quarantine(w) ==
  /\ At(w, "quarantine")
  /\ \/ RecordFailure(w, IF worker[w].id THEN "failed" ELSE "uncertain")
     \/ (~CanFail(w) \/ ("web" \in Faults /\ worker[w].token < MaxAttempt))
        /\ UNCHANGED records
  /\ Goes(w, "settle")
  /\ UNCHANGED <<world, paid, budget>>

Settle(w) ==
  /\ At(w, "settle")
  /\ ResolveUncertain(worker[w].on) \/ ("web" \in Faults /\ UNCHANGED budget)
  /\ Released(w, FALSE)
  /\ UNCHANGED <<plan, expired, records, late, paid, call>>

PaidStep(w) ==
  \/ AuthorizeBudget(w) \/ ReserveBudget(w) \/ ReserveFails(w) \/ ReserveTimesOut(w)
  \/ StartSubmission(w) \/ StartFails(w)
  \/ Refuse(w) \/ Release(w) \/ CallProvider(w) \/ PersistProvider(w) \/ PollProvider(w)
  \/ StoreArtifact(w) \/ ReportUsage(w) \/ Quarantine(w) \/ Settle(w)

WorkerStep(w) ==
  \/ \E c \in Wake : AckWake(w, c) \/ Quarantined(w, c) \/ ClaimOperation(w, c)
  \/ MakeInternal(w) \/ FailInternal(w) \/ PaidStep(w)

\* A model call of a stage handler draws on the same budget.
MeteredCall ==
  /\ \E s \in Calls : CallStep(s)
  /\ UNCHANGED <<plan, expired, claim, outbox, queue, worker, late, paid>>

Next ==
  \/ OperatorStep \/ MeteredCall
  \/ \E w \in Workers : WorkerStep(w) \/ Crash(w)
  \/ \E c \in Wake : Dispatch(c) \/ Expire(c) \/ DropWake(c)
  \/ \E c \in PaidWake : LateReserve(c)

Spec == Init /\ [][Next]_vars

----------------------------------------------------------------------------
(* What must hold.                                                          *)

\* The submission of c lies behind it.
Submitted(c) ==
  claim[c].state \in {"submitting", "waiting", "succeeded", "failed", "uncertain"}
    \/ claim[c].id

\* The inductive invariant: only a claim that was never submitted can be
\* submitted, its claimant is the only worker about to call, nobody has called
\* before, and an identity is known only of a call that was made.
PlanInv ==
  /\ \A c \in PaidWake :
       /\ claim[c].state = "absent" => claim[c] = NoClaim
       /\ paid[c] > 0 => Submitted(c)
       /\ paid[c] <= 1
  /\ \A w \in Workers :
       LET c == worker[w].on IN
       /\ ~At(w, "idle") => 1 <= worker[w].token /\ worker[w].token <= claim[c].attempt
       /\ ~At(w, "idle") /\ ~At(w, "make") => c \in PaidWake
       /\ At(w, "start") /\ Owner(w) => ~claim[c].id
       /\ At(w, "call") => Submitted(c) /\ paid[c] = 0
       /\ \A v \in Workers :
            At(w, "call") /\ At(v, "call") /\ worker[v].on = c => v = w

\* The provider is asked at most once for every sealed paid operation, however
\* often its wake is delivered, its worker dies or its lease runs out.
PaidOnce == \A c \in PaidWake : paid[c] <= 1

\* While a worker is about to call a provider the money for the call is set
\* aside: no refusal, takeover or late resolution of an earlier claimant gives
\* it back under the caller.
CallIsCovered ==
  \A w \in Workers : At(w, "call") => reservation[worker[w].on] \in Open

\* An operation of the approved revision whose dependencies are done and that
\* is not over has an outbox record that will be published again, so that a
\* lost wake or a dead worker cannot strand the plan.
TriggerNotLost ==
  \A o \in Ops :
    LET c == Id(plan, o) IN
    Claimable(c) /\ claim[c].state \notin Final => outbox[c] = "open"

\* An operation that is over stays as it ended: no late answer of an earlier
\* claimant, redelivery or new revision reopens it or changes its outcome, and
\* its trigger is never published anew.
OverIsOver ==
  [][\A c \in Wake :
       claim[c].state \in Final =>
         /\ claim'[c] = claim[c]
         /\ outbox'[c] = "open" => outbox[c] = "open"]_vars

\* A worker that lost its claim to another changes neither the claim nor its
\* outbox record.
StaleClaimantChangesNothing ==
  [][\A w \in Workers :
       ~At(w, "idle") /\ ~Owner(w) /\ worker'[w] # worker[w] => UNCHANGED records]_vars

\* Every operation whose trigger is out ends, unless the plan is revised or
\* rerun or the mandate no longer covers it: dispatch, takeover of expired
\* leases and polling suffice.
OperationEnds ==
  \A o \in Ops :
    \A c \in {d \in Wake : d.op = o} :
      Claimable(c) /\ Affordable(c)
        ~> claim[c].state \in Final \/ ~Claimable(c) \/ ~Affordable(c)

\* Dispatchers, consumers and time keep going; operators and faults need not.
Fairness ==
  /\ \A c \in Wake :
       WF_vars(Dispatch(c)) /\ WF_vars(Expire(c))
  /\ \A w \in Workers :
       /\ WF_vars(MakeInternal(w) \/ FailInternal(w) \/ PaidStep(w))
       /\ \A c \in Wake : SF_vars(Quarantined(w, c) \/ ClaimOperation(w, c))
FairSpec == Spec /\ Fairness

----------------------------------------------------------------------------
(* What it implements.                                                      *)

StatusOf(c) ==
  IF claim[c].state \in Final THEN claim[c].state
  ELSE IF Submitted(c) THEN "submitted" ELSE "open"
MoneyOf(c) ==
  IF reservation[c] \in Open THEN "aside"
  ELSE IF reservation[c] = "finalized" THEN "spent"
  ELSE IF reservation[c] = "released" THEN "returned" ELSE "none"

PaidStatus == [c \in PaidWake |-> StatusOf(c)]
PaidMoney == [c \in PaidWake |-> MoneyOf(c)]
Asked == [c \in PaidWake |-> paid[c]]

Abstract == INSTANCE ProductionContract WITH
  Operations <- PaidWake, status <- PaidStatus, asked <- Asked, money <- PaidMoney

\* Workers, leases, redeliveries, revisions and the budget together do to an
\* operation that is paid for only what its contract allows: nothing is asked
\* for without the money, twice, or after a failure was recorded; money is
\* spent only on what succeeded and given back only for what failed.
ImplementsPlanContract == Abstract!Contract

============================================================================
