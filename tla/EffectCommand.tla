--------------------------- MODULE EffectCommand ---------------------------
(* The durable life of one job's external effects (posts, exports).         *)
(*                                                                          *)
(* Each effect is an aggregate of three records: the immutable command, the *)
(* effect claim that names the worker allowed to call the provider, and the *)
(* operation whose epoch and lease fence every later write.  Workers claim, *)
(* record the dispatch, call the provider, record what they observed and    *)
(* finalize a receipt; recovery turns expired work into unresolved work;    *)
(* operators resolve, pause, resume, cancel and steer.  Every transaction   *)
(* of the store is one action, so the interleavings are those of the        *)
(* transactions of concurrent processes.                                    *)
EXTENDS Integers, FiniteSets

CONSTANTS
  Commands,    \* the effect commands of the job
  Workers,     \* concurrent executions of execute_effect_command
  None,        \* no worker, no command
  Deps,        \* Deps[c]: the commands dependsOnCommandIds of c names
  DueAt,       \* DueAt[c]: executeAfter of c
  Lease,       \* CLAIM_LEASE_MS, in ticks
  MaxAttempts, \* maxAttempts of an effect operation (10 in the code)
  MaxRetries,  \* durable_recovery_max_retries (3 in the code)
  PageLimit,   \* the limit of one recovery scan (durable_recovery_limit)
  Results,     \* what a provider adapter may report, a subset of AllResults
  MaxTime,     \* bound: the last tick
  MaxEpoch     \* bound: the last control epoch an operator moves the job to

AllResults == {"applied", "failed", "raised", "not_started", "pending"}

ASSUME EffectAssumption ==
  /\ None \notin Commands /\ None \notin Workers
  /\ Deps \in [Commands -> SUBSET Commands]
  /\ DueAt \in [Commands -> Nat]
  /\ Lease \in Nat \ {0} /\ MaxAttempts \in Nat \ {0} /\ MaxRetries \in Nat
  /\ PageLimit \in Nat \ {0}
  /\ Results \subseteq AllResults
  /\ MaxTime \in Nat /\ MaxEpoch \in Nat

VARIABLES
  now,        \* the clock of the web tier
  job,        \* control state, control epoch and stage of the job
  action,     \* action[c]: the planned action command c executes
  cmd,        \* cmd[c]: the effect command record
  claim,      \* claim[c]: the effect claim record
  op,         \* op[c]: the operation record of the effect
  receipts,   \* receipts[c]: how many receipts the job holds for c
  worker,     \* worker[w]: where an execution stands in the executor
  recovery,   \* the recovery request in flight
  work,       \* recovery_work: the markers recovery has emitted
  performed   \* performed[c]: how often the provider really did the effect

records == <<action, cmd, claim, op, receipts>>
vars == <<now, job, records, worker, recovery, work, performed>>

----------------------------------------------------------------------------
CommandStates == {"prepared", "dispatched", "waiting_provider", "observed",
                  "applied", "failed", "unknown", "cancelled"}
ClaimStates == {"none", "claimed", "dispatched", "observed", "applied",
                "failed", "unknown"}
OperationStates == {"absent", "claimed", "waiting", "unknown", "succeeded",
                    "failed", "cancelled"}
Stages == {"draft", "publish", "verify"}  \* "draft": any stage before publish
WorkerSteps == {"idle", "dispatch", "call", "report", "finalize", "advance"}

Command == [state: CommandStates, epoch: Nat, attempt: Nat,
            outcome: {"none", "applied", "failed"}]
Claim == [state: ClaimStates, token: Workers \cup {None}, attempt: Nat,
          epoch: Nat, lease: Nat]
Operation == [state: OperationStates, epoch: Nat, attempt: Nat, lease: Nat]
Action == [state: {"planned", "executed", "failed", "skipped"},
           approval: {"approved", "pending", "rejected"}]
Job == [control: {"running", "paused", "cancelled"}, epoch: Nat,
        stage: Stages, status: {"running", "failed", "complete"}]
Worker == [pc: WorkerSteps, cmd: Commands \cup {None}, epoch: Nat, at: Nat,
           result: AllResults \cup {"none"}]
Marker == [kind: {"operation", "effect"}, cmd: Commands, attempt: Nat,
           action: {"reconcile_operation", "reconcile_effect",
                    "finalize_observed_effect", "operator_required"}]
Recovery == [pc: {"idle", "effects", "apply"}, at: Nat, plan: SUBSET Marker]

TypeOK ==
  /\ now \in Nat
  /\ job \in Job
  /\ action \in [Commands -> Action]
  /\ cmd \in [Commands -> Command]
  /\ claim \in [Commands -> Claim]
  /\ op \in [Commands -> Operation]
  /\ receipts \in [Commands -> Nat]
  /\ worker \in [Workers -> Worker]
  /\ recovery \in Recovery
  /\ work \in SUBSET Marker
  /\ performed \in [Commands -> Nat]

Idle == [pc |-> "idle", cmd |-> None, epoch |-> 0, at |-> 0, result |-> "none"]
NoRecovery == [pc |-> "idle", at |-> 0, plan |-> {}]

\* The job has reached publish: its actions are approved and their commands
\* materialized, all prepared, none claimed yet.
Init ==
  /\ now = 0
  /\ job = [control |-> "running", epoch |-> 0, stage |-> "publish", status |-> "running"]
  /\ action = [c \in Commands |-> [state |-> "planned", approval |-> "approved"]]
  /\ cmd = [c \in Commands |->
              [state |-> "prepared", epoch |-> 0, attempt |-> 0, outcome |-> "none"]]
  /\ claim = [c \in Commands |->
                [state |-> "none", token |-> None, attempt |-> 0, epoch |-> 0, lease |-> 0]]
  /\ op = [c \in Commands |->
             [state |-> "absent", epoch |-> 0, attempt |-> 0, lease |-> 0]]
  /\ receipts = [c \in Commands |-> 0]
  /\ worker = [w \in Workers |-> Idle]
  /\ recovery = NoRecovery
  /\ work = {}
  /\ performed = [c \in Commands |-> 0]

----------------------------------------------------------------------------
(* Claiming.                                                                *)

Expired(r) == r.lease <= now

\* A claim whose lease ran out while its command was still prepared never
\* reached the provider: the store treats it as failed.
SafeExpired(c) ==
  claim[c].state = "claimed" /\ Expired(claim[c]) /\ cmd[c].state = "prepared"

\* decideEffectClaim, on the claim claimCommandEffect passes it.
ClaimDecision(c) ==
  CASE claim[c].state \in {"none", "failed"}  -> "execute"
    [] claim[c].state = "applied"             -> "already_applied"
    [] claim[c].state = "unknown"             -> "uncertain"
    [] claim[c].state = "claimed" /\ Expired(claim[c]) -> "execute"
    [] claim[c].state \in {"dispatched", "observed"} /\ Expired(claim[c]) -> "uncertain"
    [] OTHER                                  -> "in_progress"

Bug_NoAttemptBudget(c) ==
  IF op[c].state \in {"unknown", "succeeded", "failed", "cancelled"} THEN op[c].state
  ELSE IF op[c].state # "claimed" \/ SafeExpired(c) THEN "execute"
  ELSE IF Expired(op[c]) THEN "unknown"
  ELSE "in_progress"

\* claimOperation, on the operation created, stored or released by a safe
\* expiry; an operation of policy "reconcile" whose lease ran out is unknown.
OperationDecision(c) ==
  IF op[c].state \in {"unknown", "succeeded", "failed", "cancelled"} THEN op[c].state
  ELSE IF op[c].state # "claimed" \/ SafeExpired(c)
       THEN IF op[c].attempt >= MaxAttempts THEN "failed" ELSE "execute"
  ELSE IF Expired(op[c]) THEN "unknown"
  ELSE "in_progress"

Bug_IgnoresDependencies(c) ==
  cmd[c].state \notin {"cancelled", "failed", "unknown"} /\ DueAt[c] <= now

\* What the store requires of the command before it looks at the claim.
Claimable(c) ==
  /\ \A d \in Deps[c] : cmd[d].state = "applied"
  /\ cmd[c].state \notin {"cancelled", "failed", "unknown"}
  /\ DueAt[c] <= now

Current(c) == action[c] = [state |-> "planned", approval |-> "approved"]

\* The outcome the caller is answered with; only "execute" writes anything.
ClaimOutcome(c) ==
  IF ClaimDecision(c) # "execute" THEN ClaimDecision(c)
  ELSE IF job.control # "running" THEN job.control
  ELSE IF OperationDecision(c) = "unknown" THEN "uncertain"
  ELSE OperationDecision(c)

\* claimCommandEffect.  Bound: no claim is made whose lease would outlast
\* MaxTime, so that every lease of a behaviour can expire.
ClaimEffect(w, c) ==
  /\ worker[w].pc = "idle"
  /\ Claimable(c) /\ Current(c)
  /\ ClaimOutcome(c) = "execute"
  /\ now + Lease <= MaxTime
  /\ claim' = [claim EXCEPT ![c] =
       [state |-> "claimed", token |-> w, attempt |-> @.attempt + 1,
        epoch |-> op[c].epoch + 1, lease |-> now + Lease]]
  /\ op' = [op EXCEPT ![c] =
       [state |-> "claimed", epoch |-> @.epoch + 1, attempt |-> @.attempt + 1,
        lease |-> now + Lease]]
  /\ worker' = [worker EXCEPT ![w] =
       [pc |-> "dispatch", cmd |-> c, epoch |-> op[c].epoch + 1, at |-> now,
        result |-> "none"]]
  /\ UNCHANGED <<now, job, action, cmd, receipts, recovery, work, performed>>

----------------------------------------------------------------------------
(* The fenced transitions of a claimed effect.  fence.now is read when the  *)
(* request arrives and reused when the transaction is retried, so it may be *)
(* any instant from worker[w].at to now: the lease check can pass exactly   *)
(* when the lease outlasts worker[w].at.                                    *)

Bug_FenceOnlyEpoch(w, c) == worker[w].cmd = c /\ op[c].epoch = worker[w].epoch

Fenced(w, c) ==
  /\ worker[w].cmd = c
  /\ op[c].state = "claimed"
  /\ op[c].epoch = worker[w].epoch
  /\ op[c].lease > worker[w].at

OwnsClaim(w, c) == claim[c].token = w /\ claim[c].epoch = worker[w].epoch

Released(o) == [o EXCEPT !.state = "waiting", !.lease = 0]
Bug_StillClaimed(o) == [o EXCEPT !.lease = 0]
Unresolved(o) == [o EXCEPT !.state = "unknown", !.lease = 0]
Quarantined(k) == [k EXCEPT !.state = "unknown"]
Reopened(k) == [k EXCEPT !.state = "prepared", !.epoch = 0, !.outcome = "none"]

MarkDispatched(w, c) ==
  /\ worker[w].pc = "dispatch" /\ Fenced(w, c) /\ OwnsClaim(w, c)
  /\ cmd[c].state \in {"prepared", "waiting_provider"}
  /\ claim[c].state = "claimed"
  /\ cmd' = [cmd EXCEPT ![c] = [@ EXCEPT !.state = "dispatched",
       !.epoch = worker[w].epoch, !.attempt = claim[c].attempt]]
  /\ claim' = [claim EXCEPT ![c].state = "dispatched"]
  /\ worker' = [worker EXCEPT ![w] = [@ EXCEPT !.pc = "call", !.at = 0]]
  /\ UNCHANGED <<now, job, action, op, receipts, recovery, work, performed>>

\* The adapter calls the provider.  A call that raises may or may not have
\* taken effect; one that was not started, was refused or is still pending
\* has not.
CallProvider(w, c) ==
  /\ worker[w].pc = "call" /\ worker[w].cmd = c
  /\ \E r \in Results :
       /\ worker' = [worker EXCEPT ![w] =
                       [@ EXCEPT !.pc = "report", !.at = now, !.result = r]]
       /\ \/ r \in {"applied", "raised"}
             /\ performed' = [performed EXCEPT ![c] = @ + 1]
          \/ r # "applied" /\ UNCHANGED performed
  /\ UNCHANGED <<now, job, records, recovery, work>>

\* Every report needs the dispatched command and the claim of this worker.
Reporting(w, c) ==
  /\ worker[w].pc = "report" /\ Fenced(w, c) /\ OwnsClaim(w, c)
  /\ cmd[c].state = "dispatched" /\ cmd[c].epoch = worker[w].epoch
  /\ claim[c].state = "dispatched"

MarkObserved(w, c) ==
  /\ Reporting(w, c)
  /\ worker[w].result \in {"applied", "failed"}
  /\ cmd' = [cmd EXCEPT ![c] =
       [@ EXCEPT !.state = "observed", !.outcome = worker[w].result]]
  /\ claim' = [claim EXCEPT ![c].state = "observed"]
  /\ worker' = [worker EXCEPT ![w] = [@ EXCEPT !.pc = "finalize", !.at = now]]
  /\ UNCHANGED <<now, job, action, op, receipts, recovery, work, performed>>

MarkUnknown(w, c) ==
  /\ Reporting(w, c)
  /\ worker[w].result = "raised"
  /\ cmd' = [cmd EXCEPT ![c] = Quarantined(@)]
  /\ claim' = [claim EXCEPT ![c].state = "unknown"]
  /\ op' = [op EXCEPT ![c] = Unresolved(@)]
  /\ worker' = [worker EXCEPT ![w] = Idle]
  /\ UNCHANGED <<now, job, action, receipts, recovery, work, performed>>

Bug_AnyErrorRestores(w, c) ==
  /\ Reporting(w, c)
  /\ worker[w].result \in {"not_started", "raised"}
  /\ cmd' = [cmd EXCEPT ![c] = Reopened(@)]
  /\ claim' = [claim EXCEPT ![c].state = "failed"]
  /\ op' = [op EXCEPT ![c] = Released(@)]
  /\ worker' = [worker EXCEPT ![w] = Idle]
  /\ UNCHANGED <<now, job, action, receipts, recovery, work, performed>>

RestorePrepared(w, c) ==
  /\ Reporting(w, c)
  /\ worker[w].result = "not_started"
  /\ cmd' = [cmd EXCEPT ![c] = Reopened(@)]
  /\ claim' = [claim EXCEPT ![c].state = "failed"]
  /\ op' = [op EXCEPT ![c] = Released(@)]
  /\ worker' = [worker EXCEPT ![w] = Idle]
  /\ UNCHANGED <<now, job, action, receipts, recovery, work, performed>>

MarkWaitingProvider(w, c) ==
  /\ Reporting(w, c)
  /\ worker[w].result = "pending"
  /\ cmd' = [cmd EXCEPT ![c].state = "waiting_provider"]
  /\ claim' = [claim EXCEPT ![c].state = "failed"]
  /\ op' = [op EXCEPT ![c] = Released(@)]
  /\ worker' = [worker EXCEPT ![w] = Idle]
  /\ UNCHANGED <<now, job, action, receipts, recovery, work, performed>>

\* finalizeCommandReceipt: receipt, action, command, claim and operation in
\* one transaction.
FinalizeReceipt(w, c) ==
  /\ worker[w].pc = "finalize" /\ Fenced(w, c)
  /\ cmd[c].state = "observed" /\ cmd[c].outcome # "none"
  /\ cmd[c].outcome = worker[w].result
  /\ claim[c].state \in {"claimed", "observed"} /\ claim[c].token = w
  /\ LET final == cmd[c].outcome IN
       /\ action' = [action EXCEPT ![c].state =
                       IF final = "applied" THEN "executed" ELSE "failed"]
       /\ cmd' = [cmd EXCEPT ![c].state = final]
       /\ claim' = [claim EXCEPT ![c].state = final]
       /\ op' = [op EXCEPT ![c] = [@ EXCEPT !.lease = 0,
                   !.state = IF final = "applied" THEN "succeeded" ELSE "failed"]]
  /\ receipts' = [receipts EXCEPT ![c] = @ + 1]
  /\ worker' = [worker EXCEPT ![w] = [@ EXCEPT !.pc = "advance", !.at = 0]]
  /\ UNCHANGED <<now, job, recovery, work, performed>>

\* The rest of the receipt request: when nothing is outstanding the job
\* leaves publish, whatever its control state has become.  The request that
\* found another stage when it began only answers, as in Abandon.
AdvanceStage(w) ==
  /\ worker[w].pc = "advance"
  /\ job' = IF job.stage = "publish" /\ \A c \in Commands : action[c].state # "planned"
            THEN [control |-> "running", epoch |-> job.epoch + 1,
                  stage |-> "verify", status |-> "running"]
            ELSE job
  /\ worker' = [worker EXCEPT ![w] = Idle]
  /\ UNCHANGED <<now, records, recovery, work, performed>>

\* The execution ends early: the process dies, a response is lost, or a
\* request is refused and the executor raises.  It never retries a request.
Abandon(w) ==
  /\ worker[w].pc # "idle"
  /\ worker' = [worker EXCEPT ![w] = Idle]
  /\ UNCHANGED <<now, job, records, recovery, work, performed>>

----------------------------------------------------------------------------
(* Recovery: one request scans the operations, then the commands, plans,    *)
(* and applies the plan in one transaction that looks at the records again. *)

Bug_MarkerPerCommand(kind, c, attempt, decided) ==
  [kind |-> kind, cmd |-> c, attempt |-> 0,
   action |-> IF attempt >= MaxRetries THEN "operator_required" ELSE decided]

Planned(kind, c, attempt, decided) ==
  [kind |-> kind, cmd |-> c, attempt |-> attempt,
   action |-> IF attempt >= MaxRetries THEN "operator_required" ELSE decided]

\* A query returns at most size of the records it selects.
IsPage(page, selected, size) ==
  /\ page \subseteq selected
  /\ \/ page = selected /\ Cardinality(page) <= size
     \/ Cardinality(page) = size

\* A page of claimed operations, of which those whose lease ran out are
\* candidates; an effect operation reconciles.
ScanOperations ==
  /\ recovery.pc = "idle"
  /\ \E page \in SUBSET {c \in Commands : op[c].state = "claimed"} :
       /\ IsPage(page, {c \in Commands : op[c].state = "claimed"}, PageLimit)
       /\ recovery' = [pc |-> "effects", at |-> now,
            plan |-> {Planned("operation", c, op[c].attempt, "reconcile_operation") :
                        c \in {d \in page : Expired(op[d])}}]
  /\ UNCHANGED <<now, job, records, worker, work, performed>>

\* A command observed or unknown, or dispatched under an operation that is
\* still claimed and had expired when the request began.
EffectDue(c) ==
  /\ cmd[c].epoch > 0
  /\ \/ cmd[c].state \in {"observed", "unknown"}
     \/ /\ cmd[c].state = "dispatched"
        /\ op[c].state = "claimed" /\ op[c].lease <= recovery.at

Unfinished == {c \in Commands : cmd[c].state \in {"dispatched", "observed", "unknown"}}

\* A page of unfinished commands, within what the operations left of the limit.
ScanEffects ==
  /\ recovery.pc = "effects"
  /\ \E page \in SUBSET Unfinished :
       /\ IsPage(page, Unfinished, PageLimit - Cardinality(recovery.plan))
       /\ recovery' = [recovery EXCEPT !.pc = "apply", !.plan = @ \cup
            {Planned("effect", c, cmd[c].attempt,
                     IF cmd[c].state = "observed" THEN "finalize_observed_effect"
                     ELSE "reconcile_effect") : c \in {d \in page : EffectDue(d)}}]
  /\ UNCHANGED <<now, job, records, worker, work, performed>>

\* A planned marker is emitted once, and not while the operation it names is
\* claimed under a lease that was live at the scan.
Emitted ==
  {m \in recovery.plan \ work :
     ~ /\ m.kind = "operation"
       /\ op[m.cmd].state = "claimed" /\ op[m.cmd].lease > recovery.at}

ApplyRecovery ==
  /\ recovery.pc = "apply"
  /\ op' = [c \in Commands |->
       IF op[c].state = "claimed" /\ \E m \in Emitted : m.kind = "operation" /\ m.cmd = c
       THEN Unresolved(op[c]) ELSE op[c]]
  /\ cmd' = [c \in Commands |->
       IF cmd[c].state = "dispatched"
          /\ \E m \in Emitted : m.action = "reconcile_effect" /\ m.cmd = c
       THEN Quarantined(cmd[c]) ELSE cmd[c]]
  /\ work' = work \cup Emitted
  /\ recovery' = NoRecovery
  /\ UNCHANGED <<now, job, action, claim, receipts, worker, performed>>

\* The request dies before its plan is applied.
DropRecovery ==
  /\ recovery.pc # "idle"
  /\ recovery' = NoRecovery
  /\ UNCHANGED <<now, job, records, worker, work, performed>>

----------------------------------------------------------------------------
(* The operator.  A resolution carries digest-verified evidence, so the two *)
(* choices that state a fact are taken only when it is one.                 *)

Bug_ClaimNotConsulted(c) ==
  op[c].state = "unknown" /\ cmd[c].state = "unknown" /\ cmd[c].epoch = op[c].epoch

Resolvable(c) ==
  /\ op[c].state = "unknown" /\ cmd[c].state = "unknown" /\ claim[c].state = "unknown"
  /\ cmd[c].epoch = op[c].epoch /\ claim[c].epoch = op[c].epoch

Resolve(c, toAction, toOp, toCmd, toClaim) ==
  /\ Resolvable(c)
  /\ action' = [action EXCEPT ![c].state = toAction]
  /\ op' = [op EXCEPT ![c].state = toOp]
  /\ cmd' = [cmd EXCEPT ![c] = IF toCmd = "prepared" THEN Reopened(@)
                               ELSE [@ EXCEPT !.state = toCmd]]
  /\ claim' = [claim EXCEPT ![c].state = toClaim]
  /\ UNCHANGED <<now, job, worker, recovery, work, performed>>

Bug_NoOperatorReceipt(c) ==
  /\ performed[c] > 0
  /\ Resolve(c, "executed", "succeeded", "applied", "applied")
  /\ UNCHANGED receipts

ConfirmApplied(c) ==
  /\ performed[c] > 0
  /\ Resolve(c, "executed", "succeeded", "applied", "applied")
  /\ receipts' = [receipts EXCEPT ![c] = @ + 1]

ConfirmNotApplied(c) ==
  /\ performed[c] = 0
  /\ Resolve(c, "planned", "waiting", "prepared", "failed")
  /\ UNCHANGED receipts

\* "compensate" opens an operator task and fails the action, "cancel" skips it.
GiveUp(c) ==
  /\ \E state \in {"failed", "skipped"} :
       Resolve(c, state, "cancelled", "cancelled", "failed")
  /\ UNCHANGED receipts

\* An operator command names the control epoch it was decided on, so it acts
\* on the job as it is or is refused.  Bound: MaxEpoch.
Controllable == job.status # "complete" /\ job.control # "cancelled" /\ job.epoch < MaxEpoch

Pause ==
  /\ Controllable /\ job.control # "paused"
  /\ job' = [job EXCEPT !.control = "paused", !.epoch = @ + 1]
  /\ UNCHANGED <<now, records, worker, recovery, work, performed>>

Resume ==
  /\ Controllable /\ job.control = "paused"
  /\ job' = [job EXCEPT !.control = "running", !.epoch = @ + 1, !.status = "running"]
  /\ UNCHANGED <<now, records, worker, recovery, work, performed>>

InFlight(c) ==
  \/ cmd[c].state \in {"dispatched", "observed", "unknown"}
  \/ claim[c].state \in {"claimed", "dispatched", "observed", "unknown"}

Bug_CancelsDispatched(k) ==
  IF k.state \in {"prepared", "dispatched"} THEN [k EXCEPT !.state = "cancelled"] ELSE k

Cancelled(k) == IF k.state = "prepared" THEN [k EXCEPT !.state = "cancelled"] ELSE k

Cancel ==
  /\ Controllable
  /\ cmd' = [c \in Commands |-> IF InFlight(c) THEN cmd[c] ELSE Cancelled(cmd[c])]
  /\ action' = [c \in Commands |->
       IF action[c].state = "planned" /\ ~InFlight(c)
       THEN [state |-> "skipped", approval |-> "rejected"] ELSE action[c]]
  /\ job' = [job EXCEPT !.control = "cancelled", !.epoch = @ + 1,
       !.status = IF \E c \in Commands : InFlight(c) THEN "failed" ELSE "complete"]
  /\ UNCHANGED <<now, claim, op, receipts, worker, recovery, work, performed>>

\* Steering withdraws approvals and prepared commands and requeues a stage.
Steer(stage, withdrawn) ==
  /\ job.epoch < MaxEpoch
  /\ job' = [control |-> "running", epoch |-> job.epoch + 1, stage |-> stage,
             status |-> "running"]
  /\ action' = [c \in Commands |->
       IF c \in withdrawn THEN [action[c] EXCEPT !.approval = "pending"] ELSE action[c]]
  /\ cmd' = [c \in Commands |-> Cancelled(cmd[c])]
  /\ UNCHANGED <<now, claim, op, receipts, worker, recovery, work, performed>>

ApplyNudge == Steer(job.stage, {c \in Commands : Current(c)})

RedoStage(target) ==
  /\ ~ /\ target \in {"draft", "publish"}
       /\ \E c \in Commands : action[c].state = "executed"
  /\ Steer(target, {c \in Commands : action[c].state = "planned"})

Tick ==
  /\ now < MaxTime
  /\ now' = now + 1
  /\ UNCHANGED <<job, records, worker, recovery, work, performed>>

----------------------------------------------------------------------------
WorkerStep(w) ==
  \/ \E c \in Commands :
       \/ ClaimEffect(w, c) \/ MarkDispatched(w, c) \/ CallProvider(w, c)
       \/ MarkObserved(w, c) \/ MarkUnknown(w, c) \/ RestorePrepared(w, c)
       \/ MarkWaitingProvider(w, c) \/ FinalizeReceipt(w, c)
  \/ AdvanceStage(w) \/ Abandon(w)

RecoveryStep == ScanOperations \/ ScanEffects \/ ApplyRecovery \/ DropRecovery

OperatorStep ==
  \/ \E c \in Commands : ConfirmApplied(c) \/ ConfirmNotApplied(c) \/ GiveUp(c)
  \/ Pause \/ Resume \/ Cancel \/ ApplyNudge
  \/ \E stage \in Stages : RedoStage(stage)

Next == (\E w \in Workers : WorkerStep(w)) \/ RecoveryStep \/ OperatorStep \/ Tick

Spec == Init /\ [][Next]_vars

----------------------------------------------------------------------------
(* Properties.                                                              *)

\* A worker stands between its dispatch and its report: it may be inside the
\* provider call.
Calling(w, c) == worker[w].cmd = c /\ worker[w].pc \in {"call", "report"}

\* The provider does each approved effect at most once, whatever workers
\* crash, leases expire, requests arrive late or operators decide.
EffectAtMostOnce == \A c \in Commands : performed[c] <= 1

\* A worker inside the provider call holds the only claim: the command is at
\* its epoch and neither finished, reopened nor withdrawn under it, and no
\* other worker is inside a call for the same command.
CallerOwnsEffect ==
  \A w \in Workers, c \in Commands : Calling(w, c) =>
    /\ claim[c].state = "dispatched" /\ OwnsClaim(w, c)
    /\ cmd[c].state \in {"dispatched", "unknown"} /\ cmd[c].epoch = worker[w].epoch
    /\ \A v \in Workers \ {w} : ~Calling(v, c)

\* Only an effect that was done is recorded as applied, with exactly one
\* receipt; one recorded as failed by the provider was not done; a command
\* that may be dispatched (again) has not been done and has no receipt.
RecordsAreTrue ==
  \A c \in Commands :
    /\ cmd[c].state = "applied" =>
         /\ performed[c] = 1 /\ receipts[c] = 1
         /\ op[c].state = "succeeded" /\ claim[c].state = "applied"
         /\ action[c].state = "executed"
    /\ cmd[c].state = "failed" => performed[c] = 0 /\ receipts[c] = 1
    /\ cmd[c].state \in {"prepared", "waiting_provider"} =>
         performed[c] = 0 /\ receipts[c] = 0

\* The claim and the operation are renewed together: same epoch, same attempt,
\* never more than the budget, and a live operation lease is the claim's.
ClaimAndOperationInStep ==
  \A c \in Commands :
    /\ claim[c].epoch = op[c].epoch /\ claim[c].attempt = op[c].attempt
    /\ op[c].attempt <= MaxAttempts
    /\ op[c].state = "claimed" => claim[c].lease = op[c].lease

\* A dependent effect is done only after every effect it depends on has been
\* recorded as applied.
DependenciesFirst ==
  \A c \in Commands : performed[c] > 0 => \A d \in Deps[c] : cmd[d].state = "applied"

\* A marker recovery emitted for an attempt never hides a later expiry that
\* still has to be quarantined: recovery is idempotent per attempt, not forever.
\* The marker of an effect whose retries are spent asks for an operator and
\* quarantines nothing, so it has nothing to hide.
MarkersNeverMask ==
  \A c \in Commands :
    /\ op[c].state = "claimed" =>
         Planned("operation", c, op[c].attempt, "reconcile_operation") \notin work
    /\ cmd[c].state = "dispatched" /\ cmd[c].attempt < MaxRetries =>
         Planned("effect", c, cmd[c].attempt, "reconcile_effect") \notin work

\* The strengthening that makes the three invariants above inductive: what
\* the claim says of the one worker that may call, what a worker and a record
\* know of the provider, and which records close together.
CallerHolds ==
  \A w \in Workers, c \in Commands : Calling(w, c) =>
    /\ claim[c].state = "dispatched" /\ OwnsClaim(w, c)
    /\ cmd[c].state \in {"dispatched", "unknown"} /\ cmd[c].epoch = worker[w].epoch

ClaimedIsPlanned ==
  \A c \in Commands :
    claim[c].state \in {"claimed", "dispatched", "observed", "unknown"} =>
      action[c].state = "planned"

WorkerKnows ==
  \A w \in Workers, c \in Commands : worker[w].cmd = c =>
    /\ worker[w].pc = "call" => performed[c] = 0
    /\ worker[w].pc = "report" /\ worker[w].result = "applied" => performed[c] = 1
    /\ worker[w].pc = "report" /\ worker[w].result \in {"failed", "not_started", "pending"} =>
         performed[c] = 0

RecordKnows ==
  \A c \in Commands :
    /\ performed[c] \in {0, 1}
    /\ cmd[c].state \in {"prepared", "waiting_provider", "failed"} => performed[c] = 0
    /\ cmd[c].state = "observed" /\ cmd[c].outcome = "applied" => performed[c] = 1
    /\ cmd[c].state = "observed" /\ cmd[c].outcome = "failed" => performed[c] = 0
    /\ cmd[c].state = "applied" => performed[c] = 1

IdleHoldsNothing == \A w \in Workers : worker[w].pc = "idle" => worker[w].cmd = None

ClosedTogether ==
  \A c \in Commands :
    /\ cmd[c].state \in {"applied", "failed"} => receipts[c] = 1
    /\ cmd[c].state \notin {"applied", "failed"} => receipts[c] = 0
    /\ cmd[c].state = "applied" =>
         /\ op[c].state = "succeeded" /\ claim[c].state = "applied"
         /\ action[c].state = "executed"

EffectInv ==
  /\ TypeOK /\ CallerHolds /\ ClaimedIsPlanned /\ WorkerKnows /\ RecordKnows
  /\ ClosedTogether /\ IdleHoldsNothing

\* A worker whose epoch is no longer the operation's, or whose operation has
\* been taken from it, changes no record when it wakes up.
StaleWorkerChangesNothing ==
  [][\A w \in Workers, c \in Commands :
       /\ worker[w].cmd = c /\ worker[w].pc # "advance"
       /\ op[c].state # "claimed" \/ op[c].epoch # worker[w].epoch
       /\ worker'[w] # worker[w]
       => UNCHANGED <<records, job>>]_vars

\* Once a command is cancelled, or its action is no longer planned, the
\* provider does not do it any more.
WithdrawnIsNeverDone ==
  [][\A c \in Commands :
       cmd[c].state = "cancelled" \/ action[c].state # "planned"
       => performed'[c] = performed[c]]_vars

\* What a command, its claim and its receipts finally say never changes, and
\* an epoch or an attempt never goes back.
FinalIsFinal ==
  [][\A c \in Commands :
       /\ cmd[c].state \in {"applied", "failed", "cancelled"} =>
            cmd'[c].state = cmd[c].state
       /\ action[c].state # "planned" => action'[c].state = action[c].state
       /\ receipts'[c] >= receipts[c] /\ op'[c].epoch >= op[c].epoch]_vars

----------------------------------------------------------------------------
(* Fairness: the executor runs to its next request and the web tier serves  *)
(* it; the durable tick runs recovery every minute to its end; time passes. *)
(* Nothing obliges a worker to claim, an operator to act, or a crash.       *)
Fairness ==
  /\ \A w \in Workers :
       /\ WF_vars(\E c \in Commands :
            \/ MarkDispatched(w, c) \/ CallProvider(w, c) \/ MarkObserved(w, c)
            \/ MarkUnknown(w, c) \/ RestorePrepared(w, c)
            \/ MarkWaitingProvider(w, c) \/ FinalizeReceipt(w, c))
       /\ WF_vars(AdvanceStage(w))
  /\ WF_vars(ScanOperations) /\ SF_vars(ScanEffects) /\ SF_vars(ApplyRecovery)
  /\ WF_vars(Tick)

FairSpec == Spec /\ Fairness

\* No operation stays owned for ever: it is finalized, released, or taken
\* from its owner by recovery.
OwnershipEnds ==
  \A c \in Commands : op[c].state = "claimed" ~> op[c].state # "claimed"

----------------------------------------------------------------------------
(* The contract the aggregate implements.                                   *)

StatusOf(state) ==
  CASE state \in {"prepared", "waiting_provider"}      -> "open"
    [] state \in {"dispatched", "observed", "unknown"} -> "taken"
    [] state = "applied"                               -> "done"
    [] state = "failed"                                -> "rejected"
    [] state = "cancelled"                             -> "withdrawn"

EffectStatus == [c \in Commands |-> StatusOf(cmd[c].state)]

Abstract == INSTANCE EffectContract WITH status <- EffectStatus

\* The aggregate, its workers, recovery and its operators together do only
\* what the contract of one effect allows.
ImplementsContract == Abstract!Contract

============================================================================
