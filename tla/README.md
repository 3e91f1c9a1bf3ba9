# Harmonia: models and proofs

TLA+ models of the durable core of Harmonia (`src/src/lib`, `src/agent/harmonia_agent`): a
web tier whose state lives in one DynamoDB table, and Python agents that do the slow work
and report back through internal HTTP routes. Every state change of the web tier is one
optimistic transaction (`DynamoRepository.atomic`), so a model's actions are transactions
and its interleavings are those of concurrent requests, workers, timers and operators.

## 1. Inventory

| Component | State it keeps | Operations | Talks to | Hard part | What makes it correct |
|---|---|---|---|---|---|
| Effect commands, claims, operations (`effectCommands`, `effectClaims`, `effectCommandStore`, `operations`, `effect_executor.py`) | per external effect: an immutable command with a state, a claim (owner, lease, attempt), an operation (epoch, lease, budget), receipts of the job | create, claim, mark dispatched / progress / observed / unknown / not started / pending, finalize a receipt | provider APIs, recovery, operators, job | a provider call cannot be undone or asked about; leases expire while the owner is only slow | done at most once; only one caller; records are true; a stale owner changes nothing |
| Recovery (`recovery`, `recoveryStore`, `durable_tick.py`) | recovery markers | scan operations, inbox, outbox, effects, artifacts, receipts; plan; apply | all durable records | scan and apply are different transactions; a page is limited; markers suppress repeats | nothing stays owned for ever; no later attempt is masked |
| Operator resolution (`operationResolution`) | resolution records, operator tasks | confirm applied / not applied, compensate, cancel | effect aggregate | five records at once; the worker may still be calling | only unresolved effects; never reopened under a caller |
| Job control (`operations/commands`, `operations/commandStore`) | control state and epoch, command receipts | pause, resume, cancel | effects, stage outbox | races with effects in flight | a withdrawn effect is never done |
| Steering (`steering/repository`) | nudges | propose, apply a nudge, redo a stage | effects, approvals, stage outbox | withdraws commands others may be claiming | as above; no redo across executed effects |
| Stage pipeline (`stageOutbox`, `stageOutboxDispatcher`, `eventInbox`, `eventInboxStore`, `stageExecutions`, `operationStore`, `main.py`, `sqs_transport.py`) | outbox records, inbox records, operations, stage executions, job stage | transition with outbox, publish, deliver, claim event, claim operation, claim stage, finalize, complete | SQS, recovery, jobs | at-least-once delivery, four claims in sequence, crashes between any two, redo and retry of a stage | a stage generation runs at most once at a time; a stage is never lost; the stage only advances along the pipeline |
| Budget (`repository` 1654-1805, `costReservations`, `costs`) | reservations, usage records, job and workspace budgets | reserve, finalize usage, resolve as not invoked or uncertain | stage handlers, production | concurrent reservations, a takeover between reservation and call, crash after it | running totals equal the open reservations; limits hold; no call without money set aside |
| Job retry (`repository` 1428-1552) | retry generation, outbox | retry a failed job | stage pipeline | refuses while anything is in flight | no second execution of a live stage |
| Drafting, approvals and materialization (`content-artifacts/handler`, `decisions`, `jobEffectCommands`, `scheduledEffects`) | the draft callback, actions, decisions, commands | claim, apply or reject a draft; decide, materialize | effects, steering, publish worker | two draft runs, two deciders and a nudge between any two of their writes | nothing is published without a current approval; decided actions stay; the gate is left decided |
| DynamoDB repository (`dynamo`) | revisions, partition fences, blob deletions | atomic, query, erase | every store | optimistic concurrency, unknown commit outcomes, erasure across partitions | serializability of what is read |
| Threads (`x_client.py`) | thread progress in the command | post item by item | provider, effect command | crash between two posts | each post once, in order |
| Production plans (`productionPlanStore`, `productionOutboxDispatcher`, `production_executor.py`) | plan revisions with a mandate, operation claims, outbox | propose, seal, approve, rerender; dispatch, claim, submit, poll, complete, fail | media providers, budget | a graph of paid and internal operations under leases; a provider that cannot be asked whether it was called | a paid operation is submitted once; a ready operation has a trigger; the books balance |
| Data plane (`dataPlane/*`, `data_consumer.py`) | batches, work items | create, dispatch, claim, finalize, reduce | SQS | fan-in with partial success, repeated creation | an ended batch says what its items are, and both stay so |
| Connection refresh (`connectionRefresh`, `repository` 700-880, `oauth`) | connection document with refresh and calendar claims | claim, refresh, complete, quarantine; provision a calendar; reconnect, disconnect | OAuth providers | a rotated token lost before it is stored; whole-document writes from an earlier read | a refresh token is used once; one calendar |
| Strategy authority (`strategy/repository`, `strategyApproval`, `learning/proposals`) | the active strategy revision, proposals of jobs and of learning with their decisions | propose, decide on the dashboard or by confirmation, propose and supersede a change | planning, jobs, confirmations | a promotion must find the revision its proposal was made against; two ways to decide | one decision per proposal, against the revision it saw |
| Pending operations (`pendingOperations`, `chat/operations/[id]/decision`) | confirmations: a decision, an owner, a lease | create, claim, act, finalize or fail | strategy authority, approvals, production plans | claim, decision and finalization are transactions of their own; a second request takes an expired lease over | a confirmation says what happened |
| Editorial planning (`planning/commands`, `planning/dispositions`, `planning/selection`, `planning/executionAuthority`, `campaigns/editorial`) | plan revisions naming item revisions, an item's state, planning reviews, the job of an item | accept a plan, intake, add, move; propose, decline and accept reviews; claim, reconcile, retry | strategy promotions, jobs, the scheduler | immutable revisions of plan and items change under the scheduler and late failures | an item has one execution; prerequisites stay reachable; a job's plan and strategy agree |
| Tick claims, resident autonomy | tick leases, agenda, heartbeats | claim a tick, run the arms | all of the above | overlapping ticks | one tick at a time |
| Agents, chat, Telegram, UI, learning | conversation and learning records | language-model work, presentation | jobs | little concurrency of their own | not modelled |

`PROJECT.json` lists the same components with their status, and the hazards of the code
with the line where each bites and the property that would catch it.

## 2. What is modelled

### EffectCommand

One job at the publish stage and its external effects. State and code:

| Variable | Code |
|---|---|
| `cmd` | the `effect_commands` records: state, `operationEpoch`, `dispatchAttempt`, observed outcome |
| `claim` | the `claims/effect` record below each command: state, claim token, attempt, operation epoch, lease |
| `op` | the `operations` record `job:<job>:effect:<command>`: state, epoch, attempt, lease |
| `action`, `job` | the planned action (state, approval) and the job (control state, control epoch, stage, status) |
| `receipts` | how many receipts the job holds for the command |
| `worker` | where an execution of `execute_effect_command` stands, with its token, epoch and the instant its current request may have arrived |
| `recovery`, `work` | a recovery request between its scans and its application; the emitted markers |
| `performed` | a history variable: how often the provider really did the effect |
| `now` | the clock of the web tier |

Actions are the transactions: `ClaimEffect`; `MarkDispatched`, `MarkObserved`,
`MarkUnknown`, `RestorePrepared`, `MarkWaitingProvider` (the phases of
`transitionCommandEffect`); `FinalizeReceipt` and `AdvanceStage` (the receipt route);
`ScanOperations`, `ScanEffects`, `ApplyRecovery` (one recovery request); `ConfirmApplied`,
`ConfirmNotApplied`, `GiveUp` (compensate and cancel); `Pause`, `Resume`, `Cancel`;
`ApplyNudge`, `RedoStage`. `CallProvider` is the provider's own step, `Abandon` and
`DropRecovery` are a process that dies, a response that is lost or a request that is
refused, `Tick` is the clock.

Decisions taken in the model:

* A lease is compared with `fence.now`, read when the request arrives and kept when the
  transaction is retried, so a late transaction can pass the check after the lease ran
  out. `worker[w].at` is the earliest instant the current request may have arrived.
* The claim token is the worker: an execution draws one random token and makes one claim.
  The epoch tells two executions of the same worker apart.
* A call that raises may or may not have happened. A result that is applied happened; one
  that failed, was rejected, was not started or is pending did not. That is what an
  adapter promises, not something this code can ensure. No adapter of the repository
  reports a pending operation today; the store and the dispatch route accept it.
* A resolution needs digest-verified evidence, so `confirm_applied` is taken only if the
  effect happened and `confirm_not_applied` only if it did not.
* `AdvanceStage` joins the read of the outstanding actions with the transition: an action
  that is no longer planned never becomes planned again. A receipt request that found the
  job in another stage when it began does not advance it; that is `Abandon`.
* `ScanEffects` reads a command and its operation in one step.
* The page of a recovery request is shared with stage operations, inbox and outbox
  records; the model has only effects and names the limit `PageLimit`.
* Thread progress, the wording of reasons, digests, tenants and the records that only
  document (events, operator tasks, resolution records) are left out. The stage outbox
  record that resume and steering also write is in `StagePipeline`.
* A withdrawn command stays withdrawn: a new approval makes a command of another identity,
  which is not in this module.

### EffectContract

What the aggregate promises for each effect without claims, leases, epochs or recovery:
open, taken, done, rejected or withdrawn; performed only while taken and once; given back
only if it was not performed; closed truthfully. `EffectCommand` implements it under
`status[c] <- StatusOf(cmd[c].state)` with the same `performed`.

### StagePipeline

How one job moves through its stages. Every transition, steering, resume or retry raises the
job's control epoch and writes, in the same transaction, the trigger of a new generation. A
generation `g` is a control epoch, and names its outbox record, its event, its operation and
its execution, as `stageOutboxId` and `operationIdForStageGeneration` do.

| Variable | Code |
|---|---|
| `job` | stage, status, control state, control epoch and recorded failure of the job |
| `outbox[g]` | the stage outbox record: state, stage, attempt, publish attempts (which name the claim), lease |
| `pubs` | the runs of `dispatchStageOutboxRecord` between their claim and their finalization |
| `queue` | the messages of the stage queue; `left` is what the redrive policy still allows, 0 is the dead-letter queue |
| `inbox[g]` | the event inbox record: state, delivery attempts, claim token |
| `op[g]` | the operation `stage`/`verification` of the trigger: state and epoch (its attempt) |
| `exec[g]` | the stage execution |
| `worker[w]` | where a consumer stands in `_process_stage_event` and `dispatch`, with its event token, operation epoch and result |
| `live` | the five-minute leases of events, operations and executions still running, oldest first |
| `plan`, `work` | a recovery pass between scan and application; the emitted markers |
| `runs[g]` | a history variable: how often a handler was started |

Actions. The dispatcher: `ClaimOutbox`, `Send`, `FinalizePublish`, `ReleaseOutbox`. The
consumer, call by call: `Receive`, `ClaimEvent` (which creates the operation), `ClaimOperation`,
`Admit` (control state, then the handler lookup), `ClaimStage`, `Run` and `Apply` (the first
read and the last transaction of the handler's routes), `Finalize`, or `Raise`, `PostFailure` or
`SkipReport`, `Settle`; then `CompleteEvent` and `Acknowledge`; `Throw` where a claim or a
completion is refused; `Crash` anywhere. Recovery: `Scan`, `ApplyRecovery`. Operators: `Pause`,
`Resume`, `Cancel`, `ApplyNudge`, `RedoStage`, `RetryJob`, `ResolveDecision`. Time: `Expire`,
`ExpireOutbox`.

Decisions taken in the model:

* The stages before `draft` are not in `Stages`: each ends in the same
  `transitionStageWithOutbox`, and adds nothing that `verify` does not have.
* What a handler writes on the way is left out; `Apply` is the transaction that moves the job.
  The production callback of `draft` and its own lease are part of it.
* The three five-minute leases of a generation run out in the order they were taken, so a
  sequence stands for the clock. The one-minute lease of the dispatcher is a flag of its record.
* A message may be received while a consumer holds it: visibility is renewed every 45 seconds
  and lapses when the process or its renewal fails. A dead publisher takes no further step.
* The route that finalizes an execution checks the fence just before its transaction; joining
  the two changes no outcome, since nothing in between writes what the transaction reads.
* A redo is refused for a job with executed actions and a permanent retry needs an
  authorization; the model's job has no executed action and every retry is authorized.
* Recovery runs one pass at a time; the model's pages hold all there is. The effects, artifacts
  and receipts of a pass are elsewhere (`EffectCommand`) or not modelled. A marker that finds
  its record no longer claimed is still recorded, as in the code.

### JobBudget

The money of the jobs of a workspace. A `Spend` is the operation id money is reserved under: a
paid production operation, or a model call of a stage handler (`Calls`).

| Variable | Code |
|---|---|
| `reservation[s]` | the `cost_reservations` record; `rejected` is one stored with `accepted: false` |
| `reserved[a]`, `observed[a]` | `reservedUsd` and `observedUsd` of a job's or of the workspace's budget |
| `usage[s]` | the cost in the usage record |
| `call[s]` | where `_run_coordinator` stands with its model call |

`Reserve`, `FinalizeUsage`, `ResolveUncertain` and `ResolveNotInvoked` are the four
transactions, used by both kinds of spend; `CallReserve`, `CallInvoke`, `CallReport`,
`CallFail`, `CallCrash` are a model call. Money is in whole units of one price. A media call
reports its sealed price; a model call reports at most what it reserved, which the code
assumes (the estimate is a quarter of the prompt's length plus the most the answer may have)
and nothing enforces: a call that reports more overdraws, and `WithinLimits` says nothing of it.

### ProductionPlan

Extends `JobBudget`. One plan: its operations, the revisions an operator approves, the queue
and the workers.

| Variable | Code |
|---|---|
| `plan`, `expired` | the plan aggregate: revision, state, render run, `reservedCostUsd`; whether its mandate is past `expiresAt` |
| `claim[c]` | the operation claim: state, attempt (which stands for the token), lease, whether a provider operation id is stored |
| `outbox[c]` | the production outbox record; `open` is pending, publishing or published, each due again when its time comes |
| `queue` | the wakes in the production queue |
| `worker[w]` | where `execute_production_operation` stands: its token, and what it remembers of the claim |
| `late` | the operations a reservation request is still being served for, though its worker gave up or died |
| `paid[c]` | a history variable: how often the provider was asked |

A claim, its outbox record and its wake share one identity `c`: revision, operation and, for
internal operations, the render run. Actions: `Propose`, `Seal`, `Approve`, `Reject`,
`Rerender`, `MandateExpires`; `Dispatch`; `AckWake`, `Quarantined` and `ClaimOperation` (the
three outcomes of the claim route that end a delivery or start work); `MakeInternal`,
`FailInternal`; the web requests of a paid operation (`AuthorizeBudget` to `Settle`, in
`PaidStep`); `LateReserve`; `Expire`, `Crash`, `DropWake`; `MeteredCall` for the model calls that
draw on the same budget. `Faults` chooses what may fail: a worker dies, a lease runs out under a slow one,
the answer of a web request is lost (after the request took effect, or before), the provider
fails, the operation cannot be done, the mandate expires, a wake is dead-lettered.

* The reservation route works in two steps. `AuthorizeBudget` reads plan, claim and mandate
  outside any transaction. `ReserveBudget` is the transaction that follows and reads none of them
  again, so the claim may be failed, taken over or superseded between the two. A worker that times
  out (`ReserveTimesOut`) or dies there leaves the request to `LateReserve`, which comes at any
  later time or never.
* The reads of an authorization are one step: each of its conditions, once false, stays false for
  that claimant. A request given up before its authorization is one authorized and then given up.
* The media, manifests, quotes and digests are left out; `Price` is the sealed quote.
* The provider branch of a poll is the choice between ready, failed and not yet.
* `MaxAttempt` bounds the claims: at the last one nothing is lost any more, so that no
  behaviour ends because the model ran out of attempts.

### ProductionContract

What a plan promises about each operation that is paid for, without claims, leases, outbox
records, workers or accounts: `status` (open, submitted, succeeded, failed, uncertain), `asked`
(how often its provider was asked) and `money` (none, aside, spent, returned). Money is set
aside before a submission; the provider is asked once, of what was submitted and with the money
aside; only what was asked for succeeds; money is spent only for a success and given back only
for a failure, and stays aside for what is in doubt. Two things in it are not what one would
write first. `SetAside` is possible for an operation that has failed: a request may outlive the
claimant that made it, and nothing gives that money back (section 6); it is not possible for one
that was submitted, whose money is aside from the start. `Ask` is possible after `uncertain`,
because a claimant that was slow to call is still about to call when its claim is given up by a
second claimant (`productionPlanStore.ts` 881-895), which cannot reach it; the money is still
aside then. `ProductionPlan` implements the contract under `PaidStatus` and `PaidMoney` (the
claim's state and identity, and the reservation's state) with `asked[c] <- paid[c]`.

### DynamoTransaction

The repository every aggregate commits through (`DynamoRepository.atomic`, `query`, the blob
storage and its erasure).

| Variable | Code |
|---|---|
| `row[k]` | the item: present, `revision`, whose value it is, whether the value is a blob in S3; `life` counts insertions and removals (history) |
| `fence[p]` | the revision of the partition fence |
| `stored[k]`, `tomb[k]` | the blob versions in S3, the erasure record |
| `tx[t]` | a call of `atomic`: its attempt, the work it does this time, what it has read, fenced and scanned |
| `applied[t]` | a history variable: how often its writes took effect |

Actions: `Begin`, `Read`, `TakeFence`, `Scan` (the reads, one by one), `Prepare` (what the
commit checks before it is sent), `Upload`, `Commit`, `CommitLost`, `Cancel`, and `Erase`
(`recoverBlobErasure`). The work is a plan from a small set and may be another one at every
attempt. A commit is one atomic step, which is what TransactWrite promises; its answer may be
lost. A scan shows its records one by one, each perhaps with a page of its own. A digest tells
one value from another, so `by`, the call that wrote it, stands for it.

### DataPlane

A data batch and its work items (`workItems.ts`, `repository.ts` and `fanIn.ts` of `dataPlane`,
the dispatch route, `data_consumer.py`).

| Variable | Code |
|---|---|
| `batch` | the batch's state; `incomplete` is `failureCode: initialization_incomplete` |
| `item[i]` | the work item: state, attempt, claim epoch, owner token, lease, dispatched within the visibility window |
| `claims[i]` | how many claims there were: the number stands for the random token |
| `create[c]` | a create call: the items it has yet to write |
| `queue`, `marking` | the messages; the items published and not yet marked |
| `worker[w]` | where a consumer stands |

Actions: `CreateBatch`, `WriteItem`, `CreateDone`, `CreateFails`; `Publish`, `MarkDispatched`,
`Lapse`; `Receive`, `ClaimNothing`, `DeadLetter`, `ClaimItem`, `Finalize`, `Refused`, `Crash`;
`Expire`, `DropMessage`. Nothing cancels an item or a batch in the code, so `cancelled` is left
out. A create call that dies before any other has finished the batch counts as over: it may be
repeated. `FanInIsTrue` excepts create calls that overlap with work (`Quiet`), at work or dead in
the middle: such a call writes items over that are claimed or done, which section 6 describes.

### ConnectionRefresh

One connection document with its two claims, the OAuth provider, the callers and an
administrator.

| Variable | Code |
|---|---|
| `conn` | the connection record: refresh token, near its expiry, refresh state, `calendarId`, provisioning claim |
| `provider` | whether it rotates refresh tokens; those issued, spent by a rotation, revoked |
| `calendars` | how many calendars were created |
| `claims` | claims made: the number stands for the claim's random id |
| `caller[c]`, `admin[a]` | where a request stands and the document it has in memory |
| `overwritten` | history: some whole-document write changed what the record said of the calendar |

A decoded document has no refresh state (`Decoded`), which is why a save that starts from one
clears the mark. `Revoke` is the provider's step of a disconnect. A lease may have run out at
any time: `ClaimExpired` needs no clock.

### DraftGate

From the drafted result through the approval gate to the published actions: the composition of
drafting, decisions, materialization, publishing and steering on the records they share.

| Variable | Code |
|---|---|
| `job` | the stage (`gate` is `awaiting_approval`), whether an item is in production, `artifactProductionDigest`, the callback claim |
| `actions` | `actions` of the job: approval and state, as a function on the ids it has |
| `item` | the stored editorial item state that `claimSelectedEditorialItem` looks at |
| `revisions`, `rejected` | artifact revision records; rejected digests |
| `decision[a]` | the approval record; `at` and `gate` (history) say when it was made |
| `command[a]` | the effect command, as far as its claims do not matter |
| `actor[x]` | where a draft run or a decision request stands, and what it has read |
| `publisher[p]` | where `run_publish` stands |
| `steers` | the nudges and redos so far |

Actions, in the order of the code: `Produce`, `Post`, `ClaimCallback`, `RejectCallback`,
`FinalizeDraft`, `RouteThrows` (the content-artifacts route), `ExpireCallback`, `Reconcile`;
`Decide` and `Look` (`resolveDecision`), `Collect`, `ReadActions`, `AddCommand`, `MoveOn`
(materialization and the transition, also used by a draft without gated actions);
`StartPublish`, `ClaimEffect`, `DispatchEffect`, `Receipt`, `PublishDone`; `Nudge` and `Redo`.

* An actor that dies simply takes no more steps; a repeated request is another actor.
* `PublishDone` and the last receipt move the job; the claims and attempts of an effect are in
  `EffectCommand`, the triggers that start a run in `StagePipeline`.
* An action's id is its kind and the digest of its result, so the same result yields the same
  actions. Content packs, whose command needs those of their parts, are left out.
* The reads of one materialization (`ReadActions`) are taken together; the inserts are not.

### StrategyAuthority

The approved strategy of a brand, and the two ways a proposal is decided: the dashboard, and a
confirmation in the chat, whose route claims the record, reads the proposal, decides it and
writes the confirmation's end, in four transactions.

| Variable | Code |
|---|---|
| `active` | the revision of the active-strategy pointer, 0 without one |
| `job[j]` | stage, attempt, proposal in force and pinned revision of a strategy job |
| `proposal[i]` | the strategy proposal of a job's attempt or of a learned change: the revision it was made against, its decision, whether its window is over |
| `change[c]` | the status of a learned change |
| `op[o]` | the pending operation: state, the proposal it is about, the decision first claimed, lease, expiry |
| `handler[h]` | where a request of the decision route stands |
| `scope` | a bound: what may happen in this behaviour |

Actions: `Propose`, `NudgeStrategy`, `RedoStrategy`, `AcceptPlan`; `ProposeChange`,
`SupersedeChange`, `DecideChange`; `DecideOnDashboard`; `Confirm`, `ClaimConfirmation`,
`ReadProposal`, `DecideConfirmed`, `FinalizeConfirmation`, `FailConfirmation`, `Abandon` (a
crash or a lost answer); `Expire`, `ConfirmationExpires`, `LeaseEnds`. `Outcome` is
`decideStrategyProposal` in the order of its checks: which check comes first decides whether a
request that comes late learns of its own decision.

* A decision of Telegram that is no confirmation takes the same path as the dashboard's.
* Outbox records written by the decision of a job are the triggers of `StagePipeline`.
* `scope` is chosen in `Init` and never changes. It exists so that TLC can afford each case;
  the theorems hold for every set of scopes, with everything happening in one behaviour.

### EditorialPlanning

Extends `StrategyAuthority`: a promotion reaches the plan in its own transaction.

| Variable | Code |
|---|---|
| `plan`, `planned[n]` | the plan pointer; the strategy and the item revisions of plan revision `n` |
| `item[r]` | the definition of an item revision: the plan revision and strategy it is made under, its prerequisites |
| `state[r]` | the one mutable record of an item revision: status, disposition, whether a job is bound, retry pending |
| `work[r]` | the job of the item, as far as planning looks at it |
| `review[v]` | a planning proposal, named as its id is: by target strategy, intake draft or replan request |

Actions: `AcceptEditorial`, `MaterializeIntake`, `AddDeliverable`; `Replan`; `StrategyActs` (which
contains `QueueDispositions` at a promotion), `ProposeReplacement`, `DeclineCalendar`, `Decline`,
`Accept`; `Claim`, `Reconcile`, `ApplyProduction`, `Retry`, and what a job does to what planning
reads of it: `ResumeStages`, `SaveLearnings`, `MarkFailed`, `CancelJob`.

* There is one plan. Calendar, assets, policy and grounding can only refuse: `conflict` and
  `admitted` are free. The base plan an intake pins is free too.
* "queued" stands for planned and blocked, which every guard treats alike.
* A review is answered only if the authority record it keeps of each guarded item is exact: any
  change of the job or the binding shows (`Touch`).
* An intake for an item that exists and brings no sources changes no planning record.
* In `StrategyAuthority` alone a plan may be accepted after every redo; here it needs that there
  is none.

## 3. Runs

| Run | Instance | What it shows |
|---|---|---|
| `safety` | one effect, two workers, all five provider results, lease of one tick, two attempts, the code's retry budget of three, three ticks, two control epochs, worker symmetry | all invariants and action properties, the inductive invariant of the proofs, and that the aggregate implements `EffectContract` |
| `chain` | two effects, the second scheduled and dependent on the first, two workers, recovery in pages of one, a retry budget of one, fair | a dependent effect waits; no operation stays owned for ever |
| `delivery` | the learn stage; one publication received up to twice by two workers; crashes, failing handlers, failing publications, expiring leases; two markers of recovery | everything about one generation: one start, one owner, records that close together, and the inductive invariant |
| `steering` | one worker, draft to the third generation, all operator actions, failing handlers | a running job has the trigger of its stage; an applied execution has moved the job |
| `live` | one worker, two publications received once each, crashes, failing publications, leases, recovery without limit, fair | a published trigger nobody took has a message; every trigger ends |
| `production` | a clip and the pack made of it, a model call on the same budget, two workers, every fault, requests that outlive their worker, two claims, a workspace limit that admits one of two spends, fair | the inductive invariant; the books balance and stay within the limits; the plan implements `ProductionContract`; a stale claimant changes nothing; every operation ends |
| `revision` | a song and its pack, two revisions, a second render, two workers, slow leases | a paid operation is submitted once; a ready operation keeps its trigger |
| `dynamo` | two records of one partition, three calls tried twice, seven kinds of work | the inductive invariant; blobs resolve; a commit takes effect on what its work saw |
| `data` | two items, two consumers, two create calls, two attempts, one item in flight, every fault | fan-in is true of the items |
| `connection` | two callers, an administrator, rotating and not, three tokens, two claims of each kind | a refresh token is used once; racing syncs create one calendar |
| `gate` | two draft runs with a first and a revised result, two decisions, a publisher, two gated kinds and an export, one nudge or redo, connected or not | only what is approved and not withdrawn is published; a late draft replaces nothing decided; the gate is left decided |
| `planning` | a strategy job, a learned change, a confirmation with two requests, two operators; a plan of two items, the second after the first, three plan and three strategy revisions; four scopes | a confirmation says what happened; an item has one execution; what an item depends on is current; the job of an item can be read |

The type invariants are proved (`Typing` and, in `ProductionProofs`, `DynamoProofs` and
`ConnectionProofs`, the typing lemmas); no run repeats them.

Bounds. `MaxTime` ends the clock; a claim is made only if its lease can still expire, so no
behaviour ends with a lease that time merely stopped short of, and with a lease of one tick
three ticks hold a claim, its expiry, a takeover or a recovery, and the expiry of that.
`MaxEpoch` bounds the operator's control commands (two are enough to pause and resume, or
to cancel and steer); transitions of the stage move the epoch without bound but happen at
most a few times. Two attempts let a claim be renewed once and the budget run out; with the
retry budget of the code recovery reconciles every attempt of `safety`, and with a budget
of one it leaves every attempt of `chain` to the operator. Properties
of one effect do not involve others, except through dependencies and recovery pages. `chain`
adds both, but there the second effect waits for the first, so a page of one always reaches the
operation that is owned: that a page hides one for ever is not what it could show. The runs of
`EffectCommand` check for deadlock: a recovery can always start.

`StagePipeline` has two kinds of parameters that are not in the code: `Faults` and `Operators`
choose what may happen in a run, so that each run can afford the case it is about, and
`MaxEpoch`, `MaxPublish` and `MaxMarkers` bound the generations, the publications of a trigger
and the recovery passes. The attempts, retries and receives are the code's parameters, at two
instead of three and five: one that fails and one that is the last. Generations meet only
through the job, so `delivery` and `live` need one and `steering` three; `steering` is without leases
and crashes, which do not touch the job. These runs
do not check for deadlock: a job that is complete, with an empty queue, really stops.

`ProductionPlan`: two claims of an operation are the first and the one that takes over, resumes
or polls; a third changes nothing that the second does not. Two revisions and two render runs
are needed only for late answers to a plan that has moved on, which `revision` has; the graph of
one edge is enough because an operation looks only at its own prerequisites. In `dynamo` three
calls are a reader that is overtaken twice (removal and insertion again), and two tries are one
retry. In `data` a claim, its takeover and a claim after a repeated creation make three. In
`connection` three tokens are an authorization, a rotation and a reconnect. In `gate` a second
draft run is the retry or the redelivery, a second decider the race, and one steering separates
before from after; `MaxSteers` bounds nothing else. There publishing always succeeds
(`Outcomes`), as a failed effect differs from an applied one only in the state it leaves the
action in. In `planning` two requests are the claimant and the one that takes its lease over, two
operators with a verdict each the same and another decision; three plan revisions are the first,
a change, and one made over a review that saw the first, and three strategy revisions let a
proposal be overtaken twice. The scopes keep apart cases that share no record: the chat about a
strategy others change; commands and failures; replacements; cancellations over a plan made under
an earlier strategy. None of these systems checks for deadlock: with its work done or its bounds used up
each of them really stops.

Fairness (`Fairness`). An execution goes on to its next request and the web tier serves it
(weak fairness on the reports of each worker, on the rest of its receipt request): the
executor is straight-line code. The durable tick runs recovery for every tenant each minute
(`scheduler.py` 30-53, `durable_tick.py` 63-67): weak fairness on starting a recovery,
strong fairness on its later steps because each may be interrupted by a crash but not for
ever. Time passes. Nothing obliges a worker to claim or an operator to act, and nothing
forbids a crash at any step.

In `StagePipeline` a lease runs out (`Expire`, `ExpireOutbox`); the tick publishes what is
claimable and runs recovery every minute (`durable_tick.py` 47-54 and 63-67: weak fairness on
`ClaimOutbox`, `Scan`, `ApplyRecovery`); a consumer goes on with its delivery or receives the
next one (weak fairness on `Progress`), and may crash at any step for all that. A publisher is
not fair: it may claim a trigger and die, and then recovery or the next tick claims it again.
Nothing is assumed of operators.

In `ProductionPlan` (`FairSpec`) the production outbox is dispatched by every tick (weak
fairness on `Dispatch`), a lease runs out (`Expire`), a worker goes on with its operation (weak
fairness on its own steps), and some worker takes up a wake that is there again and again
(strong fairness on `ClaimOperation` and `Quarantined`, since a wake comes and goes). Operators
and faults are not fair. The other new modules state no liveness: a connection left uncertain
waits for an administrator, a gate for an operator, and a batch whose last item is
dead-lettered at a claim is never reduced (section 6).

Every property of a passing run has a mutant of a mapped definition in `PROJECT.json`, the
kind of slip that code could contain (a fence that only looks at the epoch, a marker that
does not name its attempt, a claim not consulted, any error taken for not-started), under
which the same run fails.

## 4. What is proved

Each theorem holds for any values of the constants that satisfy the module's named assumption
(`EffectAssumption`, `PipelineAssumption`, `BudgetAssumption` and `PlanAssumption`,
`DynamoAssumption`, `DataAssumption`, `ConnectionAssumption`, `GateAssumption`,
`StrategyAssumption`, `PlanningAssumption` and `ReviewAssumption`): the constants are what their
names say, and nothing is assumed of the size of any of them, nor of the faults, except that a
job reserves money under finitely many operation ids (`BudgetAssumption`) and a batch has
finitely many items (`DataAssumption`).

| Module | Theorems |
|---|---|
| `EffectCommandProofs` | `Typing`: `TypeOK`; `Invariance`: `EffectInv`; `AtMostOnce`, `CallerOwns`, `RecordsTrue`, `InStep`, `Withdrawn`, `Final`, `StaleWorker`, `Dependencies`: `DependenciesFirst`; `Markers`: `MarkersNeverMask`; `Refinement`: `EffectCommand` implements `EffectContract` |
| `StagePipelineProofs` | `Typing`: `TypeOK`; `Invariance`: `StageInv`; `StartedOnce`, `SingleOwner`, `TriggerKept`, `ClosedTogether`, `AppliedMoved`, `TriggerOfStage`, `StaysClosed` |
| `ProductionProofs` | `TypingHolds`: `TypeOK`; `PlanInvHolds`: `PlanInv`; `LedgerBalancesHolds`: `LedgerBalances`; `PaidOnceHolds`, `CallIsCoveredHolds`, `TriggerNotLostHolds`, `WithinLimitsHolds`, `OverIsOverHolds`, `StaleClaimantHolds`; `ContractHolds`: `ProductionPlan` implements `ProductionContract` |
| `DynamoProofs` | `InvHolds`: `DynamoInv`; `BlobsAlwaysResolve`, `CommitsOnly` |
| `DataProofs` | `Typing`: `TypeOK`; `OneHolderHolds`: `OneHolder`; `FanInHolds`: `FanInIsTrue` |
| `ConnectionProofs` | `SpentOnceHolds`, `OneCalendarHolds` |
| `GateProofs` | `Typing`: `TypeOK`; `Published`, `DecidedKept`, `GateDecided` |
| `PlanningProofs` | `AuthorityImplemented`: `EditorialPlanning` implements `StrategyAuthority`; `Confirmations`: `ConfirmationInv`; `TruthfulConfirmations`; `Planning`: `PlanningInv`; `Typing`, `SingleExecution`, `ReachableDependencies`, `ResolvableJobs` |

The argument for `EffectCommand`, for any commands, workers, leases, dependencies and due
times. That an effect is done at most once is not inductive: whether `performed[c]`
may grow depends on what the worker about to call knows, and that depends on nobody else
being able to reopen the command while it calls. `EffectInv` says it in parts.
`CallerHolds`: a worker between dispatch and report holds the claim, dispatched, at its
epoch, and the command is dispatched at that epoch or unknown. `WorkerKnows`: a worker
about to call knows the effect was not done; one that reports applied knows it was; one
that reports anything but an exception or applied knows it was not. `RecordKnows`: a
prepared, waiting or failed command was not done, an applied or observed-applied one was.
`ClaimedIsPlanned`: an effect whose claim is live has an action still planned, so cancelling
and steering cannot have withdrawn it. `ClosedTogether`: a receipt exists exactly for
applied and failed commands. `IdleHoldsNothing`: an idle worker has no command.

The claim record carries the argument. Every way to reopen a command needs the claim to be
no longer dispatched, and only the claim's owner or a resolution that requires the claim to
be unknown moves it on from dispatched. A caller's claim is dispatched, so nothing is
reopened under it. Recovery changes the operation and the command but never the claim:
this is why an effect that recovery gave up cannot be resolved (section 6), and also what
makes recovery safe for a caller that is only slow. The proof follows the code: `QuietSteps` handles the actions that touch none of
the records, `ClaimWritten`, `DispatchWritten`, `FinalizeWritten` and `ResolveWritten` say
once what the main transactions write, and each part of the invariant has a lemma with a
step per action. `InStep` has an induction of its own.

`DependenciesFirst` does not look at the snapshot a claim was made from: a command is taken only
after its dependencies are applied (`TakenBy`), from then on until it is performed the
invariant has them applied (`DependenciesDone`), and applied is final. `MarkersNeverMask` needs that attempts only
grow (`AttemptsMove`, which the claim, the command and the operation share) and that a
marker names an attempt that has been reached: `MarkersBehind` says no marker is ahead of its
record, `MarkersSettled` that the one at the record's own attempt came with its quarantine, since
recovery emits both in one transaction. The proof showed that the property is false without its
premise on the retries: recovery marks an effect whose retries are spent and quarantines
nothing (section 6). The refinement maps each step to the
contract's step for the one command whose status it moves, to `Withdraw` for cancelling and
steering, or to a stutter.

The argument for `StagePipeline`, for any workers, faults, operators, attempts and bounds
(`PipelineAssumption`). `StageInv` has five parts. `InvGenerations`: nothing exists for a
generation that has not begun, so a new trigger starts from clean records. `InvExecution`: the
executions claimed are the handlers started, and a worker about to finalize has seen the job
move, which later steps can only move further. `InvOwners`: an operation hands out an epoch
once, so the fence, which compares epochs, admits one worker. `EventAndOperationTogether` is
inductive by itself, given that only an open event is claimed. The hard part is `InvTrigger`,
for `TriggerNotLost`: a publication may be finalized long after it was sent, its message may be
consumed, recovery may have put the record back to pending and another publisher may have
claimed it. A record is published only by the publisher whose claim it is at (`OwnsOutbox`), so
it is enough that the publication the record is at is `Covered`: its message is queued, or its
event is `Engaged`, past the point where the message matters. Consuming a message keeps that,
because a delivery past its event claim belongs to an event that is engaged, to a record that
is pending again, or to a publication the record has left behind; that is the last conjunct.
Requeueing by recovery keeps it because it resets the event and the trigger together. The frame
lemmas (`PubsFrame`, `QueueFrame`, ...) say which actions touch a variable, so that each part of
the invariant is proved for those actions only. `StageHasTrigger` and `ClosedStaysClosed` have
arguments of their own in the same module.

The argument for `ProductionPlan`, for any graph, prices, limits, revisions, workers and faults.
The invariant is in two halves. The books: `ClaimSound` ties a claim's state to its attempts, its
lease and its identity; `OutboxSound` ties an outbox record to the claims of its prerequisites,
from which `TriggerNotLost` follows and needs that a completion opens the records of everything
it makes ready, at a moment when nobody else can; `PaidSound` says that only a claim whose
submission has begun was paid for. The crew: `WorkerSound` says what a worker at each step may
rely on (its token is not newer than the claim's, and as long as it is the claim's, the state
it saw is the state that is), and `Alone` that two workers do not call for the same operation.
`PaidOnce` and `CallIsCovered` follow; a refusal releases money only after it has closed the
claim, which keeps the owner of the call and the releaser apart. `WithinLimits` follows
from what each of the four budget transactions does to the two totals.

The refinement (`ContractHolds`) maps a transaction on a claim to a step of the contract's
`status`, one of the budget to a step of its `money`, and the provider's to `Ask`; everything
the operator, the dispatcher and the queue do is a stutter (`ContractStep`). The invariant above
gives most of the guards: who releases money knows the claim failed, who reports usage that it
succeeded, who is about to call holds an open reservation. `Succeed` needs one more: `CallsMade`
says that a stored provider identity, and a worker that polls, stores or quarantines or asks for
the money of what it resumes, are of a call that was made. It is inductive relative to `Inv`
(`CallsStep`): an identity is stored only by such a worker, and a claim that resumes has one.
`SetAside` needs that a late request finds its operation open or failed, whoever else acted in
between. No fact about the request gives that: `late` is in the invariant by its type only
(`LateAlways`). It is a property of the contract, `MoneyFirst`: what was submitted, or more, has
had its money from the start. A reservation that exists is only replayed, so a late request
changes nothing for such an operation. `MoneyFirst` is proved along with the refinement from the
contract's own steps (`MoneyFirstStep`).

`LedgerBalances` compares the totals with a sum over a set that `MapThenSumSet` computes by
picking one element after another. The facts about such a sum (the order of picking does not
matter, a sum of zeros is zero, a sum changes by what one term changes by: `SumUnique`,
`SumExists`, `SumZero`, `SumChanges`) are inductions over finite sets. They are proved by
minimal counterexample: the subsets of a finite set for which a fact fails have a minimal
member, because strict inclusion is well founded on them (`WFMin` with
`FS_StrictSubsetOrderingWellFounded`), and taking one element out of it gives a contradiction.
`TotalMoves` says what one patch does to one account, `Booked` adds to the balance that only a
finalized reservation has usage, without which a reservation could overwrite usage, and
`BookedKept` goes through the four transactions.

The argument for `DynamoTransaction`. What a transaction holds is never ahead of the store
(`Behind`), and a fence that is still current means that no record of the partition has
changed since it was taken, because every write and every scan raises it; so the pages, however
many, show one state, and `CommitsOnWhatItSaw` follows from the conditions of the commit. A
blob named by a record is stored and not up for erasure: the guard on the erasure record is
part of the same conditional write, and an upload that finds it fails. `life` is in the
invariant because a revision starts over with a new life, which is also the one exception the
property makes.

The argument for `ConnectionRefresh`. A token that is spent is one a claimant sent, and the
claim is in the document until the claimant stores the new one, which is fresh; a claim that
ran out turns to uncertain and stays so until a new credential replaces it. For the calendar,
the claim's number is at most the count of claims, the holder of the live claim is the only
one that may create, and `calendars` is at most one unless a whole-document write has taken
the claim or the calendar away.

The argument for `DraftGate`. Whoever publishes holds a command that exists (`Queued`), and one
it has claimed and not yet dispatched is still approved (`Authorized`): a decided action loses
its approval or its place in the job only by steering, which cancels the prepared commands in
the same transaction, or by a draft, which needs the draft stage; the job reaches that stage
only by steering. The claim re-reads the approval, which is what makes commands inserted from
stale readings harmless. `DecidedStays` rests on `Decisions`: after a decision at the gate the
job is not in the draft stage until somebody steers. For `GateLeftDecided`, a request that
looked after the last steering may rely on `Gate`: nothing is pending, what it collected
contains all that is executable, and what it was to command is commanded or still on its list;
`AtTheGate` says that no step of another takes any of this away while the job is at the gate.

The argument for `StrategyAuthority`. `Underway` ties a request to the confirmation it claimed:
the first claim fixes the decision, so whoever takes the confirmation over brings the same one.
What a request is about to write is so (`RequestAnswered`), and what a confirmation says is so
(`ConfirmationAnswered`). For a recorded decision this is stable because a proposal is decided
once. For a failed approval it is `Hopeless` that is stable: the proposal was decided otherwise,
its window is over, the pointer has left its base, or the job proposes another. Nothing undoes
any of the four. The pointer only grows and no proposal was made against a revision to come
(`Approvals`), so a base once left is never active again; a job that has an approved
strategy proposes nothing more, so its approved proposal stays the one in force. That is what `Outcome` relies on when it
compares the proposal in force before it looks for a replay. `KeptStep` says that no
step breaks any of this; the rest of the proof is about the one request that moves.

The argument for `EditorialPlanning`. `Catalogue` orders the revisions: every revision a plan
ever made has a current one of the same item that is as new, so the successor of a
current revision is new, and a plan revision that is written leaves all earlier ones as they
were. `Executed` and uniqueness of the current revision give `OneExecution`; it is kept because
what a plan revision replaces is unclaimed. `DependenciesReachable` is kept because what is
replaced is closed under dependence (`AffectedClosed` for a move, the guard for a review).
`JobResolvable` is the hard one: the successors carry the strategy of the review, or of the item
they replace, and the plan revision carries one strategy for all. `UnderPlan` says that every
current item that is neither claimed nor cancelled is under the plan's strategy. A rebase keeps
it because its review, as long as it can be accepted, guards every idle item under another
strategy (`Guards`), and a plan revision or promotion in between makes it unacceptable; a
replacement keeps it because its items, which wait (`Waits`), were under the plan's strategy
already. Steps that make no revision are proved through `SameRevision`, which asks only that
nothing becomes idle; those that make one through `NextRevision`.

The argument for `DataPlane`. `FanInIsTrue` is inductive: while no create call writes, an ended
batch is the reduction of its items, so every item is over (`Settled`), and nothing claims,
dead-letters or finalizes an item that is over. The reduction sees nothing but states
(`SameReduction`), so no fact about counts or percentages is needed. A create call
leaves the batch pending, or failed and marked incomplete, or, if it dies, initializing. Beyond
what the run checks, `OneHolder`: of the consumers working on one item at most one passes the
fence of the finalization. The epoch alone would not ensure it, because a create call that writes
the item anew resets it; the token does (`TokensDrawn`, `TokensApart`).

Only model-checked: the liveness properties `OwnershipEnds`, `TriggerEnds` and `OperationEnds`
(liveness and ENABLED are beyond the prover).

## 5. What is not modelled

| Part | Why |
|---|---|
| Thread publishing | a loop over posts inside one provider call, its progress stored in the command; `EffectCommand` has the call as one step |
| Tick claims | one lease per tick; the models let any number of ticks overlap and rely on none |
| Resident autonomy, learning, intake and measurement records | validated single-record writes around language-model work, with no state machine shared with a job |
| Agents, prompts, chat, Telegram, user interface | language-model work and presentation: nothing beyond the components above keeps a state that steps of two actors could spoil |

Of the modelled components, what is left out: progress inside an effect, effects of scheduled
content items and the legacy claim path; artifact and receipt candidates of recovery; the
durable authorization of a permanent retry; cognitive operations (waiting and waking); content
packs and the learning records of an approval; the wire format and the change listeners of the
repository; the extraction behind a work item; the OAuth handshake before its callback. The
stages before `draft` end in the same transition as the others.

## 6. Where the code and its documentation disagree

Seen while modelling. No run shows a violation: the properties say what the code does ensure.

Effects and recovery:

* Recovery makes the command and the operation unknown and leaves the claim dispatched
  (`recoveryStore.ts` 224, 249); the resolution accepts only an aggregate that is unknown in all
  three (`operationResolution.ts` 82). So an effect whose worker died in the call cannot be
  resolved by an operator, although the documentation offers four choices. Making recovery
  write the claim as well is not enough: the mutant `Bug_ClaimNotConsulted` shows that a
  resolution that reopens an effect under a slow caller breaks `CallerOwnsEffect`.
* Nothing consumes the marker `finalize_observed_effect` that recovery leaves for an effect whose
  answer was stored and whose receipt was not.
* The transition to the next stage, a nudge and a redo set the control state to running whatever
  it was; "cancellation is irreversible for that job" (`docs/failure-recovery.mdx` 71).
* Recovery makes an expired effect operation unknown even when its command was never dispatched
  and the next claim would have taken it over (`tests/effectClaims.test.ts` 36 names that
  reclaim). For a dispatched effect whose attempts have reached `maxRetries` it asks for an
  operator (`recovery.ts` 94-96) and makes only the operation unknown, because the command is
  quarantined on `reconcile_effect` alone (`recoveryStore.ts` 248): the command stays dispatched.
  A dispatched command is due only while its operation is claimed, and a recovery page
  that had room for the operation alone leaves the command dispatched (`recoveryStore.ts` 101).

Stages:

* A stage claim looks at the job's stage and control state, not at its generation
  (`repository.ts` 1609): after a redo or a nudge of the same stage the message of the earlier
  generation still starts its handler.
* The routes that move the job at the end of a handler do not check the operation's fence; a
  worker whose operation was taken over still advances the stage. Finalizing the execution is
  fenced.
* A takeover that finds the execution claimed by the dead worker, its lease still running, skips
  the handler and completes the event as succeeded (`stages.py` 1219). The job waits in its stage
  with no trigger left.
* A transient failure is acknowledged and its event rejected; nothing is redelivered, the job
  stays running until a retry. A redelivery that finds its event in progress is acknowledged
  (`main.py` 297), so after the holder's death only recovery brings the trigger back.
* A trigger written by resume or steering carries the control epoch as its attempt, so later
  failures of it count as the last. A failure stays on a job that has moved on
  (`repository.ts` 2638), so a retry takes it back. Resume writes a trigger for a gate too, which
  has no handler (`commandStore.ts` 123). `saveLearnings` completes the job whatever became of it
  (`repository.ts` 2504).

Production and budget:

* A worker that resumes a submitted clip reserves again before it polls. If the mandate expired
  meanwhile the reservation is refused, and the executor resolves it as never invoked
  (`production_executor.py` 704-710): the money of a call that was made is given back.
  `authorizeProductionBudgetReservation` means to judge a submitted claim by the instant of its
  claim, which the takeover has just renewed (`productionPlanStore.ts` 996). "Unknown external
  outcomes require reconciliation" (`docs/models-cost-evaluation.mdx` 24).
* A reservation may be made for an operation that has failed. `authorizeProductionBudgetReservation`
  reads outside any transaction (`budget/reserve/route.ts` 11-19, `productionPlanStore.ts`
  959-997) and `reserveJobBudget` repeats none of it (`repository.ts` 1674). If the worker's request
  times out between the two (30 s, `web_client.py` 101), it fails the claim and resolves the
  reservation as never invoked, which throws "missing cost reservation" (`repository.ts` 1784) as
  there is none yet. The reservation then commits. Its money stays aside, for the job and for the
  workspace: no code looks at the reservation's `expiresAt`. `ProductionContract` allows
  exactly this, and the books still balance.
* The completion of `resolve_media` in a second render inserts the outbox records of what it
  makes ready; if that includes a paid operation, its record is already there and the completion
  throws for ever, though a rerender is to reuse the paid results (`docs/pipeline.mdx` 66).
* The submission route knows two of the three providers (`StartSubmission`), so an operation of
  the third, `nova_canvas`, always fails (`docs/pipeline.mdx` 82,
  `docs/platform/media/overview.mdx` 8).
* Storing a provider's operation id makes the outbox record pending whatever it was, so that of
  a superseded revision is published again; a claim of a superseded revision that was waiting is
  otherwise never polled again and its reservation stays open.
* Nothing holds a model call to its estimate: one that reports more overdraws the budget.

Repository (`dynamo.ts`):

* A record removed and inserted again starts at revision 1. A transaction that read the first
  life at revision 1 commits over the second: a lost update, despite "Atomic commits fence every
  read and queried partition" (`dynamo.ts` 3). `CommitsOnWhatItSaw` makes this exception.
* A transaction that writes nothing is never validated, so it may have seen two states.
* A blob uploaded before a commit that fails, after an erasure that had completed, stays; so does
  the blob of a large value that was replaced by a small one before the record's removal.

Data plane:

* Dead-lettering an item at a claim (`workItems.ts` 67-76) is stored without reducing the batch
  (`dataPlane/repository.ts` 77-80), so a batch whose last item ends that way stays running
  (`docs/operational-control-plane.mdx` 30).
* A create call that overlaps with work resets claimed and finished items and their epochs.
* The failure code `initialization_incomplete` survives a finalization.

Connections:

* Completing a refresh (`repository.ts` 764-779) and the OAuth callback write back the document
  they read earlier and lose a calendar or a provisioning claim written meanwhile: a second
  calendar, or a sync that is refused for ever. "A durable provisioning claim prevents
  concurrent first-sync requests from creating multiple calendars"
  (`docs/google-calendar.mdx` 59). `OneCalendar` makes this exception (`overwritten`).
* A disconnect reads, revokes and removes in three steps: a connection made in between is removed.

Drafting, approvals and publishing:

* A redo to draft looks only at actions already executed (`steering/repository.ts` 67): with a
  command dispatched and no receipt yet the redraft replaces the actions, and the receipt is
  refused ("effect command action not found", `effectCommandStore.ts` 378). An effect that
  happened is never recorded; "Redo refuses to cross executed external effects"
  (`docs/reference/api-routes.mdx` 60).
* The content-artifacts route is not fenced by the stage operation. Two runs with results of
  different revisions can both finalize while nothing is gated; the first's commands are left
  for actions that are gone, and `run_publish` stops on them each time.
* A callback digest that is set refuses another digest without looking at its lease
  (`repository.ts` 2061, against "under an owner-bound lease", 2052): a run that dies or throws
  between claim and finalization blocks the draft of any other result.
* A nudge at the gate rewinds to draft (`docs/reference/api-routes.mdx` 58), but the redraft's
  revision record exists already unless it is a revision pass, and its finalization throws; and
  `run_draft` raises if it starts before `reconcilePlannedExecution` has taken the item back from
  awaiting approval.
* A repeated post of the same result is answered `202 in_progress`, which `run_draft` takes for
  done. A crash between finalization and transition of a job without gated actions leaves it in
  draft, since the repetition does not move it.
* A decision record is never replaced, so an action that steering made pending again cannot be
  decided a second time; a command is named by its content, so materializing again finds the
  cancelled one.
* Two operators who decide the last two actions both materialize; each may fail on the other's
  insert and leave the job at the gate with nothing pending. So does a crash between the decision
  and the transition.
* A request that looked before a steering may move the gate it finds after it
  (`transitionStageWithOutbox` asks for the stage's name only): the exception `Outdated` of
  `GateLeftDecided`.
* A redo makes autonomous exports pending, after which their command cannot be built
  ("autonomous action policy state is invalid"). A nudge or redo at publish cancels the commands of
  planned actions, and the completion is refused from then on.
* A pending operation `decide_job_action` is recorded as decided before the decision is made: a
  crash between leaves the action undecided. A first handler that fails after another's takeover
  succeeded records the decision as failed (`pendingOperations.ts` 100).
* Cancelling or unscheduling a scheduled content item does not invalidate its prepared command,
  which is still published (`scheduledEffects.ts` 52-60, 79-105). No code path sets
  `publishMode` to auto, which `docs/approval-and-audit.mdx` 16 describes.

Strategy, confirmations and planning:

* A confirmation of a production plan whose lease was taken over can be recorded failed though the
  plan was approved by it: the second handler finds the plan approved and takes that for a
  refusal (`chat/operations/[id]/decision/route.ts` 70-73).
* A rejection can be recorded failed though it counted: the second request reads before the
  first's rejection, the job proposes a second attempt, and the second request is told that the
  proposal changed. `ConfirmationIsTruthful` therefore speaks of approvals when it speaks of
  `failed`.
* A nudge at the strategy gate sends the job back to strategize, where the id of the proposal
  exists already and the insert fails; only a redo that names the gate helps.
* `persistEditorialPlan` does not ask whether the strategy a job pins is still active.
* A move of an item under review overwrites its disposition, so the rebase review can no longer be
  answered; the item stays in requires_disposition after the calendar review is declined, until
  the next promotion.
* A calendar review that guards nothing can never be decided ("authority mismatch"), and one of a
  running item no longer once the job has changed; the disposition it leaves refuses retries until
  the next move.
* A permanent retry's authorization that another supersedes stays pending for ever.

## 7. Status of the plan

| Module | Composes | Abstract specification | Open |
|---|---|---|---|
| `EffectCommand` | | `EffectContract`, proved to be implemented | thread progress, scheduled content |
| `StagePipeline` | | stated as invariants | learn record, artifact and receipt candidates of recovery, repeated commands |
| `JobBudget`, `ProductionPlan` | `ProductionPlan` extends `JobBudget` | `ProductionContract`, proved to be implemented; the ledger (`LedgerBalances`) | the edit of a proposal |
| `DynamoTransaction` | | commits on what was seen | change listeners |
| `DataPlane` | | fan-in as a function of the items | artifacts of an item |
| `ConnectionRefresh` | | | the handshake before the callback |
| `DraftGate` | drafting, decisions, publishing, steering | | content packs, confirmations of actions |
| `StrategyAuthority`, `EditorialPlanning` | `EditorialPlanning` extends `StrategyAuthority` | stated as invariants | several plans, measurements |

Next, in this order: `ThreadPublish` (a thread posts each item once and in order across crashes
between two posts), confirmations as a second way to decide in `DraftGate`, and scheduled
content items as a second source of commands.
