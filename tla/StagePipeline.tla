---------------------------- MODULE StagePipeline ----------------------------
(* How one job moves through its stages.                                    *)
(*                                                                          *)
(* Every accepted transition, steering or retry raises the job's control    *)
(* epoch and writes, in the same transaction, a stage outbox record: the    *)
(* trigger of a new generation.  A dispatcher publishes the trigger to an   *)
(* at-least-once queue; a worker that receives it claims its inbox event,   *)
(* its operation and its stage execution, runs the handler, whose last call *)
(* moves the job on, and closes the three records.  Recovery releases what  *)
(* dead workers hold and operators steer the job all the while.  A record   *)
(* is identified by its generation, the control epoch that created it.      *)
(* Every transaction of the stores and every message is one action.         *)
EXTENDS Integers, Sequences, FiniteSets

CONSTANTS
  Workers,       \* concurrent consumers of the stage queue
  None,          \* no failure
  Start,         \* the stage the execution job is created in
  Operators,     \* the operator actions taken, a subset of AllOperators
  Faults,        \* the failures met, a subset of AllFaults
  MaxAttempts,   \* maxAttempts of a stage operation (3 in the code)
  MaxRetries,    \* max_retries of a recovery pass (3 in the code)
  MaxReceives,   \* maxReceiveCount of the stage queue (5 in the code)
  StageAttempts, \* MAX_STAGE_ATTEMPTS (3 in the code)
  MaxEpoch,      \* bound: the last generation
  MaxPublish,    \* bound: how often one trigger is claimed for publication
  MaxMarkers     \* bound: the recovery markers after which no pass is started

Stages == {"draft", "awaiting_approval", "publish", "verify", "learn", "complete"}
AllOperators == {"pause", "resume", "cancel", "nudge", "redo", "retry"}
\* A worker dies; its handler raises; a publication fails; a lease runs out.
AllFaults == {"crash", "raise", "publish", "expire"}

ASSUME PipelineAssumption ==
  /\ None \notin [stage: Stages, retryable: BOOLEAN]
  /\ Start \in Stages /\ Operators \subseteq AllOperators
  /\ Faults \subseteq AllFaults
  /\ MaxAttempts \in Nat \ {0} /\ MaxRetries \in Nat /\ MaxReceives \in Nat
  /\ StageAttempts \in Nat /\ MaxEpoch \in Nat
  /\ MaxPublish \in Nat /\ MaxMarkers \in Nat

VARIABLES
  job,     \* stage, status, control state, control epoch and failure of the job
  outbox,  \* outbox[g]: the stage outbox record of generation g
  pubs,    \* the publications in flight in the dispatchers
  queue,   \* the messages of the stage queue and its dead-letter queue
  inbox,   \* inbox[g]: the event inbox record of the trigger of g
  op,      \* op[g]: the operation record of g
  exec,    \* exec[g]: the state of the stage execution of g
  worker,  \* worker[w]: where consumer w stands with its message
  live,    \* the five-minute leases still running, oldest first
  plan,    \* the actions of the recovery pass in flight
  work,    \* recovery_work: the markers recovery has emitted
  runs     \* runs[g]: how often a handler was started for g

trigger == <<outbox, pubs, queue>>
claims == <<inbox, op, exec, live>>
vars == <<job, outbox, pubs, queue, inbox, op, exec, worker, live, plan, work, runs>>

----------------------------------------------------------------------------
Gens == 0..MaxEpoch
Handled == {"draft", "publish", "verify", "learn"}  \* the stages HANDLERS names

\* The stages a stage hands the job to; draft also reaches its gate.
NextStages == [s \in Stages |->
  CASE s = "draft"             -> {"publish"}
    [] s = "awaiting_approval" -> {"publish", "verify"}
    [] s = "publish"           -> {"verify"}
    [] s = "verify"            -> {"learn"}
    [] OTHER                   -> {}]

LeaseKinds == {"event", "operation", "stage"}
WorkerSteps == {"idle", "event", "operation", "admit", "stage", "run", "apply",
                "finalize", "report", "settle", "complete", "ack"}
\* uncertain and failed: a handler that raised a retryable or a permanent
\* failure; persisted: an earlier execution that did; unhandled: no handler.
Failures == {"uncertain", "failed", "persisted", "unhandled"}

Failure == [stage: Stages, retryable: BOOLEAN]
Job == [stage: Stages, status: {"running", "waiting_for_approval", "failed", "complete"},
        control: {"running", "paused", "cancelled"}, epoch: Gens,
        failure: Failure \cup {None}]
Outbox == [state: {"absent", "pending", "claimed", "published"}, stage: Stages,
           attempt: Nat, tries: Nat, live: BOOLEAN]
Publication == [gen: Gens, n: Nat, pc: {"send", "settle"}]
Message == [gen: Gens, pub: Nat, left: Nat]
Inbox == [state: {"absent", "accepted", "processing", "completed", "rejected"},
          tries: Nat, token: Nat]
Operation == [state: {"absent", "runnable", "claimed", "waiting", "unknown",
                      "succeeded", "failed"}, epoch: Nat]
Executions == {"none", "claimed", "applied", "failed", "uncertain"}
Worker == [pc: WorkerSteps, gen: Gens, pub: Nat, token: Nat, epoch: Nat,
           result: {"none", "applied", "skipped"} \cup Failures]
Lease == LeaseKinds \X Gens
Marker == [kind: {"operation", "event_inbox", "stage_outbox"}, gen: Gens, count: Nat,
           action: {"replay_operation", "requeue_event", "requeue_outbox",
                    "operator_required"}]

\* The type of every variable: each record keeps the shape its interface in
\* the source declares, no lease or marker refers to a generation unknown, and
\* an execution is settled only with a failure its handler raised.
TypeOK ==
  /\ job \in Job
  /\ outbox \in [Gens -> Outbox]
  /\ pubs \in SUBSET Publication
  /\ queue \in SUBSET Message
  /\ inbox \in [Gens -> Inbox]
  /\ op \in [Gens -> Operation]
  /\ exec \in [Gens -> Executions]
  /\ worker \in [Workers -> Worker]
  /\ live \in Seq(Lease)
  /\ plan \in SUBSET Marker
  /\ work \in SUBSET Marker
  /\ runs \in [Gens -> Nat]
  /\ \A w \in Workers :
       worker[w].pc = "settle" => worker[w].result \in {"uncertain", "failed"}

Idle == [pc |-> "idle", gen |-> 0, pub |-> 0, token |-> 0, epoch |-> 0, result |-> "none"]
Trigger(stage, attempt) ==
  [state |-> "pending", stage |-> stage, attempt |-> attempt, tries |-> 0, live |-> FALSE]
NoTrigger == [state |-> "absent", stage |-> "complete", attempt |-> 0, tries |-> 0,
              live |-> FALSE]

\* insertExecutionJob: the job and the trigger of generation 0.
Init ==
  /\ job = [stage |-> Start, status |-> "running", control |-> "running",
            epoch |-> 0, failure |-> None]
  /\ outbox = [g \in Gens |-> IF g = 0 THEN Trigger(Start, 0) ELSE NoTrigger]
  /\ pubs = {} /\ queue = {}
  /\ inbox = [g \in Gens |-> [state |-> "absent", tries |-> 0, token |-> 0]]
  /\ op = [g \in Gens |-> [state |-> "absent", epoch |-> 0]]
  /\ exec = [g \in Gens |-> "none"]
  /\ worker = [w \in Workers |-> Idle]
  /\ live = <<>>
  /\ plan = {} /\ work = {}
  /\ runs = [g \in Gens |-> 0]

----------------------------------------------------------------------------
(* Leases.  The three leases of a generation last equally long, so they run *)
(* out in the order they were taken; a record that closes gives its lease   *)
(* back.                                                                    *)

Live(kind, g) == \E i \in 1..Len(live) : live[i] = <<kind, g>>

Without(s, x) ==
  IF \E i \in 1..Len(s) : s[i] = x
  THEN LET i == CHOOSE i \in 1..Len(s) : s[i] = x
       IN  SubSeq(s, 1, i - 1) \o SubSeq(s, i + 1, Len(s))
  ELSE s

Taken(kind, g) == Append(live, <<kind, g>>)

\* Five minutes after it was taken the oldest lease runs out.
Expire ==
  /\ "expire" \in Faults
  /\ live # <<>>
  /\ live' = Tail(live)
  /\ UNCHANGED <<job, trigger, inbox, op, exec, worker, plan, work, runs>>

----------------------------------------------------------------------------
(* Transitions.                                                             *)

\* A mutation that raises the control epoch and writes the trigger of the
\* new generation in the same transaction.
Advance(j, attempt) ==
  /\ job.epoch < MaxEpoch
  /\ job' = [j EXCEPT !.epoch = job.epoch + 1]
  /\ outbox' = [outbox EXCEPT ![job.epoch + 1] = Trigger(j.stage, attempt)]

Bug_TransitionWithoutTrigger(from, to) ==
  /\ job.stage = from
  /\ job.epoch < MaxEpoch
  /\ job' = [job EXCEPT !.stage = to, !.status = "running", !.control = "running",
                        !.epoch = @ + 1]
  /\ UNCHANGED outbox

Bug_AnyCurrentTrigger(s) == outbox[job.epoch].state # "absent"

\* The job is in a stage, with the trigger of its current generation.
Reached(s) ==
  job.stage = s /\ outbox[job.epoch].state # "absent" /\ outbox[job.epoch].stage = s

\* transitionStageWithOutbox: a caller who finds the job already in the next
\* stage, with the trigger of the current generation, has succeeded before.
Transition(from, to) ==
  \/ /\ Reached(to)
     /\ UNCHANGED <<job, outbox>>
  \/ /\ job.stage = from
     /\ Advance([job EXCEPT !.stage = to, !.status = "running", !.control = "running"], 0)

----------------------------------------------------------------------------
(* The dispatcher: any number of web requests and ticks publish triggers.   *)

\* decideStageOutboxClaim: a pending trigger, or one whose publisher's
\* one-minute lease ran out.
Claimable(g) ==
  outbox[g].state = "pending" \/ (outbox[g].state = "claimed" /\ ~outbox[g].live)

ClaimOutbox(g) ==
  /\ Claimable(g)
  /\ outbox[g].tries < MaxPublish
  /\ LET n == outbox[g].tries + 1 IN
       /\ outbox' = [outbox EXCEPT ![g] = [@ EXCEPT !.state = "claimed", !.tries = n, !.live = TRUE]]
       /\ pubs' = pubs \cup {[gen |-> g, n |-> n, pc |-> "send"]}
  /\ UNCHANGED <<job, queue, claims, worker, plan, work, runs>>

\* sendQueueMessage; the publisher has the answer.
Send(p) ==
  /\ p.pc = "send"
  /\ queue' = queue \cup {[gen |-> p.gen, pub |-> p.n, left |-> MaxReceives]}
  /\ pubs' = (pubs \ {p}) \cup {[p EXCEPT !.pc = "settle"]}
  /\ UNCHANGED <<job, outbox, claims, worker, plan, work, runs>>

Bug_AnyPublisherOwns(p) == outbox[p.gen].state = "claimed"

\* The claim digest of the record is this publisher's.
OwnsOutbox(p) == outbox[p.gen].state = "claimed" /\ outbox[p.gen].tries = p.n

\* finalizeStageOutboxPublish leaves the lease running; without the claim it
\* throws, and releasing a claim that is not the publisher's changes nothing.
FinalizePublish(p) ==
  /\ p.pc = "settle"
  /\ outbox' = IF OwnsOutbox(p)
               THEN [outbox EXCEPT ![p.gen].state = "published"]
               ELSE outbox
  /\ pubs' = pubs \ {p}
  /\ UNCHANGED <<job, queue, claims, worker, plan, work, runs>>

\* The send failed, or its answer or the finalization was lost: releaseStageOutbox.
ReleaseOutbox(p) ==
  /\ "publish" \in Faults
  /\ outbox' = IF OwnsOutbox(p)
               THEN [outbox EXCEPT ![p.gen] = [@ EXCEPT !.state = "pending", !.live = FALSE]]
               ELSE outbox
  /\ pubs' = pubs \ {p}
  /\ UNCHANGED <<job, queue, claims, worker, plan, work, runs>>

\* A publisher that dies is one that takes no further step.
ExpireOutbox(g) ==
  /\ "expire" \in Faults
  /\ outbox[g].live
  /\ outbox' = [outbox EXCEPT ![g].live = FALSE]
  /\ UNCHANGED <<job, pubs, queue, claims, worker, plan, work, runs>>

DispatcherStep ==
  \/ \E g \in Gens : ClaimOutbox(g) \/ ExpireOutbox(g)
  \/ \E p \in pubs : Send(p) \/ FinalizePublish(p) \/ ReleaseOutbox(p)

----------------------------------------------------------------------------
(* The worker: one delivery from the queue to its acknowledgement.          *)

To(w, pc) == worker' = [worker EXCEPT ![w].pc = pc]
Ends(w, result) ==
  worker' = [worker EXCEPT ![w] = [@ EXCEPT !.pc = "complete", !.result = result]]
Fails(w, result) ==
  worker' = [worker EXCEPT ![w] = [@ EXCEPT !.pc = "report", !.result = result]]

\* A message may be delivered again while a worker still holds it: its
\* visibility lapses when the worker or its renewal task dies.
Receive(w, m) ==
  /\ worker[w].pc = "idle"
  /\ m.left > 0
  /\ queue' = (queue \ {m}) \cup {[m EXCEPT !.left = @ - 1]}
  /\ worker' = [worker EXCEPT ![w] = [Idle EXCEPT !.pc = "event", !.gen = m.gen, !.pub = m.pub]]
  /\ UNCHANGED <<job, outbox, pubs, claims, plan, work, runs>>

\* claimEventInbox answers execute.
EventFree(g) ==
  \/ inbox[g].state \in {"absent", "accepted"}
  \/ inbox[g].state = "processing" /\ ~Live("event", g)

\* DurableEventInboxStore.claim: the first delivery creates the operation too,
\* and a delivery that may not execute is counted and acknowledged.
ClaimEvent(w) ==
  LET g == worker[w].gen
      n == inbox[g].tries + 1
  IN  /\ worker[w].pc = "event"
      /\ op' = IF op[g].state = "absent" THEN [op EXCEPT ![g].state = "runnable"] ELSE op
      /\ \/ /\ EventFree(g)
            /\ inbox' = [inbox EXCEPT ![g] = [state |-> "processing", tries |-> n, token |-> n]]
            /\ live' = Taken("event", g)
            /\ worker' = [worker EXCEPT ![w] = [@ EXCEPT !.pc = "operation", !.token = n]]
         \/ /\ ~EventFree(g)
            /\ inbox' = [inbox EXCEPT ![g].tries = n]
            /\ To(w, "ack")
            /\ UNCHANGED live
      /\ UNCHANGED <<job, trigger, exec, plan, work, runs>>

\* claimOperation takes a new or released operation, or one whose lease ran out.
OperationFree(g) ==
  \/ op[g].state \in {"runnable", "waiting"}
  \/ op[g].state = "claimed" /\ ~Live("operation", g)

\* claimOperation: epoch and attempt rise together; an operation without
\* attempts left fails; a delivery that may not execute is acknowledged.
ClaimOperation(w) ==
  LET g == worker[w].gen
      n == op[g].epoch + 1
  IN  /\ worker[w].pc = "operation"
      /\ \/ /\ OperationFree(g) /\ op[g].epoch < MaxAttempts
            /\ op' = [op EXCEPT ![g] = [state |-> "claimed", epoch |-> n]]
            /\ live' = Taken("operation", g)
            /\ worker' = [worker EXCEPT ![w] = [@ EXCEPT !.pc = "admit", !.epoch = n]]
         \/ /\ OperationFree(g) /\ op[g].epoch >= MaxAttempts
            /\ op' = [op EXCEPT ![g].state = "failed"]
            /\ To(w, "ack")
            /\ UNCHANGED live
         \/ /\ ~OperationFree(g)
            /\ To(w, "ack")
            /\ UNCHANGED <<op, live>>
      /\ UNCHANGED <<job, trigger, inbox, exec, plan, work, runs>>

\* dispatch reads the control state, then looks the handler up.
Admit(w) ==
  /\ worker[w].pc = "admit"
  /\ CASE job.control # "running"                     -> Ends(w, "skipped")
       [] outbox[worker[w].gen].stage \notin Handled  -> Fails(w, "unhandled")
       [] OTHER                                       -> To(w, "stage")
  /\ UNCHANGED <<job, trigger, claims, plan, work, runs>>

Bug_ExpiredExecutionRunsAgain(g) ==
  IF exec[g] = "claimed" /\ ~Live("stage", g) THEN "execute"
  ELSE IF exec[g] \in {"failed", "uncertain"} THEN "persisted"
  ELSE IF exec[g] # "none" THEN "skipped"
  ELSE IF job.control # "running" THEN "skipped"
  ELSE "execute"

\* claimJobStageExecution: an execution is never handed to a second worker.
StageClaim(g) ==
  CASE exec[g] \in {"failed", "uncertain"}              -> "persisted"
    [] exec[g] = "claimed" /\ ~Live("stage", g)         -> "persisted"
    [] exec[g] # "none"                                 -> "skipped"
    [] exec[g] = "none" /\ job.control # "running"      -> "skipped"
    [] OTHER                                            -> "execute"

ClaimStage(w) ==
  LET g == worker[w].gen IN
  /\ worker[w].pc = "stage"
  /\ exec[g] = "none" => job.stage = outbox[g].stage
  /\ \/ /\ StageClaim(g) = "execute"
        /\ exec' = [exec EXCEPT ![g] = "claimed"]
        /\ live' = Taken("stage", g)
        /\ runs' = [runs EXCEPT ![g] = @ + 1]
        /\ To(w, "run")
     \/ /\ StageClaim(g) = "skipped"
        /\ Ends(w, "skipped")
        /\ UNCHANGED <<exec, live, runs>>
     \/ /\ StageClaim(g) = "persisted"
        /\ exec' = [exec EXCEPT ![g] = IF @ = "claimed" THEN "uncertain" ELSE @]
        /\ Fails(w, "persisted")
        /\ UNCHANGED <<live, runs>>
  /\ UNCHANGED <<job, trigger, inbox, op, plan, work>>

Bug_FinalizesFirst(w) ==
  /\ worker[w].pc = "run"
  /\ To(w, "finalize")
  /\ UNCHANGED <<job, trigger, claims, plan, work, runs>>

\* The route that takes the handler's result reads the job first.
Run(w) ==
  /\ worker[w].pc = "run"
  /\ job.stage = outbox[worker[w].gen].stage
  /\ To(w, "apply")
  /\ UNCHANGED <<job, trigger, claims, plan, work, runs>>

\* A draft that needs an approval takes the job to its gate.
FinalizeArtifactProduction ==
  /\ job.stage = "draft"
  /\ job' = [job EXCEPT !.stage = "awaiting_approval", !.status = "waiting_for_approval"]
  /\ UNCHANGED outbox

\* saveLearnings completes the job, wherever it is by then.
SaveLearnings ==
  /\ job' = [job EXCEPT !.stage = "complete", !.status = "complete"]
  /\ UNCHANGED outbox

\* The last transaction of the handler's stage.
Apply(w) ==
  LET s == outbox[worker[w].gen].stage IN
  /\ worker[w].pc = "apply"
  /\ \/ s # "learn" /\ \E n \in NextStages[s] : Transition(s, n)
     \/ s = "draft" /\ FinalizeArtifactProduction
     \/ s = "learn" /\ SaveLearnings
  /\ To(w, "finalize")
  /\ UNCHANGED <<pubs, queue, claims, plan, work, runs>>

Bug_NoEpochInFence(w) ==
  op[worker[w].gen].state = "claimed" /\ Live("operation", worker[w].gen)

\* assertOperationFence: the worker's epoch still owns the operation.
Fenced(w) ==
  LET g == worker[w].gen IN
  op[g].state = "claimed" /\ op[g].epoch = worker[w].epoch /\ Live("operation", g)

\* finalizeJobStageExecution. The route checks the fence just before the
\* transaction; nothing that may happen in between changes the outcome.
CloseExecution(g, outcome) ==
  /\ exec[g] = "claimed"
  /\ exec' = [exec EXCEPT ![g] = outcome]
  /\ live' = Without(live, <<"stage", g>>)

Finalize(w) ==
  /\ worker[w].pc = "finalize"
  /\ Fenced(w)
  /\ CloseExecution(worker[w].gen, "applied")
  /\ Ends(w, "applied")
  /\ UNCHANGED <<job, trigger, inbox, op, plan, work, runs>>

\* The server refuses the call: the job has left the stage, or the fence fell.
Rejected(w) ==
  LET s == outbox[worker[w].gen].stage IN
  \/ worker[w].pc = "run" /\ job.stage # s
  \/ worker[w].pc = "apply" /\ s # "learn" /\ job.stage # s
     /\ ~\E n \in NextStages[s] : Reached(n)
  \/ worker[w].pc = "finalize" /\ ~(Fenced(w) /\ exec[worker[w].gen] = "claimed")

\* The handler, one of its calls or its finalization raises; the failure is
\* retryable while the trigger's attempt number leaves the stage attempts.
Raise(w) ==
  /\ worker[w].pc \in {"run", "apply", "finalize"}
  /\ "raise" \in Faults \/ Rejected(w)
  /\ \/ Fails(w, "failed")
     \/ outbox[worker[w].gen].attempt + 1 < StageAttempts /\ Fails(w, "uncertain")
  /\ UNCHANGED <<job, trigger, claims, plan, work, runs>>

Retryable(w) ==
  \/ worker[w].result = "uncertain"
  \/ worker[w].result = "persisted" /\ outbox[worker[w].gen].attempt + 1 < StageAttempts

HandlerRaised(w) == worker[w].result \in {"uncertain", "failed"}

\* markFailed, whatever became of the job in the meantime.
PostFailure(w) ==
  /\ worker[w].pc = "report"
  /\ job' = [job EXCEPT
       !.status = IF Retryable(w) THEN "running" ELSE "failed",
       !.failure = [stage |-> outbox[worker[w].gen].stage, retryable |-> Retryable(w)]]
  /\ To(w, IF HandlerRaised(w) THEN "settle" ELSE "complete")
  /\ UNCHANGED <<trigger, claims, plan, work, runs>>

\* A failure report that fails is only logged.
SkipReport(w) ==
  /\ worker[w].pc = "report" /\ HandlerRaised(w)
  /\ To(w, "settle")
  /\ UNCHANGED <<job, trigger, claims, plan, work, runs>>

\* The execution is closed with the failure; if it cannot be, that is logged.
Settle(w) ==
  /\ worker[w].pc = "settle"
  /\ \/ Fenced(w) /\ CloseExecution(worker[w].gen, worker[w].result)
     \/ UNCHANGED <<exec, live>>
  /\ To(w, "complete")
  /\ UNCHANGED <<job, trigger, inbox, op, plan, work, runs>>

Bug_EventOnly(g, failed) ==
  /\ inbox' = [inbox EXCEPT ![g] =
       [@ EXCEPT !.state = IF failed THEN "rejected" ELSE "completed", !.token = 0]]
  /\ live' = Without(live, <<"event", g>>)
  /\ UNCHANGED op

\* completeEventInbox and finalizeOperation, in one transaction.
CloseEvent(g, failed) ==
  /\ inbox' = [inbox EXCEPT ![g] =
       [@ EXCEPT !.state = IF failed THEN "rejected" ELSE "completed", !.token = 0]]
  /\ op' = [op EXCEPT ![g].state = IF failed THEN "failed" ELSE "succeeded"]
  /\ live' = Without(Without(live, <<"event", g>>), <<"operation", g>>)

OwnsEvent(w) ==
  LET g == worker[w].gen IN
  inbox[g].state = "processing" /\ inbox[g].token = worker[w].token

CompleteEvent(w) ==
  /\ worker[w].pc = "complete"
  /\ Fenced(w) /\ OwnsEvent(w)
  /\ CloseEvent(worker[w].gen, worker[w].result \in Failures)
  /\ To(w, "ack")
  /\ UNCHANGED <<job, trigger, exec, plan, work, runs>>

\* deliver_message deletes the message.
Acknowledge(w) ==
  /\ worker[w].pc = "ack"
  /\ queue' = {m \in queue : ~(m.gen = worker[w].gen /\ m.pub = worker[w].pub)}
  /\ worker' = [worker EXCEPT ![w] = Idle]
  /\ UNCHANGED <<job, outbox, pubs, claims, plan, work, runs>>

Drop(w) ==
  /\ worker' = [worker EXCEPT ![w] = Idle]
  /\ UNCHANGED <<job, trigger, claims, plan, work, runs>>

\* A claim or a completion that is refused throws: the delivery stays queued.
Throw(w) ==
  /\ \/ /\ worker[w].pc = "stage"
        /\ exec[worker[w].gen] = "none" /\ job.stage # outbox[worker[w].gen].stage
     \/ worker[w].pc = "complete" /\ ~(Fenced(w) /\ OwnsEvent(w))
  /\ Drop(w)

\* The worker dies, or the answer of one of its calls is lost.
Crash(w) == "crash" \in Faults /\ worker[w].pc # "idle" /\ Drop(w)

\* A consumer that lives goes on with its delivery.
Progress(w) ==
  \/ \E m \in queue : Receive(w, m)
  \/ ClaimEvent(w) \/ ClaimOperation(w) \/ Admit(w) \/ ClaimStage(w)
  \/ Run(w) \/ Apply(w) \/ Finalize(w) \/ Raise(w) \/ PostFailure(w) \/ SkipReport(w)
  \/ Settle(w) \/ CompleteEvent(w) \/ Acknowledge(w) \/ Throw(w)

WorkerStep == \E w \in Workers : Progress(w) \/ Crash(w)

----------------------------------------------------------------------------
(* Recovery: one pass reads what is due, then applies its plan in one       *)
(* transaction that takes nothing claimed again in between.                 *)

Decide(count, action) == IF count >= MaxRetries THEN "operator_required" ELSE action

Bug_OperationsOnly ==
  {[kind |-> "operation", gen |-> g, count |-> op[g].epoch,
    action |-> Decide(op[g].epoch, "replay_operation")] :
      g \in {g \in Gens : op[g].state = "claimed" /\ ~Live("operation", g)}}

\* scanRecoveryCandidates: claimed records whose lease has run out.
Due ==
  {[kind |-> "operation", gen |-> g, count |-> op[g].epoch,
    action |-> Decide(op[g].epoch, "replay_operation")] :
      g \in {g \in Gens : op[g].state = "claimed" /\ ~Live("operation", g)}}
  \cup
  {[kind |-> "event_inbox", gen |-> g, count |-> inbox[g].tries,
    action |-> Decide(inbox[g].tries, "requeue_event")] :
      g \in {g \in Gens : inbox[g].state = "processing" /\ ~Live("event", g)}}
  \cup
  {[kind |-> "stage_outbox", gen |-> g, count |-> outbox[g].tries,
    action |-> Decide(outbox[g].tries, "requeue_outbox")] :
      g \in {g \in Gens : outbox[g].state = "claimed" /\ ~outbox[g].live}}

\* A pass that finds nothing new has nothing to apply.
Scan ==
  /\ plan = {}
  /\ Cardinality(work) < MaxMarkers
  /\ Due \ work # {}
  /\ plan' = Due \ work
  /\ UNCHANGED <<job, trigger, claims, worker, work, runs>>

\* The resource is leased again: its claim came after the scan.
Reclaimed(a) ==
  CASE a.kind = "operation"   -> op[a.gen].state = "claimed" /\ Live("operation", a.gen)
    [] a.kind = "event_inbox" -> inbox[a.gen].state = "processing" /\ Live("event", a.gen)
    [] OTHER                  -> outbox[a.gen].live

\* applyRecoveryPlan neither repeats a marker nor touches a resource reclaimed.
Emitted == {a \in plan : a \notin work /\ ~Reclaimed(a)}

Emits(action, g) == \E a \in Emitted : a.action = action /\ a.gen = g

Requeued(g) == Emits("requeue_event", g) /\ inbox[g].state = "processing"

ApplyRecovery ==
  /\ plan # {}
  /\ op' = [g \in Gens |->
       CASE op[g].state = "claimed" /\ Emits("replay_operation", g)
              -> [op[g] EXCEPT !.state = "waiting"]
         [] op[g].state = "claimed"
            /\ \E a \in Emitted : a.kind = "operation" /\ a.gen = g
                                  /\ a.action = "operator_required"
              -> [op[g] EXCEPT !.state = "unknown"]
         [] OTHER -> op[g]]
  /\ inbox' = [g \in Gens |-> IF Requeued(g)
                              THEN [inbox[g] EXCEPT !.state = "accepted", !.token = 0]
                              ELSE inbox[g]]
  /\ outbox' = [g \in Gens |->
       IF Requeued(g) \/ (Emits("requeue_outbox", g) /\ outbox[g].state = "claimed")
       THEN [outbox[g] EXCEPT !.state = "pending", !.live = FALSE]
       ELSE outbox[g]]
  /\ work' = work \cup Emitted
  /\ plan' = {}
  /\ UNCHANGED <<job, pubs, queue, exec, worker, live, runs>>

RecoveryStep == Scan \/ ApplyRecovery

----------------------------------------------------------------------------
(* Operators.                                                               *)

\* decideJobControl accepts commands while the job is neither complete nor
\* cancelled; pause and cancel raise the epoch without a trigger.
Controllable == job.status # "complete" /\ job.control # "cancelled"

Withhold(control, status) ==
  /\ Controllable /\ job.epoch < MaxEpoch
  /\ job' = [job EXCEPT !.control = control, !.status = status, !.epoch = @ + 1]
  /\ UNCHANGED outbox

Pause == "pause" \in Operators /\ job.control = "running" /\ Withhold("paused", job.status)

\* An effect still in flight leaves the cancelled job failed.
Cancel == "cancel" \in Operators /\ \E s \in {"complete", "failed"} : Withhold("cancelled", s)

\* Resume triggers the stage the job is in, a gate too.
Resume ==
  /\ "resume" \in Operators
  /\ Controllable /\ job.control = "paused"
  /\ Advance([job EXCEPT !.control = "running", !.status = "running"], job.epoch + 1)

\* resumableStage: a gate rewinds to the stage that filled it.
Rewound == IF job.stage = "awaiting_approval" THEN "draft" ELSE job.stage

Steer(stage) ==
  Advance([job EXCEPT !.stage = stage, !.status = "running", !.control = "running"],
          job.epoch + 1)

ApplyNudge == "nudge" \in Operators /\ job.stage # "complete" /\ Steer(Rewound)

\* redoJobStage, of a job none of whose actions has been executed.
RedoStage == "redo" \in Operators /\ \E s \in Stages : Steer(s)

\* retryJobInTransaction, asked for by an operator or by the host.
RetryJob ==
  /\ "retry" \in Operators
  /\ job.failure # None
  /\ job.status = "failed" \/ job.failure.retryable
  /\ job.control = "running"
  /\ job.failure.stage # "complete"
  /\ Advance([job EXCEPT !.stage = job.failure.stage, !.status = "running",
                         !.failure = None], 0)

\* resolveDecision, on the last pending approval. A decision recorded before
\* the job is paused or cancelled still goes on to the transition.
ResolveDecision ==
  /\ job.stage = "awaiting_approval"
  /\ \E n \in NextStages["awaiting_approval"] : Transition("awaiting_approval", n)

OperatorStep ==
  /\ Pause \/ Resume \/ Cancel \/ ApplyNudge \/ RedoStage \/ RetryJob \/ ResolveDecision
  /\ UNCHANGED <<pubs, queue, claims, worker, plan, work, runs>>

----------------------------------------------------------------------------
Next == Expire \/ DispatcherStep \/ WorkerStep \/ RecoveryStep \/ OperatorStep

Spec == Init /\ [][Next]_vars

\* Leases run out; the tick publishes what is claimable and runs recovery
\* every minute; a consumer that lives goes on with its delivery. Nothing is
\* assumed of a publisher, which may die at any step, or of an operator.
Fairness ==
  /\ WF_vars(Expire)
  /\ \A g \in Gens : WF_vars(ClaimOutbox(g)) /\ WF_vars(ExpireOutbox(g))
  /\ \A w \in Workers : WF_vars(Progress(w))
  /\ WF_vars(Scan) /\ WF_vars(ApplyRecovery)

FairSpec == Spec /\ Fairness

----------------------------------------------------------------------------
(* Properties.                                                              *)

\* However often its trigger is published and delivered, and whoever dies, the
\* handler of a generation is started at most once (stageExecutions.ts: a
\* claimed execution is never handed out again).
RunsOnce == \A g \in Gens : runs[g] <= 1

\* At most one worker owns the operation of a generation: after a takeover the
\* earlier owner no longer passes the fence (claimOperation, assertOperationFence).
OneOwner ==
  \A v, w \in Workers :
    /\ worker[v].epoch # 0 /\ worker[w].epoch # 0
    /\ worker[v].gen = worker[w].gen
    /\ Fenced(v) /\ Fenced(w)
    => v = w

\* A published trigger whose event is open to a claim is on the queue, under
\* the publication the record is at: no interleaving of publishers, redelivery,
\* acknowledgement and recovery consumes the last message of a trigger nobody
\* has taken (stageOutbox.ts, eventInbox.ts, recoveryStore.ts).
TriggerNotLost ==
  \A g \in Gens :
    outbox[g].state = "published" /\ inbox[g].state \in {"absent", "accepted"} =>
      \E m \in queue : m.gen = g /\ m.pub = outbox[g].tries

\* An event and its operation close together: completed with succeeded,
\* rejected with failed (eventInboxStore.ts, complete).
EventAndOperationTogether ==
  \A g \in Gens :
    /\ inbox[g].state = "completed" <=> op[g].state = "succeeded"
    /\ inbox[g].state = "rejected" => op[g].state = "failed"

\* A running job in a stage that has a handler has the trigger of its current
\* generation, for that very stage: no transition, steering, retry or resume
\* leaves the job waiting for a trigger nobody wrote (repository.ts,
\* transitionStageWithOutbox; steering/repository.ts; commandStore.ts).
StageHasTrigger ==
  job.control = "running" /\ job.stage \in Handled =>
    outbox[job.epoch].state # "absent" /\ outbox[job.epoch].stage = job.stage

\* An execution recorded as applied has moved the job on: its stage is left, or
\* a later generation has begun (stages.py finalizes after the handler only).
AppliedIsAdvanced ==
  \A g \in Gens :
    exec[g] = "applied" => job.epoch > g \/ job.stage # outbox[g].stage

Engaged(g) == inbox[g].state \notin {"absent", "accepted"}
Covered(g, n) == Engaged(g) \/ \E m \in queue : m.gen = g /\ m.pub = n
Advanced(g) == job.epoch > g \/ job.stage # outbox[g].stage

\* Every record, message and delivery belongs to a generation begun, and only
\* a stage with a handler is claimed for execution.
InvGenerations ==
  /\ \A g \in Gens :
       /\ outbox[g].state # "absent" => g <= job.epoch
       /\ inbox[g].state # "absent" => g <= job.epoch
       /\ exec[g] # "none" => g <= job.epoch /\ outbox[g].stage \in Handled
  /\ \A p \in pubs : p.gen <= job.epoch
  /\ \A m \in queue : m.gen <= job.epoch
  /\ \A w \in Workers :
       /\ worker[w].pc # "idle" => worker[w].gen <= job.epoch
       /\ worker[w].pc \in {"stage", "run", "apply", "finalize"} =>
            outbox[worker[w].gen].stage \in Handled

\* A publication and a message are of a claim the trigger has known; the one it
\* is at is covered, and a delivery past its event was taken or is superseded.
InvTrigger ==
  /\ \A p \in pubs :
       /\ p.n <= outbox[p.gen].tries
       /\ p.pc = "settle" /\ OwnsOutbox(p) => Covered(p.gen, p.n)
  /\ \A m \in queue : m.pub <= outbox[m.gen].tries
  /\ \A g \in Gens : outbox[g].state = "published" => Covered(g, outbox[g].tries)
  /\ \A w \in Workers :
       LET g == worker[w].gen IN
       /\ worker[w].pc # "idle" => worker[w].pub <= outbox[g].tries
       /\ worker[w].pc \notin {"idle", "event"} =>
            Engaged(g) \/ outbox[g].state = "pending" \/ outbox[g].tries > worker[w].pub

\* An operation hands out each epoch once.
InvOwners ==
  /\ \A w \in Workers : worker[w].epoch <= op[worker[w].gen].epoch
  /\ \A v, w \in Workers :
       v # w /\ worker[v].gen = worker[w].gen /\ worker[v].epoch # 0 =>
         worker[v].epoch # worker[w].epoch

\* An execution is claimed once, and only its worker moves it to applied, after
\* the job has moved on.
InvExecution ==
  /\ \A g \in Gens : runs[g] = IF exec[g] = "none" THEN 0 ELSE 1
  /\ \A g \in Gens : exec[g] = "applied" => Advanced(g)
  /\ \A w \in Workers : worker[w].pc = "finalize" => Advanced(worker[w].gen)

\* The inductive invariant behind the properties above, checked here so that
\* the proofs start from a formula every reachable state satisfies.
StageInv ==
  /\ InvGenerations /\ InvTrigger /\ InvOwners /\ InvExecution
  /\ EventAndOperationTogether

\* No step reopens what is closed: an event completed or rejected, an operation
\* succeeded or failed, an execution applied, failed or uncertain.
ClosedStaysClosed ==
  [][\A g \in Gens :
       /\ inbox[g].state \in {"completed", "rejected"} => inbox'[g].state = inbox[g].state
       /\ op[g].state \in {"succeeded", "failed"} => op'[g] = op[g]
       /\ exec[g] \in {"applied", "failed", "uncertain"} => exec'[g] = exec[g]]_vars

Closed(g) == inbox[g].state \in {"completed", "rejected"}
NeedsOperator(g) == \E a \in work : a.gen = g /\ a.action = "operator_required"

\* Its last message was used up by deliveries that died before the event was
\* claimed; recovery looks at claims and does not see it.
DeadLettered(g) ==
  /\ outbox[g].state = "published" /\ inbox[g].state \in {"absent", "accepted"}
  /\ \A m \in queue : m.gen = g => m.left = 0
  /\ \A w \in Workers : worker[w].pc = "event" => worker[w].gen # g

\* Every trigger comes to an end, whoever dies: its event closes, recovery asks
\* for an operator, or it is dead-lettered before its event was ever claimed;
\* short of that it waits to be published again, at the bound of the model.
TriggerEnds ==
  \A g \in Gens :
    outbox[g].state # "absent" ~>
      \/ Closed(g) \/ NeedsOperator(g) \/ DeadLettered(g)
      \/ outbox[g].state = "pending" /\ outbox[g].tries = MaxPublish
============================================================================
