------------------------ MODULE StagePipelineProofs ------------------------
(* Proofs, for any workers, starting stage, faults, operators, budgets and  *)
(* bounds, that the records of the stage pipeline keep their types, that    *)
(* the handler of a generation is started at most once, that its operation  *)
(* has one owner, that no trigger is lost between dispatcher, queue and     *)
(* recovery, and that what is closed stays closed.                          *)
EXTENDS StagePipeline, SequenceTheorems, TLAPS

USE PipelineAssumption DEF PipelineAssumption

\* A record with one field replaced is still a record of its type.
LEMMA WorkerTyped ==
  \A k \in Worker, p \in WorkerSteps :
    /\ [k EXCEPT !.pc = p] \in Worker
    /\ \A r \in {"none", "applied", "skipped"} \cup Failures :
         [k EXCEPT !.pc = p, !.result = r] \in Worker
    /\ \A n \in Nat : /\ [k EXCEPT !.pc = p, !.token = n] \in Worker
                      /\ [k EXCEPT !.pc = p, !.epoch = n] \in Worker
BY DEF Worker

\* The idle consumer is a consumer, and so is one that has received a message.
LEMMA IdleTyped ==
  /\ Idle \in Worker
  /\ \A g \in Gens, n \in Nat :
       [Idle EXCEPT !.pc = "event", !.gen = g, !.pub = n] \in Worker
<1>1. 0 \in Gens
  BY DEF Gens
<1>2. Idle \in Worker
  BY <1>1 DEF Idle, Worker, WorkerSteps
<1>3. \A k \in Worker, g \in Gens, n \in Nat :
        [k EXCEPT !.pc = "event", !.gen = g, !.pub = n] \in Worker
  BY DEF Worker, WorkerSteps
<1> QED BY <1>2, <1>3

\* The consumers are consumers, and what they settle is a handler's failure.
WorkersTyped ==
  /\ worker \in [Workers -> Worker]
  /\ \A w \in Workers :
       worker[w].pc = "settle" => worker[w].result \in {"uncertain", "failed"}

\* A step that replaces one consumer by another that does not settle, or settles
\* with a handler's failure.
LEMMA ReplacedTyped ==
  ASSUME TypeOK, NEW w \in Workers, NEW k \in Worker,
         k.pc = "settle" => k.result \in {"uncertain", "failed"},
         worker' = [worker EXCEPT ![w] = k]
  PROVE  WorkersTyped'
BY DEF TypeOK, WorkersTyped

\* The steps of a consumer that only move it on keep it a consumer.
LEMMA ToTyped ==
  ASSUME TypeOK, NEW w \in Workers, NEW p \in WorkerSteps, To(w, p),
         p = "settle" => HandlerRaised(w)
  PROVE  WorkersTyped'
<1> DEFINE k == [worker[w] EXCEPT !.pc = p]
<1>1. worker[w] \in Worker
  BY DEF TypeOK
<1>2. k \in Worker /\ k.pc = p /\ k.result = worker[w].result
  BY <1>1, WorkerTyped DEF Worker
<1>3. worker' = [worker EXCEPT ![w] = k]
  BY DEF To
<1> QED BY <1>2, <1>3, ReplacedTyped DEF HandlerRaised

\* So do the steps that end a delivery with a result,
LEMMA EndsTyped ==
  ASSUME TypeOK, NEW w \in Workers, NEW r \in {"applied", "skipped"}, Ends(w, r)
  PROVE  WorkersTyped'
<1> DEFINE k == [worker[w] EXCEPT !.pc = "complete", !.result = r]
<1>1. worker[w] \in Worker
  BY DEF TypeOK
<1>2. k \in Worker
  BY <1>1, WorkerTyped DEF WorkerSteps
<1>3. k.pc = "complete"
  BY <1>1 DEF Worker
<1> QED BY <1>2, <1>3, ReplacedTyped DEF Ends

\* and the steps that report a failure.
LEMMA FailsTyped ==
  ASSUME TypeOK, NEW w \in Workers, NEW r \in Failures, Fails(w, r)
  PROVE  WorkersTyped'
<1> DEFINE k == [worker[w] EXCEPT !.pc = "report", !.result = r]
<1>1. worker[w] \in Worker
  BY DEF TypeOK
<1>2. k \in Worker
  BY <1>1, WorkerTyped DEF WorkerSteps
<1>3. k.pc = "report"
  BY <1>1 DEF Worker
<1> QED BY <1>2, <1>3, ReplacedTyped DEF Fails

\* Taking a lease and giving one back leave a sequence of leases.
LEMMA TakenTyped ==
  ASSUME live \in Seq(Lease), NEW k \in LeaseKinds, NEW g \in Gens
  PROVE  Taken(k, g) \in Seq(Lease)
BY DEF Taken, Lease

\* A sequence of leases without one of them is a sequence of leases.
LEMMA WithoutTyped ==
  ASSUME NEW s \in Seq(Lease), NEW x
  PROVE  Without(s, x) \in Seq(Lease)
<1>1. CASE \E i \in 1..Len(s) : s[i] = x
  <2> DEFINE i == CHOOSE i \in 1..Len(s) : s[i] = x
  <2>1. i \in 1..Len(s)
    BY <1>1
  <2> HIDE DEF i
  <2>2. SubSeq(s, 1, i - 1) \in Seq(Lease) /\ SubSeq(s, i + 1, Len(s)) \in Seq(Lease)
    BY <2>1, SubSeqProperties
  <2>3. SubSeq(s, 1, i - 1) \o SubSeq(s, i + 1, Len(s)) \in Seq(Lease)
    BY <2>2
  <2> QED BY <1>1, <2>3 DEF Without, i
<1>2. CASE ~\E i \in 1..Len(s) : s[i] = x
  BY <1>2 DEF Without
<1> QED BY <1>1, <1>2

\* Setting one field of a stage outbox, an inbox or an operation record.
LEMMA RecordTyped ==
  /\ \A o \in Outbox : \A st \in {"pending", "claimed", "published"} : \A b \in BOOLEAN :
       /\ [o EXCEPT !.state = st] \in Outbox
       /\ [o EXCEPT !.state = st, !.live = b] \in Outbox
       /\ \A n \in Nat : [o EXCEPT !.state = st, !.tries = n, !.live = b] \in Outbox
       /\ [o EXCEPT !.live = b] \in Outbox
  /\ \A k \in Inbox : \A st \in {"accepted", "completed", "rejected"} :
       /\ [k EXCEPT !.state = st, !.token = 0] \in Inbox
       /\ \A n \in Nat : [k EXCEPT !.tries = n] \in Inbox
  /\ \A k \in Operation : \A st \in {"runnable", "waiting", "unknown", "succeeded", "failed"} :
       [k EXCEPT !.state = st] \in Operation
  /\ \A s \in Stages, n \in Nat : Trigger(s, n) \in Outbox
  /\ NoTrigger \in Outbox
<1>1. \A o \in Outbox : \A st \in {"pending", "claimed", "published"} : \A b \in BOOLEAN :
        /\ [o EXCEPT !.state = st] \in Outbox
        /\ [o EXCEPT !.state = st, !.live = b] \in Outbox
        /\ \A n \in Nat : [o EXCEPT !.state = st, !.tries = n, !.live = b] \in Outbox
        /\ [o EXCEPT !.live = b] \in Outbox
  BY DEF Outbox
<1>2. \A k \in Inbox : \A st \in {"accepted", "completed", "rejected"} :
        /\ [k EXCEPT !.state = st, !.token = 0] \in Inbox
        /\ \A n \in Nat : [k EXCEPT !.tries = n] \in Inbox
  BY DEF Inbox
<1>3. \A k \in Operation : \A st \in {"runnable", "waiting", "unknown", "succeeded", "failed"} :
        [k EXCEPT !.state = st] \in Operation
  BY DEF Operation
<1>4. (\A s \in Stages, n \in Nat : Trigger(s, n) \in Outbox) /\ NoTrigger \in Outbox
  BY DEF Outbox, Trigger, NoTrigger, Stages
<1> QED BY <1>1, <1>2, <1>3, <1>4

\* A stage advance, and every other mutation of the job, keep the job a job.
LEMMA AdvanceTyped ==
  ASSUME TypeOK, NEW j \in Job, NEW n \in Nat, Advance(j, n)
  PROVE  job' \in Job /\ outbox' \in [Gens -> Outbox]
<1>1. job.epoch + 1 \in Gens
  BY DEF TypeOK, Advance, Job, Gens
<1>2. job' \in Job
  BY <1>1 DEF Advance, Job
<1>3. Trigger(j.stage, n) \in Outbox
  BY RecordTyped DEF Job
<1> QED BY <1>2, <1>3 DEF TypeOK, Advance

\* The stages a stage hands on to are stages.
LEMMA NextStagesTyped == \A s \in Stages : NextStages[s] \subseteq Stages
BY DEF NextStages, Stages

\* A stage transition leaves a job and its triggers.
LEMMA TransitionTyped ==
  ASSUME TypeOK, NEW s \in Stages, NEW t \in Stages, Transition(s, t)
  PROVE  job' \in Job /\ outbox' \in [Gens -> Outbox]
<1>1. CASE UNCHANGED <<job, outbox>>
  BY <1>1 DEF TypeOK
<1>2. CASE Advance([job EXCEPT !.stage = t, !.status = "running", !.control = "running"], 0)
  <2>1. [job EXCEPT !.stage = t, !.status = "running", !.control = "running"] \in Job
    BY DEF TypeOK, Job
  <2> QED BY <1>2, <2>1, AdvanceTyped
<1> QED BY <1>1, <1>2 DEF Transition

\* An operator leaves a job and its triggers.
LEMMA OperatorTyped ==
  ASSUME TypeOK, OperatorStep
  PROVE  job' \in Job /\ outbox' \in [Gens -> Outbox]
<1>0. job \in Job /\ job.epoch + 1 \in Nat /\ outbox \in [Gens -> Outbox]
  BY DEF TypeOK, Job, Gens
<1>1. \A c \in {"paused", "cancelled"}, s \in {job.status, "complete", "failed"} :
        Withhold(c, s) => job' \in Job /\ outbox' \in [Gens -> Outbox]
  <2> SUFFICES ASSUME NEW c \in {"paused", "cancelled"},
                      NEW s \in {job.status, "complete", "failed"}, Withhold(c, s)
               PROVE  job' \in Job /\ outbox' \in [Gens -> Outbox]
    OBVIOUS
  <2>1. job.epoch + 1 \in Gens
    BY <1>0 DEF Withhold, Job, Gens
  <2>2. [job EXCEPT !.control = c, !.status = s, !.epoch = @ + 1] \in Job
    BY <1>0, <2>1 DEF Job
  <2> QED BY <1>0, <2>2 DEF Withhold
<1>2. ASSUME NEW s \in Stages, Steer(s) PROVE job' \in Job /\ outbox' \in [Gens -> Outbox]
  <2>1. [job EXCEPT !.stage = s, !.status = "running", !.control = "running"] \in Job
    BY <1>0 DEF Job
  <2> QED BY <1>2, <1>0, <2>1, AdvanceTyped DEF Steer
<1>3. CASE Pause \/ Cancel
  BY <1>3, <1>1 DEF Pause, Cancel
<1>4. CASE Resume
  <2>1. [job EXCEPT !.control = "running", !.status = "running"] \in Job
    BY <1>0 DEF Job
  <2> QED BY <1>4, <1>0, <2>1, AdvanceTyped DEF Resume
<1>5. CASE ApplyNudge
  <2>1. Rewound \in Stages
    BY <1>0 DEF Rewound, Job, Stages
  <2> QED BY <1>5, <2>1, <1>2 DEF ApplyNudge
<1>6. CASE RedoStage
  BY <1>6, <1>2 DEF RedoStage
<1>7. CASE RetryJob
  <2>1. job.failure \in Failure
    BY <1>7, <1>0 DEF RetryJob, Job
  <2>2. [job EXCEPT !.stage = job.failure.stage, !.status = "running", !.failure = None] \in Job
    BY <1>0, <2>1 DEF Job, Failure
  <2> QED BY <1>7, <2>2, AdvanceTyped DEF RetryJob
<1>8. CASE ResolveDecision
  <2>1. PICK n \in NextStages["awaiting_approval"] : Transition("awaiting_approval", n)
    BY <1>8 DEF ResolveDecision
  <2>2. "awaiting_approval" \in Stages
    BY DEF Stages
  <2>3. n \in Stages
    BY <2>1, <2>2, NextStagesTyped
  <2> QED BY <2>1, <2>2, <2>3, TransitionTyped
<1> QED BY <1>3, <1>4, <1>5, <1>6, <1>7, <1>8 DEF OperatorStep

\* What the dispatcher does to a trigger leaves it a trigger.
LEMMA DispatcherTyped == TypeOK /\ DispatcherStep => TypeOK'
<1> SUFFICES ASSUME TypeOK, DispatcherStep PROVE TypeOK'
  OBVIOUS
<1> USE DEF claims
<1>1. ASSUME NEW g \in Gens, ClaimOutbox(g) PROVE TypeOK'
  <2>1. outbox[g].tries + 1 \in Nat
    BY DEF TypeOK, Outbox
  <2>2. outbox' \in [Gens -> Outbox]
    BY <1>1, <2>1, RecordTyped DEF TypeOK, ClaimOutbox
  <2>3. pubs' \in SUBSET Publication
    BY <1>1, <2>1 DEF TypeOK, ClaimOutbox, Publication
  <2> QED BY <1>1, <2>2, <2>3 DEF TypeOK, WorkersTyped, ClaimOutbox
<1>2. ASSUME NEW g \in Gens, ExpireOutbox(g) PROVE TypeOK'
  <2>1. outbox' \in [Gens -> Outbox]
    BY <1>2, RecordTyped DEF TypeOK, ExpireOutbox
  <2> QED BY <1>2, <2>1 DEF TypeOK, WorkersTyped, ExpireOutbox
<1>3. ASSUME NEW p \in pubs, Send(p) PROVE TypeOK'
  <2>1. p \in Publication
    BY DEF TypeOK
  <2>2. queue' \in SUBSET Message
    BY <1>3, <2>1 DEF TypeOK, Send, Publication, Message
  <2>3. pubs' \in SUBSET Publication
    BY <1>3, <2>1 DEF TypeOK, Send, Publication
  <2> QED BY <1>3, <2>2, <2>3 DEF TypeOK, WorkersTyped, Send
<1>4. ASSUME NEW p \in pubs, FinalizePublish(p) \/ ReleaseOutbox(p) PROVE TypeOK'
  <2>1. p.gen \in Gens
    BY DEF TypeOK, Publication
  <2>2. /\ [outbox[p.gen] EXCEPT !.state = "published"] \in Outbox
        /\ [outbox[p.gen] EXCEPT !.state = "pending", !.live = FALSE] \in Outbox
    BY <2>1, RecordTyped DEF TypeOK
  <2>4. outbox' \in [Gens -> Outbox]
    BY <1>4, <2>2 DEF TypeOK, FinalizePublish, ReleaseOutbox
  <2>3. pubs' \in SUBSET Publication
    BY <1>4 DEF TypeOK, FinalizePublish, ReleaseOutbox
  <2> QED BY <1>4, <2>3, <2>4 DEF TypeOK, WorkersTyped, FinalizePublish, ReleaseOutbox
<1> QED BY <1>1, <1>2, <1>3, <1>4 DEF DispatcherStep

\* The three claims of a consumer and the closing of its records.
LEMMA ClaimsTyped ==
  ASSUME TypeOK, NEW w \in Workers,
         ClaimEvent(w) \/ ClaimOperation(w) \/ ClaimStage(w) \/ Finalize(w)
         \/ Settle(w) \/ CompleteEvent(w)
  PROVE  TypeOK'
<1> USE DEF trigger
<1> DEFINE g == worker[w].gen
<1>0. g \in Gens /\ worker[w].result \in {"none", "applied", "skipped"} \cup Failures
  BY DEF TypeOK, Worker
<1>1. CASE ClaimEvent(w)
  <2> DEFINE n == inbox[g].tries + 1
  <2>1. n \in Nat
    BY <1>0 DEF TypeOK, Inbox
  <2>2. op' \in [Gens -> Operation]
    BY <1>1, <1>0, RecordTyped DEF TypeOK, ClaimEvent
  <2>3. CASE EventFree(g)
    <3>1. [state |-> "processing", tries |-> n, token |-> n] \in Inbox
      BY <2>1 DEF Inbox
    <3>2. inbox' \in [Gens -> Inbox]
      BY <1>1, <2>3, <3>1 DEF TypeOK, ClaimEvent
    <3>3. live' \in Seq(Lease)
      BY <1>1, <2>3, <1>0, TakenTyped DEF TypeOK, ClaimEvent, LeaseKinds
    <3>4. [worker[w] EXCEPT !.pc = "operation", !.token = n] \in Worker
      BY <2>1, WorkerTyped DEF TypeOK, WorkerSteps
    <3>5. worker[w] \in Worker
          /\ worker' = [worker EXCEPT ![w] = [worker[w] EXCEPT !.pc = "operation", !.token = n]]
      BY <1>1, <2>3 DEF TypeOK, ClaimEvent
    <3>6. WorkersTyped'
      BY <3>4, <3>5, ReplacedTyped DEF Worker
    <3> QED BY <1>1, <2>2, <3>2, <3>3, <3>6 DEF TypeOK, WorkersTyped, ClaimEvent
  <2>4. CASE ~EventFree(g)
    <3>1. inbox' \in [Gens -> Inbox]
      <4>1. [inbox[g] EXCEPT !.tries = n] \in Inbox
        BY <1>0, <2>1 DEF TypeOK, Inbox
      <4> QED BY <1>1, <2>4, <4>1 DEF TypeOK, ClaimEvent
    <3>2. WorkersTyped'
      BY <1>1, <2>4, ToTyped DEF ClaimEvent, WorkerSteps
    <3> QED BY <1>1, <2>2, <2>4, <3>1, <3>2 DEF TypeOK, WorkersTyped, ClaimEvent
  <2> QED BY <2>3, <2>4
<1>2. CASE ClaimOperation(w)
  <2> DEFINE n == op[g].epoch + 1
  <2>1. n \in Nat
    BY <1>0 DEF TypeOK, Operation
  <2>2. CASE OperationFree(g) /\ op[g].epoch < MaxAttempts
    <3>1. op' = [op EXCEPT ![g] = [state |-> "claimed", epoch |-> n]]
          /\ live' = Taken("operation", g)
          /\ worker' = [worker EXCEPT ![w] = [@ EXCEPT !.pc = "admit", !.epoch = n]]
      BY <1>2, <2>2, <1>0 DEF ClaimOperation, TypeOK, Operation
    <3>2. [state |-> "claimed", epoch |-> n] \in Operation
      BY <2>1 DEF Operation
    <3>3. live' \in Seq(Lease)
      BY <3>1, <1>0, TakenTyped DEF TypeOK, LeaseKinds
    <3>4. [worker[w] EXCEPT !.pc = "admit", !.epoch = n] \in Worker
      BY <2>1, WorkerTyped DEF TypeOK, WorkerSteps
    <3>5. WorkersTyped'
      <4>1. worker[w] \in Worker
        BY DEF TypeOK
      <4> QED BY <3>1, <3>4, <4>1, ReplacedTyped DEF Worker
    <3>6. op' \in [Gens -> Operation]
      BY <3>1, <3>2 DEF TypeOK
    <3> QED BY <1>2, <3>3, <3>5, <3>6 DEF TypeOK, WorkersTyped, ClaimOperation
  <2>3. CASE ~(OperationFree(g) /\ op[g].epoch < MaxAttempts)
    <3>1. op' \in [Gens -> Operation] /\ live' = live
      <4>1. [op[g] EXCEPT !.state = "failed"] \in Operation
        BY <1>0 DEF TypeOK, Operation
      <4> QED BY <1>2, <2>3, <4>1 DEF TypeOK, ClaimOperation
    <3>2. WorkersTyped'
      BY <1>2, <2>3, ToTyped DEF ClaimOperation, WorkerSteps
    <3> QED BY <1>2, <3>1, <3>2 DEF TypeOK, WorkersTyped, ClaimOperation
  <2> QED BY <2>2, <2>3
<1>3. CASE ClaimStage(w)
  <2>1. exec' \in [Gens -> Executions]
    BY <1>3, <1>0 DEF TypeOK, ClaimStage, Executions
  <2>2. live' \in Seq(Lease)
    BY <1>3, <1>0, TakenTyped DEF TypeOK, ClaimStage, LeaseKinds
  <2>3. runs' \in [Gens -> Nat]
    BY <1>3, <1>0 DEF TypeOK, ClaimStage
  <2>4. WorkersTyped'
    BY <1>3, ToTyped, EndsTyped, FailsTyped DEF ClaimStage, WorkerSteps, Failures
  <2> QED BY <1>3, <2>1, <2>2, <2>3, <2>4 DEF TypeOK, WorkersTyped, ClaimStage
<1>4. CASE Finalize(w)
  <2>1. exec' \in [Gens -> Executions]
    BY <1>4, <1>0 DEF TypeOK, Finalize, CloseExecution, Executions
  <2>2. live' \in Seq(Lease)
    BY <1>4, WithoutTyped DEF TypeOK, Finalize, CloseExecution
  <2>3. WorkersTyped'
    BY <1>4, EndsTyped DEF Finalize
  <2> QED BY <1>4, <2>1, <2>2, <2>3 DEF TypeOK, WorkersTyped, Finalize
<1>5. CASE Settle(w)
  <2>1. WorkersTyped'
    BY <1>5, ToTyped DEF Settle, WorkerSteps
  <2>2. live' \in Seq(Lease)
    BY <1>5, WithoutTyped DEF TypeOK, Settle, CloseExecution
  <2>3. exec' \in [Gens -> Executions]
    <3>1. CASE Fenced(w) /\ CloseExecution(g, worker[w].result)
      BY <1>5, <3>1 DEF TypeOK, Settle, CloseExecution, Executions
    <3>2. CASE UNCHANGED exec
      BY <3>2 DEF TypeOK
    <3> QED BY <1>5, <3>1, <3>2 DEF Settle
  <2> QED BY <1>5, <2>1, <2>2, <2>3 DEF TypeOK, WorkersTyped, Settle
<1>6. CASE CompleteEvent(w)
  <2>1. inbox' \in [Gens -> Inbox] /\ op' \in [Gens -> Operation]
    BY <1>6, <1>0, RecordTyped DEF TypeOK, CompleteEvent, CloseEvent
  <2>2. live' \in Seq(Lease)
    BY <1>6, WithoutTyped DEF TypeOK, CompleteEvent, CloseEvent
  <2>3. WorkersTyped'
    BY <1>6, ToTyped DEF CompleteEvent, WorkerSteps
  <2> QED BY <1>6, <2>1, <2>2, <2>3 DEF TypeOK, WorkersTyped, CompleteEvent
<1> QED BY <1>1, <1>2, <1>3, <1>4, <1>5, <1>6

\* The other steps of a consumer.
LEMMA ConsumerTyped ==
  ASSUME TypeOK, NEW w \in Workers, Progress(w) \/ Crash(w)
  PROVE  TypeOK'
<1> USE DEF trigger, claims
<1> DEFINE g == worker[w].gen
<1>0. g \in Gens /\ outbox[g].stage \in Stages /\ job \in Job
  BY DEF TypeOK, Worker, Outbox
<1>1. ASSUME NEW m \in queue, Receive(w, m) PROVE TypeOK'
  <2> DEFINE k == [Idle EXCEPT !.pc = "event", !.gen = m.gen, !.pub = m.pub]
  <2>1. m \in Message
    BY DEF TypeOK
  <2>2. m.gen \in Gens /\ m.pub \in Nat /\ m.left - 1 \in Nat
    BY <1>1, <2>1 DEF Receive, Message
  <2>3. k \in Worker /\ k.pc = "event"
    BY <2>2, IdleTyped DEF Idle
  <2>4. WorkersTyped'
    BY <1>1, <2>3, ReplacedTyped DEF Receive
  <2>5. [m EXCEPT !.left = m.left - 1] \in Message
    BY <2>1, <2>2 DEF Message
  <2>6. queue' \in SUBSET Message
    BY <1>1, <2>5 DEF TypeOK, Receive
  <2> QED BY <1>1, <2>4, <2>6 DEF TypeOK, WorkersTyped, Receive
<1>2. CASE Admit(w)
  <2>1. WorkersTyped'
    BY <1>2, ToTyped, EndsTyped, FailsTyped DEF Admit, WorkerSteps, Failures
  <2> QED BY <1>2, <2>1 DEF TypeOK, WorkersTyped, Admit
<1>3. CASE Run(w)
  <2>1. WorkersTyped'
    BY <1>3, ToTyped DEF Run, WorkerSteps
  <2> QED BY <1>3, <2>1 DEF TypeOK, WorkersTyped, Run
<1>4. CASE Apply(w)
  <2>1. WorkersTyped'
    BY <1>4, ToTyped DEF Apply, WorkerSteps
  <2>2. job' \in Job /\ outbox' \in [Gens -> Outbox]
    <3>1. CASE \E n \in NextStages[outbox[g].stage] : Transition(outbox[g].stage, n)
      BY <3>1, <1>0, NextStagesTyped, TransitionTyped
    <3>2. CASE UNCHANGED outbox
               /\ job' = [job EXCEPT !.stage = "awaiting_approval",
                                     !.status = "waiting_for_approval"]
      BY <3>2, <1>0 DEF TypeOK, Job, Stages
    <3>3. CASE UNCHANGED outbox
               /\ job' = [job EXCEPT !.stage = "complete", !.status = "complete"]
      BY <3>3, <1>0 DEF TypeOK, Job, Stages
    <3> QED BY <1>4, <3>1, <3>2, <3>3 DEF Apply, FinalizeArtifactProduction, SaveLearnings
  <2> QED BY <1>4, <2>1, <2>2 DEF TypeOK, WorkersTyped, Apply
<1>5. CASE Raise(w)
  <2>1. WorkersTyped'
    BY <1>5, FailsTyped DEF Raise, Failures
  <2> QED BY <1>5, <2>1 DEF TypeOK, WorkersTyped, Raise
<1>6. CASE PostFailure(w)
  <2>1. WorkersTyped'
    BY <1>6, ToTyped DEF PostFailure, WorkerSteps
  <2>2. [stage |-> outbox[g].stage, retryable |-> Retryable(w)] \in Failure
    <3>1. Retryable(w) \in BOOLEAN
      BY DEF Retryable
    <3> QED BY <1>0, <3>1 DEF Failure
  <2>3. job' \in Job
    BY <1>6, <1>0, <2>2 DEF PostFailure, Job
  <2> QED BY <1>6, <2>1, <2>3 DEF TypeOK, WorkersTyped, PostFailure
<1>7. CASE SkipReport(w)
  <2>1. WorkersTyped'
    BY <1>7, ToTyped DEF SkipReport, WorkerSteps
  <2> QED BY <1>7, <2>1 DEF TypeOK, WorkersTyped, SkipReport
<1>8. CASE Acknowledge(w)
  <2>1. WorkersTyped'
    BY <1>8, IdleTyped, ReplacedTyped DEF Acknowledge, Idle
  <2>2. queue' \in SUBSET Message
    BY <1>8 DEF TypeOK, Acknowledge
  <2> QED BY <1>8, <2>1, <2>2 DEF TypeOK, WorkersTyped, Acknowledge
<1>9. CASE Drop(w)
  <2>1. WorkersTyped'
    BY <1>9, IdleTyped, ReplacedTyped DEF Drop, Idle
  <2> QED BY <1>9, <2>1 DEF TypeOK, WorkersTyped, Drop
<1> QED BY <1>1, <1>2, <1>3, <1>4, <1>5, <1>6, <1>7, <1>8, <1>9, ClaimsTyped
        DEF Progress, Crash, Throw

\* What a recovery pass finds due is a marker.
LEMMA DueTyped == TypeOK => Due \subseteq Marker
<1> SUFFICES ASSUME TypeOK, NEW a \in Due PROVE a \in Marker
  OBVIOUS
<1>1. \A n, s : Decide(n, s) \in {"operator_required", s}
  BY DEF Decide
<1>2. \A g \in Gens : op[g].epoch \in Nat /\ inbox[g].tries \in Nat /\ outbox[g].tries \in Nat
  BY DEF TypeOK, Operation, Inbox, Outbox
<1> QED BY <1>1, <1>2 DEF Due, Marker

\* A recovery pass keeps the records it touches.
LEMMA RecoveryTyped == TypeOK /\ RecoveryStep => TypeOK'
<1> SUFFICES ASSUME TypeOK, RecoveryStep PROVE TypeOK'
  OBVIOUS
<1> USE DEF trigger, claims
<1>1. CASE Scan
  <2>1. plan' \subseteq Marker
    BY <1>1, DueTyped DEF Scan
  <2> QED BY <1>1, <2>1 DEF TypeOK, Scan
<1>2. CASE ApplyRecovery
  <2>1. op' \in [Gens -> Operation]
    <3>1. \A g \in Gens : /\ op[g] \in Operation
                          /\ [op[g] EXCEPT !.state = "waiting"] \in Operation
                          /\ [op[g] EXCEPT !.state = "unknown"] \in Operation
      BY DEF TypeOK, Operation
    <3> QED BY <1>2, <3>1 DEF ApplyRecovery
  <2>2. inbox' \in [Gens -> Inbox]
    <3>1. \A g \in Gens : /\ inbox[g] \in Inbox
                          /\ [inbox[g] EXCEPT !.state = "accepted", !.token = 0] \in Inbox
      BY DEF TypeOK, Inbox
    <3> QED BY <1>2, <3>1 DEF ApplyRecovery
  <2>3. outbox' \in [Gens -> Outbox]
    <3>1. \A g \in Gens : /\ outbox[g] \in Outbox
                          /\ [outbox[g] EXCEPT !.state = "pending", !.live = FALSE] \in Outbox
      BY DEF TypeOK, Outbox
    <3> QED BY <1>2, <3>1 DEF ApplyRecovery
  <2>4. work' \subseteq Marker /\ plan' \subseteq Marker
    BY <1>2 DEF TypeOK, ApplyRecovery, Emitted
  <2> QED BY <1>2, <2>1, <2>2, <2>3, <2>4 DEF TypeOK, ApplyRecovery
<1> QED BY <1>1, <1>2 DEF RecoveryStep

\* Every transaction, message, crash and lapse of a lease keeps the types.
LEMMA TypingStep == TypeOK /\ [Next]_vars => TypeOK'
<1> SUFFICES ASSUME TypeOK, [Next]_vars PROVE TypeOK'
  OBVIOUS
<1>1. CASE Expire
  <2>1. live' \in Seq(Lease)
    BY <1>1 DEF TypeOK, Expire
  <2> QED BY <1>1, <2>1 DEF TypeOK, Expire, trigger
<1>2. CASE OperatorStep
  <2>1. UNCHANGED <<pubs, queue, claims, worker, plan, work, runs>>
    BY <1>2 DEF OperatorStep
  <2> QED BY <1>2, <2>1, OperatorTyped DEF TypeOK, claims
<1>3. CASE UNCHANGED vars
  BY <1>3 DEF TypeOK, vars
<1> QED BY <1>1, <1>2, <1>3, DispatcherTyped, ConsumerTyped, RecoveryTyped
        DEF Next, WorkerStep

\* Every record of the pipeline keeps its type, for any workers, starting
\* stage, faults, operators, budgets and bounds.
THEOREM Typing == Spec => []TypeOK
<1>1. Init => TypeOK
  <2> SUFFICES ASSUME Init PROVE TypeOK
    OBVIOUS
  <2>1. job \in Job
    BY DEF Init, Job, Gens
  <2>2. outbox \in [Gens -> Outbox]
    BY RecordTyped DEF Init
  <2>3. /\ inbox \in [Gens -> Inbox] /\ op \in [Gens -> Operation]
        /\ exec \in [Gens -> Executions] /\ runs \in [Gens -> Nat]
    BY DEF Init, Inbox, Operation, Executions
  <2>4. /\ worker \in [Workers -> Worker]
        /\ \A w \in Workers : worker[w].pc = "idle"
    BY IdleTyped DEF Init, Idle
  <2> QED BY <2>1, <2>2, <2>3, <2>4 DEF Init, TypeOK
<1> QED BY <1>1, TypingStep, PTL DEF Spec

----------------------------------------------------------------------------

\* A consumer goes on with its delivery; the others stay where they are.
Moves(w, p) ==
  /\ worker'[w].pc = p
  /\ worker'[w].gen = worker[w].gen
  /\ worker'[w].pub = worker[w].pub
  /\ worker'[w].epoch = worker[w].epoch
  /\ \A v \in Workers \ {w} : worker'[v] = worker[v]

\* A consumer is done with its delivery, for whatever reason.
Rests(w) ==
  /\ worker'[w] = Idle
  /\ \A v \in Workers \ {w} : worker'[v] = worker[v]

\* The three ways a consumer's program counter is set move it on.
LEMMA ToMoves ==
  ASSUME TypeOK, NEW w \in Workers, NEW p
  PROVE  /\ To(w, p) => Moves(w, p)
         /\ \A r : Ends(w, r) => Moves(w, "complete")
         /\ \A r : Fails(w, r) => Moves(w, "report")
<1>1. worker[w] \in Worker /\ worker \in [Workers -> Worker]
  BY DEF TypeOK
<1>2. To(w, p) => Moves(w, p)
  BY <1>1 DEF To, Moves, Worker
<1>3. ASSUME NEW r, Ends(w, r) PROVE Moves(w, "complete")
  BY <1>1, <1>3 DEF Ends, Moves, Worker
<1>4. ASSUME NEW r, Fails(w, r) PROVE Moves(w, "report")
  BY <1>1, <1>4 DEF Fails, Moves, Worker
<1> QED BY <1>2, <1>3, <1>4

\* Where each step of a consumer takes it.
LEMMA ConsumerMoves ==
  ASSUME TypeOK, NEW w \in Workers
  PROVE  /\ ClaimEvent(w) => Moves(w, "operation") \/ Moves(w, "ack")
         /\ Admit(w) => \/ Moves(w, "complete") \/ Moves(w, "report")
                        \/ /\ outbox[worker[w].gen].stage \in Handled
                           /\ Moves(w, "stage")
         /\ ClaimStage(w) => Moves(w, "run") \/ Moves(w, "complete") \/ Moves(w, "report")
         /\ Run(w) => Moves(w, "apply")
         /\ Apply(w) => Moves(w, "finalize")
         /\ Finalize(w) => Moves(w, "complete")
         /\ Raise(w) => Moves(w, "report")
         /\ PostFailure(w) => Moves(w, "settle") \/ Moves(w, "complete")
         /\ SkipReport(w) => Moves(w, "settle")
         /\ Settle(w) => Moves(w, "complete")
         /\ CompleteEvent(w) => Moves(w, "ack")
         /\ Acknowledge(w) => Rests(w)
         /\ Drop(w) => Rests(w)
<1>0. worker[w] \in Worker /\ worker \in [Workers -> Worker]
  BY DEF TypeOK
<1>1. ClaimEvent(w) => Moves(w, "operation") \/ Moves(w, "ack")
  <2>1. ASSUME NEW n, worker' = [worker EXCEPT ![w] = [@ EXCEPT !.pc = "operation", !.token = n]]
        PROVE  Moves(w, "operation")
    BY <1>0, <2>1 DEF Moves, Worker
  <2> QED BY <2>1, ToMoves DEF ClaimEvent
<1>2. Admit(w) => \/ Moves(w, "complete") \/ Moves(w, "report")
                  \/ /\ outbox[worker[w].gen].stage \in Handled
                     /\ Moves(w, "stage")
  BY ToMoves DEF Admit
<1>3. ClaimStage(w) => Moves(w, "run") \/ Moves(w, "complete") \/ Moves(w, "report")
  BY ToMoves DEF ClaimStage
<1>4. (Run(w) => Moves(w, "apply")) /\ (Apply(w) => Moves(w, "finalize"))
  BY ToMoves DEF Run, Apply
<1>5. (Finalize(w) => Moves(w, "complete")) /\ (Raise(w) => Moves(w, "report"))
  BY ToMoves DEF Finalize, Raise
<1>6. PostFailure(w) => Moves(w, "settle") \/ Moves(w, "complete")
  BY ToMoves DEF PostFailure
<1>7. (SkipReport(w) => Moves(w, "settle")) /\ (Settle(w) => Moves(w, "complete"))
  BY ToMoves DEF SkipReport, Settle
<1>8. CompleteEvent(w) => Moves(w, "ack")
  BY ToMoves DEF CompleteEvent
<1>9. (Acknowledge(w) => Rests(w)) /\ (Drop(w) => Rests(w))
  BY <1>0 DEF Acknowledge, Drop, Rests
<1> QED BY <1>1, <1>2, <1>3, <1>4, <1>5, <1>6, <1>7, <1>8, <1>9

----------------------------------------------------------------------------
\* How a step may move the job and its triggers: a new generation with its
\* trigger, a new generation without one for a job that does not run, or a
\* change of stage to one without a handler.
JobMove ==
  \/ /\ job'.epoch = job.epoch + 1
     /\ job'.epoch \in Gens
     /\ \E n \in Nat : outbox' = [outbox EXCEPT ![job.epoch + 1] = Trigger(job'.stage, n)]
  \/ /\ job'.epoch = job.epoch + 1
     /\ job'.stage = job.stage /\ job'.control # "running"
     /\ outbox' = outbox
  \/ /\ job'.epoch = job.epoch /\ job'.control = job.control
     /\ job'.stage = job.stage \/ job'.stage \notin Handled
     /\ outbox' = outbox

\* A new generation with its trigger is such a move,
LEMMA AdvanceMoves ==
  ASSUME TypeOK, NEW j \in Job, NEW n \in Nat, Advance(j, n)
  PROVE  JobMove
<1>1. job.epoch \in Nat /\ job.epoch + 1 \in Gens
  BY PipelineAssumption DEF PipelineAssumption, TypeOK, Advance, Job, Gens
<1>2. job'.epoch = job.epoch + 1 /\ job'.stage = j.stage
  BY DEF Advance, Job
<1> QED BY <1>1, <1>2 DEF Advance, JobMove

\* so is a stage transition, made or repeated,
LEMMA TransitionMoves ==
  ASSUME TypeOK, NEW s \in Stages, NEW t \in Stages, Transition(s, t)
  PROVE  JobMove
<1>1. CASE UNCHANGED <<job, outbox>>
  BY <1>1 DEF JobMove
<1>2. CASE Advance([job EXCEPT !.stage = t, !.status = "running", !.control = "running"], 0)
  <2>1. [job EXCEPT !.stage = t, !.status = "running", !.control = "running"] \in Job
    BY DEF TypeOK, Job
  <2> QED BY <1>2, <2>1, AdvanceMoves
<1> QED BY <1>1, <1>2 DEF Transition

\* so is every action of an operator,
LEMMA OperatorMoves == TypeOK /\ OperatorStep => JobMove
<1> SUFFICES ASSUME TypeOK, OperatorStep PROVE JobMove
  OBVIOUS
<1>0. job \in Job /\ job.epoch + 1 \in Nat
  BY DEF TypeOK, Job, Gens
<1>1. \A c \in {"paused", "cancelled"} : \A s : Withhold(c, s) => JobMove
  BY <1>0 DEF Withhold, JobMove, Job
<1>2. ASSUME NEW s \in Stages, Steer(s) PROVE JobMove
  <2>1. [job EXCEPT !.stage = s, !.status = "running", !.control = "running"] \in Job
    BY <1>0 DEF Job
  <2> QED BY <1>2, <1>0, <2>1, AdvanceMoves DEF Steer
<1>3. CASE Pause \/ Cancel
  BY <1>3, <1>1 DEF Pause, Cancel
<1>4. CASE Resume
  <2>1. [job EXCEPT !.control = "running", !.status = "running"] \in Job
    BY <1>0 DEF Job
  <2> QED BY <1>4, <1>0, <2>1, AdvanceMoves DEF Resume
<1>5. CASE ApplyNudge
  <2>1. Rewound \in Stages
    BY <1>0 DEF Rewound, Job, Stages
  <2> QED BY <1>5, <2>1, <1>2 DEF ApplyNudge
<1>6. CASE RedoStage
  BY <1>6, <1>2 DEF RedoStage
<1>7. CASE RetryJob
  <2>1. job.failure \in Failure
    BY <1>7, <1>0 DEF RetryJob, Job
  <2>2. [job EXCEPT !.stage = job.failure.stage, !.status = "running", !.failure = None] \in Job
    BY <1>0, <2>1 DEF Job, Failure
  <2> QED BY <1>7, <2>2, AdvanceMoves DEF RetryJob
<1>8. CASE ResolveDecision
  <2>1. PICK n \in NextStages["awaiting_approval"] : Transition("awaiting_approval", n)
    BY <1>8 DEF ResolveDecision
  <2>2. "awaiting_approval" \in Stages
    BY DEF Stages
  <2>3. n \in Stages
    BY <2>1, <2>2, NextStagesTyped
  <2> QED BY <2>1, <2>2, <2>3, TransitionMoves
<1> QED BY <1>3, <1>4, <1>5, <1>6, <1>7, <1>8 DEF OperatorStep

\* the last transaction of a handler,
LEMMA ApplyMoves == \A w \in Workers : TypeOK /\ Apply(w) => JobMove
<1> SUFFICES ASSUME NEW w \in Workers, TypeOK, Apply(w) PROVE JobMove
  OBVIOUS
<1> DEFINE s == outbox[worker[w].gen].stage
<1>0. s \in Stages /\ job \in Job
  BY DEF TypeOK, Worker, Outbox
<1>1. CASE \E n \in NextStages[s] : Transition(s, n)
  BY <1>1, <1>0, NextStagesTyped, TransitionMoves
<1>2. CASE UNCHANGED outbox
           /\ job' = [job EXCEPT !.stage = "awaiting_approval",
                                 !.status = "waiting_for_approval"]
  BY <1>2, <1>0 DEF JobMove, Job, Handled
<1>3. CASE UNCHANGED outbox
           /\ job' = [job EXCEPT !.stage = "complete", !.status = "complete"]
  BY <1>3, <1>0 DEF JobMove, Job, Handled
<1> QED BY <1>1, <1>2, <1>3 DEF Apply, FinalizeArtifactProduction, SaveLearnings

\* and a failure report, which keeps the stage.
LEMMA PostMoves == \A w \in Workers : TypeOK /\ PostFailure(w) => JobMove
BY DEF TypeOK, PostFailure, Job, JobMove, trigger

\* Every step moves the job so, or leaves job and stage of every trigger.
LEMMA StepCases ==
  [Next]_vars =>
    \/ Expire \/ Scan \/ UNCHANGED vars \/ ApplyRecovery \/ OperatorStep
    \/ \E g \in Gens : ClaimOutbox(g) \/ ExpireOutbox(g)
    \/ \E p \in pubs : Send(p) \/ FinalizePublish(p) \/ ReleaseOutbox(p)
    \/ \E w \in Workers :
         \/ \E m \in queue : Receive(w, m)
         \/ ClaimEvent(w) \/ ClaimOperation(w) \/ Admit(w) \/ ClaimStage(w)
         \/ Run(w) \/ Apply(w) \/ Finalize(w) \/ Raise(w) \/ PostFailure(w)
         \/ SkipReport(w) \/ Settle(w) \/ CompleteEvent(w) \/ Acknowledge(w) \/ Drop(w)
BY DEF Next, DispatcherStep, WorkerStep, Progress, Throw, Crash, RecoveryStep

\* What such a move keeps: the triggers of the generations begun, and that a
\* generation that had a handler has advanced.
LEMMA MoveKeeps ==
  ASSUME TypeOK, JobMove
  PROVE  /\ job.epoch <= job'.epoch
         /\ \A g \in Gens : g <= job.epoch => outbox'[g] = outbox[g]
         /\ \A g \in Gens : outbox'[g] # outbox[g] =>
              /\ g = job'.epoch /\ g > job.epoch
              /\ outbox'[g].state = "pending" /\ outbox'[g].tries = 0
         /\ \A g \in Gens : g <= job.epoch /\ outbox[g].stage \in Handled /\ Advanced(g)
              => Advanced(g)'
<1>0. job.epoch \in Nat /\ outbox \in [Gens -> Outbox] /\ Gens \subseteq Nat
  BY DEF TypeOK, Job, Gens
<1>1. CASE /\ job'.epoch = job.epoch + 1
           /\ job'.epoch \in Gens
           /\ \E n \in Nat : outbox' = [outbox EXCEPT ![job.epoch + 1] = Trigger(job'.stage, n)]
  BY <1>0, <1>1 DEF Trigger, Advanced
<1>2. CASE job'.epoch = job.epoch + 1 /\ outbox' = outbox
  <2>1. \A g \in Gens : g <= job.epoch => Advanced(g)'
    <3> SUFFICES ASSUME NEW g \in Gens, g <= job.epoch PROVE job'.epoch > g
      BY DEF Advanced
    <3>1. g \in Nat
      BY <1>0
    <3> QED BY <1>0, <1>2, <3>1
  <2>2. job.epoch <= job'.epoch
    BY <1>0, <1>2
  <2> QED BY <1>2, <2>1, <2>2
<1>3. CASE /\ job'.epoch = job.epoch /\ outbox' = outbox
           /\ job'.stage = job.stage \/ job'.stage \notin Handled
  BY <1>0, <1>3 DEF Advanced
<1> QED BY <1>1, <1>2, <1>3 DEF JobMove

\* What the dispatcher writes to a trigger.
LEMMA DispatcherWrites ==
  ASSUME TypeOK
  PROVE  /\ \A h \in Gens : ClaimOutbox(h) =>
              /\ outbox'[h].state = "claimed" /\ outbox'[h].tries = outbox[h].tries + 1
              /\ outbox'[h].stage = outbox[h].stage
              /\ \A g \in Gens \ {h} : outbox'[g] = outbox[g]
         /\ \A h \in Gens : ExpireOutbox(h) =>
              \A g \in Gens : /\ outbox'[g].state = outbox[g].state
                              /\ outbox'[g].tries = outbox[g].tries
                              /\ outbox'[g].stage = outbox[g].stage
         /\ \A p \in pubs : FinalizePublish(p) =>
              /\ \A g \in Gens : outbox'[g] # outbox[g] => g = p.gen /\ OwnsOutbox(p)
              /\ OwnsOutbox(p) => outbox'[p.gen].state = "published"
              /\ outbox'[p.gen].tries = outbox[p.gen].tries
              /\ outbox'[p.gen].stage = outbox[p.gen].stage
         /\ \A p \in pubs : ReleaseOutbox(p) =>
              /\ \A g \in Gens : outbox'[g] # outbox[g] => g = p.gen /\ OwnsOutbox(p)
              /\ OwnsOutbox(p) => outbox'[p.gen].state = "pending"
              /\ outbox'[p.gen].tries = outbox[p.gen].tries
              /\ outbox'[p.gen].stage = outbox[p.gen].stage
<1>0. outbox \in [Gens -> Outbox] /\ (\A p \in pubs : p.gen \in Gens)
  BY DEF TypeOK, Publication
<1>1. ASSUME NEW h \in Gens, ClaimOutbox(h)
      PROVE  /\ outbox'[h].state = "claimed" /\ outbox'[h].tries = outbox[h].tries + 1
             /\ outbox'[h].stage = outbox[h].stage
             /\ \A g \in Gens \ {h} : outbox'[g] = outbox[g]
  BY <1>0, <1>1 DEF ClaimOutbox, Outbox
<1>2. ASSUME NEW h \in Gens, ExpireOutbox(h), NEW g \in Gens
      PROVE  /\ outbox'[g].state = outbox[g].state
             /\ outbox'[g].tries = outbox[g].tries
             /\ outbox'[g].stage = outbox[g].stage
  BY <1>0, <1>2 DEF ExpireOutbox, Outbox
<1>3. ASSUME NEW p \in pubs, FinalizePublish(p)
      PROVE  /\ \A g \in Gens : outbox'[g] # outbox[g] => g = p.gen /\ OwnsOutbox(p)
             /\ OwnsOutbox(p) => outbox'[p.gen].state = "published"
             /\ outbox'[p.gen].tries = outbox[p.gen].tries
             /\ outbox'[p.gen].stage = outbox[p.gen].stage
  BY <1>0, <1>3 DEF FinalizePublish, Outbox
<1>4. ASSUME NEW p \in pubs, ReleaseOutbox(p)
      PROVE  /\ \A g \in Gens : outbox'[g] # outbox[g] => g = p.gen /\ OwnsOutbox(p)
             /\ OwnsOutbox(p) => outbox'[p.gen].state = "pending"
             /\ outbox'[p.gen].tries = outbox[p.gen].tries
             /\ outbox'[p.gen].stage = outbox[p.gen].stage
  BY <1>0, <1>4 DEF ReleaseOutbox, Outbox
<1> QED BY <1>1, <1>2, <1>3, <1>4

\* What applying a recovery plan writes: it returns events in processing with
\* their triggers, releases claimed triggers and takes claimed operations.
LEMMA RecoveryWrites ==
  ASSUME TypeOK, ApplyRecovery, NEW g \in Gens
  PROVE  /\ \/ outbox'[g] = outbox[g]
            \/ /\ outbox'[g].state = "pending"
               /\ outbox[g].state = "claimed" \/ inbox[g].state = "processing"
         /\ outbox'[g].tries = outbox[g].tries /\ outbox'[g].stage = outbox[g].stage
         /\ \/ inbox'[g] = inbox[g]
            \/ /\ inbox[g].state = "processing" /\ inbox'[g].state = "accepted"
               /\ outbox'[g].state = "pending"
         /\ \/ op'[g] = op[g]
            \/ op[g].state = "claimed" /\ op'[g].state \in {"waiting", "unknown"}
         /\ op'[g].epoch = op[g].epoch
         /\ UNCHANGED <<job, pubs, queue, exec, worker, runs>>
<1>0. outbox[g] \in Outbox /\ inbox[g] \in Inbox /\ op[g] \in Operation
  BY DEF TypeOK
<1>1. /\ [outbox[g] EXCEPT !.state = "pending", !.live = FALSE].state = "pending"
      /\ [outbox[g] EXCEPT !.state = "pending", !.live = FALSE].tries = outbox[g].tries
      /\ [outbox[g] EXCEPT !.state = "pending", !.live = FALSE].stage = outbox[g].stage
      /\ [inbox[g] EXCEPT !.state = "accepted", !.token = 0].state = "accepted"
  BY <1>0 DEF Outbox, Inbox, Operation
<1>2. outbox'[g] = IF Requeued(g) \/ (Emits("requeue_outbox", g) /\ outbox[g].state = "claimed")
                   THEN [outbox[g] EXCEPT !.state = "pending", !.live = FALSE]
                   ELSE outbox[g]
  BY DEF ApplyRecovery
<1>3. inbox'[g] = IF Requeued(g) THEN [inbox[g] EXCEPT !.state = "accepted", !.token = 0]
                                 ELSE inbox[g]
  BY DEF ApplyRecovery
<1>4. \/ op'[g] = op[g]
      \/ op[g].state = "claimed" /\ op'[g] = [op[g] EXCEPT !.state = "waiting"]
      \/ op[g].state = "claimed" /\ op'[g] = [op[g] EXCEPT !.state = "unknown"]
  <2> DEFINE released == op[g].state = "claimed" /\ Emits("replay_operation", g)
             taken == /\ op[g].state = "claimed"
                      /\ \E a \in Emitted : a.kind = "operation" /\ a.gen = g
                                            /\ a.action = "operator_required"
  <2>1. op'[g] = CASE released -> [op[g] EXCEPT !.state = "waiting"]
                   [] taken -> [op[g] EXCEPT !.state = "unknown"]
                   [] OTHER -> op[g]
    BY DEF ApplyRecovery
  <2>2. (released => op[g].state = "claimed") /\ (taken => op[g].state = "claimed")
    OBVIOUS
  <2> HIDE DEF released, taken
  <2> QED BY <2>1, <2>2
<1>5. UNCHANGED <<job, pubs, queue, exec, worker, runs>>
  BY DEF ApplyRecovery
<1>6. Requeued(g) => inbox[g].state = "processing"
  BY DEF Requeued
<1>7. /\ \/ op'[g] = op[g]
         \/ op[g].state = "claimed" /\ op'[g].state \in {"waiting", "unknown"}
      /\ op'[g].epoch = op[g].epoch
  <2>1. op[g] \in Operation
    BY <1>0
  <2> QED BY <1>4, <2>1 DEF Operation
<1>8. CASE Requeued(g)
  BY <1>1, <1>2, <1>3, <1>5, <1>6, <1>7, <1>8
<1>9. CASE ~Requeued(g)
  BY <1>1, <1>2, <1>3, <1>5, <1>7, <1>9
<1> QED BY <1>8, <1>9

\* No step but such a move changes the job, or the stage of a trigger.
LEMMA TriggersKept ==
  TypeOK /\ [Next]_vars =>
    JobMove \/ (UNCHANGED job /\ \A g \in Gens : outbox'[g].stage = outbox[g].stage)
<1> SUFFICES ASSUME TypeOK, [Next]_vars
             PROVE  JobMove \/ (UNCHANGED job
                                /\ \A g \in Gens : outbox'[g].stage = outbox[g].stage)
  OBVIOUS
<1> USE DEF trigger, claims
<1>1. CASE OperatorStep \/ \E w \in Workers : Apply(w) \/ PostFailure(w)
  BY <1>1, OperatorMoves, ApplyMoves, PostMoves
<1>2. CASE ApplyRecovery
  <2>1. UNCHANGED job
    BY <1>2 DEF ApplyRecovery
  <2> QED BY <1>2, <2>1, RecoveryWrites
<1>3. ASSUME NEW h \in Gens, ClaimOutbox(h) \/ ExpireOutbox(h)
      PROVE  UNCHANGED job /\ \A g \in Gens : outbox'[g].stage = outbox[g].stage
  <2>1. UNCHANGED job
    BY <1>3 DEF ClaimOutbox, ExpireOutbox
  <2> QED BY <1>3, <2>1, DispatcherWrites
<1>4. ASSUME NEW p \in pubs, Send(p) \/ FinalizePublish(p) \/ ReleaseOutbox(p)
      PROVE  UNCHANGED job /\ \A g \in Gens : outbox'[g].stage = outbox[g].stage
  <2>1. UNCHANGED job
    BY <1>4 DEF Send, FinalizePublish, ReleaseOutbox
  <2> QED BY <1>4, <2>1, DispatcherWrites DEF Send
<1>5. ASSUME NEW w \in Workers,
             \/ \E m \in queue : Receive(w, m)
             \/ ClaimEvent(w) \/ ClaimOperation(w) \/ Admit(w) \/ ClaimStage(w)
             \/ Run(w) \/ Finalize(w) \/ Raise(w) \/ SkipReport(w) \/ Settle(w)
             \/ CompleteEvent(w) \/ Acknowledge(w) \/ Drop(w)
      PROVE  UNCHANGED <<job, outbox>>
  BY <1>5 DEF Receive, ClaimEvent, ClaimOperation, Admit, ClaimStage, Run, Finalize,
              Raise, SkipReport, Settle, CompleteEvent, Acknowledge, Drop
<1>6. CASE Expire \/ Scan \/ UNCHANGED vars
  BY <1>6 DEF Expire, Scan, vars
<1> QED BY <1>1, <1>2, <1>3, <1>4, <1>5, <1>6, StepCases

\* What a consumer writes to the inbox and to the operation of its generation.
LEMMA EventWrites ==
  ASSUME TypeOK, NEW w \in Workers, ClaimEvent(w), NEW g \in Gens
  PROVE  /\ g # worker[w].gen => inbox'[g] = inbox[g] /\ op'[g] = op[g]
         /\ \/ EventFree(g) /\ inbox'[g].state = "processing"
            \/ inbox'[g].state = inbox[g].state
         /\ g = worker[w].gen => Engaged(g)'
         /\ \/ op'[g] = op[g]
            \/ op[g].state = "absent" /\ op'[g].state = "runnable"
         /\ op'[g].epoch = op[g].epoch
<1> DEFINE h == worker[w].gen
<1>0. /\ inbox \in [Gens -> Inbox] /\ op \in [Gens -> Operation] /\ h \in Gens
      /\ inbox[h] \in Inbox /\ op[h] \in Operation
  BY DEF TypeOK, Worker
<1>1. op' = op \/ (op[h].state = "absent" /\ op' = [op EXCEPT ![h].state = "runnable"])
  BY DEF ClaimEvent
<1>2. /\ g # h => op'[g] = op[g]
      /\ op'[g] = op[g] \/ (op[g].state = "absent" /\ op'[g].state = "runnable")
      /\ op'[g].epoch = op[g].epoch
  BY <1>0, <1>1 DEF Operation
<1>3. CASE EventFree(h)
  <2>1. \E n : inbox' = [inbox EXCEPT ![h] = [state |-> "processing", tries |-> n, token |-> n]]
    BY <1>3 DEF ClaimEvent
  <2> QED BY <1>0, <1>2, <1>3, <2>1 DEF Engaged
<1>4. CASE ~EventFree(h)
  <2>1. \E n : inbox' = [inbox EXCEPT ![h].tries = n]
    BY <1>4 DEF ClaimEvent
  <2>2. inbox'[g].state = inbox[g].state /\ (g # h => inbox'[g] = inbox[g])
    BY <1>0, <2>1 DEF Inbox
  <2> QED BY <1>0, <1>2, <1>4, <2>2 DEF Engaged, EventFree
<1> QED BY <1>3, <1>4

\* A claim of the operation takes the next epoch, fails it, or leaves it alone.
LEMMA OperationWrites ==
  ASSUME TypeOK, NEW w \in Workers, ClaimOperation(w), NEW g \in Gens
  PROVE  /\ g # worker[w].gen => op'[g] = op[g]
         /\ \/ op'[g] = op[g] /\ Moves(w, "ack")
            \/ OperationFree(g) /\ op'[g].state = "failed" /\ Moves(w, "ack")
            \/ OperationFree(g) /\ op'[g].state = "claimed"
            \/ g # worker[w].gen
         /\ \/ op'[g].epoch = op[g].epoch /\ Moves(w, "ack")
            \/ g # worker[w].gen
            \/ /\ op'[g].epoch = op[g].epoch + 1
               /\ worker'[w].pc = "admit" /\ worker'[w].epoch = op'[g].epoch
               /\ worker'[w].gen = worker[w].gen /\ worker'[w].pub = worker[w].pub
               /\ \A v \in Workers \ {w} : worker'[v] = worker[v]
<1> DEFINE h == worker[w].gen
<1>0. /\ op \in [Gens -> Operation] /\ h \in Gens /\ op[h] \in Operation
      /\ worker \in [Workers -> Worker] /\ worker[w] \in Worker
  BY DEF TypeOK, Worker
<1>1. CASE /\ OperationFree(h) /\ op[h].epoch < MaxAttempts
           /\ op' = [op EXCEPT ![h] = [state |-> "claimed", epoch |-> op[h].epoch + 1]]
           /\ worker' = [worker EXCEPT ![w] = [@ EXCEPT !.pc = "admit",
                                                        !.epoch = op[h].epoch + 1]]
  <2>1. /\ worker'[w].pc = "admit" /\ worker'[w].epoch = op[h].epoch + 1
        /\ worker'[w].gen = worker[w].gen /\ worker'[w].pub = worker[w].pub
        /\ \A v \in Workers \ {w} : worker'[v] = worker[v]
    BY <1>0, <1>1 DEF Worker
  <2> QED BY <1>0, <1>1, <2>1
<1>2. CASE /\ OperationFree(h)
           /\ op' = [op EXCEPT ![h].state = "failed"]
           /\ To(w, "ack")
  BY <1>0, <1>2, ToMoves DEF Operation
<1>3. CASE op' = op /\ To(w, "ack")
  BY <1>3, ToMoves
<1> QED BY <1>1, <1>2, <1>3 DEF ClaimOperation

\* A completion closes the event and the operation of its own generation.
LEMMA CompletionWrites ==
  ASSUME TypeOK, NEW w \in Workers, CompleteEvent(w), NEW g \in Gens
  PROVE  /\ g # worker[w].gen => inbox'[g] = inbox[g] /\ op'[g] = op[g]
         /\ g = worker[w].gen =>
              /\ inbox[g].state = "processing" /\ op[g].state = "claimed"
              /\ \/ inbox'[g].state = "completed" /\ op'[g].state = "succeeded"
                 \/ inbox'[g].state = "rejected" /\ op'[g].state = "failed"
         /\ op'[g].epoch = op[g].epoch
<1> DEFINE h == worker[w].gen
           failed == worker[w].result \in Failures
<1>0. inbox \in [Gens -> Inbox] /\ op \in [Gens -> Operation] /\ h \in Gens
  BY DEF TypeOK, Worker
<1>1. inbox[h].state = "processing" /\ op[h].state = "claimed"
  BY DEF CompleteEvent, Fenced, OwnsEvent
<1>2. /\ inbox' = [inbox EXCEPT ![h] =
           [@ EXCEPT !.state = IF failed THEN "rejected" ELSE "completed", !.token = 0]]
      /\ op' = [op EXCEPT ![h].state = IF failed THEN "failed" ELSE "succeeded"]
  BY DEF CompleteEvent, CloseEvent
<1>3. inbox'[h].state = (IF failed THEN "rejected" ELSE "completed")
  BY <1>0, <1>2 DEF Inbox
<1>4. op'[h].state = (IF failed THEN "failed" ELSE "succeeded")
  BY <1>0, <1>2 DEF Operation
<1>5. op'[g].epoch = op[g].epoch
  BY <1>0, <1>2 DEF Operation
<1> QED BY <1>0, <1>1, <1>2, <1>3, <1>4, <1>5

\* What a consumer does to the execution of its generation.
LEMMA ExecutionWrites ==
  ASSUME TypeOK, NEW w \in Workers, NEW g \in Gens
  PROVE  /\ ClaimStage(w) =>
              \/ exec'[g] = exec[g] /\ runs'[g] = runs[g]
              \/ /\ g = worker[w].gen /\ worker[w].pc = "stage"
                 /\ \/ exec[g] = "none" /\ exec'[g] = "claimed" /\ runs'[g] = runs[g] + 1
                    \/ exec[g] = "claimed" /\ exec'[g] = "uncertain" /\ runs'[g] = runs[g]
         /\ Finalize(w) =>
              /\ g # worker[w].gen => exec'[g] = exec[g]
              /\ g = worker[w].gen => exec[g] = "claimed" /\ exec'[g] = "applied"
              /\ worker[w].pc = "finalize" /\ runs'[g] = runs[g]
         /\ Settle(w) =>
              /\ \/ exec'[g] = exec[g]
                 \/ exec[g] = "claimed" /\ exec'[g] \in {"failed", "uncertain"}
              /\ runs'[g] = runs[g]
<1> DEFINE h == worker[w].gen
<1>0. exec \in [Gens -> Executions] /\ runs \in [Gens -> Nat] /\ h \in Gens
  BY DEF TypeOK, Worker
<1>1. StageClaim(h) = "execute" => exec[h] = "none"
  BY DEF StageClaim
<1>2. ClaimStage(w) =>
        \/ exec'[g] = exec[g] /\ runs'[g] = runs[g]
        \/ /\ g = h /\ worker[w].pc = "stage"
           /\ \/ exec[g] = "none" /\ exec'[g] = "claimed" /\ runs'[g] = runs[g] + 1
              \/ exec[g] = "claimed" /\ exec'[g] = "uncertain" /\ runs'[g] = runs[g]
  BY <1>0, <1>1 DEF ClaimStage
<1>3. Finalize(w) =>
        /\ g # h => exec'[g] = exec[g]
        /\ g = h => exec[g] = "claimed" /\ exec'[g] = "applied"
        /\ worker[w].pc = "finalize" /\ runs'[g] = runs[g]
  BY <1>0 DEF Finalize, CloseExecution
<1>4. Settle(w) => worker[w].result \in {"uncertain", "failed"}
  BY DEF TypeOK, Settle
<1>5. Settle(w) =>
        /\ \/ exec'[g] = exec[g]
           \/ exec[g] = "claimed" /\ exec'[g] \in {"failed", "uncertain"}
        /\ runs'[g] = runs[g]
  BY <1>0, <1>4 DEF Settle, CloseExecution
<1> QED BY <1>2, <1>3, <1>5

----------------------------------------------------------------------------
(* Which steps touch which records.                                         *)

\* Only these steps write the stage outbox,
LEMMA OutboxFrame ==
  [Next]_vars =>
    \/ UNCHANGED outbox \/ OperatorStep \/ ApplyRecovery
    \/ \E w \in Workers : Apply(w)
    \/ \E g \in Gens : ClaimOutbox(g) \/ ExpireOutbox(g)
    \/ \E p \in pubs : FinalizePublish(p) \/ ReleaseOutbox(p)
BY StepCases
   DEF trigger, Expire, Scan, vars, Send, Receive, ClaimEvent, ClaimOperation, Admit,
       ClaimStage, Run, Finalize, Raise, PostFailure, SkipReport, Settle, CompleteEvent,
       Acknowledge, Drop

\* only these the publications in flight,
LEMMA PubsFrame ==
  [Next]_vars =>
    \/ UNCHANGED pubs
    \/ \E g \in Gens : ClaimOutbox(g)
    \/ \E p \in pubs : Send(p) \/ FinalizePublish(p) \/ ReleaseOutbox(p)
BY StepCases
   DEF trigger, Expire, Scan, vars, ApplyRecovery, OperatorStep, ExpireOutbox, Receive,
       ClaimEvent, ClaimOperation, Admit, ClaimStage, Run, Apply, Finalize, Raise,
       PostFailure, SkipReport, Settle, CompleteEvent, Acknowledge, Drop

\* only these the queue,
LEMMA QueueFrame ==
  [Next]_vars =>
    \/ UNCHANGED queue
    \/ \E p \in pubs : Send(p)
    \/ \E w \in Workers : Acknowledge(w) \/ \E m \in queue : Receive(w, m)
BY StepCases
   DEF trigger, Expire, Scan, vars, ApplyRecovery, OperatorStep, ClaimOutbox, ExpireOutbox,
       FinalizePublish, ReleaseOutbox, ClaimEvent, ClaimOperation, Admit, ClaimStage, Run,
       Apply, Finalize, Raise, PostFailure, SkipReport, Settle, CompleteEvent, Drop

\* only these the event inbox,
LEMMA InboxFrame ==
  [Next]_vars =>
    \/ UNCHANGED inbox \/ ApplyRecovery
    \/ \E w \in Workers : ClaimEvent(w) \/ CompleteEvent(w)
BY StepCases
   DEF claims, Expire, Scan, vars, OperatorStep, ClaimOutbox, ExpireOutbox, Send,
       FinalizePublish, ReleaseOutbox, Receive, ClaimOperation, Admit, ClaimStage, Run,
       Apply, Finalize, Raise, PostFailure, SkipReport, Settle, Acknowledge, Drop

\* only these the operations,
LEMMA OperationFrame ==
  [Next]_vars =>
    \/ UNCHANGED op \/ ApplyRecovery
    \/ \E w \in Workers : ClaimEvent(w) \/ ClaimOperation(w) \/ CompleteEvent(w)
BY StepCases
   DEF claims, Expire, Scan, vars, OperatorStep, ClaimOutbox, ExpireOutbox, Send,
       FinalizePublish, ReleaseOutbox, Receive, Admit, ClaimStage, Run,
       Apply, Finalize, Raise, PostFailure, SkipReport, Settle, Acknowledge, Drop

\* only these the executions and the count of handlers started,
LEMMA ExecutionFrame ==
  [Next]_vars =>
    \/ UNCHANGED <<exec, runs>>
    \/ \E w \in Workers : ClaimStage(w) \/ Finalize(w) \/ Settle(w)
BY StepCases
   DEF claims, Expire, Scan, vars, ApplyRecovery, OperatorStep, ClaimOutbox, ExpireOutbox,
       Send, FinalizePublish, ReleaseOutbox, Receive, ClaimEvent, ClaimOperation, Admit,
       Run, Apply, Raise, PostFailure, SkipReport, CompleteEvent, Acknowledge, Drop

\* and only these move a consumer.
LEMMA WorkerFrame ==
  [Next]_vars =>
    \/ UNCHANGED worker
    \/ \E w \in Workers :
         \/ \E m \in queue : Receive(w, m)
         \/ ClaimEvent(w) \/ ClaimOperation(w) \/ Admit(w) \/ ClaimStage(w)
         \/ Run(w) \/ Apply(w) \/ Finalize(w) \/ Raise(w) \/ PostFailure(w)
         \/ SkipReport(w) \/ Settle(w) \/ CompleteEvent(w) \/ Acknowledge(w) \/ Drop(w)
BY StepCases
   DEF Expire, Scan, vars, ApplyRecovery, OperatorStep, ClaimOutbox, ExpireOutbox, Send,
       FinalizePublish, ReleaseOutbox

\* A generation begun stays begun, and its trigger keeps its stage.
LEMMA BegunKept ==
  TypeOK /\ [Next]_vars =>
    \A g \in Gens : g <= job.epoch => g <= job'.epoch /\ outbox'[g].stage = outbox[g].stage
<1> SUFFICES ASSUME TypeOK, [Next]_vars, NEW g \in Gens, g <= job.epoch
             PROVE  g <= job'.epoch /\ outbox'[g].stage = outbox[g].stage
  OBVIOUS
<1>0. job.epoch \in Nat /\ Gens \subseteq Nat
  BY DEF TypeOK, Job, Gens
<1>1. CASE JobMove
  <2>1. job.epoch <= job'.epoch /\ outbox'[g] = outbox[g]
    BY <1>1, MoveKeeps
  <2>2. job'.epoch \in Nat
    BY <1>0, <1>1 DEF JobMove
  <2> QED BY <1>0, <2>1, <2>2
<1>2. CASE UNCHANGED job /\ outbox'[g].stage = outbox[g].stage
  BY <1>2
<1> QED BY <1>1, <1>2, TriggersKept

----------------------------------------------------------------------------
(* Every record, message and delivery belongs to a generation begun.        *)

\* Where the consumers stand: in a generation begun, and in the handler only
\* of a stage that has one.
WorkersBegun ==
  \A w \in Workers :
    /\ worker[w].pc # "idle" => worker[w].gen <= job.epoch
    /\ worker[w].pc \in {"stage", "run", "apply", "finalize"} =>
         outbox[worker[w].gen].stage \in Handled

\* Every step of a consumer stays in a generation begun.
LEMMA BegunStep == TypeOK /\ InvGenerations /\ [Next]_vars => WorkersBegun'
<1> SUFFICES ASSUME TypeOK, InvGenerations, [Next]_vars PROVE WorkersBegun'
  OBVIOUS
<1>0. /\ job.epoch \in Nat /\ Gens \subseteq Nat
      /\ \A v \in Workers : worker[v].gen \in Gens
  BY DEF TypeOK, Job, Worker, Gens
<1>1. \A g \in Gens : g <= job.epoch =>
        g <= job'.epoch /\ outbox'[g].stage = outbox[g].stage
  BY BegunKept
<1>2. \A v \in Workers : worker'[v] = worker[v] =>
        /\ worker'[v].pc # "idle" => worker'[v].gen <= job'.epoch
        /\ worker'[v].pc \in {"stage", "run", "apply", "finalize"} =>
             outbox'[worker'[v].gen].stage \in Handled
  BY <1>0, <1>1 DEF InvGenerations
<1>3. ASSUME NEW w \in Workers, NEW p, Moves(w, p), worker[w].pc # "idle",
             p \in {"stage", "run", "apply", "finalize"} =>
               outbox[worker[w].gen].stage \in Handled
      PROVE  WorkersBegun'
  <2>1. worker[w].gen \in Gens /\ worker[w].gen <= job.epoch
    BY <1>0, <1>3 DEF InvGenerations
  <2>2. worker'[w].gen <= job'.epoch
    BY <1>1, <1>3, <2>1 DEF Moves
  <2>3. p \in {"stage", "run", "apply", "finalize"} =>
          outbox'[worker'[w].gen].stage \in Handled
    BY <1>1, <1>3, <2>1 DEF Moves
  <2>4. worker'[w].pc = p /\ \A v \in Workers \ {w} : worker'[v] = worker[v]
    BY <1>3 DEF Moves
  <2> QED BY <1>2, <2>2, <2>3, <2>4 DEF WorkersBegun
<1>4. ASSUME NEW w \in Workers, Rests(w) PROVE WorkersBegun'
  BY <1>2, <1>4 DEF WorkersBegun, Rests, Idle
<1>5. CASE UNCHANGED worker
  BY <1>2, <1>5 DEF WorkersBegun
<1>6. ASSUME NEW w \in Workers, NEW m \in queue, Receive(w, m) PROVE WorkersBegun'
  <2>1. m.gen <= job.epoch /\ m.gen \in Gens
    BY DEF TypeOK, InvGenerations, Message
  <2>2. worker'[w].pc = "event" /\ worker'[w].gen = m.gen
    BY <1>6 DEF TypeOK, Receive, Idle
  <2>3. \A v \in Workers \ {w} : worker'[v] = worker[v]
    BY <1>6 DEF TypeOK, Receive
  <2> QED BY <1>1, <1>2, <2>1, <2>2, <2>3 DEF WorkersBegun
<1>7. ASSUME NEW w \in Workers, ClaimOperation(w) PROVE WorkersBegun'
  <2>1. worker[w].pc = "operation"
    BY <1>7 DEF ClaimOperation
  <2>2. CASE Moves(w, "ack")
    BY <2>1, <2>2, <1>3
  <2>3. CASE /\ worker'[w].pc = "admit" /\ worker'[w].gen = worker[w].gen
             /\ \A v \in Workers \ {w} : worker'[v] = worker[v]
    BY <1>0, <1>1, <1>2, <2>1, <2>3 DEF WorkersBegun, InvGenerations
  <2> QED BY <1>0, <1>7, <2>2, <2>3, OperationWrites
<1>8. ASSUME NEW w \in Workers, ClaimEvent(w) \/ CompleteEvent(w) PROVE WorkersBegun'
  <2>1. worker[w].pc # "idle"
    BY <1>8 DEF ClaimEvent, CompleteEvent
  <2> QED BY <1>8, <2>1, <1>3, ConsumerMoves
<1>9. ASSUME NEW w \in Workers, Admit(w) PROVE WorkersBegun'
  <2>1. worker[w].pc # "idle"
    BY <1>9 DEF Admit
  <2> QED BY <1>9, <2>1, <1>3, ConsumerMoves
<1>10. ASSUME NEW w \in Workers, ClaimStage(w) \/ Run(w) \/ Apply(w) PROVE WorkersBegun'
  <2>1. worker[w].pc \in {"stage", "run", "apply"}
    BY <1>10 DEF ClaimStage, Run, Apply
  <2>2. outbox[worker[w].gen].stage \in Handled
    BY <2>1 DEF InvGenerations
  <2> QED BY <1>10, <2>1, <2>2, <1>3, ConsumerMoves
<1>11. ASSUME NEW w \in Workers,
              Finalize(w) \/ Raise(w) \/ PostFailure(w) \/ SkipReport(w) \/ Settle(w)
       PROVE  WorkersBegun'
  <2>1. worker[w].pc # "idle"
    BY <1>11 DEF Finalize, Raise, PostFailure, SkipReport, Settle
  <2> QED BY <1>11, <2>1, <1>3, ConsumerMoves
<1>12. ASSUME NEW w \in Workers, Acknowledge(w) \/ Drop(w) PROVE WorkersBegun'
  BY <1>12, <1>4, ConsumerMoves
<1> QED BY <1>5, <1>6, <1>7, <1>8, <1>9, <1>10, <1>11, <1>12, WorkerFrame

\* No step writes a record, a message or a delivery of a generation not begun.
LEMMA GenerationsStep == TypeOK /\ InvGenerations /\ [Next]_vars => InvGenerations'
<1> SUFFICES ASSUME TypeOK, InvGenerations, [Next]_vars PROVE InvGenerations'
  OBVIOUS
<1>0. /\ job.epoch \in Nat /\ Gens \subseteq Nat
      /\ \A p \in pubs : p \in Publication /\ p.gen \in Gens
      /\ \A m \in queue : m \in Message /\ m.gen \in Gens
  BY DEF TypeOK, Job, Gens, Publication, Message
<1>1. \A g \in Gens : g <= job.epoch =>
        g <= job'.epoch /\ outbox'[g].stage = outbox[g].stage
  BY BegunKept
\* The triggers.
<1>2. \A g \in Gens : outbox'[g].state # "absent" => g <= job'.epoch
  <2> SUFFICES ASSUME NEW g \in Gens, outbox'[g].state # "absent", outbox[g].state = "absent"
               PROVE  g <= job'.epoch
    BY <1>1 DEF InvGenerations
  <2>1. CASE JobMove
    <3>1. g = job'.epoch
      BY <2>1, MoveKeeps
    <3> QED BY <1>0, <3>1
  <2>2. CASE ApplyRecovery
    <3>1. inbox[g].state = "processing"
      BY <2>2, RecoveryWrites
    <3> QED BY <1>1, <3>1 DEF InvGenerations
  <2>3. ASSUME NEW h \in Gens, ClaimOutbox(h) \/ ExpireOutbox(h) PROVE FALSE
    <3>1. CASE ClaimOutbox(h)
      <4>1. outbox[h].state # "absent"
        BY <3>1 DEF ClaimOutbox, Claimable
      <4> QED BY <3>1, <4>1, DispatcherWrites
    <3>2. CASE ExpireOutbox(h)
      BY <3>2, DispatcherWrites
    <3> QED BY <2>3, <3>1, <3>2
  <2>4. ASSUME NEW p \in pubs, FinalizePublish(p) \/ ReleaseOutbox(p) PROVE FALSE
    BY <2>4, DispatcherWrites DEF OwnsOutbox
  <2> QED BY <2>1, <2>2, <2>3, <2>4, OutboxFrame, OperatorMoves, ApplyMoves
\* The events.
<1>3. \A g \in Gens : inbox'[g].state # "absent" => g <= job'.epoch
  <2> SUFFICES ASSUME NEW g \in Gens, inbox'[g].state # "absent", inbox[g].state = "absent"
               PROVE g <= job'.epoch
    BY <1>1 DEF InvGenerations
  <2>1. ASSUME NEW w \in Workers, ClaimEvent(w) PROVE g <= job'.epoch
    <3>1. g = worker[w].gen /\ worker[w].pc # "idle"
      BY <2>1, EventWrites DEF ClaimEvent
    <3> QED BY <1>1, <3>1 DEF InvGenerations
  <2>2. ASSUME NEW w \in Workers, CompleteEvent(w) PROVE FALSE
    <3>1. CASE g = worker[w].gen
      BY <2>2, <3>1, CompletionWrites
    <3>2. CASE g # worker[w].gen
      BY <2>2, <3>2, CompletionWrites
    <3> QED BY <3>1, <3>2
  <2>3. CASE ApplyRecovery
    BY <2>3, RecoveryWrites
  <2> QED BY <2>1, <2>2, <2>3, InboxFrame
\* The executions.
<1>4. \A g \in Gens : exec'[g] # "none" => g <= job'.epoch /\ outbox'[g].stage \in Handled
  <2> SUFFICES ASSUME NEW g \in Gens, exec'[g] # "none"
               PROVE g <= job.epoch /\ outbox[g].stage \in Handled
    BY <1>1
  <2>1. CASE exec[g] # "none"
    BY <2>1 DEF InvGenerations
  <2>2. ASSUME NEW w \in Workers, ClaimStage(w), exec[g] = "none"
        PROVE g <= job.epoch /\ outbox[g].stage \in Handled
    <3>1. g = worker[w].gen /\ worker[w].pc = "stage"
      BY <2>2, ExecutionWrites
    <3> QED BY <3>1 DEF InvGenerations
  <2>3. ASSUME NEW w \in Workers, Finalize(w) \/ Settle(w), exec[g] = "none" PROVE FALSE
    BY <2>3, ExecutionWrites
  <2> QED BY <2>1, <2>2, <2>3, ExecutionFrame
\* The publications.
<1>5. \A p \in pubs' : p.gen <= job'.epoch
  <2> SUFFICES ASSUME NEW q \in pubs' PROVE q.gen \in Gens /\ q.gen <= job.epoch
    BY <1>1
  <2>1. CASE q \in pubs
    BY <1>0, <2>1 DEF InvGenerations
  <2>2. ASSUME NEW h \in Gens, ClaimOutbox(h), q \notin pubs
        PROVE  q.gen \in Gens /\ q.gen <= job.epoch
    <3>1. q.gen = h /\ outbox[h].state # "absent"
      BY <2>2 DEF ClaimOutbox, Claimable
    <3> QED BY <3>1 DEF InvGenerations
  <2>3. ASSUME NEW p \in pubs, Send(p), q \notin pubs
        PROVE  q.gen \in Gens /\ q.gen <= job.epoch
    <3>1. q.gen = p.gen
      BY <1>0, <2>3 DEF Send, Publication
    <3> QED BY <1>0, <3>1 DEF InvGenerations
  <2>4. ASSUME NEW p \in pubs, FinalizePublish(p) \/ ReleaseOutbox(p) PROVE q \in pubs
    BY <2>4 DEF FinalizePublish, ReleaseOutbox
  <2> QED BY <2>1, <2>2, <2>3, <2>4, PubsFrame
\* The messages.
<1>6. \A m \in queue' : m.gen <= job'.epoch
  <2> SUFFICES ASSUME NEW q \in queue' PROVE q.gen \in Gens /\ q.gen <= job.epoch
    BY <1>1
  <2>1. CASE q \in queue
    BY <1>0, <2>1 DEF InvGenerations
  <2>2. ASSUME NEW p \in pubs, Send(p), q \notin queue
        PROVE  q.gen \in Gens /\ q.gen <= job.epoch
    <3>1. q.gen = p.gen
      BY <2>2 DEF Send
    <3> QED BY <1>0, <3>1 DEF InvGenerations
  <2>3. ASSUME NEW w \in Workers, NEW m \in queue, Receive(w, m), q \notin queue
        PROVE  q.gen \in Gens /\ q.gen <= job.epoch
    <3>1. q.gen = m.gen
      BY <1>0, <2>3 DEF Receive, Message
    <3> QED BY <1>0, <3>1 DEF InvGenerations
  <2>4. ASSUME NEW w \in Workers, Acknowledge(w) PROVE q \in queue
    BY <2>4 DEF Acknowledge
  <2> QED BY <2>1, <2>2, <2>3, <2>4, QueueFrame
<1>7. WorkersBegun'
  BY BegunStep
<1> QED BY <1>2, <1>3, <1>4, <1>5, <1>6, <1>7 DEF InvGenerations, WorkersBegun

----------------------------------------------------------------------------
(* No trigger is lost.                                                      *)

\* What is not on the queue any more was acknowledged; a message received is
\* still there, with one delivery less.
LEMMA QueueKeeps ==
  ASSUME TypeOK, [Next]_vars, NEW m \in queue,
         ~\E w \in Workers : /\ Acknowledge(w)
                             /\ m.gen = worker[w].gen /\ m.pub = worker[w].pub
  PROVE  \E q \in queue' : q.gen = m.gen /\ q.pub = m.pub
<1>1. CASE UNCHANGED queue
  BY <1>1
<1>2. ASSUME NEW p \in pubs, Send(p) PROVE m \in queue'
  BY <1>2 DEF Send
<1>3. ASSUME NEW w \in Workers, Acknowledge(w) PROVE m \in queue'
  BY <1>3 DEF Acknowledge
<1>4. ASSUME NEW w \in Workers, NEW k \in queue, Receive(w, k)
      PROVE  \E q \in queue' : q.gen = m.gen /\ q.pub = m.pub
  <2>1. CASE m = k
    <3>1. [k EXCEPT !.left = @ - 1] \in queue'
      BY <1>4 DEF Receive
    <3>2. k \in Message
      BY DEF TypeOK
    <3> QED BY <2>1, <3>1, <3>2 DEF Message
  <2>2. CASE m # k
    BY <1>4, <2>2 DEF Receive
  <2> QED BY <2>1, <2>2
<1> QED BY <1>1, <1>2, <1>3, <1>4, QueueFrame

\* An event taken stays taken, unless recovery returns it with its trigger.
LEMMA EngagedKept ==
  ASSUME TypeOK, [Next]_vars, NEW g \in Gens, Engaged(g)
  PROVE  Engaged(g)' \/ outbox'[g].state = "pending"
<1>1. CASE UNCHANGED inbox
  BY <1>1 DEF Engaged
<1>2. CASE ApplyRecovery
  BY <1>2, RecoveryWrites DEF Engaged
<1>3. ASSUME NEW w \in Workers, ClaimEvent(w) PROVE Engaged(g)'
  BY <1>3, EventWrites DEF Engaged
<1>4. ASSUME NEW w \in Workers, CompleteEvent(w) PROVE Engaged(g)'
  <2>1. CASE g = worker[w].gen
    BY <1>4, <2>1, CompletionWrites DEF Engaged
  <2>2. CASE g # worker[w].gen
    BY <1>4, <2>2, CompletionWrites DEF Engaged
  <2> QED BY <2>1, <2>2
<1> QED BY <1>1, <1>2, <1>3, <1>4, InboxFrame

\* The publication a trigger is at stays covered: the delivery that uses up its
\* message has engaged the event, or the trigger is pending again.
LEMMA CoveredKept ==
  ASSUME TypeOK, InvTrigger, [Next]_vars, NEW g \in Gens, NEW n \in Nat,
         n = outbox[g].tries, outbox[g].state # "pending", Covered(g, n)
  PROVE  Covered(g, n)' \/ outbox'[g].state = "pending"
<1>1. CASE Engaged(g)
  BY <1>1, EngagedKept DEF Covered
<1>2. ASSUME ~Engaged(g), NEW m \in queue, m.gen = g, m.pub = n
      PROVE  Covered(g, n)'
  <2>1. ASSUME NEW w \in Workers, Acknowledge(w), worker[w].gen = g, worker[w].pub = n
        PROVE  FALSE
    <3>1. worker[w].pc = "ack" /\ outbox[g].tries \in Nat
      BY <2>1 DEF Acknowledge, TypeOK, Outbox
    <3>2. Engaged(g) \/ outbox[g].state = "pending" \/ outbox[g].tries > n
      BY <2>1, <3>1 DEF InvTrigger
    <3> QED BY <1>2, <3>1, <3>2
  <2>2. \E q \in queue' : q.gen = g /\ q.pub = n
    BY <1>2, <2>1, QueueKeeps
  <2> QED BY <2>2 DEF Covered
<1> QED BY <1>1, <1>2 DEF Covered

\* Claims for publication are only added, and a generation begun keeps its count
\* unless its trigger is claimed.
LEMMA TriesKept ==
  ASSUME TypeOK, InvGenerations, [Next]_vars, NEW g \in Gens, g <= job.epoch
  PROVE  \/ /\ outbox'[g].tries = outbox[g].tries /\ ~ClaimOutbox(g)
            /\ \/ outbox'[g].state = outbox[g].state
               \/ outbox'[g].state = "pending"
               \/ /\ outbox'[g].state = "published"
                  /\ \E p \in pubs : p.gen = g /\ FinalizePublish(p) /\ OwnsOutbox(p)
         \/ /\ ClaimOutbox(g)
            /\ outbox'[g].tries = outbox[g].tries + 1 /\ outbox'[g].state = "claimed"
<1>0. outbox[g].tries \in Nat
  BY DEF TypeOK, Outbox
<1>1. CASE JobMove
  <2>1. outbox'[g] = outbox[g]
    BY <1>1, MoveKeeps
  <2>2. ClaimOutbox(g) => outbox'[g].tries = outbox[g].tries + 1
    BY DispatcherWrites
  <2> QED BY <1>0, <2>1, <2>2
<1>2. CASE ApplyRecovery
  <2>1. /\ outbox'[g].tries = outbox[g].tries
        /\ outbox'[g].state = outbox[g].state \/ outbox'[g].state = "pending"
    BY <1>2, RecoveryWrites
  <2>2. ClaimOutbox(g) => outbox'[g].tries = outbox[g].tries + 1
    BY DispatcherWrites
  <2> QED BY <1>0, <2>1, <2>2
<1>3. ASSUME NEW h \in Gens, ClaimOutbox(h) \/ ExpireOutbox(h), ~ClaimOutbox(g)
      PROVE  outbox'[g].tries = outbox[g].tries /\ outbox'[g].state = outbox[g].state
  BY <1>3, DispatcherWrites
<1>4. CASE ClaimOutbox(g)
  BY <1>4, DispatcherWrites
<1>5. ASSUME NEW p \in pubs, FinalizePublish(p) \/ ReleaseOutbox(p), ~ClaimOutbox(g)
      PROVE  /\ outbox'[g].tries = outbox[g].tries
             /\ \/ outbox'[g].state = outbox[g].state
                \/ outbox'[g].state = "pending"
                \/ /\ outbox'[g].state = "published"
                   /\ p.gen = g /\ FinalizePublish(p) /\ OwnsOutbox(p)
  <2>1. CASE outbox'[g] = outbox[g]
    BY <2>1
  <2>2. CASE outbox'[g] # outbox[g]
    BY <1>5, <2>2, DispatcherWrites
  <2> QED BY <2>1, <2>2
<1>6. CASE UNCHANGED outbox /\ ~ClaimOutbox(g)
  BY <1>6
<1> QED BY <1>1, <1>2, <1>3, <1>4, <1>5, <1>6, OutboxFrame, OperatorMoves, ApplyMoves

\* What a step does to one consumer: nothing, a step of its delivery, its end,
\* or a new delivery.
LEMMA WorkerCases ==
  ASSUME TypeOK, [Next]_vars, NEW v \in Workers
  PROVE  \/ worker'[v] = worker[v]
         \/ /\ worker[v].pc # "idle"
            /\ worker'[v].gen = worker[v].gen /\ worker'[v].pub = worker[v].pub
            /\ worker[v].pc # "event" \/ ClaimEvent(v)
         \/ worker'[v] = Idle
         \/ \E m \in queue : Receive(v, m)
<1> DEFINE Result ==
      \/ worker'[v] = worker[v]
      \/ /\ worker[v].pc # "idle"
         /\ worker'[v].gen = worker[v].gen /\ worker'[v].pub = worker[v].pub
         /\ worker[v].pc # "event" \/ ClaimEvent(v)
      \/ worker'[v] = Idle
      \/ \E m \in queue : Receive(v, m)
<1>1. CASE UNCHANGED worker
  BY <1>1
<1>2. ASSUME NEW w \in Workers, \E m \in queue : Receive(w, m) PROVE Result
  <2>1. v # w => worker'[v] = worker[v]
    BY <1>2 DEF TypeOK, Receive
  <2> QED BY <1>2, <2>1
<1>3. ASSUME NEW w \in Workers, NEW p, Moves(w, p), worker[w].pc # "idle",
             worker[w].pc # "event" \/ ClaimEvent(w)
      PROVE  Result
  BY <1>3 DEF Moves
<1>4. ASSUME NEW w \in Workers, ClaimEvent(w) PROVE Result
  <2>1. worker[w].pc = "event"
    BY <1>4 DEF ClaimEvent
  <2> QED BY <1>3, <1>4, <2>1, ConsumerMoves
<1>5. ASSUME NEW w \in Workers, ClaimOperation(w) PROVE Result
  <2>1. worker[w].pc = "operation" /\ worker[w].gen \in Gens
    BY <1>5 DEF ClaimOperation, TypeOK, Worker
  <2>2. CASE Moves(w, "ack")
    BY <1>3, <2>1, <2>2
  <2>3. CASE /\ worker'[w].gen = worker[w].gen /\ worker'[w].pub = worker[w].pub
             /\ \A u \in Workers \ {w} : worker'[u] = worker[u]
    BY <2>1, <2>3
  <2> QED BY <1>5, <2>1, <2>2, <2>3, OperationWrites
<1>6. ASSUME NEW w \in Workers,
             Admit(w) \/ ClaimStage(w) \/ Run(w) \/ Apply(w) \/ Finalize(w)
      PROVE  Result
  <2>1. worker[w].pc \in {"admit", "stage", "run", "apply", "finalize"}
    BY <1>6 DEF Admit, ClaimStage, Run, Apply, Finalize
  <2> QED BY <1>3, <1>6, <2>1, ConsumerMoves
<1>7. ASSUME NEW w \in Workers,
             Raise(w) \/ PostFailure(w) \/ SkipReport(w) \/ Settle(w) \/ CompleteEvent(w)
      PROVE  Result
  <2>1. worker[w].pc \in {"run", "apply", "finalize", "report", "settle", "complete"}
    BY <1>7 DEF Raise, PostFailure, SkipReport, Settle, CompleteEvent
  <2> QED BY <1>3, <1>7, <2>1, ConsumerMoves
<1>8. ASSUME NEW w \in Workers, Acknowledge(w) \/ Drop(w) PROVE Result
  <2>1. Rests(w)
    BY <1>8, ConsumerMoves
  <2> QED BY <2>1 DEF Rests
<1> QED BY <1>1, <1>2, <1>4, <1>5, <1>6, <1>7, <1>8, WorkerFrame

\* The count of claims a delivery or a publication is of stays known.
LEMMA TriesGrow ==
  ASSUME TypeOK, InvGenerations, [Next]_vars,
         NEW g \in Gens, g <= job.epoch, NEW n \in Nat, n <= outbox[g].tries
  PROVE  n <= outbox'[g].tries
<1>1. outbox[g].tries \in Nat
  BY DEF TypeOK, Outbox
<1>2. outbox'[g].tries = outbox[g].tries \/ outbox'[g].tries = outbox[g].tries + 1
  BY TriesKept
<1> QED BY <1>1, <1>2

\* A trigger published was written before the step.
LEMMA PublishedBegun ==
  ASSUME TypeOK, InvGenerations, [Next]_vars, NEW g \in Gens, outbox'[g].state = "published"
  PROVE  g <= job.epoch
<1>1. CASE outbox[g].state # "absent"
  BY <1>1 DEF InvGenerations
<1>2. CASE outbox[g].state = "absent"
  <2>1. ~JobMove /\ ~ApplyRecovery /\ outbox'[g] # outbox[g]
    BY <1>2, MoveKeeps, RecoveryWrites
  <2>2. \A h \in Gens : ~ClaimOutbox(h) /\ ~ExpireOutbox(h)
    BY <1>2, DispatcherWrites
  <2>3. \A p \in pubs : ~FinalizePublish(p) /\ ~ReleaseOutbox(p)
    BY <1>2, <2>1, DispatcherWrites DEF OwnsOutbox
  <2> QED BY <2>1, <2>2, <2>3, OutboxFrame, OperatorMoves, ApplyMoves
<1> QED BY <1>1, <1>2

\* Every publication is of a claim its trigger has known, and the publication a
\* claimed trigger is at is covered once it was sent.
LEMMA PublicationsStep ==
  ASSUME TypeOK, InvGenerations, InvTrigger, [Next]_vars, NEW q \in pubs'
  PROVE  /\ q.n <= outbox'[q.gen].tries
         /\ q.pc = "settle" /\ OwnsOutbox(q)' => Covered(q.gen, q.n)'
<1>0. \A p \in pubs : /\ p \in Publication /\ p.gen \in Gens /\ p.n \in Nat
                      /\ p.gen <= job.epoch /\ p.n <= outbox[p.gen].tries
  BY DEF TypeOK, Publication, InvGenerations, InvTrigger
<1>1. ASSUME NEW p \in pubs, q.gen = p.gen, q.n = p.n PROVE q.n <= outbox'[q.gen].tries
  BY <1>0, <1>1, TriesGrow
<1>2. CASE q \in pubs
  <2>1. ASSUME q.pc = "settle", OwnsOutbox(q)' PROVE Covered(q.gen, q.n)'
    <3>1. outbox'[q.gen].state = "claimed" /\ outbox'[q.gen].tries = q.n
      BY <2>1 DEF OwnsOutbox
    <3>2. outbox[q.gen].tries \in Nat
      BY <1>0, <1>2 DEF TypeOK, Outbox
    <3>3. /\ outbox'[q.gen].tries = outbox[q.gen].tries
          /\ outbox[q.gen].state = "claimed"
      <4>1. q.gen \in Gens /\ q.gen <= job.epoch /\ q.n \in Nat /\ q.n <= outbox[q.gen].tries
        BY <1>0, <1>2
      <4>2. outbox'[q.gen].tries # outbox[q.gen].tries + 1
        BY <3>1, <3>2, <4>1
      <4> QED BY <3>1, <4>1, <4>2, TriesKept
    <3>4. Covered(q.gen, q.n)
      BY <1>2, <2>1, <3>1, <3>3 DEF InvTrigger, OwnsOutbox
    <3> QED BY <1>0, <1>2, <3>1, <3>3, <3>4, CoveredKept
  <2> QED BY <1>1, <1>2, <2>1
<1>3. ASSUME NEW h \in Gens, ClaimOutbox(h), q \notin pubs
      PROVE  q.n <= outbox'[q.gen].tries /\ q.pc = "send"
  <2>1. q.gen = h /\ q.n = outbox[h].tries + 1 /\ q.pc = "send"
    BY <1>3 DEF ClaimOutbox
  <2>2. outbox'[h].tries = outbox[h].tries + 1 /\ outbox[h].tries \in Nat
    BY <1>3, DispatcherWrites DEF TypeOK, Outbox
  <2> QED BY <2>1, <2>2
<1>4. ASSUME NEW p \in pubs, Send(p), q \notin pubs
      PROVE  q.gen = p.gen /\ q.n = p.n /\ Covered(q.gen, q.n)'
  <2>1. q.gen = p.gen /\ q.n = p.n
    BY <1>0, <1>4 DEF Send, Publication
  <2>2. [gen |-> p.gen, pub |-> p.n, left |-> MaxReceives] \in queue'
    BY <1>4 DEF Send
  <2> QED BY <2>1, <2>2 DEF Covered
<1>5. ASSUME NEW p \in pubs, FinalizePublish(p) \/ ReleaseOutbox(p) PROVE q \in pubs
  BY <1>5 DEF FinalizePublish, ReleaseOutbox
<1> QED BY <1>1, <1>2, <1>3, <1>4, <1>5, PubsFrame

\* Every message is of a claim its trigger has known.
LEMMA MessagesStep ==
  ASSUME TypeOK, InvGenerations, InvTrigger, [Next]_vars, NEW q \in queue'
  PROVE  q.pub <= outbox'[q.gen].tries
<1>1. \A m \in queue : /\ m \in Message /\ m.gen \in Gens /\ m.pub \in Nat
                       /\ m.gen <= job.epoch /\ m.pub <= outbox[m.gen].tries
  BY DEF TypeOK, Message, InvGenerations, InvTrigger
<1>2. ASSUME NEW m \in queue, q.gen = m.gen, q.pub = m.pub
      PROVE  q.pub <= outbox'[q.gen].tries
  BY <1>1, <1>2, TriesGrow
<1>3. ASSUME NEW p \in pubs, Send(p), q \notin queue PROVE q.pub <= outbox'[q.gen].tries
  <2>1. q.gen = p.gen /\ q.pub = p.n
    BY <1>3 DEF Send
  <2>2. /\ p.n <= outbox[p.gen].tries /\ p.n \in Nat
        /\ p.gen \in Gens /\ p.gen <= job.epoch
    BY DEF TypeOK, Publication, InvGenerations, InvTrigger
  <2> QED BY <2>1, <2>2, TriesGrow
<1>4. ASSUME NEW w \in Workers, NEW m \in queue, Receive(w, m), q \notin queue
      PROVE  q.gen = m.gen /\ q.pub = m.pub
  BY <1>1, <1>4 DEF Receive, Message
<1>5. ASSUME NEW w \in Workers, Acknowledge(w) PROVE q \in queue
  BY <1>5 DEF Acknowledge
<1> QED BY <1>2, <1>3, <1>4, <1>5, QueueFrame

\* A published trigger is covered.
LEMMA PublishedStep ==
  ASSUME TypeOK, InvGenerations, InvTrigger, [Next]_vars,
         NEW g \in Gens, outbox'[g].state = "published"
  PROVE  Covered(g, outbox[g].tries)'
<1>1. g <= job.epoch
  BY PublishedBegun
<1>2. outbox'[g].tries = outbox[g].tries /\ outbox[g].tries \in Nat
  BY <1>1, TriesKept DEF TypeOK, Outbox
<1>3. Covered(g, outbox[g].tries) /\ outbox[g].state # "pending"
  <2>1. CASE outbox[g].state = "published"
    BY <2>1 DEF InvTrigger
  <2>2. ASSUME NEW p \in pubs, p.gen = g, FinalizePublish(p), OwnsOutbox(p)
        PROVE  Covered(g, outbox[g].tries) /\ outbox[g].state = "claimed"
    BY <2>2 DEF InvTrigger, OwnsOutbox, FinalizePublish
  <2> QED BY <1>1, <2>1, <2>2, TriesKept
<1>4. ASSUME NEW n \in Nat, n = outbox[g].tries PROVE Covered(g, n)'
  BY <1>3, <1>4, CoveredKept
<1> QED BY <1>2, <1>4 DEF Covered

\* A delivery past its event was taken, or its trigger is to be published again.
Past(g, n) == Engaged(g) \/ outbox[g].state = "pending" \/ outbox[g].tries > n

\* This stays so while the trigger is claimed, published, released and requeued.
LEMMA PastKept ==
  ASSUME TypeOK, InvGenerations, [Next]_vars,
         NEW g \in Gens, g <= job.epoch, NEW n \in Nat, n <= outbox[g].tries, Past(g, n)
  PROVE  Past(g, n)'
<1>1. outbox[g].tries \in Nat
  BY DEF TypeOK, Outbox
<1>2. \/ /\ outbox'[g].tries = outbox[g].tries
         /\ outbox[g].state = "pending" => outbox'[g].state = "pending"
      \/ outbox'[g].tries = outbox[g].tries + 1
  BY TriesKept DEF OwnsOutbox
<1>3. CASE Engaged(g)
  BY <1>3, EngagedKept DEF Past
<1>4. CASE outbox[g].state = "pending"
  BY <1>1, <1>2, <1>4 DEF Past
<1>5. CASE outbox[g].tries > n
  BY <1>1, <1>2, <1>5 DEF Past
<1> QED BY <1>3, <1>4, <1>5 DEF Past

\* Every delivery is of a claim its trigger has known, and past its event only if
\* the event was taken or the trigger is to be published again.
LEMMA DeliveriesStep ==
  ASSUME TypeOK, InvGenerations, InvTrigger, [Next]_vars, NEW v \in Workers
  PROVE  /\ worker'[v].pc # "idle" => worker'[v].pub <= outbox'[worker'[v].gen].tries
         /\ worker'[v].pc \notin {"idle", "event"} => Past(worker[v].gen, worker[v].pub)'
<1>1. ASSUME worker[v].pc # "idle", NEW g, g = worker[v].gen, NEW n, n = worker[v].pub
      PROVE  /\ n <= outbox'[g].tries
             /\ worker[v].pc # "event" \/ ClaimEvent(v) => Past(g, n)'
  <2>1. g \in Gens /\ g <= job.epoch /\ n \in Nat /\ n <= outbox[g].tries
    BY <1>1 DEF TypeOK, Worker, InvGenerations, InvTrigger
  <2>2. worker[v].pc # "event" => Past(g, n)
    BY <1>1 DEF InvTrigger, Past
  <2>3. ClaimEvent(v) => Past(g, n)'
    BY <1>1, <2>1, EventWrites DEF Past
  <2> QED BY <2>1, <2>2, <2>3, PastKept, TriesGrow
<1>2. CASE worker'[v] = worker[v]
  BY <1>1, <1>2 DEF Past, Engaged
<1>3. CASE /\ worker[v].pc # "idle"
           /\ worker'[v].gen = worker[v].gen /\ worker'[v].pub = worker[v].pub
           /\ worker[v].pc # "event" \/ ClaimEvent(v)
  BY <1>1, <1>3 DEF Past, Engaged
<1>4. CASE worker'[v] = Idle
  BY <1>4 DEF Idle
<1>5. ASSUME NEW m \in queue, Receive(v, m)
      PROVE  worker'[v].pc = "event" /\ worker'[v].pub <= outbox'[worker'[v].gen].tries
  <2>1. worker'[v].pc = "event" /\ worker'[v].gen = m.gen /\ worker'[v].pub = m.pub
    BY <1>5 DEF TypeOK, Receive, Idle
  <2>2. /\ m.gen \in Gens /\ m.gen <= job.epoch
        /\ m.pub \in Nat /\ m.pub <= outbox[m.gen].tries
    BY DEF TypeOK, Message, InvGenerations, InvTrigger
  <2> QED BY <2>1, <2>2, TriesGrow
<1> QED BY <1>2, <1>3, <1>4, <1>5, WorkerCases

\* No step loses a trigger.
LEMMA TriggerStep ==
  TypeOK /\ InvGenerations /\ InvTrigger /\ [Next]_vars => InvTrigger'
<1> SUFFICES ASSUME TypeOK, InvGenerations, InvTrigger, [Next]_vars PROVE InvTrigger'
  OBVIOUS
<1>1. \A p \in pubs' : /\ p.n <= outbox'[p.gen].tries
                       /\ p.pc = "settle" /\ OwnsOutbox(p)' => Covered(p.gen, p.n)'
  BY PublicationsStep
<1>2. \A m \in queue' : m.pub <= outbox'[m.gen].tries
  BY MessagesStep
<1>3. \A g \in Gens : outbox'[g].state = "published" => Covered(g, outbox[g].tries)'
  BY PublishedStep
<1>4. \A w \in Workers :
        /\ worker'[w].pc # "idle" => worker'[w].pub <= outbox'[worker'[w].gen].tries
        /\ worker'[w].pc \notin {"idle", "event"} => Past(worker[w].gen, worker[w].pub)'
  BY DeliveriesStep
<1> QED BY <1>1, <1>2, <1>3, <1>4 DEF InvTrigger, Past

----------------------------------------------------------------------------
(* An operation has one owner.                                              *)

\* A consumer takes the next epoch of its operation, the others none.
TakesEpoch(w) ==
  LET h == worker[w].gen IN
  /\ op'[h].epoch = op[h].epoch + 1
  /\ \A g \in Gens \ {h} : op'[g].epoch = op[g].epoch
  /\ worker'[w].gen = h /\ worker'[w].epoch = op'[h].epoch
  /\ \A v \in Workers \ {w} : worker'[v] = worker[v]

\* No operation gives out an epoch; a consumer keeps its own or is without one.
KeepsEpochs ==
  /\ \A g \in Gens : op'[g].epoch = op[g].epoch
  /\ \A v \in Workers :
       \/ worker'[v].gen = worker[v].gen /\ worker'[v].epoch = worker[v].epoch
       \/ worker'[v].epoch = 0

\* Every step does one or the other.
LEMMA EpochCases ==
  TypeOK /\ [Next]_vars => KeepsEpochs \/ \E w \in Workers : TakesEpoch(w)
<1> SUFFICES ASSUME TypeOK, [Next]_vars
             PROVE  KeepsEpochs \/ \E w \in Workers : TakesEpoch(w)
  OBVIOUS
<1>1. ASSUME NEW w \in Workers, ClaimOperation(w) PROVE KeepsEpochs \/ TakesEpoch(w)
  <2>1. worker[w].gen \in Gens
    BY DEF TypeOK, Worker
  <2>2. \A g \in Gens \ {worker[w].gen} : op'[g].epoch = op[g].epoch
    BY <1>1, OperationWrites
  <2>3. CASE op'[worker[w].gen].epoch = op[worker[w].gen].epoch /\ Moves(w, "ack")
    BY <2>1, <2>2, <2>3 DEF KeepsEpochs, Moves
  <2>4. CASE /\ op'[worker[w].gen].epoch = op[worker[w].gen].epoch + 1
             /\ worker'[w].epoch = op'[worker[w].gen].epoch
             /\ worker'[w].gen = worker[w].gen
             /\ \A v \in Workers \ {w} : worker'[v] = worker[v]
    BY <2>1, <2>2, <2>4 DEF TakesEpoch
  <2> QED BY <1>1, <2>1, <2>3, <2>4, OperationWrites
<1>2. ASSUME ~\E w \in Workers : ClaimOperation(w) PROVE KeepsEpochs
  <2>1. \A g \in Gens : op'[g].epoch = op[g].epoch
    BY <1>2, OperationFrame, RecoveryWrites, EventWrites, CompletionWrites
  <2>2. ASSUME NEW v \in Workers
        PROVE  \/ worker'[v].gen = worker[v].gen /\ worker'[v].epoch = worker[v].epoch
               \/ worker'[v].epoch = 0
    <3>1. ASSUME NEW w \in Workers, NEW m \in queue, Receive(w, m)
          PROVE  worker'[v] = worker[v] \/ worker'[v].epoch = 0
      BY <3>1 DEF TypeOK, Receive, Idle
    <3>2. ASSUME NEW w \in Workers, NEW p, Moves(w, p)
          PROVE  worker'[v].gen = worker[v].gen /\ worker'[v].epoch = worker[v].epoch
      BY <3>2 DEF Moves
    <3>3. ASSUME NEW w \in Workers, Rests(w)
          PROVE  worker'[v] = worker[v] \/ worker'[v].epoch = 0
      BY <3>3 DEF Rests, Idle
    <3>4. ASSUME NEW w \in Workers,
                 \/ ClaimEvent(w) \/ Admit(w) \/ ClaimStage(w) \/ Run(w) \/ Apply(w)
                 \/ Finalize(w) \/ Raise(w) \/ PostFailure(w) \/ SkipReport(w)
                 \/ Settle(w) \/ CompleteEvent(w) \/ Acknowledge(w) \/ Drop(w)
          PROVE  Rests(w) \/ \E p : Moves(w, p)
      BY <3>4, ConsumerMoves
    <3> QED BY <1>2, <3>1, <3>2, <3>3, <3>4, WorkerFrame
  <2> QED BY <2>1, <2>2 DEF KeepsEpochs
<1> QED BY <1>1, <1>2

\* No step lets two consumers hold the same epoch of an operation.
LEMMA OwnersStep == TypeOK /\ InvOwners /\ [Next]_vars => InvOwners'
<1> SUFFICES ASSUME TypeOK, InvOwners, [Next]_vars PROVE InvOwners'
  OBVIOUS
<1>0. /\ \A g \in Gens : op[g].epoch \in Nat /\ op'[g].epoch \in Nat
      /\ \A v \in Workers : /\ worker[v].gen \in Gens /\ worker'[v].gen \in Gens
                            /\ worker[v].epoch \in Nat /\ worker'[v].epoch \in Nat
  BY TypingStep DEF TypeOK, Operation, Worker
<1>1. CASE KeepsEpochs
  <2>1. \A v \in Workers : worker'[v].epoch <= op'[worker'[v].gen].epoch
    BY <1>0, <1>1 DEF KeepsEpochs, InvOwners
  <2>2. ASSUME NEW u \in Workers, NEW v \in Workers, u # v,
               worker'[u].gen = worker'[v].gen, worker'[u].epoch # 0
        PROVE  worker'[u].epoch # worker'[v].epoch
    BY <1>1, <2>2 DEF KeepsEpochs, InvOwners
  <2> QED BY <2>1, <2>2 DEF InvOwners
<1>2. ASSUME NEW w \in Workers, TakesEpoch(w) PROVE InvOwners'
  <2>1. \A v \in Workers : worker'[v].epoch <= op'[worker'[v].gen].epoch
    BY <1>0, <1>2 DEF TakesEpoch, InvOwners
  <2>2. ASSUME NEW v \in Workers, v # w, worker[v].gen = worker[w].gen
        PROVE  worker'[v].epoch # worker'[w].epoch
    <3>1. /\ worker[v].epoch <= op[worker[w].gen].epoch
          /\ worker'[w].epoch = op[worker[w].gen].epoch + 1
          /\ worker'[v].epoch = worker[v].epoch
      BY <1>2, <2>2 DEF TakesEpoch, InvOwners
    <3> QED BY <1>0, <3>1
  <2>3. ASSUME NEW u \in Workers, NEW v \in Workers, u # v,
               worker'[u].gen = worker'[v].gen, worker'[u].epoch # 0
        PROVE  worker'[u].epoch # worker'[v].epoch
    <3>1. CASE u = w
      BY <1>2, <2>2, <2>3, <3>1 DEF TakesEpoch
    <3>2. CASE v = w
      BY <1>2, <2>2, <2>3, <3>2 DEF TakesEpoch
    <3>3. CASE u # w /\ v # w
      BY <1>2, <2>3, <3>3 DEF TakesEpoch, InvOwners
    <3> QED BY <3>1, <3>2, <3>3
  <2> QED BY <2>1, <2>3 DEF InvOwners
<1> QED BY <1>1, <1>2, EpochCases

----------------------------------------------------------------------------
(* An event and its operation close together.                               *)

\* No step closes an event without its operation, or with another outcome.
LEMMA TogetherStep ==
  TypeOK /\ EventAndOperationTogether /\ [Next]_vars => EventAndOperationTogether'
<1> SUFFICES ASSUME TypeOK, EventAndOperationTogether, [Next]_vars, NEW g \in Gens
             PROVE  /\ inbox'[g].state = "completed" <=> op'[g].state = "succeeded"
                    /\ inbox'[g].state = "rejected" => op'[g].state = "failed"
  BY DEF EventAndOperationTogether
<1> DEFINE Result == /\ inbox'[g].state = "completed" <=> op'[g].state = "succeeded"
                     /\ inbox'[g].state = "rejected" => op'[g].state = "failed"
<1>0. /\ inbox[g].state = "completed" <=> op[g].state = "succeeded"
      /\ inbox[g].state = "rejected" => op[g].state = "failed"
  BY DEF EventAndOperationTogether
<1>1. ASSUME NEW w \in Workers, ClaimEvent(w) PROVE Result
  <2>1. \/ EventFree(g) /\ inbox'[g].state = "processing"
        \/ inbox'[g].state = inbox[g].state
    BY <1>1, EventWrites
  <2>2. \/ op'[g] = op[g]
        \/ op[g].state = "absent" /\ op'[g].state = "runnable"
    BY <1>1, EventWrites
  <2> QED BY <1>0, <2>1, <2>2 DEF EventFree
<1>2. ASSUME NEW w \in Workers, ClaimOperation(w) PROVE Result
  <2>1. inbox' = inbox
    BY <1>2 DEF ClaimOperation
  <2>2. \/ op'[g] = op[g]
        \/ OperationFree(g) /\ op'[g].state \in {"failed", "claimed"}
    BY <1>2, OperationWrites
  <2> QED BY <1>0, <2>1, <2>2 DEF OperationFree
<1>3. ASSUME NEW w \in Workers, CompleteEvent(w) PROVE Result
  <2>1. CASE g = worker[w].gen
    BY <1>3, <2>1, CompletionWrites
  <2>2. CASE g # worker[w].gen
    BY <1>0, <1>3, <2>2, CompletionWrites
  <2> QED BY <2>1, <2>2
<1>4. CASE ApplyRecovery
  BY <1>0, <1>4, RecoveryWrites
<1>5. CASE UNCHANGED <<inbox, op>>
  BY <1>0, <1>5
<1>6. (\E w \in Workers : ClaimOperation(w)) => UNCHANGED inbox
  BY DEF ClaimOperation
<1> QED BY <1>1, <1>2, <1>3, <1>4, <1>5, InboxFrame, OperationFrame

----------------------------------------------------------------------------
(* An execution is claimed once and applied after the job has moved on.     *)

\* A generation that has advanced stays so.
LEMMA AdvancedKept ==
  ASSUME TypeOK, [Next]_vars, NEW g \in Gens,
         g <= job.epoch, outbox[g].stage \in Handled, Advanced(g)
  PROVE  Advanced(g)'
BY TriggersKept, MoveKeeps DEF Advanced

\* The handler's last transaction leaves the stage or raises the epoch.
LEMMA ApplyAdvances ==
  ASSUME TypeOK, InvGenerations, NEW w \in Workers, Apply(w),
         NEW g \in Gens, g = worker[w].gen
  PROVE  Advanced(g)'
<1> DEFINE s == outbox[g].stage
<1>0. /\ s \in Handled /\ g <= job.epoch /\ job.epoch \in Nat /\ g \in Nat
      /\ job \in Job
  BY DEF TypeOK, InvGenerations, Apply, Job, Gens
<1>1. ASSUME NEW n \in NextStages[s], Transition(s, n) PROVE Advanced(g)'
  <2>1. n # s
    BY <1>0 DEF NextStages, Handled, Stages
  <2>2. CASE Reached(n) /\ UNCHANGED <<job, outbox>>
    BY <2>1, <2>2 DEF Reached, Advanced
  <2>3. ASSUME NEW j, Advance(j, 0), j \in Job PROVE Advanced(g)'
    <3>1. job'.epoch = job.epoch + 1
      BY <2>3 DEF Advance, Job
    <3> QED BY <1>0, <3>1 DEF Advanced
  <2>4. [job EXCEPT !.stage = n, !.status = "running", !.control = "running"] \in Job
    <3>1. n \in Stages
      BY <1>0, NextStagesTyped DEF Handled, Stages
    <3> QED BY <1>0, <3>1 DEF Job
  <2> QED BY <1>1, <2>2, <2>3, <2>4 DEF Transition
<1>2. CASE s = "draft" /\ UNCHANGED outbox
           /\ job' = [job EXCEPT !.stage = "awaiting_approval",
                                 !.status = "waiting_for_approval"]
  BY <1>0, <1>2 DEF Advanced, Job
<1>3. CASE s = "learn" /\ UNCHANGED outbox
           /\ job' = [job EXCEPT !.stage = "complete", !.status = "complete"]
  BY <1>0, <1>3 DEF Advanced, Job
<1> QED BY <1>1, <1>2, <1>3 DEF Apply, FinalizeArtifactProduction, SaveLearnings

\* A consumer about to finalize was there before, or has just applied its result.
LEMMA Finalizing ==
  ASSUME TypeOK, [Next]_vars, NEW v \in Workers, worker'[v].pc = "finalize"
  PROVE  worker'[v] = worker[v] \/ (Apply(v) /\ worker'[v].gen = worker[v].gen)
<1>1. ASSUME NEW w \in Workers, NEW m \in queue, Receive(w, m)
      PROVE  worker'[v] = worker[v]
  BY <1>1 DEF TypeOK, Receive, Idle
<1>2. ASSUME NEW w \in Workers, NEW p, Moves(w, p), p # "finalize"
      PROVE  worker'[v] = worker[v]
  BY <1>2 DEF Moves
<1>3. ASSUME NEW w \in Workers, Rests(w) PROVE worker'[v] = worker[v]
  BY <1>3 DEF Rests, Idle
<1>4. ASSUME NEW w \in Workers, ClaimOperation(w) PROVE worker'[v] = worker[v]
  <2>1. worker[w].gen \in Gens
    BY DEF TypeOK, Worker
  <2>2. CASE Moves(w, "ack")
    BY <1>2, <2>2
  <2>3. CASE /\ worker'[w].pc = "admit"
             /\ \A u \in Workers \ {w} : worker'[u] = worker[u]
    BY <2>3
  <2> QED BY <1>4, <2>1, <2>2, <2>3, OperationWrites
<1>5. ASSUME NEW w \in Workers, Apply(w)
      PROVE  worker'[v] = worker[v] \/ (Apply(v) /\ worker'[v].gen = worker[v].gen)
  <2>1. Moves(w, "finalize")
    BY <1>5, ConsumerMoves
  <2> QED BY <1>5, <2>1 DEF Moves
<1>6. ASSUME NEW w \in Workers,
             \/ ClaimEvent(w) \/ Admit(w) \/ ClaimStage(w) \/ Run(w)
             \/ Finalize(w) \/ Raise(w) \/ PostFailure(w) \/ SkipReport(w)
             \/ Settle(w) \/ CompleteEvent(w) \/ Acknowledge(w) \/ Drop(w)
      PROVE  Rests(w) \/ \E p : p # "finalize" /\ Moves(w, p)
  <2>1. \A p \in {"operation", "ack", "complete", "report", "stage", "run", "apply", "settle"} :
          p # "finalize"
    OBVIOUS
  <2> QED BY <1>6, <2>1, ConsumerMoves
<1> QED BY <1>1, <1>2, <1>3, <1>4, <1>5, <1>6, WorkerFrame

\* No step starts a handler twice, or records a result before the job moved on.
LEMMA ExecutionStep ==
  TypeOK /\ InvGenerations /\ InvExecution /\ [Next]_vars => InvExecution'
<1> SUFFICES ASSUME TypeOK, InvGenerations, InvExecution, [Next]_vars PROVE InvExecution'
  OBVIOUS
<1>0. \A w \in Workers : worker[w].gen \in Gens
  BY DEF TypeOK, Worker
<1>1. \A g \in Gens : runs'[g] = IF exec'[g] = "none" THEN 0 ELSE 1
  <2> SUFFICES ASSUME NEW g \in Gens PROVE runs'[g] = IF exec'[g] = "none" THEN 0 ELSE 1
    OBVIOUS
  <2>0. runs[g] = IF exec[g] = "none" THEN 0 ELSE 1
    BY DEF InvExecution
  <2>1. CASE UNCHANGED <<exec, runs>>
    BY <2>0, <2>1
  <2>2. ASSUME NEW w \in Workers, ClaimStage(w)
        PROVE  runs'[g] = IF exec'[g] = "none" THEN 0 ELSE 1
    BY <2>0, <2>2, ExecutionWrites
  <2>3. ASSUME NEW w \in Workers, Finalize(w)
        PROVE  runs'[g] = IF exec'[g] = "none" THEN 0 ELSE 1
    <3>1. runs'[g] = runs[g]
      BY <2>3, ExecutionWrites
    <3>2. exec'[g] = exec[g] \/ (exec[g] = "claimed" /\ exec'[g] = "applied")
      BY <2>3, ExecutionWrites
    <3> QED BY <2>0, <3>1, <3>2
  <2>4. ASSUME NEW w \in Workers, Settle(w)
        PROVE  runs'[g] = IF exec'[g] = "none" THEN 0 ELSE 1
    <3>1. runs'[g] = runs[g]
      BY <2>4, ExecutionWrites
    <3>2. exec'[g] = exec[g] \/ (exec[g] = "claimed" /\ exec'[g] \in {"failed", "uncertain"})
      BY <2>4, ExecutionWrites
    <3> QED BY <2>0, <3>1, <3>2
  <2> QED BY <2>1, <2>2, <2>3, <2>4, ExecutionFrame
<1>2. ASSUME NEW g \in Gens, exec'[g] = "applied" PROVE Advanced(g)'
  <2>1. CASE exec[g] = "applied"
    <3>1. g <= job.epoch /\ outbox[g].stage \in Handled /\ Advanced(g)
      BY <2>1 DEF InvGenerations, InvExecution
    <3> QED BY <3>1, AdvancedKept
  <2>2. CASE exec[g] # "applied"
    <3>1. PICK w \in Workers : ClaimStage(w) \/ Finalize(w) \/ Settle(w)
      BY <1>2, <2>2, ExecutionFrame
    <3>2. g = worker[w].gen /\ worker[w].pc = "finalize"
      BY <1>2, <2>2, <3>1, ExecutionWrites
    <3>3. g <= job.epoch /\ outbox[g].stage \in Handled /\ Advanced(g)
      BY <3>2 DEF InvGenerations, InvExecution
    <3> QED BY <3>3, AdvancedKept
  <2> QED BY <2>1, <2>2
<1>3. ASSUME NEW v \in Workers, worker'[v].pc = "finalize", NEW g, g = worker[v].gen
      PROVE  worker'[v].gen = g /\ Advanced(g)'
  <2>1. CASE worker'[v] = worker[v]
    <3>1. g \in Gens /\ g <= job.epoch /\ outbox[g].stage \in Handled /\ Advanced(g)
      BY <1>0, <1>3, <2>1 DEF InvGenerations, InvExecution
    <3> QED BY <1>3, <2>1, <3>1, AdvancedKept
  <2>2. CASE Apply(v) /\ worker'[v].gen = worker[v].gen
    BY <1>0, <1>3, <2>2, ApplyAdvances
  <2> QED BY <1>3, <2>1, <2>2, Finalizing
<1>4. \A v \in Workers : worker'[v].pc = "finalize" => Advanced(worker[v].gen)'
  BY <1>3 DEF Advanced
<1> QED BY <1>1, <1>2, <1>4 DEF InvExecution

----------------------------------------------------------------------------
(* The inductive invariant and what follows from it.                        *)

\* The first state satisfies the inductive invariant.
LEMMA StageInit == Init => StageInv
<1> SUFFICES ASSUME Init PROVE StageInv
  OBVIOUS
<1>0. 0 \in Gens
  BY PipelineAssumption DEF PipelineAssumption, Gens
<1>1. /\ job.epoch = 0 /\ pubs = {} /\ queue = {}
      /\ \A g \in Gens : outbox[g].state # "absent" => g = 0
      /\ \A g \in Gens : outbox[g].state # "published"
  BY DEF Init, Trigger, NoTrigger
<1>2. /\ \A g \in Gens : /\ inbox[g].state = "absent" /\ op[g].state = "absent"
                         /\ op[g].epoch = 0 /\ exec[g] = "none" /\ runs[g] = 0
      /\ \A w \in Workers : worker[w] = Idle
  BY DEF Init
<1>3. InvGenerations
  BY <1>0, <1>1, <1>2 DEF InvGenerations, Idle
<1>4. InvTrigger
  BY <1>1, <1>2 DEF InvTrigger, Idle
<1>5. InvOwners
  BY <1>0, <1>2 DEF InvOwners, Idle
<1>6. InvExecution /\ EventAndOperationTogether
  BY <1>2 DEF InvExecution, EventAndOperationTogether, Idle
<1> QED BY <1>3, <1>4, <1>5, <1>6 DEF StageInv

\* Every step keeps it.
LEMMA StageStep == TypeOK /\ StageInv /\ [Next]_vars => StageInv'
BY GenerationsStep, TriggerStep, OwnersStep, ExecutionStep, TogetherStep DEF StageInv

\* In every reachable state the records, messages and deliveries fit together:
\* the inductive invariant of the stores, the dispatcher, the worker and recovery.
THEOREM Invariance == Spec => []StageInv
<1>1. TypeOK /\ StageInv /\ [Next]_vars => StageInv'
  BY StageStep
<1> QED BY <1>1, StageInit, Typing, PTL DEF Spec

\* A handler is started at most once for a generation, however often its
\* trigger is published, delivered and taken over (stageExecutions.ts).
THEOREM StartedOnce == Spec => []RunsOnce
<1>1. StageInv => RunsOnce
  BY DEF StageInv, InvExecution, RunsOnce
<1> QED BY <1>1, Invariance, PTL

\* The operation of a generation has at most one owner that passes the fence.
THEOREM SingleOwner == Spec => []OneOwner
<1>1. StageInv => OneOwner
  <2> SUFFICES ASSUME StageInv, NEW v \in Workers, NEW w \in Workers,
                      worker[v].epoch # 0, worker[v].gen = worker[w].gen,
                      Fenced(v), Fenced(w), v # w
               PROVE  FALSE
    BY DEF OneOwner
  <2>1. worker[v].epoch = worker[w].epoch
    BY DEF Fenced
  <2> QED BY <2>1 DEF StageInv, InvOwners
<1> QED BY <1>1, Invariance, PTL

\* A published trigger whose event nobody has taken has a message on the queue.
THEOREM TriggerKept == Spec => []TriggerNotLost
<1>1. StageInv => TriggerNotLost
  BY DEF StageInv, InvTrigger, TriggerNotLost, Covered, Engaged
<1> QED BY <1>1, Invariance, PTL

\* An event and its operation close together, with matching outcomes.
THEOREM ClosedTogether == Spec => []EventAndOperationTogether
<1>1. StageInv => EventAndOperationTogether
  BY DEF StageInv
<1> QED BY <1>1, Invariance, PTL

\* An execution recorded as applied has moved the job on.
THEOREM AppliedMoved == Spec => []AppliedIsAdvanced
<1>1. StageInv => AppliedIsAdvanced
  BY DEF StageInv, InvExecution, AppliedIsAdvanced, Advanced
<1> QED BY <1>1, Invariance, PTL

\* A trigger once written is never unwritten.
LEMMA TriggerStays ==
  ASSUME TypeOK, InvGenerations, [Next]_vars, NEW g \in Gens, outbox[g].state # "absent"
  PROVE  outbox'[g].state # "absent"
<1>1. g <= job.epoch
  BY DEF InvGenerations
<1> QED BY <1>1, TriesKept

\* A running job in a stage with a handler has the trigger of its generation,
\* whatever operators, handlers and recovery do, and in whatever order.
THEOREM TriggerOfStage == Spec => []StageHasTrigger
<1>1. Init => StageHasTrigger
  BY PipelineAssumption DEF PipelineAssumption, Init, StageHasTrigger, Trigger, Gens
<1>2. TypeOK /\ StageInv /\ StageHasTrigger /\ [Next]_vars => StageHasTrigger'
  <2> SUFFICES ASSUME TypeOK, InvGenerations, StageHasTrigger, [Next]_vars,
                      job'.control = "running", job'.stage \in Handled
               PROVE  /\ outbox'[job'.epoch].state # "absent"
                      /\ outbox'[job'.epoch].stage = job'.stage
    BY DEF StageInv, StageHasTrigger
  <2>0. job.epoch \in Gens /\ outbox \in [Gens -> Outbox]
    BY DEF TypeOK, Job
  <2>1. ASSUME NEW n \in Nat, job'.epoch = job.epoch + 1, job'.epoch \in Gens,
               outbox' = [outbox EXCEPT ![job.epoch + 1] = Trigger(job'.stage, n)]
        PROVE  /\ outbox'[job'.epoch].state # "absent"
               /\ outbox'[job'.epoch].stage = job'.stage
    <3>1. outbox'[job'.epoch] = Trigger(job'.stage, n)
      BY <2>0, <2>1
    <3> QED BY <3>1 DEF Trigger
  <2>2. CASE /\ job'.epoch = job.epoch /\ job'.control = job.control
             /\ job'.stage = job.stage \/ job'.stage \notin Handled
             /\ outbox' = outbox
    BY <2>2 DEF StageHasTrigger
  <2>3. CASE UNCHANGED job /\ \A g \in Gens : outbox'[g].stage = outbox[g].stage
    BY <2>0, <2>3, TriggerStays DEF StageHasTrigger
  <2>4. CASE JobMove
    BY <2>1, <2>2, <2>4 DEF JobMove
  <2> QED BY <2>3, <2>4, TriggersKept
<1> QED BY <1>1, <1>2, Typing, Invariance, PTL DEF Spec

\* No step reopens an event, an operation or an execution that is closed.
THEOREM StaysClosed == Spec => ClosedStaysClosed
<1> DEFINE Kept ==
      \A g \in Gens :
        /\ inbox[g].state \in {"completed", "rejected"} => inbox'[g].state = inbox[g].state
        /\ op[g].state \in {"succeeded", "failed"} => op'[g] = op[g]
        /\ exec[g] \in {"applied", "failed", "uncertain"} => exec'[g] = exec[g]
<1>1. TypeOK /\ [Next]_vars => Kept
  <2> SUFFICES ASSUME TypeOK, [Next]_vars, NEW g \in Gens
               PROVE  /\ inbox[g].state \in {"completed", "rejected"}
                           => inbox'[g].state = inbox[g].state
                      /\ op[g].state \in {"succeeded", "failed"} => op'[g] = op[g]
                      /\ exec[g] \in {"applied", "failed", "uncertain"} => exec'[g] = exec[g]
    OBVIOUS
  <2>1. ASSUME NEW w \in Workers, CompleteEvent(w)
        PROVE  \/ inbox'[g] = inbox[g] /\ op'[g] = op[g]
               \/ inbox[g].state = "processing" /\ op[g].state = "claimed"
    <3>1. CASE g = worker[w].gen
      BY <2>1, <3>1, CompletionWrites
    <3>2. CASE g # worker[w].gen
      BY <2>1, <3>2, CompletionWrites
    <3> QED BY <3>1, <3>2
  <2>2. inbox[g].state \in {"completed", "rejected"} => inbox'[g].state = inbox[g].state
    <3>1. ASSUME NEW w \in Workers, ClaimEvent(w)
          PROVE  EventFree(g) \/ inbox'[g].state = inbox[g].state
      BY <3>1, EventWrites
    <3>2. CASE ApplyRecovery
      BY <3>2, RecoveryWrites
    <3> QED BY <2>1, <3>1, <3>2, InboxFrame DEF EventFree
  <2>3. op[g].state \in {"succeeded", "failed"} => op'[g] = op[g]
    <3>1. ASSUME NEW w \in Workers, ClaimEvent(w)
          PROVE  op'[g] = op[g] \/ op[g].state = "absent"
      BY <3>1, EventWrites
    <3>2. ASSUME NEW w \in Workers, ClaimOperation(w)
          PROVE  op'[g] = op[g] \/ OperationFree(g)
      BY <3>2, OperationWrites
    <3>3. CASE ApplyRecovery
      BY <3>3, RecoveryWrites
    <3> QED BY <2>1, <3>1, <3>2, <3>3, OperationFrame DEF OperationFree
  <2>4. exec[g] \in {"applied", "failed", "uncertain"} => exec'[g] = exec[g]
    BY ExecutionFrame, ExecutionWrites
  <2> QED BY <2>2, <2>3, <2>4
<1>2. Spec => [][Kept]_vars
  BY <1>1, Typing, PTL DEF Spec
<1> QED BY <1>2 DEF ClosedStaysClosed
============================================================================
