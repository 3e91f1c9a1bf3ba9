------------------------- MODULE EffectCommandProofs -----------------------
(* Proofs, for any commands, workers, leases, budgets and provider results, *)
(* that the records of an effect are well formed, that the provider does an *)
(* effect at most once, that a worker inside the provider call owns the     *)
(* effect, and that the records say what happened.                          *)
EXTENDS EffectCommand, TLAPS

USE EffectAssumption DEF AllResults

(* A record with one field replaced is still a record of its type.          *)

\* Replacing the state of an effect command leaves an effect command.
LEMMA CommandState ==
  \A k \in Command, s \in CommandStates : [k EXCEPT !.state = s] \in Command
BY DEF Command

\* Replacing the state of an effect claim leaves an effect claim.
LEMMA ClaimState ==
  \A k \in Claim, s \in ClaimStates : [k EXCEPT !.state = s] \in Claim
BY DEF Claim

\* Replacing the state of an operation, and dropping its lease, leaves an operation.
LEMMA OperationState ==
  \A o \in Operation, s \in OperationStates :
    /\ [o EXCEPT !.state = s] \in Operation
    /\ [o EXCEPT !.state = s, !.lease = 0] \in Operation
    /\ [o EXCEPT !.lease = 0, !.state = s] \in Operation
BY DEF Operation

\* Replacing the state or the approval of an action leaves an action.
LEMMA ActionField ==
  \A a \in Action :
    /\ \A s \in {"planned", "executed", "failed", "skipped"} :
         [a EXCEPT !.state = s] \in Action
    /\ [a EXCEPT !.approval = "pending"] \in Action
BY DEF Action

\* Moving an execution to its next step leaves an execution.
LEMMA WorkerStepTyped ==
  \A k \in Worker, p \in WorkerSteps, t \in Nat :
    /\ [k EXCEPT !.pc = p, !.at = t] \in Worker
    /\ \A r \in AllResults : [k EXCEPT !.pc = p, !.at = t, !.result = r] \in Worker
BY DEF Worker

\* Reopening a command, as a provider that was not started or an operator
\* who confirmed that nothing happened allows, leaves an effect command.
LEMMA ReopenedTyped == \A k \in Command : Reopened(k) \in Command
BY DEF Command, CommandStates, Reopened

\* An operator command leaves a job in its type: it moves the control state
\* and the control epoch, and possibly the status.
LEMMA JobTyped ==
  \A j \in Job, k \in {"running", "paused", "cancelled"}, n \in Nat,
     s \in {"running", "failed", "complete"} :
    /\ [j EXCEPT !.control = k, !.epoch = n] \in Job
    /\ [j EXCEPT !.control = k, !.epoch = n, !.status = s] \in Job
BY DEF Job

\* The idle execution is an execution.
LEMMA IdleTyped == Idle \in Worker
BY DEF Idle, Worker, WorkerSteps

\* A marker planned for a command and an attempt is a marker.
LEMMA PlannedTyped ==
  \A kind \in {"operation", "effect"}, c \in Commands, n \in Nat,
     d \in {"reconcile_operation", "reconcile_effect", "finalize_observed_effect"} :
    Planned(kind, c, n, d) \in Marker
BY DEF Planned, Marker

----------------------------------------------------------------------------
\* Every transaction, crash and clock tick leaves the records in their types.
LEMMA TypingStep == TypeOK /\ [Next]_vars => TypeOK'
<1> SUFFICES ASSUME TypeOK, [Next]_vars PROVE TypeOK'
  OBVIOUS
<1> USE DEF records
<1>1. ASSUME NEW w \in Workers, NEW c \in Commands, ClaimEffect(w, c) PROVE TypeOK'
  <2>1. claim' \in [Commands -> Claim]
    BY <1>1 DEF TypeOK, ClaimEffect, Claim, ClaimStates, Operation
  <2>2. op' \in [Commands -> Operation]
    BY <1>1 DEF TypeOK, ClaimEffect, Operation, OperationStates
  <2>3. worker' \in [Workers -> Worker]
    BY <1>1 DEF TypeOK, ClaimEffect, Worker, WorkerSteps, Operation
  <2> QED BY <1>1, <2>1, <2>2, <2>3 DEF TypeOK, ClaimEffect
<1>2. ASSUME NEW w \in Workers, NEW c \in Commands, MarkDispatched(w, c) PROVE TypeOK'
  <2>1. worker[w].epoch \in Nat /\ claim[c].attempt \in Nat
    BY DEF TypeOK, Worker, Claim
  <2>2. [cmd[c] EXCEPT !.state = "dispatched", !.epoch = worker[w].epoch,
           !.attempt = claim[c].attempt] \in Command
    <3>1. cmd[c] \in Command
      BY DEF TypeOK
    <3> QED BY <2>1, <3>1 DEF Command, CommandStates
  <2>3. cmd' \in [Commands -> Command]
    BY <1>2, <2>2 DEF TypeOK, MarkDispatched
  <2>4. claim' \in [Commands -> Claim]
    BY <1>2, ClaimState DEF TypeOK, MarkDispatched, ClaimStates
  <2>5. worker' \in [Workers -> Worker]
    BY <1>2, WorkerStepTyped DEF TypeOK, MarkDispatched, WorkerSteps
  <2> QED BY <1>2, <2>3, <2>4, <2>5 DEF TypeOK, MarkDispatched
<1>3. ASSUME NEW w \in Workers, NEW c \in Commands, CallProvider(w, c) PROVE TypeOK'
  <2>1. worker' \in [Workers -> Worker]
    <3>1. PICK r \in Results :
            worker' = [worker EXCEPT ![w] =
                         [@ EXCEPT !.pc = "report", !.at = now, !.result = r]]
      BY <1>3 DEF CallProvider
    <3>2. [worker[w] EXCEPT !.pc = "report", !.at = now, !.result = r] \in Worker
      BY WorkerStepTyped DEF TypeOK, WorkerSteps
    <3> QED BY <3>1, <3>2 DEF TypeOK
  <2>2. performed' \in [Commands -> Nat]
    BY <1>3 DEF TypeOK, CallProvider
  <2> QED BY <1>3, <2>1, <2>2 DEF TypeOK, CallProvider
<1>4. ASSUME NEW w \in Workers, NEW c \in Commands, MarkObserved(w, c) PROVE TypeOK'
  <2>1. [cmd[c] EXCEPT !.state = "observed", !.outcome = worker[w].result] \in Command
    <3>1. cmd[c] \in Command /\ worker[w].result \in {"applied", "failed"}
      BY <1>4 DEF TypeOK, MarkObserved
    <3> QED BY <3>1 DEF Command, CommandStates
  <2>2. cmd' \in [Commands -> Command]
    BY <1>4, <2>1 DEF TypeOK, MarkObserved
  <2>3. claim' \in [Commands -> Claim]
    BY <1>4, ClaimState DEF TypeOK, MarkObserved, ClaimStates
  <2>4. worker' \in [Workers -> Worker]
    BY <1>4, WorkerStepTyped DEF TypeOK, MarkObserved, WorkerSteps
  <2> QED BY <1>4, <2>2, <2>3, <2>4 DEF TypeOK, MarkObserved
<1>5a. ASSUME NEW w \in Workers, NEW c \in Commands, MarkUnknown(w, c) PROVE TypeOK'
  <2>1. cmd' \in [Commands -> Command]
    BY <1>5a, CommandState DEF TypeOK, MarkUnknown, Quarantined, CommandStates
  <2>2. claim' \in [Commands -> Claim]
    BY <1>5a, ClaimState DEF TypeOK, MarkUnknown, ClaimStates
  <2>3. op' \in [Commands -> Operation]
    BY <1>5a, OperationState DEF TypeOK, MarkUnknown, Released, Unresolved, OperationStates
  <2>4. worker' \in [Workers -> Worker]
    BY <1>5a, IdleTyped DEF TypeOK, MarkUnknown
  <2> QED BY <1>5a, <2>1, <2>2, <2>3, <2>4 DEF TypeOK, MarkUnknown
<1>5b. ASSUME NEW w \in Workers, NEW c \in Commands, RestorePrepared(w, c) PROVE TypeOK'
  <2>1. cmd' \in [Commands -> Command]
    BY <1>5b, ReopenedTyped DEF TypeOK, RestorePrepared
  <2>2. claim' \in [Commands -> Claim]
    BY <1>5b, ClaimState DEF TypeOK, RestorePrepared, ClaimStates
  <2>3. op' \in [Commands -> Operation]
    BY <1>5b, OperationState DEF TypeOK, RestorePrepared, Released, Unresolved, OperationStates
  <2>4. worker' \in [Workers -> Worker]
    BY <1>5b, IdleTyped DEF TypeOK, RestorePrepared
  <2> QED BY <1>5b, <2>1, <2>2, <2>3, <2>4 DEF TypeOK, RestorePrepared
<1>5c. ASSUME NEW w \in Workers, NEW c \in Commands, MarkWaitingProvider(w, c) PROVE TypeOK'
  <2>1. cmd' \in [Commands -> Command]
    BY <1>5c, CommandState DEF TypeOK, MarkWaitingProvider, CommandStates
  <2>2. claim' \in [Commands -> Claim]
    BY <1>5c, ClaimState DEF TypeOK, MarkWaitingProvider, ClaimStates
  <2>3. op' \in [Commands -> Operation]
    BY <1>5c, OperationState DEF TypeOK, MarkWaitingProvider, Released, Unresolved, OperationStates
  <2>4. worker' \in [Workers -> Worker]
    BY <1>5c, IdleTyped DEF TypeOK, MarkWaitingProvider
  <2> QED BY <1>5c, <2>1, <2>2, <2>3, <2>4 DEF TypeOK, MarkWaitingProvider
<1>6. ASSUME NEW w \in Workers, NEW c \in Commands, FinalizeReceipt(w, c) PROVE TypeOK'
  <2>1. cmd[c].outcome \in {"applied", "failed"}
    BY <1>6 DEF TypeOK, FinalizeReceipt, Command
  <2>2. cmd' \in [Commands -> Command]
    <3>1. [cmd[c] EXCEPT !.state = cmd[c].outcome] \in Command
      BY <2>1, CommandState DEF TypeOK, CommandStates
    <3> QED BY <1>6, <3>1 DEF TypeOK, FinalizeReceipt
  <2>3. claim' \in [Commands -> Claim]
    <3>1. [claim[c] EXCEPT !.state = cmd[c].outcome] \in Claim
      BY <2>1, ClaimState DEF TypeOK, ClaimStates
    <3> QED BY <1>6, <3>1 DEF TypeOK, FinalizeReceipt
  <2>4. op' \in [Commands -> Operation]
    BY <1>6, OperationState DEF TypeOK, FinalizeReceipt, OperationStates
  <2>5. action' \in [Commands -> Action]
    BY <1>6, ActionField DEF TypeOK, FinalizeReceipt
  <2>6. worker' \in [Workers -> Worker]
    BY <1>6, WorkerStepTyped DEF TypeOK, FinalizeReceipt, WorkerSteps
  <2>7. receipts' \in [Commands -> Nat]
    BY <1>6 DEF TypeOK, FinalizeReceipt
  <2> QED BY <1>6, <2>2, <2>3, <2>4, <2>5, <2>6, <2>7 DEF TypeOK, FinalizeReceipt
<1>7. ASSUME NEW w \in Workers, AdvanceStage(w) \/ Abandon(w) PROVE TypeOK'
  <2>1. worker' \in [Workers -> Worker]
    BY <1>7, IdleTyped DEF TypeOK, AdvanceStage, Abandon
  <2>2. job' \in Job
    BY <1>7 DEF TypeOK, AdvanceStage, Abandon, Job, Stages
  <2> QED BY <1>7, <2>1, <2>2 DEF TypeOK, AdvanceStage, Abandon
<1>8. CASE ScanOperations
  <2>1. \A c \in Commands :
          Planned("operation", c, op[c].attempt, "reconcile_operation") \in Marker
    BY PlannedTyped DEF TypeOK, Operation
  <2>2. recovery' \in Recovery
    BY <1>8, <2>1 DEF TypeOK, ScanOperations, Recovery
  <2> QED BY <1>8, <2>2 DEF TypeOK, ScanOperations
<1>9. CASE ScanEffects
  <2>1. \A c \in Commands :
          Planned("effect", c, cmd[c].attempt,
                  IF cmd[c].state = "observed" THEN "finalize_observed_effect"
                  ELSE "reconcile_effect") \in Marker
    BY PlannedTyped DEF TypeOK, Command
  <2>2. PICK page \in SUBSET Unfinished :
          recovery' = [recovery EXCEPT !.pc = "apply", !.plan = @ \cup
            {Planned("effect", c, cmd[c].attempt,
                     IF cmd[c].state = "observed" THEN "finalize_observed_effect"
                     ELSE "reconcile_effect") : c \in {d \in page : EffectDue(d)}}]
    BY <1>9 DEF ScanEffects
  <2> DEFINE found == {Planned("effect", c, cmd[c].attempt,
                         IF cmd[c].state = "observed" THEN "finalize_observed_effect"
                         ELSE "reconcile_effect") : c \in {d \in page : EffectDue(d)}}
  <2>3. found \subseteq Marker
    BY <2>1 DEF Unfinished
  <2>4. recovery' = [recovery EXCEPT !.pc = "apply", !.plan = @ \cup found]
    BY <2>2
  <2>5. recovery \in Recovery
    BY DEF TypeOK
  <2> HIDE DEF found
  <2>6. recovery' \in Recovery
    BY <2>3, <2>4, <2>5 DEF Recovery
  <2> QED BY <1>9, <2>6 DEF TypeOK, ScanEffects
<1>10. CASE ApplyRecovery
  <2>1. op' \in [Commands -> Operation]
    BY <1>10, OperationState DEF TypeOK, ApplyRecovery, Unresolved, OperationStates
  <2>2. cmd' \in [Commands -> Command]
    BY <1>10, CommandState DEF TypeOK, ApplyRecovery, Quarantined, CommandStates
  <2>3. work' \in SUBSET Marker
    BY <1>10 DEF TypeOK, ApplyRecovery, Emitted, Recovery
  <2>4. recovery' \in Recovery
    BY <1>10 DEF ApplyRecovery, NoRecovery, Recovery
  <2> QED BY <1>10, <2>1, <2>2, <2>3, <2>4 DEF TypeOK, ApplyRecovery
<1>11. CASE DropRecovery
  BY <1>11 DEF TypeOK, DropRecovery, NoRecovery, Recovery
<1>12. ASSUME NEW c \in Commands,
              ConfirmApplied(c) \/ ConfirmNotApplied(c) \/ GiveUp(c)
       PROVE  TypeOK'
  <2> DEFINE toAction == {"planned", "executed", "failed", "skipped"}
             toOp == {"succeeded", "waiting", "cancelled"}
             toCmd == {"applied", "prepared", "cancelled"}
             toClaim == {"applied", "failed"}
  <2>1. \E a \in toAction, o \in toOp, k \in toCmd, l \in toClaim : Resolve(c, a, o, k, l)
    BY <1>12 DEF ConfirmApplied, ConfirmNotApplied, GiveUp
  <2>2. PICK a \in toAction, o \in toOp, k \in toCmd, l \in toClaim : Resolve(c, a, o, k, l)
    BY <2>1
  <2>3. action' \in [Commands -> Action]
    BY <2>2, ActionField DEF TypeOK, Resolve
  <2>4. op' \in [Commands -> Operation]
    BY <2>2, OperationState DEF TypeOK, Resolve, OperationStates
  <2>5. cmd' \in [Commands -> Command]
    BY <2>2, CommandState, ReopenedTyped DEF TypeOK, Resolve, CommandStates
  <2>6. claim' \in [Commands -> Claim]
    BY <2>2, ClaimState DEF TypeOK, Resolve, ClaimStates
  <2>7. receipts' \in [Commands -> Nat]
    BY <1>12 DEF TypeOK, ConfirmApplied, ConfirmNotApplied, GiveUp
  <2> QED BY <2>2, <2>3, <2>4, <2>5, <2>6, <2>7 DEF TypeOK, Resolve
<1>13. CASE Pause \/ Resume
  <2>1. job \in Job
    BY DEF TypeOK
  <2>2. job' \in Job
    <3>1. job.epoch + 1 \in Nat
      BY <2>1 DEF Job
    <3>2. CASE Pause
      BY <2>1, <3>1, <3>2, JobTyped DEF Pause
    <3>3. CASE Resume
      BY <2>1, <3>1, <3>3, JobTyped DEF Resume
    <3> QED BY <1>13, <3>2, <3>3
  <2> QED BY <1>13, <2>2 DEF TypeOK, Pause, Resume
<1>14. \A k \in Command : Cancelled(k) \in Command
  BY CommandState DEF Cancelled, CommandStates
<1>15. CASE Cancel
  <2>1. job' \in Job
    <3>1. job \in Job
      BY DEF TypeOK
    <3>2. job.epoch + 1 \in Nat
      BY <3>1 DEF Job
    <3> QED BY <1>15, <3>1, <3>2, JobTyped DEF Cancel
  <2>2. action' \in [Commands -> Action]
    BY <1>15 DEF TypeOK, Cancel, Action
  <2>3. cmd' \in [Commands -> Command]
    BY <1>14, <1>15 DEF TypeOK, Cancel
  <2> QED BY <1>15, <2>1, <2>2, <2>3 DEF TypeOK, Cancel
<1>16. ASSUME NEW stage \in Stages, NEW withdrawn, Steer(stage, withdrawn)
       PROVE  TypeOK'
  <2>1. job' \in Job
    BY <1>16 DEF TypeOK, Steer, Job
  <2>2. action' \in [Commands -> Action]
    BY <1>16, ActionField DEF TypeOK, Steer
  <2>3. cmd' \in [Commands -> Command]
    BY <1>14, <1>16 DEF TypeOK, Steer
  <2> QED BY <1>16, <2>1, <2>2, <2>3 DEF TypeOK, Steer
<1>17. CASE ApplyNudge
  BY <1>16, <1>17 DEF ApplyNudge, TypeOK, Job
<1>18. ASSUME NEW stage \in Stages, RedoStage(stage) PROVE TypeOK'
  BY <1>16, <1>18 DEF RedoStage
<1>19. CASE Tick
  BY <1>19 DEF TypeOK, Tick
<1>20. CASE UNCHANGED vars
  BY <1>20 DEF TypeOK, vars
<1> QED
  BY <1>1, <1>2, <1>3, <1>4, <1>5a, <1>5b, <1>5c, <1>6, <1>7, <1>8, <1>9, <1>10, <1>11, <1>12,
     <1>13, <1>15, <1>17, <1>18, <1>19, <1>20
     DEF Next, WorkerStep, RecoveryStep, OperatorStep

\* The records, the workers and the recovery request stay in their types.
THEOREM Typing == Spec => []TypeOK
<1>1. Init => TypeOK
  BY DEF Init, TypeOK, Command, Claim, Operation, Action, Job, Worker,
         Recovery, CommandStates, ClaimStates, OperationStates,
         Stages, WorkerSteps, Idle, NoRecovery
<1> QED BY <1>1, TypingStep, PTL DEF Spec

----------------------------------------------------------------------------
(* What a step writes, and who may call the provider.                      *)

\* The steps that touch neither a record, nor a worker, nor the provider.
LEMMA QuietSteps ==
  ScanOperations \/ ScanEffects \/ DropRecovery \/ Pause \/ Resume \/ Tick \/ UNCHANGED vars
    => UNCHANGED <<records, worker, performed>>
BY DEF ScanOperations, ScanEffects, DropRecovery, Pause, Resume, Tick, vars, records

\* Every step is a transaction that matters here, the end of an execution, or quiet.
LEMMA StepCases ==
  [Next]_vars =>
    \/ \E w \in Workers, c \in Commands :
         \/ ClaimEffect(w, c) \/ MarkDispatched(w, c) \/ CallProvider(w, c)
         \/ MarkObserved(w, c) \/ MarkUnknown(w, c) \/ RestorePrepared(w, c)
         \/ MarkWaitingProvider(w, c) \/ FinalizeReceipt(w, c)
    \/ \E w \in Workers : AdvanceStage(w) \/ Abandon(w)
    \/ ApplyRecovery
    \/ \E c \in Commands : ConfirmApplied(c) \/ ConfirmNotApplied(c) \/ GiveUp(c)
    \/ Cancel
    \/ \E stage, withdrawn : Steer(stage, withdrawn)
    \/ UNCHANGED <<records, worker, performed>>
BY QuietSteps DEF Next, WorkerStep, RecoveryStep, OperatorStep, ApplyNudge, RedoStage

\* Recovery takes operations from their owners and makes dispatched commands
\* unknown; it touches nothing else of a command and no other record.
LEMMA RecoveryTouches ==
  ASSUME TypeOK, ApplyRecovery
  PROVE  /\ \A c \in Commands :
              /\ \/ cmd'[c] = cmd[c]
                 \/ cmd[c].state = "dispatched" /\ cmd'[c].state = "unknown"
              /\ cmd'[c].epoch = cmd[c].epoch /\ cmd'[c].outcome = cmd[c].outcome
              /\ (op'[c] = op[c] \/ (op[c].state = "claimed" /\ op'[c] = Unresolved(op[c])))
         /\ UNCHANGED <<action, claim, receipts, worker, performed>>
<1>1. \A k \in Command : /\ Quarantined(k).state = "unknown"
                          /\ Quarantined(k).epoch = k.epoch
                          /\ Quarantined(k).outcome = k.outcome
  BY DEF Command, Quarantined
<1>2. ASSUME NEW c \in Commands
      PROVE  /\ \/ cmd'[c] = cmd[c]
                \/ cmd[c].state = "dispatched" /\ cmd'[c] = Quarantined(cmd[c])
             /\ (op'[c] = op[c] \/ (op[c].state = "claimed" /\ op'[c] = Unresolved(op[c])))
  <2> DEFINE lost == cmd[c].state = "dispatched"
                     /\ \E m \in Emitted : m.action = "reconcile_effect" /\ m.cmd = c
             taken == op[c].state = "claimed"
                      /\ \E m \in Emitted : m.kind = "operation" /\ m.cmd = c
  <2>1. cmd'[c] = IF lost THEN Quarantined(cmd[c]) ELSE cmd[c]
    BY ZenonT(30) DEF ApplyRecovery
  <2>2. op'[c] = IF taken THEN Unresolved(op[c]) ELSE op[c]
    BY ZenonT(30) DEF ApplyRecovery
  <2>3. (lost => cmd[c].state = "dispatched") /\ (taken => op[c].state = "claimed")
    OBVIOUS
  <2>4. cmd'[c] = cmd[c] \/ (cmd[c].state = "dispatched" /\ cmd'[c] = Quarantined(cmd[c]))
    BY <2>1, <2>3, Zenon
  <2>5. op'[c] = op[c] \/ (op[c].state = "claimed" /\ op'[c] = Unresolved(op[c]))
    BY <2>2, <2>3, Zenon
  <2> QED BY <2>4, <2>5
<1>3. \A c \in Commands : cmd[c] \in Command
  BY DEF TypeOK
<1>4. UNCHANGED <<action, claim, receipts, worker, performed>>
  BY DEF ApplyRecovery
<1> QED BY <1>1, <1>2, <1>3, <1>4

(* What the larger transactions write, field by field.                      *)

Elsewhere(c) ==
  \A d \in Commands \ {c} :
    cmd'[d] = cmd[d] /\ claim'[d] = claim[d] /\ op'[d] = op[d] /\ action'[d] = action[d]

OthersStay(w) == \A v \in Workers \ {w} : worker'[v] = worker[v]

ClaimWrites(w, c) ==
  /\ claim[c].state \in {"none", "failed", "claimed"}
  /\ action[c].state = "planned"
  /\ claim'[c].state = "claimed"
  /\ worker'[w].pc = "dispatch"
  /\ Elsewhere(c) /\ OthersStay(w)
  /\ UNCHANGED <<cmd, action, receipts, performed>>

DispatchWrites(w, c) ==
  /\ claim[c].state = "claimed"
  /\ cmd[c].state \in {"prepared", "waiting_provider"}
  /\ cmd'[c].state = "dispatched" /\ cmd'[c].epoch = worker[w].epoch
  /\ claim'[c].state = "dispatched" /\ claim'[c].token = w
  /\ claim'[c].epoch = worker[w].epoch
  /\ worker'[w].pc = "call" /\ worker'[w].cmd = c /\ worker'[w].epoch = worker[w].epoch
  /\ Elsewhere(c) /\ OthersStay(w)
  /\ UNCHANGED <<action, op, receipts, performed>>

FinalizeWrites(w, c) ==
  LET final == cmd[c].outcome IN
    /\ cmd[c].state = "observed" /\ claim[c].state \in {"claimed", "observed"}
    /\ final \in {"applied", "failed"}
    /\ cmd'[c].state = final /\ claim'[c].state = final
    /\ action'[c].state = IF final = "applied" THEN "executed" ELSE "failed"
    /\ op'[c].state = IF final = "applied" THEN "succeeded" ELSE "failed"
    /\ receipts'[c] = receipts[c] + 1
    /\ \A d \in Commands \ {c} : receipts'[d] = receipts[d]
    /\ worker'[w].pc = "advance"
    /\ Elsewhere(c) /\ OthersStay(w)
    /\ UNCHANGED performed

ResolveWrites(c) ==
  /\ cmd[c].state = "unknown" /\ claim[c].state = "unknown"
  /\ \/ /\ performed[c] > 0 /\ receipts'[c] = receipts[c] + 1
        /\ cmd'[c].state = "applied" /\ claim'[c].state = "applied"
        /\ op'[c].state = "succeeded" /\ action'[c].state = "executed"
     \/ /\ performed[c] = 0 /\ receipts'[c] = receipts[c]
        /\ cmd'[c].state = "prepared" /\ claim'[c].state = "failed"
     \/ /\ receipts'[c] = receipts[c]
        /\ cmd'[c].state = "cancelled" /\ claim'[c].state = "failed"
  /\ \A d \in Commands \ {c} : receipts'[d] = receipts[d]
  /\ Elsewhere(c)
  /\ UNCHANGED <<worker, performed>>

\* A claim replaces one that nobody can be calling the provider with.
LEMMA ClaimWritten ==
  ASSUME TypeOK, NEW w \in Workers, NEW c \in Commands, ClaimEffect(w, c)
  PROVE  ClaimWrites(w, c)
<1>1. claim[c].state \in {"none", "failed", "claimed"}
  <2>1. ClaimDecision(c) = "execute"
    BY DEF ClaimEffect, ClaimOutcome
  <2>2. claim[c].state \in ClaimStates
    BY DEF TypeOK, Claim
  <2> QED BY <2>1, <2>2 DEF ClaimStates, ClaimDecision
<1>2. claim'[c].state = "claimed" /\ worker'[w].pc = "dispatch"
  BY DEF TypeOK, ClaimEffect
<1>3. Elsewhere(c) /\ OthersStay(w)
  BY DEF TypeOK, ClaimEffect, Elsewhere, OthersStay
<1> QED BY <1>1, <1>2, <1>3 DEF ClaimEffect, ClaimWrites, Current

\* A dispatch makes the worker that owns the claim its caller.
LEMMA DispatchWritten ==
  ASSUME TypeOK, NEW w \in Workers, NEW c \in Commands, MarkDispatched(w, c)
  PROVE  DispatchWrites(w, c)
<1>1. cmd[c] \in Command /\ worker[w] \in Worker /\ claim[c] \in Claim
  BY DEF TypeOK
<1>2. \A k \in Command, e, n \in Nat :
        /\ [k EXCEPT !.state = "dispatched", !.epoch = e, !.attempt = n].state = "dispatched"
        /\ [k EXCEPT !.state = "dispatched", !.epoch = e, !.attempt = n].epoch = e
  BY DEF Command
<1>3. \A k \in Worker :
        /\ [k EXCEPT !.pc = "call", !.at = 0].pc = "call"
        /\ [k EXCEPT !.pc = "call", !.at = 0].cmd = k.cmd
        /\ [k EXCEPT !.pc = "call", !.at = 0].epoch = k.epoch
  BY DEF Worker
<1>4. worker[w].epoch \in Nat /\ claim[c].attempt \in Nat
  BY <1>1 DEF Worker, Claim
<1>5. cmd'[c].state = "dispatched" /\ cmd'[c].epoch = worker[w].epoch
  BY <1>1, <1>2, <1>4 DEF TypeOK, MarkDispatched
<1>6. worker'[w].pc = "call" /\ worker'[w].cmd = c /\ worker'[w].epoch = worker[w].epoch
  BY <1>1, <1>3 DEF TypeOK, MarkDispatched, Fenced
<1>7. /\ claim'[c].state = "dispatched" /\ claim'[c].token = w
      /\ claim'[c].epoch = worker[w].epoch
  BY DEF TypeOK, Claim, MarkDispatched, OwnsClaim
<1>8. Elsewhere(c) /\ OthersStay(w)
  BY DEF TypeOK, MarkDispatched, Elsewhere, OthersStay
<1> QED BY <1>5, <1>6, <1>7, <1>8 DEF MarkDispatched, DispatchWrites

\* A receipt closes command, claim, operation and action with one outcome.
LEMMA FinalizeWritten ==
  ASSUME TypeOK, NEW w \in Workers, NEW c \in Commands, FinalizeReceipt(w, c)
  PROVE  FinalizeWrites(w, c)
<1>1. cmd[c] \in Command /\ worker[w] \in Worker /\ claim[c] \in Claim
      /\ op[c] \in Operation /\ action[c] \in Action
  BY DEF TypeOK
<1>2. cmd[c].outcome \in {"applied", "failed"}
  BY <1>1 DEF FinalizeReceipt, Command
<1>3. cmd'[c].state = cmd[c].outcome /\ claim'[c].state = cmd[c].outcome
  BY <1>1 DEF TypeOK, FinalizeReceipt, Command, Claim
<1>4. \A o \in Operation, s \in OperationStates : [o EXCEPT !.lease = 0, !.state = s].state = s
  BY DEF Operation
<1>5. op'[c].state = IF cmd[c].outcome = "applied" THEN "succeeded" ELSE "failed"
  BY <1>1, <1>4 DEF TypeOK, FinalizeReceipt, OperationStates
<1>6. action'[c].state = IF cmd[c].outcome = "applied" THEN "executed" ELSE "failed"
  BY <1>1 DEF TypeOK, FinalizeReceipt, Action
<1>7. worker'[w].pc = "advance"
  <2>1. \A k \in Worker : [k EXCEPT !.pc = "advance", !.at = 0].pc = "advance"
    BY DEF Worker
  <2> QED BY <1>1, <2>1 DEF TypeOK, FinalizeReceipt
<1>8. receipts'[c] = receipts[c] + 1 /\ \A d \in Commands \ {c} : receipts'[d] = receipts[d]
  BY DEF TypeOK, FinalizeReceipt
<1>9. Elsewhere(c) /\ OthersStay(w)
  BY DEF TypeOK, FinalizeReceipt, Elsewhere, OthersStay
<1> QED BY <1>2, <1>3, <1>5, <1>6, <1>7, <1>8, <1>9 DEF FinalizeReceipt, FinalizeWrites

\* A resolution acts on an unknown effect only and closes or reopens it.
LEMMA ResolveWritten ==
  ASSUME TypeOK, NEW c \in Commands, ConfirmApplied(c) \/ ConfirmNotApplied(c) \/ GiveUp(c)
  PROVE  ResolveWrites(c)
<1>1. cmd[c] \in Command /\ claim[c] \in Claim /\ op[c] \in Operation /\ action[c] \in Action
  BY DEF TypeOK
<1>2. ASSUME NEW a, NEW o, NEW k, NEW l, Resolve(c, a, o, k, l)
      PROVE  /\ cmd[c].state = "unknown" /\ claim[c].state = "unknown"
             /\ cmd'[c].state = k /\ claim'[c].state = l /\ op'[c].state = o
             /\ action'[c].state = a
             /\ Elsewhere(c) /\ UNCHANGED <<worker, performed>>
  <2>1. cmd[c].state = "unknown" /\ claim[c].state = "unknown"
    BY <1>2 DEF Resolve, Resolvable
  <2>2. cmd'[c].state = k
    <3>1. Reopened(cmd[c]).state = "prepared"
      BY <1>1 DEF Reopened, Command
    <3> QED BY <1>1, <1>2, <3>1 DEF TypeOK, Resolve, Command
  <2>3. claim'[c].state = l /\ op'[c].state = o /\ action'[c].state = a
    BY <1>1, <1>2 DEF TypeOK, Resolve, Claim, Operation, Action
  <2>4. Elsewhere(c) /\ UNCHANGED <<worker, performed>>
    BY <1>2 DEF TypeOK, Resolve, Elsewhere
  <2> QED BY <2>1, <2>2, <2>3, <2>4
<1>3. CASE ConfirmApplied(c)
  <2>1. receipts'[c] = receipts[c] + 1 /\ \A d \in Commands \ {c} : receipts'[d] = receipts[d]
    BY <1>3 DEF TypeOK, ConfirmApplied
  <2> QED BY <1>2, <1>3, <2>1 DEF ConfirmApplied, ResolveWrites
<1>4. CASE ConfirmNotApplied(c)
  BY <1>2, <1>4 DEF ConfirmNotApplied, ResolveWrites
<1>5. CASE GiveUp(c)
  <2>1. PICK s \in {"failed", "skipped"} : Resolve(c, s, "cancelled", "cancelled", "failed")
    BY <1>5 DEF GiveUp
  <2> QED BY <1>2, <1>5, <2>1 DEF GiveUp, ResolveWrites
<1> QED BY <1>3, <1>4, <1>5

\* No step takes the claim from under a worker inside the provider call.
LEMMA CallerKept == EffectInv /\ [Next]_vars => CallerHolds'
<1> SUFFICES ASSUME EffectInv, [Next]_vars PROVE CallerHolds'
  OBVIOUS
<1> USE DEF CallerHolds
<1>1. ASSUME NEW w \in Workers, NEW c \in Commands, ClaimEffect(w, c) PROVE CallerHolds'
  BY <1>1, ClaimWritten
     DEF EffectInv, ClaimWrites, Elsewhere, OthersStay, Calling, OwnsClaim
<1>2. ASSUME NEW w \in Workers, NEW c \in Commands, MarkDispatched(w, c) PROVE CallerHolds'
  BY <1>2, DispatchWritten
     DEF EffectInv, DispatchWrites, Elsewhere, OthersStay, Calling, OwnsClaim
<1>3. ASSUME NEW w \in Workers, NEW c \in Commands, CallProvider(w, c) PROVE CallerHolds'
  BY <1>3 DEF EffectInv, TypeOK, CallProvider, records, Calling, OwnsClaim
<1>4. ASSUME NEW w \in Workers, NEW c \in Commands, MarkObserved(w, c) PROVE CallerHolds'
  BY <1>4 DEF EffectInv, TypeOK, MarkObserved, Calling, OwnsClaim, Reporting, Fenced
<1>5. ASSUME NEW w \in Workers, NEW c \in Commands, MarkUnknown(w, c) PROVE CallerHolds'
  BY <1>5
     DEF EffectInv, TypeOK, MarkUnknown, Calling, OwnsClaim, Reporting, Fenced, Idle,
         Unresolved, Quarantined
<1>6. ASSUME NEW w \in Workers, NEW c \in Commands, RestorePrepared(w, c) PROVE CallerHolds'
  BY <1>6
     DEF EffectInv, TypeOK, RestorePrepared, Calling, OwnsClaim, Reporting, Fenced, Idle,
         Released, Reopened
<1>7. ASSUME NEW w \in Workers, NEW c \in Commands, MarkWaitingProvider(w, c)
      PROVE  CallerHolds'
  BY <1>7
     DEF EffectInv, TypeOK, MarkWaitingProvider, Calling, OwnsClaim, Reporting, Fenced,
         Idle, Released
<1>8. ASSUME NEW w \in Workers, NEW c \in Commands, FinalizeReceipt(w, c) PROVE CallerHolds'
  BY <1>8, FinalizeWritten
     DEF EffectInv, FinalizeWrites, Elsewhere, OthersStay, Calling, OwnsClaim
<1>9. ASSUME NEW w \in Workers, AdvanceStage(w) \/ Abandon(w) PROVE CallerHolds'
  BY <1>9 DEF EffectInv, TypeOK, AdvanceStage, Abandon, Idle, records, Calling, OwnsClaim
<1>10. CASE ApplyRecovery
  BY <1>10, RecoveryTouches DEF EffectInv, TypeOK, Calling, OwnsClaim
<1>11. ASSUME NEW c \in Commands, ConfirmApplied(c) \/ ConfirmNotApplied(c) \/ GiveUp(c)
       PROVE  CallerHolds'
  BY <1>11, ResolveWritten DEF EffectInv, ResolveWrites, Elsewhere, Calling, OwnsClaim
<1>12. CASE Cancel
  BY <1>12 DEF EffectInv, TypeOK, Cancel, Cancelled, Calling, OwnsClaim
<1>13. ASSUME NEW stage, NEW withdrawn, Steer(stage, withdrawn) PROVE CallerHolds'
  BY <1>13 DEF EffectInv, TypeOK, Steer, Cancelled, Calling, OwnsClaim
<1>14. CASE UNCHANGED <<records, worker, performed>>
  BY <1>14 DEF EffectInv, TypeOK, records, Calling, OwnsClaim
<1> QED
  BY <1>1, <1>2, <1>3, <1>4, <1>5, <1>6, <1>7, <1>8, <1>9, <1>10, <1>11, <1>12, <1>13, <1>14,
     StepCases

\* An action is withdrawn or closed only with, or in the absence of, a live claim.
LEMMA PlannedKept == EffectInv /\ [Next]_vars => ClaimedIsPlanned'
<1> SUFFICES ASSUME EffectInv, [Next]_vars PROVE ClaimedIsPlanned'
  OBVIOUS
<1> USE DEF ClaimedIsPlanned
<1>1. ASSUME NEW w \in Workers, NEW c \in Commands, ClaimEffect(w, c)
      PROVE  ClaimedIsPlanned'
  BY <1>1, ClaimWritten DEF EffectInv, ClaimWrites, Elsewhere, OthersStay
<1>2. ASSUME NEW w \in Workers, NEW c \in Commands, MarkDispatched(w, c)
      PROVE  ClaimedIsPlanned'
  BY <1>2, DispatchWritten DEF EffectInv, DispatchWrites, Elsewhere, OthersStay
<1>3. ASSUME NEW w \in Workers, NEW c \in Commands, CallProvider(w, c)
      PROVE  ClaimedIsPlanned'
  BY <1>3 DEF EffectInv, TypeOK, CallProvider, records
<1>4. ASSUME NEW w \in Workers, NEW c \in Commands, MarkObserved(w, c)
      PROVE  ClaimedIsPlanned'
  BY <1>4 DEF EffectInv, TypeOK, MarkObserved, Reporting, Fenced
<1>5. ASSUME NEW w \in Workers, NEW c \in Commands, MarkUnknown(w, c)
      PROVE  ClaimedIsPlanned'
  BY <1>5
     DEF EffectInv, TypeOK, MarkUnknown, Reporting, Fenced, Idle, Unresolved, Quarantined
<1>6. ASSUME NEW w \in Workers, NEW c \in Commands, RestorePrepared(w, c)
      PROVE  ClaimedIsPlanned'
  BY <1>6
     DEF EffectInv, TypeOK, RestorePrepared, Reporting, Fenced, Idle, Released, Reopened
<1>7. ASSUME NEW w \in Workers, NEW c \in Commands, MarkWaitingProvider(w, c)
      PROVE  ClaimedIsPlanned'
  BY <1>7 DEF EffectInv, TypeOK, MarkWaitingProvider, Reporting, Fenced, Idle, Released
<1>8. ASSUME NEW w \in Workers, NEW c \in Commands, FinalizeReceipt(w, c)
      PROVE  ClaimedIsPlanned'
  BY <1>8, FinalizeWritten DEF EffectInv, FinalizeWrites, Elsewhere, OthersStay
<1>9. ASSUME NEW w \in Workers, AdvanceStage(w) \/ Abandon(w) PROVE ClaimedIsPlanned'
  BY <1>9 DEF EffectInv, TypeOK, AdvanceStage, Abandon, Idle, records
<1>10. CASE ApplyRecovery
  BY <1>10, RecoveryTouches DEF EffectInv, TypeOK
<1>11. ASSUME NEW c \in Commands, ConfirmApplied(c) \/ ConfirmNotApplied(c) \/ GiveUp(c)
       PROVE  ClaimedIsPlanned'
  BY <1>11, ResolveWritten DEF EffectInv, ResolveWrites, Elsewhere
<1>12. CASE Cancel
  BY <1>12 DEF EffectInv, TypeOK, Cancel, Cancelled, InFlight
<1>13. ASSUME NEW stage, NEW withdrawn, Steer(stage, withdrawn) PROVE ClaimedIsPlanned'
  BY <1>13 DEF EffectInv, TypeOK, Steer, Cancelled
<1>14. CASE UNCHANGED <<records, worker, performed>>
  BY <1>14 DEF EffectInv, TypeOK, records
<1> QED
  BY <1>1, <1>2, <1>3, <1>4, <1>5, <1>6, <1>7, <1>8, <1>9, <1>10, <1>11, <1>12, <1>13, <1>14,
     StepCases

\* What a worker knows of its effect stays true: nobody else can call for it.
LEMMA WorkerKnowsKept == EffectInv /\ [Next]_vars => WorkerKnows'
<1> SUFFICES ASSUME EffectInv, [Next]_vars PROVE WorkerKnows'
  OBVIOUS
<1> USE DEF WorkerKnows
<1>1. ASSUME NEW w \in Workers, NEW c \in Commands, ClaimEffect(w, c) PROVE WorkerKnows'
  BY <1>1, ClaimWritten DEF EffectInv, ClaimWrites, Elsewhere, OthersStay, RecordKnows
<1>2. ASSUME NEW w \in Workers, NEW c \in Commands, MarkDispatched(w, c) PROVE WorkerKnows'
  BY <1>2, DispatchWritten DEF EffectInv, DispatchWrites, Elsewhere, OthersStay, RecordKnows
<1>3. ASSUME NEW w \in Workers, NEW c \in Commands, CallProvider(w, c) PROVE WorkerKnows'
  BY <1>3
     DEF EffectInv, TypeOK, CallProvider, records, CallerHolds, RecordKnows, Calling,
         OwnsClaim
<1>4. ASSUME NEW w \in Workers, NEW c \in Commands, MarkObserved(w, c) PROVE WorkerKnows'
  BY <1>4 DEF EffectInv, TypeOK, MarkObserved, Reporting, Fenced
<1>5. ASSUME NEW w \in Workers, NEW c \in Commands, MarkUnknown(w, c) PROVE WorkerKnows'
  BY <1>5
     DEF EffectInv, TypeOK, MarkUnknown, Reporting, Fenced, Idle, Unresolved, Quarantined
<1>6. ASSUME NEW w \in Workers, NEW c \in Commands, RestorePrepared(w, c) PROVE WorkerKnows'
  BY <1>6
     DEF EffectInv, TypeOK, RestorePrepared, Reporting, Fenced, Idle, Released, Reopened
<1>7. ASSUME NEW w \in Workers, NEW c \in Commands, MarkWaitingProvider(w, c)
      PROVE  WorkerKnows'
  BY <1>7 DEF EffectInv, TypeOK, MarkWaitingProvider, Reporting, Fenced, Idle, Released
<1>8. ASSUME NEW w \in Workers, NEW c \in Commands, FinalizeReceipt(w, c) PROVE WorkerKnows'
  BY <1>8, FinalizeWritten DEF EffectInv, FinalizeWrites, Elsewhere, OthersStay, RecordKnows
<1>9. ASSUME NEW w \in Workers, AdvanceStage(w) \/ Abandon(w) PROVE WorkerKnows'
  BY <1>9 DEF EffectInv, TypeOK, AdvanceStage, Abandon, Idle, records
<1>10. CASE ApplyRecovery
  BY <1>10, RecoveryTouches DEF EffectInv, TypeOK
<1>11. ASSUME NEW c \in Commands, ConfirmApplied(c) \/ ConfirmNotApplied(c) \/ GiveUp(c)
       PROVE  WorkerKnows'
  BY <1>11, ResolveWritten DEF EffectInv, ResolveWrites, Elsewhere, RecordKnows
<1>12. CASE Cancel
  BY <1>12 DEF EffectInv, TypeOK, Cancel, Cancelled
<1>13. ASSUME NEW stage, NEW withdrawn, Steer(stage, withdrawn) PROVE WorkerKnows'
  BY <1>13 DEF EffectInv, TypeOK, Steer, Cancelled
<1>14. CASE UNCHANGED <<records, worker, performed>>
  BY <1>14 DEF EffectInv, TypeOK, records
<1> QED
  BY <1>1, <1>2, <1>3, <1>4, <1>5, <1>6, <1>7, <1>8, <1>9, <1>10, <1>11, <1>12, <1>13, <1>14,
     StepCases

\* What the records say of the provider stays true.
LEMMA RecordKnowsKept == EffectInv /\ [Next]_vars => RecordKnows'
<1> SUFFICES ASSUME EffectInv, [Next]_vars PROVE RecordKnows'
  OBVIOUS
<1> USE DEF RecordKnows
<1>1. ASSUME NEW w \in Workers, NEW c \in Commands, ClaimEffect(w, c) PROVE RecordKnows'
  BY <1>1, ClaimWritten DEF EffectInv, ClaimWrites, Elsewhere, OthersStay
<1>2. ASSUME NEW w \in Workers, NEW c \in Commands, MarkDispatched(w, c) PROVE RecordKnows'
  BY <1>2, DispatchWritten DEF EffectInv, DispatchWrites, Elsewhere, OthersStay
<1>3. ASSUME NEW w \in Workers, NEW c \in Commands, CallProvider(w, c) PROVE RecordKnows'
  BY <1>3
     DEF EffectInv, TypeOK, CallProvider, records, CallerHolds, WorkerKnows, Calling,
         OwnsClaim
<1>4. ASSUME NEW w \in Workers, NEW c \in Commands, MarkObserved(w, c) PROVE RecordKnows'
  BY <1>4 DEF EffectInv, TypeOK, MarkObserved, Reporting, Fenced, WorkerKnows
<1>5. ASSUME NEW w \in Workers, NEW c \in Commands, MarkUnknown(w, c) PROVE RecordKnows'
  BY <1>5
     DEF EffectInv, TypeOK, MarkUnknown, Reporting, Fenced, Idle, Unresolved, Quarantined
<1>6. ASSUME NEW w \in Workers, NEW c \in Commands, RestorePrepared(w, c) PROVE RecordKnows'
  BY <1>6
     DEF EffectInv, TypeOK, RestorePrepared, Reporting, Fenced, Idle, Released, Reopened,
         WorkerKnows
<1>7. ASSUME NEW w \in Workers, NEW c \in Commands, MarkWaitingProvider(w, c)
      PROVE  RecordKnows'
  BY <1>7
     DEF EffectInv, TypeOK, MarkWaitingProvider, Reporting, Fenced, Idle, Released,
         WorkerKnows
<1>8. ASSUME NEW w \in Workers, NEW c \in Commands, FinalizeReceipt(w, c) PROVE RecordKnows'
  BY <1>8, FinalizeWritten DEF EffectInv, FinalizeWrites, Elsewhere, OthersStay
<1>9. ASSUME NEW w \in Workers, AdvanceStage(w) \/ Abandon(w) PROVE RecordKnows'
  BY <1>9 DEF EffectInv, TypeOK, AdvanceStage, Abandon, Idle, records
<1>10. CASE ApplyRecovery
  BY <1>10, RecoveryTouches DEF EffectInv, TypeOK
<1>11. ASSUME NEW c \in Commands, ConfirmApplied(c) \/ ConfirmNotApplied(c) \/ GiveUp(c)
       PROVE  RecordKnows'
  BY <1>11, ResolveWritten DEF EffectInv, ResolveWrites, Elsewhere
<1>12. CASE Cancel
  BY <1>12 DEF EffectInv, TypeOK, Cancel, Cancelled
<1>13. ASSUME NEW stage, NEW withdrawn, Steer(stage, withdrawn) PROVE RecordKnows'
  BY <1>13 DEF EffectInv, TypeOK, Steer, Cancelled
<1>14. CASE UNCHANGED <<records, worker, performed>>
  BY <1>14 DEF EffectInv, TypeOK, records
<1> QED
  BY <1>1, <1>2, <1>3, <1>4, <1>5, <1>6, <1>7, <1>8, <1>9, <1>10, <1>11, <1>12, <1>13, <1>14,
     StepCases

\* Receipt, command, claim, operation and action close in one transaction.
LEMMA ClosedKept == EffectInv /\ [Next]_vars => ClosedTogether'
<1> SUFFICES ASSUME EffectInv, [Next]_vars PROVE ClosedTogether'
  OBVIOUS
<1> USE DEF ClosedTogether
<1>1. ASSUME NEW w \in Workers, NEW c \in Commands, ClaimEffect(w, c) PROVE ClosedTogether'
  BY <1>1, ClaimWritten DEF EffectInv, ClaimWrites, Elsewhere, OthersStay
<1>2. ASSUME NEW w \in Workers, NEW c \in Commands, MarkDispatched(w, c)
      PROVE  ClosedTogether'
  BY <1>2, DispatchWritten DEF EffectInv, DispatchWrites, Elsewhere, OthersStay
<1>3. ASSUME NEW w \in Workers, NEW c \in Commands, CallProvider(w, c) PROVE ClosedTogether'
  BY <1>3 DEF EffectInv, TypeOK, CallProvider, records
<1>4. ASSUME NEW w \in Workers, NEW c \in Commands, MarkObserved(w, c) PROVE ClosedTogether'
  BY <1>4 DEF EffectInv, TypeOK, MarkObserved, Reporting, Fenced
<1>5. ASSUME NEW w \in Workers, NEW c \in Commands, MarkUnknown(w, c) PROVE ClosedTogether'
  BY <1>5
     DEF EffectInv, TypeOK, MarkUnknown, Reporting, Fenced, Idle, Unresolved, Quarantined
<1>6. ASSUME NEW w \in Workers, NEW c \in Commands, RestorePrepared(w, c)
      PROVE  ClosedTogether'
  BY <1>6
     DEF EffectInv, TypeOK, RestorePrepared, Reporting, Fenced, Idle, Released, Reopened
<1>7. ASSUME NEW w \in Workers, NEW c \in Commands, MarkWaitingProvider(w, c)
      PROVE  ClosedTogether'
  BY <1>7 DEF EffectInv, TypeOK, MarkWaitingProvider, Reporting, Fenced, Idle, Released
<1>8. ASSUME NEW w \in Workers, NEW c \in Commands, FinalizeReceipt(w, c)
      PROVE  ClosedTogether'
  BY <1>8, FinalizeWritten DEF EffectInv, FinalizeWrites, Elsewhere, OthersStay
<1>9. ASSUME NEW w \in Workers, AdvanceStage(w) \/ Abandon(w) PROVE ClosedTogether'
  BY <1>9 DEF EffectInv, TypeOK, AdvanceStage, Abandon, Idle, records
<1>10. CASE ApplyRecovery
  BY <1>10, RecoveryTouches DEF EffectInv, TypeOK
<1>11. ASSUME NEW c \in Commands, ConfirmApplied(c) \/ ConfirmNotApplied(c) \/ GiveUp(c)
       PROVE  ClosedTogether'
  BY <1>11, ResolveWritten DEF EffectInv, ResolveWrites, Elsewhere
<1>12. CASE Cancel
  BY <1>12 DEF EffectInv, TypeOK, Cancel, Cancelled, InFlight
<1>13. ASSUME NEW stage, NEW withdrawn, Steer(stage, withdrawn) PROVE ClosedTogether'
  BY <1>13 DEF EffectInv, TypeOK, Steer, Cancelled
<1>14. CASE UNCHANGED <<records, worker, performed>>
  BY <1>14 DEF EffectInv, TypeOK, records
<1> QED
  BY <1>1, <1>2, <1>3, <1>4, <1>5, <1>6, <1>7, <1>8, <1>9, <1>10, <1>11, <1>12, <1>13, <1>14,
     StepCases

\* An execution that is over names no command.
LEMMA IdleKept == EffectInv /\ [Next]_vars => IdleHoldsNothing'
<1> SUFFICES ASSUME EffectInv, [Next]_vars PROVE IdleHoldsNothing'
  OBVIOUS
<1> USE DEF IdleHoldsNothing
<1>1. ASSUME NEW w \in Workers, NEW c \in Commands, ClaimEffect(w, c)
      PROVE  IdleHoldsNothing'
  BY <1>1, ClaimWritten DEF EffectInv, ClaimWrites, Elsewhere, OthersStay
<1>2. ASSUME NEW w \in Workers, NEW c \in Commands, MarkDispatched(w, c)
      PROVE  IdleHoldsNothing'
  BY <1>2, DispatchWritten DEF EffectInv, DispatchWrites, Elsewhere, OthersStay
<1>3. ASSUME NEW w \in Workers, NEW c \in Commands, CallProvider(w, c)
      PROVE  IdleHoldsNothing'
  BY <1>3 DEF EffectInv, TypeOK, CallProvider, records
<1>4. ASSUME NEW w \in Workers, NEW c \in Commands, MarkObserved(w, c)
      PROVE  IdleHoldsNothing'
  BY <1>4 DEF EffectInv, TypeOK, MarkObserved, Reporting, Fenced
<1>5. ASSUME NEW w \in Workers, NEW c \in Commands, MarkUnknown(w, c)
      PROVE  IdleHoldsNothing'
  BY <1>5
     DEF EffectInv, TypeOK, MarkUnknown, Reporting, Fenced, Idle, Unresolved, Quarantined
<1>6. ASSUME NEW w \in Workers, NEW c \in Commands, RestorePrepared(w, c)
      PROVE  IdleHoldsNothing'
  BY <1>6
     DEF EffectInv, TypeOK, RestorePrepared, Reporting, Fenced, Idle, Released, Reopened
<1>7. ASSUME NEW w \in Workers, NEW c \in Commands, MarkWaitingProvider(w, c)
      PROVE  IdleHoldsNothing'
  BY <1>7 DEF EffectInv, TypeOK, MarkWaitingProvider, Reporting, Fenced, Idle, Released
<1>8. ASSUME NEW w \in Workers, NEW c \in Commands, FinalizeReceipt(w, c)
      PROVE  IdleHoldsNothing'
  BY <1>8, FinalizeWritten DEF EffectInv, FinalizeWrites, Elsewhere, OthersStay
<1>9. ASSUME NEW w \in Workers, AdvanceStage(w) \/ Abandon(w) PROVE IdleHoldsNothing'
  BY <1>9 DEF EffectInv, TypeOK, AdvanceStage, Abandon, Idle, records
<1>10. CASE ApplyRecovery
  BY <1>10, RecoveryTouches DEF EffectInv, TypeOK
<1>11. ASSUME NEW c \in Commands, ConfirmApplied(c) \/ ConfirmNotApplied(c) \/ GiveUp(c)
       PROVE  IdleHoldsNothing'
  BY <1>11, ResolveWritten DEF EffectInv, ResolveWrites, Elsewhere
<1>12. CASE Cancel
  BY <1>12 DEF EffectInv, TypeOK, Cancel, Cancelled
<1>13. ASSUME NEW stage, NEW withdrawn, Steer(stage, withdrawn) PROVE IdleHoldsNothing'
  BY <1>13 DEF EffectInv, TypeOK, Steer, Cancelled
<1>14. CASE UNCHANGED <<records, worker, performed>>
  BY <1>14 DEF EffectInv, TypeOK, records
<1> QED
  BY <1>1, <1>2, <1>3, <1>4, <1>5, <1>6, <1>7, <1>8, <1>9, <1>10, <1>11, <1>12, <1>13, <1>14,
     StepCases

\* Claim and operation are renewed and released together.
LEMMA InStepKept == TypeOK /\ ClaimAndOperationInStep /\ [Next]_vars => ClaimAndOperationInStep'
<1> SUFFICES ASSUME TypeOK, ClaimAndOperationInStep, [Next]_vars
             PROVE  ClaimAndOperationInStep'
  OBVIOUS
<1> USE DEF ClaimAndOperationInStep
<1>1. ASSUME NEW w \in Workers, NEW c \in Commands, ClaimEffect(w, c)
      PROVE  ClaimAndOperationInStep'
  <2>1. OperationDecision(c) = "execute"
    BY <1>1 DEF TypeOK, Job, ClaimEffect, ClaimOutcome
  <2>2. op[c].attempt \in Nat /\ op[c].attempt < MaxAttempts
    BY <2>1 DEF TypeOK, Operation, OperationDecision
  <2>3. /\ claim'[c].epoch = op[c].epoch + 1 /\ claim'[c].attempt = claim[c].attempt + 1
        /\ claim'[c].lease = now + Lease
        /\ op'[c].epoch = op[c].epoch + 1 /\ op'[c].attempt = op[c].attempt + 1
        /\ op'[c].lease = now + Lease
    BY <1>1 DEF TypeOK, ClaimEffect
  <2>4. \A d \in Commands \ {c} : claim'[d] = claim[d] /\ op'[d] = op[d]
    BY <1>1 DEF TypeOK, ClaimEffect
  <2> QED BY <2>2, <2>3, <2>4
<1>2. ASSUME NEW w \in Workers, NEW c \in Commands, MarkDispatched(w, c)
      PROVE  ClaimAndOperationInStep'
  <2>1. \A d \in Commands : /\ claim'[d].epoch = claim[d].epoch
                            /\ claim'[d].attempt = claim[d].attempt
                            /\ claim'[d].lease = claim[d].lease
    BY <1>2 DEF TypeOK, MarkDispatched, Claim
  <2>2. UNCHANGED op
    BY <1>2 DEF MarkDispatched
  <2> QED BY <2>1, <2>2
<1>3. ASSUME NEW w \in Workers, NEW c \in Commands, CallProvider(w, c)
      PROVE  ClaimAndOperationInStep'
  BY <1>3 DEF TypeOK, CallProvider, records
<1>4. ASSUME NEW w \in Workers, NEW c \in Commands, MarkObserved(w, c)
      PROVE  ClaimAndOperationInStep'
  BY <1>4 DEF TypeOK, MarkObserved, Reporting, Fenced
<1>5. ASSUME NEW w \in Workers, NEW c \in Commands, MarkUnknown(w, c)
      PROVE  ClaimAndOperationInStep'
  BY <1>5 DEF TypeOK, MarkUnknown, Reporting, Fenced, Idle, Unresolved, Quarantined
<1>6. ASSUME NEW w \in Workers, NEW c \in Commands, RestorePrepared(w, c)
      PROVE  ClaimAndOperationInStep'
  BY <1>6 DEF TypeOK, RestorePrepared, Reporting, Fenced, Idle, Released, Reopened
<1>7. ASSUME NEW w \in Workers, NEW c \in Commands, MarkWaitingProvider(w, c)
      PROVE  ClaimAndOperationInStep'
  BY <1>7 DEF TypeOK, MarkWaitingProvider, Reporting, Fenced, Idle, Released
<1>8. ASSUME NEW w \in Workers, NEW c \in Commands, FinalizeReceipt(w, c)
      PROVE  ClaimAndOperationInStep'
  BY <1>8 DEF TypeOK, FinalizeReceipt, Operation, Claim
<1>9. ASSUME NEW w \in Workers, AdvanceStage(w) \/ Abandon(w) PROVE ClaimAndOperationInStep'
  BY <1>9 DEF TypeOK, AdvanceStage, Abandon, Idle, records
<1>10. CASE ApplyRecovery
  <2>1. \A o \in Operation : /\ Unresolved(o).epoch = o.epoch
                             /\ Unresolved(o).attempt = o.attempt
                             /\ Unresolved(o).state = "unknown"
    BY DEF Operation, Unresolved
  <2>2. \A d \in Commands : op[d] \in Operation
    BY DEF TypeOK
  <2>3. UNCHANGED claim /\ \A d \in Commands : op'[d] = op[d] \/ op'[d] = Unresolved(op[d])
    BY <1>10, RecoveryTouches
  <2> QED BY <2>1, <2>2, <2>3
<1>11. ASSUME NEW c \in Commands, ConfirmApplied(c) \/ ConfirmNotApplied(c) \/ GiveUp(c)
       PROVE  ClaimAndOperationInStep'
  <2>1. PICK o \in {"succeeded", "waiting", "cancelled"} :
          \E a, k, l : Resolve(c, a, o, k, l)
    BY <1>11 DEF ConfirmApplied, ConfirmNotApplied, GiveUp
  <2>2. \A d \in Commands : /\ claim'[d].epoch = claim[d].epoch
                            /\ claim'[d].attempt = claim[d].attempt
                            /\ claim'[d].lease = claim[d].lease
    BY <2>1 DEF TypeOK, Resolve, Claim
  <2>3. \A d \in Commands : /\ op'[d].epoch = op[d].epoch
                            /\ op'[d].attempt = op[d].attempt
                            /\ op'[d].state = "claimed" => op'[d] = op[d]
    BY <2>1 DEF TypeOK, Resolve, Operation
  <2> QED BY <2>2, <2>3
<1>12. CASE Cancel
  BY <1>12 DEF TypeOK, Cancel, Cancelled
<1>13. ASSUME NEW stage, NEW withdrawn, Steer(stage, withdrawn)
       PROVE  ClaimAndOperationInStep'
  BY <1>13 DEF TypeOK, Steer, Cancelled
<1>14. CASE UNCHANGED <<records, worker, performed>>
  BY <1>14 DEF TypeOK, records
<1> QED
  BY <1>1, <1>2, <1>3, <1>4, <1>5, <1>6, <1>7, <1>8, <1>9, <1>10, <1>11, <1>12, <1>13, <1>14,
     StepCases

\* The invariant holds of every reachable state.
THEOREM Invariance == Spec => []EffectInv
<1>1. Init => EffectInv
  BY DEF Init, EffectInv, CallerHolds, ClaimedIsPlanned, WorkerKnows, RecordKnows,
         ClosedTogether, IdleHoldsNothing, Calling, Idle, TypeOK, Command, Claim, Operation, Action,
         Job, Worker, Recovery, CommandStates, ClaimStates, OperationStates, Stages,
         WorkerSteps, NoRecovery
<1>2. EffectInv /\ [Next]_vars => EffectInv'
  BY TypingStep, CallerKept, PlannedKept, WorkerKnowsKept, RecordKnowsKept, ClosedKept, IdleKept
     DEF EffectInv
<1> QED BY <1>1, <1>2, PTL DEF Spec

\* Whatever workers crash, leases expire, requests arrive late or operators
\* decide, the provider does each approved effect at most once.
THEOREM AtMostOnce == Spec => []EffectAtMostOnce
<1>1. EffectInv => EffectAtMostOnce
  BY DEF EffectInv, RecordKnows, EffectAtMostOnce
<1> QED BY <1>1, Invariance, PTL

\* A worker inside the provider call holds the only claim and the command is
\* neither finished, reopened nor withdrawn under it.
THEOREM CallerOwns == Spec => []CallerOwnsEffect
<1>1. EffectInv => CallerOwnsEffect
  BY DEF EffectInv, CallerHolds, CallerOwnsEffect, Calling, OwnsClaim
<1> QED BY <1>1, Invariance, PTL

\* What the records say was applied was done once, and has its one receipt;
\* what they allow to be dispatched again was not.
THEOREM RecordsTrue == Spec => []RecordsAreTrue
<1>1. EffectInv => RecordsAreTrue
  BY DEF EffectInv, RecordKnows, ClosedTogether, RecordsAreTrue
<1> QED BY <1>1, Invariance, PTL
\* Claim and operation carry the same epoch and attempt, within the budget,
\* and a live operation lease is the claim's.
THEOREM InStep == Spec => []ClaimAndOperationInStep
<1>1. Init => ClaimAndOperationInStep
  BY DEF Init, ClaimAndOperationInStep
<1> QED BY <1>1, InStepKept, Typing, PTL DEF Spec

\* The provider does nothing more for an effect that was cancelled or whose
\* action is closed.
THEOREM Withdrawn == Spec => WithdrawnIsNeverDone
<1> DEFINE Done(c) == cmd[c].state = "cancelled" \/ action[c].state # "planned"
<1>1. EffectInv /\ [Next]_vars => \A c \in Commands : Done(c) => performed'[c] = performed[c]
  <2> SUFFICES ASSUME EffectInv, [Next]_vars, NEW d \in Commands, Done(d)
               PROVE  performed'[d] = performed[d]
    OBVIOUS
  <2>1. ASSUME NEW w \in Workers, NEW c \in Commands, CallProvider(w, c)
        PROVE  performed'[d] = performed[d]
    <3>1. c # d
      BY <2>1 DEF EffectInv, CallerHolds, ClaimedIsPlanned, Calling, CallProvider
    <3> QED BY <2>1, <3>1 DEF EffectInv, TypeOK, CallProvider
  <2>2. CASE UNCHANGED performed
    BY <2>2
  <2>3. \/ UNCHANGED performed
        \/ \E w \in Workers, c \in Commands : CallProvider(w, c)
    <3>1. ASSUME NEW w \in Workers, NEW c \in Commands,
                 \/ ClaimEffect(w, c) \/ MarkDispatched(w, c) \/ MarkObserved(w, c)
                 \/ MarkUnknown(w, c) \/ RestorePrepared(w, c)
                 \/ MarkWaitingProvider(w, c) \/ FinalizeReceipt(w, c)
          PROVE  UNCHANGED performed
      BY <3>1 DEF ClaimEffect, MarkDispatched, MarkObserved, MarkUnknown, RestorePrepared,
                  MarkWaitingProvider, FinalizeReceipt
    <3>2. ASSUME NEW w \in Workers, AdvanceStage(w) \/ Abandon(w) PROVE UNCHANGED performed
      BY <3>2 DEF AdvanceStage, Abandon
    <3>3. ASSUME NEW c \in Commands, ConfirmApplied(c) \/ ConfirmNotApplied(c) \/ GiveUp(c)
          PROVE  UNCHANGED performed
      BY <3>3 DEF ConfirmApplied, ConfirmNotApplied, GiveUp, Resolve
    <3>4. ASSUME NEW stage, NEW withdrawn, Steer(stage, withdrawn) PROVE UNCHANGED performed
      BY <3>4 DEF Steer
    <3>5. CASE ApplyRecovery \/ Cancel \/ UNCHANGED <<records, worker, performed>>
      BY <3>5 DEF ApplyRecovery, Cancel
    <3> QED BY <3>1, <3>2, <3>3, <3>4, <3>5, StepCases
  <2> QED BY <2>1, <2>2, <2>3
<1> QED BY <1>1, Invariance, PTL DEF Spec, WithdrawnIsNeverDone

FinalStays ==
  \A c \in Commands :
    /\ cmd[c].state \in {"applied", "failed", "cancelled"} => cmd'[c].state = cmd[c].state
    /\ action[c].state # "planned" => action'[c].state = action[c].state
    /\ receipts'[c] >= receipts[c] /\ op'[c].epoch >= op[c].epoch

\* No step takes back what a command, an action, a receipt or an epoch says.
LEMMA FinalKept == EffectInv /\ [Next]_vars => FinalStays
<1> SUFFICES ASSUME EffectInv, [Next]_vars PROVE FinalStays
  OBVIOUS
<1> USE DEF FinalStays
<1>0. \A c \in Commands : receipts[c] \in Nat /\ op[c].epoch \in Nat
  BY DEF EffectInv, TypeOK, Operation
<1>1. ASSUME NEW w \in Workers, NEW c \in Commands, ClaimEffect(w, c) PROVE FinalStays
  BY <1>0, <1>1 DEF EffectInv, TypeOK, ClaimEffect, Operation, Claim, Current
<1>2. ASSUME NEW w \in Workers, NEW c \in Commands, MarkDispatched(w, c) PROVE FinalStays
  <2>1. DispatchWrites(w, c)
    BY <1>2, DispatchWritten DEF EffectInv
  <2>2. UNCHANGED <<action, op, receipts>> /\ \A d \in Commands \ {c} : cmd'[d] = cmd[d]
    BY <2>1 DEF DispatchWrites, Elsewhere
  <2>3. cmd[c].state \in {"prepared", "waiting_provider"}
    BY <2>1 DEF DispatchWrites
  <2> QED BY <1>0, <2>2, <2>3
<1>3. ASSUME NEW w \in Workers, NEW c \in Commands, CallProvider(w, c) PROVE FinalStays
  BY <1>0, <1>3 DEF EffectInv, TypeOK, CallProvider, records
<1>4. ASSUME NEW w \in Workers, NEW c \in Commands, MarkObserved(w, c) PROVE FinalStays
  BY <1>0, <1>4 DEF EffectInv, TypeOK, MarkObserved, Reporting, Command
<1>5. ASSUME NEW w \in Workers, NEW c \in Commands, MarkUnknown(w, c) PROVE FinalStays
  BY <1>0, <1>5
     DEF EffectInv, TypeOK, MarkUnknown, Reporting, Unresolved, Quarantined, Command,
         Operation
<1>6. ASSUME NEW w \in Workers, NEW c \in Commands, RestorePrepared(w, c) PROVE FinalStays
  BY <1>0, <1>6
     DEF EffectInv, TypeOK, RestorePrepared, Reporting, Released, Reopened, Command,
         Operation
<1>7. ASSUME NEW w \in Workers, NEW c \in Commands, MarkWaitingProvider(w, c)
      PROVE  FinalStays
  BY <1>0, <1>7
     DEF EffectInv, TypeOK, MarkWaitingProvider, Reporting, Released, Command, Operation
<1>8. ASSUME NEW w \in Workers, NEW c \in Commands, FinalizeReceipt(w, c) PROVE FinalStays
  BY <1>0, <1>8
     DEF EffectInv, TypeOK, FinalizeReceipt, Operation, Command, Action, ClaimedIsPlanned
<1>9. ASSUME NEW w \in Workers, AdvanceStage(w) \/ Abandon(w) PROVE FinalStays
  BY <1>0, <1>9 DEF EffectInv, TypeOK, AdvanceStage, Abandon, Idle, records
<1>10. CASE ApplyRecovery
  <2>1. \A o \in Operation : Unresolved(o).epoch = o.epoch
    BY DEF Operation, Unresolved
  <2>2. \A d \in Commands : op[d] \in Operation
    BY DEF EffectInv, TypeOK
  <2>3. /\ UNCHANGED <<action, receipts>>
        /\ \A d \in Commands : op'[d] = op[d] \/ op'[d] = Unresolved(op[d])
        /\ \A d \in Commands : cmd'[d] = cmd[d] \/ cmd[d].state = "dispatched"
    BY <1>10, RecoveryTouches DEF EffectInv
  <2> QED BY <1>0, <2>1, <2>2, <2>3
<1>11. ASSUME NEW c \in Commands, ConfirmApplied(c) \/ ConfirmNotApplied(c) \/ GiveUp(c)
       PROVE  FinalStays
  <2>1. \E a, o, k, l : Resolve(c, a, o, k, l)
    BY <1>11 DEF ConfirmApplied, ConfirmNotApplied, GiveUp
  <2>2. \A d \in Commands : op'[d].epoch = op[d].epoch
    BY <2>1 DEF EffectInv, TypeOK, Resolve, Operation
  <2>3. action[c].state = "planned"
    BY <1>11, ResolveWritten DEF EffectInv, ClaimedIsPlanned, ResolveWrites
  <2>4. \A d \in Commands : receipts'[d] >= receipts[d]
    BY <1>0, <1>11, ResolveWritten DEF EffectInv, ResolveWrites
  <2> QED BY <1>0, <1>11, <2>2, <2>3, <2>4, ResolveWritten DEF EffectInv, ResolveWrites, Elsewhere
<1>12. CASE Cancel
  BY <1>0, <1>12 DEF EffectInv, TypeOK, Cancel, Cancelled, InFlight
<1>13. ASSUME NEW stage, NEW withdrawn, Steer(stage, withdrawn) PROVE FinalStays
  BY <1>0, <1>13 DEF EffectInv, TypeOK, Steer, Cancelled, Action, Command
<1>14. CASE UNCHANGED <<records, worker, performed>>
  BY <1>0, <1>14 DEF EffectInv, TypeOK, records
<1> QED
  BY <1>0, <1>1, <1>2, <1>3, <1>4, <1>5, <1>6, <1>7, <1>8, <1>9, <1>10, <1>11, <1>12, <1>13, <1>14,
     StepCases

\* A command, an action or a receipt that is final never changes again.
THEOREM Final == Spec => FinalIsFinal
<1>1. EffectInv /\ [Next]_vars => FinalStays
  BY FinalKept
<1>2. EffectInv /\ [Next]_vars => [FinalStays]_vars
  BY <1>1
<1> QED BY <1>2, Invariance, PTL DEF Spec, FinalIsFinal, FinalStays

\* A worker that lost its epoch or its operation changes no record and not the
\* job when it moves again.
THEOREM StaleWorker == Spec => StaleWorkerChangesNothing
<1> DEFINE Stale(w, c) == /\ worker[w].cmd = c /\ worker[w].pc # "advance"
                          /\ op[c].state # "claimed" \/ op[c].epoch # worker[w].epoch
                          /\ worker'[w] # worker[w]
           Harmless == \A w \in Workers, c \in Commands :
                         Stale(w, c) => UNCHANGED <<records, job>>
<1>1. EffectInv /\ [Next]_vars => Harmless
  <2> SUFFICES ASSUME EffectInv, [Next]_vars,
                      NEW w \in Workers, NEW c \in Commands, Stale(w, c)
               PROVE  UNCHANGED <<records, job>>
    OBVIOUS
  <2>1. worker[w].pc # "idle"
    BY DEF EffectInv, IdleHoldsNothing
  <2>2. ASSUME NEW v \in Workers, NEW d \in Commands,
               \/ ClaimEffect(v, d) \/ MarkDispatched(v, d) \/ MarkObserved(v, d)
               \/ MarkUnknown(v, d) \/ RestorePrepared(v, d)
               \/ MarkWaitingProvider(v, d) \/ FinalizeReceipt(v, d)
        PROVE  FALSE
    <3>1. v = w
      BY <2>2 DEF EffectInv, TypeOK, ClaimEffect, MarkDispatched, MarkObserved, MarkUnknown,
                  RestorePrepared, MarkWaitingProvider, FinalizeReceipt
    <3>2. Fenced(w, d)
      BY <2>1, <2>2, <3>1 DEF ClaimEffect, MarkDispatched, MarkObserved, MarkUnknown,
                  RestorePrepared, MarkWaitingProvider, FinalizeReceipt, Reporting
    <3> QED BY <3>2 DEF Fenced
  <2>3. ASSUME NEW v \in Workers, NEW d \in Commands, CallProvider(v, d)
        PROVE  UNCHANGED <<records, job>>
    BY <2>3 DEF CallProvider
  <2>4. ASSUME NEW v \in Workers, AdvanceStage(v) \/ Abandon(v)
        PROVE  UNCHANGED <<records, job>>
    <3>1. v = w
      BY <2>4 DEF EffectInv, TypeOK, AdvanceStage, Abandon
    <3> QED BY <2>4, <3>1 DEF AdvanceStage, Abandon
  <2>5. ~ UNCHANGED worker
    OBVIOUS
  <2>6. ~ \E d \in Commands : ConfirmApplied(d) \/ ConfirmNotApplied(d) \/ GiveUp(d)
    BY <2>5 DEF ConfirmApplied, ConfirmNotApplied, GiveUp, Resolve
  <2>7. ~ \E stage, withdrawn : Steer(stage, withdrawn)
    BY <2>5 DEF Steer
  <2>8. ~ (ApplyRecovery \/ Cancel \/ UNCHANGED <<records, worker, performed>>)
    BY <2>5 DEF ApplyRecovery, Cancel
  <2> QED BY <2>2, <2>3, <2>4, <2>6, <2>7, <2>8, StepCases
<1>2. EffectInv /\ [Next]_vars => [Harmless]_vars
  BY <1>1
<1> QED BY <1>2, Invariance, PTL DEF Spec, StaleWorkerChangesNothing

----------------------------------------------------------------------------
(* Dependencies, and the markers of recovery.                               *)

\* The steps after which an effect is in a worker's hands that was not before,
\* or has been done.
LEMMA TakenBy ==
  ASSUME EffectInv, [Next]_vars, NEW c \in Commands,
         performed'[c] > 0 \/ claim'[c].state \in {"claimed", "dispatched"}
  PROVE  \/ performed[c] > 0 \/ claim[c].state \in {"claimed", "dispatched"}
         \/ \E w \in Workers : ClaimEffect(w, c)
<1> DEFINE Held == performed[c] > 0 \/ claim[c].state \in {"claimed", "dispatched"}
           Same == performed'[c] = performed[c] /\ claim'[c].state = claim[c].state
<1>0. claim[c] \in Claim
  BY DEF EffectInv, TypeOK
<1>1. ASSUME NEW w \in Workers, NEW d \in Commands, ClaimEffect(w, d)
      PROVE  Held \/ ClaimEffect(w, c)
  <2>1. CASE d # c
    BY <1>1, <2>1 DEF EffectInv, TypeOK, ClaimEffect
  <2> QED BY <1>1, <2>1
<1>2. ASSUME NEW w \in Workers, NEW d \in Commands, MarkDispatched(w, d) PROVE Held
  BY <1>2, DispatchWritten DEF EffectInv, DispatchWrites, Elsewhere
<1>3. ASSUME NEW w \in Workers, NEW d \in Commands, CallProvider(w, d) PROVE Held
  <2>1. claim[d].state = "dispatched"
    BY <1>3 DEF EffectInv, CallerHolds, Calling, CallProvider
  <2>2. d # c => Same
    BY <1>3 DEF EffectInv, TypeOK, CallProvider, records
  <2> QED BY <2>1, <2>2
<1>4. ASSUME NEW w \in Workers, NEW d \in Commands,
             \/ MarkObserved(w, d) \/ MarkUnknown(w, d) \/ RestorePrepared(w, d)
             \/ MarkWaitingProvider(w, d)
      PROVE  Held
  BY <1>0, <1>4
     DEF EffectInv, TypeOK, Claim, MarkObserved, MarkUnknown, RestorePrepared, MarkWaitingProvider
<1>5. ASSUME NEW w \in Workers, NEW d \in Commands, FinalizeReceipt(w, d) PROVE Held
  BY <1>5, FinalizeWritten DEF EffectInv, FinalizeWrites, Elsewhere
<1>6. ASSUME NEW w \in Workers, AdvanceStage(w) \/ Abandon(w) PROVE Held
  BY <1>6 DEF AdvanceStage, Abandon, records
<1>7. CASE ApplyRecovery
  BY <1>7, RecoveryTouches DEF EffectInv
<1>8. ASSUME NEW d \in Commands, ConfirmApplied(d) \/ ConfirmNotApplied(d) \/ GiveUp(d)
      PROVE  Held
  BY <1>8, ResolveWritten DEF EffectInv, ResolveWrites, Elsewhere
<1>9. CASE Cancel
  BY <1>9 DEF Cancel
<1>10. ASSUME NEW stage, NEW withdrawn, Steer(stage, withdrawn) PROVE Held
  BY <1>10 DEF Steer
<1>11. CASE UNCHANGED <<records, worker, performed>>
  BY <1>11 DEF records
<1> QED
  BY <1>1, <1>2, <1>3, <1>4, <1>5, <1>6, <1>7, <1>8, <1>9, <1>10, <1>11, StepCases

\* What an effect waits for is applied from the moment a worker takes it.
DependenciesDone ==
  \A c \in Commands :
    performed[c] > 0 \/ claim[c].state \in {"claimed", "dispatched"} =>
      \A d \in Deps[c] : cmd[d].state = "applied"

\* An effect is done only after what it depends on has been recorded as
\* applied, whatever becomes of either, for any graph of dependencies.
THEOREM Dependencies == Spec => []DependenciesFirst
<1>1. Init => DependenciesDone
  BY DEF Init, DependenciesDone
<1>2. EffectInv /\ DependenciesDone /\ [Next]_vars => DependenciesDone'
  <2> SUFFICES ASSUME EffectInv, DependenciesDone, [Next]_vars, NEW c \in Commands,
                      performed'[c] > 0 \/ claim'[c].state \in {"claimed", "dispatched"},
                      NEW d \in Deps[c]
               PROVE  cmd'[d].state = "applied"
    BY DEF DependenciesDone
  <2>1. d \in Commands
    BY EffectAssumption
  <2>2. cmd[d].state = "applied"
    BY TakenBy DEF DependenciesDone, ClaimEffect, Claimable
  <2> QED BY <2>1, <2>2, FinalKept DEF FinalStays
<1>3. DependenciesDone => DependenciesFirst
  BY DEF DependenciesDone, DependenciesFirst
<1> QED BY <1>1, <1>2, <1>3, Invariance, PTL DEF Spec

\* A dispatch carries the attempt of its claim, which the command had not had.
AttemptsInOrder ==
  \A c \in Commands :
    /\ cmd[c].attempt <= claim[c].attempt
    /\ claim[c].state = "claimed" => cmd[c].attempt < claim[c].attempt

\* The attempts of a command, its claim and its operation do not go back, and
\* to be claimed or dispatched anew takes a new one.
Grows(c) ==
  /\ op'[c].attempt >= op[c].attempt
  /\ op'[c].state = "claimed" => op[c].state = "claimed" \/ op'[c].attempt > op[c].attempt
  /\ cmd'[c].attempt >= cmd[c].attempt
  /\ cmd'[c].state = "dispatched" =>
       cmd[c].state = "dispatched" \/ cmd'[c].attempt > cmd[c].attempt
  /\ cmd'[c].attempt <= claim'[c].attempt
  /\ claim'[c].state = "claimed" => cmd'[c].attempt < claim'[c].attempt

\* Every step that is neither a claim nor a dispatch of the command.
Stays(c) ==
  /\ op'[c].attempt = op[c].attempt /\ cmd'[c].attempt = cmd[c].attempt
  /\ claim'[c].attempt = claim[c].attempt
  /\ op'[c].state = "claimed" => op[c].state = "claimed"
  /\ cmd'[c].state = "dispatched" => cmd[c].state = "dispatched"
  /\ claim'[c].state = "claimed" => claim[c].state = "claimed"

\* What the helpers of the transactions make of the attempt.
LEMMA AttemptKept ==
  /\ \A o \in Operation :
       /\ Released(o).attempt = o.attempt /\ Released(o).state = "waiting"
       /\ Unresolved(o).attempt = o.attempt /\ Unresolved(o).state = "unknown"
  /\ \A k \in Command :
       /\ Quarantined(k).attempt = k.attempt /\ Quarantined(k).state = "unknown"
       /\ Reopened(k).attempt = k.attempt /\ Reopened(k).state = "prepared"
       /\ Cancelled(k).attempt = k.attempt
       /\ Cancelled(k).state = k.state \/ Cancelled(k).state = "cancelled"
<1>1. \A o \in Operation :
        /\ Released(o).attempt = o.attempt /\ Released(o).state = "waiting"
        /\ Unresolved(o).attempt = o.attempt /\ Unresolved(o).state = "unknown"
  BY DEF Operation, Released, Unresolved
<1>2. \A k \in Command :
        /\ Quarantined(k).attempt = k.attempt /\ Quarantined(k).state = "unknown"
        /\ Reopened(k).attempt = k.attempt /\ Reopened(k).state = "prepared"
  BY DEF Command, Quarantined, Reopened
<1>3. \A k \in Command :
        /\ Cancelled(k).attempt = k.attempt
        /\ Cancelled(k).state = k.state \/ Cancelled(k).state = "cancelled"
  BY DEF Command, Cancelled
<1> QED BY <1>1, <1>2, <1>3

\* Only a claim and a dispatch give a command another attempt.
LEMMA AttemptsMove ==
  ASSUME EffectInv, [Next]_vars, NEW c \in Commands
  PROVE  Stays(c) \/ \E w \in Workers : ClaimEffect(w, c) \/ MarkDispatched(w, c)
<1>0. TypeOK /\ cmd[c] \in Command /\ claim[c] \in Claim /\ op[c] \in Operation
  BY DEF EffectInv, TypeOK
<1> DEFINE Same == cmd'[c] = cmd[c] /\ claim'[c] = claim[c] /\ op'[c] = op[c]
<1>s. Same => Stays(c)
  BY DEF Stays
<1>1. ASSUME NEW w \in Workers, NEW d \in Commands, ClaimEffect(w, d) \/ MarkDispatched(w, d)
      PROVE  Stays(c) \/ ClaimEffect(w, c) \/ MarkDispatched(w, c)
  <2>1. d # c => Same
    BY <1>0, <1>1 DEF TypeOK, ClaimEffect, MarkDispatched
  <2> QED BY <1>1, <1>s, <2>1
<1>2. ASSUME NEW w \in Workers, NEW d \in Commands, CallProvider(w, d) PROVE Stays(c)
  BY <1>2, <1>s DEF CallProvider, records
<1>3. ASSUME NEW w \in Workers, NEW d \in Commands, MarkObserved(w, d) PROVE Stays(c)
  <2>1. d # c => Same
    BY <1>0, <1>3 DEF TypeOK, MarkObserved
  <2>2. CASE d = c
    <3>1. cmd'[c].attempt = cmd[c].attempt /\ cmd'[c].state = "observed"
      BY <1>0, <1>3, <2>2 DEF TypeOK, Command, MarkObserved
    <3>2. op'[c] = op[c]
      BY <1>0, <1>3, <2>2 DEF MarkObserved
    <3>3. claim'[c].attempt = claim[c].attempt /\ claim'[c].state = "observed"
      BY <1>0, <1>3, <2>2 DEF TypeOK, Claim, MarkObserved
    <3> QED BY <1>0, <3>1, <3>2, <3>3, AttemptKept DEF Stays
  <2> QED BY <1>s, <2>1, <2>2
<1>4. ASSUME NEW w \in Workers, NEW d \in Commands, MarkUnknown(w, d) PROVE Stays(c)
  <2>1. d # c => Same
    BY <1>0, <1>4 DEF TypeOK, MarkUnknown
  <2>2. CASE d = c
    <3>1. cmd'[c] = Quarantined(cmd[c])
      BY <1>0, <1>4, <2>2 DEF TypeOK, MarkUnknown
    <3>2. op'[c] = Unresolved(op[c])
      BY <1>0, <1>4, <2>2 DEF TypeOK, MarkUnknown
    <3>3. claim'[c].attempt = claim[c].attempt /\ claim'[c].state = "unknown"
      BY <1>0, <1>4, <2>2 DEF TypeOK, Claim, MarkUnknown
    <3> QED BY <1>0, <3>1, <3>2, <3>3, AttemptKept DEF Stays
  <2> QED BY <1>s, <2>1, <2>2
<1>5. ASSUME NEW w \in Workers, NEW d \in Commands, RestorePrepared(w, d) PROVE Stays(c)
  <2>1. d # c => Same
    BY <1>0, <1>5 DEF TypeOK, RestorePrepared
  <2>2. CASE d = c
    <3>1. cmd'[c] = Reopened(cmd[c])
      BY <1>0, <1>5, <2>2 DEF TypeOK, RestorePrepared
    <3>2. op'[c] = Released(op[c])
      BY <1>0, <1>5, <2>2 DEF TypeOK, RestorePrepared
    <3>3. claim'[c].attempt = claim[c].attempt /\ claim'[c].state = "failed"
      BY <1>0, <1>5, <2>2 DEF TypeOK, Claim, RestorePrepared
    <3> QED BY <1>0, <3>1, <3>2, <3>3, AttemptKept DEF Stays
  <2> QED BY <1>s, <2>1, <2>2
<1>6. ASSUME NEW w \in Workers, NEW d \in Commands, MarkWaitingProvider(w, d) PROVE Stays(c)
  <2>1. d # c => Same
    BY <1>0, <1>6 DEF TypeOK, MarkWaitingProvider
  <2>2. CASE d = c
    <3>1. cmd'[c].attempt = cmd[c].attempt /\ cmd'[c].state = "waiting_provider"
      BY <1>0, <1>6, <2>2 DEF TypeOK, Command, MarkWaitingProvider
    <3>2. op'[c] = Released(op[c])
      BY <1>0, <1>6, <2>2 DEF TypeOK, MarkWaitingProvider
    <3>3. claim'[c].attempt = claim[c].attempt /\ claim'[c].state = "failed"
      BY <1>0, <1>6, <2>2 DEF TypeOK, Claim, MarkWaitingProvider
    <3> QED BY <1>0, <3>1, <3>2, <3>3, AttemptKept DEF Stays
  <2> QED BY <1>s, <2>1, <2>2
<1>7. ASSUME NEW w \in Workers, NEW d \in Commands, FinalizeReceipt(w, d) PROVE Stays(c)
  <2>0. FinalizeWrites(w, d)
    BY <1>0, <1>7, FinalizeWritten
  <2>1. d # c => Same
    BY <2>0 DEF FinalizeWrites, Elsewhere
  <2>2. CASE d = c
    <3>1. /\ cmd'[c].state \in {"applied", "failed"} /\ claim'[c].state \in {"applied", "failed"}
          /\ op'[c].state \in {"succeeded", "failed"}
      BY <2>0, <2>2 DEF FinalizeWrites
    <3>2. cmd'[c].attempt = cmd[c].attempt /\ claim'[c].attempt = claim[c].attempt
      BY <1>0, <1>7, <2>2 DEF TypeOK, Command, Claim, FinalizeReceipt
    <3>3. op'[c].attempt = op[c].attempt
      BY <1>0, <1>7, <2>2 DEF TypeOK, Operation, FinalizeReceipt
    <3> QED BY <3>1, <3>2, <3>3 DEF Stays
  <2> QED BY <1>s, <2>1, <2>2
<1>8. ASSUME NEW w \in Workers, AdvanceStage(w) \/ Abandon(w) PROVE Stays(c)
  BY <1>8, <1>s DEF AdvanceStage, Abandon, records
<1>9. CASE ApplyRecovery
  <2>1. op'[c] = op[c] \/ op'[c] = Unresolved(op[c])
    BY <1>0, <1>9, RecoveryTouches
  <2>2. cmd'[c] = cmd[c] \/ cmd'[c] = Quarantined(cmd[c])
    BY <1>9, Zenon DEF ApplyRecovery
  <2>3. claim'[c] = claim[c]
    BY <1>9 DEF ApplyRecovery
  <2> QED BY <1>0, <2>1, <2>2, <2>3, AttemptKept DEF Stays
<1>10. ASSUME NEW d \in Commands, ConfirmApplied(d) \/ ConfirmNotApplied(d) \/ GiveUp(d)
       PROVE  Stays(c)
  <2>1. PICK o \in {"succeeded", "waiting", "cancelled"},
             k \in {"applied", "prepared", "cancelled"}, l \in {"applied", "failed"} :
          \E a : Resolve(d, a, o, k, l)
    BY <1>10 DEF ConfirmApplied, ConfirmNotApplied, GiveUp
  <2>2. d # c => Same
    BY <1>0, <2>1 DEF TypeOK, Resolve
  <2>3. CASE d = c
    <3>1. /\ op'[c].attempt = op[c].attempt /\ op'[c].state = o
          /\ claim'[c].attempt = claim[c].attempt /\ claim'[c].state = l
      BY <1>0, <2>1, <2>3 DEF TypeOK, Operation, Claim, Resolve
    <3>2. cmd'[c].attempt = cmd[c].attempt /\ cmd'[c].state # "dispatched"
      <4>1. CASE k = "prepared"
        <5>1. cmd'[c] = Reopened(cmd[c])
          BY <1>0, <2>1, <2>3, <4>1 DEF TypeOK, Resolve
        <5> QED BY <1>0, <5>1, AttemptKept
      <4>2. CASE k # "prepared"
        BY <1>0, <2>1, <2>3, <4>2 DEF TypeOK, Command, Resolve
      <4> QED BY <4>1, <4>2
    <3> QED BY <3>1, <3>2 DEF Stays
  <2> QED BY <1>s, <2>2, <2>3
<1>11. CASE Cancel \/ \E stage, withdrawn : Steer(stage, withdrawn)
  <2>1. UNCHANGED <<claim, op>>
    BY <1>11 DEF Cancel, Steer
  <2>2. cmd'[c] = cmd[c] \/ cmd'[c] = Cancelled(cmd[c])
    BY <1>11, Zenon DEF Cancel, Steer
  <2> QED BY <1>0, <2>1, <2>2, AttemptKept DEF Stays
<1>12. CASE UNCHANGED <<records, worker, performed>>
  BY <1>12, <1>s DEF records
<1> QED
  BY <1>1, <1>2, <1>3, <1>4, <1>5, <1>6, <1>7, <1>8, <1>9, <1>10, <1>11, <1>12, StepCases

\* A new attempt is higher than every earlier one.
LEMMA AttemptsGrow ==
  ASSUME EffectInv, AttemptsInOrder, [Next]_vars, NEW c \in Commands
  PROVE  Grows(c)
<1>0. TypeOK /\ cmd[c] \in Command /\ claim[c] \in Claim /\ op[c] \in Operation
  BY DEF EffectInv, TypeOK
<1>1. cmd[c].attempt \in Nat /\ claim[c].attempt \in Nat /\ op[c].attempt \in Nat
  BY <1>0 DEF Command, Claim, Operation
<1>2. CASE Stays(c)
  BY <1>1, <1>2 DEF Stays, Grows, AttemptsInOrder
<1>3. ASSUME NEW w \in Workers, ClaimEffect(w, c) PROVE Grows(c)
  <2>1. /\ claim'[c].attempt = claim[c].attempt + 1 /\ op'[c].attempt = op[c].attempt + 1
        /\ cmd'[c] = cmd[c]
    BY <1>0, <1>3 DEF TypeOK, ClaimEffect
  <2> QED BY <1>1, <2>1 DEF Grows, AttemptsInOrder
<1>4. ASSUME NEW w \in Workers, MarkDispatched(w, c) PROVE Grows(c)
  <2>1. \A k \in Command, e, n \in Nat :
          [k EXCEPT !.state = "dispatched", !.epoch = e, !.attempt = n].attempt = n
    BY DEF Command
  <2>2. worker[w].epoch \in Nat
    BY <1>0 DEF TypeOK, Worker
  <2>3. cmd'[c].attempt = claim[c].attempt
    BY <1>0, <1>1, <1>4, <2>1, <2>2 DEF TypeOK, MarkDispatched
  <2>4. op'[c] = op[c]
    BY <1>4 DEF MarkDispatched
  <2>5. claim'[c].state = "dispatched" /\ claim'[c].attempt = claim[c].attempt
    BY <1>0, <1>4 DEF TypeOK, Claim, MarkDispatched
  <2>6. claim[c].state = "claimed"
    BY <1>4 DEF MarkDispatched
  <2> QED BY <1>1, <2>3, <2>4, <2>5, <2>6 DEF Grows, AttemptsInOrder
<1> QED BY <1>2, <1>3, <1>4, AttemptsMove

\* Attempts that went by, in order.
LEMMA InOrderKept == EffectInv /\ AttemptsInOrder /\ [Next]_vars => AttemptsInOrder'
BY AttemptsGrow DEF AttemptsInOrder, Grows

\* No marker, planned or emitted, is of an attempt that has not begun, and one
\* emitted for the attempt under way has taken it from its owner.
MarkersBehind ==
  \A m \in work \cup recovery.plan :
    /\ m.kind = "operation" => m.attempt <= op[m.cmd].attempt
    /\ m.action = "reconcile_effect" => m.kind = "effect" /\ m.attempt <= cmd[m.cmd].attempt

MarkersSettled ==
  \A m \in work :
    /\ m.kind = "operation" /\ op[m.cmd].state = "claimed" => m.attempt < op[m.cmd].attempt
    /\ m.action = "reconcile_effect" /\ cmd[m.cmd].state = "dispatched" =>
         m.attempt < cmd[m.cmd].attempt

MarkersInv == AttemptsInOrder /\ MarkersBehind /\ MarkersSettled

\* Only recovery plans and emits markers.
LEMMA WhoMarks ==
  [Next]_vars =>
    \/ UNCHANGED <<recovery, work>>
    \/ ScanOperations \/ ScanEffects \/ ApplyRecovery \/ DropRecovery
<1>1. ASSUME NEW w \in Workers, WorkerStep(w) PROVE UNCHANGED <<recovery, work>>
  BY <1>1 DEF WorkerStep, ClaimEffect, MarkDispatched, CallProvider, MarkObserved, MarkUnknown,
              RestorePrepared, MarkWaitingProvider, FinalizeReceipt, AdvanceStage, Abandon
<1>2. ASSUME OperatorStep PROVE UNCHANGED <<recovery, work>>
  BY <1>2 DEF OperatorStep, ConfirmApplied, ConfirmNotApplied, GiveUp, Resolve, Pause, Resume,
              Cancel, ApplyNudge, RedoStage, Steer
<1>3. ASSUME Tick \/ UNCHANGED vars PROVE UNCHANGED <<recovery, work>>
  BY <1>3 DEF Tick, vars
<1> QED BY <1>1, <1>2, <1>3 DEF Next, RecoveryStep

\* The fields of a planned marker.
LEMMA PlannedFields ==
  ASSUME NEW kind, NEW c, NEW n, NEW decided
  PROVE  /\ Planned(kind, c, n, decided).kind = kind
         /\ Planned(kind, c, n, decided).cmd = c
         /\ Planned(kind, c, n, decided).attempt = n
         /\ Planned(kind, c, n, decided).action \in {decided, "operator_required"}
         /\ n \in Nat /\ n < MaxRetries => Planned(kind, c, n, decided).action = decided
<1>1. /\ Planned(kind, c, n, decided).kind = kind
      /\ Planned(kind, c, n, decided).cmd = c
      /\ Planned(kind, c, n, decided).attempt = n
      /\ Planned(kind, c, n, decided).action =
           IF n >= MaxRetries THEN "operator_required" ELSE decided
  BY Zenon DEF Planned
<1>2. n \in Nat /\ n < MaxRetries => ~(n >= MaxRetries)
  BY EffectAssumption
<1> QED BY <1>1, <1>2, Zenon

\* Markers stay behind the attempts: a plan names attempts that have begun, and
\* an attempt never goes back.
LEMMA BehindKept == EffectInv /\ MarkersInv /\ [Next]_vars => MarkersBehind'
<1> SUFFICES ASSUME EffectInv, MarkersInv, [Next]_vars PROVE MarkersBehind'
  OBVIOUS
<1> USE DEF MarkersInv
<1>0. /\ recovery.plan \subseteq Marker /\ work \subseteq Marker
      /\ \A m \in Marker : m.cmd \in Commands /\ m.attempt \in Nat
  BY DEF EffectInv, TypeOK, Recovery, Marker
<1>1. \A c \in Commands : /\ op[c].attempt \in Nat /\ op'[c].attempt \in Nat
                          /\ cmd[c].attempt \in Nat /\ cmd'[c].attempt \in Nat
  <2>1. TypeOK /\ TypeOK'
    BY TypingStep DEF EffectInv
  <2> QED BY <2>1 DEF TypeOK, Operation, Command
<1>2. ASSUME NEW m \in work \cup recovery.plan
      PROVE  /\ m.kind = "operation" => m.attempt <= op'[m.cmd].attempt
             /\ m.action = "reconcile_effect" =>
                  m.kind = "effect" /\ m.attempt <= cmd'[m.cmd].attempt
  <2>1. m.cmd \in Commands /\ m.attempt \in Nat
    BY <1>0
  <2>2. op'[m.cmd].attempt >= op[m.cmd].attempt /\ cmd'[m.cmd].attempt >= cmd[m.cmd].attempt
    BY <2>1, AttemptsGrow DEF Grows
  <2> QED BY <1>1, <2>1, <2>2 DEF MarkersBehind
<1>3. ASSUME work' \cup recovery'.plan \subseteq work \cup recovery.plan PROVE MarkersBehind'
  BY <1>2, <1>3 DEF MarkersBehind
<1>4. CASE UNCHANGED <<recovery, work>>
  BY <1>3, <1>4
<1>5. CASE ScanOperations
  <2>1. UNCHANGED <<work, op, cmd>>
    BY <1>5 DEF ScanOperations, records
  <2>2. \A m \in recovery'.plan :
          \E c \in Commands : m = Planned("operation", c, op[c].attempt, "reconcile_operation")
    BY <1>5 DEF ScanOperations
  <2>3. \A m \in recovery'.plan :
          /\ m.attempt = op[m.cmd].attempt /\ m.cmd \in Commands
          /\ m.action # "reconcile_effect"
    BY <2>2, PlannedFields
  <2> QED BY <1>1, <1>2, <2>1, <2>3 DEF MarkersBehind
<1>6. CASE ScanEffects
  <2>1. UNCHANGED <<work, op, cmd>>
    BY <1>6 DEF ScanEffects, records
  <2>2. \A m \in recovery'.plan \ recovery.plan :
          \E c \in Commands, decided \in {"finalize_observed_effect", "reconcile_effect"} :
            m = Planned("effect", c, cmd[c].attempt, decided)
    <3>1. PICK page \in SUBSET Unfinished :
            recovery' = [recovery EXCEPT !.pc = "apply", !.plan = @ \cup
              {Planned("effect", c, cmd[c].attempt,
                       IF cmd[c].state = "observed" THEN "finalize_observed_effect"
                       ELSE "reconcile_effect") : c \in {d \in page : EffectDue(d)}}]
      BY <1>6 DEF ScanEffects
    <3>2. recovery'.plan = recovery.plan \cup
            {Planned("effect", c, cmd[c].attempt,
                     IF cmd[c].state = "observed" THEN "finalize_observed_effect"
                     ELSE "reconcile_effect") : c \in {d \in page : EffectDue(d)}}
      BY <3>1 DEF EffectInv, TypeOK, Recovery
    <3>3. page \subseteq Commands
      BY DEF Unfinished
    <3> QED BY <3>2, <3>3
  <2>3. \A m \in recovery'.plan \ recovery.plan :
          m.kind = "effect" /\ m.attempt = cmd[m.cmd].attempt /\ m.cmd \in Commands
    BY <2>2, PlannedFields
  <2> QED BY <1>1, <1>2, <2>1, <2>3 DEF MarkersBehind
<1>7. CASE ApplyRecovery
  BY <1>3, <1>7 DEF ApplyRecovery, Emitted, NoRecovery
<1>8. CASE DropRecovery
  BY <1>3, <1>8 DEF DropRecovery, NoRecovery
<1> QED BY <1>4, <1>5, <1>6, <1>7, <1>8, WhoMarks

\* A marker is emitted only with the quarantine it stands for.
LEMMA SettledKept == EffectInv /\ MarkersInv /\ [Next]_vars => MarkersSettled'
<1> SUFFICES ASSUME EffectInv, MarkersInv, [Next]_vars PROVE MarkersSettled'
  OBVIOUS
<1> USE DEF MarkersInv
<1>0. /\ recovery.plan \subseteq Marker /\ work \subseteq Marker
      /\ \A m \in Marker : m.cmd \in Commands /\ m.attempt \in Nat
  BY DEF EffectInv, TypeOK, Recovery, Marker
<1>1. \A c \in Commands : /\ op[c].attempt \in Nat /\ op'[c].attempt \in Nat
                          /\ cmd[c].attempt \in Nat /\ cmd'[c].attempt \in Nat
  <2>1. TypeOK /\ TypeOK'
    BY TypingStep DEF EffectInv
  <2> QED BY <2>1 DEF TypeOK, Operation, Command
<1> DEFINE Settled(m) ==
      /\ m.kind = "operation" /\ op'[m.cmd].state = "claimed" => m.attempt < op'[m.cmd].attempt
      /\ m.action = "reconcile_effect" /\ cmd'[m.cmd].state = "dispatched" =>
           m.attempt < cmd'[m.cmd].attempt
<1>2. ASSUME NEW m \in work PROVE Settled(m)
  <2>1. m.cmd \in Commands /\ m.attempt \in Nat
    BY <1>0
  <2>2. Grows(m.cmd)
    BY <2>1, AttemptsGrow
  <2>3. /\ m.kind = "operation" => m.attempt <= op[m.cmd].attempt
        /\ m.action = "reconcile_effect" => m.attempt <= cmd[m.cmd].attempt
    BY DEF MarkersBehind
  <2>4. /\ m.kind = "operation" /\ op[m.cmd].state = "claimed" => m.attempt < op[m.cmd].attempt
        /\ m.action = "reconcile_effect" /\ cmd[m.cmd].state = "dispatched" =>
             m.attempt < cmd[m.cmd].attempt
    BY DEF MarkersSettled
  <2> QED BY <1>1, <2>1, <2>2, <2>3, <2>4 DEF Grows
<1>3. CASE UNCHANGED work
  BY <1>2, <1>3 DEF MarkersSettled
<1>4. CASE ApplyRecovery
  <2>1. ASSUME NEW m \in Emitted PROVE Settled(m)
    <3>0. m \in recovery.plan /\ m.cmd \in Commands
      BY <1>0 DEF Emitted
    <3>1. m.kind = "operation" => op'[m.cmd].state # "claimed"
      <4> SUFFICES ASSUME m.kind = "operation" PROVE op'[m.cmd].state # "claimed"
        OBVIOUS
      <4>1. op'[m.cmd] = IF op[m.cmd].state = "claimed" THEN Unresolved(op[m.cmd]) ELSE op[m.cmd]
        <5> DEFINE taken(c) == op[c].state = "claimed" /\ \E n \in Emitted : n.kind = "operation" /\ n.cmd = c
        <5>1. \A c \in Commands : op'[c] = IF taken(c) THEN Unresolved(op[c]) ELSE op[c]
          BY <1>4, Zenon DEF ApplyRecovery
        <5>2. taken(m.cmd) <=> op[m.cmd].state = "claimed"
          BY <2>1
        <5> QED BY <3>0, <5>1, <5>2, Zenon
      <4>2. op[m.cmd] \in Operation
        BY <3>0 DEF EffectInv, TypeOK
      <4> QED BY <4>1, <4>2, AttemptKept
    <3>2. m.action = "reconcile_effect" => cmd'[m.cmd].state # "dispatched"
      <4> SUFFICES ASSUME m.action = "reconcile_effect" PROVE cmd'[m.cmd].state # "dispatched"
        OBVIOUS
      <4>1. cmd'[m.cmd] = IF cmd[m.cmd].state = "dispatched" THEN Quarantined(cmd[m.cmd]) ELSE cmd[m.cmd]
        <5> DEFINE lost(c) == cmd[c].state = "dispatched" /\ \E n \in Emitted : n.action = "reconcile_effect" /\ n.cmd = c
        <5>1. \A c \in Commands : cmd'[c] = IF lost(c) THEN Quarantined(cmd[c]) ELSE cmd[c]
          BY <1>4, Zenon DEF ApplyRecovery
        <5>2. lost(m.cmd) <=> cmd[m.cmd].state = "dispatched"
          BY <2>1
        <5> QED BY <3>0, <5>1, <5>2, Zenon
      <4>2. cmd[m.cmd] \in Command
        BY <3>0 DEF EffectInv, TypeOK
      <4> QED BY <4>1, <4>2, AttemptKept
    <3> QED BY <3>1, <3>2
  <2>2. work' = work \cup Emitted
    BY <1>4 DEF ApplyRecovery
  <2> QED BY <1>2, <2>1, <2>2 DEF MarkersSettled
<1> QED BY <1>3, <1>4, WhoMarks DEF ScanOperations, ScanEffects, DropRecovery

\* A marker emitted for one attempt hides no later expiry, for any budget of
\* attempts and of retries and any page of the recovery scan.
THEOREM Markers == Spec => []MarkersNeverMask
<1>1. Init => MarkersInv
  BY DEF Init, MarkersInv, AttemptsInOrder, MarkersBehind, MarkersSettled, NoRecovery
<1>2. EffectInv /\ MarkersInv /\ [Next]_vars => MarkersInv'
  BY InOrderKept, BehindKept, SettledKept DEF MarkersInv
<1>3. EffectInv /\ MarkersInv => MarkersNeverMask
  <2> SUFFICES ASSUME EffectInv, MarkersSettled, NEW c \in Commands
               PROVE  /\ op[c].state = "claimed" =>
                           Planned("operation", c, op[c].attempt, "reconcile_operation") \notin work
                      /\ cmd[c].state = "dispatched" /\ cmd[c].attempt < MaxRetries =>
                           Planned("effect", c, cmd[c].attempt, "reconcile_effect") \notin work
    BY DEF MarkersInv, MarkersNeverMask
  <2>1. op[c].attempt \in Nat /\ cmd[c].attempt \in Nat
    BY DEF EffectInv, TypeOK, Operation, Command
  <2>2. op[c].state = "claimed" =>
          Planned("operation", c, op[c].attempt, "reconcile_operation") \notin work
    BY <2>1, PlannedFields DEF MarkersSettled
  <2>3. cmd[c].state = "dispatched" /\ cmd[c].attempt < MaxRetries =>
          Planned("effect", c, cmd[c].attempt, "reconcile_effect") \notin work
    BY <2>1, PlannedFields DEF MarkersSettled
  <2> QED BY <2>2, <2>3
<1> QED BY <1>1, <1>2, <1>3, Invariance, PTL DEF Spec

----------------------------------------------------------------------------
(* The aggregate of command, claim and operation, with its workers, recovery *)
(* and operators, implements the contract of one effect.                    *)

\* The contract's view of each state a command can be in.
LEMMA StatusValues ==
  /\ StatusOf("prepared") = "open" /\ StatusOf("waiting_provider") = "open"
  /\ StatusOf("dispatched") = "taken" /\ StatusOf("observed") = "taken"
  /\ StatusOf("unknown") = "taken" /\ StatusOf("applied") = "done"
  /\ StatusOf("failed") = "rejected" /\ StatusOf("cancelled") = "withdrawn"
BY DEF StatusOf

\* When no command changes its state the contract sees nothing.
LEMMA StatusStays ==
  ASSUME \A d \in Commands : StatusOf(cmd'[d].state) = StatusOf(cmd[d].state)
  PROVE  EffectStatus' = EffectStatus
BY DEF EffectStatus

\* When one command changes its state the contract sees one effect move.
LEMMA StatusMoves ==
  ASSUME NEW c \in Commands, \A d \in Commands \ {c} : cmd'[d] = cmd[d]
  PROVE  EffectStatus' = [EffectStatus EXCEPT ![c] = StatusOf(cmd'[c].state)]
BY DEF EffectStatus

\* What a report or a resolution writes is a move of one effect.
LEMMA Becomes ==
  ASSUME NEW c \in Commands, \A d \in Commands \ {c} : cmd'[d] = cmd[d],
         UNCHANGED performed
  PROVE  Abstract!Become(c, StatusOf(cmd[c].state), StatusOf(cmd'[c].state))
BY StatusMoves DEF Abstract!Become, EffectStatus

Refined == [Abstract!Step]_<<EffectStatus, performed>>

\* Cancelling and steering withdraw prepared commands and touch no other.
LEMMA Withdraws ==
  ASSUME \A d \in Commands :
           cmd'[d] = cmd[d] \/ (cmd[d].state = "prepared" /\ cmd'[d].state = "cancelled"),
         UNCHANGED performed
  PROVE  Refined
<1> DEFINE C == {d \in Commands : cmd[d].state = "prepared" /\ cmd'[d].state = "cancelled"}
<1>1. C \in SUBSET {d \in Commands : EffectStatus[d] = "open"}
  BY StatusValues DEF EffectStatus
<1>2. EffectStatus' = [d \in Commands |-> IF d \in C THEN "withdrawn" ELSE EffectStatus[d]]
  BY StatusValues DEF EffectStatus
<1>3. Abstract!Withdraw
  BY <1>1, <1>2 DEF Abstract!Withdraw
<1> QED BY <1>3 DEF Abstract!Step, Refined

\* Every step of the aggregate is a step of the contract or invisible to it.
LEMMA StepRefines == EffectInv /\ [Next]_vars => Refined
<1> SUFFICES ASSUME EffectInv, [Next]_vars PROVE Refined
  OBVIOUS
<1> USE DEF Refined
<1>1. ASSUME NEW w \in Workers, NEW c \in Commands, ClaimEffect(w, c) PROVE Refined
  BY <1>1, StatusStays DEF ClaimEffect
<1>2. ASSUME NEW w \in Workers, NEW c \in Commands, MarkDispatched(w, c) PROVE Refined
  <2>1. DispatchWrites(w, c)
    BY <1>2, DispatchWritten DEF EffectInv
  <2>2. Abstract!Take(c)
    BY <2>1, Becomes, StatusValues DEF DispatchWrites, Elsewhere, Abstract!Take
  <2> QED BY <2>2 DEF Abstract!Step
<1>3. ASSUME NEW w \in Workers, NEW c \in Commands, CallProvider(w, c) PROVE Refined
  <2>1. EffectStatus' = EffectStatus
    BY <1>3, StatusStays DEF CallProvider, records
  <2>2. performed[c] = 0 /\ EffectStatus[c] = "taken"
    BY <1>3, StatusValues
       DEF EffectInv, WorkerKnows, CallerHolds, Calling, CallProvider, EffectStatus
  <2>3. UNCHANGED performed \/ performed' = [performed EXCEPT ![c] = 1]
    BY <1>3, <2>2 DEF EffectInv, TypeOK, CallProvider
  <2> QED BY <2>1, <2>2, <2>3 DEF Abstract!Step, Abstract!Perform
<1>4. ASSUME NEW w \in Workers, NEW c \in Commands, MarkObserved(w, c) PROVE Refined
  <2>1. cmd[c].state = "dispatched" /\ cmd'[c].state = "observed"
    BY <1>4 DEF EffectInv, TypeOK, Command, MarkObserved, Reporting
  <2>2. \A d \in Commands \ {c} : cmd'[d] = cmd[d]
    BY <1>4 DEF EffectInv, TypeOK, MarkObserved
  <2>3. EffectStatus' = EffectStatus
    BY <2>1, <2>2, StatusStays, StatusValues
  <2> QED BY <1>4, <2>3 DEF MarkObserved
<1>5. ASSUME NEW w \in Workers, NEW c \in Commands, MarkUnknown(w, c) PROVE Refined
  <2>1. cmd[c].state = "dispatched" /\ cmd'[c].state = "unknown"
    BY <1>5 DEF EffectInv, TypeOK, Command, MarkUnknown, Reporting, Quarantined
  <2>2. \A d \in Commands \ {c} : cmd'[d] = cmd[d]
    BY <1>5 DEF EffectInv, TypeOK, MarkUnknown
  <2>3. EffectStatus' = EffectStatus
    BY <2>1, <2>2, StatusStays, StatusValues
  <2> QED BY <1>5, <2>3 DEF MarkUnknown
<1>6. ASSUME NEW w \in Workers, NEW c \in Commands,
             RestorePrepared(w, c) \/ MarkWaitingProvider(w, c)
      PROVE  Refined
  <2>1. cmd[c].state = "dispatched" /\ cmd'[c].state \in {"prepared", "waiting_provider"}
    <3>1. Reopened(cmd[c]).state = "prepared"
      BY DEF EffectInv, TypeOK, Command, Reopened
    <3>2. CASE RestorePrepared(w, c)
      BY <3>1, <3>2 DEF EffectInv, TypeOK, RestorePrepared, Reporting
    <3>3. CASE MarkWaitingProvider(w, c)
      BY <3>3 DEF EffectInv, TypeOK, Command, MarkWaitingProvider, Reporting
    <3> QED BY <1>6, <3>2, <3>3
  <2>2. /\ \A d \in Commands \ {c} : cmd'[d] = cmd[d]
        /\ UNCHANGED performed
    BY <1>6 DEF EffectInv, TypeOK, RestorePrepared, MarkWaitingProvider
  <2>3. performed[c] = 0
    BY <1>6 DEF EffectInv, WorkerKnows, RestorePrepared, MarkWaitingProvider, Reporting, Fenced
  <2>4. Abstract!GiveBack(c)
    BY <2>1, <2>2, <2>3, Becomes, StatusValues DEF Abstract!GiveBack
  <2> QED BY <2>4 DEF Abstract!Step
<1>7. ASSUME NEW w \in Workers, NEW c \in Commands, FinalizeReceipt(w, c) PROVE Refined
  <2>1. FinalizeWrites(w, c)
    BY <1>7, FinalizeWritten DEF EffectInv
  <2>2. \/ cmd'[c].state = "applied" /\ performed[c] = 1
        \/ cmd'[c].state = "failed" /\ performed[c] = 0
    BY <2>1 DEF FinalizeWrites, EffectInv, RecordKnows
  <2>3. Abstract!Close(c)
    BY <2>1, <2>2, Becomes, StatusValues DEF FinalizeWrites, Elsewhere, Abstract!Close
  <2> QED BY <2>3 DEF Abstract!Step
<1>8. ASSUME NEW w \in Workers, AdvanceStage(w) \/ Abandon(w) PROVE Refined
  BY <1>8, StatusStays DEF AdvanceStage, Abandon, records
<1>9. CASE ApplyRecovery
  <2>1. /\ \A d \in Commands : StatusOf(cmd'[d].state) = StatusOf(cmd[d].state)
        /\ UNCHANGED performed
    BY <1>9, RecoveryTouches, StatusValues DEF EffectInv
  <2> QED BY <2>1, StatusStays
<1>10. ASSUME NEW c \in Commands, ConfirmApplied(c) \/ ConfirmNotApplied(c) \/ GiveUp(c)
       PROVE  Refined
  <2>1. ResolveWrites(c) /\ performed[c] \in {0, 1}
    BY <1>10, ResolveWritten DEF EffectInv, RecordKnows
  <2>2. Abstract!Close(c) \/ Abstract!GiveBack(c) \/ Abstract!GiveUpTaken(c)
    <3>1. Abstract!Become(c, "taken", StatusOf(cmd'[c].state))
      BY <2>1, Becomes, StatusValues DEF ResolveWrites, Elsewhere
    <3> QED BY <2>1, <3>1, StatusValues
            DEF ResolveWrites, Abstract!Close, Abstract!GiveBack, Abstract!GiveUpTaken
  <2> QED BY <2>2 DEF Abstract!Step
<1>11. \A k \in Command : Cancelled(k) = k \/ (k.state = "prepared" /\ Cancelled(k).state = "cancelled")
  BY DEF Command, Cancelled
<1>12. \A d \in Commands : cmd[d] \in Command
  BY DEF EffectInv, TypeOK
<1>13. CASE Cancel
  <2>1. /\ \A d \in Commands : cmd'[d] = cmd[d] \/ cmd'[d] = Cancelled(cmd[d])
        /\ UNCHANGED performed
    BY <1>13 DEF Cancel
  <2>2. \A d \in Commands :
          cmd'[d] = cmd[d] \/ (cmd[d].state = "prepared" /\ cmd'[d].state = "cancelled")
    BY <1>11, <1>12, <2>1
  <2> QED BY <2>1, <2>2, Withdraws
<1>14. ASSUME NEW stage, NEW withdrawn, Steer(stage, withdrawn) PROVE Refined
  <2>1. (\A d \in Commands : cmd'[d] = Cancelled(cmd[d])) /\ UNCHANGED performed
    BY <1>14 DEF Steer
  <2>2. \A d \in Commands :
          cmd'[d] = cmd[d] \/ (cmd[d].state = "prepared" /\ cmd'[d].state = "cancelled")
    BY <1>11, <1>12, <2>1
  <2> QED BY <2>1, <2>2, Withdraws
<1>15. CASE UNCHANGED <<records, worker, performed>>
  BY <1>15, StatusStays DEF records
<1> QED BY <1>1, <1>2, <1>3, <1>4, <1>5, <1>6, <1>7, <1>8, <1>9, <1>10, <1>13, <1>14, <1>15,
           StepCases

\* Workers, recovery and operators together do only what the contract of one
\* effect allows.
THEOREM Refinement == Spec => ImplementsContract
<1>1. Init => Abstract!Start
  BY StatusValues DEF Init, Abstract!Start, EffectStatus
<1>2. EffectInv /\ [Next]_vars => [Abstract!Step]_<<EffectStatus, performed>>
  BY StepRefines DEF Refined
<1> QED BY <1>1, <1>2, Invariance, PTL DEF Spec, ImplementsContract, Abstract!Contract
============================================================================
