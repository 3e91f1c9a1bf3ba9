------------------------------ MODULE DraftGate ------------------------------
(* From a produced draft through the approval gate to the published actions. *)
(*                                                                          *)
(* A run of the draft stage posts what the agents produced; the route claims *)
(* the result's digest under a lease and applies or rejects it. Operators   *)
(* decide the gated actions; whoever finds nothing pending makes a command  *)
(* of every executable action, one read and one insert each, and moves the  *)
(* job on. The publish worker carries the commands out. A nudge or a redo    *)
(* may come between any two of these steps. Whoever dies takes no more steps. *)
(* Claims on an effect, and the                                              *)
(* triggers that start the runs, are in EffectCommand and StagePipeline.     *)
EXTENDS Integers, FiniteSets

CONSTANTS
  Runs,        \* runs of the draft stage; a retry or a redelivery is another one
  Operators,   \* requests that decide an action
  Publishers,  \* runs of the publish stage, again and again
  Results,     \* what the agents may produce, by digest
  RevisionOf,  \* RevisionOf[r]: 2 for a result of a revision pass, else 1
  Sealable,    \* the results that pass the seal's checks
  Kinds,       \* the kinds of action a result calls for
  Gated,       \* those that need an approval, and a connection
  Connections, \* the sets of gated kinds that may find themselves connected
  Outcomes,    \* what a publish attempt may end in: "applied", "failed"
  None,        \* no result, run or action
  MaxSteers    \* bound: the nudges and redos

ASSUME GateAssumption ==
  /\ RevisionOf \in [Results -> {1, 2}]
  /\ Sealable \subseteq Results /\ Gated \subseteq Kinds
  /\ Connections \subseteq SUBSET Gated
  /\ Outcomes \subseteq {"applied", "failed"}
  /\ None \notin Runs \cup Results /\ Runs \cap Operators = {}
  /\ MaxSteers \in Nat

VARIABLES
  job,        \* stage; whether an item is in production; the applied result; the callback claim
  actions,    \* the job's actions, a function on the ids it has
  item,       \* the stored status of the planned item
  revisions,  \* the artifact revisions inserted
  rejected,   \* the digests with a rejection record
  decision,   \* decision[a]: the stored decision, the steers before it, and whether at the gate
  command,    \* command[a]: the effect command of action a
  actor,      \* actor[x]: where a draft run or a decision request stands
  publisher,  \* publisher[p]: where a publish run stands
  steers      \* the nudges and redos so far

vars == <<job, actions, item, revisions, rejected, decision, command, actor, publisher, steers>>

\* An action's id is made of its kind and the digest of its content.
Actions == [kind: Kinds, of: Results]
NeedsApproval(a) == a.kind \in Gated

Action == [approval: {"not_required", "pending", "approved", "rejected"},
           state: {"planned", "skipped", "executed", "failed"}]
Commands == {"none", "prepared", "dispatched", "applied", "failed", "cancelled"}
Callback == [of: Results \cup {None}, owner: Runs \cup {None}, live: BOOLEAN]
Job == [stage: {"draft", "gate", "publish", "verify"}, drafting: BOOLEAN,
        result: Results \cup {None}, callback: Callback]
Decision == [verdict: {"none", "approved", "rejected"}, at: 0..MaxSteers, gate: BOOLEAN]
Actor == [pc: {"idle", "produced", "posting", "claimed", "look", "collect", "build", "verify",
               "over"},
          result: Results \cup {None}, late: BOOLEAN, todo: SUBSET Actions,
          adding: SUBSET Actions, ok: BOOLEAN, since: 0..MaxSteers]
Publisher == [on: Actions \cup {None}, todo: SUBSET Actions, pc: {"idle", "run"}]

\* The type of every variable.
TypeOK ==
  /\ job \in Job
  /\ DOMAIN actions \subseteq Actions /\ \A a \in DOMAIN actions : actions[a] \in Action
  /\ item \in {"running", "awaiting"}
  /\ revisions \subseteq {1, 2} /\ rejected \subseteq Results
  /\ decision \in [Actions -> Decision]
  /\ command \in [Actions -> Commands]
  /\ actor \in [Runs \cup Operators -> Actor]
  /\ publisher \in [Publishers -> Publisher]
  /\ steers \in 0..MaxSteers

NoCallback == [of |-> None, owner |-> None, live |-> FALSE]
Idle == [pc |-> "idle", result |-> None, late |-> FALSE, todo |-> {}, adding |-> {},
         ok |-> TRUE, since |-> 0]
Over == [Idle EXCEPT !.pc = "over"]

Init ==
  /\ job = [stage |-> "draft", drafting |-> FALSE, result |-> None, callback |-> NoCallback]
  /\ actions = [a \in {} |-> [approval |-> "pending", state |-> "planned"]]
  /\ item = "running"
  /\ revisions = {} /\ rejected = {}
  /\ decision = [a \in Actions |-> [verdict |-> "none", at |-> 0, gate |-> FALSE]]
  /\ command = [a \in Actions |-> "none"]
  /\ actor = [x \in Runs \cup Operators |-> Idle]
  /\ publisher = [p \in Publishers |-> [on |-> None, todo |-> {}, pc |-> "idle"]]
  /\ steers = 0

----------------------------------------------------------------------------
(* The draft stage.                                                         *)

records == <<revisions, rejected, decision, command>>

\* The item's state as the job shows it.
Lifecycle ==
  IF item = "awaiting" THEN "awaiting" ELSE IF job.drafting THEN "drafting" ELSE "selected"

\* run_draft takes the item, and the agents produce a result.
Produce(w, r) ==
  /\ actor[w].pc = "idle"
  /\ job.stage = "draft" /\ Lifecycle \in {"selected", "drafting"}
  /\ job' = [job EXCEPT !.drafting = TRUE]
  /\ actor' = [actor EXCEPT ![w].pc = "produced", ![w].result = r]
  /\ UNCHANGED <<actions, item, records, publisher, steers>>

\* The route reads the job, and judges its stage by this reading later.
Post(w) ==
  /\ actor[w].pc = "produced"
  /\ actor' = [actor EXCEPT ![w].pc = "posting", ![w].late = job.stage \notin {"draft", "gate"}]
  /\ UNCHANGED <<job, actions, item, records, publisher, steers>>

\* A digest that was rejected or applied, another's callback and the same
\* digest under a lease end the run.
ClaimCallback(w) ==
  LET r == actor[w].result
      free == /\ r \notin rejected /\ job.result # r
              /\ \/ job.callback.of = None
                 \/ job.callback.of = r /\ ~job.callback.live
  IN
  /\ actor[w].pc = "posting"
  /\ \/ /\ free
        /\ job' = [job EXCEPT !.callback = [of |-> r, owner |-> w, live |-> TRUE]]
        /\ actor' = [actor EXCEPT ![w].pc = "claimed"]
     \/ /\ ~free
        /\ actor' = [actor EXCEPT ![w] = Over]
        /\ UNCHANGED job
  /\ UNCHANGED <<actions, item, records, publisher, steers>>

\* The callback is this run's, by its digest, its token and its lease.
Holds(w) == job.callback = [of |-> actor[w].result, owner |-> w, live |-> TRUE]

Unfit(w) == actor[w].late \/ actor[w].result \notin Sealable

RejectCallback(w) ==
  /\ actor[w].pc = "claimed" /\ Unfit(w) /\ Holds(w) /\ actor[w].result \notin rejected
  /\ rejected' = rejected \cup {actor[w].result}
  /\ job' = [job EXCEPT !.callback = NoCallback]
  /\ actor' = [actor EXCEPT ![w] = Over]
  /\ UNCHANGED <<actions, item, revisions, decision, command, publisher, steers>>

\* The actions of result r when the kinds in connected have a connection.
Derived(r, connected) ==
  [a \in {b \in Actions : b.of = r /\ (NeedsApproval(b) => b.kind \in connected)} |->
     [approval |-> IF NeedsApproval(a) THEN "pending" ELSE "not_required", state |-> "planned"]]

Bug_AnyStage(w) ==
  /\ Holds(w) /\ job.result # actor[w].result /\ job.drafting
  /\ RevisionOf[actor[w].result] \notin revisions

\* A revision that is already stored makes the insert, and the whole write, fail.
CanFinalize(w) ==
  /\ Holds(w) /\ job.result # actor[w].result
  /\ job.stage = "draft" /\ Lifecycle = "drafting"
  /\ RevisionOf[actor[w].result] \notin revisions

FinalizeDraft(w, connected) ==
  LET r == actor[w].result  gated == connected # {} IN
  /\ actor[w].pc = "claimed" /\ ~Unfit(w) /\ CanFinalize(w)
  /\ job' = [job EXCEPT !.result = r, !.callback = NoCallback,
                        !.stage = IF gated THEN "gate" ELSE @]
  /\ item' = IF gated THEN "awaiting" ELSE "running"
  /\ actions' = Derived(r, connected)
  /\ revisions' = revisions \cup {RevisionOf[r]}
  /\ actor' = [actor EXCEPT ![w] =
       IF gated THEN Over ELSE [Idle EXCEPT !.pc = "collect", !.since = steers]]
  /\ UNCHANGED <<rejected, decision, command, publisher, steers>>

\* The route throws: the callback stays as it is.
RouteThrows(w) ==
  /\ actor[w].pc = "claimed"
  /\ IF Unfit(w) THEN ~Holds(w) \/ actor[w].result \in rejected ELSE ~CanFinalize(w)
  /\ actor' = [actor EXCEPT ![w] = Over]
  /\ UNCHANGED <<job, actions, item, records, publisher, steers>>

ExpireCallback ==
  /\ job.callback.live
  /\ job' = [job EXCEPT !.callback.live = FALSE]
  /\ UNCHANGED <<actions, item, records, actor, publisher, steers>>

\* The periodic recovery gives the item the state of its job.
Reconcile ==
  /\ item' = IF job.stage = "gate" THEN "awaiting" ELSE "running"
  /\ item' # item
  /\ UNCHANGED <<job, actions, records, actor, publisher, steers>>

DraftStep(w) ==
  \/ \E r \in Results : Produce(w, r)
  \/ Post(w) \/ ClaimCallback(w) \/ RejectCallback(w) \/ RouteThrows(w)
  \/ \E connected \in Connections : FinalizeDraft(w, connected)

----------------------------------------------------------------------------
(* A decision, and what follows from the last one.                          *)

\* recordApproval: the stage is not asked. A decision record is never replaced.
Decide(d, a, verdict) ==
  /\ actor[d].pc = "idle"
  /\ a \in DOMAIN actions /\ actions[a].approval = "pending" /\ decision[a].verdict = "none"
  /\ actions' = [actions EXCEPT ![a].approval = verdict,
                   ![a].state = IF verdict = "approved" THEN "planned" ELSE "skipped"]
  /\ decision' = [decision EXCEPT ![a] =
       [verdict |-> verdict, at |-> steers, gate |-> job.stage = "gate"]]
  /\ actor' = [actor EXCEPT ![d].pc = "look"]
  /\ UNCHANGED <<job, item, revisions, rejected, command, publisher, steers>>

Pending == {a \in DOMAIN actions : actions[a].approval = "pending"}
Executable == {a \in DOMAIN actions :
  actions[a].state = "planned" /\ (NeedsApproval(a) => actions[a].approval = "approved")}

Bug_AnyDecision == job.stage = "gate"

LastDecided == job.stage = "gate" /\ Pending = {}

\* Without an executable action the job goes straight to verification.
Look(d) ==
  /\ actor[d].pc = "look"
  /\ actor' = [actor EXCEPT ![d] =
       IF ~LastDecided THEN Over
       ELSE [Idle EXCEPT !.pc = IF Executable = {} THEN "verify" ELSE "collect", !.since = steers]]
  /\ UNCHANGED <<job, actions, item, records, publisher, steers>>

\* materializeExecutableJobCommands reads the job.
Collect(x) ==
  /\ actor[x].pc = "collect" /\ actor[x].todo = {}
  /\ actor' = [actor EXCEPT ![x].todo = Executable,
                 ![x].pc = IF Executable = {} THEN "build" ELSE @]
  /\ UNCHANGED <<job, actions, item, records, publisher, steers>>

\* buildJobActionCommand: what must hold of an action, read on its own.
Buildable(a) ==
  /\ a \in DOMAIN actions /\ actions[a].state = "planned"
  /\ actions[a].approval = IF NeedsApproval(a) THEN "approved" ELSE "not_required"
  /\ NeedsApproval(a) => decision[a].verdict = "approved"

\* The reads for its actions, taken together. A command that is there is taken as
\* it is, whatever its state.
ReadActions(x) ==
  /\ actor[x].pc = "collect" /\ actor[x].todo # {}
  /\ actor' = [actor EXCEPT ![x].pc = "build", ![x].todo = {},
                 ![x].adding = {a \in actor[x].todo : Buildable(a) /\ command[a] = "none"},
                 ![x].ok = \A a \in actor[x].todo : Buildable(a)]
  /\ UNCHANGED <<job, actions, item, records, publisher, steers>>

\* The insert fails when another got there first; the rest are made all the same.
AddCommand(x, a) ==
  /\ actor[x].pc = "build" /\ a \in actor[x].adding
  /\ command' = [command EXCEPT ![a] = IF @ = "none" THEN "prepared" ELSE @]
  /\ actor' = [actor EXCEPT ![x].adding = @ \ {a}, ![x].ok = @ /\ command[a] = "none"]
  /\ UNCHANGED <<job, actions, item, revisions, rejected, decision, publisher, steers>>

\* transitionStageWithOutbox asks for the stage and nothing else.
MoveOn(x) ==
  LET next == IF actor[x].pc = "verify" THEN "verify" ELSE "publish"
      from == IF x \in Runs THEN "draft" ELSE "gate"
  IN
  /\ \/ actor[x].pc = "build" /\ actor[x].adding = {}
     \/ actor[x].pc = "verify"
  /\ job' = [job EXCEPT !.stage = IF actor[x].ok /\ @ = from THEN next ELSE @]
  /\ actor' = [actor EXCEPT ![x] = Over]
  /\ UNCHANGED <<actions, item, records, publisher, steers>>

ActorStep(x) ==
  \/ Collect(x) \/ ReadActions(x) \/ MoveOn(x)
  \/ \E a \in Actions : AddCommand(x, a)

OperatorStep(d) ==
  \/ Look(d)
  \/ \E a \in Actions, verdict \in {"approved", "rejected"} : Decide(d, a, verdict)

----------------------------------------------------------------------------
(* The publish stage.                                                       *)

draft == <<item, revisions, rejected, decision, actor, steers>>

StartPublish(p) ==
  /\ publisher[p].pc = "idle" /\ job.stage = "publish"
  /\ publisher' = [publisher EXCEPT ![p] =
       [on |-> None, todo |-> {a \in Actions : command[a] = "prepared"}, pc |-> "run"]]
  /\ UNCHANGED <<job, actions, command, draft>>

\* claimCommandEffect: the action is still the job's, and still authorized.
Claimable(a) == command[a] = "prepared" /\ Buildable(a)

\* A claim that is refused ends the run, and one that another holds; an effect
\* that is applied is passed over.
ClaimEffect(p, a) ==
  LET me == publisher[p]  held == \E q \in Publishers : publisher[q].on = a IN
  /\ me.pc = "run" /\ me.on = None /\ a \in me.todo
  /\ publisher' = [publisher EXCEPT ![p] =
       IF Claimable(a) /\ ~held THEN [me EXCEPT !.on = a, !.todo = @ \ {a}]
       ELSE IF command[a] = "applied" THEN [me EXCEPT !.todo = @ \ {a}]
       ELSE [on |-> None, todo |-> {}, pc |-> "idle"]]
  /\ UNCHANGED <<job, actions, command, draft>>

\* The provider is called only after this write; a cancelled command refuses it.
DispatchEffect(p) ==
  LET a == publisher[p].on IN
  /\ a # None /\ command[a] # "dispatched"
  /\ IF command[a] = "prepared"
       THEN command' = [command EXCEPT ![a] = "dispatched"] /\ UNCHANGED publisher
       ELSE /\ publisher' = [publisher EXCEPT ![p] = [on |-> None, todo |-> {}, pc |-> "idle"]]
            /\ UNCHANGED command
  /\ UNCHANGED <<job, actions, draft>>

\* The receipt; it is refused when the job no longer has the action.
Receipt(p, outcome) ==
  LET a == publisher[p].on  here == a \in DOMAIN actions IN
  /\ a # None /\ command[a] = "dispatched"
  /\ command' = IF here THEN [command EXCEPT ![a] = outcome] ELSE command
  /\ actions' = IF here
       THEN [actions EXCEPT ![a].state = IF outcome = "applied" THEN "executed" ELSE "failed"]
       ELSE actions
  /\ publisher' = [publisher EXCEPT ![p] =
       IF here THEN [@ EXCEPT !.on = None] ELSE [on |-> None, todo |-> {}, pc |-> "idle"]]
  /\ UNCHANGED <<job, draft>>

\* The completion is refused while an action is planned.
PublishDone(p) ==
  /\ publisher[p].pc = "run" /\ publisher[p].on = None /\ publisher[p].todo = {}
  /\ job' = [job EXCEPT !.stage =
       IF @ = "publish" /\ \A a \in DOMAIN actions : actions[a].state # "planned"
       THEN "verify" ELSE @]
  /\ publisher' = [publisher EXCEPT ![p].pc = "idle"]
  /\ UNCHANGED <<actions, command, draft>>

PublishStep(p) ==
  \/ StartPublish(p) \/ DispatchEffect(p) \/ PublishDone(p)
  \/ \E a \in Actions : ClaimEffect(p, a)
  \/ \E outcome \in Outcomes : Receipt(p, outcome)

----------------------------------------------------------------------------
(* Steering.                                                                *)

Bug_KeepsCommands == command

\* invalidatePreparedCommands
Withdrawn == [a \in Actions |-> IF command[a] = "prepared" THEN "cancelled" ELSE command[a]]

Steered(stage, revoked) ==
  /\ steers < MaxSteers /\ steers' = steers + 1
  /\ job' = [job EXCEPT !.stage = stage]
  /\ actions' = [a \in DOMAIN actions |->
       IF a \in revoked THEN [actions[a] EXCEPT !.approval = "pending"] ELSE actions[a]]
  /\ command' = Withdrawn
  /\ UNCHANGED <<item, revisions, rejected, decision, actor, publisher>>

\* applyNudge: the gate goes back to draft, any other stage starts again.
Nudge ==
  Steered(IF job.stage = "gate" THEN "draft" ELSE job.stage,
          {a \in DOMAIN actions : actions[a].state = "planned" /\ actions[a].approval = "approved"})

\* redoJobStage: every planned action is pending again, an autonomous one too.
Redo(stage) ==
  /\ \A a \in DOMAIN actions : stage # "verify" => actions[a].state # "executed"
  /\ Steered(stage, {a \in DOMAIN actions : actions[a].state = "planned"})

Steer == Nudge \/ \E stage \in {"draft", "gate", "publish", "verify"} : Redo(stage)

----------------------------------------------------------------------------

Next ==
  \/ \E w \in Runs : DraftStep(w)
  \/ \E d \in Operators : OperatorStep(d)
  \/ \E x \in Runs \cup Operators : ActorStep(x)
  \/ \E p \in Publishers : PublishStep(p)
  \/ ExpireCallback \/ Reconcile \/ Steer

Spec == Init /\ [][Next]_vars

----------------------------------------------------------------------------
(* What must hold.                                                          *)

\* Nothing is published but what an operator approved, or policy let pass, and
\* no steering has withdrawn since: at the write that allows the provider call
\* the action is the job's, planned and authorized, however stale the readings
\* were on which its command was made.
PublishedAsApproved ==
  [][\A a \in Actions :
       command[a] # "dispatched" /\ command'[a] = "dispatched" => Buildable(a)]_vars

\* A draft that comes late, from a run that was thought dead or a callback taken
\* over, never replaces actions an operator has decided at the gate: they stay
\* the job's until an operator steers.
DecidedStays ==
  [][\A a \in DOMAIN actions :
       decision[a].gate /\ a \notin DOMAIN actions' => decision[a].at < steers]_vars

\* Some request acts on a gate it saw before the last steering.
Outdated ==
  \E x \in Operators : actor[x].pc \in {"collect", "build", "verify"} /\ actor[x].since # steers

\* The gate is left with every action decided and a command for each executable
\* one, whichever operators decided at the same time and wherever one of them
\* died; unless an operator steers, or did since the request looked.
GateLeftDecided ==
  [][job.stage = "gate" /\ job'.stage \in {"publish", "verify"} =>
       \/ steers' # steers \/ Outdated
       \/ Pending = {} /\ \A a \in Executable : command[a] # "none"]_vars
=============================================================================
