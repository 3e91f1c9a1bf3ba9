----------------------------- MODULE GateProofs ------------------------------
(* Proofs, for any results, kinds, runs, operators and publishers, that     *)
(* only what is approved is published, that a late draft replaces no        *)
(* decided action, and that the gate is left decided.                       *)
EXTENDS DraftGate, TLAPS

USE GateAssumption

(* Every variable keeps its type.                                           *)

\* A run between its production and its end has a result.
Carries ==
  \A w \in Runs : actor[w].pc \in {"produced", "posting", "claimed"} => actor[w].result \in Results

\* The two records of a request that is not at work.
LEMMA IdleActor == Idle \in Actor /\ Over \in Actor
<1>1. 0 \in 0..MaxSteers
  OBVIOUS
<1>2. Idle \in Actor
  BY <1>1 DEF Idle, Actor
<1> QED BY <1>2 DEF Over, Actor

\* The initial states are well typed.
LEMMA TypingInit == Init => TypeOK
BY DEF Init, TypeOK, Job, Callback, NoCallback, Decision, Actor, Publisher, Idle, Commands,
       Actions, Action

\* The steps of a run of the draft stage.
LEMMA TypingDraft ==
  ASSUME TypeOK, Carries, NEW w \in Runs, DraftStep(w)
  PROVE  TypeOK'
<1> USE DEF TypeOK, records
<1>a. actor[w] \in Actor /\ Over \in Actor
  BY IdleActor
<1>1. ASSUME NEW r \in Results, Produce(w, r) PROVE TypeOK'
  <2>1. job' \in Job
    BY <1>1 DEF Produce, Job
  <2>2. actor' \in [Runs \cup Operators -> Actor]
    BY <1>1, <1>a DEF Produce, Actor
  <2> QED BY <1>1, <2>1, <2>2 DEF Produce
<1>2. CASE Post(w)
  <2>1. actor' \in [Runs \cup Operators -> Actor]
    BY <1>2, <1>a DEF Post, Actor
  <2> QED BY <1>2, <2>1 DEF Post
<1>3. CASE ClaimCallback(w)
  <2>1. [of |-> actor[w].result, owner |-> w, live |-> TRUE] \in Callback
    BY <1>a DEF Callback, Actor
  <2>2. job' \in Job
    BY <1>3, <2>1 DEF ClaimCallback, Job
  <2>3. actor' \in [Runs \cup Operators -> Actor]
    BY <1>3, <1>a DEF ClaimCallback, Actor
  <2> QED BY <1>3, <2>2, <2>3 DEF ClaimCallback
<1>4. CASE RejectCallback(w)
  <2>1. job' \in Job
    BY <1>4 DEF RejectCallback, NoCallback, Job, Callback
  <2>2. actor' \in [Runs \cup Operators -> Actor]
    BY <1>4, <1>a DEF RejectCallback
  <2>3. rejected' \subseteq Results
    BY <1>4 DEF RejectCallback, Carries
  <2> QED BY <1>4, <2>1, <2>2, <2>3 DEF RejectCallback
<1>5. CASE RouteThrows(w)
  BY <1>5, <1>a DEF RouteThrows
<1>6. ASSUME NEW connected \in Connections, FinalizeDraft(w, connected) PROVE TypeOK'
  <2> DEFINE r == actor[w].result
  <2>1. r \in Results
    BY <1>6 DEF FinalizeDraft, Unfit
  <2>2. job' \in Job
    BY <1>6, <2>1 DEF FinalizeDraft, Job, Callback, NoCallback
  <2>3. DOMAIN actions' \subseteq Actions /\ \A a \in DOMAIN actions' : actions'[a] \in Action
    BY <1>6 DEF FinalizeDraft, Derived, Action
  <2>4. revisions' \subseteq {1, 2}
    BY <1>6, <2>1 DEF FinalizeDraft
  <2>5. actor' \in [Runs \cup Operators -> Actor]
    BY <1>6, <1>a DEF FinalizeDraft, Actor, Idle
  <2> QED BY <1>6, <2>2, <2>3, <2>4, <2>5 DEF FinalizeDraft
<1> QED BY <1>1, <1>2, <1>3, <1>4, <1>5, <1>6 DEF DraftStep

\* The steps of a decision, and of a materialization.
LEMMA TypingDecision ==
  ASSUME TypeOK, NEW x \in Runs \cup Operators,
         ActorStep(x) \/ (x \in Operators /\ OperatorStep(x))
  PROVE  TypeOK'
<1> USE DEF TypeOK, records
<1>a. actor[x] \in Actor /\ Over \in Actor
  BY IdleActor
<1>1. CASE Collect(x)
  <2>1. actor' \in [Runs \cup Operators -> Actor]
    BY <1>1, <1>a DEF Collect, Executable, Actor
  <2> QED BY <1>1, <2>1 DEF Collect
<1>2. CASE ReadActions(x)
  <2>1. actor' \in [Runs \cup Operators -> Actor]
    BY <1>2, <1>a DEF ReadActions, Actor
  <2> QED BY <1>2, <2>1 DEF ReadActions
<1>3. CASE MoveOn(x)
  <2>1. job' \in Job
    BY <1>3 DEF MoveOn, Job
  <2> QED BY <1>3, <1>a, <2>1 DEF MoveOn
<1>4. ASSUME NEW a \in Actions, AddCommand(x, a) PROVE TypeOK'
  <2>1. actor' \in [Runs \cup Operators -> Actor]
    BY <1>4, <1>a DEF AddCommand, Actor
  <2>2. command' \in [Actions -> Commands]
    BY <1>4 DEF AddCommand, Commands
  <2> QED BY <1>4, <2>1, <2>2 DEF AddCommand
<1>5. CASE Look(x)
  <2>1. actor' \in [Runs \cup Operators -> Actor]
    BY <1>5, <1>a DEF Look, Actor, Idle
  <2> QED BY <1>5, <2>1 DEF Look
<1>6. ASSUME NEW a \in Actions, NEW verdict \in {"approved", "rejected"}, Decide(x, a, verdict)
      PROVE  TypeOK'
  <2>1. DOMAIN actions' \subseteq Actions /\ \A b \in DOMAIN actions' : actions'[b] \in Action
    BY <1>6 DEF Decide, Action
  <2>2. decision' \in [Actions -> Decision]
    BY <1>6 DEF Decide, Decision, Job
  <2>3. actor' \in [Runs \cup Operators -> Actor]
    BY <1>6, <1>a DEF Decide, Actor
  <2> QED BY <1>6, <2>1, <2>2, <2>3 DEF Decide
<1> QED BY <1>1, <1>2, <1>3, <1>4, <1>5, <1>6 DEF ActorStep, OperatorStep

\* The steps of a publish run.
LEMMA TypingPublish ==
  ASSUME TypeOK, NEW p \in Publishers, PublishStep(p)
  PROVE  TypeOK'
<1> USE DEF TypeOK, draft
<1>1. CASE StartPublish(p)
  BY <1>1 DEF StartPublish, Publisher
<1>2. CASE DispatchEffect(p)
  BY <1>2 DEF DispatchEffect, Publisher, Commands
<1>3. CASE PublishDone(p)
  BY <1>3 DEF PublishDone, Publisher, Job
<1>4. ASSUME NEW a \in Actions, ClaimEffect(p, a) PROVE TypeOK'
  <2>1. publisher[p] \in Publisher /\ [on |-> None, todo |-> {}, pc |-> "idle"] \in Publisher
    BY DEF Publisher
  <2>2. /\ [publisher[p] EXCEPT !.on = a, !.todo = @ \ {a}] \in Publisher
        /\ [publisher[p] EXCEPT !.todo = @ \ {a}] \in Publisher
    BY <2>1 DEF Publisher
  <2>3. publisher' \in [Publishers -> Publisher]
    BY <1>4, <2>1, <2>2 DEF ClaimEffect
  <2> QED BY <1>4, <2>3 DEF ClaimEffect
<1>5. ASSUME NEW outcome \in Outcomes, Receipt(p, outcome) PROVE TypeOK'
  <2>1. outcome \in Commands
    BY DEF Commands
  <2>2. DOMAIN actions' \subseteq Actions /\ \A b \in DOMAIN actions' : actions'[b] \in Action
    BY <1>5 DEF Receipt, Action
  <2>3. command' \in [Actions -> Commands]
    BY <1>5, <2>1 DEF Receipt
  <2>4. publisher' \in [Publishers -> Publisher]
    BY <1>5 DEF Receipt, Publisher
  <2> QED BY <1>5, <2>2, <2>3, <2>4 DEF Receipt
<1> QED BY <1>1, <1>2, <1>3, <1>4, <1>5 DEF PublishStep

\* A nudge or a redo, whatever it revokes.
LEMMA TypingSteered ==
  ASSUME TypeOK, NEW stage \in {"draft", "gate", "publish", "verify"}, NEW revoked,
         Steered(stage, revoked)
  PROVE  TypeOK'
<1> USE DEF TypeOK
<1>1. job' \in Job
  BY DEF Steered, Job
<1>2. DOMAIN actions' \subseteq Actions /\ \A b \in DOMAIN actions' : actions'[b] \in Action
  BY DEF Steered, Action
<1>3. command' \in [Actions -> Commands]
  BY DEF Steered, Withdrawn, Commands
<1>4. steers' \in 0..MaxSteers
  BY DEF Steered
<1> QED BY <1>1, <1>2, <1>3, <1>4 DEF Steered

\* Every operator's steering is a nudge or a redo of a stage.
LEMMA SteerIsSteered ==
  ASSUME TypeOK, Steer
  PROVE  \E stage \in {"draft", "gate", "publish", "verify"}, revoked \in SUBSET DOMAIN actions :
           Steered(stage, revoked)
BY DEF Steer, Nudge, Redo, TypeOK, Job

\* The types, with what a step needs to keep them.
Typed == TypeOK /\ Carries

\* Every step keeps the types, given that a run at work has a result.
LEMMA TypingStep == Typed /\ [Next]_vars => TypeOK'
<1> SUFFICES ASSUME Typed, [Next]_vars PROVE TypeOK'
  OBVIOUS
<1> USE DEF Typed
<1>1. CASE ExpireCallback
  BY <1>1 DEF ExpireCallback, TypeOK, Job, Callback, records
<1>2. CASE Reconcile
  BY <1>2 DEF Reconcile, TypeOK, records
<1>3. CASE Steer
  BY <1>3, SteerIsSteered, TypingSteered
<1>4. CASE UNCHANGED vars
  BY <1>4 DEF vars, TypeOK
<1> QED BY <1>1, <1>2, <1>3, <1>4, TypingDraft, TypingDecision, TypingPublish DEF Next

\* Only the steps of a run, or of a decision, change where a run stands.
LEMMA CarriesKept == Typed /\ [Next]_vars => Carries'
<1> SUFFICES ASSUME Typed, [Next]_vars PROVE Carries'
  OBVIOUS
<1> USE DEF Typed, TypeOK
<1>1. ASSUME NEW w \in Runs, DraftStep(w) PROVE Carries'
  <2>a. Idle.pc = "idle" /\ Over.pc = "over" /\ actor[w] \in Actor
    BY DEF Idle, Over
  <2>1. ASSUME NEW r \in Results, Produce(w, r) PROVE Carries'
    BY <2>1 DEF Produce, Carries
  <2>2. CASE Post(w)
    BY <2>2 DEF Post, Carries
  <2>3. CASE ClaimCallback(w)
    <3>1. \/ actor' = [actor EXCEPT ![w].pc = "claimed"] /\ actor[w].pc = "posting"
          \/ actor' = [actor EXCEPT ![w] = Over]
      BY <2>3 DEF ClaimCallback
    <3> QED BY <2>a, <3>1 DEF Carries, Actor
  <2>4. CASE RejectCallback(w) \/ RouteThrows(w)
    BY <2>4, <2>a DEF RejectCallback, RouteThrows, Carries
  <2>5. ASSUME NEW connected \in Connections, FinalizeDraft(w, connected) PROVE Carries'
    <3>1. actor'[w].pc \in {"over", "collect"}
      BY <2>5, <2>a DEF FinalizeDraft, Idle
    <3>2. \A v \in Runs : v # w => actor'[v] = actor[v]
      BY <2>5 DEF FinalizeDraft
    <3> QED BY <3>1, <3>2 DEF Carries
  <2> QED BY <1>1, <2>1, <2>2, <2>3, <2>4, <2>5 DEF DraftStep
<1>2. ASSUME NEW x \in Runs \cup Operators, ActorStep(x) \/ (x \in Operators /\ OperatorStep(x))
      PROVE  Carries'
  <2>1. \A w \in Runs : actor'[w] = actor[w] \/ actor'[w].pc \notin {"produced", "posting", "claimed"}
    <3>a. Idle.pc = "idle" /\ Over.pc = "over" /\ actor[x] \in Actor
      BY DEF Idle, Over
    <3>1. /\ Collect(x) => actor'[x].pc \in {"collect", "build"}
          /\ ReadActions(x) => actor'[x].pc = "build"
      <4>1. ASSUME Collect(x) PROVE actor'[x].pc \in {"collect", "build"}
        BY <3>a, <4>1 DEF Collect
      <4>2. ASSUME ReadActions(x) PROVE actor'[x].pc = "build"
        BY <3>a, <4>2, Zenon DEF ReadActions, Actor
      <4> QED BY <4>1, <4>2
    <3>2. MoveOn(x) => actor'[x].pc = "over"
      BY <3>a DEF MoveOn
    <3>3. ASSUME NEW a \in Actions, AddCommand(x, a) PROVE actor'[x].pc = "build"
      BY <3>3, <3>a DEF AddCommand, Actor
    <3>4. CASE x \in Operators /\ Look(x)
      BY <3>4, <3>a DEF Look, Idle
    <3>5. ASSUME NEW a \in Actions, NEW verdict \in {"approved", "rejected"}, Decide(x, a, verdict)
          PROVE  actor'[x].pc = "look"
      BY <3>5, <3>a DEF Decide, Actor
    <3>6. \A w \in Runs : w # x => actor'[w] = actor[w]
      BY <1>2 DEF ActorStep, OperatorStep, Collect, ReadActions, MoveOn, AddCommand, Look, Decide
    <3> QED BY <1>2, <3>1, <3>2, <3>3, <3>4, <3>5, <3>6 DEF ActorStep, OperatorStep
  <2> QED BY <2>1 DEF Carries
<1>3. CASE UNCHANGED actor
  BY <1>3 DEF Carries
<1>4. ASSUME NEW p \in Publishers, PublishStep(p) PROVE UNCHANGED actor
  BY <1>4 DEF PublishStep, StartPublish, DispatchEffect, PublishDone, ClaimEffect, Receipt, draft
<1>5. Steer => UNCHANGED actor
  BY SteerIsSteered DEF Steered
<1>6. ExpireCallback \/ Reconcile \/ UNCHANGED vars => UNCHANGED actor
  BY DEF ExpireCallback, Reconcile, vars
<1> QED BY <1>1, <1>2, <1>3, <1>4, <1>5, <1>6 DEF Next

\* Initially no run is at work.
LEMMA TypedInit == Init => Typed
BY TypingInit DEF Init, Idle, Typed, Carries

\* The types and the results the runs carry are an invariant.
LEMMA TypedInvariant == Spec => []Typed
<1>1. Init => Typed
  BY TypedInit
<1>2. Typed /\ [Next]_vars => Typed'
  BY TypingStep, CarriesKept DEF Typed
<1> QED BY <1>1, <1>2, PTL DEF Spec

\* Every variable keeps its type.
THEOREM Typing == Spec => []TypeOK
<1>1. Typed => TypeOK
  BY DEF Typed
<1> QED BY <1>1, TypedInvariant, PTL

----------------------------------------------------------------------------
(* What a step does to the stage, the actions and the commands.             *)

\* The steps of steering: they alone are counted.
LEMMA SteeringCounts ==
  ASSUME Typed, [Next]_vars
  PROVE  steers' = steers \/ (Steer /\ steers' = steers + 1)
<1>1. ASSUME Steer PROVE steers' = steers + 1
  BY <1>1, SteerIsSteered DEF Steered, Typed
<1>2. ASSUME NEW w \in Runs, DraftStep(w) PROVE UNCHANGED steers
  BY <1>2 DEF DraftStep, Produce, Post, ClaimCallback, RejectCallback, RouteThrows, FinalizeDraft
<1>3. ASSUME NEW x, ActorStep(x) \/ OperatorStep(x) PROVE UNCHANGED steers
  BY <1>3 DEF ActorStep, OperatorStep, Collect, ReadActions, MoveOn, AddCommand, Look, Decide
<1>4. ASSUME NEW p \in Publishers, PublishStep(p) PROVE UNCHANGED steers
  BY <1>4 DEF PublishStep, StartPublish, DispatchEffect, PublishDone, ClaimEffect, Receipt, draft
<1>5. ExpireCallback \/ Reconcile \/ UNCHANGED vars => UNCHANGED steers
  BY DEF ExpireCallback, Reconcile, vars
<1> QED BY <1>1, <1>2, <1>3, <1>4, <1>5 DEF Next

\* A run of the draft stage changes the stage or the actions only by applying its result.
LEMMA DraftFrame ==
  ASSUME Typed, NEW w \in Runs, DraftStep(w)
  PROVE  /\ UNCHANGED <<decision, command, publisher, steers>>
         /\ \/ job'.stage = job.stage /\ UNCHANGED actions
            \/ job.stage = "draft" /\ job'.stage \in {"draft", "gate"}
<1> USE DEF Typed, TypeOK, Job, records
<1>1. ASSUME NEW r \in Results, Produce(w, r) PROVE job'.stage = job.stage /\ UNCHANGED actions
  BY <1>1 DEF Produce
<1>2. Post(w) \/ RouteThrows(w) => job'.stage = job.stage /\ UNCHANGED actions
  BY DEF Post, RouteThrows
<1>3. ClaimCallback(w) => job'.stage = job.stage /\ UNCHANGED actions
  BY DEF ClaimCallback
<1>4. RejectCallback(w) => job'.stage = job.stage /\ UNCHANGED actions
  BY DEF RejectCallback
<1>5. ASSUME NEW connected \in Connections, FinalizeDraft(w, connected)
      PROVE  job.stage = "draft" /\ job'.stage \in {"draft", "gate"}
  BY <1>5 DEF FinalizeDraft, CanFinalize
<1>6. UNCHANGED <<decision, command, publisher, steers>>
  BY DEF DraftStep, Produce, Post, ClaimCallback, RejectCallback, RouteThrows, FinalizeDraft
<1> QED BY <1>1, <1>2, <1>3, <1>4, <1>5, <1>6 DEF DraftStep

\* A decision changes one pending action, a materialization adds a command.
LEMMA DecisionFrame ==
  ASSUME Typed, NEW x \in Runs \cup Operators, ActorStep(x) \/ (x \in Operators /\ OperatorStep(x))
  PROVE  /\ UNCHANGED <<publisher, steers>>
         /\ \/ UNCHANGED <<job, actions, decision, command>>
            \/ MoveOn(x) /\ UNCHANGED <<actions, decision, command>>
            \/ \E a \in Actions : AddCommand(x, a) /\ UNCHANGED <<job, actions, decision>>
            \/ x \in Operators /\ UNCHANGED <<job, command>> /\
               \E a \in Actions, verdict \in {"approved", "rejected"} : Decide(x, a, verdict)
BY DEF ActorStep, OperatorStep, Collect, ReadActions, MoveOn, AddCommand, Look, Decide, records

\* Where a materialization moves the job.
LEMMA Moves ==
  ASSUME Typed, NEW x \in Runs \cup Operators, MoveOn(x)
  PROVE  \/ job'.stage = job.stage
         \/ x \in Runs /\ job.stage = "draft" /\ job'.stage \in {"publish", "verify"}
         \/ x \notin Runs /\ job.stage = "gate" /\ job'.stage \in {"publish", "verify"} /\ actor[x].ok
BY DEF MoveOn, Typed, TypeOK, Job

\* A publish run changes an action only when it has dispatched it.
LEMMA PublishFrame ==
  ASSUME Typed, NEW p \in Publishers, PublishStep(p)
  PROVE  /\ UNCHANGED <<decision, actor, steers>>
         /\ job'.stage = job.stage \/ (job.stage = "publish" /\ job'.stage = "verify")
         /\ \A a \in Actions : command[a] # "none" => command'[a] # "none"
         /\ DOMAIN actions' = DOMAIN actions
         /\ \A a \in DOMAIN actions : actions'[a].approval = actions[a].approval
         /\ \A a \in DOMAIN actions : actions'[a].state = "planned" => actions[a].state = "planned"
         /\ \A a \in Actions : command'[a] = "prepared" => UNCHANGED <<command[a], actions[a]>>
<1> USE DEF Typed, TypeOK, draft
<1>1. CASE StartPublish(p) \/ \E a \in Actions : ClaimEffect(p, a)
  BY <1>1 DEF StartPublish, ClaimEffect
<1>2. CASE PublishDone(p)
  BY <1>2 DEF PublishDone, Job
<1>3. CASE DispatchEffect(p)
  BY <1>3 DEF DispatchEffect
<1>4. ASSUME NEW outcome \in Outcomes, Receipt(p, outcome)
      PROVE  /\ UNCHANGED <<decision, actor, steers, job>>
             /\ \A a \in Actions : command[a] # "none" => command'[a] # "none"
             /\ DOMAIN actions' = DOMAIN actions
             /\ \A a \in DOMAIN actions : actions'[a].approval = actions[a].approval
             /\ \A a \in DOMAIN actions : actions'[a].state = "planned" => actions[a].state = "planned"
             /\ \A a \in Actions : command'[a] = "prepared" => UNCHANGED <<command[a], actions[a]>>
  <2> DEFINE a == publisher[p].on
  <2>1. outcome \in {"applied", "failed"} /\ command[a] = "dispatched"
    BY <1>4 DEF Receipt
  <2>2. CASE a \notin DOMAIN actions
    BY <1>4, <2>2 DEF Receipt
  <2>3. CASE a \in DOMAIN actions
    <3>1. /\ command' = [command EXCEPT ![a] = outcome]
          /\ actions' = [actions EXCEPT ![a].state = IF outcome = "applied" THEN "executed" ELSE "failed"]
      BY <1>4, <2>3 DEF Receipt
    <3>2. \A b \in DOMAIN actions : b # a => actions'[b] = actions[b]
      BY <3>1
    <3>3. actions'[a].state \in {"executed", "failed"} /\ actions'[a].approval = actions[a].approval
      BY <2>3, <3>1 DEF Action
    <3>4. \A b \in Actions : b # a => actions'[b] = actions[b]
      BY <3>1
    <3> QED BY <1>4, <2>1, <2>3, <3>1, <3>2, <3>3, <3>4 DEF Receipt
  <2> QED BY <2>2, <2>3
<1> QED BY <1>1, <1>2, <1>3, <1>4 DEF PublishStep

----------------------------------------------------------------------------
(* Only what is approved is published.                                      *)

\* What publish run p has at hand.
Queue(p) == publisher[p].todo \cup {publisher[p].on}

\* What a publish run has before it was made, and is withdrawn before the job
\* leaves the publish stage backwards.
Queued ==
  \A p \in Publishers, a \in Actions :
    a \in Queue(p) /\ a # None =>
      command[a] # "none" /\ (command[a] = "prepared" => job.stage \in {"publish", "verify"})

\* What a publish run has claimed and not dispatched is still authorized.
Authorized ==
  \A p \in Publishers, a \in Actions :
    publisher[p].on = a /\ a # None /\ command[a] = "prepared" => Buildable(a)

\* The inductive invariant behind the authorized provider call.
PublishInv == Typed /\ Queued /\ Authorized

\* A publish run takes up commands that are there, and steering withdraws them first.
LEMMA QueuedKept == PublishInv /\ [Next]_vars => Queued'
<1> SUFFICES ASSUME PublishInv, [Next]_vars PROVE Queued'
  OBVIOUS
<1> USE DEF PublishInv, Typed, TypeOK
<1>1. ASSUME NEW w \in Runs, DraftStep(w) PROVE Queued'
  BY <1>1, DraftFrame DEF Queued, Queue
<1>2. ASSUME NEW x \in Runs \cup Operators, ActorStep(x) \/ (x \in Operators /\ OperatorStep(x))
      PROVE  Queued'
  <2>1. UNCHANGED publisher
    BY <1>2, DecisionFrame
  <2>2. CASE UNCHANGED <<job, command>>
    BY <2>1, <2>2 DEF Queued, Queue
  <2>3. CASE MoveOn(x) /\ UNCHANGED command
    BY <2>1, <2>3, Moves DEF Queued, Queue
  <2>4. ASSUME NEW a \in Actions, AddCommand(x, a), UNCHANGED job PROVE Queued'
    BY <2>1, <2>4 DEF AddCommand, Queued, Queue
  <2> QED BY <1>2, <2>2, <2>3, <2>4, DecisionFrame
<1>3. ASSUME NEW p \in Publishers, PublishStep(p) PROVE Queued'
  <2>1. \A q \in Publishers : \A a \in Actions :
          a \in Queue(q)' /\ a # None =>
            a \in Queue(q) \/ (command[a] = "prepared" /\ job.stage = "publish" /\ UNCHANGED <<job, command>>)
    <3>1. ASSUME StartPublish(p)
          PROVE  /\ job.stage = "publish" /\ UNCHANGED <<job, command>>
                 /\ \A q \in Publishers : q # p => Queue(q)' = Queue(q)
                 /\ \A a \in Actions : a \in Queue(p)' /\ a # None => command[a] = "prepared"
      BY <3>1 DEF StartPublish, Queue
    <3>2. ASSUME NEW b \in Actions, ClaimEffect(p, b)
          PROVE  \A q \in Publishers : Queue(q)' \subseteq Queue(q) \cup {None}
      <4>1. publisher[p] \in Publisher /\ b \in publisher[p].todo
        BY <3>2 DEF ClaimEffect
      <4>2. \A q \in Publishers : q # p => publisher'[q] = publisher[q]
        BY <3>2 DEF ClaimEffect
      <4>3. publisher'[p].todo \subseteq publisher[p].todo /\ publisher'[p].on \in {b, publisher[p].on, None}
        BY <3>2, <4>1 DEF ClaimEffect, Publisher
      <4> QED BY <4>1, <4>2, <4>3 DEF Queue
    <3>3. ASSUME DispatchEffect(p) \/ PublishDone(p)
          PROVE  \A q \in Publishers : Queue(q)' \subseteq Queue(q) \cup {None}
      BY <3>3 DEF DispatchEffect, PublishDone, Queue, Publisher
    <3>4. ASSUME NEW outcome \in Outcomes, Receipt(p, outcome)
          PROVE  \A q \in Publishers : Queue(q)' \subseteq Queue(q) \cup {None}
      BY <3>4 DEF Receipt, Queue, Publisher
    <3> QED BY <1>3, <3>1, <3>2, <3>3, <3>4 DEF PublishStep
  <2> QED BY <1>3, <2>1, PublishFrame DEF Queued
<1>4. CASE Steer
  <2>1. \A a \in Actions : command'[a] # "prepared" /\ (command[a] # "none" => command'[a] # "none")
    BY <1>4, SteerIsSteered DEF Steered, Withdrawn
  <2>2. UNCHANGED publisher
    BY <1>4, SteerIsSteered DEF Steered
  <2> QED BY <2>1, <2>2 DEF Queued, Queue
<1>5. CASE ExpireCallback \/ Reconcile \/ UNCHANGED vars
  <2>1. job'.stage = job.stage /\ UNCHANGED <<command, publisher>>
    BY <1>5 DEF ExpireCallback, Reconcile, vars, records, Job
  <2> QED BY <2>1 DEF Queued, Queue
<1> QED BY <1>1, <1>2, <1>3, <1>4, <1>5 DEF Next

\* What a publish run holds is authorized when it is claimed, and withdrawn with its approval.
LEMMA AuthorizedKept == PublishInv /\ [Next]_vars => Authorized'
<1> SUFFICES ASSUME PublishInv, [Next]_vars PROVE Authorized'
  OBVIOUS
<1> USE DEF PublishInv, Typed, TypeOK
<1>a. \A p \in Publishers, a \in Actions :
        publisher[p].on = a /\ a # None /\ command[a] = "prepared" => job.stage \in {"publish", "verify"}
  BY DEF Queued, Queue
<1>b. \A p \in Publishers, a \in Actions :
        publisher[p].on = a /\ a # None => command[a] # "none"
  BY DEF Queued, Queue
<1>1. ASSUME NEW w \in Runs, DraftStep(w) PROVE Authorized'
  BY <1>1, <1>a, DraftFrame DEF Authorized, Buildable
<1>2. ASSUME NEW x \in Runs \cup Operators, ActorStep(x) \/ (x \in Operators /\ OperatorStep(x))
      PROVE  Authorized'
  <2>1. UNCHANGED publisher
    BY <1>2, DecisionFrame
  <2>2. CASE UNCHANGED <<actions, decision, command>>
    BY <2>1, <2>2 DEF Authorized, Buildable
  <2>3. ASSUME NEW a \in Actions, AddCommand(x, a), UNCHANGED <<actions, decision>> PROVE Authorized'
    <3>1. \A b \in Actions : command'[b] = command[b] \/ command[b] = "none"
      BY <2>3 DEF AddCommand
    <3> QED BY <1>b, <2>1, <2>3, <3>1 DEF Authorized, Buildable
  <2>4. ASSUME x \in Operators, NEW a \in Actions, NEW verdict \in {"approved", "rejected"},
               Decide(x, a, verdict), UNCHANGED command
        PROVE  Authorized'
    <3>1. ~Buildable(a)
      BY <2>4 DEF Decide, Buildable
    <3>2. \A b \in Actions : b # a /\ Buildable(b) => Buildable(b)'
      BY <2>4 DEF Decide, Buildable
    <3> QED BY <2>1, <2>4, <3>1, <3>2 DEF Authorized
  <2> QED BY <1>2, <2>2, <2>3, <2>4, DecisionFrame
<1>3. ASSUME NEW p \in Publishers, PublishStep(p) PROVE Authorized'
  <2>1. \A q \in Publishers : \A a \in Actions :
          publisher'[q].on = a /\ a # None => publisher[q].on = a \/ (Claimable(a) /\ UNCHANGED <<actions, decision, command>>)
    <3>1. ASSUME NEW b \in Actions, ClaimEffect(p, b)
          PROVE  \A q \in Publishers : \A a \in Actions : publisher'[q].on = a /\ a # None =>
                   publisher[q].on = a \/ (Claimable(a) /\ UNCHANGED <<actions, decision, command>>)
      BY <3>1 DEF ClaimEffect, Publisher, draft
    <3>2. CASE StartPublish(p) \/ DispatchEffect(p) \/ PublishDone(p)
      BY <3>2 DEF StartPublish, DispatchEffect, PublishDone, Publisher
    <3>3. ASSUME NEW outcome \in Outcomes, Receipt(p, outcome)
          PROVE  \A q \in Publishers : publisher'[q].on \in {publisher[q].on, None}
      BY <3>3 DEF Receipt, Publisher
    <3> QED BY <1>3, <3>1, <3>2, <3>3 DEF PublishStep
  <2> QED BY <1>3, <2>1, PublishFrame DEF Authorized, Buildable, Claimable
<1>4. CASE Steer
  <2>1. \A a \in Actions : command'[a] # "prepared"
    BY <1>4, SteerIsSteered DEF Steered, Withdrawn
  <2> QED BY <2>1 DEF Authorized
<1>5. CASE ExpireCallback \/ Reconcile \/ UNCHANGED vars
  <2>1. UNCHANGED <<actions, decision, command, publisher>>
    BY <1>5 DEF ExpireCallback, Reconcile, vars, records
  <2> QED BY <2>1 DEF Authorized, Buildable
<1> QED BY <1>1, <1>2, <1>3, <1>4, <1>5 DEF Next

\* Nothing is published but what is approved or let pass, and not withdrawn.
THEOREM Published == Spec => PublishedAsApproved
<1>1. Init => PublishInv
  BY TypedInit DEF Init, PublishInv, Queued, Authorized, Queue
<1>2. PublishInv /\ [Next]_vars => PublishInv'
  BY TypingStep, CarriesKept, QueuedKept, AuthorizedKept DEF PublishInv, Typed
<1>3. PublishInv /\ [Next]_vars =>
        [\A a \in Actions : command[a] # "dispatched" /\ command'[a] = "dispatched" => Buildable(a)]_vars
  <2> SUFFICES ASSUME PublishInv, [Next]_vars, NEW a \in Actions,
                      command[a] # "dispatched", command'[a] = "dispatched"
               PROVE  Buildable(a)
    OBVIOUS
  <2> USE DEF PublishInv, Typed, TypeOK
  <2>1. ASSUME NEW p \in Publishers, PublishStep(p) PROVE Buildable(a)
    <3>1. DispatchEffect(p) => publisher[p].on = a /\ a # None /\ command[a] = "prepared"
      BY DEF DispatchEffect
    <3>2. StartPublish(p) \/ PublishDone(p) => UNCHANGED command
      BY DEF StartPublish, PublishDone
    <3>3. ASSUME NEW b \in Actions, ClaimEffect(p, b) PROVE UNCHANGED command
      BY <3>3 DEF ClaimEffect
    <3>4. ASSUME NEW outcome \in Outcomes, Receipt(p, outcome) PROVE command'[a] # "dispatched"
      BY <3>4 DEF Receipt
    <3> QED BY <2>1, <3>1, <3>2, <3>3, <3>4 DEF PublishStep, Authorized
  <2>2. ASSUME NEW w \in Runs, DraftStep(w) PROVE UNCHANGED command
    BY <2>2, DraftFrame
  <2>3. ASSUME NEW x \in Runs \cup Operators, ActorStep(x) \/ (x \in Operators /\ OperatorStep(x))
        PROVE  command'[a] # "dispatched"
    <3>1. ASSUME NEW b \in Actions, AddCommand(x, b) PROVE command'[a] # "dispatched"
      BY <3>1 DEF AddCommand
    <3> QED BY <2>3, <3>1, DecisionFrame
  <2>4. Steer => command'[a] # "dispatched"
    BY SteerIsSteered DEF Steered, Withdrawn
  <2>5. ExpireCallback \/ Reconcile \/ UNCHANGED vars => UNCHANGED command
    BY DEF ExpireCallback, Reconcile, vars, records
  <2> QED BY <2>1, <2>2, <2>3, <2>4, <2>5 DEF Next
<1> QED BY <1>1, <1>2, <1>3, PTL DEF Spec, PublishedAsApproved
----------------------------------------------------------------------------
(* What is decided stays, and the gate is left decided.                     *)

\* A decision made at the gate is followed by a draft stage only after a steering.
Decisions ==
  \A a \in Actions : decision[a].gate =>
    decision[a].at <= steers /\ (decision[a].at = steers => job.stage # "draft")

\* Steering alone leads back to the draft, or from elsewhere to the gate.
LEMMA Forward ==
  ASSUME Typed, [Next]_vars, steers' = steers
  PROVE  /\ job'.stage = "draft" => job.stage = "draft"
         /\ job'.stage = "gate" => job.stage \in {"draft", "gate"}
<1>1. ASSUME NEW w \in Runs, DraftStep(w)
      PROVE  job'.stage = job.stage \/ job.stage = "draft"
  BY <1>1, DraftFrame
<1>2. ASSUME NEW x \in Runs \cup Operators, ActorStep(x) \/ (x \in Operators /\ OperatorStep(x))
      PROVE  job'.stage = job.stage \/ job'.stage \in {"publish", "verify"}
  BY <1>2, DecisionFrame, Moves
<1>3. ASSUME NEW p \in Publishers, PublishStep(p)
      PROVE  job'.stage = job.stage \/ job'.stage = "verify"
  BY <1>3, PublishFrame
<1>4. ~Steer
  BY SteerIsSteered DEF Steered, Typed, TypeOK
<1>5. ExpireCallback \/ Reconcile \/ UNCHANGED vars => job'.stage = job.stage
  BY DEF ExpireCallback, Reconcile, vars, Typed, TypeOK, Job
<1> QED BY <1>1, <1>2, <1>3, <1>4, <1>5 DEF Next

\* A decision is stored once, with the steerings before it and the stage it was made at.
LEMMA DecisionsKept == Typed /\ Decisions /\ [Next]_vars => Decisions'
<1> SUFFICES ASSUME Typed, Decisions, [Next]_vars PROVE Decisions'
  OBVIOUS
<1> USE DEF Typed, TypeOK
<1>1. CASE Steer /\ steers' = steers + 1
  <2>1. UNCHANGED decision
    BY <1>1, SteerIsSteered DEF Steered
  <2>2. \A a \in Actions : decision[a].at \in Nat
    BY DEF Decision
  <2> QED BY <1>1, <2>1, <2>2 DEF Decisions
<1>2. CASE steers' = steers /\ UNCHANGED decision
  BY <1>2, Forward DEF Decisions
<1>3. ASSUME NEW d \in Operators, NEW a \in Actions, NEW verdict \in {"approved", "rejected"},
             Decide(d, a, verdict)
      PROVE  Decisions'
  <2>1. UNCHANGED <<job, steers>> /\ \A b \in Actions : b # a => decision'[b] = decision[b]
    BY <1>3 DEF Decide
  <2>2. decision'[a].at = steers /\ (decision'[a].gate <=> job.stage = "gate")
    BY <1>3 DEF Decide
  <2> QED BY <2>1, <2>2 DEF Decisions
<1>4. ASSUME NEW w \in Runs, DraftStep(w) PROVE UNCHANGED decision
  BY <1>4, DraftFrame
<1>5. ASSUME NEW x \in Runs \cup Operators, ActorStep(x) \/ (x \in Operators /\ OperatorStep(x))
      PROVE  UNCHANGED decision \/ Decisions'
  BY <1>5, <1>3, DecisionFrame
<1>6. ASSUME NEW p \in Publishers, PublishStep(p) PROVE UNCHANGED decision
  BY <1>6, PublishFrame
<1>7. ExpireCallback \/ Reconcile \/ UNCHANGED vars => UNCHANGED decision
  BY DEF ExpireCallback, Reconcile, vars, records
<1>8. Steer => UNCHANGED decision
  BY SteerIsSteered DEF Steered
<1> QED BY <1>1, <1>2, <1>4, <1>5, <1>6, <1>7, <1>8, SteeringCounts DEF Next

\* Only the draft that is applied takes actions from the job, in the draft stage.
LEMMA ActionsStay ==
  ASSUME Typed, [Next]_vars, NEW a \in DOMAIN actions, a \notin DOMAIN actions'
  PROVE  job.stage = "draft"
<1> USE DEF Typed, TypeOK
<1>1. ASSUME NEW w \in Runs, DraftStep(w) PROVE job.stage = "draft"
  BY <1>1, DraftFrame
<1>2. ASSUME NEW x \in Runs \cup Operators, ActorStep(x) \/ (x \in Operators /\ OperatorStep(x))
      PROVE  FALSE
  <2>1. ASSUME NEW b \in Actions, NEW verdict \in {"approved", "rejected"}, Decide(x, b, verdict)
        PROVE  DOMAIN actions' = DOMAIN actions
    BY <2>1 DEF Decide
  <2> QED BY <1>2, <2>1, DecisionFrame
<1>3. ASSUME NEW p \in Publishers, PublishStep(p) PROVE FALSE
  BY <1>3, PublishFrame
<1>4. Steer => DOMAIN actions' = DOMAIN actions
  BY SteerIsSteered DEF Steered
<1>5. ExpireCallback \/ Reconcile \/ UNCHANGED vars => UNCHANGED actions
  BY DEF ExpireCallback, Reconcile, vars
<1> QED BY <1>1, <1>2, <1>3, <1>4, <1>5 DEF Next

\* A late draft replaces no action that was decided at the gate.
THEOREM DecidedKept == Spec => DecidedStays
<1>1. Init => Decisions
  BY DEF Init, Decisions
<1>2. Typed /\ Decisions /\ [Next]_vars => Decisions'
  BY DecisionsKept
<1>3. Typed /\ Decisions /\ [Next]_vars =>
        [\A a \in DOMAIN actions :
           decision[a].gate /\ a \notin DOMAIN actions' => decision[a].at < steers]_vars
  <2> SUFFICES ASSUME Typed, Decisions, [Next]_vars, NEW a \in DOMAIN actions,
                      decision[a].gate, a \notin DOMAIN actions'
               PROVE  decision[a].at < steers
    OBVIOUS
  <2>1. job.stage = "draft"
    BY ActionsStay
  <2>2. decision[a].at \in Int /\ steers \in Int /\ a \in Actions
    BY DEF Typed, TypeOK, Decision
  <2> QED BY <2>1, <2>2 DEF Decisions
<1> QED BY <1>1, <1>2, <1>3, TypedInvariant, PTL DEF Spec, DecidedStays

\* What an operator's request that acts on the gate as it is may rely on.
Gate(x) ==
  /\ job.stage # "draft"
  /\ job.stage = "gate" =>
       /\ Pending = {}
       /\ actor[x].pc = "verify" => Executable = {}
       /\ actor[x].pc = "collect" => actor[x].todo = {} \/ Executable \subseteq actor[x].todo
       /\ actor[x].pc = "build" /\ actor[x].ok =>
            \A a \in Executable : command[a] # "none" \/ a \in actor[x].adding

\* A request looked no later than now; one that looked after the last steering is right.
Gates ==
  \A x \in Operators : actor[x].pc \in {"collect", "build", "verify"} =>
    actor[x].since <= steers /\ (actor[x].since = steers => Gate(x))

GateInv == Typed /\ Gates

\* While the job stays at the gate, what is decided stays decided, nothing
\* becomes executable, and no command goes.
LEMMA AtTheGate ==
  ASSUME Typed, [Next]_vars, job.stage = "gate", job'.stage = "gate", steers' = steers,
         Pending = {}
  PROVE  /\ Pending' = {} /\ Executable' \subseteq Executable
         /\ \A a \in Actions : command[a] # "none" => command'[a] # "none"
<1> USE DEF Typed, TypeOK
<1>1. ASSUME NEW w \in Runs, DraftStep(w) PROVE UNCHANGED <<actions, command>>
  BY <1>1, DraftFrame
<1>2. ASSUME NEW x \in Runs \cup Operators, ActorStep(x) \/ (x \in Operators /\ OperatorStep(x))
      PROVE  UNCHANGED actions /\ \A a \in Actions : command[a] # "none" => command'[a] # "none"
  <2>1. ASSUME NEW b \in Actions, NEW verdict \in {"approved", "rejected"}, Decide(x, b, verdict)
        PROVE  FALSE
    BY <2>1 DEF Decide, Pending
  <2>2. ASSUME NEW b \in Actions, AddCommand(x, b)
        PROVE  \A a \in Actions : command[a] # "none" => command'[a] # "none"
    BY <2>2 DEF AddCommand
  <2> QED BY <1>2, <2>1, <2>2, DecisionFrame
<1>3. ASSUME NEW p \in Publishers, PublishStep(p)
      PROVE  /\ Pending' = {} /\ Executable' \subseteq Executable
             /\ \A a \in Actions : command[a] # "none" => command'[a] # "none"
  BY <1>3, PublishFrame DEF Pending, Executable
<1>4. ~Steer
  BY SteerIsSteered DEF Steered
<1>5. ExpireCallback \/ Reconcile \/ UNCHANGED vars => UNCHANGED <<actions, command>>
  BY DEF ExpireCallback, Reconcile, vars, records
<1>6. UNCHANGED actions => Pending' = Pending /\ Executable' = Executable
  BY DEF Pending, Executable
<1> QED BY <1>1, <1>2, <1>3, <1>4, <1>5, <1>6 DEF Next

\* A step of another leaves a request where it stands.
LEMMA GateOfAnother ==
  ASSUME GateInv, [Next]_vars, steers' = steers, NEW x \in Operators,
         actor'[x] = actor[x], actor[x].pc \in {"collect", "build", "verify"}
  PROVE  actor[x].since <= steers /\ (actor[x].since = steers => Gate(x)')
<1>1. actor[x].since <= steers
  BY DEF GateInv, Gates
<1>2. ASSUME actor[x].since = steers PROVE Gate(x)'
  <2>1. Gate(x)
    BY <1>2 DEF GateInv, Gates
  <2>2. job'.stage # "draft"
    BY <2>1, Forward DEF Gate, GateInv
  <2>3. CASE job'.stage = "gate"
    <3>1. job.stage = "gate" /\ Pending = {}
      BY <2>1, <2>3, Forward DEF Gate, GateInv
    <3>2. /\ Pending' = {} /\ Executable' \subseteq Executable
          /\ \A a \in Actions : command[a] # "none" => command'[a] # "none"
      BY <2>3, <3>1, AtTheGate DEF GateInv
    <3>3. Executable \subseteq Actions
      BY DEF Executable, GateInv, Typed, TypeOK
    <3> QED BY <2>1, <2>2, <3>1, <3>2, <3>3 DEF Gate
  <2> QED BY <2>2, <2>3 DEF Gate
<1> QED BY <1>1, <1>2

\* The request's own step.
LEMMA GateOfItself ==
  ASSUME GateInv, NEW x \in Operators, ActorStep(x) \/ OperatorStep(x),
         actor'[x].pc \in {"collect", "build", "verify"}
  PROVE  actor'[x].since <= steers /\ (actor'[x].since = steers => Gate(x)')
<1> USE DEF GateInv, Typed, TypeOK
<1>a. actor[x] \in Actor /\ Over.pc = "over"
  BY DEF Over, Idle
<1>1. CASE Look(x)
  <2>1. job.stage = "gate" /\ Pending = {}
    BY <1>1, <1>a DEF Look, LastDecided
  <2>2. actor'[x] = [Idle EXCEPT !.pc = IF Executable = {} THEN "verify" ELSE "collect",
                                 !.since = steers]
    BY <1>1, <2>1 DEF Look, LastDecided
  <2>3. /\ actor'[x].pc = (IF Executable = {} THEN "verify" ELSE "collect")
        /\ actor'[x].since = steers /\ actor'[x].todo = {}
    BY <2>2 DEF Idle
  <2>4. UNCHANGED <<job, actions, command>>
    BY <1>1 DEF Look, records
  <2>5. Pending' = Pending /\ Executable' = Executable
    BY <2>4 DEF Pending, Executable
  <2> QED BY <2>1, <2>3, <2>4, <2>5 DEF Gate
<1>2. ASSUME NEW a \in Actions, NEW verdict \in {"approved", "rejected"}, Decide(x, a, verdict)
      PROVE  FALSE
  BY <1>2, <1>a DEF Decide, Actor
<1>3. CASE MoveOn(x)
  BY <1>3, <1>a DEF MoveOn
<1>4. CASE Collect(x)
  <2>1. /\ UNCHANGED <<job, actions, command, steers>>
        /\ actor' = [actor EXCEPT ![x].todo = Executable,
                                  ![x].pc = IF Executable = {} THEN "build" ELSE @]
        /\ actor[x].pc = "collect"
    BY <1>4 DEF Collect, records
  <2>2. /\ actor'[x].todo = Executable /\ actor'[x].since = actor[x].since
        /\ actor'[x].pc = IF Executable = {} THEN "build" ELSE "collect"
    BY <1>a, <2>1 DEF Actor
  <2>3. Pending' = Pending /\ Executable' = Executable
    BY <2>1 DEF Pending, Executable
  <2> QED BY <2>1, <2>2, <2>3 DEF Gates, Gate
<1>5. CASE ReadActions(x)
  <2>1. /\ UNCHANGED <<job, actions, command, steers>>
        /\ actor[x].pc = "collect" /\ actor[x].todo # {}
    BY <1>5 DEF ReadActions, records
  <2>2. /\ actor'[x].since = actor[x].since /\ actor'[x].pc = "build"
        /\ actor'[x].adding = {a \in actor[x].todo : Buildable(a) /\ command[a] = "none"}
        /\ actor'[x].ok = \A a \in actor[x].todo : Buildable(a)
    BY <1>5, <1>a, Zenon DEF ReadActions, Actor
  <2>3. Pending' = Pending /\ Executable' = Executable
    BY <2>1 DEF Pending, Executable
  <2> QED BY <2>1, <2>2, <2>3 DEF Gates, Gate
<1>6. ASSUME NEW a \in Actions, AddCommand(x, a)
      PROVE  actor'[x].since <= steers /\ (actor'[x].since = steers => Gate(x)')
  <2>1. /\ UNCHANGED <<job, actions, steers>>
        /\ actor[x].pc = "build"
        /\ \A b \in Actions : command[b] # "none" => command'[b] # "none"
        /\ command'[a] # "none"
    BY <1>6 DEF AddCommand
  <2>2. /\ actor'[x].since = actor[x].since /\ actor'[x].pc = "build"
        /\ actor'[x].adding = actor[x].adding \ {a}
        /\ actor'[x].ok => actor[x].ok
    BY <1>6, <1>a DEF AddCommand, Actor
  <2>3. Pending' = Pending /\ Executable' = Executable
    BY <2>1 DEF Pending, Executable
  <2>4. Executable \subseteq Actions
    BY DEF Executable
  <2> QED BY <2>1, <2>2, <2>3, <2>4 DEF Gates, Gate
<1> QED BY <1>1, <1>2, <1>3, <1>4, <1>5, <1>6 DEF ActorStep, OperatorStep

\* Only a decision's own steps change where it stands.
LEMMA ActorFrame ==
  ASSUME Typed, [Next]_vars, NEW x \in Operators, actor'[x] # actor[x]
  PROVE  ActorStep(x) \/ OperatorStep(x)
<1> USE DEF Typed, TypeOK
<1>1. ASSUME NEW w \in Runs, DraftStep(w) PROVE FALSE
  <2>1. w # x
    OBVIOUS
  <2>2. ASSUME NEW r \in Results, Produce(w, r) PROVE FALSE
    BY <2>1, <2>2 DEF Produce
  <2>3. ASSUME NEW connected \in Connections, FinalizeDraft(w, connected) PROVE FALSE
    BY <2>1, <2>3 DEF FinalizeDraft
  <2>4. ~Post(w) /\ ~RejectCallback(w) /\ ~RouteThrows(w)
    BY <2>1 DEF Post, RejectCallback, RouteThrows
  <2>5. ~ClaimCallback(w)
    BY <2>1 DEF ClaimCallback
  <2> QED BY <1>1, <2>2, <2>3, <2>4, <2>5 DEF DraftStep
<1>2. ASSUME NEW y \in Runs \cup Operators, y # x, ActorStep(y) \/ OperatorStep(y) PROVE FALSE
  BY <1>2 DEF ActorStep, OperatorStep, Collect, ReadActions, MoveOn, AddCommand, Look, Decide
<1>3. ASSUME NEW p \in Publishers, PublishStep(p) PROVE FALSE
  BY <1>3, PublishFrame
<1>4. ~Steer
  BY SteerIsSteered DEF Steered
<1>5. ~(ExpireCallback \/ Reconcile \/ UNCHANGED vars)
  BY DEF ExpireCallback, Reconcile, vars
<1> QED BY <1>1, <1>2, <1>3, <1>4, <1>5 DEF Next

\* Every step keeps what the requests rely on: another steering dates them.
LEMMA GatesKept == GateInv /\ [Next]_vars => Gates'
<1> SUFFICES ASSUME GateInv, [Next]_vars, NEW x \in Operators,
                    actor'[x].pc \in {"collect", "build", "verify"}
             PROVE  actor'[x].since <= steers' /\ (actor'[x].since = steers' => Gate(x)')
  BY DEF Gates
<1>a. steers \in Int /\ actor[x].since \in Int
  BY DEF GateInv, Typed, TypeOK, Actor
<1>1. CASE Steer /\ steers' = steers + 1
  <2>1. UNCHANGED actor
    BY <1>1, SteerIsSteered DEF Steered, GateInv, Typed
  <2>2. actor[x].since <= steers
    BY <2>1 DEF GateInv, Gates
  <2> QED BY <1>1, <1>a, <2>1, <2>2
<1>2. CASE steers' = steers /\ actor'[x] = actor[x]
  BY <1>2, GateOfAnother
<1>3. CASE steers' = steers /\ actor'[x] # actor[x]
  BY <1>3, ActorFrame, GateOfItself DEF GateInv
<1> QED BY <1>1, <1>2, <1>3, SteeringCounts DEF GateInv

\* The gate is left with every action decided and every command made.
THEOREM GateDecided == Spec => GateLeftDecided
<1>1. Init => Gates
  BY DEF Init, Gates, Idle
<1>2. GateInv /\ [Next]_vars => GateInv'
  BY GatesKept, TypingStep, CarriesKept DEF GateInv, Typed
<1>3. GateInv /\ [Next]_vars =>
        [job.stage = "gate" /\ job'.stage \in {"publish", "verify"} =>
           \/ steers' # steers \/ Outdated
           \/ Pending = {} /\ \A a \in Executable : command[a] # "none"]_vars
  <2> SUFFICES ASSUME GateInv, [Next]_vars, job.stage = "gate", job'.stage \in {"publish", "verify"},
                      steers' = steers, ~Outdated
               PROVE  Pending = {} /\ \A a \in Executable : command[a] # "none"
    OBVIOUS
  <2> USE DEF GateInv
  <2>1. PICK x \in Operators : MoveOn(x) /\ actor[x].ok
    <3>1. ASSUME NEW w \in Runs, DraftStep(w) PROVE FALSE
      BY <3>1, DraftFrame
    <3>2. ASSUME NEW x \in Runs \cup Operators, ActorStep(x) \/ (x \in Operators /\ OperatorStep(x))
          PROVE  x \in Operators /\ MoveOn(x) /\ actor[x].ok
      BY <3>2, DecisionFrame, Moves
    <3>3. ASSUME NEW p \in Publishers, PublishStep(p) PROVE FALSE
      BY <3>3, PublishFrame
    <3>4. ~Steer
      BY SteerIsSteered DEF Steered, Typed, TypeOK
    <3>5. ExpireCallback \/ Reconcile \/ UNCHANGED vars => job'.stage = job.stage
      BY DEF ExpireCallback, Reconcile, vars, Typed, TypeOK, Job
    <3> QED BY <3>1, <3>2, <3>3, <3>4, <3>5 DEF Next
  <2>2. \/ actor[x].pc = "build" /\ actor[x].adding = {}
        \/ actor[x].pc = "verify"
    BY <2>1 DEF MoveOn
  <2>3. Gate(x)
    BY <2>2 DEF Gates, Outdated
  <2> QED BY <2>1, <2>2, <2>3 DEF Gate
<1>4. Typed /\ Gates <=> GateInv
  BY DEF GateInv
<1> QED BY <1>1, <1>2, <1>3, <1>4, TypedInit, PTL DEF Spec, GateLeftDecided
==============================================================================
