-------------------------- MODULE EditorialPlanning --------------------------
(* The planned items of a brand and the jobs that carry them out.           *)
(*                                                                          *)
(* A plan is a pointer to an immutable revision that names immutable        *)
(* revisions of its items; only the state of an item revision is written    *)
(* again. Operators add items, move them, replace their sources and decide  *)
(* reviews; the promotion of a strategy puts the unclaimed items under      *)
(* review in its own transaction; the scheduler makes a job of a due item.  *)
(* Each command is one transaction. What happens inside a job is in         *)
(* StagePipeline and DraftGate; here it moves the job, and the item's state *)
(* follows when it is reconciled.                                           *)
EXTENDS StrategyAuthority, FiniteSets

CONSTANTS
  Items,          \* ids of planned items
  Editorials,     \* editorial plans: functions from their items to the dependencies
  Requests,       \* replan commands, by request id
  Drafts,         \* intake drafts that bring replacement sources
  Outcomes,       \* how a job may end: "succeeded", "unsuccessful"
  Failures,       \* failures that may be reported: "transient", "permanent"
  MaxConcurrent,  \* maxConcurrentItems of the planning policy
  MaxPlan         \* bound: the revisions of the plan

ASSUME PlanningAssumption ==
  /\ MaxPlan \in Nat \ {0} /\ MaxConcurrent \in Nat
  /\ Outcomes \subseteq {"succeeded", "unsuccessful"}
  /\ Failures \subseteq {"transient", "permanent"}
  /\ \A e \in Editorials :
       /\ DOMAIN e \subseteq Items
       /\ \A x \in DOMAIN e : e[x] \subseteq DOMAIN e

VARIABLES
  plan,     \* the current revision of the plan, 0 without one
  planned,  \* planned[n]: the strategy and the item revisions of plan revision n
  item,     \* item[r]: the definition of item revision r
  state,    \* state[r]: its state record
  work,     \* work[r]: its job
  review    \* review[v]: a planning proposal, by its id

planVars == <<plan, planned, item, state, work, review>>
vars == <<strategyVars, planVars>>

Refs == [id: Items, rev: 1..MaxPlan]

\* A review's id is made of what it is about: the target strategy (the plan
\* revision in the id adds nothing), the intake draft, or the replan command.
Reviews == [type: {"strategy_rebase"}, of: 1..MaxStrategy]
           \cup [type: {"source_replacement"}, of: Drafts]
           \cup [type: {"calendar_change"}, of: Requests]
Rebase(s) == [type |-> "strategy_rebase", of |-> s]
Replacement(d) == [type |-> "source_replacement", of |-> d]
Calendar(q) == [type |-> "calendar_change", of |-> q]

ASSUME ReviewAssumption == None \notin Reviews

\* "queued" stands for planned and blocked: every guard treats them alike.
Statuses == {"queued", "running", "awaiting_approval", "requires_disposition", "failed",
             "completed", "cancelled"}
State == [status: Statuses, disposition: Reviews \cup {None}, bound: BOOLEAN,
          retryPending: BOOLEAN]
Item == [plan: 0..MaxPlan, strategy: Strategies, deps: SUBSET Refs]
Work == [there: BOOLEAN, at: {"stages", "gate", "succeeded", "unsuccessful"},
         cancelled: BOOLEAN, failure: {"none", "transient", "permanent"}]
Review == [state: {"none", "pending", "superseded", "approved", "declined", "applied"},
           guarded: SUBSET Refs, exact: BOOLEAN, previous: [Refs -> State],
           plan: 0..MaxPlan, target: Strategies]

\* The type of every variable.
TypeOK ==
  /\ StrategyTypeOK
  /\ plan \in 0..MaxPlan
  /\ planned \in [1..MaxPlan -> [strategy: Strategies, items: SUBSET Refs]]
  /\ item \in [Refs -> Item]
  /\ state \in [Refs -> State]
  /\ work \in [Refs -> Work]
  /\ review \in [Reviews -> Review]

Fresh == [status |-> "queued", disposition |-> None, bound |-> FALSE, retryPending |-> FALSE]
NoReview == [state |-> "none", guarded |-> {}, exact |-> TRUE,
             previous |-> [r \in Refs |-> Fresh], plan |-> 0, target |-> 0]

Init ==
  /\ StrategyInit
  /\ plan = 0
  /\ planned = [n \in 1..MaxPlan |-> [strategy |-> 0, items |-> {}]]
  /\ item = [r \in Refs |-> [plan |-> 0, strategy |-> 0, deps |-> {}]]
  /\ state = [r \in Refs |-> Fresh]
  /\ work = [r \in Refs |-> [there |-> FALSE, at |-> "stages", cancelled |-> FALSE,
                            failure |-> "none"]]
  /\ review = [v \in Reviews |-> NoReview]

Current == IF plan = 0 THEN {} ELSE planned[plan].items
First(x) == [id |-> x, rev |-> 1]

\* readPlannedExecutionAuthority: anything that was ever made of the revision.
Claimed(r) == state[r].bound \/ work[r].there

\* The dependents, direct or not, of the revisions in S.
Closed(T) == \A r \in Current : item[r].deps \cap T # {} => r \in T
Affected(S) == {r \in Current : \A T \in SUBSET Current : S \subseteq T /\ Closed(T) => r \in T}

Active(r) == state[r].status \in {"running", "awaiting_approval"}

----------------------------------------------------------------------------
(* Plan revisions.                                                          *)

\* Revision 1 of a plan whose items are the domain of deps.
NewPlan(deps, strategy) ==
  /\ plan = 0 /\ "plan" \in scope
  /\ plan' = 1
  /\ planned' = [planned EXCEPT ![1] = [strategy |-> strategy,
                                        items |-> {First(x) : x \in DOMAIN deps}]]
  /\ item' = [r \in Refs |->
       IF r.rev = 1 /\ r.id \in DOMAIN deps
       THEN [plan |-> 1, strategy |-> strategy, deps |-> {First(x) : x \in deps[r.id]}]
       ELSE item[r]]
  /\ UNCHANGED <<state, work, review>>

Successor(r) == [r EXCEPT !.rev = @ + 1]
Revised(S, r) == IF r \in S THEN Successor(r) ELSE r

\* The next revision of the plan, in which every item of S has a successor:
\* pin is the strategy of each, and the prerequisites follow.
Commit(S, pin, strategy) ==
  /\ plan < MaxPlan
  /\ plan' = plan + 1
  /\ planned' = [planned EXCEPT ![plan + 1] = [strategy |-> strategy,
                                              items |-> {Revised(S, r) : r \in Current}]]
  /\ item' = [n \in Refs |->
       IF \E r \in S : n = Successor(r)
       THEN LET r == [n EXCEPT !.rev = @ - 1] IN
            [plan |-> plan + 1, strategy |-> pin[r], deps |-> {Revised(S, d) : d \in item[r].deps}]
       ELSE item[n]]
  /\ state' = [n \in Refs |-> IF \E r \in S : n = Successor(r) THEN Fresh ELSE state[n]]

Pins(S) == [r \in S |-> item[r].strategy]
PinsAll(S, strategy) == [r \in S |-> strategy]

\* The strategy job's editorial plan is accepted under the strategy it pins.
AcceptEditorial(j, e) ==
  /\ AcceptPlan(j)
  /\ NewPlan(e, job[j].ref)

\* An intake makes a plan of one item under the active strategy.
MaterializeIntake(x) ==
  /\ active > 0
  /\ NewPlan([y \in {x} |-> {}], active)
  /\ UNCHANGED strategyVars

\* The prerequisites named must be exact items of the plan.
AddDeliverable(x, deps) ==
  /\ plan \in 1..(MaxPlan - 1) /\ \A r \in Current : r.id # x
  /\ active = planned[plan].strategy /\ deps \subseteq Current
  /\ plan' = plan + 1
  /\ planned' = [planned EXCEPT ![plan + 1] = [strategy |-> planned[plan].strategy,
                                              items |-> Current \cup {First(x)}]]
  /\ item' = [item EXCEPT ![First(x)] = [plan |-> plan + 1, strategy |-> planned[plan].strategy,
                                         deps |-> deps]]
  /\ UNCHANGED <<strategyVars, state, work, review>>

----------------------------------------------------------------------------
(* Replanning an item.                                                      *)

Protected == {"running", "awaiting_approval", "requires_disposition", "cancelled"}

Bug_StatusOnly(r, S) ==
  {d \in S : state[d].status \in Protected \/ (d # r /\ state[d].status = "completed")}

\* What of the affected items S the move of r may not touch.
Untouchable(r, S) ==
  {d \in S : \/ Claimed(d) \/ state[d].status \in Protected
             \/ d # r /\ state[d].status = "completed"}

\* The items a move revises: the item and all that depend on it.
Bug_ItemOnly(r) == {r}

Moved(r) == Affected({r})

\* conflict: the calendar's capacity or spacing, or the horizon, forbids the date.
Replan(q, r, conflict) ==
  LET S == Moved(r)
      guarded == Untouchable(r, S)
  IN
  /\ "replan" \in scope /\ review[Calendar(q)].state = "none" /\ r \in Current
  /\ state[r].status # "completed"
  /\ IF conflict \/ active # item[r].strategy \/ guarded # {}
     THEN /\ review' = [review EXCEPT ![Calendar(q)] =
                          [NoReview EXCEPT !.state = "pending", !.guarded = guarded]]
          /\ state' = [s \in Refs |-> IF s \in guarded
                         THEN [state[s] EXCEPT !.disposition = Calendar(q)] ELSE state[s]]
          /\ UNCHANGED <<plan, planned, item>>
     ELSE /\ Commit(S, Pins(S), planned[plan].strategy)
          /\ review' = [review EXCEPT ![Calendar(q)].state = "applied"]
  /\ UNCHANGED <<strategyVars, work>>

----------------------------------------------------------------------------
(* Reviews.                                                                 *)

UnderReview(v, guarded, target) ==
  [state |-> "pending", guarded |-> guarded, exact |-> TRUE,
   previous |-> [r \in Refs |-> IF r \in guarded
      THEN [state[r] EXCEPT !.status = IF @ = "requires_disposition" THEN "queued" ELSE @]
      ELSE Fresh],
   plan |-> plan, target |-> target]

Suspend(guarded, v) ==
  state' = [r \in Refs |-> IF r \in guarded
     THEN [state[r] EXCEPT !.status = "requires_disposition", !.disposition = v] ELSE state[r]]

\* In the transaction that promotes strategy s: every item under an older one
\* that is neither claimed nor settled; older reviews of theirs are superseded.
QueueDispositions(s) ==
  LET guarded == {r \in Current : /\ item[r].strategy # s /\ ~Claimed(r)
                                  /\ state[r].status \notin {"completed", "cancelled"}}
      older == {state[r].disposition : r \in guarded}
      mine == Rebase(s)
  IN
  /\ review' = [v \in Reviews |->
       IF v = mine /\ guarded # {} THEN UnderReview(v, guarded, s)
       ELSE IF v \in older /\ review[v].state = "pending"
       THEN [review[v] EXCEPT !.state = "superseded"] ELSE review[v]]
  /\ Suspend(guarded, mine)
  /\ UNCHANGED <<plan, planned, item, work>>

\* An intake brings other sources for an item; its dependents go with it.
ProposeReplacement(d, r) ==
  LET v == Replacement(d)
      guarded == Affected({r})
  IN
  /\ "replace" \in scope /\ review[v].state = "none"
  /\ r \in Current /\ item[r].strategy = active
  /\ \A s \in guarded : /\ ~Claimed(s) /\ state[s].status = "queued"
                        /\ state[s].disposition = None
  /\ review' = [review EXCEPT ![v] = UnderReview(v, guarded, active)]
  /\ Suspend(guarded, v)
  /\ UNCHANGED <<strategyVars, plan, planned, item, work>>

\* The review is pending, and what it guards is as it was and still under it.
Answerable(v) ==
  /\ review[v].state = "pending" /\ review[v].guarded # {} /\ review[v].exact
  /\ \A r \in review[v].guarded : state[r].disposition = v

\* A calendar review can only be declined: the items keep their state.
DeclineCalendar(q) ==
  LET v == Calendar(q) IN
  /\ Answerable(v)
  /\ state' = [r \in Refs |-> IF r \in review[v].guarded
       THEN [state[r] EXCEPT !.disposition = None] ELSE state[r]]
  /\ review' = [review EXCEPT ![v].state = "declined"]
  /\ UNCHANGED <<strategyVars, plan, planned, item, work>>

\* Its items are current and unclaimed, and its strategy is the active one.
Disposable(v) ==
  /\ Answerable(v) /\ v.type # "calendar_change"
  /\ review[v].guarded \subseteq Current /\ active = review[v].target
  /\ \A r \in review[v].guarded : ~Claimed(r)

\* Cancelled, or for a source replacement kept as it was.
Decline(v, decision) ==
  /\ Disposable(v)
  /\ v.type = "strategy_rebase" => decision # "keep"
  /\ state' = [r \in Refs |-> IF r \in review[v].guarded
       THEN [review[v].previous[r] EXCEPT !.disposition = None,
             !.status = IF decision = "cancel" \/ v.type = "strategy_rebase"
                        THEN "cancelled" ELSE @]
       ELSE state[r]]
  /\ review' = [review EXCEPT ![v].state = "declined"]
  /\ UNCHANGED <<strategyVars, plan, planned, item, work>>

Bug_OldStrategy(v) == planned[plan].strategy

\* The strategy of the plan revision that follows an accepted review.
PlanStrategy(v) == review[v].target

Accept(v) ==
  LET S == review[v].guarded IN
  /\ Disposable(v) /\ plan = review[v].plan /\ Closed(S)
  /\ Commit(S, PinsAll(S, review[v].target), PlanStrategy(v))
  /\ review' = [review EXCEPT ![v].state = "approved"]
  /\ UNCHANGED <<strategyVars, work>>

----------------------------------------------------------------------------
(* Jobs of planned items.                                                   *)

\* Any change of the job, or of the item's binding to it, is seen by a review
\* that guards the item: the authority it recorded is no longer exact.
Touch(r) ==
  review' = [v \in Reviews |-> IF review[v].state = "pending" /\ r \in review[v].guarded
               THEN [review[v] EXCEPT !.exact = FALSE] ELSE review[v]]

Others(r) == {s \in Current : s.id # r.id /\ Active(s)}

DependenciesDone(r) == \A d \in item[r].deps : state[d].status = "completed"

\* The scheduler, or a command for this item: asset, calendar and date may
\* keep it from being taken, which leaves it queued.
Claim(r) ==
  /\ r \in Current /\ state[r].status = "queued" /\ ~state[r].bound
  /\ Cardinality({s \in Current : Active(s)}) < MaxConcurrent
  /\ active = item[r].strategy /\ DependenciesDone(r) /\ state[r].disposition = None
  /\ ~work[r].there
  /\ work' = [work EXCEPT ![r].there = TRUE]
  /\ state' = [state EXCEPT ![r].status = "running", ![r].bound = TRUE]
  /\ Touch(r)
  /\ UNCHANGED <<strategyVars, plan, planned, item>>

Observed(w) ==
  IF w.cancelled THEN "cancelled" ELSE IF w.failure # "none" THEN "failed"
  ELSE CASE w.at = "stages" -> "running" [] w.at = "gate" -> "awaiting_approval"
         [] w.at = "succeeded" -> "completed" [] w.at = "unsuccessful" -> "queued"

\* reconcilePlannedExecution, after the job ended or failed, or by recovery.
Reconcile(r) ==
  /\ work[r].there /\ state[r].bound
  /\ \/ r \in Current /\ state[r].status # "completed"
     \/ work[r].failure # "none" \/ work[r].at \in {"succeeded", "unsuccessful"}
  /\ state' = [state EXCEPT ![r].status = Observed(work[r])]
  /\ UNCHANGED <<strategyVars, plan, planned, item, work, review>>

\* The production is applied: the gate opens and the item says so.
ApplyProduction(r) ==
  /\ work[r].there /\ work[r].at = "stages" /\ state[r].status = "running"
  /\ work' = [work EXCEPT ![r].at = "gate"]
  /\ state' = [state EXCEPT ![r].status = "awaiting_approval"]
  /\ Touch(r)
  /\ UNCHANGED <<strategyVars, plan, planned, item>>

JobMoves(r, to) ==
  /\ work[r].there /\ work' = [work EXCEPT ![r] = to] /\ Touch(r)
  /\ UNCHANGED <<strategyVars, plan, planned, item, state>>

\* The actions are decided; or a stage is redone, of a finished job too.
ResumeStages(r) == work[r].at # "stages" /\ JobMoves(r, [work[r] EXCEPT !.at = "stages"])
SaveLearnings(r, outcome) ==
  work[r].at = "stages" /\ JobMoves(r, [work[r] EXCEPT !.at = outcome])
\* A failure may be reported late, of a job that has moved on or ended.
MarkFailed(r, kind) == "fail" \in scope /\ JobMoves(r, [work[r] EXCEPT !.failure = kind])
CancelJob(r) == "cancel" \in scope /\ JobMoves(r, [work[r] EXCEPT !.cancelled = TRUE])

\* Refusals that are not about the stored plan (calendar, assets, unknown
\* effects) may come at any time.
Admitted(r) ==
  /\ r \in Current /\ Cardinality(Others(r)) < MaxConcurrent
  /\ work[r].failure = "permanent" => active = item[r].strategy
  /\ DependenciesDone(r) /\ state[r].disposition = None
  /\ state[r].status \notin {"completed", "cancelled", "requires_disposition"}
  /\ ~work[r].cancelled

Retry(r, admitted) ==
  /\ work[r].there /\ state[r].bound /\ work[r].failure # "none"
  /\ IF admitted
     THEN /\ Admitted(r)
          /\ state' = [state EXCEPT ![r].status = "running", ![r].retryPending = FALSE]
          /\ work' = [work EXCEPT ![r].at = "stages", ![r].failure = "none"]
          /\ Touch(r)
     ELSE /\ state' = [state EXCEPT ![r].status = "failed", ![r].retryPending = TRUE]
          /\ UNCHANGED <<work, review>>
  /\ UNCHANGED <<strategyVars, plan, planned, item>>

----------------------------------------------------------------------------

\* A promotion reaches the plan in the same transaction.
StrategyActs ==
  /\ StrategyStep
  /\ IF active' # active /\ plan # 0 THEN QueueDispositions(active') ELSE UNCHANGED planVars

PlanStep ==
  \/ \E j \in Jobs, e \in Editorials : AcceptEditorial(j, e)
  \/ \E x \in Items : \/ MaterializeIntake(x)
                      \/ \E deps \in SUBSET Current : AddDeliverable(x, deps)
  \/ \E q \in Requests : \/ \E r \in Current, conflict \in BOOLEAN : Replan(q, r, conflict)
                         \/ DeclineCalendar(q)
  \/ \E d \in Drafts, r \in Current : ProposeReplacement(d, r)
  \/ \E v \in Reviews : \/ \E decision \in {"cancel", "keep"} : Decline(v, decision)
                        \/ Accept(v)

WorkStep ==
  \E r \in Refs :
    \/ Claim(r) \/ Reconcile(r) \/ ApplyProduction(r) \/ ResumeStages(r) \/ CancelJob(r)
    \/ \E outcome \in Outcomes : SaveLearnings(r, outcome)
    \/ \E kind \in Failures : MarkFailed(r, kind)
    \/ \E admitted \in BOOLEAN : Retry(r, admitted)

Next == StrategyActs \/ PlanStep \/ WorkStep

Spec == Init /\ [][Next]_vars

----------------------------------------------------------------------------
(* An item has one execution: of all its revisions at most one has a job,   *)
(* and it is the one the plan names. A revision, a rebase or a replacement  *)
(* may not leave a job behind on a revision that is no longer current.      *)
OneExecution ==
  \A r, s \in Refs : work[r].there =>
    /\ r \in Current
    /\ work[s].there /\ s.id = r.id => s = r

(* What a current item depends on is current: a prerequisite that was       *)
(* revised under it would never be completed.                               *)
DependenciesReachable == \A r \in Current : item[r].deps \subseteq Current

(* The job of a planned item can be read: the plan revision its item names   *)
(* holds the item and pins the same strategy. Every read of a job that finds *)
(* otherwise throws, whatever stage it is in.                               *)
JobResolvable ==
  \A r \in Refs : work[r].there =>
    /\ item[r].plan # 0 /\ r \in planned[item[r].plan].items
    /\ planned[item[r].plan].strategy = item[r].strategy
=============================================================================
