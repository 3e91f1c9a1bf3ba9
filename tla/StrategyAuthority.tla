-------------------------- MODULE StrategyAuthority --------------------------
(* The approved strategy of a brand, and who may replace it.                *)
(*                                                                          *)
(* A strategy job proposes a strategy, at most twice; learning proposes     *)
(* changes to the active one. An operator decides a job's proposal on the   *)
(* dashboard, or through a confirmation of the chat: a pending operation    *)
(* that a request claims under a lease, acts upon, and finalizes, in        *)
(* transactions of their own. Another request may take the confirmation     *)
(* over when the lease has run out, while the first is still at work. A     *)
(* promotion must find the revision its proposal was made against.          *)
EXTENDS Integers

CONSTANTS
  Jobs,        \* strategy jobs
  StrategyOnly,\* those whose intake asks for a strategy and no content
  Changes,     \* strategy changes proposed by learning
  Ops,         \* confirmations the chat may create
  Handlers,    \* requests that decide a confirmation, again and again
  Actors,      \* operators
  Intents,     \* the decisions they may take: actor, verdict, whether with feedback
  Scopes,      \* bound: what may happen in a behaviour, sets of Occasions
  Starting,    \* bound: of a scope, the revisions active at first; 0 is none
  None,        \* no decision, confirmation or review
  MaxStrategy  \* bound: the strategy revisions

\* Confirmations in the chat, rejections, nudges and redos of a strategy job;
\* plans, commands that move an item or replace its sources, failures and
\* cancellations of a planned job.
Occasions == {"confirm", "reject", "steer", "plan", "replan", "replace", "fail", "cancel"}

ASSUME StrategyAssumption ==
  /\ Jobs \cap Changes = {} /\ StrategyOnly \subseteq Jobs
  /\ Intents \subseteq [actor: Actors, verdict: {"approved", "rejected"}, feedback: BOOLEAN]
  /\ MaxStrategy \in Nat /\ Scopes \subseteq SUBSET Occasions
  /\ Starting \in [Scopes -> SUBSET (0..MaxStrategy)]
  /\ None \notin Intents \cup Ops

VARIABLES
  active,      \* the revision the pointer names, 0 without one
  job,         \* job[j]: stage, attempt, proposal in force, pinned revision
  proposal,    \* proposal[i]: the revision it was made against, its decision
  change,      \* change[c]: the status of a learning change
  op,          \* op[o]: a confirmation
  handler,     \* handler[h]: where a request stands
  scope        \* what may happen in this behaviour

strategyVars == <<active, job, proposal, change, op, handler, scope>>

\* A proposal's id is its job's and the attempt; a change makes one.
Proposals == (Jobs \cup Changes) \X {1, 2}

Strategies == 0..MaxStrategy
JobStages == {"strategize", "awaiting", "plan", "complete"}
Job == [stage: JobStages, attempt: {1, 2},
        proposal: {0, 1, 2}, ref: Strategies]
Proposal == [there: BOOLEAN, base: Strategies, approval: Intents \cup {None}, expired: BOOLEAN]
Operation == [state: {"none", "pending", "processing", "approved", "rejected", "failed"},
              on: (Jobs \X {1, 2}) \cup {None}, intent: Intents \cup {None}, live: BOOLEAN,
              expired: BOOLEAN]
Request == [pc: {"idle", "read", "decide", "finalize", "fail"}, on: Ops \cup {None},
            intent: Intents \cup {None}]

\* The type of every variable.
StrategyTypeOK ==
  /\ active \in Strategies
  /\ job \in [Jobs -> Job]
  /\ proposal \in [Proposals -> Proposal]
  /\ change \in [Changes -> {"none", "pending", "approved", "rejected", "superseded"}]
  /\ op \in [Ops -> Operation]
  /\ handler \in [Handlers -> Request]
  /\ scope \in Scopes

Away == [pc |-> "idle", on |-> None, intent |-> None]

StrategyInit ==
  /\ job = [j \in Jobs |-> [stage |-> "strategize", attempt |-> 1, proposal |-> 0, ref |-> 0]]
  /\ proposal = [i \in Proposals |->
       [there |-> FALSE, base |-> 0, approval |-> None, expired |-> FALSE]]
  /\ change = [c \in Changes |-> "none"]
  /\ op = [o \in Ops |-> [state |-> "none", on |-> None, intent |-> None, live |-> FALSE,
                          expired |-> FALSE]]
  /\ handler = [h \in Handlers |-> Away]
  /\ scope \in Scopes /\ active \in Starting[scope]

----------------------------------------------------------------------------
(* Proposals.                                                               *)

Proposed == [there |-> TRUE, base |-> active, approval |-> None, expired |-> FALSE]

\* The id of a proposal is its job's and attempt: a job steered back to
\* strategize cannot propose the same attempt again.
Propose(j) ==
  LET i == <<j, job[j].attempt>> IN
  /\ job[j].stage = "strategize" /\ job[j].ref = 0 /\ ~proposal[i].there
  /\ proposal' = [proposal EXCEPT ![i] = Proposed]
  /\ job' = [job EXCEPT ![j].stage = "awaiting", ![j].proposal = job[j].attempt]
  /\ UNCHANGED <<active, change, op, handler, scope>>

\* A nudge at the gate, and a redo, which may name any stage.
NudgeStrategy(j) ==
  /\ "steer" \in scope /\ job[j].stage = "awaiting"
  /\ job' = [job EXCEPT ![j].stage = "strategize"]
  /\ UNCHANGED <<active, proposal, change, op, handler, scope>>

RedoStrategy(j, stage) ==
  /\ "steer" \in scope
  /\ job' = [job EXCEPT ![j].stage = stage]
  /\ UNCHANGED <<active, proposal, change, op, handler, scope>>

\* A change is proposed against the active revision.
ProposeChange(c) ==
  /\ change[c] = "none" /\ active > 0
  /\ change' = [change EXCEPT ![c] = "pending"]
  /\ proposal' = [proposal EXCEPT ![<<c, 1>>] = Proposed]
  /\ UNCHANGED <<active, job, op, handler, scope>>

\* The approval window of a proposal closes.
Expire(i) ==
  /\ proposal[i].there /\ ~proposal[i].expired /\ proposal[i].approval = None
  /\ proposal' = [proposal EXCEPT ![i].expired = TRUE]
  /\ UNCHANGED <<active, job, change, op, handler, scope>>

----------------------------------------------------------------------------
(* Deciding a proposal.                                                     *)

Refused(i, intent) ==
  \/ proposal[i].expired
  \/ intent.verdict = "rejected" /\ ~intent.feedback
  \/ intent.verdict = "approved" /\ active # proposal[i].base

\* Refused before it looks whether this very decision is recorded already.
Bug_StaleFirst(j, i, intent) ==
  IF <<j, job[j].proposal>> # i \/ Refused(i, intent) THEN "refused"
  ELSE IF proposal[i].approval = intent THEN "replayed"
  ELSE IF proposal[i].approval # None \/ job[j].stage # "awaiting" THEN "error" ELSE "decided"

\* What decideStrategy makes of a decision that names proposal i of job j: a
\* refusal the route knows by its message, another error, the replay of the
\* same decision, or the decision itself.
Outcome(j, i, intent) ==
  LET prior == proposal[i].approval IN
  IF <<j, job[j].proposal>> # i THEN "refused"
  ELSE IF prior # None THEN IF prior = intent THEN "replayed" ELSE "error"
  ELSE IF Refused(i, intent) THEN "refused"
  ELSE IF job[j].stage # "awaiting" THEN "error" ELSE "decided"

\* An approval moves the pointer; a rejection is stored and leaves it.
Decide(i, intent) ==
  /\ intent.verdict = "approved" => active < MaxStrategy
  /\ active' = IF intent.verdict = "approved" THEN active + 1 ELSE active
  /\ proposal' = [proposal EXCEPT ![i].approval = intent]

\* Where the job goes: on with the plan, back once for a second attempt, or over.
JobDecided(j, intent) ==
  job' = [job EXCEPT
    ![j].stage = CASE intent.verdict = "approved" /\ j \notin StrategyOnly -> "plan"
                   [] intent.verdict = "rejected" /\ job[j].proposal = 1 -> "strategize"
                   [] OTHER -> "complete",
    ![j].attempt = IF intent.verdict = "rejected" /\ job[j].proposal = 1 THEN 2 ELSE @,
    ![j].ref = IF intent.verdict = "approved" THEN active + 1 ELSE @]

DecideOnDashboard(j, i, intent) ==
  /\ proposal[i].there /\ Outcome(j, i, intent) = "decided"
  /\ Decide(i, intent) /\ JobDecided(j, intent)
  /\ UNCHANGED <<change, op, handler, scope>>

DecideChange(c, intent) ==
  LET i == <<c, 1>> IN
  /\ change[c] = "pending" /\ active = proposal[i].base /\ ~Refused(i, intent)
  /\ Decide(i, intent)
  /\ change' = [change EXCEPT ![c] = intent.verdict]
  /\ UNCHANGED <<job, op, handler, scope>>

\* Listing the changes supersedes those whose base is no longer active.
SupersedeChange(c) ==
  /\ change[c] = "pending" /\ active # proposal[<<c, 1>>].base
  /\ change' = [change EXCEPT ![c] = "superseded"]
  /\ UNCHANGED <<active, job, proposal, op, handler, scope>>

\* The editorial plan of an approved strategy is accepted; it pins the job's
\* revision, which need not be the active one any more.
AcceptPlan(j) ==
  /\ job[j].stage = "plan" /\ job[j].ref > 0
  /\ job' = [job EXCEPT ![j].stage = "complete"]
  /\ UNCHANGED <<active, proposal, change, op, handler, scope>>

----------------------------------------------------------------------------
(* The confirmation of the chat.                                            *)

\* The chat shows the proposal of a job that awaits a decision.
Confirm(o, j) ==
  /\ "confirm" \in scope /\ op[o].state = "none"
  /\ job[j].stage = "awaiting" /\ job[j].proposal # 0
  /\ proposal[<<j, job[j].proposal>>].approval = None
  /\ op' = [op EXCEPT ![o] = [state |-> "pending", on |-> <<j, job[j].proposal>>,
                              intent |-> None, live |-> FALSE, expired |-> FALSE]]
  /\ UNCHANGED <<active, job, proposal, change, handler, scope>>

ConfirmationExpires(o) ==
  /\ op[o].state = "pending" /\ ~op[o].expired
  /\ op' = [op EXCEPT ![o].expired = TRUE]
  /\ UNCHANGED <<active, job, proposal, change, handler, scope>>

LeaseEnds(o) ==
  /\ op[o].state = "processing" /\ op[o].live
  /\ op' = [op EXCEPT ![o].live = FALSE]
  /\ UNCHANGED <<active, job, proposal, change, handler, scope>>

\* The first claim fixes the decision; a later one must bring the same.
Claimable(o, intent) ==
  /\ op[o].intent \in {None, intent}
  /\ op[o].intent = None => ~op[o].expired
  /\ \/ op[o].state = "pending"
     \/ op[o].state = "processing" /\ ~op[o].live

ClaimConfirmation(h, o, intent) ==
  /\ handler[h].pc = "idle"
  /\ \/ /\ Claimable(o, intent)
        /\ op' = [op EXCEPT ![o].state = "processing", ![o].intent = intent, ![o].live = TRUE]
     \/ /\ op[o].intent = intent /\ op[o].state = intent.verdict
        /\ UNCHANGED op
  /\ handler' = [handler EXCEPT ![h] = [pc |-> "read", on |-> o, intent |-> intent]]
  /\ UNCHANGED <<active, job, proposal, change, scope>>

Goes(h, pc) == handler' = [handler EXCEPT ![h].pc = pc]
Leaves(h) == handler' = [handler EXCEPT ![h] = Away]

\* The request reads the proposal: decided as it wants, otherwise, or not yet.
ReadProposal(h) ==
  LET found == proposal[op[handler[h].on].on].approval IN
  /\ handler[h].pc = "read"
  /\ Goes(h, IF found = None THEN "decide" ELSE IF found = handler[h].intent THEN "finalize"
             ELSE "fail")
  /\ UNCHANGED <<active, job, proposal, change, op, scope>>

DecideConfirmed(h) ==
  LET i == op[handler[h].on].on
      j == i[1]
      intent == handler[h].intent
      outcome == Outcome(j, i, intent)
  IN
  /\ handler[h].pc = "decide"
  /\ \/ /\ outcome = "decided"
        /\ Decide(i, intent) /\ JobDecided(j, intent) /\ Goes(h, "finalize")
     \/ /\ outcome # "decided"
        /\ CASE outcome = "replayed" -> Goes(h, "finalize")
             [] outcome = "refused" -> Goes(h, "fail")
             [] OTHER -> Leaves(h)
        /\ UNCHANGED <<active, proposal, job>>
  /\ UNCHANGED <<change, op, scope>>

\* A confirmation that is no longer in processing is left as it is.
Conclude(h, pc, state) ==
  /\ handler[h].pc = pc
  /\ op' = [op EXCEPT ![handler[h].on] =
              IF @.state = "processing" THEN [@ EXCEPT !.state = state, !.live = FALSE] ELSE @]
  /\ Leaves(h)
  /\ UNCHANGED <<active, job, proposal, change, scope>>

FinalizeConfirmation(h) == Conclude(h, "finalize", handler[h].intent.verdict)
FailConfirmation(h) == Conclude(h, "fail", "failed")

\* A crash, or an answer of the store that is lost: the confirmation waits for
\* its lease to end.
Abandon(h) ==
  /\ handler[h].pc # "idle"
  /\ Leaves(h)
  /\ UNCHANGED <<active, job, proposal, change, op, scope>>

Decisions == {intent \in Intents : intent.verdict = "rejected" => "reject" \in scope}

StrategyStep ==
  \/ \E j \in Jobs :
       \/ Propose(j) \/ NudgeStrategy(j)
       \/ \E stage \in JobStages : RedoStrategy(j, stage)
       \/ \E i \in {j} \X {1, 2}, intent \in Decisions : DecideOnDashboard(j, i, intent)
       \/ \E o \in Ops : Confirm(o, j)
  \/ \E c \in Changes :
       \/ ProposeChange(c) \/ SupersedeChange(c)
       \/ \E intent \in Decisions : DecideChange(c, intent)
  \/ \E i \in Proposals : Expire(i)
  \/ \E o \in Ops : ConfirmationExpires(o) \/ LeaseEnds(o)
  \/ \E h \in Handlers :
       \/ \E o \in Ops, intent \in Decisions : ClaimConfirmation(h, o, intent)
       \/ ReadProposal(h) \/ DecideConfirmed(h)
       \/ FinalizeConfirmation(h) \/ FailConfirmation(h) \/ Abandon(h)

StrategyNext == StrategyStep \/ \E j \in Jobs : AcceptPlan(j)

StrategySpec == StrategyInit /\ [][StrategyNext]_strategyVars

----------------------------------------------------------------------------
(* A confirmation says what happened. When it says approved or rejected, the *)
(* proposal carries that operator's decision; when an approval is recorded  *)
(* as failed, no one made that approval count, before or after. Two         *)
(* requests may be at work on it, and the pointer may move meanwhile.       *)
ConfirmationIsTruthful ==
  \A o \in Ops :
    /\ op[o].state \in {"approved", "rejected"} =>
         proposal[op[o].on].approval = op[o].intent
    /\ op[o].state = "failed" /\ op[o].intent.verdict = "approved" =>
         proposal[op[o].on].approval # op[o].intent
=============================================================================
