--------------------------- MODULE PlanningProofs ---------------------------
(* Proofs, for any jobs, changes, confirmations, requests, items, scopes    *)
(* and bounds, that a confirmation says what happened, that an item has one *)
(* execution, that what an item depends on is current, and that the job of  *)
(* an item can be read.                                                     *)
EXTENDS EditorialPlanning, TLAPS

----------------------------------------------------------------------------
(* The authority keeps its types.                                           *)

\* A job with its stage, its attempt, its proposal or its pin replaced is a job.
LEMMA JobTyped ==
  \A k \in Job, s \in JobStages :
    /\ [k EXCEPT !.stage = s] \in Job
    /\ [k EXCEPT !.stage = s, !.proposal = k.attempt] \in Job
    /\ \A n \in {1, 2}, ref \in Strategies :
         [k EXCEPT !.stage = s, !.attempt = n, !.ref = ref] \in Job
BY DEF Job

\* A proposal with its decision or its window replaced is a proposal.
LEMMA ProposalTyped ==
  \A k \in Proposal, intent \in Intents :
    /\ [k EXCEPT !.approval = intent] \in Proposal
    /\ [k EXCEPT !.expired = TRUE] \in Proposal
BY DEF Proposal

\* A decision leaves the pointer, the proposals and the job of their types.
LEMMA DecideTyped ==
  ASSUME StrategyTypeOK, NEW i \in Proposals, NEW intent \in Intents, Decide(i, intent)
  PROVE  /\ active' \in Strategies
         /\ proposal' \in [Proposals -> Proposal]
         /\ \A j \in Jobs : JobDecided(j, intent) => job' \in [Jobs -> Job]
<1>1. intent.verdict \in {"approved", "rejected"} /\ MaxStrategy \in Nat
  BY StrategyAssumption
<1>2. active' \in Strategies
  BY <1>1 DEF StrategyTypeOK, Decide, Strategies
<1>3. proposal' \in [Proposals -> Proposal]
  BY ProposalTyped DEF StrategyTypeOK, Decide
<1>4. ASSUME NEW j \in Jobs, JobDecided(j, intent) PROVE job' \in [Jobs -> Job]
  <2>1. job[j] \in Job /\ job[j].attempt \in {1, 2} /\ job[j].ref \in Strategies
    BY DEF StrategyTypeOK, Job
  <2>2. intent.verdict = "approved" => active + 1 \in Strategies
    BY <1>1 DEF StrategyTypeOK, Decide, Strategies
  <2> DEFINE s == CASE intent.verdict = "approved" /\ j \notin StrategyOnly -> "plan"
                    [] intent.verdict = "rejected" /\ job[j].proposal = 1 -> "strategize"
                    [] OTHER -> "complete"
             n == IF intent.verdict = "rejected" /\ job[j].proposal = 1 THEN 2 ELSE job[j].attempt
             ref == IF intent.verdict = "approved" THEN active + 1 ELSE job[j].ref
  <2>3. s \in JobStages /\ n \in {1, 2} /\ ref \in Strategies
    BY <2>1, <2>2, <1>1 DEF JobStages
  <2>4. job' = [job EXCEPT ![j] = [job[j] EXCEPT !.stage = s, !.attempt = n, !.ref = ref]]
    BY <1>4, <2>1 DEF JobDecided, StrategyTypeOK, Job
  <2> HIDE DEF s, n, ref
  <2> QED BY <2>1, <2>3, <2>4, JobTyped DEF StrategyTypeOK
<1> QED BY <1>2, <1>3, <1>4

\* A new proposal is a proposal, whatever revision is active.
LEMMA ProposedTyped == StrategyTypeOK => Proposed \in Proposal
BY DEF StrategyTypeOK, Proposed, Proposal

\* A confirmation with its state, decision, lease or expiry replaced is one.
LEMMA OperationTyped ==
  \A k \in Operation :
    /\ [k EXCEPT !.expired = TRUE] \in Operation
    /\ [k EXCEPT !.live = FALSE] \in Operation
    /\ \A s \in {"approved", "rejected", "failed"} :
         [k EXCEPT !.state = s, !.live = FALSE] \in Operation
    /\ \A intent \in Intents :
         [k EXCEPT !.state = "processing", !.intent = intent, !.live = TRUE] \in Operation
BY DEF Operation

\* A request that goes on is a request, and so is one that has left.
LEMMA RequestTyped ==
  /\ Away \in Request
  /\ \A k \in Request, p \in {"decide", "finalize", "fail"} : [k EXCEPT !.pc = p] \in Request
BY DEF Request, Away

\* A confirmation that exists is about a proposal that exists; a request is at
\* work on a confirmation that exists and has the decision it was claimed with.
Underway ==
  /\ \A o \in Ops : op[o].state # "none" =>
       op[o].on \in Jobs \X {1, 2} /\ proposal[op[o].on].there
  /\ \A h \in Handlers : handler[h].pc # "idle" =>
       /\ handler[h].on \in Ops /\ handler[h].intent \in Intents
       /\ op[handler[h].on].state # "none"
       /\ op[handler[h].on].intent = handler[h].intent

\* Every step of the authority keeps its types.
LEMMA StrategyTypingStep ==
  StrategyTypeOK /\ Underway /\ [StrategyNext]_strategyVars => StrategyTypeOK'
<1> SUFFICES ASSUME StrategyTypeOK, Underway, [StrategyNext]_strategyVars PROVE StrategyTypeOK'
  OBVIOUS
<1> USE DEF StrategyTypeOK
<1>a. /\ \A j \in Jobs : job[j] \in Job /\ job[j].attempt \in {1, 2}
      /\ \A j \in Jobs, n \in {1, 2} : <<j, n>> \in Proposals
      /\ \A c \in Changes : <<c, 1>> \in Proposals
  BY DEF Job, Proposals
<1>b. \A intent \in Intents : intent.verdict \in {"approved", "rejected"}
  BY StrategyAssumption
<1>1. ASSUME NEW j \in Jobs, Propose(j) PROVE StrategyTypeOK'
  <2>1. job' = [job EXCEPT ![j] = [job[j] EXCEPT !.stage = "awaiting", !.proposal = job[j].attempt]]
    BY <1>1, <1>a DEF Propose, Job
  <2>2. job' \in [Jobs -> Job]
    BY <2>1, <1>a, JobTyped DEF JobStages
  <2>3. proposal' \in [Proposals -> Proposal]
    BY <1>1, <1>a, ProposedTyped DEF Propose
  <2> QED BY <1>1, <2>2, <2>3 DEF Propose
<1>2. ASSUME NEW j \in Jobs, NEW stage \in JobStages, NudgeStrategy(j) \/ RedoStrategy(j, stage) \/ AcceptPlan(j)
      PROVE  StrategyTypeOK'
  <2>1. PICK s \in JobStages : job' = [job EXCEPT ![j] = [job[j] EXCEPT !.stage = s]]
    BY <1>2, <1>a DEF NudgeStrategy, RedoStrategy, AcceptPlan, JobStages, Job
  <2> DEFINE k == [job[j] EXCEPT !.stage = s]
  <2>3. k \in Job /\ job' = [job EXCEPT ![j] = k]
    BY <2>1, <1>a, JobTyped
  <2>2. job' \in [Jobs -> Job]
    <3> HIDE DEF k
    <3> QED BY <2>3
  <2> QED BY <1>2, <2>2 DEF NudgeStrategy, RedoStrategy, AcceptPlan
<1>3. ASSUME NEW j \in Jobs, NEW i \in {j} \X {1, 2}, NEW intent \in Intents, DecideOnDashboard(j, i, intent)
      PROVE  StrategyTypeOK'
  <2>1. i \in Proposals
    BY DEF Proposals
  <2> QED BY <1>3, <2>1, DecideTyped DEF DecideOnDashboard
<1>4. ASSUME NEW j \in Jobs, NEW o \in Ops, Confirm(o, j) PROVE StrategyTypeOK'
  <2>1. job[j].proposal \in {1, 2}
    BY <1>4, <1>a DEF Confirm, Job
  <2>2. op' \in [Ops -> Operation]
    BY <1>4, <2>1 DEF Confirm, Operation
  <2> QED BY <1>4, <2>2 DEF Confirm
<1>5. ASSUME NEW c \in Changes, ProposeChange(c) PROVE StrategyTypeOK'
  BY <1>5, <1>a, ProposedTyped DEF ProposeChange
<1>6. ASSUME NEW c \in Changes, SupersedeChange(c) PROVE StrategyTypeOK'
  BY <1>6 DEF SupersedeChange
<1>7. ASSUME NEW c \in Changes, NEW intent \in Intents, DecideChange(c, intent) PROVE StrategyTypeOK'
  <2>1. change' \in [Changes -> {"none", "pending", "approved", "rejected", "superseded"}]
    BY <1>7, <1>b DEF DecideChange
  <2> QED BY <1>7, <1>a, <2>1, DecideTyped DEF DecideChange
<1>8. ASSUME NEW i \in Proposals, Expire(i) PROVE StrategyTypeOK'
  <2>1. proposal[i] \in Proposal /\ Intents \cup {None} # {}
    OBVIOUS
  <2>2. [proposal[i] EXCEPT !.expired = TRUE] \in Proposal
    BY <2>1 DEF Proposal
  <2> QED BY <1>8, <2>2 DEF Expire
<1>9. ASSUME NEW o \in Ops, ConfirmationExpires(o) \/ LeaseEnds(o) PROVE StrategyTypeOK'
  <2>1. \E k \in Operation : op' = [op EXCEPT ![o] = k]
    <3>1. \/ op' = [op EXCEPT ![o] = [op[o] EXCEPT !.expired = TRUE]]
          \/ op' = [op EXCEPT ![o] = [op[o] EXCEPT !.live = FALSE]]
      BY <1>9 DEF ConfirmationExpires, LeaseEnds, Operation
    <3> QED BY <3>1, OperationTyped, Zenon
  <2> QED BY <1>9, <2>1 DEF ConfirmationExpires, LeaseEnds
<1>10. ASSUME NEW h \in Handlers, NEW o \in Ops, NEW intent \in Intents, ClaimConfirmation(h, o, intent)
       PROVE  StrategyTypeOK'
  <2>1. op' \in [Ops -> Operation]
    <3>1. op' = [op EXCEPT ![o] = [op[o] EXCEPT !.state = "processing", !.intent = intent, !.live = TRUE]]
            \/ op' = op
      BY <1>10 DEF ClaimConfirmation, Operation
    <3>2. op' = op \/ \E k \in Operation : op' = [op EXCEPT ![o] = k]
      BY <3>1, OperationTyped, Zenon
    <3> QED BY <3>2
  <2>2. handler' \in [Handlers -> Request]
    BY <1>10 DEF ClaimConfirmation, Request
  <2> QED BY <1>10, <2>1, <2>2 DEF ClaimConfirmation
<1>11. ASSUME NEW h \in Handlers, NEW p \in {"decide", "finalize", "fail"}, Goes(h, p) \/ Leaves(h)
       PROVE  handler' \in [Handlers -> Request]
  <2>1. \/ handler' = [handler EXCEPT ![h] = [handler[h] EXCEPT !.pc = p]]
        \/ handler' = [handler EXCEPT ![h] = Away]
    BY <1>11 DEF Goes, Leaves, Request
  <2>2. \E k \in Request : handler' = [handler EXCEPT ![h] = k]
    BY <2>1, RequestTyped, Zenon
  <2> QED BY <2>2
<1>12. ASSUME NEW h \in Handlers, ReadProposal(h) PROVE StrategyTypeOK'
  BY <1>12, <1>11 DEF ReadProposal
<1>13. ASSUME NEW h \in Handlers, DecideConfirmed(h) PROVE StrategyTypeOK'
  <2> DEFINE i == op[handler[h].on].on
             intent == handler[h].intent
  <2>1. handler[h].on \in Ops /\ intent \in Intents /\ i \in Jobs \X {1, 2}
    BY <1>13 DEF DecideConfirmed, Underway
  <2>2. i \in Proposals /\ i[1] \in Jobs
    BY <2>1 DEF Proposals
  <2>3. CASE /\ Decide(i, intent) /\ JobDecided(i[1], intent) /\ Goes(h, "finalize")
             /\ UNCHANGED <<change, op, scope>>
    BY <2>1, <2>2, <2>3, <1>11, DecideTyped
  <2>4. CASE /\ Goes(h, "finalize") \/ Goes(h, "fail") \/ Leaves(h)
             /\ UNCHANGED <<active, proposal, job, change, op, scope>>
    BY <2>4, <1>11
  <2> QED BY <1>13, <2>3, <2>4 DEF DecideConfirmed
<1>14. ASSUME NEW h \in Handlers, FinalizeConfirmation(h) \/ FailConfirmation(h) PROVE StrategyTypeOK'
  <2>1. PICK s \in {"approved", "rejected", "failed"} :
          op' = [op EXCEPT ![handler[h].on] =
                   IF @.state = "processing" THEN [@ EXCEPT !.state = s, !.live = FALSE] ELSE @]
    BY <1>14, <1>b DEF FinalizeConfirmation, FailConfirmation, Conclude, Underway
  <2>2. handler[h].on \in Ops
    BY <1>14 DEF FinalizeConfirmation, FailConfirmation, Conclude, Underway
  <2> DEFINE o == handler[h].on
             k == IF op[o].state = "processing" THEN [op[o] EXCEPT !.state = s, !.live = FALSE] ELSE op[o]
  <2>3. op' = [op EXCEPT ![o] = k] /\ k \in Operation
    BY <2>1, <2>2, OperationTyped
  <2>4. op' \in [Ops -> Operation]
    <3> HIDE DEF k
    <3> QED BY <2>3
  <2>5. handler' \in [Handlers -> Request]
    BY <1>14, <1>11 DEF FinalizeConfirmation, FailConfirmation, Conclude
  <2> QED BY <1>14, <2>4, <2>5 DEF FinalizeConfirmation, FailConfirmation, Conclude
<1>15. ASSUME NEW h \in Handlers, Abandon(h) PROVE StrategyTypeOK'
  BY <1>15, <1>11 DEF Abandon
<1>16. CASE UNCHANGED strategyVars
  BY <1>16 DEF strategyVars
<1> QED BY <1>1, <1>2, <1>3, <1>4, <1>5, <1>6, <1>7, <1>8, <1>9, <1>10, <1>12, <1>13, <1>14, <1>15, <1>16
        DEF StrategyNext, StrategyStep, Decisions, JobStages

----------------------------------------------------------------------------
(* A confirmation says what happened.                                       *)

\* An approval of proposal i can no longer count: it was decided otherwise,
\* its window is over, the pointer has moved, or the job proposes another.
Hopeless(i, intent) ==
  /\ proposal[i].approval # intent
  /\ \/ proposal[i].approval # None \/ proposal[i].expired
     \/ active # proposal[i].base \/ job[i[1]].proposal # i[2]

\* The proposal in force exists, no proposal was made against a revision to
\* come, and the approved proposal of a job stays the one in force, because the
\* job has its strategy.
Approvals ==
  /\ \A j \in Jobs, n \in {1, 2} : job[j].proposal = n => proposal[<<j, n>>].there
  /\ \A i \in Proposals : proposal[i].base <= active
  /\ \A j \in Jobs, n \in {1, 2} :
       proposal[<<j, n>>].approval # None /\ proposal[<<j, n>>].approval.verdict = "approved"
         => job[j].ref # 0 /\ job[j].proposal = n

\* What a request is about to write is so.
RequestAnswered(h) ==
  LET i == op[handler[h].on].on
      intent == handler[h].intent
  IN  /\ handler[h].pc = "finalize" => proposal[i].approval = intent
      /\ handler[h].pc = "fail" /\ intent.verdict = "approved" => Hopeless(i, intent)

\* What a confirmation says is so.
ConfirmationAnswered(o) ==
  /\ op[o].state \in {"approved", "rejected"} =>
       op[o].intent \in Intents /\ proposal[op[o].on].approval = op[o].intent
  /\ op[o].state = "failed" =>
       /\ op[o].intent \in Intents
       /\ op[o].intent.verdict = "approved" => Hopeless(op[o].on, op[o].intent)

Answered ==
  /\ \A h \in Handlers : RequestAnswered(h)
  /\ \A o \in Ops : ConfirmationAnswered(o)

ConfirmationInv == StrategyTypeOK /\ Underway /\ Approvals /\ Answered

\* What a step may not do to a proposal that exists.
Kept(i) ==
  /\ proposal'[i].there
  /\ proposal[i].approval # None => proposal'[i].approval = proposal[i].approval
  /\ \A intent \in Intents :
       intent.verdict = "approved" /\ Hopeless(i, intent) => Hopeless(i, intent)'

\* A decision is taken of the proposal in force, undecided, in its window and,
\* if it approves, against the active revision.
LEMMA DecidedWhen ==
  ASSUME StrategyTypeOK, NEW j \in Jobs, NEW i \in {j} \X {1, 2}, NEW intent \in Intents,
         Outcome(j, i, intent) = "decided"
  PROVE  /\ i = <<j, job[j].proposal>> /\ proposal[i].approval = None /\ ~proposal[i].expired
         /\ intent.verdict = "approved" => active = proposal[i].base
         /\ job[j].stage = "awaiting"
BY DEF Outcome, Refused

\* A decision keeps every proposal of a job, those it does not decide too.
LEMMA DecisionKeeps ==
  ASSUME ConfirmationInv, NEW k \in Proposals, NEW intent \in Intents, Decide(k, intent),
         k \in Jobs \X {1, 2} =>
           /\ proposal[k].approval = None /\ ~proposal[k].expired
           /\ intent.verdict = "approved" => active = proposal[k].base
           /\ k[2] = job[k[1]].proposal,
         \A j \in Jobs : job'[j].proposal = job[j].proposal
  PROVE  /\ \A i \in Jobs \X {1, 2} : proposal[i].there => Kept(i)
         /\ \A i \in Proposals : proposal'[i].base <= active'
<1> USE DEF ConfirmationInv
<1>1. /\ active \in Nat /\ active' \in {active, active + 1}
      /\ intent.verdict # "approved" => active' = active
      /\ intent \in Intents /\ intent # None
      /\ intent.verdict \in {"approved", "rejected"}
  BY StrategyAssumption DEF Decide, StrategyTypeOK, Strategies
<1>2. \A i \in Proposals :
        /\ proposal[i] \in Proposal
        /\ proposal'[i].there = proposal[i].there /\ proposal'[i].base = proposal[i].base
        /\ proposal'[i].expired = proposal[i].expired
        /\ proposal'[i].approval = IF i = k THEN intent ELSE proposal[i].approval
        /\ proposal[i].base \in Nat /\ proposal[i].base <= active
  BY StrategyAssumption DEF Decide, StrategyTypeOK, Strategies, Proposal, Approvals
<1>3. \A i \in Proposals : proposal'[i].base <= active'
  BY <1>1, <1>2
<1>4. ASSUME NEW i \in Jobs \X {1, 2}, proposal[i].there PROVE Kept(i)
  <2>1. i \in Proposals /\ i[1] \in Jobs
    BY DEF Proposals
  <2>2. ASSUME NEW other \in Intents, other.verdict = "approved", Hopeless(i, other)
        PROVE  Hopeless(i, other)'
    <3>1. CASE i = k
      <4>1. active # proposal[i].base
        BY <2>1, <2>2, <3>1 DEF Hopeless
      <4>2. intent.verdict = "rejected"
        BY <1>1, <3>1, <4>1
      <4>3. proposal'[i].approval # None /\ proposal'[i].approval # other
        BY <1>1, <1>2, <2>1, <2>2, <3>1, <4>2
      <4> QED BY <4>3 DEF Hopeless
    <3>2. CASE i # k
      <4>1. proposal'[i].approval = proposal[i].approval
        BY <1>2, <2>1, <3>2
      <4>2. active # proposal[i].base => active' # proposal'[i].base
        BY <1>1, <1>2, <2>1
      <4> QED BY <1>2, <2>1, <2>2, <4>1, <4>2 DEF Hopeless
    <3> QED BY <3>1, <3>2
  <2>3. proposal[i].approval # None => proposal'[i].approval = proposal[i].approval
    BY <1>2, <2>1 DEF Kept
  <2>4. proposal'[i].there
    BY <1>2, <1>4, <2>1
  <2> QED BY <2>2, <2>3, <2>4 DEF Kept
<1> QED BY <1>3, <1>4

\* A step that leaves the pointer and the decisions alone, and closes no window
\* again, keeps a proposal of a job that is not put in force by it.
LEMMA QuietKeeps ==
  ASSUME StrategyTypeOK, NEW i \in Jobs \X {1, 2}, proposal[i].there, active' = active,
         proposal'[i].there, proposal'[i].approval = proposal[i].approval,
         proposal'[i].base = proposal[i].base, proposal[i].expired => proposal'[i].expired,
         job'[i[1]].proposal = job[i[1]].proposal \/ job'[i[1]].proposal # i[2]
  PROVE  Kept(i)
<1>1. ASSUME NEW intent \in Intents, Hopeless(i, intent) PROVE Hopeless(i, intent)'
  BY <1>1 DEF Hopeless
<1> QED BY <1>1 DEF Kept

\* No step of the authority forgets a proposal or a decision, or makes an
\* approval possible again that was not.
LEMMA KeptStep ==
  ASSUME ConfirmationInv, [StrategyNext]_strategyVars
  PROVE  /\ \A i \in Jobs \X {1, 2} : proposal[i].there => Kept(i)
         /\ \A i \in Proposals : proposal'[i].base <= active'
<1> DEFINE Goal == /\ \A i \in Jobs \X {1, 2} : proposal[i].there => Kept(i)
                   /\ \A i \in Proposals : proposal'[i].base <= active'
<1> SUFFICES Goal
  OBVIOUS
<1> USE DEF ConfirmationInv
<1>a. /\ \A i \in Proposals : proposal[i] \in Proposal /\ proposal[i].base \in Nat
                                /\ proposal[i].base <= active
      /\ active \in Nat
      /\ \A j \in Jobs : job[j] \in Job
  BY StrategyAssumption DEF StrategyTypeOK, Strategies, Proposal, Approvals
<1>b. /\ \A j \in Jobs, n \in {1, 2} : <<j, n>> \in Proposals
      /\ \A c \in Changes : <<c, 1>> \in Proposals /\ <<c, 1>> \notin Jobs \X {1, 2}
      /\ \A i \in Jobs \X {1, 2} : i \in Proposals /\ i[1] \in Jobs /\ i = <<i[1], i[2]>>
  BY StrategyAssumption DEF Proposals
<1>1. ASSUME NEW j \in Jobs, Propose(j)
      PROVE  Goal
  <2> DEFINE k == <<j, job[j].attempt>>
  <2>1. /\ k \in Proposals /\ ~proposal[k].there /\ active' = active
        /\ \A i \in Proposals : proposal'[i] = IF i = k THEN Proposed ELSE proposal[i]
        /\ \A m \in Jobs : job'[m].proposal = IF m = j THEN job[j].attempt ELSE job[m].proposal
    BY <1>1, <1>a, <1>b DEF Propose, StrategyTypeOK, Job
  <2>2. ASSUME NEW i \in Jobs \X {1, 2}, proposal[i].there PROVE Kept(i)
    <3>1. i # k /\ proposal'[i] = proposal[i]
      BY <2>1, <2>2, <1>b
    <3>2. job'[i[1]].proposal = job[i[1]].proposal \/ job'[i[1]].proposal # i[2]
      BY <2>1, <3>1, <1>b
    <3> HIDE DEF k
    <3> QED BY <2>1, <2>2, <3>1, <3>2, QuietKeeps
  <2>3. \A i \in Proposals : proposal'[i].base <= active'
    BY <2>1, <1>a DEF Proposed
  <2> QED BY <2>2, <2>3
<1>2. ASSUME UNCHANGED <<active, proposal>>, \A j \in Jobs : job'[j].proposal = job[j].proposal
      PROVE  Goal
  BY <1>2, <1>a, <1>b, QuietKeeps
<1>3. ASSUME NEW j \in Jobs, NEW stage \in JobStages, NudgeStrategy(j) \/ RedoStrategy(j, stage) \/ AcceptPlan(j)
      PROVE  UNCHANGED <<active, proposal>> /\ \A m \in Jobs : job'[m].proposal = job[m].proposal
  BY <1>3, <1>a DEF NudgeStrategy, RedoStrategy, AcceptPlan, StrategyTypeOK, Job
<1>4. ASSUME NEW j \in Jobs, NEW intent, JobDecided(j, intent)
      PROVE  \A m \in Jobs : job'[m].proposal = job[m].proposal
  BY <1>4, <1>a DEF JobDecided, StrategyTypeOK, Job
<1>5. ASSUME NEW j \in Jobs, NEW i \in {j} \X {1, 2}, NEW intent \in Intents,
             Outcome(j, i, intent) = "decided", Decide(i, intent), JobDecided(j, intent)
      PROVE  Goal
  <2>1. i \in Proposals /\ i[1] = j
    BY DEF Proposals
  <2>2. /\ i[2] = job[i[1]].proposal /\ proposal[i].approval = None /\ ~proposal[i].expired
        /\ intent.verdict = "approved" => active = proposal[i].base
    BY <1>5, <2>1, DecidedWhen
  <2>3. \A m \in Jobs : job'[m].proposal = job[m].proposal
    BY <1>4, <1>5
  <2> QED BY <1>5, <2>1, <2>2, <2>3, DecisionKeeps
<1>6. ASSUME NEW c \in Changes, NEW intent \in Intents, DecideChange(c, intent)
      PROVE  Goal
  <2> DEFINE k == <<c, 1>>
  <2>1. k \in Proposals /\ k \notin Jobs \X {1, 2}
    BY <1>b
  <2>2. Decide(k, intent) /\ \A m \in Jobs : job'[m].proposal = job[m].proposal
    BY <1>6 DEF DecideChange
  <2> HIDE DEF k
  <2> QED BY <2>1, <2>2, DecisionKeeps
<1>7. ASSUME NEW c \in Changes, ProposeChange(c)
      PROVE  Goal
  <2>1. /\ UNCHANGED <<active, job>>
        /\ \A i \in Proposals : proposal'[i] = IF i = <<c, 1>> THEN Proposed ELSE proposal[i]
    BY <1>7, <1>b DEF ProposeChange, StrategyTypeOK
  <2>2. \A i \in Jobs \X {1, 2} : proposal'[i] = proposal[i]
    BY <2>1, <1>b
  <2>3. \A i \in Jobs \X {1, 2} : proposal[i].there => Kept(i)
    BY <2>1, <2>2, <1>b, QuietKeeps
  <2> QED BY <2>1, <2>3, <1>a DEF Proposed
<1>8. ASSUME NEW k \in Proposals, Expire(k)
      PROVE  Goal
  <2>1. /\ UNCHANGED <<active, job>>
        /\ \A i \in Proposals : /\ proposal'[i].there = proposal[i].there
                                /\ proposal'[i].approval = proposal[i].approval
                                /\ proposal'[i].base = proposal[i].base
                                /\ proposal[i].expired => proposal'[i].expired
    BY <1>8, <1>a DEF Expire, StrategyTypeOK, Proposal
  <2>2. \A i \in Jobs \X {1, 2} : proposal[i].there => Kept(i)
    BY <2>1, <1>b, QuietKeeps
  <2> QED BY <2>1, <2>2, <1>a
<1>9. ASSUME NEW h \in Handlers, DecideConfirmed(h)
      PROVE  Goal
  <2> DEFINE i == op[handler[h].on].on
             intent == handler[h].intent
  <2>1. /\ handler[h].on \in Ops /\ intent \in Intents /\ i \in Jobs \X {1, 2}
        /\ i[1] \in Jobs /\ i \in {i[1]} \X {1, 2}
    BY <1>9, <1>b DEF DecideConfirmed, Underway
  <2>2. \/ Outcome(i[1], i, intent) = "decided" /\ Decide(i, intent) /\ JobDecided(i[1], intent)
        \/ UNCHANGED <<active, proposal, job>>
    BY <1>9 DEF DecideConfirmed
  <2>3. CASE UNCHANGED <<active, proposal, job>>
    BY <2>3, <1>2
  <2> HIDE DEF i, intent
  <2>4. CASE Outcome(i[1], i, intent) = "decided" /\ Decide(i, intent) /\ JobDecided(i[1], intent)
    <3>1. PICK j \in Jobs : j = i[1] /\ i \in {j} \X {1, 2}
      BY <2>1
    <3>2. Outcome(j, i, intent) = "decided" /\ Decide(i, intent) /\ JobDecided(j, intent)
      BY <2>4, <3>1
    <3> QED BY <2>1, <3>1, <3>2, <1>5, Zenon
  <2> QED BY <2>2, <2>3, <2>4
<1>10. CASE UNCHANGED <<active, proposal, job>>
  BY <1>10, <1>2
<1>11. ASSUME NEW j \in Jobs, NEW o \in Ops, Confirm(o, j) PROVE UNCHANGED <<active, proposal, job>>
  BY <1>11 DEF Confirm
<1>12. ASSUME NEW c \in Changes, SupersedeChange(c) PROVE UNCHANGED <<active, proposal, job>>
  BY <1>12 DEF SupersedeChange
<1>13. ASSUME NEW o \in Ops, ConfirmationExpires(o) \/ LeaseEnds(o)
       PROVE  UNCHANGED <<active, proposal, job>>
  BY <1>13 DEF ConfirmationExpires, LeaseEnds
<1>14. ASSUME NEW h \in Handlers,
              \/ \E o \in Ops, intent \in Decisions : ClaimConfirmation(h, o, intent)
              \/ ReadProposal(h) \/ Abandon(h)
       PROVE  UNCHANGED <<active, proposal, job>>
  BY <1>14 DEF ClaimConfirmation, ReadProposal, Abandon
<1>15. ASSUME NEW h \in Handlers, FinalizeConfirmation(h) \/ FailConfirmation(h)
       PROVE  UNCHANGED <<active, proposal, job>>
  BY <1>15 DEF FinalizeConfirmation, FailConfirmation, Conclude
<1>16. ASSUME NEW j \in Jobs, NEW i \in {j} \X {1, 2}, NEW intent \in Intents, DecideOnDashboard(j, i, intent)
       PROVE  Goal
  BY <1>16, <1>5 DEF DecideOnDashboard
<1>17. UNCHANGED strategyVars => UNCHANGED <<active, proposal, job>>
  BY DEF strategyVars
<1>18. ASSUME NEW j \in Jobs, NEW stage \in JobStages, NudgeStrategy(j) \/ RedoStrategy(j, stage) \/ AcceptPlan(j)
       PROVE  Goal
  BY <1>18, <1>3, <1>2
<1> QED BY <1>1, <1>18, <1>6, <1>7, <1>8, <1>9, <1>10, <1>11, <1>12, <1>13, <1>14, <1>15, <1>16, <1>17
        DEF StrategyNext, StrategyStep, Decisions, JobStages

\* A step of a job or a decision keeps the proposal in force and the approved one.
LEMMA ApprovalsStep ==
  ASSUME ConfirmationInv, [StrategyNext]_strategyVars
  PROVE  Approvals'
<1> USE DEF ConfirmationInv
<1>k. /\ \A i \in Jobs \X {1, 2} : proposal[i].there => Kept(i)
      /\ \A i \in Proposals : proposal'[i].base <= active'
  BY KeptStep
<1>a. /\ \A j \in Jobs : job[j] \in Job
      /\ \A i \in Proposals : proposal[i] \in Proposal
      /\ active \in Nat
  BY StrategyAssumption DEF StrategyTypeOK, Strategies
<1>b. /\ \A j \in Jobs, n \in {1, 2} : <<j, n>> \in Proposals
      /\ \A c \in Changes : <<c, 1>> \in Proposals
      /\ \A j \in Jobs, n \in {1, 2}, c \in Changes : <<j, n>> # <<c, 1>>
      /\ \A j \in Jobs, n \in {1, 2}, m \in Jobs, o \in {1, 2} : <<j, n>> = <<m, o>> <=> j = m /\ n = o
  BY StrategyAssumption DEF Proposals
<1>c. \A intent \in Intents : intent # None /\ intent.verdict \in {"approved", "rejected"}
  BY StrategyAssumption
<1>d. \A j \in Jobs, n \in {1, 2} :
        /\ job[j].proposal = n => proposal[<<j, n>>].there
        /\ proposal[<<j, n>>].approval # None /\ proposal[<<j, n>>].approval.verdict = "approved"
             => job[j].ref # 0 /\ job[j].proposal = n
  BY DEF Approvals
\* The approved proposals of a job are those it had, and it keeps what they gave it.
<1> DEFINE Pinned == \A j \in Jobs, n \in {1, 2} :
      proposal'[<<j, n>>].approval # None /\ proposal'[<<j, n>>].approval.verdict = "approved"
        => job'[j].ref # 0 /\ job'[j].proposal = n
           InForce == \A j \in Jobs, n \in {1, 2} : job'[j].proposal = n => proposal'[<<j, n>>].there
<1>1. ASSUME NEW j \in Jobs, Propose(j) PROVE Pinned /\ InForce
  <2> DEFINE k == <<j, job[j].attempt>>
  <2>a. job[j].attempt \in {1, 2} /\ k \in Proposals
    BY <1>a, <1>b DEF Job
  <2>b. \A i \in Proposals : proposal'[i] = IF i = k THEN Proposed ELSE proposal[i]
    BY <1>1, <1>a DEF Propose, StrategyTypeOK
  <2>c. \A m \in Jobs : /\ job'[m].proposal = IF m = j THEN job[j].attempt ELSE job[m].proposal
                        /\ job'[m].ref = job[m].ref
    BY <1>1, <1>a DEF Propose, StrategyTypeOK, Job
  <2>1. job[j].ref = 0
    BY <1>1 DEF Propose
  <2>2. ASSUME NEW m \in Jobs, NEW n \in {1, 2}
        PROVE  /\ job'[m].proposal = n => proposal'[<<m, n>>].there
               /\ proposal'[<<m, n>>].approval # None /\ proposal'[<<m, n>>].approval.verdict = "approved"
                    => job'[m].ref # 0 /\ job'[m].proposal = n
    <3>1. <<m, n>> \in Proposals /\ (<<m, n>> = k <=> m = j /\ n = job[j].attempt)
      BY <1>b, <2>a
    <3> HIDE DEF k
    <3>2. CASE m = j /\ n = job[j].attempt
      <4>1. proposal'[<<m, n>>] = Proposed
        BY <2>b, <3>1, <3>2
      <4> QED BY <4>1, <2>c, <3>2 DEF Proposed
    <3>3. CASE ~(m = j /\ n = job[j].attempt)
      <4>1. proposal'[<<m, n>>] = proposal[<<m, n>>]
        BY <2>b, <3>1, <3>3
      <4>2. /\ job[m].proposal = n => proposal[<<m, n>>].there
            /\ proposal[<<m, n>>].approval # None /\ proposal[<<m, n>>].approval.verdict = "approved"
                 => job[m].ref # 0 /\ job[m].proposal = n
        BY <1>d
      <4>3. /\ job'[m].ref = job[m].ref
            /\ job'[m].proposal = IF m = j THEN job[j].attempt ELSE job[m].proposal
        BY <2>c
      <4> QED BY <4>1, <4>2, <4>3, <2>1, <3>3
    <3> QED BY <3>2, <3>3
  <2>3. Pinned
    BY <2>2
  <2>4. InForce
    BY <2>2
  <2> QED BY <2>3, <2>4
<1>2. ASSUME NEW j \in Jobs, NEW i \in {j} \X {1, 2}, NEW intent \in Intents,
             Outcome(j, i, intent) = "decided", Decide(i, intent), JobDecided(j, intent)
      PROVE  Pinned /\ InForce
  <2>a. i = <<j, job[j].proposal>>
    BY <1>2, DecidedWhen
  <2>1. i = <<j, job[j].proposal>> /\ i \in Proposals /\ job[j].proposal \in {1, 2}
    BY <2>a, <1>b
  <2>2. \A k \in Proposals : /\ proposal'[k].approval = IF k = i THEN intent ELSE proposal[k].approval
                             /\ proposal'[k].there = proposal[k].there
    BY <1>2, <1>a, <2>1 DEF Decide, StrategyTypeOK, Proposal
  <2>8. \A m \in Jobs : job'[m].proposal = job[m].proposal
    BY <1>2, <1>a DEF JobDecided, StrategyTypeOK, Job
  <2>9. \A m \in Jobs : m # j => job'[m].ref = job[m].ref
    BY <1>2, <1>a DEF JobDecided, StrategyTypeOK, Job
  <2>7. job'[j].ref = IF intent.verdict = "approved" THEN active + 1 ELSE job[j].ref
    BY <1>2, <1>a DEF JobDecided, StrategyTypeOK, Job
  <2>6. proposal[i].there
    BY <2>1, <1>d
  <2>5. ASSUME NEW m \in Jobs, NEW n \in {1, 2}
        PROVE  /\ job'[m].proposal = n => proposal'[<<m, n>>].there
               /\ proposal'[<<m, n>>].approval # None /\ proposal'[<<m, n>>].approval.verdict = "approved"
                    => job'[m].ref # 0 /\ job'[m].proposal = n
    <3>1. <<m, n>> \in Proposals /\ (<<m, n>> = i <=> m = j /\ n = job[j].proposal)
      BY <1>b, <2>1
    <3>2. CASE <<m, n>> = i
      <4>1. m = j /\ n = job[j].proposal /\ job'[m].proposal = n
        BY <2>8, <3>1, <3>2
      <4>2. proposal'[<<m, n>>].there /\ proposal'[<<m, n>>].approval = intent
        BY <2>2, <2>6, <3>1, <3>2
      <4>3. intent.verdict = "approved" => job'[m].ref # 0
        BY <2>7, <4>1, <1>a
      <4> QED BY <4>1, <4>2, <4>3
    <3>3. CASE <<m, n>> # i
      <4>2. /\ job[m].proposal = n => proposal[<<m, n>>].there
            /\ proposal[<<m, n>>].approval # None /\ proposal[<<m, n>>].approval.verdict = "approved"
                 => job[m].ref # 0 /\ job[m].proposal = n
        BY <1>d
      <4>3. /\ proposal'[<<m, n>>].approval = proposal[<<m, n>>].approval
            /\ proposal'[<<m, n>>].there = proposal[<<m, n>>].there
        BY <2>2, <3>1, <3>3
      <4>4. job'[m].proposal = job[m].proposal
        BY <2>8
      <4>5. job[m].ref # 0 => job'[m].ref # 0
        <5>1. CASE m = j
          BY <2>7, <5>1, <1>a
        <5>2. CASE m # j
          BY <2>9, <5>2
        <5> QED BY <5>1, <5>2
      <4> QED BY <4>2, <4>3, <4>4, <4>5
    <3> QED BY <3>2, <3>3
  <2>3. Pinned
    BY <2>5
  <2>4. InForce
    BY <2>5
  <2> QED BY <2>3, <2>4
<1>3. ASSUME \A j \in Jobs, n \in {1, 2} :
               /\ proposal'[<<j, n>>].there = proposal[<<j, n>>].there
               /\ proposal'[<<j, n>>].approval = proposal[<<j, n>>].approval,
             \A j \in Jobs : job'[j].proposal = job[j].proposal /\ job'[j].ref = job[j].ref
      PROVE  Pinned /\ InForce
  BY <1>3, <1>d
<1>4. ASSUME NEW j \in Jobs, NEW stage \in JobStages, NudgeStrategy(j) \/ RedoStrategy(j, stage) \/ AcceptPlan(j)
      PROVE  Pinned /\ InForce
  <2>1. /\ UNCHANGED proposal
        /\ \A m \in Jobs : job'[m].proposal = job[m].proposal /\ job'[m].ref = job[m].ref
    BY <1>4, <1>a DEF NudgeStrategy, RedoStrategy, AcceptPlan, StrategyTypeOK, Job
  <2> QED BY <2>1, <1>3
<1>5. ASSUME NEW c \in Changes, ProposeChange(c) \/ \E intent \in Intents : DecideChange(c, intent)
      PROVE  Pinned /\ InForce
  <2>1. UNCHANGED job /\ \A i \in Proposals : i # <<c, 1>> => proposal'[i] = proposal[i]
    BY <1>5, <1>b DEF ProposeChange, DecideChange, Decide, StrategyTypeOK
  <2> QED BY <2>1, <1>3, <1>b
<1>6. ASSUME NEW i \in Proposals, Expire(i) PROVE Pinned /\ InForce
  <2>1. UNCHANGED job /\ \A k \in Proposals : /\ proposal'[k].there = proposal[k].there
                                              /\ proposal'[k].approval = proposal[k].approval
    BY <1>6, <1>a DEF Expire, StrategyTypeOK, Proposal
  <2> QED BY <2>1, <1>3, <1>b
<1>7. ASSUME NEW h \in Handlers, DecideConfirmed(h) PROVE Pinned /\ InForce
  <2>1. /\ handler[h].on \in Ops /\ handler[h].intent \in Intents
        /\ op[handler[h].on].on \in Jobs \X {1, 2}
    BY <1>7 DEF DecideConfirmed, Underway
  <2>2. PICK j \in Jobs : j = op[handler[h].on].on[1] /\ op[handler[h].on].on \in {j} \X {1, 2}
    BY <2>1
  <2>6. PICK i \in {j} \X {1, 2}, intent \in Intents :
          i = op[handler[h].on].on /\ intent = handler[h].intent
    BY <2>1, <2>2
  <2>3. \/ Outcome(j, i, intent) = "decided" /\ Decide(i, intent) /\ JobDecided(j, intent)
        \/ UNCHANGED <<proposal, job>>
    BY <1>7, <2>2, <2>6 DEF DecideConfirmed
  <2>4. CASE UNCHANGED <<proposal, job>>
    BY <2>4, <1>3
  <2>5. CASE Outcome(j, i, intent) = "decided" /\ Decide(i, intent) /\ JobDecided(j, intent)
    BY <2>5, <1>2
  <2> QED BY <2>3, <2>4, <2>5
<1>8. ASSUME NEW j \in Jobs, NEW i \in {j} \X {1, 2}, NEW intent \in Intents, DecideOnDashboard(j, i, intent)
      PROVE  Pinned /\ InForce
  BY <1>8, <1>2 DEF DecideOnDashboard
<1>9. ASSUME UNCHANGED <<proposal, job>> PROVE Pinned /\ InForce
  <2>1. \A j \in Jobs : job'[j].proposal = job[j].proposal /\ job'[j].ref = job[j].ref
    BY <1>9
  <2>2. \A j \in Jobs, n \in {1, 2} : /\ proposal'[<<j, n>>].there = proposal[<<j, n>>].there
                                      /\ proposal'[<<j, n>>].approval = proposal[<<j, n>>].approval
    BY <1>9
  <2> QED BY <2>1, <2>2, <1>3
<1>10. ASSUME NEW o \in Ops, \/ \E j \in Jobs : Confirm(o, j)
                             \/ ConfirmationExpires(o) \/ LeaseEnds(o)
       PROVE  UNCHANGED <<proposal, job>>
  BY <1>10 DEF Confirm, ConfirmationExpires, LeaseEnds
<1>11. ASSUME NEW c \in Changes, SupersedeChange(c) PROVE UNCHANGED <<proposal, job>>
  BY <1>11 DEF SupersedeChange
<1>12. ASSUME NEW h \in Handlers,
              \/ \E o \in Ops, intent \in Decisions : ClaimConfirmation(h, o, intent)
              \/ ReadProposal(h) \/ FinalizeConfirmation(h) \/ FailConfirmation(h) \/ Abandon(h)
       PROVE  UNCHANGED <<proposal, job>>
  BY <1>12 DEF ClaimConfirmation, ReadProposal, FinalizeConfirmation, FailConfirmation, Conclude, Abandon
<1>13. UNCHANGED strategyVars => UNCHANGED <<proposal, job>>
  BY DEF strategyVars
<1>14. Pinned /\ InForce
  BY <1>1, <1>4, <1>5, <1>6, <1>7, <1>8, <1>9, <1>10, <1>11, <1>12, <1>13
     DEF StrategyNext, StrategyStep, Decisions, JobStages
<1> QED BY <1>14, <1>k DEF Approvals

\* What a request and a confirmation hold of each other, step by step.
LEMMA UnderwayStep ==
  ASSUME ConfirmationInv, [StrategyNext]_strategyVars
  PROVE  Underway'
<1> USE DEF ConfirmationInv
<1>k. \A i \in Jobs \X {1, 2} : proposal[i].there => proposal'[i].there
  BY KeptStep DEF Kept
<1>c. \A intent \in Intents : intent # None
  BY StrategyAssumption
<1>o. \A o \in Ops : op[o].state # "none" => op[o].on \in Jobs \X {1, 2} /\ proposal[op[o].on].there
  BY DEF Underway
<1>h. \A h \in Handlers : handler[h].pc # "idle" =>
        /\ handler[h].on \in Ops /\ handler[h].intent \in Intents
        /\ op[handler[h].on].state # "none"
        /\ op[handler[h].on].intent = handler[h].intent
  BY DEF Underway
<1>1. ASSUME UNCHANGED op,
             \A h \in Handlers : \/ handler'[h].pc = "idle"
                                 \/ /\ handler[h].pc # "idle"
                                    /\ handler'[h].on = handler[h].on /\ handler'[h].intent = handler[h].intent
      PROVE  Underway'
  BY <1>1, <1>k, <1>o, <1>h DEF Underway
<1>2. ASSUME NEW h \in Handlers, NEW p \in {"decide", "finalize", "fail"},
             UNCHANGED op, handler[h].pc # "idle", Goes(h, p) \/ Leaves(h)
      PROVE  Underway'
  <2>1. \A g \in Handlers : \/ handler'[g].pc = "idle"
                             \/ /\ handler[g].pc # "idle"
                                /\ handler'[g].on = handler[g].on /\ handler'[g].intent = handler[g].intent
    BY <1>2, <1>h DEF Goes, Leaves, Away, StrategyTypeOK, Request
  <2> QED BY <2>1, <1>1, <1>2
<1>3. ASSUME NEW o \in Ops, NEW j \in Jobs, Confirm(o, j) PROVE Underway'
  <2>1. job[j].proposal \in {1, 2}
    BY <1>3 DEF Confirm, StrategyTypeOK, Job
  <2>2. <<j, job[j].proposal>> \in Jobs \X {1, 2} /\ proposal[<<j, job[j].proposal>>].there
    BY <2>1 DEF Approvals
  <2>3. /\ op[o].state = "none" /\ UNCHANGED handler
        /\ \A q \in Ops : op'[q] = IF q = o THEN [state |-> "pending", on |-> <<j, job[j].proposal>>,
                                                   intent |-> None, live |-> FALSE, expired |-> FALSE]
                                   ELSE op[q]
    BY <1>3 DEF Confirm, StrategyTypeOK
  <2>4. \A q \in Ops : op'[q].state # "none" => op'[q].on \in Jobs \X {1, 2} /\ proposal'[op'[q].on].there
    BY <2>2, <2>3, <1>k, <1>o
  <2>5. \A h \in Handlers : handler[h].pc # "idle" => handler[h].on # o
    BY <2>3, <1>h
  <2> QED BY <2>3, <2>4, <2>5, <1>h DEF Underway
\* A step that writes one confirmation, and neither its proposal nor a decision.
<1>4. ASSUME NEW o \in Ops, UNCHANGED handler, op[o].state # "none",
             \A q \in Ops \ {o} : op'[q] = op[q],
             op'[o].state # "none", op'[o].on = op[o].on, op'[o].intent = op[o].intent
      PROVE  Underway'
  <2>1. \A q \in Ops : op'[q].state # "none" => op'[q].on \in Jobs \X {1, 2} /\ proposal'[op'[q].on].there
    BY <1>4, <1>k, <1>o
  <2>2. \A q \in Ops : op[q].state # "none" => op'[q].state # "none" /\ op'[q].intent = op[q].intent
    BY <1>4
  <2> QED BY <1>4, <2>1, <2>2, <1>h DEF Underway
<1>5. ASSUME NEW o \in Ops, ConfirmationExpires(o) \/ LeaseEnds(o) PROVE Underway'
  <2>1. /\ op[o].state # "none" /\ op'[o].state # "none" /\ op'[o].on = op[o].on /\ op'[o].intent = op[o].intent
        /\ \A q \in Ops \ {o} : op'[q] = op[q]
        /\ UNCHANGED handler
    BY <1>5 DEF ConfirmationExpires, LeaseEnds, StrategyTypeOK, Operation
  <2> QED BY <2>1, <1>4
<1>6. ASSUME NEW h \in Handlers, NEW o \in Ops, NEW intent \in Intents, ClaimConfirmation(h, o, intent)
      PROVE  Underway'
  <2>1. /\ op[o].state # "none" /\ op'[o].state # "none" /\ op'[o].on = op[o].on /\ op'[o].intent = intent
        /\ op[o].intent \in {None, intent}
        /\ \A q \in Ops \ {o} : op'[q] = op[q]
    <3>1. intent.verdict \in {"approved", "rejected"}
      BY StrategyAssumption
    <3> QED BY <1>6, <3>1 DEF ClaimConfirmation, Claimable, StrategyTypeOK, Operation
  <2>2. \A g \in Handlers : handler'[g] = IF g = h THEN [pc |-> "read", on |-> o, intent |-> intent] ELSE handler[g]
    BY <1>6 DEF ClaimConfirmation, StrategyTypeOK
  <2>3. \A q \in Ops : op'[q].state # "none" => op'[q].on \in Jobs \X {1, 2} /\ proposal'[op'[q].on].there
    BY <2>1, <1>k, <1>o
  <2>4. \A g \in Handlers : handler[g].pc # "idle" =>
          op'[handler[g].on].state # "none" /\ op'[handler[g].on].intent = handler[g].intent
    BY <2>1, <1>h, <1>c
  <2>5. \A g \in Handlers : handler'[g].pc # "idle" =>
          /\ handler'[g].on \in Ops /\ handler'[g].intent \in Intents
          /\ op'[handler'[g].on].state # "none" /\ op'[handler'[g].on].intent = handler'[g].intent
    BY <2>1, <2>2, <2>4, <1>h
  <2> QED BY <2>3, <2>5 DEF Underway
<1>7. ASSUME NEW h \in Handlers, FinalizeConfirmation(h) \/ FailConfirmation(h) PROVE Underway'
  <2> DEFINE o == handler[h].on
  <2>1. handler[h].pc # "idle" /\ o \in Ops /\ op[o].state # "none" /\ handler[h].intent \in Intents
    BY <1>7, <1>h DEF FinalizeConfirmation, FailConfirmation, Conclude
  <2>a. PICK s \in {"approved", "rejected", "failed"} :
          op' = [op EXCEPT ![o] =
                   IF @.state = "processing" THEN [@ EXCEPT !.state = s, !.live = FALSE] ELSE @]
    <3>1. handler[h].intent.verdict \in {"approved", "rejected"}
      BY <2>1, StrategyAssumption
    <3> QED BY <1>7, <3>1 DEF FinalizeConfirmation, FailConfirmation, Conclude
  <2>b. op[o] \in Operation
    BY <2>1 DEF StrategyTypeOK
  <2>c. op'[o] = IF op[o].state = "processing" THEN [op[o] EXCEPT !.state = s, !.live = FALSE] ELSE op[o]
    BY <2>a, <2>1 DEF StrategyTypeOK
  <2>d. \A k \in Operation : LET m == [k EXCEPT !.state = s, !.live = FALSE] IN
          m.state = s /\ m.on = k.on /\ m.intent = k.intent
    BY DEF Operation
  <2>2. /\ op'[o].state # "none" /\ op'[o].on = op[o].on /\ op'[o].intent = op[o].intent
        /\ \A q \in Ops \ {o} : op'[q] = op[q]
    <3>1. \A q \in Ops \ {o} : op'[q] = op[q]
      BY <2>a DEF StrategyTypeOK
    <3>2. op'[o].state # "none" /\ op'[o].on = op[o].on /\ op'[o].intent = op[o].intent
      BY <2>b, <2>c, <2>d, <2>1
    <3> QED BY <3>1, <3>2
  <2>3. \A g \in Handlers : g # h => handler'[g] = handler[g]
    BY <1>7 DEF FinalizeConfirmation, FailConfirmation, Conclude, Leaves, StrategyTypeOK
  <2>4. handler'[h].pc = "idle"
    BY <1>7 DEF FinalizeConfirmation, FailConfirmation, Conclude, Leaves, Away, StrategyTypeOK
  <2>5. \A q \in Ops : op'[q].state # "none" => op'[q].on \in Jobs \X {1, 2} /\ proposal'[op'[q].on].there
    BY <2>1, <2>2, <1>k, <1>o
  <2>6. \A q \in Ops : op[q].state # "none" => op'[q].state # "none" /\ op'[q].intent = op[q].intent
    BY <2>2
  <2> HIDE DEF o
  <2> QED BY <2>3, <2>4, <2>5, <2>6, <1>h DEF Underway
<1>8. ASSUME NEW h \in Handlers, ReadProposal(h) \/ DecideConfirmed(h) \/ Abandon(h) PROVE Underway'
  BY <1>8, <1>2 DEF ReadProposal, DecideConfirmed, Abandon
<1>9. ASSUME UNCHANGED <<op, handler>> PROVE Underway'
  BY <1>9, <1>1
<1>10. ASSUME NEW j \in Jobs, \/ Propose(j) \/ NudgeStrategy(j) \/ AcceptPlan(j)
                              \/ \E stage \in JobStages : RedoStrategy(j, stage)
                              \/ \E i \in {j} \X {1, 2}, intent \in Decisions : DecideOnDashboard(j, i, intent)
       PROVE  UNCHANGED <<op, handler>>
  BY <1>10 DEF Propose, NudgeStrategy, AcceptPlan, RedoStrategy, DecideOnDashboard
<1>11. ASSUME NEW c \in Changes, \/ ProposeChange(c) \/ SupersedeChange(c)
                                 \/ \E intent \in Decisions : DecideChange(c, intent)
       PROVE  UNCHANGED <<op, handler>>
  BY <1>11 DEF ProposeChange, SupersedeChange, DecideChange
<1>12. ASSUME NEW i \in Proposals, Expire(i) PROVE UNCHANGED <<op, handler>>
  BY <1>12 DEF Expire
<1>13. UNCHANGED strategyVars => UNCHANGED <<op, handler>>
  BY DEF strategyVars
<1> QED BY <1>3, <1>5, <1>6, <1>7, <1>8, <1>9, <1>10, <1>11, <1>12, <1>13 DEF StrategyNext, StrategyStep, Decisions

\* What was answered stays answered, and what is answered now is so.
LEMMA AnsweredStep ==
  ASSUME ConfirmationInv, [StrategyNext]_strategyVars
  PROVE  Answered'
<1> USE DEF ConfirmationInv
<1>c. \A intent \in Intents : intent # None /\ intent.verdict \in {"approved", "rejected"}
  BY StrategyAssumption
<1>k. ASSUME NEW i \in Jobs \X {1, 2}, NEW intent \in Intents, proposal[i].there
      PROVE  /\ proposal[i].approval = intent => proposal'[i].approval = intent
             /\ intent.verdict = "approved" /\ Hopeless(i, intent) => Hopeless(i, intent)'
  <2>1. Kept(i)
    BY <1>k, KeptStep
  <2> QED BY <2>1, <1>c DEF Kept
\* A confirmation that says nothing new.
<1>q. ASSUME NEW o \in Ops,
             op'[o].state \in {"approved", "rejected", "failed"} =>
               op'[o].state = op[o].state /\ op'[o].on = op[o].on /\ op'[o].intent = op[o].intent
      PROVE  ConfirmationAnswered(o)'
  <2> SUFFICES ASSUME op'[o].state \in {"approved", "rejected", "failed"} PROVE ConfirmationAnswered(o)'
    BY DEF ConfirmationAnswered
  <2>1. op'[o].state = op[o].state /\ op'[o].on = op[o].on /\ op'[o].intent = op[o].intent
    BY <1>q
  <2>2. ConfirmationAnswered(o)
    BY DEF Answered
  <2>3. PICK i \in Jobs \X {1, 2}, intent \in Intents :
          i = op[o].on /\ intent = op[o].intent /\ proposal[i].there
    BY <2>1, <2>2 DEF ConfirmationAnswered, Underway
  <2>4. op[o].state \in {"approved", "rejected"} => proposal'[i].approval = intent
    BY <2>2, <2>3, <1>k DEF ConfirmationAnswered
  <2>5. op[o].state = "failed" /\ intent.verdict = "approved" => Hopeless(i, intent)'
    BY <2>2, <2>3, <1>k DEF ConfirmationAnswered
  <2> QED BY <2>1, <2>3, <2>4, <2>5 DEF ConfirmationAnswered, Hopeless
\* A request about to write what it was about to write.
<1>r. ASSUME NEW h \in Handlers,
             handler'[h].pc \in {"finalize", "fail"} =>
               /\ handler'[h] = handler[h]
               /\ op'[handler[h].on].on = op[handler[h].on].on
      PROVE  RequestAnswered(h)'
  <2> SUFFICES ASSUME handler'[h].pc \in {"finalize", "fail"} PROVE RequestAnswered(h)'
    BY DEF RequestAnswered
  <2>1. handler'[h] = handler[h] /\ op'[handler[h].on].on = op[handler[h].on].on
    BY <1>r
  <2>2. RequestAnswered(h)
    BY DEF Answered
  <2>3. PICK i \in Jobs \X {1, 2}, intent \in Intents :
          i = op[handler[h].on].on /\ intent = handler[h].intent /\ proposal[i].there
    BY <2>1 DEF Underway
  <2>4. handler[h].pc = "finalize" => proposal'[i].approval = intent
    BY <2>2, <2>3, <1>k DEF RequestAnswered
  <2>5. handler[h].pc = "fail" /\ intent.verdict = "approved" => Hopeless(i, intent)'
    BY <2>2, <2>3, <1>k DEF RequestAnswered
  <2> QED BY <2>1, <2>3, <2>4, <2>5 DEF RequestAnswered, Hopeless
<1>1. ASSUME UNCHANGED <<op, handler>> PROVE Answered'
  <2>1. \A h \in Handlers : RequestAnswered(h)'
    BY <1>1, <1>r
  <2>2. \A o \in Ops : ConfirmationAnswered(o)'
    BY <1>1, <1>q
  <2> QED BY <2>1, <2>2 DEF Answered
<1>2. ASSUME NEW o \in Ops, UNCHANGED handler, \A q \in Ops \ {o} : op'[q] = op[q],
             op'[o].state \notin {"approved", "rejected", "failed"},
             op[o].state # "none" => op'[o].on = op[o].on
      PROVE  Answered'
  <2>1. ASSUME NEW h \in Handlers PROVE RequestAnswered(h)'
    <3>1. handler[h].pc # "idle" => op'[handler[h].on].on = op[handler[h].on].on
      BY <1>2 DEF Underway
    <3> QED BY <1>2, <1>r, <3>1
  <2>2. \A q \in Ops : ConfirmationAnswered(q)'
    BY <1>2, <1>q
  <2> QED BY <2>1, <2>2 DEF Answered
\* A step of one request that leaves the confirmations alone.
<1>3. ASSUME NEW h \in Handlers, UNCHANGED op, \A g \in Handlers \ {h} : handler'[g] = handler[g],
             RequestAnswered(h)'
      PROVE  Answered'
  <2>1. \A g \in Handlers : RequestAnswered(g)'
    BY <1>3, <1>r
  <2>2. \A q \in Ops : ConfirmationAnswered(q)'
    BY <1>3, <1>q
  <2> QED BY <2>1, <2>2 DEF Answered
<1>4. ASSUME NEW o \in Ops, NEW j \in Jobs, Confirm(o, j) PROVE Answered'
  <2>1. /\ op[o].state = "none" /\ UNCHANGED handler /\ \A q \in Ops \ {o} : op'[q] = op[q]
        /\ op'[o].state = "pending"
    BY <1>4 DEF Confirm, StrategyTypeOK
  <2> QED BY <2>1, <1>2
<1>5. ASSUME NEW o \in Ops, ConfirmationExpires(o) \/ LeaseEnds(o) PROVE Answered'
  <2>1. /\ UNCHANGED handler /\ \A q \in Ops \ {o} : op'[q] = op[q]
        /\ op'[o].state \in {"pending", "processing"} /\ op'[o].on = op[o].on
    BY <1>5 DEF ConfirmationExpires, LeaseEnds, StrategyTypeOK, Operation
  <2> QED BY <2>1, <1>2
<1>6. ASSUME NEW h \in Handlers, NEW o \in Ops, NEW intent \in Intents, ClaimConfirmation(h, o, intent)
      PROVE  Answered'
  <2>1. /\ \A g \in Handlers \ {h} : handler'[g] = handler[g]
        /\ handler'[h].pc = "read"
        /\ \A q \in Ops \ {o} : op'[q] = op[q]
    BY <1>6 DEF ClaimConfirmation, StrategyTypeOK
  <2>2. \/ UNCHANGED op
        \/ op'[o].state = "processing" /\ op'[o].on = op[o].on
    BY <1>6 DEF ClaimConfirmation, StrategyTypeOK, Operation
  <2>3. \A q \in Ops : op'[q].on = op[q].on
    BY <2>1, <2>2
  <2>4. ASSUME NEW g \in Handlers PROVE RequestAnswered(g)'
    <3>1. handler[g].pc # "idle" => op'[handler[g].on].on = op[handler[g].on].on
      BY <2>3 DEF Underway
    <3> QED BY <2>1, <3>1, <1>r
  <2>5. \A q \in Ops : ConfirmationAnswered(q)'
    BY <2>1, <2>2, <1>q
  <2> QED BY <2>4, <2>5 DEF Answered
<1>7. ASSUME NEW h \in Handlers, Abandon(h) PROVE Answered'
  <2>1. handler'[h].pc = "idle" /\ \A g \in Handlers \ {h} : handler'[g] = handler[g]
    BY <1>7 DEF Abandon, Leaves, Away, StrategyTypeOK
  <2>2. UNCHANGED op
    BY <1>7 DEF Abandon
  <2> QED BY <2>1, <2>2, <1>3 DEF RequestAnswered
<1>8. ASSUME NEW h \in Handlers, NEW p \in {"decide", "finalize", "fail"}, Goes(h, p)
      PROVE  /\ handler'[h].pc = p /\ handler'[h].on = handler[h].on /\ handler'[h].intent = handler[h].intent
             /\ \A g \in Handlers \ {h} : handler'[g] = handler[g]
  BY <1>8 DEF Goes, StrategyTypeOK, Request
<1>w. ASSUME NEW h \in Handlers, handler[h].pc # "idle"
      PROVE  /\ handler[h].on \in Ops /\ handler[h].intent \in Intents
             /\ op[handler[h].on].on \in Jobs \X {1, 2} /\ proposal[op[handler[h].on].on].there
             /\ op[handler[h].on].state # "none"
             /\ op[handler[h].on].intent = handler[h].intent
  BY <1>w DEF Underway
<1>9. ASSUME NEW h \in Handlers, ReadProposal(h) PROVE Answered'
  <2>1. handler[h].pc = "read" /\ UNCHANGED <<active, job, proposal, op>>
    BY <1>9 DEF ReadProposal
  <2>2. PICK i \in Jobs \X {1, 2}, intent \in Intents : i = op[handler[h].on].on /\ intent = handler[h].intent
    BY <2>1, <1>w
  <2>3. PICK p \in {"decide", "finalize", "fail"} :
          /\ Goes(h, p)
          /\ p = "finalize" => proposal[i].approval = intent
          /\ p = "fail" => proposal[i].approval # None /\ proposal[i].approval # intent
    <3> DEFINE p == IF proposal[i].approval = None THEN "decide"
                    ELSE IF proposal[i].approval = intent THEN "finalize" ELSE "fail"
    <3>1. Goes(h, p) /\ p \in {"decide", "finalize", "fail"}
      BY <1>9, <2>2 DEF ReadProposal
    <3>2. /\ p = "finalize" => proposal[i].approval = intent
          /\ p = "fail" => proposal[i].approval # None /\ proposal[i].approval # intent
      OBVIOUS
    <3> HIDE DEF p
    <3> QED BY <3>1, <3>2
  <2>4. /\ handler'[h].pc = p /\ handler'[h].on = handler[h].on /\ handler'[h].intent = handler[h].intent
        /\ \A g \in Handlers \ {h} : handler'[g] = handler[g]
    BY <2>3, <1>8
  <2>5. RequestAnswered(h)'
    BY <2>1, <2>2, <2>3, <2>4 DEF RequestAnswered, Hopeless
  <2> QED BY <2>1, <2>4, <2>5, <1>3
\* A refusal of an approval means that it can no longer count.
<1>x. ASSUME NEW j \in Jobs, NEW i \in {j} \X {1, 2}, NEW intent \in Intents, Outcome(j, i, intent) = "refused",
             intent.verdict = "approved"
      PROVE  Hopeless(i, intent)
  <2>1. i[1] = j /\ i[2] \in {1, 2} /\ i = <<j, i[2]>>
    OBVIOUS
  <2>2. CASE job[j].proposal # i[2]
    <3>1. proposal[i].approval # intent
      BY <2>1, <2>2, <1>x, <1>c DEF Approvals
    <3> QED BY <2>1, <2>2, <3>1 DEF Hopeless
  <2>3. CASE job[j].proposal = i[2]
    <3>1. proposal[i].approval = None /\ Refused(i, intent)
      BY <2>1, <2>3, <1>x DEF Outcome
    <3> QED BY <3>1, <1>x, <1>c DEF Refused, Hopeless
  <2> QED BY <2>2, <2>3
<1>10. ASSUME NEW h \in Handlers, DecideConfirmed(h) PROVE Answered'
  <2>1. handler[h].pc = "decide" /\ UNCHANGED op
    BY <1>10 DEF DecideConfirmed
  <2>2. PICK j \in Jobs, i \in Jobs \X {1, 2}, intent \in Intents :
          /\ i = op[handler[h].on].on /\ j = op[handler[h].on].on[1] /\ intent = handler[h].intent
          /\ i \in {j} \X {1, 2}
    BY <2>1, <1>w
  <2>3. \/ Outcome(j, i, intent) = "decided" /\ Decide(i, intent) /\ Goes(h, "finalize")
        \/ Outcome(j, i, intent) = "replayed" /\ Goes(h, "finalize") /\ UNCHANGED <<active, proposal, job>>
        \/ Outcome(j, i, intent) = "refused" /\ Goes(h, "fail") /\ UNCHANGED <<active, proposal, job>>
        \/ Leaves(h)
    BY <1>10, <2>2 DEF DecideConfirmed
  <2>4. CASE Outcome(j, i, intent) = "decided" /\ Decide(i, intent) /\ Goes(h, "finalize")
    <3>1. proposal'[i].approval = intent
      BY <2>4 DEF Decide, StrategyTypeOK, Proposals, Proposal
    <3>2. RequestAnswered(h)'
      BY <2>1, <2>2, <2>4, <3>1, <1>8 DEF RequestAnswered
    <3> QED BY <2>1, <2>4, <3>2, <1>8, <1>3
  <2>5. CASE Outcome(j, i, intent) = "replayed" /\ Goes(h, "finalize") /\ UNCHANGED <<active, proposal, job>>
    <3>1. proposal[i].approval = intent
      BY <2>5 DEF Outcome
    <3>2. RequestAnswered(h)'
      BY <2>1, <2>2, <2>5, <3>1, <1>8 DEF RequestAnswered
    <3> QED BY <2>1, <2>5, <3>2, <1>8, <1>3
  <2>6. CASE Outcome(j, i, intent) = "refused" /\ Goes(h, "fail") /\ UNCHANGED <<active, proposal, job>>
    <3>1. intent.verdict = "approved" => Hopeless(i, intent)
      <4>1. i \in {j} \X {1, 2} /\ Outcome(j, i, intent) = "refused"
        BY <2>2, <2>6
      <4> QED BY <4>1, <1>x, Zenon
    <3>2. intent.verdict = "approved" => Hopeless(i, intent)'
      BY <2>6, <3>1 DEF Hopeless
    <3>3. RequestAnswered(h)'
      BY <2>1, <2>2, <2>6, <3>2, <1>8 DEF RequestAnswered, Hopeless
    <3> QED BY <2>1, <2>6, <3>3, <1>8, <1>3
  <2>7. CASE Leaves(h)
    <3>1. handler'[h].pc = "idle" /\ \A g \in Handlers \ {h} : handler'[g] = handler[g]
      BY <2>7 DEF Leaves, Away, StrategyTypeOK
    <3> QED BY <2>1, <3>1, <1>3 DEF RequestAnswered
  <2> QED BY <2>3, <2>4, <2>5, <2>6, <2>7
<1>11. ASSUME NEW h \in Handlers, NEW s, \/ /\ FinalizeConfirmation(h)
                                             /\ s = handler[h].intent.verdict
                                          \/ /\ FailConfirmation(h)
                                             /\ s = "failed"
       PROVE  Answered'
  <2>1. /\ UNCHANGED <<active, job, proposal>>
        /\ handler[h].pc = IF s = "failed" THEN "fail" ELSE "finalize"
        /\ handler[h].pc # "idle"
    BY <1>11, <1>w, <1>c DEF FinalizeConfirmation, FailConfirmation, Conclude
  <2>2. PICK o \in Ops, i \in Jobs \X {1, 2}, intent \in Intents :
          /\ o = handler[h].on /\ i = op[o].on /\ intent = handler[h].intent
          /\ op[o].state # "none" /\ op[o].intent = intent /\ proposal[i].there
    BY <2>1, <1>w
  <2>3. s \in {intent.verdict, "failed"} /\ s \in {"approved", "rejected", "failed"}
    BY <1>11, <2>2, <1>c
  <2>4. op' = [op EXCEPT ![o] = IF @.state = "processing" THEN [@ EXCEPT !.state = s, !.live = FALSE] ELSE @]
    BY <1>11, <2>2 DEF FinalizeConfirmation, FailConfirmation, Conclude
  <2>5. handler'[h].pc = "idle" /\ \A g \in Handlers \ {h} : handler'[g] = handler[g]
    BY <1>11 DEF FinalizeConfirmation, FailConfirmation, Conclude, Leaves, Away, StrategyTypeOK
  <2>6. \A k \in Operation : LET m == [k EXCEPT !.state = s, !.live = FALSE] IN
          m.state = s /\ m.on = k.on /\ m.intent = k.intent
    BY DEF Operation
  <2>7. op[o] \in Operation /\ \A q \in Ops \ {o} : op'[q] = op[q]
    BY <2>4 DEF StrategyTypeOK
  <2>8. op'[o] = IF op[o].state = "processing" THEN [op[o] EXCEPT !.state = s, !.live = FALSE] ELSE op[o]
    BY <2>4 DEF StrategyTypeOK
  <2>9. /\ op'[o].on = i /\ op'[o].intent = intent
        /\ op'[o].state = op[o].state \/ op'[o].state = s
    BY <2>2, <2>6, <2>7, <2>8
  <2>10. ASSUME NEW g \in Handlers PROVE RequestAnswered(g)'
    <3>1. handler[g].pc # "idle" => op'[handler[g].on].on = op[handler[g].on].on
      BY <2>2, <2>7, <2>9, <1>w
    <3> QED BY <2>5, <3>1, <1>r
  <2>11. /\ s # "failed" => proposal'[i].approval = intent /\ s = intent.verdict
         /\ s = "failed" /\ intent.verdict = "approved" => Hopeless(i, intent)'
    <3>1. RequestAnswered(h)
      BY DEF Answered
    <3>2. s # "failed" => proposal[i].approval = intent
      BY <2>1, <2>2, <3>1 DEF RequestAnswered
    <3>3. s = "failed" /\ intent.verdict = "approved" => Hopeless(i, intent)
      BY <2>1, <2>2, <3>1 DEF RequestAnswered
    <3>4. Hopeless(i, intent) => Hopeless(i, intent)'
      BY <2>1 DEF Hopeless
    <3> QED BY <2>1, <2>3, <3>2, <3>3, <3>4
  <2>12. ASSUME NEW q \in Ops PROVE ConfirmationAnswered(q)'
    <3>1. CASE q # o \/ op'[o].state = op[o].state
      BY <2>2, <2>7, <2>9, <3>1, <1>q
    <3>2. CASE q = o /\ op'[o].state = s
      BY <2>9, <2>11, <2>3, <3>2 DEF ConfirmationAnswered, Hopeless
    <3> QED BY <2>9, <3>1, <3>2
  <2> QED BY <2>10, <2>12 DEF Answered
<1>12. ASSUME NEW j \in Jobs, \/ Propose(j) \/ NudgeStrategy(j) \/ AcceptPlan(j)
                              \/ \E stage \in JobStages : RedoStrategy(j, stage)
                              \/ \E i \in {j} \X {1, 2}, intent \in Decisions : DecideOnDashboard(j, i, intent)
       PROVE  UNCHANGED <<op, handler>>
  BY <1>12 DEF Propose, NudgeStrategy, AcceptPlan, RedoStrategy, DecideOnDashboard
<1>13. ASSUME NEW c \in Changes, \/ ProposeChange(c) \/ SupersedeChange(c)
                                 \/ \E intent \in Decisions : DecideChange(c, intent)
       PROVE  UNCHANGED <<op, handler>>
  BY <1>13 DEF ProposeChange, SupersedeChange, DecideChange
<1>14. ASSUME NEW i \in Proposals, Expire(i) PROVE UNCHANGED <<op, handler>>
  BY <1>14 DEF Expire
<1>15. UNCHANGED strategyVars => UNCHANGED <<op, handler>>
  BY DEF strategyVars
<1>16. ASSUME NEW h \in Handlers, FinalizeConfirmation(h) \/ FailConfirmation(h) PROVE Answered'
  BY <1>16, <1>11
<1> QED BY <1>1, <1>4, <1>5, <1>6, <1>7, <1>9, <1>10, <1>16, <1>12, <1>13, <1>14, <1>15
        DEF StrategyNext, StrategyStep, Decisions

\* At the start no confirmation exists and no request is at work.
LEMMA ConfirmationStart == StrategyInit => ConfirmationInv
<1> SUFFICES ASSUME StrategyInit PROVE ConfirmationInv
  OBVIOUS
<1>1. StrategyTypeOK
  <2>1. active \in Strategies /\ scope \in Scopes
    BY StrategyAssumption DEF StrategyInit, Strategies
  <2>2. job \in [Jobs -> Job]
    BY StrategyAssumption DEF StrategyInit, Job, JobStages, Strategies
  <2>3. proposal \in [Proposals -> Proposal]
    BY StrategyAssumption DEF StrategyInit, Proposal, Strategies
  <2>4. op \in [Ops -> Operation]
    BY DEF StrategyInit, Operation
  <2>5. handler \in [Handlers -> Request]
    BY RequestTyped DEF StrategyInit
  <2> QED BY <2>1, <2>2, <2>3, <2>4, <2>5 DEF StrategyInit, StrategyTypeOK
<1>2. Underway
  BY DEF StrategyInit, Underway, Away
<1>3. Approvals
  <2>1. \A j \in Jobs, n \in {1, 2} : <<j, n>> \in Proposals
    BY DEF Proposals
  <2> QED BY <1>1, <2>1 DEF StrategyInit, Approvals, StrategyTypeOK, Strategies
<1>4. Answered
  BY DEF StrategyInit, Answered, RequestAnswered, ConfirmationAnswered, Away
<1> QED BY <1>1, <1>2, <1>3, <1>4 DEF ConfirmationInv

\* Every step of the authority keeps what a confirmation rests on.
LEMMA ConfirmationStep == ConfirmationInv /\ [StrategyNext]_strategyVars => ConfirmationInv'
<1> SUFFICES ASSUME ConfirmationInv, [StrategyNext]_strategyVars PROVE ConfirmationInv'
  OBVIOUS
<1>1. StrategyTypeOK'
  BY StrategyTypingStep DEF ConfirmationInv
<1>2. Underway' /\ Approvals' /\ Answered'
  BY UnderwayStep, ApprovalsStep, AnsweredStep
<1> QED BY <1>1, <1>2 DEF ConfirmationInv

\* It rests on enough.
LEMMA ConfirmationSuffices == ConfirmationInv => ConfirmationIsTruthful
BY DEF ConfirmationInv, Answered, ConfirmationAnswered, Hopeless, ConfirmationIsTruthful

----------------------------------------------------------------------------
(* The plan leaves the authority to itself: what the plan adds to a step of *)
(* the authority is only what the promotion writes about planned items.     *)

\* A step of the whole is a step of the authority, or none.
LEMMA AuthorityStep == [Next]_vars => [StrategyNext]_strategyVars
<1> SUFFICES ASSUME [Next]_vars PROVE [StrategyNext]_strategyVars
  OBVIOUS
<1>1. CASE StrategyActs
  BY <1>1 DEF StrategyActs, StrategyNext
<1>2. ASSUME NEW j \in Jobs, NEW e \in Editorials, AcceptEditorial(j, e) PROVE StrategyNext
  BY <1>2 DEF AcceptEditorial, StrategyNext
<1>3. ASSUME NEW r \in Refs, \/ Claim(r) \/ Reconcile(r) \/ ApplyProduction(r) \/ ResumeStages(r) \/ CancelJob(r)
                             \/ \E outcome \in Outcomes : SaveLearnings(r, outcome)
                             \/ \E kind \in Failures : MarkFailed(r, kind)
                             \/ \E admitted \in BOOLEAN : Retry(r, admitted)
      PROVE  UNCHANGED strategyVars
  BY <1>3 DEF Claim, Reconcile, ApplyProduction, ResumeStages, CancelJob, SaveLearnings, MarkFailed, Retry, JobMoves
<1>4. ASSUME NEW x \in Items, MaterializeIntake(x) \/ \E deps \in SUBSET Current : AddDeliverable(x, deps)
      PROVE  UNCHANGED strategyVars
  BY <1>4 DEF MaterializeIntake, AddDeliverable
<1>5. ASSUME NEW q \in Requests PROVE /\ DeclineCalendar(q) => UNCHANGED strategyVars
                                      /\ \A r \in Current, conflict \in BOOLEAN :
                                           Replan(q, r, conflict) => UNCHANGED strategyVars
  BY Zenon DEF Replan, DeclineCalendar
<1>6. ASSUME NEW d \in Drafts, NEW r \in Current, ProposeReplacement(d, r) PROVE UNCHANGED strategyVars
  BY <1>6 DEF ProposeReplacement
<1>7. ASSUME NEW v \in Reviews PROVE /\ Accept(v) => UNCHANGED strategyVars
                                     /\ \A decision \in {"cancel", "keep"} :
                                          Decline(v, decision) => UNCHANGED strategyVars
  BY Zenon DEF Accept, Decline
<1>8. CASE UNCHANGED vars
  BY <1>8 DEF vars
<1> QED BY <1>1, <1>2, <1>3, <1>4, <1>5, <1>6, <1>7, <1>8 DEF Next, PlanStep, WorkStep

(* The plan and its jobs implement the authority: every behaviour of the     *)
(* whole is one of the authority, whatever promotions do to planned items.  *)
THEOREM AuthorityImplemented == Spec => StrategySpec
<1>1. Init => StrategyInit
  BY DEF Init
<1> QED BY <1>1, AuthorityStep, PTL DEF Spec, StrategySpec

(* What the authority's confirmations rest on holds in every state.          *)
THEOREM Confirmations == Spec => []ConfirmationInv
<1>1. Init => ConfirmationInv
  BY ConfirmationStart DEF Init
<1>2. ConfirmationInv /\ [Next]_vars => ConfirmationInv'
  BY ConfirmationStep, AuthorityStep
<1> QED BY <1>1, <1>2, PTL DEF Spec

(* A confirmation that says approved or rejected is what its operator        *)
(* decided, and an approval recorded as failed never counts, whichever       *)
(* requests were at work on it and however the pointer moved meanwhile.     *)
THEOREM TruthfulConfirmations == Spec => []ConfirmationIsTruthful
BY Confirmations, ConfirmationSuffices, PTL

----------------------------------------------------------------------------
(* The plan and the jobs of its items.                                      *)

\* Some plan revision made the item revision.
Known(r) == item[r].plan # 0

\* The revisions of an item: one is current, and it is the latest; each is in
\* the plan revision that made it, under its strategy.
Catalogue ==
  /\ \A r \in Current : Known(r) /\ r.rev <= plan
  /\ \A r, s \in Current : r.id = s.id => r = s
  /\ \A r \in Refs : Known(r) =>
       /\ \E s \in Current : s.id = r.id /\ r.rev <= s.rev
       /\ item[r].plan <= plan /\ r \in planned[item[r].plan].items
       /\ planned[item[r].plan].strategy = item[r].strategy

\* A job is of a current revision.
Executed == \A r \in Refs : work[r].there => r \in Current

\* Not claimed, and not given up.
Idle(r) == ~Claimed(r) /\ state[r].status # "cancelled"

\* What is not claimed is under the strategy of the plan.
UnderPlan == \A r \in Current : Idle(r) => item[r].strategy = planned[plan].strategy

\* What is under a review of strategy or sources, and not claimed, waits for
\* it; what is completed was bound to a job.
Waits(r) ==
  /\ ~Claimed(r) /\ state[r].disposition # None /\ state[r].disposition.type # "calendar_change" =>
       state[r].status = "requires_disposition"
  /\ state[r].status = "completed" => state[r].bound

\* A pending review guards all that would leave the plan's strategy with it:
\* a rebase every idle item under another strategy, a replacement only items
\* that are under its strategy already.
Guards(v) ==
  /\ \A r \in Refs : review[v].previous[r].status # "completed"
  /\ review[v].state = "pending" =>
       /\ review[v].target <= active /\ review[v].plan <= plan
       /\ v.type = "strategy_rebase" /\ review[v].plan = plan /\ review[v].target = active =>
            \A r \in Current : Idle(r) => r \in review[v].guarded \/ item[r].strategy = active
       /\ v.type = "source_replacement" =>
            \A r \in review[v].guarded : Known(r) /\ item[r].strategy = review[v].target

PlanningInv ==
  /\ TypeOK /\ Catalogue /\ DependenciesReachable /\ Executed /\ UnderPlan
  /\ \A r \in Refs : Waits(r)
  /\ \A v \in Reviews : Guards(v)

\* The records things start with.
LEMMA FreshTyped == Fresh \in State
BY DEF State, Fresh, Statuses

LEMMA NoReviewTyped == NoReview \in Review
<1>1. [r \in Refs |-> Fresh] \in [Refs -> State]
  BY FreshTyped
<1>2. 0 \in Strategies /\ 0 \in 0..MaxPlan
  BY StrategyAssumption, PlanningAssumption DEF Strategies
<1> QED BY <1>1, <1>2 DEF NoReview, Review

\* The ids of reviews tell what they are about; none of them is None.
LEMMA ReviewsNamed ==
  /\ \A s \in 1..MaxStrategy : Rebase(s) \in Reviews /\ Rebase(s).type = "strategy_rebase"
  /\ \A d \in Drafts : Replacement(d) \in Reviews /\ Replacement(d).type = "source_replacement"
  /\ \A q \in Requests : Calendar(q) \in Reviews /\ Calendar(q).type = "calendar_change"
  /\ \A v \in Reviews : v # None
BY ReviewAssumption DEF Reviews, Rebase, Replacement, Calendar

\* The items of the plan are item revisions.
LEMMA CurrentTyped ==
  TypeOK => /\ plan \in Nat /\ plan <= MaxPlan /\ MaxPlan \in Nat
            /\ Current \subseteq Refs
            /\ plan # 0 => plan \in 1..MaxPlan /\ Current = planned[plan].items
            /\ plan = 0 => Current = {}
BY PlanningAssumption DEF TypeOK, Current

----------------------------------------------------------------------------
(* A step that leaves the plan and its items alone.                         *)

\* What a step that makes no revision may do: nothing becomes idle, jobs are
\* made of current revisions, and pending reviews are as they were or sound.
LEMMA SameRevision ==
  ASSUME PlanningInv, TypeOK', UNCHANGED <<plan, planned, item>>, active' >= active,
         \A r \in Refs : work'[r].there => work[r].there \/ r \in Current,
         \A r \in Refs : Idle(r)' => Idle(r),
         \A r \in Refs : Waits(r)',
         \A v \in Reviews :
           \/ Guards(v)'
           \/ /\ \A r \in Refs : review'[v].previous[r].status # "completed"
              /\ review'[v].state = "pending" =>
                   /\ review[v].state = "pending" /\ review'[v].guarded = review[v].guarded
                   /\ review'[v].plan = review[v].plan /\ review'[v].target = review[v].target
  PROVE  PlanningInv'
<1> USE DEF PlanningInv
<1>1. Current' = Current /\ Current \subseteq Refs /\ \A r \in Refs : Known(r)' = Known(r)
  BY CurrentTyped DEF Current, Known
<1>2. Catalogue' /\ DependenciesReachable'
  BY <1>1 DEF Catalogue, DependenciesReachable, Known
<1>3. Executed'
  BY <1>1 DEF Executed
<1>4. UnderPlan'
  BY <1>1 DEF UnderPlan
<1>5. ASSUME NEW v \in Reviews PROVE Guards(v)'
  <2>1. SUFFICES ASSUME
             /\ \A r \in Refs : review'[v].previous[r].status # "completed"
             /\ review'[v].state = "pending" =>
                   /\ review[v].state = "pending" /\ review'[v].guarded = review[v].guarded
                   /\ review'[v].plan = review[v].plan /\ review'[v].target = review[v].target
        PROVE Guards(v)'
    OBVIOUS
  <2>2. SUFFICES ASSUME review'[v].state = "pending"
                 PROVE  /\ review'[v].target <= active' /\ review'[v].plan <= plan'
                        /\ v.type = "strategy_rebase" /\ review'[v].plan = plan' /\ review'[v].target = active' =>
                             \A r \in Current' : Idle(r)' => r \in review'[v].guarded \/ item'[r].strategy = active'
                        /\ v.type = "source_replacement" =>
                             \A r \in review'[v].guarded : Known(r)' /\ item'[r].strategy = review'[v].target
    BY <2>1 DEF Guards
  <2>3. /\ review'[v].guarded = review[v].guarded
        /\ review'[v].plan = review[v].plan /\ review'[v].target = review[v].target
        /\ review[v].target <= active /\ review[v].plan <= plan
        /\ v.type = "strategy_rebase" /\ review[v].plan = plan /\ review[v].target = active =>
             \A r \in Current : Idle(r) => r \in review[v].guarded \/ item[r].strategy = active
        /\ v.type = "source_replacement" =>
             \A r \in review[v].guarded : Known(r) /\ item[r].strategy = review[v].target
    BY <2>1, <2>2 DEF Guards
  <2>4. active \in Nat /\ active' \in Nat /\ review[v].target \in Nat
    BY StrategyAssumption DEF TypeOK, StrategyTypeOK, Strategies, Review
  <2>5. review'[v].target <= active' /\ review'[v].plan <= plan'
    BY <2>3, <2>4
  <2>6. ASSUME v.type = "strategy_rebase", review'[v].plan = plan', review'[v].target = active'
        PROVE  \A r \in Current' : Idle(r)' => r \in review'[v].guarded \/ item'[r].strategy = active'
    <3>1. active' = active /\ review[v].plan = plan /\ review[v].target = active
      BY <2>3, <2>4, <2>6
    <3>2. \A r \in Current : Idle(r) => r \in review[v].guarded \/ item[r].strategy = active
      BY <2>3, <2>6, <3>1
    <3> QED BY <1>1, <2>3, <3>1, <3>2
  <2>7. v.type = "source_replacement" =>
          \A r \in review'[v].guarded : Known(r)' /\ item'[r].strategy = review'[v].target
    BY <2>3 DEF Known
  <2> QED BY <2>5, <2>6, <2>7
<1> QED BY <1>2, <1>3, <1>4, <1>5

\* A touched review keeps all but its authority.
LEMMA TouchKeeps ==
  ASSUME TypeOK, NEW r \in Refs, Touch(r) \/ UNCHANGED review
  PROVE  /\ review' \in [Reviews -> Review]
         /\ \A v \in Reviews :
              /\ review'[v].state = review[v].state /\ review'[v].guarded = review[v].guarded
              /\ review'[v].plan = review[v].plan /\ review'[v].target = review[v].target
              /\ review'[v].previous = review[v].previous
<1>1. \A v \in Reviews : review[v] \in Review
  BY DEF TypeOK
<1>2. CASE UNCHANGED review
  BY <1>2 DEF TypeOK
<1>3. CASE Touch(r)
  <2>1. \A v \in Reviews : review'[v] = [review[v] EXCEPT !.exact = FALSE] \/ review'[v] = review[v]
    BY <1>3 DEF Touch
  <2>2. \A k \in Review : LET m == [k EXCEPT !.exact = FALSE] IN
          /\ m \in Review /\ m.state = k.state /\ m.guarded = k.guarded /\ m.plan = k.plan
          /\ m.target = k.target /\ m.previous = k.previous
    BY DEF Review
  <2>3. \A v \in Reviews : review'[v] \in Review
    BY <2>1, <2>2, <1>1
  <2>4. review' \in [Reviews -> Review]
    BY <2>3, <1>3 DEF Touch
  <2>5. \A v \in Reviews :
              /\ review'[v].state = review[v].state /\ review'[v].guarded = review[v].guarded
              /\ review'[v].plan = review[v].plan /\ review'[v].target = review[v].target
              /\ review'[v].previous = review[v].previous
    BY <2>1, <2>2, <1>1
  <2> QED BY <2>4, <2>5
<1> QED BY <1>2, <1>3

\* A step about the job of one item, which has one then.
LEMMA JobOfItem ==
  ASSUME PlanningInv, NEW r \in Refs, UNCHANGED <<strategyVars, plan, planned, item>>,
         Touch(r) \/ UNCHANGED review,
         state' \in [Refs -> State], work' \in [Refs -> Work],
         \A s \in Refs \ {r} : state'[s] = state[s] /\ work'[s] = work[s],
         work'[r].there, work[r].there \/ r \in Current,
         state'[r].status = "completed" => state'[r].bound
  PROVE  PlanningInv'
<1> USE DEF PlanningInv
<1>1. TypeOK'
  BY TouchKeeps DEF TypeOK, StrategyTypeOK, strategyVars
<1>2. ASSUME NEW s \in Refs PROVE Waits(s)' /\ (Idle(s)' => Idle(s))
  <2>1. CASE s = r
    BY <2>1 DEF Waits, Idle, Claimed
  <2>2. CASE s # r
    <3>1. Waits(s) /\ state'[s] = state[s] /\ work'[s] = work[s]
      BY <2>2
    <3> QED BY <3>1 DEF Waits, Idle, Claimed
  <2> QED BY <2>1, <2>2
<1>3. \A s \in Refs : work'[s].there => work[s].there \/ s \in Current
  OBVIOUS
<1>4. \A v \in Reviews :
        /\ \A s \in Refs : review'[v].previous[s].status # "completed"
        /\ review'[v].state = "pending" =>
             /\ review[v].state = "pending" /\ review'[v].guarded = review[v].guarded
             /\ review'[v].plan = review[v].plan /\ review'[v].target = review[v].target
  BY TouchKeeps DEF Guards
<1>5. active' >= active
  BY StrategyAssumption DEF strategyVars, TypeOK, StrategyTypeOK, Strategies
<1> QED BY <1>1, <1>2, <1>3, <1>4, <1>5, SameRevision

\* The job of an item, taken, moved, reconciled or retried, keeps the plan sound.
LEMMA WorkKeeps ==
  ASSUME PlanningInv, WorkStep
  PROVE  PlanningInv'
<1> USE DEF PlanningInv
<1>a. \A r \in Refs : state[r] \in State /\ work[r] \in Work
  BY DEF TypeOK
<1>b. \A r \in Refs : Waits(r)
  OBVIOUS
\* A step that writes the record of one item, its job's or both.
<1>1. ASSUME NEW r \in Refs, NEW k \in State, NEW w \in Work,
             UNCHANGED <<strategyVars, plan, planned, item>>, Touch(r) \/ UNCHANGED review,
             state' = [state EXCEPT ![r] = k], work' = [work EXCEPT ![r] = w],
             w.there, work[r].there \/ r \in Current, k.status = "completed" => k.bound
      PROVE  PlanningInv'
  <2>1. state' \in [Refs -> State] /\ work' \in [Refs -> Work]
    BY <1>1 DEF TypeOK
  <2>2. /\ \A s \in Refs \ {r} : state'[s] = state[s] /\ work'[s] = work[s]
        /\ state'[r] = k /\ work'[r] = w
    BY <1>1 DEF TypeOK
  <2> QED BY <1>1, <2>1, <2>2, JobOfItem
<1>2. ASSUME NEW r \in Refs, Claim(r) PROVE PlanningInv'
  <2>0. state[r] \in State /\ work[r] \in Work
    BY <1>a
  <2> DEFINE k == [state[r] EXCEPT !.status = "running", !.bound = TRUE]
             w == [work[r] EXCEPT !.there = TRUE]
  <2>1. k \in State /\ k.status = "running"
    BY <2>0 DEF State, Statuses
  <2>2. w \in Work /\ w.there
    BY <2>0 DEF Work
  <2>3. state' = [state EXCEPT ![r] = k] /\ work' = [work EXCEPT ![r] = w]
    BY <1>2, <1>a DEF Claim, State, Work
  <2>4. UNCHANGED <<strategyVars, plan, planned, item>> /\ Touch(r) /\ r \in Current
    BY <1>2 DEF Claim
  <2> HIDE DEF k, w
  <2> QED BY <2>1, <2>2, <2>3, <2>4, <1>1
<1>3. ASSUME NEW r \in Refs, Reconcile(r) PROVE PlanningInv'
  <2>0. state[r] \in State /\ work[r] \in Work
    BY <1>a
  <2>1. Observed(work[r]) \in Statuses
    BY <2>0 DEF Work, Observed, Statuses
  <2> DEFINE k == [state[r] EXCEPT !.status = Observed(work[r])]
  <2>2. k \in State /\ k.bound = state[r].bound
    BY <2>0, <2>1 DEF State, Statuses
  <2>3. state' = [state EXCEPT ![r] = k] /\ work' = [work EXCEPT ![r] = work[r]]
    BY <1>3, <1>a DEF Reconcile, State, TypeOK
  <2>4. /\ UNCHANGED <<strategyVars, plan, planned, item>> /\ UNCHANGED review
        /\ work[r].there /\ state[r].bound
    BY <1>3 DEF Reconcile
  <2> HIDE DEF k
  <2> QED BY <1>a, <2>2, <2>3, <2>4, <1>1
<1>4. ASSUME NEW r \in Refs, ApplyProduction(r) PROVE PlanningInv'
  <2>0. state[r] \in State /\ work[r] \in Work
    BY <1>a
  <2> DEFINE k == [state[r] EXCEPT !.status = "awaiting_approval"]
             w == [work[r] EXCEPT !.at = "gate"]
  <2>1. k \in State /\ k.status = "awaiting_approval"
    BY <2>0 DEF State, Statuses
  <2>2. w \in Work /\ w.there = work[r].there
    BY <2>0 DEF Work
  <2>3. state' = [state EXCEPT ![r] = k] /\ work' = [work EXCEPT ![r] = w]
    BY <1>4, <1>a DEF ApplyProduction, State, Work
  <2>4. UNCHANGED <<strategyVars, plan, planned, item>> /\ Touch(r) /\ work[r].there
    BY <1>4 DEF ApplyProduction
  <2> HIDE DEF k, w
  <2> QED BY <2>1, <2>2, <2>3, <2>4, <1>1
<1>5. ASSUME NEW r \in Refs, NEW w \in Work, JobMoves(r, w), w.there = work[r].there PROVE PlanningInv'
  <2>1. state' = [state EXCEPT ![r] = state[r]] /\ work' = [work EXCEPT ![r] = w]
    BY <1>5 DEF JobMoves, TypeOK
  <2>2. UNCHANGED <<strategyVars, plan, planned, item>> /\ Touch(r) /\ work[r].there
    BY <1>5 DEF JobMoves
  <2>3. state[r].status = "completed" => state[r].bound
    BY <1>b DEF Waits
  <2> QED BY <1>a, <1>5, <2>1, <2>2, <2>3, <1>1
<1>6. ASSUME NEW r \in Refs,
             \/ ResumeStages(r) \/ CancelJob(r)
             \/ \E outcome \in Outcomes : SaveLearnings(r, outcome)
             \/ \E kind \in Failures : MarkFailed(r, kind)
      PROVE  PlanningInv'
  <2>0. state[r] \in State /\ work[r] \in Work
    BY <1>a
  <2>1. Outcomes \subseteq {"succeeded", "unsuccessful"} /\ Failures \subseteq {"transient", "permanent"}
    BY PlanningAssumption
  <2>2. ASSUME NEW at \in {"stages", "succeeded", "unsuccessful"}, JobMoves(r, [work[r] EXCEPT !.at = at])
        PROVE  PlanningInv'
    <3>0. /\ [work[r] EXCEPT !.at = at] \in Work
          /\ [work[r] EXCEPT !.at = at].there = work[r].there
      BY <2>0 DEF Work
    <3>1. PICK w \in Work : w = [work[r] EXCEPT !.at = at] /\ w.there = work[r].there
      BY <3>0, Zenon
    <3> QED BY <2>2, <3>1, <1>5
  <2>3. ASSUME NEW kind \in {"transient", "permanent"}, JobMoves(r, [work[r] EXCEPT !.failure = kind])
        PROVE  PlanningInv'
    <3>0. /\ [work[r] EXCEPT !.failure = kind] \in Work
          /\ [work[r] EXCEPT !.failure = kind].there = work[r].there
      BY <2>0 DEF Work
    <3>1. PICK w \in Work : w = [work[r] EXCEPT !.failure = kind] /\ w.there = work[r].there
      BY <3>0, Zenon
    <3> QED BY <2>3, <3>1, <1>5
  <2>4. ASSUME JobMoves(r, [work[r] EXCEPT !.cancelled = TRUE]) PROVE PlanningInv'
    <3>0. /\ [work[r] EXCEPT !.cancelled = TRUE] \in Work
          /\ [work[r] EXCEPT !.cancelled = TRUE].there = work[r].there
      BY <2>0 DEF Work
    <3>1. PICK w \in Work : w = [work[r] EXCEPT !.cancelled = TRUE] /\ w.there = work[r].there
      BY <3>0, Zenon
    <3> QED BY <2>4, <3>1, <1>5
  <2>5. ResumeStages(r) => PlanningInv'
    BY <2>2, Zenon DEF ResumeStages
  <2>6. CancelJob(r) => PlanningInv'
    BY <2>4, Zenon DEF CancelJob
  <2>7. ASSUME NEW outcome \in Outcomes, SaveLearnings(r, outcome) PROVE PlanningInv'
    <3>1. outcome \in {"stages", "succeeded", "unsuccessful"}
      BY <2>1
    <3> QED BY <3>1, <2>2, <2>7, Zenon DEF SaveLearnings
  <2>8. ASSUME NEW kind \in Failures, MarkFailed(r, kind) PROVE PlanningInv'
    BY <2>1, <2>3, <2>8, Zenon DEF MarkFailed
  <2> QED BY <1>6, <2>5, <2>6, <2>7, <2>8
<1>7. ASSUME NEW r \in Refs, NEW admitted \in BOOLEAN, Retry(r, admitted) PROVE PlanningInv'
  <2>0. state[r] \in State /\ work[r] \in Work
    BY <1>a
  <2>1. UNCHANGED <<strategyVars, plan, planned, item>> /\ work[r].there /\ state[r].bound
    BY <1>7, Zenon DEF Retry
  <2>2. CASE admitted
    <3> DEFINE k == [state[r] EXCEPT !.status = "running", !.retryPending = FALSE]
               w == [work[r] EXCEPT !.at = "stages", !.failure = "none"]
    <3>1. k \in State /\ k.status = "running"
      BY <2>0 DEF State, Statuses
    <3>2. w \in Work /\ w.there = work[r].there
      BY <2>0 DEF Work
    <3>3. state' = [state EXCEPT ![r].status = "running", ![r].retryPending = FALSE] /\ Touch(r)
      BY <1>7, <2>2 DEF Retry
    <3>4. work' = [work EXCEPT ![r].at = "stages", ![r].failure = "none"]
      BY <1>7, <2>2 DEF Retry
    <3>5. state' = [state EXCEPT ![r] = k] /\ work' = [work EXCEPT ![r] = w]
      BY <3>3, <3>4, <1>a DEF State, Work
    <3> HIDE DEF k, w
    <3> QED BY <2>1, <3>1, <3>2, <3>3, <3>5, <1>1
  <2>3. CASE ~admitted
    <3> DEFINE k == [state[r] EXCEPT !.status = "failed", !.retryPending = TRUE]
    <3>1. k \in State /\ k.status = "failed"
      BY <2>0 DEF State, Statuses
    <3>2. state' = [state EXCEPT ![r].status = "failed", ![r].retryPending = TRUE] /\ UNCHANGED <<work, review>>
      BY <1>7, <2>3 DEF Retry
    <3>3. state' = [state EXCEPT ![r] = k] /\ work' = [work EXCEPT ![r] = work[r]]
      BY <3>2, <1>a DEF State, TypeOK
    <3> HIDE DEF k
    <3> QED BY <1>a, <2>1, <3>1, <3>2, <3>3, <1>1
  <2> QED BY <2>2, <2>3
<1> QED BY <1>2, <1>3, <1>4, <1>6, <1>7 DEF WorkStep

\* What depends on the affected items is affected, and they are current.
LEMMA AffectedClosed ==
  ASSUME NEW S, S \subseteq Current
  PROVE  Affected(S) \subseteq Current /\ S \subseteq Affected(S) /\ Closed(Affected(S))
BY DEF Affected, Closed

\* Items put under review v wait for it.
LEMMA SuspendEffect ==
  ASSUME TypeOK, NEW guarded, NEW v \in Reviews, Suspend(guarded, v)
  PROVE  /\ state' \in [Refs -> State]
         /\ \A r \in Refs :
              /\ r \notin guarded => state'[r] = state[r]
              /\ r \in guarded => /\ state'[r].status = "requires_disposition"
                                  /\ state'[r].disposition = v /\ state'[r].bound = state[r].bound
<1>1. ASSUME NEW r \in Refs
      PROVE  /\ state'[r] \in State
             /\ r \notin guarded => state'[r] = state[r]
             /\ r \in guarded => /\ state'[r].status = "requires_disposition"
                                 /\ state'[r].disposition = v /\ state'[r].bound = state[r].bound
  <2>1. state[r] \in State
    BY DEF TypeOK
  <2>2. CASE r \in guarded
    <3>1. state'[r] = [state[r] EXCEPT !.status = "requires_disposition", !.disposition = v]
      BY <2>2, Zenon DEF Suspend
    <3> QED BY <2>1, <2>2, <3>1 DEF State, Statuses
  <2>3. CASE r \notin guarded
    <3>1. state'[r] = state[r]
      BY <2>3, Zenon DEF Suspend
    <3> QED BY <2>1, <2>3, <3>1
  <2> QED BY <2>2, <2>3
<1>2. state' = [r \in Refs |-> state'[r]]
  BY Zenon DEF Suspend
<1>3. state' \in [Refs -> State]
  BY <1>1, <1>2
<1> QED BY <1>1, <1>3

\* A review that is opened over items none of which is completed.
LEMMA UnderReviewEffect ==
  ASSUME TypeOK, NEW v, NEW guarded \in SUBSET Refs, NEW target \in Strategies,
         \A r \in guarded : state[r].status # "completed"
  PROVE  LET k == UnderReview(v, guarded, target) IN
         /\ k \in Review /\ k.state = "pending" /\ k.guarded = guarded
         /\ k.plan = plan /\ k.target = target
         /\ \A r \in Refs : k.previous[r].status # "completed"
<1> DEFINE previous == [r \in Refs |-> IF r \in guarded
              THEN [state[r] EXCEPT !.status = IF @ = "requires_disposition" THEN "queued" ELSE @]
              ELSE Fresh]
<1>1. ASSUME NEW r \in Refs PROVE previous[r] \in State /\ previous[r].status # "completed"
  <2>1. state[r] \in State
    BY DEF TypeOK
  <2>2. CASE r \in guarded
    <3>1. PICK s \in Statuses : s = IF state[r].status = "requires_disposition" THEN "queued" ELSE state[r].status
      BY <2>1 DEF State, Statuses
    <3>2. previous[r] = [state[r] EXCEPT !.status = s] /\ s # "completed"
      BY <2>1, <2>2, <3>1 DEF State
    <3> QED BY <2>1, <3>2 DEF State
  <2>3. CASE r \notin guarded
    BY <2>3, FreshTyped DEF Fresh
  <2> QED BY <2>2, <2>3
<1>2. previous \in [Refs -> State]
  BY <1>1
<1>3. UnderReview(v, guarded, target) =
        [state |-> "pending", guarded |-> guarded, exact |-> TRUE, previous |-> previous,
         plan |-> plan, target |-> target]
  BY DEF UnderReview
<1>4. plan \in 0..MaxPlan
  BY DEF TypeOK
<1> HIDE DEF previous
<1> QED BY <1>1, <1>2, <1>3, <1>4 DEF Review

\* A promotion puts under review what is idle under another strategy.
LEMMA PromotionKeeps ==
  ASSUME PlanningInv, StrategyTypeOK', NEW s \in 1..MaxStrategy, active' = s, active < s, QueueDispositions(s)
  PROVE  PlanningInv'
<1> USE DEF PlanningInv
<1> DEFINE guarded == {r \in Current : /\ item[r].strategy # s /\ ~Claimed(r)
                                       /\ state[r].status \notin {"completed", "cancelled"}}
           mine == Rebase(s)
<1>1. mine \in Reviews /\ mine.type = "strategy_rebase" /\ guarded \subseteq Refs /\ s \in Strategies
  BY ReviewsNamed, CurrentTyped, StrategyAssumption DEF Strategies
<1>2. Suspend(guarded, mine) /\ UNCHANGED <<plan, planned, item, work>>
  BY DEF QueueDispositions
<1>3. /\ state' \in [Refs -> State]
      /\ \A r \in Refs :
              /\ r \notin guarded => state'[r] = state[r]
              /\ r \in guarded => /\ state'[r].status = "requires_disposition"
                                  /\ state'[r].disposition = mine /\ state'[r].bound = state[r].bound
  <2> HIDE DEF guarded, mine
  <2> QED BY <1>1, <1>2, SuspendEffect
<1>4. ASSUME NEW r \in Refs PROVE (Idle(r)' => Idle(r)) /\ Waits(r)'
  <2>1. Waits(r)
    OBVIOUS
  <2>2. CASE r \in guarded
    <3>1. ~Claimed(r) /\ state[r].status # "cancelled"
      BY <2>2
    <3> HIDE DEF guarded, mine
    <3> QED BY <1>3, <2>2, <3>1 DEF Idle, Waits
  <2>3. CASE r \notin guarded
    <3>1. state'[r] = state[r] /\ work' = work
      BY <1>2, <1>3, <2>3
    <3> QED BY <2>1, <3>1 DEF Idle, Waits, Claimed
  <2> QED BY <2>2, <2>3
<1>5. \A r \in guarded : state[r].status # "completed"
  OBVIOUS
<1>6. PICK k \in Review :
        /\ k = UnderReview(mine, guarded, s) /\ k.state = "pending" /\ k.guarded = guarded
        /\ k.plan = plan /\ k.target = s
        /\ \A r \in Refs : k.previous[r].status # "completed"
  <2> HIDE DEF guarded, mine
  <2> QED BY <1>1, <1>5, UnderReviewEffect
<1>7. /\ review' = [v \in Reviews |-> review'[v]]
      /\ \A v \in Reviews : \/ v = mine /\ review'[v] = k
                            \/ review'[v] = [review[v] EXCEPT !.state = "superseded"]
                            \/ review'[v] = review[v]
  <2> HIDE DEF guarded
  <2> QED BY <1>6 DEF QueueDispositions, guarded
<1>8. \A v \in Reviews : review[v] \in Review
  BY DEF TypeOK
<1>9. ASSUME NEW v \in Reviews
      PROVE  /\ review'[v] \in Review
             /\ \/ Guards(v)'
                \/ /\ \A r \in Refs : review'[v].previous[r].status # "completed"
                   /\ review'[v].state = "pending" =>
                        /\ review[v].state = "pending" /\ review'[v].guarded = review[v].guarded
                        /\ review'[v].plan = review[v].plan /\ review'[v].target = review[v].target
  <2>0. Guards(v) /\ review[v] \in Review
    BY <1>8
  <2>1. CASE v = mine /\ review'[v] = k
    <3>1. Current' = Current /\ s \in Nat
      BY <1>2 DEF Current
    <3>2. ASSUME NEW r \in Current, Idle(r)' PROVE r \in guarded \/ item[r].strategy = s
      <4>1. r \in Refs /\ Idle(r) /\ Waits(r)
        BY <1>4, <3>2, CurrentTyped
      <4>2. state[r].status \notin {"completed", "cancelled"}
        BY <4>1 DEF Idle, Waits, Claimed
      <4> QED BY <4>1, <4>2 DEF Idle
    <3>3. plan \in Nat
      BY CurrentTyped
    <3> HIDE DEF guarded, mine
    <3> QED BY <1>1, <1>2, <1>6, <2>1, <3>1, <3>2, <3>3 DEF Guards
  <2>2. CASE review'[v] = [review[v] EXCEPT !.state = "superseded"]
    <3>1. /\ review'[v] \in Review /\ review'[v].state = "superseded"
          /\ review'[v].previous = review[v].previous
      BY <2>0, <2>2 DEF Review
    <3> QED BY <2>0, <3>1 DEF Guards
  <2>3. CASE review'[v] = review[v]
    BY <2>0, <2>3 DEF Guards
  <2> QED BY <1>7, <2>1, <2>2, <2>3
<1>10. review' \in [Reviews -> Review]
  BY <1>7, <1>9
<1>11. TypeOK'
  BY <1>2, <1>3, <1>10 DEF TypeOK
<1>12. active' >= active
  BY StrategyAssumption DEF TypeOK, StrategyTypeOK, Strategies
<1> QED BY <1>2, <1>4, <1>9, <1>11, <1>12, SameRevision

\* One review is opened, answered or refused; the items it names are written.
LEMMA OneReview ==
  ASSUME PlanningInv, UNCHANGED <<strategyVars, plan, planned, item, work>>, NEW v \in Reviews, NEW k \in Review,
         review' = [review EXCEPT ![v] = k], state' \in [Refs -> State],
         \A r \in Refs : (Idle(r)' => Idle(r)) /\ Waits(r)',
         \A r \in Refs : k.previous[r].status # "completed",
         k.state = "pending" =>
           /\ k.target <= active /\ k.plan <= plan /\ v.type # "strategy_rebase"
           /\ v.type = "source_replacement" =>
                \A r \in k.guarded : Known(r) /\ item[r].strategy = k.target
  PROVE  PlanningInv'
<1> USE DEF PlanningInv
<1>1. review' \in [Reviews -> Review] /\ \A w \in Reviews : review'[w] = IF w = v THEN k ELSE review[w]
  BY DEF TypeOK
<1>2. TypeOK'
  BY <1>1 DEF TypeOK, StrategyTypeOK, strategyVars
<1>3. active' = active /\ active \in Nat
  BY StrategyAssumption DEF strategyVars, TypeOK, StrategyTypeOK, Strategies
<1>4. Guards(v)'
  BY <1>1, <1>3 DEF Guards, Known
<1>5. ASSUME NEW w \in Reviews, w # v
      PROVE  /\ \A r \in Refs : review'[w].previous[r].status # "completed"
             /\ review'[w].state = "pending" =>
                  /\ review[w].state = "pending" /\ review'[w].guarded = review[w].guarded
                  /\ review'[w].plan = review[w].plan /\ review'[w].target = review[w].target
  <2>1. review'[w] = review[w] /\ Guards(w)
    BY <1>1, <1>5
  <2> QED BY <2>1 DEF Guards
<1>6. active' >= active
  BY <1>3
<1> QED BY <1>2, <1>4, <1>5, <1>6, SameRevision

\* Replacement sources put an item and what depends on it under review.
LEMMA ReplacementKeeps ==
  ASSUME PlanningInv, NEW d \in Drafts, NEW r \in Current, ProposeReplacement(d, r)
  PROVE  PlanningInv'
<1> USE DEF PlanningInv
<1> DEFINE v == Replacement(d)
           guarded == Affected({r})
<1>1. v \in Reviews /\ v.type = "source_replacement"
  BY ReviewsNamed
<1>2. guarded \subseteq Current /\ r \in guarded /\ guarded \in SUBSET Refs
  BY AffectedClosed, CurrentTyped
<1>3. /\ item[r].strategy = active
      /\ \A s \in guarded : /\ ~Claimed(s) /\ state[s].status = "queued"
                            /\ state[s].disposition = None
  BY DEF ProposeReplacement
<1>4. active \in Strategies /\ active \in Nat /\ plan \in Nat
  BY CurrentTyped, StrategyAssumption DEF TypeOK, StrategyTypeOK, Strategies
<1>5. /\ UNCHANGED <<strategyVars, plan, planned, item, work>> /\ Suspend(guarded, v)
      /\ review' = [review EXCEPT ![v] = UnderReview(v, guarded, active)]
  BY DEF ProposeReplacement
<1>6. \A s \in guarded : Known(s) /\ item[s].strategy = active
  <2>1. ASSUME NEW s \in guarded PROVE item[s].strategy = planned[plan].strategy
    BY <1>2, <1>3 DEF UnderPlan, Idle
  <2>2. \A s \in guarded : item[s].strategy = planned[plan].strategy
    BY <2>1
  <2> HIDE DEF guarded
  <2> QED BY <2>2, <1>2, <1>3 DEF Catalogue
<1> HIDE DEF v, guarded
<1>7. \A s \in guarded : state[s].status # "completed"
  BY <1>3
<1>8. PICK k \in Review :
        /\ k = UnderReview(v, guarded, active) /\ k.state = "pending" /\ k.guarded = guarded
        /\ k.plan = plan /\ k.target = active
        /\ \A s \in Refs : k.previous[s].status # "completed"
  BY <1>2, <1>4, <1>7, UnderReviewEffect
<1>9. /\ state' \in [Refs -> State]
      /\ \A s \in Refs :
              /\ s \notin guarded => state'[s] = state[s]
              /\ s \in guarded => /\ state'[s].status = "requires_disposition"
                                  /\ state'[s].disposition = v /\ state'[s].bound = state[s].bound
  BY <1>1, <1>5, SuspendEffect
<1>10. ASSUME NEW s \in Refs PROVE (Idle(s)' => Idle(s)) /\ Waits(s)'
  <2>1. Waits(s) /\ work' = work
    BY <1>5
  <2>2. CASE s \in guarded
    BY <1>3, <1>9, <2>1, <2>2 DEF Idle, Waits
  <2>3. CASE s \notin guarded
    BY <1>9, <2>1, <2>3 DEF Idle, Waits, Claimed
  <2> QED BY <2>2, <2>3
<1>11. review' = [review EXCEPT ![v] = k]
  BY <1>5, <1>8
<1>12. /\ k.target <= active /\ k.plan <= plan /\ v.type # "strategy_rebase"
       /\ \A s \in k.guarded : Known(s) /\ item[s].strategy = k.target
  BY <1>1, <1>4, <1>6, <1>8
<1>13. \A s \in Refs : k.previous[s].status # "completed"
  BY <1>8
<1>14. UNCHANGED <<strategyVars, plan, planned, item, work>> /\ state' \in [Refs -> State]
  BY <1>5, <1>9
<1> QED BY <1>1, <1>10, <1>11, <1>12, <1>13, <1>14, OneReview

\* Items whose disposition is written, or cleared, and nothing else.
LEMMA DispositionEffect ==
  ASSUME TypeOK, NEW guarded, NEW d \in Reviews \cup {None},
         state' = [r \in Refs |-> IF r \in guarded THEN [state[r] EXCEPT !.disposition = d] ELSE state[r]]
  PROVE  /\ state' \in [Refs -> State]
         /\ \A r \in Refs : /\ state'[r].status = state[r].status /\ state'[r].bound = state[r].bound
                            /\ state'[r].disposition \in {d, state[r].disposition}
<1>1. ASSUME NEW r \in Refs
      PROVE  /\ state'[r] \in State
             /\ state'[r].status = state[r].status /\ state'[r].bound = state[r].bound
             /\ state'[r].disposition \in {d, state[r].disposition}
  <2>1. state[r] \in State
    BY DEF TypeOK
  <2>2. CASE r \in guarded
    <3>1. state'[r] = [state[r] EXCEPT !.disposition = d]
      BY <2>2, Zenon
    <3> QED BY <2>1, <3>1 DEF State
  <2>3. CASE r \notin guarded
    <3>1. state'[r] = state[r]
      BY <2>3, Zenon
    <3> QED BY <2>1, <3>1
  <2> QED BY <2>2, <2>3
<1>2. state' = [r \in Refs |-> state'[r]]
  BY Zenon
<1>3. state' \in [Refs -> State]
  BY <1>1, <1>2
<1> QED BY <1>1, <1>3

\* The operator declines a calendar change.
LEMMA CalendarKeeps ==
  ASSUME PlanningInv, NEW q \in Requests, DeclineCalendar(q)
  PROVE  PlanningInv'
<1> USE DEF PlanningInv
<1> DEFINE v == Calendar(q)
           k == [review[v] EXCEPT !.state = "declined"]
<1>1. v \in Reviews
  BY ReviewsNamed
<1>2. review[v] \in Review /\ Guards(v)
  BY <1>1 DEF TypeOK
<1>3. k \in Review /\ k.state = "declined" /\ k.previous = review[v].previous
  BY <1>2 DEF Review
<1>4. /\ UNCHANGED <<strategyVars, plan, planned, item, work>>
      /\ state' = [r \in Refs |-> IF r \in review[v].guarded
           THEN [state[r] EXCEPT !.disposition = None] ELSE state[r]]
  BY Zenon DEF DeclineCalendar
<1>5. review' = [review EXCEPT ![v] = k]
  BY <1>1, Zenon DEF DeclineCalendar
<1>6. /\ state' \in [Refs -> State]
      /\ \A r \in Refs : /\ state'[r].status = state[r].status /\ state'[r].bound = state[r].bound
                         /\ state'[r].disposition \in {None, state[r].disposition}
  BY <1>4, DispositionEffect
<1>7. ASSUME NEW r \in Refs PROVE (Idle(r)' => Idle(r)) /\ Waits(r)'
  <2>1. Waits(r) /\ work' = work
    BY <1>4
  <2> QED BY <1>6, <2>1 DEF Idle, Waits, Claimed
<1>8. \A r \in Refs : k.previous[r].status # "completed"
  BY <1>2, <1>3 DEF Guards
<1> HIDE DEF v, k
<1> QED BY <1>1, <1>3, <1>4, <1>5, <1>6, <1>7, <1>8, OneReview

\* The operator declines a rebase or a replacement: the items it guards are
\* cancelled, or as they were.
LEMMA DeclineKeeps ==
  ASSUME PlanningInv, NEW v \in Reviews, NEW decision \in {"cancel", "keep"}, Decline(v, decision)
  PROVE  PlanningInv'
<1> USE DEF PlanningInv
<1> DEFINE k == [review[v] EXCEPT !.state = "declined"]
           back == decision # "cancel" /\ v.type # "strategy_rebase"
<1>2. review[v] \in Review /\ Guards(v)
  BY DEF TypeOK
<1>3. k \in Review /\ k.state = "declined" /\ k.previous = review[v].previous
  BY <1>2 DEF Review
<1>4. UNCHANGED <<strategyVars, plan, planned, item, work>>
  BY Zenon DEF Decline
<1>5. review' = [review EXCEPT ![v] = k]
  BY Zenon DEF Decline
<1>6. /\ v.type # "calendar_change"
      /\ \A r \in review[v].guarded : ~Claimed(r) /\ state[r].disposition = v
  <2>1. Disposable(v)
    BY Zenon DEF Decline
  <2> QED BY <2>1 DEF Disposable, Answerable
<1>7. \A r \in Refs : review[v].previous[r].status # "completed"
  BY <1>2 DEF Guards
<1>8. ASSUME NEW r \in Refs, r \in review[v].guarded
      PROVE  /\ state'[r] \in State /\ state'[r].disposition = None
             /\ state'[r].status # "completed"
  <2>1. PICK p \in State : p = review[v].previous[r]
    BY <1>2 DEF Review
  <2>2. PICK s \in Statuses : s = IF decision = "cancel" \/ v.type = "strategy_rebase"
                                  THEN "cancelled" ELSE p.status
    BY <2>1 DEF State, Statuses
  <2>3. state'[r] = [review[v].previous[r] EXCEPT !.disposition = None,
             !.status = IF decision = "cancel" \/ v.type = "strategy_rebase"
                        THEN "cancelled" ELSE @]
    BY <1>8, Zenon DEF Decline
  <2>4. state'[r] = [p EXCEPT !.disposition = None, !.status = s]
    BY <2>1, <2>2, <2>3 DEF State
  <2>5. p.status # "completed" /\ s # "completed"
    BY <1>7, <2>1, <2>2
  <2> QED BY <2>4, <2>5 DEF State
<1>9. \A r \in Refs : r \notin review[v].guarded => state'[r] = state[r]
  BY Zenon DEF Decline
<1>10. state' = [r \in Refs |-> state'[r]]
  BY Zenon DEF Decline
<1>11. \A r \in Refs : state'[r] \in State
  BY <1>8, <1>9 DEF TypeOK
<1>12. state' \in [Refs -> State]
  BY <1>10, <1>11
<1>13. ASSUME NEW r \in Refs PROVE (Idle(r)' => Idle(r)) /\ Waits(r)'
  <2>1. Waits(r) /\ work' = work
    BY <1>4
  <2>2. CASE r \in review[v].guarded
    <3>1. Idle(r)
      BY <1>6, <2>1, <2>2, ReviewsNamed DEF Idle, Waits
    <3> QED BY <1>8, <2>2, <3>1 DEF Waits
  <2>3. CASE r \notin review[v].guarded
    BY <1>9, <2>1, <2>3 DEF Idle, Waits, Claimed
  <2> QED BY <2>2, <2>3
<1>14. \A r \in Refs : k.previous[r].status # "completed"
  BY <1>3, <1>7
<1> HIDE DEF k
<1> QED BY <1>3, <1>4, <1>5, <1>12, <1>13, <1>14, OneReview

----------------------------------------------------------------------------
(* A step that makes a revision of the plan.                                *)

\* What holds of the new revision is enough: jobs, records and reviews that
\* the step leaves alone follow. A pending review is of an older revision then,
\* so a rebase could no longer be accepted.
LEMMA NextRevision ==
  ASSUME PlanningInv, TypeOK', active' = active, UNCHANGED work, plan' = plan + 1,
         Catalogue', DependenciesReachable', UnderPlan',
         \A r \in Refs : work[r].there => r \in Current',
         \A r \in Refs : Waits(r)',
         \A r \in Refs : Known(r) => Known(r)' /\ item'[r] = item[r],
         \A v \in Reviews :
           /\ \A r \in Refs : review'[v].previous[r].status # "completed"
           /\ review'[v].state = "pending" => review'[v] = review[v]
  PROVE  PlanningInv'
<1> USE DEF PlanningInv
<1>1. Executed'
  BY DEF Executed
<1>2. ASSUME NEW v \in Reviews PROVE Guards(v)'
  <2>1. SUFFICES ASSUME review'[v].state = "pending" PROVE Guards(v)'
    BY DEF Guards
  <2>2. review'[v] = review[v] /\ Guards(v) /\ review[v] \in Review
    BY <2>1 DEF TypeOK
  <2>3. /\ review[v].target <= active /\ review[v].plan <= plan
        /\ v.type = "source_replacement" =>
             \A r \in review[v].guarded : Known(r) /\ item[r].strategy = review[v].target
    BY <2>1, <2>2 DEF Guards
  <2>4. plan \in Nat /\ review[v].plan \in Nat /\ review[v].guarded \subseteq Refs
    BY <2>2, CurrentTyped, PlanningAssumption DEF Review
  <2>5. review[v].plan <= plan' /\ review[v].plan # plan'
    BY <2>3, <2>4
  <2>6. v.type = "source_replacement" =>
          \A r \in review[v].guarded : Known(r)' /\ item'[r].strategy = review[v].target
    BY <2>3, <2>4
  <2> QED BY <2>1, <2>2, <2>3, <2>5, <2>6 DEF Guards
<1> QED BY <1>1, <1>2

\* The first revision of a plan, of whatever items, under one strategy.
LEMMA NewPlanKeeps ==
  ASSUME PlanningInv, StrategyTypeOK', active' = active, NEW deps, DOMAIN deps \subseteq Items,
         \A x \in DOMAIN deps : deps[x] \subseteq DOMAIN deps,
         NEW strategy \in Strategies, NewPlan(deps, strategy)
  PROVE  PlanningInv'
<1> USE DEF PlanningInv
<1>1. /\ plan = 0 /\ plan' = 1 /\ UNCHANGED <<state, work, review>>
      /\ Current = {} /\ \A r \in Refs : ~Known(r)
      /\ MaxPlan \in Nat \ {0}
  BY PlanningAssumption DEF NewPlan, Current, Catalogue
<1> DEFINE items == {First(x) : x \in DOMAIN deps}
<1>2. \A r \in items : r \in Refs /\ r.rev = 1 /\ r.id \in DOMAIN deps /\ r = First(r.id)
  BY <1>1 DEF First, Refs
<1>3. \A r \in Refs : r.rev = 1 /\ r.id \in DOMAIN deps => r \in items
  BY DEF First, Refs
<1>4. /\ planned' = [planned EXCEPT ![1] = [strategy |-> strategy, items |-> items]]
      /\ item' = [r \in Refs |->
           IF r.rev = 1 /\ r.id \in DOMAIN deps
           THEN [plan |-> 1, strategy |-> strategy, deps |-> {First(x) : x \in deps[r.id]}]
           ELSE item[r]]
  BY DEF NewPlan
<1> HIDE DEF items
<1>5. /\ planned' \in [1..MaxPlan -> [strategy: Strategies, items: SUBSET Refs]]
      /\ planned'[1].strategy = strategy /\ planned'[1].items = items
  BY <1>1, <1>2, <1>4 DEF TypeOK
<1>6. Current' = items /\ items \subseteq Refs
  BY <1>1, <1>2, <1>5 DEF Current
<1>7. ASSUME NEW r \in Refs
      PROVE  /\ r \in items => /\ item'[r].plan = 1 /\ item'[r].strategy = strategy
                               /\ item'[r].deps = {First(x) : x \in deps[r.id]}
                               /\ item'[r] \in Item
             /\ r \notin items => item'[r] = item[r]
  <2>1. CASE r \in items
    <3>1. item'[r] = [plan |-> 1, strategy |-> strategy, deps |-> {First(x) : x \in deps[r.id]}]
      BY <1>2, <1>4, <2>1
    <3>2. {First(x) : x \in deps[r.id]} \subseteq Refs
      BY <1>1, <1>2, <2>1 DEF First, Refs
    <3> QED BY <1>1, <2>1, <3>1, <3>2 DEF Item
  <2>2. CASE r \notin items
    BY <1>3, <1>4, <2>2
  <2> QED BY <2>1, <2>2
<1>8. item' \in [Refs -> Item]
  <2>1. \A r \in Refs : item'[r] \in Item
    BY <1>7 DEF TypeOK
  <2>2. item' = [r \in Refs |-> item'[r]]
    BY <1>4
  <2> QED BY <2>1, <2>2
<1>9. TypeOK'
  BY <1>1, <1>5, <1>8 DEF TypeOK
<1>10. Catalogue'
  <2>1. ASSUME NEW r \in Refs PROVE Known(r)' <=> r \in items
    BY <1>1, <1>7 DEF Known
  <2>2. \A r \in items : Known(r)' /\ r.rev <= plan'
    BY <1>1, <1>2, <2>1
  <2>3. \A r, s \in items : r.id = s.id => r = s
    BY <1>2
  <2>4. ASSUME NEW r \in Refs, Known(r)'
        PROVE  /\ \E s \in items : s.id = r.id /\ r.rev <= s.rev
               /\ item'[r].plan <= plan' /\ r \in planned'[item'[r].plan].items
               /\ planned'[item'[r].plan].strategy = item'[r].strategy
    BY <1>1, <1>2, <1>5, <1>7, <2>1, <2>4
  <2> QED BY <1>6, <2>2, <2>3, <2>4 DEF Catalogue
<1>11. DependenciesReachable'
  <2>1. ASSUME NEW r \in items PROVE item'[r].deps \subseteq items
    <3>1. item'[r].deps = {First(x) : x \in deps[r.id]} /\ deps[r.id] \subseteq DOMAIN deps
      BY <1>2, <1>6, <1>7
    <3> QED BY <3>1 DEF items
  <2> QED BY <1>6, <2>1 DEF DependenciesReachable
<1>12. UnderPlan'
  BY <1>1, <1>5, <1>6, <1>7 DEF UnderPlan
<1>13. \A r \in Refs : Waits(r)'
  BY <1>1 DEF Waits, Claimed
<1>14. \A r \in Refs : work[r].there => r \in Current'
  BY <1>1 DEF Executed
<1>15. \A v \in Reviews : /\ \A r \in Refs : review'[v].previous[r].status # "completed"
                          /\ review'[v].state = "pending" => review'[v] = review[v]
  BY <1>1 DEF Guards
<1>16. UNCHANGED work /\ plan' = plan + 1
  BY <1>1
<1>17. \A r \in Refs : Known(r) => Known(r)' /\ item'[r] = item[r]
  BY <1>1
<1> QED BY <1>9, <1>10, <1>11, <1>12, <1>13, <1>14, <1>15, <1>16, <1>17, NextRevision

\* An item is added, after items of the plan.
LEMMA AddKeeps ==
  ASSUME PlanningInv, NEW x \in Items, NEW deps \in SUBSET Current, AddDeliverable(x, deps)
  PROVE  PlanningInv'
<1> USE DEF PlanningInv
<1> DEFINE n == First(x)
<1>0. /\ plan \in 1..(MaxPlan - 1) /\ MaxPlan \in Nat /\ plan \in Nat /\ plan' = plan + 1 /\ plan + 1 \in 1..MaxPlan
      /\ UNCHANGED <<strategyVars, state, work, review>>
      /\ Current \subseteq Refs
  BY CurrentTyped DEF AddDeliverable
<1>1. /\ n \in Refs /\ n.id = x /\ n.rev = 1 /\ \A r \in Current : r.id # x
      /\ \A r \in Refs : Known(r) => r # n
  <2>1. n \in Refs /\ n.id = x /\ n.rev = 1 /\ \A r \in Current : r.id # x
    BY <1>0 DEF First, Refs, AddDeliverable
  <2> QED BY <2>1 DEF Catalogue
<1> DEFINE strategy == planned[plan].strategy
<1>2. /\ planned' = [planned EXCEPT ![plan + 1] = [strategy |-> strategy, items |-> Current \cup {n}]]
      /\ item' = [item EXCEPT ![n] = [plan |-> plan + 1, strategy |-> strategy, deps |-> deps]]
  BY DEF AddDeliverable
<1> HIDE DEF n
<1>3. strategy \in Strategies /\ Current = planned[plan].items
  BY <1>0, CurrentTyped DEF TypeOK
<1>4. /\ planned' \in [1..MaxPlan -> [strategy: Strategies, items: SUBSET Refs]]
      /\ planned'[plan + 1].strategy = strategy /\ planned'[plan + 1].items = Current \cup {n}
      /\ \A m \in 1..plan : planned'[m] = planned[m]
  BY <1>0, <1>1, <1>2, <1>3 DEF TypeOK
<1>5. Current' = Current \cup {n}
  BY <1>0, <1>4 DEF Current
<1>6. /\ item' \in [Refs -> Item] /\ \A r \in Refs : r # n => item'[r] = item[r]
      /\ item'[n].plan = plan + 1 /\ item'[n].strategy = strategy /\ item'[n].deps = deps
  <2>1. [plan |-> plan + 1, strategy |-> strategy, deps |-> deps] \in Item
    BY <1>0, <1>3 DEF Item
  <2> QED BY <1>1, <1>2, <2>1 DEF TypeOK
<1>7. TypeOK'
  BY <1>0, <1>4, <1>6 DEF TypeOK, StrategyTypeOK, strategyVars
<1>8. Catalogue'
  <2>1. ASSUME NEW r \in Refs PROVE (Known(r)' <=> Known(r) \/ r = n)
    BY <1>0, <1>1, <1>6 DEF Known
  <2>2. \A r \in Current' : Known(r)' /\ r.rev <= plan'
    BY <1>0, <1>1, <1>5, <2>1, CurrentTyped DEF Catalogue, Refs
  <2>3. \A r, s \in Current' : r.id = s.id => r = s
    BY <1>1, <1>5 DEF Catalogue
  <2>4. ASSUME NEW r \in Refs, Known(r)'
        PROVE  /\ \E s \in Current' : s.id = r.id /\ r.rev <= s.rev
               /\ item'[r].plan <= plan' /\ r \in planned'[item'[r].plan].items
               /\ planned'[item'[r].plan].strategy = item'[r].strategy
    <3>1. CASE r = n
      BY <1>0, <1>1, <1>4, <1>5, <1>6, <3>1
    <3>2. CASE r # n
      <4>1. /\ Known(r) /\ item'[r] = item[r]
            /\ \E s \in Current : s.id = r.id /\ r.rev <= s.rev
            /\ item[r].plan <= plan /\ r \in planned[item[r].plan].items
            /\ planned[item[r].plan].strategy = item[r].strategy
        BY <1>6, <2>1, <2>4, <3>2 DEF Catalogue
      <4>2. item[r].plan \in 1..plan
        BY <1>0, <4>1 DEF TypeOK, Item, Known
      <4> QED BY <1>0, <1>4, <1>5, <4>1, <4>2
    <3> QED BY <3>1, <3>2
  <2> QED BY <2>2, <2>3, <2>4 DEF Catalogue
<1>9. DependenciesReachable'
  BY <1>0, <1>1, <1>5, <1>6 DEF DependenciesReachable
<1>10. UnderPlan'
  BY <1>0, <1>1, <1>4, <1>5, <1>6 DEF UnderPlan, Idle, Claimed
<1>11. \A r \in Refs : Waits(r)'
  BY <1>0 DEF Waits, Claimed
<1>12. \A r \in Refs : work[r].there => r \in Current'
  BY <1>5 DEF Executed
<1>13. \A v \in Reviews : /\ \A r \in Refs : review'[v].previous[r].status # "completed"
                          /\ review'[v].state = "pending" => review'[v] = review[v]
  BY <1>0 DEF Guards
<1>14. UNCHANGED work /\ plan' = plan + 1 /\ active' = active
  BY <1>0 DEF strategyVars
<1>15. \A r \in Refs : Known(r) => Known(r)' /\ item'[r] = item[r]
  BY <1>1, <1>6 DEF Known
<1> QED BY <1>7, <1>8, <1>9, <1>10, <1>11, <1>12, <1>13, <1>14, <1>15, NextRevision

\* The next revision of some items, none of which has a job, with whatever
\* depends on them, all under one strategy: that of what stays idle too.
LEMMA CommitKeeps ==
  ASSUME PlanningInv, UNCHANGED <<strategyVars, work>>, NEW S, S \subseteq Current, NEW pin, NEW strategy \in Strategies,
         Commit(S, pin, strategy), Closed(S), plan # 0,
         \A r \in S : ~Claimed(r) /\ pin[r] = strategy,
         \A r \in Current \ S : Idle(r) => item[r].strategy = strategy,
         review' \in [Reviews -> Review],
         \A v \in Reviews :
           /\ \A r \in Refs : review'[v].previous[r].status # "completed"
           /\ review'[v].state = "pending" => review'[v] = review[v]
  PROVE  PlanningInv'
<1> USE DEF PlanningInv
<1>0. /\ plan < MaxPlan /\ MaxPlan \in Nat /\ plan \in Nat /\ plan' = plan + 1 /\ plan + 1 \in 1..MaxPlan
      /\ plan \in 1..MaxPlan /\ Current = planned[plan].items
      /\ Current \subseteq Refs
  BY CurrentTyped DEF Commit
<1>1. ASSUME NEW r \in Current
      PROVE  /\ Successor(r) \in Refs /\ Successor(r).id = r.id /\ Successor(r).rev = r.rev + 1
             /\ r.rev \in Nat /\ [Successor(r) EXCEPT !.rev = @ - 1] = r
             /\ ~Known(Successor(r)) /\ Successor(r) \notin Current
  <2>1. r \in Refs /\ r.rev <= plan
    BY <1>0 DEF Catalogue
  <2>2. /\ Successor(r) \in Refs /\ Successor(r).id = r.id /\ Successor(r).rev = r.rev + 1
        /\ r.rev \in Nat
    BY <1>0, <2>1 DEF Successor, Refs
  <2>3. [Successor(r) EXCEPT !.rev = @ - 1] = r
    <3>1. PICK q \in Refs : q = Successor(r) /\ q.id = r.id /\ q.rev = r.rev + 1
      BY <2>2
    <3>2. [q EXCEPT !.rev = @ - 1] = [id |-> q.id, rev |-> q.rev - 1]
      BY DEF Refs
    <3>3. r = [id |-> r.id, rev |-> r.rev] /\ q.rev - 1 = r.rev
      BY <2>1, <2>2, <3>1 DEF Refs
    <3> QED BY <3>1, <3>2, <3>3
  <2>4. ASSUME Known(Successor(r)) PROVE FALSE
    <3>1. PICK s \in Current : s.id = r.id /\ r.rev + 1 <= s.rev
      BY <2>2, <2>4 DEF Catalogue
    <3>2. s = r
      BY <3>1 DEF Catalogue
    <3> QED BY <2>2, <3>1, <3>2
  <2>5. Successor(r) \notin Current
    BY <2>4 DEF Catalogue
  <2> QED BY <2>2, <2>3, <2>4, <2>5
<1> DEFINE items == {Revised(S, r) : r \in Current}
<1>2. ASSUME NEW r \in Current PROVE /\ Revised(S, r) = (IF r \in S THEN Successor(r) ELSE r)
                                     /\ Revised(S, r) \in Refs /\ Revised(S, r).id = r.id
                                     /\ Revised(S, r).rev <= plan + 1 /\ r.rev <= Revised(S, r).rev
  <2>1. r.rev <= plan /\ r \in Refs /\ r.rev \in Nat
    BY <1>0, <1>1 DEF Catalogue
  <2> QED BY <1>0, <1>1, <2>1 DEF Revised
<1>3. items \subseteq Refs
  BY <1>2
<1>4. /\ planned' = [planned EXCEPT ![plan + 1] = [strategy |-> strategy, items |-> items]]
      /\ item' = [n \in Refs |->
           IF \E r \in S : n = Successor(r)
           THEN LET r == [n EXCEPT !.rev = @ - 1] IN
                [plan |-> plan + 1, strategy |-> pin[r], deps |-> {Revised(S, d) : d \in item[r].deps}]
           ELSE item[n]]
      /\ state' = [n \in Refs |-> IF \E r \in S : n = Successor(r) THEN Fresh ELSE state[n]]
  BY Zenon DEF Commit
<1> HIDE DEF items
<1>5. /\ planned' \in [1..MaxPlan -> [strategy: Strategies, items: SUBSET Refs]]
      /\ planned'[plan + 1].strategy = strategy /\ planned'[plan + 1].items = items
      /\ \A m \in 1..plan : planned'[m] = planned[m]
  BY <1>0, <1>3, <1>4 DEF TypeOK
<1>6. Current' = items
  BY <1>0, <1>5 DEF Current
\* What the successors are.
<1>7. ASSUME NEW r \in S
      PROVE  /\ item'[Successor(r)].plan = plan + 1 /\ item'[Successor(r)].strategy = strategy
             /\ item'[Successor(r)].deps = {Revised(S, d) : d \in item[r].deps}
             /\ item'[Successor(r)] \in Item /\ state'[Successor(r)] = Fresh
  <2>1. Successor(r) \in Refs /\ [Successor(r) EXCEPT !.rev = @ - 1] = r /\ pin[r] = strategy /\ r \in Current
    BY <1>1
  <2>2. item'[Successor(r)] =
          [plan |-> plan + 1, strategy |-> strategy, deps |-> {Revised(S, d) : d \in item[r].deps}]
    <3>1. \E q \in S : Successor(r) = Successor(q)
      OBVIOUS
    <3>2. item'[Successor(r)] = LET q == [Successor(r) EXCEPT !.rev = @ - 1] IN
            [plan |-> plan + 1, strategy |-> pin[q], deps |-> {Revised(S, d) : d \in item[q].deps}]
      BY <1>4, <2>1, <3>1, Zenon
    <3> QED BY <2>1, <3>2, Zenon
  <2>3. {Revised(S, d) : d \in item[r].deps} \subseteq Refs
    BY <1>2, <2>1 DEF DependenciesReachable
  <2>4. state'[Successor(r)] = Fresh
    BY <1>4, <2>1, Zenon
  <2> QED BY <1>0, <2>2, <2>3, <2>4 DEF Item
<1>8. ASSUME NEW n \in Refs, \A r \in S : n # Successor(r)
      PROVE  item'[n] = item[n] /\ state'[n] = state[n]
  BY <1>4, <1>8, Zenon
<1>9. ASSUME NEW n \in Refs, Known(n)
      PROVE  /\ item'[n] = item[n] /\ state'[n] = state[n] /\ Known(n)'
  <2>1. \A r \in S : n # Successor(r)
    BY <1>1, <1>9
  <2>2. item'[n] = item[n] /\ state'[n] = state[n]
    BY <1>8, <2>1
  <2> QED BY <1>9, <2>2 DEF Known
<1>10. item' \in [Refs -> Item] /\ state' \in [Refs -> State]
  <2>1. ASSUME NEW n \in Refs PROVE item'[n] \in Item /\ state'[n] \in State
    <3>1. CASE \A r \in S : n # Successor(r)
      BY <1>8, <3>1 DEF TypeOK
    <3>2. CASE \E r \in S : n = Successor(r)
      BY <1>7, <3>2, FreshTyped
    <3> QED BY <3>1, <3>2
  <2>2. item' = [n \in Refs |-> item'[n]] /\ state' = [n \in Refs |-> state'[n]]
    BY <1>4, Zenon
  <2>3. item' \in [Refs -> Item]
    BY <2>1, <2>2
  <2>4. state' \in [Refs -> State]
    BY <2>1, <2>2
  <2> QED BY <2>3, <2>4
<1>11. TypeOK'
  BY <1>0, <1>5, <1>10 DEF TypeOK, StrategyTypeOK, strategyVars
\* A current revision is one that was, and is kept, or the successor of one.
<1>12. ASSUME NEW n \in items
       PROVE  \/ n \in Current /\ n \notin S /\ Known(n)
              \/ \E r \in S : n = Successor(r)
  BY <1>2 DEF items, Catalogue
<1>13. Catalogue'
  <2>1. \A n \in items : Known(n)' /\ n.rev <= plan'
    <3>1. ASSUME NEW n \in items PROVE Known(n)' /\ n.rev <= plan'
      <4>1. n.rev <= plan'
        BY <1>0, <1>2 DEF items
      <4>2. CASE n \in Current /\ n \notin S /\ Known(n)
        BY <1>0, <1>9, <4>1, <4>2
      <4>3. CASE \E r \in S : n = Successor(r)
        BY <1>0, <1>7, <4>1, <4>3 DEF Known
      <4> QED BY <1>12, <4>2, <4>3
    <3> QED BY <3>1
  <2>2. \A n, m \in items : n.id = m.id => n = m
    <3>1. ASSUME NEW n \in items, NEW m \in items, n.id = m.id PROVE n = m
      <4>1. PICK r \in Current : n = Revised(S, r)
        BY DEF items
      <4>2. PICK s \in Current : m = Revised(S, s)
        BY DEF items
      <4>3. r.id = s.id
        BY <1>2, <3>1, <4>1, <4>2
      <4>4. r = s
        BY <4>3 DEF Catalogue
      <4> QED BY <4>1, <4>2, <4>4
    <3> QED BY <3>1
  <2>3. ASSUME NEW n \in Refs, Known(n)'
        PROVE  /\ \E s \in items : s.id = n.id /\ n.rev <= s.rev
               /\ item'[n].plan <= plan' /\ n \in planned'[item'[n].plan].items
               /\ planned'[item'[n].plan].strategy = item'[n].strategy
    <3>1. CASE \E r \in S : n = Successor(r)
      <4>1. PICK r \in S : n = Successor(r)
        BY <3>1
      <4>2. n \in items /\ n.rev \in Nat
        BY <1>1, <1>2, <4>1 DEF items
      <4> QED BY <1>0, <1>5, <1>7, <4>1, <4>2
    <3>2. CASE \A r \in S : n # Successor(r)
      <4>1. item'[n] = item[n] /\ Known(n)
        BY <1>8, <2>3, <3>2 DEF Known
      <4>2. /\ item[n].plan <= plan /\ n \in planned[item[n].plan].items
            /\ planned[item[n].plan].strategy = item[n].strategy
        BY <4>1 DEF Catalogue
      <4>3. PICK s \in Current : s.id = n.id /\ n.rev <= s.rev
        BY <4>1 DEF Catalogue
      <4>4. Revised(S, s) \in items /\ Revised(S, s).id = n.id /\ n.rev <= Revised(S, s).rev
        <5>1. /\ Revised(S, s).id = s.id /\ s.rev <= Revised(S, s).rev /\ Revised(S, s) \in Refs
              /\ Revised(S, s) \in items
          BY <1>2 DEF items
        <5>2. n.rev \in Nat /\ s.rev \in Nat /\ Revised(S, s).rev \in Nat
          BY <1>0, <5>1 DEF Refs
        <5> QED BY <4>3, <5>1, <5>2
      <4>5. item[n].plan \in 1..plan
        BY <1>0, <4>1, <4>2 DEF TypeOK, Item, Known
      <4> QED BY <1>0, <1>5, <4>1, <4>2, <4>4, <4>5
    <3> QED BY <3>1, <3>2
  <2> QED BY <1>6, <2>1, <2>2, <2>3 DEF Catalogue
<1>14. DependenciesReachable'
  <2>1. ASSUME NEW n \in items PROVE item'[n].deps \subseteq items
    <3>1. CASE n \in Current /\ n \notin S /\ Known(n)
      <4>1. item'[n] = item[n] /\ item[n].deps \subseteq Current
        BY <1>0, <1>9, <3>1 DEF DependenciesReachable
      <4>2. \A d \in item[n].deps : d \notin S
        BY <3>1 DEF Closed
      <4>3. \A d \in item[n].deps : Revised(S, d) = d
        BY <4>2 DEF Revised
      <4> QED BY <4>1, <4>3 DEF items
    <3>2. CASE \E r \in S : n = Successor(r)
      <4>1. PICK r \in S : n = Successor(r)
        BY <3>2
      <4>2. item'[n].deps = {Revised(S, d) : d \in item[r].deps} /\ item[r].deps \subseteq Current
        BY <1>7, <4>1 DEF DependenciesReachable
      <4> QED BY <4>2 DEF items
    <3> QED BY <1>12, <3>1, <3>2
  <2> QED BY <1>6, <2>1 DEF DependenciesReachable
<1>15. UnderPlan'
  <2>1. ASSUME NEW n \in items, Idle(n)' PROVE item'[n].strategy = strategy
    <3>1. CASE n \in Current /\ n \notin S /\ Known(n)
      <4>1. item'[n] = item[n] /\ state'[n] = state[n]
        BY <1>0, <1>9, <3>1
      <4>2. Idle(n)
        BY <2>1, <4>1 DEF Idle, Claimed
      <4> QED BY <3>1, <4>1, <4>2
    <3>2. CASE \E r \in S : n = Successor(r)
      BY <1>7, <3>2
    <3> QED BY <1>12, <3>1, <3>2
  <2> QED BY <1>0, <1>5, <1>6, <2>1 DEF UnderPlan
<1>16. \A n \in Refs : Waits(n)'
  <2>1. ASSUME NEW n \in Refs PROVE Waits(n)'
    <3>1. CASE \E r \in S : n = Successor(r)
      BY <1>7, <3>1 DEF Waits, Fresh
    <3>2. CASE \A r \in S : n # Successor(r)
      <4>1. state'[n] = state[n] /\ work' = work /\ Waits(n)
        BY <1>8, <3>2
      <4> QED BY <4>1 DEF Waits, Claimed
    <3> QED BY <3>1, <3>2
  <2> QED BY <2>1
<1>17. ASSUME NEW r \in Refs, work[r].there PROVE r \in Current'
  <2>1. r \in Current /\ r \notin S
    BY <1>17 DEF Executed, Claimed
  <2> QED BY <1>2, <1>6, <2>1 DEF items
<1>18. active' = active /\ UNCHANGED work /\ plan' = plan + 1
  BY <1>0 DEF strategyVars
<1> QED BY <1>9, <1>11, <1>13, <1>14, <1>15, <1>16, <1>17, <1>18, NextRevision

\* The move of an item is carried out, or put under a calendar review.
LEMMA ReplanKeeps ==
  ASSUME PlanningInv, NEW q \in Requests, NEW r \in Current, NEW conflict \in BOOLEAN, Replan(q, r, conflict)
  PROVE  PlanningInv'
<1> USE DEF PlanningInv
<1> DEFINE S == Affected({r})
           guarded == Untouchable(r, S)
           v == Calendar(q)
<1>1. v \in Reviews /\ v.type = "calendar_change" /\ S \subseteq Current /\ r \in S /\ Closed(S)
      /\ Current \subseteq Refs /\ guarded \subseteq S
  BY ReviewsNamed, CurrentTyped, AffectedClosed DEF Untouchable
<1>2. UNCHANGED <<strategyVars, work>>
  BY Zenon DEF Replan
<1>3. \/ /\ review' = [review EXCEPT ![v] = [NoReview EXCEPT !.state = "pending", !.guarded = guarded]]
         /\ state' = [s \in Refs |-> IF s \in guarded
                         THEN [state[s] EXCEPT !.disposition = v] ELSE state[s]]
         /\ UNCHANGED <<plan, planned, item>>
      \/ /\ guarded = {} /\ Commit(S, Pins(S), planned[plan].strategy)
         /\ review' = [review EXCEPT ![v].state = "applied"]
  BY Zenon DEF Replan, Moved
<1> HIDE DEF v
<1>4. CASE /\ review' = [review EXCEPT ![v] = [NoReview EXCEPT !.state = "pending", !.guarded = guarded]]
           /\ state' = [s \in Refs |-> IF s \in guarded
                         THEN [state[s] EXCEPT !.disposition = v] ELSE state[s]]
           /\ UNCHANGED <<plan, planned, item>>
  <2> HIDE DEF guarded, S
  <2>1. PICK k \in Review :
          /\ k = [NoReview EXCEPT !.state = "pending", !.guarded = guarded]
          /\ k.previous = [s \in Refs |-> Fresh] /\ k.plan = 0 /\ k.target = 0
    <3>1. NoReview \in Review /\ guarded \in SUBSET Refs
      BY <1>1, NoReviewTyped
    <3>2. /\ [NoReview EXCEPT !.state = "pending", !.guarded = guarded] \in Review
          /\ [NoReview EXCEPT !.state = "pending", !.guarded = guarded].previous = NoReview.previous
          /\ [NoReview EXCEPT !.state = "pending", !.guarded = guarded].plan = NoReview.plan
          /\ [NoReview EXCEPT !.state = "pending", !.guarded = guarded].target = NoReview.target
      BY <3>1 DEF Review
    <3>3. NoReview.previous = [s \in Refs |-> Fresh] /\ NoReview.plan = 0 /\ NoReview.target = 0
      BY DEF NoReview
    <3> QED BY <3>2, <3>3, Zenon
  <2>2. /\ state' \in [Refs -> State]
        /\ \A s \in Refs : /\ state'[s].status = state[s].status /\ state'[s].bound = state[s].bound
                           /\ state'[s].disposition \in {v, state[s].disposition}
    BY <1>1, <1>4, DispositionEffect
  <2>3. ASSUME NEW s \in Refs PROVE (Idle(s)' => Idle(s)) /\ Waits(s)'
    <3>1. Waits(s) /\ work' = work
      BY <1>2
    <3> QED BY <1>1, <2>2, <3>1 DEF Idle, Waits, Claimed
  <2>4. \A s \in Refs : k.previous[s].status # "completed"
    BY <2>1 DEF Fresh
  <2>5. k.target <= active /\ k.plan <= plan /\ v.type # "strategy_rebase" /\ v.type # "source_replacement"
    BY <1>1, <2>1, CurrentTyped, StrategyAssumption DEF TypeOK, StrategyTypeOK, Strategies
  <2>6. /\ UNCHANGED <<strategyVars, plan, planned, item, work>>
        /\ review' = [review EXCEPT ![v] = k]
    BY <1>2, <1>4, <2>1, Zenon
  <2> QED BY <1>1, <2>2, <2>3, <2>4, <2>5, <2>6, OneReview
<1>5. CASE /\ guarded = {} /\ Commit(S, Pins(S), planned[plan].strategy)
           /\ review' = [review EXCEPT ![v].state = "applied"]
  <2>1. \A d \in S : ~Claimed(d) /\ state[d].status # "cancelled"
    BY <1>5 DEF Untouchable, Protected
  <2>2. \A d \in S : item[d].strategy = planned[plan].strategy
    BY <1>1, <2>1 DEF UnderPlan, Idle
  <2> HIDE DEF guarded, S
  <2>3. \A d \in S : Pins(S)[d] = planned[plan].strategy
    BY <2>2 DEF Pins
  <2>4. \A d \in Current \ S : Idle(d) => item[d].strategy = planned[plan].strategy
    BY DEF UnderPlan
  <2>5. plan # 0 /\ plan \in 1..MaxPlan /\ planned[plan].strategy \in Strategies
    BY CurrentTyped DEF TypeOK
  <2>6. \A w \in Reviews : review[w] \in Review /\ Guards(w)
    BY DEF TypeOK
  <2>7. ASSUME NEW w \in Reviews
        PROVE  /\ review'[w] \in Review /\ review'[w].previous = review[w].previous
               /\ review'[w].state = "pending" => review'[w] = review[w]
    <3>1. review[w] \in Review
      BY <2>6
    <3>2. CASE w = v
      <4>1. review'[w] = [review[w] EXCEPT !.state = "applied"]
        BY <1>5, <3>2 DEF TypeOK
      <4> QED BY <3>1, <4>1 DEF Review
    <3>3. CASE w # v
      BY <1>5, <3>1, <3>3 DEF TypeOK
    <3> QED BY <3>2, <3>3
  <2>8. review' \in [Reviews -> Review]
    <3>1. review' = [w \in Reviews |-> review'[w]]
      BY <1>5 DEF TypeOK
    <3> QED BY <2>7, <3>1
  <2>9. \A w \in Reviews : /\ \A s \in Refs : review'[w].previous[s].status # "completed"
                           /\ review'[w].state = "pending" => review'[w] = review[w]
    BY <2>6, <2>7 DEF Guards
  <2>10. Commit(S, Pins(S), planned[plan].strategy) /\ S \subseteq Current /\ Closed(S)
    BY <1>1, <1>5
  <2> QED BY <1>2, <2>1, <2>3, <2>4, <2>5, <2>8, <2>9, <2>10, CommitKeeps
<1> QED BY <1>3, <1>4, <1>5

\* A rebase or a replacement is accepted.
LEMMA AcceptKeeps ==
  ASSUME PlanningInv, NEW v \in Reviews, Accept(v)
  PROVE  PlanningInv'
<1> USE DEF PlanningInv
<1> DEFINE S == review[v].guarded
           target == review[v].target
<1>1. /\ Disposable(v) /\ plan = review[v].plan /\ Closed(S)
      /\ Commit(S, PinsAll(S, target), target)
      /\ review' = [review EXCEPT ![v].state = "approved"]
      /\ UNCHANGED <<strategyVars, work>>
  BY Zenon DEF Accept, PlanStrategy
<1>2. /\ review[v].state = "pending" /\ S # {} /\ v.type # "calendar_change"
      /\ \A r \in S : state[r].disposition = v /\ ~Claimed(r)
      /\ S \subseteq Current /\ active = target
  BY <1>1 DEF Disposable, Answerable
<1>3. review[v] \in Review /\ Guards(v) /\ target \in Strategies
  BY DEF TypeOK, Review
<1>4. v.type \in {"strategy_rebase", "source_replacement"}
  BY <1>2 DEF Reviews
<1>5. ASSUME NEW r \in Current \ S, Idle(r) PROVE item[r].strategy = target
  <2>1. CASE v.type = "strategy_rebase"
    BY <1>1, <1>2, <1>3, <1>5, <2>1 DEF Guards
  <2>2. CASE v.type = "source_replacement"
    <3>1. PICK g \in S : TRUE
      BY <1>2
    <3>2. g \in Refs /\ Waits(g) /\ ~Claimed(g) /\ state[g].disposition = v
      BY <1>2, <3>1, CurrentTyped
    <3>3. Idle(g)
      BY <1>2, <3>2, ReviewsNamed DEF Idle, Waits
    <3>4. item[g].strategy = planned[plan].strategy
      BY <1>2, <3>1, <3>3 DEF UnderPlan
    <3>5. item[g].strategy = target
      BY <1>2, <1>3, <2>2, <3>1 DEF Guards
    <3> QED BY <1>5, <3>4, <3>5 DEF UnderPlan
  <2> QED BY <1>4, <2>1, <2>2
<1>6. \A r \in S : ~Claimed(r) /\ PinsAll(S, target)[r] = target
  BY <1>2 DEF PinsAll
<1>7. plan # 0
  BY <1>2, CurrentTyped
<1>8. \A w \in Reviews : review[w] \in Review /\ Guards(w)
  BY DEF TypeOK
<1>9. ASSUME NEW w \in Reviews
      PROVE  /\ review'[w] \in Review /\ review'[w].previous = review[w].previous
             /\ review'[w].state = "pending" => review'[w] = review[w]
  <2>1. review[w] \in Review
    BY <1>8
  <2>2. CASE w = v
    <3>1. review'[w] = [review[w] EXCEPT !.state = "approved"]
      BY <1>1, <2>2 DEF TypeOK
    <3> QED BY <2>1, <3>1 DEF Review
  <2>3. CASE w # v
    BY <1>1, <2>1, <2>3 DEF TypeOK
  <2> QED BY <2>2, <2>3
<1>10. review' \in [Reviews -> Review]
  <2>1. review' = [w \in Reviews |-> review'[w]]
    BY <1>1 DEF TypeOK
  <2> QED BY <1>9, <2>1
<1>11. \A w \in Reviews : /\ \A s \in Refs : review'[w].previous[s].status # "completed"
                          /\ review'[w].state = "pending" => review'[w] = review[w]
  BY <1>8, <1>9 DEF Guards
<1> HIDE DEF S, target
<1> QED BY <1>1, <1>2, <1>3, <1>5, <1>6, <1>7, <1>10, <1>11, CommitKeeps

\* The pointer moves by one, to a revision that did not exist, or stays.
LEMMA PointerStep ==
  ASSUME StrategyTypeOK, [StrategyNext]_strategyVars
  PROVE  active' = active \/ (active' = active + 1 /\ active < MaxStrategy)
<1>1. ASSUME NEW j \in Jobs, \/ Propose(j) \/ NudgeStrategy(j) \/ AcceptPlan(j)
                              \/ \E stage \in JobStages : RedoStrategy(j, stage)
                              \/ \E o \in Ops : Confirm(o, j)
      PROVE  UNCHANGED active
  BY <1>1 DEF Propose, NudgeStrategy, AcceptPlan, RedoStrategy, Confirm
<1>2. ASSUME NEW c \in Changes, ProposeChange(c) \/ SupersedeChange(c) PROVE UNCHANGED active
  BY <1>2 DEF ProposeChange, SupersedeChange
<1>3. ASSUME NEW i \in Proposals, Expire(i) PROVE UNCHANGED active
  BY <1>3 DEF Expire
<1>4. ASSUME NEW o \in Ops, ConfirmationExpires(o) \/ LeaseEnds(o) PROVE UNCHANGED active
  BY <1>4 DEF ConfirmationExpires, LeaseEnds
<1>5. ASSUME NEW h \in Handlers,
              \/ \E o \in Ops, intent \in Decisions : ClaimConfirmation(h, o, intent)
              \/ ReadProposal(h) \/ FinalizeConfirmation(h) \/ FailConfirmation(h) \/ Abandon(h)
      PROVE  UNCHANGED active
  <2>1. ASSUME NEW o \in Ops, NEW intent \in Decisions, ClaimConfirmation(h, o, intent) PROVE UNCHANGED active
    BY <2>1 DEF ClaimConfirmation
  <2>2. ReadProposal(h) \/ Abandon(h) => UNCHANGED active
    BY DEF ReadProposal, Abandon
  <2>3. FinalizeConfirmation(h) \/ FailConfirmation(h) => UNCHANGED active
    BY DEF FinalizeConfirmation, FailConfirmation, Conclude
  <2> QED BY <1>5, <2>1, <2>2, <2>3
<1>6. ASSUME NEW i, NEW intent, Decide(i, intent)
      PROVE  active' = active \/ (active' = active + 1 /\ active < MaxStrategy)
  BY <1>6 DEF Decide
<1>7. ASSUME NEW j \in Jobs, NEW i \in {j} \X {1, 2}, NEW intent \in Decisions, DecideOnDashboard(j, i, intent)
      PROVE  active' = active \/ (active' = active + 1 /\ active < MaxStrategy)
  BY <1>6, <1>7 DEF DecideOnDashboard
<1>8. ASSUME NEW c \in Changes, NEW intent \in Decisions, DecideChange(c, intent)
      PROVE  active' = active \/ (active' = active + 1 /\ active < MaxStrategy)
  BY <1>6, <1>8 DEF DecideChange
<1>9. ASSUME NEW h \in Handlers, DecideConfirmed(h)
      PROVE  active' = active \/ (active' = active + 1 /\ active < MaxStrategy)
  BY <1>6, <1>9 DEF DecideConfirmed
<1>10. UNCHANGED strategyVars => UNCHANGED active
  BY DEF strategyVars
<1> QED BY <1>1, <1>2, <1>3, <1>4, <1>5, <1>7, <1>8, <1>9, <1>10 DEF StrategyNext, StrategyStep, Decisions, JobStages

\* Every step of the whole keeps the plan sound.
LEMMA PlanStepKeeps ==
  ASSUME ConfirmationInv, PlanningInv, [Next]_vars
  PROVE  PlanningInv'
<1>a. /\ StrategyTypeOK /\ StrategyTypeOK'
      /\ active \in Nat /\ MaxStrategy \in Nat
      /\ active' = active \/ (active' = active + 1 /\ active < MaxStrategy)
  BY AuthorityStep, ConfirmationStep, PointerStep, StrategyAssumption
     DEF ConfirmationInv, StrategyTypeOK, Strategies
<1>b. ASSUME active' >= active, UNCHANGED planVars PROVE PlanningInv'
  <2>1. UNCHANGED <<plan, planned, item>> /\ UNCHANGED <<state, work, review>>
    BY <1>b DEF planVars
  <2>2. TypeOK'
    BY <1>a, <2>1 DEF PlanningInv, TypeOK
  <2>3. \A r \in Refs : (Idle(r)' => Idle(r)) /\ Waits(r)'
    BY <2>1 DEF PlanningInv, Idle, Waits, Claimed
  <2>4. \A v \in Reviews :
          /\ \A r \in Refs : review'[v].previous[r].status # "completed"
          /\ review'[v].state = "pending" =>
               /\ review[v].state = "pending" /\ review'[v].guarded = review[v].guarded
               /\ review'[v].plan = review[v].plan /\ review'[v].target = review[v].target
    BY <2>1 DEF PlanningInv, Guards
  <2> QED BY <1>b, <2>1, <2>2, <2>3, <2>4, SameRevision
<1>1. CASE StrategyActs
  <2>1. CASE active' # active /\ plan # 0
    <3>1. PICK s \in 1..MaxStrategy : s = active' /\ active < s
      BY <1>a, <2>1
    <3>2. QueueDispositions(s)
      BY <1>1, <2>1, <3>1 DEF StrategyActs
    <3>3. active' = s
      BY <3>1
    <3> QED BY <1>a, <3>1, <3>2, <3>3, PromotionKeeps
  <2>2. CASE ~(active' # active /\ plan # 0)
    BY <1>1, <1>a, <1>b, <2>2 DEF StrategyActs
  <2> QED BY <2>1, <2>2
<1>2. ASSUME NEW j \in Jobs, NEW e \in Editorials, AcceptEditorial(j, e) PROVE PlanningInv'
  <2>1. /\ DOMAIN e \subseteq Items /\ \A x \in DOMAIN e : e[x] \subseteq DOMAIN e
        /\ active' = active /\ job[j].ref \in Strategies /\ NewPlan(e, job[j].ref)
    BY <1>a, <1>2, PlanningAssumption DEF AcceptEditorial, AcceptPlan, StrategyTypeOK, Job
  <2> QED BY <1>a, <2>1, NewPlanKeeps
<1>3. ASSUME NEW x \in Items, MaterializeIntake(x) PROVE PlanningInv'
  <2>1. NewPlan([y \in {x} |-> {}], active) /\ active' = active /\ active \in Strategies
    BY <1>a, <1>3 DEF MaterializeIntake, strategyVars, StrategyTypeOK
  <2>2. PICK deps : deps = [y \in {x} |-> {}] /\ NewPlan(deps, active)
    BY <2>1
  <2>3. DOMAIN deps \subseteq Items /\ \A y \in DOMAIN deps : deps[y] \subseteq DOMAIN deps
    BY <2>2
  <2> QED BY <1>a, <2>1, <2>2, <2>3, NewPlanKeeps
<1>4. ASSUME NEW x \in Items, NEW deps \in SUBSET Current, AddDeliverable(x, deps) PROVE PlanningInv'
  BY <1>4, AddKeeps
<1>5. ASSUME NEW q \in Requests, NEW r \in Current, NEW conflict \in BOOLEAN, Replan(q, r, conflict) PROVE PlanningInv'
  BY <1>5, ReplanKeeps
<1>6. ASSUME NEW q \in Requests, DeclineCalendar(q) PROVE PlanningInv'
  BY <1>6, CalendarKeeps
<1>7. ASSUME NEW d \in Drafts, NEW r \in Current, ProposeReplacement(d, r) PROVE PlanningInv'
  BY <1>7, ReplacementKeeps
<1>8. ASSUME NEW v \in Reviews, NEW decision \in {"cancel", "keep"}, Decline(v, decision) PROVE PlanningInv'
  BY <1>8, DeclineKeeps
<1>9. ASSUME NEW v \in Reviews, Accept(v) PROVE PlanningInv'
  BY <1>9, AcceptKeeps
<1>10. CASE WorkStep
  BY <1>10, WorkKeeps
<1>11. CASE UNCHANGED vars
  BY <1>a, <1>b, <1>11 DEF vars, strategyVars
<1>12. PlanStep => PlanningInv'
  BY <1>2, <1>3, <1>4, <1>5, <1>6, <1>7, <1>8, <1>9 DEF PlanStep
<1> QED BY <1>1, <1>10, <1>11, <1>12 DEF Next

\* At the start there is no plan.
LEMMA PlanStart == Init => PlanningInv
<1> SUFFICES ASSUME Init PROVE PlanningInv
  OBVIOUS
<1>1. StrategyTypeOK
  BY ConfirmationStart DEF Init, ConfirmationInv
<1>2. 0 \in 0..MaxPlan /\ 0 \in Strategies
  BY StrategyAssumption, PlanningAssumption DEF Strategies
<1>3. TypeOK
  <2>1. planned \in [1..MaxPlan -> [strategy: Strategies, items: SUBSET Refs]] /\ plan \in 0..MaxPlan
    BY <1>2 DEF Init
  <2>2. item \in [Refs -> Item]
    BY <1>2 DEF Init, Item
  <2>3. state \in [Refs -> State]
    BY FreshTyped DEF Init
  <2>4. work \in [Refs -> Work]
    BY DEF Init, Work
  <2>5. review \in [Reviews -> Review]
    BY NoReviewTyped DEF Init
  <2> QED BY <1>1, <2>1, <2>2, <2>3, <2>4, <2>5 DEF TypeOK
<1>4. Current = {} /\ \A r \in Refs : ~Known(r) /\ ~work[r].there
  BY DEF Init, Current, Known
<1>5. Catalogue /\ DependenciesReachable /\ Executed /\ UnderPlan
  BY <1>4 DEF Catalogue, DependenciesReachable, Executed, UnderPlan
<1>6. \A r \in Refs : Waits(r)
  BY DEF Init, Waits, Fresh
<1>7. \A v \in Reviews : Guards(v)
  <2>1. \A v \in Reviews : review[v] = NoReview
    BY DEF Init
  <2>2. NoReview.state = "none" /\ \A r \in Refs : NoReview.previous[r].status # "completed"
    BY DEF NoReview, Fresh
  <2> QED BY <2>1, <2>2 DEF Guards
<1> QED BY <1>3, <1>5, <1>6, <1>7 DEF PlanningInv

(* The types, the order of the revisions and what the reviews guard hold in  *)
(* every state.                                                             *)
THEOREM Planning == Spec => [](ConfirmationInv /\ PlanningInv)
<1>1. Init => PlanningInv /\ ConfirmationInv
  BY PlanStart, ConfirmationStart DEF Init
<1>2. ConfirmationInv /\ PlanningInv /\ [Next]_vars => (ConfirmationInv /\ PlanningInv)'
  BY PlanStepKeeps, ConfirmationStep, AuthorityStep
<1> QED BY <1>1, <1>2, PTL DEF Spec

(* Every variable of the plan keeps its type.                               *)
THEOREM Typing == Spec => []TypeOK
<1>1. PlanningInv => TypeOK
  BY DEF PlanningInv
<1> QED BY <1>1, Planning, PTL

(* An item has one execution, of the revision the plan names: no move, rebase *)
(* or replacement leaves a job behind on a revision that is not current.    *)
THEOREM SingleExecution == Spec => []OneExecution
<1>1. PlanningInv => OneExecution
  BY DEF PlanningInv, Executed, Catalogue, OneExecution
<1> QED BY <1>1, Planning, PTL

(* What a current item depends on is current, however items were revised.    *)
THEOREM ReachableDependencies == Spec => []DependenciesReachable
<1>1. PlanningInv => DependenciesReachable
  BY DEF PlanningInv
<1> QED BY <1>1, Planning, PTL

(* The job of a planned item can be read in every stage: the plan revision   *)
(* its item names holds the item and pins the same strategy.                *)
THEOREM ResolvableJobs == Spec => []JobResolvable
<1>1. PlanningInv => JobResolvable
  BY DEF PlanningInv, Executed, Catalogue, Known, JobResolvable
<1> QED BY <1>1, Planning, PTL
=============================================================================
