------------------------------ MODULE JobBudget ------------------------------
(* The money of a job and of its workspace.                                 *)
(*                                                                          *)
(* Whoever is about to pay a provider reserves the estimate first, in one   *)
(* transaction against the job and the workspace, and afterwards settles    *)
(* the reservation: as spent, as not invoked, or as uncertain, which keeps  *)
(* the amount aside for good.  A reservation is named by its operation id,  *)
(* here the spend; a model call of a stage handler is one kind of spend.    *)
EXTENDS Integers, FiniteSets, FiniteSetsExt

CONSTANTS
  Jobs,       \* the jobs of the workspace
  Workspace,  \* the workspace's own account
  Spends,     \* the operation ids money is ever reserved under
  Calls,      \* the spends that are model calls of a stage handler
  JobOf,      \* JobOf[s]: the job that pays for s
  Cost,       \* Cost[s]: the estimate of s
  Limit,      \* Limit[a]: limitUsd of account a
  Threshold   \* approvalThresholdUsd: the most a call may reserve unapproved

Accounts == Jobs \cup {Workspace}

ASSUME BudgetAssumption ==
  /\ Workspace \notin Jobs
  /\ IsFiniteSet(Spends) /\ Calls \subseteq Spends
  /\ JobOf \in [Spends -> Jobs]
  /\ Cost \in [Spends -> Nat \ {0}]
  /\ Limit \in [Accounts -> Nat]
  /\ Threshold \in Nat

VARIABLES
  reservation,  \* reservation[s]: the state of the reservation of s
  reserved,     \* reserved[a]: reservedUsd of account a
  observed,     \* observed[a]: observedUsd of account a
  usage,        \* usage[s]: the cost in the usage record of s, 0 without one
  call          \* call[s]: where the handler that makes model call s stands

budget == <<reservation, reserved, observed, usage>>

\* rejected is a stored reservation with accepted = false.
ReservationStates == {"absent", "rejected", "reserved", "finalized", "released", "uncertain"}
CallSteps == {"idle", "admitted", "invoked", "done"}

BudgetTypeOK ==
  /\ reservation \in [Spends -> ReservationStates]
  /\ reserved \in [Accounts -> Nat]
  /\ observed \in [Accounts -> Nat]
  /\ usage \in [Spends -> Nat]
  /\ call \in [Calls -> CallSteps]

BudgetInit ==
  /\ reservation = [s \in Spends |-> "absent"]
  /\ reserved = [a \in Accounts |-> 0]
  /\ observed = [a \in Accounts |-> 0]
  /\ usage = [s \in Spends |-> 0]
  /\ call = [s \in Calls |-> "idle"]

----------------------------------------------------------------------------
Charged(s) == {JobOf[s], Workspace}
Bug_SpentOnly(a, s) == observed[a] + Cost[s] <= Limit[a]
CanReserve(a, s) == observed[a] + reserved[a] + Cost[s] <= Limit[a]

\* A production mandate stands for the approval; a call needs none if cheap.
Accepts(s, authorized) ==
  /\ authorized \/ Cost[s] <= Threshold
  /\ \A a \in Charged(s) : CanReserve(a, s)

Moved(ledger, s, amount) ==
  [a \in Accounts |-> IF a \in Charged(s) THEN ledger[a] + amount ELSE ledger[a]]

\* The answer of a reservation request: a duplicate repeats the first one,
\* whatever became of the reservation since.
Admitted(state) == state \notin {"absent", "rejected"}

Reserve(s, authorized) ==
  \/ /\ reservation[s] # "absent"
     /\ UNCHANGED budget
  \/ /\ reservation[s] = "absent" /\ Accepts(s, authorized)
     /\ reservation' = [reservation EXCEPT ![s] = "reserved"]
     /\ reserved' = Moved(reserved, s, Cost[s])
     /\ UNCHANGED <<observed, usage>>
  \/ /\ reservation[s] = "absent" /\ ~Accepts(s, authorized)
     /\ reservation' = [reservation EXCEPT ![s] = "rejected"]
     /\ UNCHANGED <<reserved, observed, usage>>

\* A media call reports the sealed price; a model call what its tokens cost, at
\* most the conservative estimate it reserved, which nothing else enforces.
Usages(s) == IF s \in Calls THEN 0..Cost[s] ELSE {Cost[s]}

Bug_KeepsReserved(s) ==
  \E actual \in Usages(s) :
    /\ reservation[s] = "reserved"
    /\ reservation' = [reservation EXCEPT ![s] = "finalized"]
    /\ observed' = Moved(observed, s, actual)
    /\ usage' = [usage EXCEPT ![s] = actual]
    /\ UNCHANGED reserved

\* The usage of s is recorded once; it must find its reservation open.
FinalizeUsage(s) ==
  \E actual \in Usages(s) :
    /\ reservation[s] = "reserved"
    /\ reservation' = [reservation EXCEPT ![s] = "finalized"]
    /\ reserved' = Moved(reserved, s, -Cost[s])
    /\ observed' = Moved(observed, s, actual)
    /\ usage' = [usage EXCEPT ![s] = actual]

\* A reservation that is not open any more is left as it is.
ResolveUncertain(s) ==
  /\ reservation' = [reservation EXCEPT ![s] = IF @ = "reserved" THEN "uncertain" ELSE @]
  /\ UNCHANGED <<reserved, observed, usage>>

ResolveNotInvoked(s) ==
  \/ /\ reservation[s] = "reserved"
     /\ reservation' = [reservation EXCEPT ![s] = "released"]
     /\ reserved' = Moved(reserved, s, -Cost[s])
     /\ UNCHANGED <<observed, usage>>
  \/ /\ reservation[s] # "reserved"
     /\ UNCHANGED budget

----------------------------------------------------------------------------
(* A model call of a stage handler.  A handler runs once per generation, so *)
(* the call is not repeated under its id.                                   *)

\* The reservation; a refusal, or an answer that is lost, ends the call.
CallReserve(s) ==
  /\ call[s] = "idle"
  /\ Reserve(s, FALSE)
  /\ \/ Admitted(reservation'[s]) /\ call' = [call EXCEPT ![s] = "admitted"]
     \/ call' = [call EXCEPT ![s] = "done"]

CallInvoke(s) ==
  /\ call[s] = "admitted"
  /\ call' = [call EXCEPT ![s] = "invoked"]
  /\ UNCHANGED budget

CallReport(s) ==
  /\ call[s] = "invoked"
  /\ FinalizeUsage(s)
  /\ call' = [call EXCEPT ![s] = "done"]

\* An error: before the dispatch nothing was spent, after it nobody knows.
CallFail(s) ==
  /\ \/ call[s] = "admitted" /\ ResolveNotInvoked(s)
     \/ call[s] = "invoked" /\ ResolveUncertain(s)
  /\ call' = [call EXCEPT ![s] = "done"]

\* The handler dies, or its error report does not arrive.
CallCrash(s) ==
  /\ call[s] \in {"admitted", "invoked"}
  /\ call' = [call EXCEPT ![s] = "done"]
  /\ UNCHANGED budget

CallStep(s) ==
  CallReserve(s) \/ CallInvoke(s) \/ CallReport(s) \/ CallFail(s) \/ CallCrash(s)

----------------------------------------------------------------------------
Open == {"reserved", "uncertain"}
Total(a, amount) ==
  MapThenSumSet(LAMBDA s : amount[s], {s \in Spends : a \in Charged(s)})

\* The two running totals of every account (patched one at a time by the three
\* transactions, from whatever budget they read) are the sums of the open
\* reservations and of the usage records behind them: none is counted twice,
\* dropped or given back twice, whoever races with whom.
LedgerBalances ==
  \A a \in Accounts :
    /\ reserved[a] = Total(a, [s \in Spends |-> IF reservation[s] \in Open THEN Cost[s] ELSE 0])
    /\ observed[a] = Total(a, usage)

\* Neither a job nor the workspace the jobs share is overdrawn: what is spent
\* and what is still set aside stay within the limit (canReserve), as long as
\* no call reports more than it reserved (Usages).
WithinLimits == \A a \in Accounts : reserved[a] + observed[a] <= Limit[a]
============================================================================
