-------------------------- MODULE ProductionContract -------------------------
(* What a production plan promises about each operation that is paid for,   *)
(* without claims, leases, outbox records or retries: its money is set      *)
(* aside before it is submitted, its provider is asked once at most, the    *)
(* money is spent only for a success and given back only after a failure,   *)
(* and an operation in doubt keeps its money.                               *)
EXTENDS Naturals

CONSTANT Operations

VARIABLES
  status,   \* status[c]: where the operation stands
  asked,    \* asked[c]: how often its provider was asked to do it
  money     \* money[c]: where the money for it is

Statuses == {"open", "submitted", "succeeded", "failed", "uncertain"}
Places == {"none", "aside", "spent", "returned"}

ContractTypeOK ==
  /\ status \in [Operations -> Statuses]
  /\ asked \in [Operations -> Nat]
  /\ money \in [Operations -> Places]

Start ==
  /\ status = [c \in Operations |-> "open"]
  /\ asked = [c \in Operations |-> 0]
  /\ money = [c \in Operations |-> "none"]

Becomes(c, state) == status' = [status EXCEPT ![c] = state] /\ UNCHANGED <<asked, money>>
Pays(c, from, to) ==
  /\ money[c] = from /\ money' = [money EXCEPT ![c] = to]
  /\ UNCHANGED <<status, asked>>

\* The request for the money may outlive the claimant that made it, and set
\* aside what nothing gives back once the failure is recorded.
SetAside(c) == status[c] \in {"open", "failed"} /\ Pays(c, "none", "aside")
Submit(c) == status[c] = "open" /\ money[c] = "aside" /\ Becomes(c, "submitted")

\* A slow claimant may ask after the operation was given up as uncertain.
Ask(c) ==
  /\ status[c] \in {"submitted", "uncertain"} /\ money[c] = "aside" /\ asked[c] = 0
  /\ asked' = [asked EXCEPT ![c] = 1]
  /\ UNCHANGED <<status, money>>

Succeed(c) == status[c] = "submitted" /\ asked[c] = 1 /\ Becomes(c, "succeeded")
Fail(c) == status[c] \in {"open", "submitted"} /\ Becomes(c, "failed")
GiveUp(c) == status[c] = "submitted" /\ Becomes(c, "uncertain")

Spend(c) == status[c] = "succeeded" /\ Pays(c, "aside", "spent")
GiveBack(c) == status[c] = "failed" /\ Pays(c, "aside", "returned")

Step ==
  \E c \in Operations :
    \/ SetAside(c) \/ Submit(c) \/ Ask(c) \/ Succeed(c) \/ Fail(c) \/ GiveUp(c)
    \/ Spend(c) \/ GiveBack(c)

Contract == Start /\ [][Step]_<<status, asked, money>>
=============================================================================
