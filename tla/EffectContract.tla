--------------------------- MODULE EffectContract --------------------------
(* What the effect store promises about each external effect, without       *)
(* claims, leases, epochs or recovery: an effect is taken up by one attempt *)
(* at a time, given back only if the provider has not done it, and closed   *)
(* truthfully or withdrawn for good.                                        *)
EXTENDS Naturals

CONSTANT Commands

VARIABLES
  status,     \* status[c]: where the effect stands
  performed   \* performed[c]: how often the provider has done it

Statuses == {"open", "taken", "done", "rejected", "withdrawn"}

ContractTypeOK ==
  /\ status \in [Commands -> Statuses]
  /\ performed \in [Commands -> Nat]

Start ==
  /\ status = [c \in Commands |-> "open"]
  /\ performed = [c \in Commands |-> 0]

Become(c, from, to) ==
  /\ status[c] = from
  /\ status' = [status EXCEPT ![c] = to]
  /\ UNCHANGED performed

Take(c) == Become(c, "open", "taken")
Perform(c) ==
  /\ status[c] = "taken" /\ performed[c] = 0
  /\ performed' = [performed EXCEPT ![c] = 1]
  /\ UNCHANGED status
GiveBack(c) == performed[c] = 0 /\ Become(c, "taken", "open")
Close(c) ==
  \/ performed[c] = 1 /\ Become(c, "taken", "done")
  \/ performed[c] = 0 /\ Become(c, "taken", "rejected")
\* An operator gives up on an effect whose outcome nobody can establish.
GiveUpTaken(c) == Become(c, "taken", "withdrawn")

\* Cancelling or steering a job withdraws any of its open effects at once.
Withdraw ==
  /\ \E C \in SUBSET {c \in Commands : status[c] = "open"} :
       status' = [c \in Commands |-> IF c \in C THEN "withdrawn" ELSE status[c]]
  /\ UNCHANGED performed

Step ==
  \/ \E c \in Commands : Take(c) \/ Perform(c) \/ GiveBack(c) \/ Close(c) \/ GiveUpTaken(c)
  \/ Withdraw

Contract == Start /\ [][Step]_<<status, performed>>
============================================================================
