----------------------------- MODULE MCPlanning -----------------------------
(* One strategy job, a change learned, a confirmation with two requests at  *)
(* work, and a plan of two items, the second after the first. The scopes    *)
(* keep apart what would multiply the states: the chat about a strategy     *)
(* that others change; commands and failures of planned jobs; reviews and   *)
(* cancellations; promotions over a plan that was made under another.       *)
EXTENDS EditorialPlanning, TLC

CONSTANTS ann, bob, a, b

MCIntents == {[actor |-> ann, verdict |-> "approved", feedback |-> FALSE],
              [actor |-> bob, verdict |-> "rejected", feedback |-> TRUE],
              [actor |-> ann, verdict |-> "rejected", feedback |-> FALSE]}

MCStarting == {"confirm", "reject", "steer"} :> {0, 1}
              @@ {"plan", "replan", "fail"} :> {0}
              @@ {"plan", "replan", "replace"} :> {0}
              @@ {"plan", "cancel"} :> {1}
MCScopes == DOMAIN MCStarting

MCEditorials == {a :> {} @@ b :> {a}}
=============================================================================
