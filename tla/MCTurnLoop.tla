------------------------------ MODULE MCTurnLoop ------------------------------
(* TurnLoop with a handful of tools and proposals for TLC.                   *)
EXTENDS TurnLoop, TLC

Of(actions, args) == {[action |-> action, args |-> arg] : action \in actions, arg \in args}

NoRepairs == [p \in {} |-> p]
\* The model's name for the irreversible tool, learned.
Renamed == [action |-> "erase", args |-> "plain"] :> [action |-> "wipe", args |-> "plain"]

Chatting == [tier |-> "Chat", tools |-> {}]
AskedTheTime == [tier |-> "Chat", tools |-> {{"look"}}]
Looking == [tier |-> "Task", tools |-> {{"look"}}]
Remembering == [tier |-> "Deep", tools |-> {}]

\* Someone is there to confirm: what is staged, confirmed and repeated.
Attended ==
  [routes |-> {Remembering}, act_and_answer |-> FALSE,
   confirm_irreversible |-> TRUE, never_remember_residual |-> FALSE,
   prune_inapplicable |-> FALSE, max_iterations |-> 2, turns |-> 3, lines |-> 0,
   proposals |-> Of({"wipe", "erase", "remember_fact", "forget_all", "confirm_pending",
                     "respond_directly"}, {"plain"})
                 \cup Of({"click"}, {"tainted"})]

\* Answers ride beside actions, on turns whose tools are narrowed.
Narrowed ==
  [routes |-> {Looking, AskedTheTime}, act_and_answer |-> TRUE,
   confirm_irreversible |-> FALSE, never_remember_residual |-> TRUE,
   prune_inapplicable |-> TRUE, max_iterations |-> 2, turns |-> 1, lines |-> 1,
   proposals |-> Of({"wipe"}, {"plain", "ungrounded"}) \cup Of({"look"}, {"plain", "malformed"})
                 \cup Of({"ask_clarification"}, {"plain", "tainted"})
                 \cup Of({"recall", "inspect_result", "forget_fact"}, {"plain"})
                 \cup Of({"remember_fact"}, {"ungrounded"})]

\* Plain chat, where no registered tool is offered at first.
OfferedNothing ==
  [Narrowed EXCEPT !.routes = {Chatting}, !.lines = 0,
                   !.proposals = Of({"recall", "look"}, {"plain"})]

All == {Attended, Narrowed, OfferedNothing}
OnlyAttended == {Attended}
=============================================================================
