----------------------------- MODULE MCDispatcher -----------------------------
(* Dispatcher on two sessions for TLC.                                       *)
EXTENDS Dispatcher, TLC

CONSTANTS s1, s2, t1, t2

TwoAndOne == (s1 :> 2) @@ (s2 :> 1)

\* serve's policy with one slot for both sessions and with one each; the
\* command line's with one each.
BuiltWith == {[policy |-> "Isolate", slots |-> 1],
              [policy |-> "Isolate", slots |-> 2],
              [policy |-> "Fatal", slots |-> 2]}
=============================================================================
