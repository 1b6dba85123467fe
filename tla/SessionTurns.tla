----------------------------- MODULE SessionTurns -----------------------------
(***************************************************************************)
(* What the dispatcher promises a session: its messages become turns one at *)
(* a time, each message at most once, in the order they were received.      *)
(***************************************************************************)
EXTENDS Integers, Sequences

CONSTANT Sessions

VARIABLES
  received,  \* messages received, per session
  begun,     \* the messages whose turn was begun, in order
  busy       \* the sessions a turn is running for

vars == <<received, begun, busy>>

Init ==
  /\ received = [s \in Sessions |-> 0]
  /\ begun = [s \in Sessions |-> <<>>]
  /\ busy = {}

Receive(s) ==
  /\ received' = [received EXCEPT ![s] = @ + 1]
  /\ UNCHANGED <<begun, busy>>

Begin(s) ==
  /\ s \notin busy
  /\ \E n \in 1..received[s] :
       /\ \A i \in DOMAIN begun[s] : begun[s][i] < n
       /\ begun' = [begun EXCEPT ![s] = Append(@, n)]
  /\ busy' = busy \cup {s}
  /\ UNCHANGED received

End(s) ==
  /\ s \in busy
  /\ busy' = busy \ {s}
  /\ UNCHANGED <<received, begun>>

\* The run ends under its sessions: no turn survives it.
Abort ==
  /\ busy' = {}
  /\ UNCHANGED <<received, begun>>

Next == Abort \/ \E s \in Sessions : Receive(s) \/ Begin(s) \/ End(s)

Spec == Init /\ [][Next]_vars
=============================================================================
