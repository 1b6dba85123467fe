---------------------------- MODULE MCPointerAgent ----------------------------
(* PointerAgent for TLC.                                                   *)
EXTENDS PointerAgent, TLC

Down(k) == [op |-> "down", key |-> k]
Up(k) == [op |-> "up", key |-> k]
Other == [op |-> "other"]

\* A chord, the two halves of one, a press that something else follows, too many steps.
Gestures == UNION {{<<Down(k), Up(k)>>, <<Down(k)>>, <<Up(k)>>, <<Down(k), Other>>,
                    <<Other, Other, Other>>} : k \in Keys}
Symmetric == Permutations(Conns) \cup Permutations(Keys)
=============================================================================
