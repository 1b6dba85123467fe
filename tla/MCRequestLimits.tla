--------------------------- MODULE MCRequestLimits ---------------------------
(* RequestLimits for TLC: two sessions, of one tenant or of two that have  *)
(* an account in common.                                                   *)
EXTENDS RequestLimits

CONSTANTS a, b, s1, s2, account

Shared == [t \in Tenants |-> account]
Both == [s \in Sessions |-> a]
Apart == [s \in Sessions |-> IF s = s1 THEN a ELSE b]

\* Turns side by side under a ceiling, two tenants at one shard slot, two sessions at one
\* worker slot.
Starts == {[owner |-> Both, worker |-> 2, shard |-> 2, cap |-> 1],
           [owner |-> Apart, worker |-> 2, shard |-> 1, cap |-> 1],
           [owner |-> Apart, worker |-> 1, shard |-> 1, cap |-> NoCap],
           [owner |-> Both, worker |-> 1, shard |-> 2, cap |-> NoCap]}
=============================================================================
