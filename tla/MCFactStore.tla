----------------------------- MODULE MCFactStore -----------------------------
(* FactStore for TLC: two spellings of one key.                            *)
EXTENDS FactStore, TLC

OneStem == [k \in Keys |-> "k"]
Symmetric == Permutations(Scopes) \cup Permutations(Keys) \cup Permutations(Values)
\* A row that has ended is not asked whether it was in doubt.
Seen == <<[i \in Ids |-> IF Held(i) /\ ~Live(facts[i]) THEN [facts[i] EXCEPT !.doubtful = FALSE]
                         ELSE facts[i]], vecs, now, pass, history>>
=============================================================================
