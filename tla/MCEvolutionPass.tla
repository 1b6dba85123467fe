--------------------------- MODULE MCEvolutionPass ---------------------------
(* Instances of EvolutionPass for TLC.                                     *)
EXTENDS EvolutionPass, TLC

One == [s \in Sessions |-> 1]
OneTurnEach == {[turns |-> One, shown |-> Candidates]}
\* A turn of each session with every candidate; a session that takes a second turn,
\* on a log that summaries and passes have written to, with none beside another
\* session and with the patches on its own.
Shapes == OneTurnEach
          \cup {[turns |-> [One EXCEPT ![s] = 2], shown |-> {}] : s \in Sessions}
          \cup {[turns |-> [u \in Sessions |-> IF u = s THEN 2 ELSE 0], shown |-> Patches]
                 : s \in Sessions}

Alike == Permutations(Sessions) \cup Permutations(Notes)
=============================================================================
