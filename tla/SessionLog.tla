------------------------------ MODULE SessionLog ------------------------------
(***************************************************************************)
(* crates/core/src/event.rs (EventLog), crates/engine/src/state.rs (fold)  *)
(* and the append of crates/memory-sqlite: one session's event log.        *)
(*                                                                         *)
(* Nothing reads the log but through fold and through "what did this turn  *)
(* decide last", so an event is what it does to that reading.  A log is    *)
(* the sequence of readings, the first of what the store holds and one     *)
(* more for every event since that changed it.  Settled and the records of *)
(* cost and wording change no reading.                                     *)
(***************************************************************************)
EXTENDS Integers, Sequences

NoProposal == [action |-> "none", args |-> "none"]
NoPending == [turn |-> 0, proposal |-> NoProposal]

EmptySession ==
  [turn      |-> 0,           \* highest turn seen
   proposed  |-> NoProposal,  \* this turn's latest Proposed, as the model wrote it
   pending   |-> NoPending,   \* the unconfirmed PendingConfirmation, its turn
   confirmed |-> FALSE,       \* whether a Confirmed belongs to this turn
   fired     |-> {},          \* actions called this session
   verdict   |-> "none",      \* this turn's latest ToolReturned or Rejected
   acted     |-> FALSE,       \* a ToolReturned came after the latest Proposed
   effects   |-> 0]           \* effects this turn says it had

(* One operator per event kind: what it does to the reading.               *)
Fresh(s) == [s EXCEPT !.proposed = NoProposal, !.confirmed = FALSE, !.verdict = "none",
                      !.acted = FALSE, !.effects = 0]
UserSaid(s) == [Fresh(s) EXCEPT !.turn = @ + 1]
Proposed(s, p) == [s EXCEPT !.proposed = p, !.acted = FALSE]
Rejected(s) == [s EXCEPT !.verdict = "refused"]
Said(s) == [s EXCEPT !.effects = @ + 1]
ToolCalled(s, a) == [s EXCEPT !.fired = @ \cup {a}]
ToolReturned(s, effects) == [s EXCEPT !.verdict = "ran", !.acted = TRUE,
                                      !.effects = @ + effects]
PendingConfirmation(s) == [s EXCEPT !.pending = [turn |-> s.turn, proposal |-> s.proposed]]

\* Mutant of Confirmed: the pending confirmation is left in place.
ConfirmedKeepsPending(s) == [s EXCEPT !.confirmed = TRUE]
Confirmed(s) == [s EXCEPT !.pending = NoPending, !.confirmed = TRUE]

\* The turn is over: only what the next one reads is left of it.
Replied(s) == Fresh(s)

\* Mutant of Confirmable: a staged proposal never expires.
NeverExpires(s) == s.pending # NoPending
\* A staged proposal can be confirmed on the turn after it was staged.
Confirmable(s) == s.pending # NoPending /\ s.turn \in {s.pending.turn, s.pending.turn + 1}

\* The log with one event more, which is the same log when the reading is the same.
Recorded(log, s) == IF s = log[Len(log)] THEN log ELSE Append(log, s)

Stored(log) == log[1]
Latest(log) == log[Len(log)]

\* The store writes what it does not hold yet, in order, one row at a time: an
\* append that fails leaves a prefix behind, one that succeeds leaves nothing.
StoreUpTo(log, k) == SubSeq(log, k, Len(log))
=============================================================================
