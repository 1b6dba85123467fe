------------------------------ MODULE EventChain ------------------------------
(***************************************************************************)
(* A session's event log as a hash chain, and everything of the engine     *)
(* that writes it: crates/core/src/event.rs (EventLog), the append of      *)
(* crates/memory-sqlite/src/lib.rs, the turn (engine/turn/run.rs,          *)
(* accounting.rs), and the rolling summary that a session's task runs      *)
(* beside its wait for the next message (engine/turn/memory.rs,            *)
(* engine/dispatch.rs).                                                    *)
(*                                                                         *)
(* An event's id is its place in the log: next_id is one more than the     *)
(* last, and the store keeps only ids above the highest it has.  A hash    *)
(* covers an event and the hash before it, so it is the sequence of what   *)
(* was recorded up to there.  What the events say is left to SessionLog.   *)
(***************************************************************************)
EXTENDS Integers, Sequences, FiniteSets

CONSTANTS Sessions,    \* the sessions of one tenant
          Evaluators   \* what grades a turn

ASSUME EvaluatorsAssumption == Evaluators \cap {"said", "replied", "cost", "summary"} = {}

Kinds == {"said", "replied", "cost", "summary"} \cup Evaluators
What == [turn : Nat, kind : Kinds]
Event == [what : What, prev : Seq(What)]

Hash(e) == Append(e.prev, e.what)

\* What the event of id i in log l carries as the hash of the one before it.
LinkAt(l, i) == IF i = 1 THEN <<>> ELSE Hash(l[i - 1])

\* Mutant of Extend: the link is taken before the last event is in place.
ExtendLate(l, w) == Append(l, [what |-> w, prev |-> LinkAt(l, IF l = <<>> THEN 1 ELSE Len(l))])
\* EventLog::append.
Extend(l, w) == Append(l, [what |-> w, prev |-> LinkAt(l, Len(l) + 1)])

\* EventLog::verify_chain.
Intact(l) == \A i \in DOMAIN l : l[i].prev = LinkAt(l, i)

\* How many events of l the store does not hold: those with an id above its highest.
Missing(rows_, l) == IF Len(l) > Len(rows_) THEN Len(l) - Len(rows_) ELSE 0

\* The store's append, when n of the rows it has to write get written.
Stored(rows_, l, n) == rows_ \o SubSeq(l, Len(rows_) + 1, Len(rows_) + n)

EventsOf(l) == {l[i] : i \in DOMAIN l}

\* The highest turn of a log: every turn records one message, numbered one above it.
TurnOf(l) == Cardinality({i \in DOMAIN l : l[i].what.kind = "said"})

VARIABLES rows,   \* the events table
          task,   \* what a session's task is doing
          log,    \* the log its turn or its summary works on
          kept    \* history: the events an append has answered Ok for

chainVars == <<rows, task, log, kept>>

ChainInit == /\ rows = [s \in Sessions |-> <<>>]
             /\ task = [s \in Sessions |-> "idle"]
             /\ log = [s \in Sessions |-> <<>>]
             /\ kept = [s \in Sessions |-> {}]

\* An append of l to the rows of s: all of it, or a prefix and an error.
Append_Ok(s, l) == /\ rows' = [rows EXCEPT ![s] = Stored(@, l, Missing(@, l))]
                   /\ kept' = [kept EXCEPT ![s] = @ \cup EventsOf(l)]
Append_Fails(s, l) == /\ \E n \in 0 .. (Missing(rows[s], l) - 1) :
                             rows' = [rows EXCEPT ![s] = Stored(@, l, n)]
                      /\ UNCHANGED kept

-----------------------------------------------------------------------------
(* A turn: the log is loaded once the slot is held, flushed before every   *)
(* effect, and its rest is appended at the end.                            *)

\* Mutant of TurnBegins: the log goes on from what the turns themselves wrote, as if it
\* had been kept since the last of them; others have written since.
TurnBeginsKept(s) ==
  LET Mine(e) == e.what.kind \in {"said", "replied"}
      own == SelectSeq(rows[s], Mine)
  IN  /\ task[s] = "idle"
      /\ task' = [task EXCEPT ![s] = "turn"]
      /\ log' = [log EXCEPT ![s] = Extend(own, [turn |-> TurnOf(own) + 1, kind |-> "said"])]
      /\ UNCHANGED <<rows, kept>>
TurnBegins(s) ==
  /\ task[s] = "idle"
  /\ task' = [task EXCEPT ![s] = "turn"]
  /\ log' = [log EXCEPT ![s] = Extend(rows[s], [turn |-> TurnOf(rows[s]) + 1, kind |-> "said"])]
  /\ UNCHANGED <<rows, kept>>

\* flush: an error is logged and the turn goes on.
Flush(s) == /\ task[s] = "turn"
            /\ Append_Ok(s, log[s]) \/ Append_Fails(s, log[s])
            /\ UNCHANGED <<task, log>>

Replied(s) == Extend(log[s], [turn |-> TurnOf(log[s]), kind |-> "replied"])

\* A reply that cannot be sent ends the session's task, summary and all.
TurnEnds(s) == /\ task[s] = "turn"
               /\ Append_Ok(s, Replied(s))
               /\ \E next \in {"due", "idle"} : task' = [task EXCEPT ![s] = next]
               /\ log' = [log EXCEPT ![s] = <<>>]

\* The last append fails, and the session's task with it.
TurnFails(s) == /\ task[s] = "turn"
                /\ Append_Fails(s, Replied(s))
                /\ task' = [task EXCEPT ![s] = "idle"]
                /\ log' = [log EXCEPT ![s] = <<>>]

-----------------------------------------------------------------------------
(* maybe_summarize: the log is loaded, the summarizer asked, and what came *)
(* of it appended.  No slot is held from one end to the other.             *)

SummaryBegins(s) == /\ task[s] = "due"
                    /\ task' = [task EXCEPT ![s] = "summing"]
                    /\ log' = [log EXCEPT ![s] = rows[s]]
                    /\ UNCHANGED <<rows, kept>>

\* What a summary makes of the log: nothing when none was due, a request that
\* bought nothing, or a summary.
Outcomes(l) ==
  LET Told(x, kind) == Extend(x, [turn |-> TurnOf(l), kind |-> kind])
  IN  {l, Told(l, "cost"), Told(Told(l, "cost"), "summary")}

SummaryEnds(s) == /\ task[s] = "summing"
                  /\ \E l \in Outcomes(log[s]) : Append_Ok(s, l) \/ Append_Fails(s, l)
                  /\ task' = [task EXCEPT ![s] = "idle"]
                  /\ log' = [log EXCEPT ![s] = <<>>]

\* The next message comes first: the summary is dropped, and begun again before its turn.
SummaryDropped(s) == /\ task[s] = "summing"
                     /\ task' = [task EXCEPT ![s] = "due"]
                     /\ log' = [log EXCEPT ![s] = <<>>]
                     /\ UNCHANGED <<rows, kept>>

\* The process ends: the table stays.
TasksLost == /\ task' = [s \in Sessions |-> "idle"]
             /\ log' = [s \in Sessions |-> <<>>]
             /\ UNCHANGED <<rows, kept>>
=============================================================================
