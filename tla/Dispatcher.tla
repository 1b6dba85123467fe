------------------------------ MODULE Dispatcher ------------------------------
(***************************************************************************)
(* crates/engine/src/dispatch.rs: one channel read by one dispatcher, a     *)
(* bounded mailbox and a task per live session, a pool of worker slots, the *)
(* rolling summary beside the wait for the next message, the consolidator   *)
(* on a quiet channel, and the policy that decides what a failed turn costs.*)
(*                                                                          *)
(* A task is known by an identity of Tasks: the code's generation number,   *)
(* of which only "the same task or another one" is ever asked.  What a turn *)
(* does is abstracted to how it ends.                                       *)
(***************************************************************************)
EXTENDS Integers, FiniteSets, Sequences

CONSTANTS
  Sessions,      \* the sessions the channel carries
  Tasks,         \* identities for session tasks, reused once reaped
  NoTask,        \* no entry in the session table
  NoMsg,         \* a task that holds no message
  MailboxDepth,  \* MAILBOX_DEPTH
  MaxMsgs,       \* bound: messages each session sends, per session
  MaxIdle,       \* bound: idle timeouts that stop a task
  Settings       \* what the dispatcher may be built with: policy, worker_slots

ASSUME DispatcherAssumption ==
  /\ Sessions # {} /\ NoTask \notin Tasks
  /\ NoMsg \notin [session : Sessions, n : Nat \ {0}]
  /\ MailboxDepth \in Nat \ {0}
  /\ MaxMsgs \in [Sessions -> Nat] /\ MaxIdle \in Nat
  /\ Settings # {}
  /\ Settings \subseteq [policy : {"Fatal", "Isolate"}, slots : Nat \ {0}]

Msg == [session : Sessions, n : Nat \ {0}]

VARIABLES
  pc,        \* where the dispatcher's own future is
  closing,   \* inside close(): the channel is not read again
  queue,     \* deliver's local queue; its head is the message in hand
  pending,   \* messages handed back, delivered before the channel is read
  entry,     \* Dispatcher::sessions
  owner,     \* the session of each task
  phase,     \* where each session task is
  box,       \* each task's mailbox
  cur,       \* the message each task took out of its mailbox
  left,      \* Stopped::leftovers
  fail,      \* Stopped::failure
  free,      \* permits left in the slot semaphore
  turns,     \* turns_since_pass
  passSaw,   \* what turns_since_pass was when the pass began
  received,  \* messages read from the channel, per session
  begun,     \* messages whose turn was begun, per session, in order
  lost,      \* messages dropped: pushed into a mailbox already drained, or
             \* in the hands of a task whose summary panicked
  idles,     \* idle stops left
  policy,    \* TurnFailure, fixed when the dispatcher is built
  slots      \* worker_slots, fixed when the dispatcher is built

dispVars == <<pc, closing, queue, pending, entry, received, lost>>
taskVars == <<owner, phase, box, cur, left, fail, begun, idles>>
slotVars == <<free, turns, passSaw, policy, slots>>
vars == <<dispVars, taskVars, slotVars>>

Live == {g \in Tasks : phase[g] # "none"}
Running == {g \in Tasks : phase[g] = "turn"}
Failures == {"none", "store", "cap", "channel", "panic"}

\* TurnFailure::verdict, with the panic that Fatal resumes in reap.
EndsTheRun(f) == \/ f \in {"store", "cap"}
                 \/ policy = "Fatal" /\ f \in {"channel", "panic"}

Init ==
  /\ pc = "select" /\ closing = FALSE
  /\ queue = <<>> /\ pending = <<>>
  /\ entry = [s \in Sessions |-> NoTask]
  /\ owner = [g \in Tasks |-> CHOOSE s \in Sessions : TRUE]
  /\ phase = [g \in Tasks |-> "none"]
  /\ box = [g \in Tasks |-> <<>>]
  /\ cur = [g \in Tasks |-> NoMsg]
  /\ left = [g \in Tasks |-> <<>>]
  /\ fail = [g \in Tasks |-> "none"]
  /\ \E c \in Settings : policy = c.policy /\ slots = c.slots
  /\ free = slots /\ turns = 0 /\ passSaw = 0
  /\ received = [s \in Sessions |-> 0]
  /\ begun = [s \in Sessions |-> <<>>]
  /\ lost = {}
  /\ idles = MaxIdle

-----------------------------------------------------------------------------
(* The dispatcher.                                                          *)

\* Where delivery goes on: the next queued message, or back to its caller.
AfterSend(q) == /\ queue' = q
                /\ pc' = IF q = <<>> THEN "select" ELSE "deliver"

\* The select reads the channel only when nothing handed back is waiting.
Receive(s) ==
  /\ pc = "select" /\ ~closing /\ pending = <<>>
  /\ received[s] < MaxMsgs[s]
  /\ received' = [received EXCEPT ![s] = @ + 1]
  /\ queue' = <<[session |-> s, n |-> received[s] + 1]>>
  /\ pc' = "deliver"
  /\ UNCHANGED <<closing, pending, entry, lost, taskVars, slotVars>>

DeliverPending ==
  /\ pc = "select" /\ pending # <<>>
  /\ queue' = <<Head(pending)>>
  /\ pending' = Tail(pending)
  /\ pc' = "deliver"
  /\ UNCHANGED <<closing, entry, received, lost, taskVars, slotVars>>

\* mailbox(): a session with no entry gets a mailbox and a task.
OpenMailbox(g) ==
  LET s == Head(queue).session IN
  /\ pc = "deliver" /\ entry[s] = NoTask
  /\ phase[g] = "none"
  /\ entry' = [entry EXCEPT ![s] = g]
  /\ owner' = [owner EXCEPT ![g] = s]
  /\ phase' = [phase EXCEPT ![g] = "idle"]
  /\ box' = [box EXCEPT ![g] = <<>>]
  /\ UNCHANGED <<pc, closing, queue, pending, received, lost, cur, left, fail, begun,
                 idles, slotVars>>

\* tx.send on an open mailbox with room; a full one waits.  The send takes its
\* permit here and pushes in Push: the session tasks run on other threads.
Send ==
  LET g == entry[Head(queue).session] IN
  /\ pc = "deliver" /\ g # NoTask
  /\ phase[g] \notin {"none", "stopped"}
  /\ Len(box[g]) < MailboxDepth
  /\ pc' = "push"
  /\ UNCHANGED <<closing, queue, pending, entry, received, lost, taskVars, slotVars>>

\* A task that has closed and drained its mailbox since the permit was granted
\* never reads what is pushed into it.
Push ==
  LET m == Head(queue)
      g == entry[m.session]
  IN
  /\ pc = "push"
  /\ IF phase[g] = "stopped"
       THEN lost' = lost \cup {m} /\ UNCHANGED box
       ELSE box' = [box EXCEPT ![g] = Append(@, m)] /\ UNCHANGED lost
  /\ AfterSend(Tail(queue))
  /\ UNCHANGED <<closing, pending, entry, received, owner, phase, cur, left, fail,
                 begun, idles, slotVars>>

\* tx.send on a closed mailbox gives the message back.
Refused ==
  LET g == entry[Head(queue).session] IN
  /\ pc = "deliver" /\ g # NoTask /\ phase[g] \in {"none", "stopped"}
  /\ pc' = "reap"
  /\ UNCHANGED <<closing, queue, pending, entry, received, lost, taskVars, slotVars>>

\* Mutant of Forget: the stopped task's entry stays in the table.
ForgetKeepsEntry(g) ==
  /\ UNCHANGED entry
  /\ phase' = [phase EXCEPT ![g] = "none"]
  /\ left' = [left EXCEPT ![g] = <<>>]
  /\ fail' = [fail EXCEPT ![g] = "none"]
  /\ cur' = [cur EXCEPT ![g] = NoMsg]
  /\ UNCHANGED <<closing, received, lost, owner, box, begun, idles, slotVars>>

\* reap(): the table forgets the task and its identity is free again.
Forget(g) ==
  /\ entry' = [entry EXCEPT ![owner[g]] = IF @ = g THEN NoTask ELSE @]
  /\ phase' = [phase EXCEPT ![g] = "none"]
  /\ left' = [left EXCEPT ![g] = <<>>]
  /\ fail' = [fail EXCEPT ![g] = "none"]
  /\ cur' = [cur EXCEPT ![g] = NoMsg]
  /\ UNCHANGED <<closing, received, lost, owner, box, begun, idles, slotVars>>

\* The three joins: in the select, in reap_session, and in close.
ReapInSelect(g) ==
  /\ pc = "select" /\ ~closing /\ pending = <<>>
  /\ phase[g] = "stopped" /\ ~EndsTheRun(fail[g])
  /\ pending' = pending \o left[g]
  /\ Forget(g)
  /\ UNCHANGED <<pc, queue>>

\* Mutant of ReapForSend: what the task hands back goes behind the message
\* it refused.
ReapForSendBehind(g) ==
  /\ pc = "reap"
  /\ phase[g] = "stopped" /\ ~EndsTheRun(fail[g])
  /\ IF owner[g] = Head(queue).session
       THEN /\ queue' = queue \o left[g]
            /\ pc' = "deliver"
            /\ UNCHANGED pending
       ELSE /\ pending' = pending \o left[g]
            /\ UNCHANGED <<queue, pc>>
  /\ Forget(g)

ReapForSend(g) ==
  /\ pc = "reap"
  /\ phase[g] = "stopped" /\ ~EndsTheRun(fail[g])
  /\ IF owner[g] = Head(queue).session
       THEN /\ queue' = left[g] \o queue
            /\ pc' = "deliver"
            /\ UNCHANGED pending
       ELSE /\ pending' = pending \o left[g]
            /\ UNCHANGED <<queue, pc>>
  /\ Forget(g)

ReapInClose(g) ==
  /\ pc = "join"
  /\ phase[g] = "stopped" /\ ~EndsTheRun(fail[g])
  /\ pending' = pending \o left[g]
  /\ Forget(g)
  /\ UNCHANGED <<pc, queue>>

\* A failure the policy will not contain: run() returns it, and dropping the
\* JoinSet aborts every other session's task.
EndRun(g) ==
  /\ \/ pc = "select" /\ ~closing /\ pending = <<>>
     \/ pc \in {"reap", "join"}
  /\ phase[g] = "stopped" /\ EndsTheRun(fail[g])
  /\ pc' = "err"
  /\ phase' = [h \in Tasks |-> "none"]
  /\ UNCHANGED <<closing, queue, pending, entry, received, lost, owner, box, cur, left,
                 fail, begun, idles, slotVars>>

\* Mutant of PassBegins: the pass takes no slots.
PassBeginsBeside ==
  /\ pc = "select" /\ ~closing /\ pending = <<>>
  /\ turns # 0
  /\ passSaw' = turns
  /\ pc' = "pass"
  /\ UNCHANGED <<closing, queue, pending, entry, received, lost, free, turns, policy,
                 slots, taskVars>>

\* consolidate_if_quiet: only with every slot in hand, and only if a turn
\* completed since the last pass.
PassBegins ==
  /\ pc = "select" /\ ~closing /\ pending = <<>>
  /\ turns # 0
  /\ free = slots
  /\ free' = 0
  /\ passSaw' = turns
  /\ pc' = "pass"
  /\ UNCHANGED <<closing, queue, pending, entry, received, lost, turns, policy, slots, taskVars>>

PassEnds ==
  /\ pc = "pass"
  /\ turns' = 0 /\ passSaw' = 0
  /\ free' = slots
  /\ pc' = "select"
  /\ UNCHANGED <<closing, queue, pending, entry, received, lost, policy, slots, taskVars>>

\* The channel yields Closed, or an error that is not Closed.
ChannelEnds ==
  /\ pc = "select" /\ ~closing /\ pending = <<>>
  /\ \/ closing' = TRUE /\ UNCHANGED <<pc, phase>>
     \/ pc' = "err" /\ phase' = [g \in Tasks |-> "none"] /\ UNCHANGED closing
  /\ UNCHANGED <<queue, pending, entry, received, lost, owner, box, cur, left, fail,
                 begun, idles, slotVars>>

\* Mutant of ClearSessions: the table keeps its senders, so no mailbox closes.
JoinWithoutClearing ==
  /\ pc = "select" /\ closing /\ pending = <<>>
  /\ pc' = "join"
  /\ UNCHANGED <<closing, queue, pending, entry, received, lost, taskVars, slotVars>>

\* close(): every mailbox closes with the table, then every task is joined;
\* what they hand back is delivered to fresh tasks and joined again.
ClearSessions ==
  /\ pc = "select" /\ closing /\ pending = <<>>
  /\ entry' = [s \in Sessions |-> NoTask]
  /\ pc' = "join"
  /\ UNCHANGED <<closing, queue, pending, received, lost, taskVars, slotVars>>

\* Mutant of Joined: close joins once, and what was handed back is left.
JoinedOnce ==
  /\ pc = "join" /\ Live = {}
  /\ pc' = "ok"
  /\ UNCHANGED <<closing, queue, pending, entry, received, lost, taskVars, slotVars>>

Joined ==
  /\ pc = "join" /\ Live = {}
  /\ pc' = IF pending = <<>> THEN "ok" ELSE "select"
  /\ UNCHANGED <<closing, queue, pending, entry, received, lost, taskVars, slotVars>>

-----------------------------------------------------------------------------
(* A session's task.                                                        *)

TaskStep(g, from, to) ==
  /\ phase[g] = from
  /\ phase' = [phase EXCEPT ![g] = to]

\* The mailbox yields a message; without a summary due it goes for a slot.
TakeMessage(g) ==
  /\ TaskStep(g, "idle", "slot")
  /\ box[g] # <<>>
  /\ cur' = [cur EXCEPT ![g] = Head(box[g])]
  /\ box' = [box EXCEPT ![g] = Tail(@)]
  /\ UNCHANGED <<dispVars, owner, left, fail, begun, idles, slotVars>>

\* The biased select after a turn: the mailbox is polled first, and only an
\* empty one lets the summary start beside the wait.
StartSummary(g) ==
  /\ TaskStep(g, "due", "summing")
  /\ box[g] = <<>>
  /\ UNCHANGED <<dispVars, owner, box, cur, left, fail, begun, idles, slotVars>>

SummaryDone(g) ==
  /\ TaskStep(g, "summing", "idle")
  /\ UNCHANGED <<dispVars, owner, box, cur, left, fail, begun, idles, slotVars>>

\* A message while a summary is due or in flight: the select drops its other
\* branch, and maybe_summarize is called from the start with the message held.
HoldMessage(g) ==
  /\ phase[g] \in {"due", "summing"}
  /\ box[g] # <<>>
  /\ phase' = [phase EXCEPT ![g] = "held"]
  /\ cur' = [cur EXCEPT ![g] = Head(box[g])]
  /\ box' = [box EXCEPT ![g] = Tail(@)]
  /\ UNCHANGED <<dispVars, owner, left, fail, begun, idles, slotVars>>

HeldSummaryDone(g) ==
  /\ TaskStep(g, "held", IF cur[g] = NoMsg THEN "stopping" ELSE "slot")
  /\ UNCHANGED <<dispVars, owner, box, cur, left, fail, begun, idles, slotVars>>

\* The wait on an empty mailbox ends: the mailbox closed, or the session was
\* quiet for idle_after.  Either way a summary in flight is run again first.
StopWaiting(g) ==
  /\ phase[g] \in {"idle", "due", "summing"} /\ box[g] = <<>>
  /\ \/ entry[owner[g]] # g /\ UNCHANGED idles
     \/ idles > 0 /\ phase[g] # "due" /\ idles' = idles - 1
  /\ phase' = [phase EXCEPT ![g] = IF @ = "idle" THEN "stopping" ELSE "held"]
  /\ UNCHANGED <<dispVars, owner, box, cur, left, fail, begun, slotVars>>

AcquireSlot(g) ==
  /\ TaskStep(g, "slot", "turn")
  /\ free > 0
  /\ free' = free - 1
  /\ begun' = [begun EXCEPT ![owner[g]] = Append(@, cur[g].n)]
  /\ UNCHANGED <<dispVars, owner, box, cur, left, fail, idles, turns, passSaw, policy,
                 slots>>

\* The turn is counted before its slot is released, and both before the reply.
TurnDone(g) ==
  /\ TaskStep(g, "turn", "reply")
  /\ turns' = turns + 1
  /\ free' = free + 1
  /\ cur' = [cur EXCEPT ![g] = NoMsg]
  /\ UNCHANGED <<dispVars, owner, box, left, fail, begun, idles, passSaw, policy, slots>>

\* Mutant of Fails: a turn that fails keeps its slot.
FailsHoldingSlot(g, f) ==
  /\ phase[g] = "turn" /\ f \in {"store", "cap", "channel", "panic"}
  /\ phase' = [phase EXCEPT ![g] = "stopping"]
  /\ fail' = [fail EXCEPT ![g] = f]
  /\ cur' = [cur EXCEPT ![g] = NoMsg]
  /\ UNCHANGED <<dispVars, owner, box, left, begun, idles, slotVars>>

\* The turn fails or panics, or the reply's channel is gone or panics.  Isolate
\* contains a panic in the task; under Fatal it unwinds past the drain.
Fails(g, f) ==
  /\ \/ phase[g] = "turn" /\ f \in {"store", "cap", "channel", "panic"}
     \/ phase[g] = "reply" /\ f \in {"channel", "panic"}
  /\ free' = IF phase[g] = "turn" THEN free + 1 ELSE free
  /\ phase' = [phase EXCEPT ![g] =
                 IF f = "panic" /\ policy = "Fatal" THEN "stopped" ELSE "stopping"]
  /\ fail' = [fail EXCEPT ![g] = f]
  /\ cur' = [cur EXCEPT ![g] = NoMsg]
  /\ UNCHANGED <<dispVars, owner, box, left, begun, idles, turns, passSaw, policy,
                 slots>>

\* maybe_summarize panics, beside the wait or after it.  The message the select
\* has taken by then goes with the future that is unwound: it is neither in the
\* mailbox nor handed back.
SummaryPanics(g) ==
  /\ phase[g] \in {"summing", "held"}
  /\ phase' = [phase EXCEPT ![g] = IF policy = "Fatal" THEN "stopped" ELSE "stopping"]
  /\ fail' = [fail EXCEPT ![g] = "panic"]
  /\ cur' = [cur EXCEPT ![g] = NoMsg]
  /\ lost' = lost \cup ({cur[g]} \ {NoMsg})
  /\ UNCHANGED <<pc, closing, queue, pending, entry, received, owner, box, left, begun,
                 idles, slotVars>>

ReplySent(g) ==
  /\ TaskStep(g, "reply", "due")
  /\ UNCHANGED <<dispVars, owner, box, cur, left, fail, begun, idles, slotVars>>

\* Mutants of CloseAndDrain: the mailbox is closed without being drained; the
\* task takes itself out of the table before it is reaped.
CloseWithoutDrain(g) ==
  /\ TaskStep(g, "stopping", "stopped")
  /\ box' = [box EXCEPT ![g] = <<>>]
  /\ UNCHANGED <<dispVars, owner, cur, left, fail, begun, idles, slotVars>>

CloseAndEvict(g) ==
  /\ TaskStep(g, "stopping", "stopped")
  /\ left' = [left EXCEPT ![g] = box[g]]
  /\ box' = [box EXCEPT ![g] = <<>>]
  /\ entry' = [entry EXCEPT ![owner[g]] = NoTask]
  /\ UNCHANGED <<pc, closing, queue, pending, received, lost, owner, cur, fail, begun,
                 idles, slotVars>>

\* rx.close(), then try_recv until it yields nothing.
CloseAndDrain(g) ==
  /\ TaskStep(g, "stopping", "stopped")
  /\ left' = [left EXCEPT ![g] = box[g]]
  /\ box' = [box EXCEPT ![g] = <<>>]
  /\ UNCHANGED <<dispVars, owner, cur, fail, begun, idles, slotVars>>

-----------------------------------------------------------------------------
DispatcherStep ==
  \/ DeliverPending \/ Send \/ Push \/ Refused
  \/ PassEnds \/ ClearSessions \/ Joined
  \/ \E g \in Tasks : \/ OpenMailbox(g) \/ ReapInSelect(g) \/ ReapForSend(g)
                      \/ ReapInClose(g) \/ EndRun(g)

\* What a task does on its own, once it has what it waits for.
TaskProgress(g) ==
  \/ TakeMessage(g) \/ StartSummary(g) \/ SummaryDone(g) \/ HoldMessage(g)
  \/ HeldSummaryDone(g) \/ TurnDone(g) \/ ReplySent(g) \/ CloseAndDrain(g)
  \/ (StopWaiting(g) /\ UNCHANGED idles)

Ended == pc \in {"ok", "err"} /\ UNCHANGED vars

Next ==
  \/ \E s \in Sessions : Receive(s)
  \/ DispatcherStep
  \/ PassBegins
  \/ ChannelEnds
  \/ \E g \in Tasks : \/ TaskProgress(g) \/ StopWaiting(g) \/ AcquireSlot(g)
                      \/ SummaryPanics(g)
                      \/ \E f \in Failures : Fails(g, f)
  \/ Ended

Spec == Init /\ [][Next]_vars

\* The runtime polls the dispatcher and every ready task again; turns, sends
\* and summaries end (every provider call has a timeout); the slot semaphore
\* is first come, first served, so a task queued on it is never passed over
\* for ever.  Nobody has to speak, and nothing has to time out or fail.
FairSpec ==
  /\ Spec
  /\ WF_vars(DispatcherStep)
  /\ \A g \in Tasks : WF_vars(TaskProgress(g)) /\ SF_vars(AcquireSlot(g))

-----------------------------------------------------------------------------
(* Properties.                                                              *)

Phases == {"none", "idle", "due", "summing", "held", "slot", "turn", "reply",
           "stopping", "stopped"}

DispTypeOK ==
  /\ pc \in {"select", "deliver", "push", "reap", "pass", "join", "ok", "err"}
  /\ closing \in BOOLEAN
  /\ queue \in Seq(Msg) /\ pending \in Seq(Msg)
  /\ pc \in {"deliver", "push", "reap"} => queue # <<>>
  /\ entry \in [Sessions -> Tasks \cup {NoTask}]
  /\ received \in [Sessions -> Nat]
  /\ lost \subseteq Msg

TaskTypeOK ==
  /\ owner \in [Tasks -> Sessions]
  /\ phase \in [Tasks -> Phases]
  /\ box \in [Tasks -> Seq(Msg)]
  /\ cur \in [Tasks -> Msg \cup {NoMsg}]
  /\ left \in [Tasks -> Seq(Msg)]
  /\ fail \in [Tasks -> Failures]
  /\ begun \in [Sessions -> Seq(Nat \ {0})]
  /\ idles \in Nat
  /\ \A g \in Tasks : phase[g] \in {"slot", "turn"} => cur[g] \in Msg

SlotTypeOK ==
  /\ slots \in Nat \ {0} /\ free \in 0..slots
  /\ turns \in Nat /\ passSaw \in Nat
  /\ policy \in {"Fatal", "Isolate"}

\* Every variable has its type; the semaphore never holds more permits than it
\* was built with, and a task that wants a slot or holds one has its message.
TypeOK == DispTypeOK /\ TaskTypeOK /\ SlotTypeOK

\* "A turn for a session cannot start before that session's previous turn has
\* finished": two tasks of one session never coexist, not even while the old
\* one is draining or waiting to be reaped.
OneTaskPerSession ==
  \A g, h \in Live : owner[g] = owner[h] => g = h

\* A session's messages in the order they have reached: those whose turn has begun,
\* the one its task holds, its mailbox, what its stopped task hands back, the
\* delivery in hand, and what waits to be delivered again.  The last two hold
\* messages of other sessions too.
Line(s) ==
  LET TaskOf == {g \in Live : owner[g] = s}
      Inside == IF TaskOf = {} THEN <<>>
                ELSE LET g == CHOOSE h \in TaskOf : TRUE IN
                     (IF phase[g] \in {"held", "slot"} /\ cur[g] # NoMsg
                        THEN <<cur[g]>> ELSE <<>>) \o box[g] \o left[g]
  IN  [i \in DOMAIN begun[s] |-> [session |-> s, n |-> begun[s][i]]]
        \o Inside \o queue \o pending

\* Messages of one session come in the order they were received, none twice.
Rising(q) == \A i, j \in DOMAIN q : i < j /\ q[i].session = q[j].session => q[i].n < q[j].n

\* Through idle stops, failures, panics, refused sends and close: while the run
\* goes on, the turns begun and the messages still waiting are exactly the
\* messages received, in the order they came.  Two steps of the code do drop a
\* message, and `lost` records them: a send preempted between its permit and
\* its push (Push), and a summary that panics with a message held
\* (SummaryPanics).  Nothing else may: a message queued behind a failure is
\* handed back.
AllAccountedForInOrder ==
  pc # "err" =>
    \A s \in Sessions :
      /\ Rising(Line(s))
      /\ {Line(s)[i] : i \in {j \in DOMAIN Line(s) : Line(s)[j].session = s}}
           = {[session |-> s, n |-> n] : n \in 1..received[s]} \ lost

\* "Not reached in practice": a refused send always finds the task that
\* refused it still in the set, so reap_session cannot run out of tasks.
RefusalHasATask ==
  pc = "reap" => \E g \in Live : owner[g] = Head(queue).session

\* The consolidator never runs beside a turn, and no turn completes between
\* the moment it starts and the reset of the counter: none goes uncounted.
PassRunsAlone ==
  pc = "pass" => Running = {} /\ turns = passSaw

\* The worker slots bound the turns in flight, and a turn that ends by any
\* path, panics included, gives its slot back.
SlotsAccounted ==
  pc \notin {"pass", "err"} => Cardinality(Running) + free = slots

\* The dispatcher implements SessionTurns: one turn per session at a time,
\* each message once, in order.
Turns == INSTANCE SessionTurns WITH busy <- {owner[g] : g \in Running}

ImplementsSessionTurns == Turns!Spec

\* Every message read from the channel gets its turn, whether the sessions share
\* one slot or have one each, unless the run ends or the message is one of those
\* that Push or SummaryPanics dropped.
EveryMessageGetsATurn ==
  \A s \in Sessions : \A n \in 1..MaxMsgs[s] :
    (received[s] >= n) ~> \/ \E i \in DOMAIN begun[s] : begun[s][i] = n
                          \/ [session |-> s, n |-> n] \in lost
                          \/ pc = "err"

\* Once the channel closes, every session finishes and the run returns.
CloseEnds == closing ~> pc \in {"ok", "err"}
=============================================================================
