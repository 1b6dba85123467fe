------------------------------- MODULE Webhook -------------------------------
(***************************************************************************)
(* crates/channel-http/src/hooks.rs and seen.rs: a platform delivers batches *)
(* of messages and retries what it got no 200 for; each message is recorded  *)
(* as seen, then handed over to the hub.  Beside the deliveries, the windows *)
(* of channel-tcp and channel-http hand one message over each, with no       *)
(* deadline.                                                                *)
(*                                                                         *)
(* A call of the hub is one delivery or one window.  Of the engines' side    *)
(* only the draining of a queue is here.  The process may stop and start    *)
(* again.                                                                   *)
(***************************************************************************)
EXTENDS Hub, SequencesExt

CONSTANTS
  Deliveries,  \* bound: the deliveries the platform makes, retries included
  Windows,     \* the calls that are windows
  Messages,    \* the platform's message ids
  Batches,     \* what a delivery may carry, in the order it is handed over
  Cap,         \* CAP
  MaxFaults    \* bound: restarts and failed writes of the seen file

ASSUME WebhookAssumption ==
  /\ Deliveries \cup Windows = Calls /\ Deliveries \cap Windows = {}
  /\ Batches \subseteq Seq(Messages) \ {<<>>}
  /\ Cap \in Nat \ {0} /\ MaxFaults \in Nat

VARIABLES
  step,      \* where each delivery is
  batch,     \* what it carries
  next,      \* the arrival it is at
  seen,      \* SeenIds::state, oldest first
  file,      \* what the seen file holds
  acked,     \* messages of deliveries answered 200
  recorded,  \* history: the messages first_time said TRUE of
  landed,    \* history: the messages handed over to a queue
  missed,    \* history: messages whose last acceptance the file does not hold
  unfiled,   \* history: messages a restart forgot because a write had failed
  faults     \* faults left

history == <<recorded, landed, missed, unfiled>>
hookVars == <<step, batch, next, seen, file, acked, history, faults>>
vars == <<hubVars, hookVars>>

Steps == {"idle", "open", "hold", "accepted", "refused", "dropped", "gone"}
Ids(s) == ToSet(s)
Arrival(k) == batch[k][next[k]]

Init ==
  /\ HubInit
  /\ step = [k \in Deliveries |-> "idle"]
  /\ batch = [k \in Deliveries |-> <<>>] /\ next = [k \in Deliveries |-> 1]
  /\ seen = <<>> /\ file = <<>>
  /\ acked = {} /\ recorded = <<>> /\ landed = {} /\ missed = {} /\ unfiled = {}
  /\ faults = MaxFaults

-----------------------------------------------------------------------------
(* The platform.                                                            *)

Deliver(k) ==
  /\ step[k] = "idle"
  /\ \E b \in Batches : Ids(b) \ acked # {} /\ batch' = [batch EXCEPT ![k] = b]
  /\ step' = [step EXCEPT ![k] = "open"]
  /\ UNCHANGED <<hubVars, next, seen, file, acked, history, faults>>

-----------------------------------------------------------------------------
(* hooks::delivery, one arrival after another.                              *)

\* remember, and what first_time writes: a line more, or the file anew once
\* something is forgotten.  A write that fails loses the line, or what of the
\* file it did not come to.
Record(m) ==
  LET all == Append(seen, m)
      over == Len(all) > Cap
      kept == IF over THEN Tail(all) ELSE all
  IN /\ seen' = kept
     /\ \/ /\ UNCHANGED faults
           /\ IF over THEN file' = kept /\ missed' = {}
              ELSE file' = Append(file, m) /\ missed' = missed \ {m}
        \/ /\ faults > 0 /\ faults' = faults - 1
           /\ \/ UNCHANGED file /\ missed' = missed \cup {m}
              \/ \E written \in 0..(Len(kept) - 1) :
                   /\ over /\ file' = SubSeq(kept, 1, written)
                   /\ missed' = Ids(kept) \ Ids(file')

\* first_time says no: a retry, or a message repeated in the batch.
Skip(k) ==
  /\ step[k] = "open" /\ next[k] <= Len(batch[k]) /\ Arrival(k) \in Ids(seen)
  /\ next' = [next EXCEPT ![k] = @ + 1]
  /\ UNCHANGED <<hubVars, step, batch, seen, file, acked, history, faults>>

\* first_time says yes, and has recorded the message.
Accept(k) ==
  /\ step[k] = "open" /\ next[k] <= Len(batch[k]) /\ Arrival(k) \notin Ids(seen)
  /\ Record(Arrival(k))
  /\ recorded' = Append(recorded, Arrival(k))
  /\ step' = [step EXCEPT ![k] = "hold"]
  /\ Moves(k, "new")
  /\ UNCHANGED <<shut, parked, held, woken, waiting, wakes, batch, next, acked, landed, unfiled>>

\* On the way through sender_for and hand_over.
HandingOver(k) ==
  /\ step[k] = "hold"
  /\ Lookup(k) \/ Arm(k) \/ (~closed /\ Check(k))
  /\ UNCHANGED hookVars

Land(k) ==
  /\ step[k] = "hold" /\ Push(k)
  /\ landed' = landed \cup {Arrival(k)}
  /\ step' = [step EXCEPT ![k] = "open"]
  /\ next' = [next EXCEPT ![k] = @ + 1]
  /\ UNCHANGED <<batch, seen, file, acked, recorded, missed, unfiled, faults>>

NotHandedOver(k) ==
  LookupRefused(k) \/ (closed /\ Check(k)) \/ PushFails(k) \/ GiveUp(k) \/ TimesOut(k)

\* Mutant: the batch goes on after a message its queue did not take.
RefuseAndGoOn(k) ==
  /\ step[k] = "hold" /\ NotHandedOver(k)
  /\ step' = [step EXCEPT ![k] = "open"]
  /\ next' = [next EXCEPT ![k] = @ + 1]
  /\ UNCHANGED <<batch, seen, file, acked, history, faults>>

\* 503: the platform retries.
Refuse(k) ==
  /\ step[k] = "hold" /\ NotHandedOver(k)
  /\ step' = [step EXCEPT ![k] = "refused"]
  /\ UNCHANGED <<batch, next, seen, file, acked, history, faults>>

\* 200, once the batch is through.
Acknowledge(k) ==
  /\ step[k] = "open" /\ next[k] > Len(batch[k])
  /\ step' = [step EXCEPT ![k] = "accepted"]
  /\ acked' = acked \cup Ids(batch[k])
  /\ UNCHANGED <<hubVars, batch, next, seen, file, history, faults>>

Delivery(k) ==
  Skip(k) \/ Accept(k) \/ HandingOver(k) \/ Land(k) \/ Refuse(k) \/ Acknowledge(k)

Window(k) == HandOver(k) /\ UNCHANGED hookVars

-----------------------------------------------------------------------------
(* The process stops, with what its queues held, and starts again.          *)

Reopen ==
  /\ shut' = "open"
  /\ at' = [k \in Calls |-> IF at[k] = "new" /\ k \in Windows THEN "new" ELSE "done"]
  /\ parked' = {} /\ held' = {} /\ woken' = {}
  /\ waiting' = [c \in Companies |-> 0] /\ wakes' = <<>>
  /\ step' = [k \in Deliveries |-> CASE step[k] = "open" -> "dropped"
                                     [] step[k] = "hold" -> "gone"
                                     [] OTHER -> step[k]]
  /\ faults' = faults - 1

\* Mutant: the file is not read back.
RestartEmpty ==
  /\ faults > 0 /\ Reopen
  /\ seen' = <<>>
  /\ UNCHANGED <<batch, next, file, acked, history>>

Restart ==
  /\ faults > 0 /\ Reopen
  /\ seen' = file
  /\ unfiled' = unfiled \cup missed /\ missed' = {}
  /\ UNCHANGED <<batch, next, file, acked, recorded, landed>>

\* Bound: an engine that is up stays up, and drains its queue at any pace or none.
Drain ==
  /\ \E c \in Companies : Take(c) \/ Recv(c)
  /\ UNCHANGED hookVars

Next ==
  \/ \E k \in Deliveries : Deliver(k) \/ Delivery(k)
  \/ \E k \in Windows : Window(k)
  \/ Drain \/ Restart
  \/ (Shutdown \/ NotifyWaiters) /\ UNCHANGED hookVars

\* The runtime runs what can run, the two-second deadline included; nobody has to
\* deliver, to drain or to close.  Progress is bounded, so nothing that can go on
\* stands still for ever.
Progress ==
  \/ \E k \in Deliveries : Delivery(k)
  \/ \E k \in Windows : at[k] # "new" /\ Window(k)
  \/ NotifyWaiters /\ UNCHANGED hookVars

Spec == Init /\ [][Next]_vars
FairSpec == Spec /\ WF_vars(Progress)

-----------------------------------------------------------------------------
TypeOK ==
  /\ HubTypeOK
  /\ step \in [Deliveries -> Steps]
  /\ \A k \in Deliveries : /\ batch[k] \in Batches \cup {<<>>}
                           /\ next[k] \in 1..(Len(batch[k]) + 1)
  /\ Len(seen) <= Cap /\ Len(file) <= Cap /\ IsInjective(seen)
  /\ acked \cup landed \cup missed \cup unfiled \cup Ids(seen) \cup Ids(file) \subseteq Messages
  /\ faults \in 0..MaxFaults

\* "The turn must run once": a message is let through twice only when Cap newer
\* ones came between, or a restart read a file without its last acceptance.
TwiceOnlyWhenForgotten ==
  \A i, j \in DOMAIN recorded :
    i < j /\ recorded[i] = recorded[j] =>
      \/ recorded[i] \in unfiled
      \/ Cardinality({recorded[x] : x \in (i + 1)..(j - 1)}) >= Cap

\* A message the platform was told is taken care of went to a queue, unless a
\* delivery is handing it over, failed to, or was cut short doing so: one message
\* a failure, however long its batch.
AckedOrCutShort ==
  \A m \in acked \ landed :
    \E k \in Deliveries : step[k] \in {"hold", "refused", "gone"} /\ Arrival(k) = m

\* A delivery is answered, and a window let go by the shutdown, whatever the queue
\* does and whether or not anybody drains it.
DeliveriesAnswered ==
  \A k \in Deliveries : step[k] = "open" ~> step[k] \notin {"open", "hold"}
WindowsLetGo ==
  \A k \in Windows : closed /\ at[k] # "new" ~> at[k] = "done"

\* What hooks.rs says its retry is for: "a customer whose message vanished has no
\* way to know".
AckedIsHandedOver ==
  ~closed => \A m \in acked \ landed : \E k \in Deliveries : step[k] = "hold" /\ Arrival(k) = m
=============================================================================
