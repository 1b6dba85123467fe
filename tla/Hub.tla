--------------------------------- MODULE Hub ---------------------------------
(***************************************************************************)
(* crates/channel-hub: one bounded queue per company, filled by the calls of *)
(* every way in and drained by whoever holds the company's receiver, the     *)
(* stream naming the companies nobody drains, and the shutdown.              *)
(*                                                                         *)
(* A company has an entry in the queue map when its receiver is somewhere:   *)
(* parked in the map or held by a tenant channel.  The shutdown clears the   *)
(* map.  Messages of one company are told apart by nothing but their order,  *)
(* so a queue is its length.                                                 *)
(***************************************************************************)
EXTENDS Integers, FiniteSets, Sequences

CONSTANTS
  Companies,  \* the companies the ingresses resolve callers into
  Calls,      \* bound: the messages the ingresses hand over, one call each
  From,       \* the company each call speaks for
  Depth       \* INBOUND_DEPTH

ASSUME HubAssumption ==
  Companies # {} /\ From \in [Calls -> Companies] /\ Depth \in Nat \ {0}

VARIABLES
  shut,     \* "open", "closed" (flag set, queues cleared), "told" (waiters notified)
  at,       \* where each call is between sender_for and the end of hand_over
  parked,   \* companies whose receiver is parked in their queue
  held,     \* companies whose receiver is in a tenant channel
  woken,    \* Queue::woken
  waiting,  \* messages in each company's queue
  wakes     \* the wake stream

hubVars == <<shut, at, parked, held, woken, waiting, wakes>>

closed == shut # "open"
Phases == {"new", "tx", "armed", "send", "told", "done"}

\* The calls that hold a clone of the company's sender.
Calling(c) == {k \in Calls : From[k] = c /\ at[k] \notin {"new", "done"}}

HubInit ==
  /\ shut = "open"
  /\ at = [k \in Calls |-> "new"]
  /\ parked = {} /\ held = {} /\ woken = {}
  /\ waiting = [c \in Companies |-> 0]
  /\ wakes = <<>>

HubTypeOK ==
  /\ shut \in {"open", "closed", "told"}
  /\ at \in [Calls -> Phases]
  /\ parked \subseteq Companies /\ held \subseteq Companies /\ woken \subseteq Companies
  /\ waiting \in [Companies -> 0..Depth]
  /\ wakes \in Seq(Companies)

-----------------------------------------------------------------------------
(* Hub::wake, once the receivers in p are parked and the wakes in w are out. *)

\* Mutant: the flag that keeps a flood to one wake is not read.
WakeEveryTime(c, p, w) ==
  IF c \in p THEN woken' = w \cup {c} /\ wakes' = Append(wakes, c)
             ELSE woken' = w /\ UNCHANGED wakes

Wake(c, p, w) ==
  IF c \in p \ w THEN woken' = w \cup {c} /\ wakes' = Append(wakes, c)
                 ELSE woken' = w /\ UNCHANGED wakes

-----------------------------------------------------------------------------
(* One call: sender_for, then hand_over.                                    *)

Moves(k, phase) == at' = [at EXCEPT ![k] = phase]

\* sender_for: the company's first message creates its queue, receiver parked.
Lookup(k) ==
  LET c == From[k]
      p == IF c \in held THEN parked ELSE parked \cup {c}
  IN /\ at[k] = "new" /\ ~closed
     /\ Moves(k, "tx")
     /\ parked' = p
     /\ Wake(c, p, woken)
     /\ UNCHANGED <<shut, held, waiting>>

\* sender_for after the shutdown: no queue is created for nobody to drain.
LookupRefused(k) ==
  /\ at[k] = "new" /\ closed
  /\ Moves(k, "done")
  /\ UNCHANGED <<shut, parked, held, woken, waiting, wakes>>

\* hand_over registers on the shutdown before it reads the flag.
Arm(k) ==
  /\ at[k] = "tx"
  /\ Moves(k, "armed")
  /\ UNCHANGED <<shut, parked, held, woken, waiting, wakes>>

\* Mutant: the flag is not read once registered.
CheckNothing(k) ==
  /\ at[k] = "armed"
  /\ Moves(k, "send")
  /\ UNCHANGED <<shut, parked, held, woken, waiting, wakes>>

Check(k) ==
  /\ at[k] = "armed"
  /\ Moves(k, IF closed THEN "done" ELSE "send")
  /\ UNCHANGED <<shut, parked, held, woken, waiting, wakes>>

\* The select is biased: a message lands while its queue has room.
Push(k) ==
  LET c == From[k] IN
  /\ at[k] \in {"send", "told"}
  /\ c \in parked \cup held /\ waiting[c] < Depth
  /\ Moves(k, "done")
  /\ waiting' = [waiting EXCEPT ![c] = @ + 1]
  /\ UNCHANGED <<shut, parked, held, woken, wakes>>

\* The receiver went with the shutdown.
PushFails(k) ==
  /\ at[k] \in {"send", "told"} /\ From[k] \notin parked \cup held
  /\ Moves(k, "done")
  /\ UNCHANGED <<shut, parked, held, woken, waiting, wakes>>

\* The shutdown ends what waits on a full queue.
GiveUp(k) ==
  /\ at[k] = "told" /\ From[k] \in parked \cup held /\ waiting[From[k]] = Depth
  /\ Moves(k, "done")
  /\ UNCHANGED <<shut, parked, held, woken, waiting, wakes>>

\* Mutant: a webhook waits for its queue without a deadline.
NoDeadline(k) == FALSE /\ UNCHANGED hubVars

\* A webhook's ENQUEUE_DEADLINE on a full queue.
TimesOut(k) ==
  /\ at[k] = "send" /\ waiting[From[k]] = Depth
  /\ Moves(k, "done")
  /\ UNCHANGED <<shut, parked, held, woken, waiting, wakes>>

HandOver(k) ==
  Lookup(k) \/ LookupRefused(k) \/ Arm(k) \/ Check(k) \/ Push(k) \/ PushFails(k) \/ GiveUp(k)

-----------------------------------------------------------------------------
(* What the holder of the wake stream and of the tenant channels may do.    *)

NextName ==
  /\ wakes # <<>>
  /\ wakes' = Tail(wakes)
  /\ UNCHANGED <<shut, at, parked, held, woken, waiting>>

\* tenant_channel, take_parked.
Take(c) ==
  /\ c \in parked
  /\ parked' = parked \ {c} /\ held' = held \cup {c} /\ woken' = woken \ {c}
  /\ UNCHANGED <<shut, at, waiting, wakes>>

\* TenantChannel::recv.
Recv(c) ==
  /\ c \in held /\ waiting[c] > 0
  /\ waiting' = [waiting EXCEPT ![c] = @ - 1]
  /\ UNCHANGED <<shut, at, parked, held, woken, wakes>>

\* recv says Closed: drained, and every sender of the queue dropped.
Ended(c) == closed /\ waiting[c] = 0 /\ Calling(c) = {}

\* Mutant of Drop: what arrived meanwhile wakes nobody.
DropQuietly(c) ==
  /\ c \in held
  /\ held' = held \ {c}
  /\ parked' = IF closed THEN parked ELSE parked \cup {c}
  /\ waiting' = IF closed THEN [waiting EXCEPT ![c] = 0] ELSE waiting
  /\ UNCHANGED <<shut, at, woken, wakes>>

\* TenantChannel's drop: the receiver is parked again, or goes with the shutdown.
Drop(c) ==
  /\ c \in held
  /\ held' = held \ {c}
  /\ IF closed
     THEN /\ waiting' = [waiting EXCEPT ![c] = 0]
          /\ UNCHANGED <<parked, woken, wakes>>
     ELSE /\ parked' = parked \cup {c}
          /\ IF waiting[c] > 0 THEN Wake(c, parked', woken \ {c})
             ELSE woken' = woken \ {c} /\ UNCHANGED wakes
          /\ UNCHANGED waiting
  /\ UNCHANGED <<shut, at>>

-----------------------------------------------------------------------------
(* The last ingress closes: Hub::shutdown.                                  *)

Shutdown ==
  /\ shut = "open"
  /\ shut' = "closed"
  /\ parked' = {} /\ woken' = {}
  /\ waiting' = [c \in Companies |-> IF c \in held THEN waiting[c] ELSE 0]
  /\ UNCHANGED <<at, held, wakes>>

NotifyWaiters ==
  /\ shut = "closed"
  /\ shut' = "told"
  /\ at' = [k \in Calls |-> IF at[k] = "send" THEN "told" ELSE at[k]]
  /\ UNCHANGED <<parked, held, woken, waiting, wakes>>

-----------------------------------------------------------------------------
\* A receiver is in one place, a parked company is named in the wake stream at
\* most once however its calls race, and only while its wake is outstanding
\* ("woken is what keeps the wake stream to one name per company").
OneNamePerCompany ==
  /\ parked \cap held = {}
  /\ \A i, j \in DOMAIN wakes : wakes[i] = wakes[j] => i = j
  /\ woken \subseteq parked
  /\ ~closed => \A i \in DOMAIN wakes : wakes[i] \in woken
=============================================================================
