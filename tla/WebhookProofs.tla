----------------------------- MODULE WebhookProofs -----------------------------
(***************************************************************************)
(* Proofs about Webhook, for any batches, calls, cap of the seen file, and  *)
(* number of restarts and failed writes.                                   *)
(*                                                                         *)
(* Two arguments, which share the types only.  What is acknowledged or     *)
(* remembered was handed over or cut short: a step that adds a message to   *)
(* either set adds the delivery that answers for it.  And what was let      *)
(* through is still remembered, or Cap newer ones pushed it out: the list   *)
(* of the seen file is in the order of the acceptances.                    *)
(***************************************************************************)
EXTENDS Webhook, FiniteSetTheorems, TLAPS

HookTypes ==
  /\ step \in [Deliveries -> Steps]
  /\ batch \in [Deliveries -> Seq(Messages)]
  /\ next \in [Deliveries -> Nat \ {0}]
  /\ seen \in Seq(Messages) /\ file \in Seq(Messages) /\ recorded \in Seq(Messages)

\* The messages some delivery stands at: it is handing one over, failed to, or
\* was cut short doing so.
Standing == {k \in Deliveries : step[k] \in {"hold", "refused", "gone"}}
Answered == landed \cup {Arrival(k) : k \in Standing}

\* What a delivery has left behind it.
Behind(k) == {batch[k][x] : x \in 1..(next[k] - 1)}

\* What is acknowledged, what keeps a retry from running, and what a delivery has
\* left behind went to a queue or has a delivery that stands at it.
Accounted ==
  /\ acked \subseteq Answered /\ Ids(seen) \subseteq Answered /\ Ids(file) \subseteq Answered
  /\ \A k \in Deliveries : /\ Behind(k) \subseteq Answered
                           /\ step[k] = "idle" => next[k] = 1

-----------------------------------------------------------------------------
(* What Record makes of the two lists.                                      *)

LEMMA IdsOf ==
  ASSUME NEW s \in Seq(Messages)
  PROVE  /\ \A m \in Ids(s) : \E x \in DOMAIN s : s[x] = m
         /\ \A x \in DOMAIN s : s[x] \in Ids(s)
         /\ Ids(s) \subseteq Messages
         /\ DOMAIN s = 1..Len(s) /\ Len(s) \in Nat
BY DEF Ids, ToSet

LEMMA Appending ==
  ASSUME NEW s \in Seq(Messages), NEW m \in Messages
  PROVE  /\ Append(s, m) \in Seq(Messages) /\ Append(s, m) # <<>>
         /\ Len(Append(s, m)) = Len(s) + 1
         /\ \A x \in 1..Len(s) : Append(s, m)[x] = s[x]
         /\ Append(s, m)[Len(s) + 1] = m
         /\ Ids(Append(s, m)) = Ids(s) \cup {m}
<1>1. /\ Append(s, m) \in Seq(Messages) /\ Append(s, m) # <<>>
      /\ Len(Append(s, m)) = Len(s) + 1
      /\ \A x \in 1..Len(s) : Append(s, m)[x] = s[x]
      /\ Append(s, m)[Len(s) + 1] = m
  OBVIOUS
<1>2. DOMAIN Append(s, m) = 1..(Len(s) + 1) /\ DOMAIN s = 1..Len(s) /\ Len(s) \in Nat
  BY <1>1
<1>3. ASSUME NEW y
      PROVE  y \in Ids(Append(s, m)) <=> y \in Ids(s) \cup {m}
  BY <1>1, <1>2 DEF Ids, ToSet
<1> QED
  BY <1>1, <1>3

LEMMA Forgetting ==
  ASSUME NEW s \in Seq(Messages), s # <<>>
  PROVE  /\ Tail(s) \in Seq(Messages)
         /\ Len(Tail(s)) = Len(s) - 1
         /\ \A x \in 1..(Len(s) - 1) : Tail(s)[x] = s[x + 1]
         /\ Ids(Tail(s)) \subseteq Ids(s)
         /\ Ids(s) \subseteq Ids(Tail(s)) \cup {s[1]}
<1>1. /\ Tail(s) \in Seq(Messages)
      /\ Len(Tail(s)) = Len(s) - 1
      /\ \A x \in 1..(Len(s) - 1) : Tail(s)[x] = s[x + 1]
  OBVIOUS
<1>2. DOMAIN Tail(s) = 1..(Len(s) - 1) /\ DOMAIN s = 1..Len(s) /\ Len(s) \in Nat
  BY <1>1
<1>3. Ids(Tail(s)) \subseteq Ids(s)
  BY <1>1, <1>2 DEF Ids, ToSet
<1>4. ASSUME NEW x \in DOMAIN s
      PROVE  s[x] \in Ids(Tail(s)) \cup {s[1]}
  <2>1. CASE x = 1
    BY <2>1
  <2>2. CASE x # 1
    <3>1. x - 1 \in 1..(Len(s) - 1) /\ (x - 1) + 1 = x
      BY <1>2, <2>2
    <3> QED
      BY <1>1, <1>2, <3>1 DEF Ids, ToSet
  <2> QED
    BY <2>1, <2>2
<1> QED
  BY <1>1, <1>3, <1>4 DEF Ids, ToSet

LEMMA Beginning ==
  ASSUME NEW s \in Seq(Messages), NEW n \in 0..Len(s)
  PROVE  /\ SubSeq(s, 1, n) \in Seq(Messages) /\ Len(SubSeq(s, 1, n)) = n
         /\ \A x \in 1..n : SubSeq(s, 1, n)[x] = s[x]
         /\ Ids(SubSeq(s, 1, n)) \subseteq Ids(s)
<1>1. /\ SubSeq(s, 1, n) \in Seq(Messages) /\ Len(SubSeq(s, 1, n)) = n
      /\ \A x \in 1..n : SubSeq(s, 1, n)[x] = s[x]
  OBVIOUS
<1>2. DOMAIN SubSeq(s, 1, n) = 1..n /\ 1..n \subseteq DOMAIN s
  BY <1>1
<1> QED
  BY <1>1, <1>2 DEF Ids, ToSet

\* The list in memory after m: all of it or all but the oldest.
Kept(m) == IF Len(seen) + 1 > Cap THEN Tail(Append(seen, m)) ELSE Append(seen, m)

LEMMA Recording ==
  ASSUME HookTypes, NEW m \in Messages, Record(m)
  PROVE  /\ seen' = Kept(m)
         /\ seen' \in Seq(Messages) /\ file' \in Seq(Messages)
         /\ Ids(seen') \subseteq Ids(seen) \cup {m}
         /\ Ids(file') \subseteq Ids(file) \cup Ids(seen')
<1> DEFINE all == Append(seen, m)
<1>1. seen \in Seq(Messages) /\ file \in Seq(Messages)
  BY DEF HookTypes
<1>2. /\ all \in Seq(Messages) /\ Len(all) = Len(seen) + 1 /\ all # <<>>
      /\ Ids(all) = Ids(seen) \cup {m} /\ Ids(Append(file, m)) = Ids(file) \cup {m}
      /\ Append(file, m) \in Seq(Messages) /\ Len(seen) \in Nat
  BY <1>1, Appending
<1>3. Kept(m) \in Seq(Messages) /\ Ids(Kept(m)) \subseteq Ids(all)
  BY <1>2, Forgetting DEF Kept
<1>4. seen' = Kept(m)
  BY <1>2 DEF Record, Kept
<1>5. m \in Ids(seen') \/ Len(seen) + 1 > Cap
  BY <1>2, <1>4 DEF Kept
<1>6. file' \in {file, Kept(m)} \/ (Len(seen) + 1 <= Cap /\ file' = Append(file, m))
      \/ \E n \in 0..(Len(Kept(m)) - 1) : file' = SubSeq(Kept(m), 1, n)
  <2>1. CASE Len(all) > Cap
    BY <1>2, <2>1 DEF Record, Kept
  <2>2. CASE ~(Len(all) > Cap)
    <3>1. Len(seen) + 1 <= Cap /\ file' \in {file, Append(file, m)}
      BY <1>2, <2>2, WebhookAssumption DEF Record
    <3> QED
      BY <3>1
  <2> QED
    BY <2>1, <2>2
<1>7. file' \in Seq(Messages) /\ Ids(file') \subseteq Ids(file) \cup Ids(seen')
  <2>1. CASE file' \in {file, Kept(m)}
    BY <2>1, <1>1, <1>3, <1>4
  <2>2. CASE Len(seen) + 1 <= Cap /\ file' = Append(file, m)
    BY <2>2, <1>2, <1>5, WebhookAssumption
  <2>3. CASE \E n \in 0..(Len(Kept(m)) - 1) : file' = SubSeq(Kept(m), 1, n)
    BY <2>3, <1>3, <1>4, Beginning
  <2> QED
    BY <2>1, <2>2, <2>3, <1>6
<1> QED
  BY <1>2, <1>3, <1>4, <1>7

-----------------------------------------------------------------------------
(* Types.                                                                   *)

LEMMA HookTypesStep == HookTypes /\ [Next]_vars => HookTypes'
<1> SUFFICES ASSUME HookTypes, [Next]_vars
             PROVE  HookTypes'
  OBVIOUS
<1>1. ASSUME NEW k \in Deliveries, Deliver(k)
      PROVE  HookTypes'
  <2>1. batch' \in [Deliveries -> Seq(Messages)]
    BY <1>1, WebhookAssumption DEF Deliver, HookTypes
  <2>2. step' \in [Deliveries -> Steps]
    BY <1>1 DEF Deliver, HookTypes, Steps
  <2> QED
    BY <1>1, <2>1, <2>2 DEF Deliver, HookTypes, history
<1>2. ASSUME NEW k \in Deliveries, Skip(k)
      PROVE  HookTypes'
  BY <1>2 DEF Skip, HookTypes, history
<1>3. ASSUME NEW k \in Deliveries, Accept(k)
      PROVE  HookTypes'
  <2>1. Arrival(k) \in Messages
    BY <1>3 DEF Accept, Arrival, HookTypes
  <2>2. Record(Arrival(k))
    BY <1>3 DEF Accept
  <2>3. seen' \in Seq(Messages) /\ file' \in Seq(Messages)
    BY <2>1, <2>2, Recording
  <2>4. recorded' \in Seq(Messages)
    BY <1>3, <2>1 DEF Accept, HookTypes
  <2>5. step' \in [Deliveries -> Steps] /\ UNCHANGED <<batch, next>>
    BY <1>3 DEF Accept, HookTypes, Steps
  <2> QED
    BY <2>3, <2>4, <2>5 DEF HookTypes
<1>4. ASSUME NEW k \in Deliveries, Land(k) \/ Refuse(k) \/ Acknowledge(k)
      PROVE  HookTypes'
  <2>1. UNCHANGED <<batch, seen, file, recorded>>
    BY <1>4 DEF Land, Refuse, Acknowledge, history
  <2>2. step' \in [Deliveries -> Steps]
    BY <1>4 DEF Land, Refuse, Acknowledge, HookTypes, Steps
  <2>3. next' = [next EXCEPT ![k] = @ + 1] \/ next' = next
    BY <1>4 DEF Land, Refuse, Acknowledge
  <2>4. next' \in [Deliveries -> Nat \ {0}]
    BY <2>3 DEF HookTypes
  <2> QED
    BY <2>1, <2>2, <2>4 DEF HookTypes
<1>5. CASE Restart
  <2>1. step' \in [Deliveries -> Steps]
    BY <1>5 DEF Restart, Reopen, HookTypes, Steps
  <2>2. UNCHANGED <<batch, next, file, recorded>> /\ seen' = file
    BY <1>5 DEF Restart
  <2> QED
    BY <2>1, <2>2 DEF HookTypes
<1>6. CASE UNCHANGED hookVars
  BY <1>6 DEF hookVars, history, HookTypes
<1> QED
  BY <1>1, <1>2, <1>3, <1>4, <1>5, <1>6
     DEF Next, Delivery, HandingOver, Window, Drain, vars

-----------------------------------------------------------------------------
(* What is acknowledged or remembered was handed over or cut short.         *)

LEMMA StillAnswered ==
  ASSUME landed \subseteq landed',
         \A k \in Standing : (k \in Standing' /\ Arrival(k)' = Arrival(k)) \/ Arrival(k) \in landed'
  PROVE  Answered \subseteq Answered'
BY DEF Answered

\* A step that adds nothing but what is answered for.
LEMMA NothingMore ==
  ASSUME Accounted, Answered \subseteq Answered',
         acked' \subseteq acked \cup Answered', Ids(seen)' \subseteq Answered', Ids(file)' \subseteq Answered',
         \A k \in Deliveries : /\ Behind(k)' \subseteq Behind(k) \cup Answered'
                               /\ step'[k] = "idle" => step[k] = "idle" /\ next'[k] = next[k]
  PROVE  Accounted'
BY DEF Accounted

\* The delivery moves on from an arrival.
LEMMA MovingOn ==
  ASSUME HookTypes, NEW k \in Deliveries, next' = [next EXCEPT ![k] = @ + 1], UNCHANGED batch
  PROVE  /\ Behind(k)' \subseteq Behind(k) \cup {Arrival(k)}
         /\ \A d \in Deliveries \ {k} : Behind(d)' = Behind(d) /\ Arrival(d)' = Arrival(d)
<1>1. \A x \in 1..(next'[k] - 1) : x \in 1..(next[k] - 1) \/ x = next[k]
  BY DEF HookTypes
<1>2. \A d \in Deliveries \ {k} : next'[d] = next[d] /\ batch'[d] = batch[d]
  BY DEF HookTypes
<1> QED
  BY <1>1, <1>2 DEF Behind, Arrival

\* No delivery moves.
LEMMA NoneMoves ==
  ASSUME UNCHANGED <<next, batch>>
  PROVE  \A d \in Deliveries : Behind(d)' = Behind(d) /\ Arrival(d)' = Arrival(d)
BY DEF Behind, Arrival

\* A delivery that starts has nothing behind it.
LEMMA DeliverAccounts ==
  ASSUME HookTypes, Accounted, NEW k \in Deliveries, Deliver(k)
  PROVE  Accounted'
<1>1. /\ UNCHANGED <<next, seen, file, acked, landed>> /\ step[k] = "idle"
      /\ step' = [step EXCEPT ![k] = "open"]
      /\ \A d \in Deliveries \ {k} : batch'[d] = batch[d]
  BY DEF Deliver, HookTypes, history
<1>2. Standing' = Standing /\ k \notin Standing
  BY <1>1 DEF Standing, HookTypes
<1>3. \A d \in Deliveries \ {k} : Behind(d)' = Behind(d) /\ Arrival(d)' = Arrival(d)
  BY <1>1 DEF Behind, Arrival
<1>4. Answered \subseteq Answered'
  BY <1>1, <1>2, <1>3, StillAnswered DEF Standing
<1>5. Behind(k)' = {}
  BY <1>1 DEF Accounted, Behind, HookTypes
<1> QED
  BY <1>1, <1>3, <1>4, <1>5, NothingMore DEF Accounted, HookTypes, Ids

LEMMA SkipAccounts ==
  ASSUME HookTypes, Accounted, NEW k \in Deliveries, Skip(k)
  PROVE  Accounted'
<1>1. /\ UNCHANGED <<step, batch, seen, file, acked, landed>> /\ step[k] = "open"
      /\ next' = [next EXCEPT ![k] = @ + 1] /\ Arrival(k) \in Ids(seen)
  BY DEF Skip, history
<1>2. Standing' = Standing /\ k \notin Standing
  BY <1>1 DEF Standing
<1>3. Answered \subseteq Answered'
  BY <1>1, <1>2, MovingOn, StillAnswered DEF Standing
<1>4. \A d \in Deliveries : Behind(d)' \subseteq Behind(d) \cup Answered'
  BY <1>1, <1>3, MovingOn DEF Accounted
<1> QED
  BY <1>1, <1>3, <1>4, NothingMore DEF Accounted, HookTypes, Ids

\* The one message more that is remembered is the one the delivery now holds.
LEMMA AcceptAccounts ==
  ASSUME HookTypes, Accounted, NEW k \in Deliveries, Accept(k)
  PROVE  Accounted'
<1>1. /\ UNCHANGED <<batch, next, acked, landed>> /\ step[k] = "open"
      /\ step' = [step EXCEPT ![k] = "hold"] /\ Record(Arrival(k))
  BY DEF Accept
<1>2. Arrival(k) \in Messages
  BY DEF Accept, Arrival, HookTypes
<1>3. Ids(seen') \cup Ids(file') \subseteq Ids(seen) \cup Ids(file) \cup {Arrival(k)}
  BY <1>1, <1>2, Recording
<1>4. k \in Standing' /\ Standing \subseteq Standing'
  BY <1>1 DEF Standing, HookTypes
<1>5. Answered \subseteq Answered'
  BY <1>1, <1>4, NoneMoves, StillAnswered DEF Standing
<1>6. Arrival(k) \in Answered'
  BY <1>1, <1>4, NoneMoves DEF Answered
<1> QED
  BY <1>1, <1>3, <1>5, <1>6, NoneMoves, NothingMore DEF Accounted, HookTypes, Ids

LEMMA LandAccounts ==
  ASSUME HookTypes, Accounted, NEW k \in Deliveries, Land(k)
  PROVE  Accounted'
<1>1. /\ UNCHANGED <<batch, seen, file, acked>>
      /\ landed' = landed \cup {Arrival(k)} /\ step[k] = "hold"
      /\ step' = [step EXCEPT ![k] = "open"] /\ next' = [next EXCEPT ![k] = @ + 1]
  BY DEF Land
<1>2. Standing' = Standing \ {k}
  BY <1>1 DEF Standing, HookTypes
<1>3. Answered \subseteq Answered'
  BY <1>1, <1>2, MovingOn, StillAnswered DEF Standing
<1>4. Arrival(k) \in Answered'
  BY <1>1 DEF Answered
<1>5. \A d \in Deliveries : Behind(d)' \subseteq Behind(d) \cup Answered'
  BY <1>1, <1>4, MovingOn
<1> QED
  BY <1>1, <1>3, <1>5, NothingMore DEF Accounted, HookTypes, Ids

LEMMA RefuseAccounts ==
  ASSUME HookTypes, Accounted, NEW k \in Deliveries, Refuse(k)
  PROVE  Accounted'
<1>1. /\ UNCHANGED <<batch, next, seen, file, acked, landed>> /\ step[k] = "hold"
      /\ step' = [step EXCEPT ![k] = "refused"]
  BY DEF Refuse, history
<1>2. Standing' = Standing
  BY <1>1 DEF Standing, HookTypes
<1>3. Answered \subseteq Answered'
  BY <1>1, <1>2, NoneMoves, StillAnswered DEF Standing
<1> QED
  BY <1>1, <1>3, NoneMoves, NothingMore DEF Accounted, HookTypes, Ids

\* All of an acknowledged batch is behind its delivery.
LEMMA AcknowledgeAccounts ==
  ASSUME HookTypes, Accounted, NEW k \in Deliveries, Acknowledge(k)
  PROVE  Accounted'
<1>1. /\ UNCHANGED <<batch, next, seen, file, landed>> /\ step[k] = "open"
      /\ step' = [step EXCEPT ![k] = "accepted"]
      /\ acked' = acked \cup Ids(batch[k]) /\ next[k] > Len(batch[k])
  BY DEF Acknowledge, history
<1>2. Standing' = Standing
  BY <1>1 DEF Standing, HookTypes
<1>3. Answered \subseteq Answered'
  BY <1>1, <1>2, NoneMoves, StillAnswered DEF Standing
<1>4. Ids(batch[k]) \subseteq Behind(k)
  <2>1. DOMAIN batch[k] = 1..Len(batch[k]) /\ Len(batch[k]) \in Nat /\ next[k] \in Nat
    BY IdsOf DEF HookTypes
  <2> QED
    BY <1>1, <2>1 DEF Ids, ToSet, Behind
<1> QED
  BY <1>1, <1>3, <1>4, NoneMoves, NothingMore DEF Accounted, HookTypes, Ids

LEMMA RestartAccounts ==
  ASSUME HookTypes, Accounted, Restart
  PROVE  Accounted'
<1>1. /\ UNCHANGED <<batch, next, file, acked, landed>> /\ seen' = file
      /\ \A d \in Deliveries : step'[d] = CASE step[d] = "open" -> "dropped"
                                            [] step[d] = "hold" -> "gone"
                                            [] OTHER -> step[d]
  BY DEF Restart, Reopen, history
<1>2. Standing \subseteq Standing' /\ \A d \in Deliveries : step'[d] = "idle" => step[d] = "idle"
  BY <1>1 DEF Standing
<1>3. Answered \subseteq Answered'
  BY <1>1, <1>2, NoneMoves, StillAnswered DEF Standing
<1> QED
  BY <1>1, <1>2, <1>3, NoneMoves, NothingMore DEF Accounted, Ids

LEMMA AccountedStep == HookTypes /\ Accounted /\ [Next]_vars => Accounted'
<1> SUFFICES ASSUME HookTypes, Accounted, [Next]_vars
             PROVE  Accounted'
  OBVIOUS
<1>1. ASSUME UNCHANGED hookVars
      PROVE  Accounted'
  BY <1>1 DEF hookVars, history, Accounted, Answered, Standing, Behind, Arrival
<1> QED
  BY <1>1, DeliverAccounts, SkipAccounts, AcceptAccounts, LandAccounts, RefuseAccounts,
     AcknowledgeAccounts, RestartAccounts
     DEF Next, Delivery, HandingOver, Window, Drain, vars

-----------------------------------------------------------------------------
(* What was let through is remembered, or was pushed out.                   *)

\* In r every a has a b after it.
Before(r, a, b) == \A i \in DOMAIN r : r[i] = a => \E j \in DOMAIN r : i < j /\ r[j] = b

\* The list s has the order of the acceptances r, for all but some of its messages.
InOrder(r, s, but) == \A x, y \in DOMAIN s : x < y => s[x] \in but \/ Before(r, s[x], s[y])

\* The messages accepted after the acceptance i and before the acceptance j.
Between(r, i, j) == {r[x] : x \in (i + 1)..(j - 1)}

\* The seen list is in the order of the acceptances, but for what a restart
\* forgot and took back from an old place in the file; so is the file, but for
\* what was accepted again and not written.  What is in neither was pushed out.
Remembered ==
  /\ IsInjective(seen) /\ IsInjective(file) /\ Len(seen) <= Cap /\ Len(file) <= Cap
  /\ Len(seen) < Cap => Len(file) <= Len(seen) /\ Ids(file) \subseteq Ids(seen)
  /\ Ids(seen) \subseteq Ids(file) \cup missed
  /\ InOrder(recorded, seen, unfiled) /\ InOrder(recorded, file, unfiled \cup missed)
  /\ \A i \in DOMAIN recorded :
       \/ recorded[i] \in Ids(seen) \cup unfiled
       \/ Cardinality(Between(recorded, i, Len(recorded) + 1)) >= Cap
  /\ TwiceOnlyWhenForgotten

LEMMA BetweenFinite ==
  ASSUME NEW r, NEW i \in Int, NEW j \in Int
  PROVE  IsFiniteSet(Between(r, i, j))
<1> DEFINE f == [x \in (i + 1)..(j - 1) |-> r[x]]
<1>1. f \in Surjection((i + 1)..(j - 1), Between(r, i, j))
  BY DEF Surjection, Between
<1>2. IsFiniteSet((i + 1)..(j - 1))
  BY FS_Interval
<1> QED
  BY <1>1, <1>2, FS_Surjection

LEMMA Grows ==
  ASSUME NEW S, NEW T, IsFiniteSet(T), S \subseteq T, NEW n \in Nat, Cardinality(S) >= n
  PROVE  Cardinality(T) >= n
<1>1. IsFiniteSet(S) /\ Cardinality(S) <= Cardinality(T)
  BY FS_Subset
<1>2. Cardinality(S) \in Nat /\ Cardinality(T) \in Nat
  BY <1>1, FS_CardinalityType
<1> QED
  BY <1>1, <1>2

\* Whatever holds all of a list without repetitions but its first has that many.
LEMMA AllButTheFirst ==
  ASSUME NEW s, IsInjective(s), NEW n \in Nat, DOMAIN s = 1..(n + 1),
         NEW T, IsFiniteSet(T), \A y \in 2..(n + 1) : s[y] \in T
  PROVE  Cardinality(T) >= n
<1> DEFINE f == [y \in 2..(n + 1) |-> s[y]]
<1>1. f \in Injection(2..(n + 1), T)
  BY DEF Injection, IsInjective
<1>2. Cardinality(2..(n + 1)) <= Cardinality(T)
  BY <1>1, FS_Injection
<1>3. Cardinality(2..(n + 1)) = n
  BY FS_Interval
<1>4. Cardinality(T) \in Nat
  BY FS_CardinalityType
<1> QED
  BY <1>2, <1>3, <1>4

\* A new acceptance comes after all others, and disturbs the order of no other.
LEMMA Later ==
  ASSUME NEW r \in Seq(Messages), NEW m \in Messages, NEW a, a # m
  PROVE  /\ Before(Append(r, m), a, m)
         /\ \A b : Before(r, a, b) => Before(Append(r, m), a, b)
<1>1. /\ DOMAIN r = 1..Len(r) /\ Len(r) \in Nat /\ DOMAIN Append(r, m) = 1..(Len(r) + 1)
      /\ \A x \in 1..Len(r) : Append(r, m)[x] = r[x]
      /\ Append(r, m)[Len(r) + 1] = m
  OBVIOUS
<1>2. \A i \in DOMAIN Append(r, m) : Append(r, m)[i] = a => i \in DOMAIN r /\ r[i] = a
  BY <1>1
<1>3. Before(Append(r, m), a, m)
  BY <1>1, <1>2 DEF Before
<1>4. ASSUME NEW b, Before(r, a, b)
      PROVE  Before(Append(r, m), a, b)
  <2>1. ASSUME NEW i \in DOMAIN Append(r, m), Append(r, m)[i] = a
        PROVE  \E j \in DOMAIN Append(r, m) : i < j /\ Append(r, m)[j] = b
    <3>1. PICK j \in DOMAIN r : i < j /\ r[j] = b
      BY <1>2, <1>4, <2>1 DEF Before
    <3> QED
      BY <1>1, <3>1
  <2> QED
    BY <2>1 DEF Before
<1> QED
  BY <1>3, <1>4

\* m goes to the end of a list it is not in.
LEMMA EndOfList ==
  ASSUME NEW r \in Seq(Messages), NEW s \in Seq(Messages), NEW but, NEW m \in Messages,
         m \notin Ids(s), IsInjective(s), InOrder(r, s, but)
  PROVE  /\ IsInjective(Append(s, m))
         /\ InOrder(Append(r, m), Append(s, m), but \ {m})
<1>1. /\ DOMAIN s = 1..Len(s) /\ Len(s) \in Nat /\ DOMAIN Append(s, m) = 1..(Len(s) + 1)
      /\ \A x \in 1..Len(s) : Append(s, m)[x] = s[x] /\ s[x] # m
      /\ Append(s, m)[Len(s) + 1] = m
  BY IdsOf
<1>2. IsInjective(Append(s, m))
  BY <1>1 DEF IsInjective
<1>3. ASSUME NEW x \in DOMAIN Append(s, m), NEW y \in DOMAIN Append(s, m), x < y
      PROVE  \/ Append(s, m)[x] \in but \ {m}
             \/ Before(Append(r, m), Append(s, m)[x], Append(s, m)[y])
  <2>1. x \in 1..Len(s) /\ s[x] # m /\ Append(s, m)[x] = s[x]
    BY <1>1, <1>3
  <2>2. CASE y = Len(s) + 1
    BY <1>1, <2>1, <2>2, Later
  <2>3. CASE y \in 1..Len(s)
    <3>1. s[x] \in but \/ Before(r, s[x], s[y])
      BY <1>1, <1>3, <2>1, <2>3 DEF InOrder
    <3> QED
      BY <1>1, <2>1, <2>3, <3>1, Later
  <2> QED
    BY <1>1, <2>2, <2>3
<1> QED
  BY <1>2, <1>3 DEF InOrder

LEMMA RestOfList ==
  ASSUME NEW r, NEW s \in Seq(Messages), s # <<>>, NEW but, IsInjective(s), InOrder(r, s, but)
  PROVE  IsInjective(Tail(s)) /\ InOrder(r, Tail(s), but)
<1>1. /\ DOMAIN Tail(s) = 1..(Len(s) - 1) /\ DOMAIN s = 1..Len(s) /\ Len(s) \in Nat
      /\ \A x \in 1..(Len(s) - 1) : Tail(s)[x] = s[x + 1] /\ x + 1 \in 1..Len(s)
  OBVIOUS
<1> QED
  BY <1>1 DEF IsInjective, InOrder

LEMMA StartOfList ==
  ASSUME NEW r, NEW s \in Seq(Messages), NEW n \in 0..Len(s), NEW but,
         IsInjective(s), InOrder(r, s, but)
  PROVE  IsInjective(SubSeq(s, 1, n)) /\ InOrder(r, SubSeq(s, 1, n), but)
<1>1. /\ DOMAIN SubSeq(s, 1, n) = 1..n /\ DOMAIN s = 1..Len(s) /\ Len(s) \in Nat
      /\ \A x \in 1..n : SubSeq(s, 1, n)[x] = s[x] /\ x \in 1..Len(s)
  OBVIOUS
<1> QED
  BY <1>1 DEF IsInjective, InOrder

\* More may be out of order.
LEMMA MoreOut ==
  ASSUME NEW r, NEW s, NEW S, NEW T, S \subseteq T, InOrder(r, s, S)
  PROVE  InOrder(r, s, T)
BY DEF InOrder

\* An old list, when what was accepted is out of order in it.
LEMMA OldList ==
  ASSUME NEW r \in Seq(Messages), NEW s, NEW but, NEW m \in Messages, m \in but, InOrder(r, s, but)
  PROVE  InOrder(Append(r, m), s, but)
BY Later DEF InOrder

\* The step that accepts m, for the lists.
LEMMA AcceptedLists ==
  ASSUME HookTypes, Remembered, NEW m \in Messages, m \notin Ids(seen), Record(m),
         recorded' = Append(recorded, m), UNCHANGED unfiled
  PROVE  /\ IsInjective(seen') /\ IsInjective(file') /\ Len(seen') <= Cap /\ Len(file') <= Cap
         /\ Len(seen') < Cap => Len(file') <= Len(seen') /\ Ids(file') \subseteq Ids(seen')
         /\ Ids(seen') \subseteq Ids(file') \cup missed'
         /\ InOrder(recorded', seen', unfiled') /\ InOrder(recorded', file', unfiled' \cup missed')
<1> DEFINE all == Append(seen, m)
<1>0. Cap \in Nat /\ Cap >= 1
  BY WebhookAssumption
<1> USE <1>0
<1>1. /\ seen \in Seq(Messages) /\ file \in Seq(Messages) /\ recorded \in Seq(Messages)
      /\ Len(seen) \in Nat /\ Len(file) \in Nat
  BY DEF HookTypes
<1>2. /\ all \in Seq(Messages) /\ Len(all) = Len(seen) + 1 /\ all # <<>>
      /\ Ids(all) = Ids(seen) \cup {m}
  BY <1>1, Appending
<1>7. Len(Append(file, m)) = Len(file) + 1 /\ Ids(Append(file, m)) = Ids(file) \cup {m}
  BY <1>1, Appending
<1>3. IsInjective(all) /\ InOrder(recorded', all, unfiled')
  <2>1. IsInjective(all) /\ InOrder(recorded', all, unfiled \ {m})
    BY <1>1, EndOfList DEF Remembered
  <2> QED
    BY <2>1, MoreOut
<1>4. ASSUME UNCHANGED file, missed' = missed \cup {m}
      PROVE  InOrder(recorded', file', unfiled' \cup missed')
  <2>1. InOrder(recorded, file, unfiled \cup missed \cup {m})
    BY MoreOut DEF Remembered
  <2>2. InOrder(recorded', file, unfiled \cup missed \cup {m})
    BY <1>1, <2>1, OldList
  <2> QED
    BY <1>4, <2>2, MoreOut
<1>5. CASE Len(all) > Cap
  <2>0. seen' = Tail(all) /\ Len(all) = Cap + 1
    BY <1>1, <1>2, <1>5 DEF Record, Remembered
  <2>1. /\ Len(seen') = Cap /\ seen' \in Seq(Messages)
        /\ Ids(seen') \subseteq Ids(seen) \cup {m}
    <3>1. /\ Tail(all) \in Seq(Messages) /\ Len(Tail(all)) = Len(all) - 1
          /\ Ids(Tail(all)) \subseteq Ids(all)
      BY <1>2, Forgetting
    <3> QED
      BY <1>2, <2>0, <3>1
  <2>2. IsInjective(seen') /\ InOrder(recorded', seen', unfiled')
    BY <1>2, <1>3, <2>0, RestOfList
  <2>3. CASE file' = seen' /\ missed' = {}
    BY <2>1, <2>2, <2>3, MoreOut
  <2>4. CASE UNCHANGED file /\ missed' = missed \cup {m}
    BY <1>4, <2>1, <2>2, <2>4 DEF Remembered
  <2>5. ASSUME NEW n \in 0..(Len(seen') - 1), file' = SubSeq(seen', 1, n),
               missed' = Ids(seen') \ Ids(file')
        PROVE  /\ IsInjective(file') /\ Len(file') <= Cap
               /\ Ids(seen') \subseteq Ids(file') \cup missed'
               /\ InOrder(recorded', file', unfiled' \cup missed')
    <3>1. n \in 0..Len(seen') /\ n <= Cap
      BY <2>1, <2>5
    <3>2. IsInjective(file') /\ InOrder(recorded', file', unfiled') /\ Len(file') = n
      BY <2>1, <2>2, <2>5, <3>1, StartOfList, Beginning
    <3> QED
      BY <2>5, <3>1, <3>2, MoreOut
  <2>6. \/ file' = seen' /\ missed' = {}
        \/ UNCHANGED file /\ missed' = missed \cup {m}
        \/ \E n \in 0..(Len(seen') - 1) : /\ file' = SubSeq(seen', 1, n)
                                          /\ missed' = Ids(seen') \ Ids(file')
    BY <1>5, <2>0 DEF Record
  <2>7. CASE \E n \in 0..(Len(seen') - 1) : /\ file' = SubSeq(seen', 1, n)
                                            /\ missed' = Ids(seen') \ Ids(file')
    <3>1. /\ IsInjective(file') /\ Len(file') <= Cap
          /\ Ids(seen') \subseteq Ids(file') \cup missed'
          /\ InOrder(recorded', file', unfiled' \cup missed')
      BY <2>5, <2>7
    <3>2. Len(seen') <= Cap /\ ~(Len(seen') < Cap)
      BY <2>1
    <3> QED
      BY <2>2, <3>1, <3>2
  <2> QED
    BY <2>3, <2>4, <2>6, <2>7
<1>6. CASE ~(Len(all) > Cap)
  <2>1. seen' = all /\ Len(seen) < Cap /\ Len(seen') <= Cap
    BY <1>2, <1>6 DEF Record
  <2>2. m \notin Ids(file) /\ Len(file) <= Len(seen) /\ Ids(file) \subseteq Ids(seen)
    BY <2>1 DEF Remembered
  <2>3. CASE file' = Append(file, m) /\ missed' = missed \ {m}
    <3>1. /\ IsInjective(file')
          /\ InOrder(recorded', file', (unfiled \cup missed) \ {m})
      BY <1>1, <2>2, <2>3, EndOfList DEF Remembered
    <3>2. InOrder(recorded', file', unfiled' \cup missed')
      BY <2>3, <3>1, MoreOut
    <3>3. Len(file') <= Len(seen') /\ Len(file') <= Cap
      BY <1>1, <1>2, <1>7, <2>1, <2>2, <2>3
    <3>4. Ids(file') \subseteq Ids(seen') /\ Ids(seen') \subseteq Ids(file') \cup missed'
      BY <1>2, <1>7, <2>1, <2>2, <2>3 DEF Remembered
    <3> QED
      BY <1>3, <2>1, <3>1, <3>2, <3>3, <3>4
  <2>4. CASE UNCHANGED file /\ missed' = missed \cup {m}
    <3>1. Len(file') <= Len(seen') /\ Len(file') <= Cap
      BY <1>1, <1>2, <2>1, <2>2, <2>4
    <3>2. Ids(file') \subseteq Ids(seen') /\ Ids(seen') \subseteq Ids(file') \cup missed'
      BY <1>2, <2>1, <2>2, <2>4 DEF Remembered
    <3>3. IsInjective(file')
      BY <2>4 DEF Remembered
    <3> QED
      BY <1>3, <1>4, <2>1, <2>4, <3>1, <3>2, <3>3
  <2>5. \/ file' = Append(file, m) /\ missed' = missed \ {m}
        \/ UNCHANGED file /\ missed' = missed \cup {m}
    BY <1>6 DEF Record
  <2> QED
    BY <2>3, <2>4, <2>5
<1> QED
  BY <1>5, <1>6

\* The step that accepts m, for what was let through.
LEMMA AcceptedCounts ==
  ASSUME HookTypes, Remembered, NEW m \in Messages, m \notin Ids(seen), Record(m),
         recorded' = Append(recorded, m), UNCHANGED unfiled
  PROVE  /\ \A i \in DOMAIN recorded' :
              \/ recorded'[i] \in Ids(seen') \cup unfiled'
              \/ Cardinality(Between(recorded', i, Len(recorded') + 1)) >= Cap
         /\ TwiceOnlyWhenForgotten'
<1> DEFINE all == Append(seen, m)
           n == Len(recorded)
<1>0. Cap \in Nat /\ Cap >= 1
  BY WebhookAssumption
<1> USE <1>0
<1>1. /\ seen \in Seq(Messages) /\ recorded \in Seq(Messages) /\ Len(seen) \in Nat
  BY DEF HookTypes
<1>2. /\ all \in Seq(Messages) /\ Len(all) = Len(seen) + 1 /\ all # <<>>
      /\ Ids(all) = Ids(seen) \cup {m} /\ DOMAIN all = 1..(Len(seen) + 1)
      /\ all[Len(seen) + 1] = m
  BY <1>1, Appending
<1>3. /\ n \in Nat /\ DOMAIN recorded = 1..n /\ DOMAIN recorded' = 1..(n + 1)
      /\ Len(recorded') = n + 1 /\ recorded'[n + 1] = m
      /\ \A x \in 1..n : recorded'[x] = recorded[x]
  BY <1>1
<1>4. IsInjective(all) /\ InOrder(recorded', all, unfiled)
  <2>1. IsInjective(all) /\ InOrder(recorded', all, unfiled \ {m})
    BY <1>1, EndOfList DEF Remembered
  <2> QED
    BY <2>1, MoreOut
<1>5. \/ Len(seen) + 1 <= Cap /\ Ids(seen') = Ids(all)
      \/ Len(seen) = Cap /\ Ids(all) \subseteq Ids(seen') \cup {all[1]}
  <2>1. CASE Len(all) > Cap
    <3>1. seen' = Tail(all) /\ Len(seen) = Cap
      BY <1>1, <1>2, <2>1 DEF Record, Remembered
    <3> QED
      BY <1>2, <3>1, Forgetting
  <2>2. CASE ~(Len(all) > Cap)
    <3>1. seen' = all /\ Len(seen) + 1 <= Cap
      BY <1>1, <1>2, <2>2 DEF Record
    <3> QED
      BY <3>1
  <2> QED
    BY <2>1, <2>2
<1>6. m \in Ids(seen')
  <2>1. CASE Len(seen) = Cap
    <3>1. /\ seen' = Tail(all) /\ DOMAIN seen' = 1..Len(seen)
          /\ \A x \in 1..Len(seen) : seen'[x] = all[x + 1]
      BY <1>1, <1>2, <2>1 DEF Record
    <3>2. Len(seen) \in DOMAIN seen' /\ seen'[Len(seen)] = m
      BY <1>1, <1>2, <2>1, <3>1
    <3> QED
      BY <3>2 DEF Ids, ToSet
  <2> QED
    BY <1>2, <1>5, <2>1
<1>7. ASSUME NEW i \in 1..n
      PROVE  \/ recorded[i] \in Ids(seen') \cup unfiled
             \/ Cardinality(Between(recorded', i, n + 2)) >= Cap
  <2> DEFINE T == Between(recorded', i, n + 2)
  <2>0. IsFiniteSet(T)
    BY <1>3, BetweenFinite
  <2>1. CASE Cardinality(Between(recorded, i, n + 1)) >= Cap
    <3>1. Between(recorded, i, n + 1) \subseteq T
      BY <1>3 DEF Between
    <3> QED
      BY <2>0, <2>1, <3>1, Grows
  <2>2. CASE recorded[i] \in Ids(seen) /\ recorded[i] \notin Ids(seen') \cup unfiled
    <3>1. Len(seen) = Cap /\ recorded[i] = all[1]
      BY <1>2, <1>5, <2>2
    <3>2. ASSUME NEW y \in 2..(Cap + 1)
          PROVE  all[y] \in T
      <4>0. 1 \in DOMAIN all /\ y \in DOMAIN all /\ 1 < y
        BY <1>2, <3>1, <3>2
      <4>1. Before(recorded', all[1], all[y])
        BY <1>4, <2>2, <3>1, <4>0 DEF InOrder
      <4>2. PICK j \in DOMAIN recorded' : i < j /\ recorded'[j] = all[y]
        BY <1>3, <3>1, <4>1, i \in DOMAIN recorded' DEF Before
      <4>3. j \in (i + 1)..(n + 2 - 1)
        BY <1>3, <4>2
      <4>4. recorded'[j] \in T
        BY <4>3 DEF Between
      <4> QED
        BY <4>2, <4>4
    <3>3. Cardinality(T) >= Cap
      BY <1>2, <1>4, <2>0, <3>1, <3>2, AllButTheFirst
    <3> QED
      BY <3>3
  <2>3. recorded[i] \in Ids(seen) \cup unfiled \/ Cardinality(Between(recorded, i, n + 1)) >= Cap
    BY <1>3 DEF Remembered
  <2> QED
    BY <2>1, <2>2, <2>3
<1>8. ASSUME NEW i \in DOMAIN recorded'
      PROVE  \/ recorded'[i] \in Ids(seen') \cup unfiled'
             \/ Cardinality(Between(recorded', i, Len(recorded') + 1)) >= Cap
  <2>1. CASE i = n + 1
    BY <1>3, <1>6, <2>1
  <2>2. CASE i \in 1..n
    <3>1. Len(recorded') + 1 = n + 2
      BY <1>3
    <3> QED
      BY <1>3, <1>7, <2>2, <3>1
  <2> QED
    BY <1>3, <2>1, <2>2
<1>9. ASSUME NEW i \in DOMAIN recorded', NEW j \in DOMAIN recorded',
             i < j, recorded'[i] = recorded'[j]
      PROVE  \/ recorded'[i] \in unfiled'
             \/ Cardinality(Between(recorded', i, j)) >= Cap
  <2>1. i \in 1..n /\ recorded'[i] = recorded[i]
    BY <1>3, <1>9
  <2>2. Between(recorded', i, j) = Between(recorded, i, j)
    <3>1. \A x \in (i + 1)..(j - 1) : recorded'[x] = recorded[x]
      BY <1>3
    <3> QED
      BY <3>1 DEF Between
  <2>3. CASE j = n + 1
    BY <1>3, <1>9, <2>1, <2>2, <2>3 DEF Remembered
  <2>4. CASE j \in 1..n
    <3>1. recorded[i] \in unfiled \/ Cardinality(Between(recorded, i, j)) >= Cap
      BY <1>3, <1>9, <2>1, <2>4 DEF Remembered, TwiceOnlyWhenForgotten, Between
    <3> QED
      BY <2>1, <2>2, <3>1
  <2> QED
    BY <1>3, <2>3, <2>4
<1>10. TwiceOnlyWhenForgotten'
  BY <1>9 DEF TwiceOnlyWhenForgotten, Between
<1> QED
  BY <1>8, <1>10

LEMMA RememberedStep == HookTypes /\ Remembered /\ [Next]_vars => Remembered'
<1> SUFFICES ASSUME HookTypes, Remembered, [Next]_vars
             PROVE  Remembered'
  OBVIOUS
<1>1. ASSUME NEW k \in Deliveries, Accept(k)
      PROVE  Remembered'
  <2>1. /\ Arrival(k) \in Messages /\ Arrival(k) \notin Ids(seen) /\ Record(Arrival(k))
        /\ recorded' = Append(recorded, Arrival(k)) /\ UNCHANGED unfiled
    BY <1>1 DEF Accept, Arrival, HookTypes
  <2>2. /\ IsInjective(seen') /\ IsInjective(file') /\ Len(seen') <= Cap /\ Len(file') <= Cap
        /\ Len(seen') < Cap => Len(file') <= Len(seen') /\ Ids(file') \subseteq Ids(seen')
        /\ Ids(seen') \subseteq Ids(file') \cup missed'
        /\ InOrder(recorded', seen', unfiled') /\ InOrder(recorded', file', unfiled' \cup missed')
    BY <2>1, AcceptedLists
  <2>3. /\ \A i \in DOMAIN recorded' :
              \/ recorded'[i] \in Ids(seen') \cup unfiled'
              \/ Cardinality(Between(recorded', i, Len(recorded') + 1)) >= Cap
        /\ TwiceOnlyWhenForgotten'
    BY <2>1, AcceptedCounts
  <2> QED
    BY <2>2, <2>3 DEF Remembered, IsInjective, InOrder, Ids, Before, Between
<1>2. CASE Restart
  <2>1. /\ seen' = file /\ unfiled' = unfiled \cup missed /\ missed' = {}
        /\ UNCHANGED <<file, recorded>>
    BY <1>2 DEF Restart
  <2>2. TwiceOnlyWhenForgotten'
    BY <2>1 DEF Remembered, TwiceOnlyWhenForgotten
  <2>3. /\ Len(seen') <= Cap /\ Len(file') <= Cap
        /\ Len(seen') < Cap => Len(file') <= Len(seen') /\ Ids(file') \subseteq Ids(seen')
        /\ Ids(seen') \subseteq Ids(file') \cup missed'
        /\ IsInjective(seen') /\ IsInjective(file')
    BY <2>1 DEF Remembered, HookTypes
  <2>4. /\ InOrder(recorded', seen', unfiled') /\ InOrder(recorded', file', unfiled' \cup missed')
        /\ \A i \in DOMAIN recorded' :
              \/ recorded'[i] \in Ids(seen') \cup unfiled'
              \/ Cardinality(Between(recorded', i, Len(recorded') + 1)) >= Cap
    BY <2>1 DEF Remembered
  <2> QED
    BY <2>2, <2>3, <2>4 DEF Remembered, IsInjective, InOrder, Ids, Before, Between
<1>3. CASE UNCHANGED <<seen, file, recorded, missed, unfiled>>
  BY <1>3 DEF Remembered, IsInjective, InOrder, Ids, Before, Between, TwiceOnlyWhenForgotten
<1> QED
  BY <1>1, <1>2, <1>3
     DEF Next, Delivery, Deliver, Skip, Land, Refuse, Acknowledge, HandingOver, Window, Drain,
         vars, hookVars, history

LEMMA HookInitially == Init => HookTypes /\ Accounted
<1> SUFFICES ASSUME Init PROVE HookTypes /\ Accounted
  OBVIOUS
<1>1. HookTypes
  BY DEF Init, HookTypes, Steps
<1>2. Ids(<<>>) = {}
  BY DEF Ids, ToSet
<1> QED
  BY <1>1, <1>2 DEF Init, Accounted, Behind

\* A message the platform was told is taken care of is in a queue, or some
\* delivery stands at it.
THEOREM AckedIsAccounted == Spec => []AckedOrCutShort
<1>1. HookTypes /\ Accounted /\ [Next]_vars => (HookTypes /\ Accounted)'
  BY HookTypesStep, AccountedStep
<1>2. Accounted => AckedOrCutShort
  BY DEF Accounted, Answered, Standing, AckedOrCutShort
<1> QED
  BY <1>1, <1>2, HookInitially, PTL DEF Spec

\* A message is let through twice only when Cap newer ones came between, or a
\* restart read a file without its last acceptance.
THEOREM TwiceOnlyIfForgotten == Spec => []TwiceOnlyWhenForgotten
<1>1. Init => Remembered
  <2> SUFFICES ASSUME Init PROVE Remembered
    OBVIOUS
  <2>1. seen = <<>> /\ file = <<>> /\ recorded = <<>> /\ Ids(<<>>) = {} /\ Cap \in Nat
    BY WebhookAssumption DEF Init, Ids, ToSet
  <2> QED
    BY <2>1 DEF Remembered, IsInjective, InOrder, TwiceOnlyWhenForgotten
<1>2. (HookTypes /\ Remembered) /\ [Next]_vars => (HookTypes /\ Remembered)'
  BY HookTypesStep, RememberedStep
<1>3. Remembered => TwiceOnlyWhenForgotten
  BY DEF Remembered
<1> QED
  BY <1>1, <1>2, <1>3, HookInitially, PTL DEF Spec
=============================================================================
