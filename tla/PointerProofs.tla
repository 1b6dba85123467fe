---------------------------- MODULE PointerProofs -----------------------------
(***************************************************************************)
(* Proofs about PointerAgent, for every value of its constants.            *)
(***************************************************************************)
EXTENDS PointerAgent, FiniteSetTheorems, TLAPS

Open == {c \in Conns : at[c] # "closed"}

\* TypeOK without the count of connections, which is proved by itself.
Typed == /\ down \subseteq Keys /\ refuses \subseteq Keys
         /\ touched \in BOOLEAN /\ clock \in 0 .. MaxTime
         /\ at \in [Conns -> Places]
         /\ steps \in [Conns -> Seq(Step)]
         /\ began \in [Conns -> 0 .. MaxTime]
         /\ held \in [Conns -> SUBSET Keys]
         /\ until \in Nat /\ stuck \subseteq Keys
         /\ tokens \in 0 .. Burst /\ last \in 0 .. MaxTime
         /\ admitted \in Nat /\ back \in Nat
         /\ live \in Int

Counted == live = Cardinality(Open) /\ live <= MaxConns
ClosedHolds == \A c \in Conns : at[c] = "closed" => held[c] = {}

\* Nothing that is counted lies in the future; what the bucket has given out and
\* what is left in it are the burst and what time has put in.
Budget == /\ last <= clock
          /\ \A c \in Conns : began[c] <= clock
          /\ admitted + tokens <= Burst + Rate * (last + back)

Inv == Typed /\ Counted /\ ClosedHolds /\ NothingLeftDown /\ Budget

-----------------------------------------------------------------------------
(* Lemmas.                                                                 *)

LEMMA StepKinds ==
  ASSUME NEW s \in Step
  PROVE  /\ s.op \in {"down", "up", "other"}
         /\ s.op # "other" => s.key \in Keys
         /\ s.op = "up" => s = [op |-> "up", key |-> s.key]
BY DEF Step

LEMMA Batch ==
  ASSUME NEW q \in Seq(Step), q # <<>>
  PROVE  Head(q) \in Step /\ Tail(q) \in Seq(Step)
OBVIOUS

LEMMA Releases ==
  ASSUME Typed, NothingLeftDown, NEW c \in Conns, Release(c)
  PROVE  /\ down' \subseteq Keys /\ stuck' \subseteq Keys
         /\ held' \in [Conns -> SUBSET Keys]
         /\ held'[c] = {}
         /\ \A d \in Conns : d # c => held'[d] = held[d]
         /\ NothingLeftDown'
<1>1. /\ down' = down \ (held[c] \ refuses)
      /\ stuck' = stuck \cup (held[c] \cap refuses)
      /\ held' = [held EXCEPT ![c] = {}]
  BY DEF Release
<1>2. /\ down' \subseteq Keys /\ stuck' \subseteq Keys
      /\ held' \in [Conns -> SUBSET Keys]
      /\ held'[c] = {}
      /\ \A d \in Conns : d # c => held'[d] = held[d]
  BY <1>1 DEF Typed
<1>3. NothingLeftDown'
  <2> SUFFICES ASSUME NEW k \in down', k \notin stuck'
               PROVE  \E d \in Conns : k \in held'[d]
    BY DEF NothingLeftDown
  <2>1. k \in down /\ k \notin stuck /\ k \notin held[c]
    BY <1>1
  <2>2. PICK d \in Conns : k \in held[d]
    BY <2>1 DEF NothingLeftDown
  <2> QED
    BY <1>2, <2>1, <2>2
<1> QED
  BY <1>2, <1>3

\* A connection that moves from place to place stays counted.
LEMMA Moves ==
  ASSUME Typed, Counted, NEW c \in Conns, NEW where \in Places, where # "closed",
         at[c] # "closed", Goes(c, where), live' = live
  PROVE  at' \in [Conns -> Places] /\ Counted' /\ (\A d \in Conns : d # c => at'[d] = at[d])
         /\ at'[c] = where
<1>1. at' = [at EXCEPT ![c] = where]
  BY DEF Goes
<1>2. \A d \in Conns : at'[d] # "closed" <=> at[d] # "closed"
  BY <1>1 DEF Typed
<1>3. Open' = Open
  BY <1>2 DEF Open
<1> QED
  BY <1>1, <1>3 DEF Typed, Counted

LEMMA OpenFinite == IsFiniteSet(Open)
BY ConnsAssumption, FS_Subset DEF Open

LEMMA ConnectCounts ==
  ASSUME Typed, Counted, NEW c \in Conns, Connect(c)
  PROVE  at' \in [Conns -> Places] /\ Counted' /\ live' \in Int
         /\ (\A d \in Conns : d # c => at'[d] = at[d]) /\ at'[c] = "new"
<1>1. at[c] = "closed" /\ live < MaxConns /\ at' = [at EXCEPT ![c] = "new"] /\ live' = live + 1
  BY DEF Connect, Goes
<1>2. at' \in [Conns -> Places] /\ (\A d \in Conns : d # c => at'[d] = at[d]) /\ at'[c] = "new"
  BY <1>1 DEF Typed, Places
<1>3. Open' = Open \cup {c} /\ c \notin Open
  BY <1>1, <1>2 DEF Open
<1>4. Cardinality(Open') = Cardinality(Open) + 1
  BY <1>3, OpenFinite, FS_AddElement
<1> QED
  BY <1>1, <1>2, <1>4, LimitsAssumption DEF Counted, Typed

LEMMA DisconnectCounts ==
  ASSUME Typed, Counted, NEW c \in Conns, Disconnect(c)
  PROVE  at' \in [Conns -> Places] /\ Counted' /\ live' \in Int
         /\ (\A d \in Conns : d # c => at'[d] = at[d]) /\ at'[c] = "closed"
<1>1. at[c] # "closed" /\ at' = [at EXCEPT ![c] = "closed"] /\ live' = live - 1
  BY DEF Disconnect, Goes
<1>2. at' \in [Conns -> Places] /\ (\A d \in Conns : d # c => at'[d] = at[d]) /\ at'[c] = "closed"
  BY <1>1 DEF Typed, Places
<1>3. Open' = Open \ {c} /\ c \in Open
  BY <1>1, <1>2 DEF Open
<1>4. Cardinality(Open') = Cardinality(Open) - 1
  BY <1>3, OpenFinite, FS_RemoveElement
<1> QED
  BY <1>1, <1>2, <1>4, LimitsAssumption DEF Counted, Typed

\* The bucket never gives out more than the burst and the time it has been through.
LEMMA TakeBudget ==
  ASSUME Typed, Budget, NEW c \in Conns, Take(c)
  PROVE  /\ tokens' \in 0 .. Burst /\ last' \in 0 .. MaxTime
         /\ admitted' \in Nat /\ back' \in Nat
         /\ Budget'
<1> DEFINE t == began[c]
           r == Refilled(t)
<1>1. /\ last' = t /\ back' = back + Past(last, t)
      /\ \/ r >= 1 /\ tokens' = r - 1 /\ admitted' = admitted + 1
         \/ ~(r >= 1) /\ tokens' = r /\ admitted' = admitted
      /\ UNCHANGED <<clock, began>>
  BY DEF Take, machine
<1>2. /\ t \in Nat /\ last \in Nat /\ tokens \in Nat /\ back \in Nat /\ admitted \in Nat
      /\ Burst \in Nat /\ Rate \in Nat /\ clock \in Nat /\ t <= clock /\ t \in 0 .. MaxTime
      /\ tokens <= Burst
  BY LimitsAssumption, MaxTimeAssumption DEF Typed, Budget
<1>3. Past(t, last) \in Nat /\ Past(last, t) \in Nat
  BY <1>2 DEF Past
<1>4. Past(t, last) * Rate \in Nat
  BY <1>2, <1>3
<1>5. r \in 0 .. Burst /\ r <= tokens + Past(t, last) * Rate
  <2> DEFINE x == Past(t, last) * Rate
  <2> HIDE DEF x
  <2>1. x \in Nat
    BY <1>4 DEF x
  <2>2. r = Lesser(tokens + x, Burst)
    BY DEF Refilled, x
  <2>3. r \in 0 .. Burst /\ r <= tokens + x
    BY <1>2, <2>1, <2>2 DEF Lesser
  <2> QED
    BY <2>3 DEF x
<1>6. last + back + Past(t, last) = t + back + Past(last, t)
  BY <1>2 DEF Past
<1>7. Rate * (last + back) + Past(t, last) * Rate = Rate * (t + back + Past(last, t))
  BY <1>2, <1>3, <1>6
<1>8. admitted' + tokens' <= admitted + r
  BY <1>1, <1>2, <1>5
<1>9. admitted' + tokens' <= Burst + Rate * (last' + back')
  <2> DEFINE x == Past(t, last) * Rate
             y == Rate * (last + back)
             z == Rate * (t + back + Past(last, t))
  <2>1. last' + back' = t + back + Past(last, t)
    BY <1>1, <1>2, <1>3
  <2>2. Rate * (last' + back') = z
    BY <2>1
  <2>3. y + x = z /\ admitted + tokens <= Burst + y /\ r <= tokens + x
    BY <1>5, <1>7 DEF Budget
  <2>4. x \in Nat /\ y \in Int /\ z \in Int
    BY <1>2, <1>3, <1>4
  <2>5. tokens' \in Int /\ admitted' \in Int /\ r \in Int
    BY <1>1, <1>2, <1>5
  <2> HIDE DEF x, y, z, r
  <2>6. admitted' + tokens' <= Burst + z
    <3>1. tokens \in Int /\ admitted \in Int /\ Burst \in Int /\ x \in Int
      BY <1>2, <2>4
    <3>2. admitted' + tokens' <= admitted + r
      BY <1>8
    <3>3. y + x = z
      BY <2>3
    <3>4. admitted + tokens <= Burst + y
      BY <2>3
    <3>5. r <= tokens + x
      BY <2>3
    <3>6. /\ admitted' \in Int /\ tokens' \in Int /\ r \in Int /\ x \in Int /\ y \in Int
          /\ z \in Int
      BY <2>4, <2>5
    <3>7. admitted + r <= Burst + z
      BY <3>1, <3>3, <3>4, <3>5, <3>6
    <3>8. admitted' + tokens' \in Int /\ admitted + r \in Int /\ Burst + z \in Int
      BY <3>1, <3>6
    <3> QED
      BY <3>2, <3>7, <3>8
  <2> QED
    BY <2>2, <2>6
<1>10. tokens' \in 0 .. Burst /\ admitted' \in Nat /\ back' \in Nat /\ last' \in 0 .. MaxTime
  <2> HIDE DEF r
  <2> QED
    BY <1>1, <1>2, <1>3, <1>5
<1> QED
  BY <1>1, <1>2, <1>9, <1>10 DEF Budget
-----------------------------------------------------------------------------
(* The invariant.                                                          *)

LEMMA InitInv ==
  ASSUME Init
  PROVE  Inv
<1>1. Open = {}
  BY DEF Init, Open
<1>2. Counted
  BY <1>1, FS_EmptySet, LimitsAssumption DEF Init, Counted
<1>3. Typed
  <2>1. steps \in [Conns -> Seq(Step)]
    <3> DEFINE e == <<>>
    <3>1. e \in Seq(Step) /\ steps = [c \in Conns |-> e]
      BY DEF Init
    <3> HIDE DEF e
    <3> QED
      BY <3>1
  <2>2. /\ at \in [Conns -> Places] /\ began \in [Conns -> 0 .. MaxTime]
        /\ held \in [Conns -> SUBSET Keys]
    BY MaxTimeAssumption DEF Init, Places
  <2>3. down \subseteq Keys /\ refuses \subseteq Keys /\ touched \in BOOLEAN /\ stuck \subseteq Keys
    BY DEF Init
  <2>4. clock = 0 /\ until = 0 /\ tokens = Burst /\ last = 0 /\ admitted = 0 /\ back = 0 /\ live = 0
    BY DEF Init
  <2>5. /\ clock \in 0 .. MaxTime /\ until \in Nat
        /\ tokens \in 0 .. Burst /\ last \in 0 .. MaxTime
        /\ admitted \in Nat /\ back \in Nat /\ live \in Int
    BY <2>4, LimitsAssumption, MaxTimeAssumption
  <2> QED
    BY <2>1, <2>2, <2>3, <2>5 DEF Typed
<1>4. Budget
  <2>1. Rate * (0 + 0) = 0
    BY LimitsAssumption
  <2> QED
    BY <2>1, LimitsAssumption DEF Init, Budget
<1> QED
  BY <1>2, <1>3, <1>4 DEF Init, Inv, ClosedHolds, NothingLeftDown

\* The machine's own steps, and those of performs that touch one connection.
LEMMA MachineInv ==
  ASSUME Inv, Tick \/ Touch \/ Elevation
  PROVE  Inv'
<1>1. /\ UNCHANGED <<down, conns, live, until, stuck, bucket>>
      /\ refuses' \subseteq Keys /\ touched' \in BOOLEAN
      /\ clock' = clock \/ (clock < MaxTime /\ clock' = clock + 1)
  BY DEF Tick, Touch, Elevation, Inv, Typed
<1>2. clock \in Nat /\ clock' \in 0 .. MaxTime /\ clock <= clock'
  BY <1>1, MaxTimeAssumption DEF Inv, Typed
<1>3. Typed' /\ ClosedHolds' /\ NothingLeftDown'
  BY <1>1, <1>2 DEF Inv, Typed, ClosedHolds, NothingLeftDown, conns, bucket
<1>4. Counted'
  BY <1>1 DEF Inv, Counted, Open, conns
<1>5. Budget'
  <2>1. /\ last' = last /\ began' = began
        /\ admitted' + tokens' <= Burst + Rate * (last' + back')
    BY <1>1 DEF Inv, Budget, bucket, conns
  <2>2. last \in Int /\ \A c \in Conns : began[c] \in Int
    BY DEF Inv, Typed
  <2>3. last <= clock' /\ \A c \in Conns : began[c] <= clock'
    BY <1>2, <2>2 DEF Inv, Budget
  <2> QED
    BY <2>1, <2>3 DEF Budget
<1> QED
  BY <1>3, <1>4, <1>5 DEF Inv

\* What every step of a connection that does not touch the bucket leaves of the budget.
LEMMA BudgetKept ==
  ASSUME Typed, Budget, UNCHANGED bucket, clock' = clock,
         \A d \in Conns : began'[d] = began[d] \/ began'[d] = clock
  PROVE  Budget'
<1>1. UNCHANGED <<tokens, last, admitted, back>> /\ clock \in Int
  BY DEF bucket, Typed
<1> QED
  BY <1>1 DEF Budget

LEMMA ConnectInv ==
  ASSUME Inv, NEW c \in Conns, Connect(c)
  PROVE  Inv'
<1>1. UNCHANGED <<machine, steps, began, held, until, stuck, bucket>> /\ at[c] = "closed"
  BY DEF Connect
<1>2. /\ at' \in [Conns -> Places] /\ Counted' /\ live' \in Int
      /\ (\A d \in Conns : d # c => at'[d] = at[d]) /\ at'[c] = "new"
  BY ConnectCounts DEF Inv
<1>3. Budget'
  BY <1>1, BudgetKept DEF Inv, machine
<1> QED
  BY <1>1, <1>2, <1>3 DEF Inv, Typed, ClosedHolds, NothingLeftDown, machine, bucket

LEMMA DisconnectInv ==
  ASSUME Inv, NEW c \in Conns, Disconnect(c)
  PROVE  Inv'
<1>1. Release(c) /\ UNCHANGED <<refuses, touched, clock, steps, began, until, bucket>>
  BY DEF Disconnect
<1>2. /\ at' \in [Conns -> Places] /\ Counted' /\ live' \in Int
      /\ (\A d \in Conns : d # c => at'[d] = at[d]) /\ at'[c] = "closed"
  BY DisconnectCounts DEF Inv
<1>3. /\ down' \subseteq Keys /\ stuck' \subseteq Keys
      /\ held' \in [Conns -> SUBSET Keys] /\ held'[c] = {}
      /\ \A d \in Conns : d # c => held'[d] = held[d]
      /\ NothingLeftDown'
  BY <1>1, Releases DEF Inv
<1>4. Budget'
  BY <1>1, BudgetKept DEF Inv
<1>5. ClosedHolds'
  BY <1>2, <1>3 DEF Inv, ClosedHolds
<1> QED
  BY <1>1, <1>2, <1>3, <1>4, <1>5 DEF Inv, Typed, bucket

\* A connection that is in a place where it is open goes to another.
LEMMA StaysOpen ==
  ASSUME Inv, NEW c \in Conns, NEW where \in Places, where # "closed", at[c] # "closed",
         Goes(c, where), live' = live, \A d \in Conns : d # c => held'[d] = held[d]
  PROVE  at' \in [Conns -> Places] /\ Counted' /\ ClosedHolds' /\ live' \in Int
<1>1. at' \in [Conns -> Places] /\ Counted' /\ (\A d \in Conns : d # c => at'[d] = at[d])
      /\ at'[c] = where
  BY Moves DEF Inv
<1> QED
  BY <1>1 DEF Inv, Typed, ClosedHolds

LEMMA QuietInv ==
  ASSUME Inv, NEW c \in Conns,
         Hello(c) \/ Ask(c) \/ Activity(c) \/ Check(c) \/ Performed(c)
  PROVE  Inv'
<1>1. /\ UNCHANGED <<down, refuses, clock, held, live, until, stuck, bucket>>
      /\ touched' \in BOOLEAN
  BY DEF Hello, Ask, Activity, Check, Performed, machine, Inv, Typed
<1>2. PICK where \in Places : where # "closed" /\ Goes(c, where)
  BY DEF Hello, Ask, Activity, Check, Performed, Answer, Places
<1>3. at[c] # "closed"
  BY DEF Hello, Ask, Activity, Check, Performed
<1>4. steps' \in [Conns -> Seq(Step)]
  <2>1. steps' = steps \/ \E q \in Seq(Step) : steps' = [steps EXCEPT ![c] = q]
    <3>1. <<>> \in Seq(Step)
      OBVIOUS
    <3> QED
      BY <3>1, BatchesAssumption DEF Hello, Ask, Activity, Check, Performed, Answer
  <2> QED
    BY <2>1 DEF Inv, Typed
<1>5. began' = began \/ began' = [began EXCEPT ![c] = clock]
  BY DEF Hello, Ask, Activity, Check, Performed
<1>6. began' \in [Conns -> 0 .. MaxTime] /\ \A d \in Conns : began'[d] = began[d] \/ began'[d] = clock
  BY <1>5 DEF Inv, Typed
<1>7. Budget'
  BY <1>1, <1>6, BudgetKept DEF Inv
<1>8. at' \in [Conns -> Places] /\ Counted' /\ ClosedHolds' /\ live' \in Int
  BY <1>1, <1>2, <1>3, StaysOpen
<1>9. NothingLeftDown'
  BY <1>1 DEF Inv, NothingLeftDown
<1> QED
  BY <1>1, <1>4, <1>6, <1>7, <1>8, <1>9 DEF Inv, Typed, bucket

LEMMA LetsGoInv ==
  ASSUME Inv, NEW c \in Conns, Suspend(c) \/ Fail(c)
  PROVE  Inv'
<1>1. /\ Release(c) /\ UNCHANGED <<refuses, touched, clock, began, live, bucket>>
      /\ until' = until \/ until' = began[c] + Window
  BY DEF Suspend, Fail
<1>2. PICK where \in Places : where # "closed" /\ Goes(c, where)
  BY DEF Suspend, Fail, Answer, Places
<1>3. at[c] # "closed"
  BY DEF Suspend, Fail
<1>4. steps' = steps \/ steps' = [steps EXCEPT ![c] = <<>>]
  BY DEF Suspend, Fail, Answer
<1>5. steps' \in [Conns -> Seq(Step)] /\ until' \in Nat
  <2>1. <<>> \in Seq(Step)
    OBVIOUS
  <2>2. steps' \in [Conns -> Seq(Step)]
    BY <1>4, <2>1 DEF Inv, Typed
  <2>3. until' \in Nat
    BY <1>1, LimitsAssumption, MaxTimeAssumption DEF Inv, Typed
  <2> QED
    BY <2>2, <2>3
<1>6. /\ down' \subseteq Keys /\ stuck' \subseteq Keys
      /\ held' \in [Conns -> SUBSET Keys] /\ held'[c] = {}
      /\ \A d \in Conns : d # c => held'[d] = held[d]
      /\ NothingLeftDown'
  BY <1>1, Releases DEF Inv
<1>7. Budget'
  BY <1>1, BudgetKept DEF Inv
<1>8. at' \in [Conns -> Places] /\ Counted' /\ ClosedHolds' /\ live' \in Int
  BY <1>1, <1>2, <1>3, <1>6, StaysOpen
<1> QED
  BY <1>1, <1>5, <1>6, <1>7, <1>8 DEF Inv, Typed, bucket

LEMMA TakeInv ==
  ASSUME Inv, NEW c \in Conns, Take(c)
  PROVE  Inv'
<1>1. UNCHANGED <<machine, began, held, live, until, stuck>> /\ at[c] = "take"
  BY DEF Take
<1>2. PICK where \in Places : where # "closed" /\ Goes(c, where)
  BY DEF Take, Answer, Places
<1>3. steps' = steps \/ steps' = [steps EXCEPT ![c] = <<>>]
  BY DEF Take, Answer
<1>4. steps' \in [Conns -> Seq(Step)]
  <2>1. <<>> \in Seq(Step)
    OBVIOUS
  <2> QED
    BY <1>3, <2>1 DEF Inv, Typed
<1>5. /\ tokens' \in 0 .. Burst /\ last' \in 0 .. MaxTime
      /\ admitted' \in Nat /\ back' \in Nat /\ Budget'
  BY TakeBudget DEF Inv
<1>6. at' \in [Conns -> Places] /\ Counted' /\ ClosedHolds' /\ live' \in Int
  BY <1>1, <1>2, StaysOpen
<1> QED
  BY <1>1, <1>4, <1>5, <1>6 DEF Inv, Typed, NothingLeftDown, machine

LEMMA RetryInv ==
  ASSUME Inv, NEW c \in Conns, Retry(c)
  PROVE  Inv'
<1>1. /\ down' = down \ (stuck \ refuses) /\ stuck' = stuck \cap refuses
      /\ UNCHANGED <<refuses, touched, clock, steps, began, held, live, until, bucket>>
      /\ at[c] = "retry" /\ Goes(c, "steps")
  BY DEF Retry
<1>2. at' \in [Conns -> Places] /\ Counted' /\ ClosedHolds' /\ live' \in Int
  BY <1>1, StaysOpen DEF Places
<1>3. Budget'
  BY <1>1, BudgetKept DEF Inv
<1>4. NothingLeftDown'
  BY <1>1 DEF Inv, NothingLeftDown
<1> QED
  BY <1>1, <1>2, <1>3, <1>4 DEF Inv, Typed, bucket

LEMMA ApplyInv ==
  ASSUME Inv, NEW c \in Conns, Apply(c)
  PROVE  Inv'
<1> DEFINE s == Head(steps[c])
<1>1. /\ at[c] = "steps" /\ Effect(c, s)
      /\ steps' = [steps EXCEPT ![c] = Tail(@)] /\ steps[c] # <<>>
      /\ UNCHANGED <<refuses, touched, clock, at, began, live, until, stuck, bucket>>
  BY DEF Apply
<1>2. s \in Step /\ Tail(steps[c]) \in Seq(Step)
  BY <1>1, Batch DEF Inv, Typed
<1>3. s.op \in {"down", "up", "other"} /\ (s.op # "other" => s.key \in Keys)
  BY <1>2, StepKinds
<1>4. steps' \in [Conns -> Seq(Step)]
  BY <1>1, <1>2 DEF Inv, Typed
<1> HIDE DEF s
<1>5. /\ down' \subseteq Keys /\ held' \in [Conns -> SUBSET Keys]
      /\ \A d \in Conns : d # c => held'[d] = held[d]
      /\ NothingLeftDown'
  <2>1. CASE s.op = "down"
    <3>1. down' = down \cup {s.key} /\ held' = [held EXCEPT ![c] = held[c] \cup {s.key}]
      BY <1>1, <2>1 DEF Effect
    <3>2. held' \in [Conns -> SUBSET Keys] /\ held'[c] = held[c] \cup {s.key}
          /\ \A d \in Conns : d # c => held'[d] = held[d]
      BY <1>3, <2>1, <3>1 DEF Inv, Typed
    <3>3. NothingLeftDown'
      BY <1>1, <3>1, <3>2 DEF Inv, NothingLeftDown
    <3> QED
      BY <1>3, <2>1, <3>1, <3>2, <3>3 DEF Inv, Typed
  <2>2. CASE s.op = "up"
    <3>1. down' = down \ {s.key} /\ held' = [held EXCEPT ![c] = held[c] \ {s.key}]
      BY <1>1, <2>2 DEF Effect
    <3>2. held' \in [Conns -> SUBSET Keys] /\ held'[c] = held[c] \ {s.key}
          /\ \A d \in Conns : d # c => held'[d] = held[d]
      BY <3>1 DEF Inv, Typed
    <3>3. NothingLeftDown'
      BY <1>1, <3>1, <3>2 DEF Inv, NothingLeftDown
    <3> QED
      BY <3>1, <3>2, <3>3 DEF Inv, Typed
  <2>3. CASE s.op = "other"
    <3>1. UNCHANGED <<down, held>>
      BY <1>1, <2>3 DEF Effect
    <3> QED
      BY <1>1, <3>1 DEF Inv, Typed, NothingLeftDown
  <2> QED
    BY <1>3, <2>1, <2>2, <2>3
<1>6. Budget'
  BY <1>1, BudgetKept DEF Inv
<1>7. ClosedHolds' /\ Counted'
  BY <1>1, <1>5 DEF Inv, ClosedHolds, Counted, Open
<1> QED
  BY <1>1, <1>4, <1>5, <1>6, <1>7 DEF Inv, Typed, bucket

LEMMA NextInv ==
  ASSUME Inv, [Next]_vars
  PROVE  Inv'
<1>1. CASE UNCHANGED vars
  BY <1>1 DEF vars, machine, conns, bucket, Inv, Typed, Counted, Open, ClosedHolds,
              NothingLeftDown, Budget
<1> QED
  BY <1>1, MachineInv, ConnectInv, DisconnectInv, QuietInv, LetsGoInv, TakeInv, RetryInv, ApplyInv
     DEF Next, Perform

LEMMA InvHolds == Spec => []Inv
<1>1. Init => Inv
  BY InitInv
<1>2. Inv /\ [Next]_vars => Inv'
  BY NextInv
<1> QED
  BY <1>1, <1>2, PTL DEF Spec

-----------------------------------------------------------------------------
(* The theorems.                                                           *)

(* The state has its types and the connections are counted right: as many  *)
(* as there are, and never more than the cap.                              *)
THEOREM TypesHold == Spec => []TypeOK
<1>1. Inv => TypeOK
  BY DEF Inv, Typed, Counted, Open, ClosedHolds, TypeOK
<1> QED
  BY <1>1, InvHolds, PTL

(* Whatever the agent pressed and is still down, a connection that is      *)
(* still there holds or the agent means to release.                        *)
THEOREM NothingForgotten == Spec => []NothingLeftDown
<1>1. Inv => NothingLeftDown
  BY DEF Inv
<1> QED
  BY <1>1, InvHolds, PTL

(* However performs are spread over connections, no more go through than   *)
(* the burst and the rate allow, but for the time that is counted twice.   *)
THEOREM RateKept == Spec => []RateHeld
<1>1. Inv => RateHeld
  <2> SUFFICES ASSUME Inv
               PROVE  admitted <= Burst + Rate * (clock + back)
    BY DEF RateHeld
  <2>1. /\ last \in Nat /\ clock \in Nat /\ back \in Nat /\ last <= clock
        /\ Rate \in Nat /\ Burst \in Nat /\ tokens \in Nat /\ admitted \in Nat
    BY LimitsAssumption, MaxTimeAssumption DEF Inv, Typed, Budget
  <2>2. Rate * (clock + back) = Rate * (last + back) + Rate * (clock - last)
    BY <2>1
  <2>3. clock - last \in Nat /\ Rate * (clock - last) \in Nat
    BY <2>1
  <2> DEFINE x == Rate * (last + back)
             y == Rate * (clock - last)
             z == Rate * (clock + back)
  <2>4. z = x + y /\ y \in Nat /\ x \in Int /\ admitted + tokens <= Burst + x
    BY <2>1, <2>2, <2>3 DEF Inv, Budget
  <2> HIDE DEF x, y, z
  <2>5. admitted <= Burst + z
    BY <2>1, <2>4
  <2> QED
    BY <2>5 DEF z
<1> QED
  BY <1>1, InvHolds, PTL

(* What is held is let go of by another connection only if that one holds  *)
(* it too, was asked to release it, retries it as stuck, or has noticed    *)
(* the person at the machine.                                              *)
THEOREM HoldsKept == Spec => HeldStaysDown
<1>1. Inv /\ [Next]_vars =>
        [\A c \in Conns : \A k \in held[c] \cap held'[c] : k \in down /\ k \notin down' =>
           \E d \in Conns : \/ Release(d) /\ k \in held[d]
                            \/ Apply(d) /\ Releasing(d, k)
                            \/ Retry(d) /\ k \in stuck
                            \/ Suspend(d)]_vars
  <2> SUFFICES ASSUME Inv, [Next]_vars, NEW c \in Conns, NEW k \in held[c] \cap held'[c],
                      k \in down, k \notin down'
               PROVE  \E d \in Conns : \/ Release(d) /\ k \in held[d]
                                       \/ Apply(d) /\ Releasing(d, k)
                                       \/ Retry(d) /\ k \in stuck
                                       \/ Suspend(d)
    OBVIOUS
  <2>1. ASSUME NEW d \in Conns, Release(d)
        PROVE  k \in held[d]
    BY <2>1 DEF Release
  <2>2. ASSUME NEW d \in Conns, Apply(d)
        PROVE  Releasing(d, k)
    <3> DEFINE s == Head(steps[d])
    <3>1. steps[d] # <<>> /\ Effect(d, s)
      BY <2>2 DEF Apply
    <3>2. s \in Step
      BY <3>1, Batch DEF Inv, Typed
    <3>3. s.op \in {"down", "up", "other"} /\ (s.op = "up" => s = [op |-> "up", key |-> s.key])
      BY <3>2, StepKinds
    <3> HIDE DEF s
    <3>4. s.op = "up" /\ s.key = k
      BY <3>1, <3>3 DEF Effect
    <3> QED
      BY <3>1, <3>3, <3>4 DEF s, Releasing
  <2>3. ASSUME NEW d \in Conns, Retry(d)
        PROVE  k \in stuck
    BY <2>3 DEF Retry
  <2>4. ASSUME NEW d \in Conns, Perform(d)
        PROVE  Suspend(d) \/ Release(d) \/ Apply(d) \/ Retry(d)
    BY <2>4 DEF Perform, Ask, Activity, Check, Take, Fail, Performed, machine
  <2>5. ASSUME NEW d \in Conns, Connect(d) \/ Hello(d) \/ Disconnect(d)
        PROVE  Release(d)
    BY <2>5 DEF Connect, Hello, Disconnect, machine
  <2>6. ~(Tick \/ Touch \/ Elevation \/ UNCHANGED vars)
    BY DEF Tick, Touch, Elevation, vars, machine
  <2> QED
    BY <2>1, <2>2, <2>3, <2>4, <2>5, <2>6 DEF Next
<1> QED
  BY <1>1, InvHolds, PTL DEF Spec, HeldStaysDown
=============================================================================
