--------------------------- MODULE DispatcherProofs ---------------------------
(***************************************************************************)
(* Proofs about Dispatcher, for any sessions, tasks, slots and mailboxes.   *)
(***************************************************************************)
EXTENDS Dispatcher, FiniteSetTheorems, TLAPS

\* The table of sessions and the set of tasks agree: the only live task of a
\* session is the one its entry names, except while close() joins them all.
Tables ==
  /\ OneTaskPerSession
  /\ pc # "join" => \A g \in Live : entry[owner[g]] = g
  /\ pc # "err" => \A s \in Sessions :
       entry[s] # NoTask => entry[s] \in Live /\ owner[entry[s]] = s
  /\ pc = "push" => entry[Head(queue).session] # NoTask
  /\ RefusalHasATask
  /\ pc \in {"err", "ok"} => Live = {}

\* Every permit of the semaphore is in the pool, in a turn, or in the pass.
Permits ==
  /\ IsFiniteSet(Running)
  /\ SlotsAccounted
  /\ pc = "pass" => free = 0 /\ Running = {} /\ turns = passSaw

\* The messages of a queue, and those of A before those of B.
In(q) == {q[i] : i \in DOMAIN q}
Below(A, B) == \A m \in A, k \in B : m.session = k.session => m.n < k.n

\* The places a message passes through, in order.
Turned == {m \in Msg : \E i \in DOMAIN begun[m.session] : begun[m.session][i] = m.n}
Held == {cur[g] : g \in {h \in Live : phase[h] \in {"held", "slot"} /\ cur[h] # NoMsg}}
Mailed == {m \in Msg : \E g \in Live : m \in In(box[g]) \cup In(left[g])}
Due == {m \in Msg : m.n <= received[m.session] /\ m \notin lost}

\* A task has messages of its own session only, and what it hands back it has
\* drained from its mailbox; what it does not drain ends the run.
Kept ==
  /\ \A g \in Tasks : cur[g] # NoMsg => phase[g] \in {"held", "slot", "turn"}
                                        /\ cur[g].session = owner[g]
  /\ \A g \in Tasks : left[g] # <<>> => phase[g] = "stopped" /\ box[g] = <<>>
  /\ \A g \in Live : \A m \in In(box[g]) \cup In(left[g]) : m.session = owner[g]
  /\ \A g \in Live : phase[g] = "stopped" /\ box[g] # <<>> => EndsTheRun(fail[g])
  /\ \A m \in lost : m.n <= received[m.session]

\* The messages of a session are together in q; and they are the first of it.
Together(q) == \A i, j, k \in DOMAIN q :
                 i < k /\ k < j /\ q[i].session = q[j].session => q[k].session = q[i].session
Leads(q, s) == \A i, j \in DOMAIN q : i <= j /\ q[j].session = s => q[i].session = s

\* A delivery is of one session's messages.  What was handed back and has a task
\* again is next to be delivered: the task has nothing that comes after it.
Delivering == {"deliver", "push", "reap"}
Handing ==
  /\ pc \notin Delivering => queue = <<>>
  /\ pc = "pass" => pending = <<>>
  /\ \A m, k \in In(queue) : m.session = k.session
  /\ Together(pending)
  /\ pc \in Delivering => Leads(pending, Head(queue).session)
  /\ \A g \in Live : \A m \in In(pending) : m.session = owner[g] =>
       /\ pc = "select" \/ (pc \in Delivering /\ Head(queue).session = owner[g])
       /\ Leads(pending, owner[g])

\* Each place has its messages in order, and those of a later place come later.
Ordered ==
  /\ Rising(queue) /\ Rising(pending)
  /\ \A g \in Live : Rising(box[g]) /\ Rising(left[g])
  /\ \A s \in Sessions : \A i, j \in DOMAIN begun[s] : i < j => begun[s][i] < begun[s][j]
  /\ Below(Turned, Held \cup Mailed \cup In(queue) \cup In(pending))
  /\ Below(Held, Mailed \cup In(queue) \cup In(pending))
  /\ Below(Mailed, In(queue) \cup In(pending))
  /\ Below(In(queue), In(pending))

\* Every message received and not lost is in one of them, and no other is.
Accounted == Turned \cup Held \cup Mailed \cup In(queue) \cup In(pending) = Due

InLine == pc # "err" => Kept /\ Handing /\ Ordered /\ Accounted

IInv == TypeOK /\ Tables /\ Permits /\ InLine

-----------------------------------------------------------------------------
\* What a sequence of messages yields.
LEMMA Queues ==
  ASSUME NEW q \in Seq(Msg)
  PROVE  /\ q # <<>> => Head(q) \in Msg /\ Tail(q) \in Seq(Msg)
         /\ \A r \in Seq(Msg) : q \o r \in Seq(Msg)
         /\ \A m \in Msg : <<m>> \in Seq(Msg) /\ Append(q, m) \in Seq(Msg)
  OBVIOUS

LEMMA Messages ==
  ASSUME NEW m \in Msg
  PROVE  m.session \in Sessions /\ m.n \in Nat \ {0}
  BY DEF Msg


\* The messages of a queue, as it grows and shrinks.
LEMMA Contents ==
  ASSUME NEW q \in Seq(Msg)
  PROVE  /\ In(q) \subseteq Msg /\ (q = <<>> => In(q) = {})
         /\ q # <<>> => /\ Head(q) \in In(q) /\ In(q) = {Head(q)} \cup In(Tail(q))
                        /\ Tail(q) \in Seq(Msg)
         /\ \A m \in Msg : In(Append(q, m)) = In(q) \cup {m} /\ In(<<m>>) = {m}
         /\ \A r \in Seq(Msg) : In(q \o r) = In(q) \cup In(r) /\ q \o r \in Seq(Msg)
<1>1. In(q) \subseteq Msg /\ (q = <<>> => In(q) = {})
  BY DEF In
<1>2. ASSUME q # <<>>
      PROVE  /\ Head(q) \in In(q) /\ In(q) = {Head(q)} \cup In(Tail(q)) /\ Tail(q) \in Seq(Msg)
  <2>1. /\ Tail(q) \in Seq(Msg) /\ Len(Tail(q)) = Len(q) - 1 /\ Len(q) \in Nat \ {0}
        /\ DOMAIN q = 1..Len(q) /\ DOMAIN Tail(q) = 1..(Len(q) - 1) /\ Head(q) = q[1]
        /\ \A i \in 1..(Len(q) - 1) : Tail(q)[i] = q[i + 1]
    BY <1>2
  <2>2. In(q) \subseteq {Head(q)} \cup In(Tail(q))
    <3>1. ASSUME NEW i \in DOMAIN q, i # 1
          PROVE  q[i] \in In(Tail(q))
      <4>1. i - 1 \in DOMAIN Tail(q) /\ Tail(q)[i - 1] = q[i]
        BY <2>1, <3>1
      <4> QED
        BY <4>1 DEF In
    <3> QED
      BY <2>1, <3>1 DEF In
  <2>3. In(Tail(q)) \subseteq In(q) /\ Head(q) \in In(q)
    BY <2>1 DEF In
  <2> QED
    BY <2>1, <2>2, <2>3
<1>3. ASSUME NEW m \in Msg
      PROVE  In(Append(q, m)) = In(q) \cup {m} /\ In(<<m>>) = {m}
  <2>1. /\ DOMAIN q = 1..Len(q) /\ DOMAIN Append(q, m) = 1..(Len(q) + 1) /\ Len(q) \in Nat
        /\ \A i \in 1..Len(q) : Append(q, m)[i] = q[i]
        /\ Append(q, m)[Len(q) + 1] = m
    OBVIOUS
  <2>2. In(Append(q, m)) = In(q) \cup {m}
    BY <2>1 DEF In
  <2>3. DOMAIN <<m>> = {1} /\ <<m>>[1] = m
    OBVIOUS
  <2>4. In(<<m>>) = {m}
    BY <2>3 DEF In
  <2> QED
    BY <2>2, <2>4
<1>4. ASSUME NEW r \in Seq(Msg)
      PROVE  In(q \o r) = In(q) \cup In(r) /\ q \o r \in Seq(Msg)
  <2>1. /\ DOMAIN q = 1..Len(q) /\ DOMAIN r = 1..Len(r) /\ DOMAIN (q \o r) = 1..(Len(q) + Len(r))
        /\ \A i \in 1..Len(q) : (q \o r)[i] = q[i]
        /\ \A i \in 1..Len(r) : (q \o r)[Len(q) + i] = r[i]
        /\ Len(q) \in Nat /\ Len(r) \in Nat
    OBVIOUS
  <2>2. In(q \o r) \subseteq In(q) \cup In(r)
    <3>1. ASSUME NEW i \in DOMAIN (q \o r)
          PROVE  (q \o r)[i] \in In(q) \cup In(r)
      <4>1. CASE i <= Len(q)
        BY <2>1, <4>1 DEF In
      <4>2. CASE i > Len(q)
        <5>1. i - Len(q) \in DOMAIN r /\ (q \o r)[Len(q) + (i - Len(q))] = r[i - Len(q)]
              /\ Len(q) + (i - Len(q)) = i
          BY <2>1, <4>2
        <5> QED
          BY <5>1 DEF In
      <4> QED
        BY <2>1, <4>1, <4>2
    <3> QED
      BY <3>1 DEF In
  <2>3. In(q) \subseteq In(q \o r)
    BY <2>1 DEF In
  <2>4. In(r) \subseteq In(q \o r)
    <3>1. ASSUME NEW i \in DOMAIN r
          PROVE  r[i] \in In(q \o r)
      <4>1. Len(q) + i \in DOMAIN (q \o r)
        BY <2>1
      <4> QED
        BY <2>1, <4>1 DEF In
    <3> QED
      BY <3>1 DEF In
  <2> QED
    BY <2>2, <2>3, <2>4
<1> QED
  BY <1>1, <1>2, <1>3, <1>4

\* Order, as a queue grows and shrinks.
LEMMA Orders ==
  ASSUME NEW q \in Seq(Msg)
  PROVE  /\ Rising(<<>>) /\ \A m \in Msg : Rising(<<m>>)
         /\ Rising(q) /\ q # <<>> => Rising(Tail(q)) /\ Below({Head(q)}, In(Tail(q)))
         /\ \A m \in Msg : Rising(q) /\ Below(In(q), {m}) => Rising(Append(q, m))
         /\ \A r \in Seq(Msg) : Rising(q) /\ Rising(r) /\ Below(In(q), In(r)) => Rising(q \o r)
<1>1. Rising(<<>>) /\ \A m \in Msg : Rising(<<m>>)
  BY DEF Rising
<1>2. ASSUME Rising(q), q # <<>>
      PROVE  Rising(Tail(q)) /\ Below({Head(q)}, In(Tail(q)))
  <2>1. /\ Len(q) \in Nat \ {0} /\ DOMAIN q = 1..Len(q) /\ DOMAIN Tail(q) = 1..(Len(q) - 1)
        /\ Head(q) = q[1] /\ \A i \in 1..(Len(q) - 1) : Tail(q)[i] = q[i + 1]
    BY <1>2
  <2>2. Rising(Tail(q))
    BY <1>2, <2>1 DEF Rising
  <2>3. Below({Head(q)}, In(Tail(q)))
    BY <1>2, <2>1 DEF Rising, Below, In
  <2> QED
    BY <2>2, <2>3
<1>3. ASSUME NEW m \in Msg, Rising(q), Below(In(q), {m})
      PROVE  Rising(Append(q, m))
  <2>1. /\ DOMAIN q = 1..Len(q) /\ DOMAIN Append(q, m) = 1..(Len(q) + 1) /\ Len(q) \in Nat
        /\ \A i \in 1..Len(q) : Append(q, m)[i] = q[i]
        /\ Append(q, m)[Len(q) + 1] = m
    OBVIOUS
  <2> QED
    BY <1>3, <2>1 DEF Rising, Below, In
<1>4. ASSUME NEW r \in Seq(Msg), Rising(q), Rising(r), Below(In(q), In(r))
      PROVE  Rising(q \o r)
  <2>1. /\ DOMAIN q = 1..Len(q) /\ DOMAIN r = 1..Len(r) /\ DOMAIN (q \o r) = 1..(Len(q) + Len(r))
        /\ \A i \in 1..Len(q) : (q \o r)[i] = q[i]
        /\ \A i \in 1..Len(r) : (q \o r)[Len(q) + i] = r[i]
        /\ Len(q) \in Nat /\ Len(r) \in Nat
    OBVIOUS
  <2>2. \A i \in DOMAIN (q \o r) : \/ i \in DOMAIN q /\ (q \o r)[i] = q[i]
                                   \/ /\ i > Len(q) /\ i - Len(q) \in DOMAIN r
                                      /\ (q \o r)[i] = r[i - Len(q)]
    <3>1. ASSUME NEW i \in DOMAIN (q \o r), i > Len(q)
          PROVE  i - Len(q) \in DOMAIN r /\ (q \o r)[i] = r[i - Len(q)]
      <4>1. i - Len(q) \in DOMAIN r /\ (q \o r)[Len(q) + (i - Len(q))] = r[i - Len(q)]
            /\ Len(q) + (i - Len(q)) = i
        BY <2>1, <3>1
      <4> QED
        BY <4>1
    <3> QED
      BY <2>1, <3>1
  <2>3. \A i \in DOMAIN q, j \in DOMAIN r : q[i].session = r[j].session => q[i].n < r[j].n
    BY <1>4 DEF Below, In
  <2> QED
    BY <1>4, <2>1, <2>2, <2>3 DEF Rising
<1> QED
  BY <1>1, <1>2, <1>3, <1>4

\* A queue that goes before another, and a queue of one.
LEMMA Joining ==
  ASSUME NEW q \in Seq(Msg), NEW r \in Seq(Msg), Rising(q), Rising(r), Below(In(q), In(r))
  PROVE  q \o r \in Seq(Msg) /\ In(q \o r) = In(q) \cup In(r) /\ Rising(q \o r)
<1>1. q \o r \in Seq(Msg) /\ In(q \o r) = In(q) \cup In(r)
  BY Contents
<1>2. Rising(q \o r)
  BY Orders
<1> QED
  BY <1>1, <1>2

LEMMA Alone ==
  ASSUME NEW m \in Msg
  PROVE  <<m>> \in Seq(Msg) /\ In(<<m>>) = {m} /\ Rising(<<m>>)
<1>1. <<m>> \in Seq(Msg) /\ DOMAIN <<m>> = {1} /\ <<m>>[1] = m
  OBVIOUS
<1> QED
  BY <1>1 DEF In, Rising

\* The dispatcher's own variables keep their types.
LEMMA DispTypeStep ==
  ASSUME TypeOK, [Next]_vars
  PROVE  DispTypeOK'
<1> USE DispatcherAssumption DEF TypeOK, DispTypeOK, TaskTypeOK, dispVars, vars
<1>1. ASSUME NEW s \in Sessions, Receive(s)
      PROVE  DispTypeOK'
  <2>1. <<[session |-> s, n |-> received[s] + 1]>> \in Seq(Msg)
    BY Queues DEF Msg
  <2> QED
    BY <1>1, <2>1 DEF Receive
<1>2. ASSUME DeliverPending
      PROVE  DispTypeOK'
  <2>1. Head(pending) \in Msg /\ Tail(pending) \in Seq(Msg)
    BY <1>2, Queues DEF DeliverPending
  <2>2. <<Head(pending)>> \in Seq(Msg) /\ <<Head(pending)>> # <<>>
    BY <2>1
  <2> QED
    BY <1>2, <2>1, <2>2 DEF DeliverPending
<1>3. ASSUME Send
      PROVE  DispTypeOK'
  BY <1>3 DEF Send
<1>4. ASSUME Push
      PROVE  DispTypeOK'
  <2>1. Head(queue) \in Msg /\ Tail(queue) \in Seq(Msg)
    BY <1>4, Queues DEF Push
  <2> QED
    BY <1>4, <2>1 DEF Push, AfterSend
<1>5. ASSUME Refused
      PROVE  DispTypeOK'
  BY <1>5 DEF Refused
<1>6. ASSUME PassEnds
      PROVE  DispTypeOK'
  BY <1>6 DEF PassEnds
<1>7. ASSUME ClearSessions
      PROVE  DispTypeOK'
  BY <1>7 DEF ClearSessions
<1>8. ASSUME Joined
      PROVE  DispTypeOK'
  BY <1>8 DEF Joined
<1>9. ASSUME NEW g \in Tasks, OpenMailbox(g)
      PROVE  DispTypeOK'
  BY <1>9 DEF OpenMailbox
<1>10. ASSUME NEW g \in Tasks, ReapInSelect(g)
      PROVE  DispTypeOK'
  <2>1. pending \o left[g] \in Seq(Msg)
    BY Queues
  <2>2. entry' \in [Sessions -> Tasks \cup {NoTask}]
    BY <1>10 DEF ReapInSelect, Forget
  <2> QED
    BY <1>10, <2>1, <2>2 DEF ReapInSelect, Forget
<1>11. ASSUME NEW g \in Tasks, ReapForSend(g)
      PROVE  DispTypeOK'
  <2>1. /\ left[g] \o queue \in Seq(Msg) /\ pending \o left[g] \in Seq(Msg)
        /\ left[g] \o queue # <<>>
    BY <1>11 DEF ReapForSend
  <2>2. entry' \in [Sessions -> Tasks \cup {NoTask}]
    BY <1>11 DEF ReapForSend, Forget
  <2>3. queue' \in Seq(Msg) /\ pending' \in Seq(Msg) /\ queue' # <<>>
    BY <1>11, <2>1 DEF ReapForSend
  <2>4. pc' \in {"deliver", "reap"} /\ UNCHANGED <<closing, received, lost>>
    BY <1>11 DEF ReapForSend, Forget
  <2> QED
    BY <2>2, <2>3, <2>4
<1>12. ASSUME NEW g \in Tasks, ReapInClose(g)
      PROVE  DispTypeOK'
  <2>1. pending \o left[g] \in Seq(Msg)
    BY Queues
  <2>2. entry' \in [Sessions -> Tasks \cup {NoTask}]
    BY <1>12 DEF ReapInClose, Forget
  <2> QED
    BY <1>12, <2>1, <2>2 DEF ReapInClose, Forget
<1>13. ASSUME NEW g \in Tasks, EndRun(g)
      PROVE  DispTypeOK'
  BY <1>13 DEF EndRun
<1>14. ASSUME PassBegins
      PROVE  DispTypeOK'
  BY <1>14 DEF PassBegins
<1>15. ASSUME ChannelEnds
      PROVE  DispTypeOK'
  BY <1>15 DEF ChannelEnds
<1>16. CASE \E g \in Tasks : \/ TaskProgress(g) \/ StopWaiting(g) \/ AcquireSlot(g)
                          \/ \E f \in Failures : Fails(g, f)
  BY <1>16 DEF TaskProgress, TakeMessage, StartSummary, SummaryDone, HoldMessage,
     HeldSummaryDone, TurnDone, ReplySent, CloseAndDrain, StopWaiting, AcquireSlot,
     Fails
<1>17. CASE UNCHANGED vars
  BY <1>17 DEF vars
<1>18. ASSUME NEW g \in Tasks, SummaryPanics(g)
      PROVE  DispTypeOK'
  <2>1. cur[g] \in Msg \cup {NoMsg}
    BY DEF TypeOK, TaskTypeOK
  <2> QED
    BY <1>18, <2>1 DEF SummaryPanics
<1> QED
  BY <1>1, <1>2, <1>3, <1>4, <1>5, <1>6, <1>7, <1>8, <1>9, <1>10,
       <1>11, <1>12, <1>13, <1>14, <1>15, <1>16, <1>17, <1>18
  DEF Next, DispatcherStep, TaskProgress, Ended

\* The tasks' variables keep their types.
LEMMA TaskTypeStep ==
  ASSUME TypeOK, Tables, [Next]_vars
  PROVE  TaskTypeOK'
<1> USE DispatcherAssumption
    DEF TypeOK, DispTypeOK, TaskTypeOK, Phases, Failures, taskVars, vars
<1>1. ASSUME Push
      PROVE  TaskTypeOK'
  <2>1. Head(queue) \in Msg
    BY <1>1, Queues DEF Push
  <2>2. entry[Head(queue).session] \in Tasks
    BY <1>1, <2>1, Messages DEF Push, Tables
  <2>3. Append(box[entry[Head(queue).session]], Head(queue)) \in Seq(Msg)
    BY <2>1, <2>2, Queues
  <2>4. \/ box' = box
        \/ box' = [box EXCEPT ![entry[Head(queue).session]] =
                     Append(box[entry[Head(queue).session]], Head(queue))]
    BY <1>1 DEF Push
  <2>5. box' \in [Tasks -> Seq(Msg)]
    BY <2>2, <2>3, <2>4
  <2>6. UNCHANGED <<owner, phase, cur, left, fail, begun, idles>>
    BY <1>1 DEF Push
  <2> QED
    BY <2>5, <2>6
<1>2. ASSUME NEW g \in Tasks, OpenMailbox(g)
      PROVE  TaskTypeOK'
  <2>1. Head(queue).session \in Sessions
    BY <1>2, Queues, Messages DEF OpenMailbox
  <2>2. <<>> \in Seq(Msg)
    OBVIOUS
  <2> QED
    BY <1>2, <2>1, <2>2 DEF OpenMailbox
<1>3. ASSUME NEW g \in Tasks, ReapInSelect(g)
      PROVE  TaskTypeOK'
  BY <1>3 DEF ReapInSelect, Forget
<1>4. ASSUME NEW g \in Tasks, ReapForSend(g)
      PROVE  TaskTypeOK'
  <2>1. <<>> \in Seq(Msg)
    OBVIOUS
  <2>2. Forget(g)
    BY <1>4 DEF ReapForSend
  <2> QED
    BY <2>1, <2>2 DEF Forget
<1>5. ASSUME NEW g \in Tasks, ReapInClose(g)
      PROVE  TaskTypeOK'
  BY <1>5 DEF ReapInClose, Forget
<1>6. ASSUME NEW g \in Tasks, EndRun(g)
      PROVE  TaskTypeOK'
  BY <1>6 DEF EndRun
<1>7. ASSUME ChannelEnds
      PROVE  TaskTypeOK'
  BY <1>7 DEF ChannelEnds
<1>8. ASSUME NEW g \in Tasks, TakeMessage(g)
      PROVE  TaskTypeOK'
  <2>1. Head(box[g]) \in Msg /\ Tail(box[g]) \in Seq(Msg)
    BY <1>8, Queues DEF TakeMessage, TaskStep
  <2> QED
    BY <1>8, <2>1 DEF TakeMessage, TaskStep
<1>9. ASSUME NEW g \in Tasks, StartSummary(g)
      PROVE  TaskTypeOK'
  BY <1>9 DEF StartSummary, TaskStep
<1>10. ASSUME NEW g \in Tasks, SummaryDone(g)
      PROVE  TaskTypeOK'
  BY <1>10 DEF SummaryDone, TaskStep
<1>11. ASSUME NEW g \in Tasks, HoldMessage(g)
      PROVE  TaskTypeOK'
  <2>1. Head(box[g]) \in Msg /\ Tail(box[g]) \in Seq(Msg)
    BY <1>11, Queues DEF HoldMessage
  <2> QED
    BY <1>11, <2>1 DEF HoldMessage
<1>12. ASSUME NEW g \in Tasks, HeldSummaryDone(g)
      PROVE  TaskTypeOK'
  BY <1>12 DEF HeldSummaryDone, TaskStep
<1>13. ASSUME NEW g \in Tasks, TurnDone(g)
      PROVE  TaskTypeOK'
  BY <1>13 DEF TurnDone, TaskStep
<1>14. ASSUME NEW g \in Tasks, ReplySent(g)
      PROVE  TaskTypeOK'
  BY <1>14 DEF ReplySent, TaskStep
<1>15. ASSUME NEW g \in Tasks, CloseAndDrain(g)
      PROVE  TaskTypeOK'
  <2>1. <<>> \in Seq(Msg)
    OBVIOUS
  <2> QED
    BY <1>15, <2>1 DEF CloseAndDrain, TaskStep
<1>16. ASSUME NEW g \in Tasks, StopWaiting(g)
      PROVE  TaskTypeOK'
  <2>1. phase[g] \in {"idle", "due", "summing"} /\ idles' \in Nat
    BY <1>16 DEF StopWaiting
  <2>2. phase' = [phase EXCEPT ![g] = IF phase[g] = "idle" THEN "stopping" ELSE "held"]
    BY <1>16 DEF StopWaiting
  <2>3. phase' \in [Tasks -> Phases]
    BY <2>2
  <2>4. \A h \in Tasks : phase'[h] \in {"slot", "turn"} => phase[h] \in {"slot", "turn"}
    BY <2>2
  <2>5. UNCHANGED <<owner, box, cur, left, fail, begun>>
    BY <1>16 DEF StopWaiting
  <2> QED
    BY <2>1, <2>3, <2>4, <2>5
<1>17. ASSUME NEW g \in Tasks, AcquireSlot(g)
      PROVE  TaskTypeOK'
  <2>1. cur[g].n \in Nat \ {0}
    BY <1>17, Messages DEF AcquireSlot, TaskStep
  <2>2. Append(begun[owner[g]], cur[g].n) \in Seq(Nat \ {0})
    BY <2>1
  <2>3. begun' \in [Sessions -> Seq(Nat \ {0})]
    BY <1>17, <2>2 DEF AcquireSlot, TaskStep
  <2> QED
    BY <1>17, <2>3 DEF AcquireSlot, TaskStep
<1>18. ASSUME NEW g \in Tasks, NEW f \in Failures, Fails(g, f)
      PROVE  TaskTypeOK'
  BY <1>18 DEF Fails
<1>19. CASE \/ \E s \in Sessions : Receive(s)
          \/ DeliverPending \/ Send \/ Refused \/ PassBegins \/ PassEnds
          \/ ClearSessions \/ Joined
  BY <1>19 DEF Receive, DeliverPending, Send, Refused, PassBegins, PassEnds,
     ClearSessions, Joined
<1>20. CASE UNCHANGED vars
  BY <1>20 DEF vars
<1>21. ASSUME NEW g \in Tasks, SummaryPanics(g)
      PROVE  TaskTypeOK'
  BY <1>21 DEF SummaryPanics
<1> QED
  BY <1>1, <1>2, <1>3, <1>4, <1>5, <1>6, <1>7, <1>8, <1>9, <1>10,
       <1>11, <1>12, <1>13, <1>14, <1>15, <1>16, <1>17, <1>18, <1>19,
       <1>20, <1>21
  DEF Next, DispatcherStep, TaskProgress, Ended

\* Forgetting a stopped task leaves the table and the other tasks agreeing.
LEMMA ForgetStep ==
  ASSUME TypeOK, Tables, NEW g \in Live, Forget(g), pc # "err"
  PROVE  /\ OneTaskPerSession'
         /\ Live' = Live \ {g} /\ owner' = owner
         /\ \A r \in Sessions :
              entry'[r] # NoTask => entry'[r] \in Live' /\ owner'[entry'[r]] = r
         /\ pc # "join" => \A h \in Live' : entry'[owner'[h]] = h
<1> USE DispatcherAssumption
    DEF TypeOK, DispTypeOK, TaskTypeOK, Tables, OneTaskPerSession, Live, Phases
<1>1. /\ entry' = [entry EXCEPT ![owner[g]] = IF entry[owner[g]] = g THEN NoTask
                                              ELSE entry[owner[g]]]
      /\ phase' = [phase EXCEPT ![g] = "none"] /\ owner' = owner
  BY DEF Forget
<1>2. Live' = Live \ {g}
  BY <1>1
<1>3. OneTaskPerSession'
  BY <1>1, <1>2
<1>4. \A r \in Sessions : entry'[r] # NoTask => entry'[r] = entry[r] /\ entry[r] # g
  BY <1>1
<1>5. \A r \in Sessions :
        entry'[r] # NoTask => entry'[r] \in Live' /\ owner'[entry'[r]] = r
  BY <1>1, <1>2, <1>4
<1>6. ASSUME pc # "join"
      PROVE  \A h \in Live' : entry'[owner'[h]] = h
  BY <1>1, <1>2, <1>6
<1> QED
  BY <1>1, <1>2, <1>3, <1>5, <1>6

\* A session's task moves from one live phase to another, and only its own.
LEMMA TaskMoves ==
  ASSUME TypeOK, NEW g \in Tasks,
         \/ TaskProgress(g) \/ StopWaiting(g) \/ AcquireSlot(g) \/ SummaryPanics(g)
         \/ \E f \in Failures : Fails(g, f)
  PROVE  phase[g] # "none" /\ \E p \in Phases \ {"none"} : phase' = [phase EXCEPT ![g] = p]
<1> DEFINE Moves(p) == phase[g] # "none" /\ phase' = [phase EXCEPT ![g] = p]
<1> USE DEF TypeOK, TaskTypeOK, Phases, TaskStep
<1>1. CASE TakeMessage(g)
  <2>1. Moves("slot")
    BY <1>1 DEF TakeMessage
  <2> QED
    BY <2>1
<1>2. CASE StartSummary(g)
  <2>1. Moves("summing")
    BY <1>2 DEF StartSummary
  <2> QED
    BY <2>1
<1>3. CASE SummaryDone(g)
  <2>1. Moves("idle")
    BY <1>3 DEF SummaryDone
  <2> QED
    BY <2>1
<1>4. CASE HoldMessage(g)
  <2>1. Moves("held")
    BY <1>4 DEF HoldMessage
  <2> QED
    BY <2>1
<1>5. CASE HeldSummaryDone(g)
  <2>1. Moves("stopping") \/ Moves("slot")
    BY <1>5 DEF HeldSummaryDone
  <2> QED
    BY <2>1
<1>6. CASE TurnDone(g)
  <2>1. Moves("reply")
    BY <1>6 DEF TurnDone
  <2> QED
    BY <2>1
<1>7. CASE ReplySent(g)
  <2>1. Moves("due")
    BY <1>7 DEF ReplySent
  <2> QED
    BY <2>1
<1>8. CASE CloseAndDrain(g)
  <2>1. Moves("stopped")
    BY <1>8 DEF CloseAndDrain
  <2> QED
    BY <2>1
<1>9. CASE StopWaiting(g)
  <2>1. Moves("stopping") \/ Moves("held")
    BY <1>9 DEF StopWaiting
  <2> QED
    BY <2>1
<1>10. CASE AcquireSlot(g)
  <2>1. Moves("turn")
    BY <1>10 DEF AcquireSlot
  <2> QED
    BY <2>1
<1>11. CASE \E f \in Failures : Fails(g, f)
  <2>1. Moves("stopped") \/ Moves("stopping")
    BY <1>11 DEF Fails
  <2> QED
    BY <2>1
<1>12. CASE SummaryPanics(g)
  <2>1. Moves("stopped") \/ Moves("stopping")
    BY <1>12 DEF SummaryPanics
  <2> QED
    BY <2>1
<1> QED
  BY <1>1, <1>2, <1>3, <1>4, <1>5, <1>6, <1>7, <1>8, <1>9, <1>10, <1>11, <1>12
  DEF TaskProgress

\* No step makes the table and the set of tasks disagree.
LEMMA TablesStep ==
  ASSUME TypeOK, Tables, [Next]_vars
  PROVE  Tables'
<1> USE DispatcherAssumption
    DEF TypeOK, DispTypeOK, TaskTypeOK, Tables, OneTaskPerSession, RefusalHasATask,
        Live, Phases, dispVars, taskVars, vars
<1>1. ASSUME NEW s \in Sessions, Receive(s)
      PROVE  Tables'
  BY <1>1 DEF Receive
<1>2. ASSUME DeliverPending
      PROVE  Tables'
  BY <1>2 DEF DeliverPending
<1>3. ASSUME Send
      PROVE  Tables'
  BY <1>3 DEF Send
<1>4. ASSUME Push
      PROVE  Tables'
  BY <1>4 DEF Push, AfterSend
<1>5. ASSUME Refused
      PROVE  Tables'
  <2> DEFINE s == Head(queue).session
  <2>1. s \in Sessions /\ entry[s] # NoTask /\ pc = "deliver" /\ pc' = "reap"
    BY <1>5, Queues, Messages DEF Refused
  <2>2. UNCHANGED <<queue, entry, owner, phase>>
    BY <1>5 DEF Refused
  <2>3. entry[s] \in Live /\ owner[entry[s]] = s
    BY <2>1
  <2> QED
    BY <2>1, <2>2, <2>3
<1>6. ASSUME PassEnds
      PROVE  Tables'
  BY <1>6 DEF PassEnds
<1>7. ASSUME ClearSessions
      PROVE  Tables'
  BY <1>7 DEF ClearSessions
<1>8. ASSUME Joined
      PROVE  Tables'
  BY <1>8 DEF Joined
<1>9. ASSUME NEW g \in Tasks, OpenMailbox(g)
      PROVE  Tables'
  <2>0. Head(queue).session \in Sessions
    BY <1>9, Queues, Messages DEF OpenMailbox
  <2>1. PICK s \in Sessions : s = Head(queue).session
    BY <2>0
  <2>2. entry[s] = NoTask /\ phase[g] = "none" /\ pc = "deliver" /\ pc' = pc
    BY <1>9, <2>1 DEF OpenMailbox
  <2>3. /\ entry' = [entry EXCEPT ![s] = g] /\ owner' = [owner EXCEPT ![g] = s]
        /\ phase' = [phase EXCEPT ![g] = "idle"]
    BY <1>9, <2>1 DEF OpenMailbox
  <2>4. \A h \in Live : owner[h] # s /\ h # g
    BY <2>2
  <2>5. Live' = Live \cup {g}
    BY <2>3
  <2>6. \A h \in Live : owner'[h] = owner[h] /\ owner'[h] # s /\ entry'[owner[h]] = h
    BY <2>2, <2>3, <2>4
  <2>7. owner'[g] = s /\ entry'[s] = g
    BY <2>3
  <2>8. \A x, y \in Live' : owner'[x] = owner'[y] => x = y
    <3> HIDE DEF Live, TypeOK
    <3>1. \A x, y \in Live : owner'[x] = owner'[y] => x = y
      BY <2>6
    <3>2. \A x \in Live : owner'[x] # owner'[g]
      BY <2>6, <2>7
    <3> QED
      BY <2>5, <3>1, <3>2
  <2>9. \A h \in Live' : entry'[owner'[h]] = h
    BY <2>5, <2>6, <2>7
  <2>10. \A r \in Sessions :
          entry'[r] # NoTask => entry'[r] \in Live' /\ owner'[entry'[r]] = r
    BY <2>2, <2>3, <2>5, <2>6, <2>7
  <2> QED
    BY <2>2, <2>8, <2>9, <2>10
<1>10. ASSUME NEW g \in Tasks, ReapInSelect(g)
      PROVE  Tables'
  <2>1. Forget(g) /\ phase[g] = "stopped" /\ g \in Live
    BY <1>10 DEF ReapInSelect
  <2>2. OneTaskPerSession' /\ Live' = Live \ {g} /\ owner' = owner
    BY <2>1, ForgetStep
  <2>3. \A r \in Sessions :
          entry'[r] # NoTask => entry'[r] \in Live' /\ owner'[entry'[r]] = r
    BY <1>10, <2>1, ForgetStep DEF ReapInSelect
  <2>4. pc = "select" /\ pc' = pc
    BY <1>10 DEF ReapInSelect
  <2>5. \A h \in Live' : entry'[owner'[h]] = h
    BY <2>1, <2>4, ForgetStep
  <2> QED
    BY <2>2, <2>3, <2>4, <2>5
<1>11. ASSUME NEW g \in Tasks, ReapForSend(g)
      PROVE  Tables'
  <2>1. Forget(g) /\ phase[g] = "stopped" /\ g \in Live
    BY <1>11 DEF ReapForSend
  <2>2. OneTaskPerSession' /\ Live' = Live \ {g} /\ owner' = owner
    BY <2>1, ForgetStep
  <2>3. \A r \in Sessions :
          entry'[r] # NoTask => entry'[r] \in Live' /\ owner'[entry'[r]] = r
    BY <1>11, <2>1, ForgetStep DEF ReapForSend
  <2>4. pc = "reap"
    BY <1>11 DEF ReapForSend
  <2>5. \A h \in Live' : entry'[owner'[h]] = h
    BY <2>1, <2>4, ForgetStep
  <2>6. CASE owner[g] = Head(queue).session
    <3>1. pc' = "deliver"
      BY <1>11, <2>6 DEF ReapForSend
    <3> QED
      BY <2>2, <2>3, <2>5, <3>1
  <2>7. CASE owner[g] # Head(queue).session
    <3>1. pc' = "reap" /\ queue' = queue
      BY <1>11, <2>4, <2>7 DEF ReapForSend
    <3>2. \E h \in Live' : owner'[h] = Head(queue').session
      BY <2>2, <2>4, <2>7, <3>1
    <3> QED
      BY <2>2, <2>3, <2>5, <3>1, <3>2
  <2> QED
    BY <2>6, <2>7
<1>12. ASSUME NEW g \in Tasks, ReapInClose(g)
      PROVE  Tables'
  <2>1. Forget(g) /\ phase[g] = "stopped" /\ g \in Live
    BY <1>12 DEF ReapInClose
  <2>2. OneTaskPerSession' /\ Live' = Live \ {g} /\ owner' = owner
    BY <2>1, ForgetStep
  <2>3. \A r \in Sessions :
          entry'[r] # NoTask => entry'[r] \in Live' /\ owner'[entry'[r]] = r
    BY <1>12, <2>1, ForgetStep DEF ReapInClose
  <2>4. pc = "join" /\ pc' = pc
    BY <1>12 DEF ReapInClose
  <2> QED
    BY <2>2, <2>3, <2>4
<1>13. ASSUME NEW g \in Tasks, EndRun(g)
      PROVE  Tables'
  BY <1>13 DEF EndRun
<1>14. ASSUME PassBegins
      PROVE  Tables'
  BY <1>14 DEF PassBegins
<1>15. ASSUME ChannelEnds
      PROVE  Tables'
  BY <1>15 DEF ChannelEnds
<1>16. CASE \E g \in Tasks : \/ TaskProgress(g) \/ StopWaiting(g) \/ AcquireSlot(g) \/ SummaryPanics(g)
                           \/ \E f \in Failures : Fails(g, f)
  <2>1. PICK g \in Tasks : \/ TaskProgress(g) \/ StopWaiting(g) \/ AcquireSlot(g) \/ SummaryPanics(g)
                           \/ \E f \in Failures : Fails(g, f)
    BY <1>16
  <2>2. UNCHANGED <<pc, queue, entry, owner>>
    BY <2>1 DEF TaskProgress, TakeMessage, StartSummary, SummaryDone, HoldMessage,
       HeldSummaryDone, TurnDone, ReplySent, CloseAndDrain, StopWaiting, AcquireSlot,
       Fails, SummaryPanics
  <2>3. phase[g] # "none" /\ \E p \in Phases \ {"none"} : phase' = [phase EXCEPT ![g] = p]
    BY <2>1, TaskMoves
  <2>4. Live' = Live
    BY <2>3
  <2> QED
    BY <2>2, <2>4
<1>17. CASE UNCHANGED vars
  BY <1>17 DEF vars
<1> QED
  BY <1>1, <1>2, <1>3, <1>4, <1>5, <1>6, <1>7, <1>8, <1>9, <1>10,
       <1>11, <1>12, <1>13, <1>14, <1>15, <1>16, <1>17
  DEF Next, DispatcherStep, TaskProgress, Ended

\* Permits are neither made nor leaked by any step.
LEMMA PermitStep ==
  ASSUME TypeOK, Tables, Permits, [Next]_vars
  PROVE  (SlotTypeOK /\ Permits)'
<1> USE DispatcherAssumption
    DEF TypeOK, DispTypeOK, TaskTypeOK, SlotTypeOK, Tables, Permits, SlotsAccounted,
        Phases, dispVars, taskVars, slotVars, vars
<1>1. ASSUME NEW s \in Sessions, Receive(s)
      PROVE  (SlotTypeOK /\ Permits)'
  <2>1. Running' = Running /\ free' = free
    BY <1>1 DEF Receive, Running
  <2> QED
    BY <1>1, <2>1 DEF Receive
<1>2. ASSUME DeliverPending
      PROVE  (SlotTypeOK /\ Permits)'
  <2>1. Running' = Running /\ free' = free
    BY <1>2 DEF DeliverPending, Running
  <2> QED
    BY <1>2, <2>1 DEF DeliverPending
<1>3. ASSUME Send
      PROVE  (SlotTypeOK /\ Permits)'
  <2>1. Running' = Running /\ free' = free
    BY <1>3 DEF Send, Running
  <2> QED
    BY <1>3, <2>1 DEF Send
<1>4. ASSUME Push
      PROVE  (SlotTypeOK /\ Permits)'
  <2>1. Running' = Running /\ free' = free
    BY <1>4 DEF Push, AfterSend, Running
  <2> QED
    BY <1>4, <2>1 DEF Push, AfterSend
<1>5. ASSUME Refused
      PROVE  (SlotTypeOK /\ Permits)'
  <2>1. Running' = Running /\ free' = free
    BY <1>5 DEF Refused, Running
  <2> QED
    BY <1>5, <2>1 DEF Refused
<1>6. ASSUME PassEnds
      PROVE  (SlotTypeOK /\ Permits)'
  <2>1. Running' = {}
    BY <1>6 DEF PassEnds, Running
  <2> QED
    BY <1>6, <2>1, FS_EmptySet DEF PassEnds
<1>7. ASSUME ClearSessions
      PROVE  (SlotTypeOK /\ Permits)'
  <2>1. Running' = Running /\ free' = free
    BY <1>7 DEF ClearSessions, Running
  <2> QED
    BY <1>7, <2>1 DEF ClearSessions
<1>8. ASSUME Joined
      PROVE  (SlotTypeOK /\ Permits)'
  <2>1. Running' = Running /\ free' = free
    BY <1>8 DEF Joined, Running
  <2> QED
    BY <1>8, <2>1 DEF Joined
<1>9. ASSUME NEW g \in Tasks, OpenMailbox(g)
      PROVE  (SlotTypeOK /\ Permits)'
  <2>1. Running' = Running /\ free' = free
    BY <1>9 DEF OpenMailbox, Running
  <2> QED
    BY <1>9, <2>1 DEF OpenMailbox
<1>10. ASSUME NEW g \in Tasks, ReapInSelect(g)
      PROVE  (SlotTypeOK /\ Permits)'
  <2>1. Running' = Running /\ free' = free
    BY <1>10 DEF ReapInSelect, Forget, Running
  <2> QED
    BY <1>10, <2>1 DEF ReapInSelect, Forget
<1>11. ASSUME NEW g \in Tasks, ReapForSend(g)
      PROVE  (SlotTypeOK /\ Permits)'
  <2>1. Running' = Running /\ free' = free
    BY <1>11 DEF ReapForSend, Forget, Running
  <2> QED
    BY <1>11, <2>1 DEF ReapForSend, Forget
<1>12. ASSUME NEW g \in Tasks, ReapInClose(g)
      PROVE  (SlotTypeOK /\ Permits)'
  <2>1. Running' = Running /\ free' = free
    BY <1>12 DEF ReapInClose, Forget, Running
  <2> QED
    BY <1>12, <2>1 DEF ReapInClose, Forget
<1>13. ASSUME NEW g \in Tasks, EndRun(g)
      PROVE  (SlotTypeOK /\ Permits)'
  <2>1. Running' = {}
    BY <1>13 DEF EndRun, Running
  <2> QED
    BY <1>13, <2>1, FS_EmptySet DEF EndRun
<1>14. ASSUME PassBegins
      PROVE  (SlotTypeOK /\ Permits)'
  <2>1. Running' = Running
    BY <1>14 DEF PassBegins, Running
  <2>2. Cardinality(Running) = 0
    BY <1>14, FS_CardinalityType DEF PassBegins
  <2>3. Running = {}
    BY <2>2, FS_EmptySet
  <2> QED
    BY <1>14, <2>1, <2>3 DEF PassBegins
<1>15. ASSUME ChannelEnds
      PROVE  (SlotTypeOK /\ Permits)'
  <2>1. CASE pc' = "err"
    <3>1. Running' = {}
      BY <1>15, <2>1 DEF ChannelEnds, Running
    <3> QED
      BY <1>15, <2>1, <3>1, FS_EmptySet DEF ChannelEnds
  <2>2. CASE UNCHANGED <<pc, phase>>
    <3>1. Running' = Running
      BY <2>2 DEF Running
    <3> QED
      BY <1>15, <2>2, <3>1 DEF ChannelEnds
  <2> QED
    BY <1>15, <2>1, <2>2 DEF ChannelEnds
<1>16. ASSUME NEW g \in Tasks, TakeMessage(g)
      PROVE  (SlotTypeOK /\ Permits)'
  <2>1. Running' = Running /\ free' = free
    BY <1>16 DEF TakeMessage, TaskStep, Running
  <2> QED
    BY <1>16, <2>1 DEF TakeMessage, TaskStep
<1>17. ASSUME NEW g \in Tasks, StartSummary(g)
      PROVE  (SlotTypeOK /\ Permits)'
  <2>1. Running' = Running /\ free' = free
    BY <1>17 DEF StartSummary, TaskStep, Running
  <2> QED
    BY <1>17, <2>1 DEF StartSummary, TaskStep
<1>18. ASSUME NEW g \in Tasks, SummaryDone(g)
      PROVE  (SlotTypeOK /\ Permits)'
  <2>1. Running' = Running /\ free' = free
    BY <1>18 DEF SummaryDone, TaskStep, Running
  <2> QED
    BY <1>18, <2>1 DEF SummaryDone, TaskStep
<1>19. ASSUME NEW g \in Tasks, HoldMessage(g)
      PROVE  (SlotTypeOK /\ Permits)'
  <2>1. Running' = Running /\ free' = free
    BY <1>19 DEF HoldMessage, Running
  <2> QED
    BY <1>19, <2>1 DEF HoldMessage
<1>20. ASSUME NEW g \in Tasks, HeldSummaryDone(g)
      PROVE  (SlotTypeOK /\ Permits)'
  <2>1. Running' = Running /\ free' = free
    BY <1>20 DEF HeldSummaryDone, TaskStep, Running
  <2> QED
    BY <1>20, <2>1 DEF HeldSummaryDone, TaskStep
<1>21. ASSUME NEW g \in Tasks, TurnDone(g)
      PROVE  (SlotTypeOK /\ Permits)'
  <2>1. pc \notin {"pass", "err"} /\ pc' = pc
    BY <1>21 DEF TurnDone, TaskStep, Live, Running
  <2>2. Running' = Running \ {g} /\ g \in Running /\ free' = free + 1
    BY <1>21 DEF TurnDone, TaskStep, Running
  <2>3. /\ IsFiniteSet(Running') /\ Cardinality(Running') = Cardinality(Running) - 1
        /\ Cardinality(Running') \in Nat
    BY <2>2, FS_RemoveElement, FS_CardinalityType
  <2>4. turns' \in Nat /\ UNCHANGED <<passSaw, policy, slots>>
    BY <1>21 DEF TurnDone, TaskStep
  <2> QED
    BY <2>1, <2>2, <2>3, <2>4, FS_CardinalityType
<1>22. ASSUME NEW g \in Tasks, ReplySent(g)
      PROVE  (SlotTypeOK /\ Permits)'
  <2>1. Running' = Running /\ free' = free
    BY <1>22 DEF ReplySent, TaskStep, Running
  <2> QED
    BY <1>22, <2>1 DEF ReplySent, TaskStep
<1>23. ASSUME NEW g \in Tasks, CloseAndDrain(g)
      PROVE  (SlotTypeOK /\ Permits)'
  <2>1. Running' = Running /\ free' = free
    BY <1>23 DEF CloseAndDrain, TaskStep, Running
  <2> QED
    BY <1>23, <2>1 DEF CloseAndDrain, TaskStep
<1>24. ASSUME NEW g \in Tasks, StopWaiting(g)
      PROVE  (SlotTypeOK /\ Permits)'
  <2>1. Running' = Running /\ free' = free
    BY <1>24 DEF StopWaiting, Running
  <2> QED
    BY <1>24, <2>1 DEF StopWaiting
<1>25. ASSUME NEW g \in Tasks, AcquireSlot(g)
      PROVE  (SlotTypeOK /\ Permits)'
  <2>1. pc \notin {"pass", "err"} /\ pc' = pc /\ free' = free - 1 /\ free > 0
    BY <1>25 DEF AcquireSlot, TaskStep, Live
  <2>2. Running' = Running \cup {g} /\ g \notin Running
    BY <1>25 DEF AcquireSlot, TaskStep, Running
  <2>3. IsFiniteSet(Running') /\ Cardinality(Running') = Cardinality(Running) + 1
    BY <2>2, FS_AddElement
  <2>4. UNCHANGED <<turns, passSaw, policy, slots>>
    BY <1>25 DEF AcquireSlot
  <2> QED
    BY <2>1, <2>3, <2>4, FS_CardinalityType
<1>26. ASSUME NEW g \in Tasks, NEW f \in Failures, Fails(g, f)
      PROVE  (SlotTypeOK /\ Permits)'
  <2>0. CASE phase[g] = "reply"
    <3>1. Running' = Running /\ free' = free
      BY <1>26, <2>0 DEF Fails, Running
    <3> QED
      BY <1>26, <3>1 DEF Fails
  <2>1. CASE phase[g] = "turn"
    <3>1. pc \notin {"pass", "err"} /\ pc' = pc
      BY <1>26, <2>1 DEF Fails, Live, Running
    <3>2. Running' = Running \ {g} /\ g \in Running /\ free' = free + 1
      BY <1>26, <2>1 DEF Fails, Running
    <3>3. /\ IsFiniteSet(Running') /\ Cardinality(Running') = Cardinality(Running) - 1
          /\ Cardinality(Running') \in Nat
      BY <3>2, FS_RemoveElement, FS_CardinalityType
    <3>4. UNCHANGED <<turns, passSaw, policy, slots>>
      BY <1>26 DEF Fails
    <3> QED
      BY <3>1, <3>2, <3>3, <3>4, FS_CardinalityType
  <2> QED
    BY <1>26, <2>0, <2>1 DEF Fails
<1>27. CASE UNCHANGED vars
  <2>1. Running' = Running
    BY <1>27 DEF Running
  <2> QED
    BY <1>27, <2>1
<1>28. ASSUME NEW g \in Tasks, SummaryPanics(g)
      PROVE  (SlotTypeOK /\ Permits)'
  <2>1. Running' = Running /\ free' = free
    BY <1>28 DEF SummaryPanics, Running
  <2> QED
    BY <1>28, <2>1 DEF SummaryPanics
<1> QED
  BY <1>1, <1>2, <1>3, <1>4, <1>5, <1>6, <1>7, <1>8, <1>9, <1>10,
       <1>11, <1>12, <1>13, <1>14, <1>15, <1>16, <1>17, <1>18, <1>19,
       <1>20, <1>21, <1>22, <1>23, <1>24, <1>25, <1>26, <1>27, <1>28
  DEF Next, DispatcherStep, TaskProgress, Ended

-----------------------------------------------------------------------------
(* Messages in line.                                                        *)

\* What the line's steps need of the types and the table.
LEMMA Lines ==
  ASSUME TypeOK, Tables, InLine, pc # "err"
  PROVE  /\ Kept /\ Handing /\ Ordered /\ Accounted
         /\ queue \in Seq(Msg) /\ pending \in Seq(Msg)
         /\ \A g \in Tasks : box[g] \in Seq(Msg) /\ left[g] \in Seq(Msg)
         /\ In(queue) \subseteq Msg /\ In(pending) \subseteq Msg /\ Held \subseteq Msg /\ Mailed \subseteq Msg
         /\ \A g, h \in Live : owner[g] = owner[h] => g = h
<1>1. /\ queue \in Seq(Msg) /\ pending \in Seq(Msg)
      /\ \A g \in Tasks : box[g] \in Seq(Msg) /\ left[g] \in Seq(Msg)
      /\ \A g \in Tasks : cur[g] \in Msg \cup {NoMsg}
      /\ Live \subseteq Tasks
  BY DEF TypeOK, DispTypeOK, TaskTypeOK, Live
<1>2. In(queue) \subseteq Msg /\ In(pending) \subseteq Msg /\ Held \subseteq Msg
  BY <1>1, Contents DEF Held
<1>3. Mailed \subseteq Msg
  <2>1. \A g \in Live : In(box[g]) \subseteq Msg /\ In(left[g]) \subseteq Msg
    BY <1>1, Contents
  <2> QED
    BY <2>1 DEF Mailed
<1> QED
  BY <1>1, <1>2, <1>3 DEF InLine, Tables, OneTaskPerSession

\* The order of the places, once what is in each of them has not changed.
LEMMA Still ==
  ASSUME Ordered, Accounted, Held' = Held, Mailed' = Mailed,
         UNCHANGED <<queue, pending, begun, received, lost>>,
         \A g \in Live' : Rising(box'[g]) /\ Rising(left'[g])
  PROVE  Ordered' /\ Accounted'
<1>1. Turned' = Turned /\ Due' = Due
  BY DEF Turned, Due
<1> QED
  BY <1>1 DEF Ordered, Accounted

\* A step that leaves every task and every queue alone.
LEMMA LineBeside ==
  ASSUME TypeOK, Tables, InLine, pc # "err", UNCHANGED <<taskVars, queue, pending, received, lost, policy>>,
         \/ pc' = pc
         \/ pc \in Delivering /\ pc' \in Delivering
         \/ pc = "select" /\ pc' \in {"pass", "join"} /\ pending = <<>>
         \/ pc = "pass" /\ pc' = "select"
         \/ pc = "join" /\ pc' \in {"select", "ok"} /\ Live = {}
  PROVE  InLine'
<1>1. /\ Live' = Live /\ Held' = Held /\ Mailed' = Mailed /\ taskVars' = taskVars
      /\ UNCHANGED <<owner, phase, box, cur, left, fail, begun>>
  BY DEF Live, Held, Mailed, taskVars
<1>2. Ordered' /\ Accounted'
  <2>1. Ordered /\ Accounted
    BY Lines
  <2>2. \A g \in Live' : Rising(box'[g]) /\ Rising(left'[g])
    BY <1>1, <2>1 DEF Ordered
  <2>3. UNCHANGED <<queue, pending, begun, received, lost>>
    BY <1>1
  <2> QED
    BY <1>1, <2>1, <2>2, <2>3, Still
<1>3. Handing'
  <2>1. pending = <<>> => In(pending) = {}
    BY Lines, Contents
  <2>2. Handing
    BY Lines
  <2> QED
    BY <1>1, <2>1, <2>2 DEF Handing, Delivering
<1>4. Kept'
  <2>1. Kept
    BY Lines
  <2> QED
    BY <1>1, <2>1 DEF Kept, EndsTheRun
<1> QED
  BY <1>2, <1>3, <1>4 DEF InLine

\* A session's task moves, and no message does.
LEMMA LineTask ==
  ASSUME TypeOK, Tables, InLine, pc # "err", NEW g \in Live,
         UNCHANGED <<dispVars, owner, box, left, begun, policy>>,
         NEW p \in Phases \ {"none"}, phase' = [phase EXCEPT ![g] = p],
         NEW c \in Msg \cup {NoMsg}, cur' = [cur EXCEPT ![g] = c],
         (p \in {"held", "slot"} /\ c # NoMsg) <=> (phase[g] \in {"held", "slot"} /\ cur[g] # NoMsg),
         c # NoMsg => c = cur[g] /\ p \in {"held", "slot", "turn"},
         phase[g] # "stopped",
         p = "stopped" /\ box[g] # <<>> => EndsTheRun(fail'[g]),
         \A h \in Tasks \ {g} : fail'[h] = fail[h]
  PROVE  InLine'
<1>1. /\ Kept /\ Handing /\ Ordered /\ Accounted
  BY Lines
<1>2. /\ UNCHANGED <<pc, queue, pending, received, lost, owner, box, left, begun, policy>>
      /\ phase \in [Tasks -> Phases] /\ cur \in [Tasks -> Msg \cup {NoMsg}]
      /\ g \in Tasks
  BY DEF dispVars, TypeOK, TaskTypeOK, Live
<1>3. /\ Live' = Live /\ phase'[g] = p /\ cur'[g] = c
      /\ \A h \in Tasks \ {g} : phase'[h] = phase[h] /\ cur'[h] = cur[h]
  BY <1>2 DEF Live
<1>4. Held' = Held
  <2>1. \A h \in Live : /\ (phase'[h] \in {"held", "slot"} /\ cur'[h] # NoMsg)
                            <=> (phase[h] \in {"held", "slot"} /\ cur[h] # NoMsg)
                       /\ phase[h] \in {"held", "slot"} /\ cur[h] # NoMsg => cur'[h] = cur[h]
    BY <1>3 DEF Live
  <2> QED
    BY <1>3, <2>1 DEF Held
<1>5. Mailed' = Mailed
  BY <1>2, <1>3 DEF Mailed
<1>6. Ordered' /\ Accounted'
  <2>1. \A h \in Live' : Rising(box'[h]) /\ Rising(left'[h])
    BY <1>1, <1>2, <1>3 DEF Ordered
  <2> QED
    BY <1>1, <1>2, <1>4, <1>5, <2>1, Still
<1>7. Handing'
  BY <1>1, <1>2, <1>3 DEF Handing
<1>8. Kept'
  <2>1. \A h \in Tasks : cur'[h] # NoMsg => phase'[h] \in {"held", "slot", "turn"} /\ cur'[h].session = owner'[h]
    BY <1>1, <1>2, <1>3 DEF Kept
  <2>2. \A h \in Tasks : left'[h] # <<>> => phase'[h] = "stopped" /\ box'[h] = <<>>
    BY <1>1, <1>2, <1>3 DEF Kept
  <2>3. \A h \in Live' : \A m \in In(box'[h]) \cup In(left'[h]) : m.session = owner'[h]
    BY <1>1, <1>2, <1>3 DEF Kept
  <2>4. \A h \in Live' : phase'[h] = "stopped" /\ box'[h] # <<>> => EndsTheRun(fail[h])' 
    BY <1>1, <1>2, <1>3 DEF Kept, EndsTheRun, Live
  <2>5. \A m \in lost' : m.n <= received'[m.session]
    BY <1>1, <1>2 DEF Kept
  <2> QED
    BY <2>1, <2>2, <2>3, <2>4, <2>5 DEF Kept
<1> QED
  BY <1>6, <1>7, <1>8 DEF InLine

LEMMA LineTasks ==
  ASSUME TypeOK, Tables, InLine, NEW g \in Tasks,
         \/ StartSummary(g) \/ SummaryDone(g) \/ HeldSummaryDone(g) \/ TurnDone(g)
         \/ ReplySent(g) \/ StopWaiting(g) \/ \E f \in Failures : Fails(g, f)
  PROVE  InLine'
<1>1. /\ g \in Live /\ phase[g] # "stopped" /\ NoMsg \in Msg \cup {NoMsg} /\ NoMsg \notin Msg
      /\ cur[g] \in Msg \cup {NoMsg} /\ cur = [cur EXCEPT ![g] = cur[g]]
      /\ phase[g] \in {"slot", "turn"} => cur[g] \in Msg
  BY DispatcherAssumption DEF Live, TypeOK, TaskTypeOK, StartSummary, SummaryDone, HeldSummaryDone,
     TurnDone, ReplySent, StopWaiting, Fails, TaskStep, Msg
<1>2. pc # "err"
  BY <1>1 DEF Tables
<1>3. cur[g] # NoMsg => phase[g] \in {"held", "slot", "turn"}
  BY <1>2, Lines DEF Kept
<1>4. CASE StartSummary(g) \/ SummaryDone(g)
  <2>1. PICK p \in {"summing", "idle"} : phase' = [phase EXCEPT ![g] = p]
    BY <1>4 DEF StartSummary, SummaryDone, TaskStep
  <2>2. /\ UNCHANGED <<dispVars, owner, box, left, begun, policy>> /\ cur' = cur /\ fail' = fail
        /\ phase[g] \in {"due", "summing"}
    BY <1>4 DEF StartSummary, SummaryDone, TaskStep, slotVars
  <2>3. cur[g] = NoMsg /\ p \in Phases \ {"none"}
    BY <1>3, <2>2 DEF Phases
  <2> QED
    BY <1>1, <1>2, <2>1, <2>2, <2>3, LineTask
<1>5. CASE HeldSummaryDone(g)
  <2>1. PICK p \in {"stopping", "slot"} : /\ phase' = [phase EXCEPT ![g] = p]
                                          /\ p = "slot" <=> cur[g] # NoMsg
    BY <1>5 DEF HeldSummaryDone, TaskStep
  <2>2. /\ UNCHANGED <<dispVars, owner, box, left, begun, policy>> /\ cur' = cur /\ fail' = fail
        /\ phase[g] = "held"
    BY <1>5 DEF HeldSummaryDone, TaskStep, slotVars
  <2>3. p \in Phases \ {"none"}
    BY DEF Phases
  <2> QED
    BY <1>1, <1>2, <2>1, <2>2, <2>3, LineTask
<1>6. CASE TurnDone(g)
  <2>1. /\ phase' = [phase EXCEPT ![g] = "reply"] /\ phase[g] = "turn"
        /\ UNCHANGED <<dispVars, owner, box, left, begun, policy>> /\ fail' = fail
        /\ cur' = [cur EXCEPT ![g] = NoMsg]
    BY <1>6 DEF TurnDone, TaskStep
  <2>2. "reply" \in Phases \ {"none"}
    BY DEF Phases
  <2> QED
    BY <1>1, <1>2, <2>1, <2>2, LineTask
<1>7. CASE ReplySent(g)
  <2>1. /\ phase' = [phase EXCEPT ![g] = "due"] /\ phase[g] = "reply"
        /\ UNCHANGED <<dispVars, owner, box, left, begun, policy>> /\ cur' = cur /\ fail' = fail
    BY <1>7 DEF ReplySent, TaskStep, slotVars
  <2>2. cur[g] = NoMsg /\ "due" \in Phases \ {"none"}
    BY <1>3, <2>1 DEF Phases
  <2> QED
    BY <1>1, <1>2, <2>1, <2>2, LineTask
<1>8. CASE StopWaiting(g)
  <2>1. PICK p \in {"stopping", "held"} : phase' = [phase EXCEPT ![g] = p]
    BY <1>8 DEF StopWaiting
  <2>2. /\ UNCHANGED <<dispVars, owner, box, left, begun, policy>> /\ cur' = cur /\ fail' = fail
        /\ phase[g] \in {"idle", "due", "summing"}
    BY <1>8 DEF StopWaiting, slotVars
  <2>3. cur[g] = NoMsg /\ p \in Phases \ {"none"}
    BY <1>3, <2>2 DEF Phases
  <2> QED
    BY <1>1, <1>2, <2>1, <2>2, <2>3, LineTask
<1>9. ASSUME NEW f \in Failures, Fails(g, f)
      PROVE  InLine'
  <2>1. PICK p \in {"stopping", "stopped"} :
          /\ phase' = [phase EXCEPT ![g] = p]
          /\ p = "stopped" => f = "panic" /\ policy = "Fatal"
    BY <1>9 DEF Fails
  <2>2. /\ UNCHANGED <<dispVars, owner, box, left, begun, policy>>
        /\ cur' = [cur EXCEPT ![g] = NoMsg] /\ fail' = [fail EXCEPT ![g] = f]
        /\ phase[g] \in {"turn", "reply"} /\ fail \in [Tasks -> Failures]
    BY <1>9 DEF Fails, TypeOK, TaskTypeOK
  <2>3. /\ fail'[g] = f /\ (\A h \in Tasks \ {g} : fail'[h] = fail[h])
        /\ p \in Phases \ {"none"}
    BY <2>2 DEF Phases
  <2>4. p = "stopped" => EndsTheRun(fail'[g])
    BY <2>1, <2>3 DEF EndsTheRun
  <2> QED
    BY <1>1, <1>2, <2>1, <2>2, <2>3, <2>4, LineTask
<1> QED
  BY <1>4, <1>5, <1>6, <1>7, <1>8, <1>9

\* A summary that panics takes at most one message out of the line, the one its
\* task held, and that one is lost.
LEMMA LinePanics ==
  ASSUME TypeOK, Tables, InLine, NEW g \in Tasks, SummaryPanics(g)
  PROVE  InLine'
<1> DEFINE m == cur[g]
<1>1. /\ phase[g] \in {"summing", "held"} /\ cur' = [cur EXCEPT ![g] = NoMsg]
      /\ fail' = [fail EXCEPT ![g] = "panic"] /\ lost' = lost \cup ({m} \ {NoMsg})
      /\ UNCHANGED <<pc, closing, queue, pending, entry, received, owner, box, left, begun, policy>>
      /\ phase \in [Tasks -> Phases] /\ cur \in [Tasks -> Msg \cup {NoMsg}]
      /\ fail \in [Tasks -> Failures]
  BY DEF SummaryPanics, slotVars, TypeOK, TaskTypeOK
<1>2. PICK p \in {"stopping", "stopped"} :
        phase' = [phase EXCEPT ![g] = p] /\ (p = "stopped" => policy = "Fatal")
  BY DEF SummaryPanics
<1>3. /\ g \in Live /\ pc # "err" /\ p \in Phases \ {"none"} /\ NoMsg \notin Msg
      /\ Live \subseteq Tasks
  BY <1>1, <1>2, DispatcherAssumption DEF Live, Tables, Phases, Msg
<1>4. /\ fail'[g] = "panic" /\ (\A h \in Tasks \ {g} : fail'[h] = fail[h])
      /\ p = "stopped" => EndsTheRun(fail'[g])
  BY <1>1, <1>2 DEF EndsTheRun
<1>5. /\ Kept /\ Handing /\ Ordered /\ Accounted /\ Held \subseteq Msg /\ Mailed \subseteq Msg
      /\ In(queue) \subseteq Msg /\ In(pending) \subseteq Msg
      /\ \A h, k \in Live : owner[h] = owner[k] => h = k
  BY <1>3, Lines
<1>6. CASE m = NoMsg
  <2>1. UNCHANGED <<dispVars, owner, box, left, begun, policy>>
    BY <1>1, <1>6 DEF dispVars
  <2> QED
    BY <1>1, <1>2, <1>3, <1>4, <1>6, <2>1, LineTask
<1>7. CASE m # NoMsg
  <2>1. /\ m \in Msg /\ phase[g] = "held" /\ m.session = owner[g] /\ m \in Held
        /\ lost' = lost \cup {m}
    BY <1>1, <1>3, <1>5, <1>7 DEF Kept, Held
  <2>2. /\ Live' = Live /\ phase'[g] = p /\ cur'[g] = NoMsg
        /\ \A h \in Tasks \ {g} : phase'[h] = phase[h] /\ cur'[h] = cur[h]
    BY <1>1, <1>2, <1>3 DEF Live
  <2>3. Held = Held' \cup {m}
    BY <1>3, <2>1, <2>2 DEF Held
  <2>4. m \notin Held'
    <3>1. ASSUME NEW h \in Live, cur'[h] = m
          PROVE  h = g
      BY <1>3, <1>5, <1>7, <2>1, <2>2, <3>1 DEF Kept
    <3> QED
      BY <1>7, <2>2, <3>1 DEF Held
  <2>5. Turned' = Turned /\ Mailed' = Mailed
    BY <1>1, <2>2 DEF Turned, Mailed
  <2>6. m \notin Turned \cup Mailed \cup In(queue) \cup In(pending)
    BY <1>5, <2>1, Messages DEF Ordered, Below
  <2>7. Due' = Due \ {m}
    BY <1>1, <2>1 DEF Due
  <2>8. Accounted'
    <3>1. Turned \cup Held \cup Mailed \cup In(queue) \cup In(pending) = Due
      BY <1>5 DEF Accounted
    <3>2. Turned \cup Held' \cup Mailed \cup In(queue) \cup In(pending) = Due \ {m}
      BY <2>3, <2>4, <2>6, <3>1
    <3> QED
      BY <1>1, <2>5, <2>7, <3>2 DEF Accounted
  <2>9. Ordered'
    <3>1. /\ Below(Turned, Held' \cup Mailed \cup In(queue) \cup In(pending))
          /\ Below(Held', Mailed \cup In(queue) \cup In(pending))
      BY <1>5, <2>3 DEF Ordered, Below
    <3> QED
      BY <1>1, <1>5, <2>2, <2>5, <3>1 DEF Ordered
  <2>10. Handing'
    BY <1>1, <1>5, <2>2 DEF Handing
  <2>11. Kept'
    <3>1. m.n <= received[m.session]
      <4>1. m \in Due
        BY <1>5, <2>1 DEF Accounted
      <4> QED
        BY <4>1 DEF Due
    <3>2. \A k \in lost' : k.n <= received'[k.session]
      BY <1>1, <1>5, <2>1, <3>1 DEF Kept
    <3>3. \A h \in Tasks : cur'[h] # NoMsg => phase'[h] \in {"held", "slot", "turn"} /\ cur'[h].session = owner'[h]
      BY <1>1, <1>5, <2>2 DEF Kept
    <3>4. \A h \in Tasks : left'[h] # <<>> => phase'[h] = "stopped" /\ box'[h] = <<>>
      BY <1>1, <1>5, <2>1, <2>2 DEF Kept
    <3>5. \A h \in Live' : \A k \in In(box'[h]) \cup In(left'[h]) : k.session = owner'[h]
      BY <1>1, <1>5, <2>2 DEF Kept
    <3>6. \A h \in Live' : phase'[h] = "stopped" /\ box'[h] # <<>> => EndsTheRun(fail[h])'
      BY <1>1, <1>3, <1>4, <1>5, <2>2 DEF Kept, EndsTheRun
    <3> QED
      BY <3>2, <3>3, <3>4, <3>5, <3>6 DEF Kept
  <2> QED
    BY <2>8, <2>9, <2>10, <2>11 DEF InLine
<1> QED
  BY <1>6, <1>7

\* The task drains what its closed mailbox still had, into what it hands back.
LEMMA LineDrains ==
  ASSUME TypeOK, Tables, InLine, NEW g \in Tasks, CloseAndDrain(g)
  PROVE  InLine'
<1>1. /\ phase[g] = "stopping" /\ phase' = [phase EXCEPT ![g] = "stopped"]
      /\ left' = [left EXCEPT ![g] = box[g]] /\ box' = [box EXCEPT ![g] = <<>>]
      /\ UNCHANGED <<pc, queue, pending, received, lost, owner, cur, fail, begun, policy>>
      /\ phase \in [Tasks -> Phases] /\ box \in [Tasks -> Seq(Msg)] /\ left \in [Tasks -> Seq(Msg)]
  BY DEF CloseAndDrain, TaskStep, dispVars, slotVars, TypeOK, TaskTypeOK
<1>2. /\ Live' = Live /\ g \in Live /\ phase'[g] = "stopped" /\ box'[g] = <<>> /\ left'[g] = box[g]
      /\ \A h \in Tasks \ {g} : phase'[h] = phase[h] /\ box'[h] = box[h] /\ left'[h] = left[h]
  BY <1>1 DEF Live
<1>3. pc # "err"
  BY <1>2 DEF Tables
<1>4. /\ Kept /\ Handing /\ Ordered /\ Accounted
  BY <1>3, Lines
<1>5. cur[g] = NoMsg /\ left[g] = <<>>
  BY <1>1, <1>4 DEF Kept
<1>6. Held' = Held
  BY <1>1, <1>2, <1>5 DEF Held
<1>7. In(<<>>) = {} /\ Rising(<<>>)
  BY DEF In, Rising
<1>8. Mailed' = Mailed
  <2>1. \A h \in Live : In(box'[h]) \cup In(left'[h]) = In(box[h]) \cup In(left[h])
    BY <1>2, <1>5, <1>7 DEF Live
  <2> QED
    BY <1>2, <2>1 DEF Mailed
<1>9. Ordered' /\ Accounted'
  <2>1. \A h \in Live' : Rising(box'[h]) /\ Rising(left'[h])
    BY <1>2, <1>4, <1>7 DEF Ordered, Live
  <2> QED
    BY <1>1, <1>4, <1>6, <1>8, <2>1, Still
<1>10. Handing'
  BY <1>1, <1>2, <1>4 DEF Handing
<1>11. Kept'
  BY <1>1, <1>2, <1>4, <1>5, <1>7 DEF Kept, EndsTheRun, Live
<1> QED
  BY <1>9, <1>10, <1>11 DEF InLine

\* The task takes the first message of its mailbox.
LEMMA LineTakes ==
  ASSUME TypeOK, Tables, InLine, NEW g \in Tasks, TakeMessage(g) \/ HoldMessage(g)
  PROVE  InLine'
<1> DEFINE m == Head(box[g])
<1>1. /\ phase[g] \in {"idle", "due", "summing"} /\ box[g] # <<>>
      /\ phase' \in {[phase EXCEPT ![g] = "slot"], [phase EXCEPT ![g] = "held"]}
      /\ cur' = [cur EXCEPT ![g] = m] /\ box' = [box EXCEPT ![g] = Tail(box[g])]
      /\ UNCHANGED <<pc, queue, pending, received, lost, owner, left, fail, begun, policy>>
      /\ phase \in [Tasks -> Phases] /\ box \in [Tasks -> Seq(Msg)]
      /\ cur \in [Tasks -> Msg \cup {NoMsg}]
  BY DEF TakeMessage, HoldMessage, TaskStep, dispVars, slotVars, TypeOK, TaskTypeOK
<1>2. /\ Live' = Live /\ g \in Live /\ phase'[g] \in {"slot", "held"} /\ cur'[g] = m
      /\ box'[g] = Tail(box[g])
      /\ \A h \in Tasks \ {g} : phase'[h] = phase[h] /\ box'[h] = box[h] /\ cur'[h] = cur[h]
  BY <1>1 DEF Live
<1>3. pc # "err"
  BY <1>2 DEF Tables
<1>4. /\ Kept /\ Handing /\ Ordered /\ Accounted /\ Mailed \subseteq Msg /\ Held \subseteq Msg
      /\ \A h, k \in Live : owner[h] = owner[k] => h = k
  BY <1>3, Lines
<1>5. cur[g] = NoMsg /\ left[g] = <<>> /\ In(left[g]) = {} /\ m \in Msg /\ m # NoMsg
  <2>1. cur[g] = NoMsg /\ left[g] = <<>>
    BY <1>1, <1>4 DEF Kept
  <2>2. In(left[g]) = {}
    BY <2>1 DEF In
  <2>3. m \in Msg
    BY <1>1, Contents
  <2>4. m # NoMsg
    BY <2>3, DispatcherAssumption DEF Msg
  <2> QED
    BY <2>1, <2>2, <2>3, <2>4
<1>6. /\ In(box[g]) = {m} \cup In(box'[g]) /\ m.session = owner[g]
      /\ Rising(box'[g]) /\ Below({m}, In(box'[g]))
  <2>1. box[g] \in Seq(Msg) /\ box[g] # <<>> /\ Rising(box[g]) /\ box'[g] = Tail(box[g])
    BY <1>1, <1>2, <1>4 DEF Ordered
  <2>2. In(box[g]) = {m} \cup In(box'[g])
    BY <2>1, Contents
  <2>3. Rising(box'[g]) /\ Below({m}, In(box'[g]))
    BY <2>1, Orders
  <2>4. m.session = owner[g]
    BY <1>2, <1>4, <2>2 DEF Kept
  <2> QED
    BY <2>2, <2>3, <2>4
<1>7. Held' = Held \cup {m}
  BY <1>1, <1>2, <1>5 DEF Held, Live
<1>8. Mailed = Mailed' \cup {m}
  <2>1. \A h \in Live \ {g} : In(box'[h]) = In(box[h]) /\ left'[h] = left[h]
    BY <1>1, <1>2 DEF Live
  <2> QED
    BY <1>1, <1>2, <1>5, <1>6, <2>1 DEF Mailed
<1>9. Below({m}, Mailed')
  <2>1. ASSUME NEW k \in Mailed', k.session = m.session
        PROVE  m.n < k.n
    <3>1. PICK h \in Live : k \in In(box'[h]) \cup In(left[h])
      BY <1>1, <1>2 DEF Mailed
    <3>2. k \in In(box[h]) \cup In(left[h])
      BY <1>2, <1>6, <3>1 DEF Live
    <3>3. owner[h] = owner[g]
      BY <1>4, <1>6, <2>1, <3>2 DEF Kept
    <3>4. h = g
      BY <1>2, <1>4, <3>3
    <3> QED
      BY <1>5, <1>6, <2>1, <3>1, <3>4 DEF Below
  <2> QED
    BY <2>1 DEF Below
<1>10. Turned' = Turned /\ Due' = Due /\ m \in Mailed
  BY <1>1, <1>8 DEF Turned, Due
<1>11. /\ Below(Turned, Held' \cup Mailed' \cup In(queue) \cup In(pending))
       /\ Below(Held', Mailed' \cup In(queue) \cup In(pending))
       /\ Below(Mailed', In(queue) \cup In(pending))
  BY <1>4, <1>7, <1>8, <1>9, <1>10 DEF Ordered, Below
<1>12. Ordered'
  <2>1. \A h \in Live' : Rising(box'[h]) /\ Rising(left'[h])
    BY <1>1, <1>2, <1>4, <1>6 DEF Ordered, Live
  <2> QED
    BY <1>1, <1>4, <1>10, <1>11, <2>1 DEF Ordered
<1>13. Accounted'
  BY <1>1, <1>4, <1>7, <1>8, <1>10 DEF Accounted
<1>14. Handing'
  BY <1>1, <1>2, <1>4 DEF Handing
<1>15. Kept'
  BY <1>1, <1>2, <1>4, <1>5, <1>6 DEF Kept, EndsTheRun, Live
<1> QED
  BY <1>12, <1>13, <1>14, <1>15 DEF InLine

\* The turn begins on the message the task holds: every earlier one has had its
\* turn, and none of them is running.
LEMMA Beginning ==
  ASSUME TypeOK, Tables, InLine, NEW g \in Tasks, AcquireSlot(g)
  PROVE  /\ g \in Live /\ pc # "err" /\ cur[g] \in Msg /\ cur[g].session = owner[g] /\ cur[g] \in Held
         /\ \A i \in DOMAIN begun[owner[g]] : begun[owner[g]][i] < cur[g].n
         /\ cur[g].n \in 1..received[owner[g]]
<1>1. phase[g] = "slot" /\ g \in Live /\ cur[g] \in Msg /\ cur[g] # NoMsg
      /\ owner[g] \in Sessions /\ begun[owner[g]] \in Seq(Nat \ {0}) /\ received[owner[g]] \in Nat
  BY DispatcherAssumption DEF AcquireSlot, TaskStep, TypeOK, TaskTypeOK, DispTypeOK, Live, Msg
<1>2. pc # "err"
  BY <1>1 DEF Tables
<1>3. Kept /\ Ordered /\ Accounted
  BY <1>2, Lines
<1>4. cur[g].session = owner[g] /\ cur[g] \in Held /\ cur[g].n \in Nat \ {0}
  BY <1>1, <1>3 DEF Kept, Held, Msg
<1>5. cur[g].n <= received[owner[g]]
  BY <1>3, <1>4 DEF Accounted, Due
<1>6. ASSUME NEW i \in DOMAIN begun[owner[g]]
      PROVE  begun[owner[g]][i] < cur[g].n
  <2> DEFINE b == [session |-> owner[g], n |-> begun[owner[g]][i]]
  <2>1. b \in Msg /\ b \in Turned
    BY <1>1 DEF Msg, Turned
  <2> QED
    BY <1>3, <1>4, <2>1 DEF Ordered, Below
<1> QED
  BY <1>1, <1>2, <1>4, <1>5, <1>6

LEMMA LineBegins ==
  ASSUME TypeOK, Tables, InLine, NEW g \in Tasks, AcquireSlot(g)
  PROVE  InLine'
<1> DEFINE m == cur[g]
           s == owner[g]
<1>1. /\ phase[g] = "slot" /\ phase' = [phase EXCEPT ![g] = "turn"]
      /\ begun' = [begun EXCEPT ![s] = Append(begun[s], m.n)]
      /\ UNCHANGED <<pc, queue, pending, received, lost, owner, box, cur, left, fail, policy>>
      /\ phase \in [Tasks -> Phases] /\ begun \in [Sessions -> Seq(Nat \ {0})]
      /\ s \in Sessions /\ cur \in [Tasks -> Msg \cup {NoMsg}]
  BY DEF AcquireSlot, TaskStep, dispVars, TypeOK, TaskTypeOK
<1>2. /\ g \in Live /\ pc # "err" /\ m \in Msg /\ m.session = s /\ m \in Held
      /\ \A i \in DOMAIN begun[s] : begun[s][i] < m.n
  BY Beginning
<1>3. /\ Live' = Live /\ phase'[g] = "turn"
      /\ \A h \in Tasks \ {g} : phase'[h] = phase[h]
  BY <1>1 DEF Live
<1>4. /\ Kept /\ Handing /\ Ordered /\ Accounted /\ Held \subseteq Msg
      /\ \A h, k \in Live : owner[h] = owner[k] => h = k
  BY <1>2, Lines
<1>5. Held = Held' \cup {m}
  BY <1>1, <1>2, <1>3 DEF Held, Live
<1>6. Below({m}, Held')
  <2>1. ASSUME NEW k \in Held', k.session = m.session
        PROVE  FALSE
    <3>1. PICK h \in Live : k = cur[h] /\ cur[h] # NoMsg /\ phase'[h] # "turn"
      BY <1>1, <1>3 DEF Held
    <3>2. owner[h] = owner[g] /\ h # g
      BY <1>2, <1>3, <1>4, <2>1, <3>1 DEF Kept, Live
    <3> QED
      BY <1>2, <1>4, <3>2
  <2> QED
    BY <2>1 DEF Below
<1>7. /\ begun'[s] \in Seq(Nat \ {0}) /\ DOMAIN begun'[s] = 1..(Len(begun[s]) + 1)
      /\ DOMAIN begun[s] = 1..Len(begun[s]) /\ Len(begun[s]) \in Nat /\ m.n \in Nat
      /\ begun'[s][Len(begun[s]) + 1] = m.n /\ \A i \in 1..Len(begun[s]) : begun'[s][i] = begun[s][i]
      /\ \A r \in Sessions \ {s} : begun'[r] = begun[r]
  BY <1>1, <1>2 DEF Msg
<1>8. Turned' = Turned \cup {m}
  <2>1. ASSUME NEW k \in Msg
        PROVE  k \in Turned' <=> k \in Turned \/ k = m
    <3>1. CASE k.session # s
      BY <1>2, <1>7, <3>1, Messages DEF Turned
    <3>2. CASE k.session = s
      <4>1. k = m <=> k.n = m.n
        BY <1>2, <3>2 DEF Msg
      <4>2. (\E i \in DOMAIN begun'[s] : begun'[s][i] = k.n)
              <=> (\E i \in DOMAIN begun[s] : begun[s][i] = k.n) \/ k.n = m.n
        <5> DEFINE L == Len(begun[s])
        <5>1. /\ L \in Nat /\ DOMAIN begun'[s] = (1..L) \cup {L + 1} /\ DOMAIN begun[s] = 1..L
              /\ begun'[s][L + 1] = m.n /\ \A i \in 1..L : begun'[s][i] = begun[s][i]
          <6>1. L \in Nat /\ 1..(L + 1) = (1..L) \cup {L + 1}
            BY <1>7
          <6> QED
            BY <1>7, <6>1
        <5> HIDE DEF L
        <5> QED
          BY <5>1
      <4> QED
        BY <3>2, <4>1, <4>2 DEF Turned
    <3> QED
      BY <3>1, <3>2
  <2> QED
    BY <1>2, <2>1 DEF Turned
<1>9. \A r \in Sessions : \A i, j \in DOMAIN begun'[r] : i < j => begun'[r][i] < begun'[r][j]
  <2>1. \A i, j \in DOMAIN begun'[s] : i < j => begun'[s][i] < begun'[s][j]
    BY <1>1, <1>2, <1>4, <1>7 DEF Ordered
  <2> QED
    BY <1>4, <1>7, <2>1 DEF Ordered
<1>10. Mailed' = Mailed /\ Due' = Due
  BY <1>1, <1>3 DEF Mailed, Due
<1>11. /\ Below(Turned', Held' \cup Mailed \cup In(queue) \cup In(pending))
       /\ Below(Held', Mailed \cup In(queue) \cup In(pending))
  BY <1>4, <1>5, <1>6, <1>8 DEF Ordered, Below
<1>12. Ordered'
  BY <1>1, <1>3, <1>4, <1>9, <1>10, <1>11 DEF Ordered
<1>13. Accounted'
  BY <1>1, <1>4, <1>5, <1>8, <1>10 DEF Accounted
<1>14. Handing'
  BY <1>1, <1>3, <1>4 DEF Handing
<1>15. Kept'
  BY <1>1, <1>3, <1>4 DEF Kept, EndsTheRun, Live
<1> QED
  BY <1>12, <1>13, <1>14, <1>15 DEF InLine

\* The runs of one session's messages, as a queue grows and shrinks.
LEMMA Groups ==
  ASSUME NEW q \in Seq(Msg)
  PROVE  /\ Together(<<>>) /\ \A s : Leads(<<>>, s)
         /\ q # <<>> /\ Together(q) => Together(Tail(q)) /\ Leads(Tail(q), Head(q).session)
         /\ \A s : q # <<>> /\ Leads(q, s) =>
              Leads(Tail(q), s) /\ \A m \in In(q) : m.session = s => Head(q).session = s
         /\ \A s : \A r \in Seq(Msg) :
              (\A m \in In(r) : m.session = s) /\ (\A m \in In(q) : m.session # s) =>
                /\ Together(q) => Together(q \o r)
                /\ \A u : u # s /\ Leads(q, u) => Leads(q \o r, u)
<1>1. Together(<<>>) /\ \A s : Leads(<<>>, s)
  BY DEF Together, Leads
<1>2. ASSUME q # <<>>
      PROVE  /\ Len(q) \in Nat \ {0} /\ DOMAIN q = 1..Len(q) /\ DOMAIN Tail(q) = 1..(Len(q) - 1)
             /\ Head(q) = q[1] /\ \A i \in 1..(Len(q) - 1) : Tail(q)[i] = q[i + 1]
  BY <1>2
<1>3. ASSUME q # <<>>, Together(q)
      PROVE  Together(Tail(q)) /\ Leads(Tail(q), Head(q).session)
  <2>1. Together(Tail(q))
    BY <1>2, <1>3 DEF Together
  <2>2. ASSUME NEW i \in DOMAIN Tail(q), NEW j \in DOMAIN Tail(q), i <= j,
               Tail(q)[j].session = Head(q).session
        PROVE  Tail(q)[i].session = Head(q).session
    <3>1. CASE i = j
      BY <2>2, <3>1
    <3>2. CASE i < j
      <4>1. /\ 1 \in DOMAIN q /\ i + 1 \in DOMAIN q /\ j + 1 \in DOMAIN q /\ 1 < i + 1 /\ i + 1 < j + 1
            /\ q[1] = Head(q) /\ Tail(q)[i] = q[i + 1] /\ Tail(q)[j] = q[j + 1]
        BY <1>2, <1>3, <3>2
      <4> QED
        BY <1>3, <2>2, <4>1 DEF Together
    <3> QED
      BY <1>2, <1>3, <2>2, <3>1, <3>2
  <2> QED
    BY <2>1, <2>2 DEF Leads
<1>4. ASSUME NEW s, q # <<>>, Leads(q, s)
      PROVE  Leads(Tail(q), s) /\ \A m \in In(q) : m.session = s => Head(q).session = s
  <2>1. Leads(Tail(q), s)
    BY <1>2, <1>4 DEF Leads
  <2>2. ASSUME NEW i \in DOMAIN q, q[i].session = s
        PROVE  Head(q).session = s
    <3>1. 1 \in DOMAIN q /\ 1 <= i /\ Head(q) = q[1]
      BY <1>2, <1>4
    <3> QED
      BY <1>4, <2>2, <3>1 DEF Leads
  <2> QED
    BY <2>1, <2>2 DEF In
<1>5. ASSUME NEW s, NEW r \in Seq(Msg), \A m \in In(r) : m.session = s,
             \A m \in In(q) : m.session # s
      PROVE  /\ Together(q) => Together(q \o r)
             /\ \A u : u # s /\ Leads(q, u) => Leads(q \o r, u)
  <2>1. /\ DOMAIN q = 1..Len(q) /\ DOMAIN r = 1..Len(r) /\ DOMAIN (q \o r) = 1..(Len(q) + Len(r))
        /\ \A i \in 1..Len(q) : (q \o r)[i] = q[i]
        /\ \A i \in 1..Len(r) : (q \o r)[Len(q) + i] = r[i]
        /\ Len(q) \in Nat /\ Len(r) \in Nat
    OBVIOUS
  <2>2. \A i \in DOMAIN (q \o r) : /\ i <= Len(q) => (q \o r)[i] = q[i] /\ q[i].session # s
                                  /\ i > Len(q) => (q \o r)[i].session = s
    <3>1. ASSUME NEW i \in DOMAIN (q \o r), i <= Len(q)
          PROVE  (q \o r)[i] = q[i] /\ q[i].session # s
      BY <1>5, <2>1, <3>1 DEF In
    <3>2. ASSUME NEW i \in DOMAIN (q \o r), i > Len(q)
          PROVE  (q \o r)[i].session = s
      <4>1. i - Len(q) \in DOMAIN r /\ (q \o r)[Len(q) + (i - Len(q))] = r[i - Len(q)]
            /\ Len(q) + (i - Len(q)) = i
        BY <2>1, <3>2
      <4> QED
        BY <1>5, <4>1 DEF In
    <3> QED
      BY <3>1, <3>2
  <2>3. ASSUME Together(q), NEW i \in DOMAIN (q \o r), NEW j \in DOMAIN (q \o r),
               NEW k \in DOMAIN (q \o r), i < k, k < j, (q \o r)[i].session = (q \o r)[j].session
        PROVE  (q \o r)[k].session = (q \o r)[i].session
    <3>1. CASE j <= Len(q)
      <4>1. i \in DOMAIN q /\ j \in DOMAIN q /\ k \in DOMAIN q
        BY <2>1, <2>3, <3>1
      <4> QED
        BY <2>1, <2>3, <4>1 DEF Together
    <3>2. CASE j > Len(q)
      <4>1. i > Len(q)
        <5>1. (q \o r)[j].session = s
          BY <2>2, <3>2
        <5>2. ASSUME i <= Len(q)
              PROVE  FALSE
          <6>0. i \in DOMAIN q
            BY <2>1, <5>2
          <6>1. (q \o r)[i] = q[i] /\ q[i].session # s
            BY <1>5, <2>1, <6>0 DEF In
          <6>2. (q \o r)[i].session = (q \o r)[j].session
            BY <2>3
          <6> QED
            BY <5>1, <6>1, <6>2
        <5>3. i \in Nat /\ Len(q) \in Nat
          BY <2>1
        <5> QED
          BY <5>2, <5>3
      <4>2. k > Len(q)
        BY <2>1, <2>3, <4>1
      <4> QED
        BY <2>2, <4>1, <4>2
    <3> QED
      BY <2>1, <3>1, <3>2
  <2>4. ASSUME NEW u, u # s, Leads(q, u), NEW i \in DOMAIN (q \o r), NEW j \in DOMAIN (q \o r),
               i <= j, (q \o r)[j].session = u
        PROVE  (q \o r)[i].session = u
    <3>1. j <= Len(q)
      BY <2>1, <2>2, <2>4
    <3>2. i \in DOMAIN q /\ j \in DOMAIN q
      BY <2>1, <2>4, <3>1
    <3> QED
      BY <2>1, <2>4, <3>2 DEF Leads
  <2>5. Together(q) => Together(q \o r)
    BY <2>3 DEF Together
  <2>6. \A u : u # s /\ Leads(q, u) => Leads(q \o r, u)
    BY <2>4 DEF Leads
  <2> QED
    BY <2>5, <2>6
<1> QED
  BY <1>1, <1>3, <1>4, <1>5

\* A message read from the channel comes after every other of its session.
LEMMA LineReceives ==
  ASSUME TypeOK, Tables, InLine, NEW s \in Sessions, Receive(s)
  PROVE  InLine'
<1> DEFINE m == [session |-> s, n |-> received[s] + 1]
<1>1. /\ pc = "select" /\ pending = <<>> /\ pc' = "deliver" /\ queue' = <<m>>
      /\ received' = [received EXCEPT ![s] = received[s] + 1]
      /\ UNCHANGED <<pending, lost, owner, phase, box, cur, left, fail, begun, policy>>
      /\ received \in [Sessions -> Nat] /\ m \in Msg
  BY DEF Receive, taskVars, slotVars, TypeOK, DispTypeOK, Msg
<1>2. /\ Kept /\ Handing /\ Ordered /\ Accounted
  BY <1>1, Lines
<1>3. queue = <<>> /\ In(queue) = {} /\ In(pending) = {} /\ In(queue') = {m} /\ Rising(queue')
  <2>1. queue = <<>>
    BY <1>1, <1>2 DEF Handing, Delivering
  <2>2. <<>> \in Seq(Msg)
    OBVIOUS
  <2> QED
    BY <1>1, <2>1, <2>2, Contents, Orders
<1>4. /\ received'[s] = received[s] + 1 /\ received[s] \in Nat
      /\ \A r \in Sessions \ {s} : received'[r] = received[r]
  BY <1>1
<1>5. Live' = Live /\ Held' = Held /\ Mailed' = Mailed /\ Turned' = Turned
  BY <1>1 DEF Live, Held, Mailed, Turned
<1>6. m \notin lost
  <2>1. m.session = s /\ m.n = received[s] + 1
    OBVIOUS
  <2> QED
    BY <1>2, <1>4, <2>1 DEF Kept
<1>7. Due' = Due \cup {m}
  <2>1. ASSUME NEW k \in Msg
        PROVE  k \in Due' <=> k \in Due \/ k = m
    <3>1. CASE k.session # s
      BY <1>1, <1>4, <3>1, Messages DEF Due
    <3>2. CASE k.session = s
      <4>1. k = m <=> k.n = received[s] + 1
        BY <3>2 DEF Msg
      <4>2. k.n \in Nat
        BY DEF Msg
      <4> QED
        BY <1>1, <1>4, <1>6, <3>2, <4>1, <4>2 DEF Due
    <3> QED
      BY <3>1, <3>2
  <2> QED
    BY <1>1, <2>1 DEF Due
<1>8. Below(Due, {m})
  <2>1. ASSUME NEW k \in Due, k.session = s
        PROVE  k.n < received[s] + 1
    <3>1. k.n \in Nat /\ k.n <= received[s]
      BY <2>1 DEF Due, Msg
    <3> QED
      BY <1>4, <3>1
  <2> QED
    BY <2>1 DEF Below
<1>9. Turned \subseteq Due /\ Held \subseteq Due /\ Mailed \subseteq Due
  BY <1>2 DEF Accounted
<1>10. /\ Below(Turned, Held \cup Mailed \cup In(queue') \cup In(pending))
       /\ Below(Held, Mailed \cup In(queue') \cup In(pending))
       /\ Below(Mailed, In(queue') \cup In(pending))
       /\ Below(In(queue'), In(pending))
  BY <1>2, <1>3, <1>8, <1>9 DEF Ordered, Below
<1>11. Ordered'
  <2>1. \A g \in Live' : Rising(box'[g]) /\ Rising(left'[g])
    BY <1>1, <1>2, <1>5 DEF Ordered
  <2> QED
    BY <1>1, <1>2, <1>3, <1>5, <1>10, <2>1 DEF Ordered
<1>12. Accounted'
  BY <1>1, <1>2, <1>3, <1>5, <1>7 DEF Accounted
<1>13. Handing'
  <2>1. <<>> \in Seq(Msg)
    OBVIOUS
  <2>2. Together(pending) /\ \A r : Leads(pending, r)
    BY <1>1, <2>1, Groups
  <2>3. \A k, l \in In(queue') : k.session = l.session
    BY <1>3
  <2> QED
    BY <1>1, <1>3, <1>5, <2>2, <2>3 DEF Handing, Delivering
<1>14. Kept'
  <2>1. \A k \in lost : k.n <= received'[k.session]
    <3>1. ASSUME NEW k \in lost
          PROVE  k.n <= received'[k.session]
      <4>1. k \in Msg /\ k.n <= received[k.session]
        BY <1>2 DEF Kept, TypeOK, DispTypeOK
      <4> QED
        BY <1>4, <4>1, Messages
    <3> QED
      BY <3>1
  <2> QED
    BY <1>1, <1>2, <1>5, <2>1 DEF Kept, EndsTheRun
<1> QED
  BY <1>11, <1>12, <1>13, <1>14 DEF InLine

\* What was handed back is delivered, one message at a time.
LEMMA LineRedelivers ==
  ASSUME TypeOK, Tables, InLine, DeliverPending
  PROVE  InLine'
<1> DEFINE m == Head(pending)
<1>1. /\ pc = "select" /\ pending # <<>> /\ pc' = "deliver" /\ queue' = <<m>>
      /\ pending' = Tail(pending)
      /\ UNCHANGED <<received, lost, owner, phase, box, cur, left, fail, begun, policy>>
      /\ pending \in Seq(Msg)
  BY DEF DeliverPending, taskVars, slotVars, TypeOK, DispTypeOK
<1>2. /\ Kept /\ Handing /\ Ordered /\ Accounted
  BY <1>1, Lines
<1>3. queue = <<>> /\ In(queue) = {}
  BY <1>1, <1>2 DEF Handing, Delivering, In
<1>4. /\ m \in Msg /\ In(pending) = {m} \cup In(pending')
      /\ Rising(pending') /\ Below({m}, In(pending'))
  BY <1>1, <1>2, Contents, Orders DEF Ordered
<1>5. In(queue') = {m} /\ Rising(queue')
  <2>1. <<>> \in Seq(Msg)
    OBVIOUS
  <2> QED
    BY <1>1, <1>4, <2>1, Contents, Orders
<1>6. /\ Live' = Live /\ Held' = Held /\ Mailed' = Mailed /\ Turned' = Turned /\ Due' = Due
  BY <1>1 DEF Live, Held, Mailed, Turned, Due
<1>7. Ordered'
  <2>1. \A g \in Live' : Rising(box'[g]) /\ Rising(left'[g])
    BY <1>1, <1>2, <1>6 DEF Ordered
  <2>2. In(queue) \cup In(pending) = In(queue') \cup In(pending')
    BY <1>3, <1>4, <1>5
  <2>3. /\ Below(Turned, Held \cup Mailed \cup In(queue') \cup In(pending'))
        /\ Below(Held, Mailed \cup In(queue') \cup In(pending'))
        /\ Below(Mailed, In(queue') \cup In(pending'))
    BY <1>2, <2>2 DEF Ordered, Below
  <2> QED
    BY <1>1, <1>2, <1>4, <1>5, <1>6, <2>1, <2>3 DEF Ordered
<1>8. Accounted'
  BY <1>1, <1>2, <1>3, <1>4, <1>5, <1>6 DEF Accounted
<1>9. Head(queue') = m
  BY <1>1
<1>10. Together(pending') /\ Leads(pending', m.session)
  BY <1>1, <1>2, Groups DEF Handing
<1>11. ASSUME NEW g \in Live', NEW k \in In(pending'), k.session = owner[g]
       PROVE  m.session = owner[g] /\ Leads(pending', owner[g])
  <2>1. g \in Live /\ k \in In(pending)
    BY <1>4, <1>6
  <2>2. Leads(pending, owner[g])
    BY <1>2, <1>11, <2>1 DEF Handing
  <2> QED
    BY <1>1, <1>11, <2>1, <2>2, Groups
<1>12. Handing'
  BY <1>1, <1>5, <1>6, <1>9, <1>10, <1>11 DEF Handing, Delivering
<1>13. Kept'
  BY <1>1, <1>2, <1>6 DEF Kept, EndsTheRun
<1> QED
  BY <1>7, <1>8, <1>12, <1>13 DEF InLine

\* A fresh task has nothing yet.
LEMMA LineOpens ==
  ASSUME TypeOK, Tables, InLine, NEW g \in Tasks, OpenMailbox(g)
  PROVE  InLine'
<1> DEFINE s == Head(queue).session
<1>1. /\ pc = "deliver" /\ phase[g] = "none" /\ queue # <<>>
      /\ owner' = [owner EXCEPT ![g] = s] /\ phase' = [phase EXCEPT ![g] = "idle"]
      /\ box' = [box EXCEPT ![g] = <<>>]
      /\ UNCHANGED <<pc, queue, pending, received, lost, cur, left, fail, begun, policy>>
      /\ owner \in [Tasks -> Sessions] /\ phase \in [Tasks -> Phases] /\ box \in [Tasks -> Seq(Msg)]
      /\ Live \subseteq Tasks
  BY DEF OpenMailbox, slotVars, TypeOK, DispTypeOK, TaskTypeOK, Live
<1>2. /\ Kept /\ Handing /\ Ordered /\ Accounted
  BY <1>1, Lines
<1>3. /\ Live' = Live \cup {g} /\ g \notin Live /\ owner'[g] = s /\ phase'[g] = "idle" /\ box'[g] = <<>>
      /\ \A h \in Tasks \ {g} : owner'[h] = owner[h] /\ phase'[h] = phase[h] /\ box'[h] = box[h]
  BY <1>1 DEF Live
<1>4. cur[g] = NoMsg /\ left[g] = <<>>
  BY <1>1, <1>2 DEF Kept
<1>5. In(<<>>) = {} /\ Rising(<<>>)
  BY DEF In, Rising
<1>6. Held' = Held /\ Mailed' = Mailed
  <2>1. Held' = Held
    BY <1>1, <1>3, <1>4 DEF Held
  <2>2. In(box'[g]) \cup In(left'[g]) = {}
    BY <1>1, <1>3, <1>4, <1>5
  <2>3. Mailed' = Mailed
    BY <1>1, <1>3, <2>2 DEF Mailed
  <2> QED
    BY <2>1, <2>3
<1>7. Ordered' /\ Accounted'
  <2>1. \A h \in Live' : Rising(box'[h]) /\ Rising(left'[h])
    BY <1>1, <1>2, <1>3, <1>4, <1>5 DEF Ordered
  <2> QED
    BY <1>1, <1>2, <1>6, <2>1, Still
<1>8. ASSUME NEW h \in Live', NEW m \in In(pending), m.session = owner'[h]
      PROVE  Head(queue).session = owner'[h] /\ Leads(pending, owner'[h])
  <2>1. CASE h = g
    BY <1>1, <1>2, <1>3, <2>1 DEF Handing, Delivering
  <2>2. CASE h # g
    BY <1>1, <1>2, <1>3, <1>8, <2>2 DEF Handing
  <2> QED
    BY <2>1, <2>2
<1>9. Handing'
  BY <1>1, <1>2, <1>8 DEF Handing, Delivering
<1>10. Kept'
  BY <1>1, <1>2, <1>3, <1>4, <1>5 DEF Kept, EndsTheRun
<1> QED
  BY <1>7, <1>9, <1>10 DEF InLine

\* A message is pushed into a mailbox: behind everything there, or lost.
LEMMA LinePushes ==
  ASSUME TypeOK, Tables, InLine, Push
  PROVE  InLine'
<1> DEFINE m == Head(queue)
           g == entry[m.session]
<1>1. /\ pc = "push" /\ queue \in Seq(Msg) /\ queue # <<>> /\ queue' = Tail(queue)
      /\ pc' \in {"select", "deliver"} /\ (pc' = "select" => queue' = <<>>)
      /\ (pc' = "deliver" => queue' # <<>>)
      /\ UNCHANGED <<pending, received, owner, phase, cur, left, fail, begun, policy>>
      /\ box \in [Tasks -> Seq(Msg)] /\ Live \subseteq Tasks /\ lost \subseteq Msg
  BY DEF Push, AfterSend, slotVars, TypeOK, DispTypeOK, TaskTypeOK, Live
<1>2. /\ Kept /\ Handing /\ Ordered /\ Accounted
  BY <1>1, Lines
<1>3. /\ m \in Msg /\ m \in In(queue) /\ In(queue) = {m} \cup In(queue') /\ queue' \in Seq(Msg)
      /\ Rising(queue') /\ Below({m}, In(queue'))
  BY <1>1, <1>2, Contents, Orders DEF Ordered
<1>4. g \in Live /\ owner[g] = m.session
  BY <1>1, <1>3, Messages DEF Tables
<1>5. Live' = Live /\ Held' = Held /\ Turned' = Turned
  BY <1>1 DEF Live, Held, Turned
<1>6. Handing'
  <2>1. pc' = "deliver" => Head(queue').session = m.session
    <3>1. pc' = "deliver" => Head(queue') \in In(queue)
      BY <1>1, <1>3, Contents
    <3> QED
      BY <1>2, <1>3, <3>1 DEF Handing
  <2>2. \A k, l \in In(queue') : k.session = l.session
    BY <1>2, <1>3 DEF Handing
  <2> QED
    BY <1>1, <1>2, <1>5, <2>1, <2>2 DEF Handing, Delivering
<1>7. CASE phase[g] # "stopped"
  <2>1. /\ box' = [box EXCEPT ![g] = Append(box[g], m)] /\ lost' = lost
    BY <1>7 DEF Push
  <2>2. /\ box'[g] = Append(box[g], m) /\ \A h \in Tasks \ {g} : box'[h] = box[h]
    BY <1>1, <1>4, <2>1
  <2>3. left[g] = <<>> /\ In(box'[g]) = In(box[g]) \cup {m} /\ box[g] \in Seq(Msg)
    <3>1. left[g] = <<>>
      BY <1>1, <1>2, <1>4, <1>7 DEF Kept
    <3>2. box[g] \in Seq(Msg)
      BY <1>1, <1>4
    <3>3. In(Append(box[g], m)) = In(box[g]) \cup {m}
      <4>1. \A q \in Seq(Msg), k \in Msg : In(Append(q, k)) = In(q) \cup {k}
        BY Contents
      <4> QED
        BY <1>3, <3>2, <4>1
    <3> QED
      BY <2>2, <3>1, <3>2, <3>3
  <2>4. Mailed' = Mailed \cup {m}
    <3>1. \A h \in Live \ {g} : In(box'[h]) = In(box[h])
      BY <1>1, <2>2
    <3> QED
      BY <1>1, <1>3, <1>4, <1>5, <2>3, <3>1 DEF Mailed
  <2>5. In(box[g]) \subseteq Mailed
    <3>1. In(box[g]) \subseteq Msg
      BY <2>3, Contents
    <3> QED
      BY <1>4, <3>1 DEF Mailed
  <2>6. \A h \in Live' : Rising(box'[h]) /\ Rising(left'[h])
    <3>1. Below(In(box[g]), {m})
      BY <1>2, <1>3, <2>5 DEF Ordered, Below
    <3>2. Rising(box[g])
      BY <1>2, <1>4 DEF Ordered
    <3>3. Rising(box'[g])
      BY <1>3, <2>2, <2>3, <3>1, <3>2, Orders
    <3> QED
      BY <1>1, <1>2, <1>5, <2>2, <3>3 DEF Ordered
  <2>7. /\ Below(Turned, Held \cup Mailed' \cup In(queue') \cup In(pending))
        /\ Below(Held, Mailed' \cup In(queue') \cup In(pending))
        /\ Below(Mailed', In(queue') \cup In(pending))
        /\ Below(In(queue'), In(pending))
    BY <1>2, <1>3, <2>4 DEF Ordered, Below
  <2>8. Ordered'
    BY <1>1, <1>2, <1>3, <1>5, <2>6, <2>7 DEF Ordered
  <2>9. Due' = Due
    BY <1>1, <2>1 DEF Due
  <2>10. Accounted'
    BY <1>1, <1>2, <1>3, <1>5, <2>4, <2>9 DEF Accounted
  <2>11. Kept'
    <3>1. \A h \in Tasks : left'[h] # <<>> => phase'[h] = "stopped" /\ box'[h] = <<>>
      BY <1>1, <1>2, <2>2, <2>3 DEF Kept
    <3>2. \A h \in Live' : \A k \in In(box'[h]) \cup In(left'[h]) : k.session = owner'[h]
      BY <1>1, <1>2, <1>4, <1>5, <2>2, <2>3 DEF Kept
    <3>3. \A h \in Live' : phase'[h] = "stopped" /\ box'[h] # <<>> => EndsTheRun(fail[h])'
      BY <1>1, <1>2, <1>5, <1>7, <2>2 DEF Kept, EndsTheRun
    <3> QED
      BY <1>1, <1>2, <2>1, <3>1, <3>2, <3>3 DEF Kept
  <2> QED
    BY <1>6, <2>8, <2>10, <2>11 DEF InLine
<1>8. CASE phase[g] = "stopped"
  <2>1. box' = box /\ lost' = lost \cup {m}
    BY <1>8 DEF Push
  <2>2. Mailed' = Mailed
    BY <1>1, <1>5, <2>1 DEF Mailed
  <2>3. Ordered'
    <3>1. \A h \in Live' : Rising(box'[h]) /\ Rising(left'[h])
      BY <1>1, <1>2, <1>5, <2>1 DEF Ordered
    <3>2. /\ Below(Turned, Held \cup Mailed \cup In(queue') \cup In(pending))
          /\ Below(Held, Mailed \cup In(queue') \cup In(pending))
          /\ Below(Mailed, In(queue') \cup In(pending))
          /\ Below(In(queue'), In(pending))
      BY <1>2, <1>3 DEF Ordered, Below
    <3> QED
      BY <1>1, <1>2, <1>3, <1>5, <2>2, <3>1, <3>2 DEF Ordered
  <2>4. Due' = Due \ {m}
    BY <1>1, <2>1 DEF Due
  <2>5. m \notin Turned \cup Held \cup Mailed \cup In(queue') \cup In(pending)
    <3>1. ~(m.n < m.n)
      BY <1>3, Messages
    <3> QED
      BY <1>2, <1>3, <3>1 DEF Ordered, Below
  <2>6. Accounted'
    <3>1. Turned \cup Held \cup Mailed \cup In(queue) \cup In(pending) = Due
      BY <1>2 DEF Accounted
    <3>2. Turned \cup Held \cup Mailed \cup In(queue') \cup In(pending) = Due \ {m}
      BY <1>3, <2>5, <3>1
    <3> QED
      BY <1>1, <1>5, <2>2, <2>4, <3>2 DEF Accounted
  <2>7. m.n <= received[m.session]
    BY <1>2, <1>3 DEF Accounted, Due
  <2>8. Kept'
    BY <1>1, <1>2, <1>5, <2>1, <2>7 DEF Kept, EndsTheRun
  <2> QED
    BY <1>6, <2>3, <2>6, <2>8 DEF InLine
<1> QED
  BY <1>7, <1>8

\* What a stopped task leaves when it is forgotten: the messages it hands back,
\* the only ones of its session in a task, come after those in turns and before
\* those still to be delivered.
LEMMA HandedBack ==
  ASSUME TypeOK, Tables, InLine, pc # "err", NEW g \in Live, phase[g] = "stopped",
         ~EndsTheRun(fail[g]), Forget(g)
  PROVE  /\ Live' = Live \ {g} /\ Held' = Held /\ Turned' = Turned /\ Due' = Due
         /\ Mailed = Mailed' \cup In(left[g]) /\ Below(Mailed', In(left[g]))
         /\ left[g] \in Seq(Msg) /\ Rising(left[g])
         /\ \A m \in In(left[g]) : m.session = owner[g]
         /\ \A h \in Live' : h # g /\ owner'[h] = owner[h] /\ owner[h] # owner[g]
         /\ \A h \in Live' : Rising(box'[h]) /\ Rising(left'[h])
         /\ \A s \in Sessions : \A i, j \in DOMAIN begun'[s] : i < j => begun'[s][i] < begun'[s][j]
         /\ Kept'
<1>1. /\ phase' = [phase EXCEPT ![g] = "none"] /\ left' = [left EXCEPT ![g] = <<>>]
      /\ fail' = [fail EXCEPT ![g] = "none"] /\ cur' = [cur EXCEPT ![g] = NoMsg]
      /\ UNCHANGED <<received, lost, owner, box, begun, policy>>
      /\ phase \in [Tasks -> Phases] /\ left \in [Tasks -> Seq(Msg)] /\ box \in [Tasks -> Seq(Msg)]
      /\ fail \in [Tasks -> Failures] /\ cur \in [Tasks -> Msg \cup {NoMsg}]
      /\ g \in Tasks /\ Live \subseteq Tasks
  BY DEF Forget, slotVars, TypeOK, TaskTypeOK, Live
<1>2. /\ Kept /\ Ordered /\ Mailed \subseteq Msg
      /\ \A h, k \in Live : owner[h] = owner[k] => h = k
  BY Lines
<1>3. /\ Live' = Live \ {g} /\ phase'[g] = "none" /\ left'[g] = <<>> /\ cur'[g] = NoMsg
      /\ \A h \in Tasks \ {g} : /\ phase'[h] = phase[h] /\ left'[h] = left[h]
                                /\ fail'[h] = fail[h] /\ cur'[h] = cur[h]
  BY <1>1 DEF Live
<1>4. box[g] = <<>> /\ cur[g] = NoMsg
  BY <1>1, <1>2 DEF Kept
<1>5. Held' = Held
  <2> DEFINE Holders == {h \in Live : phase[h] \in {"held", "slot"} /\ cur[h] # NoMsg}
  <2>1. \A h \in Tasks : h \in Holders' <=> h \in Holders
    BY <1>1, <1>3, <1>4
  <2>2. Holders' = Holders /\ g \notin Holders /\ Holders \subseteq Tasks
    BY <1>1, <1>3, <1>4, <2>1
  <2>3. \A h \in Holders : cur'[h] = cur[h]
    BY <1>3, <2>2
  <2> HIDE DEF Holders
  <2>4. {cur'[h] : h \in Holders'} = {cur[h] : h \in Holders}
    BY <2>2, <2>3
  <2> QED
    BY <2>4 DEF Held, Holders
<1>6. Turned' = Turned /\ Due' = Due
  BY <1>1 DEF Turned, Due
<1>7. left[g] \in Seq(Msg) /\ Rising(left[g]) /\ \A m \in In(left[g]) : m.session = owner[g]
  BY <1>1, <1>2 DEF Kept, Ordered
<1>8. In(box[g]) = {} /\ In(left[g]) \subseteq Msg
  BY <1>4, <1>7, Contents DEF In
<1>9. Mailed = Mailed' \cup In(left[g])
  <2>1. \A h \in Live \ {g} : left'[h] = left[h] /\ box'[h] = box[h]
    BY <1>1, <1>3
  <2> QED
    BY <1>3, <1>8, <2>1 DEF Mailed
<1>10. \A h \in Live' : h # g /\ owner'[h] = owner[h] /\ owner[h] # owner[g]
  BY <1>1, <1>2, <1>3
<1>11. Below(Mailed', In(left[g]))
  <2>1. ASSUME NEW m \in Mailed', NEW k \in In(left[g]), m.session = k.session
        PROVE  FALSE
    <3>1. PICK h \in Live' : m \in In(box[h]) \cup In(left[h])
      BY <1>1, <1>3 DEF Mailed
    <3>2. m.session = owner[h] /\ k.session = owner[g]
      BY <1>2, <1>3, <1>7, <3>1 DEF Kept
    <3> QED
      BY <1>10, <2>1, <3>2
  <2> QED
    BY <2>1 DEF Below
<1>12. Rising(<<>>) /\ In(<<>>) = {}
  BY DEF Rising, In
<1>13. \A h \in Live' : Rising(box'[h]) /\ Rising(left'[h])
  BY <1>1, <1>2, <1>3 DEF Ordered
<1>14. Kept'
  BY <1>1, <1>2, <1>3 DEF Kept, EndsTheRun
<1>15. \A s \in Sessions : \A i, j \in DOMAIN begun'[s] : i < j => begun'[s][i] < begun'[s][j]
  BY <1>1, <1>2 DEF Ordered
<1> QED
  BY <1>3, <1>5, <1>6, <1>7, <1>9, <1>10, <1>11, <1>13, <1>14, <1>15

\* A task joined for itself: what it hands back waits behind what already does.
LEMMA LineReaps ==
  ASSUME TypeOK, Tables, InLine, NEW g \in Live, phase[g] = "stopped",
         ~EndsTheRun(fail[g]), Forget(g), UNCHANGED <<pc, queue>>,
         pending' = pending \o left[g],
         \/ pc = "select" /\ pending = <<>>
         \/ pc = "join"
         \/ pc = "reap" /\ owner[g] # Head(queue).session
  PROVE  InLine'
<1>1. pc # "err" /\ Live \subseteq Tasks
  BY DEF Live
<1>2. /\ Kept /\ Handing /\ Ordered /\ Accounted /\ queue \in Seq(Msg) /\ pending \in Seq(Msg)
  BY <1>1, Lines
<1>3. /\ Live' = Live \ {g} /\ Held' = Held /\ Turned' = Turned /\ Due' = Due
      /\ Mailed = Mailed' \cup In(left[g]) /\ Below(Mailed', In(left[g]))
      /\ left[g] \in Seq(Msg) /\ Rising(left[g])
      /\ \A m \in In(left[g]) : m.session = owner[g]
      /\ \A h \in Live' : h # g /\ owner'[h] = owner[h] /\ owner[h] # owner[g]
      /\ \A h \in Live' : Rising(box'[h]) /\ Rising(left'[h])
      /\ \A s \in Sessions : \A i, j \in DOMAIN begun'[s] : i < j => begun'[s][i] < begun'[s][j]
      /\ Kept'
  BY <1>1, HandedBack
<1>4. In(pending') = In(pending) \cup In(left[g])
  BY <1>2, <1>3, Contents
<1>5. \A m \in In(pending) : m.session # owner[g]
  <2>1. pending = <<>> => In(pending) = {}
    BY <1>2, Contents
  <2> QED
    BY <1>2, <2>1 DEF Handing, Delivering
<1>6. \A m \in In(queue) : m.session # owner[g]
  <2>1. pc = "reap" => queue # <<>>
    BY DEF TypeOK, DispTypeOK
  <2>2. queue # <<>> => Head(queue) \in In(queue)
    BY <1>2, Contents
  <2>3. queue = <<>> => In(queue) = {}
    BY <1>2, Contents
  <2> QED
    BY <1>2, <2>1, <2>2, <2>3 DEF Handing, Delivering
<1>7. Rising(pending')
  <2>1. Below(In(pending), In(left[g]))
    BY <1>3, <1>5 DEF Below
  <2> QED
    BY <1>2, <1>3, <2>1, Orders DEF Ordered
<1>8. /\ Below(Turned, Held \cup Mailed' \cup In(queue) \cup In(pending'))
      /\ Below(Held, Mailed' \cup In(queue) \cup In(pending'))
      /\ Below(Mailed', In(queue) \cup In(pending'))
  BY <1>2, <1>3, <1>4 DEF Ordered, Below
<1>9. Below(In(queue), In(pending'))
  BY <1>2, <1>3, <1>4, <1>6 DEF Ordered, Below
<1>10. Ordered'
  BY <1>2, <1>3, <1>7, <1>8, <1>9 DEF Ordered
<1>11. Accounted'
  <2>1. Turned \cup Held \cup Mailed \cup In(queue) \cup In(pending) = Due
    BY <1>2 DEF Accounted
  <2>2. Turned \cup Held \cup Mailed' \cup In(queue) \cup In(pending') = Due
    BY <1>3, <1>4, <2>1
  <2> QED
    BY <1>3, <2>2 DEF Accounted
<1>12. /\ Together(pending') /\ \A u : u # owner[g] /\ Leads(pending, u) => Leads(pending', u)
  BY <1>2, <1>3, <1>5, Groups DEF Handing
<1>13. ASSUME NEW h \in Live', NEW m \in In(pending'), m.session = owner[h]
       PROVE  /\ pc = "select" \/ (pc \in Delivering /\ Head(queue).session = owner[h])
              /\ Leads(pending', owner[h])
  <2>1. h \in Live /\ m \in In(pending) /\ owner[h] # owner[g]
    BY <1>3, <1>4, <1>13
  <2> QED
    BY <1>2, <1>12, <1>13, <2>1 DEF Handing
<1>14. Handing'
  <2>1. pc' \in Delivering => Leads(pending', Head(queue').session)
    <3>1. ASSUME pc \in Delivering
          PROVE  Leads(pending', Head(queue).session)
      BY <1>2, <1>12, <3>1 DEF Handing, Delivering
    <3> QED
      BY <3>1
  <2>2. /\ pc' \notin Delivering => queue' = <<>>
        /\ pc' = "pass" => pending' = <<>>
        /\ \A m, k \in In(queue') : m.session = k.session
    BY <1>2 DEF Handing
  <2> QED
    BY <1>3, <1>12, <1>13, <2>1, <2>2 DEF Handing
<1> QED
  BY <1>3, <1>10, <1>11, <1>14 DEF InLine

\* A task joined for the message it refused: what it hands back goes before it.
LEMMA LineReapsFor ==
  ASSUME TypeOK, Tables, InLine, NEW g \in Live, phase[g] = "stopped",
         ~EndsTheRun(fail[g]), Forget(g), pc = "reap", pc' = "deliver",
         owner[g] = Head(queue).session, queue' = left[g] \o queue, UNCHANGED pending
  PROVE  InLine'
<1>1. /\ Kept /\ Handing /\ Ordered /\ Accounted /\ queue \in Seq(Msg) /\ pending \in Seq(Msg)
      /\ queue # <<>>
  BY Lines DEF TypeOK, DispTypeOK
<1>2. /\ Live' = Live \ {g} /\ Held' = Held /\ Turned' = Turned /\ Due' = Due
      /\ Mailed = Mailed' \cup In(left[g]) /\ Below(Mailed', In(left[g]))
      /\ left[g] \in Seq(Msg) /\ Rising(left[g])
      /\ \A m \in In(left[g]) : m.session = owner[g]
      /\ \A h \in Live' : h # g /\ owner'[h] = owner[h] /\ owner[h] # owner[g]
      /\ \A h \in Live' : Rising(box'[h]) /\ Rising(left'[h])
      /\ \A s \in Sessions : \A i, j \in DOMAIN begun'[s] : i < j => begun'[s][i] < begun'[s][j]
      /\ Kept'
  BY HandedBack
<1>3. In(queue') = In(left[g]) \cup In(queue) /\ queue' \in Seq(Msg)
  BY <1>1, <1>2, Contents
<1>4. \A m \in In(queue') : m.session = owner[g]
  <2>1. Head(queue) \in In(queue)
    BY <1>1, Contents
  <2> QED
    BY <1>1, <1>2, <1>3, <2>1 DEF Handing
<1>5. Head(queue').session = owner[g]
  <2>1. queue' # <<>>
    BY <1>1, <1>2
  <2> QED
    BY <1>3, <1>4, <2>1, Contents
<1>6. Rising(queue')
  <2>1. Below(In(left[g]), In(queue))
    BY <1>1, <1>2 DEF Ordered, Below
  <2> QED
    BY <1>1, <1>2, <2>1, Orders DEF Ordered
<1>7. /\ Below(Turned, Held \cup Mailed' \cup In(queue') \cup In(pending))
      /\ Below(Held, Mailed' \cup In(queue') \cup In(pending))
      /\ Below(Mailed', In(queue') \cup In(pending))
      /\ Below(In(queue'), In(pending))
  BY <1>1, <1>2, <1>3 DEF Ordered, Below
<1>8. Ordered'
  BY <1>1, <1>2, <1>6, <1>7 DEF Ordered
<1>9. Accounted'
  <2>1. Turned \cup Held \cup Mailed \cup In(queue) \cup In(pending) = Due
    BY <1>1 DEF Accounted
  <2>2. Turned \cup Held \cup Mailed' \cup In(queue') \cup In(pending) = Due
    BY <1>2, <1>3, <2>1
  <2> QED
    BY <1>2, <2>2 DEF Accounted
<1>10. Handing'
  BY <1>1, <1>2, <1>4, <1>5 DEF Handing, Delivering
<1> QED
  BY <1>2, <1>8, <1>9, <1>10 DEF InLine

\* Every step keeps every message of the line in its place or moves it on.
LEMMA LineStep ==
  ASSUME TypeOK, Tables, InLine, [Next]_vars
  PROVE  InLine'
<1>1. CASE \E s \in Sessions : Receive(s)
  BY <1>1, LineReceives
<1>2. CASE DeliverPending
  BY <1>2, LineRedelivers
<1>3. CASE Push
  BY <1>3, LinePushes
<1>4. CASE Send \/ Refused
  <2>1. /\ pc \in Delivering /\ pc' \in Delivering
        /\ UNCHANGED <<taskVars, queue, pending, received, lost, policy>>
    BY <1>4 DEF Send, Refused, Delivering, slotVars
  <2>2. pc # "err"
    BY <2>1 DEF Delivering
  <2> QED
    BY <2>1, <2>2, LineBeside
<1>5. CASE PassBegins \/ ClearSessions
  <2>1. /\ pc = "select" /\ pc' \in {"pass", "join"} /\ pending = <<>>
        /\ UNCHANGED <<taskVars, queue, pending, received, lost, policy>>
    BY <1>5 DEF PassBegins, ClearSessions, slotVars
  <2> QED
    BY <2>1, LineBeside
<1>6. CASE PassEnds
  <2>1. /\ pc = "pass" /\ pc' = "select"
        /\ UNCHANGED <<taskVars, queue, pending, received, lost, policy>>
    BY <1>6 DEF PassEnds
  <2> QED
    BY <2>1, LineBeside
<1>7. CASE Joined
  <2>1. /\ pc = "join" /\ pc' \in {"select", "ok"} /\ Live = {}
        /\ UNCHANGED <<taskVars, queue, pending, received, lost, policy>>
    BY <1>7 DEF Joined, slotVars
  <2> QED
    BY <2>1, LineBeside
<1>8. CASE ChannelEnds
  <2>1. CASE pc' = "err"
    BY <2>1 DEF InLine
  <2>2. CASE pc' # "err"
    <3>1. /\ pc = "select" /\ pc' = pc
          /\ UNCHANGED <<taskVars, queue, pending, received, lost, policy>>
      BY <1>8, <2>2 DEF ChannelEnds, taskVars, slotVars
    <3> QED
      BY <3>1, LineBeside
  <2> QED
    BY <2>1, <2>2
<1>9. ASSUME NEW g \in Tasks, EndRun(g)
      PROVE  InLine'
  BY <1>9 DEF EndRun, InLine
<1>10. ASSUME NEW g \in Tasks, OpenMailbox(g)
       PROVE  InLine'
  BY <1>10, LineOpens
<1>11. ASSUME NEW g \in Tasks, ReapInSelect(g) \/ ReapInClose(g)
       PROVE  InLine'
  <2>1. /\ g \in Live /\ phase[g] = "stopped" /\ ~EndsTheRun(fail[g]) /\ Forget(g)
        /\ UNCHANGED <<pc, queue>> /\ pending' = pending \o left[g]
        /\ (pc = "select" /\ pending = <<>>) \/ pc = "join"
    BY <1>11 DEF ReapInSelect, ReapInClose, Live
  <2> QED
    BY <2>1, LineReaps
<1>12. ASSUME NEW g \in Tasks, ReapForSend(g)
       PROVE  InLine'
  <2>1. /\ g \in Live /\ phase[g] = "stopped" /\ ~EndsTheRun(fail[g]) /\ Forget(g) /\ pc = "reap"
    BY <1>12 DEF ReapForSend, Live
  <2>2. CASE owner[g] = Head(queue).session
    <3>1. queue' = left[g] \o queue /\ pc' = "deliver" /\ UNCHANGED pending
      BY <1>12, <2>2 DEF ReapForSend
    <3> QED
      BY <2>1, <2>2, <3>1, LineReapsFor
  <2>3. CASE owner[g] # Head(queue).session
    <3>1. pending' = pending \o left[g] /\ UNCHANGED <<pc, queue>>
      BY <1>12, <2>3 DEF ReapForSend
    <3> QED
      BY <2>1, <2>3, <3>1, LineReaps
  <2> QED
    BY <2>2, <2>3
<1>13. ASSUME NEW g \in Tasks,
              \/ StartSummary(g) \/ SummaryDone(g) \/ HeldSummaryDone(g) \/ TurnDone(g)
              \/ ReplySent(g) \/ StopWaiting(g) \/ \E f \in Failures : Fails(g, f)
       PROVE  InLine'
  BY <1>13, LineTasks
<1>14. ASSUME NEW g \in Tasks, CloseAndDrain(g)
       PROVE  InLine'
  BY <1>14, LineDrains
<1>15. ASSUME NEW g \in Tasks, TakeMessage(g) \/ HoldMessage(g)
       PROVE  InLine'
  BY <1>15, LineTakes
<1>16. ASSUME NEW g \in Tasks, AcquireSlot(g)
       PROVE  InLine'
  BY <1>16, LineBegins
<1>17. CASE UNCHANGED vars
  <2>1. pc' = pc /\ UNCHANGED <<taskVars, queue, pending, received, lost, policy>>
    BY <1>17 DEF vars, dispVars, taskVars, slotVars
  <2>2. CASE pc = "err"
    BY <2>1, <2>2 DEF InLine
  <2>3. CASE pc # "err"
    BY <2>1, <2>3, LineBeside
  <2> QED
    BY <2>2, <2>3
<1>18. ASSUME NEW g \in Tasks, SummaryPanics(g)
       PROVE  InLine'
  BY <1>18, LinePanics
<1> QED
  BY <1>1, <1>2, <1>3, <1>4, <1>5, <1>6, <1>7, <1>8, <1>9, <1>10, <1>11, <1>12,
     <1>13, <1>14, <1>15, <1>16, <1>17, <1>18
  DEF Next, DispatcherStep, TaskProgress, Ended

-----------------------------------------------------------------------------
LEMMA Inductive ==
  Spec => []IInv
<1>1. Init => IInv
  <2> SUFFICES ASSUME Init PROVE IInv
    OBVIOUS
  <2> USE DispatcherAssumption DEF Init
  <2>1. Live = {} /\ Running = {}
    BY DEF Live, Running
  <2>2. <<>> \in Seq(Msg) /\ <<>> \in Seq(Nat \ {0})
    OBVIOUS
  <2>3. DispTypeOK
    BY <2>2 DEF DispTypeOK
  <2>4. TaskTypeOK
    BY <2>2 DEF TaskTypeOK, Phases, Failures
  <2>5. SlotTypeOK
    BY DEF SlotTypeOK
  <2>6. Tables
    BY <2>1 DEF Tables, OneTaskPerSession, RefusalHasATask
  <2>7. Permits
    BY <2>1, FS_EmptySet DEF Permits, SlotsAccounted
  <2>8. InLine
    <3>1. In(<<>>) = {} /\ Rising(<<>>) /\ Together(<<>>)
      BY DEF In, Rising, Together
    <3>2. Held = {} /\ Mailed = {}
      BY <2>1 DEF Held, Mailed
    <3>3. Turned = {}
      BY Messages DEF Turned
    <3>4. Due = {}
      BY Messages DEF Due
    <3>5. Kept
      BY <2>1 DEF Kept
    <3>6. Handing
      BY <2>1, <3>1 DEF Handing, Delivering
    <3>7. Ordered
      BY <2>1, <3>1, <3>2, <3>3 DEF Ordered, Below
    <3>8. Accounted
      BY <3>1, <3>2, <3>3, <3>4 DEF Accounted
    <3> QED
      BY <3>5, <3>6, <3>7, <3>8 DEF InLine
  <2> QED
    BY <2>3, <2>4, <2>5, <2>6, <2>7, <2>8 DEF IInv, TypeOK
<1>2. IInv /\ [Next]_vars => IInv'
  BY DispTypeStep, TaskTypeStep, TablesStep, PermitStep, LineStep DEF IInv, TypeOK
<1> QED
  BY <1>1, <1>2, PTL DEF Spec

\* Every variable keeps its type, and the semaphore its bound.
THEOREM TypeCorrect == Spec => []TypeOK
  BY Inductive, PTL DEF IInv

\* "A turn for a session cannot start before that session's previous turn has
\* finished": whatever the number of sessions and tasks, a session never has two.
THEOREM SessionsAreSerial == Spec => []OneTaskPerSession
<1>1. IInv => OneTaskPerSession
  BY DEF IInv, Tables
<1> QED
  BY <1>1, Inductive, PTL

\* reap_session's "not reached in practice": a refused send finds its task.
THEOREM RefusalIsAnswered == Spec => []RefusalHasATask
<1>1. IInv => RefusalHasATask
  BY DEF IInv, Tables
<1> QED
  BY <1>1, Inductive, PTL

\* Whatever way a turn ends, its slot returns to the pool.
THEOREM SlotsNeverLeak == Spec => []SlotsAccounted
<1>1. IInv => SlotsAccounted
  BY DEF IInv, Permits
<1> QED
  BY <1>1, Inductive, PTL

\* The consolidator holds every slot: no turn runs beside it, none is missed.
THEOREM PassIsAlone == Spec => []PassRunsAlone
<1>1. IInv => PassRunsAlone
  BY DEF IInv, Permits, PassRunsAlone
<1> QED
  BY <1>1, Inductive, PTL

-----------------------------------------------------------------------------
(* The line of a session.                                                   *)

\* The part of a session's line that is with its task, and the part before it.
Claimed(g) == IF phase[g] \in {"held", "slot"} /\ cur[g] # NoMsg THEN <<cur[g]>> ELSE <<>>
Inside(s) ==
  LET TaskOf == {g \in Live : owner[g] = s} IN
  IF TaskOf = {} THEN <<>>
  ELSE LET g == CHOOSE h \in TaskOf : TRUE IN Claimed(g) \o box[g] \o left[g]
Before(s) == [i \in DOMAIN begun[s] |-> [session |-> s, n |-> begun[s][i]]]

\* The messages of session s in a set.
Ours(A, s) == {m \in A : m.session = s}

LEMMA InsideLine ==
  ASSUME TypeOK, Tables, InLine, pc # "err", NEW s \in Sessions
  PROVE  /\ Inside(s) \in Seq(Msg) /\ Rising(Inside(s))
         /\ In(Inside(s)) = Ours(Held \cup Mailed, s)
<1> DEFINE TaskOf == {g \in Live : owner[g] = s}
<1>1. /\ Kept /\ Ordered /\ Held \subseteq Msg /\ Mailed \subseteq Msg
      /\ \A g, h \in Live : owner[g] = owner[h] => g = h
      /\ Live \subseteq Tasks /\ \A g \in Tasks : cur[g] \in Msg \cup {NoMsg}
      /\ \A g \in Tasks : box[g] \in Seq(Msg) /\ left[g] \in Seq(Msg)
  BY Lines DEF Live, TypeOK, TaskTypeOK
<1>2. ASSUME NEW m \in Held \cup Mailed
      PROVE  \E g \in Live : /\ m.session = owner[g]
                            /\ \/ m = cur[g] /\ phase[g] \in {"held", "slot"} /\ cur[g] # NoMsg
                               \/ m \in In(box[g]) \cup In(left[g])
  <2>1. CASE m \in Held
    <3>1. PICK g \in Live : m = cur[g] /\ phase[g] \in {"held", "slot"} /\ cur[g] # NoMsg
      BY <2>1 DEF Held
    <3>2. m.session = owner[g]
      BY <1>1, <3>1 DEF Kept
    <3> QED
      BY <3>1, <3>2
  <2>2. CASE m \in Mailed
    BY <1>1, <2>2 DEF Mailed, Kept
  <2> QED
    BY <2>1, <2>2
<1>3. CASE TaskOf = {}
  <2>1. Inside(s) = <<>> /\ <<>> \in Seq(Msg)
    BY <1>3 DEF Inside
  <2>2. Rising(<<>>) /\ In(<<>>) = {}
    BY DEF Rising, In
  <2>3. Ours(Held \cup Mailed, s) = {}
    BY <1>2, <1>3 DEF Ours
  <2> QED
    BY <2>1, <2>2, <2>3
<1>4. CASE TaskOf # {}
  <2>1. PICK g \in Live : owner[g] = s
    BY <1>4
  <2>2. TaskOf = {g}
    BY <1>1, <2>1
  <2>3. Inside(s) = Claimed(g) \o box[g] \o left[g]
    BY <2>2 DEF Inside
  <2>4. /\ Claimed(g) \in Seq(Msg) /\ Rising(Claimed(g)) /\ In(Claimed(g)) \subseteq Held
        /\ \A m : m \in In(Claimed(g)) <=> m = cur[g] /\ phase[g] \in {"held", "slot"} /\ cur[g] # NoMsg
    <3>1. CASE phase[g] \in {"held", "slot"} /\ cur[g] # NoMsg
      <4>1. cur[g] \in Msg /\ cur[g] \in Held /\ Claimed(g) = <<cur[g]>>
        BY <1>1, <3>1 DEF Held, Claimed
      <4>2. <<cur[g]>> \in Seq(Msg) /\ In(<<cur[g]>>) = {cur[g]} /\ Rising(<<cur[g]>>)
        BY <4>1, Alone
      <4> QED
        BY <3>1, <4>1, <4>2
    <3>2. CASE ~(phase[g] \in {"held", "slot"} /\ cur[g] # NoMsg)
      <4>1. Claimed(g) = <<>> /\ <<>> \in Seq(Msg)
        BY <3>2 DEF Claimed
      <4>2. Rising(<<>>) /\ In(<<>>) = {}
        BY DEF Rising, In
      <4> QED
        BY <3>2, <4>1, <4>2
    <3> QED
      BY <3>1, <3>2
  <2>5. /\ box[g] \in Seq(Msg) /\ left[g] \in Seq(Msg) /\ Rising(box[g]) /\ Rising(left[g])
        /\ \A m \in In(box[g]) \cup In(left[g]) : m \in Mailed /\ m.session = s
    <3>1. box[g] \in Seq(Msg) /\ left[g] \in Seq(Msg) /\ Rising(box[g]) /\ Rising(left[g])
      BY <1>1, <2>1 DEF Ordered
    <3>2. In(box[g]) \subseteq Msg /\ In(left[g]) \subseteq Msg
      BY <3>1, Contents
    <3>3. \A m \in In(box[g]) \cup In(left[g]) : m \in Mailed /\ m.session = s
      BY <1>1, <2>1, <3>2 DEF Mailed, Kept
    <3> QED
      BY <3>1, <3>3
  <2>6. /\ Claimed(g) \o box[g] \in Seq(Msg) /\ In(Claimed(g) \o box[g]) = In(Claimed(g)) \cup In(box[g])
        /\ Rising(Claimed(g) \o box[g])
    <3>1. Below(In(Claimed(g)), In(box[g]))
      BY <1>1, <2>4, <2>5 DEF Ordered, Below
    <3> QED
      BY <2>4, <2>5, <3>1, Joining
  <2>7. /\ Inside(s) \in Seq(Msg) /\ In(Inside(s)) = In(Claimed(g)) \cup In(box[g]) \cup In(left[g])
        /\ Rising(Inside(s))
    <3>1. In(left[g]) # {} => In(box[g]) = {}
      <4>1. In(<<>>) = {}
        BY DEF In
      <4> QED
        BY <1>1, <2>1, <4>1 DEF Kept
    <3>2. Below(In(Claimed(g)) \cup In(box[g]), In(left[g]))
      BY <1>1, <2>4, <2>5, <3>1 DEF Ordered, Below
    <3> QED
      BY <2>3, <2>5, <2>6, <3>2, Joining
  <2>8. In(Inside(s)) = Ours(Held \cup Mailed, s)
    <3>1. ASSUME NEW m \in Held \cup Mailed, m.session = s
          PROVE  m \in In(Inside(s))
      <4>1. PICK h \in Live : /\ m.session = owner[h]
                              /\ \/ m = cur[h] /\ phase[h] \in {"held", "slot"} /\ cur[h] # NoMsg
                                 \/ m \in In(box[h]) \cup In(left[h])
        BY <1>2
      <4>2. h = g
        BY <1>1, <2>1, <3>1, <4>1
      <4> QED
        BY <2>4, <2>7, <4>1, <4>2
    <3>2. ASSUME NEW m \in In(Inside(s))
          PROVE  m \in Held \cup Mailed /\ m.session = s
      BY <1>1, <2>1, <2>4, <2>5, <2>7, <3>2 DEF Kept
    <3> QED
      BY <3>1, <3>2 DEF Ours
  <2> QED
    BY <2>7, <2>8
<1> QED
  BY <1>3, <1>4

LEMMA BeforeLine ==
  ASSUME TypeOK, Tables, InLine, pc # "err", NEW s \in Sessions
  PROVE  /\ Before(s) \in Seq(Msg) /\ Rising(Before(s)) /\ In(Before(s)) = Ours(Turned, s)
<1>1. begun[s] \in Seq(Nat \ {0}) /\ DOMAIN begun[s] = 1..Len(begun[s]) /\ Len(begun[s]) \in Nat
  BY DEF TypeOK, TaskTypeOK
<1>2. \A i \in DOMAIN begun[s] : begun[s][i] \in Nat \ {0}
  BY <1>1
<1>3. \A i \in DOMAIN begun[s] : [session |-> s, n |-> begun[s][i]] \in Msg
  BY <1>2 DEF Msg
<1>4. Before(s) \in Seq(Msg)
  BY <1>1, <1>3 DEF Before
<1>5. /\ DOMAIN Before(s) = DOMAIN begun[s]
      /\ \A i \in DOMAIN begun[s] : Before(s)[i].session = s /\ Before(s)[i].n = begun[s][i]
  BY DEF Before
<1>6. Rising(Before(s))
  <2>1. Ordered
    BY Lines
  <2> QED
    BY <1>5, <2>1 DEF Ordered, Rising
<1>7. In(Before(s)) = Ours(Turned, s)
  <2>1. ASSUME NEW m \in Turned, m.session = s
        PROVE  m \in In(Before(s))
    <3>1. PICK i \in DOMAIN begun[s] : begun[s][i] = m.n
      BY <2>1 DEF Turned
    <3>2. m = Before(s)[i]
      BY <2>1, <3>1 DEF Before, Turned, Msg
    <3> QED
      BY <1>5, <3>1, <3>2 DEF In
  <2>2. ASSUME NEW m \in In(Before(s))
        PROVE  m \in Turned /\ m.session = s
    <3>1. PICK i \in DOMAIN begun[s] : m = [session |-> s, n |-> begun[s][i]]
      BY <2>2 DEF In, Before
    <3> QED
      BY <1>3, <3>1 DEF Turned
  <2> QED
    BY <2>1, <2>2 DEF Ours
<1> QED
  BY <1>4, <1>6, <1>7

\* The line of a session: in order, and exactly the messages it is due.
LEMMA WholeLine ==
  ASSUME TypeOK, Tables, InLine, pc # "err", NEW s \in Sessions
  PROVE  Line(s) \in Seq(Msg) /\ Rising(Line(s)) /\ Ours(In(Line(s)), s) = Ours(Due, s)
<1>1. Line(s) = ((Before(s) \o Inside(s)) \o queue) \o pending
  BY DEF Line, Before, Inside, Claimed
<1>2. /\ Ordered /\ Accounted /\ queue \in Seq(Msg) /\ pending \in Seq(Msg)
  BY Lines
<1>3. /\ Before(s) \in Seq(Msg) /\ Rising(Before(s)) /\ In(Before(s)) = Ours(Turned, s)
      /\ Inside(s) \in Seq(Msg) /\ Rising(Inside(s)) /\ In(Inside(s)) = Ours(Held \cup Mailed, s)
  BY BeforeLine, InsideLine
<1> DEFINE B == Before(s)
           I == Inside(s)
<1>4. /\ B \o I \in Seq(Msg) /\ In(B \o I) = In(B) \cup In(I) /\ Rising(B \o I)
  <2>1. Below(In(B), In(I))
    BY <1>2, <1>3 DEF Ordered, Below, Ours
  <2> QED
    BY <1>3, <2>1, Joining
<1>5. /\ (B \o I) \o queue \in Seq(Msg) /\ In((B \o I) \o queue) = In(B) \cup In(I) \cup In(queue)
      /\ Rising((B \o I) \o queue)
  <2>1. Below(In(B \o I), In(queue))
    BY <1>2, <1>3, <1>4 DEF Ordered, Below, Ours
  <2>2. Rising(queue)
    BY <1>2 DEF Ordered
  <2> QED
    BY <1>2, <1>4, <2>1, <2>2, Joining
<1>6. /\ Line(s) \in Seq(Msg) /\ In(Line(s)) = In(B) \cup In(I) \cup In(queue) \cup In(pending)
      /\ Rising(Line(s))
  <2>1. Below(In((B \o I) \o queue), In(pending))
    BY <1>2, <1>3, <1>5 DEF Ordered, Below, Ours
  <2>2. Rising(pending)
    BY <1>2 DEF Ordered
  <2> QED
    BY <1>1, <1>2, <1>5, <2>1, <2>2, Joining
<1>7. Ours(In(Line(s)), s) = Ours(Due, s)
  BY <1>2, <1>3, <1>6 DEF Accounted, Ours
<1> QED
  BY <1>6, <1>7

\* "No message is lost to a failure": at every moment of the run, each message a
\* session has sent is in its line, in the order it came, but for those in `lost`:
\* pushed into a mailbox after its drain, or held when its session's summary panicked.
THEOREM NothingOutOfLine == Spec => []AllAccountedForInOrder
<1>1. IInv => AllAccountedForInOrder
  <2> SUFFICES ASSUME IInv, pc # "err", NEW s \in Sessions
               PROVE  /\ Rising(Line(s))
                      /\ {Line(s)[i] : i \in {j \in DOMAIN Line(s) : Line(s)[j].session = s}}
                           = {[session |-> s, n |-> n] : n \in 1..received[s]} \ lost
    BY DEF AllAccountedForInOrder
  <2>1. Line(s) \in Seq(Msg) /\ Rising(Line(s)) /\ Ours(In(Line(s)), s) = Ours(Due, s)
    BY WholeLine DEF IInv
  <2>2. {Line(s)[i] : i \in {j \in DOMAIN Line(s) : Line(s)[j].session = s}} = Ours(In(Line(s)), s)
    BY DEF Ours, In
  <2>3. Ours(Due, s) = {[session |-> s, n |-> n] : n \in 1..received[s]} \ lost
    <3>1. received[s] \in Nat
      BY DEF IInv, TypeOK, DispTypeOK
    <3>2. ASSUME NEW m \in Ours(Due, s)
          PROVE  m \in {[session |-> s, n |-> n] : n \in 1..received[s]} \ lost
      <4>1. /\ m \in Msg /\ m.session = s /\ m.n <= received[s] /\ m \notin lost
        BY <3>2 DEF Ours, Due
      <4>2. m = [session |-> s, n |-> m.n] /\ m.n \in Nat \ {0}
        BY <4>1 DEF Msg
      <4> QED
        BY <3>1, <4>1, <4>2
    <3>3. ASSUME NEW n \in 1..received[s], [session |-> s, n |-> n] \notin lost
          PROVE  [session |-> s, n |-> n] \in Ours(Due, s)
      BY <3>1, <3>3 DEF Ours, Due, Msg
    <3> QED
      BY <3>2, <3>3
  <2> QED
    BY <2>1, <2>2, <2>3
<1> QED
  BY <1>1, Inductive, PTL

-----------------------------------------------------------------------------
(* The dispatcher implements SessionTurns.                                  *)

\* The sessions with a turn in flight.
Busy == {owner[g] : g \in Running}

\* What the turns in flight are after a step that begins none and ends none.
LEMMA SameTurns ==
  ASSUME TypeOK, UNCHANGED <<received, begun>>,
         \A g \in Tasks : (phase'[g] = "turn" <=> phase[g] = "turn"),
         \A g \in Running : owner'[g] = owner[g]
  PROVE  UNCHANGED <<received, begun, Busy>>
<1>1. Running' = Running
  BY DEF Running
<1> QED
  BY <1>1 DEF Busy

\* A turn ends, and with it the one turn of its session.
LEMMA TurnEnds ==
  ASSUME TypeOK, Tables, NEW g \in Tasks, phase[g] = "turn", NEW p \in Phases \ {"turn"},
         phase' = [phase EXCEPT ![g] = p], UNCHANGED <<received, begun, owner>>
  PROVE  \E s \in Sessions : s \in Busy /\ Busy' = Busy \ {s} /\ UNCHANGED <<received, begun>>
<1>1. /\ Running \subseteq Live /\ g \in Running /\ Running' = Running \ {g}
      /\ owner[g] \in Sessions /\ owner' = owner
      /\ \A h, k \in Live : owner[h] = owner[k] => h = k
  BY DEF Running, Live, TypeOK, TaskTypeOK, Tables, OneTaskPerSession
<1>2. owner[g] \in Busy /\ Busy' = Busy \ {owner[g]}
  BY <1>1 DEF Busy
<1> QED
  BY <1>1, <1>2

\* Every step is a step of SessionTurns, or none.
LEMMA TurnsStep ==
  ASSUME TypeOK, Tables, InLine, [Next]_vars
  PROVE  \/ \E s \in Sessions : /\ received' = [received EXCEPT ![s] = received[s] + 1]
                                /\ UNCHANGED <<begun, Busy>>
         \/ \E s \in Sessions : /\ s \notin Busy /\ Busy' = Busy \cup {s} /\ UNCHANGED received
                                /\ \E n \in 1..received[s] :
                                     /\ \A i \in DOMAIN begun[s] : begun[s][i] < n
                                     /\ begun' = [begun EXCEPT ![s] = Append(begun[s], n)]
         \/ \E s \in Sessions : s \in Busy /\ Busy' = Busy \ {s} /\ UNCHANGED <<received, begun>>
         \/ Busy' = {} /\ UNCHANGED <<received, begun>>
         \/ UNCHANGED <<received, begun, Busy>>
<1>1. /\ phase \in [Tasks -> Phases] /\ owner \in [Tasks -> Sessions] /\ Running \subseteq Tasks
      /\ \A g \in Running : phase[g] = "turn"
  BY DEF TypeOK, TaskTypeOK, Running
<1>2. ASSUME NEW s \in Sessions, Receive(s)
      PROVE  received' = [received EXCEPT ![s] = received[s] + 1] /\ UNCHANGED <<begun, Busy>>
  BY <1>2 DEF Receive, taskVars, Busy, Running
<1>3. ASSUME NEW g \in Tasks, AcquireSlot(g)
      PROVE  /\ owner[g] \notin Busy /\ Busy' = Busy \cup {owner[g]} /\ UNCHANGED received
             /\ cur[g].n \in 1..received[owner[g]]
             /\ \A i \in DOMAIN begun[owner[g]] : begun[owner[g]][i] < cur[g].n
             /\ begun' = [begun EXCEPT ![owner[g]] = Append(begun[owner[g]], cur[g].n)]
  <2>1. /\ phase[g] = "slot" /\ phase' = [phase EXCEPT ![g] = "turn"] /\ owner' = owner
        /\ begun' = [begun EXCEPT ![owner[g]] = Append(begun[owner[g]], cur[g].n)] /\ UNCHANGED received
    BY <1>3 DEF AcquireSlot, TaskStep, dispVars
  <2>2. /\ Running' = Running \cup {g} /\ g \notin Running /\ g \in Live /\ Running \subseteq Live
    BY <1>1, <2>1 DEF Running, Live
  <2>3. owner[g] \notin Busy /\ Busy' = Busy \cup {owner[g]}
    BY <2>1, <2>2 DEF Busy, Tables, OneTaskPerSession
  <2> QED
    BY <1>3, <2>1, <2>3, Beginning
<1>4. ASSUME NEW g \in Tasks, TurnDone(g) \/ \E f \in Failures : Fails(g, f), phase[g] = "turn"
      PROVE  \E s \in Sessions : s \in Busy /\ Busy' = Busy \ {s} /\ UNCHANGED <<received, begun>>
  <2>1. \E p \in {"reply", "stopping", "stopped"} : phase' = [phase EXCEPT ![g] = p]
    BY <1>4 DEF TurnDone, TaskStep, Fails
  <2>2. UNCHANGED <<received, begun, owner>>
    BY <1>4 DEF TurnDone, Fails, dispVars
  <2>3. {"reply", "stopping", "stopped"} \subseteq Phases \ {"turn"}
    BY DEF Phases
  <2> QED
    BY <1>4, <2>1, <2>2, <2>3, TurnEnds
<1>5. ASSUME phase' = [h \in Tasks |-> "none"], UNCHANGED <<received, begun>>
      PROVE  Busy' = {} /\ UNCHANGED <<received, begun>>
  BY <1>5 DEF Busy, Running
<1>6. ASSUME NEW g \in Tasks, EndRun(g)
      PROVE  Busy' = {} /\ UNCHANGED <<received, begun>>
  BY <1>5, <1>6 DEF EndRun
<1>7. ASSUME ChannelEnds
      PROVE  \/ Busy' = {} /\ UNCHANGED <<received, begun>>
             \/ UNCHANGED <<received, begun, Busy>>
  <2>1. CASE pc' = "err" /\ phase' = [h \in Tasks |-> "none"]
    BY <1>5, <1>7, <2>1 DEF ChannelEnds
  <2>2. CASE UNCHANGED <<pc, phase>>
    BY <1>7, <2>2 DEF ChannelEnds, Busy, Running
  <2> QED
    BY <1>7, <2>1, <2>2 DEF ChannelEnds
<1>8. CASE \/ DeliverPending \/ Send \/ Push \/ Refused \/ PassBegins \/ PassEnds
           \/ ClearSessions \/ Joined \/ UNCHANGED vars
  <2>1. UNCHANGED <<received, begun, phase, owner>>
    BY <1>8 DEF DeliverPending, Send, Push, Refused, PassBegins, PassEnds, ClearSessions, Joined,
       vars, dispVars, taskVars
  <2> QED
    BY <1>1, <2>1, SameTurns
<1>9. ASSUME NEW g \in Tasks, OpenMailbox(g)
      PROVE  UNCHANGED <<received, begun, Busy>>
  <2>1. /\ phase[g] = "none" /\ phase' = [phase EXCEPT ![g] = "idle"]
        /\ owner' = [owner EXCEPT ![g] = Head(queue).session] /\ UNCHANGED <<received, begun>>
    BY <1>9 DEF OpenMailbox
  <2>2. \A h \in Tasks : phase'[h] = "turn" <=> phase[h] = "turn"
    BY <1>1, <2>1
  <2>3. \A h \in Running : owner'[h] = owner[h]
    BY <1>1, <2>1
  <2> QED
    BY <2>1, <2>2, <2>3, SameTurns
<1>10. ASSUME NEW g \in Tasks, NEW p \in Phases \ {"turn"}, phase[g] # "turn",
              phase' = [phase EXCEPT ![g] = p], UNCHANGED <<received, begun, owner>>
       PROVE  UNCHANGED <<received, begun, Busy>>
  <2>1. \A h \in Tasks : phase'[h] = "turn" <=> phase[h] = "turn"
    BY <1>1, <1>10
  <2> QED
    BY <1>1, <1>10, <2>1, SameTurns
<1>11. ASSUME NEW g \in Tasks, ReapInSelect(g) \/ ReapForSend(g) \/ ReapInClose(g)
       PROVE  UNCHANGED <<received, begun, Busy>>
  <2>1. /\ phase[g] = "stopped" /\ phase' = [phase EXCEPT ![g] = "none"]
        /\ UNCHANGED <<received, begun, owner>> /\ "none" \in Phases \ {"turn"}
    BY <1>11 DEF ReapInSelect, ReapForSend, ReapInClose, Forget, Phases
  <2> QED
    BY <1>10, <2>1
<1>12. ASSUME NEW g \in Tasks,
              \/ TakeMessage(g) \/ StartSummary(g) \/ SummaryDone(g) \/ HoldMessage(g)
              \/ HeldSummaryDone(g) \/ ReplySent(g) \/ CloseAndDrain(g) \/ StopWaiting(g)
              \/ SummaryPanics(g)
              \/ (\E f \in Failures : Fails(g, f)) /\ phase[g] # "turn"
       PROVE  UNCHANGED <<received, begun, Busy>>
  <2>1. \E p \in {"slot", "summing", "idle", "held", "stopping", "due", "stopped"} :
          phase' = [phase EXCEPT ![g] = p]
    BY <1>12 DEF TakeMessage, StartSummary, SummaryDone, HoldMessage, HeldSummaryDone, ReplySent,
       CloseAndDrain, StopWaiting, Fails, SummaryPanics, TaskStep
  <2>2. phase[g] # "turn" /\ UNCHANGED <<received, begun, owner>>
    BY <1>12 DEF TakeMessage, StartSummary, SummaryDone, HoldMessage, HeldSummaryDone, ReplySent,
       CloseAndDrain, StopWaiting, Fails, SummaryPanics, TaskStep, dispVars
  <2>3. {"slot", "summing", "idle", "held", "stopping", "due", "stopped"} \subseteq Phases \ {"turn"}
    BY DEF Phases
  <2> QED
    BY <1>10, <2>1, <2>2, <2>3
<1>13. ASSUME NEW g \in Tasks, TurnDone(g)
       PROVE  phase[g] = "turn"
  BY <1>13 DEF TurnDone, TaskStep
<1>14. CASE \E s \in Sessions : Receive(s)
  BY <1>2, <1>14
<1>15. CASE DispatcherStep
  BY <1>6, <1>8, <1>9, <1>11, <1>15 DEF DispatcherStep
<1>16. CASE PassBegins \/ ChannelEnds \/ Ended \/ UNCHANGED vars
  BY <1>7, <1>8, <1>16 DEF Ended
<1>17. ASSUME NEW g \in Tasks, AcquireSlot(g)
       PROVE  \E s \in Sessions : /\ s \notin Busy /\ Busy' = Busy \cup {s} /\ UNCHANGED received
                                /\ \E n \in 1..received[s] :
                                     /\ \A i \in DOMAIN begun[s] : begun[s][i] < n
                                     /\ begun' = [begun EXCEPT ![s] = Append(begun[s], n)]
  BY <1>1, <1>3, <1>17
<1>18. ASSUME NEW g \in Tasks,
              \/ TaskProgress(g) \/ StopWaiting(g) \/ SummaryPanics(g)
              \/ \E f \in Failures : Fails(g, f)
       PROVE  \/ \E s \in Sessions : s \in Busy /\ Busy' = Busy \ {s} /\ UNCHANGED <<received, begun>>
              \/ UNCHANGED <<received, begun, Busy>>
  <2>1. CASE TurnDone(g) \/ ((\E f \in Failures : Fails(g, f)) /\ phase[g] = "turn")
    BY <1>4, <1>13, <2>1
  <2>2. CASE ~(TurnDone(g) \/ ((\E f \in Failures : Fails(g, f)) /\ phase[g] = "turn"))
    BY <1>12, <1>18, <2>2 DEF TaskProgress
  <2> QED
    BY <2>1, <2>2
<1>19. CASE \E g \in Tasks : \/ TaskProgress(g) \/ StopWaiting(g) \/ AcquireSlot(g) \/ SummaryPanics(g)
                            \/ \E f \in Failures : Fails(g, f)
  BY <1>17, <1>18, <1>19
<1> QED
  BY <1>14, <1>15, <1>16, <1>19 DEF Next

\* The dispatcher implements SessionTurns: of every session one turn at a time,
\* each message at most once, in the order received, whatever the tasks, the
\* summaries, the refusals and the failures do.
THEOREM TurnsImplemented == Spec => ImplementsSessionTurns
<1>1. Init => Turns!Init
  <2>1. Init => Running = {}
    BY DEF Init, Running
  <2> QED
    BY <2>1 DEF Init, Turns!Init
<1>2. IInv /\ [Next]_vars => [Turns!Next]_(Turns!vars)
  <2> SUFFICES ASSUME IInv, [Next]_vars
               PROVE  Turns!Next \/ UNCHANGED <<received, begun, Busy>>
    BY DEF Turns!vars, Busy
  <2> QED
    BY TurnsStep DEF IInv, Turns!Next, Turns!Receive, Turns!Begin, Turns!End, Turns!Abort, Busy
<1> QED
  BY <1>1, <1>2, Inductive, PTL DEF Spec, ImplementsSessionTurns, Turns!Spec
=============================================================================
