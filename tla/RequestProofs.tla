---------------------------- MODULE RequestProofs ----------------------------
(***************************************************************************)
(* The types of RequestLimits, the pace of its requests, the permits of    *)
(* its turns and how far an engine goes past its ceiling, for any tenants, *)
(* sessions, accounts, settings and limits.                                *)
(*                                                                         *)
(* A step knows when the last request went, not what a sleeper was told of *)
(* it.  So the first invariant says that who sleeps and has not been       *)
(* overtaken has as much left as the interval has.  The ceiling is looked  *)
(* at when a turn begins and passed by calls made later.  So the second    *)
(* counts the calls the turns in progress may still end with what is spent.*)
(***************************************************************************)
EXTENDS RequestLimits, FiniteSetTheorems, TLAPS

\* Whoever has slept alone knows when the last request went.
Alone == \A c \in Callers : (call[c].is = "sleep" /\ c \notin overtaken)
                              => call[c].left = Interval - since[AccountOf(c)]

Inv == TypeOK /\ Alone

(* Every caller has a tenant and an account.                               *)
LEMMA Belong ==
  ASSUME setting \in Settings
  PROVE /\ \A s \in Sessions : Owner[s] \in Tenants
        /\ \A c \in Callers : TenantOf(c) \in Tenants /\ AccountOf(c) \in Accounts
  <1>1. \A s \in Sessions : Owner[s] \in Tenants
    BY LimitsAssumption DEF Setting, Owner
  <1>2. \A c \in Callers : TenantOf(c) \in Tenants
    BY <1>1 DEF Callers, TenantOf
  <1> QED
    BY <1>1, <1>2, TenantsAssumption DEF AccountOf

(* An attempt begins with what is left of the interval: nobody has gone    *)
(* since, and the others' requests stay as they are.                       *)
LEMMA Waiting ==
  ASSUME Inv, NEW c \in Callers, NEW n \in Nat, Waits(c, n), UNCHANGED <<since, setting>>
  PROVE /\ call' \in [Callers -> Requests] /\ overtaken' \subseteq Callers
        /\ Alone'
  <1>1. AccountOf(c) \in Accounts
    BY Belong DEF Inv, TypeOK
  <1>2. Interval - since[AccountOf(c)] \in 0 .. Interval
    BY <1>1, LimitsAssumption DEF Inv, TypeOK
  <1>3. [is |-> "sleep", tries |-> n, left |-> Interval - since[AccountOf(c)]] \in Requests
    BY <1>2 DEF Requests
  <1>4. call' \in [Callers -> Requests] /\ overtaken' \subseteq Callers
    BY <1>3 DEF Waits, Inv, TypeOK
  <1>5. \A d \in Callers : AccountOf(d)' = AccountOf(d)
    BY DEF AccountOf, TenantOf, Owner
  <1>6. ASSUME NEW d \in Callers, call'[d].is = "sleep", d \notin overtaken'
        PROVE call'[d].left = Interval - since'[AccountOf(d)]
    <2>1. CASE d = c
      BY <2>1 DEF Waits, Inv, TypeOK
    <2>2. CASE d # c
      BY <1>6, <2>2 DEF Waits, Inv, TypeOK, Alone
    <2> QED
      BY <2>1, <2>2
  <1> QED
    BY <1>4, <1>5, <1>6 DEF Alone

(* A call that changes to something other than sleep disturbs nobody.      *)
LEMMA NotAsleep ==
  ASSUME Inv, NEW c \in Callers, NEW r \in Requests, r.is # "sleep",
         call' = [call EXCEPT ![c] = r], overtaken \ {c} \subseteq overtaken',
         overtaken' \subseteq Callers, UNCHANGED <<since, setting>>
  PROVE call' \in [Callers -> Requests] /\ Alone'
  <1>1. call' \in [Callers -> Requests]
    BY DEF Inv, TypeOK
  <1>2. \A d \in Callers : AccountOf(d)' = AccountOf(d)
    BY DEF AccountOf, TenantOf, Owner
  <1>3. ASSUME NEW d \in Callers, call'[d].is = "sleep", d \notin overtaken'
        PROVE call'[d].left = Interval - since'[AccountOf(d)]
    <2>1. d # c
      BY <1>3 DEF Inv, TypeOK
    <2> QED
      BY <1>3, <2>1 DEF Inv, TypeOK, Alone
  <1> QED
    BY <1>1, <1>2, <1>3 DEF Alone

(* No request begins or ends, and no time passes: all sleep as before.     *)
LEMMA Asleep ==
  ASSUME Inv, UNCHANGED <<call, since, overtaken, setting>>
  PROVE Alone'
  BY DEF Inv, Alone, AccountOf, TenantOf, Owner

(* No call is a request that does not sleep.                               *)
LEMMA NoCallIsOne == NoCall \in Requests /\ NoCall.is # "sleep"
  BY LimitsAssumption DEF NoCall, Requests

(* Going somewhere is going to a place there is.                           *)
LEMMA Going ==
  ASSUME TypeOK, NEW c \in Callers, NEW where \in Places, Goes(c, where)
  PROVE at' \in [Callers -> Places]
  BY DEF TypeOK, Goes, Places

(* Nobody calls at first.                                                  *)
LEMMA InitInv == Init => Inv
  <1> SUFFICES ASSUME Init PROVE Inv
    OBVIOUS
  <1>1. TypeOK
    <2>1. 0 \in 0 .. MaxCalls /\ Interval \in 0 .. Interval
      BY LimitsAssumption
    <2>2. at \in [Callers -> Places]
      BY DEF Init, Places
    <2> QED
      BY <2>1, <2>2, NoCallIsOne DEF Init, TypeOK
  <1>2. Alone
    BY NoCallIsOne DEF Init, Alone
  <1> QED
    BY <1>1, <1>2 DEF Inv

(* Time takes from what is left to wait what it adds to what has passed.   *)
LEMMA TickInv == Inv /\ Tick => Inv'
  <1> SUFFICES ASSUME Inv, Tick PROVE Inv'
    OBVIOUS
  <1> USE LimitsAssumption
  <1>1. since' \in [Accounts -> 0 .. Interval]
    BY DEF Inv, TypeOK, Tick
  <1>2. ASSUME NEW c \in Callers
        PROVE call'[c] \in Requests /\ call'[c].is = call[c].is
              /\ call'[c].left = IF call[c].left > 0 THEN call[c].left - 1 ELSE call[c].left
    <2>1. call[c] \in Requests
      BY DEF Inv, TypeOK
    <2>2. CASE call[c].left > 0
      <3>1. call'[c] = [call[c] EXCEPT !.left = @ - 1]
        BY <2>2 DEF Tick
      <3> QED
        BY <2>1, <2>2, <3>1 DEF Requests
    <2>3. CASE ~ (call[c].left > 0)
      BY <2>1, <2>3 DEF Tick
    <2> QED
      BY <2>2, <2>3
  <1>3. call' \in [Callers -> Requests]
    BY <1>2 DEF Tick
  <1>4. TypeOK'
    BY <1>1, <1>3 DEF Inv, TypeOK, Tick, limits
  <1>5. ASSUME NEW c \in Callers, call'[c].is = "sleep", c \notin overtaken'
        PROVE call'[c].left = Interval - since'[AccountOf(c)']
    <2>1. AccountOf(c)' = AccountOf(c) /\ AccountOf(c) \in Accounts
      BY Belong DEF Inv, TypeOK, Tick, limits, AccountOf, TenantOf, Owner
    <2>2. call[c].left = Interval - since[AccountOf(c)]
      BY <1>2, <1>5 DEF Inv, Alone, Tick
    <2>3. since[AccountOf(c)] \in 0 .. Interval
      BY <2>1 DEF Inv, TypeOK
    <2>4. since'[AccountOf(c)] = IF since[AccountOf(c)] < Interval
                                 THEN since[AccountOf(c)] + 1 ELSE Interval
      BY <2>1 DEF Tick
    <2> QED
      BY <1>2, <2>1, <2>2, <2>3, <2>4
  <1>6. Alone'
    BY <1>5 DEF Alone
  <1> QED
    BY <1>4, <1>6 DEF Inv

(* What a post changes for the others, it has overtaken them in.           *)
LEMMA PostInv == ASSUME NEW c \in Callers PROVE Inv /\ Post(c) => Inv'
  <1> SUFFICES ASSUME Inv, Post(c) PROVE Inv'
    OBVIOUS
  <1> USE LimitsAssumption
  <1>1. call' \in [Callers -> Requests]
    BY DEF Inv, TypeOK, Post, Requests
  <1>2. since' \in [Accounts -> 0 .. Interval]
    <2>1. 0 \in 0 .. Interval
      OBVIOUS
    <2> QED
      BY <2>1 DEF Inv, TypeOK, Post
  <1>3. overtaken' \subseteq Callers
    BY DEF Inv, TypeOK, Post, Sleepers
  <1>4. TypeOK'
    BY <1>1, <1>2, <1>3 DEF Inv, TypeOK, Post, limits
  <1>5. ASSUME NEW d \in Callers, call'[d].is = "sleep", d \notin overtaken'
        PROVE call'[d].left = Interval - since'[AccountOf(d)']
    <2>1. d # c
      BY <1>5 DEF Inv, TypeOK, Post, Requests
    <2>2. call'[d] = call[d] /\ AccountOf(d) # AccountOf(c) /\ d \notin overtaken
      BY <1>5, <2>1 DEF Inv, TypeOK, Post, Sleepers
    <2>3. AccountOf(d)' = AccountOf(d)
      BY DEF Post, limits, AccountOf, TenantOf, Owner
    <2>4. since'[AccountOf(d)] = since[AccountOf(d)]
      BY <2>2, Belong DEF Inv, TypeOK, Post
    <2> QED
      BY <1>5, <2>2, <2>3, <2>4 DEF Inv, Alone
  <1> QED
    BY <1>4, <1>5 DEF Inv, Alone

(* A call that ends leaves its caller somewhere, and the sleepers alone.   *)
LEMMA EndsInv ==
  ASSUME Inv, NEW c \in Callers, Ends(c), UNCHANGED <<throttle, setting>>
  PROVE /\ at' \in [Callers -> Places] /\ call' \in [Callers -> Requests]
        /\ Alone'
  <1>1. PICK where \in Places : Goes(c, where)
    BY DEF Ends, Inv, TypeOK, Places
  <1>2. call' = [call EXCEPT ![c] = NoCall] /\ overtaken' = overtaken /\ since' = since
    BY DEF Ends, throttle
  <1>3. overtaken' \subseteq Callers /\ overtaken \ {c} \subseteq overtaken'
    BY <1>2 DEF Inv, TypeOK
  <1> QED
    BY <1>1, <1>2, <1>3, Going, NotAsleep, NoCallIsOne DEF Inv

(* The steps of a request.                                                 *)
LEMMA RequestInv == ASSUME NEW c \in Callers PROVE Inv /\ Request(c) => Inv'
  <1> SUFFICES ASSUME Inv, Request(c) PROVE Inv'
    OBVIOUS
  <1>1. CASE Post(c)
    BY <1>1, PostInv
  <1>2. CASE Succeed(c)
    <2>1. /\ at' \in [Callers -> Places] /\ call' \in [Callers -> Requests]
          /\ Alone'
      BY <1>2, EndsInv DEF Succeed, throttle
    <2>2. spent' \in [Tenants -> Nat] /\ sums' \in [Tenants -> Nat]
      <3>1. CASE c \in Sessions /\ cap # NoCap
        <4>1. Owner[c] \in Tenants
          BY <3>1, Belong DEF Inv, TypeOK
        <4>2. spent[Owner[c]] + 1 \in Nat /\ sums[Owner[c]] + 1 \in Nat /\ sums[Owner[c]] \in Nat
          BY <4>1 DEF Inv, TypeOK
        <4> QED
          BY <1>2, <3>1, <4>2 DEF Inv, TypeOK, Succeed, Booked
      <3>2. CASE ~ (c \in Sessions /\ cap # NoCap)
        BY <1>2, <3>2 DEF Inv, TypeOK, Succeed
      <3> QED
        BY <3>1, <3>2
    <2> QED
      BY <1>2, <2>1, <2>2 DEF Inv, TypeOK, Succeed, throttle, Places
  <1>3. CASE GiveUp(c)
    <2>1. /\ at' \in [Callers -> Places] /\ call' \in [Callers -> Requests]
          /\ Alone'
      BY <1>3, EndsInv DEF GiveUp, throttle, limits
    <2> QED
      BY <1>3, <2>1 DEF Inv, TypeOK, GiveUp, throttle, limits, Places
  <1>4. CASE BackOff(c)
    <2> DEFINE r == [is |-> "backoff", tries |-> call[c].tries + 1, left |-> 0]
    <2>0. call[c] \in Requests /\ call \in [Callers -> Requests]
      BY DEF Inv, TypeOK
    <2>1. r \in Requests
      BY <2>0, LimitsAssumption DEF Requests
    <2>2. r.is # "sleep"
      OBVIOUS
    <2>3. call' = [call EXCEPT ![c] = r]
      BY <1>4, <2>0 DEF BackOff
    <2> HIDE DEF r
    <2>4. overtaken' \subseteq Callers /\ overtaken \ {c} \subseteq overtaken'
      BY <1>4 DEF Inv, TypeOK, BackOff, throttle
    <2>5. call' \in [Callers -> Requests] /\ Alone'
      BY <1>4, <2>1, <2>2, <2>3, <2>4, NotAsleep DEF BackOff, throttle, limits
    <2> QED
      BY <1>4, <2>5 DEF Inv, TypeOK, BackOff, throttle, limits
  <1>5. CASE Again(c)
    <2>1. call[c].tries \in Nat
      BY DEF Inv, TypeOK, Requests
    <2>2. call' \in [Callers -> Requests] /\ overtaken' \subseteq Callers /\ Alone'
      BY <1>5, <2>1, Waiting DEF Again, limits
    <2> QED
      BY <1>5, <2>2 DEF Inv, TypeOK, Again, limits
  <1>6. CASE Call(c)
    <2>1. call' \in [Callers -> Requests] /\ overtaken' \subseteq Callers /\ Alone'
      BY <1>6, Waiting DEF Call, limits
    <2>2. made' \in [Callers -> 0 .. MaxCalls]
      <3>1. made[c] + 1 \in 0 .. MaxCalls
        BY <1>6, LimitsAssumption DEF Inv, TypeOK, Call
      <3> QED
        BY <1>6, <3>1 DEF Inv, TypeOK, Call
    <2> QED
      BY <1>6, <2>1, <2>2 DEF Inv, TypeOK, Call, limits
  <1> QED
    BY <1>1, <1>2, <1>3, <1>4, <1>5, <1>6 DEF Request

(* A request that is dropped, or none that was there.                      *)
LEMMA Dropping ==
  ASSUME Inv, NEW c \in Callers, NoRequest(c), UNCHANGED <<since, setting>>
  PROVE /\ call' \in [Callers -> Requests] /\ overtaken' \subseteq Callers
        /\ Alone'
  <1>1. overtaken' \subseteq Callers /\ overtaken \ {c} \subseteq overtaken'
    BY DEF Inv, TypeOK, NoRequest
  <1> QED
    BY <1>1, NotAsleep, NoCallIsOne DEF NoRequest

(* The next turn or pass counts its calls from none.                       *)
LEMMA NoneMade ==
  ASSUME Inv, NEW c \in Callers, made' = [made EXCEPT ![c] = 0]
  PROVE made' \in [Callers -> 0 .. MaxCalls]
  <1>1. 0 \in 0 .. MaxCalls
    BY LimitsAssumption
  <1> QED
    BY <1>1 DEF Inv, TypeOK

(* The steps of a session's task.                                          *)
LEMMA TaskInv == ASSUME NEW s \in Sessions PROVE Inv /\ Task(s) => Inv'
  <1> SUFFICES ASSUME Inv, Task(s) PROVE Inv'
    OBVIOUS
  <1>0. s \in Callers /\ Owner[s] \in Tenants
    BY Belong DEF Callers, Inv, TypeOK
  <1>1. CASE Summarize(s)
    <2>1. call' \in [Callers -> Requests] /\ overtaken' \subseteq Callers /\ Alone'
      BY <1>0, <1>1, Waiting, Dropping DEF Summarize, limits
    <2>2. at' \in [Callers -> Places]
      BY <1>0, <1>1, Going DEF Summarize, Inv, Places
    <2> QED
      BY <1>1, <2>1, <2>2 DEF Inv, TypeOK, Summarize, limits, Places
  <1>2. CASE Message(s)
    <2>1. call' \in [Callers -> Requests] /\ overtaken' \subseteq Callers /\ Alone'
      BY <1>0, <1>2, Waiting, Dropping DEF Message, limits
    <2>2. at' \in [Callers -> Places]
      BY <1>0, <1>2, Going DEF Message, Inv, Places
    <2> QED
      BY <1>2, <2>1, <2>2 DEF Inv, TypeOK, Message, limits, Places
  <1>3. CASE TakeSlot(s)
    <2>1. at' \in [Callers -> Places]
      BY <1>0, <1>3, Going DEF TakeSlot, Inv, Places
    <2>2. Alone'
      BY <1>3, Asleep DEF TakeSlot, throttle, limits
    <2> QED
      BY <1>3, <2>1, <2>2 DEF Inv, TypeOK, TakeSlot, throttle, limits, Places
  <1>4. CASE Begin(s)
    <2>1. at' \in [Callers -> Places]
      BY <1>0, <1>4, Going DEF Begin, Inv, Places
    <2>2. Alone'
      BY <1>4, Asleep DEF Begin, throttle
    <2>3. capped' \subseteq Tenants
      BY <1>0, <1>4 DEF Begin, Inv, TypeOK
    <2> QED
      BY <1>4, <2>1, <2>2, <2>3 DEF Inv, TypeOK, Begin, throttle, Places
  <1>5. CASE TurnEnds(s)
    <2>1. at' \in [Callers -> Places]
      BY <1>0, <1>5, Going DEF TurnEnds, Inv, Places
    <2>2. Alone'
      BY <1>5, Asleep DEF TurnEnds, throttle
    <2>3. made' \in [Callers -> 0 .. MaxCalls]
      BY <1>0, <1>5, NoneMade DEF TurnEnds
    <2>4. worked' \subseteq Evolving
      BY <1>5 DEF TurnEnds, Inv, TypeOK
    <2> QED
      BY <1>5, <2>1, <2>2, <2>3, <2>4 DEF Inv, TypeOK, TurnEnds, throttle, Places
  <1>6. CASE Replied(s)
    <2>1. at' \in [Callers -> Places]
      BY <1>0, <1>6, Going DEF Replied, Inv, Places
    <2>2. Alone'
      BY <1>6, Asleep DEF Replied, throttle, limits
    <2> QED
      BY <1>6, <2>1, <2>2 DEF Inv, TypeOK, Replied, throttle, limits, Places
  <1>7. CASE Aborted(s)
    <2>1. call' \in [Callers -> Requests] /\ overtaken' \subseteq Callers /\ Alone'
      BY <1>0, <1>7, Dropping DEF Aborted, limits
    <2>2. at' \in [Callers -> Places]
      BY <1>0, <1>7, Going DEF Aborted, Inv, Places
    <2>3. made' \in [Callers -> 0 .. MaxCalls]
      BY <1>0, <1>7, NoneMade DEF Aborted
    <2> QED
      BY <1>7, <2>1, <2>2, <2>3 DEF Inv, TypeOK, Aborted, limits, Places
  <1> QED
    BY <1>1, <1>2, <1>3, <1>4, <1>5, <1>6, <1>7 DEF Task

(* The steps of a dispatcher.                                              *)
LEMMA RunInv == ASSUME NEW t \in Tenants PROVE Inv /\ Run(t) => Inv'
  <1> SUFFICES ASSUME Inv, Run(t) PROVE Inv'
    OBVIOUS
  <1>0. t \in Callers
    BY DEF Callers
  <1>1. CASE PassBegins(t)
    <2>1. at' \in [Callers -> Places]
      BY <1>0, <1>1, Going DEF PassBegins, Inv, Places
    <2>2. Alone'
      BY <1>1, Asleep DEF PassBegins, throttle, limits
    <2> QED
      BY <1>1, <2>1, <2>2 DEF Inv, TypeOK, PassBegins, throttle, limits, Places
  <1>2. CASE PassEnds(t)
    <2>1. at' \in [Callers -> Places]
      BY <1>0, <1>2, Going DEF PassEnds, Inv, Places
    <2>2. Alone'
      BY <1>2, Asleep DEF PassEnds, throttle
    <2>3. made' \in [Callers -> 0 .. MaxCalls]
      BY <1>0, <1>2, NoneMade DEF PassEnds
    <2> QED
      BY <1>2, <2>1, <2>2, <2>3 DEF Inv, TypeOK, PassEnds, throttle, Places
  <1>3. CASE RunEnds(t)
    <2>1. at' \in [Callers -> Places]
      BY <1>0, <1>3, Going DEF RunEnds, Inv, Places
    <2>2. Alone'
      BY <1>3, Asleep DEF RunEnds, throttle, limits
    <2> QED
      BY <1>3, <2>1, <2>2 DEF Inv, TypeOK, RunEnds, throttle, limits, Places
  <1>4. CASE Rebuilt(t)
    <2>1. at' \in [Callers -> Places]
      BY <1>4 DEF Rebuilt, Inv, TypeOK, Places
    <2>2. Alone'
      BY <1>4, Asleep DEF Rebuilt, throttle
    <2>3. spent' \in [Tenants -> Nat] /\ sums' \in [Tenants -> Nat]
      BY <1>4 DEF Rebuilt, Inv, TypeOK
    <2> QED
      BY <1>4, <2>1, <2>2, <2>3 DEF Inv, TypeOK, Rebuilt, throttle, Places
  <1> QED
    BY <1>1, <1>2, <1>3, <1>4 DEF Run

(* Every step keeps the invariant.                                         *)
LEMMA StepInv == Inv /\ [Next]_vars => Inv'
  <1> SUFFICES ASSUME Inv, [Next]_vars PROVE Inv'
    OBVIOUS
  <1>1. CASE Next
    BY <1>1, TickInv, RequestInv, TaskInv, RunInv DEF Next
  <1>2. CASE UNCHANGED vars
    <2>1. Alone'
      BY <1>2, Asleep DEF vars, throttle, limits
    <2> QED
      BY <1>2, <2>1 DEF Inv, TypeOK, vars, throttle, limits
  <1> QED
    BY <1>1, <1>2

(* The invariant holds.                                                    *)
LEMMA Invariance == Spec => []Inv
  BY InitInv, StepInv, PTL DEF Spec

(* The state keeps its types, whatever the settings and the limits.        *)
THEOREM TypesHold == Spec => []TypeOK
  <1>1. Inv => TypeOK
    BY DEF Inv
  <1> QED
    BY <1>1, Invariance, PTL

(* Only Post sends a request, and it has nothing left to wait.             *)
LEMMA Paces ==
  Inv /\ [Next]_vars => \A c \in Callers :
                          Posted(c) => since[AccountOf(c)] = Interval \/ c \in overtaken
  <1> SUFFICES ASSUME Inv, [Next]_vars, NEW c \in Callers, Posted(c), c \notin overtaken
               PROVE since[AccountOf(c)] = Interval
    OBVIOUS
  <1>1. call \in [Callers -> Requests]
    BY DEF Inv, TypeOK
  <1>2. Post(c)
    <2>1. ASSUME NEW d \in Callers, NEW n, Waits(d, n) PROVE FALSE
      BY <1>1, <2>1 DEF Waits, Posted
    <2>2. ASSUME NEW d \in Callers, NEW r, r.is # "sent", call' = [call EXCEPT ![d] = r] PROVE FALSE
      BY <1>1, <2>2 DEF Posted
    <2>3. NoCall.is # "sent"
      BY DEF NoCall
    <2>4. ASSUME Tick PROVE FALSE
      <3>1. call'[c].is = call[c].is
        BY <1>1, <2>4 DEF Tick, Requests
      <3> QED
        BY <3>1 DEF Posted
    <2>5. ASSUME NEW d \in Callers, Request(d) PROVE Post(c)
      <3>1. CASE Post(d)
        <4>1. d = c
          BY <1>1, <3>1 DEF Post, Posted
        <4> QED
          BY <3>1, <4>1
      <3>2. CASE Succeed(d) \/ GiveUp(d)
        BY <2>2, <2>3, <3>2 DEF Succeed, GiveUp, Ends
      <3>3. CASE BackOff(d)
        <4>1. call'[c].is # "sent" \/ call'[c] = call[c]
          BY <1>1, <3>3 DEF BackOff, Requests
        <4> QED
          BY <4>1 DEF Posted
      <3>4. CASE Again(d) \/ Call(d)
        BY <2>1, <3>4 DEF Again, Call
      <3> QED
        BY <2>5, <3>1, <3>2, <3>3, <3>4 DEF Request
    <2>6. ASSUME NEW s \in Sessions, Task(s) PROVE FALSE
      <3>1. s \in Callers
        BY DEF Callers
      <3>2. CASE Summarize(s) \/ Message(s) \/ Aborted(s)
        BY <2>1, <2>2, <2>3, <3>1, <3>2 DEF Summarize, Message, Aborted, NoRequest
      <3>3. CASE TakeSlot(s) \/ Begin(s) \/ TurnEnds(s) \/ Replied(s)
        BY <3>3 DEF TakeSlot, Begin, TurnEnds, Replied, Posted
      <3> QED
        BY <2>6, <3>2, <3>3 DEF Task
    <2>7. ASSUME NEW t \in Tenants, Run(t) PROVE FALSE
      BY <2>7 DEF Run, PassBegins, PassEnds, RunEnds, Rebuilt, Posted
    <2>8. ~ UNCHANGED vars
      BY DEF vars, Posted
    <2> QED
      BY <2>4, <2>5, <2>6, <2>7, <2>8 DEF Next
  <1>3. call[c].left = 0 /\ call[c].is = "sleep"
    BY <1>2 DEF Post
  <1>4. 0 = Interval - since[AccountOf(c)]
    BY <1>3 DEF Inv, Alone
  <1>5. since[AccountOf(c)] \in 0 .. Interval
    BY Belong DEF Inv, TypeOK
  <1> QED
    BY <1>4, <1>5, LimitsAssumption

(* Requests of one account are an interval apart, or the later one was     *)
(* waiting when the earlier one went, for any number of tenants, sessions  *)
(* and attempts and any interval.                                          *)
THEOREM RequestsArePaced == Spec => PacedApart
  <1>1. Inv /\ [Next]_vars => [\A c \in Callers :
                   Posted(c) => since[AccountOf(c)] = Interval \/ c \in overtaken]_vars
    BY Paces
  <1> QED
    BY <1>1, Invariance, PTL DEF Spec, PacedApart
-----------------------------------------------------------------------------
(* How far past its ceiling.  Each call a turn in progress may still end   *)
(* is a pair; what is spent and what is to come together stay within the   *)
(* bound: a call that ends moves one from here to there, and a turn that   *)
(* begins finds the count below the ceiling and at most as many turns      *)
(* beside it as there are slots.                                           *)

Began == {s \in Sessions : at[s] \in HasBoth}
Turning(t) == {s \in Began : Owner[s] = t}

\* The calls of its turn that are over.
Over(s) == IF call[s].is = "none" THEN made[s] ELSE made[s] - 1
ToCome(t) == {p \in Turning(t) \X (1 .. MaxCalls) : p[2] > Over(p[1])}

PermitsHeld == /\ IsFiniteSet(Began) /\ Cardinality(Began) <= setting.shard
               /\ \A t \in Tenants : /\ IsFiniteSet(InTurn(t))
                                     /\ Cardinality(InTurn(t)) <= setting.worker

\* Who waits for a permit makes no call, and a call of a turn is one of those made.
Silent == \A s \in Sessions :
            /\ at[s] \in {"slot", "shard"} => call[s].is = "none"
            /\ at[s] \in HasBoth /\ call[s].is # "none" => made[s] > 0

Bounded(t) == spent[t] - sums[t] + Cardinality(ToCome(t)) <= cap - 1 + Slots * MaxCalls

CapInv == /\ PermitsHeld /\ Silent
          /\ cap # NoCap => \A t \in Tenants : Bounded(t)

(* The places with permits, and those without.                             *)
LEMMA PlacesOfPermits == HasBoth = {"turn"} /\ HasSlot = {"turn", "shard"}
  BY DEF HasBoth, HasSlot

(* Who has begun is among those in turn of his tenant.                     *)
LEMMA TurningWithin ==
  ASSUME NEW t PROVE Turning(t) \subseteq InTurn(t) /\ Turning(t) \subseteq Began
  BY PlacesOfPermits DEF Turning, InTurn, Began

(* Fewer take turns in a product than its bound.                           *)
LEMMA Times ==
  ASSUME NEW m \in Nat, NEW n \in Nat, NEW k \in Nat, m <= n
  PROVE m * k <= n * k /\ m * k \in Nat /\ n * k \in Nat
  OBVIOUS

(* The calls to come are finitely many, no more than the slots allow.      *)
LEMMA ToComeBounded ==
  ASSUME TypeOK, PermitsHeld, NEW t \in Tenants
  PROVE /\ IsFiniteSet(ToCome(t)) /\ Cardinality(ToCome(t)) \in Nat
        /\ Cardinality(ToCome(t)) <= Slots * MaxCalls
  <1> DEFINE n == Cardinality(Turning(t))
  <1>0. setting.worker \in Nat \ {0} /\ setting.shard \in Nat \ {0} /\ MaxCalls \in Nat
    BY LimitsAssumption DEF TypeOK, Setting
  <1>1. Slots \in Nat
    BY <1>0 DEF Slots
  <1>2. IsFiniteSet(Turning(t)) /\ n <= Cardinality(InTurn(t)) /\ n <= Cardinality(Began)
    BY TurningWithin, FS_Subset DEF PermitsHeld
  <1>3. n \in Nat /\ Cardinality(InTurn(t)) \in Nat /\ Cardinality(Began) \in Nat
    BY <1>2, FS_CardinalityType DEF PermitsHeld
  <1>4. n <= Slots
    <2> HIDE DEF n
    <2> QED
      BY <1>0, <1>2, <1>3 DEF Slots, PermitsHeld
  <1>5. IsFiniteSet(1 .. MaxCalls) /\ Cardinality(1 .. MaxCalls) = MaxCalls
    <2>1. 1 \in Int /\ MaxCalls \in Int /\ ~ (1 > MaxCalls) /\ MaxCalls - 1 + 1 = MaxCalls
      BY LimitsAssumption
    <2> QED
      BY <2>1, FS_Interval
  <1>6. /\ IsFiniteSet(Turning(t) \X (1 .. MaxCalls))
        /\ Cardinality(Turning(t) \X (1 .. MaxCalls)) = n * MaxCalls
    BY <1>2, <1>5, FS_Product
  <1>7. ToCome(t) \in SUBSET (Turning(t) \X (1 .. MaxCalls))
    BY DEF ToCome
  <1>8. IsFiniteSet(ToCome(t)) /\ Cardinality(ToCome(t)) <= n * MaxCalls
    BY <1>6, <1>7, FS_Subset
  <1>9. Cardinality(ToCome(t)) \in Nat
    BY <1>8, FS_CardinalityType
  <1> HIDE DEF n
  <1>10. n * MaxCalls <= Slots * MaxCalls /\ n * MaxCalls \in Nat /\ Slots * MaxCalls \in Nat
    BY <1>0, <1>1, <1>3, <1>4, Times
  <1>11. \A x, y, z \in Nat : x <= y /\ y <= z => x <= z
    OBVIOUS
  <1> QED
    BY <1>8, <1>9, <1>10, <1>11

\* Nobody gets a permit, and no turn gets calls to make.
NoneBegins == \A s \in Sessions :
                /\ at'[s] \in HasSlot => at[s] \in HasSlot
                /\ at'[s] \in HasBoth => at[s] \in HasBoth /\ Over(s)' >= Over(s)

(* Then those with permits have had them.                                  *)
LEMMA PermitsKept ==
  ASSUME TypeOK, PermitsHeld, UNCHANGED setting, NoneBegins
  PROVE PermitsHeld'
  <1>1. Began' \in SUBSET Began
    BY DEF Began, NoneBegins
  <1>2. IsFiniteSet(Began') /\ Cardinality(Began') <= setting.shard
    <2>1. IsFiniteSet(Began') /\ Cardinality(Began') <= Cardinality(Began)
      BY <1>1, FS_Subset DEF PermitsHeld
    <2>2. Cardinality(Began') \in Nat /\ Cardinality(Began) \in Nat /\ setting.shard \in Nat
      BY <2>1, FS_CardinalityType, LimitsAssumption DEF PermitsHeld, TypeOK, Setting
    <2> QED
      BY <2>1, <2>2 DEF PermitsHeld
  <1>3. ASSUME NEW t \in Tenants
        PROVE IsFiniteSet(InTurn(t)') /\ Cardinality(InTurn(t)') <= setting.worker
    <2>0. InTurn(t)' \in SUBSET InTurn(t)
      BY DEF InTurn, NoneBegins, Owner
    <2>1. IsFiniteSet(InTurn(t)') /\ Cardinality(InTurn(t)') <= Cardinality(InTurn(t))
      BY <2>0, FS_Subset DEF PermitsHeld
    <2>2. Cardinality(InTurn(t)') \in Nat /\ Cardinality(InTurn(t)) \in Nat
          /\ setting.worker \in Nat
      BY <2>1, FS_CardinalityType, LimitsAssumption DEF PermitsHeld, TypeOK, Setting
    <2> QED
      BY <2>1, <2>2 DEF PermitsHeld
  <1> QED
    BY <1>2, <1>3 DEF PermitsHeld

(* And there are no more calls to come than there were.                    *)
LEMMA NoMoreToCome ==
  ASSUME TypeOK, TypeOK', UNCHANGED setting, NoneBegins, NEW t \in Tenants
  PROVE ToCome(t)' \subseteq ToCome(t)
  <1> SUFFICES ASSUME NEW p \in ToCome(t)' PROVE p \in ToCome(t)
    OBVIOUS
  <1>1. p \in Turning(t)' \X (1 .. MaxCalls) /\ p[2] > Over(p[1])'
    BY DEF ToCome
  <1>2. p[1] \in Turning(t)' /\ p[2] \in 1 .. MaxCalls /\ p = <<p[1], p[2]>>
    BY <1>1
  <1>3. p[1] \in Turning(t) /\ p[1] \in Sessions /\ Over(p[1])' >= Over(p[1])
    BY <1>2 DEF Turning, Began, NoneBegins, Owner
  <1>4. Over(p[1]) \in Int /\ Over(p[1])' \in Int
    BY <1>3, LimitsAssumption DEF Over, TypeOK, Callers
  <1>5. p[2] > Over(p[1])
    BY <1>1, <1>2, <1>3, <1>4
  <1> QED
    BY <1>2, <1>3, <1>5 DEF ToCome

(* A set of calls to come that lost something is the smaller for it.       *)
LEMMA BoundKept ==
  ASSUME TypeOK, TypeOK', PermitsHeld, NEW t \in Tenants, Bounded(t), cap # NoCap,
         UNCHANGED setting, ToCome(t)' \subseteq ToCome(t),
         spent'[t] - sums'[t] = spent[t] - sums[t]
  PROVE Bounded(t)'
  <1>1. IsFiniteSet(ToCome(t)) /\ Cardinality(ToCome(t)) \in Nat
    BY ToComeBounded
  <1>2. IsFiniteSet(ToCome(t)') /\ Cardinality(ToCome(t)') <= Cardinality(ToCome(t))
    BY <1>1, FS_Subset
  <1>3. Cardinality(ToCome(t)') \in Nat
    BY <1>2, FS_CardinalityType
  <1>4. spent[t] - sums[t] \in Int
    BY DEF TypeOK
  <1>5. Slots' = Slots /\ cap' = cap
    BY DEF Slots, cap
  <1> DEFINE x == spent[t] - sums[t]
             b == cap - 1 + Slots * MaxCalls
  <1>6. x + Cardinality(ToCome(t)) <= b /\ b' = b
    BY <1>5 DEF Bounded
  <1>7. b \in Int
    <2>1. cap \in Int
      BY LimitsAssumption DEF TypeOK, Setting, cap
    <2>2. Slots \in Int /\ MaxCalls \in Int
      BY LimitsAssumption DEF TypeOK, Setting, Slots
    <2>3. Slots * MaxCalls \in Int
      BY <2>2
    <2> QED
      BY <2>1, <2>3
  <1>8. x + Cardinality(ToCome(t)') <= b
    <2> HIDE DEF x, b
    <2> QED
      BY <1>1, <1>2, <1>3, <1>4, <1>6, <1>7 DEF x
  <1> QED
    BY <1>6, <1>8 DEF Bounded

(* A step in which none begins and no turn's call is booked keeps it all.  *)
LEMMA Nothing ==
  ASSUME TypeOK, TypeOK', CapInv, UNCHANGED setting, NoneBegins,
         \A t \in Tenants : spent'[t] - sums'[t] = spent[t] - sums[t]
  PROVE PermitsHeld' /\ (cap # NoCap => \A t \in Tenants : Bounded(t))'
  <1>1. PermitsHeld'
    BY PermitsKept DEF CapInv
  <1>2. ASSUME cap # NoCap, NEW t \in Tenants PROVE Bounded(t)'
    BY <1>2, NoMoreToCome, BoundKept DEF CapInv
  <1>3. cap' = cap
    BY DEF cap
  <1> QED
    BY <1>1, <1>2, <1>3

(* Time ends no call.                                                      *)
LEMMA TickCap == TypeOK /\ TypeOK' /\ CapInv /\ Tick => CapInv'
  <1> SUFFICES ASSUME TypeOK, TypeOK', CapInv, Tick PROVE CapInv'
    OBVIOUS
  <1>1. \A c \in Callers : call'[c].is = call[c].is
    BY DEF TypeOK, Tick, Requests
  <1>2. UNCHANGED <<setting, at, made, spent, sums>>
    BY DEF Tick, limits
  <1>3. \A s \in Sessions : s \in Callers /\ Over(s) \in Int /\ Over(s)' = Over(s)
    BY <1>1, <1>2 DEF Over, Callers, TypeOK
  <1>4. NoneBegins
    BY <1>2, <1>3 DEF NoneBegins
  <1>5. Silent'
    BY <1>1, <1>2, <1>3 DEF CapInv, Silent
  <1> QED
    BY <1>2, <1>4, <1>5, Nothing DEF CapInv

(* A request that goes on: none ends and none is made.                     *)
LEMMA GoesOnCap ==
  ASSUME TypeOK, TypeOK', CapInv, NEW c \in Callers, NEW r \in Requests,
         call' = [call EXCEPT ![c] = r], r.is # "none", call[c].is # "none",
         UNCHANGED <<setting, at, made, spent, sums>>
  PROVE CapInv'
  <1>1. \A d \in Callers : call'[d].is = "none" <=> call[d].is = "none"
    BY DEF TypeOK
  <1>2. \A s \in Sessions : s \in Callers /\ Over(s) \in Int /\ Over(s)' = Over(s)
    BY <1>1 DEF Over, Callers, TypeOK
  <1>3. NoneBegins
    BY <1>2 DEF NoneBegins
  <1>4. Silent'
    BY <1>1, <1>2 DEF CapInv, Silent
  <1> QED
    BY <1>3, <1>4, Nothing DEF CapInv

(* The places where a call ends, and where it leaves its caller.           *)
LEMMA EndsWhere ==
  ASSUME TypeOK, CapInv, NEW c \in Callers, Ends(c), UNCHANGED <<setting, made>>
  PROVE /\ call[c].is = "sent" /\ call'[c].is = "none"
        /\ \A d \in Callers \ {c} : call'[d] = call[d] /\ at'[d] = at[d]
        /\ c \in Sessions => /\ at[c] \notin {"slot", "shard"}
                             /\ at'[c] \in HasSlot <=> at[c] \in HasSlot
                             /\ at'[c] \in HasBoth <=> at[c] \in HasBoth
        /\ NoneBegins /\ Silent'
  <1> USE PlacesOfPermits
  <1>1. call[c].is = "sent" /\ call'[c].is = "none"
    BY DEF Ends, TypeOK, NoCall
  <1>2. \A d \in Callers \ {c} : call'[d] = call[d] /\ at'[d] = at[d]
    BY DEF Ends, Goes, TypeOK
  <1>3. ASSUME c \in Sessions PROVE at[c] \notin {"slot", "shard"}
    BY <1>1, <1>3 DEF CapInv, Silent
  <1>4. at'[c] = CASE at[c] = "held" -> "slot" [] at[c] = "summing" -> "idle" [] OTHER -> at[c]
    BY DEF Ends, Goes, TypeOK
  <1>5. at'[c] = "turn" <=> at[c] = "turn"
    BY <1>4
  <1>6. at'[c] = "shard" <=> at[c] = "shard"
    BY <1>4
  <1>7. \A s \in Sessions : s \in Callers /\ made[s] \in Int /\ made'[s] = made[s]
    BY DEF TypeOK, Callers
  <1>8. NoneBegins
    <2> SUFFICES ASSUME NEW s \in Sessions
                 PROVE /\ at'[s] \in HasSlot => at[s] \in HasSlot
                       /\ at'[s] \in HasBoth => at[s] \in HasBoth /\ Over(s)' >= Over(s)
      BY DEF NoneBegins
    <2>1. CASE s = c
      <3>1. Over(s) = made[s] - 1 /\ Over(s)' = made[s]
        BY <1>1, <1>7, <2>1 DEF Over
      <3> QED
        BY <1>5, <1>6, <1>7, <2>1, <3>1
    <2>2. CASE s # c
      BY <1>2, <1>7, <2>2 DEF Over
    <2> QED
      BY <2>1, <2>2
  <1>9. Silent'
    BY <1>1, <1>2, <1>5, <1>6, <1>7 DEF CapInv, Silent
  <1> QED
    BY <1>1, <1>2, <1>3, <1>5, <1>6, <1>8, <1>9

(* A call that ends is no longer to come; the one who booked it has one    *)
(* less before him.                                                        *)
LEMMA SucceedCap ==
  ASSUME TypeOK, TypeOK', CapInv, NEW c \in Callers, Succeed(c)
  PROVE CapInv'
  <1> USE PlacesOfPermits
  <1>1. UNCHANGED <<setting, made>> /\ Ends(c) /\ cap' = cap
    BY DEF Succeed, cap
  <1>2. NoneBegins /\ Silent' /\ call[c].is = "sent" /\ call'[c].is = "none"
    BY <1>1, EndsWhere
  <1>3. PermitsHeld'
    BY <1>1, <1>2, PermitsKept DEF CapInv
  <1>4. ASSUME cap # NoCap, NEW t \in Tenants PROVE Bounded(t)'
    <2>0. Bounded(t) /\ PermitsHeld
      BY <1>4 DEF CapInv
    <2>1. spent[t] \in Nat /\ sums[t] \in Nat
      BY DEF TypeOK
    <2>2. CASE c \in Sessions /\ Owner[c] = t /\ at[c] = "turn"
      <3>1. spent'[t] = spent[t] + 1 /\ sums'[t] = sums[t]
        BY <1>4, <2>2 DEF Succeed, Booked, TypeOK
      <3>2. made[c] \in 1 .. MaxCalls /\ Over(c) = made[c] - 1 /\ Over(c)' = made[c]
        BY <1>1, <1>2, <2>2, LimitsAssumption DEF CapInv, Silent, TypeOK, Over
      <3>3. c \in Turning(t)
        BY <2>2 DEF Turning, Began
      <3> DEFINE p == <<c, made[c]>>
      <3>4. p \in ToCome(t)
        BY <3>2, <3>3 DEF ToCome
      <3>5. p \notin ToCome(t)'
        BY <3>2 DEF ToCome
      <3>6. ToCome(t)' \subseteq ToCome(t)
        BY <1>1, <1>2, NoMoreToCome
      <3>7. IsFiniteSet(ToCome(t)) /\ Cardinality(ToCome(t)) \in Nat
        BY <2>0, ToComeBounded
      <3> HIDE DEF p
      <3>8. /\ IsFiniteSet(ToCome(t) \ {p})
            /\ Cardinality(ToCome(t) \ {p}) = Cardinality(ToCome(t)) - 1
        BY <3>4, <3>7, FS_RemoveElement
      <3>9. ToCome(t)' \in SUBSET (ToCome(t) \ {p})
        BY <3>5, <3>6
      <3>10. /\ IsFiniteSet(ToCome(t)')
             /\ Cardinality(ToCome(t)') <= Cardinality(ToCome(t) \ {p})
        BY <3>8, <3>9, FS_Subset
      <3>11. Cardinality(ToCome(t)') \in Nat
        BY <3>10, FS_CardinalityType
      <3> DEFINE b == cap - 1 + Slots * MaxCalls
      <3>12. b' = b /\ b \in Int
        <4>1. cap \in Int /\ Slots \in Int /\ MaxCalls \in Int
          BY <1>4, LimitsAssumption DEF TypeOK, Setting, cap, Slots
        <4>2. Slots * MaxCalls \in Int /\ Slots' = Slots
          BY <1>1, <4>1 DEF Slots
        <4> QED
          BY <1>1, <4>1, <4>2
      <3>13. spent[t] - sums[t] + Cardinality(ToCome(t)) <= b
        BY <2>0 DEF Bounded
      <3> HIDE DEF b
      <3>14. spent'[t] - sums'[t] + Cardinality(ToCome(t)') <= b
        BY <2>1, <3>1, <3>7, <3>8, <3>10, <3>11, <3>12, <3>13
      <3> QED
        BY <3>12, <3>14 DEF Bounded, b
    <2>3. CASE ~ (c \in Sessions /\ Owner[c] = t /\ at[c] = "turn")
      <3>1. spent'[t] - sums'[t] = spent[t] - sums[t]
        <4>1. CASE c \in Sessions /\ Owner[c] = t
          <5>1. spent'[t] = spent[t] + 1 /\ sums'[t] = sums[t] + 1
            BY <1>4, <2>3, <4>1 DEF Succeed, Booked, TypeOK
          <5> QED
            BY <2>1, <5>1
        <4>2. CASE ~ (c \in Sessions /\ Owner[c] = t)
          <5>1. spent'[t] = spent[t] /\ sums'[t] = sums[t]
            BY <4>2 DEF Succeed, Booked, TypeOK
          <5> QED
            BY <5>1
        <4> QED
          BY <4>1, <4>2
      <3> QED
        BY <1>1, <1>2, <1>4, <2>0, <3>1, NoMoreToCome, BoundKept
    <2> QED
      BY <2>2, <2>3
  <1> QED
    BY <1>1, <1>2, <1>3, <1>4 DEF CapInv

(* The steps of a request.                                                 *)
LEMMA RequestCap ==
  ASSUME TypeOK, TypeOK', CapInv, NEW c \in Callers, Request(c)
  PROVE CapInv'
  <1> USE PlacesOfPermits
  <1>0. call[c] \in Requests /\ call \in [Callers -> Requests]
    BY DEF TypeOK
  <1>1. CASE Post(c)
    <2> DEFINE r == [call[c] EXCEPT !.is = "sent"]
    <2>1. r \in Requests /\ r.is # "none"
      BY <1>0 DEF Requests
    <2>2. call' = [call EXCEPT ![c] = r] /\ call[c].is # "none"
      BY <1>0, <1>1 DEF Post
    <2> HIDE DEF r
    <2> QED
      BY <1>1, <2>1, <2>2, GoesOnCap DEF Post, limits
  <1>2. CASE Succeed(c)
    BY <1>2, SucceedCap
  <1>3. CASE GiveUp(c)
    <2>1. NoneBegins /\ Silent'
      BY <1>3, EndsWhere DEF GiveUp, limits
    <2> QED
      BY <1>3, <2>1, Nothing DEF GiveUp, limits, CapInv
  <1>4. CASE BackOff(c)
    <2> DEFINE r == [is |-> "backoff", tries |-> call[c].tries + 1, left |-> 0]
    <2>1. r \in Requests /\ r.is # "none"
      BY <1>0, LimitsAssumption DEF Requests
    <2>2. call' = [call EXCEPT ![c] = r] /\ call[c].is # "none"
      BY <1>0, <1>4 DEF BackOff
    <2> HIDE DEF r
    <2> QED
      BY <1>4, <2>1, <2>2, GoesOnCap DEF BackOff, limits
  <1>5. CASE Again(c)
    <2> DEFINE r == [is |-> "sleep", tries |-> call[c].tries,
                     left |-> Interval - since[AccountOf(c)]]
    <2>1. call' = [call EXCEPT ![c] = r] /\ call[c].is # "none" /\ r.is # "none"
      BY <1>0, <1>5 DEF Again, Waits
    <2>2. r \in Requests
      <3>1. AccountOf(c) \in Accounts
        BY Belong DEF TypeOK
      <3>2. Interval - since[AccountOf(c)] \in 0 .. Interval
        BY <3>1, LimitsAssumption DEF TypeOK
      <3> QED
        BY <1>0, <3>2 DEF Requests
    <2> HIDE DEF r
    <2> QED
      BY <1>5, <2>1, <2>2, GoesOnCap DEF Again, limits
  <1>6. CASE Call(c)
    <2>1. call[c].is = "none" /\ call'[c].is = "sleep" /\ at[c] \in {"turn", "pass"}
      BY <1>0, <1>6 DEF Call, Waits, NoCall
    <2>2. made'[c] = made[c] + 1 /\ made[c] \in Nat
      BY <1>6, LimitsAssumption DEF Call, TypeOK
    <2>3. \A d \in Callers \ {c} : call'[d] = call[d] /\ made'[d] = made[d]
      BY <1>0, <1>6 DEF Call, Waits, TypeOK
    <2>4. UNCHANGED <<setting, at, spent, sums>>
      BY <1>6 DEF Call, limits
    <2>5. \A s \in Sessions : s \in Callers /\ made[s] \in Nat
      BY DEF Callers, TypeOK
    <2>6. \A s \in Sessions : Over(s) \in Int /\ Over(s)' = Over(s)
      <3> SUFFICES ASSUME NEW s \in Sessions PROVE Over(s) \in Int /\ Over(s)' = Over(s)
        OBVIOUS
      <3>1. CASE s = c
        BY <2>1, <2>2, <3>1 DEF Over
      <3>2. CASE s # c
        BY <2>3, <2>5, <3>2 DEF Over
      <3> QED
        BY <3>1, <3>2
    <2>7. NoneBegins
      BY <2>4, <2>6 DEF NoneBegins
    <2>8. Silent'
      BY <2>1, <2>2, <2>3, <2>4, <2>5 DEF CapInv, Silent
    <2> QED
      BY <2>4, <2>7, <2>8, Nothing DEF CapInv
  <1> QED
    BY <1>1, <1>2, <1>3, <1>4, <1>5, <1>6 DEF Request

(* A task that goes where no permit is taken has no more than it had.      *)
LEMMA LeavesCap ==
  ASSUME TypeOK, TypeOK', CapInv, NEW s \in Sessions, NEW where,
         Goes(s, where), where \notin HasSlot,
         where = "slot" => call'[s].is = "none",
         \A d \in Callers \ {s} : call'[d] = call[d] /\ made'[d] = made[d],
         UNCHANGED <<setting, spent, sums>>
  PROVE CapInv'
  <1> USE PlacesOfPermits
  <1>0. \A d \in Sessions : d \in Callers /\ made[d] \in Nat
    BY DEF Callers, TypeOK
  <1>1. at'[s] = where /\ \A d \in Callers \ {s} : at'[d] = at[d]
    BY <1>0 DEF Goes, TypeOK
  <1>2. NoneBegins
    <2> SUFFICES ASSUME NEW d \in Sessions
                 PROVE /\ at'[d] \in HasSlot => at[d] \in HasSlot
                       /\ at'[d] \in HasBoth => at[d] \in HasBoth /\ Over(d)' >= Over(d)
      BY DEF NoneBegins
    <2>1. CASE d = s
      BY <1>1, <2>1
    <2>2. CASE d # s
      <3>1. Over(d)' = Over(d) /\ Over(d) \in Int
        BY <1>0, <2>2 DEF Over
      <3> QED
        BY <1>0, <1>1, <2>2, <3>1
    <2> QED
      BY <2>1, <2>2
  <1>3. Silent'
    BY <1>0, <1>1 DEF CapInv, Silent
  <1> QED
    BY <1>2, <1>3, Nothing DEF CapInv

(* A slot of the tenant's, where there was one.                            *)
LEMMA TakeSlotCap ==
  ASSUME TypeOK, TypeOK', CapInv, NEW s \in Sessions, TakeSlot(s)
  PROVE CapInv'
  <1> USE PlacesOfPermits
  <1>0. \A d \in Sessions : d \in Callers /\ made[d] \in Nat
    BY DEF Callers, TypeOK
  <1>1. at[s] = "slot" /\ at'[s] = "shard" /\ \A d \in Callers \ {s} : at'[d] = at[d]
    BY <1>0 DEF TakeSlot, Goes, TypeOK
  <1>2. UNCHANGED <<setting, call, made, spent, sums>>
    BY DEF TakeSlot, limits
  <1>3. Silent'
    BY <1>0, <1>1, <1>2 DEF CapInv, Silent
  <1>4. Began' = Began
    BY <1>0, <1>1 DEF Began
  <1>5. ASSUME NEW t \in Tenants
        PROVE IsFiniteSet(InTurn(t)') /\ Cardinality(InTurn(t)') <= setting.worker
    <2>0. IsFiniteSet(InTurn(t)) /\ Cardinality(InTurn(t)) <= setting.worker
      BY DEF CapInv, PermitsHeld
    <2>1. CASE Owner[s] = t
      <3>1. InTurn(t)' = InTurn(t) \cup {s} /\ s \notin InTurn(t)
        BY <1>0, <1>1, <1>2, <2>1 DEF InTurn, Owner
      <3>2. IsFiniteSet(InTurn(t)') /\ Cardinality(InTurn(t)') = Cardinality(InTurn(t)) + 1
        BY <2>0, <3>1, FS_AddElement
      <3>3. Cardinality(InTurn(t)) \in Nat /\ setting.worker \in Nat
        BY <2>0, FS_CardinalityType, LimitsAssumption DEF TypeOK, Setting
      <3>4. Cardinality(InTurn(t)) < setting.worker
        BY <2>1 DEF TakeSlot, SlotFree
      <3> QED
        BY <3>2, <3>3, <3>4
    <2>2. CASE Owner[s] # t
      <3>1. InTurn(t)' = InTurn(t)
        BY <1>0, <1>1, <1>2, <2>2 DEF InTurn, Owner
      <3> QED
        BY <2>0, <3>1
    <2> QED
      BY <2>1, <2>2
  <1>6. PermitsHeld'
    BY <1>2, <1>4, <1>5 DEF CapInv, PermitsHeld
  <1>7. ASSUME cap # NoCap, NEW t \in Tenants PROVE Bounded(t)'
    <2>1. \A p : p[2] > Over(p[1])' <=> p[2] > Over(p[1])
      BY <1>2 DEF Over
    <2>2. Turning(t)' = Turning(t)
      BY <1>2, <1>4 DEF Turning, Owner
    <2>3. ToCome(t)' = ToCome(t)
      BY <2>1, <2>2 DEF ToCome
    <2> QED
      BY <1>2, <1>7, <2>3, BoundKept DEF CapInv
  <1> QED
    BY <1>2, <1>3, <1>6, <1>7 DEF CapInv, cap

(* A turn begins below the ceiling, with at most as many beside it as      *)
(* there are slots, and each has no more before it than all of its calls.  *)
LEMMA BeginCap ==
  ASSUME TypeOK, TypeOK', CapInv, NEW s \in Sessions, Begin(s)
  PROVE CapInv'
  <1> USE PlacesOfPermits
  <1>0. \A d \in Sessions : d \in Callers /\ made[d] \in Nat
    BY DEF Callers, TypeOK
  <1>1. UNCHANGED <<setting, call, made, spent, sums>>
    BY DEF Begin
  <1>2. CASE Reached(Owner[s])
    <2>1. Goes(s, "idle")
      BY <1>2 DEF Begin
    <2>2. "idle" \notin HasSlot /\ "idle" # "slot"
      OBVIOUS
    <2> QED
      BY <1>1, <2>1, <2>2, LeavesCap
  <1>3. CASE ~ Reached(Owner[s])
    <2>1. at[s] = "shard" /\ at'[s] = "turn" /\ \A d \in Callers \ {s} : at'[d] = at[d]
      BY <1>0, <1>3 DEF Begin, Goes, TypeOK
    <2>2. Silent'
      BY <1>0, <1>1, <2>1 DEF CapInv, Silent
    <2>3. Began' = Began \cup {s} /\ s \notin Began
      BY <1>0, <2>1 DEF Began
    <2>4. IsFiniteSet(Began') /\ Cardinality(Began') <= setting.shard
      <3>1. IsFiniteSet(Began)
        BY DEF CapInv, PermitsHeld
      <3>2. IsFiniteSet(Began') /\ Cardinality(Began') = Cardinality(Began) + 1
        BY <2>3, <3>1, FS_AddElement
      <3>3. Cardinality(Began) \in Nat /\ setting.shard \in Nat
        BY <3>1, FS_CardinalityType, LimitsAssumption DEF TypeOK, Setting
      <3>4. Cardinality(Began) < setting.shard
        BY DEF Begin, ShardFree, Began
      <3> QED
        BY <3>2, <3>3, <3>4
    <2>5. \A t \in Tenants : InTurn(t)' = InTurn(t)
      BY <1>0, <1>1, <2>1 DEF InTurn, Owner
    <2>6. PermitsHeld'
      BY <1>1, <2>4, <2>5 DEF CapInv, PermitsHeld
    <2>7. ASSUME cap # NoCap, NEW t \in Tenants PROVE Bounded(t)'
      <3>1. CASE Owner[s] = t
        <4>1. spent[t] < cap /\ spent[t] \in Nat /\ sums[t] \in Nat /\ cap \in Nat
          BY <1>3, <2>7, <3>1, LimitsAssumption DEF Reached, TypeOK, Setting, cap
        <4>2. /\ Cardinality(ToCome(t)') \in Nat
              /\ Cardinality(ToCome(t)') <= (Slots * MaxCalls)'
          <5>1. (TypeOK /\ PermitsHeld
                   => /\ Cardinality(ToCome(t)) \in Nat
                      /\ Cardinality(ToCome(t)) <= Slots * MaxCalls)'
            BY ToComeBounded, PTL
          <5> QED
            BY <2>6, <5>1
        <4>3. (Slots * MaxCalls)' \in Int /\ cap' = cap
          BY <1>1, LimitsAssumption DEF TypeOK, Setting, Slots, cap
        <4> DEFINE b == Slots * MaxCalls
        <4>4. spent'[t] = spent[t] /\ sums'[t] = sums[t]
          BY <1>1
        <4> HIDE DEF b
        <4>5. b' \in Int /\ Cardinality(ToCome(t)') <= b'
          BY <4>2, <4>3 DEF b
        <4>6. spent'[t] - sums'[t] + Cardinality(ToCome(t)') <= cap' - 1 + b'
          BY <4>1, <4>2, <4>3, <4>4, <4>5
        <4> QED
          BY <4>6 DEF Bounded, b
      <3>2. CASE Owner[s] # t
        <4>1. Turning(t)' = Turning(t)
          BY <1>1, <2>3, <3>2 DEF Turning, Owner
        <4>2. \A p : p[2] > Over(p[1])' <=> p[2] > Over(p[1])
          BY <1>1 DEF Over
        <4>3. ToCome(t)' = ToCome(t)
          BY <4>1, <4>2 DEF ToCome
        <4> QED
          BY <1>1, <2>7, <4>3, BoundKept DEF CapInv
      <3> QED
        BY <3>1, <3>2
    <2> QED
      BY <1>1, <2>2, <2>6, <2>7 DEF CapInv, cap
  <1> QED
    BY <1>2, <1>3

(* The steps of a session's task.                                          *)
LEMMA TaskCap ==
  ASSUME TypeOK, TypeOK', CapInv, NEW s \in Sessions, Task(s)
  PROVE CapInv'
  <1> USE PlacesOfPermits
  <1>0. s \in Callers /\ NoCall.is = "none"
    BY DEF Callers, NoCall
  <1>1. ASSUME NoRequest(s)
        PROVE call'[s].is = "none" /\ \A d \in Callers \ {s} : call'[d] = call[d]
    BY <1>0, <1>1 DEF NoRequest, TypeOK
  <1>2. ASSUME Waits(s, 0) PROVE \A d \in Callers \ {s} : call'[d] = call[d]
    BY <1>2 DEF Waits, TypeOK
  <1>3. CASE Summarize(s)
    <2>1. PICK where \in {"summing", "idle"} : Goes(s, where)
      BY <1>3 DEF Summarize
    <2>2. where \notin HasSlot /\ where # "slot"
      BY <2>1
    <2> QED
      BY <1>1, <1>2, <1>3, <2>1, <2>2, LeavesCap DEF Summarize, limits
  <1>4. CASE Message(s)
    <2>1. CASE Goes(s, "slot") /\ NoRequest(s)
      <3>1. "slot" \notin HasSlot
        OBVIOUS
      <3> QED
        BY <1>1, <1>4, <2>1, <3>1, LeavesCap DEF Message, limits
    <2>2. CASE Goes(s, "held") /\ Waits(s, 0)
      <3>1. "held" \notin HasSlot /\ "held" # "slot"
        OBVIOUS
      <3> QED
        BY <1>2, <1>4, <2>2, <3>1, LeavesCap DEF Message, limits
    <2> QED
      BY <1>4, <2>1, <2>2 DEF Message
  <1>5. CASE TakeSlot(s)
    BY <1>5, TakeSlotCap
  <1>6. CASE Begin(s)
    BY <1>6, BeginCap
  <1>7. CASE TurnEnds(s)
    <2>1. PICK where \in {"reply", "idle"} : Goes(s, where)
      BY <1>7 DEF TurnEnds
    <2>2. where \notin HasSlot /\ where # "slot"
      BY <2>1
    <2>3. \A d \in Callers \ {s} : call'[d] = call[d] /\ made'[d] = made[d]
      BY <1>7 DEF TurnEnds, TypeOK
    <2> QED
      BY <1>7, <2>1, <2>2, <2>3, LeavesCap DEF TurnEnds
  <1>8. CASE Replied(s)
    <2>1. PICK where \in {"due", "idle"} : Goes(s, where)
      BY <1>8 DEF Replied
    <2>2. where \notin HasSlot /\ where # "slot"
      BY <2>1
    <2> QED
      BY <1>8, <2>1, <2>2, LeavesCap DEF Replied, limits
  <1>9. CASE Aborted(s)
    <2>1. Goes(s, "gone") /\ "gone" \notin HasSlot /\ "gone" # "slot"
      BY <1>9 DEF Aborted
    <2>2. \A d \in Callers \ {s} : call'[d] = call[d] /\ made'[d] = made[d]
      BY <1>1, <1>9 DEF Aborted, TypeOK
    <2> QED
      BY <1>9, <2>1, <2>2, LeavesCap DEF Aborted, limits
  <1> QED
    BY <1>3, <1>4, <1>5, <1>6, <1>7, <1>8, <1>9 DEF Task

(* The bound is no less than nothing: there is a slot, and a call in it.   *)
LEMMA BoundAtLeast ==
  ASSUME TypeOK, cap # NoCap PROVE cap - 1 + Slots * MaxCalls >= 0
  <1>1. cap \in Nat /\ Slots \in Nat \ {0} /\ MaxCalls \in Nat \ {0}
    BY LimitsAssumption DEF TypeOK, Setting, cap, Slots
  <1>2. \A m, n \in Nat \ {0} : m * n \in Nat /\ m * n >= 1
    <2>1. ASSUME NEW m \in Nat \ {0}, NEW n \in Nat \ {0} PROVE m * n \in Nat /\ m * n >= 1
      OBVIOUS
    <2> QED
      BY <2>1
  <1>3. Slots * MaxCalls \in Nat /\ Slots * MaxCalls >= 1
    BY <1>1, <1>2
  <1> QED
    BY <1>1, <1>3

(* A tenant's own steps: a tenant built anew has spent nothing, and none   *)
(* of its sessions is in a turn.                                           *)
LEMMA RunCap ==
  ASSUME TypeOK, TypeOK', CapInv, NEW u \in Tenants, Run(u)
  PROVE CapInv'
  <1> USE PlacesOfPermits
  <1>0. \A s \in Sessions : s \in Callers /\ s \notin Tenants /\ made[s] \in Nat
    BY TenantsAssumption DEF Callers, TypeOK
  <1>00. u \in Callers
    BY DEF Callers
  <1>1. CASE PassBegins(u) \/ PassEnds(u) \/ RunEnds(u)
    <2>1. UNCHANGED <<setting, call, spent, sums>>
      BY <1>1 DEF PassBegins, PassEnds, RunEnds, limits
    <2>2. \A s \in Sessions : at'[s] = at[s] /\ made'[s] = made[s]
      BY <1>0, <1>00, <1>1 DEF PassBegins, PassEnds, RunEnds, Goes, TypeOK
    <2>3. \A s \in Sessions : Over(s)' = Over(s) /\ Over(s) \in Int
      BY <1>0, <2>1, <2>2 DEF Over
    <2>4. NoneBegins
      BY <2>2, <2>3 DEF NoneBegins
    <2>5. Silent'
      BY <2>1, <2>2 DEF CapInv, Silent
    <2> QED
      BY <2>1, <2>4, <2>5, Nothing DEF CapInv
  <1>2. CASE Rebuilt(u)
    <2>1. UNCHANGED <<setting, call, made>> /\ cap' = cap
      BY <1>2 DEF Rebuilt, cap
    <2>2. \A s \in Sessions : at'[s] = IF Owner[s] = u THEN "idle" ELSE at[s]
      BY <1>0, <1>2 DEF Rebuilt, TenantOf
    <2>3. \A s \in Sessions : Over(s)' = Over(s) /\ Over(s) \in Int
      BY <1>0, <2>1 DEF Over
    <2>4. NoneBegins
      BY <2>2, <2>3 DEF NoneBegins
    <2>5. Silent'
      BY <2>1, <2>2 DEF CapInv, Silent
    <2>6. PermitsHeld'
      BY <2>1, <2>4, PermitsKept DEF CapInv
    <2>7. ASSUME cap # NoCap, NEW t \in Tenants PROVE Bounded(t)'
      <3>1. CASE t = u
        <4>1. spent'[t] = 0 /\ sums'[t] = 0
          BY <1>2, <3>1 DEF Rebuilt, TypeOK
        <4>2. ToCome(t)' = {}
          <5>1. Turning(t)' = {}
            BY <2>1, <2>2, <3>1 DEF Turning, Began, Owner
          <5> QED
            BY <5>1 DEF ToCome
        <4>3. Cardinality(ToCome(t)') = 0
          BY <4>2, FS_EmptySet
        <4>4. cap' - 1 + (Slots * MaxCalls)' >= 0
          BY <2>1, <2>7, BoundAtLeast DEF Slots
        <4> QED
          BY <4>1, <4>3, <4>4 DEF Bounded
      <3>2. CASE t # u
        <4>1. spent'[t] = spent[t] /\ sums'[t] = sums[t]
          BY <1>2, <3>2 DEF Rebuilt, TypeOK
        <4>2. ToCome(t)' \subseteq ToCome(t)
          BY <2>1, <2>4, NoMoreToCome
        <4> QED
          BY <2>1, <2>7, <4>1, <4>2, BoundKept DEF CapInv
      <3> QED
        BY <3>1, <3>2
    <2> QED
      BY <2>1, <2>5, <2>6, <2>7 DEF CapInv
  <1> QED
    BY <1>1, <1>2 DEF Run

(* At first nobody has a permit and nothing is spent.                      *)
LEMMA InitCap == Init => CapInv
  <1> SUFFICES ASSUME Init PROVE CapInv
    OBVIOUS
  <1> USE PlacesOfPermits
  <1>0. TypeOK
    BY InitInv DEF Inv
  <1>1. \A s \in Sessions : at[s] = "idle" /\ call[s].is = "none"
    BY TenantsAssumption DEF Init, Callers, NoCall
  <1>2. Began = {} /\ \A t \in Tenants : InTurn(t) = {} /\ ToCome(t) = {}
    BY <1>1 DEF Began, InTurn, ToCome, Turning
  <1>3. IsFiniteSet({}) /\ Cardinality({}) = 0
    BY FS_EmptySet
  <1>4. PermitsHeld
    <2>1. setting.worker \in Nat /\ setting.shard \in Nat
      BY <1>0, LimitsAssumption DEF TypeOK, Setting
    <2> QED
      BY <1>2, <1>3, <2>1 DEF PermitsHeld
  <1>5. Silent
    BY <1>1 DEF Silent
  <1>6. ASSUME cap # NoCap, NEW t \in Tenants PROVE Bounded(t)
    <2>1. spent[t] = 0 /\ sums[t] = 0 /\ Cardinality(ToCome(t)) = 0
      BY <1>2, <1>3 DEF Init
    <2>2. cap - 1 + Slots * MaxCalls >= 0
      BY <1>0, <1>6, BoundAtLeast
    <2> QED
      BY <2>1, <2>2 DEF Bounded
  <1> QED
    BY <1>4, <1>5, <1>6 DEF CapInv

(* Every step keeps it.                                                    *)
LEMMA StepCap == TypeOK /\ TypeOK' /\ CapInv /\ [Next]_vars => CapInv'
  <1> SUFFICES ASSUME TypeOK, TypeOK', CapInv, [Next]_vars PROVE CapInv'
    OBVIOUS
  <1>1. CASE Next
    BY <1>1, TickCap, RequestCap, TaskCap, RunCap DEF Next
  <1>2. CASE UNCHANGED vars
    BY <1>2 DEF vars, limits, CapInv, PermitsHeld, Silent, Bounded, ToCome, Turning, Began,
                InTurn, Over, Owner, cap, Slots
  <1> QED
    BY <1>1, <1>2

LEMMA CapInvariance == Spec => []CapInv
  <1>1. Inv => TypeOK
    BY DEF Inv
  <1> QED
    BY <1>1, Invariance, InitCap, StepCap, PTL DEF Spec

(* What is spent is within the bound, as what is still to come is not      *)
(* negative.                                                               *)
LEMMA CapImplied == TypeOK /\ CapInv => CapOvershoot
  <1> SUFFICES ASSUME TypeOK, CapInv, cap # NoCap, NEW t \in Tenants
               PROVE spent[t] - sums[t] <= cap - 1 + Slots * MaxCalls
    BY DEF CapOvershoot
  <1>1. spent[t] - sums[t] + Cardinality(ToCome(t)) <= cap - 1 + Slots * MaxCalls
    BY DEF CapInv, Bounded
  <1>2. Cardinality(ToCome(t)) \in Nat
    BY ToComeBounded DEF CapInv
  <1>3. spent[t] - sums[t] \in Int
    BY DEF TypeOK
  <1> DEFINE b == cap - 1 + Slots * MaxCalls
  <1>4. b \in Int
    <2>1. cap \in Int /\ Slots \in Int /\ MaxCalls \in Int
      BY LimitsAssumption DEF TypeOK, Setting, cap, Slots
    <2>2. Slots * MaxCalls \in Int
      BY <2>1
    <2> QED
      BY <2>1, <2>2
  <1> HIDE DEF b
  <1>5. spent[t] - sums[t] <= b
    BY <1>1, <1>2, <1>3, <1>4 DEF b
  <1> QED
    BY <1>5 DEF b

(* No engine goes further past its ceiling than the turns its slots hold   *)
(* still call for, and its summaries: for any number of tenants and        *)
(* sessions, any slots, ceiling and calls of a turn, a ceiling of none     *)
(* among them.                                                             *)
THEOREM CeilingHolds == Spec => []CapOvershoot
  <1>1. Inv => TypeOK
    BY DEF Inv
  <1> QED
    BY <1>1, Invariance, CapInvariance, CapImplied, PTL

\* No more turns at once than the shard has slots, nor a tenant's than its worker has.
SlotsRespected == /\ Cardinality(Began) <= setting.shard
                  /\ \A t \in Tenants : Cardinality(InTurn(t)) <= setting.worker

(* The two semaphores bound the turns of any number of sessions: of all    *)
(* the tenants together by the shard's slots, of each by its own.          *)
THEOREM SlotsHold == Spec => []SlotsRespected
  <1>1. CapInv => SlotsRespected
    BY DEF CapInv, PermitsHeld, SlotsRespected
  <1> QED
    BY <1>1, CapInvariance, PTL
=============================================================================
