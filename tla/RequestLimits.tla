---------------------------- MODULE RequestLimits ----------------------------
(***************************************************************************)
(* What keeps a process within its means, over all of its tenants: the     *)
(* worker slots of each dispatcher and the shard's over them, the ceiling  *)
(* on an engine's model requests, and the throttle and the retries of the  *)
(* clients that make them.                                                 *)
(*                                                                         *)
(* A session's task and a dispatcher's pass are the callers.  Each makes   *)
(* one request at a time; those of the tenants with one endpoint and key   *)
(* go through one throttle.  A permit lives as long as the scope it was    *)
(* taken in, so who holds one follows from where he is.                    *)
(***************************************************************************)
EXTENDS Integers, FiniteSets

CONSTANTS Sessions, Tenants,
          Accounts,
          Account,     \* the endpoint and key of each tenant
          Evolving,    \* the tenants whose evolution is enabled
          NoCap,       \* no ceiling
          Settings,    \* what the process may be started with
          Interval,    \* min_interval_ms, in ticks
          MaxAttempts, \* max_attempts
          MaxCalls     \* model calls of a turn or a pass, a bound of the model

\* The tenant of each session, the worker slots of each tenant, the shard's, max_requests.
Setting == [owner : [Sessions -> Tenants], worker : Nat \ {0}, shard : Nat \ {0},
            cap : Nat \cup {NoCap}]

ASSUME TenantsAssumption == /\ Account \in [Tenants -> Accounts]
                            /\ Sessions \cap Tenants = {} /\ Evolving \subseteq Tenants
ASSUME LimitsAssumption == /\ NoCap \notin Nat /\ Settings \subseteq Setting
                           /\ Interval \in Nat /\ MaxAttempts \in Nat \ {0}
                           /\ MaxCalls \in Nat \ {0}

VARIABLES setting,   \* one of Settings
          at,        \* where a session's task, or a tenant's dispatcher, is
          call,      \* the request a caller is making
          made,      \* calls of its turn or pass so far
          worked,    \* the tenants with a turn since their last pass, where there are passes
          capped,    \* the tenants that have been refused a turn for their ceiling
          spent,     \* the engine's count of requests
          since,     \* ticks since the account's last request, up to Interval
          sums,      \* history: of those spent, the summaries'
          overtaken  \* history: sleepers who were not alone: another has posted meanwhile

limits == <<setting, worked, capped, spent, sums>>
throttle == <<since, overtaken>>
vars == <<at, call, made, limits, throttle>>

Owner == setting.owner
cap == setting.cap

Callers == Sessions \cup Tenants
TenantOf(c) == IF c \in Tenants THEN c ELSE Owner[c]
AccountOf(c) == Account[TenantOf(c)]

NoCall == [is |-> "none", tries |-> 0, left |-> 0]

Init == /\ setting \in Settings
        /\ at = [c \in Callers |-> IF c \in Tenants THEN "rest" ELSE "idle"]
        /\ call = [c \in Callers |-> NoCall]
        /\ made = [c \in Callers |-> 0]
        /\ worked = {} /\ capped = {}
        /\ spent = [t \in Tenants |-> 0] /\ sums = [t \in Tenants |-> 0]
        /\ since = [a \in Accounts |-> Interval]
        /\ overtaken = {}

Goes(c, where) == at' = [at EXCEPT ![c] = where]

-----------------------------------------------------------------------------
(* Permits.                                                                *)

\* Mutant of HasBoth: the permits go back after the reply.
HasBothReplying == {"turn", "reply"}
\* A permit of the tenant's and one of the shard's; both go back before the reply.
HasBoth == {"turn"}
HasSlot == HasBoth \cup {"shard"}

InTurn(t) == {s \in Sessions : Owner[s] = t /\ at[s] \in HasSlot}
SlotFree(t) == at[t] # "pass" /\ Cardinality(InTurn(t)) < setting.worker
Slots == IF setting.worker < setting.shard THEN setting.worker ELSE setting.shard
ShardFree == Cardinality({s \in Sessions : at[s] \in HasBoth}) < setting.shard

-----------------------------------------------------------------------------
(* A request: chat_into, with the throttle before each attempt.            *)

\* The clocks of everyone who sleeps.
Tick ==
  /\ since' = [a \in Accounts |-> IF since[a] < Interval THEN since[a] + 1 ELSE Interval]
  /\ call' = [c \in Callers |-> IF call[c].left > 0 THEN [call[c] EXCEPT !.left = @ - 1]
                                                    ELSE call[c]]
  /\ <<since, call>>' # <<since, call>>
  /\ UNCHANGED <<at, made, limits, overtaken>>

\* An attempt: wait reads the time of the last request and sleeps for the rest of the interval.
Waits(c, attempt) ==
  /\ call' = [call EXCEPT ![c] = [is |-> "sleep", tries |-> attempt,
                                  left |-> Interval - since[AccountOf(c)]]]
  /\ overtaken' = overtaken \ {c}

NoRequest(c) == /\ call' = [call EXCEPT ![c] = NoCall]
                /\ overtaken' = overtaken \ {c}

Sleepers(a) == {c \in Callers : call[c].is = "sleep" /\ AccountOf(c) = a}

\* It wakes, claims the slot and posts, and does not look again who else has.
Post(c) == /\ call[c].is = "sleep" /\ call[c].left = 0
           /\ call' = [call EXCEPT ![c].is = "sent"]
           /\ since' = [since EXCEPT ![AccountOf(c)] = 0]
           /\ overtaken' = (overtaken \cup Sleepers(AccountOf(c))) \ {c}
           /\ UNCHANGED <<at, made, limits>>

\* The task goes on where the end of its call lets it.
Ends(c) == /\ call[c].is = "sent"
           /\ call' = [call EXCEPT ![c] = NoCall]
           /\ Goes(c, CASE at[c] = "held" -> "slot" [] at[c] = "summing" -> "idle"
                        [] OTHER -> at[c])

Booked(c) == /\ spent' = [spent EXCEPT ![Owner[c]] = @ + 1]
             /\ sums' = [sums EXCEPT ![Owner[c]] = IF at[c] = "turn" THEN @ ELSE @ + 1]

\* record_model_calls: a call that succeeded is one, however many requests it took.  Nobody
\* reads the count of an engine without a ceiling, and a pass has no count.
Succeed(c) == /\ Ends(c)
              /\ IF c \in Sessions /\ cap # NoCap THEN Booked(c) ELSE UNCHANGED <<spent, sums>>
              /\ UNCHANGED <<setting, made, worked, capped, throttle>>

\* A status that is not to be retried, or the last attempt.
GiveUp(c) == Ends(c) /\ UNCHANGED <<made, limits, throttle>>

BackOff(c) == /\ call[c].is = "sent" /\ call[c].tries + 1 < MaxAttempts
              /\ call' = [call EXCEPT ![c] = [is |-> "backoff", tries |-> @.tries + 1, left |-> 0]]
              /\ UNCHANGED <<at, made, limits, throttle>>

\* Mutant of Again: the throttle is asked once, before the loop.
AgainUnasked(c) == /\ call[c].is = "backoff"
                   /\ call' = [call EXCEPT ![c].is = "sleep"]
                   /\ UNCHANGED <<at, made, limits, throttle>>
Again(c) == /\ call[c].is = "backoff"
            /\ Waits(c, call[c].tries)
            /\ UNCHANGED <<at, made, limits, since>>

\* The next call of a turn or a pass.
Call(c) == /\ at[c] \in {"turn", "pass"} /\ call[c] = NoCall /\ made[c] < MaxCalls
           /\ Waits(c, 0)
           /\ made' = [made EXCEPT ![c] = @ + 1]
           /\ UNCHANGED <<at, limits, since>>

-----------------------------------------------------------------------------
(* A session's task.                                                       *)

\* After a reply: a summary, if one is due, beside the wait for the next message.
Summarize(s) == /\ at[s] = "due"
                /\ \/ Goes(s, "summing") /\ Waits(s, 0)
                   \/ Goes(s, "idle") /\ NoRequest(s)
                /\ UNCHANGED <<made, limits, since>>

\* A message.  A summary on its way is dropped and, if one is due, begun anew before the turn.
Message(s) == /\ \/ /\ at[s] \in {"idle", "due", "summing"}
                    /\ Goes(s, "slot") /\ NoRequest(s)
                 \/ /\ at[s] \in {"due", "summing"}
                    /\ Goes(s, "held") /\ Waits(s, 0)
              /\ UNCHANGED <<made, limits, since>>

TakeSlot(s) == /\ at[s] = "slot" /\ SlotFree(Owner[s])
               /\ Goes(s, "shard")
               /\ UNCHANGED <<call, made, limits, throttle>>

\* Mutant of Reached: one request too late.
ReachedLate(t) == cap # NoCap /\ spent[t] > cap
Reached(t) == cap # NoCap /\ spent[t] >= cap

\* With both permits: cap_reached, then the turn.  A turn refused for the cap is the run's end.
Begin(s) == /\ at[s] = "shard" /\ ShardFree
            /\ IF Reached(Owner[s]) THEN Goes(s, "idle") /\ capped' = capped \cup {Owner[s]}
                                    ELSE Goes(s, "turn") /\ UNCHANGED capped
            /\ UNCHANGED <<setting, call, made, worked, spent, sums, throttle>>

\* A turn that fails ends its session, which the next message opens anew; what else may end
\* with it is Dispatcher's.
TurnEnds(s) == /\ at[s] = "turn" /\ call[s] = NoCall
               /\ made' = [made EXCEPT ![s] = 0]
               /\ \/ Goes(s, "reply") /\ worked' = worked \cup ({Owner[s]} \cap Evolving)
                  \/ Goes(s, "idle") /\ UNCHANGED worked
               /\ UNCHANGED <<setting, call, capped, spent, sums, throttle>>

\* The reply is sent, which may take as long as it likes, or is refused.
Replied(s) == /\ at[s] = "reply"
              /\ \E where \in {"due", "idle"} : Goes(s, where)
              /\ UNCHANGED <<call, made, limits, throttle>>

-----------------------------------------------------------------------------
(* A tenant's dispatcher.                                                  *)

\* A pass takes every slot, and is not installed under a ceiling.
PassBegins(t) == /\ at[t] = "rest" /\ t \in worked /\ cap = NoCap /\ InTurn(t) = {}
                 /\ Goes(t, "pass")
                 /\ UNCHANGED <<call, made, limits, throttle>>

PassEnds(t) == /\ at[t] = "pass" /\ call[t] = NoCall
               /\ Goes(t, "rest")
               /\ made' = [made EXCEPT ![t] = 0]
               /\ worked' = worked \ {t}
               /\ UNCHANGED <<setting, call, capped, spent, sums, throttle>>

\* The run returns, and its tasks are aborted one by one.
RunEnds(t) == /\ at[t] = "rest" /\ t \in capped
              /\ Goes(t, "ended")
              /\ UNCHANGED <<call, made, limits, throttle>>

Aborted(s) == /\ at[Owner[s]] = "ended" /\ at[s] # "gone"
              /\ Goes(s, "gone") /\ NoRequest(s)
              /\ made' = [made EXCEPT ![s] = 0]
              /\ UNCHANGED <<limits, since>>

\* The registry builds the tenant anew: another engine, with a count of its own.
Rebuilt(t) == /\ at[t] = "ended"
              /\ \A s \in Sessions : Owner[s] = t => at[s] = "gone"
              /\ at' = [c \in Callers |-> IF c = t THEN "rest"
                                          ELSE IF TenantOf(c) = t THEN "idle" ELSE at[c]]
              /\ worked' = worked \ {t} /\ capped' = capped \ {t}
              /\ spent' = [spent EXCEPT ![t] = 0] /\ sums' = [sums EXCEPT ![t] = 0]
              /\ UNCHANGED <<setting, call, made, throttle>>

-----------------------------------------------------------------------------

Request(c) == Post(c) \/ Succeed(c) \/ GiveUp(c) \/ BackOff(c) \/ Again(c) \/ Call(c)
Task(s) == \/ Summarize(s) \/ Message(s) \/ TakeSlot(s) \/ Begin(s) \/ TurnEnds(s) \/ Replied(s)
           \/ Aborted(s)
Run(t) == PassBegins(t) \/ PassEnds(t) \/ RunEnds(t) \/ Rebuilt(t)

Next == \/ Tick
        \/ \E c \in Callers : Request(c)
        \/ \E s \in Sessions : Task(s)
        \/ \E t \in Tenants : Run(t)

Spec == Init /\ [][Next]_vars

(* Time passes, a request is answered or times out, the runtime polls what *)
(* is ready, and tokio's semaphores are first come, first served.  Nobody  *)
(* has to write, a reply need not get through, and no pass need begin.     *)
Fairness == /\ WF_vars(Tick)
            /\ \A c \in Callers : WF_vars(Request(c))
            /\ \A s \in Sessions : /\ WF_vars(TurnEnds(s)) /\ WF_vars(Aborted(s))
                                   /\ SF_vars(TakeSlot(s)) /\ SF_vars(Begin(s))
            /\ \A t \in Tenants : WF_vars(PassEnds(t)) /\ WF_vars(RunEnds(t))

FairSpec == Spec /\ Fairness

-----------------------------------------------------------------------------
(* Properties.                                                             *)

Requests == [is : {"none", "sleep", "sent", "backoff"}, tries : Nat, left : 0 .. Interval]

Places == {"idle", "due", "summing", "held", "slot", "shard", "turn", "reply", "gone", "rest",
           "pass", "ended"}

(* The types of the state.                                                 *)
TypeOK == /\ setting \in Settings
          /\ at \in [Callers -> Places]
          /\ call \in [Callers -> Requests]
          /\ made \in [Callers -> 0 .. MaxCalls]
          /\ worked \subseteq Evolving /\ capped \subseteq Tenants
          /\ spent \in [Tenants -> Nat] /\ sums \in [Tenants -> Nat]
          /\ since \in [Accounts -> 0 .. Interval]
          /\ overtaken \subseteq Callers

Posted(c) == call[c].is = "sleep" /\ call'[c].is = "sent"

(* Requests of one account are an interval apart, whoever makes them and   *)
(* on whichever attempt, unless one was waiting already when another went: *)
(* Throttle::wait does not look again when it wakes.                       *)
PacedApart == [][\A c \in Callers :
                   Posted(c) => since[AccountOf(c)] = Interval \/ c \in overtaken]_vars

(* How far an engine goes past its ceiling: no turn begins at or over it,  *)
(* so what exceeds it is what the turns then in progress still call for,   *)
(* as many as there are slots, and the summaries, which ask nobody.        *)
CapOvershoot ==
  cap # NoCap => \A t \in Tenants : spent[t] - sums[t] <= cap - 1 + Slots * MaxCalls

Accepted == {"held", "slot", "shard"}

(* A message a session has accepted gets its turn, or its tenant's run is  *)
(* over: not a slow summary, not a reply nobody reads, not a pass with all *)
(* of the tenant's slots nor another tenant with the shard's keeps it.     *)
EveryTurnGetsOn == \A s \in Sessions : at[s] \in Accepted ~> at[s] \notin Accepted
=============================================================================
