---------------------------- MODULE TenantRegistry ----------------------------
(***************************************************************************)
(* app/src/registry: the serve loop that turns the names of the wake stream *)
(* into running engines, what a company's failure costs, and the eviction   *)
(* of companies gone quiet, over the queues of channel-hub.                 *)
(*                                                                         *)
(* One task runs the loop and is the only caller of resolve, so the build   *)
(* lock is never contended.  An engine is its dispatcher's run; its session *)
(* tasks are cancelled with it and may hold the channel a moment longer.    *)
(***************************************************************************)
EXTENDS Hub

CONSTANTS
  FatalTenants,  \* RegistryLimits::store_fatal_tenants
  MaxFaults      \* bound: failed builds, failed runs and lingering cancellations

ASSUME RegistryAssumption == FatalTenants \in Nat \ {0} /\ MaxFaults \in Nat

VARIABLES
  pc,           \* where the serve loop is
  who,          \* the company it is resolving or evicting
  todo,         \* the companies still to be evicted by this sweep or shutdown
  live,         \* the companies with an entry in the live map
  engine,       \* where each company's spawned run is
  linger,       \* companies whose cancelled session tasks still hold the channel
  quarantined,  \* companies whose backoff has not elapsed
  storeErrors,  \* companies with a store error inside the window
  fatal,        \* a ShardFatal was recorded
  result,       \* what serve returns
  faults,       \* faults left
  stranded      \* history: companies whose messages the code names to nobody

regVars == <<pc, who, todo, live, engine, linger, quarantined, storeErrors, fatal, result,
             faults, stranded>>
vars == <<hubVars, regVars>>

\* "finishing" is in finish before the channel is dropped, "dropped" after it.
EngineStates == {"off", "idle", "busy", "finishing", "dropped"}

\* The registry's own handle on the channel: Live::channel is Some.
Kept(c) == c \in live /\ engine[c] # "dropped"

\* What who is while the loop has nobody in hand.
Nobody == CHOOSE c \in Companies : TRUE

Init ==
  /\ HubInit
  /\ pc = "select" /\ who = Nobody /\ todo = {}
  /\ live = {} /\ linger = {} /\ quarantined = {} /\ storeErrors = {} /\ stranded = {}
  /\ engine = [c \in Companies |-> "off"]
  /\ fatal = FALSE /\ result = "running" /\ faults = MaxFaults

-----------------------------------------------------------------------------
(* Dropping a channel: a call that looked its sender up while the receiver  *)
(* was held wakes nobody when its message comes after the drop.             *)

Park(c) ==
  /\ Drop(c)
  /\ stranded' = IF waiting[c] = 0 /\ Calling(c) # {} THEN stranded \cup {c} ELSE stranded

\* Mutant: the receiver goes back though cancelled tasks still hold the channel.
ParkAtOnce(c, l) == Park(c)

\* The last handle drops the channel; the cancelled tasks in l hold one too.
LetGo(c, l) == IF c \in l THEN UNCHANGED <<hubVars, stranded>> ELSE Park(c)

\* A run that is gone: its session tasks are cancelled, at once or in a while.
Cancelled(c, left) ==
  \/ linger' = linger /\ faults' = left
  \/ left > 0 /\ linger' = linger \cup {c} /\ faults' = left - 1

-----------------------------------------------------------------------------
(* The serve loop.                                                          *)

\* The select is biased: a fatal failure, then a name, then the sweep.
TakeName ==
  /\ pc = "select" /\ ~fatal
  /\ NextName
  /\ pc' = "resolve" /\ who' = Head(wakes)
  /\ UNCHANGED <<todo, live, engine, linger, quarantined, storeErrors, fatal, result, faults,
                 stranded>>

\* resolve: backing off, live already, or drained by somebody: nothing is built.
ResolveNothing ==
  /\ pc = "resolve"
  /\ who \in quarantined \cup live \/ who \notin parked
  /\ pc' = "select" /\ who' = Nobody
  /\ stranded' = IF who \in parked THEN stranded \cup {who} ELSE stranded
  /\ UNCHANGED <<hubVars, todo, live, engine, linger, quarantined, storeErrors, fatal,
                 result, faults>>

\* resolve takes the receiver for a build.
Resolve ==
  /\ pc = "resolve" /\ who \notin quarantined \cup live
  /\ Take(who)
  /\ pc' = "build"
  /\ stranded' = stranded \ {who}
  /\ UNCHANGED <<who, todo, live, engine, linger, quarantined, storeErrors, fatal, result, faults>>

\* Registered before it is spawned, so a run that ends at once finds its entry.
BuildOk ==
  /\ pc = "build"
  /\ live' = live \cup {who}
  /\ engine' = [engine EXCEPT ![who] = "idle"]
  /\ pc' = "select" /\ who' = Nobody
  /\ UNCHANGED <<hubVars, todo, linger, quarantined, storeErrors, fatal, result, faults,
                 stranded>>

\* The company is quarantined, then the channel built for it is dropped.
BuildFails ==
  /\ pc = "build" /\ faults > 0
  /\ Park(who)
  /\ quarantined' = quarantined \cup {who}
  /\ faults' = faults - 1
  /\ pc' = "select" /\ who' = Nobody
  /\ UNCHANGED <<todo, live, engine, linger, storeErrors, fatal, result>>

\* sweep_idle; a company with a message waiting has not been idle that long.
Sweep ==
  /\ pc = "select" /\ ~fatal /\ wakes = <<>> /\ ~closed
  /\ \E idle \in SUBSET {c \in live : waiting[c] = 0} \ {{}} : todo' = idle
  /\ pc' = "evict"
  /\ UNCHANGED <<hubVars, who, live, engine, linger, quarantined, storeErrors, fatal, result,
                 faults, stranded>>

\* Mutant: the shutdown keeps the wake stream open, and the loop waits on it.
StopOnFatal ==
  /\ pc = "select" /\ fatal
  /\ todo' = live
  /\ pc' = IF live = {} THEN "stopped" ELSE "evict"
  /\ result' = "fatal"
  /\ UNCHANGED <<hubVars, who, live, engine, linger, quarantined, storeErrors, fatal, faults,
                 stranded>>

\* The loop ends on a fatal failure or with the wake stream; everyone is let go.
StopLoop ==
  /\ pc = "select" /\ (fatal \/ (closed /\ wakes = <<>>))
  /\ todo' = live
  /\ pc' = IF live = {} THEN "stopped" ELSE "evict"
  /\ result' = IF fatal THEN "fatal" ELSE "ok"
  /\ UNCHANGED <<hubVars, who, live, engine, linger, quarantined, storeErrors, fatal, faults,
                 stranded>>

\* Mutant of Evict: the run is aborted and not awaited.
EvictUnawaited ==
  /\ pc = "evict"
  /\ \E c \in todo :
       /\ who' = c
       /\ engine' = [engine EXCEPT ![c] = IF @ \in {"idle", "busy"} THEN "off" ELSE @]
  /\ pc' = "unregister"
  /\ UNCHANGED <<hubVars, todo, live, linger, quarantined, storeErrors, fatal, result, faults,
                 stranded>>

\* evict: abort and await the run.  One already in finish has no await left to be
\* aborted at, and is waited for.
Evict ==
  /\ pc = "evict"
  /\ \E c \in todo :
       /\ engine[c] \in {"off", "idle", "busy"}
       /\ who' = c
       /\ engine' = [engine EXCEPT ![c] = "off"]
       /\ IF engine[c] = "off" THEN UNCHANGED <<linger, faults>> ELSE Cancelled(c, faults)
  /\ pc' = "unregister"
  /\ UNCHANGED <<hubVars, todo, live, quarantined, storeErrors, fatal, result, stranded>>

\* unregister; nobody but this loop looks at the entry between the two steps.
Unregister ==
  /\ pc = "unregister"
  /\ live' = live \ {who}
  /\ IF Kept(who) THEN LetGo(who, linger) ELSE UNCHANGED <<hubVars, stranded>>
  /\ todo' = todo \ {who} /\ who' = Nobody
  /\ pc' = CASE todo' # {} -> "evict"
             [] todo' = {} /\ result = "running" -> "select"
             [] OTHER -> "stopped"
  /\ result' = IF pc' = "stopped" /\ fatal THEN "fatal" ELSE result
  /\ UNCHANGED <<engine, linger, quarantined, storeErrors, fatal, faults>>

Serve == TakeName \/ ResolveNothing \/ Resolve \/ BuildOk \/ StopLoop \/ Evict \/ Unregister

-----------------------------------------------------------------------------
(* An engine's run, and finish on the same task.                            *)

EngineTakes(c) ==
  /\ engine[c] \in {"idle", "busy"}
  /\ Recv(c)
  /\ engine' = [engine EXCEPT ![c] = "busy"]
  /\ UNCHANGED <<pc, who, todo, live, linger, quarantined, storeErrors, fatal, result, faults,
                 stranded>>

EngineReplies(c) ==
  /\ engine[c] = "busy"
  /\ engine' = [engine EXCEPT ![c] = "idle"]
  /\ UNCHANGED <<hubVars, pc, who, todo, live, linger, quarantined, storeErrors, fatal, result,
                 faults, stranded>>

\* on_tenant_error for a store error, and what finish does with the verdict.
StoreError(c) ==
  /\ storeErrors' = storeErrors \cup {c}
  /\ IF Cardinality(storeErrors') >= FatalTenants THEN fatal' = TRUE /\ UNCHANGED quarantined
     ELSE quarantined' = quarantined \cup {c} /\ UNCHANGED fatal

\* The request cap, or the channel: this company's alone.
OtherError(c) ==
  /\ quarantined' = quarantined \cup {c}
  /\ UNCHANGED <<storeErrors, fatal>>

\* A run ends with an error only from a turn; its other sessions are cancelled.
EngineFails(c) ==
  /\ engine[c] = "busy" /\ faults > 0
  /\ StoreError(c) \/ OtherError(c)
  /\ engine' = [engine EXCEPT ![c] = "finishing"]
  /\ Cancelled(c, faults - 1)
  /\ UNCHANGED <<hubVars, pc, who, todo, live, result, stranded>>

\* The channel closed and every session was joined.
EngineEnds(c) ==
  /\ engine[c] = "idle" /\ Ended(c)
  /\ engine' = [engine EXCEPT ![c] = "finishing"]
  /\ UNCHANGED <<hubVars, pc, who, todo, live, linger, quarantined, storeErrors, fatal, result,
                 faults, stranded>>

\* unregister, on the run's own task: the channel is dropped first.
FinishDrops(c) ==
  /\ engine[c] = "finishing"
  /\ engine' = [engine EXCEPT ![c] = "dropped"]
  /\ LetGo(c, linger)
  /\ UNCHANGED <<pc, who, todo, live, linger, quarantined, storeErrors, fatal, result, faults>>

\* Mutant of FinishRemoves: the entry of a fatal failure is left behind.
FinishKeepsEntry(c) ==
  /\ engine[c] = "dropped"
  /\ engine' = [engine EXCEPT ![c] = "off"]
  /\ live' = IF fatal THEN live ELSE live \ {c}
  /\ UNCHANGED <<hubVars, pc, who, todo, linger, quarantined, storeErrors, fatal, result, faults,
                 stranded>>

FinishRemoves(c) ==
  /\ engine[c] = "dropped"
  /\ engine' = [engine EXCEPT ![c] = "off"]
  /\ live' = live \ {c}
  /\ UNCHANGED <<hubVars, pc, who, todo, linger, quarantined, storeErrors, fatal, result, faults,
                 stranded>>

\* The runtime drops the last of the cancelled session tasks.
Release(c) ==
  /\ c \in linger
  /\ linger' = linger \ {c}
  /\ IF Kept(c) THEN UNCHANGED <<hubVars, stranded>> ELSE Park(c)
  /\ UNCHANGED <<pc, who, todo, live, engine, quarantined, storeErrors, fatal, result, faults>>

Run(c) ==
  EngineTakes(c) \/ EngineReplies(c) \/ EngineEnds(c) \/ FinishDrops(c) \/ FinishRemoves(c)

-----------------------------------------------------------------------------
(* Time: a backoff elapses, a store error leaves the window.                *)

BackoffElapses(c) ==
  /\ c \in quarantined
  /\ quarantined' = quarantined \ {c}
  /\ UNCHANGED <<hubVars, pc, who, todo, live, engine, linger, storeErrors, fatal, result, faults,
                 stranded>>

WindowPasses(c) ==
  /\ c \in storeErrors
  /\ storeErrors' = storeErrors \ {c}
  /\ UNCHANGED <<hubVars, pc, who, todo, live, engine, linger, quarantined, fatal, result, faults,
                 stranded>>

Ingress ==
  /\ \E k \in Calls : HandOver(k) \/ TimesOut(k)
  /\ UNCHANGED regVars

\* Bound: a hub that closes does so before the last of the calls.
Closing ==
  /\ \/ Shutdown /\ \E k \in Calls : at[k] = "new"
     \/ NotifyWaiters
  /\ UNCHANGED regVars

\* Once serve returns the process drops its ways in and ends.
Next ==
  /\ pc # "stopped"
  /\ \/ Serve \/ BuildFails \/ Sweep \/ Ingress \/ Closing
     \/ \E c \in Companies : Run(c) \/ EngineFails(c) \/ Release(c) \/ BackoffElapses(c)
                             \/ WindowPasses(c)

\* The runtime runs some task as long as one can run, and time passes; nobody has
\* to call or to close, nothing has to fail or to go idle, and no webhook has to
\* reach its deadline.  With the calls and the faults bounded no behaviour goes
\* round, so this gives every task its turn.
Progress ==
  \/ Serve
  \/ NotifyWaiters /\ UNCHANGED regVars
  \/ \E k \in Calls : at[k] # "new" /\ HandOver(k) /\ UNCHANGED regVars
  \/ \E c \in Companies : Run(c) \/ Release(c) \/ BackoffElapses(c)

Fairness == WF_vars(pc # "stopped" /\ Progress)

Spec == Init /\ [][Next]_vars
FairSpec == Spec /\ Fairness

-----------------------------------------------------------------------------
TypeOK ==
  /\ HubTypeOK
  /\ pc \in {"select", "resolve", "build", "evict", "unregister", "stopped"}
  /\ who \in Companies
  /\ engine \in [Companies -> EngineStates]
  /\ \A S \in {todo, live, linger, quarantined, storeErrors, stranded} : S \subseteq Companies
  /\ fatal \in BOOLEAN /\ result \in {"running", "ok", "fatal"} /\ faults \in 0..MaxFaults

\* "A company has one engine, and two drains of one queue would split its
\* conversation in half": none is built or runs while another engine of the
\* company, or a session task of one, still has its receiver.
OneDrain ==
  \A c \in Companies :
    /\ pc = "build" /\ who = c => c \notin live \cup linger /\ engine[c] = "off"
    /\ engine[c] \in {"idle", "busy"} => c \in held \ linger

\* A company counted as live has an engine, unless the loop is letting it go:
\* otherwise every later name of the company is taken for a live one's.
LiveHasEngine ==
  \A c \in Companies :
    engine[c] = "off" => c \notin live \/ (pc = "unregister" /\ who = c)

\* When serve returns no engine is left, none is still finishing, and a failure
\* that ends the shard is what it returns, whichever of the loop's exits it took.
StoppedMeansStopped ==
  pc = "stopped" =>
    /\ live = {} /\ \A c \in Companies : engine[c] = "off"
    /\ fatal => result = "fatal"

\* A message in a company's queue is drained whatever the other companies do,
\* unless the company was stranded, the hub closed or the shard stopped.
CompanyServed ==
  \A c \in Companies :
    waiting[c] > 0 ~> waiting[c] = 0 \/ closed \/ fatal \/ c \in stranded

\* The last way in closing, or a failure wide enough, ends the serve loop.
ServeEnds == closed \/ fatal ~> pc = "stopped"

\* What the code's tests and comments say of a company that failed: it is
\* "retried with a backoff".
RetriedAfterBackoff ==
  \A c \in Companies :
    c \in quarantined /\ waiting[c] > 0 ~>
      (pc = "build" /\ who = c) \/ waiting[c] = 0 \/ closed \/ fatal
=============================================================================
