---------------------------- MODULE RegistryProofs ----------------------------
(***************************************************************************)
(* Proofs about TenantRegistry, for any companies, calls, queue depth and   *)
(* failure limits.                                                         *)
(***************************************************************************)
EXTENDS TenantRegistry, TLAPS

-----------------------------------------------------------------------------
(* The hub.                                                                 *)

HubInv == HubTypeOK /\ OneNamePerCompany

\* The wake stream was asked for a name and gave c: it does not name c again,
\* and nobody else takes c's receiver, until the name is answered.
InHand(c) ==
  /\ \A i \in DOMAIN wakes : wakes[i] # c
  /\ ~closed => c \in woken

-----------------------------------------------------------------------------
\* A wake adds the company's name when none is outstanding, and only then.
LEMMA Waking ==
  ASSUME wakes \in Seq(Companies),
         \A i, j \in DOMAIN wakes : wakes[i] = wakes[j] => i = j,
         NEW c \in Companies, NEW p \in SUBSET Companies, NEW w \in SUBSET p,
         \A i \in DOMAIN wakes : wakes[i] \in w,
         Wake(c, p, w)
  PROVE  /\ woken' \subseteq p /\ w \subseteq woken'
         /\ wakes' \in Seq(Companies)
         /\ \A i, j \in DOMAIN wakes' : wakes'[i] = wakes'[j] => i = j
         /\ \A i \in DOMAIN wakes' : wakes'[i] \in woken'
         /\ \A d \in w : (\A i \in DOMAIN wakes : wakes[i] # d)
                           => \A i \in DOMAIN wakes' : wakes'[i] # d
<1>1. CASE c \in p \ w
  <2>1. woken' = w \cup {c} /\ wakes' = Append(wakes, c)
    BY <1>1 DEF Wake
  <2>2. /\ wakes' \in Seq(Companies)
        /\ DOMAIN wakes' = DOMAIN wakes \cup {Len(wakes) + 1}
        /\ \A i \in DOMAIN wakes : wakes'[i] = wakes[i]
        /\ wakes'[Len(wakes) + 1] = c
    BY <2>1
  <2> QED
    BY <1>1, <2>1, <2>2
<1>2. CASE c \notin p \ w
  BY <1>2 DEF Wake
<1> QED
  BY <1>1, <1>2

\* The rest of a sequence without repetition does not repeat its head.
LEMMA Naming ==
  ASSUME NEW s \in Seq(Companies), s # <<>>,
         \A i, j \in DOMAIN s : s[i] = s[j] => i = j
  PROVE  /\ Head(s) = s[1] /\ Head(s) \in Companies /\ 1 \in DOMAIN s
         /\ Tail(s) \in Seq(Companies)
         /\ \A i \in DOMAIN Tail(s) : i + 1 \in DOMAIN s /\ Tail(s)[i] = s[i + 1]
         /\ \A i, j \in DOMAIN Tail(s) : Tail(s)[i] = Tail(s)[j] => i = j
         /\ \A i \in DOMAIN Tail(s) : Tail(s)[i] # Head(s)
<1>1. /\ Head(s) = s[1] /\ Head(s) \in Companies /\ 1 \in DOMAIN s
      /\ Tail(s) \in Seq(Companies)
  OBVIOUS
<1>2. \A i \in DOMAIN Tail(s) : i \in Nat \ {0} /\ i + 1 \in DOMAIN s /\ Tail(s)[i] = s[i + 1]
  OBVIOUS
<1> QED
  BY <1>1, <1>2

-----------------------------------------------------------------------------
\* A hub with no call made yet.
LEMMA HubInitially ==
  ASSUME HubInit
  PROVE  HubInv
BY HubAssumption DEF HubInit, HubInv, HubTypeOK, OneNamePerCompany, closed, Phases

\* No step of a call brings a second name of a company, whatever the order in
\* which the calls look up, wait and are told; none touches a held receiver.
LEMMA HandOverStep ==
  ASSUME HubInv, NEW k \in Calls, HandOver(k) \/ TimesOut(k)
  PROVE  /\ HubInv' /\ held' = held
         /\ \A c \in Companies : InHand(c) => InHand(c)'
<1> USE HubAssumption DEF HubInv, HubTypeOK
<1>1. CASE Lookup(k)
  <2> DEFINE p == IF From[k] \in held THEN parked ELSE parked \cup {From[k]}
  <2>1. /\ ~closed /\ UNCHANGED <<shut, held, waiting>>
        /\ at' \in [Calls -> Phases]
        /\ parked' = p /\ Wake(From[k], p, woken)
    BY <1>1 DEF Lookup, Moves, Phases
  <2>2. From[k] \in Companies /\ p \in SUBSET Companies /\ woken \in SUBSET p /\ p \cap held = {}
    BY DEF OneNamePerCompany
  <2>3. /\ \A i, j \in DOMAIN wakes : wakes[i] = wakes[j] => i = j
        /\ \A i \in DOMAIN wakes : wakes[i] \in woken
    BY <2>1 DEF OneNamePerCompany
  <2>4. /\ woken' \subseteq p /\ woken \subseteq woken'
        /\ wakes' \in Seq(Companies)
        /\ \A i, j \in DOMAIN wakes' : wakes'[i] = wakes'[j] => i = j
        /\ \A i \in DOMAIN wakes' : wakes'[i] \in woken'
        /\ \A d \in woken : (\A i \in DOMAIN wakes : wakes[i] # d)
                              => \A i \in DOMAIN wakes' : wakes'[i] # d
    <3> HIDE DEF p
    <3> QED
      BY <2>1, <2>2, <2>3, Waking
  <2>5. HubTypeOK'
    BY <2>1, <2>2, <2>4
  <2>6. OneNamePerCompany'
    BY <2>1, <2>2, <2>4 DEF OneNamePerCompany, closed
  <2>7. \A c \in Companies : InHand(c) => InHand(c)'
    BY <2>1, <2>4 DEF InHand, closed
  <2> QED
    BY <2>1, <2>5, <2>6, <2>7
<1>2. CASE Push(k)
  <2>1. /\ UNCHANGED <<shut, parked, held, woken, wakes>>
        /\ at' \in [Calls -> Phases] /\ waiting' \in [Companies -> 0..Depth]
    BY <1>2 DEF Push, Moves, Phases
  <2> QED
    BY <2>1 DEF OneNamePerCompany, InHand, closed
<1>3. CASE LookupRefused(k) \/ Arm(k) \/ Check(k) \/ PushFails(k) \/ GiveUp(k) \/ TimesOut(k)
  <2>1. /\ UNCHANGED <<shut, parked, held, woken, waiting, wakes>>
        /\ at' \in [Calls -> Phases]
    BY <1>3 DEF LookupRefused, Arm, Check, PushFails, GiveUp, TimesOut, Moves, Phases
  <2> QED
    BY <2>1 DEF OneNamePerCompany, InHand, closed
<1> QED
  BY <1>1, <1>2, <1>3 DEF HandOver

\* The name taken is the stream's only name of its company.
LEMMA NextNameStep ==
  ASSUME HubInv, NextName
  PROVE  /\ HubInv' /\ held' = held /\ Head(wakes) \in Companies
         /\ \A c \in Companies : c = Head(wakes) => InHand(c)'
<1> USE DEF HubInv, HubTypeOK
<1>1. /\ wakes \in Seq(Companies) /\ wakes # <<>> /\ wakes' = Tail(wakes)
      /\ UNCHANGED <<shut, at, parked, held, woken, waiting>>
      /\ \A i, j \in DOMAIN wakes : wakes[i] = wakes[j] => i = j
  BY DEF NextName, OneNamePerCompany
<1>2. /\ Head(wakes) = wakes[1] /\ Head(wakes) \in Companies /\ 1 \in DOMAIN wakes
      /\ wakes' \in Seq(Companies)
      /\ \A i \in DOMAIN wakes' : i + 1 \in DOMAIN wakes /\ wakes'[i] = wakes[i + 1]
      /\ \A i, j \in DOMAIN wakes' : wakes'[i] = wakes'[j] => i = j
      /\ \A i \in DOMAIN wakes' : wakes'[i] # Head(wakes)
  BY <1>1, Naming
<1>3. OneNamePerCompany'
  BY <1>1, <1>2 DEF OneNamePerCompany, closed
<1>4. HubTypeOK'
  BY <1>1, <1>2
<1>5. \A c \in Companies : c = Head(wakes) => InHand(c)'
  BY <1>1, <1>2 DEF InHand, OneNamePerCompany, closed
<1> QED
  BY <1>1, <1>2, <1>3, <1>4, <1>5

\* A receiver is taken by whoever was given its company's name.
LEMMA TakeStep ==
  ASSUME HubInv, NEW c \in Companies, InHand(c), Take(c)
  PROVE  HubInv' /\ held' = held \cup {c} /\ c \notin held
BY DEF HubInv, HubTypeOK, OneNamePerCompany, InHand, Take, closed

LEMMA RecvStep ==
  ASSUME HubInv, NEW c \in Companies, Recv(c)
  PROVE  HubInv' /\ UNCHANGED <<shut, held, woken, wakes>>
BY HubAssumption DEF HubInv, HubTypeOK, OneNamePerCompany, Recv, closed

\* A receiver put back names its company at most once, and no company whose
\* name is in hand.
LEMMA DropStep ==
  ASSUME HubInv, NEW c \in Companies, Drop(c)
  PROVE  /\ HubInv' /\ held' = held \ {c}
         /\ \A d \in Companies : InHand(d) => InHand(d)'
<1> USE DEF HubInv, HubTypeOK
<1>0. c \in held /\ c \notin parked /\ c \notin woken /\ held' = held \ {c} /\ UNCHANGED <<shut, at>>
  BY DEF Drop, OneNamePerCompany
<1>1. CASE closed
  <2>1. waiting' \in [Companies -> 0..Depth] /\ UNCHANGED <<parked, woken, wakes>>
    BY <1>1, HubAssumption DEF Drop
  <2> QED
    BY <1>0, <1>1, <2>1 DEF OneNamePerCompany, InHand, closed
<1>2. CASE ~closed
  <2>1. /\ parked' = parked \cup {c} /\ UNCHANGED waiting
        /\ \/ Wake(c, parked', woken)
           \/ woken' = woken /\ wakes' = wakes
    <3>1. woken \ {c} = woken
      BY <1>0
    <3> QED
      BY <1>2, <3>1 DEF Drop
  <2>2. /\ \A i, j \in DOMAIN wakes : wakes[i] = wakes[j] => i = j
        /\ \A i \in DOMAIN wakes : wakes[i] \in woken
        /\ parked' \in SUBSET Companies /\ woken \in SUBSET parked'
        /\ wakes \in Seq(Companies)
    BY <1>2, <2>1 DEF OneNamePerCompany
  <2>3. /\ woken' \subseteq parked' /\ woken \subseteq woken'
        /\ wakes' \in Seq(Companies)
        /\ \A i, j \in DOMAIN wakes' : wakes'[i] = wakes'[j] => i = j
        /\ \A i \in DOMAIN wakes' : wakes'[i] \in woken'
        /\ \A d \in woken : (\A i \in DOMAIN wakes : wakes[i] # d)
                              => \A i \in DOMAIN wakes' : wakes'[i] # d
    <3>1. CASE Wake(c, parked', woken)
      BY <2>2, <3>1, Waking
    <3>2. CASE woken' = woken /\ wakes' = wakes
      BY <2>2, <3>2
    <3> QED
      BY <2>1, <3>1, <3>2
  <2>4. HubTypeOK'
    BY <1>0, <2>1, <2>2, <2>3
  <2>5. OneNamePerCompany'
    BY <1>0, <1>2, <2>1, <2>2, <2>3 DEF OneNamePerCompany
  <2>6. \A d \in Companies : InHand(d) => InHand(d)'
    BY <1>0, <1>2, <2>3 DEF InHand, closed
  <2> QED
    BY <1>0, <2>4, <2>5, <2>6
<1> QED
  BY <1>1, <1>2

\* The shutdown takes the parked receivers with it and leaves the held ones.
LEMMA ClosingStep ==
  ASSUME HubInv, Shutdown \/ NotifyWaiters
  PROVE  /\ HubInv' /\ held' = held
         /\ \A c \in Companies : InHand(c) => InHand(c)'
<1> USE HubAssumption DEF HubInv, HubTypeOK
<1>1. CASE Shutdown
  BY <1>1 DEF Shutdown, OneNamePerCompany, InHand, closed
<1>2. CASE NotifyWaiters
  <2>1. at' \in [Calls -> Phases]
    BY <1>2 DEF NotifyWaiters, Phases
  <2> QED
    BY <1>2, <2>1 DEF NotifyWaiters, OneNamePerCompany, InHand, closed
<1> QED
  BY <1>1, <1>2

-----------------------------------------------------------------------------
(* The registry.                                                            *)

\* A name being resolved is the loop's alone: nothing names the company again
\* before resolve answers, so one receiver is never built for twice.
Names == HubInv /\ (pc = "resolve" => InHand(who))

\* Who holds a company's receiver: the build in hand, the registry's own entry,
\* or session tasks cancelled and not yet gone.  A run has its entry until the
\* last step of finish.
Receivers ==
  /\ \A c \in Companies : c \in held <=> Kept(c) \/ c \in linger \/ (pc = "build" /\ who = c)
  /\ \A c \in Companies : engine[c] # "off" => c \in live
  /\ pc = "unregister" => engine[who] = "off"
  /\ OneDrain /\ LiveHasEngine

\* Once serve has chosen its result it only lets companies go, and it has every
\* company still live on its list.
Leaving ==
  /\ result # "running" => pc \in {"evict", "unregister", "stopped"}
  /\ pc \in {"evict", "unregister"} /\ result # "running" => live \subseteq todo
  /\ pc = "stopped" => result # "running"
  /\ StoppedMeansStopped

RegTypeOK ==
  /\ pc \in {"select", "resolve", "build", "evict", "unregister", "stopped"}
  /\ who \in Companies
  /\ engine \in [Companies -> EngineStates]
  /\ \A S \in {todo, live, linger, quarantined, storeErrors, stranded} : S \subseteq Companies
  /\ fatal \in BOOLEAN /\ result \in {"running", "ok", "fatal"} /\ faults \in 0..MaxFaults

IInv == RegTypeOK /\ Names /\ Receivers /\ Leaving

\* What Nobody stands for is a company.
LEMMA SomeCompany == Nobody \in Companies
  BY HubAssumption DEF Nobody

-----------------------------------------------------------------------------
\* What a channel let go of does to the hub.
LEMMA ParkStep ==
  ASSUME HubInv, NEW c \in Companies, stranded \subseteq Companies, Park(c)
  PROVE  /\ HubInv' /\ held' = held \ {c} /\ stranded' \subseteq Companies
         /\ \A d \in Companies : InHand(d) => InHand(d)'
BY DropStep DEF Park

LEMMA LetGoStep ==
  ASSUME HubInv, NEW c \in Companies, NEW l, stranded \subseteq Companies, LetGo(c, l)
  PROVE  /\ HubInv' /\ stranded' \subseteq Companies
         /\ held' = IF c \in l THEN held ELSE held \ {c}
         /\ \A d \in Companies : InHand(d) => InHand(d)'
<1>1. CASE c \in l
  BY <1>1 DEF LetGo, HubInv, HubTypeOK, OneNamePerCompany, InHand, hubVars, closed
<1>2. CASE c \notin l
  BY <1>2, ParkStep DEF LetGo
<1> QED
  BY <1>1, <1>2

LEMMA CancelledStep ==
  ASSUME NEW c \in Companies, NEW left \in 0..MaxFaults, linger \subseteq Companies,
         Cancelled(c, left)
  PROVE  /\ linger' \subseteq Companies /\ faults' \in 0..MaxFaults
         /\ linger \subseteq linger' /\ linger' \subseteq linger \cup {c}
BY RegistryAssumption DEF Cancelled

-----------------------------------------------------------------------------
\* Every step keeps the types of the registry's own variables.
LEMMA RegTypeStep ==
  ASSUME IInv, [Next]_vars
  PROVE  RegTypeOK'
<1> USE RegistryAssumption, SomeCompany DEF IInv, RegTypeOK, Names, EngineStates
<1>1. ASSUME TakeName
      PROVE  RegTypeOK'
  BY <1>1, NextNameStep DEF TakeName
<1>2. ASSUME ResolveNothing
      PROVE  RegTypeOK'
  BY <1>2 DEF ResolveNothing
<1>3. ASSUME Resolve
      PROVE  RegTypeOK'
  BY <1>3 DEF Resolve
<1>4. ASSUME BuildOk
      PROVE  RegTypeOK'
  BY <1>4 DEF BuildOk
<1>5. ASSUME StopLoop
      PROVE  RegTypeOK'
  BY <1>5 DEF StopLoop
<1>6. ASSUME Evict
      PROVE  RegTypeOK'
  <2> PICK c \in todo : /\ who' = c
                        /\ engine' = [engine EXCEPT ![c] = "off"]
                        /\ linger' \subseteq Companies /\ faults' \in 0..MaxFaults
    BY <1>6, CancelledStep DEF Evict
  <2> QED
    BY <1>6 DEF Evict
<1>7. ASSUME Unregister
      PROVE  RegTypeOK'
  <2>1. stranded' \subseteq Companies
    BY <1>7, LetGoStep DEF Unregister
  <2>2. pc' \in {"select", "evict", "stopped"} /\ result' \in {"running", "ok", "fatal"}
    BY <1>7 DEF Unregister
  <2> QED
    BY <1>7, <2>1, <2>2 DEF Unregister
<1>8. ASSUME BuildFails
      PROVE  RegTypeOK'
  <2>1. stranded' \subseteq Companies
    BY <1>8, ParkStep DEF BuildFails
  <2> QED
    BY <1>8, <2>1 DEF BuildFails
<1>9. ASSUME Sweep
      PROVE  RegTypeOK'
  BY <1>9 DEF Sweep
<1>10. ASSUME NEW c \in Companies, EngineTakes(c)
      PROVE  RegTypeOK'
  BY <1>10 DEF EngineTakes
<1>11. ASSUME NEW c \in Companies, EngineReplies(c)
      PROVE  RegTypeOK'
  BY <1>11 DEF EngineReplies
<1>12. ASSUME NEW c \in Companies, EngineEnds(c)
      PROVE  RegTypeOK'
  BY <1>12 DEF EngineEnds
<1>13. ASSUME NEW c \in Companies, FinishDrops(c)
      PROVE  RegTypeOK'
  <2>1. stranded' \subseteq Companies
    BY <1>13, LetGoStep DEF FinishDrops
  <2> QED
    BY <1>13, <2>1 DEF FinishDrops
<1>14. ASSUME NEW c \in Companies, FinishRemoves(c)
      PROVE  RegTypeOK'
  BY <1>14 DEF FinishRemoves
<1>15. ASSUME NEW c \in Companies, EngineFails(c)
      PROVE  RegTypeOK'
  <2>1. linger' \subseteq Companies /\ faults' \in 0..MaxFaults
    <3>1. faults - 1 \in 0..MaxFaults
      BY <1>15 DEF EngineFails
    <3> QED
      BY <1>15, <3>1, CancelledStep DEF EngineFails
  <2>2. /\ storeErrors' \subseteq Companies /\ quarantined' \subseteq Companies
        /\ fatal' \in BOOLEAN
    BY <1>15 DEF EngineFails, StoreError, OtherError
  <2> QED
    BY <1>15, <2>1, <2>2 DEF EngineFails
<1>16. ASSUME NEW c \in Companies, Release(c)
      PROVE  RegTypeOK'
  <2>1. stranded' \subseteq Companies
    BY <1>16, ParkStep DEF Release
  <2> QED
    BY <1>16, <2>1 DEF Release
<1>17. ASSUME NEW c \in Companies, BackoffElapses(c) \/ WindowPasses(c)
      PROVE  RegTypeOK'
  BY <1>17 DEF BackoffElapses, WindowPasses
<1>18. ASSUME Ingress \/ Closing
      PROVE  RegTypeOK'
  BY <1>18 DEF Ingress, Closing, regVars
<1>19. CASE UNCHANGED vars
  BY <1>19 DEF vars, regVars
<1> QED
  BY <1>1, <1>2, <1>3, <1>4, <1>5, <1>6, <1>7, <1>8, <1>9, <1>10, <1>11, <1>12, <1>13,
     <1>14, <1>15, <1>16, <1>17, <1>18, <1>19
  DEF Next, Serve, Run

\* Every step keeps the hub's invariant, and the name in hand to the loop.
LEMMA NamesStep ==
  ASSUME IInv, [Next]_vars
  PROVE  Names'
<1> USE DEF IInv, RegTypeOK, Names
<1>1. ASSUME TakeName
      PROVE  Names'
  <2>1. /\ HubInv' /\ who' = Head(wakes) /\ Head(wakes) \in Companies
        /\ \A c \in Companies : c = Head(wakes) => InHand(c)'
    BY <1>1, NextNameStep DEF TakeName
  <2>2. InHand(who)'
    BY <2>1 DEF InHand
  <2> QED
    BY <2>1, <2>2
<1>2. ASSUME Resolve
      PROVE  Names'
  <2>1. HubInv' /\ pc' = "build"
    BY <1>2, TakeStep DEF Resolve
  <2> QED
    BY <2>1
<1>3. ASSUME BuildFails
      PROVE  Names'
  <2>1. HubInv' /\ pc' = "select"
    BY <1>3, ParkStep DEF BuildFails
  <2> QED
    BY <2>1
<1>4. ASSUME Unregister
      PROVE  Names'
  <2>1. pc' # "resolve"
    BY <1>4 DEF Unregister
  <2>2. HubInv'
    <3>1. CASE Kept(who)
      BY <1>4, <3>1, LetGoStep DEF Unregister
    <3>2. CASE ~Kept(who)
      BY <1>4, <3>2
      DEF Unregister, HubInv, HubTypeOK, OneNamePerCompany, hubVars, closed
    <3> QED
      BY <3>1, <3>2
  <2> QED
    BY <2>1, <2>2
<1>5. ASSUME NEW c \in Companies, EngineTakes(c)
      PROVE  Names'
  <2>1. HubInv' /\ UNCHANGED <<shut, woken, wakes, pc, who>>
    BY <1>5, RecvStep DEF EngineTakes
  <2> QED
    BY <2>1 DEF InHand, closed
<1>6. ASSUME NEW c \in Companies, FinishDrops(c)
      PROVE  Names'
  <2>1. /\ HubInv' /\ UNCHANGED <<pc, who>>
        /\ \A d \in Companies : InHand(d) => InHand(d)'
    BY <1>6, LetGoStep DEF FinishDrops
  <2>2. InHand(who)' <=> \E d \in Companies : d = who /\ InHand(d)'
    BY <2>1 DEF InHand
  <2> QED
    BY <2>1, <2>2
<1>7. ASSUME NEW c \in Companies, Release(c)
      PROVE  Names'
  <2>1. CASE Kept(c)
    BY <1>7, <2>1
    DEF Release, HubInv, HubTypeOK, OneNamePerCompany, InHand, hubVars, closed
  <2>2. CASE ~Kept(c)
    <3>1. /\ HubInv' /\ UNCHANGED <<pc, who>>
          /\ \A d \in Companies : InHand(d) => InHand(d)'
      BY <1>7, <2>2, ParkStep DEF Release
    <3>2. InHand(who)' <=> \E d \in Companies : d = who /\ InHand(d)'
      BY <3>1 DEF InHand
    <3> QED
      BY <3>1, <3>2
  <2> QED
    BY <2>1, <2>2
<1>8. ASSUME Ingress \/ Closing
      PROVE  Names'
  <2>1. /\ HubInv' /\ UNCHANGED <<pc, who>>
        /\ \A d \in Companies : InHand(d) => InHand(d)'
    BY <1>8, HandOverStep, ClosingStep DEF Ingress, Closing, regVars
  <2>2. InHand(who)' <=> \E d \in Companies : d = who /\ InHand(d)'
    BY <2>1 DEF InHand
  <2> QED
    BY <2>1, <2>2
<1>9. ASSUME UNCHANGED hubVars, pc' # "resolve" \/ UNCHANGED <<pc, who>>
      PROVE  Names'
  BY <1>9 DEF HubInv, HubTypeOK, OneNamePerCompany, InHand, hubVars, closed
<1>10. ASSUME ResolveNothing \/ BuildOk \/ StopLoop \/ Evict \/ Sweep
       PROVE  Names'
  <2>1. UNCHANGED hubVars /\ pc' # "resolve"
    BY <1>10 DEF ResolveNothing, BuildOk, StopLoop, Evict, Sweep
  <2> QED
    BY <1>9, <2>1
<1>11. ASSUME NEW c \in Companies,
              \/ EngineReplies(c) \/ EngineEnds(c) \/ FinishRemoves(c) \/ EngineFails(c)
              \/ BackoffElapses(c) \/ WindowPasses(c)
       PROVE  Names'
  <2>1. UNCHANGED hubVars /\ UNCHANGED <<pc, who>>
    BY <1>11
    DEF EngineReplies, EngineEnds, FinishRemoves, EngineFails, BackoffElapses, WindowPasses
  <2> QED
    BY <1>9, <2>1
<1>12. CASE UNCHANGED vars
  BY <1>9, <1>12 DEF vars, regVars
<1> QED
  BY <1>1, <1>2, <1>3, <1>4, <1>5, <1>6, <1>7, <1>8, <1>10, <1>11, <1>12
  DEF Next, Serve, Run


\* Every step keeps each receiver with the one thing that holds it.
LEMMA ReceiversStep ==
  ASSUME IInv, [Next]_vars
  PROVE  Receivers'
<1> USE DEF IInv, RegTypeOK, Receivers, OneDrain, LiveHasEngine, Kept, EngineStates
<1>0. HubInv
  BY DEF Names
<1>1. ASSUME held' = held, UNCHANGED <<live, engine, linger>>,
             UNCHANGED <<pc, who>> \/ {pc, pc'} \subseteq {"select", "resolve", "evict", "stopped"}
      PROVE  Receivers'
  BY <1>1
<1>2. ASSUME TakeName \/ ResolveNothing \/ StopLoop \/ Sweep
      PROVE  Receivers'
  <2>1. held' = held
    BY <1>2 DEF TakeName, NextName, ResolveNothing, StopLoop, Sweep, hubVars
  <2>2. UNCHANGED <<live, engine, linger>>
    BY <1>2 DEF TakeName, ResolveNothing, StopLoop, Sweep
  <2>3. {pc, pc'} \subseteq {"select", "resolve", "evict", "stopped"}
    BY <1>2 DEF TakeName, ResolveNothing, StopLoop, Sweep
  <2> QED
    BY <1>1, <2>1, <2>2, <2>3
<1>3. ASSUME NEW c \in Companies,
             \/ EngineReplies(c) \/ EngineEnds(c) \/ EngineTakes(c)
             \/ BackoffElapses(c) \/ WindowPasses(c)
      PROVE  Receivers'
  <2>1. held' = held
    BY <1>3 DEF EngineReplies, EngineEnds, EngineTakes, BackoffElapses, WindowPasses,
                Recv, hubVars
  <2>2. UNCHANGED <<pc, who, live, linger>>
    BY <1>3 DEF EngineReplies, EngineEnds, EngineTakes, BackoffElapses, WindowPasses
  <2>3. \/ engine' = engine
        \/ engine[c] \in {"idle", "busy"}
              /\ \E e \in {"idle", "busy", "finishing"} : engine' = [engine EXCEPT ![c] = e]
    BY <1>3 DEF EngineReplies, EngineEnds, EngineTakes, BackoffElapses, WindowPasses
  <2> QED
    BY <2>1, <2>2, <2>3
<1>4. ASSUME Resolve
      PROVE  Receivers'
  <2>1. held' = held \cup {who} /\ who \notin held
    BY <1>4, <1>0, TakeStep DEF Resolve, Names
  <2> QED
    BY <1>4, <2>1 DEF Resolve
<1>5. ASSUME BuildOk
      PROVE  Receivers'
  <2>1. held' = held
    BY <1>5 DEF BuildOk, hubVars
  <2> QED
    BY <1>5, <2>1, SomeCompany DEF BuildOk
<1>6. ASSUME BuildFails
      PROVE  Receivers'
  <2>1. held' = held \ {who}
    BY <1>6, <1>0, ParkStep DEF BuildFails
  <2> QED
    BY <1>6, <2>1 DEF BuildFails
<1>7. ASSUME Evict
      PROVE  Receivers'
  <2> PICK c \in todo : /\ engine[c] \in {"off", "idle", "busy"} /\ who' = c
                        /\ engine' = [engine EXCEPT ![c] = "off"]
                        /\ IF engine[c] = "off" THEN UNCHANGED <<linger, faults>>
                           ELSE Cancelled(c, faults)
    BY <1>7 DEF Evict
  <2>1. linger \subseteq linger' /\ linger' \subseteq linger \cup {c}
        /\ (engine[c] = "off" => linger' = linger)
    BY DEF Cancelled
  <2>2. held' = held /\ live' = live /\ pc = "evict" /\ pc' = "unregister" /\ c \in Companies
    BY <1>7 DEF Evict, hubVars
  <2> QED
    BY <2>1, <2>2
<1>8. ASSUME Unregister
      PROVE  Receivers'
  <2>1. /\ pc = "unregister" /\ pc' \in {"select", "evict", "stopped"}
        /\ live' = live \ {who} /\ UNCHANGED <<engine, linger>>
    BY <1>8 DEF Unregister
  <2>2. CASE who \in live
    <3>1. held' = IF who \in linger THEN held ELSE held \ {who}
      BY <1>8, <1>0, <2>2, LetGoStep DEF Unregister
    <3> QED
      BY <2>1, <2>2, <3>1
  <2>3. CASE who \notin live
    <3>1. held' = held
      BY <1>8, <2>3 DEF Unregister, hubVars
    <3> QED
      BY <2>1, <2>3, <3>1
  <2> QED
    BY <2>2, <2>3
<1>9. ASSUME NEW c \in Companies, FinishDrops(c)
      PROVE  Receivers'
  <2>1. held' = IF c \in linger THEN held ELSE held \ {c}
    BY <1>9, <1>0, LetGoStep DEF FinishDrops
  <2> QED
    BY <1>9, <2>1 DEF FinishDrops
<1>10. ASSUME NEW c \in Companies, FinishRemoves(c)
       PROVE  Receivers'
  <2>1. held' = held
    BY <1>10 DEF FinishRemoves, hubVars
  <2> QED
    BY <1>10, <2>1 DEF FinishRemoves
<1>11. ASSUME NEW c \in Companies, EngineFails(c)
       PROVE  Receivers'
  <2>1. linger \subseteq linger' /\ linger' \subseteq linger \cup {c}
    BY <1>11 DEF EngineFails, Cancelled
  <2>2. held' = held
    BY <1>11 DEF EngineFails, hubVars
  <2> QED
    BY <1>11, <2>1, <2>2 DEF EngineFails
<1>12. ASSUME NEW c \in Companies, Release(c)
       PROVE  Receivers'
  <2>1. held' = IF Kept(c) THEN held ELSE held \ {c}
    BY <1>12, <1>0, ParkStep DEF Release, hubVars
  <2> QED
    BY <1>12, <2>1 DEF Release
<1>13. ASSUME Ingress \/ Closing
       PROVE  Receivers'
  <2>1. held' = held
    BY <1>13, <1>0, HandOverStep, ClosingStep DEF Ingress, Closing
  <2> QED
    BY <1>1, <1>13, <2>1 DEF Ingress, Closing, regVars
<1>14. CASE UNCHANGED vars
  BY <1>1, <1>14 DEF vars, regVars, hubVars
<1> QED
  BY <1>2, <1>3, <1>4, <1>5, <1>6, <1>7, <1>8, <1>9, <1>10, <1>11, <1>12, <1>13, <1>14
  DEF Next, Serve, Run

\* Every step keeps a loop that is leaving on its way out: whoever is live is still
\* to be evicted, and nobody joins them.
LEMMA LeavingStep ==
  ASSUME IInv, [Next]_vars, Receivers'
  PROVE  Leaving'
<1> USE DEF IInv, RegTypeOK, Leaving
<1>1. ASSUME UNCHANGED <<pc, result, todo>>, live' \subseteq live, pc # "stopped"
      PROVE  Leaving'
  BY <1>1 DEF StoppedMeansStopped
<1>2. ASSUME TakeName \/ ResolveNothing \/ Resolve \/ BuildOk \/ BuildFails \/ Sweep
      PROVE  Leaving'
  <2>1. pc \in {"select", "resolve", "build"} /\ result' = result
    BY <1>2 DEF TakeName, ResolveNothing, Resolve, BuildOk, BuildFails, Sweep
  <2>2. pc' \in {"select", "resolve", "build", "evict"}
    BY <1>2 DEF TakeName, ResolveNothing, Resolve, BuildOk, BuildFails, Sweep
  <2> QED
    BY <2>1, <2>2 DEF StoppedMeansStopped
<1>3. ASSUME StopLoop
      PROVE  Leaving'
  <2>1. /\ live' = live /\ todo' = live /\ result' # "running"
        /\ pc' = IF live = {} THEN "stopped" ELSE "evict"
        /\ fatal' => result' = "fatal"
    BY <1>3 DEF StopLoop
  <2>2. live' = {} => \A c \in Companies : engine'[c] = "off"
    BY DEF Receivers
  <2> QED
    BY <2>1, <2>2 DEF StoppedMeansStopped
<1>4. ASSUME Evict
      PROVE  Leaving'
  BY <1>4 DEF Evict, StoppedMeansStopped
<1>5. ASSUME Unregister
      PROVE  Leaving'
  <2>1. /\ pc = "unregister" /\ live' = live \ {who} /\ todo' = todo \ {who} /\ fatal' = fatal
        /\ pc' = CASE todo' # {} -> "evict"
                   [] todo' = {} /\ result = "running" -> "select"
                   [] OTHER -> "stopped"
        /\ result' = IF pc' = "stopped" /\ fatal THEN "fatal" ELSE result
    BY <1>5 DEF Unregister
  <2>2. live' = {} => \A c \in Companies : engine'[c] = "off"
    BY DEF Receivers
  <2>3. CASE result = "running"
    <3>1. pc' \in {"evict", "select"} /\ result' = "running"
      BY <2>1, <2>3
    <3> QED
      BY <3>1 DEF StoppedMeansStopped
  <2>4. CASE result # "running"
    <3>1. live' \subseteq todo' /\ result' # "running"
      BY <2>1, <2>4
    <3>2. CASE todo' # {}
      BY <2>1, <3>1, <3>2 DEF StoppedMeansStopped
    <3>3. CASE todo' = {}
      <4>1. pc' = "stopped" /\ live' = {}
        BY <2>1, <2>4, <3>1, <3>3
      <4> QED
        BY <2>1, <2>2, <3>1, <4>1 DEF StoppedMeansStopped
    <3> QED
      BY <3>2, <3>3
  <2> QED
    BY <2>3, <2>4
<1>6. ASSUME pc # "stopped", Ingress \/ Closing
      PROVE  Leaving'
  BY <1>1, <1>6 DEF Ingress, Closing, regVars
<1>7. ASSUME NEW c \in Companies, pc # "stopped",
             \/ Run(c) \/ EngineFails(c) \/ Release(c) \/ BackoffElapses(c) \/ WindowPasses(c)
      PROVE  Leaving'
  <2>1. UNCHANGED <<pc, result, todo>> /\ live' \subseteq live
    BY <1>7 DEF Run, EngineTakes, EngineReplies, EngineEnds, FinishDrops, FinishRemoves,
                EngineFails, Release, BackoffElapses, WindowPasses
  <2> QED
    BY <1>1, <1>7, <2>1
<1>8. CASE UNCHANGED vars
  BY <1>8 DEF vars, regVars, StoppedMeansStopped
<1> HIDE DEF IInv, RegTypeOK, Leaving
<1> QED
  BY <1>2, <1>3, <1>4, <1>5, <1>6, <1>7, <1>8 DEF Next, Serve

-----------------------------------------------------------------------------
\* The invariant the theorems below rest on.
LEMMA Inductive == Spec => []IInv
<1>1. Init => IInv
  <2> SUFFICES ASSUME Init PROVE IInv
    OBVIOUS
  <2>1. HubInv
    BY HubInitially DEF Init
  <2>2. RegTypeOK
    <3>1. faults \in 0..MaxFaults
      BY RegistryAssumption DEF Init
    <3>2. engine \in [Companies -> EngineStates]
      BY DEF Init, EngineStates
    <3> QED
      BY <3>1, <3>2, SomeCompany DEF Init, RegTypeOK
  <2>3. Names /\ Leaving
    BY <2>1 DEF Init, Names, Leaving, StoppedMeansStopped
  <2>4. Receivers
    BY DEF Init, HubInit, Receivers, OneDrain, LiveHasEngine, Kept
  <2> QED
    BY <2>2, <2>3, <2>4 DEF IInv
<1>2. IInv /\ [Next]_vars => IInv'
  BY RegTypeStep, NamesStep, ReceiversStep, LeavingStep DEF IInv
<1> QED
  BY <1>1, <1>2, PTL DEF Spec

\* Whatever the calls, failures and evictions do, the queue of a company never
\* passes INBOUND_DEPTH and every variable keeps its type.
THEOREM RegistryTypes == Spec => []TypeOK
<1>1. IInv => TypeOK
  BY DEF IInv, RegTypeOK, Names, HubInv, TypeOK
<1> QED
  BY <1>1, Inductive, PTL

\* hub.rs: however calls, drops and the shutdown race, a company is named in the
\* wake stream at most once and its receiver is in one place.
THEOREM OneName == Spec => []OneNamePerCompany
<1>1. IInv => OneNamePerCompany
  BY DEF IInv, Names, HubInv
<1> QED
  BY <1>1, Inductive, PTL

\* registry/tenant.rs: no company's queue is ever drained by two engines, though
\* cancelled session tasks outlive the run they belong to.
THEOREM NeverTwoDrains == Spec => []OneDrain
<1>1. IInv => OneDrain
  BY DEF IInv, Receivers
<1> QED
  BY <1>1, Inductive, PTL

\* registry.rs: an entry of the live map stands for an engine, so no company is
\* taken for live while nobody serves it.
THEOREM LiveIsServed == Spec => []LiveHasEngine
<1>1. IInv => LiveHasEngine
  BY DEF IInv, Receivers
<1> QED
  BY <1>1, Inductive, PTL

\* registry/serve.rs: when serve returns every engine is gone, and a failure that
\* ends the shard is what it returns.
THEOREM ServeLeavesNothing == Spec => []StoppedMeansStopped
<1>1. IInv => StoppedMeansStopped
  BY DEF IInv, Leaving
<1> QED
  BY <1>1, Inductive, PTL
=============================================================================
