# TLA+ for ns-engine

Specifications of the parts of ns-engine where order, concurrency and failure
decide whether it is right: the session dispatcher, the turn loop over a
session's log, the per-company queues and the tenant registry that serves them,
the platform webhooks that fill them, the evolution pass and the logs it shares
with everybody else, the fact store, the pointer agent, and what keeps a process
within its means: slots, ceilings and throttles. TLC checks each of them on a
small instance; TLAPS proves every safety property of the passing runs, and that the
dispatcher implements its abstract specification, for every value of the constants.

Paths below are relative to the repository root, `src/crates/...` and
`src/app/...`.

       WebhookProofs
             |
             v
    Hub <-- Webhook                            SessionTurns <--- Dispatcher
     ^                                          (abstract)           ^
     |                                                               |
    TenantRegistry <--- RegistryProofs                       DispatcherProofs

    SessionLog <--- TurnLoop <--- TurnProofs

    EventChain <--- EvolutionPass      FactStore     PointerAgent     RequestLimits
                        ^                  ^              ^                ^
                  EvolutionProofs      FactProofs   PointerProofs    RequestProofs

    MCDispatcher, MCTurnLoop, MCTenantRegistry, MCWebhook, MCEvolutionPass,
    MCFactStore, MCPointerAgent and MCRequestLimits fix the constants.

Run one with `tlc -config MCDispatcher_turns.cfg MCDispatcher.tla`, check a
proof with `tlapm RegistryProofs.tla`.

## 1. The system

A message enters by a **channel** (a terminal, a TCP or web-chat window, a
platform's webhook). The multi-tenant channels hand it to the **hub**, which
keeps one bounded queue per company and a *wake stream* naming the companies
nobody drains. The **tenant registry** takes those names, builds an engine for a
company and spawns it; the engine's **dispatcher** reads the company's channel
and gives every session a mailbox and a task; a task takes a slot of its tenant
and one of the **shard** and runs the **turn loop**: the **model client**
proposes actions, the engine validates, guards, stages and runs them, and every
decision is an event of the session's **log** in the SQLite **store**, where the
**facts** are too. Between turns, on a quiet channel, the **evolution pass**
mines the log and changes the learned rules and the facts. A tool may drive a
person's machine through the **pointer agent** that runs there.

### Components

| component | state it keeps | operations | what makes it hard | what makes it correct |
|---|---|---|---|---|
| session dispatcher (`engine/dispatch.rs`) | session table, mailboxes, task set, slot semaphore, turns since the last pass, handed-back messages | read, deliver, open a mailbox, refuse and reap, turn, summary, idle stop, drain, pass, close | session tasks on other threads; a send against a closing mailbox; failures under two policies; a pass that needs all slots | one turn per session at a time, in order, nothing lost or doubled; slots come back; a pass runs alone; a close ends |
| turn loop (`engine/turn/*`, `guards.rs`, `actions.rs`) | the log, the turn's bookkeeping (denied, done, residual, counters) | route, emit, repair, legality, escalation, repeat gate, guards, stage, confirm, call, flush, reply | crash at any await, appends that stop half way, a model that may propose anything in any order | nothing irreversible without the user's yes on the turn right after; every effect on record; a turn ends |
| session event log (`core/event.rs`, `engine/state.rs`, `memory-sqlite` append) | events by turn, ids, hashes | append, fold, verify, replay | an append is several rows; a turn, a summary and a pass all write one log | the fold reads only what is stored, a prefix; the chain holds |
| channel hub (`channel-hub`) | queue per company, `woken` flags, wake stream, shutdown flag | `sender_for`, `hand_over`, `next_active_tenant`, take, recv, drop, shutdown | two locks, a Notify that must be armed before the flag is read, senders outliving receivers | one name per company, one receiver, no caller stuck after the shutdown |
| tenant registry (`app/registry`) | live map, quarantine, store-error window, fatal flag | serve, resolve, build, finish, evict, sweep, shutdown | finish runs on the engine's task beside the loop; abort is not instantaneous | one drain per company, everyone served, the loop ends with nothing running |
| platform webhooks (`channel-http/hooks.rs`, `seen.rs`) | seen ids and their file | delivery, `first_time`, hand over, answer | the platform retries; the queue may be full; the file may fail; the process may restart | a message runs once; what was acknowledged was handed over |
| evolution pass (`evolution`) | ledger, learned rules, hot swap | load, verify, grade, propose, publish, sign, consolidate | several stores written in turn; a summary that holds no slot | rules in force are rules on record; a pass interrupted can run again |
| fact store (`memory-sqlite`, `consolidate.rs`) | versioned facts per scope, their vectors | write, recall, forget, purge, decay, merge, backfill | supersede and insert are two statements; a pass works from a snapshot; rowids are used again | one live version per key; no value lost to a pass; forgotten stays forgotten |
| pointer agent (`pointer`) | held and stuck keys, override, token bucket, connections | connect, hello, perform, suspend, retry, release | machine-wide state under several connections, a lock for each part of it | nothing stays pressed; one connection does not undo another's hold; the ceiling is the machine's |
| shard slots and request cap (`engine/dispatch.rs`, `turn/accounting.rs`) | the process-wide permits over all dispatchers, an engine's count | acquire after the tenant's, release, refuse a turn at the cap | two pools, one order, a pass that takes all of one, a count read before a turn and raised after each call | no deadlock, no tenant starved, a bounded overshoot |
| model client (`llm`) | throttle, retry counters | wait, post, retry, give up | one throttle shared by every client of an account; the time is read before the sleep and written after it | spacing between requests |
| reply sinks (`channel-hub/outbound.rs`) | windows per session | attach, deliver, drop | deliver works on a copy | a reply reaches the windows of its session only |
| HTTP, TCP, CLI channels | connections, framing | accept, read, write | limits and time-outs | a slow client costs itself only |
| router, prompts, reply checks, provenance, model output, search, identity, core types | none, or caches | pure functions | text | what they return |
| admin page, offline commands, test kit, wiring | files | read, write, report | none at run time | - |

`PROJECT.json` lists every component with its sources and its status, and every
hazard at the line where it bites with the properties that watch it.

## 2. The modules and the code

### Dispatcher, SessionTurns

`Dispatcher.tla` is `engine/src/dispatch.rs`. The dispatcher's own future is
`pc`: `select` waits in the main select, `deliver` and `push` are the two halves
of a send, `reap` is `reap_session`, `pass` the consolidator, `join` the drain
in `close()`, `ok` and `err` the two returns. Each session task is a `phase`:
waiting (`idle`), with a summary `due` or in flight (`summing`), with a message
`held` until the summary ends, waiting for a `slot`, in a `turn`, sending its
`reply`, `stopping` and `stopped`. Task identities stand for generation numbers
and are reused once reaped, as only "the same task or not" is ever asked.

- A send takes its permit (`Send`) and pushes later (`Push`): on a
  multi-threaded runtime the task may close and drain its mailbox in between.
- What a turn does is how it ends: done, or one of the four failures. The
  policy decides whether a failure ends the run (`EndsTheRun`).
  Under Isolate `catch_unwind` is around all of `session_turns`, so `Fails` covers a
  panic while the reply is sent, and `SummaryPanics` one in `maybe_summarize`, with or
  without a message held. Waiting for a slot panics only when its semaphore is closed,
  which nobody does; waiting for a message has nothing in it to panic.
- `PassBegins` needs every slot, which is what `acquire_many` needs.
- The policy and the number of slots are variables that no step changes (`Settings`
  lists the combinations), so that one run covers several.

`SessionTurns.tla` is what a session is promised, with none of the machinery:
messages are received, turns begin one at a time, each message at most once, in
the order received. `Dispatcher` implements it with `busy` mapped to the owners
of the running tasks.

### SessionLog, TurnLoop

`SessionLog.tla` keeps a log as the readings `fold` would give: the first of
what the store holds, one more for every event since that changed it. One
operator per event says what it does to the reading. `StoreUpTo` is an append,
which a failure leaves at a prefix.

`TurnLoop.tla` is `run_turn` with `run_builtin` and `run_tool`. A proposal is an
action and the one thing about its arguments a check can tell apart: plain,
tainted (external trust), ungrounded (residual) or malformed. The model's
choices, the tools' outcomes, the store's and the channel's answers are
arbitrary. `pc` follows the code: `loop` (an iteration begins), `say`, `judge`
(legality and repeats), `run` (the action's own checks and guards), `call`,
`flush`, `reply` (compose and append), `send` (the dispatcher's half), `idle`
and `panicked`. `t` is the turn's locals with its `Bookkeeping`.

The variables in `ghosts` exist for the properties: effects the world saw this
turn, flushes that failed, the proposal last staged and whether it ran, the turn
whose question was shown, the turn whose staging was last confirmed. `t.raised` is one
among the locals: the action last proposed only raised the tier.

### Hub, TenantRegistry

`Hub.tla` is `channel-hub`. A call is one message through `sender_for` and
`hand_over`, step by step: looked up (`tx`), registered on the shutdown
(`armed`), past the flag (`send`), told of the shutdown (`told`), `done`. A
company's queue is a length; its receiver is parked in the map, held by a tenant
channel, or gone with the shutdown. `Wake` is the flag and the stream.

`TenantRegistry.tla` composes it with `app/src/registry`: the serve loop as
`pc`, an engine per company (`off`, `idle`, `busy`, `finishing`, `dropped`),
`finish` on the engine's own task in two steps, the eviction in two steps, the
quarantine, the store-error window and the fatal verdict. `linger` holds the
companies whose cancelled session tasks still have a clone of the channel:
`abort` takes effect when the runtime gets to them.

### Webhook

`Webhook.tla` puts `hooks::delivery` and `SeenIds` before the same hub: batches
arrive, each message is recorded as seen before it is handed over, the hand-over
waits at most ENQUEUE_DEADLINE, a batch is answered 200 when it is through and
503 when a message was not taken. The set is bounded, the file is a line longer
or written anew, a write may fail, and the process may restart. Windows are the
calls with no deadline.

### EventChain, EvolutionPass

`EventChain.tla` is a session's log as a hash chain (`core/src/event.rs`) and the
engine's writers of it. An event carries what it says and the hash before it,
and a hash is the sequence of what was recorded up to there, so two chains agree
exactly when they are the same. The store keeps only events whose id is above
its highest (`Stored`), which is where two writers that loaded the same log part
ways. `TurnBegins` to `TurnEnds` are the turn's appends; `SummaryBegins`,
`SummaryEnds` and `SummaryDropped` the summary that a session's task runs beside
its wait, with no slot.

`EvolutionPass.tla` adds `evolution/src/pass.rs` and its idle driver. `pc` is the
stage of the pass: `load` (with the chains verified), `grade`, `store`,
`patches`, `notes`, `ledger`; the rules are published between the last two. It
fails or the process ends between any two steps (`PassFails`, `Crash`). How a
candidate is verified is left open: any verdict. `overlapped` and `unsigned`
are history, for the two things the code does not promise: a log whose summary
was in flight during a pass, a rule published by a pass that did not live to
save its verdict.

### FactStore

`FactStore.tla` is the facts table and the vectors of `memory-sqlite/src/lib.rs`,
by SQLite's rowid. `Put` is `write_fact` with its two outcomes and the cut
between its two statements (`HalfWritten`), each followed by an embedding that
may be missed. `Remember`, `Recall`, `Forget` and `ForgetAll` are what a turn
asks for; `Backfill`, `ReadScope`, `Decay`, `Purge` and `Merge` are the pass,
which reads a scope once (`live`) and acts on that. Two spellings are one key
when `Stem` says so, which is what `squash` decides. Under serve a session is a
scope of its own (`app/src/factory.rs:571-582`) and has one turn at a time, so an
operation of a turn is one step.

### PointerAgent

`PointerAgent.tla` is `pointer/src/agent.rs`: a connection is at one of
`perform`'s awaits or locks (`activity`, `suspend`, `suspended`, `take`, `retry`,
`steps`), and all of them share the machine, the suspension, the bucket and what
is stuck. The person touches the machine, windows of more privilege come and go
(`refuses`), connections drop between requests. `began` is the `now` a perform
takes once and passes along.

### RequestLimits

`RequestLimits.tla` sets several tenants side by side: the tenant's permit, then
the shard's, both back before the reply (`HasBoth`); the ceiling on an engine's
requests, read before a turn (`Begin`) and counted after each call (`Booked`);
and the throttle that the clients of one endpoint and key share. A caller, a
session's task or a pass, is making one request at most: it sleeps out the
interval as it read it (`Waits`), claims the slot and posts (`Post`), is
answered, backs off and asks the throttle anew (`Again`). What ends a session's
task one by one is `Dispatcher`'s; here a run ends only for its ceiling, and the
registry builds the tenant anew with a count of zero (`Rebuilt`).

## 3. What the runs check

### Passing

| run | instance | distinct states | what it shows |
|---|---|---|---|
| `dispatcher` | one session of two messages and one of one, 2 task identities, mailboxes of 1; Isolate with 1 and with 2 slots, Fatal with 2 | 198,788 | one task per session; what was begun and what waits is what was received, in order, but for two ways the code drops a message; a refused send finds its task; the pass runs alone; slots add up; `SessionTurns` is implemented; every message gets its turn; a closed channel ends the run |
| `turn` | three attended turns of eight proposals with a learned alias; one narrowed turn with answers beside actions; one turn offered nothing; 2 iterations, one fault | 244,273 | irreversible actions are confirmed on the next turn, staged ones run once, effects are on record, a held answer is sent over a result of its own action, every turn ends |
| `registry` | 2 companies, 3 calls, queues of 1, 2 faults, fatal at 2 tenants | 276,906 | one name per company, one drain, live means served, nothing left when serve returns, every message drained unless excused, the loop ends |
| `webhook` | deliveries of `<<m1,m2,m3>>` and `<<m1>>`, a window, a queue of 1, a set of 2, one fault | 198,781 | a message passes twice only when forgotten; one message a failure; every delivery is answered; every window is let go |
| `pass` | 2 sessions; one patch, two notes of which one fits; one turn each with all of them, or two turns of one session, beside the other with none of them, alone with the patch | 1,411,545 | chains hold but where a summary was in flight; no turn's event is put out; no turn is graded twice; the pass judges by what is stored; learned.toml and the ledger agree |
| `facts` | one scope, two spellings of a key, two values, 2 rowids, 2 milliseconds, one fault; a view without the doubt of rows that have ended | 1,448,270 | one live version per key; what is superseded has a successor; a vector is of the text it stands for; a version keeps its value; no value is lost to a pass |
| `pointer` | two connections, two keys, five gestures, steps of 2, burst, rate and window 1, one tick | 2,560,160 | what is down is held by someone or meant to be released; the ceiling is the machine's; who leaves or fails lets go of its own keys only |
| `limits` | two sessions of one tenant or of two with one account, four settings of the slots and the ceiling, interval 1, two attempts, two calls a turn | 120,298 | requests are an interval apart but for those that slept side by side; how far the ceiling is passed; every accepted message gets its turn |

### Violations: where the code and its documentation disagree

| run | property | what happens |
|---|---|---|
| `turn_renamed` | `ToolExists` | an action staged under its learned name is confirmed under the model's raw one, and `run_tool`'s expect panics |
| `registry_backoff` | `RetriedAfterBackoff` | a company named while it backs off is never named again |
| `webhook_retry` | `AckedIsHandedOver` | a message whose hand-over timed out stays recorded: the retry is answered 200 and never handed over |
| `pass_chain` | `ChainHolds` | a summary holds no slot, so it and a pass may load one log and both extend it; what is stored then has a link that does not hold, and the session is left out of every later pass. The comment says "the chain is extended, never rewritten" |

Each is explained with its lines under "findings" in `PROJECT.json`. The passing
runs state the nearest property that does hold:

- `ChainHoldsApart` leaves out the sessions in `overlapped`, which a pass ran
  beside a summary of; `TurnsAreKept` leaves out nothing: the collision costs
  grades and summaries, never a turn.
- `AllAccountedForInOrder` and `EveryMessageGetsATurn` leave out the messages in
  `lost`: those of the send race of section 5 (`Push`) and the one a task held when
  its session's summary panicked (`SummaryPanics`). Everything else, what is queued
  behind such a message included, is accounted for and gets its turn.
- `AnswerIsAboutWhatRan` excuses an answer beside the one action that leaves neither
  a result nor a refusal, where an earlier recall speaks for it: a tool proposed on a
  plain chat turn, which only raises the tier (`t.raised`, set by `Escalate`).
- `CompanyServed` leaves out `stranded`, the companies whose name the code has
  spent: named while backing off or still live, or parked while a caller that
  looked its sender up earlier had yet to push.
- `AckedOrCutShort` says what `AckedIsHandedOver` cannot: of an acknowledged
  batch, only the message a delivery failed at can be missing.
- The fact properties name the ways their exception comes about: told when the
  facts could not be read (`blind`), an ended version put in place (`reopened`), a
  write cut between its statements (`halved`), a rowid that was a purged fact's
  (`reused`).
- `RateHeld` adds `back`, the time by which a perform that takes late sets the
  bucket's clock back.
- `PacedApart` excuses those in `overtaken`, who slept while another posted.
- `HeldStaysDown` names two steps that reach across connections: the retry of a stuck
  key, and the override when it engages. For the override the documentation asks for
  more than the code does; the property allows either.

A property that excuses a case does not watch for that case. Where a hazard in
`PROJECT.json` is the excused case itself it lists no property, or a note says what
the property still shows.

### Bounds

Every bound is a constant or named in a comment beside its guard.

- *Dispatcher*: `MaxMsgs`, `MaxIdle`. Two messages of a session are what it takes
  to have one in the turn while the next is refused; one idle stop is what it
  takes to hand a mailbox back. A session has one task at most in the table or the
  set, so two identities are one for each. With one slot the two sessions and the
  pass contend for it; with two a turn, a summary and a pass meet in every order.
  Fatal with one slot is left out, as the first failure ends that run.
- *Turn loop*: `turns`, `lines`, `MaxFaults`. A confirmation spans two turns and
  its expiry shows on the third; two iterations let one proposal follow another
  in a turn, which every hazard listed needs, and one fault is a crash anywhere.
- *Hub and registry*: one message each, `Calls`, `MaxFaults`. Two calls of one
  company race for its name and for a full queue of one, the third keeps another
  company alive; two faults let a run fail and its tasks linger, or both companies
  fail inside the window.
- *Webhook*: two deliveries, so that the second is a retry beside or after the
  first; a set of two under three ids, so that ids are forgotten. An engine that
  is up stays up: its comings and goings are the registry's. Three faults, two
  failed writes of one message and a restart, hold for the safety properties
  (965,422 states).
- *Pass*: `Bounds`, the turns a session takes with the candidates its logs show, which
  a behaviour keeps (`bound`). One turn of one session to be graded while the other's
  summary, turn or failed append is at any point; a second turn on a log that a
  summary or a pass has appended to, whole or in part; passes and restarts are
  unbounded. Two notes where one fits put one out. Two turns with all the candidates
  are out of TLC's reach, hence the three shapes.
- *Facts*: `MaxRows`, `MaxTime`, `MaxFaults`. Two rows are two versions of a key or
  two spellings of it, and a purged rowid that is used again; two milliseconds are
  the same one and a later one. Three values in a single millisecond (966,519
  states) hold as well: a third telling follows a version that is in the future.
- *Pointer*: `MaxTime`, `MaxSteps`. One tick is enough for a perform that began
  before it to take after one that began later, which is what the bucket and the
  override are exposed to; with one key, two ticks (3,454,216 states) hold as well.
  Two connections do not reach the guard on their number.
- *Limits*: `MaxAttempts`, `MaxCalls`, the four `Starts`: turns side by side under a
  ceiling; two tenants at one shard slot, with and without one; two sessions at one
  slot of their tenant. An interval of two ticks (87,855 states with fewer settings)
  and, for the safety properties, a third session hold as far as they were run.

Deadlock is checked where nothing may stop: `Ended` makes the end of a Dispatcher run
explicit, and in RequestLimits a session may always write or wait for what will come
(in the pass, the facts and the pointer some action of the surroundings is always
enabled, so that there the check says little). The turn loop, the registry and the
webhooks really stop (turns used up, serve returned), and their configurations switch
the check off. The liveness properties cover the question there.

### Fairness

- Dispatcher: weak fairness of the dispatcher's future and of each task's
  progress, as the runtime polls what is ready and every provider call has a
  time-out; strong fairness of `AcquireSlot`, as tokio's semaphore is first come,
  first served. No fairness of receiving, closing, failing, idling or a pass.
- TurnLoop: weak fairness of the steps of a turn in progress; the emitter, tools,
  store and channel answer, if with an error. None of a new turn or a crash.
- TenantRegistry and Webhook: weak fairness of "something that can run runs".
  With calls and faults bounded no behaviour cycles, so that gives every task its
  turn. Nobody has to call, close, fail or go idle. A backoff elapses; a delivery
  has its deadline.
- RequestLimits: weak fairness of time, of a request (answered or timed out), of the
  ends of a turn, a pass, a run and an aborted task; strong fairness of the two
  permits, which are tokio semaphores. None of a message, of a reply, which may
  block for ever, or of a pass that might begin.
- EvolutionPass, FactStore and PointerAgent are checked for safety only: nothing in
  them has to happen.

## 4. What is proved

TLAPS checks the following from the named assumptions on the constants, for any
number of sessions, tasks, slots, companies, calls, facts, connections and tenants.

**DispatcherProofs** (`DispatcherAssumption`): `TypeCorrect`, `SessionsAreSerial`,
`RefusalIsAnswered`, `SlotsNeverLeak`, `PassIsAlone`, `NothingOutOfLine`,
`TurnsImplemented`. The inductive invariant is
`TypeOK /\ Tables /\ Permits /\ InLine`.

- `Tables`: one task per session is not inductive alone. It needs the table and the
  set of tasks to agree (every live task is its session's entry, and every entry is
  a live task, except while close joins them with the table cleared), because
  `OpenMailbox` looks only at the table. That a refused send finds its task follows
  from the same agreement.
- `Permits` says what a pass holds, as `PassRunsAlone` does not know how many
  permits the pass took.
- `InLine` is about the five places a message can be in: begun, held by its task, in
  a mailbox or what a stopped task hands back, in the delivery in hand, in what
  waits for one. Together they hold exactly what was received and not lost
  (`Accounted`), each in order and the later ones behind the earlier (`Ordered`,
  `Below`). That a hand-back does not jump the queue needs two more: a task has
  only its session's messages and hands back only what it drained (`Kept`), and
  while a session's messages wait for delivery they are together, at the head when
  it has a task again (`Handing`): the reap puts them before the message that was
  refused, and nothing new is read until they are through. From there
  `NothingOutOfLine` is a concatenation of rising sequences, and `BeginTurn` finds
  the next message of its session that is not lost, which is the step of
  `SessionTurns`. `TurnsImplemented` maps every other step to a receipt or a
  stutter.

**WebhookProofs** (`WebhookAssumption` and the hub's): `AckedIsAccounted`,
`TwiceOnlyIfForgotten`. Two invariants over the same types:

- `Accounted`: not only what is acknowledged but what is in the set or in the file,
  and what a delivery has behind it, reached a queue or has a delivery that stands
  at it. A retry is answered for by the set, so the set must be accounted for too.
- `Remembered`: a message that was let through is in the set, or `unfiled`, or Cap
  newer ones followed it. The set is in the order of the acceptances but for
  `unfiled`, the file but for `missed` too, the messages whose last acceptance it
  does not hold; a restart, which reads the file, makes them `unfiled`. The property
  once excused only what a failed write had left out of the file. The proof did not
  go through: a message accepted once more, whose write fails, is still in the file
  by its *earlier* record, and a restart takes it from there at an old place, to be
  pushed out too soon. With three faults TLC finds the behaviour.

**TurnProofs** (`TurnLoopAssumption`): `TurnTypes`, `IrreversibleConfirmed`,
`StagedOnce`, `EffectsRecorded`, `AnswerAboutWhatRan`. A session is read through
its log alone, so the invariant, `TypeOK /\ Meant /\ Confirming /\ Staging /\
Telling /\ Answering`, ties the latest reading to the store's and to the turn's
locals:

- `Confirming`: a confirmed turn took what the turn right before it staged and has
  nothing staged of its own yet, as staging ends a turn. `Staging`: what was staged
  and ran is among the calls of its turn, where the repeat gate meets it, and in a
  later turn is behind the guards again, as only guarded actions are staged.
- `Telling`: the log tells every effect; the store all but the one being flushed and
  those it refused; and a reading never tells fewer than one before it, so that an
  append which stops half way loses only what it was to store.
- `Answering`: a held answer meets the result of its own action, or its action was
  the one that raised the tier. A refusal of every kind, the repeat gate's and the
  guards' included, clears what an earlier action of the turn has left.

**RegistryProofs** (`RegistryAssumption` and the hub's): `RegistryTypes`, `OneName`,
`NeverTwoDrains`, `LiveIsServed`, `ServeLeavesNothing`. Its first part is the hub,
one lemma per action: `HubInv` (types and `OneNamePerCompany`) is kept, and a name
that was taken from the stream and not answered yet stays in hand (`InHand`): nobody
names the company again. That no call breaks this is `Waking`: the flag is read and
set under one lock, so a name goes out only when none is outstanding. The registry's
invariant is `RegTypeOK /\ Names /\ Receivers /\ Leaving`:

- `Names`: while the loop resolves a company, its name is in hand. Without it
  the receiver might be parked a second time under a resolve in progress.
- `Receivers`: a company's receiver is held exactly when the loop is building for
  it, its live entry has not dropped it, or cancelled tasks linger. This is what
  makes one drain inductive: a receiver that can be taken is held by none of them.
- `Leaving`: once serve has its result, whoever is live is on the list still to be
  evicted, so an empty list means an empty map, and with `Receivers` no engine.

**EvolutionProofs** (`BoundsAssumption`, `EvaluatorsAssumption`,
`CandidatesAssumption`, `MaxNotesAssumption`): `TypesHold`, `ChainsHoldApart`,
`NothingIsLostApart`, `TurnsKept`, `EvidenceCurrent`, `AcceptedPublished`,
`RejectedOut`, `Final`, `GradesAreOnce`. Three arguments:

- The chains: `TypeOK /\ Todo /\ AllHeld`. `AllHeld` says of every session that
  what was answered for is stored, and, apart from an overlap, that the rows are a
  prefix of what whoever is at work on the log has in hand. The lemmas under it are
  about logs: to extend keeps a chain intact, a prefix of an intact chain is intact,
  and to store the missing end of a log that has the rows as a prefix gives the log.
  It is the prefix that a summary beside a pass takes away.
- The rules: `TypeOK /\ Signed /\ AcceptedIsPublished`. `Signed` ties what the pass
  has in hand, learned.toml and both ledgers together; a rejected candidate in the
  file is then one that an unfinished pass left there.
- The grades (`AllGrades`): the rows of a session repeat no grade; a turn or a summary
  in flight knows no grade beyond the rows, and writes none (`Behind`), so what it
  stores brings none; what the pass has in hand repeats none either and has every
  grade of the rows at its place (`HasGradesOf`), whatever a summary has put
  between. So `Stored`, which keeps only what is above the highest id, adds the
  missing grades and repeats none.

**FactProofs** (`StemAssumption`, `MaxRowsAssumption`, `MaxTimeAssumption`,
`MaxFaultsAssumption`, `NoRowAssumption`): `TypesHold`, `OneLive`, `Successors`,
`VectorsOwn`, `ValuesKept`, `NothingRevived`, `NoValueLost`. The invariant is
`TypeOK /\ OneLiveVersion /\ SupersededHasSuccessor /\ Chained /\ Snapshot /\
VectorsKept`.

- `Chained`: versions dated after the present form an unbroken run of milliseconds
  from it. Without it a version told "one after the last" might land on one that
  is there, and be written over it.
- `Snapshot`: what the pass has read is what the table holds, up to what this pass
  has changed itself. This is what lets decay put back a row as it was read, and a
  merge forget a key by what it read of it.
- `VectorsKept`: a rowid with no row has no vector, unless it was purged.

**PointerProofs** (`BatchesAssumption`, `LimitsAssumption`, `MaxTimeAssumption`,
`ConnsAssumption`): `TypesHold`, `NothingForgotten`, `RateKept`, `HoldsKept`. The
invariant is `Typed /\ Counted /\ ClosedHolds /\ NothingLeftDown /\ Budget`: a closed
connection holds nothing, so a new one begins with nothing to release; `Budget`
counts what the bucket has given and what is in it against the time it knows of.

**RequestProofs** (`TenantsAssumption`, `LimitsAssumption`): `TypesHold`,
`RequestsArePaced`, `CeilingHolds`, `SlotsHold`. Two invariants:

- `TypeOK /\ Alone`: who sleeps and has not been overtaken has left to sleep exactly
  what is left of the interval.
- `CapInv`: the ceiling is read when a turn begins and passed by calls that end
  later, so the overshoot alone is not inductive. `ToCome` is the set of calls the
  turns in progress may still end, a pair of session and number each; what is spent,
  summaries apart, and what is to come together stay within the bound (`Bounded`). A
  call that ends moves one from the second to the first; a turn that begins finds the
  count below the ceiling, and as many turns beside it as `PermitsHeld` allows, which
  also keeps the sets of those with permits finite, for any set of sessions. A
  ceiling of zero is among the settings, for which the bound is below zero unless a
  turn may make one call: hence `MaxCalls` is at least one.

Each invariant was checked by TLC before it was proved. Every proof has one case per
action. The type invariants of these modules are therefore in no run.
`NothingIsLostApart`, `NothingRevived`, `Final` and `SlotsHold` are proved and in no
run either.

Only model-checked: liveness and everything about fairness, which is out of the
provers' reach (`EveryMessageGetsATurn`, `CloseEnds`, `CompanyServed`, `ServeEnds`,
`EveryTurnReplies`, `DeliveriesAnswered`, `WindowsLetGo`, `EveryTurnGetsOn`). Every
other property of the passing runs has a theorem.

## 5. Observations

Met while modelling; no run is spent on them, because no line of the code says
otherwise or because another run is worth more.

The dispatcher and the turn:

- *A send can lose its message* (`engine/src/dispatch.rs:331-337`, "No message is
  lost to that race."): preempted between its permit and its push, it pushes to a
  task that has closed and drained meanwhile. `lost` holds such messages.
- *A panic in a summary can lose one too* (`dispatch.rs:621-622`): the message that
  cut in on the summary is held in `session_turns`' own future while the summary is
  finished, so under Isolate the unwinding drops it, and only the mailbox is handed
  back, where the comment at `:513-514` says that no message is lost to a failure.
- *A summary in flight is dropped* when the next message arrives and begun again
  before that message's turn (`engine/src/dispatch.rs:609-633`). A request already
  sent is then on no account.
- *A confirmation nobody saw*: it is stored before its question is sent
  (`run.rs:706-711`, `dispatch.rs:650-662`), so after a crash or a failed send the
  next message can confirm it.
- *An answer beside an action that raised the tier* is settled by an earlier recall
  (`run.rs:196`, `434-436`): the proposal leaves neither a `ToolReturned` nor a
  `Rejected`, so the last of them is of an action before it, and the reply goes out
  though the action it was written beside has not run, which `run.rs:186-190` means
  to prevent.
- *One yes unlocks a turn*: after a confirmation, every irreversible or tainted
  action of the same turn passes the gates, not only the one staged. Code and
  tests intend it.
- *`confirm_pending` brings back* an action the turn has already denied, and a
  `forget_all` after a `remember_fact` of the same turn. No document says which
  should win.
- *A crash between a confirmed call and its flush* leaves the confirmation
  pending; the user may confirm again and the action runs again. The code has no
  record it could consult; `StagedRunsOnce` excuses it.

The hub, the registry and the webhooks:

- *Eviction race* (`channel-hub/src/queues.rs:57`): a sender looked up while the
  engine holds the receiver is no wake; if the engine is evicted with an empty
  queue before the push, the message waits in a parked queue until the company's
  next one. `CompanyServed` excuses exactly this.
- *Order in `unregister`* (`app/src/registry/mod.rs:322`): the channel is dropped,
  which may name the company, before its entry is removed, so a resolve in between
  finds it live and spends the name. The opposite order would not. It is masked
  today: only a failed run finishes with messages waiting, and its company is
  backing off anyway.
- *Shutdown* aborts engines whose queues still hold messages.
- *The seen file*: after a failed write a restart forgets what the write held, and
  the platform's retry runs again, and so does that of a message accepted once more
  before that write. `missed` and `unfiled` record it.

The pass and the facts:

- *A failed pass has written*: the design says that a pass that fails mid-way
  writes nothing; the grades it has stored stay, and so does learned.toml when the
  ledger cannot be saved. The ledger is as it was. It is not retried until another
  turn has ended.
- *An accepted note that was put out* by a better one keeps its verdict and is never
  proposed again.
- *A merge may keep a spelling the same pass has purged*, so that a value goes with
  the doubtful spelling of it. `ValuesSurvive` excuses it.
- *A failed read of the facts is taken for no facts* by `remember_fact`: two live
  versions, or an old one put in place over the new.
- *Forgetting and telling anew in the same millisecond* reopens the forgotten row.
- *A purged fact's vector* stays under its rowid (`memory-sqlite/src/lib.rs:1517`). A
  later fact on the same rowid whose own embedding fails keeps it, and the backfill,
  "the repair path for whatever this drops" (`lib.rs:897`), does not see it, because
  there is a vector.

The pointer agent:

- *The override releases one connection's keys*: those of the connection that
  noticed (`pointer/src/agent.rs:571`), where `docs/pointer-protocol.md:137-138` and
  `:345` say every held key. `NothingLeftDown` holds all the same: the others' keys
  are still theirs to release, and `HeldStaysDown` would allow the documented way.
- *The suspension is the last writer's* (`agent.rs:570`): a perform that began earlier
  may set it to an earlier end. The bucket's clock is set back in the same way, and what it then
  lets through in excess is what `back` says.
- *A stuck key is released by anyone's perform*, who may let go of one that another
  connection has pressed again since.

Requests:

- *Waiters of one throttle post together*: `Throttle::wait`
  (`llm/src/client.rs:20-38`) reads the time of the last request, sleeps, and claims
  the slot without reading it again, where its comment says that it spaces the
  requests of every client. Two that begin to wait in one interval end in one
  moment. `overtaken` are those.
- *The ceiling counts calls, not requests*: one for a call that succeeded
  (`engine/src/turn/accounting.rs:55-72`), however many attempts it took, and none
  for one that failed or was dropped with its summary, where `core/src/usage.rs`
  counts attempts as requests, `engine/src/turn/config.rs:229` speaks of a hard
  ceiling on requests and `app/src/factory.rs:830-837` of the number printed being
  the number. Turns side by side pass it by what they still call for, as
  `CapOvershoot` says.
- *Under serve the ceiling is an engine's, not a tenant's*: a tenant stopped for it
  is rebuilt after its backoff with a count of zero, and so is one evicted when idle.

## 6. Not modelled, and the plan

In this order:

1. **Sinks and connections** (`channel-hub/src/outbound.rs:99`): attach, deliver on a
   copy, drop; the TCP and chat connections' reader and writer, and the ceiling on
   connections.
2. **Abstract specifications** of more components, with proofs that they are
   implemented: a company's receiver as a lease that one holder has at a time
   (TenantRegistry), the facts as a map from keys to values (FactStore).
3. **Pointer client**: reconnection and backoff against the agent's connections.
4. **Replay** of a recorded session against a scripted emitter.

Left out of the modelled parts: in the pass, `Corrected` (no code in the repository
appends it), a second process (`ns-app evolve`), which no lock keeps from a pass of
the engine, and hand edits of the files between two reads; in the fact store, the
counters and confidence, the facts a pass writes for corrections
(`evolution/src/pass.rs:957-978`), the vectors of turns and digests; in the agent,
what moves, scrolls, texts and sleeps do, and a panic of a connection's task, which
would leave its keys down and its connection counted; in the client, what is sent and
parsed, the usage figures and the traces.

Left out for good, with the reason in `PROJECT.json`: the functions over text
(prompts, reply checks, router, provenance, parsing of model output, ranking of
search results), which keep no state and whose verdicts the models take as
inputs; framing and signatures of the channels; the operating system's side of
the pointer; the admin page, the offline commands and the test kit. They are most
of the repository's lines; the models are of the part in which several things
happen at once.
