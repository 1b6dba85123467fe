------------------------------- MODULE TurnLoop -------------------------------
(***************************************************************************)
(* crates/engine/src/turn: one session's turns, one at a time.  A turn is a *)
(* loop of at most max_iterations model decisions over the session's log;    *)
(* the loop ends on a reply.  What the model proposes, whether the user     *)
(* meant it, what a tool does and whether the store and the channel answer  *)
(* are all arbitrary; the process may crash wherever it awaits.             *)
(*                                                                          *)
(* A proposal is an action and the one thing about its arguments a check    *)
(* can tell: plain, tainted (External trust), ungrounded (Residual) or      *)
(* malformed.                                                               *)
(***************************************************************************)
EXTENDS SessionLog

CONSTANTS
  Tools,             \* the registered tools
  Pure, Irreversible,\* their side_effect; the rest are Reversible
  Once,              \* tools with a dedupe_tag
  Grounded,          \* tools whose argument has ResidualRule::Never
  Repairs,           \* LearnedRules: a function from proposals to proposals
  Harnesses,         \* the configurations a run may have, each with what its emitter
                     \* may propose and two bounds: turns, the turns of the session,
                     \* and lines, what it says before a reply
  MaxEmitRetries,    \* max_emit_retries
  MaxFaults          \* bound: crashes, failed appends and failed sends

Task == [tier |-> "Task", tools |-> {}]
Tiers == {"Chat", "Task", "Deep"}
\* tools is an Option: no set, or the one set of tools that rides the turn.
Routes == [tier : Tiers, tools : {{}} \cup {{ride} : ride \in SUBSET Tools}]
EngineOwned == {"ask_clarification", "remember_fact", "recall", "inspect_result",
                "forget_fact", "forget_all"}
Proposals == UNION {h.proposals : h \in Harnesses}
Arguments == {"plain", "tainted", "ungrounded", "malformed"}
Repair(p) == IF p \in DOMAIN Repairs THEN Repairs[p] ELSE p
Actions == {p.action : p \in Proposals} \cup {Repair(p).action : p \in Proposals}

ASSUME TurnLoopAssumption ==
  /\ Pure \subseteq Tools /\ Irreversible \subseteq Tools \ Pure
  /\ Once \subseteq Tools /\ Grounded \subseteq Tools
  /\ Tools \cap (EngineOwned \cup {"confirm_pending", "respond_directly", "none"}) = {}
  /\ \A h \in Harnesses : /\ h.routes \subseteq Routes /\ h.routes # {}
                          /\ h.act_and_answer \in BOOLEAN
                          /\ h.confirm_irreversible \in BOOLEAN
                          /\ h.never_remember_residual \in BOOLEAN
                          /\ h.prune_inapplicable \in BOOLEAN
                          /\ h.max_iterations \in Nat \ {0}
                          /\ h.turns \in Nat /\ h.lines \in Nat
  /\ Proposals \cup {Repair(p) : p \in Proposals} \subseteq [action : Actions, args : Arguments]
  /\ MaxEmitRetries \in Nat \ {0}
  /\ MaxFaults \in Nat

VARIABLES
  harness,  \* the configuration, fixed
  pc,       \* where the turn is
  log,      \* the session's log: see SessionLog
  t,        \* run_turn's locals and its Bookkeeping; t.raised is not in the code:
            \* the action last proposed only raised the tier, nothing records it
  facts,    \* whether the scope holds a fact
  lines, faults,  \* how many lines may still be said, how many faults may happen
  \* What the world saw, which the code has no variable for:
  world,    \* effects of the turn in progress
  unsaved,  \* flushes of the turn in progress that failed
  plan,     \* the proposal last staged, as it was checked, and whether it ran
  asked     \* the turn that staged what was last confirmed

ghosts == <<world, unsaved, plan, asked>>
limits == <<harness, lines, faults>>
vars == <<harness, pc, log, t, facts, lines, faults, world, unsaved, plan, asked>>

S == Latest(log)

NoTurn == [tier |-> "Task", tools |-> {}, facts |-> FALSE, recalls |-> FALSE,
           n |-> 0, failures |-> 0, p |-> NoProposal, held |-> FALSE,
           denied |-> {}, calls |-> {}, residual |-> FALSE, misses |-> 0,
           clipped |-> FALSE, next |-> "loop", policy |-> "none", raised |-> FALSE]

Init ==
  /\ harness \in Harnesses
  /\ pc = "idle"
  /\ log = <<EmptySession>>
  /\ t = NoTurn
  /\ facts \in BOOLEAN
  /\ lines = harness.lines /\ faults = MaxFaults
  /\ world = 0 /\ unsaved = 0
  /\ plan = [proposal |-> NoProposal, ran |-> FALSE]
  /\ asked = 0

-----------------------------------------------------------------------------
(* The turn begins.                                                         *)

\* route_turn: a confirmation awaited from the turn before outranks the words.
RouteOf(s, r) ==
  IF s.pending # NoPending /\ s.pending.turn + 1 = s.turn THEN Task ELSE r

\* A Deep turn runs its recall before the first proposal, as a recorded call.
Opened(before, s, tier) ==
  before \o (IF tier = "Deep" THEN <<s, ToolReturned(s, 0)>> ELSE <<s>>)

\* holds and recalls: prune_inapplicable's two questions, asked once a turn. Both
\* fail open, so a scope without facts may still be offered forgetting.
Begin(r, holds, recalls) ==
  /\ pc = "idle" /\ S.turn < harness.turns
  /\ facts => holds
  /\ harness.prune_inapplicable \/ (holds /\ recalls)
  /\ LET s == UserSaid(S)
         route == RouteOf(s, r)
     IN /\ log' = Opened(log, s, route.tier)
        /\ t' = [NoTurn EXCEPT !.tier = route.tier, !.tools = route.tools,
                               !.facts = holds, !.recalls = recalls]
  /\ pc' = "loop"
  /\ world' = 0 /\ unsaved' = 0 /\ asked' = 0
  /\ UNCHANGED <<facts, plan, limits>>

-----------------------------------------------------------------------------
(* One iteration: a decision of the model.                                  *)

\* The loop is left with how to reply; nothing else of the turn is read again.
Settle(policy) ==
  /\ t' = [NoTurn EXCEPT !.policy = policy]
  /\ pc' = "reply"

\* last_proposal_ran: this turn's latest ToolReturned or Rejected.
LastProposalRan == S.verdict = "ran"

\* An answer held beside an action settles the turn once the action ran.
CollectAnswer ==
  /\ pc = "loop" /\ t.held /\ LastProposalRan
  /\ Settle("answer")
  /\ UNCHANGED <<log, facts, ghosts, limits>>

Decides == pc = "loop" /\ t.n < harness.max_iterations /\ ~(t.held /\ LastProposalRan)

\* A terminal failure, or one too many, ends the loop.
EmitFails(retryable) ==
  /\ Decides
  /\ log' = Recorded(log, Rejected(S))
  /\ t' = [t EXCEPT !.held = FALSE, !.failures = @ + 1,
                    !.n = IF retryable /\ t.failures + 1 < MaxEmitRetries
                            THEN @ + 1 ELSE harness.max_iterations]
  /\ UNCHANGED <<pc, facts, ghosts, limits>>

\* The log keeps the proposal as written; the turn goes on with the repaired one.
Respond(p) ==
  /\ Decides /\ Repair(p).action = "respond_directly"
  /\ log' = Recorded(log, Proposed(S, p))
  /\ Settle("answer")
  /\ UNCHANGED <<facts, ghosts, limits>>

\* says: a line for the user now; answers: a reply held until the action ran.
Propose(p, says, answers) ==
  /\ Decides /\ Repair(p).action # "respond_directly"
  /\ says => lines > 0
  /\ answers => harness.act_and_answer
  /\ log' = Recorded(log, Proposed(S, p))
  /\ t' = [t EXCEPT !.n = @ + 1, !.p = Repair(p),
                    !.held = answers, !.raised = FALSE]
  /\ pc' = IF says THEN "say" ELSE "judge"
  /\ UNCHANGED <<facts, ghosts, limits>>

\* Whether it works; when it does not that is one of the faults.
Works(ok) ==
  /\ ok \/ faults > 0
  /\ faults' = IF ok THEN faults ELSE faults - 1

\* Mutant of Say: the line is sent and the turn goes on without a flush.
SayUnflushed(sent) ==
  /\ pc = "say" /\ Works(sent)
  /\ world' = IF sent THEN world + 1 ELSE world
  /\ log' = Recorded(log, Said(S))
  /\ lines' = lines - 1
  /\ pc' = "judge"
  /\ UNCHANGED <<t, facts, unsaved, plan, asked, harness>>

\* Said is recorded whether the channel took the line or not.
Say(sent) ==
  /\ pc = "say" /\ Works(sent)
  /\ world' = IF sent THEN world + 1 ELSE world
  /\ log' = Recorded(log, Said(S))
  /\ t' = [t EXCEPT !.next = "judge"]
  /\ lines' = lines - 1
  /\ pc' = "flush"
  /\ UNCHANGED <<facts, unsaved, plan, asked, harness>>

\* flush: everything appended so far, without waiting for the end of the turn.
Flush ==
  /\ pc = "flush"
  /\ log' = StoreUpTo(log, Len(log))
  /\ unsaved' = 0
  /\ pc' = t.next
  /\ UNCHANGED <<t, facts, world, plan, asked, limits>>

\* A flush that fails is reported and not fatal.
FlushFails(k) ==
  /\ pc = "flush" /\ Works(FALSE) /\ k < Len(log)
  /\ log' = StoreUpTo(log, k)
  /\ unsaved' = unsaved + 1
  /\ pc' = t.next
  /\ UNCHANGED <<t, facts, world, plan, asked, harness, lines>>

-----------------------------------------------------------------------------
(* Is the proposal legal, and is it new?                                    *)

a == t.p.action
WroteFact == \E c \in t.calls : c.action = "remember_fact"
Forgot == \E c \in t.calls : c.action \in {"forget_fact", "forget_all"}

\* The registered tools offered: the ride is the whole allowance of a Chat turn.
Riding == IF t.tier # "Chat" \/ t.tools # {}
            THEN {tool \in Tools \ t.denied : \A ride \in t.tools : tool \in ride}
            ELSE {}

Offered ==
  Riding
  \cup {"ask_clarification"}
  \cup ({"remember_fact"} \ t.denied)
  \cup (IF t.recalls THEN {"recall"} \ t.denied ELSE {})
  \cup (IF t.clipped THEN {"inspect_result"} \ t.denied ELSE {})
  \cup (IF ~WroteFact /\ ~Forgot /\ t.facts
          THEN {"forget_fact", "forget_all"} \ t.denied ELSE {})
  \cup (IF Confirmable(S) THEN {"confirm_pending"} ELSE {})

\* legal_actions: after a NeverResidual refusal only asking is left.
Legal == IF t.residual THEN {"ask_clarification"} ELSE Offered

\* Refuse the proposal and go round again.
Refuse(u) ==
  /\ log' = Recorded(log, Rejected(S))
  /\ t' = u
  /\ pc' = "loop"
  /\ UNCHANGED <<facts, ghosts, limits>>

TieredOut == t.tier = "Chat" /\ a \in Tools
Withheld == a \in Tools \ t.denied /\ \E ride \in t.tools : a \notin ride

\* Mutant of Escalate: the tier is not raised and no iteration is spent.
EscalateForFree ==
  /\ pc = "judge" /\ a \notin Legal
  /\ TieredOut \/ Withheld
  /\ t' = [t EXCEPT !.tools = IF Withheld THEN {} ELSE @, !.n = @ - 1,
                    !.raised = ~Withheld]
  /\ log' = IF Withheld THEN Recorded(log, Rejected(S)) ELSE log
  /\ pc' = "loop"
  /\ UNCHANGED <<facts, ghosts, limits>>

\* A real tool the route was hiding: widen, and ask again.  Only the widening
\* of the ride is recorded as a refusal.
Escalate ==
  /\ pc = "judge" /\ a \notin Legal
  /\ TieredOut \/ Withheld
  /\ t' = [t EXCEPT !.tier = IF TieredOut THEN "Task" ELSE @,
                    !.tools = IF Withheld THEN {} ELSE @, !.raised = ~Withheld]
  /\ log' = IF Withheld THEN Recorded(log, Rejected(S)) ELSE log
  /\ pc' = "loop"
  /\ UNCHANGED <<facts, ghosts, limits>>

RefuseIllegal ==
  /\ pc = "judge" /\ a \notin Legal /\ ~TieredOut /\ ~Withheld
  /\ Refuse([t EXCEPT !.denied = @ \cup {a}])

Repeated == a # "inspect_result" /\ t.p \in t.calls

\* Mutant of RefuseRepeat: the call is dropped and no Rejected says so.
DropRepeat ==
  /\ pc = "judge" /\ a \in Legal /\ Repeated
  /\ t' = [t EXCEPT !.denied = IF a \in EngineOwned THEN @ \cup {a} ELSE @]
  /\ pc' = "loop"
  /\ UNCHANGED <<log, facts, ghosts, limits>>

\* The repeat gate: a call that ran already tells nothing new; an engine-owned
\* action leaves the schema with it.
RefuseRepeat ==
  /\ pc = "judge" /\ a \in Legal /\ Repeated
  /\ Refuse([t EXCEPT !.denied = IF a \in EngineOwned THEN @ \cup {a} ELSE @])

\* confirm_pending puts the Proposed event's own proposal in its place: as the
\* model wrote it, whatever the repairs made of it when it was staged.
Confirm ==
  /\ pc = "judge" /\ a = "confirm_pending" /\ a \in Legal /\ ~Repeated
  /\ log' = Recorded(log, Confirmed(S))
  /\ t' = [t EXCEPT !.p = S.pending.proposal]
  /\ asked' = S.pending.turn
  /\ pc' = "run"
  /\ UNCHANGED <<facts, world, unsaved, plan, limits>>

Admit ==
  /\ pc = "judge" /\ a # "confirm_pending" /\ a \in Legal /\ ~Repeated
  /\ pc' = "run"
  /\ UNCHANGED <<log, t, facts, ghosts, limits>>

-----------------------------------------------------------------------------
(* Run it: run_builtin for the engine's own actions, run_tool for the rest. *)

\* The irreversible action waits for a yes on the next turn.
Stage ==
  /\ log' = Recorded(log, PendingConfirmation(S))
  /\ plan' = [proposal |-> t.p, ran |-> FALSE]
  /\ Settle("prompt")
  /\ UNCHANGED <<facts, world, unsaved, asked, limits>>

\* fired_tags is asked of the actions with a dedupe_tag only.
Call ==
  /\ log' = IF a \in Once THEN Recorded(log, ToolCalled(S, a)) ELSE log
  /\ t' = [t EXCEPT !.calls = @ \cup {t.p}]
  /\ pc' = "call"
  /\ UNCHANGED <<facts, ghosts, limits>>

\* Whether this turn's Confirmed unlocks the gates: confirmed_now, or the fold's.
Unlocked == S.confirmed

MalformedArgs ==
  /\ pc = "run" /\ t.p.args = "malformed"
  /\ a \in Tools \cup (EngineOwned \ {"forget_all"})
  /\ Refuse([t EXCEPT !.denied = IF a = "inspect_result" THEN @ \cup {a} ELSE @])

\* The question is the reply; a guard's objection, whichever, drops it.
AskClarification ==
  /\ pc = "run" /\ a = "ask_clarification" /\ t.p.args # "malformed"
  /\ IF t.p.args = "tainted" /\ ~Unlocked
       THEN Refuse([t EXCEPT !.denied = @ \cup {a}])
       ELSE Settle("question") /\ UNCHANGED <<log, facts, ghosts, limits>>

RememberFact ==
  /\ pc = "run" /\ a = "remember_fact" /\ t.p.args # "malformed"
  /\ IF t.p.args = "ungrounded" /\ harness.never_remember_residual
       THEN Refuse([t EXCEPT !.denied = @ \cup {a}, !.residual = TRUE])
       ELSE Call

Recall ==
  /\ pc = "run" /\ a \in {"recall", "inspect_result"} /\ t.p.args # "malformed"
  /\ Call

\* found: the key named a fact.  A store that errors reads as an empty one.
ForgetFact(found) ==
  /\ pc = "run" /\ a = "forget_fact" /\ t.p.args # "malformed"
  /\ found => facts
  /\ IF found
       THEN Call
       ELSE Refuse([t EXCEPT !.misses = @ + 1,
                             !.denied = IF t.misses >= 1 THEN @ \cup {a} ELSE @])

ForgetAll ==
  /\ pc = "run" /\ a = "forget_all"
  /\ IF Unlocked THEN Call ELSE Stage

(* The guards, in the order of builtin_guards; the first to object decides.  *)
Ungrounded == t.p.args = "ungrounded" /\ a \in Grounded
Tainted == t.p.args = "tainted" /\ a \notin Pure /\ ~Unlocked
AlreadyFired == a \in Once /\ a \in S.fired
\* Mutant of Unconfirmed: SideEffectGate is left out.
NoSideEffectGate == FALSE
Unconfirmed == a \in Irreversible /\ ~Unlocked /\ harness.confirm_irreversible

RunTool ==
  /\ pc = "run" /\ a \in Tools /\ t.p.args # "malformed"
  /\ \/ Ungrounded /\ Refuse([t EXCEPT !.residual = TRUE, !.denied = @ \cup {a}])
     \/ ~Ungrounded /\ Tainted /\ Stage
     \/ ~Ungrounded /\ ~Tainted /\ AlreadyFired /\ Refuse([t EXCEPT !.denied = @ \cup {a}])
     \/ ~Ungrounded /\ ~Tainted /\ ~AlreadyFired /\ Unconfirmed /\ Stage
     \/ ~Ungrounded /\ ~Tainted /\ ~AlreadyFired /\ ~Unconfirmed /\ Call

\* run_tool expects the tool to exist.
Panic ==
  /\ pc = "run" /\ a \notin Tools \cup EngineOwned
  /\ pc' = "panicked"
  /\ UNCHANGED <<log, t, facts, ghosts, limits>>

Flushed == (Tools \ Pure) \cup {"remember_fact", "forget_fact", "forget_all"}

\* Mutant of AfterCall: what the turn did is stored at its end.
StoredAtTheEnd == "loop"
AfterCall == IF a \in Flushed THEN "flush" ELSE "loop"

\* The call comes back.  done: it had its effect, which an error does not exclude
\* for a tool; more: its result is clipped; out: nothing is left to inspect.
Return(done, more, out) ==
  /\ pc = "call"
  /\ done => a \in Flushed
  /\ more => a # "inspect_result"
  /\ out => a = "inspect_result"
  /\ log' = Recorded(log, ToolReturned(S, IF a \in Flushed THEN 1 ELSE 0))
  /\ t' = [t EXCEPT !.next = "loop", !.clipped = @ \/ more,
                    !.denied = IF out THEN @ \cup {a} ELSE @]
  /\ pc' = AfterCall
  /\ facts' = IF ~done THEN facts
              ELSE CASE a = "remember_fact" -> TRUE
                     [] a \in {"forget_fact", "forget_all"} -> FALSE
                     [] OTHER -> facts
  /\ world' = IF done THEN world + 1 ELSE world
  /\ plan' = [plan EXCEPT !.ran = @ \/ (done /\ t.p = plan.proposal)]
  /\ UNCHANGED <<unsaved, asked, limits>>

-----------------------------------------------------------------------------
(* The turn ends.                                                           *)

\* Out of iterations, or of a working emitter: the turn says so.
Fallback ==
  /\ pc = "loop" /\ t.n = harness.max_iterations /\ ~(t.held /\ LastProposalRan)
  /\ Settle("fallback")
  /\ UNCHANGED <<log, facts, ghosts, limits>>

\* Replied, and the append that the turn's result depends on.
Finish ==
  /\ pc = "reply"
  /\ log' = <<Replied(S)>>
  /\ pc' = "send"
  /\ UNCHANGED <<t, facts, ghosts, limits>>

\* The dispatcher sends the reply once run_turn has returned it.
Deliver(sent) ==
  /\ pc = "send" /\ Works(sent)
  /\ pc' = "idle" /\ t' = NoTurn
  /\ UNCHANGED <<log, facts, world, unsaved, plan, asked, harness, lines>>

\* The session starts again from the store.  A confirmation the store has not
\* seen is awaited still.
StartAgain(k) ==
  /\ log' = <<log[k]>>
  /\ plan' = [plan EXCEPT !.ran = @ /\ log[k].pending = NoPending]
  /\ pc' = "idle" /\ t' = NoTurn
  /\ UNCHANGED <<facts, world, unsaved, asked, harness, lines>>

\* The append fails after k - 1 of its rows: a store error ends the run.
FinishFails(k) ==
  /\ pc = "reply" /\ Works(FALSE)
  /\ StartAgain(k)

Crash ==
  /\ pc \notin {"idle", "panicked"} /\ Works(FALSE)
  /\ StartAgain(1)

AfterPanic ==
  /\ pc = "panicked"
  /\ StartAgain(1)
  /\ UNCHANGED faults

-----------------------------------------------------------------------------
Step ==
  \/ CollectAnswer \/ Flush \/ Escalate \/ RefuseIllegal \/ RefuseRepeat
  \/ Confirm \/ Admit \/ MalformedArgs \/ AskClarification \/ RememberFact \/ Recall
  \/ ForgetAll \/ RunTool \/ Panic \/ Fallback \/ Finish \/ AfterPanic
  \/ \E retryable \in BOOLEAN : EmitFails(retryable)
  \/ \E p \in harness.proposals : Respond(p)
  \/ \E p \in harness.proposals, says, answers \in BOOLEAN : Propose(p, says, answers)
  \/ \E found \in BOOLEAN : ForgetFact(found)
  \/ \E done, more, out \in BOOLEAN : Return(done, more, out)
  \/ \E sent \in BOOLEAN : Say(sent) \/ Deliver(sent)
  \/ \E k \in 1..Len(log) : FlushFails(k) \/ FinishFails(k)

Next ==
  \/ Step
  \/ \E r \in harness.routes, holds, recalls \in BOOLEAN : Begin(r, holds, recalls)
  \/ Crash

Spec == Init /\ [][Next]_vars

\* The emitter, the tools, the store and the channel answer, if with an error.
Fairness == WF_vars(Step)
LiveSpec == Spec /\ Fairness

-----------------------------------------------------------------------------
(* What must hold.                                                          *)

ProposalType == [action : Actions \cup {"none"},
                 args : Arguments \cup {"none"}]
Readings == [turn : Nat, proposed : ProposalType,
             pending : [turn : Nat, proposal : ProposalType], confirmed : BOOLEAN,
             fired : SUBSET Once,
             verdict : {"none", "ran", "refused"}, acted : BOOLEAN, effects : Nat]
Locals == [tier : Tiers, tools : {{}} \cup {{ride} : ride \in SUBSET Tools},
           facts : BOOLEAN, recalls : BOOLEAN, n : 0..harness.max_iterations, failures : Nat,
           p : ProposalType, held : BOOLEAN, denied : SUBSET Actions,
           calls : SUBSET ProposalType, residual : BOOLEAN, misses : Nat,
           clipped : BOOLEAN, next : {"loop", "judge"}, raised : BOOLEAN,
           policy : {"none", "answer", "prompt", "question", "fallback"}]

\* Every variable has its type, and between turns the store holds all there is.
TypeOK ==
  /\ harness \in Harnesses
  /\ pc \in {"idle", "loop", "say", "flush", "judge", "run", "call", "reply", "send",
             "panicked"}
  /\ log \in Seq(Readings) /\ log # <<>>
  /\ t \in Locals
  /\ facts \in BOOLEAN
  /\ lines \in 0..harness.lines /\ faults \in 0..MaxFaults
  /\ world \in Nat /\ unsaved \in Nat
  /\ plan \in [proposal : ProposalType, ran : BOOLEAN]
  /\ asked \in Nat
  /\ pc = "idle" => Len(log) = 1

\* An irreversible action is called only on a turn the user's confirmation
\* belongs to, and only what the turn right before staged can be confirmed
\* (guards.rs SideEffectGate, the expiry rule of run.rs).
IrreversibleIsConfirmed ==
  pc = "call" /\ (a = "forget_all" \/ (a \in Irreversible /\ harness.confirm_irreversible))
    => S.confirmed /\ asked = S.turn - 1

\* What was staged runs at most once, whatever the model confirms or proposes
\* again, unless its confirmation was lost with a crash or a failed append.
StagedRunsOnce ==
  [][pc = "call" /\ world' > world /\ t.p = plan.proposal => ~plan.ran]_vars

\* An effect is in the stored log before the turn goes on: what a crash can lose
\* is the one call it interrupts, and those whose flush the store refused.
EffectsAreRecorded ==
  pc \notin {"idle", "send", "panicked"} =>
    world <= (IF Stored(log).turn = S.turn THEN Stored(log).effects ELSE 0)
             + unsaved + (IF pc = "flush" THEN 1 ELSE 0)

\* "So the log can say whether the action it was written beside happened" (run.rs):
\* an answer held beside an action becomes the reply only over a result of that
\* action, never over that of an earlier one of the turn.  There is one exception
\* in the code, and t.raised is true of it alone: a tool proposed on a plain chat
\* turn raises the tier and leaves neither a result nor a refusal, so that an
\* earlier recall of the turn speaks for it.
AnswerIsAboutWhatRan == [][CollectAnswer => S.acted \/ t.raised]_vars

\* The tool a proposal names exists by the time it is run.
ToolExists == pc # "panicked"

\* Every turn ends in a reply, or in the error that takes its place.
EveryTurnReplies == pc = "loop" ~> pc \in {"send", "idle"}
=============================================================================
