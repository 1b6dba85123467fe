------------------------------ MODULE TurnProofs ------------------------------
(***************************************************************************)
(* Proofs about TurnLoop, for any tools, repairs, harnesses and bounds: its *)
(* types and every safety property the runs check.                         *)
(*                                                                         *)
(* The session is read through its log alone, so the invariant relates the  *)
(* latest reading, and what the store holds of it, to the turn's locals and *)
(* to what the world saw.                                                  *)
(***************************************************************************)
EXTENDS TurnLoop, TLAPS

\* The model is being asked, or what it proposed is being dealt with.
Active == {"loop", "say", "flush", "judge", "run", "call"}

\* A proposal in hand names an action, as does one that awaits a confirmation.
Meant ==
  /\ pc \in Active \ {"loop"} => a \in Actions /\ S.proposed.action \in Actions
  /\ \A i \in DOMAIN log : log[i].pending = NoPending \/ log[i].pending.proposal.action \in Actions
  /\ pc = "say" => lines > 0
  /\ pc = "send" => Len(log) = 1

\* A turn that is confirmed took the confirmation of the turn before, and awaits
\* no other; what a turn stages it cannot confirm, for staging ends it.
Confirming ==
  /\ \A i \in DOMAIN log : log[i].pending.turn <= log[i].turn
  /\ pc # "idle" /\ S.confirmed => S.pending = NoPending /\ asked = S.turn - 1
  /\ pc \in Active => S.pending.turn < S.turn

\* What runs only once the user has confirmed something.
Gated(p) ==
  \/ p.action = "forget_all"
  \/ p.action \in Tools \ Pure /\ p.args = "tainted"
  \/ p.action \in Irreversible /\ harness.confirm_irreversible

\* What was staged and ran has nothing left to confirm it by; on the turn it ran
\* on it is among the calls the repeat gate knows.
Staging ==
  /\ plan.proposal = NoProposal \/ Gated(plan.proposal)
  /\ plan.ran => S.pending = NoPending /\ plan.proposal # NoProposal
  /\ plan.ran /\ S.confirmed /\ pc \in Active => plan.proposal \in t.calls
  /\ pc = "run" /\ plan.ran /\ t.p = plan.proposal => ~S.confirmed
  /\ pc = "call" => /\ t.p \in t.calls /\ t.p # NoProposal
                    /\ Gated(t.p) => S.confirmed
                    /\ plan.ran => t.p # plan.proposal

\* What a reading says of a turn's effects.
Told(r, turn) == IF r.turn = turn THEN r.effects ELSE 0

\* The log tells all effects of the turn, the store all but the one being flushed
\* and those it refused, and a reading tells no less than one before it.
Telling ==
  pc \in Active \cup {"reply"} =>
    /\ world <= S.effects
    /\ S.effects <= Told(Stored(log), S.turn) + unsaved + (IF pc = "flush" THEN 1 ELSE 0)
    /\ \A i, j \in DOMAIN log : i <= j => Told(log[i], S.turn) <= Told(log[j], S.turn)

\* A held answer meets no result but that of its own action, or its action is the
\* one that only raised the tier.
Answering ==
  /\ pc = "flush" /\ t.next = "loop" => S.acted
  /\ pc = "loop" /\ t.held /\ S.verdict = "ran" => S.acted \/ t.raised

-----------------------------------------------------------------------------
(* The log.                                                                 *)

\* One reading more, or the same log when the reading is the same.
LEMMA Grown ==
  ASSUME TypeOK, NEW s \in Readings, log' = Recorded(log, s)
  PROVE  /\ log' \in Seq(Readings) /\ log' # <<>> /\ S' = s /\ Stored(log') = Stored(log)
         /\ \A i \in DOMAIN log' : (i \in DOMAIN log /\ log'[i] = log[i]) \/ log'[i] = s
         /\ \A i, j \in DOMAIN log' : i <= j => \/ /\ {i, j} \subseteq DOMAIN log
                                                   /\ log'[i] = log[i] /\ log'[j] = log[j]
                                                \/ log'[j] = s
<1>1. /\ log \in Seq(Readings) /\ Len(log) \in Nat \ {0} /\ DOMAIN log = 1..Len(log)
  BY DEF TypeOK
<1>2. CASE s = log[Len(log)]
  <2>1. log' = log
    BY <1>2 DEF Recorded
  <2> QED
    BY <1>1, <1>2, <2>1 DEF S, Latest, TypeOK
<1>3. CASE s # log[Len(log)]
  <2>1. log' = Append(log, s)
    BY <1>3 DEF Recorded
  <2>2. /\ log' \in Seq(Readings) /\ Len(log') = Len(log) + 1 /\ DOMAIN log' = 1..(Len(log) + 1)
        /\ \A i \in 1..Len(log) : log'[i] = log[i]
        /\ log'[Len(log) + 1] = s
    BY <1>1, <2>1
  <2>3. S' = s /\ Stored(log') = Stored(log) /\ log' # <<>>
    BY <1>1, <2>2 DEF S, Latest, Stored
  <2>4. \A i \in DOMAIN log' : (i \in DOMAIN log /\ log'[i] = log[i]) \/ log'[i] = s
    BY <1>1, <2>2
  <2>5. \A i, j \in DOMAIN log' : i <= j => \/ /\ {i, j} \subseteq DOMAIN log
                                               /\ log'[i] = log[i] /\ log'[j] = log[j]
                                            \/ log'[j] = s
    BY <1>1, <2>2
  <2> QED
    BY <2>2, <2>3, <2>4, <2>5
<1> QED
  BY <1>2, <1>3

\* What is left of the log once the store has all before k.
LEMMA Flushing ==
  ASSUME TypeOK, NEW k \in 1..Len(log), log' = StoreUpTo(log, k)
  PROVE  /\ log' \in Seq(Readings) /\ log' # <<>> /\ S' = S /\ Stored(log') = log[k]
         /\ \A i \in DOMAIN log' : k + i - 1 \in DOMAIN log /\ log'[i] = log[k + i - 1]
         /\ DOMAIN log' \subseteq Nat
<1>1. /\ log \in Seq(Readings) /\ Len(log) \in Nat \ {0} /\ DOMAIN log = 1..Len(log)
  BY DEF TypeOK
<1>2. /\ log' \in Seq(Readings) /\ Len(log') = Len(log) - k + 1
      /\ \A i \in 1..(Len(log) - k + 1) : log'[i] = log[k + i - 1]
  BY <1>1 DEF StoreUpTo
<1>3. DOMAIN log' = 1..(Len(log) - k + 1) /\ Len(log) - k + 1 >= 1
  BY <1>2
<1>4. Len(log') \in 1..(Len(log) - k + 1) /\ k + Len(log') - 1 = Len(log) /\ k + 1 - 1 = k
  BY <1>1, <1>2
<1>5. log'[Len(log')] = log[Len(log)] /\ log'[1] = log[k]
  BY <1>2, <1>3, <1>4
<1>6. log' # <<>> /\ S' = S /\ Stored(log') = log[k]
  BY <1>2, <1>3, <1>5 DEF S, Latest, Stored
<1>7. \A i \in DOMAIN log' : k + i - 1 \in DOMAIN log /\ log'[i] = log[k + i - 1]
  BY <1>1, <1>2, <1>3
<1> QED
  BY <1>2, <1>3, <1>6, <1>7

LEMMA Read ==
  ASSUME TypeOK
  PROVE  /\ S \in Readings /\ Stored(log) \in Readings /\ Len(log) \in DOMAIN log /\ 1 \in DOMAIN log
         /\ S = log[Len(log)] /\ Stored(log) = log[1] /\ DOMAIN log = 1..Len(log)
         /\ \A i \in DOMAIN log : log[i] \in Readings
BY DEF TypeOK, S, Latest, Stored

\* The log starts again from one reading.
LEMMA Restarted ==
  ASSUME NEW s \in Readings, log' = <<s>>
  PROVE  /\ log' \in Seq(Readings) /\ log' # <<>> /\ S' = s /\ Len(log') = 1
         /\ \A i \in DOMAIN log' : log'[i] = s
BY DEF S, Latest

\* Each event's reading is one.
LEMMA Events ==
  ASSUME NEW s \in Readings
  PROVE  /\ Fresh(s) \in Readings /\ UserSaid(s) \in Readings /\ Rejected(s) \in Readings
         /\ Said(s) \in Readings /\ Confirmed(s) \in Readings /\ Replied(s) \in Readings
         /\ PendingConfirmation(s) \in Readings
         /\ \A p \in ProposalType : Proposed(s, p) \in Readings
         /\ \A tool \in Once : ToolCalled(s, tool) \in Readings
         /\ \A n \in Nat : ToolReturned(s, n) \in Readings
<1>1. NoProposal \in ProposalType /\ NoPending \in [turn : Nat, proposal : ProposalType]
  BY DEF NoProposal, NoPending, ProposalType
<1>2. Fresh(s) \in Readings
  BY <1>1 DEF Readings, Fresh
<1>3. UserSaid(s) \in Readings
  BY <1>2 DEF Readings, UserSaid
<1>4. Replied(s) \in Readings
  BY <1>2 DEF Replied
<1>5. Rejected(s) \in Readings
  BY DEF Readings, Rejected
<1>6. Said(s) \in Readings
  BY DEF Readings, Said
<1>7. Confirmed(s) \in Readings
  BY <1>1 DEF Readings, Confirmed
<1>8. PendingConfirmation(s) \in Readings
  BY DEF Readings, PendingConfirmation
<1>9. ASSUME NEW p \in ProposalType
      PROVE  Proposed(s, p) \in Readings
  BY DEF Readings, Proposed
<1>10. ASSUME NEW tool \in Once
       PROVE  ToolCalled(s, tool) \in Readings
  BY DEF Readings, ToolCalled
<1>11. ASSUME NEW n \in Nat
       PROVE  ToolReturned(s, n) \in Readings
  <2>1. s.effects + n \in Nat
    BY DEF Readings
  <2> QED
    BY <2>1 DEF Readings, ToolReturned
<1> QED
  BY <1>2, <1>3, <1>4, <1>5, <1>6, <1>7, <1>8, <1>9, <1>10, <1>11

\* What a turn starts from.
LEMMA Starting ==
  ASSUME NEW s \in Readings, NEW r \in {UserSaid(s), ToolReturned(UserSaid(s), 0)}
  PROVE  r.turn = s.turn + 1 /\ r.pending = s.pending /\ r.confirmed = FALSE /\ r.effects = 0
<1>1. /\ Fresh(s).turn = s.turn /\ Fresh(s).pending = s.pending
      /\ Fresh(s).confirmed = FALSE /\ Fresh(s).effects = 0
  BY DEF Fresh, Readings
<1>2. Fresh(s) \in Readings
  BY Events
<1>3. /\ UserSaid(s).turn = s.turn + 1 /\ UserSaid(s).pending = s.pending
      /\ UserSaid(s).confirmed = FALSE /\ UserSaid(s).effects = 0
  BY <1>1, <1>2 DEF UserSaid, Readings
<1>4. UserSaid(s) \in Readings
  BY Events
<1>5. CASE r = ToolReturned(UserSaid(s), 0)
  BY <1>3, <1>4, <1>5 DEF ToolReturned, Readings
<1> QED
  BY <1>3, <1>5

\* What the events of a turn leave of the reading before them.
LEMMA Passing ==
  ASSUME NEW s \in Readings,
         NEW r \in {Rejected(s), Said(s)} \cup {Proposed(s, p) : p \in ProposalType}
                   \cup {ToolCalled(s, tool) : tool \in Once} \cup {ToolReturned(s, n) : n \in Nat}
  PROVE  /\ r \in Readings /\ r.turn = s.turn /\ r.pending = s.pending /\ r.confirmed = s.confirmed
         /\ r.proposed = s.proposed \/ \E p \in ProposalType : r = Proposed(s, p)
         /\ s.effects <= r.effects
<1>1. CASE r \in {Rejected(s), Said(s)}
  BY <1>1, Events DEF Rejected, Said, Readings
<1>2. ASSUME NEW p \in ProposalType, r = Proposed(s, p)
      PROVE  /\ r \in Readings /\ r.turn = s.turn /\ r.pending = s.pending
             /\ r.confirmed = s.confirmed /\ r.effects = s.effects /\ r.proposed = p
  BY <1>2, Events DEF Proposed, Readings
<1>3. ASSUME NEW tool \in Once, r = ToolCalled(s, tool)
      PROVE  /\ r \in Readings /\ r.turn = s.turn /\ r.pending = s.pending
             /\ r.confirmed = s.confirmed /\ r.effects = s.effects /\ r.proposed = s.proposed
  BY <1>3, Events DEF ToolCalled, Readings
<1>4. ASSUME NEW n \in Nat, r = ToolReturned(s, n)
      PROVE  /\ r \in Readings /\ r.turn = s.turn /\ r.pending = s.pending
             /\ r.confirmed = s.confirmed /\ r.effects = s.effects + n /\ r.proposed = s.proposed
  BY <1>4, Events DEF ToolReturned, Readings
<1>5. s.effects \in Nat
  BY DEF Readings
<1> QED
  BY <1>1, <1>2, <1>3, <1>4, <1>5

-----------------------------------------------------------------------------
(* The steps, by what they do to the turn.                                  *)

\* All of t but what a refusal marks.
Marked(u) == u = [t EXCEPT !.denied = u.denied, !.residual = u.residual, !.misses = u.misses]
Refused == pc \in {"judge", "run"} /\ \E u \in Locals : Marked(u) /\ Refuse(u)

Settled ==
  /\ pc \in {"loop", "run"} /\ \E policy \in {"answer", "question", "fallback"} : Settle(policy)
  /\ UNCHANGED <<log, facts, ghosts, limits>>

Called == pc = "run" /\ Call /\ a \in Tools \cup EngineOwned /\ (Gated(t.p) => S.confirmed)
Staged == pc = "run" /\ Stage /\ Gated(t.p) /\ ~S.confirmed

LEMMA Marking ==
  ASSUME TypeOK, NEW d \in SUBSET Actions, NEW r \in BOOLEAN, NEW m \in Nat
  PROVE  LET u == [t EXCEPT !.denied = d, !.residual = r, !.misses = m]
         IN  u \in Locals /\ Marked(u)
<1> DEFINE u == [t EXCEPT !.denied = d, !.residual = r, !.misses = m]
<1>1. t \in Locals
  BY DEF TypeOK
<1>2. u \in Locals
  BY <1>1 DEF Locals
<1>3. u.denied = d /\ u.residual = r /\ u.misses = m
  BY <1>1 DEF Locals
<1>4. Marked(u)
  BY <1>1, <1>3 DEF Marked, Locals
<1> QED
  BY <1>2, <1>4

LEMMA Refusing ==
  ASSUME TypeOK, Meant, pc \in {"judge", "run"},
         NEW d \in {t.denied, t.denied \cup {a}}, NEW r \in BOOLEAN, NEW m \in Nat,
         Refuse([t EXCEPT !.denied = d, !.residual = r, !.misses = m])
  PROVE  Refused
<1>1. d \in SUBSET Actions
  BY DEF TypeOK, Meant, Active, Locals
<1> QED
  BY <1>1, Marking DEF Refused

LEMMA JudgeSteps ==
  ASSUME TypeOK, Meant, RefuseIllegal \/ RefuseRepeat
  PROVE  Refused
<1>1. t \in Locals /\ t.residual \in BOOLEAN /\ t.misses \in Nat
  BY DEF TypeOK, Locals
<1>2. ASSUME NEW d
      PROVE  [t EXCEPT !.denied = d] =
             [t EXCEPT !.denied = d, !.residual = t.residual, !.misses = t.misses]
  BY <1>1 DEF Locals
<1>3. PICK d \in {t.denied, t.denied \cup {a}} : Refuse([t EXCEPT !.denied = d])
  BY DEF RefuseIllegal, RefuseRepeat
<1>4. Refuse([t EXCEPT !.denied = d, !.residual = t.residual, !.misses = t.misses])
  BY <1>2, <1>3
<1>5. pc \in {"judge", "run"}
  BY DEF RefuseIllegal, RefuseRepeat
<1> QED
  BY <1>1, <1>4, <1>5, Refusing

LEMMA RunSteps ==
  ASSUME TypeOK, Meant,
         \/ MalformedArgs \/ AskClarification \/ RememberFact \/ Recall \/ ForgetAll \/ RunTool
         \/ \E found \in BOOLEAN : ForgetFact(found)
  PROVE  Refused \/ Settled \/ Called \/ Staged
<1>1. t \in Locals /\ t.residual \in BOOLEAN /\ t.misses \in Nat /\ pc = "run"
  BY DEF TypeOK, Locals, MalformedArgs, AskClarification, RememberFact, Recall, ForgetAll,
         RunTool, ForgetFact
<1>2. /\ Tools \cap (EngineOwned \cup {"confirm_pending", "respond_directly", "none"}) = {}
      /\ Irreversible \subseteq Tools
  BY TurnLoopAssumption
<1>3. ASSUME NEW d \in {t.denied, t.denied \cup {a}},
             \/ Refuse([t EXCEPT !.denied = d])
             \/ Refuse([t EXCEPT !.denied = d, !.residual = TRUE])
             \/ Refuse([t EXCEPT !.residual = TRUE, !.denied = d])
             \/ Refuse([t EXCEPT !.misses = t.misses + 1, !.denied = d])
      PROVE  Refused
  <2>1. /\ [t EXCEPT !.denied = d] = [t EXCEPT !.denied = d, !.residual = t.residual, !.misses = t.misses]
        /\ [t EXCEPT !.denied = d, !.residual = TRUE]
             = [t EXCEPT !.denied = d, !.residual = TRUE, !.misses = t.misses]
        /\ [t EXCEPT !.residual = TRUE, !.denied = d]
             = [t EXCEPT !.denied = d, !.residual = TRUE, !.misses = t.misses]
        /\ [t EXCEPT !.misses = t.misses + 1, !.denied = d]
             = [t EXCEPT !.denied = d, !.residual = t.residual, !.misses = t.misses + 1]
    BY <1>1 DEF Locals
  <2>2. t.misses + 1 \in Nat /\ TRUE \in BOOLEAN
    BY <1>1
  <2>3. \E r \in BOOLEAN, m \in Nat : Refuse([t EXCEPT !.denied = d, !.residual = r, !.misses = m])
    BY <1>1, <1>3, <2>1, <2>2
  <2> QED
    BY <1>1, <2>3, Refusing
<1>4. ASSUME Call, a \in Tools \cup EngineOwned, Gated(t.p) => Unlocked
      PROVE  Called
  BY <1>1, <1>4 DEF Called, Unlocked
<1>5. CASE MalformedArgs
  <2>1. PICK d \in {t.denied, t.denied \cup {a}} : Refuse([t EXCEPT !.denied = d])
    BY <1>5 DEF MalformedArgs
  <2> QED
    BY <1>3, <2>1
<1>6. CASE AskClarification
  <2>1. CASE t.p.args = "tainted" /\ ~Unlocked
    <3>1. Refuse([t EXCEPT !.denied = t.denied \cup {a}])
      BY <1>6, <2>1 DEF AskClarification
    <3> QED
      BY <1>3, <3>1
  <2>2. CASE ~(t.p.args = "tainted" /\ ~Unlocked)
    BY <1>1, <1>6, <2>2 DEF AskClarification, Settled
  <2> QED
    BY <2>1, <2>2
<1>7. CASE RememberFact
  <2>1. CASE t.p.args = "ungrounded" /\ harness.never_remember_residual
    <3>1. Refuse([t EXCEPT !.denied = t.denied \cup {a}, !.residual = TRUE])
      BY <1>7, <2>1 DEF RememberFact
    <3> QED
      BY <1>3, <3>1
  <2>2. CASE ~(t.p.args = "ungrounded" /\ harness.never_remember_residual)
    BY <1>2, <1>4, <1>7, <2>2 DEF RememberFact, Gated, EngineOwned, a
  <2> QED
    BY <2>1, <2>2
<1>8. CASE Recall
  BY <1>2, <1>4, <1>8 DEF Recall, Gated, EngineOwned, a
<1>9. ASSUME NEW found \in BOOLEAN, ForgetFact(found)
      PROVE  Refused \/ Called
  <2>1. CASE found
    BY <1>2, <1>4, <1>9, <2>1 DEF ForgetFact, Gated, EngineOwned, a
  <2>2. CASE ~found
    <3>1. PICK d \in {t.denied, t.denied \cup {a}} :
            Refuse([t EXCEPT !.misses = t.misses + 1, !.denied = d])
      BY <1>9, <2>2 DEF ForgetFact
    <3> QED
      BY <1>3, <3>1
  <2> QED
    BY <2>1, <2>2
<1>10. CASE ForgetAll
  <2>1. CASE Unlocked
    BY <1>4, <1>10, <2>1 DEF ForgetAll, EngineOwned
  <2>2. CASE ~Unlocked
    BY <1>1, <1>10, <2>2 DEF ForgetAll, Staged, Gated, Unlocked, a
  <2> QED
    BY <2>1, <2>2
<1>11. CASE RunTool
  <2>1. CASE Refuse([t EXCEPT !.residual = TRUE, !.denied = t.denied \cup {a}])
    BY <1>3, <2>1
  <2>2. CASE Refuse([t EXCEPT !.denied = t.denied \cup {a}])
    BY <1>3, <2>2
  <2>3. CASE Stage /\ (Tainted \/ Unconfirmed)
    BY <1>1, <1>11, <2>3 DEF RunTool, Staged, Gated, Tainted, Unconfirmed, Unlocked, a
  <2>4. CASE Call /\ ~Tainted /\ ~Unconfirmed
    BY <1>2, <1>4, <1>11, <2>4 DEF RunTool, Gated, Tainted, Unconfirmed, EngineOwned, a
  <2> QED
    BY <1>11, <2>1, <2>2, <2>3, <2>4 DEF RunTool
<1> QED
  BY <1>5, <1>6, <1>7, <1>8, <1>9, <1>10, <1>11

\* The session starts again from a reading of its log.
Again == \E k \in 1..Len(log) : StartAgain(k) /\ faults' \in 0..faults

\* Every step is one of these.
LEMMA Steps ==
  ASSUME TypeOK, Meant, [Next]_vars
  PROVE  \/ \E r \in harness.routes, holds, recalls \in BOOLEAN : Begin(r, holds, recalls)
         \/ Settled \/ Refused \/ Called \/ Staged \/ Again
         \/ \E retryable \in BOOLEAN : EmitFails(retryable)
         \/ \E p \in harness.proposals : Respond(p)
         \/ \E p \in harness.proposals, says, answers \in BOOLEAN : Propose(p, says, answers)
         \/ \E done, more, out \in BOOLEAN : Return(done, more, out)
         \/ \E sent \in BOOLEAN : Say(sent) \/ Deliver(sent)
         \/ Flush \/ (\E k \in 1..Len(log) : FlushFails(k))
         \/ Escalate \/ Confirm \/ Admit \/ Panic \/ Finish
         \/ UNCHANGED vars
<1>1. ASSUME CollectAnswer \/ Fallback
      PROVE  Settled
  BY <1>1 DEF CollectAnswer, Fallback, Settled
<1>2. faults \in Nat /\ 1 \in 1..Len(log)
  BY Read DEF TypeOK
<1>3. ASSUME Crash \/ AfterPanic \/ \E k \in 1..Len(log) : FinishFails(k)
      PROVE  Again
  BY <1>2, <1>3 DEF Crash, AfterPanic, FinishFails, Again, Works
<1> QED
  BY <1>1, <1>3, JudgeSteps, RunSteps DEF Next, Step

-----------------------------------------------------------------------------
(* Types.                                                                   *)

LEMMA Proposing ==
  /\ NoProposal \in ProposalType
  /\ \A p \in Proposals : /\ p \in ProposalType /\ p.action \in Actions
                          /\ Repair(p) \in ProposalType /\ Repair(p).action \in Actions
BY TurnLoopAssumption DEF NoProposal, ProposalType

LEMMA Harness ==
  ASSUME TypeOK
  PROVE  /\ harness.proposals \subseteq Proposals /\ harness.routes \subseteq Routes
         /\ harness.max_iterations \in Nat \ {0} /\ harness.lines \in Nat
BY TurnLoopAssumption DEF TypeOK, Proposals

\* A turn's locals when it begins or is left.
LEMMA NewTurn ==
  ASSUME TypeOK
  PROVE  /\ NoTurn \in Locals
         /\ \A route \in Routes, holds, recalls \in BOOLEAN :
              [NoTurn EXCEPT !.tier = route.tier, !.tools = route.tools,
                             !.facts = holds, !.recalls = recalls] \in Locals
         /\ \A policy \in {"answer", "prompt", "question", "fallback"} :
              [NoTurn EXCEPT !.policy = policy] \in Locals
<1>1. 0 \in 0..harness.max_iterations /\ NoProposal \in ProposalType
  BY Harness, Proposing
<1>2. NoTurn \in Locals
  BY <1>1 DEF NoTurn, Locals, Tiers
<1> QED
  <2>1. ASSUME NEW route \in Routes, NEW holds \in BOOLEAN, NEW recalls \in BOOLEAN
        PROVE  [NoTurn EXCEPT !.tier = route.tier, !.tools = route.tools,
                              !.facts = holds, !.recalls = recalls] \in Locals
    <3>1. route.tier \in Tiers /\ route.tools \in {{}} \cup {{ride} : ride \in SUBSET Tools}
      BY DEF Routes
    <3> QED
      BY <1>2, <3>1 DEF Locals
  <2>2. \A policy \in {"answer", "prompt", "question", "fallback"} :
          [NoTurn EXCEPT !.policy = policy] \in Locals
    BY <1>2 DEF Locals
  <2> QED
    BY <1>2, <2>1, <2>2

LEMMA TypedBegin ==
  ASSUME TypeOK, Meant, NEW r \in harness.routes, NEW holds \in BOOLEAN, NEW recalls \in BOOLEAN,
         Begin(r, holds, recalls)
  PROVE  /\ TypeOK' /\ Meant'
         /\ S'.turn = S.turn + 1 /\ S'.pending = S.pending /\ S'.confirmed = FALSE /\ S'.effects = 0
         /\ log'[1] = S /\ \A i \in DOMAIN log' : i = 1 \/ (log'[i].turn = S.turn + 1 /\ log'[i].effects = 0)
         /\ \A i \in DOMAIN log' : log'[i].pending = S.pending
<1> DEFINE s == UserSaid(S)
           route == RouteOf(s, r)
<1>1. S \in Readings /\ Len(log) = 1 /\ log = <<S>>
  BY Read DEF Begin, TypeOK
<1>2. s \in Readings /\ ToolReturned(s, 0) \in Readings
  BY <1>1, Events
<1>3. \A x \in {s, ToolReturned(s, 0)} :
         x.turn = S.turn + 1 /\ x.pending = S.pending /\ x.confirmed = FALSE /\ x.effects = 0
  BY <1>1, Starting
<1>4. route \in Routes
  BY Harness DEF RouteOf, Task, Routes, Tiers
<1>5. /\ log' \in Seq(Readings) /\ log' # <<>> /\ log'[1] = S
      /\ S' \in {s, ToolReturned(s, 0)}
      /\ \A i \in DOMAIN log' : i = 1 \/ log'[i] \in {s, ToolReturned(s, 0)}
  <2>1. log' = log \o <<s, ToolReturned(s, 0)>> \/ log' = log \o <<s>>
    BY DEF Begin, Opened
  <2>2. PICK new \in Seq(Readings) :
          /\ log' = log \o new /\ Len(new) \in {1, 2}
          /\ \A i \in 1..Len(new) : new[i] \in {s, ToolReturned(s, 0)}
    <3> DEFINE one == <<s>>
               two == <<s, ToolReturned(s, 0)>>
    <3>1. one \in Seq(Readings) /\ Len(one) = 1 /\ \A i \in 1..1 : one[i] = s
      BY <1>2
    <3>2. two \in Seq(Readings) /\ Len(two) = 2 /\ \A i \in 1..2 : two[i] \in {s, ToolReturned(s, 0)}
      BY <1>2
    <3>3. log' = log \o two \/ log' = log \o one
      BY <2>1
    <3> HIDE DEF one, two
    <3> QED
      BY <3>1, <3>2, <3>3
  <2>3. /\ log' \in Seq(Readings) /\ Len(log') = 1 + Len(new) /\ DOMAIN log' = 1..(1 + Len(new))
        /\ log'[1] = S
        /\ \A i \in 1..Len(new) : log'[1 + i] = new[i]
    BY <1>1, <2>2
  <2>4. \A i \in DOMAIN log' : i = 1 \/ log'[i] \in {s, ToolReturned(s, 0)}
    <3>1. \A i \in DOMAIN log' : i = 1 \/ (i - 1 \in 1..Len(new) /\ 1 + (i - 1) = i)
      BY <2>2, <2>3
    <3> QED
      BY <2>2, <2>3, <3>1
  <2>5. S' \in {s, ToolReturned(s, 0)}
    <3>1. Len(log') \in DOMAIN log' /\ Len(log') # 1
      BY <2>2, <2>3
    <3> QED
      BY <2>4, <3>1 DEF S, Latest
  <2> QED
    BY <2>2, <2>3, <2>4, <2>5
<1>6. t' \in Locals /\ pc' = "loop" /\ UNCHANGED <<facts, plan, limits>>
      /\ world' = 0 /\ unsaved' = 0 /\ asked' = 0
  BY <1>4, NewTurn DEF Begin
<1>7. TypeOK'
  BY <1>5, <1>6 DEF TypeOK, Locals, limits
<1>8. \A i \in DOMAIN log' : log'[i].pending = S.pending
  BY <1>3, <1>5
<1>9. Meant'
  <2>1. S.pending = NoPending \/ S.pending.proposal.action \in Actions
    BY <1>1, Read DEF Meant
  <2> QED
    BY <1>6, <1>8, <2>1 DEF Meant, Active
<1>10. S'.turn = S.turn + 1 /\ S'.pending = S.pending /\ S'.confirmed = FALSE /\ S'.effects = 0
  BY <1>3, <1>5
<1>11. \A i \in DOMAIN log' : i = 1 \/ (log'[i].turn = S.turn + 1 /\ log'[i].effects = 0)
  <2>1. ASSUME NEW i \in DOMAIN log', i # 1
        PROVE  log'[i].turn = S.turn + 1 /\ log'[i].effects = 0
    <3>1. log'[i] \in {s, ToolReturned(s, 0)}
      BY <1>5, <2>1
    <3> QED
      BY <1>3, <3>1
  <2> QED
    BY <2>1
<1> QED
  BY <1>5, <1>7, <1>8, <1>9, <1>10, <1>11

\* A log grown by one reading, or kept, awaits no proposal without an action.
LEMMA Awaiting ==
  ASSUME TypeOK, Meant, NEW s \in Readings, log' = Recorded(log, s),
         s.pending = NoPending \/ s.pending.proposal.action \in Actions
  PROVE  \A i \in DOMAIN log' :
           log'[i].pending = NoPending \/ log'[i].pending.proposal.action \in Actions
BY Grown DEF Meant

\* A step that stays in the turn, whatever it records of it.
LEMMA Onward ==
  ASSUME TypeOK, Meant, NEW s \in Readings, log' = Recorded(log, s),
         s.pending = NoPending \/ s.pending.proposal.action \in Actions,
         harness' = harness, t' \in Locals, facts' \in BOOLEAN,
         lines' \in 0..harness.lines, faults' \in 0..MaxFaults,
         world' \in Nat, unsaved' \in Nat, asked' \in Nat,
         plan' \in [proposal : ProposalType, ran : BOOLEAN],
         pc' \in (Active \ {"say"}) \cup {"reply", "panicked"} \/ (pc' = "say" /\ lines' > 0),
         pc' \in Active \ {"loop"} => t'.p.action \in Actions /\ s.proposed.action \in Actions
  PROVE  TypeOK' /\ Meant'
<1>1. /\ log' \in Seq(Readings) /\ log' # <<>> /\ S' = s
      /\ pc' \in {"loop", "say", "flush", "judge", "run", "call", "reply", "panicked"}
      /\ harness \in Harnesses
  BY Grown DEF Active, TypeOK
<1>2. TypeOK'
  BY <1>1 DEF TypeOK, Locals
<1>3. Meant'
  <2>1. pc' # "send" /\ (pc' = "say" => lines' > 0)
    BY <1>1 DEF Active
  <2>2. a' = t'.p.action
    BY DEF a
  <2> QED
    BY <1>1, <2>1, <2>2, Awaiting DEF Meant
<1> QED
  BY <1>2, <1>3

LEMMA Same ==
  ASSUME TypeOK, log' = log
  PROVE  log' = Recorded(log, S) /\ S \in Readings
BY Read DEF Recorded

\* The proposal that the latest reading awaits, if any, has an action.
LEMMA AwaitingNow ==
  ASSUME TypeOK, Meant
  PROVE  S.pending = NoPending \/ S.pending.proposal.action \in Actions
BY Read DEF Meant

LEMMA TypedStep ==
  ASSUME TypeOK, Meant, [Next]_vars
  PROVE  TypeOK' /\ Meant'
<1> USE DEF limits, ghosts
<1>1. /\ S \in Readings /\ t \in Locals /\ harness \in Harnesses
      /\ harness.max_iterations \in Nat \ {0}
      /\ 0..harness.max_iterations \subseteq Nat
      /\ facts \in BOOLEAN /\ lines \in 0..harness.lines /\ harness.lines \in Nat
      /\ faults \in 0..MaxFaults /\ MaxFaults \in Nat
      /\ world \in Nat /\ unsaved \in Nat /\ asked \in Nat
      /\ plan \in [proposal : ProposalType, ran : BOOLEAN]
      /\ S.pending = NoPending \/ S.pending.proposal.action \in Actions
      /\ facts' = facts => facts' \in BOOLEAN
  BY Read, Harness, AwaitingNow, TurnLoopAssumption DEF TypeOK
<1>2. \A ok \in BOOLEAN : Works(ok) => faults' \in 0..MaxFaults
  BY <1>1 DEF Works
<1>3. \A r \in harness.routes, holds, recalls \in BOOLEAN :
         Begin(r, holds, recalls) => TypeOK' /\ Meant'
  BY TypedBegin
<1>4. CASE Settled
  BY <1>1, <1>4, Onward, Same, NewTurn DEF Settled, Settle, Active
<1>5. CASE Refused
  <2>1. Rejected(S) \in Readings /\ Rejected(S).pending = S.pending
    BY <1>1, Passing
  <2> QED
    BY <1>1, <1>5, <2>1, Onward DEF Refused, Refuse, Active
<1>6. CASE Called
  <2>1. PICK s \in Readings : /\ log' = Recorded(log, s)
                              /\ s.pending = S.pending /\ s.proposed = S.proposed
    <3>1. CASE a \in Once
      <4>1. /\ ToolCalled(S, a) \in Readings /\ ToolCalled(S, a).pending = S.pending
            /\ ToolCalled(S, a).proposed = S.proposed
        BY <1>1, <3>1, Passing DEF ToolCalled, Readings
      <4> QED
        BY <1>6, <3>1, <4>1 DEF Called, Call
    <3>2. CASE a \notin Once
      BY <1>1, <1>6, <3>2, Same DEF Called, Call
    <3> QED
      BY <3>1, <3>2
  <2>2. t.p \in ProposalType /\ a \in Actions /\ S.proposed.action \in Actions
    BY <1>1, <1>6 DEF Called, Meant, Active, Locals
  <2>3. t' = [t EXCEPT !.calls = @ \cup {t.p}] /\ pc' = "call" /\ UNCHANGED <<facts, ghosts, limits>>
    BY <1>6 DEF Called, Call
  <2>4. t' \in Locals /\ t'.p = t.p
    BY <1>1, <2>2, <2>3 DEF Locals
  <2> QED
    BY <1>1, <2>1, <2>2, <2>3, <2>4, Onward DEF Active, a
<1>7. CASE Staged
  <2>1. /\ PendingConfirmation(S) \in Readings
        /\ PendingConfirmation(S).pending = [turn |-> S.turn, proposal |-> S.proposed]
    BY <1>1, Events DEF PendingConfirmation, Readings
  <2>2. S.proposed.action \in Actions /\ t.p \in ProposalType
    BY <1>1, <1>7 DEF Staged, Meant, Active, Locals
  <2>3. /\ log' = Recorded(log, PendingConfirmation(S)) /\ pc' = "reply"
        /\ plan' = [proposal |-> t.p, ran |-> FALSE]
        /\ t' \in Locals /\ UNCHANGED <<facts, world, unsaved, asked, limits>>
    BY <1>7, NewTurn DEF Staged, Stage, Settle
  <2> QED
    BY <1>1, <2>1, <2>2, <2>3, Onward DEF Active
<1>8. CASE Again
  <2>1. PICK k \in 1..Len(log) : StartAgain(k) /\ faults' \in 0..faults
    BY <1>8 DEF Again
  <2>2. log[k] \in Readings /\ (log[k].pending = NoPending \/ log[k].pending.proposal.action \in Actions)
    BY Read DEF Meant
  <2>3. log' = <<log[k]>> /\ pc' = "idle" /\ t' = NoTurn
        /\ plan' \in [proposal : ProposalType, ran : BOOLEAN]
        /\ UNCHANGED <<facts, world, unsaved, asked, harness, lines>>
    BY <1>1, <2>1, <2>2 DEF StartAgain
  <2>4. /\ log' \in Seq(Readings) /\ log' # <<>> /\ S' = log[k] /\ Len(log') = 1
        /\ \A i \in DOMAIN log' : log'[i] = log[k]
    BY <2>2, <2>3, Restarted
  <2>5. faults' \in 0..MaxFaults
    BY <1>1, <2>1
  <2>6. TypeOK'
    <3>1. Locals' = Locals
      BY <2>3 DEF Locals
    <3>2. t' \in Locals'
      BY <2>3, <3>1, NewTurn
    <3> QED
      BY <1>1, <2>3, <2>4, <2>5, <3>2 DEF TypeOK
  <2> QED
    BY <2>2, <2>3, <2>4, <2>6 DEF Meant, Active
<1>9. ASSUME NEW retryable \in BOOLEAN, EmitFails(retryable)
      PROVE  TypeOK' /\ Meant'
  <2>1. Rejected(S) \in Readings /\ Rejected(S).pending = S.pending
    BY <1>1, Passing
  <2>2. pc = "loop" /\ t.n < harness.max_iterations
    BY <1>9 DEF EmitFails, Decides
  <2>3. t' \in Locals
    <3>1. t.n + 1 \in 0..harness.max_iterations /\ harness.max_iterations \in 0..harness.max_iterations
          /\ t.failures + 1 \in Nat
      BY <1>1, <2>2 DEF Locals
    <3> QED
      BY <1>1, <1>9, <3>1 DEF EmitFails, Locals
  <2> QED
    BY <1>1, <1>9, <2>1, <2>2, <2>3, Onward DEF EmitFails, Active
<1>10. ASSUME NEW p \in harness.proposals, Respond(p)
       PROVE  TypeOK' /\ Meant'
  <2>1. Proposed(S, p) \in Readings /\ Proposed(S, p).pending = S.pending
    BY <1>1, Passing, Proposing, Harness
  <2> QED
    BY <1>1, <1>10, <2>1, Onward, NewTurn DEF Respond, Settle, Active
<1>11. ASSUME NEW p \in harness.proposals, NEW says \in BOOLEAN, NEW answers \in BOOLEAN,
              Propose(p, says, answers)
       PROVE  TypeOK' /\ Meant'
  <2>1. p \in ProposalType /\ p.action \in Actions /\ Repair(p) \in ProposalType /\ Repair(p).action \in Actions
    BY Proposing, Harness
  <2>2. /\ Proposed(S, p) \in Readings /\ Proposed(S, p).pending = S.pending
        /\ Proposed(S, p).proposed = p
    BY <1>1, <2>1, Passing DEF Proposed, Readings
  <2>3. pc = "loop" /\ t.n < harness.max_iterations
    BY <1>11 DEF Propose, Decides
  <2>4. t' \in Locals /\ t'.p = Repair(p)
    <3>1. t.n + 1 \in 0..harness.max_iterations
      BY <1>1, <2>3 DEF Locals
    <3> QED
      BY <1>1, <1>11, <2>1, <3>1 DEF Propose, Locals
  <2>5. pc' \in Active \ {"say"} \/ (pc' = "say" /\ lines' > 0)
    BY <1>11 DEF Propose, Active
  <2> QED
    BY <1>1, <1>11, <2>1, <2>2, <2>4, <2>5, Onward DEF Propose
<1>12. ASSUME NEW done \in BOOLEAN, NEW more \in BOOLEAN, NEW out \in BOOLEAN,
              Return(done, more, out)
       PROVE  TypeOK' /\ Meant'
  <2> DEFINE s == ToolReturned(S, IF a \in Flushed THEN 1 ELSE 0)
  <2>1. /\ s \in Readings /\ s.pending = S.pending /\ s.proposed = S.proposed
    <3>1. s \in {ToolReturned(S, n) : n \in Nat}
      OBVIOUS
    <3> QED
      BY <1>1, <3>1, Passing DEF ToolReturned, Readings
  <2>2. pc = "call" /\ a \in Actions /\ S.proposed.action \in Actions
    BY <1>12 DEF Return, Meant, Active
  <2>3. t' \in Locals /\ t'.p = t.p
    <3>1. /\ t' = [t EXCEPT !.next = "loop", !.clipped = t.clipped \/ more,
                            !.denied = IF out THEN t.denied \cup {a} ELSE t.denied]
      BY <1>12 DEF Return
    <3>2. (t.clipped \/ more) \in BOOLEAN /\ (IF out THEN t.denied \cup {a} ELSE t.denied) \in SUBSET Actions
      BY <1>1, <2>2 DEF Locals
    <3> QED
      BY <1>1, <3>1, <3>2 DEF Locals
  <2>4. facts' \in BOOLEAN /\ world' \in Nat /\ UNCHANGED <<unsaved, asked, limits>>
        /\ pc' \in {"loop", "flush"}
    <3>1. facts' \in {facts, TRUE, FALSE} /\ world' \in {world, world + 1}
      BY <1>12 DEF Return
    <3>2. UNCHANGED <<unsaved, asked, limits>> /\ pc' \in {"loop", "flush"}
      BY <1>12 DEF Return, AfterCall
    <3>3. facts' \in BOOLEAN
      BY <1>1, <3>1, Zenon
    <3> QED
      BY <1>1, <3>1, <3>2, <3>3
  <2>5. plan' \in [proposal : ProposalType, ran : BOOLEAN]
    BY <1>1, <1>12 DEF Return
  <2>6. log' = Recorded(log, s)
    BY <1>12 DEF Return
  <2> QED
    BY <1>1, <2>1, <2>2, <2>3, <2>4, <2>5, <2>6, Onward DEF Active, a
<1>13. ASSUME NEW sent \in BOOLEAN, Say(sent)
       PROVE  TypeOK' /\ Meant'
  <2>1. /\ Said(S) \in Readings /\ Said(S).pending = S.pending /\ Said(S).proposed = S.proposed
    BY <1>1, Passing DEF Said, Readings
  <2>2. pc = "say" /\ a \in Actions /\ S.proposed.action \in Actions /\ lines > 0
    BY <1>13 DEF Say, Meant, Active
  <2>3. t' \in Locals /\ t'.p = t.p
    BY <1>1, <1>13 DEF Say, Locals
  <2>4. lines' \in 0..harness.lines /\ world' \in Nat
    BY <1>1, <1>13, <2>2 DEF Say
  <2> QED
    BY <1>1, <1>2, <1>13, <2>1, <2>2, <2>3, <2>4, Onward DEF Say, Active, a
<1>14. ASSUME NEW sent \in BOOLEAN, Deliver(sent)
       PROVE  TypeOK' /\ Meant'
  <2>1. pc = "send" /\ pc' = "idle" /\ t' = NoTurn /\ Len(log) = 1 /\ faults' \in 0..MaxFaults
        /\ UNCHANGED <<log, facts, world, unsaved, plan, asked, harness, lines>>
    BY <1>2, <1>14 DEF Deliver, Meant
  <2>2. log' \in Seq(Readings) /\ log' # <<>> /\ Len(log') = 1 /\ t' \in Locals
    BY <2>1, NewTurn DEF TypeOK
  <2>3. TypeOK'
    BY <1>1, <2>1, <2>2 DEF TypeOK, Locals
  <2> QED
    BY <2>1, <2>3 DEF Meant, Active
<1>15. CASE Flush \/ \E k \in 1..Len(log) : FlushFails(k)
  <2>1. PICK k \in 1..Len(log) : /\ log' = StoreUpTo(log, k) /\ unsaved' \in Nat
                                 /\ faults' \in 0..MaxFaults
                                 /\ UNCHANGED <<t, facts, world, plan, asked, harness, lines>>
    <3>1. Len(log) \in 1..Len(log)
      BY Read DEF TypeOK
    <3>2. CASE Flush
      BY <1>1, <3>1, <3>2 DEF Flush
    <3>3. ASSUME NEW k \in 1..Len(log), FlushFails(k)
          PROVE  /\ log' = StoreUpTo(log, k) /\ unsaved' \in Nat /\ faults' \in 0..MaxFaults
                 /\ UNCHANGED <<t, facts, world, plan, asked, harness, lines>>
      <4>1. faults' \in 0..MaxFaults
        BY <1>2, <3>3 DEF FlushFails
      <4>2. unsaved' = unsaved + 1 /\ log' = StoreUpTo(log, k)
            /\ UNCHANGED <<t, facts, world, plan, asked, harness, lines>>
        BY <3>3 DEF FlushFails
      <4> QED
        BY <1>1, <4>1, <4>2
    <3> QED
      BY <1>15, <3>2, <3>3
  <2>2. pc = "flush" /\ pc' = t.next /\ t.next \in {"loop", "judge"}
    BY <1>1, <1>15 DEF Flush, FlushFails, Locals
  <2>3. /\ log' \in Seq(Readings) /\ log' # <<>> /\ S' = S
        /\ \A i \in DOMAIN log' : k + i - 1 \in DOMAIN log /\ log'[i] = log[k + i - 1]
    BY <2>1, Flushing
  <2>4. TypeOK'
    <3>1. Locals' = Locals /\ t' = t
      BY <1>15 DEF Flush, FlushFails, Locals, limits
    <3>2. t' \in Locals'
      BY <1>1, <3>1 DEF TypeOK
    <3> QED
      BY <1>1, <1>15, <2>1, <2>2, <2>3, <3>2 DEF TypeOK, Flush, FlushFails, Works, ghosts, limits
  <2>5. \A i \in DOMAIN log' :
           log'[i].pending = NoPending \/ log'[i].pending.proposal.action \in Actions
    BY <2>3 DEF Meant
  <2>6. t' = t /\ a' = a /\ a \in Actions /\ S.proposed.action \in Actions
    BY <2>1, <2>2 DEF Meant, Active, a
  <2> QED
    BY <2>2, <2>3, <2>4, <2>5, <2>6 DEF Meant
<1>16. CASE Escalate
  <2>1. PICK s \in Readings : /\ log' = Recorded(log, s) /\ s.pending = S.pending
    <3>1. Rejected(S) \in Readings /\ Rejected(S).pending = S.pending
      BY <1>1, Passing
    <3> QED
      BY <1>1, <1>16, <3>1, Same DEF Escalate
  <2>2. t' \in Locals
    BY <1>1, <1>16 DEF Escalate, Locals, Tiers
  <2> QED
    BY <1>1, <1>16, <2>1, <2>2, Onward DEF Escalate, Active
<1>17. CASE Confirm
  <2>1. Confirmed(S) \in Readings /\ Confirmed(S).pending = NoPending /\ Confirmed(S).proposed = S.proposed
    BY <1>1, Events DEF Confirmed, Readings
  <2>2. pc = "judge" /\ S.proposed.action \in Actions
    BY <1>17 DEF Confirm, Meant, Active
  <2>3. S.pending # NoPending
    <3>1. "confirm_pending" \notin Tools \cup {"ask_clarification"}
      BY TurnLoopAssumption
    <3> QED
      BY <1>17, <3>1 DEF Confirm, Legal, Offered, Riding, Confirmable
  <2>4. S.pending \in [turn : Nat, proposal : ProposalType] /\ S.pending.proposal.action \in Actions
    BY <1>1, <2>3 DEF Readings
  <2>5. t' \in Locals /\ t'.p = S.pending.proposal /\ asked' \in Nat
    BY <1>1, <1>17, <2>4 DEF Confirm, Locals
  <2> QED
    BY <1>1, <1>17, <2>1, <2>2, <2>4, <2>5, Onward DEF Confirm, Active
<1>18. CASE Admit \/ Panic
  <2>1. pc \in {"judge", "run"} /\ pc' \in {"run", "panicked"} /\ UNCHANGED <<log, t, facts, ghosts, limits>>
    BY <1>18 DEF Admit, Panic
  <2>2. a \in Actions /\ S.proposed.action \in Actions
    BY <2>1 DEF Meant, Active
  <2> QED
    BY <1>1, <2>1, <2>2, Same, Onward DEF Active, a
<1>19. CASE Finish
  <2>1. Replied(S) \in Readings /\ Replied(S).pending = S.pending
    BY <1>1, Events DEF Replied, Fresh, Readings
  <2>2. log' = <<Replied(S)>> /\ pc' = "send" /\ UNCHANGED <<t, facts, ghosts, limits>>
    BY <1>19 DEF Finish
  <2>3. /\ log' \in Seq(Readings) /\ log' # <<>> /\ Len(log') = 1
        /\ \A i \in DOMAIN log' : log'[i] = Replied(S)
    BY <2>1, <2>2, Restarted
  <2>4. TypeOK'
    <3>1. Locals' = Locals
      BY <2>2 DEF Locals, limits
    <3>2. t' \in Locals'
      BY <1>1, <2>2, <3>1 DEF TypeOK
    <3> QED
      BY <1>1, <2>2, <2>3, <3>2 DEF TypeOK, ghosts, limits
  <2>5. \A i \in DOMAIN log' :
           log'[i].pending = NoPending \/ log'[i].pending.proposal.action \in Actions
    BY <1>1, <2>1, <2>3
  <2> QED
    BY <2>2, <2>3, <2>4, <2>5 DEF Meant, Active
<1>20. CASE UNCHANGED vars
  <2>1. /\ harness' = harness /\ pc' = pc /\ log' = log /\ t' = t /\ facts' = facts
        /\ lines' = lines /\ faults' = faults /\ world' = world /\ unsaved' = unsaved
        /\ plan' = plan /\ asked' = asked
    BY <1>20 DEF vars
  <2>2. /\ pc \in {"idle", "loop", "say", "flush", "judge", "run", "call", "reply", "send", "panicked"}
        /\ log \in Seq(Readings) /\ log # <<>> /\ (pc = "idle" => Len(log) = 1)
    BY DEF TypeOK
  <2>3. t' \in Locals /\ plan' \in [proposal : ProposalType, ran : BOOLEAN] /\ facts' \in BOOLEAN
        /\ harness' \in Harnesses
    BY <1>1, <2>1, Zenon
  <2>4. /\ pc' \in {"idle", "loop", "say", "flush", "judge", "run", "call", "reply", "send", "panicked"}
        /\ log' \in Seq(Readings) /\ log' # <<>> /\ (pc' = "idle" => Len(log') = 1)
    BY <2>1, <2>2
  <2>5. /\ lines' \in 0..harness'.lines /\ faults' \in 0..MaxFaults
        /\ world' \in Nat /\ unsaved' \in Nat /\ asked' \in Nat
    BY <1>1, <2>1
  <2>6. t' \in Locals'
    BY <2>1, <2>3 DEF Locals
  <2>7. TypeOK'
    BY <2>3, <2>4, <2>5, <2>6, Zenon DEF TypeOK
  <2> QED
    BY <2>1, <2>7 DEF Meant, S, a
<1> QED
  BY <1>3, <1>4, <1>5, <1>6, <1>7, <1>8, <1>9, <1>10, <1>11, <1>12, <1>13, <1>14, <1>15,
     <1>16, <1>17, <1>18, <1>19, <1>20, Steps

-----------------------------------------------------------------------------
(* What a step does to the session, the world and the plan.                 *)

\* What r leaves of the reading s before it, n effects later.
Keeps(r, s, n) == /\ r \in Readings /\ r.turn = s.turn /\ r.pending = s.pending
                  /\ r.confirmed = s.confirmed /\ r.effects = s.effects + n

LEMMA Keeping ==
  ASSUME NEW s \in Readings
  PROVE  /\ Keeps(s, s, 0) /\ Keeps(Rejected(s), s, 0) /\ Keeps(Said(s), s, 1)
         /\ \A p \in ProposalType : Keeps(Proposed(s, p), s, 0)
         /\ \A tool \in Once : Keeps(ToolCalled(s, tool), s, 0)
         /\ \A n \in Nat : Keeps(ToolReturned(s, n), s, n)
<1>1. s.effects \in Nat /\ s.effects + 0 = s.effects
  BY DEF Readings
<1>2. Keeps(s, s, 0)
  BY <1>1 DEF Keeps
<1>3. Keeps(Rejected(s), s, 0)
  BY <1>1, Events DEF Keeps, Rejected, Readings
<1>4. Keeps(Said(s), s, 1)
  BY <1>1, Events DEF Keeps, Said, Readings
<1>5. ASSUME NEW p \in ProposalType
      PROVE  Keeps(Proposed(s, p), s, 0)
  BY <1>1, Events DEF Keeps, Proposed, Readings
<1>6. ASSUME NEW tool \in Once
      PROVE  Keeps(ToolCalled(s, tool), s, 0)
  BY <1>1, Events DEF Keeps, ToolCalled, Readings
<1>7. ASSUME NEW n \in Nat
      PROVE  Keeps(ToolReturned(s, n), s, n)
  BY <1>1, Events DEF Keeps, ToolReturned, Readings
<1> QED
  BY <1>2, <1>3, <1>4, <1>5, <1>6, <1>7

Flushes == Flush \/ \E k \in 1..Len(log) : FlushFails(k)

\* The turn goes on: it is awaiting what it was awaiting, an effect is about to be
\* flushed, and only a call that comes back can have run the plan.
Proceeds ==
  /\ pc \in Active \ {"flush"} /\ pc' \in Active \cup {"reply", "panicked"}
  /\ \E s \in Readings :
       /\ log' = Recorded(log, s)
       /\ \/ Keeps(s, S, 0) /\ world' = world
          \/ Keeps(s, S, 1) /\ world' \in {world, world + 1} /\ pc' = "flush"
  /\ UNCHANGED <<harness, unsaved, asked>>
  /\ pc' \in Active => t.calls \subseteq t'.calls
  /\ pc' = "run" => Admit
  /\ pc' = "call" => Called
  /\ plan' = plan \/ /\ pc = "call" /\ pc' # "call" /\ t.p = plan.proposal
                     /\ plan' = [plan EXCEPT !.ran = TRUE]

LEMMA Kinds ==
  ASSUME TypeOK, Meant, [Next]_vars
  PROVE  \/ \E r \in harness.routes, holds, recalls \in BOOLEAN : Begin(r, holds, recalls)
         \/ Proceeds \/ Confirm \/ Staged \/ Flushes \/ Again \/ Finish
         \/ \E sent \in BOOLEAN : Deliver(sent)
         \/ UNCHANGED vars
<1>1. S \in Readings /\ t \in Locals /\ Keeps(S, S, 0) /\ (log' = log => log' = Recorded(log, S))
  BY Read, Same, Keeping DEF TypeOK
<1>2. CASE Settled
  BY <1>1, <1>2 DEF Settled, Settle, Proceeds, Active, ghosts, limits
<1>3. CASE Refused
  <2>1. PICK u \in Locals : Marked(u) /\ Refuse(u)
    BY <1>3 DEF Refused
  <2>2. u.calls = t.calls
    BY <1>1, <2>1 DEF Marked, Locals
  <2>3. Keeps(Rejected(S), S, 0) /\ Rejected(S) \in Readings
    BY <1>1, Keeping, Events
  <2> QED
    BY <1>3, <2>1, <2>2, <2>3 DEF Refused, Refuse, Proceeds, Active, ghosts, limits
<1>4. CASE Called
  <2>1. \E s \in Readings : log' = Recorded(log, s) /\ Keeps(s, S, 0)
    <3>1. CASE a \in Once
      <4>1. Keeps(ToolCalled(S, a), S, 0) /\ ToolCalled(S, a) \in Readings
        BY <1>1, <3>1, Keeping, Events
      <4> QED
        BY <1>4, <3>1, <4>1 DEF Called, Call
    <3>2. CASE a \notin Once
      BY <1>1, <1>4, <3>2 DEF Called, Call
    <3> QED
      BY <3>1, <3>2
  <2>2. /\ pc = "run" /\ pc' = "call" /\ t' = [t EXCEPT !.calls = @ \cup {t.p}]
        /\ UNCHANGED <<facts, ghosts, limits>>
    BY <1>4 DEF Called, Call
  <2>3. t.calls \subseteq t'.calls
    BY <1>1, <2>2 DEF Locals
  <2> QED
    BY <1>4, <2>1, <2>2, <2>3 DEF Proceeds, Active, ghosts, limits
<1>5. ASSUME NEW retryable \in BOOLEAN, EmitFails(retryable)
      PROVE  Proceeds
  <2>1. Keeps(Rejected(S), S, 0) /\ Rejected(S) \in Readings
    BY <1>1, Keeping, Events
  <2>2. pc = "loop" /\ t'.calls = t.calls
    BY <1>1, <1>5 DEF EmitFails, Decides, Locals
  <2> QED
    BY <1>5, <2>1, <2>2 DEF EmitFails, Proceeds, Active, ghosts, limits
<1>6. ASSUME NEW p \in harness.proposals, NEW says \in BOOLEAN, NEW answers \in BOOLEAN,
             Respond(p) \/ Propose(p, says, answers)
      PROVE  Proceeds
  <2>1. p \in ProposalType
    BY Proposing, Harness
  <2>2. Keeps(Proposed(S, p), S, 0) /\ Proposed(S, p) \in Readings
    BY <1>1, <2>1, Keeping, Events
  <2>3. /\ pc = "loop" /\ pc' \in {"reply", "say", "judge"} /\ log' = Recorded(log, Proposed(S, p))
        /\ UNCHANGED <<facts, ghosts, limits>>
    BY <1>6 DEF Respond, Propose, Decides, Settle
  <2>4. pc' \in Active => t.calls \subseteq t'.calls
    BY <1>1, <1>6 DEF Respond, Propose, Settle, Active, Locals
  <2> QED
    BY <2>2, <2>3, <2>4 DEF Proceeds, Active, ghosts, limits
<1>7. ASSUME NEW done \in BOOLEAN, NEW more \in BOOLEAN, NEW out \in BOOLEAN,
             Return(done, more, out)
      PROVE  Proceeds
  <2> DEFINE n == IF a \in Flushed THEN 1 ELSE 0
             s == ToolReturned(S, n)
  <2>1. Keeps(s, S, n) /\ s \in Readings
    BY <1>1, Keeping, Events
  <2>2. /\ pc = "call" /\ log' = Recorded(log, s) /\ pc' = AfterCall
        /\ world' = (IF done THEN world + 1 ELSE world) /\ (done => a \in Flushed)
        /\ UNCHANGED <<unsaved, asked, limits>>
    BY <1>7 DEF Return
  <2>3. \/ Keeps(s, S, 0) /\ world' = world /\ pc' = "loop"
        \/ Keeps(s, S, 1) /\ world' \in {world, world + 1} /\ pc' = "flush"
    BY <2>1, <2>2 DEF AfterCall
  <2>4. t.calls \subseteq t'.calls
    BY <1>1, <1>7 DEF Return, Locals
  <2>5. plan' = plan \/ (t.p = plan.proposal /\ plan' = [plan EXCEPT !.ran = TRUE])
    <3>1. plan' = [plan EXCEPT !.ran = plan.ran \/ (done /\ t.p = plan.proposal)]
      BY <1>7 DEF Return
    <3>2. plan = [plan EXCEPT !.ran = plan.ran] /\ plan.ran \in BOOLEAN
      BY DEF TypeOK
    <3> QED
      BY <3>1, <3>2
  <2> QED
    BY <2>1, <2>2, <2>3, <2>4, <2>5 DEF Proceeds, Active, limits
<1>8. ASSUME NEW sent \in BOOLEAN, Say(sent)
      PROVE  Proceeds
  <2>1. Keeps(Said(S), S, 1) /\ Said(S) \in Readings
    BY <1>1, Keeping, Events
  <2>2. t'.calls = t.calls
    BY <1>1, <1>8 DEF Say, Locals
  <2> QED
    BY <1>8, <2>1, <2>2 DEF Say, Proceeds, Active
<1>9. CASE Escalate
  <2>1. Keeps(Rejected(S), S, 0) /\ Rejected(S) \in Readings
    BY <1>1, Keeping, Events
  <2>2. \E s \in Readings : log' = Recorded(log, s) /\ Keeps(s, S, 0)
    BY <1>1, <1>9, <2>1 DEF Escalate
  <2>3. t'.calls = t.calls
    BY <1>1, <1>9 DEF Escalate, Locals
  <2> QED
    BY <1>9, <2>2, <2>3 DEF Escalate, Proceeds, Active, ghosts, limits
<1>10. CASE Admit \/ Panic
  BY <1>1, <1>10 DEF Admit, Panic, Proceeds, Active, ghosts, limits
<1> QED
  BY <1>2, <1>3, <1>4, <1>5, <1>6, <1>7, <1>8, <1>9, <1>10, Steps DEF Flushes

-----------------------------------------------------------------------------
(* The invariant.                                                           *)

TurnInv == TypeOK /\ Meant /\ Confirming /\ Staging /\ Telling /\ Answering

\* A turn that goes on has the turn, the confirmation and the pending proposal it had.
LEMMA Proceeding ==
  ASSUME TypeOK, Proceeds
  PROVE  /\ S'.turn = S.turn /\ S'.pending = S.pending /\ S'.confirmed = S.confirmed
         /\ pc \in Active /\ pc' \in Active \cup {"reply", "panicked"} /\ pc' # "idle"
BY Grown DEF Proceeds, Keeps, Active

LEMMA ConfirmingStep ==
  ASSUME TurnInv, [Next]_vars
  PROVE  Confirming'
<1>1. /\ TypeOK /\ Meant /\ S \in Readings /\ S.turn \in Nat /\ S.pending.turn \in Nat
      /\ \A i \in DOMAIN log : log[i].pending.turn <= log[i].turn
      /\ S.pending.turn <= S.turn
  BY Read DEF TurnInv, Confirming, Readings
<1>2. ASSUME NEW s \in Readings, log' = Recorded(log, s), s.pending.turn <= s.turn
      PROVE  S' = s /\ \A i \in DOMAIN log' : log'[i].pending.turn <= log'[i].turn
  BY <1>1, <1>2, Grown
<1>3. ASSUME NEW r \in harness.routes, NEW holds \in BOOLEAN, NEW recalls \in BOOLEAN,
             Begin(r, holds, recalls)
      PROVE  Confirming'
  <2>1. /\ S'.turn = S.turn + 1 /\ S'.pending = S.pending /\ S'.confirmed = FALSE
        /\ log'[1] = S
        /\ \A i \in DOMAIN log' : i = 1 \/ (log'[i].turn = S.turn + 1 /\ log'[i].effects = 0)
        /\ \A i \in DOMAIN log' : log'[i].pending = S.pending
    BY <1>1, <1>3, TypedBegin
  <2>2. \A i \in DOMAIN log' : log'[i].pending.turn <= log'[i].turn
    BY <1>1, <2>1
  <2> QED
    BY <1>1, <2>1, <2>2 DEF Confirming
<1>4. CASE Proceeds
  <2>1. /\ S'.turn = S.turn /\ S'.pending = S.pending /\ S'.confirmed = S.confirmed
        /\ pc \in Active /\ pc' # "idle" /\ pc # "idle" /\ asked' = asked
    BY <1>1, <1>4, Proceeding DEF Proceeds, Active
  <2>2. \A i \in DOMAIN log' : log'[i].pending.turn <= log'[i].turn
    BY <1>1, <1>2, <1>4 DEF Proceeds, Keeps
  <2> QED
    BY <2>1, <2>2 DEF TurnInv, Confirming
<1>5. CASE Confirm
  <2>1. /\ Confirmed(S) \in Readings /\ Confirmed(S).pending = NoPending
        /\ Confirmed(S).turn = S.turn
    BY <1>1, Events DEF Confirmed, Readings
  <2>2. /\ log' = Recorded(log, Confirmed(S)) /\ pc = "judge" /\ pc' = "run"
        /\ asked' = S.pending.turn
    BY <1>5 DEF Confirm
  <2>3. NoPending.turn = 0
    BY DEF NoPending
  <2>4. S' = Confirmed(S) /\ \A i \in DOMAIN log' : log'[i].pending.turn <= log'[i].turn
    BY <1>1, <1>2, <2>1, <2>2, <2>3
  <2>5. S.turn \in {S.pending.turn, S.pending.turn + 1}
    <3>1. "confirm_pending" \notin Tools \cup {"ask_clarification"}
      BY TurnLoopAssumption
    <3> QED
      BY <1>5, <3>1 DEF Confirm, Legal, Offered, Riding, Confirmable
  <2>6. S.pending.turn < S.turn
    BY <2>2 DEF TurnInv, Confirming, Active
  <2> QED
    BY <1>1, <2>1, <2>2, <2>3, <2>4, <2>5, <2>6 DEF Confirming
<1>6. CASE Staged
  <2>1. /\ PendingConfirmation(S) \in Readings /\ PendingConfirmation(S).turn = S.turn
        /\ PendingConfirmation(S).confirmed = S.confirmed
        /\ PendingConfirmation(S).pending.turn = S.turn
    BY <1>1, Events DEF PendingConfirmation, Readings
  <2>2. /\ log' = Recorded(log, PendingConfirmation(S)) /\ pc' = "reply" /\ ~S.confirmed
    BY <1>6 DEF Staged, Stage, Settle
  <2>3. S' = PendingConfirmation(S) /\ \A i \in DOMAIN log' : log'[i].pending.turn <= log'[i].turn
    BY <1>1, <1>2, <2>1, <2>2
  <2> QED
    BY <2>1, <2>2, <2>3 DEF Confirming, Active
<1>7. CASE Flushes
  <2>1. PICK k \in 1..Len(log) : log' = StoreUpTo(log, k) /\ asked' = asked
    <3>1. Len(log) \in 1..Len(log)
      BY <1>1, Read
    <3> QED
      BY <1>7, <3>1 DEF Flushes, Flush, FlushFails
  <2>2. /\ S' = S
        /\ \A i \in DOMAIN log' : k + i - 1 \in DOMAIN log /\ log'[i] = log[k + i - 1]
    BY <1>1, <2>1, Flushing
  <2>3. pc = "flush"
    BY <1>7 DEF Flushes, Flush, FlushFails
  <2> QED
    BY <1>1, <2>1, <2>2, <2>3 DEF TurnInv, Confirming, Active
<1>8. CASE Again
  <2>1. PICK k \in 1..Len(log) : log' = <<log[k]>> /\ pc' = "idle"
    BY <1>8 DEF Again, StartAgain
  <2>2. log[k] \in Readings /\ log[k].pending.turn <= log[k].turn
    BY <1>1, Read
  <2>3. S' = log[k] /\ \A i \in DOMAIN log' : log'[i] = log[k]
    BY <2>1, <2>2, Restarted
  <2> QED
    BY <2>1, <2>2, <2>3 DEF Confirming, Active
<1>9. CASE Finish
  <2>1. /\ Replied(S) \in Readings /\ Replied(S).pending = S.pending /\ Replied(S).turn = S.turn
        /\ Replied(S).confirmed = FALSE
    BY <1>1, Events DEF Replied, Fresh, Readings
  <2>2. log' = <<Replied(S)>> /\ pc' = "send"
    BY <1>9 DEF Finish
  <2>3. S' = Replied(S) /\ \A i \in DOMAIN log' : log'[i] = Replied(S)
    BY <2>1, <2>2, Restarted
  <2> QED
    BY <1>1, <2>1, <2>2, <2>3 DEF Confirming, Active
<1>10. ASSUME NEW sent \in BOOLEAN, Deliver(sent)
       PROVE  Confirming'
  BY <1>1, <1>10 DEF Deliver, Confirming, Active, S
<1>11. CASE UNCHANGED vars
  BY <1>11 DEF vars, TurnInv, Confirming, S
<1> QED
  BY <1>1, <1>3, <1>4, <1>5, <1>6, <1>7, <1>8, <1>9, <1>10, <1>11, Kinds

LEMMA TellingStep ==
  ASSUME TurnInv, [Next]_vars
  PROVE  Telling'
<1>1. /\ TypeOK /\ Meant /\ S \in Readings /\ Stored(log) \in Readings
      /\ S.effects \in Nat /\ world \in Nat /\ unsaved \in Nat /\ S.turn \in Nat
      /\ Len(log) \in Nat \ {0} /\ DOMAIN log = 1..Len(log) /\ S = log[Len(log)]
      /\ Stored(log) = log[1]
      /\ \A i \in DOMAIN log : log[i] \in Readings /\ log[i].effects \in Nat
  BY Read DEF TurnInv, TypeOK, Readings
<1>2. pc \in Active \cup {"reply"} =>
         /\ world <= S.effects
         /\ S.effects <= Told(Stored(log), S.turn) + unsaved + (IF pc = "flush" THEN 1 ELSE 0)
         /\ \A i, j \in DOMAIN log : i <= j => Told(log[i], S.turn) <= Told(log[j], S.turn)
  BY DEF TurnInv, Telling
<1>3. \A i \in DOMAIN log : Told(log[i], S.turn) \in Nat
  BY <1>1 DEF Told
<1>4. Told(S, S.turn) = S.effects
  BY DEF Told
<1>5. ASSUME NEW s \in Readings, log' = Recorded(log, s), s.turn = S.turn,
             s.effects \in {S.effects, S.effects + 1}, pc \in Active \ {"flush"}, unsaved' = unsaved,
             world' <= s.effects, s.effects = S.effects \/ pc' = "flush"
      PROVE  Telling'
  <2>1. /\ S' = s /\ Stored(log') = Stored(log)
        /\ \A i, j \in DOMAIN log' : i <= j => \/ /\ {i, j} \subseteq DOMAIN log
                                                  /\ log'[i] = log[i] /\ log'[j] = log[j]
                                               \/ log'[j] = s
        /\ \A i \in DOMAIN log' : (i \in DOMAIN log /\ log'[i] = log[i]) \/ log'[i] = s
    BY <1>1, <1>5, Grown
  <2>2. Told(s, S.turn) = s.effects /\ S.effects <= s.effects /\ s.effects \in Nat
    BY <1>1, <1>5 DEF Told
  <2>3. \A i \in DOMAIN log : Told(log[i], S.turn) <= s.effects
    <3>1. \A i \in DOMAIN log : Told(log[i], S.turn) <= S.effects
      BY <1>1, <1>2, <1>4, <1>5
    <3> QED
      BY <1>1, <1>3, <2>2, <3>1
  <2>4. ASSUME NEW i \in DOMAIN log', NEW j \in DOMAIN log', i <= j
        PROVE  Told(log'[i], S.turn) <= Told(log'[j], S.turn)
    <3>1. Told(log'[i], S.turn) <= s.effects
      BY <2>1, <2>2, <2>3
    <3>2. CASE log'[j] = s
      BY <2>2, <3>1, <3>2
    <3>3. CASE {i, j} \subseteq DOMAIN log /\ log'[i] = log[i] /\ log'[j] = log[j]
      BY <1>2, <1>5, <2>4, <3>3
    <3> QED
      BY <2>1, <2>4, <3>2, <3>3
  <2>5. Stored(log) \in Readings /\ Told(Stored(log), S.turn) \in Nat
    BY <1>1, <1>3
  <2>6. S.effects <= Told(Stored(log), S.turn) + unsaved
    <3>1. S.effects <= Told(Stored(log), S.turn) + unsaved + 0
      BY <1>2, <1>5
    <3> QED
      BY <1>1, <2>5, <3>1
  <2>7. s.effects <= Told(Stored(log), S.turn) + unsaved + (IF pc' = "flush" THEN 1 ELSE 0)
    <3>1. CASE pc' = "flush"
      BY <1>1, <1>5, <2>5, <2>6, <3>1
    <3>2. CASE pc' # "flush"
      BY <1>1, <1>5, <2>5, <2>6, <3>2
    <3> QED
      BY <3>1, <3>2
  <2>8. s.turn = S.turn /\ unsaved' = unsaved /\ world' <= s.effects
    BY <1>5
  <2> QED
    BY <2>1, <2>4, <2>7, <2>8 DEF Telling
<1>6. CASE Proceeds
  <2>1. PICK s \in Readings :
          /\ log' = Recorded(log, s) /\ s.turn = S.turn
          /\ \/ s.effects = S.effects + 0 /\ world' = world
             \/ s.effects = S.effects + 1 /\ world' \in {world, world + 1} /\ pc' = "flush"
    BY <1>6 DEF Proceeds, Keeps
  <2>2. pc \in Active \ {"flush"} /\ unsaved' = unsaved /\ world <= S.effects
    BY <1>2, <1>6 DEF Proceeds
  <2>3. world' <= s.effects /\ s.effects \in {S.effects, S.effects + 1}
        /\ (s.effects = S.effects \/ pc' = "flush")
    BY <1>1, <2>1, <2>2
  <2> QED
    BY <1>5, <2>1, <2>2, <2>3
<1>7. CASE Confirm \/ Staged
  <2>1. PICK s \in {Confirmed(S), PendingConfirmation(S)} : log' = Recorded(log, s)
    BY <1>7 DEF Confirm, Staged, Stage
  <2>2. s \in Readings /\ s.turn = S.turn /\ s.effects = S.effects
    <3>1. Confirmed(S).turn = S.turn /\ Confirmed(S).effects = S.effects
      BY <1>1 DEF Confirmed, Readings
    <3>2. PendingConfirmation(S).turn = S.turn /\ PendingConfirmation(S).effects = S.effects
      BY <1>1 DEF PendingConfirmation, Readings
    <3> QED
      BY <1>1, <2>1, <3>1, <3>2, Events
  <2>3. pc \in Active \ {"flush"} /\ unsaved' = unsaved /\ world' = world
    BY <1>7 DEF Confirm, Staged, Stage, Active
  <2>4. world' <= s.effects
    BY <1>2, <2>2, <2>3
  <2> QED
    BY <1>5, <2>1, <2>2, <2>3, <2>4
<1>8. CASE Flushes
  <2>1. PICK k \in 1..Len(log) : /\ log' = StoreUpTo(log, k) /\ pc = "flush" /\ world' = world
                                 /\ (k = Len(log) /\ unsaved' = 0) \/ unsaved' = unsaved + 1
    <3>1. Len(log) \in 1..Len(log)
      BY <1>1
    <3> QED
      BY <1>8, <3>1 DEF Flushes, Flush, FlushFails
  <2>2. /\ S' = S /\ Stored(log') = log[k] /\ DOMAIN log' \subseteq Nat
        /\ \A i \in DOMAIN log' : k + i - 1 \in DOMAIN log /\ log'[i] = log[k + i - 1]
    BY <1>1, <2>1, Flushing
  <2>3. pc' \in {"loop", "judge"}
    BY <1>8 DEF Flushes, Flush, FlushFails, TurnInv, TypeOK, Locals
  <2>4. /\ world <= S.effects
        /\ S.effects <= Told(log[1], S.turn) + unsaved + 1
        /\ \A i, j \in DOMAIN log : i <= j => Told(log[i], S.turn) <= Told(log[j], S.turn)
    BY <1>1, <1>2, <2>1 DEF Active
  <2>5. S.effects <= Told(log[k], S.turn) + unsaved'
    <3>1. Told(log[1], S.turn) <= Told(log[k], S.turn) /\ Told(log[k], S.turn) \in Nat
          /\ Told(log[1], S.turn) \in Nat
      BY <1>1, <1>3, <2>4
    <3>2. CASE k = Len(log) /\ unsaved' = 0
      BY <1>1, <1>4, <3>2
    <3>3. CASE unsaved' = unsaved + 1
      BY <1>1, <2>4, <3>1, <3>3
    <3> QED
      BY <2>1, <3>2, <3>3
  <2>6. \A i, j \in DOMAIN log' : i <= j => Told(log'[i], S.turn) <= Told(log'[j], S.turn)
    <3>1. ASSUME NEW i \in DOMAIN log', NEW j \in DOMAIN log', i <= j
          PROVE  Told(log'[i], S.turn) <= Told(log'[j], S.turn)
      <4>1. k + i - 1 \in DOMAIN log /\ k + j - 1 \in DOMAIN log /\ k + i - 1 <= k + j - 1
        BY <2>2, <3>1
      <4> QED
        BY <2>2, <2>4, <4>1
    <3> QED
      BY <3>1
  <2>7. Told(log[k], S.turn) + unsaved' + 0 = Told(log[k], S.turn) + unsaved'
    BY <1>1, <1>3, <2>1
  <2> QED
    BY <2>1, <2>2, <2>3, <2>4, <2>5, <2>6, <2>7 DEF Telling
<1>9. ASSUME NEW r \in harness.routes, NEW holds \in BOOLEAN, NEW recalls \in BOOLEAN,
             Begin(r, holds, recalls)
      PROVE  Telling'
  <2>1. /\ TypeOK' /\ S'.turn = S.turn + 1 /\ S'.effects = 0 /\ log'[1] = S
        /\ \A i \in DOMAIN log' : i = 1 \/ (log'[i].turn = S.turn + 1 /\ log'[i].effects = 0)
    BY <1>1, <1>9, TypedBegin
  <2>2. \A i \in DOMAIN log' : Told(log'[i], S.turn + 1) = 0
    BY <1>1, <2>1 DEF Told
  <2>3. Told(Stored(log'), S.turn + 1) = 0
    BY <1>1, <2>1 DEF Told, Stored
  <2>4. world' = 0 /\ unsaved' = 0 /\ pc' = "loop"
    BY <1>9 DEF Begin
  <2> QED
    BY <2>1, <2>2, <2>3, <2>4 DEF Telling
<1>10. CASE pc' \in {"idle", "send"}
  BY <1>10 DEF Telling, Active
<1>11. CASE UNCHANGED vars
  BY <1>11 DEF vars, TurnInv, Telling, S
<1> QED
  BY <1>1, <1>6, <1>7, <1>8, <1>9, <1>10, <1>11, Kinds DEF Again, StartAgain, Finish, Deliver

LEMMA StagingStep ==
  ASSUME TurnInv, [Next]_vars
  PROVE  Staging'
<1>1. /\ TypeOK /\ Meant /\ S \in Readings /\ t \in Locals
      /\ plan \in [proposal : ProposalType, ran : BOOLEAN]
      /\ plan.proposal = NoProposal \/ Gated(plan.proposal)
      /\ plan.ran => S.pending = NoPending /\ plan.proposal # NoProposal
      /\ plan.ran /\ S.confirmed /\ pc \in Active => plan.proposal \in t.calls
  BY Read DEF TurnInv, TypeOK, Staging
<1>2. /\ Tools \cap (EngineOwned \cup {"confirm_pending", "respond_directly", "none"}) = {}
      /\ Irreversible \subseteq Tools
  BY TurnLoopAssumption
<1>3. harness' = harness => \A p : Gated(p)' <=> Gated(p)
  BY DEF Gated
<1>4. pc # "idle" /\ S.confirmed => S.pending = NoPending
  BY DEF TurnInv, Confirming
<1>5. CASE Proceeds
  <2>1. /\ S'.pending = S.pending /\ S'.confirmed = S.confirmed /\ pc \in Active /\ pc # "idle"
        /\ harness' = harness
    BY <1>1, <1>5, Proceeding DEF Proceeds, Active
  <2>2. plan'.proposal = plan.proposal
    BY <1>1, <1>5 DEF Proceeds
  <2>3. plan'.ran /\ ~plan.ran => /\ pc = "call" /\ pc' # "call" /\ t.p = plan.proposal
                                 /\ t.p \in t.calls /\ t.p # NoProposal /\ S.confirmed
    <3>1. CASE pc = "call" /\ pc' # "call" /\ t.p = plan.proposal
      <4>1. t.p \in t.calls /\ t.p # NoProposal /\ (Gated(t.p) => S.confirmed)
        BY <3>1 DEF TurnInv, Staging
      <4> QED
        BY <1>1, <3>1, <4>1
    <3> QED
      BY <1>5, <3>1 DEF Proceeds
  <2>4. plan'.ran => S'.pending = NoPending /\ plan'.proposal # NoProposal
    BY <1>1, <1>4, <2>1, <2>2, <2>3
  <2>5. plan'.ran /\ S'.confirmed /\ pc' \in Active => plan'.proposal \in t'.calls
    BY <1>1, <1>5, <2>1, <2>2, <2>3 DEF Proceeds
  <2>6. ASSUME pc' = "run", plan'.ran, t'.p = plan'.proposal, S'.confirmed
        PROVE  FALSE
    <3>1. /\ Admit /\ pc = "judge" /\ t' = t /\ plan' = plan /\ ~Repeated
      BY <1>5, <2>6 DEF Proceeds, Admit, ghosts
    <3>2. t.p = plan.proposal /\ plan.proposal \in t.calls /\ Gated(t.p)
      BY <1>1, <2>1, <2>6, <3>1
    <3>3. t.p.action = "inspect_result"
      BY <3>1, <3>2 DEF Repeated, a
    <3> QED
      BY <1>2, <3>2, <3>3 DEF Gated, EngineOwned
  <2>7. ASSUME pc' = "call"
        PROVE  /\ t'.p \in t'.calls /\ t'.p # NoProposal
               /\ Gated(t'.p) => S'.confirmed
               /\ plan'.ran => t'.p # plan'.proposal
    <3>1. /\ pc = "run" /\ t' = [t EXCEPT !.calls = @ \cup {t.p}] /\ plan' = plan
          /\ a \in Tools \cup EngineOwned /\ (Gated(t.p) => S.confirmed)
      BY <1>5, <2>7 DEF Proceeds, Called, Call, ghosts
    <3>2. t'.p = t.p /\ t'.calls = t.calls \cup {t.p}
      BY <1>1, <3>1 DEF Locals
    <3>3. t.p # NoProposal
      BY <1>2, <3>1 DEF a, NoProposal, EngineOwned
    <3>4. plan.ran => t.p # plan.proposal
      <4>1. plan.ran /\ t.p = plan.proposal => ~S.confirmed
        BY <3>1 DEF TurnInv, Staging
      <4> QED
        BY <1>1, <3>1, <3>3, <4>1
    <3> QED
      BY <2>1, <3>1, <3>2, <3>3, <3>4
  <2> QED
    BY <1>1, <1>3, <2>1, <2>2, <2>4, <2>5, <2>6, <2>7 DEF Staging
<1>6. CASE Confirm
  <2>1. S.pending # NoPending
    <3>1. "confirm_pending" \notin Tools \cup {"ask_clarification"}
      BY TurnLoopAssumption
    <3> QED
      BY <1>6, <3>1 DEF Confirm, Legal, Offered, Riding, Confirmable
  <2>2. ~plan.ran /\ plan' = plan /\ pc' = "run" /\ harness' = harness
    BY <1>1, <1>6, <2>1 DEF Confirm, limits
  <2> QED
    BY <1>1, <1>3, <2>2 DEF Staging
<1>7. CASE Staged
  <2>1. plan' = [proposal |-> t.p, ran |-> FALSE] /\ Gated(t.p) /\ harness' = harness /\ pc' = "reply"
    BY <1>7 DEF Staged, Stage, Settle, limits
  <2> QED
    BY <1>3, <2>1 DEF Staging
<1>8. CASE Flushes
  <2>1. PICK k \in 1..Len(log) : log' = StoreUpTo(log, k)
    <3>1. Len(log) \in 1..Len(log)
      BY <1>1, Read
    <3> QED
      BY <1>8, <3>1 DEF Flushes, Flush, FlushFails
  <2>2. S' = S
    BY <1>1, <2>1, Flushing
  <2>3. pc = "flush" /\ pc' \in {"loop", "judge"} /\ UNCHANGED <<t, plan, harness>>
    BY <1>1, <1>8 DEF Flushes, Flush, FlushFails, Locals, limits
  <2> QED
    BY <1>1, <1>3, <2>2, <2>3 DEF Staging, Active
<1>9. CASE Again
  <2>1. PICK k \in 1..Len(log) :
          /\ log' = <<log[k]>> /\ pc' = "idle" /\ harness' = harness
          /\ plan' = [plan EXCEPT !.ran = plan.ran /\ log[k].pending = NoPending]
    BY <1>9 DEF Again, StartAgain
  <2>2. S' = log[k]
    BY <1>1, <2>1, Read, Restarted
  <2>3. plan'.proposal = plan.proposal /\ (plan'.ran => plan.ran /\ log[k].pending = NoPending)
    BY <1>1, <2>1
  <2> QED
    BY <1>1, <1>3, <2>1, <2>2, <2>3 DEF Staging, Active
<1>10. CASE Finish
  <2>1. Replied(S) \in Readings /\ Replied(S).pending = S.pending
    BY <1>1, Events DEF Replied, Fresh, Readings
  <2>2. log' = <<Replied(S)>> /\ pc' = "send" /\ plan' = plan /\ harness' = harness
    BY <1>10 DEF Finish, ghosts, limits
  <2>3. S'.pending = S.pending
    BY <2>1, <2>2, Restarted
  <2> QED
    BY <1>1, <1>3, <2>2, <2>3 DEF Staging, Active
<1>11. ASSUME NEW sent \in BOOLEAN, Deliver(sent)
       PROVE  Staging'
  <2>1. log' = log /\ pc' = "idle" /\ plan' = plan /\ harness' = harness
    BY <1>11 DEF Deliver
  <2>2. S' = S
    BY <2>1 DEF S
  <2> QED
    BY <1>1, <1>3, <2>1, <2>2 DEF Staging, Active
<1>12. ASSUME NEW r \in harness.routes, NEW holds \in BOOLEAN, NEW recalls \in BOOLEAN,
              Begin(r, holds, recalls)
       PROVE  Staging'
  <2>1. S'.pending = S.pending /\ S'.confirmed = FALSE
    BY <1>1, <1>12, TypedBegin
  <2>2. pc' = "loop" /\ plan' = plan /\ harness' = harness
    BY <1>12 DEF Begin, limits
  <2> QED
    BY <1>1, <1>3, <2>1, <2>2 DEF Staging
<1>13. CASE UNCHANGED vars
  BY <1>13 DEF vars, TurnInv, Staging, Gated, S
<1> QED
  BY <1>1, <1>5, <1>6, <1>7, <1>8, <1>9, <1>10, <1>11, <1>12, <1>13, Kinds

LEMMA AnsweringStep ==
  ASSUME TurnInv, [Next]_vars
  PROVE  Answering'
<1>1. /\ TypeOK /\ Meant /\ S \in Readings /\ t \in Locals /\ Rejected(S) \in Readings
  BY Read, Events DEF TurnInv, TypeOK
<1>2. Rejected(S).verdict = "refused"
  BY <1>1 DEF Rejected, Readings
<1>3. ASSUME log' = Recorded(log, Rejected(S))
      PROVE  S'.verdict # "ran"
  BY <1>1, <1>2, <1>3, Grown
<1>4. CASE pc' \notin {"flush", "loop"}
  BY <1>4 DEF Answering
<1>5. ASSUME NEW r \in harness.routes, NEW holds \in BOOLEAN, NEW recalls \in BOOLEAN,
             Begin(r, holds, recalls)
      PROVE  Answering'
  <2>1. pc' = "loop" /\ \E tier, tools : t' = [NoTurn EXCEPT !.tier = tier, !.tools = tools,
                                                        !.facts = holds, !.recalls = recalls]
    BY <1>5 DEF Begin
  <2>2. t'.held = FALSE
    BY <2>1 DEF NoTurn
  <2> QED
    BY <2>1, <2>2 DEF Answering
<1>6. CASE Refused
  BY <1>3, <1>6 DEF Refused, Refuse, Answering
<1>7. ASSUME NEW retryable \in BOOLEAN, EmitFails(retryable)
      PROVE  Answering'
  BY <1>3, <1>7 DEF EmitFails, Decides, Answering
<1>8. ASSUME NEW done \in BOOLEAN, NEW more \in BOOLEAN, NEW out \in BOOLEAN,
             Return(done, more, out)
      PROVE  Answering'
  <2> DEFINE n == IF a \in Flushed THEN 1 ELSE 0
             s == ToolReturned(S, n)
  <2>1. s \in Readings /\ s.acted = TRUE
    <3>1. s.acted = TRUE
      BY <1>1 DEF ToolReturned, Readings
    <3> QED
      BY <1>1, <3>1, Events
  <2>2. log' = Recorded(log, s)
    BY <1>8 DEF Return
  <2>3. S' = s
    BY <1>1, <2>1, <2>2, Grown
  <2> QED
    BY <2>1, <2>3 DEF Answering
<1>9. ASSUME NEW sent \in BOOLEAN, Say(sent)
      PROVE  Answering'
  <2>1. t'.next = "judge" /\ pc' = "flush"
    BY <1>1, <1>9 DEF Say, Locals
  <2> QED
    BY <2>1 DEF Answering
<1>10. CASE Flushes
  <2>1. PICK k \in 1..Len(log) : log' = StoreUpTo(log, k)
    <3>1. Len(log) \in 1..Len(log)
      BY <1>1, Read
    <3> QED
      BY <1>10, <3>1 DEF Flushes, Flush, FlushFails
  <2>2. S' = S
    BY <1>1, <2>1, Flushing
  <2>3. pc = "flush" /\ pc' = t.next /\ t' = t /\ t.next \in {"loop", "judge"}
    BY <1>1, <1>10 DEF Flushes, Flush, FlushFails, Locals
  <2> QED
    BY <2>2, <2>3 DEF TurnInv, Answering
<1>11. CASE Escalate
  <2>1. CASE Withheld
    BY <1>3, <1>11, <2>1 DEF Escalate, Answering
  <2>2. CASE ~Withheld
    <3>1. pc' = "loop" /\ t'.raised
      BY <1>1, <1>11, <2>2 DEF Escalate, Locals
    <3> QED
      BY <3>1 DEF Answering
  <2> QED
    BY <2>1, <2>2
<1>12. CASE UNCHANGED vars
  <2>1. pc' = pc /\ log' = log /\ t' = t
    BY <1>12 DEF vars
  <2> QED
    BY <2>1 DEF TurnInv, Answering, S, a
<1>13. Finish \/ Confirm \/ Admit \/ Panic \/ Settled \/ Called \/ Staged \/ Again
         \/ (\E sent \in BOOLEAN : Deliver(sent)) \/ (\E p \in harness.proposals : Respond(p))
         \/ (\E p \in harness.proposals, says, answers \in BOOLEAN : Propose(p, says, answers))
       => pc' \notin {"flush", "loop"}
  BY DEF Finish, Confirm, Admit, Panic, Settled, Called, Call, Staged, Stage, Settle, Again,
         StartAgain, Deliver, Respond, Propose
<1> QED
  BY <1>1, <1>4, <1>5, <1>6, <1>7, <1>8, <1>9, <1>10, <1>11, <1>12, <1>13, Steps DEF Flushes

LEMMA TurnInit ==
  ASSUME Init
  PROVE  TurnInv
<1>1. /\ harness \in Harnesses /\ harness.max_iterations \in Nat \ {0} /\ harness.lines \in Nat
      /\ MaxFaults \in Nat
  BY TurnLoopAssumption DEF Init
<1>2. NoProposal \in ProposalType /\ EmptySession \in Readings
  BY Proposing DEF EmptySession, Readings, NoPending
<1>3. NoTurn \in Locals
  BY <1>1, <1>2 DEF NoTurn, Locals, Tiers
<1>4. /\ log \in Seq(Readings) /\ log # <<>> /\ Len(log) = 1 /\ S = EmptySession
      /\ \A i \in DOMAIN log : log[i] = EmptySession
  BY <1>2 DEF Init, S, Latest
<1>5. TypeOK
  BY <1>1, <1>2, <1>3, <1>4 DEF Init, TypeOK
<1>6. EmptySession.pending = NoPending /\ EmptySession.turn = 0 /\ NoPending.turn = 0
  BY DEF EmptySession, NoPending
<1>7. Meant /\ Confirming
  BY <1>4, <1>6 DEF Init, Meant, Confirming, Active
<1>8. Staging /\ Telling /\ Answering
  BY DEF Init, Staging, Telling, Answering, Active
<1> QED
  BY <1>5, <1>7, <1>8 DEF TurnInv

LEMMA TurnInvariant == Spec => []TurnInv
<1>1. Init => TurnInv
  BY TurnInit
<1>2. TurnInv /\ [Next]_vars => TurnInv'
  BY TypedStep, ConfirmingStep, StagingStep, TellingStep, AnsweringStep DEF TurnInv
<1> QED
  BY <1>1, <1>2, PTL DEF Spec

\* Every variable has its type in every state of a session.
THEOREM TurnTypes == Spec => []TypeOK
<1>1. TurnInv => TypeOK
  BY DEF TurnInv
<1> QED
  BY <1>1, TurnInvariant, PTL

\* guards.rs SideEffectGate and the expiry of run.rs: whatever is proposed, repaired,
\* lost or stored late, an irreversible action is called only on the turn whose
\* Confirmed took what the turn right before it staged.
THEOREM IrreversibleConfirmed == Spec => []IrreversibleIsConfirmed
<1>1. TurnInv => IrreversibleIsConfirmed
  BY DEF TurnInv, Staging, Confirming, Gated, IrreversibleIsConfirmed, a
<1> QED
  BY <1>1, TurnInvariant, PTL

\* run.rs's confirmation flow: what was staged, once it ran, neither confirming
\* nor proposing it again runs another time.
THEOREM StagedOnce == Spec => StagedRunsOnce
<1>1. TurnInv /\ [Next]_vars =>
        [pc = "call" /\ world' > world /\ t.p = plan.proposal => ~plan.ran]_vars
  BY DEF TurnInv, Staging
<1> QED
  BY <1>1, TurnInvariant, PTL DEF Spec, StagedRunsOnce

\* flush: the store tells every effect of the turn in progress but the one that is
\* about to be flushed and those whose flush it refused.
THEOREM EffectsRecorded == Spec => []EffectsAreRecorded
<1>1. TurnInv => EffectsAreRecorded
  <2> SUFFICES ASSUME TurnInv, pc \notin {"idle", "send", "panicked"}
               PROVE  world <= Told(Stored(log), S.turn) + unsaved + (IF pc = "flush" THEN 1 ELSE 0)
    BY DEF EffectsAreRecorded, Told
  <2>1. pc \in Active \cup {"reply"} /\ world \in Nat /\ unsaved \in Nat
    BY DEF TurnInv, TypeOK, Active
  <2>2. S.effects \in Nat /\ Told(Stored(log), S.turn) \in Nat
    BY Read DEF TurnInv, Readings, Told
  <2>3. /\ world <= S.effects
        /\ S.effects <= Told(Stored(log), S.turn) + unsaved + (IF pc = "flush" THEN 1 ELSE 0)
    BY <2>1 DEF TurnInv, Telling
  <2> QED
    BY <2>1, <2>2, <2>3
<1> QED
  BY <1>1, TurnInvariant, PTL

\* run.rs's held answer: it becomes the reply only over a result of the action it
\* was written beside, never over an earlier one's, unless that action did nothing
\* but raise the tier of the turn.
THEOREM AnswerAboutWhatRan == Spec => AnswerIsAboutWhatRan
<1>1. TurnInv /\ [Next]_vars => [CollectAnswer => S.acted \/ t.raised]_vars
  BY DEF TurnInv, Answering, CollectAnswer, LastProposalRan
<1> QED
  BY <1>1, TurnInvariant, PTL DEF Spec, AnswerIsAboutWhatRan
=============================================================================
