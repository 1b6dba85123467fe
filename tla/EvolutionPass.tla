---------------------------- MODULE EvolutionPass ----------------------------
(***************************************************************************)
(* crates/evolution/src/pass.rs and its idle driver (consolidate_if_quiet  *)
(* of engine/dispatch.rs): the pass that runs while every slot is free.    *)
(* It reads every session's log, leaves out those whose chain is broken,   *)
(* grades turns and appends the grades, and proposes rule patches and      *)
(* notes: what is accepted goes to learned.toml and to the rules in force, *)
(* every verdict to the ledger.                                            *)
(*                                                                         *)
(* How a candidate is verified (replay, probes) is left open: any verdict. *)
(* The facts the pass consolidates are module FactStore's.                 *)
(***************************************************************************)
EXTENDS EventChain

CONSTANTS Patches,   \* candidates of the symbolic lane
          Notes,     \* candidates of the notes lane
          MaxNotes,  \* notes kept in learned.toml
          Bounds     \* bounds a behaviour may have: the turns each session takes
                     \* and the candidates its logs show

ASSUME CandidatesAssumption == Patches \cap Notes = {}
ASSUME MaxNotesAssumption == IsFiniteSet(Notes) /\ MaxNotes \in Nat
ASSUME BoundsAssumption ==
  Bounds \subseteq [turns : [Sessions -> Nat], shown : SUBSET (Patches \cup Notes)]

Candidates == Patches \cup Notes
Verdicts == {"none", "accepted", "rejected", "unverified"}

VARIABLES pc,        \* where the pass is; "off" when none runs
          todo,      \* sessions still to be read, or their grades to be stored
          evidence,  \* the logs the pass works on, of the sessions it took
          worked,    \* a turn has ended since the last pass
          file,      \* learned.toml: the candidates it holds; the rules in force are these
          ledger,    \* the ledger on disk
          working,   \* what learned.toml held when the pass began, and what it has accepted
          verdicts,  \* the ledger this pass is writing
          overlapped,\* history: sessions where a pass ran while a summary was in flight
          unsigned,  \* history: candidates in learned.toml whose verdict was not saved
          bound      \* which of Bounds this behaviour has

passVars == <<pc, todo, evidence, worked, file, ledger, working, verdicts,
              overlapped, unsigned, bound>>
vars == <<chainVars, passVars>>

NoEvidence == [s \in {} |-> <<>>]

Init == /\ ChainInit
        /\ pc = "off"
        /\ todo = {}
        /\ evidence = NoEvidence
        /\ worked = FALSE
        /\ file = {} /\ working = {}
        /\ ledger = [c \in Candidates |-> "none"]
        /\ verdicts = ledger
        /\ overlapped = {}
        /\ unsigned = {}
        /\ bound \in Bounds

Quiet == \A s \in Sessions : task[s] # "turn"

-----------------------------------------------------------------------------
(* The sessions.  A turn needs a slot, and a pass holds them all.          *)

Turn(s) == /\ \/ pc = "off" /\ TurnOf(rows[s]) < bound.turns[s] /\ TurnBegins(s)
              \/ Flush(s)
              \/ TurnFails(s)
           /\ UNCHANGED passVars

\* A turn is counted when it has its reply.
TurnDone(s) == /\ TurnEnds(s)
               /\ worked' = TRUE
               /\ UNCHANGED <<pc, todo, evidence, file, ledger, working, verdicts,
                              overlapped, unsigned, bound>>

\* A summary holds no slot.
Summary(s) ==
  /\ SummaryBegins(s) \/ SummaryEnds(s) \/ SummaryDropped(s)
  /\ overlapped' = IF pc # "off" /\ task'[s] = "summing" THEN overlapped \cup {s}
                   ELSE overlapped
  /\ UNCHANGED <<pc, todo, evidence, worked, file, ledger, working, verdicts,
                 unsigned, bound>>

-----------------------------------------------------------------------------
(* The pass.                                                               *)

\* What is left of a pass that has ended: a failed one is not begun again either.
PassOver == /\ pc' = "off"
            /\ worked' = FALSE
            /\ todo' = {}
            /\ evidence' = NoEvidence
            /\ working' = {}
            /\ verdicts' = [c \in Candidates |-> "none"]

\* Mutant of PassBegins: the pass starts with a turn in flight.
PassBeginsBesideTurns ==
  /\ pc = "off" /\ worked
  /\ pc' = "load"
  /\ todo' = {s \in Sessions : rows[s] # <<>>}
  /\ evidence' = NoEvidence
  /\ working' = file /\ verdicts' = ledger
  /\ overlapped' = overlapped \cup {s \in Sessions : task[s] = "summing"}
  /\ UNCHANGED <<chainVars, worked, file, ledger, unsigned, bound>>
\* The channel is quiet, every slot is free, and there is something new to read.
PassBegins ==
  /\ pc = "off" /\ worked /\ Quiet
  /\ pc' = "load"
  /\ todo' = {s \in Sessions : rows[s] # <<>>}
  /\ evidence' = NoEvidence
  /\ working' = file /\ verdicts' = ledger
  /\ overlapped' = overlapped \cup {s \in Sessions : task[s] = "summing"}
  /\ UNCHANGED <<chainVars, worked, file, ledger, unsigned, bound>>

\* The evidence with what the store holds of s.
Taken(s) == [u \in DOMAIN evidence \cup {s} |-> IF u = s THEN rows[s] ELSE evidence[u]]

\* A session is read, and taken when its chain holds.
Load(s) == /\ pc = "load" /\ s \in todo
           /\ todo' = todo \ {s}
           /\ evidence' = IF Intact(rows[s]) THEN Taken(s) ELSE evidence
           /\ UNCHANGED <<chainVars, pc, worked, file, ledger, working, verdicts,
                          overlapped, unsigned, bound>>

Loaded == /\ pc = "load" /\ todo = {}
          /\ pc' = "grade"
          /\ UNCHANGED <<chainVars, todo, evidence, worked, file, ledger, working,
                         verdicts, overlapped, unsigned, bound>>

Answered(l) == {e.what.turn : e \in {x \in EventsOf(l) : x.what.kind = "replied"}}
GradedBy(l, t, ev) == [turn |-> t, kind |-> ev] \in {e.what : e \in EventsOf(l)}

\* Mutant of MayGrade: a recorded grade is not looked for.
MayGradeAgain(s, t, ev) == t \in Answered(evidence[s])
\* A turn an evaluator has not graded yet, in the log or in this pass.
MayGrade(s, t, ev) == /\ t \in Answered(evidence[s])
                      /\ ~GradedBy(evidence[s], t, ev)

\* One grade, kept in memory; an evaluator that cannot answer leaves nothing.
Grade(s, t, ev) ==
  /\ pc = "grade"
  /\ MayGrade(s, t, ev)
  /\ evidence' = [evidence EXCEPT ![s] = Extend(@, [turn |-> t, kind |-> ev])]
  /\ todo' = todo \cup {s}
  /\ UNCHANGED <<chainVars, pc, worked, file, ledger, working, verdicts,
                 overlapped, unsigned, bound>>

\* The budget is spent, or no turn is left that can be graded.
Graded == /\ pc = "grade"
          /\ pc' = "store"
          /\ UNCHANGED <<chainVars, todo, evidence, worked, file, ledger, working,
                         verdicts, overlapped, unsigned, bound>>

StoreGrades(s) ==
  /\ pc = "store" /\ s \in todo
  /\ Append_Ok(s, evidence[s])
  /\ todo' = todo \ {s}
  /\ UNCHANGED <<task, log, pc, evidence, worked, file, ledger, working, verdicts,
                 overlapped, unsigned, bound>>

GradesFail(s) == /\ pc = "store" /\ s \in todo
                 /\ Append_Fails(s, evidence[s])
                 /\ PassOver
                 /\ UNCHANGED <<task, log, file, ledger, overlapped, unsigned, bound>>

GradesStored == /\ pc = "store" /\ todo = {}
                /\ pc' = "patches"
                /\ UNCHANGED <<chainVars, todo, evidence, worked, file, ledger,
                               working, verdicts, overlapped, unsigned, bound>>

Settled(c) == verdicts[c] \in {"accepted", "rejected"}

\* Mutant of TryPatch: a patch is put in place to be verified, and left there.
TryPatchInPlace(p) ==
  /\ pc = "patches" /\ ~Settled(p) /\ DOMAIN evidence # {}
  /\ \E v \in {"accepted", "rejected"} : verdicts' = [verdicts EXCEPT ![p] = v]
  /\ working' = working \cup {p}
  /\ UNCHANGED <<chainVars, pc, todo, evidence, worked, file, ledger, overlapped, unsigned, bound>>
\* The symbolic lane: a patch that some session's log shows, once.
TryPatch(p) ==
  /\ pc = "patches" /\ ~Settled(p) /\ DOMAIN evidence # {}
  /\ \/ /\ verdicts' = [verdicts EXCEPT ![p] = "accepted"]
        /\ working' = working \cup {p}
     \/ /\ verdicts' = [verdicts EXCEPT ![p] = "rejected"]
        /\ UNCHANGED working
  /\ UNCHANGED <<chainVars, pc, todo, evidence, worked, file, ledger, overlapped,
                 unsigned, bound>>

PatchesDone == /\ pc = "patches"
               /\ pc' = "notes"
               /\ UNCHANGED <<chainVars, todo, evidence, worked, file, ledger,
                               working, verdicts, overlapped, unsigned, bound>>

\* An accepted note beyond the last that fits puts out the one of lowest lift, which
\* may be itself.
WithNote(n) ==
  LET notes == (working \cup {n}) \cap Notes
  IN  IF Cardinality(notes) > MaxNotes THEN {(working \cup {n}) \ {x} : x \in notes}
      ELSE {working \cup {n}}

TryNote(n) ==
  /\ pc = "notes" /\ ~Settled(n) /\ n \notin working /\ DOMAIN evidence # {}
  /\ \/ /\ verdicts' = [verdicts EXCEPT ![n] = "accepted"]
        /\ working' \in WithNote(n)
     \/ \E v \in {"rejected", "unverified"} :
            /\ verdicts' = [verdicts EXCEPT ![n] = v]
            /\ UNCHANGED working
  /\ UNCHANGED <<chainVars, pc, todo, evidence, worked, file, ledger, overlapped,
                 unsigned, bound>>

\* learned.toml by a rename, and the rules in force with it; as it was when nothing
\* was accepted.
SaveRules == /\ pc = "notes"
             /\ file' = working
             /\ pc' = "ledger"
             /\ UNCHANGED <<chainVars, todo, evidence, worked, ledger, working, verdicts,
                            overlapped, unsigned, bound>>

SaveLedger == /\ pc = "ledger"
              /\ ledger' = verdicts
              /\ PassOver
              /\ UNCHANGED <<chainVars, file, overlapped, unsigned, bound>>

\* What a pass that ends now has published without a verdict on disk.
Unsigned == IF pc = "ledger" THEN {c \in file : ledger[c] # "accepted"} ELSE {}

\* Mutant of PassFails: the ledger is saved whatever became of the rules.
PassFailsSaved == /\ pc # "off"
                  /\ ledger' = verdicts
                  /\ PassOver
                  /\ UNCHANGED <<chainVars, file, overlapped, unsigned, bound>>
\* The store or a file fails: the pass is given up where it is.
PassFails == /\ pc # "off"
             /\ PassOver
             /\ unsigned' = unsigned \cup Unsigned
             /\ UNCHANGED <<chainVars, file, ledger, overlapped, bound>>

\* The process ends and is started again: what is on disk is left.
Crash == /\ TasksLost
         /\ PassOver
         /\ unsigned' = unsigned \cup Unsigned
         /\ UNCHANGED <<file, ledger, overlapped, bound>>

-----------------------------------------------------------------------------
SessionStep == \E s \in Sessions : Turn(s) \/ TurnDone(s) \/ Summary(s)
PassStep ==
  \/ PassBegins \/ Loaded \/ Graded \/ GradesStored \/ PatchesDone
  \/ SaveRules \/ SaveLedger \/ PassFails
  \/ \E s \in Sessions : Load(s) \/ StoreGrades(s) \/ GradesFail(s)
  \/ \E s \in DOMAIN evidence : \E t \in Answered(evidence[s]), ev \in Evaluators : Grade(s, t, ev)
  \/ \E p \in Patches \cap bound.shown : TryPatch(p)
  \/ \E n \in Notes \cap bound.shown : TryNote(n)

Next == SessionStep \/ PassStep \/ Crash

Spec == Init /\ [][Next]_vars

-----------------------------------------------------------------------------
(* Properties.                                                             *)

\* What learned.toml may hold: no more notes than fit.
RuleSets == {f \in SUBSET Candidates : Cardinality(f \cap Notes) <= MaxNotes}

(* The types of the state, among them the limit on notes.                  *)
TypeOK == /\ rows \in [Sessions -> Seq(Event)]
          /\ task \in [Sessions -> {"idle", "turn", "due", "summing"}]
          /\ log \in [Sessions -> Seq(Event)]
          /\ kept \in [Sessions -> SUBSET Event]
          /\ pc \in {"off", "load", "grade", "store", "patches", "notes", "ledger"}
          /\ todo \subseteq Sessions
          /\ DOMAIN evidence \subseteq Sessions
          /\ evidence \in [DOMAIN evidence -> Seq(Event)]
          /\ worked \in BOOLEAN
          /\ file \in RuleSets
          /\ working \in RuleSets
          /\ ledger \in [Candidates -> Verdicts]
          /\ verdicts \in [Candidates -> Verdicts]
          /\ overlapped \subseteq Sessions
          /\ unsigned \subseteq Candidates
          /\ bound \in Bounds

(* A log's chain holds, whatever appends failed and wherever the process   *)
(* ended, as long as no pass ran while that session's summary was in       *)
(* flight.                                                                 *)
ChainHoldsApart == \A s \in Sessions \ overlapped : Intact(rows[s])

(* What an append said was stored is stored, with the same exception.      *)
NothingLostApart == \A s \in Sessions \ overlapped : kept[s] \subseteq EventsOf(rows[s])

(* What a turn was told is stored is stored, with no exception: nothing    *)
(* the summaries and the passes do puts a turn's events out.               *)
TurnsAreKept == \A s \in Sessions : \A e \in kept[s] :
  e.what.kind \in {"said", "replied"} => e \in EventsOf(rows[s])

(* No evaluator grades a turn twice, passes that fail half-way and         *)
(* restarts included.                                                      *)
GradedOnce == \A s \in Sessions : \A i, j \in DOMAIN rows[s] :
  rows[s][i].what = rows[s][j].what /\ rows[s][i].what.kind \in Evaluators => i = j

(* What the pass judges candidates by is what the store holds: no turn     *)
(* moves a log under it.                                                   *)
EvidenceIsCurrent == pc \in {"patches", "notes", "ledger"} =>
  \A s \in DOMAIN evidence \ overlapped : evidence[s] = rows[s]

(* A patch whose acceptance is in the ledger is in learned.toml: the       *)
(* ledger never settles a patch that was not published.                    *)
AcceptedIsPublished == \A p \in Patches : ledger[p] = "accepted" => p \in file

(* A candidate the ledger rejects is not in learned.toml, unless a pass    *)
(* published it and ended before it saved the verdict.                     *)
RejectedIsOut == \A c \in Candidates : ledger[c] = "rejected" /\ c \in file => c \in unsigned

(* A verdict is final: no pass changes what the ledger has settled.        *)
VerdictsAreFinal ==
  [][\A c \in Candidates : ledger[c] \in {"accepted", "rejected"} => ledger'[c] = ledger[c]]_vars

(* Every log's chain holds.                                                *)
ChainHolds == \A s \in Sessions : Intact(rows[s])
=============================================================================
