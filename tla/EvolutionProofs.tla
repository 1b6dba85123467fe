--------------------------- MODULE EvolutionProofs ---------------------------
(***************************************************************************)
(* Proofs about EvolutionPass, for every value of its constants.           *)
(***************************************************************************)
EXTENDS EvolutionPass, FiniteSetTheorems, SequenceTheorems, TLAPS

-----------------------------------------------------------------------------
(* The log operators.                                                      *)

LEMMA LinkType ==
  ASSUME NEW l \in Seq(Event), NEW i \in 1 .. (Len(l) + 1)
  PROVE  LinkAt(l, i) \in Seq(What)
<1>1. CASE i = 1
  BY <1>1 DEF LinkAt
<1>2. CASE i # 1
  <2>1. l[i - 1] \in Event
    BY <1>2
  <2> QED
    BY <1>2, <2>1 DEF LinkAt, Hash, Event
<1> QED
  BY <1>1, <1>2

LEMMA ExtendType ==
  ASSUME NEW l \in Seq(Event), NEW w \in What
  PROVE  /\ Extend(l, w) \in Seq(Event)
         /\ Len(Extend(l, w)) = Len(l) + 1
         /\ \A i \in 1 .. Len(l) : Extend(l, w)[i] = l[i]
         /\ Extend(l, w)[Len(l) + 1] = [what |-> w, prev |-> LinkAt(l, Len(l) + 1)]
<1>1. PICK e : e = [what |-> w, prev |-> LinkAt(l, Len(l) + 1)]
  OBVIOUS
<1>2. e \in Event
  <2>1. LinkAt(l, Len(l) + 1) \in Seq(What)
    BY LinkType
  <2> QED
    BY <1>1, <2>1 DEF Event
<1>3. Extend(l, w) = Append(l, e)
  BY <1>1 DEF Extend
<1>4. /\ Append(l, e) \in Seq(Event) /\ Len(Append(l, e)) = Len(l) + 1
      /\ \A i \in 1 .. Len(l) : Append(l, e)[i] = l[i]
      /\ Append(l, e)[Len(l) + 1] = e
  BY <1>2
<1> QED
  BY <1>1, <1>3, <1>4

LEMMA TurnOfType ==
  ASSUME NEW l \in Seq(Event)
  PROVE  TurnOf(l) \in Nat
<1>1. IsFiniteSet(1 .. Len(l))
  BY FS_Interval
<1>2. {i \in DOMAIN l : l[i].what.kind = "said"} \subseteq 1 .. Len(l)
  OBVIOUS
<1>3. IsFiniteSet({i \in DOMAIN l : l[i].what.kind = "said"})
  BY <1>1, <1>2, FS_Subset
<1> QED
  BY <1>3, FS_CardinalityType DEF TurnOf

LEMMA StoredType ==
  ASSUME NEW r \in Seq(Event), NEW l \in Seq(Event), NEW n \in 0 .. Missing(r, l)
  PROVE  /\ Stored(r, l, n) \in Seq(Event)
         /\ Len(Stored(r, l, n)) = Len(r) + n
         /\ \A i \in 1 .. Len(r) : Stored(r, l, n)[i] = r[i]
         /\ \A i \in (Len(r) + 1) .. (Len(r) + n) : Stored(r, l, n)[i] = l[i]
<1> DEFINE tail == SubSeq(l, Len(r) + 1, Len(r) + n)
<1>1. n \in Nat /\ n <= Missing(r, l) /\ Missing(r, l) \in Nat
      /\ (n > 0 => Len(r) + n <= Len(l))
  BY DEF Missing
<1>2. tail \in Seq(Event) /\ Len(tail) = n /\ \A i \in 1 .. n : tail[i] = l[Len(r) + i]
  BY <1>1
<1>3. Stored(r, l, n) = r \o tail
  BY DEF Stored
<1> HIDE DEF tail
<1>4. Stored(r, l, n) \in Seq(Event) /\ Len(Stored(r, l, n)) = Len(r) + n
  <2>1. r \o tail \in Seq(Event) /\ Len(r \o tail) = Len(r) + Len(tail)
    BY <1>2, ConcatProperties
  <2> QED
    BY <1>2, <1>3, <2>1
<1>5. \A i \in 1 .. Len(r) : Stored(r, l, n)[i] = r[i]
  BY <1>2, <1>3
<1>6. ASSUME NEW i \in (Len(r) + 1) .. (Len(r) + n)
      PROVE  Stored(r, l, n)[i] = l[i]
  <2>1. (r \o tail)[i] = tail[i - Len(r)] /\ i - Len(r) \in 1 .. n
    BY <1>1, <1>2
  <2> QED
    BY <1>1, <1>2, <1>3, <2>1
<1> QED
  BY <1>4, <1>5, <1>6

Prefix(a, l) == Len(a) <= Len(l) /\ \A i \in 1 .. Len(a) : a[i] = l[i]

LEMMA PrefixExtend ==
  ASSUME NEW a \in Seq(Event), NEW l \in Seq(Event), NEW w \in What, Prefix(a, l)
  PROVE  Prefix(a, Extend(l, w))
<1>1. PICK x : x = Extend(l, w)
  OBVIOUS
<1>2. x \in Seq(Event) /\ Len(x) = Len(l) + 1 /\ \A i \in 1 .. Len(l) : x[i] = l[i]
  BY <1>1, ExtendType
<1>3. Prefix(a, x)
  BY <1>2 DEF Prefix
<1> QED
  BY <1>1, <1>3

LEMMA PrefixRefl ==
  ASSUME NEW a \in Seq(Event)
  PROVE  Prefix(a, a)
BY DEF Prefix

LEMMA PrefixTrans ==
  ASSUME NEW a \in Seq(Event), NEW b \in Seq(Event), NEW c \in Seq(Event),
         Prefix(a, b), Prefix(b, c)
  PROVE  Prefix(a, c)
BY DEF Prefix

LEMMA PrefixEvents ==
  ASSUME NEW a \in Seq(Event), NEW l \in Seq(Event), Prefix(a, l)
  PROVE  EventsOf(a) \subseteq EventsOf(l)
BY DEF Prefix, EventsOf

LEMMA IntactPrefix ==
  ASSUME NEW a \in Seq(Event), NEW l \in Seq(Event), Prefix(a, l), Intact(l)
  PROVE  Intact(a)
<1> SUFFICES ASSUME NEW i \in 1 .. Len(a)
             PROVE  a[i].prev = LinkAt(a, i)
  BY DEF Intact
<1>1. a[i] = l[i] /\ i \in DOMAIN l /\ (i # 1 => a[i - 1] = l[i - 1])
  BY DEF Prefix
<1>2. LinkAt(a, i) = LinkAt(l, i)
  BY <1>1 DEF LinkAt
<1> QED
  BY <1>1, <1>2 DEF Intact

\* An event recorded at the end of a chain extends it.
LEMMA IntactExtend ==
  ASSUME NEW l \in Seq(Event), NEW w \in What, Intact(l)
  PROVE  Intact(Extend(l, w))
<1>1. PICK x : x = Extend(l, w)
  OBVIOUS
<1>2. /\ x \in Seq(Event) /\ Len(x) = Len(l) + 1
      /\ \A i \in 1 .. Len(l) : x[i] = l[i]
      /\ x[Len(l) + 1] = [what |-> w, prev |-> LinkAt(l, Len(l) + 1)]
  BY <1>1, ExtendType
<1>3. ASSUME NEW i \in 1 .. (Len(l) + 1)
      PROVE  x[i].prev = LinkAt(x, i)
  <2>1. LinkAt(x, i) = LinkAt(l, i)
    <3>1. i # 1 => x[i - 1] = l[i - 1]
      BY <1>2
    <3> QED
      BY <3>1 DEF LinkAt
  <2>2. CASE i \in 1 .. Len(l)
    BY <1>2, <2>1, <2>2 DEF Intact
  <2>3. CASE i = Len(l) + 1
    BY <1>2, <2>1, <2>3
  <2> QED
    BY <2>2, <2>3
<1>4. Intact(x)
  BY <1>2, <1>3 DEF Intact
<1> QED
  BY <1>1, <1>4

\* A writer that has the whole of the store's rows extends them by its own.
LEMMA StoredPrefix ==
  ASSUME NEW r \in Seq(Event), NEW l \in Seq(Event), NEW n \in 0 .. Missing(r, l)
  PROVE  /\ Prefix(r, Stored(r, l, n))
         /\ Prefix(r, l) => Prefix(Stored(r, l, n), l)
         /\ Prefix(r, l) /\ n = Missing(r, l) => Stored(r, l, n) = l
<1>1. n \in Nat /\ (n > 0 => Len(r) + n <= Len(l))
  BY DEF Missing
<1>2. Prefix(r, Stored(r, l, n))
  BY <1>1, StoredType DEF Prefix
<1>3. ASSUME Prefix(r, l)
      PROVE  Prefix(Stored(r, l, n), l)
  <2>1. Len(Stored(r, l, n)) <= Len(l)
    BY <1>1, <1>3, StoredType DEF Prefix
  <2>2. ASSUME NEW i \in 1 .. Len(Stored(r, l, n))
        PROVE  Stored(r, l, n)[i] = l[i]
    <3>1. i \in 1 .. Len(r) \/ i \in (Len(r) + 1) .. (Len(r) + n)
      BY <1>1, StoredType
    <3> QED
      BY <1>3, <3>1, StoredType DEF Prefix
  <2> QED
    BY <2>1, <2>2 DEF Prefix
<1>4. ASSUME Prefix(r, l), n = Missing(r, l)
      PROVE  Stored(r, l, n) = l
  <2>1. PICK x \in Seq(Event) : x = Stored(r, l, n)
    BY StoredType
  <2>2. Len(x) = Len(l)
    BY <1>4, <2>1, StoredType DEF Missing, Prefix
  <2>3. \A i \in 1 .. Len(l) : x[i] = l[i]
    BY <1>3, <1>4, <2>1, <2>2 DEF Prefix
  <2> QED
    BY <2>1, <2>2, <2>3
<1> QED
  BY <1>2, <1>3, <1>4

-----------------------------------------------------------------------------
(* The steps of a writer.                                                  *)

Tables == /\ rows \in [Sessions -> Seq(Event)]
          /\ kept \in [Sessions -> SUBSET Event]

\* An append of l to the rows of s, whatever comes of it.
LEMMA AppendStep ==
  ASSUME Tables, NEW s \in Sessions, NEW l \in Seq(Event),
         Append_Ok(s, l) \/ Append_Fails(s, l)
  PROVE  /\ Tables'
         /\ \A u \in Sessions \ {s} : rows'[u] = rows[u] /\ kept'[u] = kept[u]
         /\ Prefix(rows[s], rows'[s])
         /\ Prefix(rows[s], l) => Prefix(rows'[s], l)
         /\ kept'[s] \subseteq kept[s] \cup EventsOf(l)
         /\ Prefix(rows[s], l) => kept'[s] \subseteq kept[s] \cup EventsOf(rows'[s])
         /\ Append_Ok(s, l) /\ Prefix(rows[s], l) => rows'[s] = l
<1>1. rows[s] \in Seq(Event) /\ Missing(rows[s], l) \in Nat
  BY DEF Tables, Missing
<1>2. PICK n \in 0 .. Missing(rows[s], l) :
        /\ rows' = [rows EXCEPT ![s] = Stored(rows[s], l, n)]
        /\ Append_Ok(s, l) => n = Missing(rows[s], l)
  <2>1. CASE Append_Ok(s, l)
    <3>1. rows' = [rows EXCEPT ![s] = Stored(rows[s], l, Missing(rows[s], l))]
      BY <2>1 DEF Append_Ok
    <3>2. Missing(rows[s], l) \in 0 .. Missing(rows[s], l)
      BY <1>1
    <3> QED
      BY <3>1, <3>2
  <2>2. CASE ~Append_Ok(s, l) /\ Append_Fails(s, l)
    <3>1. PICK n \in 0 .. (Missing(rows[s], l) - 1) :
            rows' = [rows EXCEPT ![s] = Stored(rows[s], l, n)]
      BY <2>2 DEF Append_Fails
    <3>2. n \in 0 .. Missing(rows[s], l)
      BY <1>1
    <3> QED
      BY <2>2, <3>1, <3>2
  <2> QED
    BY <2>1, <2>2
<1>3. rows'[s] = Stored(rows[s], l, n) /\ \A u \in Sessions \ {s} : rows'[u] = rows[u]
  BY <1>2 DEF Tables
<1>4. /\ rows'[s] \in Seq(Event)
      /\ Prefix(rows[s], rows'[s])
      /\ Prefix(rows[s], l) => Prefix(rows'[s], l)
      /\ Append_Ok(s, l) /\ Prefix(rows[s], l) => rows'[s] = l
  BY <1>1, <1>2, <1>3, StoredType, StoredPrefix
<1>5. EventsOf(l) \subseteq Event
  BY DEF EventsOf
<1>6. /\ kept' \in [Sessions -> SUBSET Event]
      /\ \A u \in Sessions \ {s} : kept'[u] = kept[u]
      /\ kept'[s] \subseteq kept[s] \cup EventsOf(l)
      /\ ~Append_Ok(s, l) => kept'[s] = kept[s]
  <2>1. CASE Append_Ok(s, l)
    BY <1>5, <2>1 DEF Append_Ok, Tables
  <2>2. CASE ~Append_Ok(s, l) /\ Append_Fails(s, l)
    BY <2>2 DEF Append_Fails, Tables
  <2> QED
    BY <2>1, <2>2
<1>7. rows' \in [Sessions -> Seq(Event)]
  BY <1>2, <1>3, <1>4 DEF Tables
<1>8. Prefix(rows[s], l) => kept'[s] \subseteq kept[s] \cup EventsOf(rows'[s])
  BY <1>4, <1>6
<1> QED
  BY <1>3, <1>4, <1>6, <1>7, <1>8 DEF Tables

-----------------------------------------------------------------------------
(* The invariant.  A writer holds the rows it does not share: a turn all   *)
(* of them always, a summary and the pass those of the sessions in which   *)
(* the two did not meet.                                                   *)

TurnEvents(E) == {e \in E : e.what.kind \in {"said", "replied"}}

Todo == /\ pc = "off" => DOMAIN evidence = {}
        /\ pc = "load" => todo \cap DOMAIN evidence = {}
        /\ pc \in {"grade", "store"} => todo \subseteq DOMAIN evidence
        /\ pc \in {"patches", "notes", "ledger"} => todo = {}

\* Every candidate that is published, or about to be, has its acceptance on record
\* or is one a pass left unsigned; and what is on record stays.
Signed ==
  /\ pc # "ledger" => \A c \in file : ledger[c] = "accepted" \/ c \in unsigned
  /\ pc # "off" => \A c \in working : verdicts[c] = "accepted" \/ c \in unsigned
  /\ pc = "ledger" => file = working
  /\ pc # "off" => file \cap Patches \subseteq working
  /\ pc # "off" => \A p \in Patches : verdicts[p] = "accepted" => p \in working
  /\ pc # "off" => \A c \in Candidates :
       ledger[c] \in {"accepted", "rejected"} => verdicts[c] = ledger[c]

\* A session whose summary met no pass: its rows are a chain, hold what was kept, and
\* are the start of whatever is about to be appended to them.
Apart(s) ==
  /\ Intact(rows[s])
  /\ kept[s] \subseteq EventsOf(rows[s])
  /\ task[s] = "turn" => Intact(log[s])
  /\ task[s] = "summing" => log[s] = rows[s]
  /\ s \in DOMAIN evidence => /\ Prefix(rows[s], evidence[s])
                              /\ s \notin todo => evidence[s] = rows[s]

\* Every session: no turn runs beside a pass, a summary that does is marked, and the
\* rows hold the events of the turns, whoever is about to append.
Held(s) ==
  /\ pc # "off" => task[s] # "turn" /\ (task[s] = "summing" => s \in overlapped)
  /\ TurnEvents(kept[s]) \subseteq EventsOf(rows[s])
  /\ task[s] = "turn" => Prefix(rows[s], log[s])
  /\ task[s] = "summing" => TurnEvents(EventsOf(log[s])) \subseteq EventsOf(rows[s])
  /\ s \in DOMAIN evidence => /\ Intact(evidence[s])
                              /\ TurnEvents(EventsOf(evidence[s])) \subseteq EventsOf(rows[s])
  /\ s \notin overlapped => Apart(s)

-----------------------------------------------------------------------------
(* What the writers append.                                                *)

LEMMA ExtendTurnEvents ==
  ASSUME NEW l \in Seq(Event), NEW w \in What, w.kind \notin {"said", "replied"}
  PROVE  TurnEvents(EventsOf(Extend(l, w))) \subseteq TurnEvents(EventsOf(l))
<1>1. PICK x : x = Extend(l, w)
  OBVIOUS
<1>2. /\ x \in Seq(Event) /\ Len(x) = Len(l) + 1
      /\ \A i \in 1 .. Len(l) : x[i] = l[i]
      /\ x[Len(l) + 1] = [what |-> w, prev |-> LinkAt(l, Len(l) + 1)]
  BY <1>1, ExtendType
<1>3. ASSUME NEW e \in TurnEvents(EventsOf(x))
      PROVE  e \in TurnEvents(EventsOf(l))
  <2>1. PICK i \in 1 .. (Len(l) + 1) : e = x[i] /\ e.what.kind \in {"said", "replied"}
    BY <1>2 DEF TurnEvents, EventsOf
  <2>2. i # Len(l) + 1
    BY <1>2, <2>1
  <2> QED
    BY <1>2, <2>1, <2>2 DEF TurnEvents, EventsOf
<1> QED
  BY <1>1, <1>3

LEMMA OutcomesExtend ==
  ASSUME NEW l \in Seq(Event), NEW x \in Outcomes(l)
  PROVE  /\ x \in Seq(Event)
         /\ Prefix(l, x)
         /\ Intact(l) => Intact(x)
         /\ TurnEvents(EventsOf(x)) \subseteq TurnEvents(EventsOf(l))
<1> DEFINE cost == [turn |-> TurnOf(l), kind |-> "cost"]
           summary == [turn |-> TurnOf(l), kind |-> "summary"]
<1>1. cost \in What /\ summary \in What
  BY TurnOfType DEF What, Kinds
<1>2. cost.kind \notin {"said", "replied"} /\ summary.kind \notin {"said", "replied"}
  OBVIOUS
<1>3. x = l \/ x = Extend(l, cost) \/ x = Extend(Extend(l, cost), summary)
  BY DEF Outcomes
<1> HIDE DEF cost, summary
<1>4. PICK y : y = Extend(l, cost)
  OBVIOUS
<1>5. /\ y \in Seq(Event) /\ Prefix(l, y) /\ (Intact(l) => Intact(y))
      /\ TurnEvents(EventsOf(y)) \subseteq TurnEvents(EventsOf(l))
  BY <1>1, <1>2, <1>4, ExtendType, PrefixRefl, PrefixExtend, IntactExtend, ExtendTurnEvents
<1>6. PICK z : z = Extend(y, summary)
  OBVIOUS
<1>7. /\ z \in Seq(Event) /\ Prefix(l, z) /\ (Intact(l) => Intact(z))
      /\ TurnEvents(EventsOf(z)) \subseteq TurnEvents(EventsOf(l))
  <2>1. z \in Seq(Event) /\ Prefix(l, z)
    BY <1>1, <1>5, <1>6, ExtendType, PrefixExtend
  <2>2. Intact(l) => Intact(z)
    BY <1>1, <1>5, <1>6, IntactExtend
  <2>3. TurnEvents(EventsOf(z)) \subseteq TurnEvents(EventsOf(y))
    BY <1>1, <1>2, <1>5, <1>6, ExtendTurnEvents
  <2> QED
    BY <1>5, <2>1, <2>2, <2>3
<1> QED
  BY <1>3, <1>4, <1>5, <1>6, <1>7, PrefixRefl

LEMMA RepliedExtends ==
  ASSUME NEW s \in Sessions, log[s] \in Seq(Event)
  PROVE  /\ Replied(s) \in Seq(Event)
         /\ \A r \in Seq(Event) : Prefix(r, log[s]) => Prefix(r, Replied(s))
         /\ Intact(log[s]) => Intact(Replied(s))
<1> DEFINE w == [turn |-> TurnOf(log[s]), kind |-> "replied"]
<1>1. w \in What
  BY TurnOfType DEF What, Kinds
<1>2. Replied(s) = Extend(log[s], w)
  BY DEF Replied
<1> HIDE DEF w
<1> QED
  BY <1>1, <1>2, ExtendType, PrefixExtend, IntactExtend

LEMMA SaidExtends ==
  ASSUME NEW r \in Seq(Event)
  PROVE  LET l == Extend(r, [turn |-> TurnOf(r) + 1, kind |-> "said"])
         IN  l \in Seq(Event) /\ Prefix(r, l) /\ (Intact(r) => Intact(l))
<1> DEFINE w == [turn |-> TurnOf(r) + 1, kind |-> "said"]
<1>1. w \in What
  BY TurnOfType DEF What, Kinds
<1> HIDE DEF w
<1>2. Extend(r, w) \in Seq(Event) /\ Prefix(r, Extend(r, w))
      /\ (Intact(r) => Intact(Extend(r, w)))
  BY <1>1, ExtendType, PrefixRefl, PrefixExtend, IntactExtend
<1> QED
  BY <1>2 DEF w

LEMMA GradeExtends ==
  ASSUME NEW l \in Seq(Event), NEW t \in Answered(l), NEW ev \in Evaluators
  PROVE  LET x == Extend(l, [turn |-> t, kind |-> ev])
         IN  /\ x \in Seq(Event)
             /\ \A r \in Seq(Event) : Prefix(r, l) => Prefix(r, x)
             /\ Intact(l) => Intact(x)
             /\ TurnEvents(EventsOf(x)) \subseteq TurnEvents(EventsOf(l))
<1> DEFINE w == [turn |-> t, kind |-> ev]
<1>1. t \in Nat
  <2>1. PICK i \in DOMAIN l : t = l[i].what.turn
    BY DEF Answered, EventsOf
  <2>2. l[i] \in Event
    BY <2>1
  <2> QED
    BY <2>1, <2>2 DEF Event, What
<1>2. w \in What /\ w.kind \notin {"said", "replied"}
  BY <1>1, EvaluatorsAssumption DEF What, Kinds
<1> HIDE DEF w
<1>3. /\ Extend(l, w) \in Seq(Event)
      /\ \A r \in Seq(Event) : Prefix(r, l) => Prefix(r, Extend(l, w))
      /\ Intact(l) => Intact(Extend(l, w))
      /\ TurnEvents(EventsOf(Extend(l, w))) \subseteq TurnEvents(EventsOf(l))
  BY <1>2, ExtendType, PrefixExtend, IntactExtend, ExtendTurnEvents
<1> QED
  BY <1>3 DEF w

-----------------------------------------------------------------------------
(* Types.                                                                  *)

LEMMA WithNoteFits ==
  ASSUME working \in RuleSets, NEW n \in Notes, NEW f \in WithNote(n)
  PROVE  f \in RuleSets /\ f \cap Patches = working \cap Patches
         /\ f \subseteq working \cup {n}
<1> DEFINE notes == (working \cup {n}) \cap Notes
<1>1. /\ IsFiniteSet(working \cap Notes) /\ Cardinality(working \cap Notes) \in Nat
      /\ Cardinality(working \cap Notes) <= MaxNotes
  <2>1. IsFiniteSet(working \cap Notes)
    BY MaxNotesAssumption, FS_Subset
  <2> QED
    BY <2>1, FS_CardinalityType DEF RuleSets
<1>2. notes = (working \cap Notes) \cup {n}
  OBVIOUS
<1>3. IsFiniteSet(notes) /\ Cardinality(notes) \in Nat
      /\ Cardinality(notes) <= Cardinality(working \cap Notes) + 1
  <2>1. IsFiniteSet((working \cap Notes) \cup {n})
        /\ Cardinality((working \cap Notes) \cup {n}) =
             IF n \in working \cap Notes THEN Cardinality(working \cap Notes)
             ELSE Cardinality(working \cap Notes) + 1
    BY <1>1, FS_AddElement
  <2> QED
    BY <1>1, <1>2, <2>1
<1>4. CASE Cardinality(notes) > MaxNotes
  <2>1. PICK x \in notes : f = (working \cup {n}) \ {x}
    BY <1>4 DEF WithNote
  <2>2. f \cap Notes = notes \ {x}
    BY <2>1
  <2>3. Cardinality(notes \ {x}) = Cardinality(notes) - 1
    BY <1>3, <2>1, FS_RemoveElement
  <2>4. Cardinality(f \cap Notes) <= MaxNotes
    <3>1. PICK k \in Nat : k = Cardinality(notes) /\ k <= MaxNotes + 1
      BY <1>1, <1>3, MaxNotesAssumption
    <3>2. Cardinality(f \cap Notes) = k - 1
      BY <2>2, <2>3, <3>1
    <3> QED
      BY <3>1, <3>2, MaxNotesAssumption
  <2>5. x \notin Patches /\ n \notin Patches
    BY <2>1, CandidatesAssumption
  <2> QED
    BY <2>1, <2>4, <2>5 DEF RuleSets, Candidates
<1>5. CASE ~(Cardinality(notes) > MaxNotes)
  <2>1. f = working \cup {n}
    BY <1>5 DEF WithNote
  <2>2. Cardinality(f \cap Notes) <= MaxNotes
    BY <1>3, <1>5, <2>1, MaxNotesAssumption
  <2>3. n \notin Patches
    BY CandidatesAssumption
  <2> QED
    BY <2>1, <2>2, <2>3 DEF RuleSets, Candidates
<1> QED
  BY <1>4, <1>5

LEMMA NoRulesFit == {} \in RuleSets
<1>1. {} \cap Notes = {} /\ Cardinality({}) = 0
  BY FS_EmptySet
<1> QED
  BY <1>1, MaxNotesAssumption DEF RuleSets

\* A pass that is over leaves its part of the state as it was at first.
LEMMA PassOverType ==
  ASSUME PassOver
  PROVE  /\ pc' = "off" /\ worked' \in BOOLEAN /\ todo' = {} /\ DOMAIN evidence' = {}
         /\ evidence' \in [DOMAIN evidence' -> Seq(Event)]
         /\ working' = {} /\ working' \in RuleSets
         /\ verdicts' \in [Candidates -> Verdicts]
BY NoRulesFit DEF PassOver, NoEvidence, Verdicts

LEMMA TypeInit == Init => TypeOK
<1> SUFFICES ASSUME Init
             PROVE  TypeOK
  OBVIOUS
<1>1. <<>> \in Seq(Event)
  OBVIOUS
<1> QED
  BY <1>1, NoRulesFit DEF Init, ChainInit, NoEvidence, TypeOK, Verdicts

LEMMA TypeStep == TypeOK /\ Todo /\ [Next]_vars => TypeOK'
<1> SUFFICES ASSUME TypeOK, Todo, [Next]_vars
             PROVE  TypeOK'
  OBVIOUS
<1>0. Tables
  BY DEF TypeOK, Tables
<1>1. ASSUME NEW s \in Sessions, Turn(s)
      PROVE  TypeOK'
  <2>0. log[s] \in Seq(Event) /\ rows[s] \in Seq(Event) /\ Replied(s) \in Seq(Event)
        /\ <<>> \in Seq(Event)
    BY RepliedExtends DEF TypeOK
  <2>1. CASE TurnBegins(s)
    <3>1. Extend(rows[s], [turn |-> TurnOf(rows[s]) + 1, kind |-> "said"]) \in Seq(Event)
      BY <2>0, SaidExtends
    <3> QED
      BY <1>1, <2>1, <3>1 DEF TurnBegins, Turn, passVars, TypeOK
  <2>2. CASE Flush(s)
    <3>1. Tables'
      BY <1>0, <2>0, <2>2, AppendStep DEF Flush
    <3> QED
      BY <1>1, <2>2, <3>1 DEF Flush, Turn, passVars, TypeOK, Tables
  <2>3. CASE TurnFails(s)
    <3>1. Tables'
      BY <1>0, <2>0, <2>3, AppendStep DEF TurnFails
    <3> QED
      BY <1>1, <2>0, <2>3, <3>1 DEF TurnFails, Turn, passVars, TypeOK, Tables
  <2> QED
    BY <1>1, <2>1, <2>2, <2>3 DEF Turn
<1>2. ASSUME NEW s \in Sessions, TurnDone(s)
      PROVE  TypeOK'
  <2>1. Replied(s) \in Seq(Event) /\ <<>> \in Seq(Event)
    BY RepliedExtends DEF TypeOK
  <2>2. Tables'
    BY <1>0, <1>2, <2>1, AppendStep DEF TurnDone, TurnEnds
  <2> QED
    BY <1>2, <2>1, <2>2 DEF TurnDone, TurnEnds, TypeOK, Tables
<1>3. ASSUME NEW s \in Sessions, Summary(s)
      PROVE  TypeOK'
  <2>0. log[s] \in Seq(Event) /\ rows[s] \in Seq(Event) /\ <<>> \in Seq(Event)
    BY DEF TypeOK
  <2>1. CASE SummaryEnds(s)
    <3>1. Tables'
      <4>1. PICK l \in Outcomes(log[s]) : Append_Ok(s, l) \/ Append_Fails(s, l)
        BY <2>1 DEF SummaryEnds
      <4>2. l \in Seq(Event)
        BY <2>0, OutcomesExtend
      <4> QED
        BY <1>0, <4>1, <4>2, AppendStep
    <3> QED
      BY <1>3, <2>0, <2>1, <3>1 DEF SummaryEnds, Summary, TypeOK, Tables
  <2>2. CASE SummaryBegins(s) \/ SummaryDropped(s)
    BY <1>3, <2>0, <2>2 DEF SummaryBegins, SummaryDropped, Summary, TypeOK
  <2> QED
    BY <1>3, <2>1, <2>2 DEF Summary
<1>4. CASE PassBegins
  BY <1>4 DEF PassBegins, TypeOK, chainVars, NoEvidence
<1>5. CASE Loaded \/ Graded \/ GradesStored \/ PatchesDone \/ SaveRules
  BY <1>5 DEF Loaded, Graded, GradesStored, PatchesDone, SaveRules, TypeOK, chainVars
<1>6. CASE SaveLedger
  BY <1>6, PassOverType DEF SaveLedger, TypeOK, chainVars
<1>7. CASE PassFails
  BY <1>7, PassOverType DEF PassFails, Unsigned, RuleSets, TypeOK, chainVars
<1>8. ASSUME NEW s \in Sessions, Load(s)
      PROVE  TypeOK'
  BY <1>8 DEF Load, Taken, TypeOK, chainVars
<1>9. ASSUME NEW s \in DOMAIN evidence, NEW t \in Answered(evidence[s]), NEW ev \in Evaluators,
             Grade(s, t, ev)
      PROVE  TypeOK'
  <2>1. evidence[s] \in Seq(Event)
    BY DEF TypeOK
  <2>2. Extend(evidence[s], [turn |-> t, kind |-> ev]) \in Seq(Event)
    BY <2>1, GradeExtends
  <2> QED
    BY <1>9, <2>2 DEF Grade, TypeOK, chainVars
<1>10. ASSUME NEW s \in Sessions, StoreGrades(s)
       PROVE  TypeOK'
  <2>1. evidence[s] \in Seq(Event)
    BY <1>10 DEF StoreGrades, Todo, TypeOK
  <2>2. Tables'
    BY <1>0, <1>10, <2>1, AppendStep DEF StoreGrades
  <2> QED
    BY <1>10, <2>2 DEF StoreGrades, TypeOK, Tables
<1>11. ASSUME NEW s \in Sessions, GradesFail(s)
       PROVE  TypeOK'
  <2>1. evidence[s] \in Seq(Event)
    BY <1>11 DEF GradesFail, Todo, TypeOK
  <2>2. Tables'
    BY <1>0, <1>11, <2>1, AppendStep DEF GradesFail
  <2> QED
    BY <1>11, <2>2, PassOverType DEF GradesFail, TypeOK, Tables
<1>12. ASSUME NEW p \in Patches, TryPatch(p)
       PROVE  TypeOK'
  <2>1. (working \cup {p}) \in RuleSets
    <3>1. (working \cup {p}) \cap Notes = working \cap Notes
      BY CandidatesAssumption
    <3> QED
      BY <3>1 DEF TypeOK, RuleSets, Candidates
  <2> QED
    BY <1>12, <2>1 DEF TryPatch, TypeOK, chainVars, Verdicts
<1>13. ASSUME NEW n \in Notes, TryNote(n)
       PROVE  TypeOK'
  <2>1. WithNote(n) \subseteq RuleSets
    BY WithNoteFits DEF TypeOK
  <2> QED
    BY <1>13, <2>1 DEF TryNote, TypeOK, chainVars, Verdicts
<1>14. CASE Crash
  BY <1>14, PassOverType DEF Crash, TasksLost, Unsigned, RuleSets, TypeOK
<1>15. CASE UNCHANGED vars
  BY <1>15 DEF vars, chainVars, passVars, TypeOK
<1> QED
  BY <1>1, <1>2, <1>3, <1>4, <1>5, <1>6, <1>7, <1>8, <1>9, <1>10, <1>11, <1>12, <1>13,
     <1>14, <1>15 DEF Next, SessionStep, PassStep

LEMMA TodoStep == TypeOK /\ Todo /\ [Next]_vars => Todo'
<1> SUFFICES ASSUME TypeOK, Todo, [Next]_vars
             PROVE  Todo'
  OBVIOUS
<1>1. ASSUME NEW s \in Sessions, Turn(s) \/ TurnDone(s) \/ Summary(s)
      PROVE  Todo'
  BY <1>1 DEF Turn, TurnDone, Summary, passVars, Todo
<1>2. CASE PassBegins
  BY <1>2 DEF PassBegins, Todo, NoEvidence
<1>3. CASE Loaded \/ Graded \/ GradesStored \/ PatchesDone \/ SaveRules
  BY <1>3 DEF Loaded, Graded, GradesStored, PatchesDone, SaveRules, Todo
<1>4. CASE SaveLedger \/ PassFails \/ Crash
  BY <1>4, PassOverType DEF SaveLedger, PassFails, Crash, Todo
<1>5. ASSUME NEW s \in Sessions, Load(s)
      PROVE  Todo'
  BY <1>5 DEF Load, Taken, Todo
<1>6. ASSUME NEW s \in DOMAIN evidence, NEW t \in Answered(evidence[s]), NEW ev \in Evaluators,
             Grade(s, t, ev)
      PROVE  Todo'
  BY <1>6 DEF Grade, Todo
<1>7. ASSUME NEW s \in Sessions, StoreGrades(s)
      PROVE  Todo'
  BY <1>7 DEF StoreGrades, Todo
<1>8. ASSUME NEW s \in Sessions, GradesFail(s)
      PROVE  Todo'
  BY <1>8, PassOverType DEF GradesFail, Todo
<1>9. ASSUME NEW c \in Candidates, TryPatch(c) \/ TryNote(c)
      PROVE  Todo'
  BY <1>9 DEF TryPatch, TryNote, Todo
<1>10. CASE UNCHANGED vars
  BY <1>10 DEF vars, passVars, Todo
<1> QED
  BY <1>1, <1>2, <1>3, <1>4, <1>5, <1>6, <1>7, <1>8, <1>9, <1>10
     DEF Next, SessionStep, PassStep, Candidates

\* The types of the state hold, learned.toml's limit on notes among them.
THEOREM TypesHold == Spec => []TypeOK
<1>1. Init => TypeOK /\ Todo
  BY TypeInit DEF Init, Todo, NoEvidence
<1>2. TypeOK /\ Todo /\ [Next]_vars => (TypeOK /\ Todo)'
  BY TypeStep, TodoStep
<1> QED
  BY <1>1, <1>2, PTL DEF Spec

-----------------------------------------------------------------------------
(* learned.toml and the ledger.                                            *)

LEMMA SignedStep == TypeOK /\ Signed /\ AcceptedIsPublished /\ [Next]_vars
                      => (Signed /\ AcceptedIsPublished)'
<1> SUFFICES ASSUME TypeOK, Signed, AcceptedIsPublished, [Next]_vars
             PROVE  Signed' /\ AcceptedIsPublished'
  OBVIOUS
<1>1. CASE UNCHANGED <<pc, file, ledger, working, verdicts, unsigned>>
  BY <1>1 DEF Signed, AcceptedIsPublished
<1>2. ASSUME NEW s \in Sessions, Turn(s) \/ TurnDone(s) \/ Summary(s)
      PROVE  Signed' /\ AcceptedIsPublished'
  BY <1>1, <1>2 DEF Turn, TurnDone, Summary, passVars
<1>3. CASE PassBegins
  BY <1>3 DEF PassBegins, Signed, AcceptedIsPublished, TypeOK, RuleSets
<1>4. CASE Loaded \/ Graded \/ GradesStored \/ PatchesDone
  BY <1>4 DEF Loaded, Graded, GradesStored, PatchesDone, Signed, AcceptedIsPublished
<1>5. CASE SaveRules
  BY <1>5 DEF SaveRules, Signed, AcceptedIsPublished
<1>6. CASE SaveLedger
  BY <1>6, PassOverType DEF SaveLedger, Signed, AcceptedIsPublished
<1>7. CASE PassFails \/ Crash
  BY <1>7, PassOverType DEF PassFails, Crash, Unsigned, Signed, AcceptedIsPublished
<1>8. ASSUME NEW s \in Sessions, Load(s) \/ StoreGrades(s)
      PROVE  Signed' /\ AcceptedIsPublished'
  BY <1>1, <1>8 DEF Load, StoreGrades
<1>9. ASSUME NEW s \in Sessions, GradesFail(s)
      PROVE  Signed' /\ AcceptedIsPublished'
  BY <1>9, PassOverType DEF GradesFail, Signed, AcceptedIsPublished
<1>10. ASSUME NEW s \in DOMAIN evidence, NEW t \in Answered(evidence[s]), NEW ev \in Evaluators,
              Grade(s, t, ev)
       PROVE  Signed' /\ AcceptedIsPublished'
  BY <1>1, <1>10 DEF Grade
<1>11. ASSUME NEW p \in Patches, TryPatch(p)
       PROVE  Signed' /\ AcceptedIsPublished'
  <2>1. /\ pc = "patches" /\ pc' = pc /\ file' = file /\ ledger' = ledger
        /\ unsigned' = unsigned
    BY <1>11 DEF TryPatch
  <2>2. p \in Candidates /\ verdicts[p] \notin {"accepted", "rejected"}
    BY <1>11 DEF TryPatch, Settled, Candidates
  <2>3. \A c \in Candidates \ {p} : verdicts'[c] = verdicts[c]
    BY <1>11 DEF TryPatch, TypeOK
  <2>4. \/ verdicts'[p] = "accepted" /\ working' = working \cup {p}
        \/ verdicts'[p] = "rejected" /\ working' = working
    BY <1>11, <2>2 DEF TryPatch, TypeOK
  <2>5. file \subseteq Candidates /\ working \subseteq Candidates
    BY DEF TypeOK, RuleSets
  <2> QED
    BY <2>1, <2>2, <2>3, <2>4, <2>5 DEF Signed, AcceptedIsPublished, Candidates
<1>12. ASSUME NEW n \in Notes, TryNote(n)
       PROVE  Signed' /\ AcceptedIsPublished'
  <2>1. /\ pc = "notes" /\ pc' = pc /\ file' = file /\ ledger' = ledger
        /\ unsigned' = unsigned
    BY <1>12 DEF TryNote
  <2>2. /\ n \in Candidates /\ n \notin Patches /\ n \notin working
        /\ verdicts[n] \notin {"accepted", "rejected"}
    BY <1>12, CandidatesAssumption DEF TryNote, Settled, Candidates
  <2>3. \A c \in Candidates \ {n} : verdicts'[c] = verdicts[c]
    BY <1>12 DEF TryNote, TypeOK
  <2>4. \/ /\ verdicts'[n] = "accepted" /\ working' \cap Patches = working \cap Patches
           /\ working' \subseteq working \cup {n}
        \/ working' = working
    BY <1>12, <2>2, WithNoteFits DEF TryNote, TypeOK
  <2>5. file \subseteq Candidates /\ working \subseteq Candidates
    BY DEF TypeOK, RuleSets
  <2> QED
    BY <2>1, <2>2, <2>3, <2>4, <2>5 DEF Signed, AcceptedIsPublished, Candidates
<1>13. CASE UNCHANGED vars
  BY <1>1, <1>13 DEF vars, passVars
<1> QED
  BY <1>2, <1>3, <1>4, <1>5, <1>6, <1>7, <1>8, <1>9, <1>10, <1>11, <1>12, <1>13
     DEF Next, SessionStep, PassStep

LEMMA SignedRejects == Signed /\ TypeOK => RejectedIsOut
BY DEF Signed, RejectedIsOut, TypeOK, RuleSets

\* What the ledger settled, a step leaves as it is.
LEMMA FinalStep == TypeOK /\ Signed /\ [Next]_vars =>
  \A c \in Candidates : ledger[c] \in {"accepted", "rejected"} => ledger'[c] = ledger[c]
<1> SUFFICES ASSUME TypeOK, Signed, [Next]_vars
             PROVE  \A c \in Candidates :
                      ledger[c] \in {"accepted", "rejected"} => ledger'[c] = ledger[c]
  OBVIOUS
<1>1. CASE SaveLedger
  BY <1>1 DEF SaveLedger, Signed
<1>2. CASE ~SaveLedger
  <2>1. ledger' = ledger
    BY <1>2 DEF Next, SessionStep, PassStep, Turn, TurnDone, Summary, PassBegins, Loaded,
       Graded, GradesStored, PatchesDone, SaveRules, PassFails, Crash, Load, StoreGrades,
       GradesFail, Grade, TryPatch, TryNote, passVars, vars
  <2> QED
    BY <2>1
<1> QED
  BY <1>1, <1>2

LEMMA LedgerInvariant == Spec => [](TypeOK /\ Signed /\ AcceptedIsPublished)
<1>1. Init => TypeOK /\ Todo /\ Signed /\ AcceptedIsPublished
  BY TypeInit DEF Init, Todo, NoEvidence, Signed, AcceptedIsPublished, Candidates
<1>2. TypeOK /\ Todo /\ Signed /\ AcceptedIsPublished /\ [Next]_vars
        => (TypeOK /\ Todo /\ Signed /\ AcceptedIsPublished)'
  BY TypeStep, TodoStep, SignedStep
<1> QED
  BY <1>1, <1>2, PTL DEF Spec

\* A patch the ledger has accepted is in learned.toml.
THEOREM AcceptedPublished == Spec => []AcceptedIsPublished
BY LedgerInvariant, PTL

\* A candidate the ledger has rejected is not, but for one a pass left unsigned.
THEOREM RejectedOut == Spec => []RejectedIsOut
BY LedgerInvariant, SignedRejects, PTL

\* What the ledger has settled stays settled.
THEOREM Final == Spec => VerdictsAreFinal
<1>1. TypeOK /\ Signed /\ [Next]_vars =>
        [\A c \in Candidates :
           ledger[c] \in {"accepted", "rejected"} => ledger'[c] = ledger[c]]_vars
  BY FinalStep
<1> QED
  BY <1>1, LedgerInvariant, PTL DEF Spec, VerdictsAreFinal

-----------------------------------------------------------------------------
(* The chains.                                                             *)

LEMMA AppendGrows ==
  ASSUME Tables, NEW s \in Sessions, NEW l \in Seq(Event),
         Append_Ok(s, l) \/ Append_Fails(s, l)
  PROVE  EventsOf(rows[s]) \subseteq EventsOf(rows'[s])
<1>1. rows[s] \in Seq(Event) /\ rows'[s] \in Seq(Event) /\ Prefix(rows[s], rows'[s])
  BY AppendStep DEF Tables
<1> QED
  BY <1>1, PrefixEvents

\* A session that a step leaves alone.
LEMMA HeldElsewhere ==
  ASSUME NEW u \in Sessions, Held(u),
         rows'[u] = rows[u], kept'[u] = kept[u], task'[u] = task[u], log'[u] = log[u],
         (pc' # "off" => pc # "off"), u \in overlapped' <=> u \in overlapped,
         u \in DOMAIN evidence' => /\ u \in DOMAIN evidence
                                   /\ evidence'[u] = evidence[u]
                                   /\ (u \notin todo' => u \notin todo)
  PROVE  Held(u)'
BY DEF Held, Apart

LEMMA TurnHeld ==
  ASSUME TypeOK, Todo, NEW s \in Sessions, Held(s), Turn(s) \/ TurnDone(s)
  PROVE  Held(s)'
<1>1. /\ pc = "off" /\ pc' = pc /\ evidence' = evidence /\ overlapped' = overlapped
      /\ s \notin DOMAIN evidence
  BY DEF Turn, TurnDone, TurnBegins, Flush, TurnFails, TurnEnds, Held, Todo, passVars
<1>2. rows[s] \in Seq(Event) /\ log[s] \in Seq(Event) /\ Tables
  BY DEF TypeOK, Tables
<1>3. CASE TurnBegins(s)
  <2>1. PICK l : l = Extend(rows[s], [turn |-> TurnOf(rows[s]) + 1, kind |-> "said"])
    OBVIOUS
  <2>2. Prefix(rows[s], l) /\ (Intact(rows[s]) => Intact(l))
    BY <1>2, <2>1, SaidExtends
  <2>3. rows'[s] = rows[s] /\ kept'[s] = kept[s] /\ task'[s] = "turn" /\ log'[s] = l
    BY <1>3, <2>1 DEF TurnBegins, TypeOK
  <2> QED
    BY <1>1, <2>2, <2>3 DEF Held, Apart
<1>4. ASSUME NEW l \in Seq(Event), Append_Ok(s, l) \/ Append_Fails(s, l),
             task[s] = "turn", Prefix(log[s], l), Intact(log[s]) => Intact(l),
             \/ task'[s] # "turn" /\ task'[s] # "summing"
             \/ task'[s] = "turn" /\ log'[s] = l
      PROVE  Held(s)'
  <2>1. Prefix(rows[s], l)
    BY <1>2, <1>4, PrefixTrans DEF Held
  <2>2. /\ rows'[s] \in Seq(Event) /\ Prefix(rows'[s], l)
        /\ kept'[s] \subseteq kept[s] \cup EventsOf(rows'[s])
    BY <1>2, <1>4, <2>1, AppendStep DEF Tables
  <2>3. EventsOf(rows[s]) \subseteq EventsOf(rows'[s])
    BY <1>2, <1>4, AppendGrows
  <2>4. TurnEvents(kept'[s]) \subseteq EventsOf(rows'[s])
    BY <2>2, <2>3 DEF Held, TurnEvents
  <2>5. ASSUME s \notin overlapped
        PROVE  /\ Intact(l) /\ Intact(rows'[s])
               /\ kept'[s] \subseteq EventsOf(rows'[s])
    <3>1. Intact(l)
      BY <1>4, <2>5 DEF Held, Apart
    <3>2. Intact(rows'[s])
      BY <2>2, <3>1, IntactPrefix
    <3> QED
      BY <2>2, <2>3, <2>5, <3>1, <3>2 DEF Held, Apart
  <2> QED
    BY <1>1, <1>4, <2>2, <2>4, <2>5 DEF Held, Apart
<1>5. CASE Flush(s)
  <2>1. Prefix(log[s], log[s])
    BY <1>2, PrefixRefl
  <2> QED
    BY <1>2, <1>4, <1>5, <2>1 DEF Flush
<1>6. CASE TurnEnds(s) \/ TurnFails(s)
  <2>1. /\ Replied(s) \in Seq(Event) /\ Prefix(log[s], Replied(s))
        /\ Intact(log[s]) => Intact(Replied(s))
    BY <1>2, RepliedExtends, PrefixRefl
  <2>2. task'[s] \in {"due", "idle"}
    BY <1>6 DEF TurnEnds, TurnFails, TypeOK
  <2> QED
    BY <1>4, <1>6, <2>1, <2>2 DEF TurnEnds, TurnFails
<1> QED
  BY <1>3, <1>5, <1>6 DEF Turn, TurnDone

LEMMA SummaryHeld ==
  ASSUME TypeOK, Todo, NEW s \in Sessions, Held(s), Summary(s)
  PROVE  Held(s)'
<1>1. /\ pc' = pc /\ evidence' = evidence /\ todo' = todo
      /\ s \in overlapped => s \in overlapped'
      /\ pc # "off" /\ task'[s] = "summing" => s \in overlapped'
      /\ pc = "off" => s \notin DOMAIN evidence
  BY DEF Summary, Todo
<1>2. rows[s] \in Seq(Event) /\ log[s] \in Seq(Event) /\ Tables
  BY DEF TypeOK, Tables
<1>3. CASE SummaryBegins(s)
  <2>1. /\ rows'[s] = rows[s] /\ kept'[s] = kept[s] /\ task'[s] = "summing"
        /\ log'[s] = rows[s]
    BY <1>3 DEF SummaryBegins, TypeOK
  <2> QED
    BY <1>1, <2>1 DEF Held, Apart, TurnEvents
<1>4. CASE SummaryDropped(s)
  <2>1. rows'[s] = rows[s] /\ kept'[s] = kept[s] /\ task'[s] = "due"
    BY <1>4 DEF SummaryDropped, TypeOK
  <2> QED
    BY <1>1, <2>1 DEF Held, Apart
<1>5. CASE SummaryEnds(s)
  <2>1. PICK l \in Outcomes(log[s]) : Append_Ok(s, l) \/ Append_Fails(s, l)
    BY <1>5 DEF SummaryEnds
  <2>2. /\ l \in Seq(Event) /\ Prefix(log[s], l) /\ (Intact(log[s]) => Intact(l))
        /\ TurnEvents(EventsOf(l)) \subseteq TurnEvents(EventsOf(log[s]))
    BY <1>2, <2>1, OutcomesExtend
  <2>3. task[s] = "summing" /\ task'[s] = "idle"
    BY <1>5 DEF SummaryEnds, TypeOK
  <2>4. EventsOf(rows[s]) \subseteq EventsOf(rows'[s])
    BY <1>2, <2>1, <2>2, AppendGrows
  <2>5. TurnEvents(kept'[s]) \subseteq EventsOf(rows'[s])
    <3>1. kept'[s] \subseteq kept[s] \cup EventsOf(l)
      BY <1>2, <2>1, <2>2, AppendStep
    <3> QED
      BY <2>2, <2>3, <2>4, <3>1 DEF Held, TurnEvents
  <2>6. ASSUME s \notin overlapped
        PROVE  /\ Intact(rows'[s]) /\ kept'[s] \subseteq EventsOf(rows'[s])
               /\ s \notin DOMAIN evidence
    <3>1. log[s] = rows[s] /\ Intact(rows[s]) /\ kept[s] \subseteq EventsOf(rows[s])
          /\ pc = "off"
      BY <2>3, <2>6 DEF Held, Apart
    <3>2. Prefix(rows[s], l) /\ Intact(l)
      BY <2>2, <3>1
    <3>3. /\ rows'[s] \in Seq(Event) /\ Prefix(rows'[s], l)
          /\ kept'[s] \subseteq kept[s] \cup EventsOf(rows'[s])
      BY <1>2, <2>1, <2>2, <3>2, AppendStep DEF Tables
    <3>4. Intact(rows'[s])
      BY <2>2, <3>2, <3>3, IntactPrefix
    <3> QED
      BY <1>1, <2>4, <3>1, <3>3, <3>4
  <2> QED
    BY <1>1, <2>3, <2>4, <2>5, <2>6 DEF Held, Apart
<1> QED
  BY <1>3, <1>4, <1>5 DEF Summary

\* The pass's own append.
LEMMA GradesHeld ==
  ASSUME TypeOK, Todo, NEW s \in Sessions, Held(s), StoreGrades(s) \/ GradesFail(s)
  PROVE  Held(s)'
<1>1. /\ pc = "store" /\ s \in todo /\ s \in DOMAIN evidence /\ evidence[s] \in Seq(Event)
      /\ task' = task /\ log' = log /\ overlapped' = overlapped
      /\ Append_Ok(s, evidence[s]) \/ Append_Fails(s, evidence[s])
  BY DEF StoreGrades, GradesFail, Todo, TypeOK
<1>2. rows[s] \in Seq(Event) /\ Tables
  BY DEF TypeOK, Tables
<1>3. \/ pc' = pc /\ evidence' = evidence /\ Append_Ok(s, evidence[s])
      \/ pc' = "off" /\ DOMAIN evidence' = {}
  BY PassOverType DEF StoreGrades, GradesFail
<1>4. EventsOf(rows[s]) \subseteq EventsOf(rows'[s])
  BY <1>1, <1>2, AppendGrows
<1>5. TurnEvents(kept'[s]) \subseteq EventsOf(rows'[s])
  <2>1. kept'[s] \subseteq kept[s] \cup EventsOf(evidence[s])
    BY <1>1, <1>2, AppendStep
  <2> QED
    BY <1>1, <1>4, <2>1 DEF Held, TurnEvents
<1>6. task[s] # "turn" /\ (task[s] = "summing" => s \in overlapped)
  BY <1>1 DEF Held
<1>7. ASSUME s \notin overlapped
      PROVE  /\ Intact(rows'[s]) /\ kept'[s] \subseteq EventsOf(rows'[s])
             /\ Prefix(rows'[s], evidence[s])
             /\ Append_Ok(s, evidence[s]) => rows'[s] = evidence[s]
  <2>1. /\ Prefix(rows[s], evidence[s]) /\ Intact(evidence[s])
        /\ kept[s] \subseteq EventsOf(rows[s])
    BY <1>1, <1>7 DEF Held, Apart
  <2>2. /\ rows'[s] \in Seq(Event) /\ Prefix(rows'[s], evidence[s])
        /\ kept'[s] \subseteq kept[s] \cup EventsOf(rows'[s])
        /\ Append_Ok(s, evidence[s]) => rows'[s] = evidence[s]
    BY <1>1, <1>2, <2>1, AppendStep DEF Tables
  <2>3. Intact(rows'[s])
    BY <1>1, <2>1, <2>2, IntactPrefix
  <2> QED
    BY <1>4, <2>1, <2>2, <2>3
<1> QED
  BY <1>1, <1>3, <1>4, <1>5, <1>6, <1>7 DEF Held, Apart

AllHeld == \A s \in Sessions : Held(s)

LEMMA HeldStep == TypeOK /\ Todo /\ AllHeld /\ [Next]_vars => AllHeld'
<1> SUFFICES ASSUME TypeOK, Todo, AllHeld, [Next]_vars,
                    NEW u \in Sessions
             PROVE  Held(u)'
  BY DEF AllHeld
<1>0. Held(u)
  BY DEF AllHeld
<1>1. ASSUME NEW s \in Sessions, Turn(s) \/ TurnDone(s)
      PROVE  Held(u)'
  <2>1. CASE u = s
    BY <1>0, <1>1, <2>1, TurnHeld
  <2>2. CASE u # s
    <3>1. rows'[u] = rows[u] /\ kept'[u] = kept[u]
      <4>1. CASE TurnBegins(s)
        BY <4>1 DEF TurnBegins
      <4>2. PICK l : TurnBegins(s) \/ Append_Ok(s, l) \/ Append_Fails(s, l)
        BY <1>1 DEF Turn, TurnDone, Flush, TurnEnds, TurnFails
      <4> QED
        BY <2>2, <4>1, <4>2 DEF Append_Ok, Append_Fails, TypeOK
    <3>2. task'[u] = task[u] /\ log'[u] = log[u]
      BY <1>1, <2>2 DEF Turn, TurnDone, TurnBegins, Flush, TurnEnds, TurnFails, TypeOK
    <3>3. /\ pc' = pc /\ evidence' = evidence /\ todo' = todo
          /\ overlapped' = overlapped
      BY <1>1 DEF Turn, TurnDone, passVars
    <3> QED
      BY <1>0, <3>1, <3>2, <3>3, HeldElsewhere
  <2> QED
    BY <2>1, <2>2
<1>2. ASSUME NEW s \in Sessions, Summary(s)
      PROVE  Held(u)'
  <2>1. CASE u = s
    BY <1>0, <1>2, <2>1, SummaryHeld
  <2>2. CASE u # s
    <3>1. rows'[u] = rows[u] /\ kept'[u] = kept[u]
      BY <1>2, <2>2 DEF Summary, SummaryBegins, SummaryDropped, SummaryEnds, Append_Ok,
         Append_Fails, TypeOK
    <3>2. task'[u] = task[u] /\ log'[u] = log[u]
      BY <1>2, <2>2 DEF Summary, SummaryBegins, SummaryDropped, SummaryEnds, TypeOK
    <3>3. /\ pc' = pc /\ evidence' = evidence /\ todo' = todo
          /\ u \in overlapped' <=> u \in overlapped
      BY <1>2, <2>2 DEF Summary
    <3> QED
      BY <1>0, <3>1, <3>2, <3>3, HeldElsewhere
  <2> QED
    BY <2>1, <2>2
<1>3. CASE PassBegins
  <2>1. task[u] # "turn" /\ DOMAIN evidence' = {} /\ overlapped \subseteq overlapped'
        /\ (task[u] = "summing" => u \in overlapped')
    BY <1>3 DEF PassBegins, Quiet, NoEvidence
  <2> QED
    BY <1>0, <1>3, <2>1 DEF PassBegins, chainVars, Held, Apart
<1>4. CASE Loaded \/ Graded \/ GradesStored \/ PatchesDone \/ SaveRules
  <2>1. /\ UNCHANGED <<chainVars, evidence, todo, overlapped>>
        /\ pc # "off"
    BY <1>4 DEF Loaded, Graded, GradesStored, PatchesDone, SaveRules
  <2> QED
    BY <1>0, <2>1, HeldElsewhere DEF chainVars
<1>5. CASE SaveLedger \/ PassFails
  <2>1. UNCHANGED <<chainVars, overlapped>> /\ pc' = "off" /\ DOMAIN evidence' = {}
    BY <1>5, PassOverType DEF SaveLedger, PassFails
  <2> QED
    BY <1>0, <2>1, HeldElsewhere DEF chainVars
<1>6. ASSUME NEW s \in Sessions, Load(s)
      PROVE  Held(u)'
  <2>1. /\ UNCHANGED <<chainVars, overlapped>> /\ pc = "load" /\ pc' = "load"
        /\ s \in todo /\ todo' = todo \ {s} /\ s \notin DOMAIN evidence
    BY <1>6 DEF Load, Todo
  <2>2. CASE u = s
    <3>1. u \in DOMAIN evidence' => evidence'[u] = rows[u] /\ Intact(rows[u])
      BY <1>6, <2>1, <2>2 DEF Load, Taken
    <3>2. Prefix(rows[u], rows[u])
      BY PrefixRefl DEF TypeOK
    <3> QED
      BY <1>0, <2>1, <3>1, <3>2 DEF Held, Apart, chainVars, TurnEvents
  <2>3. CASE u # s
    <3>1. u \in DOMAIN evidence' => u \in DOMAIN evidence /\ evidence'[u] = evidence[u]
      BY <1>6, <2>3 DEF Load, Taken
    <3> QED
      BY <1>0, <2>1, <2>3, <3>1, HeldElsewhere DEF chainVars
  <2> QED
    BY <2>2, <2>3
<1>7. ASSUME NEW s \in DOMAIN evidence, NEW t \in Answered(evidence[s]), NEW ev \in Evaluators,
             Grade(s, t, ev)
      PROVE  Held(u)'
  <2>1. /\ UNCHANGED <<chainVars, overlapped>> /\ pc' = pc /\ todo' = todo \cup {s}
        /\ DOMAIN evidence' = DOMAIN evidence
    BY <1>7 DEF Grade
  <2>2. CASE u = s
    <3>1. PICK x : x = Extend(evidence[s], [turn |-> t, kind |-> ev])
      OBVIOUS
    <3>2. evidence[s] \in Seq(Event) /\ rows[s] \in Seq(Event)
      BY <2>2 DEF TypeOK
    <3>3. /\ Prefix(rows[s], evidence[s]) => Prefix(rows[s], x)
          /\ Intact(evidence[s]) => Intact(x)
          /\ TurnEvents(EventsOf(x)) \subseteq TurnEvents(EventsOf(evidence[s]))
      BY <3>1, <3>2, GradeExtends
    <3>4. evidence'[u] = x
      BY <1>7, <2>2, <3>1 DEF Grade
    <3> QED
      BY <1>0, <2>1, <2>2, <3>3, <3>4 DEF Held, Apart, chainVars
  <2>3. CASE u # s
    <3>1. u \in DOMAIN evidence => evidence'[u] = evidence[u]
      BY <1>7, <2>3 DEF Grade
    <3> QED
      BY <1>0, <2>1, <2>3, <3>1, HeldElsewhere DEF chainVars
  <2> QED
    BY <2>2, <2>3
<1>8. ASSUME NEW s \in Sessions, StoreGrades(s) \/ GradesFail(s)
      PROVE  Held(u)'
  <2>1. CASE u = s
    BY <1>0, <1>8, <2>1, GradesHeld
  <2>2. CASE u # s
    <3>1. rows'[u] = rows[u] /\ kept'[u] = kept[u]
      BY <1>8, <2>2 DEF StoreGrades, GradesFail, Append_Ok, Append_Fails, TypeOK
    <3>2. /\ UNCHANGED <<task, log, overlapped>> /\ (pc' # "off" => pc # "off")
          /\ (u \in DOMAIN evidence' => u \in DOMAIN evidence /\ evidence'[u] = evidence[u]
                                        /\ (u \notin todo' => u \notin todo))
      BY <1>8, <2>2, PassOverType DEF StoreGrades, GradesFail
    <3> QED
      BY <1>0, <3>1, <3>2, HeldElsewhere
  <2> QED
    BY <2>1, <2>2
<1>9. ASSUME NEW c \in Candidates, TryPatch(c) \/ TryNote(c)
      PROVE  Held(u)'
  <2>1. UNCHANGED <<chainVars, pc, evidence, todo, overlapped>>
    BY <1>9 DEF TryPatch, TryNote
  <2> QED
    BY <1>0, <2>1, HeldElsewhere DEF chainVars
<1>10. CASE Crash
  <2>1. /\ UNCHANGED <<rows, kept, overlapped>> /\ pc' = "off" /\ DOMAIN evidence' = {}
        /\ task'[u] = "idle"
    BY <1>10, PassOverType DEF Crash, TasksLost
  <2> QED
    BY <1>0, <2>1 DEF Held, Apart
<1>11. CASE UNCHANGED vars
  BY <1>0, <1>11, HeldElsewhere DEF vars, chainVars, passVars
<1> QED
  BY <1>1, <1>2, <1>3, <1>4, <1>5, <1>6, <1>7, <1>8, <1>9, <1>10, <1>11
     DEF Next, SessionStep, PassStep, Candidates

LEMMA HeldInit == Init => AllHeld
<1> SUFFICES ASSUME Init, NEW s \in Sessions
             PROVE  Held(s)
  BY DEF AllHeld
<1>1. rows[s] = <<>> /\ kept[s] = {} /\ task[s] = "idle" /\ pc = "off" /\ DOMAIN evidence = {}
  BY DEF Init, ChainInit, NoEvidence
<1>2. Intact(<<>>)
  BY DEF Intact
<1> QED
  BY <1>1, <1>2 DEF Held, Apart, TurnEvents

LEMMA ChainInvariant == Spec => [](TypeOK /\ Todo /\ AllHeld)
<1>1. Init => TypeOK /\ Todo /\ AllHeld
  BY TypeInit, HeldInit DEF Init, Todo, NoEvidence
<1>2. TypeOK /\ Todo /\ AllHeld /\ [Next]_vars => (TypeOK /\ Todo /\ AllHeld)'
  BY TypeStep, TodoStep, HeldStep
<1> QED
  BY <1>1, <1>2, PTL DEF Spec

\* The log of a session whose summary never met a pass is a chain.
THEOREM ChainsHoldApart == Spec => []ChainHoldsApart
<1>1. TypeOK /\ Todo /\ AllHeld => ChainHoldsApart
  BY DEF AllHeld, Held, Apart, ChainHoldsApart
<1> QED
  BY <1>1, ChainInvariant, PTL

\* Such a session loses nothing that an append said was stored.
THEOREM NothingIsLostApart == Spec => []NothingLostApart
<1>1. TypeOK /\ Todo /\ AllHeld => NothingLostApart
  BY DEF AllHeld, Held, Apart, NothingLostApart
<1> QED
  BY <1>1, ChainInvariant, PTL

\* No session loses an event of a turn that was said to be stored.
THEOREM TurnsKept == Spec => []TurnsAreKept
<1>1. TypeOK /\ Todo /\ AllHeld => TurnsAreKept
  BY DEF AllHeld, Held, TurnEvents, TurnsAreKept
<1> QED
  BY <1>1, ChainInvariant, PTL

\* What the pass judges candidates by is what the store holds.
THEOREM EvidenceCurrent == Spec => []EvidenceIsCurrent
<1>1. TypeOK /\ Todo /\ AllHeld => EvidenceIsCurrent
  BY DEF AllHeld, Held, Apart, Todo, TypeOK, EvidenceIsCurrent
<1> QED
  BY <1>1, ChainInvariant, PTL

-----------------------------------------------------------------------------
(* The grades.                                                             *)

IsGrade(e) == e.what.kind \in Evaluators

\* A log in which no grade is repeated; a log with no grade beyond the rows there
\* are; a log that has the grades of the rows where the rows have them.
Once(l) == \A i, j \in DOMAIN l : l[i].what = l[j].what /\ IsGrade(l[i]) => i = j
Behind(l, r) == \A i \in DOMAIN l : IsGrade(l[i]) => i <= Len(r)
HasGradesOf(l, r) == \A i \in DOMAIN r : IsGrade(r[i]) => i \in DOMAIN l /\ l[i].what = r[i].what

\* Turns and summaries write no grade, and what they have to write is beyond every
\* grade they know.  The pass has every grade of the store at its place: the rest of
\* its log repeats none, whatever a summary has put between.
GradesOf(s) ==
  /\ Once(rows[s])
  /\ task[s] \in {"turn", "summing"} => Behind(log[s], rows[s])
  /\ s \in DOMAIN evidence => Once(evidence[s]) /\ HasGradesOf(evidence[s], rows[s])

LEMMA StoredOnce ==
  ASSUME NEW r \in Seq(Event), NEW l \in Seq(Event), NEW n \in 0 .. Missing(r, l), Once(r)
  PROVE  /\ Len(r) <= Len(Stored(r, l, n))
         /\ Behind(l, r) => /\ Once(Stored(r, l, n))
                            /\ \A e : HasGradesOf(e, r) => HasGradesOf(e, Stored(r, l, n))
         /\ Once(l) /\ HasGradesOf(l, r) => /\ Once(Stored(r, l, n))
                                            /\ HasGradesOf(l, Stored(r, l, n))
<1>1. PICK x : x = Stored(r, l, n)
  OBVIOUS
<1>2. n \in Nat /\ (n > 0 => Len(r) + n <= Len(l)) /\ Len(r) \in Nat /\ Len(l) \in Nat
  BY DEF Missing
<1>3. /\ DOMAIN x = 1 .. (Len(r) + n) /\ DOMAIN r = 1 .. Len(r) /\ DOMAIN l = 1 .. Len(l)
      /\ Len(x) = Len(r) + n
      /\ \A i \in 1 .. Len(r) : x[i] = r[i]
      /\ \A i \in (Len(r) + 1) .. (Len(r) + n) : i \in DOMAIN l /\ x[i] = l[i]
  <2>1. x \in Seq(Event) /\ Len(x) = Len(r) + n
    BY <1>1, StoredType
  <2>2. /\ \A i \in 1 .. Len(r) : x[i] = r[i]
        /\ \A i \in (Len(r) + 1) .. (Len(r) + n) : x[i] = l[i]
    BY <1>1, StoredType
  <2> QED
    BY <1>2, <2>1, <2>2
<1>4. ASSUME Behind(l, r)
      PROVE  Once(x) /\ \A e : HasGradesOf(e, r) => HasGradesOf(e, x)
  <2>1. \A i \in DOMAIN x : IsGrade(x[i]) => i \in DOMAIN r /\ x[i] = r[i]
    <3>1. ASSUME NEW i \in DOMAIN x, IsGrade(x[i]), i > Len(r)
          PROVE  FALSE
      <4>1. i \in DOMAIN l /\ x[i] = l[i]
        BY <1>2, <1>3, <3>1
      <4> QED
        BY <1>2, <1>3, <1>4, <3>1, <4>1 DEF Behind
    <3> QED
      BY <1>2, <1>3, <3>1
  <2>2. ASSUME NEW i \in DOMAIN x, NEW j \in DOMAIN x, x[i].what = x[j].what, IsGrade(x[i])
        PROVE  i = j
    <3>1. IsGrade(x[j])
      BY <2>2 DEF IsGrade
    <3> QED
      BY <2>1, <2>2, <3>1 DEF Once
  <2>3. Once(x)
    BY <2>2 DEF Once
  <2>4. \A e : HasGradesOf(e, r) => HasGradesOf(e, x)
    BY <2>1 DEF HasGradesOf
  <2> QED
    BY <2>3, <2>4
<1>5. ASSUME Once(l), HasGradesOf(l, r)
      PROVE  Once(x) /\ HasGradesOf(l, x)
  <2>1. \A i \in DOMAIN x : IsGrade(x[i]) => i \in DOMAIN l /\ l[i].what = x[i].what /\ IsGrade(l[i])
    <3>1. ASSUME NEW i \in DOMAIN x, IsGrade(x[i])
          PROVE  i \in DOMAIN l /\ l[i].what = x[i].what
      <4>1. CASE i <= Len(r)
        <5>1. i \in DOMAIN r /\ x[i] = r[i]
          BY <1>2, <1>3, <4>1
        <5> QED
          BY <1>5, <3>1, <5>1 DEF HasGradesOf
      <4>2. CASE i > Len(r)
        BY <1>2, <1>3, <4>2
      <4> QED
        BY <1>2, <1>3, <4>1, <4>2
    <3> QED
      BY <3>1 DEF IsGrade
  <2>2. ASSUME NEW i \in DOMAIN x, NEW j \in DOMAIN x, x[i].what = x[j].what, IsGrade(x[i])
        PROVE  i = j
    <3>1. IsGrade(x[j])
      BY <2>2 DEF IsGrade
    <3> QED
      BY <1>5, <2>1, <2>2, <3>1 DEF Once
  <2>3. Once(x)
    BY <2>2 DEF Once
  <2>4. HasGradesOf(l, x)
    BY <2>1 DEF HasGradesOf
  <2> QED
    BY <2>3, <2>4
<1> QED
  BY <1>1, <1>2, <1>3, <1>4, <1>5

\* What is not a grade, recorded; and a grade the log does not have.
LEMMA ExtendGrades ==
  ASSUME NEW l \in Seq(Event), NEW w \in What
  PROVE  /\ \A r : Behind(l, r) /\ w.kind \notin Evaluators => Behind(Extend(l, w), r)
         /\ \A r : HasGradesOf(l, r) => HasGradesOf(Extend(l, w), r)
         /\ Once(l) /\ w \notin {e.what : e \in EventsOf(l)} => Once(Extend(l, w))
<1>1. PICK x : x = Extend(l, w)
  OBVIOUS
<1>2. /\ DOMAIN x = 1 .. (Len(l) + 1) /\ DOMAIN l = 1 .. Len(l) /\ Len(l) \in Nat
      /\ \A i \in 1 .. Len(l) : x[i] = l[i]
      /\ x[Len(l) + 1].what = w
  <2>1. x \in Seq(Event) /\ Len(x) = Len(l) + 1
    BY <1>1, ExtendType
  <2>2. /\ \A i \in 1 .. Len(l) : x[i] = l[i]
        /\ x[Len(l) + 1] = [what |-> w, prev |-> LinkAt(l, Len(l) + 1)]
    BY <1>1, ExtendType
  <2> QED
    BY <2>1, <2>2
<1>3. \A i \in DOMAIN x :
        (i \in DOMAIN l /\ x[i] = l[i]) \/ (i = Len(l) + 1 /\ x[i].what = w)
  BY <1>2
<1>4. ASSUME NEW r, Behind(l, r), w.kind \notin Evaluators
      PROVE  Behind(x, r)
  BY <1>3, <1>4 DEF Behind, IsGrade
<1>5. ASSUME NEW r, HasGradesOf(l, r)
      PROVE  HasGradesOf(x, r)
  <2>1. \A i \in DOMAIN l : i \in DOMAIN x /\ x[i] = l[i]
    BY <1>2
  <2> QED
    BY <1>5, <2>1 DEF HasGradesOf
<1>6. ASSUME Once(l), w \notin {e.what : e \in EventsOf(l)}
      PROVE  Once(x)
  <2>1. \A i \in DOMAIN l : l[i].what # w
    BY <1>6 DEF EventsOf
  <2> QED
    BY <1>3, <1>6, <2>1 DEF Once, IsGrade
<1> QED
  BY <1>1, <1>4, <1>5, <1>6

\* What an append writes, whatever comes of it.
LEMMA AppendedRows ==
  ASSUME Tables, NEW s \in Sessions, NEW l \in Seq(Event), Append_Ok(s, l) \/ Append_Fails(s, l)
  PROVE  \E n \in 0 .. Missing(rows[s], l) : rows'[s] = Stored(rows[s], l, n)
<1>1. rows[s] \in Seq(Event) /\ Missing(rows[s], l) \in Nat
  BY DEF Tables, Missing
<1>2. CASE Append_Ok(s, l)
  <2>1. rows'[s] = Stored(rows[s], l, Missing(rows[s], l))
    BY <1>2 DEF Append_Ok, Tables
  <2> QED
    BY <1>1, <2>1
<1>3. CASE Append_Fails(s, l)
  <2>1. PICK n \in 0 .. (Missing(rows[s], l) - 1) : rows' = [rows EXCEPT ![s] = Stored(rows[s], l, n)]
    BY <1>3 DEF Append_Fails
  <2>2. n \in 0 .. Missing(rows[s], l) /\ rows'[s] = Stored(rows[s], l, n)
    BY <1>1, <2>1 DEF Tables
  <2> QED
    BY <2>2
<1> QED
  BY <1>2, <1>3

\* An append by a turn or a summary, and one by the pass.
LEMMA AppendGrades ==
  ASSUME Tables, NEW s \in Sessions, NEW l \in Seq(Event), Append_Ok(s, l) \/ Append_Fails(s, l),
         Once(rows[s])
  PROVE  /\ Len(rows[s]) <= Len(rows'[s])
         /\ Behind(l, rows[s]) => /\ Once(rows'[s])
                                  /\ \A e : HasGradesOf(e, rows[s]) => HasGradesOf(e, rows'[s])
         /\ Once(l) /\ HasGradesOf(l, rows[s]) => Once(rows'[s]) /\ HasGradesOf(l, rows'[s])
<1>1. rows[s] \in Seq(Event)
  BY DEF Tables
<1>2. PICK n \in 0 .. Missing(rows[s], l) : rows'[s] = Stored(rows[s], l, n)
  BY AppendedRows
<1> QED
  BY <1>1, <1>2, StoredOnce

\* The rows only grow, and a log that was behind them stays so.
LEMMA BehindStays ==
  ASSUME NEW a \in Seq(Event), NEW b \in Seq(Event), NEW l \in Seq(Event),
         Len(a) <= Len(b), Behind(l, a)
  PROVE  Behind(l, b)
<1>1. Len(a) \in Nat /\ Len(b) \in Nat /\ DOMAIN l \subseteq Nat
  OBVIOUS
<1> QED
  BY <1>1 DEF Behind

LEMMA BehindItself ==
  ASSUME NEW a \in Seq(Event)
  PROVE  Behind(a, a) /\ HasGradesOf(a, a)
BY DEF Behind, HasGradesOf

LEMMA OutcomesBehind ==
  ASSUME NEW l \in Seq(Event), NEW x \in Outcomes(l), NEW r, Behind(l, r)
  PROVE  Behind(x, r)
<1> DEFINE cost == [turn |-> TurnOf(l), kind |-> "cost"]
           summary == [turn |-> TurnOf(l), kind |-> "summary"]
<1>1. /\ cost \in What /\ summary \in What
      /\ cost.kind \notin Evaluators /\ summary.kind \notin Evaluators
  BY TurnOfType, EvaluatorsAssumption DEF What, Kinds
<1>2. x = l \/ x = Extend(l, cost) \/ x = Extend(Extend(l, cost), summary)
  BY DEF Outcomes
<1> HIDE DEF cost, summary
<1>3. Extend(l, cost) \in Seq(Event) /\ Behind(Extend(l, cost), r)
  BY <1>1, ExtendType, ExtendGrades
<1>4. Behind(Extend(Extend(l, cost), summary), r)
  <2>1. PICK y \in Seq(Event) : y = Extend(l, cost) /\ Behind(y, r)
    BY <1>3
  <2> QED
    BY <1>1, <2>1, ExtendGrades
<1> QED
  BY <1>2, <1>3, <1>4

LEMMA RepliedBehind ==
  ASSUME NEW s \in Sessions, log[s] \in Seq(Event), NEW r, Behind(log[s], r)
  PROVE  Behind(Replied(s), r)
<1> DEFINE w == [turn |-> TurnOf(log[s]), kind |-> "replied"]
<1>1. w \in What /\ w.kind \notin Evaluators /\ Replied(s) = Extend(log[s], w)
  BY TurnOfType, EvaluatorsAssumption DEF What, Kinds, Replied
<1> HIDE DEF w
<1> QED
  BY <1>1, ExtendGrades

\* A session that a step leaves alone.
LEMMA GradesElsewhere ==
  ASSUME NEW u \in Sessions, GradesOf(u),
         rows'[u] = rows[u], task'[u] \in {"turn", "summing"} => task[u] = task'[u] /\ log'[u] = log[u],
         u \in DOMAIN evidence' => u \in DOMAIN evidence /\ evidence'[u] = evidence[u]
  PROVE  GradesOf(u)'
BY DEF GradesOf

\* A turn and a summary write none.
LEMMA TaskGrades ==
  ASSUME TypeOK, NEW s \in Sessions, GradesOf(s), Turn(s) \/ TurnDone(s) \/ Summary(s)
  PROVE  GradesOf(s)'
<1>1. rows[s] \in Seq(Event) /\ log[s] \in Seq(Event) /\ Tables /\ evidence' = evidence
  BY DEF TypeOK, Tables, Turn, TurnDone, Summary, passVars
<1>2. ASSUME NEW l \in Seq(Event), Append_Ok(s, l) \/ Append_Fails(s, l), Behind(l, rows[s]),
             task'[s] \in {"turn", "summing"} => log'[s] = l
      PROVE  GradesOf(s)'
  <2>1. /\ Len(rows[s]) <= Len(rows'[s]) /\ Once(rows'[s])
        /\ \A e : HasGradesOf(e, rows[s]) => HasGradesOf(e, rows'[s])
    BY <1>1, <1>2, AppendGrades DEF GradesOf
  <2>2. rows'[s] \in Seq(Event)
    BY <1>1, <1>2, AppendStep DEF Tables
  <2>3. Behind(l, rows'[s])
    BY <1>1, <1>2, <2>1, <2>2, BehindStays
  <2> QED
    BY <1>1, <1>2, <2>1, <2>3 DEF GradesOf
<1>3. CASE TurnBegins(s)
  <2> DEFINE w == [turn |-> TurnOf(rows[s]) + 1, kind |-> "said"]
  <2>1. w \in What /\ w.kind \notin Evaluators
    BY <1>1, TurnOfType, EvaluatorsAssumption DEF What, Kinds
  <2>2. rows'[s] = rows[s] /\ log'[s] = Extend(rows[s], w)
    BY <1>3 DEF TurnBegins, TypeOK
  <2> HIDE DEF w
  <2>3. Behind(log'[s], rows[s])
    BY <1>1, <2>1, <2>2, BehindItself, ExtendGrades
  <2> QED
    BY <1>1, <2>2, <2>3 DEF GradesOf
<1>4. CASE Flush(s)
  <2>1. task[s] = "turn" /\ log' = log /\ (Append_Ok(s, log[s]) \/ Append_Fails(s, log[s]))
    BY <1>4 DEF Flush
  <2> QED
    BY <1>1, <1>2, <2>1 DEF GradesOf
<1>5. CASE TurnEnds(s) \/ TurnFails(s)
  <2>1. /\ task[s] = "turn" /\ task'[s] \in {"due", "idle"}
        /\ Append_Ok(s, Replied(s)) \/ Append_Fails(s, Replied(s))
    BY <1>5 DEF TurnEnds, TurnFails, TypeOK
  <2>2. Replied(s) \in Seq(Event) /\ Behind(Replied(s), rows[s])
    BY <1>1, <2>1, RepliedExtends, RepliedBehind DEF GradesOf
  <2> QED
    BY <1>2, <2>1, <2>2
<1>6. CASE SummaryBegins(s)
  <2>1. rows'[s] = rows[s] /\ log'[s] = rows[s]
    BY <1>6 DEF SummaryBegins, TypeOK
  <2> QED
    BY <1>1, <2>1, BehindItself DEF GradesOf
<1>7. CASE SummaryDropped(s)
  <2>1. rows'[s] = rows[s] /\ task'[s] = "due"
    BY <1>7 DEF SummaryDropped, TypeOK
  <2> QED
    BY <1>1, <2>1 DEF GradesOf
<1>8. CASE SummaryEnds(s)
  <2>1. PICK l \in Outcomes(log[s]) : Append_Ok(s, l) \/ Append_Fails(s, l)
    BY <1>8 DEF SummaryEnds
  <2>2. task[s] = "summing" /\ task'[s] = "idle"
    BY <1>8 DEF SummaryEnds, TypeOK
  <2>3. l \in Seq(Event) /\ Behind(l, rows[s])
    BY <1>1, <2>1, <2>2, OutcomesExtend, OutcomesBehind DEF GradesOf
  <2> QED
    BY <1>2, <2>1, <2>2, <2>3
<1> QED
  BY <1>3, <1>4, <1>5, <1>6, <1>7, <1>8 DEF Turn, TurnDone, Summary

\* The pass writes each once: a grade it records is in neither its log nor the rows.
LEMMA GradeOnce ==
  ASSUME TypeOK, NEW s \in DOMAIN evidence, NEW t \in Answered(evidence[s]), NEW ev \in Evaluators,
         Grade(s, t, ev), GradesOf(s), s \in Sessions
  PROVE  GradesOf(s)'
<1> DEFINE w == [turn |-> t, kind |-> ev]
<1>1. evidence[s] \in Seq(Event)
  BY DEF TypeOK
<1>2. /\ UNCHANGED chainVars /\ evidence'[s] = Extend(evidence[s], w)
      /\ w \notin {e.what : e \in EventsOf(evidence[s])}
  BY DEF Grade, MayGrade, GradedBy
<1>3. w \in What
  <2>1. PICK i \in DOMAIN evidence[s] : t = evidence[s][i].what.turn
    BY DEF Answered, EventsOf
  <2>2. evidence[s][i] \in Event
    BY <1>1, <2>1
  <2> QED
    BY <2>1, <2>2 DEF Event, What, Kinds
<1> HIDE DEF w
<1>4. Once(evidence'[s]) /\ HasGradesOf(evidence'[s], rows[s])
  BY <1>1, <1>2, <1>3, ExtendGrades DEF GradesOf
<1> QED
  BY <1>2, <1>4 DEF GradesOf, chainVars

LEMMA PassGrades ==
  ASSUME TypeOK, Todo, NEW s \in Sessions, GradesOf(s), StoreGrades(s) \/ GradesFail(s)
  PROVE  GradesOf(s)'
<1>1. /\ s \in DOMAIN evidence /\ evidence[s] \in Seq(Event)
      /\ task' = task /\ log' = log
      /\ Append_Ok(s, evidence[s]) \/ Append_Fails(s, evidence[s])
  BY DEF StoreGrades, GradesFail, Todo, TypeOK
<1>2. rows[s] \in Seq(Event) /\ log[s] \in Seq(Event) /\ Tables
  BY DEF TypeOK, Tables
<1>3. evidence' = evidence \/ DOMAIN evidence' = {}
  BY PassOverType DEF StoreGrades, GradesFail
<1>4. /\ Len(rows[s]) <= Len(rows'[s]) /\ Once(rows'[s]) /\ HasGradesOf(evidence[s], rows'[s])
  BY <1>1, <1>2, AppendGrades DEF GradesOf
<1>5. rows'[s] \in Seq(Event)
  BY <1>1, <1>2, AppendStep DEF Tables
<1>6. task'[s] \in {"turn", "summing"} => Behind(log'[s], rows'[s])
  BY <1>1, <1>2, <1>4, <1>5, BehindStays DEF GradesOf
<1> QED
  BY <1>1, <1>3, <1>4, <1>6 DEF GradesOf

AllGrades == \A s \in Sessions : GradesOf(s)

LEMMA GradesStep == TypeOK /\ Todo /\ AllGrades /\ [Next]_vars => AllGrades'
<1> SUFFICES ASSUME TypeOK, Todo, AllGrades, [Next]_vars, NEW u \in Sessions
             PROVE  GradesOf(u)'
  BY DEF AllGrades
<1>0. GradesOf(u)
  BY DEF AllGrades
<1>1. ASSUME NEW s \in Sessions, Turn(s) \/ TurnDone(s) \/ Summary(s)
      PROVE  GradesOf(u)'
  <2>1. CASE u = s
    BY <1>0, <1>1, <2>1, TaskGrades
  <2>2. CASE u # s
    <3>1. rows'[u] = rows[u]
      BY <1>1, <2>2 DEF Turn, TurnDone, Summary, TurnBegins, Flush, TurnEnds, TurnFails, SummaryBegins,
         SummaryDropped, SummaryEnds, Append_Ok, Append_Fails, TypeOK
    <3>2. task'[u] = task[u] /\ log'[u] = log[u]
      BY <1>1, <2>2 DEF Turn, TurnDone, Summary, TurnBegins, Flush, TurnEnds, TurnFails, SummaryBegins,
         SummaryDropped, SummaryEnds, TypeOK
    <3>3. evidence' = evidence
      BY <1>1 DEF Turn, TurnDone, Summary, passVars
    <3> QED
      BY <1>0, <3>1, <3>2, <3>3, GradesElsewhere
  <2> QED
    BY <2>1, <2>2
<1>2. CASE \/ PassBegins \/ Loaded \/ Graded \/ GradesStored \/ PatchesDone \/ SaveRules
           \/ SaveLedger \/ PassFails \/ UNCHANGED vars
  <2>1. UNCHANGED chainVars
    BY <1>2 DEF PassBegins, Loaded, Graded, GradesStored, PatchesDone, SaveRules, SaveLedger,
       PassFails, vars
  <2>2. evidence' = evidence \/ DOMAIN evidence' = {}
    BY <1>2, PassOverType DEF PassBegins, Loaded, Graded, GradesStored, PatchesDone, SaveRules,
       SaveLedger, PassFails, NoEvidence, vars, passVars
  <2> QED
    BY <1>0, <2>1, <2>2, GradesElsewhere DEF chainVars
<1>3. ASSUME NEW s \in Sessions, Load(s)
      PROVE  GradesOf(u)'
  <2>1. UNCHANGED chainVars /\ rows[s] \in Seq(Event)
    BY <1>3 DEF Load, TypeOK
  <2>2. CASE u \in DOMAIN evidence' /\ evidence'[u] = rows[u]
    <3>1. rows[u] \in Seq(Event)
      BY DEF TypeOK
    <3> QED
      BY <1>0, <2>1, <2>2, <3>1, BehindItself DEF GradesOf, chainVars
  <2>3. CASE u \in DOMAIN evidence' => u \in DOMAIN evidence /\ evidence'[u] = evidence[u]
    BY <1>0, <2>1, <2>3, GradesElsewhere DEF chainVars
  <2> QED
    BY <1>3, <2>2, <2>3 DEF Load, Taken
<1>4. ASSUME NEW s \in DOMAIN evidence, NEW t \in Answered(evidence[s]), NEW ev \in Evaluators,
             Grade(s, t, ev)
      PROVE  GradesOf(u)'
  <2>1. CASE u = s
    BY <1>0, <1>4, <2>1, GradeOnce
  <2>2. CASE u # s
    <3>1. UNCHANGED chainVars /\ DOMAIN evidence' = DOMAIN evidence
          /\ (u \in DOMAIN evidence => evidence'[u] = evidence[u])
      BY <1>4, <2>2 DEF Grade
    <3> QED
      BY <1>0, <3>1, GradesElsewhere DEF chainVars
  <2> QED
    BY <2>1, <2>2
<1>5. ASSUME NEW s \in Sessions, StoreGrades(s) \/ GradesFail(s)
      PROVE  GradesOf(u)'
  <2>1. CASE u = s
    BY <1>0, <1>5, <2>1, PassGrades
  <2>2. CASE u # s
    <3>1. rows'[u] = rows[u] /\ task' = task /\ log' = log
      BY <1>5, <2>2 DEF StoreGrades, GradesFail, Append_Ok, Append_Fails, TypeOK
    <3>2. evidence' = evidence \/ DOMAIN evidence' = {}
      BY <1>5, PassOverType DEF StoreGrades, GradesFail
    <3> QED
      BY <1>0, <3>1, <3>2, GradesElsewhere
  <2> QED
    BY <2>1, <2>2
<1>6. ASSUME NEW c \in Candidates, TryPatch(c) \/ TryNote(c)
      PROVE  GradesOf(u)'
  <2>1. UNCHANGED <<chainVars, evidence>>
    BY <1>6 DEF TryPatch, TryNote
  <2> QED
    BY <1>0, <2>1, GradesElsewhere DEF chainVars
<1>7. CASE Crash
  <2>1. rows' = rows /\ task'[u] = "idle" /\ DOMAIN evidence' = {}
    BY <1>7, PassOverType DEF Crash, TasksLost
  <2> QED
    BY <1>0, <2>1, GradesElsewhere
<1> QED
  BY <1>1, <1>2, <1>3, <1>4, <1>5, <1>6, <1>7 DEF Next, SessionStep, PassStep, Candidates

\* No evaluator grades a turn twice: not when a pass fails with some of its grades
\* stored, not when summaries are appended between its reading and its writing.
THEOREM GradesAreOnce == Spec => []GradedOnce
<1>1. Init => TypeOK /\ Todo /\ AllGrades
  <2>1. Init => AllGrades
    BY DEF Init, ChainInit, NoEvidence, AllGrades, GradesOf, Once
  <2> QED
    BY <2>1, TypeInit DEF Init, Todo, NoEvidence
<1>2. TypeOK /\ Todo /\ AllGrades /\ [Next]_vars => (TypeOK /\ Todo /\ AllGrades)'
  BY TypeStep, TodoStep, GradesStep
<1>3. AllGrades => GradedOnce
  BY DEF AllGrades, GradesOf, Once, IsGrade, GradedOnce
<1> QED
  BY <1>1, <1>2, <1>3, PTL DEF Spec
=============================================================================
