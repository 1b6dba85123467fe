------------------------------ MODULE FactStore ------------------------------
(***************************************************************************)
(* The facts of crates/memory-sqlite/src/lib.rs and their vectors; what a  *)
(* turn does to them (remember_fact, forget_fact, forget_all and the       *)
(* recall of engine/turn); and what the evolution pass does to them (the   *)
(* backfill, and crates/evolution/src/consolidate.rs).                     *)
(*                                                                         *)
(* Under serve a session is a scope of its own and has one turn at a time, *)
(* and a pass runs beside no turn, so an operation of a turn is one step,  *)
(* cut short where the code can be.  A fact is versioned by scope, key and *)
(* the time it is valid from; a row also has SQLite's rowid, one above the *)
(* highest in the table, and a vector is kept by rowid.                    *)
(***************************************************************************)
EXTENDS Integers, FiniteSets

CONSTANTS Scopes,   \* the scopes of one database
          Keys,     \* spellings of keys
          Stem,     \* what squash makes of a spelling
          Values,   \* what a fact may say
          MaxRows,  \* rowids in use at most, a bound of the model
          MaxTime,  \* milliseconds, a bound of the model
          MaxFaults,\* reads and writes that fail, a bound of the model
          NoRow     \* a rowid that no fact has

ASSUME StemAssumption == DOMAIN Stem = Keys
ASSUME MaxRowsAssumption == MaxRows \in Nat
ASSUME MaxTimeAssumption == MaxTime \in Nat
ASSUME MaxFaultsAssumption == MaxFaults \in Nat

Ids == 1 .. MaxRows
LiveStates == {"current", "cold"}
States == LiveStates \cup {"superseded", "forgotten"}

\* doubtful: from an external source, and not confirmed.
Row == [scope : Scopes, key : Keys, from : Nat, state : States, value : Values,
        doubtful : BOOLEAN]
ASSUME NoRowAssumption == NoRow \notin Row

\* What a vector was made of, and whose it is.
Text == [owner : Scopes, key : Keys, value : Values]
TextOf(f) == [owner |-> f.scope, key |-> f.key, value |-> f.value]

VARIABLES facts,    \* the facts table, by rowid
          vecs,     \* the embeddings of facts, by rowid: one at most
          now,      \* the clock
          pc,       \* where the pass is; "off" when none runs
          todo,     \* the scopes it has yet to do
          live,     \* what it read of the scope it is doing, by rowid
          blind,    \* history: keys remembered when the facts could not be read
          reopened, \* history: keys of which a version that had ended was put in place
          halved,   \* history: keys whose old version ended and whose new one was not stored
          reused    \* history: rowids of purged facts

tables == <<facts, vecs>>
pass == <<pc, todo, live>>
history == <<blind, reopened, halved, reused>>
vars == <<tables, now, pass, history>>

\* Faults that have left a trace; the others are not counted.
Faults == Cardinality(blind) + Cardinality(halved)

Held(i) == facts[i] # NoRow
Live(f) == f # NoRow /\ f.state \in LiveStates
LiveIn(s) == {i \in Ids : Live(facts[i]) /\ facts[i].scope = s}
Same(f, g) == f.scope = g.scope /\ f.key = g.key
KeyOf(f) == <<f.scope, f.key>>
Alike(f, g) == f.scope = g.scope /\ Stem[f.key] = Stem[g.key]

\* The row f would be written to in place: the version it names.
Version(i, f) == Held(i) /\ Same(facts[i], f) /\ facts[i].from = f.from
NextRowid(i) == \A j \in Ids : /\ Held(j) => j < i
                               /\ j = i - 1 => Held(j)

Init == /\ facts = [i \in Ids |-> NoRow]
        /\ vecs = [i \in Ids |-> {}]
        /\ now = 0
        /\ pc = "off" /\ todo = {}
        /\ live = [i \in {} |-> NoRow]
        /\ blind = {} /\ reopened = {}
        /\ halved = {}
        /\ reused = {}

-----------------------------------------------------------------------------
(* put_fact: the row, and then its vector, which may be missed.            *)

\* The vectors after i was put and, perhaps, embedded.
Embedded(i, f) == {vecs, [vecs EXCEPT ![i] = {TextOf(f)}]}

InPlace(f) == \E i \in Ids :
  /\ Version(i, f)
  /\ facts' = [facts EXCEPT ![i] = f]
  /\ vecs' \in Embedded(i, f)
  /\ reopened' = IF Live(facts[i]) THEN reopened ELSE reopened \cup {KeyOf(f)}
  /\ UNCHANGED <<halved, reused>>

\* Mutant of Ended: a cold version is left.
EndedCurrent(f) == [i \in Ids |-> IF Live(facts[i]) /\ facts[i].state = "current" /\ Same(facts[i], f)
                                  THEN [facts[i] EXCEPT !.state = "superseded"] ELSE facts[i]]
\* Mutant of Ended: every spelling of the key is ended.
EndedAlike(f) == [i \in Ids |-> IF Live(facts[i]) /\ Alike(facts[i], f)
                                THEN [facts[i] EXCEPT !.state = "superseded"] ELSE facts[i]]
\* The table without a live version of f's key.
Ended(f) == [i \in Ids |-> IF Live(facts[i]) /\ Same(facts[i], f)
                           THEN [facts[i] EXCEPT !.state = "superseded"] ELSE facts[i]]

NewVersion(f) ==
  /\ ~\E i \in Ids : Version(i, f)
  /\ \E i \in Ids : /\ NextRowid(i)
                    /\ facts' = [Ended(f) EXCEPT ![i] = f]
                    /\ vecs' \in Embedded(i, f)
  /\ UNCHANGED <<reopened, halved, reused>>

\* The second of the two statements fails, or the process ends before it.
HalfWritten(f) ==
  /\ Faults < MaxFaults
  /\ ~\E i \in Ids : Version(i, f)
  /\ \E i \in Ids : Live(facts[i]) /\ Same(facts[i], f)
  /\ facts' = Ended(f)
  /\ halved' = halved \cup {KeyOf(f)}
  /\ UNCHANGED <<vecs, reopened, reused>>

Put(f) == InPlace(f) \/ NewVersion(f) \/ HalfWritten(f)

-----------------------------------------------------------------------------
(* The turns.                                                              *)

\* The spellings a key may be taken for, given the facts read.
Named(seen, k) ==
  IF \E i \in seen : facts[i].key = k THEN {k}
  ELSE LET alike == {facts[i].key : i \in {j \in seen : Stem[facts[j].key] = Stem[k]}}
       IN  IF alike = {} THEN {k} ELSE alike

\* Mutant of VersionAt: the clock is taken to be finer than it is.
VersionAtNow(prev) == now
\* A new version sorts after the one it supersedes, even under a coarse clock.
VersionAt(prev) == IF now > prev.from THEN now ELSE prev.from + 1

\* What remember_fact puts: the fact restated in place, a new version of it, or a new fact.
Stated(seen, s, k, v, doubtful) ==
  LET known == {i \in seen : facts[i].key = k}
      new(from) == [scope |-> s, key |-> k, from |-> from, state |-> "current",
                    value |-> v, doubtful |-> doubtful]
  IN  IF known = {} THEN {new(now)}
      ELSE {IF facts[i].value = v THEN [facts[i] EXCEPT !.state = "current", !.doubtful = doubtful]
            ELSE new(VersionAt(facts[i])) : i \in known}

\* What a turn reads of its scope's facts.
Reads(s) == {LiveIn(s)} \cup IF Faults < MaxFaults THEN {{}} ELSE {}

\* remember_fact: facts that cannot be read are taken for none.
Remember(s, k, v, doubtful) == \E seen \in Reads(s) : \E key \in Named(seen, k) :
  /\ \E f \in Stated(seen, s, key, v, doubtful) : Put(f)
  /\ blind' = IF seen = {} /\ LiveIn(s) # {} THEN blind \cup {<<s, key>>} ELSE blind
  /\ UNCHANGED <<now, pass>>

\* A recalled fact is put again, for its counters, and so embedded again.
Recall(i) == /\ Live(facts[i])
             /\ vecs' = [vecs EXCEPT ![i] = {TextOf(facts[i])}]
             /\ UNCHANGED <<facts, now, pass, history>>

\* The table once the keys of gone are forgotten.
Without(gone) == [i \in Ids |-> IF Live(facts[i]) /\ KeyOf(facts[i]) \in gone
                                THEN [facts[i] EXCEPT !.state = "forgotten"] ELSE facts[i]]

\* forget_fact: the key by any of its spellings.
Forget(s, k) ==
  /\ \E i \in LiveIn(s) : Stem[facts[i].key] = Stem[k] /\ facts' = Without({KeyOf(facts[i])})
  /\ UNCHANGED <<vecs, now, pass, history>>

\* forget_all, confirmed: the rows go, their vectors stay.
ForgetAll(s) ==
  LET gone == {i \in Ids : Held(i) /\ facts[i].scope = s}
  IN  /\ gone # {}
      /\ facts' = [i \in Ids |-> IF i \in gone THEN NoRow ELSE facts[i]]
      /\ reused' = reused \cup gone
      /\ UNCHANGED <<vecs, now, pass, blind, reopened, halved>>

Turns == /\ pc = "off"
         /\ \/ \E s \in Scopes, k \in Keys, v \in Values, d \in BOOLEAN : Remember(s, k, v, d)
            \/ \E i \in Ids : Recall(i)
            \/ \E s \in Scopes, k \in Keys : Forget(s, k)
            \/ \E s \in Scopes : ForgetAll(s)

\* A pass takes the time once, so that it may stand still meanwhile.
Tick == /\ pc = "off"
        /\ now < MaxTime
        /\ now' = now + 1
        /\ UNCHANGED <<tables, pass, history>>

-----------------------------------------------------------------------------
(* The pass, as far as it touches these tables.                            *)

Over == /\ pc' = "off"
        /\ todo' = {}
        /\ live' = [i \in {} |-> NoRow]

\* The store fails under it, or the process ends.
PassCut == /\ pc # "off"
           /\ Over
           /\ UNCHANGED <<tables, now, history>>

PassBegins == /\ pc = "off"
              /\ pc' = "backfill"
              /\ UNCHANGED <<tables, now, todo, live, history>>

\* What has no vector.
Pending == {i \in Ids : Live(facts[i]) /\ vecs[i] = {}}

\* backfill_embeddings: the limits of a pass and the service may leave some out.
Backfill ==
  /\ pc = "backfill"
  /\ \E some \in SUBSET Pending :
         vecs' = [i \in Ids |-> IF i \in some THEN {TextOf(facts[i])} ELSE vecs[i]]
  /\ pc' = "facts"
  /\ todo' = {facts[i].scope : i \in {j \in Ids : Held(j)}}
  /\ UNCHANGED <<facts, now, live, history>>

ReadScope(s) == /\ pc = "facts" /\ s \in todo
                /\ live' = [i \in LiveIn(s) |-> facts[i]]
                /\ todo' = todo \ {s}
                /\ pc' = "decay"
                /\ UNCHANGED <<tables, now, history>>

Current == {i \in DOMAIN live : live[i].state = "current"}

\* What has gone stale, or earns nothing, goes cold: the row as it was read is put again.
Decay == /\ pc = "decay"
         /\ \E cold \in SUBSET Current :
              /\ facts' = [i \in Ids |-> IF i \in cold THEN [live[i] EXCEPT !.state = "cold"]
                                         ELSE facts[i]]
              /\ \E some \in SUBSET cold :
                    vecs' = [i \in Ids |-> IF i \in some THEN {TextOf(live[i])} ELSE vecs[i]]
         /\ pc' = "purge"
         /\ UNCHANGED <<now, todo, live, history>>

\* Keys are forgotten one by one; the pass is cut short when one of them fails.
ForgetKeys(all, next) ==
  /\ \E gone \in SUBSET all :
        /\ facts' = Without(gone)
        /\ IF gone = all THEN pc' = next /\ UNCHANGED <<todo, live>> ELSE Over
  /\ UNCHANGED <<vecs, now, history>>

\* External values that were never confirmed.
Purge == /\ pc = "purge"
         /\ ForgetKeys({KeyOf(live[i]) : i \in {j \in DOMAIN live : live[j].doubtful}}, "merge")

\* One row to keep of every group of spellings; which of them is used most is left open.
Keeps == {keep \in SUBSET Current :
            /\ \A i \in Current : \E j \in keep : Alike(live[i], live[j])
            /\ \A i, j \in keep : Alike(live[i], live[j]) => i = j}

\* Mutant of Duplicates: the values are not compared.
DuplicatesBySpelling(keep) ==
  {KeyOf(live[i]) : i \in {x \in Current : \E j \in keep :
      Alike(live[x], live[j]) /\ live[x].key # live[j].key}}
\* The keys of the rows whose value the row kept of their group has too.
Duplicates(keep) ==
  {KeyOf(live[i]) : i \in {x \in Current : \E j \in keep :
      /\ Alike(live[x], live[j]) /\ live[x].key # live[j].key
      /\ live[x].value = live[j].value}}

Merge == /\ pc = "merge"
         /\ \E keep \in Keeps : ForgetKeys(Duplicates(keep), "facts")

PassEnds == /\ pc = "facts" /\ todo = {}
            /\ Over
            /\ UNCHANGED <<tables, now, history>>

Pass == \/ PassBegins \/ Backfill \/ Decay \/ Purge \/ Merge \/ PassEnds \/ PassCut
        \/ \E s \in Scopes : ReadScope(s)

Next == Turns \/ Pass \/ Tick

Spec == Init /\ [][Next]_vars

-----------------------------------------------------------------------------
(* Properties.                                                             *)

(* The types of the state, and the table's primary key.                    *)
TypeOK == /\ facts \in [Ids -> Row \cup {NoRow}]
          /\ \A i, j \in Ids : Held(i) /\ Held(j) /\ Same(facts[i], facts[j])
                              /\ facts[i].from = facts[j].from => i = j
          /\ vecs \in [Ids -> SUBSET Text]
          /\ now \in 0 .. MaxTime
          /\ pc \in {"off", "backfill", "facts", "decay", "purge", "merge"}
          /\ todo \subseteq Scopes
          /\ DOMAIN live \subseteq Ids
          /\ live \in [DOMAIN live -> Row]
          /\ blind \subseteq Scopes \X Keys
          /\ reopened \subseteq Scopes \X Keys
          /\ halved \subseteq Scopes \X Keys
          /\ reused \subseteq Ids

(* A key has one live version at most, unless it was once remembered       *)
(* without its facts being read: remember_fact takes a failed read for no  *)
(* facts, and its version may then be an old one, put in place.            *)
OneLiveVersion == \A i, j \in Ids :
  Live(facts[i]) /\ Live(facts[j]) /\ Same(facts[i], facts[j]) => i = j \/ KeyOf(facts[i]) \in reopened

(* What was superseded has a later version, unless the write that          *)
(* superseded it was cut between its two statements, or was blind.         *)
SupersededHasSuccessor == \A i \in Ids :
  Held(i) /\ facts[i].state = "superseded" =>
    \/ \E j \in Ids : Held(j) /\ Same(facts[i], facts[j]) /\ facts[j].from > facts[i].from
    \/ KeyOf(facts[i]) \in halved \cup reopened

(* A live version keeps its value: what is told anew is a version of its   *)
(* own, however coarse the clock, unless it was told blind or its key may  *)
(* have two live versions.                                                 *)
VersionsKeepTheirValue ==
  [][\A i \in Ids : Live(facts[i]) /\ facts'[i] # NoRow =>
       facts'[i].value = facts[i].value \/ KeyOf(facts[i]) \in blind' \cup reopened]_vars

(* No step of a pass brings back a fact that is not live: it writes what   *)
(* it read of the scope before it forgot anything.                         *)
PassRevivesNothing ==
  [][pc # "off" => \A i \in Ids : facts'[i] # NoRow /\ Live(facts'[i]) => Live(facts[i])]_vars

(* No step of a pass loses a value that is not in doubt: a live fact is    *)
(* left with the value, under one of its spellings.  Except that a merge   *)
(* may keep a spelling the same pass has purged, one that was in doubt;    *)
(* and a key with two live versions is forgotten with both.                *)
ValuesSurvive ==
  [][pc # "off" => \A i \in Ids : Live(facts[i]) /\ ~facts[i].doubtful =>
       \/ \E j \in Ids : /\ Live(facts'[j]) /\ Alike(facts'[j], facts[i])
                         /\ facts'[j].value = facts[i].value
       \/ \E d \in DOMAIN live : /\ Alike(live[d], facts[i])
                                 /\ \/ live[d].doubtful /\ live[d].value = facts[i].value
                                    \/ KeyOf(live[d]) \in reopened]_vars

Own(i) == vecs[i] \subseteq {TextOf(facts[i])}

(* A live fact's vector is of its own text, unless an old version of it    *)
(* was put in place or its rowid was a purged fact's.                      *)
VectorIsOwnApart == \A i \in Ids : Live(facts[i]) =>
  Own(i) \/ i \in reused \/ KeyOf(facts[i]) \in reopened \cup blind
=============================================================================
