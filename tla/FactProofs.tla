----------------------------- MODULE FactProofs ------------------------------
(***************************************************************************)
(* Proofs about FactStore, for every value of its constants.               *)
(***************************************************************************)
EXTENDS FactStore, TLAPS

\* Every version a key has later than the clock follows another: nothing is between.
Chained == \A i \in Ids : Held(i) => \A t \in now .. facts[i].from :
  \E j \in Ids : Held(j) /\ Same(facts[i], facts[j]) /\ facts[j].from = t

\* What a pass has read of a scope is what is in the table, until it writes there itself.
AsRead(i) == /\ Held(i) /\ Same(live[i], facts[i])
             /\ facts[i].value = live[i].value /\ facts[i].doubtful = live[i].doubtful
Purged(i) == \E d \in DOMAIN live : live[d].doubtful /\ KeyOf(live[d]) = KeyOf(live[i])
Reading == pc \in {"decay", "purge", "merge"}
Snapshot ==
  /\ pc = "decay" => \A i \in DOMAIN live : live[i] = facts[i] /\ Live(facts[i])
  /\ pc = "purge" => \A i \in DOMAIN live : AsRead(i) /\ Live(facts[i])
  /\ pc = "merge" =>
       /\ \A i \in DOMAIN live : AsRead(i) /\ (Live(facts[i]) \/ Purged(i))
       /\ \A i \in Ids, d \in DOMAIN live :
            Live(facts[i]) /\ live[d].doubtful => KeyOf(live[d]) # KeyOf(facts[i])
  /\ Reading => \A i, j \in DOMAIN live :
       Same(live[i], live[j]) => i = j \/ KeyOf(live[i]) \in reopened

\* A rowid that has never had another fact has that fact's vector or none.
VectorsKept == \A i \in Ids :
  IF Held(i) THEN Own(i) \/ i \in reused \/ KeyOf(facts[i]) \in reopened \cup blind
  ELSE vecs[i] = {} \/ i \in reused

\* What remember_fact puts, as far as the proofs ask: see LEMMA StatedFact.
New(f) == f.from = now /\ (\A i \in Ids : Live(facts[i]) /\ Same(facts[i], f) => KeyOf(f) \in blind')
Restated(f) == \E i \in Ids : /\ Live(facts[i]) /\ Same(facts[i], f)
                              /\ f.from = facts[i].from /\ f.value = facts[i].value
Renewed(f) == \E i \in Ids : /\ Live(facts[i]) /\ Same(facts[i], f)
                             /\ f.from = VersionAt(facts[i])
Told(f) == /\ f \in Row /\ f.state = "current"
           /\ New(f) \/ Restated(f) \/ Renewed(f)

Inv == /\ TypeOK
       /\ OneLiveVersion
       /\ SupersededHasSuccessor
       /\ Chained
       /\ Snapshot
       /\ VectorsKept

\* A step that changes no more of a row than its state, and revives none.
Touched == \A i \in Ids :
  IF Held(i)
  THEN /\ facts'[i] \in Row
       /\ Same(facts[i], facts'[i]) /\ facts'[i].from = facts[i].from
       /\ facts'[i].value = facts[i].value /\ facts'[i].doubtful = facts[i].doubtful
       /\ Live(facts'[i]) => Live(facts[i])
       /\ facts'[i].state = "superseded" => facts[i].state = "superseded"
  ELSE facts'[i] = NoRow

-----------------------------------------------------------------------------
LEMMA StatedFact ==
  ASSUME TypeOK, NEW s \in Scopes, NEW k \in Keys, NEW v \in Values, NEW d \in BOOLEAN,
         Remember(s, k, v, d)
  PROVE  /\ \E f \in Row : Told(f) /\ Put(f)
         /\ blind \subseteq blind' /\ blind' \subseteq Scopes \X Keys
         /\ UNCHANGED <<now, pass>>
<1>0. PICK seen \in Reads(s) : \E key \in Named(seen, k) :
        /\ \E f \in Stated(seen, s, key, v, d) : Put(f)
        /\ blind' = IF seen = {} /\ LiveIn(s) # {} THEN blind \cup {<<s, key>>} ELSE blind
        /\ UNCHANGED <<now, pass>>
  BY DEF Remember
<1>1. PICK key \in Named(seen, k) :
        /\ \E f \in Stated(seen, s, key, v, d) : Put(f)
        /\ blind' = IF seen = {} /\ LiveIn(s) # {} THEN blind \cup {<<s, key>>} ELSE blind
        /\ UNCHANGED <<now, pass>>
  BY <1>0
<1>2. seen = LiveIn(s) \/ seen = {}
  BY DEF Reads
<1>3. \A i \in seen : i \in Ids /\ Live(facts[i]) /\ facts[i] \in Row /\ facts[i].scope = s
  BY <1>2 DEF LiveIn, Live, TypeOK
<1>4. key \in Keys
  BY <1>3 DEF Named, Row
<1>5. PICK f \in Stated(seen, s, key, v, d) : Put(f)
  BY <1>1
<1>6. now \in Nat
  BY MaxTimeAssumption DEF TypeOK
<1> DEFINE known == {i \in seen : facts[i].key = key}
           new(from) == [scope |-> s, key |-> key, from |-> from, state |-> "current",
                         value |-> v, doubtful |-> d]
<1>7. CASE known = {}
  <2>1. f = new(now)
    BY <1>7 DEF Stated
  <2>2. f \in Row
    BY <2>1, <1>4, <1>6 DEF Row, States, LiveStates
  <2>3. \A i \in Ids : Live(facts[i]) /\ Same(facts[i], f) => KeyOf(f) \in blind'
    <3> SUFFICES ASSUME NEW i \in Ids, Live(facts[i]), Same(facts[i], f)
                 PROVE  KeyOf(f) \in blind'
      OBVIOUS
    <3>1. facts[i].key = key /\ facts[i].scope = s
      BY <2>1 DEF Same
    <3>2. i \in LiveIn(s) /\ i \notin seen
      BY <3>1, <1>7 DEF LiveIn
    <3> QED
      BY <3>2, <1>1, <1>2, <2>1 DEF KeyOf
  <2>4. Told(f)
    BY <2>1, <2>2, <2>3 DEF Told, New
  <2> QED
    BY <2>2, <2>4, <1>1, <1>4, <1>5 DEF TypeOK
<1>8. CASE known # {}
  <2>1. PICK i \in known : f = IF facts[i].value = v
                               THEN [facts[i] EXCEPT !.state = "current", !.doubtful = d]
                               ELSE new(VersionAt(facts[i]))
    BY <1>8 DEF Stated
  <2>2. i \in Ids /\ Live(facts[i]) /\ facts[i] \in Row /\ facts[i].scope = s /\ facts[i].key = key
    BY <1>3
  <2>3. VersionAt(facts[i]) \in Nat
    BY <2>2, <1>6 DEF VersionAt, Row
  <2>4. f \in Row /\ f.state = "current" /\ Same(facts[i], f)
    BY <2>1, <2>2, <2>3, <1>4 DEF Row, States, LiveStates, Same
  <2>5. Restated(f) \/ Renewed(f)
    <3>1. CASE facts[i].value = v
      <4>1. f.from = facts[i].from /\ f.value = facts[i].value
        BY <2>1, <2>2, <3>1 DEF Row
      <4> QED
        BY <4>1, <2>2, <2>4 DEF Restated
    <3>2. CASE facts[i].value # v
      BY <2>1, <2>2, <2>4, <3>2 DEF Renewed
    <3> QED
      BY <3>1, <3>2
  <2>6. Told(f)
    BY <2>4, <2>5 DEF Told
  <2> QED
    BY <2>4, <2>6, <1>1, <1>4, <1>5 DEF TypeOK
<1> QED
  BY <1>7, <1>8
-----------------------------------------------------------------------------
(* Steps that change states only.                                          *)

LEMMA TouchedKeeps ==
  ASSUME Inv, Touched, facts' \in [Ids -> Row \cup {NoRow}], now' = now, UNCHANGED history,
         vecs' \in [Ids -> SUBSET Text],
         \A i \in Ids : vecs'[i] = vecs[i] \/ (Held(i) /\ vecs'[i] = {TextOf(facts[i])})
  PROVE  /\ \A i, j \in Ids : Held(i)' /\ Held(j)' /\ Same(facts'[i], facts'[j])
                              /\ facts'[i].from = facts'[j].from => i = j
         /\ OneLiveVersion' /\ SupersededHasSuccessor' /\ Chained' /\ VectorsKept'
<1>1. \A i \in Ids : Held(i)' <=> Held(i)
  <2> TAKE i \in Ids
  <2> QED
    BY NoRowAssumption DEF Touched, Held
<1>2. \A i \in Ids : Held(i) => /\ facts[i] \in Row /\ facts'[i] \in Row
                                /\ facts'[i].scope = facts[i].scope /\ facts'[i].key = facts[i].key
                                /\ facts'[i].from = facts[i].from
                                /\ facts'[i].value = facts[i].value
  BY DEF Inv, TypeOK, Held, Touched, Same
<1>3. \A i \in Ids : Live(facts'[i]) => Held(i) /\ Live(facts[i])
  BY <1>1 DEF Touched, Live, Held
<1>4. \A i, j \in Ids : Held(i)' /\ Held(j)' /\ Same(facts'[i], facts'[j])
                        /\ facts'[i].from = facts'[j].from => i = j
  BY <1>1, <1>2 DEF Inv, TypeOK, Same
<1>5. OneLiveVersion'
  <2> SUFFICES ASSUME NEW i \in Ids, NEW j \in Ids, Live(facts'[i]), Live(facts'[j]),
                      Same(facts'[i], facts'[j]), i # j
               PROVE  KeyOf(facts'[i]) \in reopened'
    BY DEF OneLiveVersion
  <2>1. Live(facts[i]) /\ Live(facts[j]) /\ Same(facts[i], facts[j])
    BY <1>2, <1>3 DEF Same
  <2>2. KeyOf(facts[i]) \in reopened
    BY <2>1 DEF Inv, OneLiveVersion
  <2> QED
    BY <2>2, <1>2, <1>3 DEF KeyOf, history
<1>6. SupersededHasSuccessor'
  <2> SUFFICES ASSUME NEW i \in Ids, Held(i)', facts'[i].state = "superseded"
               PROVE  \/ \E j \in Ids : /\ Held(j)' /\ Same(facts'[i], facts'[j])
                                        /\ facts'[j].from > facts'[i].from
                      \/ KeyOf(facts'[i]) \in halved' \cup reopened'
    BY DEF SupersededHasSuccessor
  <2>1. Held(i) /\ facts[i].state = "superseded"
    BY <1>1 DEF Touched
  <2>2. CASE KeyOf(facts[i]) \in halved \cup reopened
    BY <2>1, <2>2, <1>2 DEF KeyOf, history
  <2>3. CASE \E j \in Ids : Held(j) /\ Same(facts[i], facts[j]) /\ facts[j].from > facts[i].from
    <3>1. PICK j \in Ids : Held(j) /\ Same(facts[i], facts[j]) /\ facts[j].from > facts[i].from
      BY <2>3
    <3>2. Held(j)' /\ Same(facts'[i], facts'[j]) /\ facts'[j].from > facts'[i].from
      BY <3>1, <2>1, <1>1, <1>2 DEF Same
    <3> QED
      BY <3>2
  <2> QED
    BY <2>1, <2>2, <2>3 DEF Inv, SupersededHasSuccessor
<1>7. Chained'
  <2> SUFFICES ASSUME NEW i \in Ids, Held(i)', NEW t \in now' .. facts'[i].from
               PROVE  \E j \in Ids : Held(j)' /\ Same(facts'[i], facts'[j]) /\ facts'[j].from = t
    BY DEF Chained
  <2>1. Held(i) /\ t \in now .. facts[i].from
    BY <1>1, <1>2
  <2>2. PICK j \in Ids : Held(j) /\ Same(facts[i], facts[j]) /\ facts[j].from = t
    BY <2>1 DEF Inv, Chained
  <2>3. Held(j)' /\ Same(facts'[i], facts'[j]) /\ facts'[j].from = t
    BY <2>1, <2>2, <1>1, <1>2 DEF Same
  <2> QED
    BY <2>3
<1>8. VectorsKept'
  <2> SUFFICES ASSUME NEW i \in Ids
               PROVE  IF Held(i)' THEN \/ vecs'[i] \subseteq {TextOf(facts'[i])} \/ i \in reused'
                                       \/ KeyOf(facts'[i]) \in reopened' \cup blind'
                      ELSE vecs'[i] = {} \/ i \in reused'
    BY DEF VectorsKept, Own
  <2>1. IF Held(i) THEN Own(i) \/ i \in reused \/ KeyOf(facts[i]) \in reopened \cup blind
        ELSE vecs[i] = {} \/ i \in reused
    BY DEF Inv, VectorsKept
  <2>2. Held(i) => TextOf(facts'[i]) = TextOf(facts[i]) /\ KeyOf(facts'[i]) = KeyOf(facts[i])
    BY <1>2 DEF TextOf, KeyOf
  <2> QED
    BY <2>1, <2>2, <1>1 DEF Own, history
<1> QED
  BY <1>4, <1>5, <1>6, <1>7, <1>8

LEMMA WithoutTouches ==
  ASSUME TypeOK, NEW gone \in SUBSET (Scopes \X Keys), facts' = Without(gone)
  PROVE  /\ Touched /\ facts' \in [Ids -> Row \cup {NoRow}]
         /\ \A i \in Ids : Live(facts'[i]) <=> Live(facts[i]) /\ KeyOf(facts[i]) \notin gone
<1> SUFFICES ASSUME NEW i \in Ids
             PROVE  /\ IF Held(i)
                       THEN /\ facts'[i] \in Row
                            /\ Same(facts[i], facts'[i]) /\ facts'[i].from = facts[i].from
                            /\ facts'[i].value = facts[i].value
                            /\ facts'[i].doubtful = facts[i].doubtful
                            /\ Live(facts'[i]) => Live(facts[i])
                            /\ facts'[i].state = "superseded" => facts[i].state = "superseded"
                       ELSE facts'[i] = NoRow
                    /\ Live(facts'[i]) <=> Live(facts[i]) /\ KeyOf(facts[i]) \notin gone
  BY DEF Touched, Without, Held
<1>1. facts[i] \in Row \cup {NoRow}
  BY DEF TypeOK
<1>2. CASE Live(facts[i]) /\ KeyOf(facts[i]) \in gone
  <2>1. facts[i] \in Row
    BY <1>1, <1>2 DEF Live
  <2>2. facts'[i] = [facts[i] EXCEPT !.state = "forgotten"]
    BY <1>2 DEF Without
  <2>3. facts'[i] \in Row /\ facts'[i] # NoRow /\ facts'[i].state = "forgotten"
    BY <2>1, <2>2, NoRowAssumption DEF Row, States
  <2> QED
    BY <1>2, <2>1, <2>2, <2>3 DEF Row, Held, Live, LiveStates, Same
<1>3. CASE ~(Live(facts[i]) /\ KeyOf(facts[i]) \in gone)
  <2>1. facts'[i] = facts[i]
    BY <1>3 DEF Without
  <2> QED
    BY <1>1, <1>3, <2>1 DEF Held, Same
<1> QED
  BY <1>2, <1>3
-----------------------------------------------------------------------------
(* What a turn remembers.                                                  *)

LEMMA EndedFacts ==
  ASSUME TypeOK, NEW f \in Row, NEW j \in Ids
  PROVE  /\ Ended(f)[j] \in Row \cup {NoRow}
         /\ Ended(f)[j] # NoRow <=> Held(j)
         /\ Held(j) => /\ Ended(f)[j].scope = facts[j].scope /\ Ended(f)[j].key = facts[j].key
                       /\ Ended(f)[j].from = facts[j].from
                       /\ Ended(f)[j].value = facts[j].value
                       /\ Ended(f)[j].state = "superseded" =>
                            facts[j].state = "superseded" \/ (Live(facts[j]) /\ Same(facts[j], f))
         /\ Live(Ended(f)[j]) => Live(facts[j]) /\ ~Same(facts[j], f)
<1>1. facts[j] \in Row \cup {NoRow}
  BY DEF TypeOK
<1>2. CASE Live(facts[j]) /\ Same(facts[j], f)
  <2>1. facts[j] \in Row
    BY <1>1, <1>2 DEF Live
  <2>2. Ended(f)[j] = [facts[j] EXCEPT !.state = "superseded"]
    BY <1>2 DEF Ended
  <2>3. Ended(f)[j] \in Row /\ Ended(f)[j] # NoRow /\ Ended(f)[j].state = "superseded"
    BY <2>1, <2>2, NoRowAssumption DEF Row, States
  <2> QED
    BY <1>2, <2>1, <2>2, <2>3 DEF Row, Held, Live, LiveStates
<1>3. CASE ~(Live(facts[j]) /\ Same(facts[j], f))
  <2>1. Ended(f)[j] = facts[j]
    BY <1>3 DEF Ended
  <2> QED
    BY <1>1, <1>3, <2>1 DEF Held
<1> QED
  BY <1>2, <1>3

\* A live version that a fact is put over had its value.
LEMMA PutOver ==
  ASSUME Inv, NEW f \in Row, Told(f), NEW i \in Ids, Version(i, f), Live(facts[i])
  PROVE  f.value = facts[i].value \/ KeyOf(f) \in reopened \cup blind'
<1>1. facts[i] \in Row /\ Same(facts[i], f) /\ facts[i].from = f.from /\ f.from \in Nat
  BY DEF Inv, TypeOK, Version, Held, Row
<1>2. CASE New(f)
  BY <1>1, <1>2 DEF New
<1>3. CASE Restated(f)
  <2>1. PICK k \in Ids : /\ Live(facts[k]) /\ Same(facts[k], f)
                         /\ f.from = facts[k].from /\ f.value = facts[k].value
    BY <1>3 DEF Restated
  <2>2. k = i
    BY <1>1, <2>1 DEF Inv, TypeOK, Same, Held, Live
  <2> QED
    BY <2>1, <2>2
<1>4. CASE Renewed(f)
  <2>1. PICK k \in Ids : Live(facts[k]) /\ Same(facts[k], f) /\ f.from = VersionAt(facts[k])
    BY <1>4 DEF Renewed
  <2>2. facts[k].from \in Nat /\ now \in Nat
    BY <2>1, MaxTimeAssumption DEF Inv, TypeOK, Live, Row
  <2>3. k # i
    BY <1>1, <2>1, <2>2 DEF VersionAt
  <2>4. KeyOf(facts[k]) \in reopened
    BY <1>1, <2>1, <2>3 DEF Inv, OneLiveVersion, Same
  <2> QED
    BY <2>1, <2>4 DEF KeyOf, Same
<1> QED
  BY <1>2, <1>3, <1>4 DEF Told

\* A fact put as a new version comes after what it ends.
LEMMA PutAfter ==
  ASSUME Inv, NEW f \in Row, Told(f), ~\E i \in Ids : Version(i, f),
         NEW j \in Ids, Live(facts[j]), Same(facts[j], f)
  PROVE  f.from > facts[j].from \/ KeyOf(f) \in reopened
<1>1. facts[j].from \in Nat /\ now \in Nat /\ f.from \in Nat /\ Held(j)
  BY MaxTimeAssumption DEF Inv, TypeOK, Live, Held, Row
<1>2. CASE New(f)
  <2> SUFFICES ASSUME ~(f.from > facts[j].from)
               PROVE  FALSE
    OBVIOUS
  <2>1. now \in now .. facts[j].from /\ f.from = now
    BY <1>1, <1>2 DEF New
  <2>2. PICK k \in Ids : Held(k) /\ Same(facts[j], facts[k]) /\ facts[k].from = now
    BY <1>1, <2>1 DEF Inv, Chained
  <2>3. Version(k, f)
    BY <2>1, <2>2 DEF Version, Same
  <2> QED
    BY <2>3
<1>3. CASE Restated(f)
  <2>1. PICK k \in Ids : Live(facts[k]) /\ Same(facts[k], f) /\ f.from = facts[k].from
    BY <1>3 DEF Restated
  <2>2. Version(k, f)
    BY <2>1 DEF Version, Live, Held
  <2> QED
    BY <2>2
<1>4. CASE Renewed(f)
  <2>1. PICK k \in Ids : Live(facts[k]) /\ Same(facts[k], f) /\ f.from = VersionAt(facts[k])
    BY <1>4 DEF Renewed
  <2>2. facts[k].from \in Nat
    BY <2>1 DEF Inv, TypeOK, Live, Row
  <2>3. f.from > facts[k].from
    BY <1>1, <2>1, <2>2 DEF VersionAt
  <2>4. j = k \/ KeyOf(facts[j]) \in reopened
    BY <2>1 DEF Inv, OneLiveVersion, Same
  <2> QED
    BY <2>3, <2>4 DEF KeyOf, Same
<1> QED
  BY <1>2, <1>3, <1>4 DEF Told

LEMMA InPlaceKeeps ==
  ASSUME Inv, pc = "off", NEW f \in Row, Told(f), InPlace(f),
         blind \subseteq blind', blind' \subseteq Scopes \X Keys, UNCHANGED <<now, pass>>
  PROVE  Inv'
<1>1. PICK i \in Ids : /\ Version(i, f)
                       /\ facts' = [facts EXCEPT ![i] = f]
                       /\ vecs' \in Embedded(i, f)
                       /\ reopened' = IF Live(facts[i]) THEN reopened ELSE reopened \cup {KeyOf(f)}
                       /\ UNCHANGED <<halved, reused>>
  BY DEF InPlace
<1>2. /\ facts \in [Ids -> Row \cup {NoRow}] /\ facts'[i] = f
      /\ \A j \in Ids : j # i => facts'[j] = facts[j]
  BY <1>1 DEF Inv, TypeOK
<1>3. f # NoRow /\ Live(f) /\ f.state = "current"
  BY NoRowAssumption DEF Told, Live, LiveStates
<1>4. /\ \A j \in Ids : Held(j)' <=> Held(j)
      /\ \A j \in Ids : Held(j) => /\ facts'[j].scope = facts[j].scope /\ facts'[j].key = facts[j].key
                                   /\ facts'[j].from = facts[j].from
  BY <1>1, <1>2, <1>3 DEF Version, Held, Same
<1>5. KeyOf(f) = KeyOf(facts[i]) /\ Same(facts[i], f)
  BY <1>1 DEF KeyOf, Version, Same
<1>6. TypeOK'
  <2>1. facts' \in [Ids -> Row \cup {NoRow}]
    BY <1>1, <1>2
  <2>2. TextOf(f) \in Text /\ KeyOf(f) \in Scopes \X Keys
    BY DEF TextOf, Text, KeyOf, Row
  <2>3. vecs' \in [Ids -> SUBSET Text]
    BY <1>1, <2>2 DEF Inv, TypeOK, Embedded
  <2>4. \A j, k \in Ids : Held(j)' /\ Held(k)' /\ Same(facts'[j], facts'[k])
                          /\ facts'[j].from = facts'[k].from => j = k
    BY <1>4 DEF Inv, TypeOK, Same
  <2>5. reopened' \subseteq Scopes \X Keys
    BY <1>1, <2>2 DEF Inv, TypeOK
  <2> QED
    BY <1>1, <2>1, <2>3, <2>4, <2>5 DEF Inv, TypeOK, pass
<1>7. OneLiveVersion'
  <2> SUFFICES ASSUME NEW j \in Ids, NEW k \in Ids, Live(facts'[j]), Live(facts'[k]),
                      Same(facts'[j], facts'[k]), j # k
               PROVE  KeyOf(facts'[j]) \in reopened'
    BY DEF OneLiveVersion
  <2>1. Held(j) /\ Held(k) /\ Same(facts[j], facts[k]) /\ KeyOf(facts'[j]) = KeyOf(facts[j])
    BY <1>4 DEF Live, Held, Same, KeyOf
  <2>2. CASE Live(facts[j]) /\ Live(facts[k])
    <3>1. KeyOf(facts[j]) \in reopened
      BY <2>1, <2>2 DEF Inv, OneLiveVersion
    <3> QED
      BY <3>1, <2>1, <1>1
  <2>3. CASE ~(Live(facts[j]) /\ Live(facts[k]))
    <3>1. ~Live(facts[i]) /\ (j = i \/ k = i)
      BY <1>2, <2>3
    <3>2. KeyOf(f) \in reopened' /\ KeyOf(facts[j]) = KeyOf(facts[i])
      BY <1>1, <2>1, <3>1 DEF KeyOf, Same
    <3> QED
      BY <3>2, <2>1, <1>5
  <2> QED
    BY <2>2, <2>3
<1>8. SupersededHasSuccessor'
  <2> SUFFICES ASSUME NEW j \in Ids, Held(j)', facts'[j].state = "superseded"
               PROVE  \/ \E k \in Ids : /\ Held(k)' /\ Same(facts'[j], facts'[k])
                                        /\ facts'[k].from > facts'[j].from
                      \/ KeyOf(facts'[j]) \in halved' \cup reopened'
    BY DEF SupersededHasSuccessor
  <2>1. j # i /\ Held(j) /\ facts[j].state = "superseded" /\ KeyOf(facts'[j]) = KeyOf(facts[j])
    BY <1>2, <1>3, <1>4
  <2>2. CASE KeyOf(facts[j]) \in halved \cup reopened
    BY <1>1, <2>1, <2>2
  <2>3. CASE \E k \in Ids : Held(k) /\ Same(facts[j], facts[k]) /\ facts[k].from > facts[j].from
    <3>1. PICK k \in Ids : Held(k) /\ Same(facts[j], facts[k]) /\ facts[k].from > facts[j].from
      BY <2>3
    <3>2. Held(k)' /\ Same(facts'[j], facts'[k]) /\ facts'[k].from > facts'[j].from
      BY <3>1, <2>1, <1>4 DEF Same
    <3> QED
      BY <3>2
  <2> QED
    BY <2>1, <2>2, <2>3 DEF Inv, SupersededHasSuccessor
<1>9. Chained'
  <2> SUFFICES ASSUME NEW j \in Ids, Held(j)', NEW t \in now' .. facts'[j].from
               PROVE  \E k \in Ids : Held(k)' /\ Same(facts'[j], facts'[k]) /\ facts'[k].from = t
    BY DEF Chained
  <2>1. Held(j) /\ t \in now .. facts[j].from
    BY <1>4
  <2>2. PICK k \in Ids : Held(k) /\ Same(facts[j], facts[k]) /\ facts[k].from = t
    BY <2>1 DEF Inv, Chained
  <2>3. Held(k)' /\ Same(facts'[j], facts'[k]) /\ facts'[k].from = t
    BY <2>1, <2>2, <1>4 DEF Same
  <2> QED
    BY <2>3
<1>10. VectorsKept'
  <2> SUFFICES ASSUME NEW j \in Ids
               PROVE  IF Held(j)' THEN \/ vecs'[j] \subseteq {TextOf(facts'[j])} \/ j \in reused'
                                       \/ KeyOf(facts'[j]) \in reopened' \cup blind'
                      ELSE vecs'[j] = {} \/ j \in reused'
    BY DEF VectorsKept, Own
  <2>1. IF Held(j) THEN Own(j) \/ j \in reused \/ KeyOf(facts[j]) \in reopened \cup blind
        ELSE vecs[j] = {} \/ j \in reused
    BY DEF Inv, VectorsKept
  <2>2. CASE j # i
    <3>1. vecs'[j] = vecs[j]
      BY <1>1, <2>2 DEF Embedded, Inv, TypeOK
    <3> QED
      BY <3>1, <2>1, <2>2, <1>1, <1>2 DEF Own, Held
  <2>3. CASE j = i
    <3>1. Held(i) /\ Held(i)' /\ facts'[i] = f
      BY <1>1, <1>2, <1>4 DEF Version
    <3>2. CASE vecs' = [vecs EXCEPT ![i] = {TextOf(f)}]
      BY <3>1, <3>2, <2>3 DEF Inv, TypeOK
    <3>3. CASE vecs' = vecs
      <4>1. CASE f.value = facts[i].value
        <5>1. TextOf(f) = TextOf(facts[i])
          BY <4>1, <1>1 DEF TextOf, Version, Same
        <5> QED
          BY <5>1, <3>1, <3>3, <2>1, <2>3, <1>1, <1>5 DEF Own
      <4>2. CASE f.value # facts[i].value
        <5>1. KeyOf(f) \in reopened' \cup blind'
          BY <4>2, <1>1, PutOver
        <5> QED
          BY <5>1, <3>1, <2>3
      <4> QED
        BY <4>1, <4>2
    <3> QED
      BY <3>2, <3>3, <1>1 DEF Embedded
  <2> QED
    BY <2>2, <2>3
<1>11. Snapshot'
  BY DEF Snapshot, Reading, pass
<1> QED
  BY <1>6, <1>7, <1>8, <1>9, <1>10, <1>11 DEF Inv
LEMMA NewVersionKeeps ==
  ASSUME Inv, pc = "off", NEW f \in Row, Told(f), NewVersion(f),
         blind \subseteq blind', blind' \subseteq Scopes \X Keys, UNCHANGED <<now, pass>>
  PROVE  Inv'
<1>1. PICK i \in Ids : /\ NextRowid(i)
                       /\ facts' = [Ended(f) EXCEPT ![i] = f]
                       /\ vecs' \in Embedded(i, f)
  BY DEF NewVersion
<1>2. /\ ~\E j \in Ids : Version(j, f)
      /\ UNCHANGED <<reopened, halved, reused>>
  BY DEF NewVersion
<1>3. ~Held(i)
  BY <1>1 DEF NextRowid, Ids
<1>4. f # NoRow /\ Live(f) /\ f.state = "current" /\ f.from \in Nat /\ now \in Nat
  BY NoRowAssumption, MaxTimeAssumption DEF Told, Live, LiveStates, Row, Inv, TypeOK
<1>5. /\ facts'[i] = f
      /\ \A j \in Ids : j # i => facts'[j] = Ended(f)[j]
  BY <1>1 DEF Ended
<1>6. \A j \in Ids : j # i =>
        /\ Held(j)' <=> Held(j)
        /\ Held(j) => /\ facts'[j].scope = facts[j].scope /\ facts'[j].key = facts[j].key
                      /\ facts'[j].from = facts[j].from /\ facts'[j].value = facts[j].value
                      /\ facts'[j].state = "superseded" =>
                           facts[j].state = "superseded" \/ (Live(facts[j]) /\ Same(facts[j], f))
        /\ Live(facts'[j]) => Live(facts[j]) /\ ~Same(facts[j], f)
  BY <1>5, EndedFacts DEF Inv, Held
<1>7. \A j \in Ids : Held(j) => j # i /\ facts[j] \in Row /\ facts[j].from \in Nat
  BY <1>3 DEF Inv, TypeOK, Held, Row
<1>8. TypeOK'
  <2>1. facts' \in [Ids -> Row \cup {NoRow}]
    <3>1. Ended(f) \in [Ids -> Row \cup {NoRow}]
      BY EndedFacts DEF Inv, Ended
    <3> QED
      BY <1>1, <3>1
  <2>2. TextOf(f) \in Text
    BY DEF TextOf, Text, Row
  <2>3. vecs' \in [Ids -> SUBSET Text]
    BY <1>1, <2>2 DEF Inv, TypeOK, Embedded
  <2>4. \A j, k \in Ids : Held(j)' /\ Held(k)' /\ Same(facts'[j], facts'[k])
                          /\ facts'[j].from = facts'[k].from => j = k
    <3> SUFFICES ASSUME NEW j \in Ids, NEW k \in Ids, Held(j)', Held(k)',
                        Same(facts'[j], facts'[k]), facts'[j].from = facts'[k].from, j # k
                 PROVE  FALSE
      OBVIOUS
    <3>1. CASE j # i /\ k # i
      BY <3>1, <1>6 DEF Inv, TypeOK, Same
    <3>2. CASE j = i
      BY <3>2, <1>2, <1>5, <1>6 DEF Version, Same
    <3>3. CASE k = i
      BY <3>3, <1>2, <1>5, <1>6 DEF Version, Same
    <3> QED
      BY <3>1, <3>2, <3>3
  <2> QED
    BY <1>2, <2>1, <2>3, <2>4 DEF Inv, TypeOK, pass
<1>9. OneLiveVersion'
  <2> SUFFICES ASSUME NEW j \in Ids, NEW k \in Ids, Live(facts'[j]), Live(facts'[k]),
                      Same(facts'[j], facts'[k]), j # k
               PROVE  KeyOf(facts'[j]) \in reopened'
    BY DEF OneLiveVersion
  <2>1. CASE j # i /\ k # i
    <3>1. Live(facts[j]) /\ Live(facts[k]) /\ Held(j) /\ Held(k)
      BY <2>1, <1>6 DEF Live, Held
    <3>2. KeyOf(facts[j]) \in reopened
      BY <3>1, <2>1, <1>6 DEF Inv, OneLiveVersion, Same
    <3> QED
      BY <3>1, <3>2, <2>1, <1>2, <1>6 DEF KeyOf
  <2>2. CASE j = i
    <3>1. Live(facts[k]) /\ Held(k) /\ ~Same(facts[k], f)
      BY <2>2, <1>6 DEF Live, Held
    <3> QED
      BY <3>1, <2>2, <1>5, <1>6 DEF Same
  <2>3. CASE k = i
    <3>1. Live(facts[j]) /\ Held(j) /\ ~Same(facts[j], f)
      BY <2>3, <1>6 DEF Live, Held
    <3> QED
      BY <3>1, <2>3, <1>5, <1>6 DEF Same
  <2> QED
    BY <2>1, <2>2, <2>3
<1>10. SupersededHasSuccessor'
  <2> SUFFICES ASSUME NEW j \in Ids, Held(j)', facts'[j].state = "superseded"
               PROVE  \/ \E k \in Ids : /\ Held(k)' /\ Same(facts'[j], facts'[k])
                                        /\ facts'[k].from > facts'[j].from
                      \/ KeyOf(facts'[j]) \in halved' \cup reopened'
    BY DEF SupersededHasSuccessor
  <2>1. j # i /\ Held(j) /\ KeyOf(facts'[j]) = KeyOf(facts[j])
    BY <1>4, <1>5, <1>6 DEF KeyOf
  <2>2. CASE Live(facts[j]) /\ Same(facts[j], f)
    <3>1. CASE f.from > facts[j].from
      <4>1. Held(i)' /\ Same(facts'[j], facts'[i]) /\ facts'[i].from > facts'[j].from
        BY <2>1, <2>2, <3>1, <1>4, <1>5, <1>6 DEF Held, Same
      <4> QED
        BY <4>1
    <3>2. CASE KeyOf(f) \in reopened
      BY <2>1, <2>2, <3>2, <1>2 DEF KeyOf, Same
    <3> QED
      BY <3>1, <3>2, <2>2, <1>2, PutAfter
  <2>3. CASE facts[j].state = "superseded"
    <3>1. CASE KeyOf(facts[j]) \in halved \cup reopened
      BY <1>2, <2>1, <3>1
    <3>2. CASE \E k \in Ids : Held(k) /\ Same(facts[j], facts[k]) /\ facts[k].from > facts[j].from
      <4>1. PICK k \in Ids : Held(k) /\ Same(facts[j], facts[k]) /\ facts[k].from > facts[j].from
        BY <3>2
      <4>2. Held(k)' /\ Same(facts'[j], facts'[k]) /\ facts'[k].from > facts'[j].from
        BY <4>1, <2>1, <1>6, <1>7 DEF Same
      <4> QED
        BY <4>2
    <3> QED
      BY <2>1, <2>3, <3>1, <3>2 DEF Inv, SupersededHasSuccessor
  <2> QED
    BY <2>1, <2>2, <2>3, <1>6
<1>11. Chained'
  <2> SUFFICES ASSUME NEW j \in Ids, Held(j)', NEW t \in now' .. facts'[j].from
               PROVE  \E k \in Ids : Held(k)' /\ Same(facts'[j], facts'[k]) /\ facts'[k].from = t
    BY DEF Chained
  <2>1. ASSUME NEW k \in Ids, Held(k), Same(facts[k], facts'[j]), t \in now .. facts[k].from
        PROVE  \E n \in Ids : Held(n)' /\ Same(facts'[j], facts'[n]) /\ facts'[n].from = t
    <3>1. PICK n \in Ids : Held(n) /\ Same(facts[k], facts[n]) /\ facts[n].from = t
      BY <2>1 DEF Inv, Chained
    <3>2. Held(n)' /\ Same(facts'[j], facts'[n]) /\ facts'[n].from = t
      BY <2>1, <3>1, <1>6, <1>7 DEF Same
    <3> QED
      BY <3>2
  <2>2. CASE j # i
    <3>1. Held(j) /\ Same(facts[j], facts'[j]) /\ t \in now .. facts[j].from
      BY <2>2, <1>6 DEF Same
    <3> QED
      BY <2>1, <3>1
  <2>3. CASE j = i
    <3>1. facts'[j] = f /\ t \in now .. f.from
      BY <2>3, <1>5
    <3>2. CASE t = f.from
      BY <2>3, <3>1, <3>2 DEF Same
    <3>3. CASE t # f.from
      <4>1. ~New(f)
        BY <3>1, <3>3, <1>4 DEF New
      <4>2. ~Restated(f)
        BY <1>2 DEF Restated, Version, Live, Held
      <4>3. PICK k \in Ids : Live(facts[k]) /\ Same(facts[k], f) /\ f.from = VersionAt(facts[k])
        BY <4>1, <4>2 DEF Told, Renewed
      <4>4. Held(k) /\ facts[k].from \in Nat
        BY <4>3, <1>7 DEF Live, Held
      <4>5. t \in now .. facts[k].from
        BY <3>1, <3>3, <4>3, <4>4, <1>4 DEF VersionAt
      <4> QED
        BY <2>1, <3>1, <4>3, <4>4, <4>5
    <3> QED
      BY <3>2, <3>3
  <2> QED
    BY <2>2, <2>3
<1>12. VectorsKept'
  <2> SUFFICES ASSUME NEW j \in Ids
               PROVE  IF Held(j)' THEN \/ vecs'[j] \subseteq {TextOf(facts'[j])} \/ j \in reused'
                                       \/ KeyOf(facts'[j]) \in reopened' \cup blind'
                      ELSE vecs'[j] = {} \/ j \in reused'
    BY DEF VectorsKept, Own
  <2>1. IF Held(j) THEN Own(j) \/ j \in reused \/ KeyOf(facts[j]) \in reopened \cup blind
        ELSE vecs[j] = {} \/ j \in reused
    BY DEF Inv, VectorsKept
  <2>2. CASE j # i
    <3>1. vecs'[j] = vecs[j]
      BY <1>1, <2>2 DEF Embedded, Inv, TypeOK
    <3>2. Held(j) => TextOf(facts'[j]) = TextOf(facts[j]) /\ KeyOf(facts'[j]) = KeyOf(facts[j])
      BY <1>6, <2>2 DEF TextOf, KeyOf
    <3> QED
      BY <3>1, <3>2, <2>1, <2>2, <1>2, <1>6 DEF Own
  <2>3. CASE j = i
    <3>1. facts'[j] = f /\ Held(j)'
      BY <2>3, <1>4, <1>5 DEF Held
    <3>2. vecs'[j] = vecs[j] \/ vecs'[j] = {TextOf(f)}
      BY <1>1, <2>3 DEF Embedded, Inv, TypeOK
    <3> QED
      BY <3>1, <3>2, <2>1, <2>3, <1>2, <1>3
  <2> QED
    BY <2>2, <2>3
<1>13. Snapshot'
  BY DEF Snapshot, Reading, pass
<1> QED
  BY <1>8, <1>9, <1>10, <1>11, <1>12, <1>13 DEF Inv

LEMMA HalfWrittenKeeps ==
  ASSUME Inv, pc = "off", NEW f \in Row, HalfWritten(f),
         blind \subseteq blind', blind' \subseteq Scopes \X Keys, UNCHANGED <<now, pass>>
  PROVE  Inv'
<1>1. /\ facts' = Ended(f) /\ halved' = halved \cup {KeyOf(f)}
      /\ UNCHANGED <<vecs, reopened, reused>>
  BY DEF HalfWritten
<1>2. \A j \in Ids :
        /\ facts'[j] \in Row \cup {NoRow}
        /\ Held(j)' <=> Held(j)
        /\ Held(j) => /\ facts'[j].scope = facts[j].scope /\ facts'[j].key = facts[j].key
                      /\ facts'[j].from = facts[j].from /\ facts'[j].value = facts[j].value
                      /\ facts'[j].state = "superseded" =>
                           facts[j].state = "superseded" \/ (Live(facts[j]) /\ Same(facts[j], f))
        /\ Live(facts'[j]) => Live(facts[j]) /\ ~Same(facts[j], f)
  BY <1>1, EndedFacts DEF Inv, Held
<1>3. TypeOK'
  <2>1. facts' \in [Ids -> Row \cup {NoRow}]
    BY <1>1, <1>2 DEF Ended
  <2>2. \A j, k \in Ids : Held(j)' /\ Held(k)' /\ Same(facts'[j], facts'[k])
                          /\ facts'[j].from = facts'[k].from => j = k
    BY <1>2 DEF Inv, TypeOK, Same
  <2>3. halved' \subseteq Scopes \X Keys
    BY <1>1 DEF Inv, TypeOK, KeyOf, Row
  <2> QED
    BY <1>1, <2>1, <2>2, <2>3 DEF Inv, TypeOK, pass
<1>4. OneLiveVersion'
  <2> SUFFICES ASSUME NEW j \in Ids, NEW k \in Ids, Live(facts'[j]), Live(facts'[k]),
                      Same(facts'[j], facts'[k]), j # k
               PROVE  KeyOf(facts'[j]) \in reopened'
    BY DEF OneLiveVersion
  <2>1. Live(facts[j]) /\ Live(facts[k]) /\ Held(j) /\ Held(k)
    BY <1>2 DEF Live, Held
  <2>2. KeyOf(facts[j]) \in reopened
    BY <2>1, <1>2 DEF Inv, OneLiveVersion, Same
  <2> QED
    BY <2>1, <2>2, <1>1, <1>2 DEF KeyOf
<1>5. SupersededHasSuccessor'
  <2> SUFFICES ASSUME NEW j \in Ids, Held(j)', facts'[j].state = "superseded",
                      KeyOf(facts'[j]) \notin halved' \cup reopened'
               PROVE  \E k \in Ids : /\ Held(k)' /\ Same(facts'[j], facts'[k])
                                     /\ facts'[k].from > facts'[j].from
    BY DEF SupersededHasSuccessor
  <2>1. Held(j) /\ KeyOf(facts'[j]) = KeyOf(facts[j])
    BY <1>2 DEF KeyOf
  <2>2. facts[j].state = "superseded"
    BY <2>1, <1>1, <1>2 DEF KeyOf, Same
  <2>3. PICK k \in Ids : Held(k) /\ Same(facts[j], facts[k]) /\ facts[k].from > facts[j].from
    BY <2>1, <2>2, <1>1 DEF Inv, SupersededHasSuccessor
  <2>4. Held(k)' /\ Same(facts'[j], facts'[k]) /\ facts'[k].from > facts'[j].from
    BY <2>1, <2>3, <1>2 DEF Same
  <2> QED
    BY <2>4
<1>6. Chained'
  <2> SUFFICES ASSUME NEW j \in Ids, Held(j)', NEW t \in now' .. facts'[j].from
               PROVE  \E k \in Ids : Held(k)' /\ Same(facts'[j], facts'[k]) /\ facts'[k].from = t
    BY DEF Chained
  <2>1. Held(j) /\ t \in now .. facts[j].from
    BY <1>2
  <2>2. PICK k \in Ids : Held(k) /\ Same(facts[j], facts[k]) /\ facts[k].from = t
    BY <2>1 DEF Inv, Chained
  <2>3. Held(k)' /\ Same(facts'[j], facts'[k]) /\ facts'[k].from = t
    BY <2>1, <2>2, <1>2 DEF Same
  <2> QED
    BY <2>3
<1>7. VectorsKept'
  <2> SUFFICES ASSUME NEW j \in Ids
               PROVE  IF Held(j)' THEN \/ vecs'[j] \subseteq {TextOf(facts'[j])} \/ j \in reused'
                                       \/ KeyOf(facts'[j]) \in reopened' \cup blind'
                      ELSE vecs'[j] = {} \/ j \in reused'
    BY DEF VectorsKept, Own
  <2>1. IF Held(j) THEN Own(j) \/ j \in reused \/ KeyOf(facts[j]) \in reopened \cup blind
        ELSE vecs[j] = {} \/ j \in reused
    BY DEF Inv, VectorsKept
  <2>2. Held(j) => TextOf(facts'[j]) = TextOf(facts[j]) /\ KeyOf(facts'[j]) = KeyOf(facts[j])
    BY <1>2 DEF TextOf, KeyOf
  <2> QED
    BY <2>1, <2>2, <1>1, <1>2 DEF Own
<1>8. Snapshot'
  BY DEF Snapshot, Reading, pass
<1> QED
  BY <1>3, <1>4, <1>5, <1>6, <1>7, <1>8 DEF Inv
LEMMA RememberKeeps ==
  ASSUME Inv, pc = "off", NEW s \in Scopes, NEW k \in Keys, NEW v \in Values, NEW d \in BOOLEAN,
         Remember(s, k, v, d)
  PROVE  Inv'
<1>1. PICK f \in Row : Told(f) /\ Put(f)
  BY StatedFact DEF Inv
<1>2. blind \subseteq blind' /\ blind' \subseteq Scopes \X Keys /\ UNCHANGED <<now, pass>>
  BY StatedFact DEF Inv
<1> QED
  BY <1>1, <1>2, InPlaceKeeps, NewVersionKeeps, HalfWrittenKeeps DEF Put
-----------------------------------------------------------------------------
(* The other steps of turns, and the clock.                                *)

LEMMA Untouched ==
  ASSUME TypeOK, facts' = facts
  PROVE  Touched /\ facts' \in [Ids -> Row \cup {NoRow}]
BY DEF TypeOK, Touched, Held, Same

\* The text of a fact is what a vector is made of.
LEMMA TextsTyped ==
  ASSUME TypeOK, NEW i \in Ids, Held(i)
  PROVE  TextOf(facts[i]) \in Text
BY DEF TypeOK, Held, TextOf, Text, Row

LEMMA RecallKeeps ==
  ASSUME Inv, pc = "off", NEW i \in Ids, Recall(i)
  PROVE  Inv'
<1>1. /\ Held(i)
      /\ vecs' = [vecs EXCEPT ![i] = {TextOf(facts[i])}]
      /\ UNCHANGED <<facts, now, pass, history>>
  BY DEF Recall, Live, Held
<1>2. vecs' \in [Ids -> SUBSET Text]
  BY <1>1, TextsTyped DEF Inv, TypeOK
<1>3. \A j \in Ids : vecs'[j] = vecs[j] \/ (Held(j) /\ vecs'[j] = {TextOf(facts[j])})
  BY <1>1 DEF Inv, TypeOK
<1>4. Touched /\ facts' \in [Ids -> Row \cup {NoRow}]
  BY <1>1, Untouched DEF Inv
<1>5. OneLiveVersion' /\ SupersededHasSuccessor' /\ Chained' /\ VectorsKept'
  BY <1>1, <1>2, <1>3, <1>4, TouchedKeeps
<1>6. TypeOK'
  BY <1>1, <1>2 DEF Inv, TypeOK, Held, history, pass
<1>7. Snapshot'
  BY <1>1 DEF Snapshot, Reading, pass
<1> QED
  BY <1>5, <1>6, <1>7 DEF Inv

LEMMA ForgetKeeps ==
  ASSUME Inv, pc = "off", NEW s \in Scopes, NEW k \in Keys, Forget(s, k)
  PROVE  Inv'
<1>1. PICK i \in LiveIn(s) : facts' = Without({KeyOf(facts[i])})
  BY DEF Forget
<1>2. UNCHANGED <<vecs, now, pass, history>>
  BY DEF Forget
<1>3. {KeyOf(facts[i])} \in SUBSET (Scopes \X Keys)
  BY DEF LiveIn, Live, Inv, TypeOK, KeyOf, Row
<1>4. Touched /\ facts' \in [Ids -> Row \cup {NoRow}]
  BY <1>1, <1>3, WithoutTouches DEF Inv
<1>5. vecs' \in [Ids -> SUBSET Text]
  BY <1>2 DEF Inv, TypeOK
<1>6. /\ OneLiveVersion' /\ SupersededHasSuccessor' /\ Chained' /\ VectorsKept'
      /\ \A n, m \in Ids : Held(n)' /\ Held(m)' /\ Same(facts'[n], facts'[m])
                           /\ facts'[n].from = facts'[m].from => n = m
  BY <1>2, <1>4, <1>5, TouchedKeeps
<1>7. TypeOK'
  BY <1>2, <1>4, <1>6 DEF Inv, TypeOK, history, pass
<1>8. Snapshot'
  BY <1>2 DEF Snapshot, Reading, pass
<1> QED
  BY <1>6, <1>7, <1>8 DEF Inv

LEMMA ForgetAllKeeps ==
  ASSUME Inv, pc = "off", NEW s \in Scopes, ForgetAll(s)
  PROVE  Inv'
<1> DEFINE gone == {i \in Ids : Held(i) /\ facts[i].scope = s}
<1>1. /\ facts' = [i \in Ids |-> IF i \in gone THEN NoRow ELSE facts[i]]
      /\ reused' = reused \cup gone
      /\ UNCHANGED <<vecs, now, pass, blind, reopened, halved>>
  BY DEF ForgetAll
<1>2. \A i \in Ids : Held(i)' => Held(i) /\ i \notin gone /\ facts'[i] = facts[i]
  BY <1>1 DEF Held
<1>3. \A i \in Ids : Held(i) /\ i \notin gone => Held(i)' /\ facts'[i] = facts[i]
  BY <1>1 DEF Held
<1>4. \A i, j \in Ids : Held(i)' /\ Held(j) /\ Same(facts[i], facts[j]) => j \notin gone
  BY <1>2 DEF Same
<1>5. TypeOK'
  <2>1. facts' \in [Ids -> Row \cup {NoRow}]
    BY <1>1 DEF Inv, TypeOK
  <2>2. \A i, j \in Ids : Held(i)' /\ Held(j)' /\ Same(facts'[i], facts'[j])
                          /\ facts'[i].from = facts'[j].from => i = j
    BY <1>2 DEF Inv, TypeOK
  <2> QED
    BY <1>1, <2>1, <2>2 DEF Inv, TypeOK, pass
<1>6. OneLiveVersion'
  BY <1>1, <1>2 DEF Inv, OneLiveVersion, Live, Held
<1>7. SupersededHasSuccessor'
  <2> SUFFICES ASSUME NEW i \in Ids, Held(i)', facts'[i].state = "superseded",
                      KeyOf(facts'[i]) \notin halved' \cup reopened'
               PROVE  \E j \in Ids : /\ Held(j)' /\ Same(facts'[i], facts'[j])
                                     /\ facts'[j].from > facts'[i].from
    BY DEF SupersededHasSuccessor
  <2>1. PICK j \in Ids : Held(j) /\ Same(facts[i], facts[j]) /\ facts[j].from > facts[i].from
    BY <1>1, <1>2 DEF Inv, SupersededHasSuccessor
  <2> QED
    BY <2>1, <1>2, <1>3, <1>4
<1>8. Chained'
  <2> SUFFICES ASSUME NEW i \in Ids, Held(i)', NEW t \in now' .. facts'[i].from
               PROVE  \E j \in Ids : Held(j)' /\ Same(facts'[i], facts'[j]) /\ facts'[j].from = t
    BY DEF Chained
  <2>1. PICK j \in Ids : Held(j) /\ Same(facts[i], facts[j]) /\ facts[j].from = t
    BY <1>1, <1>2 DEF Inv, Chained
  <2> QED
    BY <2>1, <1>2, <1>3, <1>4
<1>9. VectorsKept'
  <2> SUFFICES ASSUME NEW i \in Ids
               PROVE  IF Held(i)' THEN \/ vecs'[i] \subseteq {TextOf(facts'[i])} \/ i \in reused'
                                       \/ KeyOf(facts'[i]) \in reopened' \cup blind'
                      ELSE vecs'[i] = {} \/ i \in reused'
    BY DEF VectorsKept, Own
  <2>1. IF Held(i) THEN Own(i) \/ i \in reused \/ KeyOf(facts[i]) \in reopened \cup blind
        ELSE vecs[i] = {} \/ i \in reused
    BY DEF Inv, VectorsKept
  <2> QED
    BY <2>1, <1>1, <1>2, <1>3 DEF Own
<1>10. Snapshot'
  BY <1>1 DEF Snapshot, Reading, pass
<1> QED
  BY <1>5, <1>6, <1>7, <1>8, <1>9, <1>10 DEF Inv

LEMMA TickKeeps ==
  ASSUME Inv, Tick
  PROVE  Inv'
<1>1. /\ pc = "off" /\ now < MaxTime /\ now' = now + 1
      /\ UNCHANGED <<tables, pass, history>>
  BY DEF Tick
<1>2. TypeOK'
  BY <1>1, MaxTimeAssumption DEF Inv, TypeOK, Held, tables, pass, history
<1>3. OneLiveVersion' /\ SupersededHasSuccessor' /\ VectorsKept'
  BY <1>1 DEF Inv, OneLiveVersion, SupersededHasSuccessor, VectorsKept, Own, Held, tables, history
<1>4. Chained'
  <2> SUFFICES ASSUME NEW i \in Ids, Held(i), NEW t \in now + 1 .. facts[i].from
               PROVE  \E j \in Ids : Held(j) /\ Same(facts[i], facts[j]) /\ facts[j].from = t
    BY <1>1 DEF Chained, Held, tables
  <2>1. facts[i].from \in Nat /\ now \in Nat
    BY MaxTimeAssumption DEF Inv, TypeOK, Held, Row
  <2>2. t \in now .. facts[i].from
    BY <2>1
  <2> QED
    BY <2>2 DEF Inv, Chained
<1>5. Snapshot'
  BY <1>1 DEF Snapshot, Reading, pass
<1> QED
  BY <1>2, <1>3, <1>4, <1>5 DEF Inv
-----------------------------------------------------------------------------
(* The steps of a pass.                                                    *)

\* What every step of a pass leaves alone, beside what it does to states and vectors.
Gentle == /\ Touched /\ facts' \in [Ids -> Row \cup {NoRow}]
          /\ vecs' \in [Ids -> SUBSET Text]
          /\ \A i \in Ids : vecs'[i] = vecs[i] \/ (Held(i) /\ vecs'[i] = {TextOf(facts[i])})
          /\ UNCHANGED <<now, history>>

PassTyped == /\ pc \in {"off", "backfill", "facts", "decay", "purge", "merge"}
             /\ todo \subseteq Scopes /\ DOMAIN live \subseteq Ids
             /\ live \in [DOMAIN live -> Row]

LEMMA GentleKeeps ==
  ASSUME Inv, Gentle, PassTyped', Snapshot'
  PROVE  Inv'
<1>1. /\ \A i, j \in Ids : Held(i)' /\ Held(j)' /\ Same(facts'[i], facts'[j])
                           /\ facts'[i].from = facts'[j].from => i = j
      /\ OneLiveVersion' /\ SupersededHasSuccessor' /\ Chained' /\ VectorsKept'
  BY TouchedKeeps DEF Gentle
<1>2. TypeOK'
  BY <1>1 DEF Inv, TypeOK, Gentle, PassTyped, history
<1> QED
  BY <1>1, <1>2 DEF Inv

\* A pass that is over, or has not begun, has read nothing that it will write.
LEMMA OverKeeps ==
  ASSUME Over
  PROVE  PassTyped' /\ Snapshot'
BY DEF Over, PassTyped, Snapshot, Reading

LEMMA StillGentle ==
  ASSUME Inv, UNCHANGED <<tables, now, history>>
  PROVE  Gentle
BY Untouched DEF Inv, TypeOK, Gentle, tables

LEMMA BackfillKeeps ==
  ASSUME Inv, Backfill
  PROVE  Gentle /\ PassTyped' /\ Snapshot'
<1>1. PICK some \in SUBSET Pending :
        vecs' = [i \in Ids |-> IF i \in some THEN {TextOf(facts[i])} ELSE vecs[i]]
  BY DEF Backfill
<1>2. /\ pc' = "facts"
      /\ todo' = {facts[i].scope : i \in {j \in Ids : Held(j)}}
      /\ UNCHANGED <<facts, now, live, history>>
  BY DEF Backfill
<1>3. \A i \in some : i \in Ids /\ Held(i)
  BY DEF Pending, Live, Held
<1>4. vecs' \in [Ids -> SUBSET Text]
  BY <1>1, <1>3, TextsTyped DEF Inv, TypeOK
<1>5. \A i \in Ids : vecs'[i] = vecs[i] \/ (Held(i) /\ vecs'[i] = {TextOf(facts[i])})
  BY <1>1, <1>3
<1>6. Gentle
  BY <1>2, <1>4, <1>5, Untouched DEF Inv, Gentle
<1>7. PassTyped'
  BY <1>2 DEF Inv, TypeOK, PassTyped, Held, Row
<1> QED
  BY <1>2, <1>6, <1>7 DEF Snapshot, Reading

LEMMA ReadScopeKeeps ==
  ASSUME Inv, NEW s \in Scopes, ReadScope(s)
  PROVE  Gentle /\ PassTyped' /\ Snapshot'
<1>1. /\ live' = [i \in LiveIn(s) |-> facts[i]]
      /\ todo' = todo \ {s} /\ pc' = "decay"
      /\ UNCHANGED <<tables, now, history>>
  BY DEF ReadScope
<1>2. \A i \in LiveIn(s) : i \in Ids /\ Live(facts[i]) /\ facts[i] \in Row
  BY DEF LiveIn, Live, Inv, TypeOK
<1>3. PassTyped'
  BY <1>1, <1>2 DEF Inv, TypeOK, PassTyped
<1>4. \A i \in LiveIn(s) : live'[i] = facts'[i] /\ Live(facts'[i])
  BY <1>1, <1>2 DEF tables
<1>5. \A i, j \in LiveIn(s) : Same(live'[i], live'[j]) => i = j \/ KeyOf(live'[i]) \in reopened'
  BY <1>1, <1>2 DEF Inv, OneLiveVersion, history
<1>6. Snapshot'
  BY <1>1, <1>4, <1>5 DEF Snapshot, Reading
<1> QED
  BY <1>1, <1>3, <1>6, StillGentle

LEMMA DecayKeeps ==
  ASSUME Inv, Decay
  PROVE  /\ Gentle /\ PassTyped' /\ Snapshot'
         /\ \A i \in Ids : Live(facts[i]) => Live(facts'[i])
<1>1. PICK cold \in SUBSET Current :
        /\ facts' = [i \in Ids |-> IF i \in cold THEN [live[i] EXCEPT !.state = "cold"]
                                   ELSE facts[i]]
        /\ \E some \in SUBSET cold :
              vecs' = [i \in Ids |-> IF i \in some THEN {TextOf(live[i])} ELSE vecs[i]]
  BY DEF Decay
<1>2. pc = "decay" /\ pc' = "purge" /\ UNCHANGED <<now, todo, live, history>>
  BY DEF Decay
<1>3. \A i \in DOMAIN live : /\ i \in Ids /\ live[i] = facts[i] /\ Live(facts[i])
                             /\ facts[i] \in Row /\ Held(i)
  BY <1>2 DEF Inv, TypeOK, Snapshot, Live, Held
<1>4. \A i \in Ids : IF i \in cold THEN facts'[i] = [facts[i] EXCEPT !.state = "cold"]
                                        /\ facts[i] \in Row /\ Live(facts[i]) /\ Held(i)
                     ELSE facts'[i] = facts[i]
  BY <1>1, <1>3 DEF Current
<1>5. \A i \in Ids : i \in cold => /\ facts'[i] \in Row /\ Live(facts'[i])
                                   /\ facts'[i].state = "cold"
                                   /\ Same(facts[i], facts'[i])
                                   /\ facts'[i].from = facts[i].from
                                   /\ facts'[i].value = facts[i].value
                                   /\ facts'[i].doubtful = facts[i].doubtful
  <2> SUFFICES ASSUME NEW i \in Ids, i \in cold
               PROVE  /\ facts'[i] \in Row /\ Live(facts'[i])
                      /\ facts'[i].state = "cold"
                      /\ Same(facts[i], facts'[i])
                      /\ facts'[i].from = facts[i].from
                      /\ facts'[i].value = facts[i].value
                      /\ facts'[i].doubtful = facts[i].doubtful
    OBVIOUS
  <2>1. facts'[i] = [facts[i] EXCEPT !.state = "cold"] /\ facts[i] \in Row
    BY <1>4
  <2>2. facts'[i] \in Row /\ facts'[i].state = "cold"
    BY <2>1 DEF Row, States, LiveStates
  <2> QED
    BY <2>1, <2>2, NoRowAssumption DEF Row, Live, LiveStates, Same
<1>6. \A i \in Ids : facts[i] \in Row \cup {NoRow}
  BY DEF Inv, TypeOK
<1>7. facts' \in [Ids -> Row \cup {NoRow}]
  BY <1>1, <1>4, <1>5, <1>6
<1>8. Touched
  <2> SUFFICES ASSUME NEW i \in Ids
               PROVE  IF Held(i)
                      THEN /\ facts'[i] \in Row
                           /\ Same(facts[i], facts'[i]) /\ facts'[i].from = facts[i].from
                           /\ facts'[i].value = facts[i].value
                           /\ facts'[i].doubtful = facts[i].doubtful
                           /\ Live(facts'[i]) => Live(facts[i])
                           /\ facts'[i].state = "superseded" => facts[i].state = "superseded"
                      ELSE facts'[i] = NoRow
    BY DEF Touched
  <2> QED
    BY <1>4, <1>5, <1>6 DEF Held, Same
<1>9. PICK some \in SUBSET cold :
        vecs' = [i \in Ids |-> IF i \in some THEN {TextOf(live[i])} ELSE vecs[i]]
  BY <1>1
<1>10. \A i \in some : i \in Ids /\ Held(i) /\ live[i] = facts[i]
  BY <1>3 DEF Current
<1>11. vecs' \in [Ids -> SUBSET Text]
  BY <1>9, <1>10, TextsTyped DEF Inv, TypeOK
<1>12. \A i \in Ids : vecs'[i] = vecs[i] \/ (Held(i) /\ vecs'[i] = {TextOf(facts[i])})
  BY <1>9, <1>10
<1>13. Gentle
  BY <1>2, <1>7, <1>8, <1>11, <1>12 DEF Gentle
<1>14. PassTyped'
  BY <1>2 DEF Inv, TypeOK, PassTyped
<1>15. \A i \in DOMAIN live : /\ facts'[i] # NoRow /\ Live(facts'[i]) /\ Same(live[i], facts'[i])
                              /\ facts'[i].value = live[i].value
                              /\ facts'[i].doubtful = live[i].doubtful
  BY <1>3, <1>4, <1>5 DEF Live, Same
<1>16. Snapshot'
  BY <1>2, <1>15 DEF Inv, Snapshot, Reading, AsRead, Held, history
<1> QED
  BY <1>4, <1>5, <1>13, <1>14, <1>16

LEMMA ForgottenKeys ==
  ASSUME Inv, NEW all \in SUBSET (Scopes \X Keys), NEW next, ForgetKeys(all, next)
  PROVE  /\ Gentle
         /\ \/ Over
            \/ pc' = next /\ UNCHANGED <<todo, live>> /\ facts' = Without(all)
         /\ \A i \in Ids : /\ Live(facts'[i]) => Live(facts[i])
                           /\ Live(facts[i]) => Live(facts'[i]) \/ KeyOf(facts[i]) \in all
<1>1. PICK gone \in SUBSET all :
        /\ facts' = Without(gone)
        /\ IF gone = all THEN pc' = next /\ UNCHANGED <<todo, live>> ELSE Over
  BY DEF ForgetKeys
<1>2. UNCHANGED <<vecs, now, history>>
  BY DEF ForgetKeys
<1>3. /\ Touched /\ facts' \in [Ids -> Row \cup {NoRow}]
      /\ \A i \in Ids : Live(facts'[i]) <=> Live(facts[i]) /\ KeyOf(facts[i]) \notin gone
  BY <1>1, WithoutTouches DEF Inv
<1>4. Gentle
  BY <1>2, <1>3 DEF Gentle, Inv, TypeOK
<1> QED
  BY <1>1, <1>3, <1>4

\* The keys that a pass forgets are of what it read.
LEMMA KeysRead ==
  ASSUME TypeOK, NEW some \in SUBSET (DOMAIN live)
  PROVE  {KeyOf(live[i]) : i \in some} \in SUBSET (Scopes \X Keys)
BY DEF TypeOK, KeyOf, Row

Doubted == {KeyOf(live[i]) : i \in {j \in DOMAIN live : live[j].doubtful}}

LEMMA PurgeKeeps ==
  ASSUME Inv, Purge
  PROVE  Gentle /\ PassTyped' /\ Snapshot'
<1>1. pc = "purge" /\ ForgetKeys(Doubted, "merge")
  BY DEF Purge, Doubted
<1>2. Doubted \in SUBSET (Scopes \X Keys)
  BY KeysRead DEF Inv, Doubted
<1>3. Gentle
  BY <1>1, <1>2, ForgottenKeys
<1>4. CASE Over
  BY <1>3, <1>4, OverKeeps
<1>5. CASE pc' = "merge" /\ UNCHANGED <<todo, live>> /\ facts' = Without(Doubted)
  <2>1. \A i \in Ids : Live(facts'[i]) <=> Live(facts[i]) /\ KeyOf(facts[i]) \notin Doubted
    BY <1>2, <1>5, WithoutTouches DEF Inv
  <2>2. \A i \in DOMAIN live : i \in Ids /\ AsRead(i) /\ Live(facts[i])
    BY <1>1 DEF Inv, TypeOK, Snapshot
  <2>3. PassTyped'
    BY <1>5 DEF Inv, TypeOK, PassTyped
  <2>4. \A i \in Ids : Held(i) => /\ facts'[i] # NoRow /\ Same(facts[i], facts'[i])
                                  /\ facts'[i].value = facts[i].value
                                  /\ facts'[i].doubtful = facts[i].doubtful
    BY <1>3, NoRowAssumption DEF Gentle, Touched
  <2>5. \A i \in DOMAIN live : AsRead(i)'
    BY <1>5, <2>2, <2>4 DEF AsRead, Held, Same
  <2>6. \A i \in DOMAIN live : Live(facts'[i]) \/ Purged(i)
    <3> SUFFICES ASSUME NEW i \in DOMAIN live, ~Live(facts'[i])
                 PROVE  Purged(i)
      OBVIOUS
    <3>1. KeyOf(facts[i]) \in Doubted
      BY <2>1, <2>2
    <3>2. PICK d \in DOMAIN live : live[d].doubtful /\ KeyOf(live[d]) = KeyOf(facts[i])
      BY <3>1 DEF Doubted
    <3>3. KeyOf(facts[i]) = KeyOf(live[i])
      BY <2>2 DEF AsRead, Same, KeyOf
    <3> QED
      BY <3>2, <3>3 DEF Purged
  <2>7. \A i \in Ids, d \in DOMAIN live :
          Live(facts'[i]) /\ live[d].doubtful => KeyOf(live[d]) # KeyOf(facts'[i])
    <3> SUFFICES ASSUME NEW i \in Ids, NEW d \in DOMAIN live, Live(facts'[i]), live[d].doubtful
                 PROVE  KeyOf(live[d]) # KeyOf(facts'[i])
      OBVIOUS
    <3>1. Held(i) /\ KeyOf(facts[i]) \notin Doubted
      BY <2>1 DEF Live, Held
    <3>2. KeyOf(facts'[i]) = KeyOf(facts[i])
      BY <2>4, <3>1 DEF Same, KeyOf
    <3> QED
      BY <3>1, <3>2 DEF Doubted
  <2>8. \A i, j \in DOMAIN live : Same(live[i], live[j]) => i = j \/ KeyOf(live[i]) \in reopened
    BY <1>1 DEF Inv, Snapshot, Reading
  <2>9. Snapshot'
    BY <1>3, <1>5, <2>5, <2>6, <2>7, <2>8 DEF Snapshot, Reading, Purged, Gentle, history
  <2> QED
    BY <1>3, <2>3, <2>9
<1> QED
  BY <1>1, <1>2, <1>4, <1>5, ForgottenKeys

LEMMA MergeKeeps ==
  ASSUME Inv, Merge
  PROVE  Gentle /\ PassTyped' /\ Snapshot'
<1>1. PICK keep \in Keeps : ForgetKeys(Duplicates(keep), "facts")
  BY DEF Merge
<1>2. Duplicates(keep) \in SUBSET (Scopes \X Keys)
  BY KeysRead DEF Inv, Duplicates, Current
<1>3. Gentle /\ (Over \/ (pc' = "facts" /\ UNCHANGED <<todo, live>>))
  BY <1>1, <1>2, ForgottenKeys
<1> QED
  BY <1>3, OverKeeps DEF Inv, TypeOK, PassTyped, Snapshot, Reading

LEMMA PassKeeps ==
  ASSUME Inv, Pass
  PROVE  Gentle /\ PassTyped' /\ Snapshot'
<1>1. CASE PassBegins
  <2>1. UNCHANGED <<tables, now, todo, live, history>> /\ pc' = "backfill"
    BY <1>1 DEF PassBegins
  <2> QED
    BY <2>1, StillGentle DEF Inv, TypeOK, PassTyped, Snapshot, Reading
<1>2. CASE PassEnds
  BY <1>2, StillGentle, OverKeeps DEF PassEnds
<1>3. CASE PassCut
  BY <1>3, StillGentle, OverKeeps DEF PassCut
<1> QED
  BY <1>1, <1>2, <1>3, BackfillKeeps, ReadScopeKeeps, DecayKeeps, PurgeKeeps, MergeKeeps DEF Pass
-----------------------------------------------------------------------------
(* The invariant.                                                          *)

LEMMA InitInv ==
  ASSUME Init
  PROVE  Inv
<1>1. TypeOK
  BY MaxTimeAssumption DEF Init, TypeOK, Held
<1>2. \A i \in Ids : ~Held(i) /\ ~Live(facts[i]) /\ vecs[i] = {}
  BY DEF Init, Held, Live
<1> QED
  BY <1>1, <1>2 DEF Init, Inv, OneLiveVersion, SupersededHasSuccessor, Chained, Snapshot, Reading,
                    VectorsKept

LEMMA NextInv ==
  ASSUME Inv, [Next]_vars
  PROVE  Inv'
<1>1. CASE Turns
  BY <1>1, RememberKeeps, RecallKeeps, ForgetKeeps, ForgetAllKeeps DEF Turns
<1>2. CASE Pass
  BY <1>2, PassKeeps, GentleKeeps
<1>3. CASE Tick
  BY <1>3, TickKeeps
<1>4. CASE UNCHANGED vars
  BY <1>4 DEF vars, tables, pass, history, Inv, TypeOK, OneLiveVersion, SupersededHasSuccessor,
              Chained, Snapshot, Reading, AsRead, Purged, VectorsKept, Own, Held
<1> QED
  BY <1>1, <1>2, <1>3, <1>4 DEF Next

LEMMA InvHolds == Spec => []Inv
<1>1. Init => Inv
  BY InitInv
<1>2. Inv /\ [Next]_vars => Inv'
  BY NextInv
<1> QED
  BY <1>1, <1>2, PTL DEF Spec
-----------------------------------------------------------------------------
(* The theorems.                                                           *)

(* The state has its types, and the primary key of the facts table holds   *)
(* through every write, purge and pass.                                    *)
THEOREM TypesHold == Spec => []TypeOK
<1>1. Inv => TypeOK
  BY DEF Inv
<1> QED
  BY <1>1, InvHolds, PTL

(* A key has one live version at most, unless remember_fact once put an    *)
(* ended version back in its place.                                        *)
THEOREM OneLive == Spec => []OneLiveVersion
<1>1. Inv => OneLiveVersion
  BY DEF Inv
<1> QED
  BY <1>1, InvHolds, PTL

(* What write_fact supersedes has a later version, unless it was cut       *)
(* between its two statements or put an ended version in place.            *)
THEOREM Successors == Spec => []SupersededHasSuccessor
<1>1. Inv => SupersededHasSuccessor
  BY DEF Inv
<1> QED
  BY <1>1, InvHolds, PTL

(* A live fact's vector is of its own text, unless its rowid was a purged  *)
(* fact's or an old version was put in place.                              *)
THEOREM VectorsOwn == Spec => []VectorIsOwnApart
<1>1. Inv => VectorIsOwnApart
  BY DEF Inv, VectorsKept, VectorIsOwnApart, Live, Held
<1> QED
  BY <1>1, InvHolds, PTL

\* What a step of a pass does to the values and the life of facts, and a turn to values.
LEMMA PassGentle ==
  ASSUME Inv, [Next]_vars, pc # "off"
  PROVE  Touched
<1>1. ~Turns /\ ~Tick
  BY DEF Turns, Tick
<1>2. CASE Pass
  BY <1>2, PassKeeps DEF Gentle
<1>3. CASE UNCHANGED vars
  BY <1>3, Untouched DEF Inv, vars, tables
<1> QED
  BY <1>1, <1>2, <1>3 DEF Next

(* No step of a pass brings back a fact that is not live, though it writes *)
(* rows that it read before.                                               *)
THEOREM NothingRevived == Spec => PassRevivesNothing
<1>1. Inv /\ [Next]_vars =>
        [pc # "off" => \A i \in Ids : facts'[i] # NoRow /\ Live(facts'[i]) => Live(facts[i])]_vars
  <2> SUFFICES ASSUME Inv, [Next]_vars, pc # "off", NEW i \in Ids,
                      facts'[i] # NoRow, Live(facts'[i])
               PROVE  Live(facts[i])
    OBVIOUS
  <2>1. Touched
    BY PassGentle
  <2> QED
    BY <2>1 DEF Touched
<1> QED
  BY <1>1, InvHolds, PTL DEF Spec, PassRevivesNothing

\* What a fact that is put leaves of the values of the others.
LEMMA PutKeepsValues ==
  ASSUME Inv, NEW f \in Row, Told(f), Put(f), NEW i \in Ids, Live(facts[i])
  PROVE  facts'[i].value = facts[i].value \/ KeyOf(facts[i]) \in blind' \cup reopened
<1>1. Held(i) /\ ~(\E j \in Ids : NextRowid(j) /\ j = i)
  BY DEF Live, Held, NextRowid, Ids
<1>2. CASE InPlace(f)
  <2>1. PICK j \in Ids : Version(j, f) /\ facts' = [facts EXCEPT ![j] = f]
    BY <1>2 DEF InPlace
  <2>2. CASE j = i
    <3>1. facts'[i] = f /\ KeyOf(f) = KeyOf(facts[i])
      BY <2>1, <2>2 DEF Inv, TypeOK, Version, Same, KeyOf
    <3> QED
      BY <3>1, <2>1, <2>2, PutOver
  <2>3. CASE j # i
    BY <2>1, <2>3 DEF Inv, TypeOK
  <2> QED
    BY <2>2, <2>3
<1>3. CASE NewVersion(f)
  <2>1. PICK j \in Ids : NextRowid(j) /\ facts' = [Ended(f) EXCEPT ![j] = f]
    BY <1>3 DEF NewVersion
  <2>2. j # i
    BY <1>1, <2>1
  <2>3. facts'[i] = Ended(f)[i]
    BY <2>1, <2>2 DEF Ended
  <2> QED
    BY <1>1, <2>3, EndedFacts DEF Inv
<1>4. CASE HalfWritten(f)
  BY <1>1, <1>4, EndedFacts DEF HalfWritten, Inv
<1> QED
  BY <1>2, <1>3, <1>4 DEF Put

(* A live version keeps its value: what is told anew is a version of its   *)
(* own, however coarse the clock, unless it was told blind.                *)
THEOREM ValuesKept == Spec => VersionsKeepTheirValue
<1>1. Inv /\ [Next]_vars =>
        [\A i \in Ids : Live(facts[i]) /\ facts'[i] # NoRow =>
           facts'[i].value = facts[i].value \/ KeyOf(facts[i]) \in blind' \cup reopened]_vars
  <2> SUFFICES ASSUME Inv, [Next]_vars, NEW i \in Ids, Live(facts[i]), facts'[i] # NoRow
               PROVE  facts'[i].value = facts[i].value \/ KeyOf(facts[i]) \in blind' \cup reopened
    OBVIOUS
  <2>1. Held(i) /\ TypeOK
    BY DEF Live, Held, Inv
  <2>2. CASE Pass
    BY <2>1, <2>2, PassKeeps DEF Gentle, Touched
  <2>3. ASSUME NEW s \in Scopes, NEW k \in Keys, NEW v \in Values, NEW d \in BOOLEAN,
               Remember(s, k, v, d)
        PROVE  facts'[i].value = facts[i].value \/ KeyOf(facts[i]) \in blind' \cup reopened
    BY <2>1, <2>3, StatedFact, PutKeepsValues
  <2>4. ASSUME NEW s \in Scopes, NEW k \in Keys, Forget(s, k)
        PROVE  facts'[i].value = facts[i].value
    <3>1. PICK j \in LiveIn(s) : facts' = Without({KeyOf(facts[j])})
      BY <2>4 DEF Forget
    <3>2. {KeyOf(facts[j])} \in SUBSET (Scopes \X Keys)
      BY <2>1 DEF LiveIn, Live, TypeOK, KeyOf, Row
    <3> QED
      BY <2>1, <3>1, <3>2, WithoutTouches DEF Touched
  <2>5. ASSUME NEW s \in Scopes, ForgetAll(s)
        PROVE  facts'[i] = facts[i]
    BY <2>5 DEF ForgetAll
  <2>6. CASE UNCHANGED facts
    BY <2>6
  <2>7. Recall(i) \/ Tick \/ UNCHANGED vars \/ (\E j \in Ids : Recall(j)) => UNCHANGED facts
    BY DEF Recall, Tick, vars, tables
  <2> QED
    BY <2>2, <2>3, <2>4, <2>5, <2>6, <2>7 DEF Next, Turns
<1> QED
  BY <1>1, InvHolds, PTL DEF Spec, VersionsKeepTheirValue

\* That the value of a live fact is not lost in a step.
Survives(i) ==
  \/ \E j \in Ids : /\ Live(facts'[j]) /\ Alike(facts'[j], facts[i])
                    /\ facts'[j].value = facts[i].value
  \/ \E d \in DOMAIN live : /\ Alike(live[d], facts[i])
                            /\ \/ live[d].doubtful /\ live[d].value = facts[i].value
                               \/ KeyOf(live[d]) \in reopened

LEMMA AliveSurvives ==
  ASSUME Inv, Touched, NEW i \in Ids, Live(facts[i]), Live(facts'[i])
  PROVE  Survives(i)
<1>1. Held(i)
  BY DEF Live, Held
<1> QED
  BY <1>1 DEF Touched, Survives, Alike, Same

LEMMA PurgeSurvives ==
  ASSUME Inv, Purge, NEW i \in Ids, Live(facts[i]), ~facts[i].doubtful
  PROVE  Survives(i)
<1>1. pc = "purge" /\ ForgetKeys(Doubted, "merge")
  BY DEF Purge, Doubted
<1>2. Doubted \in SUBSET (Scopes \X Keys)
  BY KeysRead DEF Inv, Doubted
<1>3. CASE Live(facts'[i])
  BY <1>3, PurgeKeeps, AliveSurvives DEF Gentle
<1>4. CASE ~Live(facts'[i])
  <2>1. KeyOf(facts[i]) \in Doubted
    BY <1>1, <1>2, <1>4, ForgottenKeys
  <2>2. PICK d \in DOMAIN live : live[d].doubtful /\ KeyOf(live[d]) = KeyOf(facts[i])
    BY <2>1 DEF Doubted
  <2>3. d \in Ids /\ AsRead(d) /\ Live(facts[d])
    BY <1>1 DEF Inv, TypeOK, Snapshot
  <2>4. d # i /\ Same(facts[d], facts[i])
    BY <2>2, <2>3 DEF AsRead, KeyOf, Same
  <2>5. KeyOf(facts[d]) \in reopened
    BY <2>3, <2>4 DEF Inv, OneLiveVersion
  <2>6. KeyOf(live[d]) \in reopened /\ Alike(live[d], facts[i])
    BY <2>2, <2>3, <2>4, <2>5 DEF AsRead, Same, KeyOf, Alike
  <2> QED
    BY <2>6 DEF Survives
<1> QED
  BY <1>3, <1>4

LEMMA MergeSurvives ==
  ASSUME Inv, Merge, NEW i \in Ids, Live(facts[i])
  PROVE  Survives(i)
<1>1. PICK keep \in Keeps : ForgetKeys(Duplicates(keep), "facts")
  BY DEF Merge
<1>2. Duplicates(keep) \in SUBSET (Scopes \X Keys)
  BY KeysRead DEF Inv, Duplicates, Current
<1>3. pc = "merge" /\ Touched
  BY MergeKeeps DEF Merge, Gentle
<1>4. CASE Live(facts'[i])
  BY <1>3, <1>4, AliveSurvives
<1>5. CASE ~Live(facts'[i])
  <2>1. KeyOf(facts[i]) \in Duplicates(keep)
    BY <1>1, <1>2, <1>5, ForgottenKeys
  <2>2. PICK x \in Current :
          /\ \E j \in keep : /\ Alike(live[x], live[j]) /\ live[x].key # live[j].key
                             /\ live[x].value = live[j].value
          /\ KeyOf(live[x]) = KeyOf(facts[i])
    BY <2>1 DEF Duplicates
  <2>3. PICK j \in keep : /\ Alike(live[x], live[j]) /\ live[x].key # live[j].key
                          /\ live[x].value = live[j].value
    BY <2>2
  <2>4. /\ x \in DOMAIN live /\ j \in DOMAIN live /\ x \in Ids /\ j \in Ids
        /\ AsRead(x) /\ AsRead(j)
        /\ Live(facts[x]) \/ Purged(x)
        /\ Live(facts[j]) \/ Purged(j)
    BY <1>3 DEF Inv, TypeOK, Snapshot, Keeps, Current
  <2>5. Live(facts[x])
    BY <1>3, <2>2, <2>4 DEF Inv, Snapshot, Purged
  <2>6. Alike(live[j], facts[i]) /\ Alike(live[x], facts[i])
    BY <2>2, <2>3 DEF Alike, KeyOf
  <2>7. CASE x # i
    <3>1. Same(facts[x], facts[i])
      BY <2>2, <2>4 DEF AsRead, Same, KeyOf
    <3>2. KeyOf(facts[x]) \in reopened
      BY <2>4, <2>5, <2>7, <3>1 DEF Inv, OneLiveVersion
    <3>3. KeyOf(live[x]) \in reopened
      BY <2>4, <3>2 DEF AsRead, Same, KeyOf
    <3> QED
      BY <2>4, <2>6, <3>3 DEF Survives
  <2>8. CASE x = i
    <3>1. live[j].value = facts[i].value
      BY <2>3, <2>4, <2>8 DEF AsRead
    <3>2. CASE Live(facts[j])
      <4>1. KeyOf(facts[j]) = KeyOf(live[j])
        BY <2>4 DEF AsRead, Same, KeyOf
      <4>2. KeyOf(live[j]) \notin Duplicates(keep)
        <5> SUFFICES ASSUME NEW y \in Current, NEW m \in keep, Alike(live[y], live[m]),
                            live[y].key # live[m].key, KeyOf(live[y]) = KeyOf(live[j])
                     PROVE  FALSE
          BY DEF Duplicates
        <5>1. Alike(live[j], live[m]) /\ live[j].key # live[m].key
          BY DEF KeyOf, Alike
        <5>2. m = j
          BY <5>1 DEF Keeps
        <5> QED
          BY <5>1, <5>2
      <4>3. Live(facts'[j])
        BY <1>1, <1>2, <2>4, <3>2, <4>1, <4>2, ForgottenKeys
      <4>4. Held(j) /\ Alike(facts'[j], facts[i]) /\ facts'[j].value = facts[i].value
        BY <1>3, <2>4, <2>6, <3>1, <3>2 DEF Touched, Live, Held, AsRead, Same, Alike
      <4> QED
        BY <2>4, <4>3, <4>4 DEF Survives
    <3>3. CASE Purged(j)
      <4>1. PICK d \in DOMAIN live : live[d].doubtful /\ KeyOf(live[d]) = KeyOf(live[j])
        BY <3>3 DEF Purged
      <4>2. Alike(live[d], facts[i])
        BY <2>6, <4>1 DEF Alike, KeyOf
      <4>3. d = j \/ KeyOf(live[d]) \in reopened
        BY <1>3, <2>4, <4>1 DEF Inv, Snapshot, Reading, Same, KeyOf
      <4> QED
        BY <3>1, <4>1, <4>2, <4>3 DEF Survives
    <3> QED
      BY <2>4, <3>2, <3>3
  <2> QED
    BY <2>7, <2>8
<1> QED
  BY <1>4, <1>5

(* No step of a pass loses a value that is not in doubt, except to a merge *)
(* with a spelling it has itself purged, or with a key that has two live   *)
(* versions.                                                               *)
THEOREM NoValueLost == Spec => ValuesSurvive
<1>1. Inv /\ [Next]_vars =>
        [pc # "off" => \A i \in Ids : Live(facts[i]) /\ ~facts[i].doubtful => Survives(i)]_vars
  <2> SUFFICES ASSUME Inv, [Next]_vars, pc # "off", NEW i \in Ids, Live(facts[i]),
                      ~facts[i].doubtful
               PROVE  Survives(i)
    OBVIOUS
  <2>1. Touched
    BY PassGentle
  <2>2. ~Turns /\ ~Tick
    BY DEF Turns, Tick
  <2>3. CASE UNCHANGED facts
    BY <2>1, <2>3, AliveSurvives
  <2>4. CASE Decay
    BY <2>1, <2>4, DecayKeeps, AliveSurvives
  <2>5. PassBegins \/ Backfill \/ PassEnds \/ PassCut \/ (\E s \in Scopes : ReadScope(s))
          \/ UNCHANGED vars => UNCHANGED facts
    BY DEF PassBegins, Backfill, PassEnds, PassCut, ReadScope, vars, tables
  <2> QED
    BY <2>2, <2>3, <2>4, <2>5, PurgeSurvives, MergeSurvives DEF Next, Pass
<1>2. [pc # "off" => \A i \in Ids : Live(facts[i]) /\ ~facts[i].doubtful => Survives(i)]_vars
      => [pc # "off" => \A i \in Ids : Live(facts[i]) /\ ~facts[i].doubtful =>
       \/ \E j \in Ids : /\ Live(facts'[j]) /\ Alike(facts'[j], facts[i])
                         /\ facts'[j].value = facts[i].value
       \/ \E d \in DOMAIN live : /\ Alike(live[d], facts[i])
                                 /\ \/ live[d].doubtful /\ live[d].value = facts[i].value
                                    \/ KeyOf(live[d]) \in reopened]_vars
  BY DEF Survives
<1> QED
  BY <1>1, <1>2, InvHolds, PTL DEF Spec, ValuesSurvive
=============================================================================
