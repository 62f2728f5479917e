--------------------------- MODULE ArchiverProofs ---------------------------
(***************************************************************************)
(* Nothing is forgotten and no entry has two rows, for any number of       *)
(* entries, batches of any size, and whatever calls fail.                  *)
(***************************************************************************)
EXTENDS Archiver, SequenceTheorems, FiniteSetTheorems, WellFoundedInduction, TLAPS

Sent(s) == 1..Len(made[s])

\* A stream and its group that belong to what has been made
Sound(r) ==
  /\ r \in [Streams -> Group]
  /\ \A s \in Streams :
       /\ r[s].log \subseteq Sent(s) /\ r[s].pel \subseteq Sent(s)
       /\ r[s].last <= Len(made[s])
       /\ ~Trimming => r[s].pel \subseteq r[s].log

\* NothingForgotten of the streams as they are or as they are on disk
Kept(r) ==
  \A s \in Streams : \A i \in r[s].log :
    Good(s, i) => HasRow(s, i) \/ i \in r[s].pel \/ i > r[s].last

\* What has been read is what was made, unless it had been trimmed by then.
BatchInv ==
  \A m \in batch :
    /\ m.id \in Sent(m.stream)
    /\ m.body = made[m.stream][m.id] \/ (Trimming /\ m.body = "malformed" /\ m.id \notin redis[m.stream].log)

\* A message is acknowledged when it has its row, or can have none.
AckInv ==
  /\ pc \in {"insert", "ack"} => batch # {}
  /\ pc = "ack" => \/ Current.body = "malformed"
                   \/ Current.body \in Accepted /\ HasRow(Current.stream, Current.id)

\* A message has the fields of its entry, or none.
BodyInv ==
  \A m \in batch :
    /\ m.id \in Sent(m.stream)
    /\ m.body = "malformed" \/ m.body = made[m.stream][m.id]

\* The date of a row depends on nothing but its entry.
Datable == DatedIds \/ "unstamped" \notin Kinds
DateOf(body) == IF body = "good" THEN "ts_ms" ELSE "id"
DateInv ==
  \A s \in Streams : \A r \in rows[s] :
    /\ r.event_id \in Sent(s)
    /\ Datable => r.ts = DateOf(made[s][r.event_id])

RowsInv == BodyInv /\ DateInv
SoundInv == TypeOK /\ RowsInv /\ Sound(redis) /\ Sound(disk) /\ AckInv
KeptInv == Kept(redis) /\ Kept(disk) /\ BatchInv

-----------------------------------------------------------------------------
(* The oldest and the newest of some entries *)

LEMMA HasLeast ==
  ASSUME NEW S \in SUBSET Nat, S # {}
  PROVE  \E i \in S : \A j \in S : i <= j
<1>1. PICK i \in S : \A j \in S : ~(<<j, i>> \in OpToRel(<, Nat))
  BY NatLessThanWellFounded, WFMin
<1>2. \A j \in S : ~(j < i)
  BY <1>1, Zenon DEF OpToRel
<1>3. \A j \in S : j \in Nat
  OBVIOUS
<1> QED BY <1>2, <1>3

LEMMA HasGreatest ==
  ASSUME NEW n \in Nat, NEW S \in SUBSET 0..n, S # {}
  PROVE  \E i \in S : \A j \in S : j <= i
<1> DEFINE T == {n - i : i \in S}
<1>1. T \in SUBSET Nat /\ T # {}
  <2>1. \A i \in S : i \in 0..n
    OBVIOUS
  <2>2. \A i \in 0..n : n - i \in Nat
    OBVIOUS
  <2> QED BY <2>1, <2>2
<1>2. PICK t \in T : \A u \in T : t <= u
  BY <1>1, HasLeast
<1>3. PICK i \in S : t = n - i
  BY <1>2
<1>4. ASSUME NEW j \in S PROVE j <= i
  <2>1. n - i <= n - j
    BY <1>2, <1>3
  <2> QED BY <2>1
<1> QED BY <1>4

LEMMA NewestIs ==
  ASSUME NEW S \in SUBSET Ids, NEW d, S # {}
  PROVE  Newest(S, d) \in S /\ \A j \in S : j <= Newest(S, d)
<1>1. MaxEntries \in Nat /\ S \in SUBSET 0..MaxEntries
  BY ArchiverAssumption DEF Ids
<1> QED BY <1>1, HasGreatest DEF Newest

LEMMA OldestIs ==
  ASSUME NEW S \in SUBSET Ids, S # {}
  PROVE  Oldest(S) \in S
<1>1. S \in SUBSET Nat
  BY DEF Ids
<1> QED BY <1>1, HasLeast DEF Oldest

\* Firsts takes no entry without the ones before it, and at least one.
LEMMA FirstsFacts ==
  ASSUME NEW S \in SUBSET Ids
  PROVE  /\ Firsts(S) \subseteq S
         /\ \A j \in Firsts(S), i \in S : i <= j => i \in Firsts(S)
         /\ S # {} => Firsts(S) # {}
<1>1. MaxEntries \in Nat /\ BatchMax \in Nat \ {0} /\ IsFiniteSet(S)
  <2>1. \A i \in S : i <= MaxEntries
    BY DEF Ids
  <2>2. S \in SUBSET Nat /\ MaxEntries \in Nat
    BY ArchiverAssumption DEF Ids
  <2> QED BY <2>1, <2>2, FS_BoundedSetOfNaturals, ArchiverAssumption
<1>2. ASSUME NEW j \in Firsts(S), NEW i \in S, i <= j PROVE i \in Firsts(S)
  <2> DEFINE A == {k \in S : k <= i}
             B == {k \in S : k <= j}
  <2>0. i \in Nat /\ j \in Nat /\ \A k \in S : k \in Nat
    BY DEF Firsts, Ids
  <2>1. A \subseteq B
    <3>1. i <= j
      BY <1>2
    <3>2. \A k \in S : k <= i => k <= j
      BY <2>0, <3>1
    <3> QED BY <3>2
  <2>2. IsFiniteSet(B)
    BY <1>1, FS_Subset
  <2>3. Cardinality(A) <= Cardinality(B) /\ IsFiniteSet(A)
    BY <2>1, <2>2, FS_Subset
  <2>4. Cardinality(A) \in Nat /\ Cardinality(B) \in Nat
    BY <2>2, <2>3, FS_CardinalityType
  <2>5. Cardinality(B) <= BatchMax
    BY DEF Firsts
  <2> HIDE DEF A, B
  <2>6. Cardinality(A) <= BatchMax
    BY <1>1, <2>3, <2>4, <2>5
  <2> QED BY <2>6 DEF Firsts, A
<1>3. ASSUME S # {} PROVE Firsts(S) # {}
  <2>0. S \in SUBSET Nat
    BY DEF Ids
  <2>1. PICK i \in S : \A j \in S : i <= j
    BY <1>3, <2>0, HasLeast
  <2>2. {k \in S : k <= i} = {i}
    <3>1. \A k \in S : k <= i => k = i
      BY <2>0, <2>1
    <3>2. i <= i
      BY <2>0
    <3> QED BY <3>1, <3>2
  <2>3. Cardinality({k \in S : k <= i}) = 1
    BY <2>2, FS_Singleton
  <2> QED BY <1>1, <2>3 DEF Firsts
<1> QED BY <1>2, <1>3 DEF Firsts

LEMMA CurrentIs ==
  ASSUME TypeOK, batch # {}
  PROVE  Current \in batch
<1> DEFINE Of(s) == {m.id : m \in {k \in batch : k.stream = s}}
<1>1. \A s \in Streams : Of(s) \in SUBSET Nat
  BY DEF TypeOK, Ids
<1>2. \A m \in batch : m.stream \in {"sensor", "control"} /\ m.id \in Nat
  BY DEF TypeOK, Streams, Ids
<1>3. \E m \in batch : \A k \in batch : Before(m, k)
  <2>1. CASE \E k \in batch : k.stream = "sensor"
    <3>1. PICK i \in Of("sensor") : \A j \in Of("sensor") : i <= j
      <4>1. Of("sensor") # {} /\ "sensor" \in Streams
        BY <2>1 DEF Streams
      <4> QED BY <1>1, <4>1, HasLeast
    <3>2. PICK m \in batch : m.stream = "sensor" /\ m.id = i
      BY <3>1
    <3>3. ASSUME NEW k \in batch PROVE Before(m, k)
      BY <1>2, <3>1, <3>2 DEF Before
    <3> QED BY <3>3
  <2>2. CASE ~\E k \in batch : k.stream = "sensor"
    <3>1. PICK i \in Of("control") : \A j \in Of("control") : i <= j
      <4>1. Of("control") # {} /\ "control" \in Streams
        BY <1>2, <2>2 DEF Streams
      <4> QED BY <1>1, <4>1, HasLeast
    <3>2. PICK m \in batch : m.stream = "control" /\ m.id = i
      BY <3>1
    <3>3. ASSUME NEW k \in batch PROVE Before(m, k)
      BY <1>2, <2>2, <3>1, <3>2 DEF Before
    <3> QED BY <3>3
  <2> QED BY <2>1, <2>2
<1> QED BY <1>3 DEF Current

-----------------------------------------------------------------------------
(* Reading *)

LEMMA DeliveredFacts ==
  ASSUME Sound(redis), NEW s \in Streams
  PROVE  /\ New(s) \subseteq redis[s].log /\ New(s) \subseteq Ids
         /\ Delivered[s].log = redis[s].log
         /\ Delivered[s].last \in {NoGroup} \cup 0..MaxEntries
         /\ Delivered[s].last <= Len(made[s])
         /\ redis[s].pel \subseteq Delivered[s].pel
         /\ Delivered[s].pel \subseteq redis[s].pel \cup New(s)
         /\ \A i \in redis[s].log : i > redis[s].last => i \in Delivered[s].pel \/ i > Delivered[s].last
<1> DEFINE fresh == {i \in redis[s].log : i > redis[s].last}
           last == Newest(New(s), redis[s].last)
<1>1. /\ redis[s].log \subseteq Ids /\ redis[s].log \subseteq Sent(s)
      /\ redis[s].pel \subseteq Ids /\ Len(made[s]) \in Int
      /\ redis[s].last \in {NoGroup} \cup 0..MaxEntries /\ redis[s].last <= Len(made[s])
  BY DEF Sound, Group
<1>2. fresh \in SUBSET Ids
  BY <1>1
<1>3. New(s) = Firsts(fresh)
  BY DEF New
<1> HIDE DEF fresh
<1>4. /\ New(s) \subseteq fresh
      /\ \A j \in New(s), i \in fresh : i <= j => i \in New(s)
      /\ fresh # {} => New(s) # {}
  BY <1>2, <1>3, FirstsFacts
<1> USE DEF fresh
<1>5. CASE cursor = "0"
  BY <1>1, <1>4, <1>5 DEF Delivered
<1>6. CASE cursor # "0"
  <2>1. /\ Delivered[s].log = redis[s].log
        /\ Delivered[s].last = last
        /\ Delivered[s].pel = redis[s].pel \cup New(s)
    <3>1. redis[s] \in [log : SUBSET Ids, last : {NoGroup} \cup 0..MaxEntries, pel : SUBSET Ids]
      BY DEF Sound, Group
    <3>2. Delivered[s] = [redis[s] EXCEPT !.last = Newest(New(s), @), !.pel = @ \cup New(s)]
      BY <1>6 DEF Delivered
    <3> HIDE DEF last
    <3>3. last = Newest(New(s), redis[s].last)
      BY DEF last
    <3> QED BY <3>1, <3>2, <3>3
  <2>2. CASE New(s) = {}
    BY <1>1, <1>4, <2>1, <2>2 DEF Newest
  <2>3. CASE New(s) # {}
    <3>1. last \in New(s)
      BY <1>2, <1>4, <2>3, NewestIs
    <3>2. last \in Ids /\ last \in Sent(s)
      BY <1>1, <1>4, <3>1
    <3>3. last \in 0..MaxEntries /\ last <= Len(made[s])
      BY <3>2 DEF Ids, Sent
    <3>4. ASSUME NEW i \in redis[s].log, i > redis[s].last, ~(i > last)
          PROVE  i \in New(s)
      <4>1. i \in fresh /\ i <= last
        BY <1>1, <3>2, <3>4 DEF Ids
      <4> QED BY <1>4, <3>1, <4>1
    <3> QED BY <1>1, <1>4, <2>1, <3>3, <3>4
  <2> QED BY <2>2, <2>3
<1> QED BY <1>5, <1>6

LEMMA ReadKeeps ==
  ASSUME Sound(redis), redis' = Delivered, UNCHANGED <<made, rows>>
  PROVE  Sound(redis)' /\ (Kept(redis) => Kept(redis)')
<1> USE DEF Sent
<1>1. redis \in [Streams -> Group]
  BY DEF Sound
<1>2. redis' \in [Streams -> Group]
  <2>1. CASE cursor = "0"
    BY <1>1, <2>1 DEF Delivered
  <2>2. CASE cursor # "0"
    <3>1. ASSUME NEW s \in Streams PROVE redis'[s] \in Group
      <4>1. redis'[s] = [redis[s] EXCEPT !.last = Newest(New(s), @), !.pel = @ \cup New(s)]
        BY <2>2 DEF Delivered
      <4>2. redis[s] \in Group
        BY <1>1
      <4>3. redis'[s].last \in {NoGroup} \cup 0..MaxEntries /\ New(s) \subseteq Ids
        BY DeliveredFacts
      <4> QED BY <4>1, <4>2, <4>3 DEF Group
    <3>2. redis' = [s \in Streams |-> redis'[s]]
      BY <2>2 DEF Delivered
    <3> QED BY <3>1, <3>2
  <2> QED BY <2>1, <2>2
<1>3. ASSUME NEW s \in Streams
      PROVE  /\ redis'[s].log \subseteq Sent(s) /\ redis'[s].pel \subseteq Sent(s)
             /\ redis'[s].last <= Len(made[s])
             /\ ~Trimming => redis'[s].pel \subseteq redis'[s].log
  BY DeliveredFacts DEF Sound
<1>4. ASSUME Kept(redis), NEW s \in Streams, NEW i \in redis'[s].log, Good(s, i)
      PROVE  HasRow(s, i) \/ i \in redis'[s].pel \/ i > redis'[s].last
  <2>1. i \in redis[s].log
    BY <1>4, DeliveredFacts
  <2>2. HasRow(s, i) \/ i \in redis[s].pel \/ i > redis[s].last
    BY <1>4, <2>1 DEF Kept
  <2> QED BY <2>1, <2>2, DeliveredFacts
<1> QED BY <1>2, <1>3, <1>4 DEF Sound, Kept, Good, Made, HasRow

\* What an acknowledgement does to the stream of the message
LEMMA AckFacts ==
  ASSUME TypeOK, Sound(redis), batch # {}, redis' = Acknowledged, UNCHANGED made
  PROVE  /\ Sound(redis)'
         /\ \A s \in Streams : redis'[s].log = redis[s].log /\ redis'[s].last = redis[s].last
         /\ \A s \in Streams : redis'[s].pel =
              IF s = Current.stream THEN redis[s].pel \ {Current.id} ELSE redis[s].pel
<1> USE DEF Sent
<1>1. Current.stream \in Streams
  BY CurrentIs DEF TypeOK
<1>2. redis \in [Streams -> Group]
  BY DEF Sound
<1>3. redis' = [redis EXCEPT ![Current.stream].pel = @ \ {Current.id}]
  BY DEF Acknowledged
<1>4. /\ \A s \in Streams : redis'[s].log = redis[s].log /\ redis'[s].last = redis[s].last
      /\ \A s \in Streams : redis'[s].pel =
           IF s = Current.stream THEN redis[s].pel \ {Current.id} ELSE redis[s].pel
      /\ redis' \in [Streams -> Group]
  <2> DEFINE c == Current.stream
             d == Current.id
  <2>1. c \in Streams
    BY <1>1
  <2>2. redis' = [redis EXCEPT ![c] = [redis[c] EXCEPT !.pel = redis[c].pel \ {d}]]
    BY <1>3
  <2> HIDE DEF c, d
  <2>3. \A s \in Streams :
          redis'[s] = IF s = c THEN [redis[c] EXCEPT !.pel = redis[c].pel \ {d}] ELSE redis[s]
    BY <1>2, <2>1, <2>2
  <2>4. redis[c] \in [log : SUBSET Ids, last : {NoGroup} \cup 0..MaxEntries, pel : SUBSET Ids]
    BY <1>2, <2>1 DEF Group
  <2>5. /\ redis'[c] \in [log : SUBSET Ids, last : {NoGroup} \cup 0..MaxEntries, pel : SUBSET Ids]
        /\ redis'[c].log = redis[c].log /\ redis'[c].last = redis[c].last
        /\ redis'[c].pel = redis[c].pel \ {d}
    BY <2>1, <2>3, <2>4
  <2>6. redis' \in [Streams -> Group]
    BY <1>2, <2>1, <2>2, <2>3, <2>5 DEF Group
  <2> QED BY <2>3, <2>5, <2>6 DEF c, d
<1>5. Sound(redis)'
  BY <1>4 DEF Sound
<1> QED BY <1>4, <1>5

\* Only a message with its row, or one that can have none, leaves the group.
LEMMA AckKeeps ==
  ASSUME TypeOK, Sound(redis), AckInv, BatchInv, Kept(redis),
         pc = "ack", redis' = Acknowledged, UNCHANGED <<made, rows>>
  PROVE  Kept(redis)'
<1> DEFINE m == Current
<1>1. batch # {} /\ m \in batch
  BY CurrentIs DEF AckInv
<1>2. m.stream \in Streams /\ m.id \in Sent(m.stream)
  BY <1>1 DEF BatchInv, TypeOK
<1>3. Good(m.stream, m.id) => HasRow(m.stream, m.id) \/ m.id \notin redis[m.stream].log
  BY <1>1, <1>2 DEF BatchInv, AckInv, Good, Accepted
<1>4. ASSUME NEW s \in Streams, NEW i \in redis'[s].log, Good(s, i)
      PROVE  HasRow(s, i) \/ i \in redis'[s].pel \/ i > redis'[s].last
  <2>1. i \in redis[s].log /\ (HasRow(s, i) \/ i \in redis[s].pel \/ i > redis[s].last)
    BY <1>1, <1>4, AckFacts DEF Kept
  <2>2. CASE s = m.stream /\ i = m.id
    BY <1>3, <1>4, <2>1, <2>2
  <2>3. CASE ~(s = m.stream /\ i = m.id)
    BY <1>1, <2>1, <2>3, AckFacts
  <2> QED BY <2>2, <2>3
<1> QED BY <1>4 DEF Kept, Good, Made, HasRow

LEMMA SameRows ==
  ASSUME rows' = rows
  PROVE  \A s, i : HasRow(s, i)' <=> HasRow(s, i)
BY DEF HasRow

LEMMA RowsInvKept ==
  ASSUME RowsInv, UNCHANGED <<made, rows>>, batch' \in SUBSET batch
  PROVE  RowsInv'
BY DEF RowsInv, BodyInv, DateInv, Sent

\* An insert keeps every row and gives the entry one, with the date of the entry.
LEMMA RowsAreAdded ==
  ASSUME TypeOK, RowsInv, batch # {}, Current.body \in Accepted, rows' = Inserted(Current),
         UNCHANGED made
  PROVE  /\ DateInv' /\ rows' \in [Streams -> SUBSET Row]
         /\ \E r \in rows'[Current.stream] : r.event_id = Current.id
         /\ \A s \in Streams, i \in Ids : HasRow(s, i) => HasRow(s, i)'
<1> DEFINE m == Current
           new == [event_id |-> m.id, ts |-> ts(m.body)]
<1>1. /\ m \in batch /\ m.stream \in Streams /\ m.id \in Ids
      /\ made[m.stream] \in Seq(Kinds) /\ rows \in [Streams -> SUBSET Row] /\ now \in Moments
  BY CurrentIs DEF TypeOK
<1>2. m.id \in Sent(m.stream) /\ m.body = made[m.stream][m.id] /\ m.body \in Kinds
  <2>1. m.id \in Sent(m.stream) /\ m.body = made[m.stream][m.id]
    BY <1>1 DEF RowsInv, BodyInv, Accepted
  <2> QED BY <1>1, <2>1, ElementOfSeq DEF Sent
<1>3. ts(m.body) \in Instants /\ (Datable => ts(m.body) = DateOf(m.body))
  BY <1>1, <1>2 DEF ts, Instants, Datable, DateOf, Accepted
<1>4. new \in Row /\ new.event_id = m.id /\ new.ts = ts(m.body)
  BY <1>1, <1>3 DEF Row
<1> HIDE DEF new
<1>5. \A s \in Streams : rows'[s] = IF s = m.stream THEN rows[s] \cup {new} ELSE rows[s]
  BY <1>1 DEF Inserted, new
<1>6. rows' \in [Streams -> SUBSET Row]
  BY <1>1, <1>4 DEF Inserted, new
<1>7. /\ \E r \in rows'[m.stream] : r.event_id = m.id
      /\ \A s \in Streams, i \in Ids : HasRow(s, i) => HasRow(s, i)'
  <2>1. new \in rows'[m.stream] /\ \A s \in Streams : rows[s] \in SUBSET rows'[s]
    BY <1>1, <1>5
  <2>2. \E r \in rows'[m.stream] : r.event_id = m.id
    BY <1>4, <2>1
  <2> QED BY <2>1, <2>2 DEF HasRow
<1>8. ASSUME NEW s \in Streams, NEW r \in rows'[s]
      PROVE  r.event_id \in Sent(s) /\ (Datable => r.ts = DateOf(made[s][r.event_id]))
  <2>1. CASE r \in rows[s]
    BY <2>1 DEF RowsInv, DateInv
  <2>2. CASE r \notin rows[s]
    <3>1. r = new /\ s = m.stream
      BY <1>5, <1>8, <2>2
    <3> QED BY <1>2, <1>3, <1>4, <3>1
  <2> QED BY <2>1, <2>2
<1> QED BY <1>6, <1>7, <1>8 DEF DateInv, Sent

-----------------------------------------------------------------------------
(* The producer *)

LEMMA MadeFacts ==
  ASSUME TypeOK, NEW s \in Streams, NEW kind \in Kinds, Emit(s, kind)
  PROVE  /\ made' \in [Streams -> Seq(Kinds)]
         /\ \A t \in Streams : Len(made'[t]) = IF t = s THEN Len(made[t]) + 1 ELSE Len(made[t])
         /\ \A t \in Streams : \A i \in 1..Len(made[t]) : made'[t][i] = made[t][i]
         /\ \A t \in Streams : Len(made[t]) \in Nat
         /\ Len(made[s]) + 1 \in Ids
<1> DEFINE q == made[s]
           r == Append(q, kind)
<1>1. made \in [Streams -> Seq(Kinds)] /\ q \in Seq(Kinds)
  BY DEF TypeOK
<1>2. r \in Seq(Kinds) /\ Len(r) = Len(q) + 1 /\ \A i \in 1..Len(q) : r[i] = q[i]
  BY <1>1, AppendProperties
<1>3. made' = [made EXCEPT ![s] = r]
  BY DEF Emit
<1> HIDE DEF r
<1>4. \A t \in Streams : made'[t] = IF t = s THEN r ELSE made[t]
  BY <1>1, <1>3
<1>5. made' \in [Streams -> Seq(Kinds)]
  BY <1>1, <1>2, <1>3
<1>6. \A t \in Streams : Len(made[t]) \in Nat
  BY <1>1, LenProperties
<1>7. Len(made[s]) + 1 \in Ids
  BY <1>6, ArchiverAssumption DEF Emit, Ids
<1> QED BY <1>2, <1>4, <1>5, <1>6, <1>7

LEMMA EmitFacts ==
  ASSUME TypeOK, Sound(redis), NEW s \in Streams, NEW kind \in Kinds, Emit(s, kind)
  PROVE  /\ redis' \in [Streams -> Group]
         /\ \A t \in Streams : redis'[t].last = redis[t].last /\ redis'[t].pel = redis[t].pel
         /\ \A t \in Streams :
              redis'[t].log \subseteq IF t = s THEN redis[t].log \cup {Len(made[t]) + 1} ELSE redis[t].log
         /\ ~Trimming => \A t \in Streams : redis[t].log \subseteq redis'[t].log
<1> DEFINE log == redis[s].log \cup {Len(made[s]) + 1}
<1>1. redis \in [Streams -> Group] /\ Len(made[s]) + 1 \in Ids
  BY MadeFacts DEF Sound
<1>2. redis[s] \in [log : SUBSET Ids, last : {NoGroup} \cup 0..MaxEntries, pel : SUBSET Ids]
  BY <1>1 DEF Group
<1>3. PICK kept \in SUBSET log :
        /\ redis' = [redis EXCEPT ![s] = [redis[s] EXCEPT !.log = kept]]
        /\ ~Trimming => kept = log
  BY <1>1 DEF Emit
<1>4. kept \in SUBSET Ids
  BY <1>1, <1>2
<1>5. /\ redis'[s] \in [log : SUBSET Ids, last : {NoGroup} \cup 0..MaxEntries, pel : SUBSET Ids]
      /\ redis'[s].log = kept /\ redis'[s].last = redis[s].last /\ redis'[s].pel = redis[s].pel
  BY <1>1, <1>2, <1>3, <1>4
<1>6. \A t \in Streams : t # s => redis'[t] = redis[t]
  BY <1>1, <1>3
<1>7. redis' \in [Streams -> Group]
  BY <1>1, <1>3, <1>5 DEF Group
<1> QED BY <1>3, <1>5, <1>6, <1>7

\* A state of Redis stays sound when more is made.
LEMMA MoreMade ==
  ASSUME TypeOK, NEW s \in Streams, NEW kind \in Kinds, Emit(s, kind)
  PROVE  \A t \in Streams : Sent(t) \subseteq Sent(t)' /\ Len(made[t]) <= Len(made'[t])
BY MadeFacts DEF Sent

LEMMA EmitKeeps ==
  ASSUME SoundInv, NEW s \in Streams, NEW kind \in Kinds, Emit(s, kind)
  PROVE  SoundInv' /\ (KeptInv => KeptInv')
<1> USE DEF SoundInv
<1>1. UNCHANGED <<disk, rows, now, pc, cursor, batch>>
  BY DEF Emit
<1>2. Sound(redis)'
  <2>1. ASSUME NEW t \in Streams
        PROVE  /\ redis'[t].log \subseteq Sent(t)' /\ redis'[t].pel \subseteq Sent(t)'
               /\ redis'[t].last <= Len(made'[t])
               /\ ~Trimming => redis'[t].pel \subseteq redis'[t].log
    <3>1. Len(made[t]) \in Nat /\ redis[t].last \in Int
      BY MadeFacts DEF Sound, Group, NoGroup
    <3>2. t = s => Len(made[t]) + 1 \in Sent(t)'
      BY MadeFacts DEF Sent
    <3>3. redis[t].log \subseteq Sent(t)' /\ redis[t].pel \subseteq Sent(t)'
      BY MoreMade DEF Sound
    <3>4. redis[t].last <= Len(made'[t])
      <4>1. redis[t].last <= Len(made[t])
        BY Zenon DEF Sound
      <4>2. Len(made'[t]) \in {Len(made[t]), Len(made[t]) + 1}
        BY <3>1, MadeFacts
      <4> QED BY <3>1, <4>1, <4>2
    <3>5. /\ redis'[t].last = redis[t].last /\ redis'[t].pel = redis[t].pel
          /\ redis'[t].log \subseteq IF t = s THEN redis[t].log \cup {Len(made[t]) + 1} ELSE redis[t].log
          /\ ~Trimming => redis[t].log \subseteq redis'[t].log
      BY EmitFacts
    <3>6. redis'[t].log \subseteq Sent(t)'
      BY <3>2, <3>3, <3>5, Zenon
    <3>7. ~Trimming => redis'[t].pel \subseteq redis'[t].log
      BY <3>5, Zenon DEF Sound
    <3> QED BY <3>3, <3>4, <3>5, <3>6, <3>7, Zenon
  <2> QED BY <2>1, EmitFacts DEF Sound
<1>3. Sound(disk)'
  <2>1. ASSUME NEW t \in Streams
        PROVE  disk[t].last <= Len(made'[t])
    <3>1. Len(made[t]) \in Nat /\ disk[t].last \in Int
      BY MadeFacts DEF Sound, Group, NoGroup
    <3>2. disk[t].last <= Len(made[t])
      BY Zenon DEF Sound
    <3>3. Len(made'[t]) \in {Len(made[t]), Len(made[t]) + 1}
      BY <3>1, MadeFacts
    <3> QED BY <3>1, <3>2, <3>3
  <2> QED BY <1>1, <2>1, MoreMade DEF Sound
<1>4. TypeOK'
  <2>1. \A t \in Streams : Len(made'[t]) <= MaxEntries
    <3>1. Len(made[s]) + 1 <= MaxEntries
      BY MadeFacts DEF Ids
    <3>2. \A t \in Streams : Len(made[t]) <= MaxEntries
      BY DEF TypeOK
    <3> QED BY <3>1, <3>2, MadeFacts
  <2> QED BY <1>1, <2>1, EmitFacts, MadeFacts DEF TypeOK
<1>5. AckInv' /\ RowsInv'
  <2>1. AckInv'
    BY <1>1 DEF AckInv, Current, HasRow
  <2>2. \A t \in Streams : \A i \in Sent(t) : i \in Sent(t)' /\ made'[t][i] = made[t][i]
    BY MoreMade, MadeFacts DEF Sent
  <2>3. BodyInv'
    BY <1>1, <2>2 DEF RowsInv, BodyInv, TypeOK
  <2>4. DateInv'
    BY <1>1, <2>2 DEF RowsInv, DateInv
  <2> QED BY <2>1, <2>3, <2>4 DEF RowsInv
<1>6. ASSUME NEW t \in Streams, NEW i \in Sent(t)
      PROVE  Good(t, i)' <=> Good(t, i)
  <2>1. i \in Sent(t)' /\ made'[t][i] = made[t][i]
    BY MoreMade, MadeFacts DEF Sent
  <2>2. DOMAIN made[t] = Sent(t) /\ DOMAIN made'[t] = Sent(t)'
    BY MadeFacts, LenProperties DEF TypeOK, Sent
  <2> QED BY <2>1, <2>2 DEF Good, Made
<1>7. ASSUME KeptInv PROVE Kept(redis)'
  <2> SUFFICES ASSUME NEW t \in Streams, NEW i \in redis'[t].log, Good(t, i)'
               PROVE  HasRow(t, i) \/ i \in redis[t].pel \/ i > redis[t].last
    BY <1>1, SameRows, EmitFacts DEF Kept
  <2>1. CASE i \in redis[t].log
    BY <1>6, <1>7, <2>1 DEF KeptInv, Kept, Sound
  <2>2. CASE i \notin redis[t].log
    <3>1. i = Len(made[t]) + 1
      BY <2>2, EmitFacts
    <3>2. Len(made[t]) \in Nat /\ redis[t].last \in Int /\ redis[t].last <= Len(made[t])
      BY MadeFacts DEF Sound, Group, NoGroup
    <3> QED BY <3>1, <3>2
  <2> QED BY <2>1, <2>2
<1>8. ASSUME KeptInv PROVE Kept(disk)'
  BY <1>1, <1>6, <1>8, SameRows DEF KeptInv, Kept, Sound
<1>9. ASSUME KeptInv PROVE BatchInv'
  <2> SUFFICES ASSUME NEW m \in batch
               PROVE  /\ m.id \in Sent(m.stream)'
                      /\ \/ m.body = made'[m.stream][m.id]
                         \/ Trimming /\ m.body = "malformed" /\ m.id \notin redis'[m.stream].log
    BY <1>1 DEF BatchInv
  <2>1. m.stream \in Streams
    BY DEF TypeOK
  <2>2. /\ m.id \in Sent(m.stream)
        /\ \/ m.body = made[m.stream][m.id]
           \/ Trimming /\ m.body = "malformed" /\ m.id \notin redis[m.stream].log
    BY <1>9 DEF KeptInv, BatchInv
  <2>3. m.id \in Sent(m.stream)' /\ made'[m.stream][m.id] = made[m.stream][m.id]
    BY <2>1, <2>2, MoreMade, MadeFacts DEF Sent
  <2>4. m.id # Len(made[m.stream]) + 1
    BY <2>1, <2>2, MadeFacts DEF Sent
  <2>5. m.id \notin redis[m.stream].log => m.id \notin redis'[m.stream].log
    BY <2>1, <2>4, EmitFacts
  <2> QED BY <2>2, <2>3, <2>5
<1> QED BY <1>2, <1>3, <1>4, <1>5, <1>7, <1>8, <1>9 DEF KeptInv

-----------------------------------------------------------------------------
(* Redis and the consumer *)

NotBoth == ~(Trimming /\ RedisFails)

LEMMA RedisKeeps ==
  ASSUME SoundInv, Fsync \/ RedisRestart
  PROVE  SoundInv' /\ (KeptInv /\ NotBoth => KeptInv')
<1> USE DEF SoundInv
<1>1. CASE Fsync
  <2>1. UNCHANGED <<made, redis, rows, now, pc, cursor, batch>> /\ disk' = redis
    BY <1>1 DEF Fsync
  <2>2. RowsInv' /\ AckInv' /\ Sound(redis)' /\ Sound(disk)'
    BY <2>1, RowsInvKept DEF Sound, Sent, AckInv, Current, HasRow
  <2>3. TypeOK'
    BY <2>1 DEF TypeOK
  <2>4. KeptInv => KeptInv'
    BY <2>1, SameRows DEF KeptInv, Kept, BatchInv, Good, Made, Sent
  <2> QED BY <2>2, <2>3, <2>4
<1>2. CASE RedisRestart
  <2>1. /\ UNCHANGED <<made, disk, rows, now, pc, cursor, batch>> /\ redis' = disk
        /\ RedisFails
    BY <1>2 DEF RedisRestart
  <2>2. RowsInv' /\ AckInv' /\ Sound(redis)' /\ Sound(disk)'
    BY <2>1, RowsInvKept DEF Sound, Sent, AckInv, Current, HasRow
  <2>3. TypeOK'
    BY <2>1 DEF TypeOK
  <2>4. KeptInv /\ NotBoth => KeptInv'
    BY <2>1, SameRows DEF KeptInv, Kept, BatchInv, Good, Made, Sent, NotBoth
  <2> QED BY <2>2, <2>3, <2>4
<1> QED BY <1>1, <1>2

LEMMA StartKeeps ==
  ASSUME SoundInv, Start
  PROVE  SoundInv' /\ (KeptInv => KeptInv')
<1> USE DEF SoundInv
<1>1. ASSUME NEW s \in Streams
      PROVE  /\ redis'[s] \in Group
             /\ redis'[s].log = redis[s].log /\ redis'[s].pel = redis[s].pel
             /\ redis'[s].last = IF redis[s].last = NoGroup THEN 0 ELSE redis[s].last
  <2>1. redis[s] \in [log : SUBSET Ids, last : {NoGroup} \cup 0..MaxEntries, pel : SUBSET Ids]
    BY DEF Sound, Group
  <2>2. redis'[s] = IF redis[s].last = NoGroup THEN [redis[s] EXCEPT !.last = 0] ELSE redis[s]
    BY DEF Start
  <2>3. 0 \in 0..MaxEntries
    BY ArchiverAssumption
  <2> QED BY <2>1, <2>2, <2>3 DEF Group
<1>2. redis' \in [Streams -> Group]
  <2>1. redis' = [s \in Streams |-> redis'[s]]
    BY DEF Start
  <2> QED BY <1>1, <2>1
<1>3. \A s \in Streams : Len(made[s]) \in Nat
  BY LenProperties DEF TypeOK
<1>4. Sound(redis)'
  BY <1>1, <1>2, <1>3 DEF Start, Sound, Sent
<1>5. SoundInv'
  BY <1>2, <1>4, RowsInvKept DEF Start, TypeOK, RowsInv, BodyInv, DateInv, AckInv, Sound, Sent
<1>6. ASSUME KeptInv PROVE Kept(redis)'
  <2> SUFFICES ASSUME NEW s \in Streams, NEW i \in redis'[s].log, Good(s, i)
               PROVE  HasRow(s, i) \/ i \in redis'[s].pel \/ i > redis'[s].last
    BY DEF Start, Kept, Good, Made, HasRow
  <2>1. HasRow(s, i) \/ i \in redis[s].pel \/ i > redis[s].last
    BY <1>1, <1>6 DEF KeptInv, Kept
  <2>2. i \in Nat /\ i > 0
    BY <1>1 DEF Sound, Group, Ids
  <2> QED BY <1>1, <2>1, <2>2
<1>7. ASSUME KeptInv PROVE Kept(disk)' /\ BatchInv'
  BY <1>7 DEF KeptInv, Kept, BatchInv, Start, Good, Made, HasRow, Sent
<1> QED BY <1>5, <1>6, <1>7 DEF KeptInv

LEMMA ReadStepKeeps ==
  ASSUME SoundInv, ReadOk \/ ReadFails \/ ReadRepeated
  PROVE  SoundInv' /\ (KeptInv => KeptInv')
<1> USE DEF SoundInv
<1>1. UNCHANGED <<made, disk, rows, now>> /\ redis' \in {redis, Delivered}
  BY DEF ReadOk, ReadFails, ReadRepeated
<1>2. Sound(redis)' /\ (Kept(redis) => Kept(redis)')
  BY <1>1, ReadKeeps DEF Sound, Sent, Kept, Good, Made, HasRow
<1>3. \A s \in Streams : redis'[s].log = redis[s].log
  BY <1>1, DeliveredFacts
<1>4. Sound(disk)' /\ DateInv' /\ (KeptInv => Kept(disk)')
  BY <1>1 DEF Sound, Sent, RowsInv, DateInv, KeptInv, Kept, Good, Made, HasRow
<1>5. CASE ReadOk
  <2>1. ASSUME NEW m \in batch'
        PROVE  /\ m \in [stream : Streams, id : Ids, body : AllKinds]
               /\ m.id \in Sent(m.stream)
               /\ \/ m.body = made[m.stream][m.id]
                  \/ Trimming /\ m.body = "malformed" /\ m.id \notin redis[m.stream].log
    <3>1. PICK s \in Streams, i \in Ids : i \in Answer(s) /\ m = [stream |-> s, id |-> i, body |-> Body(s, i)]
      BY <1>5, <2>1 DEF ReadOk
    <3>2. i \in redis[s].pel \cup redis[s].log
      <4>1. redis[s].pel \in SUBSET Ids
        BY DEF Sound, Group
      <4>2. Pending(s) \subseteq redis[s].pel
        BY <4>1, FirstsFacts DEF Pending
      <4> QED BY <3>1, <4>2, DeliveredFacts DEF Answer
    <3>3. i \in Sent(s) /\ (i \notin redis[s].log => Trimming)
      BY <3>2, ArchiverAssumption DEF Sound
    <3>4. made[s][i] \in AllKinds
      <4>1. made[s] \in Seq(Kinds)
        BY DEF TypeOK
      <4> QED BY <3>3, <4>1, ElementOfSeq, ArchiverAssumption DEF Sent
    <3>5. Body(s, i) \in AllKinds
      BY <3>4 DEF Body, AllKinds
    <3> QED BY <3>1, <3>3, <3>5 DEF Body
  <2>2. TypeOK' /\ AckInv'
    BY <1>1, <1>2, <1>5, <2>1 DEF ReadOk, TypeOK, AckInv, Sound
  <2>3. BatchInv'
    <3> SUFFICES ASSUME NEW m \in batch'
                 PROVE  /\ m.id \in Sent(m.stream)
                        /\ \/ m.body = made[m.stream][m.id]
                           \/ Trimming /\ m.body = "malformed" /\ m.id \notin redis'[m.stream].log
      BY <1>1 DEF BatchInv, Sent
    <3>1. m.stream \in Streams
      BY <2>1
    <3> QED BY <1>3, <2>1, <3>1
  <2>4. RowsInv'
    BY <1>1, <1>4, <2>1 DEF RowsInv, BodyInv, Sent
  <2> QED BY <1>2, <1>4, <2>2, <2>3, <2>4 DEF KeptInv
<1>6. CASE ReadFails \/ ReadRepeated
  <2>1. pc' \in {"backoff", "again"} /\ cursor' = cursor /\ (batch' = {} \/ batch' = batch)
    BY <1>6 DEF ReadFails, ReadRepeated
  <2>2. TypeOK' /\ AckInv'
    BY <1>1, <1>2, <2>1 DEF TypeOK, AckInv, Sound
  <2>3. BatchInv => BatchInv'
    BY <1>1, <1>3, <2>1 DEF BatchInv, Sent, TypeOK
  <2>4. RowsInv'
    BY <1>1, <2>1, RowsInvKept
  <2> QED BY <1>2, <1>4, <2>2, <2>3, <2>4 DEF KeptInv
<1> QED BY <1>5, <1>6

LEMMA InsertKeeps ==
  ASSUME SoundInv, InsertOk \/ InsertFails
  PROVE  SoundInv' /\ (KeptInv => KeptInv')
<1> USE DEF SoundInv
<1>1. /\ UNCHANGED <<made, redis, disk, now, cursor>> /\ pc = "insert" /\ batch # {}
      /\ rows' = rows \/ (Current.body \in Accepted /\ rows' = Inserted(Current))
      /\ batch' \in {batch, {}}
  BY DEF InsertOk, InsertFails, AckInv
<1>2. /\ DateInv' /\ rows' \in [Streams -> SUBSET Row]
      /\ \A s \in Streams, i \in Ids : HasRow(s, i) => HasRow(s, i)'
  <2>1. CASE rows' = rows
    BY <1>1, <2>1 DEF RowsInv, DateInv, TypeOK, HasRow, Sent
  <2>2. CASE Current.body \in Accepted /\ rows' = Inserted(Current)
    BY <1>1, <2>2, RowsAreAdded
  <2> QED BY <1>1, <2>1, <2>2
<1>3. Sound(redis)' /\ Sound(disk)'
  BY <1>1 DEF Sound, Sent
<1>4. ASSUME NEW r \in {redis, disk}, Kept(r) PROVE Kept(r)'
  <2>1. \A s \in Streams : r[s].log \subseteq Ids
    BY DEF Sound, Group
  <2> QED BY <1>1, <1>2, <1>4, <2>1 DEF Kept, Good, Made
<1>5. RowsInv' /\ (BatchInv => BatchInv')
  BY <1>1, <1>2 DEF RowsInv, BodyInv, BatchInv, Sent
<1>6. TypeOK' /\ AckInv'
  <2>1. CASE InsertOk
    <3>1. batch' = batch /\ pc' = "ack" /\ Current' = Current
      BY <2>1 DEF InsertOk, Current
    <3>2. \/ Current.body = "malformed"
          \/ Current.body \in Accepted /\ \E r \in rows'[Current.stream] : r.event_id = Current.id
      BY <1>1, <2>1, RowsAreAdded DEF InsertOk
    <3> QED BY <1>1, <1>2, <3>1, <3>2 DEF TypeOK, AckInv, HasRow
  <2>2. CASE InsertFails
    BY <1>1, <1>2, <2>2 DEF InsertFails, TypeOK, AckInv
  <2> QED BY <2>1, <2>2
<1> QED BY <1>1, <1>3, <1>4, <1>5, <1>6 DEF KeptInv

LEMMA AckStepKeeps ==
  ASSUME SoundInv, AckOk \/ AckFails
  PROVE  SoundInv' /\ (KeptInv => KeptInv')
<1> USE DEF SoundInv
<1>1. /\ UNCHANGED <<made, disk, rows, now, cursor>> /\ pc = "ack" /\ batch # {}
      /\ redis' \in {redis, Acknowledged}
  BY DEF AckOk, AckFails, AckInv
<1>2. Sound(redis)' /\ \A s \in Streams : redis'[s].log = redis[s].log
  BY <1>1, AckFacts DEF Sound, Sent
<1>3. KeptInv => Kept(redis)'
  BY <1>1, AckKeeps DEF KeptInv, Kept, Good, Made, HasRow
<1>4. Sound(disk)' /\ (KeptInv => Kept(disk)')
  BY <1>1 DEF Sound, Sent, KeptInv, Kept, Good, Made, HasRow
<1>5. batch' \subseteq batch /\ pc' \in {"read", "insert", "backoff"} /\ (pc' = "insert" => batch' # {})
  BY DEF AckOk, AckFails
<1>6. TypeOK' /\ AckInv'
  BY <1>1, <1>2, <1>5 DEF TypeOK, AckInv, Sound
<1>7. BatchInv => BatchInv'
  BY <1>1, <1>2, <1>5 DEF BatchInv, Sent, TypeOK
<1>8. RowsInv'
  BY <1>1, <1>5, RowsInvKept
<1> QED BY <1>2, <1>3, <1>4, <1>6, <1>7, <1>8 DEF KeptInv

LEMMA OthersKeep ==
  ASSUME SoundInv, BackOff \/ Stop \/ ClockMoves \/ UNCHANGED vars
  PROVE  SoundInv' /\ (KeptInv => KeptInv')
<1>1. /\ UNCHANGED <<made, redis, disk, rows>> /\ batch' \in {batch, {}}
      /\ cursor' \in {"0", cursor} /\ (UNCHANGED <<pc, batch>> \/ pc' \in {"read", "down"})
      /\ now' \in Moments
  BY DEF BackOff, Stop, ClockMoves, vars, SoundInv, TypeOK
<1>2. RowsInv'
  BY <1>1, RowsInvKept DEF SoundInv
<1>3. TypeOK' /\ Sound(redis)' /\ Sound(disk)'
  BY <1>1 DEF SoundInv, TypeOK, Sound, Sent
<1>4. AckInv'
  BY <1>1 DEF SoundInv, AckInv, Current, HasRow
<1>5. KeptInv => KeptInv'
  BY <1>1, SameRows DEF KeptInv, Kept, Good, Made, BatchInv, Sent
<1> QED BY <1>2, <1>3, <1>4, <1>5 DEF SoundInv

LEMMA ArchiverStart ==
  ASSUME Init
  PROVE  SoundInv /\ KeptInv
<1>1. <<>> \in Seq(Kinds) /\ Len(<<>>) = 0
  BY EmptySeq
<1>2. [log |-> {}, last |-> NoGroup, pel |-> {}] \in Group /\ 0 \in 0..1
  BY DEF Group
<1>3. MaxEntries \in Nat /\ NoGroup <= 0
  BY ArchiverAssumption DEF NoGroup
<1>4. /\ made \in [Streams -> Seq(Kinds)] /\ \A s \in Streams : Len(made[s]) = 0
      /\ redis \in [Streams -> Group]
      /\ \A s \in Streams : redis[s].log = {} /\ redis[s].pel = {} /\ redis[s].last = NoGroup
      /\ disk = redis /\ pc = "down" /\ cursor = "0" /\ batch = {}
      /\ RowsInv /\ rows \in [Streams -> SUBSET Row] /\ now \in Moments
  BY <1>1, <1>2 DEF Init, RowsInv, BodyInv, DateInv
<1>5. TypeOK
  BY <1>3, <1>4 DEF TypeOK
<1>6. Sound(redis) /\ Sound(disk)
  BY <1>3, <1>4 DEF Sound
<1> QED BY <1>4, <1>5, <1>6 DEF SoundInv, KeptInv, AckInv, Kept, BatchInv

LEMMA ArchiverKeeps ==
  ASSUME SoundInv, [Next]_vars
  PROVE  SoundInv' /\ (KeptInv /\ NotBoth => KeptInv')
BY EmitKeeps, RedisKeeps, StartKeeps, ReadStepKeeps, InsertKeeps, AckStepKeeps, OthersKeep
   DEF Next, Work, Trouble, Environment

-----------------------------------------------------------------------------
(* What the runs check follows *)

\* The types of the archiver, of Redis and of the database.
THEOREM ArchiverTypeCorrect == Spec => []TypeOK
<1>1. Init => SoundInv
  BY ArchiverStart
<1>2. SoundInv /\ [Next]_vars => SoundInv'
  BY ArchiverKeeps
<1>3. SoundInv => TypeOK
  BY DEF SoundInv
<1> QED BY <1>1, <1>2, <1>3, PTL DEF Spec

\* No failure, replay or fall-back writes a second row of an entry, whenever it is
\* inserted again: every row is dated by its entry, not by its insert.  That needs ids
\* with a date, or entries that all have a ts_ms.
THEOREM NoSecondRow ==
  ASSUME Datable
  PROVE  Spec => []OneRowEach
<1>1. Init => SoundInv
  BY ArchiverStart
<1>2. SoundInv /\ [Next]_vars => SoundInv'
  BY ArchiverKeeps
<1>3. ASSUME SoundInv PROVE OneRowEach
  <2> SUFFICES ASSUME NEW s \in Streams, NEW q \in rows[s], NEW r \in rows[s],
                      q.event_id = r.event_id
               PROVE  q = r
    BY DEF OneRowEach
  <2>1. q \in [event_id : Ids, ts : Instants] /\ r \in [event_id : Ids, ts : Instants]
    BY <1>3 DEF SoundInv, TypeOK, Row
  <2>2. q.ts = r.ts
    BY <1>3 DEF SoundInv, RowsInv, DateInv
  <2> QED BY <2>1, <2>2
<1> QED BY <1>1, <1>2, <1>3, PTL DEF Spec

\* No good entry is forgotten while it is in its stream, for any number of entries
\* and any size of a batch; trimming and a Redis that falls back are not combined.
THEOREM NothingIsForgotten ==
  ASSUME NotBoth
  PROVE  Spec => []NothingForgotten
<1>1. Init => SoundInv /\ KeptInv
  BY ArchiverStart
<1>2. SoundInv /\ KeptInv /\ [Next]_vars => (SoundInv /\ KeptInv)'
  BY ArchiverKeeps
<1>3. KeptInv => NothingForgotten
  BY DEF KeptInv, Kept, NothingForgotten
<1> QED BY <1>1, <1>2, <1>3, PTL DEF Spec

-----------------------------------------------------------------------------
(* Replays come first *)

\* While new entries are followed, what is pending is what is being handled.
ReplayInv ==
  /\ pc # "again"
  /\ pc \in {"read", "backoff"} => batch = {}
  /\ pc \in {"read", "insert", "ack"} /\ cursor = ">" =>
       \A s \in Streams : \A i \in redis[s].pel : \E m \in batch : m.stream = s /\ m.id = i

Undisturbed == ~ClientRetries /\ ~RedisFails

LEMMA ReplayRead ==
  ASSUME SoundInv, ReplayInv, ReadOk, Undisturbed
  PROVE  ReplayInv'
<1> USE DEF SoundInv
<1>1. pc = "read" /\ batch = {} /\ cursor \in {"0", ">"}
  BY DEF ReadOk, Reading, ReplayInv, TypeOK
<1>2. ASSUME NEW s \in Streams, NEW i \in Answer(s)
      PROVE  \E m \in batch' : m.stream = s /\ m.id = i
  <2>1. i \in Ids
    <3>1. redis[s].pel \in SUBSET Ids
      BY DEF Sound, Group
    <3>2. Pending(s) \subseteq Ids
      BY <3>1, FirstsFacts DEF Pending
    <3> QED BY <1>2, <3>2, DeliveredFacts DEF Answer
  <2>2. <<s, i>> \in {q \in Streams \X Ids : q[2] \in Answer(q[1])}
    BY <1>2, <2>1
  <2>3. [stream |-> s, id |-> i, body |-> Body(s, i)] \in batch'
    BY <2>2 DEF ReadOk
  <2> QED BY <2>3
<1>3. CASE cursor = ">"
  <2>1. ASSUME NEW s \in Streams, NEW i \in redis'[s].pel
        PROVE  i \in Answer(s)
    <3>1. redis[s].pel = {}
      BY <1>1, <1>3 DEF ReplayInv
    <3> QED BY <1>3, <2>1, <3>1, DeliveredFacts DEF ReadOk, Answer
  <2> QED BY <1>2, <2>1 DEF ReadOk, ReplayInv
<1>4. CASE cursor = "0"
  <2>1. CASE batch' = {}
    <3>1. ASSUME NEW s \in Streams PROVE redis[s].pel = {}
      <4>1. Firsts(redis[s].pel) = {}
        BY <1>2, <1>4, <2>1 DEF Answer, Pending
      <4>2. redis[s].pel \in SUBSET Ids
        BY DEF Sound, Group
      <4> QED BY <4>1, <4>2, FirstsFacts
    <3>2. redis' = redis
      BY <1>4 DEF ReadOk, Delivered
    <3> QED BY <2>1, <3>1, <3>2 DEF ReadOk, ReplayInv
  <2>2. CASE batch' # {}
    BY <1>4, <2>2 DEF ReadOk, ReplayInv
  <2> QED BY <2>1, <2>2
<1> QED BY <1>1, <1>3, <1>4

LEMMA ReplayAck ==
  ASSUME SoundInv, ReplayInv, AckOk
  PROVE  ReplayInv'
<1> USE DEF SoundInv
<1>1. /\ pc = "ack" /\ batch # {} /\ batch' = batch \ {Current} /\ cursor' = cursor
      /\ pc' = IF batch' = {} THEN "read" ELSE "insert"
      /\ redis' = Acknowledged /\ UNCHANGED made
  BY DEF AckOk, AckInv
<1>2. ASSUME cursor = ">", NEW s \in Streams, NEW i \in redis'[s].pel
      PROVE  \E m \in batch' : m.stream = s /\ m.id = i
  <2>1. i \in redis[s].pel /\ ~(s = Current.stream /\ i = Current.id)
    BY <1>1, <1>2, AckFacts
  <2>2. PICK m \in batch : m.stream = s /\ m.id = i
    BY <1>1, <1>2, <2>1 DEF ReplayInv
  <2>3. m # Current
    BY <2>1, <2>2
  <2> QED BY <1>1, <2>2, <2>3
<1> QED BY <1>1, <1>2 DEF ReplayInv

LEMMA ReplayOthers ==
  ASSUME SoundInv, ReplayInv, [Next]_vars, ~ReadOk, ~AckOk, Undisturbed
  PROVE  ReplayInv'
<1> USE DEF SoundInv, ReplayInv
<1>1. ASSUME NEW s \in Streams, NEW kind \in Kinds, Emit(s, kind)
      PROVE  ReplayInv'
  <2>1. UNCHANGED <<pc, cursor, batch>> /\ \A t \in Streams : redis'[t].pel = redis[t].pel
    BY <1>1, EmitFacts DEF Emit
  <2> QED BY <2>1
<1>2. CASE Fsync \/ RedisRestart \/ ReadRepeated
  BY <1>2 DEF Fsync, RedisRestart, ReadRepeated, Undisturbed
<1>3. CASE Start \/ BackOff
  <2>1. cursor' = "0" /\ pc' = "read" /\ batch' \in {{}, batch} /\ pc \in {"down", "backoff"}
    BY <1>3 DEF Start, BackOff
  <2>2. batch' = {}
    BY <1>3 DEF Start, BackOff
  <2> QED BY <2>1, <2>2
<1>4. CASE InsertOk
  BY <1>4 DEF InsertOk
<1>5. CASE ReadFails \/ InsertFails \/ AckFails \/ Stop
  BY <1>5 DEF ReadFails, InsertFails, AckFails, Stop
<1>6. CASE ClockMoves \/ UNCHANGED vars
  BY <1>6 DEF ClockMoves, vars
<1> QED BY <1>1, <1>2, <1>3, <1>4, <1>5, <1>6 DEF Next, Work, Trouble, Environment

\* New entries are followed only when nothing is pending, unless the client library
\* repeats reads or Redis falls back.
THEOREM PendingComesFirst ==
  ASSUME Undisturbed
  PROVE  Spec => []PendingFirst
<1>1. Init => SoundInv /\ ReplayInv
  BY ArchiverStart DEF Init, ReplayInv
<1>2. SoundInv /\ ReplayInv /\ [Next]_vars => (SoundInv /\ ReplayInv)'
  BY ArchiverKeeps, ReplayRead, ReplayAck, ReplayOthers
<1>3. SoundInv /\ ReplayInv => PendingFirst
  BY DEF ReplayInv, PendingFirst, SoundInv, Sound, Group
<1> QED BY <1>1, <1>2, <1>3, PTL DEF Spec
=============================================================================
