----------------------------- MODULE Archiver -----------------------------
(***************************************************************************)
(* host/telemetry/consumer/main.go: the process that moves telemetry from  *)
(* two Redis streams into the database, as the only consumer of the group  *)
(* "archiver".                                                             *)
(*                                                                         *)
(* Redis, the database and the producer are external: they are modelled    *)
(* from the calls the code makes (XGROUP CREATE, XREADGROUP, XACK, INSERT  *)
(* ... ON CONFLICT DO NOTHING, XADD with MAXLEN).  Every call may succeed, *)
(* fail before it has taken effect, or take effect and have its answer     *)
(* lost.  Redis may fall back to what it had last written to disk.         *)
(*                                                                         *)
(* An entry is <<stream, id>>; ids count the entries of a stream, and are  *)
(* not used again when Redis falls back: they begin with the milliseconds  *)
(* of its clock.  What an entry holds is only its kind: see Kinds.         *)
(***************************************************************************)
EXTENDS Integers, FiniteSets, Sequences

CONSTANTS
  Kinds,           \* the kinds of entries the producer emits
  MaxEntries,      \* bound: entries emitted per stream
  MaxLen,          \* STREAM_MAXLEN: a longer stream may be trimmed
  BatchMax,        \* Count of XREADGROUP, per stream
  Trimming,        \* BOOLEAN: are streams trimmed
  RedisFails,      \* BOOLEAN: may Redis fall back to its disk
  ClientRetries,   \* BOOLEAN: may the client library repeat a read by itself
  DatedIds,        \* BOOLEAN: do ids hold an instant (those Redis makes do)
  Moments          \* what the archiver's clock may show

Streams == {"sensor", "control"}
AllKinds ==
  { "good",        \* makes a row, dated by its field ts_ms
    "unstamped",   \* makes a row, but has no ts_ms
    "malformed",   \* no number in value, or no action: insert returns nil
    "refused" }    \* parsed, but the database refuses the row

ASSUME ArchiverAssumption ==
  /\ Kinds \subseteq AllKinds
  /\ MaxEntries \in Nat /\ MaxLen \in Nat \ {0} /\ BatchMax \in Nat \ {0}
  /\ Trimming \in BOOLEAN /\ RedisFails \in BOOLEAN /\ ClientRetries \in BOOLEAN
  /\ DatedIds \in BOOLEAN /\ Moments # {}

Ids == 1..MaxEntries
NoGroup == -1
Accepted == {"good", "unstamped"}

\* The unique key of both tables.  An instant is one of the archiver's clock,
\* or the one in the ts_ms, or in the id, of the row's own entry.
Instants == {"ts_ms", "id"} \cup Moments
Row == [event_id : Ids, ts : Instants]

VARIABLES
  made,       \* made[s]: the kinds of all entries ever emitted to s, by id
  redis,      \* redis[s]: [log, last, pel], the stream and the group
  disk,       \* redis as of the last write to its append-only file
  rows,       \* rows[s]: the keys of the table that stream s is written to
  now,        \* the archiver's clock
  pc,         \* where main() is
  cursor,     \* "0" replays pending entries, ">" follows new ones
  batch       \* entries of the last answer still to be handled

vars == <<made, redis, disk, rows, now, pc, cursor, batch>>

Group == [log : SUBSET Ids,            \* entries in the stream
          last : {NoGroup} \cup 0..MaxEntries,   \* last-delivered-id
          pel : SUBSET Ids]            \* delivered and not acknowledged

TypeOK ==
  /\ made \in [Streams -> Seq(Kinds)] /\ \A s \in Streams : Len(made[s]) <= MaxEntries
  /\ redis \in [Streams -> Group] /\ disk \in [Streams -> Group]
  /\ rows \in [Streams -> SUBSET Row] /\ now \in Moments
  /\ pc \in {"down", "read", "again", "insert", "ack", "backoff"}
  /\ cursor \in {"0", ">"}
  /\ batch \subseteq [stream : Streams, id : Ids, body : AllKinds]

Init ==
  /\ made = [s \in Streams |-> <<>>]
  /\ redis = [s \in Streams |-> [log |-> {}, last |-> NoGroup, pel |-> {}]]
  /\ disk = redis
  /\ rows = [s \in Streams |-> {}] /\ now \in Moments
  /\ pc = "down" /\ cursor = "0" /\ batch = {}

-----------------------------------------------------------------------------
(* The producer and Redis *)

Oldest(S) == CHOOSE i \in S : \A j \in S : i <= j

\* XADD with an approximate MAXLEN; an XADD that fails leaves no entry.
Emit(s, kind) ==
  /\ Len(made[s]) < MaxEntries
  /\ LET log == redis[s].log \cup {Len(made[s]) + 1}
     IN  /\ made' = [made EXCEPT ![s] = Append(@, kind)]
         /\ \/ redis' = [redis EXCEPT ![s].log = log]
            \/ /\ Trimming /\ Cardinality(log) > MaxLen
               /\ redis' = [redis EXCEPT ![s].log = log \ {Oldest(log)}]
  /\ UNCHANGED <<disk, rows, now, pc, cursor, batch>>

Fsync ==
  /\ RedisFails /\ disk # redis
  /\ disk' = redis
  /\ UNCHANGED <<made, redis, rows, now, pc, cursor, batch>>

RedisRestart ==
  /\ RedisFails /\ disk # redis
  /\ redis' = disk
  /\ UNCHANGED <<made, disk, rows, now, pc, cursor, batch>>

\* The first BatchMax members of S.
Firsts(S) == {i \in S : Cardinality({j \in S : j <= i}) <= BatchMax}

\* What XREADGROUP answers for a stream: its own pending entries, or new ones.
Pending(s) == Firsts(redis[s].pel)
New(s) == Firsts({i \in redis[s].log : i > redis[s].last})
Answer(s) == IF cursor = "0" THEN Pending(s) ELSE New(s)

TrimmedBody(s, i) == IF i \in redis[s].log THEN made[s][i] ELSE "none"      \* mutant

\* A pending entry that has been trimmed comes back without its fields.
Body(s, i) == IF i \in redis[s].log THEN made[s][i] ELSE "malformed"

Newest(S, default) == IF S = {} THEN default ELSE CHOOSE i \in S : \A j \in S : j <= i

\* New entries are pending from the moment they are read.
Delivered ==
  IF cursor = "0" THEN redis
  ELSE [s \in Streams |->
         [redis[s] EXCEPT !.last = Newest(New(s), @), !.pel = @ \cup New(s)]]

GroupsExist == \A s \in Streams : redis[s].last # NoGroup

-----------------------------------------------------------------------------
(* main() *)

\* XGROUP CREATE MKSTREAM at id 0; a group that exists is left alone.  If
\* Redis does not answer, the process exits.
Start ==
  /\ pc = "down"
  /\ redis' = [s \in Streams |->
                IF redis[s].last = NoGroup THEN [redis[s] EXCEPT !.last = 0] ELSE redis[s]]
  /\ pc' = "read" /\ cursor' = "0" /\ batch' = {}
  /\ UNCHANGED <<made, disk, rows, now>>

\* step(): XREADGROUP.  An empty answer to a replay ends the replay.
Reading == pc \in {"read", "again"}
ReadOk ==
  /\ Reading /\ GroupsExist
  /\ batch' = {[stream |-> p[1], id |-> p[2], body |-> Body(p[1], p[2])] :
                 p \in {q \in Streams \X Ids : q[2] \in Answer(q[1])}}
  /\ redis' = Delivered
  /\ cursor' = IF batch' = {} THEN ">" ELSE cursor
  /\ pc' = IF batch' = {} THEN "read" ELSE "insert"
  /\ UNCHANGED <<made, disk, rows, now>>

\* The read fails, with or without its effect.
ReadFails ==
  /\ Reading
  /\ redis' = redis \/ (GroupsExist /\ redis' = Delivered)
  /\ pc' = "backoff" /\ batch' = {}
  /\ UNCHANGED <<made, disk, rows, now, cursor>>

\* The client library loses the connection, connects and sends the command
\* again (go-redis does so unless MaxRetries is set to -1): the caller sees
\* only the second answer.
ReadRepeated ==
  /\ ClientRetries /\ pc = "read" /\ GroupsExist
  /\ redis' = Delivered
  /\ pc' = "again"
  /\ UNCHANGED <<made, disk, rows, now, cursor, batch>>

\* Entries are handled stream by stream, in the order of their ids.
Before(m, k) == \/ m.stream = "sensor" /\ k.stream = "control"
                \/ m.stream = k.stream /\ m.id <= k.id
Current == CHOOSE m \in batch : \A k \in batch : Before(m, k)

IdDateIgnored(body) == IF body = "good" THEN "ts_ms" ELSE now      \* mutant

\* ts(): the producer's instant, else the one in the id, else that of the insert.
ts(body) == CASE body = "good" -> "ts_ms"
              [] body # "good" /\ DatedIds -> "id"
              [] OTHER -> now

\* INSERT ... ON CONFLICT (event_id, ts) DO NOTHING
Inserted(m) ==
  [rows EXCEPT ![m.stream] = @ \cup {[event_id |-> m.id, ts |-> ts(m.body)]}]

InsertOk ==
  /\ pc = "insert"
  /\ \/ Current.body \in Accepted /\ rows' = Inserted(Current)
     \/ Current.body = "malformed" /\ UNCHANGED rows
  /\ pc' = "ack"
  /\ UNCHANGED <<made, redis, disk, now, cursor, batch>>

InsertErrorIgnored ==      \* mutant
  /\ pc = "insert" /\ Current.body # "malformed"
  /\ pc' = "ack"
  /\ UNCHANGED <<made, redis, disk, rows, now, cursor, batch>>

\* The database does not answer, refuses, or answers too late.
InsertFails ==
  /\ pc = "insert" /\ Current.body # "malformed"
  /\ \/ UNCHANGED rows
     \/ Current.body \in Accepted /\ rows' = Inserted(Current)
  /\ pc' = "backoff" /\ batch' = {}
  /\ UNCHANGED <<made, redis, disk, now, cursor>>

Acknowledged == [redis EXCEPT ![Current.stream].pel = @ \ {Current.id}]

AckOk ==
  /\ pc = "ack"
  /\ redis' = Acknowledged
  /\ batch' = batch \ {Current}
  /\ pc' = IF batch' = {} THEN "read" ELSE "insert"
  /\ UNCHANGED <<made, disk, rows, now, cursor>>

AckFails ==
  /\ pc = "ack"
  /\ redis' \in {redis, Acknowledged}
  /\ pc' = "backoff" /\ batch' = {}
  /\ UNCHANGED <<made, disk, rows, now, cursor>>

NoReplay ==      \* mutant
  /\ pc = "backoff" /\ pc' = "read"
  /\ UNCHANGED <<made, redis, disk, rows, now, cursor, batch>>

\* Sleep, then drain what is pending first.
BackOff ==
  /\ pc = "backoff"
  /\ cursor' = "0" /\ pc' = "read"
  /\ UNCHANGED <<made, redis, disk, rows, now, batch>>

\* A signal, a crash, or an error at the start.
Stop ==
  /\ pc # "down"
  /\ pc' = "down" /\ batch' = {}
  /\ UNCHANGED <<made, redis, disk, rows, now, cursor>>

\* Time passes, or the clock is set.
ClockMoves ==
  /\ now' \in Moments \ {now}
  /\ UNCHANGED <<made, redis, disk, rows, pc, cursor, batch>>

Work == Start \/ ReadOk \/ InsertOk \/ AckOk \/ BackOff
Trouble == ReadFails \/ ReadRepeated \/ InsertFails \/ AckFails \/ Stop
Environment ==
  \/ \E s \in Streams, kind \in Kinds : Emit(s, kind)
  \/ Fsync \/ RedisRestart \/ ClockMoves

Next == Work \/ Trouble \/ Environment
Spec == Init /\ [][Next]_vars

\* The process is started again and no call lasts for ever; a call that can
\* succeed again and again, in a replay or after one, succeeds some time.
FairSpec ==
  /\ Spec
  /\ WF_vars(Work \/ ReadFails \/ InsertFails \/ AckFails)
  /\ WF_vars(Start)
  /\ SF_vars(cursor = "0" /\ ReadOk) /\ SF_vars(cursor = ">" /\ ReadOk)
  /\ SF_vars(InsertOk) /\ SF_vars(AckOk)

-----------------------------------------------------------------------------
(* Properties *)

Made(s) == DOMAIN made[s]
Good(s, i) == i \in Made(s) /\ made[s][i] \in Accepted
HasRow(s, i) == \E r \in rows[s] : r.event_id = i

\* No good entry is forgotten: while it is in the stream it is archived, or
\* pending, or still to be delivered.  Messages are acknowledged only after
\* their insert, whatever call fails or process stops in between.
NothingForgotten ==
  \A s \in Streams : \A i \in redis[s].log :
    Good(s, i) => \/ HasRow(s, i)
                  \/ i \in redis[s].pel
                  \/ i > redis[s].last

\* main.go:7, "Database conflict handling makes replays idempotent": an entry
\* has one row although the database knows a row by its date as well, and the
\* date is made anew for every insert of the same entry: after a lost answer, a
\* crash, or a fall-back of Redis, at whatever time of the clock.
OneRowEach ==
  \A s \in Streams : \A q, r \in rows[s] : q.event_id = r.event_id => q = r

\* New entries are followed only when nothing is left to replay.
PendingFirst ==
  pc = "read" /\ cursor = ">" => \A s \in Streams : redis[s].pel = {}

\* A good entry that stays in its stream is archived in the end, however
\* often calls fail and the process stops.
GoodArchived ==
  \A s \in Streams, i \in Ids : <>[](i \in redis[s].log /\ Good(s, i)) => <>HasRow(s, i)
=============================================================================
