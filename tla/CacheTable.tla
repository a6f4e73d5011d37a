----------------------------- MODULE CacheTable -----------------------------
(***************************************************************************)
(* The cache tables of PostgreSQL: copyToPostgres (database.service.ts),   *)
(* the table operations of pg-cache.service.ts and the way the sysref-sort *)
(* mode uses them (transaction.strategy.ts).                               *)
(*                                                                         *)
(* A validation copies its source table, streamed from SQL Server, to a    *)
(* cache table of its own, indexes it, reads it chunk by chunk and drops   *)
(* it.  Pods share one PostgreSQL, and a pod that starts drops every cache *)
(* table it finds.  A table is named after the process id of its pod and a *)
(* counter of the process: two containers, each with its process number 1, *)
(* may use one name at once.                                               *)
(*                                                                         *)
(* A request that is paused delivers neither rows nor 'done', so at most   *)
(* one row handler runs at a time (pendingRows is 0 or 1) and none runs    *)
(* when 'done' comes.                                                      *)
(***************************************************************************)
EXTENDS Integers, FiniteSets, FiniteSetsExt

CONSTANTS
  Pod,
  Copy,       \* the validations that use a cache table, numbered
  Home,       \* copy -> the pod that runs it
  Pid,        \* pod -> its process id; 1 in a container
  Size,       \* copy -> rows of its source table
  FlushSize,  \* FLUSH_SIZE
  Batch,      \* rows of one INSERT, BATCH in batchInsert
  ReadSize,   \* CHUNK_SIZE
  PoolSize,   \* max of the SQL Server pool
  MaxBoots    \* pod -> bound on its starts

ASSUME CopyAssumption == Copy \subseteq Nat /\ IsFiniteSet(Copy)
ASSUME HomeAssumption == Home \in [Copy -> Pod] /\ Pid \in [Pod -> Nat]
ASSUME SizeAssumption == Size \in [Copy -> Nat]
ASSUME StepAssumption == {FlushSize, Batch, ReadSize, PoolSize} \subseteq Nat \ {0}
ASSUME BootAssumption == MaxBoots \in [Pod -> Nat]

VARIABLES
  up,      \* pod -> "down", "sweep", "up" or "cut"
  boots,   \* pod -> how often it was started
  seq,     \* pod -> cacheSeq
  doomed,  \* pod -> orphans: the tables it found at its start
  exists,  \* the cache tables there are
  rows,    \* cache table -> its rows
  pc,      \* copy -> where it is
  name,    \* copy -> tempName
  got,     \* copy -> rows taken from the stream
  put,     \* copy -> totalRows, those of them inserted
  made,    \* copy -> tableCreated
  stuck,   \* copies whose request was paused and never resumed
  cursor,  \* copy -> the last row read, 0 before the first
  seen,    \* copy -> the rows validated
  clashed  \* history: the copies that were under way, under one name, at
           \* the same time as a copy of another pod

pods  == <<up, boots, seq, doomed>>
cache == <<exists, rows>>
copy  == <<name, got, put, made, stuck>>
use   == <<cursor, seen, clashed>>
vars  == <<pods, cache, pc, copy, use>>

MaxSeq == Cardinality(Copy)
Name   == {<<Pid[p], n>> : p \in Pod, n \in 1..MaxSeq}
Row    == UNION {{<<c, i>> : i \in 1..Size[c]} : c \in Copy}
NoName == <<0, 0>>

(* The request holds a connection of the pool.                             *)
Streaming == {"stream", "create", "insert"}
UnderWay  == Streaming \cup {"connect", "flush", "index", "read", "drop", "abort"}

Init ==
  /\ up = [p \in Pod |-> "down"]
  /\ boots = [p \in Pod |-> 0]
  /\ seq = [p \in Pod |-> 0]
  /\ doomed = [p \in Pod |-> {}]
  /\ exists = {}
  /\ rows = [n \in Name |-> {}]
  /\ pc = [c \in Copy |-> "new"]
  /\ name = [c \in Copy |-> NoName]
  /\ got = [c \in Copy |-> 0] /\ put = [c \in Copy |-> 0]
  /\ made = [c \in Copy |-> FALSE]
  /\ stuck = {}
  /\ cursor = [c \in Copy |-> 0]
  /\ seen = [c \in Copy |-> {}]
  /\ clashed = {}

Goto(c, l) == pc' = [pc EXCEPT ![c] = l]

-----------------------------------------------------------------------------
(* Pods.                                                                   *)

(* onModuleInit lists the tables a crashed run may have left...            *)
Boot(p) ==
  /\ up[p] = "down" /\ boots[p] < MaxBoots[p]
  /\ up' = [up EXCEPT ![p] = "sweep"]
  /\ boots' = [boots EXCEPT ![p] = @ + 1]
  /\ seq' = [seq EXCEPT ![p] = 0]
  /\ doomed' = [doomed EXCEPT ![p] = exists]
  /\ UNCHANGED <<cache, pc, copy, use>>

(* ... and drops them one by one.                                          *)
Sweep(p) ==
  /\ up[p] = "sweep"
  /\ \E n \in doomed[p] :
       /\ doomed' = [doomed EXCEPT ![p] = @ \ {n}]
       /\ exists' = exists \ {n}
       /\ rows' = [rows EXCEPT ![n] = {}]
  /\ UNCHANGED <<up, boots, seq, pc, copy, use>>

(* Requests are taken when the start is over.                              *)
Ready(p) ==
  /\ up[p] = "sweep" /\ doomed[p] = {}
  /\ up' = [up EXCEPT ![p] = "up"]
  /\ UNCHANGED <<boots, seq, doomed, cache, pc, copy, use>>

(* PostgreSQL fails during the start: the pod goes on without it.          *)
CutOff(p) ==
  /\ up[p] = "sweep"
  /\ up' = [up EXCEPT ![p] = "cut"]
  /\ doomed' = [doomed EXCEPT ![p] = {}]
  /\ UNCHANGED <<boots, seq, cache, pc, copy, use>>

(* The pod dies, and with it what its validations had open.                *)
Crash(p) ==
  LET lost == {c \in Copy : Home[c] = p /\ pc[c] \in UnderWay}
  IN  /\ up[p] # "down"
      /\ up' = [up EXCEPT ![p] = "down"]
      /\ doomed' = [doomed EXCEPT ![p] = {}]
      /\ pc' = [c \in Copy |-> IF c \in lost THEN "dead" ELSE pc[c]]
      /\ stuck' = {c \in stuck : Home[c] # p}
      /\ UNCHANGED <<boots, seq, cache, name, got, put, made, use>>

-----------------------------------------------------------------------------
(* Copying.                                                                *)

SameNameMutant(p) == <<Pid[p], 1>>

OldCountMutant(p) == <<Pid[p], seq[p]>>

(* `dv_src_${process.pid}_${DatabaseService.nextCacheSeq()}`               *)
NextName(p) == <<Pid[p], seq[p] + 1>>

(* The copies of other pods that use the table n.                          *)
Rivals(c, n) == {d \in Copy : Home[d] # Home[c] /\ pc[d] \in UnderWay /\ name[d] = n}

(* The name is drawn and a table of that name dropped.                     *)
Begin(c) ==
  LET p == Home[c]
      n == NextName(p)
  IN  /\ pc[c] = "new" /\ up[p] = "up"
      /\ seq' = [seq EXCEPT ![p] = @ + 1]
      /\ name' = [name EXCEPT ![c] = n]
      /\ exists' = exists \ {n}
      /\ rows' = [rows EXCEPT ![n] = {}]
      /\ Goto(c, "connect")
      /\ clashed' = clashed \cup IF Rivals(c, n) = {} THEN {} ELSE {c} \cup Rivals(c, n)
      /\ UNCHANGED <<up, boots, doomed, got, put, made, stuck, cursor, seen>>

(* assertAvailable throws: a pod that is cut off refuses to copy.          *)
Refuse(c) ==
  LET p == Home[c]
  IN  /\ pc[c] = "new" /\ up[p] = "cut"
      /\ seq' = [seq EXCEPT ![p] = @ + 1]
      /\ name' = [name EXCEPT ![c] = NextName(p)]
      /\ Goto(c, "failed")
      /\ UNCHANGED <<up, boots, doomed, cache, got, put, made, stuck, use>>

(* The validations of a pod that hold a connection of its SQL Server pool. *)
Busy(p) == {c \in Copy : Home[c] = p /\ (pc[c] \in Streaming \/ c \in stuck)}

(* The pool has a connection for the request.                              *)
Connect(c) ==
  /\ pc[c] = "connect"
  /\ Cardinality(Busy(Home[c])) < PoolSize
  /\ Goto(c, "stream")
  /\ UNCHANGED <<pods, cache, copy, use>>

FullMutant(n) == n > FlushSize + 1

(* buffer.length >= FLUSH_SIZE                                             *)
Full(n) == n >= FlushSize

(* buffer.push(row), by the handler: the buffer is inserted if it is full, *)
(* else the request is resumed.                                            *)
Push(c) ==
  /\ got' = [got EXCEPT ![c] = @ + 1]
  /\ Goto(c, IF Full(got[c] + 1 - put[c]) THEN "insert" ELSE "stream")

(* 'row': the request is paused; the first row creates the table.          *)
OnRow(c) ==
  /\ pc[c] = "stream" /\ got[c] < Size[c]
  /\ IF made[c] THEN Push(c) ELSE Goto(c, "create") /\ UNCHANGED got
  /\ UNCHANGED <<pods, cache, name, put, made, stuck, use>>

(* createCacheTable returns: IF NOT EXISTS.                                *)
Create(c) ==
  /\ pc[c] = "create"
  /\ exists' = exists \cup {name[c]}
  /\ made' = [made EXCEPT ![c] = TRUE]
  /\ Push(c)
  /\ UNCHANGED <<pods, rows, name, put, stuck, use>>

(* One INSERT of batchInsert; the handler resumes the request after the    *)
(* last, the copy is resolved after the last of the final flush.           *)
Insert(c) ==
  LET upto == Min({put[c] + Batch, got[c]})
  IN  /\ pc[c] \in {"insert", "flush"} /\ name[c] \in exists
      /\ rows' = [rows EXCEPT ![name[c]] = @ \cup {<<c, i>> : i \in put[c] + 1 .. upto}]
      /\ put' = [put EXCEPT ![c] = upto]
      /\ Goto(c, IF upto < got[c] THEN pc[c] ELSE IF pc[c] = "insert" THEN "stream" ELSE "index")
      /\ UNCHANGED <<pods, exists, name, got, made, stuck, use>>

LeftMutant(c) == FALSE

(* buffer.length > 0                                                       *)
Left(c) == put[c] < got[c]

(* 'done': what is left in the buffer is flushed.                          *)
OnDone(c) ==
  /\ pc[c] = "stream" /\ got[c] = Size[c]
  /\ Goto(c, IF Left(c) THEN "flush" ELSE "index")
  /\ UNCHANGED <<pods, cache, copy, use>>

(* createIndex, for which there is nothing when no row named the columns.  *)
Index(c) ==
  /\ pc[c] = "index" /\ (made[c] => name[c] \in exists)
  /\ Goto(c, "read")
  /\ UNCHANGED <<pods, cache, copy, use>>

-----------------------------------------------------------------------------
(* Reading.                                                                *)

(* The keys ascend with the number of the row; ties by the number of the   *)
(* copy.                                                                   *)
Before(q, r) == q[2] < r[2] \/ (q[2] = r[2] /\ q[1] < r[1])

(* fetchChunkSysref: the next rows beyond the cursor.                      *)
Chunk(c) ==
  LET next == {r \in rows[name[c]] : r[2] > cursor[c]}
  IN  {r \in next : Cardinality({q \in next : Before(q, r)}) < ReadSize}

(* One turn of the loop over the cache table.                              *)
Fetch(c) ==
  LET chunk == Chunk(c)
  IN  /\ pc[c] = "read" /\ name[c] \in exists
      /\ seen' = [seen EXCEPT ![c] = @ \cup chunk]
      /\ cursor' = [cursor EXCEPT ![c] = Max({@} \cup {r[2] : r \in chunk})]
      /\ Goto(c, IF Cardinality(chunk) < ReadSize THEN "drop" ELSE "read")
      /\ UNCHANGED <<pods, cache, copy, clashed>>

(* dropSourceCache, in the finally clause; a failure is only logged.       *)
Drop(c) ==
  /\ pc[c] \in {"drop", "abort"}
  /\ \/ exists' = exists \ {name[c]} /\ rows' = [rows EXCEPT ![name[c]] = {}]
     \/ UNCHANGED cache
  /\ Goto(c, IF pc[c] = "drop" THEN "done" ELSE "failed")
  /\ UNCHANGED <<pods, copy, use>>

(* Where an error leads: the loop stands in the try clause, the copy       *)
(* before it.                                                              *)
Reject(l) == IF l = "read" THEN "abort" ELSE "failed"

PatientMutant == Streaming \cup {"flush", "index", "read"}

(* Where an error is possible that the validation sees.                    *)
Fallible == Streaming \cup {"connect", "flush", "index", "read"}

(* A query fails: the database, the network, a table that is gone, no free *)
(* connection in time.  A row handler that fails rejects the copy, but     *)
(* neither resumes nor cancels the request it paused; when the request     *)
(* itself fails its connection is free again.                              *)
Fail(c) ==
  /\ pc[c] \in Fallible
  /\ Goto(c, Reject(pc[c]))
  /\ stuck' \in {stuck} \cup IF pc[c] \in {"create", "insert"} THEN {stuck \cup {c}} ELSE {}
  /\ UNCHANGED <<pods, cache, name, got, put, made, use>>

Step(c) ==
  Connect(c) \/ OnRow(c) \/ Create(c) \/ Insert(c) \/ OnDone(c) \/ Index(c) \/ Fetch(c) \/ Drop(c)

Next == \/ \E p \in Pod : Boot(p) \/ Sweep(p) \/ Ready(p) \/ CutOff(p) \/ Crash(p)
        \/ \E c \in Copy : Begin(c) \/ Refuse(c) \/ Step(c) \/ Fail(c)

Safety == Init /\ [][Next]_vars

(* Every query and every stream is answered or fails: TCP keepalive finds  *)
(* a dead peer and a wait for a connection times out.                      *)
Fairness == \A c \in Copy : WF_vars(Step(c) \/ Fail(c))

Spec == Safety /\ Fairness

-----------------------------------------------------------------------------
(* Properties.                                                             *)

TypeOK ==
  /\ up \in [Pod -> {"down", "sweep", "up", "cut"}]
  /\ boots \in [Pod -> Nat] /\ \A p \in Pod : boots[p] <= MaxBoots[p]
  /\ seq \in [Pod -> 0..MaxSeq]
  /\ doomed \in [Pod -> SUBSET Name]
  /\ exists \subseteq Name
  /\ rows \in [Name -> SUBSET Row]
  /\ pc \in [Copy -> UnderWay \cup {"new", "done", "failed", "dead"}]
  /\ name \in [Copy -> Name \cup {NoName}]
  /\ got \in [Copy -> Nat] /\ put \in [Copy -> Nat] /\ made \in [Copy -> BOOLEAN]
  /\ stuck \subseteq Copy
  /\ cursor \in [Copy -> Nat]
  /\ seen \in [Copy -> SUBSET Row]
  /\ clashed \subseteq Copy

Source(c) == {<<c, i>> : i \in 1..Size[c]}

(* A validation that comes to its end has seen the rows of its source      *)
(* table, all of them and no others, whatever the other pods started,      *)
(* dropped or failed at in the meantime, and whatever tables crashed ones  *)
(* left under its name; unless it shared its name with one under way.      *)
SeenWhole == \A c \in Copy : pc[c] = "done" /\ c \notin clashed => seen[c] = Source(c)

(* The names "prevent collisions between concurrent jobs" (ENGINE.md).  Of *)
(* one pod they do, also when it starts again.  So the table of a copy     *)
(* under way goes only when a pod that starts sweeps, or when another pod  *)
(* with the same process id, as containers have it, uses the same name.    *)
NobodyDrops ==
  [][\A c \in Copy :
       pc[c] \in UnderWay /\ pc'[c] = pc[c] /\ name[c] \in exists \ exists' =>
         \/ \E p \in Pod : up[p] = "sweep"
         \/ c \in clashed' /\ \E p \in Pod \ {Home[c]} : Pid[p] = Pid[Home[c]]]_vars

(* While a row handler is at work the buffer is at most full: the stream   *)
(* does not run ahead of PostgreSQL.                                       *)
BufferBounded == \A c \in Copy : got[c] - put[c] <= FlushSize

(* A copy that is under way ends, even when failed ones hold every         *)
(* connection of the pool.                                                 *)
Settles == \A c \in Copy : pc[c] = "connect" ~> pc[c] \notin UnderWay
=============================================================================
