---------------------------- MODULE GroupStream ----------------------------
(***************************************************************************)
(* TransactionStrategy.validate in its default, anchor-key mode            *)
(* (transaction.strategy.ts), and the verdict runJob draws from it.        *)
(*                                                                         *)
(* The old table is read in chunks ordered by the anchor key.  Rows that   *)
(* share a group key form a group, and a group is compared with all the    *)
(* new rows of its key.  The last group of a full chunk may go on in the   *)
(* next chunk, so it is held back and merged with what the next chunk      *)
(* brings.  The mode is meant for tables whose groups are contiguous in    *)
(* anchor order; use_sysref_sort and use_group_pagination are for others.  *)
(*                                                                         *)
(* Comparing two groups is comparing the sums of a column that is 1 in     *)
(* every row: the outcome depends on every row taking part exactly once.   *)
(***************************************************************************)
EXTENDS Integers, Sequences, FiniteSets, FiniteSetsExt

CONSTANTS
  Key,        \* group keys, after normalizeKey
  Blank,      \* the group key of a row that has none: ''
  ChunkSize,  \* CHUNK_SIZE
  MaxRows,    \* bound on the rows of the old table
  MaxCopies,  \* bound on the new rows of one key
  CheckFails  \* may checkAnchorKeyUnique itself fail (it then says nothing)?

ASSUME ChunkAssumption == ChunkSize \in Nat \ {0}
ASSUME BoundAssumption == MaxRows \in Nat /\ MaxCopies \in Nat
ASSUME BlankAssumption == Blank \notin Key
ASSUME CheckAssumption == CheckFails \in BOOLEAN

Name == Key \cup {Blank}

VARIABLES
  oldKey,       \* old row, in anchor order -> its group key
  oldAnchor,    \* old row -> its anchor key
  newRows,      \* group key -> number of rows in the new table
  phase,        \* "scan", "flush", "done" or "rejected"
  cursor,       \* lastAnchorKey, 0 before the first chunk
  carryOld,     \* group key -> old rows held back
  carryNew,     \* group key -> new rows held back with them
  compared,     \* group key -> the comparisons made of it, in order
  reported,     \* group keys named by an error
  warned,       \* did checkAnchorKeyUnique report duplicates?
  rowsChecked, passCount, failCount

tables == <<oldKey, oldAnchor, newRows, warned>>
carry  == <<carryOld, carryNew>>
counts == <<compared, reported, passCount, failCount>>
vars   == <<tables, phase, cursor, carry, counts, rowsChecked>>

Rows == DOMAIN oldKey
Unique == \A q, r \in Rows : oldAnchor[q] = oldAnchor[r] => q = r

(* The rows of a group are not interleaved with those of another group.    *)
Contiguous ==
  \A p, q, r \in Rows :
    p < q /\ q < r /\ oldKey[p] = oldKey[r] /\ oldKey[p] # Blank => oldKey[q] \in {oldKey[p], Blank}

Init ==
  /\ \E n \in 0..MaxRows : /\ oldKey \in [1..n -> Name]
                           /\ oldAnchor \in [1..n -> 1..n]
  /\ \A r \in Rows :      \* ascending; only the order of the anchors matters
       oldAnchor[r] \in IF r = 1 THEN {1} ELSE {oldAnchor[r - 1], oldAnchor[r - 1] + 1}
  /\ Contiguous
  /\ newRows \in [Key -> 0..MaxCopies]
  /\ warned \in {~Unique} \cup IF CheckFails THEN {FALSE} ELSE {}
  /\ phase = "scan"
  /\ cursor = 0
  /\ carryOld = [k \in Name |-> {}]
  /\ carryNew = [k \in Name |-> 0]
  /\ compared = [k \in Name |-> <<>>]
  /\ reported = {}
  /\ rowsChecked = 0 /\ passCount = 0 /\ failCount = 0

-----------------------------------------------------------------------------
(* One chunk.                                                              *)

ChunkMutant ==
  LET next == {r \in Rows : oldAnchor[r] >= cursor}
  IN  {r \in next : Cardinality({q \in next : q < r}) < ChunkSize}

(* fetchChunk: the next rows beyond the cursor.                            *)
Chunk ==
  LET next == {r \in Rows : oldAnchor[r] > cursor}
  IN  {r \in next : Cardinality({q \in next : q < r}) < ChunkSize}

IsLastChunk == Cardinality(Chunk) < ChunkSize

(* oldGroupMap: the rows held back come first, then those of the chunk.    *)
OldGroups ==
  LET chunk == Chunk
  IN  [k \in Name |-> carryOld[k] \cup {r \in chunk : oldKey[r] = k}]

FetchedMutant == {oldKey[r] : r \in Chunk} \ {Blank}

(* groupKeyVals: the keys of the chunk whose new rows are not at hand.     *)
Fetched == {oldKey[r] : r \in Chunk} \ ({Blank} \cup {k \in Key : carryNew[k] > 0})

(* newGroupMap, after streamRowsByKeys.                                    *)
NewGroups ==
  LET fetched == Fetched
  IN  [k \in Name |-> carryNew[k] + IF k \in fetched THEN newRows[k] ELSE 0]

(* The key inserted last in oldGroupMap.                                   *)
LastGroup ==
  LET old == OldGroups
      present     == {k \in Name : old[k] # {}}
      inserted(k) == IF carryOld[k] # {} THEN 0 ELSE Min(old[k])
  IN  CHOOSE k \in present : \A q \in present : inserted(q) <= inserted(k)

HeldMutant == {}

(* groupKey === carryKey: not compared with this chunk.                    *)
Held == IF IsLastChunk THEN {} ELSE {LastGroup}

CarriedMutant == {}

(* if (carryKey): an empty key is not carried to the next chunk.           *)
Carried == Held \ {Blank}

-----------------------------------------------------------------------------
(* Comparing groups.                                                       *)

(* validateGroup and runDefRules find nothing.                             *)
Agrees(old, new) == new > 0 /\ Cardinality(old) = new

(* The groups of ks are compared: a group that is missing or differs is    *)
(* reported, and its old rows are counted as failed or passed.             *)
Compare(ks, old, new) ==
  LET good == {k \in ks : Agrees(old[k], new[k])}
      size(s) == Cardinality(UNION {old[k] : k \in s})
      extra == {k \in DOMAIN new : new[k] > 0 /\ old[k] = {}}
  IN  /\ compared' = [k \in Name |->
           IF k \in ks THEN Append(compared[k], [old |-> old[k], new |-> new[k]])
                       ELSE compared[k]]
      /\ reported' = reported \cup (ks \ good) \cup extra
      /\ passCount' = passCount + size(good)
      /\ failCount' = failCount + size(ks \ good)

(* One turn of the loop.                                                   *)
NextChunk ==
  LET chunk == Chunk
      old   == OldGroups
      new   == NewGroups
      held  == Held
      kept  == Carried
  IN  /\ phase = "scan" /\ chunk # {}
      /\ rowsChecked' = rowsChecked + Cardinality(chunk)
      /\ Compare({k \in Name \ held : old[k] # {}}, old, new)
      /\ carryOld' = [k \in Name |-> IF k \in kept THEN old[k] ELSE {}]
      /\ carryNew' = [k \in Name |-> IF k \in kept THEN new[k] ELSE 0]
      /\ cursor' = oldAnchor[Max(chunk)]
      /\ phase' = IF IsLastChunk THEN "flush" ELSE "scan"
      /\ UNCHANGED tables

(* The table ended with a full chunk.                                      *)
NoMoreRows ==
  /\ phase = "scan" /\ Chunk = {}
  /\ phase' = "flush"
  /\ UNCHANGED <<tables, cursor, carry, counts, rowsChecked>>

(* Flush any group still in carry.                                         *)
Flush ==
  /\ phase = "flush"
  /\ Compare({k \in Name : carryOld[k] # {}}, carryOld, carryNew)
  /\ phase' = "done"
  /\ UNCHANGED <<tables, cursor, carry, rowsChecked>>

(* A query rejects: runJob catches the error and knows no counts.          *)
Reject ==
  /\ phase = "scan"
  /\ phase' = "rejected"
  /\ rowsChecked' = 0 /\ passCount' = 0 /\ failCount' = 0 /\ reported' = {}
  /\ UNCHANGED <<tables, cursor, carry, compared>>

Next == NextChunk \/ NoMoreRows \/ Flush \/ Reject

Spec == Init /\ [][Next]_vars

-----------------------------------------------------------------------------
(* The verdict.                                                            *)

Skipped == IF rowsChecked > passCount + failCount
           THEN rowsChecked - passCount - failCount ELSE 0

VerdictMutant ==
  IF phase = "done" /\ failCount = 0 /\ Skipped = 0 /\ reported = {}
  THEN "PASS" ELSE "FAIL"

(* The summary status of runJob; before the end there is none.  The        *)
(* aggregate SUM cross-check, whose errors could only turn PASS into FAIL, *)
(* is taken to find nothing.                                               *)
Verdict ==
  IF phase = "done" /\ failCount = 0 /\ Skipped = 0 /\ reported = {} /\ ~warned
  THEN "PASS" ELSE "FAIL"

-----------------------------------------------------------------------------
(* Properties.                                                             *)

Old(k) == {r \in Rows : oldKey[r] = k}
AllNamed == Old(Blank) = {}
Over == phase \in {"done", "rejected"}

TypeOK ==
  /\ phase \in {"scan", "flush", "done", "rejected"}
  /\ cursor \in 0..MaxRows
  /\ carryOld \in [Name -> SUBSET Rows]
  /\ carryNew \in [Name -> 0..MaxCopies]
  /\ \A k \in Name : \A i \in DOMAIN compared[k] :
       compared[k][i] \in [old : SUBSET Rows, new : 0..MaxCopies]
  /\ reported \subseteq Name
  /\ warned \in BOOLEAN
  /\ rowsChecked \in 0..MaxRows /\ passCount \in 0..MaxRows /\ failCount \in 0..MaxRows

(* Wherever the chunk boundaries fall, a group is compared once and with   *)
(* all its rows of both tables: it is neither split nor doubled.           *)
ComparedWhole ==
  Unique /\ AllNamed =>
    \A k \in Key :
      /\ compared[k] \in {<<>>, <<[old |-> Old(k), new |-> newRows[k]]>>}
      /\ phase = "done" /\ Old(k) # {} => compared[k] # <<>>

(* Between two chunks every row read so far is counted as passed or        *)
(* failed, or is held back.                                                *)
RowsAccounted ==
  AllNamed /\ phase \in {"scan", "flush"} =>
    rowsChecked = passCount + failCount + Cardinality(UNION {carryOld[k] : k \in Key})

(* PASS is only said of an old table every group of which has its rows in  *)
(* the new one, whatever the anchors and the group keys look like.         *)
PassIsHonest ==
  Verdict = "PASS" => \A k \in Name : Old(k) # {} => Cardinality(Old(k)) = newRows[k]

(* FAIL without an error of the database or the data: some group differs.  *)
FailIsEarned ==
  phase = "done" /\ Verdict = "FAIL" /\ Unique /\ AllNamed =>
    \E k \in Key : Old(k) # {} /\ Cardinality(Old(k)) # newRows[k]

(* Each turn of the loop goes beyond the rows of the last one or ends it:  *)
(* the scan comes to its end, whatever ties and full chunks there are.     *)
Advances == [][phase = "scan" => cursor' > cursor \/ phase' # "scan"]_vars
=============================================================================
