------------------------- MODULE GroupStreamProofs -------------------------
(***************************************************************************)
(* What the chunked comparison of groups promises for tables of any size   *)
(* and content, any chunk size and any set of keys: a group is compared    *)
(* once and whole, every row is accounted for, the scan moves on, and the  *)
(* verdict is neither too good nor too bad.                                *)
(***************************************************************************)
EXTENDS GroupStream, SetLemmas

(* The rows the cursor has passed.                                         *)
Read == {r \in Rows : oldAnchor[r] <= cursor}

(* The rejected run has given up its counts.                               *)
Counting == phase # "rejected"

(* The rows held back for the next chunk.                                  *)
Waiting == IF phase = "done" THEN {} ELSE UNION {carryOld[k] : k \in Key}

-----------------------------------------------------------------------------
(* The inductive invariant.                                                *)

TableInv ==
  /\ \E n \in 0..MaxRows : oldKey \in [1..n -> Name] /\ oldAnchor \in [1..n -> 1..n]
  /\ \A q, r \in Rows : q <= r => oldAnchor[q] <= oldAnchor[r]
  /\ Contiguous
  /\ newRows \in [Key -> 0..MaxCopies]
  /\ warned \in BOOLEAN /\ (Unique => ~warned) /\ (~CheckFails => (warned <=> ~Unique))

Comparison == [old : SUBSET Rows, new : 0..MaxCopies]

ShapeInv ==
  /\ phase \in {"scan", "flush", "done", "rejected"}
  /\ cursor \in 0..MaxRows
  /\ compared \in [Name -> Seq(Comparison)]
  /\ reported \subseteq Name
  /\ rowsChecked \in Nat /\ passCount \in Nat /\ failCount \in Nat
  /\ phase \in {"flush", "done"} => Read = Rows

(* One group at most is held back, with rows that have been read; never    *)
(* one without a key, and never new rows without old ones.                 *)
CarryInv ==
  /\ carryOld \in [Name -> SUBSET Rows] /\ carryNew \in [Name -> 0..MaxCopies]
  /\ \A k \in Name : carryOld[k] \subseteq Old(k) \cap Read
  /\ carryOld[Blank] = {}
  /\ \A k, q \in Name : carryOld[k] # {} /\ carryOld[q] # {} => k = q
  /\ \A k \in Name : carryNew[k] > 0 => carryOld[k] # {}

(* A row read is counted once or held back, unless it has no key.          *)
CountInv ==
  /\ rowsChecked <= Cardinality(Read)
  /\ Counting => passCount + failCount + Cardinality(Waiting) <= rowsChecked
  /\ Counting /\ AllNamed => passCount + failCount + Cardinality(Waiting) = rowsChecked
  /\ ~Counting => rowsChecked = 0 /\ passCount = 0 /\ failCount = 0 /\ reported = {}
  /\ failCount > 0 => reported # {}

(* A row without a key is reported, or missing from the counts.            *)
BlankInv ==
  Unique /\ Counting /\ Old(Blank) \cap Read # {} =>
    Blank \in reported \/ passCount + failCount + Cardinality(Waiting) < rowsChecked

(* The three stages of a group.                                            *)
Unread(k) ==
  Old(k) \cap Read = {} /\ compared[k] = <<>> /\ carryOld[k] = {} /\ carryNew[k] = 0

Waits(k) ==
  /\ phase # "done" /\ compared[k] = <<>>
  /\ carryOld[k] = Old(k) \cap Read /\ carryOld[k] # {} /\ carryNew[k] = newRows[k]

Whole(k) ==
  /\ Old(k) # {} /\ Old(k) \subseteq Read
  /\ compared[k] = <<[old |-> Old(k), new |-> newRows[k]]>>
  /\ phase # "done" => carryOld[k] = {} /\ carryNew[k] = 0
  /\ Counting => (k \in reported <=> Cardinality(Old(k)) # newRows[k])

GroupInv ==
  Unique /\ AllNamed =>
    /\ \A k \in Key : Unread(k) \/ Waits(k) \/ Whole(k)
    /\ \A k \in reported : k \in Key /\ Whole(k)

IInv == TableInv /\ ShapeInv /\ CarryInv /\ CountInv /\ BlankInv /\ GroupInv

-----------------------------------------------------------------------------
(* The tables.                                                             *)

LEMMA RowFacts ==
  ASSUME TableInv
  PROVE  /\ Rows \subseteq Nat \ {0} /\ IsFiniteSet(Rows)
         /\ Cardinality(Rows) \in Nat /\ Cardinality(Rows) <= MaxRows
         /\ \A r \in Rows : oldKey[r] \in Name /\ oldAnchor[r] \in 1..MaxRows
         /\ \A S \in SUBSET Rows : IsFiniteSet(S) /\ Cardinality(S) \in Nat
<1>1. PICK n \in 0..MaxRows : oldKey \in [1..n -> Name] /\ oldAnchor \in [1..n -> 1..n]
  BY DEF TableInv
<1>2. Rows = 1..n /\ n \in Nat /\ n <= MaxRows
  BY <1>1, BoundAssumption DEF Rows
<1>3. IsFiniteSet(1..n) /\ Cardinality(1..n) = n
  <2>1. 1 \in Int /\ n \in Int
    BY <1>2
  <2>2. IsFiniteSet(1..n) /\ Cardinality(1..n) = IF 1 > n THEN 0 ELSE n - 1 + 1
    BY <2>1, FS_Interval
  <2> QED BY <1>2, <2>2
<1>4. \A S \in SUBSET Rows : IsFiniteSet(S) /\ Cardinality(S) \in Nat
  BY <1>2, <1>3, FS_Subset, FS_CardinalityType
<1>5. \A r \in Rows : oldKey[r] \in Name /\ oldAnchor[r] \in 1..MaxRows
  BY <1>1, <1>2, BoundAssumption
<1> QED BY <1>2, <1>3, <1>4, <1>5

(* The anchors ascend, by Init's steps from a row to the next.             *)
LEMMA InitTables == Init => TableInv
<1> SUFFICES ASSUME Init PROVE TableInv
  OBVIOUS
<1>1. PICK n \in 0..MaxRows : oldKey \in [1..n -> Name] /\ oldAnchor \in [1..n -> 1..n]
  BY DEF Init
<1>2. Rows = 1..n /\ n \in Nat
  BY <1>1, BoundAssumption DEF Rows
<1>3. ASSUME NEW q \in Rows, NEW r \in Rows, q <= r, ~(oldAnchor[q] <= oldAnchor[r])
      PROVE  FALSE
  <2> DEFINE Bad == {s \in Rows : q <= s /\ oldAnchor[s] < oldAnchor[q]}
  <2>1. \A s \in Rows : s \in Nat /\ oldAnchor[s] \in Nat
    BY <1>1, <1>2
  <2>2. r \in Bad /\ Bad \subseteq Nat
    BY <1>3, <2>1
  <2>3. PICK s \in Bad : \A t \in Bad : s <= t
    BY <2>2, NatHasLeast
  <2>4. s \in Rows /\ q < s /\ s - 1 \in Rows /\ q <= s - 1 /\ s # 1
    BY <1>2, <2>1, <2>3
  <2>5. s - 1 \notin Bad
    BY <2>1, <2>3, <2>4
  <2>6. oldAnchor[s - 1] >= oldAnchor[q]
    BY <2>1, <2>4, <2>5
  <2>7. oldAnchor[s] \in {oldAnchor[s - 1], oldAnchor[s - 1] + 1}
    BY <2>4 DEF Init
  <2> QED BY <2>1, <2>3, <2>4, <2>6, <2>7
<1>4. /\ warned \in BOOLEAN /\ (Unique => ~warned) /\ (~CheckFails => (warned <=> ~Unique))
  BY CheckAssumption DEF Init
<1>5. Contiguous /\ newRows \in [Key -> 0..MaxCopies]
  BY DEF Init
<1> QED BY <1>1, <1>3, <1>4, <1>5 DEF TableInv

-----------------------------------------------------------------------------
(* One chunk.                                                              *)

Ahead == {r \in Rows : oldAnchor[r] > cursor}

(* A chunk has the first rows ahead of the cursor, all of them if short.   *)
LEMMA ChunkFacts ==
  ASSUME TableInv, cursor \in Nat
  PROVE  /\ Chunk \subseteq Ahead /\ Chunk \cap Read = {}
         /\ \A r \in Chunk : \A q \in Ahead : q < r => q \in Chunk
         /\ Cardinality(Chunk) < ChunkSize => Chunk = Ahead
         /\ IsFiniteSet(Chunk) /\ Cardinality(Chunk) \in Nat
<1> DEFINE before(r) == {q \in Ahead : q < r}
<1>1. /\ Rows \subseteq Nat /\ Ahead \subseteq Rows
      /\ \A S \in SUBSET Rows : IsFiniteSet(S) /\ Cardinality(S) \in Nat
      /\ \A r \in Rows : oldAnchor[r] \in Nat
  BY RowFacts, BoundAssumption DEF Ahead
<1>2. /\ Chunk = {r \in Ahead : Cardinality(before(r)) < ChunkSize}
      /\ \A r \in Ahead : r \in Rows /\ r \in Nat
  BY <1>1 DEF Chunk, Ahead
<1>3. Chunk \subseteq Ahead /\ Chunk \cap Read = {}
  <2>1. ASSUME NEW r \in Chunk PROVE r \in Ahead
    BY DEF Chunk, Ahead
  <2>2. ASSUME NEW r \in Ahead PROVE r \notin Read
    BY <1>1 DEF Ahead, Read
  <2> QED BY <2>1, <2>2
<1>4. ASSUME NEW r \in Chunk, NEW q \in Ahead, q < r
      PROVE  q \in Chunk
  <2>0. r \in Ahead /\ r \in Nat /\ q \in Nat
    BY <1>2, <1>4
  <2>1. before(q) \subseteq before(r) /\ before(r) \in SUBSET Rows /\ before(q) \in SUBSET Rows
    <3>1. ASSUME NEW p \in Ahead, p < q PROVE p < r /\ p \in Rows
      BY <1>2, <1>4, <2>0, <3>1
    <3> QED BY <1>1, <3>1
  <2> HIDE DEF before
  <2>2. Cardinality(before(q)) <= Cardinality(before(r))
    BY <1>1, <2>1, FS_Subset
  <2> QED BY <1>1, <1>2, <1>4, <2>1, <2>2, ChunkAssumption
<1>5. ASSUME Cardinality(Chunk) < ChunkSize, Ahead \ Chunk # {}
      PROVE  FALSE
  <2>1. PICK r \in Ahead \ Chunk : \A q \in Ahead \ Chunk : r <= q
    BY <1>1, <1>5, NatHasLeast
  <2>2. before(r) \subseteq Chunk /\ before(r) \in SUBSET Rows /\ Chunk \in SUBSET Rows
    <3>1. r \in Nat /\ r \in Ahead
      BY <1>2, <2>1
    <3>2. ASSUME NEW q \in Ahead, q < r, q \notin Chunk
          PROVE  FALSE
      <4>1. r <= q /\ q \in Nat
        BY <1>2, <2>1, <3>2
      <4> QED BY <3>1, <3>2, <4>1
    <3> QED BY <1>2, <3>2
  <2> HIDE DEF before
  <2>3. Cardinality(before(r)) <= Cardinality(Chunk)
    BY <1>1, <2>2, FS_Subset
  <2> QED BY <1>1, <1>2, <1>5, <2>1, <2>2, <2>3, ChunkAssumption
<1> QED BY <1>1, <1>3, <1>4, <1>5

Last == Max(Chunk)
Passed == {r \in Rows : oldAnchor[r] <= oldAnchor[Last]}

(* The cursor moves to the last row of the chunk.  Without ties it has     *)
(* then passed the rows of the chunk and no others.                        *)
LEMMA CursorFacts ==
  ASSUME TableInv, cursor \in Nat, Chunk # {}
  PROVE  /\ Last \in Chunk /\ oldAnchor[Last] \in 0..MaxRows /\ oldAnchor[Last] > cursor
         /\ Read \cup Chunk \subseteq Passed
         /\ Unique => Passed = Read \cup Chunk
         /\ Cardinality(Chunk) < ChunkSize => Passed = Rows
<1>1. /\ \A r \in Rows : r \in Nat
      /\ \A r \in Rows : oldAnchor[r] \in 1..MaxRows /\ oldAnchor[r] \in Nat
  BY RowFacts, BoundAssumption
<1>2. /\ Chunk \subseteq Ahead /\ IsFiniteSet(Chunk)
      /\ \A r \in Chunk : \A q \in Ahead : q < r => q \in Chunk
      /\ Cardinality(Chunk) < ChunkSize => Chunk = Ahead
  BY ChunkFacts
<1>3. /\ \A r \in Chunk : r \in Rows /\ oldAnchor[r] > cursor
      /\ Chunk \subseteq Int
  BY <1>1, <1>2 DEF Ahead
<1>4. Last \in Chunk /\ \A r \in Chunk : Last >= r
  BY <1>2, <1>3, MaxIsLargest DEF Last
<1>5. Last \in Rows /\ oldAnchor[Last] > cursor /\ oldAnchor[Last] \in 0..MaxRows
  BY <1>1, <1>3, <1>4
<1>6. \A q, r \in Rows : q <= r => oldAnchor[q] <= oldAnchor[r]
  BY DEF TableInv
<1>7. Read \cup Chunk \subseteq Passed
  <2>1. ASSUME NEW r \in Read PROVE r \in Passed
    BY <1>1, <1>5 DEF Read, Passed
  <2>2. ASSUME NEW r \in Chunk PROVE r \in Passed
    <3>1. r \in Rows /\ r <= Last
      BY <1>1, <1>3, <1>4
    <3> QED BY <1>5, <1>6, <3>1 DEF Passed
  <2> QED BY <2>1, <2>2
<1>8. ASSUME Unique, NEW r \in Passed, r \notin Read
      PROVE  r \in Chunk
  <2>1. r \in Rows /\ oldAnchor[r] <= oldAnchor[Last]
    BY DEF Passed
  <2>2. r \in Ahead
    BY <1>1, <1>8, <2>1 DEF Read, Ahead
  <2>3. CASE r < Last
    BY <1>2, <1>4, <2>2, <2>3
  <2>4. CASE r >= Last
    <3>1. oldAnchor[Last] <= oldAnchor[r]
      BY <1>5, <1>6, <2>1, <2>4
    <3>2. oldAnchor[Last] = oldAnchor[r]
      BY <1>1, <1>5, <2>1, <3>1
    <3>3. r = Last
      BY <1>5, <1>8, <2>1, <3>2 DEF Unique
    <3> QED BY <1>4, <3>3
  <2> QED BY <1>1, <1>5, <2>1, <2>3, <2>4
<1>9. ASSUME Chunk = Ahead, NEW r \in Rows
      PROVE  r \in Passed
  <2>1. r \in Read \/ r \in Ahead
    BY <1>1 DEF Read, Ahead
  <2> QED BY <1>7, <1>9, <2>1
<1>10. Passed \subseteq Rows
  BY DEF Passed
<1> QED BY <1>2, <1>4, <1>5, <1>7, <1>8, <1>9, <1>10

-----------------------------------------------------------------------------
(* The groups of a chunk.                                                  *)

Held0 == UNION {carryOld[k] : k \in Key}

(* A group has the rows held back and those of the chunk; no row is in     *)
(* two groups or in none.                                                  *)
LEMMA OldGroupFacts ==
  ASSUME TableInv, CarryInv, cursor \in Nat
  PROVE  /\ OldGroups \in [Name -> SUBSET Rows]
         /\ \A k \in Name : OldGroups[k] = carryOld[k] \cup (Old(k) \cap Chunk)
         /\ \A k \in Name : OldGroups[k] \subseteq Old(k)
         /\ UNION {OldGroups[k] : k \in Name} = Held0 \cup Chunk
         /\ Held0 \in SUBSET Rows /\ Held0 \cap Chunk = {}
<1>1. \A r \in Chunk : r \in Rows /\ r \notin Read
  BY ChunkFacts DEF Ahead
<1>2. \A k \in Name : OldGroups[k] = carryOld[k] \cup {r \in Chunk : oldKey[r] = k}
  BY DEF OldGroups
<1>3. \A k \in Name : {r \in Chunk : oldKey[r] = k} = Old(k) \cap Chunk
  BY <1>1 DEF Old
<1>4. \A k \in Name : carryOld[k] \subseteq Old(k) /\ carryOld[k] \subseteq Read /\ Old(k) \subseteq Rows
  BY DEF CarryInv, Old
<1>5. \A k \in Name : OldGroups[k] = carryOld[k] \cup (Old(k) \cap Chunk)
  BY <1>2, <1>3
<1>6. \A k \in Name : OldGroups[k] \subseteq Old(k) /\ OldGroups[k] \in SUBSET Rows
  BY <1>4, <1>5
<1>7. OldGroups \in [Name -> SUBSET Rows]
  BY <1>6 DEF OldGroups
<1>8. Held0 \in SUBSET Rows /\ Held0 \subseteq Read
  BY <1>4 DEF Held0, Name
<1>9. UNION {OldGroups[k] : k \in Name} = Held0 \cup Chunk
  <2>1. ASSUME NEW r \in Chunk PROVE \E k \in Name : r \in OldGroups[k]
    <3>1. oldKey[r] \in Name /\ r \in Old(oldKey[r])
      BY <1>1, RowFacts DEF Old
    <3> QED BY <1>5, <3>1
  <2>2. ASSUME NEW k \in Name, NEW r \in carryOld[k] PROVE r \in OldGroups[k] /\ k \in Key
    BY <1>5 DEF CarryInv, Name
  <2> QED BY <1>5, <2>1, <2>2 DEF Held0, Name
<1>10. Held0 \cap Chunk = {}
  BY <1>1, <1>8
<1> QED BY <1>5, <1>6, <1>7, <1>8, <1>9, <1>10

(* A key's new rows are fetched with its first old rows and never again    *)
(* while they are at hand.                                                 *)
LEMMA NewGroupFacts ==
  ASSUME TableInv, CarryInv, cursor \in Nat
  PROVE  /\ NewGroups \in [Name -> 0..MaxCopies]
         /\ \A k \in Name : NewGroups[k] > 0 => OldGroups[k] # {}
         /\ NewGroups[Blank] = 0
         /\ \A k \in Key : carryNew[k] = newRows[k] => NewGroups[k] = newRows[k]
         /\ \A k \in Key : carryNew[k] = 0 /\ Old(k) \cap Chunk # {} => NewGroups[k] = newRows[k]
<1>1. \A k \in Name : carryNew[k] \in 0..MaxCopies /\ (carryNew[k] > 0 => carryOld[k] # {})
  BY DEF CarryInv
<1>2. \A k \in Key : newRows[k] \in 0..MaxCopies /\ k \in Name /\ k # Blank
  BY BlankAssumption DEF TableInv, Name
<1>3. \A k \in Name : NewGroups[k] = carryNew[k] + IF k \in Fetched THEN newRows[k] ELSE 0
  BY DEF NewGroups
<1>4. \A k \in Name : k \in Fetched <=> /\ k \in Key /\ Old(k) \cap Chunk # {}
                                        /\ ~(carryNew[k] > 0)
  <2>1. \A r \in Chunk : r \in Rows
    BY ChunkFacts DEF Ahead
  <2>2. \A k \in Name : k \in {oldKey[r] : r \in Chunk} <=> Old(k) \cap Chunk # {}
    BY <2>1 DEF Old
  <2> QED BY <1>2, <2>2 DEF Fetched, Name
<1>5. ASSUME NEW k \in Name
      PROVE  /\ NewGroups[k] \in 0..MaxCopies
             /\ NewGroups[k] > 0 => carryOld[k] # {} \/ Old(k) \cap Chunk # {}
  <2>1. CASE k \in Fetched
    <3>1. carryNew[k] = 0 /\ NewGroups[k] = newRows[k] /\ k \in Key
      BY <1>1, <1>2, <1>3, <1>4, <2>1, BoundAssumption
    <3> QED BY <1>2, <1>4, <2>1, <3>1
  <2>2. CASE k \notin Fetched
    <3>1. NewGroups[k] = carryNew[k]
      BY <1>1, <1>3, <2>2, BoundAssumption
    <3> QED BY <1>1, <3>1
  <2> QED BY <2>1, <2>2
<1>6. \A k \in Name : NewGroups[k] > 0 => OldGroups[k] # {}
  BY <1>5, OldGroupFacts
<1>7. NewGroups \in [Name -> 0..MaxCopies]
  BY <1>5 DEF NewGroups
<1>8. NewGroups[Blank] = 0
  <2>1. Blank \in Name /\ Blank \notin Fetched
    BY <1>2, <1>4 DEF Name
  <2>2. carryNew[Blank] = 0
    BY <1>1, <2>1, BoundAssumption DEF CarryInv
  <2> QED BY <1>3, <2>1, <2>2
<1>9. ASSUME NEW k \in Key, carryNew[k] = newRows[k]
      PROVE  NewGroups[k] = newRows[k]
  <2>1. k \in Fetched => newRows[k] = 0
    BY <1>1, <1>2, <1>4, <1>9, BoundAssumption
  <2> QED BY <1>2, <1>3, <1>9, <2>1, BoundAssumption
<1>10. ASSUME NEW k \in Key, carryNew[k] = 0, Old(k) \cap Chunk # {}
       PROVE  NewGroups[k] = newRows[k]
  <2>1. k \in Fetched
    BY <1>2, <1>4, <1>10
  <2> QED BY <1>2, <1>3, <1>10, <2>1, BoundAssumption
<1> QED BY <1>6, <1>7, <1>8, <1>9, <1>10

(* The last group is one of the chunk's: the one held back only if it is   *)
(* the only one, else the one whose first row comes last.                  *)
LEMMA LastFacts ==
  ASSUME TableInv, CarryInv, cursor \in Nat, Chunk # {}
  PROVE  /\ LastGroup \in Name /\ OldGroups[LastGroup] # {}
         /\ \A k \in Name : OldGroups[k] # {} =>
              /\ carryOld[LastGroup] # {} => carryOld[k] # {}
              /\ carryOld[LastGroup] = {} /\ carryOld[k] = {}
                   => Min(OldGroups[k]) <= Min(OldGroups[LastGroup])
<1> DEFINE present == {k \in Name : OldGroups[k] # {}}
           inserted(k) == IF carryOld[k] # {} THEN 0 ELSE Min(OldGroups[k])
           values == {inserted(k) : k \in present}
<1>1. /\ OldGroups \in [Name -> SUBSET Rows] /\ Rows \subseteq Nat \ {0} /\ IsFiniteSet(Rows)
      /\ \A k \in Name : Old(k) \cap Chunk \subseteq OldGroups[k]
  BY OldGroupFacts, RowFacts
<1>2. ASSUME NEW k \in present
      PROVE  /\ inserted(k) \in {0} \cup Rows
             /\ Min(OldGroups[k]) \in Nat \ {0}
  <2>1. OldGroups[k] \in SUBSET Rows /\ OldGroups[k] \subseteq Nat /\ OldGroups[k] # {}
    BY <1>1
  <2>2. Min(OldGroups[k]) \in OldGroups[k]
    BY <2>1, MinIsSmallest
  <2> QED BY <1>1, <2>1, <2>2
<1>3. present # {}
  <2>1. PICK r \in Chunk : TRUE
    OBVIOUS
  <2>2. r \in Rows
    BY <2>1, ChunkFacts DEF Ahead
  <2>3. oldKey[r] \in Name /\ r \in Old(oldKey[r]) \cap Chunk
    BY <2>1, <2>2, RowFacts DEF Old
  <2> QED BY <1>1, <2>3
<1>4. PICK k \in present : \A q \in present : inserted(q) <= inserted(k)
  <2>1. values \subseteq {0} \cup Rows /\ values # {}
    BY <1>2, <1>3
  <2>2. IsFiniteSet({0} \cup Rows)
    BY <1>1, FS_AddElement
  <2>3. {0} \cup Rows \subseteq Int
    BY <1>1
  <2>4. \A q \in present : inserted(q) \in values
    OBVIOUS
  <2>5. \A x \in values : \E q \in present : x = inserted(q)
    OBVIOUS
  <2> HIDE DEF values, inserted, present
  <2>6. IsFiniteSet(values) /\ values \subseteq Int
    BY <2>1, <2>2, <2>3, FS_Subset
  <2>7. PICK x \in values : \A y \in values : x >= y
    BY <2>1, <2>6, FiniteHasUpper
  <2>8. PICK g \in present : x = inserted(g)
    BY <2>5
  <2>9. \A q \in present : inserted(q) <= inserted(g)
    BY <2>4, <2>6, <2>7, <2>8
  <2> QED BY <2>9
<1>5. LastGroup = CHOOSE g \in present : \A q \in present : inserted(q) <= inserted(g)
  BY DEF LastGroup
<1>6. LastGroup \in present /\ \A q \in present : inserted(q) <= inserted(LastGroup)
  BY <1>4, <1>5
<1>7. ASSUME NEW q \in present
      PROVE  /\ carryOld[LastGroup] # {} => carryOld[q] # {}
             /\ carryOld[LastGroup] = {} /\ carryOld[q] = {}
                  => Min(OldGroups[q]) <= Min(OldGroups[LastGroup])
  <2>1. inserted(q) <= inserted(LastGroup) /\ Min(OldGroups[q]) \in Nat \ {0}
    BY <1>2, <1>6
  <2> QED BY <2>1
<1> QED BY <1>6, <1>7

(* When the groups are contiguous, a group of a full chunk other than the  *)
(* last one has no row beyond the chunk.                                   *)
LEMMA LastIsLast ==
  ASSUME TableInv, CarryInv, cursor \in Nat, Chunk # {}, AllNamed, Unique,
         NEW k \in Key, OldGroups[k] # {}, k # LastGroup
  PROVE  Old(k) \subseteq Passed
<1> SUFFICES ASSUME NEW r \in Old(k), r \notin Passed PROVE FALSE
  OBVIOUS
<1>1. /\ OldGroups \in [Name -> SUBSET Rows]
      /\ \A q \in Name : OldGroups[q] = carryOld[q] \cup (Old(q) \cap Chunk)
      /\ \A q \in Name : OldGroups[q] \subseteq Old(q)
  BY OldGroupFacts
<1>2. PICK g \in Name : g = LastGroup
  BY LastFacts
<1>3. /\ k \in Name /\ OldGroups[g] # {} /\ k # g
      /\ carryOld[g] # {} => carryOld[k] # {}
      /\ carryOld[g] = {} /\ carryOld[k] = {} => Min(OldGroups[k]) <= Min(OldGroups[g])
  BY <1>2, LastFacts DEF Name
<1>4. carryOld[g] = {}
  BY <1>3 DEF CarryInv
<1>5. /\ \A x \in Rows : x \in Nat /\ oldAnchor[x] \in Nat
      /\ \A x, y \in Rows : x <= y => oldAnchor[x] <= oldAnchor[y]
  <2>1. \A x \in Rows : x \in Nat /\ oldAnchor[x] \in Nat
    BY RowFacts, BoundAssumption
  <2> QED BY <2>1 DEF TableInv
<1>6. \A x, y \in Rows : oldAnchor[x] < oldAnchor[y] => x < y
  BY <1>5
<1>7. r \in Rows /\ oldKey[r] = k
  BY DEF Old
<1>8. /\ Last \in Chunk /\ Chunk \subseteq Passed
      /\ \A x \in Chunk : x \in Rows /\ oldAnchor[x] > cursor
  BY CursorFacts, ChunkFacts DEF Ahead
<1>9. PICK q \in OldGroups[g] : q = Min(OldGroups[g])
  <2>1. OldGroups[g] \subseteq Nat
    BY <1>1, <1>5
  <2> QED BY <1>3, <2>1, MinIsSmallest
<1>10. q \in Chunk /\ q \in Rows /\ oldKey[q] = g
  BY <1>1, <1>4, <1>8, <1>9 DEF Old
<1>11. q < r
  <2>1. oldAnchor[q] <= oldAnchor[Last] /\ oldAnchor[Last] < oldAnchor[r]
    BY <1>5, <1>7, <1>8, <1>10 DEF Passed
  <2> QED BY <1>5, <1>6, <1>7, <1>8, <1>10, <2>1
<1>12. \E p \in Rows : oldKey[p] = k /\ p < q
  <2>1. CASE carryOld[k] # {}
    <3>1. PICK p \in carryOld[k] : TRUE
      BY <2>1
    <3>2. p \in Rows /\ oldKey[p] = k /\ oldAnchor[p] <= cursor
      BY <1>3, <3>1 DEF CarryInv, Old, Read
    <3>3. oldAnchor[p] < oldAnchor[q]
      BY <1>5, <1>8, <1>10, <3>2
    <3> QED BY <1>6, <1>10, <3>2, <3>3
  <2>2. CASE carryOld[k] = {}
    <3>1. OldGroups[k] \subseteq Nat
      BY <1>1, <1>3, <1>5
    <3>2. PICK p \in OldGroups[k] : p = Min(OldGroups[k])
      BY <3>1, MinIsSmallest
    <3>3. p \in Rows /\ oldKey[p] = k
      BY <1>1, <1>3, <3>2 DEF Old
    <3>4. p <= q
      BY <1>3, <1>4, <1>9, <2>2, <3>2
    <3>5. p # q
      BY <1>3, <1>10, <3>3
    <3> QED BY <1>5, <1>10, <3>3, <3>4, <3>5
  <2> QED BY <2>1, <2>2
<1>13. oldKey[q] \in {k, Blank}
  <2>1. PICK p \in Rows : oldKey[p] = k /\ p < q
    BY <1>12
  <2>2. Contiguous /\ k # Blank
    BY BlankAssumption DEF TableInv
  <2> QED BY <1>7, <1>10, <1>11, <2>1, <2>2 DEF Contiguous
<1>14. oldKey[q] # Blank
  BY <1>10 DEF AllNamed, Old
<1> QED BY <1>3, <1>10, <1>13, <1>14

-----------------------------------------------------------------------------
(* What a comparison of the groups of ks does.                             *)

Pairing(k, old, new) == [old |-> old[k], new |-> new[k]]
RowsOf(ks, old) == UNION {old[k] : k \in ks}
Differing(ks, old, new) == {k \in ks : Cardinality(old[k]) # new[k]}

LEMMA CompareFacts ==
  ASSUME TableInv, ShapeInv, NEW old \in [Name -> SUBSET Rows], NEW new \in [Name -> 0..MaxCopies],
         \A k \in Name : old[k] \subseteq Old(k),
         \A k \in Name : new[k] > 0 => old[k] # {},
         NEW ks \in SUBSET Name, \A k \in ks : old[k] # {},
         failCount > 0 => reported # {}, Compare(ks, old, new)
  PROVE  /\ compared' \in [Name -> Seq(Comparison)]
         /\ \A k \in ks : compared'[k] = Append(compared[k], Pairing(k, old, new))
         /\ \A k \in Name \ ks : compared'[k] = compared[k]
         /\ reported' = reported \cup Differing(ks, old, new)
         /\ passCount' \in Nat /\ failCount' \in Nat
         /\ passCount' + failCount' = passCount + failCount + Cardinality(RowsOf(ks, old))
         /\ failCount' > 0 => reported' # {}
<1> DEFINE good == {k \in ks : Agrees(old[k], new[k])}
           extra == {k \in DOMAIN new : new[k] > 0 /\ old[k] = {}}
<1>1. /\ compared' = [k \in Name |->
           IF k \in ks THEN Append(compared[k], Pairing(k, old, new))
                       ELSE compared[k]]
      /\ reported' = reported \cup (ks \ good) \cup extra
      /\ passCount' = passCount + Cardinality(RowsOf(good, old))
      /\ failCount' = failCount + Cardinality(RowsOf(ks \ good, old))
  BY DEF Compare, RowsOf, Pairing
<1>2. \A k \in Name : IsFiniteSet(old[k]) /\ Cardinality(old[k]) \in Nat
  BY RowFacts
<1>3. \A k \in ks : Cardinality(old[k]) # 0
  BY <1>2, FS_EmptySet
<1>4. \A k \in ks : Agrees(old[k], new[k]) <=> Cardinality(old[k]) = new[k]
  BY <1>2, <1>3, BoundAssumption DEF Agrees
<1>5. extra = {}
  OBVIOUS
<1>6. reported' = reported \cup Differing(ks, old, new)
  BY <1>1, <1>4, <1>5 DEF Differing
<1>7. /\ RowsOf(good, old) \in SUBSET Rows /\ RowsOf(ks \ good, old) \in SUBSET Rows
      /\ RowsOf(good, old) \cup RowsOf(ks \ good, old) = RowsOf(ks, old)
  BY DEF RowsOf
<1>8. RowsOf(good, old) \cap RowsOf(ks \ good, old) = {}
  <2> SUFFICES ASSUME NEW k \in good, NEW q \in ks \ good, NEW r, r \in old[k], r \in old[q]
               PROVE  FALSE
    BY DEF RowsOf
  <2>1. oldKey[r] = k /\ oldKey[r] = q
    BY DEF Old
  <2> QED BY <2>1
<1>9. /\ IsFiniteSet(RowsOf(good, old)) /\ Cardinality(RowsOf(good, old)) \in Nat
      /\ IsFiniteSet(RowsOf(ks \ good, old)) /\ Cardinality(RowsOf(ks \ good, old)) \in Nat
  BY <1>7, RowFacts
<1>10. Cardinality(RowsOf(ks, old)) = Cardinality(RowsOf(good, old)) + Cardinality(RowsOf(ks \ good, old))
  <2> DEFINE A == RowsOf(good, old)
             B == RowsOf(ks \ good, old)
  <2>1. IsFiniteSet(A) /\ IsFiniteSet(B) /\ A \cap B = {} /\ A \cup B = RowsOf(ks, old)
    BY <1>7, <1>8, <1>9
  <2> HIDE DEF A, B
  <2>2. Cardinality(A \cup B) = Cardinality(A) + Cardinality(B)
    BY <2>1, DisjointUnion
  <2> QED BY <2>1, <2>2 DEF A, B
<1>11. ks \ good = {} => Cardinality(RowsOf(ks \ good, old)) = 0
  BY FS_EmptySet DEF RowsOf
<1>12. failCount' > 0 => failCount > 0 \/ ks \ good # {}
  <2> HIDE DEF good
  <2> QED BY <1>1, <1>9, <1>11 DEF ShapeInv
<1>13. /\ passCount' \in Nat /\ failCount' \in Nat
       /\ passCount' + failCount' = passCount + failCount + Cardinality(RowsOf(ks, old))
  <2> HIDE DEF good
  <2> QED BY <1>1, <1>9, <1>10 DEF ShapeInv
<1>14. failCount' > 0 => reported' # {}
  <2> HIDE DEF good, extra
  <2> QED BY <1>1, <1>12
<1>15. /\ compared' \in [Name -> Seq(Comparison)]
       /\ \A k \in ks : compared'[k] = Append(compared[k], Pairing(k, old, new))
       /\ \A k \in Name \ ks : compared'[k] = compared[k]
  <2> DEFINE E == Comparison
             entry(k) == Pairing(k, old, new)
  <2>1. compared \in [Name -> Seq(E)] /\ \A k \in Name : entry(k) \in E
    BY DEF ShapeInv, Comparison, Pairing
  <2>2. compared' = [k \in Name |-> IF k \in ks THEN Append(compared[k], entry(k)) ELSE compared[k]]
    BY <1>1
  <2> HIDE DEF E, entry
  <2>3. \A k \in Name : Append(compared[k], entry(k)) \in Seq(E)
    BY <2>1
  <2>4. /\ compared' \in [Name -> Seq(E)]
        /\ \A k \in ks : compared'[k] = Append(compared[k], entry(k))
        /\ \A k \in Name \ ks : compared'[k] = compared[k]
    BY <2>1, <2>2, <2>3
  <2> QED BY <2>4 DEF E, entry
<1> QED BY <1>6, <1>13, <1>14, <1>15

-----------------------------------------------------------------------------
(* The tables never change.                                                *)

LEMMA TablesStay ==
  ASSUME UNCHANGED tables
  PROVE  /\ Rows' = Rows /\ (Unique' <=> Unique) /\ (AllNamed' <=> AllNamed)
         /\ \A k : Old(k)' = Old(k)
         /\ TableInv => TableInv'
         /\ cursor' = cursor => Read' = Read
<1>1. UNCHANGED <<oldKey, oldAnchor, newRows, warned>> /\ Rows' = Rows
  BY DEF tables, Rows
<1>2. Unique' <=> Unique
  BY <1>1 DEF Unique
<1>3. \A k : Old(k)' = Old(k)
  BY <1>1 DEF Old
<1>4. AllNamed' <=> AllNamed
  BY <1>3 DEF AllNamed
<1>5. Contiguous' <=> Contiguous
  BY <1>1 DEF Contiguous
<1>6. TableInv => TableInv'
  BY <1>1, <1>2, <1>5 DEF TableInv
<1>7. cursor' = cursor => Read' = Read
  BY <1>1 DEF Read
<1> QED BY <1>1, <1>2, <1>3, <1>4, <1>6, <1>7

(* One turn of the loop, with the groups it compares and what it holds     *)
(* back: the last group of a full chunk, unless it has no key.             *)
Turn(g, old, new, short, ks) ==
  /\ g = LastGroup /\ old = OldGroups /\ new = NewGroups
  /\ old[g] # {} /\ (short <=> IsLastChunk)
  /\ ks = {k \in Name : old[k] # {} /\ (short \/ k # g)}
  /\ Compare(ks, old, new)
  /\ \A k \in Name :
       /\ carryOld'[k] = IF ~short /\ k = g /\ k # Blank THEN old[k] ELSE {}
       /\ carryNew'[k] = IF ~short /\ k = g /\ k # Blank THEN new[k] ELSE 0
  /\ carryOld' \in [Name -> SUBSET Rows] /\ carryNew' \in [Name -> 0..MaxCopies]

LEMMA TurnFacts ==
  ASSUME IInv, NextChunk
  PROVE  \E g \in Name, old \in [Name -> SUBSET Rows], new \in [Name -> 0..MaxCopies],
            short \in BOOLEAN, ks \in SUBSET Name : Turn(g, old, new, short, ks)
<1>1. /\ phase = "scan" /\ Chunk # {}
      /\ Compare({k \in Name \ Held : OldGroups[k] # {}}, OldGroups, NewGroups)
      /\ carryOld' = [k \in Name |-> IF k \in Carried THEN OldGroups[k] ELSE {}]
      /\ carryNew' = [k \in Name |-> IF k \in Carried THEN NewGroups[k] ELSE 0]
  BY DEF NextChunk
<1>2. TableInv /\ CarryInv /\ cursor \in Nat
  BY BoundAssumption DEF IInv, ShapeInv
<1>3. PICK g \in Name : g = LastGroup /\ OldGroups[g] # {}
  BY <1>1, <1>2, LastFacts
<1>4. PICK old \in [Name -> SUBSET Rows] : old = OldGroups
  BY <1>2, OldGroupFacts
<1>5. PICK new \in [Name -> 0..MaxCopies] : new = NewGroups
  BY <1>2, NewGroupFacts
<1>6. PICK short \in BOOLEAN : short <=> IsLastChunk
  <2>1. CASE IsLastChunk
    <3>1. TRUE \in BOOLEAN /\ (TRUE <=> IsLastChunk)
      BY <2>1
    <3> QED BY <3>1
  <2>2. CASE ~IsLastChunk
    <3>1. FALSE \in BOOLEAN /\ (FALSE <=> IsLastChunk)
      BY <2>2
    <3> QED BY <3>1
  <2> QED BY <2>1, <2>2
<1>7. Held = (IF short THEN {} ELSE {g}) /\ Carried = Held \ {Blank}
  BY <1>3, <1>6 DEF Held, Carried
<1>8. {k \in Name \ Held : OldGroups[k] # {}} = {k \in Name : old[k] # {} /\ (short \/ k # g)}
  BY <1>4, <1>7
<1>9. \A k \in Name : k \in Carried <=> ~short /\ k = g /\ k # Blank
  BY <1>7
<1>10. \A k \in Name :
         /\ carryOld'[k] = IF ~short /\ k = g /\ k # Blank THEN old[k] ELSE {}
         /\ carryNew'[k] = IF ~short /\ k = g /\ k # Blank THEN new[k] ELSE 0
  BY <1>1, <1>4, <1>5, <1>9
<1>11. carryOld' \in [Name -> SUBSET Rows] /\ carryNew' \in [Name -> 0..MaxCopies]
  BY <1>1, <1>4, <1>5, BoundAssumption
<1> DEFINE ks == {k \in Name : old[k] # {} /\ (short \/ k # g)}
<1>12. Compare(ks, old, new) /\ ks \in SUBSET Name
  BY <1>1, <1>4, <1>5, <1>8
<1> HIDE DEF ks
<1>13. ks = {k \in Name : old[k] # {} /\ (short \/ k # g)}
  BY DEF ks
<1>14. Turn(g, old, new, short, ks)
  BY <1>3, <1>4, <1>5, <1>6, <1>10, <1>11, <1>12, <1>13 DEF Turn
<1> QED BY <1>12, <1>14

(* Where the turn leaves the cursor.                                       *)
LEMMA MoveFacts ==
  ASSUME IInv, NextChunk
  PROVE  /\ TableInv' /\ Rows' = Rows /\ (Unique' <=> Unique) /\ (AllNamed' <=> AllNamed)
         /\ \A k : Old(k)' = Old(k)
         /\ phase = "scan" /\ phase' \in {"scan", "flush"} /\ (phase' = "flush" => IsLastChunk)
         /\ cursor' \in 0..MaxRows /\ cursor' > cursor
         /\ Read' = Passed /\ Read \cup Chunk \subseteq Read' /\ Read \cap Chunk = {}
         /\ Unique => Read' = Read \cup Chunk
         /\ IsLastChunk => Read' = Rows
         /\ rowsChecked' = rowsChecked + Cardinality(Chunk)
<1>1. /\ phase = "scan" /\ Chunk # {} /\ UNCHANGED tables
      /\ cursor' = oldAnchor[Last] /\ phase' = IF IsLastChunk THEN "flush" ELSE "scan"
      /\ rowsChecked' = rowsChecked + Cardinality(Chunk)
  BY DEF NextChunk, Last
<1>2. TableInv /\ cursor \in Nat
  BY BoundAssumption DEF IInv, ShapeInv
<1>3. /\ TableInv' /\ Rows' = Rows /\ (Unique' <=> Unique) /\ (AllNamed' <=> AllNamed)
      /\ \A k : Old(k)' = Old(k)
  BY <1>1, <1>2, TablesStay
<1>4. Read' = Passed
  <2>1. oldAnchor' = oldAnchor
    BY <1>1 DEF tables
  <2> QED BY <1>1, <1>3, <2>1 DEF Read, Passed
<1>5. Chunk \cap Read = {}
  BY <1>2, ChunkFacts
<1>6. /\ cursor' \in 0..MaxRows /\ cursor' > cursor /\ Read \cup Chunk \subseteq Passed
      /\ Unique => Passed = Read \cup Chunk
      /\ IsLastChunk => Passed = Rows
  BY <1>1, <1>2, CursorFacts DEF IsLastChunk
<1> QED BY <1>1, <1>3, <1>4, <1>5, <1>6

(* What the turn's groups are, and what comparing them does.               *)
LEMMA TurnGroups ==
  ASSUME IInv, NextChunk, NEW g \in Name, NEW old \in [Name -> SUBSET Rows],
         NEW new \in [Name -> 0..MaxCopies], NEW short \in BOOLEAN, NEW ks \in SUBSET Name,
         Turn(g, old, new, short, ks)
  PROVE  /\ \A k \in Name : old[k] = carryOld[k] \cup (Old(k) \cap Chunk)
         /\ \A k \in Name : old[k] \subseteq Old(k) /\ (new[k] > 0 => old[k] # {})
         /\ RowsOf(Name, old) = Held0 \cup Chunk
         /\ Held0 \in SUBSET Rows /\ Held0 \cap Chunk = {}
         /\ new[Blank] = 0
         /\ \A k \in Key : carryNew[k] = newRows[k] => new[k] = newRows[k]
         /\ \A k \in Key : carryNew[k] = 0 /\ Old(k) \cap Chunk # {} => new[k] = newRows[k]
         /\ \A k \in Name : k \in ks <=> old[k] # {} /\ (short \/ k # g)
<1>1. TableInv /\ CarryInv /\ cursor \in Nat
  BY BoundAssumption DEF IInv, ShapeInv
<1>2. /\ old = OldGroups /\ new = NewGroups
      /\ \A k \in Name : k \in ks <=> old[k] # {} /\ (short \/ k # g)
  BY DEF Turn
<1> QED BY <1>1, <1>2, OldGroupFacts, NewGroupFacts DEF RowsOf

LEMMA TurnResults ==
  ASSUME IInv, NextChunk, NEW g \in Name, NEW old \in [Name -> SUBSET Rows],
         NEW new \in [Name -> 0..MaxCopies], NEW short \in BOOLEAN, NEW ks \in SUBSET Name,
         Turn(g, old, new, short, ks)
  PROVE  /\ compared' \in [Name -> Seq(Comparison)]
         /\ \A k \in ks : compared'[k] = Append(compared[k], Pairing(k, old, new))
         /\ \A k \in Name \ ks : compared'[k] = compared[k]
         /\ reported' = reported \cup Differing(ks, old, new)
         /\ passCount' \in Nat /\ failCount' \in Nat
         /\ passCount' + failCount' = passCount + failCount + Cardinality(RowsOf(ks, old))
         /\ failCount' > 0 => reported' # {}
<1>1. TableInv /\ ShapeInv
  BY DEF IInv
<1>2. \A k \in Name : old[k] \subseteq Old(k) /\ (new[k] > 0 => old[k] # {})
  BY TurnGroups
<1>3. \A k \in ks : old[k] # {}
  BY TurnGroups
<1>4. Compare(ks, old, new)
  BY DEF Turn
<1>5. failCount > 0 => reported # {}
  BY DEF IInv, CountInv
<1>6. ks \in SUBSET Name /\ old \in [Name -> SUBSET Rows] /\ new \in [Name -> 0..MaxCopies]
  OBVIOUS
<1>7. /\ \A k \in Name : old[k] \subseteq Old(k)
      /\ \A k \in Name : new[k] > 0 => old[k] # {}
  BY <1>2
<1> QED BY ONLY <1>1, <1>3, <1>4, <1>5, <1>6, <1>7, CompareFacts

LEMMA TurnShape ==
  ASSUME IInv, NextChunk
  PROVE  ShapeInv'
<1>1. PICK g \in Name, old \in [Name -> SUBSET Rows], new \in [Name -> 0..MaxCopies],
           short \in BOOLEAN, ks \in SUBSET Name : Turn(g, old, new, short, ks)
  BY TurnFacts
<1>2. /\ compared' \in [Name -> Seq(Comparison)]
      /\ reported' = reported \cup Differing(ks, old, new)
      /\ passCount' \in Nat /\ failCount' \in Nat
  BY <1>1, TurnResults
<1>3. /\ Rows' = Rows /\ cursor' \in 0..MaxRows
      /\ phase' \in {"scan", "flush"} /\ (phase' = "flush" => Read' = Rows)
      /\ rowsChecked' = rowsChecked + Cardinality(Chunk)
  BY MoveFacts
<1>4. rowsChecked \in Nat /\ reported \subseteq Name
  BY DEF IInv, ShapeInv
<1>5. Cardinality(Chunk) \in Nat
  BY ChunkFacts, BoundAssumption DEF IInv, ShapeInv
<1>6. reported' \subseteq Name /\ rowsChecked' \in Nat
  BY <1>2, <1>3, <1>4, <1>5 DEF Differing
<1>7. compared' \in [Name -> Seq(Comparison')]
  BY <1>2, <1>3 DEF Comparison
<1> QED BY <1>2, <1>3, <1>6, <1>7 DEF ShapeInv, Comparison

LEMMA TurnCarry ==
  ASSUME IInv, NextChunk
  PROVE  CarryInv'
<1>1. PICK g \in Name, old \in [Name -> SUBSET Rows], new \in [Name -> 0..MaxCopies],
           short \in BOOLEAN, ks \in SUBSET Name : Turn(g, old, new, short, ks)
  BY TurnFacts
<1>2. /\ \A k \in Name : old[k] = carryOld[k] \cup (Old(k) \cap Chunk)
      /\ \A k \in Name : old[k] \subseteq Old(k) /\ (new[k] > 0 => old[k] # {})
  BY <1>1, TurnGroups
<1>3. /\ Rows' = Rows /\ Read \cup Chunk \subseteq Read' /\ \A k : Old(k)' = Old(k)
  BY MoveFacts
<1>4. \A k \in Name : carryOld[k] \subseteq Read
  BY DEF IInv, CarryInv
<1>5. \A k \in Name : old[k] \subseteq Old(k) /\ old[k] \subseteq Read'
  BY <1>2, <1>3, <1>4
<1>6. /\ \A k \in Name :
           /\ carryOld'[k] = IF ~short /\ k = g /\ k # Blank THEN old[k] ELSE {}
           /\ carryNew'[k] = IF ~short /\ k = g /\ k # Blank THEN new[k] ELSE 0
      /\ carryOld' \in [Name -> SUBSET Rows] /\ carryNew' \in [Name -> 0..MaxCopies]
  BY <1>1 DEF Turn
<1>7. \A k \in Name : carryOld'[k] \subseteq Old(k)' /\ carryOld'[k] \subseteq Read'
  BY <1>3, <1>5, <1>6
<1>8. Blank \in Name
  BY DEF Name
<1>9. /\ carryOld'[Blank] = {}
      /\ \A k, q \in Name : carryOld'[k] # {} /\ carryOld'[q] # {} => k = q
  BY <1>6, <1>8
<1>10. \A k \in Name : carryNew'[k] > 0 => carryOld'[k] # {}
  BY <1>2, <1>6
<1> QED BY <1>3, <1>6, <1>7, <1>9, <1>10 DEF CarryInv

(* The rows of the turn: those held back before and those of the chunk are *)
(* compared or held back again, but for the rows without a key of a full   *)
(* chunk's last group, which are dropped.                                  *)
LEMMA TurnSums ==
  ASSUME IInv, NextChunk, NEW g \in Name, NEW old \in [Name -> SUBSET Rows],
         NEW new \in [Name -> 0..MaxCopies], NEW short \in BOOLEAN, NEW ks \in SUBSET Name,
         Turn(g, old, new, short, ks)
  PROVE  /\ Cardinality(Waiting) \in Nat /\ Cardinality(Waiting') \in Nat
         /\ Cardinality(RowsOf(ks, old)) \in Nat
         /\ Cardinality(RowsOf(ks, old)) + Cardinality(Waiting')
              <= Cardinality(Waiting) + Cardinality(Chunk)
         /\ AllNamed => Cardinality(RowsOf(ks, old)) + Cardinality(Waiting')
                          = Cardinality(Waiting) + Cardinality(Chunk)
         /\ ~short /\ g = Blank => Cardinality(RowsOf(ks, old)) + Cardinality(Waiting')
                                   < Cardinality(Waiting) + Cardinality(Chunk)
<1>1. /\ \A k \in Name : old[k] \subseteq Old(k)
      /\ RowsOf(Name, old) = Held0 \cup Chunk
      /\ Held0 \in SUBSET Rows /\ Held0 \cap Chunk = {}
      /\ \A k \in Name : k \in ks <=> old[k] # {} /\ (short \/ k # g)
  BY TurnGroups
<1>2. /\ TableInv /\ phase = "scan" /\ phase' # "done" /\ Rows' = Rows
  BY MoveFacts DEF IInv
<1>3. Chunk \in SUBSET Rows
  BY <1>2, BoundAssumption, ChunkFacts DEF IInv, ShapeInv, Ahead
<1>4. \A S \in SUBSET Rows : IsFiniteSet(S) /\ Cardinality(S) \in Nat
  BY <1>2, RowFacts
<1>5. Waiting = Held0
  BY <1>2 DEF Waiting, Held0
<1>6. Waiting' = IF short \/ g = Blank THEN {} ELSE old[g]
  <2>1. \A k \in Key : k \in Name /\ k # Blank
    BY BlankAssumption DEF Name
  <2>2. \A k \in Name : carryOld'[k] = IF ~short /\ k = g /\ k # Blank THEN old[k] ELSE {}
    BY DEF Turn
  <2>3. Waiting' = UNION {carryOld'[k] : k \in Key}
    BY <1>2 DEF Waiting
  <2>4. g # Blank => g \in Key
    BY DEF Name
  <2> QED BY <2>1, <2>2, <2>3, <2>4
<1> DEFINE done == RowsOf(ks, old)
           rest == IF short THEN {} ELSE old[g]
<1>7. done \in SUBSET Rows /\ rest \in SUBSET Rows /\ done \cap rest = {}
  <2>1. ASSUME NEW k \in ks, NEW r \in old[k], r \in rest
        PROVE  FALSE
    <3>1. k # g /\ r \in old[g] /\ k \in Name
      BY <1>1, <2>1
    <3>2. oldKey[r] = k /\ oldKey[r] = g
      BY <1>1, <2>1, <3>1 DEF Old
    <3> QED BY <3>1, <3>2
  <2> QED BY <2>1 DEF RowsOf
<1>8. done \cup rest = Held0 \cup Chunk
  <2>1. RowsOf(Name, old) = done \cup rest
    BY <1>1 DEF RowsOf
  <2> QED BY <1>1, <2>1
<1> HIDE DEF done, rest
<1>9. Cardinality(done) + Cardinality(rest) = Cardinality(Held0) + Cardinality(Chunk)
  <2>1. /\ IsFiniteSet(done) /\ IsFiniteSet(rest)
        /\ IsFiniteSet(Held0) /\ IsFiniteSet(Chunk)
    BY <1>1, <1>3, <1>4, <1>7
  <2>2. Cardinality(done \cup rest) = Cardinality(done) + Cardinality(rest)
    BY <1>7, <2>1, DisjointUnion
  <2>3. Cardinality(Held0 \cup Chunk) = Cardinality(Held0) + Cardinality(Chunk)
    BY <1>1, <2>1, DisjointUnion
  <2> QED BY <1>8, <2>2, <2>3
<1>10. PICK a \in Nat, d \in Nat :
         /\ a = Cardinality(Waiting') /\ a + d = Cardinality(rest)
         /\ AllNamed => d = 0
         /\ ~short /\ g = Blank => d > 0
  <2>1. Cardinality({}) = 0 /\ old[g] \in SUBSET Rows /\ old[g] # {}
    BY FS_EmptySet DEF Turn
  <2>2. Cardinality(old[g]) \in Nat /\ Cardinality(old[g]) # 0
    BY <1>4, <2>1, FS_EmptySet
  <2>3. CASE short
    <3>1. Waiting' = {} /\ rest = {}
      BY <1>6, <2>3 DEF rest
    <3> QED BY <2>1, <2>3, <3>1
  <2>4. CASE ~short /\ g # Blank
    <3>1. Waiting' = old[g] /\ rest = old[g]
      BY <1>6, <2>4 DEF rest
    <3> QED BY <2>2, <2>4, <3>1
  <2>5. CASE ~short /\ g = Blank
    <3>1. Waiting' = {} /\ rest = old[g]
      BY <1>6, <2>5 DEF rest
    <3>2. ~AllNamed
      BY <1>1, <2>1, <2>5 DEF AllNamed
    <3> QED BY <2>1, <2>2, <2>5, <3>1, <3>2
  <2> QED BY <2>3, <2>4, <2>5
<1>11. Cardinality(done) \in Nat /\ Cardinality(Held0) \in Nat /\ Cardinality(Chunk) \in Nat
  BY <1>1, <1>3, <1>4, <1>7
<1>12. Cardinality(Held0) + Cardinality(Chunk) = Cardinality(done) + a + d
  BY <1>9, <1>10, <1>11
<1>13. done = RowsOf(ks, old)
  BY DEF done
<1> QED BY <1>5, <1>10, <1>11, <1>12, <1>13

LEMMA TurnCount ==
  ASSUME IInv, NextChunk
  PROVE  CountInv' /\ BlankInv'
<1>1. PICK g \in Name, old \in [Name -> SUBSET Rows], new \in [Name -> 0..MaxCopies],
           short \in BOOLEAN, ks \in SUBSET Name : Turn(g, old, new, short, ks)
  BY TurnFacts
<1>2. PICK before \in Nat, done \in Nat, after \in Nat :
           /\ before = Cardinality(Waiting) /\ after = Cardinality(Waiting')
           /\ done = Cardinality(RowsOf(ks, old))
           /\ done + after <= before + Cardinality(Chunk)
           /\ AllNamed => done + after = before + Cardinality(Chunk)
           /\ ~short /\ g = Blank => done + after < before + Cardinality(Chunk)
  <2>1. /\ Cardinality(Waiting) \in Nat /\ Cardinality(Waiting') \in Nat
        /\ Cardinality(RowsOf(ks, old)) \in Nat
    BY <1>1, TurnSums
  <2>2. /\ Cardinality(RowsOf(ks, old)) + Cardinality(Waiting')
             <= Cardinality(Waiting) + Cardinality(Chunk)
        /\ AllNamed => Cardinality(RowsOf(ks, old)) + Cardinality(Waiting')
                         = Cardinality(Waiting) + Cardinality(Chunk)
        /\ ~short /\ g = Blank => Cardinality(RowsOf(ks, old)) + Cardinality(Waiting')
                                  < Cardinality(Waiting) + Cardinality(Chunk)
    BY <1>1, TurnSums
  <2> QED BY <2>1, <2>2
<1>3. /\ reported' = reported \cup Differing(ks, old, new)
      /\ failCount' > 0 => reported' # {}
  BY <1>1, TurnResults
<1>30. /\ passCount' \in Nat /\ failCount' \in Nat
      /\ passCount' + failCount' = passCount + failCount + done
  BY <1>1, <1>2, TurnResults
<1>4. /\ rowsChecked \in Nat /\ passCount \in Nat /\ failCount \in Nat
      /\ cursor \in Nat /\ TableInv
  BY BoundAssumption DEF IInv, ShapeInv
<1>5. PICK fetched \in Nat : fetched = Cardinality(Chunk)
  BY <1>4, ChunkFacts
<1>6. rowsChecked' = rowsChecked + fetched /\ (AllNamed' <=> AllNamed)
  BY <1>5, MoveFacts
<1>7. Counting /\ Counting'
  BY MoveFacts DEF Counting
<1>8. /\ rowsChecked <= Cardinality(Read)
      /\ passCount + failCount + before <= rowsChecked
      /\ AllNamed => passCount + failCount + before = rowsChecked
  BY <1>2, <1>7 DEF IInv, CountInv
<1>9. /\ Cardinality(Read) \in Nat /\ Cardinality(Read') \in Nat
      /\ Cardinality(Read) + fetched <= Cardinality(Read')
  <2>1. Read \cup Chunk \subseteq Read' /\ Read \cap Chunk = {} /\ Read' = Passed
    BY MoveFacts
  <2>2. \A S \in SUBSET Rows : IsFiniteSet(S) /\ Cardinality(S) \in Nat
    BY <1>4, RowFacts
  <2>3. Read' \in SUBSET Rows
    BY <2>1 DEF Passed
  <2>4. /\ Read \in SUBSET Rows /\ Chunk \in SUBSET Rows /\ Read \cup Chunk \in SUBSET Rows
    BY <2>1, <2>3
  <2>5. Cardinality(Read \cup Chunk) = Cardinality(Read) + Cardinality(Chunk)
    BY <2>1, <2>2, <2>4, DisjointUnion
  <2>6. Cardinality(Read \cup Chunk) <= Cardinality(Read')
    BY <2>1, <2>2, <2>3, FS_Subset
  <2> QED BY <1>5, <2>2, <2>3, <2>4, <2>5, <2>6
<1>10. rowsChecked' <= Cardinality(Read')
  BY <1>4, <1>6, <1>8, <1>9
<1>11. /\ passCount' + failCount' + after <= passCount + failCount + before + fetched
       /\ AllNamed => passCount' + failCount' + after = passCount + failCount + before + fetched
       /\ ~short /\ g = Blank => passCount' + failCount' + after < passCount + failCount + before + fetched
  BY <1>2, <1>30, <1>4, <1>5
<1>12. passCount' + failCount' + after <= rowsChecked'
  BY <1>2, <1>30, <1>4, <1>5, <1>6, <1>8, <1>11
<1>13. AllNamed => passCount' + failCount' + after = rowsChecked'
  BY <1>2, <1>30, <1>4, <1>5, <1>6, <1>8, <1>11
<1>14. CountInv'
  BY <1>2, <1>3, <1>6, <1>7, <1>10, <1>12, <1>13 DEF CountInv
<1>15. ASSUME Unique, Old(Blank) \cap Read' # {}, Blank \notin reported'
       PROVE  passCount' + failCount' + after < rowsChecked'
  <2>1. Old(Blank) \cap Read # {} \/ Old(Blank) \cap Chunk # {}
    BY <1>15, MoveFacts
  <2>2. Blank \notin reported
    BY <1>3, <1>15
  <2>3. CASE Old(Blank) \cap Read # {}
    <3>1. passCount + failCount + before < rowsChecked
      BY <1>2, <1>7, <1>15, <2>2, <2>3 DEF IInv, BlankInv
    <3> QED BY <1>30, <1>4, <1>5, <1>6, <1>11, <3>1
  <2>4. CASE Old(Blank) \cap Chunk # {}
    <3>1. Blank \in Name /\ old[Blank] # {} /\ old[Blank] \in SUBSET Rows
      <4>1. Blank \in Name
        BY DEF Name
      <4>2. old[Blank] = carryOld[Blank] \cup (Old(Blank) \cap Chunk)
        BY <1>1, <4>1, TurnGroups
      <4> QED BY <2>4, <4>1, <4>2
    <3>2. Cardinality(old[Blank]) # 0
      BY <1>4, <3>1, RowFacts, FS_EmptySet
    <3>3. Blank \notin ks
      BY <1>1, <1>3, <1>15, <3>2, TurnGroups DEF Differing
    <3>4. ~short /\ g = Blank
      BY <1>1, <3>1, <3>3, TurnGroups
    <3> QED BY <1>2, <1>30, <1>4, <1>5, <1>6, <1>8, <1>11, <3>4
  <2> QED BY <2>1, <2>3, <2>4
<1>16. (Unique' <=> Unique) /\ Old(Blank)' = Old(Blank)
  BY MoveFacts
<1>17. BlankInv'
  BY <1>2, <1>15, <1>16 DEF BlankInv
<1> QED BY <1>14, <1>17

(* The turn moves a group from one stage to the next, and no stage leads   *)
(* back.                                                                   *)
LEMMA TurnStages ==
  ASSUME IInv, NextChunk
  PROVE  GroupInv'
<1>1. PICK g \in Name, old \in [Name -> SUBSET Rows], new \in [Name -> 0..MaxCopies],
           short \in BOOLEAN, ks \in SUBSET Name : Turn(g, old, new, short, ks)
  BY TurnFacts
<1>2. SUFFICES ASSUME Unique, AllNamed
               PROVE  /\ \A k \in Key : Unread(k)' \/ Waits(k)' \/ Whole(k)'
                      /\ \A k \in reported' : k \in Key /\ Whole(k)'
  <2>1. (Unique' <=> Unique) /\ (AllNamed' <=> AllNamed)
    BY MoveFacts
  <2> QED BY <2>1 DEF GroupInv
<1>3. /\ TableInv /\ CarryInv /\ cursor \in Nat
      /\ \A k \in Key : Unread(k) \/ Waits(k) \/ Whole(k)
      /\ \A k \in reported : k \in Key /\ Whole(k)
  BY <1>2, BoundAssumption DEF IInv, ShapeInv, GroupInv
<1>4. /\ phase = "scan" /\ phase' # "done" /\ Counting /\ Counting'
      /\ Read' = Read \cup Chunk /\ Read \cap Chunk = {} /\ Read' = Passed
      /\ \A k : Old(k)' = Old(k)
      /\ short => Read' = Rows
  BY <1>1, <1>2, MoveFacts DEF Counting, Turn
<1>5. newRows' = newRows
  BY DEF NextChunk, tables
<1>6. \A k \in Key : k \in Name /\ k # Blank
  BY BlankAssumption DEF Name
<1>7. /\ \A k \in Name : old[k] = carryOld[k] \cup (Old(k) \cap Chunk)
      /\ \A k \in Key : carryNew[k] = newRows[k] => new[k] = newRows[k]
      /\ \A k \in Key : carryNew[k] = 0 /\ Old(k) \cap Chunk # {} => new[k] = newRows[k]
      /\ \A k \in Name : k \in ks <=> old[k] # {} /\ (short \/ k # g)
  BY <1>1, TurnGroups
<1>8. /\ \A k \in Key : /\ carryOld'[k] = IF ~short /\ k = g THEN old[k] ELSE {}
                       /\ carryNew'[k] = IF ~short /\ k = g THEN new[k] ELSE 0
      /\ old = OldGroups /\ g = LastGroup /\ old[g] # {}
  BY <1>1, <1>6 DEF Turn
<1>9. /\ \A k \in ks : compared'[k] = Append(compared[k], Pairing(k, old, new))
      /\ \A k \in Name \ ks : compared'[k] = compared[k]
      /\ reported' = reported \cup Differing(ks, old, new)
  BY <1>1, TurnResults
<1>10. ASSUME NEW k \in Key, Unread(k), Old(k) \cap Chunk = {}
       PROVE  Unread(k)'
  <2>1. old[k] = {} /\ k \notin ks /\ k # g
    BY <1>6, <1>7, <1>8, <1>10 DEF Unread
  <2>2. compared'[k] = <<>> /\ carryOld'[k] = {} /\ carryNew'[k] = 0
    BY <1>6, <1>8, <1>9, <1>10, <2>1 DEF Unread
  <2>3. Old(k)' \cap Read' = {}
    BY <1>4, <1>10 DEF Unread
  <2> QED BY <2>2, <2>3 DEF Unread
(* A group with rows at hand that has not been compared.                   *)
<1>11. ASSUME NEW k \in Key, compared[k] = <<>>, k \notin reported,
              old[k] = Old(k) \cap Read', old[k] # {}, new[k] = newRows[k]
       PROVE  Waits(k)' \/ Whole(k)'
  <2>1. CASE ~short /\ k = g
    <3>1. compared'[k] = <<>> /\ carryOld'[k] = old[k] /\ carryNew'[k] = newRows'[k]
      BY <1>5, <1>6, <1>7, <1>8, <1>9, <1>11, <2>1
    <3>2. carryOld'[k] = Old(k)' \cap Read' /\ carryOld'[k] # {}
      BY <1>4, <1>11, <3>1
    <3> QED BY <1>4, <3>1, <3>2 DEF Waits
  <2>2. CASE short \/ k # g
    <3>1. k \in ks /\ carryOld'[k] = {} /\ carryNew'[k] = 0
      BY <1>6, <1>7, <1>8, <1>11, <2>2
    <3>2. Old(k) \subseteq Read'
      <4>1. CASE short
        BY <1>4, <4>1 DEF Old
      <4>2. CASE k # g
        <5>1. Chunk # {}
          BY DEF NextChunk
        <5> QED BY <1>2, <1>3, <1>4, <1>8, <1>11, <4>2, <5>1, LastIsLast
      <4> QED BY <2>2, <4>1, <4>2
    <3>3. old[k] = Old(k)
      BY <1>11, <3>2
    <3>4. compared'[k] = <<[old |-> Old(k), new |-> newRows[k]]>>
      BY <1>9, <1>11, <3>1, <3>3 DEF Pairing
    <3>5. k \in reported' <=> Cardinality(Old(k)) # newRows[k]
      BY <1>9, <1>11, <3>1, <3>3 DEF Differing
    <3> QED BY <1>4, <1>5, <1>11, <3>1, <3>2, <3>3, <3>4, <3>5 DEF Whole
  <2> QED BY <2>1, <2>2
<1>12. ASSUME NEW k \in Key, Whole(k)
       PROVE  old[k] = {} /\ Whole(k)'
  <2>1. Old(k) # {} /\ Old(k) \subseteq Read /\ carryOld[k] = {}
    BY <1>4, <1>12 DEF Whole
  <2>2. old[k] = {} /\ k \notin ks /\ k # g
    BY <1>4, <1>6, <1>7, <1>8, <2>1
  <2>3. compared'[k] = compared[k] /\ carryOld'[k] = {} /\ carryNew'[k] = 0
    BY <1>6, <1>8, <1>9, <2>2
  <2>4. k \in reported' <=> k \in reported
    BY <1>9, <2>2 DEF Differing
  <2>5. Old(k) \subseteq Read'
    BY <1>4, <2>1
  <2> QED BY <1>4, <1>5, <1>12, <2>1, <2>2, <2>3, <2>4, <2>5 DEF Whole
<1>13. ASSUME NEW k \in reported
       PROVE  compared[k] # <<>>
  <2>1. compared[k] = <<[old |-> Old(k), new |-> newRows[k]]>>
    BY <1>3 DEF Whole
  <2>2. \A x : <<x>> # <<>>
    OBVIOUS
  <2> QED BY <2>1, <2>2
<1>14. ASSUME NEW k \in Key
       PROVE  /\ Unread(k)' \/ Waits(k)' \/ Whole(k)'
              /\ k \in ks => Whole(k)'
  <2>1. CASE Whole(k)
    BY <1>12, <2>1
  <2>2. CASE Unread(k) /\ Old(k) \cap Chunk = {}
    <3>1. old[k] = {}
      BY <1>6, <1>7, <2>2 DEF Unread
    <3> QED BY <1>6, <1>7, <1>10, <2>2, <3>1
  <2>3. CASE (Unread(k) /\ Old(k) \cap Chunk # {}) \/ Waits(k)
    <3>1. compared[k] = <<>> /\ k \notin reported
      BY <1>13, <2>3 DEF Unread, Waits
    <3>2. old[k] = Old(k) \cap Read' /\ old[k] # {}
      BY <1>4, <1>6, <1>7, <2>3 DEF Unread, Waits
    <3>3. new[k] = newRows[k]
      BY <1>7, <2>3 DEF Unread, Waits
    <3>4. Waits(k)' \/ Whole(k)'
      BY <1>11, <3>1, <3>2, <3>3
    <3>5. k \in ks => ~Waits(k)'
      BY <1>6, <1>7, <1>8 DEF Waits
    <3> QED BY <3>4, <3>5
  <2> QED BY <1>3, <2>1, <2>2, <2>3
<1>15. ASSUME NEW k \in reported'
       PROVE  k \in Key /\ Whole(k)'
  <2>1. CASE k \in reported
    BY <1>3, <1>12, <2>1
  <2>2. CASE k \notin reported
    <3>1. k \in ks /\ k \in Name
      BY <1>9, <2>2 DEF Differing
    <3>2. old[k] # {} /\ old[k] \subseteq Old(k)
      BY <1>1, <1>7, <3>1, TurnGroups
    <3>3. k \in Key
      BY <1>2, <3>1, <3>2 DEF AllNamed, Name
    <3> QED BY <1>14, <3>1, <3>3
  <2> QED BY <2>1, <2>2
<1> QED BY <1>14, <1>15

LEMMA NextChunkInv ==
  ASSUME IInv, NextChunk
  PROVE  IInv'
BY MoveFacts, TurnShape, TurnCarry, TurnCount, TurnStages DEF IInv

-----------------------------------------------------------------------------
(* The other steps.                                                        *)

(* A step that moves neither rows nor the cursor keeps every group in its  *)
(* stage.                                                                  *)
LEMMA StagesStay ==
  ASSUME IInv, UNCHANGED <<tables, cursor, carryOld, carryNew, compared>>,
         phase' = "done" <=> phase = "done",
         (Counting' => Counting) /\ (reported' = reported \/ (reported' = {} /\ ~Counting'))
  PROVE  /\ TableInv' /\ CarryInv' /\ GroupInv'
         /\ Rows' = Rows /\ Read' = Read /\ (Unique' <=> Unique) /\ (AllNamed' <=> AllNamed)
         /\ Old(Blank)' = Old(Blank) /\ compared' \in [Name -> Seq(Comparison')]
<1>1. TableInv /\ ShapeInv /\ CarryInv /\ GroupInv
  BY DEF IInv
<1>2. UNCHANGED tables /\ cursor' = cursor /\ newRows' = newRows
  BY DEF tables
<1>3. /\ TableInv' /\ Rows' = Rows /\ (Unique' <=> Unique) /\ (AllNamed' <=> AllNamed)
      /\ Read' = Read /\ \A k : Old(k)' = Old(k)
  BY <1>1, <1>2, TablesStay
<1>4. CarryInv'
  BY <1>1, <1>3 DEF CarryInv
<1>5. Comparison' = Comparison
  BY <1>3 DEF Comparison
<1>6. compared' \in [Name -> Seq(Comparison')]
  BY <1>1, <1>5 DEF ShapeInv
<1>7. SUFFICES ASSUME Unique, AllNamed
               PROVE  /\ \A k \in Key : Unread(k)' \/ Waits(k)' \/ Whole(k)'
                      /\ \A k \in reported' : k \in Key /\ Whole(k)'
  BY <1>3, <1>4, <1>6 DEF GroupInv
<1>8. /\ \A k \in Key : Unread(k) \/ Waits(k) \/ Whole(k)
      /\ \A k \in reported : k \in Key /\ Whole(k)
  BY <1>1, <1>7 DEF GroupInv
<1>9. ASSUME NEW k \in Key
      PROVE  /\ Unread(k) => Unread(k)'
             /\ Waits(k) => Waits(k)'
             /\ Whole(k) => Whole(k)'
  <2>1. Unread(k) => Unread(k)'
    BY <1>3 DEF Unread
  <2>2. Waits(k) => Waits(k)'
    BY <1>2, <1>3 DEF Waits
  <2>3. Whole(k) => Whole(k)'
    BY <1>2, <1>3 DEF Whole
  <2> QED BY <2>1, <2>2, <2>3
<1>10. ASSUME NEW k \in Key
       PROVE  Unread(k)' \/ Waits(k)' \/ Whole(k)'
  BY <1>8, <1>9
<1>11. ASSUME NEW k \in reported'
       PROVE  k \in Key /\ Whole(k)'
  BY <1>8, <1>9
<1> QED BY <1>10, <1>11

(* The scan ends when there is no row ahead of the cursor.                 *)
LEMMA NoMoreRowsInv ==
  ASSUME IInv, NoMoreRows
  PROVE  IInv'
<1>1. TableInv /\ ShapeInv /\ CountInv /\ BlankInv /\ cursor \in Nat
  BY BoundAssumption DEF IInv, ShapeInv
<1>2. /\ phase = "scan" /\ phase' = "flush" /\ Chunk = {}
      /\ UNCHANGED <<tables, cursor, carryOld, carryNew, compared, reported,
                    passCount, failCount, rowsChecked>>
  BY DEF NoMoreRows, carry, counts
<1>3. Waiting' = Waiting /\ Counting' /\ Counting
  BY <1>2 DEF Waiting, Counting
<1>4. /\ TableInv' /\ CarryInv' /\ GroupInv'
      /\ Rows' = Rows /\ Read' = Read /\ (Unique' <=> Unique) /\ (AllNamed' <=> AllNamed)
      /\ Old(Blank)' = Old(Blank) /\ compared' \in [Name -> Seq(Comparison')]
  BY <1>2, <1>3, StagesStay
<1>5. Read = Rows
  <2>1. Cardinality(Chunk) = 0
    BY <1>2, FS_EmptySet
  <2>2. Ahead = {}
    BY <1>1, <1>2, <2>1, ChunkFacts, ChunkAssumption
  <2>3. \A r \in Rows : oldAnchor[r] \in Nat
    BY <1>1, RowFacts, BoundAssumption
  <2> QED BY <1>1, <2>2, <2>3 DEF Ahead, Read
<1>6. ShapeInv'
  BY <1>1, <1>2, <1>4, <1>5 DEF ShapeInv
<1>7. CountInv' /\ BlankInv'
  BY <1>1, <1>2, <1>3, <1>4 DEF CountInv, BlankInv
<1> QED BY <1>4, <1>6, <1>7 DEF IInv

LEMMA RejectInv ==
  ASSUME IInv, Reject
  PROVE  IInv'
<1>1. TableInv /\ ShapeInv
  BY DEF IInv
<1>2. /\ phase = "scan" /\ phase' = "rejected"
      /\ rowsChecked' = 0 /\ passCount' = 0 /\ failCount' = 0 /\ reported' = {}
      /\ UNCHANGED <<tables, cursor, carryOld, carryNew, compared>>
  BY DEF Reject, carry
<1>3. ~Counting'
  BY <1>2 DEF Counting
<1>4. /\ TableInv' /\ CarryInv' /\ GroupInv'
      /\ Rows' = Rows /\ Read' = Read
      /\ compared' \in [Name -> Seq(Comparison')]
  BY <1>2, <1>3, StagesStay
<1>5. ShapeInv'
  BY <1>1, <1>2, <1>4 DEF ShapeInv
<1>6. Cardinality(Read') \in Nat
  BY <1>1, <1>4, RowFacts DEF Read
<1>7. CountInv' /\ BlankInv'
  BY <1>2, <1>3, <1>6 DEF CountInv, BlankInv
<1> QED BY <1>4, <1>5, <1>7 DEF IInv

LEMMA StutterInv ==
  ASSUME IInv, UNCHANGED vars
  PROVE  IInv'
<1>1. ShapeInv /\ CountInv /\ BlankInv
  BY DEF IInv
<1>2. UNCHANGED <<tables, phase, cursor, carryOld, carryNew, compared, reported,
                  passCount, failCount, rowsChecked>>
  BY DEF vars, carry, counts
<1>3. Waiting' = Waiting /\ (Counting' <=> Counting)
  BY <1>2 DEF Waiting, Counting
<1>4. /\ TableInv' /\ CarryInv' /\ GroupInv'
      /\ Rows' = Rows /\ Read' = Read /\ (Unique' <=> Unique) /\ (AllNamed' <=> AllNamed)
      /\ Old(Blank)' = Old(Blank) /\ compared' \in [Name -> Seq(Comparison')]
  BY <1>2, <1>3, StagesStay
<1>5. ShapeInv'
  BY <1>1, <1>2, <1>4 DEF ShapeInv
<1>6. CountInv' /\ BlankInv'
  BY <1>1, <1>2, <1>3, <1>4 DEF CountInv, BlankInv
<1> QED BY <1>4, <1>5, <1>6 DEF IInv

(* The flush compares the group held back, which is whole by now.          *)
LEMMA FlushInv ==
  ASSUME IInv, Flush
  PROVE  IInv'
<1>1. TableInv /\ ShapeInv /\ CarryInv /\ CountInv /\ BlankInv /\ GroupInv
  BY DEF IInv
<1>2. /\ phase = "flush" /\ phase' = "done"
      /\ Compare({k \in Name : carryOld[k] # {}}, carryOld, carryNew)
      /\ UNCHANGED <<tables, cursor, carryOld, carryNew, rowsChecked>>
  BY DEF Flush, carry
<1>3. PICK ks \in SUBSET Name : ks = {k \in Name : carryOld[k] # {}}
  OBVIOUS
<1>4. PICK old \in [Name -> SUBSET Rows], new \in [Name -> 0..MaxCopies] :
        old = carryOld /\ new = carryNew
  BY <1>1 DEF CarryInv
<1>5. /\ \A k \in Name : old[k] \subseteq Old(k)
      /\ \A k \in Name : new[k] > 0 => old[k] # {}
      /\ old[Blank] = {}
  BY <1>1, <1>4 DEF CarryInv
<1>6. /\ \A k \in ks : old[k] # {}
      /\ \A k \in Name : k \in ks <=> old[k] # {}
  BY <1>3, <1>4
<1>7. Compare(ks, old, new)
  BY <1>2, <1>3, <1>4
<1>8. failCount > 0 => reported # {}
  BY <1>1 DEF CountInv
<1>9. /\ compared' \in [Name -> Seq(Comparison)]
      /\ \A k \in ks : compared'[k] = Append(compared[k], Pairing(k, old, new))
      /\ \A k \in Name \ ks : compared'[k] = compared[k]
      /\ reported' = reported \cup Differing(ks, old, new)
      /\ passCount' \in Nat /\ failCount' \in Nat
      /\ passCount' + failCount' = passCount + failCount + Cardinality(RowsOf(ks, old))
      /\ failCount' > 0 => reported' # {}
  BY <1>1, <1>5, <1>6, <1>7, <1>8, CompareFacts
<1>10. newRows' = newRows /\ cursor' = cursor /\ UNCHANGED tables
  BY <1>2 DEF tables
<1>11. /\ TableInv' /\ Rows' = Rows /\ (Unique' <=> Unique) /\ (AllNamed' <=> AllNamed)
       /\ Read' = Read /\ \A k : Old(k)' = Old(k)
  BY <1>1, <1>10, TablesStay
<1>12. Read = Rows
  BY <1>1, <1>2 DEF ShapeInv
<1>13. ShapeInv'
  <2>1. Comparison' = Comparison
    BY <1>11 DEF Comparison
  <2>2. reported' \subseteq Name
    BY <1>1, <1>9 DEF Differing, ShapeInv
  <2>3. /\ cursor' \in 0..MaxRows /\ rowsChecked' \in Nat
        /\ phase' \in {"scan", "flush", "done", "rejected"}
    BY <1>1, <1>2 DEF ShapeInv
  <2>4. compared' \in [Name -> Seq(Comparison')]
    BY <1>9, <2>1
  <2> QED BY <1>9, <1>11, <1>12, <2>2, <2>3, <2>4 DEF ShapeInv
<1>14. CarryInv'
  BY <1>1, <1>2, <1>11 DEF CarryInv
<1>15. Waiting = RowsOf(ks, old)
  <2>1. Waiting = UNION {old[k] : k \in Key}
    BY <1>2, <1>4 DEF Waiting
  <2>2. \A k \in ks : k \in Key
    BY <1>5, <1>6 DEF Name
  <2>3. \A k \in Key : old[k] # {} => k \in ks
    BY <1>6 DEF Name
  <2> QED BY <2>1, <2>2, <2>3 DEF RowsOf
<1>16. Waiting' = {} /\ Counting /\ Counting'
  BY <1>2 DEF Waiting, Counting
<1>17. Cardinality(Waiting') = 0
  BY <1>16, FS_EmptySet
<1>18. passCount' + failCount' + Cardinality(Waiting') = passCount + failCount + Cardinality(Waiting)
  <2>1. passCount' + failCount' + 0 = passCount + failCount + Cardinality(RowsOf(ks, old))
    BY <1>9
  <2> QED BY <1>15, <1>17, <2>1
<1>19. CountInv'
  <2>1. rowsChecked' <= Cardinality(Read')
    BY <1>1, <1>2, <1>11 DEF CountInv
  <2>2. passCount' + failCount' + Cardinality(Waiting') <= rowsChecked'
    BY <1>1, <1>2, <1>16, <1>18 DEF CountInv
  <2>3. AllNamed' => passCount' + failCount' + Cardinality(Waiting') = rowsChecked'
    BY <1>1, <1>2, <1>11, <1>16, <1>18 DEF CountInv
  <2> QED BY <1>9, <1>16, <2>1, <2>2, <2>3 DEF CountInv
<1>20. BlankInv'
  <2>1. Blank \in reported => Blank \in reported'
    BY <1>9
  <2>2. Unique /\ Old(Blank) \cap Read # {} =>
          Blank \in reported \/ passCount + failCount + Cardinality(Waiting) < rowsChecked
    BY <1>1, <1>16 DEF BlankInv
  <2>3. Unique /\ Old(Blank) \cap Read # {} =>
          Blank \in reported' \/ passCount' + failCount' + Cardinality(Waiting') < rowsChecked'
    BY <1>2, <1>18, <2>1, <2>2
  <2> QED BY <1>11, <2>3 DEF BlankInv
<1>21. GroupInv'
  <2>1. SUFFICES ASSUME Unique, AllNamed
                 PROVE  /\ \A k \in Key : Unread(k)' \/ Waits(k)' \/ Whole(k)'
                        /\ \A k \in reported' : k \in Key /\ Whole(k)'
    BY <1>11 DEF GroupInv
  <2>2. /\ \A k \in Key : Unread(k) \/ Waits(k) \/ Whole(k)
        /\ \A k \in reported : k \in Key /\ Whole(k)
    BY <1>1, <2>1 DEF GroupInv
  <2>3. ASSUME NEW k \in Key
        PROVE  k \in Name /\ (Unread(k) => Unread(k)')
    BY <1>2, <1>4, <1>6, <1>9, <1>11 DEF Unread, Name
  <2>4. ASSUME NEW k \in Key, Waits(k)
        PROVE  Whole(k)'
    <3>1. k \in ks /\ old[k] = Old(k) /\ new[k] = newRows[k] /\ compared[k] = <<>>
      BY <1>4, <1>6, <1>12, <2>3, <2>4 DEF Waits, Old
    <3>2. compared'[k] = <<[old |-> Old(k), new |-> newRows[k]]>>
      BY <1>9, <3>1 DEF Pairing
    <3>3. Old(k) # {} /\ Old(k) \subseteq Read
      BY <1>6, <1>12, <2>3, <3>1 DEF Old
    <3>4. k \notin reported
      <4>1. Whole(k) => compared[k] = <<[old |-> Old(k), new |-> newRows[k]]>>
        BY DEF Whole
      <4>2. \A x : <<x>> # <<>>
        OBVIOUS
      <4> QED BY <2>2, <3>1, <4>1, <4>2
    <3>5. k \in reported' <=> Cardinality(Old(k)) # newRows[k]
      BY <1>9, <3>1, <3>4 DEF Differing
    <3> QED BY <1>2, <1>10, <1>11, <3>2, <3>3, <3>5 DEF Whole
  <2>5. ASSUME NEW k \in Key, Whole(k)
        PROVE  k \notin ks /\ Whole(k)'
    <3>1. k \notin ks
      BY <1>2, <1>4, <1>6, <2>3, <2>5 DEF Whole
    <3>2. compared'[k] = compared[k] /\ (k \in reported' <=> k \in reported)
      BY <1>9, <2>3, <3>1 DEF Differing
    <3> QED BY <1>2, <1>10, <1>11, <1>16, <2>5, <3>1, <3>2 DEF Whole
  <2>6. ASSUME NEW k \in Key
        PROVE  Unread(k)' \/ Waits(k)' \/ Whole(k)'
    BY <2>2, <2>3, <2>4, <2>5
  <2>7. ASSUME NEW k \in reported'
        PROVE  k \in Key /\ Whole(k)'
    <3>1. CASE k \in reported
      BY <2>2, <2>5, <3>1
    <3>2. CASE k \notin reported
      <4>1. k \in ks /\ k \in Key
        BY <1>5, <1>6, <1>9, <3>2 DEF Differing, Name
      <4>2. ~Unread(k)
        BY <1>4, <1>6, <4>1 DEF Unread
      <4> QED BY <2>2, <2>4, <2>5, <4>1, <4>2
    <3> QED BY <3>1, <3>2
  <2> QED BY <2>6, <2>7
<1> QED BY <1>11, <1>13, <1>14, <1>19, <1>20, <1>21 DEF IInv

LEMMA NextInv ==
  ASSUME IInv, [Next]_vars
  PROVE  IInv'
<1>1. CASE NextChunk
  BY <1>1, NextChunkInv
<1>2. CASE NoMoreRows
  BY <1>2, NoMoreRowsInv
<1>3. CASE Flush
  BY <1>3, FlushInv
<1>4. CASE Reject
  BY <1>4, RejectInv
<1>5. CASE UNCHANGED vars
  BY <1>5, StutterInv
<1> QED BY <1>1, <1>2, <1>3, <1>4, <1>5 DEF Next

LEMMA InitInv == Init => IInv
<1> SUFFICES ASSUME Init PROVE IInv
  OBVIOUS
<1>1. TableInv
  BY InitTables
<1>2. /\ phase = "scan" /\ cursor = 0
      /\ carryOld = [k \in Name |-> {}] /\ carryNew = [k \in Name |-> 0]
      /\ compared = [k \in Name |-> <<>>] /\ reported = {}
      /\ rowsChecked = 0 /\ passCount = 0 /\ failCount = 0
  BY DEF Init
<1>3. Read = {}
  <2>1. \A r \in Rows : oldAnchor[r] \in 1..MaxRows
    BY <1>1, RowFacts
  <2> QED BY <1>2, <2>1, BoundAssumption DEF Read
<1>4. \A k \in Key : k \in Name
  BY DEF Name
<1>5. Waiting = {} /\ Cardinality(Waiting) = 0 /\ Cardinality(Read) = 0
  BY <1>2, <1>3, <1>4, FS_EmptySet DEF Waiting
<1>6. ShapeInv
  <2>1. \A E : <<>> \in Seq(E)
    OBVIOUS
  <2>2. compared \in [Name -> Seq(Comparison)]
    BY <1>2, <2>1
  <2> QED BY <1>2, <2>2, BoundAssumption DEF ShapeInv
<1>7. CarryInv
  BY <1>2, BoundAssumption DEF CarryInv, Name
<1>8. CountInv /\ BlankInv
  BY <1>2, <1>3, <1>5 DEF CountInv, BlankInv
<1>9. GroupInv
  BY <1>2, <1>3, <1>4 DEF GroupInv, Unread
<1> QED BY <1>1, <1>6, <1>7, <1>8, <1>9 DEF IInv

LEMMA Invariance == Spec => []IInv
<1>1. Init => IInv
  BY InitInv
<1>2. IInv /\ [Next]_vars => IInv'
  BY NextInv
<1> QED BY <1>1, <1>2, PTL DEF Spec

-----------------------------------------------------------------------------
(* What follows from the invariant.                                        *)

(* The variables keep their types and the counters stay within the rows of *)
(* the old table.                                                          *)
THEOREM TypeCorrect == Spec => []TypeOK
<1>1. IInv => TypeOK
  <2> SUFFICES ASSUME IInv PROVE TypeOK
    OBVIOUS
  <2>1. TableInv /\ ShapeInv /\ CarryInv /\ CountInv
    BY DEF IInv
  <2>2. rowsChecked <= MaxRows
    <3>1. /\ IsFiniteSet(Rows) /\ Read \subseteq Rows
          /\ Cardinality(Read) \in Nat /\ Cardinality(Rows) \in Nat
          /\ Cardinality(Rows) <= MaxRows
      BY <2>1, RowFacts DEF Read
    <3>2. Cardinality(Read) <= Cardinality(Rows)
      BY <3>1, FS_Subset
    <3> QED BY <2>1, <3>1, <3>2, BoundAssumption DEF CountInv, ShapeInv
  <2>3. passCount <= rowsChecked /\ failCount <= rowsChecked
    <3>1. Cardinality(Waiting) \in Nat
      <4>1. \A k \in Key : carryOld[k] \in SUBSET Rows
        BY <2>1 DEF CarryInv, Name
      <4>2. Waiting \in SUBSET Rows
        BY <4>1 DEF Waiting
      <4> QED BY <2>1, <4>2, RowFacts
    <3> QED BY <2>1, <3>1 DEF CountInv, ShapeInv
  <2>4. /\ rowsChecked \in 0..MaxRows /\ passCount \in 0..MaxRows /\ failCount \in 0..MaxRows
    BY <2>1, <2>2, <2>3, BoundAssumption DEF ShapeInv
  <2>5. ASSUME NEW k \in Name, NEW i \in DOMAIN compared[k]
        PROVE  compared[k][i] \in [old : SUBSET Rows, new : 0..MaxCopies]
    <3>1. compared[k] \in Seq(Comparison)
      BY <2>1 DEF ShapeInv
    <3> HIDE DEF Comparison
    <3>2. compared[k][i] \in Comparison
      BY <2>5, <3>1
    <3> QED BY <3>2 DEF Comparison
  <2> QED BY <2>1, <2>4, <2>5 DEF TypeOK, ShapeInv, CarryInv, TableInv
<1> QED BY <1>1, Invariance, PTL

(* A group is compared at most once, with every row it has in both tables, *)
(* and at the end every group has been: however the chunk boundaries cut   *)
(* the table, provided anchors are unique and every row has a group key.   *)
THEOREM GroupsAreWhole == Spec => []ComparedWhole
<1>1. IInv => ComparedWhole
  <2> SUFFICES ASSUME IInv, Unique, AllNamed, NEW k \in Key
               PROVE  /\ compared[k] \in {<<>>, <<[old |-> Old(k), new |-> newRows[k]]>>}
                      /\ phase = "done" /\ Old(k) # {} => compared[k] # <<>>
    BY DEF ComparedWhole
  <2>1. Unread(k) \/ Waits(k) \/ Whole(k)
    BY DEF IInv, GroupInv
  <2>2. compared[k] \in {<<>>, <<[old |-> Old(k), new |-> newRows[k]]>>}
    BY <2>1 DEF Unread, Waits, Whole
  <2>3. ASSUME phase = "done", Old(k) # {}
        PROVE  compared[k] # <<>>
    <3>1. Read = Rows /\ Old(k) \subseteq Rows
      BY <2>3 DEF IInv, ShapeInv, Old
    <3>2. Whole(k)
      BY <2>1, <2>3, <3>1 DEF Unread, Waits
    <3>3. compared[k] = <<[old |-> Old(k), new |-> newRows[k]]>>
      BY <3>2 DEF Whole
    <3>4. \A x : <<x>> # <<>>
      OBVIOUS
    <3> QED BY <3>3, <3>4
  <2> QED BY <2>2, <2>3
<1> QED BY <1>1, Invariance, PTL

(* Between two chunks every row read is counted as passed or failed, or is *)
(* held back.                                                              *)
THEOREM NoRowIsLost == Spec => []RowsAccounted
<1>1. IInv => RowsAccounted
  <2> SUFFICES ASSUME IInv, AllNamed, phase \in {"scan", "flush"}
               PROVE  rowsChecked = passCount + failCount
                                      + Cardinality(UNION {carryOld[k] : k \in Key})
    BY DEF RowsAccounted
  <2>1. Waiting = UNION {carryOld[k] : k \in Key} /\ Counting
    BY DEF Waiting, Counting
  <2> QED BY <2>1 DEF IInv, CountInv
<1> QED BY <1>1, Invariance, PTL

(* What the counts say at the end of a run.                                *)
LEMMA FinalCounts ==
  ASSUME IInv, phase = "done"
  PROVE  /\ rowsChecked \in Nat /\ passCount \in Nat /\ failCount \in Nat
         /\ Counting /\ Read = Rows /\ Cardinality(Waiting) = 0
         /\ passCount + failCount <= rowsChecked
         /\ AllNamed => passCount + failCount = rowsChecked
<1>1. Waiting = {} /\ Counting /\ Cardinality(Waiting) = 0
  BY FS_EmptySet DEF Waiting, Counting
<1>2. /\ rowsChecked \in Nat /\ passCount \in Nat /\ failCount \in Nat /\ Read = Rows
  BY DEF IInv, ShapeInv
<1>3. /\ passCount + failCount + 0 <= rowsChecked
      /\ AllNamed => passCount + failCount + 0 = rowsChecked
  BY <1>1 DEF IInv, CountInv
<1> QED BY <1>1, <1>2, <1>3

(* If the check for duplicate anchors does not itself fail, PASS is only   *)
(* said of tables whose every group has its rows in the new one, with      *)
(* duplicate anchors and rows without a key or not.                        *)
THEOREM PassMeansEqual == ~CheckFails /\ Spec => []PassIsHonest
<1>1. ~CheckFails /\ IInv => PassIsHonest
  <2> SUFFICES ASSUME ~CheckFails, IInv, Verdict = "PASS", NEW k \in Name, Old(k) # {}
               PROVE  Cardinality(Old(k)) = newRows[k]
    BY DEF PassIsHonest
  <2>1. phase = "done" /\ failCount = 0 /\ Skipped = 0 /\ reported = {} /\ ~warned
    BY DEF Verdict
  <2>2. Unique
    BY <2>1 DEF IInv, TableInv
  <2>3. /\ rowsChecked \in Nat /\ passCount \in Nat /\ failCount \in Nat
        /\ Counting /\ Read = Rows /\ Cardinality(Waiting) = 0
        /\ passCount + failCount <= rowsChecked
    BY <2>1, FinalCounts
  <2>4. rowsChecked <= passCount + failCount
    BY <2>1, <2>3 DEF Skipped
  <2>5. Old(Blank) \cap Read = {}
    <3>1. Unique /\ Counting /\ Old(Blank) \cap Read # {} =>
            Blank \in reported \/ passCount + failCount + Cardinality(Waiting) < rowsChecked
      BY DEF IInv, BlankInv
    <3>2. ~(passCount + failCount + Cardinality(Waiting) < rowsChecked)
      BY <2>3, <2>4
    <3> QED BY <2>1, <2>2, <2>3, <3>1, <3>2
  <2>6. AllNamed
    BY <2>3, <2>5 DEF AllNamed, Old
  <2>7. k \in Key /\ Old(k) \subseteq Rows
    BY <2>6 DEF AllNamed, Name, Old
  <2>8. Unread(k) \/ Waits(k) \/ Whole(k)
    BY <2>2, <2>6, <2>7 DEF IInv, GroupInv
  <2>9. Whole(k)
    BY <2>1, <2>3, <2>7, <2>8 DEF Unread, Waits
  <2> QED BY <2>1, <2>3, <2>9 DEF Whole
<1>2. CASE ~CheckFails
  <2>1. IInv => PassIsHonest
    BY <1>1, <1>2
  <2> QED BY <2>1, Invariance, PTL
<1>3. CASE CheckFails
  BY <1>3
<1> QED BY <1>2, <1>3, CheckAssumption

(* With unique anchors and a key in every row, a finished run says FAIL    *)
(* only if the rows of some group are not all in the new table.            *)
THEOREM FailMeansDifferent == Spec => []FailIsEarned
<1>1. IInv => FailIsEarned
  <2> SUFFICES ASSUME IInv, phase = "done", Verdict = "FAIL", Unique, AllNamed
               PROVE  \E k \in Key : Old(k) # {} /\ Cardinality(Old(k)) # newRows[k]
    BY DEF FailIsEarned
  <2>1. /\ rowsChecked \in Nat /\ passCount \in Nat /\ failCount \in Nat /\ Counting
        /\ passCount + failCount = rowsChecked
    BY FinalCounts
  <2>2. Skipped = 0
    BY <2>1 DEF Skipped
  <2>3. ~warned
    BY DEF IInv, TableInv
  <2>4. failCount > 0 \/ reported # {}
    BY <2>1, <2>2, <2>3 DEF Verdict
  <2>5. reported # {}
    BY <2>4 DEF IInv, CountInv
  <2>6. PICK k \in reported : k \in Key /\ Whole(k)
    BY <2>5 DEF IInv, GroupInv
  <2> QED BY <2>1, <2>6 DEF Whole
<1> QED BY <1>1, Invariance, PTL

(* No turn of the loop reads the same chunk again: the cursor moves on or  *)
(* the scan is over.                                                       *)
THEOREM ScanMovesOn == Spec => Advances
<1>1. IInv /\ [Next]_vars => [phase = "scan" => cursor' > cursor \/ phase' # "scan"]_vars
  <2>1. ASSUME IInv, NextChunk PROVE cursor' > cursor
    BY <2>1, MoveFacts
  <2>2. ASSUME NoMoreRows \/ Flush \/ Reject PROVE phase' # "scan"
    BY <2>2 DEF NoMoreRows, Flush, Reject
  <2> QED BY <2>1, <2>2 DEF Next
<1> QED BY <1>1, Invariance, PTL DEF Spec, Advances
=============================================================================
