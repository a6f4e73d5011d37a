------------------------------- MODULE Tables -------------------------------
(***************************************************************************)
(* The reading operations of DatabaseService (database.service.ts) and of  *)
(* the PostgreSQL cache (pg-cache.service.ts), as functions of a table.    *)
(*                                                                         *)
(* A table is a sequence of rows, a row a record of its columns, whose     *)
(* values are cells.  Null is below every value, so that "IS NOT NULL" on  *)
(* a first page and "> @lastKey" on the later ones are one condition.  A   *)
(* query with a source_filter reads the table of the rows it selects.      *)
(***************************************************************************)
EXTENDS Cells

(* The first n elements in order; before[x] are those that precede x.      *)
Page(before, n) ==
  [i \in 1..Min({n, Cardinality(DOMAIN before)}) |->
     CHOOSE x \in DOMAIN before : Cardinality(before[x]) = i - 1]

RowsAt(table, indices) == [i \in 1..Len(indices) |-> table[indices[i]]]

(* The rows at a set of positions, in the order of the table.              *)
InOrder(set) == [i \in set |-> {j \in set : j < i}]
RowsIn(table, set) == RowsAt(table, Page(InOrder(set), Cardinality(set)))

(* fetchChunk: the next n rows beyond the cursor; rows that tie on the     *)
(* anchor come in the order of the table.                                  *)
FetchChunk(table, col, n, last) ==
  LET beyond     == {i \in 1..Len(table) : table[i][col] > last}
      Less(i, j) == table[i][col] < table[j][col] \/ (table[i][col] = table[j][col] /\ i < j)
  IN  RowsAt(table, Page([j \in beyond |-> {i \in beyond : Less(i, j)}], n))

(* fetchChunkKeys: the same page of the target, its key column only.       *)
FetchChunkKeys(table, col, n, last) ==
  LET chunk == FetchChunk(table, col, n, last)
  IN  [i \in 1..Len(chunk) |-> chunk[i][col]]

(* fetchChunkCacheSysref: the cache is ordered by (sysref, id), NULLs      *)
(* last, and the cursor is the pair; a row comparison with NULL is never   *)
(* true, and the first page has no condition at all.                       *)
FetchChunkSysref(table, key, id, n, cursor) ==
  LET Rank(r)    == IF r[key] = Null THEN 1 ELSE 0
      beyond     == {i \in 1..Len(table) :
                       \/ cursor = <<>>
                       \/ /\ table[i][key] # Null
                          /\ \/ table[i][key] > cursor[1]
                             \/ table[i][key] = cursor[1] /\ table[i][id] > cursor[2]}
      Less(i, j) == LET r == table[i] q == table[j] IN
                    \/ Rank(r) < Rank(q)
                    \/ Rank(r) = Rank(q) /\ \/ r[key] < q[key]
                                            \/ r[key] = q[key] /\ r[id] < q[id]
                                            \/ r[key] = q[key] /\ r[id] = q[id] /\ i < j
  IN  RowsAt(table, Page([j \in beyond |-> {i \in beyond : Less(i, j)}], n))

(* getDistinctKeys: the next n distinct keys.                              *)
DistinctKeys(table, col, n, last) ==
  Page(InOrder({v \in Values(table, col) : v > last}), n)

(* getGroupKeys: the same, for a table that never has a filter.            *)
GroupKeys(table, col, n, last) == DistinctKeys(table, col, n, last)

(* streamRowsByKeys: every row whose key is among keys, in table order;    *)
(* the batches of 10000 keys change neither.                               *)
RowsByKeys(table, col, keys) ==
  RowsIn(table, {i \in 1..Len(table) : table[i][col] # Null /\ table[i][col] \in keys})

(* streamAllRows: the pages one after the other, until one is not full.    *)
StreamAllRows(table, col, n) ==
  LET From[turn \in 0..Len(table), last \in {Null} \cup Values(table, col)] ==
        LET page == FetchChunk(table, col, n, last)
        IN  IF Len(page) < n \/ turn = 0
            THEN page
            ELSE page \o From[turn - 1, page[n][col]]
  IN  From[Len(table), Null]

(* batchLookup: value -> its first result; pairs with a NULL or '' are     *)
(* left out.                                                               *)
BatchLookup(table, values) ==
  LET usable == SelectSeq(table, LAMBDA r : r.from \in values /\ {r.from, r.to} \cap {Null, Blank} = {})
      found  == Values(usable, "from")
  IN  [v \in found |-> usable[CHOOSE i \in 1..Len(usable) :
         usable[i].from = v /\ \A j \in 1..(i - 1) : usable[j].from # v].to]

(* querySumByGroup: group -> sum of its amounts, NULLs left out.           *)
SumByGroup(table, amount, group) ==
  LET usable == SelectSeq(table, LAMBDA r : r[amount] # Null /\ r[group] # Null)
  IN  [g \in Values(usable, group) |->
         FoldFunction(LAMBDA x, y : x + y, 0, [i \in {j \in 1..Len(usable) : usable[j][group] = g} |-> usable[i][amount]])]
=============================================================================
