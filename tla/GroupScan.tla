----------------------------- MODULE GroupScan -----------------------------
(***************************************************************************)
(* The streaming modes that compare transaction groups, beside the default *)
(* mode of the Transaction strategy (module GroupStream):                  *)
(*   TX-GP, MULTI-GP  pages of distinct group keys (use_group_pagination)  *)
(*   TX-CK            pages of group keys, groups of a second key          *)
(*   TX-SS, MULTI-SS  a cache ordered by group key (use_sysref_sort)       *)
(*   MULTI, UNION     the source ordered by anchor key                     *)
(***************************************************************************)
EXTENDS TableScan

TxModes    == {"TX-GP", "TX-CK", "TX-SS"}
MultiModes == {"MULTI", "MULTI-GP", "MULTI-SS"}
PageModes  == {"TX-GP", "MULTI-GP"}
CarryModes == {"TX-SS", "MULTI-SS", "MULTI", "UNION"}

TxKinds    == Basic \cup {"filtered"}
UnionKinds == {"exact", "transformed", "split"}

-----------------------------------------------------------------------------
(* The checks before the scan.                                             *)

BeginTx ==
  /\ phase = "begin" /\ InMode(TxModes)
  /\ PushAll(SchemaErrors(TxKinds))
  /\ ReadFrom(1)
  /\ UNCHANGED <<input, carryOld, carryNew, extra, counts, compared>>

(* The mappings of the pair of source i and the target.                    *)
PairMappings(i) == [k \in DOMAIN Rule.sm |-> {m \in Rule.sm[k] : SourceOf(m) = i}]

(* A missing column is reported, and the mappings are all kept.            *)
BeginMulti ==
  LET missing(i) == MissingColumns(PairMappings(i), Basic \cup {"filtered"}, OldColumns, input.new)
      pairs      == {i \in 1..Len(input.sources) : IsRead(i)}
  IN  /\ phase = "begin" /\ InMode(MultiModes)
      /\ PushAll((UNION {ColumnErrors(missing(i)) : i \in pairs})
                 \cup {Err(e[1], <<e[2]>>, Null) : e \in UnmappedErrors(Rule.sm, OldColumns, input.new)})
      /\ ReadFrom(1)
      /\ UNCHANGED <<input, carryOld, carryNew, extra, counts, compared>>

(* All the sources are taken to have the columns of the first.  A rule     *)
(* without a grouping is refused.                                          *)
BeginUnion ==
  /\ phase = "begin" /\ InMode({"UNION"})
  /\ \/ /\ Rule.grouped
        /\ PushAll(SchemaErrors(UnionKinds) \cup AnchorErrors(input.sources))
        /\ ReadFrom(1)
     \/ /\ ~Rule.grouped
        /\ PushAll({Err("TRANSFORM_ERROR", <<"no grouping">>, Null)})
        /\ phase' = "done" /\ UNCHANGED <<src, cursor>>
  /\ UNCHANGED <<input, carryOld, carryNew, extra, counts, compared>>

(* The comparison of one group in this mode; only the first source of a    *)
(* union is looked at for noisy columns.                                   *)
Check(k, old, new, flushing) ==
  LET noisy(t, cols) == NoisyColumns(t, cols \cap OldColumns, FALSE)
      txCols == OldCols(Mappings(TxKinds), TxKinds \ {"transformed"})
      unCols == OldCols(Mappings(UnionKinds), UnionKinds)
      pair   == PairMappings(src)
      diff   == ~InMode({"MULTI"}) /\ ~(InMode({"MULTI-SS"}) /\ flushing)
  IN  CASE InMode(TxModes) ->
             GroupErrors(k, old, new, Mappings(TxKinds), noisy(Source, txCols), diff)
        [] InMode(MultiModes) ->
             GroupErrors(k, old, new, pair, noisy(Source, OldCols(pair, Basic)), diff)
        [] InMode({"UNION"}) ->
             {Err(IF e[1] = "missing" THEN "ROW_MISSING" ELSE "VALUE_MISMATCH", e, k) :
                e \in UnionGroupErrors(Mappings(UnionKinds), old, new,
                                       noisy(input.sources[1], unCols), Rule.tolerance)}

Checked(ks, old, new, flushing) == [k \in ks |-> Check(k, Group(old, k), Group(new, k), flushing)]

-----------------------------------------------------------------------------
(* Group-key pagination.                                                   *)

Named(rows) == RowsOf(rows, Keys(rows) \ {Blank})

NextKeys == DistinctKeys(Source, "grp", KeyBatch, cursor)

(* All the rows of a page of group keys, of both tables.  A row with a     *)
(* blank key takes no part and is not counted.                             *)
NextPage ==
  LET keys == NextKeys
      old  == Named(RowsByKeys(Source, "grp", Range(keys)))
      new  == Named(RowsByKeys(Target, "grp", Range(keys)))
  IN  /\ phase = "scan" /\ InMode(PageModes) /\ keys # <<>>
      /\ rowsChecked' = rowsChecked + Len(old)
      /\ Compare(Checked(Keys(old), old, new, FALSE), Keys(new) \ Keys(old), old)
      /\ IF Len(keys) < KeyBatch THEN ReadFrom(src + 1)
         ELSE cursor' = keys[Len(keys)] /\ UNCHANGED <<src, phase>>
      /\ UNCHANGED <<input, carryOld, carryNew, extra>>

NoMorePages ==
  /\ phase = "scan" /\ InMode(PageModes \cup {"TX-CK"})
  /\ NextKeys = <<>>
  /\ ReadFrom(src + 1)
  /\ UNCHANGED <<input, carryOld, carryNew, errors, total, bulk, extra, counts, compared>>

-----------------------------------------------------------------------------
(* Composite keys: a group is the rows of a group key and an account, here *)
(* the columns grp and val; sysref::account is 10 * sysref + account.      *)

Composite(g, account) == 10 * g + account
CompositeOf(r) == Composite(KeyOf(r), Trimmed(r.val))
WithAccount(rows) == RowsIn(rows, {i \in 1..Len(rows) : Trimmed(rows[i].val) # Blank})

PairOf(r) == <<KeyOf(r), Trimmed(r.val)>>
RowsOfPairs(rows, pairs) == RowsIn(rows, {i \in 1..Len(rows) : PairOf(rows[i]) \in pairs})
RowsOfComposite(rows, k) == RowsIn(rows, {i \in 1..Len(rows) : CompositeOf(rows[i]) = k})

(* acctMap: without account_mapping every account is its own.              *)
AccountMap(rows) ==
  LET accounts == {Trimmed(rows[i].val) : i \in 1..Len(rows)} \ {Blank}
  IN  IF "none" \in DOMAIN Rule.accounts THEN [a \in accounts |-> a]
      ELSE BatchLookup(Rule.accounts.rows, accounts)

(* A group whose account has no mapping is reported, and counted neither   *)
(* as passed nor as failed.                                                *)
CompositePage ==
  LET keys   == NextKeys
      all    == RowsByKeys(Source, "grp", Range(keys))
      old    == WithAccount(all)
      new    == WithAccount(RowsByKeys(Target, "grp", Range(keys)))
      map    == AccountMap(all)
      groups == {PairOf(r) : r \in Range(old)}
      mapped == {g \in groups : g[2] \in DOMAIN map}
      becomes(g) == Composite(g[1], map[g[2]])
      errs   == [g \in mapped |-> GroupErrors(becomes(g), RowsOfPairs(old, {g}),
                   RowsOfComposite(new, becomes(g)), Mappings(TxKinds),
                   NoisyColumns(Source, OldCols(Mappings(TxKinds), TxKinds \ {"transformed"}), FALSE), FALSE)]
      good   == {g \in mapped : errs[g] = {}}
      rows(s) == Len(RowsOfPairs(old, s))
      extras == {CompositeOf(r) : r \in Range(new)} \ {becomes(g) : g \in mapped}
  IN  /\ phase = "scan" /\ InMode({"TX-CK"}) /\ keys # <<>>
      /\ rowsChecked' = rowsChecked + Len(old)
      /\ PushAll((UNION {errs[g] : g \in mapped})
                 \cup {Err("ROW_MISSING", <<"no mapping">>, Composite(g[1], g[2])) : g \in groups \ mapped}
                 \cup {Err("ROW_MISSING", <<"extra group">>, k) : k \in extras})
      /\ passCount' = passCount + rows(good)
      /\ failCount' = failCount + rows(mapped \ good)
      /\ Record([p \in {<<src, Composite(g[1], g[2])>> : g \in mapped} |->
                   <<RowsOfComposite(old, p[2])>>])
      /\ IF Len(keys) < KeyBatch THEN ReadFrom(src + 1)
         ELSE cursor' = keys[Len(keys)] /\ UNCHANGED <<src, phase>>
      /\ UNCHANGED <<input, carryOld, carryNew, extra>>

-----------------------------------------------------------------------------
(* Chunks with carry-over.                                                 *)

(* createSourceCache finds no key column in the source: it is left out.    *)
SkipSource ==
  /\ phase = "scan" /\ InMode({"MULTI-SS"}) /\ src \in input.keyless
  /\ ReadFrom(src + 1)
  /\ UNCHANGED <<input, carryOld, carryNew, errors, total, bulk, extra, counts, compared>>

ReadChunkMutant ==
  IF Sysref THEN LET past == IF cursor = <<>> THEN Null ELSE cursor[1]
                 IN  FetchChunk(Source, "grp", ChunkSize, past)
  ELSE FetchChunk(Source, "id", ChunkSize, cursor)

ReadChunk ==
  IF Sysref THEN FetchChunkSysref(Source, "grp", "id", ChunkSize, cursor)
  ELSE FetchChunk(Source, "id", ChunkSize, cursor)

(* The new rows a chunk calls for: those of its group keys that are not at *)
(* hand, in a union those of its anchor keys.                              *)
FetchNew(chunk) ==
  IF InMode({"UNION"})
  THEN RowsByKeys(Target, "id", {Trimmed(r.id) : r \in Range(chunk)})
  ELSE RowsByKeys(Target, "grp", Keys(chunk) \ ({Blank} \cup Keys(carryNew)))

CarriedMutant(before, chunk, held) == RowsOf(chunk, held)

(* The rows of the group held back; with a blank key there are none.       *)
Carried(before, chunk, held) == RowsOf(before \o chunk, held \ {Blank})

(* One chunk: the last group of a full chunk is held back.                 *)
NextChunk ==
  LET chunk == ReadChunk
      old   == carryOld \o chunk
      found == FetchNew(chunk)
      new   == carryNew \o found
      held  == IF Len(chunk) < ChunkSize THEN {} ELSE {LastKey(old)}
      last  == chunk[Len(chunk)]
  IN  /\ phase = "scan" /\ InMode(CarryModes) /\ ~(InMode({"MULTI-SS"}) /\ src \in input.keyless)
      /\ chunk # <<>>
      /\ rowsChecked' = rowsChecked + Len(chunk)
      /\ Compare(Checked(Keys(old) \ held, old, new, FALSE), Keys(new) \ (Keys(old) \cup held), old)
      /\ carryOld' = Carried(carryOld, chunk, held) /\ carryNew' = Carried(carryNew, found, held)
      /\ cursor' = IF Sysref THEN <<Trimmed(last.grp), last.id>> ELSE last.id
      /\ phase' = IF Len(chunk) < ChunkSize THEN "flush" ELSE "scan"
      /\ UNCHANGED <<input, src, extra>>

NoMoreChunks ==
  /\ phase = "scan" /\ InMode(CarryModes) /\ ~(InMode({"MULTI-SS"}) /\ src \in input.keyless)
  /\ ReadChunk = <<>>
  /\ phase' = "flush"
  /\ PushAll(PairErrors)
  /\ UNCHANGED <<input, page, extra, counts, compared>>

(* The group still held back when the source ends.                         *)
Flush ==
  /\ phase = "flush"
  /\ Compare(Checked(Keys(carryOld), carryOld, carryNew, TRUE), Keys(carryNew) \ Keys(carryOld), carryOld)
  /\ carryOld' = <<>> /\ carryNew' = <<>>
  /\ ReadFrom(src + 1)
  /\ UNCHANGED <<input, extra, rowsChecked>>

GroupNext ==
  \/ BeginTx \/ BeginMulti \/ BeginUnion
  \/ NextPage \/ CompositePage \/ NoMorePages
  \/ SkipSource \/ NextChunk \/ NoMoreChunks \/ Flush
=============================================================================
