------------------------------ MODULE RowScan ------------------------------
(***************************************************************************)
(* The strategies that compare rows and values rather than groups:         *)
(*   MASTER     chunks of the source, row by row in a worker thread, then  *)
(*              the keys of the target against those of the source         *)
(*   MULTI-ROW  the Multiple strategy without transaction_grouping         *)
(*   SPLIT      the values of each mapped column, wherever they stand      *)
(*   HEADER     many rows of the source pivoted into one of the target;    *)
(*              grp is the identity and id stands for the pivot key        *)
(***************************************************************************)
EXTENDS GroupScan

RowChecks == {"exact", "transformed", "concat"}

NumberOf(c) == IF c = Null THEN 0 ELSE ParseFloat(c)

(* Both row comparisons: exact, transformed and concat matches.            *)
ValueErrors(sm, o, n, noisy) ==
  (UNION {{<<k, m.new>> : m \in {x \in sm[k] : x.old \notin noisy
      /\ ~IsEqual(Transformed(o[x.old], x), Trimmed(n[x.new]), Rule.tolerance)}} : k \in {"exact", "transformed"}})
  \cup
  {<<"concat", m.new>> : m \in {c \in sm.concat : Range(c.olds) \cap noisy = {}
      /\ ~IsEqual(Join([i \in 1..Len(c.olds) |-> o[c.olds[i]]]), Trimmed(n[c.new]), Rule.tolerance)}}

(* compareChunk also has split and formula matches.  A comparison with NaN *)
(* is false, so that what is no number never differs.                      *)
FormulaErrors(sm, o, n, noisy) ==
  {<<"split", m.old>> : m \in {s \in sm.split : s.old \notin noisy
      /\ Differ(NumberOf(o[s.old]), EvaluateFormula(s.formula, [i \in 1..Len(s.news) |-> n[s.news[i]]]),
                Rule.tolerance)}}
  \cup
  {<<"formula", m.new>> : m \in {f \in sm.formula : Range(f.olds) \cap noisy = {}
      /\ \A c \in Range(f.olds) : o[c] # Null
      /\ Differ(EvaluateFormula(f.formula, [i \in 1..Len(f.olds) |-> o[f.olds[i]]]), NumberOf(n[f.new]),
                Rule.tolerance)}}

IdOf(row) == Trimmed(row.id)
LastWith(rows, k) == rows[Max({i \in 1..Len(rows) : IdOf(rows[i]) = k})]
Ids(rows) == {IdOf(row) : row \in Range(rows)}
ById(rows, k) == RowsIn(rows, {i \in 1..Len(rows) : IdOf(rows[i]) = k})

(* The row mode of Multiple looks at values only.                          *)
Differences(sm, o, n, noisy) ==
  ValueErrors(sm, o, n, noisy) \cup IF InMode({"MASTER"}) THEN FormulaErrors(sm, o, n, noisy) ELSE {}

(* compareChunk, and the loop of the row mode: the last of several new     *)
(* rows of a key counts, the old rows are compared one by one.             *)
CompareChunk(sm, old, new, noisy) ==
  {Err("ROW_MISSING", <<"row">>, k) : k \in Ids(old) \ Ids(new)}
  \cup UNION {{Err("VALUE_MISMATCH", <<e[1], e[2], i>>, IdOf(old[i])) :
                 e \in Differences(sm, old[i], LastWith(new, IdOf(old[i])), noisy)} :
              i \in {j \in 1..Len(old) : IdOf(old[j]) \in Ids(new)}}

(* One chunk of the source and the target rows of its keys.                *)
Chunk == FetchChunk(Source, "id", ChunkSize, cursor)

CompareRows(sm, noisy) ==
  LET old == Chunk
      new == RowsByKeys(Target, "id", Ids(old))
  IN  /\ PushAll(CompareChunk(sm, old, new, noisy))
      /\ rowsChecked' = rowsChecked + Len(old)
      /\ Record([p \in {src} \X Ids(old) |-> <<ById(old, p[2])>>])

-----------------------------------------------------------------------------
(* Master.                                                                 *)

(* A column name is like no other but itself.                              *)
SameName == [a, b \in {"id", "grp", "val"} |-> IF a = b THEN 100 ELSE 0]

(* exactMatches of the task: the fallback matches are compared as well.    *)
MasterMappings ==
  LET sm == Mappings(Basic)
      columns(set) == SelectSeq(<<"id", "grp", "val">>, LAMBDA c : c \in set)
  IN  [sm EXCEPT !.exact = @ \cup FallbackMappings(columns(OldColumns), columns(input.new),
                                     OldCols(sm, Basic), NewCols(sm, Basic), SameName)]

(* Without a mapping, formula matches apart, nothing is compared.          *)
BeginMaster ==
  LET compares == MatchesOf(Mappings(Basic), Basic \ {"formula"}) # {}
      found    == SchemaErrors(Basic)
                  \cup (IF Rule.defs = {} THEN {} ELSE {Err("TRANSFORM_ERROR", <<"def rules">>, Null)})
      count    == IF Len(Source) = Len(Target) THEN {} ELSE {Err("ROW_MISSING", <<"row count">>, Null)}
  IN  /\ phase = "begin" /\ InMode({"MASTER"})
      /\ PushAll(IF compares THEN found \cup AnchorErrors(<<Source, Target>>) \cup count ELSE found)
      /\ phase' = IF compares THEN "scan" ELSE "done"
      /\ UNCHANGED <<input, page, extra, counts, compared>>

(* The forward scan; the rows are counted neither as passed nor as failed. *)
ForwardTurn ==
  LET sm    == MasterMappings
      noisy == Noisy(Basic)
  IN  /\ phase = "scan" /\ InMode({"MASTER"}) /\ Chunk # <<>>
      /\ CompareRows(sm, noisy)
      /\ IF Len(Chunk) < ChunkSize THEN phase' = "reverse" /\ cursor' = Start
         ELSE cursor' = Chunk[Len(Chunk)].id /\ UNCHANGED phase
      /\ UNCHANGED <<input, src, carryOld, carryNew, extra, passCount, failCount>>

ForwardEnd ==
  /\ phase = "scan" /\ InMode({"MASTER"}) /\ Chunk = <<>>
  /\ phase' = "reverse" /\ cursor' = Start
  /\ UNCHANGED <<input, src, carryOld, carryNew, errors, total, bulk, extra, counts, compared>>

ReverseKeysMutant == FetchChunkKeys(Target, "id", ChunkSize - 1, cursor)
ReverseKeys == FetchChunkKeys(Target, "id", ChunkSize, cursor)

(* The reverse scan: the target keys that the source does not have, up to  *)
(* EXTRA_ROW_CAP of them, and a message that there are more.               *)
ReverseTurn ==
  LET keys   == ReverseKeys
      extras == {i \in 1..Len(keys) : Trimmed(keys[i]) \notin {Blank} \cup Ids(Source)}
      room   == ExtraRowCap - extra
      hitCap == Cardinality(extras) > room
      stored == Page(InOrder(extras), room)
  IN  /\ phase = "reverse" /\ keys # <<>>
      /\ extra' = extra + Len(stored) + Truth(hitCap)
      /\ total' = total + Len(stored) + Truth(hitCap)
      /\ errors' = errors \cup {Err("ROW_MISSING", <<"extra row">>, keys[i]) : i \in Range(stored)}
                          \cup IF hitCap THEN {Err("ROW_MISSING", <<"capped">>, Null)} ELSE {}
      /\ IF hitCap \/ Len(keys) < ChunkSize THEN phase' = "done" /\ UNCHANGED cursor
         ELSE cursor' = keys[Len(keys)] /\ UNCHANGED phase
      /\ UNCHANGED <<input, src, carryOld, carryNew, bulk, counts, compared>>

ReverseEnd ==
  /\ phase = "reverse" /\ ReverseKeys = <<>>
  /\ phase' = "done"
  /\ UNCHANGED <<input, page, errors, total, bulk, extra, counts, compared>>

-----------------------------------------------------------------------------
(* Multiple, row mode.  No column is checked for being there.              *)

BeginRows ==
  /\ phase = "begin" /\ InMode({"MULTI-ROW"})
  /\ PushAll({Err(e[1], <<e[2]>>, Null) : e \in UnmappedErrors(Rule.sm, OldColumns, input.new)})
  /\ ReadFrom(1)
  /\ UNCHANGED <<input, carryOld, carryNew, extra, counts, compared>>

NextRows ==
  LET sm    == PairMappings(src)
      noisy == NoisyColumns(Source, OldCols(sm, RowChecks) \cap OldColumns, FALSE)
  IN  /\ phase = "scan" /\ InMode({"MULTI-ROW"}) /\ Chunk # <<>>
      /\ CompareRows(sm, noisy)
      /\ IF Len(Chunk) < ChunkSize THEN ReadFrom(src + 1)
         ELSE cursor' = Chunk[Len(Chunk)].id /\ UNCHANGED <<src, phase>>
      /\ UNCHANGED <<input, carryOld, carryNew, extra, passCount, failCount>>

NoMoreRows ==
  /\ phase = "scan" /\ InMode({"MULTI-ROW"}) /\ Chunk = <<>>
  /\ ReadFrom(src + 1)
  /\ UNCHANGED <<input, carryOld, carryNew, errors, total, bulk, extra, counts, compared>>

(* At the end the distinct keys of the errors count as failed rows, the    *)
(* other rows as passed; an error of the blank key counts for none.        *)
CountRows ==
  /\ phase = "count"
  /\ failCount' = Cardinality({e.key : e \in errors} \ {Null, Blank})
  /\ passCount' = IF failCount' < rowsChecked THEN rowsChecked - failCount' ELSE 0
  /\ phase' = "done"
  /\ UNCHANGED <<input, page, errors, total, bulk, extra, rowsChecked, compared>>

-----------------------------------------------------------------------------
(* Split: for each exact match the values of the column on either side.    *)
(* Rows that tie on the anchor at the end of a page are not read.          *)

SplitColumns ==
  LET sm      == Mappings({"exact"})
      used    == {m \in sm.exact : m.old \notin Noisy({"exact"})}
      there(table, col) == SelectSeq(StreamAllRows(table, "id", ChunkSize), LAMBDA r : Trimmed(r[col]) # Blank)
      old     == [m \in used |-> there(Source, m.old)]
      new     == [m \in used |-> Values(there(Target, m.new), m.new)]
      missing == [m \in used |-> SelectSeq(old[m], LAMBDA r : Transformed(r[m.old], m) \notin new[m])]
      extras  == [m \in used |-> new[m] \ {Transformed(c, m) : c \in Values(old[m], m.old)}]
      failed  == FoldFunction(LAMBDA x, y : x + y, 0, [m \in used |-> Len(missing[m]) + Cardinality(extras[m])])
      found   == SchemaErrors({"exact"})
  IN  /\ phase = "begin" /\ InMode({"SPLIT"})
      /\ rowsChecked' = FoldFunction(LAMBDA x, y : x + y, 0, [m \in used |-> Len(old[m])])
      /\ failCount' = failed
      /\ passCount' = IF failed < rowsChecked' THEN rowsChecked' - failed ELSE 0
      /\ errors' = errors \cup found \cup
           UNION {{Err("ROW_MISSING", <<"value", m.old>>, v) : v \in Values(missing[m], m.old)}
                  \cup {Err("ROW_MISSING", <<"extra value", m.old>>, v) : v \in extras[m]} : m \in used}
      /\ total' = total + failed + Cardinality(found)
      /\ phase' = "done"
      /\ UNCHANGED <<input, page, bulk, extra, compared>>

-----------------------------------------------------------------------------
(* Header.                                                                 *)

BeginHeader ==
  LET pivoted == Rule.sm.pivot # {}
      found   == {Err("DATA_MISSING", <<"pivots">>, Null)}
                 \cup IF Target = <<>> THEN {Err("ROW_MISSING", <<"empty">>, Null)} ELSE {}
  IN  /\ phase = "begin" /\ InMode({"HEADER"})
      /\ PushAll(IF pivoted THEN {} ELSE found)
      /\ phase' = IF pivoted THEN "scan" ELSE "done"
      /\ UNCHANGED <<input, page, extra, counts, compared>>

(* The value of the last row of a pivot key, null when there is none.      *)
PivotValue(rows, m) ==
  LET hits == SelectSeq(rows, LAMBDA r : r.id = m.key)
  IN  IF hits = <<>> THEN Null ELSE hits[Len(hits)][m.old]

(* The first row of an identity is compared, a further one is an error.    *)
PivotErrors(k, old, new) ==
  IF new = <<>> THEN {Err("ROW_MISSING", <<"identity">>, k)} ELSE
  {Err("TRANSFORM_ERROR", <<"duplicate", i>>, k) : i \in 2..Len(new)}
  \cup {Err("VALUE_MISMATCH", <<"pivot", m.key, m.new>>, k) :
          m \in {p \in Rule.sm.pivot : ~IsEqual(PivotValue(old, p), new[1][p.new], Rule.tolerance)}}

NextIdentities ==
  LET ids == GroupKeys(Source, "grp", ChunkSize, cursor)
      old == RowsByKeys(Source, "grp", Range(ids))
      new == RowsByKeys(Target, "grp", Range(ids))
  IN  /\ phase = "scan" /\ InMode({"HEADER"}) /\ ids # <<>>
      /\ rowsChecked' = rowsChecked + Len(old)
      /\ PushAll((UNION {PivotErrors(k, Group(old, k), Group(new, k)) : k \in Keys(old)})
                 \cup {Err("ROW_MISSING", <<"extra identity">>, k) : k \in Keys(new) \ Keys(old)})
      /\ Record([p \in {src} \X Keys(old) |-> <<Group(old, p[2])>>])
      /\ IF Len(ids) < ChunkSize THEN ReadFrom(src + 1)
         ELSE cursor' = ids[Len(ids)] /\ UNCHANGED <<src, phase>>
      /\ UNCHANGED <<input, carryOld, carryNew, extra, passCount, failCount>>

NoMoreIdentities ==
  /\ phase = "scan" /\ InMode({"HEADER"}) /\ GroupKeys(Source, "grp", ChunkSize, cursor) = <<>>
  /\ ReadFrom(src + 1)
  /\ UNCHANGED <<input, carryOld, carryNew, errors, total, bulk, extra, counts, compared>>

RowNext ==
  \/ BeginMaster \/ ForwardTurn \/ ForwardEnd \/ ReverseTurn \/ ReverseEnd
  \/ BeginRows \/ NextRows \/ NoMoreRows \/ CountRows
  \/ SplitColumns \/ BeginHeader \/ NextIdentities \/ NoMoreIdentities
=============================================================================
