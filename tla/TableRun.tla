------------------------------ MODULE TableRun ------------------------------
(***************************************************************************)
(* The validation of one table, by the strategy that StrategyFactory gives *)
(* its table type and the streaming mode its rule asks for, up to the      *)
(* verdict of runJob.                                                      *)
(***************************************************************************)
EXTENDS RowScan

(* StrategyFactory.create: the mode of an input stands for the strategy;   *)
(* ASSOCIATE is a MASTER, any other type is no strategy and rejects.       *)
Next == GroupNext \/ RowNext \/ Reject

Spec == Init /\ [][Next]_vars

-----------------------------------------------------------------------------
GroupModes == TxModes \cup MultiModes \cup {"UNION"}
ReadSources ==
  {i \in 1..Len(input.sources) : IsRead(i) /\ ~(InMode({"MULTI-SS"}) /\ i \in input.keyless)}
Unique(table, cols) ==
  \A i, j \in 1..Len(table) : i # j => \E c \in cols : table[i][c] # table[j][c]
Contiguous(table) ==
  \A i, j, k \in 1..Len(table) :
    table[i].id < table[j].id /\ table[j].id < table[k].id /\ KeyOf(table[i]) = KeyOf(table[k])
      => KeyOf(table[j]) = KeyOf(table[i])
AllAnchored(table) == \A row \in Range(table) : row.id # Null
AllNamed(table) == \A row \in Range(table) : row.grp # Null

(* What the rule says of a group, or of a row, without pages and chunks.   *)
(* A union sums the columns of its exact matches, and compares those of    *)
(* transformed ones where a group is one row on either side.               *)
Sum(rows, col) == Total([i \in 1..Len(rows) |-> rows[i][col]])
SameGroup(old, new) == Ids(old) = Ids(new) /\ Len(old) = Len(new) /\ Sum(old, "val") = Sum(new, "val")
Agrees(o, n, m) == IsEqual(Transformed(o[m.old], m), n[m.new], 0)
SameUnion(old, new) ==
  /\ new # <<>>
  /\ \A m \in Rule.sm.exact : Sum(old, m.old) = Sum(new, m.new)
  /\ Len(old) = 1 /\ Len(new) = 1 => \A m \in Rule.sm.transformed : Agrees(old[1], new[1], m)
SameRow(o, n, sm) == IdOf(o) = IdOf(n) /\ \A m \in sm.exact \cup sm.transformed : Agrees(o, n, m)

Faithful(source) ==
  LET table     == input.sources[source]
      keys      == Keys(table) \ {Blank}
      of(k)     == Group(table, k)
      meant     == [k \in keys |-> Group(Target, k)]
      fetched   == SelectSeq(Target, LAMBDA r : IdOf(r) \in Ids(table))
      account(k, a, rows) == SelectSeq(rows, LAMBDA r : KeyOf(r) = k /\ Trimmed(r.val) = a)
      becomes   == AccountMap(table)
  IN  CASE InMode({"TX-GP", "TX-SS"} \cup MultiModes) -> \A k \in keys : SameGroup(of(k), meant[k])
        [] InMode({"TX-CK"}) -> \A k \in keys : \A a \in ValueSet(of(k), "val") :
             a \in DOMAIN becomes /\ LET o == account(k, a, table) n == account(k, becomes[a], Target)
                                     IN  Ids(o) = Ids(n) /\ Len(o) = Len(n)
        [] InMode({"UNION"}) -> \A k \in keys : SameUnion(of(k), Group(fetched, k))
        [] InMode({"MASTER"}) -> Ids(table) = Ids(Target) /\ \A o \in Range(table) : \E n \in Range(Target) :
             SameRow(o, n, Rule.sm)
        [] InMode({"MULTI-ROW"}) -> \A o \in Range(table) : \E n \in Range(Target) :
             SameRow(o, n, PairMappings(source))
        [] InMode({"SPLIT"}) -> \A m \in Rule.sm.exact :
             \/ m.old \in NoisyColumns(table, OldColumns, FALSE)
             \/ {Transformed(v, m) : v \in ValueSet(table, m.old)} = ValueSet(Target, m.new)
        [] InMode({"HEADER"}) -> \A k \in Keys(SelectSeq(table, LAMBDA r : r.grp # Null)) :
             \E n \in Range(Target) : KeyOf(n) = k /\ \A m \in Rule.sm.pivot :
                Trimmed(PivotValue(of(k), m)) = Trimmed(n[m.new])

(* Nobody asks Split and the row mode of Multiple whether the anchor key   *)
(* that they page by is unique, nor the cached modes of the pair they page *)
(* by; the other modes that page by anchor key ask, unless the query fails.*)
TiesUntold(i) ==
  LET table == input.sources[i]
  IN  CASE InMode({"MULTI-ROW"})        -> ~Unique(table, {"id"})
        [] InMode({"SPLIT"})            -> ~Unique(table, {"id"}) \/ ~Unique(Target, {"id"})
        [] InMode({"TX-SS", "MULTI-SS"}) -> ~Unique(table, {"grp", "id"})
        [] InMode({"MULTI", "UNION"})   -> input.fails /\ ~Unique(table, {"id"})
        [] InMode({"MASTER"})           -> input.fails /\ (~Unique(table, {"id"}) \/ ~Unique(Target, {"id"}))
        [] OTHER -> FALSE

(* A table whose scan ends without an error agrees with its target,        *)
(* whatever pages, chunks and groups it was read in: nothing with a key is *)
(* left out, unless it ties with another on a key that nobody found to be  *)
(* ambiguous.  So does each table that is reported as PASS.  Rows of a     *)
(* blank group key, and sources without the key column, are not compared   *)
(* by the modes that read by group key.                                    *)
PassIsHonest ==
  phase = "done" /\ total = 0 => \A i \in ReadSources : TiesUntold(i) \/ Faithful(i)

(* ENGINE.md of fetchChunk: rows with duplicate anchor keys are skipped,   *)
(* which is why the engine checks for them.  So no table of which a row    *)
(* was skipped for that passes, given that the query of the check answers. *)
TiesReported ==
  Verdict = "PASS" /\ ~input.fails => \A i \in ReadSources : Faithful(i)

(* When the scan ends each group, or row, has been compared once, with all *)
(* its old rows, across all page and chunk boundaries: given a unique      *)
(* order, and groups that are contiguous in the order of the anchor key    *)
(* where it is not that of the groups.  A row without an anchor is not     *)
(* read in that order.                                                     *)
ComparedOnce ==
  phase = "done" /\ rowsChecked > 0 =>
    \A i \in ReadSources :
      LET table == input.sources[i]
          once(k, rows) == /\ <<i, k>> \in DOMAIN compared
                           /\ Len(compared[<<i, k>>]) = 1
                           /\ Range(compared[<<i, k>>][1]) = Range(rows)
                           /\ Len(compared[<<i, k>>][1]) = Len(rows)
      IN  CASE InMode({"TX-GP", "MULTI-GP", "HEADER"}) ->
                 \A k \in Keys(table) \ {Blank} : once(k, Group(table, k))
            [] InMode({"TX-SS", "MULTI-SS"}) ->
                 Unique(table, {"grp", "id"}) /\ AllNamed(table)
                   => \A k \in Keys(table) \ {Blank} : once(k, Group(table, k))
            [] InMode({"MULTI", "UNION"}) ->
                 Unique(table, {"id"}) /\ AllAnchored(table) /\ Contiguous(table)
                   => \A k \in Keys(table) \ {Blank} : once(k, Group(table, k))
            [] InMode({"MASTER", "MULTI-ROW"}) ->
                 Unique(table, {"id"}) /\ AllAnchored(table)
                   => \A k \in Ids(table) : once(k, ById(table, k))
            [] OTHER -> TRUE

(* A row is skipped, neither passed nor failed, only in the modes that     *)
(* count no rows, for its blank group key, or for an account without a     *)
(* mapping: no row is lost between two chunks.                             *)
SkippedExplained ==
  Skipped > 0 =>
    \/ ~Over
    \/ InMode({"MASTER", "MULTI-GP"})
    \/ \E i \in ReadSources : Blank \in Keys(input.sources[i])
    \/ InMode({"TX-CK"}) /\ \E e \in errors : e.what = <<"no mapping">>

(* The reverse scan of a master table reports every key that only the      *)
(* target has, or as many as EXTRA_ROW_CAP and the fact that there are     *)
(* more.                                                                   *)
ExtrasFound ==
  LET only     == (Ids(Target) \ Ids(Source)) \ {Blank}
      reported == {e.key : e \in {x \in errors : x.what = <<"extra row">>}}
      capped   == Err("ROW_MISSING", <<"capped">>, Null) \in errors
  IN  phase = "done" /\ InMode({"MASTER"}) /\ rowsChecked > 0 /\ Unique(Target, {"id"}) =>
        /\ reported \subseteq only
        /\ capped <=> Cardinality(only) > ExtraRowCap
        /\ IF capped THEN Cardinality(reported) = ExtraRowCap ELSE reported = only

=============================================================================
