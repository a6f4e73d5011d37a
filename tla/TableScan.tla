------------------------------ MODULE TableScan ------------------------------
(***************************************************************************)
(* What the strategies have in common: the state of the validation of one  *)
(* table, the pages it is read in, groups compared and counted, and the    *)
(* verdict that runJob (validation.service.ts) draws.                      *)
(*                                                                         *)
(* A row of either table has the columns id (the anchor key), grp (the     *)
(* group key) and val.  The tables do not change while they are read.      *)
(*                                                                         *)
(* An input is a table to validate:                                        *)
(*   mode      the strategy and the streaming mode of its rule             *)
(*   rule      the name of its rule                                        *)
(*   sources   its source tables                                           *)
(*   target    its target table, new: the columns the target has           *)
(*   fails     does the query of the uniqueness check fail?                *)
(*   keyless   the sources that do not have the group key column           *)
(* and a rule                                                              *)
(*   sm        its schema mappings                                         *)
(*   accounts  the rows of the account mapping of the composite mode       *)
(*   grouped   does it have a transaction_grouping?                        *)
(*   tolerance, defs, codes, fingerprint                                   *)
(***************************************************************************)
EXTENDS DefRules, SchemaCheck

CONSTANTS
  Inputs,      \* the inputs considered, a set of sets of them
  Rules,       \* name -> rule
  ChunkSize,   \* CHUNK_SIZE
  KeyBatch,    \* GROUP_BATCH and SYSREF_BATCH
  ExtraRowCap, \* EXTRA_ROW_CAP
  MaxErrors    \* MAX_ERRORS

ASSUME SizeAssumption == {ChunkSize, KeyBatch, ExtraRowCap, MaxErrors} \subseteq Nat \ {0}

(* Tables are sequences of rows whose keys are cells; only Union and       *)
(* Multiple take several sources.                                          *)
IsTable(t) ==
  /\ t \in Seq(Range(t))
  /\ \A row \in Range(t) : {row.id, row.grp} \subseteq Int /\ row.id >= Null /\ row.grp >= Null

ASSUME InputAssumption ==
  \A some \in Inputs : \A i \in some :
    /\ IsTable(i.target)
    /\ i.sources \in Seq(Range(i.sources))
    /\ \A t \in Range(i.sources) : IsTable(t)
    /\ i.mode \in {"TX-GP", "TX-CK", "TX-SS", "MASTER", "SPLIT", "HEADER"} => Len(i.sources) = 1

VARIABLES
  input,       \* the table validated
  phase,       \* "begin", "scan", "flush", "reverse", "count", "done" or "rejected"
  src,         \* the source that is read
  cursor,      \* the last key read of it; <<key, id>> in the sysref modes
  carryOld,    \* the rows held back of the last group of a full chunk
  carryNew,    \* the new rows fetched with them
  errors,      \* the errors stored: [type, what, key]
  total,       \* how many errors there were, the ones that were not stored included
  bulk,        \* bulkCount
  extra,       \* extraFound
  rowsChecked, passCount, failCount,
  compared     \* <<source, group key>> -> the old rows of each comparison of it

page   == <<src, cursor, carryOld, carryNew>>
counts == <<rowsChecked, passCount, failCount>>
vars   == <<input, phase, page, errors, total, bulk, extra, counts, compared>>

Rule   == Rules[input.rule]
Source == input.sources[src]
Target == input.target
OldColumns == {"id", "grp", "val"}

InMode(modes) == input.mode \in modes
Sysref == InMode({"TX-SS", "MULTI-SS"})
Start == IF Sysref THEN <<>> ELSE Null

Init ==
  /\ \E some \in Inputs : input \in some
  /\ phase = "begin" /\ src = 1 /\ cursor = Start
  /\ carryOld = <<>> /\ carryNew = <<>>
  /\ errors = {} /\ total = 0 /\ bulk = 0 /\ extra = 0
  /\ rowsChecked = 0 /\ passCount = 0 /\ failCount = 0
  /\ compared = <<>>

Err(type, what, key) == [type |-> type, what |-> what, key |-> key]

-----------------------------------------------------------------------------
(* Before the rows are read.                                               *)

ColumnErrors(missing) ==
  {Err("COLUMN_MISSING", <<"old", c>>, Null) : c \in missing.old}
  \cup {Err("COLUMN_MISSING", <<"new", c>>, Null) : c \in missing.new}

(* The schema check of every strategy but Multiple: a mapping that names a *)
(* missing column is left out of what follows.                             *)
Mappings(kinds) == FilterMappings(Rule.sm, MissingColumns(Rule.sm, kinds, OldColumns, input.new))

(* The Transaction strategy checks the columns of its filters as well.     *)
FilterErrors == ColumnErrors([old |-> MissingFilterCols(Rule.sm, OldColumns), new |-> {}])

SchemaErrors(kinds) ==
  ColumnErrors(MissingColumns(Rule.sm, kinds, OldColumns, input.new))
  \cup (IF "filtered" \in kinds THEN FilterErrors ELSE {})
  \cup {Err(e[1], <<e[2]>>, Null) : e \in UnmappedErrors(Mappings(kinds), OldColumns, input.new)}

AnchorErrors(tables) ==
  {Err("TRANSFORM_ERROR", <<"duplicate", i>>, Null) :
     i \in {j \in 1..Len(tables) : AnchorReported(tables[j], "id", input.fails)}}

(* Multiple checks the anchor of a source when its turn comes.             *)
PairErrors ==
  IF InMode({"MULTI"}) /\ phase = "scan" /\ cursor = Start
  THEN {[e EXCEPT !.what = <<"duplicate", src>>] : e \in AnchorErrors(<<Source>>)} ELSE {}

Noisy(kinds) == NoisyColumns(Source, OldCols(Mappings(kinds), kinds), FALSE)

-----------------------------------------------------------------------------
(* Groups.                                                                 *)

KeyOf(row) == Trimmed(row.grp)
Keys(rows) == {KeyOf(rows[i]) : i \in 1..Len(rows)}
RowsOf(rows, ks) == RowsIn(rows, {i \in 1..Len(rows) : KeyOf(rows[i]) \in ks})
Group(rows, k) == RowsOf(rows, {k})

(* The key inserted last into a map that is filled in the order of rows.   *)
LastKey(rows) ==
  LET first(k) == CHOOSE i \in 1..Len(rows) : KeyOf(rows[i]) = k /\ \A j \in 1..(i - 1) : KeyOf(rows[j]) # k
  IN  CHOOSE k \in Keys(rows) : \A q \in Keys(rows) : first(q) <= first(k)

(* validateGroup of the strategy of the mode, the row-level diff if it     *)
(* found something, and the DEF rules.                                     *)
GroupCheck(k, old, new, sm, noisy, diff) ==
  LET multi == InMode({"MULTI", "MULTI-GP", "MULTI-SS"})
      found == IF multi
               THEN MultiGroupErrors(sm, old, new, noisy, Rule.tolerance)
                    \cup MultiFilterErrors(sm, old, new, noisy, Rule.tolerance)
               ELSE TxGroupErrors(sm, old, new, noisy, Rule.tolerance)
      fp    == FingerprintDiff(old, new, Rule.fingerprint, Rule.fingerprint)
  IN  {Err("VALUE_MISMATCH", e, k) : e \in found}
      \cup {Err(e[3], e, k) : e \in RunDefRules(k, old, new, Rule.defs, Rule.codes, Rule.tolerance)}
      \cup IF found = {} \/ ~diff \/ Rule.fingerprint = <<>> THEN {}
           ELSE {Err("ROW_MISSING", <<"missing", f>>, k) : f \in DOMAIN fp.missing}
                \cup {Err("ROW_MISSING", <<"extra", f>>, k) : f \in DOMAIN fp.extra}

(* The errors of the group k, none when it agrees.                         *)
GroupErrors(k, old, new, sm, noisy, diff) ==
  IF new = <<>> THEN {Err("ROW_MISSING", <<"group">>, k)} ELSE GroupCheck(k, old, new, sm, noisy, diff)

(* pushBulk: every error counts, MAX_ERRORS of them are kept.              *)
Push(found) ==
  LET room == IF bulk >= MaxErrors THEN 0 ELSE MaxErrors - bulk
      kept == IF Cardinality(found) <= room THEN found
              ELSE CHOOSE s \in SUBSET found : Cardinality(s) = room
  IN  /\ errors' = errors \cup kept
      /\ bulk' = bulk + Cardinality(found)
      /\ total' = total + Cardinality(found)

(* errors.push                                                             *)
PushAll(found) ==
  /\ errors' = errors \cup found
  /\ total' = total + Cardinality(found)
  /\ UNCHANGED bulk

Record(made) ==
  LET of(f, p) == IF p \in DOMAIN f THEN f[p] ELSE <<>>
  IN  compared' = [p \in DOMAIN compared \cup DOMAIN made |-> of(compared, p) \o of(made, p)]

(* Groups of the rows old have been compared: errs are the errors of each; *)
(* the keys extras are of new rows only.  The old rows of a group count as *)
(* passed or failed, except in the paged mode of Multiple.  Before the     *)
(* first chunk of a pair come its anchor errors.                           *)
Compare(errs, extras, old) ==
  LET ks    == DOMAIN errs
      good  == {k \in ks : errs[k] = {}}
      found == (UNION {errs[k] : k \in ks}) \cup {Err("ROW_MISSING", <<"extra group">>, k) : k \in extras}
               \cup PairErrors
      rows(s) == IF InMode({"MULTI-GP"}) THEN 0 ELSE Len(RowsOf(old, s))
  IN  /\ IF Sysref THEN Push(found) ELSE PushAll(found)
      /\ passCount' = passCount + rows(good)
      /\ failCount' = failCount + rows(ks \ good)
      /\ Record([p \in {src} \X ks |-> <<Group(old, p[2])>>])

(* Multiple reads the sources that a mapping names, the first for those    *)
(* that name none; a source that no mapping names is not read.             *)
SourceOf(m) == IF "src" \in DOMAIN m THEN m.src ELSE 1
IsRead(i) ==
  InMode({"MULTI", "MULTI-GP", "MULTI-SS", "MULTI-ROW"}) =>
    \E k \in DOMAIN Rule.sm : \E m \in Rule.sm[k] : SourceOf(m) = i

(* On to the next of the sources from i on, or to the end.                 *)
ReadFrom(i) ==
  LET next == {j \in i..Len(input.sources) : IsRead(j)}
  IN  IF next # {}
      THEN src' = Min(next) /\ cursor' = Start /\ phase' = "scan"
      ELSE phase' = (IF InMode({"MULTI-ROW", "HEADER"}) THEN "count" ELSE "done") /\ UNCHANGED <<src, cursor>>

(* A query rejects: runJob reports the error and knows no counts.          *)
Reject ==
  /\ phase \notin {"done", "rejected"}
  /\ phase' = "rejected"
  /\ errors' = {Err("TRANSFORM_ERROR", <<"runtime">>, Null)} /\ total' = 1
  /\ bulk' = 0 /\ rowsChecked' = 0 /\ passCount' = 0 /\ failCount' = 0
  /\ UNCHANGED <<input, page, extra, compared>>

-----------------------------------------------------------------------------
(* The verdict, the aggregate cross-check taken to find nothing.           *)

Over == phase \in {"done", "rejected"}

Skipped == IF rowsChecked > passCount + failCount THEN rowsChecked - passCount - failCount ELSE 0

Verdict ==
  IF Over /\ failCount = 0 /\ Skipped = 0 /\ total = 0 THEN "PASS" ELSE "FAIL"
=============================================================================
