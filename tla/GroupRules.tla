----------------------------- MODULE GroupRules -----------------------------
(***************************************************************************)
(* What the strategies say of one transaction group: the group's old rows  *)
(* against its new rows (validateGroup of the Transaction and the Multiple *)
(* strategy, compareUnionGroup of the Union strategy, fingerprintDiff).    *)
(*                                                                         *)
(* A group is a sequence of rows, in the order the database returned them. *)
(* sm is the schema mapping: one set of matches of each kind.  An error is *)
(* named by the kind of match and the new column.                          *)
(***************************************************************************)
EXTENDS Tables

NoMappings == [exact |-> {}, split |-> {}, transformed |-> {}, concat |-> {},
               formula |-> {}, filtered |-> {}, subset |-> {}, pivot |-> {}]

SumColumnMutant(rows, col) ==
  LET vals == SelectSeq([i \in 1..Len(rows) |-> rows[i][col]], LAMBDA c : c # Null)
      bad  == {i \in 1..Len(vals) : ParseFloat(vals[i]) = NaN}
      nums == IF bad = {} THEN vals ELSE SubSeq(vals, 1, Min(bad) - 1)
  IN  IF vals = <<>> THEN NaN ELSE Total([i \in 1..Len(nums) |-> ParseFloat(nums[i])])

(* sumColumn: NaN stands for null, also when one value is no number.       *)
SumColumn(rows, col) ==
  LET vals == SelectSeq([i \in 1..Len(rows) |-> rows[i][col]], LAMBDA c : c # Null)
      nums == [i \in 1..Len(vals) |-> ParseFloat(vals[i])]
  IN  IF nums = <<>> \/ \E i \in 1..Len(nums) : nums[i] = NaN THEN NaN ELSE Total(nums)

Differ(x, y, tolerance) == x # NaN /\ y # NaN /\ Distance(x, y) > tolerance

(* Distinct values, '' left out.                                           *)
ValueSet(rows, col) == {Trimmed(c) : c \in Values(rows, col)} \ {Blank}

(* A place in the order of texts: years and padded numbers before other    *)
(* numbers, numbers before letters, a text before what it begins.          *)
Precedence(c) ==
  CASE HasBar(c)              -> 20 * Parts(c)[1] + 1 + (c % 10)
    [] IsPadded(c) \/ c >= 1000 -> c - 20000
    [] OTHER                  -> 20 * c

(* The values sorted and joined with '|': a value that contains a bar      *)
(* reads like two.                                                         *)
Piped(set) ==
  LET sorted == Page([x \in set |-> {y \in set : Precedence(y) < Precedence(x)}], Cardinality(set))
  IN  FlattenSeq([i \in 1..Len(sorted) |-> Parts(sorted[i])])

SetsDiffer(a, b) == a # {} /\ b # {} /\ Piped(a) # Piped(b)

(* normalizeVal: Number('') is 0, so that an empty value becomes '0' and   *)
(* is not filtered out.                                                    *)
NormalizeVal(c) == IF Trimmed(c) = Blank THEN 0 ELSE c
NormalSet(rows, col) == {NormalizeVal(c) : c \in Values(rows, col)}

Joined(rows, cols) == {Join([k \in 1..Len(cols) |-> rows[i][cols[k]]]) : i \in 1..Len(rows)}
Sums(rows, cols) == [k \in 1..Len(cols) |-> SumColumn(rows, cols[k])]

(* The part of a filter that both sides know: affectcode and debitcredit.  *)
(* A column that a table does not have reads as ''.                        *)
InFilter(row, f) ==
  LET field(col) == IF col \in DOMAIN row THEN row[col] ELSE Blank
  IN  /\ f.codes # {} => field("affectcode") \in f.codes
      /\ f.dc # Blank => field("debitcredit") = f.dc

FilteredSum(rows, col, f) ==
  LET total == SumColumn(SelectSeq(rows, LAMBDA r : InFilter(r, f)), col)
  IN  IF total = NaN THEN 0 ELSE total

(* split, transformed, concat and formula matches, alike in both           *)
(* strategies: totals of the group, or the sets of its concatenated values.*)
TotalErrors(sm, old, new, noisy, tolerance) ==
  {<<"split", m.old>> : m \in {s \in sm.split : s.old \notin noisy /\
      LET total == SumColumn(old, s.old)
      IN  total # NaN /\ Distance(total, EvaluateFormula(s.formula, Sums(new, s.news))) > tolerance}}
  \cup
  {<<"transformed", m.new>> : m \in {t \in sm.transformed : t.old \notin noisy /\
      Differ(SumColumn(old, t.old), SumColumn(new, t.new), tolerance)}}
  \cup
  {<<"concat", m.new>> : m \in {c \in sm.concat : Range(c.olds) \cap noisy = {} /\
      Piped(Joined(old, c.olds)) # Piped({Trimmed(v) : v \in Values(new, c.new)})}}
  \cup
  {<<"formula", m.new>> : m \in {f \in sm.formula : Range(f.olds) \cap noisy = {} /\
      LET inputs == Sums(old, f.olds)
      IN  NaN \notin Range(inputs) /\
          Differ(EvaluateFormula(f.formula, inputs), SumColumn(new, f.new), tolerance)}}

(* validateGroup of TransactionStrategy; its filtered sums have no filter  *)
(* of the new rows and are compared also when no old row is left.          *)
TxGroupErrors(sm, old, new, noisy, tolerance) ==
  TotalErrors(sm, old, new, noisy, tolerance)
  \cup
  {<<"exact", m.new>> : m \in {e \in sm.exact : e.old \notin noisy /\
      SetsDiffer(NormalSet(old, e.old), NormalSet(new, e.new))}}
  \cup
  {<<"filtered", m.new>> : m \in {f \in sm.filtered : f.old \notin noisy /\
      LET total == SumColumn(new, f.new)
      IN  Distance(FilteredSum(old, f.old, f.filter), IF total = NaN THEN 0 ELSE total) > tolerance}}

(* validateGroup of MultipleStrategy.                                      *)
MultiGroupErrors(sm, old, new, noisy, tolerance) ==
  TotalErrors(sm, old, new, noisy, tolerance)
  \cup
  {<<"exact", m.new>> : m \in {e \in sm.exact : e.old \notin noisy /\
      SetsDiffer(ValueSet(old, e.old), ValueSet(new, e.new))}}

(* Its filtered sums and subset matches.                                   *)
MultiFilterErrors(sm, old, new, noisy, tolerance) ==
  {<<"filtered", m.new>> : m \in {f \in sm.filtered : f.old \notin noisy /\
      /\ f.skipIfEmpty => \E i \in 1..Len(old) : InFilter(old[i], f.filter)
      /\ Distance(FilteredSum(old, f.old, f.filter), FilteredSum(new, f.new, f.newFilter)) > tolerance}}
  \cup
  {<<"subset", m.new>> : m \in {s \in sm.subset : s.old \notin noisy /\
      ~(ValueSet(old, s.old) \subseteq ValueSet(new, s.new))}}

-----------------------------------------------------------------------------
(* The Union strategy.                                                     *)

(* sumOrFirst: the sum when every value is a number, else the distinct     *)
(* values joined; the joined text begins with the number of the first one. *)
SumOrFirst(rows, col) ==
  LET vals == ValueSet(rows, col)
      text == Piped(vals)
      nums == [i \in 1..Len(rows) |-> ParseFloat(rows[i][col])]
  IN  IF \A i \in 1..Len(nums) : nums[i] # NaN
      THEN [some |-> rows # <<>>, num |-> Total(nums), text |-> <<>>]
      ELSE [some |-> vals # {}, num |-> IF vals = {} THEN NaN ELSE ParseFloat(text[1]),
            text |-> [i \in 1..Len(text) |-> UpperCase(text[i])]]

(* compareUnionGroup: transformed matches look at the first row of each    *)
(* side only.                                                              *)
UnionGroupErrors(sm, old, new, noisy, tolerance) ==
  IF new = <<>> THEN {<<"missing", "">>} ELSE
  {<<"exact", m.new>> : m \in {e \in sm.exact : e.old \notin noisy /\
      LET o == SumOrFirst(old, e.old)
          n == SumOrFirst(new, e.new)
      IN  /\ o.some /\ n.some
          /\ IF o.num # NaN /\ n.num # NaN THEN Distance(o.num, n.num) > tolerance ELSE o.text # n.text}}
  \cup
  {<<"transformed", m.new>> : m \in {t \in sm.transformed : t.old \notin noisy /\
      ~IsEqual(Transformed(old[1][t.old], t), Apply(new[1][t.new], "NONE"), tolerance)}}

-----------------------------------------------------------------------------
(* Row-level diff of a group.                                              *)

(* normalizeFingerprint: a number is written canonically, a date loses its *)
(* time, a date without one all but its year, as a text of that number.    *)
NormalizeFingerprint(c) ==
  CASE HasTime(c) -> c - 5
    [] ~HasTime(c) /\ ParseFloat(c) # NaN -> ParseFloat(c)
    [] OTHER -> Trimmed(c)

(* The columns of a row, joined with '|'.                                  *)
Fingerprint(row, cols) ==
  LET value == [k \in 1..Len(cols) |-> NormalizeFingerprint(row[cols[k]])]
  IN  IF \A k \in 1..Len(cols) : ~HasBar(value[k]) THEN value
      ELSE FlattenSeq([k \in 1..Len(cols) |-> Parts(value[k])])

Fingerprints(rows, cols) ==
  [f \in {Fingerprint(rows[i], cols) : i \in 1..Len(rows)} |->
     Cardinality({i \in 1..Len(rows) : Fingerprint(rows[i], cols) = f})]

FingerprintDiffMutant(old, new, oldCols, newCols) ==
  LET a == Fingerprints(old, oldCols)
      b == Fingerprints(new, newCols)
  IN  [missing |-> [f \in DOMAIN a \ DOMAIN b |-> a[f]],
       extra   |-> [f \in DOMAIN b \ DOMAIN a |-> b[f]]]

(* fingerprintDiff: for each fingerprint how many rows more one side has.  *)
FingerprintDiff(old, new, oldCols, newCols) ==
  LET a == Fingerprints(old, oldCols)
      b == Fingerprints(new, newCols)
      copies(f, x)  == IF f \in DOMAIN x THEN x[f] ELSE 0
      surplus(x, y) == {f \in DOMAIN x : x[f] > copies(f, y)}
  IN  [missing |-> [f \in surplus(a, b) |-> a[f] - copies(f, b)],
       extra   |-> [f \in surplus(b, a) |-> b[f] - copies(f, a)]]
=============================================================================
