----------------------------- MODULE RuleCases -----------------------------
(***************************************************************************)
(* The rules that decide without reading further: what is said of one      *)
(* group, two column names, two samples or two sets of totals.  A case is  *)
(* one such question, and Next asks it again with rows in another order.   *)
(***************************************************************************)
EXTENDS ColumnMatcher, AggregateCheck

LOCAL T == INSTANCE Transforms

CONSTANTS
  Matches,       \* the schema mappings, and the groups of old
  OldGroups,     \* and of new rows
  NewGroups,
  Defs,          \* the DEF rules, and the codes they may speak of
  Codes,
  WordCases,     \* [a, b]: two names, sequences of the letters of Letters
  Letters,
  SampleCases,   \* [old, new]: two samples
  SumCases       \* [sources, target, lost]: a copy that has lost a row, or <<>>

OldRows == UNION {Range(g) : g \in OldGroups}
NewRows == UNION {Range(g) : g \in NewGroups}

ASSUME GroupAssumption == OldGroups \subseteq Seq(OldRows) /\ NewGroups \subseteq Seq(NewRows)

VARIABLES kind, case
caseVars == <<kind, case>>

Cols == <<"affectcode", "val">>
Tolerance == 1

Init ==
  \/ kind = "group"  /\ \E m \in Matches, o \in OldGroups, n \in NewGroups : case = [sm |-> m, old |-> o, new |-> n]
  \/ kind = "word"   /\ case \in WordCases
  \/ kind = "sample" /\ case \in SampleCases
  \/ kind = "sum"    /\ case \in SumCases

(* The database returns the rows of a group in no order of its own.        *)
Swap(rows, i) == [rows EXCEPT ![i] = rows[i + 1], ![i + 1] = rows[i]]

Shuffle ==
  /\ kind = "group"
  /\ \E side \in {"old", "new"} : \E i \in 1..(Len(case[side]) - 1) :
       case' = [case EXCEPT ![side] = Swap(@, i)]
  /\ UNCHANGED kind

CaseSpec == Init /\ [][Shuffle]_caseVars

-----------------------------------------------------------------------------
Diff(c) == FingerprintDiff(c.old, c.new, Cols, Cols)

(* All that is said of a group: by the Transaction, the Multiple and the   *)
(* Union strategy, by the row-level diff and by the DEF rules.             *)
Verdicts(c) ==
  [tx    |-> TxGroupErrors(c.sm, c.old, c.new, {}, Tolerance),
   multi |-> MultiGroupErrors(c.sm, c.old, c.new, {}, Tolerance)
             \cup MultiFilterErrors(c.sm, c.old, c.new, {}, Tolerance),
   union |-> UnionGroupErrors(c.sm, c.old, c.new, {}, Tolerance),
   diff  |-> Diff(c),
   def   |-> RunDefRules(21, c.old, c.new, Defs, Codes, Tolerance)]

(* No query orders the rows of a group, so what is said of a group does    *)
(* not depend on their order, values that are no numbers included.  The    *)
(* transformed matches of Union compare the first rows, and so depend on   *)
(* which rows come first, but on nothing else of the order.                *)
SameFirst == \A side \in {"old", "new"} : case[side] = <<>> \/ case'[side][1] = case[side][1]
Steady(v) == [v EXCEPT !.union = {e \in @ : e[1] # "transformed"}]
OrderFree ==
  [][kind = "group" =>
       /\ Steady(Verdicts(case')) = Steady(Verdicts(case))
       /\ SameFirst => Verdicts(case') = Verdicts(case)]_caseVars

Barless(rows) ==
  \A i \in 1..Len(rows) : \A k \in 1..Len(Cols) : ~HasBar(NormalizeFingerprint(rows[i][Cols[k]]))

(* The row-level diff of a group is empty exactly when the new rows are    *)
(* the old ones in some order, each as often, as far as the fingerprint    *)
(* columns tell them apart; a text with a bar, the separator of the        *)
(* columns, can only hide a difference, never make one up.                 *)
DiffIsPermutation ==
  kind = "group" =>
    LET n == Len(case.old)
        alike(i, j) == \A k \in 1..Len(Cols) :
          NormalizeFingerprint(case.old[i][Cols[k]]) = NormalizeFingerprint(case.new[j][Cols[k]])
        permuted == /\ Len(case.new) = n
                    /\ \E f \in [1..n -> 1..n] : Range(f) = 1..n /\ \A i \in 1..n : alike(i, f[i])
        empty    == DOMAIN Diff(case).missing = {} /\ DOMAIN Diff(case).extra = {}
    IN  /\ permuted => empty
        /\ empty /\ Barless(case.old) /\ Barless(case.new) => permuted

(* levenshtein is the edit distance: 0 for equal names only, no edit of    *)
(* one character lowers it by more than 1, and one lowers it by 1.         *)
OneEdit(w) ==
  {SubSeq(w, 1, i - 1) \o SubSeq(w, i + 1, Len(w)) : i \in 1..Len(w)}
  \cup {[w EXCEPT ![p[1]] = p[2]] : p \in (1..Len(w)) \X Letters}
  \cup {SubSeq(w, 1, p[1]) \o <<p[2]>> \o SubSeq(w, p[1] + 1, Len(w)) : p \in (0..Len(w)) \X Letters}

LevenshteinRight ==
  kind = "word" =>
    LET d == T!Levenshtein(case.a, case.b)
        around == {T!Levenshtein(w, case.b) : w \in OneEdit(case.a)}
    IN  /\ d = 0 <=> case.a = case.b
        /\ \A x \in around : x >= d - 1
        /\ d > 0 => d - 1 \in around

(* Names in samples are alike by 100 per cent or by 60.                    *)
Similar(names) == [a, b \in names |-> IF a = b THEN 100 ELSE 60]

(* matchColumns: a column that has kept its name and its data is verified  *)
(* with itself; a column of texts that has kept its name and none of its   *)
(* data is reported, and not taken for a match: it stays unmatched, unless *)
(* another old column is given it.                                         *)
MatchesMeant ==
  kind = "sample" =>
    LET result == MatchColumns(case.old, case.new, Similar(Range(case.old.cols) \cup Range(case.new.cols)), {})
        meta(s, c) == ColumnMeta(s, c)
    IN  \A c \in Range(case.old.cols) \cap Range(case.new.cols) :
          LET o == meta(case.old, c)
              n == meta(case.new, c)
              m == CHOOSE x \in result.matches : x.old = c
          IN  o.noisy = "NORMAL" /\ n.noisy = "NORMAL" /\ o.values # {} /\ n.values # {} =>
                /\ Column(case.old.rows, c) = Column(case.new.rows, c)
                     => m.new = c /\ m.status = "VERIFIED" /\ m.hint = "NONE"
                /\ o.type = "string" /\ n.type = "string" /\ o.values \cap n.values = {}
                     => /\ m.status = "SAME_NAME_DIFF_DATA"
                        /\ \/ c \in Range(result.unmatchedNew)
                           \/ \E x \in result.matches : x.old # c /\ x.new = c

(* The aggregate cross-check sees a lost row whose amount exceeds the      *)
(* tolerance, whichever source it came from, and says nothing of a         *)
(* complete copy.                                                          *)
Amounts == <<[old |-> "amount", new |-> "amount"]>>

DropSeen ==
  kind = "sum" =>
    AggregateErrors(case.sources, case.target, Amounts, TRUE, FALSE, Tolerance)
      = {r.affectcode : r \in {x \in Range(case.lost) : x.amount > Tolerance}}
=============================================================================
