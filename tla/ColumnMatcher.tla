--------------------------- MODULE ColumnMatcher ---------------------------
(***************************************************************************)
(* matchColumns (schema/column-matcher.ts): which column of the new table  *)
(* a column of the old one has become, judged by sample rows.              *)
(*                                                                         *)
(* A sample is [cols, rows]: the column names in order and the rows.  In   *)
(* this module 99 stands for a number of 15 digits or more.  Similarities  *)
(* are in per cent, confidences in tenths of one.  The limits of 200       *)
(* distinct values and 5 or 10 samples are beyond the samples considered.  *)
(* similarity[a, b] is stringSimilarity of two names, anchorish the set of *)
(* names that contain one of the key words of account and reference        *)
(* numbers.                                                                *)
(***************************************************************************)
EXTENDS SchemaCheck, DefRules

IsNumeric(c) == ParseFloat(c) # NaN /\ ~IsDate(c)
LargeInt(c) == c = 99
DateFormat(c) == IF HasTime(c) THEN "DATETIME" ELSE "DATE"

Present(values) == SelectSeq(values, LAMBDA c : c \notin {Null, Blank})
Share(hits, values) == (100 * Len(hits)) \div Len(values)

(* Unlike detectNoisyColumns: BOOLEAN is tried before ZERO, and '' is      *)
(* neither, so that ZERO is never found.                                   *)
SampleNoisyType(values) ==
  LET present == Range(values) \ {Null}
  IN  CASE present = {} /\ values # <<>> -> "NULL"
        [] present # {} /\ present \subseteq {0, 1} -> "BOOLEAN"
        [] OTHER -> "NORMAL"

InferredType(values) ==
  LET there == Present(values)
  IN  CASE SampleNoisyType(values) = "BOOLEAN" -> "boolean"
        [] SampleNoisyType(values) # "BOOLEAN" /\ there = <<>> -> "string"
        [] OTHER -> IF Share(SelectSeq(there, IsNumeric), there) > 80 THEN "numeric"
                    ELSE IF Share(SelectSeq(there, IsDate), there) > 80 THEN "date" ELSE "string"

(* floor(log10) of the mean of numbers in 0..99, 0 for a mean of 0.        *)
Magnitude(numbers) ==
  LET sum == Total(numbers)
  IN  CASE sum = 0 -> 0
        [] sum > 0 /\ sum < Len(numbers) -> -1
        [] OTHER -> IF sum >= 10 * Len(numbers) THEN 1 ELSE 0

(* buildColumnMeta                                                         *)
ColumnMeta(sample, col) ==
  LET values == Column(sample.rows, col)
      there  == Present(values)
      type   == InferredType(values)
      dates  == SelectSeq(there, IsDate)
  IN  [name   |-> col,            \* mean: its order of magnitude
       noisy  |-> SampleNoisyType(values),
       type   |-> type,
       format |-> IF type = "date" THEN DateFormat(dates[1]) ELSE "UNKNOWN",
       unique |-> IF values = <<>> THEN 0 ELSE (100 * Cardinality(Range(there))) \div Len(values),
       values |-> Range(there),
       mean   |-> IF type = "numeric"
                  THEN Magnitude([i \in 1..Len(there) |-> NumberOrZero(there[i])]) ELSE 0]

TypeSim(o, n) == IF o.type = n.type THEN 100 ELSE 50

Jaccard(a, b) ==
  IF a \cup b = {} THEN 0 ELSE (100 * Cardinality(a \cap b)) \div Cardinality(a \cup b)

ValueSimMutant(o, n) == 50

ValueSim(o, n) ==
  CASE o.noisy # "NORMAL" \/ n.noisy # "NORMAL" -> 0
    [] OTHER ->
         IF o.type # n.type THEN 50
         ELSE CASE o.type = "numeric" ->
                     IF Distance(o.mean, n.mean) <= 1 THEN 80 ELSE 20
                [] o.type = "string" -> Jaccard(o.values, n.values)
                [] OTHER -> 80

(* detectTransformHint                                                     *)
TransformHint(o, n) ==
  IF o.type # "date" \/ n.type # "date"
  THEN IF o.type = "string" /\ n.type = "numeric" /\ \E v \in o.values : IsPadded(v)
       THEN "STRIP_LEADING_ZEROS" ELSE "NONE"
  ELSE IF o.format = n.format THEN "NONE"
       ELSE IF o.format = "DATE" THEN "DATE_TO_DATETIME" ELSE "DATETIME_FORMAT_CHANGE"

Confidence(o, n, similarity) == 6 * similarity[o.name, n.name] + 2 * TypeSim(o, n) + 2 * ValueSim(o, n)

(* The first of the new columns with the highest confidence.               *)
BestMatch(o, news, similarity) ==
  LET conf(i) == Confidence(o, news[i], similarity)
  IN  news[CHOOSE i \in 1..Len(news) : \A j \in 1..Len(news) :
             conf(j) <= conf(i) /\ (j < i => conf(j) < conf(i))]

Status(o, n, similarity) ==
  LET conf == Confidence(o, n, similarity)
  IN  CASE /\ similarity[o.name, n.name] > 85 /\ ValueSim(o, n) < 10
           /\ o.type = "string" /\ n.type = "string"
           /\ o.unique > 5 /\ n.unique > 5 -> "SAME_NAME_DIFF_DATA"
        [] OTHER -> IF conf >= 900 /\ o.type = n.type THEN "VERIFIED"
                    ELSE IF conf >= 700 THEN "PROBABLE"
                    ELSE IF conf >= 500 THEN "MANUAL_CHECK" ELSE "NO_MATCH"

(* What is decided of one old column: [old, new, status, hint].            *)
MatchOf(o, news, similarity) ==
  LET none(status) == [old |-> o.name, new |-> "", status |-> status, hint |-> "NONE"]
  IN  CASE o.name = "id" /\ o.type = "numeric" /\ (\E v \in o.values : LargeInt(v)) -> none("REGENERATED_ID")
        [] o.noisy # "NORMAL" -> none(o.noisy \o "_COLUMN")
        [] OTHER ->
             IF news = <<>> THEN none("NO_MATCH")
             ELSE LET n == BestMatch(o, news, similarity)
                  IN  [old |-> o.name, new |-> n.name,
                       status |-> Status(o, n, similarity), hint |-> TransformHint(o, n)]

(* detectAnchorKeys: the pair of candidates with the largest share of old  *)
(* values found again, if it is a fifth at least; <<>> when there is none. *)
AnchorKeys(old, new, anchorish) ==
  LET metas(s)   == {m \in {ColumnMeta(s, c) : c \in Range(s.cols)} :
                       m.name \in anchorish /\ m.unique > 1 /\ m.noisy = "NORMAL"}
      pairs      == {p \in metas(old) \X metas(new) : p[1].values # {} /\ p[2].values # {}}
      overlap(p) == (100 * Cardinality(p[1].values \cap p[2].values)) \div Cardinality(p[1].values)
      at(s, c)   == CHOOSE i \in 1..Len(s.cols) : s.cols[i] = c
      earlier(p, q) == \/ at(old, p[1].name) < at(old, q[1].name)
                       \/ p[1] = q[1] /\ at(new, p[2].name) < at(new, q[2].name)
      best       == {p \in pairs : \A q \in pairs \ {p} :
                       overlap(q) < overlap(p) \/ (overlap(q) = overlap(p) /\ earlier(p, q))}
  IN  IF \E p \in best : overlap(p) >= 20
      THEN LET p == CHOOSE x \in best : TRUE IN <<p[1].name, p[2].name, overlap(p)>>
      ELSE <<>>

(* matchColumns.  Several old columns may be given the same new one.       *)
MatchColumns(old, new, similarity, anchorish) ==
  LET news    == [i \in 1..Len(new.cols) |-> ColumnMeta(new, new.cols[i])]
      matches == {MatchOf(ColumnMeta(old, c), news, similarity) : c \in Range(old.cols)}
      used    == {m.new : m \in {x \in matches : x.status \notin {"NO_MATCH", "SAME_NAME_DIFF_DATA"}}}
  IN  [matches |-> matches, anchor |-> AnchorKeys(old, new, anchorish),
       unmatchedNew |-> SelectSeq(new.cols, LAMBDA c : c \notin used)]
=============================================================================
