------------------------------- MODULE Cells -------------------------------
(***************************************************************************)
(* The value of one column in one row, and what transform.utils.ts does    *)
(* with values.  A cell is an integer:                                     *)
(*                                                                         *)
(*   Null            SQL NULL                                              *)
(*   Blank           the empty string                                      *)
(*   0 .. 99         a number                                              *)
(*   100 .. 149      a text that begins with no number, 150 .. 199 the     *)
(*                   same text in lower case                               *)
(*   200 .. 299      the numbers 0 .. 99 with zeros before them            *)
(*   300 .. 399      two texts with a bar between: 300 + 10 * a + b is     *)
(*                   (100 + a)|(100 + b); 400 .. 499 the same, no bar      *)
(*   1000 .. 9999    a date: 1000 + 10 * n + i is the day i of the year n, *)
(*                   from i = 5 on the day i - 5 with T and a time         *)
(*   from 10000 on   a number of many digits; 10000 * a + b is a composite *)
(*                   key, whose last four digits are b                     *)
(*                                                                         *)
(* Null and Blank are below every other value, as in an ORDER BY.          *)
(***************************************************************************)
EXTENDS Integers, Sequences, FiniteSets, SequencesExt, FiniteSetsExt, Functions

Null  == -2
Blank == -1
NaN   == -9999      \* the number that is none; also "no total" (null)

IsNumber(c) == c \in 0..99
IsDate(c) == c \in 1000..9999
HasTime(c) == IsDate(c) /\ c % 10 >= 5
PaddedNumber(n) == 200 + n
IsPadded(c) == c \in 200..299
HasBar(c) == c \in 300..399
IsComposite(c) == c >= 10000
Distance(a, b) == IF a < b THEN b - a ELSE a - b

(* parseFloat(String(v)): it reads the number a text begins with.          *)
ParseFloat(c) ==
  CASE IsNumber(c) \/ IsComposite(c) -> c
    [] IsPadded(c) -> c - PaddedNumber(0)
    [] IsDate(c)   -> (c - 1000) \div 10
    [] OTHER       -> NaN

(* String(v ?? '').trim()                                                  *)
Trimmed(c) == IF c = Null THEN Blank ELSE c

UpperCase(c) == IF c \in 150..199 THEN c - 50 ELSE c

(* TransformUtils.apply; null is the result for what is blank.  A text,    *)
(* and a number of two digits, is no longer than the four characters that  *)
(* SPLIT takes off.  No rule splits a date or takes its dashes out.        *)
Apply(c, rule) ==
  CASE Trimmed(c) = Blank -> Null
    [] rule = "STRIP_LEADING_ZEROS" /\ IsPadded(c)  -> ParseFloat(c)
    [] rule = "STRIP_SPECIAL_CHARS" /\ HasBar(c)    -> c + 100
    [] rule = "DATE_TO_DATETIME" /\ HasTime(c)      -> c - 5
    [] rule = "SPLIT_FIRST" -> IF IsComposite(c) THEN c \div 10000 ELSE Blank
    [] rule = "SPLIT_SECOND" /\ IsComposite(c)      -> PaddedNumber(c % 10000)
    [] OTHER -> c

(* The old value of a match that may name a transform rule.                *)
Transformed(c, m) == IF "rule" \in DOMAIN m THEN Apply(c, m.rule) ELSE Trimmed(c)

(* TransformUtils.isEqual: '' is null, numbers agree within the tolerance, *)
(* anything else as text, whatever its case.                               *)
IsEqual(a, b, tolerance) ==
  LET absent == {Null, Blank}
  IN  IF a \in absent \/ b \in absent THEN a \in absent /\ b \in absent
      ELSE IF ParseFloat(a) # NaN /\ ParseFloat(b) # NaN
           THEN Distance(ParseFloat(a), ParseFloat(b)) <= tolerance
           ELSE UpperCase(a) = UpperCase(b)

(* reduce((a, b) => a + b, 0)                                              *)
Total(nums) == FoldLeft(LAMBDA x, y : x + y, 0, nums)

(* TransformUtils.evaluateFormula: what is no number counts as 0.          *)
EvaluateFormula(formula, cells) ==
  LET nums  == [i \in 1..Len(cells) |-> IF ParseFloat(cells[i]) = NaN THEN 0 ELSE ParseFloat(cells[i])]
      first == IF nums = <<>> THEN 0 ELSE nums[1]
  IN  CASE formula = "SUM"      -> Total(nums)
        [] formula = "SUBTRACT" -> IF nums = <<>> THEN 0 ELSE FoldLeft(LAMBDA x, y : x - y, first, Tail(nums))
        [] formula = "EXACT"    -> first

(* What stands between the bars of a text.                                 *)
Parts(c) == IF HasBar(c) THEN <<100 + ((c - 300) \div 10), 100 + (c % 10)>> ELSE <<c>>

(* The parts of a concatenation, joined without a separator; the parts     *)
(* that are there are the numbers 1 to 9.                                  *)
Join(cells) ==
  FoldLeft(LAMBDA acc, c : IF c = Blank THEN acc ELSE IF acc = Blank THEN c ELSE 10 * acc + c,
           Blank, [i \in 1..Len(cells) |-> Trimmed(cells[i])])

Values(rows, col) == {rows[i][col] : i \in 1..Len(rows)}
=============================================================================
