----------------------------- MODULE Transforms -----------------------------
(***************************************************************************)
(* The similarity of two names in transform.utils.ts.  A name is a         *)
(* sequence of characters, compared whatever its case.                     *)
(***************************************************************************)
EXTENDS Integers, Sequences, SequencesExt, FiniteSetsExt, Functions

LevenshteinMutant(a, b) ==
  LET turn(prev, i) ==
        LET curr[j \in 0..Len(b)] ==
              IF j = 0 THEN 0
              ELSE IF a[i] = b[j] THEN prev[j - 1]
              ELSE 1 + Min({prev[j], curr[j - 1], prev[j - 1]})
        IN  curr
      Row[i \in 0..Len(a)] == IF i = 0 THEN [j \in 0..Len(b) |-> j] ELSE turn(Row[i - 1], i)
  IN  Row[Len(a)][Len(b)]

(* levenshtein: one row of the table after the other, from the last row.   *)
Levenshtein(a, b) ==
  LET turn(prev, i) ==
        LET curr[j \in 0..Len(b)] ==
              IF j = 0 THEN i
              ELSE IF a[i] = b[j] THEN prev[j - 1]
              ELSE 1 + Min({prev[j], curr[j - 1], prev[j - 1]})
        IN  curr
      Row[i \in 0..Len(a)] == IF i = 0 THEN [j \in 0..Len(b) |-> j] ELSE turn(Row[i - 1], i)
  IN  Row[Len(a)][Len(b)]

(* stringSimilarity, in per cent.                                          *)
StringSimilarity(a, b) ==
  LET longer == IF Len(a) < Len(b) THEN Len(b) ELSE Len(a)
  IN  IF a = b THEN 100 ELSE (100 * (longer - Levenshtein(a, b))) \div longer
=============================================================================
