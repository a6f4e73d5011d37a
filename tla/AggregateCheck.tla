--------------------------- MODULE AggregateCheck ---------------------------
(***************************************************************************)
(* runAggregateSumCheck of validation.service.ts: the sum of an amount per *)
(* affect code, old against new, independent of the rows compared.         *)
(*                                                                         *)
(* A table is [cols, rows].  amounts is the sequence of the transformed    *)
(* and then the exact matches whose two columns have "amount" in their     *)
(* names; grouped and skip are the rule's transaction_grouping and         *)
(* skip_aggregate_sum_check.                                               *)
(***************************************************************************)
EXTENDS SchemaCheck

Variants == <<"affectcode", "affect_code", "afcode", "affcode", "affect_cd">>

(* A query on a column that a table does not have rejects.                 *)
Rejects(table, amount, code) == ~({amount, code} \subseteq table.cols)

(* The first variant that a query of the first source accepts, else the    *)
(* first of all.                                                           *)
AffectColumn(source, amount) ==
  LET good == {i \in 1..Len(Variants) : ~Rejects(source, amount, Variants[i])}
  IN  Variants[IF good = {} THEN 1 ELSE Min(good)]

SumOf(sums, code) == IF code \in DOMAIN sums THEN sums[code] ELSE 0

TotalsMutant(sources, amount, code) == SumByGroup(sources[1].rows, amount, code)

(* oldSumsAgg: code -> sum over all the sources.                           *)
Totals(sources, amount, code) ==
  LET sums == [i \in 1..Len(sources) |-> SumByGroup(sources[i].rows, amount, code)]
  IN  [c \in UNION {DOMAIN sums[i] : i \in 1..Len(sums)} |->
         Total([i \in 1..Len(sums) |-> SumOf(sums[i], c)])]

(* runAggregateSumCheck: the codes reported.  A code of the new table      *)
(* only is not looked at; a query that rejects ends the check in silence.  *)
AggregateErrors(sources, target, amounts, grouped, skip, tolerance) ==
  IF amounts = <<>> \/ ~grouped \/ skip THEN {}
  ELSE LET m    == amounts[1]
           code == AffectColumn(sources[1], m.old)
           old  == Totals(sources, m.old, code)
           new  == SumByGroup(target.rows, m.new, code)
       IN  IF Rejects(target, m.new, code) \/ \E i \in 1..Len(sources) : Rejects(sources[i], m.old, code)
           THEN {}
           ELSE {c \in DOMAIN old : Distance(old[c], SumOf(new, c)) > tolerance}
=============================================================================
