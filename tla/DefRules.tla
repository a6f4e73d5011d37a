------------------------------ MODULE DefRules ------------------------------
(***************************************************************************)
(* The DEF rules of BaseStrategy: when a rule applies to a transaction     *)
(* group, and what its actions say of it.                                  *)
(*                                                                         *)
(* A field that a rule file leaves out is absent from the record: a        *)
(* trigger has some of the fields all, any and notStarts; a                *)
(* FIELD_VALUE_CHECK has some of newCol, oldCol, skip and fail.  An        *)
(* expression is [fn, side, col, where], where is a set of <<column,       *)
(* value>>; a condition is a sequence of comparisons and the word between  *)
(* them.                                                                   *)
(***************************************************************************)
EXTENDS GroupRules

Raised == NaN       \* an expression that throws

AffectColumns == {"affectcode", "affect_code", "afcode"}

(* extractAffectCodes: the column is looked for in the first row; a table  *)
(* has at most one of them.                                                *)
ExtractAffectCodes(rows, codes) ==
  LET cols == IF rows = <<>> THEN {} ELSE AffectColumns \cap DOMAIN rows[1]
  IN  {UpperCase(c[1][c[2]]) : c \in Range(rows) \X cols} \cap codes

(* A group key is a number; 12 starts with 1.                              *)
StartsWith(key, prefix) == key = prefix \/ key \div 10 = prefix

(* The trigger condition of a rule or of an action.                        *)
Applies(trigger, key, old, codes) ==
  LET present == ExtractAffectCodes(old, codes)
  IN  /\ "all" \in DOMAIN trigger => trigger.all \subseteq present
      /\ "any" \in DOMAIN trigger => trigger.any \cap present # {}
      /\ "notStarts" \in DOMAIN trigger => ~\E p \in trigger.notStarts : StartsWith(key, p)

NumberOrZero(c) == IF ParseFloat(c) = NaN THEN 0 ELSE ParseFloat(c)

(* evaluateExpression: a filter is only understood in a sum of old rows.   *)
EvaluateExpression(e, old, new) ==
  LET rows    == IF e.side = "old" THEN old ELSE new
      hit     == SelectSeq(rows, LAMBDA r :
                   \A w \in e.where : UpperCase(Trimmed(r[w[1]])) = UpperCase(w[2]))
      numbers == [i \in 1..Len(hit) |-> NumberOrZero(hit[i][e.col])]
  IN  IF e.where # {} /\ (e.fn # "SUM" \/ e.side # "old") THEN Raised
      ELSE CASE e.fn = "SUM"   -> Total(numbers)
             [] e.fn = "COUNT" -> Len(rows)
             [] e.fn = "MIN"   -> IF numbers = <<>> THEN 0 ELSE Min(Range(numbers))
             [] OTHER          -> Raised

(* JavaScript: a truth value is the number 1 or 0 in arithmetic; && and || *)
(* return one of their operands.                                           *)
Truth(b) == IF b THEN 1 ELSE 0
JsJoin(word, values) ==
  FoldLeft(LAMBDA a, b : IF (word = "&&") = (a = 0) THEN a ELSE b, Head(values), Tail(values))
JsCompare(c, vars) ==
  LET l == vars[c.left] r == vars[c.right]
  IN  Truth(CASE c.op = "==" -> l = r [] c.op = "!=" -> l # r [] c.op = ">" -> l > r)

(* evaluateCondition: the text is cut at its first ==, and each side is    *)
(* evaluated on its own; the words of SQL are no JavaScript.               *)
EvaluateCondition(cond, vars, tolerance) ==
  LET n   == Len(cond.compare)
      val == [i \in 1..n |-> JsCompare(cond.compare[i], vars)]
      eqs == {i \in 1..n : cond.compare[i].op = "=="}
      cut == Min(eqs)
      lhs == JsJoin(cond.word, Append(SubSeq(val, 1, cut - 1), vars[cond.compare[cut].left]))
      rhs == JsJoin(cond.word, <<vars[cond.compare[cut].right]>> \o SubSeq(val, cut + 1, n))
  IN  IF n > 1 /\ cond.word \in {"AND", "OR"} THEN "raised"
      ELSE IF eqs = {} THEN IF JsJoin(cond.word, val) # 0 THEN "met" ELSE "unmet"
      ELSE IF Distance(lhs, rhs) <= tolerance THEN "met" ELSE "unmet"

(* ROW_LEVEL_COHESION: the first expression that throws ends the action.   *)
Cohesion(action, old, new, tolerance) ==
  LET vars == [v \in DOMAIN action.variables |-> EvaluateExpression(action.variables[v], old, new)]
      verdict == EvaluateCondition(action.condition, vars, tolerance)
  IN  IF Raised \in Range(vars) \/ verdict = "raised" THEN {"TRANSFORM_ERROR"}
      ELSE IF verdict = "unmet" THEN {"DEFECT_VIOLATION"} ELSE {}

(* The column of a per-rule report that a violation carries: an expression *)
(* over the rows, or one over the variables, or null.                      *)
ResolveReportField(field, vars, old, new) ==
  IF "fn" \in DOMAIN field /\ EvaluateExpression(field, old, new) # Raised
  THEN EvaluateExpression(field, old, new)
  ELSE IF "sum" \in DOMAIN field /\ Range(field.sum) \subseteq DOMAIN vars
       THEN Total([i \in 1..Len(field.sum) |-> vars[field.sum[i]]])
       ELSE Null

(* FIELD_VALUE_CHECK: each old row with the value to skip permits one bad  *)
(* new row.  fail is the set of values its pattern matches.                *)
FieldValueCheck(action, old, new) ==
  LET count(rows, Hit(_)) == Len(SelectSeq(rows, Hit))
      permitted == IF {"oldCol", "skip"} \subseteq DOMAIN action
                   THEN count(old, LAMBDA r : UpperCase(Trimmed(r[action.oldCol])) = UpperCase(action.skip))
                   ELSE 0
      bad == count(new, LAMBDA r : Trimmed(r[action.newCol]) \in action.fail)
  IN  IF ~({"newCol", "fail"} \subseteq DOMAIN action) THEN {"TRANSFORM_ERROR"}
      ELSE IF bad > permitted THEN {"DEFECT_VIOLATION"} ELSE {}

(* runDefRules: <<rule, action, kind of error>>.                           *)
RunDefRules(key, old, new, defs, codes, tolerance) ==
  LET applies(x)    == Applies(x.trigger, key, old, codes)
      check(action) ==
        CASE action.check = "ROW_LEVEL_COHESION" -> Cohesion(action, old, new, tolerance)
          [] action.check = "FIELD_VALUE_CHECK"  -> FieldValueCheck(action, old, new)
          [] OTHER -> {}
      run(d)        == {i \in 1..Len(d.actions) : applies(d.actions[i])}
  IN  UNION {UNION {{<<d.id, i, e>> : e \in check(d.actions[i])} : i \in run(d)} :
             d \in {x \in defs : applies(x)}}
=============================================================================
