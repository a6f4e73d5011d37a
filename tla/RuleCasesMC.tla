---------------------------- MODULE RuleCasesMC ----------------------------
(* Small cases of every kind.                                              *)
EXTENDS RuleCases

(* 100 is a code, 150 the same in lower case, 301 two texts and a bar      *)
(* between them, 1201 and 1202 two days of one year, 1300 a day of another.*)
Line(code, dc, val, amount) == [affectcode |-> code, debitcredit |-> dc, val |-> val, amount |-> amount]
OldLines == {Line(100, 8, 3, 5), Line(150, 9, 3, 1), Line(Null, 8, 110, 5), Line(101, 9, Blank, Null), Line(100, 9, 1201, 2), Line(100, 9, 301, 2)}
NewLines == {Line(100, 8, 3, 5), Line(100, 9, Null, 1), Line(101, 9, 110, 5), Line(300, 9, 101, 2)}
MCOld == UNION {[1..n -> OldLines] : n \in 1..3}
MCNew == (UNION {[1..n -> NewLines] : n \in 0..2}) \cup {<<l, Line(150, 9, 3, 1), Line(100, 8, 3, 5)>> : l \in OldLines}

MCMatches ==
  {[NoMappings EXCEPT
      !.exact       = {[old |-> "affectcode", new |-> "affectcode"], [old |-> "val", new |-> "val"]},
      !.transformed = {[old |-> "amount", new |-> "amount", rule |-> "NONE"],
                        [old |-> "val", new |-> "val", rule |-> "STRIP_SPECIAL_CHARS"]},
      !.concat      = {[olds |-> <<"debitcredit", "amount">>, new |-> "val"]}],
   [NoMappings EXCEPT
      !.split    = {[old |-> "amount", news |-> <<"amount", "debitcredit">>, formula |-> "SUBTRACT"]},
      !.formula  = {[olds |-> <<"amount", "debitcredit">>, new |-> "amount", formula |-> "SUM"]},
      !.filtered = {[old |-> "amount", new |-> "amount", skipIfEmpty |-> TRUE,
                     filter |-> [codes |-> {100}, dc |-> Blank], newFilter |-> [codes |-> {}, dc |-> 8]]},
      !.subset   = {[old |-> "val", new |-> "val"]}]}

Expr(fn, side, where) == [fn |-> fn, side |-> side, col |-> "amount", where |-> where]
Compared(l, op, r) == [left |-> l, op |-> op, right |-> r]
MCDefs ==
  {[id |-> "DEF001", trigger |-> [any |-> {100}], actions |-> <<
     [check |-> "ROW_LEVEL_COHESION", trigger |-> <<>>,
      variables |-> [a |-> Expr("SUM", "old", {<<"affectcode", 100>>}), b |-> Expr("SUM", "new", {}), c |-> Expr("MIN", "old", {})],
      condition |-> [compare |-> <<Compared("a", "==", "b"), Compared("b", ">", "c")>>, word |-> "&&"]],
     [check |-> "FIELD_VALUE_CHECK", trigger |-> [all |-> {100, 101}], newCol |-> "val", fail |-> {110},
      oldCol |-> "val", skip |-> 110]>>],
   [id |-> "DEF002", trigger |-> [notStarts |-> {3}], actions |-> <<
     [check |-> "ROW_LEVEL_COHESION", trigger |-> <<>>,
      variables |-> [a |-> Expr("COUNT", "old", {}), b |-> Expr("COUNT", "new", {})],
      condition |-> [compare |-> <<Compared("a", "!=", "b"), Compared("a", ">", "b")>>, word |-> "OR"]],
     [check |-> "FIELD_VALUE_CHECK", trigger |-> <<>>, newCol |-> "val"]>>]}
MCCodes == {100, 101}

-----------------------------------------------------------------------------
MCLetters == {"x", "y"}
MCWords == {[a |-> a, b |-> b] : a \in UNION {[1..n -> MCLetters] : n \in 0..3}, b \in UNION {[1..n -> MCLetters] : n \in 0..4}}

(* Two columns: numbers, dates, texts, switches and nothing at all.        *)
Samples == {<<3, 14, 15>>, <<1201, 1202, 1301>>, <<1206, 1206, 1307>>, <<110, 111, 110>>, <<112, 113, Null>>,
            <<0, 1, 1>>, <<Null, Null, Null>>, <<Blank, 110, 201>>}
SampleOf(x, y) == [cols |-> <<"x", "y">>, rows |-> [i \in 1..3 |-> [x |-> x[i], y |-> y[i]]]]
MCSamples ==
  {[old |-> SampleOf(x, y), new |-> SampleOf(v, w)] : <<x, y, v, w>> \in Samples \X Samples \X Samples \X Samples}

Payment(code, amount) == [affectcode |-> code, amount |-> amount]
Payments == {Payment(c, a) : c \in {100, 101}, a \in {1, 2, 5}}
TableOf(rows) == [cols |-> {"affectcode", "amount"}, rows |-> rows]
MCSums ==
  UNION {{[sources |-> <<TableOf(<<p, q>>), TableOf(<<r>>)>>, target |-> TableOf(<<r, q, p>>), lost |-> <<>>],
          [sources |-> <<TableOf(<<p, q>>), TableOf(<<r>>)>>, target |-> TableOf(<<r, q>>), lost |-> <<p>>],
          [sources |-> <<TableOf(<<p, q>>), TableOf(<<r>>)>>, target |-> TableOf(<<q, p>>), lost |-> <<r>>]} :
         <<p, q, r>> \in Payments \X Payments \X Payments}

=============================================================================
