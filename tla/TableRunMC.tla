----------------------------- MODULE TableRunMC -----------------------------
(* Small tables for every strategy and streaming mode, and what a migration *)
(* may have made of them.                                                  *)
EXTENDS TableRun

Row(id, grp, val) == [id |-> id, grp |-> grp, val |-> val]

(* Ids are 11, 12, ...; or two rows have the same one.                     *)
Table(grps, vals, ids) == [i \in 1..Len(grps) |-> Row(ids[i], grps[i], vals[i])]
Ascending == <<11, 12, 13, 14>>
Tied      == <<11, 12, 12, 13>>
Shuffled  == <<13, 11, 14, 12>>
Plain     == <<5, 6, 7, 8>>
Long      == <<50001, 60001, 70001, 80001>>
Tables(groups, lengths, vals, ids) ==
  {Table(g, vals, ids) : g \in UNION {[1..n -> groups] : n \in lengths}}

NoVal(table) == [i \in 1..Len(table) |-> [table[i] EXCEPT !.val = Null]]
Dropped(table) == {SelectSeq(table, LAMBDA r : r # table[i]) : i \in 1..Len(table)}
Changed(table) == {[table EXCEPT ![i].val = 9] : i \in 1..Len(table)}
Added(table)   == {Append(table, Row(15, g, 5)) : g \in {21, 23}}
Grown(table)   == {table \o SubSeq(<<Row(15, 21, 5), Row(16, 21, 5), Row(17, 21, 5)>>, 1, n) : n \in 1..3}
Edited(table)  == {table} \cup Dropped(table) \cup Changed(table) \cup Added(table)

Same(col)    == [old |-> col, new |-> col]
FromTwo(col) == [old |-> col, new |-> col, src |-> 2]

(* A group has as many rows as before.                                     *)
CountRule == [id |-> "DEF001", trigger |-> <<>>, actions |-> <<
   [check |-> "ROW_LEVEL_COHESION", trigger |-> <<>>,
    variables |-> [o |-> [fn |-> "COUNT", side |-> "old", col |-> "id", where |-> {}],
                   n |-> [fn |-> "COUNT", side |-> "new", col |-> "id", where |-> {}]],
    condition |-> [compare |-> <<[left |-> "o", op |-> "==", right |-> "n"]>>, word |-> ""]]>>]

RuleOf(sm) == [sm |-> sm, accounts |-> [none |-> TRUE], tolerance |-> 0, codes |-> {},
               fingerprint |-> <<"id", "val">>, grouped |-> TRUE, defs |-> {CountRule}]

Shortened == [old |-> "val", new |-> "val", rule |-> "SPLIT_FIRST"]

SumMatches == [NoMappings EXCEPT !.exact = {Same("id"), Same("grp")}, !.transformed = {Same("val")}]
KeyMatches == [NoMappings EXCEPT !.exact = {Same("id"), Same("grp")}]

MCRules ==
  [sums     |-> RuleOf(SumMatches),
   plain    |-> [RuleOf(SumMatches) EXCEPT !.defs = {}],
   two      |-> RuleOf([SumMatches EXCEPT !.transformed = {Same("val"), FromTwo("val")}]),
   exact    |-> RuleOf([KeyMatches EXCEPT !.exact = @ \cup {Same("val")}]),
   key      |-> RuleOf([NoMappings EXCEPT !.exact = {Same("id")}]),
   formula  |-> RuleOf([NoMappings EXCEPT !.formula = {[olds |-> <<"val">>, new |-> "val", formula |-> "SUM"]}]),
   account  |-> RuleOf([KeyMatches EXCEPT !.filtered = {[old |-> "val", new |-> "val", filter |-> [codes |-> {}, dc |-> Blank]]}]),
   accounts |-> [RuleOf(KeyMatches) EXCEPT !.accounts =
                   [rows |-> <<[from |-> 5, to |-> 6], [from |-> 6, to |-> 5], [from |-> 6, to |-> 7]>>]],
   pivot    |-> RuleOf([NoMappings EXCEPT !.pivot = {[key |-> 11, old |-> "val", new |-> "val"],
                                                     [key |-> 12, old |-> "val", new |-> "id"]}]),
   shorter  |-> RuleOf([KeyMatches EXCEPT !.transformed = {Shortened}]),
   short    |-> RuleOf([KeyMatches EXCEPT !.exact = @ \cup {Shortened}]),
   coded    |-> RuleOf([SumMatches EXCEPT !.filtered = {[old |-> "val", new |-> "val", filter |-> [codes |-> {100}, dc |-> Blank]]}]),
   lone     |-> [RuleOf(KeyMatches) EXCEPT !.grouped = FALSE],
   none     |-> RuleOf(NoMappings)]

Input(mode, sources, target, rule) ==
  [mode |-> mode, rule |-> rule, sources |-> sources, target |-> target,
   new |-> {"id", "grp", "val"}, fails |-> FALSE, keyless |-> {}]
Edits(mode, tables, rule) == {{Input(mode, <<t>>, n, rule) : n \in Edited(t)} : t \in tables}

Two == {21, 22}
Grouped == Tables(Two, 0..4, Plain, Ascending)
Holes == Tables({Null, Blank, 21}, 1..4, Plain, Ascending)
Ties  == Tables(Two, {4}, Plain, Tied)
Mixed == Tables(Two, {4}, Plain, Shuffled)

Threes == Tables({21, 22, 23}, {3}, Plain, Ascending)
Keyed == UNION {Edits(m, Grouped \cup Threes \cup Holes, "sums") : m \in {"TX-GP", "TX-SS", "MULTI-GP", "MULTI-SS"}}
Anchored == Edits("MULTI", Grouped \cup Mixed, "sums") \cup Edits("UNION", Grouped \cup Mixed, "exact")

(* Two rows with one anchor at the end of a chunk.                         *)
TiedInputs ==
  {{[i EXCEPT !.fails = f] : i \in e, f \in BOOLEAN} :
     e \in UNION {Edits(p[1], Ties, p[2]) : p \in {<<"MULTI", "sums">>, <<"UNION", "exact">>, <<"SPLIT", "exact">>,
                                             <<"MULTI-ROW", "sums">>, <<"TX-SS", "sums">>, <<"MULTI-SS", "sums">>}}}

(* The target has the values without their last four digits.               *)
Cut(t) == [i \in 1..Len(t) |-> [t[i] EXCEPT !.val = Apply(@, "SPLIT_FIRST")]]
Suffixed ==
  {{Input(p[1], <<t>>, n, p[2]) : n \in Edited(Cut(t)) \cup {t}} :
     p \in {<<"MASTER", "shorter">>, <<"MASTER", "short">>, <<"MULTI-ROW", "short">>, <<"MULTI-ROW", "shorter">>,
            <<"UNION", "shorter">>, <<"SPLIT", "short">>},
     t \in Tables(Two, {1, 3}, Long, Ascending)}

(* Two sources into one target; the second may lack the key column.        *)
Several ==
  {{[Input(m, <<t, t>>, n, "two") EXCEPT !.keyless = IF m = "MULTI-SS" THEN k ELSE {}] :
      m \in MultiModes \cup {"MULTI-ROW"}, n \in Edited(t), k \in {{}, {2}}} :
     t \in Tables(Two, {1, 3}, Plain, Ascending)}

(* val is the account; 5 and 6 change places, 7 has no mapping.            *)
Swapped(v) == CASE v = 5 -> 6 [] v = 6 -> 5 [] OTHER -> v
Moved(t) == [i \in 1..Len(t) |-> [t[i] EXCEPT !.val = Swapped(@)]]
AccountTables ==
  {Table(g, v, Ascending) : <<g, v>> \in
     ([1..2 -> Two] \X [1..2 -> {5, 6, 7, Blank}]) \cup ([1..3 -> Two] \X [1..3 -> {5, 6}])}
Accounts ==
  Edits("TX-CK", AccountTables, "account")
  \cup {{Input("TX-CK", <<t>>, n, "accounts") : n \in Edited(Moved(t))} : t \in AccountTables}

Masters ==
  {{[Input("MASTER", <<t>>, n, rule) EXCEPT !.fails = f] :
      n \in Edited(t) \cup Grown(t), rule \in {"sums", "key"}, f \in BOOLEAN} :
     t \in Tables(Two, 0..3, Plain, Ascending) \cup Tables({21}, {4}, Plain, Tied)
          \cup Tables({21}, {4}, Plain, Shuffled)}
  \cup {{Input("MASTER", <<t>>, t, "formula")} : t \in Tables({21}, {2}, Plain, Ascending)}

Splits == Edits("SPLIT", Tables(Two, 0..4, Plain, Ascending), "exact")

(* One wide row of each identity: val and id are the values of the pivots. *)
Wide(t) ==
  [k \in 1..Cardinality(Keys(t)) |->
     LET g == CHOOSE x \in Keys(t) : Cardinality({y \in Keys(t) : y < x}) = k - 1
         of(key) == LET r == SelectSeq(t, LAMBDA x : KeyOf(x) = g /\ x.id = key)
                    IN  IF r = <<>> THEN Null ELSE r[1].val
     IN  Row(of(12), g, of(11))]
Headers ==
  {{Input("HEADER", <<t>>, n, "pivot") : n \in Edited(Wide(t))} \cup {Input("HEADER", <<t>>, <<>>, "none")} :
     t \in Tables({Blank, 21, 22}, 1..4, Plain, Ascending)}

(* The target has lost the column val.                                     *)
Narrow ==
  {{[Input(m, <<t>>, NoVal(t), rule) EXCEPT !.new = {"id", "grp"}] :
      m \in {"TX-GP", "MULTI", "UNION", "MASTER", "SPLIT", "MULTI-ROW"}, rule \in {"sums", "exact"}} :
     t \in Tables(Two, {2}, Plain, Ascending)}

MCInputs == Keyed \cup Anchored \cup Several \cup Accounts \cup Masters \cup Splits \cup Headers \cup Narrow
            \cup TiedInputs \cup Suffixed
            \cup Edits("MULTI-ROW", Grouped \cup Mixed, "sums") \cup Edits("TX-SS", Mixed, "sums")
            \cup Edits("TX-GP", Threes, "coded") \cup Edits("UNION", Threes, "lone")

(* Tables that were copied without a change, some with rows of a blank     *)
(* group and accounts without a mapping.                                   *)
CleanInputs ==
  {{Input(m, <<t>>, t, "plain") : m \in {"TX-GP", "MASTER"}} : t \in Tables(Two, 0..4, Plain, Ascending)}
  \cup {{Input(m, <<t>>, t, "plain") : m \in {"TX-SS", "MULTI", "UNION"}} :
          t \in Tables({Blank, 21}, {2, 3}, Plain, Ascending)}
  \cup {{Input("TX-CK", <<t>>, Moved(t), "accounts")} : t \in Tables(Two, {2, 3}, Plain, Ascending)}
=============================================================================
