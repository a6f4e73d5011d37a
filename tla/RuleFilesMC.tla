---------------------------- MODULE RuleFilesMC ----------------------------
(* Two tables of one case, one of them without a list of DEF rules, and    *)
(* two preset versions.                                                    *)
EXTENDS RuleFiles, TLC

CONSTANTS j1, j2, p, d, t, u, rights

Asked(table, valis, defs) == [table |-> table, path |-> p, valis |-> valis, defs |-> defs]
MCSubmissions == {<<Asked(t, {}, All), Asked(u, {}, {d})>>}
MCSelections == {[name |-> "one", tables |-> {u}], [name |-> "other", tables |-> All]}
MCPresetFiles == <<<<rights, "yaml">>, <<rights, "yml">>>>
MCModules == {{rights}}
Case(name, tables) == [name |-> name, path |-> p, tables |-> tables]
MCCasesOf == <<<<Case("one", <<t, u>>)>>, <<Case("one", <<t>>), Case("other", <<u>>)>>>>

(* Everything there; or no affect codes, no DEF rule of the table's own and *)
(* no second preset file.                                                  *)
Second == <<"preset", rights, None, "yml">>
MCInitialFiles ==
  {[f \in Files |-> 1],
   [f \in Files |-> IF f[1] = "codes" \/ f = Second \/ (f[1] = "def" /\ f[2] = p) THEN Absent ELSE 1]}

(* Vali rules are read like def rules: of theirs one file changes.         *)
MCEdited ==
  {f \in Files : f[1] = "vali" => f = <<"vali", p, d, "yaml">>} \ {<<"def", Global, d, "yml">>, Second}

JobSymmetry == Permutations(Jobs)
=============================================================================
