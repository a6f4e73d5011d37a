---------------------------- MODULE SchemaCheck ----------------------------
(***************************************************************************)
(* What BaseStrategy finds out about two tables before it reads them:      *)
(* columns that are missing, columns that no mapping covers, columns whose *)
(* values say nothing, and whether the anchor key is unique.               *)
(***************************************************************************)
EXTENDS GroupRules

(* The columns of a match.  A pivot match has its value column as old.     *)
OldEnds(m) == IF "olds" \in DOMAIN m THEN Range(m.olds) ELSE {m.old}
NewEnds(m) == IF "news" \in DOMAIN m THEN Range(m.news) ELSE {m.new}

MatchesOf(sm, kinds) == UNION {sm[k] : k \in kinds}
OldCols(sm, kinds) == UNION {OldEnds(m) : m \in MatchesOf(sm, kinds)}
NewCols(sm, kinds) == UNION {NewEnds(m) : m \in MatchesOf(sm, kinds)}

Basic == {"exact", "split", "transformed", "concat", "formula"}

(* The columns that the filter of a filtered sum reads, and those of them  *)
(* that are missing.                                                       *)
FilterCols(m) ==
  (IF m.filter.codes # {} THEN {"affectcode"} ELSE {}) \cup (IF m.filter.dc # Blank THEN {"debitcredit"} ELSE {})

MissingFilterCols(sm, source) == (UNION {FilterCols(m) : m \in sm.filtered}) \ source

(* checkMissingColumns of the matches of these kinds.                      *)
MissingColumns(sm, kinds, source, target) ==
  [old |-> OldCols(sm, kinds) \ source, new |-> NewCols(sm, kinds) \ target]

(* filterMappingsAfterSchemaCheck                                          *)
FilterMappings(sm, missing) ==
  [k \in DOMAIN sm |-> {m \in sm[k] : OldEnds(m) \cap missing.old = {} /\ NewEnds(m) \cap missing.new = {}}]

(* reportUnmappedColumns: every mapping but the subset matches covers.     *)
UnmappedColumns(sm, source, target) ==
  LET kinds == Basic \cup {"filtered", "pivot"}
  IN  [old |-> source \ OldCols(sm, kinds), new |-> target \ NewCols(sm, kinds)]

UnmappedErrors(sm, source, target) ==
  LET u == UnmappedColumns(sm, source, target)
  IN  {<<"DATA_MISSING", side>> : side \in {s \in {"old", "new"} : u[s] # {}}}

(* getColumnNames: a table of another database is looked up in the schema  *)
(* its name gives, dbo when it gives none; catalog: a set of [db, schema,  *)
(* table, cols].                                                           *)
ColumnNames(ref, catalog) ==
  LET schema == IF "schema" \in DOMAIN ref THEN ref.schema ELSE "dbo"
  IN  UNION {t.cols : t \in {e \in catalog : e.table = ref.table /\ e.db = ref.db /\ e.schema = schema}}

(* detectNoisyColumns, one column: three queries, each for one value that  *)
(* is an exception; a query that fails leaves the column NORMAL.           *)
NoisyType(values, fails) ==
  LET present == Range(values) \ {Null}
  IN  CASE fails -> "NORMAL"
        [] ~fails /\ present = {} -> "NULL"
        [] ~fails /\ present # {} /\ present \subseteq {0, Blank} -> "ZERO"
        [] ~fails /\ ~(present \subseteq {0, Blank}) /\ present \subseteq {0, 1} -> "BOOLEAN"
        [] OTHER -> "NORMAL"

Column(table, col) == [i \in 1..Len(table) |-> table[i][col]]
IsNoisyType(type) == type \in {"NULL", "ZERO", "BOOLEAN"}
NoisyColumns(table, cols, fails) == {c \in cols : IsNoisyType(NoisyType(Column(table, c), fails))}

(* findFallbackMappings: for each uncovered old column the first of the    *)
(* most similar uncovered new columns, from 90 per cent on.  A new column  *)
(* may be the match of several old ones.  similarity[a, b] is that of two  *)
(* names, in per cent.                                                     *)
FallbackMappings(oldCols, newCols, mappedOld, mappedNew, similarity) ==
  LET free == SelectSeq(newCols, LAMBDA c : c \notin mappedNew)
      best(o) == CHOOSE i \in 1..Len(free) : \A j \in 1..Len(free) :
                   /\ similarity[o, free[j]] <= similarity[o, free[i]]
                   /\ j < i => similarity[o, free[j]] < similarity[o, free[i]]
  IN  {[old |-> o, new |-> free[best(o)]] :
         o \in {c \in Range(oldCols) \ mappedOld : free # <<>> /\ similarity[c, free[best(c)]] >= 90}}

AnchorReportedMutant(table, col, fails) == FALSE

(* checkAnchorKeyUnique reports a duplicate; when its query fails it says  *)
(* nothing.  GROUP BY makes one group of the NULLs.                        *)
AnchorReported(table, col, fails) ==
  ~fails /\ \E i, j \in 1..Len(table) : i # j /\ table[i][col] = table[j][col]
=============================================================================
