--------------------------- MODULE TableRunProofs ---------------------------
(***************************************************************************)
(* The scans of the strategies, for all tables and all sizes of pages and  *)
(* chunks: what a page holds, and what the pages hold together.  First the *)
(* reverse scan of the Master strategy, which reports just the keys that   *)
(* only the target has (ExtrasFound); then, for the scans of the sources,  *)
(* that each group and row is compared once, whole (ComparedOnce), and     *)
(* that each row read is counted as passed or failed (SkippedExplained).   *)
(***************************************************************************)
EXTENDS TableRun, SetLemmas, SequenceTheorems

-----------------------------------------------------------------------------
(* Pages of an ordered set.                                                *)

(* before[x] are the elements that precede x in a strict total order.      *)
Ordered(before) ==
  LET S == DOMAIN before
  IN  /\ \A x, y \in S : x # y => x \in before[y] \/ y \in before[x]
      /\ \A x \in S : x \notin before[x] /\ \A y \in before[x] : y \in S
      /\ \A x, y \in S : x \in before[y] => \A z \in before[x] : z \in before[y]

Rank(before, x) == Cardinality(before[x])

LEMMA RankOrders ==
  ASSUME NEW before, Ordered(before), IsFiniteSet(DOMAIN before),
         NEW x \in DOMAIN before, NEW y \in DOMAIN before
  PROVE  /\ Rank(before, x) \in Nat
         /\ x \in before[y] <=> Rank(before, x) < Rank(before, y)
         /\ Rank(before, x) = Rank(before, y) => x = y
<1> DEFINE S == DOMAIN before
<1>1. ASSUME NEW z \in S PROVE IsFiniteSet(before[z]) /\ Rank(before, z) \in Nat
  <2>1. before[z] \subseteq S
    BY DEF Ordered
  <2>2. IsFiniteSet(before[z])
    BY <2>1, FS_Subset
  <2> QED BY <2>2, FS_CardinalityType DEF Rank
<1>2. ASSUME NEW a \in S, NEW b \in S, a \in before[b] PROVE Rank(before, a) < Rank(before, b)
  <2>1. before[a] \subseteq before[b] /\ a \notin before[a]
    BY <1>2 DEF Ordered
  <2>2. before[a] # before[b]
    BY <1>2, <2>1
  <2>3. IsFiniteSet(before[b])
    BY <1>1
  <2>4. Cardinality(before[a]) <= Cardinality(before[b])
        /\ (Cardinality(before[b]) = Cardinality(before[a]) => before[b] = before[a])
    BY <2>1, <2>3, FS_Subset
  <2> QED BY <1>1, <2>2, <2>4 DEF Rank
<1>3. x \in before[y] \/ y \in before[x] \/ x = y
  BY DEF Ordered
<1>4. x \notin before[x]
  BY DEF Ordered
<1>5. Rank(before, x) \in Nat /\ Rank(before, y) \in Nat
  BY <1>1
<1>6. x \in before[y] => Rank(before, x) < Rank(before, y)
  BY <1>2
<1>7. y \in before[x] => Rank(before, y) < Rank(before, x)
  BY <1>2
<1> QED BY <1>3, <1>4, <1>5, <1>6, <1>7

(* There is an element of every rank.                                      *)
LEMMA RankOnto ==
  ASSUME NEW before, Ordered(before), IsFiniteSet(DOMAIN before)
  PROVE  /\ \A x \in DOMAIN before : Rank(before, x) \in 0..(Cardinality(DOMAIN before) - 1)
         /\ \A i \in 0..(Cardinality(DOMAIN before) - 1) : \E x \in DOMAIN before : Rank(before, x) = i
<1> DEFINE S == DOMAIN before
           n == Cardinality(S)
           T == 0..(n - 1)
           r == [x \in S |-> Rank(before, x)]
<1>1. n \in Nat
  BY FS_CardinalityType
<1>2. ASSUME NEW x \in S PROVE Rank(before, x) \in T
  <2>1. before[x] \subseteq S /\ x \notin before[x]
    BY DEF Ordered
  <2>2. before[x] # S
    BY <2>1
  <2>3. /\ Cardinality(before[x]) <= Cardinality(S)
        /\ (Cardinality(S) = Cardinality(before[x]) => S = before[x])
    BY <2>1, FS_Subset
  <2>4. Rank(before, x) \in Nat
    BY RankOrders
  <2> QED BY <1>1, <2>2, <2>3, <2>4 DEF Rank
<1>3. IsFiniteSet(T) /\ Cardinality(T) = n
  <2> HIDE DEF n
  <2>1. 0 \in Int /\ n - 1 \in Int
    BY <1>1
  <2>2. IsFiniteSet(T) /\ Cardinality(T) = IF 0 > n - 1 THEN 0 ELSE n - 1 - 0 + 1
    BY <2>1, FS_Interval
  <2> QED BY <1>1, <2>2
<1>4. r \in Injection(S, T)
  <2>1. r \in [S -> T]
    BY <1>2
  <2>2. ASSUME NEW x \in S, NEW y \in S, r[x] = r[y] PROVE x = y
    BY <2>2, RankOrders
  <2> HIDE DEF r, T, S
  <2> QED BY <2>1, <2>2 DEF Injection, IsInjective
<1>5. r \in Surjection(S, T)
  <2> HIDE DEF r, T, S
  <2>1. Cardinality(S) = Cardinality(T)
    BY <1>3 DEF n
  <2> QED BY <1>3, <1>4, <2>1, FS_Injection
<1>6. \A i \in T : \E x \in S : r[x] = i
  <2> HIDE DEF r, T, S
  <2> QED BY <1>5 DEF Surjection
<1> QED BY <1>2, <1>6

Lesser(m, n) == IF m <= n THEN m ELSE n

(* A page has the elements of the lowest ranks in their order.             *)
LEMMA PageHolds ==
  ASSUME NEW before, Ordered(before), IsFiniteSet(DOMAIN before), NEW n \in Nat
  PROVE  LET p == Page(before, n)
             l == Lesser(n, Cardinality(DOMAIN before))
         IN  /\ l \in Nat /\ Len(p) = l /\ DOMAIN p = 1..l
             /\ \A i \in 1..l : p[i] \in DOMAIN before
             /\ \A i, j \in 1..l : i < j => p[i] \in before[p[j]]
             /\ \A x \in DOMAIN before : (\E i \in 1..l : p[i] = x) \/ (l = n /\ \A i \in 1..l : p[i] \in before[x])
<1> DEFINE S == DOMAIN before
           c == Cardinality(S)
           l == Lesser(n, c)
           p == Page(before, n)
<1>1. c \in Nat
  BY FS_CardinalityType
<1>2. Min({n, c}) = l /\ l \in Nat
  <2>1. {n, c} \subseteq Nat /\ {n, c} # {}
    BY <1>1
  <2>2. Min({n, c}) \in {n, c} /\ \A y \in {n, c} : Min({n, c}) <= y
    BY <2>1, MinIsSmallest
  <2> HIDE DEF c
  <2> QED BY <1>1, <2>2 DEF Lesser
<1>3. p = [i \in 1..l |-> CHOOSE x \in S : Rank(before, x) = i - 1]
  BY <1>2 DEF Page, Rank
<1>4. ASSUME NEW i \in 1..l PROVE p[i] \in S /\ Rank(before, p[i]) = i - 1
  <2>1. i - 1 \in 0..(c - 1)
    <3> HIDE DEF c
    <3> QED BY <1>1, <1>2 DEF Lesser
  <2>2. \E x \in S : Rank(before, x) = i - 1
    BY <2>1, RankOnto
  <2>3. p[i] = CHOOSE x \in S : Rank(before, x) = i - 1
    BY <1>3
  <2> QED BY <2>2, <2>3
<1>5. Len(p) = l /\ DOMAIN p = 1..l
  <2> HIDE DEF l, p
  <2> QED BY <1>2, <1>3
<1>6. ASSUME NEW i \in 1..l, NEW j \in 1..l, i < j PROVE p[i] \in before[p[j]]
  <2>1. Rank(before, p[i]) < Rank(before, p[j])
    BY <1>2, <1>4, <1>6
  <2> QED BY <1>4, <2>1, RankOrders
<1>7. ASSUME NEW x \in S PROVE (\E i \in 1..l : p[i] = x) \/ (l = n /\ \A i \in 1..l : p[i] \in before[x])
  <2>1. Rank(before, x) \in 0..(c - 1)
    BY RankOnto
  <2>2. CASE Rank(before, x) < l
    <3>1. Rank(before, x) + 1 \in 1..l
      BY <1>2, <2>1, <2>2
    <3>2. PICK i \in 1..l : i = Rank(before, x) + 1
      BY <3>1
    <3>3. Rank(before, p[i]) = Rank(before, x) /\ p[i] \in S
      BY <1>4, <2>1, <3>2
    <3>4. p[i] = x
      BY <3>3, RankOrders
    <3> QED BY <3>4
  <2>3. CASE ~(Rank(before, x) < l)
    <3>1. l = n
      <4> HIDE DEF c
      <4> QED BY <1>1, <2>1, <2>3 DEF Lesser
    <3>2. ASSUME NEW i \in 1..l PROVE p[i] \in before[x]
      <4>1. Rank(before, p[i]) < Rank(before, x)
        BY <1>2, <1>4, <2>1, <2>3
      <4> QED BY <1>4, <4>1, RankOrders
    <3> QED BY <3>1, <3>2
  <2> QED BY <2>2, <2>3
<1> HIDE DEF p, l, S
<1>8. /\ l \in Nat /\ Len(p) = l /\ DOMAIN p = 1..l
      /\ \A i \in 1..l : p[i] \in S
      /\ \A i, j \in 1..l : i < j => p[i] \in before[p[j]]
      /\ \A x \in S : (\E i \in 1..l : p[i] = x) \/ (l = n /\ \A i \in 1..l : p[i] \in before[x])
  BY <1>2, <1>4, <1>5, <1>6, <1>7
<1> QED BY <1>8 DEF p, l, S

-----------------------------------------------------------------------------
(* fetchChunkKeys.                                                         *)

(* The keys of a page ascend, and a key beyond the cursor is among them or *)
(* above them all; in the latter case the page is full.                    *)
LEMMA KeyPage ==
  ASSUME NEW t, Len(t) \in Nat, \A i \in 1..Len(t) : t[i].id \in Int, Unique(t, {"id"}),
         NEW last \in Int, NEW n \in Nat
  PROVE  LET keys == FetchChunkKeys(t, "id", n, last)
             l    == Len(keys)
         IN  /\ l \in Nat /\ l <= n
             /\ \A i \in 1..l : keys[i] \in Int /\ keys[i] > last /\ \E j \in 1..Len(t) : t[j].id = keys[i]
             /\ \A i, j \in 1..l : i < j => keys[i] < keys[j]
             /\ \A j \in 1..Len(t) : t[j].id > last =>
                  (\E i \in 1..l : keys[i] = t[j].id) \/ (l = n /\ \A i \in 1..l : keys[i] < t[j].id)
<1> DEFINE beyond == {i \in 1..Len(t) : t[i]["id"] > last}
           Less(i, j) == t[i]["id"] < t[j]["id"] \/ (t[i]["id"] = t[j]["id"] /\ i < j)
           before == [j \in beyond |-> {i \in beyond : Less(i, j)}]
           p == Page(before, n)
           chunk == RowsAt(t, p)
           keys == FetchChunkKeys(t, "id", n, last)
           l == Lesser(n, Cardinality(beyond))
<1>1. \A i \in beyond : i \in 1..Len(t) /\ t[i].id \in Int /\ t[i].id > last
  OBVIOUS
<1>2. \A i, j \in beyond : i # j => t[i].id # t[j].id
  BY DEF Unique
<1>3. DOMAIN before = beyond
  OBVIOUS
<1>4. \A i, j \in beyond : i \in before[j] <=> t[i].id < t[j].id
  BY <1>1, <1>2
<1>5. \A j \in beyond : \A i \in before[j] : i \in beyond
  OBVIOUS
<1>6. IsFiniteSet(beyond)
  <2>1. IsFiniteSet(1..Len(t))
    BY FS_Interval
  <2>2. beyond \subseteq 1..Len(t)
    OBVIOUS
  <2> HIDE DEF beyond
  <2> QED BY <2>1, <2>2, FS_Subset
<1>7. chunk = FetchChunk(t, "id", n, last)
  BY DEF FetchChunk
<1> HIDE DEF beyond, before
<1>8. Ordered(before)
  BY <1>1, <1>2, <1>3, <1>4, <1>5 DEF Ordered
<1>9. /\ l \in Nat /\ Len(p) = l /\ DOMAIN p = 1..l
      /\ \A i \in 1..l : p[i] \in beyond
      /\ \A i, j \in 1..l : i < j => p[i] \in before[p[j]]
      /\ \A x \in beyond : (\E i \in 1..l : p[i] = x) \/ (l = n /\ \A i \in 1..l : p[i] \in before[x])
  BY <1>3, <1>6, <1>8, PageHolds
<1>10. l <= n
  <2>1. Cardinality(beyond) \in Nat
    BY <1>6, FS_CardinalityType
  <2> QED BY <2>1 DEF Lesser
<1> HIDE DEF p, l
<1>11. Len(chunk) = l /\ \A i \in 1..l : chunk[i] = t[p[i]]
  BY <1>9 DEF RowsAt
<1>12. Len(keys) = l /\ \A i \in 1..l : keys[i] = t[p[i]].id
  <2>1. keys = [i \in 1..Len(chunk) |-> chunk[i]["id"]]
    BY <1>7 DEF FetchChunkKeys
  <2> HIDE DEF keys, chunk
  <2> QED BY <1>9, <1>11, <2>1
<1> HIDE DEF keys
<1>13. \A i \in 1..l : keys[i] \in Int /\ keys[i] > last /\ \E j \in 1..Len(t) : t[j].id = keys[i]
  BY <1>1, <1>9, <1>12
<1>14. \A i, j \in 1..l : i < j => keys[i] < keys[j]
  BY <1>4, <1>9, <1>12
<1>15. ASSUME NEW j \in 1..Len(t), t[j].id > last
       PROVE  (\E i \in 1..l : keys[i] = t[j].id) \/ (l = n /\ \A i \in 1..l : keys[i] < t[j].id)
  <2>1. j \in beyond
    BY <1>15 DEF beyond
  <2> QED BY <1>4, <1>9, <1>12, <2>1
<1> QED BY <1>9, <1>10, <1>12, <1>13, <1>14, <1>15 DEF keys

-----------------------------------------------------------------------------
(* The invariant.                                                          *)

Special == {<<"extra row">>, <<"capped">>}

Only == (Ids(Target) \ Ids(Source)) \ {Blank}
Reported == {e.key : e \in {x \in errors : x.what = <<"extra row">>}}
CapError == Err("ROW_MISSING", <<"capped">>, Null)
Capped == CapError \in errors

(* Up to the cursor all is reported, and that is not too much.             *)
FoundSoFar ==
  /\ cursor \in Int /\ cursor >= Null
  /\ Reported = {k \in Only : k <= cursor}
  /\ extra = Cardinality(Reported) /\ extra <= ExtraRowCap
  /\ ~Capped

FoundAll ==
  /\ Reported \subseteq Only
  /\ Capped <=> Cardinality(Only) > ExtraRowCap
  /\ IF Capped THEN Cardinality(Reported) = ExtraRowCap ELSE Reported = Only

MasterInv ==
  /\ \E some \in Inputs : input \in some
  /\ InMode({"MASTER"}) =>
       /\ phase \in {"begin", "scan", "reverse", "done", "rejected"}
       /\ phase = "begin" => rowsChecked = 0
       /\ phase \in {"begin", "scan"} => extra = 0 /\ \A e \in errors : e.what \notin Special
       /\ Unique(Target, {"id"}) =>
            /\ phase = "reverse" => FoundSoFar
            /\ phase = "done" /\ rowsChecked > 0 => FoundAll

LEMMA TargetRows ==
  ASSUME \E some \in Inputs : input \in some
  PROVE  /\ Len(Target) \in Nat
         /\ \A i \in 1..Len(Target) : Target[i].id \in Int /\ Target[i].id >= Null
         /\ Ids(Target) = {IdOf(Target[i]) : i \in 1..Len(Target)}
         /\ IsFiniteSet(Only)
<1>1. Target \in Seq(Range(Target)) /\ \A row \in Range(Target) : row.id \in Int /\ row.id >= Null
  BY InputAssumption DEF Target, IsTable
<1>2. Len(Target) \in Nat /\ DOMAIN Target = 1..Len(Target)
  BY <1>1, LenProperties
<1>3. \A i \in 1..Len(Target) : Target[i] \in Range(Target)
  BY <1>2 DEF Range
<1>4. Ids(Target) = {IdOf(Target[i]) : i \in 1..Len(Target)}
  BY <1>2 DEF Ids, Range
<1>5. IsFiniteSet(Only)
  <2> DEFINE f == [i \in 1..Len(Target) |-> IdOf(Target[i])]
  <2>1. IsFiniteSet(1..Len(Target))
    BY <1>2, FS_Interval
  <2>2. f = [i \in 1..Len(Target) |-> f[i]]
    OBVIOUS
  <2>3. IsFiniteSet({f[i] : i \in 1..Len(Target)})
    <3> HIDE DEF f
    <3> QED BY <2>1, <2>2, FiniteValues
  <2>4. Only \subseteq {f[i] : i \in 1..Len(Target)}
    BY <1>4 DEF Only
  <2> HIDE DEF f
  <2> QED BY <2>3, <2>4, FS_Subset
<1> QED BY <1>1, <1>2, <1>3, <1>4, <1>5

(* A key of the target that is not blank is an id of one of its rows.      *)
LEMMA OnlyKeys ==
  ASSUME \E some \in Inputs : input \in some, NEW k
  PROVE  k \in Only <=> /\ k \in Int /\ k > Blank /\ k \notin Ids(Source)
                        /\ \E i \in 1..Len(Target) : Target[i].id = k
<1>1. Blank = -1 /\ Null = -2
  BY DEF Blank, Null
<1>2. \A i \in 1..Len(Target) :
        /\ Target[i].id \in Int /\ Target[i].id >= Null
        /\ IdOf(Target[i]) = IF Target[i].id = Null THEN Blank ELSE Target[i].id
  BY TargetRows DEF IdOf, Trimmed
<1>3. k \in Only <=> k # Blank /\ k \notin Ids(Source) /\ \E i \in 1..Len(Target) : IdOf(Target[i]) = k
  BY TargetRows DEF Only
<1> QED BY <1>1, <1>2, <1>3

-----------------------------------------------------------------------------
(* One turn of the reverse scan.                                           *)

Extras(keys) == {i \in 1..Len(keys) : Trimmed(keys[i]) \notin {Blank} \cup Ids(Source)}
KeysAt(keys, set) == {keys[i] : i \in set}

LEMMA InOrderOrdered ==
  ASSUME NEW n \in Nat, NEW set, \A i \in set : i \in 1..n
  PROVE  Ordered(InOrder(set)) /\ DOMAIN InOrder(set) = set /\ IsFiniteSet(set)
<1>1. \A i \in set : i \in Nat
  OBVIOUS
<1>2. DOMAIN InOrder(set) = set /\ \A i, j \in set : j \in InOrder(set)[i] <=> j < i
  BY DEF InOrder
<1>3. \A i \in set : \A j \in InOrder(set)[i] : j \in set
  BY DEF InOrder
<1>4. IsFiniteSet(1..n)
  BY FS_Interval
<1>5. set \subseteq 1..n
  OBVIOUS
<1>6. IsFiniteSet(set)
  BY <1>4, <1>5, FS_Subset
<1>7. Ordered(InOrder(set))
  BY <1>1, <1>2, <1>3 DEF Ordered
<1> QED BY <1>2, <1>6, <1>7

(* The first room elements of a set of numbers: that many, or all of them. *)
LEMMA FirstOf ==
  ASSUME NEW n \in Nat, NEW set, \A i \in set : i \in 1..n, NEW room \in Nat
  PROVE  LET first == Page(InOrder(set), room)
         IN  /\ Len(first) = Lesser(room, Cardinality(set))
             /\ IsFiniteSet(Range(first)) /\ Cardinality(Range(first)) = Len(first)
             /\ \A i \in Range(first) : i \in set
             /\ Cardinality(set) <= room => Range(first) = set
<1> DEFINE first == Page(InOrder(set), room)
           l == Lesser(room, Cardinality(set))
<1>1. Ordered(InOrder(set)) /\ DOMAIN InOrder(set) = set /\ IsFiniteSet(set)
  BY InOrderOrdered
<1>2. /\ l \in Nat /\ Len(first) = l /\ DOMAIN first = 1..l
      /\ \A i \in 1..l : first[i] \in set
      /\ \A i, j \in 1..l : i < j => first[i] \in InOrder(set)[first[j]]
  BY <1>1, PageHolds
<1> HIDE DEF first
<1>3. \A i, j \in 1..l : i < j => first[i] < first[j]
  BY <1>2 DEF InOrder
<1>4. \A i, j \in 1..l : first[i] = first[j] => i = j
  <2>1. \A i \in 1..l : first[i] \in Nat
    BY <1>2
  <2> QED BY <1>2, <1>3, <2>1
<1> HIDE DEF l
<1>5. Range(first) = {first[i] : i \in 1..l}
  BY <1>2 DEF Range
<1>6. IsFiniteSet(Range(first)) /\ Cardinality(Range(first)) = l
  <2> DEFINE D == 1..l
             f == [i \in D |-> first[i]]
  <2>1. IsFiniteSet(D) /\ Cardinality(D) = l
    <3>1. 1 \in Int /\ l \in Int
      BY <1>2
    <3>2. IsFiniteSet(1..l) /\ Cardinality(1..l) = IF 1 > l THEN 0 ELSE l - 1 + 1
      BY <3>1, FS_Interval
    <3> QED BY <1>2, <3>2
  <2>2. f = [i \in D |-> f[i]] /\ \A i, j \in D : f[i] = f[j] => i = j
    BY <1>4
  <2>3. {f[i] : i \in D} = Range(first)
    BY <1>5
  <2> HIDE DEF D, f
  <2>4. IsFiniteSet({f[i] : i \in D}) /\ Cardinality({f[i] : i \in D}) = Cardinality(D)
    BY <2>1, <2>2, FiniteValues
  <2> QED BY <2>1, <2>3, <2>4
<1>7. \A i \in Range(first) : i \in set
  BY <1>2, <1>5
<1>8. ASSUME Cardinality(set) <= room PROVE Range(first) = set
  <2>1. l = Cardinality(set)
    <3>1. Cardinality(set) \in Nat
      BY <1>1, FS_CardinalityType
    <3> QED BY <1>8, <3>1 DEF l, Lesser
  <2>2. Range(first) \subseteq set
    BY <1>7
  <2> QED BY <1>1, <1>6, <2>1, <2>2, FS_Subset
<1>9. /\ Len(first) = l
      /\ IsFiniteSet(Range(first)) /\ Cardinality(Range(first)) = Len(first)
      /\ \A i \in Range(first) : i \in set
      /\ Cardinality(set) <= room => Range(first) = set
  BY <1>2, <1>6, <1>7, <1>8
<1> QED BY <1>9 DEF first, l

ExtraError(k) == Err("ROW_MISSING", <<"extra row">>, k)

LEMMA ErrorFields ==
  /\ \A k : ExtraError(k).what = <<"extra row">> /\ ExtraError(k).key = k
  /\ CapError.what = <<"capped">>
BY DEF ExtraError, CapError, Err

(* What a turn does to the errors.                                         *)
LEMMA ReverseErrors ==
  ASSUME ReverseTurn
  PROVE  LET keys   == ReverseKeys
             extras == Extras(keys)
             room   == ExtraRowCap - extra
             stored == Page(InOrder(extras), room)
             hitCap == Cardinality(extras) > room
         IN  /\ phase = "reverse" /\ keys # <<>>
             /\ extra' = extra + Len(stored) + (IF hitCap THEN 1 ELSE 0)
             /\ Reported' = Reported \cup KeysAt(keys, Range(stored))
             /\ Capped' <=> Capped \/ hitCap
             /\ hitCap \/ Len(keys) < ChunkSize => phase' = "done"
             /\ ~(hitCap \/ Len(keys) < ChunkSize) => phase' = "reverse" /\ cursor' = keys[Len(keys)]
             /\ UNCHANGED <<input, src, rowsChecked>>
<1> DEFINE keys   == ReverseKeys
           extras == Extras(keys)
           room   == ExtraRowCap - extra
           stored == Page(InOrder(extras), room)
           hitCap == Cardinality(extras) > room
           new    == {ExtraError(keys[i]) : i \in Range(stored)}
<1>1. /\ phase = "reverse" /\ keys # <<>>
      /\ extra' = extra + Len(stored) + Truth(hitCap)
      /\ errors' = errors \cup new \cup IF hitCap THEN {CapError} ELSE {}
      /\ hitCap \/ Len(keys) < ChunkSize => phase' = "done"
      /\ ~(hitCap \/ Len(keys) < ChunkSize) => phase' = phase /\ cursor' = keys[Len(keys)]
      /\ UNCHANGED <<input, src, rowsChecked>>
  BY DEF ReverseTurn, Extras, InOrder, CapError, ExtraError, counts
<1>2. <<"extra row">> # <<"capped">>
  OBVIOUS
<1>3. CapError.what = <<"capped">>
  BY ErrorFields
<1> HIDE DEF stored, hitCap, keys
<1>4. \A e \in new : \E i \in Range(stored) : e = ExtraError(keys[i])
  OBVIOUS
<1>5. /\ \A e \in new : e.what = <<"extra row">>
      /\ {e.key : e \in new} = KeysAt(keys, Range(stored))
  <2>1. \A e \in new : e.what = <<"extra row">>
    BY <1>4, ErrorFields
  <2>2. \A e \in new : e.key \in KeysAt(keys, Range(stored))
    BY <1>4, ErrorFields DEF KeysAt
  <2>3. ASSUME NEW i \in Range(stored) PROVE \E e \in new : e.key = keys[i]
    <3>1. ExtraError(keys[i]) \in new
      OBVIOUS
    <3>2. ExtraError(keys[i]).key = keys[i]
      BY ErrorFields
    <3> QED BY <3>1, <3>2
  <2> HIDE DEF new
  <2> QED BY <2>1, <2>2, <2>3 DEF KeysAt
<1> HIDE DEF new
<1>6. Capped' <=> Capped \/ hitCap
  <2>1. CapError \notin new
    BY <1>2, <1>3, <1>5
  <2> QED BY <1>1, <2>1 DEF Capped
<1>7. Reported' = Reported \cup {e.key : e \in new}
  <2>1. ASSUME NEW e PROVE e \in {x \in errors' : x.what = <<"extra row">>} <=>
                             e \in {x \in errors : x.what = <<"extra row">>} \/ e \in new
    BY <1>1, <1>2, <1>3, <1>5
  <2>2. {x \in errors' : x.what = <<"extra row">>} = {x \in errors : x.what = <<"extra row">>} \cup new
    BY <2>1
  <2> QED BY <2>2 DEF Reported
<1>8. Truth(hitCap) = IF hitCap THEN 1 ELSE 0
  BY DEF Truth
<1>9. /\ phase = "reverse" /\ keys # <<>>
      /\ extra' = extra + Len(stored) + (IF hitCap THEN 1 ELSE 0)
      /\ Reported' = Reported \cup KeysAt(keys, Range(stored))
      /\ Capped' <=> Capped \/ hitCap
      /\ hitCap \/ Len(keys) < ChunkSize => phase' = "done"
      /\ ~(hitCap \/ Len(keys) < ChunkSize) => phase' = "reverse" /\ cursor' = keys[Len(keys)]
      /\ UNCHANGED <<input, src, rowsChecked>>
  BY <1>1, <1>5, <1>6, <1>7, <1>8
<1> QED BY <1>9 DEF stored, hitCap, keys

(* The keys of a page that only the target has: they lie beyond the cursor *)
(* and differ, and those of a page that is not full are the last ones.     *)
LEMMA PageExtras ==
  ASSUME \E some \in Inputs : input \in some, Unique(Target, {"id"}), cursor \in Int, cursor >= Null
  PROVE  LET keys == ReverseKeys
             l    == Len(keys)
         IN  /\ l \in Nat /\ l <= ChunkSize
             /\ \A i \in 1..l : keys[i] \in Int /\ keys[i] > cursor
             /\ \A i, j \in 1..l : i < j => keys[i] < keys[j]
             /\ \A i \in Extras(keys) : i \in 1..l /\ keys[i] \in Only
             /\ \A k \in Only : k > cursor =>
                  k \in KeysAt(keys, Extras(keys)) \/ (l = ChunkSize /\ \A i \in 1..l : keys[i] < k)
<1> DEFINE keys == ReverseKeys
           l    == Len(keys)
<1>1. ChunkSize \in Nat
  BY SizeAssumption
<1>2. Len(Target) \in Nat /\ \A i \in 1..Len(Target) : Target[i].id \in Int
  BY TargetRows
<1>3. /\ l \in Nat /\ l <= ChunkSize
      /\ \A i \in 1..l : keys[i] \in Int /\ keys[i] > cursor /\ \E j \in 1..Len(Target) : Target[j].id = keys[i]
      /\ \A i, j \in 1..l : i < j => keys[i] < keys[j]
      /\ \A j \in 1..Len(Target) : Target[j].id > cursor =>
           (\E i \in 1..l : keys[i] = Target[j].id) \/ (l = ChunkSize /\ \A i \in 1..l : keys[i] < Target[j].id)
  BY <1>1, <1>2, KeyPage DEF ReverseKeys
<1> HIDE DEF keys
<1>4. Blank = -1 /\ Null = -2
  BY DEF Blank, Null
<1>5. \A i \in 1..l : Trimmed(keys[i]) = keys[i]
  BY <1>3, <1>4 DEF Trimmed
<1>6. \A i \in Extras(keys) : i \in 1..l /\ keys[i] # Blank /\ keys[i] \notin Ids(Source)
  BY <1>5 DEF Extras
<1>7. ASSUME NEW i \in Extras(keys) PROVE keys[i] \in Only
  <2>1. i \in 1..l /\ keys[i] # Blank /\ keys[i] \notin Ids(Source)
    BY <1>6
  <2>2. keys[i] \in Int /\ keys[i] > cursor /\ \E j \in 1..Len(Target) : Target[j].id = keys[i]
    BY <1>3, <2>1
  <2>3. keys[i] > Blank
    BY <1>4, <2>1, <2>2
  <2> QED BY <2>1, <2>2, <2>3, OnlyKeys
<1>8. ASSUME NEW k \in Only, k > cursor
      PROVE  k \in KeysAt(keys, Extras(keys)) \/ (l = ChunkSize /\ \A i \in 1..l : keys[i] < k)
  <2>1. k # Blank /\ k \notin Ids(Source) /\ \E j \in 1..Len(Target) : Target[j].id = k
    BY OnlyKeys, <1>4
  <2>2. (\E i \in 1..l : keys[i] = k) \/ (l = ChunkSize /\ \A i \in 1..l : keys[i] < k)
    BY <1>3, <1>8, <2>1
  <2>3. ASSUME NEW i \in 1..l, keys[i] = k PROVE k \in KeysAt(keys, Extras(keys))
    <3>1. i \in Extras(keys)
      BY <1>5, <2>1, <2>3 DEF Extras
    <3> QED BY <2>3, <3>1 DEF KeysAt
  <2> QED BY <2>2, <2>3
<1> QED BY <1>3, <1>6, <1>7, <1>8 DEF keys

(* As many keys as positions.                                              *)
LEMMA KeysCount ==
  ASSUME NEW keys, NEW l \in Nat, \A i \in 1..l : keys[i] \in Int,
         \A i, j \in 1..l : i < j => keys[i] < keys[j],
         NEW set, IsFiniteSet(set), \A i \in set : i \in 1..l
  PROVE  IsFiniteSet(KeysAt(keys, set)) /\ Cardinality(KeysAt(keys, set)) = Cardinality(set)
<1> DEFINE f == [i \in set |-> keys[i]]
<1>1. \A i, j \in set : keys[i] = keys[j] => i = j
  <2>1. \A i, j \in set : i \in 1..l /\ j \in 1..l /\ (i < j \/ j < i \/ i = j)
    OBVIOUS
  <2> QED BY <2>1
<1>2. f = [i \in set |-> f[i]] /\ \A i, j \in set : f[i] = f[j] => i = j
  BY <1>1
<1>3. {f[i] : i \in set} = KeysAt(keys, set)
  BY DEF KeysAt
<1> HIDE DEF f
<1>4. IsFiniteSet({f[i] : i \in set}) /\ Cardinality({f[i] : i \in set}) = Cardinality(set)
  BY <1>2, FiniteValues
<1> QED BY <1>3, <1>4

LEMMA ReverseTurnInv ==
  ASSUME \E some \in Inputs : input \in some, Unique(Target, {"id"}), FoundSoFar, ReverseTurn
  PROVE  /\ phase' = "reverse" => FoundSoFar'
         /\ phase' = "done" => FoundAll'
         /\ phase' \in {"reverse", "done"}
<1> DEFINE keys   == ReverseKeys
           l      == Len(keys)
           extras == Extras(keys)
           room   == ExtraRowCap - extra
           stored == Page(InOrder(extras), room)
           hitCap == Cardinality(extras) > room
           first  == Range(stored)
           fresh  == KeysAt(keys, first)
           all    == KeysAt(keys, extras)
<1>1. /\ keys # <<>>
      /\ extra' = extra + Len(stored) + (IF hitCap THEN 1 ELSE 0)
      /\ Reported' = Reported \cup fresh
      /\ Capped' <=> Capped \/ hitCap
      /\ hitCap \/ l < ChunkSize => phase' = "done"
      /\ ~(hitCap \/ l < ChunkSize) => phase' = "reverse" /\ cursor' = keys[l]
      /\ UNCHANGED <<input, src, rowsChecked>>
  BY ReverseErrors
<1>2. /\ cursor \in Int /\ cursor >= Null
      /\ Reported = {k \in Only : k <= cursor}
      /\ extra = Cardinality(Reported) /\ extra <= ExtraRowCap
      /\ ~Capped
  BY DEF FoundSoFar
<1>3. /\ l \in Nat /\ l <= ChunkSize
      /\ \A i \in 1..l : keys[i] \in Int /\ keys[i] > cursor
      /\ \A i, j \in 1..l : i < j => keys[i] < keys[j]
      /\ \A i \in extras : i \in 1..l /\ keys[i] \in Only
      /\ \A k \in Only : k > cursor => k \in all \/ (l = ChunkSize /\ \A i \in 1..l : keys[i] < k)
  BY <1>2, PageExtras
<1>4. keys # <<>> => l > 0
  <2>1. keys = [i \in 1..Len(FetchChunk(Target, "id", ChunkSize, cursor)) |-> FetchChunk(Target, "id", ChunkSize, cursor)[i]["id"]]
    BY DEF ReverseKeys, FetchChunkKeys
  <2>2. \A i \in {} : FALSE
    OBVIOUS
  <2> DEFINE n == Len(FetchChunk(Target, "id", ChunkSize, cursor))
  <2> QED OBVIOUS
<1>5. Only' = Only
  BY <1>1 DEF Only, Ids, Target, Source
<1> HIDE DEF keys, extras, room, stored, hitCap, first, fresh, all, l
<1>6. /\ IsFiniteSet(Reported) /\ IsFiniteSet(Only)
      /\ extra \in Nat /\ room \in Nat /\ room = ExtraRowCap - extra
  <2>1. ExtraRowCap \in Nat
    BY SizeAssumption
  <2>2. IsFiniteSet(Only) /\ Reported \subseteq Only
    BY <1>2, TargetRows
  <2>3. IsFiniteSet(Reported)
    BY <2>2, FS_Subset
  <2>4. Cardinality(Reported) \in Nat
    BY <2>3, FS_CardinalityType
  <2> QED BY <1>2, <2>1, <2>2, <2>3, <2>4 DEF room
<1>7. \A i \in extras : i \in 1..l
  BY <1>3
<1>8. /\ Len(stored) = Lesser(room, Cardinality(extras))
      /\ IsFiniteSet(first) /\ Cardinality(first) = Len(stored)
      /\ \A i \in first : i \in extras
      /\ Cardinality(extras) <= room => first = extras
  BY <1>3, <1>6, <1>7, FirstOf DEF stored, first
<1>9. IsFiniteSet(extras)
  BY <1>3, <1>7, InOrderOrdered
<1>10. IsFiniteSet(all) /\ Cardinality(all) = Cardinality(extras)
  BY <1>3, <1>7, <1>9, KeysCount DEF all
<1>11. IsFiniteSet(fresh) /\ Cardinality(fresh) = Len(stored)
  <2>1. \A i \in first : i \in 1..l
    BY <1>7, <1>8
  <2> QED BY <1>3, <1>8, <2>1, KeysCount DEF fresh
<1>12. \A k \in all : k \in Only /\ k > cursor
  BY <1>3 DEF all, KeysAt
<1>13. \A k \in fresh : k \in all
  BY <1>8 DEF fresh, all, KeysAt
<1>14. Reported \cap all = {} /\ Reported \cap fresh = {}
  <2>1. \A k \in Reported : k \in Int /\ k <= cursor
    BY <1>2, OnlyKeys
  <2>2. \A k \in all : k \in Int
    BY <1>12, OnlyKeys
  <2> QED BY <1>2, <1>12, <1>13, <2>1, <2>2
<1>15. /\ IsFiniteSet(Reported') /\ Cardinality(Reported') = extra + Len(stored)
       /\ Cardinality(Reported \cup all) = extra + Cardinality(extras)
  <2>1. IsFiniteSet(Reported \cup fresh) /\ Cardinality(Reported \cup fresh) = Cardinality(Reported) + Cardinality(fresh)
    BY <1>6, <1>11, <1>14, DisjointUnion
  <2>2. Cardinality(Reported \cup all) = Cardinality(Reported) + Cardinality(all)
    BY <1>6, <1>10, <1>14, DisjointUnion
  <2>3. extra = Cardinality(Reported) /\ Reported' = Reported \cup fresh
    BY <1>1, <1>2
  <2> QED BY <1>10, <1>11, <2>1, <2>2, <2>3
<1>16. \A k \in Reported' : k \in Only
  BY <1>1, <1>2, <1>12, <1>13
<1>17. Cardinality(extras) \in Nat
  BY <1>9, FS_CardinalityType
<1>18. CASE hitCap
  <2>1. Cardinality(extras) > room /\ phase' = "done" /\ Capped'
    BY <1>1, <1>18 DEF hitCap
  <2>2. Len(stored) = room
    BY <1>6, <1>8, <1>17, <2>1 DEF Lesser
  <2>3. ExtraRowCap \in Nat
    BY SizeAssumption
  <2>4. Cardinality(Reported') = ExtraRowCap
    BY <1>6, <1>15, <2>2, <2>3
  <2>5. Cardinality(Only) > ExtraRowCap
    <3>1. Reported \cup all \subseteq Only
      BY <1>2, <1>12
    <3>2. Cardinality(Reported \cup all) <= Cardinality(Only) /\ Cardinality(Only) \in Nat
      BY <1>6, <3>1, FS_Subset, FS_CardinalityType
    <3> QED BY <1>6, <1>15, <1>17, <2>1, <2>3, <3>2
  <2> QED BY <1>5, <1>16, <2>1, <2>4, <2>5 DEF FoundAll
<1>19. CASE ~hitCap
  <2>1. Cardinality(extras) <= room /\ ~Capped'
    BY <1>1, <1>2, <1>6, <1>17, <1>19 DEF hitCap
  <2>2. first = extras /\ fresh = all /\ Len(stored) = Cardinality(extras)
    BY <1>6, <1>8, <1>17, <2>1 DEF fresh, all, Lesser
  <2>3. extra' = Cardinality(Reported') /\ extra' <= ExtraRowCap
    <3>1. ExtraRowCap \in Nat
      BY SizeAssumption
    <3>2. extra' = extra + Cardinality(extras)
      BY <1>1, <1>6, <1>17, <1>19, <2>2
    <3> QED BY <1>6, <1>15, <1>17, <2>1, <2>2, <3>1, <3>2
  <2>4. CASE l < ChunkSize
    <3>1. \A k \in Only : k \in Reported'
      <4>1. \A k \in Only : k \in Int
        BY OnlyKeys
      <4>2. ChunkSize \in Nat
        BY SizeAssumption
      <4> QED BY <1>1, <1>2, <1>3, <2>2, <2>4, <4>1, <4>2
    <3>2. Reported' = Only
      BY <1>16, <3>1
    <3>3. phase' = "done"
      BY <1>1, <2>4
    <3>4. ExtraRowCap \in Nat /\ Cardinality(Only) \in Nat
      BY <1>6, FS_CardinalityType, SizeAssumption
    <3>5. ~(Cardinality(Only) > ExtraRowCap)
      BY <2>3, <3>2, <3>4
    <3> QED BY <1>5, <2>1, <3>2, <3>3, <3>5 DEF FoundAll
  <2>5. CASE ~(l < ChunkSize)
    <3>1. phase' = "reverse" /\ cursor' = keys[l] /\ l > 0
      BY <1>1, <1>4, <1>19, <2>5 DEF l
    <3>2. keys[l] \in Int /\ keys[l] > cursor /\ \A i \in 1..l : keys[i] <= keys[l]
      <4>1. l \in 1..l
        BY <1>3, <3>1
      <4>2. \A i \in 1..l : i < l \/ i = l
        BY <1>3
      <4> QED BY <1>3, <4>1, <4>2
    <3>3. \A k \in Only : k \in Int
      BY OnlyKeys
    <3>4. \A k \in all : k <= keys[l]
      BY <1>7, <3>2 DEF all, KeysAt
    <3>5. ASSUME NEW k \in Only PROVE k \in Reported' <=> k <= keys[l]
      <4>1. CASE k <= cursor
        BY <1>1, <1>2, <3>2, <3>3, <4>1
      <4>2. CASE k > cursor
        <5>1. k \in Reported' <=> k \in all
          BY <1>1, <1>2, <2>2, <3>3, <4>2
        <5>2. k \in all \/ \A i \in 1..l : keys[i] < k
          BY <1>3, <4>2
        <5>3. l \in 1..l
          BY <1>3, <3>1
        <5> QED BY <3>2, <3>3, <3>4, <5>1, <5>2, <5>3
      <4> QED BY <1>2, <3>3, <4>1, <4>2
    <3>6. Reported' = {k \in Only : k <= keys[l]}
      BY <1>16, <3>5
    <3>7. cursor' \in Int /\ cursor' >= Null
      BY <1>2, <3>1, <3>2 DEF Null
    <3>8. Reported' = {k \in Only' : k <= cursor'}
      BY <1>5, <3>1, <3>6
    <3> QED BY <2>1, <2>3, <3>1, <3>7, <3>8 DEF FoundSoFar
  <2> QED BY <2>4, <2>5
<1> QED BY <1>18, <1>19

(* The reverse scan ends when there is no further page.                    *)
LEMMA ReverseEndInv ==
  ASSUME \E some \in Inputs : input \in some, Unique(Target, {"id"}), FoundSoFar, ReverseEnd
  PROVE  phase' = "done" /\ FoundAll'
<1>1. /\ ReverseKeys = <<>> /\ phase' = "done"
      /\ UNCHANGED <<input, src, errors>>
  BY DEF ReverseEnd, page
<1>2. Len(ReverseKeys) = 0 /\ ChunkSize \in Nat \ {0} /\ ExtraRowCap \in Nat
  BY <1>1, SizeAssumption
<1>3. Extras(ReverseKeys) = {}
  BY <1>2 DEF Extras
<1>4. KeysAt(ReverseKeys, Extras(ReverseKeys)) = {}
  BY <1>3 DEF KeysAt
<1>5. cursor \in Int /\ cursor >= Null
  BY DEF FoundSoFar
<1>6. \A k \in Only : ~(k > cursor)
  <2>1. \A k \in Only : k > cursor => Len(ReverseKeys) = ChunkSize
    BY <1>4, <1>5, PageExtras
  <2> QED BY <1>2, <2>1
<1>7. \A k \in Only : k \in Int
  BY OnlyKeys
<1>8. Reported = Only
  BY <1>5, <1>6, <1>7 DEF FoundSoFar
<1>9. Cardinality(Only) \in Nat
  BY TargetRows, FS_CardinalityType
<1>10. FoundAll
  <2>1. ~Capped
    BY DEF FoundSoFar
  <2>2. ~(Cardinality(Only) > ExtraRowCap)
    <3>1. extra = Cardinality(Reported) /\ extra <= ExtraRowCap
      BY DEF FoundSoFar
    <3> QED BY <1>2, <1>8, <1>9, <3>1
  <2> QED BY <1>8, <2>1, <2>2 DEF FoundAll
<1>11. Only' = Only /\ Reported' = Reported /\ Capped' = Capped
  BY <1>1 DEF Only, Ids, Target, Source, Reported, Capped
<1> QED BY <1>1, <1>10, <1>11 DEF FoundAll
-----------------------------------------------------------------------------
(* Before the reverse scan no error looks like one of its own.             *)

Plain(found) == \A e \in found : e.what \notin Special

LEMMA PlainErr ==
  ASSUME NEW e, NEW type, NEW what, NEW key, e = Err(type, what, key),
         what # <<"extra row">>, what # <<"capped">>
  PROVE  e.what \notin Special
BY DEF Err, Special

LEMMA OtherWhat ==
  /\ \A w : w # "extra row" /\ w # "capped" => <<w>> # <<"extra row">> /\ <<w>> # <<"capped">>
  /\ \A v, w : <<v, w>> # <<"extra row">> /\ <<v, w>> # <<"capped">>
  /\ \A u, v, w : <<u, v, w>> # <<"extra row">> /\ <<u, v, w>> # <<"capped">>
<1>1. \A w : w # "extra row" /\ w # "capped" => <<w>> # <<"extra row">> /\ <<w>> # <<"capped">>
  OBVIOUS
<1>2. \A v, w : <<v, w>> # <<"extra row">> /\ <<v, w>> # <<"capped">>
  OBVIOUS
<1>3. \A u, v, w : <<u, v, w>> # <<"extra row">> /\ <<u, v, w>> # <<"capped">>
  OBVIOUS
<1> QED BY <1>1, <1>2, <1>3

LEMMA PlainOne ==
  ASSUME NEW type, NEW w, NEW key, w # "extra row", w # "capped"
  PROVE  Plain({Err(type, <<w>>, key)})
<1>1. <<w>> # <<"extra row">> /\ <<w>> # <<"capped">>
  BY OtherWhat
<1>2. Err(type, <<w>>, key).what \notin Special
  BY <1>1, PlainErr
<1> QED BY <1>2 DEF Plain

LEMMA PlainSchema ==
  ASSUME NEW kinds
  PROVE  Plain(SchemaErrors(kinds))
<1> DEFINE missing == MissingColumns(Rule.sm, kinds, OldColumns, input.new)
           un      == UnmappedErrors(Mappings(kinds), OldColumns, input.new)
<1>1. ASSUME NEW e \in ColumnErrors(missing) PROVE e.what \notin Special
  <2> HIDE DEF missing
  <2>1. PICK v, w : e = Err("COLUMN_MISSING", <<v, w>>, Null)
    BY DEF ColumnErrors
  <2>2. <<v, w>> # <<"extra row">> /\ <<v, w>> # <<"capped">>
    BY OtherWhat
  <2> QED BY <2>1, <2>2, PlainErr
<1>2. \A x \in un : x[2] = "old" \/ x[2] = "new"
  BY DEF UnmappedErrors
<1> HIDE DEF un
<1>3. ASSUME NEW x \in un PROVE Err(x[1], <<x[2]>>, Null).what \notin Special
  <2>1. x[2] # "extra row" /\ x[2] # "capped"
    BY <1>2
  <2>2. <<x[2]>> # <<"extra row">> /\ <<x[2]>> # <<"capped">>
    BY <2>1, OtherWhat
  <2> QED BY <2>2, PlainErr
<1>4. ASSUME NEW e \in FilterErrors PROVE e.what \notin Special
  <2>1. PICK v, w : e = Err("COLUMN_MISSING", <<v, w>>, Null)
    <3> DEFINE gone == [old |-> MissingFilterCols(Rule.sm, OldColumns), new |-> {}]
    <3>1. e \in ColumnErrors(gone)
      BY DEF FilterErrors
    <3> HIDE DEF gone
    <3> QED BY <3>1 DEF ColumnErrors
  <2>2. <<v, w>> # <<"extra row">> /\ <<v, w>> # <<"capped">>
    BY OtherWhat
  <2> QED BY <2>1, <2>2, PlainErr
<1>5. \A e \in SchemaErrors(kinds) :
        \/ e \in ColumnErrors(missing)
        \/ e \in FilterErrors
        \/ \E x \in un : e = Err(x[1], <<x[2]>>, Null)
  BY DEF SchemaErrors, un
<1> HIDE DEF missing
<1> QED BY <1>1, <1>3, <1>4, <1>5 DEF Plain

LEMMA PlainAnchor ==
  ASSUME NEW tables
  PROVE  Plain(AnchorErrors(tables))
<1>1. ASSUME NEW e \in AnchorErrors(tables) PROVE e.what \notin Special
  <2>1. PICK i : e = Err("TRANSFORM_ERROR", <<"duplicate", i>>, Null)
    BY DEF AnchorErrors
  <2>2. <<"duplicate", i>> # <<"extra row">> /\ <<"duplicate", i>> # <<"capped">>
    BY OtherWhat
  <2> QED BY <2>1, <2>2, PlainErr
<1> QED BY <1>1 DEF Plain

LEMMA PlainChunk ==
  ASSUME NEW sm, NEW old, NEW new, NEW noisy
  PROVE  Plain(CompareChunk(sm, old, new, noisy))
<1> DEFINE lost  == {Err("ROW_MISSING", <<"row">>, k) : k \in Ids(old) \ Ids(new)}
           at(i) == {Err("VALUE_MISMATCH", <<e[1], e[2], i>>, IdOf(old[i])) :
                       e \in Differences(sm, old[i], LastWith(new, IdOf(old[i])), noisy)}
           both  == {j \in 1..Len(old) : IdOf(old[j]) \in Ids(new)}
<1>1. CompareChunk(sm, old, new, noisy) = lost \cup UNION {at(i) : i \in both}
  BY DEF CompareChunk
<1>2. ASSUME NEW x \in lost PROVE x.what \notin Special
  <2>1. PICK k : x = Err("ROW_MISSING", <<"row">>, k)
    OBVIOUS
  <2>2. "row" # "extra row" /\ "row" # "capped"
    OBVIOUS
  <2>3. <<"row">> # <<"extra row">> /\ <<"row">> # <<"capped">>
    BY <2>2, OtherWhat
  <2> QED BY <2>1, <2>3, PlainErr
<1>3. ASSUME NEW i, NEW x \in at(i) PROVE x.what \notin Special
  <2>1. PICK e : x = Err("VALUE_MISMATCH", <<e[1], e[2], i>>, IdOf(old[i]))
    OBVIOUS
  <2>2. <<e[1], e[2], i>> # <<"extra row">> /\ <<e[1], e[2], i>> # <<"capped">>
    BY OtherWhat
  <2> QED BY <2>1, <2>2, PlainErr
<1> HIDE DEF lost, at, both
<1> QED BY <1>1, <1>2, <1>3 DEF Plain

LEMMA BeginMasterInv ==
  ASSUME MasterInv, BeginMaster
  PROVE  MasterInv'
<1> DEFINE compares == MatchesOf(Mappings(Basic), Basic \ {"formula"}) # {}
           found    == SchemaErrors(Basic)
                       \cup (IF Rule.defs = {} THEN {} ELSE {Err("TRANSFORM_ERROR", <<"def rules">>, Null)})
           count    == IF Len(Source) = Len(Target) THEN {} ELSE {Err("ROW_MISSING", <<"row count">>, Null)}
           pushed   == IF compares THEN found \cup AnchorErrors(<<Source, Target>>) \cup count ELSE found
<1>1. /\ phase = "begin" /\ InMode({"MASTER"})
      /\ errors' = errors \cup pushed
      /\ phase' = "scan" \/ phase' = "done"
      /\ input' = input /\ extra' = extra /\ rowsChecked' = rowsChecked
  BY DEF BeginMaster, PushAll, counts
<1>2. extra = 0 /\ rowsChecked = 0 /\ \A e \in errors : e.what \notin Special
  BY <1>1 DEF MasterInv
<1>3. Plain(pushed)
  <2>1. Plain(SchemaErrors(Basic)) /\ Plain(AnchorErrors(<<Source, Target>>))
    BY PlainSchema, PlainAnchor
  <2>2. Plain({Err("TRANSFORM_ERROR", <<"def rules">>, Null)})
    BY PlainOne
  <2>3. Plain({Err("ROW_MISSING", <<"row count">>, Null)})
    BY PlainOne
  <2> HIDE DEF compares
  <2>4. Plain(found)
    BY <2>1, <2>2 DEF Plain
  <2>5. Plain(count)
    BY <2>3 DEF Plain
  <2> HIDE DEF found, count
  <2> QED BY <2>1, <2>4, <2>5 DEF Plain
<1> HIDE DEF pushed
<1>4. \A e \in errors' : e.what \notin Special
  BY <1>1, <1>2, <1>3 DEF Plain
<1> QED BY <1>1, <1>2, <1>4 DEF MasterInv, InMode

(* The reverse scan starts from the null key with nothing reported.        *)
LEMMA ReverseStarts ==
  ASSUME \E some \in Inputs : input \in some, InMode({"MASTER"}), input' = input, src' = src,
         extra' = 0, Plain(errors'), cursor' = Start
  PROVE  FoundSoFar'
<1>1. Start = Null
  BY DEF Start, Sysref, InMode
<1>2. Only' = Only
  BY DEF Only, Ids, Target, Source
<1>3. \A k \in Only : k \in Int /\ k > Blank
  BY OnlyKeys
<1>4. {k \in Only : k <= Null} = {}
  BY <1>3 DEF Blank, Null
<1>5. Reported' = {}
  BY DEF Reported, Plain, Special
<1>6. ~Capped'
  BY ErrorFields DEF Capped, Plain, Special
<1>7. Cardinality({}) = 0 /\ ExtraRowCap \in Nat
  BY FS_EmptySet, SizeAssumption
<1>8. Null \in Int /\ Null >= Null
  BY DEF Null
<1>9. Reported' = {k \in Only' : k <= cursor'}
  BY <1>1, <1>2, <1>4, <1>5
<1>10. extra' = Cardinality(Reported') /\ extra' <= ExtraRowCap
  BY <1>5, <1>7
<1> QED BY <1>1, <1>6, <1>8, <1>9, <1>10 DEF FoundSoFar

LEMMA ForwardInv ==
  ASSUME MasterInv, ForwardTurn \/ ForwardEnd
  PROVE  MasterInv'
<1>1. /\ phase = "scan" /\ InMode({"MASTER"})
      /\ input' = input /\ extra' = extra /\ src' = src
      /\ phase' = "scan" \/ (phase' = "reverse" /\ cursor' = Start)
  BY DEF ForwardTurn, ForwardEnd
<1>2. extra = 0 /\ Plain(errors) /\ \E some \in Inputs : input \in some
  BY <1>1 DEF MasterInv, Plain
<1>3. Plain(errors')
  <2>1. CASE ForwardEnd
    <3>1. errors' = errors
      BY <2>1 DEF ForwardEnd
    <3> QED BY <1>2, <3>1 DEF Plain
  <2>2. CASE ForwardTurn
    <3>1. \E sm, old, new, noisy : errors' = errors \cup CompareChunk(sm, old, new, noisy)
      BY <2>2 DEF ForwardTurn, CompareRows, PushAll
    <3> QED BY <1>2, <3>1, PlainChunk DEF Plain
  <2> QED BY <1>1, <2>1, <2>2
<1>4. phase' = "reverse" => FoundSoFar'
  BY <1>1, <1>2, <1>3, ReverseStarts
<1> QED BY <1>1, <1>2, <1>3, <1>4 DEF MasterInv, InMode, Plain

LEMMA ReverseInv ==
  ASSUME MasterInv, InMode({"MASTER"}), ReverseTurn \/ ReverseEnd
  PROVE  MasterInv'
<1>1. phase = "reverse" /\ input' = input /\ phase' \in {"reverse", "done"}
  BY DEF ReverseTurn, ReverseEnd
<1>2. \E some \in Inputs : input \in some
  BY DEF MasterInv
<1>3. ASSUME Unique(Target, {"id"})
      PROVE  (phase' = "reverse" => FoundSoFar') /\ (phase' = "done" => FoundAll')
  <2>1. FoundSoFar
    BY <1>1, <1>3 DEF MasterInv
  <2>2. CASE ReverseTurn
    BY <1>2, <1>3, <2>1, <2>2, ReverseTurnInv
  <2>3. CASE ReverseEnd
    <3>1. phase' = "done" /\ FoundAll'
      BY <1>2, <1>3, <2>1, <2>3, ReverseEndInv
    <3> QED BY <3>1
  <2> QED BY <1>1, <2>2, <2>3
<1>4. Unique(Target, {"id"})' <=> Unique(Target, {"id"})
  BY <1>1 DEF Unique, Target
<1> QED BY <1>1, <1>2, <1>3, <1>4 DEF MasterInv

-----------------------------------------------------------------------------
(* Every other step is one of another strategy, or gives the table up.     *)
LEMMA OtherStep ==
  ASSUME MasterInv, GroupNext \/ BeginRows \/ NextRows \/ NoMoreRows \/ CountRows
                    \/ SplitColumns \/ BeginHeader \/ NextIdentities \/ NoMoreIdentities
  PROVE  ~InMode({"MASTER"}) /\ input' = input
<1>1. InMode({"MASTER"}) => phase # "flush" /\ phase # "count"
  BY DEF MasterInv
<1>2. CASE GroupNext
  BY <1>1, <1>2 DEF GroupNext, BeginTx, BeginMulti, BeginUnion, NextPage, CompositePage, NoMorePages,
     SkipSource, NextChunk, NoMoreChunks, Flush, InMode, TxModes, MultiModes, PageModes, CarryModes
<1>3. CASE ~GroupNext
  BY <1>1, <1>3 DEF BeginRows, NextRows, NoMoreRows, CountRows, SplitColumns, BeginHeader,
     NextIdentities, NoMoreIdentities, InMode
<1> QED BY <1>2, <1>3

LEMMA MasterInit == Init => MasterInv
<1> SUFFICES ASSUME Init PROVE MasterInv
  OBVIOUS
<1>1. /\ \E some \in Inputs : input \in some
      /\ phase = "begin" /\ rowsChecked = 0 /\ extra = 0 /\ errors = {}
  BY DEF Init
<1> QED BY <1>1 DEF MasterInv

LEMMA MasterStep == MasterInv /\ [Next]_vars => MasterInv'
<1> SUFFICES ASSUME MasterInv, [Next]_vars PROVE MasterInv'
  OBVIOUS
<1>1. CASE BeginMaster
  BY <1>1, BeginMasterInv
<1>2. CASE ForwardTurn \/ ForwardEnd
  BY <1>2, ForwardInv
<1>3. CASE (ReverseTurn \/ ReverseEnd) /\ InMode({"MASTER"})
  BY <1>3, ReverseInv
<1>4. CASE (ReverseTurn \/ ReverseEnd) /\ ~InMode({"MASTER"})
  BY <1>4 DEF MasterInv, InMode, ReverseTurn, ReverseEnd
<1>5. CASE GroupNext \/ BeginRows \/ NextRows \/ NoMoreRows \/ CountRows
           \/ SplitColumns \/ BeginHeader \/ NextIdentities \/ NoMoreIdentities
  <2>1. ~InMode({"MASTER"}) /\ input' = input
    BY <1>5, OtherStep
  <2> QED BY <2>1 DEF MasterInv, InMode
<1>6. CASE Reject
  BY <1>6 DEF Reject, MasterInv, InMode
<1>7. CASE UNCHANGED vars
  <2>1. UNCHANGED <<input, phase, src, cursor, errors, extra, rowsChecked>>
    BY <1>7 DEF vars, page, counts
  <2>2. Only' = Only /\ Reported' = Reported /\ Capped' = Capped /\ Unique(Target, {"id"})' = Unique(Target, {"id"})
    BY <2>1 DEF Only, Ids, Target, Source, Reported, Capped, Unique
  <2>3. FoundSoFar' = FoundSoFar
    BY <2>1, <2>2 DEF FoundSoFar
  <2>4. FoundAll' = FoundAll
    BY <2>2 DEF FoundAll
  <2> QED BY <2>1, <2>2, <2>3, <2>4 DEF MasterInv, InMode
<1> QED BY <1>1, <1>2, <1>3, <1>4, <1>5, <1>6, <1>7 DEF Next, RowNext

(* The reverse scan (step 7 of MasterStrategy, master.strategy.ts):        *)
(* whatever the target, its anchor key unique, the chunk size and the cap, *)
(* a master run that ends with rows read has reported every key that only  *)
(* the target has, or EXTRA_ROW_CAP of them and that there are more.       *)
THEOREM ReverseScanIsComplete == Spec => []ExtrasFound
<1>1. Spec => []MasterInv
  BY MasterInit, MasterStep, PTL DEF Spec
<1>2. MasterInv => ExtrasFound
  BY DEF MasterInv, FoundAll, ExtrasFound, Only, Reported, Capped, CapError
<1> QED BY <1>1, <1>2, PTL

-----------------------------------------------------------------------------
(* Rows drawn from a table.                                                *)

(* s are the rows of t at the positions of set, each once: p says which.   *)
DrawnBy(p, s, t, set) ==
  /\ Len(s) \in Nat
  /\ \A i \in 1..Len(s) : p[i] \in set /\ s[i] = t[p[i]]
  /\ \A i, j \in 1..Len(s) : p[i] = p[j] => i = j
  /\ \A x \in set : \E i \in 1..Len(s) : p[i] = x

IsSeq(s) == \E A : s \in Seq(A)
Drawn(s, t, set) == IsSeq(s) /\ \E p : DrawnBy(p, s, t, set)

LEMMA SeqDomain ==
  ASSUME NEW s, IsSeq(s)
  PROVE  Len(s) \in Nat /\ DOMAIN s = 1..Len(s)
BY LenProperties DEF IsSeq

LEMMA RowsAtSeq ==
  ASSUME NEW t, NEW p, Len(p) \in Nat
  PROVE  IsSeq(RowsAt(t, p))
<1> DEFINE A == {t[p[i]] : i \in 1..Len(p)}
<1>1. [i \in 1..Len(p) |-> t[p[i]]] \in Seq(A)
  OBVIOUS
<1> QED BY <1>1 DEF RowsAt, IsSeq

(* They are as many as the positions, and the same rows.                   *)
LEMMA DrawnCount ==
  ASSUME NEW s, NEW t, NEW set, Drawn(s, t, set)
  PROVE  /\ Len(s) \in Nat /\ IsFiniteSet(set) /\ Len(s) = Cardinality(set)
         /\ Range(s) = {t[i] : i \in set}
<1>1. PICK p : DrawnBy(p, s, t, set)
  BY DEF Drawn
<1> DEFINE D == 1..Len(s)
           f == [i \in D |-> p[i]]
<1>2. Len(s) \in Nat /\ IsFiniteSet(D) /\ Cardinality(D) = Len(s)
  <2>1. Len(s) \in Nat
    BY <1>1 DEF DrawnBy
  <2>2. 1 \in Int /\ Len(s) \in Int
    BY <2>1
  <2>3. IsFiniteSet(1..Len(s)) /\ Cardinality(1..Len(s)) = IF 1 > Len(s) THEN 0 ELSE Len(s) - 1 + 1
    BY <2>2, FS_Interval
  <2> QED BY <2>1, <2>3
<1>3. f = [i \in D |-> f[i]] /\ \A i, j \in D : f[i] = f[j] => i = j
  BY <1>1 DEF DrawnBy
<1>4. {f[i] : i \in D} = set
  BY <1>1 DEF DrawnBy
<1>5. Range(s) = {t[i] : i \in set}
  <2>1. Range(s) = {s[i] : i \in D}
    BY SeqDomain DEF Range, Drawn
  <2> QED BY <1>1, <2>1 DEF DrawnBy
<1>6. IsFiniteSet({f[i] : i \in D}) /\ Cardinality({f[i] : i \in D}) = Cardinality(D)
  <2>1. IsFiniteSet(D)
    BY <1>2
  <2> HIDE DEF D, f
  <2> QED BY <1>3, <2>1, FiniteValues
<1> QED BY <1>2, <1>4, <1>5, <1>6

(* A page draws the elements it holds.                                     *)
LEMMA PageDraws ==
  ASSUME NEW t, NEW before, Ordered(before), IsFiniteSet(DOMAIN before), NEW n \in Nat
  PROVE  Drawn(RowsAt(t, Page(before, n)), t, Range(Page(before, n)))
<1> DEFINE p == Page(before, n)
           l == Lesser(n, Cardinality(DOMAIN before))
           s == RowsAt(t, p)
<1>1. /\ l \in Nat /\ Len(p) = l /\ DOMAIN p = 1..l
      /\ \A i \in 1..l : p[i] \in DOMAIN before
      /\ \A i, j \in 1..l : i < j => p[i] \in before[p[j]]
  BY PageHolds
<1> HIDE DEF p
<1>2. s = [i \in 1..l |-> t[p[i]]]
  BY <1>1 DEF RowsAt
<1>3. \A i, j \in 1..l : p[i] = p[j] => i = j
  <2>1. \A i \in 1..l : p[i] \notin before[p[i]]
    BY <1>1 DEF Ordered
  <2>2. \A i, j \in 1..l : i < j \/ j < i \/ i = j
    BY <1>1
  <2> QED BY <1>1, <2>1, <2>2
<1> HIDE DEF l
<1>4. Len(s) = l /\ DOMAIN s = 1..l /\ \A i \in 1..l : s[i] = t[p[i]]
  BY <1>1, <1>2
<1> HIDE DEF s
<1>5. Range(p) = {p[i] : i \in 1..l}
  BY <1>1 DEF Range
<1>6. DrawnBy(p, s, t, Range(p))
  BY <1>1, <1>3, <1>4, <1>5 DEF DrawnBy
<1>7. IsSeq(s)
  BY <1>1, RowsAtSeq DEF s
<1>8. Drawn(s, t, Range(p))
  BY <1>6, <1>7 DEF Drawn
<1> QED BY <1>8 DEF s, p

(* RowsIn draws the positions it is given.                                 *)
LEMMA RowsInDraws ==
  ASSUME NEW t, NEW n \in Nat, NEW set, \A i \in set : i \in 1..n
  PROVE  Drawn(RowsIn(t, set), t, set)
<1>1. Ordered(InOrder(set)) /\ DOMAIN InOrder(set) = set /\ IsFiniteSet(set)
  BY InOrderOrdered
<1>2. Cardinality(set) \in Nat
  BY <1>1, FS_CardinalityType
<1>3. Range(Page(InOrder(set), Cardinality(set))) = set
  BY <1>2, FirstOf
<1> QED BY <1>1, <1>2, <1>3, PageDraws DEF RowsIn

(* Those of the rows drawn whose positions lie in a part of set.           *)
LEMMA PartDraws ==
  ASSUME NEW s, NEW t, NEW set, NEW part, NEW some, \A x \in part : x \in set,
         NEW p, DrawnBy(p, s, t, set), \A i \in some : i \in 1..Len(s),
         \A i \in 1..Len(s) : i \in some <=> p[i] \in part
  PROVE  Drawn(RowsIn(s, some), t, part)
<1> DEFINE r == RowsIn(s, some)
<1>1. Len(s) \in Nat
  BY DEF DrawnBy
<1>2. Drawn(r, s, some)
  BY <1>1, RowsInDraws
<1> HIDE DEF r
<1>3. PICK q : DrawnBy(q, r, s, some)
  BY <1>2 DEF Drawn
<1> DEFINE f == [i \in 1..Len(r) |-> p[q[i]]]
<1>4. \A i \in 1..Len(r) : q[i] \in some /\ q[i] \in 1..Len(s) /\ r[i] = s[q[i]]
  BY <1>3 DEF DrawnBy
<1>5. \A i \in 1..Len(r) : f[i] \in part /\ r[i] = t[f[i]]
  BY <1>4 DEF DrawnBy
<1>6. \A i, j \in 1..Len(r) : f[i] = f[j] => i = j
  <2>1. \A i, j \in 1..Len(r) : q[i] = q[j] => i = j
    BY <1>3 DEF DrawnBy
  <2>2. \A i, j \in 1..Len(s) : p[i] = p[j] => i = j
    BY DEF DrawnBy
  <2> QED BY <1>4, <2>1, <2>2
<1>7. ASSUME NEW x \in part PROVE \E i \in 1..Len(r) : f[i] = x
  <2>1. PICK j \in 1..Len(s) : p[j] = x
    BY DEF DrawnBy
  <2>2. j \in some
    BY <2>1
  <2>3. PICK i \in 1..Len(r) : q[i] = j
    BY <1>3, <2>2 DEF DrawnBy
  <2> QED BY <2>1, <2>3
<1> HIDE DEF f
<1>8. Len(r) \in Nat
  BY <1>3 DEF DrawnBy
<1>9. DrawnBy(f, r, t, part)
  BY <1>5, <1>6, <1>7, <1>8 DEF DrawnBy
<1> QED BY <1>2, <1>9 DEF Drawn, r

(* The rows of some group keys, and the rows of an id.                     *)
LEMMA GroupsDraw ==
  ASSUME NEW s, NEW t, NEW set, Drawn(s, t, set), NEW ks
  PROVE  Drawn(RowsOf(s, ks), t, {x \in set : KeyOf(t[x]) \in ks})
<1>1. PICK p : DrawnBy(p, s, t, set)
  BY DEF Drawn
<1> DEFINE some == {i \in 1..Len(s) : KeyOf(s[i]) \in ks}
           part == {x \in set : KeyOf(t[x]) \in ks}
<1>2. \A i \in 1..Len(s) : i \in some <=> p[i] \in part
  BY <1>1 DEF DrawnBy
<1>3. (\A x \in part : x \in set) /\ \A i \in some : i \in 1..Len(s)
  OBVIOUS
<1>4. RowsOf(s, ks) = RowsIn(s, some)
  BY DEF RowsOf
<1> HIDE DEF some, part
<1>5. Drawn(RowsIn(s, some), t, part)
  BY <1>1, <1>2, <1>3, PartDraws
<1> QED BY <1>4, <1>5 DEF part

LEMMA IdsDraw ==
  ASSUME NEW s, NEW t, NEW set, Drawn(s, t, set), NEW k
  PROVE  Drawn(ById(s, k), t, {x \in set : IdOf(t[x]) = k})
<1>1. PICK p : DrawnBy(p, s, t, set)
  BY DEF Drawn
<1> DEFINE some == {i \in 1..Len(s) : IdOf(s[i]) = k}
           part == {x \in set : IdOf(t[x]) = k}
<1>2. \A i \in 1..Len(s) : i \in some <=> p[i] \in part
  BY <1>1 DEF DrawnBy
<1>3. (\A x \in part : x \in set) /\ \A i \in some : i \in 1..Len(s)
  OBVIOUS
<1>4. ById(s, k) = RowsIn(s, some)
  BY DEF ById
<1> HIDE DEF some, part
<1>5. Drawn(RowsIn(s, some), t, part)
  BY <1>1, <1>2, <1>3, PartDraws
<1> QED BY <1>4, <1>5 DEF part

LEMMA KeysDrawn ==
  ASSUME NEW s, NEW t, NEW set, Drawn(s, t, set)
  PROVE  Keys(s) = {KeyOf(t[x]) : x \in set} /\ Ids(s) = {IdOf(t[x]) : x \in set}
<1>1. PICK p : DrawnBy(p, s, t, set)
  BY DEF Drawn
<1>2. Keys(s) = {KeyOf(t[x]) : x \in set}
  <2>1. \A i \in 1..Len(s) : p[i] \in set /\ KeyOf(s[i]) = KeyOf(t[p[i]])
    BY <1>1 DEF DrawnBy
  <2>2. \A x \in set : \E i \in 1..Len(s) : KeyOf(s[i]) = KeyOf(t[x])
    BY <1>1 DEF DrawnBy
  <2> QED BY <2>1, <2>2 DEF Keys
<1>3. Range(s) = {t[x] : x \in set}
  BY DrawnCount
<1> QED BY <1>2, <1>3 DEF Ids

(* Rows drawn from disjoint sets, one sequence after the other.            *)
LEMMA BothDraw ==
  ASSUME NEW r, NEW s, NEW t, NEW set, NEW other,
         Drawn(r, t, set), Drawn(s, t, other), set \cap other = {}
  PROVE  Drawn(r \o s, t, set \cup other)
<1>1. PICK p : DrawnBy(p, r, t, set)
  BY DEF Drawn
<1>2. PICK q : DrawnBy(q, s, t, other)
  BY DEF Drawn
<1> DEFINE m == Len(r)
           n == Len(s)
           f == [i \in 1..(m + n) |-> IF i <= m THEN p[i] ELSE q[i - m]]
           c == r \o s
<1>3. m \in Nat /\ n \in Nat
  BY <1>1, <1>2 DEF DrawnBy
<1>4. /\ Len(c) = m + n /\ IsSeq(c)
      /\ \A i \in 1..(m + n) : c[i] = IF i <= m THEN r[i] ELSE s[i - m]
  <2>1. PICK A, B : r \in Seq(A) /\ s \in Seq(B)
    BY DEF Drawn, IsSeq
  <2>2. r \in Seq(A \cup B) /\ s \in Seq(A \cup B)
    BY <2>1
  <2>3. c \in Seq(A \cup B) /\ Len(c) = m + n
        /\ \A i \in 1..(m + n) : c[i] = IF i <= m THEN r[i] ELSE s[i - m]
    BY <2>2, ConcatProperties
  <2> QED BY <2>3 DEF IsSeq
<1>5. \A i \in 1..m : p[i] \in set /\ r[i] = t[p[i]]
  BY <1>1 DEF DrawnBy
<1>6. \A i \in 1..n : q[i] \in other /\ s[i] = t[q[i]]
  BY <1>2 DEF DrawnBy
<1> HIDE DEF c, m, n
<1>7. \A i \in 1..(m + n) : IF i <= m THEN i \in 1..m ELSE i - m \in 1..n
  BY <1>3
<1>8. \A i \in 1..(m + n) : f[i] \in set \cup other /\ c[i] = t[f[i]]
  BY <1>4, <1>5, <1>6, <1>7
<1>9. ASSUME NEW i \in 1..(m + n), NEW j \in 1..(m + n), f[i] = f[j] PROVE i = j
  <2>1. CASE i <= m /\ j <= m
    <3>1. p[i] = p[j] /\ i \in 1..m /\ j \in 1..m
      BY <1>7, <1>9, <2>1
    <3> QED BY <1>1, <3>1 DEF DrawnBy, m
  <2>2. CASE ~(i <= m) /\ ~(j <= m)
    <3>1. q[i - m] = q[j - m] /\ i - m \in 1..n /\ j - m \in 1..n
      BY <1>7, <1>9, <2>2
    <3>2. i - m = j - m
      BY <1>2, <3>1 DEF DrawnBy, n
    <3> QED BY <1>3, <3>2
  <2>3. CASE i <= m /\ ~(j <= m)
    <3>1. f[i] \in set /\ f[j] \in other
      BY <1>5, <1>6, <1>7, <2>3
    <3> QED BY <1>9, <3>1
  <2>4. CASE ~(i <= m) /\ j <= m
    <3>1. f[j] \in set /\ f[i] \in other
      BY <1>5, <1>6, <1>7, <2>4
    <3> QED BY <1>9, <3>1
  <2> QED BY <2>1, <2>2, <2>3, <2>4
<1>10. ASSUME NEW x \in set \cup other PROVE \E i \in 1..(m + n) : f[i] = x
  <2>1. CASE x \in set
    <3>1. PICK i \in 1..m : p[i] = x
      BY <1>1, <2>1 DEF DrawnBy, m
    <3>2. i \in 1..(m + n) /\ i <= m
      BY <1>3
    <3> QED BY <3>1, <3>2
  <2>2. CASE x \in other
    <3>1. PICK i \in 1..n : q[i] = x
      BY <1>2, <2>2 DEF DrawnBy, n
    <3>2. i + m \in 1..(m + n) /\ ~(i + m <= m) /\ (i + m) - m = i
      BY <1>3
    <3>3. f[i + m] = x
      BY <3>1, <3>2
    <3> QED BY <3>2, <3>3
  <2> QED BY <2>1, <2>2
<1>11. Len(c) \in Nat
  BY <1>3, <1>4
<1> HIDE DEF f
<1>12. DrawnBy(f, c, t, set \cup other)
  BY <1>4, <1>8, <1>9, <1>10, <1>11 DEF DrawnBy
<1> QED BY <1>4, <1>12 DEF Drawn, c

-----------------------------------------------------------------------------
(* A chunk is drawn from what is beyond the cursor, and when it is full    *)
(* from as much of it as does not come after its last row.                 *)
LEMMA ChunkCut ==
  ASSUME NEW t, NEW before, Ordered(before), IsFiniteSet(DOMAIN before), NEW n \in Nat \ {0}
  PROVE  LET p == Page(before, n)
             s == RowsAt(t, p)
             l == Len(s)
         IN  /\ l \in Nat /\ l <= n /\ IsSeq(s)
             /\ DrawnBy(p, s, t, {x \in DOMAIN before : l = n => x = p[l] \/ x \in before[p[l]]})
             /\ \A i, j \in 1..l : i < j => p[i] \in before[p[j]]
             /\ l > 0 => p[l] \in DOMAIN before /\ s[l] = t[p[l]]
<1> DEFINE S == DOMAIN before
           p == Page(before, n)
           s == RowsAt(t, p)
           l == Len(s)
           C == {x \in S : l = n => x = p[l] \/ x \in before[p[l]]}
<1>1. /\ l \in Nat /\ l <= n /\ Len(p) = l
      /\ \A i \in 1..l : p[i] \in S
      /\ \A i, j \in 1..l : i < j => p[i] \in before[p[j]]
      /\ \A x \in S : (\E i \in 1..l : p[i] = x) \/ (l = n /\ \A i \in 1..l : p[i] \in before[x])
  <2> DEFINE m == Lesser(n, Cardinality(DOMAIN before))
  <2>1. /\ m \in Nat /\ Len(p) = m
        /\ \A i \in 1..m : p[i] \in S
        /\ \A i, j \in 1..m : i < j => p[i] \in before[p[j]]
        /\ \A x \in S : (\E i \in 1..m : p[i] = x) \/ (m = n /\ \A i \in 1..m : p[i] \in before[x])
    BY PageHolds
  <2>2. m <= n
    <3>1. Cardinality(DOMAIN before) \in Nat
      BY FS_CardinalityType
    <3> QED BY <3>1 DEF Lesser
  <2> HIDE DEF m, p
  <2>3. l = m
    BY <2>1 DEF RowsAt
  <2> QED BY <2>1, <2>2, <2>3
<1>2. IsSeq(s) /\ \A i \in 1..l : s[i] = t[p[i]]
  <2> HIDE DEF p
  <2>1. IsSeq(s)
    BY <1>1, RowsAtSeq
  <2> QED BY <1>1, <2>1 DEF RowsAt
<1> HIDE DEF p, s, l
<1>3. \A i, j \in 1..l : p[i] = p[j] => i = j
  <2>1. \A i \in 1..l : p[i] \notin before[p[i]]
    BY <1>1 DEF Ordered
  <2>2. \A i, j \in 1..l : i < j \/ j < i \/ i = j
    BY <1>1
  <2> QED BY <1>1, <2>1, <2>2
<1>4. ASSUME NEW i \in 1..l PROVE p[i] \in C
  <2>1. ASSUME l = n PROVE p[i] = p[l] \/ p[i] \in before[p[l]]
    <3>1. i = l \/ (i < l /\ l \in 1..l)
      BY <1>1
    <3> QED BY <1>1, <3>1
  <2> QED BY <1>1, <2>1
<1>5. ASSUME NEW x \in C PROVE \E i \in 1..l : p[i] = x
  <2>1. CASE l = n /\ \A i \in 1..l : p[i] \in before[x]
    <3>1. l \in 1..l
      BY <1>1, <2>1
    <3>2. p[l] \in before[x] /\ p[l] \in S /\ x \in S
      BY <1>1, <2>1, <3>1
    <3>3. x = p[l] \/ x \in before[p[l]]
      BY <2>1
    <3>4. x \notin before[p[l]]
      BY <3>2 DEF Ordered
    <3> QED BY <3>1, <3>3, <3>4
  <2> QED BY <1>1, <2>1
<1>6. DrawnBy(p, s, t, C)
  BY <1>1, <1>2, <1>3, <1>4, <1>5 DEF DrawnBy, l
<1>7. l > 0 => p[l] \in S /\ s[l] = t[p[l]]
  <2>1. l > 0 => l \in 1..l
    BY <1>1
  <2> QED BY <1>1, <1>2, <2>1
<1>8. /\ l \in Nat /\ l <= n /\ IsSeq(s)
      /\ \A i, j \in 1..l : i < j => p[i] \in before[p[j]]
  BY <1>1, <1>2
<1> QED BY <1>6, <1>7, <1>8 DEF p, s, l

(* What a cursor has passed, in the order of the anchor key, of the group  *)
(* key, and of the pair of them.                                           *)
ByAnchor(c, row) == row.id <= c
ByGroup(c, row)  == row.grp <= c
BySysref(c, row) == c # <<>> /\ (row.grp < c[1] \/ (row.grp = c[1] /\ row.id <= c[2]))

LEMMA TableRows ==
  ASSUME NEW t, IsTable(t)
  PROVE  /\ IsSeq(t) /\ Len(t) \in Nat /\ DOMAIN t = 1..Len(t)
         /\ \A x \in 1..Len(t) : /\ t[x] \in Range(t)
                                 /\ t[x].id \in Int /\ t[x].id >= Null
                                 /\ t[x].grp \in Int /\ t[x].grp >= Null
<1>1. IsSeq(t)
  BY DEF IsTable, IsSeq
<1>2. Len(t) \in Nat /\ DOMAIN t = 1..Len(t)
  BY <1>1, SeqDomain
<1>3. \A x \in 1..Len(t) : t[x] \in Range(t)
  BY <1>2 DEF Range
<1> QED BY <1>1, <1>2, <1>3 DEF IsTable

LEMMA AnchorChunk ==
  ASSUME NEW t, IsTable(t), Unique(t, {"id"}), NEW last \in Int, NEW n \in Nat \ {0}
  PROVE  LET s == FetchChunk(t, "id", n, last)
             l == Len(s)
         IN  /\ l \in Nat /\ l <= n /\ IsSeq(s)
             /\ l > 0 => s[l].id \in Int /\ s[l].id > last
             /\ \E p : /\ DrawnBy(p, s, t, {x \in 1..Len(t) : ~ByAnchor(last, t[x])
                                                             /\ (l = n => ByAnchor(s[l].id, t[x]))})
                       /\ \A i, j \in 1..l : i < j => t[p[i]].id < t[p[j]].id
<1> DEFINE beyond == {i \in 1..Len(t) : t[i]["id"] > last}
           Less(i, j) == t[i]["id"] < t[j]["id"] \/ (t[i]["id"] = t[j]["id"] /\ i < j)
           before == [j \in beyond |-> {i \in beyond : Less(i, j)}]
           p == Page(before, n)
           s == FetchChunk(t, "id", n, last)
           l == Len(s)
           C == {x \in beyond : l = n => x = p[l] \/ x \in before[p[l]]}
           E == {x \in 1..Len(t) : ~ByAnchor(last, t[x]) /\ (l = n => ByAnchor(s[l].id, t[x]))}
<1>1. \A i \in beyond : i \in 1..Len(t) /\ t[i].id \in Int /\ t[i].id > last
  BY TableRows
<1>2. \A i, j \in beyond : i # j => t[i].id # t[j].id
  BY DEF Unique
<1>3. DOMAIN before = beyond
  OBVIOUS
<1>4. \A i, j \in beyond : i \in before[j] <=> t[i].id < t[j].id
  BY <1>1, <1>2
<1>5. \A j \in beyond : \A i \in before[j] : i \in beyond
  OBVIOUS
<1>6. IsFiniteSet(beyond)
  <2>1. IsFiniteSet(1..Len(t))
    BY FS_Interval, TableRows
  <2>2. beyond \subseteq 1..Len(t)
    OBVIOUS
  <2> HIDE DEF beyond
  <2> QED BY <2>1, <2>2, FS_Subset
<1>7. s = RowsAt(t, p)
  BY DEF FetchChunk
<1>8. \A x \in 1..Len(t) : x \in beyond <=> ~ByAnchor(last, t[x])
  BY TableRows DEF ByAnchor
<1> HIDE DEF beyond, before
<1>9. Ordered(before)
  BY <1>1, <1>2, <1>3, <1>4, <1>5 DEF Ordered
<1>10. /\ l \in Nat /\ l <= n /\ IsSeq(s)
       /\ DrawnBy(p, s, t, C)
       /\ \A i, j \in 1..l : i < j => p[i] \in before[p[j]]
       /\ l > 0 => p[l] \in beyond /\ s[l] = t[p[l]]
  <2> DEFINE r == RowsAt(t, p)
  <2>1. /\ Len(r) \in Nat /\ Len(r) <= n /\ IsSeq(r)
        /\ DrawnBy(p, r, t, {x \in DOMAIN before : Len(r) = n => x = p[Len(r)] \/ x \in before[p[Len(r)]]})
        /\ \A i, j \in 1..Len(r) : i < j => p[i] \in before[p[j]]
        /\ Len(r) > 0 => p[Len(r)] \in DOMAIN before /\ r[Len(r)] = t[p[Len(r)]]
    BY <1>3, <1>6, <1>9, ChunkCut
  <2> HIDE DEF p, s
  <2> QED BY <1>3, <1>7, <2>1
<1> HIDE DEF p, s
<1>11. l = n => \A x \in beyond : x = p[l] \/ x \in before[p[l]] <=> ByAnchor(s[l].id, t[x])
  BY <1>1, <1>2, <1>4, <1>10 DEF ByAnchor
<1>12. C = E
  <2>1. \A x \in beyond : x \in C <=> x \in E
    BY <1>1, <1>8, <1>11
  <2>2. (\A x \in C : x \in beyond) /\ \A x \in E : x \in beyond
    BY <1>8
  <2> QED BY <2>1, <2>2
<1>13. \A i, j \in 1..l : i < j => t[p[i]].id < t[p[j]].id
  <2>1. \A i \in 1..l : p[i] \in beyond
    BY <1>10 DEF DrawnBy
  <2> QED BY <1>4, <1>10, <2>1
<1>14. DrawnBy(p, s, t, E)
  BY <1>10, <1>12
<1>15. l > 0 => s[l].id \in Int /\ s[l].id > last
  BY <1>1, <1>10
<1> HIDE DEF l, C
<1>16. \E q : DrawnBy(q, s, t, E) /\ \A i, j \in 1..l : i < j => t[q[i]].id < t[q[j]].id
  BY <1>13, <1>14
<1> HIDE DEF E
<1>17. /\ l \in Nat /\ l <= n /\ IsSeq(s)
       /\ l > 0 => s[l].id \in Int /\ s[l].id > last
       /\ \E q : DrawnBy(q, s, t, E) /\ \A i, j \in 1..l : i < j => t[q[i]].id < t[q[j]].id
  BY <1>10, <1>15, <1>16
<1> QED BY <1>17 DEF E, l, s

SysrefAhead(r, q) == r.grp < q.grp \/ (r.grp = q.grp /\ r.id < q.id)

LEMMA SysrefChunk ==
  ASSUME NEW t, IsTable(t), Unique(t, {"grp", "id"}), AllNamed(t), NEW n \in Nat \ {0},
         NEW c, c = <<>> \/ \E g, k \in Int : c = <<g, k>>
  PROVE  LET s == FetchChunkSysref(t, "grp", "id", n, c)
             l == Len(s)
         IN  /\ l \in Nat /\ l <= n /\ IsSeq(s)
             /\ l > 0 => s[l].grp \in Int /\ s[l].grp # Null /\ s[l].id \in Int /\ ~BySysref(c, s[l])
             /\ \E p : /\ DrawnBy(p, s, t, {x \in 1..Len(t) : ~BySysref(c, t[x])
                                               /\ (l = n => BySysref(<<s[l].grp, s[l].id>>, t[x]))})
                       /\ \A i, j \in 1..l : i < j => SysrefAhead(t[p[i]], t[p[j]])
<1> DEFINE Rk(r) == IF r["grp"] = Null THEN 1 ELSE 0
           beyond == {i \in 1..Len(t) :
                       \/ c = <<>>
                       \/ /\ t[i]["grp"] # Null
                          /\ \/ t[i]["grp"] > c[1]
                             \/ t[i]["grp"] = c[1] /\ t[i]["id"] > c[2]}
           Less(i, j) == LET r == t[i] q == t[j] IN
                    \/ Rk(r) < Rk(q)
                    \/ Rk(r) = Rk(q) /\ \/ r["grp"] < q["grp"]
                                        \/ r["grp"] = q["grp"] /\ r["id"] < q["id"]
                                        \/ r["grp"] = q["grp"] /\ r["id"] = q["id"] /\ i < j
           before == [j \in beyond |-> {i \in beyond : Less(i, j)}]
           p == Page(before, n)
           s == FetchChunkSysref(t, "grp", "id", n, c)
           l == Len(s)
           C == {x \in beyond : l = n => x = p[l] \/ x \in before[p[l]]}
           E == {x \in 1..Len(t) : ~BySysref(c, t[x]) /\ (l = n => BySysref(<<s[l].grp, s[l].id>>, t[x]))}
<1>1. \A i \in 1..Len(t) : t[i].id \in Int /\ t[i].grp \in Int /\ t[i].grp # Null
  BY TableRows DEF AllNamed
<1>2. \A i, j \in 1..Len(t) : i # j => t[i].id # t[j].id \/ t[i].grp # t[j].grp
  BY DEF Unique
<1>3. DOMAIN before = beyond /\ \A i \in beyond : i \in 1..Len(t)
  OBVIOUS
<1>4. \A i, j \in beyond : i \in before[j] <=> SysrefAhead(t[i], t[j])
  <2>1. \A i, j \in beyond : i \in before[j] <=> Less(i, j)
    OBVIOUS
  <2>2. \A i, j \in beyond : Less(i, j) <=> SysrefAhead(t[i], t[j])
    <3>1. \A i \in beyond : Rk(t[i]) = 0
      BY <1>1
    <3>2. \A i, j \in beyond : ~(t[i].grp = t[j].grp /\ t[i].id = t[j].id /\ i < j)
      BY <1>2
    <3> QED BY <1>1, <3>1, <3>2 DEF SysrefAhead
  <2> QED BY <2>1, <2>2
<1>5. \A j \in beyond : \A i \in before[j] : i \in beyond
  OBVIOUS
<1>6. IsFiniteSet(beyond)
  <2>1. IsFiniteSet(1..Len(t))
    BY FS_Interval, TableRows
  <2>2. beyond \subseteq 1..Len(t)
    OBVIOUS
  <2> HIDE DEF beyond
  <2> QED BY <2>1, <2>2, FS_Subset
<1>7. s = RowsAt(t, p)
  BY DEF FetchChunkSysref
<1>8. \A x \in 1..Len(t) : x \in beyond <=> ~BySysref(c, t[x])
  <2>1. CASE c = <<>>
    BY <2>1 DEF BySysref
  <2>2. ASSUME NEW g \in Int, NEW k \in Int, c = <<g, k>> PROVE \A x \in 1..Len(t) : x \in beyond <=> ~BySysref(c, t[x])
    <3>1. c # <<>> /\ c[1] = g /\ c[2] = k
      BY <2>2
    <3> QED BY <1>1, <3>1 DEF BySysref
  <2> QED BY <2>1, <2>2
<1> HIDE DEF beyond, before
<1>9. Ordered(before)
  <2>1. \A i, j \in beyond : i # j => i \in before[j] \/ j \in before[i]
    BY <1>1, <1>2, <1>3, <1>4 DEF SysrefAhead
  <2>2. \A i \in beyond : i \notin before[i]
    BY <1>1, <1>3, <1>4 DEF SysrefAhead
  <2>3. \A i, j, k \in beyond : i \in before[j] /\ k \in before[i] => k \in before[j]
    BY <1>1, <1>3, <1>4 DEF SysrefAhead
  <2> QED BY <1>3, <1>5, <2>1, <2>2, <2>3 DEF Ordered
<1>10. /\ l \in Nat /\ l <= n /\ IsSeq(s)
       /\ DrawnBy(p, s, t, C)
       /\ \A i, j \in 1..l : i < j => p[i] \in before[p[j]]
       /\ l > 0 => p[l] \in beyond /\ s[l] = t[p[l]]
  <2> DEFINE r == RowsAt(t, p)
  <2>1. /\ Len(r) \in Nat /\ Len(r) <= n /\ IsSeq(r)
        /\ DrawnBy(p, r, t, {x \in DOMAIN before : Len(r) = n => x = p[Len(r)] \/ x \in before[p[Len(r)]]})
        /\ \A i, j \in 1..Len(r) : i < j => p[i] \in before[p[j]]
        /\ Len(r) > 0 => p[Len(r)] \in DOMAIN before /\ r[Len(r)] = t[p[Len(r)]]
    BY <1>3, <1>6, <1>9, ChunkCut
  <2> HIDE DEF p, s
  <2> QED BY <1>3, <1>7, <2>1
<1> HIDE DEF p, s
<1>11. l = n => \A x \in beyond : x = p[l] \/ x \in before[p[l]] <=> BySysref(<<s[l].grp, s[l].id>>, t[x])
  <2>1. \A g, k : <<g, k>> # <<>> /\ <<g, k>>[1] = g /\ <<g, k>>[2] = k
    OBVIOUS
  <2>2. \A x \in beyond : BySysref(<<s[l].grp, s[l].id>>, t[x]) <=>
          t[x].grp < s[l].grp \/ (t[x].grp = s[l].grp /\ t[x].id <= s[l].id)
    BY <2>1 DEF BySysref
  <2>3. ASSUME l = n, NEW x \in beyond
        PROVE  x = p[l] \/ SysrefAhead(t[x], t[p[l]]) <=> t[x].grp < s[l].grp \/ (t[x].grp = s[l].grp /\ t[x].id <= s[l].id)
    <3>1. p[l] \in beyond /\ s[l] = t[p[l]]
      BY <1>10, <2>3
    <3> QED BY <1>1, <1>2, <1>3, <3>1 DEF SysrefAhead
  <2>4. ASSUME l = n, NEW x \in beyond PROVE x \in before[p[l]] <=> SysrefAhead(t[x], t[p[l]])
    <3>1. p[l] \in beyond
      BY <1>10, <2>4
    <3> QED BY <1>4, <3>1
  <2> QED BY <2>2, <2>3, <2>4
<1>12. C = E
  <2>1. \A x \in beyond : x \in C <=> x \in E
    BY <1>3, <1>8, <1>11
  <2>2. (\A x \in C : x \in beyond) /\ \A x \in E : x \in beyond
    BY <1>8
  <2> QED BY <2>1, <2>2
<1>13. \A i, j \in 1..l : i < j => SysrefAhead(t[p[i]], t[p[j]])
  <2>1. \A i \in 1..l : p[i] \in beyond
    BY <1>10 DEF DrawnBy
  <2> QED BY <1>4, <1>10, <2>1
<1>14. DrawnBy(p, s, t, E)
  BY <1>10, <1>12
<1>15. l > 0 => s[l].grp \in Int /\ s[l].grp # Null /\ s[l].id \in Int /\ ~BySysref(c, s[l])
  BY <1>1, <1>3, <1>8, <1>10
<1> HIDE DEF l, C
<1>16. \E q : DrawnBy(q, s, t, E) /\ \A i, j \in 1..l : i < j => SysrefAhead(t[q[i]], t[q[j]])
  BY <1>13, <1>14
<1> HIDE DEF E
<1>17. /\ l \in Nat /\ l <= n /\ IsSeq(s)
       /\ l > 0 => s[l].grp \in Int /\ s[l].grp # Null /\ s[l].id \in Int /\ ~BySysref(c, s[l])
       /\ \E q : DrawnBy(q, s, t, E) /\ \A i, j \in 1..l : i < j => SysrefAhead(t[q[i]], t[q[j]])
  BY <1>10, <1>15, <1>16
<1> QED BY <1>17 DEF E, l, s

-----------------------------------------------------------------------------
(* A page of group keys has the rows of the keys beyond the cursor, when   *)
(* it is full up to its last key.                                          *)
LEMMA GroupPage ==
  ASSUME NEW t, IsTable(t), NEW last \in Int, NEW n \in Nat \ {0}
  PROVE  LET ks == DistinctKeys(t, "grp", n, last)
             l  == Len(ks)
         IN  /\ l \in Nat /\ l <= n
             /\ l > 0 => ks[l] \in Int /\ ks[l] > last
             /\ \A x \in 1..Len(t) : t[x].grp \in Range(ks) <=>
                  ~ByGroup(last, t[x]) /\ (l = n => ByGroup(ks[l], t[x]))
<1> DEFINE V == {v \in Values(t, "grp") : v > last}
           before == InOrder(V)
           ks == Page(before, n)
           s == RowsAt(<<>>, ks)
           l == Len(ks)
           C == {x \in DOMAIN before : Len(s) = n => x = ks[Len(s)] \/ x \in before[ks[Len(s)]]}
<1>1. Len(t) \in Nat /\ \A x \in 1..Len(t) : t[x].grp \in Int
  BY TableRows
<1>2. \A v : v \in V <=> v \in Int /\ v > last /\ \E x \in 1..Len(t) : t[x].grp = v
  BY <1>1 DEF Values
<1>3. IsFiniteSet(V)
  <2> DEFINE D == 1..Len(t)
             f == [i \in D |-> t[i].grp]
  <2>1. IsFiniteSet(D)
    BY <1>1, FS_Interval
  <2>2. f = [i \in D |-> f[i]]
    OBVIOUS
  <2>3. \A v \in V : v \in {f[i] : i \in D}
    BY <1>2
  <2> HIDE DEF D, f, V
  <2>4. IsFiniteSet({f[i] : i \in D})
    BY <2>1, <2>2, FiniteValues
  <2>5. V \subseteq {f[i] : i \in D}
    BY <2>3
  <2> QED BY <2>4, <2>5, FS_Subset
<1> HIDE DEF V
<1>4. DOMAIN before = V /\ \A i, j \in V : j \in before[i] <=> j < i
  BY DEF InOrder
<1>5. \A i \in V : \A j \in before[i] : j \in V
  BY DEF InOrder
<1> HIDE DEF before
<1>6. Ordered(before)
  BY <1>2, <1>4, <1>5 DEF Ordered
<1>7. /\ Len(s) \in Nat /\ Len(s) <= n
      /\ DrawnBy(ks, s, <<>>, C)
      /\ Len(s) > 0 => ks[Len(s)] \in DOMAIN before
  <2>1. IsFiniteSet(DOMAIN before)
    BY <1>3, <1>4
  <2> QED BY <1>6, <2>1, ChunkCut
<1>8. l \in Nat /\ DOMAIN ks = 1..l
  <2> DEFINE m == Lesser(n, Cardinality(DOMAIN before))
  <2>1. m \in Nat /\ Len(ks) = m /\ DOMAIN ks = 1..m
    BY <1>3, <1>4, <1>6, PageHolds
  <2> HIDE DEF m, ks
  <2> QED BY <2>1
<1> HIDE DEF ks
<1>9. Len(s) = l
  BY <1>8 DEF RowsAt
<1> HIDE DEF s
<1>10. \A v : v \in Range(ks) <=> v \in C
  <2>1. \A v : v \in Range(ks) <=> \E i \in 1..l : ks[i] = v
    BY <1>8 DEF Range
  <2>2. \A i \in 1..l : ks[i] \in C
    BY <1>7, <1>9 DEF DrawnBy
  <2>3. \A v \in C : \E i \in 1..l : ks[i] = v
    BY <1>7, <1>9 DEF DrawnBy
  <2> QED BY <2>1, <2>2, <2>3
<1>11. l > 0 => ks[l] \in V
  BY <1>4, <1>7, <1>9
<1>12. \A v : v \in C <=> v \in V /\ (l = n => v <= ks[l])
  <2>1. \A v : v \in C <=> v \in V /\ (l = n => v = ks[l] \/ v \in before[ks[l]])
    BY <1>4, <1>9
  <2>2. ASSUME l = n, NEW v \in V PROVE v = ks[l] \/ v \in before[ks[l]] <=> v <= ks[l]
    <3>1. ks[l] \in V
      BY <1>11, <2>2
    <3>2. v \in Int /\ ks[l] \in Int
      BY <1>2, <3>1
    <3> QED BY <1>4, <3>1, <3>2
  <2> QED BY <2>1, <2>2
<1>13. ASSUME NEW x \in 1..Len(t)
       PROVE  t[x].grp \in Range(ks) <=> ~ByGroup(last, t[x]) /\ (l = n => ByGroup(ks[l], t[x]))
  <2>1. t[x].grp \in V <=> ~ByGroup(last, t[x])
    BY <1>1, <1>2 DEF ByGroup
  <2> QED BY <1>10, <1>12, <2>1 DEF ByGroup
<1>14. l > 0 => ks[l] \in Int /\ ks[l] > last
  BY <1>2, <1>11
<1>15. l <= n
  BY <1>7, <1>9
<1>16. DistinctKeys(t, "grp", n, last) = ks
  BY DEF DistinctKeys, ks, before, V
<1> QED BY <1>8, <1>13, <1>14, <1>15, <1>16 DEF l

LEMMA RowsByKeysDraw ==
  ASSUME NEW t, IsTable(t), NEW keys
  PROVE  Drawn(RowsByKeys(t, "grp", keys), t, {x \in 1..Len(t) : t[x].grp # Null /\ t[x].grp \in keys})
<1> DEFINE set == {x \in 1..Len(t) : t[x]["grp"] # Null /\ t[x]["grp"] \in keys}
<1>1. Len(t) \in Nat /\ \A x \in set : x \in 1..Len(t)
  BY TableRows
<1>2. RowsByKeys(t, "grp", keys) = RowsIn(t, set)
  BY DEF RowsByKeys
<1> HIDE DEF set
<1>3. Drawn(RowsIn(t, set), t, set)
  BY <1>1, RowsInDraws
<1> QED BY <1>2, <1>3 DEF set

(* The key that comes last into the map of a sequence whose rows, from the *)
(* first one of the key of the last row on, are all of that key.           *)
LEMMA LastKeyIs ==
  ASSUME NEW s, Len(s) \in Nat, Len(s) > 0,
         \A i, j \in 1..Len(s) : i <= j /\ KeyOf(s[i]) = KeyOf(s[Len(s)]) => KeyOf(s[j]) = KeyOf(s[Len(s)])
  PROVE  LastKey(s) = KeyOf(s[Len(s)])
<1> DEFINE n == Len(s)
           first(k) == CHOOSE i \in 1..n : KeyOf(s[i]) = k /\ \A j \in 1..(i - 1) : KeyOf(s[j]) # k
           K == KeyOf(s[n])
<1>1. ASSUME NEW k \in Keys(s)
      PROVE  first(k) \in 1..n /\ KeyOf(s[first(k)]) = k /\ \A j \in 1..(first(k) - 1) : KeyOf(s[j]) # k
  <2> DEFINE at == {i \in 1..n : KeyOf(s[i]) = k}
  <2>1. at # {} /\ \A i \in at : i \in Nat
    BY DEF Keys
  <2>2. at \subseteq Nat
    BY <2>1
  <2>3. PICK i \in at : \A j \in at : i <= j
    <3> HIDE DEF at
    <3> QED BY <2>1, <2>2, NatHasLeast
  <2>4. i \in 1..n /\ KeyOf(s[i]) = k /\ \A j \in 1..(i - 1) : KeyOf(s[j]) # k
    BY <2>3
  <2> QED BY <2>4
<1>2. K \in Keys(s) /\ n \in 1..n
  BY DEF Keys
<1>3. ASSUME NEW k \in Keys(s), k # K PROVE first(k) < first(K)
  <2>1. /\ first(k) \in 1..n /\ first(K) \in 1..n
        /\ KeyOf(s[first(k)]) = k /\ KeyOf(s[first(K)]) = K
    BY <1>1, <1>2
  <2> HIDE DEF first
  <2>2. ~(first(K) <= first(k))
    BY <1>3, <2>1
  <2> QED BY <2>1, <2>2
<1>4. LastKey(s) = CHOOSE k \in Keys(s) : \A q \in Keys(s) : first(q) <= first(k)
  BY DEF LastKey
<1>5. \A k \in Keys(s) : first(k) \in 1..n
  BY <1>1
<1> HIDE DEF first
<1>6. \A q \in Keys(s) : first(q) <= first(K)
  BY <1>2, <1>3, <1>5
<1>7. \A k \in Keys(s) : (\A q \in Keys(s) : first(q) <= first(k)) => k = K
  BY <1>2, <1>3, <1>5
<1> QED BY <1>2, <1>4, <1>6, <1>7

-----------------------------------------------------------------------------
(* What is to be compared.                                                 *)

RowModes  == {"MASTER", "MULTI-ROW"}
KeyPages  == PageModes \cup {"HEADER"}
ScanModes == KeyPages \cup CarryModes \cup RowModes

(* The key under which a row is compared, the rows of it in a source, and  *)
(* the keys that ComparedOnce is about.                                    *)
KeyFor(row) == IF InMode(RowModes) THEN IdOf(row) ELSE KeyOf(row)
Positions(i, k) == {x \in 1..Len(input.sources[i]) : KeyFor(input.sources[i][x]) = k}
IsWanted(i, k) == Positions(i, k) # {} /\ (k = Blank => InMode(RowModes))

(* What ComparedOnce asks of a source in its mode.                         *)
Orderly(i) ==
  LET t == input.sources[i]
  IN  /\ Sysref => Unique(t, {"grp", "id"}) /\ AllNamed(t)
      /\ InMode({"MULTI", "UNION"} \cup RowModes) => Unique(t, {"id"}) /\ AllAnchored(t)
      /\ InMode({"MULTI", "UNION"}) => Contiguous(t)

(* The rows that the cursor c has passed.                                  *)
SeenAt(c, row) ==
  IF Sysref THEN BySysref(c, row) ELSE IF InMode(KeyPages) THEN ByGroup(c, row) ELSE ByAnchor(c, row)
Seen(i, c) == {x \in 1..Len(input.sources[i]) : SeenAt(c, input.sources[i][x])}

-----------------------------------------------------------------------------
(* The invariant.  A wanted key has been compared, all its rows seen and   *)
(* none held back; or it has not, and those of its rows that were seen are *)
(* those held back.                                                        *)

Whole(cmp, i, k) ==
  <<i, k>> \in DOMAIN cmp /\ \E c : cmp[<<i, k>>] = <<c>> /\ Drawn(c, input.sources[i], Positions(i, k))

Progress(cmp, i, k, seen, held) ==
  \/ Whole(cmp, i, k) /\ \A x \in Positions(i, k) : x \in seen /\ x \notin held
  \/ <<i, k>> \notin DOMAIN cmp /\ \A x \in Positions(i, k) : x \in seen <=> x \in held

Sound(cmp, i) == \A k : IsWanted(i, k) => Whole(cmp, i, k)
Untouched(cmp, i) == \A k : <<i, k>> \notin DOMAIN cmp

Scanned(cmp, i, seen, carry) ==
  \E held : /\ Drawn(carry, input.sources[i], held)
            /\ \A x \in held : x \in seen /\ x \in 1..Len(input.sources[i])
            /\ \A x, y \in held : KeyOf(input.sources[i][x]) = KeyOf(input.sources[i][y])
            /\ \A k : IsWanted(i, k) => Progress(cmp, i, k, seen, held)

Once(ph, s, c, carry, rows, cmp) ==
  /\ ph = "begin" => s = 1 /\ c = Start /\ carry = <<>> /\ rows = 0 /\ cmp = <<>>
  /\ ph \in {"scan", "flush"} =>
       /\ s \in 1..Len(input.sources)
       /\ \A i \in 1..Len(input.sources) :
            /\ i < s /\ i \in ReadSources /\ Orderly(i) => Sound(cmp, i)
            /\ i > s => Untouched(cmp, i)
       /\ Orderly(s) => /\ Scanned(cmp, s, IF ph = "scan" THEN Seen(s, c) ELSE 1..Len(input.sources[s]), carry)
                        /\ IF Sysref THEN c = <<>> \/ \E g, n \in Int : c = <<g, n>> ELSE c \in Int
       /\ ~InMode(CarryModes) => carry = <<>>
       /\ ph = "flush" => InMode(CarryModes)
       /\ InMode({"MULTI-SS"}) /\ s \in input.keyless => ph = "scan" /\ carry = <<>>
  /\ ph \in {"reverse", "count", "done"} /\ rows > 0 =>
       \A i \in ReadSources : Orderly(i) => Sound(cmp, i)

OnceInv ==
  /\ \E some \in Inputs : input \in some
  /\ InMode(ScanModes) => Once(phase, src, cursor, carryOld, rowsChecked, compared)

-----------------------------------------------------------------------------
(* The table validated does not change.                                    *)
LEMMA InputStays ==
  ASSUME input' = input
  PROVE  OnceInv' <=> /\ \E some \in Inputs : input \in some
                      /\ InMode(ScanModes) => Once(phase', src', cursor', carryOld', rowsChecked', compared')
<1>1. \A m : InMode(m)' <=> InMode(m)
  BY DEF InMode
<1>2. \A row : KeyFor(row)' = KeyFor(row)
  BY <1>1 DEF KeyFor
<1>3. \A i, k : Positions(i, k)' = Positions(i, k)
  BY <1>2 DEF Positions
<1>4. \A i, k : IsWanted(i, k)' <=> IsWanted(i, k)
  BY <1>1, <1>3 DEF IsWanted
<1>5. Sysref' <=> Sysref
  BY <1>1 DEF Sysref
<1>6. \A i : Orderly(i)' <=> Orderly(i)
  BY <1>1, <1>5 DEF Orderly
<1>7. Start' = Start
  BY <1>5 DEF Start
<1>8. \A i, c : Seen(i, c)' = Seen(i, c)
  <2>1. \A c, row : SeenAt(c, row)' <=> SeenAt(c, row)
    BY <1>1, <1>5 DEF SeenAt
  <2> QED BY <2>1 DEF Seen
<1>9. ReadSources' = ReadSources
  <2>1. \A i : IsRead(i)' <=> IsRead(i)
    BY <1>1 DEF IsRead, Rule
  <2> QED BY <1>1, <2>1 DEF ReadSources
<1>10. \A cmp, i, k : Whole(cmp, i, k)' <=> Whole(cmp, i, k)
  BY <1>3 DEF Whole
<1>11. \A cmp, i : Sound(cmp, i)' <=> Sound(cmp, i)
  BY <1>4, <1>10 DEF Sound
<1>12. \A cmp, i, k, seen, held : Progress(cmp, i, k, seen, held)' <=> Progress(cmp, i, k, seen, held)
  BY <1>3, <1>10 DEF Progress
<1>13. \A cmp, i, seen, carry : Scanned(cmp, i, seen, carry)' <=> Scanned(cmp, i, seen, carry)
  BY <1>4, <1>12 DEF Scanned
<1>14. \A ph, s, c, carry, rows, cmp : Once(ph, s, c, carry, rows, cmp)' <=> Once(ph, s, c, carry, rows, cmp)
  BY <1>1, <1>5, <1>6, <1>7, <1>8, <1>9, <1>11, <1>13 DEF Once
<1>15. OnceInv' <=> /\ \E some \in Inputs : input' \in some
                    /\ InMode(ScanModes)' => Once(phase, src, cursor, carryOld, rowsChecked, compared)'
  BY DEF OnceInv
<1> QED BY <1>1, <1>14, <1>15

-----------------------------------------------------------------------------
(* A turn of the scan.                                                     *)

LEMMA Recorded ==
  ASSUME NEW made, Record(made)
  PROVE  /\ DOMAIN compared' = DOMAIN compared \cup DOMAIN made
         /\ \A p \in DOMAIN made : p \notin DOMAIN compared =>
              \A c : made[p] = <<c>> => compared'[p] = <<c>>
         /\ \A p \in DOMAIN compared : p \notin DOMAIN made =>
              \A c : compared[p] = <<c>> => compared'[p] = <<c>>
<1> DEFINE of(f, p) == IF p \in DOMAIN f THEN f[p] ELSE <<>>
           all == DOMAIN compared \cup DOMAIN made
<1>1. compared' = [p \in all |-> of(compared, p) \o of(made, p)]
  BY DEF Record
<1>2. \A c : <<c>> \o <<>> = <<c>> /\ <<>> \o <<c>> = <<c>>
  <2>1. ASSUME NEW c PROVE <<c>> \o <<>> = <<c>> /\ <<>> \o <<c>> = <<c>>
    <3>1. <<c>> \in Seq({c})
      OBVIOUS
    <3> QED BY <3>1, ConcatEmptySeq
  <2> QED BY <2>1
<1>3. ASSUME NEW p \in DOMAIN made, p \notin DOMAIN compared, NEW c, made[p] = <<c>> PROVE compared'[p] = <<c>>
  <2>1. of(compared, p) = <<>> /\ of(made, p) = <<c>> /\ p \in all
    BY <1>3
  <2> HIDE DEF of, all
  <2>2. compared'[p] = <<>> \o <<c>>
    BY <1>1, <2>1
  <2> QED BY <1>2, <2>2
<1>4. ASSUME NEW p \in DOMAIN compared, p \notin DOMAIN made, NEW c, compared[p] = <<c>> PROVE compared'[p] = <<c>>
  <2>1. of(made, p) = <<>> /\ of(compared, p) = <<c>> /\ p \in all
    BY <1>4
  <2> HIDE DEF of, all
  <2>2. compared'[p] = <<c>> \o <<>>
    BY <1>1, <2>1
  <2> QED BY <1>2, <2>2
<1> QED BY <1>1, <1>3, <1>4

(* The groups of other sources are as they were.                           *)
LEMMA OthersStay ==
  ASSUME NEW made, Record(made), NEW i, \A k : <<i, k>> \notin DOMAIN made
  PROVE  /\ Sound(compared, i) => Sound(compared', i)
         /\ Untouched(compared, i) => Untouched(compared', i)
<1>1. \A k : Whole(compared, i, k) => Whole(compared', i, k)
  BY Recorded DEF Whole
<1>2. \A k : <<i, k>> \notin DOMAIN compared => <<i, k>> \notin DOMAIN compared'
  BY Recorded
<1> QED BY <1>1, <1>2 DEF Sound, Untouched

(* One key in a turn that reads the rows C and compares, of the rows O     *)
(* that are then at hand, those of the keys in made; the rows held2 of the *)
(* others are held back.                                                   *)
TurnOf(made, i, k, seen, held, C, O, seen2, held2) ==
  LET P == Positions(i, k)
  IN  /\ \A x \in held : x \in seen
      /\ \A x \in C : x \notin seen
      /\ \A x \in P : x \in seen2 <=> x \in seen \/ x \in C
      /\ \A x \in P : x \in O <=> x \in held \/ x \in C
      /\ <<i, k>> \in DOMAIN made =>
           /\ \E x \in P : x \in O
           /\ \A x \in P : x \in seen2 /\ x \notin held2
           /\ (\A x \in P : x \in O) => \E c : made[<<i, k>>] = <<c>> /\ Drawn(c, input.sources[i], P)
      /\ <<i, k>> \notin DOMAIN made => \A x \in P : x \in O <=> x \in held2

LEMMA Turn ==
  ASSUME NEW made, Record(made), NEW i, NEW k,
         NEW seen, NEW held, NEW C, NEW O, NEW seen2, NEW held2,
         Progress(compared, i, k, seen, held),
         TurnOf(made, i, k, seen, held, C, O, seen2, held2)
  PROVE  Progress(compared', i, k, seen2, held2)
<1> DEFINE P == Positions(i, k)
           p == <<i, k>>
<1>1. /\ DOMAIN compared' = DOMAIN compared \cup DOMAIN made
      /\ p \in DOMAIN made /\ p \notin DOMAIN compared => \A c : made[p] = <<c>> => compared'[p] = <<c>>
      /\ p \in DOMAIN compared /\ p \notin DOMAIN made => \A c : compared[p] = <<c>> => compared'[p] = <<c>>
  BY Recorded
<1> USE DEF TurnOf
<1>2. CASE p \in DOMAIN made
  <2>1. PICK x \in P : x \in O
    BY <1>2
  <2>2. p \notin DOMAIN compared /\ \A y \in P : y \in seen <=> y \in held
    <3>1. x \in held \/ x \in C
      BY <2>1
    <3>2. ~(x \in seen /\ x \notin held)
      BY <3>1
    <3> QED BY <3>2 DEF Progress
  <2>3. \A y \in P : y \in O
    BY <1>2, <2>2
  <2>4. PICK c : made[p] = <<c>> /\ Drawn(c, input.sources[i], P)
    BY <1>2, <2>3
  <2>5. p \in DOMAIN compared' /\ compared'[p] = <<c>>
    BY <1>1, <1>2, <2>2, <2>4
  <2>6. Whole(compared', i, k)
    BY <2>4, <2>5 DEF Whole
  <2> QED BY <1>2, <2>6 DEF Progress
<1>3. CASE p \notin DOMAIN made
  <2>1. CASE Whole(compared, i, k) /\ \A x \in P : x \in seen /\ x \notin held
    <3>1. Whole(compared', i, k)
      BY <1>1, <1>3, <2>1 DEF Whole
    <3>2. \A x \in P : x \in seen2 /\ x \notin held2
      BY <1>3, <2>1
    <3> QED BY <3>1, <3>2 DEF Progress
  <2>2. CASE p \notin DOMAIN compared /\ \A x \in P : x \in seen <=> x \in held
    <3>1. p \notin DOMAIN compared'
      BY <1>1, <1>3, <2>2
    <3>2. \A x \in P : x \in seen2 <=> x \in held2
      BY <1>3, <2>2
    <3> QED BY <3>1, <3>2 DEF Progress
  <2> QED BY <2>1, <2>2 DEF Progress
<1> QED BY <1>2, <1>3

(* A source of which every row was seen and none is held back is compared. *)
LEMMA AllCompared ==
  ASSUME NEW cmp, NEW i, NEW seen, Scanned(cmp, i, seen, <<>>),
         \A k : IsWanted(i, k) => \A x \in Positions(i, k) : x \in seen
  PROVE  Sound(cmp, i)
<1>1. PICK held : /\ Drawn(<<>>, input.sources[i], held)
                  /\ \A k : IsWanted(i, k) => Progress(cmp, i, k, seen, held)
  BY DEF Scanned
<1>2. held = {}
  BY <1>1 DEF Drawn, DrawnBy
<1>3. ASSUME NEW k, IsWanted(i, k) PROVE Whole(cmp, i, k)
  <2>1. PICK x \in Positions(i, k) : TRUE
    BY <1>3 DEF IsWanted
  <2>2. x \in seen /\ x \notin held
    BY <1>2, <1>3, <2>1
  <2> QED BY <1>1, <1>3, <2>1, <2>2 DEF Progress
<1> QED BY <1>3 DEF Sound

LEMMA NothingDrawn ==
  ASSUME NEW t
  PROVE  Drawn(<<>>, t, {})
<1>1. IsSeq(<<>>)
  BY DEF IsSeq
<1>2. DrawnBy(<<>>, <<>>, t, {})
  BY DEF DrawnBy
<1> QED BY <1>1, <1>2 DEF Drawn

-----------------------------------------------------------------------------
(* From one source to the next.                                            *)

LEMMA SourceFacts ==
  ASSUME \E some \in Inputs : input \in some
  PROVE  /\ Len(input.sources) \in Nat
         /\ \A i \in 1..Len(input.sources) : IsTable(input.sources[i])
         /\ InMode({"MASTER", "HEADER"}) => Len(input.sources) = 1
<1>1. /\ input.sources \in Seq(Range(input.sources))
      /\ \A t \in Range(input.sources) : IsTable(t)
      /\ input.mode \in {"TX-GP", "TX-CK", "TX-SS", "MASTER", "SPLIT", "HEADER"} => Len(input.sources) = 1
  BY InputAssumption
<1>2. Len(input.sources) \in Nat /\ DOMAIN input.sources = 1..Len(input.sources)
  BY <1>1, LenProperties
<1>3. \A i \in 1..Len(input.sources) : input.sources[i] \in Range(input.sources)
  BY <1>2 DEF Range
<1> QED BY <1>1, <1>2, <1>3 DEF InMode

(* At the start of a source nothing that is wanted of it has been passed.  *)
LEMMA StartUnseen ==
  ASSUME \E some \in Inputs : input \in some, InMode(ScanModes),
         NEW i \in 1..Len(input.sources), Orderly(i), NEW k, IsWanted(i, k), NEW x \in Positions(i, k)
  PROVE  x \notin Seen(i, Start)
<1> DEFINE t == input.sources[i]
           row == t[x]
<1>1. IsTable(t)
  BY SourceFacts
<1>2. x \in 1..Len(t) /\ KeyFor(row) = k
  BY DEF Positions
<1>3. row.id \in Int /\ row.id >= Null /\ row.grp \in Int /\ row.grp >= Null /\ row \in Range(t)
  BY <1>1, <1>2, TableRows
<1>4. ~SeenAt(Start, row)
  <2>1. CASE Sysref
    BY <2>1 DEF SeenAt, Start, BySysref
  <2>2. CASE ~Sysref /\ InMode(KeyPages)
    <3>1. ~InMode(RowModes)
      BY <2>2 DEF InMode, KeyPages, PageModes, RowModes
    <3>2. KeyOf(row) # Blank
      BY <1>2, <3>1 DEF IsWanted, KeyFor
    <3>3. row.grp # Null
      BY <3>2 DEF KeyOf, Trimmed
    <3> QED BY <1>3, <2>2, <3>3 DEF SeenAt, Start, ByGroup, Null
  <2>3. CASE ~Sysref /\ ~InMode(KeyPages)
    <3>1. InMode({"MULTI", "UNION"} \cup RowModes)
      BY <2>3 DEF InMode, ScanModes, KeyPages, CarryModes, RowModes, Sysref
    <3>2. row.id # Null
      BY <1>3, <3>1 DEF Orderly, AllAnchored
    <3> QED BY <1>3, <2>3, <3>2 DEF SeenAt, Start, ByAnchor, Null
  <2> QED BY <2>1, <2>2, <2>3
<1> QED BY <1>4 DEF Seen

LEMMA StartScanned ==
  ASSUME \E some \in Inputs : input \in some, InMode(ScanModes),
         NEW i \in 1..Len(input.sources), Orderly(i), NEW cmp, Untouched(cmp, i)
  PROVE  Scanned(cmp, i, Seen(i, Start), <<>>)
<1>1. Drawn(<<>>, input.sources[i], {})
  BY NothingDrawn
<1>2. ASSUME NEW k, IsWanted(i, k) PROVE Progress(cmp, i, k, Seen(i, Start), {})
  <2>1. \A x \in Positions(i, k) : x \notin Seen(i, Start)
    BY <1>2, StartUnseen
  <2> QED BY <2>1 DEF Progress, Untouched
<1> QED BY <1>1, <1>2 DEF Scanned

(* The n first sources have been compared, or need not be.                 *)
LEMMA NextSource ==
  ASSUME \E some \in Inputs : input \in some, input' = input, InMode(ScanModes), carryOld' = <<>>,
         NEW n \in Nat, n <= Len(input.sources), NEW m, m = n + 1, ReadFrom(m),
         \A i \in 1..Len(input.sources) :
           /\ i <= n /\ i \in ReadSources /\ Orderly(i) => Sound(compared', i)
           /\ i > n => Untouched(compared', i)
  PROVE  OnceInv'
<1> DEFINE l == Len(input.sources)
           next == {j \in m..l : IsRead(j)}
<1>1. l \in Nat
  BY SourceFacts
<1>2. CASE next # {}
  <2>1. src' = Min(next) /\ cursor' = Start /\ phase' = "scan"
    BY <1>2 DEF ReadFrom
  <2>2. src' \in next /\ \A j \in next : src' <= j
    <3>1. next \subseteq Nat
      BY <1>1
    <3> HIDE DEF next
    <3> QED BY <1>2, <2>1, <3>1, MinIsSmallest
  <2>3. src' \in 1..l /\ src' > n
    BY <1>1, <2>2
  <2>4. ASSUME NEW i \in 1..l, i < src', i \in ReadSources, Orderly(i) PROVE Sound(compared', i)
    <3>1. CASE i <= n
      BY <2>4, <3>1
    <3>2. CASE i > n
      <4>1. i \in m..l
        BY <1>1, <3>2
      <4>2. i \in next
        BY <2>4, <4>1 DEF ReadSources
      <4> QED BY <1>1, <2>2, <2>3, <2>4, <4>2
    <3> QED BY <1>1, <3>1, <3>2
  <2>5. ASSUME NEW i \in 1..l, i > src' PROVE Untouched(compared', i)
    <3>1. i > n
      BY <1>1, <2>3, <2>5
    <3> QED BY <3>1
  <2>6. Untouched(compared', src')
    BY <2>3
  <2>7. Orderly(src') => Scanned(compared', src', Seen(src', cursor'), carryOld')
    BY <2>1, <2>3, <2>6, StartScanned
  <2>8. IF Sysref THEN cursor' = <<>> ELSE cursor' \in Int
    BY <2>1 DEF Start, Null
  <2> HIDE DEF next
  <2>9. Once(phase', src', cursor', carryOld', rowsChecked', compared')
    BY <2>1, <2>3, <2>4, <2>5, <2>7, <2>8 DEF Once
  <2> QED BY <2>9, InputStays
<1>3. CASE next = {}
  <2>1. phase' \in {"count", "done"}
    BY <1>3 DEF ReadFrom
  <2>2. ASSUME NEW i \in ReadSources, Orderly(i) PROVE Sound(compared', i)
    <3>1. i \in 1..l /\ IsRead(i)
      BY DEF ReadSources
    <3>2. i \notin m..l
      BY <1>3, <3>1
    <3>3. i <= n
      BY <1>1, <3>1, <3>2
    <3> QED BY <2>2, <3>1, <3>3
  <2> HIDE DEF next
  <2>3. Once(phase', src', cursor', carryOld', rowsChecked', compared')
    BY <2>1, <2>2 DEF Once
  <2> QED BY <2>3, InputStays
<1> QED BY <1>2, <1>3

OthersKept ==
  \A i : i # src => /\ Sound(compared, i) => Sound(compared', i)
                    /\ Untouched(compared, i) => Untouched(compared', i)

LEMMA ScanGoesOn ==
  ASSUME OnceInv, InMode(ScanModes), phase = "scan", input' = input, src' = src,
         phase' = "scan" \/ (phase' = "flush" /\ InMode(CarryModes)),
         ~(InMode({"MULTI-SS"}) /\ src \in input.keyless),
         ~InMode(CarryModes) => carryOld' = <<>>,
         OthersKept,
         Orderly(src) =>
           /\ Scanned(compared', src, IF phase' = "scan" THEN Seen(src, cursor') ELSE 1..Len(Source), carryOld')
           /\ IF Sysref THEN cursor' = <<>> \/ \E g, n \in Int : cursor' = <<g, n>> ELSE cursor' \in Int
  PROVE  OnceInv'
<1>1. /\ \E some \in Inputs : input \in some
      /\ Once(phase, src, cursor, carryOld, rowsChecked, compared)
  BY DEF OnceInv
<1>2. /\ src \in 1..Len(input.sources)
      /\ \A i \in 1..Len(input.sources) :
            /\ i < src /\ i \in ReadSources /\ Orderly(i) => Sound(compared, i)
            /\ i > src => Untouched(compared, i)
  BY <1>1 DEF Once
<1>3. \A i \in 1..Len(input.sources) :
            /\ i < src /\ i \in ReadSources /\ Orderly(i) => Sound(compared', i)
            /\ i > src => Untouched(compared', i)
  BY <1>2 DEF OthersKept
<1>4. Once(phase', src', cursor', carryOld', rowsChecked', compared')
  BY <1>2, <1>3 DEF Once, Source
<1> QED BY <1>1, <1>4, InputStays

LEMMA ScanEnds ==
  ASSUME OnceInv, InMode(ScanModes), phase \in {"scan", "flush"}, input' = input,
         ReadFrom(src + 1), carryOld' = <<>>, OthersKept,
         src \in ReadSources /\ Orderly(src) => Sound(compared', src)
  PROVE  OnceInv'
<1>1. /\ \E some \in Inputs : input \in some
      /\ Once(phase, src, cursor, carryOld, rowsChecked, compared)
  BY DEF OnceInv
<1>2. /\ src \in 1..Len(input.sources)
      /\ \A i \in 1..Len(input.sources) :
            /\ i < src /\ i \in ReadSources /\ Orderly(i) => Sound(compared, i)
            /\ i > src => Untouched(compared, i)
  BY <1>1 DEF Once
<1>3. Len(input.sources) \in Nat
  BY <1>1, SourceFacts
<1>4. src \in Nat /\ src <= Len(input.sources)
  BY <1>2, <1>3
<1>5. \A i \in 1..Len(input.sources) :
            /\ i <= src /\ i \in ReadSources /\ Orderly(i) => Sound(compared', i)
            /\ i > src => Untouched(compared', i)
  <2>1. \A i \in 1..Len(input.sources) : i < src \/ i = src \/ i > src
    BY <1>4
  <2>2. \A i \in 1..Len(input.sources) : (i < src \/ i > src => i # src) /\ (i <= src <=> ~(i > src))
    BY <1>4
  <2> QED BY <1>2, <2>1, <2>2 DEF OthersKept
<1> QED BY <1>1, <1>4, <1>5, NextSource

LEMMA RecordKeeps ==
  ASSUME NEW made, Record(made), \A i, k : i # src => <<i, k>> \notin DOMAIN made
  PROVE  OthersKept
BY OthersStay DEF OthersKept

(* In the modes that read pages of group keys every source is in order.    *)
LEMMA KeyPageMode ==
  ASSUME InMode(KeyPages)
  PROVE  /\ InMode(ScanModes) /\ ~Sysref /\ ~InMode(CarryModes) /\ ~InMode(RowModes) /\ ~InMode({"MULTI-SS"})
         /\ \A i : Orderly(i)
<1>1. /\ InMode(ScanModes) /\ ~Sysref /\ ~InMode(CarryModes) /\ ~InMode(RowModes) /\ ~InMode({"MULTI-SS"})
      /\ ~InMode({"MULTI", "UNION"} \cup RowModes) /\ ~InMode({"MULTI", "UNION"})
  BY DEF InMode, KeyPages, PageModes, ScanModes, CarryModes, RowModes, Sysref
<1> QED BY <1>1 DEF Orderly

LEMMA KeyPageState ==
  ASSUME OnceInv, InMode(KeyPages), phase = "scan"
  PROVE  /\ \E some \in Inputs : input \in some
         /\ src \in 1..Len(input.sources) /\ IsTable(Source) /\ Source = input.sources[src]
         /\ carryOld = <<>> /\ cursor \in Int
         /\ Scanned(compared, src, Seen(src, cursor), <<>>)
<1>1. /\ \E some \in Inputs : input \in some
      /\ Once(phase, src, cursor, carryOld, rowsChecked, compared)
  BY KeyPageMode DEF OnceInv
<1>2. /\ src \in 1..Len(input.sources)
      /\ carryOld = <<>> /\ cursor \in Int
      /\ Scanned(compared, src, Seen(src, cursor), carryOld)
  BY <1>1, KeyPageMode DEF Once
<1> QED BY <1>1, <1>2, SourceFacts DEF Source

LEMMA KeyPageTurn ==
  ASSUME OnceInv, InMode(KeyPages), phase = "scan", input' = input, carryOld' = carryOld,
         NEW n \in Nat \ {0}, NEW ks, ks = DistinctKeys(Source, "grp", n, cursor),
         NEW old, NEW O, Drawn(old, Source, O),
         \A x \in O : x \in 1..Len(Source) /\ Source[x].grp \in Range(ks),
         \A x \in 1..Len(Source) : Source[x].grp \in Range(ks) /\ KeyOf(Source[x]) # Blank => x \in O,
         NEW made, made = [p \in {src} \X Keys(old) |-> <<Group(old, p[2])>>], Record(made),
         IF Len(ks) < n THEN ReadFrom(src + 1)
         ELSE cursor' = ks[Len(ks)] /\ src' = src /\ phase' = phase
  PROVE  OnceInv'
<1> DEFINE t == Source
           l == Len(ks)
           seen == Seen(src, cursor)
           C == {x \in 1..Len(t) : t[x].grp \in Range(ks)}
           seen2 == seen \cup C
<1>1. /\ \E some \in Inputs : input \in some
      /\ src \in 1..Len(input.sources) /\ IsTable(t) /\ t = input.sources[src]
      /\ carryOld = <<>> /\ cursor \in Int
      /\ Scanned(compared, src, seen, <<>>)
  BY KeyPageState
<1>2. /\ l \in Nat /\ l <= n
      /\ l > 0 => ks[l] \in Int /\ ks[l] > cursor
      /\ \A x \in 1..Len(t) : t[x].grp \in Range(ks) <=>
           ~ByGroup(cursor, t[x]) /\ (l = n => ByGroup(ks[l], t[x]))
  BY <1>1, GroupPage
<1>3. \A c : Seen(src, c) = {x \in 1..Len(t) : ByGroup(c, t[x])}
  <2>1. \A c, row : SeenAt(c, row) <=> ByGroup(c, row)
    BY KeyPageMode DEF SeenAt
  <2> QED BY <1>1, <2>1 DEF Seen
<1>4. \A x \in 1..Len(t) : t[x].grp \in Int
  BY <1>1, TableRows
<1>5. \A k : Positions(src, k) = {x \in 1..Len(t) : KeyOf(t[x]) = k}
  <2>1. \A row : KeyFor(row) = KeyOf(row)
    BY KeyPageMode DEF KeyFor
  <2> QED BY <1>1, <2>1 DEF Positions
<1>6. PICK held : /\ Drawn(<<>>, t, held)
                  /\ \A k : IsWanted(src, k) => Progress(compared, src, k, seen, held)
  BY <1>1 DEF Scanned
<1>7. held = {}
  BY <1>6 DEF Drawn, DrawnBy
<1>8. Keys(old) = {KeyOf(t[x]) : x \in O}
  BY KeysDrawn
<1>9. \A i, k : <<i, k>> \in DOMAIN made <=> i = src /\ k \in Keys(old)
  OBVIOUS
<1>10. \A k \in Keys(old) : made[<<src, k>>] = <<Group(old, k)>>
  <2>1. \A k : <<src, k>>[2] = k
    OBVIOUS
  <2> QED BY <1>9, <2>1
<1>11. ASSUME NEW k, IsWanted(src, k) PROVE Progress(compared', src, k, seen2, {})
  <2>1. k # Blank
    BY <1>11, KeyPageMode DEF IsWanted
  <2> DEFINE P == Positions(src, k)
  <2>2. \A x \in P : x \in 1..Len(t) /\ KeyOf(t[x]) = k /\ t[x].grp = k
    BY <1>5, <2>1 DEF KeyOf, Trimmed
  <2>3. \A x \in 1..Len(t) : KeyOf(t[x]) = k => x \in P
    BY <1>5
  <2>4. \A x \in C : x \notin seen
    BY <1>2, <1>3
  <2>5. \A x \in P : x \in O <=> x \in C
    BY <2>1, <2>2
  <2>6. k \in Keys(old) => /\ \E x \in P : x \in O
                           /\ \A x \in P : x \in C
    <3>1. ASSUME k \in Keys(old) PROVE \E x \in P : x \in O
      <4>1. PICK x \in O : KeyOf(t[x]) = k
        BY <1>8, <3>1
      <4> QED BY <2>3, <4>1
    <3>2. ASSUME NEW x \in P, x \in O, NEW y \in P PROVE y \in C
      BY <2>2, <3>2
    <3> QED BY <3>1, <3>2
  <2>7. (\A x \in P : x \in O) => Drawn(Group(old, k), t, P)
    <3>1. Drawn(Group(old, k), t, {x \in O : KeyOf(t[x]) \in {k}})
      BY GroupsDraw DEF Group
    <3>2. ASSUME \A x \in P : x \in O PROVE {x \in O : KeyOf(t[x]) \in {k}} = P
      BY <2>2, <2>3, <3>2
    <3> QED BY <3>1, <3>2
  <2>8. k \notin Keys(old) => \A x \in P : x \notin O
    BY <1>8, <2>2
  <2>9. Progress(compared, src, k, seen, {})
    BY <1>6, <1>7, <1>11
  <2>10. <<src, k>> \in DOMAIN made =>
           /\ \E x \in P : x \in O
           /\ \A x \in P : x \in seen2 /\ x \notin {}
           /\ (\A x \in P : x \in O) =>
                 \E c : made[<<src, k>>] = <<c>> /\ Drawn(c, input.sources[src], P)
    <3>1. <<src, k>> \in DOMAIN made => k \in Keys(old)
      BY <1>9
    <3> QED BY <1>1, <1>10, <2>6, <2>7, <3>1
  <2>11. <<src, k>> \notin DOMAIN made => \A x \in P : x \in O <=> x \in {}
    BY <1>9, <2>8
  <2>12. \A x \in P : x \in seen2 <=> x \in seen \/ x \in C
    OBVIOUS
  <2>13. \A x \in P : x \in O <=> x \in {} \/ x \in C
    BY <2>5
  <2>14. \A x \in {} : x \in seen
    OBVIOUS
  <2> HIDE DEF seen2, C, seen
  <2>15. TurnOf(made, src, k, seen, {}, C, O, seen2, {})
    BY <2>4, <2>10, <2>11, <2>12, <2>13, <2>14 DEF TurnOf
  <2> QED BY <2>9, <2>15, Turn
<1>12. Scanned(compared', src, seen2, <<>>)
  BY <1>1, <1>11, NothingDrawn DEF Scanned
<1>13. OthersKept
  BY <1>9, RecordKeeps
<1>14. CASE l < n
  <2>1. \A x \in 1..Len(t) : x \in seen2
    BY <1>2, <1>3, <1>14
  <2>2. Sound(compared', src)
    <3>1. \A k : IsWanted(src, k) => \A x \in Positions(src, k) : x \in seen2
      BY <1>5, <2>1
    <3> HIDE DEF seen2
    <3> QED BY <1>12, <3>1, AllCompared
  <2> QED BY <1>1, <1>13, <1>14, <2>2, KeyPageMode, ScanEnds
<1>15. CASE ~(l < n)
  <2>1. l = n /\ l > 0 /\ cursor' = ks[l] /\ src' = src /\ phase' = "scan"
    BY <1>2, <1>15
  <2>2. seen2 = Seen(src, cursor')
    <3>1. \A x \in 1..Len(t) : x \in seen2 <=> ByGroup(ks[l], t[x])
      <4>1. \A x \in 1..Len(t) : x \in seen2 <=> ByGroup(cursor, t[x]) \/ t[x].grp \in Range(ks)
        BY <1>3
      <4>2. \A x \in 1..Len(t) : ByGroup(cursor, t[x]) => ByGroup(ks[l], t[x])
        BY <1>1, <1>2, <1>4, <2>1 DEF ByGroup
      <4> QED BY <1>2, <2>1, <4>1, <4>2
    <3> QED BY <1>3, <2>1, <3>1
  <2> HIDE DEF seen2
  <2> QED BY <1>1, <1>2, <1>12, <1>13, <2>1, <2>2, KeyPageMode, ScanGoesOn
<1> QED BY <1>14, <1>15

LEMMA CompareRecords ==
  ASSUME NEW errs, NEW extras, NEW old, Compare(errs, extras, old)
  PROVE  Record([p \in {src} \X DOMAIN errs |-> <<Group(old, p[2])>>])
BY DEF Compare

LEMMA NextPageOnce ==
  ASSUME OnceInv, NextPage
  PROVE  OnceInv'
<1> DEFINE ks   == NextKeys
           rows == RowsByKeys(Source, "grp", Range(ks))
           old  == Named(rows)
           new  == Named(RowsByKeys(Target, "grp", Range(ks)))
           errs == Checked(Keys(old), old, new, FALSE)
           set  == {x \in 1..Len(Source) : Source[x].grp # Null /\ Source[x].grp \in Range(ks)}
           O    == {x \in set : KeyOf(Source[x]) \in Keys(rows) \ {Blank}}
           made == [p \in {src} \X Keys(old) |-> <<Group(old, p[2])>>]
<1>1. /\ phase = "scan" /\ InMode(PageModes)
      /\ Compare(errs, Keys(new) \ Keys(old), old)
      /\ IF Len(ks) < KeyBatch THEN ReadFrom(src + 1)
         ELSE cursor' = ks[Len(ks)] /\ UNCHANGED <<src, phase>>
      /\ input' = input /\ carryOld' = carryOld
  BY DEF NextPage
<1>2. InMode(KeyPages)
  BY <1>1 DEF InMode, KeyPages
<1>3. IsTable(Source)
  BY <1>1, <1>2, KeyPageState
<1>4. Drawn(rows, Source, set)
  BY <1>3, RowsByKeysDraw
<1>5. ks = DistinctKeys(Source, "grp", KeyBatch, cursor) /\ KeyBatch \in Nat \ {0}
  BY SizeAssumption DEF NextKeys
<1> HIDE DEF rows, ks
<1>6. Drawn(old, Source, O)
  <2> HIDE DEF set
  <2>1. Drawn(RowsOf(rows, Keys(rows) \ {Blank}), Source, {x \in set : KeyOf(Source[x]) \in Keys(rows) \ {Blank}})
    BY <1>4, GroupsDraw
  <2> QED BY <2>1 DEF Named
<1>7. Keys(rows) = {KeyOf(Source[x]) : x \in set}
  <2> HIDE DEF set
  <2> QED BY <1>4, KeysDrawn
<1>8. \A x \in O : x \in 1..Len(Source) /\ Source[x].grp \in Range(ks)
  OBVIOUS
<1>9. \A x \in 1..Len(Source) : Source[x].grp \in Range(ks) /\ KeyOf(Source[x]) # Blank => x \in O
  <2>1. ASSUME NEW x \in 1..Len(Source), Source[x].grp \in Range(ks), KeyOf(Source[x]) # Blank PROVE x \in O
    <3>1. x \in set
      BY <2>1 DEF KeyOf, Trimmed
    <3>2. KeyOf(Source[x]) \in Keys(rows)
      BY <1>7, <3>1
    <3> QED BY <2>1, <3>1, <3>2
  <2> QED BY <2>1
<1> HIDE DEF old, O, set
<1>10. Record(made)
  <2>1. DOMAIN errs = Keys(old)
    BY DEF Checked
  <2> HIDE DEF errs
  <2>2. Record([p \in {src} \X DOMAIN errs |-> <<Group(old, p[2])>>])
    BY <1>1, CompareRecords
  <2> QED BY <2>1, <2>2
<1>11. IF Len(ks) < KeyBatch THEN ReadFrom(src + 1)
       ELSE cursor' = ks[Len(ks)] /\ src' = src /\ phase' = phase
  BY <1>1
<1>12. \E m : m = made /\ Record(m)
  BY <1>10
<1> QED BY <1>1, <1>2, <1>5, <1>6, <1>8, <1>9, <1>11, <1>12, KeyPageTurn

LEMMA NextIdentitiesOnce ==
  ASSUME OnceInv, NextIdentities
  PROVE  OnceInv'
<1> DEFINE ks   == GroupKeys(Source, "grp", ChunkSize, cursor)
           old  == RowsByKeys(Source, "grp", Range(ks))
           O    == {x \in 1..Len(Source) : Source[x].grp # Null /\ Source[x].grp \in Range(ks)}
           made == [p \in {src} \X Keys(old) |-> <<Group(old, p[2])>>]
<1>1. /\ phase = "scan" /\ InMode({"HEADER"})
      /\ Record(made)
      /\ IF Len(ks) < ChunkSize THEN ReadFrom(src + 1)
         ELSE cursor' = ks[Len(ks)] /\ UNCHANGED <<src, phase>>
      /\ input' = input /\ carryOld' = carryOld
  BY DEF NextIdentities
<1>2. InMode(KeyPages)
  BY <1>1 DEF InMode, KeyPages
<1>3. IsTable(Source)
  BY <1>1, <1>2, KeyPageState
<1>4. Drawn(old, Source, O)
  BY <1>3, RowsByKeysDraw
<1>5. ks = DistinctKeys(Source, "grp", ChunkSize, cursor) /\ ChunkSize \in Nat \ {0}
  BY SizeAssumption DEF GroupKeys
<1> HIDE DEF old, ks
<1>6. \A x \in O : x \in 1..Len(Source) /\ Source[x].grp \in Range(ks)
  OBVIOUS
<1>7. \A x \in 1..Len(Source) : Source[x].grp \in Range(ks) /\ KeyOf(Source[x]) # Blank => x \in O
  BY DEF KeyOf, Trimmed
<1> HIDE DEF O
<1>8. IF Len(ks) < ChunkSize THEN ReadFrom(src + 1)
      ELSE cursor' = ks[Len(ks)] /\ src' = src /\ phase' = phase
  BY <1>1
<1>9. \E m : m = made /\ Record(m)
  BY <1>1
<1> QED BY <1>1, <1>2, <1>4, <1>5, <1>6, <1>7, <1>8, <1>9, KeyPageTurn

(* No further page: every row whose key is wanted was passed.              *)
LEMMA LastPageOnce ==
  ASSUME OnceInv, (NoMorePages /\ InMode(KeyPages)) \/ NoMoreIdentities
  PROVE  OnceInv'
<1>1. /\ phase = "scan" /\ InMode(KeyPages) /\ input' = input /\ carryOld' = carryOld
      /\ compared' = compared /\ ReadFrom(src + 1)
      /\ \E n \in Nat \ {0} : DistinctKeys(Source, "grp", n, cursor) = <<>>
  <2>1. CASE NoMorePages /\ InMode(KeyPages)
    BY <2>1, SizeAssumption DEF NoMorePages, NextKeys, counts
  <2>2. CASE NoMoreIdentities
    BY <2>2, SizeAssumption DEF NoMoreIdentities, GroupKeys, InMode, KeyPages, counts
  <2> QED BY <2>1, <2>2
<1>2. /\ IsTable(Source) /\ Source = input.sources[src]
      /\ carryOld = <<>> /\ cursor \in Int
      /\ Scanned(compared, src, Seen(src, cursor), <<>>)
  BY <1>1, KeyPageState
<1>3. \A x \in 1..Len(Source) : ByGroup(cursor, Source[x])
  <2>1. PICK n \in Nat \ {0} : DistinctKeys(Source, "grp", n, cursor) = <<>>
    BY <1>1
  <2>2. \A x \in 1..Len(Source) : Source[x].grp \in Range(<<>>) <=>
          ~ByGroup(cursor, Source[x]) /\ (Len(<<>>) = n => ByGroup(<<>>[Len(<<>>)], Source[x]))
    BY <1>2, <2>1, GroupPage
  <2>3. Range(<<>>) = {} /\ Len(<<>>) # n
    BY DEF Range
  <2> QED BY <2>2, <2>3
<1>4. \A k : \A x \in Positions(src, k) : x \in Seen(src, cursor)
  <2>1. \A row : SeenAt(cursor, row) <=> ByGroup(cursor, row)
    BY <1>1, KeyPageMode DEF SeenAt
  <2> QED BY <1>2, <1>3, <2>1 DEF Positions, Seen
<1>5. Sound(compared', src)
  BY <1>1, <1>2, <1>4, AllCompared
<1>6. OthersKept
  BY <1>1 DEF OthersKept
<1> QED BY <1>1, <1>2, <1>5, <1>6, KeyPageMode, ScanEnds

-----------------------------------------------------------------------------
(* The modes that compare rows.                                            *)

LEMMA RowMode ==
  ASSUME InMode(RowModes)
  PROVE  /\ InMode(ScanModes) /\ ~Sysref /\ ~InMode(KeyPages) /\ ~InMode(CarryModes) /\ ~InMode({"MULTI-SS"})
         /\ InMode({"MULTI", "UNION"} \cup RowModes)
BY DEF InMode, KeyPages, PageModes, ScanModes, CarryModes, RowModes, Sysref

LEMMA RowState ==
  ASSUME OnceInv, InMode(RowModes), phase = "scan"
  PROVE  /\ \E some \in Inputs : input \in some
         /\ src \in 1..Len(input.sources) /\ IsTable(Source) /\ Source = input.sources[src]
         /\ carryOld = <<>>
         /\ Orderly(src) => /\ cursor \in Int
                            /\ Scanned(compared, src, Seen(src, cursor), <<>>)
                            /\ Unique(Source, {"id"}) /\ AllAnchored(Source)
         /\ \A c : Seen(src, c) = {x \in 1..Len(Source) : ByAnchor(c, Source[x])}
<1>1. /\ \E some \in Inputs : input \in some
      /\ Once(phase, src, cursor, carryOld, rowsChecked, compared)
  BY RowMode DEF OnceInv
<1>2. /\ src \in 1..Len(input.sources)
      /\ carryOld = <<>>
      /\ Orderly(src) => cursor \in Int /\ Scanned(compared, src, Seen(src, cursor), carryOld)
  BY <1>1, RowMode DEF Once
<1>3. Orderly(src) => Unique(Source, {"id"}) /\ AllAnchored(Source)
  BY RowMode DEF Orderly, Source
<1>4. \A c, row : SeenAt(c, row) <=> ByAnchor(c, row)
  BY RowMode DEF SeenAt
<1>5. \A c : Seen(src, c) = {x \in 1..Len(Source) : ByAnchor(c, Source[x])}
  BY <1>4 DEF Seen, Source
<1> QED BY <1>1, <1>2, <1>3, <1>5, SourceFacts DEF Source

LEMMA RowTurn ==
  ASSUME OnceInv, InMode(RowModes), phase = "scan", Orderly(src),
         NEW made, made = [p \in {src} \X Ids(Chunk) |-> <<ById(Chunk, p[2])>>], Record(made)
  PROVE  LET l == Len(Chunk)
         IN  /\ l \in Nat /\ l <= ChunkSize
             /\ l < ChunkSize => Sound(compared', src)
             /\ l = ChunkSize => /\ Chunk[l].id \in Int
                                 /\ Scanned(compared', src, Seen(src, Chunk[l].id), <<>>)
<1> DEFINE t == Source
           n == ChunkSize
           old == Chunk
           l == Len(old)
           seen == Seen(src, cursor)
           C == {x \in 1..Len(t) : ~ByAnchor(cursor, t[x]) /\ (l = n => ByAnchor(old[l].id, t[x]))}
           seen2 == seen \cup C
<1>1. /\ src \in 1..Len(input.sources) /\ IsTable(t) /\ t = input.sources[src]
      /\ cursor \in Int
      /\ Scanned(compared, src, seen, <<>>)
      /\ Unique(t, {"id"}) /\ AllAnchored(t)
      /\ \A c : Seen(src, c) = {x \in 1..Len(t) : ByAnchor(c, t[x])}
  BY RowState
<1>2. /\ l \in Nat /\ l <= n
      /\ l > 0 => old[l].id \in Int /\ old[l].id > cursor
      /\ Drawn(old, t, C)
  <2>1. n \in Nat \ {0} /\ old = FetchChunk(t, "id", n, cursor)
    BY SizeAssumption DEF Chunk
  <2>2. LET s == FetchChunk(t, "id", n, cursor)
            m == Len(s)
        IN  /\ m \in Nat /\ m <= n /\ IsSeq(s)
            /\ m > 0 => s[m].id \in Int /\ s[m].id > cursor
            /\ \E p : /\ DrawnBy(p, s, t, {x \in 1..Len(t) : ~ByAnchor(cursor, t[x])
                                               /\ (m = n => ByAnchor(s[m].id, t[x]))})
                      /\ \A i, j \in 1..m : i < j => t[p[i]].id < t[p[j]].id
    <3>1. IsTable(t) /\ Unique(t, {"id"}) /\ cursor \in Int /\ n \in Nat \ {0}
      BY <1>1, <2>1
    <3> HIDE DEF old, l, t, n
    <3> QED BY <3>1, AnchorChunk
  <2> QED BY <2>1, <2>2 DEF Drawn
<1> HIDE DEF old
<1>3. \A x \in 1..Len(t) : t[x].id \in Int /\ IdOf(t[x]) = t[x].id
  <2>1. \A x \in 1..Len(t) : t[x].id \in Int /\ t[x] \in Range(t)
    BY <1>1, TableRows
  <2> QED BY <1>1, <2>1 DEF AllAnchored, IdOf, Trimmed
<1>4. \A x, y \in 1..Len(t) : IdOf(t[x]) = IdOf(t[y]) => x = y
  BY <1>1, <1>3 DEF Unique
<1>5. \A k : Positions(src, k) = {x \in 1..Len(t) : IdOf(t[x]) = k}
  <2>1. \A row : KeyFor(row) = IdOf(row)
    BY DEF KeyFor
  <2> QED BY <1>1, <2>1 DEF Positions
<1>6. PICK held : /\ Drawn(<<>>, t, held)
                  /\ \A k : IsWanted(src, k) => Progress(compared, src, k, seen, held)
  BY <1>1 DEF Scanned
<1>7. held = {}
  BY <1>6 DEF Drawn, DrawnBy
<1>8. Ids(old) = {IdOf(t[x]) : x \in C}
  <2> HIDE DEF C
  <2> QED BY <1>2, KeysDrawn
<1>9. \A k : <<src, k>> \in DOMAIN made <=> k \in Ids(old)
  BY DEF old
<1>10. \A k \in Ids(old) : made[<<src, k>>] = <<ById(old, k)>>
  <2>1. \A k : <<src, k>>[2] = k
    OBVIOUS
  <2> QED BY <1>9, <2>1 DEF old
<1>11. ASSUME NEW k, IsWanted(src, k) PROVE Progress(compared', src, k, seen2, {})
  <2> DEFINE P == Positions(src, k)
  <2>1. \A x : x \in P <=> x \in 1..Len(t) /\ IdOf(t[x]) = k
    BY <1>5
  <2>2. \A x \in C : x \notin seen
    BY <1>1
  <2>3. \A x \in C : x \in 1..Len(t)
    OBVIOUS
  <2> HIDE DEF C
  <2>4. k \in Ids(old) => (\E x \in P : x \in C) /\ \A x \in P : x \in C
    <3>1. ASSUME k \in Ids(old) PROVE \E x \in P : x \in C
      BY <1>8, <2>1, <2>3, <3>1
    <3>2. ASSUME NEW x \in P, x \in C, NEW y \in P PROVE y \in C
      BY <1>4, <2>1, <3>2
    <3> QED BY <3>1, <3>2
  <2>5. (\A x \in P : x \in C) => Drawn(ById(old, k), t, P)
    <3>1. Drawn(ById(old, k), t, {x \in C : IdOf(t[x]) = k})
      BY <1>2, IdsDraw
    <3>2. ASSUME \A x \in P : x \in C PROVE {x \in C : IdOf(t[x]) = k} = P
      BY <2>1, <2>3, <3>2
    <3> QED BY <3>1, <3>2
  <2>6. k \notin Ids(old) => \A x \in P : x \notin C
    BY <1>8, <2>1
  <2>7. Progress(compared, src, k, seen, {})
    BY <1>6, <1>7, <1>11
  <2>8. <<src, k>> \in DOMAIN made =>
           /\ \E x \in P : x \in C
           /\ \A x \in P : x \in seen2 /\ x \notin {}
           /\ (\A x \in P : x \in C) =>
                 \E c : made[<<src, k>>] = <<c>> /\ Drawn(c, input.sources[src], P)
    BY <1>1, <1>9, <1>10, <2>4, <2>5
  <2>9. <<src, k>> \notin DOMAIN made => \A x \in P : x \in C <=> x \in {}
    BY <1>9, <2>6
  <2>10. \A x \in P : (x \in seen2 <=> x \in seen \/ x \in C) /\ (x \in C <=> x \in {} \/ x \in C)
    OBVIOUS
  <2>11. \A x \in {} : x \in seen
    OBVIOUS
  <2> HIDE DEF seen2, seen
  <2>12. TurnOf(made, src, k, seen, {}, C, C, seen2, {})
    BY <2>2, <2>8, <2>9, <2>10, <2>11 DEF TurnOf
  <2> QED BY <2>7, <2>12, Turn
<1>12. Scanned(compared', src, seen2, <<>>)
  BY <1>1, <1>11, NothingDrawn DEF Scanned
<1>13. ASSUME l < n PROVE Sound(compared', src)
  <2>1. \A x \in 1..Len(t) : x \in seen2
    BY <1>1, <1>2, <1>13
  <2>2. \A k : IsWanted(src, k) => \A x \in Positions(src, k) : x \in seen2
    BY <1>5, <2>1
  <2> HIDE DEF seen2
  <2> QED BY <1>12, <2>2, AllCompared
<1>14. ASSUME l = n PROVE old[l].id \in Int /\ Scanned(compared', src, Seen(src, old[l].id), <<>>)
  <2>1. l > 0
    BY <1>2, <1>14, SizeAssumption
  <2>2. seen2 = Seen(src, old[l].id)
    <3>1. \A x \in 1..Len(t) : x \in seen2 <=> ByAnchor(cursor, t[x]) \/ ByAnchor(old[l].id, t[x])
      BY <1>1, <1>14
    <3>2. \A x \in 1..Len(t) : ByAnchor(cursor, t[x]) => ByAnchor(old[l].id, t[x])
      BY <1>1, <1>2, <1>3, <2>1 DEF ByAnchor
    <3>3. seen2 = {x \in 1..Len(t) : ByAnchor(old[l].id, t[x])}
      BY <1>1, <3>1, <3>2
    <3> QED BY <1>1, <3>3
  <2> HIDE DEF seen2
  <2> QED BY <1>2, <1>12, <2>1, <2>2
<1> QED BY <1>2, <1>13, <1>14 DEF old

LEMMA RowEnd ==
  ASSUME OnceInv, InMode(RowModes), phase = "scan", Orderly(src), Chunk = <<>>
  PROVE  Sound(compared, src)
<1>1. /\ src \in 1..Len(input.sources) /\ IsTable(Source) /\ Source = input.sources[src]
      /\ cursor \in Int
      /\ Scanned(compared, src, Seen(src, cursor), <<>>)
      /\ Unique(Source, {"id"})
      /\ \A c : Seen(src, c) = {x \in 1..Len(Source) : ByAnchor(c, Source[x])}
  BY RowState
<1>2. ChunkSize \in Nat \ {0} /\ FetchChunk(Source, "id", ChunkSize, cursor) = <<>>
  BY SizeAssumption DEF Chunk
<1>3. \A x \in 1..Len(Source) : ByAnchor(cursor, Source[x])
  <2>1. LET s == FetchChunk(Source, "id", ChunkSize, cursor)
            l == Len(s)
        IN  /\ l \in Nat /\ l <= ChunkSize /\ IsSeq(s)
            /\ l > 0 => s[l].id \in Int /\ s[l].id > cursor
            /\ \E p : /\ DrawnBy(p, s, Source, {x \in 1..Len(Source) : ~ByAnchor(cursor, Source[x])
                                               /\ (l = ChunkSize => ByAnchor(s[l].id, Source[x]))})
                      /\ \A i, j \in 1..l : i < j => Source[p[i]].id < Source[p[j]].id
    <3>1. IsTable(Source) /\ Unique(Source, {"id"}) /\ cursor \in Int /\ ChunkSize \in Nat \ {0}
      BY <1>1, <1>2
    <3> QED BY <3>1, AnchorChunk
  <2>2. Len(<<>>) = 0 /\ ChunkSize # 0
    BY <1>2
  <2>3. PICK p : DrawnBy(p, <<>>, Source, {x \in 1..Len(Source) : ~ByAnchor(cursor, Source[x])
                              /\ (Len(<<>>) = ChunkSize => ByAnchor((<<>>)[Len(<<>>)].id, Source[x]))})
    BY <1>2, <2>1
  <2> QED BY <2>2, <2>3 DEF DrawnBy
<1>4. \A k : \A x \in Positions(src, k) : x \in Seen(src, cursor)
  BY <1>1, <1>3 DEF Positions
<1> QED BY <1>1, <1>4, AllCompared

LEMMA RowsRecorded ==
  ASSUME NEW sm, NEW noisy, CompareRows(sm, noisy)
  PROVE  Record([p \in {src} \X Ids(Chunk) |-> <<ById(Chunk, p[2])>>])
BY DEF CompareRows

(* A master has one source.                                                *)
LEMMA OneSource ==
  ASSUME OnceInv, InMode({"MASTER"}), phase = "scan", input' = input, phase' = "reverse",
         Orderly(src) => Sound(compared', src)
  PROVE  OnceInv'
<1>1. InMode(RowModes)
  BY DEF InMode, RowModes
<1>2. /\ \E some \in Inputs : input \in some
      /\ src \in 1..Len(input.sources)
  BY <1>1, RowState
<1>3. Len(input.sources) = 1
  BY <1>2, SourceFacts DEF InMode
<1>4. \A i \in ReadSources : i = src
  BY <1>2, <1>3 DEF ReadSources
<1>5. Once(phase', src', cursor', carryOld', rowsChecked', compared')
  BY <1>4 DEF Once
<1> QED BY <1>2, <1>5, InputStays

LEMMA RowTurnOnce ==
  ASSUME OnceInv, ForwardTurn \/ NextRows
  PROVE  OnceInv'
<1> DEFINE l == Len(Chunk)
           made == [p \in {src} \X Ids(Chunk) |-> <<ById(Chunk, p[2])>>]
<1>1. /\ phase = "scan" /\ InMode(RowModes) /\ input' = input /\ carryOld' = carryOld
      /\ \E sm, noisy : CompareRows(sm, noisy)
      /\ \/ l < ChunkSize /\ InMode({"MASTER"}) /\ phase' = "reverse"
         \/ l < ChunkSize /\ ReadFrom(src + 1)
         \/ ~(l < ChunkSize) /\ cursor' = Chunk[l].id /\ src' = src /\ phase' = phase
  <2>1. CASE ForwardTurn
    BY <2>1 DEF ForwardTurn, InMode, RowModes
  <2>2. CASE NextRows
    BY <2>2 DEF NextRows, InMode, RowModes
  <2> QED BY <2>1, <2>2
<1>2. Record(made)
  BY <1>1, RowsRecorded
<1>3. \A i, k : <<i, k>> \in DOMAIN made => i = src
  OBVIOUS
<1>4. \E m : m = made /\ Record(m) /\ \A i, k : i # src => <<i, k>> \notin DOMAIN m
  BY <1>2, <1>3
<1>5. OthersKept
  BY <1>4, RecordKeeps
<1>6. Orderly(src) => /\ l \in Nat /\ l <= ChunkSize
                      /\ l < ChunkSize => Sound(compared', src)
                      /\ l = ChunkSize => /\ Chunk[l].id \in Int
                                          /\ Scanned(compared', src, Seen(src, Chunk[l].id), <<>>)
  BY <1>1, <1>4, RowTurn
<1>7. carryOld' = <<>>
  BY <1>1, RowState
<1> HIDE DEF made, l
<1>8. CASE l < ChunkSize /\ InMode({"MASTER"}) /\ phase' = "reverse"
  BY <1>1, <1>6, <1>8, OneSource
<1>9. CASE l < ChunkSize /\ ReadFrom(src + 1)
  BY <1>1, <1>5, <1>6, <1>7, <1>9, RowMode, ScanEnds
<1>10. CASE ~(l < ChunkSize) /\ cursor' = Chunk[l].id /\ src' = src /\ phase' = phase
  <2>1. Orderly(src) => l = ChunkSize
    BY <1>6, <1>10, SizeAssumption
  <2>2. Orderly(src) => Scanned(compared', src, Seen(src, cursor'), carryOld') /\ cursor' \in Int
    BY <1>6, <1>7, <1>10, <2>1
  <2> QED BY <1>1, <1>5, <1>7, <1>10, <2>2, RowMode, ScanGoesOn
<1> QED BY <1>1, <1>8, <1>9, <1>10

LEMMA RowEndOnce ==
  ASSUME OnceInv, ForwardEnd \/ NoMoreRows
  PROVE  OnceInv'
<1>1. /\ phase = "scan" /\ InMode(RowModes) /\ input' = input /\ carryOld' = carryOld
      /\ compared' = compared /\ Chunk = <<>>
      /\ \/ InMode({"MASTER"}) /\ phase' = "reverse"
         \/ ReadFrom(src + 1)
  <2>1. CASE ForwardEnd
    BY <2>1 DEF ForwardEnd, InMode, RowModes
  <2>2. CASE NoMoreRows
    BY <2>2 DEF NoMoreRows, InMode, RowModes
  <2> QED BY <2>1, <2>2
<1>2. Orderly(src) => Sound(compared', src)
  BY <1>1, RowEnd
<1>3. OthersKept
  BY <1>1 DEF OthersKept
<1>4. carryOld' = <<>>
  BY <1>1, RowState
<1>5. CASE InMode({"MASTER"}) /\ phase' = "reverse"
  BY <1>1, <1>2, <1>5, OneSource
<1>6. CASE ReadFrom(src + 1)
  BY <1>1, <1>2, <1>3, <1>4, <1>6, RowMode, ScanEnds
<1> QED BY <1>1, <1>5, <1>6

-----------------------------------------------------------------------------
(* The modes that hold back the last group of a full chunk.                *)

CarryAhead(r, q) == IF Sysref THEN SysrefAhead(r, q) ELSE r.id < q.id
CursorAt(row) == IF Sysref THEN <<Trimmed(row.grp), row.id>> ELSE row.id

LEMMA CarryMode ==
  ASSUME InMode(CarryModes)
  PROVE  /\ InMode(ScanModes) /\ ~InMode(KeyPages) /\ ~InMode(RowModes)
         /\ ~Sysref => InMode({"MULTI", "UNION"}) /\ InMode({"MULTI", "UNION"} \cup RowModes)
         /\ \A row : KeyFor(row) = KeyOf(row)
<1>1. /\ InMode(ScanModes) /\ ~InMode(KeyPages) /\ ~InMode(RowModes)
      /\ ~Sysref => InMode({"MULTI", "UNION"}) /\ InMode({"MULTI", "UNION"} \cup RowModes)
  BY DEF InMode, KeyPages, PageModes, ScanModes, CarryModes, RowModes, Sysref
<1> QED BY <1>1 DEF KeyFor

LEMMA CarryState ==
  ASSUME OnceInv, InMode(CarryModes), phase \in {"scan", "flush"}
  PROVE  /\ \E some \in Inputs : input \in some
         /\ src \in 1..Len(input.sources) /\ IsTable(Source) /\ Source = input.sources[src]
         /\ InMode({"MULTI-SS"}) /\ src \in input.keyless => phase = "scan" /\ carryOld = <<>>
         /\ \A k : Positions(src, k) = {x \in 1..Len(Source) : KeyOf(Source[x]) = k}
         /\ \A c : Seen(src, c) = {x \in 1..Len(Source) : SeenAt(c, Source[x])}
         /\ Orderly(src) =>
              /\ Scanned(compared, src, IF phase = "scan" THEN Seen(src, cursor) ELSE 1..Len(Source), carryOld)
              /\ IF Sysref THEN cursor = <<>> \/ \E g, n \in Int : cursor = <<g, n>> ELSE cursor \in Int
<1>1. /\ \E some \in Inputs : input \in some
      /\ Once(phase, src, cursor, carryOld, rowsChecked, compared)
  BY CarryMode DEF OnceInv
<1>2. /\ src \in 1..Len(input.sources)
      /\ InMode({"MULTI-SS"}) /\ src \in input.keyless => phase = "scan" /\ carryOld = <<>>
      /\ Orderly(src) =>
              /\ Scanned(compared, src, IF phase = "scan" THEN Seen(src, cursor) ELSE 1..Len(Source), carryOld)
              /\ IF Sysref THEN cursor = <<>> \/ \E g, n \in Int : cursor = <<g, n>> ELSE cursor \in Int
  BY <1>1 DEF Once, Source
<1>3. \A k : Positions(src, k) = {x \in 1..Len(Source) : KeyOf(Source[x]) = k}
  BY CarryMode DEF Positions, Source
<1>4. \A c : Seen(src, c) = {x \in 1..Len(Source) : SeenAt(c, Source[x])}
  BY DEF Seen, Source
<1> QED BY <1>1, <1>2, <1>3, <1>4, SourceFacts DEF Source

(* The order a source is read in, and what the cursor has passed in it.    *)
LEMMA CarryOrder ==
  ASSUME \E some \in Inputs : input \in some, InMode(CarryModes), src \in 1..Len(input.sources), Orderly(src)
  PROVE  LET t == Source
         IN  \A x, y, z \in 1..Len(t) :
               /\ CarryAhead(t[x], t[y]) /\ CarryAhead(t[y], t[z]) /\ KeyOf(t[x]) = KeyOf(t[z])
                    => KeyOf(t[y]) = KeyOf(t[x])
               /\ SeenAt(CursorAt(t[y]), t[x]) <=> x = y \/ CarryAhead(t[x], t[y])
               /\ ~SeenAt(CursorAt(t[y]), t[x]) <=> CarryAhead(t[y], t[x])
<1> DEFINE t == Source
<1>1. IsTable(t)
  BY SourceFacts DEF Source
<1>2. \A x \in 1..Len(t) : t[x].id \in Int /\ t[x].grp \in Int /\ t[x] \in Range(t)
  BY <1>1, TableRows
<1>3. CASE Sysref
  <2>1. Unique(t, {"grp", "id"}) /\ AllNamed(t)
    BY <1>3 DEF Orderly, Source
  <2>2. \A x, y \in 1..Len(t) : x # y => t[x].id # t[y].id \/ t[x].grp # t[y].grp
    BY <2>1 DEF Unique
  <2>3. \A x \in 1..Len(t) : KeyOf(t[x]) = t[x].grp /\ CursorAt(t[x]) = <<t[x].grp, t[x].id>>
    BY <1>2, <1>3, <2>1 DEF AllNamed, KeyOf, Trimmed, CursorAt
  <2>4. \A x, y \in 1..Len(t) : CarryAhead(t[x], t[y]) <=> t[x].grp < t[y].grp \/ (t[x].grp = t[y].grp /\ t[x].id < t[y].id)
    BY <1>3 DEF CarryAhead, SysrefAhead
  <2>5. \A x, y \in 1..Len(t) : SeenAt(CursorAt(t[y]), t[x]) <=> t[x].grp < t[y].grp \/ (t[x].grp = t[y].grp /\ t[x].id <= t[y].id)
    <3>1. \A g, k : <<g, k>> # <<>> /\ <<g, k>>[1] = g /\ <<g, k>>[2] = k
      OBVIOUS
    <3>2. \A x, y \in 1..Len(t) : SeenAt(CursorAt(t[y]), t[x]) <=> BySysref(<<t[y].grp, t[y].id>>, t[x])
      BY <1>3, <2>3 DEF SeenAt
    <3> QED BY <3>1, <3>2 DEF BySysref
  <2> HIDE DEF t
  <2>6. ASSUME NEW x \in 1..Len(t), NEW y \in 1..Len(t), NEW z \in 1..Len(t)
        PROVE  /\ CarryAhead(t[x], t[y]) /\ CarryAhead(t[y], t[z]) /\ KeyOf(t[x]) = KeyOf(t[z])
                    => KeyOf(t[y]) = KeyOf(t[x])
               /\ SeenAt(CursorAt(t[y]), t[x]) <=> x = y \/ CarryAhead(t[x], t[y])
               /\ ~SeenAt(CursorAt(t[y]), t[x]) <=> CarryAhead(t[y], t[x])
    <3>1. CarryAhead(t[x], t[y]) /\ CarryAhead(t[y], t[z]) /\ KeyOf(t[x]) = KeyOf(t[z])
                    => KeyOf(t[y]) = KeyOf(t[x])
      BY <1>2, <2>3, <2>4
    <3>2. SeenAt(CursorAt(t[y]), t[x]) <=> x = y \/ CarryAhead(t[x], t[y])
      BY <1>2, <2>2, <2>4, <2>5
    <3>3. ~SeenAt(CursorAt(t[y]), t[x]) <=> CarryAhead(t[y], t[x])
      BY <1>2, <2>4, <2>5
    <3> QED BY <3>1, <3>2, <3>3
  <2> QED BY <2>6 DEF t
<1>4. CASE ~Sysref
  <2>1. Unique(t, {"id"}) /\ Contiguous(t)
    BY <1>4, CarryMode DEF Orderly, Source
  <2>2. \A x, y \in 1..Len(t) : x # y => t[x].id # t[y].id
    BY <2>1 DEF Unique
  <2>3. \A x, y \in 1..Len(t) : CarryAhead(t[x], t[y]) <=> t[x].id < t[y].id
    BY <1>4 DEF CarryAhead
  <2>4. \A x, y \in 1..Len(t) : SeenAt(CursorAt(t[y]), t[x]) <=> t[x].id <= t[y].id
    BY <1>4, CarryMode DEF SeenAt, ByAnchor, CursorAt
  <2>5. \A x, y, z \in 1..Len(t) : t[x].id < t[y].id /\ t[y].id < t[z].id /\ KeyOf(t[x]) = KeyOf(t[z])
                    => KeyOf(t[y]) = KeyOf(t[x])
    BY <2>1 DEF Contiguous
  <2> HIDE DEF t
  <2>6. ASSUME NEW x \in 1..Len(t), NEW y \in 1..Len(t), NEW z \in 1..Len(t)
        PROVE  /\ CarryAhead(t[x], t[y]) /\ CarryAhead(t[y], t[z]) /\ KeyOf(t[x]) = KeyOf(t[z])
                    => KeyOf(t[y]) = KeyOf(t[x])
               /\ SeenAt(CursorAt(t[y]), t[x]) <=> x = y \/ CarryAhead(t[x], t[y])
               /\ ~SeenAt(CursorAt(t[y]), t[x]) <=> CarryAhead(t[y], t[x])
    BY <1>2, <2>2, <2>3, <2>4, <2>5
  <2> QED BY <2>6 DEF t
<1> QED BY <1>3, <1>4

(* The cursor has passed a row that is ahead of one that it has passed.    *)
LEMMA CursorOrder ==
  ASSUME \E some \in Inputs : input \in some, InMode(CarryModes), src \in 1..Len(input.sources),
         Orderly(src),
         IF Sysref THEN cursor = <<>> \/ \E g, n \in Int : cursor = <<g, n>> ELSE cursor \in Int
  PROVE  \A x, y \in 1..Len(Source) : SeenAt(cursor, Source[x]) /\ ~SeenAt(cursor, Source[y])
                                        => CarryAhead(Source[x], Source[y])
<1> DEFINE t == Source
<1>1. IsTable(t)
  BY SourceFacts DEF Source
<1>2. \A x \in 1..Len(t) : t[x].id \in Int /\ t[x].grp \in Int
  BY <1>1, TableRows
<1>3. CASE ~Sysref
  <2>1. \A x \in 1..Len(t) : SeenAt(cursor, t[x]) <=> t[x].id <= cursor
    BY <1>3, CarryMode DEF SeenAt, ByAnchor
  <2>2. \A x, y \in 1..Len(t) : CarryAhead(t[x], t[y]) <=> t[x].id < t[y].id
    BY <1>3 DEF CarryAhead
  <2> QED BY <1>2, <1>3, <2>1, <2>2
<1>4. CASE Sysref /\ cursor = <<>>
  BY <1>4 DEF SeenAt, BySysref
<1>5. ASSUME Sysref, NEW g \in Int, NEW n \in Int, cursor = <<g, n>>
      PROVE  \A x, y \in 1..Len(t) : SeenAt(cursor, t[x]) /\ ~SeenAt(cursor, t[y]) => CarryAhead(t[x], t[y])
  <2>1. cursor # <<>> /\ cursor[1] = g /\ cursor[2] = n
    BY <1>5
  <2>2. \A x \in 1..Len(t) : SeenAt(cursor, t[x]) <=> t[x].grp < g \/ (t[x].grp = g /\ t[x].id <= n)
    BY <1>5, <2>1 DEF SeenAt, BySysref
  <2>3. \A x, y \in 1..Len(t) : CarryAhead(t[x], t[y]) <=> t[x].grp < t[y].grp \/ (t[x].grp = t[y].grp /\ t[x].id < t[y].id)
    BY <1>5 DEF CarryAhead, SysrefAhead
  <2> HIDE DEF t
  <2>4. ASSUME NEW x \in 1..Len(t), NEW y \in 1..Len(t), SeenAt(cursor, t[x]), ~SeenAt(cursor, t[y])
        PROVE  CarryAhead(t[x], t[y])
    <3>1. t[x].grp < g \/ (t[x].grp = g /\ t[x].id <= n)
      BY <2>2, <2>4
    <3>2. ~(t[y].grp < g) /\ ~(t[y].grp = g /\ t[y].id <= n)
      BY <2>2, <2>4
    <3>3. t[x].grp < t[y].grp \/ (t[x].grp = t[y].grp /\ t[x].id < t[y].id)
      BY <1>2, <3>1, <3>2
    <3> QED BY <2>3, <3>3
  <2> QED BY <2>4
<1> QED BY <1>3, <1>4, <1>5

(* The chunk read: what is beyond the cursor, up to the cursor of its last *)
(* row when it is full.                                                    *)
LEMMA CarryChunk ==
  ASSUME OnceInv, InMode(CarryModes), phase = "scan", Orderly(src),
         NEW s, s = ReadChunk
  PROVE  LET t == Source
             l == Len(s)
         IN  /\ l \in Nat /\ l <= ChunkSize /\ IsSeq(s)
             /\ \E p : /\ DrawnBy(p, s, t, {x \in 1..Len(t) : ~SeenAt(cursor, t[x])
                                               /\ (l = ChunkSize => SeenAt(CursorAt(s[l]), t[x]))})
                       /\ \A i, j \in 1..l : i < j => CarryAhead(t[p[i]], t[p[j]])
<1> DEFINE t == Source
           l == Len(s)
           n == ChunkSize
<1>1. /\ IsTable(t) /\ t = input.sources[src]
      /\ IF Sysref THEN cursor = <<>> \/ \E g, k \in Int : cursor = <<g, k>> ELSE cursor \in Int
  BY CarryState
<1>2. n \in Nat \ {0}
  BY SizeAssumption
<1>3. CASE Sysref
  <2>1. Unique(t, {"grp", "id"}) /\ AllNamed(t) /\ IsTable(t) /\ n \in Nat \ {0}
        /\ (cursor = <<>> \/ \E g, k \in Int : cursor = <<g, k>>)
    BY <1>1, <1>2, <1>3 DEF Orderly
  <2>2. s = FetchChunkSysref(t, "grp", "id", n, cursor)
    BY <1>3 DEF ReadChunk
  <2>3. /\ l \in Nat /\ l <= n /\ IsSeq(s)
        /\ l > 0 => s[l].grp \in Int /\ s[l].grp # Null /\ s[l].id \in Int /\ ~BySysref(cursor, s[l])
        /\ \E p : /\ DrawnBy(p, s, t, {x \in 1..Len(t) : ~BySysref(cursor, t[x])
                                               /\ (l = n => BySysref(<<s[l].grp, s[l].id>>, t[x]))})
                  /\ \A i, j \in 1..l : i < j => SysrefAhead(t[p[i]], t[p[j]])
    <3> DEFINE r == FetchChunkSysref(t, "grp", "id", n, cursor)
               m == Len(r)
    <3>1. /\ m \in Nat /\ m <= n /\ IsSeq(r)
          /\ m > 0 => r[m].grp \in Int /\ r[m].grp # Null /\ r[m].id \in Int /\ ~BySysref(cursor, r[m])
          /\ \E p : /\ DrawnBy(p, r, t, {x \in 1..Len(t) : ~BySysref(cursor, t[x])
                                               /\ (m = n => BySysref(<<r[m].grp, r[m].id>>, t[x]))})
                    /\ \A i, j \in 1..m : i < j => SysrefAhead(t[p[i]], t[p[j]])
      <4> HIDE DEF t, n, l
      <4> QED BY <2>1, SysrefChunk
    <3>2. s = r
      BY <2>2
    <3> HIDE DEF r, t, n
    <3> QED BY <3>1, <3>2
  <2>4. /\ l \in Nat /\ l <= n /\ IsSeq(s)
        /\ l > 0 => s[l].grp # Null
    <3> HIDE DEF l, n
    <3> QED BY <2>3
  <2>5. PICK p : /\ DrawnBy(p, s, t, {x \in 1..Len(t) : ~BySysref(cursor, t[x])
                                               /\ (l = n => BySysref(<<s[l].grp, s[l].id>>, t[x]))})
                 /\ \A i, j \in 1..l : i < j => SysrefAhead(t[p[i]], t[p[j]])
    BY <2>3
  <2>6. \A c, row : SeenAt(c, row) <=> BySysref(c, row)
    BY <1>3 DEF SeenAt
  <2>7. \A r, q : CarryAhead(r, q) <=> SysrefAhead(r, q)
    BY <1>3 DEF CarryAhead
  <2>8. l = n => CursorAt(s[l]) = <<s[l].grp, s[l].id>>
    <3>1. l = n => l > 0
      BY <1>2
    <3> QED BY <1>3, <2>4, <3>1 DEF CursorAt, Trimmed
  <2>9. {x \in 1..Len(t) : ~BySysref(cursor, t[x]) /\ (l = n => BySysref(<<s[l].grp, s[l].id>>, t[x]))}
        = {x \in 1..Len(t) : ~SeenAt(cursor, t[x]) /\ (l = n => SeenAt(CursorAt(s[l]), t[x]))}
    <3> HIDE DEF l, n, t
    <3> QED BY <2>6, <2>8
  <2>10. /\ DrawnBy(p, s, t, {x \in 1..Len(t) : ~SeenAt(cursor, t[x]) /\ (l = n => SeenAt(CursorAt(s[l]), t[x]))})
         /\ \A i, j \in 1..l : i < j => CarryAhead(t[p[i]], t[p[j]])
    <3>1. DrawnBy(p, s, t, {x \in 1..Len(t) : ~SeenAt(cursor, t[x]) /\ (l = n => SeenAt(CursorAt(s[l]), t[x]))})
      BY <2>5, <2>9
    <3>2. \A i, j \in 1..l : i < j => CarryAhead(t[p[i]], t[p[j]])
      BY <2>5, <2>7
    <3> QED BY <3>1, <3>2
  <2> QED BY <2>4, <2>10
<1>4. CASE ~Sysref
  <2>1. Unique(t, {"id"}) /\ cursor \in Int /\ IsTable(t) /\ n \in Nat \ {0}
    BY <1>1, <1>2, <1>4, CarryMode DEF Orderly
  <2>2. s = FetchChunk(t, "id", n, cursor)
    BY <1>4 DEF ReadChunk
  <2>3. LET r == FetchChunk(t, "id", n, cursor)
            m == Len(r)
        IN  /\ m \in Nat /\ m <= n /\ IsSeq(r)
            /\ m > 0 => r[m].id \in Int /\ r[m].id > cursor
            /\ \E p : /\ DrawnBy(p, r, t, {x \in 1..Len(t) : ~ByAnchor(cursor, t[x])
                                               /\ (m = n => ByAnchor(r[m].id, t[x]))})
                      /\ \A i, j \in 1..m : i < j => t[p[i]].id < t[p[j]].id
    <3> HIDE DEF t, n, l
    <3> QED BY <2>1, AnchorChunk
  <2>4. l \in Nat /\ l <= n /\ IsSeq(s)
    BY <2>2, <2>3
  <2>5. PICK p : /\ DrawnBy(p, s, t, {x \in 1..Len(t) : ~ByAnchor(cursor, t[x])
                                               /\ (l = n => ByAnchor(s[l].id, t[x]))})
                 /\ \A i, j \in 1..l : i < j => t[p[i]].id < t[p[j]].id
    BY <2>2, <2>3
  <2>6. \A c, row : SeenAt(c, row) <=> ByAnchor(c, row)
    BY <1>4, CarryMode DEF SeenAt
  <2>7. \A r, q : CarryAhead(r, q) <=> r.id < q.id
    BY <1>4 DEF CarryAhead
  <2>8. CursorAt(s[l]) = s[l].id
    BY <1>4 DEF CursorAt
  <2>9. {x \in 1..Len(t) : ~ByAnchor(cursor, t[x]) /\ (l = n => ByAnchor(s[l].id, t[x]))}
        = {x \in 1..Len(t) : ~SeenAt(cursor, t[x]) /\ (l = n => SeenAt(CursorAt(s[l]), t[x]))}
    <3> HIDE DEF l, n, t
    <3> QED BY <2>6, <2>8
  <2>10. /\ DrawnBy(p, s, t, {x \in 1..Len(t) : ~SeenAt(cursor, t[x]) /\ (l = n => SeenAt(CursorAt(s[l]), t[x]))})
         /\ \A i, j \in 1..l : i < j => CarryAhead(t[p[i]], t[p[j]])
    <3>1. DrawnBy(p, s, t, {x \in 1..Len(t) : ~SeenAt(cursor, t[x]) /\ (l = n => SeenAt(CursorAt(s[l]), t[x]))})
      BY <2>5, <2>9
    <3>2. \A i, j \in 1..l : i < j => CarryAhead(t[p[i]], t[p[j]])
      BY <2>5, <2>7
    <3> QED BY <3>1, <3>2
  <2> QED BY <2>4, <2>10
<1> QED BY <1>3, <1>4

(* The group held back of a full chunk is that of its last row: no other   *)
(* group goes on beyond the chunk.                                         *)
LEMMA LastHeld ==
  ASSUME NEW t, NEW carry, NEW chunk, NEW H, NEW p, NEW C,
         Drawn(carry, t, H), DrawnBy(p, chunk, t, C), IsSeq(chunk), Len(chunk) > 0,
         \A x, y \in H : KeyOf(t[x]) = KeyOf(t[y]),
         \A x, y, z \in H \cup C : CarryAhead(t[x], t[y]) /\ CarryAhead(t[y], t[z])
            /\ KeyOf(t[x]) = KeyOf(t[z]) => KeyOf(t[y]) = KeyOf(t[x]),
         \A x \in H : \A y \in C : CarryAhead(t[x], t[y]),
         \A i, j \in 1..Len(chunk) : i < j => CarryAhead(t[p[i]], t[p[j]])
  PROVE  LastKey(carry \o chunk) = KeyOf(t[p[Len(chunk)]])
<1> DEFINE s == carry \o chunk
           m == Len(carry)
           l == Len(chunk)
           last == p[l]
           K == KeyOf(t[last])
<1>1. PICK q : DrawnBy(q, carry, t, H)
  BY DEF Drawn
<1>2. m \in Nat /\ l \in Nat /\ l > 0 /\ IsSeq(carry)
  BY <1>1 DEF DrawnBy, Drawn
<1>3. Len(s) = m + l /\ \A i \in 1..(m + l) : s[i] = IF i <= m THEN carry[i] ELSE chunk[i - m]
  <2>1. PICK A, B : carry \in Seq(A) /\ chunk \in Seq(B)
    BY <1>2 DEF IsSeq
  <2>2. carry \in Seq(A \cup B) /\ chunk \in Seq(A \cup B)
    BY <2>1
  <2> QED BY <2>2, ConcatProperties
<1>4. \A i \in 1..m : carry[i] = t[q[i]] /\ q[i] \in H
  BY <1>1 DEF DrawnBy
<1>5. \A i \in 1..l : chunk[i] = t[p[i]] /\ p[i] \in C
  BY DEF DrawnBy
<1> HIDE DEF s
<1>6. \A i \in 1..(m + l) : IF i <= m THEN i \in 1..m ELSE i - m \in 1..l
  <2> HIDE DEF m, l
  <2> QED BY <1>2
<1>7. l \in 1..l /\ last \in C /\ m + l \in 1..(m + l) /\ s[m + l] = t[last]
  <2>1. l \in 1..l /\ m + l \in 1..(m + l) /\ ~(m + l <= m) /\ (m + l) - m = l
    BY <1>2
  <2> HIDE DEF m, l
  <2> QED BY <1>3, <1>5, <2>1 DEF last
<1>8. ASSUME NEW i \in 1..(m + l), NEW j \in 1..(m + l), i <= j, KeyOf(s[i]) = K
      PROVE  KeyOf(s[j]) = K
  <2>1. CASE j <= m
    <3>1. i <= m
      BY <1>2, <1>8, <2>1
    <3>2. s[i] = t[q[i]] /\ s[j] = t[q[j]] /\ q[i] \in H /\ q[j] \in H
      BY <1>3, <1>4, <1>6, <2>1, <3>1
    <3> QED BY <1>8, <3>2
  <2>2. CASE ~(j <= m) /\ j - m = l
    <3>1. s[j] = t[last]
      BY <1>3, <1>5, <1>7, <2>2
    <3> QED BY <3>1
  <2>3. CASE ~(j <= m) /\ j - m # l
    <3> DEFINE y == p[j - m]
    <3>1. j - m \in 1..l /\ j - m < l
      BY <1>2, <1>6, <2>3
    <3>2. s[j] = t[y] /\ y \in C
      BY <1>3, <1>5, <2>3, <3>1
    <3>3. CarryAhead(t[y], t[last])
      BY <1>7, <3>1
    <3>4. CASE i <= m
      <4>1. s[i] = t[q[i]] /\ q[i] \in H
        BY <1>3, <1>4, <1>6, <3>4
      <4>2. CarryAhead(t[q[i]], t[y])
        BY <3>2, <4>1
      <4>3. KeyOf(t[q[i]]) = KeyOf(t[last])
        BY <1>8, <4>1
      <4>4. q[i] \in H \cup C /\ y \in H \cup C /\ last \in H \cup C
        BY <1>7, <3>2, <4>1
      <4>5. KeyOf(t[y]) = KeyOf(t[q[i]])
        BY <3>3, <4>2, <4>3, <4>4
      <4> QED BY <3>2, <4>3, <4>5
    <3>5. CASE ~(i <= m) /\ i = j
      BY <1>8, <3>5
    <3>6. CASE ~(i <= m) /\ i # j
      <4> DEFINE x == p[i - m]
      <4>1. i - m \in 1..l /\ i - m < j - m
        BY <1>2, <1>6, <1>8, <3>6
      <4>2. s[i] = t[x] /\ x \in C
        BY <1>3, <1>5, <3>6, <4>1
      <4>3. CarryAhead(t[x], t[y])
        BY <3>1, <4>1
      <4>4. KeyOf(t[x]) = KeyOf(t[last])
        BY <1>8, <4>2
      <4>5. x \in H \cup C /\ y \in H \cup C /\ last \in H \cup C
        BY <1>7, <3>2, <4>2
      <4>6. KeyOf(t[y]) = KeyOf(t[x])
        BY <3>3, <4>3, <4>4, <4>5
      <4> QED BY <3>2, <4>4, <4>6
    <3> QED BY <3>4, <3>5, <3>6
  <2> QED BY <2>1, <2>2, <2>3
<1>9. Len(s) \in Nat /\ Len(s) > 0 /\ Len(s) = m + l
  BY <1>2, <1>3
<1>10. \A i, j \in 1..Len(s) : i <= j /\ KeyOf(s[i]) = KeyOf(s[Len(s)]) => KeyOf(s[j]) = KeyOf(s[Len(s)])
  <2> HIDE DEF m, l, K
  <2> QED BY <1>7, <1>8, <1>9 DEF K
<1>11. LastKey(s) = KeyOf(s[Len(s)])
  BY <1>9, <1>10, LastKeyIs
<1>12. LastKey(s) = KeyOf(t[last])
  BY <1>7, <1>9, <1>11
<1> QED BY <1>12 DEF s

(* The rows old at hand after a chunk, the keys hk held back, and the      *)
(* groups in made that are compared.                                       *)
ChunkMade(chunk, old, hk, made) ==
  /\ chunk = ReadChunk /\ chunk # <<>>
  /\ old = carryOld \o chunk
  /\ hk = IF Len(chunk) < ChunkSize THEN {} ELSE {LastKey(old)}
  /\ made = [p \in {src} \X (Keys(old) \ hk) |-> <<Group(old, p[2])>>]

(* One chunk of a source in order.                                         *)
LEMMA ChunkTurn ==
  ASSUME OnceInv, InMode(CarryModes), phase = "scan", Orderly(src),
         NEW chunk, NEW old, NEW hk, NEW made, ChunkMade(chunk, old, hk, made), Record(made)
  PROVE  LET l == Len(chunk)
         IN  /\ l \in 1..ChunkSize
             /\ Scanned(compared', src, IF l < ChunkSize THEN 1..Len(Source) ELSE Seen(src, CursorAt(chunk[l])),
                        RowsOf(old, hk \ {Blank}))
             /\ chunk[l].grp \in Int /\ chunk[l].id \in Int
<1> DEFINE t == Source
           n == ChunkSize
           l == Len(chunk)
           c2 == CursorAt(chunk[l])
           seen == Seen(src, cursor)
           C == {x \in 1..Len(t) : ~SeenAt(cursor, t[x]) /\ (l = n => SeenAt(c2, t[x]))}
           seen2 == seen \cup C
<1> USE DEF ChunkMade
<1>1. /\ \E some \in Inputs : input \in some
      /\ src \in 1..Len(input.sources) /\ IsTable(t) /\ t = input.sources[src]
      /\ \A k : Positions(src, k) = {x \in 1..Len(t) : KeyOf(t[x]) = k}
      /\ \A c : Seen(src, c) = {x \in 1..Len(t) : SeenAt(c, t[x])}
      /\ Scanned(compared, src, seen, carryOld)
      /\ IF Sysref THEN cursor = <<>> \/ \E g, k \in Int : cursor = <<g, k>> ELSE cursor \in Int
  BY CarryState
<1>2. /\ l \in Nat /\ l <= n /\ IsSeq(chunk)
      /\ \E p : DrawnBy(p, chunk, t, C) /\ \A i, j \in 1..l : i < j => CarryAhead(t[p[i]], t[p[j]])
  BY CarryChunk
<1>3. PICK p : DrawnBy(p, chunk, t, C) /\ \A i, j \in 1..l : i < j => CarryAhead(t[p[i]], t[p[j]])
  BY <1>2
<1>4. l > 0 /\ l \in 1..l /\ l \in 1..n
  <2>1. l # 0
    BY <1>2 DEF IsSeq
  <2> HIDE DEF l
  <2> QED BY <1>2, <2>1, SizeAssumption
<1> DEFINE last == p[l]
<1>5. last \in C /\ chunk[l] = t[last] /\ last \in 1..Len(t)
  BY <1>3, <1>4 DEF DrawnBy
<1>6. PICK H : /\ Drawn(carryOld, t, H)
               /\ \A x \in H : x \in seen /\ x \in 1..Len(t)
               /\ \A x, y \in H : KeyOf(t[x]) = KeyOf(t[y])
               /\ \A k : IsWanted(src, k) => Progress(compared, src, k, seen, H)
  BY <1>1 DEF Scanned
<1>7. /\ \A x \in C : x \in 1..Len(t) /\ ~SeenAt(cursor, t[x]) /\ x \notin seen
      /\ \A x \in H : SeenAt(cursor, t[x])
  BY <1>1, <1>6
<1>8. \A x, y \in 1..Len(t) : SeenAt(cursor, t[x]) /\ ~SeenAt(cursor, t[y]) => CarryAhead(t[x], t[y])
  BY <1>1, CursorOrder
<1>9. /\ \A x, y, z \in 1..Len(t) : CarryAhead(t[x], t[y]) /\ CarryAhead(t[y], t[z]) /\ KeyOf(t[x]) = KeyOf(t[z])
                    => KeyOf(t[y]) = KeyOf(t[x])
      /\ \A x, y \in 1..Len(t) : SeenAt(CursorAt(t[y]), t[x]) <=> x = y \/ CarryAhead(t[x], t[y])
      /\ \A x, y \in 1..Len(t) : ~SeenAt(CursorAt(t[y]), t[x]) <=> CarryAhead(t[y], t[x])
  BY <1>1, CarryOrder
<1>10. chunk[l].grp \in Int /\ chunk[l].id \in Int
  BY <1>1, <1>5, TableRows
<1> DEFINE O == H \cup C
           H2 == {x \in O : KeyOf(t[x]) \in hk \ {Blank}}
           K == KeyOf(t[last])
<1>11. Drawn(old, t, O)
  <2>1. Drawn(chunk, t, C) /\ H \cap C = {}
    BY <1>2, <1>3, <1>6, <1>7 DEF Drawn
  <2> HIDE DEF C
  <2> QED BY <1>6, <2>1, BothDraw
<1>12. Keys(old) = {KeyOf(t[x]) : x \in O}
  BY <1>11, KeysDrawn
<1>13. hk = IF l < n THEN {} ELSE {K}
  <2>1. \A x, y, z \in O : CarryAhead(t[x], t[y]) /\ CarryAhead(t[y], t[z])
            /\ KeyOf(t[x]) = KeyOf(t[z]) => KeyOf(t[y]) = KeyOf(t[x])
    <3>1. \A x \in O : x \in 1..Len(t)
      BY <1>6, <1>7
    <3> QED BY <1>9, <3>1
  <2>2. \A x \in H : \A y \in C : CarryAhead(t[x], t[y])
    BY <1>6, <1>7, <1>8
  <2> HIDE DEF C, t
  <2>3. LastKey(carryOld \o chunk) = KeyOf(t[p[Len(chunk)]])
    BY <1>2, <1>3, <1>4, <1>6, <2>1, <2>2, LastHeld
  <2> QED BY <2>3
<1>14. \A x \in 1..Len(t) : x \in seen2 <=> SeenAt(cursor, t[x]) \/ (l = n => SeenAt(c2, t[x]))
  BY <1>1
<1>15. \A x \in 1..Len(t) : SeenAt(cursor, t[x]) => SeenAt(c2, t[x])
  BY <1>5, <1>7, <1>8, <1>9
<1>16. \A i, k : <<i, k>> \in DOMAIN made <=> i = src /\ k \in Keys(old) \ hk
  OBVIOUS
<1>17. \A k \in Keys(old) \ hk : made[<<src, k>>] = <<Group(old, k)>>
  <2>1. \A k : <<src, k>>[2] = k
    OBVIOUS
  <2> QED BY <1>16, <2>1
<1>18. ASSUME NEW k, IsWanted(src, k) PROVE Progress(compared', src, k, seen2, H2)
  <2> DEFINE P == Positions(src, k)
  <2>1. k # Blank
    BY <1>18, CarryMode DEF IsWanted
  <2>2. \A x : x \in P <=> x \in 1..Len(t) /\ KeyOf(t[x]) = k
    BY <1>1
  <2>3. \A x \in O : x \in 1..Len(t) /\ x \in seen2
    BY <1>6, <1>7
  <2>4. ASSUME k \in Keys(old) \ hk, NEW y \in P PROVE y \in seen2
    <3>1. CASE l < n
      <4>1. l # n
        BY <1>2, <3>1
      <4> QED BY <1>14, <2>2, <4>1
    <3>2. CASE ~(l < n)
      <4> SUFFICES ASSUME y \notin seen2 PROVE FALSE
        OBVIOUS
      <4>1. l = n
        BY <1>2, <3>2, SizeAssumption
      <4>2. k # K
        BY <1>13, <2>4, <3>2
      <4>3. PICK x \in O : KeyOf(t[x]) = k
        BY <1>12, <2>4
      <4>4. x \in 1..Len(t) /\ SeenAt(c2, t[x])
        BY <1>14, <1>15, <2>3, <4>1, <4>3
      <4>5. y \in 1..Len(t) /\ KeyOf(t[y]) = k /\ ~SeenAt(c2, t[y])
        BY <1>14, <2>2, <2>4, <4>1
      <4>6. x # last
        BY <4>2, <4>3
      <4>7. CarryAhead(t[x], t[last])
        BY <1>5, <1>9, <4>4, <4>6
      <4>8. CarryAhead(t[last], t[y])
        BY <1>5, <1>9, <4>5
      <4> QED BY <1>5, <1>9, <4>2, <4>3, <4>4, <4>5, <4>7, <4>8
    <3> QED BY <3>1, <3>2
  <2> HIDE DEF C, seen, seen2
  <2>5. k \in Keys(old) => \E x \in P : x \in O
    <3>1. ASSUME k \in Keys(old) PROVE \E x \in P : x \in O
      <4>1. PICK x \in O : KeyOf(t[x]) = k
        BY <1>12, <3>1
      <4> QED BY <2>2, <2>3, <4>1
    <3> QED BY <3>1
  <2>6. (\A x \in P : x \in O) => Drawn(Group(old, k), t, P)
    <3>1. Drawn(Group(old, k), t, {x \in O : KeyOf(t[x]) \in {k}})
      BY <1>11, GroupsDraw DEF Group
    <3>2. ASSUME \A x \in P : x \in O PROVE {x \in O : KeyOf(t[x]) \in {k}} = P
      BY <2>2, <2>3, <3>2
    <3> QED BY <3>1, <3>2
  <2>7. <<src, k>> \in DOMAIN made =>
           /\ \E x \in P : x \in O
           /\ \A x \in P : x \in seen2 /\ x \notin H2
           /\ (\A x \in P : x \in O) =>
                 \E c : made[<<src, k>>] = <<c>> /\ Drawn(c, input.sources[src], P)
    <3>1. ASSUME k \in Keys(old) \ hk PROVE \A x \in P : x \notin H2
      BY <2>2, <3>1
    <3>2. ASSUME k \in Keys(old) \ hk, \A x \in P : x \in O
          PROVE  \E c : made[<<src, k>>] = <<c>> /\ Drawn(c, input.sources[src], P)
      BY <1>1, <1>17, <2>6, <3>2
    <3> HIDE DEF P, O, H2
    <3> QED BY <1>16, <2>4, <2>5, <3>1, <3>2
  <2>8. <<src, k>> \notin DOMAIN made => \A x \in P : x \in O <=> x \in H2
    <3>1. CASE k \in hk
      BY <2>1, <2>2, <3>1
    <3>2. CASE k \notin Keys(old)
      <4>1. \A x \in P : x \notin O
        BY <1>12, <2>2, <3>2
      <4> QED BY <4>1
    <3> QED BY <1>16, <3>1, <3>2
  <2>9. \A x \in P : (x \in seen2 <=> x \in seen \/ x \in C) /\ (x \in O <=> x \in H \/ x \in C)
    BY DEF seen2
  <2>10. (\A x \in H : x \in seen) /\ \A x \in C : x \notin seen
    BY <1>6, <1>7
  <2>11. TurnOf(made, src, k, seen, H, C, O, seen2, H2)
    <3> HIDE DEF O, H2
    <3> QED BY <2>7, <2>8, <2>9, <2>10 DEF TurnOf
  <2>12. Progress(compared, src, k, seen, H)
    BY <1>6, <1>18
  <2> HIDE DEF O, H2
  <2> QED BY <2>11, <2>12, Turn
<1>19. Drawn(RowsOf(old, hk \ {Blank}), t, H2)
  <2> HIDE DEF O
  <2> QED BY <1>11, GroupsDraw
<1>20. Scanned(compared', src, seen2, RowsOf(old, hk \ {Blank}))
  <2>1. \A x \in H2 : x \in seen2 /\ x \in 1..Len(t)
    BY <1>6, <1>7
  <2>2. \A x, y \in H2 : KeyOf(t[x]) = KeyOf(t[y])
    BY <1>13
  <2> HIDE DEF H2, seen2
  <2> QED BY <1>1, <1>18, <1>19, <2>1, <2>2 DEF Scanned
<1>21. seen2 = IF l < n THEN 1..Len(t) ELSE Seen(src, c2)
  <2>1. CASE l < n
    <3>1. l # n
      BY <1>2, <2>1
    <3>2. \A x \in 1..Len(t) : x \in seen2
      BY <1>14, <3>1
    <3>3. \A x \in seen2 : x \in 1..Len(t)
      BY <1>1
    <3> HIDE DEF seen2
    <3> QED BY <2>1, <3>2, <3>3
  <2>2. CASE ~(l < n)
    <3>1. l = n
      BY <1>2, <2>2, SizeAssumption
    <3>2. \A x \in 1..Len(t) : x \in seen2 <=> SeenAt(c2, t[x])
      BY <1>14, <1>15, <3>1
    <3>3. \A x \in seen2 : x \in 1..Len(t)
      BY <1>1
    <3> HIDE DEF seen2
    <3> QED BY <1>1, <2>2, <3>2, <3>3
  <2> QED BY <2>1, <2>2
<1> HIDE DEF seen2
<1> QED BY <1>4, <1>10, <1>20, <1>21

LEMMA NextChunkOnce ==
  ASSUME OnceInv, NextChunk
  PROVE  OnceInv'
<1> DEFINE chunk == ReadChunk
           l     == Len(chunk)
           old   == carryOld \o chunk
           new   == carryNew \o FetchNew(chunk)
           hk    == IF Len(chunk) < ChunkSize THEN {} ELSE {LastKey(old)}
           errs  == Checked(Keys(old) \ hk, old, new, FALSE)
           made  == [p \in {src} \X (Keys(old) \ hk) |-> <<Group(old, p[2])>>]
<1>1. /\ phase = "scan" /\ InMode(CarryModes) /\ ~(InMode({"MULTI-SS"}) /\ src \in input.keyless)
      /\ chunk # <<>>
      /\ Compare(errs, Keys(new) \ (Keys(old) \cup hk), old)
      /\ carryOld' = RowsOf(old, hk \ {Blank})
      /\ cursor' = CursorAt(chunk[l])
      /\ phase' = (IF l < ChunkSize THEN "flush" ELSE "scan")
      /\ input' = input /\ src' = src
  BY DEF NextChunk, Carried, CursorAt
<1>2. Record(made)
  <2>1. DOMAIN errs = Keys(old) \ hk
    BY DEF Checked
  <2> HIDE DEF errs, new, old, hk
  <2>2. Record([p \in {src} \X DOMAIN errs |-> <<Group(old, p[2])>>])
    BY <1>1, CompareRecords
  <2> QED BY <2>1, <2>2
<1>3. \A i, k : i # src => <<i, k>> \notin DOMAIN made
  OBVIOUS
<1> HIDE DEF chunk, old, new, hk, errs
<1>4. ChunkMade(chunk, old, hk, made)
  BY <1>1 DEF ChunkMade, hk, old, chunk
<1>5. \E m : /\ ChunkMade(chunk, old, hk, m) /\ Record(m)
             /\ \A i, k : i # src => <<i, k>> \notin DOMAIN m
  BY <1>2, <1>3, <1>4
<1>6. InMode(CarryModes) /\ phase = "scan"
  BY <1>1
<1> HIDE DEF made
<1>7. OthersKept
  BY <1>5, RecordKeeps
<1>8. Orderly(src) =>
        /\ l \in 1..ChunkSize
        /\ Scanned(compared', src, IF l < ChunkSize THEN 1..Len(Source) ELSE Seen(src, CursorAt(chunk[l])),
                   RowsOf(old, hk \ {Blank}))
        /\ chunk[l].grp \in Int /\ chunk[l].id \in Int
  BY <1>5, <1>6, ChunkTurn
<1>9. Orderly(src) => Scanned(compared', src, IF phase' = "scan" THEN Seen(src, cursor') ELSE 1..Len(Source), carryOld')
  <2>1. phase' = "scan" <=> ~(l < ChunkSize)
    BY <1>1
  <2> HIDE DEF l
  <2> QED BY <1>1, <1>8, <2>1
<1>10. Orderly(src) => IF Sysref THEN \E g, n \in Int : cursor' = <<g, n>> ELSE cursor' \in Int
  <2>1. Orderly(src) => Trimmed(chunk[l].grp) \in Int
    BY <1>8 DEF Trimmed, Blank
  <2> HIDE DEF l
  <2> QED BY <1>1, <1>8, <2>1 DEF CursorAt
<1> QED BY <1>1, <1>7, <1>9, <1>10, CarryMode, ScanGoesOn

LEMMA NoMoreChunksOnce ==
  ASSUME OnceInv, NoMoreChunks
  PROVE  OnceInv'
<1>1. /\ phase = "scan" /\ InMode(CarryModes) /\ ~(InMode({"MULTI-SS"}) /\ src \in input.keyless)
      /\ <<>> = ReadChunk /\ phase' = "flush"
      /\ input' = input /\ src' = src /\ cursor' = cursor /\ carryOld' = carryOld /\ compared' = compared
  BY DEF NoMoreChunks, page
<1>2. /\ \A c : Seen(src, c) = {x \in 1..Len(Source) : SeenAt(c, Source[x])}
      /\ Orderly(src) =>
           /\ Scanned(compared, src, Seen(src, cursor), carryOld)
           /\ IF Sysref THEN cursor = <<>> \/ \E g, n \in Int : cursor = <<g, n>> ELSE cursor \in Int
  BY <1>1, CarryState
<1>3. ASSUME Orderly(src) PROVE Seen(src, cursor) = 1..Len(Source)
  <2>1. \E p : DrawnBy(p, <<>>, Source, {x \in 1..Len(Source) : ~SeenAt(cursor, Source[x])
                                           /\ (Len(<<>>) = ChunkSize => SeenAt(CursorAt((<<>>)[Len(<<>>)]), Source[x]))})
    <3>1. \E s : s = <<>> /\ s = ReadChunk
      BY <1>1
    <3> QED BY <1>1, <1>3, <3>1, CarryChunk
  <2>2. Len(<<>>) = 0 /\ ChunkSize # 0
    BY SizeAssumption
  <2>3. \A x \in 1..Len(Source) : SeenAt(cursor, Source[x])
    BY <2>1, <2>2 DEF DrawnBy
  <2> QED BY <1>2, <2>3
<1>4. OthersKept
  BY <1>1 DEF OthersKept
<1> QED BY <1>1, <1>2, <1>3, <1>4, CarryMode, ScanGoesOn

(* The group still held back is compared when the source ends.             *)
LEMMA FlushTurn ==
  ASSUME OnceInv, InMode(CarryModes), phase = "flush", Orderly(src),
         NEW made, made = [p \in {src} \X Keys(carryOld) |-> <<Group(carryOld, p[2])>>], Record(made)
  PROVE  Sound(compared', src)
<1> DEFINE t == Source
           D == 1..Len(t)
<1>1. /\ t = input.sources[src]
      /\ \A k : Positions(src, k) = {x \in D : KeyOf(t[x]) = k}
      /\ Scanned(compared, src, D, carryOld)
  BY CarryState
<1>2. PICK H : /\ Drawn(carryOld, t, H)
               /\ \A x \in H : x \in D
               /\ \A k : IsWanted(src, k) => Progress(compared, src, k, D, H)
  BY <1>1 DEF Scanned
<1>3. Keys(carryOld) = {KeyOf(t[x]) : x \in H}
  BY <1>2, KeysDrawn
<1>4. \A i, k : <<i, k>> \in DOMAIN made <=> i = src /\ k \in Keys(carryOld)
  OBVIOUS
<1>5. \A k \in Keys(carryOld) : made[<<src, k>>] = <<Group(carryOld, k)>>
  <2>1. \A k : <<src, k>>[2] = k
    OBVIOUS
  <2> QED BY <1>4, <2>1
<1> HIDE DEF D
<1>6. ASSUME NEW k, IsWanted(src, k) PROVE Progress(compared', src, k, D, {})
  <2> DEFINE P == Positions(src, k)
  <2>1. \A x : x \in P <=> x \in D /\ KeyOf(t[x]) = k
    BY <1>1
  <2>2. k \in Keys(carryOld) => \E x \in P : x \in H
    <3>1. ASSUME k \in Keys(carryOld) PROVE \E x \in P : x \in H
      <4>1. PICK x \in H : KeyOf(t[x]) = k
        BY <1>3, <3>1
      <4> QED BY <1>2, <2>1, <4>1
    <3> QED BY <3>1
  <2>3. (\A x \in P : x \in H) => Drawn(Group(carryOld, k), t, P)
    <3>1. Drawn(Group(carryOld, k), t, {x \in H : KeyOf(t[x]) \in {k}})
      BY <1>2, GroupsDraw DEF Group
    <3>2. ASSUME \A x \in P : x \in H PROVE {x \in H : KeyOf(t[x]) \in {k}} = P
      BY <1>2, <2>1, <3>2
    <3> QED BY <3>1, <3>2
  <2>4. k \notin Keys(carryOld) => \A x \in P : x \notin H
    BY <1>3, <2>1
  <2>5. <<src, k>> \in DOMAIN made =>
           /\ \E x \in P : x \in H
           /\ \A x \in P : x \in D /\ x \notin {}
           /\ (\A x \in P : x \in H) =>
                 \E c : made[<<src, k>>] = <<c>> /\ Drawn(c, input.sources[src], P)
    BY <1>1, <1>4, <1>5, <2>1, <2>2, <2>3
  <2>6. <<src, k>> \notin DOMAIN made => \A x \in P : x \in H <=> x \in {}
    BY <1>4, <2>4
  <2>7. \A x \in P : (x \in D <=> x \in D \/ x \in {}) /\ (x \in H <=> x \in H \/ x \in {})
    OBVIOUS
  <2>8. TurnOf(made, src, k, D, H, {}, H, D, {})
    BY <1>2, <2>5, <2>6, <2>7 DEF TurnOf
  <2>9. Progress(compared, src, k, D, H)
    BY <1>2, <1>6
  <2> QED BY <2>8, <2>9, Turn
<1>7. Scanned(compared', src, D, <<>>)
  BY <1>1, <1>6, NothingDrawn DEF Scanned
<1>8. \A k : IsWanted(src, k) => \A x \in Positions(src, k) : x \in D
  BY <1>1
<1> QED BY <1>7, <1>8, AllCompared

LEMMA FlushOnce ==
  ASSUME OnceInv, Flush
  PROVE  OnceInv'
<1> DEFINE errs == Checked(Keys(carryOld), carryOld, carryNew, TRUE)
           made == [p \in {src} \X Keys(carryOld) |-> <<Group(carryOld, p[2])>>]
<1>1. /\ phase = "flush" /\ input' = input /\ carryOld' = <<>> /\ ReadFrom(src + 1)
      /\ Compare(errs, Keys(carryNew) \ Keys(carryOld), carryOld)
  BY DEF Flush
<1>2. CASE ~InMode(ScanModes)
  BY <1>1, <1>2, InputStays DEF OnceInv
<1>3. CASE InMode(ScanModes)
  <2>1. InMode(CarryModes)
    BY <1>1, <1>3 DEF OnceInv, Once
  <2>2. Record(made)
    <3>1. DOMAIN errs = Keys(carryOld)
      BY DEF Checked
    <3> HIDE DEF errs
    <3>2. Record([p \in {src} \X DOMAIN errs |-> <<Group(carryOld, p[2])>>])
      BY <1>1, CompareRecords
    <3> QED BY <3>1, <3>2
  <2>3. \A i, k : i # src => <<i, k>> \notin DOMAIN made
    OBVIOUS
  <2>4. \E m : m = made /\ Record(m) /\ \A i, k : i # src => <<i, k>> \notin DOMAIN m
    BY <2>2, <2>3
  <2>5. OthersKept
    BY <2>4, RecordKeeps
  <2>6. Orderly(src) => Sound(compared', src)
    BY <1>1, <2>1, <2>4, FlushTurn
  <2> QED BY <1>1, <1>3, <2>5, <2>6, ScanEnds
<1> QED BY <1>2, <1>3

(* A source without the key column is none that is to be compared.         *)
LEMMA SkipSourceOnce ==
  ASSUME OnceInv, SkipSource
  PROVE  OnceInv'
<1>1. /\ phase = "scan" /\ InMode({"MULTI-SS"}) /\ src \in input.keyless
      /\ input' = input /\ carryOld' = carryOld /\ compared' = compared /\ ReadFrom(src + 1)
  BY DEF SkipSource
<1>2. InMode(CarryModes)
  BY <1>1 DEF InMode, CarryModes
<1>3. carryOld = <<>>
  BY <1>1, <1>2, CarryState
<1>4. src \notin ReadSources /\ OthersKept
  BY <1>1 DEF ReadSources, OthersKept
<1> QED BY <1>1, <1>2, <1>3, <1>4, CarryMode, ScanEnds

LEMMA BeginOnce ==
  ASSUME OnceInv, BeginTx \/ BeginMulti \/ BeginUnion \/ BeginRows
  PROVE  OnceInv'
<1>1. /\ phase = "begin" /\ input' = input /\ carryOld' = carryOld /\ compared' = compared
      /\ ReadFrom(1) \/ (phase' = "done" /\ rowsChecked' = rowsChecked)
      /\ \E some \in Inputs : input \in some
  <2>1. CASE BeginTx
    BY <2>1 DEF BeginTx, OnceInv
  <2>2. CASE BeginMulti
    BY <2>2 DEF BeginMulti, OnceInv
  <2>3. CASE BeginUnion
    BY <2>3 DEF BeginUnion, OnceInv, counts
  <2>4. CASE BeginRows
    BY <2>4 DEF BeginRows, OnceInv
  <2> QED BY <2>1, <2>2, <2>3, <2>4
<1>2. CASE ~InMode(ScanModes)
  BY <1>1, <1>2, InputStays
<1>3. CASE InMode(ScanModes) /\ ReadFrom(1)
  <2>1. carryOld = <<>> /\ compared = <<>>
    BY <1>1, <1>3 DEF OnceInv, Once
  <2>2. \A i : Untouched(compared', i)
    BY <1>1, <2>1 DEF Untouched
  <2>3. Len(input.sources) \in Nat
    BY <1>1, SourceFacts
  <2>4. \A i \in 1..Len(input.sources) : ~(i <= 0)
    BY <2>3
  <2>5. \E n \in Nat : /\ n = 0 /\ n <= Len(input.sources) /\ 1 = n + 1
                       /\ \A i \in 1..Len(input.sources) : ~(i <= n)
    BY <2>3, <2>4
  <2> QED BY <1>1, <1>3, <2>1, <2>2, <2>5, NextSource
<1>4. CASE InMode(ScanModes) /\ phase' = "done" /\ rowsChecked' = rowsChecked
  <2>1. rowsChecked' = 0
    BY <1>1, <1>4 DEF OnceInv, Once
  <2>2. Once(phase', src', cursor', carryOld', rowsChecked', compared')
    BY <1>4, <2>1 DEF Once
  <2> QED BY <1>1, <2>2, InputStays
<1> QED BY <1>1, <1>2, <1>3, <1>4

(* A master and a header have one source, which is read from its start.    *)
LEMMA BeginOneOnce ==
  ASSUME OnceInv, BeginMaster \/ BeginHeader
  PROVE  OnceInv'
<1>1. /\ phase = "begin" /\ InMode({"MASTER", "HEADER"}) /\ phase' \in {"scan", "done"}
      /\ input' = input /\ src' = src /\ cursor' = cursor /\ carryOld' = carryOld
      /\ compared' = compared /\ rowsChecked' = rowsChecked
  <2>1. CASE BeginMaster
    BY <2>1 DEF BeginMaster, InMode, page, counts
  <2>2. CASE BeginHeader
    BY <2>2 DEF BeginHeader, InMode, page, counts
  <2> QED BY <2>1, <2>2
<1>2. InMode(ScanModes) /\ ~InMode(CarryModes) /\ ~InMode({"MULTI-SS"}) /\ ~Sysref
  BY <1>1 DEF InMode, KeyPages, ScanModes, RowModes, PageModes, CarryModes, Sysref
<1>3. /\ \E some \in Inputs : input \in some
      /\ src = 1 /\ cursor = Start /\ carryOld = <<>> /\ rowsChecked = 0 /\ compared = <<>>
  BY <1>1, <1>2 DEF OnceInv, Once
<1>4. Len(input.sources) = 1
  BY <1>1, <1>3, SourceFacts DEF InMode
<1>5. CASE phase' = "scan"
  <2>1. \A i \in 1..Len(input.sources) : i = src
    BY <1>3, <1>4
  <2>2. src \in 1..Len(input.sources)
    BY <1>3, <1>4
  <2>3. Untouched(compared, src)
    BY <1>3 DEF Untouched
  <2>4. Orderly(src) => Scanned(compared, src, Seen(src, Start), <<>>)
    BY <1>2, <1>3, <2>2, <2>3, StartScanned
  <2>5. Start \in Int
    BY <1>2 DEF Start, Null
  <2>6. \A i \in 1..Len(input.sources) : ~(i < src) /\ ~(i > src)
    BY <1>3, <2>1
  <2>7. Once(phase', src', cursor', carryOld', rowsChecked', compared')
    BY <1>1, <1>2, <1>3, <1>5, <2>2, <2>4, <2>5, <2>6 DEF Once
  <2> QED BY <1>1, <1>3, <2>7, InputStays
<1>6. CASE phase' = "done"
  <2>1. Once(phase', src', cursor', carryOld', rowsChecked', compared')
    BY <1>1, <1>3, <1>6 DEF Once
  <2> QED BY <1>1, <1>3, <2>1, InputStays
<1> QED BY <1>1, <1>5, <1>6

(* After the scan nothing more is compared.                                *)
LEMMA AfterScanOnce ==
  ASSUME OnceInv, ReverseTurn \/ ReverseEnd \/ CountRows
  PROVE  OnceInv'
<1>1. /\ phase \in {"reverse", "count"} /\ phase' \in {"reverse", "done"}
      /\ input' = input /\ compared' = compared /\ rowsChecked' = rowsChecked
  <2>1. CASE ReverseTurn
    BY <2>1 DEF ReverseTurn, counts
  <2>2. CASE ReverseEnd
    BY <2>2 DEF ReverseEnd, counts
  <2>3. CASE CountRows
    BY <2>3 DEF CountRows
  <2> QED BY <2>1, <2>2, <2>3
<1>2. InMode(ScanModes) => Once(phase', src', cursor', carryOld', rowsChecked', compared')
  BY <1>1 DEF OnceInv, Once
<1> QED BY <1>1, <1>2, InputStays DEF OnceInv

(* The composite mode and Split record in their own way.                   *)
LEMMA OtherModeOnce ==
  ASSUME OnceInv, CompositePage \/ SplitColumns \/ (NoMorePages /\ ~InMode(KeyPages))
  PROVE  OnceInv'
<1>1. input' = input /\ ~InMode(ScanModes)
  <2>1. CASE CompositePage
    BY <2>1 DEF CompositePage, InMode, KeyPages, ScanModes, RowModes, PageModes, CarryModes
  <2>2. CASE SplitColumns
    BY <2>2 DEF SplitColumns, InMode, KeyPages, ScanModes, RowModes, PageModes, CarryModes
  <2>3. CASE NoMorePages /\ ~InMode(KeyPages)
    BY <2>3 DEF NoMorePages, InMode, KeyPages, ScanModes, RowModes, PageModes, CarryModes
  <2> QED BY <2>1, <2>2, <2>3
<1> QED BY <1>1, InputStays DEF OnceInv

LEMMA OnceInit == Init => OnceInv
<1> SUFFICES ASSUME Init PROVE OnceInv
  OBVIOUS
<1>1. /\ \E some \in Inputs : input \in some
      /\ phase = "begin" /\ src = 1 /\ cursor = Start /\ carryOld = <<>> /\ rowsChecked = 0 /\ compared = <<>>
  BY DEF Init
<1>2. Once(phase, src, cursor, carryOld, rowsChecked, compared)
  BY <1>1 DEF Once
<1> QED BY <1>1, <1>2 DEF OnceInv

LEMMA OnceStep == OnceInv /\ [Next]_vars => OnceInv'
<1> SUFFICES ASSUME OnceInv, [Next]_vars PROVE OnceInv'
  OBVIOUS
<1>1. CASE BeginTx \/ BeginMulti \/ BeginUnion \/ BeginRows
  BY <1>1, BeginOnce
<1>2. CASE BeginMaster \/ BeginHeader
  BY <1>2, BeginOneOnce
<1>3. CASE NextPage
  BY <1>3, NextPageOnce
<1>4. CASE NextIdentities
  BY <1>4, NextIdentitiesOnce
<1>5. CASE (NoMorePages /\ InMode(KeyPages)) \/ NoMoreIdentities
  BY <1>5, LastPageOnce
<1>6. CASE ForwardTurn \/ NextRows
  BY <1>6, RowTurnOnce
<1>7. CASE ForwardEnd \/ NoMoreRows
  BY <1>7, RowEndOnce
<1>8. CASE NextChunk
  BY <1>8, NextChunkOnce
<1>9. CASE NoMoreChunks
  BY <1>9, NoMoreChunksOnce
<1>10. CASE Flush
  BY <1>10, FlushOnce
<1>11. CASE SkipSource
  BY <1>11, SkipSourceOnce
<1>12. CASE ReverseTurn \/ ReverseEnd \/ CountRows
  BY <1>12, AfterScanOnce
<1>13. CASE CompositePage \/ SplitColumns \/ (NoMorePages /\ ~InMode(KeyPages))
  BY <1>13, OtherModeOnce
<1>14. CASE Reject
  <2>1. input' = input /\ phase' = "rejected"
    BY <1>14 DEF Reject
  <2>2. Once(phase', src', cursor', carryOld', rowsChecked', compared')
    BY <2>1 DEF Once
  <2> QED BY <2>1, <2>2, InputStays DEF OnceInv
<1>15. CASE UNCHANGED vars
  <2>1. UNCHANGED <<input, phase, src, cursor, carryOld, rowsChecked, compared>>
    BY <1>15 DEF vars, page, counts
  <2>2. InMode(ScanModes) => Once(phase', src', cursor', carryOld', rowsChecked', compared')
    BY <2>1 DEF OnceInv
  <2> QED BY <2>1, <2>2, InputStays DEF OnceInv
<1> QED BY <1>1, <1>2, <1>3, <1>4, <1>5, <1>6, <1>7, <1>8, <1>9, <1>10, <1>11, <1>12, <1>13, <1>14, <1>15
     DEF Next, GroupNext, RowNext

(* A table is drawn from itself.                                           *)
LEMMA AllDrawn ==
  ASSUME NEW t, IsTable(t)
  PROVE  Drawn(t, t, 1..Len(t))
<1>1. IsSeq(t) /\ Len(t) \in Nat
  BY TableRows
<1> DEFINE p == [i \in 1..Len(t) |-> i]
<1>2. DrawnBy(p, t, t, 1..Len(t))
  BY <1>1 DEF DrawnBy
<1> QED BY <1>1, <1>2 DEF Drawn

LEMMA WholeIsOnce ==
  ASSUME NEW i, NEW k, Whole(compared, i, k), NEW rows, Drawn(rows, input.sources[i], Positions(i, k))
  PROVE  /\ <<i, k>> \in DOMAIN compared
         /\ Len(compared[<<i, k>>]) = 1
         /\ Range(compared[<<i, k>>][1]) = Range(rows)
         /\ Len(compared[<<i, k>>][1]) = Len(rows)
<1>1. PICK c : compared[<<i, k>>] = <<c>> /\ Drawn(c, input.sources[i], Positions(i, k))
  BY DEF Whole
<1> DEFINE t == input.sources[i]
           P == Positions(i, k)
<1>2. Range(c) = Range(rows) /\ Len(c) = Len(rows)
  <2>1. Drawn(c, t, P) /\ Drawn(rows, t, P)
    BY <1>1
  <2> HIDE DEF t, P
  <2>2. Len(c) = Cardinality(P) /\ Range(c) = {t[x] : x \in P}
    BY <2>1, DrawnCount
  <2>3. Len(rows) = Cardinality(P) /\ Range(rows) = {t[x] : x \in P}
    BY <2>1, DrawnCount
  <2> QED BY <2>2, <2>3
<1>3. Len(<<c>>) = 1 /\ (<<c>>)[1] = c
  OBVIOUS
<1> QED BY <1>1, <1>2, <1>3 DEF Whole

LEMMA OnceCompared == OnceInv => ComparedOnce
<1> DEFINE once(i, k, rows) == /\ <<i, k>> \in DOMAIN compared
                               /\ Len(compared[<<i, k>>]) = 1
                               /\ Range(compared[<<i, k>>][1]) = Range(rows)
                               /\ Len(compared[<<i, k>>][1]) = Len(rows)
<1> SUFFICES ASSUME OnceInv, phase = "done", rowsChecked > 0, NEW i \in ReadSources
             PROVE  LET table == input.sources[i]
                    IN  CASE InMode({"TX-GP", "MULTI-GP", "HEADER"}) ->
                               \A k \in Keys(table) \ {Blank} : once(i, k, Group(table, k))
                          [] InMode({"TX-SS", "MULTI-SS"}) ->
                               Unique(table, {"grp", "id"}) /\ AllNamed(table)
                                 => \A k \in Keys(table) \ {Blank} : once(i, k, Group(table, k))
                          [] InMode({"MULTI", "UNION"}) ->
                               Unique(table, {"id"}) /\ AllAnchored(table) /\ Contiguous(table)
                                 => \A k \in Keys(table) \ {Blank} : once(i, k, Group(table, k))
                          [] InMode({"MASTER", "MULTI-ROW"}) ->
                               Unique(table, {"id"}) /\ AllAnchored(table)
                                 => \A k \in Ids(table) : once(i, k, ById(table, k))
                          [] OTHER -> TRUE
  BY DEF ComparedOnce
<1> DEFINE t == input.sources[i]
<1>1. /\ IsTable(t)
      /\ InMode(ScanModes) /\ Orderly(i) => \A k : IsWanted(i, k) => Whole(compared, i, k)
  <2>1. i \in 1..Len(input.sources)
    BY DEF ReadSources
  <2>2. \E some \in Inputs : input \in some
    BY DEF OnceInv
  <2>3. IsTable(t)
    BY <2>1, <2>2, SourceFacts
  <2>4. InMode(ScanModes) /\ Orderly(i) => Sound(compared, i)
    BY DEF OnceInv, Once
  <2> QED BY <2>3, <2>4 DEF Sound
<1>2. Drawn(t, t, 1..Len(t))
  BY <1>1, AllDrawn
<1>3. ASSUME InMode(ScanModes), ~InMode(RowModes), Orderly(i), NEW k \in Keys(t) \ {Blank}
      PROVE  once(i, k, Group(t, k))
  <2>1. Positions(i, k) = {x \in 1..Len(t) : KeyOf(t[x]) \in {k}}
    BY <1>3 DEF Positions, KeyFor
  <2>2. IsWanted(i, k)
    BY <1>3, <2>1 DEF IsWanted, Keys
  <2>3. Drawn(Group(t, k), t, Positions(i, k))
    BY <1>2, <2>1, GroupsDraw DEF Group
  <2> QED BY <1>1, <1>3, <2>2, <2>3, WholeIsOnce
<1>4. ASSUME InMode(ScanModes), InMode(RowModes), Orderly(i), NEW k \in Ids(t)
      PROVE  once(i, k, ById(t, k))
  <2>1. Positions(i, k) = {x \in 1..Len(t) : IdOf(t[x]) = k}
    BY <1>4 DEF Positions, KeyFor
  <2>2. Ids(t) = {IdOf(t[x]) : x \in 1..Len(t)}
    BY <1>2, KeysDrawn
  <2>3. IsWanted(i, k)
    BY <1>4, <2>1, <2>2 DEF IsWanted
  <2>4. Drawn(ById(t, k), t, Positions(i, k))
    BY <1>2, <2>1, IdsDraw
  <2> QED BY <1>1, <1>4, <2>3, <2>4, WholeIsOnce
<1> HIDE DEF once
<1>5. CASE InMode({"TX-GP", "MULTI-GP", "HEADER"})
  <2>1. InMode(KeyPages)
    BY <1>5 DEF InMode, KeyPages, PageModes
  <2>2. \A k \in Keys(t) \ {Blank} : once(i, k, Group(t, k))
    BY <1>3, <2>1, KeyPageMode
  <2>3. ~InMode({"TX-SS", "MULTI-SS"}) /\ ~InMode({"MULTI", "UNION"}) /\ ~InMode({"MASTER", "MULTI-ROW"})
    BY <1>5 DEF InMode
  <2> QED BY <1>5, <2>2, <2>3
<1>6. CASE InMode({"TX-SS", "MULTI-SS"})
  <2>1. /\ ~InMode({"TX-GP", "MULTI-GP", "HEADER"}) /\ ~InMode({"MULTI", "UNION"}) /\ ~InMode({"MASTER", "MULTI-ROW"})
        /\ InMode(ScanModes) /\ ~InMode(RowModes) /\ ~InMode({"MULTI", "UNION"} \cup RowModes)
    BY <1>6 DEF InMode, ScanModes, RowModes, CarryModes
  <2>2. Unique(t, {"grp", "id"}) /\ AllNamed(t) => Orderly(i)
    BY <2>1 DEF Orderly
  <2>3. Unique(t, {"grp", "id"}) /\ AllNamed(t) => \A k \in Keys(t) \ {Blank} : once(i, k, Group(t, k))
    BY <1>3, <2>1, <2>2
  <2> QED BY <1>6, <2>1, <2>3
<1>7. CASE InMode({"MULTI", "UNION"})
  <2>1. /\ ~InMode({"TX-GP", "MULTI-GP", "HEADER"}) /\ ~InMode({"TX-SS", "MULTI-SS"}) /\ ~InMode({"MASTER", "MULTI-ROW"})
        /\ InMode(ScanModes) /\ ~InMode(RowModes) /\ ~Sysref
    BY <1>7 DEF InMode, ScanModes, RowModes, CarryModes, Sysref
  <2>2. Unique(t, {"id"}) /\ AllAnchored(t) /\ Contiguous(t) => Orderly(i)
    BY <2>1 DEF Orderly
  <2>3. Unique(t, {"id"}) /\ AllAnchored(t) /\ Contiguous(t)
          => \A k \in Keys(t) \ {Blank} : once(i, k, Group(t, k))
    BY <1>3, <2>1, <2>2
  <2> QED BY <1>7, <2>1, <2>3
<1>8. CASE InMode({"MASTER", "MULTI-ROW"})
  <2>1. /\ ~InMode({"TX-GP", "MULTI-GP", "HEADER"}) /\ ~InMode({"TX-SS", "MULTI-SS"}) /\ ~InMode({"MULTI", "UNION"})
        /\ InMode(RowModes)
    BY <1>8 DEF InMode, RowModes
  <2>2. Unique(t, {"id"}) /\ AllAnchored(t) => Orderly(i)
    BY <2>1, RowMode DEF Orderly
  <2>3. Unique(t, {"id"}) /\ AllAnchored(t) => \A k \in Ids(t) : once(i, k, ById(t, k))
    BY <1>4, <2>1, <2>2, RowMode
  <2> QED BY <1>8, <2>1, <2>3
<1>9. CASE ~InMode({"TX-GP", "MULTI-GP", "HEADER"}) /\ ~InMode({"TX-SS", "MULTI-SS"})
           /\ ~InMode({"MULTI", "UNION"}) /\ ~InMode({"MASTER", "MULTI-ROW"})
  BY <1>9
<1> QED BY <1>5, <1>6, <1>7, <1>8, <1>9

(* The scans of the Transaction, Multiple, Union, Master and Header        *)
(* strategies in their streaming modes, but not the composite keys and     *)
(* Split: whatever the tables, the rules and the sizes of pages and        *)
(* chunks, when a scan ends each group, or row, of each source read has    *)
(* been compared once, with all its rows: none is lost, split or compared  *)
(* twice at the boundary of a page or chunk, nor by the carry-over of a    *)
(* group from one chunk to the next.                                       *)
THEOREM EachComparedOnce == Spec => []ComparedOnce
<1>1. Spec => []OnceInv
  BY OnceInit, OnceStep, PTL DEF Spec
<1> QED BY <1>1, OnceCompared, PTL
-----------------------------------------------------------------------------
(* Rows counted.                                                           *)

(* Whatever is fetched of a table are rows of it, also when the anchor has *)
(* duplicates or is NULL.                                                  *)
ChunkOf(before, s, t, n) ==
  Ordered(before) /\ (\A i \in DOMAIN before : i \in 1..Len(t)) /\ s = RowsAt(t, Page(before, n))

LEMMA ChunkRows ==
  ASSUME NEW t, IsTable(t), NEW n \in Nat, NEW s, \E before : ChunkOf(before, s, t, n)
  PROVE  /\ IsSeq(s) /\ Len(s) \in Nat
         /\ \A i \in 1..Len(s) : \E x \in 1..Len(t) : s[i] = t[x]
<1>1. PICK before : ChunkOf(before, s, t, n)
  OBVIOUS
<1>2. /\ \A i \in DOMAIN before : i \in 1..Len(t)
      /\ Ordered(before) /\ s = RowsAt(t, Page(before, n))
  BY <1>1 DEF ChunkOf
<1>3. IsFiniteSet(DOMAIN before)
  <2>1. IsFiniteSet(1..Len(t)) /\ DOMAIN before \subseteq 1..Len(t)
    BY <1>2, FS_Interval, TableRows
  <2> QED BY <2>1, FS_Subset
<1>4. Drawn(s, t, Range(Page(before, n)))
  BY <1>2, <1>3, PageDraws
<1>5. PICK p : DrawnBy(p, s, t, Range(Page(before, n)))
  BY <1>4 DEF Drawn
<1>6. \A x \in Range(Page(before, n)) : x \in DOMAIN before
  <2> DEFINE q == Page(before, n)
             l == Lesser(n, Cardinality(DOMAIN before))
  <2>1. DOMAIN q = 1..l /\ \A i \in 1..l : q[i] \in DOMAIN before
    BY <1>2, <1>3, PageHolds
  <2> HIDE DEF q, l
  <2> QED BY <2>1 DEF Range, q
<1> QED BY <1>2, <1>4, <1>5, <1>6 DEF DrawnBy, Drawn

LEMMA FetchedRows ==
  ASSUME NEW t, IsTable(t), NEW n \in Nat, NEW last,
         NEW s, s = FetchChunk(t, "id", n, last)
  PROVE  /\ IsSeq(s) /\ Len(s) \in Nat
         /\ \A i \in 1..Len(s) : \E x \in 1..Len(t) : s[i] = t[x]
<1> DEFINE beyond == {i \in 1..Len(t) : t[i]["id"] > last}
           Less(i, j) == t[i]["id"] < t[j]["id"] \/ (t[i]["id"] = t[j]["id"] /\ i < j)
           before == [j \in beyond |-> {i \in beyond : Less(i, j)}]
<1>1. \A i \in 1..Len(t) : t[i].id \in Int /\ i \in Nat
  BY TableRows
<1>2. DOMAIN before = beyond /\ (\A i \in beyond : i \in 1..Len(t))
      /\ \A j \in beyond : \A i \in before[j] : i \in beyond
  OBVIOUS
<1>3. \A i, j \in beyond : i \in before[j] <=> t[i].id < t[j].id \/ (t[i].id = t[j].id /\ i < j)
  OBVIOUS
<1>4. s = RowsAt(t, Page(before, n))
  BY DEF FetchChunk
<1> HIDE DEF beyond, before
<1>5. Ordered(before)
  <2>1. \A i, j \in beyond : i # j => i \in before[j] \/ j \in before[i]
    BY <1>1, <1>2, <1>3
  <2>2. \A i \in beyond : i \notin before[i]
    BY <1>1, <1>2, <1>3
  <2>3. \A i, j, k \in beyond : i \in before[j] /\ k \in before[i] => k \in before[j]
    BY <1>1, <1>2, <1>3
  <2> QED BY <1>2, <2>1, <2>2, <2>3 DEF Ordered
<1>6. ChunkOf(before, s, t, n)
  BY <1>2, <1>4, <1>5 DEF ChunkOf
<1> QED BY <1>6, ChunkRows

LEMMA SysrefRows ==
  ASSUME NEW t, IsTable(t), NEW n \in Nat, NEW c,
         NEW s, s = FetchChunkSysref(t, "grp", "id", n, c)
  PROVE  /\ IsSeq(s) /\ Len(s) \in Nat
         /\ \A i \in 1..Len(s) : \E x \in 1..Len(t) : s[i] = t[x]
<1> DEFINE Rk(r) == IF r["grp"] = Null THEN 1 ELSE 0
           beyond == {i \in 1..Len(t) :
                       \/ c = <<>>
                       \/ /\ t[i]["grp"] # Null
                          /\ \/ t[i]["grp"] > c[1]
                             \/ t[i]["grp"] = c[1] /\ t[i]["id"] > c[2]}
           Less(i, j) == LET r == t[i] q == t[j] IN
                    \/ Rk(r) < Rk(q)
                    \/ Rk(r) = Rk(q) /\ \/ r["grp"] < q["grp"]
                                        \/ r["grp"] = q["grp"] /\ r["id"] < q["id"]
                                        \/ r["grp"] = q["grp"] /\ r["id"] = q["id"] /\ i < j
           before == [j \in beyond |-> {i \in beyond : Less(i, j)}]
<1>1. \A i \in 1..Len(t) : t[i].id \in Int /\ t[i].grp \in Int /\ i \in Nat
  BY TableRows
<1>2. DOMAIN before = beyond /\ (\A i \in beyond : i \in 1..Len(t))
      /\ \A j \in beyond : \A i \in before[j] : i \in beyond
  OBVIOUS
<1> DEFINE R == [i \in 1..Len(t) |-> Rk(t[i])]
           Ahead(i, j) == \/ R[i] < R[j]
                          \/ R[i] = R[j] /\ t[i].grp < t[j].grp
                          \/ R[i] = R[j] /\ t[i].grp = t[j].grp /\ t[i].id < t[j].id
                          \/ R[i] = R[j] /\ t[i].grp = t[j].grp /\ t[i].id = t[j].id /\ i < j
<1>3. \A i, j \in beyond : i \in before[j] <=> Ahead(i, j)
  <2>1. \A i \in 1..Len(t) : R[i] = Rk(t[i])
    OBVIOUS
  <2>2. \A i, j \in beyond : i \in before[j] <=> Less(i, j)
    OBVIOUS
  <2> HIDE DEF beyond, before, R, Rk
  <2>3. \A i, j \in beyond : Less(i, j) <=> Ahead(i, j)
    BY <1>2, <2>1
  <2> QED BY <2>2, <2>3
<1>4. s = RowsAt(t, Page(before, n))
  BY DEF FetchChunkSysref
<1>5. \A i \in 1..Len(t) : R[i] \in Int
  OBVIOUS
<1> HIDE DEF beyond, before, R
<1>6. Ordered(before)
  <2>1. \A i, j \in beyond : i # j => i \in before[j] \/ j \in before[i]
    BY <1>1, <1>2, <1>3, <1>5
  <2>2. \A i \in beyond : i \notin before[i]
    BY <1>1, <1>2, <1>3, <1>5
  <2>3. ASSUME NEW i \in beyond, NEW j \in beyond, NEW k \in beyond, i \in before[j], k \in before[i]
        PROVE  k \in before[j]
    <3>1. Ahead(i, j) /\ Ahead(k, i)
      BY <1>3, <2>3
    <3>2. i \in 1..Len(t) /\ j \in 1..Len(t) /\ k \in 1..Len(t)
      BY <1>2
    <3>3. Ahead(k, j)
      BY <1>1, <1>5, <3>1, <3>2
    <3> QED BY <1>3, <3>3
  <2> QED BY <1>2, <2>1, <2>2, <2>3 DEF Ordered
<1>7. ChunkOf(before, s, t, n)
  BY <1>2, <1>4, <1>6 DEF ChunkOf
<1> QED BY <1>7, ChunkRows

(* Rows at positions, counted.                                             *)
LEMMA PositionsCount ==
  ASSUME NEW s, Len(s) \in Nat, NEW set, \A i \in set : i \in 1..Len(s)
  PROVE  /\ IsFiniteSet(set) /\ IsSeq(RowsIn(s, set))
         /\ Len(RowsIn(s, set)) \in Nat /\ Len(RowsIn(s, set)) = Cardinality(set)
         /\ \A i \in 1..Len(RowsIn(s, set)) : \E x \in set : RowsIn(s, set)[i] = s[x]
<1>1. Drawn(RowsIn(s, set), s, set)
  BY RowsInDraws
<1>2. PICK p : DrawnBy(p, RowsIn(s, set), s, set)
  BY <1>1 DEF Drawn
<1>3. \A i \in 1..Len(RowsIn(s, set)) : \E x \in set : RowsIn(s, set)[i] = s[x]
  BY <1>2 DEF DrawnBy
<1> QED BY <1>1, <1>3, DrawnCount DEF Drawn

LEMMA TwoParts ==
  ASSUME NEW s, Len(s) \in Nat, NEW one, NEW other, NEW both,
         \A i \in one : i \in 1..Len(s), \A i \in other : i \in 1..Len(s),
         one \cap other = {}, both = one \cup other
  PROVE  Len(RowsIn(s, one)) + Len(RowsIn(s, other)) = Len(RowsIn(s, both))
<1>1. \A i \in both : i \in 1..Len(s)
  OBVIOUS
<1>2. Len(RowsIn(s, one)) = Cardinality(one) /\ IsFiniteSet(one)
  BY PositionsCount
<1>3. Len(RowsIn(s, other)) = Cardinality(other) /\ IsFiniteSet(other)
  BY PositionsCount
<1>4. Len(RowsIn(s, both)) = Cardinality(both)
  BY <1>1, PositionsCount
<1>5. Cardinality(one \cup other) = Cardinality(one) + Cardinality(other)
  BY <1>2, <1>3, DisjointUnion
<1> QED BY <1>2, <1>3, <1>4, <1>5

LEMMA AllParts ==
  ASSUME NEW s, Len(s) \in Nat
  PROVE  Len(RowsIn(s, 1..Len(s))) = Len(s)
<1>1. Len(RowsIn(s, 1..Len(s))) = Cardinality(1..Len(s))
  BY PositionsCount
<1>2. 1 \in Int /\ Len(s) \in Int
  OBVIOUS
<1>3. Cardinality(1..Len(s)) = IF 1 > Len(s) THEN 0 ELSE Len(s) - 1 + 1
  BY <1>2, FS_Interval
<1> QED BY <1>1, <1>3

(* The rows of two disjoint sets of keys; of all keys but a blank one that *)
(* no row has.                                                             *)
LEMMA KeysCount2 ==
  ASSUME NEW s, Len(s) \in Nat, NEW a, NEW b, a \cap b = {}
  PROVE  /\ Len(RowsOf(s, a)) \in Nat /\ Len(RowsOf(s, b)) \in Nat
         /\ Len(RowsOf(s, a)) + Len(RowsOf(s, b)) = Len(RowsOf(s, a \cup b))
<1> DEFINE at(ks) == {i \in 1..Len(s) : KeyOf(s[i]) \in ks}
<1>1. at(a) \cap at(b) = {} /\ at(a \cup b) = at(a) \cup at(b)
  OBVIOUS
<1>2. (\A i \in at(a) : i \in 1..Len(s)) /\ \A i \in at(b) : i \in 1..Len(s)
  OBVIOUS
<1>3. RowsOf(s, a) = RowsIn(s, at(a)) /\ RowsOf(s, b) = RowsIn(s, at(b)) /\ RowsOf(s, a \cup b) = RowsIn(s, at(a \cup b))
  BY DEF RowsOf
<1> DEFINE A == at(a)
           B == at(b)
           C == at(a \cup b)
<1>4. /\ A \cap B = {} /\ C = A \cup B
      /\ \A i \in A : i \in 1..Len(s)
      /\ \A i \in B : i \in 1..Len(s)
  BY <1>1, <1>2
<1>5. RowsOf(s, a) = RowsIn(s, A) /\ RowsOf(s, b) = RowsIn(s, B) /\ RowsOf(s, a \cup b) = RowsIn(s, C)
  BY <1>3
<1> HIDE DEF at, A, B, C
<1>6. Len(RowsIn(s, A)) \in Nat /\ Len(RowsIn(s, B)) \in Nat
  BY <1>4, PositionsCount
<1>7. Len(RowsIn(s, A)) + Len(RowsIn(s, B)) = Len(RowsIn(s, C))
  BY <1>4, TwoParts
<1> QED BY <1>5, <1>6, <1>7

LEMMA AllKeysCount ==
  ASSUME NEW s, Len(s) \in Nat, NEW ks, \A k \in Keys(s) : k \in ks
  PROVE  Len(RowsOf(s, ks)) = Len(s)
<1>1. {i \in 1..Len(s) : KeyOf(s[i]) \in ks} = 1..Len(s)
  BY DEF Keys
<1> QED BY <1>1, AllParts DEF RowsOf

LEMMA SomeKeys ==
  ASSUME NEW s, Len(s) \in Nat, NEW ks
  PROVE  /\ IsSeq(RowsOf(s, ks)) /\ Len(RowsOf(s, ks)) \in Nat
         /\ \A k \in Keys(RowsOf(s, ks)) : k \in Keys(s) /\ k \in ks
<1> DEFINE at == {i \in 1..Len(s) : KeyOf(s[i]) \in ks}
           r == RowsIn(s, at)
<1>1. \A i \in at : i \in 1..Len(s) /\ KeyOf(s[i]) \in ks
  OBVIOUS
<1>2. r = RowsOf(s, ks)
  BY DEF RowsOf
<1> HIDE DEF at, r
<1>3. /\ IsSeq(r) /\ Len(r) \in Nat
      /\ \A i \in 1..Len(r) : \E x \in at : r[i] = s[x]
  BY <1>1, PositionsCount DEF r
<1>4. \A k \in Keys(r) : k \in Keys(s) /\ k \in ks
  BY <1>1, <1>3 DEF Keys
<1> QED BY <1>2, <1>3, <1>4
-----------------------------------------------------------------------------
(* The modes whose rows pass or fail with their group, and those that at   *)
(* the end count the rows that did not fail.                               *)
CountModes == {"TX-GP", "TX-CK", "TX-SS", "MULTI", "MULTI-SS", "UNION"}
RestModes  == {"MULTI-ROW", "HEADER"}

LeftOut(i) == InMode({"MULTI-SS"}) /\ i \in input.keyless

(* Why a row may be skipped, the errors being errs.                        *)
Explained(errs) ==
  \/ \E i \in ReadSources : Blank \in Keys(input.sources[i])
  \/ InMode({"TX-CK"}) /\ \E e \in errs : e.what = <<"no mapping">>

Balanced(carry, rows, pass, fail, errs) == Explained(errs) \/ pass + fail + Len(carry) = rows

(* The invariant: the rows read have passed, have failed or are held back. *)
Steady(ph, s, carry, rows, pass, fail, errs) ==
  /\ ph \in {"begin", "scan", "flush", "count", "done", "rejected"}
  /\ rows \in Nat /\ pass \in Nat /\ fail \in Nat
  /\ ph = "begin" => rows = 0 /\ pass = 0 /\ fail = 0 /\ carry = <<>> /\ s = 1
  /\ ph \in {"scan", "flush"} =>
       /\ s \in 1..Len(input.sources) /\ IsRead(s)
       /\ IsSeq(carry) /\ \A k \in Keys(carry) : k \in Keys(input.sources[s])
       /\ LeftOut(s) \/ ~InMode(CarryModes) => ph = "scan" /\ carry = <<>>
  /\ ph \in {"count", "done"} => carry = <<>>
  /\ ph = "count" => InMode(RestModes)
  /\ ph = "rejected" => rows = 0
  /\ InMode(CountModes) /\ ph # "rejected" => Balanced(carry, rows, pass, fail, errs)
  /\ InMode(RestModes) => /\ ph \notin {"done", "rejected"} => IsFiniteSet({e.key : e \in errs})
                          /\ ph = "done" => rows <= pass + fail

CountInv ==
  /\ \E some \in Inputs : input \in some
  /\ InMode(CountModes \cup RestModes)
       => Steady(phase, src, carryOld, rowsChecked, passCount, failCount, errors)

LEMMA CountStays ==
  ASSUME input' = input
  PROVE  CountInv' <=> /\ \E some \in Inputs : input \in some
                       /\ InMode(CountModes \cup RestModes)
                            => Steady(phase', src', carryOld', rowsChecked', passCount', failCount', errors')
<1>1. \A m : InMode(m)' <=> InMode(m)
  BY DEF InMode
<1>2. \A i : IsRead(i)' <=> IsRead(i)
  BY <1>1 DEF IsRead, Rule
<1>3. ReadSources' = ReadSources
  BY <1>1, <1>2 DEF ReadSources
<1>4. \A i : LeftOut(i)' <=> LeftOut(i)
  BY <1>1 DEF LeftOut
<1>5. \A errs : Explained(errs)' <=> Explained(errs)
  BY <1>1, <1>3 DEF Explained
<1>6. \A carry, rows, pass, fail, errs : Balanced(carry, rows, pass, fail, errs)' <=> Balanced(carry, rows, pass, fail, errs)
  BY <1>5 DEF Balanced
<1>7. \A ph, s, carry, rows, pass, fail, errs :
        Steady(ph, s, carry, rows, pass, fail, errs)' <=> Steady(ph, s, carry, rows, pass, fail, errs)
  BY <1>1, <1>2, <1>4, <1>6 DEF Steady
<1>8. CountInv' <=> /\ \E some \in Inputs : input' \in some
                    /\ InMode(CountModes \cup RestModes)'
                         => Steady(phase, src, carryOld, rowsChecked, passCount, failCount, errors)'
  BY DEF CountInv
<1>9. Steady(phase, src, carryOld, rowsChecked, passCount, failCount, errors)'
        <=> Steady(phase', src', carryOld', rowsChecked', passCount', failCount', errors')
  BY <1>1, <1>2, <1>4, <1>6 DEF Steady
<1> QED BY <1>1, <1>8, <1>9

(* What was explained stays so: no error is taken back.                    *)
LEMMA StaysExplained ==
  ASSUME NEW errs, NEW more, \A e \in errs : e \in more, Explained(errs)
  PROVE  Explained(more)
BY DEF Explained

LEMMA ReadOn ==
  ASSUME NEW m \in Nat \ {0}, Len(input.sources) \in Nat, ReadFrom(m)
  PROVE  \/ phase' = "scan" /\ src' \in 1..Len(input.sources) /\ IsRead(src')
         \/ phase' = (IF InMode(RestModes) THEN "count" ELSE "done")
<1> DEFINE next == {j \in m..Len(input.sources) : IsRead(j)}
<1>1. CASE next # {}
  <2>1. src' = Min(next) /\ phase' = "scan"
    BY <1>1 DEF ReadFrom
  <2>2. \A j \in next : j \in Nat /\ j \in 1..Len(input.sources) /\ IsRead(j)
    OBVIOUS
  <2>3. next \subseteq Nat
    BY <2>2
  <2> HIDE DEF next
  <2>4. src' \in next
    BY <1>1, <2>1, <2>3, MinIsSmallest
  <2> QED BY <2>1, <2>2, <2>4
<1>2. CASE next = {}
  BY <1>2 DEF ReadFrom, RestModes
<1> QED BY <1>1, <1>2

(* Groups compared: their rows pass or fail.                               *)
LEMMA CompareCounts ==
  ASSUME NEW errs, NEW extras, NEW old, Compare(errs, extras, old), ~InMode({"MULTI-GP"}),
         Len(old) \in Nat, passCount \in Nat, failCount \in Nat, NEW ks, ks = DOMAIN errs
  PROVE  /\ passCount' \in Nat /\ failCount' \in Nat
         /\ passCount' + failCount' = passCount + failCount + Len(RowsOf(old, ks))
         /\ \A e \in errors : e \in errors'
<1> DEFINE good == {k \in ks : errs[k] = {}}
           bad  == ks \ good
<1>1. /\ passCount' = passCount + Len(RowsOf(old, good))
      /\ failCount' = failCount + Len(RowsOf(old, bad))
  BY DEF Compare
<1>2. good \cap bad = {} /\ good \cup bad = ks
  OBVIOUS
<1>3. \A e \in errors : e \in errors'
  <2>1. PICK found : IF Sysref THEN Push(found) ELSE PushAll(found)
    BY DEF Compare
  <2>2. CASE Sysref
    BY <2>1, <2>2 DEF Push
  <2>3. CASE ~Sysref
    BY <2>1, <2>3 DEF PushAll
  <2> QED BY <2>2, <2>3
<1> HIDE DEF good, bad
<1>4. Len(RowsOf(old, good)) \in Nat /\ Len(RowsOf(old, bad)) \in Nat
      /\ Len(RowsOf(old, good)) + Len(RowsOf(old, bad)) = Len(RowsOf(old, good \cup bad))
  BY <1>2, KeysCount2
<1> QED BY <1>1, <1>2, <1>3, <1>4

LEMMA ReadChunkRows ==
  ASSUME IsTable(Source)
  PROVE  /\ IsSeq(ReadChunk) /\ Len(ReadChunk) \in Nat
         /\ \A i \in 1..Len(ReadChunk) : \E x \in 1..Len(Source) : ReadChunk[i] = Source[x]
<1>1. ChunkSize \in Nat
  BY SizeAssumption
<1>2. CASE Sysref
  <2>1. ReadChunk = FetchChunkSysref(Source, "grp", "id", ChunkSize, cursor)
    BY <1>2 DEF ReadChunk
  <2> QED BY <1>1, <2>1, SysrefRows
<1>3. CASE ~Sysref
  <2>1. ReadChunk = FetchChunk(Source, "id", ChunkSize, cursor)
    BY <1>3 DEF ReadChunk
  <2> QED BY <1>1, <2>1, FetchedRows
<1> QED BY <1>2, <1>3

LEMMA JoinKeys ==
  ASSUME NEW r, IsSeq(r), NEW s, IsSeq(s)
  PROVE  /\ IsSeq(r \o s) /\ Len(r \o s) \in Nat /\ Len(r \o s) = Len(r) + Len(s)
         /\ \A k \in Keys(r \o s) : k \in Keys(r) \/ k \in Keys(s)
<1>1. PICK A, B : r \in Seq(A) /\ s \in Seq(B)
  BY DEF IsSeq
<1>2. r \in Seq(A \cup B) /\ s \in Seq(A \cup B)
  BY <1>1
<1>3. /\ r \o s \in Seq(A \cup B) /\ Len(r \o s) = Len(r) + Len(s)
      /\ \A i \in 1..(Len(r) + Len(s)) : (r \o s)[i] = IF i <= Len(r) THEN r[i] ELSE s[i - Len(r)]
  BY <1>2, ConcatProperties
<1>4. Len(r) \in Nat /\ Len(s) \in Nat
  BY SeqDomain
<1>5. ASSUME NEW i \in 1..(Len(r) + Len(s)) PROVE KeyOf((r \o s)[i]) \in Keys(r) \/ KeyOf((r \o s)[i]) \in Keys(s)
  <2>1. CASE i <= Len(r)
    <3>1. i \in 1..Len(r) /\ (r \o s)[i] = r[i]
      BY <1>3, <1>4, <2>1
    <3> QED BY <3>1 DEF Keys
  <2>2. CASE ~(i <= Len(r))
    <3>1. i - Len(r) \in 1..Len(s) /\ (r \o s)[i] = s[i - Len(r)]
      BY <1>3, <1>4, <2>2
    <3> QED BY <3>1 DEF Keys
  <2> QED BY <2>1, <2>2
<1>6. \A k \in Keys(r \o s) : k \in Keys(r) \/ k \in Keys(s)
  BY <1>3, <1>5 DEF Keys
<1>7. IsSeq(r \o s) /\ Len(r \o s) \in Nat
  BY <1>3, <1>4 DEF IsSeq
<1> QED BY <1>3, <1>6, <1>7

LEMMA NoRows == IsSeq(<<>>) /\ Keys(<<>>) = {} /\ Len(<<>>) = 0
<1>1. IsSeq(<<>>)
  BY DEF IsSeq
<1> QED BY <1>1 DEF Keys

LEMMA CountMode ==
  /\ InMode(CountModes) => ~InMode(RestModes) /\ ~InMode({"MULTI-GP"})
  /\ InMode(RestModes) => ~InMode(CountModes) /\ ~InMode(CarryModes)
  /\ InMode(CountModes \cup RestModes) <=> InMode(CountModes) \/ InMode(RestModes)
BY DEF InMode, CountModes, RestModes, CarryModes

LEMMA CountState ==
  ASSUME CountInv, InMode(CountModes \cup RestModes)
  PROVE  /\ Steady(phase, src, carryOld, rowsChecked, passCount, failCount, errors)
         /\ rowsChecked \in Nat /\ passCount \in Nat /\ failCount \in Nat
         /\ Len(input.sources) \in Nat /\ IsTable(Target)
         /\ phase \in {"scan", "flush"} =>
              /\ IsTable(Source) /\ Source = input.sources[src] /\ src + 1 \in Nat \ {0}
              /\ src \in 1..Len(input.sources)
              /\ ~InMode(CarryModes) => carryOld = <<>>
         /\ InMode(CountModes) /\ phase # "rejected" => Balanced(carryOld, rowsChecked, passCount, failCount, errors)
         /\ InMode(RestModes) /\ phase \notin {"done", "rejected"} => IsFiniteSet({e.key : e \in errors})
<1>1. /\ \E some \in Inputs : input \in some
      /\ Steady(phase, src, carryOld, rowsChecked, passCount, failCount, errors)
  BY DEF CountInv
<1>2. Len(input.sources) \in Nat /\ \A i \in 1..Len(input.sources) : IsTable(input.sources[i])
  BY <1>1, SourceFacts
<1>3. IsTable(Target)
  BY <1>1, InputAssumption DEF Target
<1>4. /\ rowsChecked \in Nat /\ passCount \in Nat /\ failCount \in Nat
      /\ phase \in {"scan", "flush"} => src \in 1..Len(input.sources) /\ (~InMode(CarryModes) => carryOld = <<>>)
      /\ InMode(CountModes) /\ phase # "rejected" => Balanced(carryOld, rowsChecked, passCount, failCount, errors)
      /\ InMode(RestModes) /\ phase \notin {"done", "rejected"} => IsFiniteSet({e.key : e \in errors})
  BY <1>1 DEF Steady
<1>5. phase \in {"scan", "flush"} => src + 1 \in Nat \ {0}
  BY <1>2, <1>4
<1> QED BY <1>1, <1>2, <1>3, <1>4, <1>5 DEF Source

LEMMA MovedOn ==
  ASSUME InMode(CountModes \cup RestModes), Len(input.sources) \in Nat, NEW m \in Nat \ {0}, ReadFrom(m),
         carryOld' = <<>>, rowsChecked' \in Nat, passCount' \in Nat, failCount' \in Nat,
         InMode(CountModes) => Balanced(<<>>, rowsChecked', passCount', failCount', errors'),
         InMode(RestModes) => IsFiniteSet({e.key : e \in errors'})
  PROVE  Steady(phase', src', carryOld', rowsChecked', passCount', failCount', errors')
<1>1. \/ phase' = "scan" /\ src' \in 1..Len(input.sources) /\ IsRead(src')
      \/ phase' = (IF InMode(RestModes) THEN "count" ELSE "done")
  BY ReadOn
<1>2. CASE phase' = "scan" /\ src' \in 1..Len(input.sources) /\ IsRead(src')
  BY <1>2, NoRows DEF Steady
<1>3. CASE phase' = "count" /\ InMode(RestModes)
  BY <1>3, CountMode DEF Steady
<1>4. CASE phase' = "done" /\ ~InMode(RestModes)
  BY <1>4 DEF Steady
<1> QED BY <1>1, <1>2, <1>3, <1>4

LEMMA KeysFinite ==
  ASSUME NEW errs, IsFiniteSet({e.key : e \in errs}), NEW found, NEW ks, IsFiniteSet(ks),
         \A e \in found : e.key \in ks, NEW all, all = errs \cup found
  PROVE  IsFiniteSet({e.key : e \in all})
<1> DEFINE a == {e.key : e \in errs}
           b == {e.key : e \in all}
<1>1. b \subseteq a \cup ks
  OBVIOUS
<1> HIDE DEF b
<1>2. IsFiniteSet(a \cup ks)
  BY FS_Union
<1>3. IsFiniteSet(b)
  BY <1>1, <1>2, FS_Subset
<1> QED BY <1>3 DEF b

LEMMA ErrKey == \A type, what, key : Err(type, what, key).key = key /\ Err(type, what, key).what = what
BY DEF Err

LEMMA BeginCounts ==
  ASSUME CountInv, InMode(CountModes \cup RestModes), BeginTx \/ BeginMulti \/ BeginUnion
  PROVE  input' = input /\ Steady(phase', src', carryOld', rowsChecked', passCount', failCount', errors')
<1>1. /\ phase = "begin" /\ InMode(TxModes \cup MultiModes \cup {"UNION"})
      /\ input' = input /\ carryOld' = carryOld
      /\ ReadFrom(1) \/ (phase' = "done" /\ src' = src)
      /\ rowsChecked' = rowsChecked /\ passCount' = passCount /\ failCount' = failCount
  <2>1. CASE BeginTx
    BY <2>1 DEF BeginTx, InMode, counts
  <2>2. CASE BeginMulti
    BY <2>2 DEF BeginMulti, InMode, counts
  <2>3. CASE BeginUnion
    BY <2>3 DEF BeginUnion, InMode, counts
  <2> QED BY <2>1, <2>2, <2>3
<1>2. ~InMode(RestModes)
  BY <1>1 DEF InMode, TxModes, MultiModes, RestModes
<1>3. /\ Len(input.sources) \in Nat
      /\ rowsChecked = 0 /\ passCount = 0 /\ failCount = 0 /\ carryOld = <<>>
  BY <1>1, CountState DEF Steady
<1>4. /\ rowsChecked' \in Nat /\ passCount' \in Nat /\ failCount' \in Nat /\ carryOld' = <<>>
      /\ passCount' + failCount' + Len(<<>>) = rowsChecked'
  BY <1>1, <1>3, NoRows
<1>5. Balanced(<<>>, rowsChecked', passCount', failCount', errors')
  BY <1>4 DEF Balanced
<1>6. 1 \in Nat \ {0}
  OBVIOUS
<1>7. CASE ReadFrom(1)
  BY <1>1, <1>2, <1>3, <1>4, <1>5, <1>6, <1>7, MovedOn
<1>8. CASE phase' = "done"
  BY <1>1, <1>2, <1>4, <1>5, <1>8 DEF Steady
<1> QED BY <1>1, <1>7, <1>8

LEMMA BeginRestCounts ==
  ASSUME CountInv, InMode(CountModes \cup RestModes), BeginRows \/ BeginHeader
  PROVE  input' = input /\ Steady(phase', src', carryOld', rowsChecked', passCount', failCount', errors')
<1>1. /\ phase = "begin" /\ InMode(RestModes)
      /\ input' = input /\ carryOld' = carryOld
      /\ rowsChecked' = rowsChecked /\ passCount' = passCount /\ failCount' = failCount
      /\ \E found : errors' = errors \cup found /\ \A e \in found : e.key \in {Null}
      /\ \/ InMode({"MULTI-ROW"}) /\ ReadFrom(1)
         \/ InMode({"HEADER"}) /\ src' = src /\ phase' \in {"scan", "done"}
  <2>1. CASE BeginRows
    <3>1. /\ phase = "begin" /\ InMode({"MULTI-ROW"})
          /\ input' = input /\ carryOld' = carryOld /\ ReadFrom(1)
          /\ rowsChecked' = rowsChecked /\ passCount' = passCount /\ failCount' = failCount
          /\ PushAll({Err(e[1], <<e[2]>>, Null) : e \in UnmappedErrors(Rule.sm, OldColumns, input.new)})
      BY <2>1 DEF BeginRows, counts
    <3> DEFINE un    == UnmappedErrors(Rule.sm, OldColumns, input.new)
               found == {Err(e[1], <<e[2]>>, Null) : e \in un}
    <3>2. \A e \in found : e.key = Null
      <4> HIDE DEF un
      <4> TAKE e \in found
      <4>1. PICK x \in un : e = Err(x[1], <<x[2]>>, Null)
        OBVIOUS
      <4> QED BY <4>1, ErrKey
    <3> HIDE DEF found
    <3> QED BY <3>1, <3>2 DEF PushAll, InMode, RestModes, found
  <2>2. CASE BeginHeader
    <3> DEFINE pivoted == Rule.sm.pivot # {}
               found   == {Err("DATA_MISSING", <<"pivots">>, Null)}
                          \cup IF Target = <<>> THEN {Err("ROW_MISSING", <<"empty">>, Null)} ELSE {}
               push    == IF pivoted THEN {} ELSE found
    <3>1. /\ phase = "begin" /\ InMode({"HEADER"})
          /\ input' = input /\ carryOld' = carryOld /\ src' = src /\ phase' \in {"scan", "done"}
          /\ rowsChecked' = rowsChecked /\ passCount' = passCount /\ failCount' = failCount
          /\ PushAll(push)
      BY <2>2 DEF BeginHeader, page, counts
    <3>2. \A e \in push : e.key = Null
      BY ErrKey
    <3> HIDE DEF push
    <3> QED BY <3>1, <3>2 DEF PushAll, InMode, RestModes
  <2> QED BY <2>1, <2>2
<1>2. ~InMode(CountModes)
  BY <1>1, CountMode
<1>3. /\ Len(input.sources) \in Nat /\ IsFiniteSet({e.key : e \in errors})
      /\ rowsChecked = 0 /\ passCount = 0 /\ failCount = 0 /\ carryOld = <<>> /\ src = 1
  <2>1. /\ Steady(phase, src, carryOld, rowsChecked, passCount, failCount, errors)
        /\ Len(input.sources) \in Nat /\ IsFiniteSet({e.key : e \in errors})
    BY <1>1, CountState
  <2> QED BY <1>1, <2>1 DEF Steady
<1>4. IsFiniteSet({e.key : e \in errors'})
  <2>1. IsFiniteSet({Null})
    BY FS_Singleton
  <2>2. PICK found : errors' = errors \cup found /\ \A e \in found : e.key \in {Null}
    BY <1>1
  <2> QED BY <1>3, <2>1, <2>2, KeysFinite
<1>5. CASE InMode({"MULTI-ROW"}) /\ ReadFrom(1)
  <2>1. /\ rowsChecked' \in Nat /\ passCount' \in Nat /\ failCount' \in Nat /\ carryOld' = <<>>
        /\ 1 \in Nat \ {0}
    BY <1>1, <1>3
  <2>2. Steady(phase', src', carryOld', rowsChecked', passCount', failCount', errors')
    BY <1>2, <1>3, <1>4, <1>5, <2>1, MovedOn
  <2> QED BY <1>1, <2>2
<1>6. CASE InMode({"HEADER"}) /\ src' = src /\ phase' = "scan"
  <2>1. Len(input.sources) = 1
    BY <1>6, SourceFacts DEF InMode, CountInv
  <2>2. IsRead(src')
    BY <1>6 DEF IsRead, InMode
  <2>3. src' \in 1..Len(input.sources)
    BY <1>3, <1>6, <2>1
  <2> QED BY <1>1, <1>2, <1>3, <1>4, <1>6, <2>2, <2>3, NoRows DEF Steady
<1>7. CASE InMode({"HEADER"}) /\ src' = src /\ phase' = "done"
  BY <1>1, <1>2, <1>3, <1>7 DEF Steady
<1> QED BY <1>1, <1>5, <1>6, <1>7

(* A page of group keys: the rows with a key are counted.                  *)
LEMMA NextPageCounts ==
  ASSUME CountInv, InMode(CountModes \cup RestModes), NextPage
  PROVE  input' = input /\ Steady(phase', src', carryOld', rowsChecked', passCount', failCount', errors')
<1> DEFINE ks   == NextKeys
           rows == RowsByKeys(Source, "grp", Range(ks))
           old  == Named(rows)
           new  == Named(RowsByKeys(Target, "grp", Range(ks)))
           errs == Checked(Keys(old), old, new, FALSE)
<1>1. /\ phase = "scan" /\ InMode(PageModes)
      /\ rowsChecked' = rowsChecked + Len(old)
      /\ Compare(errs, Keys(new) \ Keys(old), old)
      /\ ReadFrom(src + 1) \/ (src' = src /\ phase' = phase)
      /\ input' = input /\ carryOld' = carryOld
  BY DEF NextPage
<1>2. InMode(CountModes) /\ ~InMode(RestModes) /\ ~InMode({"MULTI-GP"}) /\ ~InMode(CarryModes)
  BY <1>1 DEF InMode, PageModes, CountModes, RestModes, CarryModes
<1>3. /\ IsTable(Source) /\ Len(input.sources) \in Nat /\ src + 1 \in Nat \ {0}
      /\ rowsChecked \in Nat /\ passCount \in Nat /\ failCount \in Nat /\ carryOld = <<>>
      /\ Balanced(<<>>, rowsChecked, passCount, failCount, errors)
      /\ Steady(phase, src, carryOld, rowsChecked, passCount, failCount, errors)
  BY <1>1, <1>2, CountState
<1> HIDE DEF ks
<1>4. Len(old) \in Nat
  <2>1. Len(rows) \in Nat
    BY <1>3, RowsByKeysDraw, DrawnCount
  <2> HIDE DEF rows
  <2> QED BY <2>1, SomeKeys DEF Named
<1> HIDE DEF old, new
<1>5. /\ passCount' \in Nat /\ failCount' \in Nat
      /\ passCount' + failCount' = passCount + failCount + Len(RowsOf(old, Keys(old)))
      /\ \A e \in errors : e \in errors'
  <2>1. DOMAIN errs = Keys(old)
    BY DEF Checked
  <2> HIDE DEF errs
  <2> QED BY <1>1, <1>2, <1>3, <1>4, <2>1, CompareCounts
<1>6. Len(RowsOf(old, Keys(old))) = Len(old)
  BY <1>4, AllKeysCount
<1>7. Balanced(<<>>, rowsChecked', passCount', failCount', errors')
  <2>1. CASE Explained(errors)
    BY <1>5, <2>1, StaysExplained DEF Balanced
  <2>2. CASE passCount + failCount + Len(<<>>) = rowsChecked
    <3>1. passCount' + failCount' + Len(<<>>) = rowsChecked'
      BY <1>1, <1>3, <1>4, <1>5, <1>6, <2>2, NoRows
    <3> QED BY <3>1 DEF Balanced
  <2> QED BY <1>3, <2>1, <2>2 DEF Balanced
<1>8. rowsChecked' \in Nat
  BY <1>1, <1>3, <1>4
<1>9. CASE ReadFrom(src + 1)
  BY <1>1, <1>2, <1>3, <1>5, <1>7, <1>8, <1>9, MovedOn
<1>10. CASE src' = src /\ phase' = phase
  BY <1>1, <1>2, <1>3, <1>5, <1>7, <1>8, <1>10 DEF Steady
<1> QED BY <1>1, <1>9, <1>10

(* A source ends, or is left out: nothing is held back of it.              *)
LEMMA NothingMoreCounts ==
  ASSUME CountInv, InMode(CountModes \cup RestModes),
         NoMorePages \/ SkipSource \/ NoMoreRows \/ NoMoreIdentities
  PROVE  input' = input /\ Steady(phase', src', carryOld', rowsChecked', passCount', failCount', errors')
<1>1. /\ phase = "scan" /\ ReadFrom(src + 1) /\ input' = input /\ carryOld' = carryOld /\ errors' = errors
      /\ rowsChecked' = rowsChecked /\ passCount' = passCount /\ failCount' = failCount
      /\ LeftOut(src) \/ ~InMode(CarryModes)
  <2>1. CASE NoMorePages
    BY <2>1 DEF NoMorePages, counts, InMode, PageModes, CarryModes
  <2>2. CASE SkipSource
    BY <2>2 DEF SkipSource, counts, LeftOut
  <2>3. CASE NoMoreRows
    BY <2>3 DEF NoMoreRows, counts, InMode, CarryModes
  <2>4. CASE NoMoreIdentities
    BY <2>4 DEF NoMoreIdentities, counts, InMode, CarryModes
  <2> QED BY <2>1, <2>2, <2>3, <2>4
<1>2. /\ Len(input.sources) \in Nat /\ src + 1 \in Nat \ {0}
      /\ rowsChecked \in Nat /\ passCount \in Nat /\ failCount \in Nat
      /\ Steady(phase, src, carryOld, rowsChecked, passCount, failCount, errors)
      /\ InMode(CountModes) => Balanced(carryOld, rowsChecked, passCount, failCount, errors)
      /\ InMode(RestModes) => IsFiniteSet({e.key : e \in errors})
  BY <1>1, CountState
<1>3. carryOld = <<>>
  BY <1>1, <1>2 DEF Steady
<1>4. /\ carryOld' = <<>> /\ rowsChecked' \in Nat /\ passCount' \in Nat /\ failCount' \in Nat
      /\ InMode(CountModes) => Balanced(<<>>, rowsChecked', passCount', failCount', errors')
      /\ InMode(RestModes) => IsFiniteSet({e.key : e \in errors'})
  BY <1>1, <1>2, <1>3
<1>5. Steady(phase', src', carryOld', rowsChecked', passCount', failCount', errors')
  BY <1>1, <1>2, <1>4, MovedOn
<1> QED BY <1>1, <1>5

(* A page of composite keys: the groups whose account has a mapping.       *)
LEMMA PairsCount ==
  ASSUME NEW s, Len(s) \in Nat, NEW good, NEW bad, NEW pairs, good \cap bad = {}, pairs = good \cup bad
  PROVE  /\ Len(RowsOfPairs(s, good)) \in Nat /\ Len(RowsOfPairs(s, bad)) \in Nat
         /\ (\A i \in 1..Len(s) : PairOf(s[i]) \in pairs)
              => Len(RowsOfPairs(s, good)) + Len(RowsOfPairs(s, bad)) = Len(s)
<1> DEFINE A == {i \in 1..Len(s) : PairOf(s[i]) \in good}
           B == {i \in 1..Len(s) : PairOf(s[i]) \in bad}
           C == {i \in 1..Len(s) : PairOf(s[i]) \in pairs}
<1>1. /\ A \cap B = {} /\ C = A \cup B
      /\ \A i \in A : i \in 1..Len(s)
      /\ \A i \in B : i \in 1..Len(s)
  OBVIOUS
<1>2. RowsOfPairs(s, good) = RowsIn(s, A) /\ RowsOfPairs(s, bad) = RowsIn(s, B)
  BY DEF RowsOfPairs
<1>3. (\A i \in 1..Len(s) : PairOf(s[i]) \in pairs) => C = 1..Len(s)
  OBVIOUS
<1> HIDE DEF A, B, C
<1>4. Len(RowsIn(s, A)) \in Nat /\ Len(RowsIn(s, B)) \in Nat
  BY <1>1, PositionsCount
<1>5. Len(RowsIn(s, A)) + Len(RowsIn(s, B)) = Len(RowsIn(s, C))
  BY <1>1, TwoParts
<1>6. Len(RowsIn(s, 1..Len(s))) = Len(s)
  BY AllParts
<1> QED BY <1>2, <1>3, <1>4, <1>5, <1>6

LEMMA CompositePageCounts ==
  ASSUME CountInv, InMode(CountModes \cup RestModes), CompositePage
  PROVE  input' = input /\ Steady(phase', src', carryOld', rowsChecked', passCount', failCount', errors')
<1> DEFINE all  == RowsByKeys(Source, "grp", Range(NextKeys))
           old  == WithAccount(all)
           map  == AccountMap(all)
           groups == {PairOf(r) : r \in Range(old)}
           mapped == {g \in groups : g[2] \in DOMAIN map}
           lost == {Err("ROW_MISSING", <<"no mapping">>, Composite(g[1], g[2])) : g \in groups \ mapped}
<1>1. /\ phase = "scan" /\ InMode({"TX-CK"})
      /\ rowsChecked' = rowsChecked + Len(old)
      /\ \E good : /\ \A g \in good : g \in mapped
                   /\ passCount' = passCount + Len(RowsOfPairs(old, good))
                   /\ failCount' = failCount + Len(RowsOfPairs(old, mapped \ good))
      /\ (\A e \in errors : e \in errors') /\ \A e \in lost : e \in errors'
      /\ ReadFrom(src + 1) \/ (src' = src /\ phase' = phase)
      /\ input' = input /\ carryOld' = carryOld
  <2> DEFINE new  == WithAccount(RowsByKeys(Target, "grp", Range(NextKeys)))
             becomes(g) == Composite(g[1], map[g[2]])
             errs == [g \in mapped |-> GroupErrors(becomes(g), RowsOfPairs(old, {g}),
                       RowsOfComposite(new, becomes(g)), Mappings(TxKinds),
                       NoisyColumns(Source, OldCols(Mappings(TxKinds), TxKinds \ {"transformed"}), FALSE), FALSE)]
             good == {g \in mapped : errs[g] = {}}
  <2>1. /\ phase = "scan" /\ InMode({"TX-CK"})
        /\ rowsChecked' = rowsChecked + Len(old)
        /\ passCount' = passCount + Len(RowsOfPairs(old, good))
        /\ failCount' = failCount + Len(RowsOfPairs(old, mapped \ good))
        /\ (\A e \in errors : e \in errors') /\ \A e \in lost : e \in errors'
        /\ ReadFrom(src + 1) \/ (src' = src /\ phase' = phase)
        /\ input' = input /\ carryOld' = carryOld
    <3>1. phase = "scan" /\ InMode({"TX-CK"}) /\ input' = input /\ carryOld' = carryOld
      BY DEF CompositePage
    <3>2. rowsChecked' = rowsChecked + Len(old)
      BY DEF CompositePage
    <3>3. passCount' = passCount + Len(RowsOfPairs(old, good))
      BY DEF CompositePage
    <3>4. failCount' = failCount + Len(RowsOfPairs(old, mapped \ good))
      BY DEF CompositePage
    <3>5. \A e \in errors : e \in errors'
      BY DEF CompositePage, PushAll
    <3>6. \A g \in groups \ mapped : Err("ROW_MISSING", <<"no mapping">>, Composite(g[1], g[2])) \in errors'
      BY DEF CompositePage, PushAll
    <3>7. \A e \in lost : e \in errors'
      BY <3>6
    <3>8. ReadFrom(src + 1) \/ (src' = src /\ phase' = phase)
      BY DEF CompositePage
    <3> QED BY <3>1, <3>2, <3>3, <3>4, <3>5, <3>7, <3>8
  <2>2. \A g \in good : g \in mapped
    OBVIOUS
  <2> HIDE DEF old, mapped, lost, good
  <2> QED BY <2>1, <2>2
<1>2. InMode(CountModes) /\ ~InMode(RestModes) /\ ~InMode(CarryModes)
  BY <1>1 DEF InMode, CountModes, RestModes, CarryModes
<1>3. /\ IsTable(Source) /\ Len(input.sources) \in Nat /\ src + 1 \in Nat \ {0}
      /\ rowsChecked \in Nat /\ passCount \in Nat /\ failCount \in Nat /\ carryOld = <<>>
      /\ Balanced(<<>>, rowsChecked, passCount, failCount, errors)
      /\ Steady(phase, src, carryOld, rowsChecked, passCount, failCount, errors)
  BY <1>1, <1>2, CountState
<1>4. (\A e \in errors : e \in errors') /\ \A e \in lost : e \in errors'
  BY <1>1
<1>5. groups # mapped => \E e \in lost : e.what = <<"no mapping">>
  <2> HAVE groups # mapped
  <2>1. PICK g \in groups : g \notin mapped
    OBVIOUS
  <2>2. Err("ROW_MISSING", <<"no mapping">>, Composite(g[1], g[2])) \in lost
    BY <2>1
  <2> HIDE DEF lost
  <2> QED BY <2>2, ErrKey
<1>6. \A i \in 1..Len(old) : PairOf(old[i]) \in groups
  <2> HIDE DEF old, all
  <2>1. DOMAIN old = 1..Len(old)
    <3>1. Len(all) \in Nat
      BY <1>3, RowsByKeysDraw, DrawnCount DEF all
    <3>2. IsSeq(old)
      BY <3>1, PositionsCount DEF old, WithAccount
    <3> QED BY <3>2 DEF IsSeq
  <2> QED BY <2>1 DEF Range
<1>7. Len(old) \in Nat
  <2>1. Len(all) \in Nat
    BY <1>3, RowsByKeysDraw, DrawnCount
  <2> HIDE DEF all
  <2> QED BY <2>1, PositionsCount DEF WithAccount
<1> HIDE DEF old, groups, mapped, lost
<1>8. PICK good : /\ \A g \in good : g \in mapped
                  /\ passCount' = passCount + Len(RowsOfPairs(old, good))
                  /\ failCount' = failCount + Len(RowsOfPairs(old, mapped \ good))
  BY <1>1
<1>9. /\ Len(RowsOfPairs(old, good)) \in Nat /\ Len(RowsOfPairs(old, mapped \ good)) \in Nat
      /\ groups = mapped => Len(RowsOfPairs(old, good)) + Len(RowsOfPairs(old, mapped \ good)) = Len(old)
  <2>1. good \cap (mapped \ good) = {} /\ mapped = good \cup (mapped \ good)
    BY <1>8
  <2> QED BY <1>6, <1>7, <2>1, PairsCount
<1>10. Balanced(<<>>, rowsChecked', passCount', failCount', errors')
  <2>1. CASE Explained(errors)
    BY <1>4, <2>1, StaysExplained DEF Balanced
  <2>2. CASE groups # mapped
    <3>1. Explained(errors')
      BY <1>1, <1>4, <1>5, <2>2 DEF Explained
    <3> QED BY <3>1 DEF Balanced
  <2>3. CASE passCount + failCount + Len(<<>>) = rowsChecked /\ groups = mapped
    <3>1. passCount' + failCount' + Len(<<>>) = rowsChecked'
      <4>1. /\ rowsChecked' = rowsChecked + Len(old) /\ Len(old) \in Nat
            /\ rowsChecked \in Nat /\ passCount \in Nat /\ failCount \in Nat
            /\ Len(<<>>) = 0 /\ passCount + failCount = rowsChecked
        BY <1>1, <1>3, <1>7, <2>3, NoRows
      <4> DEFINE a == Len(RowsOfPairs(old, good))
                 b == Len(RowsOfPairs(old, mapped \ good))
      <4>2. /\ passCount' = passCount + a /\ failCount' = failCount + b
            /\ a \in Nat /\ b \in Nat /\ a + b = Len(old)
        BY <1>8, <1>9, <2>3
      <4> HIDE DEF a, b
      <4> QED BY <4>1, <4>2
    <3> QED BY <3>1 DEF Balanced
  <2> QED BY <1>3, <2>1, <2>2, <2>3 DEF Balanced
<1>11. rowsChecked' \in Nat /\ passCount' \in Nat /\ failCount' \in Nat
  BY <1>1, <1>3, <1>7, <1>8, <1>9
<1>12. CASE ReadFrom(src + 1)
  BY <1>1, <1>2, <1>3, <1>10, <1>11, <1>12, MovedOn
<1>13. CASE src' = src /\ phase' = phase
  BY <1>1, <1>2, <1>3, <1>10, <1>11, <1>13 DEF Steady
<1> QED BY <1>1, <1>12, <1>13

(* A chunk: the rows read and those held back pass, fail or are held back. *)
LEMMA NextChunkCounts ==
  ASSUME CountInv, InMode(CountModes \cup RestModes), NextChunk
  PROVE  input' = input /\ Steady(phase', src', carryOld', rowsChecked', passCount', failCount', errors')
<1> DEFINE chunk == ReadChunk
           old   == carryOld \o chunk
           found == FetchNew(chunk)
           new   == carryNew \o found
           held  == IF Len(chunk) < ChunkSize THEN {} ELSE {LastKey(old)}
           errs  == Checked(Keys(old) \ held, old, new, FALSE)
<1>1. /\ phase = "scan" /\ InMode(CarryModes) /\ ~LeftOut(src)
      /\ rowsChecked' = rowsChecked + Len(chunk)
      /\ Compare(errs, Keys(new) \ (Keys(old) \cup held), old)
      /\ carryOld' = RowsOf(old, held \ {Blank})
      /\ phase' \in {"scan", "flush"}
      /\ input' = input /\ src' = src
  BY DEF NextChunk, LeftOut, Carried
<1>2. InMode(CountModes) /\ ~InMode(RestModes) /\ ~InMode({"MULTI-GP"})
  <2>1. ~InMode(RestModes)
    BY <1>1, CountMode
  <2> QED BY <2>1, CountMode
<1>3. /\ IsTable(Source) /\ Source = input.sources[src]
      /\ rowsChecked \in Nat /\ passCount \in Nat /\ failCount \in Nat
      /\ Balanced(carryOld, rowsChecked, passCount, failCount, errors)
      /\ Steady(phase, src, carryOld, rowsChecked, passCount, failCount, errors)
  BY <1>1, <1>2, CountState
<1>4. /\ src \in 1..Len(input.sources) /\ IsRead(src)
      /\ IsSeq(carryOld) /\ \A k \in Keys(carryOld) : k \in Keys(Source)
  BY <1>1, <1>3 DEF Steady
<1>5. DOMAIN errs = Keys(old) \ held
  BY DEF Checked
<1> HIDE DEF errs, held, new, found
<1>6. IsSeq(chunk) /\ Len(chunk) \in Nat /\ \A k \in Keys(chunk) : k \in Keys(Source)
  <2>1. /\ IsSeq(chunk) /\ Len(chunk) \in Nat
        /\ \A i \in 1..Len(chunk) : \E x \in 1..Len(Source) : chunk[i] = Source[x]
    BY <1>3, ReadChunkRows
  <2> HIDE DEF chunk
  <2> QED BY <2>1 DEF Keys
<1> HIDE DEF chunk
<1>7. /\ IsSeq(old) /\ Len(old) \in Nat /\ Len(old) = Len(carryOld) + Len(chunk)
      /\ \A k \in Keys(old) : k \in Keys(carryOld) \/ k \in Keys(chunk)
  BY <1>4, <1>6, JoinKeys
<1> HIDE DEF old
<1>8. \A k \in Keys(old) : k \in Keys(Source)
  BY <1>4, <1>6, <1>7
<1> DEFINE a == Keys(old) \ held
           b == held \ {Blank}
           A == Len(RowsOf(old, a))
<1>9. /\ passCount' \in Nat /\ failCount' \in Nat
      /\ passCount' + failCount' = passCount + failCount + A
      /\ \A e \in errors : e \in errors'
  BY <1>1, <1>2, <1>3, <1>5, <1>7, CompareCounts
<1>10. /\ IsSeq(carryOld') /\ Len(carryOld') \in Nat
       /\ \A k \in Keys(carryOld') : k \in Keys(Source)
  <2>1. /\ IsSeq(RowsOf(old, b)) /\ Len(RowsOf(old, b)) \in Nat
        /\ \A k \in Keys(RowsOf(old, b)) : k \in Keys(old) /\ k \in b
    BY <1>7, SomeKeys
  <2>2. carryOld' = RowsOf(old, b)
    BY <1>1
  <2> HIDE DEF b
  <2> QED BY <1>8, <2>1, <2>2
<1>11. Blank \notin Keys(Source) => A \in Nat /\ A + Len(carryOld') = Len(old)
  <2> HAVE Blank \notin Keys(Source)
  <2>1. a \cap b = {} /\ \A k \in Keys(old) : k \in a \cup b
    BY <1>8
  <2>2. carryOld' = RowsOf(old, b)
    BY <1>1
  <2> HIDE DEF a, b
  <2>3. A \in Nat /\ Len(RowsOf(old, a)) + Len(RowsOf(old, b)) = Len(RowsOf(old, a \cup b))
    BY <1>7, <2>1, KeysCount2
  <2>4. Len(RowsOf(old, a \cup b)) = Len(old)
    BY <1>7, <2>1, AllKeysCount
  <2> QED BY <2>2, <2>3, <2>4
<1> HIDE DEF A, a, b
<1>12. Balanced(carryOld', rowsChecked', passCount', failCount', errors')
  <2>1. CASE Explained(errors)
    BY <1>9, <2>1, StaysExplained DEF Balanced
  <2>2. CASE ~Explained(errors)
    <3>1. passCount + failCount + Len(carryOld) = rowsChecked
      BY <1>3, <2>2 DEF Balanced
    <3>2. Blank \notin Keys(Source)
      <4>1. src \in ReadSources
        BY <1>1, <1>4 DEF ReadSources, LeftOut
      <4> QED BY <1>3, <2>2, <4>1 DEF Explained
    <3>3. A \in Nat /\ A + Len(carryOld') = Len(old)
      BY <1>11, <3>2
    <3>4. Len(carryOld) \in Nat
      BY <1>4, SeqDomain DEF IsSeq
    <3>5. rowsChecked' = rowsChecked + Len(chunk) /\ Len(old) = Len(carryOld) + Len(chunk)
      BY <1>1, <1>7
    <3>6. passCount' + failCount' + Len(carryOld') = rowsChecked'
      <4>1. /\ passCount' + failCount' = passCount + failCount + A
            /\ passCount \in Nat /\ failCount \in Nat /\ rowsChecked \in Nat
            /\ passCount' \in Nat /\ failCount' \in Nat
        BY <1>3, <1>9
      <4>2. Len(chunk) \in Nat /\ Len(carryOld') \in Nat
        BY <1>6, <1>10
      <4>3. A \in Nat /\ A + Len(carryOld') = Len(carryOld) + Len(chunk)
        BY <3>3, <3>5
      <4>4. passCount' + failCount' + Len(carryOld') = rowsChecked + Len(chunk)
        <5> DEFINE h  == Len(carryOld)
                   h1 == Len(carryOld')
                   n  == Len(chunk)
        <5>1. /\ h \in Nat /\ h1 \in Nat /\ n \in Nat /\ A \in Nat
              /\ passCount + failCount + h = rowsChecked /\ A + h1 = h + n
              /\ passCount' + failCount' = passCount + failCount + A
              /\ passCount \in Nat /\ failCount \in Nat /\ rowsChecked \in Nat
              /\ passCount' \in Nat /\ failCount' \in Nat
          BY <3>1, <3>4, <4>1, <4>2, <4>3
        <5> HIDE DEF h, h1, n
        <5>2. passCount' + failCount' + h1 = passCount + failCount + A + h1
          BY <5>1
        <5>3. passCount + failCount + A + h1 = passCount + failCount + h + n
          BY <5>1
        <5>4. passCount' + failCount' + h1 = rowsChecked + n
          BY <5>1, <5>2, <5>3
        <5> QED BY <5>4 DEF h1, n
      <4> QED BY <3>5, <4>4
    <3> QED BY <3>6 DEF Balanced
  <2> QED BY <2>1, <2>2
<1>13. rowsChecked' \in Nat
  BY <1>1, <1>3, <1>6
<1>14. \A k \in Keys(carryOld') : k \in Keys(input.sources[src'])
  BY <1>1, <1>3, <1>10
<1> QED BY <1>1, <1>2, <1>4, <1>9, <1>10, <1>12, <1>13, <1>14 DEF Steady

LEMMA NoMoreChunksCounts ==
  ASSUME CountInv, InMode(CountModes \cup RestModes), NoMoreChunks
  PROVE  input' = input /\ Steady(phase', src', carryOld', rowsChecked', passCount', failCount', errors')
<1>1. /\ phase = "scan" /\ phase' = "flush" /\ InMode(CarryModes) /\ ~LeftOut(src)
      /\ input' = input /\ src' = src /\ carryOld' = carryOld /\ PushAll(PairErrors)
      /\ rowsChecked' = rowsChecked /\ passCount' = passCount /\ failCount' = failCount
  BY DEF NoMoreChunks, LeftOut, page, counts
<1>2. InMode(CountModes) /\ ~InMode(RestModes)
  BY <1>1, CountMode
<1>3. /\ Steady(phase, src, carryOld, rowsChecked, passCount, failCount, errors)
      /\ Balanced(carryOld, rowsChecked, passCount, failCount, errors)
  BY <1>1, <1>2, CountState
<1>4. \A e \in errors : e \in errors'
  BY <1>1 DEF PushAll
<1>5. Balanced(carryOld', rowsChecked', passCount', failCount', errors')
  BY <1>1, <1>3, <1>4, StaysExplained DEF Balanced
<1> QED BY <1>1, <1>2, <1>3, <1>5 DEF Steady

(* The rows held back when the source ends pass or fail.                   *)
LEMMA FlushCounts ==
  ASSUME CountInv, InMode(CountModes \cup RestModes), Flush
  PROVE  input' = input /\ Steady(phase', src', carryOld', rowsChecked', passCount', failCount', errors')
<1> DEFINE errs == Checked(Keys(carryOld), carryOld, carryNew, TRUE)
<1>1. /\ phase = "flush"
      /\ Compare(errs, Keys(carryNew) \ Keys(carryOld), carryOld)
      /\ carryOld' = <<>> /\ ReadFrom(src + 1) /\ input' = input /\ rowsChecked' = rowsChecked
  BY DEF Flush
<1>2. DOMAIN errs = Keys(carryOld)
  BY DEF Checked
<1> HIDE DEF errs
<1>3. /\ Steady(phase, src, carryOld, rowsChecked, passCount, failCount, errors)
      /\ Len(input.sources) \in Nat /\ src + 1 \in Nat \ {0}
      /\ rowsChecked \in Nat /\ passCount \in Nat /\ failCount \in Nat
  BY <1>1, CountState
<1>4. InMode(CarryModes) /\ IsSeq(carryOld)
  BY <1>1, <1>3 DEF Steady
<1>5. InMode(CountModes) /\ ~InMode(RestModes) /\ ~InMode({"MULTI-GP"})
  <2>1. ~InMode(RestModes)
    BY <1>4, CountMode
  <2> QED BY <2>1, CountMode
<1>6. Balanced(carryOld, rowsChecked, passCount, failCount, errors)
  BY <1>1, <1>5, CountState
<1>7. Len(carryOld) \in Nat
  BY <1>4, SeqDomain DEF IsSeq
<1>8. /\ passCount' \in Nat /\ failCount' \in Nat
      /\ passCount' + failCount' = passCount + failCount + Len(carryOld)
      /\ \A e \in errors : e \in errors'
  <2>1. Len(RowsOf(carryOld, Keys(carryOld))) = Len(carryOld)
    BY <1>7, AllKeysCount
  <2>2. /\ passCount' \in Nat /\ failCount' \in Nat
        /\ passCount' + failCount' = passCount + failCount + Len(RowsOf(carryOld, Keys(carryOld)))
        /\ \A e \in errors : e \in errors'
    BY <1>1, <1>2, <1>3, <1>5, <1>7, CompareCounts
  <2> QED BY <2>1, <2>2
<1>9. Balanced(<<>>, rowsChecked', passCount', failCount', errors')
  <2>1. CASE Explained(errors)
    BY <1>8, <2>1, StaysExplained DEF Balanced
  <2>2. CASE passCount + failCount + Len(carryOld) = rowsChecked
    <3>1. passCount' + failCount' + Len(<<>>) = rowsChecked'
      <4>1. rowsChecked' = rowsChecked /\ Len(<<>>) = 0
        BY <1>1, NoRows
      <4>2. passCount' \in Nat /\ failCount' \in Nat /\ passCount' + failCount' = passCount + failCount + Len(carryOld)
        BY <1>8
      <4> QED BY <2>2, <4>1, <4>2
    <3> QED BY <3>1 DEF Balanced
  <2> QED BY <1>6, <2>1, <2>2 DEF Balanced
<1>10. rowsChecked' \in Nat
  BY <1>1, <1>3
<1>11. Steady(phase', src', carryOld', rowsChecked', passCount', failCount', errors')
  BY <1>1, <1>3, <1>5, <1>8, <1>9, <1>10, MovedOn
<1> QED BY <1>1, <1>11

(* The keys of errors are finitely many, so that they can be counted.      *)
LEMMA FiniteKeys ==
  ASSUME NEW s, Len(s) \in Nat
  PROVE  IsFiniteSet(Keys(s)) /\ IsFiniteSet({IdOf(s[i]) : i \in 1..Len(s)})
<1> DEFINE f == [i \in 1..Len(s) |-> KeyOf(s[i])]
           g == [i \in 1..Len(s) |-> IdOf(s[i])]
<1>1. IsFiniteSet(1..Len(s))
  BY FS_Interval
<1>2. f = [i \in 1..Len(s) |-> f[i]] /\ g = [i \in 1..Len(s) |-> g[i]]
  OBVIOUS
<1>3. Keys(s) = {f[i] : i \in 1..Len(s)} /\ {IdOf(s[i]) : i \in 1..Len(s)} = {g[i] : i \in 1..Len(s)}
  BY DEF Keys
<1> HIDE DEF f, g
<1>4. IsFiniteSet({f[i] : i \in 1..Len(s)}) /\ IsFiniteSet({g[i] : i \in 1..Len(s)})
  BY <1>1, <1>2, FiniteValues
<1> QED BY <1>3, <1>4

LEMMA PivotKey ==
  ASSUME NEW k, NEW old, NEW new, NEW e \in PivotErrors(k, old, new)
  PROVE  e.key = k
<1> DEFINE bad == {p \in Rule.sm.pivot : ~IsEqual(PivotValue(old, p), new[1][p.new], Rule.tolerance)}
<1>1. \/ e = Err("ROW_MISSING", <<"identity">>, k)
      \/ \E i \in 2..Len(new) : e = Err("TRANSFORM_ERROR", <<"duplicate", i>>, k)
      \/ \E m \in bad : e = Err("VALUE_MISMATCH", <<"pivot", m.key, m.new>>, k)
  BY DEF PivotErrors
<1> HIDE DEF bad
<1>2. CASE \E i \in 2..Len(new) : e = Err("TRANSFORM_ERROR", <<"duplicate", i>>, k)
  <2>1. PICK i \in 2..Len(new) : e = Err("TRANSFORM_ERROR", <<"duplicate", i>>, k)
    BY <1>2
  <2> QED BY <2>1, ErrKey
<1>3. CASE \E m \in bad : e = Err("VALUE_MISMATCH", <<"pivot", m.key, m.new>>, k)
  <2>1. PICK m \in bad : e = Err("VALUE_MISMATCH", <<"pivot", m.key, m.new>>, k)
    BY <1>3
  <2> QED BY <2>1, ErrKey
<1> QED BY <1>1, <1>2, <1>3, ErrKey

LEMMA RowKey ==
  ASSUME NEW sm, NEW old, NEW new, NEW noisy, NEW e \in CompareChunk(sm, old, new, noisy), DOMAIN old = 1..Len(old)
  PROVE  e.key \in {IdOf(old[i]) : i \in 1..Len(old)}
<1> DEFINE at(i) == {Err("VALUE_MISMATCH", <<x[1], x[2], i>>, IdOf(old[i])) :
                       x \in Differences(sm, old[i], LastWith(new, IdOf(old[i])), noisy)}
           both  == {j \in 1..Len(old) : IdOf(old[j]) \in Ids(new)}
<1>1. \/ \E k \in Ids(old) \ Ids(new) : e = Err("ROW_MISSING", <<"row">>, k)
      \/ \E i \in both : e \in at(i)
  BY DEF CompareChunk
<1>2. ASSUME NEW k \in Ids(old), e = Err("ROW_MISSING", <<"row">>, k)
      PROVE  e.key \in {IdOf(old[i]) : i \in 1..Len(old)}
  <2>1. e.key = k
    BY <1>2, ErrKey
  <2>2. PICK i \in 1..Len(old) : k = IdOf(old[i])
    BY <1>2 DEF Ids, Range
  <2> QED BY <2>1, <2>2
<1>3. ASSUME NEW i \in both, e \in at(i)
      PROVE  e.key \in {IdOf(old[j]) : j \in 1..Len(old)}
  <2>1. PICK x : e = Err("VALUE_MISMATCH", <<x[1], x[2], i>>, IdOf(old[i]))
    BY <1>3
  <2>2. e.key = IdOf(old[i])
    BY <2>1, ErrKey
  <2> QED BY <2>2
<1> QED BY <1>1, <1>2, <1>3

(* Rows, or identities, compared: the modes that count at the end.         *)
LEMMA ComparedCounts ==
  ASSUME CountInv, InMode(RestModes), phase = "scan", input' = input,
         NEW n \in Nat, rowsChecked' = rowsChecked + n, passCount' = passCount, failCount' = failCount,
         NEW found, NEW ks, IsFiniteSet(ks), \A e \in found : e.key \in ks, errors' = errors \cup found,
         carryOld' = carryOld, ReadFrom(src + 1) \/ (src' = src /\ phase' = phase)
  PROVE  Steady(phase', src', carryOld', rowsChecked', passCount', failCount', errors')
<1>1. ~InMode(CountModes) /\ ~InMode(CarryModes) /\ InMode(CountModes \cup RestModes)
  BY CountMode
<1>2. /\ Len(input.sources) \in Nat /\ src + 1 \in Nat \ {0}
      /\ rowsChecked \in Nat /\ passCount \in Nat /\ failCount \in Nat /\ carryOld = <<>>
      /\ IsFiniteSet({e.key : e \in errors})
      /\ Steady(phase, src, carryOld, rowsChecked, passCount, failCount, errors)
  BY <1>1, CountState
<1>3. IsFiniteSet({e.key : e \in errors'})
  BY <1>2, KeysFinite
<1>4. rowsChecked' \in Nat /\ passCount' \in Nat /\ failCount' \in Nat /\ carryOld' = <<>>
  BY <1>2
<1>5. CASE ReadFrom(src + 1)
  BY <1>1, <1>2, <1>3, <1>4, <1>5, MovedOn
<1>6. CASE src' = src /\ phase' = phase
  BY <1>1, <1>2, <1>3, <1>4, <1>6 DEF Steady
<1> QED BY <1>5, <1>6

LEMMA NextRowsCounts ==
  ASSUME CountInv, InMode(CountModes \cup RestModes), NextRows
  PROVE  input' = input /\ Steady(phase', src', carryOld', rowsChecked', passCount', failCount', errors')
<1> DEFINE old   == Chunk
           sm    == PairMappings(src)
           noisy == NoisyColumns(Source, OldCols(sm, RowChecks) \cap OldColumns, FALSE)
           found == CompareChunk(sm, old, RowsByKeys(Target, "id", Ids(old)), noisy)
           ks    == {IdOf(old[i]) : i \in 1..Len(old)}
<1>1. /\ phase = "scan" /\ InMode({"MULTI-ROW"}) /\ input' = input /\ carryOld' = carryOld
      /\ rowsChecked' = rowsChecked + Len(old) /\ passCount' = passCount /\ failCount' = failCount
      /\ errors' = errors \cup found
      /\ ReadFrom(src + 1) \/ (src' = src /\ phase' = phase)
  BY DEF NextRows, CompareRows, PushAll
<1>2. InMode(RestModes) /\ IsTable(Source)
  <2>1. InMode(RestModes)
    BY <1>1 DEF InMode, RestModes
  <2> QED BY <1>1, <2>1, CountState
<1>3. IsSeq(old) /\ Len(old) \in Nat
  <2>1. ChunkSize \in Nat
    BY SizeAssumption
  <2> QED BY <1>2, <2>1, FetchedRows DEF Chunk
<1> HIDE DEF old, sm, noisy
<1>4. DOMAIN old = 1..Len(old)
  BY <1>3 DEF IsSeq
<1>5. \A e \in found : e.key \in ks
  BY <1>4, RowKey
<1>6. IsFiniteSet(ks)
  BY <1>3, FiniteKeys
<1> HIDE DEF found, ks
<1>7. Steady(phase', src', carryOld', rowsChecked', passCount', failCount', errors')
  <2>1. \E n \in Nat : n = Len(old)
    BY <1>3
  <2> QED BY <1>1, <1>2, <1>5, <1>6, <2>1, ComparedCounts
<1> QED BY <1>1, <1>7

LEMMA NextIdentitiesCounts ==
  ASSUME CountInv, InMode(CountModes \cup RestModes), NextIdentities
  PROVE  input' = input /\ Steady(phase', src', carryOld', rowsChecked', passCount', failCount', errors')
<1> DEFINE ids == GroupKeys(Source, "grp", ChunkSize, cursor)
           old == RowsByKeys(Source, "grp", Range(ids))
           new == RowsByKeys(Target, "grp", Range(ids))
           found == (UNION {PivotErrors(k, Group(old, k), Group(new, k)) : k \in Keys(old)})
                    \cup {Err("ROW_MISSING", <<"extra identity">>, k) : k \in Keys(new) \ Keys(old)}
           ks == Keys(old) \cup Keys(new)
<1>1. /\ phase = "scan" /\ InMode({"HEADER"}) /\ input' = input /\ carryOld' = carryOld
      /\ rowsChecked' = rowsChecked + Len(old) /\ passCount' = passCount /\ failCount' = failCount
      /\ errors' = errors \cup found
      /\ ReadFrom(src + 1) \/ (src' = src /\ phase' = phase)
  BY DEF NextIdentities, PushAll
<1>2. InMode(RestModes) /\ IsTable(Source) /\ IsTable(Target)
  <2>1. InMode(RestModes)
    BY <1>1 DEF InMode, RestModes
  <2> QED BY <1>1, <2>1, CountState
<1> HIDE DEF ids
<1>3. Len(old) \in Nat /\ Len(new) \in Nat
  BY <1>2, RowsByKeysDraw, DrawnCount
<1> HIDE DEF old, new
<1>4. ASSUME NEW e \in found PROVE e.key \in ks
  <2>1. CASE \E k \in Keys(old) : e \in PivotErrors(k, Group(old, k), Group(new, k))
    <3>1. PICK k \in Keys(old) : e \in PivotErrors(k, Group(old, k), Group(new, k))
      BY <2>1
    <3>2. e.key = k
      BY <3>1, PivotKey
    <3> QED BY <3>1, <3>2
  <2>2. CASE \E k \in Keys(new) \ Keys(old) : e = Err("ROW_MISSING", <<"extra identity">>, k)
    <3>1. PICK k \in Keys(new) : e = Err("ROW_MISSING", <<"extra identity">>, k)
      BY <2>2
    <3>2. e.key = k
      BY <3>1, ErrKey
    <3> QED BY <3>1, <3>2
  <2> QED BY <2>1, <2>2
<1>5. IsFiniteSet(ks)
  <2>1. IsFiniteSet(Keys(old)) /\ IsFiniteSet(Keys(new))
    BY <1>3, FiniteKeys
  <2> QED BY <2>1, FS_Union
<1> HIDE DEF found, ks
<1>6. Steady(phase', src', carryOld', rowsChecked', passCount', failCount', errors')
  <2>1. \E n \in Nat : n = Len(old)
    BY <1>3
  <2> QED BY <1>1, <1>2, <1>4, <1>5, <2>1, ComparedCounts
<1> QED BY <1>1, <1>6

(* The end of these modes: what did not fail has passed.                   *)
LEMMA CountRowsCounts ==
  ASSUME CountInv, InMode(CountModes \cup RestModes), CountRows
  PROVE  input' = input /\ Steady(phase', src', carryOld', rowsChecked', passCount', failCount', errors')
<1>1. /\ phase = "count" /\ phase' = "done" /\ input' = input /\ carryOld' = carryOld /\ rowsChecked' = rowsChecked
      /\ failCount' = Cardinality({e.key : e \in errors} \ {Null, Blank})
      /\ passCount' = IF failCount' < rowsChecked THEN rowsChecked - failCount' ELSE 0
  BY DEF CountRows, page
<1>2. /\ Steady(phase, src, carryOld, rowsChecked, passCount, failCount, errors)
      /\ rowsChecked \in Nat
  BY CountState
<1>3. InMode(RestModes) /\ ~InMode(CountModes) /\ carryOld = <<>> /\ IsFiniteSet({e.key : e \in errors})
  BY <1>1, <1>2, CountMode DEF Steady
<1>4. failCount' \in Nat
  <2> DEFINE all == {e.key : e \in errors}
  <2>1. IsFiniteSet(all) /\ failCount' = Cardinality(all \ {Null, Blank})
    BY <1>1, <1>3
  <2> HIDE DEF all
  <2> QED BY <2>1, FS_Difference, FS_CardinalityType
<1>5. passCount' \in Nat /\ rowsChecked' <= passCount' + failCount'
  BY <1>1, <1>2, <1>4
<1> QED BY <1>1, <1>2, <1>3, <1>4, <1>5 DEF Steady

LEMMA RejectCounts ==
  ASSUME Reject
  PROVE  input' = input /\ Steady(phase', src', carryOld', rowsChecked', passCount', failCount', errors')
<1>1. phase' = "rejected" /\ input' = input /\ rowsChecked' = 0 /\ passCount' = 0 /\ failCount' = 0
  BY DEF Reject
<1> QED BY <1>1 DEF Steady

LEMMA CountInit == Init => CountInv
<1> SUFFICES ASSUME Init PROVE CountInv
  OBVIOUS
<1>1. /\ \E some \in Inputs : input \in some
      /\ phase = "begin" /\ src = 1 /\ carryOld = <<>> /\ errors = {}
      /\ rowsChecked = 0 /\ passCount = 0 /\ failCount = 0
  BY DEF Init
<1>2. IsFiniteSet({e.key : e \in errors})
  <2>1. {e.key : e \in errors} = {}
    BY <1>1
  <2> QED BY <2>1, FS_EmptySet
<1>3. Balanced(carryOld, rowsChecked, passCount, failCount, errors)
  BY <1>1, NoRows DEF Balanced
<1>4. Steady(phase, src, carryOld, rowsChecked, passCount, failCount, errors)
  BY <1>1, <1>2, <1>3 DEF Steady
<1> QED BY <1>1, <1>4 DEF CountInv

LEMMA InputKept == [Next]_vars => input' = input
<1> SUFFICES ASSUME [Next]_vars PROVE input' = input
  OBVIOUS
<1>1. CASE GroupNext
  BY <1>1 DEF GroupNext, BeginTx, BeginMulti, BeginUnion, NextPage, CompositePage, NoMorePages,
              SkipSource, NextChunk, NoMoreChunks, Flush
<1>2. CASE RowNext
  BY <1>2 DEF RowNext, BeginMaster, ForwardTurn, ForwardEnd, ReverseTurn, ReverseEnd, BeginRows,
              NextRows, NoMoreRows, CountRows, SplitColumns, BeginHeader, NextIdentities, NoMoreIdentities
<1>3. CASE Reject
  BY <1>3 DEF Reject
<1>4. CASE UNCHANGED vars
  BY <1>4 DEF vars
<1> QED BY <1>1, <1>2, <1>3, <1>4 DEF Next

LEMMA CountStep == CountInv /\ [Next]_vars => CountInv'
<1> SUFFICES ASSUME CountInv, [Next]_vars PROVE CountInv'
  OBVIOUS
<1>1. input' = input
  BY InputKept
<1>2. ASSUME InMode(CountModes \cup RestModes)
      PROVE  Steady(phase', src', carryOld', rowsChecked', passCount', failCount', errors')
  <2>1. Steady(phase, src, carryOld, rowsChecked, passCount, failCount, errors)
    BY <1>2, CountState
  <2>2. ~InMode({"MASTER"}) /\ ~InMode({"SPLIT"}) /\ phase # "reverse"
    BY <1>2, <2>1 DEF InMode, CountModes, RestModes, Steady
  <2>3. CASE BeginTx \/ BeginMulti \/ BeginUnion
    BY <1>2, <2>3, BeginCounts
  <2>4. CASE BeginRows \/ BeginHeader
    BY <1>2, <2>4, BeginRestCounts
  <2>5. CASE NextPage
    BY <1>2, <2>5, NextPageCounts
  <2>6. CASE CompositePage
    BY <1>2, <2>6, CompositePageCounts
  <2>7. CASE NoMorePages \/ SkipSource \/ NoMoreRows \/ NoMoreIdentities
    BY <1>2, <2>7, NothingMoreCounts
  <2>8. CASE NextChunk
    BY <1>2, <2>8, NextChunkCounts
  <2>9. CASE NoMoreChunks
    BY <1>2, <2>9, NoMoreChunksCounts
  <2>10. CASE Flush
    BY <1>2, <2>10, FlushCounts
  <2>11. CASE NextRows
    BY <1>2, <2>11, NextRowsCounts
  <2>12. CASE NextIdentities
    BY <1>2, <2>12, NextIdentitiesCounts
  <2>13. CASE CountRows
    BY <1>2, <2>13, CountRowsCounts
  <2>14. CASE Reject
    BY <2>14, RejectCounts
  <2>15. CASE BeginMaster \/ ForwardTurn \/ ForwardEnd \/ ReverseTurn \/ ReverseEnd \/ SplitColumns
    BY <2>2, <2>15 DEF BeginMaster, ForwardTurn, ForwardEnd, ReverseTurn, ReverseEnd, SplitColumns
  <2>16. CASE UNCHANGED vars
    <3>1. /\ phase' = phase /\ src' = src /\ carryOld' = carryOld /\ errors' = errors
          /\ rowsChecked' = rowsChecked /\ passCount' = passCount /\ failCount' = failCount
      BY <2>16 DEF vars, page, counts
    <3> QED BY <2>1, <3>1
  <2> QED BY <2>3, <2>4, <2>5, <2>6, <2>7, <2>8, <2>9, <2>10, <2>11, <2>12, <2>13, <2>14, <2>15, <2>16
          DEF Next, GroupNext, RowNext
<1>3. \E some \in Inputs : input \in some
  BY DEF CountInv
<1> QED BY <1>1, <1>2, <1>3, CountStays

(* A table of another type has no strategy: nothing of it is read.         *)
KnownModes == GroupModes \cup {"MASTER", "MULTI-ROW", "SPLIT", "HEADER"}
NoStrategy == ~InMode(KnownModes) => phase \in {"begin", "rejected"} /\ rowsChecked = 0 /\ passCount = 0 /\ failCount = 0

LEMMA NoStrategyStep == NoStrategy /\ [Next]_vars => NoStrategy'
<1> SUFFICES ASSUME NoStrategy, [Next]_vars, ~InMode(KnownModes)
             PROVE  phase' \in {"begin", "rejected"} /\ rowsChecked' = 0 /\ passCount' = 0 /\ failCount' = 0
  BY InputKept DEF NoStrategy, InMode
<1>1. phase \in {"begin", "rejected"} /\ rowsChecked = 0 /\ passCount = 0 /\ failCount = 0
  BY DEF NoStrategy
<1>2. ~GroupNext
  BY <1>1 DEF GroupNext, BeginTx, BeginMulti, BeginUnion, NextPage, CompositePage, NoMorePages,
              SkipSource, NextChunk, NoMoreChunks, Flush, InMode, KnownModes, GroupModes
<1>3. ~RowNext
  BY <1>1 DEF RowNext, BeginMaster, ForwardTurn, ForwardEnd, ReverseTurn, ReverseEnd, BeginRows,
              NextRows, NoMoreRows, CountRows, SplitColumns, BeginHeader, NextIdentities, NoMoreIdentities,
              InMode, KnownModes
<1>4. CASE Reject
  BY <1>4 DEF Reject
<1>5. CASE UNCHANGED vars
  BY <1>1, <1>5 DEF vars, counts
<1> QED BY <1>2, <1>3, <1>4, <1>5 DEF Next

LEMMA CountExplains == CountInv /\ NoStrategy => (~InMode({"SPLIT"}) => SkippedExplained)
<1> SUFFICES ASSUME CountInv, NoStrategy, ~InMode({"SPLIT"}), Skipped > 0, Over, ~InMode({"MASTER", "MULTI-GP"})
             PROVE  Explained(errors)
  BY DEF SkippedExplained, Explained
<1>1. CASE ~InMode(KnownModes)
  BY <1>1 DEF NoStrategy, Skipped
<1>2. CASE InMode(CountModes \cup RestModes)
  <2>1. /\ Steady(phase, src, carryOld, rowsChecked, passCount, failCount, errors)
        /\ rowsChecked \in Nat /\ passCount \in Nat /\ failCount \in Nat
    BY <1>2, CountState
  <2>2. rowsChecked > passCount + failCount
    BY DEF Skipped
  <2>3. phase = "done"
    BY <2>1, <2>2 DEF Over, Steady
  <2>4. InMode(CountModes) /\ carryOld = <<>>
    BY <1>2, <2>1, <2>2, <2>3, CountMode DEF Steady
  <2>5. Balanced(<<>>, rowsChecked, passCount, failCount, errors)
    BY <2>1, <2>3, <2>4 DEF Steady
  <2>6. CASE passCount + failCount + Len(<<>>) = rowsChecked
    BY <2>1, <2>2, <2>6, NoRows
  <2> QED BY <2>5, <2>6 DEF Balanced
<1>3. InMode(KnownModes) => InMode(CountModes \cup RestModes)
  BY DEF InMode, KnownModes, GroupModes, TxModes, MultiModes, CountModes, RestModes
<1> QED BY <1>1, <1>2, <1>3

(* The counters of the report, of every strategy but Split: whatever the   *)
(* tables, the rules and the sizes of pages and chunks, when the scan is   *)
(* over each row read has passed or has failed, unless the mode counts no  *)
(* rows, a group key is blank or an account has no mapping.                *)
THEOREM RowsAccountedFor == Spec => [](~InMode({"SPLIT"}) => SkippedExplained)
<1>1. Init => NoStrategy
  BY DEF Init, NoStrategy
<1>2. Spec => []CountInv
  BY CountInit, CountStep, PTL DEF Spec
<1>3. Spec => []NoStrategy
  BY <1>1, NoStrategyStep, PTL DEF Spec
<1> QED BY <1>2, <1>3, CountExplains, PTL
=============================================================================
