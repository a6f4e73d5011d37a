-------------------------- MODULE RuleCasesProofs --------------------------
(***************************************************************************)
(* For every set of cases: the row-level diff of a group is empty when the *)
(* new rows are the old ones in some order, and only then, as far as no    *)
(* text contains the bar that separates the columns of a fingerprint.      *)
(***************************************************************************)
EXTENDS RuleCases, SetLemmas, SequenceTheorems

(* Where a takes the value v in its first n positions.                     *)
Places(a, n, v) == {i \in 1..n : a[i] = v}

(* Every value is as often in the one list as in the other.                *)
SameCounts(a, m, b, n) == \A v : Cardinality(Places(a, m, v)) = Cardinality(Places(b, n, v))

(* The one list is the other in another order.                             *)
Rearranged(a, m, b, n) ==
  m = n /\ \E f \in [1..m -> 1..m] : Range(f) = 1..m /\ \A i \in 1..m : a[i] = b[f[i]]

LEMMA PlacesFinite ==
  ASSUME NEW a, NEW n \in Nat, NEW v
  PROVE  /\ IsFiniteSet(Places(a, n, v))
         /\ Cardinality(Places(a, n, v)) \in Nat
         /\ Cardinality(Places(a, n, v)) > 0 <=> Places(a, n, v) # {}
<1>1. IsFiniteSet(1..n)
  BY FS_Interval
<1>2. Places(a, n, v) \subseteq 1..n
  BY DEF Places
<1>3. IsFiniteSet(Places(a, n, v))
  BY <1>1, <1>2, FS_Subset
<1>4. Cardinality(Places(a, n, v)) \in Nat
  BY <1>3, FS_CardinalityType
<1>5. Cardinality(Places(a, n, v)) = 0 <=> Places(a, n, v) = {}
  BY <1>3, FS_EmptySet
<1> QED BY <1>3, <1>4, <1>5

LEMMA IntervalCount ==
  ASSUME NEW n \in Nat
  PROVE  IsFiniteSet(1..n) /\ Cardinality(1..n) = n
<1>1. 1 \in Int /\ n \in Int
  OBVIOUS
<1>2. IsFiniteSet(1..n) /\ Cardinality(1..n) = IF 1 > n THEN 0 ELSE n - 1 + 1
  BY <1>1, FS_Interval
<1> QED BY <1>2

(* Two lists in which every value is as often are permutations of each     *)
(* other: for each value the positions are matched, and the matchings are  *)
(* put together.                                                           *)
LEMMA SameCountsPermute ==
  ASSUME NEW m \in Nat, NEW n \in Nat, NEW a, NEW b, SameCounts(a, m, b, n)
  PROVE  Rearranged(a, m, b, n)
<1> DEFINE match(v) == CHOOSE g : g \in Bijection(Places(a, m, v), Places(b, n, v))
<1> DEFINE f == [i \in 1..m |-> match(a[i])[i]]
<1>1. ASSUME NEW v PROVE match(v) \in Bijection(Places(a, m, v), Places(b, n, v))
  <2>1. IsFiniteSet(Places(a, m, v)) /\ IsFiniteSet(Places(b, n, v))
    BY PlacesFinite
  <2>2. Cardinality(Places(a, m, v)) = Cardinality(Places(b, n, v))
    BY DEF SameCounts
  <2>3. ExistsBijection(Places(a, m, v), Places(b, n, v))
    BY <2>1, <2>2, FS_SameCardinalityBij
  <2>4. \E g : g \in Bijection(Places(a, m, v), Places(b, n, v))
    BY <2>3 DEF ExistsBijection
  <2> QED BY <2>4
<1>2. ASSUME NEW v
      PROVE  /\ \A i \in Places(a, m, v) : match(v)[i] \in Places(b, n, v)
             /\ \A i, j \in Places(a, m, v) : match(v)[i] = match(v)[j] => i = j
             /\ \A k \in Places(b, n, v) : \E i \in Places(a, m, v) : match(v)[i] = k
  <2>1. match(v) \in Bijection(Places(a, m, v), Places(b, n, v))
    BY <1>1
  <2> HIDE DEF match
  <2> QED BY <2>1 DEF Bijection, Injection, Surjection, IsInjective
<1> HIDE DEF match
<1>3. ASSUME NEW i \in 1..m PROVE f[i] \in 1..n /\ b[f[i]] = a[i] /\ f[i] = match(a[i])[i]
  <2>1. i \in Places(a, m, a[i])
    BY DEF Places
  <2>2. match(a[i])[i] \in Places(b, n, a[i])
    BY <1>2, <2>1
  <2> QED BY <2>2 DEF Places
<1>4. ASSUME NEW i \in 1..m, NEW j \in 1..m, f[i] = f[j] PROVE i = j
  <2>1. a[i] = a[j]
    BY <1>3, <1>4
  <2>2. i \in Places(a, m, a[i]) /\ j \in Places(a, m, a[i])
    BY <2>1 DEF Places
  <2>3. match(a[i])[i] = match(a[i])[j]
    BY <1>3, <1>4, <2>1
  <2> QED BY <1>2, <2>2, <2>3
<1>5. ASSUME NEW k \in 1..n PROVE \E i \in 1..m : f[i] = k
  <2>1. k \in Places(b, n, b[k])
    BY DEF Places
  <2>2. PICK i \in Places(a, m, b[k]) : match(b[k])[i] = k
    BY <1>2, <2>1
  <2>3. i \in 1..m /\ a[i] = b[k]
    BY DEF Places
  <2> QED BY <2>2, <2>3
<1>6. f \in [1..m -> 1..n]
  BY <1>3
<1> HIDE DEF f
<1>7. f \in Bijection(1..m, 1..n)
  BY <1>4, <1>5, <1>6 DEF Bijection, Injection, Surjection, IsInjective
<1>8. m = n
  <2>1. ExistsBijection(1..m, 1..n)
    BY <1>7 DEF ExistsBijection
  <2>2. IsFiniteSet(1..m) /\ Cardinality(1..m) = m /\ Cardinality(1..n) = n
    BY IntervalCount
  <2>3. Cardinality(1..n) = Cardinality(1..m)
    BY <2>1, <2>2, FS_Bijection
  <2> QED BY <2>2, <2>3
<1>9. Range(f) = 1..m
  BY <1>5, <1>6, <1>8 DEF Range
<1>10. \A i \in 1..m : a[i] = b[f[i]]
  BY <1>3
<1> QED BY <1>6, <1>8, <1>9, <1>10 DEF Rearranged

(* And a permutation moves no value to another number of places.           *)
LEMMA PermutedSameCounts ==
  ASSUME NEW m \in Nat, NEW n \in Nat, NEW a, NEW b, Rearranged(a, m, b, n)
  PROVE  SameCounts(a, m, b, n)
<1> SUFFICES ASSUME NEW v PROVE Cardinality(Places(a, n, v)) = Cardinality(Places(b, n, v))
  BY DEF SameCounts, Rearranged
<1>0. PICK f \in [1..n -> 1..n] : Range(f) = 1..n /\ \A i \in 1..n : a[i] = b[f[i]]
  BY DEF Rearranged
<1> DEFINE P == Places(a, n, v)
           Q == Places(b, n, v)
           h == [i \in P |-> f[i]]
<1>1. IsFiniteSet(1..n)
  BY IntervalCount
<1>2. f \in Surjection(1..n, 1..n)
  BY <1>0 DEF Surjection, Range
<1>3. f \in Injection(1..n, 1..n)
  <2>1. Cardinality(1..n) = Cardinality(1..n)
    OBVIOUS
  <2> QED BY <1>1, <1>2, <2>1, FS_SurjSameCardinalityImpliesInj
<1>4. \A i, j \in 1..n : f[i] = f[j] => i = j
  BY <1>3 DEF Injection, IsInjective
<1>5. \A k \in 1..n : \E i \in 1..n : f[i] = k
  BY <1>2 DEF Surjection
<1>6. \A i \in P : i \in 1..n /\ h[i] = f[i] /\ h[i] \in Q
  BY <1>0 DEF Places
<1>7. \A k \in Q : \E i \in P : h[i] = k
  BY <1>0, <1>5 DEF Places
<1>8. h \in [P -> Q]
  BY <1>6
<1>9. ExistsBijection(P, Q)
  <2> HIDE DEF P, Q, h
  <2>1. h \in Bijection(P, Q)
    BY <1>4, <1>6, <1>7, <1>8 DEF Bijection, Injection, Surjection, IsInjective
  <2> QED BY <2>1 DEF ExistsBijection
<1>10. IsFiniteSet(P)
  BY PlacesFinite
<1> HIDE DEF P, Q
<1>11. Cardinality(Q) = Cardinality(P)
  BY <1>9, <1>10, FS_Bijection
<1> QED BY <1>11 DEF P, Q

-----------------------------------------------------------------------------
(* The fingerprints of a list of rows, in the order of the rows.           *)
Prints(rows, cols) == [i \in 1..Len(rows) |-> Fingerprint(rows[i], cols)]

Copies(f, rows, cols) == Cardinality(Places(Prints(rows, cols), Len(rows), f))

LEMMA FingerprintCount ==
  ASSUME NEW rows, NEW cols, Len(rows) \in Nat, NEW f
  PROVE  /\ f \in DOMAIN Fingerprints(rows, cols) <=> Copies(f, rows, cols) > 0
         /\ f \in DOMAIN Fingerprints(rows, cols) => Fingerprints(rows, cols)[f] = Copies(f, rows, cols)
         /\ Copies(f, rows, cols) \in Nat
<1> DEFINE n == Len(rows)
           p == Prints(rows, cols)
<1>1. Places(p, n, f) = {i \in 1..n : Fingerprint(rows[i], cols) = f}
  BY DEF Places, Prints
<1>2. f \in DOMAIN Fingerprints(rows, cols) <=> Places(p, n, f) # {}
  BY <1>1 DEF Fingerprints
<1>3. f \in DOMAIN Fingerprints(rows, cols) => Fingerprints(rows, cols)[f] = Cardinality(Places(p, n, f))
  BY <1>1 DEF Fingerprints
<1>4. /\ Cardinality(Places(p, n, f)) \in Nat
      /\ Cardinality(Places(p, n, f)) > 0 <=> Places(p, n, f) # {}
  <2> HIDE DEF p
  <2> QED BY PlacesFinite
<1> QED BY <1>2, <1>3, <1>4 DEF Copies

(* Nothing is missing and nothing is extra exactly when both sides have    *)
(* every fingerprint equally often.                                        *)
LEMMA EmptyDiff ==
  ASSUME NEW old, NEW new, NEW cols, Len(old) \in Nat, Len(new) \in Nat
  PROVE  LET d == FingerprintDiff(old, new, cols, cols)
         IN  (DOMAIN d.missing = {} /\ DOMAIN d.extra = {})
               <=> \A f : Copies(f, old, cols) = Copies(f, new, cols)
<1> DEFINE a == Fingerprints(old, cols)
           b == Fingerprints(new, cols)
           d == FingerprintDiff(old, new, cols, cols)
           ca(f) == Copies(f, old, cols)
           cb(f) == Copies(f, new, cols)
<1>1. ASSUME NEW f
      PROVE  /\ f \in DOMAIN a <=> ca(f) > 0
             /\ f \in DOMAIN a => a[f] = ca(f)
             /\ ca(f) \in Nat
             /\ f \in DOMAIN b <=> cb(f) > 0
             /\ f \in DOMAIN b => b[f] = cb(f)
             /\ cb(f) \in Nat
  BY FingerprintCount
<1>2. DOMAIN d.missing = {f \in DOMAIN a : a[f] > (IF f \in DOMAIN b THEN b[f] ELSE 0)}
  BY DEF FingerprintDiff
<1>3. DOMAIN d.extra = {f \in DOMAIN b : b[f] > (IF f \in DOMAIN a THEN a[f] ELSE 0)}
  BY DEF FingerprintDiff
<1> HIDE DEF a, b, d, ca, cb
<1>4. ASSUME NEW f PROVE f \in DOMAIN d.missing <=> ca(f) > cb(f)
  <2>1. f \in DOMAIN d.missing <=> f \in DOMAIN a /\ a[f] > (IF f \in DOMAIN b THEN b[f] ELSE 0)
    BY <1>2
  <2>2. f \in DOMAIN b \/ cb(f) = 0
    BY <1>1
  <2>3. (IF f \in DOMAIN b THEN b[f] ELSE 0) = cb(f)
    BY <1>1, <2>2
  <2> QED BY <1>1, <2>1, <2>3
<1>5. ASSUME NEW f PROVE f \in DOMAIN d.extra <=> cb(f) > ca(f)
  <2>1. f \in DOMAIN d.extra <=> f \in DOMAIN b /\ b[f] > (IF f \in DOMAIN a THEN a[f] ELSE 0)
    BY <1>3
  <2>2. f \in DOMAIN a \/ ca(f) = 0
    BY <1>1
  <2>3. (IF f \in DOMAIN a THEN a[f] ELSE 0) = ca(f)
    BY <1>1, <2>2
  <2> QED BY <1>1, <2>1, <2>3
<1>6. ASSUME NEW f PROVE (f \notin DOMAIN d.missing /\ f \notin DOMAIN d.extra) <=> ca(f) = cb(f)
  BY <1>1, <1>4, <1>5
<1>7. (DOMAIN d.missing = {} /\ DOMAIN d.extra = {}) <=> \A f : f \notin DOMAIN d.missing /\ f \notin DOMAIN d.extra
  OBVIOUS
<1>8. (DOMAIN d.missing = {} /\ DOMAIN d.extra = {}) <=> \A f : ca(f) = cb(f)
  BY <1>6, <1>7
<1> QED BY <1>8 DEF ca, cb, d

-----------------------------------------------------------------------------
(* A group stays a pair of lists of rows, whatever the order they come in. *)
CaseInv == kind = "group" => case \in [sm : Matches, old : Seq(OldRows), new : Seq(NewRows)]

LEMMA SwapKeeps ==
  ASSUME NEW S, NEW rows \in Seq(S), NEW i \in 1..(Len(rows) - 1)
  PROVE  Swap(rows, i) \in Seq(S)
<1>1. Len(rows) \in Nat /\ i \in 1..Len(rows) /\ i + 1 \in 1..Len(rows)
  BY LenProperties
<1>2. rows[i] \in S /\ rows[i + 1] \in S
  BY <1>1, ElementOfSeq
<1>3. rows \in [1..Len(rows) -> S]
  BY LenProperties
<1>4. Swap(rows, i) \in [1..Len(rows) -> S]
  BY <1>1, <1>2, <1>3 DEF Swap
<1> QED BY <1>1, <1>4, SeqDef

LEMMA CaseInit == ASSUME Init PROVE CaseInv
<1>1. CASE kind = "group"
  <2>1. PICK m \in Matches, o \in OldGroups, n \in NewGroups : case = [sm |-> m, old |-> o, new |-> n]
    BY <1>1 DEF Init
  <2>2. o \in Seq(OldRows) /\ n \in Seq(NewRows)
    BY GroupAssumption
  <2> QED BY <1>1, <2>1, <2>2 DEF CaseInv
<1> QED BY <1>1 DEF CaseInv

LEMMA CaseNext == ASSUME CaseInv, [Shuffle]_caseVars PROVE CaseInv'
<1>1. CASE Shuffle
  <2>1. PICK side \in {"old", "new"} : \E i \in 1..(Len(case[side]) - 1) :
          case' = [case EXCEPT ![side] = Swap(@, i)]
    BY <1>1 DEF Shuffle
  <2>2. PICK i \in 1..(Len(case[side]) - 1) : case' = [case EXCEPT ![side] = Swap(case[side], i)]
    BY <2>1
  <2>3. kind = "group" /\ kind' = "group"
    BY <1>1 DEF Shuffle
  <2>4. case \in [sm : Matches, old : Seq(OldRows), new : Seq(NewRows)]
    BY <2>3 DEF CaseInv
  <2>5. CASE side = "old"
    <3>1. case.old \in Seq(OldRows) /\ i \in 1..(Len(case.old) - 1)
      BY <2>4, <2>5
    <3>2. Swap(case.old, i) \in Seq(OldRows)
      BY <3>1, SwapKeeps
    <3>3. case' \in [sm : Matches, old : Seq(OldRows), new : Seq(NewRows)]
      BY <2>2, <2>4, <2>5, <3>2
    <3> QED BY <2>3, <3>3 DEF CaseInv
  <2>6. CASE side = "new"
    <3>1. case.new \in Seq(NewRows) /\ i \in 1..(Len(case.new) - 1)
      BY <2>4, <2>6
    <3>2. Swap(case.new, i) \in Seq(NewRows)
      BY <3>1, SwapKeeps
    <3>3. case' \in [sm : Matches, old : Seq(OldRows), new : Seq(NewRows)]
      BY <2>2, <2>4, <2>6, <3>2
    <3> QED BY <2>3, <3>3 DEF CaseInv
  <2> QED BY <2>5, <2>6
<1>2. CASE UNCHANGED caseVars
  BY <1>2 DEF CaseInv, caseVars
<1> QED BY <1>1, <1>2

-----------------------------------------------------------------------------
(* What DiffIsPermutation says of two lists of rows: the one is the other  *)
(* in another order, as far as the fingerprints tell.                      *)
Permuted(old, new) ==
  /\ Len(new) = Len(old)
  /\ \E f \in [1..Len(old) -> 1..Len(old)] :
       Range(f) = 1..Len(old) /\ \A i \in 1..Len(old) : Fingerprint(old[i], Cols) = Fingerprint(new[f[i]], Cols)

LEMMA DiffOfRows ==
  ASSUME NEW old, NEW new, Len(old) \in Nat, Len(new) \in Nat
  PROVE  LET d == FingerprintDiff(old, new, Cols, Cols)
         IN  (DOMAIN d.missing = {} /\ DOMAIN d.extra = {}) <=> Permuted(old, new)
<1> DEFINE m == Len(old)
           n == Len(new)
           a == Prints(old, Cols)
           b == Prints(new, Cols)
<1>1. ASSUME NEW i \in 1..m PROVE a[i] = Fingerprint(old[i], Cols)
  BY DEF Prints
<1>2. ASSUME NEW i \in 1..n PROVE b[i] = Fingerprint(new[i], Cols)
  BY DEF Prints
<1>3. SameCounts(a, m, b, n) <=> Rearranged(a, m, b, n)
  <2>1. m \in Nat /\ n \in Nat
    OBVIOUS
  <2> HIDE DEF a, b, m, n
  <2> QED BY <2>1, SameCountsPermute, PermutedSameCounts
<1>4. SameCounts(a, m, b, n) <=> \A v : Copies(v, old, Cols) = Copies(v, new, Cols)
  BY DEF Copies, SameCounts
<1>5. Rearranged(a, m, b, n) <=> Permuted(old, new)
  <2>1. CASE m # n
    BY <2>1 DEF Rearranged, Permuted
  <2>2. CASE m = n
    <3>1. ASSUME NEW f \in [1..m -> 1..m], NEW i \in 1..m
          PROVE  a[i] = b[f[i]] <=> Fingerprint(old[i], Cols) = Fingerprint(new[f[i]], Cols)
      <4>1. f[i] \in 1..n
        BY <2>2
      <4> HIDE DEF a, b
      <4> QED BY <1>1, <1>2, <4>1
    <3> HIDE DEF a, b
    <3> QED BY <2>2, <3>1 DEF Rearranged, Permuted
  <2> QED BY <2>1, <2>2
<1> HIDE DEF a, b
<1> QED BY <1>3, <1>4, <1>5, EmptyDiff

(* Two rows with the same normalised values, and one without a bar.        *)
Alike(r, q) == \A k \in 1..Len(Cols) : NormalizeFingerprint(r[Cols[k]]) = NormalizeFingerprint(q[Cols[k]])
NoBar(r) == \A k \in 1..Len(Cols) : ~HasBar(NormalizeFingerprint(r[Cols[k]]))

LEMMA AlikePrints ==
  ASSUME NEW r, NEW q, Alike(r, q)
  PROVE  Fingerprint(r, Cols) = Fingerprint(q, Cols)
<1>1. [k \in 1..Len(Cols) |-> NormalizeFingerprint(r[Cols[k]])] = [k \in 1..Len(Cols) |-> NormalizeFingerprint(q[Cols[k]])]
  BY DEF Alike
<1> QED BY <1>1 DEF Fingerprint

(* Without bars the fingerprint of a row is the tuple of its values.       *)
LEMMA BarlessPrints ==
  ASSUME NEW r, NEW q, NoBar(r), NoBar(q), Fingerprint(r, Cols) = Fingerprint(q, Cols)
  PROVE  Alike(r, q)
<1>1. ASSUME NEW x, NoBar(x)
      PROVE  Fingerprint(x, Cols) = [k \in 1..Len(Cols) |-> NormalizeFingerprint(x[Cols[k]])]
  BY <1>1 DEF Fingerprint, NoBar
<1>2. [k \in 1..Len(Cols) |-> NormalizeFingerprint(r[Cols[k]])] = [k \in 1..Len(Cols) |-> NormalizeFingerprint(q[Cols[k]])]
  BY <1>1
<1> QED BY <1>2 DEF Alike

LEMMA CaseDiff == ASSUME CaseInv PROVE DiffIsPermutation
<1> SUFFICES ASSUME kind = "group" PROVE DiffIsPermutation
  BY DEF DiffIsPermutation
<1> DEFINE old == case.old
           new == case.new
           m   == Len(old)
           alike(i, j) == Alike(old[i], new[j])
           permuted == /\ Len(new) = m
                       /\ \E f \in [1..m -> 1..m] : Range(f) = 1..m /\ \A i \in 1..m : alike(i, f[i])
           empty == DOMAIN Diff(case).missing = {} /\ DOMAIN Diff(case).extra = {}
<1>1. Len(old) \in Nat /\ Len(new) \in Nat
  <2>1. old \in Seq(OldRows) /\ new \in Seq(NewRows)
    BY DEF CaseInv
  <2> QED BY <2>1, LenProperties
<1>2. empty <=> Permuted(old, new)
  BY <1>1, DiffOfRows DEF Diff
<1>3. permuted => Permuted(old, new)
  <2>1. ASSUME NEW i, NEW j, alike(i, j) PROVE Fingerprint(old[i], Cols) = Fingerprint(new[j], Cols)
    BY <2>1, AlikePrints
  <2> HIDE DEF alike, old, new
  <2> QED BY <2>1 DEF Permuted
<1>4. ASSUME Permuted(old, new), Barless(old), Barless(new) PROVE permuted
  <2>1. ASSUME NEW i \in 1..m, NEW j \in 1..Len(new), Fingerprint(old[i], Cols) = Fingerprint(new[j], Cols)
        PROVE  alike(i, j)
    BY <1>4, <2>1, BarlessPrints DEF Barless, NoBar
  <2>2. PICK f \in [1..m -> 1..m] :
          Range(f) = 1..m /\ \A i \in 1..m : Fingerprint(old[i], Cols) = Fingerprint(new[f[i]], Cols)
    BY <1>4 DEF Permuted
  <2>3. Len(new) = m
    BY <1>4 DEF Permuted
  <2> HIDE DEF alike, old, new
  <2>4. \A i \in 1..m : alike(i, f[i])
    BY <2>1, <2>2, <2>3
  <2> QED BY <2>2, <2>3, <2>4
<1>5. DiffIsPermutation <=> (permuted => empty) /\ (empty /\ Barless(old) /\ Barless(new) => permuted)
  BY DEF DiffIsPermutation, Alike
<1> HIDE DEF permuted, empty, old, new
<1> QED BY <1>2, <1>3, <1>4, <1>5

-----------------------------------------------------------------------------
(* Every group that is asked about, in every order of its rows: the diff   *)
(* of fingerprintDiff is empty when the two sides are permutations of each *)
(* other in their normalised values, and only then if no value has a bar.  *)
THEOREM DiffMeansPermutation == CaseSpec => []DiffIsPermutation
<1>1. CaseSpec => []CaseInv
  BY CaseInit, CaseNext, PTL DEF CaseSpec
<1>2. CaseInv => DiffIsPermutation
  BY CaseDiff
<1> QED BY <1>1, <1>2, PTL
=============================================================================
