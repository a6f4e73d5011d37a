----------------------------- MODULE SetLemmas -----------------------------
(***************************************************************************)
(* Facts about finite sets of numbers that the proofs of several modules   *)
(* need: the largest and the smallest element, and how many elements a set *)
(* of numbered things has.                                                 *)
(***************************************************************************)
EXTENDS FiniteSetsExt, FiniteSetTheorems, FunctionTheorems, TLAPS

(* A set that has no largest element is not finite: the smallest finite    *)
(* set without one, if there were one, would still lack it without one of  *)
(* its elements.                                                           *)
LEMMA FiniteHasUpper ==
  ASSUME NEW S, IsFiniteSet(S), S \subseteq Int, S # {}
  PROVE  \E x \in S : \A y \in S : x >= y
<1> DEFINE Bad == {T \in SUBSET S : T # {} /\ ~ \E x \in T : \A y \in T : x >= y}
<1>1. SUFFICES ASSUME S \in Bad PROVE FALSE
  OBVIOUS
<1>2. PICK T \in Bad : \A U \in Bad : <<U, T>> \notin StrictSubsetOrdering(S)
  <2>1. IsWellFoundedOn(StrictSubsetOrdering(S), FiniteSubsetsOf(S))
    BY FS_StrictSubsetOrderingWellFounded
  <2>2. Bad \subseteq FiniteSubsetsOf(S)
    BY FS_FiniteSubsetsOfFinite
  <2> HIDE DEF Bad
  <2> QED BY <1>1, <2>1, <2>2, WFMin
<1>3. PICK t \in T : TRUE
  OBVIOUS
<1>4. T \ {t} \in SUBSET S /\ T \in SUBSET S /\ T \ {t} # T /\ T \ {t} \subseteq T
  BY <1>3
<1>5. T \ {t} \notin Bad
  BY <1>2, <1>4 DEF StrictSubsetOrdering
<1>6. CASE T \ {t} = {}
  BY <1>3, <1>6
<1>7. CASE T \ {t} # {}
  <2>1. PICK x \in T \ {t} : \A y \in T \ {t} : x >= y
    BY <1>4, <1>5, <1>7
  <2>2. t \in Int /\ x \in Int /\ T \subseteq Int
    BY <1>3, <1>4
  <2>3. \E z \in T : \A y \in T : z >= y
    <3>1. CASE x >= t
      BY <2>1, <2>2, <3>1
    <3>2. CASE ~(x >= t)
      BY <1>3, <2>1, <2>2, <3>2
    <3> QED BY <3>1, <3>2
  <2> QED BY <2>3
<1> QED BY <1>6, <1>7

LEMMA MaxIsLargest ==
  ASSUME NEW S, IsFiniteSet(S), S \subseteq Int, S # {}
  PROVE  Max(S) \in S /\ \A y \in S : Max(S) >= y
BY FiniteHasUpper DEF Max

(* A non-empty set of naturals has a smallest element, finite or not: it   *)
(* is that of the finite part below one of the elements.                   *)
LEMMA NatHasLeast ==
  ASSUME NEW S, S \subseteq Nat, S # {}
  PROVE  \E x \in S : \A y \in S : x <= y
<1>1. PICK n \in S : TRUE
  OBVIOUS
<1> DEFINE Gap == {m \in 0..n : n - m \in S}
<1>2. 0 \in Gap /\ Gap \subseteq Int /\ Gap \in SUBSET (0..n)
  BY <1>1
<1>3. IsFiniteSet(Gap)
  <2>1. n \in Int /\ 0 \in Int
    BY <1>1
  <2>2. IsFiniteSet(0..n)
    BY <2>1, FS_Interval
  <2> HIDE DEF Gap
  <2> QED BY <1>2, <2>2, FS_Subset
<1>4. PICK g \in Gap : \A h \in Gap : g >= h
  <2> HIDE DEF Gap
  <2> QED BY <1>2, <1>3, FiniteHasUpper
<1>5. n - g \in S /\ g \in 0..n
  BY <1>4
<1>6. ASSUME NEW y \in S PROVE n - g <= y
  <2>1. CASE y <= n
    <3>1. n - y \in Gap
      <4>1. n - (n - y) = y /\ n - y \in 0..n
        BY <1>1, <2>1
      <4> QED BY <1>6, <4>1
    <3> QED BY <1>4, <1>1, <1>5, <3>1
  <2>2. CASE y > n
    BY <1>1, <1>5, <2>2
  <2> QED BY <1>1, <2>1, <2>2
<1> QED BY <1>5, <1>6

LEMMA MinIsSmallest ==
  ASSUME NEW S, S \subseteq Nat, S # {}
  PROVE  Min(S) \in S /\ \A y \in S : Min(S) <= y
BY NatHasLeast DEF Min

(* The values of a function on a finite set.                               *)
LEMMA FiniteValues ==
  ASSUME NEW S, IsFiniteSet(S), NEW f, f = [x \in S |-> f[x]]
  PROVE  /\ IsFiniteSet({f[x] : x \in S})
         /\ Cardinality({f[x] : x \in S}) <= Cardinality(S)
         /\ (\A x, y \in S : f[x] = f[y] => x = y) => Cardinality({f[x] : x \in S}) = Cardinality(S)
<1> DEFINE T == {f[x] : x \in S}
<1>1. f \in [S -> T] /\ \A t \in T : \E x \in S : f[x] = t
  OBVIOUS
<1> HIDE DEF T
<1>2. f \in Surjection(S, T)
  BY <1>1, Fun_IsSurj
<1>3. IsFiniteSet(T) /\ Cardinality(T) <= Cardinality(S)
  BY <1>2, FS_Surjection
<1>4. ASSUME \A x, y \in S : f[x] = f[y] => x = y
      PROVE  Cardinality(T) = Cardinality(S)
  <2>1. f \in Injection(S, T)
    BY <1>1, <1>4, Fun_IsInj
  <2> QED BY <1>2, <2>1, FS_Surjection
<1> QED BY <1>3, <1>4 DEF T

(* The numbers after a up to b, each paired with c. *)
Numbered(c, a, b) == {<<c, i>> : i \in (a + 1)..b}

(* Things numbered from a + 1 to b.                                        *)
LEMMA NumberedCount ==
  ASSUME NEW c, NEW a \in Nat, NEW b \in Nat, a <= b
  PROVE  IsFiniteSet(Numbered(c, a, b)) /\ Cardinality(Numbered(c, a, b)) = b - a
<1> DEFINE S == (a + 1)..b
           f == [i \in S |-> <<c, i>>]
<1>1. IsFiniteSet(S) /\ Cardinality(S) = b - a
  <2>1. a + 1 \in Int /\ b \in Int
    OBVIOUS
  <2>2. /\ IsFiniteSet((a + 1)..b)
        /\ Cardinality((a + 1)..b) = IF a + 1 > b THEN 0 ELSE b - (a + 1) + 1
    BY <2>1, FS_Interval
  <2> QED BY <2>2
<1>2. f = [i \in S |-> f[i]] /\ \A i, j \in S : f[i] = f[j] => i = j
  OBVIOUS
<1>3. {f[i] : i \in S} = {<<c, i>> : i \in S}
  OBVIOUS
<1> HIDE DEF S, f
<1>4. IsFiniteSet({f[i] : i \in S}) /\ Cardinality({f[i] : i \in S}) = Cardinality(S)
  BY <1>1, <1>2, FiniteValues
<1> QED BY <1>1, <1>3, <1>4 DEF S, Numbered

(* Two finite sets that have nothing in common.                            *)
LEMMA DisjointUnion ==
  ASSUME NEW S, NEW T, IsFiniteSet(S), IsFiniteSet(T), S \cap T = {}
  PROVE  IsFiniteSet(S \cup T) /\ Cardinality(S \cup T) = Cardinality(S) + Cardinality(T)
<1>1. Cardinality(S) \in Nat /\ Cardinality(T) \in Nat
  BY FS_CardinalityType
<1>2. Cardinality(S \cap T) = 0
  BY FS_EmptySet
<1>3. /\ IsFiniteSet(S \cup T)
      /\ Cardinality(S \cup T) = Cardinality(S) + Cardinality(T) - Cardinality(S \cap T)
  BY FS_Union
<1> QED BY <1>1, <1>2, <1>3
=============================================================================
