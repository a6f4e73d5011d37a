-------------------------- MODULE CacheTableProofs --------------------------
(***************************************************************************)
(* What the cache tables promise for every set of pods and copies, every   *)
(* size of tables, buffers and pools, and whatever crashes, restarts,      *)
(* sweeps and failures there are, and whatever process ids the pods have:  *)
(* that a copy is whole, and that nobody drops a table of another, holds   *)
(* of each copy that met no copy of another pod under its own name.        *)
(***************************************************************************)
EXTENDS CacheTable, SetLemmas

Begun == {c \in Copy : pc[c] # "new"}

(* The counter of a process: one step for each copy begun.                 *)
SeqInv == \A p \in Pod : seq[p] <= Cardinality(Begun)

(* How far a copy is, by its place in the code.                            *)
CountInv(c) ==
  /\ pc[c] # "new" => name[c] \in Name
  /\ put[c] <= got[c] /\ got[c] <= Size[c]
  /\ got[c] - put[c] <= FlushSize
  /\ pc[c] \in {"new", "connect", "stream", "create"} => got[c] - put[c] < FlushSize
  /\ ~made[c] => got[c] = 0
  /\ pc[c] \in {"new", "connect", "create"} => ~made[c]
  /\ pc[c] = "create" => got[c] < Size[c]
  /\ pc[c] \in {"insert", "flush"} => made[c]
  /\ pc[c] \in {"flush", "index", "read", "drop", "done"} => got[c] = Size[c]
  /\ pc[c] \in {"index", "read", "drop", "done"} => put[c] = got[c]

CopyInv == TypeOK /\ SeqInv /\ \A c \in Copy : CountInv(c)

-----------------------------------------------------------------------------
(* Type correctness and the buffer.                                        *)

LEMMA Steppings ==
  FlushSize \in Nat \ {0} /\ Batch \in Nat \ {0} /\ ReadSize \in Nat \ {0} /\ PoolSize \in Nat \ {0}
BY StepAssumption

LEMMA RowIsNumbered == \A r \in Row : r[2] \in Nat /\ \E c \in Copy : r = <<c, r[2]>> /\ r[2] \in 1..Size[c]
BY SizeAssumption DEF Row

LEMMA RowsAreFinite == IsFiniteSet(Row)
<1> DEFINE f == [c \in Copy |-> {<<c, i>> : i \in 1..Size[c]}]
<1>1. \A c \in Copy : IsFiniteSet(f[c])
  <2> SUFFICES ASSUME NEW c \in Copy PROVE IsFiniteSet({<<c, i>> : i \in 1..Size[c]})
    OBVIOUS
  <2>1. Size[c] \in Nat /\ 0 \in Nat /\ 0 <= Size[c] /\ 0 + 1 = 1
    BY SizeAssumption
  <2>2. IsFiniteSet(Numbered(c, 0, Size[c]))
    BY <2>1, NumberedCount
  <2> QED BY <2>1, <2>2 DEF Numbered
<1>2. f = [c \in Copy |-> f[c]] /\ Row = UNION {f[c] : c \in Copy}
  BY DEF Row
<1> HIDE DEF f
<1>3. IsFiniteSet({f[c] : c \in Copy})
  BY <1>2, CopyAssumption, FiniteValues
<1>4. \A T \in {f[c] : c \in Copy} : IsFiniteSet(T)
  BY <1>1
<1> QED BY <1>2, <1>3, <1>4, FS_UNION

(* The cursor moves to the last row of a chunk, and stays without one.     *)
LEMMA CursorMoves ==
  ASSUME NEW chunk \in SUBSET Row, NEW at \in Nat
  PROVE  LET upto == Max({at} \cup {r[2] : r \in chunk})
         IN  /\ upto \in Nat /\ upto >= at /\ \A r \in chunk : upto >= r[2]
             /\ upto = at \/ \E r \in chunk : upto = r[2]
<1> DEFINE f == [r \in chunk |-> r[2]]
           S == {at} \cup {r[2] : r \in chunk}
<1>1. IsFiniteSet(chunk)
  BY RowsAreFinite, FS_Subset
<1>2. f = [r \in chunk |-> f[r]] /\ {f[r] : r \in chunk} = {r[2] : r \in chunk}
  OBVIOUS
<1>3. IsFiniteSet({r[2] : r \in chunk})
  <2> HIDE DEF f
  <2> QED BY <1>1, <1>2, FiniteValues
<1>4. S \subseteq Nat /\ S \subseteq Int /\ S # {}
  BY RowIsNumbered
<1>5. IsFiniteSet(S)
  <2>1. S = {r[2] : r \in chunk} \cup {at}
    OBVIOUS
  <2> QED BY <1>3, <2>1, FS_AddElement
<1>6. Max(S) \in S /\ \A y \in S : Max(S) >= y
  <2> HIDE DEF S
  <2> QED BY <1>4, <1>5, MaxIsLargest
<1> QED BY <1>4, <1>6

LEMMA InitCopyInv == Init => CopyInv
<1> SUFFICES ASSUME Init PROVE CopyInv
  OBVIOUS
<1>1. IsFiniteSet(Copy) /\ Cardinality(Copy) \in Nat
  BY CopyAssumption, FS_CardinalityType
<1>2. Cardinality(Begun) = 0
  BY FS_EmptySet DEF Init, Begun
<1>3. TypeOK
  BY <1>1, BootAssumption DEF Init, TypeOK, MaxSeq, UnderWay, Streaming, NoName
<1>4. SeqInv
  BY <1>2 DEF Init, SeqInv
<1>5. \A c \in Copy : CountInv(c)
  BY Steppings, SizeAssumption DEF Init, CountInv
<1> QED BY <1>3, <1>4, <1>5 DEF CopyInv

(* A step that begins no copy and advances no counter.                     *)
LEMMA SeqKept ==
  ASSUME CopyInv, Begun' = Begun, \A p \in Pod : seq'[p] \in {0, seq[p]}
  PROVE  SeqInv'
<1>1. IsFiniteSet(Begun)
  BY CopyAssumption, FS_Subset DEF Begun
<1>2. Cardinality(Begun) \in Nat
  BY <1>1, FS_CardinalityType
<1> QED BY <1>2 DEF CopyInv, SeqInv

(* A copy that begins, and only then, draws a number of its pod.           *)
LEMMA SeqDrawn ==
  ASSUME CopyInv, NEW c \in Copy, pc[c] = "new", Begun' = Begun \cup {c},
         seq' = [seq EXCEPT ![Home[c]] = @ + 1]
  PROVE  /\ SeqInv'
         /\ seq' \in [Pod -> 0..MaxSeq]
         /\ seq[Home[c]] + 1 \in 1..MaxSeq
         /\ NextName(Home[c]) \in Name
<1>1. Begun \subseteq Copy /\ c \notin Begun /\ Home[c] \in Pod
  BY HomeAssumption DEF Begun
<1>2. IsFiniteSet(Begun) /\ Cardinality(Begun) \in Nat
  BY <1>1, CopyAssumption, FS_Subset, FS_CardinalityType
<1>3. Cardinality(Begun') = Cardinality(Begun) + 1
  BY <1>1, <1>2, FS_AddElement
<1>4. Cardinality(Begun') <= MaxSeq /\ MaxSeq \in Nat
  <2>1. Begun' \in SUBSET Copy
    BY <1>1
  <2> QED BY <2>1, CopyAssumption, FS_Subset, FS_CardinalityType DEF MaxSeq
<1>5. seq \in [Pod -> 0..MaxSeq]
  BY DEF CopyInv, TypeOK
<1>6. \A p \in Pod : seq[p] \in Nat /\ seq[p] <= Cardinality(Begun)
  BY <1>4, <1>5 DEF CopyInv, SeqInv
<1>7. \A p \in Pod : seq'[p] = IF p = Home[c] THEN seq[p] + 1 ELSE seq[p]
  BY <1>5
<1>8. SeqInv'
  BY <1>2, <1>3, <1>6, <1>7 DEF SeqInv
<1>9. seq[Home[c]] + 1 \in 1..MaxSeq
  BY <1>1, <1>2, <1>3, <1>4, <1>6
<1>10. seq' \in [Pod -> 0..MaxSeq]
  BY <1>1, <1>4, <1>5, <1>9
<1> QED BY <1>1, <1>8, <1>9, <1>10 DEF NextName, Name

-----------------------------------------------------------------------------
(* One lemma for each kind of step.                                        *)

(* The pods come and go.                                                   *)
LEMMA PodsCopyInv ==
  ASSUME CopyInv, NEW p \in Pod, Boot(p) \/ Sweep(p) \/ Ready(p) \/ CutOff(p)
  PROVE  CopyInv'
<1>1. UNCHANGED <<pc, copy, use>>
  BY DEF Boot, Sweep, Ready, CutOff
<1>2. TypeOK'
  <2>1. CASE Boot(p)
    <3>1. boots' \in [Pod -> Nat] /\ \A q \in Pod : boots'[q] <= MaxBoots[q]
      <4>1. boots \in [Pod -> Nat] /\ \A q \in Pod : boots[q] <= MaxBoots[q]
        BY DEF CopyInv, TypeOK
      <4>2. boots[p] < MaxBoots[p] /\ boots' = [boots EXCEPT ![p] = @ + 1]
        BY <2>1 DEF Boot
      <4>3. \A q \in Pod : boots'[q] = IF q = p THEN boots[q] + 1 ELSE boots[q]
        BY <4>1, <4>2
      <4>4. boots[p] \in Nat /\ MaxBoots[p] \in Nat
        BY <4>1, BootAssumption
      <4>6. boots[p] + 1 <= MaxBoots[p]
        BY <4>2, <4>4
      <4>5. boots' \in [Pod -> Nat]
        BY <4>1, <4>2
      <4> QED BY <4>1, <4>3, <4>5, <4>6
    <3>2. seq' \in [Pod -> 0..MaxSeq]
      <4>1. MaxSeq \in Nat
        BY CopyAssumption, FS_CardinalityType DEF MaxSeq
      <4> QED BY <2>1, <4>1 DEF Boot, CopyInv, TypeOK
    <3>3. up' \in [Pod -> {"down", "sweep", "up", "cut"}] /\ doomed' \in [Pod -> SUBSET Name]
      BY <2>1 DEF Boot, CopyInv, TypeOK
    <3> QED BY <1>1, <2>1, <3>1, <3>2, <3>3 DEF Boot, CopyInv, TypeOK, cache, copy, use
  <2>2. CASE Sweep(p)
    <3>1. PICK n \in doomed[p] : /\ doomed' = [doomed EXCEPT ![p] = @ \ {n}]
                                 /\ exists' = exists \ {n}
                                 /\ rows' = [rows EXCEPT ![n] = {}]
      BY <2>2 DEF Sweep
    <3>2. UNCHANGED <<up, boots, seq>>
      BY <2>2 DEF Sweep
    <3>3. doomed' \in [Pod -> SUBSET Name] /\ exists' \subseteq Name /\ rows' \in [Name -> SUBSET Row]
      BY <3>1 DEF CopyInv, TypeOK
    <3> QED BY <1>1, <3>2, <3>3 DEF CopyInv, TypeOK, copy, use
  <2>3. CASE Ready(p)
    BY <1>1, <2>3 DEF Ready, CopyInv, TypeOK, cache, copy, use
  <2>4. CASE CutOff(p)
    BY <1>1, <2>4 DEF CutOff, CopyInv, TypeOK, cache, copy, use
  <2> QED BY <2>1, <2>2, <2>3, <2>4
<1>3. SeqInv'
  <2>1. Begun' = Begun
    BY <1>1 DEF Begun
  <2>2. \A q \in Pod : seq'[q] \in {0, seq[q]}
    BY DEF Boot, Sweep, Ready, CutOff, CopyInv, TypeOK
  <2> QED BY <2>1, <2>2, SeqKept
<1>4. \A c \in Copy : CountInv(c)'
  BY <1>1 DEF CopyInv, CountInv, copy
<1> QED BY <1>2, <1>3, <1>4 DEF CopyInv

LEMMA CrashCopyInv ==
  ASSUME CopyInv, NEW p \in Pod, Crash(p)
  PROVE  CopyInv'
<1>1. /\ UNCHANGED <<boots, seq, cache, name, got, put, made, use>>
      /\ up' = [up EXCEPT ![p] = "down"] /\ doomed' = [doomed EXCEPT ![p] = {}]
      /\ stuck' \subseteq stuck
      /\ \A c \in Copy : pc'[c] = pc[c] \/ (pc'[c] = "dead" /\ pc[c] \in UnderWay)
      /\ DOMAIN pc' = Copy /\ pc' = [c \in Copy |-> pc'[c]]
  BY DEF Crash
<1>2. TypeOK'
  BY <1>1 DEF CopyInv, TypeOK, cache, use
<1>3. Begun' = Begun
  BY <1>1 DEF Begun, UnderWay, Streaming
<1>4. SeqInv'
  BY <1>1, <1>3, SeqKept
<1>5. \A c \in Copy : CountInv(c)'
  BY <1>1 DEF CopyInv, CountInv, UnderWay, Streaming
<1> QED BY <1>2, <1>4, <1>5 DEF CopyInv

LEMMA BeginCopyInv ==
  ASSUME CopyInv, NEW c \in Copy, Begin(c) \/ Refuse(c)
  PROVE  CopyInv'
<1>1. /\ pc[c] = "new" /\ UNCHANGED <<up, boots, doomed, got, put, made, stuck, cursor, seen>>
      /\ clashed' \subseteq Copy
      /\ seq' = [seq EXCEPT ![Home[c]] = @ + 1]
      /\ name' = [name EXCEPT ![c] = NextName(Home[c])]
      /\ \E l \in {"connect", "failed"} : pc' = [pc EXCEPT ![c] = l]
      /\ \/ UNCHANGED cache
         \/ /\ exists' = exists \ {NextName(Home[c])}
            /\ rows' = [rows EXCEPT ![NextName(Home[c])] = {}]
  BY DEF Begin, Refuse, Goto, use, Rivals, CopyInv, TypeOK
<1>2. PICK l \in {"connect", "failed"} : pc' = [pc EXCEPT ![c] = l]
  BY <1>1
<1>3. \A d \in Copy : pc'[d] = IF d = c THEN l ELSE pc[d]
  BY <1>2 DEF CopyInv, TypeOK
<1>4. Begun' = Begun \cup {c}
  BY <1>3 DEF Begun
<1>5. SeqInv' /\ seq' \in [Pod -> 0..MaxSeq] /\ NextName(Home[c]) \in Name
  BY <1>1, <1>4, SeqDrawn
<1>6. TypeOK'
  <2>1. pc' \in [Copy -> UnderWay \cup {"new", "done", "failed", "dead"}]
    BY <1>2 DEF CopyInv, TypeOK, UnderWay
  <2>2. exists' \subseteq Name /\ rows' \in [Name -> SUBSET Row] /\ name' \in [Copy -> Name \cup {NoName}]
    BY <1>1, <1>5 DEF CopyInv, TypeOK, cache
  <2> QED BY <1>1, <1>5, <2>1, <2>2 DEF CopyInv, TypeOK, use
<1>7. \A d \in Copy : CountInv(d)'
  <2>1. \A d \in Copy : name'[d] = IF d = c THEN NextName(Home[c]) ELSE name[d]
    BY <1>1 DEF CopyInv, TypeOK
  <2> QED BY <1>1, <1>3, <1>5, <2>1 DEF CopyInv, CountInv
<1> QED BY <1>5, <1>6, <1>7 DEF CopyInv

(* A copy that moves on without its pod.                                   *)
LEMMA Moves ==
  ASSUME CopyInv, NEW c \in Copy, pc[c] # "new", UNCHANGED seq,
         NEW l \in UnderWay \cup {"done", "failed"}, Goto(c, l)
  PROVE  /\ SeqInv'
         /\ pc' \in [Copy -> UnderWay \cup {"new", "done", "failed", "dead"}]
         /\ pc'[c] = l /\ \A d \in Copy : d # c => pc'[d] = pc[d]
<1>1. /\ pc' \in [Copy -> UnderWay \cup {"new", "done", "failed", "dead"}]
      /\ pc'[c] = l /\ \A d \in Copy : d # c => pc'[d] = pc[d]
  BY DEF Goto, CopyInv, TypeOK
<1>2. l # "new"
  BY DEF UnderWay, Streaming
<1>3. Begun' = Begun
  BY <1>1, <1>2 DEF Begun
<1> QED BY <1>1, <1>3, SeqKept

LEMMA ConnectCopyInv ==
  ASSUME CopyInv, NEW c \in Copy, Connect(c)
  PROVE  CopyInv'
<1>1. /\ pc[c] = "connect" /\ Goto(c, "stream") /\ "stream" \in UnderWay
      /\ UNCHANGED <<up, boots, seq, doomed, exists, rows, name, got, put, made, stuck, cursor, seen, clashed>>
  BY DEF Connect, pods, cache, copy, use, UnderWay, Streaming
<1>2. /\ SeqInv' /\ pc' \in [Copy -> UnderWay \cup {"new", "done", "failed", "dead"}]
      /\ pc'[c] = "stream" /\ \A d \in Copy : d # c => pc'[d] = pc[d]
  BY <1>1, Moves
<1>3. TypeOK'
  BY <1>1, <1>2 DEF CopyInv, TypeOK
<1>4. \A d \in Copy : CountInv(d)'
  BY <1>1, <1>2 DEF CopyInv, CountInv
<1> QED BY <1>2, <1>3, <1>4 DEF CopyInv

(* A row is taken by a handler, at once or after the table was created.    *)
LEMMA PushCopyInv ==
  ASSUME CopyInv, NEW c \in Copy, pc[c] \in {"stream", "create"},
         got[c] < Size[c], Push(c), made'[c],
         made' \in [Copy -> BOOLEAN], \A d \in Copy : d # c => made'[d] = made[d],
         exists' \subseteq Name, rows' \in [Name -> SUBSET Row],
         UNCHANGED <<up, boots, seq, doomed, name, put, stuck, cursor, seen, clashed>>
  PROVE  CopyInv'
<1> DEFINE l == IF Full(got[c] + 1 - put[c]) THEN "insert" ELSE "stream"
<1>1. l \in UnderWay /\ pc[c] # "new" /\ Goto(c, l)
  BY DEF UnderWay, Streaming, Push
<1>2. /\ SeqInv' /\ pc' \in [Copy -> UnderWay \cup {"new", "done", "failed", "dead"}]
      /\ pc'[c] = l /\ \A d \in Copy : d # c => pc'[d] = pc[d]
  <2> HIDE DEF l
  <2> QED BY <1>1, Moves
<1>3. got \in [Copy -> Nat] /\ put[c] \in Nat
  BY DEF CopyInv, TypeOK
<1>4. got' \in [Copy -> Nat] /\ got'[c] = got[c] + 1 /\ \A d \in Copy : d # c => got'[d] = got[d]
  BY <1>3 DEF Push
<1>5. TypeOK'
  BY <1>2, <1>4 DEF CopyInv, TypeOK
<1>6. CountInv(c)'
  <2>1. /\ put[c] <= got[c] /\ got[c] - put[c] < FlushSize /\ got[c] < Size[c]
        /\ Size[c] \in Nat /\ got[c] \in Nat /\ put[c] \in Nat /\ FlushSize \in Nat
        /\ name'[c] \in Name
    BY <1>3, SizeAssumption, Steppings DEF CopyInv, CountInv
  <2>2. CASE Full(got[c] + 1 - put[c])
    <3>1. pc'[c] = "insert" /\ put'[c] = put[c] /\ made'[c]
      BY <1>2, <2>2
    <3> QED BY <1>4, <2>1, <3>1 DEF CountInv
  <2>3. CASE ~Full(got[c] + 1 - put[c])
    <3>1. pc'[c] = "stream" /\ put'[c] = put[c] /\ made'[c] /\ got[c] + 1 - put[c] < FlushSize
      BY <1>2, <2>1, <2>3 DEF Full
    <3> QED BY <1>4, <2>1, <3>1 DEF CountInv
  <2> QED BY <2>2, <2>3
<1>7. ASSUME NEW d \in Copy, d # c PROVE CountInv(d)'
  BY <1>2, <1>4, <1>7 DEF CopyInv, CountInv
<1> QED BY <1>2, <1>5, <1>6, <1>7 DEF CopyInv

LEMMA OnRowCopyInv ==
  ASSUME CopyInv, NEW c \in Copy, OnRow(c)
  PROVE  CopyInv'
<1>1. /\ pc[c] = "stream" /\ got[c] < Size[c]
      /\ UNCHANGED <<up, boots, seq, doomed, exists, rows, name, put, made, stuck, cursor, seen, clashed>>
  BY DEF OnRow, pods, cache, use
<1>2. CASE made[c]
  <2>1. Push(c)
    BY <1>2 DEF OnRow
  <2>2. made'[c] /\ made' \in [Copy -> BOOLEAN] /\ exists' \subseteq Name /\ rows' \in [Name -> SUBSET Row]
    BY <1>1, <1>2 DEF CopyInv, TypeOK
  <2> QED BY <1>1, <2>1, <2>2, PushCopyInv
<1>3. CASE ~made[c]
  <2>1. Goto(c, "create") /\ UNCHANGED got /\ "create" \in UnderWay
    BY <1>3 DEF OnRow, UnderWay, Streaming
  <2>2. /\ SeqInv' /\ pc' \in [Copy -> UnderWay \cup {"new", "done", "failed", "dead"}]
        /\ pc'[c] = "create" /\ \A d \in Copy : d # c => pc'[d] = pc[d]
    BY <1>1, <2>1, Moves
  <2>3. TypeOK'
    BY <1>1, <2>1, <2>2 DEF CopyInv, TypeOK
  <2>4. \A d \in Copy : CountInv(d)'
    BY <1>1, <1>3, <2>1, <2>2 DEF CopyInv, CountInv
  <2> QED BY <2>2, <2>3, <2>4 DEF CopyInv
<1> QED BY <1>2, <1>3

LEMMA CreateCopyInv ==
  ASSUME CopyInv, NEW c \in Copy, Create(c)
  PROVE  CopyInv'
<1>1. /\ pc[c] = "create" /\ Push(c) /\ exists' = exists \cup {name[c]} /\ made' = [made EXCEPT ![c] = TRUE]
      /\ UNCHANGED <<up, boots, seq, doomed, rows, name, put, stuck, cursor, seen, clashed>>
  BY DEF Create, pods, use
<1>2. got[c] < Size[c]
  BY <1>1 DEF CopyInv, CountInv
<1>3. name[c] \in Name
  BY <1>1 DEF CopyInv, CountInv
<1>4. /\ made' \in [Copy -> BOOLEAN] /\ made'[c] /\ \A d \in Copy : d # c => made'[d] = made[d]
      /\ exists' \subseteq Name /\ rows' \in [Name -> SUBSET Row]
  BY <1>1, <1>3 DEF CopyInv, TypeOK
<1> QED BY <1>1, <1>2, <1>4, PushCopyInv

(* What one INSERT takes from the buffer.                                  *)
LEMMA InsertTakes ==
  ASSUME CopyInv, NEW c \in Copy, pc[c] \in {"insert", "flush"}
  PROVE  LET upto == Min({put[c] + Batch, got[c]})
         IN  /\ upto \in Nat /\ put[c] <= upto /\ upto <= got[c]
             /\ put[c] < got[c] => put[c] < upto
             /\ put[c] \in Nat /\ got[c] \in Nat /\ got[c] <= Size[c] /\ Size[c] \in Nat
<1>1. /\ put[c] \in Nat /\ got[c] \in Nat /\ put[c] <= got[c] /\ Batch \in Nat /\ Batch > 0
      /\ got[c] <= Size[c] /\ Size[c] \in Nat
  BY Steppings, SizeAssumption DEF CopyInv, TypeOK, CountInv
<1> DEFINE S == {put[c] + Batch, got[c]}
<1>2. S \subseteq Nat /\ S # {}
  BY <1>1
<1>3. Min(S) \in S /\ \A y \in S : Min(S) <= y
  <2> HIDE DEF S
  <2> QED BY <1>2, MinIsSmallest
<1> QED BY <1>1, <1>3

LEMMA InsertCopyInv ==
  ASSUME CopyInv, NEW c \in Copy, Insert(c)
  PROVE  CopyInv'
<1> DEFINE upto == Min({put[c] + Batch, got[c]})
           l == IF upto < got[c] THEN pc[c] ELSE IF pc[c] = "insert" THEN "stream" ELSE "index"
<1>1. /\ pc[c] \in {"insert", "flush"} /\ Goto(c, l)
      /\ rows' = [rows EXCEPT ![name[c]] = @ \cup {<<c, i>> : i \in put[c] + 1 .. upto}]
      /\ put' = [put EXCEPT ![c] = upto]
      /\ UNCHANGED <<up, boots, seq, doomed, exists, name, got, made, stuck, cursor, seen, clashed>>
  BY DEF Insert, pods, use
<1>2. /\ upto \in Nat /\ put[c] <= upto /\ upto <= got[c]
      /\ put[c] \in Nat /\ got[c] \in Nat /\ got[c] <= Size[c] /\ Size[c] \in Nat
  BY <1>1, InsertTakes
<1>3. l \in UnderWay /\ pc[c] # "new"
  BY <1>1 DEF UnderWay, Streaming
<1> HIDE DEF upto
<1>4. /\ SeqInv' /\ pc' \in [Copy -> UnderWay \cup {"new", "done", "failed", "dead"}]
      /\ pc'[c] = l /\ \A d \in Copy : d # c => pc'[d] = pc[d]
  <2> HIDE DEF l
  <2> QED BY <1>1, <1>3, Moves
<1>5. put' \in [Copy -> Nat] /\ put'[c] = upto /\ \A d \in Copy : d # c => put'[d] = put[d]
  BY <1>1, <1>2 DEF CopyInv, TypeOK
<1>6. rows' \in [Name -> SUBSET Row]
  <2>1. {<<c, i>> : i \in put[c] + 1 .. upto} \subseteq Row
    BY <1>2 DEF Row
  <2> QED BY <1>1, <2>1 DEF CopyInv, TypeOK
<1>7. TypeOK'
  BY <1>1, <1>4, <1>5, <1>6 DEF CopyInv, TypeOK
<1>8. CountInv(c)'
  BY <1>1, <1>2, <1>4, <1>5, Steppings DEF CopyInv, CountInv
<1>9. ASSUME NEW d \in Copy, d # c PROVE CountInv(d)'
  BY <1>1, <1>4, <1>5, <1>9 DEF CopyInv, CountInv
<1> QED BY <1>4, <1>7, <1>8, <1>9 DEF CopyInv

(* The end of the stream, and the index.                                   *)
LEMMA OnDoneCopyInv ==
  ASSUME CopyInv, NEW c \in Copy, OnDone(c) \/ Index(c)
  PROVE  CopyInv'
<1>1. PICK l \in {"flush", "index", "read"} :
        /\ Goto(c, l) /\ pc[c] \in {"stream", "index"}
        /\ pc[c] = "stream" => got[c] = Size[c] /\ l = IF Left(c) THEN "flush" ELSE "index"
        /\ pc[c] = "index" => l = "read"
        /\ UNCHANGED <<up, boots, seq, doomed, exists, rows, name, got, put, made, stuck, cursor, seen, clashed>>
  BY DEF OnDone, Index, pods, cache, copy, use
<1>2. /\ SeqInv' /\ pc' \in [Copy -> UnderWay \cup {"new", "done", "failed", "dead"}]
      /\ pc'[c] = l /\ \A d \in Copy : d # c => pc'[d] = pc[d]
  BY <1>1, Moves DEF UnderWay
<1>3. TypeOK'
  BY <1>1, <1>2 DEF CopyInv, TypeOK
<1>4. CountInv(c)'
  <2>1. /\ put[c] \in Nat /\ got[c] \in Nat /\ put[c] <= got[c] /\ CountInv(c)
        /\ name'[c] = name[c] /\ put'[c] = put[c] /\ got'[c] = got[c] /\ made'[c] = made[c]
    BY <1>1 DEF CopyInv, TypeOK, CountInv
  <2>2. CASE pc[c] = "index"
    BY <1>1, <1>2, <2>1, <2>2 DEF CountInv
  <2>3. CASE pc[c] = "stream" /\ put[c] < got[c]
    <3>1. pc'[c] = "flush" /\ got[c] = Size[c] /\ made[c]
      BY <1>1, <1>2, <2>1, <2>3 DEF CountInv, Left
    <3> QED BY <2>1, <2>3, <3>1 DEF CountInv
  <2>4. CASE pc[c] = "stream" /\ ~(put[c] < got[c])
    <3>1. pc'[c] = "index" /\ got[c] = Size[c] /\ put[c] = got[c]
      BY <1>1, <1>2, <2>1, <2>4 DEF Left
    <3> QED BY <2>1, <2>4, <3>1 DEF CountInv
  <2> QED BY <1>1, <2>2, <2>3, <2>4
<1>5. ASSUME NEW d \in Copy, d # c PROVE CountInv(d)'
  BY <1>1, <1>2, <1>5 DEF CopyInv, CountInv
<1> QED BY <1>2, <1>3, <1>4, <1>5 DEF CopyInv

LEMMA FetchCopyInv ==
  ASSUME CopyInv, NEW c \in Copy, Fetch(c)
  PROVE  CopyInv'
<1>1. PICK l \in {"drop", "read"} :
        /\ Goto(c, l) /\ pc[c] = "read" /\ name[c] \in exists
        /\ seen' = [seen EXCEPT ![c] = @ \cup Chunk(c)]
        /\ cursor' = [cursor EXCEPT ![c] = Max({@} \cup {r[2] : r \in Chunk(c)})]
        /\ UNCHANGED <<up, boots, seq, doomed, exists, rows, name, got, put, made, stuck, clashed>>
  BY DEF Fetch, pods, cache, copy
<1>2. /\ SeqInv' /\ pc' \in [Copy -> UnderWay \cup {"new", "done", "failed", "dead"}]
      /\ pc'[c] = l /\ \A d \in Copy : d # c => pc'[d] = pc[d]
  BY <1>1, Moves DEF UnderWay
<1>3. Chunk(c) \in SUBSET Row /\ cursor[c] \in Nat
  BY <1>1 DEF Chunk, CopyInv, TypeOK
<1>4. Max({cursor[c]} \cup {r[2] : r \in Chunk(c)}) \in Nat
  BY <1>3, CursorMoves
<1>5. TypeOK'
  BY <1>1, <1>2, <1>3, <1>4 DEF CopyInv, TypeOK
<1>6. \A d \in Copy : CountInv(d)'
  BY <1>1, <1>2 DEF CopyInv, CountInv
<1> QED BY <1>2, <1>5, <1>6 DEF CopyInv

LEMMA DropCopyInv ==
  ASSUME CopyInv, NEW c \in Copy, Drop(c) \/ Fail(c)
  PROVE  CopyInv'
<1>1. PICK l \in {"done", "failed", "abort"} :
        /\ Goto(c, l) /\ pc[c] \in UnderWay /\ (l = "done" => pc[c] = "drop")
        /\ stuck' \subseteq Copy
        /\ \/ exists' = exists \ {name[c]} /\ rows' = [rows EXCEPT ![name[c]] = {}]
           \/ UNCHANGED <<exists, rows>>
        /\ UNCHANGED <<up, boots, seq, doomed, name, got, put, made, cursor, seen, clashed>>
  BY DEF Drop, Fail, pods, cache, copy, use, UnderWay, Streaming, Fallible, Reject, CopyInv, TypeOK
<1>2. /\ SeqInv' /\ pc' \in [Copy -> UnderWay \cup {"new", "done", "failed", "dead"}]
      /\ pc'[c] = l /\ \A d \in Copy : d # c => pc'[d] = pc[d]
  BY <1>1, Moves DEF UnderWay, Streaming
<1>3. exists' \subseteq Name /\ rows' \in [Name -> SUBSET Row]
  BY <1>1 DEF CopyInv, TypeOK
<1>4. TypeOK'
  BY <1>1, <1>2, <1>3 DEF CopyInv, TypeOK
<1>5. \A d \in Copy : CountInv(d)'
  BY <1>1, <1>2 DEF CopyInv, CountInv, UnderWay, Streaming
<1> QED BY <1>2, <1>4, <1>5 DEF CopyInv

LEMMA NextCopyInv == CopyInv /\ [Next]_vars => CopyInv'
<1> SUFFICES ASSUME CopyInv, [Next]_vars PROVE CopyInv'
  OBVIOUS
<1>1. CASE UNCHANGED vars
  <2>1. Begun' = Begun
    BY <1>1 DEF vars, Begun
  <2>2. TypeOK'
    BY <1>1 DEF CopyInv, TypeOK, vars, pods, cache, copy, use
  <2>3. SeqInv'
    BY <1>1, <2>1 DEF CopyInv, SeqInv, vars, pods
  <2>4. \A c \in Copy : CountInv(c)'
    BY <1>1 DEF CopyInv, CountInv, vars, copy
  <2> QED BY <2>2, <2>3, <2>4 DEF CopyInv
<1>2. CASE Next
  BY <1>2, PodsCopyInv, CrashCopyInv, BeginCopyInv, ConnectCopyInv, OnRowCopyInv, CreateCopyInv,
     InsertCopyInv, OnDoneCopyInv, FetchCopyInv, DropCopyInv DEF Next, Step
<1> QED BY <1>1, <1>2

LEMMA SafetyCopyInv == Safety => []CopyInv
BY InitCopyInv, NextCopyInv, PTL DEF Safety

(* Every variable keeps its type.                                          *)
THEOREM TypeCorrect == Safety => []TypeOK
<1>1. CopyInv => TypeOK
  BY DEF CopyInv
<1> QED BY <1>1, SafetyCopyInv, PTL

(* The stream is held back: the buffer never has more than FLUSH_SIZE      *)
(* rows, on any path, failed copies included.                              *)
THEOREM BufferIsBounded == Safety => []BufferBounded
<1>1. CopyInv => BufferBounded
  BY DEF CopyInv, CountInv, BufferBounded
<1> QED BY <1>1, SafetyCopyInv, PTL

-----------------------------------------------------------------------------
(* Whole copies.                                                           *)

Alive(c) == pc[c] \in UnderWay

FirstRows(c, n) == {<<c, i>> : i \in 1..n}

(* A copy that is under way is run by the pod that drew its name, and the  *)
(* name is its own, or else it has clashed.                                *)
OwnInv ==
  /\ \A c \in Copy : Alive(c) => /\ up[Home[c]] = "up"
                                 /\ name[c][1] = Pid[Home[c]] /\ name[c][2] <= seq[Home[c]]
  /\ \A c, d \in Copy : Alive(c) /\ Alive(d) /\ name[c] = name[d] =>
       c = d \/ (c \in clashed /\ d \in clashed)

(* Its table, unless a pod that starts has dropped it, has the rows it put *)
(* there and no others; once dropped it is not created again.              *)
RowsInv ==
  /\ \A n \in Name \ exists : rows[n] = {}
  /\ \A c \in Copy : Alive(c) /\ c \notin clashed =>
       /\ ~made[c] => name[c] \notin exists
       /\ name[c] \in exists => rows[name[c]] = FirstRows(c, put[c])

(* What a copy has seen is the part of its source up to the cursor.        *)
SeenInv(c) == c \notin clashed =>
  /\ pc[c] \in {"new", "connect", "stream", "create", "insert", "flush", "index"} =>
       seen[c] = {} /\ cursor[c] = 0
  /\ pc[c] = "read" => cursor[c] <= Size[c] /\ seen[c] = FirstRows(c, cursor[c])
  /\ pc[c] \in {"drop", "done"} => seen[c] = Source(c)

FullInv == CopyInv /\ OwnInv /\ RowsInv /\ \A c \in Copy : SeenInv(c)

LEMMA InitFullInv == Init => FullInv
<1> SUFFICES ASSUME Init PROVE FullInv
  OBVIOUS
<1>1. CopyInv
  BY InitCopyInv
<1>2. \A c \in Copy : ~Alive(c)
  BY DEF Init, Alive, UnderWay, Streaming
<1>3. OwnInv /\ RowsInv
  BY <1>2 DEF OwnInv, RowsInv, Init
<1>4. \A c \in Copy : SeenInv(c)
  BY DEF Init, SeenInv
<1> QED BY <1>1, <1>3, <1>4 DEF FullInv

(* Nothing begins: the owners stay, or are fewer.                          *)
LEMMA OwnersStay ==
  ASSUME FullInv, UNCHANGED <<name, clashed>>,
         \A c \in Copy : Alive(c)' => /\ Alive(c) /\ up'[Home[c]] = up[Home[c]]
                                      /\ seq'[Home[c]] = seq[Home[c]]
  PROVE  OwnInv'
BY DEF FullInv, OwnInv

(* A copy does nothing to the tables of others.                            *)
LEMMA OtherTablesStay ==
  ASSUME FullInv, NEW c \in Copy, Alive(c), UNCHANGED <<name, clashed>>,
         \A d \in Copy : Alive(d)' => Alive(d),
         \A d \in Copy : d # c => made'[d] = made[d] /\ put'[d] = put[d],
         \A n \in Name : n # name[c] => (n \in exists' <=> n \in exists) /\ rows'[n] = rows[n],
         name[c] \notin exists' => rows'[name[c]] = {},
         Alive(c)' /\ c \notin clashed =>
           /\ ~made'[c] => name[c] \notin exists'
           /\ name[c] \in exists' => rows'[name[c]] = FirstRows(c, put'[c])
  PROVE  RowsInv'
<1>1. \A n \in Name \ exists' : rows'[n] = {}
  BY DEF FullInv, RowsInv
<1>2. ASSUME NEW d \in Copy, Alive(d)', d \notin clashed
      PROVE  /\ ~made'[d] => name'[d] \notin exists'
             /\ name'[d] \in exists' => rows'[name'[d]] = FirstRows(d, put'[d])
  <2>1. CASE d = c
    BY <1>2, <2>1
  <2>2. CASE d # c
    <3>1. Alive(d) /\ name[d] # name[c]
      BY <1>2, <2>2 DEF FullInv, OwnInv
    <3>2. name[d] \in Name
      BY <3>1 DEF FullInv, CopyInv, CountInv, Alive, UnderWay, Streaming
    <3> QED BY <1>2, <2>2, <3>1, <3>2 DEF FullInv, RowsInv
  <2> QED BY <2>1, <2>2
<1> QED BY <1>1, <1>2 DEF RowsInv

(* The pods come, sweep and go.                                            *)
LEMMA PodsFullInv ==
  ASSUME FullInv, CopyInv', NEW p \in Pod, Boot(p) \/ Sweep(p) \/ Ready(p) \/ CutOff(p) \/ Crash(p)
  PROVE  FullInv'
<1>1. /\ UNCHANGED <<name, got, put, made, cursor, seen, clashed>>
      /\ \A c \in Copy : pc'[c] = pc[c] \/ (pc'[c] = "dead" /\ pc[c] \in UnderWay)
      /\ \A c \in Copy : Alive(c)' => Alive(c)
  BY DEF Boot, Sweep, Ready, CutOff, Crash, copy, use, Alive, UnderWay, Streaming
<1>2. ASSUME NEW c \in Copy, Alive(c)'
      PROVE  up'[Home[c]] = up[Home[c]] /\ seq'[Home[c]] = seq[Home[c]]
  <2>1. Alive(c) /\ up[Home[c]] = "up" /\ Home[c] \in Pod
    BY <1>1, <1>2, HomeAssumption DEF FullInv, OwnInv
  <2>2. /\ up \in [Pod -> {"down", "sweep", "up", "cut"}] /\ seq \in [Pod -> 0..MaxSeq]
    BY DEF FullInv, CopyInv, TypeOK
  <2>3. CASE Crash(p)
    <3>1. Home[c] # p
      BY <1>2, <2>1, <2>3 DEF Crash, Alive, UnderWay, Streaming
    <3> QED BY <2>2, <2>3, <3>1 DEF Crash
  <2>4. CASE ~Crash(p)
    BY <2>1, <2>2, <2>4 DEF Boot, Sweep, Ready, CutOff
  <2> QED BY <2>3, <2>4
<1>3. OwnInv'
  BY <1>1, <1>2, OwnersStay
<1>4. RowsInv'
  <2>1. CASE Sweep(p)
    <3>1. PICK n \in doomed[p] : exists' = exists \ {n} /\ rows' = [rows EXCEPT ![n] = {}]
      BY <2>1 DEF Sweep
    <3>2. /\ \A m \in Name : rows'[m] = IF m = n THEN {} ELSE rows[m]
          /\ \A m : m \in exists' <=> (m \in exists /\ m # n)
      BY <3>1 DEF FullInv, CopyInv, TypeOK
    <3>3. \A c \in Copy : Alive(c) => name[c] \in Name
      BY DEF FullInv, CopyInv, CountInv, Alive, UnderWay, Streaming
    <3> QED BY <1>1, <3>2, <3>3 DEF FullInv, RowsInv
  <2>2. CASE ~Sweep(p)
    <3>1. UNCHANGED <<exists, rows>>
      BY <2>2 DEF Boot, Ready, CutOff, Crash, cache
    <3> QED BY <1>1, <3>1 DEF FullInv, RowsInv
  <2> QED BY <2>1, <2>2
<1>5. \A c \in Copy : SeenInv(c)'
  BY <1>1 DEF FullInv, SeenInv
<1> QED BY <1>3, <1>4, <1>5 DEF FullInv

(* A new name is that of no copy under way, unless of another pod.         *)
LEMMA NewNameIsFree ==
  ASSUME FullInv, NEW c \in Copy, NEW d \in Copy, Alive(d), name[d] = NextName(Home[c])
  PROVE  d \in Rivals(c, NextName(Home[c]))
<1>1. name[d][2] <= seq[Home[d]] /\ Home[c] \in Pod /\ Home[d] \in Pod
  BY HomeAssumption DEF FullInv, OwnInv
<1>2. seq[Home[d]] \in 0..MaxSeq /\ MaxSeq \in Nat
  BY <1>1, CopyAssumption, FS_CardinalityType DEF FullInv, CopyInv, TypeOK, MaxSeq
<1>3. name[d][2] = seq[Home[c]] + 1
  BY DEF NextName
<1>4. Home[d] # Home[c]
  BY <1>1, <1>2, <1>3
<1> QED BY <1>4 DEF Rivals, Alive

LEMMA BeginFullInv ==
  ASSUME FullInv, CopyInv', NEW c \in Copy, Begin(c)
  PROVE  FullInv'
<1> DEFINE n == NextName(Home[c])
<1>1. /\ pc[c] = "new" /\ up[Home[c]] = "up" /\ pc' = [pc EXCEPT ![c] = "connect"]
      /\ seq' = [seq EXCEPT ![Home[c]] = @ + 1] /\ name' = [name EXCEPT ![c] = n]
      /\ exists' = exists \ {n} /\ rows' = [rows EXCEPT ![n] = {}]
      /\ clashed' = clashed \cup IF Rivals(c, n) = {} THEN {} ELSE {c} \cup Rivals(c, n)
      /\ UNCHANGED <<up, boots, doomed, got, put, made, stuck, cursor, seen>>
  BY DEF Begin, Goto
<1>2. /\ name'[c] = n /\ pc'[c] = "connect"
      /\ \A d \in Copy : d # c => name'[d] = name[d] /\ pc'[d] = pc[d]
  BY <1>1 DEF FullInv, CopyInv, TypeOK
<1>3. /\ \A d \in Copy : d # c => (Alive(d)' <=> Alive(d))
      /\ clashed \subseteq clashed'
      /\ \A d \in Copy : Alive(d) /\ name[d] = n => d \in clashed' /\ c \in clashed'
  <2>1. \A d \in Copy : d # c => (Alive(d)' <=> Alive(d))
    BY <1>2 DEF Alive
  <2>2. \A d \in Copy : Alive(d) /\ name[d] = n => d \in Rivals(c, n)
    BY NewNameIsFree
  <2> HIDE DEF n
  <2>3. clashed \subseteq clashed' /\ \A d \in Rivals(c, n) : d \in clashed' /\ c \in clashed'
    BY <1>1
  <2> QED BY <2>1, <2>2, <2>3
<1>4. /\ n = <<Pid[Home[c]], seq[Home[c]] + 1>> /\ Home[c] \in Pod
  BY HomeAssumption DEF NextName
<1>5. /\ seq \in [Pod -> 0..MaxSeq] /\ MaxSeq \in Nat
  BY CopyAssumption, FS_CardinalityType DEF FullInv, CopyInv, TypeOK, MaxSeq
<1>6. \A d \in Copy : seq'[Home[d]] = IF Home[d] = Home[c] THEN seq[Home[d]] + 1 ELSE seq[Home[d]]
  BY <1>1, <1>5, HomeAssumption
<1>7. OwnInv'
  <2>1. ASSUME NEW d \in Copy, Alive(d)'
        PROVE  up'[Home[d]] = "up" /\ name'[d][1] = Pid[Home[d]] /\ name'[d][2] <= seq'[Home[d]]
    <3>1. CASE d = c
      <4>1. seq[Home[c]] \in Nat /\ name'[d] = <<Pid[Home[c]], seq[Home[c]] + 1>>
        BY <1>2, <1>4, <1>5, <3>1
      <4> QED BY <1>1, <1>6, <3>1, <4>1
    <3>2. CASE d # c
      <4>1. Alive(d) /\ name'[d] = name[d] /\ Home[d] \in Pod
        BY <1>2, <1>3, <2>1, <3>2, HomeAssumption
      <4>2. up[Home[d]] = "up" /\ name[d][1] = Pid[Home[d]] /\ name[d][2] <= seq[Home[d]]
        BY <4>1 DEF FullInv, OwnInv
      <4>3. name[d] \in Name
        BY <4>1 DEF FullInv, CopyInv, CountInv, Alive, UnderWay, Streaming
      <4>4. name[d][2] \in Nat /\ seq[Home[d]] \in Nat
        BY <1>5, <4>1, <4>3 DEF Name
      <4> QED BY <1>1, <1>6, <4>1, <4>2, <4>4
    <3> QED BY <3>1, <3>2
  <2>2. ASSUME NEW d \in Copy, NEW e \in Copy, Alive(d)', Alive(e)', name'[d] = name'[e]
        PROVE  d = e \/ (d \in clashed' /\ e \in clashed')
    <3> HIDE DEF n
    <3>1. CASE d = c
      BY <1>2, <1>3, <2>2, <3>1
    <3>2. CASE e = c
      BY <1>2, <1>3, <2>2, <3>2
    <3>3. CASE d # c /\ e # c
      BY <1>2, <1>3, <2>2, <3>3 DEF FullInv, OwnInv
    <3> QED BY <3>1, <3>2, <3>3
  <2> QED BY <2>1, <2>2 DEF OwnInv
<1> HIDE DEF n
<1>8. RowsInv'
  <2>1. \A m \in Name : rows'[m] = IF m = n THEN {} ELSE rows[m]
    BY <1>1 DEF FullInv, CopyInv, TypeOK
  <2>2. \A m \in Name \ exists' : rows'[m] = {}
    BY <1>1, <2>1 DEF FullInv, RowsInv
  <2>3. \A d \in Copy : d # c /\ Alive(d) => name[d] \in Name
    BY DEF FullInv, CopyInv, CountInv, Alive, UnderWay, Streaming
  <2>4. ASSUME NEW d \in Copy, Alive(d)', d \notin clashed'
        PROVE  /\ ~made'[d] => name'[d] \notin exists'
               /\ name'[d] \in exists' => rows'[name'[d]] = FirstRows(d, put'[d])
    <3>1. CASE d = c
      BY <1>1, <1>2, <3>1
    <3>2. CASE d # c
      BY <1>1, <1>2, <1>3, <2>1, <2>3, <2>4, <3>2 DEF FullInv, RowsInv
    <3> QED BY <3>1, <3>2
  <2> QED BY <2>2, <2>4 DEF RowsInv
<1>9. \A d \in Copy : SeenInv(d)'
  BY <1>1, <1>2, <1>3 DEF FullInv, SeenInv
<1> QED BY <1>7, <1>8, <1>9 DEF FullInv

LEMMA RefuseFullInv ==
  ASSUME FullInv, CopyInv', NEW c \in Copy, Refuse(c)
  PROVE  FullInv'
<1>1. /\ pc[c] = "new" /\ pc' = [pc EXCEPT ![c] = "failed"] /\ up[Home[c]] = "cut"
      /\ seq' = [seq EXCEPT ![Home[c]] = @ + 1] /\ name' = [name EXCEPT ![c] = NextName(Home[c])]
      /\ UNCHANGED <<up, exists, rows, got, put, made, cursor, seen, clashed>>
  BY DEF Refuse, Goto, cache, use
<1>2. /\ pc'[c] = "failed" /\ \A d \in Copy : d # c => name'[d] = name[d] /\ pc'[d] = pc[d]
  BY <1>1 DEF FullInv, CopyInv, TypeOK
<1>3. \A d \in Copy : Alive(d)' => Alive(d) /\ d # c /\ name'[d] = name[d]
  BY <1>2 DEF Alive, UnderWay, Streaming
<1>4. \A d \in Copy : Alive(d) => seq'[Home[d]] = seq[Home[d]]
  <2>1. \A d \in Copy : Alive(d) => Home[d] # Home[c] /\ Home[d] \in Pod
    BY <1>1, HomeAssumption DEF FullInv, OwnInv
  <2> QED BY <1>1, <2>1 DEF FullInv, CopyInv, TypeOK
<1>5. OwnInv'
  BY <1>1, <1>3, <1>4 DEF FullInv, OwnInv
<1>6. RowsInv'
  BY <1>1, <1>3 DEF FullInv, RowsInv
<1>7. \A d \in Copy : SeenInv(d)'
  BY <1>1, <1>2 DEF FullInv, SeenInv
<1> QED BY <1>5, <1>6, <1>7 DEF FullInv

(* A copy moves on, still under way or at its end.                         *)
LEMMA CopyMoves ==
  ASSUME FullInv, NEW c \in Copy, Alive(c), NEW l, Goto(c, l), UNCHANGED <<up, seq, name, clashed>>
  PROVE  /\ OwnInv'
         /\ pc'[c] = l /\ \A d \in Copy : d # c => pc'[d] = pc[d]
         /\ \A d \in Copy : Alive(d)' => Alive(d)
<1>1. pc'[c] = l /\ \A d \in Copy : d # c => pc'[d] = pc[d]
  BY DEF FullInv, CopyInv, TypeOK, Goto
<1>2. \A d \in Copy : Alive(d)' => Alive(d)
  BY <1>1 DEF Alive
<1> QED BY <1>1, <1>2, OwnersStay

(* The steps that leave the tables alone.                                  *)
LEMMA QuietFullInv ==
  ASSUME FullInv, CopyInv', NEW c \in Copy, Connect(c) \/ OnDone(c) \/ Index(c) \/ Fail(c)
  PROVE  FullInv'
<1>1. PICK l \in {"stream", "flush", "index", "read", "abort", "failed"} :
        /\ Goto(c, l) /\ Alive(c)
        /\ l \in {"stream", "flush", "index", "read"} => pc[c] \in {"connect", "stream", "index"}
        /\ UNCHANGED <<up, seq, exists, rows, name, got, put, made, cursor, seen, clashed>>
  BY DEF Connect, OnDone, Index, Fail, Alive, pods, cache, copy, use, UnderWay, Streaming, Fallible, Reject
<1>2. /\ OwnInv' /\ pc'[c] = l /\ \A d \in Copy : d # c => pc'[d] = pc[d]
      /\ \A d \in Copy : Alive(d)' => Alive(d)
  BY <1>1, CopyMoves
<1>3. RowsInv'
  BY <1>1, <1>2 DEF FullInv, RowsInv
<1>4. SeenInv(c)'
  <2> SUFFICES ASSUME c \notin clashed PROVE SeenInv(c)'
    BY <1>1 DEF SeenInv
  <2>1. CASE l = "read"
    <3>1. seen[c] = {} /\ cursor[c] = 0 /\ Size[c] \in Nat
      BY <1>1, <2>1, SizeAssumption DEF FullInv, SeenInv
    <3>2. FirstRows(c, 0) = {}
      BY DEF FirstRows
    <3> QED BY <1>1, <1>2, <2>1, <3>1, <3>2 DEF SeenInv
  <2>2. CASE l # "read"
    BY <1>1, <1>2, <2>2 DEF FullInv, SeenInv
  <2> QED BY <2>1, <2>2
<1>5. ASSUME NEW d \in Copy, d # c PROVE SeenInv(d)'
  BY <1>1, <1>2, <1>5 DEF FullInv, SeenInv
<1> QED BY <1>2, <1>3, <1>4, <1>5 DEF FullInv

(* A row is taken; the first one creates the table, which is empty.        *)
LEMMA RowTakenFullInv ==
  ASSUME FullInv, CopyInv', NEW c \in Copy, OnRow(c) \/ Create(c)
  PROVE  FullInv'
<1>1. PICK l \in {"create", "insert", "stream"} :
        /\ Goto(c, l) /\ pc[c] \in {"stream", "create"}
        /\ UNCHANGED <<up, seq, rows, name, put, cursor, seen, clashed>>
        /\ \/ UNCHANGED <<exists, made>>
           \/ /\ pc[c] = "create" /\ exists' = exists \cup {name[c]}
              /\ made' = [made EXCEPT ![c] = TRUE]
  BY DEF OnRow, Create, Push, pods, cache, use
<1>2. Alive(c) /\ name[c] \in Name
  BY <1>1 DEF Alive, UnderWay, Streaming, FullInv, CopyInv, CountInv
<1>3. /\ OwnInv' /\ pc'[c] = l /\ \A d \in Copy : d # c => pc'[d] = pc[d]
      /\ \A d \in Copy : Alive(d)' => Alive(d)
  BY <1>1, <1>2, CopyMoves
<1>4. RowsInv'
  <2>1. CASE UNCHANGED <<exists, made>>
    BY <1>1, <1>3, <2>1 DEF FullInv, RowsInv
  <2>2. CASE pc[c] = "create" /\ exists' = exists \cup {name[c]} /\ made' = [made EXCEPT ![c] = TRUE]
    <3>1. made'[c] /\ \A d \in Copy : d # c => made'[d] = made[d] /\ put'[d] = put[d]
      BY <1>1, <2>2 DEF FullInv, CopyInv, TypeOK
    <3>2. c \notin clashed => rows[name[c]] = {}
      BY <1>2, <2>2 DEF FullInv, RowsInv, CopyInv, CountInv
    <3>3. FirstRows(c, put'[c]) = {}
      <4>1. put[c] = 0
        BY <2>2 DEF FullInv, CopyInv, TypeOK, CountInv
      <4> QED BY <1>1, <4>1 DEF FirstRows
    <3>4. \A n \in Name : n # name[c] => (n \in exists' <=> n \in exists) /\ rows'[n] = rows[n]
      BY <1>1, <2>2
    <3> QED BY <1>1, <1>2, <1>3, <2>2, <3>1, <3>2, <3>3, <3>4, OtherTablesStay
  <2> QED BY <1>1, <2>1, <2>2
<1>5. \A d \in Copy : SeenInv(d)'
  BY <1>1, <1>3 DEF FullInv, SeenInv
<1> QED BY <1>3, <1>4, <1>5 DEF FullInv

LEMMA InsertFullInv ==
  ASSUME FullInv, CopyInv', NEW c \in Copy, Insert(c)
  PROVE  FullInv'
<1> DEFINE upto == Min({put[c] + Batch, got[c]})
<1>1. PICK l \in {"insert", "flush", "stream", "index"} :
        /\ Goto(c, l) /\ pc[c] \in {"insert", "flush"} /\ name[c] \in exists
        /\ rows' = [rows EXCEPT ![name[c]] = @ \cup {<<c, i>> : i \in put[c] + 1 .. upto}]
        /\ put' = [put EXCEPT ![c] = upto]
        /\ UNCHANGED <<up, seq, exists, name, got, made, cursor, seen, clashed>>
  BY DEF Insert, pods, use
<1>2. upto \in Nat /\ put[c] <= upto /\ put[c] \in Nat
  BY <1>1, InsertTakes DEF FullInv
<1> HIDE DEF upto
<1>3. Alive(c) /\ name[c] \in Name /\ made[c]
  BY <1>1 DEF Alive, UnderWay, Streaming, FullInv, CopyInv, CountInv
<1>4. /\ OwnInv' /\ pc'[c] = l /\ \A d \in Copy : d # c => pc'[d] = pc[d]
      /\ \A d \in Copy : Alive(d)' => Alive(d)
  BY <1>1, <1>3, CopyMoves
<1>5. RowsInv'
  <2>1. put'[c] = upto /\ \A d \in Copy : d # c => made'[d] = made[d] /\ put'[d] = put[d]
    BY <1>1 DEF FullInv, CopyInv, TypeOK
  <2>2. /\ rows'[name[c]] = rows[name[c]] \cup {<<c, i>> : i \in put[c] + 1 .. upto}
        /\ \A n \in Name : n # name[c] => rows'[n] = rows[n]
    BY <1>1, <1>3 DEF FullInv, CopyInv, TypeOK
  <2>3. c \notin clashed => rows[name[c]] = FirstRows(c, put[c])
    BY <1>1, <1>3 DEF FullInv, RowsInv
  <2>4. c \notin clashed => rows'[name[c]] = FirstRows(c, upto)
    <3>1. 1..upto = (1..put[c]) \cup (put[c] + 1 .. upto)
      BY <1>2
    <3> QED BY <2>2, <2>3, <3>1 DEF FirstRows
  <2> QED BY <1>1, <1>3, <1>4, <2>1, <2>2, <2>4, OtherTablesStay
<1>6. \A d \in Copy : SeenInv(d)'
  BY <1>1, <1>4 DEF FullInv, SeenInv
<1> QED BY <1>4, <1>5, <1>6 DEF FullInv

LEMMA DropFullInv ==
  ASSUME FullInv, CopyInv', NEW c \in Copy, Drop(c)
  PROVE  FullInv'
<1>1. PICK l \in {"done", "failed"} :
        /\ Goto(c, l) /\ pc[c] \in {"drop", "abort"} /\ (l = "done" => pc[c] = "drop")
        /\ \/ exists' = exists \ {name[c]} /\ rows' = [rows EXCEPT ![name[c]] = {}]
           \/ UNCHANGED <<exists, rows>>
        /\ UNCHANGED <<up, seq, name, got, put, made, cursor, seen, clashed>>
  BY DEF Drop, pods, cache, copy, use
<1>2. Alive(c) /\ name[c] \in Name
  BY <1>1 DEF Alive, UnderWay, Streaming, FullInv, CopyInv, CountInv
<1>3. /\ OwnInv' /\ pc'[c] = l /\ \A d \in Copy : d # c => pc'[d] = pc[d]
      /\ \A d \in Copy : Alive(d)' => Alive(d)
  BY <1>1, <1>2, CopyMoves
<1>4. ~Alive(c)'
  BY <1>3 DEF Alive, UnderWay, Streaming
<1>5. RowsInv'
  <2>1. /\ \A n \in Name : n # name[c] => (n \in exists' <=> n \in exists) /\ rows'[n] = rows[n]
        /\ name[c] \notin exists' => rows'[name[c]] = {}
    BY <1>1, <1>2 DEF FullInv, CopyInv, TypeOK, RowsInv
  <2> QED BY <1>1, <1>2, <1>3, <1>4, <2>1, OtherTablesStay
<1>6. \A d \in Copy : SeenInv(d)'
  BY <1>1, <1>3 DEF FullInv, SeenInv
<1> QED BY <1>3, <1>5, <1>6 DEF FullInv

-----------------------------------------------------------------------------
(* Reading.                                                                *)

(* A chunk of a whole table is its next rows, and a short one is the last. *)
LEMMA ChunkIsNext ==
  ASSUME NEW c \in Copy, cursor[c] \in Nat, cursor[c] <= Size[c],
         rows[name[c]] = FirstRows(c, Size[c])
  PROVE  \E upto \in Nat :
           /\ cursor[c] <= upto /\ upto <= Size[c]
           /\ Chunk(c) = {<<c, i>> : i \in cursor[c] + 1 .. upto}
           /\ Cardinality(Chunk(c)) < ReadSize => upto = Size[c]
           /\ cursor[c] < upto \/ upto = Size[c]
<1> DEFINE upto == IF Size[c] <= cursor[c] + ReadSize THEN Size[c] ELSE cursor[c] + ReadSize
           next == {r \in rows[name[c]] : r[2] > cursor[c]}
           ahead(r) == {q \in next : Before(q, r)}
<1>1. /\ Size[c] \in Nat /\ ReadSize \in Nat /\ ReadSize > 0 /\ c \in Nat
      /\ upto \in Nat /\ cursor[c] <= upto /\ upto <= Size[c]
  BY SizeAssumption, Steppings, CopyAssumption
<1>2. next = {<<c, i>> : i \in cursor[c] + 1 .. Size[c]}
  BY <1>1 DEF FirstRows
<1> HIDE DEF next
<1>3. ASSUME NEW i \in cursor[c] + 1 .. Size[c]
      PROVE  Cardinality(ahead(<<c, i>>)) = i - 1 - cursor[c]
  <2>1. i \in Nat /\ i - 1 \in Nat /\ cursor[c] <= i - 1
    BY <1>1
  <2>2. ahead(<<c, i>>) = {<<c, j>> : j \in cursor[c] + 1 .. i - 1}
    BY <1>1, <1>2, <2>1 DEF Before
  <2> DEFINE b == i - 1
  <2>3. cursor[c] \in Nat /\ b \in Nat /\ cursor[c] <= b
    BY <2>1
  <2> HIDE DEF b, ahead
  <2>4. Cardinality(Numbered(c, cursor[c], b)) = b - cursor[c]
    BY <2>3, NumberedCount
  <2> QED BY <2>2, <2>4 DEF b, Numbered
<1>4. Chunk(c) = {r \in next : Cardinality(ahead(r)) < ReadSize}
  BY DEF Chunk, next
<1> HIDE DEF ahead
<1>5. Chunk(c) = {<<c, i>> : i \in cursor[c] + 1 .. upto}
  <2>1. ASSUME NEW i \in cursor[c] + 1 .. Size[c]
        PROVE  <<c, i>> \in Chunk(c) <=> i \in cursor[c] + 1 .. upto
    BY <1>1, <1>2, <1>3, <1>4
  <2>2. cursor[c] + 1 .. upto \subseteq cursor[c] + 1 .. Size[c]
    BY <1>1
  <2>3. Chunk(c) \subseteq {<<c, i>> : i \in cursor[c] + 1 .. Size[c]}
    BY <1>2, <1>4
  <2> HIDE DEF upto
  <2> QED BY <2>1, <2>2, <2>3
<1>6. Cardinality(Chunk(c)) = upto - cursor[c]
  <2> HIDE DEF upto
  <2>1. Cardinality(Numbered(c, cursor[c], upto)) = upto - cursor[c]
    BY <1>1, NumberedCount
  <2> QED BY <1>5, <2>1 DEF Numbered
<1>7. Cardinality(Chunk(c)) < ReadSize => upto = Size[c]
  BY <1>1, <1>6
<1>8. cursor[c] < upto \/ upto = Size[c]
  BY <1>1
<1> HIDE DEF upto
<1> QED BY <1>1, <1>5, <1>7, <1>8

LEMMA FetchFullInv ==
  ASSUME FullInv, CopyInv', NEW c \in Copy, Fetch(c)
  PROVE  FullInv'
<1> DEFINE l == IF Cardinality(Chunk(c)) < ReadSize THEN "drop" ELSE "read"
<1>1. /\ Goto(c, l) /\ pc[c] = "read" /\ name[c] \in exists
      /\ seen' = [seen EXCEPT ![c] = @ \cup Chunk(c)]
      /\ cursor' = [cursor EXCEPT ![c] = Max({@} \cup {r[2] : r \in Chunk(c)})]
      /\ UNCHANGED <<up, seq, exists, rows, name, got, put, made, clashed>>
  BY DEF Fetch, pods, cache, copy
<1>2. Alive(c)
  BY <1>1 DEF Alive, UnderWay, Streaming
<1>3. /\ OwnInv' /\ pc'[c] = l /\ \A d \in Copy : d # c => pc'[d] = pc[d]
      /\ \A d \in Copy : Alive(d)' => Alive(d)
  <2> HIDE DEF l
  <2> QED BY <1>1, <1>2, CopyMoves
<1>4. RowsInv'
  BY <1>1, <1>3 DEF FullInv, RowsInv
<1>5. SeenInv(c)'
  <2> SUFFICES ASSUME c \notin clashed PROVE SeenInv(c)'
    BY <1>1 DEF SeenInv
  <2>1. /\ cursor[c] \in Nat /\ cursor[c] <= Size[c] /\ Size[c] \in Nat
        /\ seen[c] = FirstRows(c, cursor[c]) /\ rows[name[c]] = FirstRows(c, Size[c])
    BY <1>1, <1>2, SizeAssumption DEF FullInv, CopyInv, TypeOK, CountInv, SeenInv, RowsInv
  <2>2. PICK upto \in Nat :
           /\ cursor[c] <= upto /\ upto <= Size[c]
           /\ Chunk(c) = {<<c, i>> : i \in cursor[c] + 1 .. upto}
           /\ Cardinality(Chunk(c)) < ReadSize => upto = Size[c]
    BY <2>1, ChunkIsNext
  <2>3. seen'[c] = FirstRows(c, upto)
    <3>1. seen'[c] = FirstRows(c, cursor[c]) \cup Chunk(c)
      BY <1>1, <2>1 DEF FullInv, CopyInv, TypeOK
    <3>2. 1..upto = (1..cursor[c]) \cup (cursor[c] + 1 .. upto)
      BY <2>1, <2>2
    <3> QED BY <2>2, <3>1, <3>2 DEF FirstRows
  <2>4. cursor'[c] = upto
    <3> DEFINE next == Max({cursor[c]} \cup {r[2] : r \in Chunk(c)})
    <3>1. Chunk(c) \in SUBSET Row
      BY <1>1 DEF Chunk, FullInv, CopyInv, TypeOK
    <3>2. /\ next \in Nat /\ next >= cursor[c] /\ \A r \in Chunk(c) : next >= r[2]
          /\ next = cursor[c] \/ \E r \in Chunk(c) : next = r[2]
      BY <2>1, <3>1, CursorMoves
    <3>3. cursor'[c] = next
      BY <1>1 DEF FullInv, CopyInv, TypeOK
    <3> HIDE DEF next
    <3>4. cursor[c] < upto => <<c, upto>> \in Chunk(c)
      BY <2>1, <2>2
    <3>5. next >= upto
      <4>1. CASE cursor[c] < upto
        <5>1. next >= <<c, upto>>[2]
          BY <3>2, <3>4, <4>1
        <5> QED BY <5>1
      <4>2. CASE cursor[c] = upto
        BY <3>2, <4>2
      <4> QED BY <2>1, <2>2, <4>1, <4>2
    <3>6. next <= upto
      BY <2>1, <2>2, <3>2
    <3> QED BY <3>2, <3>3, <3>5, <3>6
  <2>5. CASE Cardinality(Chunk(c)) < ReadSize
    BY <1>3, <2>2, <2>3, <2>5 DEF SeenInv, Source, FirstRows
  <2>6. CASE ~(Cardinality(Chunk(c)) < ReadSize)
    BY <1>3, <2>2, <2>3, <2>4, <2>6 DEF SeenInv
  <2> QED BY <2>5, <2>6
<1>6. ASSUME NEW d \in Copy, d # c PROVE SeenInv(d)'
  <2>1. seen'[d] = seen[d] /\ cursor'[d] = cursor[d]
    BY <1>1, <1>6 DEF FullInv, CopyInv, TypeOK
  <2> QED BY <1>1, <1>3, <1>6, <2>1 DEF FullInv, SeenInv
<1> QED BY <1>3, <1>4, <1>5, <1>6 DEF FullInv

-----------------------------------------------------------------------------
LEMMA NextFullInv == FullInv /\ [Next]_vars => FullInv'
<1> SUFFICES ASSUME FullInv, [Next]_vars PROVE FullInv'
  OBVIOUS
<1>1. CopyInv'
  BY NextCopyInv DEF FullInv
<1>2. CASE UNCHANGED vars
  BY <1>1, <1>2 DEF FullInv, OwnInv, RowsInv, SeenInv, Alive, vars, pods, cache, copy, use
<1>3. CASE Next
  BY <1>1, <1>3, PodsFullInv, BeginFullInv, RefuseFullInv, QuietFullInv, RowTakenFullInv,
     InsertFullInv, FetchFullInv, DropFullInv DEF Next, Step
<1> QED BY <1>2, <1>3

LEMMA SafetyFullInv == Safety => []FullInv
BY InitFullInv, NextFullInv, PTL DEF Safety

(* A validation that comes to its end, and that met no copy of another pod *)
(* under its own name, has seen the rows of its source table, all of them  *)
(* and no others: whatever the process ids, whatever the other pods start, *)
(* drop or fail at, and whatever tables crashed ones left behind.          *)
THEOREM CopiesAreWhole == Safety => []SeenWhole
<1>1. FullInv => SeenWhole
  BY DEF FullInv, SeenInv, SeenWhole
<1> QED BY <1>1, SafetyFullInv, PTL

(* The one step that takes away the table of a copy under way.             *)
LEMMA DropStep ==
  ASSUME FullInv, [Next]_vars, NEW c \in Copy,
         Alive(c), pc'[c] = pc[c], c \notin clashed', name[c] \in exists \ exists'
  PROVE  \E p \in Pod : up[p] = "sweep"
<1>1. ASSUME NEW d \in Copy, Begin(d) PROVE FALSE
  <2>1. exists' = exists \ {NextName(Home[d])}
    BY <1>1 DEF Begin
  <2>2. c \in Rivals(d, NextName(Home[d]))
    BY <2>1, NewNameIsFree
  <2> QED BY <1>1, <2>2 DEF Begin
<1>2. ASSUME NEW d \in Copy, Drop(d) PROVE FALSE
  <2>1. exists' \in {exists, exists \ {name[d]}}
        /\ pc[d] \in {"drop", "abort"} /\ pc' = [pc EXCEPT ![d] = IF pc[d] = "drop" THEN "done" ELSE "failed"]
    BY <1>2 DEF Drop, Goto, cache
  <2>2. d # c
    BY <2>1 DEF FullInv, CopyInv, TypeOK
  <2>3. Alive(d)
    BY <2>1 DEF Alive, UnderWay, Streaming
  <2>4. clashed' = clashed
    BY <1>2 DEF Drop, use
  <2> QED BY <2>1, <2>2, <2>3, <2>4 DEF FullInv, OwnInv
<1>3. exists' = exists \/ (\E p \in Pod : Sweep(p)) \/ (\E d \in Copy : Create(d) \/ Begin(d) \/ Drop(d))
  BY DEF Next, vars, cache, Boot, Ready, CutOff, Crash, Refuse, Step, Connect, OnRow, Insert, OnDone,
         Index, Fetch, Fail
<1>4. ASSUME NEW d \in Copy, Create(d) PROVE FALSE
  BY <1>4 DEF Create
<1> QED BY <1>1, <1>2, <1>3, <1>4 DEF Sweep

(* Only a pod with the same process id can have the same names.            *)
ClashInv == \A c \in clashed : \E p \in Pod \ {Home[c]} : Pid[p] = Pid[Home[c]]

LEMMA NextClashInv == FullInv /\ ClashInv /\ [Next]_vars => ClashInv'
<1> SUFFICES ASSUME FullInv, ClashInv, [Next]_vars PROVE ClashInv'
  OBVIOUS
<1>1. ASSUME NEW c \in Copy, Begin(c) PROVE ClashInv'
  <2> DEFINE n == NextName(Home[c])
  <2>1. clashed' \subseteq clashed \cup {c} \cup Rivals(c, n) /\ (Rivals(c, n) = {} => clashed' = clashed)
    BY <1>1 DEF Begin
  <2>2. Home[c] \in Pod /\ n[1] = Pid[Home[c]]
    BY HomeAssumption DEF NextName
  <2>3. ASSUME NEW d \in Rivals(c, n) PROVE Home[d] \in Pod /\ Home[d] # Home[c] /\ Pid[Home[d]] = Pid[Home[c]]
    BY <2>2, <2>3, HomeAssumption DEF Rivals, FullInv, OwnInv, Alive
  <2> QED BY <2>1, <2>2, <2>3 DEF ClashInv
<1>2. clashed' = clashed \/ \E c \in Copy : Begin(c)
  BY DEF Next, vars, use, Boot, Sweep, Ready, CutOff, Crash, Refuse, Step, Connect, OnRow, Create, Insert,
         OnDone, Index, Fetch, Drop, Fail
<1> QED BY <1>1, <1>2 DEF ClashInv

(* The table of a copy under way goes only when a pod sweeps at its start, *)
(* or when a copy of another pod, with the same process id, has drawn the  *)
(* same name.                                                              *)
THEOREM TablesAreKept == Safety => NobodyDrops
<1> DEFINE A == \A c \in Copy :
                  pc[c] \in UnderWay /\ pc'[c] = pc[c] /\ name[c] \in exists \ exists' =>
                    \/ \E p \in Pod : up[p] = "sweep"
                    \/ c \in clashed' /\ \E p \in Pod \ {Home[c]} : Pid[p] = Pid[Home[c]]
<1>1. Init => ClashInv
  BY DEF Init, ClashInv
<1>2. FullInv /\ ClashInv /\ [Next]_vars => [A]_vars
  BY NextClashInv, DropStep DEF Alive, ClashInv
<1> QED BY <1>1, <1>2, NextClashInv, SafetyFullInv, PTL DEF Safety, NobodyDrops
=============================================================================
