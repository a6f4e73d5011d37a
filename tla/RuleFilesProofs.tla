-------------------------- MODULE RuleFilesProofs --------------------------
(***************************************************************************)
(* The caches of the rule loader keep the promise of RuleBook, whatever    *)
(* the tables, the rules, the versions and the number of edits.            *)
(*                                                                         *)
(* That answers are kept takes an invariant: what has been answered is     *)
(* what is cached.  Init and Restart empty both, Consult extends both, and *)
(* nothing else touches them.                                              *)
(***************************************************************************)
EXTENDS RuleFiles, TLAPS

CacheIsMemory ==
  /\ answers = {<<q, cache[q]>> : q \in DOMAIN cache}
  /\ \A q \in DOMAIN cache : cache[q] # Nothing

(* Every step of the service is one of four.                               *)
LEMMA Steps ==
  ASSUME Next
  PROVE  \/ UNCHANGED <<cache, answers>>
         \/ cache' = <<>> /\ answers' = {} /\ disk' = disk
         \/ disk' = disk /\ \E questions : Consult(questions)
<1>1. CASE Edit \/ RemoveDirectory
  BY <1>1 DEF Edit, RemoveDirectory
<1>2. CASE Restart
  BY <1>2 DEF Restart
<1>3. CASE ListPresets
  BY <1>3 DEF ListPresets
<1>4. ASSUME NEW j \in Jobs, Run(j) \/ RunPreset(j) \/ RunModule(j)
      PROVE  disk' = disk /\ \E questions : Consult(questions)
  BY <1>4 DEF Run, RunPreset, RunModule, StartJob
<1>5. ASSUME NEW j \in Jobs, LoadCommonRule(j)
      PROVE  UNCHANGED <<cache, answers>> \/ (disk' = disk /\ \E questions : Consult(questions))
  BY <1>5 DEF LoadCommonRule
<1>6. ASSUME NEW j \in Jobs, LoadValiRules(j) \/ LoadDefRules(j)
      PROVE  disk' = disk /\ \E questions : Consult(questions)
  BY <1>6 DEF LoadValiRules, LoadDefRules
<1>7. ASSUME NEW j \in Jobs, FinishTable(j)
      PROVE  UNCHANGED <<cache, answers>>
  BY <1>7 DEF FinishTable
<1> QED
  BY <1>1, <1>2, <1>3, <1>4, <1>5, <1>6, <1>7 DEF Next

(* Asked again, the caches answer as before; a new answer is what the      *)
(* files say now.                                                          *)
LEMMA ConsultRemembers ==
  ASSUME CacheIsMemory, NEW questions, Consult(questions)
  PROVE  /\ CacheIsMemory'
         /\ answers \subseteq answers'
         /\ \A a \in answers' \ answers :
              /\ a[2] = Read(disk, a[1]) /\ a[2] # Nothing
              /\ \A b \in answers' : b[1] = a[1] => b = a
<1> DEFINE answered == {q \in questions : Loaded(q) # Nothing}
<1>1. /\ cache' = [q \in DOMAIN cache \cup answered |-> Loaded(q)]
      /\ answers' = answers \cup {<<q, Loaded(q)>> : q \in answered}
  BY DEF Consult
<1>2. \A q \in DOMAIN cache : Loaded(q) = cache[q]
  BY DEF Loaded
<1>3. answers = {<<q, Loaded(q)>> : q \in DOMAIN cache}
  BY <1>2 DEF CacheIsMemory
<1>4. answers' = {<<q, Loaded(q)>> : q \in DOMAIN cache \cup answered}
  BY <1>1, <1>3
<1>5. /\ DOMAIN cache' = DOMAIN cache \cup answered
      /\ \A q \in DOMAIN cache \cup answered : cache'[q] = Loaded(q) /\ Loaded(q) # Nothing
  BY <1>1, <1>2 DEF CacheIsMemory
<1>6. CacheIsMemory'
  BY <1>4, <1>5 DEF CacheIsMemory
<1>7. ASSUME NEW a \in answers', a \notin answers
      PROVE  /\ a[2] = Read(disk, a[1]) /\ a[2] # Nothing
             /\ \A b \in answers' : b[1] = a[1] => b = a
  <2>1. PICK q \in DOMAIN cache \cup answered : a = <<q, Loaded(q)>>
    BY <1>4, <1>7
  <2>2. q \notin DOMAIN cache
    BY <1>3, <1>7, <2>1
  <2>3. Loaded(q) = Read(disk, q) /\ Loaded(q) # Nothing
    BY <1>5, <2>2 DEF Loaded
  <2> QED
    BY <1>4, <2>1, <2>3
<1> QED
  BY <1>1, <1>6, <1>7

LEMMA InitRemembers == Init => CacheIsMemory
  BY DEF Init, CacheIsMemory

LEMMA StepsRemember == CacheIsMemory /\ [Next]_vars => CacheIsMemory'
<1> SUFFICES ASSUME CacheIsMemory, [Next]_vars PROVE CacheIsMemory'
  OBVIOUS
<1>1. CASE UNCHANGED <<cache, answers>>
  BY <1>1 DEF CacheIsMemory
<1>2. CASE cache' = <<>> /\ answers' = {}
  BY <1>2 DEF CacheIsMemory
<1>3. CASE \E questions : Consult(questions)
  BY <1>3, ConsultRemembers
<1> QED
  BY <1>1, <1>2, <1>3, Steps DEF vars

(* A question has one answer for the life of a process, what the files     *)
(* said when it was first answered: the caches of rule-loader.service.ts   *)
(* and preset.service.ts implement the book of rules.                      *)
THEOREM CachesFollowTheBook == Spec => FollowsTheBook
<1>1. Init => Book!Init
  BY DEF Init, Book!Init
<1>2. CacheIsMemory /\ [Next]_vars => [Book!Next]_<<disk, answers>>
  <2> SUFFICES ASSUME CacheIsMemory, [Next]_vars PROVE [Book!Next]_<<disk, answers>>
    OBVIOUS
  <2>1. CASE UNCHANGED <<cache, answers>>
    BY <2>1 DEF Book!Next, Book!Edit
  <2>2. CASE answers' = {} /\ disk' = disk
    BY <2>2 DEF Book!Next, Book!Restart
  <2>3. CASE disk' = disk /\ \E questions : Consult(questions)
    BY <2>3, ConsultRemembers DEF Book!Next, Book!Answer
  <2> QED
    BY <2>1, <2>2, <2>3, Steps DEF vars
<1> QED
  BY <1>1, <1>2, InitRemembers, StepsRemember, PTL DEF Spec, FollowsTheBook, Book!Spec

(* What a directory yields: a rule for every file that parses.             *)
Parsing(files, kind, dir, i) == {x \in Extensions : files[<<kind, dir, i, x>>] \in Versions}
RuleIn(files, kind, dir, i, x) == [id |-> i, dir |-> dir, ext |-> x, version |-> files[<<kind, dir, i, x>>]]
RulesIn(files, kind, dir, ids, i) ==
  {RuleIn(files, kind, dir, i, x) : x \in IF i \in Wanted(ids) THEN Parsing(files, kind, dir, i) ELSE {}}
RulesFor(rules, i) == {r \in rules : r.id = i}

LEMMA ReadsEveryFile ==
  ASSUME NEW files, NEW kind, NEW dir, NEW ids, NEW i \in Ids
  PROVE  RulesFor(ReadDefYamls(files, kind, dir, ids), i) = RulesIn(files, kind, dir, ids, i)
<1> DEFINE rule(f) == RuleIn(files, kind, dir, f[1], f[2])
           here    == {f \in Wanted(ids) \X Extensions : files[<<kind, dir, f[1], f[2]>>] \in Versions}
           wanted  == IF i \in Wanted(ids) THEN Parsing(files, kind, dir, i) ELSE {}
<1>1. ReadDefYamls(files, kind, dir, ids) = {rule(f) : f \in here}
  BY DEF ReadDefYamls, RuleIn
<1>2. \A f : rule(f).id = f[1]
  BY DEF RuleIn
<1>3. \A f \in here : f = <<f[1], f[2]>> /\ (f[1] = i => f[2] \in wanted)
  BY DEF Parsing
<1>4. \A x \in wanted : <<i, x>> \in here
  BY DEF Parsing
<1>5. \A x : rule(<<i, x>>) = RuleIn(files, kind, dir, i, x)
  OBVIOUS
<1>6. \A f \in here : f[1] = i => rule(f) = RuleIn(files, kind, dir, i, f[2])
  OBVIOUS
<1> HIDE DEF rule, here, wanted
<1>7. \A r : r \in {q \in {rule(f) : f \in here} : q.id = i} => r \in {RuleIn(files, kind, dir, i, x) : x \in wanted}
  BY <1>2, <1>3, <1>6
<1>8. \A x \in wanted : /\ RuleIn(files, kind, dir, i, x) \in {rule(f) : f \in here}
                        /\ RuleIn(files, kind, dir, i, x).id = i
  BY <1>2, <1>4, <1>5
<1> QED
  BY <1>1, <1>7, <1>8 DEF wanted, RulesFor, RulesIn

(* The two directories together yield the rules an id stands for.          *)
LEMMA OwnBeforeGlobal ==
  ASSUME NEW files, NEW kind, NEW path, NEW ids, NEW i \in Ids
  PROVE  {r \in ReadDefs(files, kind, path, ids) : r.id = i} = RulesOf(files, kind, path, ids, i)
<1> DEFINE own   == ReadDefYamls(files, kind, path, ids)
           rest  == ReadDefYamls(files, kind, Global, ids)
           at(s) == RulesFor(s, i)
           from(dir) == RulesIn(files, kind, dir, ids, i)
<1>1. ReadDefs(files, kind, path, ids) = own \cup {r \in rest : r.id \notin {x.id : x \in own}}
  BY DEF ReadDefs
<1>2. at(own) = from(path) /\ at(rest) = from(Global)
  BY ReadsEveryFile
<1> HIDE DEF own, rest, from
<1>3. at(ReadDefs(files, kind, path, ids)) = IF at(own) = {} THEN at(rest) ELSE at(own)
  <2>1. i \in {x.id : x \in own} <=> at(own) # {}
    BY DEF RulesFor
  <2> QED
    BY <1>1, <2>1 DEF RulesFor
<1>4. from(path) = {} <=> i \notin Wanted(ids) \/ Parsing(files, kind, path, i) = {}
  BY DEF from, RulesIn
<1>5. RulesOf(files, kind, path, ids, i) =
        IF Parsing(files, kind, path, i) # {} THEN from(path) ELSE from(Global)
  <2>1. CASE Parsing(files, kind, path, i) # {}
    BY <2>1 DEF RulesOf, Parsing, RuleIn, RulesIn, from
  <2>2. CASE Parsing(files, kind, path, i) = {}
    BY <2>2 DEF RulesOf, Parsing, RuleIn, RulesIn, from
  <2> QED BY <2>1, <2>2
<1>6. i \notin Wanted(ids) => from(Global) = {}
  BY DEF from, RulesIn
<1> QED
  BY <1>2, <1>3, <1>4, <1>5, <1>6 DEF RulesFor

(* A new answer about vali or def rules has a rule for every file of the   *)
(* one directory an id is taken from, the table's own before the global    *)
(* one, and none of the other (loadValiRules, loadDefRules).               *)
THEOREM AnswersAreOfOneDirectory == Spec => OwnOverridesGlobal
<1> DEFINE Right(a) == \A i \in Ids : {r \in a[2] : r.id = i} = RulesOf(disk, a[1][1], a[1][2], a[1][4], i)
<1>1. ASSUME CacheIsMemory, [Next]_vars,
             NEW a \in answers' \ answers, a[1][1] \in Kinds
      PROVE  Right(a)
  <2>1. PICK questions : Consult(questions)
    BY <1>1, Steps DEF vars
  <2>2. a[2] = Read(disk, a[1])
    BY <1>1, <2>1, ConsultRemembers
  <2>3. a[2] = ReadDefs(disk, a[1][1], a[1][2], a[1][4])
    BY <1>1, <2>2 DEF Read, Kinds
  <2> QED
    BY <2>3, OwnBeforeGlobal
<1>2. CacheIsMemory /\ [Next]_vars => [\A a \in answers' \ answers : a[1][1] \in Kinds => Right(a)]_vars
  BY <1>1
<1> QED
  BY <1>2, InitRemembers, StepsRemember, PTL DEF Spec, OwnOverridesGlobal
=============================================================================
