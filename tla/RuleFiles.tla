----------------------------- MODULE RuleFiles -----------------------------
(***************************************************************************)
(* Rule and preset files, edited under a running service, and the caches   *)
(* of rule-loader.service.ts and preset.service.ts between them and the    *)
(* jobs.  The loader works synchronously, one call after another, but the  *)
(* files belong to another process and may change between two calls.       *)
(*                                                                         *)
(* A file is known by <<kind, directory, id, extension>>, its content by a *)
(* version.  A question to the caches is <<kind, path or category, table,  *)
(* ids>>.  One call reads its files at once.                               *)
(***************************************************************************)
EXTENDS Integers, Sequences, SequencesExt

CONSTANTS
  Jobs, Paths,       \* a request's rule_path, or tables/<table> without one
  Ids,               \* of vali and def rules
  All,               \* the list of ids that is not given
  Versions,
  PresetFiles,       \* the names of preset files in directory order: <<category, extension>>
  CasesOf,           \* version -> sequence of cases [name, path, tables], tables a sequence
  Modules,           \* sets of categories: the modules, and all of them
  Submissions,       \* the lists of tables clients send
  Selections,        \* [name, tables]: the case and the sources a client asks for
  Global, None, Nothing,
  InitialFiles,      \* what the files may be at first, and those
  Edited,            \* that are edited later
  MaxEdits           \* bound on the edits of files

Absent == 0
Broken == -1
Empty  == -2

ASSUME VersionAssumption ==
  Versions \subseteq Nat \ {Absent} /\ Nothing \notin Versions \cup {Absent, Empty}

VARIABLES
  disk,      \* file -> a version, Absent, Broken (does not parse) or Empty
  cache,     \* globalAffectCodes, commonRuleCache, defRuleCache, and the presets
  answers,   \* what they have answered since the process started
  jobs,      \* job -> the tables it has left; the first is being validated
  turn,      \* [job, phase]: the job that runs, until its first await
  edits
vars == <<disk, cache, answers, jobs, turn, edits>>

Kinds == {"vali", "def"}
Extensions == {"yaml", "yml"}
Categories == {PresetFiles[i][1] : i \in 1..Len(PresetFiles)}
Files ==
  {<<"codes", Global, None, "json">>} \cup {<<"common", p, None, "yaml">> : p \in Paths}
  \cup {<<k, d, i, x>> : k \in Kinds, d \in Paths \cup {Global}, i \in Ids, x \in Extensions}
  \cup {<<"preset", c, None, x>> : c \in Categories, x \in Extensions}

(* readDefYamls: a rule for every file, so two for an id that has a .yaml  *)
(* and a .yml one; a file that does not parse, or is empty, is left out.   *)
Wanted(ids) == IF ids = All THEN Ids ELSE ids \cap Ids

ReadDefYamls(files, kind, dir, ids) ==
  {[id |-> f[1], dir |-> dir, ext |-> f[2], version |-> files[<<kind, dir, f[1], f[2]>>]] :
     f \in {g \in Wanted(ids) \X Extensions : files[<<kind, dir, g[1], g[2]>>] \in Versions}}

ReadDefsMutant(files, kind, path, ids) ==
  ReadDefYamls(files, kind, path, ids) \cup ReadDefYamls(files, kind, Global, ids)

(* The rules of the table's own directory, then those global rules whose   *)
(* ids are not among them.                                                 *)
ReadDefs(files, kind, path, ids) ==
  LET own    == ReadDefYamls(files, kind, path, ids)
      loaded == {r.id : r \in own}
  IN  own \cup {r \in ReadDefYamls(files, kind, Global, ids) : r.id \notin loaded}

(* What a call finds in the files.  Affect codes that are not there are an *)
(* empty list, and an empty common.yaml is an answer like any other one,   *)
(* undefined; anything else that is not there, is empty or does not parse  *)
(* is no answer.  Only presets named .yaml are opened.                     *)
Read(files, q) ==
  LET content(f) == IF files[f] \in Versions THEN files[f] ELSE Nothing
      codes      == <<"codes", Global, None, "json">>
      common     == <<"common", q[2], None, "yaml">>
  IN  CASE q[1] = "codes"  -> IF files[codes] = Absent THEN Absent ELSE content(codes)
        [] q[1] = "common" -> IF files[common] = Empty THEN Empty ELSE content(common)
        [] q[1] = "preset" -> content(<<"preset", q[2], None, "yaml">>)
        [] OTHER           -> ReadDefs(files, q[1], q[2], q[4])

AffectCodes        == <<"codes", Global, None, None>>
CommonRule(r)      == <<"common", r.path, r.table, None>>
ValiRules(r)       == <<"vali", r.path, r.table, r.valis>>
DefRules(r)        == <<"def", r.path, r.table, r.defs>>
Preset(category)   == <<"preset", category, None, None>>

LoadedMutant(q) == IF q \in DOMAIN cache /\ q[1] # "common" THEN cache[q] ELSE Read(disk, q)

Loaded(q) == IF q \in DOMAIN cache THEN cache[q] ELSE Read(disk, q)

(* Every answer is cached, the undefined one of an empty common.yaml too,  *)
(* and no failure.                                                         *)
Consult(questions) ==
  LET answered == {q \in questions : Loaded(q) # Nothing}
  IN  /\ cache' = [q \in DOMAIN cache \cup answered |-> Loaded(q)]
      /\ answers' = answers \cup {<<q, Loaded(q)>> : q \in answered}

-----------------------------------------------------------------------------
Free == [job |-> None, phase |-> "await"]

Init ==
  /\ disk \in InitialFiles
  /\ cache = <<>> /\ answers = {} /\ edits = 0
  /\ jobs = [j \in Jobs |-> <<>>] /\ turn = Free

Edit ==
  /\ edits < MaxEdits /\ edits' = edits + 1
  /\ \E f \in Edited, v \in Versions \cup {Absent, Broken, Empty} : disk' = [disk EXCEPT ![f] = v]
  /\ UNCHANGED <<cache, answers, jobs, turn>>

(* The rule directory of a case is removed.                                *)
RemoveDirectory ==
  /\ edits < MaxEdits /\ edits' = edits + 1
  /\ \E p \in Paths : disk' = [f \in Files |-> IF f[2] = p THEN Absent ELSE disk[f]]
  /\ UNCHANGED <<cache, answers, jobs, turn>>

(* A new process knows nothing, and no job outlives the old one.           *)
Restart ==
  /\ cache' = <<>> /\ answers' = {}
  /\ jobs' = [j \in Jobs |-> <<>>] /\ turn' = Free
  /\ UNCHANGED <<disk, edits>>

(* startJob, and runJob up to the first table: affect codes that do not    *)
(* parse end the job.  The questions are those asked before the job.       *)
StartJob(j, tables, questions) ==
  /\ turn = Free /\ jobs[j] = <<>> /\ tables # <<>>
  /\ Consult(questions \cup {AffectCodes})
  /\ LET begun == Loaded(AffectCodes) # Nothing
     IN  /\ jobs' = [jobs EXCEPT ![j] = IF begun THEN tables ELSE <<>>]
         /\ turn' = IF begun THEN [job |-> j, phase |-> "common"] ELSE Free
  /\ UNCHANGED <<disk, edits>>

Run(j) == \E tables \in Submissions : StartJob(j, tables, {})

(* resolveTablesForRun                                                     *)
Resolved(category, selection) ==
  LET cases == IF Loaded(Preset(category)) = Nothing THEN <<>>
               ELSE SelectSeq(CasesOf[Loaded(Preset(category))],
                              LAMBDA c : selection.name \in {All, c.name})
      of(c) == SelectSeq(c.tables, LAMBDA t : selection.tables = All \/ t \in selection.tables)
      requests(c) == [i \in 1..Len(of(c)) |-> [table |-> of(c)[i], path |-> c.path, valis |-> All, defs |-> All]]
  IN  FlattenSeq([i \in 1..Len(cases) |-> requests(cases[i])])

RunPreset(j) ==
  \E c \in Categories, s \in Selections : StartJob(j, Resolved(c, s), {Preset(c)})

(* The preset files of a module, in the order of the directory.  A         *)
(* category that has both a .yaml and a .yml file is listed twice.         *)
Listing(module) ==
  SelectSeq(PresetFiles, LAMBDA f : f[1] \in module /\ disk[<<"preset", f[1], None, f[2]>>] # Absent)

Listed(module) == {Preset(f[1]) : f \in Range(Listing(module))}

(* run/all and run/preset/:module                                          *)
RunModule(j) ==
  \E module \in Modules :
    LET files == Listing(module)
    IN  StartJob(j, FlattenSeq([i \in 1..Len(files) |->
                                  Resolved(files[i][1], [name |-> All, tables |-> All])]), Listed(module))

(* GET /presets, and a request to run that finds no tables.                *)
ListPresets ==
  /\ turn = Free
  /\ \E questions \in {Listed(m) : m \in Modules} \cup {{Preset(c)} : c \in Categories} : Consult(questions)
  /\ UNCHANGED <<disk, jobs, turn, edits>>

HasRuleDirectory(path) == \E f \in Files : f[2] = path /\ disk[f] # Absent

(* The job goes on to its next table.                                      *)
Continue(j) ==
  /\ jobs' = [jobs EXCEPT ![j] = Tail(@)]
  /\ turn' = IF Len(jobs[j]) > 1 THEN [job |-> j, phase |-> "common"] ELSE Free

(* A table without a common rule, or with an empty one, is not validated.  *)
LoadCommonRule(j) ==
  /\ turn = [job |-> j, phase |-> "common"]
  /\ LET r == Head(jobs[j])
     IN  \/ /\ ~HasRuleDirectory(r.path)
            /\ Continue(j) /\ UNCHANGED <<cache, answers>>
         \/ /\ HasRuleDirectory(r.path)
            /\ Consult({CommonRule(r)})
            /\ IF Loaded(CommonRule(r)) \in {Nothing, Empty} THEN Continue(j)
               ELSE turn' = [job |-> j, phase |-> "vali"] /\ UNCHANGED jobs
  /\ UNCHANGED <<disk, edits>>

LoadValiRules(j) ==
  /\ turn = [job |-> j, phase |-> "vali"]
  /\ Consult({ValiRules(Head(jobs[j]))})
  /\ turn' = [job |-> j, phase |-> "def"]
  /\ UNCHANGED <<disk, jobs, edits>>

(* The strategy then waits for the database.                               *)
LoadDefRules(j) ==
  /\ turn = [job |-> j, phase |-> "def"]
  /\ Consult({DefRules(Head(jobs[j]))})
  /\ turn' = Free
  /\ UNCHANGED <<disk, jobs, edits>>

FinishTable(j) ==
  /\ turn = Free /\ jobs[j] # <<>>
  /\ Continue(j)
  /\ UNCHANGED <<disk, cache, answers, edits>>

Next ==
  \/ Edit \/ RemoveDirectory \/ Restart \/ ListPresets
  \/ \E j \in Jobs :
       \/ Run(j) \/ RunPreset(j) \/ RunModule(j)
       \/ LoadCommonRule(j) \/ LoadValiRules(j) \/ LoadDefRules(j) \/ FinishTable(j)

Spec == Init /\ [][Next]_vars

-----------------------------------------------------------------------------
(* A question has one answer for the life of a process: what the files     *)
(* said when it was first answered.  So all tables validated with the same *)
(* request, and every listing and run of a preset, see the same rules      *)
(* until the service is restarted, and after it the files of that time,    *)
(* never older ones.                                                       *)
Book == INSTANCE RuleBook WITH Says <- Read, Nothing <- Nothing, files <- disk, answers <- answers

FollowsTheBook == Book!Spec

(* The rules an id stands for: those of the table's own directory when one *)
(* of its files for the id parses, else the global ones.                   *)
RulesOf(files, kind, path, ids, i) ==
  LET parsing(dir) == {x \in Extensions : files[<<kind, dir, i, x>>] \in Versions}
      from         == IF parsing(path) # {} THEN path ELSE Global
  IN  {[id |-> i, dir |-> from, ext |-> x, version |-> files[<<kind, from, i, x>>]] :
         x \in IF i \in Wanted(ids) THEN parsing(from) ELSE {}}

(* ENGINE.md: table-specific defs override global defs with the same id.   *)
(* When vali or def rules are loaded, all rules of an id are of one        *)
(* directory, the table's own if any file there parses: one rule for every *)
(* file that parses, so that no id asked for is without a rule or has it   *)
(* twice unless it has two files.                                          *)
OwnOverridesGlobal ==
  [][\A a \in answers' \ answers : a[1][1] \in Kinds =>
       \A i \in Ids : {r \in a[2] : r.id = i} = RulesOf(disk, a[1][1], a[1][2], a[1][4], i)]_vars
=============================================================================
