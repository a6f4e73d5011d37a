--------------------------- MODULE JobStoreProofs ---------------------------
(***************************************************************************)
(* What the job registry promises for every set of pods and jobs, and for  *)
(* any order, loss and crash: a poll says RUNNING exactly while the job    *)
(* runs, the polls of a living pod only advance, a settled job is never    *)
(* touched again, and a DONE job has its report or a warning in the log.   *)
(***************************************************************************)
EXTENDS JobStore, TLAPS

(* A record, wherever it is, is of a job that was handed out.              *)
Known ==
  \A j \in Job :
    \/ j \in issued
    \/ /\ stored[j] = Absent
       /\ \A p \in Pod : jobs[p][j] = Absent /\ \A stmt \in sent[p] : stmt.job # j
       /\ \A stmt \in adrift : stmt.job # j

(* A pod that is down runs nothing and has nothing under way.              *)
Asleep ==
  \A p \in Pod : ~up[p] =>
    sent[p] = {} /\ \A j \in Job : jobs[p][j] = Absent /\ runner[p][j] = "none"

IInv == TypeOK /\ Known /\ Asleep /\ RunningHasRunner

-----------------------------------------------------------------------------
(* The helpers.                                                            *)

LEMMA UpsertsAreStatements ==
  ASSUME NEW j \in Job, NEW recs \in SUBSET Record
  PROVE  Upserts(j, recs) \in SUBSET Statement
BY DEF Upserts, Statement

LEMMA SendGrows ==
  ASSUME TypeOK, NEW p \in Pod, NEW stmts \in SUBSET Statement, Send(p, stmts)
  PROVE  /\ sent' \in [Pod -> SUBSET Statement]
         /\ \A q \in Pod : sent'[q] \in SUBSET (sent[q] \cup stmts)
         /\ \A q \in Pod : q # p => sent'[q] = sent[q]
BY DEF TypeOK, Send

LEMMA SettleShrinks ==
  ASSUME TypeOK, NEW p \in Pod, NEW stmt, Settle(p, stmt)
  PROVE  /\ sent' \in [Pod -> SUBSET Statement]
         /\ \A q \in Pod : sent'[q] \in SUBSET sent[q]
BY DEF TypeOK, Settle

LEMMA UpdateOne ==
  ASSUME TypeOK, NEW p \in Pod, NEW j \in Job, NEW rec \in Record, Update(p, j, rec)
  PROVE  /\ jobs' \in [Pod -> [Job -> Record \cup {Absent}]]
         /\ jobs'[p][j] = rec
         /\ \A q \in Pod, i \in Job : <<q, i>> # <<p, j>> => jobs'[q][i] = jobs[q][i]
BY DEF TypeOK, Update

(* A job that is being run has a RUNNING record on a living pod.           *)
LEMMA RunnerHasRecord ==
  ASSUME IInv, NEW p \in Pod, NEW j \in Job, runner[p][j] # "none"
  PROVE  /\ jobs[p][j] \in Record /\ jobs[p][j].status = "RUNNING"
         /\ up[p] /\ j \in issued
<1>1. Sees(p, j, {"RUNNING"})
  BY DEF IInv, RunningHasRunner
<1>2. jobs[p][j] # Absent /\ jobs[p][j].status = "RUNNING"
  BY <1>1 DEF Sees
<1>3. jobs[p][j] \in Record
  BY <1>2 DEF IInv, TypeOK
<1>4. up[p]
  BY <1>2 DEF IInv, Asleep
<1>5. j \in issued
  BY <1>2 DEF IInv, Known
<1> QED BY <1>2, <1>3, <1>4, <1>5

(* What a pod recovers is a record of a job nobody runs here.              *)
LEMMA RecoveredType ==
  ASSUME TypeOK, NEW j \in Job
  PROVE  /\ Recovered(j) \in Record \cup {Absent}
         /\ Recovered(j) = Absent <=> stored[j] = Absent
         /\ Recovered(j) # Absent => Recovered(j).status # "RUNNING"
         /\ j \in Orphaned => Recovered(j) \in Record
<1>1. CASE j \in Orphaned
  <2>1. stored[j] \in Record
    BY <1>1 DEF TypeOK, Orphaned
  <2>2. Recovered(j) = [stored[j] EXCEPT !.status = "FAILED"]
    BY <1>1 DEF Recovered
  <2>3. Recovered(j) \in Record /\ Recovered(j).status = "FAILED"
    BY <2>1, <2>2 DEF Record, Status
  <2> QED BY <1>1, <2>1, <2>3, AbsentAssumption
<1>2. CASE j \notin Orphaned
  <2>1. Recovered(j) = stored[j]
    BY <1>2 DEF Recovered
  <2> QED BY <1>2, <2>1 DEF TypeOK, Orphaned
<1> QED BY <1>1, <1>2

(* A step that gives one job of a pod a record, and a runner that agrees   *)
(* with it, keeps the invariant.                                           *)
LEMMA JobStep ==
  ASSUME IInv, NEW p \in Pod, NEW j \in Job, up[p],
         NEW rec \in Record, Update(p, j, rec),
         NEW stmts \in SUBSET Statement, Send(p, stmts),
         \A stmt \in stmts : stmt.job = j,
         NEW r \in {"none", "tables", "saving"},
         runner' = [runner EXCEPT ![p][j] = r],
         rec.status = "RUNNING" <=> r # "none",
         j \in issued', issued \subseteq issued', issued' \subseteq Job,
         UNCHANGED <<up, pool, boots, adrift, warned, stored, reports>>,
         disk' \in [Pod -> SUBSET Job]
  PROVE  IInv'
<1>1. /\ jobs' \in [Pod -> [Job -> Record \cup {Absent}]]
      /\ jobs'[p][j] = rec
      /\ \A q \in Pod, i \in Job : <<q, i>> # <<p, j>> => jobs'[q][i] = jobs[q][i]
  BY UpdateOne DEF IInv
<1>2. /\ runner' \in [Pod -> [Job -> {"none", "tables", "saving"}]]
      /\ runner'[p][j] = r
      /\ \A q \in Pod, i \in Job : <<q, i>> # <<p, j>> => runner'[q][i] = runner[q][i]
  BY DEF IInv, TypeOK
<1>3. /\ sent' \in [Pod -> SUBSET Statement]
      /\ \A q \in Pod : sent'[q] \in SUBSET (sent[q] \cup stmts)
      /\ \A q \in Pod : q # p => sent'[q] = sent[q]
  BY SendGrows DEF IInv
<1>4. TypeOK'
  BY <1>1, <1>2, <1>3 DEF IInv, TypeOK
<1>5. Known'
  <2> SUFFICES ASSUME NEW i \in Job, i \notin issued'
               PROVE  /\ stored'[i] = Absent
                      /\ \A q \in Pod : jobs'[q][i] = Absent /\ \A stmt \in sent'[q] : stmt.job # i
                      /\ \A stmt \in adrift : stmt.job # i
    BY DEF Known
  <2>1. i # j /\ i \notin issued
    OBVIOUS
  <2>2. /\ stored[i] = Absent
        /\ \A q \in Pod : jobs[q][i] = Absent /\ \A stmt \in sent[q] : stmt.job # i
        /\ \A stmt \in adrift : stmt.job # i
    BY <2>1 DEF IInv, Known
  <2> QED BY <1>1, <1>3, <2>1, <2>2
<1>6. Asleep'
  <2> SUFFICES ASSUME NEW q \in Pod, ~up'[q]
               PROVE  sent'[q] = {} /\ \A i \in Job : jobs'[q][i] = Absent /\ runner'[q][i] = "none"
    BY DEF Asleep
  <2>1. q # p /\ ~up[q]
    OBVIOUS
  <2>2. sent[q] = {} /\ \A i \in Job : jobs[q][i] = Absent /\ runner[q][i] = "none"
    BY <2>1 DEF IInv, Asleep
  <2>3. \A i \in Job : jobs'[q][i] = jobs[q][i] /\ runner'[q][i] = runner[q][i]
    BY <1>1, <1>2, <2>1
  <2> QED BY <1>3, <2>1, <2>2, <2>3
<1>7. RunningHasRunner'
  <2> SUFFICES ASSUME NEW q \in Pod, NEW i \in Job
               PROVE  (jobs'[q][i] # Absent /\ jobs'[q][i].status = "RUNNING")
                        <=> runner'[q][i] # "none"
    BY DEF RunningHasRunner, Sees
  <2>1. CASE <<q, i>> = <<p, j>>
    BY <1>1, <1>2, <2>1, AbsentAssumption
  <2>2. CASE <<q, i>> # <<p, j>>
    BY <1>1, <1>2, <2>2 DEF IInv, RunningHasRunner, Sees
  <2> QED BY <2>1, <2>2
<1> QED BY <1>4, <1>5, <1>6, <1>7 DEF IInv

-----------------------------------------------------------------------------
(* The invariant is inductive.                                             *)

LEMMA InitInv == Init => IInv
BY AbsentAssumption, BootsAssumption
   DEF Init, NoJobs, NoRunners, IInv, TypeOK, Known, Asleep, RunningHasRunner, Sees

LEMMA StartJobInv ==
  ASSUME IInv, NEW p \in Pod, NEW j \in Job, StartJob(p, j)
  PROVE  IInv'
<1> DEFINE pending == [status |-> "PENDING", done |-> 0]
           running == [pending EXCEPT !.status = "RUNNING"]
<1>1. pending \in Record /\ running \in Record /\ running.status = "RUNNING"
  BY TablesAssumption DEF Record, Status
<1>2. /\ up[p] /\ issued' = issued \cup {j}
      /\ Update(p, j, running) /\ Send(p, Upserts(j, {pending, running}))
      /\ runner' = [runner EXCEPT ![p][j] = "tables"]
      /\ UNCHANGED <<up, pool, boots, adrift, warned, stored, reports, disk>>
  BY DEF StartJob, pods, lost, db
<1> HIDE DEF pending, running
<1>3. /\ Upserts(j, {pending, running}) \in SUBSET Statement
      /\ \A stmt \in Upserts(j, {pending, running}) : stmt.job = j
  BY <1>1, UpsertsAreStatements DEF Upserts
<1>4. issued' \subseteq Job /\ disk' \in [Pod -> SUBSET Job]
  BY <1>2 DEF IInv, TypeOK
<1> QED BY <1>1, <1>2, <1>3, <1>4, JobStep

LEMMA TableDoneInv ==
  ASSUME IInv, NEW p \in Pod, NEW j \in Job, TableDone(p, j)
  PROVE  IInv'
<1> DEFINE rec == [jobs[p][j] EXCEPT !.done = @ + 1]
<1>1. /\ runner[p][j] = "tables" /\ jobs[p][j].done < Tables
      /\ Update(p, j, rec) /\ Send(p, Upserts(j, {rec}))
      /\ UNCHANGED <<up, pool, boots, runner, adrift, warned, stored, reports, disk, issued>>
  BY DEF TableDone, pods, lost, db
<1>2. /\ jobs[p][j] \in Record /\ jobs[p][j].status = "RUNNING" /\ up[p] /\ j \in issued
  BY <1>1, RunnerHasRecord
<1>3. rec \in Record /\ rec.status = "RUNNING"
  BY <1>1, <1>2, TablesAssumption DEF Record, Status
<1> HIDE DEF rec
<1>4. /\ Upserts(j, {rec}) \in SUBSET Statement
      /\ \A stmt \in Upserts(j, {rec}) : stmt.job = j
  BY <1>3, UpsertsAreStatements DEF Upserts
<1>5. runner' = [runner EXCEPT ![p][j] = "tables"]
  BY <1>1 DEF IInv, TypeOK
<1>6. issued' \subseteq Job /\ disk' \in [Pod -> SUBSET Job]
  BY <1>1 DEF IInv, TypeOK
<1>7. /\ Update(p, j, rec) /\ Send(p, Upserts(j, {rec}))
      /\ UNCHANGED <<up, pool, boots, adrift, warned, stored, reports>>
      /\ j \in issued' /\ issued \subseteq issued'
  BY <1>1, <1>2
<1> QED BY <1>2, <1>3, <1>4, <1>5, <1>6, <1>7, JobStep

LEMMA WriteReportsInv ==
  ASSUME IInv, NEW p \in Pod, NEW j \in Job, WriteReports(p, j)
  PROVE  IInv'
<1>1. /\ runner[p][j] = "tables"
      /\ disk' = [disk EXCEPT ![p] = @ \cup {j}]
      /\ Send(p, Upserts(j, {Report}))
      /\ runner' = [runner EXCEPT ![p][j] = "saving"]
      /\ UNCHANGED <<up, pool, boots, jobs, adrift, warned, stored, reports, issued>>
  BY DEF WriteReports, pods, lost, db
<1>2. /\ jobs[p][j] \in Record /\ jobs[p][j].status = "RUNNING" /\ up[p] /\ j \in issued
  BY <1>1, RunnerHasRecord
<1>3. /\ Upserts(j, {Report}) \in SUBSET Statement
      /\ \A stmt \in Upserts(j, {Report}) : stmt.job = j
  BY DEF Upserts, Statement
<1>4. Update(p, j, jobs[p][j])
  BY <1>1 DEF IInv, TypeOK, Update
<1>5. issued' \subseteq Job /\ disk' \in [Pod -> SUBSET Job]
  BY <1>1 DEF IInv, TypeOK
<1> QED BY <1>1, <1>2, <1>3, <1>4, <1>5, JobStep

LEMMA CompleteInv ==
  ASSUME IInv, NEW p \in Pod, NEW j \in Job, Complete(p, j)
  PROVE  IInv'
<1> DEFINE rec == [jobs[p][j] EXCEPT !.status = "DONE"]
<1>1. /\ runner[p][j] = "saving"
      /\ Update(p, j, rec) /\ Send(p, Upserts(j, {rec}))
      /\ runner' = [runner EXCEPT ![p][j] = "none"]
      /\ UNCHANGED <<up, pool, boots, adrift, warned, stored, reports, disk, issued>>
  BY DEF Complete, pods, lost, db
<1>2. /\ jobs[p][j] \in Record /\ up[p] /\ j \in issued
  BY <1>1, RunnerHasRecord
<1>3. rec \in Record /\ rec.status = "DONE"
  BY <1>2 DEF Record, Status
<1> HIDE DEF rec
<1>4. /\ Upserts(j, {rec}) \in SUBSET Statement
      /\ \A stmt \in Upserts(j, {rec}) : stmt.job = j
  BY <1>3, UpsertsAreStatements DEF Upserts
<1>5. issued' \subseteq Job /\ disk' \in [Pod -> SUBSET Job]
  BY <1>1 DEF IInv, TypeOK
<1> QED BY <1>1, <1>2, <1>3, <1>4, <1>5, JobStep

LEMMA FailInv ==
  ASSUME IInv, NEW p \in Pod, NEW j \in Job, Fail(p, j)
  PROVE  IInv'
<1> DEFINE rec == [jobs[p][j] EXCEPT !.status = "FAILED"]
<1>1. /\ runner[p][j] # "none"
      /\ Update(p, j, rec) /\ Send(p, Upserts(j, {rec}))
      /\ runner' = [runner EXCEPT ![p][j] = "none"]
      /\ UNCHANGED <<up, pool, boots, adrift, warned, stored, reports, disk, issued>>
  BY DEF Fail, pods, lost, db
<1>2. /\ jobs[p][j] \in Record /\ up[p] /\ j \in issued
  BY <1>1, RunnerHasRecord
<1>3. rec \in Record /\ rec.status = "FAILED"
  BY <1>2 DEF Record, Status
<1> HIDE DEF rec
<1>4. /\ Upserts(j, {rec}) \in SUBSET Statement
      /\ \A stmt \in Upserts(j, {rec}) : stmt.job = j
  BY <1>3, UpsertsAreStatements DEF Upserts
<1>5. issued' \subseteq Job /\ disk' \in [Pod -> SUBSET Job]
  BY <1>1 DEF IInv, TypeOK
<1> QED BY <1>1, <1>2, <1>3, <1>4, <1>5, JobStep

(* What a statement does to the tables.                                    *)
LEMMA EffectType ==
  ASSUME IInv, NEW stmt \in Statement, TakesEffect(stmt)
  PROVE  /\ stored' \in [Job -> Record \cup {Absent}] /\ reports' \in SUBSET Job
         /\ reports \subseteq reports'
         /\ stmt.data = Report => stmt.job \in reports'
         /\ \A i \in Job : stored'[i] = stored[i] \/ (i = stmt.job /\ stored'[i] = stmt.data)
<1>1. stmt.job \in Job /\ stmt.data \in Record \cup {Report}
  BY DEF Statement
<1>2. \/ stmt.data = Report /\ reports' = reports \cup {stmt.job} /\ stored' = stored
      \/ /\ stmt.data # Report /\ reports' = reports
         /\ stored' = [stored EXCEPT ![stmt.job] = stmt.data]
  BY DEF TakesEffect
<1> QED BY <1>1, <1>2 DEF IInv, TypeOK

LEMMA CommitInv ==
  ASSUME IInv, NEW p \in Pod, NEW stmt \in sent[p], Commit(p, stmt)
  PROVE  IInv'
<1>1. /\ Settle(p, stmt) /\ TakesEffect(stmt)
      /\ UNCHANGED <<up, pool, boots, jobs, runner, adrift, warned, disk, issued>>
  BY DEF Commit, pods, lost
<1>2. stmt \in Statement /\ stmt.job \in Job /\ stmt.job \in issued
  BY DEF IInv, TypeOK, Known, Statement
<1>3. /\ sent' \in [Pod -> SUBSET Statement]
      /\ \A q \in Pod : sent'[q] \in SUBSET sent[q]
  BY <1>1, SettleShrinks DEF IInv
<1>4. /\ stored' \in [Job -> Record \cup {Absent}] /\ reports' \in SUBSET Job
      /\ \A i \in Job : i # stmt.job => stored'[i] = stored[i]
  BY <1>1, <1>2, EffectType
<1>5. TypeOK'
  BY <1>1, <1>3, <1>4 DEF IInv, TypeOK
<1>6. Known'
  BY <1>1, <1>2, <1>3, <1>4 DEF IInv, Known
<1>7. Asleep'
  BY <1>1, <1>3 DEF IInv, Asleep
<1>8. RunningHasRunner'
  BY <1>1 DEF IInv, RunningHasRunner, Sees
<1> QED BY <1>5, <1>6, <1>7, <1>8 DEF IInv

LEMMA LandInv ==
  ASSUME IInv, NEW stmt \in adrift, Land(stmt)
  PROVE  IInv'
<1>1. /\ adrift' = adrift \ {stmt} /\ TakesEffect(stmt)
      /\ UNCHANGED <<up, pool, boots, jobs, runner, sent, warned, disk, issued>>
  BY DEF Land, pods
<1>2. stmt \in Statement /\ stmt.job \in Job /\ stmt.job \in issued
  BY DEF IInv, TypeOK, Known, Statement
<1>3. /\ stored' \in [Job -> Record \cup {Absent}] /\ reports' \in SUBSET Job
      /\ \A i \in Job : i # stmt.job => stored'[i] = stored[i]
  BY <1>1, <1>2, EffectType
<1>4. TypeOK'
  BY <1>1, <1>3 DEF IInv, TypeOK
<1>5. Known'
  BY <1>1, <1>2, <1>3 DEF IInv, Known
<1>6. Asleep' /\ RunningHasRunner'
  BY <1>1 DEF IInv, Asleep, RunningHasRunner, Sees
<1> QED BY <1>4, <1>5, <1>6 DEF IInv

LEMMA LoseInv ==
  ASSUME IInv, NEW p \in Pod, NEW stmt \in sent[p], Lose(p, stmt)
  PROVE  IInv'
<1>1. /\ Settle(p, stmt) /\ adrift' \in {adrift, adrift \cup {stmt}}
      /\ warned' = IF stmt.data = Report THEN warned \cup {stmt.job} ELSE warned
      /\ UNCHANGED <<up, pool, boots, jobs, runner, stored, reports, disk, issued>>
  BY DEF Lose, pods, db
<1>2. /\ sent' \in [Pod -> SUBSET Statement]
      /\ \A q \in Pod : sent'[q] \in SUBSET sent[q]
  BY <1>1, SettleShrinks DEF IInv
<1>3. stmt \in Statement /\ stmt.job \in Job /\ stmt.job \in issued
  BY DEF IInv, TypeOK, Known, Statement
<1>4. TypeOK'
  BY <1>1, <1>2, <1>3 DEF IInv, TypeOK
<1>5. Known'
  BY <1>1, <1>2, <1>3 DEF IInv, Known
<1>6. Asleep'
  BY <1>1, <1>2 DEF IInv, Asleep
<1>7. RunningHasRunner'
  BY <1>1 DEF IInv, RunningHasRunner, Sees
<1> QED BY <1>4, <1>5, <1>6, <1>7 DEF IInv

LEMMA BootInv ==
  ASSUME IInv, NEW p \in Pod, Boot(p)
  PROVE  IInv'
<1> DEFINE loaded == [j \in Job |-> Recovered(j)]
           failed == UNION {Upserts(j, {Recovered(j)}) : j \in Orphaned}
<1>1. /\ ~up[p] /\ boots < MaxBoots /\ boots' = boots + 1
      /\ up' = [up EXCEPT ![p] = TRUE]
      /\ \E reached \in BOOLEAN : pool' = [pool EXCEPT ![p] = reached]
      /\ UNCHANGED <<runner, adrift, warned, stored, reports, disk, issued>>
      /\ \/ jobs' = [jobs EXCEPT ![p] = loaded] /\ sent' = [sent EXCEPT ![p] = failed]
         \/ jobs' = jobs /\ sent' = sent
  BY DEF Boot, lost, db
<1>2. loaded \in [Job -> Record \cup {Absent}]
  BY RecoveredType DEF IInv
<1>3. /\ failed \in SUBSET Statement
      /\ \A stmt \in failed : stmt.job \in Orphaned
  <2>1. \A j \in Orphaned : j \in Job /\ Recovered(j) \in Record
    BY RecoveredType DEF IInv, Orphaned
  <2> QED BY <2>1 DEF Upserts, Statement
<1>4. \A j \in Job : loaded[j] # Absent => loaded[j].status # "RUNNING" /\ stored[j] # Absent
  BY RecoveredType DEF IInv
<1>5. \A j \in Orphaned : stored[j] # Absent
  BY DEF Orphaned
<1> HIDE DEF loaded, failed
<1>6. /\ \A q \in Pod : q # p => up'[q] = up[q] /\ jobs'[q] = jobs[q] /\ sent'[q] = sent[q]
      /\ up'[p]
      /\ \/ jobs'[p] = loaded /\ sent'[p] = failed
         \/ jobs'[p] = jobs[p] /\ sent'[p] = sent[p]
  BY <1>1 DEF IInv, TypeOK
<1>7. TypeOK'
  <2>1. up' \in [Pod -> BOOLEAN] /\ pool' \in [Pod -> BOOLEAN]
    BY <1>1 DEF IInv, TypeOK
  <2>2. boots' \in 0..MaxBoots
    BY <1>1, BootsAssumption DEF IInv, TypeOK
  <2>3. /\ jobs' \in [Pod -> [Job -> Record \cup {Absent}]]
        /\ sent' \in [Pod -> SUBSET Statement]
    BY <1>1, <1>2, <1>3 DEF IInv, TypeOK
  <2> QED BY <1>1, <2>1, <2>2, <2>3 DEF IInv, TypeOK
<1>8. Known'
  <2> SUFFICES ASSUME NEW j \in Job, j \notin issued'
               PROVE  /\ stored'[j] = Absent
                      /\ \A q \in Pod : jobs'[q][j] = Absent /\ \A stmt \in sent'[q] : stmt.job # j
                      /\ \A stmt \in adrift' : stmt.job # j
    BY DEF Known
  <2>1. /\ stored[j] = Absent
        /\ \A q \in Pod : jobs[q][j] = Absent /\ \A stmt \in sent[q] : stmt.job # j
        /\ \A stmt \in adrift : stmt.job # j
    BY <1>1 DEF IInv, Known
  <2>2. loaded[j] = Absent /\ \A stmt \in failed : stmt.job # j
    BY <1>3, <1>4, <1>5, <2>1
  <2> QED BY <1>1, <1>6, <2>1, <2>2
<1>9. Asleep'
  BY <1>1, <1>6 DEF IInv, Asleep
<1>10. RunningHasRunner'
  <2> SUFFICES ASSUME NEW q \in Pod, NEW j \in Job
               PROVE  (jobs'[q][j] # Absent /\ jobs'[q][j].status = "RUNNING")
                        <=> runner[q][j] # "none"
    BY <1>1 DEF RunningHasRunner, Sees
  <2>1. CASE jobs'[q] = jobs[q]
    BY <2>1 DEF IInv, RunningHasRunner, Sees
  <2>2. CASE q = p /\ jobs'[p] = loaded
    BY <1>1, <1>4, <2>2 DEF IInv, Asleep
  <2> QED BY <1>6, <2>1, <2>2
<1> QED BY <1>7, <1>8, <1>9, <1>10 DEF IInv

LEMMA CrashInv ==
  ASSUME IInv, NEW p \in Pod, Crash(p)
  PROVE  IInv'
<1>1. /\ up' = [up EXCEPT ![p] = FALSE] /\ pool' = [pool EXCEPT ![p] = FALSE]
      /\ jobs' = [jobs EXCEPT ![p] = NoJobs] /\ runner' = [runner EXCEPT ![p] = NoRunners]
      /\ sent' = [sent EXCEPT ![p] = {}] /\ disk' \in {disk, [disk EXCEPT ![p] = {}]}
      /\ adrift' \subseteq adrift \cup sent[p]
      /\ UNCHANGED <<warned, stored, reports, issued, boots>>
  BY DEF Crash, db
<1>2. /\ NoJobs \in [Job -> Record \cup {Absent}]
      /\ NoRunners \in [Job -> {"none", "tables", "saving"}]
      /\ \A j \in Job : NoJobs[j] = Absent /\ NoRunners[j] = "none"
  BY DEF NoJobs, NoRunners
<1>3. /\ \A q \in Pod : q # p => /\ up'[q] = up[q] /\ jobs'[q] = jobs[q]
                                 /\ runner'[q] = runner[q] /\ sent'[q] = sent[q]
      /\ jobs'[p] = NoJobs /\ runner'[p] = NoRunners /\ sent'[p] = {}
  BY <1>1 DEF IInv, TypeOK
<1>4. TypeOK'
  <2>1. sent[p] \in SUBSET Statement /\ adrift' \in SUBSET Statement
    BY <1>1 DEF IInv, TypeOK
  <2> QED BY <1>1, <1>2, <2>1 DEF IInv, TypeOK
<1>5. Known'
  BY <1>1, <1>2, <1>3 DEF IInv, Known
<1>6. Asleep'
  BY <1>1, <1>2, <1>3 DEF IInv, Asleep
<1>7. RunningHasRunner'
  BY <1>2, <1>3 DEF IInv, RunningHasRunner, Sees
<1> QED BY <1>4, <1>5, <1>6, <1>7 DEF IInv

LEMMA NextInv == IInv /\ [Next]_vars => IInv'
<1> SUFFICES ASSUME IInv, [Next]_vars PROVE IInv'
  OBVIOUS
<1>1. ASSUME NEW p \in Pod, Boot(p) PROVE IInv'
  BY <1>1, BootInv
<1>2. ASSUME NEW p \in Pod, Crash(p) PROVE IInv'
  BY <1>2, CrashInv
<1>3. ASSUME NEW p \in Pod, Database(p) PROVE IInv'
  BY <1>3, CommitInv, LoseInv DEF Database
<1>4. ASSUME NEW p \in Pod, NEW j \in Job, StartJob(p, j) PROVE IInv'
  BY <1>4, StartJobInv
<1>5. ASSUME NEW p \in Pod, NEW j \in Job, Run(p, j) PROVE IInv'
  BY <1>5, TableDoneInv, WriteReportsInv, CompleteInv, FailInv DEF Run
<1>6. ASSUME NEW stmt \in adrift, Land(stmt) PROVE IInv'
  BY <1>6, LandInv
<1>7. ASSUME UNCHANGED vars PROVE IInv'
  BY <1>7 DEF vars, IInv, TypeOK, Known, Asleep, RunningHasRunner, Sees
<1> QED BY <1>1, <1>2, <1>3, <1>4, <1>5, <1>6, <1>7 DEF Next

LEMMA Invariance == Safety => []IInv
<1> QED BY InitInv, NextInv, PTL DEF Safety

(* The registry is type correct, for all pods, jobs and bounds.            *)
THEOREM TypeCorrect == Safety => []TypeOK
<1>1. IInv => TypeOK
  BY DEF IInv
<1> QED BY <1>1, Invariance, PTL

(* No poll shows a RUNNING job that the answering pod is not running.      *)
THEOREM RunnersMatch == Safety => []RunningHasRunner
<1>1. IInv => RunningHasRunner
  BY DEF IInv
<1> QED BY <1>1, Invariance, PTL

-----------------------------------------------------------------------------
(* What a step may do to one answer of a living pod.                       *)

Advances(p, j) ==
  /\ Sees(p, j, Terminal) => jobs'[p][j] = jobs[p][j]
  /\ Sees(p, j, {"RUNNING"}) => jobs'[p][j].status # "PENDING"
                              /\ jobs'[p][j].done >= jobs[p][j].done

LEMMA SameAdvances ==
  ASSUME IInv, NEW p \in Pod, NEW j \in Job, jobs'[p][j] = jobs[p][j]
  PROVE  Advances(p, j)
<1>1. Sees(p, j, {"RUNNING"}) => jobs[p][j] \in Record /\ jobs[p][j].status = "RUNNING"
  BY DEF IInv, TypeOK, Sees
<1>2. jobs[p][j] \in Record => jobs[p][j].done \in Int
  BY TablesAssumption DEF Record
<1> QED BY <1>1, <1>2 DEF Advances

(* runJob changes the record of its own job, which is RUNNING.             *)
LEMMA RunAdvances ==
  ASSUME IInv, NEW p \in Pod, NEW j \in Job, Run(p, j), NEW q \in Pod, NEW i \in Job
  PROVE  Advances(q, i)
<1>1. runner[p][j] # "none"
  BY DEF Run, TableDone, WriteReports, Complete, Fail
<1>2. jobs[p][j] \in Record /\ jobs[p][j].status = "RUNNING"
  BY <1>1, RunnerHasRecord
<1>3. jobs[p][j].done \in Int
  BY <1>2, TablesAssumption DEF Record
<1>4. \/ jobs' = jobs
      \/ Update(p, j, [jobs[p][j] EXCEPT !.done = @ + 1])
      \/ Update(p, j, [jobs[p][j] EXCEPT !.status = "DONE"])
      \/ Update(p, j, [jobs[p][j] EXCEPT !.status = "FAILED"])
  BY DEF Run, TableDone, WriteReports, Complete, Fail
<1>5. CASE jobs' = jobs
  BY <1>5, SameAdvances
<1>6. CASE <<q, i>> # <<p, j>>
  <2>1. jobs'[q][i] = jobs[q][i]
    BY <1>4, <1>6 DEF Update, IInv, TypeOK
  <2> QED BY <2>1, SameAdvances
<1>7. CASE <<q, i>> = <<p, j>> /\ jobs' # jobs
  <2>1. ~Sees(p, j, Terminal)
    BY <1>2 DEF Sees, Terminal
  <2>2. \/ jobs'[p][j] = [jobs[p][j] EXCEPT !.done = @ + 1]
        \/ jobs'[p][j] = [jobs[p][j] EXCEPT !.status = "DONE"]
        \/ jobs'[p][j] = [jobs[p][j] EXCEPT !.status = "FAILED"]
    <3>1. ASSUME NEW rec, Update(p, j, rec) PROVE jobs'[p][j] = rec
      BY <3>1 DEF Update, IInv, TypeOK
    <3> QED BY <1>4, <1>7, <3>1
  <2>3. jobs'[p][j].status # "PENDING" /\ jobs'[p][j].done >= jobs[p][j].done
    BY <1>2, <1>3, <2>2 DEF Record
  <2> QED BY <1>7, <2>1, <2>3 DEF Advances
<1> QED BY <1>5, <1>6, <1>7

LEMMA StepAdvances ==
  ASSUME IInv, Next, NEW q \in Pod, NEW i \in Job,
         up[q], up'[q], jobs[q][i] # Absent
  PROVE  Advances(q, i)
<1>1. ASSUME NEW p \in Pod, Boot(p) PROVE Advances(q, i)
  <2>1. q # p /\ (jobs' = jobs \/ \E f : jobs' = [jobs EXCEPT ![p] = f])
    BY <1>1 DEF Boot
  <2>2. jobs'[q][i] = jobs[q][i]
    BY <2>1 DEF IInv, TypeOK
  <2> QED BY <2>2, SameAdvances
<1>2. ASSUME NEW p \in Pod, Crash(p) PROVE Advances(q, i)
  <2>1. up' = [up EXCEPT ![p] = FALSE] /\ jobs' = [jobs EXCEPT ![p] = NoJobs]
    BY <1>2 DEF Crash
  <2>2. q # p
    BY <2>1 DEF IInv, TypeOK
  <2>3. jobs'[q][i] = jobs[q][i]
    BY <2>1, <2>2 DEF IInv, TypeOK
  <2> QED BY <2>3, SameAdvances
<1>3. ASSUME NEW p \in Pod, Database(p) PROVE Advances(q, i)
  <2>1. jobs' = jobs
    BY <1>3 DEF Database, Commit, Lose
  <2> QED BY <2>1, SameAdvances
<1>4. ASSUME NEW p \in Pod, NEW j \in Job, StartJob(p, j) PROVE Advances(q, i)
  <2>1. j \notin issued /\ \E rec : Update(p, j, rec)
    BY <1>4 DEF StartJob
  <2>2. i # j
    BY <2>1 DEF IInv, Known
  <2>3. jobs'[q][i] = jobs[q][i]
    BY <2>1, <2>2 DEF Update, IInv, TypeOK
  <2> QED BY <2>3, SameAdvances
<1>5. ASSUME NEW p \in Pod, NEW j \in Job, Run(p, j) PROVE Advances(q, i)
  BY <1>5, RunAdvances
<1>6. ASSUME NEW stmt \in adrift, Land(stmt) PROVE Advances(q, i)
  BY <1>6, SameAdvances DEF Land
<1> QED BY <1>1, <1>2, <1>3, <1>4, <1>5, <1>6 DEF Next

(* The answers of a living pod never go back, and a finished job keeps its *)
(* outcome.                                                                *)
THEOREM PollsAdvance == Safety => PollOnlyAdvances
<1> DEFINE A == \A p \in Pod, j \in Job :
       up[p] /\ up'[p] /\ jobs[p][j] # Absent =>
         /\ Sees(p, j, Terminal) => jobs'[p][j] = jobs[p][j]
         /\ Sees(p, j, {"RUNNING"}) => jobs'[p][j].status # "PENDING"
                                     /\ jobs'[p][j].done >= jobs[p][j].done
<1>1. IInv /\ [Next]_vars => [A]_vars
  BY StepAdvances DEF Advances
<1> QED BY <1>1, Invariance, PTL DEF Safety, PollOnlyAdvances

-----------------------------------------------------------------------------
(* What a step may do to a settled job.                                    *)

LEMMA SettledStep ==
  ASSUME IInv, Next, NEW i \in Job, Settled(i)
  PROVE  Settled(i)' /\ stored'[i] = stored[i]
<1> SUFFICES /\ stored'[i] = stored[i]
             /\ \A q \in Pod : runner'[q][i] = "none" /\ \A stmt \in sent'[q] : stmt.job # i
             /\ \A stmt \in adrift' : stmt.job # i
  BY DEF Settled, Quiet
<1>1. /\ stored[i] # Absent /\ stored[i].status \in Terminal /\ i \in issued
      /\ \A q \in Pod : runner[q][i] = "none" /\ \A stmt \in sent[q] : stmt.job # i
      /\ \A stmt \in adrift : stmt.job # i
  BY DEF Settled, Quiet, IInv, Known
<1>2. ASSUME NEW p \in Pod, Boot(p)
      PROVE  /\ stored' = stored /\ runner' = runner /\ adrift' = adrift
             /\ \A q \in Pod : \A stmt \in sent'[q] : stmt.job # i
  <2>1. i \notin Orphaned
    BY <1>1 DEF Orphaned, Terminal
  <2>2. /\ stored' = stored /\ runner' = runner /\ adrift' = adrift
        /\ \/ sent' = [sent EXCEPT ![p] = UNION {Upserts(j, {Recovered(j)}) : j \in Orphaned}]
           \/ sent' = sent
    BY <1>2 DEF Boot, lost, db
  <2>3. \A stmt \in UNION {Upserts(j, {Recovered(j)}) : j \in Orphaned} : stmt.job # i
    BY <2>1 DEF Upserts
  <2> QED BY <1>1, <2>2, <2>3 DEF IInv, TypeOK
<1>3. ASSUME NEW p \in Pod, Crash(p)
      PROVE  /\ stored' = stored
             /\ \A q \in Pod : runner'[q][i] = "none" /\ \A stmt \in sent'[q] : stmt.job # i
             /\ \A stmt \in adrift' : stmt.job # i
  <2>1. /\ stored' = stored /\ sent' = [sent EXCEPT ![p] = {}]
        /\ adrift' \subseteq adrift \cup sent[p]
        /\ runner' = [runner EXCEPT ![p] = NoRunners] /\ NoRunners[i] = "none"
    BY <1>3 DEF Crash, db, NoRunners
  <2> QED BY <1>1, <2>1 DEF IInv, TypeOK
<1>4. ASSUME NEW p \in Pod, NEW stmt \in sent[p], Commit(p, stmt) \/ Lose(p, stmt)
      PROVE  /\ stored'[i] = stored[i] /\ runner' = runner
             /\ \A q \in Pod : \A s \in sent'[q] : s.job # i
             /\ \A s \in adrift' : s.job # i
  <2>1. stmt.job # i /\ Settle(p, stmt) /\ runner' = runner /\ adrift' \subseteq adrift \cup {stmt}
    BY <1>1, <1>4 DEF Commit, Lose, lost
  <2>2. stored' = stored \/ stored' = [stored EXCEPT ![stmt.job] = stmt.data]
    BY <1>4 DEF Commit, Lose, TakesEffect, db
  <2>3. stored'[i] = stored[i]
    BY <2>1, <2>2 DEF IInv, TypeOK
  <2> QED BY <1>1, <2>1, <2>3, SettleShrinks DEF IInv
<1>5. ASSUME NEW p \in Pod, NEW j \in Job, j # i, stored' = stored,
             NEW stmts, Send(p, stmts), \A stmt \in stmts : stmt.job = j,
             \A q \in Pod : runner'[q][i] = runner[q][i], adrift' = adrift
      PROVE  /\ stored'[i] = stored[i]
             /\ \A q \in Pod : runner'[q][i] = "none" /\ \A stmt \in sent'[q] : stmt.job # i
             /\ \A stmt \in adrift' : stmt.job # i
  <2>1. \A q \in Pod : sent'[q] \in SUBSET (sent[q] \cup stmts)
    BY <1>5 DEF Send, IInv, TypeOK
  <2> QED BY <1>1, <1>5, <2>1
<1>6. ASSUME NEW p \in Pod, NEW j \in Job, StartJob(p, j) \/ Run(p, j)
      PROVE  /\ j # i /\ stored' = stored /\ adrift' = adrift
             /\ \E data : Send(p, Upserts(j, data))
             /\ \A q \in Pod : runner'[q][i] = runner[q][i]
  <2>1. j # i
    <3>1. CASE StartJob(p, j)
      BY <1>1, <3>1 DEF StartJob
    <3>2. CASE Run(p, j)
      BY <1>1, <3>2 DEF Run, TableDone, WriteReports, Complete, Fail
    <3> QED BY <1>6, <3>1, <3>2
  <2>2. /\ stored' = stored /\ adrift' = adrift
        /\ \E data : Send(p, Upserts(j, data))
        /\ runner' = runner \/ \E r : runner' = [runner EXCEPT ![p][j] = r]
    <3>1. CASE StartJob(p, j)
      BY <3>1 DEF StartJob, lost, db
    <3>2. CASE TableDone(p, j)
      BY <3>2 DEF TableDone, lost, db
    <3>3. CASE WriteReports(p, j)
      BY <3>3 DEF WriteReports, lost, db
    <3>4. CASE Complete(p, j)
      BY <3>4 DEF Complete, lost, db
    <3>5. CASE Fail(p, j)
      BY <3>5 DEF Fail, lost, db
    <3> QED BY <1>6, <3>1, <3>2, <3>3, <3>4, <3>5 DEF Run
  <2>3. runner \in [Pod -> [Job -> {"none", "tables", "saving"}]]
    BY DEF IInv, TypeOK
  <2>4. \A q \in Pod : runner'[q][i] = runner[q][i]
    BY <2>1, <2>2, <2>3
  <2> QED BY <2>1, <2>2, <2>4
<1>7. ASSUME NEW p \in Pod, NEW j \in Job, StartJob(p, j) \/ Run(p, j)
      PROVE  /\ stored'[i] = stored[i]
             /\ \A q \in Pod : runner'[q][i] = "none" /\ \A stmt \in sent'[q] : stmt.job # i
             /\ \A stmt \in adrift' : stmt.job # i
  <2>1. PICK data : Send(p, Upserts(j, data))
    BY <1>6, <1>7
  <2>2. \A stmt \in Upserts(j, data) : stmt.job = j
    BY DEF Upserts
  <2> QED BY <1>5, <1>6, <1>7, <2>1, <2>2
<1>8. ASSUME NEW stmt \in adrift, Land(stmt)
      PROVE  stored'[i] = stored[i] /\ runner' = runner /\ sent' = sent /\ adrift' \subseteq adrift
  <2>1. stmt.job # i /\ runner' = runner /\ sent' = sent /\ adrift' \subseteq adrift
    BY <1>1, <1>8 DEF Land
  <2>2. stored' = stored \/ stored' = [stored EXCEPT ![stmt.job] = stmt.data]
    BY <1>8 DEF Land, TakesEffect
  <2> QED BY <2>1, <2>2 DEF IInv, TypeOK
<1> QED BY <1>1, <1>2, <1>3, <1>4, <1>7, <1>8 DEF Next, Database

(* Once a finished job is stored and nothing about it is under way, it     *)
(* stays as it is for ever.                                                *)
THEOREM SettledStays == Safety => SettledIsDurable
<1> DEFINE A == \A j \in Job : Settled(j) => Settled(j)' /\ stored'[j] = stored[j]
<1>1. IInv /\ [Next]_vars => [A]_vars
  BY SettledStep
<1> QED BY <1>1, Invariance, PTL DEF Safety, SettledIsDurable

-----------------------------------------------------------------------------
(* Where a DONE record is, the report is too, or the log has a warning.    *)

Kept == reports \cup warned

Done(rec) == rec \in Record /\ rec.status = "DONE"

ReportOf(j) == [job |-> j, data |-> Report]

(* A DONE record that is stored or under way is of a report that was saved *)
(* or warned of, since complete comes after saveReport.                    *)
StoredServable ==
  /\ \A j \in Job : Done(stored[j]) => j \in Kept
  /\ \A p \in Pod : \A stmt \in sent[p] : Done(stmt.data) => stmt.job \in Kept
  /\ \A stmt \in adrift : Done(stmt.data) => stmt.job \in Kept

(* The coroutine that saves a report has it on disk and, with a pool, its  *)
(* statement under way or over.                                            *)
SavingServable ==
  \A p \in Pod, j \in Job : runner[p][j] = "saving" =>
    /\ j \in disk[p]
    /\ pool[p] => ReportOf(j) \in sent[p] \/ j \in Kept

(* The same of a record in a Map, which may be of a pod without a pool.    *)
MapServable ==
  \A p \in Pod, j \in Job : Done(jobs[p][j]) => j \in disk[p] \/ j \in Kept

ServeInv == IInv /\ StoredServable /\ SavingServable /\ MapServable

LEMMA NotDone == ~Done(Absent) /\ ~Done(Report)
BY AbsentAssumption DEF Done

LEMMA InitServe == Init => ServeInv
BY InitInv, NotDone
   DEF Init, NoJobs, NoRunners, ServeInv, StoredServable, SavingServable, MapServable

(* A step of runJob, or startJob: the statements it sends are of its job.  *)
LEMMA JobServe ==
  ASSUME ServeInv, IInv', NEW p \in Pod, NEW j \in Job,
         NEW rec \in Record, Update(p, j, rec), Done(rec) => j \in disk[p],
         NEW data \in SUBSET (Record \cup {Report}), Send(p, Upserts(j, data)),
         NEW r \in {"none", "tables", "saving"}, runner' = [runner EXCEPT ![p][j] = r],
         r = "saving" => j \in disk'[p] /\ Report \in data,
         \A q \in Pod : disk[q] \subseteq disk'[q],
         pool[p] => \A d \in data : Done(d) => j \in Kept,
         UNCHANGED <<pool, adrift, warned, stored, reports>>
  PROVE  ServeInv'
<1>1. /\ jobs'[p][j] = rec
      /\ \A q \in Pod, i \in Job : <<q, i>> # <<p, j>> => jobs'[q][i] = jobs[q][i]
  BY UpdateOne DEF ServeInv, IInv
<1>2. /\ runner'[p][j] = r
      /\ \A q \in Pod, i \in Job : <<q, i>> # <<p, j>> => runner'[q][i] = runner[q][i]
  BY DEF ServeInv, IInv, TypeOK
<1>3. /\ \A q \in Pod : q # p => sent'[q] = sent[q]
      /\ pool[p] => sent'[p] = sent[p] \cup Upserts(j, data)
      /\ ~pool[p] => sent'[p] = sent[p]
  BY DEF Send, ServeInv, IInv, TypeOK
<1>4. \A stmt \in Upserts(j, data) : stmt.job = j /\ stmt.data \in data
  BY DEF Upserts
<1>5. StoredServable'
  <2>1. ASSUME NEW q \in Pod, NEW stmt \in sent'[q], Done(stmt.data)
        PROVE  stmt.job \in Kept
    BY <1>3, <1>4, <2>1 DEF ServeInv, StoredServable
  <2> QED BY <2>1 DEF ServeInv, StoredServable, Done, Kept
<1>6. SavingServable'
  <2> SUFFICES ASSUME NEW q \in Pod, NEW i \in Job, runner'[q][i] = "saving"
               PROVE  i \in disk'[q] /\ (pool[q] => ReportOf(i) \in sent'[q] \/ i \in Kept)
    BY DEF SavingServable, ReportOf, Kept
  <2>1. CASE <<q, i>> = <<p, j>>
    BY <1>2, <1>3, <2>1 DEF Upserts, ReportOf
  <2>2. CASE <<q, i>> # <<p, j>>
    <3>1. i \in disk[q] /\ (pool[q] => ReportOf(i) \in sent[q] \/ i \in Kept)
      BY <1>2, <2>2 DEF ServeInv, SavingServable
    <3> QED BY <1>3, <3>1
  <2> QED BY <2>1, <2>2
<1>7. MapServable'
  <2> SUFFICES ASSUME NEW q \in Pod, NEW i \in Job, Done(jobs'[q][i])
               PROVE  i \in disk'[q] \/ i \in Kept
    BY DEF MapServable, Done, Kept
  <2>1. CASE <<q, i>> = <<p, j>>
    BY <1>1, <2>1
  <2>2. CASE <<q, i>> # <<p, j>>
    BY <1>1, <2>2 DEF ServeInv, MapServable
  <2> QED BY <2>1, <2>2
<1> QED BY <1>5, <1>6, <1>7 DEF ServeInv

LEMMA StartJobServe ==
  ASSUME ServeInv, IInv', NEW p \in Pod, NEW j \in Job, StartJob(p, j)
  PROVE  ServeInv'
<1> DEFINE pending == [status |-> "PENDING", done |-> 0]
           running == [pending EXCEPT !.status = "RUNNING"]
<1>1. /\ pending \in Record /\ running \in Record
      /\ ~Done(pending) /\ ~Done(running)
  BY TablesAssumption DEF Record, Status, Done
<1>2. /\ Update(p, j, running) /\ Send(p, Upserts(j, {pending, running}))
      /\ runner' = [runner EXCEPT ![p][j] = "tables"]
      /\ UNCHANGED <<pool, adrift, warned, stored, reports, disk>>
  BY DEF StartJob, pods, lost, db
<1> HIDE DEF pending, running
<1>3. {pending, running} \in SUBSET (Record \cup {Report})
  BY <1>1
<1>4. pool[p] => \A d \in {pending, running} : Done(d) => j \in Kept
  BY <1>1
<1> QED BY <1>1, <1>2, <1>3, <1>4, JobServe

LEMMA RunServe ==
  ASSUME ServeInv, IInv', NEW p \in Pod, NEW j \in Job, Run(p, j)
  PROVE  ServeInv'
<1>1. runner[p][j] # "none"
  BY DEF Run, TableDone, WriteReports, Complete, Fail
<1>2. jobs[p][j] \in Record /\ jobs[p][j].status = "RUNNING" /\ ~Done(jobs[p][j])
  BY <1>1, RunnerHasRecord DEF ServeInv, Done
<1>3. runner \in [Pod -> [Job -> {"none", "tables", "saving"}]] /\ disk \in [Pod -> SUBSET Job]
  BY DEF ServeInv, IInv, TypeOK
<1>4. CASE TableDone(p, j)
  <2> DEFINE rec == [jobs[p][j] EXCEPT !.done = @ + 1]
  <2>1. /\ runner[p][j] = "tables" /\ jobs[p][j].done < Tables
        /\ Update(p, j, rec) /\ Send(p, Upserts(j, {rec}))
        /\ UNCHANGED <<pool, runner, adrift, warned, stored, reports, disk>>
    BY <1>4 DEF TableDone, pods, lost, db
  <2>2. rec \in Record /\ ~Done(rec)
    BY <1>2, <2>1, TablesAssumption DEF Record, Status, Done
  <2> HIDE DEF rec
  <2>3. runner' = [runner EXCEPT ![p][j] = "tables"]
    BY <1>3, <2>1
  <2>4. {rec} \in SUBSET (Record \cup {Report}) /\ \A d \in {rec} : ~Done(d)
    BY <2>2
  <2>5. \A q \in Pod : disk[q] \subseteq disk'[q]
    BY <2>1
  <2>6. pool[p] => \A d \in {rec} : Done(d) => j \in Kept
    BY <2>4
  <2>7. UNCHANGED <<pool, adrift, warned, stored, reports>>
    BY <2>1
  <2>8. "tables" = "saving" => j \in disk'[p] /\ Report \in {rec}
    OBVIOUS
  <2>9. Update(p, j, rec) /\ Send(p, Upserts(j, {rec})) /\ (Done(rec) => j \in disk[p])
    BY <2>1, <2>2
  <2> QED BY <2>2, <2>3, <2>4, <2>5, <2>6, <2>7, <2>8, <2>9, JobServe
<1>5. CASE WriteReports(p, j)
  <2>1. /\ disk' = [disk EXCEPT ![p] = @ \cup {j}]
        /\ Send(p, Upserts(j, {Report}))
        /\ runner' = [runner EXCEPT ![p][j] = "saving"]
        /\ UNCHANGED <<pool, jobs, adrift, warned, stored, reports>>
    BY <1>5 DEF WriteReports, pods, lost, db
  <2>2. Update(p, j, jobs[p][j])
    BY <2>1 DEF ServeInv, IInv, TypeOK, Update
  <2>3. j \in disk'[p] /\ \A q \in Pod : disk[q] \subseteq disk'[q]
    BY <1>3, <2>1
  <2>4. {Report} \in SUBSET (Record \cup {Report}) /\ \A d \in {Report} : ~Done(d)
    BY NotDone
  <2>5. pool[p] => \A d \in {Report} : Done(d) => j \in Kept
    BY <2>4
  <2>6. UNCHANGED <<pool, adrift, warned, stored, reports>> /\ Report \in {Report}
    BY <2>1
  <2> QED BY <1>2, <2>1, <2>2, <2>3, <2>4, <2>5, <2>6, JobServe
<1>6. CASE Complete(p, j)
  <2> DEFINE rec == [jobs[p][j] EXCEPT !.status = "DONE"]
  <2>1. /\ runner[p][j] = "saving" /\ ReportOf(j) \notin sent[p]
        /\ Update(p, j, rec) /\ Send(p, Upserts(j, {rec}))
        /\ runner' = [runner EXCEPT ![p][j] = "none"]
        /\ UNCHANGED <<pool, adrift, warned, stored, reports, disk>>
    BY <1>6 DEF Complete, Saved, ReportOf, pods, lost, db
  <2>2. rec \in Record
    BY <1>2 DEF Record, Status
  <2> HIDE DEF rec
  <2>3. j \in disk[p] /\ (pool[p] => j \in Kept)
    BY <2>1 DEF ServeInv, SavingServable
  <2>4. {rec} \in SUBSET (Record \cup {Report})
    BY <2>2
  <2>5. \A q \in Pod : disk[q] \subseteq disk'[q]
    BY <2>1
  <2>6. pool[p] => \A d \in {rec} : Done(d) => j \in Kept
    BY <2>3
  <2>7. UNCHANGED <<pool, adrift, warned, stored, reports>>
    BY <2>1
  <2>8. "none" = "saving" => j \in disk'[p] /\ Report \in {rec}
    OBVIOUS
  <2>9. /\ Update(p, j, rec) /\ Send(p, Upserts(j, {rec})) /\ (Done(rec) => j \in disk[p])
        /\ runner' = [runner EXCEPT ![p][j] = "none"]
    BY <2>1, <2>3
  <2> QED BY <2>2, <2>4, <2>5, <2>6, <2>7, <2>8, <2>9, JobServe
<1>7. CASE Fail(p, j)
  <2> DEFINE rec == [jobs[p][j] EXCEPT !.status = "FAILED"]
  <2>1. /\ Update(p, j, rec) /\ Send(p, Upserts(j, {rec}))
        /\ runner' = [runner EXCEPT ![p][j] = "none"]
        /\ UNCHANGED <<pool, adrift, warned, stored, reports, disk>>
    BY <1>7 DEF Fail, pods, lost, db
  <2>2. rec \in Record /\ ~Done(rec)
    BY <1>2 DEF Record, Status, Done
  <2> HIDE DEF rec
  <2>3. {rec} \in SUBSET (Record \cup {Report}) /\ \A d \in {rec} : ~Done(d)
    BY <2>2
  <2>4. \A q \in Pod : disk[q] \subseteq disk'[q]
    BY <2>1
  <2>5. pool[p] => \A d \in {rec} : Done(d) => j \in Kept
    BY <2>3
  <2>6. UNCHANGED <<pool, adrift, warned, stored, reports>>
    BY <2>1
  <2>7. "none" = "saving" => j \in disk'[p] /\ Report \in {rec}
    OBVIOUS
  <2>8. /\ Update(p, j, rec) /\ Send(p, Upserts(j, {rec})) /\ (Done(rec) => j \in disk[p])
        /\ runner' = [runner EXCEPT ![p][j] = "none"]
    BY <2>1, <2>2
  <2> QED BY <2>2, <2>3, <2>4, <2>5, <2>6, <2>7, <2>8, JobServe
<1> QED BY <1>4, <1>5, <1>6, <1>7 DEF Run

(* A statement takes effect: a report that is saved is kept.               *)
LEMMA EffectServe ==
  ASSUME ServeInv, NEW stmt \in Statement, TakesEffect(stmt),
         Done(stmt.data) => stmt.job \in Kept, warned' = warned
  PROVE  /\ Kept \subseteq Kept'
         /\ stmt.data = Report => stmt.job \in Kept'
         /\ \A j \in Job : Done(stored'[j]) => j \in Kept'
<1>1. /\ reports \subseteq reports'
      /\ stmt.data = Report => stmt.job \in reports'
      /\ \A i \in Job : stored'[i] = stored[i] \/ (i = stmt.job /\ stored'[i] = stmt.data)
  BY EffectType DEF ServeInv
<1>2. Kept \subseteq Kept' /\ reports' \subseteq Kept'
  BY <1>1 DEF Kept
<1>3. \A j \in Job : Done(stored[j]) => j \in Kept
  BY DEF ServeInv, StoredServable
<1> QED BY <1>1, <1>2, <1>3

LEMMA CommitServe ==
  ASSUME ServeInv, IInv', NEW p \in Pod, NEW stmt \in sent[p], Commit(p, stmt)
  PROVE  ServeInv'
<1>1. /\ Settle(p, stmt) /\ TakesEffect(stmt)
      /\ UNCHANGED <<pool, jobs, runner, adrift, warned, disk>>
  BY DEF Commit, pods, lost
<1>2. /\ \A q \in Pod : sent'[q] \in SUBSET sent[q]
      /\ \A q \in Pod : \A s : s \in sent[q] => s \in sent'[q] \/ s = stmt
  BY <1>1 DEF Settle, ServeInv, IInv, TypeOK
<1>3. stmt \in Statement /\ (Done(stmt.data) => stmt.job \in Kept)
  BY DEF ServeInv, IInv, TypeOK, StoredServable
<1>4. /\ Kept \subseteq Kept'
      /\ stmt.data = Report => stmt.job \in Kept'
      /\ \A j \in Job : Done(stored'[j]) => j \in Kept'
  BY <1>1, <1>3, EffectServe
<1>5. StoredServable'
  <2>1. \A q \in Pod : \A s \in sent'[q] : Done(s.data) => s.job \in Kept'
    BY <1>2, <1>4 DEF ServeInv, StoredServable
  <2>2. \A s \in adrift' : Done(s.data) => s.job \in Kept'
    BY <1>1, <1>4 DEF ServeInv, StoredServable
  <2> QED BY <1>4, <2>1, <2>2 DEF StoredServable, Done
<1>6. SavingServable'
  <2> SUFFICES ASSUME NEW q \in Pod, NEW i \in Job, runner'[q][i] = "saving"
               PROVE  i \in disk'[q] /\ (pool'[q] => ReportOf(i) \in sent'[q] \/ i \in Kept')
    BY DEF SavingServable, ReportOf
  <2>1. i \in disk[q] /\ (pool[q] => ReportOf(i) \in sent[q] \/ i \in Kept)
    BY <1>1 DEF ServeInv, SavingServable
  <2>2. ReportOf(i) = stmt => i \in Kept'
    BY <1>4 DEF ReportOf
  <2>3. disk' = disk /\ pool' = pool
    BY <1>1
  <2>4. ReportOf(i) \in sent[q] => ReportOf(i) \in sent'[q] \/ ReportOf(i) = stmt
    BY <1>2
  <2> QED BY <1>4, <2>1, <2>2, <2>3, <2>4
<1>7. MapServable'
  BY <1>1, <1>4 DEF ServeInv, MapServable, Done
<1> QED BY <1>5, <1>6, <1>7 DEF ServeInv

(* A statement that nobody waits for any more takes effect.                *)
LEMMA LandServe ==
  ASSUME ServeInv, IInv', NEW stmt \in adrift, Land(stmt)
  PROVE  ServeInv'
<1>1. /\ adrift' \subseteq adrift /\ TakesEffect(stmt)
      /\ UNCHANGED <<pool, jobs, runner, sent, warned, disk>>
  BY DEF Land, pods
<1>2. stmt \in Statement /\ (Done(stmt.data) => stmt.job \in Kept)
  BY DEF ServeInv, IInv, TypeOK, StoredServable
<1>3. Kept \subseteq Kept' /\ \A j \in Job : Done(stored'[j]) => j \in Kept'
  BY <1>1, <1>2, EffectServe
<1>4. StoredServable'
  <2>1. \A q \in Pod : \A s \in sent'[q] : Done(s.data) => s.job \in Kept'
    BY <1>1, <1>3 DEF ServeInv, StoredServable
  <2>2. \A s \in adrift' : Done(s.data) => s.job \in Kept'
    BY <1>1, <1>3 DEF ServeInv, StoredServable
  <2> QED BY <1>3, <2>1, <2>2 DEF StoredServable, Done
<1>5. SavingServable'
  BY <1>1, <1>3 DEF ServeInv, SavingServable, ReportOf
<1>6. MapServable'
  BY <1>1, <1>3 DEF ServeInv, MapServable, Done
<1> QED BY <1>4, <1>5, <1>6 DEF ServeInv

(* A statement fails: a report that is lost is warned of.                  *)
LEMMA LoseServe ==
  ASSUME ServeInv, IInv', NEW p \in Pod, NEW stmt \in sent[p], Lose(p, stmt)
  PROVE  ServeInv'
<1>1. /\ Settle(p, stmt) /\ adrift' \subseteq adrift \cup {stmt}
      /\ warned' = IF stmt.data = Report THEN warned \cup {stmt.job} ELSE warned
      /\ UNCHANGED <<pool, jobs, runner, stored, reports, disk>>
  BY DEF Lose, pods, db
<1>2. /\ \A q \in Pod : sent'[q] \in SUBSET sent[q]
      /\ \A q \in Pod : \A s : s \in sent[q] => s \in sent'[q] \/ s = stmt
  BY <1>1 DEF Settle, ServeInv, IInv, TypeOK
<1>3. Kept \subseteq Kept' /\ (stmt.data = Report => stmt.job \in Kept')
  BY <1>1 DEF Kept
<1>4. StoredServable'
  <2>1. \A q \in Pod : \A s \in sent'[q] : Done(s.data) => s.job \in Kept'
    BY <1>2, <1>3 DEF ServeInv, StoredServable
  <2>2. \A s \in adrift' : Done(s.data) => s.job \in Kept'
    BY <1>1, <1>3 DEF ServeInv, StoredServable
  <2>3. \A j \in Job : Done(stored'[j]) => j \in Kept'
    BY <1>1, <1>3 DEF ServeInv, StoredServable
  <2> QED BY <2>1, <2>2, <2>3 DEF StoredServable, Done
<1>5. SavingServable'
  <2> SUFFICES ASSUME NEW q \in Pod, NEW i \in Job, runner'[q][i] = "saving"
               PROVE  i \in disk'[q] /\ (pool'[q] => ReportOf(i) \in sent'[q] \/ i \in Kept')
    BY DEF SavingServable, ReportOf
  <2>1. i \in disk[q] /\ (pool[q] => ReportOf(i) \in sent[q] \/ i \in Kept)
    BY <1>1 DEF ServeInv, SavingServable
  <2>2. ReportOf(i) = stmt => i \in Kept'
    BY <1>3 DEF ReportOf
  <2>3. ReportOf(i) \in sent[q] => ReportOf(i) \in sent'[q] \/ ReportOf(i) = stmt
    BY <1>2
  <2> QED BY <1>1, <1>3, <2>1, <2>2, <2>3
<1>6. MapServable'
  BY <1>1, <1>3 DEF ServeInv, MapServable, Done
<1> QED BY <1>4, <1>5, <1>6 DEF ServeInv

(* A pod that boots reads back what is stored, or nothing.                 *)
LEMMA BootServe ==
  ASSUME ServeInv, IInv', NEW p \in Pod, Boot(p)
  PROVE  ServeInv'
<1> DEFINE loaded == [j \in Job |-> Recovered(j)]
           failed == UNION {Upserts(j, {Recovered(j)}) : j \in Orphaned}
<1>1. /\ ~up[p] /\ UNCHANGED <<runner, adrift, warned, stored, reports, disk>>
      /\ \E reached \in BOOLEAN : pool' = [pool EXCEPT ![p] = reached]
      /\ \/ jobs' = [jobs EXCEPT ![p] = loaded] /\ sent' = [sent EXCEPT ![p] = failed]
         \/ jobs' = jobs /\ sent' = sent
  BY DEF Boot, lost, db
<1>2. \A j \in Job : Done(loaded[j]) => j \in Kept
  <2> SUFFICES ASSUME NEW j \in Job, Done(Recovered(j)) PROVE j \in Kept
    OBVIOUS
  <2>1. j \notin Orphaned
    <3> SUFFICES ASSUME j \in Orphaned PROVE FALSE
      OBVIOUS
    <3>1. stored[j] \in Record
      BY DEF ServeInv, IInv, TypeOK, Orphaned
    <3>2. Recovered(j).status = "FAILED"
      BY <3>1 DEF Recovered, Record
    <3> QED BY <3>2 DEF Done
  <2> QED BY <2>1 DEF Recovered, ServeInv, StoredServable
<1>3. \A stmt \in failed : ~Done(stmt.data)
  <2>1. ASSUME NEW j \in Orphaned PROVE ~Done(Recovered(j))
    <3>1. stored[j] \in Record
      BY DEF ServeInv, IInv, TypeOK, Orphaned
    <3> QED BY <3>1 DEF Recovered, Record, Done
  <2> QED BY <2>1 DEF Upserts
<1> HIDE DEF loaded, failed
<1>4. /\ \A q \in Pod : q # p => pool'[q] = pool[q] /\ jobs'[q] = jobs[q] /\ sent'[q] = sent[q]
      /\ \/ jobs'[p] = loaded /\ sent'[p] = failed
         \/ jobs'[p] = jobs[p] /\ sent'[p] = sent[p]
  BY <1>1 DEF ServeInv, IInv, TypeOK
<1>5. StoredServable'
  BY <1>1, <1>3, <1>4 DEF ServeInv, StoredServable, Done, Kept
<1>6. SavingServable'
  <2>1. \A j \in Job : runner[p][j] = "none"
    BY <1>1 DEF ServeInv, IInv, Asleep
  <2> QED BY <1>1, <1>4, <2>1 DEF ServeInv, SavingServable, ReportOf, Kept
<1>7. MapServable'
  BY <1>1, <1>2, <1>4 DEF ServeInv, MapServable, Done, Kept
<1> QED BY <1>5, <1>6, <1>7 DEF ServeInv

(* A pod that dies may take its disk with it, and takes its Map.           *)
LEMMA CrashServe ==
  ASSUME ServeInv, IInv', NEW p \in Pod, Crash(p)
  PROVE  ServeInv'
<1>1. /\ pool' = [pool EXCEPT ![p] = FALSE]
      /\ jobs' = [jobs EXCEPT ![p] = NoJobs] /\ runner' = [runner EXCEPT ![p] = NoRunners]
      /\ sent' = [sent EXCEPT ![p] = {}] /\ disk' \in {disk, [disk EXCEPT ![p] = {}]}
      /\ adrift' \subseteq adrift \cup sent[p]
      /\ UNCHANGED <<warned, stored, reports>>
  BY DEF Crash, db
<1>2. /\ \A q \in Pod : q # p => /\ pool'[q] = pool[q] /\ jobs'[q] = jobs[q]
                                 /\ runner'[q] = runner[q] /\ sent'[q] = sent[q]
                                 /\ disk'[q] = disk[q]
      /\ jobs'[p] = NoJobs /\ runner'[p] = NoRunners /\ sent'[p] = {}
  BY <1>1 DEF ServeInv, IInv, TypeOK
<1>3. \A j \in Job : ~Done(NoJobs[j]) /\ NoRunners[j] # "saving"
  BY NotDone DEF NoJobs, NoRunners
<1>4. StoredServable'
  <2>1. \A q \in Pod : \A s \in sent'[q] : s \in sent[q]
    BY <1>2
  <2>2. \A s \in adrift' : Done(s.data) => s.job \in Kept
    BY <1>1 DEF ServeInv, StoredServable
  <2> QED BY <1>1, <2>1, <2>2 DEF ServeInv, StoredServable, Done, Kept
<1>5. SavingServable'
  BY <1>1, <1>2, <1>3 DEF ServeInv, SavingServable, ReportOf, Kept
<1>6. MapServable'
  BY <1>1, <1>2, <1>3 DEF ServeInv, MapServable, Done, Kept
<1> QED BY <1>4, <1>5, <1>6 DEF ServeInv

LEMMA NextServe == ServeInv /\ [Next]_vars => ServeInv'
<1> SUFFICES ASSUME ServeInv, [Next]_vars PROVE ServeInv'
  OBVIOUS
<1>1. IInv'
  BY NextInv DEF ServeInv
<1>2. ASSUME NEW p \in Pod, Database(p) PROVE ServeInv'
  BY <1>1, <1>2, CommitServe, LoseServe DEF Database
<1>3. ASSUME NEW stmt \in adrift, Land(stmt) PROVE ServeInv'
  BY <1>1, <1>3, LandServe
<1>4. ASSUME UNCHANGED vars PROVE ServeInv'
  BY <1>1, <1>4 DEF vars, ServeInv, StoredServable, SavingServable, MapServable, Done, ReportOf, Kept
<1> QED BY <1>1, <1>2, <1>3, <1>4, BootServe, CrashServe, StartJobServe, RunServe DEF Next

(* The report of a job that any poll shows as DONE is on that pod's disk   *)
(* or in PostgreSQL, or the log says that it could not be saved: for all   *)
(* pods and jobs, whichever pods die and whichever statements are late,    *)
(* reordered or lost.                                                      *)
THEOREM DoneIsServable == Safety => []DoneServable
<1>1. ServeInv => DoneServable
  <2> SUFFICES ASSUME ServeInv, NEW p \in Pod, NEW j \in Job, Sees(p, j, {"DONE"})
               PROVE  j \in disk[p] \cup reports \cup warned
    BY DEF DoneServable
  <2>1. jobs[p][j] \in Record
    BY DEF Sees, ServeInv, IInv, TypeOK
  <2> QED BY <2>1 DEF Sees, Done, Kept, ServeInv, MapServable
<1>2. ServeInv /\ [Next]_vars => ServeInv'
  BY NextServe
<1> QED BY <1>1, <1>2, InitServe, PTL DEF Safety
=============================================================================
