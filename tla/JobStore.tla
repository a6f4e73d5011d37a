------------------------------ MODULE JobStore ------------------------------
(***************************************************************************)
(* The job registry and its persistence (job.service.ts, the job and       *)
(* report parts of pg-cache.service.ts), the skeleton of runJob that       *)
(* drives it (validation.service.ts) and the pods it runs in.              *)
(*                                                                         *)
(* A pod answers every poll from its in-memory Map and copies each change  *)
(* to PostgreSQL with a statement nobody waits for.  The statements of a   *)
(* pod run on several pooled connections, so they take effect in any       *)
(* order, also after their pod died, and an error is only logged.  A pod   *)
(* that boots reads the table back.  During a rolling update the old and   *)
(* the new pod are both alive.                                             *)
(***************************************************************************)
EXTENDS Integers, FiniteSets

CONSTANTS
  Pod,        \* processes that may be alive at the same time
  Job,        \* job ids
  Tables,     \* totalTables of every job
  MaxBoots,   \* bound on the pod starts of one behaviour
  Losses,     \* may a statement fail (its error is swallowed)?
  Absent,     \* no record
  Report      \* the report files of a job, as one statement

ASSUME TablesAssumption == Tables \in Nat
ASSUME BootsAssumption  == MaxBoots \in Nat
ASSUME LossesAssumption == Losses \in BOOLEAN

Status   == {"PENDING", "RUNNING", "DONE", "FAILED"}
Terminal == {"DONE", "FAILED"}
Record   == [status : Status, done : 0..Tables]

ASSUME AbsentAssumption == Absent \notin Record /\ Report \notin Record

VARIABLES
  up,       \* pod -> is the process alive and serving?
  pool,     \* pod -> did it reach PostgreSQL at start-up? (this.pool # null)
  jobs,     \* pod -> job -> record in the Map, or Absent
  runner,   \* pod -> job -> "none", "tables" or "saving": its runJob coroutine
  sent,     \* pod -> statements issued and not settled: [job, data]
  adrift,   \* statements nobody hears of any more and PostgreSQL may still run
  warned,   \* jobs whose reports could not be saved, according to the log
  stored,   \* job -> record in the jobs table, or Absent
  disk,     \* pod -> jobs whose report files are on the pod's disk
  reports,  \* jobs whose report files are in the reports table
  issued,   \* job ids handed out
  boots     \* pod starts so far

vars == <<up, pool, jobs, runner, sent, adrift, warned, stored, disk, reports, issued, boots>>
db   == <<stored, reports>>
lost == <<adrift, warned>>
pods == <<up, pool, boots>>

NoJobs    == [j \in Job |-> Absent]
NoRunners == [j \in Job |-> "none"]

Init == /\ up = [p \in Pod |-> FALSE]
        /\ pool = [p \in Pod |-> FALSE]
        /\ jobs = [p \in Pod |-> NoJobs]
        /\ runner = [p \in Pod |-> NoRunners]
        /\ sent = [p \in Pod |-> {}]
        /\ adrift = {} /\ warned = {}
        /\ stored = NoJobs
        /\ disk = [p \in Pod |-> {}]
        /\ reports = {}
        /\ issued = {}
        /\ boots = 0

-----------------------------------------------------------------------------
(* Persistence.                                                            *)

Upserts(j, recs) == {[job |-> j, data |-> r] : r \in recs}

(* persist and saveReport: nothing at all without a connection pool.       *)
Send(p, stmts) == sent' = IF pool[p] THEN [sent EXCEPT ![p] = @ \cup stmts] ELSE sent

Settle(p, stmt) == sent' = [sent EXCEPT ![p] = @ \ {stmt}]

(* A statement takes effect, whichever of the pool's connections it is on: *)
(* the last one to do so wins.                                             *)
TakesEffect(stmt) ==
  IF stmt.data = Report
  THEN reports' = reports \cup {stmt.job} /\ UNCHANGED stored
  ELSE stored' = [stored EXCEPT ![stmt.job] = stmt.data] /\ UNCHANGED reports

Commit(p, stmt) ==
  /\ Settle(p, stmt)
  /\ TakesEffect(stmt)
  /\ UNCHANGED <<pods, jobs, runner, lost, disk, issued>>

(* A statement fails for its pod, for instance with its connection, and    *)
(* may take effect all the same.  upsertJob and saveReport swallow the     *)
(* error and log a warning.                                                *)
Lose(p, stmt) ==
  /\ Losses
  /\ Settle(p, stmt)
  /\ adrift' \in {adrift, adrift \cup {stmt}}
  /\ warned' = IF stmt.data = Report THEN warned \cup {stmt.job} ELSE warned
  /\ UNCHANGED <<pods, jobs, runner, db, disk, issued>>

(* PostgreSQL gets to a statement whose issuer no longer waits for it.     *)
Land(stmt) ==
  /\ adrift' = adrift \ {stmt}
  /\ TakesEffect(stmt)
  /\ UNCHANGED <<pods, jobs, runner, sent, warned, disk, issued>>

-----------------------------------------------------------------------------
(* The life of a job.                                                      *)

Update(p, j, rec) == jobs' = [jobs EXCEPT ![p][j] = rec]

(* startJob: createJob and the synchronous first part of runJob, start.    *)
StartJob(p, j) ==
  LET pending == [status |-> "PENDING", done |-> 0]
      running == [pending EXCEPT !.status = "RUNNING"]
  IN  /\ up[p] /\ j \notin issued
      /\ issued' = issued \cup {j}
      /\ Update(p, j, running)
      /\ Send(p, Upserts(j, {pending, running}))
      /\ runner' = [runner EXCEPT ![p][j] = "tables"]
      /\ UNCHANGED <<pods, lost, db, disk>>

TableDoneMutant(p, j) ==
  LET rec == [jobs[p][j] EXCEPT !.done = @ + 2]
  IN  /\ runner[p][j] = "tables" /\ jobs[p][j].done < Tables
      /\ Update(p, j, rec)
      /\ Send(p, Upserts(j, {rec}))
      /\ UNCHANGED <<pods, runner, lost, db, disk, issued>>

(* incrementDone: one more table of the job has been dealt with.           *)
TableDone(p, j) ==
  LET rec == [jobs[p][j] EXCEPT !.done = @ + 1]
  IN  /\ runner[p][j] = "tables" /\ jobs[p][j].done < Tables
      /\ Update(p, j, rec)
      /\ Send(p, Upserts(j, {rec}))
      /\ UNCHANGED <<pods, runner, lost, db, disk, issued>>

(* writeFinalReports: the files are on disk and on their way to the table. *)
WriteReports(p, j) ==
  /\ runner[p][j] = "tables" /\ jobs[p][j].done = Tables
  /\ disk' = [disk EXCEPT ![p] = @ \cup {j}]
  /\ Send(p, Upserts(j, {Report}))
  /\ runner' = [runner EXCEPT ![p][j] = "saving"]
  /\ UNCHANGED <<pods, jobs, lost, db, issued>>

SavedMutant(p, j) == TRUE

(* writeFinalReports waits for its own statement, unlike persist.          *)
Saved(p, j) == [job |-> j, data |-> Report] \notin sent[p]

(* complete: the job is DONE and runJob returns.                           *)
Complete(p, j) ==
  LET rec == [jobs[p][j] EXCEPT !.status = "DONE"]
  IN  /\ runner[p][j] = "saving" /\ Saved(p, j)
      /\ Update(p, j, rec)
      /\ Send(p, Upserts(j, {rec}))
      /\ runner' = [runner EXCEPT ![p][j] = "none"]
      /\ UNCHANGED <<pods, lost, db, disk, issued>>

FailMutant(p, j) ==
  LET rec == [jobs[p][j] EXCEPT !.status = "FAILED"]
  IN  /\ runner[p][j] # "none"
      /\ Update(p, j, rec)
      /\ Send(p, Upserts(j, {rec}))
      /\ UNCHANGED <<pods, runner, lost, db, disk, issued>>

(* fail: runJob rejected, in a table or while it wrote the reports.        *)
Fail(p, j) ==
  LET rec == [jobs[p][j] EXCEPT !.status = "FAILED"]
  IN  /\ runner[p][j] # "none"
      /\ Update(p, j, rec)
      /\ Send(p, Upserts(j, {rec}))
      /\ runner' = [runner EXCEPT ![p][j] = "none"]
      /\ UNCHANGED <<pods, lost, db, disk, issued>>

-----------------------------------------------------------------------------
(* The life of a pod.                                                      *)

OrphanedMutant == {j \in Job : stored[j] # Absent}

(* The stored jobs that some earlier pod was running when it was last      *)
(* heard of.                                                               *)
Orphaned == {j \in Job : stored[j] # Absent /\ stored[j].status = "RUNNING"}

RecoveredMutant(j) == stored[j]

(* loadFromDb: an orphaned job is now FAILED, the others are as stored.    *)
Recovered(j) ==
  IF j \in Orphaned THEN [stored[j] EXCEPT !.status = "FAILED"] ELSE stored[j]

(* Both onModuleInit hooks, which run concurrently.  PgCacheService may    *)
(* fail and leave no pool, and loadFromDb may fail to read the jobs: the   *)
(* two agree unless a statement of one of them fails.                      *)
Boot(p) ==
  /\ ~up[p] /\ boots < MaxBoots
  /\ boots' = boots + 1
  /\ up' = [up EXCEPT ![p] = TRUE]
  /\ \E reached \in BOOLEAN : pool' = [pool EXCEPT ![p] = reached]
  /\ \/ /\ pool'[p] \/ Losses
        /\ jobs' = [jobs EXCEPT ![p] = [j \in Job |-> Recovered(j)]]
        /\ sent' = [sent EXCEPT ![p] = UNION {Upserts(j, {Recovered(j)}) : j \in Orphaned}]
     \/ /\ ~pool'[p] \/ Losses
        /\ UNCHANGED <<jobs, sent>>
  /\ UNCHANGED <<runner, lost, db, disk, issued>>

(* The process dies, and its memory with it.  Of the unsettled statements  *)
(* those that had reached PostgreSQL may still take effect.  The emptyDir  *)
(* with the reports outlives the container, but not the pod.               *)
Crash(p) ==
  /\ up[p]
  /\ up' = [up EXCEPT ![p] = FALSE]
  /\ pool' = [pool EXCEPT ![p] = FALSE]
  /\ jobs' = [jobs EXCEPT ![p] = NoJobs]
  /\ runner' = [runner EXCEPT ![p] = NoRunners]
  /\ sent' = [sent EXCEPT ![p] = {}]
  /\ \E received \in SUBSET sent[p] : adrift' = adrift \cup received
  /\ disk' \in {disk, [disk EXCEPT ![p] = {}]}
  /\ UNCHANGED <<warned, db, issued, boots>>

-----------------------------------------------------------------------------
Run(p, j) == TableDone(p, j) \/ WriteReports(p, j) \/ Complete(p, j) \/ Fail(p, j)

Database(p) == \E stmt \in sent[p] : Commit(p, stmt) \/ Lose(p, stmt)

Next == \/ \E p \in Pod : \/ Boot(p)
                          \/ Crash(p)
                          \/ Database(p)
                          \/ \E j \in Job : StartJob(p, j) \/ Run(p, j)
        \/ \E stmt \in adrift : Land(stmt)

Safety == Init /\ [][Next]_vars
-----------------------------------------------------------------------------
(* Properties.                                                             *)

Statement == [job : Job, data : Record \cup {Report}]

(* The Map, the tables and the statements under way hold job records.      *)
TypeOK ==
  /\ up \in [Pod -> BOOLEAN] /\ pool \in [Pod -> BOOLEAN]
  /\ jobs \in [Pod -> [Job -> Record \cup {Absent}]]
  /\ runner \in [Pod -> [Job -> {"none", "tables", "saving"}]]
  /\ sent \in [Pod -> SUBSET Statement]
  /\ adrift \in SUBSET Statement /\ warned \in SUBSET Job
  /\ stored \in [Job -> Record \cup {Absent}]
  /\ disk \in [Pod -> SUBSET Job]
  /\ reports \in SUBSET Job /\ issued \in SUBSET Job
  /\ boots \in 0..MaxBoots

Sees(p, j, statuses) == jobs[p][j] # Absent /\ jobs[p][j].status \in statuses

(* A poll answers RUNNING exactly while the pod that answers is running    *)
(* the job, however pods died and statements were reordered, lost or late: *)
(* no record recovered as RUNNING has a client poll for nothing.           *)
RunningHasRunner ==
  \A p \in Pod, j \in Job : Sees(p, j, {"RUNNING"}) <=> runner[p][j] # "none"

(* "Any job that was RUNNING when the pod died is now effectively failed"  *)
(* (loadFromDb): what a poll shows as FAILED is not being run by anyone.   *)
(* Two pods that overlap refute it: the new one takes a record for the     *)
(* trace of a dead pod while the old one is still at work on the job.      *)
FailedMeansOver ==
  \A p, q \in Pod, j \in Job : Sees(p, j, {"FAILED"}) => runner[q][j] = "none"

(* "Persist all files to PostgreSQL so they survive pod restarts"          *)
(* (writeFinalReports): a job shown as DONE has its report on the disk of  *)
(* the pod that shows it or in PostgreSQL, or is one of which the log has  *)
(* warned that it could not be saved.  No order of statements, crash or    *)
(* second pod makes a report disappear without a word.                     *)
DoneServable ==
  \A p \in Pod, j \in Job : Sees(p, j, {"DONE"}) => j \in disk[p] \cup reports \cup warned

Quiet(j) == /\ \A p \in Pod : \A stmt \in sent[p] : stmt.job # j
            /\ \A stmt \in adrift : stmt.job # j

(* A finished job is stored, and nobody works on it or writes about it.    *)
Settled(j) ==
  /\ stored[j] # Absent /\ stored[j].status \in Terminal
  /\ \A p \in Pod : runner[p][j] = "none"
  /\ Quiet(j)

(* A settled job stays settled with the same record: no boot, crash, late  *)
(* statement or other job touches it again.                                *)
SettledIsDurable ==
  [][\A j \in Job : Settled(j) => Settled(j)' /\ stored'[j] = stored[j]]_vars

(* As long as a pod lives, its answers only move PENDING - RUNNING -       *)
(* finished, and a finished job keeps its outcome.                         *)
PollOnlyAdvances ==
  [][\A p \in Pod, j \in Job :
       up[p] /\ up'[p] /\ jobs[p][j] # Absent =>
         /\ Sees(p, j, Terminal) => jobs'[p][j] = jobs[p][j]
         /\ Sees(p, j, {"RUNNING"}) => jobs'[p][j].status # "PENDING"
                                     /\ jobs'[p][j].done >= jobs[p][j].done]_vars
=============================================================================
