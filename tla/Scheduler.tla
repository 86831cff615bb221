------------------------------ MODULE Scheduler ------------------------------
(* The cron-like job scheduler (src/src/scheduler).  The jobs table is a    *)
(* file rewritten under jobs_lock; the daemon keeps a copy of it in memory, *)
(* with the time each job fires next, and updates that copy only after the  *)
(* lock is released.  A row is its revision and whether it is enabled; a    *)
(* next-fire time is "never", "later" or "now", which is what the tick loop *)
(* tells apart.                                                             *)
EXTENDS Naturals, Sequences, FiniteSets, SequencesExt

CONSTANTS
    Job,          \* job ids
    SchedTask,    \* concurrent sched.* requests
    MaxRev,       \* bound on the rows ever written
    MaxDisk,      \* bound on failures of the disk
    RunLogCap,    \* RUN_LOG_CAP
    MaxRuns,      \* bound on executions under way at once
    NoJob

SchedRow == [id : Job, rev : 1..MaxRev, enabled : BOOLEAN]

ASSUME SchedAssumption ==
    /\ IsFiniteSet(Job) /\ NoJob \notin SchedRow
    /\ MaxRev \in Nat /\ MaxDisk \in Nat /\ MaxRuns \in Nat
    /\ RunLogCap \in Nat \ {0}

VARIABLES
    table,      \* scheduler-jobs.json: the row of each job, or NoJob
    jobs,       \* SchedulerService.jobs: the row in memory and its next_fire
    sched,      \* the request each task is serving
    runs,       \* executions under way, each with the row it was started from
    runLog,     \* scheduler-runs.jsonl
    rev,        \* rows written so far
    written,    \* every row that has been in the table
    diskFails        \* failures of the disk so far

schedVars == <<table, jobs, sched, runs, runLog, rev, written, diskFails>>

NextFire == {"never", "later", "now"}
SchedIdle == [op |-> "idle", id |-> NoJob, row |-> NoJob]

(* Types of the state: the rows, the copies, the run log within its cap.    *)
SchedTypeOK ==
    /\ table \in [Job -> SchedRow \cup {NoJob}]
    /\ jobs \in [Job -> [row : SchedRow, next : NextFire] \cup {NoJob}]
    /\ sched \in [SchedTask ->
            {SchedIdle} \cup [op : {"sync", "remove"}, id : Job,
                              row : SchedRow \cup {NoJob}]]
    /\ runs \in Seq(SchedRow) /\ Len(runs) <= MaxRuns
    /\ runLog \in Seq(SchedRow) /\ Len(runLog) <= RunLogCap
    /\ rev \in 0..MaxRev
    /\ written \in SUBSET SchedRow
    /\ diskFails \in 0..MaxDisk

(* compute_next_fire: a disabled job never fires.  sched.add and sched.set  *)
(* refuse an expression that does not parse, so a row always has a schedule. *)
ComputeNextFire(row) == IF row.enabled THEN "later" ELSE "never"

(* init_service, at the first use after a start of the daemon.              *)
LoadedJobs(t) ==
    [j \in Job |-> IF t[j] = NoJob THEN NoJob
                   ELSE [row |-> t[j], next |-> ComputeNextFire(t[j])]]

SchedInit ==
    /\ table = [j \in Job |-> NoJob]
    /\ jobs = LoadedJobs(table)
    /\ sched = [t \in SchedTask |-> SchedIdle]
    /\ runs = <<>> /\ runLog = <<>>
    /\ rev = 0 /\ written = {} /\ diskFails = 0

(* Mutant: a request goes on after save_jobs_unlocked failed.               *)
WithJobsIgnoresErrors(t, new, op, id, row) ==
    /\ sched' = [sched EXCEPT ![t] = [op |-> op, id |-> id, row |-> row]]
    /\ \/ /\ table' = new /\ written' = written \cup ({new[j] : j \in Job} \ {NoJob})
          /\ UNCHANGED diskFails
       \/ /\ diskFails < MaxDisk /\ diskFails' = diskFails + 1
          /\ UNCHANGED <<table, written>>

(* The outcomes of with_jobs_at: the table is replaced and the request goes  *)
(* on with op, or save_jobs_unlocked fails and the request returns the       *)
(* error.  write_private may fail before its rename, leaving the old table,  *)
(* or after it, when the directory cannot be synced.                         *)
WithJobs(t, new, op, id, row) ==
    LET rows == {new[j] : j \in Job} \ {NoJob} IN
    \/ /\ table' = new
       /\ written' = written \cup rows
       /\ sched' = [sched EXCEPT ![t] = [op |-> op, id |-> id, row |-> row]]
       /\ UNCHANGED diskFails
    \/ /\ diskFails < MaxDisk /\ diskFails' = diskFails + 1
       /\ \/ UNCHANGED <<table, written>>
          \/ table' = new /\ written' = written \cup rows
       /\ UNCHANGED sched

(* sched.add: new_job_id draws an id that is not in the table.              *)
SchedAdd(t, j, e) ==
    /\ sched[t] = SchedIdle
    /\ table[j] = NoJob
    /\ rev < MaxRev /\ rev' = rev + 1
    /\ LET row == [id |-> j, rev |-> rev + 1, enabled |-> e]
       IN  WithJobs(t, [table EXCEPT ![j] = row], "sync", j, row)
    /\ UNCHANGED <<jobs, runs, runLog>>

(* sched.set and sched.enable: the entry must be in the table; either may    *)
(* change enabled, and set the other fields.                                *)
SchedSet(t, j, e) ==
    /\ sched[t] = SchedIdle
    /\ table[j] # NoJob
    /\ rev < MaxRev /\ rev' = rev + 1
    /\ LET row == [id |-> j, rev |-> rev + 1, enabled |-> e]
       IN  WithJobs(t, [table EXCEPT ![j] = row], "sync", j, row)
    /\ UNCHANGED <<jobs, runs, runLog>>

(* sched.rm                                                                  *)
SchedRm(t, j) ==
    /\ sched[t] = SchedIdle
    /\ table[j] # NoJob
    /\ WithJobs(t, [table EXCEPT ![j] = NoJob], "remove", j, NoJob)
    /\ UNCHANGED <<jobs, runs, runLog, rev>>

(* The second half of a request, after jobs_lock was released:               *)
(* sync_job_state updates the entry or pushes a new one, remove_job_state    *)
(* drops it.                                                                 *)
SyncJobState(t) ==
    /\ sched[t].op = "sync"
    /\ jobs' = [jobs EXCEPT ![sched[t].id] =
                  [row |-> sched[t].row, next |-> ComputeNextFire(sched[t].row)]]
    /\ sched' = [sched EXCEPT ![t] = SchedIdle]
    /\ UNCHANGED <<table, runs, runLog, rev, written, diskFails>>

RemoveJobState(t) ==
    /\ sched[t].op = "remove"
    /\ jobs' = [jobs EXCEPT ![sched[t].id] = NoJob]
    /\ sched' = [sched EXCEPT ![t] = SchedIdle]
    /\ UNCHANGED <<table, runs, runLog, rev, written, diskFails>>

(* sched.run: starts the row in memory, whatever its schedule says.          *)
SchedRun(j) ==
    /\ jobs[j] # NoJob
    /\ Len(runs) < MaxRuns
    /\ runs' = Append(runs, jobs[j].row)
    /\ UNCHANGED <<table, jobs, sched, runLog, rev, written, diskFails>>

(* Time passes the next-fire time of a job.                                  *)
Elapse(j) ==
    /\ jobs[j] # NoJob /\ jobs[j].next = "later"
    /\ jobs' = [jobs EXCEPT ![j].next = "now"]
    /\ UNCHANGED <<table, sched, runs, runLog, rev, written, diskFails>>

DueJobs == {j \in Job : jobs[j] # NoJob /\ jobs[j].next = "now"}

(* One tick of run_background: take_due_jobs collects every due job and      *)
(* advances its next_fire in the same pass; each is spawned on its own.      *)
TakeDueJobs ==
    /\ DueJobs # {}
    /\ Len(runs) + Cardinality(DueJobs) <= MaxRuns
    /\ runs' = runs \o SetToSeq({jobs[j].row : j \in DueJobs})
    /\ jobs' = [j \in Job |-> IF j \in DueJobs
                              THEN [jobs[j] EXCEPT !.next = ComputeNextFire(jobs[j].row)]
                              ELSE jobs[j]]
    /\ UNCHANGED <<table, sched, runLog, rev, written, diskFails>>

(* append_run_record keeps the RUN_LOG_CAP newest records.                   *)
Appended(record) ==
    LET lines == Append(runLog, record)
        excess == IF Len(lines) > RunLogCap THEN Len(lines) - RunLogCap ELSE 0
    IN  SubSeq(lines, excess + 1, Len(lines))

(* execute_and_record: the command exits, fails to start or reaches          *)
(* RUN_TIMEOUT, each of which is recorded; a failed append is only logged.   *)
ExecuteAndRecord(i) ==
    /\ i \in DOMAIN runs
    /\ runs' = RemoveAt(runs, i)
    /\ \/ runLog' = Appended(runs[i]) /\ UNCHANGED diskFails
       \/ diskFails < MaxDisk /\ diskFails' = diskFails + 1 /\ UNCHANGED runLog
    /\ UNCHANGED <<table, jobs, sched, rev, written>>

(* The daemon stops and starts again: the commands under way are killed with *)
(* it and no next-fire time survives.                                        *)
SchedRestart ==
    /\ jobs' = LoadedJobs(table)
    /\ sched' = [t \in SchedTask |-> SchedIdle]
    /\ runs' = <<>>
    /\ UNCHANGED <<table, runLog, rev, written, diskFails>>

SchedNext ==
    \/ \E t \in SchedTask, j \in Job :
          \/ \E e \in BOOLEAN : SchedAdd(t, j, e) \/ SchedSet(t, j, e)
          \/ SchedRm(t, j)
    \/ \E t \in SchedTask : SyncJobState(t) \/ RemoveJobState(t)
    \/ \E j \in Job : SchedRun(j) \/ Elapse(j)
    \/ TakeDueJobs
    \/ \E i \in 1..MaxRuns : ExecuteAndRecord(i)
    \/ SchedRestart

SchedSpec == SchedInit /\ [][SchedNext]_schedVars

(* A shell command is started or recorded only if its row was written to     *)
(* the jobs table first: a request whose write failed leaves nothing that    *)
(* could run, whichever requests, ticks and restarts interleave with it.     *)
RunsPersisted ==
    /\ \A i \in DOMAIN runs : runs[i] \in written
    /\ \A i \in DOMAIN runLog : runLog[i] \in written

=============================================================================
