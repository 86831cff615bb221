----------------------- MODULE ContentServicesProofs -----------------------
(***************************************************************************)
(* Proofs about the services of MCContentServices, for every instance of   *)
(* them: the scheduler (RunsPersisted), the follower of a shared folder    *)
(* (StoppedStays) and the gossip of a mesh room (NoRollback).              *)
(***************************************************************************)
EXTENDS Scheduler, FolderShare, EscrowGossip, ProofLemmas

-----------------------------------------------------------------------------
(***************************************************************************)
(* Proofs about the scheduler: what a run executes was saved in the jobs   *)
(* file before (RunsPersisted), for any set of jobs and any number of      *)
(* concurrent sched.* calls and ticks.                                     *)
(*                                                                         *)
(* RunsPersisted speaks of runs that have started. Memory is updated after *)
(* the table lock is released, so the invariant also follows the rows that *)
(* are on their way: in the table, in memory, and in the hand of a call    *)
(* that has saved its row and not yet updated memory.                      *)
(***************************************************************************)

(* Whatever could still be started was written first.                      *)
SchedInv ==
    /\ SchedTypeOK
    /\ \A j \in Job : table[j] # NoJob => table[j] \in written
    /\ \A j \in Job : jobs[j] # NoJob => jobs[j].row \in written
    /\ \A t \in SchedTask : sched[t].op = "sync" => sched[t].row \in written
    /\ RunsPersisted

LEMMA AppendedOf ==
    ASSUME SchedTypeOK, NEW r \in SchedRow
    PROVE  /\ Appended(r) \in Seq(SchedRow) /\ Len(Appended(r)) <= RunLogCap
           /\ \A k \in DOMAIN Appended(r) :
                 Appended(r)[k] = r \/ \E m \in DOMAIN runLog : Appended(r)[k] = runLog[m]
<1> DEFINE lines == Append(runLog, r)
           excess == IF Len(lines) > RunLogCap THEN Len(lines) - RunLogCap ELSE 0
<1>1. runLog \in Seq(SchedRow) /\ Len(runLog) \in Nat /\ Len(runLog) <= RunLogCap /\ RunLogCap \in Nat \ {0}
  BY SchedAssumption DEF SchedTypeOK
<1>2. /\ lines \in Seq(SchedRow) /\ Len(lines) = Len(runLog) + 1
      /\ \A k \in 1..Len(lines) : lines[k] = IF k = Len(lines) THEN r ELSE runLog[k]
  BY <1>1
<1>3. excess \in Nat /\ excess <= Len(lines) /\ Len(lines) - excess <= RunLogCap
  BY <1>1, <1>2
<1> HIDE DEF lines, excess
<1>4. /\ SubSeq(lines, excess + 1, Len(lines)) \in Seq(SchedRow)
      /\ Len(SubSeq(lines, excess + 1, Len(lines))) = Len(lines) - excess
      /\ \A k \in 1..(Len(lines) - excess) : SubSeq(lines, excess + 1, Len(lines))[k] = lines[excess + k]
  BY <1>1, <1>2, <1>3
<1>5. Appended(r) = SubSeq(lines, excess + 1, Len(lines))
  BY DEF Appended, lines, excess
<1>6. DOMAIN Appended(r) = 1..(Len(lines) - excess)
  BY <1>4, <1>5
<1>7. ASSUME NEW k \in 1..(Len(lines) - excess)
      PROVE  lines[excess + k] = r \/ \E m \in DOMAIN runLog : lines[excess + k] = runLog[m]
  <2>1. excess + k \in 1..Len(lines) /\ (excess + k # Len(lines) => excess + k \in DOMAIN runLog)
    BY <1>1, <1>2, <1>3
  <2> QED BY <2>1, <1>2
<1> QED
  BY <1>3, <1>4, <1>5, <1>6, <1>7
-----------------------------------------------------------------------------
(* A request rewrites the row of one job and goes on only if it is written. *)
LEMMA WithJobsOK ==
    ASSUME SchedInv, NEW t \in SchedTask, NEW j \in Job, NEW row \in SchedRow \cup {NoJob},
           NEW op \in {"sync", "remove"}, op = "sync" => row # NoJob,
           WithJobs(t, [table EXCEPT ![j] = row], op, j, row),
           rev' \in 0..MaxRev, UNCHANGED <<jobs, runs, runLog>>
    PROVE  SchedInv'
<1> DEFINE new == [table EXCEPT ![j] = row]
           rows == {new[k] : k \in Job} \ {NoJob}
<1>1. SchedTypeOK /\ NoJob \notin SchedRow /\ MaxDisk \in Nat
  BY SchedAssumption DEF SchedInv
<1>2. new \in [Job -> SchedRow \cup {NoJob}] /\ rows \subseteq SchedRow
  BY <1>1 DEF SchedTypeOK
<1>3. \A k \in Job : new[k] # NoJob => new[k] \in rows
  OBVIOUS
<1>4. row # NoJob => row \in rows
  BY <1>1 DEF SchedTypeOK
<1>5. /\ \/ table' = new /\ written' = written \cup rows
         \/ UNCHANGED <<table, written>>
      /\ \/ UNCHANGED sched /\ diskFails < MaxDisk /\ diskFails' = diskFails + 1
         \/ /\ sched' = [sched EXCEPT ![t] = [op |-> op, id |-> j, row |-> row]]
            /\ written' = written \cup rows /\ UNCHANGED diskFails
  BY DEF WithJobs
<1> HIDE DEF new, rows
<1>6. SchedTypeOK'
  BY <1>1, <1>2, <1>5 DEF SchedTypeOK
<1>7. \A k \in Job : table'[k] # NoJob => table'[k] \in written'
  BY <1>3, <1>5 DEF SchedInv
<1>8. \A k \in Job : jobs'[k] # NoJob => jobs'[k].row \in written'
  BY <1>5 DEF SchedInv
<1>9. \A u \in SchedTask : sched'[u].op = "sync" => sched'[u].row \in written'
  BY <1>1, <1>4, <1>5 DEF SchedInv, SchedTypeOK
<1>10. RunsPersisted'
  BY <1>5 DEF SchedInv, RunsPersisted
<1> QED
  BY <1>6, <1>7, <1>8, <1>9, <1>10 DEF SchedInv

LEMMA RequestStep ==
    ASSUME SchedInv, NEW t \in SchedTask, NEW j \in Job, NEW e \in BOOLEAN,
           SchedAdd(t, j, e) \/ SchedSet(t, j, e) \/ SchedRm(t, j)
    PROVE  SchedInv'
<1> DEFINE row == [id |-> j, rev |-> rev + 1, enabled |-> e]
<1>0. rev \in 0..MaxRev /\ MaxRev \in Nat /\ NoJob \notin SchedRow
  BY SchedAssumption DEF SchedInv, SchedTypeOK
<1>1. CASE SchedAdd(t, j, e) \/ SchedSet(t, j, e)
  <2>1. /\ rev < MaxRev /\ rev' = rev + 1 /\ UNCHANGED <<jobs, runs, runLog>>
        /\ WithJobs(t, [table EXCEPT ![j] = row], "sync", j, row)
    BY <1>1 DEF SchedAdd, SchedSet
  <2>2. row \in SchedRow /\ row # NoJob /\ rev' \in 0..MaxRev
    BY <1>0, <2>1 DEF SchedRow
  <2> HIDE DEF row
  <2> QED BY <2>1, <2>2, WithJobsOK
<1>2. CASE SchedRm(t, j)
  <2>1. /\ WithJobs(t, [table EXCEPT ![j] = NoJob], "remove", j, NoJob)
        /\ rev' \in 0..MaxRev /\ UNCHANGED <<jobs, runs, runLog>>
    BY <1>0, <1>2 DEF SchedRm
  <2> QED BY <2>1, WithJobsOK
<1> QED BY <1>1, <1>2

LEMMA JobStateStep ==
    ASSUME SchedInv, NEW t \in SchedTask, SyncJobState(t) \/ RemoveJobState(t)
    PROVE  SchedInv'
<1>0. SchedTypeOK /\ written \subseteq SchedRow
  BY DEF SchedInv, SchedTypeOK
<1>1. sched[t].id \in Job
  BY <1>0 DEF SchedTypeOK, SyncJobState, RemoveJobState, SchedIdle
<1>2. CASE SyncJobState(t)
  <2>1. sched[t].row \in written
    BY <1>2 DEF SchedInv, SyncJobState
  <2>2. ComputeNextFire(sched[t].row) \in NextFire
    BY DEF ComputeNextFire, NextFire
  <2>3. SchedTypeOK'
    BY <1>0, <1>1, <1>2, <2>1, <2>2 DEF SchedTypeOK, SyncJobState
  <2> QED
    BY <1>0, <1>1, <1>2, <2>1, <2>3 DEF SchedInv, SchedTypeOK, RunsPersisted, SyncJobState, SchedIdle
<1>3. CASE RemoveJobState(t)
  <2>3. SchedTypeOK'
    BY <1>0, <1>1, <1>3 DEF SchedTypeOK, RemoveJobState
  <2> QED
    BY <1>0, <1>1, <1>3, <2>3 DEF SchedInv, SchedTypeOK, RunsPersisted, RemoveJobState, SchedIdle
<1> QED BY <1>2, <1>3

LEMMA StartStep ==
    ASSUME SchedInv, NEW j \in Job, SchedRun(j) \/ Elapse(j)
    PROVE  SchedInv'
<1>0. SchedTypeOK /\ MaxRuns \in Nat
  BY SchedAssumption DEF SchedInv
<1>1. jobs[j] \in [row : SchedRow, next : NextFire] /\ jobs[j].row \in written
  BY <1>0 DEF SchedInv, SchedTypeOK, SchedRun, Elapse
<1>2. CASE SchedRun(j)
  <2>1. /\ runs' \in Seq(SchedRow) /\ Len(runs') = Len(runs) + 1
        /\ \A i \in 1..(Len(runs) + 1) : runs'[i] = IF i = Len(runs) + 1 THEN jobs[j].row ELSE runs[i]
    BY <1>0, <1>1, <1>2 DEF SchedTypeOK, SchedRun
  <2>2. SchedTypeOK'
    BY <1>0, <1>2, <2>1 DEF SchedTypeOK, SchedRun
  <2>3. DOMAIN runs' = 1..(Len(runs) + 1) /\ DOMAIN runs = 1..Len(runs) /\ Len(runs) \in Nat
    BY <1>0, <2>1 DEF SchedTypeOK
  <2>4. RunsPersisted'
    BY <1>1, <1>2, <2>1, <2>3 DEF SchedInv, RunsPersisted, SchedRun
  <2> QED
    BY <1>2, <2>2, <2>4 DEF SchedInv, SchedRun
<1>3. CASE Elapse(j)
  <2>1. jobs' = [jobs EXCEPT ![j] = [row |-> jobs[j].row, next |-> "now"]]
    <3>1. jobs' = [jobs EXCEPT ![j] = [jobs[j] EXCEPT !.next = "now"]]
      BY <1>3 DEF Elapse
    <3>2. [jobs[j] EXCEPT !.next = "now"] = [row |-> jobs[j].row, next |-> "now"]
      BY <1>1
    <3> QED BY <3>1, <3>2
  <2>2. SchedTypeOK'
    BY <1>0, <1>1, <1>3, <2>1 DEF SchedTypeOK, Elapse, NextFire
  <2> QED
    BY <1>0, <1>1, <1>3, <2>1, <2>2 DEF SchedInv, SchedTypeOK, RunsPersisted, Elapse
<1> QED BY <1>2, <1>3

LEMMA TickStep ==
    ASSUME SchedInv, TakeDueJobs
    PROVE  SchedInv'
<1> DEFINE rowOf == [j \in Job |-> jobs[j].row]
           due == {jobs[j].row : j \in DueJobs}
           batch == SetToSeq(due)
<1>0. SchedTypeOK /\ MaxRuns \in Nat /\ IsFiniteSet(Job)
  BY SchedAssumption DEF SchedInv
<1>1. DueJobs \in SUBSET Job /\ IsFiniteSet(DueJobs) /\ Cardinality(DueJobs) \in Nat
  BY <1>0, FS_Subset, FS_CardinalityType DEF DueJobs
<1>2. \A j \in DueJobs : jobs[j] \in [row : SchedRow, next : NextFire] /\ jobs[j].row \in written
  BY <1>0 DEF SchedInv, SchedTypeOK, DueJobs
<1>3. due = {rowOf[j] : j \in DueJobs}
  BY <1>1
<1>4. IsFiniteSet(due) /\ Cardinality(due) <= Cardinality(DueJobs)
  <2> HIDE DEF due, rowOf
  <2> QED BY <1>1, <1>3, ImageFinite
<1>5. Cardinality(due) \in Nat /\ batch \in [1..Cardinality(due) -> due]
  <2> HIDE DEF due
  <2> QED BY <1>4, SetToSeqOf, FS_CardinalityType
<1>6. due \subseteq written /\ due \subseteq SchedRow
  BY <1>2
<1> HIDE DEF due, batch, rowOf
<1>7. batch \in Seq(SchedRow) /\ Len(batch) = Cardinality(due)
  BY <1>5, <1>6
<1>8. runs' = runs \o batch /\ Len(runs) + Cardinality(DueJobs) <= MaxRuns
  BY DEF TakeDueJobs, due, batch
<1>9. /\ runs' \in Seq(SchedRow) /\ Len(runs') = Len(runs) + Len(batch)
      /\ \A i \in DOMAIN runs' : runs'[i] = IF i <= Len(runs) THEN runs[i] ELSE batch[i - Len(runs)]
  <2>1. runs \in Seq(SchedRow)
    BY <1>0 DEF SchedTypeOK
  <2> QED BY <2>1, <1>7, <1>8, ConcatOf
<1>10. /\ runs \in Seq(SchedRow) /\ DOMAIN runs = 1..Len(runs) /\ DOMAIN runs' = 1..(Len(runs) + Len(batch))
       /\ Len(runs) \in Nat /\ Len(batch) \in Nat
  BY <1>0, <1>7, <1>9 DEF SchedTypeOK
<1>11. Len(runs') <= MaxRuns
  BY <1>0, <1>1, <1>4, <1>5, <1>7, <1>8, <1>9, <1>10
<1>12. \A i \in DOMAIN runs' : runs'[i] \in written
  <2> TAKE i \in DOMAIN runs'
  <2>1. CASE i <= Len(runs)
    BY <2>1, <1>9, <1>10 DEF SchedInv, RunsPersisted
  <2>2. CASE ~(i <= Len(runs))
    <3>1. i - Len(runs) \in 1..Cardinality(due)
      BY <2>2, <1>7, <1>10
    <3>2. batch[i - Len(runs)] \in due
      BY <3>1, <1>5
    <3> QED BY <3>2, <2>2, <1>6, <1>9
  <2> QED BY <2>1, <2>2
<1>13. /\ jobs' \in [Job -> [row : SchedRow, next : NextFire] \cup {NoJob}]
       /\ \A j \in Job : jobs'[j] # NoJob => jobs'[j].row \in written
  <2>1. \A j \in DueJobs : [jobs[j] EXCEPT !.next = ComputeNextFire(jobs[j].row)]
             = [row |-> jobs[j].row, next |-> ComputeNextFire(jobs[j].row)]
    BY <1>2
  <2>2. \A j \in DueJobs : ComputeNextFire(jobs[j].row) \in NextFire
    BY DEF ComputeNextFire, NextFire
  <2>3. jobs' = [j \in Job |-> IF j \in DueJobs
                   THEN [row |-> jobs[j].row, next |-> ComputeNextFire(jobs[j].row)] ELSE jobs[j]]
    BY <2>1 DEF TakeDueJobs
  <2>4. ASSUME NEW j \in Job
        PROVE  /\ jobs'[j] \in [row : SchedRow, next : NextFire] \cup {NoJob}
               /\ jobs'[j] # NoJob => jobs'[j].row \in written
    <3>1. CASE j \in DueJobs
      <4>1. jobs'[j] = [row |-> jobs[j].row, next |-> ComputeNextFire(jobs[j].row)]
        BY <3>1, <2>3
      <4> QED BY <3>1, <4>1, <2>2, <1>2
    <3>2. CASE j \notin DueJobs
      BY <3>2, <2>3, <1>0 DEF SchedInv, SchedTypeOK
    <3> QED BY <3>1, <3>2
  <2> QED BY <2>3, <2>4
<1>14. UNCHANGED <<table, sched, runLog, rev, written, diskFails>>
  BY DEF TakeDueJobs
<1>15. SchedTypeOK'
  BY <1>0, <1>9, <1>11, <1>13, <1>14 DEF SchedTypeOK
<1> QED
  BY <1>12, <1>13, <1>14, <1>15 DEF SchedInv, RunsPersisted

LEMMA RecordStep ==
    ASSUME SchedInv, NEW i \in 1..MaxRuns, ExecuteAndRecord(i)
    PROVE  SchedInv'
<1>0. SchedTypeOK /\ MaxDisk \in Nat
  BY SchedAssumption DEF SchedInv
<1>1. i \in DOMAIN runs /\ runs \in Seq(SchedRow) /\ runs' = RemoveAt(runs, i)
  BY <1>0 DEF ExecuteAndRecord, SchedTypeOK
<1>2. runs[i] \in SchedRow /\ runs[i] \in written
  BY <1>1 DEF SchedInv, RunsPersisted
<1>3. /\ runs' \in Seq(SchedRow) /\ Len(runs') = Len(runs) - 1
      /\ \A k \in DOMAIN runs' : \E m \in DOMAIN runs : runs'[k] = runs[m]
  BY <1>1, RemoveAtOf
<1>4. /\ runLog' \in Seq(SchedRow) /\ Len(runLog') <= RunLogCap
      /\ \A k \in DOMAIN runLog' :
            runLog'[k] = runs[i] \/ \E m \in DOMAIN runLog : runLog'[k] = runLog[m]
  <2>1. CASE runLog' = Appended(runs[i])
    BY <2>1, <1>0, <1>2, AppendedOf
  <2>2. CASE UNCHANGED runLog
    BY <2>2, <1>0 DEF SchedTypeOK
  <2> QED BY <2>1, <2>2 DEF ExecuteAndRecord
<1>5. UNCHANGED <<table, jobs, sched, rev, written>> /\ diskFails' \in 0..MaxDisk
  BY <1>0 DEF ExecuteAndRecord, SchedTypeOK
<1>6. Len(runs') <= MaxRuns
  BY <1>0, <1>1, <1>3, SchedAssumption DEF SchedTypeOK
<1>7. SchedTypeOK'
  BY <1>0, <1>3, <1>4, <1>5, <1>6 DEF SchedTypeOK
<1> QED
  BY <1>2, <1>3, <1>4, <1>5, <1>7 DEF SchedInv, RunsPersisted

LEMMA LoadedJobsOf ==
    ASSUME SchedInv
    PROVE  /\ LoadedJobs(table) \in [Job -> [row : SchedRow, next : NextFire] \cup {NoJob}]
           /\ \A j \in Job : LoadedJobs(table)[j] # NoJob => LoadedJobs(table)[j].row \in written
BY DEF SchedInv, SchedTypeOK, LoadedJobs, ComputeNextFire, NextFire

LEMMA RestartStep ==
    ASSUME SchedInv, SchedRestart
    PROVE  SchedInv'
<1>1. SchedTypeOK'
  BY LoadedJobsOf, SchedAssumption DEF SchedInv, SchedTypeOK, SchedRestart
<1> QED
  BY <1>1, LoadedJobsOf DEF SchedInv, SchedRestart, RunsPersisted, SchedIdle

LEMMA SchedInitOK == SchedInit => SchedInv
BY SchedAssumption DEF SchedInit, SchedInv, SchedTypeOK, RunsPersisted, LoadedJobs, SchedIdle

LEMMA SchedStepOK == SchedInv /\ [SchedNext]_schedVars => SchedInv'
<1> SUFFICES ASSUME SchedInv, [SchedNext]_schedVars PROVE SchedInv'
  OBVIOUS
<1>1. CASE UNCHANGED schedVars
  BY <1>1 DEF schedVars, SchedInv, SchedTypeOK, RunsPersisted
<1>2. ASSUME NEW t \in SchedTask, NEW j \in Job, NEW e \in BOOLEAN,
             SchedAdd(t, j, e) \/ SchedSet(t, j, e)
      PROVE  SchedInv'
  BY <1>2, RequestStep
<1>3. ASSUME NEW t \in SchedTask, NEW j \in Job, SchedRm(t, j) PROVE SchedInv'
  BY <1>3, RequestStep
<1>4. ASSUME NEW t \in SchedTask, SyncJobState(t) \/ RemoveJobState(t) PROVE SchedInv'
  BY <1>4, JobStateStep
<1>5. ASSUME NEW j \in Job, SchedRun(j) \/ Elapse(j) PROVE SchedInv'
  BY <1>5, StartStep
<1>6. CASE TakeDueJobs
  BY <1>6, TickStep
<1>7. ASSUME NEW i \in 1..MaxRuns, ExecuteAndRecord(i) PROVE SchedInv'
  BY <1>7, RecordStep
<1>8. CASE SchedRestart
  BY <1>8, RestartStep
<1> QED
  BY <1>1, <1>2, <1>3, <1>4, <1>5, <1>6, <1>7, <1>8 DEF SchedNext

(* Table, jobs in memory, tasks and run log of the scheduler keep their    *)
(* types whatever the sched.* calls, ticks and restarts do.                *)
THEOREM SchedTypeCorrect == SchedSpec => []SchedTypeOK
<1>1. SchedInv => SchedTypeOK BY DEF SchedInv
<1> QED BY <1>1, SchedInitOK, SchedStepOK, PTL DEF SchedSpec

(* Scheduler::tick and sched.run start a job only with a row that was      *)
(* saved to the jobs file, although memory and file change under different *)
(* locks.                                                                  *)
THEOREM OnlyPersistedJobsRun == SchedSpec => []RunsPersisted
<1>1. SchedInv => RunsPersisted BY DEF SchedInv
<1> QED BY <1>1, SchedInitOK, SchedStepOK, PTL DEF SchedSpec

-----------------------------------------------------------------------------
(* A handler or retry task that ends after stop_sync finds no row and writes *)
(* none (folder_sync.rs update_entry), whatever it had read before: only     *)
(* register_sync makes a row, and an empty one.                              *)
THEOREM StoppedForGood == ShareSpec => StoppedStays
<1>1. ASSUME ShareNext, syncEntry = NoSync, syncEntry' # NoSync PROVE RegisterSync
  <2>1. ASSUME NEW w, Handling(w) PROVE syncEntry' = NoSync
    <3>1. CASE ShareFetch(w)
      BY <1>1, <3>1 DEF ShareFetch
    <3>2. CASE ShareRemove(w)
      BY <1>1, <3>2 DEF ShareRemove
    <3>3. CASE ShareCommit(w)
      BY <1>1, <3>3 DEF ShareCommit, UpdateEntry
    <3>4. CASE ShareFailed(w)
      BY <1>1, <3>4 DEF ShareFailed, UpdateEntry
    <3> QED BY <2>1, <3>1, <3>2, <3>3, <3>4 DEF Handling
  <2>2. HandleEnvelope => syncEntry' = NoSync
    BY <1>1 DEF HandleEnvelope
  <2>3. RetrySyncOnce \/ AwaitGrant \/ AwaitFolderState => syncEntry' = NoSync
    BY <1>1 DEF RetrySyncOnce, AwaitGrant, AwaitFolderState
  <2>4. OwnerLoop \/ DedupElapses \/ RescanFails => syncEntry' = NoSync
    BY <1>1 DEF OwnerLoop, RescanChanged, RescanUnchanged, AnswerHello, DedupElapses, RescanFails
  <2>5. ASSUME NEW p, NEW c, Edit(p, c) PROVE syncEntry' = NoSync
    BY <1>1, <2>5 DEF Edit
  <2>6. StopSync \/ FollowerRestart => syncEntry' = NoSync
    BY <1>1 DEF StopSync, FollowerRestart
  <2> QED BY <1>1, <2>1, <2>2, <2>3, <2>4, <2>5, <2>6 DEF ShareNext, FollowerLoop, RetryTask
<1>2. RegisterSync => syncEntry'.status = "connecting" /\ syncEntry'.files = {}
  BY DEF RegisterSync
<1>3. [ShareNext]_shareVars =>
        [syncEntry = NoSync /\ syncEntry' # NoSync
           => syncEntry'.status = "connecting" /\ syncEntry'.files = {}]_shareVars
  BY <1>1, <1>2
<1> QED BY <1>3, PTL DEF ShareSpec, StoppedStays

-----------------------------------------------------------------------------
(***************************************************************************)
(* Gossip: what a provider receives is what some provider once said of its *)
(* record, in any order.  Messages keep their types, and every decision on a*)
(* record (Cas, learn, mesh_delete) moves it forward (NotBack).            *)
(***************************************************************************)

LEMMA GossipForms ==
    ASSUME NEW r \in MeshRecord
    PROVE  /\ \A x \in BOOLEAN : [r EXCEPT !.held = x] \in MeshRecord
           /\ \A x : [r EXCEPT !.held = x].head = r.head /\ [r EXCEPT !.held = x].deleted = r.deleted
           /\ r.head \in Heads /\ r.deleted \in BOOLEAN /\ r.held \in BOOLEAN
           /\ r.home \in Provider \cup {NoOne}
BY DEF MeshRecord

(* What a provider says of its record is well formed.                       *)
LEMMA Sayings ==
    ASSUME NEW r \in MeshRecord \cup {NoRecord}
    PROVE  /\ entry(r) \in Entry \cup {NoRecord} /\ digest(r) \in Digest
           /\ held_digest(r) \in Heads \cup {NoHead}
<1>1. CASE r = NoRecord
  BY <1>1 DEF entry, digest, held_digest, Digest
<1>2. CASE r \in MeshRecord /\ r # NoRecord
  <2>1. r.head \in Heads /\ r.deleted \in BOOLEAN /\ r.held \in BOOLEAN
    BY <1>2, GossipForms
  <2> QED BY <1>2, <2>1 DEF entry, digest, held_digest, Entry, Digest
<1> QED BY <1>1, <1>2

LEMMA SentWellFormed ==
    ASSUME NEW p \in Provider, NEW r \in MeshRecord \cup {NoRecord}, NEW to \in SUBSET Provider
    PROVE  /\ hello(p, r, to) \subseteq Message /\ advertise(p, r, to) \subseteq Message
           /\ request(p, "index_req", to) \subseteq Message
           /\ request(p, "head_req", to) \subseteq Message
           /\ \A q \in Provider : [to |-> q, from |-> p, kind |-> "index", entry |-> entry(r)] \in Message
<1>0. /\ entry(r) \in Entry \cup {NoRecord} /\ digest(r) \in Digest
      /\ held_digest(r) \in Heads \cup {NoHead}
  BY Sayings
<1>1. hello(p, r, to) \subseteq Message
  BY <1>0 DEF hello, Message
<1>2. advertise(p, r, to) \subseteq Message
  <2>1. CASE r # NoRecord
    <3>1. r.head \in Heads
      BY <2>1, GossipForms
    <3> QED BY <2>1, <3>1 DEF advertise, Message
  <2> QED BY <2>1 DEF advertise
<1>3. request(p, "index_req", to) \subseteq Message /\ request(p, "head_req", to) \subseteq Message
  BY DEF request, Message
<1>4. \A q \in Provider : [to |-> q, from |-> p, kind |-> "index", entry |-> entry(r)] \in Message
  BY <1>0 DEF Message
<1> QED BY <1>1, <1>2, <1>3, <1>4

LEMMA ReceivedWellFormed ==
    ASSUME NEW m \in Message
    PROVE  /\ m.to \in Provider /\ m.from \in Provider
           /\ m.kind = "hello" => m.digest \in Digest /\ m.held_digest \in Heads \cup {NoHead}
           /\ m.kind = "index" => m.entry \in Entry \cup {NoRecord}
           /\ m.kind = "head" \/ m.kind = "tombstone" => m.head \in Heads
BY DEF Message

LEMMA NetworkType ==
    ASSUME GossipTypeOK, NEW m, NEW new \in SUBSET Message, Network(m, new)
    PROVE  msgs' \subseteq Message
BY DEF GossipTypeOK, Network

(* News never takes a slot back: it replaces the head by a later one, or    *)
(* the live head by its tombstone.                                          *)
NotBack(r, n) ==
    r # NoRecord => /\ n # NoRecord
                    /\ \/ seqOf[n.head] > seqOf[r.head]
                       \/ n.head = r.head /\ (r.deleted => n.deleted)

LEMMA LearnNews ==
    ASSUME NEW r \in MeshRecord \cup {NoRecord}, NEW h \in Heads, NEW del \in BOOLEAN,
           NEW home \in Provider \cup {NoOne}
    PROVE  /\ Learned(r, h, del, home) \in MeshRecord
           /\ learn(r, h, del) = "New" => NotBack(r, Learned(r, h, del, home))
           /\ r # NoRecord /\ h = r.head /\ del => NotBack(r, Learned(r, h, del, home))
<1> DEFINE n == Learned(r, h, del, home)
<1>1. r # NoRecord => /\ r.head \in Heads /\ r.home \in Provider \cup {NoOne}
                      /\ r.head # NoHead /\ r.deleted \in BOOLEAN
  BY GossipForms, HeadAssumption
<1>2. n \in MeshRecord /\ n # NoRecord /\ n.head = h /\ n.deleted = del
  <2> DEFINE g == IF home # NoOne \/ r = NoRecord THEN home ELSE r.home
  <2>1. g \in Provider \cup {NoOne}
    BY <1>1
  <2> HIDE DEF g
  <2>2. n = [head |-> h, deleted |-> del, held |-> FALSE, home |-> g]
    BY DEF Learned, g
  <2> HIDE DEF n
  <2>3. n \in MeshRecord /\ n.head = h /\ n.deleted = del
    BY <2>1, <2>2 DEF MeshRecord
  <2> QED BY <2>3, GossipAssumption
<1>3. ASSUME r # NoRecord, learn(r, h, del) = "New"
      PROVE  seqOf[h] > seqOf[r.head] \/ (h = r.head /\ (r.deleted => del))
  <2> DEFINE how == acceptance(r.head, h)
  <2>1. seqOf[h] \in Nat /\ seqOf[r.head] \in Nat
    BY <1>1, <1>3, HeadAssumption
  <2>2. how # "Stale" /\ how # "Conflict" /\ how # "WriterMismatch"
    BY <1>3 DEF learn
  <2>3. h = r.head \/ seqOf[h] > seqOf[r.head]
    BY <1>1, <1>3, <2>1, <2>2 DEF acceptance
  <2>4. ASSUME h = r.head, r.deleted PROVE del
    <3> SUFFICES ASSUME ~del PROVE FALSE
      OBVIOUS
    <3>1. seqOf[h] <= seqOf[r.head] + 1 /\ ~successor(h, r.head)
      BY <2>1, <2>4 DEF successor
    <3> QED BY <1>3, <2>2, <2>4, <3>1 DEF learn
  <2> QED BY <2>3, <2>4
<1> HIDE DEF n
<1> QED BY <1>2, <1>3 DEF NotBack, n

LEMMA CasNews ==
    ASSUME NEW r \in MeshRecord \cup {NoRecord}, NEW h \in Heads, Cas(h, r)
    PROVE  r # NoRecord => seqOf[h] > seqOf[r.head] \/ (h = r.head /\ ~r.deleted)
<1> SUFFICES ASSUME r # NoRecord
             PROVE  seqOf[h] > seqOf[r.head] \/ (h = r.head /\ ~r.deleted)
  OBVIOUS
<1>1. r.head \in Heads /\ r.head # NoHead /\ seqOf[h] \in Nat /\ seqOf[r.head] \in Nat
  BY GossipForms, HeadAssumption
<1>2. CASE r.deleted
  BY <1>1, <1>2 DEF Cas, successor
<1>3. CASE ~r.deleted /\ check_cas(h, r.head) = "ok"
  BY <1>1, <1>3 DEF check_cas
<1>4. CASE ~r.deleted /\ check_cas(h, r.head) = "retry"
  BY <1>1, <1>4 DEF check_cas
<1> QED BY <1>2, <1>3, <1>4 DEF Cas

-----------------------------------------------------------------------------
(* A step that changes at most p's record and what p knows of q.            *)
GossipStepOK == GossipTypeOK' /\ \A p \in Provider : NotBack(rec[p], rec'[p])

LEMMA GossipStep ==
    ASSUME GossipTypeOK, GossipNext
    PROVE  GossipStepOK
<1>0. /\ rec \in [Provider -> MeshRecord \cup {NoRecord}]
      /\ view \in [Provider -> [Provider -> GossipPeer \cup {NoPeer}]]
      /\ msgs \subseteq Message /\ faults \in 0 .. MaxFaults /\ calm \in BOOLEAN
      /\ MaxFaults \in Nat
  BY MeshAssumption DEF GossipTypeOK
<1>1. ASSUME NEW p \in Provider PROVE Known(p) \subseteq Provider /\ Provider \ {p} \subseteq Provider
  BY DEF Known
<1>2. ASSUME UNCHANGED rec, view' \in [Provider -> [Provider -> GossipPeer \cup {NoPeer}]],
             msgs' \subseteq Message, faults' \in 0 .. MaxFaults, calm' = calm
      PROVE  GossipStepOK
  BY <1>0, <1>2 DEF GossipStepOK, GossipTypeOK, NotBack
<1>3. ASSUME NEW p \in Provider, NEW n \in MeshRecord, rec' = [rec EXCEPT ![p] = n],
             NotBack(rec[p], n), UNCHANGED <<view, calm>>, faults' \in 0 .. MaxFaults,
             msgs' \subseteq Message
      PROVE  GossipStepOK
  <2>1. /\ rec' \in [Provider -> MeshRecord \cup {NoRecord}]
        /\ rec'[p] = n /\ \A q \in Provider : q # p => rec'[q] = rec[q]
    BY <1>0, <1>3
  <2>2. \A q \in Provider : NotBack(rec[q], rec'[q])
    BY <1>3, <2>1 DEF NotBack
  <2> QED BY <1>0, <1>3, <2>1, <2>2 DEF GossipStepOK, GossipTypeOK
<1>4. ASSUME NEW p \in Provider, NEW h \in Heads, Put(p, h) PROVE GossipStepOK
  <2> DEFINE r == [head |-> h, deleted |-> FALSE, held |-> TRUE, home |-> NoOne]
  <2>0. r \in MeshRecord /\ r.head = h /\ ~r.deleted
    BY DEF MeshRecord
  <2>2. /\ Cas(h, rec[p]) /\ rec' = [rec EXCEPT ![p] = r]
        /\ Network({}, advertise(p, r, Known(p))) /\ UNCHANGED <<view, faults, calm>>
    BY <1>4 DEF Put
  <2> HIDE DEF r
  <2>1. r \in MeshRecord /\ r.head = h /\ ~r.deleted /\ r # NoRecord
    BY <2>0, GossipAssumption
  <2>3. NotBack(rec[p], r)
    BY <1>0, <2>1, <2>2, CasNews DEF NotBack
  <2>4. msgs' \subseteq Message
    BY <1>1, <2>1, <2>2, SentWellFormed, NetworkType
  <2> QED BY <1>0, <1>3, <2>1, <2>2, <2>3, <2>4
<1>5. ASSUME NEW p \in Provider, GossipDelete(p) PROVE GossipStepOK
  <2> DEFINE r == Learned(rec[p], rec[p].head, TRUE, rec[p].home)
  <2>1. /\ rec[p] # NoRecord /\ rec' = [rec EXCEPT ![p] = r]
        /\ Network({}, advertise(p, r, Known(p))) /\ UNCHANGED <<view, faults, calm>>
    BY <1>5 DEF GossipDelete
  <2>2. rec[p].head \in Heads /\ rec[p].home \in Provider \cup {NoOne}
    BY <1>0, <2>1, GossipForms
  <2>3. r \in MeshRecord /\ NotBack(rec[p], r)
    BY <1>0, <2>1, <2>2, LearnNews
  <2> HIDE DEF r
  <2>4. msgs' \subseteq Message
    BY <1>1, <2>1, <2>3, SentWellFormed, NetworkType
  <2> QED BY <1>0, <1>3, <2>1, <2>3, <2>4
<1>6. ASSUME NEW p \in Provider, NEW b \in BOOLEAN, rec[p] # NoRecord,
             rec' = [rec EXCEPT ![p].held = b], UNCHANGED <<view, calm>>,
             faults' \in 0 .. MaxFaults, msgs' \subseteq Message
      PROVE  GossipStepOK
  <2> DEFINE r == [rec[p] EXCEPT !.held = b]
  <2>1. r \in MeshRecord /\ r.head = rec[p].head /\ r.deleted = rec[p].deleted /\ r # NoRecord
    BY <1>0, <1>6, GossipForms, GossipAssumption
  <2>2. rec' = [rec EXCEPT ![p] = r]
    BY <1>0, <1>6
  <2> HIDE DEF r
  <2>3. NotBack(rec[p], r)
    BY <2>1 DEF NotBack
  <2> QED BY <1>3, <1>6, <2>1, <2>2, <2>3
<1>7. ASSUME NEW p \in Provider, Hold(p) PROVE GossipStepOK
  <2>1. /\ rec[p] # NoRecord /\ rec' = [rec EXCEPT ![p].held = TRUE]
        /\ Network({}, hello(p, rec'[p], Provider \ {p})) /\ UNCHANGED <<view, faults, calm>>
    BY <1>7 DEF Hold
  <2>2. rec'[p] \in MeshRecord
    BY <1>0, <2>1, GossipForms
  <2>3. msgs' \subseteq Message
    BY <1>1, <2>1, <2>2, SentWellFormed, NetworkType
  <2> QED BY <1>0, <1>6, <2>1, <2>3
<1>8. ASSUME NEW p \in Provider, Drop(p) PROVE GossipStepOK
  <2>1. /\ rec[p] # NoRecord /\ rec' = [rec EXCEPT ![p].held = FALSE]
        /\ faults' = faults + 1 /\ faults < MaxFaults /\ UNCHANGED <<view, msgs, calm>>
    BY <1>8 DEF Drop
  <2>2. faults' \in 0 .. MaxFaults /\ msgs' \subseteq Message
    BY <1>0, <2>1
  <2> QED BY <1>6, <2>1, <2>2
<1>9. ASSUME NEW p \in Provider, GossipRestart(p) PROVE GossipStepOK
  BY <1>0, <1>2, <1>9 DEF GossipRestart, NoPeers
<1>10. ASSUME NEW p \in Provider, NEW m \in msgs, NEW old \in BOOLEAN, Hello(p, m, old)
       PROVE  GossipStepOK
  <2> DEFINE q == m.from
             new == view[p][q] = NoPeer
             known == IF new THEN Joined ELSE view[p][q]
             ask == Ask(p, m, known, new, old)
             asked == [digest |-> m.digest, held_digest |-> m.held_digest,
                       syncing |-> TRUE, entry |-> NoRecord]
             v == IF ask THEN asked ELSE known
  <2>1. /\ view' = [view EXCEPT ![p][q] = v] /\ UNCHANGED <<rec, faults, calm>> /\ m.kind = "hello"
        /\ Network({m}, (IF new THEN hello(p, rec[p], {q}) ELSE {})
                        \cup (IF ask THEN request(p, "index_req", {q}) ELSE {}))
    BY <1>10 DEF Hello
  <2>2. q \in Provider /\ m.digest \in Digest /\ m.held_digest \in Heads \cup {NoHead}
    BY <1>0, <2>1, ReceivedWellFormed
  <2>3. asked \in GossipPeer /\ Joined \in GossipPeer
    BY <2>2 DEF GossipPeer, Joined, Digest
  <2>4. v \in GossipPeer
    BY <1>0, <2>2, <2>3
  <2>5. hello(p, rec[p], {q}) \subseteq Message /\ request(p, "index_req", {q}) \subseteq Message
    BY <1>0, <2>2, SentWellFormed
  <2> HIDE DEF v, new, ask
  <2>6. msgs' \subseteq Message
    BY <2>1, <2>5, NetworkType
  <2>7. view' \in [Provider -> [Provider -> GossipPeer \cup {NoPeer}]]
    BY <1>0, <2>1, <2>2, <2>4
  <2> QED BY <1>0, <1>2, <2>1, <2>6, <2>7
<1>11. ASSUME NEW p \in Provider, NEW m \in msgs, Stranger(p, m) PROVE GossipStepOK
  <2>1. Network({m}, hello(p, rec[p], {m.from})) /\ UNCHANGED <<rec, view, faults, calm>>
    BY <1>11 DEF Stranger
  <2>2. hello(p, rec[p], {m.from}) \subseteq Message
    <3>1. {m.from} \in SUBSET Provider
      BY <1>0, ReceivedWellFormed
    <3> QED BY <1>0, <3>1, SentWellFormed
  <2> QED BY <1>0, <1>2, <2>1, <2>2, NetworkType
<1>12. ASSUME NEW p \in Provider, NEW m \in msgs, IndexReq(p, m) PROVE GossipStepOK
  <2> DEFINE x == [to |-> m.from, from |-> p, kind |-> "index", entry |-> entry(rec[p])]
  <2>1. Network({m}, {x}) /\ UNCHANGED <<rec, view, faults, calm>>
    BY <1>12 DEF IndexReq
  <2>2. x \in Message
    BY <1>0, SentWellFormed, ReceivedWellFormed
  <2> HIDE DEF x
  <2> QED BY <1>0, <1>2, <2>1, <2>2, NetworkType
<1>13. ASSUME NEW p \in Provider, NEW m \in msgs, Index(p, m) PROVE GossipStepOK
  <2> DEFINE wanted == view[p][m.from].syncing
             needed == m.entry # NoRecord /\ needs_head(entry(rec[p]), m.entry)
  <2>1. /\ view' = IF wanted THEN [view EXCEPT ![p][m.from].entry = m.entry,
                                               ![p][m.from].syncing = FALSE]
                   ELSE view
        /\ Network({m}, IF wanted /\ needed THEN request(p, "head_req", {m.from}) ELSE {})
        /\ FromPeer(p, m, "index") /\ UNCHANGED <<rec, faults, calm>>
    BY <1>13 DEF Index
  <2>2. m.from \in Provider /\ m.entry \in Entry \cup {NoRecord}
    BY <1>0, <2>1, ReceivedWellFormed DEF FromPeer
  <2>3. view[p][m.from] \in GossipPeer
    BY <1>0, <2>1, <2>2 DEF FromPeer
  <2> DEFINE v == [[view[p][m.from] EXCEPT !.entry = m.entry] EXCEPT !.syncing = FALSE]
  <2>4. v \in GossipPeer
    BY <2>2, <2>3 DEF GossipPeer
  <2>5. wanted => view' = [view EXCEPT ![p][m.from] = v]
    BY <1>0, <2>1, <2>2
  <2>6. request(p, "head_req", {m.from}) \subseteq Message
    BY <1>0, <2>2, SentWellFormed
  <2> HIDE DEF v, wanted, needed
  <2>7. view' \in [Provider -> [Provider -> GossipPeer \cup {NoPeer}]]
    <3>1. CASE wanted
      BY <1>0, <2>2, <2>4, <2>5, <3>1
    <3>2. CASE ~wanted
      BY <1>0, <2>1, <3>2
    <3> QED BY <3>1, <3>2
  <2>8. msgs' \subseteq Message
    BY <2>1, <2>6, NetworkType
  <2> QED BY <1>0, <1>2, <2>1, <2>7, <2>8
<1>14. ASSUME NEW p \in Provider, NEW m \in msgs, HeadReq(p, m) PROVE GossipStepOK
  <2>1. Network({m}, advertise(p, rec[p], {m.from})) /\ UNCHANGED <<rec, view, faults, calm>>
    BY <1>14 DEF HeadReq
  <2>2. advertise(p, rec[p], {m.from}) \subseteq Message
    <3>1. {m.from} \in SUBSET Provider
      BY <1>0, ReceivedWellFormed
    <3> QED BY <1>0, <3>1, SentWellFormed
  <2> QED BY <1>0, <1>2, <2>1, <2>2, NetworkType
<1>15. ASSUME NEW p \in Provider, NEW m \in msgs, GossipLearn(p, m) PROVE GossipStepOK
  <2> DEFINE del == m.kind = "tombstone"
             outcome == learn(rec[p], m.head, del)
             r == Learned(rec[p], m.head, del, NoOne)
             new == CASE outcome = "New" -> advertise(p, r, Known(p))
                      [] outcome \in {"Stale", "deleted"} -> advertise(p, rec[p], {m.from})
                      [] OTHER -> {}
  <2>1. /\ FromPeer(p, m, "head") \/ FromPeer(p, m, "tombstone")
        /\ rec' = IF outcome = "New" THEN [rec EXCEPT ![p] = r] ELSE rec
        /\ Network({m}, new) /\ UNCHANGED <<view, faults, calm>>
    BY <1>15 DEF GossipLearn
  <2>2. m.from \in Provider /\ m.head \in Heads /\ del \in BOOLEAN /\ rec[p] \in MeshRecord \cup {NoRecord}
    BY <1>0, <2>1, ReceivedWellFormed DEF FromPeer
  <2> HIDE DEF del
  <2>3. r \in MeshRecord /\ (outcome = "New" => NotBack(rec[p], r))
    BY <2>2, LearnNews
  <2> HIDE DEF r, outcome
  <2>4. advertise(p, r, Known(p)) \subseteq Message /\ advertise(p, rec[p], {m.from}) \subseteq Message
    BY <1>1, <2>2, <2>3, SentWellFormed
  <2>5. new \subseteq Message
    BY <2>4
  <2> HIDE DEF new
  <2>6. msgs' \subseteq Message
    BY <2>1, <2>5, NetworkType
  <2>7. CASE outcome = "New"
    BY <1>0, <1>3, <2>1, <2>3, <2>6, <2>7
  <2>8. CASE outcome # "New"
    BY <1>0, <1>2, <2>1, <2>6, <2>8
  <2> QED BY <2>7, <2>8
<1>16. ASSUME NEW p \in Provider, NEW late \in BOOLEAN, Tick(p, late) PROVE GossipStepOK
  <2> DEFINE again == {q \in Known(p) : late /\ view[p][q].syncing}
  <2>1. /\ Network({}, hello(p, rec[p], Provider \ {p}) \cup request(p, "index_req", again))
        /\ UNCHANGED <<rec, view, faults, calm>>
    BY <1>16 DEF Tick
  <2>2. again \subseteq Provider
    BY <1>1
  <2> HIDE DEF again
  <2>3. hello(p, rec[p], Provider \ {p}) \subseteq Message /\ request(p, "index_req", again) \subseteq Message
    BY <1>0, <1>1, <2>2, SentWellFormed
  <2> QED BY <1>0, <1>2, <2>1, <2>3, NetworkType
<1>17. CASE GossipEnvironment
  BY <1>4, <1>5, <1>7, <1>8, <1>9, <1>17 DEF GossipEnvironment
<1>18. ASSUME NEW p \in Provider, NEW m \in msgs, Deliver(p, m) PROVE GossipStepOK
  BY <1>10, <1>11, <1>12, <1>13, <1>14, <1>15, <1>18 DEF Deliver
<1> QED
  BY <1>10, <1>16, <1>17, <1>18 DEF GossipNext

LEMMA GossipInvariant ==
    GossipSpec => []GossipTypeOK
<1>1. GossipInit => GossipTypeOK
  <2> SUFFICES ASSUME GossipInit PROVE GossipTypeOK
    OBVIOUS
  <2>1. calm \in BOOLEAN
    BY Zenon DEF GossipInit
  <2>2. /\ rec \in [Provider -> MeshRecord \cup {NoRecord}]
        /\ view \in [Provider -> [Provider -> GossipPeer \cup {NoPeer}]]
        /\ msgs \subseteq Message /\ faults \in 0 .. MaxFaults
    BY MeshAssumption DEF GossipInit, NoPeers
  <2> QED BY <2>1, <2>2 DEF GossipTypeOK
<1>2. GossipTypeOK /\ [GossipNext]_gossipVars => GossipTypeOK'
  <2>1. GossipTypeOK /\ UNCHANGED gossipVars => GossipTypeOK'
    BY DEF gossipVars, GossipTypeOK
  <2> QED BY <2>1, GossipStep DEF GossipStepOK
<1> QED BY <1>1, <1>2, PTL DEF GossipSpec

(* Repository::learn, reserve and mesh_delete keep every provider's record  *)
(* moving forward, for any providers and heads and whatever hellos,         *)
(* indexes, heads and tombstones are lost, delayed or reordered: no older   *)
(* head, no fork, and no deleted head served again.                         *)
THEOREM SlotsMoveForward == GossipSpec => NoRollback
<1>1. GossipTypeOK /\ [GossipNext]_gossipVars =>
        [\A p \in Provider : rec[p] # NoRecord =>
           /\ rec'[p] # NoRecord
           /\ \/ seqOf[rec'[p].head] > seqOf[rec[p].head]
              \/ /\ rec'[p].head = rec[p].head
                 /\ rec[p].deleted => rec'[p].deleted]_gossipVars
  BY GossipStep DEF GossipStepOK, NotBack
<1> QED BY <1>1, GossipInvariant, PTL DEF GossipSpec, NoRollback

=============================================================================
