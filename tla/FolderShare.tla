----------------------------- MODULE FolderShare -----------------------------
(* A shared folder: the owner's rescan loop (src/src/storage/folder_owner.rs) *)
(* and a follower's sync daemon (src/src/storage/folder_sync.rs).  The owner  *)
(* keeps a record per file, republishes a bundle of all records when its      *)
(* directory changed and announces it; the follower applies announcements in  *)
(* its background loop while a single-flight task retries an entry that is    *)
(* not synced.  Both work on a snapshot of the entry and write it back later. *)
(* A content is a number: its checksum and the file bundle that holds it are  *)
(* that number.  A bundle's cid is its position in published; its signature   *)
(* is a function of it.  The folder has no subfolders.                        *)
EXTENDS Naturals, Sequences, FiniteSets, SequencesExt, FiniteSetsExt

CONSTANTS
    FilePath,        \* paths relative to the shared directory
    Content,         \* contents a file may have, a set of positive numbers
    BusCap,          \* capacity of the envelope broadcast channel
    MaxEdits,        \* bound on the user's changes of the owner's directory
    MaxShareFaults,  \* bound on failed publishes, fetches, sends and crashes
    MaxStops         \* bound on stop_sync

ASSUME FolderAssumption ==
    /\ Content \subseteq Nat \ {0}
    /\ BusCap \in Nat \ {0}
    /\ MaxEdits \in Nat /\ MaxShareFaults \in Nat /\ MaxStops \in Nat

VARIABLES
    ownDir,      \* the owner's directory: the content at each path, 0 if none
    ownFiles,    \* SharedFolder.files: the record of every file ever seen
    ownIndex,    \* path_index.file_ids: the live record of each path, 0 if none
    published,   \* the bundles in the p2p store, in order; the last is last_cid
    announced,   \* last_announced: the cid announced within the dedup window
    bus,         \* envelopes the follower has not read yet
    folderHello,       \* a hello of the follower that the owner has not answered
    syncEntry,   \* the row of folder-syncs.json, or NoSync
    syncDisk,    \* the follower's local_dir
    worker,      \* the follower's background loop and its retry task
    folderSent,        \* clock of the newest envelope, relative to the row's last_clock
    edits, shareFaults, stops

shareVars == <<ownDir, ownFiles, ownIndex, published, announced, bus, folderHello,
               syncEntry, syncDisk, worker, folderSent, edits, shareFaults, stops>>
ownerVars == <<ownDir, ownFiles, ownIndex, published, announced, edits>>

NoSync == [status |-> "none"]
SharePc == {"idle", "grant", "await", "fetch", "remove", "commit", "fail"}

(* The owner's last_cid.                                                    *)
LastCid == Len(published)

Envelope(type, cid, file, clock) ==
    [type |-> type, cid |-> cid, file |-> file, clock |-> clock]
NoFile == [id |-> 0, path |-> "", sum |-> 0, cid |-> 0, deleted |-> FALSE]
Resting == [pc |-> "idle", snap |-> NoSync, kind |-> "none", cid |-> 0,
            sig |-> 0, file |-> NoFile, files |-> {}, gone |-> {}]

(* share_folder has scanned the directory and published it before it writes  *)
(* the row and hands out the link; its announcement may have been lost.      *)
ShareInit ==
    /\ \E P \in SUBSET FilePath :
        LET paths == SetToSeq(P) IN
        /\ ownDir = [p \in FilePath |-> IF p \in P THEN 1 ELSE 0]
        /\ ownFiles = [i \in DOMAIN paths |->
                          [id |-> i, path |-> paths[i], sum |-> 1, cid |-> 1,
                           deleted |-> FALSE]]
        /\ ownIndex = [p \in FilePath |->
                          IF p \in P THEN CHOOSE i \in DOMAIN paths : paths[i] = p
                          ELSE 0]
    /\ published = <<ownFiles>> /\ announced = 0
    /\ bus = <<>> /\ folderHello = FALSE
    /\ syncEntry = NoSync
    /\ syncDisk = [p \in FilePath |-> 0]
    /\ worker = [w \in {"loop", "retry"} |-> Resting]
    /\ folderSent = 0
    /\ edits = 0 /\ shareFaults = 0 /\ stops = 0

Fault == shareFaults < MaxShareFaults /\ shareFaults' = shareFaults + 1

(***************************************************************************)
(* The owner                                                               *)
(***************************************************************************)
(* A user of the owner's machine writes or removes a file.                  *)
Edit(p, c) ==
    /\ edits < MaxEdits /\ edits' = edits + 1
    /\ ownDir[p] # c
    /\ ownDir' = [ownDir EXCEPT ![p] = c]
    /\ UNCHANGED <<ownFiles, ownIndex, published, announced, bus, folderHello,
                   syncEntry, syncDisk, worker, folderSent, shareFaults, stops>>

(* What rescan_local_dir finds at the paths it walks.                       *)
Upserted == {p \in FilePath : /\ ownDir[p] # 0
                              /\ \/ ownIndex[p] = 0
                                 \/ ownFiles[ownIndex[p]].sum # ownDir[p]}
Vanished == {p \in FilePath : ownDir[p] = 0 /\ ownIndex[p] # 0}

(* rescan_local_dir over the changed paths P: a path with a live record has  *)
(* the record updated, a new path gets a record of its own, and the record   *)
(* of a vanished path is marked deleted and leaves the index.                *)
NewPaths(P) == SetToSeq({p \in P : ownDir[p] # 0 /\ ownIndex[p] = 0})
RescannedIndex(P) ==
    [p \in FilePath |->
        IF p \in P /\ ownDir[p] = 0 THEN 0
        ELSE IF p \in P /\ ownIndex[p] = 0
             THEN Len(ownFiles) + CHOOSE i \in DOMAIN NewPaths(P) :
                                            NewPaths(P)[i] = p
             ELSE ownIndex[p]]
RescannedFiles(P) ==
    [i \in DOMAIN ownFiles |->
        LET f == ownFiles[i] IN
        IF f.path \notin P \/ ownIndex[f.path] # i THEN f
        ELSE IF ownDir[f.path] = 0 THEN [f EXCEPT !.deleted = TRUE]
             ELSE [f EXCEPT !.sum = ownDir[f.path]]]
    \o [i \in DOMAIN NewPaths(P) |->
            [id |-> Len(ownFiles) + i, path |-> NewPaths(P)[i],
             sum |-> ownDir[NewPaths(P)[i]], cid |-> 0, deleted |-> FALSE]]

(* republish adds a file bundle per upserted file and sets its cid.         *)
WithCids(files, P) ==
    [i \in DOMAIN files |->
        IF files[i].path \in P /\ ~files[i].deleted
        THEN [files[i] EXCEPT !.cid = files[i].sum] ELSE files[i]]

(* The bus holds BusCap envelopes; a receiver that lags loses the oldest.   *)
(* A broadcast that fails, or is lost, ends the batch.                      *)
DeliverShare(envelopes) ==
    LET all == bus \o envelopes
    IN  bus' = SubSeq(all, 1 + Max({0, Len(all) - BusCap}), Len(all))
LastClock(envelopes) ==
    IF envelopes = <<>> THEN folderSent ELSE Min({envelopes[Len(envelopes)].clock, BusCap + 1})
SendPrefix(envelopes) ==
    \E n \in 0..Len(envelopes) :
        /\ IF n < Len(envelopes) THEN Fault ELSE UNCHANGED shareFaults
        /\ DeliverShare(SubSeq(envelopes, 1, n))
        /\ folderSent' = LastClock(SubSeq(envelopes, 1, n))
        /\ announced' = IF n > 0 THEN envelopes[1].cid ELSE announced

NextClock == Min({folderSent + 1, BusCap + 1})

(* announce_publish, then announce_file_change for the upserted and deleted  *)
(* files.  Envelopes of one batch may be stamped with the same millisecond.  *)
PublishBatch(cid, files, tie) ==
    LET named == SelectSeq(files, LAMBDA f : f.path \in Upserted \cup Vanished
                                             /\ (f.deleted => ownIndex[f.path] = f.id))
        up == SelectSeq(named, LAMBDA f : ~f.deleted)
        down == SelectSeq(named, LAMBDA f : f.deleted)
        type(f) == IF f.deleted THEN "file-deleted" ELSE "file-upserted"
        change(f, i) == Envelope(type(f), 0, f, NextClock + (IF tie THEN 0 ELSE i))
        all == up \o down
    IN  <<Envelope("folder-share", cid, NoFile, NextClock)>>
        \o [i \in DOMAIN all |-> change(all[i], i)]

(* rescan_and_announce of a changed directory, under TABLE_LOCK.            *)
RescanChanged ==
    LET P == Upserted \cup Vanished
    IN  /\ P # {}
        /\ ownIndex' = RescannedIndex(P)
        /\ \E files \in {WithCids(RescannedFiles(P), Upserted)} :
              /\ ownFiles' = files
              /\ published' = Append(published, files)
              /\ \E batch \in {PublishBatch(LastCid + 1, files, tie) : tie \in BOOLEAN} :
                    SendPrefix(batch)
        /\ UNCHANGED <<ownDir, folderHello, syncEntry, syncDisk, worker, edits, stops>>

(* The rescan or the publish fails half way: run_background logs the error   *)
(* and saves the table with the records as they are.                         *)
RescanFails ==
    LET P == Upserted \cup Vanished
    IN  /\ P # {} /\ Fault
        /\ \E Q \in (SUBSET P) \ {{}} : \E R \in SUBSET (Q \cap Upserted) :
            /\ ownIndex' = RescannedIndex(Q)
            /\ ownFiles' = WithCids(RescannedFiles(Q), R)
        /\ UNCHANGED <<ownDir, published, announced, bus, folderHello, syncEntry,
                       syncDisk, worker, folderSent, edits, stops>>

(* should_skip_folder_state: announced within the dedup window.             *)
ShouldSkip(cid) == announced = cid

FolderState == Envelope("folder-state", LastCid, NoFile, NextClock)

(* rescan_and_announce of an unchanged directory.                           *)
RescanUnchanged ==
    /\ Upserted \cup Vanished = {}
    /\ ~ShouldSkip(LastCid)
    /\ SendPrefix(<<FolderState>>)
    /\ UNCHANGED <<ownDir, ownFiles, ownIndex, published, folderHello, syncEntry,
                   syncDisk, worker, edits, stops>>

(* FOLDER_STATE_DEDUP_WINDOW passes.                                        *)
DedupElapses ==
    /\ announced # 0 /\ announced' = 0
    /\ UNCHANGED <<ownDir, ownFiles, ownIndex, published, bus, folderHello, syncEntry,
                   syncDisk, worker, folderSent, edits, shareFaults, stops>>

(* dispatch_envelope of a hello: the state is announced whatever the window, *)
(* unless the throttle refuses the peer.                                     *)
AnswerHello ==
    /\ folderHello /\ folderHello' = FALSE
    /\ \/ SendPrefix(<<FolderState>>)
       \/ Fault /\ UNCHANGED <<bus, folderSent, announced>>
    /\ UNCHANGED <<ownDir, ownFiles, ownIndex, published, syncEntry, syncDisk,
                   worker, edits, stops>>

(***************************************************************************)
(* The follower                                                            *)
(***************************************************************************)
(* register_sync writes the row and starts the retry task.                  *)
RegisterSync ==
    /\ syncEntry = NoSync
    /\ syncEntry' = [status |-> "connecting", key |-> FALSE, cid |-> 0,
                     sig |-> 0, files |-> {}]
    /\ UNCHANGED <<ownerVars, bus, folderHello, syncDisk, worker, folderSent, shareFaults, stops>>

StopSync ==
    /\ stops < MaxStops /\ stops' = stops + 1
    /\ syncEntry # NoSync
    /\ syncEntry' = NoSync
    /\ UNCHANGED <<ownerVars, bus, folderHello, syncDisk, worker, folderSent, shareFaults>>

(* A row that is not there is added.                                        *)
UpdateEntryPushes(new) ==
    syncEntry' = IF syncEntry # NoSync THEN new
                 ELSE [status |-> "error", key |-> FALSE, cid |-> 0, sig |-> 0,
                       files |-> {}]

(* update_entry: a row that was stopped meanwhile is not written back.      *)
UpdateEntry(new) ==
    syncEntry' = IF syncEntry = NoSync THEN NoSync ELSE new

(* plan_resync, and what sync_bundle makes of it: the rows that are reused,  *)
(* the files to fetch and the paths to remove.  A file is skipped when it    *)
(* has no cid, when its bundle holds another content than its record says,   *)
(* or when its fetch fails.                                                  *)
LiveEntries(bundle) == {bundle[i] : i \in {j \in DOMAIN bundle : ~bundle[j].deleted}}
Row(f) == [id |-> f.id, path |-> f.path, sum |-> f.sum]
Reused(bundle, rows) ==
    {r \in rows : \E f \in LiveEntries(bundle) : f.cid # 0 /\ Row(f) = r}
ToFetch(bundle, rows) ==
    {f \in LiveEntries(bundle) : f.cid = f.sum /\ Row(f) \notin rows}
ToRemove(bundle, rows) ==
    {r.path : r \in {s \in rows : \A f \in LiveEntries(bundle) : f.id # s.id}}

Written(files) ==
    [p \in FilePath |-> IF \E f \in files : f.path = p
                        THEN (CHOOSE f \in files : f.path = p).sum
                        ELSE syncDisk[p]]
Removed(paths) == [p \in FilePath |-> IF p \in paths THEN 0 ELSE syncDisk[p]]

(* Only the signatures are compared.                                        *)
ResyncNeededBySignature(entry, cid) == entry.sig # 0 /\ entry.sig # cid

(* resync_needed                                                            *)
ResyncNeeded(entry, cid) ==
    \/ entry.cid # cid
    \/ entry.sig # 0 /\ entry.sig # cid

(* handle_envelope: an envelope that is not newer than last_clock is         *)
(* ignored; otherwise last_clock moves on and the handler starts from the    *)
(* row as it was read.  Clocks are relative to last_clock.                   *)
Rebased(q, c) == [i \in DOMAIN q |-> [q[i] EXCEPT !.clock = Max({0, @ - c})]]
Started(kind, env, pc) ==
    [Resting EXCEPT !.pc = pc, !.snap = syncEntry, !.kind = kind, !.cid = env.cid,
                    !.sig = env.cid, !.file = env.file]
HandleEnvelope ==
    /\ bus # <<>> /\ worker["loop"].pc = "idle"
    /\ LET env == Head(bus)
           fresh == syncEntry # NoSync /\ env.clock > 0
           base == IF fresh THEN env.clock ELSE 0
           snap == syncEntry
           begin(w) == worker' = [worker EXCEPT !["loop"] = w]
       IN  /\ bus' = Rebased(Tail(bus), base)
           /\ folderSent' = IF folderSent > base THEN folderSent - base ELSE 0
           /\ \/ ~fresh /\ UNCHANGED <<worker, syncEntry>>
              \/ /\ fresh /\ env.type \in {"folder-share", "folder-state"}
                 /\ IF ResyncNeeded(snap, env.cid)
                    THEN begin(Started("bundle", env, "fetch")) /\ UNCHANGED syncEntry
                    ELSE /\ UNCHANGED worker
                         /\ UpdateEntry([syncEntry EXCEPT !.sig =
                                           IF @ = 0 THEN env.cid ELSE @])
              \/ /\ fresh /\ env.type = "file-upserted"
                 /\ begin(Started("upsert", env, "fetch"))
                 /\ UNCHANGED syncEntry
              \/ /\ fresh /\ env.type = "file-deleted"
                 /\ IF \E r \in snap.files : r.id = env.file.id
                    THEN begin(Started("delete", env, "remove")) ELSE UNCHANGED worker
                 /\ UNCHANGED syncEntry
    /\ UNCHANGED <<ownerVars, folderHello, syncDisk, shareFaults, stops>>

(* The retry tick, or the end of register_sync: one task per folder at a     *)
(* time, and none for a synced row.  With no key it asks for access, else it *)
(* says hello and waits for a folder-state.                                  *)
RetrySyncOnce ==
    /\ syncEntry # NoSync /\ syncEntry.status # "synced"
    /\ worker["retry"].pc = "idle"
    /\ worker' = [worker EXCEPT !["retry"] =
                    [Resting EXCEPT !.pc = IF syncEntry.key THEN "await" ELSE "grant",
                                    !.snap = syncEntry,
                                    !.kind = IF syncEntry.key THEN "resync" ELSE "initial"]]
    /\ folderHello' = TRUE
    /\ UNCHANGED <<ownerVars, bus, syncEntry, syncDisk, folderSent, shareFaults, stops>>

RetryGoes(w) == worker' = [worker EXCEPT !["retry"] = w]

(* request_and_await_grant: the grant carries the owner's last_cid.          *)
AwaitGrant ==
    /\ worker["retry"].pc = "grant"
    /\ \/ /\ RetryGoes([worker["retry"] EXCEPT !.pc = "fetch", !.cid = LastCid])
          /\ UNCHANGED shareFaults
       \/ Fault /\ RetryGoes([worker["retry"] EXCEPT !.pc = "fail"])
    /\ UNCHANGED <<ownerVars, bus, folderHello, syncEntry, syncDisk, folderSent, stops>>

(* await_folder_state_cid, in run_resync: a folder-state on the bus, or the  *)
(* timeout and the last known cid.                                           *)
AwaitFolderState ==
    /\ worker["retry"].pc = "await"
    /\ \/ \E i \in DOMAIN bus :
            /\ bus[i].type = "folder-state"
            /\ RetryGoes([worker["retry"] EXCEPT !.pc = "fetch", !.cid = bus[i].cid])
       \/ RetryGoes([worker["retry"] EXCEPT
              !.pc = IF worker["retry"].snap.cid = 0 THEN "fail" ELSE "fetch",
              !.cid = worker["retry"].snap.cid])
    /\ UNCHANGED <<ownerVars, bus, folderHello, syncEntry, syncDisk, folderSent, shareFaults,
                   stops>>

(* fetch_folder_bundle and the writes of sync_bundle, or of                  *)
(* apply_file_upsert.  A bundle or a file that cannot be fetched fails the   *)
(* handler; a file of a bundle that cannot be fetched is skipped.            *)
ShareFetch(w) ==
    LET k == worker[w]
        initial == k.kind = "initial"
        rows == IF initial THEN {} ELSE k.snap.files
        go(new) == worker' = [worker EXCEPT ![w] = new]
    IN  /\ k.pc = "fetch"
        /\ \/ /\ k.kind # "upsert" /\ (initial \/ k.snap.key)
              /\ LET bundle == published[k.cid] IN
                 \E F \in SUBSET ToFetch(bundle, rows) :
                   /\ IF F # ToFetch(bundle, rows) THEN Fault ELSE UNCHANGED shareFaults
                   /\ syncDisk' = Written(F)
                   /\ go([k EXCEPT !.pc = "remove",
                            !.files = Reused(bundle, rows) \cup {Row(f) : f \in F},
                            !.gone = ToRemove(bundle, rows)])
           \/ /\ k.kind = "upsert" /\ k.snap.key /\ k.file.cid = k.file.sum
              /\ syncDisk' = Written({k.file})
              /\ go([k EXCEPT !.pc = "commit"])
              /\ UNCHANGED shareFaults
           \/ /\ IF (k.kind = "upsert" /\ k.file.cid # k.file.sum)
                    \/ ~(initial \/ k.snap.key)
                 THEN UNCHANGED shareFaults ELSE Fault
              /\ go([k EXCEPT !.pc = "fail"])
              /\ UNCHANGED syncDisk
        /\ UNCHANGED <<ownerVars, bus, folderHello, syncEntry, folderSent, stops>>

(* The removals: remove_paths at the end of sync_bundle, or the file of      *)
(* apply_file_delete.                                                        *)
ShareRemove(w) ==
    LET k == worker[w]
        paths == IF k.kind = "delete"
                 THEN {r.path : r \in {s \in k.snap.files : s.id = k.file.id}}
                 ELSE k.gone
    IN  /\ k.pc = "remove"
        /\ syncDisk' = Removed(paths)
        /\ worker' = [worker EXCEPT ![w].pc = "commit"]
        /\ UNCHANGED <<ownerVars, bus, folderHello, syncEntry, folderSent, shareFaults, stops>>

(* The update_entry each handler ends with.                                 *)
Others(rows, id) == {r \in rows : r.id # id}
ShareCommit(w) ==
    LET k == worker[w]
        e == syncEntry
        synced == [e EXCEPT !.status = "synced"]
    IN  /\ k.pc = "commit"
        /\ UpdateEntry(
             CASE k.kind = "bundle" ->
                    [synced EXCEPT !.files = k.files, !.cid = k.cid, !.sig = k.sig]
               [] k.kind = "resync" ->
                    [synced EXCEPT !.files = k.files, !.cid = k.cid]
               [] k.kind = "initial" ->
                    [synced EXCEPT !.files = k.files, !.cid = k.cid, !.key = TRUE]
               [] k.kind = "upsert" ->
                    [synced EXCEPT !.files = Others(@, k.file.id) \cup {Row(k.file)}]
               [] k.kind = "delete" ->
                    [synced EXCEPT !.files = Others(@, k.file.id)])
        /\ worker' = [worker EXCEPT ![w] = Resting]
        /\ UNCHANGED <<ownerVars, bus, folderHello, syncDisk, folderSent, shareFaults, stops>>

(* A handler that failed marks the row for the retry tick.                  *)
ShareFailed(w) ==
    /\ worker[w].pc = "fail"
    /\ UpdateEntry([syncEntry EXCEPT !.status = "error"])
    /\ worker' = [worker EXCEPT ![w] = Resting]
    /\ UNCHANGED <<ownerVars, bus, folderHello, syncDisk, folderSent, shareFaults, stops>>

(* The follower's daemon stops and starts: its handlers and what was on the  *)
(* bus are gone, and it says hello for a synced row.                         *)
FollowerRestart ==
    /\ syncEntry # NoSync /\ Fault
    /\ worker' = [w \in {"loop", "retry"} |-> Resting]
    /\ bus' = <<>>
    /\ folderHello' = TRUE
    /\ UNCHANGED <<ownerVars, syncEntry, syncDisk, folderSent, stops>>

(* The owner's run_background, the follower's, and its retry task.           *)
OwnerLoop == RescanChanged \/ RescanUnchanged \/ AnswerHello
Handling(w) == ShareFetch(w) \/ ShareRemove(w) \/ ShareCommit(w) \/ ShareFailed(w)
FollowerLoop == HandleEnvelope \/ Handling("loop")
RetryTask == RetrySyncOnce \/ AwaitGrant \/ AwaitFolderState \/ Handling("retry")

ShareNext ==
    \/ OwnerLoop \/ DedupElapses
    \/ FollowerLoop \/ RetryTask
    \/ \E p \in FilePath, c \in Content \cup {0} : Edit(p, c)
    \/ RescanFails
    \/ RegisterSync \/ StopSync \/ FollowerRestart

ShareSpec == ShareInit /\ [][ShareNext]_shareVars

(* The ticks of the daemons recur, time passes, and their tasks run.        *)
ShareFairSpec ==
    /\ ShareSpec
    /\ WF_shareVars(OwnerLoop) /\ WF_shareVars(DedupElapses)
    /\ WF_shareVars(FollowerLoop) /\ WF_shareVars(RetryTask)

(***************************************************************************)
(* Properties                                                              *)
(***************************************************************************)
(* Types of the state.                                                      *)
ShareTypeOK ==
    /\ ownDir \in [FilePath -> Content \cup {0}]
    /\ ownIndex \in [FilePath -> 0..Len(ownFiles)]
    /\ Len(bus) <= BusCap
    /\ \A i \in DOMAIN bus : bus[i].cid \in 0..LastCid
    /\ syncEntry # NoSync => /\ syncEntry.status \in {"connecting", "synced", "error"}
                             /\ syncEntry.cid \in 0..LastCid
    /\ syncDisk \in [FilePath -> Content \cup {0}]
    /\ \A w \in {"loop", "retry"} : worker[w].pc \in SharePc
    /\ folderSent \in 0..(BusCap + 1)

(* A sync that was stopped comes back only by being registered anew: the     *)
(* handler or retry task under way when stop_sync removed the row does not   *)
(* write it back with its own update_entry.                                  *)
StoppedStays ==
    [][syncEntry = NoSync /\ syncEntry' # NoSync
         => syncEntry'.status = "connecting" /\ syncEntry'.files = {}]_shareVars

(* Once the owner's directory and the network settle, a registered follower  *)
(* ends up at the bundle the owner published last and stays there, although  *)
(* announcements were lost, came in the same millisecond, were overwritten   *)
(* by a retry that had heard an older one, or were cut off by a restart.     *)
FolderCaughtUp ==
    <>[](syncEntry = NoSync
         \/ (syncEntry.cid = LastCid /\ syncEntry.status = "synced"))

==============================================================================
