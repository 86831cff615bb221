--------------------------- MODULE EscrowRepository ---------------------------
(***************************************************************************)
(* The durable checkpoint repository of the escrow service                 *)
(* (src/src/escrow/repository.rs, repository_mesh.rs) driven by the        *)
(* requests of src/src/escrow/mod.rs and the mesh of mesh/service.rs.      *)
(*                                                                         *)
(* One file under heads/ per (room, slot) references at most two           *)
(* generations under blobs/.  All mutations run inside one mutex (`index') *)
(* and perform several file operations; the process may crash, the machine *)
(* may lose power, or an I/O call may fail, between any two of them.  `cs' *)
(* is the critical section in progress and how far it got.  A PUT holds    *)
(* its slot's lock stripe and a byte reservation while it pulls the blob   *)
(* from the sending peer, outside that mutex.                              *)
(***************************************************************************)
EXTENDS EscrowHeads, FiniteSets, Functions

CONSTANTS
    Room,         \* mistlib rooms
    MeshRoom,     \* rooms with automatic replication (auto_replicas >= 2)
    Peer,         \* transport peers; the owner a PUT is accounted to
    NoOwner,
    Task,         \* requests in flight at once
    size,         \* bytes a generation occupies: blob plus its manifest
    reserveSize,  \* bytes a PUT reserves: blob plus manifest_limit
    ownerLimit,   \* authz escrow_byte_limit of a peer
    MaxTotal,     \* EscrowConfig.max_total_bytes
    MaxSlots,     \* EscrowConfig.max_slots_per_room
    MaxPulls,     \* concurrent pulls the service admits
    NoRec         \* no record file / no record in memory

VARIABLES
    disk,      \* heads/: the visible record file of each key, or NoRec
    durable,   \* the record files a power loss leaves behind: differs from
               \* disk while a rename or an unlink is not yet synced
    gens,      \* blobs/: state of each generation directory
    up,        \* the service is open
    records,   \* Index.records
    failed,    \* Index.write_failed
    cs,        \* the critical section in progress, or Free
    task,      \* PUTs and mesh pulls in flight
    migrated,  \* rooms handed over to Raft replication, to be retired
    acked      \* ghost: escrow_ack replies sent, as <<key, head>>, except
               \* those of slots whose writer has since asked for deletion

vars == <<disk, durable, gens, up, records, failed, cs, task, migrated, acked>>

-----------------------------------------------------------------------------
(* Keys and records.                                                       *)

Key == Room \X Slot

HeadsFor(k) == {h \in Heads : slotOf[h] = k[2]}

(* The home provider of a mesh slot: nobody yet, this one or another.      *)
Home == {"none", "self", "other"}

Rec == [current : Heads, held : BOOLEAN,
        previous : Heads \cup {NoHead}, previous_held : BOOLEAN,
        deleted : BOOLEAN, home : Home, owner : Peer \cup {NoOwner}]

(* "part": not all files present, or not yet synced; "bad": content no     *)
(* longer matches its hashes.                                              *)
GenState == {"none", "part", "full", "bad"}

Free == [op |-> "free", at |-> "free"]

Section ==
    [op : {"commit", "meta", "unlink", "retire"},
     at : {"write", "sync", "publish", "index", "cleanup"},
     key : Key, rec : Rec \cup {NoRec}, by : Task \cup {"none"}]
    \cup [op : {"open"}, at : {"load", "cleanup"}]
    \cup {Free}

Idle == [pc |-> "idle"]

TaskState ==
    {Idle} \cup
    [pc : {"pull", "commit", "home", "homing", "retry"},
     kind : {"put", "pull"}, key : Key, head : Heads,
     from : Peer, ownerAmount : Nat]

ASSUME RepositoryAssumption ==
    /\ MeshRoom \subseteq Room
    /\ NoRec \notin Rec
    /\ NoOwner \notin Peer
    /\ "none" \notin Task
    /\ MaxTotal \in Nat /\ MaxSlots \in Nat /\ MaxPulls \in Nat
    /\ size \in [Heads -> Nat] /\ reserveSize \in [Heads -> Nat]
    /\ ownerLimit \in [Peer -> Nat]

(* Rooms are configured, slot names are strings of bounded length and the  *)
(* requests in flight are bounded.                                         *)
ASSUME FiniteAssumption == IsFiniteSet(Room) /\ IsFiniteSet(Slot) /\ IsFiniteSet(Task)

ASSUME ReserveAssumption == \A h \in Heads : size[h] =< reserveSize[h]

(* Record::held_heads *)
held_heads(r) ==
    {h \in Heads : /\ r # NoRec
                  /\ ~r.deleted
                  /\ \/ r.held /\ h = r.current
                     \/ r.previous_held /\ h = r.previous}

Live(r) == r # NoRec /\ ~r.deleted

CurrentOf(r) == IF Live(r) THEN r.current ELSE NoHead

-----------------------------------------------------------------------------
(* Accounting: rebuild_index recomputes the byte totals from the records;  *)
(* reservations are those of the tasks in flight.                          *)

Reserving == {t \in Task : task[t].pc \in {"pull", "commit", "home", "homing"}}

BytesOf(r) == SumFunctionOnSet(size, held_heads(r))

bytes(recs) == SumFunction([k \in Key |-> BytesOf(recs[k])])

reserved ==
    SumFunction([t \in Task |->
        IF t \in Reserving THEN reserveSize[task[t].head] ELSE 0])

OwnedBytes(r, p) == IF r # NoRec /\ r.owner = p THEN BytesOf(r) ELSE 0

owner_bytes(recs, p) == SumFunction([k \in Key |-> OwnedBytes(recs[k], p)])

owner_reserved(p) ==
    SumFunction([t \in Task |->
        IF t \in Reserving /\ task[t].kind = "put" /\ task[t].from = p
        THEN task[t].ownerAmount ELSE 0])

SlotsIn(recs, r) == Cardinality({k \in Key : k[1] = r /\ recs[k] # NoRec})

PendingIn(r) == Cardinality({t \in Reserving : task[t].key[1] = r})

(* Mutant: slots being created are not counted.                            *)
SlotRoomIgnoresPending(k) ==
    records[k] = NoRec => SlotsIn(records, k[1]) < MaxSlots

SlotRoom(k) ==
    records[k] = NoRec => SlotsIn(records, k[1]) + PendingIn(k[1]) < MaxSlots

-----------------------------------------------------------------------------
(* Repository::reserve, for a client PUT (owner = the sending peer) or for *)
(* a mesh pull (owner = NoOwner).                                          *)

(* Mutant: only the backup generation counts as a retry.                   *)
RetainedBackupOnly(k, h) == Live(records[k]) /\ records[k].previous = h

(* A head that is still retained is a retry, acknowledged without a pull.  *)
Retained(k, h) ==
    /\ Live(records[k])
    /\ \/ records[k].previous = h
       \/ records[k].current = h /\ records[k].held

Admissible(k, h) ==
    LET r == records[k] IN
    IF r # NoRec /\ r.deleted THEN successor(h, r.current)
    ELSE check_cas(h, CurrentOf(r)) \in {"ok", "retry"}

(* A new owner also inherits whichever previous head the commit retains.   *)
Inherited(k, h, owner) ==
    LET r == records[k] IN
    IF Live(r) /\ owner # NoOwner /\ r.owner # owner
    THEN IF r.current = h
         THEN IF r.previous_held /\ r.previous # NoHead
              THEN size[r.previous] ELSE 0
         ELSE IF r.held THEN size[r.current] ELSE 0
    ELSE 0

(* Mutant: bytes reserved by concurrent pulls are not counted.             *)
reserveIgnoresReserved(k, h, owner) ==
    /\ ~failed /\ ~Retained(k, h) /\ Admissible(k, h) /\ SlotRoom(k)
    /\ bytes(records) + reserveSize[h] =< MaxTotal
    /\ owner # NoOwner =>
         owner_bytes(records, owner) + owner_reserved(owner)
           + reserveSize[h] + Inherited(k, h, owner) =< ownerLimit[owner]

reserve(k, h, owner) ==
    /\ ~failed
    /\ ~Retained(k, h)
    /\ Admissible(k, h)
    /\ SlotRoom(k)
    /\ bytes(records) + reserved + reserveSize[h] =< MaxTotal
    /\ owner # NoOwner =>
         owner_bytes(records, owner) + owner_reserved(owner)
           + reserveSize[h] + Inherited(k, h, owner) =< ownerLimit[owner]

-----------------------------------------------------------------------------
(* The record each operation publishes.                                    *)

(* Repository::commit: the old current becomes previous when h continues it *)
CommitRecord(k, h, owner) ==
    LET r == records[k]
        same == Live(r) /\ r.current = h
        next == Live(r) /\ check_cas(h, CurrentOf(r)) = "ok"
    IN [current |-> h, held |-> TRUE,
        previous |-> IF same THEN r.previous
                     ELSE IF next THEN r.current ELSE NoHead,
        previous_held |-> IF same THEN r.previous_held
                          ELSE next /\ r.held,
        deleted |-> FALSE,
        home |-> IF r = NoRec THEN "none" ELSE r.home,
        owner |-> owner]

(* Mutant: the old head is kept as the backup of a head that skips it.     *)
LearnRecordKeepsAny(k, h, home, del) ==
    LET r == records[k]
        next == Live(r) /\ ~del
    IN [current |-> h, held |-> FALSE,
        previous |-> IF next THEN r.current ELSE NoHead,
        previous_held |-> next /\ r.held,
        deleted |-> del,
        home |-> IF home # "none" \/ r = NoRec THEN home ELSE r.home,
        owner |-> NoOwner]

(* Repository::learn: metadata only, the blob is not held.                 *)
LearnRecord(k, h, home, del) ==
    LET r == records[k]
        next == /\ Live(r) /\ ~del
                /\ seqOf[h] = seqOf[r.current] + 1 /\ parentOf[h] = r.current
    IN [current |-> h, held |-> FALSE,
        previous |-> IF next THEN r.current ELSE NoHead,
        previous_held |-> next /\ r.held,
        deleted |-> del,
        home |-> IF home # "none" \/ r = NoRec THEN home ELSE r.home,
        owner |-> NoOwner]

(* The generations of r that no longer match their hashes; without them.   *)
Corrupt(k, r) == {h \in held_heads(r) : gens[k][h] # "full"}

Repaired(k, r) ==
    LET lost == Corrupt(k, r)
        dropPrevious == r.previous_held /\ r.previous \in lost
    IN [r EXCEPT !.held = @ /\ r.current \notin lost,
                 !.previous = IF dropPrevious THEN NoHead ELSE @,
                 !.previous_held = @ /\ ~dropPrevious]

-----------------------------------------------------------------------------
(* Critical sections.                                                      *)

SlotLocked(k) == \E t \in Task : task[t] # Idle /\ task[t].key = k

Ready(k) == up /\ cs = Free /\ ~SlotLocked(k)

Enter(op, at, k, r, by) ==
    cs' = [op |-> op, at |-> at, key |-> k, rec |-> r, by |-> by]

Mutating == cs.op \in {"commit", "meta", "unlink", "retire"}

Client(r) == r \notin migrated

(* The task's request returns: its reservation and its lock stripe go.     *)
Return(t) == task' = [task EXCEPT ![t] = Idle]

Ack(t) == acked' = IF task[t].kind = "put"
                   THEN acked \cup {<<task[t].key, task[t].head>>} ELSE acked

(* Service::put up to the pull: stripe, reserve, pull admission.           *)
PutReserve(t, p, k, h) ==
    /\ Ready(k) /\ Client(k[1]) /\ task[t] = Idle
    /\ h \in HeadsFor(k)
    /\ reserve(k, h, p)
    /\ Cardinality(Reserving) < MaxPulls
    /\ \A u \in Reserving : task[u].from # p
    /\ task' = [task EXCEPT ![t] =
                 [pc |-> "pull", kind |-> "put", key |-> k, head |-> h, from |-> p,
                  ownerAmount |-> reserveSize[h] + Inherited(k, h, p)]]
    /\ UNCHANGED <<disk, durable, gens, up, records, failed, cs, migrated, acked>>

(* Service::put of a retained head: acknowledged at once, except that a    *)
(* mesh room's current head without a home gets this provider as its home. *)
PutRetry(t, p, k, h) ==
    /\ Ready(k) /\ Client(k[1]) /\ task[t] = Idle
    /\ h \in HeadsFor(k)
    /\ ~failed /\ Retained(k, h)
    /\ IF k[1] \in MeshRoom /\ records[k].current = h /\ records[k].home = "none"
       THEN /\ task' = [task EXCEPT ![t] =
                  [pc |-> "retry", kind |-> "put", key |-> k, head |-> h,
                   from |-> p, ownerAmount |-> 0]]
            /\ Enter("meta", "publish", k, [records[k] EXCEPT !.home = "self"], t)
            /\ UNCHANGED acked
       ELSE /\ acked' = acked \cup {<<k, h>>}
            /\ UNCHANGED <<task, cs>>
    /\ UNCHANGED <<disk, durable, gens, up, records, failed, migrated>>

(* Mesh::pull: replicate a head this provider knows but does not hold.     *)
MeshPull(t, p, k, h) ==
    /\ Ready(k) /\ k[1] \in MeshRoom /\ task[t] = Idle
    /\ CurrentOf(records[k]) = h /\ ~records[k].held
    /\ reserve(k, h, NoOwner)
    /\ Cardinality(Reserving) < MaxPulls
    /\ \A u \in Reserving : task[u].from # p
    /\ task' = [task EXCEPT ![t] =
                 [pc |-> "pull", kind |-> "pull", key |-> k, head |-> h,
                  from |-> p, ownerAmount |-> 0]]
    /\ UNCHANGED <<disk, durable, gens, up, records, failed, cs, migrated, acked>>

(* The pull fails or times out, or commit refuses because writes failed.   *)
PullFailed(t) ==
    /\ up /\ task[t].pc = "pull"
    /\ Return(t)
    /\ UNCHANGED <<disk, durable, gens, up, records, failed, cs, migrated, acked>>

(* The pulled bytes validate: Repository::commit takes the mutex.          *)
Commit(t) ==
    /\ up /\ cs = Free /\ ~failed
    /\ task[t].pc = "pull"
    /\ LET k == task[t].key
           h == task[t].head
           owner == IF task[t].kind = "put" THEN task[t].from ELSE NoOwner
       IN Enter("commit", "write", k, CommitRecord(k, h, owner), t)
    /\ task' = [task EXCEPT ![t].pc = "commit"]
    /\ UNCHANGED <<disk, durable, gens, up, records, failed, migrated, acked>>

(* Service::put in a mesh room after the commit: Repository::set_home.     *)
SetHomeAfterPut(t) ==
    /\ up /\ cs = Free
    /\ task[t].pc = "home"
    /\ LET k == task[t].key
       IN CASE failed /\ records[k].home # "self" -> Return(t) /\ UNCHANGED <<cs, acked>>
            [] records[k].home = "self" -> Return(t) /\ Ack(t) /\ UNCHANGED cs
            [] OTHER -> /\ Enter("meta", "publish", k,
                                 [records[k] EXCEPT !.home = "self"], t)
                        /\ task' = [task EXCEPT ![t].pc = "homing"]
                        /\ UNCHANGED acked
    /\ UNCHANGED <<disk, durable, gens, up, records, failed, migrated>>

(* Repository::import of one entry of a portable file.                     *)
Import(k, h) ==
    LET r == records[k] IN
    /\ Ready(k) /\ Client(k[1]) /\ ~failed
    /\ h \in HeadsFor(k)
    /\ r # NoRec =>
         /\ r.deleted => successor(h, r.current)
         /\ ~r.deleted => ~(r.held /\ (r.current = h \/ r.previous = h))
         /\ writerOf[h] = writerOf[r.current]
         /\ seqOf[h] > seqOf[r.current] \/ r.current = h
    /\ SlotRoom(k)
    /\ bytes(records) + reserved + size[h] =< MaxTotal
    /\ Enter("commit", "write", k, CommitRecord(k, h, NoOwner), "none")
    /\ UNCHANGED <<disk, durable, gens, up, records, failed, task, migrated, acked>>

(* Repository::delete in a standalone room.                                *)
Delete(k, h) ==
    /\ Ready(k) /\ Client(k[1]) /\ k[1] \notin MeshRoom /\ ~failed
    /\ records[k] # NoRec /\ records[k].current = h
    /\ Enter("unlink", "publish", k, NoRec, "none")
    /\ acked' = {a \in acked : a[1] # k}
    /\ UNCHANGED <<disk, durable, gens, up, records, failed, task, migrated>>

(* Repository::learn of a head (del = FALSE) or a tombstone (del = TRUE).  *)
LearnAccepts(k, h, del) ==
    LET r == records[k] IN
    IF r = NoRec THEN SlotRoom(k)
    ELSE /\ acceptance(r.current, h) \in {"New", "Same"}
         /\ r.deleted /\ ~del /\ seqOf[h] =< seqOf[r.current] + 1
              => successor(h, r.current)
         /\ ~(r.deleted /\ del /\ r.current = h)
         /\ ~(~r.deleted /\ ~del /\ r.current = h)

Learn(k, h, home, del) ==
    /\ Ready(k) /\ k[1] \in MeshRoom /\ ~failed
    /\ h \in HeadsFor(k)
    /\ LearnAccepts(k, h, del)
    /\ Enter("meta", "publish", k, LearnRecord(k, h, home, del), "none")
    /\ UNCHANGED <<disk, durable, gens, up, records, failed, task, migrated, acked>>

(* Mutant: a deletion in a mesh room unlinks the record file.              *)
MeshDeleteUnlinks(k) ==
    /\ Ready(k) /\ k[1] \in MeshRoom /\ ~failed
    /\ records[k] # NoRec
    /\ Enter("unlink", "publish", k, NoRec, "none")
    /\ UNCHANGED <<disk, durable, gens, up, records, failed, task, migrated, acked>>

(* Repository::mesh_delete: a client deletes the current head.             *)
MeshDelete(k) ==
    /\ Ready(k) /\ k[1] \in MeshRoom /\ ~failed
    /\ records[k] # NoRec
    /\ LearnAccepts(k, records[k].current, TRUE)
    /\ Enter("meta", "publish", k,
             LearnRecord(k, records[k].current, records[k].home, TRUE), "none")
    /\ UNCHANGED <<disk, durable, gens, up, records, failed, task, migrated, acked>>

(* Repository::drop_holding, when the mesh releases a non-placed holding.  *)
DropHolding(k) ==
    /\ Ready(k) /\ k[1] \in MeshRoom /\ ~failed
    /\ Live(records[k]) /\ records[k].held
    /\ Enter("meta", "publish", k,
             [records[k] EXCEPT !.held = FALSE, !.previous_held = FALSE], "none")
    /\ UNCHANGED <<disk, durable, gens, up, records, failed, task, migrated, acked>>

(* Mesh::tick adopts held slots that have no home yet.                     *)
AdoptHome(k) ==
    /\ Ready(k) /\ k[1] \in MeshRoom /\ ~failed
    /\ Live(records[k]) /\ records[k].held /\ records[k].home = "none"
    /\ Enter("meta", "publish", k, [records[k] EXCEPT !.home = "self"], "none")
    /\ UNCHANGED <<disk, durable, gens, up, records, failed, task, migrated, acked>>

(* Repository::verify_holding (scrub).  The files are read outside the     *)
(* mutex, but every writer of the slot needs the stripe the scrub holds.   *)
VerifyHolding(k) ==
    /\ Ready(k) /\ k[1] \in MeshRoom /\ ~failed
    /\ Live(records[k]) /\ records[k].held
    /\ Corrupt(k, records[k]) # {}
    /\ Enter("meta", "publish", k, Repaired(k, records[k]), "none")
    /\ UNCHANGED <<disk, durable, gens, up, records, failed, task, migrated, acked>>

(* Repository::retire_room deletes a migrated room's records one by one;   *)
(* other sections may run between two of them here, which the code's       *)
(* single lock acquisition excludes.                                       *)
RetireRoom(k) ==
    /\ up /\ cs = Free /\ ~failed
    /\ k[1] \in migrated /\ records[k] # NoRec
    /\ Enter("retire", "publish", k, NoRec, "none")
    /\ UNCHANGED <<disk, durable, gens, up, records, failed, task, migrated, acked>>

-----------------------------------------------------------------------------
(* Steps of commit_inner, publish_metadata, delete_inner and cleanup.      *)

(* Mutant: the record is published before the generation is synced.        *)
WriteGenerationUnsynced ==
    /\ cs.at = "write"
    /\ gens' = [gens EXCEPT ![cs.key][cs.rec.current] = "part"]
    /\ cs' = [cs EXCEPT !.at = "publish"]
    /\ UNCHANGED <<disk, durable, up, records, failed, task, migrated, acked>>

WriteGeneration ==
    /\ cs.at = "write"
    /\ gens' = [gens EXCEPT ![cs.key][cs.rec.current] = "part"]
    /\ cs' = [cs EXCEPT !.at = "sync"]
    /\ UNCHANGED <<disk, durable, up, records, failed, task, migrated, acked>>

SyncGeneration ==
    /\ cs.at = "sync"
    /\ gens' = [gens EXCEPT ![cs.key][cs.rec.current] = "full"]
    /\ cs' = [cs EXCEPT !.at = "publish"]
    /\ UNCHANGED <<disk, durable, up, records, failed, task, migrated, acked>>

(* The rename (or unlink) of the record file: atomic, not yet synced.      *)
PublishRecord ==
    /\ cs.at = "publish"
    /\ disk' = [disk EXCEPT ![cs.key] = cs.rec]
    /\ cs' = [cs EXCEPT !.at = "index"]
    /\ UNCHANGED <<durable, gens, up, records, failed, task, migrated, acked>>

(* Mutant: the directory of the record file is not synced.                 *)
IndexRecordUnsynced ==
    /\ cs.at = "index"
    /\ records' = [records EXCEPT ![cs.key] = cs.rec]
    /\ cs' = [cs EXCEPT !.at = "cleanup"]
    /\ UNCHANGED <<disk, durable, gens, up, failed, task, migrated, acked>>

(* The directory sync succeeded; records and the derived index follow.     *)
IndexRecord ==
    /\ cs.at = "index"
    /\ durable' = disk
    /\ records' = [records EXCEPT ![cs.key] = cs.rec]
    /\ cs' = [cs EXCEPT !.at = "cleanup"]
    /\ UNCHANGED <<disk, gens, up, failed, task, migrated, acked>>

Unreferenced(k, h) == gens[k][h] # "none" /\ h \notin held_heads(records[k])

(* cleanup removes one unreferenced directory, possibly only part of it.   *)
Cleanup(k, h, left) ==
    /\ cs.at = "cleanup"
    /\ Unreferenced(k, h) /\ left # gens[k][h]
    /\ gens' = [gens EXCEPT ![k][h] = left]
    /\ UNCHANGED <<disk, durable, up, records, failed, cs, task, migrated, acked>>

(* The task whose section ends: a committed mesh PUT still sets its home.  *)
Resume(t) ==
    IF task[t].pc = "commit" /\ task[t].kind = "put" /\ task[t].key[1] \in MeshRoom
    THEN task' = [task EXCEPT ![t].pc = "home"] /\ UNCHANGED acked
    ELSE Return(t) /\ Ack(t)

Clean == \A k \in Key, h \in Heads : ~Unreferenced(k, h)

Finish ==
    /\ cs.at = "cleanup" /\ Mutating
    /\ Clean
    /\ cs' = Free
    /\ IF cs.by # "none" THEN Resume(cs.by) ELSE UNCHANGED <<task, acked>>
    /\ UNCHANGED <<disk, durable, gens, up, records, failed, migrated>>

(* Mutant: a commit that failed at any step is reported as committed.      *)
IoErrorAcks ==
    /\ Mutating
    /\ failed' = TRUE
    /\ cs' = Free
    /\ IF cs.by = "none" THEN UNCHANGED <<task, acked>>
       ELSE IF cs.op = "commit" THEN Resume(cs.by)
       ELSE Return(cs.by) /\ UNCHANGED acked
    /\ UNCHANGED <<disk, durable, gens, up, records, migrated>>

(* Mutant: the failing request never returns.                              *)
IoErrorHangs ==
    /\ Mutating
    /\ failed' = TRUE
    /\ cs' = Free
    /\ UNCHANGED <<disk, durable, gens, up, records, task, migrated, acked>>

(* An I/O call of a critical section fails: writes stop until restart.  A  *)
(* commit whose cleanup fails is still reported as committed.              *)
IoError ==
    /\ Mutating
    /\ failed' = TRUE
    /\ cs' = Free
    /\ IF cs.by = "none" THEN UNCHANGED <<task, acked>>
       ELSE IF cs.op = "commit" /\ cs.at = "cleanup" THEN Resume(cs.by)
       ELSE Return(cs.by) /\ UNCHANGED acked
    /\ UNCHANGED <<disk, durable, gens, up, records, migrated>>

-----------------------------------------------------------------------------
(* Crash, media corruption and Repository::open.                           *)

NoRecords == [k \in Key |-> NoRec]

(* Power loss or process exit: each record file that is not synced is      *)
(* found either as published or as it was before.                          *)
Crash ==
    /\ up \/ cs # Free
    /\ up' = FALSE
    /\ cs' = Free
    /\ records' = NoRecords
    /\ failed' = FALSE
    /\ task' = [t \in Task |-> Idle]
    /\ disk' \in {disk, durable}
    /\ durable' = disk'
    /\ UNCHANGED <<gens, migrated, acked>>

(* The operator hands a standalone room over to Raft replication.          *)
Migrate(r) ==
    /\ ~up /\ cs = Free
    /\ r \in Room \ (MeshRoom \cup migrated)
    /\ migrated' = migrated \cup {r}
    /\ acked' = {a \in acked : a[1][1] # r}
    /\ UNCHANGED <<disk, durable, gens, up, records, failed, cs, task>>

(* Media corruption of a stored generation.                                *)
Rot(k, h) ==
    /\ gens[k][h] = "full"
    /\ gens' = [gens EXCEPT ![k][h] = "bad"]
    /\ UNCHANGED <<disk, durable, up, records, failed, cs, task, migrated, acked>>

OpenStart ==
    /\ ~up /\ cs = Free
    /\ cs' = [op |-> "open", at |-> "load"]
    /\ UNCHANGED <<disk, durable, gens, up, records, failed, task, migrated, acked>>

(* A corrupt holding of a mesh record is dropped from its record file.     *)
OpenRepair(k) ==
    /\ cs.at = "load"
    /\ Corrupt(k, disk[k]) # {} /\ disk[k].home # "none"
    /\ disk' = [disk EXCEPT ![k] = Repaired(k, disk[k])]
    /\ durable' = disk'
    /\ UNCHANGED <<gens, up, records, failed, cs, task, migrated, acked>>

(* The checks open makes of a record file before it trusts it.             *)
WellFormed(r) ==
    /\ r.deleted => ~r.held /\ r.previous = NoHead
    /\ r.previous # NoHead =>
         /\ slotOf[r.previous] = slotOf[r.current]
         /\ check_cas(r.current, r.previous) = "ok"

Readable(k) ==
    disk[k] # NoRec => Corrupt(k, disk[k]) = {} /\ WellFormed(disk[k])

(* Mutant: the index has no entry for keys without a record file.          *)
OpenLoadPartial ==
    /\ cs.at = "load"
    /\ \A k \in Key : Readable(k)
    /\ bytes(disk) =< MaxTotal
    /\ records' = [k \in {k \in Key : disk[k] # NoRec} |-> disk[k]]
    /\ cs' = [cs EXCEPT !.at = "cleanup"]
    /\ UNCHANGED <<disk, durable, gens, up, failed, task, migrated, acked>>

OpenLoad ==
    /\ cs.at = "load"
    /\ \A k \in Key : Readable(k)
    /\ bytes(disk) =< MaxTotal
    /\ records' = disk
    /\ cs' = [cs EXCEPT !.at = "cleanup"]
    /\ UNCHANGED <<disk, durable, gens, up, failed, task, migrated, acked>>

(* A generation that cannot be repaired, a malformed record or an          *)
(* oversized store: the service does not start.                            *)
OpenRefused ==
    /\ cs.at = "load"
    /\ \/ \E k \in Key : disk[k] # NoRec /\
            \/ ~WellFormed(disk[k])
            \/ Corrupt(k, disk[k]) # {} /\ disk[k].home = "none"
       \/ bytes(disk) > MaxTotal
    /\ cs' = Free
    /\ UNCHANGED <<disk, durable, gens, up, records, failed, task, migrated, acked>>

OpenDone ==
    /\ cs = [op |-> "open", at |-> "cleanup"]
    /\ Clean
    /\ up' = TRUE
    /\ cs' = Free
    /\ UNCHANGED <<disk, durable, gens, records, failed, task, migrated, acked>>

-----------------------------------------------------------------------------
Init ==
    /\ disk = NoRecords /\ durable = NoRecords
    /\ gens = [k \in Key |-> [h \in Heads |-> "none"]]
    /\ up = FALSE
    /\ records = NoRecords
    /\ failed = FALSE
    /\ cs = Free
    /\ task = [t \in Task |-> Idle]
    /\ migrated = {}
    /\ acked = {}

Request ==
    \/ \E t \in Task, p \in Peer, k \in Key, h \in Heads : PutReserve(t, p, k, h)
    \/ \E t \in Task, p \in Peer, k \in Key, h \in Heads : PutRetry(t, p, k, h)
    \/ \E t \in Task, p \in Peer, k \in Key, h \in Heads : MeshPull(t, p, k, h)
    \/ \E k \in Key, h \in Heads : Import(k, h)
    \/ \E k \in Key, h \in Heads : Delete(k, h)
    \/ \E k \in Key, h \in Heads, home \in Home, del \in BOOLEAN :
          Learn(k, h, home, del)
    \/ \E k \in Key : MeshDelete(k)
    \/ \E k \in Key : DropHolding(k)
    \/ \E k \in Key : AdoptHome(k)
    \/ \E k \in Key : VerifyHolding(k)
    \/ \E k \in Key : RetireRoom(k)

TaskStep ==
    \/ \E t \in Task : PullFailed(t)
    \/ \E t \in Task : Commit(t)
    \/ \E t \in Task : SetHomeAfterPut(t)

SectionStep ==
    \/ WriteGeneration
    \/ SyncGeneration
    \/ PublishRecord
    \/ IndexRecord
    \/ \E k \in Key, h \in Heads, left \in {"none", "part"} : Cleanup(k, h, left)
    \/ Finish
    \/ IoError

Restart ==
    \/ OpenStart
    \/ \E k \in Key : OpenRepair(k)
    \/ OpenLoad
    \/ OpenRefused
    \/ OpenDone

Environment ==
    \/ Crash
    \/ \E r \in Room : Migrate(r)
    \/ \E k \in Key, h \in Heads : Rot(k, h)

Next == Request \/ TaskStep \/ SectionStep \/ Restart \/ Environment

Spec == Init /\ [][Next]_vars

(* What the running process keeps doing: a section in progress goes on,    *)
(* cleanup removes whole directories, and a task gets the mutex although   *)
(* others compete for it; a pull is bounded by its timeouts.               *)
Progress ==
    \/ WriteGeneration \/ SyncGeneration \/ PublishRecord \/ IndexRecord \/ Finish
    \/ \E k \in Key, h \in Heads : Cleanup(k, h, "none")

FairSpec ==
    /\ Spec
    /\ WF_vars(Progress)
    /\ \A t \in Task : SF_vars(PullFailed(t) \/ Commit(t) \/ SetHomeAfterPut(t))

-----------------------------------------------------------------------------
(* Properties.                                                             *)

(* Records, generations, tasks and the critical section are well formed.   *)
TypeOK ==
    /\ disk \in [Key -> Rec \cup {NoRec}]
    /\ durable \in [Key -> Rec \cup {NoRec}]
    /\ gens \in [Key -> [Heads -> GenState]]
    /\ up \in BOOLEAN
    /\ records \in [Key -> Rec \cup {NoRec}]
    /\ failed \in BOOLEAN
    /\ cs \in Section
    /\ task \in [Task -> TaskState]
    /\ migrated \subseteq Room
    /\ acked \subseteq (Key \X Heads)

OnDisk(k, h) == gens[k][h] \in {"full", "bad"}

(* Whatever a crash leaves behind, every generation a surviving record     *)
(* file says it holds was completely written and never cleaned up.         *)
DurableReferenced ==
    \A k \in Key : \A h \in held_heads(durable[k]) \cup held_heads(disk[k]) :
        OnDisk(k, h)

(* The index never offers a generation whose files have been removed, even *)
(* after a failed write has left memory and disk apart.                    *)
ServedReferenced ==
    \A k \in Key : \A h \in held_heads(records[k]) : OnDisk(k, h)

(* An acknowledged head survives every later crash and failure: the record *)
(* file that remains has that head or a later one of the same writer.      *)
AckedRetained ==
    \A a \in acked : \A r \in {durable[a[1]], disk[a[1]]} :
        /\ r # NoRec
        /\ writerOf[r.current] = writerOf[a[2]]
        /\ \/ r.current = a[2]
           \/ seqOf[r.current] > seqOf[a[2]]

(* Quotas hold whatever was in flight (reserve, commit, learn): the retained *)
(* generations never exceed the byte quota, so a restart is never refused for *)
(* it; no peer's accounted generations exceed its byte limit, including those *)
(* it inherits by writing to a slot another peer owned; and concurrent        *)
(* creations cannot exceed the slot limit of a room.                          *)
QuotasRespected ==
    /\ bytes(durable) =< MaxTotal /\ bytes(disk) =< MaxTotal
    /\ \A p \in Peer : owner_bytes(disk, p) =< ownerLimit[p]
    /\ \A r \in Room : SlotsIn(disk, r) =< MaxSlots

(* open's structural checks accept every record file a crash can leave.    *)
OpenAccepts ==
    \A k \in Key : \A r \in {durable[k], disk[k]} \ {NoRec} : WellFormed(r)

(* The durable record files of all slots, seen as the abstract slots of    *)
(* EscrowSlot.                                                             *)
SlotView ==
    [k \in Key |-> IF durable[k] = NoRec THEN NoRec
                   ELSE [head |-> durable[k].current, dead |-> durable[k].deleted]]

Abstract == INSTANCE EscrowSlot WITH
    Cell <- Key, Permanent <- {k \in Key : k[1] \in MeshRoom},
    NoHeadYet <- NoRec, slot <- SlotView

(* Every change of what survives a power loss is a step EscrowSlot allows: *)
(* the pinned writer, the growing sequence and the lasting tombstones hold *)
(* across crashes, failed syncs, imports and gossip.                       *)
RefinesSlot == Abstract!SlotSpec

(* docs/escrow.md: "A PUT ACK means that the accepting provider durably    *)
(* stored the data."                                                       *)
AckMeansStored ==
    [][\A a \in acked' \ acked : a[2] \in held_heads(durable'[a[1]])]_vars

(* Every PUT and every mesh pull ends, whatever fails underneath it, so no *)
(* lock stripe, reservation or pull admission is held for ever.            *)
RequestsReturn == \A t \in Task : task[t] # Idle ~> task[t] = Idle

=============================================================================
