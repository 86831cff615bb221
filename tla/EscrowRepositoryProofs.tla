----------------------- MODULE EscrowRepositoryProofs -----------------------
(***************************************************************************)
(* Proofs about EscrowRepository, for every set of rooms, slots, heads,    *)
(* peers and concurrent requests.                                          *)
(*                                                                         *)
(* DurableReferenced is not inductive.  Cleanup trusts the index, so the   *)
(* proof has to know that the index, the record files and what a power     *)
(* loss would leave agree whenever cleanup may run (SectionInv); a commit  *)
(* rewrites a generation directory in place, so it has to know that the    *)
(* directory is one no record refers to (GenerationInv), which for a pull  *)
(* was decided before the download and is still true after it because the *)
(* task holds its slot (TaskInv); and an import decides it by comparing    *)
(* sequences, so it has to know how a backup relates to the current head   *)
(* (RecordInv).                                                            *)
(*                                                                         *)
(* QuotasRespected is not inductive either: reserve() checks the quotas    *)
(* when a pull starts and the record is published much later. QInv says    *)
(* that the files, the record a section is about to publish and what the   *)
(* pulls in flight have pledged fit together (Pledges), and that a peer    *)
(* has one pull at a time, so that no second one can change what it was    *)
(* charged for.                                                            *)
(***************************************************************************)
EXTENDS EscrowRepository, ProofLemmas, TLAPS

Synced == records = disk /\ disk = durable

(* How far memory, files and durable files may be apart in each phase.     *)
SectionInv ==
    /\ Mutating => up /\ ~failed
    /\ ~up => /\ cs = Free \/ cs.op = "open"
              /\ ~failed
              /\ disk = durable
    /\ cs.op = "open" => ~up
    /\ ~up /\ cs.at # "cleanup" => records = NoRecords
    /\ up /\ cs = Free /\ ~failed => Synced
    /\ cs.at \in {"write", "sync", "publish", "cleanup"} => Synced
    /\ cs.at = "index" =>
         records = durable /\ disk = [durable EXCEPT ![cs.key] = cs.rec]
    /\ cs.at = "cleanup" /\ Mutating => records[cs.key] = cs.rec
    /\ migrated \cap MeshRoom = {}

(* What the record about to be published needs is on disk already.         *)
GenerationInv ==
    /\ cs.at \in {"write", "sync"} =>
         /\ cs.op = "commit"
         /\ cs.rec.current \notin held_heads(records[cs.key])
         /\ \A h \in held_heads(cs.rec) \ {cs.rec.current} : OnDisk(cs.key, h)
    /\ cs.at = "publish" => \A h \in held_heads(cs.rec) : OnDisk(cs.key, h)
    /\ Mutating /\ cs.op = "commit" => cs.rec # NoRec

RecOK(k, r) == r # NoRec => WellFormed(r) /\ slotOf[r.current] = k[2]

RecordInv ==
    /\ \A k \in Key : RecOK(k, records[k]) /\ RecOK(k, disk[k]) /\ RecOK(k, durable[k])
    /\ Mutating => RecOK(cs.key, cs.rec)

(* A task owns its slot until it returns.                                  *)
TaskInv ==
    /\ \A t \in Task : task[t] # Idle =>
         /\ up
         /\ task[t].key[1] \notin migrated
         /\ task[t].head \in HeadsFor(task[t].key)
         /\ \A u \in Task : task[u] # Idle /\ task[u].key = task[t].key => u = t
         /\ Mutating /\ cs.key = task[t].key => cs.by = t
         /\ task[t].pc = "pull" => task[t].head \notin held_heads(records[task[t].key])
         /\ task[t].pc = "home" => records[task[t].key] # NoRec
    /\ Mutating /\ cs.by # "none" =>
         /\ task[cs.by] # Idle
         /\ cs.key = task[cs.by].key
         /\ task[cs.by].pc = "commit" => cs.op = "commit"
         /\ task[cs.by].pc # "pull"
         /\ task[cs.by].pc # "home"

IInv ==
    /\ TypeOK
    /\ SectionInv
    /\ GenerationInv
    /\ RecordInv
    /\ TaskInv
    /\ DurableReferenced
    /\ ServedReferenced

-----------------------------------------------------------------------------
(* The records the operations build.                                       *)

(* A committed record is well formed, and refers to nothing but the new    *)
(* generation and generations the old record held.                         *)
LEMMA CommitRecordOK ==
    ASSUME TypeOK, RecordInv,
           NEW k \in Key, NEW h \in HeadsFor(k), NEW owner \in Peer \cup {NoOwner}
    PROVE  /\ CommitRecord(k, h, owner) \in Rec
           /\ CommitRecord(k, h, owner) # NoRec
           /\ CommitRecord(k, h, owner).current = h
           /\ RecOK(k, CommitRecord(k, h, owner))
           /\ \A g \in held_heads(CommitRecord(k, h, owner)) \ {h} :
                 g \in held_heads(records[k])
<1> DEFINE r == records[k]
           c == CommitRecord(k, h, owner)
<1>1. r \in Rec \cup {NoRec} /\ RecOK(k, r) /\ h \in Heads /\ slotOf[h] = k[2]
  BY DEF TypeOK, RecordInv, HeadsFor
<1>2. c \in Rec /\ c.current = h
  BY <1>1 DEF CommitRecord, Live, Rec, Home
<1>3. c # NoRec
  BY <1>2, RepositoryAssumption
<1>4. RecOK(k, c)
  BY <1>1, HeadAssumption DEF CommitRecord, Live, Rec, CurrentOf, RecOK, WellFormed
<1>5. \A g \in held_heads(c) \ {h} : g \in held_heads(r)
  BY <1>1, HeadAssumption DEF CommitRecord, Live, Rec, CurrentOf, held_heads
<1> QED BY <1>2, <1>3, <1>4, <1>5

(* So does a record learned from the mesh, which holds no new generation.  *)
LEMMA LearnRecordOK ==
    ASSUME TypeOK, RecordInv, NEW k \in Key, NEW h \in HeadsFor(k),
           NEW home \in Home, NEW del \in BOOLEAN, LearnAccepts(k, h, del)
    PROVE  /\ LearnRecord(k, h, home, del) \in Rec
           /\ RecOK(k, LearnRecord(k, h, home, del))
           /\ \A g \in held_heads(LearnRecord(k, h, home, del)) :
                 g \in held_heads(records[k])
<1> DEFINE r == records[k]
           c == LearnRecord(k, h, home, del)
<1>1. r \in Rec \cup {NoRec} /\ RecOK(k, r) /\ h \in Heads /\ slotOf[h] = k[2]
  BY DEF TypeOK, RecordInv, HeadsFor
<1>2. c \in Rec /\ c.current = h /\ c.deleted = del
  BY <1>1 DEF LearnRecord, Live, Rec, Home
<1>3. c.previous # NoHead =>
        /\ Live(r) /\ ~del /\ c.previous = r.current
        /\ seqOf[h] = seqOf[r.current] + 1 /\ parentOf[h] = r.current
  BY <1>1 DEF LearnRecord
<1>4. c.previous # NoHead => writerOf[h] = writerOf[r.current]
  BY <1>1, <1>3, HeadAssumption DEF LearnAccepts, acceptance, Live, Rec
<1>5. c.previous # NoHead => check_cas(h, c.previous) = "ok"
  BY <1>1, <1>3, <1>4, HeadAssumption DEF check_cas, Live, Rec
<1>6. RecOK(k, c)
  <2>1. c.deleted => ~c.held /\ c.previous = NoHead
    BY <1>2, <1>3 DEF LearnRecord
  <2>2. c.previous # NoHead => slotOf[c.previous] = k[2]
    BY <1>1, <1>3 DEF RecOK, Live
  <2> QED BY <1>1, <1>2, <1>5, <2>1, <2>2 DEF RecOK, WellFormed
<1>7. \A g \in held_heads(c) : g \in held_heads(r)
  BY <1>1 DEF LearnRecord, Live, Rec, held_heads
<1> QED BY <1>2, <1>6, <1>7

(* Dropping corrupt generations from a record keeps the others.            *)
LEMMA RepairedOK ==
    ASSUME NEW k \in Key, NEW r \in Rec, RecOK(k, r)
    PROVE  /\ Repaired(k, r) \in Rec
           /\ RecOK(k, Repaired(k, r))
           /\ \A g \in held_heads(Repaired(k, r)) : g \in held_heads(r)
<1>1. Repaired(k, r) \in Rec
  BY DEF Repaired, Rec
<1>2. RecOK(k, Repaired(k, r))
  BY RepositoryAssumption DEF Repaired, Rec, RecOK, WellFormed
<1>3. \A g \in held_heads(Repaired(k, r)) : g \in held_heads(r)
  BY RepositoryAssumption DEF Repaired, Rec, held_heads
<1> QED BY <1>1, <1>2, <1>3

-----------------------------------------------------------------------------
(* Entering a critical section.                                            *)

Begin(op, at, k, r, by) ==
    /\ up /\ cs = Free /\ ~failed
    /\ Enter(op, at, k, r, by)
    /\ UNCHANGED <<disk, durable, gens, up, records, failed, migrated>>

(* The record a section will publish needs no generation that is missing.  *)
Backed(op, at, k, r) ==
    /\ RecOK(k, r)
    /\ op = "commit" => r # NoRec
    /\ \/ /\ at = "publish"
          /\ \A g \in held_heads(r) : g \in held_heads(records[k])
       \/ /\ at = "write" /\ op = "commit"
          /\ r.current \notin held_heads(records[k])
          /\ \A g \in held_heads(r) \ {r.current} : g \in held_heads(records[k])

(* The section is entered by nobody's task, or by the task `by' that owns  *)
(* the slot.                                                               *)
Owned(op, k, by) ==
    /\ task' \in [Task -> TaskState]
    /\ \A u \in Task : u # by => task'[u] = task[u]
    /\ \A u \in Task : u # by /\ task[u] # Idle => task[u].key # k
    /\ by # "none" =>
         /\ task'[by] # Idle
         /\ task'[by].key = k
         /\ task'[by].head \in HeadsFor(k)
         /\ task'[by].pc \in {"commit", "homing", "retry"}
         /\ task'[by].pc = "commit" => op = "commit"
         /\ k[1] \notin migrated

LEMMA BeginOK ==
    ASSUME IInv,
           NEW op \in {"commit", "meta", "unlink", "retire"},
           NEW at \in {"write", "publish"},
           NEW k \in Key, NEW r \in Rec \cup {NoRec}, NEW by \in Task \cup {"none"},
           Begin(op, at, k, r, by),
           Backed(op, at, k, r),
           Owned(op, k, by),
           acked' \subseteq acked
    PROVE  IInv'
<1> USE DEF IInv
<1>1. /\ cs' = [op |-> op, at |-> at, key |-> k, rec |-> r, by |-> by]
      /\ up /\ cs = Free /\ ~failed
      /\ UNCHANGED <<disk, durable, gens, up, records, failed, migrated>>
  BY DEF Begin, Enter
<1>2. cs' \in Section
  BY <1>1 DEF Section
<1>3. TypeOK'
  BY <1>1, <1>2 DEF TypeOK, Owned
<1>4. Synced
  BY <1>1 DEF SectionInv
<1>5. SectionInv'
  BY <1>1, <1>4 DEF SectionInv, Synced, Mutating, Free, NoRecords
<1>6. \A g \in held_heads(records[k]) : OnDisk(k, g)
  BY DEF ServedReferenced
<1>7. GenerationInv'
  BY <1>1, <1>6 DEF GenerationInv, Backed, Mutating, OnDisk, held_heads
<1>8. RecordInv'
  BY <1>1 DEF RecordInv, Backed, RecOK, WellFormed, Mutating
<1>9. TaskInv'
  <2>1. by # "none" => by \in Task
    OBVIOUS
  <2>2. ASSUME NEW t \in Task, task'[t] # Idle
        PROVE  /\ up'
               /\ task'[t].key[1] \notin migrated'
               /\ task'[t].head \in HeadsFor(task'[t].key)
               /\ \A u \in Task : task'[u] # Idle /\ task'[u].key = task'[t].key => u = t
               /\ cs'.key = task'[t].key => cs'.by = t
               /\ task'[t].pc = "pull" => task'[t].head \notin held_heads(records'[task'[t].key])
               /\ task'[t].pc = "home" => records'[task'[t].key] # NoRec
    <3>1. CASE t = by
      BY <1>1, <2>2, <3>1, RepositoryAssumption DEF Owned, TaskInv
    <3>2. CASE t # by
      BY <1>1, <2>1, <2>2, <3>2, RepositoryAssumption DEF Owned, TaskInv
    <3> QED BY <3>1, <3>2
  <2>3. by # "none" =>
         /\ task'[by] # Idle
         /\ cs'.key = task'[by].key
         /\ task'[by].pc = "commit" => cs'.op = "commit"
         /\ task'[by].pc # "pull"
         /\ task'[by].pc # "home"
    BY <1>1 DEF Owned
  <2> QED BY <1>1, <2>2, <2>3 DEF TaskInv, held_heads, HeadsFor, Mutating
<1>10. DurableReferenced' /\ ServedReferenced'
  BY <1>1 DEF DurableReferenced, ServedReferenced, OnDisk, held_heads
<1> QED BY <1>3, <1>5, <1>7, <1>8, <1>9, <1>10

(* Every request that only enters a section preserves the invariant.       *)
LEMMA RequestOK ==
    ASSUME IInv, NEW k \in Key, NEW h \in Heads,
           \/ Import(k, h)
           \/ Delete(k, h)
           \/ \E home \in Home, del \in BOOLEAN : Learn(k, h, home, del)
           \/ MeshDelete(k)
           \/ DropHolding(k)
           \/ AdoptHome(k)
           \/ VerifyHolding(k)
           \/ RetireRoom(k)
    PROVE  IInv'
<1> DEFINE r == records[k]
<1>0. /\ TypeOK /\ RecordInv /\ r \in Rec \cup {NoRec} /\ RecOK(k, r)
      /\ NoRec \notin Rec /\ "none" \notin Task
  BY RepositoryAssumption DEF IInv, TypeOK, RecordInv
<1>1. ASSUME NEW op \in {"commit", "meta", "unlink", "retire"},
             NEW at \in {"write", "publish"}, NEW c \in Rec \cup {NoRec},
             Begin(op, at, k, c, "none"), Backed(op, at, k, c),
             ~SlotLocked(k), UNCHANGED task, acked' \subseteq acked
      PROVE  IInv'
  <2>1. Owned(op, k, "none")
    BY <1>0, <1>1 DEF Owned, SlotLocked, TypeOK
  <2> QED BY <1>1, <2>1, BeginOK
<1>2. CASE Import(k, h)
  <2> DEFINE c == CommitRecord(k, h, NoOwner)
  <2>1. /\ c \in Rec /\ c # NoRec /\ c.current = h /\ RecOK(k, c)
        /\ \A g \in held_heads(c) \ {h} : g \in held_heads(r)
    BY <1>0, <1>2, CommitRecordOK DEF Import
  <2>2. h \notin held_heads(r)
    <3>1. CASE r = NoRec
      BY <3>1 DEF held_heads
    <3>2. CASE r # NoRec
      <4>1. /\ ~r.deleted => ~(r.held /\ (r.current = h \/ r.previous = h))
            /\ seqOf[h] > seqOf[r.current] \/ r.current = h
        BY <1>2, <3>2 DEF Import
      <4>2. r \in Rec
        BY <1>0, <3>2
      <4>3. r.previous # NoHead => seqOf[r.current] = seqOf[r.previous] + 1
        BY <1>0, <3>2, <4>2, HeadAssumption DEF RecOK, WellFormed, check_cas, Rec
      <4>4. r.previous = h => r.current # h
        BY <4>2, <4>3, HeadAssumption DEF Rec
      <4>5. r.previous = h => ~(seqOf[h] > seqOf[r.current])
        BY <4>2, <4>3, HeadAssumption DEF Rec
      <4> QED BY <4>1, <4>4, <4>5 DEF held_heads
    <3> QED BY <3>1, <3>2
  <2>3. Begin("commit", "write", k, c, "none")
    BY <1>2 DEF Import, Ready, Begin
  <2>4. Backed("commit", "write", k, c)
    BY <2>1, <2>2 DEF Backed
  <2> QED BY <1>1, <1>2, <2>1, <2>3, <2>4 DEF Import, Ready
<1>3. CASE Delete(k, h)
  <2>1. Begin("unlink", "publish", k, NoRec, "none") /\ Backed("unlink", "publish", k, NoRec)
    BY <1>3 DEF Delete, Ready, Begin, Backed, RecOK, held_heads
  <2> QED BY <1>1, <1>3, <2>1 DEF Delete, Ready
<1>4. CASE \E home \in Home, del \in BOOLEAN : Learn(k, h, home, del)
  <2>1. PICK home \in Home, del \in BOOLEAN : Learn(k, h, home, del)
    BY <1>4
  <2> DEFINE c == LearnRecord(k, h, home, del)
  <2>2. /\ c \in Rec /\ RecOK(k, c)
        /\ \A g \in held_heads(c) : g \in held_heads(r)
    BY <1>0, <2>1, LearnRecordOK DEF Learn
  <2>3. Begin("meta", "publish", k, c, "none") /\ Backed("meta", "publish", k, c)
    BY <2>1, <2>2 DEF Learn, Ready, Begin, Backed
  <2> QED BY <1>1, <2>1, <2>2, <2>3 DEF Learn, Ready
<1>5. CASE MeshDelete(k)
  <2> DEFINE d == r.current
             c == LearnRecord(k, d, r.home, TRUE)
  <2>1. r \in Rec /\ d \in HeadsFor(k) /\ r.home \in Home /\ LearnAccepts(k, d, TRUE)
    BY <1>0, <1>5 DEF MeshDelete, RecOK, HeadsFor, Rec
  <2>2. /\ c \in Rec /\ RecOK(k, c)
        /\ \A g \in held_heads(c) : g \in held_heads(r)
    BY <1>0, <2>1, LearnRecordOK
  <2>3. Begin("meta", "publish", k, c, "none") /\ Backed("meta", "publish", k, c)
    BY <1>5, <2>2 DEF MeshDelete, Ready, Begin, Backed
  <2> QED BY <1>1, <1>5, <2>2, <2>3 DEF MeshDelete, Ready
<1>6. CASE DropHolding(k)
  <2> DEFINE c == [r EXCEPT !.held = FALSE, !.previous_held = FALSE]
  <2>1. r \in Rec
    BY <1>0, <1>6 DEF DropHolding, Live
  <2>2. c \in Rec /\ RecOK(k, c) /\ held_heads(c) = {}
    BY <1>0, <2>1 DEF Rec, RecOK, WellFormed, held_heads
  <2>3. Begin("meta", "publish", k, c, "none") /\ Backed("meta", "publish", k, c)
    BY <1>6, <2>2 DEF DropHolding, Ready, Begin, Backed
  <2> QED BY <1>1, <1>6, <2>2, <2>3 DEF DropHolding, Ready
<1>7. CASE AdoptHome(k)
  <2> DEFINE c == [r EXCEPT !.home = "self"]
  <2>1. r \in Rec
    BY <1>0, <1>7 DEF AdoptHome, Live
  <2>2. c \in Rec /\ RecOK(k, c) /\ held_heads(c) \subseteq held_heads(r)
    BY <1>0, <2>1 DEF Rec, Home, RecOK, WellFormed, held_heads
  <2>3. Begin("meta", "publish", k, c, "none") /\ Backed("meta", "publish", k, c)
    BY <1>7, <2>2 DEF AdoptHome, Ready, Begin, Backed
  <2> QED BY <1>1, <1>7, <2>2, <2>3 DEF AdoptHome, Ready
<1>8. CASE VerifyHolding(k)
  <2> DEFINE c == Repaired(k, r)
  <2>1. r \in Rec
    BY <1>0, <1>8 DEF VerifyHolding, Live
  <2>2. /\ c \in Rec /\ RecOK(k, c)
        /\ \A g \in held_heads(c) : g \in held_heads(r)
    BY <1>0, <2>1, RepairedOK
  <2>3. Begin("meta", "publish", k, c, "none") /\ Backed("meta", "publish", k, c)
    BY <1>8, <2>2 DEF VerifyHolding, Ready, Begin, Backed
  <2> QED BY <1>1, <1>8, <2>2, <2>3 DEF VerifyHolding, Ready
<1>9. CASE RetireRoom(k)
  <2>1. Begin("retire", "publish", k, NoRec, "none") /\ Backed("retire", "publish", k, NoRec)
    BY <1>9 DEF RetireRoom, Begin, Backed, RecOK, held_heads
  <2>2. ~SlotLocked(k)
    BY <1>9 DEF RetireRoom, SlotLocked, IInv, TaskInv
  <2> QED BY <1>1, <1>9, <2>1, <2>2 DEF RetireRoom
<1> QED BY <1>2, <1>3, <1>4, <1>5, <1>6, <1>7, <1>8, <1>9

-----------------------------------------------------------------------------
(* Steps of tasks.                                                         *)

(* A step that touches nothing but tasks and acknowledgements.             *)
LEMMA TaskOnlyOK ==
    ASSUME IInv,
           UNCHANGED <<disk, durable, gens, up, records, failed, cs, migrated>>,
           task' \in [Task -> TaskState], acked' \subseteq (Key \X Heads), TaskInv'
    PROVE  IInv'
<1>1. TypeOK'
  BY DEF IInv, TypeOK
<1>2. SectionInv'
  BY DEF IInv, SectionInv, Synced, Mutating
<1>3. GenerationInv'
  BY DEF IInv, GenerationInv, Mutating, OnDisk
<1>4. RecordInv'
  BY DEF IInv, RecordInv, Mutating
<1>5. DurableReferenced' /\ ServedReferenced'
  BY DEF IInv, DurableReferenced, ServedReferenced, OnDisk
<1> QED BY <1>1, <1>2, <1>3, <1>4, <1>5 DEF IInv

(* A task that leaves the critical section's task alone may return.        *)
LEMMA ReturnTaskInv ==
    ASSUME IInv, NEW t \in Task, Return(t),
           UNCHANGED <<up, records, cs, migrated>>,
           task[t].pc \in {"pull", "home"}
    PROVE  task' \in [Task -> TaskState] /\ TaskInv'
<1>1. /\ task' \in [Task -> TaskState]
      /\ task'[t] = Idle
      /\ \A u \in Task : u # t => task'[u] = task[u]
  BY DEF Return, IInv, TypeOK, TaskState
<1>2. Mutating /\ cs.by # "none" => cs.by \in Task
  BY DEF IInv, TypeOK, Section, Mutating, Free
<1> QED BY <1>1, <1>2 DEF IInv, TaskInv, Mutating

(* A pull starts on a slot nobody owns, for a head nobody holds.           *)
LEMMA StartPullOK ==
    ASSUME IInv, NEW t \in Task, NEW k \in Key, NEW h \in HeadsFor(k), NEW p \in Peer,
           NEW kind \in {"put", "pull"}, NEW n \in Nat,
           Ready(k), k[1] \notin migrated, h \notin held_heads(records[k]),
           task' = [task EXCEPT ![t] = [pc |-> "pull", kind |-> kind, key |-> k,
                                        head |-> h, from |-> p, ownerAmount |-> n]],
           UNCHANGED <<disk, durable, gens, up, records, failed, cs, migrated, acked>>
    PROVE  IInv'
<1> DEFINE x == [pc |-> "pull", kind |-> kind, key |-> k,
                 head |-> h, from |-> p, ownerAmount |-> n]
<1>1. x \in TaskState /\ x # Idle
  BY DEF TaskState, Idle, HeadsFor
<1>2. task' \in [Task -> TaskState]
  BY <1>1 DEF IInv, TypeOK
<1>3. task'[t] = x /\ \A u \in Task : u # t => task'[u] = task[u]
  BY DEF IInv, TypeOK
<1>4. up /\ cs = Free /\ \A u \in Task : task[u] # Idle => task[u].key # k
  BY DEF Ready, SlotLocked
<1>5. ~Mutating
  BY <1>4 DEF Mutating, Free
<1>6. TaskInv'
  BY <1>1, <1>3, <1>4, <1>5 DEF IInv, TaskInv, Mutating
<1>7. acked' \subseteq (Key \X Heads)
  BY DEF IInv, TypeOK
<1> QED BY <1>2, <1>6, <1>7, TaskOnlyOK

(* reserve admits only heads whose generation the record does not hold.    *)
LEMMA ReserveFresh ==
    ASSUME IInv, NEW k \in Key, NEW h \in HeadsFor(k), NEW owner, reserve(k, h, owner)
    PROVE  h \notin held_heads(records[k])
  BY DEF IInv, TypeOK, reserve, Retained, Live, held_heads, HeadsFor

LEMMA TaskStepOK ==
    ASSUME IInv, NEW t \in Task, NEW p \in Peer, NEW k \in Key, NEW h \in Heads,
           \/ PutReserve(t, p, k, h)
           \/ PutRetry(t, p, k, h)
           \/ MeshPull(t, p, k, h)
           \/ PullFailed(t)
           \/ Commit(t)
           \/ SetHomeAfterPut(t)
    PROVE  IInv'
<1>0. /\ TypeOK /\ RecordInv /\ task[t] \in TaskState
      /\ records[k] \in Rec \cup {NoRec} /\ RecOK(k, records[k])
      /\ NoRec \notin Rec /\ "none" \notin Task
  BY RepositoryAssumption DEF IInv, TypeOK, RecordInv
<1>1. CASE PutReserve(t, p, k, h)
  <2>1. h \in HeadsFor(k) /\ Ready(k) /\ k[1] \notin migrated /\ reserve(k, h, p)
    BY <1>1 DEF PutReserve, Client
  <2>2. Inherited(k, h, p) \in Nat
    BY <1>0, RepositoryAssumption DEF Inherited, Live, Rec
  <2>3. reserveSize[h] + Inherited(k, h, p) \in Nat
    BY <2>2, RepositoryAssumption
  <2>4. h \notin held_heads(records[k])
    BY <2>1, ReserveFresh
  <2> QED BY <1>1, <2>1, <2>3, <2>4, StartPullOK DEF PutReserve
<1>2. CASE MeshPull(t, p, k, h)
  <2>1. Ready(k) /\ reserve(k, h, NoOwner) /\ k[1] \notin migrated
    BY <1>2 DEF MeshPull, IInv, SectionInv
  <2>2. h \in HeadsFor(k)
    BY <1>0, <1>2, HeadAssumption DEF MeshPull, CurrentOf, Live, RecOK, HeadsFor
  <2>3. h \notin held_heads(records[k])
    BY <2>1, <2>2, ReserveFresh
  <2> QED BY <1>2, <2>1, <2>2, <2>3, StartPullOK DEF MeshPull
<1>3. CASE PutRetry(t, p, k, h)
  <2>0. h \in HeadsFor(k) /\ Ready(k) /\ ~failed /\ k[1] \notin migrated /\ task[t] = Idle
        /\ records[k] \in Rec
    BY <1>0, <1>3 DEF PutRetry, Client, Retained, Live
  <2>1. CASE k[1] \in MeshRoom /\ records[k].current = h /\ records[k].home = "none"
    <3> DEFINE c == [records[k] EXCEPT !.home = "self"]
               x == [pc |-> "retry", kind |-> "put", key |-> k, head |-> h,
                     from |-> p, ownerAmount |-> 0]
    <3>1. /\ Enter("meta", "publish", k, c, t) /\ task' = [task EXCEPT ![t] = x]
          /\ UNCHANGED <<disk, durable, gens, up, records, failed, migrated, acked>>
      BY <1>3, <2>1 DEF PutRetry
    <3>2. c \in Rec /\ RecOK(k, c) /\ held_heads(c) \subseteq held_heads(records[k])
      BY <1>0, <2>0 DEF Rec, Home, RecOK, WellFormed, held_heads
    <3>3. Begin("meta", "publish", k, c, t) /\ Backed("meta", "publish", k, c)
      BY <2>0, <3>1, <3>2 DEF Ready, Begin, Backed
    <3>4. x \in TaskState /\ x # Idle
      BY <2>0 DEF TaskState, Idle, HeadsFor
    <3>5. Owned("meta", k, t)
      BY <1>0, <2>0, <3>1, <3>4 DEF Owned, TypeOK, Ready, SlotLocked
    <3> QED BY <3>1, <3>2, <3>3, <3>5, BeginOK
  <2>2. CASE ~(k[1] \in MeshRoom /\ records[k].current = h /\ records[k].home = "none")
    <3>1. acked' = acked \cup {<<k, h>>}
          /\ UNCHANGED <<disk, durable, gens, up, records, failed, cs, task, migrated>>
      BY <1>3, <2>2 DEF PutRetry
    <3>2. task' \in [Task -> TaskState] /\ acked' \subseteq (Key \X Heads) /\ TaskInv'
      BY <1>0, <3>1 DEF TypeOK, IInv, TaskInv, Mutating
    <3> QED BY <3>1, <3>2, TaskOnlyOK
  <2> QED BY <2>1, <2>2
<1>4. CASE PullFailed(t)
  <2>1. task' \in [Task -> TaskState] /\ TaskInv'
    BY <1>4, ReturnTaskInv DEF PullFailed
  <2>2. acked' \subseteq (Key \X Heads)
    BY <1>0, <1>4 DEF PullFailed, TypeOK
  <2> QED BY <1>4, <2>1, <2>2, TaskOnlyOK DEF PullFailed
<1>5. CASE Commit(t)
  <2> DEFINE K == task[t].key
             H == task[t].head
             owner == IF task[t].kind = "put" THEN task[t].from ELSE NoOwner
             c == CommitRecord(K, H, owner)
  <2>1. /\ up /\ cs = Free /\ ~failed /\ task[t].pc = "pull"
        /\ Enter("commit", "write", K, c, t)
        /\ task' = [task EXCEPT ![t].pc = "commit"]
        /\ UNCHANGED <<disk, durable, gens, up, records, failed, migrated, acked>>
    BY <1>5 DEF Commit
  <2>2. task[t] # Idle
    BY <2>1 DEF Idle
  <2>3. K \in Key /\ H \in HeadsFor(K) /\ owner \in Peer \cup {NoOwner}
    BY <1>0, <2>1, <2>2 DEF TaskState, Idle, IInv, TaskInv
  <2>4. /\ c \in Rec /\ c # NoRec /\ c.current = H /\ RecOK(K, c)
        /\ \A g \in held_heads(c) \ {H} : g \in held_heads(records[K])
    BY <1>0, <2>3, CommitRecordOK
  <2>5. H \notin held_heads(records[K])
    BY <2>1, <2>2 DEF IInv, TaskInv
  <2>6. Begin("commit", "write", K, c, t) /\ Backed("commit", "write", K, c)
    BY <2>1, <2>4, <2>5 DEF Begin, Backed
  <2>7. Owned("commit", K, t)
    <3>1. /\ task'[t].pc = "commit" /\ task'[t].key = K /\ task'[t].head = H
          /\ task'[t] \in TaskState /\ task'[t] # Idle
      BY <1>0, <2>1, <2>2 DEF TypeOK, TaskState, Idle
    <3>2. task' \in [Task -> TaskState] /\ \A u \in Task : u # t => task'[u] = task[u]
      BY <1>0, <2>1, <3>1 DEF TypeOK
    <3>3. \A u \in Task : u # t /\ task[u] # Idle => task[u].key # K
      BY <2>2 DEF IInv, TaskInv
    <3> QED BY <2>2, <2>3, <3>1, <3>2, <3>3 DEF Owned, IInv, TaskInv
  <2> QED BY <2>1, <2>3, <2>4, <2>6, <2>7, BeginOK
<1>6. CASE SetHomeAfterPut(t)
  <2> DEFINE K == task[t].key
             c == [records[K] EXCEPT !.home = "self"]
  <2>1. /\ up /\ cs = Free /\ task[t].pc = "home"
        /\ UNCHANGED <<disk, durable, gens, up, records, failed, migrated>>
    BY <1>6 DEF SetHomeAfterPut
  <2>2. task[t] # Idle /\ K \in Key /\ task[t].head \in HeadsFor(K) /\ records[K] \in Rec
        /\ RecOK(K, records[K])
    BY <1>0, <2>1 DEF TaskState, Idle, IInv, TaskInv, TypeOK, RecordInv
  <2>3. \/ /\ Return(t) /\ UNCHANGED cs /\ (UNCHANGED acked \/ Ack(t))
        \/ /\ ~failed /\ UNCHANGED acked
           /\ Enter("meta", "publish", K, c, t)
           /\ task' = [task EXCEPT ![t].pc = "homing"]
    BY <1>6 DEF SetHomeAfterPut
  <2>4. CASE Return(t) /\ UNCHANGED cs /\ (UNCHANGED acked \/ Ack(t))
    <3>1. task' \in [Task -> TaskState] /\ TaskInv'
      BY <2>1, <2>4, ReturnTaskInv
    <3>2. acked' \subseteq (Key \X Heads)
      BY <1>0, <2>2, <2>4 DEF TypeOK, Ack, HeadsFor
    <3> QED BY <2>1, <2>4, <3>1, <3>2, TaskOnlyOK
  <2>5. CASE /\ ~failed /\ UNCHANGED acked
             /\ Enter("meta", "publish", K, c, t)
             /\ task' = [task EXCEPT ![t].pc = "homing"]
    <3>1. c \in Rec /\ RecOK(K, c) /\ held_heads(c) \subseteq held_heads(records[K])
      BY <1>0, <2>2 DEF Rec, Home, RecOK, WellFormed, held_heads
    <3>2. Begin("meta", "publish", K, c, t) /\ Backed("meta", "publish", K, c)
      BY <2>1, <2>5, <3>1 DEF Begin, Backed
    <3>3. /\ task'[t].pc = "homing" /\ task'[t].key = K /\ task'[t].head = task[t].head
          /\ task'[t] \in TaskState /\ task'[t] # Idle
      BY <1>0, <2>2, <2>5 DEF TypeOK, TaskState, Idle
    <3>4. task' \in [Task -> TaskState] /\ \A u \in Task : u # t => task'[u] = task[u]
      BY <1>0, <2>5, <3>3 DEF TypeOK
    <3>5. Owned("meta", K, t)
      BY <2>2, <3>3, <3>4 DEF Owned, IInv, TaskInv
    <3> QED BY <2>2, <2>5, <3>1, <3>2, <3>5, BeginOK
  <2> QED BY <2>3, <2>4, <2>5
<1> QED BY <1>1, <1>2, <1>3, <1>4, <1>5, <1>6

-----------------------------------------------------------------------------
(* Steps of a critical section.                                            *)

LEMMA SectionShape ==
    ASSUME TypeOK
    PROVE  /\ cs.at \in {"write", "sync", "publish", "index"} => Mutating
           /\ Mutating =>
                /\ cs.key \in Key /\ cs.rec \in Rec \cup {NoRec}
                /\ cs.by \in Task \cup {"none"}
                /\ cs = [op |-> cs.op, at |-> cs.at, key |-> cs.key,
                         rec |-> cs.rec, by |-> cs.by]
                /\ cs # Free /\ cs.op # "open"
           /\ ~Mutating => cs = Free \/ cs \in [op : {"open"}, at : {"load", "cleanup"}]
  BY DEF TypeOK, Section, Mutating, Free

(* Moving on within a section does not disturb the tasks.                  *)
LEMMA AdvanceTaskInv ==
    ASSUME IInv, Mutating, NEW at, cs' = [cs EXCEPT !.at = at],
           UNCHANGED <<up, task, migrated>>,
           \A t \in Task : task[t] # Idle /\ cs.by # t =>
              records'[task[t].key] = records[task[t].key]
    PROVE  TaskInv'
<1>1. cs'.op = cs.op /\ cs'.key = cs.key /\ cs'.by = cs.by
  BY SectionShape DEF IInv
<1>2. cs.by # "none" => cs.by \in Task
  BY SectionShape DEF IInv
<1>3. ASSUME NEW t \in Task, task[t] # Idle
      PROVE  /\ up'
             /\ task'[t].key[1] \notin migrated'
             /\ task'[t].head \in HeadsFor(task'[t].key)
             /\ \A u \in Task : task'[u] # Idle /\ task'[u].key = task'[t].key => u = t
             /\ Mutating' /\ cs'.key = task'[t].key => cs'.by = t
             /\ task'[t].pc = "pull" => task'[t].head \notin held_heads(records'[task'[t].key])
             /\ task'[t].pc = "home" => records'[task'[t].key] # NoRec
  <2>1. CASE cs.by = t
    BY <1>1, <1>2, <1>3, <2>1, RepositoryAssumption DEF IInv, TaskInv, Mutating
  <2>2. CASE cs.by # t
    BY <1>1, <1>3, <2>2 DEF IInv, TaskInv, Mutating
  <2> QED BY <2>1, <2>2
<1>4. cs.by # "none" =>
         /\ task'[cs.by] # Idle
         /\ cs.key = task'[cs.by].key
         /\ task'[cs.by].pc = "commit" => cs.op = "commit"
         /\ task'[cs.by].pc # "pull"
         /\ task'[cs.by].pc # "home"
  BY DEF IInv, TaskInv
<1> QED BY <1>1, <1>3, <1>4 DEF TaskInv, HeadsFor

LEMMA WriteGenerationOK ==
    ASSUME IInv, WriteGeneration \/ SyncGeneration
    PROVE  IInv'
<1> DEFINE k == cs.key
           h == cs.rec.current
<1>0. /\ Mutating /\ cs.op = "commit" /\ cs.at \in {"write", "sync"}
      /\ k \in Key /\ cs.rec \in Rec /\ h \in Heads /\ Synced
      /\ h \notin held_heads(records[k])
  BY SectionShape DEF IInv, WriteGeneration, SyncGeneration, GenerationInv, SectionInv, Rec
<1>1. PICK s \in {"part", "full"}, at \in {"sync", "publish"} :
        /\ gens' = [gens EXCEPT ![k][h] = s]
        /\ cs' = [cs EXCEPT !.at = at]
        /\ s = "full" <=> at = "publish"
  BY DEF WriteGeneration, SyncGeneration
<1>2. UNCHANGED <<disk, durable, up, records, failed, task, migrated, acked>>
  BY DEF WriteGeneration, SyncGeneration
<1>3. /\ cs' \in Section /\ cs'.at = at /\ cs'.op = "commit"
      /\ cs'.key = k /\ cs'.rec = cs.rec /\ cs'.by = cs.by
  BY <1>0, <1>1, SectionShape DEF IInv, TypeOK, Section, Mutating
<1>4. /\ gens' \in [Key -> [Heads -> GenState]]
      /\ gens'[k][h] = s
      /\ \A j \in Key, g \in Heads : j # k \/ g # h => gens'[j][g] = gens[j][g]
  BY <1>0, <1>1 DEF IInv, TypeOK, GenState
<1>5. TypeOK'
  BY <1>2, <1>3, <1>4 DEF IInv, TypeOK
<1>6. SectionInv'
  BY <1>0, <1>1, <1>2, <1>3 DEF IInv, SectionInv, Synced, Mutating, Free
<1>7. GenerationInv'
  <2>1. \A g \in held_heads(cs.rec) \ {h} : gens'[k][g] \in {"full", "bad"}
    BY <1>0, <1>4 DEF IInv, GenerationInv, OnDisk, held_heads
  <2>2. at = "publish" => gens'[k][h] \in {"full", "bad"}
    BY <1>1, <1>4
  <2> QED BY <1>0, <1>1, <1>2, <1>3, <2>1, <2>2
          DEF IInv, GenerationInv, Mutating, OnDisk, held_heads
<1>8. RecordInv'
  BY <1>0, <1>2, <1>3 DEF IInv, RecordInv, Mutating, RecOK, WellFormed
<1>9. TaskInv'
  BY <1>0, <1>1, <1>2, AdvanceTaskInv
<1>10. DurableReferenced' /\ ServedReferenced'
  BY <1>0, <1>2, <1>4 DEF IInv, DurableReferenced, ServedReferenced, OnDisk, Synced, held_heads
<1> QED BY <1>5, <1>6, <1>7, <1>8, <1>9, <1>10 DEF IInv

LEMMA PublishRecordOK ==
    ASSUME IInv, PublishRecord
    PROVE  IInv'
<1>0. /\ Mutating /\ cs.at = "publish" /\ cs.key \in Key /\ cs.rec \in Rec \cup {NoRec}
      /\ Synced /\ up /\ ~failed
  BY SectionShape DEF IInv, PublishRecord, SectionInv
<1>1. /\ disk' = [disk EXCEPT ![cs.key] = cs.rec]
      /\ cs' = [cs EXCEPT !.at = "index"]
      /\ UNCHANGED <<durable, gens, up, records, failed, task, migrated, acked>>
  BY DEF PublishRecord
<1>2. /\ cs' \in Section /\ cs'.at = "index" /\ cs'.op = cs.op
      /\ cs'.key = cs.key /\ cs'.rec = cs.rec /\ cs'.by = cs.by
  BY <1>0, <1>1, SectionShape DEF IInv, TypeOK, Section, Mutating
<1>3. TypeOK'
  BY <1>0, <1>1, <1>2 DEF IInv, TypeOK
<1>4. SectionInv'
  BY <1>0, <1>1, <1>2, <1>3 DEF IInv, SectionInv, Synced, Mutating, Free
<1>5. GenerationInv'
  BY <1>1, <1>2 DEF IInv, GenerationInv, Mutating
<1>6. RecordInv'
  BY <1>0, <1>1, <1>2 DEF IInv, RecordInv, Mutating, TypeOK
<1>7. TaskInv'
  BY <1>0, <1>1, AdvanceTaskInv
<1>8. DurableReferenced' /\ ServedReferenced'
  BY <1>0, <1>1 DEF IInv, DurableReferenced, ServedReferenced, OnDisk, GenerationInv, TypeOK
<1> QED BY <1>3, <1>4, <1>5, <1>6, <1>7, <1>8 DEF IInv

LEMMA IndexRecordOK ==
    ASSUME IInv, IndexRecord
    PROVE  IInv'
<1>0. /\ Mutating /\ cs.at = "index" /\ cs.key \in Key /\ cs.rec \in Rec \cup {NoRec}
      /\ records = durable /\ disk = [durable EXCEPT ![cs.key] = cs.rec] /\ up /\ ~failed
  BY SectionShape DEF IInv, IndexRecord, SectionInv
<1>1. /\ durable' = disk
      /\ records' = [records EXCEPT ![cs.key] = cs.rec]
      /\ cs' = [cs EXCEPT !.at = "cleanup"]
      /\ UNCHANGED <<disk, gens, up, failed, task, migrated, acked>>
  BY DEF IndexRecord
<1>2. /\ cs' \in Section /\ cs'.at = "cleanup" /\ cs'.op = cs.op
      /\ cs'.key = cs.key /\ cs'.rec = cs.rec /\ cs'.by = cs.by
  BY <1>0, <1>1, SectionShape DEF IInv, TypeOK, Section, Mutating
<1>3. TypeOK'
  BY <1>0, <1>1, <1>2 DEF IInv, TypeOK
<1>4. Synced' /\ records'[cs.key] = cs.rec
  BY <1>0, <1>1 DEF Synced, IInv, TypeOK
<1>5. SectionInv'
  BY <1>0, <1>1, <1>2, <1>4 DEF IInv, SectionInv, Mutating, Free
<1>6. GenerationInv'
  BY <1>1, <1>2 DEF IInv, GenerationInv, Mutating
<1>7. RecordInv'
  BY <1>0, <1>1, <1>2 DEF IInv, RecordInv, Mutating, TypeOK
<1>8. TaskInv'
  <2>1. \A t \in Task : task[t] # Idle /\ cs.by # t => task[t].key # cs.key
    BY <1>0 DEF IInv, TaskInv
  <2>2. \A t \in Task : task[t] # Idle => task[t].key \in Key
    BY DEF IInv, TypeOK, TaskState
  <2> QED BY <1>0, <1>1, <2>1, <2>2, AdvanceTaskInv DEF IInv, TypeOK
<1>9. DurableReferenced' /\ ServedReferenced'
  BY <1>1, <1>4 DEF IInv, DurableReferenced, ServedReferenced, OnDisk, Synced
<1> QED BY <1>3, <1>5, <1>6, <1>7, <1>8, <1>9 DEF IInv

(* Cleanup removes only what the index does not refer to; the index, the   *)
(* record files and what survives a power loss agree while it runs.        *)
LEMMA CleanupOK ==
    ASSUME IInv, NEW k \in Key, NEW h \in Heads, NEW left \in {"none", "part"},
           Cleanup(k, h, left)
    PROVE  IInv'
<1>0. /\ cs.at = "cleanup" /\ Synced /\ h \notin held_heads(records[k])
      /\ gens' = [gens EXCEPT ![k][h] = left]
      /\ UNCHANGED <<disk, durable, up, records, failed, cs, task, migrated, acked>>
  BY DEF IInv, Cleanup, Unreferenced, SectionInv
<1>1. /\ gens' \in [Key -> [Heads -> GenState]]
      /\ \A j \in Key, g \in Heads : j # k \/ g # h => gens'[j][g] = gens[j][g]
  BY <1>0 DEF IInv, TypeOK, GenState
<1>2. TypeOK'
  BY <1>0, <1>1 DEF IInv, TypeOK
<1>3. SectionInv'
  BY <1>0 DEF IInv, SectionInv, Synced, Mutating
<1>4. GenerationInv'
  BY <1>0 DEF IInv, GenerationInv, Mutating
<1>5. RecordInv'
  BY <1>0 DEF IInv, RecordInv, Mutating
<1>6. TaskInv'
  BY <1>0 DEF IInv, TaskInv, Mutating
<1>7. DurableReferenced' /\ ServedReferenced'
  BY <1>0, <1>1 DEF IInv, DurableReferenced, ServedReferenced, OnDisk, Synced, held_heads
<1> QED BY <1>2, <1>3, <1>4, <1>5, <1>6, <1>7 DEF IInv

(* A section ends, successfully or by disabling writes until restart.      *)
LEMMA EndSectionOK ==
    ASSUME IInv, Mutating, cs' = Free,
           UNCHANGED <<disk, durable, gens, up, records, migrated>>,
           failed' = TRUE \/ (failed' = failed /\ Synced),
           \/ UNCHANGED <<task, acked>> /\ cs.by = "none"
           \/ cs.by # "none" /\ cs.at = "cleanup" /\ Resume(cs.by)
           \/ cs.by # "none" /\ Return(cs.by) /\ UNCHANGED acked
    PROVE  IInv'
<1> DEFINE t == cs.by
<1>0. /\ up /\ failed' \in BOOLEAN
      /\ t # "none" => t \in Task
      /\ t # "none" => task[t] # Idle /\ task[t] \in TaskState /\ cs.key = task[t].key
  BY SectionShape DEF IInv, SectionInv, TypeOK, TaskInv
<1>1. \/ UNCHANGED task
      \/ t \in Task /\ task' = [task EXCEPT ![t] = Idle]
      \/ /\ t \in Task /\ task[t].pc = "commit" /\ cs.at = "cleanup"
         /\ task' = [task EXCEPT ![t].pc = "home"]
  BY <1>0 DEF Resume, Return
<1>2. acked' \subseteq (Key \X Heads)
  <2>1. t \in Task /\ t # "none" => task[t].key \in Key /\ task[t].head \in Heads
    BY <1>0 DEF TaskState
  <2> QED BY <1>0, <2>1 DEF IInv, TypeOK, Resume, Ack
<1>3. task' \in [Task -> TaskState] /\ TaskInv'
  <2>0. ~Mutating'
    BY DEF Mutating, Free
  <2>1. CASE UNCHANGED task
    BY <1>0, <2>0, <2>1 DEF IInv, TypeOK, TaskInv
  <2>2. CASE t \in Task /\ task' = [task EXCEPT ![t] = Idle]
    <3>1. /\ task' \in [Task -> TaskState] /\ task'[t] = Idle
          /\ \A u \in Task : u # t => task'[u] = task[u]
      BY <2>2 DEF IInv, TypeOK, TaskState
    <3> QED BY <1>0, <2>0, <3>1 DEF IInv, TaskInv
  <2>3. CASE /\ t \in Task /\ task[t].pc = "commit" /\ cs.at = "cleanup"
             /\ task' = [task EXCEPT ![t].pc = "home"]
    <3>0. t # "none"
      BY <2>3, RepositoryAssumption
    <3>1. /\ task'[t] \in TaskState /\ task'[t] # Idle /\ task'[t].pc = "home"
          /\ task'[t].key = task[t].key /\ task'[t].head = task[t].head
      BY <1>0, <2>3, <3>0 DEF IInv, TypeOK, TaskState, Idle
    <3>2. /\ task' \in [Task -> TaskState]
          /\ \A u \in Task : u # t => task'[u] = task[u]
      BY <2>3, <3>1 DEF IInv, TypeOK
    <3>3. records[task[t].key] # NoRec
      BY <1>0, <2>3, <3>0 DEF IInv, TaskInv, SectionInv, GenerationInv
    <3>4. ASSUME NEW u \in Task, task'[u] # Idle
          PROVE  /\ up'
                 /\ task'[u].key[1] \notin migrated'
                 /\ task'[u].head \in HeadsFor(task'[u].key)
                 /\ \A v \in Task : task'[v] # Idle /\ task'[v].key = task'[u].key => v = u
                 /\ task'[u].pc = "pull" => task'[u].head \notin held_heads(records'[task'[u].key])
                 /\ task'[u].pc = "home" => records'[task'[u].key] # NoRec
      <4>1. CASE u = t
        BY <1>0, <3>0, <3>1, <3>2, <3>3, <4>1 DEF IInv, TaskInv
      <4>2. CASE u # t
        BY <1>0, <3>0, <3>1, <3>2, <3>4, <4>2 DEF IInv, TaskInv
      <4> QED BY <4>1, <4>2
    <3> QED BY <2>0, <3>2, <3>4 DEF TaskInv, HeadsFor
  <2> QED BY <1>1, <2>1, <2>2, <2>3
<1>4. TypeOK'
  BY <1>0, <1>2, <1>3 DEF IInv, TypeOK, Section
<1>5. SectionInv'
  BY <1>0 DEF IInv, SectionInv, Synced, Mutating, Free
<1>6. GenerationInv' /\ RecordInv'
  BY DEF IInv, GenerationInv, RecordInv, Mutating, Free
<1>7. DurableReferenced' /\ ServedReferenced'
  BY DEF IInv, DurableReferenced, ServedReferenced, OnDisk
<1> QED BY <1>3, <1>4, <1>5, <1>6, <1>7 DEF IInv

LEMMA EndOK ==
    ASSUME IInv, Finish \/ IoError
    PROVE  IInv'
<1>1. CASE Finish
  <2>1. Synced
    BY <1>1 DEF Finish, IInv, SectionInv
  <2> QED BY <1>1, <2>1, EndSectionOK DEF Finish
<1>2. CASE IoError
  BY <1>2, EndSectionOK DEF IoError
<1> QED BY <1>1, <1>2

-----------------------------------------------------------------------------
(* Crash, corruption and restart.                                          *)

LEMMA CrashOK ==
    ASSUME IInv, Crash
    PROVE  IInv'
<1>1. /\ up' = FALSE /\ cs' = Free /\ records' = NoRecords /\ failed' = FALSE
      /\ task' = [t \in Task |-> Idle] /\ disk' \in {disk, durable} /\ durable' = disk'
      /\ UNCHANGED <<gens, migrated, acked>>
  BY DEF Crash
<1>2. TypeOK'
  BY <1>1 DEF IInv, TypeOK, Section, NoRecords, TaskState
<1>3. SectionInv'
  BY <1>1 DEF IInv, SectionInv, Mutating, Free
<1>4. GenerationInv' /\ TaskInv'
  BY <1>1 DEF IInv, GenerationInv, TaskInv, Mutating, Free
<1>5. RecordInv'
  BY <1>1 DEF IInv, RecordInv, NoRecords, RecOK, Mutating, Free
<1>6. DurableReferenced' /\ ServedReferenced'
  BY <1>1 DEF IInv, DurableReferenced, ServedReferenced, OnDisk, NoRecords, held_heads
<1> QED BY <1>2, <1>3, <1>4, <1>5, <1>6 DEF IInv

LEMMA MigrateOK ==
    ASSUME IInv, NEW r \in Room, Migrate(r)
    PROVE  IInv'
<1>1. /\ ~up /\ r \notin MeshRoom /\ migrated' = migrated \cup {r}
      /\ acked' \subseteq acked
      /\ UNCHANGED <<disk, durable, gens, up, records, failed, cs, task>>
  BY DEF Migrate
<1>2. TypeOK' /\ SectionInv'
  BY <1>1 DEF IInv, TypeOK, SectionInv, Synced, Mutating
<1>3. GenerationInv' /\ RecordInv' /\ DurableReferenced' /\ ServedReferenced'
  BY <1>1 DEF IInv, GenerationInv, RecordInv, Mutating, OnDisk, DurableReferenced, ServedReferenced
<1>4. TaskInv'
  BY <1>1 DEF IInv, TaskInv, SectionInv, Mutating
<1> QED BY <1>2, <1>3, <1>4 DEF IInv

LEMMA RotOK ==
    ASSUME IInv, NEW k \in Key, NEW h \in Heads, Rot(k, h)
    PROVE  IInv'
<1>1. /\ gens[k][h] = "full" /\ gens' = [gens EXCEPT ![k][h] = "bad"]
      /\ UNCHANGED <<disk, durable, up, records, failed, cs, task, migrated, acked>>
  BY DEF Rot
<1>2. /\ gens' \in [Key -> [Heads -> GenState]]
      /\ \A j \in Key, g \in Heads : OnDisk(j, g) => gens'[j][g] \in {"full", "bad"}
  BY <1>1 DEF IInv, TypeOK, GenState, OnDisk
<1>3. TypeOK' /\ SectionInv'
  BY <1>1, <1>2 DEF IInv, TypeOK, SectionInv, Synced, Mutating
<1>4. GenerationInv'
  BY <1>1, <1>2, SectionShape DEF IInv, GenerationInv, Mutating, OnDisk, held_heads
<1>5. RecordInv' /\ TaskInv'
  BY <1>1 DEF IInv, RecordInv, TaskInv, Mutating
<1>6. DurableReferenced' /\ ServedReferenced'
  BY <1>1, <1>2 DEF IInv, DurableReferenced, ServedReferenced, OnDisk, held_heads
<1> QED BY <1>3, <1>4, <1>5, <1>6 DEF IInv

LEMMA OpenOK ==
    ASSUME IInv,
           OpenStart \/ (\E k \in Key : OpenRepair(k)) \/ OpenLoad \/ OpenRefused \/ OpenDone
    PROVE  IInv'
<1>1. CASE OpenStart
  <2>1. /\ ~up /\ cs = Free /\ cs' = [op |-> "open", at |-> "load"]
        /\ UNCHANGED <<disk, durable, gens, up, records, failed, task, migrated, acked>>
    BY <1>1 DEF OpenStart
  <2>2. TypeOK' /\ SectionInv'
    BY <2>1 DEF IInv, TypeOK, Section, SectionInv, Mutating, Free
  <2>3. GenerationInv' /\ RecordInv' /\ TaskInv' /\ DurableReferenced' /\ ServedReferenced'
    BY <2>1 DEF IInv, GenerationInv, RecordInv, TaskInv, Mutating, Free, OnDisk,
                DurableReferenced, ServedReferenced
  <2> QED BY <2>2, <2>3 DEF IInv
<1>2. CASE \E k \in Key : OpenRepair(k)
  <2>1. PICK k \in Key : OpenRepair(k)
    BY <1>2
  <2>2. /\ cs.at = "load" /\ Corrupt(k, disk[k]) # {}
        /\ disk' = [disk EXCEPT ![k] = Repaired(k, disk[k])] /\ durable' = disk'
        /\ UNCHANGED <<gens, up, records, failed, cs, task, migrated, acked>>
    BY <2>1 DEF OpenRepair
  <2>3. ~Mutating /\ ~up /\ cs # Free /\ cs.op = "open"
    BY <2>2, SectionShape DEF IInv, SectionInv, TypeOK, Section, Free, Mutating
  <2>4. disk[k] \in Rec /\ RecOK(k, disk[k])
    BY <2>2 DEF Corrupt, held_heads, IInv, TypeOK, RecordInv
  <2>5. /\ Repaired(k, disk[k]) \in Rec /\ RecOK(k, Repaired(k, disk[k]))
        /\ \A g \in held_heads(Repaired(k, disk[k])) : g \in held_heads(disk[k])
    BY <2>4, RepairedOK
  <2>6. TypeOK' /\ SectionInv'
    BY <2>2, <2>3, <2>5 DEF IInv, TypeOK, SectionInv, Mutating
  <2>7. RecordInv'
    BY <2>2, <2>3, <2>5 DEF IInv, TypeOK, RecordInv, Mutating
  <2>8. GenerationInv' /\ TaskInv'
    BY <2>2, <2>3 DEF IInv, GenerationInv, TaskInv, Mutating
  <2>9. DurableReferenced' /\ ServedReferenced'
    BY <2>2, <2>5 DEF IInv, TypeOK, DurableReferenced, ServedReferenced, OnDisk
  <2> QED BY <2>6, <2>7, <2>8, <2>9 DEF IInv
<1>3. CASE OpenLoad
  <2>1. /\ cs.at = "load" /\ records' = disk /\ cs' = [cs EXCEPT !.at = "cleanup"]
        /\ UNCHANGED <<disk, durable, gens, up, failed, task, migrated, acked>>
    BY <1>3 DEF OpenLoad
  <2>2. ~Mutating /\ ~up /\ disk = durable /\ cs = [op |-> "open", at |-> "load"]
    BY <2>1, SectionShape DEF IInv, SectionInv, TypeOK, Section, Free, Mutating
  <2>3. cs' = [op |-> "open", at |-> "cleanup"]
    BY <2>1, <2>2
  <2>4. TypeOK' /\ SectionInv'
    BY <2>1, <2>2, <2>3 DEF IInv, TypeOK, Section, SectionInv, Synced, Mutating, Free
  <2>5. GenerationInv' /\ RecordInv' /\ DurableReferenced' /\ ServedReferenced'
    BY <2>1, <2>3 DEF IInv, GenerationInv, RecordInv, Mutating, OnDisk,
                      DurableReferenced, ServedReferenced
  <2>6. TaskInv'
    BY <2>1, <2>2, <2>3 DEF IInv, TaskInv, Mutating
  <2> QED BY <2>4, <2>5, <2>6 DEF IInv
<1>4. CASE OpenRefused
  <2>1. /\ cs.at = "load" /\ cs' = Free
        /\ UNCHANGED <<disk, durable, gens, up, records, failed, task, migrated, acked>>
    BY <1>4 DEF OpenRefused
  <2>2. ~Mutating /\ ~up
    BY <2>1, SectionShape DEF IInv, SectionInv, TypeOK, Section, Free, Mutating
  <2>3. TypeOK' /\ SectionInv'
    BY <2>1, <2>2 DEF IInv, TypeOK, Section, SectionInv, Mutating, Free
  <2>4. GenerationInv' /\ RecordInv' /\ TaskInv' /\ DurableReferenced' /\ ServedReferenced'
    BY <2>1, <2>2 DEF IInv, GenerationInv, RecordInv, TaskInv, Mutating, Free, OnDisk,
                DurableReferenced, ServedReferenced
  <2> QED BY <2>3, <2>4 DEF IInv
<1>5. CASE OpenDone
  <2>1. /\ cs = [op |-> "open", at |-> "cleanup"] /\ cs' = Free /\ up' = TRUE
        /\ UNCHANGED <<disk, durable, gens, records, failed, task, migrated, acked>>
    BY <1>5 DEF OpenDone
  <2>2. ~Mutating /\ ~up /\ Synced
    BY <2>1 DEF IInv, SectionInv, Mutating
  <2>3. TypeOK' /\ SectionInv'
    BY <2>1, <2>2 DEF IInv, TypeOK, Section, SectionInv, Synced, Mutating, Free
  <2>4. GenerationInv' /\ RecordInv' /\ TaskInv' /\ DurableReferenced' /\ ServedReferenced'
    BY <2>1, <2>2 DEF IInv, GenerationInv, RecordInv, TaskInv, Mutating, Free, OnDisk,
                DurableReferenced, ServedReferenced
  <2> QED BY <2>3, <2>4 DEF IInv
<1> QED BY <1>1, <1>2, <1>3, <1>4, <1>5

-----------------------------------------------------------------------------
(* The inductive invariant, and what follows from it.                      *)

LEMMA InitOK == Init => IInv
<1> SUFFICES ASSUME Init PROVE IInv
  OBVIOUS
<1>1. TypeOK
  BY DEF Init, TypeOK, NoRecords, GenState, Section, TaskState
<1>2. SectionInv
  BY DEF Init, SectionInv, Mutating, Free
<1>3. GenerationInv /\ RecordInv /\ TaskInv
  BY DEF Init, GenerationInv, RecordInv, RecOK, NoRecords, TaskInv, Mutating, Free
<1>4. DurableReferenced /\ ServedReferenced
  BY DEF Init, DurableReferenced, ServedReferenced, NoRecords, held_heads
<1> QED BY <1>1, <1>2, <1>3, <1>4 DEF IInv

LEMMA StutterOK == IInv /\ UNCHANGED vars => IInv'
  BY DEF IInv, vars, TypeOK, SectionInv, Synced, GenerationInv, RecordInv, TaskInv, Mutating,
         OnDisk, DurableReferenced, ServedReferenced

LEMMA StepOK == IInv /\ [Next]_vars => IInv'
<1> SUFFICES ASSUME IInv, [Next]_vars PROVE IInv'
  OBVIOUS
<1>1. CASE Request
  <2>1. ASSUME NEW k \in Key,
               \/ MeshDelete(k) \/ DropHolding(k) \/ AdoptHome(k)
               \/ VerifyHolding(k) \/ RetireRoom(k)
        PROVE  IInv'
    <3>1. records[k].current \in Heads
      BY <2>1 DEF MeshDelete, DropHolding, AdoptHome, VerifyHolding, RetireRoom, Live,
                  IInv, TypeOK, Rec
    <3> QED BY <2>1, <3>1, RequestOK
  <2>2. ASSUME NEW k \in Key, NEW h \in Heads,
               \/ Import(k, h) \/ Delete(k, h)
               \/ \E home \in Home, del \in BOOLEAN : Learn(k, h, home, del)
        PROVE  IInv'
    BY <2>2, RequestOK
  <2>3. ASSUME NEW t \in Task, NEW p \in Peer, NEW k \in Key, NEW h \in Heads,
               PutReserve(t, p, k, h) \/ PutRetry(t, p, k, h) \/ MeshPull(t, p, k, h)
        PROVE  IInv'
    BY <2>3, TaskStepOK
  <2> QED BY <1>1, <2>1, <2>2, <2>3 DEF Request
<1>2. CASE TaskStep
  <2>1. PICK t \in Task : PullFailed(t) \/ Commit(t) \/ SetHomeAfterPut(t)
    BY <1>2 DEF TaskStep
  <2>2. task[t] \in TaskState /\ task[t] # Idle
    BY <2>1 DEF PullFailed, Commit, SetHomeAfterPut, Idle, IInv, TypeOK
  <2>3. task[t].from \in Peer /\ task[t].key \in Key /\ task[t].head \in Heads
    BY <2>2 DEF TaskState
  <2> QED BY <2>1, <2>3, TaskStepOK
<1>3. CASE SectionStep
  BY <1>3, WriteGenerationOK, PublishRecordOK, IndexRecordOK, CleanupOK, EndOK DEF SectionStep
<1>4. CASE Restart
  BY <1>4, OpenOK DEF Restart
<1>5. CASE Environment
  BY <1>5, CrashOK, MigrateOK, RotOK DEF Environment
<1>6. CASE UNCHANGED vars
  BY <1>6, StutterOK
<1> QED BY <1>1, <1>2, <1>3, <1>4, <1>5, <1>6 DEF Next

(* The repository's state stays well typed, including the record a section *)
(* publishes and the request it works for.                                 *)
THEOREM TypeCorrect == Spec => []TypeOK
<1>1. IInv => TypeOK
  BY DEF IInv
<1> QED BY <1>1, InitOK, StepOK, PTL DEF Spec

(* commit_inner, publish_metadata, delete_inner and cleanup never let a    *)
(* record file that a crash can leave refer to a missing generation, for   *)
(* any interleaving of requests, I/O errors, crashes and restarts.         *)
THEOREM DurableReferences == Spec => []DurableReferenced
<1>1. IInv => DurableReferenced
  BY DEF IInv
<1> QED BY <1>1, InitOK, StepOK, PTL DEF Spec

(* The index never offers a generation cleanup has removed, even while     *)
(* writes are disabled because memory and files may differ.                *)
THEOREM ServedReferences == Spec => []ServedReferenced
<1>1. IInv => ServedReferenced
  BY DEF IInv
<1> QED BY <1>1, InitOK, StepOK, PTL DEF Spec

(* Repository::open's structural checks accept every record file that the  *)
(* operations, interrupted anywhere, can leave behind.                     *)
THEOREM OpenAcceptsAll == Spec => []OpenAccepts
<1>1. IInv => OpenAccepts
  BY DEF IInv, RecordInv, RecOK, OpenAccepts
<1> QED BY <1>1, InitOK, StepOK, PTL DEF Spec

-----------------------------------------------------------------------------
(***************************************************************************)
(* What an acknowledgement and a tombstone are worth: proofs that          *)
(* EscrowRepository never loses an acknowledged head (AckedRetained), that *)
(* outside mesh rooms an acknowledgement means the generation is stored    *)
(* (AckMeansStored), and that its durable record files implement the       *)
(* abstract slots of EscrowSlot (RefinesSlot), for every set of rooms,     *)
(* slots, heads, peers and concurrent requests.                            *)
(*                                                                         *)
(* AckedRetained speaks of record files only.  To be inductive it needs to *)
(* know how the record a section is about to publish relates to the one it *)
(* replaces (OrderInv), which for a PUT was decided before the download    *)
(* (HeadInv), and that a failed write leaves at most one record file whose *)
(* two possible outcomes after a power loss are both acceptable.           *)
(***************************************************************************)
(* Record n may take the place of record o: its writer is the pinned one,  *)
(* its sequence is not smaller, and a tombstone is not undone by the head  *)
(* it buried.                                                              *)
Follows(n, o) ==
    /\ n # NoRec
    /\ o # NoRec =>
         /\ writerOf[n.current] = writerOf[o.current]
         /\ \/ seqOf[n.current] > seqOf[o.current]
            \/ n.current = o.current /\ (o.deleted => n.deleted)

(* Head h may be committed over record r.                                  *)
Continues(h, r) ==
    r # NoRec =>
      /\ writerOf[h] = writerOf[r.current]
      /\ seqOf[h] > seqOf[r.current] \/ (h = r.current /\ ~r.deleted)

Forgettable(k) == k[1] \notin MeshRoom /\ \A a \in acked : a[1] # k

Replaces(n, k) == Follows(n, durable[k]) \/ (n = NoRec /\ Forgettable(k))

(* What is being published, and what a failed sync left undecided, may     *)
(* replace what is durable; at most one record file is undecided.          *)
OrderInv ==
    /\ Mutating /\ cs.at # "cleanup" => Replaces(cs.rec, cs.key)
    /\ \A k \in Key : disk[k] = durable[k] \/ Replaces(disk[k], k)
    /\ \A j, k \in Key : disk[j] # durable[j] /\ disk[k] # durable[k] => j = k
    /\ \A a \in acked : a[1][1] \notin migrated

(* The head a task will acknowledge is the one its slot has, or may have.  *)
HeadInv ==
    /\ \A t \in Task : task[t].pc = "pull" => Continues(task[t].head, records[task[t].key])
    /\ \A t \in Task : task[t].pc \in {"home", "homing", "retry"} =>
         \A r \in {records[task[t].key], disk[task[t].key], durable[task[t].key]} :
            r # NoRec /\ r.current = task[t].head
    /\ Mutating /\ cs.by # "none" =>
         cs.rec # NoRec /\ cs.rec.current = task[cs.by].head

OInv == OrderInv /\ HeadInv /\ AckedRetained

-----------------------------------------------------------------------------
(* How the records the operations build relate to the ones they replace.   *)

(* Repository::commit of a head that continues the record.                 *)
LEMMA CommitFollows ==
    ASSUME NEW k, NEW h \in Heads, NEW owner, records[k] \in Rec \cup {NoRec},
           CommitRecord(k, h, owner) # NoRec, Continues(h, records[k])
    PROVE  Follows(CommitRecord(k, h, owner), records[k])
<1>1. /\ CommitRecord(k, h, owner).current = h
      /\ CommitRecord(k, h, owner).deleted = FALSE
  BY DEF CommitRecord
<1> QED BY <1>1 DEF Follows, Continues

(* Repository::learn accepts nothing older, and no head a tombstone covers *)
LEMMA LearnFollows ==
    ASSUME NEW k, NEW h \in Heads, NEW home, NEW del \in BOOLEAN,
           records[k] \in Rec \cup {NoRec},
           LearnRecord(k, h, home, del) # NoRec, LearnAccepts(k, h, del)
    PROVE  Follows(LearnRecord(k, h, home, del), records[k])
<1> DEFINE r == records[k]
<1>1. /\ LearnRecord(k, h, home, del).current = h
      /\ LearnRecord(k, h, home, del).deleted = del
  BY DEF LearnRecord
<1>2. CASE r = NoRec
  BY <1>2 DEF Follows
<1>3. CASE r # NoRec
  <2>1. r.current \in Heads /\ r.current # NoHead
    BY <1>3, HeadAssumption DEF Rec
  <2>2. seqOf[h] \in Nat /\ seqOf[r.current] \in Nat
    BY <2>1, HeadAssumption
  <2>3. /\ writerOf[h] = writerOf[r.current]
        /\ h = r.current \/ seqOf[h] > seqOf[r.current]
    BY <1>3, <2>1, <2>2 DEF LearnAccepts, acceptance
  <2>4. h = r.current /\ r.deleted => del
    BY <1>3, <2>2 DEF LearnAccepts, successor
  <2> QED BY <1>1, <2>3, <2>4 DEF Follows
<1> QED BY <1>2, <1>3

(* Repository::reserve admits only heads that continue the record.         *)
LEMMA AdmissibleContinues ==
    ASSUME NEW k, NEW h \in Heads, records[k] \in Rec \cup {NoRec}, Admissible(k, h)
    PROVE  Continues(h, records[k])
<1> DEFINE r == records[k]
<1> SUFFICES ASSUME r # NoRec
             PROVE  /\ writerOf[h] = writerOf[r.current]
                    /\ seqOf[h] > seqOf[r.current] \/ (h = r.current /\ ~r.deleted)
  BY DEF Continues
<1>1. r.current \in Heads /\ r.current # NoHead
  BY HeadAssumption DEF Rec
<1>2. seqOf[h] \in Nat /\ seqOf[r.current] \in Nat
  BY <1>1, HeadAssumption
<1>3. CASE r.deleted
  BY <1>2, <1>3 DEF Admissible, successor
<1>4. CASE ~r.deleted
  BY <1>1, <1>2, <1>4 DEF Admissible, check_cas, CurrentOf, Live
<1> QED BY <1>3, <1>4

(* A change of what is held or of the home changes neither head nor        *)
(* tombstone.                                                              *)
LEMMA SameFollows ==
    ASSUME NEW n, NEW o, n # NoRec, n.current = o.current, n.deleted = o.deleted
    PROVE  Follows(n, o)
  BY DEF Follows

-----------------------------------------------------------------------------
(* Entering a section, and what tasks and acknowledgements add.            *)

(* The section is entered by nobody, or by a task whose head it publishes. *)
Publishes(k, r, by) ==
    /\ \A u \in Task : u # by => task'[u] = task[u]
    /\ by # "none" =>
         /\ task'[by].key = k
         /\ r # NoRec /\ r.current = task'[by].head
         /\ \/ task'[by].pc = "commit"
            \/ /\ task'[by].pc \in {"homing", "retry"}
               /\ records[k] # NoRec /\ records[k].current = r.current

LEMMA BeginOrder ==
    ASSUME IInv, OInv,
           NEW op \in {"commit", "meta", "unlink", "retire"},
           NEW at \in {"write", "publish"},
           NEW k \in Key, NEW r, NEW by \in Task \cup {"none"},
           Begin(op, at, k, r, by),
           Publishes(k, r, by),
           acked' \subseteq acked,
           Follows(r, records[k]) \/ (r = NoRec /\ Forgettable(k)')
    PROVE  OInv'
<1>1. /\ cs' = [op |-> op, at |-> at, key |-> k, rec |-> r, by |-> by]
      /\ cs = Free /\ ~failed /\ up
      /\ UNCHANGED <<disk, durable, gens, up, records, failed, migrated>>
  BY DEF Begin, Enter
<1>2. records = disk /\ disk = durable
  BY <1>1 DEF IInv, SectionInv, Synced
<1>3. OrderInv'
  <2>1. Replaces(r, k)'
    BY <1>1, <1>2 DEF Replaces, Follows, Forgettable
  <2>2. \A j \in Key : disk'[j] = durable'[j]
    BY <1>1, <1>2
  <2>3. \A a \in acked' : a[1][1] \notin migrated'
    BY <1>1 DEF OInv, OrderInv
  <2> QED BY <1>1, <2>1, <2>2, <2>3 DEF OrderInv, Replaces, Follows, Forgettable
<1>4. HeadInv'
  <2>1. ASSUME NEW t \in Task, task'[t].pc = "pull"
        PROVE  Continues(task'[t].head, records'[task'[t].key])
    <3>1. task'[t] = task[t]
      BY <2>1, RepositoryAssumption DEF Publishes
    <3> QED BY <1>1, <2>1, <3>1 DEF OInv, HeadInv, Continues
  <2>2. ASSUME NEW t \in Task, task'[t].pc \in {"home", "homing", "retry"}
        PROVE  /\ records'[task'[t].key] # NoRec
               /\ records'[task'[t].key].current = task'[t].head
    <3>1. CASE t = by
      BY <1>1, <2>2, <3>1, RepositoryAssumption DEF Publishes
    <3>2. CASE t # by
      BY <1>1, <2>2, <3>2 DEF OInv, HeadInv, Publishes
    <3> QED BY <3>1, <3>2
  <2>3. by # "none" => r # NoRec /\ r.current = task'[by].head
    BY DEF Publishes
  <2> QED BY <1>1, <1>2, <2>1, <2>2, <2>3 DEF HeadInv, Continues
<1>5. AckedRetained'
  BY <1>1 DEF OInv, AckedRetained
<1> QED BY <1>3, <1>4, <1>5 DEF OInv

(* A task starts, moves on or returns outside any section, acknowledging   *)
(* at most the head its slot has by then.                                  *)
LEMMA TaskOnlyOrder ==
    ASSUME IInv, OInv,
           UNCHANGED <<disk, durable, gens, up, records, failed, cs, migrated>>,
           \A a \in acked' \ acked :
              /\ a[1] \in Key /\ a[1][1] \notin migrated
              /\ cs = Free
              /\ \A r \in {durable[a[1]], disk[a[1]]} :
                    /\ r # NoRec
                    /\ writerOf[r.current] = writerOf[a[2]]
                    /\ r.current = a[2] \/ seqOf[r.current] > seqOf[a[2]],
           NEW t \in Task,
           Mutating => cs.by # t,
           \A u \in Task : u # t => task'[u] = task[u],
           \/ task'[t] = task[t]
           \/ task'[t] = Idle
           \/ task'[t].pc = "pull" /\ Continues(task'[t].head, records[task'[t].key])
    PROVE  OInv'
<1>1. OrderInv'
  <2>1. \A k \in Key : disk[k] = durable[k] \/ Replaces(disk[k], k)'
    <3> SUFFICES ASSUME NEW k \in Key, disk[k] # durable[k], ~Follows(disk[k], durable[k])
                 PROVE  disk[k] = NoRec /\ Forgettable(k)'
      BY DEF Replaces, Follows
    <3>1. disk[k] = NoRec /\ Forgettable(k)
      BY DEF OInv, OrderInv, Replaces
    <3>2. \A a \in acked' \ acked : a[1] # k
      BY <3>1
    <3> QED BY <3>1, <3>2 DEF Forgettable
  <2>2. Mutating /\ cs.at # "cleanup" => Replaces(cs.rec, cs.key)'
    <3> SUFFICES ASSUME Mutating, cs.at # "cleanup" PROVE Replaces(cs.rec, cs.key)'
      OBVIOUS
    <3>1. acked' \subseteq acked
      BY DEF Mutating, Free
    <3>2. Replaces(cs.rec, cs.key)
      BY DEF OInv, OrderInv
    <3> QED BY <3>1, <3>2 DEF Replaces, Follows, Forgettable
  <2>3. \A a \in acked' : a[1][1] \notin migrated'
    BY DEF OInv, OrderInv
  <2> QED BY <2>1, <2>2, <2>3 DEF OInv, OrderInv, Mutating, Replaces, Follows, Forgettable
<1>2. HeadInv'
  <2>1. Mutating /\ cs.by # "none" => task'[cs.by] = task[cs.by]
    BY SectionShape DEF IInv
  <2>2. ASSUME NEW u \in Task
        PROVE  /\ task'[u].pc = "pull" => Continues(task'[u].head, records[task'[u].key])
               /\ task'[u].pc \in {"home", "homing", "retry"} => task'[u] = task[u]
    BY <2>2 DEF OInv, HeadInv, Idle
  <2> QED BY <2>1, <2>2 DEF OInv, HeadInv, Mutating, Continues
<1>3. AckedRetained'
  BY DEF OInv, AckedRetained
<1> QED BY <1>1, <1>2, <1>3 DEF OInv

(* Every request that only enters a section publishes a record that may    *)
(* replace the one there is; unlinking one needs its acknowledgements gone. *)
LEMMA RequestOrder ==
    ASSUME IInv, OInv, NEW k \in Key, NEW h \in Heads,
           \/ Import(k, h)
           \/ Delete(k, h)
           \/ \E home \in Home, del \in BOOLEAN : Learn(k, h, home, del)
           \/ MeshDelete(k)
           \/ DropHolding(k)
           \/ AdoptHome(k)
           \/ VerifyHolding(k)
           \/ RetireRoom(k)
    PROVE  OInv'
<1> DEFINE r == records[k]
<1>0. /\ TypeOK /\ RecordInv /\ r \in Rec \cup {NoRec} /\ RecOK(k, r)
      /\ NoRec \notin Rec /\ "none" \notin Task
  BY RepositoryAssumption DEF IInv, TypeOK, RecordInv
<1>1. ASSUME NEW op \in {"commit", "meta", "unlink", "retire"},
             NEW at \in {"write", "publish"}, NEW c,
             Begin(op, at, k, c, "none"), UNCHANGED task, acked' \subseteq acked,
             Follows(c, r) \/ (c = NoRec /\ Forgettable(k)')
      PROVE  OInv'
  <2>1. Publishes(k, c, "none")
    BY <1>1 DEF Publishes
  <2> QED BY <1>1, <2>1, BeginOrder
<1>2. CASE Import(k, h)
  <2> DEFINE c == CommitRecord(k, h, NoOwner)
  <2>1. c # NoRec
    BY <1>0, <1>2, CommitRecordOK DEF Import
  <2>2. Continues(h, r)
    <3> SUFFICES ASSUME r # NoRec
                 PROVE  /\ writerOf[h] = writerOf[r.current]
                        /\ seqOf[h] > seqOf[r.current] \/ (h = r.current /\ ~r.deleted)
      BY DEF Continues
    <3>1. seqOf[h] \in Nat /\ seqOf[r.current] \in Nat
      BY <1>0, HeadAssumption DEF Rec
    <3> QED BY <1>2, <3>1 DEF Import, successor
  <2>3. Follows(c, r)
    BY <1>0, <2>1, <2>2, CommitFollows
  <2>4. Begin("commit", "write", k, c, "none")
    BY <1>2 DEF Import, Ready, Begin
  <2> QED BY <1>1, <1>2, <2>3, <2>4 DEF Import
<1>3. CASE Delete(k, h)
  <2>1. Begin("unlink", "publish", k, NoRec, "none")
    BY <1>3 DEF Delete, Ready, Begin
  <2>2. acked' \subseteq acked /\ Forgettable(k)'
    BY <1>3 DEF Delete, Forgettable
  <2> QED BY <1>1, <1>3, <2>1, <2>2 DEF Delete
<1>4. CASE \E home \in Home, del \in BOOLEAN : Learn(k, h, home, del)
  <2>1. PICK home \in Home, del \in BOOLEAN : Learn(k, h, home, del)
    BY <1>4
  <2> DEFINE c == LearnRecord(k, h, home, del)
  <2>2. c # NoRec
    BY <1>0, <2>1, LearnRecordOK DEF Learn
  <2>3. Follows(c, r)
    BY <1>0, <2>1, <2>2, LearnFollows DEF Learn
  <2>4. Begin("meta", "publish", k, c, "none")
    BY <2>1 DEF Learn, Ready, Begin
  <2> QED BY <1>1, <2>1, <2>3, <2>4 DEF Learn
<1>5. CASE MeshDelete(k)
  <2> DEFINE d == r.current
             c == LearnRecord(k, d, r.home, TRUE)
  <2>1. r \in Rec /\ d \in HeadsFor(k) /\ r.home \in Home /\ LearnAccepts(k, d, TRUE)
    BY <1>0, <1>5 DEF MeshDelete, RecOK, HeadsFor, Rec
  <2>2. c # NoRec
    BY <1>0, <2>1, LearnRecordOK
  <2>3. Follows(c, r)
    BY <2>1, <2>2, LearnFollows DEF HeadsFor
  <2>4. Begin("meta", "publish", k, c, "none")
    BY <1>5 DEF MeshDelete, Ready, Begin
  <2> QED BY <1>1, <1>5, <2>3, <2>4 DEF MeshDelete
<1>6. CASE DropHolding(k)
  <2> DEFINE c == [r EXCEPT !.held = FALSE, !.previous_held = FALSE]
  <2>1. r \in Rec
    BY <1>0, <1>6 DEF DropHolding, Live
  <2>2. c \in Rec /\ c.current = r.current /\ c.deleted = r.deleted
    BY <2>1 DEF Rec
  <2>3. Follows(c, r)
    BY <1>0, <2>2, SameFollows
  <2>4. Begin("meta", "publish", k, c, "none")
    BY <1>6 DEF DropHolding, Ready, Begin
  <2> QED BY <1>1, <1>6, <2>3, <2>4 DEF DropHolding
<1>7. CASE AdoptHome(k)
  <2> DEFINE c == [r EXCEPT !.home = "self"]
  <2>1. r \in Rec
    BY <1>0, <1>7 DEF AdoptHome, Live
  <2>2. c \in Rec /\ c.current = r.current /\ c.deleted = r.deleted
    BY <2>1 DEF Rec, Home
  <2>3. Follows(c, r)
    BY <1>0, <2>2, SameFollows
  <2>4. Begin("meta", "publish", k, c, "none")
    BY <1>7 DEF AdoptHome, Ready, Begin
  <2> QED BY <1>1, <1>7, <2>3, <2>4 DEF AdoptHome
<1>8. CASE VerifyHolding(k)
  <2> DEFINE c == Repaired(k, r)
  <2>1. r \in Rec
    BY <1>0, <1>8 DEF VerifyHolding, Live
  <2>2. c \in Rec /\ c.current = r.current /\ c.deleted = r.deleted
    BY <2>1 DEF Repaired, Rec
  <2>3. Follows(c, r)
    BY <1>0, <2>2, SameFollows
  <2>4. Begin("meta", "publish", k, c, "none")
    BY <1>8 DEF VerifyHolding, Ready, Begin
  <2> QED BY <1>1, <1>8, <2>3, <2>4 DEF VerifyHolding
<1>9. CASE RetireRoom(k)
  <2>1. Begin("retire", "publish", k, NoRec, "none")
    BY <1>9 DEF RetireRoom, Begin
  <2>2. UNCHANGED acked /\ k[1] \in migrated
    BY <1>9 DEF RetireRoom
  <2>3. k[1] \notin MeshRoom
    BY <2>2 DEF IInv, SectionInv
  <2>4. \A a \in acked : a[1] # k
    BY <2>2 DEF OInv, OrderInv
  <2>5. Forgettable(k)'
    BY <2>2, <2>3, <2>4 DEF Forgettable
  <2> QED BY <1>1, <1>9, <2>1, <2>2, <2>5 DEF RetireRoom
<1> QED BY <1>2, <1>3, <1>4, <1>5, <1>6, <1>7, <1>8, <1>9

(* A head reserve or the retry path works on, from the request to the      *)
(* acknowledgement.                                                        *)
LEMMA TaskStepOrder ==
    ASSUME IInv, OInv, NEW t \in Task, NEW p \in Peer, NEW k \in Key, NEW h \in Heads,
           \/ PutReserve(t, p, k, h)
           \/ PutRetry(t, p, k, h)
           \/ MeshPull(t, p, k, h)
           \/ PullFailed(t)
           \/ Commit(t)
           \/ SetHomeAfterPut(t)
    PROVE  OInv'
<1>0. /\ TypeOK /\ RecordInv /\ task \in [Task -> TaskState] /\ task[t] \in TaskState
      /\ records[k] \in Rec \cup {NoRec} /\ RecOK(k, records[k])
      /\ NoRec \notin Rec /\ "none" \notin Task
  BY RepositoryAssumption DEF IInv, TypeOK, RecordInv
<1>1. CASE PutReserve(t, p, k, h) \/ MeshPull(t, p, k, h)
  <2>1. /\ cs = Free /\ Admissible(k, h)
        /\ UNCHANGED <<disk, durable, gens, up, records, failed, cs, migrated, acked>>
        /\ \E x : /\ x.pc = "pull" /\ x.head = h /\ x.key = k
                  /\ task' = [task EXCEPT ![t] = x]
    BY <1>1 DEF PutReserve, MeshPull, Ready, reserve
  <2>2. Continues(h, records[k])
    BY <1>0, <2>1, AdmissibleContinues
  <2>3. /\ task'[t].pc = "pull" /\ task'[t].head = h /\ task'[t].key = k
        /\ \A u \in Task : u # t => task'[u] = task[u]
    BY <1>0, <2>1
  <2>4. ~Mutating
    BY <2>1 DEF Mutating, Free
  <2> QED BY <2>1, <2>2, <2>3, <2>4, TaskOnlyOrder
<1>2. CASE PutRetry(t, p, k, h)
  <2>0. /\ h \in HeadsFor(k) /\ Ready(k) /\ ~failed /\ k[1] \notin migrated
        /\ records[k] \in Rec /\ Retained(k, h)
    BY <1>0, <1>2 DEF PutRetry, Client, Retained, Live
  <2>1. CASE k[1] \in MeshRoom /\ records[k].current = h /\ records[k].home = "none"
    <3> DEFINE c == [records[k] EXCEPT !.home = "self"]
               x == [pc |-> "retry", kind |-> "put", key |-> k, head |-> h,
                     from |-> p, ownerAmount |-> 0]
    <3>1. /\ Enter("meta", "publish", k, c, t) /\ task' = [task EXCEPT ![t] = x]
          /\ UNCHANGED <<disk, durable, gens, up, records, failed, migrated, acked>>
      BY <1>2, <2>1 DEF PutRetry
    <3>2. c \in Rec /\ c.current = h /\ c.deleted = records[k].deleted
      BY <2>0, <2>1 DEF Rec, Home
    <3>3. Follows(c, records[k])
      BY <1>0, <2>1, <3>2, SameFollows
    <3>4. Begin("meta", "publish", k, c, t)
      BY <2>0, <3>1 DEF Ready, Begin
    <3>5. Publishes(k, c, t)
      BY <1>0, <2>0, <2>1, <3>1, <3>2 DEF Publishes
    <3> QED BY <3>1, <3>3, <3>4, <3>5, BeginOrder
  <2>2. CASE ~(k[1] \in MeshRoom /\ records[k].current = h /\ records[k].home = "none")
    <3>1. acked' = acked \cup {<<k, h>>}
          /\ UNCHANGED <<disk, durable, gens, up, records, failed, cs, task, migrated>>
      BY <1>2, <2>2 DEF PutRetry
    <3>2. records = disk /\ disk = durable /\ cs = Free
      BY <2>0 DEF Ready, IInv, SectionInv, Synced
    <3>3. /\ writerOf[records[k].current] = writerOf[h]
          /\ records[k].current = h \/ seqOf[records[k].current] > seqOf[h]
      <4>1. CASE records[k].current = h
        BY <4>1
      <4>2. CASE records[k].previous = h
        <5>1. check_cas(records[k].current, h) = "ok" /\ h # NoHead
          BY <1>0, <2>0, <4>2, HeadAssumption DEF RecOK, WellFormed
        <5>2. records[k].current \in Heads
          BY <2>0 DEF Rec
        <5>3. /\ writerOf[records[k].current] = writerOf[h]
              /\ seqOf[records[k].current] = seqOf[h] + 1
          BY <5>1, <5>2 DEF check_cas
        <5> QED BY <5>2, <5>3, HeadAssumption
      <4> QED BY <2>0, <4>1, <4>2 DEF Retained
    <3>4. ~Mutating
      BY <3>2 DEF Mutating, Free
    <3>5. \A a \in acked' \ acked : a[1] = k /\ a[2] = h
      BY <3>1
    <3> QED BY <1>0, <2>0, <3>1, <3>2, <3>3, <3>4, <3>5, TaskOnlyOrder
  <2> QED BY <2>1, <2>2
<1>3. CASE PullFailed(t)
  <2>1. /\ task' = [task EXCEPT ![t] = Idle] /\ task[t].pc = "pull"
        /\ UNCHANGED <<disk, durable, gens, up, records, failed, cs, migrated, acked>>
    BY <1>3 DEF PullFailed, Return
  <2>2. Mutating => cs.by # t
    BY <1>0, <2>1, SectionShape DEF IInv, TaskInv
  <2> QED BY <1>0, <2>1, <2>2, TaskOnlyOrder
<1>4. CASE Commit(t)
  <2> DEFINE K == task[t].key
             H == task[t].head
             owner == IF task[t].kind = "put" THEN task[t].from ELSE NoOwner
             c == CommitRecord(K, H, owner)
  <2>1. /\ up /\ cs = Free /\ ~failed /\ task[t].pc = "pull"
        /\ Enter("commit", "write", K, c, t)
        /\ task' = [task EXCEPT ![t].pc = "commit"]
        /\ UNCHANGED <<disk, durable, gens, up, records, failed, migrated, acked>>
    BY <1>4 DEF Commit
  <2>2. K \in Key /\ H \in HeadsFor(K) /\ owner \in Peer \cup {NoOwner}
    BY <1>0, <2>1 DEF TaskState, Idle, IInv, TaskInv
  <2>3. c # NoRec /\ c.current = H
    BY <1>0, <2>2, CommitRecordOK
  <2>4. Follows(c, records[K])
    <3>1. Continues(H, records[K])
      BY <2>1 DEF OInv, HeadInv
    <3>2. records[K] \in Rec \cup {NoRec} /\ H \in Heads
      BY <1>0, <2>2 DEF TypeOK, HeadsFor
    <3> QED BY <2>3, <3>1, <3>2, CommitFollows
  <2>5. Begin("commit", "write", K, c, t)
    BY <2>1 DEF Begin
  <2>6. Publishes(K, c, t)
    <3>1. /\ task'[t].pc = "commit" /\ task'[t].key = K /\ task'[t].head = H
      BY <1>0, <2>1 DEF TaskState, Idle
    <3>2. \A u \in Task : u # t => task'[u] = task[u]
      BY <1>0, <2>1
    <3> QED BY <2>3, <3>1, <3>2 DEF Publishes
  <2> QED BY <2>1, <2>2, <2>4, <2>5, <2>6, BeginOrder
<1>5. CASE SetHomeAfterPut(t)
  <2> DEFINE K == task[t].key
             H == task[t].head
             c == [records[K] EXCEPT !.home = "self"]
  <2>1. /\ up /\ cs = Free /\ task[t].pc = "home"
        /\ UNCHANGED <<disk, durable, gens, up, records, failed, migrated>>
    BY <1>5 DEF SetHomeAfterPut
  <2>2. /\ K \in Key /\ H \in Heads /\ K[1] \notin migrated
        /\ \A r \in {records[K], disk[K], durable[K]} : r # NoRec /\ r.current = H
    BY <1>0, <2>1 DEF TaskState, Idle, IInv, TaskInv, OInv, HeadInv
  <2>3. \/ /\ Return(t) /\ UNCHANGED cs /\ (UNCHANGED acked \/ Ack(t))
        \/ /\ ~failed /\ UNCHANGED acked
           /\ Enter("meta", "publish", K, c, t)
           /\ task' = [task EXCEPT ![t].pc = "homing"]
    BY <1>5 DEF SetHomeAfterPut
  <2>4. CASE Return(t) /\ UNCHANGED cs /\ (UNCHANGED acked \/ Ack(t))
    <3>1. task'[t] = Idle /\ \A u \in Task : u # t => task'[u] = task[u]
      BY <1>0, <2>4 DEF Return
    <3>2. \A a \in acked' \ acked : a[1] = K /\ a[2] = H
      BY <2>4 DEF Ack
    <3>3. ~Mutating
      BY <2>1 DEF Mutating, Free
    <3> QED BY <2>1, <2>2, <2>4, <3>1, <3>2, <3>3, TaskOnlyOrder
  <2>5. CASE /\ ~failed /\ UNCHANGED acked
             /\ Enter("meta", "publish", K, c, t)
             /\ task' = [task EXCEPT ![t].pc = "homing"]
    <3>1. records[K] \in Rec
      BY <1>0, <2>2 DEF TypeOK
    <3>2. c \in Rec /\ c.current = H /\ c.deleted = records[K].deleted
      BY <2>2, <3>1 DEF Rec, Home
    <3>3. Follows(c, records[K])
      BY <1>0, <2>2, <3>2, SameFollows
    <3>4. Begin("meta", "publish", K, c, t)
      BY <2>1, <2>5 DEF Begin
    <3>5. /\ task'[t].pc = "homing" /\ task'[t].key = K /\ task'[t].head = H
          /\ \A u \in Task : u # t => task'[u] = task[u]
      BY <1>0, <2>1, <2>5 DEF TaskState, Idle
    <3>6. Publishes(K, c, t)
      BY <1>0, <2>2, <3>2, <3>5 DEF Publishes
    <3> QED BY <2>2, <2>5, <3>3, <3>4, <3>6, BeginOrder
  <2> QED BY <2>3, <2>4, <2>5
<1> QED BY <1>1, <1>2, <1>3, <1>4, <1>5

-----------------------------------------------------------------------------
(* Steps of a critical section.                                            *)

(* A step that changes no record file and no task.                         *)
LEMMA QuietOrder ==
    ASSUME OInv, UNCHANGED <<disk, durable, records, task, migrated, acked>>,
           \/ UNCHANGED cs
           \/ ~Mutating'
           \/ /\ Mutating /\ cs.at # "cleanup"
              /\ cs'.op = cs.op /\ cs'.key = cs.key /\ cs'.rec = cs.rec /\ cs'.by = cs.by
    PROVE  OInv'
<1>1. OrderInv'
  BY DEF OInv, OrderInv, Mutating, Replaces, Follows, Forgettable
<1>2. HeadInv'
  BY DEF OInv, HeadInv, Mutating, Continues
<1>3. AckedRetained'
  BY DEF OInv, AckedRetained
<1> QED BY <1>1, <1>2, <1>3 DEF OInv

LEMMA WriteGenerationOrder ==
    ASSUME IInv, OInv, WriteGeneration \/ SyncGeneration
    PROVE  OInv'
<1>1. PICK at \in {"sync", "publish"} : cs' = [cs EXCEPT !.at = at]
  BY DEF WriteGeneration, SyncGeneration
<1>2. /\ Mutating /\ cs.at # "cleanup"
      /\ UNCHANGED <<disk, durable, records, task, migrated, acked>>
  BY SectionShape DEF IInv, WriteGeneration, SyncGeneration
<1>3. cs'.op = cs.op /\ cs'.key = cs.key /\ cs'.rec = cs.rec /\ cs'.by = cs.by
  BY <1>1, <1>2, SectionShape DEF IInv
<1> QED BY <1>2, <1>3, QuietOrder

(* The rename leaves one undecided record file, which may go either way.   *)
LEMMA PublishRecordOrder ==
    ASSUME IInv, OInv, PublishRecord
    PROVE  OInv'
<1>0. /\ Mutating /\ cs.at = "publish" /\ cs.key \in Key
      /\ records = disk /\ disk = durable /\ disk \in [Key -> Rec \cup {NoRec}]
  BY SectionShape DEF IInv, PublishRecord, SectionInv, Synced, TypeOK
<1>1. /\ disk' = [disk EXCEPT ![cs.key] = cs.rec]
      /\ cs' = [cs EXCEPT !.at = "index"]
      /\ UNCHANGED <<durable, gens, up, records, failed, task, migrated, acked>>
  BY DEF PublishRecord
<1>2. /\ cs'.at = "index" /\ cs'.op = cs.op /\ cs'.key = cs.key /\ cs'.rec = cs.rec
      /\ cs'.by = cs.by /\ Mutating'
  BY <1>0, <1>1, SectionShape DEF IInv, Mutating
<1>3. disk'[cs.key] = cs.rec /\ \A j \in Key : j # cs.key => disk'[j] = durable[j]
  BY <1>0, <1>1
<1>4. Replaces(cs.rec, cs.key)
  BY <1>0 DEF OInv, OrderInv
<1>5. OrderInv'
  <2>1. Replaces(cs.rec, cs.key)'
    BY <1>1, <1>2, <1>4 DEF Replaces, Follows, Forgettable
  <2>2. \A j \in Key : disk'[j] = durable'[j] \/ Replaces(disk[j], j)'
    BY <1>1, <1>2, <1>3, <2>1 DEF Replaces, Follows, Forgettable
  <2>3. \A i, j \in Key : disk'[i] # durable'[i] /\ disk'[j] # durable'[j] => i = j
    BY <1>1, <1>3
  <2> QED BY <1>1, <1>2, <2>1, <2>2, <2>3 DEF OInv, OrderInv
<1>6. HeadInv'
  <2>1. ASSUME NEW t \in Task, task[t].pc \in {"home", "homing", "retry"}
        PROVE  disk'[task[t].key] # NoRec /\ disk'[task[t].key].current = task[t].head
    <3>0. task[t] # Idle /\ task[t].key \in Key
      BY <2>1 DEF Idle, IInv, TypeOK, TaskState
    <3>1. CASE task[t].key = cs.key
      <4>1. cs.by = t
        BY <1>0, <3>0, <3>1 DEF IInv, TaskInv
      <4> QED BY <1>0, <1>3, <3>1, <4>1, RepositoryAssumption DEF OInv, HeadInv
    <3>2. CASE task[t].key # cs.key
      BY <1>0, <1>3, <2>1, <3>0, <3>2 DEF OInv, HeadInv
    <3> QED BY <3>1, <3>2
  <2> QED BY <1>0, <1>1, <1>2, <2>1 DEF OInv, HeadInv, Continues
<1>7. AckedRetained'
  <2>1. ASSUME NEW a \in acked
        PROVE  /\ disk'[a[1]] # NoRec
               /\ writerOf[disk'[a[1]].current] = writerOf[a[2]]
               /\ disk'[a[1]].current = a[2] \/ seqOf[disk'[a[1]].current] > seqOf[a[2]]
    <3>0. a[1] \in Key /\ a[2] \in Heads
      BY DEF IInv, TypeOK
    <3>1. /\ durable[a[1]] # NoRec /\ writerOf[durable[a[1]].current] = writerOf[a[2]]
          /\ durable[a[1]].current = a[2] \/ seqOf[durable[a[1]].current] > seqOf[a[2]]
      BY DEF OInv, AckedRetained
    <3>2. CASE a[1] = cs.key
      <4>1. Follows(cs.rec, durable[a[1]]) /\ cs.rec \in Rec
        BY <1>0, <1>4, <3>2, SectionShape DEF Replaces, Forgettable, IInv, Follows
      <4>2. seqOf[a[2]] \in Nat /\ seqOf[cs.rec.current] \in Nat
            /\ seqOf[durable[a[1]].current] \in Nat
        BY <1>0, <3>0, <3>1, <4>1, HeadAssumption DEF Rec
      <4> QED BY <1>3, <3>1, <3>2, <4>1, <4>2, RepositoryAssumption DEF Follows
    <3>3. CASE a[1] # cs.key
      BY <1>3, <3>0, <3>1, <3>3
    <3> QED BY <3>2, <3>3
  <2> QED BY <1>1, <2>1 DEF OInv, AckedRetained
<1> QED BY <1>5, <1>6, <1>7 DEF OInv

(* The directory sync decides it.                                          *)
LEMMA IndexRecordOrder ==
    ASSUME IInv, OInv, IndexRecord
    PROVE  OInv'
<1>0. /\ Mutating /\ cs.at = "index" /\ cs.key \in Key
      /\ records = durable /\ disk = [durable EXCEPT ![cs.key] = cs.rec]
      /\ durable \in [Key -> Rec \cup {NoRec}]
  BY SectionShape DEF IInv, IndexRecord, SectionInv, TypeOK
<1>1. /\ durable' = disk
      /\ records' = [records EXCEPT ![cs.key] = cs.rec]
      /\ cs' = [cs EXCEPT !.at = "cleanup"]
      /\ UNCHANGED <<disk, gens, up, failed, task, migrated, acked>>
  BY DEF IndexRecord
<1>2. /\ cs'.at = "cleanup" /\ cs'.op = cs.op /\ cs'.key = cs.key /\ cs'.rec = cs.rec
      /\ cs'.by = cs.by /\ Mutating'
  BY <1>0, <1>1, SectionShape DEF IInv, Mutating
<1>3. records' = disk
  BY <1>0, <1>1
<1>4. OrderInv'
  BY <1>1, <1>2 DEF OInv, OrderInv
<1>5. HeadInv'
  <2>1. ASSUME NEW t \in Task, task[t].pc = "pull"
        PROVE  Continues(task[t].head, records'[task[t].key])
    <3>0. task[t] # Idle /\ task[t].key \in Key
      BY <2>1 DEF Idle, IInv, TypeOK, TaskState
    <3>1. task[t].key # cs.key
      BY <1>0, <2>1, <3>0, RepositoryAssumption DEF IInv, TaskInv
    <3>2. records'[task[t].key] = records[task[t].key]
      BY <1>0, <1>1, <3>0, <3>1
    <3> QED BY <2>1, <3>2 DEF OInv, HeadInv
  <2>2. ASSUME NEW t \in Task, task[t].pc \in {"home", "homing", "retry"}
        PROVE  disk[task[t].key] # NoRec /\ disk[task[t].key].current = task[t].head
    BY <2>2 DEF OInv, HeadInv
  <2>3. Mutating /\ cs.by # "none" => cs.rec # NoRec /\ cs.rec.current = task[cs.by].head
    BY DEF OInv, HeadInv
  <2> QED BY <1>0, <1>1, <1>2, <1>3, <2>1, <2>2, <2>3 DEF HeadInv, Continues
<1>6. AckedRetained'
  BY <1>1 DEF OInv, AckedRetained
<1> QED BY <1>4, <1>5, <1>6 DEF OInv

(* A section ends; what it acknowledges is what it published.              *)
LEMMA EndOrder ==
    ASSUME IInv, OInv, Finish \/ IoError
    PROVE  OInv'
<1> DEFINE t == cs.by
<1>1. /\ Mutating /\ cs' = Free
      /\ UNCHANGED <<disk, durable, gens, up, records, migrated>>
      /\ \/ UNCHANGED <<task, acked>>
         \/ t # "none" /\ cs.at = "cleanup" /\ Resume(t)
         \/ t # "none" /\ Return(t) /\ UNCHANGED acked
  BY DEF Finish, IoError
<1>2. ~Mutating'
  BY <1>1 DEF Mutating, Free
<1>3. CASE UNCHANGED <<task, acked>>
  BY <1>1, <1>2, <1>3, QuietOrder
<1>4. ASSUME t # "none",
             \/ cs.at = "cleanup" /\ Resume(t)
             \/ Return(t) /\ UNCHANGED acked
      PROVE  OInv'
  <2>0. /\ t \in Task /\ task[t] # Idle /\ task[t] \in TaskState
        /\ cs.key = task[t].key /\ cs.key \in Key
        /\ cs.rec # NoRec /\ cs.rec.current = task[t].head
        /\ task \in [Task -> TaskState]
    BY <1>1, <1>4, SectionShape DEF IInv, TypeOK, TaskInv, OInv, HeadInv
  <2>1. \/ task'[t] = Idle
        \/ /\ cs.at = "cleanup" /\ task'[t].pc = "home"
           /\ task'[t].key = task[t].key /\ task'[t].head = task[t].head
    BY <1>4, <2>0 DEF Resume, Return, TaskState, Idle
  <2>2. \A u \in Task : u # t => task'[u] = task[u]
    BY <1>4, <2>0 DEF Resume, Return
  <2>3. cs.at = "cleanup" =>
          \A r \in {records[cs.key], disk[cs.key], durable[cs.key]} : r = cs.rec
    BY <1>1 DEF IInv, SectionInv, Synced
  <2>4. \A a \in acked' \ acked :
           a[1] = cs.key /\ a[2] = cs.rec.current /\ cs.at = "cleanup"
    BY <1>4, <2>0 DEF Resume, Ack
  <2>5. OrderInv'
    <3>1. ASSUME NEW k \in Key, disk[k] # durable[k]
          PROVE  Replaces(disk[k], k)'
      <4>1. Replaces(disk[k], k)
        BY <3>1 DEF OInv, OrderInv
      <4>2. cs.at = "cleanup" => disk[k] = durable[k]
        BY DEF IInv, SectionInv, Synced
      <4>3. \A a \in acked' : a \in acked
        BY <2>4, <3>1, <4>2
      <4> QED BY <1>1, <4>1, <4>3 DEF Replaces, Follows, Forgettable
    <3>2. task[t].key[1] \notin migrated
      BY <2>0 DEF IInv, TaskInv
    <3>3. \A a \in acked' : a[1][1] \notin migrated'
      BY <1>1, <2>0, <2>4, <3>2 DEF OInv, OrderInv
    <3> QED BY <1>1, <1>2, <3>1, <3>3
            DEF OInv, OrderInv, Replaces, Follows, Forgettable
  <2>6. HeadInv'
    <3>1. ASSUME NEW u \in Task, task'[u].pc = "pull"
          PROVE  Continues(task'[u].head, records[task'[u].key])
      BY <2>1, <2>2, <3>1 DEF OInv, HeadInv, Idle
    <3>2. ASSUME NEW u \in Task, task'[u].pc \in {"home", "homing", "retry"}
          PROVE  \A r \in {records[task'[u].key], disk[task'[u].key], durable[task'[u].key]} :
                    r # NoRec /\ r.current = task'[u].head
      <4>1. CASE u = t
        BY <2>0, <2>1, <2>3, <3>2, <4>1 DEF Idle
      <4>2. CASE u # t
        BY <2>2, <3>2, <4>2 DEF OInv, HeadInv
      <4> QED BY <4>1, <4>2
    <3> QED BY <1>1, <1>2, <3>1, <3>2 DEF HeadInv, Continues
  <2>7. AckedRetained'
    BY <1>1, <2>0, <2>3, <2>4 DEF OInv, AckedRetained
  <2> QED BY <2>5, <2>6, <2>7 DEF OInv
<1> QED BY <1>1, <1>3, <1>4

-----------------------------------------------------------------------------
(* Crash, corruption and restart.                                          *)

(* Either outcome of an undecided record file keeps what was acknowledged. *)
LEMMA CrashOrder ==
    ASSUME IInv, OInv, Crash
    PROVE  OInv'
<1>1. /\ cs' = Free /\ task' = [t \in Task |-> Idle]
      /\ disk' \in {disk, durable} /\ durable' = disk'
      /\ UNCHANGED <<migrated, acked>>
  BY DEF Crash
<1>2. OrderInv'
  BY <1>1 DEF OInv, OrderInv, Mutating, Free
<1>3. HeadInv'
  BY <1>1 DEF HeadInv, Mutating, Free, Idle
<1>4. AckedRetained'
  BY <1>1 DEF OInv, AckedRetained
<1> QED BY <1>2, <1>3, <1>4 DEF OInv

LEMMA EnvironmentOrder ==
    ASSUME IInv, OInv, Environment
    PROVE  OInv'
<1>1. CASE \E r \in Room : Migrate(r)
  <2>1. PICK r \in Room : Migrate(r)
    BY <1>1
  <2>2. /\ cs = Free /\ ~up /\ migrated' = migrated \cup {r}
        /\ acked' = {a \in acked : a[1][1] # r}
        /\ UNCHANGED <<disk, durable, records, cs, task>>
    BY <2>1 DEF Migrate
  <2>3. disk = durable
    BY <2>2 DEF IInv, SectionInv
  <2>4. OrderInv'
    BY <2>2, <2>3 DEF OInv, OrderInv, Mutating, Free
  <2>5. HeadInv' /\ AckedRetained'
    BY <2>2 DEF OInv, HeadInv, AckedRetained, Mutating, Free, Continues
  <2> QED BY <2>4, <2>5 DEF OInv
<1>2. CASE \E k \in Key, h \in Heads : Rot(k, h)
  BY <1>2, QuietOrder DEF Rot
<1> QED BY <1>1, <1>2, CrashOrder DEF Environment

LEMMA RestartOrder ==
    ASSUME IInv, OInv, Restart
    PROVE  OInv'
<1>1. CASE OpenStart \/ OpenRefused \/ OpenDone
  <2>1. ~Mutating' /\ UNCHANGED <<disk, durable, records, task, migrated, acked>>
    BY <1>1 DEF OpenStart, OpenRefused, OpenDone, Mutating, Free
  <2> QED BY <2>1, QuietOrder
<1>2. CASE OpenLoad
  <2>1. /\ cs.at = "load" /\ records' = disk /\ cs' = [cs EXCEPT !.at = "cleanup"]
        /\ UNCHANGED <<disk, durable, gens, up, failed, task, migrated, acked>>
    BY <1>2 DEF OpenLoad
  <2>2. ~up /\ cs = [op |-> "open", at |-> "load"]
    BY <2>1, SectionShape DEF IInv, SectionInv, TypeOK, Section, Free, Mutating
  <2>3. ~Mutating'
    BY <2>1, <2>2 DEF Mutating
  <2>4. \A t \in Task : task[t] = Idle
    BY <2>2 DEF IInv, TaskInv
  <2>5. OrderInv' /\ HeadInv' /\ AckedRetained'
    BY <2>1, <2>3, <2>4 DEF OInv, OrderInv, HeadInv, AckedRetained, Idle,
                            Replaces, Follows, Forgettable
  <2> QED BY <2>5 DEF OInv
<1>3. ASSUME NEW k \in Key, OpenRepair(k)
      PROVE  OInv'
  <2>1. /\ cs.at = "load" /\ Corrupt(k, disk[k]) # {}
        /\ disk' = [disk EXCEPT ![k] = Repaired(k, disk[k])] /\ durable' = disk'
        /\ UNCHANGED <<gens, up, records, failed, cs, task, migrated, acked>>
    BY <1>3 DEF OpenRepair
  <2>2. ~Mutating /\ ~up
    BY <2>1, SectionShape DEF IInv, SectionInv, TypeOK, Section, Free, Mutating
  <2>3. disk[k] \in Rec /\ disk \in [Key -> Rec \cup {NoRec}]
    BY <2>1 DEF Corrupt, held_heads, IInv, TypeOK
  <2>4. Repaired(k, disk[k]) \in Rec /\ Repaired(k, disk[k]).current = disk[k].current
    BY <2>3 DEF Repaired, Rec
  <2>5. \A t \in Task : task[t] = Idle
    BY <2>2 DEF IInv, TaskInv
  <2>6. OrderInv' /\ HeadInv'
    BY <2>1, <2>2, <2>5 DEF OInv, OrderInv, HeadInv, Idle, Mutating
  <2>7. \A a \in acked : a[1] \in Key
    BY DEF IInv, TypeOK
  <2>8. AckedRetained'
    BY <2>1, <2>3, <2>4, <2>7, RepositoryAssumption DEF OInv, AckedRetained
  <2> QED BY <2>6, <2>8 DEF OInv
<1> QED BY <1>1, <1>2, <1>3 DEF Restart

-----------------------------------------------------------------------------
LEMMA InitOrder == Init => OInv
  BY DEF Init, OInv, OrderInv, HeadInv, AckedRetained, Mutating, Free, Idle

LEMMA StepOrder == IInv /\ OInv /\ [Next]_vars => OInv'
<1> SUFFICES ASSUME IInv, OInv, [Next]_vars PROVE OInv'
  OBVIOUS
<1>1. CASE Request
  <2>1. ASSUME NEW k \in Key,
               \/ MeshDelete(k) \/ DropHolding(k) \/ AdoptHome(k)
               \/ VerifyHolding(k) \/ RetireRoom(k)
        PROVE  OInv'
    <3>1. records[k].current \in Heads
      BY <2>1 DEF MeshDelete, DropHolding, AdoptHome, VerifyHolding, RetireRoom, Live,
                  IInv, TypeOK, Rec
    <3> QED BY <2>1, <3>1, RequestOrder
  <2>2. ASSUME NEW k \in Key, NEW h \in Heads,
               \/ Import(k, h) \/ Delete(k, h)
               \/ \E home \in Home, del \in BOOLEAN : Learn(k, h, home, del)
        PROVE  OInv'
    BY <2>2, RequestOrder
  <2>3. ASSUME NEW t \in Task, NEW p \in Peer, NEW k \in Key, NEW h \in Heads,
               PutReserve(t, p, k, h) \/ PutRetry(t, p, k, h) \/ MeshPull(t, p, k, h)
        PROVE  OInv'
    BY <2>3, TaskStepOrder
  <2> QED BY <1>1, <2>1, <2>2, <2>3 DEF Request
<1>2. CASE TaskStep
  <2>1. PICK t \in Task : PullFailed(t) \/ Commit(t) \/ SetHomeAfterPut(t)
    BY <1>2 DEF TaskStep
  <2>2. task[t] \in TaskState /\ task[t] # Idle
    BY <2>1 DEF PullFailed, Commit, SetHomeAfterPut, Idle, IInv, TypeOK
  <2>3. task[t].from \in Peer /\ task[t].key \in Key /\ task[t].head \in Heads
    BY <2>2 DEF TaskState
  <2> QED BY <2>1, <2>3, TaskStepOrder
<1>3. CASE SectionStep
  <2>1. CASE \E k \in Key, h \in Heads, left \in {"none", "part"} : Cleanup(k, h, left)
    BY <2>1, QuietOrder DEF Cleanup
  <2> QED BY <1>3, <2>1, WriteGenerationOrder, PublishRecordOrder, IndexRecordOrder, EndOrder
          DEF SectionStep
<1>4. CASE Restart
  BY <1>4, RestartOrder
<1>5. CASE Environment
  BY <1>5, EnvironmentOrder
<1>6. CASE UNCHANGED vars
  BY <1>6, QuietOrder DEF vars
<1> QED BY <1>1, <1>2, <1>3, <1>4, <1>5, <1>6 DEF Next

(* Service::put's escrow_ack survives: whatever crashes, failed writes,    *)
(* imports, gossip and later requests follow, the record file that remains *)
(* has the acknowledged head or a later one of the same writer, until the  *)
(* writer deletes it or the room is migrated.                              *)
THEOREM AcknowledgedHeadsSurvive == Spec => []AckedRetained
<1>1. OInv => AckedRetained
  BY DEF OInv
<1> QED BY <1>1, InitOK, StepOK, InitOrder, StepOrder, PTL DEF Spec

-----------------------------------------------------------------------------
(* The durable record files implement EscrowSlot.                          *)

(* One durable record file is replaced as OrderInv allows: a step of the   *)
(* abstract slot, or none.                                                 *)
LEMMA ReplaceRefines ==
    ASSUME TypeOK, NEW k \in Key, NEW n \in Rec \cup {NoRec},
           durable' = [durable EXCEPT ![k] = n],
           n = durable[k] \/ Replaces(n, k)
    PROVE  Abstract!SlotNext \/ SlotView' = SlotView
<1> DEFINE o == durable[k]
           View(r) == IF r = NoRec THEN NoRec ELSE [head |-> r.current, dead |-> r.deleted]
<1>0. o \in Rec \cup {NoRec} /\ NoRec \notin Rec /\ durable \in [Key -> Rec \cup {NoRec}]
  BY RepositoryAssumption DEF TypeOK
<1>1. SlotView = [j \in Key |-> View(durable[j])] /\ SlotView[k] = View(o)
  BY DEF SlotView
<1>2. SlotView' = [SlotView EXCEPT ![k] = View(n)]
  <2>1. SlotView' = [j \in Key |-> View(durable'[j])]
    BY DEF SlotView
  <2>2. \A j \in Key : durable'[j] = IF j = k THEN n ELSE durable[j]
    BY <1>0
  <2> HIDE DEF View
  <2> QED BY <1>1, <2>1, <2>2
<1>3. CASE View(n) = View(o)
  <2>1. SlotView' = SlotView
    BY <1>1, <1>2, <1>3
  <2> QED BY <2>1
<1>4. CASE n = NoRec /\ k[1] \notin MeshRoom
  <2>1. Abstract!Forget(k)
    BY <1>2, <1>4 DEF Abstract!Forget
  <2> QED BY <2>1 DEF Abstract!SlotNext
<1>5. CASE Follows(n, o) /\ View(n) # View(o)
  <2>1. n \in Rec /\ n.current \in Heads /\ n.deleted \in BOOLEAN
    BY <1>5 DEF Follows, Rec
  <2>2. CASE o = NoRec \/ (o # NoRec /\ seqOf[n.current] > seqOf[o.current])
    <3>1. Abstract!Newer(n.current, SlotView[k])
      BY <1>0, <1>1, <1>5, <2>2 DEF Abstract!Newer, Follows
    <3>2. CASE n.deleted
      <4>1. Abstract!Bury(k, n.current)
        BY <1>0, <1>2, <2>1, <3>1, <3>2 DEF Abstract!Bury
      <4> QED BY <2>1, <4>1 DEF Abstract!SlotNext
    <3>3. CASE ~n.deleted
      <4>1. Abstract!Store(k, n.current)
        BY <1>0, <1>2, <2>1, <3>1, <3>3 DEF Abstract!Store
      <4> QED BY <2>1, <4>1 DEF Abstract!SlotNext
    <3> QED BY <3>2, <3>3
  <2>3. CASE o # NoRec /\ ~(seqOf[n.current] > seqOf[o.current])
    <3>1. n.current = o.current /\ n.deleted = TRUE /\ o.deleted = FALSE
      BY <1>0, <1>5, <2>1, <2>3 DEF Follows, Rec
    <3>2. Abstract!Bury(k, n.current)
      BY <1>0, <1>1, <1>2, <2>1, <2>3, <3>1 DEF Abstract!Bury
    <3> QED BY <2>1, <3>2 DEF Abstract!SlotNext
  <2> QED BY <2>2, <2>3
<1> QED BY <1>3, <1>4, <1>5 DEF Replaces, Forgettable

LEMMA InitRefines == Init => Abstract!SlotInit
  BY DEF Init, NoRecords, SlotView, Abstract!SlotInit

LEMMA StepRefines == IInv /\ OInv /\ [Next]_vars => Abstract!SlotNext \/ SlotView' = SlotView
<1> SUFFICES ASSUME IInv, OInv, [Next]_vars
             PROVE  Abstract!SlotNext \/ SlotView' = SlotView
  OBVIOUS
<1>0. /\ TypeOK /\ durable \in [Key -> Rec \cup {NoRec}] /\ disk \in [Key -> Rec \cup {NoRec}]
  BY DEF IInv, TypeOK
<1>1. CASE durable' = durable
  BY <1>1 DEF SlotView
<1>2. CASE durable' = disk
  <2>1. CASE disk = durable
    BY <1>2, <2>1 DEF SlotView
  <2>2. CASE disk # durable
    <3>1. PICK k \in Key : disk[k] # durable[k]
      BY <1>0, <2>2
    <3>2. \A j \in Key : j # k => disk[j] = durable[j]
      BY <3>1 DEF OInv, OrderInv
    <3>3. durable' = [durable EXCEPT ![k] = disk[k]]
      BY <1>0, <1>2, <3>2
    <3>4. Replaces(disk[k], k) /\ disk[k] \in Rec \cup {NoRec}
      BY <1>0, <3>1 DEF OInv, OrderInv
    <3> QED BY <1>0, <3>3, <3>4, ReplaceRefines
  <2> QED BY <2>1, <2>2
<1>3. CASE \E k \in Key : OpenRepair(k)
  <2>1. PICK k \in Key : OpenRepair(k)
    BY <1>3
  <2>2. /\ cs.at = "load" /\ Corrupt(k, disk[k]) # {}
        /\ durable' = [disk EXCEPT ![k] = Repaired(k, disk[k])]
    BY <2>1 DEF OpenRepair
  <2>3. disk = durable
    BY <1>0, <2>2, SectionShape DEF IInv, SectionInv, TypeOK, Section, Free, Mutating
  <2>4. durable[k] \in Rec /\ durable[k] # NoRec
    BY <1>0, <2>2, <2>3, RepositoryAssumption DEF Corrupt, held_heads
  <2>5. /\ Repaired(k, disk[k]) \in Rec /\ Repaired(k, disk[k]).current = durable[k].current
        /\ Repaired(k, disk[k]).deleted = durable[k].deleted
    BY <2>3, <2>4 DEF Repaired, Rec
  <2>6. Replaces(Repaired(k, disk[k]), k)
    BY <2>5, SameFollows, RepositoryAssumption DEF Replaces
  <2> QED BY <1>0, <2>2, <2>3, <2>5, <2>6, ReplaceRefines
<1>4. \/ durable' = durable
      \/ durable' = disk
      \/ \E k \in Key : OpenRepair(k)
  <2>1. CASE Request
    BY <2>1 DEF Request, PutReserve, PutRetry, MeshPull, Import, Delete, Learn, MeshDelete,
                DropHolding, AdoptHome, VerifyHolding, RetireRoom
  <2>2. CASE TaskStep
    BY <2>2 DEF TaskStep, PullFailed, Commit, SetHomeAfterPut
  <2>3. CASE SectionStep
    BY <2>3 DEF SectionStep, WriteGeneration, SyncGeneration, PublishRecord, IndexRecord,
                Cleanup, Finish, IoError
  <2>4. CASE Restart
    BY <2>4 DEF Restart, OpenStart, OpenLoad, OpenRefused, OpenDone
  <2>5. CASE Environment
    BY <2>5 DEF Environment, Crash, Migrate, Rot
  <2>6. CASE UNCHANGED vars
    BY <2>6 DEF vars
  <2> QED BY <2>1, <2>2, <2>3, <2>4, <2>5, <2>6 DEF Next
<1> QED BY <1>1, <1>2, <1>3, <1>4

(* The repository implements EscrowSlot: seen through what a power loss    *)
(* leaves of heads/, commit, import, learn, delete, retire_room, crashes   *)
(* and failed syncs only ever store a first or newer head of the pinned    *)
(* writer, bury the current or a newer head, or forget a slot outside the  *)
(* mesh rooms.                                                             *)
THEOREM DurableRecordsRefineSlots == Spec => RefinesSlot
<1>1. IInv /\ OInv /\ [Next]_vars => [Abstract!SlotNext]_SlotView
  BY StepRefines
<1> QED BY <1>1, InitOK, StepOK, InitOrder, StepOrder, InitRefines, PTL
        DEF Spec, RefinesSlot, Abstract!SlotSpec

-----------------------------------------------------------------------------
(* What an acknowledgement means outside mesh rooms.                       *)

(* Every record of a standalone room holds all the generations it names.   *)
Kept(r) ==
    r # NoRec => /\ ~r.deleted /\ r.held /\ r.home = "none"
                 /\ r.previous # NoHead => r.previous_held

StandaloneInv ==
    /\ \A k \in Key : k[1] \notin MeshRoom =>
         Kept(records[k]) /\ Kept(disk[k]) /\ Kept(durable[k])
    /\ Mutating /\ cs.key[1] \notin MeshRoom => Kept(cs.rec)
    /\ \A t \in Task : task[t].pc \in {"home", "homing", "retry"} =>
         task[t].key[1] \in MeshRoom

(* docs/escrow.md's promise, for the rooms without automatic replication:  *)
(* whenever a PUT is acknowledged, the record that survives a power loss   *)
(* already holds the acknowledged generation.                              *)
StandaloneAckMeansStored ==
    [][\A a \in acked' \ acked :
          a[1][1] \notin MeshRoom => a[2] \in held_heads(durable'[a[1]])]_vars

LEMMA CommitKept ==
    ASSUME NEW k, NEW h \in Heads, NEW owner, records[k] \in Rec \cup {NoRec}, Kept(records[k])
    PROVE  Kept(CommitRecord(k, h, owner))
  BY DEF CommitRecord, Kept, Live, CurrentOf

(* A step that publishes nothing and moves no task on.                     *)
LEMMA QuietStandalone ==
    ASSUME StandaloneInv, UNCHANGED <<disk, durable, records>>,
           \/ UNCHANGED cs
           \/ ~Mutating'
           \/ Mutating' /\ cs'.key[1] \in MeshRoom
           \/ Mutating' /\ Kept(cs'.rec)
           \/ Mutating /\ cs'.key = cs.key /\ cs'.rec = cs.rec,
           \A t \in Task : \/ task'[t] = task[t]
                           \/ task'[t].pc \notin {"home", "homing", "retry"}
                           \/ task'[t].key[1] \in MeshRoom
    PROVE  StandaloneInv'
<1>1. Mutating' /\ cs'.key[1] \notin MeshRoom => Kept(cs.rec)'
  BY DEF StandaloneInv, Mutating, Kept
<1>2. \A k \in Key : k[1] \notin MeshRoom =>
         Kept(records[k])' /\ Kept(disk[k])' /\ Kept(durable[k])'
  BY DEF StandaloneInv, Kept
<1>3. \A t \in Task : task'[t].pc \in {"home", "homing", "retry"} =>
         task'[t].key[1] \in MeshRoom
  BY DEF StandaloneInv
<1> QED BY <1>1, <1>2, <1>3 DEF StandaloneInv, Kept

LEMMA RequestStandalone ==
    ASSUME IInv, StandaloneInv, Request
    PROVE  StandaloneInv'
<1>0. /\ records \in [Key -> Rec \cup {NoRec}] /\ task \in [Task -> TaskState]
  BY DEF IInv, TypeOK
<1>1. ASSUME NEW k \in Key, NEW h \in Heads, Import(k, h)
      PROVE  StandaloneInv'
  <2>1. /\ cs'.op = "commit" /\ cs'.key = k /\ cs'.rec = CommitRecord(k, h, NoOwner)
        /\ UNCHANGED <<disk, durable, records, task>>
    BY <1>1 DEF Import, Enter
  <2>2. k[1] \in MeshRoom \/ Kept(cs'.rec)
    BY <1>0, <2>1, CommitKept DEF StandaloneInv
  <2> QED BY <2>1, <2>2, QuietStandalone DEF Mutating
<1>2. ASSUME NEW k \in Key, (\E h \in Heads : Delete(k, h)) \/ RetireRoom(k)
      PROVE  StandaloneInv'
  <2>1. /\ cs'.op \in {"unlink", "retire"} /\ cs'.rec = NoRec
        /\ UNCHANGED <<disk, durable, records, task>>
    BY <1>2 DEF Delete, RetireRoom, Enter
  <2> QED BY <2>1, QuietStandalone DEF Mutating, Kept
<1>3. ASSUME NEW k \in Key,
             \/ \E h \in Heads, home \in Home, del \in BOOLEAN : Learn(k, h, home, del)
             \/ MeshDelete(k) \/ DropHolding(k) \/ AdoptHome(k) \/ VerifyHolding(k)
      PROVE  StandaloneInv'
  <2>1. /\ cs'.op = "meta" /\ cs'.key = k /\ k[1] \in MeshRoom
        /\ UNCHANGED <<disk, durable, records, task>>
    <3>1. CASE MeshDelete(k)
      BY <3>1 DEF MeshDelete, Enter
    <3>2. CASE DropHolding(k)
      BY <3>2 DEF DropHolding, Enter
    <3>3. CASE AdoptHome(k) \/ VerifyHolding(k)
      BY <3>3 DEF AdoptHome, VerifyHolding, Enter
    <3>4. ASSUME NEW h, NEW home, NEW del, Learn(k, h, home, del)
          PROVE  /\ cs'.op = "meta" /\ cs'.key = k /\ k[1] \in MeshRoom
                 /\ UNCHANGED <<disk, durable, records, task>>
      BY <3>4 DEF Learn, Enter
    <3> QED BY <1>3, <3>1, <3>2, <3>3, <3>4
  <2> QED BY <2>1, QuietStandalone DEF Mutating
<1>4. ASSUME NEW t \in Task, NEW p \in Peer, NEW k \in Key, NEW h \in Heads,
             PutReserve(t, p, k, h) \/ MeshPull(t, p, k, h)
      PROVE  StandaloneInv'
  <2>1. /\ UNCHANGED <<disk, durable, records, cs>>
        /\ \E x : x.pc = "pull" /\ task' = [task EXCEPT ![t] = x]
    BY <1>4 DEF PutReserve, MeshPull
  <2>2. \A u \in Task : task'[u] = task[u] \/ task'[u].pc = "pull"
    BY <1>0, <2>1
  <2> QED BY <2>1, <2>2, QuietStandalone
<1>5. ASSUME NEW t \in Task, NEW p \in Peer, NEW k \in Key, NEW h \in Heads,
             PutRetry(t, p, k, h)
      PROVE  StandaloneInv'
  <2>1. UNCHANGED <<disk, durable, records>>
    BY <1>5 DEF PutRetry
  <2>2. \/ UNCHANGED <<task, cs>>
        \/ /\ cs'.op = "meta" /\ cs'.key = k /\ k[1] \in MeshRoom
           /\ \E x : x.key = k /\ task' = [task EXCEPT ![t] = x]
    BY <1>5 DEF PutRetry, Enter
  <2>3. \/ UNCHANGED <<task, cs>>
        \/ /\ cs'.op = "meta" /\ cs'.key[1] \in MeshRoom
           /\ \A u \in Task : task'[u] = task[u] \/ task'[u].key[1] \in MeshRoom
    BY <1>0, <2>2
  <2> QED BY <2>1, <2>3, QuietStandalone DEF Mutating
<1> QED BY <1>1, <1>2, <1>3, <1>4, <1>5 DEF Request

LEMMA TaskStepStandalone ==
    ASSUME IInv, StandaloneInv, TaskStep
    PROVE  StandaloneInv'
<1>1. PICK t \in Task : PullFailed(t) \/ Commit(t) \/ SetHomeAfterPut(t)
  BY DEF TaskStep
<1>2. /\ records \in [Key -> Rec \cup {NoRec}] /\ task \in [Task -> TaskState]
      /\ task[t].key \in Key /\ task[t].head \in Heads
      /\ UNCHANGED <<disk, durable, records>>
  BY <1>1 DEF PullFailed, Commit, SetHomeAfterPut, Idle, IInv, TypeOK, TaskState
<1>3. CASE PullFailed(t)
  BY <1>2, <1>3, QuietStandalone DEF PullFailed, Return, Idle
<1>4. CASE Commit(t)
  <2>1. /\ cs'.op = "commit" /\ cs'.key = task[t].key
        /\ \E owner : cs'.rec = CommitRecord(task[t].key, task[t].head, owner)
        /\ task[t].pc = "pull" /\ task' = [task EXCEPT ![t].pc = "commit"]
    BY <1>4 DEF Commit, Enter
  <2>2. task[t].key[1] \in MeshRoom \/ Kept(cs'.rec)
    BY <1>2, <2>1, CommitKept DEF StandaloneInv
  <2>3. \A u \in Task : task'[u] = task[u] \/ task'[u].pc = "commit"
    BY <1>2, <2>1 DEF TaskState, Idle
  <2> QED BY <1>2, <2>1, <2>2, <2>3, QuietStandalone DEF Mutating
<1>5. CASE SetHomeAfterPut(t)
  <2>1. task[t].key[1] \in MeshRoom
    BY <1>5 DEF SetHomeAfterPut, StandaloneInv
  <2>2. \/ UNCHANGED cs /\ task' = [task EXCEPT ![t] = Idle]
        \/ /\ cs'.op = "meta" /\ cs'.key = task[t].key
           /\ task' = [task EXCEPT ![t].pc = "homing"]
    BY <1>5 DEF SetHomeAfterPut, Return, Enter
  <2>3. \A u \in Task : \/ task'[u] = task[u]
                        \/ task'[u].pc \notin {"home", "homing", "retry"}
                        \/ task'[u].key[1] \in MeshRoom
    <3>1. task'[t] = Idle \/ task'[t].key = task[t].key
      BY <1>2, <1>5, <2>2 DEF SetHomeAfterPut, TaskState, Idle
    <3>2. \A u \in Task : u # t => task'[u] = task[u]
      BY <1>2, <2>2
    <3> QED BY <2>1, <3>1, <3>2 DEF Idle
  <2> QED BY <1>2, <2>1, <2>2, <2>3, QuietStandalone DEF Mutating
<1> QED BY <1>1, <1>3, <1>4, <1>5

LEMMA SectionStepStandalone ==
    ASSUME IInv, StandaloneInv, SectionStep
    PROVE  StandaloneInv'
<1>0. /\ records \in [Key -> Rec \cup {NoRec}] /\ task \in [Task -> TaskState]
      /\ disk \in [Key -> Rec \cup {NoRec}] /\ durable \in [Key -> Rec \cup {NoRec}]
  BY DEF IInv, TypeOK
<1>1. CASE WriteGeneration \/ SyncGeneration \/ PublishRecord \/ IndexRecord
  <2>1. /\ Mutating /\ UNCHANGED task
        /\ \E at : cs' = [cs EXCEPT !.at = at]
    BY <1>1, SectionShape DEF IInv, WriteGeneration, SyncGeneration, PublishRecord, IndexRecord
  <2>2. cs'.op = cs.op /\ cs'.key = cs.key /\ cs'.rec = cs.rec /\ cs.key \in Key
    BY <2>1, SectionShape DEF IInv
  <2>3. cs.key[1] \notin MeshRoom => Kept(cs.rec)
    BY <2>1 DEF StandaloneInv
  <2>4. \A k \in Key : /\ records'[k] \in {records[k]} \cup (IF k = cs.key THEN {cs.rec} ELSE {})
                       /\ disk'[k] \in {disk[k]} \cup (IF k = cs.key THEN {cs.rec} ELSE {})
                       /\ durable'[k] \in {durable[k], disk[k]}
    BY <1>0, <1>1, <2>2 DEF WriteGeneration, SyncGeneration, PublishRecord, IndexRecord
  <2>5. \A k \in Key : k[1] \notin MeshRoom =>
           Kept(records[k])' /\ Kept(disk[k])' /\ Kept(durable[k])'
    BY <2>2, <2>3, <2>4 DEF StandaloneInv, Kept
  <2>6. Mutating' /\ cs'.key[1] \notin MeshRoom => Kept(cs.rec)'
    BY <2>2, <2>3 DEF Kept
  <2> QED BY <2>1, <2>5, <2>6 DEF StandaloneInv
<1>2. CASE \E k \in Key, h \in Heads, left \in {"none", "part"} : Cleanup(k, h, left)
  BY <1>2, QuietStandalone DEF Cleanup
<1>3. CASE Finish \/ IoError
  <2>1. /\ Mutating /\ cs' = Free /\ UNCHANGED <<disk, durable, records>>
        /\ \/ UNCHANGED task
           \/ cs.by # "none" /\ task' = [task EXCEPT ![cs.by] = Idle]
           \/ /\ cs.by # "none" /\ task[cs.by].key[1] \in MeshRoom
              /\ task[cs.by].pc = "commit"
              /\ task' = [task EXCEPT ![cs.by].pc = "home"]
    BY <1>3 DEF Finish, IoError, Resume, Return
  <2>2. cs.by # "none" => cs.by \in Task
    BY <2>1, SectionShape DEF IInv
  <2>3. \A u \in Task : \/ task'[u] = task[u]
                        \/ task'[u].pc \notin {"home", "homing", "retry"}
                        \/ task'[u].key[1] \in MeshRoom
    BY <1>0, <2>1, <2>2 DEF TaskState, Idle
  <2>4. ~Mutating'
    BY <2>1 DEF Mutating, Free
  <2> QED BY <2>1, <2>3, <2>4, QuietStandalone
<1> QED BY <1>1, <1>2, <1>3 DEF SectionStep

LEMMA RestartStandalone ==
    ASSUME IInv, StandaloneInv, Restart \/ Environment
    PROVE  StandaloneInv'
<1>1. CASE OpenStart \/ OpenRefused \/ OpenDone
  BY <1>1, QuietStandalone DEF OpenStart, OpenRefused, OpenDone, Mutating, Free
<1>2. CASE OpenLoad
  <2>1. /\ cs.at = "load" /\ records' = disk /\ cs' = [cs EXCEPT !.at = "cleanup"]
        /\ UNCHANGED <<disk, durable, task>>
    BY <1>2 DEF OpenLoad
  <2>2. cs = [op |-> "open", at |-> "load"]
    BY <2>1, SectionShape DEF IInv, SectionInv, TypeOK, Section, Free, Mutating
  <2>3. ~Mutating'
    BY <2>1, <2>2 DEF Mutating
  <2> QED BY <2>1, <2>3 DEF StandaloneInv, Kept
<1>3. ASSUME NEW k \in Key, OpenRepair(k)
      PROVE  StandaloneInv'
  <2>1. /\ cs.at = "load" /\ Corrupt(k, disk[k]) # {} /\ disk[k].home # "none"
        /\ disk' = [disk EXCEPT ![k] = Repaired(k, disk[k])] /\ durable' = disk'
        /\ UNCHANGED <<records, cs, task>>
    BY <1>3 DEF OpenRepair
  <2>2. ~Mutating /\ disk \in [Key -> Rec \cup {NoRec}]
    BY <2>1, SectionShape DEF IInv, SectionInv, TypeOK, Section, Free, Mutating
  <2>3. k[1] \in MeshRoom
    BY <2>1 DEF StandaloneInv, Kept, Corrupt, held_heads
  <2>4. \A j \in Key : j # k => disk'[j] = disk[j]
    BY <2>1, <2>2
  <2> QED BY <2>1, <2>2, <2>3, <2>4 DEF StandaloneInv, Kept, Mutating
<1>4. CASE Crash
  <2>1. /\ cs' = Free /\ records' = NoRecords /\ task' = [t \in Task |-> Idle]
        /\ disk' \in {disk, durable} /\ durable' = disk'
    BY <1>4 DEF Crash
  <2> QED BY <2>1 DEF StandaloneInv, Kept, NoRecords, Mutating, Free, Idle
<1>5. CASE (\E r \in Room : Migrate(r)) \/ (\E k \in Key, h \in Heads : Rot(k, h))
  BY <1>5, QuietStandalone DEF Migrate, Rot
<1> QED BY <1>1, <1>2, <1>3, <1>4, <1>5 DEF Restart, Environment

LEMMA InitStandalone == Init => StandaloneInv
  BY DEF Init, StandaloneInv, Kept, NoRecords, Mutating, Free, Idle

LEMMA StepStandalone == IInv /\ StandaloneInv /\ [Next]_vars => StandaloneInv'
<1>1. ASSUME StandaloneInv, UNCHANGED vars PROVE StandaloneInv'
  BY <1>1, QuietStandalone DEF vars
<1> QED BY <1>1, RequestStandalone, TaskStepStandalone, SectionStepStandalone,
           RestartStandalone DEF Next

(* The two places that acknowledge outside mesh rooms: the retry of a      *)
(* retained head, and the end of the commit that published it.             *)
LEMMA StandaloneAck ==
    ASSUME IInv, OInv, StandaloneInv, [Next]_vars,
           NEW a \in acked' \ acked, a[1][1] \notin MeshRoom
    PROVE  a[2] \in held_heads(durable'[a[1]])
<1>1. \/ \E t \in Task, p \in Peer, k \in Key, h \in Heads : PutRetry(t, p, k, h)
      \/ \E t \in Task : SetHomeAfterPut(t)
      \/ Finish \/ IoError
  <2>1. CASE Request
    BY <2>1 DEF Request, PutReserve, MeshPull, Import, Delete, Learn, MeshDelete,
                DropHolding, AdoptHome, VerifyHolding, RetireRoom
  <2>2. CASE TaskStep
    BY <2>2 DEF TaskStep, PullFailed, Commit
  <2>3. CASE SectionStep
    BY <2>3 DEF SectionStep, WriteGeneration, SyncGeneration, PublishRecord, IndexRecord,
                Cleanup
  <2>4. CASE Restart
    BY <2>4 DEF Restart, OpenStart, OpenRepair, OpenLoad, OpenRefused, OpenDone
  <2>5. CASE Environment
    BY <2>5 DEF Environment, Crash, Migrate, Rot
  <2>6. CASE UNCHANGED vars
    BY <2>6 DEF vars
  <2> QED BY <2>1, <2>2, <2>3, <2>4, <2>5, <2>6 DEF Next
<1>2. ASSUME NEW t \in Task, NEW p \in Peer, NEW k \in Key, NEW h \in Heads,
             PutRetry(t, p, k, h)
      PROVE  a[2] \in held_heads(durable'[a[1]])
  <2>1. /\ a[1] = k /\ a[2] = h /\ h \in Heads /\ Retained(k, h) /\ ~failed /\ Ready(k)
        /\ UNCHANGED durable
    BY <1>2 DEF PutRetry
  <2>2. records = durable
    BY <2>1 DEF Ready, IInv, SectionInv, Synced
  <2>3. Kept(records[k]) /\ k[1] \notin MeshRoom
    BY <2>1 DEF StandaloneInv
  <2> QED BY <2>1, <2>2, <2>3, HeadAssumption DEF Retained, Live, Kept, held_heads
<1>3. ASSUME NEW t \in Task, SetHomeAfterPut(t)
      PROVE  FALSE
  <2>1. task[t].pc = "home" /\ a[1] = task[t].key
    BY <1>3 DEF SetHomeAfterPut, Ack
  <2> QED BY <2>1 DEF StandaloneInv
<1>4. CASE Finish \/ IoError
  <2> DEFINE t == cs.by
  <2>1. /\ Mutating /\ cs.at = "cleanup" /\ t # "none" /\ UNCHANGED durable
        /\ a[1] = task[t].key /\ a[2] = task[t].head
    BY <1>4 DEF Finish, IoError, Resume, Ack
  <2>2. /\ cs.key = a[1] /\ cs.rec # NoRec /\ cs.rec.current = a[2]
        /\ a[1] \in Key /\ a[2] \in Heads
    BY <2>1, SectionShape DEF IInv, TaskInv, OInv, HeadInv, TypeOK, TaskState
  <2>3. durable[a[1]] = cs.rec
    BY <2>1, <2>2 DEF IInv, SectionInv, Synced
  <2>4. Kept(cs.rec)
    BY <2>1, <2>2 DEF StandaloneInv
  <2> QED BY <2>1, <2>2, <2>3, <2>4 DEF Kept, held_heads
<1> QED BY <1>1, <1>2, <1>3, <1>4

(* In every room without automatic replication an escrow_ack is sent only  *)
(* when the acknowledged generation is stored, on a retry as on a first    *)
(* PUT, also when a directory sync or a cleanup failed just before.        *)
THEOREM StandaloneAcksAreStored == Spec => StandaloneAckMeansStored
<1>1. IInv /\ OInv /\ StandaloneInv /\ [Next]_vars =>
        [\A a \in acked' \ acked :
           a[1][1] \notin MeshRoom => a[2] \in held_heads(durable'[a[1]])]_vars
  BY StandaloneAck
<1> QED BY <1>1, InitOK, StepOK, InitOrder, StepOrder, InitStandalone, StepStandalone, PTL
        DEF Spec, StandaloneAckMeansStored

(* A provider that serves no mesh room keeps docs/escrow.md's promise: a   *)
(* PUT ACK means it durably stored the data.                               *)
THEOREM AcksAreStoredWithoutMesh ==
    ASSUME MeshRoom = {}
    PROVE  Spec => AckMeansStored
<1>1. IInv /\ OInv /\ StandaloneInv /\ [Next]_vars =>
        [\A a \in acked' \ acked : a[2] \in held_heads(durable'[a[1]])]_vars
  BY StandaloneAck
<1> QED BY <1>1, InitOK, StepOK, InitOrder, StepOrder, InitStandalone, StepStandalone, PTL
        DEF Spec, AckMeansStored

-----------------------------------------------------------------------------
(* Quotas.                                                                 *)

(* A set of record files within every quota.                               *)
Fits(recs) ==
    /\ bytes(recs) <= MaxTotal
    /\ \A p \in Peer : owner_bytes(recs, p) <= ownerLimit[p]
    /\ \A r \in Room : SlotsIn(recs, r) <= MaxSlots

(* The record files there will be when the section in progress has         *)
(* published its record.                                                   *)
Ahead == cs.at \in {"write", "sync", "publish", "index"}

Coming == IF Ahead THEN [records EXCEPT ![cs.key] = cs.rec] ELSE records

(* What is still to come from the pulls in flight: bytes, and new slots.   *)
PledgeOf(x) == IF x.pc = "pull" THEN reserveSize[x.head] ELSE 0

PledgedIn(tasks) == SumFunction([t \in Task |-> PledgeOf(tasks[t])])

Pledged == PledgedIn(task)

NewSlots(r) ==
    {t \in Task : task[t].pc = "pull" /\ task[t].key[1] = r /\ records[task[t].key] = NoRec}

(* The record a pull was admitted against is still there when it commits,  *)
(* so it inherits no more than what it was charged for.                    *)
OwnerPledge(t) ==
    task[t].pc = "pull" /\ task[t].kind = "put" =>
       /\ task[t].ownerAmount
             = reserveSize[task[t].head] + Inherited(task[t].key, task[t].head, task[t].from)
       /\ owner_bytes(Coming, task[t].from) + task[t].ownerAmount <= ownerLimit[task[t].from]

Pledges ==
    /\ bytes(Coming) + Pledged <= MaxTotal
    /\ \A p \in Peer : owner_bytes(Coming, p) <= ownerLimit[p]
    /\ \A t \in Task : OwnerPledge(t)
    /\ \A r \in Room : SlotsIn(Coming, r) + Cardinality(NewSlots(r)) <= MaxSlots

OnePerPeer ==
    \A t, u \in Task : t \in Reserving /\ u \in Reserving /\ task[t].from = task[u].from => t = u

QInv ==
    /\ Fits(disk) /\ Fits(durable)
    /\ up /\ ~failed => Pledges
    /\ OnePerPeer

-----------------------------------------------------------------------------
(* What the accounting computes.                                           *)

LEMMA KeyFinite == IsFiniteSet(Key)
BY FiniteAssumption, FS_Product DEF Key

(* A record holds at most two generations, of known sizes.                 *)
LEMMA HeldFinite ==
    ASSUME NEW r
    PROVE  IsFiniteSet(held_heads(r)) /\ \A h \in held_heads(r) : size[h] \in Nat
<1>1. IsFiniteSet({r.current, r.previous})
  <2>1. IsFiniteSet({r.current}) BY FS_Singleton
  <2>2. {r.current, r.previous} = {r.current} \cup {r.previous} OBVIOUS
  <2> QED BY <2>1, <2>2, FS_AddElement
<1>2. held_heads(r) \in SUBSET {r.current, r.previous} BY DEF held_heads
<1>3. held_heads(r) \subseteq Heads BY DEF held_heads
<1> QED BY <1>1, <1>2, <1>3, FS_Subset, RepositoryAssumption

LEMMA BytesNat == ASSUME NEW r PROVE BytesOf(r) \in Nat
BY HeldFinite, SumOf DEF BytesOf

(* A record that holds fewer generations takes fewer bytes.                *)
LEMMA BytesLess ==
    ASSUME NEW r, NEW q, \A g \in held_heads(r) : g \in held_heads(q)
    PROVE  BytesOf(r) <= BytesOf(q)
<1>1. held_heads(r) \in SUBSET held_heads(q) OBVIOUS
<1> QED BY <1>1, HeldFinite, SumWithin DEF BytesOf

(* One more generation costs at most its size.                             *)
LEMMA BytesMore ==
    ASSUME NEW r, NEW q, NEW h \in Heads, \A g \in held_heads(r) \ {h} : g \in held_heads(q)
    PROVE  BytesOf(r) <= BytesOf(q) + size[h]
<1> DEFINE S == held_heads(q) \cup {h}
<1>0. size[h] \in Nat BY RepositoryAssumption
<1>1. IsFiniteSet(held_heads(q)) /\ \A g \in held_heads(q) : size[g] \in Nat BY HeldFinite
<1>2. IsFiniteSet(S) /\ \A g \in S : size[g] \in Nat BY <1>0, <1>1, FS_AddElement
<1>3. held_heads(r) \in SUBSET S OBVIOUS
<1> DEFINE a == SumFunctionOnSet(size, held_heads(r))
           b == SumFunctionOnSet(size, S)
           c == SumFunctionOnSet(size, held_heads(q))
<1>4. b <= c + size[h] BY <1>0, <1>1, SumOneMore
<1>5. c \in Nat BY <1>1, SumOf
<1>6. a <= b /\ b \in Nat
  <2> HIDE DEF S
  <2> QED BY <1>2, <1>3, SumWithin, SumOf
<1>7. a \in Nat BY HeldFinite, SumOf
<1> HIDE DEF a, b, c
<1>8. a <= c + size[h] BY <1>0, <1>4, <1>5, <1>6, <1>7
<1> QED BY <1>8 DEF a, c, BytesOf

LEMMA BytesNone == ASSUME NEW r, held_heads(r) = {} PROVE BytesOf(r) = 0
BY HeldFinite, SumOf DEF BytesOf

LEMMA BytesOne ==
    ASSUME NEW r, NEW h \in Heads, held_heads(r) \subseteq {h}
    PROVE  BytesOf(r) <= size[h]
<1>1. held_heads(NoRec) = {} BY DEF held_heads
<1>2. BytesOf(NoRec) = 0 BY <1>1, BytesNone
<1>3. BytesOf(r) <= BytesOf(NoRec) + size[h] BY BytesMore
<1>4. size[h] \in Nat /\ BytesOf(r) \in Nat BY RepositoryAssumption, BytesNat
<1> QED BY <1>2, <1>3, <1>4

(* A record takes at most the sizes of the generations it may hold.        *)
LEMMA BytesTwo ==
    ASSUME NEW r, NEW h \in Heads, NEW x \in Heads, held_heads(r) \subseteq {h, x}
    PROVE  BytesOf(r) <= size[h] + size[x]
<1> DEFINE S == {x}
<1>0. size[h] \in Nat /\ size[x] \in Nat BY RepositoryAssumption
<1>1. IsFiniteSet(S) /\ \A g \in S : size[g] \in Nat BY <1>0, FS_Singleton
<1> DEFINE a == SumFunctionOnSet(size, held_heads(r))
           b == SumFunctionOnSet(size, S \cup {h})
           c == SumFunctionOnSet(size, S)
<1>2. b <= c + size[h] BY <1>0, <1>1, SumOneMore
<1>3. c = size[x]
  <2>1. c = size[x] + SumFunctionOnSet(size, S \ {x}) BY <1>1, SumOf
  <2>2. S \ {x} = {} OBVIOUS
  <2>3. SumFunctionOnSet(size, {}) = 0 BY FS_EmptySet, SumOf
  <2> QED BY <1>0, <2>1, <2>2, <2>3
<1>4. a <= b /\ b \in Nat
  <2>1. IsFiniteSet(S \cup {h}) /\ \A g \in S \cup {h} : size[g] \in Nat
    BY <1>0, <1>1, FS_AddElement
  <2>2. held_heads(r) \in SUBSET (S \cup {h}) OBVIOUS
  <2> HIDE DEF S
  <2> QED BY <2>1, <2>2, SumWithin, SumOf
<1>5. a \in Nat BY HeldFinite, SumOf
<1> HIDE DEF a, b, c
<1>6. a <= size[h] + size[x] BY <1>0, <1>2, <1>3, <1>4, <1>5
<1> QED BY <1>6 DEF a, BytesOf

-----------------------------------------------------------------------------
(* What replacing one record changes.                                      *)

Recs == [Key -> Rec \cup {NoRec}]

(* Replacing a record changes the total by the difference of the two.      *)
LEMMA ReplaceBytes ==
    ASSUME NEW recs \in Recs, NEW k \in Key, NEW r
    PROVE  /\ bytes(recs) \in Nat /\ bytes([recs EXCEPT ![k] = r]) \in Nat
           /\ bytes([recs EXCEPT ![k] = r]) + BytesOf(recs[k]) = bytes(recs) + BytesOf(r)
<1> DEFINE new == [recs EXCEPT ![k] = r]
           f == [j \in Key |-> BytesOf(new[j])]
           g == [j \in Key |-> BytesOf(recs[j])]
<1>1. new[k] = r /\ \A j \in Key : j # k => new[j] = recs[j] BY DEF Recs
<1> HIDE DEF new
<1>2. /\ \A j \in Key : f[j] \in Nat /\ g[j] \in Nat
      /\ \A j \in Key \ {k} : f[j] = g[j]
      /\ f[k] = BytesOf(r) /\ g[k] = BytesOf(recs[k])
  BY <1>1, BytesNat
<1>3. bytes(new) = SumFunctionOnSet(f, Key) /\ bytes(recs) = SumFunctionOnSet(g, Key)
  BY DEF bytes, SumFunction
<1> HIDE DEF f, g
<1>4. /\ SumFunctionOnSet(f, Key) \in Nat /\ SumFunctionOnSet(g, Key) \in Nat
      /\ SumFunctionOnSet(f, Key) + g[k] = SumFunctionOnSet(g, Key) + f[k]
  BY <1>2, KeyFinite, SumChange
<1> QED BY <1>2, <1>3, <1>4 DEF new

OwnedReplaced(recs, k, r, p, new) ==
    /\ owner_bytes(recs, p) \in Nat /\ owner_bytes(new, p) \in Nat
    /\ OwnedBytes(r, p) \in Nat /\ OwnedBytes(recs[k], p) \in Nat
    /\ owner_bytes(new, p) + OwnedBytes(recs[k], p) = owner_bytes(recs, p) + OwnedBytes(r, p)

(* The same of what a peer owns.                                           *)
LEMMA ReplaceOwned ==
    ASSUME NEW recs \in Recs, NEW k \in Key, NEW r, NEW p
    PROVE  OwnedReplaced(recs, k, r, p, [recs EXCEPT ![k] = r])
<1> DEFINE new == [recs EXCEPT ![k] = r]
           f == [j \in Key |-> OwnedBytes(new[j], p)]
           g == [j \in Key |-> OwnedBytes(recs[j], p)]
<1>1. new[k] = r /\ \A j \in Key : j # k => new[j] = recs[j] BY DEF Recs
<1>2. \A x : OwnedBytes(x, p) \in Nat BY BytesNat DEF OwnedBytes
<1> HIDE DEF new
<1>3. /\ \A j \in Key : f[j] \in Nat /\ g[j] \in Nat
      /\ \A j \in Key \ {k} : f[j] = g[j]
      /\ f[k] = OwnedBytes(r, p) /\ g[k] = OwnedBytes(recs[k], p)
  BY <1>1, <1>2
<1>4. owner_bytes(new, p) = SumFunctionOnSet(f, Key)
      /\ owner_bytes(recs, p) = SumFunctionOnSet(g, Key)
  BY DEF owner_bytes, SumFunction
<1> HIDE DEF f, g
<1>5. /\ SumFunctionOnSet(f, Key) \in Nat /\ SumFunctionOnSet(g, Key) \in Nat
      /\ SumFunctionOnSet(f, Key) + g[k] = SumFunctionOnSet(g, Key) + f[k]
  BY <1>3, KeyFinite, SumChange
<1> QED BY <1>2, <1>3, <1>4, <1>5 DEF new, OwnedReplaced

(* The slots of a room: one more at most, and none more when the slot was  *)
(* there or goes.                                                          *)
LEMMA ReplaceSlots ==
    ASSUME NEW recs \in Recs, NEW k \in Key, NEW r, NEW q
    PROVE  /\ SlotsIn(recs, q) \in Nat /\ SlotsIn([recs EXCEPT ![k] = r], q) \in Nat
           /\ SlotsIn([recs EXCEPT ![k] = r], q) <= SlotsIn(recs, q) + 1
           /\ r = NoRec \/ recs[k] # NoRec \/ k[1] # q =>
                SlotsIn([recs EXCEPT ![k] = r], q) <= SlotsIn(recs, q)
<1> DEFINE new == [recs EXCEPT ![k] = r]
           A == {j \in Key : j[1] = q /\ new[j] # NoRec}
           B == {j \in Key : j[1] = q /\ recs[j] # NoRec}
<1>1. new[k] = r /\ \A j \in Key : j # k => new[j] = recs[j] BY DEF Recs
<1> HIDE DEF new
<1>2. IsFiniteSet(A) /\ IsFiniteSet(B) BY KeyFinite, FS_Subset
<1>3. A \in SUBSET (B \cup {k}) BY <1>1
<1>4. r = NoRec \/ recs[k] # NoRec \/ k[1] # q => A \in SUBSET B BY <1>1
<1>5. SlotsIn(new, q) = Cardinality(A) /\ SlotsIn(recs, q) = Cardinality(B) BY DEF SlotsIn
<1> HIDE DEF A, B
<1>6. /\ IsFiniteSet(B \cup {k}) /\ Cardinality(B \cup {k}) <= Cardinality(B) + 1
      /\ Cardinality(A) \in Nat /\ Cardinality(B) \in Nat /\ Cardinality(B \cup {k}) \in Nat
  <2>1. /\ IsFiniteSet(B \cup {k}) /\ Cardinality(A) \in Nat /\ Cardinality(B) \in Nat
        /\ Cardinality(B \cup {k}) \in Nat
    BY <1>2, FS_AddElement, FS_CardinalityType
  <2>2. Cardinality(B \cup {k}) = IF k \in B THEN Cardinality(B) ELSE Cardinality(B) + 1
    BY <1>2, FS_AddElement
  <2> QED BY <2>1, <2>2
<1>7. Cardinality(A) <= Cardinality(B \cup {k}) BY <1>3, <1>6, FS_Subset
<1>8. A \in SUBSET B => Cardinality(A) <= Cardinality(B) BY <1>2, FS_Subset
<1> QED BY <1>4, <1>5, <1>6, <1>7, <1>8 DEF new

(* The accounts are natural numbers.                                       *)
LEMMA AccountsNat ==
    ASSUME NEW recs, NEW p, NEW q
    PROVE  bytes(recs) \in Nat /\ owner_bytes(recs, p) \in Nat /\ SlotsIn(recs, q) \in Nat
<1>1. bytes(recs) \in Nat
  <2> DEFINE f == [k \in Key |-> BytesOf(recs[k])]
  <2>1. \A k \in Key : f[k] \in Nat BY BytesNat
  <2>2. bytes(recs) = SumFunctionOnSet(f, Key) BY DEF bytes, SumFunction
  <2> HIDE DEF f
  <2> QED BY <2>1, <2>2, KeyFinite, SumOf
<1>2. owner_bytes(recs, p) \in Nat
  <2> DEFINE f == [k \in Key |-> OwnedBytes(recs[k], p)]
  <2>1. \A k \in Key : f[k] \in Nat BY BytesNat DEF OwnedBytes
  <2>2. owner_bytes(recs, p) = SumFunctionOnSet(f, Key) BY DEF owner_bytes, SumFunction
  <2> HIDE DEF f
  <2> QED BY <2>1, <2>2, KeyFinite, SumOf
<1>3. SlotsIn(recs, q) \in Nat
  <2> DEFINE A == {k \in Key : k[1] = q /\ recs[k] # NoRec}
  <2>1. IsFiniteSet(A) BY KeyFinite, FS_Subset
  <2> HIDE DEF A
  <2>2. Cardinality(A) \in Nat BY <2>1, FS_CardinalityType
  <2> QED BY <2>2 DEF A, SlotsIn
<1> QED BY <1>1, <1>2, <1>3

(* A record that holds no other generations, for the same owner or nobody. *)
Less(r, q) ==
    /\ \A g \in held_heads(r) : g \in held_heads(q)
    /\ r = NoRec \/ r.owner = NoOwner \/ (q # NoRec /\ r.owner = q.owner)

(* A record replaced by a smaller one of the same owner takes nothing more *)
(* from any account.                                                       *)
LEMMA LessTakesLess ==
    ASSUME NEW recs \in Recs, NEW k \in Key, NEW r, Less(r, recs[k]), NEW p \in Peer
    PROVE  /\ bytes([recs EXCEPT ![k] = r]) <= bytes(recs)
           /\ owner_bytes([recs EXCEPT ![k] = r], p) <= owner_bytes(recs, p)
<1> DEFINE new == [recs EXCEPT ![k] = r]
<1>1. BytesOf(r) <= BytesOf(recs[k]) /\ BytesOf(r) \in Nat /\ BytesOf(recs[k]) \in Nat
  BY BytesLess, BytesNat DEF Less
<1>2. OwnedBytes(r, p) <= OwnedBytes(recs[k], p)
  <2>1. p # NoOwner BY RepositoryAssumption
  <2> QED BY <1>1, <2>1 DEF OwnedBytes, Less
<1>3. /\ bytes(recs) \in Nat /\ bytes(new) \in Nat
      /\ bytes(new) + BytesOf(recs[k]) = bytes(recs) + BytesOf(r)
  BY ReplaceBytes
<1>4. /\ owner_bytes(recs, p) \in Nat /\ owner_bytes(new, p) \in Nat
      /\ OwnedBytes(r, p) \in Nat /\ OwnedBytes(recs[k], p) \in Nat
      /\ owner_bytes(new, p) + OwnedBytes(recs[k], p) = owner_bytes(recs, p) + OwnedBytes(r, p)
  <2>1. OwnedReplaced(recs, k, r, p, new) BY ReplaceOwned
  <2> QED BY <2>1 DEF OwnedReplaced
<1> HIDE DEF new
<1>5. bytes(new) <= bytes(recs) BY <1>1, <1>3
<1>6. owner_bytes(new, p) <= owner_bytes(recs, p) BY <1>2, <1>4
<1> QED BY <1>5, <1>6 DEF new

-----------------------------------------------------------------------------
(* What the pulls in flight are pledged.                                   *)

LEMMA PledgeNat == ASSUME NEW x \in TaskState PROVE PledgeOf(x) \in Nat
BY RepositoryAssumption DEF PledgeOf, TaskState, Idle

(* Fewer pulls in flight pledge fewer bytes.                               *)
LEMMA PledgedLess ==
    ASSUME NEW a \in [Task -> TaskState], NEW b \in [Task -> TaskState],
           \A t \in Task : PledgeOf(b[t]) <= PledgeOf(a[t])
    PROVE  PledgedIn(a) \in Nat /\ PledgedIn(b) \in Nat /\ PledgedIn(b) <= PledgedIn(a)
<1> DEFINE f == [t \in Task |-> PledgeOf(a[t])]
           g == [t \in Task |-> PledgeOf(b[t])]
<1>1. \A t \in Task : f[t] \in Nat /\ g[t] \in Nat /\ g[t] <= f[t]
  BY PledgeNat
<1>2. PledgedIn(a) = SumFunctionOnSet(f, Task) /\ PledgedIn(b) = SumFunctionOnSet(g, Task)
  BY DEF PledgedIn, SumFunction
<1> HIDE DEF f, g
<1> QED BY <1>1, <1>2, FiniteAssumption, SumLess, SumOf

(* One task's step changes the pledge by its own.                          *)
LEMMA PledgedChange ==
    ASSUME NEW a \in [Task -> TaskState], NEW b \in [Task -> TaskState], NEW t \in Task,
           \A u \in Task : u # t => b[u] = a[u]
    PROVE  /\ PledgedIn(a) \in Nat /\ PledgedIn(b) \in Nat
           /\ PledgedIn(b) + PledgeOf(a[t]) = PledgedIn(a) + PledgeOf(b[t])
<1> DEFINE f == [u \in Task |-> PledgeOf(b[u])]
           g == [u \in Task |-> PledgeOf(a[u])]
<1>1. /\ \A u \in Task : f[u] \in Nat /\ g[u] \in Nat
      /\ \A u \in Task \ {t} : f[u] = g[u]
      /\ f[t] = PledgeOf(b[t]) /\ g[t] = PledgeOf(a[t])
  BY PledgeNat
<1>2. PledgedIn(a) = SumFunctionOnSet(g, Task) /\ PledgedIn(b) = SumFunctionOnSet(f, Task)
  BY DEF PledgedIn, SumFunction
<1> HIDE DEF f, g
<1>3. /\ SumFunctionOnSet(f, Task) \in Nat /\ SumFunctionOnSet(g, Task) \in Nat
      /\ SumFunctionOnSet(f, Task) + g[t] = SumFunctionOnSet(g, Task) + f[t]
  BY <1>1, FiniteAssumption, SumChange
<1> QED BY <1>1, <1>2, <1>3

(* One task's step.                                                        *)
LEMMA TaskPledge ==
    ASSUME task \in [Task -> TaskState], task' \in [Task -> TaskState], NEW t \in Task,
           \A u \in Task : u # t => task'[u] = task[u]
    PROVE  /\ Pledged \in Nat /\ Pledged' \in Nat
           /\ Pledged' + PledgeOf(task[t]) = Pledged + PledgeOf(task'[t])
BY PledgedChange DEF Pledged

(* What is pledged was reserved: reserve() has counted it.                 *)
LEMMA PledgedReserved ==
    ASSUME TypeOK
    PROVE  reserved \in Nat /\ Pledged \in Nat /\ Pledged <= reserved
<1> DEFINE f == [t \in Task |-> PledgeOf(task[t])]
           g == [t \in Task |-> IF t \in Reserving THEN reserveSize[task[t].head] ELSE 0]
<1>0. \A t \in Reserving : reserveSize[task[t].head] \in Nat
  BY RepositoryAssumption DEF TypeOK, TaskState, Idle, Reserving
<1>1. \A t \in Task : f[t] \in Nat /\ g[t] \in Nat /\ f[t] <= g[t]
  BY <1>0, PledgeNat DEF PledgeOf, Reserving, TypeOK
<1>2. Pledged = SumFunctionOnSet(f, Task) /\ reserved = SumFunctionOnSet(g, Task)
  BY DEF Pledged, PledgedIn, reserved, SumFunction
<1> HIDE DEF f, g
<1> QED BY <1>1, <1>2, FiniteAssumption, SumLess, SumOf

LEMMA OwnerReservedNat == ASSUME TypeOK, NEW p PROVE owner_reserved(p) \in Nat
<1> DEFINE f == [t \in Task |-> IF t \in Reserving /\ task[t].kind = "put" /\ task[t].from = p
                                THEN task[t].ownerAmount ELSE 0]
<1>1. \A t \in Task : f[t] \in Nat
  BY DEF TypeOK, TaskState, Idle, Reserving
<1>2. owner_reserved(p) = SumFunctionOnSet(f, Task) BY DEF owner_reserved, SumFunction
<1> HIDE DEF f
<1> QED BY <1>1, <1>2, FiniteAssumption, SumOf

(* The slots still to come are among those reserve() counts.               *)
LEMMA NewSlotsPending ==
    ASSUME NEW r
    PROVE  /\ IsFiniteSet(NewSlots(r)) /\ Cardinality(NewSlots(r)) \in Nat
           /\ PendingIn(r) \in Nat /\ Cardinality(NewSlots(r)) <= PendingIn(r)
<1> DEFINE A == NewSlots(r)
           B == {t \in Reserving : task[t].key[1] = r}
<1>1. A \in SUBSET B BY DEF NewSlots, Reserving
<1>2. B \in SUBSET Task BY DEF Reserving
<1>3. PendingIn(r) = Cardinality(B) BY DEF PendingIn
<1> HIDE DEF A, B
<1>4. IsFiniteSet(B) BY <1>2, FiniteAssumption, FS_Subset
<1>5. IsFiniteSet(A) /\ Cardinality(A) <= Cardinality(B) BY <1>1, <1>4, FS_Subset
<1>6. Cardinality(A) \in Nat /\ Cardinality(B) \in Nat BY <1>4, <1>5, FS_CardinalityType
<1> QED BY <1>3, <1>5, <1>6 DEF A

-----------------------------------------------------------------------------
(* Steps that ask for nothing more.                                        *)

LEMMA ComingType == ASSUME TypeOK PROVE Coming \in Recs
BY SectionShape DEF TypeOK, Coming, Ahead, Recs

(* The invariant says what the quotas say.                                 *)
LEMMA FitsNoted == ASSUME QInv PROVE QuotasRespected
BY DEF QInv, Fits, QuotasRespected

(* The pulls that go on do so against the same records.                    *)
SamePulls ==
    \A t \in Task : task'[t].pc = "pull" =>
       /\ task'[t] = task[t] /\ task[t].pc = "pull"
       /\ records'[task[t].key] = records[task[t].key]

(* If the pulls after a step were there before it, no pledge grows.        *)
LEMMA SamePullsPledge ==
    ASSUME TypeOK, TypeOK', SamePulls, NEW r
    PROVE  /\ Pledged \in Nat /\ Pledged' \in Nat /\ Pledged' <= Pledged
           /\ Cardinality(NewSlots(r)') \in Nat /\ Cardinality(NewSlots(r)) \in Nat
           /\ Cardinality(NewSlots(r)') <= Cardinality(NewSlots(r))
<1>1. task \in [Task -> TaskState] /\ task' \in [Task -> TaskState] BY DEF TypeOK
<1>2. \A t \in Task : PledgeOf(task'[t]) <= PledgeOf(task[t])
  <2> SUFFICES ASSUME NEW t \in Task PROVE PledgeOf(task'[t]) <= PledgeOf(task[t]) OBVIOUS
  <2>1. PledgeOf(task[t]) \in Nat /\ PledgeOf(task'[t]) \in Nat BY <1>1, PledgeNat
  <2>2. CASE task'[t].pc = "pull" BY <2>1, <2>2 DEF SamePulls
  <2>3. CASE task'[t].pc # "pull" BY <2>1, <2>3 DEF PledgeOf
  <2> QED BY <2>2, <2>3
<1>3. NewSlots(r)' \in SUBSET NewSlots(r) BY DEF NewSlots, SamePulls
<1>4. IsFiniteSet(NewSlots(r)) BY NewSlotsPending
<1>5. /\ Cardinality(NewSlots(r)') \in Nat /\ Cardinality(NewSlots(r)) \in Nat
      /\ Cardinality(NewSlots(r)') <= Cardinality(NewSlots(r))
  BY <1>3, <1>4, FS_Subset, FS_CardinalityType
<1>6. /\ Pledged \in Nat /\ Pledged' \in Nat /\ Pledged' <= Pledged
  BY <1>1, <1>2, PledgedLess DEF Pledged
<1> QED BY <1>5, <1>6

(* A pull keeps its owner's pledge while its record stays and no record is *)
(* charged more to that owner.                                             *)
LEMMA OwnerPledgeKept ==
    ASSUME TypeOK, TypeOK', SamePulls, \A t \in Task : OwnerPledge(t),
           \A p \in Peer : owner_bytes(Coming', p) <= owner_bytes(Coming, p)
    PROVE  \A t \in Task : OwnerPledge(t)'
<1> SUFFICES ASSUME NEW t \in Task, task'[t].pc = "pull", task'[t].kind = "put"
             PROVE  OwnerPledge(t)'
  BY DEF OwnerPledge
<1>1. task'[t] = task[t] /\ task[t].pc = "pull" /\ records'[task[t].key] = records[task[t].key]
  BY DEF SamePulls
<1>2. task[t].from \in Peer /\ task[t].ownerAmount \in Nat
  BY <1>1 DEF TypeOK, TaskState, Idle
<1> DEFINE p == task[t].from
           n == task[t].ownerAmount
<1>3. /\ n = reserveSize[task[t].head] + Inherited(task[t].key, task[t].head, p)
      /\ owner_bytes(Coming, p) + n <= ownerLimit[p]
  BY <1>1 DEF OwnerPledge
<1>4. Inherited(task[t].key, task[t].head, p)' = Inherited(task[t].key, task[t].head, p)
  BY <1>1 DEF Inherited
<1>5. owner_bytes(Coming', p) + n <= ownerLimit[p]
  <2>1. owner_bytes(Coming', p) \in Nat /\ owner_bytes(Coming, p) \in Nat /\ ownerLimit[p] \in Nat
    BY <1>2, AccountsNat, RepositoryAssumption
  <2>2. owner_bytes(Coming', p) <= owner_bytes(Coming, p) BY <1>2
  <2>3. n \in Nat BY <1>2
  <2> HIDE DEF n, p
  <2> QED BY <1>3, <2>1, <2>2, <2>3
<1> QED BY <1>1, <1>3, <1>4, <1>5 DEF OwnerPledge

(* A step that changes neither what is coming nor a record of a pull keeps *)
(* all pledges.                                                            *)
LEMMA PledgesKept ==
    ASSUME TypeOK, TypeOK', Pledges, SamePulls,
           bytes(Coming') <= bytes(Coming),
           \A p \in Peer : owner_bytes(Coming', p) <= owner_bytes(Coming, p),
           \A r \in Room : SlotsIn(Coming', r) <= SlotsIn(Coming, r)
    PROVE  Pledges'
<1>1. bytes(Coming') + Pledged' <= MaxTotal
  <2>1. bytes(Coming) + Pledged <= MaxTotal BY DEF Pledges
  <2>2. Pledged \in Nat /\ Pledged' \in Nat /\ Pledged' <= Pledged BY SamePullsPledge
  <2>3. bytes(Coming) \in Nat /\ bytes(Coming') \in Nat /\ MaxTotal \in Nat
    BY AccountsNat, RepositoryAssumption
  <2> QED BY <2>1, <2>2, <2>3
<1>2. ASSUME NEW p \in Peer PROVE owner_bytes(Coming', p) <= ownerLimit[p]
  <2>1. owner_bytes(Coming', p) \in Nat /\ owner_bytes(Coming, p) \in Nat /\ ownerLimit[p] \in Nat
    BY AccountsNat, RepositoryAssumption
  <2>2. owner_bytes(Coming, p) <= ownerLimit[p] BY DEF Pledges
  <2>3. owner_bytes(Coming', p) <= owner_bytes(Coming, p) OBVIOUS
  <2> QED BY <2>1, <2>2, <2>3
<1>3. \A t \in Task : OwnerPledge(t)' BY OwnerPledgeKept DEF Pledges
<1>4. ASSUME NEW r \in Room
      PROVE  SlotsIn(Coming', r) + Cardinality(NewSlots(r)') <= MaxSlots
  <2>1. SlotsIn(Coming, r) + Cardinality(NewSlots(r)) <= MaxSlots BY DEF Pledges
  <2>2. /\ Cardinality(NewSlots(r)') \in Nat /\ Cardinality(NewSlots(r)) \in Nat
        /\ Cardinality(NewSlots(r)') <= Cardinality(NewSlots(r))
    BY SamePullsPledge
  <2>3. SlotsIn(Coming', r) \in Nat /\ SlotsIn(Coming, r) \in Nat /\ MaxSlots \in Nat
    BY AccountsNat, RepositoryAssumption
  <2>4. SlotsIn(Coming', r) <= SlotsIn(Coming, r) OBVIOUS
  <2> QED BY <2>1, <2>2, <2>3, <2>4
<1> QED BY <1>1, <1>2, <1>3, <1>4 DEF Pledges

SameReservers ==
    \A t \in Task : t \in Reserving' => t \in Reserving /\ task'[t].from = task[t].from

(* No new reservation, no second one.                                      *)
LEMMA OnePerPeerKept == ASSUME OnePerPeer, SameReservers PROVE OnePerPeer'
BY DEF OnePerPeer, SameReservers

(* A step that publishes nothing and starts no pull.                       *)
LEMMA QuietQuota ==
    ASSUME IInv, IInv', QInv, UNCHANGED <<disk, durable>>, SamePulls, SameReservers,
           up' /\ ~failed' => up /\ ~failed /\ Coming' = Coming
    PROVE  QInv'
<1>1. Fits(disk)' /\ Fits(durable)' BY DEF QInv, Fits, bytes, owner_bytes, SlotsIn, OwnedBytes
<1>2. OnePerPeer' BY OnePerPeerKept DEF QInv
<1>3. ASSUME up', ~failed' PROVE Pledges'
  <2>1. Coming' = Coming /\ Pledges BY <1>3 DEF QInv
  <2>2. TypeOK /\ TypeOK' BY DEF IInv
  <2>3. /\ bytes(Coming') <= bytes(Coming)
        /\ \A p \in Peer : owner_bytes(Coming', p) <= owner_bytes(Coming, p)
        /\ \A r \in Room : SlotsIn(Coming', r) <= SlotsIn(Coming, r)
    <3>1. ASSUME NEW p, NEW r PROVE
            /\ bytes(Coming) \in Nat /\ owner_bytes(Coming, p) \in Nat /\ SlotsIn(Coming, r) \in Nat
      BY AccountsNat
    <3> HIDE DEF Coming
    <3> QED BY <2>1, <3>1
  <2> QED BY <2>1, <2>2, <2>3, PledgesKept
<1> QED BY <1>1, <1>2, <1>3 DEF QInv

(* What the record files will be fits; so it does once it is published.    *)
LEMMA ComingFits == ASSUME Pledges, TypeOK PROVE Fits(Coming)
<1>1. bytes(Coming) <= MaxTotal
  <2>1. bytes(Coming) + Pledged <= MaxTotal BY DEF Pledges
  <2>2. Pledged \in Nat BY PledgedReserved
  <2>3. bytes(Coming) \in Nat /\ MaxTotal \in Nat BY AccountsNat, RepositoryAssumption
  <2> QED BY <2>1, <2>2, <2>3
<1>2. ASSUME NEW r \in Room PROVE SlotsIn(Coming, r) <= MaxSlots
  <2>1. SlotsIn(Coming, r) + Cardinality(NewSlots(r)) <= MaxSlots BY DEF Pledges
  <2>2. Cardinality(NewSlots(r)) \in Nat BY NewSlotsPending
  <2>3. SlotsIn(Coming, r) \in Nat /\ MaxSlots \in Nat BY AccountsNat, RepositoryAssumption
  <2> QED BY <2>1, <2>2, <2>3
<1> QED BY <1>1, <1>2 DEF Fits, Pledges

(* Writing, publishing and indexing a record: what was coming is there.    *)
LEMMA SectionQuota ==
    ASSUME IInv, IInv', QInv,
           WriteGeneration \/ SyncGeneration \/ PublishRecord \/ IndexRecord
    PROVE  QInv'
<1>0. Mutating /\ up /\ ~failed /\ Ahead /\ Pledges /\ cs.key \in Key
      /\ cs = [op |-> cs.op, at |-> cs.at, key |-> cs.key, rec |-> cs.rec, by |-> cs.by]
  BY SectionShape DEF IInv, SectionInv, QInv, WriteGeneration, SyncGeneration, PublishRecord,
     IndexRecord, Ahead
<1>1. Coming = [records EXCEPT ![cs.key] = cs.rec] BY <1>0 DEF Coming
<1>2. task' = task /\ up' = up /\ failed' = failed
  BY DEF WriteGeneration, SyncGeneration, PublishRecord, IndexRecord
<1>3. SameReservers BY <1>2 DEF SameReservers, Reserving
<1>4. \A t \in Task : task[t].pc = "pull" => task[t].key # cs.key /\ task[t].key \in Key
  <2>1. \A t \in Task : task[t].pc = "pull" => task[t] # Idle /\ task[t].key \in Key
    BY DEF IInv, TypeOK, TaskState, Idle
  <2>2. cs.by \in Task \cup {"none"} BY <1>0, SectionShape DEF IInv
  <2> QED BY <1>0, <2>1, <2>2, RepositoryAssumption DEF IInv, TaskInv
<1>5. CASE WriteGeneration \/ SyncGeneration \/ PublishRecord
  <2>1. /\ records' = records /\ durable' = durable
        /\ \E at \in {"sync", "publish", "index"} : cs' = [cs EXCEPT !.at = at]
    BY <1>5 DEF WriteGeneration, SyncGeneration, PublishRecord
  <2>2. cs'.key = cs.key /\ cs'.rec = cs.rec /\ cs'.at \in {"sync", "publish", "index"}
    BY <1>0, <2>1
  <2>3. Coming' = Coming BY <1>1, <2>1, <2>2 DEF Coming, Ahead
  <2>4. SamePulls BY <1>2, <2>1 DEF SamePulls
  <2>5. CASE disk' = disk BY <1>0, <1>3, <2>1, <2>3, <2>4, <2>5, QuietQuota
  <2>6. CASE disk' # disk
    <3>1. cs.at = "publish" /\ disk' = [disk EXCEPT ![cs.key] = cs.rec]
      BY <1>5, <2>6 DEF WriteGeneration, SyncGeneration, PublishRecord
    <3>2. disk' = Coming BY <1>1, <3>1 DEF IInv, SectionInv, Synced
    <3>3. Fits(Coming) BY <1>0, ComingFits DEF IInv
    <3>4. Fits(disk)' BY <3>2, <3>3 DEF Fits, bytes, owner_bytes, SlotsIn, OwnedBytes
    <3>5. Fits(durable)' BY <2>1 DEF QInv, Fits, bytes, owner_bytes, SlotsIn, OwnedBytes
    <3>6. Pledges'
      <4>1. /\ bytes(Coming') <= bytes(Coming)
            /\ \A p \in Peer : owner_bytes(Coming', p) <= owner_bytes(Coming, p)
            /\ \A r \in Room : SlotsIn(Coming', r) <= SlotsIn(Coming, r)
        <5>1. ASSUME NEW p, NEW r PROVE
                /\ bytes(Coming) \in Nat /\ owner_bytes(Coming, p) \in Nat
                /\ SlotsIn(Coming, r) \in Nat
          BY AccountsNat
        <5> HIDE DEF Coming
        <5> QED BY <2>3, <5>1
      <4> QED BY <1>0, <2>4, <4>1, PledgesKept DEF IInv
    <3>7. OnePerPeer' BY <1>3, OnePerPeerKept DEF QInv
    <3> QED BY <3>4, <3>5, <3>6, <3>7 DEF QInv
  <2> QED BY <2>5, <2>6
<1>6. CASE IndexRecord
  <2>1. /\ records' = Coming /\ durable' = disk /\ disk' = disk
        /\ cs' = [cs EXCEPT !.at = "cleanup"]
    BY <1>1, <1>6 DEF IndexRecord
  <2>2. cs'.at = "cleanup" BY <1>0, <2>1
  <2>3. Coming' = Coming BY <2>1, <2>2 DEF Coming, Ahead
  <2>4. SamePulls BY <1>1, <1>2, <1>4, <2>1 DEF SamePulls, IInv, TypeOK
  <2>5. Fits(disk)' /\ Fits(durable)'
    BY <2>1 DEF QInv, Fits, bytes, owner_bytes, SlotsIn, OwnedBytes
  <2>6. Pledges'
    <3>1. /\ bytes(Coming') <= bytes(Coming)
          /\ \A p \in Peer : owner_bytes(Coming', p) <= owner_bytes(Coming, p)
          /\ \A r \in Room : SlotsIn(Coming', r) <= SlotsIn(Coming, r)
      <4>1. ASSUME NEW p, NEW r PROVE
              /\ bytes(Coming) \in Nat /\ owner_bytes(Coming, p) \in Nat
              /\ SlotsIn(Coming, r) \in Nat
        BY AccountsNat
      <4> HIDE DEF Coming
      <4> QED BY <2>3, <4>1
    <3> QED BY <1>0, <2>4, <3>1, PledgesKept DEF IInv
  <2>7. OnePerPeer' BY <1>3, OnePerPeerKept DEF QInv
  <2> QED BY <2>5, <2>6, <2>7 DEF QInv
<1> QED BY <1>5, <1>6

-----------------------------------------------------------------------------
(* Steps that enter a section.                                             *)

(* A section that starts makes its record the coming one of its slot.      *)
LEMMA BeginComing ==
    ASSUME IInv, QInv, NEW op, NEW at \in {"write", "publish"}, NEW k \in Key, NEW r, NEW by,
           Begin(op, at, k, r, by)
    PROVE  /\ Pledges /\ Coming = records /\ records \in Recs
           /\ Coming' = [records EXCEPT ![k] = r]
           /\ UNCHANGED <<disk, durable, records, up, failed>>
<1>1. /\ up /\ cs = Free /\ ~failed /\ UNCHANGED <<disk, durable, records, up, failed>>
      /\ cs' = [op |-> op, at |-> at, key |-> k, rec |-> r, by |-> by]
  BY DEF Begin, Enter
<1>2. cs'.at \in {"write", "sync", "publish", "index"} /\ cs'.key = k /\ cs'.rec = r BY <1>1
<1>3. cs.at \notin {"write", "sync", "publish", "index"} BY <1>1 DEF Free
<1> QED BY <1>1, <1>2, <1>3 DEF Coming, Ahead, QInv, IInv, TypeOK, Recs

(* The files are as they were, and the pulls as they were or fewer.        *)
LEMMA BeginRest ==
    ASSUME QInv, UNCHANGED <<disk, durable>>, SameReservers, Pledges'
    PROVE  QInv'
<1>1. Fits(disk)' /\ Fits(durable)'
  BY DEF QInv, Fits, bytes, owner_bytes, SlotsIn, OwnedBytes
<1>2. OnePerPeer' BY OnePerPeerKept DEF QInv
<1> QED BY <1>1, <1>2 DEF QInv

(* A section whose record asks for no more than the one it replaces.       *)
LEMMA BeginLess ==
    ASSUME IInv, IInv', QInv,
           NEW op, NEW at \in {"write", "publish"}, NEW k \in Key, NEW r, NEW by,
           Begin(op, at, k, r, by), Less(r, records[k]),
           r = NoRec \/ records[k] # NoRec,
           SamePulls, SameReservers
    PROVE  QInv'
<1>1. /\ Pledges /\ Coming = records /\ records \in Recs
      /\ Coming' = [records EXCEPT ![k] = r]
      /\ UNCHANGED <<disk, durable, records, up, failed>>
  BY BeginComing
<1> DEFINE new == [records EXCEPT ![k] = r]
<1>3. bytes(new) <= bytes(records)
  <2>1. BytesOf(r) <= BytesOf(records[k]) /\ BytesOf(r) \in Nat /\ BytesOf(records[k]) \in Nat
    BY BytesLess, BytesNat DEF Less
  <2>2. /\ bytes(records) \in Nat /\ bytes(new) \in Nat
        /\ bytes(new) + BytesOf(records[k]) = bytes(records) + BytesOf(r)
    BY <1>1, ReplaceBytes
  <2> HIDE DEF new
  <2> QED BY <2>1, <2>2
<1>4. \A p \in Peer : owner_bytes(new, p) <= owner_bytes(records, p) BY <1>1, LessTakesLess
<1>5. \A q \in Room : SlotsIn(new, q) <= SlotsIn(records, q) BY <1>1, ReplaceSlots
<1> HIDE DEF new
<1>6. Coming' = new BY <1>1 DEF new
<1>7. /\ bytes(Coming') <= bytes(Coming)
      /\ \A p \in Peer : owner_bytes(Coming', p) <= owner_bytes(Coming, p)
      /\ \A q \in Room : SlotsIn(Coming', q) <= SlotsIn(Coming, q)
  <2> HIDE DEF Coming
  <2> QED BY <1>1, <1>3, <1>4, <1>5, <1>6
<1>8. Pledges' BY <1>1, <1>7, PledgesKept DEF IInv
<1> QED BY <1>1, <1>8, BeginRest

(* A new slot, or an imported generation: within what reserve would grant. *)
LEMMA BeginMore ==
    ASSUME IInv, IInv', QInv,
           NEW op, NEW at \in {"write", "publish"}, NEW k \in Key, NEW r, NEW n \in Nat,
           Begin(op, at, k, r, "none"), UNCHANGED task,
           r # NoRec, r.owner = NoOwner, SlotRoom(k),
           BytesOf(r) <= BytesOf(records[k]) + n,
           n = 0 \/ bytes(records) + reserved + n <= MaxTotal
    PROVE  QInv'
<1>1. /\ Pledges /\ Coming = records /\ records \in Recs
      /\ Coming' = [records EXCEPT ![k] = r]
      /\ UNCHANGED <<disk, durable, records, up, failed>>
  BY BeginComing
<1> DEFINE new == [records EXCEPT ![k] = r]
<1>2. SamePulls /\ SameReservers BY <1>1 DEF SamePulls, SameReservers, Reserving
<1>3. bytes(new) + Pledged <= MaxTotal
  <2>1. BytesOf(r) \in Nat /\ BytesOf(records[k]) \in Nat BY BytesNat
  <2>2. /\ bytes(records) \in Nat /\ bytes(new) \in Nat
        /\ bytes(new) + BytesOf(records[k]) = bytes(records) + BytesOf(r)
    BY <1>1, ReplaceBytes
  <2>3. bytes(records) + Pledged <= MaxTotal BY <1>1 DEF Pledges
  <2>4. reserved \in Nat /\ Pledged \in Nat /\ Pledged <= reserved BY PledgedReserved DEF IInv
  <2>5. MaxTotal \in Nat BY RepositoryAssumption
  <2> HIDE DEF new
  <2>6. bytes(new) <= bytes(records) + n BY <2>1, <2>2
  <2>7. CASE n = 0 BY <2>2, <2>3, <2>4, <2>5, <2>6, <2>7
  <2>8. CASE bytes(records) + reserved + n <= MaxTotal BY <2>2, <2>4, <2>5, <2>6, <2>8
  <2> QED BY <2>7, <2>8
<1>4. \A p \in Peer : owner_bytes(new, p) <= owner_bytes(records, p)
  <2> SUFFICES ASSUME NEW p \in Peer PROVE owner_bytes(new, p) <= owner_bytes(records, p) OBVIOUS
  <2>1. OwnedReplaced(records, k, r, p, new) BY <1>1, ReplaceOwned
  <2>2. OwnedBytes(r, p) = 0 BY RepositoryAssumption DEF OwnedBytes
  <2> HIDE DEF new
  <2> QED BY <2>1, <2>2 DEF OwnedReplaced
<1>5. \A q \in Room : SlotsIn(new, q) + Cardinality(NewSlots(q)) <= MaxSlots
  <2> SUFFICES ASSUME NEW q \in Room
               PROVE  SlotsIn(new, q) + Cardinality(NewSlots(q)) <= MaxSlots
    OBVIOUS
  <2>1. /\ SlotsIn(records, q) \in Nat /\ SlotsIn(new, q) \in Nat
        /\ SlotsIn(new, q) <= SlotsIn(records, q) + 1
        /\ records[k] # NoRec \/ k[1] # q => SlotsIn(new, q) <= SlotsIn(records, q)
    BY <1>1, ReplaceSlots
  <2>2. /\ Cardinality(NewSlots(q)) \in Nat
        /\ PendingIn(q) \in Nat /\ Cardinality(NewSlots(q)) <= PendingIn(q)
    BY NewSlotsPending
  <2>3. SlotsIn(records, q) + Cardinality(NewSlots(q)) <= MaxSlots BY <1>1 DEF Pledges
  <2>4. MaxSlots \in Nat BY RepositoryAssumption
  <2> HIDE DEF new
  <2>5. CASE records[k] # NoRec \/ k[1] # q BY <2>1, <2>2, <2>3, <2>4, <2>5
  <2>6. CASE records[k] = NoRec /\ k[1] = q
    <3>1. SlotsIn(records, q) + PendingIn(q) < MaxSlots BY <2>6 DEF SlotRoom
    <3> QED BY <2>1, <2>2, <2>4, <3>1
  <2> QED BY <2>5, <2>6
<1> HIDE DEF new
<1>6. Coming' = new BY <1>1 DEF new
<1>7. Pledged' = Pledged /\ \A q : NewSlots(q)' = NewSlots(q)
  BY <1>1 DEF Pledged, PledgedIn, PledgeOf, NewSlots
<1>8. Pledges'
  <2>1. bytes(Coming') + Pledged' <= MaxTotal BY <1>3, <1>6, <1>7
  <2>2. \A p \in Peer : owner_bytes(Coming', p) <= owner_bytes(Coming, p)
    BY <1>1, <1>4, <1>6
  <2>3. ASSUME NEW p \in Peer PROVE owner_bytes(Coming', p) <= ownerLimit[p]
    <3>1. owner_bytes(Coming, p) <= ownerLimit[p] BY <1>1 DEF Pledges
    <3>2. owner_bytes(Coming, p) \in Nat /\ owner_bytes(Coming', p) \in Nat /\ ownerLimit[p] \in Nat
      BY AccountsNat, RepositoryAssumption
    <3>3. owner_bytes(Coming', p) <= owner_bytes(Coming, p) BY <2>2
    <3> QED BY <3>1, <3>2, <3>3
  <2>4. \A t \in Task : OwnerPledge(t)'
    BY <1>1, <1>2, <2>2, OwnerPledgeKept DEF IInv, Pledges
  <2>5. \A q \in Room : SlotsIn(Coming', q) + Cardinality(NewSlots(q)') <= MaxSlots
    BY <1>5, <1>6, <1>7
  <2> QED BY <2>1, <2>3, <2>4, <2>5 DEF Pledges
<1> QED BY <1>1, <1>2, <1>8, BeginRest

(* Requests other than those that start a pull.                            *)
LEMMA RequestQuota ==
    ASSUME IInv, IInv', QInv, NEW k \in Key, NEW h \in Heads,
           \/ Import(k, h)
           \/ Delete(k, h)
           \/ \E home \in Home, del \in BOOLEAN : Learn(k, h, home, del)
           \/ MeshDelete(k)
           \/ DropHolding(k)
           \/ AdoptHome(k)
           \/ VerifyHolding(k)
           \/ RetireRoom(k)
    PROVE  QInv'
<1> DEFINE r == records[k]
<1>0. /\ TypeOK /\ RecordInv /\ r \in Rec \cup {NoRec} /\ RecOK(k, r) /\ NoRec \notin Rec
      /\ NoOwner \in Peer \cup {NoOwner}
  BY RepositoryAssumption DEF IInv, TypeOK, RecordInv
<1>1. SamePulls /\ SameReservers /\ task' = task
  <2>1. task' = task /\ records' = records
    BY DEF Import, Delete, Learn, MeshDelete, DropHolding, AdoptHome, VerifyHolding, RetireRoom
  <2> QED BY <2>1 DEF SamePulls, SameReservers, Reserving
<1>2. CASE Import(k, h)
  <2> DEFINE c == CommitRecord(k, h, NoOwner)
  <2>1. /\ c \in Rec /\ c # NoRec /\ \A g \in held_heads(c) \ {h} : g \in held_heads(r)
    BY <1>0, <1>2, CommitRecordOK DEF Import
  <2>2. c.owner = NoOwner BY DEF CommitRecord
  <2>3. Begin("commit", "write", k, c, "none") BY <1>2 DEF Import, Ready, Begin
  <2> HIDE DEF c
  <2>4. BytesOf(c) <= BytesOf(r) + size[h] BY <2>1, BytesMore
  <2>5. SlotRoom(k) /\ bytes(records) + reserved + size[h] <= MaxTotal /\ size[h] \in Nat
    BY <1>2, RepositoryAssumption DEF Import
  <2> QED BY <1>1, <2>1, <2>2, <2>3, <2>4, <2>5, BeginMore
<1>3. ASSUME NEW g \in HeadsFor(k), NEW home \in Home, NEW del \in BOOLEAN,
             LearnAccepts(k, g, del),
             Begin("meta", "publish", k, LearnRecord(k, g, home, del), "none")
      PROVE  QInv'
  <2> DEFINE c == LearnRecord(k, g, home, del)
  <2>1. c \in Rec /\ \A x \in held_heads(c) : x \in held_heads(r)
    BY <1>0, <1>3, LearnRecordOK
  <2>2. c.owner = NoOwner BY DEF LearnRecord
  <2>3. Begin("meta", "publish", k, c, "none") BY <1>3
  <2> HIDE DEF c
  <2>4. BytesOf(c) <= BytesOf(r) + 0
    <3>1. BytesOf(c) <= BytesOf(r) BY <2>1, BytesLess
    <3>2. BytesOf(r) \in Nat BY BytesNat
    <3> QED BY <3>1, <3>2
  <2>5. SlotRoom(k) BY <1>3 DEF LearnAccepts, SlotRoom
  <2>6. c # NoRec BY <1>0, <2>1
  <2>7. 0 \in Nat /\ "publish" \in {"write", "publish"} OBVIOUS
  <2> QED BY <1>1, <2>2, <2>3, <2>4, <2>5, <2>6, <2>7, BeginMore
<1>4. CASE \E home \in Home, del \in BOOLEAN : Learn(k, h, home, del)
  BY <1>3, <1>4 DEF Learn, Ready, Begin
<1>5. CASE MeshDelete(k)
  <2>1. r \in Rec /\ r.current \in HeadsFor(k) /\ r.home \in Home /\ LearnAccepts(k, r.current, TRUE)
    BY <1>0, <1>5 DEF MeshDelete, RecOK, HeadsFor, Rec
  <2>2. Begin("meta", "publish", k, LearnRecord(k, r.current, r.home, TRUE), "none")
    BY <1>5 DEF MeshDelete, Ready, Begin
  <2> QED BY <1>3, <2>1, <2>2
<1>6. ASSUME NEW op, NEW c, Begin(op, "publish", k, c, "none"), Less(c, r), c = NoRec \/ r # NoRec
      PROVE  QInv'
  <2>1. "publish" \in {"write", "publish"} OBVIOUS
  <2> QED BY <1>1, <1>6, <2>1, BeginLess
<1>7. held_heads(NoRec) = {} BY DEF held_heads
<1>8. CASE Delete(k, h)
  <2>1. Begin("unlink", "publish", k, NoRec, "none") BY <1>8 DEF Delete, Ready, Begin
  <2>2. Less(NoRec, r) BY <1>7 DEF Less
  <2> QED BY <1>6, <2>1, <2>2
<1>9. CASE RetireRoom(k)
  <2>1. Begin("retire", "publish", k, NoRec, "none") BY <1>9 DEF RetireRoom, Begin
  <2>2. Less(NoRec, r) BY <1>7 DEF Less
  <2> QED BY <1>6, <2>1, <2>2
<1>10. CASE DropHolding(k)
  <2> DEFINE c == [r EXCEPT !.held = FALSE, !.previous_held = FALSE]
  <2>1. r \in Rec BY <1>0, <1>10 DEF DropHolding, Live
  <2>2. c \in Rec /\ held_heads(c) = {} /\ c.owner = r.owner BY <1>0, <2>1 DEF Rec, held_heads
  <2>3. Begin("meta", "publish", k, c, "none") BY <1>10 DEF DropHolding, Ready, Begin
  <2> HIDE DEF c
  <2> QED BY <1>0, <1>6, <2>1, <2>2, <2>3 DEF Less
<1>11. CASE AdoptHome(k)
  <2> DEFINE c == [r EXCEPT !.home = "self"]
  <2>1. r \in Rec BY <1>0, <1>11 DEF AdoptHome, Live
  <2>2. held_heads(c) \subseteq held_heads(r) /\ c.owner = r.owner
    BY <1>0, <2>1 DEF Rec, Home, held_heads
  <2>3. Begin("meta", "publish", k, c, "none") BY <1>11 DEF AdoptHome, Ready, Begin
  <2> HIDE DEF c
  <2> QED BY <1>0, <1>6, <2>1, <2>2, <2>3 DEF Less
<1>12. CASE VerifyHolding(k)
  <2> DEFINE c == Repaired(k, r)
  <2>1. r \in Rec BY <1>0, <1>12 DEF VerifyHolding, Live
  <2>2. \A g \in held_heads(c) : g \in held_heads(r) BY <1>0, <2>1, RepairedOK
  <2>3. c.owner = r.owner BY <2>1 DEF Repaired, Rec
  <2>4. Begin("meta", "publish", k, c, "none") BY <1>12 DEF VerifyHolding, Ready, Begin
  <2> HIDE DEF c
  <2> QED BY <1>0, <1>6, <2>1, <2>2, <2>3, <2>4 DEF Less
<1> QED BY <1>2, <1>4, <1>5, <1>8, <1>9, <1>10, <1>11, <1>12

-----------------------------------------------------------------------------
(* Pulls.                                                                  *)

(* A pull starts: reserve has found room for it next to the others.        *)
LEMMA StartQuota ==
    ASSUME IInv, IInv', QInv, NEW t \in Task, NEW k \in Key, NEW h \in HeadsFor(k), NEW p \in Peer,
           NEW kind \in {"put", "pull"}, NEW n \in Nat,
           Ready(k), task[t] = Idle,
           reserve(k, h, IF kind = "put" THEN p ELSE NoOwner),
           kind = "put" => n = reserveSize[h] + Inherited(k, h, p),
           \A u \in Reserving : task[u].from # p,
           task' = [task EXCEPT ![t] = [pc |-> "pull", kind |-> kind, key |-> k,
                                        head |-> h, from |-> p, ownerAmount |-> n]],
           UNCHANGED <<disk, durable, gens, up, records, failed, cs, migrated, acked>>
    PROVE  QInv'
<1> DEFINE x == [pc |-> "pull", kind |-> kind, key |-> k,
                 head |-> h, from |-> p, ownerAmount |-> n]
<1>1. /\ task \in [Task -> TaskState] /\ task' \in [Task -> TaskState]
      /\ task'[t] = x /\ \A u \in Task : u # t => task'[u] = task[u]
  BY DEF IInv, TypeOK
<1>2. up /\ ~failed /\ cs = Free /\ Pledges BY DEF Ready, reserve, QInv
<1>3. Coming = records /\ Coming' = Coming BY <1>2 DEF Coming, Ahead, Free
<1>4. PledgeOf(task[t]) = 0 /\ PledgeOf(x) = reserveSize[h] /\ reserveSize[h] \in Nat
      /\ t \notin Reserving
  BY RepositoryAssumption DEF PledgeOf, Idle, HeadsFor, Reserving
<1>5. bytes(Coming') + Pledged' <= MaxTotal
  <2>1. bytes(records) + reserved + reserveSize[h] <= MaxTotal BY DEF reserve
  <2>2. reserved \in Nat /\ Pledged \in Nat /\ Pledged <= reserved BY PledgedReserved DEF IInv
  <2>3. Pledged' \in Nat /\ Pledged' + 0 = Pledged + reserveSize[h]
    <3>1. Pledged' \in Nat /\ Pledged' + PledgeOf(task[t]) = Pledged + PledgeOf(task'[t])
      BY <1>1, TaskPledge
    <3> HIDE DEF x
    <3> QED BY <1>1, <1>4, <3>1
  <2>4. bytes(records) \in Nat /\ MaxTotal \in Nat BY AccountsNat, RepositoryAssumption
  <2> QED BY <1>3, <1>4, <2>1, <2>2, <2>3, <2>4
<1>6. \A q \in Peer : owner_bytes(Coming', q) <= ownerLimit[q] BY <1>2, <1>3 DEF Pledges
<1>7. ASSUME NEW u \in Task PROVE OwnerPledge(u)'
  <2>1. CASE u # t
    <3>1. OwnerPledge(u) BY <1>2 DEF Pledges
    <3>2. Inherited(task[u].key, task[u].head, task[u].from)'
            = Inherited(task[u].key, task[u].head, task[u].from)
      BY <1>1, <2>1 DEF Inherited
    <3> QED BY <1>1, <1>3, <2>1, <3>1, <3>2 DEF OwnerPledge
  <2>2. CASE u = t
    <3> SUFFICES ASSUME kind = "put"
                 PROVE  /\ n = reserveSize[h] + Inherited(k, h, p)'
                        /\ owner_bytes(Coming', p) + n <= ownerLimit[p]
      BY <1>1, <2>2 DEF OwnerPledge
    <3>1. Inherited(k, h, p)' = Inherited(k, h, p) BY DEF Inherited
    <3>2. owner_bytes(records, p) + owner_reserved(p) + reserveSize[h] + Inherited(k, h, p)
            <= ownerLimit[p]
      BY RepositoryAssumption DEF reserve
    <3>3. owner_bytes(records, p) \in Nat /\ owner_reserved(p) \in Nat /\ ownerLimit[p] \in Nat
      BY AccountsNat, OwnerReservedNat, RepositoryAssumption DEF IInv
    <3>4. Inherited(k, h, p) \in Nat
      <4>1. records[k] \in Rec \cup {NoRec} BY DEF IInv, TypeOK
      <4> QED BY <4>1, RepositoryAssumption DEF Inherited, Live, Rec
    <3>5. owner_bytes(records, p) + n <= ownerLimit[p] BY <1>4, <3>2, <3>3, <3>4
    <3> QED BY <1>3, <3>1, <3>5
  <2> QED BY <2>1, <2>2
<1>8. ASSUME NEW q \in Room PROVE SlotsIn(Coming', q) + Cardinality(NewSlots(q)') <= MaxSlots
  <2>1. SlotsIn(records, q) + Cardinality(NewSlots(q)) <= MaxSlots BY <1>2, <1>3 DEF Pledges
  <2>2. /\ IsFiniteSet(NewSlots(q)) /\ Cardinality(NewSlots(q)) \in Nat
        /\ PendingIn(q) \in Nat /\ Cardinality(NewSlots(q)) <= PendingIn(q)
    BY NewSlotsPending
  <2>3. CASE records[k] # NoRec \/ k[1] # q
    <3>1. NewSlots(q)' = NewSlots(q)
      <4>1. task[t].pc # "pull" BY DEF Idle
      <4>2. ~(x.pc = "pull" /\ x.key[1] = q /\ records[x.key] = NoRec) BY <2>3
      <4> HIDE DEF x
      <4> QED BY <1>1, <4>1, <4>2 DEF NewSlots
    <3> QED BY <1>3, <2>1, <3>1
  <2>4. CASE records[k] = NoRec /\ k[1] = q
    <3>1. NewSlots(q)' \in SUBSET (NewSlots(q) \cup {t}) BY <1>1 DEF NewSlots
    <3>2. SlotsIn(records, q) + PendingIn(q) < MaxSlots BY <2>4 DEF reserve, SlotRoom
    <3> DEFINE S == NewSlots(q) \cup {t}
    <3>3. /\ IsFiniteSet(S) /\ Cardinality(S) \in Nat
          /\ Cardinality(S) <= Cardinality(NewSlots(q)) + 1
      <4>1. IsFiniteSet(S) /\ Cardinality(S) =
              IF t \in NewSlots(q) THEN Cardinality(NewSlots(q)) ELSE Cardinality(NewSlots(q)) + 1
        BY <2>2, FS_AddElement
      <4>2. Cardinality(S) \in Nat BY <4>1, FS_CardinalityType
      <4> HIDE DEF S
      <4> QED BY <2>2, <4>1, <4>2
    <3> HIDE DEF S
    <3>4. Cardinality(NewSlots(q)') \in Nat /\ Cardinality(NewSlots(q)') <= Cardinality(S)
      BY <3>1, <3>3, FS_Subset, FS_CardinalityType DEF S
    <3>5. SlotsIn(records, q) \in Nat /\ MaxSlots \in Nat BY AccountsNat, RepositoryAssumption
    <3>6. SlotsIn(records, q) + Cardinality(NewSlots(q)') <= MaxSlots
      BY <2>2, <3>2, <3>3, <3>4, <3>5
    <3> QED BY <1>3, <3>6
  <2> QED BY <2>3, <2>4
<1>9. Pledges' BY <1>5, <1>6, <1>7, <1>8 DEF Pledges
<1>10. OnePerPeer'
  <2>1. x.from = p OBVIOUS
  <2> HIDE DEF x
  <2> QED BY <1>1, <2>1 DEF QInv, OnePerPeer, Reserving
<1>11. Fits(disk)' /\ Fits(durable)'
  BY DEF QInv, Fits, bytes, owner_bytes, SlotsIn, OwnedBytes
<1> QED BY <1>9, <1>10, <1>11 DEF QInv

(* A committed record costs its owner the new generation, what the owner   *)
(* was charged for before and what it inherits.                            *)
LEMMA CommitOwned ==
    ASSUME TypeOK, RecordInv, NEW k \in Key, NEW h \in HeadsFor(k), NEW p \in Peer
    PROVE  /\ Inherited(k, h, p) \in Nat
           /\ BytesOf(CommitRecord(k, h, p))
                <= OwnedBytes(records[k], p) + size[h] + Inherited(k, h, p)
<1> DEFINE r == records[k]
           c == CommitRecord(k, h, p)
           Claim == BytesOf(c) <= OwnedBytes(r, p) + size[h] + Inherited(k, h, p)
<1>0. /\ r \in Rec \cup {NoRec} /\ h \in Heads /\ p # NoOwner /\ size[h] \in Nat
      /\ NoRec \notin Rec /\ NoHead \notin Heads
  BY RepositoryAssumption, HeadAssumption DEF TypeOK, HeadsFor
<1>1. \A g \in held_heads(c) \ {h} : g \in held_heads(r) BY CommitRecordOK
<1>2. Inherited(k, h, p) \in Nat BY <1>0, RepositoryAssumption DEF Inherited, Live, Rec
<1>3. BytesOf(c) \in Nat /\ BytesOf(r) \in Nat /\ OwnedBytes(r, p) \in Nat
  BY BytesNat DEF OwnedBytes
<1>4. c.current = h
  BY DEF CommitRecord
<1>5. Live(r) /\ r.current = h => c.previous = r.previous /\ c.previous_held = r.previous_held
  BY DEF CommitRecord
<1>6. Live(r) /\ r.current # h => (c.previous_held => r.held) /\ c.previous \in {r.current, NoHead}
  BY DEF CommitRecord
<1> HIDE DEF c, r
<1>7. ASSUME Live(r), r.owner = p PROVE Claim
  <2>1. BytesOf(c) <= BytesOf(r) + size[h] BY <1>0, <1>1, BytesMore
  <2>2. OwnedBytes(r, p) = BytesOf(r) BY <1>7 DEF OwnedBytes, Live
  <2> QED BY <1>0, <1>2, <1>3, <2>1, <2>2
<1>8. ASSUME held_heads(c) \subseteq {h} PROVE Claim
  <2>1. BytesOf(c) <= size[h] BY <1>0, <1>8, BytesOne
  <2> QED BY <1>0, <1>2, <1>3, <2>1
<1>9. ASSUME ~Live(r) PROVE Claim
  <2>1. held_heads(r) = {} BY <1>9 DEF held_heads, Live
  <2>2. held_heads(c) \subseteq {h} BY <1>1, <2>1
  <2> HIDE DEF Claim
  <2> QED BY <1>8, <2>2
<1>10. ASSUME NEW x \in Heads, held_heads(c) \subseteq {h, x}, Inherited(k, h, p) = size[x]
       PROVE  Claim
  <2>1. BytesOf(c) <= size[h] + size[x] BY <1>0, <1>10, BytesTwo
  <2>2. size[x] \in Nat BY RepositoryAssumption
  <2> QED BY <1>0, <1>2, <1>3, <1>10, <2>1, <2>2
<1> HIDE DEF Claim
<1>11. ASSUME Live(r), r.owner # p PROVE Claim
  <2>0. r \in Rec BY <1>0, <1>11 DEF Live
  <2>1. CASE r.current = h
    <3>1. c.previous = r.previous /\ c.previous_held = r.previous_held BY <1>5, <1>11, <2>1
    <3>2. CASE r.previous_held /\ r.previous # NoHead
      <4>1. r.previous \in Heads BY <2>0, <3>2 DEF Rec
      <4>2. held_heads(c) \subseteq {h, r.previous} BY <1>4, <3>1 DEF held_heads
      <4>3. Inherited(k, h, p) = size[r.previous] BY <1>0, <1>11, <2>1, <3>2 DEF Inherited, r
      <4> QED BY <1>10, <4>1, <4>2, <4>3
    <3>3. CASE ~(r.previous_held /\ r.previous # NoHead)
      <4>1. held_heads(c) \subseteq {h} BY <1>0, <1>4, <3>1, <3>3 DEF held_heads
      <4> QED BY <1>8, <4>1
    <3> QED BY <3>2, <3>3
  <2>2. CASE r.current # h
    <3>1. (c.previous_held => r.held) /\ c.previous \in {r.current, NoHead}
      BY <1>6, <1>11, <2>2
    <3>2. CASE r.held
      <4>1. r.current \in Heads BY <2>0 DEF Rec
      <4>2. held_heads(c) \subseteq {h, r.current} BY <1>0, <1>4, <3>1 DEF held_heads
      <4>3. Inherited(k, h, p) = size[r.current] BY <1>0, <1>11, <2>2, <3>2 DEF Inherited, r
      <4> QED BY <1>10, <4>1, <4>2, <4>3
    <3>3. CASE ~r.held
      <4>1. held_heads(c) \subseteq {h} BY <1>0, <1>4, <3>1, <3>3 DEF held_heads
      <4> QED BY <1>8, <4>1
    <3> QED BY <3>2, <3>3
  <2> QED BY <2>1, <2>2
<1>12. Claim BY <1>7, <1>9, <1>11
<1> QED BY <1>2, <1>12 DEF Claim, c, r

(* A commit trades the pledge of its pull for the record.                  *)
LEMMA CommitQuota ==
    ASSUME IInv, IInv', QInv, NEW t \in Task, Commit(t)
    PROVE  QInv'
<1> DEFINE K == task[t].key
           H == task[t].head
           owner == IF task[t].kind = "put" THEN task[t].from ELSE NoOwner
           c == CommitRecord(K, H, owner)
           new == [records EXCEPT ![K] = c]
<1>1. /\ task[t].pc = "pull"
      /\ Begin("commit", "write", K, c, t)
      /\ task' = [task EXCEPT ![t].pc = "commit"]
  BY DEF Commit, Begin
<1>2. task[t] # Idle BY <1>1 DEF Idle
<1>3. /\ TypeOK /\ RecordInv /\ K \in Key /\ H \in HeadsFor(K) /\ H \in Heads
      /\ owner \in Peer \cup {NoOwner} /\ task[t].from \in Peer
      /\ task \in [Task -> TaskState] /\ task' \in [Task -> TaskState]
  BY <1>1, <1>2 DEF IInv, TypeOK, TaskState, Idle, TaskInv, HeadsFor
<1>4. /\ c \in Rec /\ c # NoRec /\ \A g \in held_heads(c) \ {H} : g \in held_heads(records[K])
  BY <1>3, CommitRecordOK
<1>5. c.owner = owner BY DEF CommitRecord
<1>6. "write" \in {"write", "publish"} OBVIOUS
<1>7. /\ Pledges /\ Coming = records /\ records \in Recs /\ Coming' = new
      /\ UNCHANGED <<disk, durable, records, up, failed>>
  <2> HIDE DEF c, K
  <2>1. Begin("commit", "write", K, c, t) /\ K \in Key BY <1>1, <1>3
  <2> QED BY <1>6, <2>1, BeginComing DEF new
<1>8. task'[t].pc = "commit" /\ task'[t].from = task[t].from
      /\ \A u \in Task : u # t => task'[u] = task[u]
  BY <1>1, <1>3 DEF TaskState, Idle
<1>9. SamePulls /\ SameReservers
  BY <1>1, <1>7, <1>8 DEF SamePulls, SameReservers, Reserving
<1>10. bytes(new) + Pledged' <= MaxTotal
  <2>1. size[H] \in Nat /\ reserveSize[H] \in Nat /\ size[H] <= reserveSize[H] /\ MaxTotal \in Nat
    BY <1>3, RepositoryAssumption, ReserveAssumption
  <2>2. BytesOf(c) <= BytesOf(records[K]) + size[H] /\ BytesOf(c) \in Nat
        /\ BytesOf(records[K]) \in Nat
    BY <1>3, <1>4, BytesMore, BytesNat
  <2>3. /\ bytes(records) \in Nat /\ bytes(new) \in Nat
        /\ bytes(new) + BytesOf(records[K]) = bytes(records) + BytesOf(c)
    <3> HIDE DEF c, K
    <3> QED BY <1>3, <1>7, ReplaceBytes
  <2>4. PledgeOf(task[t]) = reserveSize[H] /\ PledgeOf(task'[t]) = 0
    BY <1>1, <1>8 DEF PledgeOf
  <2>5. /\ Pledged \in Nat /\ Pledged' \in Nat
        /\ Pledged' + PledgeOf(task[t]) = Pledged + PledgeOf(task'[t])
    BY <1>3, <1>8, TaskPledge
  <2>6. bytes(records) + Pledged <= MaxTotal BY <1>7 DEF Pledges
  <2> HIDE DEF new, c, K, H
  <2> QED BY <2>1, <2>2, <2>3, <2>4, <2>5, <2>6
<1>11. ASSUME NEW p \in Peer, p # owner PROVE owner_bytes(new, p) <= owner_bytes(records, p)
  <2>1. OwnedReplaced(records, K, c, p, new)
    <3> HIDE DEF c, K
    <3> QED BY <1>3, <1>7, ReplaceOwned
  <2>2. OwnedBytes(c, p) = 0 BY <1>5, <1>11 DEF OwnedBytes
  <2> HIDE DEF new, c, K
  <2> QED BY <2>1, <2>2 DEF OwnedReplaced
<1>12. ASSUME NEW p \in Peer PROVE owner_bytes(new, p) <= ownerLimit[p]
  <2>0. owner_bytes(records, p) <= ownerLimit[p] BY <1>7 DEF Pledges
  <2>1. owner_bytes(new, p) \in Nat /\ owner_bytes(records, p) \in Nat /\ ownerLimit[p] \in Nat
    BY AccountsNat, RepositoryAssumption
  <2>2. CASE p # owner
    <3>1. owner_bytes(new, p) <= owner_bytes(records, p) BY <1>11, <2>2
    <3> HIDE DEF new
    <3> QED BY <2>0, <2>1, <3>1
  <2>3. CASE p = owner
    <3>1. task[t].kind = "put" /\ p = task[t].from BY <2>3, RepositoryAssumption
    <3>2. /\ task[t].ownerAmount = reserveSize[H] + Inherited(K, H, p)
          /\ owner_bytes(records, p) + task[t].ownerAmount <= ownerLimit[p]
      BY <1>1, <1>7, <3>1 DEF Pledges, OwnerPledge
    <3>3. /\ Inherited(K, H, p) \in Nat
          /\ BytesOf(c) <= OwnedBytes(records[K], p) + size[H] + Inherited(K, H, p)
      BY <1>3, <2>3, CommitOwned
    <3>4. OwnedReplaced(records, K, c, p, new)
      <4> HIDE DEF c, K
      <4> QED BY <1>3, <1>7, ReplaceOwned
    <3>5. OwnedBytes(c, p) <= BytesOf(c) /\ BytesOf(c) \in Nat BY BytesNat DEF OwnedBytes
    <3>6. size[H] \in Nat /\ reserveSize[H] \in Nat /\ size[H] <= reserveSize[H]
      BY <1>3, RepositoryAssumption, ReserveAssumption
    <3> HIDE DEF new, c, K, H
    <3>7. OwnedBytes(c, p) \in Nat /\ OwnedBytes(records[K], p) \in Nat BY <3>4 DEF OwnedReplaced
    <3>8. owner_bytes(new, p) + OwnedBytes(records[K], p) = owner_bytes(records, p) + OwnedBytes(c, p)
      BY <3>4 DEF OwnedReplaced
    <3>9. owner_bytes(new, p) <= owner_bytes(records, p) + size[H] + Inherited(K, H, p)
      BY <2>1, <3>3, <3>5, <3>6, <3>7, <3>8
    <3> QED BY <2>1, <3>2, <3>3, <3>6, <3>9
  <2> QED BY <2>2, <2>3
<1>13. ASSUME NEW u \in Task PROVE OwnerPledge(u)'
  <2> SUFFICES ASSUME task'[u].pc = "pull", task'[u].kind = "put" PROVE OwnerPledge(u)'
    BY DEF OwnerPledge
  <2>1. u # t /\ task'[u] = task[u] /\ task[u].pc = "pull" /\ task[u].kind = "put" BY <1>8
  <2>2. task[u].from \in Peer /\ task[u].ownerAmount \in Nat
    BY <1>3, <2>1 DEF TaskState, Idle
  <2>3. task[u].from # owner
    <3>1. t \in Reserving /\ u \in Reserving BY <1>1, <2>1 DEF Reserving
    <3>2. task[u].from # task[t].from BY <2>1, <3>1 DEF QInv, OnePerPeer
    <3> QED BY <2>2, <3>2, RepositoryAssumption
  <2> DEFINE q == task[u].from
             n == task[u].ownerAmount
  <2>4. /\ n = reserveSize[task[u].head] + Inherited(task[u].key, task[u].head, q)
        /\ owner_bytes(records, q) + n <= ownerLimit[q]
    BY <1>7, <2>1 DEF Pledges, OwnerPledge
  <2>5. Inherited(task[u].key, task[u].head, q)' = Inherited(task[u].key, task[u].head, q)
    BY <1>7, <2>1 DEF Inherited
  <2>6. owner_bytes(new, q) + n <= ownerLimit[q]
    <3>1. owner_bytes(new, q) \in Nat /\ owner_bytes(records, q) \in Nat /\ ownerLimit[q] \in Nat
      BY <2>2, AccountsNat, RepositoryAssumption
    <3>2. owner_bytes(new, q) <= owner_bytes(records, q) BY <1>11, <2>2, <2>3
    <3>3. n \in Nat BY <2>2
    <3> HIDE DEF n, q, new
    <3> QED BY <2>4, <3>1, <3>2, <3>3
  <2> QED BY <1>7, <2>1, <2>4, <2>5, <2>6 DEF OwnerPledge
<1>14. ASSUME NEW q \in Room PROVE SlotsIn(new, q) + Cardinality(NewSlots(q)') <= MaxSlots
  <2>0. SlotsIn(records, q) + Cardinality(NewSlots(q)) <= MaxSlots /\ MaxSlots \in Nat
    BY <1>7, RepositoryAssumption DEF Pledges
  <2>1. /\ SlotsIn(records, q) \in Nat /\ SlotsIn(new, q) \in Nat
        /\ SlotsIn(new, q) <= SlotsIn(records, q) + 1
        /\ records[K] # NoRec \/ K[1] # q => SlotsIn(new, q) <= SlotsIn(records, q)
    <3> HIDE DEF c, K
    <3> QED BY <1>3, <1>7, ReplaceSlots
  <2>2. /\ Cardinality(NewSlots(q)') \in Nat /\ Cardinality(NewSlots(q)) \in Nat
        /\ Cardinality(NewSlots(q)') <= Cardinality(NewSlots(q))
    BY <1>9, SamePullsPledge DEF IInv
  <2>3. CASE records[K] # NoRec \/ K[1] # q
    <3>1. SlotsIn(new, q) <= SlotsIn(records, q) BY <2>1, <2>3
    <3> HIDE DEF new
    <3> QED BY <2>0, <2>1, <2>2, <3>1
  <2>4. CASE records[K] = NoRec /\ K[1] = q
    <3>1. t \in NewSlots(q) BY <1>1, <2>4 DEF NewSlots
    <3>2. NewSlots(q)' \in SUBSET (NewSlots(q) \ {t})
      BY <1>7, <1>8 DEF NewSlots
    <3>3. IsFiniteSet(NewSlots(q)) BY NewSlotsPending
    <3>4. IsFiniteSet(NewSlots(q) \ {t})
          /\ Cardinality(NewSlots(q) \ {t}) = Cardinality(NewSlots(q)) - 1
      BY <3>1, <3>3, FS_RemoveElement
    <3>5. Cardinality(NewSlots(q)') <= Cardinality(NewSlots(q) \ {t})
      BY <3>2, <3>4, FS_Subset
    <3> HIDE DEF new
    <3> QED BY <2>0, <2>1, <2>2, <3>4, <3>5
  <2> QED BY <2>3, <2>4
<1> HIDE DEF new
<1>15. Pledges' BY <1>7, <1>10, <1>12, <1>13, <1>14 DEF Pledges
<1> QED BY <1>7, <1>9, <1>15, BeginRest

(* The steps of a pull: it starts, fails, commits and takes its home.      *)
LEMMA TaskStepQuota ==
    ASSUME IInv, IInv', QInv, NEW t \in Task, NEW p \in Peer, NEW k \in Key, NEW h \in Heads,
           \/ PutReserve(t, p, k, h)
           \/ PutRetry(t, p, k, h)
           \/ MeshPull(t, p, k, h)
           \/ PullFailed(t)
           \/ Commit(t)
           \/ SetHomeAfterPut(t)
    PROVE  QInv'
<1>0. /\ TypeOK /\ task[t] \in TaskState /\ task \in [Task -> TaskState]
      /\ records[k] \in Rec \cup {NoRec} /\ RecOK(k, records[k]) /\ NoRec \notin Rec
  BY RepositoryAssumption DEF IInv, TypeOK, RecordInv
<1>1. CASE PutReserve(t, p, k, h)
  <2>1. /\ h \in HeadsFor(k) /\ Ready(k) /\ reserve(k, h, p) /\ task[t] = Idle
        /\ \A u \in Reserving : task[u].from # p
        /\ task' = [task EXCEPT ![t] =
             [pc |-> "pull", kind |-> "put", key |-> k, head |-> h, from |-> p,
              ownerAmount |-> reserveSize[h] + Inherited(k, h, p)]]
        /\ UNCHANGED <<disk, durable, gens, up, records, failed, cs, migrated, acked>>
    BY <1>1 DEF PutReserve
  <2>2. Inherited(k, h, p) \in Nat
    BY <1>0, RepositoryAssumption DEF Inherited, Live, Rec
  <2>3. reserveSize[h] + Inherited(k, h, p) \in Nat BY <2>2, RepositoryAssumption
  <2> DEFINE n == reserveSize[h] + Inherited(k, h, p)
  <2>4. n \in Nat /\ n = reserveSize[h] + Inherited(k, h, p) BY <2>3
  <2>5. task' = [task EXCEPT ![t] = [pc |-> "pull", kind |-> "put", key |-> k, head |-> h,
                                     from |-> p, ownerAmount |-> n]]
    BY <2>1
  <2> HIDE DEF n
  <2> QED BY <2>1, <2>4, <2>5, StartQuota
<1>2. CASE MeshPull(t, p, k, h)
  <2>1. /\ Ready(k) /\ reserve(k, h, NoOwner) /\ task[t] = Idle
        /\ \A u \in Reserving : task[u].from # p
        /\ task' = [task EXCEPT ![t] =
             [pc |-> "pull", kind |-> "pull", key |-> k, head |-> h,
              from |-> p, ownerAmount |-> 0]]
        /\ UNCHANGED <<disk, durable, gens, up, records, failed, cs, migrated, acked>>
    BY <1>2 DEF MeshPull
  <2>2. h \in HeadsFor(k)
    BY <1>0, <1>2, HeadAssumption DEF MeshPull, CurrentOf, Live, RecOK, HeadsFor
  <2> QED BY <2>1, <2>2, StartQuota
<1>3. CASE PutRetry(t, p, k, h)
  <2>0. Ready(k) /\ ~failed /\ task[t] = Idle /\ records[k] \in Rec
    BY <1>0, <1>3 DEF PutRetry, Retained, Live
  <2>1. CASE k[1] \in MeshRoom /\ records[k].current = h /\ records[k].home = "none"
    <3> DEFINE c == [records[k] EXCEPT !.home = "self"]
               x == [pc |-> "retry", kind |-> "put", key |-> k, head |-> h,
                     from |-> p, ownerAmount |-> 0]
    <3>1. /\ Enter("meta", "publish", k, c, t) /\ task' = [task EXCEPT ![t] = x]
          /\ UNCHANGED <<disk, durable, gens, up, records, failed, migrated, acked>>
      BY <1>3, <2>1 DEF PutRetry
    <3>2. Begin("meta", "publish", k, c, t) BY <2>0, <3>1 DEF Ready, Begin
    <3>3. held_heads(c) \subseteq held_heads(records[k]) /\ c.owner = records[k].owner
      BY <1>0, <2>0 DEF Rec, held_heads
    <3>4. /\ task'[t].pc = "retry" /\ records' = records
          /\ \A u \in Task : u # t => task'[u] = task[u]
      BY <1>0, <3>1
    <3>5. SamePulls /\ SameReservers BY <3>4 DEF SamePulls, SameReservers, Reserving
    <3> HIDE DEF c
    <3>6. Less(c, records[k]) /\ records[k] # NoRec BY <1>0, <2>0, <3>3 DEF Less
    <3>7. "publish" \in {"write", "publish"} OBVIOUS
    <3> QED BY <3>2, <3>5, <3>6, <3>7, BeginLess
  <2>2. CASE ~(k[1] \in MeshRoom /\ records[k].current = h /\ records[k].home = "none")
    <3>1. UNCHANGED <<disk, durable, gens, up, records, failed, cs, task, migrated>>
      BY <1>3, <2>2 DEF PutRetry
    <3>2. SamePulls /\ SameReservers /\ Coming' = Coming
      BY <3>1 DEF SamePulls, SameReservers, Reserving, Coming, Ahead
    <3> QED BY <3>1, <3>2, QuietQuota
  <2> QED BY <2>1, <2>2
<1>4. ASSUME Return(t), UNCHANGED <<disk, durable, up, records, failed, cs>> PROVE QInv'
  <2>1. task'[t] = Idle /\ \A u \in Task : u # t => task'[u] = task[u]
    BY <1>0, <1>4 DEF Return
  <2>2. SamePulls /\ SameReservers
    BY <1>4, <2>1 DEF SamePulls, SameReservers, Reserving, Idle
  <2>3. Coming' = Coming BY <1>4 DEF Coming, Ahead
  <2> QED BY <1>4, <2>2, <2>3, QuietQuota
<1>5. CASE PullFailed(t) BY <1>4, <1>5 DEF PullFailed
<1>6. CASE Commit(t) BY <1>6, CommitQuota
<1>7. CASE SetHomeAfterPut(t)
  <2> DEFINE K == task[t].key
             c == [records[K] EXCEPT !.home = "self"]
  <2>1. /\ up /\ cs = Free /\ task[t].pc = "home"
        /\ UNCHANGED <<disk, durable, gens, up, records, failed, migrated>>
    BY <1>7 DEF SetHomeAfterPut
  <2>2. task[t] # Idle /\ K \in Key /\ records[K] \in Rec
    BY <1>0, <2>1 DEF TaskState, Idle, IInv, TaskInv, TypeOK
  <2>3. \/ Return(t) /\ UNCHANGED cs
        \/ /\ ~failed /\ Enter("meta", "publish", K, c, t)
           /\ task' = [task EXCEPT ![t].pc = "homing"]
    BY <1>7 DEF SetHomeAfterPut
  <2>4. CASE Return(t) /\ UNCHANGED cs BY <1>4, <2>1, <2>4
  <2>5. CASE /\ ~failed /\ Enter("meta", "publish", K, c, t)
             /\ task' = [task EXCEPT ![t].pc = "homing"]
    <3>1. Begin("meta", "publish", K, c, t) BY <2>1, <2>5 DEF Begin
    <3>2. held_heads(c) \subseteq held_heads(records[K]) /\ c.owner = records[K].owner
      BY <1>0, <2>2 DEF Rec, held_heads
    <3>3. /\ task'[t].pc = "homing" /\ task'[t].from = task[t].from
          /\ \A u \in Task : u # t => task'[u] = task[u]
      BY <1>0, <2>2, <2>5 DEF TaskState, Idle
    <3>4. SamePulls /\ SameReservers
      BY <2>1, <3>3 DEF SamePulls, SameReservers, Reserving
    <3> HIDE DEF c, K
    <3>5. Less(c, records[K]) /\ records[K] # NoRec BY <1>0, <2>2, <3>2 DEF Less
    <3>6. "publish" \in {"write", "publish"} OBVIOUS
    <3> QED BY <2>2, <3>1, <3>4, <3>5, <3>6, BeginLess
  <2> QED BY <2>3, <2>4, <2>5
<1> QED BY <1>1, <1>2, <1>3, <1>5, <1>6, <1>7

-----------------------------------------------------------------------------
(* The end of a section, cleanup, crash and restart.                       *)

(* The end of a section, cleanup, migration and stuttering.                *)
LEMMA EndQuota ==
    ASSUME IInv, IInv', QInv,
           \/ \E k \in Key, h \in Heads, left \in {"none", "part"} : Cleanup(k, h, left)
           \/ Finish
           \/ IoError
           \/ \E r \in Room : Migrate(r)
           \/ \E k \in Key, h \in Heads : Rot(k, h)
           \/ OpenStart
           \/ OpenRefused
           \/ UNCHANGED vars
    PROVE  QInv'
<1>0. TypeOK /\ task \in [Task -> TaskState] BY DEF IInv, TypeOK
<1>1. UNCHANGED <<disk, durable, records, up>>
  BY DEF Cleanup, Finish, IoError, Migrate, Rot, OpenStart, OpenRefused, vars
<1>2. up' /\ ~failed' => up /\ ~failed /\ Coming' = Coming
  <2>1. CASE Finish
    BY <1>1, <2>1 DEF Finish, Coming, Ahead, Free
  <2>2. CASE IoError BY <2>2 DEF IoError
  <2>3. CASE OpenStart \/ OpenRefused
    <3>1. ~up
      BY <2>3, SectionShape DEF OpenStart, OpenRefused, IInv, SectionInv, Mutating, TypeOK, Section, Free
    <3> QED BY <1>1, <3>1
  <2>4. CASE \/ \E k \in Key, h \in Heads, left \in {"none", "part"} : Cleanup(k, h, left)
             \/ \E r \in Room : Migrate(r)
             \/ \E k \in Key, h \in Heads : Rot(k, h)
             \/ UNCHANGED vars
    BY <1>1, <2>4 DEF Cleanup, Migrate, Rot, vars, Coming, Ahead
  <2> QED BY <2>1, <2>2, <2>3, <2>4
<1>3. \/ UNCHANGED task
      \/ \E t \in Task : Return(t)
      \/ \E t \in Task : task[t].pc = "commit" /\ task' = [task EXCEPT ![t].pc = "home"]
  <2>1. CASE Finish \/ IoError
    <3>1. Mutating BY <2>1 DEF Finish, IoError
    <3>2. cs.by # "none" => cs.by \in Task BY <3>1, SectionShape DEF IInv
    <3> QED BY <2>1, <3>2 DEF Finish, IoError, Resume
  <2>2. CASE ~(Finish \/ IoError)
    BY <2>2 DEF Cleanup, Migrate, Rot, OpenStart, OpenRefused, vars
  <2> QED BY <2>1, <2>2
<1>4. SamePulls /\ SameReservers
  <2>1. CASE UNCHANGED task BY <1>1, <2>1 DEF SamePulls, SameReservers, Reserving
  <2>2. CASE \E t \in Task : Return(t)
    <3>1. PICK t \in Task : Return(t) BY <2>2
    <3>2. task'[t] = Idle /\ \A u \in Task : u # t => task'[u] = task[u]
      BY <1>0, <3>1 DEF Return
    <3> QED BY <1>1, <3>2 DEF SamePulls, SameReservers, Reserving, Idle
  <2>3. CASE \E t \in Task : task[t].pc = "commit" /\ task' = [task EXCEPT ![t].pc = "home"]
    <3>1. PICK t \in Task : task[t].pc = "commit" /\ task' = [task EXCEPT ![t].pc = "home"]
      BY <2>3
    <3>2. /\ task'[t].pc = "home" /\ task'[t].from = task[t].from
          /\ \A u \in Task : u # t => task'[u] = task[u]
      BY <1>0, <3>1 DEF TaskState, Idle
    <3> QED BY <1>1, <3>1, <3>2 DEF SamePulls, SameReservers, Reserving
  <2> QED BY <1>3, <2>1, <2>2, <2>3
<1> QED BY <1>1, <1>2, <1>4, QuietQuota

(* A crash leaves one of two fitting sets of files and no pull; repair     *)
(* takes away; open loads what fits.                                       *)
LEMMA RestartQuota ==
    ASSUME IInv, IInv', QInv,
           Crash \/ (\E k \in Key : OpenRepair(k)) \/ OpenLoad \/ OpenDone
    PROVE  QInv'
<1>0. TypeOK /\ task \in [Task -> TaskState] BY DEF IInv, TypeOK
<1>1. CASE Crash
  <2>1. /\ up' = FALSE /\ task' = [t \in Task |-> Idle]
        /\ disk' \in {disk, durable} /\ durable' = disk'
    BY <1>1 DEF Crash
  <2>2. Fits(disk)' /\ Fits(durable)'
    BY <2>1 DEF QInv, Fits, bytes, owner_bytes, SlotsIn, OwnedBytes
  <2>3. OnePerPeer' BY <2>1 DEF OnePerPeer, Reserving, Idle
  <2> QED BY <2>1, <2>2, <2>3 DEF QInv
<1>3. CASE \E k \in Key : OpenRepair(k)
  <2>1. PICK k \in Key : OpenRepair(k) BY <1>3
  <2>2. /\ cs.at = "load" /\ Corrupt(k, disk[k]) # {}
        /\ disk' = [disk EXCEPT ![k] = Repaired(k, disk[k])] /\ durable' = disk'
        /\ up' = up /\ task' = task
    BY <2>1 DEF OpenRepair
  <2>3. ~up
    BY <2>2, SectionShape DEF IInv, SectionInv, TypeOK, Section, Free, Mutating
  <2>4. disk[k] \in Rec /\ RecOK(k, disk[k]) /\ disk \in Recs
    BY <2>2 DEF Corrupt, held_heads, IInv, TypeOK, RecordInv, Recs
  <2> DEFINE c == Repaired(k, disk[k])
             new == [disk EXCEPT ![k] = c]
  <2>5. (\A g \in held_heads(c) : g \in held_heads(disk[k])) /\ c.owner = disk[k].owner
    <3>1. c.owner = disk[k].owner BY <2>4 DEF Repaired, Rec
    <3> QED BY <2>4, <3>1, RepairedOK
  <2>6. disk[k] # NoRec BY <2>4, RepositoryAssumption
  <2> HIDE DEF c
  <2>7. Less(c, disk[k]) BY <2>5, <2>6 DEF Less
  <2>8. bytes(new) <= MaxTotal
    <3>1. BytesOf(c) <= BytesOf(disk[k]) /\ BytesOf(c) \in Nat /\ BytesOf(disk[k]) \in Nat
      BY <2>5, BytesLess, BytesNat
    <3>2. /\ bytes(disk) \in Nat /\ bytes(new) \in Nat
          /\ bytes(new) + BytesOf(disk[k]) = bytes(disk) + BytesOf(c)
      BY <2>4, ReplaceBytes
    <3>3. bytes(disk) <= MaxTotal /\ MaxTotal \in Nat BY RepositoryAssumption DEF QInv, Fits
    <3> HIDE DEF new
    <3> QED BY <3>1, <3>2, <3>3
  <2>9. ASSUME NEW p \in Peer PROVE owner_bytes(new, p) <= ownerLimit[p]
    <3>1. owner_bytes(new, p) <= owner_bytes(disk, p) BY <2>4, <2>7, LessTakesLess
    <3>2. owner_bytes(disk, p) <= ownerLimit[p] BY DEF QInv, Fits
    <3>3. owner_bytes(new, p) \in Nat /\ owner_bytes(disk, p) \in Nat /\ ownerLimit[p] \in Nat
      BY AccountsNat, RepositoryAssumption
    <3> HIDE DEF new
    <3> QED BY <3>1, <3>2, <3>3
  <2>10. ASSUME NEW q \in Room PROVE SlotsIn(new, q) <= MaxSlots
    <3>1. SlotsIn(new, q) <= SlotsIn(disk, q) BY <2>4, <2>6, ReplaceSlots
    <3>2. SlotsIn(disk, q) <= MaxSlots BY DEF QInv, Fits
    <3>3. SlotsIn(new, q) \in Nat /\ SlotsIn(disk, q) \in Nat /\ MaxSlots \in Nat
      BY AccountsNat, RepositoryAssumption
    <3> HIDE DEF new
    <3> QED BY <3>1, <3>2, <3>3
  <2>11. disk' = new /\ durable' = new BY <2>2 DEF c
  <2> HIDE DEF new
  <2>12. Fits(disk)' /\ Fits(durable)' BY <2>8, <2>9, <2>10, <2>11 DEF Fits
  <2>13. OnePerPeer' BY <2>2 DEF QInv, OnePerPeer, Reserving
  <2> QED BY <2>2, <2>3, <2>12, <2>13 DEF QInv
<1>4. CASE OpenLoad
  <2>1. UNCHANGED <<disk, durable, up, task>> /\ cs.at = "load" BY <1>4 DEF OpenLoad
  <2>2. ~up
    BY <2>1, SectionShape DEF IInv, SectionInv, TypeOK, Section, Free, Mutating
  <2>3. Fits(disk)' /\ Fits(durable)'
    BY <2>1 DEF QInv, Fits, bytes, owner_bytes, SlotsIn, OwnedBytes
  <2>4. OnePerPeer' BY <2>1 DEF QInv, OnePerPeer, Reserving
  <2> QED BY <2>1, <2>2, <2>3, <2>4 DEF QInv
<1>5. CASE OpenDone
  <2>1. /\ cs = [op |-> "open", at |-> "cleanup"] /\ cs' = Free
        /\ UNCHANGED <<disk, durable, records, failed, task>>
    BY <1>5 DEF OpenDone
  <2>2. ~up /\ records = disk BY <2>1 DEF IInv, SectionInv, Synced
  <2>3. \A t \in Task : task'[t] = Idle BY <2>1, <2>2 DEF IInv, TaskInv
  <2>4. Coming' = disk BY <2>1, <2>2 DEF Coming, Ahead, Free
  <2>5. Pledged' = 0
    <3> DEFINE f == [t \in Task |-> PledgeOf(task'[t])]
    <3>1. \A t \in Task : f[t] = 0 BY <2>3 DEF PledgeOf, Idle
    <3>2. Pledged' = SumFunctionOnSet(f, Task) BY DEF Pledged, PledgedIn, SumFunction
    <3> HIDE DEF f
    <3>3. SumFunctionOnSet(f, Task) = 0
      <4>1. \A t \in Task : f[t] \in Nat BY <3>1
      <4> QED BY <3>1, <4>1, FiniteAssumption, SumZero
    <3> QED BY <3>2, <3>3
  <2>6. \A q : NewSlots(q)' = {} BY <2>3 DEF NewSlots, Idle
  <2>7. Fits(disk) BY DEF QInv
  <2>8. Pledges'
    <3>1. bytes(Coming') + Pledged' <= MaxTotal
      <4>1. bytes(disk) \in Nat BY AccountsNat
      <4> QED BY <2>4, <2>5, <2>7, <4>1 DEF Fits
    <3>2. \A p \in Peer : owner_bytes(Coming', p) <= ownerLimit[p] BY <2>4, <2>7 DEF Fits
    <3>3. \A t \in Task : OwnerPledge(t)' BY <2>3 DEF OwnerPledge, Idle
    <3>4. ASSUME NEW q \in Room PROVE SlotsIn(Coming', q) + Cardinality(NewSlots(q)') <= MaxSlots
      <4>1. SlotsIn(disk, q) \in Nat /\ SlotsIn(disk, q) <= MaxSlots
        BY <2>7, AccountsNat DEF Fits
      <4>2. Cardinality(NewSlots(q)') = 0 BY <2>6, FS_EmptySet
      <4> QED BY <2>4, <4>1, <4>2
    <3> QED BY <3>1, <3>2, <3>3, <3>4 DEF Pledges
  <2>9. SameReservers BY <2>1 DEF SameReservers, Reserving
  <2> QED BY <2>1, <2>8, <2>9, BeginRest
<1> QED BY <1>1, <1>3, <1>4, <1>5

(* An empty store fits.                                                    *)
LEMMA InitQuota == Init => QInv
<1> SUFFICES ASSUME Init PROVE QInv OBVIOUS
<1>1. \A k \in Key : disk[k] = NoRec /\ durable[k] = NoRec BY DEF Init, NoRecords
<1>2. held_heads(NoRec) = {} BY DEF held_heads
<1>3. BytesOf(NoRec) = 0 BY <1>2, BytesNone
<1>4. ASSUME NEW recs, \A k \in Key : recs[k] = NoRec PROVE Fits(recs)
  <2>1. bytes(recs) = 0
    <3> DEFINE f == [k \in Key |-> BytesOf(recs[k])]
    <3>1. \A k \in Key : f[k] = 0 BY <1>3, <1>4
    <3>2. bytes(recs) = SumFunctionOnSet(f, Key) BY DEF bytes, SumFunction
    <3> HIDE DEF f
    <3> QED BY <3>1, <3>2, KeyFinite, SumZero
  <2>2. \A p : owner_bytes(recs, p) = 0
    <3> SUFFICES ASSUME NEW p PROVE owner_bytes(recs, p) = 0 OBVIOUS
    <3> DEFINE f == [k \in Key |-> OwnedBytes(recs[k], p)]
    <3>1. \A k \in Key : f[k] = 0 BY <1>4 DEF OwnedBytes
    <3>2. owner_bytes(recs, p) = SumFunctionOnSet(f, Key) BY DEF owner_bytes, SumFunction
    <3> HIDE DEF f
    <3> QED BY <3>1, <3>2, KeyFinite, SumZero
  <2>3. \A q : SlotsIn(recs, q) = 0
    <3> SUFFICES ASSUME NEW q PROVE SlotsIn(recs, q) = 0 OBVIOUS
    <3>1. {k \in Key : k[1] = q /\ recs[k] # NoRec} = {} BY <1>4
    <3> QED BY <3>1, FS_EmptySet DEF SlotsIn
  <2> QED BY <2>1, <2>2, <2>3, RepositoryAssumption DEF Fits
<1>5. Fits(disk) /\ Fits(durable) BY <1>1, <1>4
<1>6. OnePerPeer /\ up = FALSE BY DEF Init, OnePerPeer, Reserving, Idle
<1> QED BY <1>5, <1>6 DEF QInv

(* The invariant is inductive.                                             *)
LEMMA StepQuota == IInv /\ QInv /\ [Next]_vars => QInv'
<1> SUFFICES ASSUME IInv, QInv, [Next]_vars PROVE QInv' OBVIOUS
<1>0. IInv' BY StepOK
<1>1. CASE Request
  <2>1. ASSUME NEW k \in Key,
               \/ MeshDelete(k) \/ DropHolding(k) \/ AdoptHome(k)
               \/ VerifyHolding(k) \/ RetireRoom(k)
        PROVE  QInv'
    <3>1. records[k].current \in Heads
      BY <2>1 DEF MeshDelete, DropHolding, AdoptHome, VerifyHolding, RetireRoom, Live,
                  IInv, TypeOK, Rec
    <3> QED BY <1>0, <2>1, <3>1, RequestQuota
  <2>2. ASSUME NEW k \in Key, NEW h \in Heads,
               \/ Import(k, h) \/ Delete(k, h)
               \/ \E home \in Home, del \in BOOLEAN : Learn(k, h, home, del)
        PROVE  QInv'
    BY <1>0, <2>2, RequestQuota
  <2>3. ASSUME NEW t \in Task, NEW p \in Peer, NEW k \in Key, NEW h \in Heads,
               PutReserve(t, p, k, h) \/ PutRetry(t, p, k, h) \/ MeshPull(t, p, k, h)
        PROVE  QInv'
    BY <1>0, <2>3, TaskStepQuota
  <2> QED BY <1>1, <2>1, <2>2, <2>3 DEF Request
<1>2. CASE TaskStep
  <2>1. PICK t \in Task : PullFailed(t) \/ Commit(t) \/ SetHomeAfterPut(t)
    BY <1>2 DEF TaskStep
  <2>2. task[t] \in TaskState /\ task[t] # Idle
    BY <2>1 DEF PullFailed, Commit, SetHomeAfterPut, Idle, IInv, TypeOK
  <2>3. task[t].from \in Peer /\ task[t].key \in Key /\ task[t].head \in Heads
    BY <2>2 DEF TaskState
  <2> QED BY <1>0, <2>1, <2>3, TaskStepQuota
<1>3. CASE SectionStep
  BY <1>0, <1>3, SectionQuota, EndQuota DEF SectionStep
<1>4. CASE Restart
  BY <1>0, <1>4, RestartQuota, EndQuota DEF Restart
<1>5. CASE Environment
  BY <1>0, <1>5, RestartQuota, EndQuota DEF Environment
<1>6. CASE UNCHANGED vars
  BY <1>0, <1>6, EndQuota
<1> QED BY <1>1, <1>2, <1>3, <1>4, <1>5, <1>6 DEF Next

(* The byte quota of the store, the byte limit of every peer and the slot  *)
(* limit of every room hold for every set of rooms, slots, peers and       *)
(* requests in flight, at every point of every operation and after every   *)
(* crash: reserve's charges cover what commit publishes later.             *)
THEOREM QuotasHold == Spec => []QuotasRespected
<1>1. QInv => QuotasRespected
  BY FitsNoted
<1> QED BY <1>1, InitOK, StepOK, InitQuota, StepQuota, PTL DEF Spec
=============================================================================
