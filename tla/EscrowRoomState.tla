---------------------------- MODULE EscrowRoomState ----------------------------
(***************************************************************************)
(* The deterministic state machine of a replicated escrow room             *)
(* (src/src/escrow/replication/state.rs).  A room state gives each slot    *)
(* its visible head, the predecessor retained for retries, and the head    *)
(* hidden by a tombstone.  A command's ticket is left out: it is fresh for *)
(* every proposal and only pairs a log entry with the request waiting for  *)
(* it.  The snapshot metadata budget and the migration commands are left   *)
(* out.                                                                    *)
(***************************************************************************)
EXTENDS EscrowHeads, SequencesExt

SlotState == [head : Heads \cup {NoHead}, previous : Heads \cup {NoHead},
              deleted : Heads \cup {NoHead}]

State == [Slot -> SlotState]

EmptySlot == [head |-> NoHead, previous |-> NoHead, deleted |-> NoHead]

EmptyState == [s \in Slot |-> EmptySlot]

Barrier == [op |-> "barrier", head |-> NoHead]

(* A Get is a request, never a log entry: only its barrier is logged.      *)
Writes == [op : {"put", "delete"}, head : Heads]

Command == Writes \cup {Barrier}

(* mod.rs command_heads: the generations that a command refers to.         *)
command_heads(c) == IF c.op = "put" THEN {c.head} ELSE {}

(* State::retained_heads: tombstones do not retain a generation.           *)
retained_heads(st) ==
    (UNION { {st[s].head, st[s].previous} : s \in Slot }) \ {NoHead}

SlotsUsed(st) ==
    Cardinality({ s \in Slot : st[s].head # NoHead \/ st[s].deleted # NoHead })

Result(st, reply) == [state |-> st, reply |-> reply]

(* State::put.                                                             *)
put(st, h, maxSlots) ==
    LET s == slotOf[h]
        c == st[s]
        cas == check_cas(h, c.head)
    IN  CASE c.deleted # NoHead ->
               IF successor(h, c.deleted)
               THEN Result([st EXCEPT ![s] = [EmptySlot EXCEPT !.head = h]], "ack")
               ELSE Result(st, "error")
          [] c.deleted = NoHead /\ c.previous = h -> Result(st, "ack")
          [] c.deleted = NoHead /\ c.previous # h /\ cas = "retry" -> Result(st, "ack")
          [] OTHER ->
               IF cas # "ok" \/ (c.head = NoHead /\ SlotsUsed(st) >= maxSlots)
               THEN Result(st, "error")
               ELSE Result([st EXCEPT ![s] = [EmptySlot EXCEPT !.head = h,
                                                               !.previous = c.head]],
                           "ack")

(* State::delete.                                                          *)
delete(st, h) ==
    LET s == slotOf[h]
        c == st[s]
        current == IF c.head # NoHead THEN c.head ELSE c.deleted
    IN  CASE current = NoHead -> Result(st, "ack")
          [] current # NoHead /\ current # h -> Result(st, "error")
          [] OTHER -> Result([st EXCEPT ![s] = [EmptySlot EXCEPT !.deleted = h]],
                             "ack")

(* State::apply.                                                           *)
apply(st, c, maxSlots) ==
    CASE c.op = "put" -> put(st, c.head, maxSlots)
      [] c.op = "delete" -> delete(st, c.head)
      [] OTHER -> Result(st, "ready")

(* Applying every log entry reads mod.rs APPLY_SLOTS, which no room in the *)
(* model can reach.                                                        *)
ApplySlots == Cardinality(Slot) + 1

Replay(st, entries) ==
    LET after[i \in 0 .. Len(entries)] ==
            IF i = 0 THEN st ELSE apply(after[i - 1], entries[i].cmd, ApplySlots).state
    IN  after[Len(entries)]

=============================================================================
