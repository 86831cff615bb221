----------------------------- MODULE TunnelGraph -----------------------------
(* The tunnel's graph editor (src/src/tunnel/graph.rs, switch_room of        *)
(* session.rs, the graph part of rtc/event.rs): a node's owner, and peers it *)
(* granted permissions to, edit its policy and its forwards.  A peer's       *)
(* command waits in an inbox for the next tick and is answered; the mutation *)
(* lock makes each edit one step.  Each room has its own saved state.        *)
EXTENDS Naturals, Sequences, FiniteSets, SequencesExt

CONSTANTS
    GraphRoom,       \* rooms
    GraphTarget,     \* forwards that may be added
    GraphCmd,        \* ids of the peer's commands
    InboxCap,        \* the 256 of GraphState.receive
    MaxGraphEvents   \* bound on the owner's edits, room changes, restarts, faults

ASSUME GraphAssumption ==
    /\ InboxCap \in Nat \ {0} /\ MaxGraphEvents \in Nat /\ GraphRoom # {}

VARIABLES
    gRoom,      \* the owner's room, and whether the session is suspended
    saved,      \* GraphState.saved
    graphFile,       \* the file of each room
    gRunning,   \* graph-managed forwards of the controller
    inbox,      \* GraphState.inbox
    cmd,        \* the peer's commands: "new", then its graph_command
    wire,       \* graph messages in flight, with the room they were sent in
    done,       \* commands the owner has applied
    graphEvents

graphVars == <<gRoom, saved, graphFile, gRunning, inbox, cmd, wire, done, graphEvents>>

GraphAction == [a : {"add", "remove"}, target : GraphTarget]
Saved == [locked : BOOLEAN, granted : BOOLEAN, forwards : SUBSET GraphTarget]
DefaultSaved == [locked |-> FALSE, granted |-> FALSE, forwards |-> {}]
NewCmd == [at |-> "new"]

(* Types of the state: saved policies and forwards, commands and the inbox.  *)
GraphTypeOK ==
    /\ gRoom \in [name : GraphRoom, suspended : BOOLEAN]
    /\ saved \in Saved /\ graphFile \in [GraphRoom -> Saved]
    /\ gRunning \subseteq GraphTarget
    /\ inbox \in Seq([id : GraphCmd, act : GraphAction]) /\ Len(inbox) <= InboxCap
    /\ \A c \in GraphCmd : cmd[c] = NewCmd \/
          (/\ cmd[c].at \in {"waiting", "confirmed", "refused", "unknown"}
           /\ cmd[c].act \in GraphAction)
    /\ \A m \in wire : m.room \in GraphRoom /\ m.id \in GraphCmd
    /\ done \subseteq GraphCmd
    /\ graphEvents \in 0..MaxGraphEvents

GraphInit ==
    /\ \E r \in GraphRoom : gRoom = [name |-> r, suspended |-> FALSE]
    /\ graphFile = [r \in GraphRoom |-> DefaultSaved] /\ saved = DefaultSaved
    /\ gRunning = {} /\ inbox = <<>> /\ wire = {} /\ done = {}
    /\ cmd = [c \in GraphCmd |-> NewCmd]
    /\ graphEvents = 0

GraphEvent == graphEvents < MaxGraphEvents /\ graphEvents' = graphEvents + 1

(* persist: the file, then memory.                                           *)
GraphPersist(next) ==
    /\ graphFile' = [graphFile EXCEPT ![gRoom.name] = next]
    /\ saved' = next

(* Policy.authorize for a peer that is not the owner.                        *)
MayEdit(policy) == ~policy.locked /\ policy.granted

(* What graph_apply makes of an edit: the saved state it writes and the       *)
(* forwards that run, or nothing when the edit does not apply.               *)
Applies(act, policy) == IF act.a = "remove" THEN act.target \in policy.forwards
                        ELSE act.target \notin gRunning
Edited(act, policy) ==
    [policy EXCEPT !.forwards = IF act.a = "add" THEN @ \cup {act.target}
                                ELSE @ \ {act.target}]

(* graph_apply: an added forward is started before it is saved and stopped   *)
(* again when saving fails; a removed one is unsaved before it is stopped.   *)
GraphApply(act) ==
    /\ GraphPersist(Edited(act, saved))
    /\ gRunning' = IF act.a = "add" THEN gRunning \cup {act.target}
                   ELSE gRunning \ {act.target}

GraphApplyFails(act) ==
    /\ graphFile' \in {graphFile, [graphFile EXCEPT ![gRoom.name] = Edited(act, saved)]}
    /\ UNCHANGED <<saved, gRunning>>

(* graph_command of the owner itself: an edit of the forwards, the lock or a  *)
(* permission.  A failed write undoes the edit, though the file may already   *)
(* have been replaced.                                                       *)
OwnerEdits(act) ==
    /\ GraphEvent /\ ~gRoom.suspended
    /\ Applies(act, saved)
    /\ GraphApply(act) \/ GraphApplyFails(act)
    /\ UNCHANGED <<gRoom, inbox, cmd, wire, done>>

OwnerSetsPolicy(locked, granted) ==
    /\ GraphEvent /\ ~gRoom.suspended
    /\ GraphPersist([saved EXCEPT !.locked = locked, !.granted = granted])
    /\ UNCHANGED <<gRoom, gRunning, inbox, cmd, wire, done>>

(* graph_command for another node: a waiter is registered under a fresh id    *)
(* and the command sent.                                                     *)
PeerCommands(c, act) ==
    /\ cmd[c] = NewCmd
    /\ cmd' = [cmd EXCEPT ![c] = [at |-> "waiting", act |-> act]]
    /\ wire' = wire \cup {[room |-> gRoom.name, id |-> c, body |-> [t |-> "command", act |-> act]]}
    /\ UNCHANGED <<gRoom, saved, graphFile, gRunning, inbox, done, graphEvents>>

(* handle_payload and receive: a message of another room, or one that comes   *)
(* while the session is suspended, is dropped; so is a command to a full      *)
(* inbox.                                                                    *)
ReceiveCommand(m) ==
    /\ m \in wire /\ m.body.t = "command"
    /\ wire' = wire \ {m}
    /\ inbox' = IF m.room = gRoom.name /\ ~gRoom.suspended /\ Len(inbox) < InboxCap
                THEN Append(inbox, [id |-> m.id, act |-> m.body.act]) ELSE inbox
    /\ UNCHANGED <<gRoom, saved, graphFile, gRunning, cmd, done, graphEvents>>

(* graph_tick: the next queued command is authorized against the policy of    *)
(* now, applied and answered with its error, if any; the command of a peer    *)
(* that is no longer connected is skipped.                                   *)
GraphTick ==
    /\ inbox # <<>> /\ ~gRoom.suspended
    /\ inbox' = Tail(inbox)
    /\ LET c == inbox[1]
           reply(ok) == wire' = wire \cup {[room |-> gRoom.name, id |-> c.id,
                                            body |-> [t |-> "reply", ok |-> ok]]}
       IN  \/ /\ MayEdit(saved) /\ Applies(c.act, saved)
              /\ GraphApply(c.act) /\ reply(TRUE)
              /\ done' = done \cup {c.id} /\ UNCHANGED graphEvents
           \/ /\ MayEdit(saved) /\ Applies(c.act, saved) /\ GraphEvent
              /\ GraphApplyFails(c.act) /\ reply(FALSE) /\ UNCHANGED done
           \/ /\ ~(MayEdit(saved) /\ Applies(c.act, saved))
              /\ reply(FALSE) /\ UNCHANGED <<saved, graphFile, gRunning, done, graphEvents>>
           \/ UNCHANGED <<wire, saved, graphFile, gRunning, done, graphEvents>>
    /\ UNCHANGED <<gRoom, cmd>>

(* A reply completes the waiter registered under its id.                     *)
ReceiveReply(m) ==
    /\ m \in wire /\ m.body.t = "reply"
    /\ wire' = wire \ {m}
    /\ cmd' = IF cmd[m.id].at = "waiting"
              THEN [cmd EXCEPT ![m.id].at = IF m.body.ok THEN "confirmed" ELSE "refused"]
              ELSE cmd
    /\ UNCHANGED <<gRoom, saved, graphFile, gRunning, inbox, done, graphEvents>>

(* Ten seconds, a lost message, the owner leaving: the outcome is unknown.   *)
CommandTimesOut(c) ==
    /\ cmd[c].at = "waiting"
    /\ cmd' = [cmd EXCEPT ![c].at = "unknown"]
    /\ UNCHANGED <<gRoom, saved, graphFile, gRunning, inbox, wire, done, graphEvents>>

(* switch_room, first half: the room's forwards are stopped while messages    *)
(* are refused.                                                              *)
SwitchRoomStarts(r) ==
    /\ GraphEvent /\ ~gRoom.suspended /\ r # gRoom.name
    /\ gRoom' = [gRoom EXCEPT !.suspended = TRUE]
    /\ gRunning' = {}
    /\ UNCHANGED <<saved, graphFile, inbox, cmd, wire, done>>

(* Mutant: a switch that fails leaves the forwards stopped.                  *)
SwitchRoomEndsStopped(r) ==
    /\ gRoom.suspended /\ r # gRoom.name
    /\ \/ /\ gRoom' = [name |-> r, suspended |-> FALSE]
          /\ saved' = graphFile[r] /\ inbox' = <<>>
          /\ gRunning' = graphFile[r].forwards
       \/ /\ gRoom' = [gRoom EXCEPT !.suspended = FALSE]
          /\ UNCHANGED <<saved, inbox, gRunning>>
    /\ UNCHANGED <<graphFile, cmd, wire, done, graphEvents>>

(* The transport joins the room and install_room replaces the saved state,    *)
(* dropping the inbox; or joining fails and the old forwards return.          *)
SwitchRoomEnds(r) ==
    /\ gRoom.suspended /\ r # gRoom.name
    /\ \/ /\ gRoom' = [name |-> r, suspended |-> FALSE]
          /\ saved' = graphFile[r] /\ inbox' = <<>>
          /\ gRunning' = graphFile[r].forwards
       \/ /\ gRoom' = [gRoom EXCEPT !.suspended = FALSE]
          /\ gRunning' = saved.forwards
          /\ UNCHANGED <<saved, inbox>>
    /\ UNCHANGED <<graphFile, cmd, wire, done, graphEvents>>

(* The session is built again: load_room and restore_graph_forwards.         *)
GraphRestarts ==
    /\ GraphEvent
    /\ gRoom' = [gRoom EXCEPT !.suspended = FALSE]
    /\ saved' = graphFile[gRoom.name] /\ gRunning' = graphFile[gRoom.name].forwards
    /\ inbox' = <<>>
    /\ UNCHANGED <<graphFile, cmd, wire, done>>

GraphNext ==
    \/ \E act \in GraphAction : OwnerEdits(act) \/ \E c \in GraphCmd : PeerCommands(c, act)
    \/ \E l, g \in BOOLEAN : OwnerSetsPolicy(l, g)
    \/ \E m \in wire : ReceiveCommand(m) \/ ReceiveReply(m)
    \/ GraphTick
    \/ \E c \in GraphCmd : CommandTimesOut(c)
    \/ \E r \in GraphRoom : SwitchRoomStarts(r) \/ SwitchRoomEnds(r)
    \/ GraphRestarts

GraphSpec == GraphInit /\ [][GraphNext]_graphVars

(* Outside a change of room the forwards that run are the ones saved for     *)
(* this room, so that no edit, failed write, room change or restart leaves a *)
(* forward of another room listening; and a command is reported as applied   *)
(* only if the owner applied it.                                             *)
GraphInStep ==
    /\ ~gRoom.suspended => gRunning = saved.forwards
    /\ \A c \in GraphCmd : cmd[c].at = "confirmed" => c \in done

=============================================================================
