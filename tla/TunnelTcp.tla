------------------------------ MODULE TunnelTcp ------------------------------
(* One TCP connection through the tunnel (src/src/tunnel/tcp.rs, tcp/): the  *)
(* peer that opened it reads a local socket and sends connect, data and      *)
(* close messages for one connection id; the serving peer tracks the id,     *)
(* waits for an authorization on a task of its own while data is buffered,   *)
(* connects the target and replays the buffer.  A payload is its sequence    *)
(* number.  The transport keeps order but loses messages, and a retried send *)
(* may arrive twice, also after the connection was closed.  Data flowing     *)
(* back runs the same code and is left out.                                  *)
EXTENDS Naturals, Sequences, FiniteSets, SequencesExt

CONSTANTS
    MaxData,      \* payloads the opener sends
    MaxConn,      \* bound on TunnelConns ever tracked for the id
    BufferMsgs,   \* PENDING_DATA_BUFFER_MAX_MSGS
    MaxTcpFaults     \* bound on losses, duplicates and departures of the peer

ASSUME TcpAssumption ==
    /\ MaxConn \in Nat \ {0}
    /\ {MaxData, BufferMsgs, MaxTcpFaults} \subseteq Nat

VARIABLES
    opener,      \* the opening peer: "new", "active" or "closed", payloads sent
    toServer,    \* messages to the serving peer
    toOpener,    \* close messages back
    tcpTracked,     \* TcpManager.conns[id]: the TunnelConn tracked, or 0
    conn,        \* every TunnelConn: state, buffer, next_expected, bytes written
    task,        \* authorize_and_activate of each conn; held: the Arc it cloned
    approved,    \* an authorization for the id was allowed
    open,        \* active_conns of the peer
    cancelled,   \* ForwardRuntime: the forward was removed
    leave,       \* the peer's presence, peer_close_epoch, timers, spawned handlers
    tcpFaults

tcpVars == <<opener, toServer, toOpener, tcpTracked, conn, task, approved, open,
             cancelled, leave, tcpFaults>>

ConnId == 1..MaxConn
TcpMsg == [t : {"connect", "close"}, seq : {0}] \cup [t : {"data"}, seq : 1..MaxData]
Connect == [t |-> "connect", seq |-> 0]
Close == [t |-> "close", seq |-> 0]

(* Types of the state: both ends, the tracked connections and their tasks.   *)
TcpTypeOK ==
    /\ opener \in [state : {"new", "active", "closed"}, sent : 0..MaxData]
    /\ toServer \in Seq(TcpMsg) /\ toOpener \in Seq({Close})
    /\ tcpTracked \in 0..MaxConn
    /\ conn \in [ConnId -> [state : {"none", "pending", "active"}, buf : Seq(1..MaxData),
                            next : 1..MaxData + 1, out : Seq(1..MaxData)]]
    /\ task \in [ConnId -> [at : {"none", "auth", "connect", "promote", "held",
                                  "stream", "done"}, held : 0..MaxConn]]
    /\ approved \in BOOLEAN /\ cancelled \in BOOLEAN
    /\ open \in 0..MaxConn
    /\ leave.up \in BOOLEAN /\ leave.epoch \in Nat /\ leave.timers \subseteq Nat
    /\ leave.spawned \subseteq {"schedule", "cancel"}
    /\ tcpFaults \in 0..MaxTcpFaults

TcpInit ==
    /\ opener = [state |-> "new", sent |-> 0]
    /\ toServer = <<>> /\ toOpener = <<>>
    /\ tcpTracked = 0 /\ open = 0
    /\ conn = [c \in ConnId |-> [state |-> "none", buf |-> <<>>, next |-> 1, out |-> <<>>]]
    /\ task = [c \in ConnId |-> [at |-> "none", held |-> 0]]
    /\ approved = FALSE /\ cancelled = FALSE
    /\ leave = [up |-> TRUE, epoch |-> 0, timers |-> {}, spawned |-> {}]
    /\ tcpFaults = 0

(***************************************************************************)
(* The opening peer.                                                         *)
(***************************************************************************)

(* handle_local_connection: track_conn, then connect with retries.          *)
HandleLocalConnection ==
    /\ opener.state = "new"
    /\ opener' = [opener EXCEPT !.state = "active"]
    /\ toServer' = Append(toServer, Connect)
    /\ UNCHANGED <<toOpener, tcpTracked, conn, task, approved, open, cancelled, leave,
                   tcpFaults>>

(* forward_tcp_to_dc: a chunk read is sent under the next sequence number;   *)
(* end of file, a read error or a send that failed for SEND_RETRY_BUDGET     *)
(* closes the connection and notifies.                                       *)
ForwardTcpToDc ==
    /\ opener.state = "active"
    /\ \/ /\ opener.sent < MaxData
          /\ opener' = [opener EXCEPT !.sent = @ + 1]
          /\ toServer' = Append(toServer, [t |-> "data", seq |-> opener.sent + 1])
       \/ /\ opener' = [opener EXCEPT !.state = "closed"]
          /\ toServer' = Append(toServer, Close)
    /\ UNCHANGED <<toOpener, tcpTracked, conn, task, approved, open, cancelled, leave,
                   tcpFaults>>

OpenerHandlesClose ==
    /\ toOpener # <<>> /\ toOpener' = Tail(toOpener)
    /\ opener' = IF opener.state = "active" THEN [opener EXCEPT !.state = "closed"]
                 ELSE opener
    /\ UNCHANGED <<toServer, tcpTracked, conn, task, approved, open, cancelled, leave,
                   tcpFaults>>

(***************************************************************************)
(* The serving peer's message loop.                                          *)
(***************************************************************************)

(* close_conn: the id leaves the map; only a promoted conn was counted.      *)
CloseConn(notify) ==
    /\ tcpTracked' = 0
    /\ open' = IF tcpTracked # 0 /\ conn[tcpTracked].state = "active" /\ open > 0
               THEN open - 1 ELSE open
    /\ toOpener' = IF notify /\ tcpTracked # 0 THEN Append(toOpener, Close) ELSE toOpener

Receives(kind) ==
    /\ ~cancelled
    /\ toServer # <<>> /\ toServer[1].t = kind
    /\ toServer' = Tail(toServer)

(* track_pending_conn, for the next conn never used.                         *)
TrackPendingConn(c) ==
    /\ conn[c].state = "none" /\ \A d \in 1..c - 1 : conn[d].state # "none"
    /\ tcpTracked' = c
    /\ conn' = [conn EXCEPT ![c].state = "pending"]

(* handle_remote_connect: a duplicate of a tracked id is ignored; at the     *)
(* caps of track_pending_conn the peer is told to close; otherwise the conn  *)
(* is pending and its authorization runs on its own task.                    *)
HandleRemoteConnect ==
    /\ Receives("connect")
    /\ \/ tcpTracked # 0 /\ UNCHANGED <<tcpTracked, conn, task, toOpener>>
       \/ /\ tcpTracked = 0
          /\ toOpener' = Append(toOpener, Close)
          /\ UNCHANGED <<tcpTracked, conn, task>>
       \/ /\ tcpTracked = 0
          /\ \E c \in ConnId : /\ TrackPendingConn(c)
                                /\ task' = [task EXCEPT ![c].at = "auth"]
          /\ UNCHANGED toOpener
    /\ UNCHANGED <<opener, approved, open, cancelled, leave, tcpFaults>>

(* Mutant: a gap is accepted.                                               *)
ObserveNoGap(next, seq) == IF seq < next THEN "duplicate" ELSE "accept"

(* SeqState.observe, for a sender that numbers its messages.                 *)
Observe(next, seq) ==
    IF seq < next THEN "duplicate" ELSE IF seq = next THEN "accept" ELSE "gap"

(* handle_remote_data: accepted bytes go to the target or, while the conn is *)
(* pending, to its buffer; a gap, a full buffer or a failed write closes it. *)
HandleRemoteData ==
    /\ Receives("data")
    /\ LET seq == toServer[1].seq
           c == tcpTracked
           seen == IF c = 0 THEN "untracked" ELSE Observe(conn[c].next, seq)
           accepted == [conn EXCEPT ![c].next = seq + 1]
       IN  \/ /\ seen \in {"untracked", "duplicate"}
              /\ UNCHANGED <<conn, tcpTracked, open, toOpener>>
           \/ /\ seen = "accept" /\ conn[c].state = "active"
              /\ conn' = [accepted EXCEPT ![c].out = Append(@, seq)]
              /\ UNCHANGED <<tcpTracked, open, toOpener>>
           \/ /\ seen = "accept" /\ conn[c].state = "active"
              /\ conn' = accepted /\ CloseConn(TRUE)
           \/ /\ seen = "accept" /\ conn[c].state = "pending"
              /\ IF Len(conn[c].buf) < BufferMsgs
                 THEN /\ conn' = [accepted EXCEPT ![c].buf = Append(@, seq)]
                      /\ UNCHANGED <<tcpTracked, open, toOpener>>
                 ELSE conn' = accepted /\ CloseConn(TRUE)
           \/ /\ seen = "gap"
              /\ UNCHANGED conn /\ CloseConn(TRUE)
    /\ UNCHANGED <<opener, task, approved, cancelled, leave, tcpFaults>>

(* close_conn_from_peer                                                      *)
CloseConnFromPeer ==
    /\ Receives("close")
    /\ CloseConn(FALSE)
    /\ UNCHANGED <<opener, conn, task, approved, cancelled, leave, tcpFaults>>

(***************************************************************************)
(* authorize_and_activate, on a task of its own.                             *)
(***************************************************************************)

TaskTo(c, at) == task' = [task EXCEPT ![c].at = at]

(* The authorizer answered: nothing is left to do if the forward is gone or  *)
(* the id untracked; a denial closes the id.                                 *)
Authorized(c, allow) ==
    /\ task[c].at = "auth"
    /\ \/ /\ cancelled \/ tcpTracked = 0
          /\ TaskTo(c, "done") /\ UNCHANGED <<approved, tcpTracked, open, toOpener>>
       \/ /\ ~cancelled /\ tcpTracked # 0 /\ allow
          /\ TaskTo(c, "connect")
          /\ approved' = TRUE /\ UNCHANGED <<tcpTracked, open, toOpener>>
       \/ /\ ~cancelled /\ tcpTracked # 0 /\ ~allow
          /\ TaskTo(c, "done")
          /\ CloseConn(TRUE) /\ UNCHANGED approved
    /\ UNCHANGED <<opener, toServer, conn, cancelled, leave, tcpFaults>>

(* The target is resolved and connected, or the id is closed.                *)
BackendConnects(c) ==
    /\ task[c].at = "connect"
    /\ \/ TaskTo(c, IF cancelled THEN "done" ELSE "promote")
          /\ UNCHANGED <<tcpTracked, open, toOpener>>
       \/ TaskTo(c, "done") /\ CloseConn(TRUE)
    /\ UNCHANGED <<opener, toServer, conn, approved, cancelled, leave, tcpFaults>>

(* promote_pending_conn, first half: the tracked conn is cloned out of the    *)
(* map and the map's lock released.                                          *)
PromoteLookup(c) ==
    /\ task[c].at = "promote"
    /\ task' = [task EXCEPT ![c] = IF tcpTracked = 0 THEN [at |-> "done", held |-> 0]
                                   ELSE [at |-> "held", held |-> tcpTracked]]
    /\ UNCHANGED <<opener, toServer, toOpener, tcpTracked, conn, approved, open, cancelled,
                   leave, tcpFaults>>

(* Second half, under the conn's own lock: pending becomes active, the conn   *)
(* is counted and the buffer replayed; a failed write closes the id.         *)
PromotePendingConn(c) ==
    /\ task[c].at = "held"
    /\ LET k == task[c].held IN
       \/ /\ conn[k].state = "active"
          /\ TaskTo(c, "done") /\ UNCHANGED <<conn, open, tcpTracked, toOpener>>
       \/ /\ conn[k].state = "pending"
          /\ TaskTo(c, "stream")
          /\ conn' = [conn EXCEPT ![k].state = "active", ![k].out = conn[k].buf,
                                  ![k].buf = <<>>]
          /\ open' = open + 1
          /\ UNCHANGED <<tcpTracked, toOpener>>
       \/ /\ conn[k].state = "pending" /\ conn[k].buf # <<>>
          /\ TaskTo(c, "stream")
          /\ conn' = [conn EXCEPT ![k].state = "active", ![k].buf = <<>>]
          /\ tcpTracked' = 0
          /\ open' = IF tcpTracked # 0 /\ conn'[tcpTracked].state = "active" THEN open ELSE open + 1
          /\ toOpener' = IF tcpTracked # 0 THEN Append(toOpener, Close) ELSE toOpener
    /\ UNCHANGED <<opener, toServer, approved, cancelled, leave, tcpFaults>>

(* The target's end of file or error, or the removal of the forward, ends    *)
(* the stream.                                                               *)
StreamEnds(c) ==
    /\ task[c].at = "stream"
    /\ TaskTo(c, "done")
    /\ CloseConn(~cancelled)
    /\ UNCHANGED <<opener, toServer, conn, approved, cancelled, leave, tcpFaults>>

(* remove_forward cancels the runtime.                                       *)
CancelForward ==
    /\ ~cancelled /\ cancelled' = TRUE
    /\ UNCHANGED <<opener, toServer, toOpener, tcpTracked, conn, task, approved, open,
                   leave, tcpFaults>>

(***************************************************************************)
(* Departures of the peer, and the transport.                                *)
(***************************************************************************)

TcpFault == tcpFaults < MaxTcpFaults /\ tcpFaults' = tcpFaults + 1

(* on_tunnel_close and on_tunnel_open each spawn a task for their handler.   *)
PeerLeaves ==
    /\ leave.up /\ TcpFault
    /\ leave' = [leave EXCEPT !.up = FALSE, !.spawned = @ \cup {"schedule"}]
    /\ UNCHANGED <<opener, toServer, toOpener, tcpTracked, conn, task, approved, open, cancelled>>

PeerReturns ==
    /\ ~leave.up
    /\ leave' = [leave EXCEPT !.up = TRUE, !.spawned = @ \cup {"cancel"}]
    /\ UNCHANGED <<opener, toServer, toOpener, tcpTracked, conn, task, approved, open,
                   cancelled, tcpFaults>>

(* schedule_close_all_for_peer starts a grace timer under a new epoch.       *)
ScheduleCloseAll ==
    /\ "schedule" \in leave.spawned
    /\ leave' = [leave EXCEPT !.spawned = @ \ {"schedule"}, !.epoch = @ + 1,
                              !.timers = @ \cup {leave.epoch + 1}]
    /\ UNCHANGED <<opener, toServer, toOpener, tcpTracked, conn, task, approved, open,
                   cancelled, tcpFaults>>

(* cancel_pending_close is a no-op for a peer that never left.               *)
CancelPendingClose ==
    /\ "cancel" \in leave.spawned
    /\ leave' = [leave EXCEPT !.spawned = @ \ {"cancel"},
                              !.epoch = IF @ = 0 THEN 0 ELSE @ + 1]
    /\ UNCHANGED <<opener, toServer, toOpener, tcpTracked, conn, task, approved, open,
                   cancelled, tcpFaults>>

(* The timer of an epoch: close_all_for_peer if the epoch is still current.  *)
TcpGraceElapses(e) ==
    /\ e \in leave.timers
    /\ leave' = [leave EXCEPT !.timers = @ \ {e}]
    /\ IF e = leave.epoch /\ ~cancelled THEN CloseConn(FALSE)
       ELSE UNCHANGED <<tcpTracked, open, toOpener>>
    /\ UNCHANGED <<opener, toServer, conn, task, approved, cancelled, tcpFaults>>

(* A message the reorder buffer gave up on, or one that arrives twice.       *)
TransportFault ==
    /\ toServer # <<>> /\ TcpFault
    /\ toServer' \in {Tail(toServer), <<toServer[1]>> \o toServer}
                     \cup (IF toServer[1] = Connect THEN {Append(toServer, Connect)} ELSE {})
    /\ UNCHANGED <<opener, toOpener, tcpTracked, conn, task, approved, open, cancelled, leave>>

TcpNext ==
    \/ HandleLocalConnection \/ ForwardTcpToDc \/ OpenerHandlesClose
    \/ HandleRemoteConnect \/ HandleRemoteData \/ CloseConnFromPeer
    \/ \E c \in ConnId :
          \/ \E a \in BOOLEAN : Authorized(c, a)
          \/ BackendConnects(c) \/ PromoteLookup(c) \/ PromotePendingConn(c) \/ StreamEnds(c)
    \/ CancelForward
    \/ PeerLeaves \/ PeerReturns \/ ScheduleCloseAll \/ CancelPendingClose
    \/ \E e \in 1..2 * MaxTcpFaults + 1 : TcpGraceElapses(e)
    \/ TransportFault

TcpSpec == TcpInit /\ [][TcpNext]_tcpVars

(* What the target receives over a connection is an unbroken prefix of what  *)
(* the opener sent, each payload once and in order, and it receives nothing  *)
(* before an authorization was allowed: not when a retried connect reopens   *)
(* a closed id, nor when data races the replay of the pending buffer.        *)
TcpStreamIntact ==
    \A c \in ConnId :
        /\ \A i \in DOMAIN conn[c].out : conn[c].out[i] = i
        /\ Len(conn[c].out) <= opener.sent
        /\ conn[c].out # <<>> => approved

=============================================================================
