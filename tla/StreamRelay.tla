----------------------------- MODULE StreamRelay ------------------------------
(* The relay of a screen share (src/src/stream/relay.rs): the control loop    *)
(* that locks onto one publisher's tracks, forwards them, and re-publishes    *)
(* them when the node leads the relays of the room.  It takes one thing at a  *)
(* time (a new track, the end of a track, a view of the consensus, the prune  *)
(* timer) and waits inside a step only while it publishes or unpublishes.     *)
(* A track is its number, in the order in which tracks appear; mistlib        *)
(* announces each one once and never takes it back.  Media is in StreamVideo. *)
EXTENDS Naturals, Sequences, FiniteSets, SequencesExt

CONSTANTS
    Sharer,            \* peers of the room that are no relays
    FellowRelay,       \* the other relays of the room
    TrackOffer,        \* who may publish a track of which kind
    MaxCachedPeers,    \* MAX_CACHED_PEERS
    RepublishAttempts, \* REPUBLISH_ATTEMPTS
    MaxTracks,         \* bound on the tracks
    MaxUntaken,        \* bound on the tracks the loop has not taken yet
    MaxEnds,           \* bound on the video tracks that end
    MaxViews,          \* bound on what the consensus does
    NoLock

Remote == Sharer \cup FellowRelay

ASSUME StreamRelayAssumption ==
    /\ Sharer \cap FellowRelay = {} /\ {"me", "none"} \cap Remote = {}
    /\ TrackOffer \subseteq [peer : Remote, kind : {"video", "audio"}]
    /\ MaxCachedPeers \in Nat \ {0, 1} /\ RepublishAttempts \in Nat \ {0}
    /\ {MaxTracks, MaxUntaken, MaxEnds, MaxViews} \subseteq Nat
    /\ NoLock \notin [peer : Remote, ssrc : Nat]

VARIABLES
    tracks,       \* the tracks so far: whose and of which kind
    gone,         \* history: tracks that ended
    mediaRx,      \* media_rx: tracks the loop has not taken yet
    endedRx,      \* ended_rx: video tracks whose task ended
    lock,         \* locked and current_video_ssrc, or NoLock
    forwarding,   \* the tracks of the Video and Audio tasks (0: none), is the video task over
    cache,        \* last_video, last_audio and pending_audio: the track of each peer, or 0
    replay,       \* cached tracks to be handled again
    fellows,      \* the relays in the membership of RelayConsensus
    watched,      \* the view RelayConsensus published, and has the loop not seen it
    currentView,  \* current_view
    policy,       \* policy, built at the top of the loop
    waiting,      \* what the loop waits for inside a step
    republish,    \* RelayCapture.republish holds the two tracks
    shown,        \* the re-broadcast tracks published in the room
    castUp,       \* the relay runs
    released,     \* history: tracks whose end notification released the lock
    castEvents

castVars == <<tracks, gone, mediaRx, endedRx, lock, forwarding, cache, replay, fellows, watched,
              currentView, policy, waiting, republish, shown, castUp, released, castEvents>>

loopVars == <<lock, forwarding, cache, replay, currentView, policy, waiting, republish, shown,
              released>>

Role == {"leader", "follower", "unknown"}
NoTasks == [video |-> 0, audio |-> 0, over |-> FALSE]
NotWaiting == [for |-> "none", left |-> 0]
NoTracks == [p \in Remote |-> 0]

LockedPeer == IF lock = NoLock THEN "none" ELSE lock.peer

(* build_policy: only a leader that is a member now counts.                 *)
build_policy(v) ==
    IF v.leader \in fellows \cup {"me"} THEN v ELSE [v EXCEPT !.leader = "none"]

accepts_remote(p, pol) ==
    CASE pol.role = "disabled" -> TRUE
      [] pol.role = "leader" -> p \notin pol.peers
      [] pol.role = "follower" -> p = pol.leader
      [] pol.role = "unknown" -> FALSE

(* Mutant: a new video track of the locked publisher is ignored.            *)
decideFirstVideo(p) ==
    IF lock = NoLock /\ accepts_remote(p, policy) THEN "Lock" ELSE "Ignore"

decide_video(p) ==
    CASE lock = NoLock /\ accepts_remote(p, policy) -> "Lock"
      [] lock # NoLock /\ LockedPeer = p -> "Switch"
      [] OTHER -> "Ignore"

(* Attach is also Replace: either way the track gets a task in Audio's place.*)
decide_audio(p) ==
    CASE lock # NoLock /\ LockedPeer = p -> "Attach"
      [] lock = NoLock /\ accepts_remote(p, policy) -> "Buffer"
      [] OTHER -> "Ignore"

(* bounded_insert evicts any other peer than the locked one.                *)
bounded_insert(map, p, n) ==
    LET known == {q \in Remote : map[q] # 0}
        victims == known \ {LockedPeer}
        full == p \notin known /\ Cardinality(known) >= MaxCachedPeers /\ victims # {}
    IN  {[map EXCEPT ![p] = n, ![v] = 0] : v \in IF full THEN victims ELSE {}}
        \cup (IF full THEN {} ELSE {[map EXCEPT ![p] = n]})

-----------------------------------------------------------------------------
(* Before the first election, with the relays whose hellos came already; or *)
(* no consensus at all.                                                     *)
FirstView(members) ==
    [role |-> "unknown", leader |-> "none", peers |-> members \cup {"me"}]

CastInit ==
    /\ tracks = <<>> /\ gone = {} /\ mediaRx = <<>> /\ endedRx = <<>>
    /\ lock = NoLock /\ forwarding = NoTasks
    /\ cache = [video |-> NoTracks, audio |-> NoTracks, pending |-> NoTracks]
    /\ replay = <<>> /\ fellows \in SUBSET FellowRelay
    /\ currentView \in {FirstView(fellows), [FirstView({}) EXCEPT !.role = "disabled"]}
    /\ currentView.role = "disabled" => fellows = {}
    /\ watched = [view |-> currentView, unseen |-> FALSE] /\ policy = currentView
    /\ waiting = NotWaiting /\ republish = FALSE /\ shown = {} /\ castUp = TRUE
    /\ released = {} /\ castEvents = 0

-----------------------------------------------------------------------------
(* What happens around the loop.                                            *)

(* A peer publishes a track and room_filter_task lets it through.           *)
TrackArrives(offer) ==
    /\ castUp /\ Len(tracks) < MaxTracks /\ Len(mediaRx) < MaxUntaken
    /\ tracks' = Append(tracks, offer)
    /\ mediaRx' = Append(mediaRx, Len(tracks) + 1)
    /\ UNCHANGED <<gone, endedRx, loopVars, fellows, watched, castUp, castEvents>>

TrackEnds(n) ==
    /\ castUp /\ Cardinality(gone) < MaxEnds
    /\ tracks[n].kind = "video" /\ n \notin gone /\ gone' = gone \cup {n}
    /\ UNCHANGED <<tracks, mediaRx, endedRx, loopVars, fellows, watched, castUp, castEvents>>

(* video_task: read_rtp fails and the task reports its track.               *)
VideoTaskEnds ==
    /\ castUp /\ forwarding.video \in gone /\ ~forwarding.over
    /\ forwarding' = [forwarding EXCEPT !.over = TRUE]
    /\ endedRx' = Append(endedRx, forwarding.video)
    /\ UNCHANGED <<tracks, gone, mediaRx, lock, cache, replay, fellows, watched, currentView,
                   policy, waiting, republish, shown, castUp, released, castEvents>>

CastEvent == castEvents < MaxViews /\ castEvents' = castEvents + 1

(* A relay joins or leaves the membership (RelayConsensus).                 *)
FellowsChange(p) ==
    /\ castUp /\ CastEvent /\ currentView.role # "disabled"
    /\ fellows' = IF p \in fellows THEN fellows \ {p} ELSE fellows \cup {p}
    /\ UNCHANGED <<tracks, gone, mediaRx, endedRx, loopVars, watched, castUp>>

(* publish_view with what Raft says then; a leader must be a member.        *)
PublishView(role, hint) ==
    LET leader == IF hint \in fellows \cup {"me"} THEN hint ELSE "none"
        v == [role |-> role, leader |-> leader, peers |-> fellows \cup {"me"}]
    IN /\ castUp /\ CastEvent /\ currentView.role # "disabled"
       /\ role = "leader" <=> hint = "me"
       /\ v # watched.view /\ watched' = [view |-> v, unseen |-> TRUE]
       /\ UNCHANGED <<tracks, gone, mediaRx, endedRx, loopVars, fellows, castUp>>

-----------------------------------------------------------------------------
(* The loop: Iterates ends a step at the top of the loop.  A step that waits *)
(* builds the policy early; it is built again before it is used.             *)

Iterates(v) == currentView' = v /\ policy' = build_policy(v)

LoopAt(what) == castUp /\ waiting.for = what

(* The tasks of a lock start, with the audio track that came before.        *)
StartTasks(p, n, caches) ==
    /\ forwarding' = [video |-> n, audio |-> caches.pending[p], over |-> FALSE]
    /\ cache' = [caches EXCEPT !.pending[p] = 0]

TakeVideo(n, caches) ==
    LET p == tracks[n].peer IN
    /\ CASE decide_video(p) = "Lock" /\ policy.role = "leader" ->
              /\ lock' = [peer |-> p, ssrc |-> n]
              /\ waiting' = [for |-> "video", left |-> RepublishAttempts]
              /\ cache' = caches /\ UNCHANGED forwarding
         [] decide_video(p) = "Lock" /\ policy.role # "leader" ->
              /\ lock' = [peer |-> p, ssrc |-> n]
              /\ StartTasks(p, n, caches) /\ UNCHANGED waiting
         [] decide_video(p) = "Switch" ->
              /\ lock' = [lock EXCEPT !.ssrc = n]
              /\ forwarding' = [forwarding EXCEPT !.video = n, !.over = FALSE]
              /\ cache' = caches /\ UNCHANGED waiting
         [] decide_video(p) = "Ignore" ->
              /\ cache' = caches /\ UNCHANGED <<lock, forwarding, waiting>>
    /\ UNCHANGED <<republish, shown, released>>

TakeAudio(n, caches) ==
    LET p == tracks[n].peer IN
    /\ CASE decide_audio(p) = "Attach" ->
              forwarding' = [forwarding EXCEPT !.audio = n] /\ cache' = caches
         [] decide_audio(p) = "Buffer" ->
              /\ \E map \in bounded_insert(caches.pending, p, n) :
                    cache' = [caches EXCEPT !.pending = map]
              /\ UNCHANGED forwarding
         [] decide_audio(p) = "Ignore" -> cache' = caches /\ UNCHANGED forwarding
    /\ UNCHANGED <<lock, waiting, republish, shown, released>>

(* Every track is cached first, for a later view under which it counts.     *)
TakeTrack(n) ==
    LET kind == tracks[n].kind IN
    /\ \E map \in bounded_insert(cache[kind], tracks[n].peer, n) :
          LET caches == [cache EXCEPT ![kind] = map]
          IN  IF kind = "video" THEN TakeVideo(n, caches) ELSE TakeAudio(n, caches)
    /\ Iterates(currentView)
    /\ UNCHANGED <<tracks, gone, endedRx, fellows, watched, castUp, castEvents>>

TakeReplay ==
    /\ LoopAt("none") /\ replay # <<>>
    /\ replay' = Tail(replay) /\ TakeTrack(Head(replay)) /\ UNCHANGED mediaRx

TakeMedia ==
    /\ LoopAt("none") /\ replay = <<>> /\ mediaRx # <<>>
    /\ mediaRx' = Tail(mediaRx) /\ TakeTrack(Head(mediaRx)) /\ UNCHANGED replay

(* prune_tick: what is cached of peers no longer connected, except the lock.*)
PruneTick(left) ==
    /\ LoopAt("none") /\ replay = <<>>
    /\ left # LockedPeer
    /\ cache' = [kind \in DOMAIN cache |-> [cache[kind] EXCEPT ![left] = 0]]
    /\ Iterates(currentView)
    /\ UNCHANGED <<tracks, gone, mediaRx, endedRx, lock, forwarding, replay, fellows, watched,
                   waiting, republish, shown, castUp, released, castEvents>>

(* unlock: the tasks are aborted, then the tracks unpublished one by one.   *)
Unlock ==
    /\ lock' = NoLock /\ forwarding' = NoTasks /\ republish' = FALSE
    /\ waiting' = IF republish THEN [for |-> "unpublish", left |-> 2] ELSE waiting

KeepsLock == UNCHANGED <<lock, forwarding, republish, waiting>>

(* Mutant: any end notification of the publisher releases the lock.         *)
EndsLockOfPeer(n) == lock # NoLock /\ lock.peer = tracks[n].peer

EndsLock(n) == lock # NoLock /\ lock.peer = tracks[n].peer /\ lock.ssrc = n

TakeEnded ==
    LET n == Head(endedRx)
        p == tracks[n].peer
        dead == cache.video[p] = n
        forget(map, drop) == IF drop THEN [map EXCEPT ![p] = 0] ELSE map
    IN /\ LoopAt("none") /\ replay = <<>> /\ endedRx # <<>>
       /\ endedRx' = Tail(endedRx)
       /\ cache' = [video |-> forget(cache.video, dead), audio |-> forget(cache.audio, dead),
                    pending |-> forget(cache.pending, EndsLock(n))]
       /\ IF EndsLock(n) THEN Unlock /\ released' = released \cup {lock.ssrc}
          ELSE KeepsLock /\ UNCHANGED released
       /\ Iterates(currentView)
       /\ UNCHANGED <<tracks, gone, mediaRx, replay, fellows, watched, shown, castUp, castEvents>>

(* The cached tracks of one peer the new policy accepts; the audio track    *)
(* only if no other one waits for the lock.                                 *)
Replays(pol, pending) ==
    {LET audio == cache.audio[p]
     IN  <<cache.video[p]>> \o (IF pending[p] = 0 /\ audio # 0 THEN <<audio>> ELSE <<>>)
     : p \in {q \in Remote : cache.video[q] # 0 /\ accepts_remote(q, pol)}}

(* Mutant: a lock outlives every change of the view.                        *)
survivesAlways(pol) == lock # NoLock

lock_survives_view_change(pol) == lock # NoLock /\ accepts_remote(lock.peer, pol)

(* watch_changed: when the role or the leader changed, the lock ends unless *)
(* the new policy accepts it, and without a lock a cached track is replayed.*)
TakeView ==
    LET v == watched.view
        moved == v.role # currentView.role \/ v.leader # currentView.leader
        pol == build_policy(v)
        ends == moved /\ lock # NoLock /\ ~lock_survives_view_change(pol)
        pending == IF ends THEN NoTracks ELSE cache.pending
        again == IF moved /\ (ends \/ lock = NoLock) THEN Replays(pol, pending) ELSE {}
    IN /\ LoopAt("none") /\ replay = <<>> /\ watched.unseen
       /\ watched' = [watched EXCEPT !.unseen = FALSE]
       /\ cache' = [cache EXCEPT !.pending = pending]
       /\ IF ends THEN Unlock ELSE KeepsLock
       /\ IF again = {} THEN UNCHANGED replay ELSE replay' \in again
       /\ Iterates(v)
       /\ UNCHANGED <<tracks, gone, mediaRx, endedRx, fellows, shown, castUp, released,
                      castEvents>>

(* create_and_publish_republish_tracks: the video track, then the audio     *)
(* track; when that fails the video track is taken back and all is tried    *)
(* again, and after the last attempt the lock goes on without.              *)
Published ==
    IF waiting.for = "video"
    THEN /\ waiting' = [waiting EXCEPT !.for = "audio"] /\ shown' = shown \cup {"video"}
         /\ UNCHANGED <<republish, forwarding, cache>>
    ELSE /\ waiting' = NotWaiting /\ shown' = shown \cup {"audio"} /\ republish' = TRUE
         /\ StartTasks(lock.peer, lock.ssrc, cache)

PublishFails ==
    /\ shown' = shown \ {"video"} /\ UNCHANGED republish
    /\ IF waiting.left > 1
       THEN /\ waiting' = [for |-> "video", left |-> waiting.left - 1]
            /\ UNCHANGED <<forwarding, cache>>
       ELSE waiting' = NotWaiting /\ StartTasks(lock.peer, lock.ssrc, cache)

PublishTrack ==
    /\ LoopAt("video") \/ LoopAt("audio")
    /\ Published \/ PublishFails
    /\ Iterates(currentView)
    /\ UNCHANGED <<tracks, gone, mediaRx, endedRx, lock, replay, fellows, watched, castUp,
                   released, castEvents>>

UnpublishTrack ==
    /\ LoopAt("unpublish")
    /\ shown' = shown \ {IF waiting.left = 2 THEN "video" ELSE "audio"}
    /\ waiting' = IF waiting.left = 2 THEN [waiting EXCEPT !.left = 1] ELSE NotWaiting
    /\ Iterates(currentView)
    /\ UNCHANGED <<tracks, gone, mediaRx, endedRx, lock, forwarding, cache, replay, fellows,
                   watched, republish, castUp, released, castEvents>>

(* RelayCapture::stop aborts the loop wherever it waits and unpublishes     *)
(* what republish holds.                                                    *)
CastStop ==
    /\ castUp /\ castUp' = FALSE
    /\ lock' = NoLock /\ forwarding' = NoTasks /\ waiting' = NotWaiting /\ republish' = FALSE
    /\ shown' = IF republish THEN {} ELSE shown
    /\ UNCHANGED <<tracks, gone, mediaRx, endedRx, cache, replay, fellows, watched, currentView,
                   policy, released, castEvents>>

CastNext ==
    \/ \E offer \in TrackOffer : TrackArrives(offer)
    \/ \E n \in DOMAIN tracks : TrackEnds(n)
    \/ VideoTaskEnds
    \/ \E p \in FellowRelay : FellowsChange(p)
    \/ \E role \in Role, hint \in FellowRelay \cup {"me", "none"} : PublishView(role, hint)
    \/ TakeReplay \/ TakeMedia \/ TakeEnded \/ TakeView
    \/ \E p \in Remote : PruneTick(p)
    \/ PublishTrack \/ UnpublishTrack \/ CastStop

CastSpec == CastInit /\ [][CastNext]_castVars

-----------------------------------------------------------------------------
(* Types of the state, and the limit of the caches.                         *)
CastTypeOK ==
    /\ \A kind \in DOMAIN cache :
          /\ cache[kind] \in [Remote -> 0 .. Len(tracks)]
          /\ Cardinality({p \in Remote : cache[kind][p] # 0}) =< MaxCachedPeers
    /\ lock = NoLock \/ (lock.peer \in Remote /\ lock.ssrc \in DOMAIN tracks)
    /\ shown \subseteq {"video", "audio"} /\ gone \subseteq DOMAIN tracks

(* Whatever order tracks, ends and views come in, at the top of the loop     *)
(* what is forwarded is what is locked: the newest video track of the        *)
(* publisher and audio of the same peer; nothing is forwarded or             *)
(* re-published without a lock; a follower is locked to nobody but the       *)
(* leader of its view; and no lock was released by the late end of a track   *)
(* that a screen switch had replaced.                                        *)
CastInStep ==
    /\ LoopAt("none") =>
          /\ lock = NoLock => forwarding = NoTasks /\ shown = {}
          /\ lock # NoLock =>
                /\ forwarding.video = lock.ssrc /\ cache.video[lock.peer] = lock.ssrc
                /\ forwarding.audio # 0 => tracks[forwarding.audio].peer = lock.peer
                /\ currentView.role = "follower" => lock.peer = currentView.leader
                /\ currentView.role # "unknown"
          /\ republish <=> shown # {}
    /\ released \subseteq gone
=============================================================================
