----------------------------- MODULE StreamVideo ------------------------------
(* The video of a relayed share (src/src/stream/relay.rs video_task): RTP     *)
(* packets are read as the network delivers them, put together to NAL units   *)
(* and access units, and sent to the RTSP server.  Nothing retransmits or     *)
(* reorders, so packets are lost or come late; the task sees only their       *)
(* sequence numbers, which wrap.  A packet is its index in the stream, and a  *)
(* buffer is the set of packets whose payload is in it.  Requests for a       *)
(* keyframe are not modelled: keyframes come whenever the sender makes one.   *)
EXTENDS Naturals, Sequences, FiniteSets

CONSTANTS
    Packet,      \* the stream: access unit, payload and marker bit of each packet
    SeqRange,    \* 2^16, the range of sequence numbers
    MaxAuSize,   \* MAX_AU_BYTES, in packets
    MaxLost,     \* bound on packets lost or late
    MaxLate      \* bound on how many packets later a late one comes

(* "whole": NAL units; "start" and "end": fragments of one (FU-A), of which  *)
(* the last tells its type; "padding": too short to carry anything.          *)
Payload == {"whole", "start", "end", "padding"}

(* What an access unit carries.                                             *)
WholeUnit(au) == {i \in DOMAIN Packet : Packet[i].au = au /\ Packet[i].payload # "padding"}

(* What an H.264 sender makes (RFC 6184): access units one after the other,   *)
(* none of them empty, the two fragments of a NAL unit next to each other,    *)
(* and the marker on nothing but the last payload of a unit.                  *)
SentInOrder ==
    /\ \A i, j \in DOMAIN Packet : i < j => Packet[i].au <= Packet[j].au
    /\ \A i \in DOMAIN Packet : \A au \in 1..Packet[i].au : WholeUnit(au) # {}
    /\ \A i \in DOMAIN Packet :
          /\ Packet[i].payload = "start" =>
                /\ i + 1 \in DOMAIN Packet /\ Packet[i + 1].payload = "end"
                /\ Packet[i + 1].au = Packet[i].au /\ ~Packet[i].marker
          /\ Packet[i].payload = "end" => i # 1 /\ Packet[i - 1].payload = "start"
          /\ Packet[i].marker /\ Packet[i].payload # "padding" =>
                \A j \in WholeUnit(Packet[i].au) : j <= i

ASSUME StreamVideoAssumption ==
    /\ Packet \in Seq([au : Nat \ {0}, idr : BOOLEAN, marker : BOOLEAN, payload : Payload])
    /\ SentInOrder
    /\ {SeqRange, MaxAuSize, MaxLost, MaxLate} \subseteq Nat
    /\ MaxLost + MaxLate < SeqRange

VARIABLES
    coming,    \* the next packet the network delivers in order
    late,      \* packets that were overtaken
    lastSeq,   \* last_seq: of the packet read last, or NoSeq
    awaiting,  \* awaiting_keyframe
    fragments, \* H264Packet: the fragments of the NAL unit in progress
    unit,      \* AuAssembler: ts, buf and dropping
    sent,      \* history: the access units sent to the RTSP server
    videoOver, \* the track ended
    lost       \* packets lost or overtaken so far

videoVars == <<coming, late, lastSeq, awaiting, fragments, unit, sent, videoOver, lost>>

NoSeq == SeqRange
sequence_number(i) == i % SeqRange
NoUnit == [ts |-> 0, buf |-> {}, dropping |-> FALSE]

(* scan_au_nals: does the buffer hold a NAL unit of a keyframe?             *)
HasIdr(buf) == \E i \in buf : Packet[i].idr /\ Packet[i].payload \in {"whole", "end"}

VideoInit ==
    /\ coming = 1 /\ late = {} /\ lastSeq = NoSeq /\ awaiting = TRUE /\ fragments = {}
    /\ unit = NoUnit /\ sent = {} /\ videoOver = FALSE /\ lost = 0

-----------------------------------------------------------------------------
(* AuAssembler::push: a new timestamp closes the unit in progress, and so    *)
(* does the marker; a unit that grows too large is dropped up to its end.    *)
CloseBefore(u, ts) == IF u.ts \in {0, ts} THEN u ELSE NoUnit

Grown(u, ts, chunk) ==
    IF u.dropping \/ Cardinality(u.buf \cup chunk) > MaxAuSize
    THEN [ts |-> ts, buf |-> {}, dropping |-> TRUE]
    ELSE [ts |-> ts, buf |-> u.buf \cup chunk, dropping |-> FALSE]

Completed(u, i, chunk) ==
    LET ts == Packet[i].au
        grown == Grown(CloseBefore(u, ts), ts, chunk)
        closed == IF u.ts \in {0, ts} \/ u.dropping THEN {} ELSE u.buf
        ended == IF Packet[i].marker /\ ~grown.dropping THEN grown.buf ELSE {}
    IN  (IF closed = {} THEN <<>> ELSE <<[au |-> u.ts, buf |-> closed]>>)
        \o (IF ended = {} THEN <<>> ELSE <<[au |-> ts, buf |-> ended]>>)

PushedUnit(u, i, chunk) ==
    IF Packet[i].marker THEN NoUnit
    ELSE Grown(CloseBefore(u, Packet[i].au), Packet[i].au, chunk)

(* Each completed unit is sent once a keyframe came, be it its own.         *)
KeyframeSeen(done) == \E k \in DOMAIN done : HasIdr(done[k].buf)

SentOf(done, wait) ==
    {done[k] : k \in {j \in DOMAIN done : ~wait \/ KeyframeSeen(SubSeq(done, 1, j))}}

-----------------------------------------------------------------------------
(* Mutant: a gap only empties the buffers.                                  *)
GapForgetsKeyframe(gap) == awaiting

(* A gap empties the buffers and asks for a keyframe.                       *)
AwaitingAfter(gap) == awaiting \/ gap

(* H264Packet::depacketize, as the task uses it: a NAL unit, an unfinished   *)
(* one, or an error when a fragment has no start (or, for all the code can   *)
(* tell, a NAL unit without its beginning).                                  *)
Depacketized(frags, i) ==
    CASE Packet[i].payload = "whole" -> {[chunk |-> {i}, frags |-> frags, ok |-> TRUE]}
      [] Packet[i].payload = "start" -> {[chunk |-> {}, frags |-> {i}, ok |-> TRUE]}
      [] Packet[i].payload = "end" ->
            {[chunk |-> frags \cup {i}, frags |-> {}, ok |-> TRUE]}
            \cup (IF frags = {} THEN {[chunk |-> {}, frags |-> {}, ok |-> FALSE]} ELSE {})

(* One turn of the loop with packet i.                                      *)
ReadRtp(i) ==
    LET gap == lastSeq # NoSeq /\ sequence_number(i) # (lastSeq + 1) % SeqRange
        frags == IF gap THEN {} ELSE fragments
        u == IF gap THEN NoUnit ELSE unit
        wait == AwaitingAfter(gap)
    IN /\ lastSeq' = sequence_number(i)
       /\ IF Packet[i].payload = "padding"
          THEN awaiting' = wait /\ fragments' = frags /\ unit' = u /\ UNCHANGED sent
          ELSE \E d \in Depacketized(frags, i) :
                  IF ~d.ok
                  THEN awaiting' = TRUE /\ fragments' = {} /\ unit' = NoUnit /\ UNCHANGED sent
                  ELSE LET done == Completed(u, i, d.chunk)
                       IN /\ fragments' = d.frags /\ unit' = PushedUnit(u, i, d.chunk)
                          /\ awaiting' = (wait /\ ~KeyframeSeen(done))
                          /\ sent' = sent \cup SentOf(done, wait)
       /\ UNCHANGED videoOver

ReadNext ==
    /\ ~videoOver /\ coming \in DOMAIN Packet
    /\ coming' = coming + 1 /\ ReadRtp(coming) /\ UNCHANGED <<late, lost>>

ReadLate(i) ==
    /\ ~videoOver /\ coming =< i + MaxLate
    /\ late' = late \ {i} /\ ReadRtp(i) /\ UNCHANGED <<coming, lost>>

PacketLost ==
    /\ lost < MaxLost /\ lost' = lost + 1 /\ coming \in DOMAIN Packet /\ coming' = coming + 1
    /\ late' \in {late, late \cup {coming}}
    /\ UNCHANGED <<lastSeq, awaiting, fragments, unit, sent, videoOver>>

(* read_rtp fails: the task ends (StreamRelay's VideoTaskEnds).             *)
VideoEnds ==
    /\ ~videoOver /\ videoOver' = TRUE
    /\ UNCHANGED <<coming, late, lastSeq, awaiting, fragments, unit, sent, lost>>

VideoNext == ReadNext \/ (\E i \in late : ReadLate(i)) \/ PacketLost \/ VideoEnds

VideoSpec == VideoInit /\ [][VideoNext]_videoVars

-----------------------------------------------------------------------------
(* Types of the state.                                                      *)
VideoTypeOK ==
    /\ lastSeq \in 0 .. SeqRange /\ fragments \subseteq DOMAIN Packet
    /\ unit.buf \subseteq DOMAIN Packet /\ Cardinality(unit.buf) =< MaxAuSize
    /\ \A s \in sent : s.buf # {}

(* A viewer's decoder is not fed what it cannot decode: an access unit that  *)
(* is no keyframe is sent only if it is whole and the unit before it was     *)
(* sent, however packets were lost, late or wrapped around.  Two exceptions  *)
(* are the code's: the unit before it was too large, or it was a keyframe    *)
(* of which a part was lost.                                                 *)
SentDecodable ==
    \A s \in sent : ~HasIdr(s.buf) =>
        /\ s.buf = WholeUnit(s.au)
        /\ (\E r \in sent : r.au = s.au - 1) \/ Cardinality(WholeUnit(s.au - 1)) > MaxAuSize
=============================================================================
