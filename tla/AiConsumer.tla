----------------------------- MODULE AiConsumer -----------------------------
(* The consuming side of the AI network in one room (src/src/ai/consumer.rs,  *)
(* voice_consumer.rs, oai_tunnel.rs, mod.rs): the catalog of providers and    *)
(* the pinned one, calls that wait for answers in several messages, and the   *)
(* table that leads messages to them.  A provider's answer is a numbered      *)
(* stream whose messages may be delayed, repeated, overtaken or lost; a part  *)
(* of an answer is its sender and its number.  Sizes are left out, and so is  *)
(* the chat of older providers, whose parts have no numbers.                  *)
EXTENDS Naturals, Sequences, FiniteSets, SequencesExt, FiniteSetsExt

CONSTANTS
    AiNode,          \* the peers of the room
    NoNode,
    AiCall,          \* calls of this daemon
    callKind,        \* "chat", "tts", "stt" or "oai"
    Together,        \* bound: the sets of calls of which a behaviour makes one
    AnswerEnd,       \* number of the last part of an answer
    MaxCatalog,      \* 256
    MaxSeqGap, MaxBuffered,  \* MAX_SEQ_GAP, MAX_BUFFERED_CHUNKS
    MaxPending,      \* MAX_REQUESTS, and 8 in the tunnel
    QueueCap,        \* capacity of a call's channel, but for chat
    MaxAiEvents,     \* bound on hellos, departures, changes of the list and restarts of the room
    MaxRepeats       \* bound on repeated messages

ASSUME AiConsumerAssumption ==
    /\ {MaxCatalog, MaxPending, QueueCap} \subseteq Nat \ {0}
    /\ {AnswerEnd, MaxSeqGap, MaxBuffered, MaxAiEvents, MaxRepeats} \subseteq Nat
    /\ NoNode \notin AiNode
    /\ Together \subseteq SUBSET AiCall
    /\ \A r \in AiCall : callKind[r] \in {"chat", "tts", "stt", "oai"}

VARIABLES
    catalog,     \* Consumer.catalog: the services of each provider
    pin,         \* Consumer.provider
    aiTrusted,   \* ai.trusted_providers
    aiHello,     \* a provider_hello in hand, with the list it was checked against
    call,        \* the calls, their entries in pending and their channels
    aiWire,      \* messages to this daemon
    aiEvents, repeats

aiConsumerVars == <<catalog, pin, aiTrusted, aiHello, call, aiWire, aiEvents, repeats>>
providerVars == <<catalog, pin, aiTrusted, aiHello>>

Service == {"chat", "tts", "stt", "oai"}
NoCall == [at |-> "idle", peer |-> NoNode, open |-> FALSE, queue |-> <<>>, next |-> 0,
           held |-> {}, got |-> <<>>, result |-> <<>>]
Whole(p) == [i \in 1..AnswerEnd + 1 |-> <<p, i - 1>>]

AiConsumerInit ==
    /\ catalog = <<>> /\ pin = NoNode /\ aiTrusted = {} /\ aiHello = <<>>
    /\ call = [r \in AiCall |-> NoCall] /\ aiWire = {} /\ aiEvents = 0 /\ repeats = 0

AiEvent == aiEvents < MaxAiEvents /\ aiEvents' = aiEvents + 1

-----------------------------------------------------------------------------
(* Calls bound to a provider that goes are rejected: chat by an event behind  *)
(* those already queued, the others by dropping their channel's sender.      *)
Rejected(c) == [c EXCEPT !.queue = Append(@, [what |-> "rejected", from |-> c.peer, seq |-> 0])]
Waiting(r, p) == call[r].open /\ call[r].peer = p
RejectChat(p) == [r \in AiCall |-> IF Waiting(r, p) /\ callKind[r] = "chat" THEN Rejected(call[r])
                                   ELSE call[r]]
DropSenders(p) == [r \in AiCall |-> IF Waiting(r, p) /\ callKind[r] # "chat"
                                    THEN [call[r] EXCEPT !.open = FALSE] ELSE RejectChat(p)[r]]

ForgetProvider(p) ==
    /\ catalog' = [n \in DOMAIN catalog \ {p} |-> catalog[n]]
    /\ pin' = IF pin = p THEN NoNode ELSE pin

(* handle_message of a provider_hello: the list and the peer's identity are   *)
(* read first, the catalog and the pin follow under locks of their own.      *)
HelloReads(p, services) ==
    /\ AiEvent /\ aiHello = <<>>
    /\ aiHello' = [node |-> p, services |-> services, list |-> aiTrusted]
    /\ UNCHANGED <<catalog, pin, aiTrusted, call, aiWire, repeats>>

HelloApplies ==
    LET p == aiHello.node
        fits == Cardinality(DOMAIN catalog) < MaxCatalog \/ p \in DOMAIN catalog
    IN  /\ aiHello # <<>> /\ aiHello' = <<>>
        /\ \/ /\ aiHello.list # {} /\ p \notin aiHello.list
              /\ UNCHANGED <<catalog, pin, call>>
           \/ /\ aiHello.list = {} \/ p \in aiHello.list
              /\ \/ /\ aiHello.services = {}
                    /\ ForgetProvider(p) /\ call' = RejectChat(p)
                 \/ /\ aiHello.services # {} /\ ~fits /\ UNCHANGED <<catalog, pin, call>>
                 \/ /\ aiHello.services # {} /\ fits
                    /\ catalog' = [n \in DOMAIN catalog \cup {p} |->
                                      IF n = p THEN aiHello.services ELSE catalog[n]]
                    /\ pin' = IF "chat" \in aiHello.services
                              THEN IF pin = NoNode THEN p ELSE pin
                              ELSE IF pin = p THEN NoNode ELSE pin
                    /\ UNCHANGED call
        /\ UNCHANGED <<aiTrusted, aiWire, aiEvents, repeats>>

(* set_trusted_providers *)
SetTrusted(S) ==
    /\ AiEvent /\ S # aiTrusted /\ aiTrusted' = S
    /\ catalog' = [n \in {m \in DOMAIN catalog : S = {} \/ m \in S} |-> catalog[n]]
    /\ pin' = IF S # {} /\ pin \notin S THEN NoNode ELSE pin
    /\ UNCHANGED <<aiHello, call, aiWire, repeats>>

(* EVENT_PEER_DISCONNECTED *)
ProviderLeaves(p) ==
    /\ AiEvent /\ aiHello = <<>>
    /\ ForgetProvider(p) /\ call' = DropSenders(p)
    /\ UNCHANGED <<aiTrusted, aiHello, aiWire, repeats>>

(* reconcile leaves the room: reject_all; a room joined again starts anew,   *)
(* and a call about to begin in the old one only times out.                  *)
RoomRemoved ==
    /\ AiEvent /\ aiHello = <<>> /\ catalog' = <<>> /\ pin' = NoNode
    /\ call' = [r \in AiCall |->
          LET c == call[r] IN
          IF c.at = "chosen" THEN [c EXCEPT !.at = "failed"]
          ELSE IF c.open /\ callKind[r] = "chat" THEN [Rejected(c) EXCEPT !.open = FALSE]
          ELSE [c EXCEPT !.open = FALSE]]
    /\ UNCHANGED <<aiTrusted, aiHello, aiWire, repeats>>

-----------------------------------------------------------------------------
MayCall(r) == \E S \in Together : {r} \cup {q \in AiCall : call[q].at # "idle"} \subseteq S

(* wait_for_model and wait_for_service: the pinned provider or another of     *)
(* the catalog.  What was chosen may be gone when the call is registered.    *)
ChooseProvider(r, p) ==
    /\ call[r].at = "idle" /\ MayCall(r) /\ p \in (DOMAIN catalog \cup {pin}) \ {NoNode}
    /\ IF callKind[r] = "chat"
       THEN \/ p = pin
            \/ p \in DOMAIN catalog /\ "chat" \in catalog[p]
       ELSE p \in DOMAIN catalog /\ callKind[r] \in catalog[p]
    /\ call' = [call EXCEPT ![r].at = "chosen", ![r].peer = p]
    /\ UNCHANGED <<providerVars, aiWire, aiEvents, repeats>>

Pendings(kinds) == {q \in AiCall : call[q].open /\ callKind[q] \in kinds}
Refused(r) ==
    \/ callKind[r] = "oai" /\ Cardinality(Pendings({"oai"})) >= MaxPending
    \/ callKind[r] \in {"tts", "stt"} /\ Cardinality(Pendings({"tts", "stt"})) >= MaxPending

(* What the provider sends: its whole answer, or an error behind part of it;  *)
(* and a message a peer that is not asked may send under the same id.        *)
Part(r, p, n) == [req |-> r, from |-> p, what |-> "part", seq |-> n]
Reply(r, p, what) == [req |-> r, from |-> p, what |-> what, seq |-> 0]
Parts(r, p) == IF callKind[r] = "stt" THEN {} ELSE {Part(r, p, n) : n \in 0..AnswerEnd}
Done(r, p) == IF callKind[r] \in {"chat", "stt"} THEN {Reply(r, p, "done")} ELSE {}
Answers(r, p) == {Parts(r, p) \cup Done(r, p),
                  {m \in Parts(r, p) : m.seq = 0} \cup {Reply(r, p, "error")}}
Strangers(r, p) ==
    UNION {Done(r, q) \cup {m \in Parts(r, q) : m.seq = 0} : q \in AiNode \ {p}}

(* begin, request, request_tools: registered, then sent.                     *)
StartCall(r) ==
    /\ call[r].at = "chosen"
    /\ \/ Refused(r) /\ call' = [call EXCEPT ![r].at = "failed"] /\ UNCHANGED aiWire
       \/ /\ ~Refused(r)
          /\ call' = [call EXCEPT ![r].at = "running", ![r].open = TRUE]
          /\ \E ms \in Answers(r, call[r].peer), m \in Strangers(r, call[r].peer) :
                aiWire' = aiWire \cup ms \cup {m}
    /\ UNCHANGED <<providerVars, aiEvents, repeats>>

(* Mutant: a message is led to the call it names, whoever sent it.           *)
LeadsAnywhere(m) == call[m.req].open

(* send_event, handle_message: only the provider a call is bound to.         *)
Leads(m) == call[m.req].open /\ call[m.req].peer = m.from

(* A message arrives; a full channel closes the call's entry.                *)
DeliverAnswer(m, again) ==
    LET c == call[m.req] IN
    /\ m \in aiWire
    /\ IF again THEN repeats < MaxRepeats /\ repeats' = repeats + 1 /\ UNCHANGED aiWire
       ELSE aiWire' = aiWire \ {m} /\ UNCHANGED repeats
    /\ call' = [call EXCEPT ![m.req] =
          IF ~Leads(m) THEN c
          ELSE IF callKind[m.req] # "chat" /\ Len(c.queue) >= QueueCap
               THEN [c EXCEPT !.open = FALSE]
          ELSE [c EXCEPT !.queue = Append(@, m)]]
    /\ UNCHANGED <<providerVars, aiEvents>>

-----------------------------------------------------------------------------
Ended(c, at, result) ==
    [c EXCEPT !.at = at, !.open = FALSE, !.queue = <<>>, !.result = result]

(* request_tools: numbered parts are put in order; the parts that follow the  *)
(* one applied were held back.                                               *)
Drained(next, held) == CHOOSE n \in next..AnswerEnd + 1 :
                          (next..n - 1) \subseteq held /\ n \notin held
ChatPart(c, m) ==
    LET n == Drained(m.seq + 1, {h[2] : h \in c.held}) IN
    IF m.seq < c.next THEN c
    ELSE IF m.seq > c.next
         THEN IF \/ m.seq - c.next > MaxSeqGap
                 \/ Cardinality(c.held) >= MaxBuffered /\ \A h \in c.held : h[2] # m.seq
              THEN Ended(c, "failed", <<>>)
              ELSE [c EXCEPT !.held = {h \in @ : h[2] # m.seq} \cup {<<m.from, m.seq>>}]
    ELSE [c EXCEPT !.next = n, !.held = {h \in @ : h[2] >= n},
                   !.got = @ \o <<<<m.from, m.seq>>>>
                             \o SetToSortSeq({h \in c.held : h[2] < n}, LAMBDA a, b : a[2] < b[2])]

(* synthesize: in order or not at all.                                       *)
TtsPart(c, m) ==
    IF m.seq < c.next THEN c
    ELSE IF m.seq > c.next THEN Ended(c, "failed", <<>>)
    ELSE LET got == Append(c.got, <<m.from, m.seq>>) IN
         IF m.seq = AnswerEnd THEN Ended([c EXCEPT !.got = got], "ok", got)
         ELSE [c EXCEPT !.next = @ + 1, !.got = got]

(* Mutant: the answer is complete with its last part.                        *)
CompleteAtLast(held) == \E h \in held : h[2] = AnswerEnd

(* Assembly::push: complete when every part up to the last is there.         *)
Complete(held) == Cardinality(held) = AnswerEnd + 1

OaiPart(c, m) ==
    LET held == c.held \cup {<<m.from, m.seq>>} IN
    IF \E h \in c.held : h[2] = m.seq THEN c
    ELSE IF Complete(held)
         THEN Ended(c, "ok", SetToSortSeq(held, LAMBDA a, b : a[2] < b[2]))
    ELSE [c EXCEPT !.held = held]

(* A call takes the next message of its channel.                             *)
Took(r, m) ==
    LET c == [call[r] EXCEPT !.queue = Tail(@)] IN
    CASE m.what \in {"error", "rejected"} -> Ended(c, "failed", <<>>)
      [] m.what = "done" -> Ended(c, "ok", Whole(m.from))
      [] m.what = "part" -> CASE callKind[r] = "chat" -> ChatPart(c, m)
                              [] callKind[r] = "tts" -> TtsPart(c, m)
                              [] callKind[r] = "oai" -> OaiPart(c, m)

CallTakes(r) ==
    /\ call[r].at = "running" /\ call[r].queue # <<>>
    /\ call' = [call EXCEPT ![r] = Took(r, Head(call[r].queue))]
    /\ UNCHANGED <<providerVars, aiWire, aiEvents, repeats>>

(* Time runs out, the caller goes away, or the channel is closed: the guard   *)
(* removes the entry.                                                        *)
CallFails(r) ==
    /\ call[r].at \in {"chosen", "running"}
    /\ call' = [call EXCEPT ![r] = Ended(call[r], "failed", <<>>)]
    /\ UNCHANGED <<providerVars, aiWire, aiEvents, repeats>>

AiConsumerNext ==
    \/ \E p \in AiNode :
          \/ \E services \in {{}, {"tts"}, Service} : HelloReads(p, services)
          \/ ProviderLeaves(p)
          \/ \E r \in AiCall : ChooseProvider(r, p)
    \/ HelloApplies \/ RoomRemoved
    \/ \E S \in SUBSET AiNode : SetTrusted(S)
    \/ \E r \in AiCall : StartCall(r) \/ CallTakes(r) \/ CallFails(r)
    \/ \E m \in aiWire, again \in BOOLEAN : DeliverAnswer(m, again)

AiConsumerSpec == AiConsumerInit /\ [][AiConsumerNext]_aiConsumerVars

-----------------------------------------------------------------------------
(* Types of the state, and the limits of catalog and tables.                 *)
AiConsumerTypeOK ==
    /\ DOMAIN catalog \subseteq AiNode /\ Cardinality(DOMAIN catalog) <= MaxCatalog
    /\ pin \in AiNode \cup {NoNode}
    /\ \A r \in AiCall : /\ call[r].at \in {"idle", "chosen", "running", "ok", "failed"}
                         /\ call[r].open => call[r].at = "running"
                         /\ callKind[r] # "chat" => Len(call[r].queue) <= QueueCap
    /\ Cardinality(Pendings({"oai"})) <= MaxPending
    /\ Cardinality(Pendings({"tts", "stt"})) <= MaxPending

(* An answer is the provider's (request_tools, synthesize, Assembly::push,     *)
(* send_event): what a call hands out while it runs are the parts of the      *)
(* provider it is bound to, in order, none missing or repeated, and what it   *)
(* returns is the whole answer of that provider, although messages are        *)
(* repeated, overtake each other or come from others, the provider leaves or  *)
(* channels fill up.                                                          *)
AnswersIntact ==
    \A r \in AiCall :
        /\ call[r].got = SubSeq(Whole(call[r].peer), 1, Len(call[r].got))
        /\ call[r].at = "ok" => call[r].result = Whole(call[r].peer)
=============================================================================
