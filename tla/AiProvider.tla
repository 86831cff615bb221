----------------------------- MODULE AiProvider -----------------------------
(* The providing side of the AI network in one room (src/src/ai/provider.rs,  *)
(* oai_tunnel.rs, mod.rs): every message is handled in a task of its own, so  *)
(* the parts of an upload are handled in any order; uploads are put together  *)
(* in bounded buffers, and the upstream calls run under limits per peer and   *)
(* in all.  A part of an upload is its number and counts as one byte;        *)
(* whether a request is authorized, valid and its model shared, and how its   *)
(* call ends, is open.                                                        *)
EXTENDS Naturals, Sequences, FiniteSets, SequencesExt, FiniteSetsExt

CONSTANTS
    AiPeer,          \* requesting peers
    AiReq,           \* request ids
    aiKind,          \* "llm", "tts", "stt" or "oai"
    UploadEnd,       \* number of the last part of an upload
    AiTask,          \* handler tasks: MAX_INFLIGHT_HANDLERS
    MaxJobs, MaxJobsPeer,           \* MAX_CONCURRENT_REMOTE_JOBS, MAX_JOBS_PER_PEER
    SttMax, SttMaxPeer, SttMaxBytes, SttMaxTotal,
    OaiMax, OaiMaxPeer, OaiMaxTotal,
    MaxAiLog,        \* DEFAULT_MAX_LOG_ENTRIES
    MaxDeltas,       \* bound on the deltas of a call
    MaxAiMessages,   \* bound on messages
    NoTask             \* a task without a job

ASSUME AiProviderAssumption ==
    /\ {MaxJobs, MaxJobsPeer, SttMax, SttMaxPeer, SttMaxBytes, SttMaxTotal, OaiMax, OaiMaxPeer,
        OaiMaxTotal, MaxAiLog} \subseteq Nat \ {0}
    /\ {UploadEnd, MaxDeltas, MaxAiMessages} \subseteq Nat
    /\ \A r \in AiReq : aiKind[r] \in {"llm", "tts", "stt", "oai"}

VARIABLES
    stt,         \* SttBuffers: bufs and total_bytes
    oai,         \* TunnelProvider.pending: the assemblies
    limiter,     \* JobLimiter of the provider and of the tunnel: permits left and counts
    aiTask,      \* the job a handler task has in hand, with what it was called with
    aiLog,       \* Provider.logs, newest first
    aiMessages

aiVars == <<stt, oai, limiter, aiTask, aiLog, aiMessages>>

Limiter == {"ai", "oai"}
LimiterOf(r) == IF aiKind[r] = "oai" THEN "oai" ELSE "ai"
Keys(bufs, p) == {k \in DOMAIN bufs : k[1] = p}
WithKey(bufs, k, b) == [j \in DOMAIN bufs \cup {k} |-> IF j = k THEN b ELSE bufs[j]]
WithoutKeys(bufs, K) == [j \in DOMAIN bufs \ K |-> bufs[j]]

AiInit ==
    /\ stt = [bufs |-> <<>>, total |-> 0] /\ oai = <<>>
    /\ limiter = [l \in Limiter |-> [left |-> MaxJobs, count |-> [p \in AiPeer |-> 0]]]
    /\ aiTask = [t \in AiTask |-> NoTask] /\ aiLog = <<>> /\ aiMessages = 0

(* A message is handled if a handler's permit is left.                       *)
Handles(t) == aiTask[t] = NoTask /\ aiMessages < MaxAiMessages /\ aiMessages' = aiMessages + 1

(* push_log *)
PushLog(log, r, status) ==
    IF \E i \in DOMAIN log : log[i].id = r
    THEN [i \in DOMAIN log |-> IF log[i].id = r THEN [id |-> r, status |-> status] ELSE log[i]]
    ELSE SubSeq(<<[id |-> r, status |-> status]>> \o log, 1, Min({Len(log) + 1, MaxAiLog}))

(* JobLimiter::try_acquire, of which the job's task keeps the guard.         *)
TryAcquire(p, r) ==
    LET l == limiter[LimiterOf(r)] IN l.count[p] < MaxJobsPeer /\ l.left > 0
StartJob(t, p, r, body) ==
    /\ limiter' = [limiter EXCEPT ![LimiterOf(r)].left = @ - 1, ![LimiterOf(r)].count[p] = @ + 1]
    /\ aiTask' = [aiTask EXCEPT ![t] = [peer |-> p, req |-> r, body |-> body, sent |-> 0]]
NoNewJob == UNCHANGED <<limiter, aiTask>>

-----------------------------------------------------------------------------
(* SttBuffers::remove *)
SttRemove(s, K) ==
    [bufs |-> WithoutKeys(s.bufs, K),
     total |-> s.total - FoldSet(LAMBDA k, n : n + Len(s.bufs[k].bytes), 0,
                                   K \cap DOMAIN s.bufs)]

(* Mutant: a swept buffer leaves its bytes in the total.                     *)
SttSweepForgets(s) == [s EXCEPT !.bufs = WithoutKeys(@, {k \in DOMAIN @ : @[k].old})]

SttSweep(s) == SttRemove(s, {k \in DOMAIN s.bufs : s.bufs[k].old})

(* SttBuffers::push of one part: what became of the buffers, and the upload  *)
(* if this was its last part.                                                *)
SttNext(s, k) == IF k \in DOMAIN s.bufs THEN s.bufs[k].next ELSE 0
SttBytes(s, k) == IF k \in DOMAIN s.bufs THEN s.bufs[k].bytes ELSE <<>>
SttFull(s, k) ==
    \/ k \notin DOMAIN s.bufs /\ (\/ Cardinality(DOMAIN s.bufs) >= SttMax
                                  \/ Cardinality(Keys(s.bufs, k[1])) >= SttMaxPeer)
    \/ Len(SttBytes(s, k)) + 1 > SttMaxBytes
    \/ s.total + 1 > SttMaxTotal

(* Mutant: a part is appended whatever its number.                           *)
SttTakesAny(s, k, seq) == ~SttFull(s, k)

SttTakes(s, k, seq) == seq = SttNext(s, k) /\ ~SttFull(s, k)

SttPush(s, k, seq) ==
    LET got == Append(SttBytes(s, k), seq)
        with == [bufs |-> WithKey(s.bufs, k, [bytes |-> got, next |-> seq + 1, old |-> FALSE]),
                 total |-> s.total + 1]
    IN  IF ~SttTakes(s, k, seq) THEN SttRemove(s, {k})
        ELSE IF seq = UploadEnd THEN SttRemove(with, {k}) ELSE with

(* handle_stt_request: the first part of an upload is authorized; a part that *)
(* cannot be decoded ends the upload; a complete upload becomes a job unless  *)
(* the provider is busy.                                                      *)
SttChunk(t, p, r, seq, ok) ==
    LET s == SttSweep(stt)
        k == <<p, r>>
        ready == ok /\ SttTakes(s, k, seq) /\ seq = UploadEnd
    IN  /\ aiKind[r] = "stt" /\ Handles(t)
        /\ stt' = IF ok THEN SttPush(s, k, seq) ELSE SttRemove(s, {k})
        /\ IF ready /\ TryAcquire(p, r)
           THEN StartJob(t, p, r, Append(SttBytes(s, k), seq)) ELSE NoNewJob
        /\ UNCHANGED <<oai, aiLog>>

SttDenied(t, p, r) ==
    /\ aiKind[r] = "stt" /\ Handles(t)
    /\ <<p, r>> \notin DOMAIN SttSweep(stt).bufs
    /\ stt' = SttSweep(stt) /\ aiLog' = PushLog(aiLog, r, "error")
    /\ NoNewJob /\ UNCHANGED oai

-----------------------------------------------------------------------------
(* Assembly::push: parts in any order, each once, none behind the last.      *)
NoParts == [parts |-> {}, last |-> {}, old |-> FALSE]
OaiRejects(a, seq) ==
    \/ \E end \in a.last : seq > end \/ (seq = UploadEnd /\ seq # end)
    \/ seq = UploadEnd /\ \E n \in a.parts : n > seq
OaiPush(a, seq) ==
    IF seq \in a.parts THEN [a EXCEPT !.old = FALSE]
    ELSE [parts |-> a.parts \cup {seq}, old |-> FALSE,
          last |-> IF seq = UploadEnd THEN {seq} ELSE a.last]
OaiReady(a) == \E end \in a.last : Cardinality(a.parts) = end + 1

(* TunnelProvider::handle_message_in_room                                    *)
OaiFull(bufs, k) ==
    \/ k \notin DOMAIN bufs /\ (\/ Cardinality(DOMAIN bufs) >= OaiMax
                                \/ Cardinality(Keys(bufs, k[1])) >= OaiMaxPeer)
    \/ FoldSet(LAMBDA j, n : n + Cardinality(bufs[j].parts), 0, DOMAIN bufs) + 1 > OaiMaxTotal

OaiChunk(t, p, r, seq) ==
    LET kept == WithoutKeys(oai, {k \in DOMAIN oai : oai[k].old})
        k == <<p, r>>
        a == IF k \in DOMAIN kept THEN kept[k] ELSE NoParts
        b == OaiPush(a, seq)
        refused == OaiFull(kept, k) \/ (seq \notin a.parts /\ OaiRejects(a, seq))
        ready == ~refused /\ seq \notin a.parts /\ OaiReady(b)
    IN  /\ aiKind[r] = "oai" /\ Handles(t)
        /\ oai' = IF refused \/ ready THEN WithoutKeys(kept, {k}) ELSE WithKey(kept, k, b)
        /\ IF ready /\ TryAcquire(p, r)
           THEN StartJob(t, p, r, SetToSortSeq(b.parts, <))
           ELSE NoNewJob
        /\ UNCHANGED <<stt, aiLog>>

OaiDenied(t, p, r) ==
    LET kept == WithoutKeys(oai, {k \in DOMAIN oai : oai[k].old}) IN
    /\ aiKind[r] = "oai" /\ Handles(t) /\ <<p, r>> \notin DOMAIN kept
    /\ oai' = kept /\ aiLog' = PushLog(aiLog, r, "error")
    /\ NoNewJob /\ UNCHANGED stt

-----------------------------------------------------------------------------
(* Mutant: a request that is refused stays in the log as it began.           *)
LlmLogStarts(started) == "started"

LlmLog(started) == IF started THEN "started" ELSE "error"

(* handle_llm_request up to its call: denied, too large, busy or of a model   *)
(* that is not shared, or started.                                           *)
LlmRequest(t, p, r, wanted) ==
    LET started == wanted /\ TryAcquire(p, r) IN
    /\ aiKind[r] = "llm" /\ Handles(t)
    /\ aiLog' = PushLog(aiLog, r, LlmLog(started))
    /\ IF started THEN StartJob(t, p, r, <<>>) ELSE NoNewJob
    /\ UNCHANGED <<stt, oai>>

(* handle_tts_request: only a denial is logged.                              *)
TtsRequest(t, p, r, denied) ==
    /\ aiKind[r] = "tts" /\ Handles(t)
    /\ aiLog' = IF denied THEN PushLog(aiLog, r, "error") ELSE aiLog
    /\ IF ~denied /\ TryAcquire(p, r) THEN StartJob(t, p, r, <<>>) ELSE NoNewJob
    /\ UNCHANGED <<stt, oai>>

(* record_chunk *)
RecordChunk(t) ==
    /\ aiTask[t] # NoTask /\ aiKind[aiTask[t].req] = "llm" /\ aiTask[t].sent < MaxDeltas
    /\ aiTask' = [aiTask EXCEPT ![t].sent = @ + 1]
    /\ aiLog' = PushLog(aiLog, aiTask[t].req, "streaming")
    /\ UNCHANGED <<stt, oai, limiter, aiMessages>>

(* The upstream call returned, failed or timed out: it is charged, answered   *)
(* and logged, and JobGuard::drop gives the permit back.                     *)
JobEnds(t, status) ==
    LET j == aiTask[t] IN
    /\ j # NoTask /\ aiTask' = [aiTask EXCEPT ![t] = NoTask]
    /\ limiter' = [limiter EXCEPT ![LimiterOf(j.req)].left = @ + 1,
                                  ![LimiterOf(j.req)].count[j.peer] = @ - 1]
    /\ aiLog' = IF aiKind[j.req] = "llm" THEN PushLog(aiLog, j.req, status) ELSE aiLog
    /\ UNCHANGED <<stt, oai, aiMessages>>

(* on_peer_left: the tunnel's assemblies, then the buffers.                  *)
AiPeerLeaves(p) ==
    /\ Keys(stt.bufs, p) \cup Keys(oai, p) # {}
    /\ oai' = WithoutKeys(oai, Keys(oai, p))
    /\ stt' = SttRemove(stt, Keys(stt.bufs, p))
    /\ UNCHANGED <<limiter, aiTask, aiLog, aiMessages>>

(* STT_BUFFER_TTL or TIMEOUT passes without a part.                          *)
AiTime ==
    /\ \/ /\ \E k \in DOMAIN stt.bufs : ~stt.bufs[k].old /\ stt' = [stt EXCEPT !.bufs[k].old = TRUE]
          /\ UNCHANGED oai
       \/ /\ \E k \in DOMAIN oai : ~oai[k].old /\ oai' = [oai EXCEPT ![k].old = TRUE]
          /\ UNCHANGED stt
    /\ UNCHANGED <<limiter, aiTask, aiLog, aiMessages>>

AiProviderNext ==
    \/ \E t \in AiTask, p \in AiPeer, r \in AiReq :
          \/ \E seq \in 0..UploadEnd :
                OaiChunk(t, p, r, seq) \/ \E ok \in BOOLEAN : SttChunk(t, p, r, seq, ok)
          \/ SttDenied(t, p, r) \/ OaiDenied(t, p, r)
          \/ \E b \in BOOLEAN : LlmRequest(t, p, r, b) \/ TtsRequest(t, p, r, b)
    \/ \E t \in AiTask : RecordChunk(t) \/ \E status \in {"done", "error"} : JobEnds(t, status)
    \/ \E p \in AiPeer : AiPeerLeaves(p)
    \/ AiTime

AiProviderSpec == AiInit /\ [][AiProviderNext]_aiVars

-----------------------------------------------------------------------------
(* Types of the state.                                                       *)
AiProviderTypeOK ==
    /\ DOMAIN stt.bufs \subseteq AiPeer \X AiReq /\ DOMAIN oai \subseteq AiPeer \X AiReq
    /\ \A k \in DOMAIN oai : oai[k].parts \subseteq 0..UploadEnd
    /\ \A t \in AiTask :
          aiTask[t] = NoTask \/ (aiTask[t].peer \in AiPeer /\ aiTask[t].req \in AiReq)
    /\ Len(aiLog) <= MaxAiLog

Jobs(l, p) ==
    {t \in AiTask : aiTask[t] # NoTask /\ LimiterOf(aiTask[t].req) = l /\ aiTask[t].peer = p}

(* The provider's accounts are true (JobLimiter, SttBuffers, push_log): on     *)
(* every path - overflow, a missing part, expiry, departure, refusal and      *)
(* failure - the counts of jobs and bytes that requests are refused by are    *)
(* those of the jobs and uploads there are, within their limits, and a        *)
(* request logged as begun has a job.                                         *)
AiAccountsTrue ==
    /\ \A l \in Limiter :
          /\ \A p \in AiPeer : limiter[l].count[p] = Cardinality(Jobs(l, p))
                               /\ limiter[l].count[p] <= MaxJobsPeer
          /\ limiter[l].left + SumFunction(limiter[l].count) = MaxJobs
    /\ stt.total = FoldSet(LAMBDA k, n : n + Len(stt.bufs[k].bytes), 0, DOMAIN stt.bufs)
    /\ stt.total <= SttMaxTotal /\ Cardinality(DOMAIN stt.bufs) <= SttMax
    /\ \A i \in DOMAIN aiLog : aiLog[i].status \in {"started", "streaming"} =>
          \E t \in AiTask : aiTask[t] # NoTask /\ aiTask[t].req = aiLog[i].id

(* An upload reaches the upstream whole and in order (SttBuffers::push,        *)
(* Assembly::push), although its parts are handled in any order, repeated or  *)
(* lost, and its buffer may have been dropped and begun again.                *)
UploadsWhole ==
    \A t \in AiTask : aiTask[t] # NoTask /\ aiKind[aiTask[t].req] \in {"stt", "oai"} =>
        aiTask[t].body = [i \in 1..UploadEnd + 1 |-> i - 1]
=============================================================================
