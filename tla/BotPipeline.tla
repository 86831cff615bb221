----------------------------- MODULE BotPipeline -----------------------------
(* One pipeline of the bot engine (src/src/bot): wires announced in a room   *)
(* are buffered in memory, polled oldest first, transformed once, queued in  *)
(* a durable outbox and delivered to every configured sink, with a receipt   *)
(* saved after each.  Runs are started by the tick loop and by bot.run and   *)
(* exclude each other.  An item is the number that orders it by timestamp.   *)
(* The daemon may crash at every step; a write to disk may fail, and then    *)
(* the run ends with the file as it was.                                     *)
EXTENDS Naturals, Sequences, FiniteSets, SequencesExt, FiniteSetsExt

CONSTANTS
    Item,           \* announced items, numbered in timestamp order
    kindOf,         \* "article", "excluded" (filtered body) or "ignored" (author)
    senderOf,       \* who signed the announcement
    Sink,           \* sinks, a sink being its configuration's digest
    Capacity,       \* outbox::CAPACITY
    MaxItems,       \* MAX_ITEMS_PER_RUN
    PollLimit,      \* POLL_CANDIDATE_LIMIT
    ProcessedCap,   \* PROCESSED_IDS_CAP
    BufCap,         \* BUFFER_CAP_PER_ROOM
    SenderCap,      \* MAX_BUFFERED_PER_SENDER
    MaxBotEvents,   \* bound on crashes, failed runs and configuration changes
    MaxSent,        \* bound on the deliveries counted
    NoItem

ASSUME BotAssumption ==
    /\ Item \subseteq Nat /\ NoItem \notin Item
    /\ kindOf \in [Item -> {"article", "excluded", "ignored"}]
    /\ {Capacity, PollLimit, ProcessedCap, BufCap, SenderCap} \subseteq Nat \ {0}
    /\ MaxItems \in Nat /\ MaxItems > 2
    /\ {MaxBotEvents, MaxSent} \subseteq Nat

VARIABLES
    bot,        \* bot.pipelines entry: enabled and its sinks
    tick,       \* PipelineTickState.next_fire: "off", "later" or "now"
    fired,      \* the entry take_due returned, until its guard is taken
    buf,        \* GlobalArticlesHub.buffers, the ChatHub's alike
    polls,      \* PollOrder.attempted, as ranks
    run,        \* the run holding RunningGuard
    queue,      \* the run's copy of the outbox
    qfile,      \* bot-outbox-<digest>.json
    processed,  \* bot-imported-<id>.json, oldest first
    sent,       \* deliveries each sink received of each item
    botEvents

botVars == <<bot, tick, fired, buf, polls, run, queue, qfile, processed, sent,
             botEvents>>

OutboxEntry == [id : Item, got : SUBSET Sink, stamp : 0..Capacity + 1]
Phases == {"load", "retry", "attempt", "mark", "remove", "poll", "import",
           "enqueued"}
NoRun == [phase |-> "idle"]
Run == [phase : Phases, sinks : SUBSET Sink, retry : Seq(Item), cands : Seq(Item),
        item : Item \cup {NoItem}, todo : SUBSET Sink, back : {"retry", "import"},
        attempted : 0..MaxItems]

(* Types of the state: the outbox, the buffers and the ids are within caps.  *)
BotTypeOK ==
    /\ bot \in [enabled : BOOLEAN, sinks : SUBSET Sink]
    /\ tick \in {"off", "later", "now"}
    /\ fired \in SUBSET {[sinks |-> s] : s \in SUBSET Sink} /\ Cardinality(fired) <= 1
    /\ buf \in Seq(Item) /\ Len(buf) <= BufCap
    /\ polls \in [Item -> Nat]
    /\ run = NoRun \/ run \in Run
    /\ queue \in Seq(OutboxEntry) /\ qfile \in Seq(OutboxEntry) /\ Len(qfile) <= Capacity
    /\ processed \in Seq(Item) /\ Len(processed) <= ProcessedCap
    /\ sent \in [Item -> [Sink -> 0..MaxSent]]
    /\ botEvents \in 0..MaxBotEvents

BotInit ==
    /\ bot = [enabled |-> TRUE, sinks |-> Sink]
    /\ tick = "later" /\ fired = {}
    /\ buf = <<>> /\ polls = [i \in Item |-> 0]
    /\ run = NoRun /\ queue = <<>> /\ qfile = <<>> /\ processed = <<>>
    /\ sent = [i \in Item |-> [k \in Sink |-> 0]]
    /\ botEvents = 0

Ids(q) == {q[n].id : n \in DOMAIN q}
IndexOf(q, i) == CHOOSE n \in DOMAIN q : q[n].id = i
Suffix(s, n) == SubSeq(s, IF Len(s) > n THEN Len(s) - n + 1 ELSE 1, Len(s))
Without(s, x) == SelectSeq(s, LAMBDA y : y # x)

(***************************************************************************)
(* The receive buffer and the poll.                                          *)
(***************************************************************************)

(* push_capped: a sender at its cap loses its own oldest wire first, then    *)
(* the whole buffer is trimmed from the front.                               *)
PushCapped(b, i) ==
    LET own == SelectSeq(b, LAMBDA y : senderOf[y] = senderOf[i])
        room == IF Len(own) >= SenderCap THEN Without(b, own[1]) ELSE b
    IN  Suffix(Append(room, i), BufCap)

(* The room handlers: a verified announcement of an id not in the buffer.    *)
Announce(i) ==
    /\ i \notin Range(buf)
    /\ buf' = PushCapped(buf, i)
    /\ UNCHANGED <<bot, tick, fired, polls, run, queue, qfile, processed, sent,
                   botEvents>>

(* The wires a poll considers: not processed, not this bot's own and from a  *)
(* trusted author, by timestamp.                                             *)
Unresolved ==
    SetToSortSeq({i \in Range(buf) : i \notin Range(processed) /\ kindOf[i] # "ignored"},
                 LAMBDA x, y : x < y)

(* PollOrder.select sorts stably by the generation of the last attempt and   *)
(* keeps POLL_CANDIDATE_LIMIT items.                                         *)
Selected ==
    LET byRank == FlattenSeq([g \in 1..Cardinality(Item) + 1 |->
                    SelectSeq(Unresolved, LAMBDA i : polls[i] = g - 1)])
    IN  SubSeq(byRank, 1, Min({PollLimit, Len(byRank)}))

(* The selected items get a generation above all others; ranks stand for the *)
(* generations, and items no longer live are forgotten.                      *)
Polled ==
    LET top == Cardinality(Item) + 1
        gen == [i \in Item |-> IF i \in Range(Selected) THEN top
                               ELSE IF i \in Range(Unresolved) THEN polls[i] ELSE 0]
    IN  [i \in Item |-> Cardinality({gen[j] : j \in {x \in Item : 0 < gen[x] /\ gen[x] <= gen[i]}})]

(***************************************************************************)
(* The outbox file.                                                          *)
(***************************************************************************)

(* last_attempt orders the retries; its rank among the queued stamps stands  *)
(* for the clock.                                                            *)
Ranked(q) ==
    [n \in DOMAIN q |-> [q[n] EXCEPT !.stamp =
        Cardinality({m \in DOMAIN q : 0 < q[m].stamp /\ q[m].stamp <= q[n].stamp})]]
Stamped(q, i) == Ranked([q EXCEPT ![IndexOf(q, i)].stamp = Capacity + 2])

(* Mutant: the queue keeps its order.                                        *)
SortByNothing(q) == q

(* queue.sort_by_key(last_attempt) is stable.                                *)
SortByAttempt(q) ==
    FlattenSeq([s \in 1..Capacity + 2 |-> SelectSeq(q, LAMBDA e : e.stamp = s - 1)])

Save(q) == queue' = q /\ qfile' = q

(* mark_processed: an id already there keeps its place; the oldest ids go.   *)
MarkProcessed(i) ==
    processed' = IF i \in Range(processed) THEN processed
                 ELSE Suffix(Append(processed, i), ProcessedCap)

(***************************************************************************)
(* Starting a run.                                                           *)
(***************************************************************************)

Elapses ==
    /\ tick = "later" /\ tick' = "now"
    /\ UNCHANGED <<bot, fired, buf, polls, run, queue, qfile, processed, sent,
                   botEvents>>

(* take_due: a due pipeline is collected and re-anchored, unless it is still *)
(* running, when it stays due.                                               *)
TakeDue ==
    /\ bot.enabled /\ tick = "now" /\ fired = {}
    /\ run = NoRun
    /\ fired' = {[sinks |-> bot.sinks]}
    /\ tick' = "later"
    /\ UNCHANGED <<bot, buf, polls, run, queue, qfile, processed, sent, botEvents>>

StartRun(sinks) ==
    run' = [phase |-> "load", sinks |-> sinks, retry |-> <<>>, cands |-> <<>>,
            item |-> NoItem, todo |-> {}, back |-> "retry", attempted |-> 0]

(* run_background takes the guard for what take_due returned; a bot.run that *)
(* got there first makes it skip this fire.                                  *)
TickStart ==
    /\ fired # {} /\ fired' = {}
    /\ IF run = NoRun THEN \E f \in fired : StartRun(f.sinks) ELSE UNCHANGED run
    /\ UNCHANGED <<bot, tick, buf, polls, queue, qfile, processed, sent, botEvents>>

(* cmd_run: bot.run works for a disabled pipeline too, and is refused while   *)
(* the pipeline runs.                                                        *)
CmdRun ==
    /\ run = NoRun
    /\ StartRun(bot.sinks)
    /\ UNCHANGED <<bot, tick, fired, buf, polls, queue, qfile, processed, sent,
                   botEvents>>

(* cmd_set_enabled saves the configuration and re-anchors the tick state.    *)
CmdSetEnabled(e) ==
    /\ botEvents < MaxBotEvents /\ botEvents' = botEvents + 1
    /\ bot' = [bot EXCEPT !.enabled = e]
    /\ tick' = IF ~e THEN "off" ELSE IF tick = "off" THEN "later" ELSE tick
    /\ UNCHANGED <<fired, buf, polls, run, queue, qfile, processed, sent>>

(* config.set of bot.pipelines: the next run reads the new sinks.            *)
SetSinks(s) ==
    /\ botEvents < MaxBotEvents /\ botEvents' = botEvents + 1
    /\ bot' = [bot EXCEPT !.sinks = s]
    /\ UNCHANGED <<tick, fired, buf, polls, run, queue, qfile, processed, sent>>

(***************************************************************************)
(* run_pipeline_work.                                                        *)
(***************************************************************************)

(* run_pipeline returns its record and the guard is dropped.                  *)
RunEnd == run' = NoRun /\ queue' = <<>>

(* Loads the outbox, drops what is processed, sorts by last attempt, saves,   *)
(* and picks the retries, two of the run's slots being kept for fresh items. *)
RunLoad ==
    /\ run.phase = "load"
    /\ IF run.sinks = {}
       THEN RunEnd /\ UNCHANGED qfile
       ELSE LET q == SortByAttempt(SelectSeq(qfile,
                        LAMBDA e : e.id \notin Range(processed)))
                n == Min({MaxItems - 2, Len(q)})
            IN  /\ Save(q)
                /\ run' = [run EXCEPT !.phase = "retry",
                                      !.retry = [m \in 1..n |-> q[m].id]]
    /\ UNCHANGED <<bot, tick, fired, buf, polls, processed, sent, botEvents>>

(* attempt stamps and saves the entry before the first sink.                 *)
AttemptStart(i, rest) ==
    /\ Save(Stamped(queue, i))
    /\ run' = [rest EXCEPT !.phase = "attempt", !.item = i, !.todo = rest.sinks,
                           !.attempted = @ + 1]

RunRetry ==
    /\ run.phase = "retry"
    /\ IF run.retry # <<>>
       THEN AttemptStart(run.retry[1], [run EXCEPT !.retry = Tail(@)])
       ELSE /\ IF Len(queue) >= Capacity THEN RunEnd
               ELSE /\ run' = [run EXCEPT !.phase = "poll", !.back = "import"]
                    /\ UNCHANGED queue
            /\ UNCHANGED qfile
    /\ UNCHANGED <<bot, tick, fired, buf, polls, processed, sent, botEvents>>

(* Mutant: the receipts of earlier attempts are not looked at.               *)
AttemptSinkAgain(k) ==
    /\ run.phase = "attempt" /\ k \in run.todo
    /\ run' = [run EXCEPT !.todo = @ \ {k}]
    /\ sent' = [sent EXCEPT ![run.item][k] = Min({@ + 1, MaxSent})]
    /\ Save([queue EXCEPT ![IndexOf(queue, run.item)].got = @ \cup {k}])
    /\ UNCHANGED <<bot, tick, fired, buf, polls, processed, botEvents>>

(* One sink of the attempt: skipped when its receipt is there; otherwise it   *)
(* takes the item and the receipt is saved, or it fails, or it fails after    *)
(* having taken the item (an error or DELIVERY_TIMEOUT after the request was  *)
(* served, a chat post whose second wire fails).                             *)
AttemptSink(k) ==
    /\ run.phase = "attempt" /\ k \in run.todo
    /\ LET n == IndexOf(queue, run.item)
           took == [sent EXCEPT ![run.item][k] = Min({@ + 1, MaxSent})]
       IN  \/ /\ k \in queue[n].got
              /\ run' = [run EXCEPT !.todo = @ \ {k}]
              /\ UNCHANGED <<sent, queue, qfile>>
           \/ /\ k \notin queue[n].got
              /\ run' = [run EXCEPT !.todo = @ \ {k}]
              /\ sent' = took
              /\ Save([queue EXCEPT ![n].got = @ \cup {k}])
           \/ /\ k \notin queue[n].got
              /\ run' = [run EXCEPT !.todo = @ \ {k}]
              /\ sent' \in {sent, took}
              /\ UNCHANGED <<queue, qfile>>
    /\ UNCHANGED <<bot, tick, fired, buf, polls, processed, botEvents>>

(* All sinks were tried: with a receipt from each the item is completed,     *)
(* else it stays queued for a later run and this run goes on.                *)
AttemptEnd ==
    /\ run.phase = "attempt" /\ run.todo = {}
    /\ run' = IF run.sinks \subseteq queue[IndexOf(queue, run.item)].got
              THEN [run EXCEPT !.phase = "mark"]
              ELSE [run EXCEPT !.phase = run.back, !.item = NoItem]
    /\ UNCHANGED <<bot, tick, fired, buf, polls, queue, qfile, processed, sent,
                   botEvents>>

(* The completed item is marked processed in one file and only then removed  *)
(* from the other.                                                           *)
AttemptMark ==
    /\ run.phase = "mark"
    /\ MarkProcessed(run.item)
    /\ run' = [run EXCEPT !.phase = "remove"]
    /\ UNCHANGED <<bot, tick, fired, buf, polls, queue, qfile, sent, botEvents>>

AttemptRemove ==
    /\ run.phase = "remove"
    /\ Save(RemoveAt(queue, IndexOf(queue, run.item)))
    /\ run' = [run EXCEPT !.phase = run.back, !.item = NoItem]
    /\ UNCHANGED <<bot, tick, fired, buf, polls, processed, sent, botEvents>>

(* poll_candidates: each selected body is fetched, or is left for a later    *)
(* poll when the fetch fails.                                                *)
RunPoll ==
    /\ run.phase = "poll"
    /\ polls' = Polled
    /\ \E got \in SUBSET Range(Selected) :
          run' = [run EXCEPT !.phase = "import",
                             !.cands = SelectSeq(Selected, LAMBDA i : i \in got)]
    /\ UNCHANGED <<bot, tick, fired, buf, queue, qfile, processed, sent, botEvents>>

(* The next candidate: one already queued is passed over, a filtered one is   *)
(* marked processed, an article is transformed, enqueued and attempted.  The *)
(* run ends when candidates, slots or queue space are used up.               *)
RunImport ==
    /\ run.phase = "import"
    /\ IF run.cands = <<>> \/ run.attempted >= MaxItems \/ Len(queue) >= Capacity
       THEN RunEnd /\ UNCHANGED <<qfile, processed>>
       ELSE LET i == run.cands[1]
                rest == [run EXCEPT !.cands = Tail(@)]
            IN  \/ /\ i \in Ids(queue)
                   /\ run' = rest /\ UNCHANGED <<queue, qfile, processed>>
                \/ /\ i \notin Ids(queue) /\ kindOf[i] = "excluded"
                   /\ MarkProcessed(i)
                   /\ run' = [rest EXCEPT !.attempted = @ + 1]
                   /\ UNCHANGED <<queue, qfile>>
                \/ /\ i \notin Ids(queue) /\ kindOf[i] = "article"
                   /\ Save(Append(queue, [id |-> i, got |-> {}, stamp |-> 0]))
                   /\ run' = [rest EXCEPT !.phase = "enqueued", !.item = i]
                   /\ UNCHANGED processed
    /\ UNCHANGED <<bot, tick, fired, buf, polls, sent, botEvents>>

RunDeliverFresh ==
    /\ run.phase = "enqueued"
    /\ AttemptStart(run.item, run)
    /\ UNCHANGED <<bot, tick, fired, buf, polls, processed, sent, botEvents>>

(* A write fails, the source or a transform fails: the run ends there.       *)
RunFails ==
    /\ run # NoRun
    /\ botEvents < MaxBotEvents /\ botEvents' = botEvents + 1
    /\ RunEnd
    /\ UNCHANGED <<bot, tick, fired, buf, polls, qfile, processed, sent>>

(* The daemon stops anywhere and init_engine anchors the pipeline afresh;     *)
(* only the files survive.                                                   *)
BotRestart ==
    /\ botEvents < MaxBotEvents /\ botEvents' = botEvents + 1
    /\ RunEnd /\ fired' = {}
    /\ buf' = <<>> /\ polls' = [i \in Item |-> 0]
    /\ tick' = IF bot.enabled THEN "later" ELSE "off"
    /\ UNCHANGED <<bot, qfile, processed, sent>>

BotStep == \/ Elapses \/ TakeDue \/ TickStart
           \/ RunLoad \/ RunRetry \/ (\E k \in Sink : AttemptSink(k))
           \/ AttemptEnd \/ AttemptMark \/ AttemptRemove
           \/ RunPoll \/ RunImport \/ RunDeliverFresh

BotNext == \/ BotStep
           \/ \E i \in Item : Announce(i)
           \/ CmdRun
           \/ \E e \in BOOLEAN : CmdSetEnabled(e)
           \/ \E s \in SUBSET Sink : SetSinks(s)
           \/ RunFails \/ BotRestart

BotSpec == BotInit /\ [][BotNext]_botVars

(* The tick loop, the timeouts of a delivery and of a fetch keep a run going; *)
(* none of them depends on a peer.                                           *)
BotFairSpec == BotSpec /\ WF_botVars(BotStep)

Receipt(i, k) == \E n \in DOMAIN qfile : qfile[n].id = i /\ k \in qfile[n].got

(* Delivery (Outbox, deliver): a sink whose receipt for an item is on disk,   *)
(* in the outbox or because the item is processed, never gets that item       *)
(* again; an item leaves the outbox only once it is marked processed; and an  *)
(* article is marked processed only when every sink of the run has had it -   *)
(* after a crash between the two files, edits of the sinks and overlapping    *)
(* runs too.                                                                  *)
BotDelivery ==
    [][/\ \A i \in Item, k \in Sink :
             Receipt(i, k) \/ i \in Range(processed) => sent'[i][k] = sent[i][k]
       /\ Ids(qfile) \ Ids(qfile') \subseteq Range(processed)
       /\ \A i \in Range(processed') \ Range(processed) :
             kindOf[i] = "article" => \A k \in run.sinks : sent[i][k] > 0]_botVars

(* Retries rotate: with the pipeline enabled and configured, a queued item   *)
(* is attempted again however long other items keep failing.                 *)
BotRetried ==
    <>[](bot.enabled /\ bot.sinks # {}) =>
        \A i \in Item : i \in Ids(qfile) ~>
            (i \notin Ids(qfile) \/ (run # NoRun /\ run.phase = "attempt" /\ run.item = i))

=============================================================================
