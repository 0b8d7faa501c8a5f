--------------------------- MODULE SigmaEventLoop ---------------------------
(***************************************************************************)
(* The streaming half of the Sigma engine: a consumer reads events from    *)
(* Kafka, workers match them and raise alerts, a publisher hands each      *)
(* alert to the Kafka producer and to the writer of the alert table, and   *)
(* Stop takes the stages down one after the other.                         *)
(*                                                                         *)
(* An event is its number in the topic.  kind[e] is what it does to the    *)
(* rules: a key (rule and agent) it raises an alert for, "none", or "bad"  *)
(* when it cannot be parsed.  An alert has the number of its event.  The   *)
(* time to live of a suppression entry and the deduplication window of a   *)
(* row end by an action each.                                              *)
(***************************************************************************)
EXTENDS Naturals, Sequences, FiniteSets

CONSTANTS
    Workers, Keys,
    EventCap, AlertCap, ProducerCap, WriterCap,   \* capacities of the channels
    BatchSize,                                    \* of producer and writer
    MaxEvents                                     \* bound of the model

ASSUME LoopAssumption ==
    /\ {"none", "bad", "unread"} \cap Keys = {}
    /\ {EventCap, AlertCap, ProducerCap, WriterCap, MaxEvents} \subseteq Nat
    /\ BatchSize \in Nat \ {0}

Events == 1 .. MaxEvents
Idle == [at |-> "idle", e |-> 0]
Gone == [at |-> "gone", e |-> 0]

VARIABLES
    kind,       \* of each event, chosen when it is read
    consumer,   \* where consumeLoop is, and the event it holds
    eventChan, eventsOpen,
    worker,
    entries,    \* suppression: the keys with a live entry
    window,     \* the alerts each key let through since its entry was made
    alertChan, alertsOpen,
    publisher,
    prodChan, prodBatch, producer,
    topic,      \* the alerts the broker has
    writeChan, writeBatch, writer,
    rows,       \* sigma_alerts: the alert that made the row, those it counts, in the window
    ctxDone,    \* the process was told to end
    stop,       \* where EventLoop.Stop is
    gaveUp      \* the alerts the producer gave up, after an error or a timeout

input == <<kind, consumer, eventChan, eventsOpen>>
detect == <<worker, entries, window>>
output == <<prodChan, prodBatch, producer, topic>>
store == <<writeChan, writeBatch, writer, rows>>
vars == <<input, detect, alertChan, alertsOpen, publisher, output, store, ctxDone, stop, gaveUp>>

Kinds == Keys \cup {"none", "bad"}
Place(places) == [at : places, e : 0 .. MaxEvents]

TypeOK ==
    /\ kind \in [Events -> Kinds \cup {"unread"}]
    /\ consumer \in Place({"idle", "sending", "gone"})
    /\ eventChan \in Seq(Events) /\ Len(eventChan) <= EventCap
    /\ worker \in [Workers -> Place({"idle", "checked", "sending", "gone"})]
    /\ entries \subseteq Keys /\ window \in [Keys -> SUBSET Events]
    /\ alertChan \in Seq(Events) /\ Len(alertChan) <= AlertCap
    /\ publisher \in Place({"idle", "writing", "gone"})
    /\ prodChan \in Seq(Events) /\ Len(prodChan) <= ProducerCap
    /\ prodBatch \in Seq(Events) /\ Len(prodBatch) <= BatchSize
    /\ writeChan \in Seq(Events) /\ Len(writeChan) <= WriterCap
    /\ writeBatch \in Seq(Events) /\ Len(writeBatch) <= BatchSize
    /\ producer \in {"idle", "gone"}
    /\ writer \in Place({"idle", "flushing", "found", "last", "gone"})
    /\ topic \subseteq Events
    /\ \A r \in rows : r.ids \subseteq Events /\ r.recent \in BOOLEAN
    /\ stop \in {"no", "consumer", "grace", "wait", "producer", "done"}
    /\ eventsOpen \in BOOLEAN /\ alertsOpen \in BOOLEAN /\ ctxDone \in BOOLEAN
    /\ gaveUp \subseteq Events

Init ==
    /\ kind = [e \in Events |-> "unread"]
    /\ consumer = Idle
    /\ eventChan = <<>> /\ eventsOpen = TRUE
    /\ worker = [w \in Workers |-> Idle]
    /\ entries = {} /\ window = [k \in Keys |-> {}]
    /\ alertChan = <<>> /\ alertsOpen = TRUE
    /\ publisher = Idle
    /\ prodChan = <<>> /\ prodBatch = <<>> /\ producer = "idle"
    /\ topic = {}
    /\ writeChan = <<>> /\ writeBatch = <<>> /\ writer = Idle
    /\ rows = {}
    /\ ctxDone = FALSE /\ stop = "no" /\ gaveUp = {}

GivesUp(alerts) == gaveUp' = gaveUp \cup alerts

-----------------------------------------------------------------------------
(* EventConsumer.consumeLoop.                                              *)

(* ReadMessage commits as it reads.  What cannot be parsed is skipped. *)
ReadMessage(k) ==
    LET e == Cardinality({x \in Events : kind[x] # "unread"}) + 1 IN
    /\ consumer = Idle
    /\ ~ctxDone
    /\ e \in Events
    /\ kind' = [kind EXCEPT ![e] = k]
    /\ consumer' = IF k = "bad" THEN Idle ELSE [at |-> "sending", e |-> e]
    /\ UNCHANGED <<eventChan, eventsOpen, detect, alertChan, alertsOpen, publisher, output, store,
                   ctxDone, stop, gaveUp>>

(* Sent, or dropped when the channel stays full for five seconds. *)
SendEvent ==
    /\ consumer.at = "sending"
    /\ \/ /\ Len(eventChan) < EventCap
          /\ eventChan' = Append(eventChan, consumer.e)
       \/ Len(eventChan) = EventCap /\ UNCHANGED eventChan
    /\ consumer' = Idle
    /\ UNCHANGED <<kind, eventsOpen, detect, alertChan, alertsOpen, publisher, output, store,
                   ctxDone, stop, gaveUp>>

(* Faulty variant: the event held is sent first, with nothing to give up. *)
ConsumerEndsAfterSend ==
    /\ ctxDone /\ consumer.at = "sending" /\ Len(eventChan) < EventCap
    /\ consumer' = Gone
    /\ eventsOpen' = FALSE
    /\ UNCHANGED <<kind, eventChan, detect, alertChan, alertsOpen, publisher, output, store,
                   ctxDone, stop, gaveUp>>

(* The deferred closes run as the loop returns. *)
ConsumerEnds ==
    /\ ctxDone /\ consumer.at # "gone"
    /\ consumer' = Gone
    /\ eventsOpen' = FALSE
    /\ UNCHANGED <<kind, eventChan, detect, alertChan, alertsOpen, publisher, output, store,
                   ctxDone, stop, gaveUp>>

-----------------------------------------------------------------------------
(* detectionWorker and processOneEvent.                                    *)

(* shouldSuppress looks under the read lock first. *)
Detect(w) ==
    LET e == Head(eventChan) IN
    /\ worker[w] = Idle
    /\ eventChan # <<>>
    /\ eventChan' = Tail(eventChan)
    /\ worker' = [worker EXCEPT ![w] =
                     IF kind[e] \in Keys \ entries THEN [at |-> "checked", e |-> e] ELSE Idle]
    /\ UNCHANGED <<kind, consumer, eventsOpen, entries, window, alertChan, alertsOpen, publisher,
                   output, store, ctxDone, stop, gaveUp>>

(* Faulty variant: the entry is not looked at again under the write lock. *)
SuppressBlindly(w) ==
    LET k == kind[worker[w].e] IN
    /\ worker[w].at = "checked"
    /\ entries' = entries \cup {k}
    /\ window' = [window EXCEPT ![k] = @ \cup {worker[w].e}]
    /\ worker' = [worker EXCEPT ![w].at = "sending"]
    /\ UNCHANGED <<input, alertChan, alertsOpen, publisher, output, store, ctxDone, stop, gaveUp>>

(* Then again under the write lock, and makes the entry. *)
ShouldSuppress(w) ==
    LET k == kind[worker[w].e] IN
    /\ worker[w].at = "checked"
    /\ IF k \in entries
       THEN worker' = [worker EXCEPT ![w] = Idle] /\ UNCHANGED <<entries, window>>
       ELSE /\ entries' = entries \cup {k}
            /\ window' = [window EXCEPT ![k] = @ \cup {worker[w].e}]
            /\ worker' = [worker EXCEPT ![w].at = "sending"]
    /\ UNCHANGED <<input, alertChan, alertsOpen, publisher, output, store, ctxDone, stop, gaveUp>>

(* The alert is dropped when the channel is full; on a closed channel the
   send panics and the event ends there. *)
RaiseAlert(w) ==
    /\ worker[w].at = "sending"
    /\ alertChan' = IF alertsOpen /\ Len(alertChan) < AlertCap
                    THEN Append(alertChan, worker[w].e) ELSE alertChan
    /\ worker' = [worker EXCEPT ![w] = Idle]
    /\ UNCHANGED <<input, entries, window, alertsOpen, publisher, output, store, ctxDone, stop, gaveUp>>

WorkerEnds(w) ==
    /\ worker[w] = Idle /\ eventChan = <<>> /\ ~eventsOpen
    /\ worker' = [worker EXCEPT ![w] = Gone]
    /\ UNCHANGED <<input, entries, window, alertChan, alertsOpen, publisher, output, store,
                   ctxDone, stop, gaveUp>>

(* An entry reaches its time to live; whether cleanup has deleted it makes
   no difference. *)
EntryExpires(k) ==
    /\ k \in entries
    /\ entries' = entries \ {k}
    /\ window' = [window EXCEPT ![k] = {}]
    /\ UNCHANGED <<input, worker, alertChan, alertsOpen, publisher, output, store, ctxDone, stop, gaveUp>>

-----------------------------------------------------------------------------
(* alertPublisher.                                                         *)

(* Publish waits for a second at a full channel, then gives the alert up;
   a producer that was stopped takes nothing and reports no error. *)
Publish ==
    LET e == Head(alertChan) IN
    /\ publisher = Idle /\ alertChan # <<>>
    /\ alertChan' = Tail(alertChan)
    /\ \/ stop # "done" /\ Len(prodChan) < ProducerCap
          /\ prodChan' = Append(prodChan, e) /\ UNCHANGED gaveUp
       \/ stop # "done" /\ Len(prodChan) = ProducerCap /\ GivesUp({e}) /\ UNCHANGED prodChan
       \/ stop = "done" /\ UNCHANGED <<prodChan, gaveUp>>
    /\ publisher' = [at |-> "writing", e |-> e]
    /\ UNCHANGED <<input, detect, alertsOpen, prodBatch, producer, topic, store, ctxDone, stop>>

(* Write drops the alert when the writer's queue is full. *)
Write ==
    /\ publisher.at = "writing"
    /\ writeChan' = IF Len(writeChan) < WriterCap THEN Append(writeChan, publisher.e) ELSE writeChan
    /\ publisher' = Idle
    /\ UNCHANGED <<input, detect, alertChan, alertsOpen, output, writeBatch, writer, rows,
                   ctxDone, stop, gaveUp>>

PublisherEnds ==
    /\ publisher = Idle /\ alertChan = <<>> /\ ~alertsOpen
    /\ publisher' = Gone
    /\ UNCHANGED <<input, detect, alertChan, alertsOpen, output, store, ctxDone, stop, gaveUp>>

-----------------------------------------------------------------------------
(* AlertProducer.publishLoop.                                              *)

(* Faulty variant: the batch is emptied under the write that uses it. *)
FlushBatchEmptied(batch) == prodBatch' = <<>> /\ UNCHANGED <<topic, gaveUp>>

(* flush: the batch is written whole or given up whole. *)
FlushBatch(batch) ==
    /\ prodBatch' = <<>>
    /\ \/ topic' = topic \cup {batch[i] : i \in 1 .. Len(batch)} /\ UNCHANGED gaveUp
       \/ batch # <<>> /\ GivesUp({batch[i] : i \in 1 .. Len(batch)}) /\ UNCHANGED topic

(* An alert that alertToMessage cannot write is skipped. *)
ProducerTakes ==
    LET batch == Append(prodBatch, Head(prodChan)) IN
    /\ producer = "idle" /\ prodChan # <<>>
    /\ prodChan' = Tail(prodChan)
    /\ \/ Len(batch) >= BatchSize /\ FlushBatch(batch)
       \/ Len(batch) < BatchSize /\ prodBatch' = batch /\ UNCHANGED <<topic, gaveUp>>
       \/ GivesUp({Head(prodChan)}) /\ UNCHANGED <<prodBatch, topic>>
    /\ UNCHANGED <<input, detect, alertChan, alertsOpen, publisher, producer, store, ctxDone, stop>>

ProducerTick ==
    /\ producer = "idle" /\ prodBatch # <<>>
    /\ FlushBatch(prodBatch)
    /\ UNCHANGED <<input, detect, alertChan, alertsOpen, publisher, prodChan, producer, store, ctxDone, stop>>

(* On ctx.Done or the producer's own doneChan, whatever its channel holds. *)
ProducerEnds ==
    /\ producer = "idle" /\ (ctxDone \/ stop = "producer")
    /\ FlushBatch(prodBatch)
    /\ producer' = "gone"
    /\ UNCHANGED <<input, detect, alertChan, alertsOpen, publisher, prodChan, store, ctxDone, stop>>

-----------------------------------------------------------------------------
(* AlertWriter.writeLoop.                                                  *)

(* A batch is flushed when it is full, at a tick, and as the loop ends. *)
WriterTakes ==
    LET batch == Append(writeBatch, Head(writeChan)) IN
    /\ writer = Idle /\ writeChan # <<>>
    /\ writeChan' = Tail(writeChan)
    /\ writeBatch' = batch
    /\ writer' = IF Len(batch) >= BatchSize THEN [at |-> "flushing", e |-> 0] ELSE Idle
    /\ UNCHANGED <<input, detect, alertChan, alertsOpen, publisher, output, rows, ctxDone, stop, gaveUp>>

WriterTick ==
    /\ writer = Idle /\ writeBatch # <<>>
    /\ writer' = [at |-> "flushing", e |-> 0]
    /\ UNCHANGED <<input, detect, alertChan, alertsOpen, publisher, output, writeChan, writeBatch, rows,
                   ctxDone, stop, gaveUp>>

(* With the context done no database call succeeds: what is in the batch is
   lost as the loop ends. *)
WriterEnds ==
    /\ writer.at # "gone" /\ ctxDone
    /\ writer' = Gone
    /\ writeBatch' = <<>>
    /\ UNCHANGED <<input, detect, alertChan, alertsOpen, publisher, output, writeChan, rows,
                   ctxDone, stop, gaveUp>>

Skip == writeBatch' = Tail(writeBatch)

AfterOne == IF Len(writeBatch) = 1 THEN Idle ELSE [at |-> "flushing", e |-> 0]

(* Faulty variant: the look-up finds nothing. *)
RecentRowNever(k) == {}

RecentRow(k) == {r \in rows : r.recent /\ kind[r.by] = k}

(* writeWithDedup: FindRecent, and an insert when there is no recent row;
   after an error the alert is passed over. *)
FindRecent ==
    LET e == Head(writeBatch)
        found == RecentRow(kind[e]) IN
    /\ writer.at = "flushing" /\ ~ctxDone
    /\ \/ /\ found # {}
          /\ writer' = [at |-> "found", e |-> (CHOOSE r \in found : TRUE).by]
          /\ UNCHANGED <<writeBatch, rows>>
       \/ /\ found = {}
          /\ rows' = rows \cup {[by |-> e, ids |-> {e}, recent |-> TRUE]}
          /\ Skip /\ writer' = AfterOne
       \/ Skip /\ writer' = AfterOne /\ UNCHANGED rows
    /\ UNCHANGED <<input, detect, alertChan, alertsOpen, publisher, output, writeChan, ctxDone, stop, gaveUp>>

(* IncrementEventCount: no row with the id is no error. *)
IncrementEventCount ==
    LET e == Head(writeBatch) IN
    /\ writer.at = "found" /\ ~ctxDone
    /\ \/ rows' = {IF r.by = writer.e THEN [r EXCEPT !.ids = @ \cup {e}] ELSE r : r \in rows}
       \/ UNCHANGED rows
    /\ Skip /\ writer' = AfterOne
    /\ UNCHANGED <<input, detect, alertChan, alertsOpen, publisher, output, writeChan, ctxDone, stop, gaveUp>>

(* A row leaves the deduplication window. *)
RowAges ==
    /\ \E r \in rows : r.recent /\ rows' = (rows \ {r}) \cup {[r EXCEPT !.recent = FALSE]}
    /\ UNCHANGED <<input, detect, alertChan, alertsOpen, publisher, output, writeChan, writeBatch, writer,
                   ctxDone, stop, gaveUp>>

(* The REST handler deletes a row. *)
DeleteAlert ==
    /\ \E r \in rows : rows' = rows \ {r}
    /\ UNCHANGED <<input, detect, alertChan, alertsOpen, publisher, output, writeChan, writeBatch, writer,
                   ctxDone, stop, gaveUp>>

-----------------------------------------------------------------------------
(* main cancels the context, then calls Stop.                              *)

Signal ==
    /\ ~ctxDone
    /\ ctxDone' = TRUE
    /\ stop' = "consumer"
    /\ UNCHANGED <<input, detect, alertChan, alertsOpen, publisher, output, store, gaveUp>>

StopConsumer ==
    /\ stop = "consumer" /\ consumer.at = "gone"
    /\ stop' = "grace"
    /\ UNCHANGED <<input, detect, alertChan, alertsOpen, publisher, output, store, ctxDone, gaveUp>>

(* Two seconds later, whether the workers are done or not. *)
CloseAlerts ==
    /\ stop = "grace"
    /\ alertsOpen' = FALSE
    /\ stop' = "wait"
    /\ UNCHANGED <<input, detect, alertChan, publisher, output, store, ctxDone, gaveUp>>

(* wg.Wait or ShutdownTimeout, whichever comes first: the workers and the
   publisher may still be at it. *)
WaitAll ==
    /\ stop = "wait"
    /\ stop' = "producer"
    /\ UNCHANGED <<input, detect, alertChan, alertsOpen, publisher, output, store, ctxDone, gaveUp>>

StopProducer ==
    /\ stop = "producer" /\ producer = "gone"
    /\ stop' = "done"
    /\ UNCHANGED <<input, detect, alertChan, alertsOpen, publisher, output, store, ctxDone, gaveUp>>

-----------------------------------------------------------------------------
WorkerStep(w) == Detect(w) \/ ShouldSuppress(w) \/ RaiseAlert(w) \/ WorkerEnds(w)
PublisherStep == Publish \/ Write \/ PublisherEnds
ProducerStep == ProducerTakes \/ ProducerTick
WriterStep == WriterTakes \/ WriterTick \/ FindRecent \/ IncrementEventCount
StopStep == StopConsumer \/ CloseAlerts \/ WaitAll \/ StopProducer

Next ==
    \/ \E k \in Kinds : ReadMessage(k)
    \/ SendEvent \/ ConsumerEnds
    \/ \E w \in Workers : WorkerStep(w)
    \/ \E k \in Keys : EntryExpires(k)
    \/ PublisherStep \/ ProducerStep \/ ProducerEnds
    \/ WriterStep \/ WriterEnds \/ RowAges \/ DeleteAlert
    \/ Signal \/ StopStep

(* Goroutines that can go on do; nobody has to signal, and an event need
   not arrive.  Ending is the branch a select must take in the end. *)
Fairness ==
    /\ WF_vars(SendEvent) /\ WF_vars(ConsumerEnds)
    /\ \A w \in Workers : WF_vars(WorkerStep(w))
    /\ WF_vars(PublisherStep) /\ WF_vars(ProducerStep) /\ WF_vars(ProducerEnds)
    /\ WF_vars(WriterEnds) /\ WF_vars(StopStep)

Spec == Init /\ [][Next]_vars /\ Fairness

-----------------------------------------------------------------------------
(***************************************************************************)
(* Two workers that match events of one key at the same time do not both   *)
(* raise an alert: within the life of a suppression entry one alert passes *)
(* (the double check of shouldSuppress).                                   *)
(***************************************************************************)
OneAlertPerWindow == \A k \in Keys : Cardinality(window[k]) <= 1

(***************************************************************************)
(* A key never has two rows inside the deduplication window, whatever is   *)
(* deleted, ages or fails between the look-up of an alert and the next     *)
(* one's (writeWithDedup).                                                 *)
(***************************************************************************)
OneRecentRow ==
    \A r, s \in rows : r.recent /\ s.recent /\ kind[r.by] = kind[s.by] => r = s

(***************************************************************************)
(* While the engine runs, an alert that was raised reaches the broker,     *)
(* unless the producer gave up this very alert: at a full channel, or when *)
(* it could not be written (alertPublisher, publishLoop).                  *)
(***************************************************************************)
RaisedIsPublished ==
    \A e \in Events :
        (\E i \in 1 .. Len(alertChan) : alertChan[i] = e) ~> (e \in topic \cup gaveUp \/ ctxDone)

(***************************************************************************)
(* Not so: "Stop gracefully stops the event loop with correct drain        *)
(* ordering", last "Stop Kafka producer (flushes final batch)"             *)
(* (event_loop.go:404-410), by which no alert that entered the producer's  *)
(* channel is left there when Stop is over and nothing was given up.       *)
(***************************************************************************)
StopDrains == stop = "done" /\ gaveUp = {} => prodChan = <<>>
=============================================================================
