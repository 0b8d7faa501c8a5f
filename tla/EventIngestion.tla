--------------------------- MODULE EventIngestion ---------------------------
(***************************************************************************)
(* EventHandler.processBatch of the connection manager: from a received    *)
(* batch to the Kafka topic events-raw, with the dead letter queue and the *)
(* PostgreSQL fallback table behind it and the Redis duplicate check in    *)
(* front.                                                                  *)
(*                                                                         *)
(* Each stream runs processBatch for its own batches, so the same batch    *)
(* may be under way twice when the agent sends it again over a new stream. *)
(* Kafka, Redis and PostgreSQL are optional, and each may fail on every    *)
(* call.  A batch is its id and what the handler finds out about it: it is *)
(* good, undecodable (decompression or JSON fails, or it is empty), or     *)
(* refused (validateBatch or the checksum).                                *)
(***************************************************************************)
EXTENDS Integers

CONSTANTS
    Workers,         \* the streams that may process a batch at the same time
    Batches,         \* batch ids
    NoBatch,         \* a worker without a batch
    EventsPerBatch,  \* events in a good batch
    MaxDeliveries,   \* bound: batches received, repetitions included
    MaxFaults        \* bound: failed calls and attempts, expired keys and crashes

ASSUME IngestionAssumption ==
    /\ NoBatch \notin Batches
    /\ EventsPerBatch \in Nat \ {0}
    /\ MaxDeliveries \in Nat
    /\ MaxFaults \in Nat

VARIABLES
    configured,  \* the dependencies that are not nil
    kind,        \* what each batch is
    pc,          \* where processBatch is, per worker
    batch,       \* the batch a worker processes
    index,       \* the event it publishes next
    ctxDone,     \* the stream's context is done
    published,   \* how often each event of each batch is in events-raw
    dlq,         \* the events in events-dlq
    fallback,    \* the rows of event_batches_fallback
    processed,   \* the batch keys in Redis
    acked,       \* history: batches acknowledged to the agent
    stored,      \* history: batches processBatch has finished with, refusals left out
    lost,        \* history: batches whose fallback write failed ("EVENT DATA LOST")
    disturbed,   \* history: batches processed twice at a time, or whose context ended
    deliveries,
    faults

vars == <<configured, kind, pc, batch, index, ctxDone, published, dlq, fallback, processed,
          acked, stored, lost, disturbed, deliveries, faults>>

setting  == <<configured, kind>>
bounds   == <<deliveries, faults>>
Events   == 1..EventsPerBatch
Services == {"kafka", "redis", "store"}
Kinds    == {"good", "undecodable", "refused"}
Has(x)   == x \in configured
Busy(w)  == pc[w] # "idle"

Fault == faults < MaxFaults /\ faults' = faults + 1

\* A call with the stream's context fails when that is done, or by a fault.
CallFails(w) == IF ctxDone[w] THEN UNCHANGED faults ELSE Fault
-----------------------------------------------------------------------------
\* Recv returns batch b.  A batch that validateBatch or verifyChecksum refuses
\* leaves no trace.
Receive(w, b) ==
    /\ ~Busy(w)
    /\ deliveries < MaxDeliveries
    /\ deliveries' = deliveries + 1
    /\ kind[b] # "refused"
    /\ pc' = [pc EXCEPT ![w] = "check"]
    /\ batch' = [batch EXCEPT ![w] = b]
    /\ ctxDone' = [ctxDone EXCEPT ![w] = FALSE]
    /\ disturbed' = IF \E v \in Workers : batch[v] = b THEN disturbed \cup {b} ELSE disturbed
    /\ UNCHANGED <<setting, index, published, dlq, fallback, processed, acked, stored, lost, faults>>

ReceiveRefused(w, b) ==
    /\ ~Busy(w)
    /\ deliveries < MaxDeliveries
    /\ deliveries' = deliveries + 1
    /\ kind[b] = "refused"
    /\ UNCHANGED <<setting, pc, batch, index, ctxDone, published, dlq, fallback, processed,
                   acked, stored, lost, disturbed, faults>>

\* Faulty variant: the worker keeps the batch it is done with.
FinishKeepBatch(w) ==
    /\ pc' = [pc EXCEPT ![w] = "idle"]
    /\ index' = [index EXCEPT ![w] = 1]
    /\ UNCHANGED batch

\* processBatch returns.
Finish(w) ==
    /\ pc' = [pc EXCEPT ![w] = "idle"]
    /\ batch' = [batch EXCEPT ![w] = NoBatch]
    /\ index' = [index EXCEPT ![w] = 1]

\* IsBatchProcessed says yes: the batch is ignored and not acknowledged.
IgnoreDuplicate(w) ==
    /\ pc[w] = "check"
    /\ Has("redis")
    /\ ~ctxDone[w]
    /\ batch[w] \in processed
    /\ Finish(w)
    /\ UNCHANGED <<setting, ctxDone, published, dlq, fallback, processed, acked, stored, lost,
                   disturbed, bounds>>

\* IsBatchProcessed is not asked, says no, or fails, which counts as no.
CheckedAsNew(w) ==
    \/ ~Has("redis") /\ UNCHANGED faults
    \/ Has("redis") /\ ~ctxDone[w] /\ batch[w] \notin processed /\ UNCHANGED faults
    \/ Has("redis") /\ CallFails(w)

\* What cannot be decoded goes to the fallback, and everything does when Kafka is
\* not configured.
DecodedTo(b) ==
    CASE kind[b] = "undecodable" -> "store"
      [] kind[b] = "good" /\ Has("kafka") -> "publish"
      [] OTHER -> "storeAndAck"

\* Faulty variant: the batch is marked as soon as it is found to be new.
DecodeMarkFirst(w) ==
    /\ pc[w] = "check"
    /\ CheckedAsNew(w)
    /\ processed' = IF Has("redis") THEN processed \cup {batch[w]} ELSE processed
    /\ pc' = [pc EXCEPT ![w] = DecodedTo(batch[w])]
    /\ UNCHANGED <<setting, batch, index, ctxDone, published, dlq, fallback, acked, stored,
                   lost, disturbed, deliveries>>

\* A batch that passes for new is decoded and routed.
Decode(w) ==
    /\ pc[w] = "check"
    /\ CheckedAsNew(w)
    /\ pc' = [pc EXCEPT ![w] = DecodedTo(batch[w])]
    /\ UNCHANGED <<setting, batch, index, ctxDone, published, dlq, fallback, processed, acked,
                   stored, lost, disturbed, deliveries>>

\* An attempt of the Kafka writer puts the event into the topic.
AddToTopic(w) == published' = [published EXCEPT ![batch[w]][index[w]] = @ + 1]

\* The attempt's answer is lost: the writer tries again by itself (MaxAttempts), and the
\* event is in the topic once more for each such attempt.
WriterRetries(w) ==
    /\ pc[w] = "publish"
    /\ ~ctxDone[w]
    /\ Fault
    /\ AddToTopic(w)
    /\ UNCHANGED <<setting, pc, batch, index, ctxDone, dlq, fallback, processed, acked, stored,
                   lost, disturbed, deliveries>>

\* SendEventBatch succeeds for the next event.
Publish(w) ==
    /\ pc[w] = "publish"
    /\ ~ctxDone[w]
    /\ AddToTopic(w)
    /\ \/ /\ index[w] < EventsPerBatch
          /\ index' = [index EXCEPT ![w] = @ + 1]
          /\ UNCHANGED pc
       \/ /\ index[w] = EventsPerBatch
          /\ pc' = [pc EXCEPT ![w] = "mark"]
          /\ UNCHANGED index
    /\ UNCHANGED <<setting, batch, ctxDone, dlq, fallback, processed, acked, stored, lost,
                   disturbed, bounds>>

\* Faulty variant: the loop goes on with the next event.
PublishFailsSkip(w) ==
    /\ pc[w] = "publish"
    /\ CallFails(w)
    /\ \/ index[w] < EventsPerBatch /\ index' = [index EXCEPT ![w] = @ + 1] /\ UNCHANGED pc
       \/ index[w] = EventsPerBatch /\ pc' = [pc EXCEPT ![w] = "mark"] /\ UNCHANGED index
    /\ UNCHANGED <<setting, batch, ctxDone, published, dlq, fallback, processed, acked, stored,
                   lost, disturbed, deliveries>>

\* The write fails, its message in the topic all the same or not; sendToDLQ tries
\* the dead letter queue, and the whole batch goes to the fallback.
PublishFails(w) ==
    /\ pc[w] = "publish"
    /\ CallFails(w)
    /\ AddToTopic(w) \/ UNCHANGED published
    /\ dlq' \in {dlq, dlq \cup {<<batch[w], index[w]>>}}
    /\ pc' = [pc EXCEPT ![w] = "store"]
    /\ UNCHANGED <<setting, batch, index, ctxDone, fallback, processed, acked, stored, lost,
                   disturbed, deliveries>>

\* ctx.Done between two events: the whole batch goes to the fallback.
PublishCancelled(w) ==
    /\ pc[w] = "publish"
    /\ ctxDone[w]
    /\ pc' = [pc EXCEPT ![w] = "store"]
    /\ UNCHANGED <<setting, batch, index, ctxDone, published, dlq, fallback, processed, acked,
                   stored, lost, disturbed, bounds>>

\* Faulty variant: nothing is stored.
StoreNothing(w) == UNCHANGED <<fallback, lost, faults>>

\* storeToFallback, with a context of its own; a batch id that is there already
\* is left alone.  No error is returned.
StoreToFallback(w) ==
    /\ \/ /\ Has("store")
          /\ fallback' = fallback \cup {batch[w]}
          /\ UNCHANGED <<lost, faults>>
       \/ /\ IF Has("store") THEN Fault ELSE UNCHANGED faults
          /\ lost' = lost \cup {batch[w]}
          /\ UNCHANGED fallback

\* processBatch stores the batch and returns without marking or acknowledging it.
Store(w) ==
    /\ pc[w] = "store"
    /\ StoreToFallback(w)
    /\ stored' = stored \cup {batch[w]}
    /\ Finish(w)
    /\ UNCHANGED <<setting, ctxDone, published, dlq, processed, acked, disturbed, deliveries>>

\* Kafka is not configured: the batch is stored, marked and acknowledged.
StoreAndAck(w) ==
    /\ pc[w] = "storeAndAck"
    /\ StoreToFallback(w)
    /\ pc' = [pc EXCEPT ![w] = "mark"]
    /\ UNCHANGED <<setting, batch, index, ctxDone, published, dlq, processed, acked, stored,
                   disturbed, deliveries>>

\* Faulty variant: SetBatchProcessed is forgotten.
MarkNothing(w) ==
    /\ pc[w] = "mark"
    /\ acked' = acked \cup {batch[w]}
    /\ stored' = stored \cup {batch[w]}
    /\ Finish(w)
    /\ UNCHANGED <<setting, ctxDone, published, dlq, fallback, processed, lost, disturbed, bounds>>

\* SetBatchProcessed, whose error is only logged, and the acknowledgement.
MarkAndAck(w) ==
    /\ pc[w] = "mark"
    /\ \/ /\ Has("redis") /\ ~ctxDone[w]
          /\ processed' = processed \cup {batch[w]}
          /\ UNCHANGED faults
       \/ ~Has("redis") /\ UNCHANGED <<processed, faults>>
       \/ Has("redis") /\ CallFails(w) /\ UNCHANGED processed
    /\ acked' = acked \cup {batch[w]}
    /\ stored' = stored \cup {batch[w]}
    /\ Finish(w)
    /\ UNCHANGED <<setting, ctxDone, published, dlq, fallback, lost, disturbed, deliveries>>
-----------------------------------------------------------------------------
(* What happens around processBatch.                                         *)

\* The connection of the stream is lost.
LoseContext(w) ==
    /\ Busy(w)
    /\ ~ctxDone[w]
    /\ ctxDone' = [ctxDone EXCEPT ![w] = TRUE]
    /\ disturbed' = disturbed \cup {batch[w]}
    /\ UNCHANGED <<setting, pc, batch, index, published, dlq, fallback, processed, acked, stored,
                   lost, bounds>>

\* The server goes down and comes back: every call of processBatch is gone.
Crash ==
    /\ Fault
    /\ pc' = [w \in Workers |-> "idle"]
    /\ batch' = [w \in Workers |-> NoBatch]
    /\ index' = [w \in Workers |-> 1]
    /\ UNCHANGED <<setting, ctxDone, published, dlq, fallback, processed, acked, stored, lost,
                   disturbed, deliveries>>

\* A key expires after 24 hours, or with a restart of Redis.
KeyExpires(b) ==
    /\ b \in processed
    /\ Fault
    /\ processed' = processed \ {b}
    /\ UNCHANGED <<setting, pc, batch, index, ctxDone, published, dlq, fallback, acked, stored,
                   lost, disturbed, deliveries>>
-----------------------------------------------------------------------------
Init ==
    /\ configured \in SUBSET Services
    /\ kind \in [Batches -> Kinds]
    /\ pc = [w \in Workers |-> "idle"]
    /\ batch = [w \in Workers |-> NoBatch]
    /\ index = [w \in Workers |-> 1]
    /\ ctxDone = [w \in Workers |-> FALSE]
    /\ published = [b \in Batches |-> [i \in Events |-> 0]]
    /\ dlq = {}
    /\ fallback = {}
    /\ processed = {}
    /\ acked = {}
    /\ stored = {}
    /\ lost = {}
    /\ disturbed = {}
    /\ deliveries = 0
    /\ faults = 0

ProcessBatch(w) ==
    \/ IgnoreDuplicate(w) \/ Decode(w)
    \/ Publish(w) \/ WriterRetries(w) \/ PublishFails(w) \/ PublishCancelled(w)
    \/ Store(w) \/ StoreAndAck(w) \/ MarkAndAck(w)

Next ==
    \/ \E w \in Workers :
          \/ \E b \in Batches : Receive(w, b) \/ ReceiveRefused(w, b)
          \/ ProcessBatch(w)
          \/ LoseContext(w)
    \/ \E b \in Batches : KeyExpires(b)
    \/ Crash

Spec == Init /\ [][Next]_vars
-----------------------------------------------------------------------------
TypeOK ==
    /\ configured \subseteq Services
    /\ kind \in [Batches -> Kinds]
    /\ pc \in [Workers -> {"idle", "check", "publish", "store", "storeAndAck", "mark"}]
    /\ batch \in [Workers -> Batches \cup {NoBatch}]
    /\ \A w \in Workers : Busy(w) <=> batch[w] \in Batches
    /\ index \in [Workers -> Events]
    /\ ctxDone \in [Workers -> BOOLEAN]
    /\ published \in [Batches -> [Events -> Nat]]
    /\ dlq \subseteq Batches \X Events
    /\ fallback \subseteq Batches
    /\ processed \subseteq Batches
    /\ acked \subseteq Batches
    /\ stored \subseteq Batches
    /\ lost \subseteq Batches
    /\ disturbed \subseteq Batches
    /\ deliveries \in Nat
    /\ faults \in Nat

\* Every event of the batch is in the topic, or the whole batch in the fallback.
Durable(b) == b \in fallback \/ \A i \in Events : published[b][i] > 0

\* A batch that processBatch has finished with is durable, unless the fallback
\* write itself failed, wherever in the batch Kafka failed or the stream ended.
FinishedIsDurable == \A b \in stored : Durable(b) \/ b \in lost

\* The duplicate check never turns away the only copy: a batch is marked in Redis
\* after it is durable, so a crash in between costs a repetition and no data.
ProcessedIsDurable == \A b \in processed : Durable(b) \/ b \in lost

\* The batch is published front to back and abandoned at the first failure: the
\* topic never holds an event without the ones before it, however often the batch
\* is delivered, by however many streams, and whatever the writer repeats.
TopicHoldsPrefixes ==
    \A b \in Batches, i \in 1..(EventsPerBatch - 1) :
        published[b][i + 1] > 0 => published[b][i] > 0

\* With Redis, repeated deliveries put an event into the topic once, unless two
\* streams had the batch at the same time, the stream ended or a call failed.
PublishedOnce ==
    Has("redis") /\ faults = 0 =>
        \A b \in Batches \ disturbed, i \in Events : published[b][i] <= 1
-----------------------------------------------------------------------------
\* "This ensures zero data loss: every event batch reaches durable storage
\* regardless of individual component failures."  Asked of the batches the agent
\* was told are safe, of a server that has its fallback table.
AckedIsDurable == Has("store") => \A b \in acked : Durable(b)
=============================================================================
