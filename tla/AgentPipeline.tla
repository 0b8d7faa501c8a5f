--------------------------- MODULE AgentPipeline ---------------------------
(***************************************************************************)
(* The telemetry pipeline of the Windows agent (win_edrAgent):             *)
(*                                                                         *)
(*   collectors -> eventChan -> Batcher -> processBatch -> DiskQueue       *)
(*              -> runQueueProcessor -> gRPC stream -> connection manager  *)
(*                                                                         *)
(* Three goroutines share it: runBatcher (fills and flushes the batcher),  *)
(* runSender (flushes it on a timer) and runQueueProcessor (drains the     *)
(* disk queue).  They interleave with the collectors, with Stop, with a    *)
(* process crash and restart, with RunStream losing and reopening the      *)
(* stream, and with the re-enrolment that clears the agent's identity.     *)
(*                                                                         *)
(* Events are numbered in the order in which eventChan accepts them.  A    *)
(* queue file is the batch it stores: its events and whether processBatch  *)
(* stamped it with a non-empty agent id.                                   *)
(***************************************************************************)
EXTENDS Integers, Sequences, FiniteSets, SequencesExt

CONSTANTS
    BufferSize,   \* capacity of eventChan            (agent.go, New)
    BatchSize,    \* events that make the batcher cut a batch
    QueueQuota,   \* DiskQueue.maxSizeBytes, in events: a file of n events has size n
    ClockSkew,    \* how many of the newest files a new one may sort before:
                  \* file names start with the wall clock, which may tie or step back
    MaxEvents,    \* bound: events accepted in a behaviour
    MaxFaults     \* bound: crashes, stops, local errors, broken streams and rejections

ASSUME PipelineAssumption ==
    /\ BufferSize \in Nat \ {0}
    /\ BatchSize \in Nat \ {0}
    /\ QueueQuota \in Nat \ {0}
    /\ ClockSkew \in Nat
    /\ MaxEvents \in Nat
    /\ MaxFaults \in Nat

VARIABLES
    phase,      \* the process: running, cancelled (ctx done), closed (eventChan closed), down
    eventChan,  \* Agent.eventChan
    buffer,     \* Batcher.events
    accepted,   \* how many events eventChan has accepted, whoever sent them
    pc,         \* where each goroutine is
    hand,       \* the batch runBatcher or runSender carries from the batcher to the disk
    draining,   \* runBatcher carries its last batch: it returns after the Enqueue
    disk,       \* the .bin files of the queue directory, sorted by name
    peeked,     \* the file runQueueProcessor works on
    idSet,      \* cfg.Agent.ID is not empty
    enroll,     \* watchReEnrollSignal: idle, wiped, done, failed; stuck: rejected again
    stream,     \* Client.stream: nil, open, or broken and not yet noticed
    wire,       \* batches handed to the open stream that the server has not received
    sent,       \* history: files for which stream.Send returned nil
    ingested,   \* history: files the server received and validated
    faults      \* how many things have gone wrong so far

vars == <<phase, eventChan, buffer, accepted, pc, hand, draining, disk, peeked, idSet,
          enroll, stream, wire, sent, ingested, faults>>

memory    == <<eventChan, buffer, hand, draining>>
network   == <<idSet, enroll, stream, wire>>
outcome   == <<sent, ingested>>

Writers  == {"batcher", "ticker"}
Routines == Writers \cup {"processor"}

Event  == Nat \ {0}
File   == [events : Seq(Event), stamped : BOOLEAN]
NoFile == [events |-> <<>>, stamped |-> FALSE]

Alive == phase \in {"running", "cancelled", "closed"}

\* Something goes wrong.
Fault == faults < MaxFaults /\ faults' = faults + 1

\* No goroutine is inside Enqueue, so DiskQueue.mu is free.
QueueUnlocked == \A w \in Writers : pc[w] # "locked"

\* totalSizeBytes: the size of all the files of the directory, that is, how many events
\* they hold, each counted as a file and a position in it.
Stored(files)    == UNION {{k} \X DOMAIN files[k].events : k \in DOMAIN files}
TotalSize(files) == Cardinality(Stored(files))
-----------------------------------------------------------------------------
(* Collectors and SubmitEvent: a non-blocking send on eventChan; the new     *)
(* event is dropped when the channel is full, not the oldest as its comment  *)
(* says.  A collector only looks at ctx between two ticks, so it may still   *)
(* send while Stop is under way.                                             *)

\* Faulty variant: an event is counted before the send, whether or not it is dropped.
SubmitEventCountedFirst ==
    /\ phase \in {"running", "cancelled"}
    /\ accepted < MaxEvents
    /\ accepted' = accepted + 1
    /\ eventChan' = IF Len(eventChan) < BufferSize THEN Append(eventChan, accepted + 1) ELSE eventChan
    /\ UNCHANGED <<phase, buffer, pc, hand, draining, disk, peeked, network, outcome, faults>>

SubmitEvent ==
    /\ phase \in {"running", "cancelled"}
    /\ accepted < MaxEvents
    /\ IF Len(eventChan) < BufferSize
       THEN /\ eventChan' = Append(eventChan, accepted + 1)
            /\ accepted' = accepted + 1
       ELSE UNCHANGED <<eventChan, accepted>>
    /\ UNCHANGED <<phase, buffer, pc, hand, draining, disk, peeked, network, outcome, faults>>
-----------------------------------------------------------------------------
(* The batcher.                                                              *)

\* Faulty variant: the events are serialised but the buffer is not cleared.
CreateBatchKeepBuffer(w, events, afterwards) ==
    /\ buffer' = buffer
    /\ hand' = [hand EXCEPT ![w] = [events |-> events, stamped |-> idSet]]
    /\ pc' = [pc EXCEPT ![w] = "enqueue"]
    /\ UNCHANGED faults

\* createBatch by goroutine w: the buffer is cleared before the events are
\* serialised, so a marshal error loses them and no batch is made.  Otherwise w
\* goes on to processBatch, which stamps the batch with cfg.Agent.ID.
CreateBatch(w, events, afterwards) ==
    /\ buffer' = <<>>
    /\ \/ /\ hand' = [hand EXCEPT ![w] = [events |-> events, stamped |-> idSet]]
          /\ pc' = [pc EXCEPT ![w] = "enqueue"]
          /\ UNCHANGED faults
       \/ /\ Fault
          /\ hand' = hand
          /\ pc' = [pc EXCEPT ![w] = afterwards]

\* Faulty variant: the batch is cut one event too late.
BatcherReceiveLate ==
    /\ Alive
    /\ pc["batcher"] = "loop"
    /\ eventChan # <<>>
    /\ LET events == Append(buffer, Head(eventChan)) IN
       /\ eventChan' = Tail(eventChan)
       /\ \/ /\ Len(events) > BatchSize
             /\ CreateBatch("batcher", events, "loop")
          \/ /\ Len(events) <= BatchSize
             /\ buffer' = events
             /\ UNCHANGED <<hand, pc, faults>>
    /\ UNCHANGED <<phase, accepted, draining, disk, peeked, network, outcome>>

\* runBatcher receives an event and adds it; a full batch is cut.
BatcherReceive ==
    /\ Alive
    /\ pc["batcher"] = "loop"
    /\ eventChan # <<>>
    /\ LET events == Append(buffer, Head(eventChan)) IN
       /\ eventChan' = Tail(eventChan)
       /\ \/ /\ Len(events) >= BatchSize
             /\ CreateBatch("batcher", events, "loop")
          \/ /\ Len(events) < BatchSize
             /\ buffer' = events
             /\ UNCHANGED <<hand, pc, faults>>
    /\ UNCHANGED <<phase, accepted, draining, disk, peeked, network, outcome>>

\* runBatcher leaves its loop: ctx is done, or eventChan is closed and empty.
\* It flushes the batcher, not the channel.
BatcherStop ==
    /\ phase \in {"cancelled", "closed"}
    /\ pc["batcher"] = "loop"
    /\ \/ /\ buffer = <<>>
          /\ pc' = [pc EXCEPT !["batcher"] = "done"]
          /\ UNCHANGED <<buffer, hand, draining, faults>>
       \/ /\ buffer # <<>>
          /\ CreateBatch("batcher", buffer, "done")
          /\ draining' = TRUE
    /\ UNCHANGED <<phase, eventChan, accepted, disk, peeked, network, outcome>>

\* Faulty variant: the timer flushes full batches only.
TickerFlushFull ==
    /\ Alive
    /\ pc["ticker"] = "loop"
    /\ Len(buffer) >= BatchSize
    /\ CreateBatch("ticker", buffer, "loop")
    /\ UNCHANGED <<phase, eventChan, accepted, draining, disk, peeked, network, outcome>>

\* runSender's ticker: FlushIfReady.
TickerFlush ==
    /\ Alive
    /\ pc["ticker"] = "loop"
    /\ buffer # <<>>
    /\ CreateBatch("ticker", buffer, "loop")
    /\ UNCHANGED <<phase, eventChan, accepted, draining, disk, peeked, network, outcome>>

TickerStop ==
    /\ phase \in {"cancelled", "closed"}
    /\ pc["ticker"] = "loop"
    /\ pc' = [pc EXCEPT !["ticker"] = "done"]
    /\ UNCHANGED <<phase, accepted, memory, disk, peeked, network, outcome, faults>>
-----------------------------------------------------------------------------
(* DiskQueue.Enqueue, called by processBatch: it holds DiskQueue.mu from     *)
(* EnqueueLock to its end, removes the oldest files until the new one fits   *)
(* and renames the synced temporary file into place.                         *)

EnqueueLock(w) ==
    /\ Alive
    /\ pc[w] = "enqueue"
    /\ QueueUnlocked
    /\ pc' = [pc EXCEPT ![w] = "locked"]
    /\ UNCHANGED <<phase, accepted, memory, disk, peeked, network, outcome, faults>>

\* Faulty variant: the size of the new file is left out.
FitsWithoutNew(w) == TotalSize(disk) <= QueueQuota

Fits(w) == TotalSize(disk) + Len(hand[w].events) <= QueueQuota

EnqueueEvict(w) ==
    /\ Alive
    /\ pc[w] = "locked"
    /\ ~Fits(w)
    /\ disk # <<>>
    /\ disk' = Tail(disk)
    /\ UNCHANGED <<phase, accepted, pc, memory, peeked, network, outcome, faults>>

\* Where goroutine w continues once processBatch returns.
AfterEnqueue(w) ==
    /\ pc' = [pc EXCEPT ![w] = IF w = "batcher" /\ draining THEN "done" ELSE "loop"]
    /\ hand' = [hand EXCEPT ![w] = NoFile]
    /\ UNCHANGED <<phase, eventChan, buffer, accepted, draining, peeked, network, outcome>>

EnqueueWrite(w) ==
    /\ Alive
    /\ pc[w] = "locked"
    /\ Fits(w) \/ disk = <<>>
    /\ \E k \in 1..(Len(disk) + 1) :
          /\ k + ClockSkew > Len(disk)
          /\ disk' = InsertAt(disk, k, hand[w])
    /\ AfterEnqueue(w)
    /\ UNCHANGED faults

\* Any error in Enqueue: the directory, an eviction or the temporary file.
\* processBatch logs it and the batch is gone.
EnqueueFail(w) ==
    /\ Alive
    /\ pc[w] = "locked"
    /\ Fault
    /\ disk' = disk
    /\ AfterEnqueue(w)
-----------------------------------------------------------------------------
(* runQueueProcessor: peek the oldest file, send it, remove it once Send     *)
(* returned nil; an error of Send starts over after a pause.                 *)

ProcessorPeek ==
    /\ phase = "running"
    /\ pc["processor"] = "loop"
    /\ QueueUnlocked
    /\ disk # <<>>
    /\ peeked' = Head(disk)
    /\ pc' = [pc EXCEPT !["processor"] = "send"]
    /\ UNCHANGED <<phase, accepted, memory, disk, network, outcome, faults>>

\* The queue is empty, or PeekOldest failed: sleep and try again.
ProcessorIdle ==
    /\ phase = "running"
    /\ pc["processor"] = "loop"
    /\ UNCHANGED vars

\* SendBatchSync.  Send returns nil once gRPC has buffered the message, on an
\* open stream and on one whose connection is gone and has not been noticed.
ProcessorSend ==
    /\ Alive
    /\ pc["processor"] = "send"
    /\ stream \in {"open", "broken"}
    /\ wire' = IF stream = "open" THEN Append(wire, peeked) ELSE wire
    /\ sent' = sent \cup {peeked}
    /\ pc' = [pc EXCEPT !["processor"] = "remove"]
    /\ UNCHANGED <<phase, accepted, memory, disk, peeked, idSet, enroll, stream,
                   ingested, faults>>

\* Faulty variant: a failed Send is followed by Remove.
ProcessorSendErrorRemove ==
    /\ Alive
    /\ pc["processor"] = "send"
    /\ stream \in {"nil", "broken"}
    /\ pc' = [pc EXCEPT !["processor"] = "remove"]
    /\ UNCHANGED <<phase, accepted, memory, disk, peeked, network, outcome, faults>>

ProcessorSendError ==
    /\ Alive
    /\ pc["processor"] = "send"
    /\ stream \in {"nil", "broken"}
    /\ peeked' = NoFile
    /\ pc' = [pc EXCEPT !["processor"] = "loop"]
    /\ UNCHANGED <<phase, accepted, memory, disk, network, outcome, faults>>

\* DiskQueue.Remove by name.
ProcessorRemove ==
    /\ Alive
    /\ pc["processor"] = "remove"
    /\ QueueUnlocked
    /\ \E k \in DOMAIN disk : disk[k] = peeked /\ disk' = RemoveAt(disk, k)
    /\ peeked' = NoFile
    /\ pc' = [pc EXCEPT !["processor"] = "loop"]
    /\ UNCHANGED <<phase, accepted, memory, network, outcome, faults>>

\* The file has been evicted meanwhile, or os.Remove fails: only logged.
ProcessorRemoveError ==
    /\ Alive
    /\ pc["processor"] = "remove"
    /\ QueueUnlocked
    /\ IF peeked \in ToSet(disk) THEN Fault ELSE UNCHANGED faults
    /\ peeked' = NoFile
    /\ pc' = [pc EXCEPT !["processor"] = "loop"]
    /\ UNCHANGED <<phase, accepted, memory, disk, network, outcome>>

\* Faulty variant: the queue is drained before the goroutine ends.
ProcessorStopDrained ==
    /\ phase \in {"cancelled", "closed"}
    /\ pc["processor"] = "loop"
    /\ disk = <<>>
    /\ pc' = [pc EXCEPT !["processor"] = "done"]
    /\ UNCHANGED <<phase, accepted, memory, disk, peeked, network, outcome, faults>>

ProcessorStop ==
    /\ phase \in {"cancelled", "closed"}
    /\ pc["processor"] = "loop"
    /\ pc' = [pc EXCEPT !["processor"] = "done"]
    /\ UNCHANGED <<phase, accepted, memory, disk, peeked, network, outcome, faults>>
-----------------------------------------------------------------------------
(* Client.RunStream and the network below it.                                *)

\* Faulty variant: RunStream is not started again after the re-enrolment.
OpenStreamOnce ==
    /\ phase = "running"
    /\ enroll = "idle"
    /\ stream = "nil"
    /\ stream' = "open"
    /\ UNCHANGED <<phase, accepted, pc, memory, disk, peeked, idSet, enroll, wire, outcome, faults>>

OpenStream ==
    /\ phase = "running"
    /\ enroll \in {"idle", "done"}
    /\ stream = "nil"
    /\ stream' = "open"
    /\ UNCHANGED <<phase, accepted, pc, memory, disk, peeked, idSet, enroll, wire, outcome, faults>>

\* The connection is lost with whatever it carries; recvLoop has not noticed.
BreakStream ==
    /\ stream = "open"
    /\ Fault
    /\ stream' = "broken"
    /\ wire' = <<>>
    /\ UNCHANGED <<phase, accepted, pc, memory, disk, peeked, idSet, enroll, outcome>>

\* recvLoop returns an error: clearStream.
NoticeBreak ==
    /\ stream = "broken"
    /\ stream' = "nil"
    /\ UNCHANGED <<phase, accepted, pc, memory, disk, peeked, idSet, enroll, wire, outcome, faults>>

\* StreamEvents on the server: Recv, then validateBatch refuses an empty agent id.
ServerReceive ==
    /\ wire # <<>>
    /\ wire' = Tail(wire)
    /\ ingested' = ingested \cup {f \in {Head(wire)} : f.stamped}
    /\ UNCHANGED <<phase, accepted, pc, memory, disk, peeked, idSet, enroll, stream, sent, faults>>

\* The server answers Unauthenticated: RunStream returns for good.  The first
\* time watchReEnrollSignal disconnects and clears the agent id; it has
\* returned by the second, and nobody hears it.
Reject ==
    /\ phase = "running"
    /\ enroll \in {"idle", "done"}
    /\ stream = "nil"
    /\ Fault
    /\ \/ enroll = "idle" /\ enroll' = "wiped" /\ idSet' = FALSE
       \/ enroll = "done" /\ enroll' = "stuck" /\ UNCHANGED idSet
    /\ UNCHANGED <<phase, accepted, pc, memory, disk, peeked, stream, wire, outcome>>

\* EnsureEnrolled: a new identity and a new client, or "manual intervention".
ReEnroll ==
    /\ phase = "running"
    /\ enroll = "wiped"
    /\ \/ enroll' = "done" /\ idSet' = TRUE
       \/ enroll' = "failed" /\ UNCHANGED idSet
    /\ UNCHANGED <<phase, accepted, pc, memory, disk, peeked, stream, wire, outcome, faults>>
-----------------------------------------------------------------------------
(* Stop, crash and restart of the process.                                   *)

\* Stop: running is cleared, ctx cancelled and the client disconnected ...
StopCancel ==
    /\ phase = "running"
    /\ Fault
    /\ phase' = "cancelled"
    /\ stream' = "nil"
    /\ wire' = <<>>
    /\ UNCHANGED <<accepted, pc, memory, disk, peeked, idSet, enroll, outcome>>

\* ... then eventChan is closed.
StopClose ==
    /\ phase = "cancelled"
    /\ phase' = "closed"
    /\ UNCHANGED <<accepted, pc, memory, disk, peeked, network, outcome, faults>>

\* The process ends: what it held in memory is gone, the disk is not.
ProcessEnds ==
    /\ phase' = "down"
    /\ eventChan' = <<>>
    /\ buffer' = <<>>
    /\ hand' = [w \in Writers |-> NoFile]
    /\ draining' = FALSE
    /\ peeked' = NoFile
    /\ pc' = [r \in Routines |-> "done"]
    /\ stream' = "nil"
    /\ wire' = <<>>
    /\ UNCHANGED <<accepted, disk, idSet, enroll, outcome>>

\* wg.Wait returns: every goroutine has ended.
Stopped == phase = "closed" /\ \A r \in Routines : pc[r] = "done"

StopExit ==
    /\ Stopped
    /\ ProcessEnds
    /\ UNCHANGED faults

\* The process is killed, or Stop's ten seconds run out.
Crash ==
    /\ Alive
    /\ Fault
    /\ ProcessEnds

\* A collector sends on the eventChan that Stop has closed: the panic is in
\* collectLoop's goroutine, which recovers nothing, and ends the process.
CollectorPanic ==
    /\ phase = "closed"
    /\ ProcessEnds
    /\ UNCHANGED faults

\* main enrolls before it starts the agent, so the id is set again.
Start ==
    /\ phase = "down"
    /\ phase' = "running"
    /\ pc' = [r \in Routines |-> "loop"]
    /\ idSet' = TRUE
    /\ enroll' = "idle"
    /\ UNCHANGED <<accepted, memory, disk, peeked, stream, wire, outcome, faults>>
-----------------------------------------------------------------------------
Init ==
    /\ phase = "running"
    /\ eventChan = <<>>
    /\ buffer = <<>>
    /\ accepted = 0
    /\ pc = [r \in Routines |-> "loop"]
    /\ hand = [w \in Writers |-> NoFile]
    /\ draining = FALSE
    /\ disk = <<>>
    /\ peeked = NoFile
    /\ idSet = TRUE
    /\ enroll = "idle"
    /\ stream = "nil"
    /\ wire = <<>>
    /\ sent = {}
    /\ ingested = {}
    /\ faults = 0

Enqueue(w) == EnqueueLock(w) \/ EnqueueEvict(w) \/ EnqueueWrite(w) \/ EnqueueFail(w)

Processor == ProcessorPeek \/ ProcessorIdle \/ ProcessorSend \/ ProcessorSendError
             \/ ProcessorRemove \/ ProcessorRemoveError \/ ProcessorStop

BatcherRoutine == BatcherReceive \/ BatcherStop \/ Enqueue("batcher")
TickerRoutine  == TickerFlush \/ TickerStop \/ Enqueue("ticker")
StreamRoutine  == OpenStream \/ NoticeBreak \/ ReEnroll
StopRoutine    == StopClose \/ StopExit

Next ==
    \/ SubmitEvent
    \/ BatcherRoutine \/ TickerRoutine \/ Processor
    \/ StreamRoutine \/ BreakStream \/ ServerReceive \/ Reject
    \/ StopCancel \/ StopRoutine \/ Crash \/ CollectorPanic \/ Start

Spec == Init /\ [][Next]_vars

(* The Go scheduler runs every goroutine that can go on.  One that waits for *)
(* DiskQueue.mu gets it in the end (a sync.Mutex starves nobody): strong     *)
(* fairness.  RunStream and the re-enrolment retry on timers.  Nothing       *)
(* obliges a stopped agent to start again, and nothing here is fair to the   *)
(* collectors, the server or a fault.                                        *)
Fairness ==
    /\ SF_vars(BatcherRoutine)
    /\ SF_vars(TickerRoutine)
    /\ SF_vars(Processor)
    /\ SF_vars(StreamRoutine)
    /\ WF_vars(StopRoutine)

FairSpec == Spec /\ Fairness
-----------------------------------------------------------------------------
(* What the pipeline promises.                                               *)

TypeOK ==
    /\ phase \in {"running", "cancelled", "closed", "down"}
    /\ eventChan \in Seq(Event) /\ Len(eventChan) <= BufferSize
    /\ buffer \in Seq(Event) /\ Len(buffer) < BatchSize
    /\ accepted \in Nat
    /\ pc \in [Routines -> {"loop", "enqueue", "locked", "send", "remove", "done"}]
    /\ hand \in [Writers -> File]
    /\ draining \in BOOLEAN
    /\ disk \in Seq(File)
    /\ peeked \in File
    /\ idSet \in BOOLEAN
    /\ enroll \in {"idle", "wiped", "done", "failed", "stuck"}
    /\ stream \in {"nil", "open", "broken"}
    /\ wire \in Seq(File)
    /\ sent \subseteq File /\ ingested \subseteq File
    /\ faults \in Nat

\* Only one file may exceed the quota: a batch too large for an empty queue.
QuotaRespected == TotalSize(disk) <= QueueQuota \/ Len(disk) = 1

Shares(f, g) == ToSet(f.events) \cap ToSet(g.events) # {}

\* The batcher's two users, runBatcher and runSender, never hand the same event
\* to two batches, and what has been batched has left the channel and the buffer.
OneBatchPerEvent ==
    /\ \A i, j \in DOMAIN disk : i # j => ~Shares(disk[i], disk[j])
    /\ \A w \in Writers, i \in DOMAIN disk : ~Shares(hand[w], disk[i])
    /\ \A v, w \in Writers : v # w => ~Shares(hand[v], hand[w])
    /\ \A f \in ToSet(disk) \cup {hand[w] : w \in Writers} :
          ToSet(f.events) \cap (ToSet(buffer) \cup ToSet(eventChan)) = {}

IsRun(events) == \A i \in 1..(Len(events) - 1) : events[i + 1] = events[i] + 1

\* A batch is a gapless run of the events eventsTotal counts, in their order:
\* whoever cuts a batch takes the whole buffer, so no event is skipped over, and
\* what a full channel drops is an event that was not counted.
BatchesAreRuns == \A f \in ToSet(disk) \cup sent : f.events # <<>> /\ IsRun(f.events)

\* A file leaves the disk queue only after Send returned nil for it, or as the
\* oldest file when an Enqueue needs its space.  No crash, stop, restart or
\* re-enrolment touches the queue.
DurableUntilSent ==
    [][\A f \in ToSet(disk) \ ToSet(disk') :
          f \in sent \/ (f = Head(disk) /\ \E w \in Writers : pc[w] = "locked" /\ ~Fits(w))]_vars

InMemory(e) ==
    e \in ToSet(eventChan) \cup ToSet(buffer) \cup UNION {ToSet(hand[w].events) : w \in Writers}

OnDisk(e) == \E f \in ToSet(disk) : e \in ToSet(f.events)

\* No accepted event is stranded in memory, in a batch that never fills either.
MemoryDrains == \A e \in 1..MaxEvents : InMemory(e) ~> ~InMemory(e)

\* A queued batch is sent, or evicted, unless the agent stops or cannot
\* re-enroll: no lock, full queue or broken stream holds it for ever.
DiskDrains ==
    \A e \in 1..MaxEvents :
        OnDisk(e) ~> (~OnDisk(e) \/ phase = "down" \/ enroll \in {"failed", "stuck"})

\* Stop returns: no goroutine waits for another for ever.
StopCompletes == phase = "cancelled" ~> phase = "down"
-----------------------------------------------------------------------------
(* What the documentation says, and the code does not do.                    *)

\* README: no telemetry is lost "even during unexpected network outages".  A file
\* that has been sent is at the server, on its way, or still queued.
ZeroDataLoss == phase = "running" => sent \subseteq ingested \cup ToSet(wire) \cup ToSet(disk)

\* Stop: "Close event channel to flush remaining events".
FlushedOnStop == Stopped => eventChan = <<>>
=============================================================================
