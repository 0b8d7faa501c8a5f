--------------------------- MODULE SigmaProcessor ---------------------------
(***************************************************************************)
(* ParallelEventProcessor: callers put events on one channel, workers take *)
(* them, match, deduplicate and write, and put results on one channel that *)
(* all callers read.  A result carries its event; an event is known by the *)
(* signature of the alert it raises (None when no rule matches).           *)
(***************************************************************************)
EXTENDS Integers, Sequences, FiniteSets, Functions

CONSTANTS
    Callers, Workers,
    Kind,          \* caller -> "batch" (ProcessBatch), "event", "stream"
    Events,        \* caller -> its events: [sig, nil]
    Signatures, None,
    ChannelBuffers, BatchSize,
    Window,        \* of the deduplicator, in ticks
    MaxNow         \* bound of the model

VARIABLES
    eventChan, resultChan,
    open,          \* eventChan is not closed
    cancelled,     \* p.ctx
    worker,        \* what each worker holds
    sender,        \* caller -> how many of its events its sender is done with
    caller,        \* caller -> [at, got]: where it is and how many results it has
    done,          \* caller -> its ctx is done
    out,           \* caller -> results in the channel ProcessStream returned
    alerts,        \* the deduplicator: signature -> LastSeen, or None
    now,
    sighted,       \* when each signature was raised (observation)
    written,       \* what went to the outputs: [sig, at]
    shutdown,      \* "no", "waits", "done", "timeout"
    crashed        \* a send on the closed eventChan

vars == <<eventChan, resultChan, open, cancelled, worker, sender, caller, done, out, alerts, now, sighted,
          written, shutdown, crashed>>
callerVars == <<sender, caller, done, out>>
workVars == <<worker, alerts, sighted, written>>

Idle == [at |-> "idle"]
Ended == [at |-> "ended"]

TypeOK ==
    /\ Len(eventChan) <= ChannelBuffers /\ Len(resultChan) <= ChannelBuffers
    /\ \A c \in Callers : sender[c] \in 0 .. Len(Events[c]) /\ caller[c].got \in 0 .. Len(Events[c])
    /\ shutdown \in {"no", "waits", "done", "timeout"} /\ now \in 0 .. MaxNow

Init ==
    /\ eventChan = <<>> /\ resultChan = <<>> /\ open = TRUE /\ cancelled = FALSE
    /\ worker = [w \in Workers |-> Idle]
    /\ sender = [c \in Callers |-> 0]
    /\ caller = [c \in Callers |-> [at |-> "idle", got |-> 0]]
    /\ done = [c \in Callers |-> FALSE] /\ out = [c \in Callers |-> 0]
    /\ alerts = [s \in Signatures |-> None] /\ now = 0 /\ written = {}
    /\ sighted = [s \in Signatures |-> {}]
    /\ shutdown = "no" /\ crashed = FALSE

-----------------------------------------------------------------------------
(* Callers.                                                                *)

(* ProcessEvent, ProcessBatch or ProcessStream is called. *)
Call(c) ==
    /\ caller[c].at = "idle" /\ shutdown = "no"
    /\ caller' = [caller EXCEPT ![c].at = CASE Events[c] = <<>> -> "returned"
                                            [] Events[c] # <<>> /\ Kind[c] = "batch" -> "collect"
                                            [] OTHER -> "send"]
    /\ UNCHANGED <<eventChan, resultChan, open, cancelled, sender, done, out, workVars, now, shutdown, crashed>>

(* A goroutine of the batch queues the events while the caller collects;
   ProcessEvent and ProcessStream send and wait in turn. *)
Sending(c) ==
    /\ sender[c] < Len(Events[c])
    /\ IF Kind[c] = "batch" THEN caller[c].at # "idle" ELSE caller[c].at = "send"

Send(c) ==
    /\ Sending(c)
    /\ IF open
       THEN /\ Len(eventChan) < ChannelBuffers
            /\ eventChan' = Append(eventChan, Events[c][sender[c] + 1])
            /\ sender' = [sender EXCEPT ![c] = @ + 1]
            /\ caller' = [caller EXCEPT ![c].at = IF Kind[c] = "batch" THEN @ ELSE "collect"]
            /\ UNCHANGED crashed
       ELSE crashed' = TRUE /\ UNCHANGED <<eventChan, sender, caller>>
    /\ UNCHANGED <<resultChan, open, cancelled, done, out, workVars, now, shutdown>>

(* The goroutine of a batch ends with ctx, also of a call that has returned;
   the events it has not queued never are. *)
SenderEnds(c) ==
    /\ Kind[c] = "batch" /\ Sending(c) /\ done[c]
    /\ sender' = [sender EXCEPT ![c] = Len(Events[c])]
    /\ UNCHANGED <<eventChan, resultChan, open, cancelled, caller, done, out, workVars, now, shutdown, crashed>>

(* A result is whoever reads it first.  Nobody writes to errorChan. *)
Collect(c) ==
    /\ caller[c].at = "collect" /\ resultChan # <<>>
    /\ resultChan' = Tail(resultChan)
    /\ caller' = [caller EXCEPT ![c] = [got |-> @.got + 1,
                      at |-> CASE Kind[c] = "stream" -> "hand"
                               [] Kind[c] # "stream" /\ @.got + 1 = Len(Events[c]) -> "returned"
                               [] OTHER -> "collect"]]
    /\ UNCHANGED <<eventChan, open, cancelled, sender, done, out, workVars, now, shutdown, crashed>>

(* ProcessStream passes it on, and does not look at ctx while it waits. *)
Hand(c) ==
    /\ caller[c].at = "hand" /\ out[c] < BatchSize
    /\ out' = [out EXCEPT ![c] = @ + 1]
    /\ caller' = [caller EXCEPT ![c].at = IF sender[c] = Len(Events[c]) THEN "returned" ELSE "send"]
    /\ UNCHANGED <<eventChan, resultChan, open, cancelled, sender, done, workVars, now, shutdown, crashed>>

(* Whoever called ProcessStream reads. *)
TakeOut(c) ==
    /\ out[c] > 0
    /\ out' = [out EXCEPT ![c] = @ - 1]
    /\ UNCHANGED <<eventChan, resultChan, open, cancelled, sender, caller, done, workVars, now, shutdown, crashed>>

(* ctx ends in the course of the call or, as callers cancel it, after it. *)
CtxDone(c) ==
    /\ ~done[c] /\ caller[c].at # "idle"
    /\ done' = [done EXCEPT ![c] = TRUE]
    /\ UNCHANGED <<eventChan, resultChan, open, cancelled, sender, caller, out, workVars, now, shutdown, crashed>>

GiveUp(c) ==
    /\ done[c] /\ caller[c].at \in {"send", "collect"}
    /\ caller' = [caller EXCEPT ![c].at = "returned"]
    /\ UNCHANGED <<eventChan, resultChan, open, cancelled, sender, done, out, workVars, now, shutdown, crashed>>

-----------------------------------------------------------------------------
(* Workers.                                                                *)

Take(w) ==
    /\ worker[w] = Idle /\ eventChan # <<>>
    /\ worker' = [worker EXCEPT ![w] = [at |-> "process", event |-> Head(eventChan)]]
    /\ eventChan' = Tail(eventChan)
    /\ UNCHANGED <<resultChan, open, cancelled, callerVars, alerts, now, sighted, written, shutdown, crashed>>

(* cleanOldEntries goes by the last sighting. *)
cleanOldEntries ==
    [s \in Signatures |-> IF alerts[s] # None /\ now - alerts[s] > Window THEN None ELSE alerts[s]]

(* Faulty variant: by the first sighting. *)
SeenFirst(entries, s) == [entries EXCEPT ![s] = IF @ = None THEN now ELSE @]

(* Deduplicate: a signature that is known is refreshed and suppressed. *)
Seen(entries, s) == [entries EXCEPT ![s] = now]

(* processEvent: match, deduplicate, write what is new. *)
processEvent(w) ==
    LET s == worker[w].event.sig
        kept == cleanOldEntries
        new == ~worker[w].event.nil /\ s # None /\ kept[s] = None
    IN  /\ worker[w].at = "process"
        /\ worker' = [worker EXCEPT ![w] = [at |-> "report", event |-> @.event]]
        /\ alerts' = IF worker[w].event.nil THEN alerts ELSE IF s = None THEN kept ELSE Seen(kept, s)
        /\ sighted' = IF worker[w].event.nil \/ s = None THEN sighted ELSE [sighted EXCEPT ![s] = @ \cup {now}]
        /\ written' = IF new THEN written \cup {[sig |-> s, at |-> now]} ELSE written
        /\ UNCHANGED <<eventChan, resultChan, open, cancelled, callerVars, now, shutdown, crashed>>


(* The recover makes it a failed result. *)
AfterPanic(w) == [at |-> "report", event |-> worker[w].event]

(* safeProcessEvent; a panic in the matching comes before Deduplicate. *)
Panics(w) ==
    /\ worker[w].at = "process" /\ ~worker[w].event.nil
    /\ worker' = [worker EXCEPT ![w] = AfterPanic(w)]
    /\ UNCHANGED <<eventChan, resultChan, open, cancelled, callerVars, alerts, now, sighted, written, shutdown, crashed>>

Report(w) ==
    /\ worker[w].at = "report"
    /\ Len(resultChan) < ChannelBuffers
    /\ resultChan' = Append(resultChan, worker[w].event)
    /\ worker' = [worker EXCEPT ![w] = Idle]
    /\ UNCHANGED <<eventChan, open, cancelled, callerVars, alerts, now, sighted, written, shutdown, crashed>>

(* The channel is closed and empty, or p.ctx is done. *)
WorkerEnds(w) ==
    /\ \/ worker[w] = Idle /\ (cancelled \/ (~open /\ eventChan = <<>>))
       \/ worker[w].at = "report" /\ cancelled
    /\ worker' = [worker EXCEPT ![w] = Ended]
    /\ UNCHANGED <<eventChan, resultChan, open, cancelled, callerVars, alerts, now, sighted, written, shutdown,
                   crashed>>

-----------------------------------------------------------------------------
Shutdown ==
    /\ shutdown = "no"
    /\ open' = FALSE /\ shutdown' = "waits"
    /\ UNCHANGED <<eventChan, resultChan, cancelled, callerVars, workVars, now, crashed>>

(* wg.Wait, or its own ctx; both cancel p.ctx. *)
ShutdownEnds ==
    /\ shutdown = "waits"
    /\ shutdown' \in {"timeout"} \cup {"done" : w \in {v \in Workers : \A u \in Workers : worker[u] = Ended}}
    /\ cancelled' = TRUE
    /\ UNCHANGED <<eventChan, resultChan, open, callerVars, workVars, now, crashed>>

Tick ==
    /\ now < MaxNow
    /\ now' = now + 1
    /\ UNCHANGED <<eventChan, resultChan, open, cancelled, callerVars, workVars, shutdown, crashed>>

SenderStep(c) == Send(c) \/ SenderEnds(c)
ReaderStep(c) == Collect(c) \/ Hand(c) \/ GiveUp(c)
CallerStep(c) == Call(c) \/ SenderStep(c) \/ ReaderStep(c) \/ TakeOut(c) \/ CtxDone(c)
WorkerStep(w) == Take(w) \/ processEvent(w) \/ Panics(w) \/ Report(w) \/ WorkerEnds(w)

Next ==
    ~crashed /\ (   \/ \E c \in Callers : CallerStep(c)
                    \/ \E w \in Workers : WorkerStep(w)
                    \/ Shutdown \/ ShutdownEnds \/ Tick)

(* Goroutines with something to do are scheduled; whoever asked for a
   stream reads it; nothing makes a context end. *)
Fairness ==
    /\ \A c \in Callers : WF_vars(~crashed /\ (SenderStep(c) \/ ReaderStep(c) \/ TakeOut(c)))
    /\ \A w \in Workers : WF_vars(~crashed /\ WorkerStep(w))

Spec == Init /\ [][Next]_vars /\ Fairness

-----------------------------------------------------------------------------
(***************************************************************************)
(* An alert that reaches the outputs comes after more than a window in     *)
(* which no worker raised its signature: a long run of duplicates is       *)
(* written once, however the workers share it.                             *)
(***************************************************************************)
WrittenApart ==
    \A a \in written : \A t \in sighted[a.sig] : t < a.at => a.at - t > Window

Returned(c) == caller[c].at = "returned" \/ shutdown # "no"

(* Another call was, or is, cut short: it may have taken results of this one
   and sent none for them, or left its own to fill the channels. *)
Disturbed(c) == \E d \in Callers \ {c} : done[d]

(***************************************************************************)
(* A call returns, whatever its events do to the workers and whichever of  *)
(* the results in the shared channel it gets, while the processor is not   *)
(* shut down and the context of no other call has ended.                   *)
(***************************************************************************)
CallReturns == \A c \in Callers : caller[c].at # "idle" ~> Returned(c) \/ Disturbed(c)

(***************************************************************************)
(* Not so: a call whose own context goes on returns.  A batch that took    *)
(* its result has ended without queueing an event of its own for it        *)
(* (parallel_processor.go:171), or has left results that nobody reads.     *)
(***************************************************************************)
CallAlwaysReturns == \A c \in Callers : caller[c].at # "idle" ~> Returned(c)

(***************************************************************************)
(* Not so: a batch gets the results of its own events; a result goes to    *)
(* whoever reads the channel first (parallel_processor.go:183).            *)
(***************************************************************************)
OwnResults == \A c \in Callers : caller[c].got <= sender[c]
=============================================================================
