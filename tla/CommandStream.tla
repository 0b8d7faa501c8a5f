--------------------------- MODULE CommandStream ---------------------------
(***************************************************************************)
(* How the connection manager routes commands to one agent.                *)
(*                                                                         *)
(*   REST request -> AgentRegistry -> cmdChan -> forwarder -> sendChan     *)
(*                -> sender -> gRPC stream -> agent                        *)
(*                                                                         *)
(* A stream is one call of StreamEvents: its handler registers a command   *)
(* channel and runs two goroutines for the commands, the sender and the    *)
(* forwarder.  Streams of the same agent overlap when it reconnects before *)
(* the server has noticed that the old connection is gone.  Streams are    *)
(* numbered in the order in which they register, and commands, one per     *)
(* REST request, in the order in which they look the agent up.  What the   *)
(* same handler writes to Redis and PostgreSQL is not modelled here.       *)
(***************************************************************************)
EXTENDS Integers, Sequences, FiniteSets, SequencesExt

CONSTANTS
    CommandCap,   \* capacity of a registry channel (50)
    SendCap,      \* capacity of sendChan (100)
    MaxStreams,   \* bound: calls of StreamEvents by the agent
    MaxCommands,  \* bound: REST requests
    MaxBatches    \* bound: event batches received on the agent's streams

ASSUME StreamAssumption ==
    /\ CommandCap \in Nat \ {0}
    /\ SendCap \in Nat \ {0}
    /\ MaxStreams \in Nat
    /\ MaxCommands \in Nat
    /\ MaxBatches \in Nat

VARIABLES
    registry,   \* AgentRegistry.agents[agentID]: the stream whose channel is the entry
    cmdChan,    \* the command channel of each stream
    cmdClosed,  \* close(cmdChan) has happened
    handler,    \* where StreamEvents is, per stream
    ctxDone,    \* stream.Context() is done: the connection is lost or the handler returned
    sendChan,   \* the responses and commands waiting for stream.Send, per stream
    sendClosed, \* close(sendChan) has happened
    sender,     \* the sender goroutine: off, run, failed (its error is in sendDone), done
    forwarder,  \* the forwarder goroutine: off, select, hold, done
    held,       \* the command the forwarder holds, or Ack
    request,    \* where each REST request is
    target,     \* the stream whose channel a request has looked up
    delivered,  \* history: the commands stream.Send succeeded for, per stream
    dropped,    \* history: the commands the forwarder dropped, sendChan being full
    batches,    \* how many batches have been received
    crashed     \* a goroutine has panicked and the process is gone

vars == <<registry, cmdChan, cmdClosed, handler, ctxDone, sendChan, sendClosed, sender,
          forwarder, held, request, target, delivered, dropped,
          batches, crashed>>

channels == <<registry, cmdChan, cmdClosed>>
sending  == <<sendChan, sendClosed, sender>>
requests == <<request, target>>

Streams  == 1..MaxStreams
NoStream == 0   \* the registry has no entry for the agent
Commands == 1..MaxCommands
Ack      == 0   \* the response to a batch, or no command

Opened(s) == handler[s] # "new"
-----------------------------------------------------------------------------
(* StreamEvents: opening.                                                    *)

\* Faulty variant: the channel of the stale stream is left open.
RegisterKeepStale(s) ==
    /\ ~crashed /\ handler[s] = "new"
    /\ \A t \in 1..(s - 1) : Opened(t)
    /\ registry' = s
    /\ handler' = [handler EXCEPT ![s] = "opening"]
    /\ UNCHANGED <<cmdChan, cmdClosed, ctxDone, sending, forwarder, held, requests,
                   delivered, dropped, batches, crashed>>

\* The agent is in the database (otherwise the call is refused and nothing
\* happens).  AgentRegistry.Register closes the channel of a stream that is still
\* registered.
Register(s) ==
    /\ ~crashed /\ handler[s] = "new"
    /\ \A t \in 1..(s - 1) : Opened(t)
    /\ registry' = s
    /\ cmdClosed' = [t \in Streams |-> cmdClosed[t] \/ t = registry]
    /\ handler' = [handler EXCEPT ![s] = "opening"]
    /\ UNCHANGED <<cmdChan, ctxDone, sending, forwarder, held, requests, delivered,
                   dropped, batches, crashed>>

\* The status has been written: the goroutines start.
StartGoroutines(s) ==
    /\ ~crashed /\ handler[s] = "opening"
    /\ handler' = [handler EXCEPT ![s] = "recv"]
    /\ sender' = [sender EXCEPT ![s] = "run"]
    /\ forwarder' = [forwarder EXCEPT ![s] = "select"]
    /\ UNCHANGED <<channels, ctxDone, sendChan, sendClosed, held, requests, delivered, dropped,
                   batches, crashed>>
-----------------------------------------------------------------------------
(* StreamEvents: the receive loop and the deferred clean-up.                 *)

\* Recv returns a batch and its response goes to sendChan.  A batch without a
\* response, and a response that finds sendChan full, change nothing here.
RecvBatch(s) ==
    /\ ~crashed /\ handler[s] = "recv"
    /\ batches < MaxBatches
    /\ Len(sendChan[s]) < SendCap
    /\ batches' = batches + 1
    /\ sendChan' = [sendChan EXCEPT ![s] = Append(@, Ack)]
    /\ UNCHANGED <<channels, handler, ctxDone, sendClosed, sender, forwarder, held, requests,
                   delivered, dropped, crashed>>

\* The sender's error is in sendDone: the loop returns without closing sendChan.
ReturnSendError(s) ==
    /\ ~crashed /\ handler[s] = "recv"
    /\ sender[s] = "failed"
    /\ sender' = [sender EXCEPT ![s] = "done"]
    /\ handler' = [handler EXCEPT ![s] = "deregister"]
    /\ UNCHANGED <<channels, ctxDone, sendChan, sendClosed, forwarder, held, requests,
                   delivered, dropped, batches, crashed>>

\* Faulty variant: sendChan is not closed when the loop ends.
CloseNothing(s) == UNCHANGED sendClosed

CloseSendChan(s) == sendClosed' = [sendClosed EXCEPT ![s] = TRUE]

\* Recv returns io.EOF or an error: sendChan is closed and the loop returns.
ReturnRecv(s) ==
    /\ ~crashed /\ handler[s] = "recv"
    /\ CloseSendChan(s)
    /\ handler' = [handler EXCEPT ![s] = "deregister"]
    /\ UNCHANGED <<channels, ctxDone, sendChan, sender, forwarder, held, requests, delivered,
                   dropped, batches, crashed>>

\* The agent has closed its side; the context is not done.
ReturnEOF(s) == ~ctxDone[s] /\ ReturnRecv(s)

\* Recv fails once the connection is lost.
ReturnRecvError(s) == ctxDone[s] /\ ReturnRecv(s)

\* AgentRegistry.Deregister: whichever channel the agent id has is closed and removed.
Deregister(s) ==
    /\ ~crashed /\ handler[s] = "deregister"
    /\ cmdClosed' = [t \in Streams |-> cmdClosed[t] \/ t = registry]
    /\ registry' = NoStream
    /\ handler' = [handler EXCEPT ![s] = "closing"]
    /\ UNCHANGED <<cmdChan, ctxDone, sending, forwarder, held, requests, delivered,
                   dropped, batches, crashed>>

\* The status has been written: the handler returns, which cancels the
\* stream's context.
Return(s) ==
    /\ ~crashed /\ handler[s] = "closing"
    /\ handler' = [handler EXCEPT ![s] = "done"]
    /\ ctxDone' = [ctxDone EXCEPT ![s] = TRUE]
    /\ UNCHANGED <<channels, sending, forwarder, held, requests, delivered, dropped,
                   batches, crashed>>

\* The connection below the stream is lost.
LoseConnection(s) ==
    /\ ~crashed /\ Opened(s)
    /\ ~ctxDone[s]
    /\ ctxDone' = [ctxDone EXCEPT ![s] = TRUE]
    /\ UNCHANGED <<channels, handler, sending, forwarder, held, requests, delivered,
                   dropped, batches, crashed>>
-----------------------------------------------------------------------------
(* The sender goroutine: the only one that calls stream.Send.                *)

Send(s) ==
    /\ ~crashed /\ sender[s] = "run"
    /\ sendChan[s] # <<>>
    /\ ~ctxDone[s]
    /\ sendChan' = [sendChan EXCEPT ![s] = Tail(@)]
    /\ delivered' = [delivered EXCEPT ![s] =
          IF Head(sendChan[s]) = Ack THEN @ ELSE Append(@, Head(sendChan[s]))]
    /\ UNCHANGED <<channels, handler, ctxDone, sendClosed, sender, forwarder, held,
                   requests, dropped, batches, crashed>>

SendError(s) ==
    /\ ~crashed /\ sender[s] = "run"
    /\ sendChan[s] # <<>>
    /\ ctxDone[s]
    /\ sendChan' = [sendChan EXCEPT ![s] = Tail(@)]
    /\ sender' = [sender EXCEPT ![s] = "failed"]
    /\ UNCHANGED <<channels, handler, ctxDone, sendClosed, forwarder, held, requests,
                   delivered, dropped, batches, crashed>>

\* The range over sendChan ends once it is closed and drained.
SenderEnd(s) ==
    /\ ~crashed /\ sender[s] = "run"
    /\ sendClosed[s]
    /\ sendChan[s] = <<>>
    /\ sender' = [sender EXCEPT ![s] = "done"]
    /\ UNCHANGED <<channels, handler, ctxDone, sendChan, sendClosed, forwarder, held,
                   requests, delivered, dropped, batches, crashed>>
-----------------------------------------------------------------------------
(* The forwarder goroutine.                                                  *)

\* A closed channel still yields what is buffered in it.
ForwarderReceive(s) ==
    /\ ~crashed /\ forwarder[s] = "select"
    /\ cmdChan[s] # <<>>
    /\ cmdChan' = [cmdChan EXCEPT ![s] = Tail(@)]
    /\ held' = [held EXCEPT ![s] = Head(cmdChan[s])]
    /\ forwarder' = [forwarder EXCEPT ![s] = "hold"]
    /\ UNCHANGED <<registry, cmdClosed, handler, ctxDone, sending, requests, delivered,
                   dropped, batches, crashed>>

\* Faulty variant: a command that finds sendChan full goes back into its channel.
ForwardRequeue(s) ==
    /\ ~crashed /\ forwarder[s] = "hold"
    /\ crashed' = sendClosed[s]
    /\ \/ sendClosed[s] /\ UNCHANGED <<sendChan, cmdChan>>
       \/ /\ ~sendClosed[s]
          /\ Len(sendChan[s]) < SendCap
          /\ sendChan' = [sendChan EXCEPT ![s] = Append(@, held[s])]
          /\ UNCHANGED cmdChan
       \/ /\ ~sendClosed[s]
          /\ Len(sendChan[s]) >= SendCap
          /\ cmdChan' = [cmdChan EXCEPT ![s] = Append(@, held[s])]
          /\ UNCHANGED sendChan
    /\ held' = [held EXCEPT ![s] = Ack]
    /\ forwarder' = [forwarder EXCEPT ![s] = "select"]
    /\ UNCHANGED <<registry, cmdClosed, handler, ctxDone, sendClosed, sender, requests, delivered,
                   dropped, batches>>

\* Faulty variant: the command is sent and the forwarder still holds it.
ForwardAgain(s) ==
    /\ ~crashed /\ forwarder[s] = "hold"
    /\ crashed' = sendClosed[s]
    /\ ~sendClosed[s] /\ Len(sendChan[s]) < SendCap
    /\ sendChan' = [sendChan EXCEPT ![s] = Append(@, held[s])]
    /\ UNCHANGED <<channels, handler, ctxDone, sendClosed, sender, forwarder, held, requests, delivered,
                   dropped, batches>>

\* A non-blocking send on sendChan, which panics when the handler has closed it.
\* Nothing recovers a panic of this goroutine: the server goes down.
Forward(s) ==
    /\ ~crashed /\ forwarder[s] = "hold"
    /\ crashed' = sendClosed[s]
    /\ \/ sendClosed[s] /\ UNCHANGED <<sendChan, dropped>>
       \/ /\ ~sendClosed[s]
          /\ Len(sendChan[s]) < SendCap
          /\ sendChan' = [sendChan EXCEPT ![s] = Append(@, held[s])]
          /\ UNCHANGED dropped
       \/ /\ ~sendClosed[s]
          /\ Len(sendChan[s]) >= SendCap
          /\ dropped' = dropped \cup {held[s]}
          /\ UNCHANGED sendChan
    /\ held' = [held EXCEPT ![s] = Ack]
    /\ forwarder' = [forwarder EXCEPT ![s] = "select"]
    /\ UNCHANGED <<channels, handler, ctxDone, sendClosed, sender, requests, delivered,
                   batches>>

\* Faulty variant: the forwarder ends as soon as its channel is closed.
ForwarderEndEarly(s) ==
    /\ ~crashed /\ forwarder[s] = "select"
    /\ ctxDone[s] \/ cmdClosed[s]
    /\ cmdChan' = [cmdChan EXCEPT ![s] = <<>>]
    /\ forwarder' = [forwarder EXCEPT ![s] = "done"]
    /\ UNCHANGED <<registry, cmdClosed, handler, ctxDone, sending, held, requests,
                   delivered, dropped, batches, crashed>>

ForwarderEnd(s) ==
    /\ ~crashed /\ forwarder[s] = "select"
    /\ ctxDone[s] \/ (cmdClosed[s] /\ cmdChan[s] = <<>>)
    /\ forwarder' = [forwarder EXCEPT ![s] = "done"]
    /\ UNCHANGED <<channels, handler, ctxDone, sending, held, requests, delivered,
                   dropped, batches, crashed>>
-----------------------------------------------------------------------------
(* ExecuteAgentCommand: IsOnline and Send's lookup under the read lock, then *)
(* the push without it.  A request whose agent goes offline between the two  *)
(* lookups fares like one whose agent is offline at the first.               *)

\* Every error response, 404, 409 or 500, is "refused".
Refuse(c) ==
    /\ request' = [request EXCEPT ![c] = "refused"]
    /\ target' = [target EXCEPT ![c] = NoStream]

Proceed(c, where, s) ==
    /\ request' = [request EXCEPT ![c] = where]
    /\ target' = [target EXCEPT ![c] = s]

Lookup(c) ==
    /\ ~crashed /\ request[c] = "new"
    /\ \A d \in 1..(c - 1) : request[d] # "new"
    /\ \/ registry = NoStream /\ Refuse(c)
       \/ registry # NoStream /\ Proceed(c, "found", registry)
    /\ UNCHANGED <<channels, handler, ctxDone, sending, forwarder, held, delivered, dropped, batches,
                   crashed>>

\* Faulty variant: the capacity of the channel is not respected.
PushBeyondCap(c) ==
    LET s == target[c] IN
    /\ ~crashed /\ request[c] = "found"
    /\ \/ cmdClosed[s] /\ Refuse(c) /\ UNCHANGED cmdChan
       \/ /\ ~cmdClosed[s]
          /\ cmdChan' = [cmdChan EXCEPT ![s] = Append(@, c)]
          /\ Proceed(c, "dispatched", s)
    /\ UNCHANGED <<registry, cmdClosed, handler, ctxDone, sending, forwarder, held, delivered,
                   dropped, batches, crashed>>

\* A send on a channel closed since the lookup panics, and the Recover
\* middleware of the REST server answers the request; a full channel refuses it.
Push(c) ==
    LET s == target[c] IN
    /\ ~crashed /\ request[c] = "found"
    /\ \/ cmdClosed[s] /\ Refuse(c) /\ UNCHANGED cmdChan
       \/ /\ ~cmdClosed[s]
          /\ Len(cmdChan[s]) < CommandCap
          /\ cmdChan' = [cmdChan EXCEPT ![s] = Append(@, c)]
          /\ Proceed(c, "dispatched", s)
       \/ /\ ~cmdClosed[s]
          /\ Len(cmdChan[s]) >= CommandCap
          /\ Refuse(c)
          /\ UNCHANGED cmdChan
    /\ UNCHANGED <<registry, cmdClosed, handler, ctxDone, sending, forwarder, held, delivered,
                   dropped, batches, crashed>>
-----------------------------------------------------------------------------
Init ==
    /\ registry = NoStream
    /\ cmdChan = [s \in Streams |-> <<>>]
    /\ cmdClosed = [s \in Streams |-> FALSE]
    /\ handler = [s \in Streams |-> "new"]
    /\ ctxDone = [s \in Streams |-> FALSE]
    /\ sendChan = [s \in Streams |-> <<>>]
    /\ sendClosed = [s \in Streams |-> FALSE]
    /\ sender = [s \in Streams |-> "off"]
    /\ forwarder = [s \in Streams |-> "off"]
    /\ held = [s \in Streams |-> Ack]
    /\ request = [c \in Commands |-> "new"]
    /\ target = [c \in Commands |-> NoStream]
    /\ delivered = [s \in Streams |-> <<>>]
    /\ dropped = {}
    /\ batches = 0
    /\ crashed = FALSE

Handler(s)   == StartGoroutines(s) \/ ReturnSendError(s) \/ ReturnRecvError(s) \/ Deregister(s)
                \/ Return(s)
Sender(s)    == Send(s) \/ SendError(s) \/ SenderEnd(s)
Forwarder(s) == ForwarderReceive(s) \/ Forward(s) \/ ForwarderEnd(s)
Request(c)   == Lookup(c) \/ Push(c)

Next ==
    \/ \E s \in Streams :
          \/ Register(s) \/ LoseConnection(s) \/ RecvBatch(s) \/ ReturnEOF(s)
          \/ Handler(s) \/ Sender(s) \/ Forwarder(s)
    \/ \E c \in Commands : Request(c)

Spec == Init /\ [][Next]_vars

(* Every goroutine of the server runs on; a handler returns once its         *)
(* connection is lost, not because the agent closes it.                      *)
Fairness ==
    \A s \in Streams :
        /\ WF_vars(Handler(s))
        /\ WF_vars(Sender(s))
        /\ WF_vars(Forwarder(s))

FairSpec == Spec /\ Fairness
-----------------------------------------------------------------------------
TypeOK ==
    /\ registry \in Streams \cup {NoStream}
    /\ cmdChan \in [Streams -> Seq(Commands)]
    /\ \A s \in Streams : Len(cmdChan[s]) <= CommandCap
    /\ cmdClosed \in [Streams -> BOOLEAN]
    /\ handler \in [Streams -> {"new", "opening", "recv", "deregister", "closing", "done"}]
    /\ ctxDone \in [Streams -> BOOLEAN]
    /\ sendChan \in [Streams -> Seq(Commands \cup {Ack})]
    /\ \A s \in Streams : Len(sendChan[s]) <= SendCap
    /\ sendClosed \in [Streams -> BOOLEAN]
    /\ sender \in [Streams -> {"off", "run", "failed", "done"}]
    /\ forwarder \in [Streams -> {"off", "select", "hold", "done"}]
    /\ held \in [Streams -> Commands \cup {Ack}]
    /\ request \in [Commands -> {"new", "found", "dispatched", "refused"}]
    /\ target \in [Commands -> Streams \cup {NoStream}]
    /\ delivered \in [Streams -> Seq(Commands)]
    /\ dropped \subseteq Commands
    /\ batches \in Nat
    /\ crashed \in BOOLEAN

\* The registry's entry is the one open channel: neither Register nor Deregister
\* ever closes a channel twice (a panic), and no stream is left with an open
\* channel that nobody can reach and nobody will close.
OneOpenChannel == \A s \in Streams : Opened(s) => (~cmdClosed[s] <=> registry = s)

\* Where a dispatched command can be.
Places(c) ==
    {<<"chan", s>> : s \in {t \in Streams : c \in ToSet(cmdChan[t])}}
    \cup {<<"held", s>> : s \in {t \in Streams : held[t] = c}}
    \cup {<<"send", s>> : s \in {t \in Streams : c \in ToSet(sendChan[t])}}
    \cup {<<"delivered", s>> : s \in {t \in Streams : c \in ToSet(delivered[t])}}
    \cup {<<"dropped", s>> : s \in {t \in {target[c]} : c \in dropped}}

\* A dispatched command is in exactly one place, and on its way over the stream
\* it was pushed to, until that connection ends: a reconnect that replaces the
\* registration neither loses nor repeats it.
Accounted ==
    \A c \in Commands : request[c] = "dispatched" /\ ~crashed =>
        /\ Cardinality(Places(c)) <= 1
        /\ Places(c) = {} => ctxDone[target[c]]

\* What has become of a command, as its sender would see it.
Fate(c) ==
    CASE request[c] \in {"new", "found"} -> "unanswered"
      [] request[c] = "refused" -> "refused"
      [] request[c] = "dispatched" /\ c \in ToSet(delivered[target[c]]) -> "delivered"
      [] request[c] = "dispatched" /\ (c \in dropped \/ Places(c) = {}) -> "lost"
      [] OTHER -> "underway"

Promise == INSTANCE CommandDelivery WITH fate <- [c \in Commands |-> Fate(c)], received <- delivered

\* The routing keeps its promise: refused commands never reach the agent and the
\* dispatched ones reach it at most once, over the stream they were pushed to,
\* whatever reconnects, full channels and failing streams do to them on the way.
KeepsPromise == Promise!Spec

\* What is on the way over stream s, from the agent's end to the push: commands,
\* and responses among them.
Pipeline(s) == delivered[s] \o sendChan[s] \o <<held[s]>> \o cmdChan[s]

Before(q, c, d) == \E i, j \in DOMAIN q : i < j /\ q[i] = c /\ q[j] = d

\* No command overtakes another of its stream on the way from the REST request
\* to the agent, through two channels and two goroutines: a step leaves the
\* commands that are in the pipeline before and after it in the same order, and
\* doubles none of them.
NoOvertaking ==
    [][\A s \in Streams : \A c, d \in (ToSet(Pipeline(s)) \cap ToSet(Pipeline(s)')) \ {Ack} :
          Before(Pipeline(s)', c, d) <=> Before(Pipeline(s), c, d)]_vars

\* A command answered "dispatched" is sent or dropped, or its connection ends.
DispatchedResolves ==
    \A c \in Commands : request[c] = "dispatched" ~>
        \/ c \in dropped
        \/ crashed
        \/ \E s \in Streams : target[c] = s /\ (ctxDone[s] \/ c \in ToSet(delivered[s]))

\* A handler that has left its loop leaves no goroutine waiting for ever: the
\* sender has failed or its channel is closed, and once the registration is gone
\* so is the forwarder's.
NoGoroutineLeak ==
    \A s \in Streams :
        /\ handler[s] \in {"deregister", "closing", "done"} => sendClosed[s] \/ sender[s] = "done"
        /\ handler[s] \in {"closing", "done"} => cmdClosed[s]
-----------------------------------------------------------------------------
(* What the code's comments and documents say, and the code does not do.     *)

\* "IsOnline returns true if the agent has an active stream."
IsOnlineIsTrue == (\E s \in Streams : handler[s] = "recv" /\ ~ctxDone[s]) => registry # NoStream

\* One channel drained by one goroutine "eliminates the race condition that
\* previously caused commands to be silently lost": a command answered
\* "dispatched" is not lost while the agent is connected.
NoSilentLoss ==
    \A c \in Commands : request[c] = "dispatched" /\ ~ctxDone[target[c]] => Places(c) # {}
=============================================================================
