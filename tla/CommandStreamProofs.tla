------------------------ MODULE CommandStreamProofs ------------------------
(***************************************************************************)
(* Proofs about CommandStream for any number of streams, commands and      *)
(* batches and any capacity.  OneOpenChannel and NoGoroutineLeak are       *)
(* inductive together with the type of the state and with what is true of  *)
(* a stream that has not registered yet (IInv).  Where the commands are is *)
(* a second invariant on top of it (Journey): Accounted follows from it,   *)
(* and so do, with what a step may do to it (Moves, InOrder), the          *)
(* refinement of CommandDelivery and the order of the commands.            *)
(***************************************************************************)
EXTENDS CommandStream, FiniteSetTheorems, TLAPS

\* The part of the state that the registry, the handlers and their goroutines own.
ControlType ==
    /\ registry \in Streams \cup {NoStream}
    /\ cmdClosed \in [Streams -> BOOLEAN]
    /\ handler \in [Streams -> {"new", "opening", "recv", "deregister", "closing", "done"}]
    /\ ctxDone \in [Streams -> BOOLEAN]
    /\ sendClosed \in [Streams -> BOOLEAN]
    /\ sender \in [Streams -> {"off", "run", "failed", "done"}]
    /\ forwarder \in [Streams -> {"off", "select", "hold", "done"}]
    /\ batches \in Nat
    /\ crashed \in BOOLEAN

\* The part that carries commands.
QueueType ==
    /\ cmdChan \in [Streams -> Seq(Commands)]
    /\ \A s \in Streams : Len(cmdChan[s]) <= CommandCap
    /\ sendChan \in [Streams -> Seq(Commands \cup {Ack})]
    /\ \A s \in Streams : Len(sendChan[s]) <= SendCap
    /\ held \in [Streams -> Commands \cup {Ack}]
    /\ \A s \in Streams : forwarder[s] = "hold" => held[s] \in Commands
    /\ request \in [Commands -> {"new", "found", "dispatched", "refused"}]
    /\ target \in [Commands -> Streams \cup {NoStream}]
    /\ \A c \in Commands : request[c] = "found" => target[c] \in Streams
    /\ delivered \in [Streams -> Seq(Commands)]
    /\ dropped \subseteq Commands

\* Before it registers, a stream has neither an entry nor a closed channel, and its
\* goroutines start only once it has registered.
NotYetOpened ==
    \A s \in Streams :
        /\ ~Opened(s) => ~cmdClosed[s] /\ registry # s
        /\ handler[s] \in {"new", "opening"} => sender[s] = "off" /\ forwarder[s] = "off"

ControlInv == ControlType /\ NotYetOpened /\ OneOpenChannel /\ NoGoroutineLeak
IInv       == ControlInv /\ QueueType
-----------------------------------------------------------------------------
\* No stream has registered at first, and every channel is empty.
LEMMA InitIInv == Init => IInv
<1> SUFFICES ASSUME Init PROVE IInv
  OBVIOUS
<1>1. ControlInv
  <2>1. ControlType
    BY DEF Init, ControlType
  <2>2. \A s \in Streams : ~Opened(s) /\ registry # s /\ sender[s] = "off" /\ forwarder[s] = "off"
    BY StreamAssumption DEF Init, Opened, Streams, NoStream
  <2>3. \A s \in Streams : ~cmdClosed[s] /\ handler[s] = "new"
    BY DEF Init
  <2> QED
    BY <2>1, <2>2, <2>3 DEF ControlInv, NotYetOpened, OneOpenChannel, NoGoroutineLeak
<1>2. QueueType
  <2>1. <<>> \in Seq(Commands) /\ <<>> \in Seq(Commands \cup {Ack}) /\ Len(<<>>) = 0
    OBVIOUS
  <2> QED
    BY <2>1, StreamAssumption DEF Init, QueueType
<1> QED
  BY <1>1, <1>2 DEF IInv

\* The steps of the handler of stream s keep the control part.
LEMMA HandlerControl ==
    ASSUME NEW s \in Streams, ControlInv
    PROVE  Register(s) \/ LoseConnection(s) \/ RecvBatch(s) \/ ReturnEOF(s) \/ Handler(s)
           => ControlInv'
<1> USE DEF ControlInv, ControlType, NotYetOpened, OneOpenChannel, NoGoroutineLeak, Opened,
            NoStream, Streams
<1>1. ASSUME Register(s) PROVE ControlInv'
  BY <1>1 DEF Register, sending, requests
<1>2. ASSUME LoseConnection(s) PROVE ControlInv'
  BY <1>2 DEF LoseConnection, channels, sending, requests
<1>3. ASSUME RecvBatch(s) PROVE ControlInv'
  BY <1>3 DEF RecvBatch, channels, requests
<1>4. ASSUME ReturnRecv(s) PROVE ControlInv'
  BY <1>4 DEF ReturnRecv, CloseSendChan, channels, requests
<1>5. ASSUME StartGoroutines(s) PROVE ControlInv'
  BY <1>5 DEF StartGoroutines, channels, requests
<1>6. ASSUME ReturnSendError(s) PROVE ControlInv'
  BY <1>6 DEF ReturnSendError, channels, requests
<1>7. ASSUME Deregister(s) PROVE ControlInv'
  <2>1. ControlType'
    BY <1>7 DEF Deregister, sending, requests, ControlInv, ControlType
  <2>2. \A t \in Streams : registry' # t
    BY <1>7, StreamAssumption DEF Deregister, Streams, NoStream
  <2>3. \A t \in Streams : cmdClosed'[t] <=> cmdClosed[t] \/ t = registry
    BY <1>7 DEF Deregister
  <2>4. \A t \in Streams : handler'[t] = IF t = s THEN "closing" ELSE handler[t]
    BY <1>7 DEF Deregister, ControlInv, ControlType
  <2>5. handler[s] = "deregister" /\ UNCHANGED <<sender, forwarder, sendClosed>>
    BY <1>7 DEF Deregister, sending
  <2> QED
    BY <2>1, <2>2, <2>3, <2>4, <2>5
       DEF ControlInv, NotYetOpened, OneOpenChannel, NoGoroutineLeak, Opened
<1>8. ASSUME Return(s) PROVE ControlInv'
  BY <1>8 DEF Return, channels, sending, requests
<1> QED
  BY <1>1, <1>2, <1>3, <1>4, <1>5, <1>6, <1>7, <1>8 DEF Handler, ReturnEOF, ReturnRecvError

\* The goroutines of stream s keep the control part: none of them registers or closes
\* a channel.
LEMMA GoroutineControl ==
    ASSUME NEW s \in Streams, ControlInv
    PROVE  Sender(s) \/ Forwarder(s) => ControlInv'
<1> USE DEF ControlInv, ControlType, NotYetOpened, OneOpenChannel, NoGoroutineLeak, Opened,
            NoStream, Streams
<1>1. ASSUME Send(s) PROVE ControlInv'
  BY <1>1 DEF Send, channels, requests
<1>2. ASSUME SendError(s) PROVE ControlInv'
  BY <1>2 DEF SendError, channels, requests
<1>3. ASSUME SenderEnd(s) PROVE ControlInv'
  BY <1>3 DEF SenderEnd, channels, requests
<1>4. ASSUME ForwarderReceive(s) PROVE ControlInv'
  BY <1>4 DEF ForwarderReceive, sending, requests
<1>5. ASSUME Forward(s) PROVE ControlInv'
  BY <1>5 DEF Forward, channels, requests
<1>6. ASSUME ForwarderEnd(s) PROVE ControlInv'
  BY <1>6 DEF ForwarderEnd, channels, sending, requests
<1> QED
  BY <1>1, <1>2, <1>3, <1>4, <1>5, <1>6 DEF Sender, Forwarder

\* A request touches a channel's contents only.
LEMMA RequestControl ==
    ASSUME NEW c \in Commands, ControlInv
    PROVE  Request(c) => ControlInv'
<1> USE DEF ControlInv, ControlType, NotYetOpened, OneOpenChannel, NoGoroutineLeak, Opened,
            NoStream, Streams
<1>1. ASSUME Lookup(c) PROVE ControlInv'
  BY <1>1 DEF Lookup, channels, sending
<1>2. ASSUME Push(c) PROVE ControlInv'
  BY <1>2 DEF Push, sending
<1> QED
  BY <1>1, <1>2 DEF Request

\* One queue of several is replaced by another.
LEMMA QueueUpdate ==
    ASSUME NEW S, NEW cap, NEW f \in [Streams -> Seq(S)], NEW s \in Streams, NEW q \in Seq(S),
           \A t \in Streams : Len(f[t]) <= cap, Len(q) <= cap
    PROVE  /\ [f EXCEPT ![s] = q] \in [Streams -> Seq(S)]
           /\ \A t \in Streams : Len([f EXCEPT ![s] = q][t]) <= cap
OBVIOUS

\* What receiving from a queue, and sending to it, does to its type.
LEMMA QueueSteps ==
    ASSUME NEW S, NEW q \in Seq(S)
    PROVE  /\ Len(q) \in Nat
           /\ q # <<>> => Head(q) \in S /\ Tail(q) \in Seq(S) /\ Len(Tail(q)) = Len(q) - 1
           /\ \A e \in S : Append(q, e) \in Seq(S) /\ Len(Append(q, e)) = Len(q) + 1
OBVIOUS

\* The handler's own steps leave the queues alone, but for the response to a batch.
LEMMA HandlerQueues ==
    ASSUME NEW s \in Streams, ControlInv, QueueType
    PROVE  Register(s) \/ LoseConnection(s) \/ RecvBatch(s) \/ ReturnEOF(s) \/ Handler(s)
           => QueueType'
<1>1. ASSUME Register(s) PROVE QueueType'
  BY <1>1 DEF Register, sending, requests, QueueType
<1>2. ASSUME LoseConnection(s) PROVE QueueType'
  BY <1>2 DEF LoseConnection, channels, sending, requests, QueueType
<1>3. ASSUME RecvBatch(s) PROVE QueueType'
  <2>1. sendChan[s] \in Seq(Commands \cup {Ack}) /\ Ack \in Commands \cup {Ack}
    BY DEF QueueType
  <2>2. /\ Append(sendChan[s], Ack) \in Seq(Commands \cup {Ack})
        /\ Len(Append(sendChan[s], Ack)) <= SendCap
    BY <1>3, <2>1, QueueSteps, StreamAssumption DEF RecvBatch
  <2>3. /\ sendChan' \in [Streams -> Seq(Commands \cup {Ack})]
        /\ \A t \in Streams : Len(sendChan'[t]) <= SendCap
    BY <1>3, <2>2, QueueUpdate DEF RecvBatch, QueueType
  <2> QED
    BY <1>3, <2>3 DEF RecvBatch, channels, requests, QueueType
<1>4. ASSUME ReturnRecv(s) PROVE QueueType'
  BY <1>4 DEF ReturnRecv, channels, requests, QueueType
<1>5. ASSUME StartGoroutines(s) PROVE QueueType'
  BY <1>5 DEF StartGoroutines, channels, requests, QueueType, ControlInv, ControlType
<1>6. ASSUME ReturnSendError(s) PROVE QueueType'
  BY <1>6 DEF ReturnSendError, channels, requests, QueueType
<1>7. ASSUME Deregister(s) PROVE QueueType'
  BY <1>7 DEF Deregister, sending, requests, QueueType
<1>8. ASSUME Return(s) PROVE QueueType'
  BY <1>8 DEF Return, channels, sending, requests, QueueType
<1> QED
  BY <1>1, <1>2, <1>3, <1>4, <1>5, <1>6, <1>7, <1>8 DEF Handler, ReturnEOF, ReturnRecvError

\* The sender takes from sendChan what the forwarder took from the command channel.
LEMMA GoroutineQueues ==
    ASSUME NEW s \in Streams, ControlInv, QueueType
    PROVE  Sender(s) \/ Forwarder(s) => QueueType'
<1>1. ASSUME sendChan[s] # <<>>
      PROVE  /\ Head(sendChan[s]) \in Commands \cup {Ack}
             /\ [sendChan EXCEPT ![s] = Tail(@)] \in [Streams -> Seq(Commands \cup {Ack})]
             /\ \A t \in Streams : Len([sendChan EXCEPT ![s] = Tail(@)][t]) <= SendCap
  <2>1. sendChan[s] \in Seq(Commands \cup {Ack})
    BY DEF QueueType
  <2>2. Tail(sendChan[s]) \in Seq(Commands \cup {Ack}) /\ Len(Tail(sendChan[s])) <= SendCap
    BY <1>1, <2>1, QueueSteps, StreamAssumption DEF QueueType
  <2> QED
    BY <1>1, <2>1, <2>2, QueueSteps, QueueUpdate DEF QueueType
<1>2. ASSUME Send(s) PROVE QueueType'
  <2>1. delivered' \in [Streams -> Seq(Commands)]
    BY <1>1, <1>2 DEF Send, QueueType
  <2> QED
    BY <1>1, <1>2, <2>1 DEF Send, channels, requests, QueueType
<1>3. ASSUME SendError(s) PROVE QueueType'
  BY <1>1, <1>3 DEF SendError, channels, requests, QueueType
<1>4. ASSUME SenderEnd(s) PROVE QueueType'
  BY <1>4 DEF SenderEnd, channels, requests, QueueType
<1>5. ASSUME ForwarderReceive(s) PROVE QueueType'
  <2>1. cmdChan[s] \in Seq(Commands)
    BY DEF QueueType
  <2>2. /\ Tail(cmdChan[s]) \in Seq(Commands) /\ Len(Tail(cmdChan[s])) <= CommandCap
        /\ Head(cmdChan[s]) \in Commands
    BY <1>5, <2>1, QueueSteps, StreamAssumption DEF ForwarderReceive, QueueType
  <2>3. /\ cmdChan' \in [Streams -> Seq(Commands)]
        /\ \A t \in Streams : Len(cmdChan'[t]) <= CommandCap
    BY <1>5, <2>2, QueueUpdate DEF ForwarderReceive, QueueType
  <2> QED
    BY <1>5, <2>2, <2>3 DEF ForwarderReceive, sending, requests, QueueType, ControlInv, ControlType
<1>6. ASSUME Forward(s) PROVE QueueType'
  <2>1. held[s] \in Commands
    BY <1>6 DEF Forward, QueueType
  <2>2. /\ sendChan' \in [Streams -> Seq(Commands \cup {Ack})]
        /\ \A t \in Streams : Len(sendChan'[t]) <= SendCap
    <3>1. ASSUME Len(sendChan[s]) < SendCap
          PROVE  /\ Append(sendChan[s], held[s]) \in Seq(Commands \cup {Ack})
                 /\ Len(Append(sendChan[s], held[s])) <= SendCap
      <4>1. sendChan[s] \in Seq(Commands \cup {Ack}) /\ held[s] \in Commands \cup {Ack}
        BY DEF QueueType
      <4> QED
        BY <3>1, <4>1, QueueSteps, StreamAssumption
    <3>2. CASE sendChan' = sendChan
      BY <3>2 DEF QueueType
    <3>3. CASE Len(sendChan[s]) < SendCap /\ sendChan' = [sendChan EXCEPT ![s] = Append(@, held[s])]
      BY <3>1, <3>3, QueueUpdate DEF QueueType
    <3> QED
      BY <1>6, <3>2, <3>3 DEF Forward
  <2> QED
    BY <1>6, <2>1, <2>2 DEF Forward, channels, requests, QueueType, ControlInv, ControlType
<1>7. ASSUME ForwarderEnd(s) PROVE QueueType'
  BY <1>7 DEF ForwarderEnd, channels, sending, requests, QueueType, ControlInv, ControlType
<1> QED
  BY <1>2, <1>3, <1>4, <1>5, <1>6, <1>7 DEF Sender, Forwarder

\* A request goes to the stream it has found, when its channel has room.
LEMMA RequestQueues ==
    ASSUME NEW c \in Commands, ControlInv, QueueType
    PROVE  Request(c) => QueueType'
<1>1. ASSUME Lookup(c) PROVE QueueType'
  <2>1. /\ request' \in [Commands -> {"new", "found", "dispatched", "refused"}]
        /\ target' \in [Commands -> Streams \cup {NoStream}]
        /\ \A d \in Commands : request'[d] = "found" => target'[d] \in Streams
    <3>1. CASE Refuse(c)
      BY <3>1 DEF Refuse, QueueType
    <3>2. CASE registry \in Streams /\ Proceed(c, "found", registry)
      BY <3>2 DEF Proceed, QueueType
    <3> QED
      BY <1>1, <3>1, <3>2 DEF Lookup, ControlInv, ControlType
  <2> QED
    BY <1>1, <2>1 DEF Lookup, channels, sending, QueueType
<1>2. ASSUME Push(c) PROVE QueueType'
  <2>1. target[c] \in Streams
    BY <1>2 DEF Push, QueueType
  <2>2. /\ request' \in [Commands -> {"new", "found", "dispatched", "refused"}]
        /\ target' \in [Commands -> Streams \cup {NoStream}]
        /\ \A d \in Commands : request'[d] = "found" => target'[d] \in Streams
    BY <1>2, <2>1 DEF Push, Refuse, Proceed, QueueType
  <2>3. /\ cmdChan' \in [Streams -> Seq(Commands)]
        /\ \A t \in Streams : Len(cmdChan'[t]) <= CommandCap
    <3>1. ASSUME Len(cmdChan[target[c]]) < CommandCap
          PROVE  /\ Append(cmdChan[target[c]], c) \in Seq(Commands)
                 /\ Len(Append(cmdChan[target[c]], c)) <= CommandCap
      <4>1. cmdChan[target[c]] \in Seq(Commands)
        BY <2>1 DEF QueueType
      <4> QED
        BY <3>1, <4>1, QueueSteps, StreamAssumption
    <3>2. CASE cmdChan' = cmdChan
      BY <3>2 DEF QueueType
    <3>3. CASE /\ Len(cmdChan[target[c]]) < CommandCap
               /\ cmdChan' = [cmdChan EXCEPT ![target[c]] = Append(@, c)]
      BY <2>1, <3>1, <3>3, QueueUpdate DEF QueueType
    <3> QED
      BY <1>2, <3>2, <3>3 DEF Push
  <2> QED
    BY <1>2, <2>2, <2>3 DEF Push, sending, QueueType
<1> QED
  BY <1>1, <1>2 DEF Request

\* The induction step.
LEMMA NextIInv == IInv /\ [Next]_vars => IInv'
<1> SUFFICES ASSUME ControlInv, QueueType, [Next]_vars PROVE ControlInv' /\ QueueType'
  BY DEF IInv
<1>1. ASSUME NEW s \in Streams,
             Register(s) \/ LoseConnection(s) \/ RecvBatch(s) \/ ReturnEOF(s) \/ Handler(s)
      PROVE  ControlInv' /\ QueueType'
  BY <1>1, HandlerControl, HandlerQueues
<1>2. ASSUME NEW s \in Streams, Sender(s) \/ Forwarder(s) PROVE ControlInv' /\ QueueType'
  BY <1>2, GoroutineControl, GoroutineQueues
<1>3. ASSUME NEW c \in Commands, Request(c) PROVE ControlInv' /\ QueueType'
  BY <1>3, RequestControl, RequestQueues
<1>4. CASE UNCHANGED vars
  BY <1>4 DEF vars, QueueType, ControlInv, ControlType, NotYetOpened, OneOpenChannel,
     NoGoroutineLeak, Opened
<1> QED
  BY <1>1, <1>2, <1>3, <1>4 DEF Next
-----------------------------------------------------------------------------
\* The inductive invariant holds in every reachable state.
THEOREM Invariance == Spec => []IInv
<1>1. Init => IInv
  BY InitIInv
<1>2. IInv /\ [Next]_vars => IInv'
  BY NextIInv
<1> QED
  BY <1>1, <1>2, PTL DEF Spec

\* The state of the registry, the streams and the requests keeps its type; neither a
\* command channel nor sendChan exceeds its capacity.
THEOREM TypeCorrect == Spec => []TypeOK
<1>1. IInv => TypeOK
  BY DEF IInv, ControlInv, ControlType, QueueType, TypeOK
<1> QED
  BY <1>1, Invariance, PTL

\* Register and Deregister close each channel once, whatever streams overlap.
THEOREM ChannelsClosedOnce == Spec => []OneOpenChannel
<1>1. IInv => OneOpenChannel
  BY DEF IInv, ControlInv
<1> QED
  BY <1>1, Invariance, PTL

\* Once StreamEvents has left its loop, its sender has ended or finds sendChan closed;
\* once it has deregistered, its forwarder finds its channel closed.
THEOREM GoroutinesEnd == Spec => []NoGoroutineLeak
<1>1. IInv => NoGoroutineLeak
  BY DEF IInv, ControlInv
<1> QED
  BY <1>1, Invariance, PTL
-----------------------------------------------------------------------------
(* Where the commands are: the journey of a command from the push to the     *)
(* agent.                                                                    *)

\* The commands in the channel, in the forwarder's hand, in sendChan, and with the
\* agent, per stream.
Chan(s)  == ToSet(cmdChan[s])
Hand(s)  == {held[s]} \ {Ack}
Line(s)  == ToSet(sendChan[s]) \ {Ack}
Got(s)   == ToSet(delivered[s])
Along(s) == Chan(s) \cup Hand(s) \cup Line(s) \cup Got(s)

Distinct(q) == \A i, j \in DOMAIN q : q[i] = q[j] /\ q[i] # Ack => i = j

\* What is on its way over a stream was dispatched to that stream.
Belong ==
    /\ \A s \in Streams : \A c \in Along(s) :
          c \in Commands /\ request[c] = "dispatched" /\ target[c] = s
    /\ \A c \in dropped : request[c] = "dispatched"
    /\ \A c \in Commands : request[c] = "dispatched" => target[c] \in Streams

\* It is in one of the places only.
Apart ==
    \A s \in Streams :
        /\ \A c \in Chan(s) : c \notin Hand(s) /\ c \notin Line(s) /\ c \notin Got(s) /\ c \notin dropped
        /\ \A c \in Hand(s) : c \notin Line(s) /\ c \notin Got(s) /\ c \notin dropped
        /\ \A c \in Line(s) : c \notin Got(s) /\ c \notin dropped
        /\ \A c \in Got(s)  : c \notin dropped

\* It is there once, and the forwarder's hand is empty unless it is about to forward.
Queued ==
    \A s \in Streams :
        /\ Distinct(cmdChan[s])
        /\ Distinct(sendChan[s])
        /\ forwarder[s] # "hold" => held[s] = Ack

\* It is somewhere, unless its connection or the whole process is gone.
Present ==
    crashed \/ \A c \in Commands : request[c] = "dispatched" =>
        c \in Along(target[c]) \/ c \in dropped \/ ctxDone[target[c]]

Journey == Belong /\ Apart /\ Queued /\ Present

\* What a step can do to the journeys: nothing; answer a request without dispatching it,
\* or dispatch it; take a command to the agent; lose it.
Keeps(S) == \A t \in Streams : \A d : d \notin S => (d \in Along(t)' <=> d \in Along(t))

Others(c) == \A d \in Commands \ {c} : request'[d] = request[d] /\ target'[d] = target[d]

Quiet == Keeps({}) /\ UNCHANGED <<request, target, delivered>>

Answered(c) ==
    /\ request[c] \in {"new", "found"} /\ request'[c] \in {"found", "refused"}
    /\ Others(c) /\ Keeps({}) /\ UNCHANGED delivered

Dispatched(c) ==
    /\ request[c] = "found" /\ request'[c] = "dispatched"
    /\ c \in Along(target[c])'
    /\ Others(c) /\ Keeps({c}) /\ UNCHANGED delivered

Arrived(c, s) ==
    /\ c \in Line(s)
    /\ delivered' = [delivered EXCEPT ![s] = Append(@, c)]
    /\ Keeps({}) /\ UNCHANGED <<request, target>>

Gone(c, s) ==
    /\ c \in Along(s) /\ c \notin Got(s) /\ c \notin Along(s)'
    /\ Keeps({c}) /\ UNCHANGED <<request, target, delivered>>

Moves ==
    \/ Quiet
    \/ \E c \in Commands : Answered(c) \/ Dispatched(c)
    \/ \E c \in Commands, s \in Streams : Arrived(c, s) \/ Gone(c, s)

\* c is ahead of d on the way over stream s: nearer the agent's end of it.
Ahead(s, c, d) ==
    \/ Before(delivered[s], c, d)
    \/ Before(sendChan[s], c, d)
    \/ Before(cmdChan[s], c, d)
    \/ c \in Got(s) /\ (d \in Line(s) \/ d \in Hand(s) \/ d \in Chan(s))
    \/ c \in Line(s) /\ (d \in Hand(s) \/ d \in Chan(s))
    \/ c \in Hand(s) /\ d \in Chan(s)

\* A step changes the order of no two commands that are on the way before and after it.
InOrder ==
    \A s \in Streams : \A c, d \in Along(s) :
        c \in Along(s)' /\ d \in Along(s)' => (Ahead(s, c, d)' <=> Ahead(s, c, d))

\* Sending to a queue adds an element to it.
LEMMA SendingAdds ==
    ASSUME NEW S, NEW q \in Seq(S), NEW e \in S
    PROVE  /\ ToSet(Append(q, e)) = ToSet(q) \cup {e}
           /\ Distinct(q) /\ (e = Ack \/ e \notin ToSet(q)) => Distinct(Append(q, e))
           /\ \A c, d : Before(Append(q, e), c, d) <=> Before(q, c, d) \/ (c \in ToSet(q) /\ d = e)
<1>1. /\ DOMAIN q = 1..Len(q) /\ Len(q) \in Nat
      /\ DOMAIN Append(q, e) = 1..(Len(q) + 1)
      /\ \A i \in 1..Len(q) : Append(q, e)[i] = q[i]
      /\ Append(q, e)[Len(q) + 1] = e
  OBVIOUS
<1>2. ToSet(Append(q, e)) = ToSet(q) \cup {e}
  BY <1>1 DEF ToSet
<1>3. ASSUME Distinct(q), e = Ack \/ e \notin ToSet(q) PROVE Distinct(Append(q, e))
  BY <1>1, <1>3 DEF Distinct, ToSet
<1>4. ASSUME NEW c, NEW d
      PROVE  Before(Append(q, e), c, d) <=> Before(q, c, d) \/ (c \in ToSet(q) /\ d = e)
  <2>1. ASSUME Before(Append(q, e), c, d) PROVE Before(q, c, d) \/ (c \in ToSet(q) /\ d = e)
    BY <1>1, <2>1 DEF Before, ToSet
  <2>2. ASSUME Before(q, c, d) PROVE Before(Append(q, e), c, d)
    BY <1>1, <2>2 DEF Before
  <2>3. ASSUME c \in ToSet(q), d = e PROVE Before(Append(q, e), c, d)
    BY <1>1, <2>3 DEF Before, ToSet
  <2> QED
    BY <2>1, <2>2, <2>3
<1> QED
  BY <1>2, <1>3, <1>4

\* Receiving from a queue removes its head, which is nowhere else in it.
LEMMA ReceivingRemoves ==
    ASSUME NEW S, NEW q \in Seq(S), q # <<>>, Distinct(q)
    PROVE  /\ Head(q) \in ToSet(q)
           /\ ToSet(Tail(q)) \ {Ack} = ToSet(q) \ {Head(q), Ack}
           /\ Distinct(Tail(q))
           /\ \A c, d : Before(q, c, d) <=> Before(Tail(q), c, d) \/ (c = Head(q) /\ d \in ToSet(Tail(q)))
<1>1. /\ DOMAIN q = 1..Len(q) /\ Len(q) \in Nat \ {0}
      /\ DOMAIN Tail(q) = 1..(Len(q) - 1)
      /\ \A i \in 1..(Len(q) - 1) : Tail(q)[i] = q[i + 1]
      /\ Head(q) = q[1]
  OBVIOUS
<1>2. Head(q) \in ToSet(q)
  BY <1>1 DEF ToSet
<1>3. Distinct(Tail(q))
  BY <1>1 DEF Distinct
<1>4. ASSUME NEW x \in ToSet(Tail(q)), x # Ack PROVE x \in ToSet(q) /\ x # Head(q)
  BY <1>1, <1>4 DEF ToSet, Distinct
<1>5. ASSUME NEW x \in ToSet(q), x # Head(q) PROVE x \in ToSet(Tail(q))
  <2>1. PICK i \in 1..Len(q) : x = q[i]
    BY <1>1, <1>5 DEF ToSet
  <2>2. i # 1 /\ i - 1 \in 1..(Len(q) - 1) /\ x = Tail(q)[i - 1]
    BY <1>1, <1>5, <2>1
  <2> QED
    BY <1>1, <2>2 DEF ToSet
<1>6. ASSUME NEW c, NEW d
      PROVE  Before(q, c, d) <=> Before(Tail(q), c, d) \/ (c = Head(q) /\ d \in ToSet(Tail(q)))
  <2>1. ASSUME Before(q, c, d) PROVE Before(Tail(q), c, d) \/ (c = Head(q) /\ d \in ToSet(Tail(q)))
    <3>1. PICK i \in 1..Len(q), j \in 1..Len(q) : i < j /\ q[i] = c /\ q[j] = d
      BY <1>1, <2>1 DEF Before
    <3>2. j - 1 \in DOMAIN Tail(q) /\ Tail(q)[j - 1] = d
      BY <1>1, <3>1
    <3>3. CASE i = 1
      BY <1>1, <3>1, <3>2, <3>3 DEF ToSet
    <3>4. CASE i # 1
      <4>1. i - 1 \in DOMAIN Tail(q) /\ Tail(q)[i - 1] = c /\ i - 1 < j - 1
        BY <1>1, <3>1, <3>4
      <4> QED
        BY <3>2, <4>1 DEF Before
    <3> QED
      BY <3>3, <3>4
  <2>2. ASSUME Before(Tail(q), c, d) PROVE Before(q, c, d)
    <3>1. PICK i \in 1..(Len(q) - 1), j \in 1..(Len(q) - 1) : i < j /\ Tail(q)[i] = c /\ Tail(q)[j] = d
      BY <1>1, <2>2 DEF Before
    <3>2. /\ i + 1 \in DOMAIN q /\ j + 1 \in DOMAIN q /\ i + 1 < j + 1
          /\ q[i + 1] = c /\ q[j + 1] = d
      BY <1>1, <3>1
    <3> QED
      BY <3>2 DEF Before
  <2>3. ASSUME c = Head(q), d \in ToSet(Tail(q)) PROVE Before(q, c, d)
    <3>1. PICK j \in 1..(Len(q) - 1) : Tail(q)[j] = d
      BY <1>1, <2>3 DEF ToSet
    <3>2. 1 \in DOMAIN q /\ j + 1 \in DOMAIN q /\ 1 < j + 1 /\ q[1] = c /\ q[j + 1] = d
      BY <1>1, <2>3, <3>1
    <3> QED
      BY <3>2 DEF Before
  <2> QED
    BY <2>1, <2>2, <2>3
<1> QED
  BY <1>2, <1>3, <1>4, <1>5, <1>6

\* No command is 0, the mark of a response.
LEMMA CommandsAreNotAcks == Ack \notin Commands
BY DEF Ack, Commands

\* A step that moves no command leaves the journeys alone, whatever it does to the
\* handlers, as long as no connection comes back to life.
LEMMA JourneyUndisturbed ==
    ASSUME Journey, IInv, UNCHANGED <<cmdChan, held, delivered, dropped, request, target, crashed>>,
           \A s \in Streams : Line(s)' = Line(s) /\ Distinct(sendChan[s])',
           \A s \in Streams : \A c, d \in Along(s) : Before(sendChan[s], c, d)' <=> Before(sendChan[s], c, d),
           \A s \in Streams : ctxDone[s] => ctxDone'[s],
           \A s \in Streams : forwarder'[s] # "hold" => forwarder[s] # "hold"
    PROVE  Journey' /\ Moves /\ InOrder
<1>1. \A s \in Streams : /\ Chan(s)' = Chan(s) /\ Hand(s)' = Hand(s) /\ Line(s)' = Line(s)
                         /\ Got(s)' = Got(s) /\ Along(s)' = Along(s)
  BY DEF Chan, Hand, Got, Along
<1>2. Belong' /\ Apart'
  BY <1>1 DEF Journey, Belong, Apart
<1>3. Queued'
  BY DEF Journey, Queued
<1>4. Present'
  BY <1>1 DEF Journey, Belong, Present
<1>5. Moves
  BY <1>1 DEF Moves, Quiet, Keeps
<1>6. InOrder
  BY <1>1 DEF InOrder, Ahead
<1> QED
  BY <1>2, <1>3, <1>4, <1>5, <1>6 DEF Journey

\* The handler moves no command.
LEMMA HandlerJourney ==
    ASSUME NEW s \in Streams, Journey, IInv
    PROVE  Register(s) \/ LoseConnection(s) \/ RecvBatch(s) \/ ReturnEOF(s) \/ Handler(s)
           => Journey' /\ Moves /\ InOrder
<1>1. ASSUME Register(s) \/ LoseConnection(s) \/ ReturnEOF(s) \/ Handler(s) PROVE Journey' /\ Moves /\ InOrder
  <2>1. /\ UNCHANGED <<cmdChan, held, sendChan, delivered, dropped, request, target, crashed>>
        /\ \A t \in Streams : ctxDone[t] => ctxDone'[t]
        /\ \A t \in Streams : forwarder'[t] # "hold" => forwarder[t] # "hold"
    BY <1>1 DEF Register, LoseConnection, ReturnEOF, ReturnRecvError, ReturnRecv, Handler,
       StartGoroutines, ReturnSendError, Deregister, Return, channels, sending, requests,
       IInv, ControlInv, ControlType, NotYetOpened
  <2>2. \A t \in Streams : /\ Line(t)' = Line(t) /\ Distinct(sendChan[t])'
                           /\ \A c, d \in Along(t) : Before(sendChan[t], c, d)' <=> Before(sendChan[t], c, d)
    BY <2>1 DEF Line, Journey, Queued
  <2> QED
    BY <2>1, <2>2, JourneyUndisturbed
<1>2. ASSUME RecvBatch(s) PROVE Journey' /\ Moves /\ InOrder
  <2>1. sendChan \in [Streams -> Seq(Commands \cup {Ack})]
    BY DEF IInv, QueueType
  <2>2. /\ \A t \in Streams : sendChan'[t] = IF t = s THEN Append(sendChan[s], Ack) ELSE sendChan[t]
        /\ UNCHANGED <<cmdChan, held, delivered, dropped, request, target, crashed, ctxDone, forwarder>>
    BY <1>2, <2>1 DEF RecvBatch, channels, requests
  <2>3. \A t \in Streams : Line(t)' = Line(t) /\ Distinct(sendChan[t])'
    <3> SUFFICES ASSUME NEW t \in Streams PROVE Line(t)' = Line(t) /\ Distinct(sendChan[t])'
      OBVIOUS
    <3>1. sendChan[t] \in Seq(Commands \cup {Ack}) /\ Ack \in Commands \cup {Ack} /\ Distinct(sendChan[t])
      BY <2>1 DEF Journey, Queued
    <3>2. /\ ToSet(Append(sendChan[t], Ack)) = ToSet(sendChan[t]) \cup {Ack}
          /\ Distinct(Append(sendChan[t], Ack))
      BY <3>1, SendingAdds
    <3>3. Distinct(sendChan'[t]) /\ ToSet(sendChan'[t]) \ {Ack} = ToSet(sendChan[t]) \ {Ack}
      BY <2>2, <3>1, <3>2
    <3> QED
      BY <3>3 DEF Line
  <2>4. \A t \in Streams : \A c, d \in Along(t) : Before(sendChan[t], c, d)' <=> Before(sendChan[t], c, d)
    <3> SUFFICES ASSUME NEW t \in Streams, NEW c \in Along(t), NEW d \in Along(t)
                 PROVE  Before(sendChan'[t], c, d) <=> Before(sendChan[t], c, d)
      OBVIOUS
    <3>1. d # Ack
      BY CommandsAreNotAcks DEF Journey, Belong
    <3>2. Before(Append(sendChan[t], Ack), c, d) <=> Before(sendChan[t], c, d)
      <4>1. sendChan[t] \in Seq(Commands \cup {Ack}) /\ Ack \in Commands \cup {Ack}
        BY <2>1
      <4> QED
        BY <3>1, <4>1, SendingAdds
    <3> QED
      BY <2>2, <3>2
  <2> QED
    BY <2>2, <2>3, <2>4, JourneyUndisturbed
<1> QED
  BY <1>1, <1>2

\* The sender takes the head of sendChan to the agent, or loses it with the connection.
LEMMA SenderTakes ==
    ASSUME NEW s \in Streams, Journey, IInv, sendChan[s] # <<>>,
           sendChan' = [sendChan EXCEPT ![s] = Tail(@)]
    PROVE  /\ Head(sendChan[s]) = Ack \/ Head(sendChan[s]) \in Line(s)
           /\ \A t \in Streams : /\ Line(t)' = IF t = s THEN Line(s) \ {Head(sendChan[s])} ELSE Line(t)
                                 /\ Distinct(sendChan[t])'
           /\ \A t \in Streams : \A c, d : d # Ack =>
                 (Before(sendChan[t], c, d) <=>
                     \/ Before(sendChan'[t], c, d)
                     \/ t = s /\ c = Head(sendChan[s]) /\ d \in Line(s)')
<1>1. sendChan \in [Streams -> Seq(Commands \cup {Ack})] /\ \A t \in Streams : Distinct(sendChan[t])
  BY DEF IInv, QueueType, Journey, Queued
<1>2. /\ Head(sendChan[s]) \in ToSet(sendChan[s])
      /\ ToSet(Tail(sendChan[s])) \ {Ack} = ToSet(sendChan[s]) \ {Head(sendChan[s]), Ack}
      /\ Distinct(Tail(sendChan[s]))
      /\ \A c, d : Before(sendChan[s], c, d) <=>
            Before(Tail(sendChan[s]), c, d) \/ (c = Head(sendChan[s]) /\ d \in ToSet(Tail(sendChan[s])))
  BY <1>1, ReceivingRemoves
<1>3. \A t \in Streams : sendChan'[t] = IF t = s THEN Tail(sendChan[s]) ELSE sendChan[t]
  BY <1>1
<1>4. \A t \in Streams : Distinct(sendChan'[t])
  BY <1>1, <1>2, <1>3
<1>5. \A t \in Streams : ToSet(sendChan'[t]) \ {Ack} =
         IF t = s THEN (ToSet(sendChan[s]) \ {Ack}) \ {Head(sendChan[s])} ELSE ToSet(sendChan[t]) \ {Ack}
  BY <1>2, <1>3
<1>6. Line(s)' = ToSet(Tail(sendChan[s])) \ {Ack}
  BY <1>3 DEF Line
<1>7. \A t \in Streams : \A c, d : d # Ack =>
         (Before(sendChan[t], c, d) <=>
             Before(sendChan'[t], c, d) \/ (t = s /\ c = Head(sendChan[s]) /\ d \in Line(s)'))
  BY <1>2, <1>3, <1>6
<1> QED
  BY <1>2, <1>4, <1>5, <1>7 DEF Line

\* The sender takes the head of its line to the agent, or fails and drops what is left.
LEMMA SenderJourney ==
    ASSUME NEW s \in Streams, Journey, IInv
    PROVE  Sender(s) => Journey' /\ Moves /\ InOrder
<1> DEFINE h == Head(sendChan[s])
<1>1. ASSUME Send(s) PROVE Journey' /\ Moves /\ InOrder
  <2>1. /\ h = Ack \/ h \in Line(s)
        /\ \A t \in Streams : Line(t)' = (IF t = s THEN Line(s) \ {h} ELSE Line(t)) /\ Distinct(sendChan[t])'
        /\ \A t \in Streams : \A c, d : d # Ack =>
              (Before(sendChan[t], c, d) <=>
                  Before(sendChan'[t], c, d) \/ (t = s /\ c = h /\ d \in Line(s)'))
    BY <1>1, SenderTakes DEF Send
  <2>2. UNCHANGED <<cmdChan, held, dropped, request, target, crashed, ctxDone, forwarder>>
    BY <1>1 DEF Send, channels, requests
  <2>3. /\ \A t \in Streams : Chan(t)' = Chan(t) /\ Hand(t)' = Hand(t)
        /\ \A t \in Streams : Got(t)' = IF t = s /\ h # Ack THEN Got(s) \cup {h} ELSE Got(t)
        /\ \A t \in Streams : \A c, d :
              Before(delivered'[t], c, d) <=>
                  Before(delivered[t], c, d) \/ (t = s /\ h # Ack /\ c \in Got(s) /\ d = h)
    <3>1. delivered \in [Streams -> Seq(Commands)] /\ (h = Ack \/ h \in Commands)
      BY <2>1 DEF IInv, QueueType, Journey, Belong, Along
    <3>2. \A t \in Streams : delivered'[t] =
             IF t = s /\ h # Ack THEN Append(delivered[s], h) ELSE delivered[t]
      BY <1>1, <3>1 DEF Send
    <3>3. h # Ack => /\ ToSet(Append(delivered[s], h)) = ToSet(delivered[s]) \cup {h}
                      /\ \A c, d : Before(Append(delivered[s], h), c, d) <=>
                            Before(delivered[s], c, d) \/ (c \in ToSet(delivered[s]) /\ d = h)
      BY <3>1, SendingAdds
    <3> QED
      BY <2>2, <3>2, <3>3 DEF Chan, Hand, Got
  <2>4. \A t \in Streams : Along(t)' = Along(t)
    BY <2>1, <2>3 DEF Along, Line
  <2>5. Belong' /\ Present'
    BY <2>2, <2>4 DEF Journey, Belong, Present
  <2>6. Apart'
    BY <2>1, <2>2, <2>3 DEF Journey, Apart
  <2>7. Queued'
    BY <2>1, <2>2 DEF Journey, Queued
  <2>8. Moves
    <3>1. CASE h = Ack
      <4>1. delivered' = delivered
        BY <1>1, <3>1 DEF Send, IInv, QueueType
      <4> QED
        BY <2>2, <2>4, <4>1 DEF Moves, Quiet, Keeps
    <3>2. CASE h # Ack
      <4>1. h \in Line(s) /\ h \in Commands
        BY <2>1, <3>2 DEF Journey, Belong, Along
      <4>2. delivered' = [delivered EXCEPT ![s] = Append(@, h)]
        BY <1>1, <3>2 DEF Send
      <4>3. Arrived(h, s)
        BY <2>2, <2>4, <4>1, <4>2 DEF Arrived, Keeps
      <4> QED
        BY <4>1, <4>3 DEF Moves
    <3> QED
      BY <3>1, <3>2
  <2>9. InOrder
    <3> SUFFICES ASSUME NEW t \in Streams, NEW c \in Along(t), NEW d \in Along(t)
                 PROVE  Ahead(t, c, d)' <=> Ahead(t, c, d)
      BY DEF InOrder
    <3>1. c # Ack /\ d # Ack
      BY CommandsAreNotAcks DEF Journey, Belong
    <3>2. Before(cmdChan[t], c, d)' <=> Before(cmdChan[t], c, d)
      BY <2>2
    <3> QED
      BY <2>1, <2>3, <3>1, <3>2 DEF Ahead, Along, Journey, Apart
  <2> QED
    BY <2>5, <2>6, <2>7, <2>8, <2>9 DEF Journey
<1>2. ASSUME SendError(s) PROVE Journey' /\ Moves /\ InOrder
  <2>1. /\ h = Ack \/ h \in Line(s)
        /\ \A t \in Streams : Line(t)' = (IF t = s THEN Line(s) \ {h} ELSE Line(t)) /\ Distinct(sendChan[t])'
        /\ \A t \in Streams : \A c, d : d # Ack =>
              (Before(sendChan[t], c, d) <=>
                  Before(sendChan'[t], c, d) \/ (t = s /\ c = h /\ d \in Line(s)'))
    BY <1>2, SenderTakes DEF SendError
  <2>2. UNCHANGED <<cmdChan, held, delivered, dropped, request, target, crashed, ctxDone, forwarder>> /\ ctxDone[s]
    BY <1>2 DEF SendError, channels, requests
  <2>3. \A t \in Streams : Chan(t)' = Chan(t) /\ Hand(t)' = Hand(t) /\ Got(t)' = Got(t)
    BY <2>2 DEF Chan, Hand, Got
  <2>4. \A t \in Streams : Along(t)' \subseteq Along(t) /\ (t # s => Along(t)' = Along(t))
    BY <2>1, <2>3 DEF Along
  <2>5. Belong' /\ Apart' /\ Queued'
    BY <2>1, <2>2, <2>3, <2>4 DEF Journey, Belong, Apart, Queued
  <2>6. Present'
    BY <2>2, <2>4 DEF Journey, Belong, Present
  <2>7. Moves
    <3>1. CASE h = Ack
      <4>1. \A t \in Streams : Along(t)' = Along(t)
        BY <2>1, <2>3, <3>1 DEF Along, Line
      <4> QED
        BY <2>2, <4>1 DEF Moves, Quiet, Keeps
    <3>2. CASE h # Ack
      <4>1. h \in Line(s) /\ h \in Along(s) /\ h \in Commands
        BY <2>1, <3>2 DEF Journey, Belong, Along
      <4>2. h \notin Chan(s) /\ h \notin Hand(s) /\ h \notin Got(s)
        BY <4>1 DEF Journey, Apart
      <4>3. Gone(h, s)
        BY <2>1, <2>2, <2>3, <4>1, <4>2 DEF Gone, Keeps, Along
      <4> QED
        BY <4>1, <4>3 DEF Moves
    <3> QED
      BY <3>1, <3>2
  <2>8. InOrder
    <3> SUFFICES ASSUME NEW t \in Streams, NEW c \in Along(t), NEW d \in Along(t),
                        c \in Along(t)', d \in Along(t)'
                 PROVE  Ahead(t, c, d)' <=> Ahead(t, c, d)
      BY DEF InOrder
    <3>1. c # Ack /\ d # Ack
      BY CommandsAreNotAcks DEF Journey, Belong
    <3>2. /\ Before(cmdChan[t], c, d)' <=> Before(cmdChan[t], c, d)
          /\ Before(delivered[t], c, d)' <=> Before(delivered[t], c, d)
      BY <2>2
    <3>3. t = s => c # h /\ d # h
      BY <2>1, <2>3, <3>1 DEF Along, Journey, Apart
    <3> QED
      BY <2>1, <2>3, <3>1, <3>2, <3>3 DEF Ahead
  <2> QED
    BY <2>5, <2>6, <2>7, <2>8 DEF Journey
<1>3. ASSUME SenderEnd(s) PROVE Journey' /\ Moves /\ InOrder
  <2>1. UNCHANGED <<cmdChan, held, sendChan, delivered, dropped, request, target, crashed, ctxDone, forwarder>>
    BY <1>3 DEF SenderEnd, channels, requests
  <2> QED
    BY <2>1, JourneyUndisturbed DEF Line, Journey, Queued
<1> QED
  BY <1>1, <1>2, <1>3 DEF Sender

\* The forwarder carries the head of the channel to sendChan, drops it, or takes it down
\* with the process.
LEMMA ForwarderJourney ==
    ASSUME NEW s \in Streams, Journey, IInv
    PROVE  Forwarder(s) => Journey' /\ Moves /\ InOrder
<1>1. ASSUME ForwarderReceive(s) PROVE Journey' /\ Moves /\ InOrder
  <2> DEFINE h == Head(cmdChan[s])
  <2>1. /\ cmdChan \in [Streams -> Seq(Commands)] /\ cmdChan[s] # <<>>
        /\ held \in [Streams -> Commands \cup {Ack}] /\ forwarder \in [Streams -> {"off", "select", "hold", "done"}]
    BY <1>1 DEF IInv, QueueType, ControlInv, ControlType, ForwarderReceive
  <2>2. UNCHANGED <<sendChan, delivered, dropped, request, target, crashed, ctxDone>>
    BY <1>1 DEF ForwarderReceive, sending, requests
  <2>3. /\ h \in ToSet(cmdChan[s]) /\ ToSet(Tail(cmdChan[s])) \ {Ack} = ToSet(cmdChan[s]) \ {h, Ack}
        /\ Distinct(Tail(cmdChan[s]))
        /\ \A c, d : Before(cmdChan[s], c, d) <=>
              Before(Tail(cmdChan[s]), c, d) \/ (c = h /\ d \in ToSet(Tail(cmdChan[s])))
    BY <2>1, ReceivingRemoves DEF Journey, Queued
  <2>4. /\ \A t \in Streams : cmdChan'[t] = IF t = s THEN Tail(cmdChan[s]) ELSE cmdChan[t]
        /\ \A t \in Streams : held'[t] = IF t = s THEN h ELSE held[t]
        /\ forwarder[s] = "select"
        /\ \A t \in Streams : forwarder'[t] = IF t = s THEN "hold" ELSE forwarder[t]
    BY <1>1, <2>1 DEF ForwarderReceive
  <2>5. /\ \A t \in Streams : Line(t)' = Line(t) /\ Got(t)' = Got(t)
        /\ \A t \in Streams : Chan(t)' = IF t = s THEN Chan(s) \ {h} ELSE Chan(t)
        /\ \A t \in Streams : Hand(t)' = IF t = s THEN {h} ELSE Hand(t)
        /\ h \in Chan(s) /\ Hand(s) = {}
    <3>1. ToSet(cmdChan[s]) \subseteq Commands /\ ToSet(Tail(cmdChan[s])) \subseteq Commands
      BY <2>1 DEF ToSet
    <3>2. ToSet(Tail(cmdChan[s])) = ToSet(cmdChan[s]) \ {h} /\ h # Ack
      BY <2>3, <3>1, CommandsAreNotAcks
    <3>3. held[s] = Ack
      BY <2>4 DEF Journey, Queued
    <3> QED
      BY <2>2, <2>3, <2>4, <3>2, <3>3 DEF Line, Got, Chan, Hand
  <2>6. \A t \in Streams : Along(t)' = Along(t)
    BY <2>5 DEF Along
  <2>7. Belong' /\ Present'
    BY <2>2, <2>6 DEF Journey, Belong, Present
  <2>8. Apart'
    BY <2>2, <2>5 DEF Journey, Apart
  <2>9. Queued'
    BY <2>2, <2>3, <2>4 DEF Journey, Queued
  <2>10. Moves
    BY <2>2, <2>6 DEF Moves, Quiet, Keeps
  <2>11. InOrder
    <3> SUFFICES ASSUME NEW t \in Streams, NEW c \in Along(t), NEW d \in Along(t)
                 PROVE  Ahead(t, c, d)' <=> Ahead(t, c, d)
      BY DEF InOrder
    <3>1. /\ Before(sendChan[t], c, d)' <=> Before(sendChan[t], c, d)
          /\ Before(delivered[t], c, d)' <=> Before(delivered[t], c, d)
      BY <2>2
    <3>2. Before(cmdChan[t], c, d) <=> Before(cmdChan'[t], c, d) \/ (t = s /\ c = h /\ d \in Chan(s)')
      <4>1. Chan(s)' = ToSet(Tail(cmdChan[s]))
        BY <2>4 DEF Chan
      <4> QED
        BY <2>3, <2>4, <4>1
    <3> QED
      BY <2>5, <3>1, <3>2 DEF Ahead, Journey, Apart
  <2> QED
    BY <2>7, <2>8, <2>9, <2>10, <2>11 DEF Journey
<1>2. ASSUME Forward(s) PROVE Journey' /\ Moves /\ InOrder
  <2>1. /\ sendChan \in [Streams -> Seq(Commands \cup {Ack})] /\ held[s] \in Commands
        /\ held \in [Streams -> Commands \cup {Ack}] /\ forwarder \in [Streams -> {"off", "select", "hold", "done"}]
        /\ sendClosed \in [Streams -> BOOLEAN]
    BY <1>2 DEF IInv, QueueType, ControlInv, ControlType, Forward
  <2>2. /\ UNCHANGED <<cmdChan, delivered, request, target, ctxDone>> /\ ~crashed
        /\ crashed' = sendClosed[s]
    BY <1>2 DEF Forward, channels, requests
  <2>3. /\ \A t \in Streams : held'[t] = IF t = s THEN Ack ELSE held[t]
        /\ \A t \in Streams : forwarder'[t] = IF t = s THEN "select" ELSE forwarder[t]
    BY <1>2, <2>1 DEF Forward
  <2>4. /\ \A t \in Streams : Chan(t)' = Chan(t) /\ Got(t)' = Got(t)
        /\ \A t \in Streams : Hand(t)' = IF t = s THEN {} ELSE Hand(t)
        /\ Hand(s) = {held[s]}
    BY <2>1, <2>2, <2>3, CommandsAreNotAcks DEF Chan, Got, Hand
  <2>8. ASSUME \A t \in Streams : Line(t)' = Line(t), sendChan' = sendChan PROVE Moves /\ InOrder
    <3>1. held[s] \in Along(s)
      BY <2>4 DEF Along
    <3>2. held[s] \notin Chan(s) /\ held[s] \notin Line(s) /\ held[s] \notin Got(s)
      BY <2>4 DEF Journey, Apart
    <3>3. Gone(held[s], s)
      BY <2>2, <2>4, <2>8, <3>1, <3>2 DEF Gone, Keeps, Along
    <3>4. InOrder
      <4> SUFFICES ASSUME NEW t \in Streams, NEW c \in Along(t), NEW d \in Along(t),
                          c \in Along(t)', d \in Along(t)'
                   PROVE  Ahead(t, c, d)' <=> Ahead(t, c, d)
        BY DEF InOrder
      <4>1. /\ Before(cmdChan[t], c, d)' <=> Before(cmdChan[t], c, d)
            /\ Before(delivered[t], c, d)' <=> Before(delivered[t], c, d)
            /\ Before(sendChan[t], c, d)' <=> Before(sendChan[t], c, d)
        BY <2>2, <2>8
      <4>2. t = s => c # held[s] /\ d # held[s]
        BY <3>3 DEF Gone
      <4> QED
        BY <2>4, <2>8, <4>1, <4>2 DEF Ahead
    <3> QED
      BY <2>1, <3>3, <3>4 DEF Moves
  <2>5. CASE sendClosed[s] /\ UNCHANGED <<sendChan, dropped>>
    <3>1. \A t \in Streams : Line(t)' = Line(t)
      BY <2>5 DEF Line
    <3>2. \A t \in Streams : Along(t)' \subseteq Along(t)
      BY <2>4, <3>1 DEF Along
    <3>3. Belong' /\ Apart' /\ Queued' /\ Present'
      BY <2>2, <2>3, <2>4, <2>5, <3>1, <3>2 DEF Journey, Belong, Apart, Queued, Present
    <3> QED
      BY <2>5, <2>8, <3>1, <3>3 DEF Journey
  <2>6. CASE sendChan' = [sendChan EXCEPT ![s] = Append(@, held[s])] /\ UNCHANGED dropped /\ ~sendClosed[s]
    <3>1. \A t \in Streams : sendChan'[t] = IF t = s THEN Append(sendChan[s], held[s]) ELSE sendChan[t]
      BY <2>1, <2>6
    <3>2. held[s] \notin ToSet(sendChan[s]) /\ held[s] # Ack
      BY <2>1, <2>4, CommandsAreNotAcks DEF Journey, Apart, Line
    <3>3. /\ ToSet(Append(sendChan[s], held[s])) = ToSet(sendChan[s]) \cup {held[s]}
          /\ Distinct(Append(sendChan[s], held[s]))
          /\ \A c, d : Before(Append(sendChan[s], held[s]), c, d) <=>
                Before(sendChan[s], c, d) \/ (c \in ToSet(sendChan[s]) /\ d = held[s])
      BY <2>1, <3>2, SendingAdds DEF Journey, Queued
    <3>4. \A t \in Streams : Line(t)' = (IF t = s THEN Line(s) \cup {held[s]} ELSE Line(t))
      BY <3>1, <3>2, <3>3 DEF Line
    <3>5. \A t \in Streams : Along(t)' = Along(t)
      BY <2>4, <3>4 DEF Along
    <3>6. Belong' /\ Present'
      BY <2>2, <2>6, <3>5 DEF Journey, Belong, Present
    <3>7. Apart'
      BY <2>2, <2>4, <2>6, <3>4 DEF Journey, Apart
    <3>8. Queued'
      BY <2>2, <2>3, <3>1, <3>3 DEF Journey, Queued
    <3>9. Moves
      BY <2>2, <3>5 DEF Moves, Quiet, Keeps
    <3>10. InOrder
      <4> SUFFICES ASSUME NEW t \in Streams, NEW c \in Along(t), NEW d \in Along(t)
                   PROVE  Ahead(t, c, d)' <=> Ahead(t, c, d)
        BY DEF InOrder
      <4>1. /\ Before(cmdChan[t], c, d)' <=> Before(cmdChan[t], c, d)
            /\ Before(delivered[t], c, d)' <=> Before(delivered[t], c, d)
        BY <2>2
      <4>2. c # Ack /\ (t = s => (c \in ToSet(sendChan[s]) <=> c \in Line(s)))
        BY CommandsAreNotAcks DEF Journey, Belong, Line
      <4>3. Before(sendChan[t], c, d)' <=> Before(sendChan[t], c, d) \/ (t = s /\ c \in Line(s) /\ d = held[s])
        BY <3>1, <3>3, <4>2
      <4> QED
        BY <2>4, <3>4, <4>1, <4>3 DEF Ahead, Journey, Apart
    <3> QED
      BY <3>6, <3>7, <3>8, <3>9, <3>10 DEF Journey
  <2>7. CASE dropped' = dropped \cup {held[s]} /\ UNCHANGED sendChan /\ ~sendClosed[s]
    <3>1. \A t \in Streams : Line(t)' = Line(t)
      BY <2>7 DEF Line
    <3>2. \A t \in Streams : Along(t)' = Along(t) \ (IF t = s THEN {held[s]} ELSE {})
      BY <2>4, <3>1 DEF Along, Journey, Apart
    <3>3. held[s] \in Along(s)
      BY <2>4 DEF Along
    <3>4. Belong'
      BY <2>2, <2>7, <3>2, <3>3 DEF Journey, Belong
    <3>5. Present'
      BY <2>2, <2>7, <3>2, <3>3 DEF Journey, Belong, Present
    <3>6. Apart'
      <4> SUFFICES ASSUME NEW t \in Streams, NEW c \in Commands,
                          c \in Chan(t)' \cup Hand(t)' \cup Line(t)' \cup Got(t)'
                   PROVE  c # held[s]
        BY <2>2, <2>4, <2>7, <3>1 DEF Journey, Apart, Belong, Along
      <4>1. c \in Along(t) /\ (t = s => c # held[s])
        BY <3>2 DEF Along
      <4> QED
        BY <3>3, <4>1 DEF Journey, Belong
    <3>7. Queued'
      BY <2>2, <2>3, <2>7 DEF Journey, Queued
    <3> QED
      BY <2>7, <2>8, <3>1, <3>4, <3>5, <3>6, <3>7 DEF Journey
  <2> QED
    BY <1>2, <2>5, <2>6, <2>7 DEF Forward
<1>3. ASSUME ForwarderEnd(s) PROVE Journey' /\ Moves /\ InOrder
  <2>1. /\ UNCHANGED <<cmdChan, held, sendChan, delivered, dropped, request, target, crashed, ctxDone>>
        /\ \A t \in Streams : forwarder'[t] # "hold" => forwarder[t] # "hold"
    BY <1>3 DEF ForwarderEnd, channels, sending, requests, IInv, ControlInv, ControlType
  <2> QED
    BY <2>1, JourneyUndisturbed DEF Line, Journey, Queued
<1> QED
  BY <1>1, <1>2, <1>3 DEF Forwarder

\* A push adds to the channel a command that is nowhere yet.
LEMMA RequestJourney ==
    ASSUME NEW c \in Commands, Journey, IInv
    PROVE  Request(c) => Journey' /\ Moves /\ InOrder
<1>1. ASSUME request[c] \in {"new", "found"}, NEW r \in {"found", "refused"}, NEW x,
             request' = [request EXCEPT ![c] = r], target' = [target EXCEPT ![c] = x],
             UNCHANGED <<cmdChan, held, sendChan, delivered, dropped, crashed, ctxDone, forwarder>>
      PROVE  Journey' /\ Moves /\ InOrder
  <2>1. request \in [Commands -> {"new", "found", "dispatched", "refused"}] /\ DOMAIN target = Commands
    BY DEF IInv, QueueType
  <2>2. \A d \in Commands : (request'[d] = "dispatched" <=> request[d] = "dispatched")
                            /\ (request[d] = "dispatched" => target'[d] = target[d])
    BY <1>1, <2>1
  <2>3. \A t \in Streams : /\ Chan(t)' = Chan(t) /\ Hand(t)' = Hand(t) /\ Line(t)' = Line(t)
                           /\ Got(t)' = Got(t) /\ Along(t)' = Along(t)
    BY <1>1 DEF Chan, Hand, Line, Got, Along
  <2>4. Belong'
    BY <1>1, <2>2, <2>3 DEF Journey, Belong, IInv, QueueType
  <2>5. Present'
    BY <1>1, <2>2, <2>3 DEF Journey, Belong, Present
  <2>6. Apart' /\ Queued'
    BY <1>1, <2>3 DEF Journey, Apart, Queued
  <2>7. Answered(c)
    BY <1>1, <2>1, <2>3 DEF Answered, Others, Keeps
  <2>8. InOrder
    BY <1>1, <2>3 DEF InOrder, Ahead
  <2> QED
    BY <2>4, <2>5, <2>6, <2>7, <2>8 DEF Journey, Moves
<1>2. ASSUME Lookup(c) PROVE Journey' /\ Moves /\ InOrder
  BY <1>1, <1>2 DEF Lookup, Refuse, Proceed, channels, sending
<1>3. ASSUME Push(c) PROVE Journey' /\ Moves /\ InOrder
  <2> DEFINE s == target[c]
  <2>1. CASE Refuse(c) /\ UNCHANGED cmdChan
    BY <1>1, <1>3, <2>1 DEF Push, Refuse, sending
  <2>2. CASE cmdChan' = [cmdChan EXCEPT ![s] = Append(@, c)] /\ Proceed(c, "dispatched", s)
    <3>1. /\ request \in [Commands -> {"new", "found", "dispatched", "refused"}]
          /\ target \in [Commands -> Streams \cup {NoStream}]
          /\ cmdChan \in [Streams -> Seq(Commands)] /\ s \in Streams /\ request[c] = "found"
      BY <1>3 DEF Push, IInv, QueueType
    <3>2. UNCHANGED <<held, sendChan, delivered, dropped, crashed, ctxDone, forwarder>>
      BY <1>3 DEF Push, sending
    <3>3. /\ \A d \in Commands : request'[d] = IF d = c THEN "dispatched" ELSE request[d]
          /\ target' = target
          /\ \A t \in Streams : cmdChan'[t] = IF t = s THEN Append(cmdChan[s], c) ELSE cmdChan[t]
      BY <2>2, <3>1 DEF Proceed
    <3>4. c \notin dropped /\ \A t \in Streams : c \notin Along(t)
      BY <3>1 DEF Journey, Belong
    <3>5. /\ \A t \in Streams : Hand(t)' = Hand(t) /\ Line(t)' = Line(t) /\ Got(t)' = Got(t)
          /\ \A t \in Streams : Chan(t)' = IF t = s THEN Chan(s) \cup {c} ELSE Chan(t)
          /\ \A t \in Streams : Distinct(cmdChan[t])'
          /\ \A t \in Streams : \A d, e : e # c => (Before(cmdChan'[t], d, e) <=> Before(cmdChan[t], d, e))
      <4>1. /\ ToSet(Append(cmdChan[s], c)) = ToSet(cmdChan[s]) \cup {c}
            /\ Distinct(Append(cmdChan[s], c))
            /\ \A d, e : Before(Append(cmdChan[s], c), d, e) <=>
                  Before(cmdChan[s], d, e) \/ (d \in ToSet(cmdChan[s]) /\ e = c)
        BY <3>1, <3>4, SendingAdds DEF Journey, Queued, Along, Chan
      <4> QED
        BY <3>2, <3>3, <4>1 DEF Hand, Line, Got, Chan, Journey, Queued
    <3>6. \A t \in Streams : Along(t)' = Along(t) \cup (IF t = s THEN {c} ELSE {})
      BY <3>5 DEF Along
    <3>7. Belong'
      BY <3>1, <3>2, <3>3, <3>6 DEF Journey, Belong, IInv, QueueType
    <3>8. Present'
      <4>1. c \in Along(s)'
        BY <3>1, <3>3, <3>6
      <4>2. \A d \in Commands : request[d] = "dispatched" /\ d \in Along(target[d]) => d \in Along(target[d])'
        BY <3>3, <3>6 DEF Journey, Belong
      <4> QED
        BY <3>1, <3>2, <3>3, <4>1, <4>2 DEF Journey, Present
    <3>9. Apart'
      BY <3>2, <3>4, <3>5 DEF Journey, Apart, Along
    <3>10. Queued'
      BY <3>2, <3>5 DEF Journey, Queued
    <3>11. Dispatched(c)
      BY <3>1, <3>2, <3>3, <3>6 DEF Dispatched, Others, Keeps
    <3>12. InOrder
      <4> SUFFICES ASSUME NEW t \in Streams, NEW d \in Along(t), NEW e \in Along(t)
                   PROVE  Ahead(t, d, e)' <=> Ahead(t, d, e)
        BY DEF InOrder
      <4>1. d # c /\ e # c
        BY <3>4
      <4>2. /\ Before(sendChan[t], d, e)' <=> Before(sendChan[t], d, e)
            /\ Before(delivered[t], d, e)' <=> Before(delivered[t], d, e)
        BY <3>2
      <4> QED
        BY <3>5, <4>1, <4>2 DEF Ahead
    <3> QED
      BY <3>7, <3>8, <3>9, <3>10, <3>11, <3>12 DEF Journey, Moves
  <2> QED
    BY <1>3, <2>1, <2>2 DEF Push
<1> QED
  BY <1>2, <1>3 DEF Request

\* At first nothing has been dispatched.
LEMMA InitJourney == Init => Journey
<1> SUFFICES ASSUME Init PROVE Journey
  OBVIOUS
<1>1. \A s \in Streams : Chan(s) = {} /\ Hand(s) = {} /\ Line(s) = {} /\ Got(s) = {} /\ Along(s) = {}
  BY DEF Init, Chan, Hand, Line, Got, Along, ToSet
<1>2. \A c \in Commands : request[c] = "new"
  BY DEF Init
<1>3. \A s \in Streams : Distinct(cmdChan[s]) /\ Distinct(sendChan[s]) /\ held[s] = Ack
  BY DEF Init, Distinct
<1> QED
  BY <1>1, <1>2, <1>3 DEF Init, Journey, Belong, Apart, Queued, Present

\* The journeys are kept by every step.
LEMMA NextJourney == Journey /\ IInv /\ [Next]_vars => Journey' /\ Moves /\ InOrder
<1> SUFFICES ASSUME Journey, IInv, [Next]_vars PROVE Journey' /\ Moves /\ InOrder
  OBVIOUS
<1>1. CASE UNCHANGED vars
  BY <1>1, JourneyUndisturbed DEF vars, Line, Journey, Queued
<1> QED
  BY <1>1, HandlerJourney, SenderJourney, ForwarderJourney, RequestJourney DEF Next
-----------------------------------------------------------------------------
(* What a command's sender is promised.                                      *)

\* Every command is where its journey says in every reachable state.
THEOREM JourneyInvariance == Spec => []Journey
<1>1. Journey /\ IInv /\ [Next]_vars => Journey'
  BY NextJourney
<1> QED
  BY InitJourney, <1>1, Invariance, PTL DEF Spec

\* The places of the invariant Accounted are the ones of the journey.
LEMMA PlacesOf ==
    ASSUME NEW c \in Commands
    PROVE  /\ Places(c) = {} <=> c \notin dropped /\ \A s \in Streams : c \notin Along(s)
           /\ \A p \in Places(c) :
                 \/ \E s \in Streams : p = <<"chan", s>> /\ c \in Chan(s)
                 \/ \E s \in Streams : p = <<"held", s>> /\ c \in Hand(s)
                 \/ \E s \in Streams : p = <<"send", s>> /\ c \in Line(s)
                 \/ \E s \in Streams : p = <<"delivered", s>> /\ c \in Got(s)
                 \/ p = <<"dropped", target[c]>> /\ c \in dropped
<1>1. c # Ack
  BY CommandsAreNotAcks
<1> QED
  BY <1>1 DEF Places, Along, Chan, Hand, Line, Got

\* A dispatched command is in exactly one place until its connection ends: a reconnect
\* that replaces the registration neither loses nor repeats it.
THEOREM CommandsAccounted == Spec => []Accounted
<1>1. Journey => Accounted
  <2> SUFFICES ASSUME Journey, NEW c \in Commands, request[c] = "dispatched", ~crashed
               PROVE  Cardinality(Places(c)) <= 1 /\ (Places(c) = {} => ctxDone[target[c]])
    BY DEF Accounted
  <2>1. \A p, q \in Places(c) : p = q
    BY PlacesOf DEF Journey, Belong, Apart, Along
  <2>2. Cardinality(Places(c)) <= 1
    <3>1. CASE Places(c) = {}
      <4>1. Cardinality({}) = 0
        BY FS_EmptySet
      <4> QED
        BY <3>1, <4>1
    <3>2. CASE Places(c) # {}
      <4>1. PICK p : Places(c) = {p}
        BY <2>1, <3>2
      <4>2. Cardinality({p}) = 1
        BY FS_Singleton
      <4> QED
        BY <4>1, <4>2
    <3> QED
      BY <3>1, <3>2
  <2>3. Places(c) = {} => ctxDone[target[c]]
    BY PlacesOf DEF Journey, Belong, Present
  <2> QED
    BY <2>2, <2>3
<1> QED
  BY <1>1, JourneyInvariance, PTL

\* A command's fate, read off its journey.
Verdict(c) ==
    IF request[c] \in {"new", "found"} THEN "unanswered"
    ELSE IF request[c] = "refused" THEN "refused"
    ELSE IF c \in Got(target[c]) THEN "delivered"
    ELSE IF c \in Along(target[c]) THEN "underway" ELSE "lost"

\* What CommandDelivery is told of a command is what its journey says.
LEMMA FateIsVerdict == Journey /\ IInv => \A c \in Commands : Fate(c) = Verdict(c)
<1> SUFFICES ASSUME Journey, IInv, NEW c \in Commands PROVE Fate(c) = Verdict(c)
  OBVIOUS
<1>1. request[c] \in {"new", "found", "dispatched", "refused"}
  BY DEF IInv, QueueType
<1>2. CASE request[c] # "dispatched"
  BY <1>1, <1>2 DEF Fate, Verdict
<1>3. CASE request[c] = "dispatched"
  <2>1. target[c] \in Streams /\ \A s \in Streams : c \in Along(s) => s = target[c]
    BY <1>3 DEF Journey, Belong
  <2>2. c \in ToSet(delivered[target[c]]) <=> c \in Got(target[c])
    BY DEF Got
  <2>3. c \in dropped \/ Places(c) = {} <=> c \notin Along(target[c])
    BY <2>1, PlacesOf DEF Journey, Apart, Along
  <2>4. c \in Got(target[c]) => c \in Along(target[c])
    BY DEF Along
  <2> QED
    BY <1>3, <2>2, <2>3, <2>4 DEF Fate, Verdict
<1> QED
  BY <1>2, <1>3

\* The same after a step.
LEMMA FateIsVerdictNext == (Journey /\ IInv)' => (\A c \in Commands : Fate(c) = Verdict(c))'
BY FateIsVerdict, PTL

\* One command changes its fate, as an operation of CommandDelivery would have it.
LEMMA FateChanges ==
    ASSUME NEW c \in Commands, NEW from, NEW to, Fate(c) = from, Fate(c)' = to,
           \A d \in Commands \ {c} : Fate(d)' = Fate(d)
    PROVE  Promise!Becomes(c, from, to)
<1>1. [d \in Commands |-> Fate(d)]' = [d \in Commands |-> Fate(d)']
  OBVIOUS
<1>2. [d \in Commands |-> Fate(d)'] = [[d \in Commands |-> Fate(d)] EXCEPT ![c] = to]
  OBVIOUS
<1> QED
  BY <1>1, <1>2 DEF Promise!Becomes

\* What a step does to the journeys is a step of CommandDelivery, or changes nothing there.
LEMMA MovesKeepPromise ==
    Journey /\ IInv /\ (Journey /\ IInv)' /\ Moves => [Promise!Next]_(Promise!vars)
<1> SUFFICES ASSUME Journey, IInv, (Journey /\ IInv)', Moves PROVE [Promise!Next]_(Promise!vars)
  OBVIOUS
<1>1. /\ \A c \in Commands : Fate(c) = Verdict(c)
      /\ \A c \in Commands : Fate(c)' = Verdict(c)'
  BY FateIsVerdict, FateIsVerdictNext
<1>2. ASSUME delivered' = delivered PROVE \A t \in Streams : Got(t)' = Got(t)
  BY <1>2 DEF Got
<1>3. /\ request \in [Commands -> {"new", "found", "dispatched", "refused"}]
      /\ \A c \in Commands : request[c] = "dispatched" => target[c] \in Streams
  BY DEF IInv, QueueType, Journey, Belong
<1>4. CASE Quiet
  <2>1. \A c \in Commands : Verdict(c)' = Verdict(c)
    BY <1>2, <1>3, <1>4 DEF Quiet, Keeps, Verdict
  <2>2. \A c \in Commands : Fate(c)' = Fate(c)
    BY <1>1, <2>1
  <2> QED
    BY <1>4, <2>2 DEF Promise!vars, Quiet
<1>5. ASSUME NEW c \in Commands, Answered(c) PROVE [Promise!Next]_(Promise!vars)
  <2>1. \A d \in Commands \ {c} : Verdict(d)' = Verdict(d)
    BY <1>2, <1>3, <1>5 DEF Answered, Others, Keeps, Verdict
  <2>2. Verdict(c) = "unanswered" /\ Verdict(c)' \in {"unanswered", "refused"}
    BY <1>5 DEF Answered, Verdict
  <2>3. CASE Verdict(c)' = "unanswered"
    <3>1. \A d \in Commands : Fate(d)' = Fate(d)
      BY <1>1, <2>1, <2>2, <2>3
    <3> QED
      BY <1>5, <3>1 DEF Promise!vars, Answered
  <2>4. CASE Verdict(c)' = "refused"
    <3>1. Promise!Becomes(c, "unanswered", "refused")
      BY <1>1, <2>1, <2>2, <2>4, FateChanges
    <3> QED
      BY <1>5, <3>1 DEF Answered, Promise!Next, Promise!Refuse
  <2> QED
    BY <2>2, <2>3, <2>4
<1>6. ASSUME NEW c \in Commands, Dispatched(c) PROVE [Promise!Next]_(Promise!vars)
  <2>1. \A d \in Commands \ {c} : Verdict(d)' = Verdict(d)
    BY <1>2, <1>3, <1>6 DEF Dispatched, Others, Keeps, Verdict
  <2>2. \A t \in Streams : c \notin Along(t) /\ c \notin Got(t)'
    BY <1>2, <1>3, <1>6 DEF Dispatched, Journey, Belong, Along
  <2>3. target'[c] \in Streams
    BY <1>6 DEF Dispatched, Journey, Belong
  <2>4. Verdict(c) = "unanswered" /\ Verdict(c)' = "underway"
    BY <1>6, <2>2, <2>3 DEF Dispatched, Verdict
  <2>5. Promise!Becomes(c, "unanswered", "underway")
    BY <1>1, <2>1, <2>4, FateChanges
  <2> QED
    BY <1>6, <2>5 DEF Dispatched, Promise!Next, Promise!Dispatch
<1>7. ASSUME NEW c \in Commands, NEW s \in Streams, Arrived(c, s) PROVE [Promise!Next]_(Promise!vars)
  <2>1. c \in Along(s) /\ c \notin Got(s) /\ request[c] = "dispatched" /\ target[c] = s
    BY <1>7 DEF Arrived, Along, Journey, Belong, Apart
  <2>2. \A t \in Streams : Got(t)' = Got(t) \cup (IF t = s THEN {c} ELSE {})
    <3>1. delivered \in [Streams -> Seq(Commands)]
      BY DEF IInv, QueueType
    <3>2. ToSet(Append(delivered[s], c)) = ToSet(delivered[s]) \cup {c}
      BY <3>1, SendingAdds
    <3>3. \A t \in Streams : delivered'[t] = IF t = s THEN Append(delivered[s], c) ELSE delivered[t]
      BY <1>7, <3>1 DEF Arrived
    <3> QED
      BY <3>2, <3>3 DEF Got
  <2>3. \A d \in Commands \ {c} : Verdict(d)' = Verdict(d)
    BY <1>3, <1>7, <2>2 DEF Arrived, Keeps, Verdict
  <2>4. Verdict(c) = "underway" /\ Verdict(c)' = "delivered"
    BY <1>7, <2>1, <2>2 DEF Arrived, Verdict
  <2>5. Promise!Becomes(c, "underway", "delivered")
    BY <1>1, <2>3, <2>4, FateChanges
  <2> QED
    BY <1>7, <2>5 DEF Arrived, Promise!Next, Promise!Deliver
<1>8. ASSUME NEW c \in Commands, NEW s \in Streams, Gone(c, s) PROVE [Promise!Next]_(Promise!vars)
  <2>1. request[c] = "dispatched" /\ target[c] = s
    BY <1>8 DEF Gone, Journey, Belong
  <2>2. \A d \in Commands \ {c} : Verdict(d)' = Verdict(d)
    BY <1>2, <1>3, <1>8 DEF Gone, Keeps, Verdict
  <2>3. Verdict(c) = "underway" /\ Verdict(c)' = "lost"
    BY <1>2, <1>8, <2>1 DEF Gone, Verdict
  <2>4. Promise!Becomes(c, "underway", "lost")
    BY <1>1, <2>2, <2>3, FateChanges
  <2> QED
    BY <1>8, <2>4 DEF Gone, Promise!Next, Promise!Lose
<1> QED
  BY <1>4, <1>5, <1>6, <1>7, <1>8 DEF Moves

\* The routing implements CommandDelivery: the answer to a command is final, a refused one
\* never reaches the agent, a dispatched one reaches it at most once and over the stream it
\* was pushed to, and what is lost does not turn up later.
THEOREM RoutingKeepsPromise == Spec => KeepsPromise
<1>1. Init => Promise!Init
  <2> SUFFICES ASSUME Init PROVE Promise!Init
    OBVIOUS
  <2>1. \A c \in Commands : Fate(c) = "unanswered"
    BY DEF Init, Fate
  <2> QED
    BY <2>1 DEF Init, Promise!Init
<1>2. Journey /\ IInv /\ (Journey /\ IInv)' /\ [Next]_vars => [Promise!Next]_(Promise!vars)
  BY NextJourney, MovesKeepPromise
<1> QED
  BY <1>1, <1>2, Invariance, JourneyInvariance, PTL DEF Spec, KeepsPromise, Promise!Spec
-----------------------------------------------------------------------------
(* The order of the commands.                                                *)

\* Of two elements of a queue and its continuation, the one in the queue is first.
LEMMA BeforeConcat ==
    ASSUME NEW S, NEW p \in Seq(S), NEW q \in Seq(S)
    PROVE  /\ p \o q \in Seq(S)
           /\ ToSet(p \o q) = ToSet(p) \cup ToSet(q)
           /\ \A c, d : Before(p \o q, c, d) <=>
                 Before(p, c, d) \/ Before(q, c, d) \/ (c \in ToSet(p) /\ d \in ToSet(q))
<1>1. /\ p \o q \in Seq(S) /\ Len(p) \in Nat /\ Len(q) \in Nat
      /\ DOMAIN p = 1..Len(p) /\ DOMAIN q = 1..Len(q) /\ DOMAIN (p \o q) = 1..(Len(p) + Len(q))
      /\ \A i \in 1..Len(p) : (p \o q)[i] = p[i]
      /\ \A i \in 1..(Len(p) + Len(q)) : i > Len(p) => (p \o q)[i] = q[i - Len(p)]
  OBVIOUS
<1>2. \A i \in 1..Len(q) : i + Len(p) \in DOMAIN (p \o q) /\ (p \o q)[i + Len(p)] = q[i]
  BY <1>1
<1>3. ToSet(p \o q) = ToSet(p) \cup ToSet(q)
  <2>1. ASSUME NEW x \in ToSet(p \o q) PROVE x \in ToSet(p) \cup ToSet(q)
    BY <1>1, <2>1 DEF ToSet
  <2>2. ASSUME NEW x \in ToSet(p) PROVE x \in ToSet(p \o q)
    BY <1>1, <2>2 DEF ToSet
  <2>3. ASSUME NEW x \in ToSet(q) PROVE x \in ToSet(p \o q)
    BY <1>1, <1>2, <2>3 DEF ToSet
  <2> QED
    BY <2>1, <2>2, <2>3
<1>4. ASSUME NEW c, NEW d, Before(p \o q, c, d)
      PROVE  Before(p, c, d) \/ Before(q, c, d) \/ (c \in ToSet(p) /\ d \in ToSet(q))
  <2>1. PICK i \in 1..(Len(p) + Len(q)), j \in 1..(Len(p) + Len(q)) :
           i < j /\ (p \o q)[i] = c /\ (p \o q)[j] = d
    BY <1>1, <1>4 DEF Before
  <2>2. CASE j <= Len(p)
    BY <1>1, <2>1, <2>2 DEF Before
  <2>3. CASE i > Len(p)
    <3>1. /\ i - Len(p) \in DOMAIN q /\ j - Len(p) \in DOMAIN q /\ i - Len(p) < j - Len(p)
          /\ q[i - Len(p)] = c /\ q[j - Len(p)] = d
      BY <1>1, <2>1, <2>3
    <3> QED
      BY <3>1 DEF Before
  <2>4. CASE i <= Len(p) /\ j > Len(p)
    <3>1. i \in DOMAIN p /\ p[i] = c /\ j - Len(p) \in DOMAIN q /\ q[j - Len(p)] = d
      BY <1>1, <2>1, <2>4
    <3> QED
      BY <3>1 DEF ToSet
  <2> QED
    BY <1>1, <2>1, <2>2, <2>3, <2>4
<1>5. ASSUME NEW c, NEW d, Before(p, c, d) PROVE Before(p \o q, c, d)
  BY <1>1, <1>5 DEF Before
<1>6. ASSUME NEW c, NEW d, Before(q, c, d) PROVE Before(p \o q, c, d)
  <2>1. PICK i \in 1..Len(q), j \in 1..Len(q) : i < j /\ q[i] = c /\ q[j] = d
    BY <1>1, <1>6 DEF Before
  <2>2. i + Len(p) < j + Len(p)
    BY <1>1, <2>1
  <2> QED
    BY <1>2, <2>1, <2>2 DEF Before
<1>7. ASSUME NEW c, NEW d, c \in ToSet(p), d \in ToSet(q) PROVE Before(p \o q, c, d)
  <2>1. PICK i \in 1..Len(p), j \in 1..Len(q) : p[i] = c /\ q[j] = d
    BY <1>1, <1>7 DEF ToSet
  <2>2. i \in DOMAIN (p \o q) /\ (p \o q)[i] = c /\ i < j + Len(p)
    BY <1>1, <2>1
  <2> QED
    BY <1>2, <2>1, <2>2 DEF Before
<1> QED
  BY <1>1, <1>3, <1>4, <1>5, <1>6, <1>7

\* The order of the commands in the pipeline is the one of their places.
LEMMA PipelineIsAhead ==
    IInv => \A s \in Streams :
               /\ ToSet(Pipeline(s)) \ {Ack} = Along(s)
               /\ \A c, d \in Commands : Before(Pipeline(s), c, d) <=> Ahead(s, c, d)
<1> SUFFICES ASSUME IInv, NEW s \in Streams
             PROVE  /\ ToSet(Pipeline(s)) \ {Ack} = Along(s)
                    /\ \A c, d \in Commands : Before(Pipeline(s), c, d) <=> Ahead(s, c, d)
  OBVIOUS
<1> DEFINE T == Commands \cup {Ack}
           p == delivered[s] \o sendChan[s]
           q == p \o <<held[s]>>
<1>1. /\ delivered[s] \in Seq(Commands) /\ cmdChan[s] \in Seq(Commands)
      /\ sendChan[s] \in Seq(T) /\ held[s] \in T
  BY DEF IInv, QueueType
<1>2. delivered[s] \in Seq(T) /\ cmdChan[s] \in Seq(T) /\ <<held[s]>> \in Seq(T)
  BY <1>1
<1> HIDE DEF T, p, q
<1>3. /\ p \in Seq(T) /\ ToSet(p) = ToSet(delivered[s]) \cup ToSet(sendChan[s])
      /\ \A c, d : Before(p, c, d) <=> \/ Before(delivered[s], c, d) \/ Before(sendChan[s], c, d)
                                       \/ c \in ToSet(delivered[s]) /\ d \in ToSet(sendChan[s])
  BY <1>1, <1>2, BeforeConcat DEF p
<1>4. ToSet(<<held[s]>>) = {held[s]} /\ \A c, d : ~Before(<<held[s]>>, c, d)
  BY DEF ToSet, Before
<1>5. /\ q \in Seq(T) /\ ToSet(q) = ToSet(p) \cup {held[s]}
      /\ \A c, d : Before(q, c, d) <=> Before(p, c, d) \/ (c \in ToSet(p) /\ d = held[s])
  <2>1. /\ p \o <<held[s]>> \in Seq(T)
        /\ ToSet(p \o <<held[s]>>) = ToSet(p) \cup ToSet(<<held[s]>>)
        /\ \A c, d : Before(p \o <<held[s]>>, c, d) <=>
              Before(p, c, d) \/ Before(<<held[s]>>, c, d) \/ (c \in ToSet(p) /\ d \in ToSet(<<held[s]>>))
    BY <1>2, <1>3, BeforeConcat
  <2> QED
    BY <1>4, <2>1 DEF q
<1>6. /\ ToSet(q \o cmdChan[s]) = ToSet(q) \cup ToSet(cmdChan[s])
      /\ \A c, d : Before(q \o cmdChan[s], c, d) <=>
            Before(q, c, d) \/ Before(cmdChan[s], c, d) \/ (c \in ToSet(q) /\ d \in ToSet(cmdChan[s]))
  BY <1>2, <1>5, BeforeConcat
<1>7. Pipeline(s) = q \o cmdChan[s]
  BY DEF Pipeline, p, q
<1>8. ToSet(delivered[s]) \subseteq Commands /\ ToSet(cmdChan[s]) \subseteq Commands
  BY <1>1 DEF ToSet
<1>9. ToSet(Pipeline(s)) \ {Ack} = Along(s)
  BY <1>3, <1>5, <1>6, <1>7, <1>8, CommandsAreNotAcks DEF Along, Got, Line, Hand, Chan
<1>10. ASSUME NEW c \in Commands, NEW d \in Commands PROVE Before(Pipeline(s), c, d) <=> Ahead(s, c, d)
  <2>1. /\ c # Ack /\ d # Ack
        /\ c \in Got(s) <=> c \in ToSet(delivered[s])
        /\ c \in Line(s) <=> c \in ToSet(sendChan[s])
        /\ d \in Line(s) <=> d \in ToSet(sendChan[s])
        /\ c \in Hand(s) <=> c = held[s]
        /\ d \in Hand(s) <=> d = held[s]
        /\ d \in Chan(s) <=> d \in ToSet(cmdChan[s])
    BY CommandsAreNotAcks DEF Got, Line, Hand, Chan
  <2> QED
    BY <1>3, <1>5, <1>6, <1>7, <2>1 DEF Ahead
<1> QED
  BY <1>9, <1>10

\* The same after a step.
LEMMA PipelineIsAheadNext ==
    IInv' => (\A s \in Streams :
                 /\ ToSet(Pipeline(s)) \ {Ack} = Along(s)
                 /\ \A c, d \in Commands : Before(Pipeline(s), c, d) <=> Ahead(s, c, d))'
BY PipelineIsAhead, PTL

\* No command overtakes another of its stream between the push and the agent.
THEOREM CommandsStayInOrder == Spec => NoOvertaking
<1>1. ASSUME Journey, IInv, IInv', [Next]_vars,
             NEW s \in Streams, NEW c \in (ToSet(Pipeline(s)) \cap ToSet(Pipeline(s)')) \ {Ack},
             NEW d \in (ToSet(Pipeline(s)) \cap ToSet(Pipeline(s)')) \ {Ack}
      PROVE  Before(Pipeline(s)', c, d) <=> Before(Pipeline(s), c, d)
  <2>1. /\ ToSet(Pipeline(s)) \ {Ack} = Along(s)
        /\ \A x, y \in Commands : Before(Pipeline(s), x, y) <=> Ahead(s, x, y)
    BY <1>1, PipelineIsAhead
  <2>2. /\ ToSet(Pipeline(s)') \ {Ack} = Along(s)'
        /\ \A x, y \in Commands : Before(Pipeline(s)', x, y) <=> Ahead(s, x, y)'
    BY <1>1, PipelineIsAheadNext
  <2>3. c \in Along(s) /\ d \in Along(s) /\ c \in Along(s)' /\ d \in Along(s)'
    BY <1>1, <2>1, <2>2
  <2>4. c \in Commands /\ d \in Commands
    BY <1>1, <2>3 DEF Journey, Belong
  <2>5. InOrder
    BY <1>1, NextJourney
  <2> QED
    BY <2>1, <2>2, <2>3, <2>4, <2>5 DEF InOrder
<1>2. Journey /\ IInv /\ IInv' /\ [Next]_vars =>
        [\A s \in Streams : \A c, d \in (ToSet(Pipeline(s)) \cap ToSet(Pipeline(s)')) \ {Ack} :
            Before(Pipeline(s)', c, d) <=> Before(Pipeline(s), c, d)]_vars
  BY <1>1
<1> QED
  BY <1>2, Invariance, JourneyInvariance, PTL DEF Spec, NoOvertaking
=============================================================================
