--------------------------- MODULE AgentConnection --------------------------
(***************************************************************************)
(* The agent's connection to the manager: RunReconnector and RunStream of  *)
(* a client, the heartbeat loops, the command loop and what a command does *)
(* to the host, and the re-enrolment that replaces the client while the    *)
(* goroutines of the old one go on.                                        *)
(*                                                                         *)
(* Client 1 is the one Start made, client 2 the one of the re-enrolment;   *)
(* heartbeat loop c sends through client c.  A certificate is "old" or     *)
(* "new"; accepts is the one the manager knows.                            *)
(***************************************************************************)
EXTENDS Naturals, Sequences, FiniteSets

CONSTANTS
    ChanCap,       \* capacity of commandChan
    MaxCommands    \* bound of the model: commands sent

Clients == {1, 2}
(* A command that leaves the network alone is, to what this module looks at,
   one of these whose program failed. *)
Kinds == {"isolate", "unisolate"}

VARIABLES
    ctxDone,       \* Agent.Stop has cancelled the context
    adapters,      \* the host's network adapters are enabled
    accepts,       \* the certificate the manager accepts, or "none"
    disk,          \* the certificate on disk, or "none"
    conn,          \* per client: the certificate it is connected with, or "none"
    reconnector,   \* per client: RunReconnector; dialing holds the client's mutex
    stream,        \* per client: RunStream
    commandChan,
    current,       \* a.grpcClient
    enrol,         \* watchReEnrollSignal
    beat,          \* per client: the heartbeat loop that sends through it
    hbRunning,     \* Heartbeat.running
    loop,          \* runCommandLoop: where it is, the client it waits on, the command it has
    sent           \* commands that arrived

network == <<adapters, accepts, disk>>
links == <<conn, reconnector, stream>>
hearts == <<beat, hbRunning>>
commands == <<commandChan, loop, sent>>
vars == <<ctxDone, network, links, current, enrol, hearts, commands>>

Top == [at |-> "top"]

TypeOK ==
    /\ ctxDone \in BOOLEAN /\ adapters \in BOOLEAN /\ hbRunning \in BOOLEAN
    /\ accepts \in {"old", "new", "none"} /\ disk \in {"old", "new", "none"}
    /\ conn \in [Clients -> {"old", "new", "none"}]
    /\ reconnector \in [Clients -> {"off", "idle", "dialing", "gone"}]
    /\ stream \in [Clients -> {"off", "loop", "open", "gone"}]
    /\ \A c \in Clients : commandChan[c] \in Seq(Kinds) /\ Len(commandChan[c]) <= ChanCap
    /\ current \in Clients
    /\ enrol \in {"idle", "signalled", "wiped", "enrolled", "swapped", "quiet", "done", "failed", "gone"}
    /\ beat \in [Clients -> {"off", "sending", "waiting", "gone"}]
    /\ loop.at \in {"top", "select", "running", "report", "gone"}
    /\ sent \in 0 .. MaxCommands

(* Agent.Start: the first Connect may fail, then the goroutines start. *)
Init ==
    /\ ctxDone = FALSE /\ adapters = TRUE
    /\ accepts \in {"old", "none"} /\ disk = "old"
    /\ conn \in {[c \in Clients |-> "none"], [c \in Clients |-> IF c = 1 THEN "old" ELSE "none"]}
    /\ reconnector = [c \in Clients |-> IF c = 1 THEN "idle" ELSE "off"]
    /\ stream = [c \in Clients |-> IF c = 1 THEN "loop" ELSE "off"]
    /\ commandChan = [c \in Clients |-> <<>>]
    /\ current = 1 /\ enrol = "idle"
    /\ beat = [c \in Clients |-> IF c = 1 THEN "sending" ELSE "off"] /\ hbRunning = TRUE
    /\ loop = Top /\ sent = 0

Unlocked(c) == reconnector[c] # "dialing"

-----------------------------------------------------------------------------
(* Client.Connect and RunReconnector.                                      *)

(* One of resolveServerAddresses - the address in use, the gateways, the
   host itself - can answer while the adapters are up. *)
SomeAddressAnswers == adapters

Connect(c) ==
    /\ SomeAddressAnswers /\ disk # "none"
    /\ conn' = [conn EXCEPT ![c] = disk]

StartDial(c) ==
    /\ reconnector[c] = "idle" /\ conn[c] = "none" /\ ~ctxDone
    /\ reconnector' = [reconnector EXCEPT ![c] = "dialing"]
    /\ UNCHANGED <<ctxDone, network, conn, stream, current, enrol, hearts, commands>>

DialConnects(c) ==
    /\ reconnector[c] = "dialing" /\ ~ctxDone
    /\ Connect(c)
    /\ reconnector' = [reconnector EXCEPT ![c] = "idle"]
    /\ UNCHANGED <<ctxDone, network, stream, current, enrol, hearts, commands>>

(* No candidate answers, or the certificate cannot be loaded. *)
DialFails(c) ==
    /\ reconnector[c] = "dialing"
    /\ reconnector' = [reconnector EXCEPT ![c] = "idle"]
    /\ UNCHANGED <<ctxDone, network, conn, stream, current, enrol, hearts, commands>>

ReconnectorEnds(c) ==
    /\ reconnector[c] = "idle" /\ ctxDone
    /\ reconnector' = [reconnector EXCEPT ![c] = "gone"]
    /\ UNCHANGED <<ctxDone, network, conn, stream, current, enrol, hearts, commands>>

-----------------------------------------------------------------------------
(* RunStream and recvLoop.                                                 *)

OpenStream(c) ==
    /\ stream[c] = "loop" /\ conn[c] # "none" /\ Unlocked(c) /\ adapters /\ ~ctxDone
    /\ stream' = [stream EXCEPT ![c] = "open"]
    /\ UNCHANGED <<ctxDone, network, conn, reconnector, current, enrol, hearts, commands>>

(* Faulty variant: the stream is opened again after the signal. *)
UnauthenticatedRetries(c) ==
    /\ stream[c] \in {"loop", "open"} /\ conn[c] # "none" /\ conn[c] # accepts /\ adapters /\ ~ctxDone
    /\ stream' = [stream EXCEPT ![c] = "loop"]
    /\ enrol' = IF c = 1 /\ enrol = "idle" THEN "signalled" ELSE enrol
    /\ UNCHANGED <<ctxDone, network, conn, reconnector, current, hearts, commands>>

(* The manager does not know the certificate: the signal is closed, and
   RunStream returns.  Nobody waits for the signal of client 2. *)
Unauthenticated(c) ==
    /\ stream[c] \in {"loop", "open"} /\ conn[c] # "none" /\ conn[c] # accepts /\ adapters /\ ~ctxDone
    /\ stream' = [stream EXCEPT ![c] = "gone"]
    /\ enrol' = IF c = 1 /\ enrol = "idle" THEN "signalled" ELSE enrol
    /\ UNCHANGED <<ctxDone, network, conn, reconnector, current, hearts, commands>>

(* Recv fails otherwise; gRPC restores the connection below. *)
StreamBreaks(c) ==
    /\ stream[c] = "open" /\ ~ctxDone
    /\ stream' = [stream EXCEPT ![c] = "loop"]
    /\ UNCHANGED <<ctxDone, network, conn, reconnector, current, enrol, hearts, commands>>

StreamEnds(c) ==
    /\ stream[c] \in {"loop", "open"} /\ ctxDone
    /\ stream' = [stream EXCEPT ![c] = "gone"]
    /\ UNCHANGED <<ctxDone, network, conn, reconnector, current, enrol, hearts, commands>>

(* A command arrives and is queued, or dropped at a full channel. *)
RecvCommand(c, kind) ==
    /\ stream[c] = "open" /\ conn[c] = accepts /\ adapters /\ sent < MaxCommands
    /\ commandChan' = [commandChan EXCEPT ![c] =
           IF Len(@) < ChanCap THEN Append(@, kind) ELSE @]
    /\ sent' = sent + 1
    /\ UNCHANGED <<ctxDone, network, links, current, enrol, hearts, loop>>

-----------------------------------------------------------------------------
(* runCommandLoop and Handler.Execute.                                     *)

(* The channel is looked up as the select is entered. *)
EnterSelect ==
    /\ loop = Top /\ ~ctxDone
    /\ loop' = [at |-> "select", on |-> current]
    /\ UNCHANGED <<ctxDone, network, links, current, enrol, hearts, commandChan, sent>>

TakeCommand ==
    /\ loop.at = "select" /\ commandChan[loop.on] # <<>>
    /\ loop' = [at |-> "running", cmd |-> Head(commandChan[loop.on])]
    /\ commandChan' = [commandChan EXCEPT ![loop.on] = Tail(@)]
    /\ UNCHANGED <<ctxDone, network, links, current, enrol, hearts, sent>>

(* isolateNetwork and unisolateNetwork. *)
AdaptersAfter(kind) == kind = "unisolate"

(* A command is refused (expired, a missing or unknown parameter), or its
   handler runs a program that may fail. *)
Execute ==
    /\ loop.at = "running"
    /\ adapters' \in {adapters, AdaptersAfter(loop.cmd)}
    /\ loop' = [at |-> "report"]
    /\ UNCHANGED <<ctxDone, accepts, disk, links, current, enrol, hearts, commandChan, sent>>

(* Faulty variant: the loop returns when the result cannot be sent. *)
ReportResultOrReturn ==
    /\ loop.at = "report" /\ Unlocked(current)
    /\ loop' = IF adapters /\ conn[current] # "none" THEN Top ELSE [at |-> "gone"]
    /\ UNCHANGED <<ctxDone, network, links, current, enrol, hearts, commandChan, sent>>

(* SendCommandResult waits for the client of the moment; its error is logged. *)
ReportResult ==
    /\ loop.at = "report" /\ Unlocked(current)
    /\ loop' = Top
    /\ UNCHANGED <<ctxDone, network, links, current, enrol, hearts, commandChan, sent>>

LoopEnds ==
    /\ loop.at \in {"top", "select"} /\ ctxDone
    /\ loop' = [at |-> "gone"]
    /\ UNCHANGED <<ctxDone, network, links, current, enrol, hearts, commandChan, sent>>

-----------------------------------------------------------------------------
(* Heartbeat.heartbeatLoop: a send, whether it succeeds or not, then a tick. *)

SendHeartbeat(c) ==
    /\ beat[c] = "sending" /\ Unlocked(c)
    /\ beat' = [beat EXCEPT ![c] = "waiting"]
    /\ UNCHANGED <<ctxDone, network, links, current, enrol, hbRunning, commands>>

HeartbeatTick(c) ==
    /\ beat[c] = "waiting"
    /\ beat' = [beat EXCEPT ![c] = IF hbRunning THEN "sending" ELSE "gone"]
    /\ UNCHANGED <<ctxDone, network, links, current, enrol, hbRunning, commands>>

HeartbeatEnds(c) ==
    /\ beat[c] = "waiting" /\ ctxDone
    /\ beat' = [beat EXCEPT ![c] = "gone"]
    /\ UNCHANGED <<ctxDone, network, links, current, enrol, hbRunning, commands>>

-----------------------------------------------------------------------------
(* watchReEnrollSignal.                                                    *)

(* Disconnect, wipe the certificate and forget the agent id; a file that
   cannot be removed is logged. *)
Wipe ==
    /\ enrol = "signalled" /\ Unlocked(1)
    /\ conn' = [conn EXCEPT ![1] = "none"]
    /\ disk' \in {"none", disk}
    /\ enrol' = "wiped"
    /\ UNCHANGED <<ctxDone, adapters, accepts, reconnector, stream, current, hearts, commands>>

(* EnsureEnrolled (module Enrollment) gets a new certificate, finds that the
   old one is still there with its key, or gives up, perhaps after the key
   was replaced. *)
EnsureEnrolled ==
    /\ enrol = "wiped"
    /\ \/ adapters /\ disk' = "new" /\ accepts' = "new" /\ enrol' = "enrolled"
       \/ disk # "none" /\ enrol' = "enrolled" /\ UNCHANGED <<disk, accepts>>
       \/ disk' \in {disk, "none"} /\ enrol' = "failed" /\ UNCHANGED accepts
    /\ UNCHANGED <<ctxDone, adapters, links, current, hearts, commands>>

(* The new client connects if it can, replaces the old one, and its
   goroutines start. *)
SwapClient ==
    /\ enrol = "enrolled"
    /\ Connect(2) \/ UNCHANGED conn
    /\ current' = 2
    /\ reconnector' = [reconnector EXCEPT ![2] = "idle"]
    /\ stream' = [stream EXCEPT ![2] = "loop"]
    /\ enrol' = "swapped"
    /\ UNCHANGED <<ctxDone, adapters, accepts, disk, hearts, commands>>

(* Faulty variant: Start is called first and returns, the loop is running. *)
HeartbeatStopLast ==
    /\ enrol = "swapped"
    /\ hbRunning' = FALSE
    /\ enrol' = "done"
    /\ UNCHANGED <<ctxDone, network, links, current, beat, commands>>

HeartbeatStop ==
    /\ enrol = "swapped"
    /\ hbRunning' = FALSE
    /\ enrol' = "quiet"
    /\ UNCHANGED <<ctxDone, network, links, current, beat, commands>>

HeartbeatStart ==
    /\ enrol = "quiet"
    /\ hbRunning' = TRUE
    /\ beat' = [beat EXCEPT ![2] = "sending"]
    /\ enrol' = "done"
    /\ UNCHANGED <<ctxDone, network, links, current, commands>>

WatchEnds ==
    /\ enrol = "idle" /\ ctxDone
    /\ enrol' = "gone"
    /\ UNCHANGED <<ctxDone, network, links, current, hearts, commands>>

-----------------------------------------------------------------------------
(* Agent.Stop: the context, the connection, the heartbeat. *)
Stop ==
    /\ ~ctxDone /\ Unlocked(current)
    /\ ctxDone' = TRUE
    /\ conn' = [conn EXCEPT ![current] = "none"]
    /\ hbRunning' = FALSE
    /\ UNCHANGED <<network, reconnector, stream, current, enrol, beat, commands>>

(* The manager forgets the agent or its certificate is revoked. *)
ManagerForgets ==
    /\ accepts # "none"
    /\ accepts' = "none"
    /\ UNCHANGED <<ctxDone, adapters, disk, links, current, enrol, hearts, commands>>

DialStep(c) == StartDial(c) \/ DialConnects(c) \/ DialFails(c) \/ ReconnectorEnds(c)
StreamStep(c) == OpenStream(c) \/ Unauthenticated(c) \/ StreamEnds(c)
LoopStep == EnterSelect \/ TakeCommand \/ Execute \/ ReportResult \/ LoopEnds
BeatStep(c) == SendHeartbeat(c) \/ HeartbeatTick(c) \/ HeartbeatEnds(c)
EnrolStep == Wipe \/ EnsureEnrolled \/ SwapClient \/ HeartbeatStop \/ HeartbeatStart \/ WatchEnds

Next ==
    \/ \E c \in Clients : DialStep(c) \/ StreamStep(c) \/ StreamBreaks(c) \/ BeatStep(c)
    \/ \E c \in Clients, k \in Kinds : RecvCommand(c, k)
    \/ LoopStep \/ EnrolStep \/ Stop \/ ManagerForgets

(* Goroutines go on; timers fire; programs a handler runs end. *)
Fairness ==
    /\ \A c \in Clients : WF_vars(DialStep(c)) /\ WF_vars(StreamStep(c)) /\ WF_vars(BeatStep(c))
    /\ WF_vars(LoopStep) /\ WF_vars(EnrolStep)

Spec == Init /\ [][Next]_vars /\ Fairness

-----------------------------------------------------------------------------
(***************************************************************************)
(* The agent never streams through two clients at once, although the       *)
(* reconnector of the replaced client goes on and connects again with the  *)
(* new certificate (RunStream returns for good at Unauthenticated).        *)
(***************************************************************************)
OneStream == ~(stream[1] = "open" /\ stream[2] = "open")

(***************************************************************************)
(* Until the agent is stopped or its enrolment has failed, heartbeats go   *)
(* out through the client in use, over and over: across the swap of the    *)
(* clients, and whatever the old loop's ticks see of Stop and Start.       *)
(***************************************************************************)
HeartbeatGoesOn == []<>(beat[current] = "sending" \/ ctxDone)

(***************************************************************************)
(* While the first client is in use, no command waits in its channel for   *)
(* ever, whatever the handlers before it did to the network and however    *)
(* long the result of one waits for the connection.                        *)
(***************************************************************************)
CommandTaken ==
    []<>(commandChan[1] = <<>> \/ ctxDone \/ enrol # "idle" \/ loop.at = "running")

(***************************************************************************)
(* Not so: "a full self-healing re-enrollment" (agent.go:267), by which a  *)
(* command received after it would be taken as before.                     *)
(***************************************************************************)
CommandTakenAfterwards ==
    (commandChan[2] # <<>>) ~> (ctxDone \/ (loop.at = "running"))
=============================================================================
