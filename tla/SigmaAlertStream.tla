-------------------------- MODULE SigmaAlertStream --------------------------
(***************************************************************************)
(* The alert stream of the Sigma engine (handlers/websocket.go): a hub     *)
(* goroutine owns the set of clients, takes registrations and departures   *)
(* and hands every alert to the clients whose filters want it; a second    *)
(* goroutine pings them all; each client has a goroutine that reads and    *)
(* one that writes.  Hub and pings share the set under a read-write lock.  *)
(***************************************************************************)
EXTENDS Naturals, Sequences, FiniteSets

CONSTANTS
    Clients,
    Alerts,         \* [severity, rule, agent]
    Filters,        \* what each client may subscribe to: [severity, rule, agent]
    None,           \* a filter that is not given
    Ping,           \* the message that is no alert
    SendCap,        \* 256 messages for a client
    BroadcastCap    \* 256 alerts for the hub

VARIABLES
    conn,           \* "none", "upgraded", "open", "broken"
    clients,        \* the hub's set
    send, closed,   \* each client's channel
    broadcast,
    filters,        \* each client's subscription
    incoming,       \* the one its reader is storing, or None
    reader,         \* "none", "reading", "leaving", "done"
    writer,         \* "none", "writing", "done"
    hub,            \* what the hub does: "idle", "adding", "removing", "handing"
    subject,        \* the client or the alert it does it with
    todo,           \* clients the hub has yet to visit
    pinged          \* clients the pings have yet to visit

vars == <<conn, clients, send, closed, broadcast, filters, incoming, reader, writer, hub, subject, todo, pinged>>


NoFilters == [severity |-> {}, rule |-> None, agent |-> None]

TypeOK ==
    /\ conn \in [Clients -> {"none", "upgraded", "open", "broken"}]
    /\ clients \subseteq Clients /\ todo \subseteq clients /\ pinged \subseteq Clients
    /\ closed \in [Clients -> BOOLEAN]
    /\ \A c \in Clients : Len(send[c]) <= SendCap
    /\ Len(broadcast) <= BroadcastCap
    /\ reader \in [Clients -> {"none", "reading", "leaving", "done"}]
    /\ writer \in [Clients -> {"none", "writing", "done"}]

Init ==
    /\ conn = [c \in Clients |-> "none"]
    /\ clients = {} /\ todo = {} /\ pinged = {}
    /\ send = [c \in Clients |-> <<>>] /\ closed = [c \in Clients |-> FALSE]
    /\ broadcast = <<>>
    /\ filters = [c \in Clients |-> NoFilters] /\ incoming = [c \in Clients |-> None]
    /\ reader = [c \in Clients |-> "none"] /\ writer = [c \in Clients |-> "none"]
    /\ hub = "idle" /\ subject = None

-----------------------------------------------------------------------------
(* Every filter that is given must fit. *)
matchesFilters(alert, f) ==
    /\ f.severity = {} \/ alert.severity \in f.severity
    /\ f.rule \in {None, alert.rule}
    /\ f.agent \in {None, alert.agent}

(* The hub reads the filters without the client's lock: while the reader
   stores new ones, any mix of the old and the new. *)
FiltersRead(c) ==
    IF incoming[c] = None THEN {filters[c]}
    ELSE [severity : {filters[c].severity, incoming[c].severity},
          rule : {filters[c].rule, incoming[c].rule},
          agent : {filters[c].agent, incoming[c].agent}]

(* A message for a client whose channel is full is dropped. *)
Offered(c, m) ==
    send' = IF Len(send[c]) < SendCap THEN [send EXCEPT ![c] = Append(@, m)] ELSE send

BroadcastAlert(alert) ==
    /\ broadcast' = IF Len(broadcast) < BroadcastCap THEN Append(broadcast, alert) ELSE broadcast
    /\ UNCHANGED <<conn, clients, send, closed, filters, incoming, reader, writer, hub, subject, todo, pinged>>

-----------------------------------------------------------------------------
(* The hub goroutine. *)

Upgrade(c) ==
    /\ conn[c] = "none"
    /\ conn' = [conn EXCEPT ![c] = "upgraded"]
    /\ UNCHANGED <<clients, send, closed, broadcast, filters, incoming, reader, writer, hub, subject, todo, pinged>>

(* register and unregister are unbuffered: the hub meets the handler, which
   then starts the two goroutines, or the reader, which then ends. *)
Register(c) ==
    /\ conn[c] = "upgraded" /\ hub = "idle"
    /\ hub' = "adding" /\ subject' = c
    /\ conn' = [conn EXCEPT ![c] = "open"]
    /\ reader' = [reader EXCEPT ![c] = "reading"]
    /\ writer' = [writer EXCEPT ![c] = "writing"]
    /\ UNCHANGED <<clients, send, closed, broadcast, filters, incoming, todo, pinged>>

Unregister(c) ==
    /\ reader[c] = "leaving" /\ hub = "idle"
    /\ hub' = "removing" /\ subject' = c
    /\ reader' = [reader EXCEPT ![c] = "done"]
    /\ conn' = [conn EXCEPT ![c] = "broken"]
    /\ UNCHANGED <<clients, send, closed, broadcast, filters, incoming, writer, todo, pinged>>

(* Faulty variant: the set is changed without the lock. *)
LockableAlways == TRUE

(* Lock waits for the RLock of the pings. *)
Lockable == pinged = {}

Add ==
    /\ hub = "adding" /\ Lockable
    /\ clients' = clients \cup {subject}
    /\ hub' = "idle" /\ subject' = None
    /\ UNCHANGED <<conn, send, closed, broadcast, filters, incoming, reader, writer, todo, pinged>>

Remove ==
    /\ hub = "removing" /\ Lockable
    /\ clients' = clients \ {subject}
    /\ closed' = [closed EXCEPT ![subject] = @ \/ subject \in clients]
    /\ hub' = "idle" /\ subject' = None
    /\ UNCHANGED <<conn, send, broadcast, filters, incoming, reader, writer, todo, pinged>>

TakeAlert ==
    /\ hub = "idle" /\ broadcast # <<>>
    /\ broadcast' = Tail(broadcast)
    /\ todo' = clients
    /\ IF clients = {} THEN UNCHANGED <<hub, subject>> ELSE hub' = "handing" /\ subject' = Head(broadcast)
    /\ UNCHANGED <<conn, clients, send, closed, filters, incoming, reader, writer, pinged>>

(* Faulty variant: the hub waits for room in the client's channel. *)
HandOutWaiting(c) == Len(send[c]) < SendCap /\ send' = [send EXCEPT ![c] = Append(@, subject)]
HandOut(c) == Offered(c, subject)

HubVisits(c) ==
    /\ c \in todo
    /\ \E f \in FiltersRead(c) :
           IF matchesFilters(subject, f) THEN HandOut(c) ELSE UNCHANGED send
    /\ todo' = todo \ {c}
    /\ IF todo' = {} THEN hub' = "idle" /\ subject' = None ELSE UNCHANGED <<hub, subject>>
    /\ UNCHANGED <<conn, clients, closed, broadcast, filters, incoming, reader, writer, pinged>>

-----------------------------------------------------------------------------
(* The pings: RLock, every client, RUnlock.  A Lock that waits keeps a new
   RLock out. *)

PingsBegin ==
    /\ pinged = {} /\ clients # {} /\ hub \notin {"adding", "removing"}
    /\ pinged' = clients
    /\ UNCHANGED <<conn, clients, send, closed, broadcast, filters, incoming, reader, writer, hub, subject, todo>>

PingsVisit(c) ==
    /\ c \in pinged
    /\ Offered(c, Ping)
    /\ pinged' = pinged \ {c}
    /\ UNCHANGED <<conn, clients, closed, broadcast, filters, incoming, reader, writer, hub, subject, todo>>

-----------------------------------------------------------------------------
(* The two goroutines of a client. *)

(* A subscription is stored under the client's lock, not in one step. *)
Subscribe(c) ==
    /\ reader[c] = "reading" /\ conn[c] = "open" /\ incoming[c] = None
    /\ \E f \in Filters[c] : incoming' = [incoming EXCEPT ![c] = f]
    /\ UNCHANGED <<conn, clients, send, closed, broadcast, filters, reader, writer, hub, subject, todo, pinged>>

Stored(c) ==
    /\ incoming[c] # None
    /\ incoming' = [incoming EXCEPT ![c] = None]
    /\ filters' = [filters EXCEPT ![c] = incoming[c]]
    /\ UNCHANGED <<conn, clients, send, closed, broadcast, reader, writer, hub, subject, todo, pinged>>

(* An error or the deadline of 60 seconds ends the reader. *)
ReadFails(c) ==
    /\ reader[c] = "reading" /\ conn[c] = "broken" /\ incoming[c] = None
    /\ reader' = [reader EXCEPT ![c] = "leaving"]
    /\ UNCHANGED <<conn, clients, send, closed, broadcast, filters, incoming, writer, hub, subject, todo, pinged>>

(* One frame takes all that waits; a failed write ends the writer, and
   ending it closes the connection. *)
Write(c) ==
    /\ writer[c] = "writing" /\ send[c] # <<>>
    /\ send' = [send EXCEPT ![c] = <<>>]
    /\ IF conn[c] = "open" THEN UNCHANGED <<writer, conn>>
       ELSE writer' = [writer EXCEPT ![c] = "done"] /\ conn' = [conn EXCEPT ![c] = "broken"]
    /\ UNCHANGED <<clients, closed, broadcast, filters, incoming, reader, hub, subject, todo, pinged>>

(* The channel is closed, or the ping of the ticker fails. *)
WriterEnds(c) ==
    /\ writer[c] = "writing"
    /\ (closed[c] /\ send[c] = <<>>) \/ conn[c] = "broken"
    /\ writer' = [writer EXCEPT ![c] = "done"]
    /\ conn' = [conn EXCEPT ![c] = "broken"]
    /\ UNCHANGED <<clients, send, closed, broadcast, filters, incoming, reader, hub, subject, todo, pinged>>

(* The client goes away or the network breaks. *)
Break(c) ==
    /\ conn[c] = "open"
    /\ conn' = [conn EXCEPT ![c] = "broken"]
    /\ UNCHANGED <<clients, send, closed, broadcast, filters, incoming, reader, writer, hub, subject, todo, pinged>>

-----------------------------------------------------------------------------
Next ==
    \/ \E a \in Alerts : BroadcastAlert(a)
    \/ Add \/ Remove \/ TakeAlert \/ PingsBegin
    \/ \E c \in Clients :
           \/ Upgrade(c) \/ Register(c) \/ Unregister(c) \/ HubVisits(c) \/ PingsVisit(c)
           \/ Subscribe(c) \/ Stored(c) \/ ReadFails(c) \/ Write(c) \/ WriterEnds(c) \/ Break(c)

HubStep == Add \/ Remove \/ \E c \in Clients : HubVisits(c)
PingStep == \E c \in Clients : PingsVisit(c)
ReaderStep(c) == ReadFails(c) \/ Stored(c)

(* The goroutines run.  The hub's select takes any ready case, so a reader
   that wants to leave is heard if it is heard infinitely often. *)
Fairness ==
    /\ WF_vars(HubStep) /\ WF_vars(PingStep)
    /\ \A c \in Clients : SF_vars(Unregister(c)) /\ WF_vars(ReaderStep(c)) /\ WF_vars(WriterEnds(c))

Spec == Init /\ [][Next]_vars /\ Fairness

-----------------------------------------------------------------------------
(***************************************************************************)
(* A message is never sent on a closed channel, which would end the        *)
(* engine: whoever is about to be visited by the hub or by the pings has   *)
(* an open channel, although readers leave at any moment.                  *)
(***************************************************************************)
NoSendOnClosed == \A c \in todo \cup pinged : ~closed[c]

Gone(c) == reader[c] = "reading" /\ conn[c] = "broken"
Released(c) == c \notin clients /\ reader[c] = "done" /\ writer[c] = "done"

(***************************************************************************)
(* A client that is gone is taken out of the set and both its goroutines   *)
(* end, however many alerts are broadcast and however full its channel is: *)
(* neither the hub nor the pings wait for a client.                        *)
(***************************************************************************)
GoneIsReleased == \A c \in Clients : Gone(c) ~> Released(c)
=============================================================================
