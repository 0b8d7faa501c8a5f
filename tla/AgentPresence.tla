--------------------------- MODULE AgentPresence ---------------------------
(***************************************************************************)
(* The status of one agent in PostgreSQL, and who writes it: the calls of  *)
(* StreamEvents when they open and when they end, the keepalive goroutine  *)
(* of each call, the Heartbeat RPC, and the sweeper that marks silent      *)
(* agents offline.  None of the writers looks at what the others wrote.    *)
(*                                                                         *)
(* Time passes in minutes.  seen is the age of last_seen, timer[s] the     *)
(* time since stream s last ticked.  The calls of a handler take seconds,  *)
(* so time does not pass while one is under way, nor past a due tick.      *)
(* Each writer also sets the status in Redis.  No code of the repository   *)
(* reads it back and no control depends on it, so it is left out.          *)
(***************************************************************************)
EXTENDS Integers, FiniteSets

CONSTANTS
    Streams,     \* the calls of StreamEvents by the agent
    KeepAlive,   \* period of the keepalive ticker (2 minutes)
    Threshold,   \* age at which the sweeper takes an agent for dead (5 minutes)
    MaxFaults    \* bound of the model: database calls that fail

ASSUME PresenceAssumption ==
    /\ KeepAlive \in Nat \ {0}
    /\ Threshold \in Nat
    /\ 2 * KeepAlive <= Threshold
    /\ MaxFaults \in Nat

VARIABLES
    db,        \* agents.status in PostgreSQL
    seen,      \* minutes since agents.last_seen
    handler,   \* where each call of StreamEvents is
    ticker,    \* the keepalive goroutine of each call
    timer,     \* minutes since its last tick
    missed,    \* database writes each stream lost in a row, Unheard at first
    done,      \* the streams whose context is cancelled
    sweepDue,  \* the sweeper's ticker has fired
    agentUp,   \* the agent's process runs
    faults

vars == <<db, seen, handler, ticker, timer, missed, done, sweepDue, agentUp, faults>>

Reported == {"online", "degraded", "critical"}
Status == Reported \cup {"pending", "offline"}
Phases == {"idle", "registered", "open", "closing", "closed"}

(* The age is told apart up to the first minute the sweeper acts on.       *)
Oldest == Threshold + 1

(* A stream that has yet to write once counts as having lost two writes.   *)
Unheard == 2

TypeOK ==
    /\ db \in Status
    /\ seen \in 0 .. Oldest
    /\ handler \in [Streams -> Phases]
    /\ ticker \in [Streams -> {"off", "waiting", "writing"}]
    /\ timer \in [Streams -> 0 .. KeepAlive]
    /\ missed \in [Streams -> 0 .. Unheard + MaxFaults]
    /\ done \subseteq Streams
    /\ sweepDue \in BOOLEAN
    /\ agentUp \in BOOLEAN
    /\ faults \in 0 .. MaxFaults

(* The row that Register created and activated.                            *)
Init ==
    /\ db \in {"pending", "online"}
    /\ seen = 0
    /\ handler = [s \in Streams |-> "idle"]
    /\ ticker = [s \in Streams |-> "off"]
    /\ timer = [s \in Streams |-> 0]
    /\ missed = [s \in Streams |-> Unheard]
    /\ done = {}
    /\ sweepDue = FALSE
    /\ agentUp = TRUE
    /\ faults = 0

(***************************************************************************)
(* AgentService.UpdateStatus: the row's status and its last_seen.          *)
(***************************************************************************)
UpdateStatus(st) ==
    /\ db' = st
    /\ seen' = 0
    /\ UNCHANGED faults

UpdateStatusFails ==
    /\ faults < MaxFaults
    /\ faults' = faults + 1
    /\ UNCHANGED <<db, seen>>

(* Faulty variant: the status is written and last_seen forgotten. *)
UpdateStatusNotSeen(st) ==
    /\ db' = st
    /\ UNCHANGED <<seen, faults>>

(* Faulty variant: a write that does not refresh last_seen. *)
UpdateAgentDBStatusNotSeen(s, st) ==
    \/ UpdateStatusNotSeen(st) /\ missed' = [missed EXCEPT ![s] = 0]
    \/ UpdateStatusFails /\ missed' = [missed EXCEPT ![s] = @ + 1]

(* The write of stream s through updateAgentDBStatus, which logs an error
   and goes on. *)
UpdateAgentDBStatus(s, st) ==
    \/ UpdateStatus(st) /\ missed' = [missed EXCEPT ![s] = 0]
    \/ UpdateStatusFails /\ missed' = [missed EXCEPT ![s] = @ + 1]

-----------------------------------------------------------------------------
(* StreamEvents.                                                           *)

(* The agent is in the database, so the call is accepted and registered. *)
OpenStream(s) ==
    /\ agentUp
    /\ handler[s] = "idle"
    /\ handler' = [handler EXCEPT ![s] = "registered"]
    /\ UNCHANGED <<db, seen, ticker, timer, missed, done, sweepDue, agentUp, faults>>

StreamOnline(s) ==
    /\ handler[s] = "registered"
    /\ UpdateAgentDBStatus(s, "online")
    /\ handler' = [handler EXCEPT ![s] = "open"]
    /\ ticker' = [ticker EXCEPT ![s] = "waiting"]
    /\ timer' = [timer EXCEPT ![s] = 0]
    /\ UNCHANGED <<done, sweepDue, agentUp>>

(* The connection below the stream breaks: its context ends at once. *)
ConnectionBreaks(s) ==
    /\ handler[s] \in {"registered", "open"}
    /\ done' = done \cup {s}
    /\ UNCHANGED <<db, seen, handler, ticker, timer, missed, sweepDue, agentUp, faults>>

(* Recv or the sender fails, or the client closes: the deferred clean-up
   begins, with a context of its own. *)
StreamEnds(s) ==
    /\ handler[s] = "open"
    /\ handler' = [handler EXCEPT ![s] = "closing"]
    /\ UNCHANGED <<db, seen, ticker, timer, missed, done, sweepDue, agentUp, faults>>

(* The last write of the clean-up; the context ends as the handler returns. *)
StreamOffline(s) ==
    /\ handler[s] = "closing"
    /\ UpdateAgentDBStatus(s, "offline")
    /\ handler' = [handler EXCEPT ![s] = "closed"]
    /\ done' = done \cup {s}
    /\ UNCHANGED <<ticker, timer, sweepDue, agentUp>>

-----------------------------------------------------------------------------
(* The keepalive goroutine.  Its select may take a due tick although the   *)
(* context has ended, and it may be between its two writes when the        *)
(* clean-up runs.                                                          *)

KeepaliveTick(s) ==
    /\ ticker[s] = "waiting"
    /\ timer[s] = KeepAlive
    /\ ticker' = [ticker EXCEPT ![s] = "writing"]
    /\ timer' = [timer EXCEPT ![s] = 0]
    /\ UNCHANGED <<db, seen, handler, missed, done, sweepDue, agentUp, faults>>

(* Faulty variant: the goroutine stops after its first write. *)
KeepaliveWriteOnce(s) ==
    /\ ticker[s] = "writing"
    /\ UpdateAgentDBStatus(s, "online")
    /\ ticker' = [ticker EXCEPT ![s] = "off"]
    /\ UNCHANGED <<handler, timer, done, sweepDue, agentUp>>

KeepaliveWrite(s) ==
    /\ ticker[s] = "writing"
    /\ UpdateAgentDBStatus(s, "online")
    /\ ticker' = [ticker EXCEPT ![s] = "waiting"]
    /\ UNCHANGED <<handler, timer, done, sweepDue, agentUp>>

KeepaliveStop(s) ==
    /\ ticker[s] = "waiting"
    /\ s \in done
    /\ ticker' = [ticker EXCEPT ![s] = "off"]
    /\ UNCHANGED <<db, seen, handler, timer, missed, done, sweepDue, agentUp, faults>>

-----------------------------------------------------------------------------
(* Heartbeat: what the agent reports, mapped by mapAgentStatus, written to *)
(* the row with the metrics and last_seen; an error does not fail the RPC. *)

Heartbeat(st) ==
    /\ agentUp
    /\ \/ UpdateStatus(st)
       \/ UpdateStatusFails
    /\ UNCHANGED <<handler, ticker, timer, missed, done, sweepDue, agentUp>>

(* The agent's process ends, and its connections with it. *)
AgentDies ==
    /\ agentUp
    /\ agentUp' = FALSE
    /\ done' = done \cup {s \in Streams : handler[s] # "idle"}
    /\ UNCHANGED <<db, seen, handler, ticker, timer, missed, sweepDue, faults>>

-----------------------------------------------------------------------------
(* The sweeper.                                                            *)

(* Faulty variant: the agents sweepable are those no longer online. *)
StaleOffline == db = "degraded" /\ seen > Threshold

Stale == db \in {"online", "degraded"} /\ seen > Threshold

MarkStaleOffline ==
    /\ sweepDue
    /\ sweepDue' = FALSE
    /\ db' = IF Stale THEN "offline" ELSE db
    /\ UNCHANGED <<seen, handler, ticker, timer, missed, done, agentUp, faults>>

SweepFails ==
    /\ sweepDue
    /\ faults < MaxFaults
    /\ faults' = faults + 1
    /\ sweepDue' = FALSE
    /\ UNCHANGED <<db, seen, handler, ticker, timer, missed, done, agentUp>>

(* A minute passes: the sweeper's ticker fires every minute. *)
Minute ==
    /\ ~sweepDue
    /\ \A s \in Streams :
          /\ handler[s] \notin {"registered", "closing"}
          /\ ticker[s] # "writing"
          /\ ticker[s] = "waiting" => timer[s] < KeepAlive /\ s \notin done
    /\ seen' = IF seen = Oldest THEN seen ELSE seen + 1
    /\ timer' = [s \in Streams |-> IF ticker[s] = "waiting" THEN timer[s] + 1 ELSE timer[s]]
    /\ sweepDue' = TRUE
    /\ UNCHANGED <<db, handler, ticker, missed, done, agentUp, faults>>

-----------------------------------------------------------------------------
StreamStep(s) ==
    \/ StreamOnline(s) \/ StreamOffline(s)
    \/ KeepaliveTick(s) \/ KeepaliveWrite(s) \/ KeepaliveStop(s)

Next ==
    \/ \E s \in Streams :
          \/ StreamStep(s)
          \/ OpenStream(s) \/ ConnectionBreaks(s) \/ StreamEnds(s)
    \/ \E st \in Reported : Heartbeat(st)
    \/ AgentDies
    \/ MarkStaleOffline \/ SweepFails \/ Minute

(***************************************************************************)
(* Started calls and goroutines go on, time passes and the sweeper runs; a *)
(* broken stream ends, as Recv returns its error.  The agent owes nothing. *)
(***************************************************************************)
Fairness ==
    /\ \A s \in Streams : WF_vars(StreamStep(s)) /\ WF_vars(s \in done /\ StreamEnds(s))
    /\ WF_vars(MarkStaleOffline) /\ WF_vars(Minute)

Spec == Init /\ [][Next]_vars /\ Fairness

-----------------------------------------------------------------------------
(***************************************************************************)
(* The sweeper spares an agent whose stream is open and has written its    *)
(* status, unless it then lost two database writes in a row: one lost      *)
(* keepalive is made good by the next before last_seen is Threshold old    *)
(* (staleAgentSweeper against the keepalive ticker of StreamEvents).       *)
(***************************************************************************)
SweepSparesLive ==
    [][\A s \in Streams :
         handler[s] = "open" /\ ticker[s] # "off" /\ sweepDue /\ ~sweepDue' /\ db # db'
            => missed[s] >= Unheard]_vars

(***************************************************************************)
(* An agent that is gone, with every goroutine of its streams, does not    *)
(* stay online or degraded: whatever order the last writes came in, the    *)
(* sweeper ends it.                                                        *)
(***************************************************************************)
Gone == ~agentUp /\ \A s \in Streams : handler[s] \in {"idle", "closed"} /\ ticker[s] = "off"

GoneIsSwept == Gone ~> db \notin {"online", "degraded"}

(***************************************************************************)
(* An agent with an open stream does not stay offline: when the clean-up   *)
(* of an older stream overwrites the status, a keepalive of the newer one  *)
(* restores it.                                                            *)
(***************************************************************************)
Streaming == \E s \in Streams : handler[s] = "open" /\ s \notin done

LiveIsShown == Streaming /\ db = "offline" ~> db # "offline" \/ ~Streaming

(***************************************************************************)
(* Not so: staleAgentSweeper "runs a periodic sweep to mark zombie agents  *)
(* as offline" (cmd/server/main.go:501).  MarkStaleOffline takes online    *)
(* and degraded agents only; one whose last heartbeat said critical stays  *)
(* so.                                                                     *)
(***************************************************************************)
ZombieGoesOffline == Gone ~> db = "offline"
=============================================================================
