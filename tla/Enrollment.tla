----------------------------- MODULE Enrollment -----------------------------
(***************************************************************************)
(* First-touch provisioning.  An agent without certificate writes a fresh  *)
(* private key, calls RegisterAgent with its bootstrap token, saves the    *)
(* certificate it is given and then its new identity.  The server checks   *)
(* the token and the hostname, creates the agent's row, signs, activates   *)
(* the row and counts the token's use, each in a database call of its own. *)
(*                                                                         *)
(* A call of RegisterAgent names everything made in it: the key it was     *)
(* asked with, the row and identity it created and the certificate issued. *)
(* A file is written or removed at once.                                   *)
(***************************************************************************)
EXTENDS Naturals, FiniteSets

CONSTANTS
    Hosts,      \* one agent each
    Legacy,     \* the hosts whose token is a one-time installation token
    Services,   \* the hosts whose agent runs as a Windows service
    MaxCalls,   \* bound of the model: calls of RegisterAgent
    MaxUses,    \* max_uses of the enrollment token
    MaxFaults,  \* bound of the model: database and file operations that fail
    MaxCrashes, \* bound of the model: crashes of agents
    None

Calls == 1 .. MaxCalls

VARIABLES
    token,     \* the enrollment token: active, uses
    used,      \* the legacy token of a host has been used
    row,       \* agents: the call that created the row of a hostname, its status
    certs,     \* the calls a certificate was issued in
    call,      \* the state of each call, its host and its answer
    live,      \* the calls whose client still waits
    agent,     \* where each agent's process is
    disk,      \* its files: key, certificate, CA chain, agent.id
    healed,    \* the hosts whose re-enrolment watcher has ended
    torn,      \* the hosts where a re-enrolment failed to remove a file
    faults, crashes

vars == <<token, used, row, certs, call, live, agent, disk, healed, torn, faults, crashes>>

server == <<token, used, row, certs>>

Steps == {"unused", "token", "hostname", "create", "issue", "activate", "burn", "reply", "over"}
Answers == {"approved", "pending", "invalid", "duplicate", "internal"}

TypeOK ==
    /\ token \in [active : BOOLEAN, uses : 0 .. Cardinality(Calls)]
    /\ used \subseteq Legacy
    /\ row \in [Hosts -> [by : Calls \cup {None}, status : {"none", "pending", "online"}]]
    /\ certs \subseteq Calls
    /\ call \in [Calls -> [at : Steps, host : Hosts \cup {None}, answer : Answers \cup {None}]]
    /\ live \subseteq Calls
    /\ agent \in [Hosts -> [at : {"down", "enrolling", "calling", "saving", "naming", "running",
                                  "wiping", "stuck"},
                            with : Calls \cup {None}]]
    /\ disk \in [Hosts -> [key : Calls \cup {None}, cert : Calls \cup {None}, ca : BOOLEAN,
                           id : Calls \cup {None}]]
    /\ healed \subseteq Hosts /\ torn \subseteq Hosts
    /\ faults \in 0 .. MaxFaults /\ crashes \in 0 .. MaxCrashes

Init ==
    /\ token = [active |-> TRUE, uses |-> 0]
    /\ used = {}
    /\ row = [h \in Hosts |-> [by |-> None, status |-> "none"]]
    /\ certs = {}
    /\ call = [c \in Calls |-> [at |-> "unused", host |-> None, answer |-> None]]
    /\ live = {}
    /\ agent = [h \in Hosts |-> [at |-> "down", with |-> None]]
    /\ disk = [h \in Hosts |-> [key |-> None, cert |-> None, ca |-> FALSE, id |-> None]]
    /\ healed = {} /\ torn = {}
    /\ faults = 0 /\ crashes = 0

-----------------------------------------------------------------------------
(* Register, one database call at a time.                                  *)

Works(c) == c \in live /\ UNCHANGED faults

(* A database call fails by itself, or because the caller's deadline has
   passed and the context with it. *)
Fails(c) ==
    \/ c \notin live /\ UNCHANGED faults
    \/ c \in live /\ faults < MaxFaults /\ faults' = faults + 1

Go(c, step) == call' = [call EXCEPT ![c].at = step]

Answer(c, a) == call' = [call EXCEPT ![c].at = "reply", ![c].answer = a]

(* What the look-ups of the two token tables and of the hostname find. *)
GetByToken == token
GetByValue(h) == h \in Legacy /\ h \notin used
HostnameTaken(h) == row[h].by # None

(* Faulty variant: one use more than max_uses passes. *)
IsValidOneMore(h) ==
    IF h \in Legacy THEN h \notin used ELSE token.active /\ token.uses <= MaxUses

IsValid(h) ==
    IF h \in Legacy THEN GetByValue(h) ELSE GetByToken.active /\ GetByToken.uses < MaxUses

(* A failed look-up of the enrollment token ends in the legacy table, where
   there is no such token. *)
CheckToken(c) ==
    /\ call[c].at = "token"
    /\ \/ Works(c) /\ IF IsValid(call[c].host) THEN Go(c, "hostname") ELSE Answer(c, "invalid")
       \/ Fails(c) /\ Answer(c, "invalid")
    /\ UNCHANGED <<server, live, agent, disk, healed, torn, crashes>>

(* Only a row that was found refuses the call: an error lets it go on. *)
GetByHostname(c) ==
    /\ call[c].at = "hostname"
    /\ \/ Works(c) /\ IF HostnameTaken(call[c].host) THEN Answer(c, "duplicate") ELSE Go(c, "create")
       \/ Fails(c) /\ Go(c, "create")
    /\ UNCHANGED <<server, live, agent, disk, healed, torn, crashes>>

(* Faulty variant: the token is counted before the certificate is issued. *)
CreateRowBurning(c) ==
    LET h == call[c].host IN
    /\ call[c].at = "create"
    /\ Works(c) /\ row[h].by = None
    /\ row' = [row EXCEPT ![h] = [by |-> c, status |-> "pending"]]
    /\ token' = [token EXCEPT !.uses = @ + 1]
    /\ Go(c, "issue")
    /\ UNCHANGED <<used, certs, live, agent, disk, healed, torn, crashes>>

(* hostname is UNIQUE in the table. *)
Create(h, c) ==
    /\ row[h].by = None
    /\ row' = [row EXCEPT ![h] = [by |-> c, status |-> "pending"]]

CreateRow(c) ==
    LET h == call[c].host IN
    /\ call[c].at = "create"
    /\ \/ /\ Works(c)
          /\ Create(h, c)
          /\ Go(c, "issue")
       \/ /\ (Works(c) /\ HostnameTaken(h)) \/ Fails(c)
          /\ Answer(c, "internal")
          /\ UNCHANGED row
    /\ UNCHANGED <<token, used, certs, live, agent, disk, healed, torn, crashes>>

(* The certificate's row refers to the agent's.  A failed issue leaves the
   agent pending. *)
Issue(c) ==
    LET h == call[c].host IN
    /\ call[c].at = "issue"
    /\ \/ Works(c) /\ row[h].by = c /\ certs' = certs \cup {c} /\ Go(c, "activate")
       \/ /\ (Works(c) /\ row[h].by # c) \/ Fails(c)
          /\ Answer(c, "pending")
          /\ UNCHANGED certs
    /\ UNCHANGED <<token, used, row, live, agent, disk, healed, torn, crashes>>

Activate(c) ==
    LET h == call[c].host IN
    /\ call[c].at = "activate"
    /\ \/ Works(c) /\ row' = IF row[h].by = c THEN [row EXCEPT ![h].status = "online"] ELSE row
       \/ Fails(c) /\ UNCHANGED row
    /\ Go(c, "burn")
    /\ UNCHANGED <<token, used, certs, live, agent, disk, healed, torn, crashes>>

(* Counts while the token is active. *)
IncrementUsage == IF token.active THEN [token EXCEPT !.uses = @ + 1] ELSE token

MarkUsed(h) == used \cup {h}

BurnToken(c) ==
    LET h == call[c].host IN
    /\ call[c].at = "burn"
    /\ \/ /\ Works(c)
          /\ used' = IF h \in Legacy THEN MarkUsed(h) ELSE used
          /\ token' = IF h \notin Legacy THEN IncrementUsage ELSE token
       \/ Fails(c) /\ UNCHANGED <<token, used>>
    /\ Answer(c, "approved")
    /\ UNCHANGED <<row, certs, live, agent, disk, healed, torn, crashes>>

(* RevokeEnrollmentToken. *)
RevokeToken ==
    /\ token.active
    /\ token' = [token EXCEPT !.active = FALSE]
    /\ UNCHANGED <<used, row, certs, call, live, agent, disk, healed, torn, faults, crashes>>

(* The operator removes an agent's row in the database. *)
DropRow(h) ==
    /\ row[h].by # None
    /\ row' = [row EXCEPT ![h] = [by |-> None, status |-> "none"]]
    /\ UNCHANGED <<token, used, certs, call, live, agent, disk, healed, torn, faults, crashes>>

-----------------------------------------------------------------------------
(* The agent's process: main, EnsureEnrolled and watchReEnrollSignal.      *)

At(h, place) == agent' = [agent EXCEPT ![h].at = place]

(* An enrolment that fails ends the process (the service manager starts it
   again), or the watcher of a running one. *)
GiveUp(h) == IF h \in healed THEN "stuck" ELSE "down"

(* FetchCACertificate leaves a CA file alone; without one it may fail.  An
   agent with both files is taken for enrolled. *)
Boot(h) ==
    /\ agent[h].at = "down"
    /\ \E ca \in {disk[h].ca, TRUE} : disk' = [disk EXCEPT ![h].ca = ca]
    /\ At(h, IF disk[h].cert # None /\ disk[h].key # None THEN "running" ELSE "enrolling")
    /\ healed' = healed \ {h}
    /\ UNCHANGED <<server, call, live, torn, faults, crashes>>

(* GenerateCSR replaces the key before the CA file is read and the server
   is called. *)
GenerateCSR(h, c) ==
    /\ agent[h].at = "enrolling"
    /\ c = Cardinality({d \in Calls : call[d].at # "unused"}) + 1
    /\ disk' = [disk EXCEPT ![h].key = c]
    /\ IF disk[h].ca
       THEN /\ call' = [call EXCEPT ![c].at = "token", ![c].host = h]
            /\ live' = live \cup {c}
            /\ agent' = [agent EXCEPT ![h] = [at |-> "calling", with |-> c]]
       ELSE /\ call' = [call EXCEPT ![c].at = "over"]
            /\ At(h, GiveUp(h))
            /\ UNCHANGED live
    /\ UNCHANGED <<server, healed, torn, faults, crashes>>

Reply(c) ==
    LET h == call[c].host IN
    /\ call[c].at = "reply"
    /\ Go(c, "over")
    /\ live' = live \ {c}
    /\ IF c \in live /\ agent[h] = [at |-> "calling", with |-> c]
       THEN At(h, IF call[c].answer = "approved" THEN "saving" ELSE GiveUp(h))
       ELSE UNCHANGED agent
    /\ UNCHANGED <<server, disk, healed, torn, faults, crashes>>

(* registerTimeout, or the connection lost: the server's call goes on with
   a context that is done. *)
Timeout(h) ==
    /\ agent[h].at = "calling"
    /\ live' = live \ {agent[h].with}
    /\ At(h, GiveUp(h))
    /\ UNCHANGED <<server, call, disk, healed, torn, faults, crashes>>

SaveCertificate(h) ==
    /\ agent[h].at = "saving"
    /\ \/ /\ disk' = [disk EXCEPT ![h].cert = agent[h].with, ![h].ca = TRUE]
          /\ At(h, "naming")
          /\ UNCHANGED faults
       \/ faults < MaxFaults /\ faults' = faults + 1 /\ At(h, GiveUp(h)) /\ UNCHANGED disk
    /\ UNCHANGED <<server, call, live, healed, torn, crashes>>

(* cfg.Save; a service re-enrols without a path to save to. *)
SaveIdentity(h) ==
    /\ agent[h].at = "naming"
    /\ \/ /\ disk' = IF h \in healed /\ h \in Services THEN disk
                     ELSE [disk EXCEPT ![h].id = agent[h].with]
          /\ At(h, "running")
          /\ UNCHANGED faults
       \/ faults < MaxFaults /\ faults' = faults + 1 /\ At(h, GiveUp(h)) /\ UNCHANGED disk
    /\ UNCHANGED <<server, call, live, healed, torn, crashes>>

(* Faulty variant: the key is removed first. *)
RejectedKeyFirst(h) ==
    /\ agent[h].at = "running" /\ h \notin healed
    /\ row[h].by # disk[h].cert
    /\ healed' = healed \cup {h}
    /\ At(h, "wiping")
    /\ disk' = [disk EXCEPT ![h].key = None]
    /\ UNCHANGED <<server, call, live, faults, torn, crashes>>

(* The server does not know the identity: the watcher takes the one signal
   it waits for, and removes the certificate. *)
Rejected(h) ==
    /\ agent[h].at = "running" /\ h \notin healed
    /\ row[h].by # disk[h].cert
    /\ healed' = healed \cup {h}
    /\ At(h, "wiping")
    /\ \/ disk' = [disk EXCEPT ![h].cert = None] /\ UNCHANGED <<faults, torn>>
       \/ /\ faults < MaxFaults /\ faults' = faults + 1
          /\ torn' = torn \cup {h}
          /\ UNCHANGED disk
    /\ UNCHANGED <<server, call, live, crashes>>

(* Then the key, and it enrols again; a failed removal is logged. *)
WipeKey(h) ==
    /\ agent[h].at = "wiping"
    /\ \/ disk' = [disk EXCEPT ![h].key = None] /\ UNCHANGED <<faults, torn>>
       \/ /\ faults < MaxFaults /\ faults' = faults + 1
          /\ torn' = torn \cup {h}
          /\ UNCHANGED disk
    /\ At(h, IF disk'[h].cert # None /\ disk'[h].key # None THEN "running" ELSE "enrolling")
    /\ UNCHANGED <<server, call, live, healed, crashes>>

Crash(h) ==
    /\ crashes < MaxCrashes
    /\ agent[h].at # "down"
    /\ crashes' = crashes + 1
    /\ live' = live \ {agent[h].with}
    /\ At(h, "down")
    /\ UNCHANGED <<server, call, disk, healed, torn, faults>>

-----------------------------------------------------------------------------
Register(c) ==
    \/ CheckToken(c) \/ GetByHostname(c) \/ CreateRow(c)
    \/ Issue(c) \/ Activate(c) \/ BurnToken(c) \/ Reply(c)

EnsureEnrolled(h) ==
    \/ \E c \in Calls : GenerateCSR(h, c)
    \/ Timeout(h) \/ SaveCertificate(h) \/ SaveIdentity(h)

Next ==
    \/ \E c \in Calls : Register(c)
    \/ \E h \in Hosts : EnsureEnrolled(h) \/ Boot(h) \/ Rejected(h) \/ WipeKey(h) \/ Crash(h) \/ DropRow(h)
    \/ RevokeToken

Spec == Init /\ [][Next]_vars

-----------------------------------------------------------------------------
(***************************************************************************)
(* A token is counted by certificates only: whatever call fails, times out *)
(* or dies, use_count never exceeds the certificates issued for the token, *)
(* and a legacy token is used up only by a host that was issued one        *)
(* (Register burns "ONLY after successful cert issuance").                 *)
(***************************************************************************)
BurnedByCertificate ==
    /\ token.uses <= Cardinality({c \in certs : call[c].host \notin Legacy})
    /\ \A h \in used : \E c \in certs : call[c].host = h

(***************************************************************************)
(* Once use_count has reached max_uses no further call gets past the check *)
(* of the token: only those that had passed before can still enrol.        *)
(***************************************************************************)
PastCheck == {c \in Calls : /\ call[c].host \in Hosts \ Legacy
                            /\ call[c].at \in {"hostname", "create", "issue", "activate", "burn"}}

CapCloses == [][token.uses >= MaxUses => PastCheck' \subseteq PastCheck]_vars

(***************************************************************************)
(* The key on an agent's disk is the one its certificate was issued for,   *)
(* although a key is replaced before the server is asked and a process may *)
(* end anywhere: the certificate goes first and comes last.  A removal     *)
(* that failed is the exception (EnsureEnrolled, watchReEnrollSignal).     *)
(***************************************************************************)
KeyFitsCertificate ==
    \A h \in Hosts \ torn :
        disk[h].cert # None /\ disk[h].key # None => disk[h].key = disk[h].cert

(***************************************************************************)
(* Not so: "If cert failed: agent stays 'pending', token stays valid ->    *)
(* agent can retry" (agent_service.go:219), by which a host that was never *)
(* issued a certificate is not refused because of the row its own first    *)
(* attempt left behind.                                                    *)
(***************************************************************************)
CanRetry ==
    \A c \in Calls :
        call[c].answer = "duplicate" => \E d \in certs : call[d].host = call[c].host

=============================================================================
