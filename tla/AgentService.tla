---------------------------- MODULE AgentService ----------------------------
(***************************************************************************)
(* The agent's process: cmd/agent/main.go, the Windows service around it   *)
(* (internal/service), the settings file (internal/config) and the         *)
(* identity the agent keeps in it beside its certificate (EnsureEnrolled   *)
(* and the re-enrolment of the running agent), with the watcher of the     *)
(* settings file (config/watcher.go), which no program starts yet.         *)
(*                                                                         *)
(* A settings file is Missing, Empty (os.WriteFile empties a file before   *)
(* it writes it), Bad (Validate or the parser refuse it) or the identity   *)
(* it holds; identities are numbered in the order they are made.           *)
(***************************************************************************)
EXTENDS Naturals

CONSTANTS
    Missing, Empty, Bad,
    Reverts,      \* earlier contents an operator may put back
    MaxIds, MaxRuns, MaxWrites

VARIABLES
    file,      \* the settings file
    cert,      \* the identity the certificate on disk was issued to, 0: none
    keyed,     \* a key is on disk
    mem,       \* cfg.Agent.ID of the process
    pc,        \* where the process is
    mode,      \* service or standalone
    status,    \* what the service last told Windows
    installed,
    ids, runs,
    strayed,   \* the file and the certificate were parted, and how
    \* the watcher
    seen, hash, loaded, at, writes

svc == <<file, cert, keyed, mem, pc, mode, status, installed, ids, runs, strayed>>
watch == <<file, seen, hash, loaded, at, writes>>
vars == <<file, cert, keyed, mem, pc, mode, status, installed, ids, runs, strayed,
          seen, hash, loaded, at, writes>>
watcher == <<seen, hash, loaded, at, writes>>

Init ==
    /\ file = Missing /\ cert = 0 /\ keyed = FALSE /\ mem = 0 /\ pc = "off"
    /\ mode = "standalone" /\ status = "stopped" /\ installed = FALSE
    /\ ids = 0 /\ runs = 0 /\ strayed = FALSE
    /\ seen = Missing /\ hash = Missing /\ loaded = Missing /\ at = "wait" /\ writes = 0

-----------------------------------------------------------------------------
(* Settings: Load reads the file over DefaultConfig, whose identity is     *)
(* made anew in every process; a missing file is the defaults alone.       *)

Fresh == ids + 1

Load(f) == IF f \in {Missing, Empty} THEN Fresh ELSE f

\* Config.Save is os.WriteFile: two steps to a process that dies.
SaveBegins(from, to) == pc = from /\ file' = Empty /\ pc' = to

-----------------------------------------------------------------------------
(* The service manager's side.                                             *)

\* Install writes the default settings where there are none.
Install ==
    /\ ~installed /\ installed' = TRUE
    /\ ids < MaxIds
    /\ IF file = Missing THEN file' = Fresh /\ ids' = ids + 1
       ELSE UNCHANGED <<file, ids>>
    /\ UNCHANGED <<cert, keyed, mem, pc, mode, status, runs, strayed, watcher>>

\* Uninstall stops the service first and deletes nothing else.
Uninstall ==
    /\ installed /\ pc = "off" /\ installed' = FALSE
    /\ UNCHANGED <<file, cert, keyed, mem, pc, mode, status, ids, runs, strayed, watcher>>

\* main: the settings, then EnsureEnrolled, then the service or the agent.
Main(m) ==
    /\ pc = "off" /\ runs < MaxRuns /\ ids < MaxIds
    /\ m = "service" => installed
    /\ runs' = runs + 1 /\ mode' = m
    /\ IF file = Bad THEN UNCHANGED <<mem, ids, pc>>
       ELSE /\ mem' = Load(file)
            /\ ids' = IF Load(file) = Fresh THEN Fresh ELSE ids
            /\ pc' = IF cert # 0 /\ keyed THEN "start" ELSE "enrol"
    /\ UNCHANGED <<file, cert, keyed, status, installed, strayed, watcher>>

-----------------------------------------------------------------------------
(* EnsureEnrolled, from main and from the running agent.                   *)

\* A new key is written before the manager is asked.
GenerateCSR ==
    /\ pc \in {"enrol", "re-enrol"} /\ ~keyed
    /\ keyed' = TRUE
    /\ UNCHANGED <<file, cert, mem, pc, mode, status, installed, ids, runs, strayed, watcher>>

SaveCertificateKeepingID(from, to) ==
    /\ pc = from /\ keyed /\ ids < MaxIds
    /\ ids' = Fresh /\ cert' = Fresh /\ mem' = mem /\ pc' = to
    /\ UNCHANGED <<file, keyed, mode, status, installed, runs, strayed, watcher>>

\* RegisterAgent answers with the identity the manager made.
SaveCertificate(from, to) ==
    /\ pc = from /\ keyed /\ ids < MaxIds
    /\ ids' = Fresh /\ cert' = Fresh /\ mem' = Fresh /\ pc' = to
    /\ UNCHANGED <<file, keyed, mode, status, installed, runs, strayed, watcher>>

\* Where an error leaves main, and where the running agent.
GivesUp == IF status = "stopped" THEN "off" ELSE "run"

\* The certificate is on disk, whole or in part, but not its CA chain; the
\* identity it was issued to is passed over.
SaveCertificateFails ==
    /\ pc \in {"enrol", "re-enrol"} /\ keyed /\ ids < MaxIds
    /\ ids' = Fresh /\ cert' = Fresh /\ pc' = GivesUp /\ strayed' = TRUE
    /\ UNCHANGED <<file, keyed, mem, mode, status, installed, runs, watcher>>

SaveConfigBegins ==
    /\ SaveBegins("save", "saving")
    /\ UNCHANGED <<cert, keyed, mem, mode, status, installed, ids, runs, strayed, watcher>>

SaveConfigEnds ==
    /\ pc = "saving" /\ file' = mem
    /\ pc' = IF status = "stopped" THEN "start" ELSE "run"
    /\ UNCHANGED <<cert, keyed, mem, mode, status, installed, ids, runs, strayed, watcher>>

\* cfg.Save fails, before the file is emptied or after: the certificate is
\* new, and the settings are not.
SaveConfigFails ==
    /\ pc \in {"save", "saving"} /\ pc' = GivesUp /\ strayed' = TRUE
    /\ UNCHANGED <<file, cert, keyed, mem, mode, status, installed, ids, runs, watcher>>

\* The manager refuses: main exits, the running agent goes on without.
EnrolFails ==
    /\ pc \in {"enrol", "re-enrol"}
    /\ pc' = GivesUp
    /\ UNCHANGED <<file, cert, keyed, mem, mode, status, installed, ids, runs, strayed, watcher>>

\* watchReEnrollSignal removes the certificate and the key and clears the
\* identity before it enrols.  A removal that fails is logged; with both files
\* still there EnsureEnrolled returns at once.  The path to save under is the
\* one SetConfigFilePath was given, which service.Execute does not call.
ReEnrol ==
    /\ pc = "run"
    /\ cert' \in {0, cert} /\ keyed' \in {FALSE, keyed} /\ mem' = 0
    /\ pc' = IF cert' # 0 /\ keyed' THEN "run" ELSE "re-enrol"
    /\ UNCHANGED <<file, mode, status, installed, ids, runs, strayed, watcher>>

ReEnrolled ==
    IF mode = "standalone" THEN SaveCertificate("re-enrol", "save")
    ELSE /\ pc = "re-enrol" /\ keyed /\ ids < MaxIds
         /\ ids' = Fresh /\ cert' = Fresh /\ mem' = Fresh
         /\ pc' = "run" /\ strayed' = TRUE
         /\ UNCHANGED <<file, keyed, mode, status, installed, runs, watcher>>

-----------------------------------------------------------------------------
(* service.Execute and runStandalone.                                      *)

\* agent.New may fail: the service ends with an error, main with status 1.
StartAgent ==
    /\ pc = "start"
    /\ \/ pc' = "run" /\ status' = "running"
       \/ pc' = "off" /\ status' = "stopped"
    /\ UNCHANGED <<file, cert, keyed, mem, mode, installed, ids, runs, strayed, watcher>>

\* Pause and Continue are answered and change nothing in the agent.
PauseContinue ==
    /\ pc = "run" /\ mode = "service"
    /\ status' = IF status = "running" THEN "paused" ELSE "running"
    /\ UNCHANGED <<file, cert, keyed, mem, pc, mode, installed, ids, runs, strayed, watcher>>

\* Stop, a signal, or thirty seconds of waiting for the agent to end.
StopService ==
    /\ pc = "run" /\ pc' = "off" /\ status' = "stopped"
    /\ UNCHANGED <<file, cert, keyed, mem, mode, installed, ids, runs, strayed, watcher>>

\* The process dies; between the certificate and the settings it parts them.
Crash ==
    /\ pc # "off" /\ pc' = "off" /\ status' = "stopped"
    /\ strayed' = (strayed \/ pc \in {"save", "saving"})
    /\ UNCHANGED <<file, cert, keyed, mem, mode, installed, ids, runs, watcher>>

ServiceNext ==
    \/ Install \/ Uninstall \/ \E m \in {"service", "standalone"} : Main(m)
    \/ GenerateCSR \/ SaveCertificate("enrol", "save") \/ SaveConfigBegins \/ SaveConfigEnds
    \/ SaveCertificateFails \/ SaveConfigFails \/ EnrolFails \/ ReEnrol \/ ReEnrolled
    \/ StartAgent \/ PauseContinue \/ StopService \/ Crash

-----------------------------------------------------------------------------
(* Watcher.checkForChanges: the hash is of the contents it read first, the *)
(* settings are of a second read.                                          *)

ReadHash ==
    /\ at = "wait" /\ file \notin {Missing, seen}
    /\ hash' = file /\ at' = "load"
    /\ UNCHANGED <<file, cert, keyed, mem, pc, mode, status, installed, ids, runs, strayed,
                   seen, loaded, writes>>

LoadSettingsSeenLast ==
    /\ at = "load" /\ at' = "wait"
    /\ IF file = Bad THEN UNCHANGED <<seen, loaded>>
       ELSE loaded' = hash /\ seen' = file
    /\ UNCHANGED <<file, cert, keyed, mem, pc, mode, status, installed, ids, runs, strayed,
                   hash, writes>>

LoadSettings ==
    /\ at = "load" /\ at' = "wait"
    /\ IF file = Bad THEN UNCHANGED <<seen, loaded>>
       ELSE loaded' = file /\ seen' = hash
    /\ UNCHANGED <<file, cert, keyed, mem, pc, mode, status, installed, ids, runs, strayed,
                   hash, writes>>

WriteSettings ==
    /\ writes < MaxWrites /\ writes' = writes + 1
    /\ file' \in {Missing, Empty, Bad, writes + 1} \cup Reverts
    /\ file' # file
    /\ UNCHANGED <<cert, keyed, mem, pc, mode, status, installed, ids, runs, strayed,
                   seen, hash, loaded, at>>

WatchNext == ReadHash \/ LoadSettings \/ WriteSettings

WatchFairness == WF_watch(ReadHash) /\ WF_watch(LoadSettings)

Next == ServiceNext \/ WatchNext

TypeOK ==
    /\ {file, seen, hash, loaded} \subseteq (0 .. MaxIds) \cup {Missing, Empty, Bad} \cup Reverts
    /\ {cert, mem, ids} \subseteq 0 .. MaxIds /\ runs \in 0 .. MaxRuns /\ writes \in 0 .. MaxWrites
    /\ pc \in {"off", "enrol", "save", "saving", "start", "run", "re-enrol"} /\ at \in {"wait", "load"}
    /\ mode \in {"service", "standalone"} /\ status \in {"stopped", "running", "paused"}
    /\ keyed \in BOOLEAN

-----------------------------------------------------------------------------
\* The agent runs under the identity its certificate was issued to or, after
\* a re-enrolment that failed, under none, never under another: over
\* re-enrolments, restarts, files that cannot be removed and crashes, as long
\* as no process has died or met an error between saving the certificate and
\* the settings and the service has not re-enrolled (it keeps the new identity
\* in memory alone).
RunsAsCertified == pc = "run" /\ cert # 0 /\ mem # 0 /\ ~strayed => mem = cert

\* Not so: after a restart of the service that re-enrolled, or of an agent that
\* could not save its settings.
AlwaysRunsAsCertified == pc = "run" /\ cert # 0 /\ mem # 0 => mem = cert

\* Not so: "Agent is operational with new identity" (agent.go:345).  When
\* neither file can be removed EnsureEnrolled finds the agent enrolled, and it
\* goes on with the old certificate and an empty id.
HasAnIdentity == pc = "run" /\ cert # 0 => mem # 0

\* Settings that stay in the file and can be read come into force, whatever
\* was written while the watcher read, if no contents come back (Reverts = {}):
\* contents put back between the two reads of a check are taken for the ones
\* loaded.
SettingsComeIntoForce ==
    \A c \in 1..MaxWrites : <>[](file = c) => <>[](loaded = c)

=============================================================================
