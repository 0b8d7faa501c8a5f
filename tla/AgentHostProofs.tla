-------------------------- MODULE AgentHostProofs ---------------------------
(***************************************************************************)
(* Proofs about the parts of the agent beside its pipeline, for any number *)
(* of commands, adapters, processes, registry values, connections, lists   *)
(* of the filter and runs of the process.  A step of HostNext is a step of *)
(* one part and a stutter of every other (PartsMove), so each part has an  *)
(* inductive invariant of its own: LinkInv the connection, JobInv the      *)
(* commands, PollInv the collectors, FilterInv the filter, IdentityInv the *)
(* process and the watcher.  The theorems are about HostSpec, the          *)
(* specification that the run AgentHost checks.                            *)
(***************************************************************************)
EXTENDS MCAgentHost, FiniteSetTheorems, TLAPS

\* A step of the host is a step or a stutter of each part.
LEMMA PartsMove ==
    ASSUME [HostNext]_hostVars
    PROVE  /\ [Next]_vars /\ [X!Next]_(X!vars) /\ [C!Next]_(C!vars) /\ [F!Next]_(F!vars)
           /\ [(S!ServiceNext /\ part = "service") \/ (S!WatchNext /\ part = "watcher")]_(S!vars)
           /\ part' = part
BY DEF HostNext, Moves, hostVars, aVars, cVars, fVars, sVars, X!vars, C!vars, C!host, C!caches, F!vars, S!vars
-----------------------------------------------------------------------------
(* The connection.                                                           *)

Jobs == [at : {"top", "report", "gone"}] \cup [at : {"select"}, on : Clients] \cup [at : {"running"}, cmd : Kinds]

\* Once the manager has refused the first client its stream is over for good, and the second
\* client streams only after the first was replaced.
LinkInv ==
    /\ TypeOK
    /\ commandChan \in [Clients -> Seq(Kinds)] /\ loop \in Jobs
    /\ enrol \notin {"idle", "gone"} => stream[1] = "gone"
    /\ stream[2] # "off" => enrol \in {"swapped", "quiet", "done"}

\* The first states have the invariant.
LEMMA LinkInit == Init => LinkInv
<1> SUFFICES ASSUME Init PROVE LinkInv
  OBVIOUS
<1>1. ctxDone \in BOOLEAN /\ adapters \in BOOLEAN /\ hbRunning \in BOOLEAN
  BY Zenon DEF Init
<1>2. loop \in Jobs /\ loop.at = "top" /\ sent \in 0 .. MaxCommands
  BY HostAssumption DEF Init, Jobs, Top
<1>3. commandChan \in [Clients -> Seq(Kinds)] /\ \A c \in Clients : Len(commandChan[c]) <= ChanCap
  BY HostAssumption DEF Init
<1> QED
  BY <1>1, <1>2, <1>3 DEF Init, LinkInv, TypeOK, Clients

\* What a command does leaves the streams alone.
LEMMA LoopLinks ==
    ASSUME LinkInv, LoopStep
    PROVE  LinkInv'
<1>1. CASE EnterSelect
  BY <1>1 DEF EnterSelect, LinkInv, TypeOK, Jobs, Top, network, links, hearts
<1>2. CASE TakeCommand
  <2>1. loop.on \in Clients /\ commandChan[loop.on] \in Seq(Kinds) /\ commandChan[loop.on] # <<>>
    BY <1>2 DEF TakeCommand, LinkInv, Jobs
  <2>2. Head(commandChan[loop.on]) \in Kinds /\ Tail(commandChan[loop.on]) \in Seq(Kinds)
        /\ Len(Tail(commandChan[loop.on])) = Len(commandChan[loop.on]) - 1 /\ Len(commandChan[loop.on]) \in Nat
    BY <2>1
  <2>3. \A c \in Clients : commandChan'[c] \in Seq(Kinds) /\ Len(commandChan'[c]) <= ChanCap
    BY <1>2, <2>1, <2>2, HostAssumption DEF TakeCommand, LinkInv, TypeOK
  <2>4. loop' \in Jobs /\ loop'.at = "running" /\ commandChan' \in [Clients -> Seq(Kinds)]
    BY <1>2, <2>1, <2>2 DEF TakeCommand, LinkInv, Jobs
  <2> QED
    BY <1>2, <2>3, <2>4 DEF TakeCommand, LinkInv, TypeOK, network, links, hearts
<1>3. CASE Execute
  BY <1>3, ZenonT(30) DEF Execute, LinkInv, TypeOK, Jobs, AdaptersAfter, network, links, hearts
<1>4. CASE ReportResult
  BY <1>4 DEF ReportResult, LinkInv, TypeOK, Jobs, Top, network, links, hearts
<1>5. CASE LoopEnds
  BY <1>5 DEF LoopEnds, LinkInv, TypeOK, Jobs, Top, network, links, hearts
<1> QED
  BY <1>1, <1>2, <1>3, <1>4, <1>5 DEF LoopStep

\* The invariant is inductive.
LEMMA LinkStep ==
    ASSUME LinkInv, [Next]_vars
    PROVE  LinkInv'
<1> USE DEF LinkInv, TypeOK, network, links, hearts, commands
<1>1. ASSUME NEW c \in Clients, DialStep(c) PROVE LinkInv'
  <2>1. CASE StartDial(c)
    BY <2>1 DEF StartDial
  <2>2. CASE DialConnects(c)
    BY <2>2 DEF DialConnects, Connect
  <2>3. CASE DialFails(c)
    BY <2>3 DEF DialFails
  <2>4. CASE ReconnectorEnds(c)
    BY <2>4 DEF ReconnectorEnds
  <2> QED
    BY <1>1, <2>1, <2>2, <2>3, <2>4 DEF DialStep
<1>2. ASSUME NEW c \in Clients, StreamStep(c) PROVE LinkInv'
  BY <1>2 DEF StreamStep, OpenStream, Unauthenticated, StreamEnds, Clients
<1>3. ASSUME NEW c \in Clients, StreamBreaks(c) PROVE LinkInv'
  BY <1>3 DEF StreamBreaks, Clients
<1>4. ASSUME NEW c \in Clients, BeatStep(c) PROVE LinkInv'
  <2>1. beat' \in [Clients -> {"off", "sending", "waiting", "gone"}]
    BY <1>4 DEF BeatStep, SendHeartbeat, HeartbeatTick, HeartbeatEnds
  <2>2. UNCHANGED <<ctxDone, network, links, current, enrol, hbRunning, commands>>
    BY <1>4 DEF BeatStep, SendHeartbeat, HeartbeatTick, HeartbeatEnds
  <2> QED
    BY <2>1, <2>2
<1>5. ASSUME NEW c \in Clients, NEW k \in Kinds, RecvCommand(c, k) PROVE LinkInv'
  BY <1>5, HostAssumption DEF RecvCommand
<1>6. ASSUME LoopStep PROVE LinkInv'
  BY <1>6, LoopLinks
<1>7. ASSUME EnrolStep PROVE LinkInv'
  <2>1. CASE Wipe
    BY <2>1 DEF Wipe
  <2>2. CASE EnsureEnrolled
    BY <2>2 DEF EnsureEnrolled
  <2>3. CASE SwapClient
    BY <2>3 DEF SwapClient, Connect, Clients
  <2>4. CASE HeartbeatStop
    <3>1. hbRunning' \in BOOLEAN
      BY <2>4, Zenon DEF HeartbeatStop
    <3> QED
      BY <2>4, <3>1 DEF HeartbeatStop
  <2>5. CASE HeartbeatStart
    <3>1. hbRunning' \in BOOLEAN
      BY <2>5, Zenon DEF HeartbeatStart
    <3> QED
      BY <2>5, <3>1 DEF HeartbeatStart
  <2>6. CASE WatchEnds
    BY <2>6 DEF WatchEnds
  <2> QED
    BY <1>7, <2>1, <2>2, <2>3, <2>4, <2>5, <2>6 DEF EnrolStep
<1>8. ASSUME Stop PROVE LinkInv'
  BY <1>8 DEF Stop
<1>9. ASSUME ManagerForgets PROVE LinkInv'
  BY <1>9 DEF ManagerForgets
<1>10. ASSUME UNCHANGED vars PROVE LinkInv'
  BY <1>10 DEF vars
<1> QED
  BY <1>1, <1>2, <1>3, <1>4, <1>5, <1>6, <1>7, <1>8, <1>9, <1>10 DEF Next
-----------------------------------------------------------------------------
(* The process and the watcher.                                              *)

\* What a settings file can hold.
Contents == (0 .. MaxIds) \cup {Missing, Empty, Bad}

\* The types of the process, one by one.
ProcessTypes ==
    /\ file \in Contents /\ seen \in Contents /\ hash \in Contents /\ loaded \in Contents
    /\ cert \in 0 .. MaxIds /\ mem \in 0 .. MaxIds /\ ids \in 0 .. MaxIds
    /\ runs \in 0 .. MaxRuns /\ writes \in 0 .. MaxWrites
    /\ pc \in {"off", "enrol", "save", "saving", "start", "run", "re-enrol"} /\ at \in {"wait", "load"}
    /\ mode \in {"service", "standalone"} /\ status \in {"stopped", "running", "paused"}

\* The certificate is that of an identity the process and its settings keep.
Kept == cert # 0 /\ ~strayed

\* Where nothing has parted them, the settings hold the certificate's identity but while they
\* are written, and a process that is past its enrolment has it in memory, or none where it
\* has forgotten its own for a re-enrolment.
IdentityInv ==
    /\ ProcessTypes /\ strayed \in BOOLEAN /\ keyed \in BOOLEAN
    /\ part = "watcher" => cert = 0
    /\ Kept /\ pc \notin {"save", "saving"} => file = cert
    /\ Kept /\ pc \in {"save", "saving", "start"} => mem = cert
    /\ Kept /\ pc = "run" => mem \in {0, cert}
    /\ pc \in {"save", "saving", "start"} => cert # 0
    /\ pc \in {"off", "enrol", "start"} => status = "stopped"
    /\ pc \in {"run", "re-enrol"} => status # "stopped"
    /\ pc = "re-enrol" => mem = 0

\* They are those of the module.
LEMMA IdentityTypes == ProcessTypes /\ keyed \in BOOLEAN => S!TypeOK
BY DEF ProcessTypes, S!TypeOK, Contents

\* The first states have the invariant.
LEMMA IdentityInit == S!Init => IdentityInv
<1> SUFFICES ASSUME S!Init PROVE IdentityInv
  OBVIOUS
<1>1. strayed \in BOOLEAN /\ keyed \in BOOLEAN
  BY Zenon DEF S!Init
<1>2. ProcessTypes
  BY HostAssumption DEF ProcessTypes, S!Init, Contents
<1> QED
  BY <1>1, <1>2 DEF S!Init, IdentityInv, Kept

\* A new identity is within the bound of the model.
LEMMA FreshBounded ==
    ASSUME IdentityInv, ids < MaxIds
    PROVE  S!Fresh \in 0 .. MaxIds /\ S!Fresh # 0 /\ S!Fresh \in Contents
BY HostAssumption DEF ProcessTypes, IdentityInv, S!Fresh, Contents

\* A certificate that is saved is in memory under its identity, and the settings come next.
LEMMA SaveCertificateStep ==
    ASSUME IdentityInv, part = "service", part' = part, NEW from \in {"enrol", "re-enrol"}, S!SaveCertificate(from, "save")
    PROVE  IdentityInv'
<1>1. S!Fresh \in 0 .. MaxIds
  BY FreshBounded DEF S!SaveCertificate
<1>2. ProcessTypes'
  BY <1>1 DEF ProcessTypes, IdentityInv, S!SaveCertificate, S!watcher
<1>3. keyed' = keyed /\ strayed' = strayed /\ pc' = "save" /\ mem' = cert' /\ cert' = S!Fresh
  BY DEF S!SaveCertificate
<1>4. S!Fresh # 0
  BY FreshBounded DEF S!SaveCertificate
<1> QED
  BY <1>2, <1>3, <1>4 DEF IdentityInv, Kept

\* The invariant is inductive over the steps of the process.
LEMMA ServiceStep ==
    ASSUME IdentityInv, part = "service", part' = part, S!ServiceNext
    PROVE  IdentityInv'
<1> USE DEF S!watcher
<1>1. CASE S!Install
  <2>1. S!Fresh \in Contents /\ S!Fresh \in 0 .. MaxIds
    BY <1>1, FreshBounded DEF S!Install
  <2>2. ProcessTypes'
    BY <1>1, <2>1 DEF ProcessTypes, IdentityInv, S!Install, S!Fresh
  <2>3. Kept /\ pc \notin {"save", "saving"} => file # Missing
    BY HostAssumption DEF ProcessTypes, IdentityInv
  <2> QED
    BY <1>1, <2>2, <2>3 DEF IdentityInv, Kept, S!Install
<1>2. CASE S!Uninstall
  BY <1>2 DEF ProcessTypes, IdentityInv, Kept, S!Uninstall
<1>3. ASSUME NEW m \in {"service", "standalone"}, S!Main(m) PROVE IdentityInv'
  <2>1. S!Fresh \in 0 .. MaxIds
    BY <1>3, FreshBounded DEF S!Main
  <2>2. file # Bad => S!Load(file) \in 0 .. MaxIds
    BY <2>1 DEF ProcessTypes, IdentityInv, S!Load, Contents
  <2>3. runs' \in 0 .. MaxRuns
    BY <1>3, HostAssumption DEF ProcessTypes, IdentityInv, S!Main
  <2>4. ProcessTypes'
    BY <1>3, <2>1, <2>2, <2>3 DEF ProcessTypes, IdentityInv, S!Main
  <2>5. Kept => file = cert /\ S!Load(file) = cert
    BY <1>3, HostAssumption DEF ProcessTypes, IdentityInv, S!Main, S!Load
  <2> QED
    BY <1>3, <2>4, <2>5 DEF IdentityInv, Kept, S!Main
<1>4. CASE S!SaveCertificate("enrol", "save")
  BY <1>4, SaveCertificateStep
<1>5. CASE S!SaveConfigBegins
  <2>1. ProcessTypes'
    BY <1>5 DEF ProcessTypes, IdentityInv, S!SaveConfigBegins, S!SaveBegins, Contents
  <2> QED
    BY <1>5, <2>1 DEF IdentityInv, Kept, S!SaveConfigBegins, S!SaveBegins
<1>6. CASE S!SaveConfigEnds
  <2>1. ProcessTypes'
    BY <1>6 DEF ProcessTypes, IdentityInv, S!SaveConfigEnds, Contents
  <2>2. Kept' => cert # 0 /\ ~strayed /\ mem = cert
    BY <1>6 DEF IdentityInv, Kept, S!SaveConfigEnds
  <2>3. (pc' = "start" => cert' # 0) /\ (part' = "watcher" => cert' = 0)
    BY <1>6 DEF IdentityInv, S!SaveConfigEnds
  <2> QED
    BY <1>6, <2>1, <2>2, <2>3 DEF IdentityInv, Kept, S!SaveConfigEnds
<1>7. CASE S!EnrolFails
  <2>1. ProcessTypes'
    BY <1>7 DEF ProcessTypes, IdentityInv, S!EnrolFails, S!GivesUp
  <2> QED
    BY <1>7, <2>1 DEF IdentityInv, Kept, S!EnrolFails, S!GivesUp
<1>8. CASE S!ReEnrol
  <2>1. ProcessTypes'
    BY <1>8, HostAssumption DEF ProcessTypes, IdentityInv, S!ReEnrol
  <2>2. keyed' \in BOOLEAN /\ strayed' = strayed /\ cert' \in {0, cert} /\ mem' = 0 /\ file' = file
        /\ status' = status /\ pc = "run" /\ pc' \in {"run", "re-enrol"}
    BY <1>8, ZenonT(20) DEF IdentityInv, S!ReEnrol
  <2> QED
    BY <2>1, <2>2 DEF IdentityInv, Kept
<1>9. CASE S!ReEnrolled
  <2>1. CASE mode = "standalone"
    BY <1>9, <2>1, SaveCertificateStep DEF S!ReEnrolled
  <2>2. CASE mode # "standalone"
    <3>1. S!Fresh \in 0 .. MaxIds
      BY <1>9, <2>2, FreshBounded DEF S!ReEnrolled
    <3>2. ProcessTypes'
      BY <1>9, <2>2, <3>1 DEF ProcessTypes, IdentityInv, S!ReEnrolled
    <3>3. strayed' \in BOOLEAN /\ strayed' /\ keyed' \in BOOLEAN
      BY <1>9, <2>2, Zenon DEF S!ReEnrolled, IdentityInv
    <3>4. pc' = "run" /\ part' # "watcher" /\ status' # "stopped"
      BY <1>9, <2>2 DEF S!ReEnrolled, IdentityInv
    <3> QED
      BY <3>2, <3>3, <3>4 DEF IdentityInv, Kept
  <2> QED
    BY <2>1, <2>2
<1>10. CASE S!StartAgent
  BY <1>10 DEF ProcessTypes, IdentityInv, Kept, S!StartAgent
<1>11. CASE S!PauseContinue
  BY <1>11 DEF ProcessTypes, IdentityInv, Kept, S!PauseContinue
<1>12. CASE S!StopService
  BY <1>12 DEF ProcessTypes, IdentityInv, Kept, S!StopService
<1>13. CASE S!Crash
  <2>1. ProcessTypes'
    BY <1>13 DEF ProcessTypes, IdentityInv, S!Crash
  <2>2. strayed' \in BOOLEAN /\ (strayed' <=> strayed \/ pc \in {"save", "saving"})
    BY <1>13, Zenon DEF S!Crash
  <2>3. cert' = cert /\ file' = file /\ mem' = mem /\ keyed' = keyed /\ pc' = "off" /\ status' = "stopped"
    BY <1>13 DEF S!Crash
  <2> QED
    BY <2>1, <2>2, <2>3 DEF IdentityInv, Kept
<1>14. CASE S!GenerateCSR
  <2>1. keyed' \in BOOLEAN
    BY <1>14, Zenon DEF S!GenerateCSR
  <2> QED
    BY <1>14, <2>1 DEF ProcessTypes, IdentityInv, Kept, S!GenerateCSR
<1>15. CASE S!SaveCertificateFails \/ S!SaveConfigFails
  <2>1. strayed' \in BOOLEAN /\ strayed'
    BY <1>15, Zenon DEF S!SaveCertificateFails, S!SaveConfigFails
  <2>2. pc' \in {"run", "off"} /\ (pc' = "off" <=> status = "stopped")
    BY <1>15 DEF S!SaveCertificateFails, S!SaveConfigFails, S!GivesUp
  <2>3. cert' \in 0 .. MaxIds /\ ids' \in 0 .. MaxIds
    BY <1>15, FreshBounded DEF S!SaveCertificateFails, S!SaveConfigFails, ProcessTypes, IdentityInv
  <2>4. UNCHANGED <<file, keyed, mem, mode, status, installed, runs, seen, hash, loaded, at, writes>>
    BY <1>15 DEF S!SaveCertificateFails, S!SaveConfigFails
  <2>5. ProcessTypes'
    BY <2>2, <2>3, <2>4 DEF ProcessTypes, IdentityInv
  <2>6. keyed' \in BOOLEAN /\ status' = status /\ part' # "watcher"
    BY <2>4 DEF IdentityInv
  <2> QED
    BY <2>1, <2>2, <2>5, <2>6 DEF IdentityInv, Kept
<1> QED
  BY <1>1, <1>2, <1>3, <1>4, <1>5, <1>6, <1>7, <1>8, <1>9, <1>10, <1>11, <1>12, <1>13, <1>14, <1>15
  DEF S!ServiceNext

\* The invariant is inductive.
LEMMA IdentityStep ==
    ASSUME IdentityInv, part' = part,
           [(S!ServiceNext /\ part = "service") \/ (S!WatchNext /\ part = "watcher")]_(S!vars)
    PROVE  IdentityInv'
<1>1. CASE S!ServiceNext /\ part = "service"
  BY <1>1, ServiceStep
<1>2. CASE S!WatchNext /\ part = "watcher"
  <2>1. UNCHANGED <<cert, keyed, mem, pc, mode, status, installed, ids, runs, strayed>> /\ cert = 0
    BY <1>2 DEF S!WatchNext, S!ReadHash, S!LoadSettings, S!WriteSettings, IdentityInv
  <2>2. CASE S!ReadHash \/ S!LoadSettings
    <3>1. ProcessTypes'
      BY <2>1, <2>2 DEF ProcessTypes, IdentityInv, S!ReadHash, S!LoadSettings
    <3> QED
      BY <2>1, <3>1 DEF IdentityInv, Kept
  <2>3. CASE S!WriteSettings
    <3>1. writes + 1 \in 0 .. MaxWrites /\ writes + 1 \in Contents
      BY <2>3, HostAssumption DEF ProcessTypes, IdentityInv, S!WriteSettings, Contents
    <3>2. file' \in Contents /\ writes' \in 0 .. MaxWrites
      BY <2>3, <3>1 DEF S!WriteSettings, Contents
    <3>3. ProcessTypes'
      BY <2>1, <2>3, <3>2 DEF ProcessTypes, IdentityInv, S!WriteSettings
    <3> QED
      BY <2>1, <3>3 DEF IdentityInv, Kept
  <2> QED
    BY <1>2, <2>2, <2>3 DEF S!WatchNext
<1>3. CASE UNCHANGED (S!vars)
  BY <1>3 DEF ProcessTypes, IdentityInv, Kept, S!vars
<1> QED
  BY <1>1, <1>2, <1>3
-----------------------------------------------------------------------------
(* The collectors.                                                           *)

\* What the registry holds and its cache has.
Remembered == {C!Item(n) : n \in {m \in C!Holding : valueCache[m] = registry[m]}}

\* What was told and has stayed is a process, or a connection or a value that is in its cache.
PollInv ==
    /\ C!TypeOK
    /\ told \subseteq Processes \cup (connections \cap connCache) \cup Remembered
    /\ twice \subseteq Processes
    /\ inventory \in [C!Inventories -> [at : {"idle", "returned"}] \cup [at : {"answered"}, seen : SUBSET Processes]]

\* The first states have the invariant.
LEMMA PollInit == C!Init => PollInv
BY DEF C!Init, PollInv, C!TypeOK, C!NoQuery

\* A registry value is no connection.
LEMMA ItemsApart == PollInv => Remembered \cap Connections = {}
BY HostAssumption DEF PollInv, C!TypeOK, Remembered, C!Item, C!Holding

\* What is sent is told; it is told twice if it had been told before.
LEMMA SendsStep ==
    ASSUME PollInv, NEW items, C!Sends(items)
    PROVE  /\ told' \subseteq told \cup items /\ twice' \subseteq told'
           /\ twice' \subseteq Processes \cup (items \cap told)
BY DEF PollInv, C!TypeOK, C!Sends

\* A poll of the connections reports none that is remembered.
LEMMA ConnectionsStep ==
    ASSUME PollInv, C!collectConnections
    PROVE  PollInv'
<1> DEFINE items == {c \in {d \in connections \ connCache : d.destination_ip # C!Unspecified} : ~C!filterNetwork(c)}
<1>1. items \subseteq connections \ connCache /\ connCache' = connections /\ C!Sends(items)
  BY DEF C!collectConnections, C!CacheAfter
<1> HIDE DEF items
<1>2. UNCHANGED <<registry, connections, processes, valueCache, processCache, inventory, gone, shown>>
  BY DEF C!collectConnections, C!host
<1>3. items \cap told \subseteq Processes
  BY <1>1, ItemsApart DEF PollInv, C!TypeOK
<1>4. Remembered' = Remembered
  BY <1>2 DEF Remembered, C!Item, C!Holding
<1> QED
  BY <1>1, <1>2, <1>3, <1>4, SendsStep DEF PollInv, C!TypeOK

\* A poll of the registry reports no value that is remembered.
LEMMA RegistryStep ==
    ASSUME PollInv, C!checkForChanges
    PROVE  PollInv'
<1> DEFINE changed == {n \in C!Holding : valueCache[n] # registry[n]}
           items == {i \in {C!Item(n) : n \in changed} : ~C!filterRegistry(i)}
<1>1. C!Sends(items) /\ valueCache' = [n \in Names |-> IF n \in C!Holding THEN registry[n] ELSE valueCache[n]]
  BY DEF C!checkForChanges
<1>2. UNCHANGED <<registry, connections, processes, connCache, processCache, inventory, gone, shown>>
  BY DEF C!checkForChanges, C!host
<1>3. items \cap Remembered = {} /\ items \cap Connections = {}
  BY HostAssumption DEF PollInv, C!TypeOK, Remembered, C!Item, C!Holding
<1>4. Remembered' = {C!Item(n) : n \in C!Holding}
  BY <1>1, <1>2 DEF Remembered, C!Item, C!Holding
<1>5. items \subseteq Remembered' /\ Remembered \subseteq Remembered'
  BY <1>4 DEF Remembered
<1>6. valueCache' \in [Names -> Data \cup {NoData}]
  BY <1>1 DEF PollInv, C!TypeOK
<1> HIDE DEF items
<1>7. items \cap told \subseteq Processes
  BY <1>3 DEF PollInv, C!TypeOK
<1> QED
  BY <1>1, <1>2, <1>5, <1>6, <1>7, SendsStep DEF PollInv, C!TypeOK

\* A value that changes is told no more.
LEMMA ValueStep ==
    ASSUME PollInv, C!RegistryChanges
    PROVE  PollInv'
<1>1. PICK n \in Names, d \in Data \cup {NoData} :
        registry' = [registry EXCEPT ![n] = d] /\ told' = told \ {C!Item(n)} /\ twice' = twice \ {C!Item(n)}
  BY DEF C!RegistryChanges
<1>2. UNCHANGED <<connections, processes, valueCache, connCache, processCache, inventory, gone, shown>>
  BY DEF C!RegistryChanges, C!caches
<1>3. registry' \in [Names -> Data \cup {NoData}] /\ \A m \in Names \ {n} : registry'[m] = registry[m]
  BY <1>1 DEF PollInv, C!TypeOK
<1>4. Remembered \ {C!Item(n)} \subseteq Remembered'
  BY <1>2, <1>3 DEF Remembered, C!Item, C!Holding
<1> QED
  BY <1>1, <1>2, <1>3, <1>4 DEF PollInv, C!TypeOK

\* The invariant is inductive.
LEMMA PollStep ==
    ASSUME PollInv, [C!Next]_(C!vars)
    PROVE  PollInv'
<1>1. CASE C!collectConnections
  BY <1>1, ConnectionsStep
<1>2. CASE C!checkForChanges
  BY <1>2, RegistryStep
<1>3. CASE C!RegistryChanges
  BY <1>3, ValueStep
<1>4. ASSUME NEW g \in C!Inventories, C!ReportProcesses(g) PROVE PollInv'
  <2>1. inventory[g].seen \subseteq Processes /\ C!Sends(inventory[g].seen \ processCache)
    BY <1>4 DEF C!ReportProcesses, PollInv
  <2>2. UNCHANGED <<registry, connections, processes, valueCache, connCache, gone>> /\ Remembered' = Remembered
    BY <1>4 DEF C!ReportProcesses, C!host, Remembered, C!Item, C!Holding
  <2>3. processCache' = inventory[g].seen /\ shown' \subseteq processes
        /\ inventory' \in [C!Inventories -> [at : {"idle", "returned"}] \cup [at : {"answered"}, seen : SUBSET Processes]]
    BY <1>4 DEF C!ReportProcesses, PollInv, C!TypeOK, C!NoQuery
  <2> QED
    BY <2>1, <2>2, <2>3, SendsStep DEF PollInv, C!TypeOK
<1>5. CASE C!ConnectionChanges
  <2>1. connections' \subseteq Connections
    BY <1>5 DEF C!ConnectionChanges, PollInv, C!TypeOK
  <2>2. /\ told' = told \ (connections \ connections') /\ twice' = twice \ (connections \ connections')
        /\ UNCHANGED <<registry, processes, valueCache, connCache, processCache, inventory, gone, shown>>
    BY <1>5 DEF C!ConnectionChanges, C!caches
  <2>3. Remembered' = Remembered
    BY <2>2 DEF Remembered, C!Item, C!Holding
  <2> QED
    BY <2>1, <2>2, <2>3 DEF PollInv, C!TypeOK
<1>6. CASE C!ProcessChanges
  <2>1. processes' \subseteq Processes
    BY <1>6 DEF C!ProcessChanges, PollInv, C!TypeOK
  <2>2. /\ told' = told \ (processes \ processes') /\ twice' = twice \ (processes \ processes')
        /\ shown' = shown \cap processes'
        /\ UNCHANGED <<registry, connections, valueCache, connCache, processCache, inventory, gone>>
    BY <1>6 DEF C!ProcessChanges, C!caches
  <2>3. Remembered' = Remembered
    BY <2>2 DEF Remembered, C!Item, C!Holding
  <2> QED
    BY <2>1, <2>2, <2>3 DEF PollInv, C!TypeOK
<1>7. CASE C!collectProcessEvents
  <2>1. Remembered' = Remembered
    BY <1>7 DEF C!collectProcessEvents, C!host, C!caches, Remembered, C!Item, C!Holding
  <2> QED
    BY <1>7, <2>1 DEF PollInv, C!TypeOK, C!collectProcessEvents, C!host, C!caches
<1>8. ASSUME NEW g \in C!Inventories, C!QueryProcesses(g) PROVE PollInv'
  <2>1. Remembered' = Remembered
    BY <1>8 DEF C!QueryProcesses, C!host, C!caches, Remembered, C!Item, C!Holding
  <2> QED
    BY <1>8, <2>1 DEF PollInv, C!TypeOK, C!QueryProcesses, C!host, C!caches
<1>9. ASSUME NEW k \in C!Collectors, C!CollectorEnds(k) PROVE PollInv'
  <2>1. Remembered' = Remembered
    BY <1>9 DEF C!CollectorEnds, C!host, C!caches, Remembered, C!Item, C!Holding
  <2> QED
    BY <1>9, <2>1 DEF PollInv, C!TypeOK, C!CollectorEnds, C!host, C!caches
<1>10. CASE UNCHANGED (C!vars)
  <2>1. Remembered' = Remembered
    BY <1>10 DEF C!vars, C!host, C!caches, Remembered, C!Item, C!Holding
  <2> QED
    BY <1>10, <2>1 DEF PollInv, C!TypeOK, C!vars, C!host, C!caches
<1> QED
  BY <1>1, <1>2, <1>3, <1>4, <1>5, <1>6, <1>7, <1>8, <1>9, <1>10 DEF C!Next
-----------------------------------------------------------------------------
(* The commands.                                                             *)

\* The words mapCommandType takes.
Words ==
    {"kill_process", "terminate_process", "collect_logs", "collect_forensics", "isolate",
     "isolate_network", "unisolate", "unisolate_network", "restore_network", "restart_agent",
     "restart_service", "restart", "restart_machine", "shutdown", "shutdown_machine",
     "update_agent", "update_config", "update_policy", "adjust_rate", "run_cmd"}

\* The type under which the agent executes what a REST type asks for.
Handler(t) == X!mapProtoCommandType(X!TypeName(X!mapCommandType(t)))

\* A type the agent knows is the one that was asked for, and no other asks for one.
AsMeant(asked, type) ==
    IF type \in X!Known THEN type = X!Meaning(asked)
    ELSE X!Meaning(asked) \in {"QUARANTINE_FILE", "nothing"}

\* The three names of a type agree, whatever word the request uses.
LEMMA NamesAgree ==
    ASSUME NEW t
    PROVE  AsMeant(t, Handler(t))
<1>1. CASE t \in {"kill_process", "terminate_process"}
  <2>1. X!mapCommandType(t) = 7 /\ X!Meaning(t) = "TERMINATE_PROCESS"
    BY <1>1 DEF X!mapCommandType, X!Meaning
  <2>2. X!TypeName(7) = "COMMAND_TYPE_TERMINATE_PROCESS"
    BY DEF X!TypeName
  <2> QED
    BY <2>1, <2>2 DEF Handler, X!mapProtoCommandType, AsMeant, X!Known
<1>2. CASE t \in {"collect_logs", "collect_forensics"}
  <2>1. X!mapCommandType(t) = 2 /\ X!Meaning(t) = "COLLECT_FORENSICS"
    BY <1>2 DEF X!mapCommandType, X!Meaning
  <2>2. X!TypeName(2) = "COMMAND_TYPE_COLLECT_FORENSICS"
    BY DEF X!TypeName
  <2> QED
    BY <2>1, <2>2 DEF Handler, X!mapProtoCommandType, AsMeant, X!Known
<1>3. CASE t \in {"isolate", "isolate_network"}
  <2>1. X!mapCommandType(t) = 3 /\ X!Meaning(t) = "ISOLATE_NETWORK"
    BY <1>3 DEF X!mapCommandType, X!Meaning
  <2>2. X!TypeName(3) = "COMMAND_TYPE_ISOLATE"
    BY DEF X!TypeName
  <2> QED
    BY <2>1, <2>2 DEF Handler, X!mapProtoCommandType, AsMeant, X!Known
<1>4. CASE t \in {"unisolate", "unisolate_network", "restore_network"}
  <2>1. X!mapCommandType(t) = 4 /\ X!Meaning(t) = "UNISOLATE_NETWORK"
    BY <1>4 DEF X!mapCommandType, X!Meaning
  <2>2. X!TypeName(4) = "COMMAND_TYPE_UNISOLATE"
    BY DEF X!TypeName
  <2> QED
    BY <2>1, <2>2 DEF Handler, X!mapProtoCommandType, AsMeant, X!Known
<1>5. CASE t \in {"restart_agent", "restart_service"}
  <2>1. X!mapCommandType(t) = 5 /\ X!Meaning(t) = "RESTART_SERVICE"
    BY <1>5 DEF X!mapCommandType, X!Meaning
  <2>2. X!TypeName(5) = "COMMAND_TYPE_RESTART_SERVICE"
    BY DEF X!TypeName
  <2> QED
    BY <2>1, <2>2 DEF Handler, X!mapProtoCommandType, AsMeant, X!Known
<1>6. CASE t \in {"restart", "restart_machine"}
  <2>1. X!mapCommandType(t) = 10 /\ X!Meaning(t) = "RESTART"
    BY <1>6 DEF X!mapCommandType, X!Meaning
  <2>2. X!TypeName(10) = "COMMAND_TYPE_RESTART"
    BY DEF X!TypeName
  <2> QED
    BY <2>1, <2>2 DEF Handler, X!mapProtoCommandType, AsMeant, X!Known
<1>7. CASE t \in {"shutdown", "shutdown_machine"}
  <2>1. X!mapCommandType(t) = 11 /\ X!Meaning(t) = "SHUTDOWN"
    BY <1>7 DEF X!mapCommandType, X!Meaning
  <2>2. X!TypeName(11) = "COMMAND_TYPE_SHUTDOWN"
    BY DEF X!TypeName
  <2> QED
    BY <2>1, <2>2 DEF Handler, X!mapProtoCommandType, AsMeant, X!Known
<1>8. CASE t \in {"update_agent"}
  <2>1. X!mapCommandType(t) = 6 /\ X!Meaning(t) = "UPDATE_AGENT"
    BY <1>8 DEF X!mapCommandType, X!Meaning
  <2>2. X!TypeName(6) = "COMMAND_TYPE_UPDATE_AGENT"
    BY DEF X!TypeName
  <2> QED
    BY <2>1, <2>2 DEF Handler, X!mapProtoCommandType, AsMeant, X!Known
<1>9. CASE t \in {"update_config", "update_policy"}
  <2>1. X!mapCommandType(t) = 1 /\ X!Meaning(t) = "UPDATE_CONFIG"
    BY <1>9 DEF X!mapCommandType, X!Meaning
  <2>2. X!TypeName(1) = "COMMAND_TYPE_UPDATE_CONFIG"
    BY DEF X!TypeName
  <2> QED
    BY <2>1, <2>2 DEF Handler, X!mapProtoCommandType, AsMeant, X!Known
<1>10. CASE t \in {"adjust_rate"}
  <2>1. X!mapCommandType(t) = 8 /\ X!Meaning(t) = "ADJUST_RATE"
    BY <1>10 DEF X!mapCommandType, X!Meaning
  <2>2. X!TypeName(8) = "COMMAND_TYPE_ADJUST_RATE"
    BY DEF X!TypeName
  <2> QED
    BY <2>1, <2>2 DEF Handler, X!mapProtoCommandType, AsMeant, X!Known
<1>11. CASE t \in {"run_cmd"}
  <2>1. X!mapCommandType(t) = 9 /\ X!Meaning(t) = "RUN_CMD"
    BY <1>11 DEF X!mapCommandType, X!Meaning
  <2>2. X!TypeName(9) = "9"
    BY DEF X!TypeName
  <2> QED
    BY <2>1, <2>2 DEF Handler, X!mapProtoCommandType, AsMeant, X!Known
<1>12. CASE t \notin Words
  <2>1. X!mapCommandType(t) = 0 /\ X!Meaning(t) \in {"QUARANTINE_FILE", "nothing"}
    BY <1>12 DEF X!mapCommandType, X!Meaning, Words
  <2>2. X!TypeName(0) = "COMMAND_TYPE_UNSPECIFIED"
    BY DEF X!TypeName
  <2> QED
    BY <2>1, <2>2 DEF Handler, X!mapProtoCommandType, AsMeant, X!Known
<1> QED
  BY <1>1, <1>2, <1>3, <1>4, <1>5, <1>6, <1>7, <1>8, <1>9, <1>10, <1>11, <1>12 DEF Words

\* The commands the agent can be sent.
Entries == {[asked |-> r.type, arg |-> r.arg, type |-> Handler(r.type)] : r \in Requests}

\* What the loop can be doing.
Doing ==
    [at : {"top"}] \cup [at : {"running", "waits"}, cmd : Entries]
        \cup [at : {"report"}, cmd : Entries, status : {"SUCCESS", "FAILED"}]

\* A result that says SUCCESS is of a command that is done, or of a handler that does nothing
\* yet; a process that is over, or a host that is down, works on nothing, and a goroutine that
\* waits to start the service has stopped it.
JobInv ==
    /\ X!TypeOK
    /\ inbox \in Seq(Entries) /\ job \in Doing
    /\ job.at = "waits" => job.cmd.type = "RUN_CMD"
    /\ job.at = "report" /\ job.status = "SUCCESS" => job.cmd.type \in X!Stubs \/ X!Done(job.cmd)
    /\ service = "stopped" => job.at = "top" /\ \A g \in X!Goroutines : restarts[g] = "none"
    /\ \A g \in X!Goroutines : restarts[g] = "stopped" => service # "running"
    /\ power \in {"boots", "down"} => service = "stopped"

\* The first states have the invariant.
LEMMA JobInit == X!Init => JobInv
BY HostAssumption DEF X!Init, JobInv, X!TypeOK, Doing, X!Idle

\* A result keeps the command, and leaves the loop at its report.
LEMMA ResultStep ==
    ASSUME JobInv, job.at \in {"running", "waits"}, NEW s \in {"SUCCESS", "FAILED"}, X!Answers(s)
    PROVE  /\ job' \in Doing /\ job'.at = "report" /\ job'.cmd = job.cmd /\ job'.status = s
           /\ inbox' = inbox /\ got' = got /\ job.cmd \in Entries
BY DEF JobInv, Doing, X!Answers, X!Result

\* A handler answers SUCCESS with the host as the command asks for.
LEMMA HandlersStep ==
    ASSUME JobInv, X!HandlerStep
    PROVE  JobInv'
<1> USE DEF X!host, X!outside
<1>0. job.at = "running" /\ service # "stopped"
  BY DEF X!HandlerStep, X!terminateProcess, X!isolateNetwork, X!unisolateNetwork, X!Stub, X!restartService,
         X!Shutdown, X!Unknown, X!runCommand, X!Runs, JobInv
<1>1. CASE X!terminateProcess
  <2>1. job.cmd.type = "TERMINATE_PROCESS" /\ tasks' \subseteq tasks
        /\ UNCHANGED <<up, running, service, restarts, power>>
    BY <1>1 DEF X!terminateProcess, X!Runs
  <2>2. PICK s \in {"SUCCESS", "FAILED"} : X!Answers(s) /\ (s = "SUCCESS" => job.cmd.arg \notin tasks')
    BY <1>1 DEF X!terminateProcess
  <2> QED
    BY <1>0, <2>1, <2>2, ResultStep DEF JobInv, X!TypeOK, X!Done
<1>2. CASE X!isolateNetwork
  <2>1. job.cmd.type = "ISOLATE_NETWORK" /\ up' \subseteq up
        /\ UNCHANGED <<tasks, running, service, restarts, power>>
    BY <1>2 DEF X!isolateNetwork, X!Runs
  <2>2. PICK s \in {"SUCCESS", "FAILED"} : X!Answers(s) /\ (s = "SUCCESS" => up' = {})
    BY <1>2 DEF X!isolateNetwork
  <2> QED
    BY <1>0, <2>1, <2>2, ResultStep DEF JobInv, X!TypeOK, X!Done
<1>3. CASE X!unisolateNetwork
  <2>1. job.cmd.type = "UNISOLATE_NETWORK" /\ up' \subseteq Adapters
        /\ UNCHANGED <<tasks, running, service, restarts, power>>
    BY <1>3 DEF X!unisolateNetwork, X!Runs, JobInv, X!TypeOK
  <2>2. PICK s \in {"SUCCESS", "FAILED"} : X!Answers(s) /\ (s = "SUCCESS" => up' = Adapters)
    BY <1>3 DEF X!unisolateNetwork
  <2> QED
    BY <1>0, <2>1, <2>2, ResultStep DEF JobInv, X!TypeOK, X!Done
<1>4. CASE X!Stub
  <2>1. job.cmd.type \in X!Stubs
        /\ UNCHANGED <<tasks, up, running, service, restarts, power>>
    BY <1>4 DEF X!Stub
  <2>2. PICK s \in {"SUCCESS", "FAILED"} : X!Answers(s)
    BY <1>4 DEF X!Stub
  <2> QED
    BY <1>0, <2>1, <2>2, ResultStep DEF JobInv, X!TypeOK
<1>5. CASE X!restartService
  <2>1. job.cmd.type = "RESTART_SERVICE" /\ X!Answers("SUCCESS")
        /\ UNCHANGED <<tasks, up, running, service, power>>
    BY <1>5 DEF X!restartService, X!Runs
  <2>2. /\ restarts' \in [X!Goroutines -> {"none", "sleeps", "stopped"}]
        /\ \E g \in X!Goroutines : restarts'[g] = "sleeps"
        /\ \A g \in X!Goroutines : restarts'[g] \in {"sleeps", restarts[g]}
    BY <1>5 DEF X!restartService, JobInv, X!TypeOK
  <2> QED
    BY <1>0, <2>1, <2>2, ResultStep DEF JobInv, X!TypeOK, X!Done
<1>6. CASE X!Shutdown
  <2>1. job.cmd.type \in {"RESTART", "SHUTDOWN"} /\ power' \in {power, X!PowerAfter}
        /\ UNCHANGED <<tasks, up, running, service, restarts>>
    BY <1>6 DEF X!Shutdown, X!Runs
  <2>2. PICK s \in {"SUCCESS", "FAILED"} : X!Answers(s) /\ (s = "SUCCESS" => power' = X!PowerAfter)
    BY <1>6 DEF X!Shutdown
  <2> QED
    BY <1>0, <2>1, <2>2, ResultStep DEF JobInv, X!TypeOK, X!Done, X!PowerAfter
<1>7. CASE X!Unknown
  <2>1. X!Answers("FAILED") /\ UNCHANGED <<tasks, up, running, service, restarts, power>>
    BY <1>7 DEF X!Unknown
  <2> QED
    BY <1>0, <2>1, ResultStep DEF JobInv, X!TypeOK
<1>8. CASE X!runCommand
  <2>1. CASE X!Answers("FAILED") /\ UNCHANGED <<running, tasks, up, service, restarts, power>>
    BY <1>0, <2>1, ResultStep DEF JobInv, X!TypeOK
  <2>2. CASE /\ job' = [at |-> "waits", cmd |-> job.cmd] /\ running' \in {{"cmd"}, {"cmd", "child"}}
             /\ UNCHANGED <<inbox, got, tasks, up, service, restarts, power>>
    <3>1. job.cmd \in Entries /\ job.cmd.type = "RUN_CMD"
      BY <1>0, <1>8 DEF JobInv, Doing, X!runCommand, X!Runs
    <3>2. job' \in Doing /\ job'.at = "waits" /\ job'.cmd.type = "RUN_CMD"
      BY <2>2, <3>1 DEF Doing
    <3> QED
      BY <1>0, <2>2, <3>2 DEF JobInv, X!TypeOK
  <2> QED
    BY <1>8, <2>1, <2>2 DEF X!runCommand
<1> QED
  BY <1>1, <1>2, <1>3, <1>4, <1>5, <1>6, <1>7, <1>8 DEF X!HandlerStep

\* The invariant is inductive.
LEMMA JobStep ==
    ASSUME JobInv, [X!Next]_(X!vars)
    PROVE  JobInv'
<1> USE DEF X!host, X!outside
<1>1. ASSUME NEW r \in Requests, X!RecvCommand(r) PROVE JobInv'
  <2>1. [asked |-> r.type, arg |-> r.arg, type |-> Handler(r.type)] \in Entries
    BY DEF Entries
  <2>2. inbox' \in Seq(Entries)
    BY <1>1, <2>1 DEF X!RecvCommand, JobInv, Handler
  <2>3. got' \in 0 .. MaxRequests
    BY <1>1, HostAssumption DEF X!RecvCommand, JobInv, X!TypeOK
  <2> QED
    BY <1>1, <2>2, <2>3 DEF X!RecvCommand, JobInv, X!TypeOK, X!Done
<1>2. CASE X!TakeCommand
  <2>1. Head(inbox) \in Entries /\ Tail(inbox) \in Seq(Entries)
    BY <1>2 DEF X!TakeCommand, JobInv
  <2>2. job' \in Doing /\ job'.at = "running" /\ inbox' \in Seq(Entries)
    BY <1>2, <2>1 DEF X!TakeCommand, Doing
  <2> QED
    BY <1>2, <2>2 DEF X!TakeCommand, JobInv, X!TypeOK
<1>3. CASE X!HandlerStep
  BY <1>3, HandlersStep
<1>4. CASE X!CommandReturns
  <2>1. PICK s \in {"SUCCESS", "FAILED"} : X!Answers(s)
    BY <1>4 DEF X!CommandReturns
  <2>2. job.at = "waits" /\ job.cmd.type = "RUN_CMD" /\ running = {}
        /\ UNCHANGED <<tasks, up, running, service, restarts, power>>
    BY <1>4 DEF X!CommandReturns, JobInv
  <2> QED
    BY <2>1, <2>2, ResultStep DEF JobInv, X!TypeOK, X!Done
<1>5. CASE X!Report
  BY <1>5 DEF X!Report, JobInv, X!TypeOK, Doing, X!Idle
<1>6. CASE X!Timeout \/ \E p \in {"cmd", "child"} : X!ProgramEnds(p)
  BY <1>6 DEF X!Timeout, X!ProgramEnds, JobInv, X!TypeOK, X!Done
<1>7. ASSUME NEW g \in X!Goroutines, X!ScStop(g) \/ X!ScStart(g) PROVE JobInv'
  BY <1>7 DEF X!ScStop, X!ScStart, JobInv, X!TypeOK, X!Done
<1>8. CASE X!ServiceEnds \/ X!HostGoesDown
  <2>1. job' \in Doing /\ job'.at = "top" /\ inbox' \in Seq(Entries) /\ service' = "stopped"
    <3>1. inbox' = <<>> /\ job' = [at |-> "top"] /\ service' = "stopped"
      BY <1>8 DEF X!ServiceEnds, X!HostGoesDown, X!ProcessEnds, X!Idle
    <3> QED
      BY <3>1 DEF Doing
  <2>2. restarts' \in [X!Goroutines -> {"none", "sleeps", "stopped"}] /\ running' \subseteq running
        /\ power' \in {"on", "restart", "off", "boots", "down"} /\ UNCHANGED <<tasks, up, got>>
        /\ \A g \in X!Goroutines : restarts'[g] = "none"
    BY <1>8 DEF X!ServiceEnds, X!HostGoesDown, X!ProcessEnds, JobInv, X!TypeOK
  <2> QED
    BY <2>1, <2>2 DEF JobInv, X!TypeOK
<1>9. CASE X!HostBoots
  BY <1>9 DEF X!HostBoots, JobInv, X!TypeOK
<1>10. CASE UNCHANGED (X!vars)
  BY <1>10 DEF X!vars, JobInv, X!TypeOK, X!Done
<1> QED
  BY <1>1, <1>2, <1>3, <1>4, <1>5, <1>6, <1>7, <1>8, <1>9, <1>10 DEF X!Next, X!LoopStep

\* The invariant is what the agent promises of its commands.
LEMMA JobsAsAsked == JobInv => X!AskedIsDone
<1> SUFFICES ASSUME JobInv, job.at # "top" PROVE X!AskedIsDone
  BY DEF X!AskedIsDone
<1>1. job.cmd \in Entries
  BY DEF JobInv, Doing
<1>2. PICK r \in Requests : job.cmd = [asked |-> r.type, arg |-> r.arg, type |-> Handler(r.type)]
  BY <1>1 DEF Entries
<1>3. job.cmd.asked = r.type /\ job.cmd.type = Handler(r.type)
  BY <1>2
<1>4. AsMeant(job.cmd.asked, job.cmd.type)
  BY <1>3, NamesAgree
<1> QED
  BY <1>4 DEF AsMeant, JobInv, X!AskedIsDone
-----------------------------------------------------------------------------
(* The filter.                                                               *)

Fields == {"processes", "ips", "registry", "paths", "include", "ids", "hashes"}

\* The collectors inside ShouldFilter.
Inside == {c \in Judges : judging[c] # None}

\* Whoever is inside ShouldFilter keeps the lists as they were when it went in; no list names
\* what an event does not have; an event is counted before it can be counted as filtered.
FilterInv ==
    /\ judging \in [Judges -> Events \cup {None}] /\ DOMAIN since = Judges
    /\ writer = F!NoWriter \/ (writer.config \in Configs /\ writer \in [config : {writer.config}, left : SUBSET F!Lists])
    /\ \A c \in Inside : writer = F!NoWriter /\ since[c] = {lists}
    /\ DOMAIN lists = Fields /\ None \notin lists.ids /\ None \notin lists.processes
    /\ F!NothingSlipsThrough
    /\ filtered \in Nat /\ total \in 0 .. MaxEvents /\ filtered + Cardinality(Inside) <= total
    /\ stats.total \in Nat \cup {None} /\ stats.passed \in (0 .. Word - 1) \cup {None}

\* The collectors inside are a finite set, and one of them leaves it one smaller.
LEMMA InsideCounts ==
    ASSUME FilterInv
    PROVE  /\ IsFiniteSet(Inside) /\ Cardinality(Inside) \in Nat
           /\ \A c \in Judges : c \in Inside => Cardinality(Inside \ {c}) = Cardinality(Inside) - 1
           /\ \A c \in Judges : c \notin Inside => Cardinality(Inside \cup {c}) = Cardinality(Inside) + 1
<1>1. IsFiniteSet(Inside) /\ Cardinality(Inside) \in Nat
  BY HostAssumption, FS_Subset, FS_CardinalityType DEF Inside
<1> QED
  BY <1>1, FS_AddElement, FS_RemoveElement

\* The counters have their types.
LEMMA FilterTypes == FilterInv => F!TypeOK
<1> SUFFICES ASSUME FilterInv PROVE F!TypeOK
  OBVIOUS
<1>1. filtered \in 0 .. MaxEvents
  BY InsideCounts, HostAssumption DEF FilterInv
<1>2. writer.left \subseteq F!Lists
  BY DEF FilterInv, F!NoWriter
<1> QED
  BY <1>1, <1>2 DEF FilterInv, F!TypeOK

\* The first states have the invariant.
LEMMA FilterInit == F!Init => FilterInv
<1> SUFFICES ASSUME F!Init PROVE FilterInv
  OBVIOUS
<1>1. Inside = {} /\ Cardinality(Inside) = 0
  BY FS_EmptySet DEF F!Init, Inside
<1>2. DOMAIN lists = Fields /\ None \notin lists.ids /\ None \notin lists.processes
  BY HostAssumption DEF F!Init, Fields
<1> QED
  BY <1>1, <1>2, HostAssumption DEF F!Init, FilterInv, F!NoStats, F!NothingSlipsThrough

\* An event goes in and is counted.
LEMMA EnterStep ==
    ASSUME FilterInv, NEW c \in Judges, NEW e \in Events, F!Enter(c, e)
    PROVE  FilterInv'
<1>1. Inside' = Inside \cup {c} /\ c \notin Inside
  BY HostAssumption DEF F!Enter, FilterInv, Inside
<1>2. Cardinality(Inside') = Cardinality(Inside) + 1 /\ Cardinality(Inside) \in Nat
  BY <1>1, InsideCounts
<1>3. total' = total + 1 /\ total < MaxEvents /\ UNCHANGED <<lists, writer, filtered, stats, let>>
  BY DEF F!Enter
<1>4. total' \in 0 .. MaxEvents /\ filtered' + Cardinality(Inside') <= total' /\ filtered' \in Nat
  BY <1>2, <1>3, HostAssumption DEF FilterInv
<1>5. judging' \in [Judges -> Events \cup {None}] /\ DOMAIN since' = Judges
  BY DEF F!Enter, FilterInv
<1>6. \A d \in Inside' : writer' = F!NoWriter /\ since'[d] = {lists'}
  BY <1>1, <1>3 DEF F!Enter, FilterInv, Inside
<1>7. F!NothingSlipsThrough'
  BY <1>3 DEF FilterInv, F!NothingSlipsThrough
<1> QED
  BY <1>3, <1>4, <1>5, <1>6, <1>7 DEF FilterInv

\* An event comes out: filtered, or past the lists it met.
LEMMA JudgeStep ==
    ASSUME FilterInv, NEW c \in Judges, F!ShouldFilter(c)
    PROVE  FilterInv'
<1> DEFINE e == judging[c]
<1>1. c \in Inside /\ e # None /\ since[c] = {lists} /\ UNCHANGED <<lists, writer, total, stats>>
  BY DEF F!ShouldFilter, FilterInv, Inside
<1>2. Inside' = Inside \ {c}
  BY DEF F!ShouldFilter, FilterInv, Inside
<1>3. Cardinality(Inside') = Cardinality(Inside) - 1 /\ Cardinality(Inside) \in Nat
  BY <1>1, <1>2, InsideCounts
<1>4. filtered' \in {filtered, filtered + 1}
  BY DEF F!ShouldFilter
<1>5. filtered' \in Nat /\ filtered' + Cardinality(Inside') <= total'
  BY <1>1, <1>3, <1>4, HostAssumption DEF FilterInv
<1>6. judging' \in [Judges -> Events \cup {None}] /\ DOMAIN since' = Judges
      /\ \A d \in Inside' : since'[d] = since[d]
  BY <1>2 DEF F!ShouldFilter, FilterInv, Inside
<1>7. F!NothingSlipsThrough'
  <2>1. CASE F!Filtered(e)
    BY <2>1 DEF F!ShouldFilter, FilterInv, F!NothingSlipsThrough
  <2>2. CASE ~F!Filtered(e)
    <3>1. let' = let \cup {<<e, {lists}>>}
      BY <1>1, <2>2 DEF F!ShouldFilter
    <3>2. e.id \notin lists.ids
      BY <2>2 DEF F!Filtered, F!filterByEventID, FilterInv
    <3>3. e.type = "process" => e.name \notin lists.processes
      BY <2>2 DEF F!Filtered, F!filterProcess, FilterInv
    <3> QED
      BY <3>1, <3>2, <3>3 DEF FilterInv, F!NothingSlipsThrough
  <2> QED
    BY <2>1, <2>2
<1> HIDE DEF e
<1> QED
  BY <1>1, <1>2, <1>5, <1>6, <1>7 DEF FilterInv

\* A list is emptied or filled while nobody is inside.
LEMMA UpdateStep ==
    ASSUME FilterInv, NEW name \in F!Lists, F!UpdateExclusions(name)
    PROVE  FilterInv'
<1>1. writer # F!NoWriter /\ Inside = {}
  BY DEF F!UpdateExclusions, F!NoWriter, FilterInv
<1>2. writer.config \in Configs /\ writer \in [config : {writer.config}, left : SUBSET F!Lists]
  BY <1>1 DEF FilterInv
<1>3. DOMAIN writer.config = Fields /\ None \notin writer.config.ids /\ None \notin writer.config.processes
  BY <1>2, HostAssumption DEF Fields
<1>4. PICK v \in {{}, writer.config[name]} : lists' = [lists EXCEPT ![name] = v]
  BY DEF F!UpdateExclusions
<1>5. DOMAIN lists' = Fields /\ None \notin lists'.ids /\ None \notin lists'.processes
  BY <1>3, <1>4 DEF FilterInv, Fields, F!Lists
<1>6. \/ writer' = F!NoWriter
      \/ writer'.config \in Configs /\ writer' \in [config : {writer'.config}, left : SUBSET F!Lists]
  BY <1>2 DEF F!UpdateExclusions
<1>7. UNCHANGED <<judging, since, total, filtered, stats, let>> /\ Inside' = Inside
  BY DEF F!UpdateExclusions, Inside
<1>8. F!NothingSlipsThrough'
  BY <1>7 DEF FilterInv, F!NothingSlipsThrough
<1> QED
  BY <1>1, <1>5, <1>6, <1>7, <1>8 DEF FilterInv

\* The invariant is inductive.
LEMMA FilterStep ==
    ASSUME FilterInv, [F!Next]_(F!vars)
    PROVE  FilterInv'
<1>1. ASSUME NEW config \in Configs, F!UpdateBegins(config) PROVE FilterInv'
  <2>1. UNCHANGED <<lists, judging, since, total, filtered, stats, let>> /\ Inside' = Inside /\ Inside = {}
    BY <1>1 DEF F!UpdateBegins, Inside
  <2>2. writer'.config \in Configs /\ writer' \in [config : {writer'.config}, left : SUBSET F!Lists]
    BY <1>1 DEF F!UpdateBegins
  <2>3. F!NothingSlipsThrough'
    BY <2>1 DEF FilterInv, F!NothingSlipsThrough
  <2> QED
    BY <2>1, <2>2, <2>3 DEF FilterInv
<1>2. CASE F!LoadTotal \/ F!Stats
  <2>1. UNCHANGED <<lists, writer, judging, since, total, filtered, let>> /\ Inside' = Inside
    BY <1>2 DEF F!LoadTotal, F!Stats, Inside
  <2>2. stats'.total \in Nat \cup {None} /\ stats'.passed \in (0 .. Word - 1) \cup {None}
    <3>1. CASE F!LoadTotal
      BY <3>1 DEF F!LoadTotal, FilterInv
    <3>2. CASE F!Stats
      <4>1. stats.total \in Int /\ filtered \in Int /\ Word \in Nat \ {0}
        BY <3>2, HostAssumption DEF F!Stats, FilterInv
      <4>2. (stats.total - filtered) % Word \in 0 .. Word - 1
        BY <4>1
      <4> QED
        BY <3>2, <4>2 DEF F!Stats
    <3> QED
      BY <1>2, <3>1, <3>2
  <2>3. F!NothingSlipsThrough'
    BY <2>1 DEF FilterInv, F!NothingSlipsThrough
  <2> QED
    BY <2>1, <2>2, <2>3 DEF FilterInv
<1>3. CASE UNCHANGED (F!vars)
  BY <1>3 DEF F!vars, FilterInv, Inside, F!NothingSlipsThrough
<1> QED
  BY <1>1, <1>2, <1>3, EnterStep, JudgeStep, UpdateStep DEF F!Next
-----------------------------------------------------------------------------
(* The host.                                                                 *)

\* Every part keeps its invariant, whichever part moves.
HostInv == LinkInv /\ IdentityInv /\ PollInv /\ JobInv /\ FilterInv

\* The invariants hold at every time.
LEMMA HostInvariance == HostSpec => []HostInv
<1>1. HostInit => HostInv
  BY LinkInit, IdentityInit, PollInit, JobInit, FilterInit DEF HostInit, HostInv
<1>2. HostInv /\ [HostNext]_hostVars => HostInv'
  <2> SUFFICES ASSUME HostInv, [HostNext]_hostVars PROVE HostInv'
    OBVIOUS
  <2>1. /\ [Next]_vars /\ [X!Next]_(X!vars) /\ [C!Next]_(C!vars) /\ [F!Next]_(F!vars) /\ part' = part
        /\ [(S!ServiceNext /\ part = "service") \/ (S!WatchNext /\ part = "watcher")]_(S!vars)
    BY PartsMove
  <2> QED
    BY <2>1, LinkStep, IdentityStep, PollStep, JobStep, FilterStep DEF HostInv
<1> QED
  BY <1>1, <1>2, PTL DEF HostSpec

\* The agent never streams through two clients at once (RunStream, watchReEnrollSignal), runs
\* under the identity of its certificate while nothing has parted it from the settings
\* (EnsureEnrolled, Config.Save), and the state of every part has its type.
THEOREM AgentIsOne == HostSpec => []OneAgent
<1>1. LinkInv => OneStream
  BY DEF LinkInv, OneStream
<1>2. IdentityInv => S!RunsAsCertified
  BY DEF IdentityInv, Kept, S!RunsAsCertified
<1>3. HostInv => TypesHold
  BY IdentityTypes, FilterTypes DEF HostInv, TypesHold, LinkInv, IdentityInv, PollInv, JobInv
<1>4. HostInv => OneAgent
  BY <1>1, <1>2, <1>3 DEF HostInv, OneAgent
<1> QED
  BY <1>4, HostInvariance, PTL

\* A connection or a registry value that stays on the host is reported at most once
\* (collectConnections, checkForChanges), and no event that the configurations of its time
\* exclude by name or id passes ShouldFilter, however UpdateExclusions interleaves.
THEOREM ReportsAreAsConfigured == HostSpec => []ReportedAsConfigured
<1>1. HostInv => ReportedAsConfigured
  BY DEF HostInv, PollInv, FilterInv, ReportedAsConfigured, C!ReportedOnce
<1> QED
  BY <1>1, HostInvariance, PTL

\* Whatever word a REST request uses, the command reaches the handler it asks for or none, and
\* a result that says SUCCESS leaves the host as the command asks (mapCommandType,
\* mapProtoCommandType, Handler.Execute).
THEOREM CommandsAreDone == HostSpec => []CommandsDoAsTold
<1>1. HostInv => CommandsDoAsTold
  BY JobsAsAsked DEF HostInv, CommandsDoAsTold
<1> QED
  BY <1>1, HostInvariance, PTL
=============================================================================
