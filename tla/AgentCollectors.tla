--------------------------- MODULE AgentCollectors --------------------------
(***************************************************************************)
(* The polling collectors of the Windows agent and their filter.  Each     *)
(* collector compares what the host shows with its cache, sends an event   *)
(* for what is new and replaces the cache.  An event is dropped when the   *)
(* channel to the batcher is full; the batcher and the other collectors    *)
(* move between any two sends, so each send may succeed or fail.           *)
(*                                                                         *)
(* A registry item is a value name with its data, a network item a record  *)
(* of two addresses, a process item a process id.  told is history: what   *)
(* was reported and has stayed on the host unchanged since.  The snapshots *)
(* of the ETW collector repeat every process on purpose and are kept apart *)
(* from it.                                                                *)
(***************************************************************************)
EXTENDS Naturals

CONSTANTS
    Names, Data, NoData,    \* registry values and what they can hold
    Connections,            \* records of the two addresses of a connection
    ExcludeIPs,             \* cfg.Filtering
    ExcludeRegistry,
    Processes,              \* process ids above 4
    ExcludeProcesses        \* those whose names cfg.Filtering excludes

Loopback == "127.0.0.1"
Unspecified == "0.0.0.0"
Collectors == {"registry", "network", "wmi", "etw"}
Inventories == {"first", "loop"}    \* the two goroutines of WMICollector.Start

VARIABLES
    registry,      \* the host: what each value holds
    connections,   \* the host: established and listening
    processes,     \* the host
    valueCache, connCache, processCache,
    inventory,     \* per goroutine: the output of the query it works on
    shown,         \* history: processes some event has shown
    told, twice,   \* history: reported and unchanged since; reported again
    gone           \* collectors that are disabled or have returned

host == <<registry, connections, processes>>
caches == <<valueCache, connCache, processCache>>
vars == <<host, caches, inventory, shown, told, twice, gone>>

NoQuery == [at |-> "idle"]
Item(name) == [value |-> name, data |-> registry[name]]
Holding == {n \in Names : registry[n] # NoData}

TypeOK ==
    /\ registry \in [Names -> Data \cup {NoData}]
    /\ valueCache \in [Names -> Data \cup {NoData}]
    /\ connections \subseteq Connections /\ connCache \subseteq Connections
    /\ processes \subseteq Processes /\ processCache \subseteq Processes
    /\ gone \subseteq Collectors /\ shown \subseteq processes
    /\ twice \subseteq told

(* startPlatformCollectors starts what the configuration enables;
   RegistryCollector.Start reads the baseline, or cannot open the keys. *)
Init ==
    /\ registry \in [Names -> Data \cup {NoData}]
    /\ connections = {} /\ processes \in SUBSET Processes
    /\ valueCache \in {registry, [n \in Names |-> NoData]}
    /\ connCache = {} /\ processCache = {}
    /\ inventory = [g \in Inventories |-> NoQuery]
    /\ shown = {} /\ told = {} /\ twice = {} /\ gone \in SUBSET Collectors

-----------------------------------------------------------------------------
(* Filter.ShouldFilter for the two kinds of event that reach it.  The      *)
(* agent configures neither event ids nor trusted hashes.                  *)

isExcludedIP(ip) == ip \in ExcludeIPs

filterNetwork(evt) ==
    \/ isExcludedIP(evt.source_ip) \/ isExcludedIP(evt.destination_ip)
    \/ evt.source_ip = Loopback

filterRegistry(evt) == evt.value \in ExcludeRegistry

(* The events that find room in the channel. *)
Sends(items) ==
    \E sent \in SUBSET items :
        /\ told' = told \cup sent
        /\ twice' = twice \cup (sent \cap told)

-----------------------------------------------------------------------------
(* Faulty variant: the cache keeps the connections reported this time only. *)
CacheAfterReported(new) == new

(* connCache is replaced by what the poll has seen, filtered or not. *)
CacheAfter(new) == connections

collectConnections ==
    /\ "network" \notin gone
    /\ LET new == {c \in connections \ connCache : c.destination_ip # Unspecified}
       IN  /\ Sends({c \in new : ~filterNetwork(c)})
           /\ connCache' = CacheAfter(new)
    /\ UNCHANGED <<host, valueCache, processCache, inventory, gone, shown>>

(* One checkForChanges: a value that is new or has changed is reported and
   remembered; one that has disappeared stays in the cache. *)
checkForChanges ==
    /\ "registry" \notin gone
    /\ LET changed == {n \in Holding : valueCache[n] # registry[n]}
       IN  /\ Sends({i \in {Item(n) : n \in changed} : ~filterRegistry(i)})
           /\ valueCache' = [n \in Names |-> IF n \in Holding THEN registry[n] ELSE valueCache[n]]
    /\ UNCHANGED <<host, connCache, processCache, inventory, gone, shown>>

(* collectProcesses, up to the answer of the query. *)
QueryProcesses(g) ==
    /\ "wmi" \notin gone /\ inventory[g] = NoQuery
    /\ inventory' = [inventory EXCEPT ![g] = [at |-> "answered", seen |-> processes]]
    /\ UNCHANGED <<host, caches, told, twice, gone, shown>>

(* collectProcesses, from the answer on; WMI events pass no filter.  The
   first inventory is collected once. *)
ReportProcesses(g) ==
    /\ inventory[g].at = "answered"
    /\ Sends(inventory[g].seen \ processCache)
    /\ shown' = shown \cup (told' \cap processes)
    /\ processCache' = inventory[g].seen
    /\ inventory' = [inventory EXCEPT ![g] = IF g = "first" THEN [at |-> "returned"] ELSE NoQuery]
    /\ UNCHANGED <<host, valueCache, connCache, gone>>

(* One collectProcessEvents of the ETW collector: an event for every process
   of the snapshot, which no filter sees. *)
collectProcessEvents ==
    /\ "etw" \notin gone
    /\ \E sent \in SUBSET processes : shown' = shown \cup sent
    /\ UNCHANGED <<host, caches, inventory, told, twice, gone>>

(* The context is cancelled; a goroutine returns at its select. *)
CollectorEnds(k) ==
    /\ k \notin gone /\ (k = "wmi" => inventory["loop"] = NoQuery)
    /\ gone' = gone \cup {k}
    /\ UNCHANGED <<host, caches, inventory, told, twice, shown>>

-----------------------------------------------------------------------------
(* The host.                                                               *)

ConnectionChanges ==
    /\ \E c \in Connections : connections' \in {connections \ {c}, connections \cup {c}}
    /\ told' = told \ (connections \ connections')
    /\ twice' = twice \ (connections \ connections')
    /\ UNCHANGED <<registry, processes, caches, inventory, gone, shown>>

RegistryChanges ==
    /\ \E n \in Names, d \in Data \cup {NoData} :
           /\ registry' = [registry EXCEPT ![n] = d] /\ registry[n] # d
           /\ told' = told \ {Item(n)} /\ twice' = twice \ {Item(n)}
    /\ UNCHANGED <<connections, processes, caches, inventory, gone, shown>>

ProcessChanges ==
    /\ \E p \in Processes : processes' \in {processes \ {p}, processes \cup {p}}
    /\ told' = told \ (processes \ processes')
    /\ shown' = shown \cap processes'
    /\ twice' = twice \ (processes \ processes')
    /\ UNCHANGED <<registry, connections, caches, inventory, gone>>

Next ==
    \/ collectConnections \/ checkForChanges \/ collectProcessEvents
    \/ \E g \in Inventories : QueryProcesses(g) \/ ReportProcesses(g)
    \/ \E k \in Collectors : CollectorEnds(k)
    \/ ConnectionChanges \/ RegistryChanges \/ ProcessChanges

Spec == Init /\ [][Next]_vars

-----------------------------------------------------------------------------
(***************************************************************************)
(* A connection, and what a registry value holds, is reported at most once *)
(* while it stays on the host: through polls that find it filtered or the  *)
(* channel full, and through other connections that come and go.           *)
(***************************************************************************)
ReportedOnce == twice \subseteq Processes

(***************************************************************************)
(* The same of processes.  It does not hold: the first inventory runs      *)
(* beside the loop, and the one with the older answer may be the last to   *)
(* replace processCache.                                                   *)
(***************************************************************************)
ProcessReportedOnce == twice \cap Processes = {}

(***************************************************************************)
(* Not so: "Global telemetry filter from config (ExcludeProcesses,"        *)
(* (agent_windows.go:24).  The two collectors of processes are not given   *)
(* the filter, and excluded processes are reported.                        *)
(***************************************************************************)
ExcludedIsSilent == shown \cap ExcludeProcesses = {}
=============================================================================
