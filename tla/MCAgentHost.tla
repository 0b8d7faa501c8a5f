----------------------------- MODULE MCAgentHost ----------------------------
(***************************************************************************)
(* The parts of the agent beside its event pipeline: the connection with   *)
(* its commands, what the commands do, the collectors, the filter, the     *)
(* process with its identity, and the watcher of the settings file.  They  *)
(* share no state the models tell apart, so a behaviour is one of one      *)
(* part: part names the part that moves, the others rest in an initial     *)
(* state.                                                                  *)
(***************************************************************************)
EXTENDS AgentConnection

CONSTANTS
    Requests, Adapters, Pids, Critical, Dangerous, MaxRequests,
    Names, Data, NoData, Connections, ExcludeIPs, ExcludeRegistry, Processes, ExcludeProcesses,
    Judges, Configs, Events, Word, MaxEvents,
    Missing, Empty, Bad, MaxIds, MaxRuns, MaxWrites, None

VARIABLES
    part,
    registry, connections, processes, valueCache, connCache, processCache, inventory, shown, told, twice, gone,
    inbox, job, tasks, up, running, service, restarts, power, got,
    lists, writer, judging, since, total, filtered, stats, let,
    file, cert, keyed, mem, pc, mode, status, installed, ids, runs, strayed, seen, hash, loaded, at, writes

(* A connection is no registry value; a list of the filter names what there
   is; what is in a settings file is told from what is not. *)
ASSUME HostAssumption ==
    /\ ChanCap \in Nat /\ MaxCommands \in Nat /\ MaxRequests \in Nat
    /\ Connections \cap [value : Names, data : Data \cup {NoData}] = {}
    /\ IsFiniteSet(Judges) /\ Word \in Nat \ {0} /\ MaxEvents \in Nat /\ None \notin Events /\ None \notin Nat
    /\ \A c \in Configs : /\ DOMAIN c = {"processes", "ips", "registry", "paths", "include", "ids", "hashes"}
                            /\ None \notin c.processes /\ None \notin c.ids
    /\ {Missing, Empty, Bad} \cap Nat = {} /\ MaxIds \in Nat /\ MaxRuns \in Nat /\ MaxWrites \in 0 .. MaxIds

-----------------------------------------------------------------------------
(* Two connections to one address, one of them from the loopback; two      *)
(* configurations of the filter and an event for each of its lists.        *)

Connection(from) == [source_ip |-> from, destination_ip |-> "10.0.0.9"]

Config(names, ids_) ==
    [processes |-> names, ips |-> {"10.0.0.9"}, registry |-> {"k"}, paths |-> {<<"tmp">>},
     include |-> {<<"tmp", "keep">>}, ids |-> ids_, hashes |-> {"h"}]

Event(type, id, name, path, ip, key, digest) ==
    [type |-> type, id |-> id, name |-> name, path |-> path, ip |-> ip, key |-> key, hash |-> digest]

MCConnections == {Connection("10.0.0.5"), Connection("127.0.0.1")}

MCConfigs == {Config({"p", "q"}, {1}), Config({"p"}, {1, 2})}

MCEvents == {
    Event("process", 3, "p", None, None, None, None),
    Event("process", 3, "r", <<"tmp", ".", "x">>, None, None, None),
    Event("file", 1, None, <<"tmp", "keep", "x">>, None, None, None),
    Event("network", 3, None, None, "10.0.0.8", None, None),
    Event("registry", 3, None, None, None, "k", "h")}

(* A request for each handler, the refused and the unknown ones. *)
Request(type_, arg_) == [type |-> type_, arg |-> arg_]

MCRequests == {
    Request("kill_process", 4), Request("kill_process", 7), Request("isolate_network", None),
    Request("restore_network", None), Request("collect_logs", None), Request("update_policy", "x"),
    Request("adjust_rate", None), Request("update_agent", "x"), Request("restart_agent", None),
    Request("restart_machine", None), Request("shutdown_machine", None), Request("run_cmd", "dir"),
    Request("run_cmd", "format "), Request("scan_file", "x")}

-----------------------------------------------------------------------------
X == INSTANCE AgentCommands WITH
         NoArg <- None, MaxCommands <- MaxRequests, loop <- job, processes <- tasks, sent <- got
C == INSTANCE AgentCollectors
F == INSTANCE AgentFilter WITH Collectors <- Judges
S == INSTANCE AgentService WITH Reverts <- {}

cVars == <<registry, connections, processes, valueCache, connCache, processCache, inventory, shown, told, twice, gone>>
aVars == <<inbox, job, tasks, up, running, service, restarts, power, got>>
fVars == <<lists, writer, judging, since, total, filtered, stats, let>>
sVars == <<file, cert, keyed, mem, pc, mode, status, installed, ids, runs, strayed, seen, hash, loaded, at, writes>>
hostVars == <<part, vars, aVars, cVars, fVars, sVars>>

(* The collectors of processes share nothing with the other two, and run
   without them. *)
HostInit ==
    /\ part \in {"connection", "commands", "collectors", "filter", "service", "watcher"}
    /\ Init /\ X!Init /\ C!Init /\ F!Init /\ S!Init
    /\ part # "connection" => accepts = "old" /\ conn[1] = "old"
    /\ part # "collectors" =>
         registry = [n \in Names |-> NoData] /\ processes = {} /\ gone = {}
    /\ part = "collectors" => {"wmi", "etw"} \subseteq gone \/ {"registry", "network"} \subseteq gone
    /\ part # "filter" => lists = CHOOSE c \in Configs : TRUE

Moves(name, A) == part = name /\ A /\ UNCHANGED part

HostNext ==
    \/ Moves("connection", Next) /\ UNCHANGED <<aVars, cVars, fVars, sVars>>
    \/ Moves("commands", X!Next) /\ UNCHANGED <<vars, cVars, fVars, sVars>>
    \/ Moves("collectors", C!Next) /\ UNCHANGED <<vars, aVars, fVars, sVars>>
    \/ Moves("filter", F!Next) /\ UNCHANGED <<vars, aVars, cVars, sVars>>
    \/ Moves("service", S!ServiceNext) /\ UNCHANGED <<vars, aVars, cVars, fVars>>
    \/ Moves("watcher", S!WatchNext) /\ UNCHANGED <<vars, aVars, cVars, fVars>>

InConnection == part = "connection"
InCommands == part = "commands"
InWatcher == part = "watcher"

(* The fairness of AgentConnection, of the command loop with its timer, and
   of the watcher, where they move. *)
HostFairness ==
    /\ \A c \in Clients : /\ WF_vars(InConnection /\ DialStep(c)) /\ WF_vars(InConnection /\ StreamStep(c))
                          /\ WF_vars(InConnection /\ BeatStep(c))
    /\ WF_vars(InConnection /\ LoopStep) /\ WF_vars(InConnection /\ EnrolStep)
    /\ WF_aVars(InCommands /\ X!LoopStep) /\ WF_aVars(InCommands /\ X!Timeout)
    /\ WF_sVars(InWatcher /\ S!ReadHash) /\ WF_sVars(InWatcher /\ S!LoadSettings)

HostSpec == HostInit /\ [][HostNext]_hostVars /\ HostFairness

(* AgentConnection: heartbeats and commands go on until the agent stops;
   AgentCommands: no command line keeps the loop, its children apart. *)
AgentKeepsWorking == HeartbeatGoesOn /\ CommandTaken /\ X!LoopReturns

(* AgentCommands: a command does what its REST type asks for, or fails. *)
CommandsDoAsTold == part = "commands" => X!AskedIsDone

(* AgentCollectors: what stays on the host is reported once; AgentFilter:
   what the settings exclude is let through by none of its updates. *)
ReportedAsConfigured ==
    /\ part = "collectors" => C!ReportedOnce
    /\ part = "filter" => F!NothingSlipsThrough

TypesHold ==
    /\ part = "connection" => TypeOK
    /\ part = "commands" => X!TypeOK
    /\ part = "collectors" => C!TypeOK
    /\ part = "filter" => F!TypeOK
    /\ part \in {"service", "watcher"} => S!TypeOK

(* AgentConnection: never two streams; AgentService: the agent runs under its
   certificate's identity; and every part's state has its type. *)
OneAgent ==
    /\ part = "connection" => OneStream
    /\ part = "service" => S!RunsAsCertified
    /\ TypesHold

(* AgentService: settings that stay in the file come into force. *)
SettingsComeIntoForce == part = "watcher" => S!SettingsComeIntoForce
=============================================================================
