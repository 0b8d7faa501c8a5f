---------------------------- MODULE AgentCommands ---------------------------
(***************************************************************************)
(* A command from the REST request to what it does to the host: the three  *)
(* names of its type (mapCommandType of the connection manager, the name   *)
(* of the protobuf value, mapProtoCommandType of the agent), the handler   *)
(* that Handler.Execute picks, the programs it runs, and what is left to   *)
(* do after the result has gone: the restart of the service and of the     *)
(* host.  How commands travel is in CommandStream and AgentConnection.     *)
(*                                                                         *)
(* ExecuteAgentCommand sets no expiry, so commandExpiresAt is the zero     *)
(* time and no command is refused as expired.  QUARANTINE_FILE is a type   *)
(* that no value of the protocol is mapped to.                             *)
(***************************************************************************)
EXTENDS Naturals, Sequences

CONSTANTS
    Requests,      \* [type, arg]: the type and the parameter of a REST request
    Adapters, Pids,
    Critical,      \* the processes terminateProcess spares
    Dangerous,     \* the command lines runCommand refuses
    NoArg,
    MaxCommands

VARIABLES
    inbox,         \* commandChan
    loop,          \* runCommandLoop: where it is, and with what
    processes, up, \* the host: running processes, adapters that are up
    running,       \* the programs that hold the output pipe of runCommand
    service,       \* the Windows service that holds this process
    restarts,      \* the goroutines of restartService
    power,
    sent

host == <<processes, up>>
outside == <<service, restarts, power>>
vars == <<inbox, loop, processes, up, running, service, restarts, power, sent>>

Idle == [at |-> "top"]
Goroutines == 1 .. MaxCommands

-----------------------------------------------------------------------------
(* The three names of a command's type.                                    *)

mapCommandType(type) ==
    CASE type \in {"kill_process", "terminate_process"} -> 7
      [] type \in {"collect_logs", "collect_forensics"} -> 2
      [] type \in {"isolate", "isolate_network"} -> 3
      [] type \in {"unisolate", "unisolate_network", "restore_network"} -> 4
      [] type \in {"restart_agent", "restart_service"} -> 5
      [] type \in {"restart", "restart_machine"} -> 10
      [] type \in {"shutdown", "shutdown_machine"} -> 11
      [] type = "update_agent" -> 6
      [] type \in {"update_config", "update_policy"} -> 1
      [] type = "adjust_rate" -> 8
      [] type = "run_cmd" -> 9
      [] OTHER -> 0

(* CommandType.String: a value without a name is printed as its number. *)
TypeName(n) ==
    IF n = 0 THEN "COMMAND_TYPE_UNSPECIFIED"
    ELSE <<"COMMAND_TYPE_UPDATE_CONFIG", "COMMAND_TYPE_COLLECT_FORENSICS", "COMMAND_TYPE_ISOLATE",
           "COMMAND_TYPE_UNISOLATE", "COMMAND_TYPE_RESTART_SERVICE", "COMMAND_TYPE_UPDATE_AGENT",
           "COMMAND_TYPE_TERMINATE_PROCESS", "COMMAND_TYPE_ADJUST_RATE", "9", "COMMAND_TYPE_RESTART",
           "COMMAND_TYPE_SHUTDOWN", "COMMAND_TYPE_UPDATE_FILTER_POLICY">>[n]

(* Faulty variant: the value 9 is expected under a name. *)
mapProtoCommandTypeNamed(name) ==
    CASE name = "COMMAND_TYPE_TERMINATE_PROCESS" -> "TERMINATE_PROCESS"
      [] name = "COMMAND_TYPE_COLLECT_FORENSICS" -> "COLLECT_FORENSICS"
      [] name = "COMMAND_TYPE_ISOLATE" -> "ISOLATE_NETWORK"
      [] name = "COMMAND_TYPE_UNISOLATE" -> "UNISOLATE_NETWORK"
      [] name = "COMMAND_TYPE_RESTART_SERVICE" -> "RESTART_SERVICE"
      [] name = "COMMAND_TYPE_UPDATE_AGENT" -> "UPDATE_AGENT"
      [] name = "COMMAND_TYPE_UPDATE_CONFIG" -> "UPDATE_CONFIG"
      [] name = "COMMAND_TYPE_ADJUST_RATE" -> "ADJUST_RATE"
      [] name = "COMMAND_TYPE_RESTART" -> "RESTART"
      [] name = "COMMAND_TYPE_SHUTDOWN" -> "SHUTDOWN"
      [] name = "COMMAND_TYPE_RUN_CMD" -> "RUN_CMD"
      [] OTHER -> name

mapProtoCommandType(name) ==
    CASE name = "COMMAND_TYPE_TERMINATE_PROCESS" -> "TERMINATE_PROCESS"
      [] name = "COMMAND_TYPE_COLLECT_FORENSICS" -> "COLLECT_FORENSICS"
      [] name = "COMMAND_TYPE_ISOLATE" -> "ISOLATE_NETWORK"
      [] name = "COMMAND_TYPE_UNISOLATE" -> "UNISOLATE_NETWORK"
      [] name = "COMMAND_TYPE_RESTART_SERVICE" -> "RESTART_SERVICE"
      [] name = "COMMAND_TYPE_UPDATE_AGENT" -> "UPDATE_AGENT"
      [] name = "COMMAND_TYPE_UPDATE_CONFIG" -> "UPDATE_CONFIG"
      [] name = "COMMAND_TYPE_ADJUST_RATE" -> "ADJUST_RATE"
      [] name \in {"COMMAND_TYPE_RESTART", "10"} -> "RESTART"
      [] name \in {"COMMAND_TYPE_SHUTDOWN", "11"} -> "SHUTDOWN"
      [] name = "9" -> "RUN_CMD"
      [] OTHER -> name

Known == {"TERMINATE_PROCESS", "QUARANTINE_FILE", "ISOLATE_NETWORK", "UNISOLATE_NETWORK", "COLLECT_FORENSICS",
          "UPDATE_CONFIG", "UPDATE_AGENT", "RESTART_SERVICE", "ADJUST_RATE", "RUN_CMD", "RESTART", "SHUTDOWN"}

-----------------------------------------------------------------------------
Init ==
    /\ inbox = <<>> /\ loop = Idle /\ running = {} /\ sent = 0
    /\ processes = Pids /\ up = Adapters
    /\ service = "running" /\ power = "on"
    /\ restarts = [g \in Goroutines |-> "none"]

(* A command reaches the agent, which a host without network cannot. *)
RecvCommand(r) ==
    /\ sent < MaxCommands /\ service # "stopped" /\ up # {}
    /\ inbox' = Append(inbox, [asked |-> r.type, arg |-> r.arg,
                               type |-> mapProtoCommandType(TypeName(mapCommandType(r.type)))])
    /\ sent' = sent + 1
    /\ UNCHANGED <<loop, host, running, outside>>

TakeCommand ==
    /\ loop.at = "top" /\ service # "stopped" /\ inbox # <<>>
    /\ loop' = [at |-> "running", cmd |-> Head(inbox)]
    /\ inbox' = Tail(inbox)
    /\ UNCHANGED <<host, running, outside, sent>>

Runs(type) == loop.at = "running" /\ loop.cmd.type = type

Result(status) == loop' = [at |-> "report", cmd |-> loop.cmd, status |-> status]

Answers(status) == Result(status) /\ UNCHANGED <<inbox, sent>>

(* Faulty variant: taskkill's error is not looked at. *)
terminateProcessUnchecked ==
    /\ Runs("TERMINATE_PROCESS")
    /\ \/ processes' = processes \ ({loop.cmd.arg} \ Critical) /\ Answers("SUCCESS")
       \/ Answers("SUCCESS") /\ UNCHANGED processes
    /\ UNCHANGED <<up, running, outside>>

terminateProcess ==
    /\ Runs("TERMINATE_PROCESS")
    /\ \/ /\ loop.cmd.arg \in processes \ Critical
          /\ processes' = processes \ {loop.cmd.arg} /\ Answers("SUCCESS")
       \/ Answers("FAILED") /\ UNCHANGED processes
    /\ UNCHANGED <<up, running, outside>>

(* Get-NetAdapter pipes the adapters one by one: on an error, those before
   the one that failed are done. *)
isolateNetwork ==
    /\ Runs("ISOLATE_NETWORK")
    /\ up' \in SUBSET up
    /\ IF up' = {} THEN Answers("SUCCESS") ELSE Answers("FAILED")
    /\ UNCHANGED <<processes, running, outside>>

unisolateNetwork ==
    /\ Runs("UNISOLATE_NETWORK")
    /\ \E enabled \in SUBSET (Adapters \ up) : up' = up \union enabled
    /\ IF up' = Adapters THEN Answers("SUCCESS") ELSE Answers("FAILED")
    /\ UNCHANGED <<processes, running, outside>>

(* collectForensics, updateConfig and updateAgent look at their parameters
   only; adjustRate takes any. *)
Stubs == {"COLLECT_FORENSICS", "UPDATE_CONFIG", "UPDATE_AGENT", "ADJUST_RATE"}

Stub ==
    /\ loop.at = "running" /\ loop.cmd.type \in Stubs
    /\ Answers(IF loop.cmd.arg = NoArg /\ loop.cmd.type # "ADJUST_RATE" THEN "FAILED" ELSE "SUCCESS")
    /\ UNCHANGED <<host, running, outside>>

restartService ==
    /\ Runs("RESTART_SERVICE")
    /\ \E g \in Goroutines : restarts[g] = "none" /\ restarts' = [restarts EXCEPT ![g] = "sleeps"]
    /\ Answers("SUCCESS")
    /\ UNCHANGED <<host, running, service, power>>

(* shutdown /r or /s: a second one is refused while the first is pending. *)
PowerAfter == IF loop.cmd.type = "RESTART" THEN "restart" ELSE "off"

Shutdown ==
    /\ Runs("RESTART") \/ Runs("SHUTDOWN")
    /\ \/ power = "on" /\ power' = PowerAfter /\ Answers("SUCCESS")
       \/ Answers("FAILED") /\ UNCHANGED power
    /\ UNCHANGED <<host, running, service, restarts>>

Unknown ==
    /\ loop.at = "running" /\ loop.cmd.type \notin Known
    /\ Answers("FAILED")
    /\ UNCHANGED <<host, running, outside>>

-----------------------------------------------------------------------------
(* runCommand: cmd /C, perhaps with a child that inherits its output.      *)

runCommand ==
    /\ Runs("RUN_CMD")
    /\ \/ loop.cmd.arg \in {NoArg} \union Dangerous /\ Answers("FAILED") /\ UNCHANGED running
       \/ /\ loop.cmd.arg \notin {NoArg} \union Dangerous
          /\ running' \in {{"cmd"}, {"cmd", "child"}}
          /\ loop' = [at |-> "waits", cmd |-> loop.cmd] /\ UNCHANGED <<inbox, sent>>
    /\ UNCHANGED <<host, outside>>

ProgramEnds(p) ==
    /\ p \in running
    /\ running' = running \ {p}
    /\ UNCHANGED <<inbox, loop, host, outside, sent>>

(* Faulty variant: the 30 seconds are those of a context nobody waits for. *)
TimeoutUnheard ==
    /\ loop.at = "waits" /\ "cmd" \in running
    /\ UNCHANGED vars

(* After 30 seconds the context kills cmd, and cmd alone. *)
Timeout ==
    /\ loop.at = "waits" /\ "cmd" \in running
    /\ running' = running \ {"cmd"}
    /\ UNCHANGED <<inbox, loop, host, outside, sent>>

(* CombinedOutput returns when cmd is over and nobody holds the pipe. *)
CommandReturns ==
    /\ loop.at = "waits" /\ running = {}
    /\ \E s \in {"SUCCESS", "FAILED"} : Answers(s)
    /\ UNCHANGED <<host, running, outside>>

(* SendCommandResult: the connection manager logs the result, an error is
   logged here, and the loop goes on with the next command. *)
Report ==
    /\ loop.at = "report"
    /\ loop' = Idle
    /\ UNCHANGED <<inbox, host, running, outside, sent>>

-----------------------------------------------------------------------------
(* What comes after the result.                                            *)

(* sc stop, five seconds later: Windows passes the request on. *)
ScStop(g) ==
    /\ restarts[g] = "sleeps" /\ service # "stopped"
    /\ restarts' = [restarts EXCEPT ![g] = "stopped"]
    /\ service' = "stopping"
    /\ UNCHANGED <<inbox, loop, host, running, power, sent>>

(* sc start, two seconds later: refused, as the service still stops. *)
ScStart(g) ==
    /\ restarts[g] = "stopped"
    /\ restarts' = [restarts EXCEPT ![g] = "none"]
    /\ UNCHANGED <<inbox, loop, host, running, service, power, sent>>

(* The end of the process is the end of its goroutines. *)
ProcessEnds ==
    /\ inbox' = <<>> /\ loop' = Idle
    /\ restarts' = [g \in Goroutines |-> "none"]

(* edrService.Execute returns once the agent has stopped, or after 30 s. *)
ServiceEnds ==
    /\ service = "stopping"
    /\ service' = "stopped"
    /\ ProcessEnds /\ running' = running \ {"cmd"}
    /\ UNCHANGED <<host, power, sent>>

(* The three seconds of shutdown are over. *)
HostGoesDown ==
    /\ power \in {"restart", "off"}
    /\ power' = IF power = "restart" THEN "boots" ELSE "down"
    /\ service' = "stopped" /\ ProcessEnds /\ running' = {}
    /\ UNCHANGED <<host, sent>>

(* The service is installed to start with the host. *)
HostBoots ==
    /\ power = "boots"
    /\ power' = "on" /\ service' = "running"
    /\ UNCHANGED <<inbox, loop, host, running, restarts, sent>>

HandlerStep ==
    \/ terminateProcess \/ isolateNetwork \/ unisolateNetwork \/ Stub \/ restartService
    \/ Shutdown \/ Unknown \/ runCommand

LoopStep == TakeCommand \/ HandlerStep \/ CommandReturns \/ Report

Next ==
    \/ \E r \in Requests : RecvCommand(r)
    \/ LoopStep \/ Timeout
    \/ \E p \in {"cmd", "child"} : ProgramEnds(p)
    \/ \E g \in Goroutines : ScStop(g) \/ ScStart(g)
    \/ ServiceEnds \/ HostGoesDown \/ HostBoots

(* The loop goes on and the timer fires; a command line need never end. *)
Fairness ==
    /\ WF_vars(LoopStep) /\ WF_vars(Timeout)
    /\ \A g \in Goroutines : WF_vars(ScStop(g)) /\ WF_vars(ScStart(g))
    /\ WF_vars(ServiceEnds) /\ WF_vars(HostGoesDown) /\ WF_vars(HostBoots)

Spec == Init /\ [][Next]_vars /\ Fairness

TypeOK ==
    /\ loop.at \in {"top", "running", "waits", "report"}
    /\ processes \subseteq Pids /\ up \subseteq Adapters /\ running \subseteq {"cmd", "child"}
    /\ service \in {"running", "stopping", "stopped"} /\ power \in {"on", "restart", "off", "boots", "down"}
    /\ restarts \in [Goroutines -> {"none", "sleeps", "stopped"}] /\ sent \in 0 .. MaxCommands

-----------------------------------------------------------------------------
(* What a REST type asks for, in any of the words mapCommandType takes. *)
Meaning(type) ==
    CASE type \in {"kill_process", "terminate_process"} -> "TERMINATE_PROCESS"
      [] type \in {"isolate", "isolate_network"} -> "ISOLATE_NETWORK"
      [] type \in {"unisolate", "unisolate_network", "restore_network"} -> "UNISOLATE_NETWORK"
      [] type \in {"collect_logs", "collect_forensics"} -> "COLLECT_FORENSICS"
      [] type \in {"update_config", "update_policy"} -> "UPDATE_CONFIG"
      [] type = "update_agent" -> "UPDATE_AGENT"
      [] type = "adjust_rate" -> "ADJUST_RATE"
      [] type \in {"restart_agent", "restart_service"} -> "RESTART_SERVICE"
      [] type \in {"restart", "restart_machine"} -> "RESTART"
      [] type \in {"shutdown", "shutdown_machine"} -> "SHUTDOWN"
      [] type = "run_cmd" -> "RUN_CMD"
      [] type = "quarantine_file" -> "QUARANTINE_FILE"
      [] OTHER -> "nothing"

Done(cmd) ==
    CASE cmd.type = "TERMINATE_PROCESS" -> cmd.arg \notin processes
      [] cmd.type = "ISOLATE_NETWORK" -> up = {}
      [] cmd.type = "UNISOLATE_NETWORK" -> up = Adapters
      [] cmd.type = "RESTART" -> power = "restart"
      [] cmd.type = "SHUTDOWN" -> power = "off"
      [] cmd.type = "RESTART_SERVICE" -> service # "running" \/ \E g \in Goroutines : restarts[g] # "none"
      [] cmd.type = "RUN_CMD" -> running = {}
      [] OTHER -> FALSE

(***************************************************************************)
(* Through its three names a command reaches the handler its REST type     *)
(* asks for, or none where there is none to ask for (quarantine_file is    *)
(* lost on the way); and, the handlers apart that do nothing yet, a result *)
(* that says SUCCESS leaves with the host in the state that was asked for: *)
(* the process is gone, the adapters are all down or all up, the shutdown  *)
(* or the restart is under way, the command line is over with whatever     *)
(* held its output.                                                        *)
(***************************************************************************)
AskedIsDone ==
    loop.at # "top" =>
        /\ IF loop.cmd.type \in Known THEN loop.cmd.type = Meaning(loop.cmd.asked)
           ELSE Meaning(loop.cmd.asked) \in {"QUARANTINE_FILE", "nothing"}
        /\ loop.at = "report" /\ loop.status = "SUCCESS" => loop.cmd.type \in Stubs \/ Done(loop.cmd)

(***************************************************************************)
(* Not so: "Configuration updated" (handler.go:260), "Rate adjusted"       *)
(* (handler.go:302).  Four handlers look at their parameters and answer.   *)
(***************************************************************************)
SuccessIsDone == loop.at = "report" /\ loop.status = "SUCCESS" => Done(loop.cmd)

(***************************************************************************)
(* Whatever a command line does, the loop comes back for the next command, *)
(* unless a child of cmd keeps the output open.                            *)
(***************************************************************************)
LoopReturns == []<>(loop.at = "top" \/ running = {"child"})

(***************************************************************************)
(* Not so: "the command runs under cmd /C with a 30s timeout"              *)
(* (handler.go:307).  The child that keeps the pipe keeps the loop.        *)
(***************************************************************************)
TimeoutFrees == (loop.at = "waits") ~> (loop.at # "waits")

(***************************************************************************)
(* Not so: "Service restart scheduled in 5 seconds" (handler.go:292).  The *)
(* process that is to start the service is the one that was stopped.       *)
(***************************************************************************)
RestartReturns == (service = "stopping") ~> (service = "running")

(***************************************************************************)
(* Not so: the types of models.go:162 are those the agent knows.           *)
(***************************************************************************)
TypesAreKnown == loop.at = "running" => loop.cmd.type \in Known
=============================================================================
