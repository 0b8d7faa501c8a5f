------------------------------ MODULE RestGate ------------------------------
(***************************************************************************)
(* What a REST request meets before its handler: the chain of the Sigma    *)
(* engine's server (token, then a fixed window per address) and that of    *)
(* the connection manager (token, revocation, role), and the manager's     *)
(* handlers that answer without touching anything.  GetAgentStats counts   *)
(* in one statement per status.                                            *)
(***************************************************************************)
EXTENDS Integers, Sequences, FiniteSets

CONSTANTS
    Addresses, rate, window,  \* 100 requests per minute, in ticks
    Tokens,        \* [rsa, key, jti, expired, roles]: signed RS256 with the server's key; one of the API keys
    Agents,
    None,
    MaxNow, MaxRequests

VARIABLES
    now,
    sigma,         \* [jwtAuth, tokenAuth, cors]: what NewServer could build
    manager,       \* [jwt, redis, limiter]
    requests,      \* limiter: address -> [count, lastReset] or None
    admitted,      \* address -> the times of admitted requests (observation)
    answer,        \* the last answer: [server, route, token, status]
    revoked,       \* jti's blacklisted
    status,        \* agent -> its status
    report         \* GetAgentStats: [todo, counts], or None

vars == <<now, sigma, manager, requests, admitted, answer, revoked, status, report>>

Open == {"/health", "/ready", "/metrics"}
statusKeys == {"online", "offline", "degraded", "pending", "suspended"}
NoAnswer == [server |-> "none", route |-> "none", token |-> None, status |-> 0]

TypeOK ==
    /\ now \in 0 .. MaxNow /\ revoked \subseteq {t.jti : t \in Tokens}
    /\ \A a \in Addresses : requests[a] # None => requests[a].count \in 1 .. rate
    /\ status \in [Agents -> statusKeys]

(* NewServer: a key that cannot be read leaves jwtAuth nil. *)
Init ==
    /\ now = 0 /\ sigma \in [jwtAuth : BOOLEAN, tokenAuth : BOOLEAN] /\ manager \in [jwt : BOOLEAN, redis : BOOLEAN]
    /\ requests = [a \in Addresses |-> None] /\ admitted = [a \in Addresses |-> <<>>]
    /\ answer = NoAnswer /\ revoked = {}
    /\ status = [a \in Agents |-> "pending"] /\ report = None

-----------------------------------------------------------------------------
(* The Sigma engine.                                                       *)

ValidateJWT(t) == t.rsa /\ ~t.expired
ValidateToken(t) == t.key

(* One of the two is enough; with neither built, nothing is asked. *)
CombinedAuthMiddleware(route, t) ==
    \/ ~sigma.jwtAuth /\ ~sigma.tokenAuth
    \/ route \in Open
    \/ t # None /\ ((sigma.jwtAuth /\ ValidateJWT(t)) \/ (sigma.tokenAuth /\ ValidateToken(t)))

(* The bucket after the request; the same one when it is refused. *)
Allow(a) ==
    LET b == requests[a]
    IN  CASE b = None -> [count |-> 1, lastReset |-> now]
          [] b # None /\ now - b.lastReset > window -> [count |-> 1, lastReset |-> now]
          [] b # None /\ now - b.lastReset <= window /\ b.count < rate -> [b EXCEPT !.count = @ + 1]
          [] OTHER -> b

(* setupRoutes: token first, then the window; /health, /ready and /metrics
   lie outside both.  A handler that panics is a 500. *)
SigmaRequest(a, route, t) ==
    /\ Len(admitted[a]) < MaxRequests
    /\ UNCHANGED <<now, sigma, manager, revoked, status, report>>
    /\ LET Answer(n) == answer' = [server |-> "sigma", route |-> route, token |-> t, status |-> n]
       IN  \/ route \in Open /\ Answer(200) /\ UNCHANGED <<requests, admitted>>
           \/ /\ route \notin Open /\ ~CombinedAuthMiddleware(route, t)
              /\ Answer(401) /\ UNCHANGED <<requests, admitted>>
           \/ /\ route \notin Open /\ CombinedAuthMiddleware(route, t)
              /\ requests' = [requests EXCEPT ![a] = Allow(a)]
              /\ IF requests'[a] = requests[a]
                 THEN Answer(429) /\ UNCHANGED admitted
                 ELSE (Answer(200) \/ Answer(500)) /\ admitted' = [admitted EXCEPT ![a] = Append(@, now)]

(* Faulty variant: within the window. *)
cleanupSoon ==
    /\ requests' = [a \in Addresses |->
           IF requests[a] # None /\ 2 * (now - requests[a].lastReset) > window THEN None ELSE requests[a]]
    /\ UNCHANGED <<now, sigma, manager, admitted, answer, revoked, status, report>>

cleanup ==
    /\ requests' = [a \in Addresses |->
           IF requests[a] # None /\ now - requests[a].lastReset > 2 * window THEN None ELSE requests[a]]
    /\ UNCHANGED <<now, sigma, manager, admitted, answer, revoked, status, report>>

-----------------------------------------------------------------------------
(* The connection manager.                                                 *)

(* RegisterRoutes: the roles a route asks for, where it asks. *)
Roles(route) ==
    CASE route \in {"ListUsers", "CreateUser", "DeleteUser", "GenerateEnrollmentToken", "RevokeEnrollmentToken"} -> {"admin"}
      [] route \in {"ListAuditLogs", "GetAuditLog", "ListEnrollmentTokens"} -> {"admin", "security"}
      [] OTHER -> {}

(* Redis that fails lets the token through to ValidateToken. *)
AuthMiddleware(t) ==
    CASE ~manager.jwt -> {503}
      [] manager.jwt /\ t = None -> {401}
      [] manager.jwt /\ t # None /\ (~t.rsa \/ t.expired) -> {401}
      [] OTHER -> IF manager.redis /\ t.jti \in revoked THEN {401, 0} ELSE {0}

RequireRole(t, route) == Roles(route) = {} \/ (Roles(route) \cup {"admin"}) \cap t.roles # {}

(* Handlers that only look at the id and the body: the answers they give. *)
AlertStubs == [ListAlerts |-> {200}, SearchAlerts |-> {200, 400}, GetAlertStats |-> {200}, GetAlert |-> {400, 404},
               UpdateAlert |-> {200, 400}, ResolveAlert |-> {200, 400}, AddAlertNote |-> {201, 400},
               DeleteAlert |-> {204, 400}]
EventStubs == [SearchEvents |-> {200, 400}, GetEventStats |-> {200}, GetEvent |-> {400, 404}, ExportEvents |-> {202, 400}]
PolicyStubs == [ListPolicies |-> {200}, CreatePolicy |-> {201, 400}, GetPolicy |-> {400, 404}, UpdatePolicy |-> {200, 400},
                DeletePolicy |-> {204, 400}, GetPolicyAgents |-> {200, 400}]
UserStubs == [ListUsers |-> {200}, CreateUser |-> {201, 400}, GetUser |-> {400, 404}, UpdateUser |-> {200, 400},
              DeleteUser |-> {204, 400}, ChangePassword |-> {200, 400}]
AuditStubs == [ListAuditLogs |-> {200}, GetAuditLog |-> {400, 404}]
AgentStubs == [UpdateAgent |-> {200, 400}, DeleteAgent |-> {204, 400}, GetAgentEvents |-> {200, 400},
               GetAgentCommands |-> {200, 400}]

Stubs == [r \in DOMAIN AlertStubs \cup DOMAIN EventStubs \cup DOMAIN PolicyStubs \cup DOMAIN UserStubs
                \cup DOMAIN AuditStubs \cup DOMAIN AgentStubs |->
    CASE r \in DOMAIN AlertStubs -> AlertStubs[r] [] r \in DOMAIN EventStubs -> EventStubs[r]
      [] r \in DOMAIN PolicyStubs -> PolicyStubs[r] [] r \in DOMAIN UserStubs -> UserStubs[r]
      [] r \in DOMAIN AuditStubs -> AuditStubs[r] [] OTHER -> AgentStubs[r]]

ManagerRequest(route, t) ==
    /\ \E gate \in AuthMiddleware(t) :
          \E n \in (IF gate # 0 THEN {gate} ELSE IF ~RequireRole(t, route) THEN {403} ELSE Stubs[route]) :
              answer' = [server |-> "manager", route |-> route, token |-> t, status |-> n]
    /\ UNCHANGED <<now, sigma, manager, requests, admitted, revoked, status, report>>

Blacklist(t) ==
    /\ manager.redis /\ manager.jwt /\ t.rsa
    /\ revoked' = revoked \cup {t.jti}
    /\ UNCHANGED <<now, sigma, manager, requests, admitted, answer, status, report>>

-----------------------------------------------------------------------------
(* GetAgentStats: one COUNT per status, in the order of statusKeys; one
   that fails is left out. *)
GetAgentStats ==
    /\ report = None
    /\ report' = [todo |-> statusKeys, counts |-> [s \in statusKeys |-> 0], moved |-> FALSE, failed |-> FALSE]
    /\ UNCHANGED <<now, sigma, manager, requests, admitted, answer, revoked, status>>

Order == [online |-> 1, offline |-> 2, degraded |-> 3, pending |-> 4, suspended |-> 5]

CountAgents(s, fails) ==
    /\ report # None /\ s \in report.todo /\ \A u \in report.todo : Order[s] <= Order[u]
    /\ report' = [report EXCEPT !.todo = @ \ {s}, !.failed = @ \/ fails,
                      !.counts[s] = IF fails THEN 0 ELSE Cardinality({a \in Agents : status[a] = s})]
    /\ UNCHANGED <<now, sigma, manager, requests, admitted, answer, revoked, status>>

(* The presence machinery moves an agent between two statements. *)
Moves(a, s) ==
    /\ status[a] # s
    /\ status' = [status EXCEPT ![a] = s]
    /\ report' = IF report = None THEN None ELSE [report EXCEPT !.moved = TRUE]
    /\ UNCHANGED <<now, sigma, manager, requests, admitted, answer, revoked>>

Total == report.counts["online"] + report.counts["offline"] + report.counts["degraded"]
         + report.counts["pending"] + report.counts["suspended"]

Tick == now < MaxNow /\ now' = now + 1
        /\ UNCHANGED <<sigma, manager, requests, admitted, answer, revoked, status, report>>

SigmaNext ==
    \/ cleanup \/ Tick
    \/ \E a \in Addresses, r \in {"/health", "/api"}, t \in Tokens \cup {None} : SigmaRequest(a, r, t)
ManagerNext ==
    \/ \E r \in DOMAIN Stubs, t \in Tokens \cup {None} : ManagerRequest(r, t)
    \/ \E t \in Tokens : Blacklist(t)
StatsNext ==
    \/ GetAgentStats
    \/ \E s \in statusKeys, f \in BOOLEAN : CountAgents(s, f)
    \/ \E a \in Agents, s \in {"online", "offline", "degraded"} : Moves(a, s)

Next == SigmaNext \/ ManagerNext \/ StatsNext

Spec == Init /\ [][Next]_vars

-----------------------------------------------------------------------------
(***************************************************************************)
(* However an address times its requests around the resets and the         *)
(* clean-ups, any window of the limiter's length sees at most twice the    *)
(* rate of them let through.                                               *)
(***************************************************************************)
WindowHolds ==
    \A a \in Addresses : \A i \in 1 .. Len(admitted[a]) :
        Cardinality({j \in i .. Len(admitted[a]) : admitted[a][j] - admitted[a][i] <= window}) <= 2 * rate

(***************************************************************************)
(* The statistics add up to the agents there are, if no count failed and   *)
(* none changed its status between the counts.                             *)
(***************************************************************************)
StatsAddUp ==
    report # None /\ report.todo = {} /\ ~report.failed /\ ~report.moved => Total = Cardinality(Agents)

(***************************************************************************)
(* Not so: the same whatever the agents do.  The counts are not one        *)
(* statement: an agent that moves is counted twice or not at all.          *)
(***************************************************************************)
StatsAlwaysAddUp == report # None /\ report.todo = {} /\ ~report.failed => Total = Cardinality(Agents)
=============================================================================
