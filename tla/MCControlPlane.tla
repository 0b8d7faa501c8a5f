--------------------------- MODULE MCControlPlane ---------------------------
(***************************************************************************)
(* The parts of the connection manager beside the traffic of its agents:   *)
(* presence, enrolment, sessions, the gRPC gateway, the REST gate, the     *)
(* lists it pages through, its start and the dead letters.  They share no  *)
(* state the models tell apart, so a behaviour is one of one part: part    *)
(* names the part that moves, the others rest in an initial state.         *)
(***************************************************************************)
EXTENDS AgentPresence

CONSTANTS
    Hosts, Legacy, Services, MaxCalls, MaxUses, MaxCrashes, None, Torn,
    Requests, MaxAttempts, LockTime, AccessTTL, RefreshTTL, BlacklistTTL, Leeway,
    MaxTokens, MaxNow, MaxTries,
    Rpcs, Certs, Identity, CallLimit, ValidDays, Kept, MaxDays,
    Addresses, rate, window, Bearers, Endpoints, MaxTicks, MaxRequests,
    MaxRows, Key, Kind, Other, MaxChanges, Asked, MaxLimit, DefaultLimit,
    Sources, CAKeys, Migrations, ServerDays, Week, MaxBoots,
    MaxLetters, MaxDeaths

VARIABLES
    part,
    token, used, row, certs, call, live, agent, disk, healed, torn, failed, crashes,
    now, user, login, exp, redis, blacklist, loggedOut, tries,
    built, redisUp, day, status, expires, listed, verified, count, rpc, renewal, revocation, told, server,
    tick, sigma, manager, requests, admitted, answer, revoked, shown, report,
    table, keyColumn, kindColumn, of, sort, order, filter, asked, at, offset, page, total, start, walked,
    broken, changes,
    pc, host, found, ca, cert, key, issuer, warned, version, dirty, schema, admin, date, boots, halved, cut,
    written, running, next, held, marked, committed, handled, refused, replayed, deaths

(* None and Torn are nothing else: no number, certificate, bucket or status.
   An entry of the blacklist is kept at least as long as an access token
   lives (15 minutes, 24 hours), and the limiter lets at least one request
   in. *)
ASSUME PlaneAssumption ==
    /\ MaxCalls \in Nat /\ MaxUses \in Nat /\ MaxCrashes \in Nat /\ None \notin Int
    /\ MaxAttempts \in Nat /\ LockTime \in Nat /\ RefreshTTL \in Nat /\ Leeway \in Nat
    /\ AccessTTL \in Nat /\ BlacklistTTL \in Nat /\ AccessTTL <= BlacklistTTL
    /\ MaxTokens \in Nat /\ MaxNow \in Nat \ {0} /\ MaxTries \in Nat
    /\ None \notin Certs /\ None \notin {"active", "revoked", "superseded"}
    /\ CallLimit \in Nat /\ ValidDays \in Nat /\ Kept \in Nat /\ MaxDays \in Nat \ {0}
    /\ rate \in Nat \ {0} /\ window \in Nat /\ MaxTicks \in Nat /\ None \notin [count : Nat, lastReset : Nat]
    /\ MaxRows \in Nat /\ Key \in [1 .. MaxRows -> {1, 2}] /\ Kind \in [1 .. MaxRows -> {1, 2}]
    /\ MaxChanges \in Nat /\ Asked \subseteq Int /\ MaxLimit \in Nat /\ DefaultLimit \in Nat
    /\ Migrations \in Nat /\ ServerDays \in Nat /\ Week \in Nat /\ MaxBoots \in Nat /\ Torn \notin Int
    /\ {None, Torn} \cap [key : Nat, ips : SUBSET Addresses, ends : Nat] = {}
    /\ MaxLetters \in Nat /\ MaxDeaths \in Nat
-----------------------------------------------------------------------------
(* Two certificates of one agent, of which the second names nobody.        *)
MCIdentity == [c \in {1, 2} |->
    IF c = 1 THEN [dns |-> "a", uri |-> None, cn |-> "agent-a"] ELSE [dns |-> None, uri |-> None, cn |-> None]]

MCBearers == {
    [rsa |-> TRUE, key |-> FALSE, jti |-> 1, expired |-> FALSE, roles |-> {"analyst"}],
    [rsa |-> TRUE, key |-> FALSE, jti |-> 2, expired |-> FALSE, roles |-> {"admin"}],
    [rsa |-> FALSE, key |-> TRUE, jti |-> 3, expired |-> FALSE, roles |-> {}]}

(* The database host is bound in the environment, or nowhere. *)
MCSources == {[url |-> None, auto |-> None, bound |-> b, file |-> b] : b \in {"b", None}}

MCKey == [r \in 1 .. 3 |-> IF r = 2 THEN 2 ELSE 1]
MCKind == [r \in 1 .. 3 |-> IF r = 3 THEN 2 ELSE 1]
MCOther == [r \in 1 .. 3 |-> IF r = 1 THEN 2 ELSE 1]

E == INSTANCE Enrollment WITH faults <- failed
S == INSTANCE Sessions
G == INSTANCE Gateway WITH
         Calls <- Rpcs, Limit <- CallLimit, Valid <- ValidDays, MaxNow <- MaxDays, now <- day, call <- rpc
R == INSTANCE RestGate WITH
         Tokens <- Bearers, Agents <- Endpoints, MaxNow <- MaxTicks, now <- tick, status <- shown
P == INSTANCE Listing WITH
         Rows <- 1 .. MaxRows, pc <- at, seen <- walked, key <- keyColumn, kind <- kindColumn
M == INSTANCE ManagerStart WITH Valid <- ServerDays, MaxNow <- MaxDays, now <- date, failed <- cut
D == INSTANCE DeadLetters WITH
         MaxCrashes <- MaxDeaths, Oldest <- TRUE, at <- next, failed <- refused, crashes <- deaths

eVars == <<token, used, row, certs, call, live, agent, disk, healed, torn, failed, crashes>>
sVars == <<now, user, login, exp, redis, blacklist, loggedOut, tries>>
gVars == <<built, redisUp, day, status, expires, listed, verified, count, rpc, renewal, revocation, told, server>>
rVars == <<tick, sigma, manager, requests, admitted, answer, revoked, shown, report>>
pVars == <<table, keyColumn, kindColumn, of, sort, order, filter, asked, at, offset, page, total, start,
           walked, broken, changes>>
mVars == <<pc, host, found, ca, cert, key, issuer, warned, version, dirty, schema, admin, date, boots, halved, cut>>
dVars == <<written, running, next, held, marked, committed, handled, refused, replayed, deaths>>
planeVars == <<part, vars, eVars, sVars, gVars, rVars, pVars, mVars, dVars>>

(* The gateway starts with its first certificate, and with Redis and TLS
   both or neither; the REST parts with all that can be built. *)
PlaneInit ==
    /\ part \in {"presence", "enrolment", "sessions", "gateway", "sigmaGate", "managerGate", "stats",
                 "listing", "start", "letters"}
    /\ Init /\ (part # "presence" => db = "online")
    /\ E!Init
    /\ S!Init /\ (part # "sessions" => redis)
    /\ G!Init /\ status[1] = "active" /\ built.tls = built.redis /\ (built.tls => built.db)
    /\ part # "gateway" => built.tls
    /\ R!Init
    /\ part # "sigmaGate" => sigma.jwtAuth /\ sigma.tokenAuth
    /\ part # "managerGate" => manager.jwt /\ manager.redis
    /\ P!Init
    /\ part # "listing" => /\ table = {} /\ of = "audit" /\ filter.kind = None /\ filter.other = None
                           /\ asked = 1
    /\ M!Init /\ (part # "start" => host = {} /\ ca = None)
    /\ D!Init /\ (part # "letters" => written = 0)

Moves(name, A) == part = name /\ A /\ UNCHANGED part

PlaneNext ==
    \/ Moves("presence", Next) /\ UNCHANGED <<eVars, sVars, gVars, rVars, pVars, mVars, dVars>>
    \/ Moves("enrolment", E!Next) /\ UNCHANGED <<vars, sVars, gVars, rVars, pVars, mVars, dVars>>
    \/ Moves("sessions", S!Next) /\ UNCHANGED <<vars, eVars, gVars, rVars, pVars, mVars, dVars>>
    \/ Moves("gateway", G!Next) /\ UNCHANGED <<vars, eVars, sVars, rVars, pVars, mVars, dVars>>
    \/ Moves("sigmaGate", R!SigmaNext) /\ UNCHANGED <<vars, eVars, sVars, gVars, pVars, mVars, dVars>>
    \/ Moves("managerGate", R!ManagerNext) /\ UNCHANGED <<vars, eVars, sVars, gVars, pVars, mVars, dVars>>
    \/ Moves("stats", R!StatsNext) /\ UNCHANGED <<vars, eVars, sVars, gVars, pVars, mVars, dVars>>
    \/ Moves("listing", P!Next) /\ UNCHANGED <<vars, eVars, sVars, gVars, rVars, mVars, dVars>>
    \/ Moves("start", M!Next) /\ UNCHANGED <<vars, eVars, sVars, gVars, rVars, pVars, dVars>>
    \/ Moves("letters", D!Next) /\ UNCHANGED <<vars, eVars, sVars, gVars, rVars, pVars, mVars>>

InPresence == part = "presence"

(* The fairness of AgentPresence, where it is the part that moves. *)
PlaneFairness ==
    /\ \A s \in Streams : /\ WF_vars(InPresence /\ StreamStep(s))
                          /\ WF_vars(InPresence /\ s \in done /\ StreamEnds(s))
    /\ WF_vars(InPresence /\ MarkStaleOffline) /\ WF_vars(InPresence /\ Minute)

PlaneSpec == PlaneInit /\ [][PlaneNext]_planeVars /\ PlaneFairness

(* AgentPresence: a live agent is not swept, who is gone is, and who is
   there is shown. *)
StatusIsTrue == SweepSparesLive /\ GoneIsSwept /\ LiveIsShown

(* Enrollment: a token is counted by certificates only and, used up, lets no
   further call past its check; the key on disk is the certificate's. *)
EnrolmentKeeps == [](E!BurnedByCertificate /\ E!KeyFitsCertificate) /\ E!CapCloses

(* Sessions: a logged-out access token is accepted in the leeway only, while
   Redis answers, and only a login under way lifts a lock. *)
SessionsHold == []S!LoggedOutStaysOut /\ S!LockHolds

(* Gateway: a certificate on the revocation list passes no check. *)
RevokedIsRefused == G!RevokedIsRefused

(* Listing: a walk in an order that stays shows every row that was there. *)
PagesCover == P!PagesCover

(* ManagerStart: the certificate fits its key and names the host; the
   migrations up to the version are applied. *)
StartsWhole == part = "start" => M!ServesItsAddresses /\ M!CleanIsApplied

TypesHold ==
    /\ part = "presence" => TypeOK
    /\ part = "enrolment" => E!TypeOK
    /\ part = "sessions" => S!TypeOK
    /\ part = "gateway" => G!TypeOK
    /\ part \in {"sigmaGate", "managerGate", "stats"} => R!TypeOK
    /\ part = "listing" => P!TypeOK
    /\ part = "start" => M!TypeOK
    /\ part = "letters" => D!TypeOK

(* RestGate: twice the rate at most in a window; DeadLetters: no letter is
   passed over; and every part's state has its type. *)
QueuesAndRatesHold ==
    /\ part = "sigmaGate" => R!WindowHolds
    /\ part = "letters" => D!NoLetterSkipped
    /\ TypesHold
=============================================================================
