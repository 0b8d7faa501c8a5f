------------------------------- MODULE Gateway ------------------------------
(***************************************************************************)
(* The gate of the connection manager's gRPC server: the chain of          *)
(* interceptors every call passes (logging, certificate, rate), the        *)
(* handlers behind it, the shutdown, and the life of the certificates the  *)
(* gate looks at.  The certificate is verified when the connection is      *)
(* made and looked up in Redis' revocation list at each call; both Redis   *)
(* checks let the call pass when Redis does not answer.                    *)
(***************************************************************************)
EXTENDS Naturals

CONSTANTS
    Certs,         \* certificates, in the order of their issue
    Identity,      \* the names in each: [dns, uri, cn], None where absent
    Calls,         \* calls that overlap
    Limit,         \* eventsPerSecond * burstMultiplier
    Valid,         \* validDays
    Kept,          \* the 24 hours an expired certificate stays listed
    None,
    MaxNow         \* bound of the model

VARIABLES
    built,         \* what main managed to connect: redis, tls, db
    redisUp,       \* Redis answers
    now,
    status,        \* the rows of certificates, None before the issue
    expires,
    listed,        \* expiry of the keys cert:revoked:<fingerprint>, 0 for none
    verified,      \* certificates with a connection that outlives the handshake
    count,         \* the counter of each agent for the current second
    call,          \* each call's stage, method, certificate and agent
    renewal,       \* Renew under way: the certificate it read, its stage
    revocation,    \* Revoke under way: the certificate whose row it wrote
    told,          \* certificates whose revocation reached Redis
    server

vars == <<built, redisUp, now, status, expires, listed, verified, count, call, renewal, revocation,
          told, server>>

Methods == {"RegisterAgent", "StreamEvents", "Heartbeat", "SendCommandResult",
            "RequestCertificateRenewal"}
Agents == {Identity[c][n] : c \in Certs, n \in {"dns", "uri", "cn"}} \ {None}
Idle == [pc |-> "idle", method |-> None, cert |-> None, agent |-> None]

TypeOK ==
    /\ built \in [redis : BOOLEAN, tls : BOOLEAN, db : BOOLEAN]
    /\ redisUp \in BOOLEAN
    /\ now \in 1 .. MaxNow
    /\ status \in [Certs -> {None, "active", "revoked", "superseded"}]
    /\ expires \in [Certs -> 0 .. MaxNow + Valid]
    /\ listed \in [Certs -> 0 .. MaxNow + Valid + Kept]
    /\ verified \subseteq Certs
    /\ count \in [Agents -> 0 .. Limit + 1]
    /\ call \in [Calls -> [pc : {"idle", "auth", "limit", "handler"},
                           method : Methods \cup {None}, cert : Certs \cup {None},
                           agent : Agents \cup {None}]]
    /\ renewal \in [pc : {"idle", "issue", "mark"}, cert : Certs \cup {None}]
    /\ revocation \in Certs \cup {None}
    /\ told \subseteq Certs
    /\ server \in {"serving", "draining", "stopped"}

(* main connects to Redis, loads the TLS files and opens the database; each
   may fail and leaves a nil behind.  One certificate has been issued. *)
Init ==
    /\ built \in [redis : BOOLEAN, tls : BOOLEAN, db : BOOLEAN]
    /\ redisUp = built.redis
    /\ now = 1
    /\ \E c \in Certs :
          /\ status = [d \in Certs |-> IF d = c THEN "active" ELSE None]
          /\ expires = [d \in Certs |-> IF d = c THEN now + Valid ELSE 0]
    /\ listed = [c \in Certs |-> 0]
    /\ verified = {}
    /\ count = [a \in Agents |-> 0]
    /\ call = [k \in Calls |-> Idle]
    /\ renewal = [pc |-> "idle", cert |-> None]
    /\ revocation = None
    /\ told = {}
    /\ server = "serving"

-----------------------------------------------------------------------------
(* A connection; TLS verifies the certificate it is given, dates included. *)
Handshake(c) ==
    /\ server = "serving" /\ built.tls
    /\ status[c] # None
    /\ now < expires[c]
    /\ verified' = verified \cup {c}
    /\ UNCHANGED <<built, redisUp, now, status, expires, listed, count, call, renewal, revocation, told,
                   server>>

Arrives(k, m) ==
    /\ server = "serving"
    /\ call[k] = Idle
    /\ \E c \in verified \cup {None} :
          call' = [call EXCEPT ![k] = [pc |-> "auth", method |-> m, cert |-> c, agent |-> None]]
    /\ UNCHANGED <<built, redisUp, now, status, expires, listed, verified, count, renewal, revocation,
                   told, server>>

(* The outermost interceptors log the call and return what the inner ones
   return, with an id of the request in the context. *)
LoggingUnaryInterceptor(k, m) == m # "StreamEvents" /\ Arrives(k, m)
LoggingStreamInterceptor(k, m) == m = "StreamEvents" /\ Arrives(k, m)

(* The agent a certificate names: a DNS name, then a URN, then the CN. *)
extractAgentIDFromCert(c) ==
    IF Identity[c].dns # None THEN Identity[c].dns
    ELSE IF Identity[c].uri # None THEN Identity[c].uri ELSE Identity[c].cn

(* EXISTS on the key, while Redis answers. *)
IsCertRevoked(c) == now < listed[c]

(* The agent the call may act for, None when the certificate is refused. *)
validateClientCertificate(c) ==
    IF c = None \/ ~built.tls THEN None
    ELSE IF built.redis /\ redisUp /\ IsCertRevoked(c) THEN None
    ELSE extractAgentIDFromCert(c)

(* The call goes on to the next of the chain, or its result is returned. *)
To(k, pc, a) ==
    /\ call' = [call EXCEPT ![k] = IF pc = "return" THEN Idle ELSE [@ EXCEPT !.pc = pc, !.agent = a]]
    /\ UNCHANGED <<built, redisUp, now, status, expires, listed, verified, renewal, revocation, told,
                   server>>

(* RegisterAgent is let in on its installation token; the methods below go
   without a JWT, which leaves none that needs one. *)
AuthUnaryInterceptor(k) ==
    LET a == validateClientCertificate(call[k].cert) IN
    /\ call[k].pc = "auth" /\ call[k].method # "StreamEvents"
    /\ \/ /\ call[k].method = "RegisterAgent"
          /\ \E token \in BOOLEAN : To(k, IF token THEN "limit" ELSE "return", None)
       \/ call[k].method # "RegisterAgent" /\ To(k, IF a = None THEN "return" ELSE "limit", a)
    /\ UNCHANGED count

AuthStreamInterceptor(k) ==
    LET a == validateClientCertificate(call[k].cert) IN
    /\ call[k].pc = "auth" /\ call[k].method = "StreamEvents"
    /\ To(k, IF a = None THEN "return" ELSE "limit", a)
    /\ UNCHANGED count

(* INCRBY on the key of this second; the call that is refused counts too. *)
Allow(a) == count[a] + 1 <= Limit

Limited(k) ==
    LET a == call[k].agent IN
    /\ call[k].pc = "limit"
    /\ IF a = None \/ ~built.redis \/ ~redisUp
       THEN To(k, "handler", a) /\ UNCHANGED count
       ELSE /\ To(k, IF Allow(a) THEN "handler" ELSE "return", a)
            /\ count' = [count EXCEPT ![a] = IF Allow(a) THEN @ + 1 ELSE Limit + 1]

RateLimitUnaryInterceptor(k) == call[k].method # "StreamEvents" /\ Limited(k)
RateLimitStreamInterceptor(k) == call[k].method = "StreamEvents" /\ Limited(k)

Answers(k, m) ==
    /\ call[k].pc = "handler" /\ call[k].method = m
    /\ To(k, "return", call[k].agent)
    /\ UNCHANGED count

(* What the handlers do is in EventIngestion, AgentPresence and Enrollment;
   a stream is in its handler until it ends. *)
RegisterAgent(k) == Answers(k, "RegisterAgent")
Heartbeat(k) == Answers(k, "Heartbeat")
SendCommandResult(k) == Answers(k, "SendCommandResult")
StreamEvents(k) == Answers(k, "StreamEvents")
Unimplemented(k) == Answers(k, "RequestCertificateRenewal")

-----------------------------------------------------------------------------
gateUnchanged == UNCHANGED <<built, redisUp, now, verified, count, call, server>>

(* The table: rows are found by fingerprint or id, inserted as active,
   revoked when active and marked superseded whatever they are. *)
RowByFingerprint(c) == status[c]
RowExists(c) == status[c] # None
InsertRow(c) == status[c] = None /\ status' = [status EXCEPT ![c] = "active"]
RevokeRow(c) == status[c] = "active" /\ status' = [status EXCEPT ![c] = "revoked"]
SupersedeRow(c) == status' = [status EXCEPT ![c] = "superseded"]

(* Renew reads the old row, has a new certificate issued and marks the old
   one, whatever has become of it since. *)
Renew(c) ==
    /\ server # "stopped" /\ built.db /\ renewal.pc = "idle"
    /\ RowByFingerprint(c) = "active"
    /\ \E d \in Certs : ~RowExists(d)     \* bound: a certificate is left to issue
    /\ renewal' = [pc |-> "issue", cert |-> c]
    /\ UNCHANGED <<status, expires, listed, revocation, told>> /\ gateUnchanged

RenewIssues(c) ==
    /\ renewal.pc = "issue"
    /\ InsertRow(c)
    /\ expires' = [expires EXCEPT ![c] = now + Valid]
    /\ renewal' = [renewal EXCEPT !.pc = "mark"]
    /\ UNCHANGED <<listed, revocation, told>> /\ gateUnchanged

(* The error of the update is logged and passed over. *)
RenewEnds ==
    /\ renewal.pc = "mark"
    /\ SupersedeRow(renewal.cert) \/ UNCHANGED status
    /\ renewal' = [pc |-> "idle", cert |-> None]
    /\ UNCHANGED <<expires, listed, revocation, told>> /\ gateUnchanged

(* Revoke: the row first, for an active certificate only, then Redis. *)
Revoke(c) ==
    /\ server # "stopped" /\ built.db /\ revocation = None
    /\ RowExists(c) /\ RevokeRow(c)
    /\ revocation' = c
    /\ UNCHANGED <<expires, listed, renewal, told>> /\ gateUnchanged

(* Faulty variant: the entry is kept for the 24 hours of an expired
   certificate, whatever is left of its validity. *)
AddCertToRevocationListBriefly(c) == listed' = [listed EXCEPT ![c] = now + Kept]

(* The entry lives as long as the certificate does. *)
AddCertToRevocationList(c) ==
    listed' = [listed EXCEPT ![c] = IF expires[c] <= now THEN now + Kept ELSE expires[c]]

(* Redis' error is lost. *)
RevokeEnds ==
    /\ revocation # None
    /\ IF built.redis /\ redisUp
       THEN AddCertToRevocationList(revocation) /\ told' = told \cup {revocation}
       ELSE UNCHANGED <<listed, told>>
    /\ revocation' = None
    /\ UNCHANGED <<status, expires, renewal>> /\ gateUnchanged

(* What the service answers: Redis' list, then the row. *)
IsRevoked(c) == (built.redis /\ redisUp /\ IsCertRevoked(c)) \/ status[c] = "revoked"

-----------------------------------------------------------------------------
(* Redis goes and comes back; its keys expire by now and are not lost. *)
RedisToggles ==
    /\ server # "stopped" /\ built.redis
    /\ redisUp' = ~redisUp
    /\ UNCHANGED <<built, now, status, expires, listed, verified, count, call, renewal, revocation, told,
                   server>>

(* The next second: a new key for the counters. *)
Tick ==
    /\ server # "stopped" /\ now < MaxNow
    /\ now' = now + 1
    /\ count' = [a \in Agents |-> 0]
    /\ UNCHANGED <<built, redisUp, status, expires, listed, verified, call, renewal, revocation, told,
                   server>>

(* On SIGTERM GracefulStop takes no new call and waits for the open ones;
   when the shutdown context ends first, Stop cuts them off.  Then the process
   ends, and what it was about. *)
Shutdown ==
    /\ server = "serving"
    /\ server' = "draining"
    /\ UNCHANGED <<built, redisUp, now, status, expires, listed, verified, count, call, renewal,
                   revocation, told>>

Stopped(calls) ==
    /\ server = "draining"
    /\ call' = calls
    /\ server' = "stopped"
    /\ verified' = {}
    /\ renewal' = [pc |-> "idle", cert |-> None] /\ revocation' = None
    /\ UNCHANGED <<built, redisUp, now, status, expires, listed, count, told>>

GracefulStop == call = [k \in Calls |-> Idle] /\ Stopped(call)
Stop == Stopped([k \in Calls |-> Idle])

Gate(k) ==
    \/ AuthUnaryInterceptor(k) \/ AuthStreamInterceptor(k)
    \/ RateLimitUnaryInterceptor(k) \/ RateLimitStreamInterceptor(k)
    \/ RegisterAgent(k) \/ Heartbeat(k) \/ SendCommandResult(k) \/ StreamEvents(k) \/ Unimplemented(k)

Next ==
    \/ \E k \in Calls, m \in Methods : LoggingUnaryInterceptor(k, m) \/ LoggingStreamInterceptor(k, m)
    \/ \E k \in Calls : Gate(k)
    \/ \E c \in Certs : Handshake(c) \/ Renew(c) \/ RenewIssues(c) \/ Revoke(c)
    \/ RenewEnds \/ RevokeEnds
    \/ RedisToggles \/ Tick \/ Shutdown \/ GracefulStop \/ Stop

Spec == Init /\ [][Next]_vars

-----------------------------------------------------------------------------
(* A call whose certificate is let past the check by this step. *)
Passes(k) == call[k].pc = "auth" /\ call'[k].pc = "limit" /\ call[k].method # "RegisterAgent"

(***************************************************************************)
(* Once the revocation of a certificate is in Redis' list, no call with it *)
(* passes the certificate check while Redis answers, as long as the        *)
(* certificate is valid: the list must keep it for all of that time.       *)
(***************************************************************************)
RevokedIsRefused ==
    [][\A k \in Calls : Passes(k) /\ redisUp => call[k].cert \notin told \/ now >= expires[call[k].cert]]_vars

(* The same without regard to the validity.  It does not hold: the list
   forgets a certificate when it expires, and a connection made before is
   not verified again. *)
RevokedIsRefusedForEver ==
    [][\A k \in Calls : Passes(k) /\ redisUp => call[k].cert \notin told]_vars

(* What the service answers of a revoked certificate stays true.  It does
   not hold: a renewal under way marks the row superseded. *)
RevocationStays == [][\A c \in Certs : status[c] = "revoked" => status'[c] = "revoked"]_vars
=============================================================================
