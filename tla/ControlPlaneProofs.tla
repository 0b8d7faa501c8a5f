------------------------- MODULE ControlPlaneProofs -------------------------
(***************************************************************************)
(* Proofs about the control plane for any number of hosts, calls, tokens,  *)
(* certificates, requests, rows and letters.  A step of PlaneNext is a     *)
(* step of one part and a stutter of every other (PartsMove), so each part *)
(* has an inductive invariant of its own: SInv the sessions, GInv the      *)
(* gateway, EInv the enrolment, AInv the presence, RInv the limiter, PInv  *)
(* the lists, MInv the start, DInv the dead letters.  The theorems are     *)
(* about PlaneSpec, the specification that the run ControlPlane checks.    *)
(***************************************************************************)
EXTENDS MCControlPlane, Sequences, FiniteSetTheorems, TLAPS

\* A step of the plane is a step or a stutter of each part.
LEMMA PartsMove ==
    ASSUME [PlaneNext]_planeVars
    PROVE  /\ [Next]_vars /\ [E!Next]_(E!vars) /\ [S!Next]_(S!vars) /\ [G!Next]_(G!vars)
           /\ [R!Next]_(R!vars) /\ [P!Next]_(P!vars) /\ [M!Next]_(M!vars) /\ [D!Next]_(D!vars)
BY DEF PlaneNext, Moves, planeVars, eVars, sVars, gVars, rVars, pVars, mVars, dVars,
       vars, E!vars, S!vars, G!vars, R!vars, P!vars, M!vars, D!vars, R!Next

\* The parts count with the one Cardinality.
LEMMA CountsAlike ==
    \A X : /\ E!Cardinality(X) = Cardinality(X)
           /\ R!Cardinality(X) = Cardinality(X) /\ P!Cardinality(X) = Cardinality(X)
BY DEF E!Cardinality, R!Cardinality, P!Cardinality, Cardinality

\* Numbers handed out in order: the one after as many as there are is a new one.
Initial(X) == \A x \in X : \A y \in 1 .. x : y \in X

\* Of numbers handed out in order the next one is new, and they stay in order.
LEMMA NextIsNew ==
    ASSUME NEW N \in Nat, NEW X \in SUBSET (1 .. N), Initial(X)
    PROVE  /\ Cardinality(X) + 1 \in Nat \ X
           /\ Initial(X \cup {Cardinality(X) + 1})
<1> DEFINE m == Cardinality(X) + 1
<1>1. IsFiniteSet(1 .. N)
  BY FS_Interval
<1>2. IsFiniteSet(X) /\ Cardinality(X) \in Nat
  BY <1>1, FS_Subset, FS_CardinalityType
<1>3. ASSUME m \in X PROVE FALSE
  <2>1. 1 .. m \subseteq X
    BY <1>3 DEF Initial
  <2>2. Cardinality(1 .. m) = m
    BY <1>2, FS_Interval
  <2>3. Cardinality(1 .. m) <= Cardinality(X)
    BY <1>2, <2>1, FS_Subset
  <2> QED
    BY <1>2, <2>2, <2>3
<1>4. ASSUME NEW y \in 1 .. m, y # m, y \notin X PROVE FALSE
  <2>1. X \subseteq 1 .. (y - 1)
    BY <1>2, <1>4 DEF Initial
  <2>2. IsFiniteSet(1 .. (y - 1)) /\ Cardinality(1 .. (y - 1)) = y - 1
    <3>1. 1 \in Int /\ y - 1 \in Int
      BY <1>2
    <3>2. IsFiniteSet(1 .. (y - 1)) /\ Cardinality(1 .. (y - 1)) = IF 1 > y - 1 THEN 0 ELSE (y - 1) - 1 + 1
      BY <3>1, FS_Interval
    <3> QED
      BY <1>2, <3>2
  <2>3. Cardinality(X) <= Cardinality(1 .. (y - 1))
    BY <2>1, <2>2, FS_Subset
  <2>4. Cardinality(X) <= y - 1 /\ y <= Cardinality(X)
    BY <1>2, <1>4, <2>2, <2>3
  <2> QED
    BY <1>2, <2>4
<1> QED
  BY <1>2, <1>3, <1>4 DEF Initial
-----------------------------------------------------------------------------
(* The sessions.                                                             *)

\* A session's row is behind the tries, and an entry of the blacklist of an access token lasts
\* until the token has expired.
SInv ==
    /\ S!TypeOK
    /\ user.attempts <= tries
    /\ \A r \in Requests : login[r] # S!NoRow => login[r].attempts < tries /\ login[r].until <= now
    /\ \A t \in S!Tokens : t[1] = "access" => exp[t] <= now + AccessTTL
    /\ \A t \in S!Tokens : t[1] = "access" /\ blacklist[t] # S!NoTime =>
                               exp[t] # S!NoTime /\ blacklist[t] >= exp[t]

\* The part of SInv about the tokens that were issued.
TokensFit ==
    /\ exp \in [S!Tokens -> 0 .. S!Latest]
    /\ \A t \in S!Tokens : t[1] = "access" => exp[t] <= now + AccessTTL
    /\ \A t \in S!Tokens : t[1] = "access" /\ blacklist[t] # S!NoTime =>
                               exp[t] # S!NoTime /\ blacklist[t] >= exp[t]

\* A token that is issued is a new one, and an access token lives no longer than the blacklist
\* remembers.
LEMMA TokensStep ==
    ASSUME SInv, UNCHANGED <<now, blacklist>>,
           S!GenerateTokenPair \/ \E f \in S!Tokens : S!RefreshAccessToken(f)
    PROVE  TokensFit'
<1>1. now \in 1 .. MaxNow /\ exp \in [S!Tokens -> 0 .. S!Latest] /\ MaxNow \in Nat
  BY PlaneAssumption DEF SInv, S!TypeOK
<1>2. /\ now + AccessTTL \in 0 .. S!Latest /\ now + RefreshTTL \in 0 .. S!Latest
      /\ AccessTTL \in Nat
  BY <1>1, PlaneAssumption DEF S!Latest
<1>3. PICK a \in S!Tokens, f \in S!Tokens :
         /\ a[1] = "access" /\ exp[a] = S!NoTime /\ f[1] = "refresh"
         /\ \/ exp' = [exp EXCEPT ![a] = now + AccessTTL, ![f] = now + RefreshTTL]
            \/ exp' = [exp EXCEPT ![a] = now + AccessTTL]
  BY DEF S!GenerateTokenPair, S!RefreshAccessToken, S!NewToken
<1>4. exp' \in [S!Tokens -> 0 .. S!Latest]
  BY <1>1, <1>2, <1>3
<1>5. \A t \in S!Tokens : t[1] = "access" => exp'[t] = IF t = a THEN now + AccessTTL ELSE exp[t]
  BY <1>1, <1>3
<1>6. \A t \in S!Tokens : t[1] = "access" => exp'[t] <= now + AccessTTL
  BY <1>1, <1>2, <1>5 DEF SInv
<1>7. ASSUME NEW t \in S!Tokens, t[1] = "access", blacklist[t] # S!NoTime
      PROVE  exp'[t] # S!NoTime /\ blacklist[t] >= exp'[t]
  <2>1. exp[t] # S!NoTime /\ blacklist[t] >= exp[t]
    BY <1>7 DEF SInv
  <2>2. t # a
    BY <1>3, <2>1
  <2> QED
    BY <1>5, <1>7, <2>1, <2>2
<1> QED
  BY <1>4, <1>6, <1>7 DEF TokensFit

\* Every step of a login, a logout, a refresh and the clock.
LEMMA SessionsStep == SInv /\ [S!Next]_(S!vars) => SInv'
<1> SUFFICES ASSUME SInv, [S!Next]_(S!vars) PROVE SInv'
  OBVIOUS
<1>0. MaxTries \in Nat /\ MaxNow \in Nat /\ S!Latest \in Nat /\ LockTime \in Nat /\ AccessTTL \in Nat
      /\ BlacklistTTL \in Nat /\ RefreshTTL \in Nat /\ AccessTTL <= BlacklistTTL
      /\ \A n \in 1 .. MaxNow : /\ n + LockTime \in 0 .. S!Latest /\ n + RefreshTTL \in 0 .. S!Latest
                                /\ n + BlacklistTTL \in 0 .. S!Latest
  BY PlaneAssumption DEF S!Latest
<1> USE <1>0 DEF SInv, S!TypeOK
<1>1. ASSUME NEW r \in Requests, S!GetByUsername(r) PROVE SInv'
  <2>1. tries' = tries + 1 /\ tries < MaxTries /\ login' = [login EXCEPT ![r] = user]
        /\ UNCHANGED <<now, user, exp, redis, blacklist, loggedOut>>
    BY <1>1 DEF S!GetByUsername
  <2>2. user \in S!Row /\ user.attempts \in Nat
    BY DEF S!Row
  <2>3. \A q \in Requests : login'[q] # S!NoRow => login'[q].attempts < tries' /\ login'[q].until <= now
    <3> SUFFICES ASSUME NEW q \in Requests, login'[q] # S!NoRow
                 PROVE  login'[q].attempts < tries' /\ login'[q].until <= now
      OBVIOUS
    <3>1. CASE q = r
      <4>1. user.until <= now /\ login'[q] = user
        BY <1>1, <2>1, <3>1 DEF S!GetByUsername, S!IsLocked, S!Row, S!NoTime
      <4> QED
        BY <2>1, <2>2, <4>1
    <3>2. CASE q # r
      <4>1. login'[q] = login[q] /\ login[q] \in S!Row
        BY <2>1, <3>2
      <4>2. login[q].attempts \in Nat /\ login[q].attempts < tries /\ login[q].until <= now
        BY <4>1, <3>2, <2>1 DEF S!Row
      <4> QED
        BY <2>1, <4>1, <4>2
    <3> QED
      BY <3>1, <3>2
  <2>4. login' \in [Requests -> S!Row \cup {S!NoRow}]
    BY <2>1, <2>2
  <2> QED
    BY <2>1, <2>2, <2>3, <2>4
<1>2. ASSUME NEW r \in Requests, NEW account \in S!Row, S!Update(r, account), account.attempts <= tries,
             UNCHANGED <<now, redis, blacklist, loggedOut, tries>>, TokensFit'
      PROVE  SInv'
  <2>1. login' = [login EXCEPT ![r] = S!NoRow] /\ user' \in {account, user}
    BY <1>2 DEF S!Update
  <2>2. user' \in S!Row /\ user'.attempts <= tries
    BY <1>2, <2>1
  <2> QED
    BY <1>2, <2>1, <2>2 DEF TokensFit
<1>3. ASSUME NEW r \in Requests, S!WrongPassword(r) PROVE SInv'
  <2> DEFINE account == S!RecordFailedLogin(login[r])
  <2>1. login[r] \in S!Row /\ login[r].attempts < tries
    BY <1>3 DEF S!WrongPassword, S!Update
  <2>2. account = [attempts |-> login[r].attempts + 1,
                   until |-> IF login[r].attempts + 1 >= MaxAttempts THEN now + LockTime ELSE login[r].until]
    BY DEF S!RecordFailedLogin
  <2>3. account \in S!Row /\ account.attempts <= tries
    <3> DEFINE n == login[r].attempts + 1
               u == IF n >= MaxAttempts THEN now + LockTime ELSE login[r].until
    <3>1. login[r].attempts \in 0 .. MaxTries /\ login[r].until \in 0 .. S!Latest
      BY <2>1 DEF S!Row
    <3>2. n \in 0 .. MaxTries /\ n <= tries
      BY <2>1, <3>1
    <3>3. u \in 0 .. S!Latest
      BY <3>1, PlaneAssumption DEF S!Latest
    <3>4. account = [attempts |-> n, until |-> u]
      BY <2>2
    <3> HIDE DEF n, u, account
    <3> QED
      BY <3>2, <3>3, <3>4 DEF S!Row
  <2>4. S!Update(r, account) /\ UNCHANGED <<now, exp, redis, blacklist, loggedOut, tries>>
    BY <1>3 DEF S!WrongPassword
  <2>5. TokensFit'
    BY <2>4 DEF TokensFit
  <2> HIDE DEF account
  <2> QED
    BY <1>2, <2>3, <2>4, <2>5
<1>4. ASSUME NEW r \in Requests, S!RightPassword(r) PROVE SInv'
  <2> DEFINE account == S!RecordSuccessfulLogin
  <2>1. account \in S!Row /\ account.attempts <= tries
    BY DEF S!Row, S!RecordSuccessfulLogin, S!NoTime
  <2>2. /\ S!Update(r, account) /\ S!GenerateTokenPair
        /\ UNCHANGED <<now, redis, blacklist, loggedOut, tries>>
    BY <1>4 DEF S!RightPassword
  <2>3. TokensFit'
    BY <2>2, TokensStep
  <2> HIDE DEF account
  <2> QED
    BY <1>2, <2>1, <2>2, <2>3
<1>5. ASSUME NEW t \in S!Tokens, S!Logout(t) PROVE SInv'
  <2>1. /\ blacklist' \in {blacklist, [blacklist EXCEPT ![t] = now + BlacklistTTL]}
        /\ loggedOut' = loggedOut \cup {t} /\ exp[t] # S!NoTime
        /\ UNCHANGED <<now, user, login, exp, redis, tries>>
    BY <1>5 DEF S!Logout, S!BlacklistToken, S!Accepts, S!ValidateToken
  <2>2. blacklist' \in [S!Tokens -> 0 .. S!Latest]
    BY <2>1
  <2>3. ASSUME NEW x \in S!Tokens, x[1] = "access", blacklist'[x] # S!NoTime
        PROVE  exp[x] # S!NoTime /\ blacklist'[x] >= exp[x]
    <3>1. exp[x] \in Nat /\ exp[x] <= now + AccessTTL
      BY <2>3
    <3>2. CASE x = t /\ blacklist'[x] = now + BlacklistTTL
      BY <2>1, <3>1, <3>2
    <3>3. CASE blacklist'[x] = blacklist[x]
      BY <2>3, <3>3
    <3> QED
      BY <2>1, <3>2, <3>3
  <2> QED
    BY <2>1, <2>2, <2>3
<1>6. ASSUME NEW f \in S!Tokens, S!RefreshToken(f) PROVE SInv'
  <2>1. TokensFit' /\ UNCHANGED <<now, user, login, redis, blacklist, loggedOut, tries>>
    BY <1>6, TokensStep DEF S!RefreshToken
  <2> QED
    BY <2>1 DEF TokensFit
<1>9. CASE S!RedisTurns
  BY <1>9 DEF S!RedisTurns
<1>7. CASE S!Tick
  <2>1. now < MaxNow /\ now' = now + 1 /\ UNCHANGED <<user, login, exp, redis, blacklist, loggedOut, tries>>
    BY <1>7 DEF S!Tick
  <2>2. \A t \in S!Tokens : t[1] = "access" => exp[t] <= now' + AccessTTL
    BY <2>1
  <2>3. \A r \in Requests : login[r] # S!NoRow => login[r].until <= now'
    <3> SUFFICES ASSUME NEW r \in Requests, login[r] # S!NoRow PROVE login[r].until <= now'
      OBVIOUS
    <3>1. login[r].until \in Nat /\ login[r].until <= now
      BY DEF S!Row
    <3> QED
      BY <2>1, <3>1
  <2> QED
    BY <2>1, <2>2, <2>3
<1>8. CASE UNCHANGED S!vars
  BY <1>8 DEF S!vars
<1> QED
  BY <1>1, <1>3, <1>4, <1>5, <1>6, <1>7, <1>8, <1>9 DEF S!Next, S!Login

\* A server without sessions.
LEMMA SessionsInit == S!Init => SInv
<1> SUFFICES ASSUME S!Init PROVE SInv
  OBVIOUS
<1>1. S!Latest \in Nat
  BY PlaneAssumption DEF S!Latest
<1>3. user \in S!Row /\ user.attempts <= tries
  BY <1>1, PlaneAssumption DEF S!Init, S!Row, S!NoTime
<1> QED
  BY <1>1, <1>3, PlaneAssumption DEF S!Init, SInv, S!TypeOK, S!NoTime

\* Only a login under way lifts a lock.
LEMMA LockStep ==
    ASSUME SInv, [S!Next]_(S!vars), S!IsLocked(user), user'.until < user.until
    PROVE  \E r \in Requests : login[r] # S!NoRow /\ login'[r] = S!NoRow /\ ~S!IsLocked(login[r])
<1>1. user' # user
  BY DEF SInv, S!TypeOK, S!Row
<1>2. PICK r \in Requests : S!WrongPassword(r) \/ S!RightPassword(r)
  BY <1>1 DEF S!Next, S!Login, S!GetByUsername, S!Logout, S!RefreshToken, S!RedisTurns, S!Tick, S!vars
<1>3. login[r] # S!NoRow /\ login' = [login EXCEPT ![r] = S!NoRow]
  BY <1>2 DEF S!WrongPassword, S!RightPassword, S!Update
<1>4. login[r].until <= now /\ login[r].until \in Nat /\ now \in Nat /\ login'[r] = S!NoRow
  BY <1>3 DEF SInv, S!TypeOK, S!Row
<1> QED
  BY <1>3, <1>4 DEF S!IsLocked

\* SInv holds in every reachable state.
LEMMA SessionsInvariance == PlaneSpec => []SInv
<1>1. PlaneInit => SInv
  BY SessionsInit DEF PlaneInit
<1>2. SInv /\ [PlaneNext]_planeVars => SInv'
  BY SessionsStep, PartsMove
<1> QED
  BY <1>1, <1>2, PTL DEF PlaneSpec

\* Whatever logins overlap and whenever Redis fails, an access token that Logout blacklisted is
\* accepted again, by a Redis that answers, in the leeway after its expiry at most, and a lock that Login wrote is lifted early only by a login that had read the row
\* before it was locked.
THEOREM SessionsAreSafe == PlaneSpec => SessionsHold
<1>1. SInv => S!LoggedOutStaysOut
  <2> SUFFICES ASSUME SInv, NEW t \in loggedOut, t[1] = "access", blacklist[t] # S!NoTime, redis,
                      S!Accepts(t)
               PROVE  now >= exp[t]
    BY DEF S!LoggedOutStaysOut
  <2>1. t \in S!Tokens /\ blacklist[t] >= exp[t] /\ ~(now < blacklist[t])
    BY DEF SInv, S!TypeOK, S!Accepts, S!IsTokenBlacklisted
  <2>2. now \in Int /\ blacklist[t] \in Int /\ exp[t] \in Int
    BY <2>1 DEF SInv, S!TypeOK
  <2> QED
    BY <2>1, <2>2
<1>2. SInv /\ [PlaneNext]_planeVars
         => [S!IsLocked(user) /\ user'.until < user.until
               => \E r \in Requests : login[r] # S!NoRow /\ login'[r] = S!NoRow /\ ~S!IsLocked(login[r])]_(S!vars)
  BY LockStep, PartsMove
<1> QED
  BY <1>1, <1>2, SessionsInvariance, PTL DEF PlaneSpec, SessionsHold, S!LockHolds
-----------------------------------------------------------------------------
(* The gRPC gateway.                                                         *)

\* What the revocation list was told of is a certificate that was issued, and the list
\* keeps it until it has expired.
ListKeeps ==
    /\ redisUp => built.redis
    /\ revocation # None => status[revocation] # None
    /\ renewal.pc # "idle" => renewal.cert \in Certs
    /\ \A c \in told : status[c] # None /\ (day >= expires[c] \/ listed[c] >= expires[c])

GInv == G!TypeOK /\ ListKeeps

RpcType == [pc : {"idle", "auth", "limit", "handler"}, method : G!Methods \cup {None},
            cert : Certs \cup {None}, agent : G!Agents \cup {None}]

\* A step of a call changes the call and the counters only.
LEMMA CallStep ==
    ASSUME GInv, rpc' \in [Rpcs -> RpcType], count' \in [G!Agents -> 0 .. CallLimit + 1],
           UNCHANGED <<built, redisUp, day, status, expires, listed, verified, renewal, revocation, told, server>>
    PROVE  GInv'
BY DEF GInv, ListKeeps, G!TypeOK, RpcType

\* A call that goes on to another step, or returns.
LEMMA ToStep ==
    ASSUME GInv, NEW k \in Rpcs, NEW pc1 \in {"return", "limit", "handler"}, NEW a \in G!Agents \cup {None},
           G!To(k, pc1, a), count' \in [G!Agents -> 0 .. CallLimit + 1]
    PROVE  GInv'
<1>1. rpc \in [Rpcs -> RpcType]
  BY DEF GInv, G!TypeOK, RpcType
<1>2. [rpc[k] EXCEPT !.pc = pc1, !.agent = a] \in RpcType \/ pc1 = "return"
  <2>1. rpc[k] \in RpcType
    BY <1>1
  <2> QED
    BY <2>1 DEF RpcType
<1>3. G!Idle \in RpcType
  BY DEF G!Idle, RpcType
<1>4. rpc' = [rpc EXCEPT ![k] = IF pc1 = "return" THEN G!Idle ELSE [rpc[k] EXCEPT !.pc = pc1, !.agent = a]]
  BY DEF G!To
<1>5. rpc' \in [Rpcs -> RpcType]
  BY <1>1, <1>2, <1>3, <1>4
<1> QED
  BY <1>5, CallStep DEF G!To

\* A certificate names an agent or nobody.
LEMMA NamesAnAgent ==
    ASSUME NEW c \in Certs PROVE G!extractAgentIDFromCert(c) \in G!Agents \cup {None}
BY DEF G!extractAgentIDFromCert, G!Agents

\* What the check of a certificate answers.
LEMMA ValidatesType ==
    ASSUME NEW c \in Certs \cup {None} PROVE G!validateClientCertificate(c) \in G!Agents \cup {None}
BY NamesAnAgent DEF G!validateClientCertificate

\* A step of the interceptors.
LEMMA GateStep == ASSUME GInv, NEW k \in Rpcs, G!Gate(k) PROVE GInv'
<1> DEFINE a == G!validateClientCertificate(rpc[k].cert)
<1>1. rpc[k].cert \in Certs \cup {None} /\ rpc[k].agent \in G!Agents \cup {None}
  BY DEF GInv, G!TypeOK
<1>2. a \in G!Agents \cup {None}
  BY <1>1, ValidatesType
<1>3. count \in [G!Agents -> 0 .. CallLimit + 1] /\ CallLimit \in Nat
  BY PlaneAssumption DEF GInv, G!TypeOK
<1>4. CASE G!AuthUnaryInterceptor(k)
  <2>1. /\ count' = count
        /\ \E p \in {"return", "limit"} : \E b \in {a, None} : G!To(k, p, b)
    BY <1>4 DEF G!AuthUnaryInterceptor
  <2> QED
    BY <1>2, <1>3, <2>1, ToStep
<1>5. CASE G!AuthStreamInterceptor(k)
  <2>1. /\ count' = count
        /\ \E p \in {"return", "limit"} : G!To(k, p, a)
    BY <1>5 DEF G!AuthStreamInterceptor
  <2> QED
    BY <1>2, <1>3, <2>1, ToStep
<1>6. CASE G!Limited(k)
  <2>1. /\ \E p \in {"return", "handler"} : G!To(k, p, rpc[k].agent)
        /\ \/ count' = count
           \/ /\ rpc[k].agent # None
              /\ count' = [count EXCEPT ![rpc[k].agent] = IF G!Allow(rpc[k].agent) THEN @ + 1 ELSE CallLimit + 1]
    BY <1>6 DEF G!Limited
  <2>2. count' \in [G!Agents -> 0 .. CallLimit + 1]
    BY <1>1, <1>3, <2>1 DEF G!Allow
  <2> QED
    BY <1>1, <2>1, <2>2, ToStep
<1>7. ASSUME NEW m, G!Answers(k, m) PROVE GInv'
  BY <1>1, <1>3, <1>7, ToStep DEF G!Answers
<1> QED
  BY <1>4, <1>5, <1>6, <1>7
     DEF G!Gate, G!RateLimitUnaryInterceptor, G!RateLimitStreamInterceptor, G!RegisterAgent,
         G!Heartbeat, G!SendCommandResult, G!StreamEvents, G!Unimplemented

\* A call that arrives.
LEMMA ArrivesStep == ASSUME GInv, NEW k \in Rpcs, NEW m \in G!Methods, G!Arrives(k, m) PROVE GInv'
<1>1. PICK c \in verified \cup {None} :
        rpc' = [rpc EXCEPT ![k] = [pc |-> "auth", method |-> m, cert |-> c, agent |-> None]]
  BY DEF G!Arrives
<1>2. rpc' \in [Rpcs -> RpcType]
  BY <1>1 DEF GInv, G!TypeOK, RpcType
<1> QED
  BY <1>2, CallStep DEF G!Arrives, GInv, G!TypeOK

\* Every step of the gateway: calls, renewals, revocations, Redis and the clock.
LEMMA GatewayStep == GInv /\ [G!Next]_(G!vars) => GInv'
<1> SUFFICES ASSUME GInv, [G!Next]_(G!vars) PROVE GInv'
  OBVIOUS
<1>0. ValidDays \in Nat /\ Kept \in Nat /\ MaxDays \in Nat /\ None \notin Certs /\ CallLimit \in Nat
      /\ None \notin {"active", "revoked", "superseded"}
  BY PlaneAssumption
<1>1. ASSUME NEW k \in Rpcs, NEW m \in G!Methods,
             G!LoggingUnaryInterceptor(k, m) \/ G!LoggingStreamInterceptor(k, m) PROVE GInv'
  BY <1>1, ArrivesStep DEF G!LoggingUnaryInterceptor, G!LoggingStreamInterceptor
<1>2. ASSUME NEW k \in Rpcs, G!Gate(k) PROVE GInv'
  BY <1>2, GateStep
<1> USE <1>0 DEF GInv, ListKeeps, G!TypeOK
<1>3. ASSUME NEW c \in Certs, G!Handshake(c) PROVE GInv'
  BY <1>3 DEF G!Handshake
<1>4. ASSUME NEW c \in Certs, G!Renew(c) PROVE GInv'
  BY <1>4 DEF G!Renew, G!gateUnchanged
<1>5. ASSUME NEW c \in Certs, G!RenewIssues(c) PROVE GInv'
  BY <1>5 DEF G!RenewIssues, G!InsertRow, G!gateUnchanged
<1>6. ASSUME NEW c \in Certs, G!Revoke(c) PROVE GInv'
  BY <1>6 DEF G!Revoke, G!RevokeRow, G!RowExists, G!gateUnchanged
<1>7. CASE G!RenewEnds
  BY <1>7 DEF G!RenewEnds, G!SupersedeRow, G!gateUnchanged
<1>8. CASE G!RevokeEnds
  <2>1. revocation' = None /\ UNCHANGED <<status, expires, renewal, built, redisUp, day, verified, count, rpc, server>>
    BY <1>8 DEF G!RevokeEnds, G!gateUnchanged
  <2>2. CASE UNCHANGED <<listed, told>>
    BY <2>1, <2>2
  <2>3. CASE /\ listed' = [listed EXCEPT ![revocation] = IF expires[revocation] <= day THEN day + Kept
                                                         ELSE expires[revocation]]
             /\ told' = told \cup {revocation}
    <3>1. revocation \in Certs
      BY <1>8 DEF G!RevokeEnds
    <3>2. expires[revocation] \in 0 .. MaxDays + ValidDays /\ day \in 1 .. MaxDays
      BY <3>1
    <3>3. listed' \in [Certs -> 0 .. MaxDays + ValidDays + Kept]
      BY <2>3, <3>1, <3>2
    <3>4. \A c \in told' : status[c] # None /\ (day >= expires[c] \/ listed'[c] >= expires[c])
      <4> SUFFICES ASSUME NEW c \in told'
                   PROVE  status[c] # None /\ (day >= expires[c] \/ listed'[c] >= expires[c])
        OBVIOUS
      <4>1. CASE c = revocation
        BY <1>8, <2>3, <3>1, <3>2, <4>1 DEF G!RevokeEnds
      <4>2. CASE c # revocation
        BY <2>3, <3>1, <4>2
      <4> QED
        BY <4>1, <4>2
    <3> QED
      BY <2>1, <2>3, <3>1, <3>3, <3>4
  <2> QED
    BY <1>8, <2>2, <2>3 DEF G!RevokeEnds, G!AddCertToRevocationList
<1>9. CASE G!RedisToggles
  BY <1>9 DEF G!RedisToggles
<1>10. CASE G!Tick
  <2>1. /\ day < MaxDays /\ day' = day + 1 /\ count' = [a \in G!Agents |-> 0]
        /\ UNCHANGED <<built, redisUp, status, expires, listed, verified, rpc, renewal, revocation, told, server>>
    BY <1>10 DEF G!Tick
  <2>2. \A c \in told : day >= expires[c] => day' >= expires[c]
    BY <2>1
  <2> QED
    BY <2>1, <2>2
<1>11. CASE G!Shutdown
  BY <1>11 DEF G!Shutdown
<1>12. CASE G!GracefulStop \/ G!Stop
  <2>1. rpc' = [k \in Rpcs |-> G!Idle] /\ G!Idle \in RpcType
    BY <1>12 DEF G!GracefulStop, G!Stop, G!Stopped, G!Idle, RpcType
  <2>2. rpc' \in [Rpcs -> RpcType]
    BY <2>1
  <2> QED
    BY <1>12, <2>2 DEF G!GracefulStop, G!Stop, G!Stopped, RpcType
<1>13. CASE UNCHANGED G!vars
  BY <1>13 DEF G!vars
<1> QED
  BY <1>1, <1>2, <1>3, <1>4, <1>5, <1>6, <1>7, <1>8, <1>9, <1>10, <1>11, <1>12, <1>13 DEF G!Next

\* A gateway that has revoked nothing.
LEMMA GatewayInit == G!Init => GInv
<1> SUFFICES ASSUME G!Init PROVE GInv
  OBVIOUS
<1>1. rpc \in [Rpcs -> RpcType]
  BY DEF G!Init, G!Idle, RpcType
<1>2. G!TypeOK
  BY <1>1, PlaneAssumption DEF G!Init, G!TypeOK, RpcType
<1>3. ListKeeps
  BY DEF G!Init, ListKeeps
<1> QED
  BY <1>2, <1>3 DEF GInv

\* GInv holds in every reachable state.
LEMMA GatewayInvariance == PlaneSpec => []GInv
<1>1. PlaneInit => GInv
  BY GatewayInit DEF PlaneInit
<1>2. GInv /\ [PlaneNext]_planeVars => GInv'
  BY GatewayStep, PartsMove
<1> QED
  BY <1>1, <1>2, PTL DEF PlaneSpec

\* The call that a step lets past the certificate check.
LEMMA PassStep ==
    ASSUME GInv, [G!Next]_(G!vars), NEW k \in Rpcs, G!Passes(k), redisUp
    PROVE  rpc[k].cert \notin told \/ day >= expires[rpc[k].cert]
<1> DEFINE c == rpc[k].cert
<1>1. rpc[k].pc = "auth" /\ rpc'[k].pc = "limit" /\ rpc[k].method # "RegisterAgent" /\ rpc' # rpc
  BY DEF G!Passes
<1>2. rpc \in [Rpcs -> RpcType]
  BY DEF GInv, G!TypeOK, RpcType
<1>3. G!AuthUnaryInterceptor(k) \/ G!AuthStreamInterceptor(k)
  <2>1. ASSUME NEW j \in Rpcs, NEW m \in G!Methods, G!Arrives(j, m) PROVE FALSE
    BY <1>1, <1>2, <2>1 DEF G!Arrives, G!Idle
  <2>2. ASSUME NEW j \in Rpcs, G!Gate(j) PROVE G!Gate(k) /\ j = k
    BY <1>1, <1>2, <2>2
       DEF G!Gate, G!AuthUnaryInterceptor, G!AuthStreamInterceptor, G!RateLimitUnaryInterceptor,
           G!RateLimitStreamInterceptor, G!Limited, G!RegisterAgent, G!Heartbeat, G!SendCommandResult,
           G!StreamEvents, G!Unimplemented, G!Answers, G!To
  <2>3. ~(G!GracefulStop \/ G!Stop)
    <3>1. G!GracefulStop \/ G!Stop => rpc' = [j \in Rpcs |-> G!Idle]
      BY DEF G!GracefulStop, G!Stop, G!Stopped
    <3>2. rpc' = [j \in Rpcs |-> G!Idle] => rpc'[k].pc = "idle"
      BY DEF G!Idle
    <3> QED
      BY <1>1, <3>1, <3>2
  <2>4. G!Gate(k)
    BY <1>1, <2>1, <2>2, <2>3
       DEF G!Next, G!vars, G!LoggingUnaryInterceptor, G!LoggingStreamInterceptor, G!Handshake,
           G!Renew, G!RenewIssues, G!Revoke, G!RenewEnds, G!RevokeEnds, G!RedisToggles, G!Tick,
           G!Shutdown, G!gateUnchanged
  <2> QED
    BY <1>1, <2>4
       DEF G!Gate, G!RateLimitUnaryInterceptor, G!RateLimitStreamInterceptor, G!Limited,
           G!RegisterAgent, G!Heartbeat, G!SendCommandResult, G!StreamEvents, G!Unimplemented, G!Answers
<1>4. G!validateClientCertificate(c) # None
  <2> SUFFICES ASSUME G!validateClientCertificate(c) = None PROVE FALSE
    OBVIOUS
  <2>1. G!To(k, "return", None)
    BY <1>1, <1>3 DEF G!AuthUnaryInterceptor, G!AuthStreamInterceptor
  <2>2. rpc' = [rpc EXCEPT ![k] = G!Idle]
    BY <2>1 DEF G!To
  <2>3. rpc'[k].pc = "idle"
    BY <1>2, <2>2 DEF G!Idle
  <2> QED
    BY <1>1, <2>3
<1>5. built.redis /\ ~(day < listed[c]) /\ c # None
  BY <1>4 DEF G!validateClientCertificate, G!IsCertRevoked, GInv, ListKeeps
<1> QED
  <2> SUFFICES ASSUME c \in told PROVE day >= expires[c]
    OBVIOUS
  <2>1. c \in Certs /\ listed[c] \in Int /\ expires[c] \in Int /\ day \in Int
    BY PlaneAssumption DEF GInv, G!TypeOK
  <2> QED
    BY <1>5, <2>1 DEF GInv, ListKeeps

\* Once AddCertToRevocationList has a certificate, AuthUnaryInterceptor lets no call with it through
\* while Redis answers and the certificate is valid: the entry does not lapse before.
THEOREM RevokedAreRefused == PlaneSpec => RevokedIsRefused
<1>1. GInv /\ [PlaneNext]_planeVars
         => [\A k \in Rpcs : G!Passes(k) /\ redisUp
               => rpc[k].cert \notin told \/ day >= expires[rpc[k].cert]]_(G!vars)
  BY PassStep, PartsMove
<1> QED
  BY <1>1, GatewayInvariance, PTL DEF PlaneSpec, RevokedIsRefused, G!RevokedIsRefused
-----------------------------------------------------------------------------
(* Enrolment.                                                                *)

Begun == {c \in E!Calls : call[c].at # "unused"}

\* The calls that were issued a certificate for the enrollment token and have passed the
\* step that counts it.
Spent == {c \in certs : call[c].host \notin Legacy /\ call[c].at \in {"reply", "over"}}

CallType == [at : E!Steps, host : Hosts \cup {None}, answer : E!Answers \cup {None}]

\* The server: calls are numbered as they come, a call gets to the steps behind Issue with
\* its certificate only, and what a token was charged lies with calls that are through.
CallsInOrder ==
    /\ Initial(Begun)
    /\ \A c \in E!Calls : call[c].at \in {"activate", "burn"} => c \in certs
    /\ \A c \in certs : call[c].at \in {"activate", "burn", "reply", "over"}
    /\ \A h \in used : \E c \in certs : call[c].host = h
    /\ token.uses <= Cardinality(Spent)

\* The agent: the key it asks with is on its disk, and until the answer is saved there is
\* no certificate beside it.
KeysInOrder ==
    \A h \in Hosts :
        /\ agent[h].at \in {"calling", "saving", "naming"} => agent[h].with \in E!Calls /\ disk[h].key = agent[h].with
        /\ h \notin torn => disk[h].cert \in {None, disk[h].key}
        /\ h \notin torn /\ agent[h].at \in {"enrolling", "calling", "saving", "wiping"} => disk[h].cert = None

EInv == E!TypeOK /\ CallsInOrder /\ KeysInOrder

\* The calls that were charged can be counted.
LEMMA SpentProperties ==
    ASSUME certs \subseteq E!Calls
    PROVE  /\ IsFiniteSet(E!Calls) /\ IsFiniteSet(Spent) /\ Cardinality(Spent) \in Nat
           /\ Cardinality(E!Calls) \in Nat /\ Cardinality(Spent) <= Cardinality(E!Calls)
<1>1. IsFiniteSet(E!Calls)
  BY FS_Interval, PlaneAssumption DEF E!Calls
<1>2. Spent \subseteq E!Calls
  BY DEF Spent
<1> QED
  BY <1>1, <1>2, FS_Subset, FS_CardinalityType

\* Call c is at step s now, and nothing else of any call has moved.
CallAt(c, s) ==
    /\ call' \in [E!Calls -> CallType]
    /\ \A d \in E!Calls : call'[d].host = call[d].host /\ call'[d].at = IF d = c THEN s ELSE call[d].at

\* A call that goes to a step, or is answered.
LEMMA GoStep ==
    ASSUME EInv, NEW c \in E!Calls, NEW s \in E!Steps,
           E!Go(c, s) \/ \E a \in E!Answers : s = "reply" /\ E!Answer(c, a)
    PROVE  CallAt(c, s)
<1>1. call \in [E!Calls -> CallType]
  BY DEF EInv, E!TypeOK, CallType
<1>2. CASE E!Go(c, s)
  <2>1. call' = [call EXCEPT ![c].at = s]
    BY <1>2 DEF E!Go
  <2>2. [call[c] EXCEPT !.at = s] \in CallType
    BY <1>1 DEF CallType
  <2>3. call' \in [E!Calls -> CallType]
    BY <1>1, <2>1, <2>2
  <2> QED
    BY <1>1, <2>1, <2>3 DEF CallAt, CallType
<1>3. ASSUME NEW a \in E!Answers, s = "reply", E!Answer(c, a) PROVE CallAt(c, s)
  <2>1. call' = [call EXCEPT ![c] = [call[c] EXCEPT !.at = "reply", !.answer = a]]
    BY <1>1, <1>3 DEF E!Answer
  <2>2. [call[c] EXCEPT !.at = "reply", !.answer = a] \in CallType
    BY <1>1 DEF CallType, E!Steps
  <2>3. call' \in [E!Calls -> CallType]
    BY <1>1, <2>1, <2>2
  <2> QED
    BY <1>1, <1>3, <2>1, <2>3 DEF CallAt, CallType
<1> QED
  BY <1>2, <1>3

\* The order of the calls when one of them moves.
LEMMA CallsStep ==
    ASSUME EInv, NEW c \in E!Calls, NEW s \in E!Steps, CallAt(c, s), call[c].at # "unused", s # "unused",
           certs' = certs \/ certs' = certs \cup {c},
           s \in {"activate", "burn"} => c \in certs',
           c \in certs' => s \in {"activate", "burn", "reply", "over"},
           call[c].at \in {"reply", "over"} => s \in {"reply", "over"},
           used' = used \/ (c \in certs /\ used' = used \cup {call[c].host}),
           token'.uses \in Nat,
           \/ token'.uses = token.uses
           \/ /\ token'.uses = token.uses + 1
              /\ call[c].at = "burn" /\ s = "reply" /\ c \in certs /\ call[c].host \notin Legacy
    PROVE  CallsInOrder'
<1>1. certs \subseteq E!Calls /\ certs' \subseteq E!Calls /\ CallsInOrder /\ token.uses \in Nat
  BY DEF EInv, E!TypeOK
<1>2. Begun' = Begun
  BY DEF Begun, CallAt
<1>3. Spent \subseteq Spent'
  BY <1>1 DEF Spent, CallAt
<1>4. IsFiniteSet(Spent) /\ IsFiniteSet(Spent') /\ Cardinality(Spent) \in Nat /\ Cardinality(Spent') \in Nat
  <2>1. IsFiniteSet(E!Calls) /\ IsFiniteSet(Spent) /\ Cardinality(Spent) \in Nat
    BY <1>1, SpentProperties
  <2>2. Spent' \subseteq E!Calls
    BY <1>1 DEF Spent
  <2> QED
    BY <2>1, <2>2, FS_Subset, FS_CardinalityType
<1>5. token'.uses <= Cardinality(Spent')
  <2>1. CASE token'.uses = token.uses
    <3>1. Cardinality(Spent) <= Cardinality(Spent')
      BY <1>3, <1>4, FS_Subset
    <3> QED
      BY <1>1, <1>4, <2>1, <3>1 DEF CallsInOrder
  <2>2. CASE /\ token'.uses = token.uses + 1
             /\ call[c].at = "burn" /\ s = "reply" /\ c \in certs /\ call[c].host \notin Legacy
    <3>1. c \notin Spent /\ Spent \cup {c} \subseteq Spent'
      BY <1>1, <1>3, <2>2 DEF Spent, CallAt
    <3>2. IsFiniteSet(Spent \cup {c}) /\ Cardinality(Spent \cup {c}) = Cardinality(Spent) + 1
      BY <1>4, <3>1, FS_AddElement
    <3>3. Cardinality(Spent \cup {c}) <= Cardinality(Spent')
      BY <1>4, <3>1, FS_Subset
    <3> QED
      BY <1>1, <1>4, <2>2, <3>2, <3>3 DEF CallsInOrder
  <2> QED
    BY <2>1, <2>2
<1>6. \A h \in used' : \E d \in certs' : call'[d].host = h
  BY <1>1 DEF CallsInOrder, CallAt
<1>7. \A d \in E!Calls : call'[d].at \in {"activate", "burn"} => d \in certs'
  BY <1>1 DEF CallsInOrder, CallAt
<1>8. \A d \in certs' : call'[d].at \in {"activate", "burn", "reply", "over"}
  BY <1>1 DEF CallsInOrder, CallAt
<1> QED
  BY <1>1, <1>2, <1>5, <1>6, <1>7, <1>8 DEF CallsInOrder

\* The types, when the tables and a call have changed.
LEMMA ServerTypes ==
    ASSUME EInv, call' \in [E!Calls -> CallType], CallsInOrder',
           token' \in [active : BOOLEAN, uses : Nat], used' \subseteq Legacy, certs' \subseteq E!Calls,
           row' \in [Hosts -> [by : E!Calls \cup {None}, status : {"none", "pending", "online"}]],
           failed' \in 0 .. MaxFaults, UNCHANGED <<live, agent, disk, healed, torn, crashes>>
    PROVE  EInv'
<1>1. token'.uses <= Cardinality(Spent') /\ token'.uses \in Nat
  BY DEF CallsInOrder
<1>2. Cardinality(Spent') \in Nat /\ Cardinality(E!Calls) \in Nat /\ Cardinality(Spent') <= Cardinality(E!Calls)
  <2>1. IsFiniteSet(E!Calls)
    BY FS_Interval, PlaneAssumption DEF E!Calls
  <2>2. Spent' \subseteq E!Calls
    BY DEF Spent
  <2> QED
    BY <2>1, <2>2, FS_Subset, FS_CardinalityType
<1>3. token'.uses \in 0 .. E!Cardinality(E!Calls)
  BY <1>1, <1>2, CountsAlike
<1>4. token' \in [active : BOOLEAN, uses : 0 .. E!Cardinality(E!Calls)]
  BY <1>3
<1>5. E!TypeOK'
  BY <1>4 DEF EInv, E!TypeOK, CallType
<1>6. KeysInOrder'
  BY DEF EInv, KeysInOrder
<1> QED
  BY <1>5, <1>6 DEF EInv

\* A step of Register up to its answer.
LEMMA RegisterStep ==
    ASSUME EInv, NEW c \in E!Calls,
           E!CheckToken(c) \/ E!GetByHostname(c) \/ E!CreateRow(c) \/ E!Issue(c) \/ E!Activate(c) \/ E!BurnToken(c)
    PROVE  EInv'
<1> DEFINE h == call[c].host
           Rows == [Hosts -> [by : E!Calls \cup {None}, status : {"none", "pending", "online"}]]
<1>0. /\ token \in [active : BOOLEAN, uses : Nat] /\ used \subseteq Legacy /\ certs \subseteq E!Calls
      /\ row \in Rows /\ failed \in 0 .. MaxFaults /\ MaxFaults \in Nat
      /\ call \in [E!Calls -> CallType]
  BY PresenceAssumption DEF EInv, E!TypeOK, CallType
<1>1. failed' \in 0 .. MaxFaults /\ UNCHANGED <<live, agent, disk, healed, torn, crashes>>
  BY <1>0 DEF E!CheckToken, E!GetByHostname, E!CreateRow, E!Issue, E!Activate, E!BurnToken, E!Works, E!Fails
<1>2. CASE E!CheckToken(c)
  <2>1. PICK s \in {"hostname", "reply"} : E!Go(c, s) \/ \E a \in E!Answers : s = "reply" /\ E!Answer(c, a)
    BY <1>2 DEF E!CheckToken, E!Answers
  <2>2. CallAt(c, s) /\ s \in E!Steps
    BY <2>1, GoStep DEF E!Steps
  <2>3. call[c].at = "token" /\ UNCHANGED <<token, used, row, certs>> /\ c \notin certs
    BY <1>2 DEF E!CheckToken, E!server, EInv, CallsInOrder
  <2>4. CallsInOrder'
    BY <1>0, <2>1, <2>2, <2>3, CallsStep
  <2> QED
    BY <1>0, <1>1, <2>2, <2>3, <2>4, ServerTypes DEF CallAt
<1>3. CASE E!GetByHostname(c)
  <2>1. PICK s \in {"create", "reply"} : E!Go(c, s) \/ \E a \in E!Answers : s = "reply" /\ E!Answer(c, a)
    BY <1>3 DEF E!GetByHostname, E!Answers
  <2>2. CallAt(c, s) /\ s \in E!Steps
    BY <2>1, GoStep DEF E!Steps
  <2>3. call[c].at = "hostname" /\ UNCHANGED <<token, used, row, certs>> /\ c \notin certs
    BY <1>3 DEF E!GetByHostname, E!server, EInv, CallsInOrder
  <2>4. CallsInOrder'
    BY <1>0, <2>1, <2>2, <2>3, CallsStep
  <2> QED
    BY <1>0, <1>1, <2>2, <2>3, <2>4, ServerTypes DEF CallAt
<1>4. CASE E!CreateRow(c)
  <2>1. PICK s \in {"issue", "reply"} : E!Go(c, s) \/ \E a \in E!Answers : s = "reply" /\ E!Answer(c, a)
    BY <1>4 DEF E!CreateRow, E!Answers
  <2>2. CallAt(c, s) /\ s \in E!Steps
    BY <2>1, GoStep DEF E!Steps
  <2>3. call[c].at = "create" /\ UNCHANGED <<token, used, certs>> /\ c \notin certs
    BY <1>4 DEF E!CreateRow, EInv, CallsInOrder
  <2>4. CallsInOrder'
    BY <1>0, <2>1, <2>2, <2>3, CallsStep
  <2>5. row' \in Rows
    BY <1>0, <1>4 DEF E!CreateRow, E!Create
  <2> QED
    BY <1>0, <1>1, <2>2, <2>3, <2>4, <2>5, ServerTypes DEF CallAt
<1>5. CASE E!Issue(c)
  <2>1. PICK s \in {"activate", "reply"} : /\ E!Go(c, s) \/ \E a \in E!Answers : s = "reply" /\ E!Answer(c, a)
                                           /\ certs' = IF s = "activate" THEN certs \cup {c} ELSE certs
    BY <1>5 DEF E!Issue, E!Answers
  <2>2. CallAt(c, s) /\ s \in E!Steps
    BY <2>1, GoStep DEF E!Steps
  <2>3. call[c].at = "issue" /\ UNCHANGED <<token, used, row>> /\ c \notin certs
    BY <1>5 DEF E!Issue, EInv, CallsInOrder
  <2>4. CallsInOrder'
    BY <1>0, <2>1, <2>2, <2>3, CallsStep
  <2> QED
    BY <1>0, <1>1, <2>1, <2>2, <2>3, <2>4, ServerTypes DEF CallAt
<1>6. CASE E!Activate(c)
  <2>1. E!Go(c, "burn")
    BY <1>6 DEF E!Activate
  <2>2. CallAt(c, "burn") /\ "burn" \in E!Steps
    BY <2>1, GoStep DEF E!Steps
  <2>3. call[c].at = "activate" /\ UNCHANGED <<token, used, certs>> /\ c \in certs
    BY <1>6 DEF E!Activate, EInv, CallsInOrder
  <2>4. CallsInOrder'
    BY <1>0, <2>1, <2>2, <2>3, CallsStep
  <2>5. row' \in Rows
    BY <1>0, <1>6 DEF E!Activate
  <2> QED
    BY <1>0, <1>1, <2>2, <2>3, <2>4, <2>5, ServerTypes DEF CallAt
<1>7. CASE E!BurnToken(c)
  <2>1. E!Answer(c, "approved") /\ "approved" \in E!Answers
    BY <1>7 DEF E!BurnToken, E!Answers
  <2>2. CallAt(c, "reply") /\ "reply" \in E!Steps
    BY <2>1, GoStep DEF E!Steps
  <2>3. call[c].at = "burn" /\ UNCHANGED <<row, certs>> /\ c \in certs
    BY <1>7 DEF E!BurnToken, EInv, CallsInOrder
  <2>4. /\ used' = used \/ (h \in Legacy /\ used' = used \cup {h})
        /\ token' = token \/ (h \notin Legacy /\ token' = [token EXCEPT !.uses = @ + 1])
    BY <1>7 DEF E!BurnToken, E!MarkUsed, E!IncrementUsage
  <2>5. /\ token' \in [active : BOOLEAN, uses : Nat] /\ used' \subseteq Legacy
        /\ token'.uses = token.uses \/ (h \notin Legacy /\ token'.uses = token.uses + 1)
    BY <1>0, <2>4
  <2>6. CallsInOrder'
    BY <1>0, <2>1, <2>2, <2>3, <2>4, <2>5, CallsStep
  <2> QED
    BY <1>0, <1>1, <2>2, <2>3, <2>5, <2>6, ServerTypes DEF CallAt
<1> QED
  BY <1>2, <1>3, <1>4, <1>5, <1>6, <1>7

\* The types, when an agent has moved.
LEMMA AgentTypes ==
    ASSUME EInv, call' \in [E!Calls -> CallType], CallsInOrder', KeysInOrder', UNCHANGED <<token, used, row, certs>>,
           live' \subseteq E!Calls, failed' \in 0 .. MaxFaults, crashes' \in 0 .. MaxCrashes,
           agent' \in [Hosts -> [at : {"down", "enrolling", "calling", "saving", "naming", "running", "wiping", "stuck"},
                                 with : E!Calls \cup {None}]],
           disk' \in [Hosts -> [key : E!Calls \cup {None}, cert : E!Calls \cup {None}, ca : BOOLEAN,
                                id : E!Calls \cup {None}]],
           healed' \subseteq Hosts, torn' \subseteq Hosts
    PROVE  EInv'
BY DEF EInv, E!TypeOK, CallType

Places == {"down", "enrolling", "calling", "saving", "naming", "running", "wiping", "stuck"}
AgentType == [at : Places, with : E!Calls \cup {None}]
DiskType == [key : E!Calls \cup {None}, cert : E!Calls \cup {None}, ca : BOOLEAN, id : E!Calls \cup {None}]

\* An agent's step that leaves the server's calls alone: what it has to keep.
LEMMA AgentStep ==
    ASSUME EInv, NEW h \in Hosts, UNCHANGED <<token, used, row, certs, call>>,
           NEW p \in Places, agent' = [agent EXCEPT ![h].at = p],
           NEW d \in DiskType, disk' = [disk EXCEPT ![h] = d],
           live' \subseteq E!Calls, failed' \in 0 .. MaxFaults, crashes' \in 0 .. MaxCrashes,
           healed' \subseteq Hosts, torn' \subseteq Hosts, torn \subseteq torn',
           p \in {"calling", "saving", "naming"} => agent[h].with \in E!Calls /\ d.key = agent[h].with,
           h \notin torn' => d.cert \in {None, d.key},
           h \notin torn' /\ p \in {"enrolling", "calling", "saving", "wiping"} => d.cert = None
    PROVE  EInv'
<1>1. agent \in [Hosts -> AgentType] /\ disk \in [Hosts -> DiskType]
  BY DEF EInv, E!TypeOK, AgentType, DiskType, Places
<1>2. /\ agent' \in [Hosts -> AgentType]
      /\ \A k \in Hosts : agent'[k].with = agent[k].with /\ agent'[k].at = IF k = h THEN p ELSE agent[k].at
  <2>1. agent' = [agent EXCEPT ![h] = [agent[h] EXCEPT !.at = p]]
    BY <1>1
  <2>2. [agent[h] EXCEPT !.at = p] \in AgentType
    BY <1>1 DEF AgentType
  <2> QED
    BY <1>1, <2>1, <2>2 DEF AgentType
<1>3. /\ disk' \in [Hosts -> DiskType]
      /\ \A k \in Hosts : disk'[k] = IF k = h THEN d ELSE disk[k]
  BY <1>1
<1>4. KeysInOrder'
  <2> SUFFICES ASSUME NEW k \in Hosts
               PROVE  /\ agent'[k].at \in {"calling", "saving", "naming"}
                            => agent'[k].with \in E!Calls /\ disk'[k].key = agent'[k].with
                      /\ k \notin torn' => disk'[k].cert \in {None, disk'[k].key}
                      /\ k \notin torn' /\ agent'[k].at \in {"enrolling", "calling", "saving", "wiping"}
                            => disk'[k].cert = None
    BY DEF KeysInOrder
  <2>1. CASE k = h
    BY <1>2, <1>3, <2>1
  <2>2. CASE k # h
    BY <1>2, <1>3, <2>2 DEF EInv, KeysInOrder
  <2> QED
    BY <2>1, <2>2
<1>5. CallsInOrder'
  BY DEF EInv, CallsInOrder, Begun, Spent
<1>6. call' \in [E!Calls -> CallType]
  BY DEF EInv, E!TypeOK, CallType
<1> QED
  BY <1>2, <1>3, <1>4, <1>5, <1>6, AgentTypes DEF AgentType, DiskType, Places

\* A step of an agent that no call of the server sees.
LEMMA HostStep ==
    ASSUME EInv, NEW h \in Hosts,
           E!Timeout(h) \/ E!SaveCertificate(h) \/ E!SaveIdentity(h) \/ E!Boot(h) \/ E!Rejected(h)
              \/ E!WipeKey(h) \/ E!Crash(h)
    PROVE  EInv'
<1>0. /\ agent[h] \in AgentType /\ disk[h] \in DiskType /\ live \subseteq E!Calls
      /\ failed \in 0 .. MaxFaults /\ crashes \in 0 .. MaxCrashes /\ MaxFaults \in Nat /\ MaxCrashes \in Nat
      /\ healed \subseteq Hosts /\ torn \subseteq Hosts /\ disk \in [Hosts -> DiskType]
      /\ KeysInOrder /\ None \notin E!Calls
  BY PresenceAssumption, PlaneAssumption DEF EInv, E!TypeOK, AgentType, DiskType, Places, E!Calls
<1>1. E!GiveUp(h) \in {"down", "stuck"}
  BY DEF E!GiveUp
<1>2. disk' = disk => disk' = [disk EXCEPT ![h] = disk[h]]
  BY <1>0
<1> USE DEF Places
<1>3. CASE E!Timeout(h)
  <2>1. /\ agent' = [agent EXCEPT ![h].at = E!GiveUp(h)] /\ live' \subseteq live
        /\ UNCHANGED <<token, used, row, certs, call, disk, healed, torn, failed, crashes>>
    BY <1>3 DEF E!Timeout, E!At, E!server
  <2> QED
    BY <1>0, <1>1, <1>2, <2>1, AgentStep DEF KeysInOrder
<1>4. CASE E!SaveCertificate(h)
  <2>0. agent[h].at = "saving" /\ UNCHANGED <<token, used, row, certs, call, live, healed, torn, crashes>>
    BY <1>4 DEF E!SaveCertificate, E!server
  <2>1. CASE /\ disk' = [disk EXCEPT ![h].cert = agent[h].with, ![h].ca = TRUE]
             /\ agent' = [agent EXCEPT ![h].at = "naming"] /\ failed' = failed
    <3> DEFINE d == [disk[h] EXCEPT !.cert = agent[h].with, !.ca = TRUE]
    <3>1. disk' = [disk EXCEPT ![h] = d]
      BY <1>0, <2>1
    <3>2. /\ d \in DiskType /\ d.key = disk[h].key /\ d.cert = agent[h].with
          /\ agent[h].with \in E!Calls /\ disk[h].key = agent[h].with
      BY <1>0, <2>0 DEF KeysInOrder, DiskType
    <3> HIDE DEF d
    <3> QED
      BY <1>0, <2>0, <2>1, <3>1, <3>2, AgentStep
  <2>2. CASE failed' \in 0 .. MaxFaults /\ agent' = [agent EXCEPT ![h].at = E!GiveUp(h)] /\ disk' = disk
    BY <1>0, <1>1, <1>2, <2>0, <2>2, AgentStep DEF KeysInOrder
  <2> QED
    BY <1>0, <1>4, <2>1, <2>2 DEF E!SaveCertificate, E!At
<1>5. CASE E!SaveIdentity(h)
  <2>0. agent[h].at = "naming" /\ UNCHANGED <<token, used, row, certs, call, live, healed, torn, crashes>>
    BY <1>5 DEF E!SaveIdentity, E!server
  <2>1. CASE /\ disk' = disk \/ disk' = [disk EXCEPT ![h].id = agent[h].with]
             /\ agent' = [agent EXCEPT ![h].at = "running"] /\ failed' = failed
    <3> DEFINE d == IF disk' = disk THEN disk[h] ELSE [disk[h] EXCEPT !.id = agent[h].with]
    <3>1. disk' = [disk EXCEPT ![h] = d]
      BY <1>0, <1>2, <2>1
    <3>2. d \in DiskType /\ d.key = disk[h].key /\ d.cert = disk[h].cert
      BY <1>0 DEF AgentType, DiskType
    <3> HIDE DEF d
    <3> QED
      BY <1>0, <2>0, <2>1, <3>1, <3>2, AgentStep DEF KeysInOrder
  <2>2. CASE failed' \in 0 .. MaxFaults /\ agent' = [agent EXCEPT ![h].at = E!GiveUp(h)] /\ disk' = disk
    BY <1>0, <1>1, <1>2, <2>0, <2>2, AgentStep DEF KeysInOrder
  <2> QED
    BY <1>0, <1>5, <2>1, <2>2 DEF E!SaveIdentity, E!At
<1>6. CASE E!Boot(h)
  <2>1. PICK ca1 \in {disk[h].ca, TRUE} : disk' = [disk EXCEPT ![h].ca = ca1]
    BY <1>6 DEF E!Boot
  <2> DEFINE d == [disk[h] EXCEPT !.ca = ca1]
             p == IF disk[h].cert # None /\ disk[h].key # None THEN "running" ELSE "enrolling"
  <2>2. disk' = [disk EXCEPT ![h] = d]
    BY <1>0, <2>1
  <2>3. d \in DiskType /\ d.key = disk[h].key /\ d.cert = disk[h].cert
    BY <1>0 DEF DiskType
  <2>4. /\ agent' = [agent EXCEPT ![h].at = p] /\ healed' \subseteq Hosts
        /\ UNCHANGED <<token, used, row, certs, call, live, torn, failed, crashes>>
    BY <1>0, <1>6 DEF E!Boot, E!At, E!server
  <2>5. h \notin torn => disk[h].cert \in {None, disk[h].key} /\ (p = "enrolling" => disk[h].cert = None)
    BY <1>0 DEF KeysInOrder
  <2>6. p \in {"running", "enrolling"}
    OBVIOUS
  <2> HIDE DEF d, p
  <2> QED
    BY <1>0, <2>2, <2>3, <2>4, <2>5, <2>6, AgentStep
<1>7. CASE E!Rejected(h)
  <2>0. /\ agent' = [agent EXCEPT ![h].at = "wiping"] /\ healed' \subseteq Hosts
        /\ UNCHANGED <<token, used, row, certs, call, live, crashes>>
    BY <1>0, <1>7 DEF E!Rejected, E!At, E!server
  <2>1. CASE disk' = [disk EXCEPT ![h].cert = None] /\ UNCHANGED <<failed, torn>>
    <3> DEFINE d == [disk[h] EXCEPT !.cert = None]
    <3>1. disk' = [disk EXCEPT ![h] = d]
      BY <1>0, <2>1
    <3>2. d \in DiskType /\ d.cert = None
      BY <1>0 DEF DiskType
    <3> HIDE DEF d
    <3> QED
      BY <1>0, <2>0, <2>1, <3>1, <3>2, AgentStep
  <2>2. CASE failed' \in 0 .. MaxFaults /\ torn' = torn \cup {h} /\ disk' = disk
    <3>1. torn' \subseteq Hosts /\ torn \subseteq torn' /\ h \in torn'
      BY <1>0, <2>2
    <3> QED
      BY <1>0, <1>2, <2>0, <2>2, <3>1, AgentStep
  <2> QED
    BY <1>0, <1>7, <2>1, <2>2 DEF E!Rejected
<1>8. CASE E!WipeKey(h)
  <2> DEFINE p == IF disk'[h].cert # None /\ disk'[h].key # None THEN "running" ELSE "enrolling"
  <2>0. /\ agent[h].at = "wiping" /\ agent' = [agent EXCEPT ![h].at = p] /\ p \in {"running", "enrolling"}
        /\ UNCHANGED <<token, used, row, certs, call, live, healed, crashes>>
    BY <1>0, <1>8 DEF E!WipeKey, E!At, E!server
  <2> HIDE DEF p
  <2>1. CASE disk' = [disk EXCEPT ![h].key = None] /\ UNCHANGED <<failed, torn>>
    <3> DEFINE d == [disk[h] EXCEPT !.key = None]
    <3>1. disk' = [disk EXCEPT ![h] = d]
      BY <1>0, <2>1
    <3>2. d \in DiskType /\ d.key = None /\ (h \notin torn => d.cert = None)
      BY <1>0, <2>0 DEF DiskType, KeysInOrder
    <3> HIDE DEF d
    <3> QED
      BY <1>0, <2>0, <2>1, <3>1, <3>2, AgentStep
  <2>2. CASE failed' \in 0 .. MaxFaults /\ torn' = torn \cup {h} /\ disk' = disk
    <3>1. torn' \subseteq Hosts /\ torn \subseteq torn' /\ h \in torn'
      BY <1>0, <2>2
    <3> QED
      BY <1>0, <1>2, <2>0, <2>2, <3>1, AgentStep
  <2> QED
    BY <1>0, <1>8, <2>1, <2>2 DEF E!WipeKey
<1>9. CASE E!Crash(h)
  <2>1. /\ agent' = [agent EXCEPT ![h].at = "down"] /\ live' \subseteq live /\ crashes' \in 0 .. MaxCrashes
        /\ UNCHANGED <<token, used, row, certs, call, disk, healed, torn, failed>>
    BY <1>0, <1>9 DEF E!Crash, E!At, E!server
  <2> QED
    BY <1>0, <1>2, <2>1, AgentStep DEF KeysInOrder
<1> QED
  BY <1>3, <1>4, <1>5, <1>6, <1>7, <1>8, <1>9

\* The answer reaches the agent, or the agent has given up on it.
LEMMA ReplyStep == ASSUME EInv, NEW c \in E!Calls, E!Reply(c) PROVE EInv'
<1> DEFINE h == call[c].host
<1>0. /\ agent \in [Hosts -> AgentType] /\ disk \in [Hosts -> DiskType] /\ live \subseteq E!Calls
      /\ failed \in 0 .. MaxFaults /\ crashes \in 0 .. MaxCrashes /\ token.uses \in Nat
  BY DEF EInv, E!TypeOK, AgentType, DiskType, Places
<1>1. /\ call[c].at = "reply" /\ E!Go(c, "over") /\ live' \subseteq live
      /\ UNCHANGED <<token, used, row, certs, disk, healed, torn, failed, crashes>>
  BY DEF E!Reply, E!server
<1>2. CallAt(c, "over") /\ "over" \in E!Steps
  BY <1>1, GoStep DEF E!Steps
<1>3. CallsInOrder'
  BY <1>0, <1>1, <1>2, CallsStep
<1>4. /\ agent' \in [Hosts -> AgentType]
      /\ \A k \in Hosts : /\ agent'[k].with = agent[k].with
                          /\ \/ agent'[k].at = agent[k].at
                             \/ agent[k].at = "calling" /\ agent'[k].at \in {"saving", "down", "stuck"}
  <2>1. CASE agent' = agent
    BY <1>0, <2>1
  <2>2. CASE \E p \in {"saving", "down", "stuck"} : agent' = [agent EXCEPT ![h].at = p] /\ agent[h].at = "calling"
    <3>1. PICK p \in {"saving", "down", "stuck"} : agent' = [agent EXCEPT ![h].at = p] /\ agent[h].at = "calling"
      BY <2>2
    <3>2. CASE h \in Hosts
      <4>1. agent' = [agent EXCEPT ![h] = [agent[h] EXCEPT !.at = p]]
        BY <1>0, <3>1, <3>2
      <4>2. [agent[h] EXCEPT !.at = p] \in AgentType
        BY <1>0, <3>2 DEF AgentType, Places
      <4> QED
        BY <1>0, <3>1, <3>2, <4>1, <4>2 DEF AgentType
    <3>3. CASE h \notin Hosts
      BY <1>0, <3>1, <3>3
    <3> QED
      BY <3>2, <3>3
  <2> QED
    BY <2>1, <2>2 DEF E!Reply, E!At, E!GiveUp
<1>5. KeysInOrder'
  BY <1>1, <1>4 DEF EInv, KeysInOrder
<1>6. call' \in [E!Calls -> CallType] /\ live' \subseteq E!Calls
  BY <1>0, <1>1, <1>2 DEF CallAt
<1> QED
  BY <1>0, <1>1, <1>3, <1>4, <1>5, <1>6, AgentTypes DEF AgentType, DiskType, Places, EInv, E!TypeOK

\* A call that begins: its number is new.
LEMMA CallBegins ==
    ASSUME EInv, NEW h \in Hosts, NEW c \in E!Calls, E!GenerateCSR(h, c)
    PROVE  /\ call' \in [E!Calls -> CallType]
           /\ \A d \in E!Calls : d # c => call'[d] = call[d]
           /\ call'[c].at \in {"token", "over"}
<1>1. call \in [E!Calls -> CallType] /\ call[c] \in CallType
  BY DEF EInv, E!TypeOK, CallType
<1> DEFINE t == [call[c] EXCEPT !.at = "token", !.host = h]
           o == [call[c] EXCEPT !.at = "over"]
<1>2. t \in CallType /\ t.at = "token"
  BY <1>1 DEF CallType, E!Steps
<1>3. o \in CallType /\ o.at = "over"
  BY <1>1 DEF CallType, E!Steps
<1>4. \/ call' = [call EXCEPT ![c] = t]
      \/ call' = [call EXCEPT ![c] = o]
  <2>1. CASE disk[h].ca
    <3>1. call' = [call EXCEPT ![c].at = "token", ![c].host = h]
      BY <2>1 DEF E!GenerateCSR
    <3>2. call' = [call EXCEPT ![c] = t]
      BY <1>1, <3>1
    <3> QED
      BY <3>2
  <2>2. CASE ~disk[h].ca
    <3>1. call' = [call EXCEPT ![c].at = "over"]
      BY <2>2 DEF E!GenerateCSR
    <3>2. call' = [call EXCEPT ![c] = o]
      BY <1>1, <3>1
    <3> QED
      BY <3>2
  <2> QED
    BY <2>1, <2>2
<1> HIDE DEF t, o
<1> QED
  BY <1>1, <1>2, <1>3, <1>4

\* An agent writes a new key and calls.
LEMMA GenerateCSRStep == ASSUME EInv, NEW h \in Hosts, NEW c \in E!Calls, E!GenerateCSR(h, c) PROVE EInv'
<1>0. /\ agent \in [Hosts -> AgentType] /\ disk \in [Hosts -> DiskType] /\ live \subseteq E!Calls
      /\ call \in [E!Calls -> CallType] /\ certs \subseteq E!Calls /\ MaxCalls \in Nat
      /\ failed \in 0 .. MaxFaults /\ crashes \in 0 .. MaxCrashes /\ token.uses \in Nat /\ None \notin E!Calls
  BY PlaneAssumption DEF EInv, E!TypeOK, AgentType, DiskType, CallType, Places, E!Calls
<1>1. /\ agent[h].at = "enrolling" /\ c = Cardinality(Begun) + 1
      /\ UNCHANGED <<token, used, row, certs, healed, torn, failed, crashes>>
  BY CountsAlike DEF E!GenerateCSR, E!server, Begun
<1>2. c \notin Begun /\ Initial(Begun \cup {c})
  <2>1. Begun \in SUBSET (1 .. MaxCalls) /\ Initial(Begun)
    BY DEF Begun, E!Calls, EInv, CallsInOrder
  <2> QED
    BY <1>0, <1>1, <2>1, NextIsNew
<1>3. call[c].at = "unused" /\ c \notin certs
  BY <1>2 DEF Begun, EInv, CallsInOrder
<1>4. /\ call' \in [E!Calls -> CallType]
      /\ \A d \in E!Calls : d # c => call'[d] = call[d]
      /\ call'[c].at \in {"token", "over"}
  BY CallBegins
<1>5. CallsInOrder'
  <2>1. Begun' = Begun \cup {c}
    BY <1>4 DEF Begun
  <2>2. Spent' = Spent
    BY <1>0, <1>1, <1>3, <1>4 DEF Spent
  <2>3. /\ \A d \in E!Calls : call'[d].at \in {"activate", "burn"} => d \in certs
        /\ \A d \in certs : call'[d].at \in {"activate", "burn", "reply", "over"}
        /\ \A k \in used : \E d \in certs : call'[d].host = k
    BY <1>0, <1>3, <1>4 DEF EInv, CallsInOrder
  <2>4. token.uses <= Cardinality(Spent)
    BY DEF EInv, CallsInOrder
  <2> QED
    BY <1>1, <1>2, <2>1, <2>2, <2>3, <2>4 DEF CallsInOrder
<1>6. disk' \in [Hosts -> DiskType] /\ \A k \in Hosts : /\ disk'[k].cert = disk[k].cert
                                                        /\ disk'[k].key = IF k = h THEN c ELSE disk[k].key
  <2>1. disk' = [disk EXCEPT ![h] = [disk[h] EXCEPT !.key = c]]
    BY <1>0 DEF E!GenerateCSR
  <2>2. [disk[h] EXCEPT !.key = c] \in DiskType
    BY <1>0 DEF DiskType
  <2> QED
    BY <1>0, <2>1, <2>2 DEF DiskType
<1>7. /\ agent' \in [Hosts -> AgentType] /\ live' \subseteq E!Calls
      /\ \A k \in Hosts : k # h => agent'[k] = agent[k]
      /\ agent'[h] = [at |-> "calling", with |-> c] \/ agent'[h].at \in {"down", "stuck"}
  <2>1. CASE agent' = [agent EXCEPT ![h] = [at |-> "calling", with |-> c]] /\ live' = live \cup {c}
    BY <1>0, <2>1 DEF AgentType, Places
  <2>2. CASE \E p \in {"down", "stuck"} : agent' = [agent EXCEPT ![h].at = p] /\ live' = live
    <3>1. PICK p \in {"down", "stuck"} : agent' = [agent EXCEPT ![h].at = p] /\ live' = live
      BY <2>2
    <3>2. agent' = [agent EXCEPT ![h] = [agent[h] EXCEPT !.at = p]]
      BY <1>0, <3>1
    <3>3. [agent[h] EXCEPT !.at = p] \in AgentType
      BY <1>0 DEF AgentType, Places
    <3> QED
      BY <1>0, <3>1, <3>2, <3>3 DEF AgentType
  <2> QED
    BY <2>1, <2>2 DEF E!GenerateCSR, E!At, E!GiveUp
<1>8. KeysInOrder'
  <2> SUFFICES ASSUME NEW k \in Hosts
               PROVE  /\ agent'[k].at \in {"calling", "saving", "naming"}
                            => agent'[k].with \in E!Calls /\ disk'[k].key = agent'[k].with
                      /\ k \notin torn => disk'[k].cert \in {None, disk'[k].key}
                      /\ k \notin torn /\ agent'[k].at \in {"enrolling", "calling", "saving", "wiping"}
                            => disk'[k].cert = None
    BY <1>1 DEF KeysInOrder
  <2>1. CASE k = h
    <3>1. h \notin torn => disk[h].cert = None
      BY <1>1 DEF EInv, KeysInOrder
    <3> QED
      BY <1>6, <1>7, <2>1, <3>1
  <2>2. CASE k # h
    BY <1>6, <1>7, <2>2 DEF EInv, KeysInOrder
  <2> QED
    BY <2>1, <2>2
<1> QED
  BY <1>0, <1>1, <1>4, <1>5, <1>6, <1>7, <1>8, AgentTypes DEF AgentType, DiskType, Places, EInv, E!TypeOK

\* An operator revokes the token or deletes a row.
LEMMA OperatorStep == ASSUME EInv, E!RevokeToken \/ \E h \in Hosts : E!DropRow(h) PROVE EInv'
<1>0. /\ token \in [active : BOOLEAN, uses : Nat] /\ call \in [E!Calls -> CallType]
      /\ row \in [Hosts -> [by : E!Calls \cup {None}, status : {"none", "pending", "online"}]]
  BY DEF EInv, E!TypeOK, CallType
<1>1. /\ token' \in [active : BOOLEAN, uses : Nat] /\ token'.uses = token.uses
      /\ row' \in [Hosts -> [by : E!Calls \cup {None}, status : {"none", "pending", "online"}]]
      /\ UNCHANGED <<used, certs, call, live, agent, disk, healed, torn, failed, crashes>>
  <2>1. CASE E!RevokeToken
    BY <1>0, <2>1 DEF E!RevokeToken
  <2>2. CASE \E h \in Hosts : E!DropRow(h)
    BY <1>0, <2>2 DEF E!DropRow
  <2> QED
    BY <2>1, <2>2
<1>2. CallsInOrder'
  BY <1>1 DEF EInv, CallsInOrder, Begun, Spent
<1> QED
  BY <1>0, <1>1, <1>2, ServerTypes DEF EInv, E!TypeOK

\* Every step of the server, of the agents and of the operator.
LEMMA EnrolmentStep == EInv /\ [E!Next]_(E!vars) => EInv'
<1> SUFFICES ASSUME EInv, [E!Next]_(E!vars) PROVE EInv'
  OBVIOUS
<1>1. CASE UNCHANGED E!vars
  BY <1>1 DEF E!vars, EInv, E!TypeOK, CallsInOrder, KeysInOrder, Begun, Spent
<1> QED
  BY <1>1, RegisterStep, HostStep, ReplyStep, GenerateCSRStep, OperatorStep
     DEF E!Next, E!Register, E!EnsureEnrolled

\* A new token, and agents without identity.
LEMMA EnrolmentInit == E!Init => EInv
<1> SUFFICES ASSUME E!Init PROVE EInv
  OBVIOUS
<1>1. Begun = {} /\ Spent = {} /\ certs = {} /\ used = {} /\ token.uses = 0
  BY DEF E!Init, Begun, Spent
<1>2. Cardinality(Spent) = 0
  BY <1>1, FS_EmptySet
<1>3. CallsInOrder
  BY <1>1, <1>2 DEF E!Init, CallsInOrder, Initial
<1>4. KeysInOrder
  BY DEF E!Init, KeysInOrder
<1>5. Cardinality(E!Calls) \in Nat
  BY <1>1, SpentProperties
<1>6. token \in [active : BOOLEAN, uses : 0 .. E!Cardinality(E!Calls)]
  BY <1>5, CountsAlike DEF E!Init
<1>7. E!TypeOK
  BY <1>6, PlaneAssumption, PresenceAssumption DEF E!Init, E!TypeOK, E!Steps
<1> QED
  BY <1>3, <1>4, <1>7 DEF EInv

\* EInv holds in every reachable state.
LEMMA EnrolmentInvariance == PlaneSpec => []EInv
<1>1. PlaneInit => EInv
  BY EnrolmentInit DEF PlaneInit
<1>2. EInv /\ [PlaneNext]_planeVars => EInv'
  BY EnrolmentStep, PartsMove
<1> QED
  BY <1>1, <1>2, PTL DEF PlaneSpec

\* With the token used up, a step lets no further call past its check.
LEMMA CapStep ==
    ASSUME EInv, [E!Next]_(E!vars), token.uses >= MaxUses
    PROVE  E!PastCheck' \subseteq E!PastCheck
<1> USE DEF E!PastCheck
<1>1. CASE call' = call
  BY <1>1
<1>2. ASSUME NEW c \in E!Calls, NEW s \in E!Steps, CallAt(c, s),
             \/ s \in {"reply", "over"}
             \/ call[c].at \in {"hostname", "create", "issue", "activate", "burn"}
             \/ call[c].host \notin Hosts \ Legacy
      PROVE  E!PastCheck' \subseteq E!PastCheck
  BY <1>2 DEF CallAt
<1>3. ASSUME NEW c \in E!Calls, E!Register(c) PROVE E!PastCheck' \subseteq E!PastCheck
  <2>1. token.uses \in Nat /\ MaxUses \in Nat
    BY PlaneAssumption DEF EInv, E!TypeOK
  <2>2. E!IsValid(call[c].host) => call[c].host \in Legacy
    BY <2>1 DEF E!IsValid, E!GetByToken
  <2>3. \E s \in E!Steps :
           /\ E!Go(c, s) \/ \E a \in E!Answers : s = "reply" /\ E!Answer(c, a)
           /\ \/ s \in {"reply", "over"}
              \/ call[c].at \in {"hostname", "create", "issue", "activate", "burn"}
              \/ call[c].host \notin Hosts \ Legacy
    BY <1>3, <2>2 DEF E!Register, E!CheckToken, E!GetByHostname, E!CreateRow, E!Issue, E!Activate,
                      E!BurnToken, E!Reply, E!Steps, E!Answers
  <2> QED
    BY <1>2, <2>3, GoStep
<1>4. ASSUME NEW h \in Hosts, NEW c \in E!Calls, E!GenerateCSR(h, c) PROVE E!PastCheck' \subseteq E!PastCheck
  BY <1>4, CallBegins
<1> QED
  BY <1>1, <1>3, <1>4
     DEF E!Next, E!vars, E!EnsureEnrolled, E!Timeout, E!SaveCertificate, E!SaveIdentity, E!Boot, E!Rejected,
         E!WipeKey, E!Crash, E!DropRow, E!RevokeToken

\* Whatever call fails, times out or dies between two steps of Register, a token is charged for
\* certificates only and, used up, lets no further call past its check; and the key on the agent's
\* disk is that of the certificate beside it.
THEOREM EnrolmentIsSafe == PlaneSpec => EnrolmentKeeps
<1>1. EInv => E!BurnedByCertificate /\ E!KeyFitsCertificate
  <2> SUFFICES ASSUME EInv PROVE E!BurnedByCertificate /\ E!KeyFitsCertificate
    OBVIOUS
  <2>1. E!KeyFitsCertificate
    BY DEF EInv, KeysInOrder, E!KeyFitsCertificate
  <2> DEFINE B == {c \in certs : call[c].host \notin Legacy}
  <2>2. certs \subseteq E!Calls /\ Spent \subseteq B /\ B \subseteq E!Calls /\ token.uses \in Nat
    BY DEF EInv, E!TypeOK, Spent
  <2>3. IsFiniteSet(B) /\ Cardinality(Spent) \in Nat /\ Cardinality(B) \in Nat /\ Cardinality(Spent) <= Cardinality(B)
    BY <2>2, SpentProperties, FS_Subset, FS_CardinalityType
  <2>4. token.uses <= E!Cardinality(B)
    BY <2>2, <2>3, CountsAlike DEF EInv, CallsInOrder
  <2>5. E!BurnedByCertificate
    BY <2>4 DEF EInv, CallsInOrder, E!BurnedByCertificate
  <2> QED
    BY <2>1, <2>5
<1>2. EInv /\ [PlaneNext]_planeVars => [token.uses >= MaxUses => E!PastCheck' \subseteq E!PastCheck]_(E!vars)
  BY CapStep, PartsMove
<1> QED
  BY <1>1, <1>2, EnrolmentInvariance, PTL DEF PlaneSpec, EnrolmentKeeps, E!CapCloses
-----------------------------------------------------------------------------
(* The status of an agent.                                                   *)

\* last_seen is no older than the ticks since the last write that a stream's keepalive got
\* through: one period for a write it lost, one for the tick it is writing.
HeardOf(s) ==
    /\ handler[s] \in {"idle", "registered"} => missed[s] >= Unheard /\ ticker[s] = "off"
    /\ missed[s] <= Unheard + faults
    /\ ticker[s] = "waiting" /\ missed[s] = 0 => seen <= timer[s]
    /\ ticker[s] = "waiting" /\ missed[s] = 1 => seen <= timer[s] + KeepAlive
    /\ ticker[s] = "writing" /\ missed[s] = 0 => seen <= KeepAlive
    /\ ticker[s] = "writing" /\ missed[s] = 1 => seen <= 2 * KeepAlive

AInv == TypeOK /\ \A s \in Streams : HeardOf(s)

\* The write of stream s, done or lost.
LEMMA WriteStep ==
    ASSUME AInv, NEW s \in Streams, NEW st \in Status, UpdateAgentDBStatus(s, st)
    PROVE  /\ db' \in Status /\ faults' \in 0 .. MaxFaults /\ faults <= faults'
           /\ missed' \in [Streams -> 0 .. Unheard + MaxFaults]
           /\ \A r \in Streams : r # s => missed'[r] = missed[r]
           /\ \/ missed'[s] = 0 /\ seen' = 0
              \/ missed'[s] = missed[s] + 1 /\ seen' = seen /\ faults' = faults + 1
           /\ seen' \in 0 .. Oldest /\ seen' <= seen
<1>0. /\ faults \in 0 .. MaxFaults /\ MaxFaults \in Nat /\ Threshold \in Nat /\ seen \in 0 .. Oldest
      /\ missed \in [Streams -> 0 .. Unheard + MaxFaults] /\ Unheard = 2 /\ db \in Status
  BY PresenceAssumption DEF AInv, TypeOK, Unheard
<1>1. missed[s] <= Unheard + faults
  BY DEF AInv, HeardOf
<1>2. CASE UpdateStatus(st) /\ missed' = [missed EXCEPT ![s] = 0]
  BY <1>0, <1>2 DEF UpdateStatus, Oldest
<1>3. CASE UpdateStatusFails /\ missed' = [missed EXCEPT ![s] = @ + 1]
  BY <1>0, <1>1, <1>3 DEF UpdateStatusFails, Oldest
<1> QED
  BY <1>2, <1>3 DEF UpdateAgentDBStatus

\* Every step of the streams, the sweeper, the heartbeats and the clock.
LEMMA PresenceStep == AInv /\ [Next]_vars => AInv'
<1> SUFFICES ASSUME AInv, [Next]_vars PROVE AInv'
  OBVIOUS
<1>0. /\ KeepAlive \in Nat /\ Threshold \in Nat /\ MaxFaults \in Nat /\ Unheard = 2 /\ Oldest = Threshold + 1
      /\ TypeOK /\ \A s \in Streams : HeardOf(s)
  BY PresenceAssumption DEF AInv, Unheard, Oldest
<1>1. \A s \in Streams : /\ timer[s] \in 0 .. KeepAlive /\ missed[s] \in 0 .. Unheard + MaxFaults
                         /\ handler[s] \in Phases /\ ticker[s] \in {"off", "waiting", "writing"}
  BY <1>0 DEF TypeOK
<1>2. seen \in Nat /\ seen <= Oldest /\ faults \in Nat /\ faults <= MaxFaults
  BY <1>0 DEF TypeOK
<1> USE <1>0, <1>1, <1>2
<1>3. ASSUME NEW s \in Streams, StreamOnline(s) PROVE AInv'
  <2>1. "online" \in Status
    BY DEF Status, Reported
  <2>2. /\ handler[s] = "registered" /\ UpdateAgentDBStatus(s, "online")
        /\ handler' = [handler EXCEPT ![s] = "open"] /\ ticker' = [ticker EXCEPT ![s] = "waiting"]
        /\ timer' = [timer EXCEPT ![s] = 0] /\ UNCHANGED <<done, sweepDue, agentUp>>
    BY <1>3 DEF StreamOnline
  <2>3. TypeOK'
    BY <2>1, <2>2, WriteStep DEF TypeOK, Phases
  <2>4. ASSUME NEW r \in Streams PROVE HeardOf(r)'
    BY <2>1, <2>2, <2>3, WriteStep DEF HeardOf, TypeOK
  <2> QED
    BY <2>3, <2>4 DEF AInv
<1>4. ASSUME NEW s \in Streams, StreamOffline(s) PROVE AInv'
  <2>1. "offline" \in Status
    BY DEF Status
  <2>2. /\ handler[s] = "closing" /\ UpdateAgentDBStatus(s, "offline")
        /\ handler' = [handler EXCEPT ![s] = "closed"] /\ done' = done \cup {s}
        /\ UNCHANGED <<ticker, timer, sweepDue, agentUp>>
    BY <1>4 DEF StreamOffline
  <2>3. TypeOK'
    BY <2>1, <2>2, WriteStep DEF TypeOK, Phases
  <2>4. ASSUME NEW r \in Streams PROVE HeardOf(r)'
    BY <2>1, <2>2, <2>3, WriteStep DEF HeardOf, TypeOK
  <2> QED
    BY <2>3, <2>4 DEF AInv
<1>5. ASSUME NEW s \in Streams, KeepaliveWrite(s) PROVE AInv'
  <2>1. "online" \in Status
    BY DEF Status, Reported
  <2>2. /\ ticker[s] = "writing" /\ UpdateAgentDBStatus(s, "online")
        /\ ticker' = [ticker EXCEPT ![s] = "waiting"] /\ UNCHANGED <<handler, timer, done, sweepDue, agentUp>>
    BY <1>5 DEF KeepaliveWrite
  <2>3. TypeOK'
    BY <2>1, <2>2, WriteStep DEF TypeOK
  <2>4. ASSUME NEW r \in Streams PROVE HeardOf(r)'
    <3>1. /\ \A q \in Streams : q # s => missed'[q] = missed[q]
          /\ \/ missed'[s] = 0 /\ seen' = 0
             \/ missed'[s] = missed[s] + 1 /\ seen' = seen /\ faults' = faults + 1
          /\ seen' \in Nat /\ seen' <= seen /\ faults' \in Nat /\ faults <= faults'
      BY <2>1, <2>2, WriteStep
    <3>2. CASE r = s
      <4>1. ticker'[s] = "waiting" /\ timer'[s] = timer[s] /\ handler' = handler
        BY <2>2 DEF TypeOK
      <4> QED
        BY <2>2, <3>1, <3>2, <4>1 DEF HeardOf
    <3>3. CASE r # s
      <4>1. ticker'[r] = ticker[r] /\ timer' = timer /\ handler' = handler /\ missed'[r] = missed[r]
        BY <2>2, <3>1, <3>3 DEF TypeOK
      <4> QED
        BY <3>1, <4>1 DEF HeardOf
    <3> QED
      BY <3>2, <3>3
  <2> QED
    BY <2>3, <2>4 DEF AInv
<1>6. ASSUME NEW s \in Streams, KeepaliveTick(s) \/ KeepaliveStop(s) PROVE AInv'
  BY <1>6 DEF KeepaliveTick, KeepaliveStop, AInv, TypeOK, HeardOf
<1>7. ASSUME NEW s \in Streams, OpenStream(s) \/ ConnectionBreaks(s) \/ StreamEnds(s) PROVE AInv'
  BY <1>7 DEF OpenStream, ConnectionBreaks, StreamEnds, AInv, TypeOK, HeardOf, Phases
<1>8. ASSUME NEW st \in Reported, Heartbeat(st) PROVE AInv'
  <2>1. /\ db' \in Status /\ seen' \in 0 .. Oldest /\ seen' <= seen /\ faults' \in 0 .. MaxFaults /\ faults <= faults'
        /\ UNCHANGED <<handler, ticker, timer, missed, done, sweepDue, agentUp>>
    BY <1>8 DEF Heartbeat, UpdateStatus, UpdateStatusFails, Status, TypeOK
  <2>2. TypeOK'
    BY <2>1 DEF TypeOK
  <2>3. ASSUME NEW r \in Streams PROVE HeardOf(r)'
    BY <2>1 DEF HeardOf
  <2> QED
    BY <2>2, <2>3 DEF AInv
<1>9. CASE AgentDies \/ MarkStaleOffline \/ SweepFails
  <2>1. /\ db' \in Status /\ seen' = seen /\ faults' \in 0 .. MaxFaults /\ faults <= faults'
        /\ done' \subseteq Streams /\ sweepDue' \in BOOLEAN /\ agentUp' \in BOOLEAN
        /\ UNCHANGED <<handler, ticker, timer, missed>>
    <3>1. faults' \in 0 .. MaxFaults /\ faults <= faults'
      BY <1>9 DEF AgentDies, MarkStaleOffline, SweepFails
    <3>2. db' \in Status /\ done' \subseteq Streams /\ seen' = seen /\ UNCHANGED <<handler, ticker, timer, missed>>
      BY <1>9 DEF AgentDies, MarkStaleOffline, SweepFails, Status, TypeOK
    <3>3. sweepDue' \in BOOLEAN /\ agentUp' \in BOOLEAN
      BY <1>9, Zenon DEF AgentDies, MarkStaleOffline, SweepFails, TypeOK
    <3> QED
      BY <3>1, <3>2, <3>3
  <2>2. TypeOK'
    BY <2>1 DEF TypeOK
  <2>3. ASSUME NEW r \in Streams PROVE HeardOf(r)'
    BY <2>1 DEF HeardOf
  <2> QED
    BY <2>2, <2>3 DEF AInv
<1>10. CASE Minute
  <2>1. /\ seen' \in 0 .. Oldest /\ seen' <= seen + 1 /\ sweepDue' = TRUE
        /\ \A s \in Streams : ticker[s] # "writing" /\ (ticker[s] = "waiting" => timer[s] < KeepAlive)
        /\ timer' = [s \in Streams |-> IF ticker[s] = "waiting" THEN timer[s] + 1 ELSE timer[s]]
        /\ UNCHANGED <<db, handler, ticker, missed, done, agentUp, faults>>
    BY <1>10 DEF Minute
  <2>2. TypeOK'
    BY <2>1 DEF TypeOK
  <2>3. ASSUME NEW r \in Streams PROVE HeardOf(r)'
    BY <2>1 DEF HeardOf
  <2> QED
    BY <2>2, <2>3 DEF AInv
<1>11. CASE UNCHANGED vars
  BY <1>11 DEF vars, AInv, TypeOK, HeardOf
<1> QED
  BY <1>3, <1>4, <1>5, <1>6, <1>7, <1>8, <1>9, <1>10, <1>11 DEF Next, StreamStep

\* AInv holds in every reachable state.
LEMMA PresenceInvariance == PlaneSpec => []AInv
<1>1. PlaneInit => AInv
  <2> SUFFICES ASSUME Init PROVE AInv
    BY DEF PlaneInit
  <2>1. TypeOK
    <3>1. db \in Status /\ handler \in [Streams -> Phases]
      BY DEF Init, Status, Reported, Phases
    <3>2. ticker \in [Streams -> {"off", "waiting", "writing"}]
      BY DEF Init
    <3>3. /\ seen \in 0 .. Oldest /\ timer \in [Streams -> 0 .. KeepAlive] /\ faults \in 0 .. MaxFaults
          /\ missed \in [Streams -> 0 .. Unheard + MaxFaults]
      BY PresenceAssumption DEF Init, Oldest, Unheard
    <3>4. done \subseteq Streams /\ sweepDue \in BOOLEAN /\ agentUp \in BOOLEAN
      BY DEF Init
    <3> QED
      BY <3>1, <3>2, <3>3, <3>4 DEF TypeOK
  <2>2. \A s \in Streams : HeardOf(s)
    BY PresenceAssumption DEF Init, HeardOf, Unheard
  <2> QED
    BY <2>1, <2>2 DEF AInv
<1>2. AInv /\ [PlaneNext]_planeVars => AInv'
  BY PresenceStep, PartsMove
<1> QED
  BY <1>1, <1>2, PTL DEF PlaneSpec

\* A sweep that takes an agent for gone whose stream is open: two writes were lost.
LEMMA SweepStep ==
    ASSUME AInv, [Next]_vars, NEW s \in Streams, handler[s] = "open", ticker[s] # "off",
           sweepDue, ~sweepDue', db # db'
    PROVE  missed[s] >= Unheard
<1>1. MarkStaleOffline
  <2>1. sweepDue' # sweepDue
    OBVIOUS
  <2>2. MarkStaleOffline \/ SweepFails
    BY <2>1 DEF Next, vars, StreamStep, StreamOnline, StreamOffline, KeepaliveTick, KeepaliveWrite, KeepaliveStop,
                OpenStream, ConnectionBreaks, StreamEnds, Heartbeat, AgentDies, Minute
  <2> QED
    BY <2>2 DEF SweepFails
<1>2. seen > Threshold
  BY <1>1 DEF MarkStaleOffline, Stale
<1>3. HeardOf(s) /\ TypeOK
  BY DEF AInv
<1>4. /\ seen \in Nat /\ timer[s] \in 0 .. KeepAlive /\ missed[s] \in Nat /\ ticker[s] \in {"waiting", "writing"}
      /\ KeepAlive \in Nat /\ Threshold \in Nat /\ 2 * KeepAlive <= Threshold
  BY <1>3, PresenceAssumption DEF TypeOK
<1> QED
  BY <1>2, <1>3, <1>4 DEF HeardOf, Unheard

\* MarkStaleOffline takes no agent whose stream is open and writing for gone, unless two of its
\* writes were lost in a row.
THEOREM LiveIsSpared == PlaneSpec => SweepSparesLive
<1>1. AInv /\ [PlaneNext]_planeVars
         => [\A s \in Streams :
               handler[s] = "open" /\ ticker[s] # "off" /\ sweepDue /\ ~sweepDue' /\ db # db'
                  => missed[s] >= Unheard]_vars
  BY SweepStep, PartsMove
<1> QED
  BY <1>1, PresenceInvariance, PTL DEF PlaneSpec, SweepSparesLive
-----------------------------------------------------------------------------
(* The REST gate.                                                            *)

Bucket == [count : Nat, lastReset : Nat]

\* The times s of the requests let in by time t; the last k of them are in a bucket that began at l,
\* and those before it that are within a window of l would have fitted into one bucket.
Ordered(s, t) == \A i, j \in 1 .. Len(s) : i <= j => s[i] <= s[j] /\ s[j] <= t
Sparse(s) == \A i, j \in 1 .. Len(s) : i <= j /\ s[j] - s[i] <= window => j - i + 1 <= 2 * rate
Filled(s, k, l) ==
    \A i \in 1 .. Len(s) :
        /\ i > Len(s) - k => l <= s[i] /\ s[i] <= l + window
        /\ i <= Len(s) - k => s[i] <= l
        /\ i <= Len(s) - k /\ s[i] + window >= l => Len(s) - k - i + 1 <= rate

Fits(s, b, t) ==
    /\ Ordered(s, t) /\ Sparse(s)
    /\ b = None => \A i \in 1 .. Len(s) : s[i] + window < t
    /\ b # None => /\ b \in Bucket /\ b.count \in 1 .. rate /\ b.count <= Len(s) /\ b.lastReset <= t
                   /\ Filled(s, b.count, b.lastReset)

RInv ==
    /\ R!TypeOK
    /\ admitted \in [Addresses -> Seq(Nat)]
    /\ requests \in [Addresses -> Bucket \cup {None}]
    /\ \A a \in Addresses : Fits(admitted[a], requests[a], tick)

\* What is assumed of the limiter.
LEMMA LimiterConstants == rate \in Nat /\ rate >= 1 /\ window \in Nat
BY PlaneAssumption

\* What one more time at the end changes.
LEMMA Appended ==
    ASSUME NEW s \in Seq(Nat), NEW t \in Nat
    PROVE  /\ Len(s) \in Nat /\ Len(Append(s, t)) = Len(s) + 1 /\ Append(s, t)[Len(s) + 1] = t
           /\ \A i \in 1 .. Len(s) : Append(s, t)[i] = s[i] /\ s[i] \in Nat
OBVIOUS

\* A time at the end keeps the order.
LEMMA OrderedStep ==
    ASSUME NEW s \in Seq(Nat), NEW t \in Nat, Ordered(s, t)
    PROVE  Ordered(Append(s, t), t)
<1> DEFINE n == Len(s)
           u == Append(s, t)
<1>0. n \in Nat /\ Len(u) = n + 1 /\ u[n + 1] = t /\ \A i \in 1 .. n : u[i] = s[i] /\ s[i] \in Nat
  BY Appended
<1>1. \A i, j \in 1 .. n : i <= j => s[i] <= s[j] /\ s[j] <= t
  BY DEF Ordered
<1> HIDE DEF n, u
<1> SUFFICES ASSUME NEW i \in 1 .. n + 1, NEW j \in 1 .. n + 1, i <= j PROVE u[i] <= u[j] /\ u[j] <= t
  BY <1>0 DEF Ordered, u
<1>2. \A x \in 1 .. n : s[x] <= t
  BY <1>0, <1>1
<1>3. CASE j = n + 1
  BY <1>3, <1>0, <1>2
<1>4. CASE j # n + 1
  BY <1>4, <1>0, <1>1
<1> QED
  BY <1>3, <1>4

\* A bucket begins with a request at t.
LEMMA BucketBegins ==
    ASSUME NEW s \in Seq(Nat), NEW t \in Nat, Ordered(s, t), Sparse(s),
           \A i \in 1 .. Len(s) : s[i] + window >= t => Len(s) - i + 1 <= rate
    PROVE  Filled(Append(s, t), 1, t) /\ Sparse(Append(s, t))
<1> DEFINE n == Len(s)
           u == Append(s, t)
<1>0. n \in Nat /\ Len(u) = n + 1 /\ u[n + 1] = t /\ \A i \in 1 .. n : u[i] = s[i] /\ s[i] \in Nat
  BY Appended
<1>1. /\ \A i \in 1 .. n : s[i] + window >= t => n - i + 1 <= rate
      /\ \A i, j \in 1 .. n : i <= j /\ s[j] - s[i] <= window => j - i + 1 <= 2 * rate
  BY DEF Sparse
<1>2. \A i \in 1 .. n : s[i] <= t
  BY <1>0 DEF Ordered
<1>3. rate \in Nat /\ rate >= 1 /\ window \in Nat
  BY PlaneAssumption
<1> HIDE DEF n, u
<1>4. Filled(u, 1, t)
  <2> SUFFICES ASSUME NEW i \in 1 .. n + 1
               PROVE  /\ i > n => t <= u[i] /\ u[i] <= t + window
                      /\ i <= n => u[i] <= t
                      /\ i <= n /\ u[i] + window >= t => n - i + 1 <= rate
    BY <1>0 DEF Filled
  <2>1. CASE i = n + 1
    BY <2>1, <1>0, <1>3
  <2>2. CASE i # n + 1
    BY <2>2, <1>0, <1>1, <1>2
  <2> QED
    BY <2>1, <2>2
<1>5. Sparse(u)
  <2> SUFFICES ASSUME NEW i \in 1 .. n + 1, NEW j \in 1 .. n + 1, i <= j, u[j] - u[i] <= window
               PROVE  j - i + 1 <= 2 * rate
    BY <1>0 DEF Sparse
  <2>1. CASE j = n + 1 /\ i = n + 1
    BY <2>1, <1>3
  <2>2. CASE j = n + 1 /\ i # n + 1
    <3>1. i \in 1 .. n /\ s[i] + window >= t
      BY <2>2, <1>0, <1>3
    <3>2. n - i + 1 <= rate
      BY <3>1, <1>1
    <3> QED
      BY <2>2, <3>1, <3>2, <1>0, <1>3
  <2>3. CASE j # n + 1
    BY <2>3, <1>0, <1>1
  <2> QED
    BY <2>1, <2>2, <2>3
<1> QED
  BY <1>4, <1>5 DEF u

\* A bucket of k requests takes one more.
LEMMA BucketFills ==
    ASSUME NEW s \in Seq(Nat), NEW t \in Nat, NEW k \in 1 .. rate, NEW l \in Nat,
           Ordered(s, t), Sparse(s), Filled(s, k, l), k <= Len(s), k < rate, l <= t, t - l <= window
    PROVE  Filled(Append(s, t), k + 1, l) /\ Sparse(Append(s, t))
<1> DEFINE n == Len(s)
           u == Append(s, t)
<1>0. n \in Nat /\ Len(u) = n + 1 /\ u[n + 1] = t /\ \A i \in 1 .. n : u[i] = s[i] /\ s[i] \in Nat
  BY Appended
<1>1. /\ \A i, j \in 1 .. n : i <= j /\ s[j] - s[i] <= window => j - i + 1 <= 2 * rate
      /\ \A i \in 1 .. n : /\ i > n - k => l <= s[i] /\ s[i] <= l + window
                           /\ i <= n - k => s[i] <= l
                           /\ i <= n - k /\ s[i] + window >= l => n - k - i + 1 <= rate
  BY DEF Sparse, Filled
<1>2. rate \in Nat /\ rate >= 1 /\ window \in Nat /\ k \in Nat /\ k >= 1 /\ k <= n
  BY PlaneAssumption
<1> HIDE DEF n, u
<1>3. Filled(u, k + 1, l)
  <2>1. Len(u) - (k + 1) = n - k
    BY <1>0, <1>2
  <2>2. ASSUME NEW i \in 1 .. n + 1
        PROVE  /\ i > n - k => l <= u[i] /\ u[i] <= l + window
               /\ i <= n - k => u[i] <= l
               /\ i <= n - k /\ u[i] + window >= l => n - k - i + 1 <= rate
    <3>1. CASE i = n + 1
      BY <3>1, <1>0, <1>2
    <3>2. CASE i # n + 1
      BY <3>2, <1>0, <1>1, SMTT(30)
    <3> QED
      BY <3>1, <3>2
  <2> QED
    BY <1>0, <2>1, <2>2 DEF Filled
<1>4. Sparse(u)
  <2> SUFFICES ASSUME NEW i \in 1 .. n + 1, NEW j \in 1 .. n + 1, i <= j, u[j] - u[i] <= window
               PROVE  j - i + 1 <= 2 * rate
    BY <1>0 DEF Sparse
  <2>1. CASE j = n + 1 /\ i > n - k
    BY <2>1, <1>0, <1>2
  <2>2. CASE j = n + 1 /\ i <= n - k
    <3>1. i \in 1 .. n /\ s[i] \in Nat /\ u[i] = s[i] /\ u[j] = t
      BY <2>2, <1>0, <1>2
    <3>2. s[i] + window >= l
      BY <3>1, <1>2
    <3>3. n - k - i + 1 <= rate
      BY <3>1, <3>2, <2>2, <1>1
    <3> QED
      BY <2>2, <3>1, <3>3, <1>0, <1>2
  <2>3. CASE j # n + 1
    BY <2>3, <1>0, <1>1
  <2> QED
    BY <2>1, <2>2, <2>3, <1>0, <1>2
<1> QED
  BY <1>3, <1>4 DEF u

\* One more request at time t, into the bucket c that Allow leaves.
LEMMA AllowFits ==
    ASSUME NEW s \in Seq(Nat), NEW b, NEW c, NEW t \in Nat, Fits(s, b, t),
           \/ (b = None \/ t - b.lastReset > window) /\ c = [count |-> 1, lastReset |-> t]
           \/ /\ b # None /\ t - b.lastReset <= window /\ b.count < rate
              /\ c = [b EXCEPT !.count = @ + 1]
    PROVE  Fits(Append(s, t), c, t)
<1>0. /\ rate \in Nat /\ rate >= 1 /\ window \in Nat /\ None \notin Bucket
      /\ Len(s) \in Nat /\ Len(Append(s, t)) = Len(s) + 1
  <2>1. None \notin Bucket
    BY PlaneAssumption DEF Bucket
  <2> QED
    BY <2>1, LimiterConstants, Appended
<1>1. Ordered(s, t) /\ Sparse(s) /\ Ordered(Append(s, t), t)
  BY OrderedStep DEF Fits
<1>2. CASE (b = None \/ t - b.lastReset > window) /\ c = [count |-> 1, lastReset |-> t]
  <2>1. c \in Bucket /\ c.count = 1 /\ c.lastReset = t /\ c # None
    BY <1>0, <1>2 DEF Bucket
  <2>2. ASSUME NEW i \in 1 .. Len(s), s[i] + window >= t PROVE Len(s) - i + 1 <= rate
    <3>0. s[i] \in Nat
      BY Appended
    <3>1. b # None
      BY <2>2, <3>0, <1>0 DEF Fits
    <3> DEFINE k == b.count
               l == b.lastReset
    <3>2. k \in 1 .. rate /\ l \in Nat /\ t - l > window /\ Filled(s, k, l)
      BY <3>1, <1>2 DEF Fits, Bucket
    <3> HIDE DEF k, l
    <3>3. i <= Len(s) - k => s[i] <= l
      BY <3>2 DEF Filled
    <3>4. ~(s[i] <= l)
      BY <3>0, <3>2, <2>2, <1>0
    <3> QED
      BY <3>2, <3>3, <3>4, <1>0, SMTT(30)
  <2>3. Filled(Append(s, t), 1, t) /\ Sparse(Append(s, t))
    BY <1>1, <2>2, BucketBegins
  <2>4. c.count \in 1 .. rate /\ c.count <= Len(Append(s, t)) /\ c.lastReset <= t
    BY <1>0, <2>1
  <2> HIDE DEF Filled, Sparse, Ordered
  <2> QED
    BY <1>1, <2>1, <2>3, <2>4 DEF Fits
<1>3. CASE /\ b # None /\ t - b.lastReset <= window /\ b.count < rate
           /\ c = [b EXCEPT !.count = @ + 1]
  <2>1. b \in Bucket /\ b.count \in 1 .. rate /\ b.count <= Len(s) /\ b.lastReset <= t /\ b.lastReset \in Nat
        /\ Filled(s, b.count, b.lastReset)
    BY <1>3 DEF Fits, Bucket
  <2>2. c \in Bucket /\ c.count = b.count + 1 /\ c.lastReset = b.lastReset /\ c # None
    BY <1>3, <2>1, <1>0, SMTT(30) DEF Bucket
  <2>3. Filled(Append(s, t), b.count + 1, b.lastReset) /\ Sparse(Append(s, t))
    BY <1>1, <1>3, <2>1, BucketFills
  <2>4. c.count \in 1 .. rate /\ c.count <= Len(Append(s, t)) /\ c.lastReset <= t
    BY <1>0, <1>3, <2>1, <2>2, SMTT(30)
  <2> QED
    BY <1>1, <2>2, <2>3, <2>4 DEF Fits
<1> QED
  BY <1>2, <1>3

\* Every step of the limiter, the clean-up and the gates.
LEMMA LimiterStep == RInv /\ [R!Next]_(R!vars) => RInv'
<1> SUFFICES ASSUME RInv, [R!Next]_(R!vars) PROVE RInv'
  OBVIOUS
<1>0. /\ rate \in Nat /\ window \in Nat /\ MaxTicks \in Nat /\ None \notin Bucket /\ tick \in 0 .. MaxTicks
      /\ admitted \in [Addresses -> Seq(Nat)] /\ requests \in [Addresses -> Bucket \cup {None}]
      /\ \A a \in Addresses : Fits(admitted[a], requests[a], tick)
  BY PlaneAssumption DEF RInv, R!TypeOK, Bucket
<1>1. ASSUME /\ tick' \in 0 .. MaxTicks /\ revoked' \subseteq {t.jti : t \in Bearers}
             /\ shown' \in [Endpoints -> R!statusKeys]
             /\ admitted' \in [Addresses -> Seq(Nat)] /\ requests' \in [Addresses -> Bucket \cup {None}]
             /\ \A a \in Addresses : Fits(admitted'[a], requests'[a], tick')
      PROVE  RInv'
  BY <1>1 DEF RInv, R!TypeOK, Fits
<1>2. revoked \subseteq {t.jti : t \in Bearers} /\ shown \in [Endpoints -> R!statusKeys]
  BY DEF RInv, R!TypeOK
<1>3. CASE UNCHANGED <<tick, requests, admitted, revoked, shown>>
  BY <1>0, <1>1, <1>2, <1>3
<1>4. CASE R!cleanup
  <2>1. /\ requests' = [a \in Addresses |->
               IF requests[a] # None /\ tick - requests[a].lastReset > 2 * window THEN None ELSE requests[a]]
        /\ UNCHANGED <<tick, admitted, revoked, shown>>
    BY <1>4 DEF R!cleanup
  <2>2. ASSUME NEW a \in Addresses PROVE Fits(admitted[a], requests'[a], tick)
    <3>1. CASE requests'[a] = requests[a]
      BY <1>0, <3>1
    <3>2. CASE requests[a] # None /\ tick - requests[a].lastReset > 2 * window /\ requests'[a] = None
      <4> DEFINE s == admitted[a]
                 b == requests[a]
      <4>1. Fits(s, b, tick) /\ s \in Seq(Nat)
        BY <1>0
      <4> HIDE DEF s, b
      <4>2. /\ b # None /\ b.count \in Nat /\ b.lastReset \in Nat /\ tick - b.lastReset > 2 * window
            /\ tick \in Nat /\ Len(s) \in Nat /\ \A i \in 1 .. Len(s) : s[i] \in Nat
        BY <1>0, <3>2, <4>1 DEF Fits, Bucket, s, b
      <4>3. ASSUME NEW i \in 1 .. Len(s) PROVE s[i] + window < tick
        <5>1. Filled(s, b.count, b.lastReset)
          BY <4>1, <4>2 DEF Fits
        <5>2. s[i] <= b.lastReset + window
          BY <1>0, <4>2, <5>1, SMTT(30) DEF Filled
        <5> QED
          BY <1>0, <4>2, <5>2
      <4> QED
        BY <3>2, <4>1, <4>3 DEF Fits, s
    <3> QED
      BY <2>1, <3>1, <3>2
  <2> QED
    BY <1>0, <1>1, <1>2, <2>1, <2>2
<1>5. CASE R!Tick
  <2>1. tick' = tick + 1 /\ tick' \in 0 .. MaxTicks /\ UNCHANGED <<requests, admitted, revoked, shown>>
    BY <1>0, <1>5 DEF R!Tick
  <2>2. ASSUME NEW a \in Addresses PROVE Fits(admitted[a], requests[a], tick + 1)
    <3> DEFINE s == admitted[a]
               b == requests[a]
    <3>1. Fits(s, b, tick) /\ s \in Seq(Nat)
      BY <1>0
    <3> HIDE DEF s, b
    <3>2. tick \in Nat /\ Len(s) \in Nat /\ \A i \in 1 .. Len(s) : s[i] \in Nat
      BY <1>0, <3>1
    <3>3. b # None => b.lastReset \in Nat
      BY <3>1 DEF Fits, Bucket
    <3>4. \A i, j \in 1 .. Len(s) : i <= j => s[i] <= s[j] /\ s[j] <= tick + 1
      BY <3>1, <3>2 DEF Fits, Ordered
    <3>5. b = None => \A i \in 1 .. Len(s) : s[i] + window < tick + 1
      BY <1>0, <3>1, <3>2 DEF Fits
    <3>6. b # None => b.lastReset <= tick + 1
      BY <3>1, <3>2, <3>3 DEF Fits
    <3>7. Ordered(s, tick + 1)
      BY <3>4 DEF Ordered
    <3>8. Fits(s, b, tick + 1)
      BY <3>1, <3>5, <3>6, <3>7 DEF Fits
    <3> QED
      BY <3>8 DEF s, b
  <2> QED
    BY <1>0, <1>1, <1>2, <2>1, <2>2
<1>6. ASSUME NEW a \in Addresses, NEW r \in {"/health", "/api"}, NEW t \in Bearers \cup {None}, R!SigmaRequest(a, r, t),
             ~UNCHANGED <<requests, admitted>>
      PROVE  RInv'
  <2>1. /\ requests' = [requests EXCEPT ![a] = R!Allow(a)] /\ UNCHANGED <<tick, revoked, shown>>
        /\ IF requests'[a] = requests[a] THEN UNCHANGED admitted
                                         ELSE admitted' = [admitted EXCEPT ![a] = Append(@, tick)]
    BY <1>6 DEF R!SigmaRequest
  <2>2. requests'[a] = R!Allow(a) /\ \A x \in Addresses : x # a => requests'[x] = requests[x]
    BY <1>0, <2>1
  <2>3. requests'[a] # requests[a]
    <3> SUFFICES ASSUME requests'[a] = requests[a] PROVE FALSE
      OBVIOUS
    <3>1. requests' = requests
      <4>1. requests' \in [Addresses -> Bucket \cup {None}] /\ \A x \in Addresses : requests'[x] = requests[x]
        BY <1>0, <2>1, <2>2
      <4> QED
        BY <1>0, <4>1
    <3> QED
      BY <1>6, <2>1, <3>1
  <2>4. Fits(Append(admitted[a], tick), requests'[a], tick)
    <3>1. admitted[a] \in Seq(Nat) /\ tick \in Nat /\ Fits(admitted[a], requests[a], tick)
      BY <1>0
    <3>2. requests[a] # None => requests[a].lastReset \in Nat
      BY <3>1 DEF Fits, Bucket
    <3>3. \/ (requests[a] = None \/ tick - requests[a].lastReset > window) /\ requests'[a] = [count |-> 1, lastReset |-> tick]
          \/ /\ requests[a] # None /\ tick - requests[a].lastReset <= window /\ requests[a].count < rate
             /\ requests'[a] = [requests[a] EXCEPT !.count = @ + 1]
      BY <1>0, <2>2, <2>3, <3>1, <3>2 DEF R!Allow
    <3> QED
      BY <3>1, <3>3, AllowFits
  <2>5. admitted' = [admitted EXCEPT ![a] = Append(@, tick)]
    BY <2>1, <2>3
  <2>6. requests' \in [Addresses -> Bucket \cup {None}]
    <3>1. requests'[a] \in Bucket \cup {None}
      BY <2>4 DEF Fits
    <3> QED
      BY <1>0, <2>1, <2>2, <3>1
  <2>7. /\ admitted' \in [Addresses -> Seq(Nat)]
        /\ admitted'[a] = Append(admitted[a], tick) /\ \A x \in Addresses : x # a => admitted'[x] = admitted[x]
    <3>1. tick \in Nat /\ admitted[a] \in Seq(Nat)
      BY <1>0
    <3>2. Append(admitted[a], tick) \in Seq(Nat)
      BY <3>1
    <3> QED
      BY <1>0, <2>5, <3>2
  <2>8. ASSUME NEW x \in Addresses PROVE Fits(admitted'[x], requests'[x], tick)
    BY <1>0, <2>2, <2>4, <2>7
  <2> QED
    BY <1>0, <1>1, <1>2, <2>1, <2>6, <2>7, <2>8
<1>7. CASE R!SigmaNext
  BY <1>3, <1>4, <1>5, <1>6, <1>7 DEF R!SigmaNext, R!SigmaRequest
<1>8. CASE R!ManagerNext
  <2>1. revoked' \subseteq {t.jti : t \in Bearers} /\ UNCHANGED <<tick, requests, admitted, shown>>
    BY <1>2, <1>8 DEF R!ManagerNext, R!ManagerRequest, R!Blacklist
  <2> QED
    BY <1>0, <1>1, <1>2, <2>1
<1>9. CASE R!StatsNext
  <2>1. shown' \in [Endpoints -> R!statusKeys] /\ UNCHANGED <<tick, requests, admitted, revoked>>
    BY <1>2, <1>9 DEF R!StatsNext, R!GetAgentStats, R!CountAgents, R!Moves, R!statusKeys
  <2> QED
    BY <1>0, <1>1, <1>2, <2>1
<1>10. CASE UNCHANGED R!vars
  BY <1>3, <1>10 DEF R!vars
<1> QED
  BY <1>7, <1>8, <1>9, <1>10 DEF R!Next

\* RInv holds in every reachable state.
LEMMA LimiterInvariance == PlaneSpec => []RInv
<1>1. PlaneInit => RInv
  <2> SUFFICES ASSUME R!Init PROVE RInv
    BY DEF PlaneInit
  <2>1. R!TypeOK
    BY PlaneAssumption DEF R!Init, R!TypeOK, R!statusKeys
  <2>2. ASSUME NEW a \in Addresses PROVE Fits(admitted[a], requests[a], tick)
    BY DEF R!Init, Fits, Ordered, Sparse, Filled
  <2> QED
    BY <2>1, <2>2 DEF R!Init, RInv
<1>2. RInv /\ [PlaneNext]_planeVars => RInv'
  BY LimiterStep, PartsMove
<1> QED
  BY <1>1, <1>2, PTL DEF PlaneSpec

\* Sparse times are at most twice the rate in a window.
LEMMA WindowFollows == RInv => R!WindowHolds
<1> SUFFICES ASSUME RInv, NEW a \in Addresses, NEW i \in 1 .. Len(admitted[a])
             PROVE  Cardinality({j \in i .. Len(admitted[a]) : admitted[a][j] - admitted[a][i] <= window}) <= 2 * rate
  BY CountsAlike DEF R!WindowHolds
<1> DEFINE W == {j \in i .. Len(admitted[a]) : admitted[a][j] - admitted[a][i] <= window}
           m == i + 2 * rate - 1
<1>1. i \in Nat /\ rate \in Nat /\ Len(admitted[a]) \in Nat /\ i >= 1 /\ m \in Int /\ i \in Int /\ rate >= 1
  BY PlaneAssumption DEF RInv
<1>2. W \subseteq i .. m
  BY <1>1 DEF RInv, Fits, Sparse
<1>3. IsFiniteSet(i .. m) /\ Cardinality(i .. m) = IF i > m THEN 0 ELSE m - i + 1
  BY <1>1, FS_Interval
<1>4. Cardinality(W) <= Cardinality(i .. m)
  BY <1>2, <1>3, FS_Subset
<1>5. Cardinality(i .. m) = 2 * rate
  BY <1>1, <1>3
<1> QED
  BY <1>4, <1>5
-----------------------------------------------------------------------------
(* The lists.                                                                *)

\* Where a row stands in a list whose column is unique.
From(r, X) == {s \in X : IF order = "asc" THEN s <= r ELSE s >= r}
Rank(r) == Cardinality(From(r, P!Matching))

\* A walk the theorem is about.
Walks == of \notin P!Sigma /\ sort = "unique" /\ ~broken

\* Until such a walk ends, the rows it began with that stand no later than its offset, or than the
\* page it holds, were shown to the client or are on that page.
PInv ==
    /\ P!TypeOK
    /\ filter \in [kind : {None, 1}, other : {None, 1}]
    /\ Walks => start \subseteq P!Matching
    /\ Walks /\ at = "first" => \A r \in start : Rank(r) <= offset => r \in walked
    /\ Walks /\ at = "second" =>
         \A r \in start : (P!Limit > 0 => Rank(r) <= offset + P!Limit) => r \in walked \cup page

\* In a sequence that runs up, or down, through all of X the i-th is the one with i up to it.
LEMMA PlaceIsRank ==
    ASSUME NEW N \in Nat, NEW X \in SUBSET (1 .. N), NEW q \in [1 .. Cardinality(X) -> X],
           \A i, j \in 1 .. Cardinality(X) :
               i < j => IF order = "asc" THEN q[i] < q[j] ELSE q[i] > q[j]
    PROVE  \A r \in X : \E i \in 1 .. Cardinality(X) : q[i] = r /\ Cardinality(From(r, X)) = i
<1> DEFINE n == Cardinality(X)
<1>1. IsFiniteSet(X) /\ n \in Nat
  <2>1. 1 \in Int /\ N \in Int
    OBVIOUS
  <2>2. IsFiniteSet(1 .. N)
    BY <2>1, FS_Interval
  <2>3. IsFiniteSet(X)
    BY <2>2, FS_Subset
  <2> QED
    BY <2>3, FS_CardinalityType
<1>2. IsFiniteSet(1 .. n) /\ Cardinality(1 .. n) = n
  <2>1. 1 \in Int /\ n \in Int
    BY <1>1
  <2>2. IsFiniteSet(1 .. n) /\ Cardinality(1 .. n) = IF 1 > n THEN 0 ELSE n - 1 + 1
    BY <2>1, FS_Interval
  <2> QED
    BY <1>1, <2>2
<1>3. n = Cardinality(X) /\ \A i, j \in 1 .. n : i < j => IF order = "asc" THEN q[i] < q[j] ELSE q[i] > q[j]
  OBVIOUS
<1>4. q \in [1 .. n -> X] /\ \A i \in 1 .. n : q[i] \in X /\ q[i] \in Nat
  <2>1. q \in [1 .. n -> X] /\ \A x \in X : x \in Nat
    OBVIOUS
  <2> HIDE DEF n
  <2> QED
    BY <2>1
<1> HIDE DEF n
<1>5. \A i, j \in 1 .. n : q[i] = q[j] => i = j
  <2> SUFFICES ASSUME NEW i \in 1 .. n, NEW j \in 1 .. n, q[i] = q[j], i < j PROVE FALSE
    BY <1>1
  <2> QED
    BY <1>3, <1>4
<1>6. q \in Injection(1 .. n, X)
  BY <1>4, <1>5 DEF Injection, IsInjective
<1>7. q \in Surjection(1 .. n, X)
  BY <1>1, <1>2, <1>3, <1>6, FS_Injection
<1> SUFFICES ASSUME NEW r \in X PROVE \E i \in 1 .. n : q[i] = r /\ Cardinality(From(r, X)) = i
  BY <1>3
<1>8. PICK i \in 1 .. n : q[i] = r
  BY <1>7 DEF Surjection
<1>9. Cardinality(From(r, X)) = i
  <2> DEFINE f == [j \in 1 .. i |-> q[j]]
  <2>1. \A j \in 1 .. n : j <= i <=> IF order = "asc" THEN q[j] <= r ELSE q[j] >= r
    BY <1>1, <1>3, <1>4, <1>8
  <2>2. 1 .. i \subseteq 1 .. n
    BY <1>1
  <2>3. f \in [1 .. i -> From(r, X)]
    BY <1>1, <1>4, <2>1, <2>2 DEF From
  <2>4. f \in Injection(1 .. i, From(r, X))
    BY <1>5, <2>2, <2>3 DEF Injection, IsInjective
  <2>5. \A x \in From(r, X) : \E j \in 1 .. i : f[j] = x
    <3> SUFFICES ASSUME NEW x \in From(r, X) PROVE \E j \in 1 .. i : f[j] = x
      OBVIOUS
    <3>1. PICK j \in 1 .. n : q[j] = x
      BY <1>7 DEF Surjection, From
    <3>2. j \in 1 .. i
      BY <1>1, <2>1, <3>1 DEF From
    <3> QED
      BY <3>1, <3>2
  <2>6. f \in Bijection(1 .. i, From(r, X))
    BY <2>3, <2>4, <2>5 DEF Bijection, Surjection
  <2>7. ExistsBijection(1 .. i, From(r, X))
    BY <2>6 DEF ExistsBijection
  <2>8. IsFiniteSet(1 .. i) /\ Cardinality(1 .. i) = i
    <3>1. 1 \in Int /\ i \in Int /\ i >= 1
      BY <1>1
    <3>2. IsFiniteSet(1 .. i) /\ Cardinality(1 .. i) = IF 1 > i THEN 0 ELSE i - 1 + 1
      BY <3>1, FS_Interval
    <3> QED
      BY <3>1, <3>2
  <2> HIDE DEF f
  <2> QED
    BY <2>7, <2>8, FS_Bijection
<1> QED
  BY <1>8, <1>9

\* What every listing compares with: finite sets of rows, whichever table is listed.
LEMMA RowsMatch ==
    ASSUME P!TypeOK
    PROVE  /\ P!Matching = P!Where(filter, table) /\ P!Matching \subseteq table /\ P!Limit \in Int
           /\ \A X \in SUBSET (1 .. MaxRows) : IsFiniteSet(X) /\ Cardinality(X) \in Nat
           /\ \A X, Y \in SUBSET (1 .. MaxRows) : X \subseteq Y => Cardinality(X) <= Cardinality(Y)
<1>1. P!Matching = P!Where(filter, table)
  BY DEF P!Matching, P!ListRulesWhere, P!QueryAlertsWhere, P!AgentsWhere, P!AuditWhere, P!TypeOK,
         P!Sigma, P!Manager, P!Uncalled
<1>2. P!Matching \subseteq table
  BY <1>1 DEF P!Where
<1>3. P!Limit \in Int
  BY PlaneAssumption DEF P!TypeOK, P!Limit, P!sigmaLimit, P!agentsLimit
<1>4. IsFiniteSet(1 .. MaxRows)
  BY PlaneAssumption, FS_Interval
<1>5. ASSUME NEW X \in SUBSET (1 .. MaxRows) PROVE IsFiniteSet(X) /\ Cardinality(X) \in Nat
  BY <1>4, FS_Subset, FS_CardinalityType
<1>6. ASSUME NEW X \in SUBSET (1 .. MaxRows), NEW Y \in SUBSET (1 .. MaxRows), X \subseteq Y
      PROVE  Cardinality(X) <= Cardinality(Y)
  BY <1>5, <1>6, FS_Subset
<1> QED
  BY <1>1, <1>2, <1>3, <1>5, <1>6

\* A page of such a walk holds the rows that stand behind the offset and within the limit.
LEMMA PageHolds ==
    ASSUME P!TypeOK, NEW rows \in P!Pages
    PROVE  /\ rows \subseteq P!Matching
           /\ sort = "unique" => \A r \in P!Matching :
                Rank(r) > offset /\ (P!Limit > 0 => Rank(r) <= offset + P!Limit) => r \in rows
<1> DEFINE X == P!Matching
           n == Cardinality(X)
<1>1. PICK q \in P!Orders(X) : rows = P!Slice(q, n)
  BY CountsAlike DEF P!Pages
<1>2. q \in [1 .. n -> X] /\ \A i, j \in 1 .. n : i < j => q[i] # q[j] /\ ~P!Before(q[j], q[i])
  BY CountsAlike DEF P!Orders
<1>3. rows = {q[i] : i \in {j \in 1 .. n : offset < j /\ (P!Limit > 0 => j <= offset + P!Limit)}}
  BY <1>1 DEF P!Slice
<1>4. rows \subseteq X
  BY <1>2, <1>3
<1>5. X \in SUBSET (1 .. MaxRows) /\ MaxRows \in Nat /\ n \in Nat
  BY RowsMatch, PlaneAssumption DEF P!TypeOK
<1>6. ASSUME sort = "unique", NEW r \in X,
             Rank(r) > offset, P!Limit > 0 => Rank(r) <= offset + P!Limit
      PROVE  r \in rows
  <2>1. \A i, j \in 1 .. n : i < j => IF order = "asc" THEN q[i] < q[j] ELSE q[i] > q[j]
    <3> SUFFICES ASSUME NEW i \in 1 .. n, NEW j \in 1 .. n, i < j
                 PROVE  IF order = "asc" THEN q[i] < q[j] ELSE q[i] > q[j]
      OBVIOUS
    <3>1. q[i] # q[j] /\ ~P!Before(q[j], q[i]) /\ q[i] \in X /\ q[j] \in X
      BY <1>2
    <3>2. ~(IF order = "asc" THEN q[j] < q[i] ELSE q[i] < q[j])
      BY <1>6, <3>1 DEF P!Before
    <3>3. q[i] \in Nat /\ q[j] \in Nat
      <4>1. \A x \in X : x \in Nat
        BY <1>5
      <4> HIDE DEF X
      <4> QED
        BY <3>1, <4>1
    <3> QED
      BY <3>1, <3>2, <3>3
  <2> HIDE DEF X
  <2>2. PICK i \in 1 .. n : q[i] = r /\ Cardinality(From(r, X)) = i
    BY <1>2, <1>5, <2>1, PlaceIsRank
  <2>3. Rank(r) = i
    BY <2>2 DEF Rank, X
  <2> QED
    BY <1>3, <1>6, <2>2, <2>3
<1> QED
  BY <1>4, <1>6

\* Rows that come to match leave those that matched in place, or push them back.
LEMMA RowsOnlyPushBack ==
    ASSUME P!TypeOK, P!TypeOK', P!Matching \subseteq P!Matching', UNCHANGED order
    PROVE  \A r \in P!Matching : Rank(r) <= Rank(r)' /\ Rank(r) \in Nat /\ Rank(r)' \in Nat
<1>1. P!Matching \subseteq 1 .. MaxRows
  BY RowsMatch DEF P!TypeOK
<1>2. P!Matching' \subseteq 1 .. MaxRows
  <2>1. P!Matching' \subseteq table'
    BY DEF P!Matching, P!ListRulesWhere, P!QueryAlertsWhere, P!AgentsWhere, P!AuditWhere, P!TypeOK,
           P!Sigma, P!Manager, P!Uncalled, P!Where
  <2> QED
    BY <2>1 DEF P!TypeOK
<1> SUFFICES ASSUME NEW r \in P!Matching
             PROVE  Rank(r) <= Rank(r)' /\ Rank(r) \in Nat /\ Rank(r)' \in Nat
  OBVIOUS
<1>3. From(r, P!Matching) \subseteq From(r, P!Matching)'
  BY DEF From
<1>4. From(r, P!Matching) \in SUBSET (1 .. MaxRows) /\ From(r, P!Matching)' \in SUBSET (1 .. MaxRows)
  BY <1>1, <1>2 DEF From
<1>5. Rank(r) = Cardinality(From(r, P!Matching)) /\ Rank(r)' = Cardinality(From(r, P!Matching)')
  BY DEF Rank
<1> QED
  BY <1>3, <1>4, <1>5, RowsMatch

\* COUNT looks at fewer filters than the page, so it counts no fewer rows.
LEMMA CountCovers ==
    ASSUME PInv
    PROVE  /\ P!Count \in Nat
           /\ of \notin P!Sigma => \A r \in P!Matching : Rank(r) <= P!Count /\ Rank(r) \in Nat
<1>0. P!TypeOK /\ filter \in [kind : {None, 1}, other : {None, 1}]
  BY DEF PInv
<1> DEFINE W == P!Where([filter EXCEPT !.other = None], table)
<1>1. P!Matching = P!Where(filter, table) /\ P!Matching \subseteq table /\ table \subseteq 1 .. MaxRows
  BY <1>0, RowsMatch DEF P!TypeOK
<1>2. P!Matching \subseteq W /\ W \subseteq table
  BY <1>0, <1>1 DEF P!Where
<1>3. P!Count = IF of \in P!Sigma THEN Cardinality(P!Matching) ELSE Cardinality(W)
  BY <1>0, CountsAlike DEF P!Count, P!CountAgents, P!CountAudit, P!TypeOK, P!Sigma, P!Manager, P!Uncalled
<1> HIDE DEF W
<1>4. P!Count \in Nat
  BY <1>0, <1>1, <1>2, <1>3, RowsMatch
<1>5. ASSUME of \notin P!Sigma, NEW r \in P!Matching PROVE Rank(r) <= P!Count /\ Rank(r) \in Nat
  <2>1. From(r, P!Matching) \subseteq W /\ From(r, P!Matching) \in SUBSET (1 .. MaxRows) /\ W \in SUBSET (1 .. MaxRows)
    BY <1>1, <1>2 DEF From
  <2> QED
    BY <1>0, <1>3, <1>5, <2>1, RowsMatch DEF Rank
<1> QED
  BY <1>4, <1>5

\* The answer to a page: what stood within it was shown.
LEMMA AnsweredStep ==
    ASSUME PInv, at = "second", NEW rows, NEW m, P!Answered(rows, m), rows \subseteq 1 .. MaxRows,
           of \notin P!Sigma => rows = page, broken' \in {broken, TRUE}
    PROVE  PInv'
<1>1. /\ P!TypeOK /\ walked' = walked \cup rows /\ page' = {} /\ total' = 0
      /\ UNCHANGED <<table, keyColumn, kindColumn, changes, of, sort, order, filter, asked, start>>
      /\ \/ P!Limit > 0 /\ at' = "first" /\ offset' = offset + P!Limit
         \/ at' = "done" /\ offset' = offset
  BY DEF P!Answered, P!rows, P!walk, PInv
<1>2. P!TypeOK'
  <2>1. broken' \in BOOLEAN
    BY <1>1, Zenon DEF P!TypeOK
  <2>2. walked' \subseteq 1 .. MaxRows /\ page' \subseteq 1 .. MaxRows /\ total' \in Nat
    BY <1>1 DEF P!TypeOK
  <2>3. offset' \in Nat /\ at' \in {"first", "second", "done"}
    BY <1>1, RowsMatch DEF P!TypeOK
  <2> QED
    BY <1>1, <2>1, <2>2, <2>3 DEF P!TypeOK
<1>3. P!Matching' = P!Matching /\ \A r : Rank(r)' = Rank(r)
  BY <1>1 DEF P!Matching, P!ListRulesWhere, P!QueryAlertsWhere, P!AgentsWhere, P!AuditWhere, P!Where, Rank, From
<1>4. Walks' => Walks
  BY <1>1 DEF Walks, P!Sigma
<1>5. CASE at' = "first"
  BY <1>1, <1>2, <1>3, <1>4, <1>5 DEF PInv, Walks
<1>6. CASE at' = "done"
  BY <1>1, <1>2, <1>3, <1>4, <1>6 DEF PInv
<1> QED
  BY <1>1, <1>5, <1>6

\* A step in which rows come, go or change, and the walk stands still.
LEMMA RowsStep ==
    ASSUME PInv, P!TypeOK',
           UNCHANGED <<of, sort, order, filter, asked, at, offset, page, total, start, walked>>,
           broken' \/ (broken' = broken /\ P!Matching \subseteq P!Matching')
    PROVE  PInv'
<1>1. CASE broken'
  BY <1>1 DEF PInv, Walks
<1>2. CASE ~Walks'
  BY <1>2 DEF PInv
<1>3. CASE ~broken' /\ Walks'
  <2>0. P!TypeOK /\ Walks /\ start \subseteq P!Matching
    BY <1>3 DEF PInv, Walks, P!Sigma
  <2>1. P!Matching \subseteq P!Matching'
    BY <1>3
  <2>2. \A r \in P!Matching : Rank(r) <= Rank(r)' /\ Rank(r) \in Nat /\ Rank(r)' \in Nat
    BY <2>0, <2>1, RowsOnlyPushBack
  <2>3. P!Limit' = P!Limit /\ P!Limit \in Int /\ offset \in Nat
    BY <2>0, RowsMatch DEF P!Limit, P!sigmaLimit, P!agentsLimit, P!TypeOK, P!Sigma
  <2>4. ASSUME at' = "first", NEW r \in start', Rank(r)' <= offset' PROVE r \in walked'
    <3>1. r \in start /\ r \in P!Matching
      BY <2>0
    <3>2. Rank(r) <= offset
      BY <2>2, <2>3, <2>4, <3>1
    <3> QED
      BY <2>0, <2>4, <3>1, <3>2 DEF PInv
  <2>5. ASSUME at' = "second", NEW r \in start', P!Limit' > 0 => Rank(r)' <= offset' + P!Limit'
        PROVE  r \in walked' \cup page'
    <3>1. r \in start /\ r \in P!Matching
      BY <2>0
    <3>2. P!Limit > 0 => Rank(r) <= offset + P!Limit
      BY <2>2, <2>3, <2>5, <3>1
    <3> QED
      BY <2>0, <2>5, <3>1, <3>2 DEF PInv
  <2> QED
    BY <2>0, <2>1, <2>4, <2>5 DEF PInv
<1> QED
  BY <1>1, <1>2, <1>3

\* Every statement of a page, and every row that is added, changed or removed.
LEMMA ListingStep == PInv /\ [P!Next]_(P!vars) => PInv'
<1> SUFFICES ASSUME PInv, [P!Next]_(P!vars) PROVE PInv'
  OBVIOUS
<1>0. P!TypeOK
  BY DEF PInv
<1>1. CASE P!Insert
  <2>1. /\ table \subseteq table' /\ table' \subseteq 1 .. MaxRows
        /\ UNCHANGED <<keyColumn, kindColumn, changes, broken>>
        /\ UNCHANGED <<of, sort, order, filter, asked, at, offset, page, total, start, walked>>
    BY <1>0, <1>1 DEF P!Insert, P!walk, P!TypeOK
  <2>2. P!TypeOK'
    BY <1>0, <2>1 DEF P!TypeOK
  <2>3. P!Matching \subseteq P!Matching'
    BY <1>0, <2>1 DEF P!Matching, P!ListRulesWhere, P!QueryAlertsWhere, P!AgentsWhere, P!AuditWhere,
       P!Where, P!TypeOK, P!Sigma, P!Manager, P!Uncalled
  <2> QED
    BY <2>1, <2>2, <2>3, RowsStep
<1>7. ASSUME NEW r \in 1 .. MaxRows, P!UpdateKey(r) \/ P!UpdateStatus(r) \/ P!Delete(r) PROVE PInv'
  <2>1. P!Changes
    BY <1>7 DEF P!UpdateKey, P!UpdateStatus, P!Delete
  <2>2. /\ UNCHANGED <<of, sort, order, filter, asked, at, offset, page, total, start, walked>>
        /\ broken' = (broken \/ ~(P!Matching \subseteq P!Matching'))
        /\ changes' = changes + 1 /\ changes < MaxChanges
    BY <2>1 DEF P!Changes, P!walk
  <2>3. changes' \in 0 .. MaxChanges /\ broken' \in BOOLEAN
    BY <1>0, <2>2, PlaneAssumption DEF P!TypeOK
  <2>4. /\ table' \subseteq 1 .. MaxRows /\ keyColumn' \in [1 .. MaxRows -> {1, 2}]
        /\ kindColumn' \in [1 .. MaxRows -> {1, 2}]
    <3>1. \A c \in {1, 2} : 3 - c \in {1, 2}
      OBVIOUS
    <3> QED
      BY <1>0, <1>7, <3>1 DEF P!UpdateKey, P!UpdateStatus, P!Delete, P!TypeOK
  <2>5. P!TypeOK'
    BY <1>0, <2>2, <2>3, <2>4 DEF P!TypeOK
  <2>6. broken' \/ (broken' = broken /\ P!Matching \subseteq P!Matching')
    BY <1>0, <2>2 DEF P!TypeOK
  <2> QED
    BY <2>2, <2>5, <2>6, RowsStep
<1>2. CASE P!CountFirst
  <2>1. P!Count \in Nat
    BY CountCovers
  <2>2. /\ of \in P!Sigma /\ total' \in Nat /\ at' = "second"
        /\ UNCHANGED <<table, keyColumn, kindColumn, changes, broken, of, sort, order, filter, asked,
                       offset, page, start, walked>>
    BY <1>2, <2>1 DEF P!CountFirst, P!rows, P!walk
  <2>3. P!TypeOK' /\ ~Walks'
    BY <1>0, <2>2 DEF P!TypeOK, Walks, P!Sigma
  <2> QED
    BY <2>2, <2>3 DEF PInv
<1>3. CASE P!ListFirst
  <2>1. /\ at = "first" /\ of \notin P!Sigma /\ page' \in P!Pages /\ at' = "second"
        /\ UNCHANGED <<table, keyColumn, kindColumn, changes, broken, of, sort, order, filter, asked,
                       offset, total, start, walked>>
    BY <1>3 DEF P!ListFirst, P!rows, P!walk
  <2>2. /\ page' \subseteq P!Matching
        /\ sort = "unique" => \A r \in P!Matching :
             Rank(r) > offset /\ (P!Limit > 0 => Rank(r) <= offset + P!Limit) => r \in page'
    BY <1>0, <2>1, PageHolds
  <2>3. P!TypeOK'
    BY <1>0, <2>1, <2>2, RowsMatch DEF P!TypeOK
  <2>4. P!Matching' = P!Matching /\ P!Limit' = P!Limit /\ \A r : Rank(r)' = Rank(r)
    BY <2>1 DEF P!Matching, P!ListRulesWhere, P!QueryAlertsWhere, P!AgentsWhere, P!AuditWhere, P!Where, Rank,
                From, P!Limit, P!sigmaLimit, P!agentsLimit, P!Sigma
  <2>5. Walks' <=> Walks
    BY <2>1 DEF Walks, P!Sigma
  <2>6. ASSUME Walks, NEW r \in start, P!Limit > 0 => Rank(r) <= offset + P!Limit
        PROVE  r \in walked \cup page'
    <3>1. r \in P!Matching /\ Rank(r) \in Nat /\ offset \in Nat
      BY <1>0, <2>1, <2>6, CountCovers DEF P!TypeOK, PInv
    <3>2. Rank(r) <= offset => r \in walked
      BY <2>1, <2>6 DEF PInv
    <3> QED
      BY <2>2, <2>6, <3>1, <3>2 DEF Walks
  <2> QED
    BY <1>0, <2>1, <2>3, <2>4, <2>5, <2>6 DEF PInv
<1>4. CASE P!ListRules \/ P!QueryAlerts
  <2>1. PICK rows \in P!Pages : P!Answered(rows, total)
    BY <1>4 DEF P!ListRules, P!QueryAlerts, P!RulesPages, P!AlertsPages
  <2>2. at = "second" /\ of \in P!Sigma /\ broken' = broken
    BY <1>4 DEF P!ListRules, P!QueryAlerts, P!Sigma
  <2>3. rows \subseteq 1 .. MaxRows
    BY <1>0, PageHolds, RowsMatch DEF P!TypeOK
  <2> QED
    BY <2>1, <2>2, <2>3, AnsweredStep
<1>5. CASE P!ListAgents \/ P!CountFails
  <2>1. at = "second" /\ page \subseteq 1 .. MaxRows /\ broken' \in {broken, TRUE}
    BY <1>0, <1>5 DEF P!ListAgents, P!CountFails, P!TypeOK
  <2>2. PICK m : P!Answered(page, m)
    BY <1>5 DEF P!ListAgents, P!CountFails
  <2> QED
    BY <2>1, <2>2, AnsweredStep, Zenon
<1>6. CASE UNCHANGED P!vars
  <2>1. UNCHANGED <<table, keyColumn, kindColumn, changes, broken, of, sort, order, filter, asked, at, offset, page,
                    total, start, walked>>
    BY <1>6 DEF P!vars
  <2>2. P!TypeOK'
    BY <1>0, <2>1 DEF P!TypeOK
  <2>3. P!Matching' = P!Matching /\ P!Limit' = P!Limit /\ \A r : Rank(r)' = Rank(r)
    BY <2>1 DEF P!Matching, P!ListRulesWhere, P!QueryAlertsWhere, P!AgentsWhere, P!AuditWhere, P!Where, Rank,
                From, P!Limit, P!sigmaLimit, P!agentsLimit, P!Sigma
  <2>4. Walks' <=> Walks
    BY <2>1 DEF Walks, P!Sigma
  <2> QED
    BY <2>1, <2>2, <2>3, <2>4 DEF PInv
<1> QED
  BY <1>1, <1>2, <1>3, <1>4, <1>5, <1>6, <1>7 DEF P!Next

\* PInv holds in every reachable state.
LEMMA ListingInvariance == PlaneSpec => []PInv
<1>1. PlaneInit => PInv
  <2> SUFFICES ASSUME P!Init PROVE PInv
    BY DEF PlaneInit
  <2>1. PICK n \in 0 .. Cardinality(1 .. MaxRows) : table = 1 .. n
    BY CountsAlike DEF P!Init
  <2>2. Cardinality(1 .. MaxRows) = MaxRows /\ MaxRows \in Nat
    <3>1. 1 \in Int /\ MaxRows \in Int /\ MaxRows \in Nat
      BY PlaneAssumption
    <3>2. Cardinality(1 .. MaxRows) = IF 1 > MaxRows THEN 0 ELSE MaxRows - 1 + 1
      BY <3>1, FS_Interval
    <3> QED
      BY <3>1, <3>2
  <2>3. table \subseteq 1 .. MaxRows
    BY <2>1, <2>2
  <2>4. P!Matching \subseteq table
    BY DEF P!Init, P!Matching, P!ListRulesWhere, P!QueryAlertsWhere, P!AgentsWhere, P!AuditWhere, P!Where,
           P!Sigma, P!Manager, P!Uncalled
  <2>5. P!TypeOK
    <3>1. broken \in BOOLEAN
      BY Zenon DEF P!Init
    <3> QED
      BY <2>3, <2>4, <3>1, PlaneAssumption DEF P!Init, P!TypeOK
  <2>6. ASSUME NEW r \in start, Rank(r) <= 0 PROVE FALSE
    <3> DEFINE F == From(r, P!Matching)
    <3>1. r \in F /\ F \in SUBSET (1 .. MaxRows)
      <4>1. start = P!Matching
        BY DEF P!Init
      <4>2. r \in P!Matching /\ r \in 1 .. MaxRows
        BY <2>3, <2>4, <4>1
      <4>3. r >= r /\ r <= r
        BY <4>2
      <4> QED
        BY <2>3, <2>4, <4>2, <4>3 DEF From
    <3>2. IsFiniteSet(F) /\ Cardinality(F) \in Nat
      BY <3>1, <2>5, RowsMatch
    <3>3. Cardinality(F) = 0
      BY <2>6, <3>2 DEF Rank
    <3> HIDE DEF F
    <3> QED
      BY <3>1, <3>2, <3>3, FS_EmptySet
  <2> QED
    BY <2>5, <2>6 DEF P!Init, PInv
<1>2. PInv /\ [PlaneNext]_planeVars => PInv'
  BY ListingStep, PartsMove
<1> QED
  BY <1>1, <1>2, PTL DEF PlaneSpec

\* A walk through the pages of ListAgents in an order that is unique and stays shows every agent that
\* matched when it began, whatever rows come to match between its statements and its pages, unless a
\* row stops to match or a COUNT fails.
THEOREM WalkIsComplete == PlaneSpec => PagesCover
<1>1. ASSUME PInv, [P!Next]_(P!vars)
      PROVE  [at' = "done" /\ of \notin P!Sigma /\ sort = "unique" /\ ~broken'
                => start \subseteq walked']_(P!vars)
  <2> SUFFICES ASSUME P!Next, at' = "done", of \notin P!Sigma, sort = "unique", ~broken'
               PROVE  start \subseteq walked'
    BY <1>1
  <2>1. at = "second" /\ P!Answered(page, P!Count) /\ broken' = broken
    BY DEF P!Next, P!Insert, P!Changes, P!UpdateKey, P!UpdateStatus, P!Delete, P!CountFirst, P!ListFirst,
           P!ListRules, P!QueryAlerts, P!ListAgents, P!CountFails, P!Sigma
  <2>2. walked' = walked \cup page /\ ~(offset + P!Limit < P!Count /\ P!Limit > 0)
    BY <2>1 DEF P!Answered, P!HasMore
  <2>3. ASSUME NEW r \in start PROVE r \in walked \cup page
    <3>0. Walks /\ r \in P!Matching
      BY <1>1, <2>1 DEF Walks, PInv
    <3>1. Rank(r) <= P!Count /\ Rank(r) \in Nat /\ P!Count \in Nat /\ offset \in Nat /\ P!Limit \in Int
      BY <1>1, <3>0, CountCovers, RowsMatch DEF PInv, P!TypeOK
    <3>2. P!Limit > 0 => Rank(r) <= offset + P!Limit
      BY <2>2, <3>1
    <3> QED
      BY <1>1, <2>1, <3>0, <3>2 DEF PInv
  <2> QED
    BY <2>2, <2>3
<1>2. PInv /\ [PlaneNext]_planeVars
         => [at' = "done" /\ of \notin P!Sigma /\ sort = "unique" /\ ~broken'
               => start \subseteq walked']_(P!vars)
  BY <1>1, PartsMove
<1> QED
  BY <1>2, ListingInvariance, PTL DEF PlaneSpec, PagesCover, P!PagesCover
-----------------------------------------------------------------------------
(* The dead letters.                                                         *)

\* The reader is one letter behind what it fetched and marks in order: all up to the mark were
\* handled, and no commit is past the mark.
DInv ==
    /\ D!TypeOK
    /\ committed <= marked
    /\ 1 .. marked \subseteq handled
    /\ running /\ held = None => next = marked + 1
    /\ held # None => running /\ held = marked + 1 /\ next = marked + 2
    /\ ~running => marked = IF committed > 0 THEN committed ELSE 0

\* Every step of the reader, with a crash anywhere.
LEMMA LettersStep == DInv /\ [D!Next]_(D!vars) => DInv'
<1> SUFFICES ASSUME DInv, [D!Next]_(D!vars) PROVE DInv'
  OBVIOUS
<1>0. /\ MaxLetters \in Nat /\ MaxDeaths \in Nat /\ None \notin Int
      /\ written \in 0 .. MaxLetters /\ marked \in 0 .. MaxLetters /\ committed \in -1 .. MaxLetters
      /\ next \in 0 .. MaxLetters + 1 /\ held \in D!Letters \cup {None} /\ deaths \in 0 .. MaxDeaths
      /\ D!Letters = 1 .. MaxLetters
  BY PlaneAssumption DEF DInv, D!TypeOK, D!Letters
<1> USE <1>0
<1>1. CASE D!SendToDLQ
  BY <1>1 DEF D!SendToDLQ, DInv, D!TypeOK
<1>2. CASE D!StartReader
  <2>1. /\ ~running /\ running' = TRUE /\ UNCHANGED <<written, held, marked, committed, handled, refused, replayed, deaths>>
        /\ next' = IF committed >= 0 THEN committed + 1 ELSE 1
    BY <1>2 DEF D!StartReader
  <2>2. next' = marked + 1 /\ next' \in 0 .. MaxLetters + 1 /\ held = None
    BY <2>1 DEF DInv
  <2> QED
    BY <2>1, <2>2 DEF DInv, D!TypeOK
<1>3. CASE D!FetchMessage
  BY <1>3 DEF D!FetchMessage, DInv, D!TypeOK
<1>4. CASE D!Process
  <2>1. /\ running /\ held \in D!Letters /\ held = marked + 1 /\ next = marked + 2
        /\ handled' = handled \cup {held} /\ marked' = held /\ held' = None
        /\ UNCHANGED <<written, running, next, committed, replayed, deaths>>
    BY <1>4 DEF D!Process, D!Reported, DInv
  <2>2. refused' \subseteq handled' /\ handled' \subseteq D!Letters
    BY <1>4, <2>1 DEF D!Process, DInv, D!TypeOK
  <2>3. 1 .. marked' \subseteq handled'
    BY <2>1 DEF DInv
  <2> QED
    BY <2>1, <2>2, <2>3 DEF DInv, D!TypeOK
<1>5. CASE D!Commit
  BY <1>5 DEF D!Commit, DInv, D!TypeOK
<1>6. CASE D!Crash
  <2>1. /\ deaths' \in 0 .. MaxDeaths /\ running' = FALSE /\ held' = None /\ next' = 0
        /\ marked' = (IF committed > 0 THEN committed ELSE 0) /\ marked' \in 0 .. MaxLetters /\ marked' <= marked
        /\ UNCHANGED <<written, committed, handled, refused, replayed>>
    BY <1>6 DEF D!Crash, DInv
  <2>2. committed' <= marked' /\ 1 .. marked' \subseteq handled'
    BY <2>1 DEF DInv
  <2>3. running' \in BOOLEAN
    BY <2>1, Zenon
  <2>4. D!TypeOK'
    BY <2>1, <2>3 DEF DInv, D!TypeOK
  <2>5. held' = None /\ running' = FALSE /\ UNCHANGED committed
    BY <2>1
  <2> QED
    BY <2>1, <2>2, <2>4, <2>5 DEF DInv
<1>7. CASE D!Close
  BY <1>7 DEF D!Close, DInv, D!TypeOK
<1>8. ASSUME NEW l \in D!Letters, D!ReplayDLQEntry(l) PROVE DInv'
  <2>1. replayed' \in [D!Letters -> Nat]
    BY <1>8 DEF D!ReplayDLQEntry, DInv, D!TypeOK
  <2> QED
    BY <1>8, <2>1 DEF D!ReplayDLQEntry, DInv, D!TypeOK
<1>9. CASE UNCHANGED D!vars
  BY <1>9 DEF D!vars, DInv, D!TypeOK
<1> QED
  BY <1>1, <1>2, <1>3, <1>4, <1>5, <1>6, <1>7, <1>8, <1>9 DEF D!Next

\* DInv holds in every reachable state.
LEMMA LettersInvariance == PlaneSpec => []DInv
<1>1. PlaneInit => DInv
  <2> SUFFICES ASSUME D!Init PROVE DInv
    BY DEF PlaneInit
  <2>1. MaxLetters \in Nat /\ MaxDeaths \in Nat /\ 1 .. 0 = {}
    BY PlaneAssumption
  <2>2. replayed \in [D!Letters -> Nat]
    BY DEF D!Init
  <2>3. committed = -1 /\ committed \in -1 .. MaxLetters /\ committed <= marked /\ ~(committed > 0)
    BY <2>1 DEF D!Init
  <2>4. D!TypeOK
    <3>1. running \in BOOLEAN
      BY Zenon DEF D!Init
    <3> QED
      BY <2>1, <2>2, <2>3, <3>1 DEF D!Init, D!TypeOK
  <2> QED
    BY <2>1, <2>3, <2>4 DEF D!Init, DInv
<1>2. DInv /\ [PlaneNext]_planeVars => DInv'
  BY LettersStep, PartsMove
<1> QED
  BY <1>1, <1>2, PTL DEF PlaneSpec
-----------------------------------------------------------------------------
(* The start.                                                                *)

Made == [key : Nat, ips : SUBSET Addresses, ends : Nat]
Serving == {"connect", "version", "migrate", "run", "ran", "services", "seed"}

\* A certificate that can be read is its key's unless a start ended between the two files, and
\* from the choice of the certificate on it names what this start found, unless main has warned.  A migration that did
\* not fail is in the schema as soon as it has run.
CertificateFits ==
    /\ cert \in Made \cup {None, Torn}
    /\ cert \in Made /\ pc # "key" /\ ~halved => cert.key = key
    /\ pc = "key" => cert \in Made /\ cert.key = boots /\ found \subseteq cert.ips
    /\ pc = "tls" /\ ~warned => cert \in Made /\ found \subseteq cert.ips
    /\ pc \in Serving => cert \in Made /\ cert.key = key /\ (~warned => found \subseteq cert.ips)

SchemaFits ==
    /\ pc = "run" => dirty /\ version >= 1
    /\ ~cut => schema = 1 .. (IF pc = "run" THEN version - 1 ELSE version)

MInv == M!TypeOK /\ CertificateFits /\ SchemaFits

\* The types, through every step of main.
LEMMA StartTypeStep == M!TypeOK /\ SchemaFits /\ [M!Next]_(M!vars) => M!TypeOK'
<1> SUFFICES ASSUME M!TypeOK, SchemaFits, [M!Next]_(M!vars) PROVE M!TypeOK'
  OBVIOUS
<1>1. host' \cup found' \subseteq Addresses /\ ca' \in CAKeys
  BY DEF M!TypeOK, M!Next, M!vars, M!disk, M!process, M!database, M!outside, M!Boot, M!EnsureServerCert, M!generateServerCert,
         M!WriteCert, M!WriteKey, M!WriteFails, M!LoadServerTLSConfig, M!NewPostgresPool, M!RunMigrations, M!Force, M!UpBegins,
         M!UpRuns, M!UpFails, M!UpEnds, M!UpDone, M!NewCertificateService, M!seedDefaultAdmin, M!ChangePassword,
         M!Shutdown, M!Crash, M!HostMoves, M!Tick
<1>2. version' \in 0 .. Migrations /\ schema' \subseteq 1 .. Migrations
  <2>1. CASE M!UpBegins
    BY <2>1, PlaneAssumption DEF M!UpBegins, M!TypeOK
  <2>2. CASE M!UpRuns
    BY <2>2, PlaneAssumption DEF M!UpRuns, M!TypeOK, SchemaFits
  <2>3. CASE UNCHANGED <<version, schema>>
    BY <2>3 DEF M!TypeOK
  <2> QED
    BY <2>1, <2>2, <2>3
       DEF M!Next, M!vars, M!disk, M!process, M!database, M!outside, M!Boot, M!EnsureServerCert, M!generateServerCert,
           M!WriteCert, M!WriteKey, M!WriteFails, M!LoadServerTLSConfig, M!NewPostgresPool, M!RunMigrations, M!Force,
           M!UpFails, M!UpEnds, M!UpDone, M!NewCertificateService, M!seedDefaultAdmin, M!ChangePassword,
           M!Shutdown, M!Crash, M!HostMoves, M!Tick
<1>3. date' \in 0 .. MaxDays /\ boots' \in 0 .. MaxBoots
  <2>1. ASSUME NEW s \in Sources, M!Boot(s) PROVE date' \in 0 .. MaxDays /\ boots' \in 0 .. MaxBoots
    BY <2>1, PlaneAssumption DEF M!Boot, M!TypeOK
  <2>2. CASE M!Tick
    BY <2>2, PlaneAssumption DEF M!Tick, M!TypeOK
  <2>3. CASE UNCHANGED <<date, boots>>
    BY <2>3 DEF M!TypeOK
  <2> QED
    BY <2>1, <2>2, <2>3
       DEF M!Next, M!vars, M!disk, M!process, M!database, M!outside, M!EnsureServerCert, M!generateServerCert,
           M!WriteCert, M!WriteKey, M!WriteFails, M!LoadServerTLSConfig, M!NewPostgresPool, M!RunMigrations, M!Force, M!UpBegins,
           M!UpRuns, M!UpFails, M!UpEnds, M!UpDone, M!NewCertificateService, M!seedDefaultAdmin, M!ChangePassword,
           M!Shutdown, M!Crash, M!HostMoves
<1>4. pc' \in {"down", "refused", "certificate", "create", "key", "tls", "connect", "version", "migrate", "run", "ran",
               "services", "seed", "up"}
  BY DEF M!TypeOK, M!Next, M!vars, M!disk, M!process, M!database, M!outside, M!Boot, M!EnsureServerCert, M!generateServerCert,
         M!WriteCert, M!WriteKey, M!WriteFails, M!LoadServerTLSConfig, M!NewPostgresPool, M!RunMigrations, M!Force, M!UpBegins,
         M!UpRuns, M!UpFails, M!UpEnds, M!UpDone, M!NewCertificateService, M!seedDefaultAdmin, M!ChangePassword,
         M!Shutdown, M!Crash, M!HostMoves, M!Tick
<1> QED
  BY <1>1, <1>2, <1>3, <1>4 DEF M!TypeOK

\* The migrations, through every step of main and a crash anywhere.
LEMMA SchemaStep == M!TypeOK /\ SchemaFits /\ [M!Next]_(M!vars) => SchemaFits'
<1> SUFFICES ASSUME M!TypeOK, SchemaFits, [M!Next]_(M!vars) PROVE SchemaFits'
  OBVIOUS
<1>0. version \in Nat
  BY PlaneAssumption DEF M!TypeOK
<1> USE <1>0
<1>1. CASE M!UpBegins
  BY <1>1 DEF M!UpBegins, SchemaFits
<1>2. CASE M!UpRuns
  <2>1. pc = "run" /\ version >= 1 /\ schema' = schema \cup {version} /\ version' = version /\ cut' = cut /\ pc' = "ran"
    BY <1>2 DEF M!UpRuns, SchemaFits
  <2>2. ~cut => schema' = 1 .. version
    BY <2>1 DEF SchemaFits
  <2> QED
    BY <2>1, <2>2 DEF SchemaFits
<1>3. CASE M!UpFails \/ M!UpEnds \/ M!UpDone \/ M!Force
  BY <1>3 DEF M!UpFails, M!UpEnds, M!UpDone, M!Force, M!database, SchemaFits
<1>4. CASE M!Crash
  BY <1>4 DEF M!Crash, SchemaFits
<1>5. ASSUME UNCHANGED <<version, dirty, schema, cut>>, pc' = pc \/ (pc # "run" /\ pc' # "run") PROVE SchemaFits'
  BY <1>5 DEF SchemaFits
<1>6. ASSUME NEW s \in Sources, M!Boot(s) PROVE SchemaFits'
  BY <1>5, <1>6 DEF M!Boot, M!database
<1>7. CASE M!EnsureServerCert \/ M!generateServerCert \/ M!LoadServerTLSConfig \/ M!NewPostgresPool
  BY <1>5, <1>7 DEF M!EnsureServerCert, M!generateServerCert, M!WriteCert, M!WriteKey, M!WriteFails, M!LoadServerTLSConfig,
                    M!NewPostgresPool, M!database
<1>8. CASE M!NewCertificateService \/ M!seedDefaultAdmin \/ M!ChangePassword \/ M!Shutdown \/ M!HostMoves \/ M!Tick
           \/ UNCHANGED M!vars
  BY <1>5, <1>8 DEF M!NewCertificateService, M!seedDefaultAdmin, M!ChangePassword, M!Shutdown, M!HostMoves, M!Tick,
                    M!vars, M!database
<1> QED
  BY <1>1, <1>2, <1>3, <1>4, <1>6, <1>7, <1>8 DEF M!Next, M!RunMigrations

\* The certificate and its key, through every step of main and a crash anywhere.
LEMMA CertificateStep == M!TypeOK /\ CertificateFits /\ [M!Next]_(M!vars) => CertificateFits'
<1> SUFFICES ASSUME M!TypeOK, CertificateFits, [M!Next]_(M!vars) PROVE CertificateFits'
  OBVIOUS
<1>0. /\ None \notin Made /\ Torn \notin Made /\ boots \in Nat /\ date \in Nat /\ ServerDays \in Nat
      /\ Torn \notin Nat /\ found \subseteq Addresses
  BY PlaneAssumption DEF M!TypeOK, Made
<1> USE <1>0
<1>1. ASSUME NEW s \in Sources, M!Boot(s) PROVE CertificateFits'
  BY <1>1 DEF M!Boot, M!disk, CertificateFits, Serving
<1>2. CASE M!EnsureServerCert
  <2>1. /\ pc = "certificate" /\ UNCHANGED <<found, ca, cert, key, halved, boots>>
        /\ pc' \in {"create", "tls"} /\ (pc' = "tls" /\ ~warned' => cert \notin {None, Torn} /\ found \subseteq cert.ips)
    BY <1>2 DEF M!EnsureServerCert, M!certCoversIPs, M!disk, M!process, M!outside
  <2> QED
    BY <2>1 DEF CertificateFits, Serving
<1>3. CASE M!WriteCert(Torn)
  BY <1>3 DEF M!WriteCert, M!process, M!outside, CertificateFits, Serving
<1>4. CASE M!WriteCert(M!Certificate(boots, found))
  <2>1. /\ cert' = [key |-> boots, ips |-> found, ends |-> date + ServerDays]
        /\ UNCHANGED <<key, halved, found, warned, boots>>
    BY <1>4 DEF M!WriteCert, M!Certificate, M!process, M!outside
  <2>2. cert' \in Made /\ cert'.key = boots /\ cert'.ips = found
    BY <2>1 DEF Made
  <2>3. pc' = "key"
    BY <1>4, <2>2 DEF M!WriteCert
  <2> QED
    BY <2>1, <2>2, <2>3 DEF CertificateFits, Serving
<1>5. CASE M!WriteKey(Torn)
  BY <1>5 DEF M!WriteKey, M!process, M!outside, CertificateFits, Serving
<1>6. CASE M!WriteKey(boots)
  BY <1>6 DEF M!WriteKey, M!process, M!outside, CertificateFits, Serving
<1>12. CASE M!WriteFails
  BY <1>12 DEF M!WriteFails, M!outside, CertificateFits, Serving
<1>7. CASE M!LoadServerTLSConfig
  BY <1>7 DEF M!LoadServerTLSConfig, M!disk, M!process, M!outside, CertificateFits, Serving
<1>8. ASSUME UNCHANGED <<cert, key, halved, found, warned>>, pc \in Serving \cup {"up"}, pc' \in Serving \cup {"up", "down", "refused"},
             pc = "up" => pc' \notin Serving
      PROVE  CertificateFits'
  BY <1>8 DEF CertificateFits, Serving
<1>9. CASE M!NewPostgresPool \/ M!RunMigrations \/ M!NewCertificateService \/ M!seedDefaultAdmin \/ M!ChangePassword
           \/ M!Shutdown
  BY <1>8, <1>9 DEF M!NewPostgresPool, M!RunMigrations, M!Force, M!UpBegins, M!UpRuns, M!UpFails, M!UpEnds, M!UpDone,
                    M!NewCertificateService, M!seedDefaultAdmin, M!ChangePassword, M!Shutdown, M!disk, M!process, M!outside, Serving
<1>10. CASE M!Crash
  BY <1>10 DEF M!Crash, M!process, M!outside, CertificateFits, Serving
<1>11. CASE M!HostMoves \/ M!Tick \/ UNCHANGED M!vars
  BY <1>11 DEF M!HostMoves, M!Tick, M!vars, M!disk, M!process, CertificateFits, Serving
<1> QED
  BY <1>1, <1>2, <1>3, <1>4, <1>5, <1>6, <1>7, <1>9, <1>10, <1>11, <1>12 DEF M!Next, M!generateServerCert

\* MInv holds in every reachable state.
LEMMA StartInvariance == PlaneSpec => []MInv
<1>1. PlaneInit => MInv
  <2> SUFFICES ASSUME M!Init PROVE MInv
    BY DEF PlaneInit
  <2>1. M!TypeOK
    BY PlaneAssumption DEF M!Init, M!TypeOK
  <2>2. CertificateFits
    BY PlaneAssumption DEF M!Init, CertificateFits, Made, Serving
  <2>3. SchemaFits
    BY DEF M!Init, SchemaFits
  <2> QED
    BY <2>1, <2>2, <2>3 DEF MInv
<1>2. MInv /\ [PlaneNext]_planeVars => MInv'
  BY StartTypeStep, SchemaStep, CertificateStep, PartsMove DEF MInv
<1> QED
  BY <1>1, <1>2, PTL DEF PlaneSpec

\* Wherever main dies between two of its writes, and whichever of them fails: once it serves, its
\* certificate fits its key and, unless it has warned, names the addresses it found; what it brought
\* in order itself it refuses only after a start that ended between the two files; and while no migration was cut short, a clean version says that all up to
\* it are applied.
THEOREM StartIsWhole == PlaneSpec => []StartsWhole
<1>1. MInv => StartsWhole
  <2> SUFFICES ASSUME MInv PROVE M!ServesItsAddresses /\ M!CleanIsApplied
    BY DEF StartsWhole
  <2>1. M!ServesItsAddresses
    <3>1. None \notin Made /\ Torn \notin Made
      BY PlaneAssumption DEF Made
    <3> QED
      BY <3>1 DEF M!ServesItsAddresses, MInv, CertificateFits, Serving
  <2>2. M!CleanIsApplied
    BY DEF M!CleanIsApplied, MInv, SchemaFits
  <2> QED
    BY <2>1, <2>2
<1> QED
  BY <1>1, StartInvariance, PTL
-----------------------------------------------------------------------------
(* What several parts promise together.                                      *)

\* RateLimiter.Allow lets an address through at most twice its rate in any window, whatever it
\* times around the resets and clean-ups; the dead-letter consumer commits no offset past a letter
\* its handler has not had, wherever it crashes; and the state of every part has its type.
THEOREM QueuesAndRates == PlaneSpec => []QueuesAndRatesHold
<1>1. DInv => D!NoLetterSkipped
  BY DEF DInv, D!TypeOK, D!NoLetterSkipped, D!Letters
<1>2. AInv /\ EInv /\ SInv /\ GInv /\ RInv /\ PInv /\ MInv /\ DInv => TypesHold
  BY DEF AInv, EInv, SInv, GInv, RInv, PInv, MInv, DInv, TypesHold
<1>3. AInv /\ EInv /\ SInv /\ GInv /\ RInv /\ PInv /\ MInv /\ DInv => QueuesAndRatesHold
  BY <1>1, <1>2, WindowFollows DEF QueuesAndRatesHold
<1> QED
  BY <1>3, PresenceInvariance, EnrolmentInvariance, SessionsInvariance, GatewayInvariance, LimiterInvariance,
     ListingInvariance, StartInvariance, LettersInvariance, PTL
====
