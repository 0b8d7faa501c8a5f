------------------------------ MODULE Sessions ------------------------------
(***************************************************************************)
(* Logins and tokens of the dashboard's users, for one account.  Login     *)
(* reads the user's row, compares the password and writes the whole row    *)
(* back: what happened to it in between is lost.  A token carries its own  *)
(* type and expiry; Logout adds its id to a list in Redis with an expiry   *)
(* of its own.  AuthMiddleware takes a token of either type, and a Redis   *)
(* that does not answer for one without entries.  Time is counted in units *)
(* of the leeway ValidateToken allows.                                     *)
(***************************************************************************)
EXTENDS Naturals

CONSTANTS
    Requests,      \* requests of the login endpoint that overlap
    MaxAttempts,   \* maxLoginAttempts
    LockTime,      \* lockDuration
    AccessTTL, RefreshTTL, BlacklistTTL, Leeway,
    MaxTokens, MaxNow, MaxTries   \* bounds of the model

Tokens == {"access", "refresh"} \X (1 .. MaxTokens)   \* of each type, in the order of their issue
NoTime == 0                        \* a nil or zero time.Time

VARIABLES
    now,
    user,       \* the row: login_attempts, locked_until
    login,      \* the row each request has read
    exp,        \* the expiry of each token issued, NoTime before
    redis,      \* Redis answers
    blacklist,  \* the expiry of each key token:revoked:<jti>
    loggedOut,  \* the tokens whose logout was answered "Logged out successfully"
    tries

vars == <<now, user, login, exp, redis, blacklist, loggedOut, tries>>

Latest == MaxNow + AccessTTL + RefreshTTL + BlacklistTTL + LockTime
Row == [attempts : 0 .. MaxTries, until : 0 .. Latest]
NoRow == [attempts |-> 0, until |-> Latest + 1]   \* no row has been read

TypeOK ==
    /\ now \in 1 .. MaxNow
    /\ user \in Row
    /\ login \in [Requests -> Row \cup {NoRow}]
    /\ exp \in [Tokens -> 0 .. Latest]
    /\ redis \in BOOLEAN
    /\ blacklist \in [Tokens -> 0 .. Latest]
    /\ loggedOut \subseteq Tokens
    /\ tries \in 0 .. MaxTries

Init ==
    /\ now = 1
    /\ user = [attempts |-> 0, until |-> NoTime]
    /\ login = [r \in Requests |-> NoRow]
    /\ exp = [t \in Tokens |-> NoTime]
    /\ redis \in BOOLEAN
    /\ blacklist = [t \in Tokens |-> NoTime]
    /\ loggedOut = {}
    /\ tries = 0

-----------------------------------------------------------------------------
IsLocked(u) == u.until # NoTime /\ now < u.until

(* Faulty variant: the lock is not looked at. *)
GetByUsernameLocked(r) ==
    /\ login[r] = NoRow
    /\ tries < MaxTries
    /\ tries' = tries + 1
    /\ login' = [login EXCEPT ![r] = user]
    /\ UNCHANGED <<now, user, exp, redis, blacklist, loggedOut>>

(* Login reads the row; a locked account goes no further. *)
GetByUsername(r) ==
    /\ login[r] = NoRow
    /\ tries < MaxTries
    /\ ~IsLocked(user)
    /\ tries' = tries + 1
    /\ login' = [login EXCEPT ![r] = user]
    /\ UNCHANGED <<now, user, exp, redis, blacklist, loggedOut>>

RecordFailedLogin(u) ==
    LET n == u.attempts + 1 IN
    [attempts |-> n, until |-> IF n >= MaxAttempts THEN now + LockTime ELSE u.until]

RecordSuccessfulLogin == [attempts |-> 0, until |-> NoTime]

(* Update writes the row the request has read, whole; Login goes on if it
   fails. *)
Update(r, row) ==
    /\ login[r] # NoRow
    /\ user' \in {row, user}
    /\ login' = [login EXCEPT ![r] = NoRow]

WrongPassword(r) ==
    /\ Update(r, RecordFailedLogin(login[r]))
    /\ UNCHANGED <<now, exp, redis, blacklist, loggedOut, tries>>

(* A token with an id of its own: the next of its type. *)
NewToken(t) ==
    exp[t] = NoTime /\ \A i \in 1 .. (t[2] - 1) : exp[<<t[1], i>>] # NoTime

GenerateTokenPair ==
    \E a, f \in Tokens :
        /\ a[1] = "access" /\ NewToken(a)
        /\ f[1] = "refresh" /\ NewToken(f)
        /\ exp' = [exp EXCEPT ![a] = now + AccessTTL, ![f] = now + RefreshTTL]

(* Login makes the tokens before it writes the row. *)
RightPassword(r) ==
    /\ GenerateTokenPair
    /\ Update(r, RecordSuccessfulLogin)
    /\ UNCHANGED <<now, redis, blacklist, loggedOut, tries>>

(* jwt's check of exp, with leeway; the type is the caller's business. *)
ValidateToken(t) == exp[t] # NoTime /\ now < exp[t] + Leeway

RefreshAccessToken(f) ==
    /\ ValidateToken(f)
    /\ f[1] = "refresh"
    /\ \E a \in Tokens : /\ a[1] = "access" /\ NewToken(a)
                         /\ exp' = [exp EXCEPT ![a] = now + AccessTTL]

RefreshToken(f) ==
    /\ RefreshAccessToken(f)
    /\ UNCHANGED <<now, user, login, redis, blacklist, loggedOut, tries>>

IsTokenBlacklisted(t) == now < blacklist[t]

(* AuthMiddleware: an error of Redis is logged and the check left out, and a
   token of either type will do. *)
Accepts(t) == ~(redis /\ IsTokenBlacklisted(t)) /\ ValidateToken(t)

(* The key in Redis expires on its own. *)
BlacklistToken(t, expiresAt) == blacklist' = [blacklist EXCEPT ![t] = expiresAt]

(* The bearer token is blacklisted, or Redis does not answer, which is
   logged; the answer is the same. *)
Logout(t) ==
    /\ Accepts(t)
    /\ IF redis THEN BlacklistToken(t, now + BlacklistTTL) ELSE UNCHANGED blacklist
    /\ loggedOut' = loggedOut \cup {t}
    /\ UNCHANGED <<now, user, login, exp, redis, tries>>

(* Redis goes away, or comes back with its keys. *)
RedisTurns ==
    /\ redis' = ~redis
    /\ UNCHANGED <<now, user, login, exp, blacklist, loggedOut, tries>>

Tick ==
    /\ now < MaxNow
    /\ now' = now + 1
    /\ UNCHANGED <<user, login, exp, redis, blacklist, loggedOut, tries>>

Login(r) == GetByUsername(r) \/ WrongPassword(r) \/ RightPassword(r)

Next ==
    \/ \E r \in Requests : Login(r)
    \/ \E t \in Tokens : Logout(t) \/ RefreshToken(t)
    \/ RedisTurns
    \/ Tick

Spec == Init /\ [][Next]_vars

-----------------------------------------------------------------------------
(***************************************************************************)
(* While Redis answers, an access token that was logged out while it did   *)
(* is accepted again at most in the leeway after its own expiry: the       *)
(* entry, counted from the logout, outlasts the token (Logout against      *)
(* AuthMiddleware).                                                        *)
(***************************************************************************)
LoggedOutStaysOut ==
    \A t \in loggedOut :
        t[1] = "access" /\ blacklist[t] # NoTime /\ redis /\ Accepts(t) => now >= exp[t]

(***************************************************************************)
(* Not so: "Logged out successfully".  A refresh token outlives the entry  *)
(* of 24 hours, and the middleware takes it for a bearer token; and where  *)
(* Redis did not answer the logout, or does not answer now, nothing keeps  *)
(* a token out.                                                            *)
(***************************************************************************)
LogoutIsFinal == \A t \in loggedOut : ~Accepts(t)

(***************************************************************************)
(* A lock is lifted or shortened before its time only by a login that had  *)
(* read the row before the lock was written: no login that starts while    *)
(* the account is locked can (Login's read, compare and write back).       *)
(***************************************************************************)
LockHolds ==
    [][IsLocked(user) /\ user'.until < user.until
          => \E r \in Requests : login[r] # NoRow /\ login'[r] = NoRow /\ ~IsLocked(login[r])]_vars

(***************************************************************************)
(* Not so: a lock stays until its time.  A login that had read the row     *)
(* before writes its own count over it.                                    *)
(***************************************************************************)
LockStays == [][IsLocked(user) => user'.until >= user.until]_vars

=============================================================================
