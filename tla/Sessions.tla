------------------------------ MODULE Sessions ------------------------------
(* Browser sessions of one account-center user: the rows of user_sessions, the
   copies Redis keeps of them for the fast path of AuthMiddleware, and the
   requests that issue, rotate and revoke them.  A token is a pair of a session
   and a generation: a session's row holds the hashes of its current generation
   only, and every generation below it has a row of the refresh history.
   Redis is written after or beside the database, and each write may fail. *)
EXTENDS Naturals, FiniteSets

CONSTANTS
    Clients,        \* requests at once (a bound)
    MaxRequests,    \* bound: requests ever made
    MaxSessions,    \* bound: sessions ever issued
    MaxGen,         \* bound: generations of a session
    SessionLimit    \* MaxConcurrentSessionsPerUser

VARIABLES
    account,        \* the user's status
    session,        \* the rows of user_sessions, by id: [state, gen]
    resetOpen,      \* a reset token that can still be used
    payload,        \* session:access:<token>: what the entry says of the session
    currentHash,    \* session:current-access-hash:<id>
    markers,        \* session:revoked:session-id:<id>
    denied,         \* session:revoked:<type>:<token>
    reqPc, req,     \* the step of every request and its local variables
    requests,       \* how many requests have begun
    redis,          \* up or away
    ended,          \* history: sessions a request has said are over, markers written
    early           \* history: sessions marked by a password change before its commit

sessVars == <<account, session, resetOpen, payload, currentHash, markers, denied,
              reqPc, req, requests, redis, ended, early>>

Ids == 1 .. MaxSessions
Gens == 1 .. MaxGen
NoRow == [state |-> "none", gen |-> 1]
NoReq == [s |-> 0, g |-> 0, snap |-> {}, rows |-> {}, seen |-> NoRow, flag |-> ""]

Init ==
    /\ account \in {"pending", "active"}
    /\ session = [s \in Ids |-> NoRow]
    /\ resetOpen = FALSE
    /\ payload = [s \in Ids |-> [g \in Gens |-> "none"]]
    /\ currentHash = [s \in Ids |-> 0]
    /\ markers = {} /\ denied = {}
    /\ reqPc = [c \in Clients |-> "idle"] /\ req = [c \in Clients |-> NoReq]
    /\ requests = 0 /\ redis = "up" /\ ended = {} /\ early = {}

-----------------------------------------------------------------------------
Live == {s \in Ids : session[s].state = "live"}
IsCurrent(s, g) == session[s].state \in {"live", "revoked"} /\ session[s].gen = g
\* Tokens a client may hold.
Issued(s, g) == session[s].state \in {"live", "revoked"} /\ g <= session[s].gen

At(c, step) == reqPc[c] = step
Goto(c, step) == reqPc' = [reqPc EXCEPT ![c] = step] /\ UNCHANGED requests
Stop(c) == Goto(c, "idle") /\ req' = [req EXCEPT ![c] = NoReq]
MayBegin(c) == At(c, "idle") /\ requests < MaxRequests /\ requests' = requests + 1
Begin(c, step, vars) ==
    MayBegin(c) /\ reqPc' = [reqPc EXCEPT ![c] = step] /\ req' = [req EXCEPT ![c] = vars]

\* Rows a transaction has updated and not committed.
Locked(s) ==
    \E c \in Clients : reqPc[c] \in {"login_commit", "change_commit"} /\ s \in req[c].rows
UserRowIgnored == FALSE
UserRowLocked == \E c \in Clients : reqPc[c] \in {"trim", "login_commit"}
CredentialLocked == \E c \in Clients : reqPc[c] \in {"reset", "change", "change_commit"}

Revoked(S) == [s \in Ids |-> IF s \in S /\ session[s].state = "live"
                             THEN [session[s] EXCEPT !.state = "revoked"] ELSE session[s]]

\* The sessions of a token's family that are not revoked.
EverySession(s) == Live
Family(s) == {s} \intersect Live

\* The row a rotation updates: WHERE refresh_token_hash = ? AND revoked_at IS NULL
Rotates(s, g) == s \in Live /\ session[s].gen = g

\* A write that fails while Redis is away is only logged.
Written(var, val) == IF redis = "away" THEN var ELSE val
Unhashed(S) == [s \in Ids |-> IF s \in S THEN 0 ELSE currentHash[s]]

dbVars == <<account, session, resetOpen>>
cacheVars == <<redis, payload, currentHash, markers, denied>>

-----------------------------------------------------------------------------
\* The account: verification of its e-mail address, an administrator's status.
VerifyEmail ==
    /\ account = "pending" /\ ~UserRowLocked
    /\ account' = "active"
    /\ UNCHANGED <<session, resetOpen, cacheVars, reqPc, req, requests, ended, early>>

UpdateUserStatus ==
    /\ ~UserRowLocked
    /\ account' \in {"active", "suspended"} \ {account}
    /\ UNCHANGED <<session, resetOpen, cacheVars, reqPc, req, requests, ended, early>>

\* LoginWithEmail: the status is read before the transaction that uses it.
Login(c) ==
    /\ account \in {"pending", "active"}
    /\ Begin(c, "issue", [NoReq EXCEPT !.flag = account])
    /\ UNCHANGED <<dbVars, cacheVars, ended, early>>

\* The transaction updates the user's row first, then issueSession inserts the
\* session, writes it to Redis and looks for sessions above the limit.
IssueSession(c) ==
    /\ At(c, "issue") /\ ~UserRowLocked
    /\ \E s \in Ids :
        /\ session[s].state = "none" /\ \A t \in 1 .. s - 1 : session[t].state # "none"
        /\ LET open == Live \union {s}
               above == {t \in open : Cardinality({u \in open : u > t}) >= SessionLimit}
           IN  /\ req' = [req EXCEPT ![c].s = s, ![c].rows = above]
               /\ Goto(c, IF above = {} THEN "login_commit" ELSE "trim")
        /\ session' = [session EXCEPT ![s].state = "open"]
        /\ payload' = Written(payload, [payload EXCEPT ![s][1] = "live"])
        /\ currentHash' = Written(currentHash, [currentHash EXCEPT ![s] = 1])
    /\ UNCHANGED <<account, resetOpen, markers, denied, redis, ended, early>>

TrimSessions(c) ==
    /\ At(c, "trim") /\ \A s \in req[c].rows : ~Locked(s)
    /\ currentHash' = Written(currentHash, Unhashed(req[c].rows))
    /\ Goto(c, "login_commit")
    /\ UNCHANGED <<dbVars, payload, markers, denied, req, redis, ended, early>>

CommitLogin(c) ==
    /\ At(c, "login_commit")
    /\ session' = [Revoked(req[c].rows) EXCEPT ![req[c].s].state = "live"]
    /\ account' = IF req[c].flag = "pending" THEN "active" ELSE account
    /\ Stop(c)
    /\ UNCHANGED <<resetOpen, cacheVars, ended, early>>

-----------------------------------------------------------------------------
\* RefreshToken, up to the checks it makes of what it has read.
RefreshToken(c) ==
    \E s \in Ids, g \in Gens :
        LET current == IsCurrent(s, g)
            refused == redis # "away" /\ <<"refresh", s, g>> \in denied
        IN
        /\ Issued(s, g) /\ ~(refused /\ current)
        /\ IF current /\ s \in Live /\ account = "active"
           THEN Begin(c, "rotate", [NoReq EXCEPT !.s = s, !.g = g])
           ELSE Begin(c, "revoke", [NoReq EXCEPT !.s = s])
        /\ UNCHANGED <<dbVars, cacheVars, ended, early>>

Rotate(c) ==
    LET s == req[c].s IN
    /\ At(c, "rotate") /\ ~Locked(s)
    /\ Rotates(s, req[c].g) /\ req[c].g < MaxGen
    /\ session' = [session EXCEPT ![s].gen = @ + 1]
    /\ Goto(c, "uncache")
    /\ UNCHANGED <<account, resetOpen, cacheVars, req, ended, early>>

\* No row was updated: the token has been used, or the session is over.
RotationLost(c) ==
    LET s == req[c].s IN
    /\ At(c, "rotate") /\ ~Locked(s)
    /\ ~Rotates(s, req[c].g)
    /\ IF session[s].gen > req[c].g
       THEN Goto(c, "revoke") /\ req' = [req EXCEPT ![c].g = 0] ELSE Stop(c)
    /\ UNCHANGED <<dbVars, cacheVars, ended, early>>

DropOldTokens(c) ==
    /\ At(c, "uncache")
    /\ denied' = Written(denied, denied \union {<<"refresh", req[c].s, req[c].g>>})
    /\ currentHash' = Written(currentHash, Unhashed({req[c].s}))
    /\ Goto(c, "reload")
    /\ UNCHANGED <<dbVars, payload, markers, req, redis, ended, early>>

ReloadSession(c) ==
    /\ At(c, "reload")
    /\ req' = [req EXCEPT ![c].seen = session[req[c].s]]
    /\ Goto(c, "store")
    /\ UNCHANGED <<dbVars, cacheVars, ended, early>>

StoreNewTokens(c) ==
    LET s == req[c].s seen == req[c].seen IN
    /\ At(c, "store")
    /\ payload' = Written(payload, [payload EXCEPT ![s][req[c].g + 1] = seen.state])
    /\ currentHash' = Written(currentHash, [currentHash EXCEPT ![s] = seen.gen])
    /\ Stop(c)
    /\ UNCHANGED <<dbVars, markers, denied, redis, ended, early>>

-----------------------------------------------------------------------------
\* Logout with the bearer's access token or the cookie's refresh token.
Logout(c) ==
    \E s \in Ids, g \in Gens, kind \in {"access", "refresh"} :
        /\ Issued(s, g) /\ (IsCurrent(s, g) \/ kind = "refresh")
        /\ IF IsCurrent(s, g)
           THEN Begin(c, "revoke", [NoReq EXCEPT !.s = s, !.g = g, !.flag = kind])
           ELSE Begin(c, "revoke", [NoReq EXCEPT !.s = s])
        /\ UNCHANGED <<dbVars, cacheVars, ended, early>>

\* The family is read ...
SelectFamily(c) ==
    /\ At(c, "revoke")
    /\ req' = [req EXCEPT ![c].snap = Family(req[c].s)]
    /\ Goto(c, "revoke_rows")
    /\ UNCHANGED <<dbVars, cacheVars, ended, early>>

\* ... and revoked by a second statement.
RevokeFamily(c) ==
    /\ At(c, "revoke_rows") /\ ~Locked(req[c].s)
    /\ session' = Revoked({req[c].s})
    /\ Goto(c, "publish")
    /\ UNCHANGED <<account, resetOpen, cacheVars, req, ended, early>>

\* invalidateRevokedSessionsCache
PublishRevocation(c) ==
    LET snap == req[c].snap IN
    /\ At(c, "publish")
    /\ markers' = Written(markers, markers \union snap)
    /\ currentHash' = Written(currentHash, Unhashed(snap))
    /\ ended' = ended \union (snap \intersect markers')
    /\ IF req[c].flag \in {"access", "refresh"}
       THEN Goto(c, "forget") /\ UNCHANGED req ELSE Stop(c)
    /\ UNCHANGED <<dbVars, payload, denied, redis, early>>

ForgetTokens(c) ==
    LET s == req[c].s kind == req[c].flag IN
    /\ At(c, "forget")
    /\ payload' = IF kind = "access"
                  THEN Written(payload, [payload EXCEPT ![s][req[c].g] = "none"]) ELSE payload
    /\ denied' = Written(denied, denied \union {<<kind, s, req[c].g>>})
    /\ currentHash' = Written(currentHash, Unhashed({s}))
    /\ Stop(c)
    /\ UNCHANGED <<dbVars, markers, redis, ended, early>>

\* RevokeSession: the user ends one session of the list; its hash stays cached.
RevokeSession(c) ==
    \E s \in Live :
        /\ Begin(c, "revoke_one", [NoReq EXCEPT !.s = s, !.snap = {s}])
        /\ UNCHANGED <<dbVars, cacheVars, ended, early>>

RevokeOne(c) ==
    /\ At(c, "revoke_one") /\ ~Locked(req[c].s)
    /\ session' = Revoked({req[c].s})
    /\ Goto(c, "mark_one")
    /\ UNCHANGED <<account, resetOpen, cacheVars, req, ended, early>>

MarkOne(c) ==
    /\ At(c, "mark_one")
    /\ markers' = Written(markers, markers \union {req[c].s})
    /\ ended' = ended \union ({req[c].s} \intersect markers')
    /\ Stop(c)
    /\ UNCHANGED <<dbVars, payload, currentHash, denied, redis, early>>

-----------------------------------------------------------------------------
ForgotPassword ==
    /\ account = "active" /\ ~resetOpen
    /\ resetOpen' = TRUE
    /\ UNCHANGED <<account, session, cacheVars, reqPc, req, requests, ended, early>>

\* ResetPassword: the transaction has changed the password, marked the token and
\* read the sessions it will revoke.
ResetPassword(c) ==
    /\ resetOpen /\ ~CredentialLocked
    /\ Begin(c, "reset", [NoReq EXCEPT !.snap = Live])
    /\ UNCHANGED <<dbVars, cacheVars, ended, early>>

CommitReset(c) ==
    /\ At(c, "reset") /\ \A s \in Live : ~Locked(s)
    /\ session' = Revoked(Ids) /\ resetOpen' = FALSE
    /\ Goto(c, "publish")
    /\ UNCHANGED <<account, cacheVars, req, ended, early>>

\* UpdatePassword: every session but the one of the request's access token.
Others(s, g) == {t \in Live : ~(t = s /\ session[t].gen = g)}

UpdatePassword(c) ==
    \E s \in Ids, g \in Gens :
        /\ s \in Live /\ session[s].gen = g /\ ~CredentialLocked
        /\ Begin(c, "change", [NoReq EXCEPT !.s = s, !.g = g, !.snap = Others(s, g)])
        /\ UNCHANGED <<dbVars, cacheVars, ended, early>>

\* The rows are updated, and the markers written, before the commit.
RevokeOthers(c) ==
    LET rows == Others(req[c].s, req[c].g) IN
    /\ At(c, "change") /\ \A s \in rows : ~Locked(s)
    /\ markers' = Written(markers, markers \union req[c].snap)
    /\ early' = early \union (req[c].snap \intersect markers')
    /\ req' = [req EXCEPT ![c].rows = rows]
    /\ Goto(c, "change_commit")
    /\ UNCHANGED <<dbVars, payload, currentHash, denied, redis, ended>>

CommitPassword(c) ==
    /\ At(c, "change_commit")
    /\ session' = Revoked(req[c].rows)
    /\ ended' = ended \union (req[c].snap \intersect markers)
    /\ Stop(c)
    /\ UNCHANGED <<account, resetOpen, cacheVars, early>>

\* ResetUserPassword, by an administrator: the rows go, and Redis keeps its copies.
ResetUserPassword(c) ==
    /\ MayBegin(c) /\ Live # {} /\ \A s \in Ids : ~Locked(s)
    /\ session' = [s \in Ids |-> IF session[s].state \in {"live", "revoked"}
                                 THEN [session[s] EXCEPT !.state = "gone"] ELSE session[s]]
    /\ UNCHANGED <<account, resetOpen, cacheVars, reqPc, req, ended, early>>

RedisGoesAway ==
    /\ redis = "up" /\ redis' = "away"
    /\ UNCHANGED <<dbVars, payload, currentHash, markers, denied, reqPc, req, requests, ended, early>>

RedisReturns ==
    /\ redis = "away" /\ redis' = "up"
    /\ UNCHANGED <<dbVars, payload, currentHash, markers, denied, reqPc, req, requests, ended, early>>

\* The process dies, or the database refuses: a transaction is rolled back.
Fail(c) ==
    /\ reqPc[c] # "idle"
    /\ session' = IF reqPc[c] \in {"trim", "login_commit"}
                  THEN [session EXCEPT ![req[c].s].state = "aborted"] ELSE session
    /\ Stop(c)
    /\ UNCHANGED <<account, resetOpen, cacheVars, ended, early>>

Next ==
    \/ VerifyEmail \/ UpdateUserStatus \/ ForgotPassword
    \/ RedisGoesAway \/ RedisReturns
    \/ \E c \in Clients :
        \/ Login(c) \/ IssueSession(c) \/ TrimSessions(c) \/ CommitLogin(c)
        \/ RefreshToken(c) \/ Rotate(c) \/ RotationLost(c) \/ DropOldTokens(c)
        \/ ReloadSession(c) \/ StoreNewTokens(c)
        \/ Logout(c) \/ SelectFamily(c) \/ RevokeFamily(c) \/ PublishRevocation(c)
        \/ ForgetTokens(c) \/ RevokeSession(c) \/ RevokeOne(c) \/ MarkOne(c)
        \/ ResetPassword(c) \/ CommitReset(c)
        \/ UpdatePassword(c) \/ RevokeOthers(c) \/ CommitPassword(c)
        \/ ResetUserPassword(c) \/ Fail(c)

\* A user who has one session, known to Redis, and has asked for a reset.
Established ==
    /\ account = "active" /\ resetOpen = TRUE
    /\ session = [s \in Ids |-> IF s = 1 THEN [state |-> "live", gen |-> 1] ELSE NoRow]
    /\ payload = [s \in Ids |-> [g \in Gens |-> IF s = 1 /\ g = 1 THEN "live" ELSE "none"]]
    /\ currentHash = [s \in Ids |-> IF s = 1 THEN 1 ELSE 0]
    /\ markers = {} /\ denied = {}
    /\ reqPc = [c \in Clients |-> "idle"] /\ req = [c \in Clients |-> NoReq]
    /\ requests = 0 /\ redis = "up" /\ ended = {} /\ early = {}

Start == Init \/ Established
Spec == Start /\ [][Next]_sessVars

-----------------------------------------------------------------------------
AuthenticatedUnmarked(s, g) ==
    LET cached == redis # "away" /\ payload[s][g] # "none" IN
    /\ ~(redis # "away" /\ <<"access", s, g>> \in denied)
    /\ IF cached /\ currentHash[s] = g THEN payload[s][g] = "live"
       ELSE s \in Live /\ session[s].gen = g
    /\ account = "active"

\* AuthMiddleware: may the access token be used?
Authenticated(s, g) ==
    LET up == redis # "away"
        cached == up /\ payload[s][g] # "none" IN
    /\ ~(up /\ <<"access", s, g>> \in denied)
    /\ ~(cached /\ s \in markers)
    /\ IF cached /\ currentHash[s] = g THEN payload[s][g] = "live"
       ELSE s \in Live /\ session[s].gen = g
    /\ account = "active"

\* OptionalAuthMiddleware asks the database only.
OptionallyAuthenticated(s, g) ==
    s \in Live /\ session[s].gen = g /\ account = "active"

\* However logins overlap, a user never has more open sessions than the limit.
SessionLimitHolds == Cardinality(Live) <= SessionLimit

\* The fast path of AuthMiddleware refuses no token that OptionalAuthMiddleware
\* accepts, unless a password change has marked its session before its commit.
LiveIsAccepted ==
    \A s \in Ids, g \in Gens :
        OptionallyAuthenticated(s, g) => Authenticated(s, g) \/ s \in early

\* A session that a logout, a reset, a replay or the user has ended, and whose
\* marker was written, is over in the database and every token of it is refused,
\* whatever a rotation or a login under way has written to Redis since.
EndedIsRefused == \A s \in ended, g \in Gens : s \notin Live /\ ~Authenticated(s, g)
=============================================================================
