---------------------------- MODULE OAuthSignIn ----------------------------
(* Sign-in with one OAuth provider and the login methods it leaves behind: the
   rows of user_oauth_states, the callbacks that consume them, and the rows of
   user_credentials that callbacks create and that the settings page, the token
   refresh task and other callbacks change at the same time.
   A credential read by one transaction is saved whole by it later, and GORM's
   Save inserts the row again when it has gone in between. *)
EXTENDS Naturals, FiniteSets

CONSTANTS
    Handlers,   \* requests and tasks under way (a bound)
    Accounts, Subjects, NoOne,
    States,     \* authorizations ever started (a bound)
    MaxRows     \* bound: credentials ever created

VARIABLES
    status,     \* of the accounts: none, active or suspended
    primary,    \* primary_login_type
    hasEmail,   \* accounts with an e-mail and password credential
    life,       \* of the rows of user_oauth_states: unused, fresh, expired, gone
    begun,      \* what each row says: purpose, owner
    consent,    \* external: the subject who signs in at the provider with that state
    creds,      \* the provider's rows of user_credentials: [id, owner, subject]
    lastId,     \* their last id
    hPc, h,     \* the step of every handler and its local variables
    handed      \* history: <<state, handler, caller>> of the callbacks let through

oauthVars == <<status, primary, hasEmail, life, begun, consent, creds, lastId, hPc, h, handed>>
stateVars == <<life, begun, consent>>
rowVars == <<creds, lastId>>
accountVars == <<status, primary, hasEmail>>

NoRow == [id |-> 0, owner |-> NoOne, subject |-> NoOne]
NoWork == [state |-> 0, code |-> 0, caller |-> NoOne, here |-> TRUE, seen |-> NoRow]
NoState == [purpose |-> "login", owner |-> NoOne]

Active(u) == u # NoOne /\ status[u] = "active"
RowsOf(u) == {r \in creds : r.owner = u}
At(c, step) == hPc[c] = step
Goto(c, step) == hPc' = [hPc EXCEPT ![c] = step]
Stop(c) == Goto(c, "done") /\ h' = [h EXCEPT ![c] = NoWork]

Init ==
    /\ \E u \in Accounts :
        /\ status = [a \in Accounts |-> IF a = u THEN "active" ELSE "none"]
        /\ primary = [a \in Accounts |-> "email"]
        /\ hasEmail = {u}
        /\ creds \in {{}} \union {{[id |-> 1, owner |-> u, subject |-> x]} : x \in Subjects}
    /\ lastId = 1
    /\ life = [s \in States |-> "unused"]
    /\ begun = [s \in States |-> NoState]
    /\ consent = [s \in States |-> NoOne]
    /\ hPc = [c \in Handlers |-> "idle"] /\ h = [c \in Handlers |-> NoWork]
    /\ handed = {}

-----------------------------------------------------------------------------
\* A row for a login, or for an account that adds the provider to its methods.
InitiateOAuth(s) ==
    /\ life[s] = "unused" /\ \A t \in States : t < s => life[t] # "unused"
    /\ life' = [life EXCEPT ![s] = "fresh"]
    /\ \E u \in Accounts \union {NoOne} :
        /\ u = NoOne \/ Active(u)
        /\ begun' = [begun EXCEPT ![s] =
                        [purpose |-> IF u = NoOne THEN "login" ELSE "bind", owner |-> u]]
    /\ \E x \in Subjects : consent' = [consent EXCEPT ![s] = x]
    /\ UNCHANGED <<accountVars, rowVars, hPc, h, handed>>

Expire(s) ==
    /\ life[s] = "fresh"
    /\ life' = [life EXCEPT ![s] = "expired"]
    /\ UNCHANGED <<accountVars, begun, consent, rowVars, hPc, h, handed>>

RowLocked(s) == \E c \in Handlers : At(c, "consume") /\ h[c].state = s

CleanExpiredStates ==
    LET old == {s \in States : life[s] = "expired"} IN
    /\ old # {} /\ \A s \in old : ~RowLocked(s)
    /\ life' = [s \in States |-> IF s \in old THEN "gone" ELSE life[s]]
    /\ UNCHANGED <<accountVars, begun, consent, rowVars, hPc, h, handed>>

\* consumeOAuthState: SELECT ... FOR UPDATE.  The request brings the state, a
\* code the provider gave for some authorization, and perhaps a session.
Callback(c) ==
    \E s, k \in States, u \in Accounts \union {NoOne}, here \in BOOLEAN :
        /\ At(c, "idle") /\ life[s] \in {"fresh", "expired"} /\ ~RowLocked(s)
        /\ consent[k] # NoOne
        /\ u # NoOne => begun[s].purpose = "bind"     \* no login asks who calls
        /\ h' = [h EXCEPT ![c] = [NoWork EXCEPT !.state = s, !.code = k, !.caller = u,
                                               !.here = here]]
        /\ Goto(c, "consume")
        /\ UNCHANGED <<accountVars, stateVars, rowVars, handed>>

AnyoneAuthorized(row, u) == row.purpose = "bind" => Active(u)
Authorized(row, u) == row.purpose = "bind" => u = row.owner /\ Active(u)

VerdictClientFirst(s, u, here) ==
    IF life[s] = "expired" THEN "expired"
    ELSE IF ~here THEN "client_changed"
    ELSE IF ~Authorized(begun[s], u) THEN "unauthorized" ELSE "ok"

Verdict(s, u, here) ==
    IF life[s] = "expired" THEN "expired"
    ELSE IF ~Authorized(begun[s], u) THEN "unauthorized"
    ELSE IF ~here THEN "client_changed" ELSE "ok"

\* The row survives a callback that is not authorized, and no other.
ConsumeState(c) ==
    LET s == h[c].state verdict == Verdict(s, h[c].caller, h[c].here) IN
    /\ At(c, "consume")
    /\ life' = IF verdict = "unauthorized" THEN life ELSE [life EXCEPT ![s] = "gone"]
    /\ IF verdict = "ok"
       THEN /\ Goto(c, "exchange")
            /\ h' = [h EXCEPT ![c].caller = NoOne]
            /\ handed' = handed \union {<<s, c, h[c].caller>>}
       ELSE Stop(c) /\ UNCHANGED handed
    /\ UNCHANGED <<accountVars, begun, consent, rowVars>>

\* The code is exchanged with the row's verifier, and the ID token carries the
\* row's nonce: both belong to the authorization that was started with the row.
AnyCode(s, k) == TRUE
CodeMatches(s, k) == s = k

Exchange(c) ==
    LET s == h[c].state IN
    /\ At(c, "exchange") /\ CodeMatches(s, h[c].code)
    /\ Goto(c, begun[s].purpose)
    /\ UNCHANGED <<accountVars, stateVars, rowVars, h, handed>>

-----------------------------------------------------------------------------
\* uniq_issuer_subject and uniq_user_provider
Unique(row) == \A r \in creds : r.subject # row.subject /\ r.owner # row.owner
Save(row) == creds' = creds \union {row}
Create(row) == Save(row) /\ lastId' = row.id
Row(u, x) == [id |-> lastId + 1, owner |-> u, subject |-> x]

\* GORM's Save of a row read before: UPDATE by id, and INSERT when none was updated.
CanSave(row) == Unique(row) \/ row \in creds

\* bindOAuthLoginMethod: the account's row for the provider, else the subject's.
Bind(c) ==
    LET u == begun[h[c].state].owner x == consent[h[c].code]
        own == RowsOf(u) taken == {r \in creds : r.subject = x} IN
    /\ At(c, "bind") /\ status[u] # "none"
    /\ IF own # {}
       THEN \E r \in own :
                IF r.subject = x
                THEN h' = [h EXCEPT ![c].seen = r] /\ Goto(c, "save")
                ELSE Stop(c)
       ELSE IF taken # {} THEN Stop(c)
       ELSE Goto(c, "insert") /\ UNCHANGED h
    /\ UNCHANGED <<accountVars, stateVars, rowVars, handed>>

BindInsert(c) ==
    LET row == Row(begun[h[c].state].owner, consent[h[c].code]) IN
    /\ At(c, "insert") /\ lastId < MaxRows /\ Unique(row)
    /\ Create(row)
    /\ Stop(c)
    /\ UNCHANGED <<accountVars, stateVars, handed>>

\* completeOAuthLogin: the subject's row, else an account of its own.
Login(c) ==
    LET own == {r \in creds : r.subject = consent[h[c].code]} IN
    /\ At(c, "login")
    /\ IF own = {} THEN Goto(c, "register") /\ UNCHANGED h
       ELSE \E r \in own : h' = [h EXCEPT ![c].seen = r] /\ Goto(c, "save")
    /\ UNCHANGED <<accountVars, stateVars, rowVars, handed>>

Register(c) ==
    \E u \in Accounts :
        LET row == Row(u, consent[h[c].code]) IN
        /\ At(c, "register") /\ status[u] = "none" /\ lastId < MaxRows /\ Unique(row)
        /\ status' = [status EXCEPT ![u] = "active"]
        /\ primary' = [primary EXCEPT ![u] = "oauth"]
        /\ Create(row)
        /\ Stop(c)
        /\ UNCHANGED <<hasEmail, stateVars, handed>>

\* refreshOAuthToken, by the task: the row is read, and saved with its new tokens.
RefreshOAuthToken(c) ==
    \E r \in creds :
        /\ At(c, "idle")
        /\ h' = [h EXCEPT ![c].seen = r] /\ Goto(c, "save")
        /\ UNCHANGED <<accountVars, stateVars, rowVars, handed>>

SaveRow(c) ==
    /\ At(c, "save") /\ CanSave(h[c].seen)
    /\ Save(h[c].seen)
    /\ Stop(c)
    /\ UNCHANGED <<accountVars, stateVars, lastId, handed>>

\* The provider, the database or a unique constraint refuses; the process dies.
Fail(c) ==
    /\ hPc[c] \notin {"idle", "done"}
    /\ Stop(c)
    /\ UNCHANGED <<accountVars, stateVars, rowVars, handed>>

-----------------------------------------------------------------------------
SetPrimaryLoginMethod(u) ==
    /\ Active(u)
    /\ \/ primary[u] = "email" /\ RowsOf(u) # {} /\ primary' = [primary EXCEPT ![u] = "oauth"]
       \/ primary[u] = "oauth" /\ u \in hasEmail /\ primary' = [primary EXCEPT ![u] = "email"]
    /\ UNCHANGED <<status, hasEmail, stateVars, rowVars, hPc, h, handed>>

\* DeleteLoginMethod: neither the last method nor the primary one.
DeleteLoginMethod(c) ==
    \E u \in Accounts : \E r \in RowsOf(u) :
        /\ At(c, "idle") /\ Active(u)
        /\ u \in hasEmail /\ primary[u] # "oauth"
        /\ h' = [h EXCEPT ![c].seen = r] /\ Goto(c, "delete")
        /\ UNCHANGED <<accountVars, stateVars, rowVars, handed>>

DeleteCredential(c) ==
    /\ At(c, "delete")
    /\ creds' = {r \in creds : r.id # h[c].seen.id}
    /\ Stop(c)
    /\ UNCHANGED <<accountVars, stateVars, lastId, handed>>

Suspend(u) ==
    /\ Active(u)
    /\ status' = [status EXCEPT ![u] = "suspended"]
    /\ UNCHANGED <<primary, hasEmail, stateVars, rowVars, hPc, h, handed>>

Next ==
    \/ \E s \in States : InitiateOAuth(s) \/ Expire(s)
    \/ CleanExpiredStates
    \/ \E u \in Accounts : SetPrimaryLoginMethod(u) \/ Suspend(u)
    \/ \E c \in Handlers :
        \/ Callback(c) \/ ConsumeState(c) \/ Exchange(c) \/ Bind(c) \/ BindInsert(c)
        \/ Login(c) \/ Register(c) \/ RefreshOAuthToken(c) \/ SaveRow(c)
        \/ DeleteLoginMethod(c) \/ DeleteCredential(c) \/ Fail(c)

Spec == Init /\ [][Next]_oauthVars

-----------------------------------------------------------------------------
\* A state value lets one callback through, and for a bind only its owner's.
StateHandedOnce ==
    /\ \A a, b \in handed : a[1] = b[1] => a = b
    /\ \A a \in handed : begun[a[1]].purpose = "bind" => a[3] = begun[a[1]].owner

\* A subject signs in to one account at most, and that account is the one the
\* subject registered, was bound to, or had before: not another's authorization.
SubjectsAreAuthorized ==
    /\ \A r, q \in creds : r.subject = q.subject \/ r.owner = q.owner => r = q
    /\ \A r \in creds : r.id > 1 =>
        \E s \in States : /\ consent[s] = r.subject
                          /\ begun[s].purpose = "bind" => begun[s].owner = r.owner
                          /\ \E a \in handed : a[1] = s

BindStateKept ==
    \A s \in States :
        life[s] = "fresh" /\ begun[s].purpose = "bind" /\ life'[s] = "gone"
        => \E c \in Handlers : /\ At(c, "consume") /\ h[c].state = s
                                /\ h[c].caller = begun[s].owner

\* While a bind state can be used, no callback but its owner's makes it unusable.
BindStateSurvives == [][BindStateKept]_oauthVars
=============================================================================
