------------------------------ MODULE SdkClient ------------------------------
(* PaiGramAccountClient of the Python SDK: coroutines share one access token for
   every set of scopes and one channel to every platform service, each made under
   a lock, and one of them may close the client meanwhile.  A coroutine runs alone
   until it awaits, so that a step here is the code between two awaits; a lock that
   is free is waited for too.  Arguments, answers and the mapping of errors are left
   out. *)
EXTENDS Naturals

CONSTANTS
    Handlers,   \* coroutines (a bound)
    NoOne,
    Services    \* the keys of the platform services

\* required_scopes of the calls, the second for start_entry_identity_link alone.
Scopes == {"access", "link"}

VARIABLES
    closed,     \* _closed
    base,       \* the HTTP client and the account channel, while not asked to close
    channels,   \* [Services -> Nat]: channels that exist and are not asked to close
    stubs,      \* the keys of _platform_stubs, as of _platform_channels and _routes
    valid,      \* the scopes whose token in _cached is not due for renewal
    tokens,     \* history: [Scopes -> Nat], the tokens issued that are not due
    tokenLock, routeLock,
    sPc, s      \* the step of every coroutine and its local variables

sdkVars == <<closed, base, channels, stubs, valid, tokens, tokenLock, routeLock, sPc, s>>

Idle == [scope |-> "access", service |-> NoOne, then |-> "idle", left |-> {}]
At(c, step) == sPc[c] = step
Goto(c, step) == sPc' = [sPc EXCEPT ![c] = step]
Stop(c) == Goto(c, "idle") /\ s' = [s EXCEPT ![c] = Idle]

Init ==
    /\ closed = FALSE /\ base = {"http", "account"}
    /\ channels = [k \in Services |-> 0] /\ stubs = {}
    /\ valid = {} /\ tokens = [x \in Scopes |-> 0]
    /\ tokenLock = NoOne /\ routeLock = NoOne
    /\ sPc = [c \in Handlers |-> "idle"] /\ s = [c \in Handlers |-> Idle]

Unlocked(lock, c) == IF lock = c THEN NoOne ELSE lock

-----------------------------------------------------------------------------
\* resolve_user, list_bindings and start_entry_identity_link.
AccountCall(c) ==
    \E x \in Scopes :
        /\ At(c, "idle") /\ ~closed
        /\ s' = [s EXCEPT ![c] = [Idle EXCEPT !.scope = x, !.then = "call"]]
        /\ Goto(c, "token")
        /\ UNCHANGED <<closed, base, channels, stubs, valid, tokens, tokenLock, routeLock>>

\* The calls of a platform ask for a ticket first, and not whether the client is
\* open; describe_platform needs none.
RuntimeCall(c) ==
    \E k \in Services, first \in {"token", "stub"} :
        /\ At(c, "idle")
        /\ s' = [s EXCEPT ![c] = [Idle EXCEPT !.service = k, !.then = "ticket"]]
        /\ Goto(c, first)
        /\ UNCHANGED <<closed, base, channels, stubs, valid, tokens, tokenLock, routeLock>>

\* _ClientCredentialsTokenProvider.get: before the lock, and again under it.
GetToken(c) ==
    /\ At(c, "token")
    /\ Goto(c, IF s[c].scope \in valid THEN s[c].then ELSE "await token")
    /\ UNCHANGED <<closed, base, channels, stubs, valid, tokens, tokenLock, routeLock, s>>

LockTokens(c) ==
    /\ At(c, "await token") /\ tokenLock = NoOne
    /\ IF s[c].scope \in valid
       THEN Goto(c, s[c].then) /\ UNCHANGED tokenLock
       ELSE Goto(c, "issue") /\ tokenLock' = c
    /\ UNCHANGED <<closed, base, channels, stubs, valid, tokens, routeLock, s>>

Issue(c) ==
    /\ At(c, "issue") /\ "http" \in base
    /\ valid' = valid \union {s[c].scope}
    /\ tokens' = [tokens EXCEPT ![s[c].scope] = @ + 1]
    /\ tokenLock' = NoOne
    /\ Goto(c, s[c].then)
    /\ UNCHANGED <<closed, base, channels, stubs, routeLock, s>>

\* expires_in has passed but for the margin.
TokenGrowsOld(x) ==
    /\ tokens[x] > 0
    /\ valid' = valid \ {x} /\ tokens' = [tokens EXCEPT ![x] = 0]
    /\ UNCHANGED <<closed, base, channels, stubs, tokenLock, routeLock, sPc, s>>

\* The account center answers a call, or hands out a ticket for a platform.
AccountAnswers(c) ==
    /\ "account" \in base
    /\ \/ At(c, "call") /\ Stop(c)
       \/ At(c, "ticket") /\ Goto(c, "stub") /\ UNCHANGED s
    /\ UNCHANGED <<closed, base, channels, stubs, valid, tokens, tokenLock, routeLock>>

-----------------------------------------------------------------------------
\* _platform_stub: before the lock, and again under it; the lock is held while the
\* token and the route are asked for.
PlatformStub(c) ==
    /\ At(c, "stub")
    /\ IF closed THEN Stop(c)
       ELSE /\ Goto(c, IF s[c].service \in stubs THEN "runtime" ELSE "await route")
            /\ UNCHANGED s
    /\ UNCHANGED <<closed, base, channels, stubs, valid, tokens, tokenLock, routeLock>>

NoSecondLook(k) == FALSE
MadeMeanwhile(k) == k \in stubs

LockRoutes(c) ==
    /\ At(c, "await route") /\ routeLock = NoOne
    /\ IF closed THEN Stop(c) /\ UNCHANGED routeLock
       ELSE IF MadeMeanwhile(s[c].service)
            THEN Goto(c, "runtime") /\ UNCHANGED <<routeLock, s>>
            ELSE /\ routeLock' = c /\ Goto(c, "token")
                 /\ s' = [s EXCEPT ![c].then = "route"]
    /\ UNCHANGED <<closed, base, channels, stubs, valid, tokens, tokenLock>>

\* The route came and is one that a channel can be made for; else the call Fails.
CreateChannel(c) ==
    /\ At(c, "route") /\ "account" \in base /\ ~closed
    /\ channels' = [channels EXCEPT ![s[c].service] = @ + 1]
    /\ stubs' = stubs \union {s[c].service}
    /\ routeLock' = NoOne
    /\ Goto(c, "runtime")
    /\ UNCHANGED <<closed, base, valid, tokens, tokenLock, s>>

PlatformAnswers(c) ==
    /\ At(c, "runtime") /\ channels[s[c].service] > 0
    /\ Stop(c)
    /\ UNCHANGED <<closed, base, channels, stubs, valid, tokens, tokenLock, routeLock>>

\* What is awaited fails, or the coroutine is cancelled there: the locks it holds
\* are released.  close goes on to the next resource instead.
Fail(c) ==
    /\ sPc[c] \notin {"idle", "closing"}
    /\ Stop(c)
    /\ tokenLock' = Unlocked(tokenLock, c) /\ routeLock' = Unlocked(routeLock, c)
    /\ UNCHANGED <<closed, base, channels, stubs, valid, tokens>>

-----------------------------------------------------------------------------
Close(c) ==
    /\ At(c, "idle")
    /\ Goto(c, "await close")
    /\ UNCHANGED <<closed, base, channels, stubs, valid, tokens, tokenLock, routeLock, s>>

\* Under the lock of the routes: later closes return at once.
CollectResources(c) ==
    /\ At(c, "await close") /\ routeLock = NoOne
    /\ IF closed THEN Stop(c) /\ UNCHANGED closed
       ELSE /\ closed' = TRUE
            /\ s' = [s EXCEPT ![c].left = base \union stubs]
            /\ Goto(c, "closing")
    /\ UNCHANGED <<base, channels, stubs, valid, tokens, tokenLock, routeLock>>

\* One resource is asked to close, and whether or not it does so, the next.
CloseResource(c) ==
    \E r \in s[c].left :
        /\ At(c, "closing")
        /\ base' = base \ {r}
        /\ channels' = [k \in Services |->
                          IF k = r THEN channels[k] - 1 ELSE channels[k]]
        /\ s' = [s EXCEPT ![c].left = @ \ {r}]
        /\ UNCHANGED <<closed, stubs, valid, tokens, tokenLock, routeLock, sPc>>

CloseReturns(c) ==
    /\ At(c, "closing") /\ s[c].left = {}
    /\ Stop(c)
    /\ UNCHANGED <<closed, base, channels, stubs, valid, tokens, tokenLock, routeLock>>

Next ==
    \/ \E x \in Scopes : TokenGrowsOld(x)
    \/ \E c \in Handlers :
        \/ AccountCall(c) \/ RuntimeCall(c)
        \/ GetToken(c) \/ LockTokens(c) \/ Issue(c) \/ AccountAnswers(c)
        \/ PlatformStub(c) \/ LockRoutes(c) \/ CreateChannel(c) \/ PlatformAnswers(c)
        \/ Close(c) \/ CollectResources(c) \/ CloseResource(c) \/ CloseReturns(c)
        \/ Fail(c)

Spec == Init /\ [][Next]_sdkVars

-----------------------------------------------------------------------------
OneChannelEach == \A k \in Services : channels[k] <= 1
OneTokenEach == \A x \in Scopes : tokens[x] <= 1
Closing == \E c \in Handlers : At(c, "closing")
NothingLeaks ==
    closed /\ ~Closing => base = {} /\ \A k \in Services : channels[k] = 0

\* Coroutines that meet at the locks share what the first of them made, and what
\* they made before, during or after a close is closed when that has returned,
\* whichever await fails or is cancelled.
ResourcesAreShared == OneChannelEach /\ OneTokenEach /\ NothingLeaks
=============================================================================
