--------------------------- MODULE AccountsProofs ---------------------------
(* The components that AccountsMC puts side by side, for any accounts, requests,
   keys, messages and bounds: the invariant of each is proved of its own steps
   and carried to the composition, where no other component touches it. *)
EXTENDS AccountsMC, Integers, FiniteSetTheorems, WellFoundedInduction, TLAPS

-----------------------------------------------------------------------------
\* The component that runs is chosen once, and only its steps are taken.
LEMMA PartStays == [Next]_vars => part' = part
<1> USE DEF OnlySessions, OnlySignIn, OnlyAdmins, OnlyCredentials, OnlyProjection,
            OnlyPolicies, OnlyJwks, OnlyLinks, OnlyEmail, OnlyFactor, OnlySdk
<1>1. SessionsNext => part' = part BY DEF SessionsNext
<1>2. SignInNext => part' = part BY DEF SignInNext
<1>3. AdminsNext => part' = part BY DEF AdminsNext
<1>4. CredentialsNext => part' = part BY DEF CredentialsNext
<1>5. ProjectionNext => part' = part BY DEF ProjectionNext
<1>6. PoliciesNext => part' = part BY DEF PoliciesNext
<1>7. JwksNext => part' = part BY DEF JwksNext
<1>8. LinksNext => part' = part BY DEF LinksNext
<1>9. EmailNext => part' = part BY DEF EmailNext
<1>10. FactorNext => part' = part BY DEF FactorNext
<1>11. SdkNext => part' = part BY DEF SdkNext
<1>12. UNCHANGED vars => part' = part BY DEF vars
<1> QED BY <1>1, <1>2, <1>3, <1>4, <1>5, <1>6, <1>7, <1>8, <1>9, <1>10, <1>11, <1>12
        DEF Next

LEMMA StepsAreOfThePart ==
    ASSUME [Next]_vars
    PROVE  /\ part = "sessions" => [S!Next]_sessionsVars
           /\ part = "sign_in" => [O!Next]_signinVars
           /\ part = "admins" => [D!Next]_adminsVars
           /\ part = "credentials" => [C!Next]_credentialsVars
           /\ part = "projection" => [P!Next]_projectionVars
           /\ part = "policies" => [R!Next]_policiesVars
           /\ part = "jwks" => [J!Next]_jwksVars
           /\ part = "links" => [E!Next]_linksVars
           /\ part = "email" => [Q!Next]_emailVars
           /\ part = "factor" => [F!Next]_factorVars
           /\ part = "sdk" => [K!Next]_sdkVars
<1>1. SessionsNext => part = "sessions" /\ S!Next BY DEF SessionsNext, InSessions, S!Next
<1>2. SignInNext => part = "sign_in" /\ O!Next BY DEF SignInNext, InSignIn, O!Next
<1>3. AdminsNext => part = "admins" /\ D!Next BY DEF AdminsNext, InAdmins, D!Next
<1>4. CredentialsNext => part = "credentials" /\ C!Next
    BY DEF CredentialsNext, InCredentials, C!Next
<1>5. ProjectionNext => part = "projection" /\ P!Next
    BY DEF ProjectionNext, InProjection, P!Next
<1>6. PoliciesNext => part = "policies" /\ R!Next BY DEF PoliciesNext, InPolicies, R!Next
<1>7. JwksNext => part = "jwks" /\ J!Next BY DEF JwksNext, InJwks, J!Next
<1>8. LinksNext => part = "links" /\ E!Next
    BY DEF LinksNext, InLinks, E!Next, E!Challenges
<1>9. EmailNext => part = "email" /\ Q!Next BY DEF EmailNext, InEmail, Q!Next
<1>10. FactorNext => part = "factor" /\ F!Next BY DEF FactorNext, InFactor, F!Next
<1>11. SdkNext => part = "sdk" /\ K!Next BY DEF SdkNext, InSdk, K!Next
<1>12. UNCHANGED vars =>
        /\ UNCHANGED <<sessionsVars, signinVars, adminsVars, credentialsVars>>
        /\ UNCHANGED <<projectionVars, policiesVars, jwksVars, linksVars>>
        /\ UNCHANGED <<emailVars, factorVars, sdkVars>>
    BY DEF vars
<1> QED BY <1>1, <1>2, <1>3, <1>4, <1>5, <1>6, <1>7, <1>8, <1>9, <1>10, <1>11, <1>12
        DEF Next

-----------------------------------------------------------------------------
\* Once a recovery administrator has existed one always does: whoever commits a
\* change the guard watches has held its row since the guard looked.
THEOREM AdministratorAlwaysRemains == Spec => []AdministratorRemains
<1>1. Init /\ part = "admins" => D!Init BY DEF Init
<1>2. part = "admins" /\ [Next]_vars => [D!Next]_D!adminVars
    BY StepsAreOfThePart DEF adminsVars, D!adminVars
<1>3. part = "admins" /\ [Next]_vars => (part = "admins")' BY PartStays
<1>4. ~(part = "admins") /\ [Next]_vars => ~(part = "admins")' BY PartStays
<1>5. D!Spec => []D!AdministratorRemains BY D!AdministratorAlways
<1> QED BY <1>1, <1>2, <1>3, <1>4, <1>5, PTL DEF Spec, AdministratorRemains, D!Spec

\* Each identity comes from an approval by its owner, of a challenge that linked
\* no one else and cannot be approved again: approve (service.go), UpsertLinkTx.
THEOREM LinksAreAlwaysApproved == Spec => []LinksAreApproved
<1>1. Init /\ part = "links" => E!Init BY DEF Init
<1>2. part = "links" /\ [Next]_vars => [E!Next]_E!linkVars
    BY StepsAreOfThePart DEF linksVars, E!linkVars
<1>3. part = "links" /\ [Next]_vars => (part = "links")' BY PartStays
<1>4. ~(part = "links") /\ [Next]_vars => ~(part = "links")' BY PartStays
<1>5. E!Spec => []E!LinksAreApproved BY E!LinksAlwaysApproved
<1> QED BY <1>1, <1>2, <1>3, <1>4, <1>5, PTL DEF Spec, LinksAreApproved, E!Spec

\* A bot never has more challenges open than maxPendingChallenges, however its requests
\* for new ones overlap: Start (service.go) counts and creates with the bot's row locked.
THEOREM CapacityIsNeverExceeded ==
    ASSUME MaxChallenges \in Nat, MaxPending \in Nat
    PROVE  Spec => []CapacityHolds
<1>1. Init /\ part = "links" => E!Init BY DEF Init
<1>2. part = "links" /\ [Next]_vars => [E!Next]_E!linkVars
    BY StepsAreOfThePart DEF linksVars, E!linkVars
<1>3. part = "links" /\ [Next]_vars => (part = "links")' BY PartStays
<1>4. ~(part = "links") /\ [Next]_vars => ~(part = "links")' BY PartStays
<1>5. E!Spec => []E!CapacityHolds BY E!CapacityAlwaysHolds
<1> QED BY <1>1, <1>2, <1>3, <1>4, <1>5, PTL DEF Spec, CapacityHolds, E!Spec

-----------------------------------------------------------------------------
\* JwksCache: who holds the mutex, and that what a fetch has brought is still in
\* the cache while the set is young.
JwksTyped ==
    lPc = [l \in Handlers |-> lPc[l]] /\ wanted = [l \in Handlers |-> wanted[l]]

\* A lookup that fetches holds the mutex from its look at the cache on.
FetcherHolds == \A l \in Handlers : lPc[l] = "fetch" => mutex = l

BroughtIsCached ==
    fetchedFor \subseteq cached \intersect published /\ (fetchedFor # {} => fresh)

JwksInv == JwksTyped /\ FetcherHolds /\ BroughtIsCached /\ J!FetchesCoalesce

LEMMA JwksStep ==
    ASSUME NoOne \notin Handlers, JwksInv, [J!Next]_jwksVars
    PROVE  JwksInv'
<1> USE DEF JwksInv, JwksTyped, FetcherHolds, BroughtIsCached, J!FetchesCoalesce
<1>1. CASE J!RotateKeys BY <1>1 DEF J!RotateKeys
<1>2. CASE J!GrowOld BY <1>2 DEF J!GrowOld
<1>3. ASSUME NEW l \in Handlers, J!Verify(l) PROVE JwksInv'
  <2>1. PICK kid \in KeyIds : wanted' = [wanted EXCEPT ![l] = kid] BY <1>3 DEF J!Verify
  <2> QED BY <1>3, <2>1 DEF J!Verify, J!Goto
<1>4. ASSUME NEW l \in Handlers, J!LookupKey(l) PROVE JwksInv'
  <2>1. CASE wanted[l] \in cached /\ fresh BY <1>4, <2>1 DEF J!LookupKey, J!Goto
  <2>2. CASE ~(wanted[l] \in cached /\ fresh)
      BY <1>4, <2>2 DEF J!LookupKey, J!MutexFree, J!Goto
  <2> QED BY <2>1, <2>2
<1>5. ASSUME NEW l \in Handlers, J!FetchLocked(l) PROVE JwksInv'
  <2>1. \A o \in Handlers : lPc'[o] # "fetch" BY <1>5 DEF J!FetchLocked, J!Goto
  <2> QED BY <1>5, <2>1 DEF J!FetchLocked, J!Goto
<1>6. CASE UNCHANGED jwksVars BY <1>6 DEF jwksVars
<1> QED BY <1>1, <1>2, <1>3, <1>4, <1>5, <1>6 DEF J!Next

\* Between the look at the cache and the fetch of one lookup no other fetches,
\* however keys rotate and grow old meanwhile.
THEOREM FetchesAlwaysCoalesce ==
    ASSUME NoOne \notin Handlers
    PROVE  Spec => []FetchesCoalesce
<1> DEFINE Inv == part = "jwks" => JwksInv
<1>1. Init => Inv
    BY DEF Init, J!Init, JwksInv, JwksTyped, FetcherHolds, BroughtIsCached, J!FetchesCoalesce
<1>2. Inv /\ [Next]_vars => Inv' BY PartStays, StepsAreOfThePart, JwksStep
<1>3. Inv => FetchesCoalesce BY DEF JwksInv, FetchesCoalesce
<1> QED BY <1>1, <1>2, <1>3, PTL DEF Spec

-----------------------------------------------------------------------------
\* EmailQueue: before the worker runs, too, Start finds what was enqueued notified.
WaitersAreNotified ==
    /\ worker \in {"off", "wait"} /\ queue # {} => notified
    /\ ~started => worker = "off"

LEMMA EmailStep ==
    ASSUME WaitersAreNotified, [Q!Next]_emailVars
    PROVE  WaitersAreNotified'
<1> USE DEF WaitersAreNotified, Q!Goto
<1>1. ASSUME NEW m \in Messages, Q!Enqueue(m) PROVE WaitersAreNotified'
    BY <1>1 DEF Q!Enqueue
<1>2. CASE Q!Start BY <1>2 DEF Q!Start
<1>3. CASE Q!Stop \/ Q!Stopped \/ Q!CancelContext
    BY <1>3 DEF Q!Stop, Q!Stopped, Q!CancelContext
<1>4. CASE Q!Process \/ Q!CoalesceNotifications
    BY <1>4 DEF Q!Process, Q!CoalesceNotifications
<1>5. CASE Q!ProcessNext BY <1>5 DEF Q!ProcessNext
<1>6. CASE Q!SendWithRetry \/ Q!Backoff BY <1>6 DEF Q!SendWithRetry, Q!Backoff
<1>7. CASE Q!DrainQueue BY <1>7 DEF Q!DrainQueue, Q!MoreWaiting
<1>8. CASE UNCHANGED emailVars BY <1>8 DEF emailVars
<1> QED BY <1>1, <1>2, <1>3, <1>4, <1>5, <1>6, <1>7, <1>8 DEF Q!Next

\* The worker never waits for a notification while a message waits for it,
\* although it drops notifications and looks at the queue without a lock between.
THEOREM NoMessageEverSleeps == Spec => []NoMessageSleeps
<1> DEFINE Inv == part = "email" => WaitersAreNotified
<1>1. Init => Inv BY DEF Init, Q!Init, WaitersAreNotified
<1>2. Inv /\ [Next]_vars => Inv' BY PartStays, StepsAreOfThePart, EmailStep
<1>3. Inv => NoMessageSleeps BY DEF WaitersAreNotified, NoMessageSleeps, Q!NoMessageSleeps
<1> QED BY <1>1, <1>2, <1>3, PTL DEF Spec
-----------------------------------------------------------------------------
\* SdkClient: a token is asked for, and a channel made, by who has the lock and
\* finds none; a close takes over what there is once nobody makes a channel.
Resources == {"http", "account"}
AtService == {"ticket", "stub", "await route", "route", "runtime"}
AtToken == {"token", "await token", "issue"}
SdkSteps == {"idle", "call", "await close", "closing"} \union AtService \union AtToken
SdkWorks == [scope : K!Scopes, service : Services \union {NoOne},
             then : {"idle", "call", "ticket", "route"}, left : SUBSET (Resources \union Services)]

SdkTyped ==
    /\ closed \in BOOLEAN /\ base \subseteq Resources
    /\ channels \in [Services -> Int] /\ stubs \subseteq Services
    /\ valid \subseteq K!Scopes /\ tokens \in [K!Scopes -> Int]
    /\ sPc \in [Handlers -> SdkSteps] /\ s \in [Handlers -> SdkWorks]
    /\ \A c \in Handlers : sPc[c] \in AtService => s[c].service \in Services
    /\ \A c \in Handlers : sPc[c] \in AtToken =>
            \/ s[c].then = "call"
            \/ s[c].then \in {"ticket", "route"} /\ s[c].service \in Services

\* Under the lock of the routes, asking for the token too.
Routing(c) == sPc[c] = "route" \/ (sPc[c] \in AtToken /\ s[c].then = "route")

SdkLocks ==
    \A c \in Handlers :
        /\ sPc[c] = "issue" => tokenLock = c /\ s[c].scope \notin valid
        /\ Routing(c) => routeLock = c /\ ~closed /\ s[c].service \notin stubs

One(k, those) == IF k \in those THEN 1 ELSE 0

\* Who closes the client has what there is left.
SdkCounts ==
    /\ \A x \in K!Scopes : tokens[x] = One(x, valid)
    /\ ~closed => /\ base = Resources /\ ~K!Closing
                  /\ \A k \in Services : channels[k] = One(k, stubs)
    /\ K!NothingLeaks
    /\ \A c \in Handlers : sPc[c] = "closing" =>
          /\ base = Resources \intersect s[c].left
          /\ \A k \in Services : channels[k] = One(k, s[c].left)
          /\ \A o \in Handlers : sPc[o] = "closing" => o = c

SdkInv == SdkTyped /\ SdkLocks /\ SdkCounts

SdkAssumption == NoOne \notin Handlers /\ Services \intersect Resources = {}

\* A coroutine goes on, with what is shared as it was but for the locks.
LEMMA SdkMoves ==
    ASSUME SdkInv, NEW c \in Handlers, NEW at \in SdkSteps, NEW w \in SdkWorks,
           sPc' = [sPc EXCEPT ![c] = at], s' = [s EXCEPT ![c] = w],
           at \in AtService => w.service \in Services,
           at \in AtToken => \/ w.then = "call"
                             \/ w.then \in {"ticket", "route"} /\ w.service \in Services,
           at = "issue" => tokenLock' = c /\ w.scope \notin valid,
           at = "route" \/ (at \in AtToken /\ w.then = "route") =>
                routeLock' = c /\ ~closed /\ w.service \notin stubs,
           at # "closing" /\ sPc[c] # "closing",
           \A o \in Handlers \ {c} : tokenLock = o => tokenLock' = o,
           \A o \in Handlers \ {c} : routeLock = o => routeLock' = o,
           UNCHANGED <<closed, base, channels, stubs, valid, tokens>>
    PROVE  SdkInv'
<1> USE DEF SdkInv, SdkTyped
<1>1. sPc'[c] = at /\ s'[c] = w
    OBVIOUS
<1>2. \A o \in Handlers \ {c} : sPc'[o] = sPc[o] /\ s'[o] = s[o]
    OBVIOUS
<1>3. SdkTyped'
    BY <1>1, <1>2
<1>4. SdkLocks'
    BY <1>1, <1>2 DEF SdkLocks, Routing
<1>5. K!Closing' <=> K!Closing
    BY <1>1, <1>2 DEF K!Closing, K!At
<1>6. SdkCounts'
    BY <1>1, <1>2, <1>5 DEF SdkCounts, K!NothingLeaks, One
<1> QED BY <1>3, <1>4, <1>6

\* ... or comes to its end.
LEMMA SdkStops ==
    ASSUME SdkInv, NEW c \in Handlers, K!Stop(c), sPc[c] # "closing",
           \A o \in Handlers \ {c} : tokenLock = o => tokenLock' = o,
           \A o \in Handlers \ {c} : routeLock = o => routeLock' = o,
           UNCHANGED <<closed, base, channels, stubs, valid, tokens>>
    PROVE  SdkInv'
<1>1. K!Idle \in SdkWorks BY DEF K!Idle, SdkWorks, K!Scopes
<1>2. "idle" \in SdkSteps /\ "idle" \notin AtService \union AtToken
    BY DEF SdkSteps, AtService, AtToken
<1>3. sPc' = [sPc EXCEPT ![c] = "idle"] /\ s' = [s EXCEPT ![c] = K!Idle]
    BY DEF K!Stop, K!Goto
<1> QED BY <1>1, <1>2, <1>3, SdkMoves

LEMMA SdkStep ==
    ASSUME SdkAssumption, SdkInv, [K!Next]_sdkVars
    PROVE  SdkInv'
<1> USE DEF SdkInv, SdkTyped, K!At
<1>0. K!Idle \in SdkWorks /\ K!Idle.left = {} /\ K!Idle.scope = "access"
    BY DEF K!Idle, SdkWorks, K!Scopes
<1>1. ASSUME NEW c \in Handlers, K!AccountCall(c) PROVE SdkInv'
  <2>1. PICK x \in K!Scopes :
            s' = [s EXCEPT ![c] = [K!Idle EXCEPT !.scope = x, !.then = "call"]]
      BY <1>1 DEF K!AccountCall
  <2> DEFINE w == [K!Idle EXCEPT !.scope = x, !.then = "call"]
  <2>2. w \in SdkWorks /\ w.then = "call" BY <1>0 DEF SdkWorks, K!Idle
  <2>3. s' = [s EXCEPT ![c] = w] BY <2>1
  <2> HIDE DEF w
  <2> QED BY <1>1, <2>2, <2>3, SdkMoves
          DEF K!AccountCall, K!Goto, SdkSteps, AtService, AtToken
<1>2. ASSUME NEW c \in Handlers, K!RuntimeCall(c) PROVE SdkInv'
  <2>1. PICK k \in Services, first \in {"token", "stub"} :
            /\ s' = [s EXCEPT ![c] = [K!Idle EXCEPT !.service = k, !.then = "ticket"]]
            /\ K!Goto(c, first)
      BY <1>2 DEF K!RuntimeCall
  <2> DEFINE w == [K!Idle EXCEPT !.service = k, !.then = "ticket"]
  <2>2. w \in SdkWorks /\ w.then = "ticket" /\ w.service = k BY <1>0 DEF SdkWorks, K!Idle
  <2>3. s' = [s EXCEPT ![c] = w] BY <2>1
  <2>4. /\ sPc[c] = "idle" /\ sPc' = [sPc EXCEPT ![c] = first]
        /\ UNCHANGED <<closed, base, channels, stubs, valid, tokens, tokenLock, routeLock>>
      BY <1>2, <2>1 DEF K!RuntimeCall, K!Goto
  <2>5. first \in SdkSteps BY DEF SdkSteps, AtService, AtToken
  <2> HIDE DEF w
  <2> QED BY <2>2, <2>3, <2>4, <2>5, SdkMoves DEF AtService, AtToken
<1>3. ASSUME NEW c \in Handlers, K!GetToken(c) \/ K!LockTokens(c) PROVE SdkInv'
  <2> DEFINE at == sPc'[c]
  <2>1. at \in {"await token", "issue", s[c].then} /\ sPc' = [sPc EXCEPT ![c] = at]
      BY <1>3 DEF K!GetToken, K!LockTokens, K!Goto
  <2>2. s' = [s EXCEPT ![c] = s[c]] /\ s[c] \in SdkWorks
      BY <1>3 DEF K!GetToken, K!LockTokens
  <2>3. sPc[c] \in AtToken BY <1>3 DEF K!GetToken, K!LockTokens, AtToken
  <2>4. /\ at = "issue" => tokenLock' = c /\ s[c].scope \notin valid
        /\ \A o \in Handlers \ {c} : tokenLock = o => tokenLock' = o
        /\ UNCHANGED <<closed, base, channels, stubs, valid, tokens, routeLock>>
      BY <1>3, <2>1, <2>3 DEF K!GetToken, K!LockTokens, SdkAssumption, K!Goto
  <2>5. at \in SdkSteps /\ at # "closing" /\ sPc[c] # "closing"
      BY <2>1, <2>3 DEF SdkSteps, AtService, AtToken
  <2>6. /\ at \in AtService => s[c].service \in Services
        /\ at = "route" => s[c].then = "route"
      BY <2>1, <2>3 DEF AtService, AtToken
  <2>7. s[c].then = "route" => routeLock = c /\ ~closed /\ s[c].service \notin stubs
      BY <2>3 DEF SdkLocks, Routing
  <2> HIDE DEF at
  <2> QED BY <2>1, <2>2, <2>3, <2>4, <2>5, <2>6, <2>7, SdkMoves
<1>4. ASSUME NEW c \in Handlers, K!Issue(c) PROVE SdkInv'
  <2> DEFINE x == s[c].scope
  <2>1. x \in K!Scopes /\ x \notin valid BY <1>4 DEF K!Issue, SdkLocks, SdkWorks
  <2>2. /\ valid' = valid \union {x} /\ tokens' = [tokens EXCEPT ![x] = @ + 1]
        /\ sPc' = [sPc EXCEPT ![c] = s[c].then] /\ sPc[c] = "issue"
        /\ UNCHANGED <<closed, base, channels, stubs, routeLock, s>>
      BY <1>4 DEF K!Issue, K!Goto
  <2>3. \/ s[c].then = "call"
        \/ s[c].then \in {"ticket", "route"} /\ s[c].service \in Services
      BY <2>2 DEF AtToken
  <2>4. SdkTyped'
    <3>1. valid' \subseteq K!Scopes /\ tokens' \in [K!Scopes -> Int] BY <2>1, <2>2
    <3>2. sPc' \in [Handlers -> SdkSteps] BY <2>2, <2>3 DEF SdkSteps, AtService
    <3> QED BY <2>2, <2>3, <3>1, <3>2 DEF AtService, AtToken
  <2>5. \A o \in Handlers : sPc'[o] = "issue" => o # c /\ sPc[o] = "issue"
      BY <2>2, <2>3
  <2>6. \A o \in Handlers : sPc[o] = "issue" => o = c
      BY <2>2 DEF SdkLocks
  <2>7. \A o \in Handlers : Routing(o)' => Routing(o)
      BY <2>2, <2>3 DEF Routing, AtToken
  <2>8. SdkLocks' BY <2>2, <2>5, <2>6, <2>7 DEF SdkLocks
  <2>9. \A o \in Handlers : sPc'[o] = "closing" <=> sPc[o] = "closing"
      BY <2>2, <2>3
  <2>10. SdkCounts'
    <3>1. \A y \in K!Scopes : tokens'[y] = One(y, valid)'
        BY <2>1, <2>2 DEF SdkCounts, One
    <3> QED BY <2>2, <2>9, <3>1 DEF SdkCounts, One, K!NothingLeaks, K!Closing
  <2> QED BY <2>4, <2>8, <2>10
<1>5. ASSUME NEW x \in K!Scopes, K!TokenGrowsOld(x) PROVE SdkInv'
    BY <1>5 DEF K!TokenGrowsOld, SdkLocks, Routing, SdkCounts, One, K!NothingLeaks, K!Closing
<1>6. ASSUME NEW c \in Handlers, K!AccountAnswers(c) \/ K!PlatformStub(c) \/ K!PlatformAnswers(c)
      PROVE  SdkInv'
  <2> DEFINE at == sPc'[c]
             w == s'[c]
  <2>1. /\ sPc' = [sPc EXCEPT ![c] = at] /\ s' = [s EXCEPT ![c] = w]
        /\ at \in {"idle", "stub", "runtime", "await route"}
        /\ w \in {s[c], K!Idle} /\ (at # "idle" => w = s[c])
      BY <1>6 DEF K!AccountAnswers, K!PlatformStub, K!PlatformAnswers, K!Goto, K!Stop
  <2>2. sPc[c] \in {"call"} \union AtService
      BY <1>6 DEF K!AccountAnswers, K!PlatformStub, K!PlatformAnswers, AtService
  <2>3. at # "idle" => sPc[c] \in AtService
      BY <1>6, <2>1 DEF K!AccountAnswers, K!PlatformStub, K!PlatformAnswers, K!Goto, K!Stop, AtService
  <2>4. UNCHANGED <<closed, base, channels, stubs, valid, tokens, tokenLock, routeLock>>
      BY <1>6 DEF K!AccountAnswers, K!PlatformStub, K!PlatformAnswers
  <2>5. at \in SdkSteps /\ w \in SdkWorks BY <1>0, <2>1 DEF SdkSteps, AtService
  <2> HIDE DEF at, w
  <2> QED BY <2>1, <2>2, <2>3, <2>4, <2>5, SdkMoves DEF AtService, AtToken
<1>7. ASSUME NEW c \in Handlers, K!LockRoutes(c) PROVE SdkInv'
  <2>1. CASE closed BY <1>7, <2>1, SdkStops DEF K!LockRoutes
  <2>2. CASE ~closed /\ K!MadeMeanwhile(s[c].service)
    <3>1. s' = [s EXCEPT ![c] = s[c]] /\ s[c] \in SdkWorks
        BY <1>7, <2>2 DEF K!LockRoutes
    <3> QED BY <1>7, <2>2, <3>1, SdkMoves DEF K!LockRoutes, K!Goto, SdkSteps, AtService, AtToken
  <2>3. CASE ~closed /\ ~K!MadeMeanwhile(s[c].service)
    <3> DEFINE w == [s[c] EXCEPT !.then = "route"]
    <3>1. s[c] \in SdkWorks /\ s[c].service \in Services
        BY <1>7 DEF K!LockRoutes, AtService
    <3>2. w \in SdkWorks /\ w.service = s[c].service /\ w.then = "route"
        BY <3>1 DEF SdkWorks
    <3>3. s' = [s EXCEPT ![c] = w] BY <1>7, <2>3 DEF K!LockRoutes
    <3>4. /\ sPc[c] = "await route" /\ sPc' = [sPc EXCEPT ![c] = "token"]
          /\ routeLock' = c /\ s[c].service \notin stubs
          /\ \A o \in Handlers \ {c} : routeLock # o
          /\ UNCHANGED <<closed, base, channels, stubs, valid, tokens, tokenLock>>
        BY <1>7, <2>3 DEF K!LockRoutes, K!MadeMeanwhile, K!Goto, SdkAssumption
    <3>5. "token" \in SdkSteps BY DEF SdkSteps, AtToken
    <3> HIDE DEF w
    <3> QED BY <2>3, <3>1, <3>2, <3>3, <3>4, <3>5, SdkMoves DEF AtService, AtToken
  <2> QED BY <2>1, <2>2, <2>3
<1>8. ASSUME NEW c \in Handlers, K!CreateChannel(c) PROVE SdkInv'
  <2> DEFINE k == s[c].service
  <2>1. /\ sPc[c] = "route" /\ ~closed /\ k \in Services
        /\ channels' = [channels EXCEPT ![k] = @ + 1] /\ stubs' = stubs \union {k}
        /\ sPc' = [sPc EXCEPT ![c] = "runtime"]
        /\ UNCHANGED <<closed, base, valid, tokens, tokenLock, s>>
      BY <1>8 DEF K!CreateChannel, K!Goto, AtService
  <2>2. k \notin stubs /\ \A o \in Handlers : Routing(o) => o = c
      BY <2>1 DEF SdkLocks, Routing
  <2>3. SdkTyped'
    <3>1. channels' \in [Services -> Int] /\ stubs' \subseteq Services BY <2>1
    <3>2. sPc' \in [Handlers -> SdkSteps] BY <2>1 DEF SdkSteps, AtService
    <3> QED BY <2>1, <3>1, <3>2 DEF AtToken
  <2>4. \A o \in Handlers : ~Routing(o)' BY <2>1, <2>2 DEF Routing, AtToken
  <2>5. SdkLocks' BY <2>1, <2>4 DEF SdkLocks
  <2>6. \A o \in Handlers : sPc[o] # "closing" /\ sPc'[o] # "closing"
      BY <2>1 DEF SdkCounts, K!Closing
  <2>7. SdkCounts' BY <2>1, <2>2, <2>6 DEF SdkCounts, One, K!NothingLeaks, K!Closing
  <2> QED BY <2>3, <2>5, <2>7
<1>9. ASSUME NEW c \in Handlers, K!Fail(c) PROVE SdkInv'
    BY <1>9, SdkStops DEF K!Fail, K!Unlocked
<1>10. ASSUME NEW c \in Handlers, K!Close(c) PROVE SdkInv'
  <2>1. s' = [s EXCEPT ![c] = s[c]] /\ s[c] \in SdkWorks
      BY <1>10 DEF K!Close
  <2> QED BY <1>10, <2>1, SdkMoves DEF K!Close, K!Goto, SdkSteps, AtService, AtToken
<1>11. ASSUME NEW c \in Handlers, K!CollectResources(c) PROVE SdkInv'
  <2>1. CASE closed
      BY <1>11, <2>1, SdkStops DEF K!CollectResources
  <2>2. CASE ~closed
    <3>1. /\ closed' = TRUE /\ s' = [s EXCEPT ![c].left = base \union stubs]
          /\ sPc' = [sPc EXCEPT ![c] = "closing"] /\ sPc[c] = "await close"
          /\ routeLock = NoOne
          /\ UNCHANGED <<base, channels, stubs, valid, tokens, tokenLock, routeLock>>
        BY <1>11, <2>2 DEF K!CollectResources, K!Goto
    <3>2. /\ s' \in [Handlers -> SdkWorks] /\ s'[c].left = base \union stubs
          /\ \A o \in Handlers : s'[o].scope = s[o].scope /\ s'[o].service = s[o].service
                                 /\ s'[o].then = s[o].then
        BY <3>1 DEF SdkWorks
    <3>3. SdkTyped' BY <3>1, <3>2 DEF SdkSteps, AtService, AtToken
    <3>4. \A o \in Handlers : ~Routing(o)' /\ (sPc'[o] = "issue" => sPc[o] = "issue")
        BY <3>1, <3>2 DEF Routing, SdkLocks, AtToken, SdkAssumption
    <3>5. SdkLocks' BY <3>1, <3>2, <3>4 DEF SdkLocks
    <3>6. \A o \in Handlers : sPc'[o] = "closing" <=> o = c
        BY <2>2, <3>1 DEF SdkCounts, K!Closing
    <3>7. K!Closing' BY <3>6 DEF K!Closing
    <3>8. /\ base' = Resources \intersect s'[c].left
          /\ \A k \in Services : channels'[k] = One(k, s[c].left)'
        BY <2>2, <3>1, <3>2 DEF SdkCounts, One, SdkAssumption, Resources
    <3>9. SdkCounts' BY <3>1, <3>6, <3>7, <3>8 DEF SdkCounts, K!NothingLeaks, One
    <3> QED BY <3>3, <3>5, <3>9
  <2> QED BY <2>1, <2>2
<1>12. ASSUME NEW c \in Handlers, K!CloseResource(c) PROVE SdkInv'
  <2>1. PICK x \in s[c].left :
          /\ sPc[c] = "closing" /\ base' = base \ {x}
          /\ channels' = [k \in Services |-> IF k = x THEN channels[k] - 1 ELSE channels[k]]
          /\ s' = [s EXCEPT ![c].left = @ \ {x}]
          /\ UNCHANGED <<closed, stubs, valid, tokens, tokenLock, routeLock, sPc>>
      BY <1>12 DEF K!CloseResource
  <2>2. /\ s' \in [Handlers -> SdkWorks] /\ s'[c].left = s[c].left \ {x}
        /\ \A o \in Handlers : s'[o].scope = s[o].scope /\ s'[o].service = s[o].service
                               /\ s'[o].then = s[o].then
      BY <2>1 DEF SdkWorks
  <2>3. SdkTyped' BY <2>1, <2>2
  <2>4. SdkLocks' BY <2>1, <2>2 DEF SdkLocks, Routing
  <2>5. \A o \in Handlers : sPc[o] = "closing" => o = c BY <2>1 DEF SdkCounts
  <2>6. K!Closing /\ K!Closing' /\ closed BY <2>1 DEF K!Closing, SdkCounts
  <2>7. /\ base' = Resources \intersect s'[c].left
        /\ \A k \in Services : channels'[k] = One(k, s[c].left)'
      BY <2>1, <2>2 DEF SdkCounts, One
  <2> QED BY <2>1, <2>3, <2>4, <2>5, <2>6, <2>7 DEF SdkCounts, K!NothingLeaks, One
<1>13. ASSUME NEW c \in Handlers, K!CloseReturns(c) PROVE SdkInv'
  <2>1. /\ sPc[c] = "closing" /\ s[c].left = {}
        /\ sPc' = [sPc EXCEPT ![c] = "idle"] /\ s' = [s EXCEPT ![c] = K!Idle]
        /\ UNCHANGED <<closed, base, channels, stubs, valid, tokens, tokenLock, routeLock>>
      BY <1>13 DEF K!CloseReturns, K!Stop, K!Goto
  <2>2. SdkTyped' BY <1>0, <2>1 DEF SdkSteps, AtService, AtToken
  <2>3. SdkLocks' BY <2>1 DEF SdkLocks, Routing, AtToken
  <2>4. base = {} /\ \A k \in Services : channels[k] = 0 BY <2>1 DEF SdkCounts, One
  <2>5. closed /\ \A o \in Handlers : sPc'[o] # "closing" BY <2>1 DEF SdkCounts, K!Closing
  <2> QED BY <2>1, <2>2, <2>3, <2>4, <2>5 DEF SdkCounts, K!NothingLeaks, One
<1>14. CASE UNCHANGED sdkVars
    BY <1>14 DEF sdkVars, SdkLocks, Routing, SdkCounts, One, K!NothingLeaks, K!Closing
<1> QED BY <1>1, <1>2, <1>3, <1>4, <1>5, <1>6, <1>7, <1>8, <1>9, <1>10, <1>11, <1>12,
           <1>13, <1>14 DEF K!Next

\* Coroutines share one token for the same scopes and one channel to the same
\* platform, and nothing stays open when a close has returned, whichever of them
\* is cancelled meanwhile: get, _platform_stub and close of the Python SDK.
THEOREM ResourcesAreAlwaysShared ==
    ASSUME SdkAssumption
    PROVE  Spec => []ResourcesAreShared
<1> DEFINE Inv == part = "sdk" => SdkInv
<1>1. Init => Inv
  <2> SUFFICES ASSUME Init, part = "sdk" PROVE SdkInv OBVIOUS
  <2>1. K!Init BY DEF Init
  <2>2. K!Idle \in SdkWorks BY DEF K!Idle, SdkWorks, K!Scopes
  <2>3. "idle" \in SdkSteps /\ "idle" \notin AtService \union AtToken
      BY DEF SdkSteps, AtService, AtToken
  <2>4. SdkTyped
    <3>1. base \subseteq Resources BY <2>1 DEF K!Init, Resources
    <3>2. channels \in [Services -> Int] /\ tokens \in [K!Scopes -> Int]
        BY <2>1 DEF K!Init
    <3>3. sPc \in [Handlers -> SdkSteps] /\ s \in [Handlers -> SdkWorks]
        BY <2>1, <2>2, <2>3 DEF K!Init
    <3>4. closed = FALSE /\ stubs = {} /\ valid = {} /\ \A c \in Handlers : sPc[c] = "idle"
        BY <2>1 DEF K!Init
    <3> QED BY <2>3, <3>1, <3>2, <3>3, <3>4 DEF SdkTyped
  <2>5. SdkLocks BY <2>1 DEF K!Init, SdkLocks, Routing, AtToken
  <2>6. SdkCounts
      BY <2>1 DEF K!Init, SdkCounts, One, K!NothingLeaks, K!Closing, K!At, Resources
  <2> QED BY <2>4, <2>5, <2>6 DEF SdkInv
<1>2. Inv /\ [Next]_vars => Inv' BY PartStays, StepsAreOfThePart, SdkStep
<1>3. Inv => ResourcesAreShared
  <2> SUFFICES ASSUME SdkInv PROVE K!ResourcesAreShared BY DEF ResourcesAreShared
  <2>1. K!OneTokenEach BY DEF SdkInv, SdkCounts, One, K!OneTokenEach
  <2>2. K!OneChannelEach
    <3>1. CASE ~closed BY <3>1 DEF SdkInv, SdkCounts, One, K!OneChannelEach
    <3>2. CASE closed /\ ~K!Closing
        BY <3>2 DEF SdkInv, SdkCounts, K!NothingLeaks, K!OneChannelEach
    <3>3. CASE K!Closing
        BY <3>3 DEF SdkInv, SdkCounts, One, K!Closing, K!At, K!OneChannelEach
    <3> QED BY <3>1, <3>2, <3>3 DEF SdkInv, SdkTyped
  <2> QED BY <2>1, <2>2 DEF SdkInv, SdkCounts, K!ResourcesAreShared
<1> QED BY <1>1, <1>2, <1>3, PTL DEF Spec

-----------------------------------------------------------------------------
\* OAuthSignIn: whoever got past the state is the only one who did, holds the code
\* of that authorization, and saves no row but such a one.
Methods == [id : Nat, owner : Accounts, subject : Subjects]
OauthWorks ==
    [state : States \union {0}, code : States \union {0}, caller : Accounts \union {NoOne},
     here : BOOLEAN, seen : Methods \union {O!NoRow}]
Matched == {"bind", "insert", "login", "register"}
OauthSteps == {"idle", "done", "consume", "exchange", "save", "delete"} \union Matched

OauthTyped ==
    /\ life \in [States -> {"unused", "fresh", "expired", "gone"}]
    /\ begun \in [States -> [purpose : {"login", "bind"}, owner : Accounts \union {NoOne}]]
    /\ consent \in [States -> Subjects \union {NoOne}]
    /\ \A a \in States : begun[a].purpose = "bind" => begun[a].owner \in Accounts
    /\ \A a \in States : life[a] # "unused" => consent[a] \in Subjects
    /\ creds \subseteq Methods /\ lastId \in Nat \ {0}
    /\ hPc \in [Handlers -> OauthSteps] /\ h \in [Handlers -> OauthWorks]
    /\ handed \subseteq States \X Handlers \X (Accounts \union {NoOne})

Handed(a) == \E y \in handed : y[1] = a
HandedAreGone == \A a \in States : Handed(a) => life[a] = "gone"

\* The transaction that has the row of a state.
Consuming(c) == hPc[c] = "consume"
OneConsumer ==
    /\ \A c \in Handlers : Consuming(c) =>
            h[c].state \in States /\ life[h[c].state] \in {"fresh", "expired"}
    /\ \A c, o \in Handlers : Consuming(c) /\ Consuming(o) /\ h[c].state = h[o].state => c = o

PurposeOf(at) == IF at \in {"bind", "insert"} THEN "bind" ELSE "login"
Admitted(at, w) ==
    at \in {"exchange"} \union Matched =>
        /\ w.state \in States /\ Handed(w.state)
        /\ at # "exchange" => w.code = w.state /\ begun[w.state].purpose = PurposeOf(at)

Justified(x) ==
    x.id > 1 => \E a \in States : /\ consent[a] = x.subject
                                  /\ begun[a].purpose = "bind" => begun[a].owner = x.owner
                                  /\ Handed(a)
Saves(at, w) == at = "save" => w.seen \in Methods /\ Justified(w.seen)
Distinct(rs) == \A x, y \in rs : x.subject = y.subject \/ x.owner = y.owner => x = y

OauthInv ==
    /\ OauthTyped /\ HandedAreGone /\ OneConsumer
    /\ \A c \in Handlers : Admitted(hPc[c], h[c]) /\ Saves(hPc[c], h[c])
    /\ Distinct(creds) /\ \A x \in creds : Justified(x)
    /\ O!StateHandedOnce

LEMMA NoWorkIsOauthWork == O!NoWork \in OauthWorks /\ O!NoWork.seen = O!NoRow
BY DEF O!NoWork, OauthWorks, O!NoRow

\* What a request that was let through relies on does not change any more.
LEMMA JustifiedStays ==
    ASSUME OauthInv, handed \subseteq handed',
           \A a \in States : Handed(a) => consent'[a] = consent[a] /\ begun'[a] = begun[a]
    PROVE  /\ \A x : Justified(x) => Justified(x)'
           /\ \A at, w : Admitted(at, w) => Admitted(at, w)'
           /\ \A at, w : Saves(at, w) => Saves(at, w)'
<1>1. \A a \in States : Handed(a) => Handed(a)' BY DEF Handed
<1>2. ASSUME NEW x, Justified(x) PROVE Justified(x)'
  <2> SUFFICES ASSUME x.id > 1
      PROVE  \E a \in States : /\ consent'[a] = x.subject
                               /\ begun'[a].purpose = "bind" => begun'[a].owner = x.owner
                               /\ Handed(a)'
      BY DEF Justified
  <2>1. PICK a \in States : /\ consent[a] = x.subject
                            /\ begun[a].purpose = "bind" => begun[a].owner = x.owner
                            /\ Handed(a)
      BY <1>2 DEF Justified
  <2> QED BY <1>1, <2>1
<1>3. ASSUME NEW at, NEW w, Admitted(at, w) PROVE Admitted(at, w)'
    BY <1>1, <1>3 DEF Admitted
<1> QED BY <1>2, <1>3 DEF Saves

\* A request goes on, and the rows of user_oauth_states are as they were.
LEMMA OauthMoves ==
    ASSUME OauthInv, NEW c \in Handlers, NEW at \in OauthSteps, NEW w \in OauthWorks,
           hPc' = [hPc EXCEPT ![c] = at], h' = [h EXCEPT ![c] = w],
           at = "consume" =>
                /\ w.state \in States /\ life[w.state] \in {"fresh", "expired"}
                /\ \A o \in Handlers : Consuming(o) => h[o].state # w.state,
           Admitted(at, w), Saves(at, w),
           creds' \subseteq Methods, lastId' \in Nat \ {0},
           Distinct(creds'), \A x \in creds' : Justified(x),
           UNCHANGED <<life, begun, consent, handed>>
    PROVE  OauthInv'
<1> USE DEF OauthInv
<1>1. hPc'[c] = at /\ h'[c] = w BY DEF OauthTyped
<1>2. \A o \in Handlers \ {c} : hPc'[o] = hPc[o] /\ h'[o] = h[o] BY DEF OauthTyped
<1>3. OauthTyped' BY DEF OauthTyped
<1>4. HandedAreGone' BY DEF HandedAreGone, Handed
<1>5. OneConsumer' BY <1>1, <1>2 DEF OneConsumer, Consuming
<1>6. /\ \A x : Justified(x) => Justified(x)'
      /\ \A o \in Handlers : Admitted(hPc[o], h[o])' /\ Saves(hPc[o], h[o])'
  <2>1. /\ \A x : Justified(x) => Justified(x)'
        /\ \A b, y : Admitted(b, y) => Admitted(b, y)'
        /\ \A b, y : Saves(b, y) => Saves(b, y)'
      BY JustifiedStays
  <2>2. ASSUME NEW o \in Handlers PROVE Admitted(hPc'[o], h'[o]) /\ Saves(hPc'[o], h'[o])
    <3>1. CASE o = c BY <1>1, <3>1
    <3>2. CASE o # c BY <1>2, <3>2
    <3> QED BY <3>1, <3>2
  <2>3. ASSUME NEW o \in Handlers PROVE Admitted(hPc[o], h[o])' /\ Saves(hPc[o], h[o])'
      BY <2>2, <2>3 DEF Admitted, Saves, Justified, Handed
  <2> QED BY <2>1, <2>3
<1>7. O!StateHandedOnce' BY DEF O!StateHandedOnce
<1> QED BY <1>3, <1>4, <1>5, <1>6, <1>7

\* ... or comes to its end, with the rows of user_credentials changed or not.
LEMMA OauthStops ==
    ASSUME OauthInv, NEW c \in Handlers, O!Stop(c),
           creds' \subseteq Methods, lastId' \in Nat \ {0},
           Distinct(creds'), \A x \in creds' : Justified(x),
           UNCHANGED <<life, begun, consent, handed>>
    PROVE  OauthInv'
<1>1. hPc' = [hPc EXCEPT ![c] = "done"] /\ h' = [h EXCEPT ![c] = O!NoWork]
    BY DEF O!Stop, O!Goto
<1>2. "done" \in OauthSteps /\ Admitted("done", O!NoWork) /\ Saves("done", O!NoWork)
    BY DEF OauthSteps, Admitted, Saves, Matched
<1> QED BY <1>1, <1>2, NoWorkIsOauthWork, OauthMoves

\* A row of user_oauth_states changes: one that lets nobody through now.
LEMMA StatesMove ==
    ASSUME OauthInv, OauthTyped',
           \A a \in States : life[a] = "gone" =>
                life'[a] = "gone" /\ begun'[a] = begun[a] /\ consent'[a] = consent[a],
           \A a \in States : life[a] = "fresh" /\ life'[a] # "fresh" => life'[a] = "expired",
           \A c \in Handlers : Consuming(c) => life'[h[c].state] \in {"fresh", "expired"},
           UNCHANGED <<hPc, h, handed, creds>>
    PROVE  OauthInv'
<1> USE DEF OauthInv
<1>1. \A a \in States : Handed(a) =>
            life'[a] = "gone" /\ begun'[a] = begun[a] /\ consent'[a] = consent[a]
    BY DEF HandedAreGone
<1>2. HandedAreGone' BY <1>1 DEF HandedAreGone, Handed
<1>3. OneConsumer' BY DEF OneConsumer, Consuming
<1>4. /\ \A x : Justified(x) => Justified(x)'
      /\ \A b, y : Admitted(b, y) => Admitted(b, y)'
      /\ \A b, y : Saves(b, y) => Saves(b, y)'
    BY <1>1, JustifiedStays
<1>5. \A c \in Handlers : Admitted(hPc[c], h[c])' /\ Saves(hPc[c], h[c])'
    BY <1>4
<1>6. O!StateHandedOnce'
  <2>1. \A y \in handed : y[1] \in States /\ Handed(y[1]) BY DEF OauthTyped, Handed
  <2> QED BY <1>1, <2>1 DEF O!StateHandedOnce
<1> QED BY <1>2, <1>3, <1>4, <1>5, <1>6 DEF Distinct

LEMMA ConsumeKeeps == ASSUME OauthInv, NEW c \in Handlers, O!ConsumeState(c) PROVE OauthInv'
<1> USE DEF OauthInv
<1> DEFINE a == h[c].state
           u == h[c].caller
           verdict == O!Verdict(a, u, h[c].here)
<1>1. Consuming(c) /\ a \in States /\ life[a] \in {"fresh", "expired"} /\ h[c] \in OauthWorks
    BY DEF O!ConsumeState, O!At, Consuming, OneConsumer, OauthTyped
<1>2. ~Handed(a) BY <1>1 DEF HandedAreGone
<1>3. /\ life' = IF verdict = "unauthorized" THEN life ELSE [life EXCEPT ![a] = "gone"]
      /\ UNCHANGED <<begun, consent, creds, lastId>>
    BY DEF O!ConsumeState, O!rowVars, O!accountVars
<1>4. CASE verdict = "ok"
  <2>1. O!Authorized(begun[a], u)
      BY <1>4 DEF O!Verdict
  <2> DEFINE w == [h[c] EXCEPT !.caller = NoOne]
  <2>2. /\ hPc' = [hPc EXCEPT ![c] = "exchange"] /\ h' = [h EXCEPT ![c] = w]
        /\ handed' = handed \union {<<a, c, u>>} /\ life' = [life EXCEPT ![a] = "gone"]
      BY <1>3, <1>4 DEF O!ConsumeState, O!Goto
  <2>3. w \in OauthWorks /\ w.state = a BY <1>1 DEF OauthWorks
  <2>4. /\ hPc'[c] = "exchange" /\ h'[c] = w
        /\ \A o \in Handlers \ {c} : hPc'[o] = hPc[o] /\ h'[o] = h[o]
      BY <2>2 DEF OauthTyped
  <2> HIDE DEF w
  <2>5. OauthTyped'
    <3>1. "exchange" \in OauthSteps BY DEF OauthSteps
    <3>2. u \in Accounts \union {NoOne} BY <1>1 DEF OauthWorks
    <3>3. handed' \subseteq States \X Handlers \X (Accounts \union {NoOne})
        BY <1>1, <2>2, <3>2 DEF OauthTyped
    <3>4. life' \in [States -> {"unused", "fresh", "expired", "gone"}]
        BY <1>1, <2>2 DEF OauthTyped
    <3>5. \A b \in States : life'[b] # "unused" => life[b] # "unused"
        BY <1>1, <2>2 DEF OauthTyped
    <3> HIDE DEF a, u
    <3> QED BY <1>3, <2>2, <2>3, <3>1, <3>3, <3>4, <3>5 DEF OauthTyped
  <2>6. \A b \in States : Handed(b)' <=> Handed(b) \/ b = a
    <3> SUFFICES ASSUME NEW b \in States PROVE Handed(b)' <=> Handed(b) \/ b = a
        OBVIOUS
    <3>1. handed' = handed \union {<<a, c, u>>} BY <2>2
    <3>2. <<a, c, u>>[1] = a OBVIOUS
    <3> HIDE DEF a, u
    <3> QED BY <3>1, <3>2 DEF Handed
  <2>7. HandedAreGone' BY <1>1, <2>2, <2>6 DEF HandedAreGone, OauthTyped
  <2>8. OneConsumer'
      BY <1>1, <2>2, <2>4 DEF OneConsumer, Consuming, OauthTyped
  <2>9. /\ \A x : Justified(x) => Justified(x)'
        /\ \A b, y : Admitted(b, y) => Admitted(b, y)'
        /\ \A b, y : Saves(b, y) => Saves(b, y)'
      BY <1>3, <2>2, JustifiedStays
  <2>10. \A o \in Handlers : Admitted(hPc[o], h[o])' /\ Saves(hPc[o], h[o])'
    <3> SUFFICES ASSUME NEW o \in Handlers
        PROVE Admitted(hPc[o], h[o])' /\ Saves(hPc[o], h[o])' OBVIOUS
    <3>1. CASE o = c BY <1>1, <2>3, <2>4, <2>6, <3>1 DEF Admitted, Saves, Matched
    <3>2. CASE o # c
      <4>1. hPc'[o] = hPc[o] /\ h'[o] = h[o] BY <2>4, <3>2
      <4> QED BY <2>9, <4>1
    <3> QED BY <3>1, <3>2
  <2>11. O!StateHandedOnce'
    <3>1. \A y \in handed : y[1] # a BY <1>2 DEF Handed
    <3>2. begun[a].purpose = "bind" => u = begun[a].owner BY <2>1 DEF O!Authorized
    <3> QED BY <1>3, <2>2, <3>1, <3>2 DEF O!StateHandedOnce
  <2> QED BY <1>3, <2>5, <2>7, <2>8, <2>9, <2>10, <2>11 DEF Distinct
<1>5. CASE verdict # "ok"
  <2>1. /\ hPc' = [hPc EXCEPT ![c] = "done"] /\ h' = [h EXCEPT ![c] = O!NoWork]
        /\ handed' = handed
      BY <1>5 DEF O!ConsumeState, O!Stop, O!Goto
  <2>2. /\ hPc'[c] = "done" /\ h'[c] = O!NoWork
        /\ \A o \in Handlers \ {c} : hPc'[o] = hPc[o] /\ h'[o] = h[o]
      BY <2>1 DEF OauthTyped
  <2>3. OauthTyped'
    <3>1. "done" \in OauthSteps BY DEF OauthSteps
    <3>2. life' \in [States -> {"unused", "fresh", "expired", "gone"}]
        BY <1>1, <1>3 DEF OauthTyped
    <3>3. \A b \in States : life'[b] # "unused" => life[b] # "unused"
        BY <1>1, <1>3 DEF OauthTyped
    <3> QED BY <1>3, <2>1, <3>1, <3>2, <3>3, NoWorkIsOauthWork DEF OauthTyped
  <2>4. HandedAreGone' BY <1>1, <1>3, <2>1 DEF HandedAreGone, OauthTyped, Handed
  <2>5. OneConsumer' BY <1>1, <1>3, <2>2 DEF OneConsumer, Consuming, OauthTyped
  <2>6. /\ \A x : Justified(x) => Justified(x)'
        /\ \A b, y : Admitted(b, y) => Admitted(b, y)'
        /\ \A b, y : Saves(b, y) => Saves(b, y)'
      BY <1>3, <2>1, JustifiedStays
  <2>7. \A o \in Handlers : Admitted(hPc[o], h[o])' /\ Saves(hPc[o], h[o])'
      BY <2>2, <2>6 DEF Admitted, Saves, Matched
  <2>8. O!StateHandedOnce' BY <1>3, <2>1 DEF O!StateHandedOnce
  <2> QED BY <1>3, <2>3, <2>4, <2>5, <2>6, <2>7, <2>8 DEF Distinct
<1> QED BY <1>4, <1>5

LEMMA OauthStays ==
    ASSUME OauthInv, UNCHANGED <<life, begun, consent, creds, lastId, hPc, h, handed>>
    PROVE  OauthInv'
BY DEF OauthInv, OauthTyped, HandedAreGone, Handed, OneConsumer, Consuming, Admitted, Saves,
       Justified, Distinct, O!StateHandedOnce

\* A row is read: the account's, the subject's, or any for the task that refreshes tokens.
LEMMA ReadersKeep ==
    ASSUME OauthInv, NEW c \in Handlers,
           O!Bind(c) \/ O!Login(c) \/ O!RefreshOAuthToken(c) \/ O!DeleteLoginMethod(c)
    PROVE  OauthInv'
<1> USE DEF O!accountVars, O!stateVars, O!rowVars, O!At, O!Goto
<1>1. /\ UNCHANGED <<life, begun, consent, handed, creds, lastId>>
      /\ creds \subseteq Methods /\ lastId \in Nat \ {0} /\ Distinct(creds)
      /\ \A x \in creds : Justified(x)
      /\ h[c] \in OauthWorks /\ Admitted(hPc[c], h[c])
    BY DEF O!Bind, O!Login, O!RefreshOAuthToken, O!DeleteLoginMethod, OauthInv, OauthTyped
<1>2. CASE \E x \in creds : /\ h' = [h EXCEPT ![c].seen = x]
                            /\ hPc' = [hPc EXCEPT ![c] = "save"]
                               \/ hPc' = [hPc EXCEPT ![c] = "delete"]
  <2>1. PICK x \in creds, at \in {"save", "delete"} :
            h' = [h EXCEPT ![c].seen = x] /\ hPc' = [hPc EXCEPT ![c] = at]
      BY <1>2
  <2> DEFINE w == [h[c] EXCEPT !.seen = x]
  <2>2. w \in OauthWorks /\ w.seen = x BY <1>1 DEF OauthWorks
  <2>3. h' = [h EXCEPT ![c] = w] BY <2>1
  <2> HIDE DEF w
  <2>4. at \in OauthSteps /\ Admitted(at, w) /\ Saves(at, w)
      BY <1>1, <2>2 DEF OauthSteps, Admitted, Saves, Matched
  <2> QED BY <1>1, <2>1, <2>2, <2>3, <2>4, OauthMoves
<1>3. CASE O!Stop(c) BY <1>1, <1>3, OauthStops
<1>4. CASE hPc[c] = "bind" /\ hPc' = [hPc EXCEPT ![c] = "insert"] /\ h' = h
  <2>1. h' = [h EXCEPT ![c] = h[c]] BY <1>4 DEF OauthInv, OauthTyped
  <2>2. "insert" \in OauthSteps /\ Admitted("insert", h[c]) /\ Saves("insert", h[c])
      BY <1>1, <1>4 DEF OauthSteps, Admitted, Saves, Matched, PurposeOf
  <2> QED BY <1>1, <1>4, <2>1, <2>2, OauthMoves
<1>5. CASE hPc[c] = "login" /\ hPc' = [hPc EXCEPT ![c] = "register"] /\ h' = h
  <2>1. h' = [h EXCEPT ![c] = h[c]] BY <1>5 DEF OauthInv, OauthTyped
  <2>2. "register" \in OauthSteps /\ Admitted("register", h[c]) /\ Saves("register", h[c])
      BY <1>1, <1>5 DEF OauthSteps, Admitted, Saves, Matched, PurposeOf
  <2> QED BY <1>1, <1>5, <2>1, <2>2, OauthMoves
<1>6. CASE O!Bind(c) BY <1>2, <1>3, <1>4, <1>6 DEF O!Bind, O!RowsOf
<1>7. CASE O!Login(c) BY <1>2, <1>5, <1>7 DEF O!Login
<1>8. CASE O!RefreshOAuthToken(c) BY <1>2, <1>8 DEF O!RefreshOAuthToken
<1>9. CASE O!DeleteLoginMethod(c) BY <1>2, <1>9 DEF O!DeleteLoginMethod, O!RowsOf
<1> QED BY <1>6, <1>7, <1>8, <1>9

\* A row is made, for the subject of the authorization: of its owner or a new account.
LEMMA CreatorsKeep ==
    ASSUME OauthInv, NoOne \notin Accounts, NEW c \in Handlers, O!BindInsert(c) \/ O!Register(c)
    PROVE  OauthInv'
<1> USE DEF OauthInv, O!At
<1> DEFINE a == h[c].state
<1>1. /\ a \in States /\ Handed(a) /\ h[c].code = a
      /\ begun[a].purpose = PurposeOf(hPc[c])
    BY DEF Admitted, Matched, O!BindInsert, O!Register
<1>2. consent[a] \in Subjects BY <1>1 DEF HandedAreGone, OauthTyped
<1>3. PICK u \in Accounts :
        /\ O!Unique(O!Row(u, consent[a])) /\ O!Create(O!Row(u, consent[a]))
        /\ begun[a].purpose = "bind" => u = begun[a].owner
        /\ O!Stop(c) /\ UNCHANGED <<life, begun, consent, handed>>
  <2>1. CASE O!BindInsert(c)
    <3>1. begun[a].purpose = "bind" BY <1>1, <2>1 DEF O!BindInsert, PurposeOf
    <3>2. begun[a].owner \in Accounts BY <1>1, <3>1 DEF OauthTyped
    <3> QED BY <1>1, <2>1, <3>2 DEF O!BindInsert, O!stateVars
  <2>2. CASE O!Register(c)
    <3>1. begun[a].purpose = "login" BY <1>1, <2>2 DEF O!Register, PurposeOf
    <3> QED BY <1>1, <2>2, <3>1 DEF O!Register, O!stateVars
  <2> QED BY <2>1, <2>2
<1> DEFINE x == O!Row(u, consent[a])
<1>4. x \in Methods /\ x.subject = consent[a] /\ x.owner = u
    BY <1>2 DEF O!Row, Methods, OauthTyped
<1>5. creds' = creds \union {x} /\ lastId' = x.id /\ x.id \in Nat \ {0}
    BY <1>3 DEF O!Create, O!Save, O!Row, OauthTyped
<1>6. Justified(x) BY <1>1, <1>3, <1>4 DEF Justified
<1>7. \A y \in creds : y.subject # x.subject /\ y.owner # x.owner BY <1>3 DEF O!Unique
<1> HIDE DEF x
<1>8. Distinct(creds') BY <1>5, <1>7 DEF Distinct
<1>9. creds' \subseteq Methods BY <1>4, <1>5 DEF OauthTyped
<1> QED BY <1>3, <1>5, <1>6, <1>8, <1>9, OauthStops

LEMMA WritersKeep ==
    ASSUME OauthInv, NEW c \in Handlers, O!SaveRow(c) \/ O!DeleteCredential(c) \/ O!Fail(c)
    PROVE  OauthInv'
<1> USE DEF O!accountVars, O!stateVars, O!rowVars, O!At
<1> USE DEF OauthInv
<1>1. /\ O!Stop(c) /\ UNCHANGED <<life, begun, consent, handed, lastId>>
      /\ lastId \in Nat \ {0} /\ creds \subseteq Methods
    BY DEF O!SaveRow, O!DeleteCredential, O!Fail, OauthTyped
<1>2. CASE O!SaveRow(c)
  <2>1. h[c].seen \in Methods /\ Justified(h[c].seen) BY <1>2 DEF O!SaveRow, Saves
  <2>2. creds' = creds \union {h[c].seen} BY <1>2 DEF O!SaveRow, O!Save
  <2>3. Distinct(creds')
      BY <1>2, <2>2 DEF O!SaveRow, O!CanSave, O!Unique, Distinct
  <2> QED BY <1>1, <2>1, <2>2, <2>3, OauthStops
<1>3. CASE O!DeleteCredential(c) \/ O!Fail(c)
  <2>1. creds' \subseteq creds BY <1>3 DEF O!DeleteCredential, O!Fail
  <2>2. Distinct(creds') BY <2>1 DEF Distinct
  <2> QED BY <1>1, <2>1, <2>2, OauthStops
<1> QED BY <1>2, <1>3

LEMMA OauthStarts == Init => (part = "sign_in" => OauthInv)
<1> SUFFICES ASSUME Init, part = "sign_in" PROVE OauthInv OBVIOUS
<1>1. O!Init BY DEF Init
<1>2. PICK u \in Accounts :
        creds \in {{}} \union {{[id |-> 1, owner |-> u, subject |-> x]} : x \in Subjects}
    BY <1>1 DEF O!Init
<1>3. creds \subseteq Methods /\ Distinct(creds) /\ \A x \in creds : x.id = 1
    BY <1>2 DEF Methods, Distinct
<1>4. "idle" \in OauthSteps BY DEF OauthSteps
<1>5. O!NoState \in [purpose : {"login", "bind"}, owner : Accounts \union {NoOne}]
    BY DEF O!NoState
<1>6. OauthTyped
  <2>1. begun = [a \in States |-> O!NoState] /\ O!NoState.purpose = "login"
      BY <1>1 DEF O!Init, O!NoState
  <2>2. /\ life = [a \in States |-> "unused"] /\ consent = [a \in States |-> NoOne]
        /\ lastId = 1 /\ handed = {}
        /\ hPc = [c \in Handlers |-> "idle"] /\ h = [c \in Handlers |-> O!NoWork]
      BY <1>1 DEF O!Init
  <2> QED BY <1>3, <1>4, <1>5, <2>1, <2>2, NoWorkIsOauthWork DEF OauthTyped
<1>7. /\ handed = {} /\ \A c \in Handlers : hPc[c] = "idle"
    BY <1>1 DEF O!Init
<1>8. HandedAreGone /\ OneConsumer /\ O!StateHandedOnce
    BY <1>7 DEF HandedAreGone, Handed, OneConsumer, Consuming, O!StateHandedOnce
<1>9. \A c \in Handlers : Admitted(hPc[c], h[c]) /\ Saves(hPc[c], h[c])
    BY <1>7 DEF Admitted, Saves, Matched
<1> QED BY <1>3, <1>6, <1>8, <1>9 DEF OauthInv, Justified

LEMMA BindStatesKept ==
    ASSUME NoOne \notin Accounts, OauthInv, [O!Next]_signinVars
    PROVE  O!BindStateKept
<1> SUFFICES ASSUME NEW a \in States, life[a] = "fresh", begun[a].purpose = "bind",
                    life'[a] = "gone"
    PROVE  \E c \in Handlers : /\ O!At(c, "consume") /\ h[c].state = a
                               /\ h[c].caller = begun[a].owner
    BY DEF O!BindStateKept
<1> USE DEF OauthInv, OauthTyped, O!stateVars
<1>1. ASSUME NEW c \in Handlers, O!ConsumeState(c)
      PROVE  O!At(c, "consume") /\ h[c].state = a /\ h[c].caller = begun[a].owner
  <2> DEFINE b == h[c].state
             verdict == O!Verdict(b, h[c].caller, h[c].here)
  <2>1. /\ O!At(c, "consume") /\ verdict # "unauthorized" /\ life' = [life EXCEPT ![b] = "gone"]
      BY <1>1 DEF O!ConsumeState
  <2>2. b = a BY <2>1
  <2> QED BY <2>1, <2>2 DEF O!Verdict, O!Authorized
<1>2. ASSUME NEW b \in States, O!InitiateOAuth(b) \/ O!Expire(b) PROVE FALSE
    BY <1>2 DEF O!InitiateOAuth, O!Expire
<1>3. CASE O!CleanExpiredStates BY <1>3 DEF O!CleanExpiredStates
<1>4. CASE life' = life BY <1>4
<1>5. ASSUME NEW c \in Handlers,
             \/ O!Callback(c) \/ O!Exchange(c) \/ O!Bind(c) \/ O!BindInsert(c) \/ O!Login(c)
             \/ O!Register(c) \/ O!RefreshOAuthToken(c) \/ O!SaveRow(c)
             \/ O!DeleteLoginMethod(c) \/ O!DeleteCredential(c) \/ O!Fail(c)
      PROVE  life' = life
    BY <1>5 DEF O!Callback, O!Exchange, O!Bind, O!BindInsert, O!Login, O!Register,
                O!RefreshOAuthToken, O!SaveRow, O!DeleteLoginMethod, O!DeleteCredential, O!Fail
<1>6. ASSUME NEW u \in Accounts, O!SetPrimaryLoginMethod(u) \/ O!Suspend(u)
      PROVE  life' = life
    BY <1>6 DEF O!SetPrimaryLoginMethod, O!Suspend
<1>7. CASE UNCHANGED signinVars BY <1>4, <1>7 DEF signinVars
<1> QED BY <1>1, <1>2, <1>3, <1>4, <1>5, <1>6, <1>7 DEF O!Next

LEMMA OauthStep ==
    ASSUME NoOne \notin Accounts, OauthInv, [O!Next]_signinVars
    PROVE  OauthInv'
<1> USE DEF OauthInv
<1> USE DEF O!accountVars, O!stateVars, O!rowVars, O!At, O!Goto
<1>1. ASSUME NEW a \in States, O!InitiateOAuth(a) PROVE OauthInv'
  <2>1. PICK u \in Accounts \union {NoOne} :
            begun' = [begun EXCEPT ![a] = [purpose |-> IF u = NoOne THEN "login" ELSE "bind",
                                           owner |-> u]]
      BY <1>1 DEF O!InitiateOAuth
  <2>2. PICK x \in Subjects : consent' = [consent EXCEPT ![a] = x]
      BY <1>1 DEF O!InitiateOAuth
  <2>3. /\ life[a] = "unused" /\ life' = [life EXCEPT ![a] = "fresh"]
        /\ UNCHANGED <<creds, lastId, hPc, h, handed>>
      BY <1>1 DEF O!InitiateOAuth
  <2>4. OauthTyped' BY <2>1, <2>2, <2>3 DEF OauthTyped
  <2>5. \A b \in States \ {a} : life'[b] = life[b] /\ begun'[b] = begun[b] /\ consent'[b] = consent[b]
      BY <2>1, <2>2, <2>3 DEF OauthTyped
  <2>6. \A c \in Handlers : Consuming(c) => h[c].state \in States \ {a}
      BY <2>3 DEF OneConsumer
  <2> QED BY <2>3, <2>4, <2>5, <2>6, StatesMove DEF OneConsumer
<1>2. ASSUME NEW a \in States, O!Expire(a) PROVE OauthInv'
  <2>1. /\ life[a] = "fresh" /\ life' = [life EXCEPT ![a] = "expired"]
        /\ UNCHANGED <<begun, consent, creds, lastId, hPc, h, handed>>
      BY <1>2 DEF O!Expire
  <2>2. OauthTyped' BY <2>1 DEF OauthTyped
  <2>3. \A b \in States : life'[b] = IF b = a THEN "expired" ELSE life[b]
      BY <2>1 DEF OauthTyped
  <2> QED BY <2>1, <2>2, <2>3, StatesMove DEF OneConsumer
<1>3. CASE O!CleanExpiredStates
  <2>1. /\ life' = [b \in States |-> IF life[b] = "expired" THEN "gone" ELSE life[b]]
        /\ \A b \in States : life[b] = "expired" => ~O!RowLocked(b)
        /\ UNCHANGED <<begun, consent, creds, lastId, hPc, h, handed>>
      BY <1>3 DEF O!CleanExpiredStates
  <2>2. OauthTyped' BY <2>1 DEF OauthTyped
  <2>3. \A c \in Handlers : Consuming(c) => life[h[c].state] = "fresh"
      BY <2>1 DEF O!RowLocked, Consuming, OneConsumer
  <2> QED BY <2>1, <2>2, <2>3, StatesMove DEF OneConsumer
<1>4. ASSUME NEW u \in Accounts, O!SetPrimaryLoginMethod(u) \/ O!Suspend(u) PROVE OauthInv'
  <2>1. UNCHANGED <<life, begun, consent, creds, lastId, hPc, h, handed>>
      BY <1>4 DEF O!SetPrimaryLoginMethod, O!Suspend
  <2> QED BY <2>1, OauthStays
<1>5. ASSUME NEW c \in Handlers, O!Callback(c) PROVE OauthInv'
  <2>1. PICK a, k \in States, u \in Accounts \union {NoOne}, here \in BOOLEAN :
            /\ hPc[c] = "idle" /\ life[a] \in {"fresh", "expired"} /\ ~O!RowLocked(a)
            /\ consent[k] # NoOne
            /\ u # NoOne => begun[a].purpose = "bind"
            /\ h' = [h EXCEPT ![c] = [O!NoWork EXCEPT !.state = a, !.code = k, !.caller = u,
                                                      !.here = here]]
            /\ hPc' = [hPc EXCEPT ![c] = "consume"]
            /\ UNCHANGED <<O!accountVars, O!stateVars, O!rowVars, handed>>
      BY <1>5, Zenon DEF O!Callback
  <2> DEFINE w == [O!NoWork EXCEPT !.state = a, !.code = k, !.caller = u, !.here = here]
  <2>2. w \in OauthWorks /\ w.state = a BY DEF O!NoWork, OauthWorks
  <2>3. h' = [h EXCEPT ![c] = w] BY <2>1
  <2> HIDE DEF w
  <2>4. \A o \in Handlers : Consuming(o) => h[o].state # a
      BY <2>1 DEF O!RowLocked, Consuming
  <2>5. hPc' = [hPc EXCEPT ![c] = "consume"] /\ UNCHANGED <<life, begun, consent, handed, creds, lastId>>
      BY <1>5 DEF O!Callback
  <2>6. "consume" \in OauthSteps /\ Admitted("consume", w) /\ Saves("consume", w)
      BY DEF OauthSteps, Admitted, Saves, Matched
  <2>7. creds' \subseteq Methods /\ lastId' \in Nat \ {0} BY <2>5 DEF OauthTyped
  <2>8. Distinct(creds') /\ \A x \in creds' : Justified(x) BY <2>5
  <2>9. w.state \in States /\ life[w.state] \in {"fresh", "expired"} BY <2>1, <2>2
  <2>10. \A o \in Handlers : Consuming(o) => h[o].state # w.state BY <2>2, <2>4
  <2> QED BY <2>1, <2>2, <2>3, <2>5, <2>6, <2>7, <2>8, <2>9, <2>10, OauthMoves
<1>6. ASSUME NEW c \in Handlers, O!ConsumeState(c) PROVE OauthInv'
    BY <1>6, ConsumeKeeps
<1>7. ASSUME NEW c \in Handlers, O!Exchange(c) PROVE OauthInv'
  <2> DEFINE at == begun[h[c].state].purpose
  <2>1. /\ hPc' = [hPc EXCEPT ![c] = at] /\ hPc[c] = "exchange" /\ h[c].code = h[c].state
        /\ UNCHANGED <<life, begun, consent, handed, creds, lastId, h>>
      BY <1>7 DEF O!Exchange, O!CodeMatches
  <2>2. h[c].state \in States /\ Handed(h[c].state) /\ h[c] \in OauthWorks
      BY <2>1 DEF Admitted, OauthTyped
  <2>3. at \in {"login", "bind"} BY <2>2 DEF OauthTyped
  <2>4. h' = [h EXCEPT ![c] = h[c]] BY <2>1 DEF OauthTyped
  <2>5. at \in OauthSteps /\ Admitted(at, h[c]) /\ Saves(at, h[c])
      BY <2>1, <2>2, <2>3 DEF OauthSteps, Matched, Admitted, PurposeOf, Saves
  <2>6. creds \subseteq Methods /\ lastId \in Nat \ {0} BY DEF OauthTyped
  <2> HIDE DEF at
  <2> QED BY <2>1, <2>2, <2>3, <2>4, <2>5, <2>6, OauthMoves
<1>8. ASSUME NEW c \in Handlers, O!Bind(c) \/ O!Login(c) \/ O!RefreshOAuthToken(c) \/ O!DeleteLoginMethod(c)
      PROVE OauthInv'
    BY <1>8, ReadersKeep
<1>9. ASSUME NEW c \in Handlers, O!BindInsert(c) \/ O!Register(c) PROVE OauthInv'
    BY <1>9, CreatorsKeep
<1>10. ASSUME NEW c \in Handlers, O!SaveRow(c) \/ O!DeleteCredential(c) \/ O!Fail(c) PROVE OauthInv'
    BY <1>10, WritersKeep
<1>11. CASE UNCHANGED signinVars
  <2>1. UNCHANGED <<life, begun, consent, creds, lastId, hPc, h, handed>>
      BY <1>11 DEF signinVars
  <2> QED BY <2>1, OauthStays
<1> QED BY <1>1, <1>2, <1>3, <1>4, <1>5, <1>6, <1>7, <1>8, <1>9, <1>10, <1>11 DEF O!Next

\* However callbacks, expiries and clean-ups overlap, the row of a state lets at most
\* one callback through to an account: consumeOAuthState deletes it under its lock.
THEOREM StatesAreHandedOnce ==
    ASSUME NoOne \notin Accounts
    PROVE  Spec => []StateHandedOnce
<1> DEFINE Inv == part = "sign_in" => OauthInv
<1>1. Init => Inv BY OauthStarts
<1>2. Inv /\ [Next]_vars => Inv' BY PartStays, StepsAreOfThePart, OauthStep
<1>3. Inv => StateHandedOnce BY DEF OauthInv, StateHandedOnce
<1> QED BY <1>1, <1>2, <1>3, PTL DEF Spec

\* No two rows of user_credentials have a subject or an account in common, and each but
\* the one there from the start was made by an authorization of its subject that its
\* account began, or that nobody signed in did: neither a late save of a refreshed token
\* nor a second bind breaks that.
THEOREM SubjectsAreAlwaysAuthorized ==
    ASSUME NoOne \notin Accounts
    PROVE  Spec => []SubjectsAreAuthorized
<1> DEFINE Inv == part = "sign_in" => OauthInv
<1>1. Init => Inv BY OauthStarts
<1>2. Inv /\ [Next]_vars => Inv' BY PartStays, StepsAreOfThePart, OauthStep
<1>3. Inv => SubjectsAreAuthorized
    BY DEF OauthInv, SubjectsAreAuthorized, O!SubjectsAreAuthorized, Distinct, Justified, Handed
<1> QED BY <1>1, <1>2, <1>3, PTL DEF Spec

\* The state of a bind that another account presents is not used up by it: only a
\* callback of the account that began it takes it away before it has expired.
THEOREM BindStatesSurvive ==
    ASSUME NoOne \notin Accounts
    PROVE  Spec => BindStateSurvives
<1> DEFINE Inv == part = "sign_in" => OauthInv
           Kept == part = "sign_in" => O!BindStateKept
<1>1. Init => Inv BY OauthStarts
<1>2. Inv /\ [Next]_vars => Inv' BY PartStays, StepsAreOfThePart, OauthStep
<1>3. Inv /\ [Next]_vars => [Kept]_vars
    BY StepsAreOfThePart, BindStatesKept
<1> QED BY <1>1, <1>2, <1>3, PTL DEF Spec, BindStateSurvives

-----------------------------------------------------------------------------
\* MihomoCredentials: whatever is written goes with what the upstream said of it.
Credentials ==
    [generation : Nat, secret : Secrets, key : {"old", "new"},
     status : {"active", "attention"}, complete : BOOLEAN, revision : Nat]
MihomoSteps ==
    {"idle", "replace", "refresh", "delete", "ask", "save", "attend", "reencrypt"}
SaidOf(w, status1, those) == <<w.secret, status1>> \in those

\* The answer a validation is about to write was given of the secret it read.
Answered(at, w, those) ==
    /\ at # "idle" => w \in Credentials
    /\ at = "save" => SaidOf(w, "active", those)
    /\ at = "attend" => SaidOf(w, "attention", those)

MihomoInv ==
    /\ credential \in Credentials \union {C!Absent}
    /\ vPc \in [Handlers -> MihomoSteps] /\ v \in [Handlers -> Credentials \union {C!Absent}]
    /\ \A p \in Handlers : Answered(vPc[p], v[p], said)
    /\ C!StatusIsOfTheSecret

LEMMA BoundIsCredential ==
    ASSUME NEW n \in Nat, NEW x \in Secrets, NEW m \in Nat
    PROVE  /\ C!Bound(n, x, m) \in Credentials
           /\ C!Bound(n, x, m).secret = x /\ C!Bound(n, x, m).status = "active"
BY DEF C!Bound, Credentials

LEMMA ReencryptedIsCredential ==
    ASSUME NEW w \in Credentials
    PROVE  /\ C!Reencrypted(w) \in Credentials
           /\ C!Reencrypted(w).secret = w.secret /\ C!Reencrypted(w).status = w.status
BY DEF C!Reencrypted, Credentials

LEMMA CredentialFields ==
    ASSUME NEW w \in Credentials
    PROVE  /\ w.generation \in Nat /\ w.revision \in Nat /\ w.complete \in BOOLEAN
           /\ w.generation + 1 \in Nat /\ w.revision + 1 \in Nat
BY DEF Credentials

\* One handler goes on with a row it holds, the upstream may have said more, and the
\* row of the binding is as it was or goes with what was said.
LEMMA MihomoMoves ==
    ASSUME MihomoInv, NEW p \in Handlers, NEW at \in MihomoSteps,
           NEW w \in Credentials \union {C!Absent},
           vPc' = [vPc EXCEPT ![p] = at], v' = [v EXCEPT ![p] = w], said \subseteq said',
           Answered(at, w, said'),
           credential' = credential \/ (credential' \in Credentials \union {C!Absent}
                                          /\ SaidOf(credential', credential'.status, said'))
    PROVE  MihomoInv'
<1> USE DEF MihomoInv, SaidOf
<1>1. credential' \in Credentials \union {C!Absent} OBVIOUS
<1>2. vPc' \in [Handlers -> MihomoSteps] /\ v' \in [Handlers -> Credentials \union {C!Absent}]
    OBVIOUS
<1>3. ASSUME NEW o \in Handlers PROVE Answered(vPc'[o], v'[o], said')
  <2>1. CASE o = p BY <2>1
  <2>2. CASE o # p BY <2>2 DEF Answered
  <2> QED BY <2>1, <2>2
<1>4. C!StatusIsOfTheSecret' BY DEF C!StatusIsOfTheSecret, C!Exists
<1> HIDE DEF MihomoInv
<1> QED BY <1>1, <1>2, <1>3, <1>4 DEF MihomoInv

\* The handler stops.
LEMMA MihomoStops ==
    ASSUME MihomoInv, NEW p \in Handlers, C!Stop(p), said \subseteq said',
           credential' = credential \/ (credential' \in Credentials \union {C!Absent}
                                          /\ SaidOf(credential', credential'.status, said'))
    PROVE  MihomoInv'
<1>1. vPc' = [vPc EXCEPT ![p] = "idle"] /\ v' = [v EXCEPT ![p] = C!Absent]
    BY DEF C!Stop, C!Goto
<1>2. "idle" \in MihomoSteps BY DEF MihomoSteps
<1>3. Answered("idle", C!Absent, said') BY DEF Answered
<1> QED BY <1>1, <1>2, <1>3, MihomoMoves

LEMMA MihomoStays ==
    ASSUME MihomoInv, UNCHANGED <<vPc, v>>, said \subseteq said',
           credential' = credential \/ (credential' \in Credentials \union {C!Absent}
                                          /\ SaidOf(credential', credential'.status, said'))
    PROVE  MihomoInv'
<1>1. C!StatusIsOfTheSecret' BY DEF MihomoInv, SaidOf, C!StatusIsOfTheSecret, C!Exists
<1>2. \A p \in Handlers : Answered(vPc[p], v[p], said') BY DEF MihomoInv, Answered, SaidOf
<1> QED BY <1>1, <1>2 DEF MihomoInv

LEMMA MihomoStep ==
    ASSUME MihomoInv, [C!Next]_credentialsVars
    PROVE  MihomoInv'
<1>1. ASSUME NEW p \in Handlers, C!BindCredential(p) PROVE MihomoInv'
  <2>1. PICK x \in Secrets : C!Says(x, "active") /\ credential' = C!Bound(1, x, 1)
      BY <1>1 DEF C!BindCredential
  <2>2. UNCHANGED <<vPc, v>> BY <1>1 DEF C!BindCredential
  <2>3. credential' \in Credentials /\ SaidOf(credential', credential'.status, said')
      BY <2>1, BoundIsCredential DEF SaidOf, C!Says
  <2> QED BY <2>1, <2>2, <2>3, MihomoStays DEF C!Says
<1>2. ASSUME NEW p \in Handlers, C!AdvanceGeneration(p) PROVE MihomoInv'
  <2> DEFINE w == [credential EXCEPT !.generation = @ + 1]
  <2>1. PICK kind \in {"replace", "refresh", "delete"} : vPc' = [vPc EXCEPT ![p] = kind]
      BY <1>2 DEF C!AdvanceGeneration, C!Goto
  <2>2. credential \in Credentials BY <1>2 DEF C!AdvanceGeneration, C!Exists, MihomoInv
  <2>3. credential.generation + 1 \in Nat BY <2>2, CredentialFields
  <2>4. w \in Credentials BY <2>2, <2>3 DEF Credentials
  <2>5. v' = [v EXCEPT ![p] = w] /\ UNCHANGED <<credential, said>>
      BY <1>2 DEF C!AdvanceGeneration
  <2> HIDE DEF w
  <2>6. kind \in MihomoSteps /\ Answered(kind, w, said') BY <2>4 DEF MihomoSteps, Answered
  <2> QED BY <2>1, <2>4, <2>5, <2>6, MihomoMoves
<1>3. ASSUME NEW p \in Handlers, C!ReplaceCredential(p) PROVE MihomoInv'
  <2>1. PICK x \in Secrets :
            C!Says(x, "active") /\ C!Commit(p, C!Bound(v[p].generation, x, v[p].revision + 1))
      BY <1>3 DEF C!ReplaceCredential
  <2>2. v[p] \in Credentials
      BY <1>3 DEF C!ReplaceCredential, C!At, MihomoInv, Answered
  <2>3. v[p].generation \in Nat /\ v[p].revision + 1 \in Nat BY <2>2, CredentialFields
  <2>4. credential' \in Credentials /\ SaidOf(credential', credential'.status, said')
      BY <2>1, <2>3, BoundIsCredential DEF SaidOf, C!Says, C!Commit
  <2> QED BY <2>1, <2>4, MihomoStops DEF C!Says, C!Commit
<1>4. ASSUME NEW p \in Handlers, C!RefreshCredential(p) PROVE MihomoInv'
  <2>1. v[p] \in Credentials
      BY <1>4 DEF C!RefreshCredential, C!At, MihomoInv, Answered
  <2>2. CASE \E x \in Secrets :
            C!Says(x, "active") /\ C!Commit(p, C!Bound(v[p].generation, x, v[p].revision + 1))
    <3>1. PICK x \in Secrets :
            C!Says(x, "active") /\ C!Commit(p, C!Bound(v[p].generation, x, v[p].revision + 1))
        BY <2>2
    <3>2. v[p].generation \in Nat /\ v[p].revision + 1 \in Nat BY <2>1, CredentialFields
    <3>3. credential' \in Credentials /\ SaidOf(credential', credential'.status, said')
        BY <3>1, <3>2, BoundIsCredential DEF SaidOf, C!Says, C!Commit
    <3> QED BY <3>1, <3>3, MihomoStops DEF C!Says, C!Commit
  <2>3. CASE C!Says(v[p].secret, "attention")
             /\ C!Commit(p, [C!Reencrypted(v[p]) EXCEPT !.status = "attention", !.complete = FALSE])
    <3> DEFINE w == C!Reencrypted(v[p])
    <3>1. w \in Credentials /\ w.secret = v[p].secret BY <2>1, ReencryptedIsCredential
    <3>2. credential' = [w EXCEPT !.status = "attention", !.complete = FALSE]
        BY <2>3 DEF C!Commit
    <3> HIDE DEF w
    <3>3. /\ credential' \in Credentials
          /\ credential'.secret = v[p].secret /\ credential'.status = "attention"
        BY <3>1, <3>2 DEF Credentials
    <3>4. SaidOf(credential', credential'.status, said') BY <2>3, <3>3 DEF SaidOf, C!Says
    <3> QED BY <2>3, <3>3, <3>4, MihomoStops DEF C!Says, C!Commit
  <2> QED BY <1>4, <2>2, <2>3 DEF C!RefreshCredential
<1>5. ASSUME NEW p \in Handlers, C!DeleteCredential(p) PROVE MihomoInv'
  <2>1. C!Stop(p) /\ credential' = C!Absent /\ UNCHANGED said
      BY <1>5 DEF C!DeleteCredential, C!Commit
  <2>2. v[p] \in Credentials
      BY <1>5 DEF C!DeleteCredential, C!At, MihomoInv, Answered
  <2>3. vPc' = [vPc EXCEPT ![p] = "idle"] /\ v' = [v EXCEPT ![p] = C!Absent]
      BY <2>1 DEF C!Stop, C!Goto
  <2>4. C!StatusIsOfTheSecret' BY <2>1 DEF C!StatusIsOfTheSecret, C!Exists, C!Absent
  <2>5. vPc' \in [Handlers -> MihomoSteps] /\ v' \in [Handlers -> Credentials \union {C!Absent}]
      BY <2>3 DEF MihomoInv, MihomoSteps
  <2>6. \A o \in Handlers : Answered(vPc'[o], v'[o], said')
      BY <2>1, <2>3 DEF MihomoInv, Answered, SaidOf
  <2> QED BY <2>1, <2>4, <2>5, <2>6 DEF MihomoInv
<1>6. ASSUME NEW p \in Handlers, C!GiveUp(p) PROVE MihomoInv'
    BY <1>6, MihomoStops DEF C!GiveUp
<1>7. ASSUME NEW p \in Handlers, C!SetPrimaryProfile(p) PROVE MihomoInv'
  <2>1. credential \in Credentials BY <1>7 DEF C!SetPrimaryProfile, C!Exists, MihomoInv
  <2>2. credential.revision + 1 \in Nat BY <2>1, CredentialFields
  <2>3. credential' = [credential EXCEPT !.revision = credential.revision + 1]
        /\ UNCHANGED <<vPc, v, said>>
      BY <1>7 DEF C!SetPrimaryProfile
  <2>4. SaidOf(credential, credential.status, said)
      BY <1>7 DEF C!SetPrimaryProfile, MihomoInv, C!StatusIsOfTheSecret, SaidOf
  <2>5. /\ credential' \in Credentials
        /\ credential'.secret = credential.secret /\ credential'.status = credential.status
      BY <2>1, <2>2, <2>3 DEF Credentials
  <2>6. SaidOf(credential', credential'.status, said') BY <2>3, <2>4, <2>5 DEF SaidOf
  <2> QED BY <2>3, <2>5, <2>6, MihomoStays
<1>8. ASSUME NEW p \in Handlers, C!ValidateCredential(p) \/ C!ListRetired(p) PROVE MihomoInv'
  <2>1. PICK at \in {"ask", "reencrypt"} : vPc' = [vPc EXCEPT ![p] = at]
      BY <1>8 DEF C!ValidateCredential, C!ListRetired, C!Goto
  <2>2. v' = [v EXCEPT ![p] = credential] /\ UNCHANGED <<credential, said>>
        /\ credential \in Credentials
      BY <1>8 DEF C!ValidateCredential, C!ListRetired, C!Exists, MihomoInv
  <2>3. at \in MihomoSteps /\ Answered(at, credential, said') BY <2>2 DEF MihomoSteps, Answered
  <2> QED BY <2>1, <2>2, <2>3, MihomoMoves
<1>9. ASSUME NEW p \in Handlers, C!Revalidate(p) PROVE MihomoInv'
  <2>1. v[p] \in Credentials /\ v' = [v EXCEPT ![p] = v[p]] /\ UNCHANGED credential
      BY <1>9 DEF C!Revalidate, C!At, MihomoInv, Answered
  <2>2. PICK at \in {"save", "attend"} :
            /\ vPc' = [vPc EXCEPT ![p] = at] /\ said \subseteq said'
            /\ at = "save" => SaidOf(v[p], "active", said')
            /\ at = "attend" => SaidOf(v[p], "attention", said')
      BY <1>9 DEF C!Revalidate, C!Says, C!Goto, SaidOf
  <2>3. at \in MihomoSteps /\ Answered(at, v[p], said') BY <2>1, <2>2 DEF MihomoSteps, Answered, SaidOf
  <2> QED BY <2>1, <2>2, <2>3, MihomoMoves
<1>10. ASSUME NEW p \in Handlers, C!SaveValidated(p) PROVE MihomoInv'
  <2> DEFINE w == C!Reencrypted(v[p])
             x == [w EXCEPT !.status = "active"]
  <2>1. v[p] \in Credentials /\ SaidOf(v[p], "active", said)
      BY <1>10 DEF C!SaveValidated, C!At, MihomoInv, Answered
  <2>2. w \in Credentials /\ w.secret = v[p].secret BY <2>1, ReencryptedIsCredential
  <2>3. credential' = IF C!Exists THEN [x EXCEPT !.generation = credential.generation] ELSE x
      BY <1>10 DEF C!SaveValidated
  <2>4. C!Stop(p) /\ UNCHANGED said BY <1>10 DEF C!SaveValidated
  <2> HIDE DEF w
  <2>5. x \in Credentials /\ x.secret = v[p].secret /\ x.status = "active"
      BY <2>2 DEF Credentials
  <2> HIDE DEF x
  <2>6. C!Exists => credential.generation \in Nat
      BY CredentialFields DEF C!Exists, MihomoInv
  <2>7. /\ credential' \in Credentials
        /\ credential'.secret = v[p].secret /\ credential'.status = "active"
    <3>1. CASE C!Exists BY <2>3, <2>5, <2>6, <3>1 DEF Credentials
    <3>2. CASE ~C!Exists BY <2>3, <2>5, <3>2
    <3> QED BY <3>1, <3>2
  <2>8. SaidOf(credential', credential'.status, said') BY <2>1, <2>4, <2>7 DEF SaidOf
  <2> QED BY <2>4, <2>7, <2>8, MihomoStops
<1>11. ASSUME NEW p \in Handlers, C!SaveAttention(p) PROVE MihomoInv'
  <2>1. C!Stop(p) /\ UNCHANGED said BY <1>11 DEF C!SaveAttention
  <2>2. CASE C!Exists /\ credential.generation = v[p].generation /\ C!SameSecret(p)
    <3> DEFINE w == C!Reencrypted(credential)
    <3>1. v[p] \in Credentials /\ SaidOf(v[p], "attention", said)
        BY <1>11 DEF C!SaveAttention, C!At, MihomoInv, Answered
    <3>2. credential \in Credentials /\ credential.secret = v[p].secret
        BY <2>2 DEF C!Exists, MihomoInv, C!SameSecret
    <3>3. w \in Credentials /\ w.secret = v[p].secret BY <3>2, ReencryptedIsCredential
    <3>4. credential' = [w EXCEPT !.status = "attention", !.complete = v[p].complete]
        BY <1>11, <2>2 DEF C!SaveAttention
    <3> HIDE DEF w
    <3>5. v[p].complete \in BOOLEAN BY <3>1, CredentialFields
    <3>6. /\ credential' \in Credentials
          /\ credential'.secret = v[p].secret /\ credential'.status = "attention"
        BY <3>3, <3>4, <3>5 DEF Credentials
    <3>7. SaidOf(credential', credential'.status, said') BY <2>1, <3>1, <3>6 DEF SaidOf
    <3> QED BY <2>1, <3>6, <3>7, MihomoStops
  <2>3. CASE ~(C!Exists /\ credential.generation = v[p].generation /\ C!SameSecret(p))
      BY <1>11, <2>1, <2>3, MihomoStops DEF C!SaveAttention
  <2> QED BY <2>2, <2>3
<1>12. ASSUME NEW p \in Handlers, C!ReencryptCredentialBlob(p) PROVE MihomoInv'
  <2>1. C!Stop(p) /\ UNCHANGED said BY <1>12 DEF C!ReencryptCredentialBlob
  <2>2. CASE C!Exists /\ C!SameSecret(p) /\ credential.key = v[p].key
    <3>1. credential \in Credentials /\ v[p].secret = credential.secret
          /\ SaidOf(credential, credential.status, said)
        BY <2>2 DEF C!Exists, MihomoInv, C!SameSecret, C!StatusIsOfTheSecret, SaidOf
    <3>2. credential' = [credential EXCEPT !.secret = v[p].secret, !.key = "new"]
        BY <1>12, <2>2 DEF C!ReencryptCredentialBlob
    <3>3. credential' \in Credentials /\ credential'.secret = credential.secret
          /\ credential'.status = credential.status
        BY <3>1, <3>2 DEF Credentials
    <3>4. SaidOf(credential', credential'.status, said') BY <2>1, <3>1, <3>3 DEF SaidOf
    <3> QED BY <2>1, <3>3, <3>4, MihomoStops
  <2>3. CASE ~(C!Exists /\ C!SameSecret(p) /\ credential.key = v[p].key)
      BY <1>12, <2>1, <2>3, MihomoStops DEF C!ReencryptCredentialBlob
  <2> QED BY <2>2, <2>3
<1>13. CASE UNCHANGED credentialsVars BY <1>13, MihomoStays DEF credentialsVars
<1> QED BY <1>1, <1>2, <1>3, <1>4, <1>5, <1>6, <1>7, <1>8, <1>9, <1>10, <1>11, <1>12, <1>13
        DEF C!Next

\* Whatever validations, replacements, refreshes and re-encryptions overlap, and however
\* late one writes, the status of the row is what the upstream said of the secret in it.
THEOREM StatusIsAlwaysOfTheSecret == Spec => []StatusIsOfTheSecret
<1> DEFINE Inv == part = "credentials" => MihomoInv
<1>1. Init => Inv
  <2> SUFFICES ASSUME Init, part = "credentials" PROVE MihomoInv OBVIOUS
  <2>1. C!Init BY DEF Init
  <2>2. vPc = [p \in Handlers |-> "idle"] /\ v = [p \in Handlers |-> C!Absent]
      BY <2>1 DEF C!Init
  <2>3. vPc \in [Handlers -> MihomoSteps] /\ v \in [Handlers -> Credentials \union {C!Absent}]
        /\ \A p \in Handlers : Answered(vPc[p], v[p], said)
      BY <2>2 DEF MihomoSteps, Answered
  <2>4. CASE credential = C!Absent
      BY <2>3, <2>4 DEF MihomoInv, C!StatusIsOfTheSecret, C!Exists
  <2>5. CASE credential # C!Absent
    <3>1. PICK x \in Secrets, k \in {"old", "new"} :
              credential = [generation |-> 1, secret |-> x, key |-> k, status |-> "active",
                            complete |-> TRUE, revision |-> 1]
        BY <2>1, <2>5 DEF C!Init
    <3>2. credential \in Credentials /\ credential.status = "active"
        BY <3>1 DEF Credentials
    <3>3. said = {<<credential.secret, "active">>} BY <2>1, <2>5 DEF C!Init, C!Exists
    <3> QED BY <2>3, <3>2, <3>3 DEF MihomoInv, C!StatusIsOfTheSecret
  <2> QED BY <2>4, <2>5
<1>2. Inv /\ [Next]_vars => Inv' BY PartStays, StepsAreOfThePart, MihomoStep
<1>3. Inv => StatusIsOfTheSecret BY DEF MihomoInv, StatusIsOfTheSecret
<1> QED BY <1>1, <1>2, <1>3, PTL DEF Spec

-----------------------------------------------------------------------------
\* SecondFactor: whoever holds a row holds codes of lists made for that row, which
\* is so for good, and a list that is to be written was made for the row it goes to.
FactorRows == [id : Nat, codes : SUBSET (Nat \X Codes)]
FactorWorks ==
    [row : FactorRows, list : Nat, device : Devices \union {NoOne},
     used : SUBSET (Nat \X Codes)]
IssuedFor(w, those) == \A k \in w.codes : <<k[1], w.id>> \in those
Renews(at, w, those) == at = "replace codes" => <<w.list, w.row.id>> \in those

FactorInv ==
    /\ factor \in FactorRows /\ lastFactor \in Nat /\ setup \in Nat /\ made \in Nat
    /\ fPc = [p \in Handlers |-> fPc[p]] /\ f \in [Handlers -> FactorWorks]
    /\ \A p \in Handlers : IssuedFor(f[p].row, issued) /\ Renews(fPc[p], f[p], issued)
    /\ IssuedFor(factor, issued)

\* Of a list and a row in one: the codes of the list and the row it is for.
LEMMA RowOfList ==
    ASSUME NEW n \in Nat, NEW i \in Nat, NEW w, w = [id |-> i, codes |-> F!CodesOf(n)]
    PROVE  w \in FactorRows /\ \A those : <<n, i>> \in those => IssuedFor(w, those)
BY DEF F!CodesOf, FactorRows, IssuedFor

LEMMA NoRowIsIssued ==
    /\ F!NoRow \in FactorRows /\ \A those : IssuedFor(F!NoRow, those)
    /\ F!Idle \in FactorWorks /\ F!Idle.row = F!NoRow
BY DEF F!NoRow, F!Idle, FactorRows, FactorWorks, IssuedFor

\* One request goes on, with a row that is held, and the row is written or not.
LEMMA FactorMoves ==
    ASSUME FactorInv, NEW p \in Handlers, NEW at, NEW w \in FactorWorks,
           fPc' = [fPc EXCEPT ![p] = at], f' = [f EXCEPT ![p] = w], issued \subseteq issued',
           IssuedFor(w.row, issued'), Renews(at, w, issued'),
           factor' \in FactorRows, IssuedFor(factor', issued'),
           lastFactor' \in Nat, setup' \in Nat, made' \in Nat
    PROVE  FactorInv'
<1> USE DEF FactorInv
<1>1. fPc' = [o \in Handlers |-> fPc'[o]] /\ f' \in [Handlers -> FactorWorks] OBVIOUS
<1>2. ASSUME NEW o \in Handlers
      PROVE  IssuedFor(f'[o].row, issued') /\ Renews(fPc'[o], f'[o], issued')
  <2>1. CASE o = p BY <2>1
  <2>2. CASE o # p BY <2>2 DEF IssuedFor, Renews
  <2> QED BY <2>1, <2>2
<1> QED BY <1>1, <1>2

LEMMA FactorStops ==
    ASSUME FactorInv, NEW p \in Handlers, F!Stop(p), issued \subseteq issued',
           factor' \in FactorRows, IssuedFor(factor', issued'),
           lastFactor' \in Nat, setup' \in Nat, made' \in Nat
    PROVE  FactorInv'
<1>1. fPc' = [fPc EXCEPT ![p] = "idle"] /\ f' = [f EXCEPT ![p] = F!Idle]
    BY DEF F!Stop, F!Goto
<1>2. Renews("idle", F!Idle, issued') BY DEF Renews
<1>3. IssuedFor(F!Idle.row, issued') /\ F!Idle \in FactorWorks BY NoRowIsIssued
<1> QED BY <1>1, <1>2, <1>3, FactorMoves

\* What the row of the account holds stays issued for it.
LEMMA FactorKept ==
    ASSUME FactorInv, UNCHANGED <<factor, issued>>
    PROVE  factor' \in FactorRows /\ IssuedFor(factor', issued')
BY DEF FactorInv

LEMMA FactorStep ==
    ASSUME FactorInv, [F!Next]_factorVars
    PROVE  FactorInv'
<1>0. /\ factor \in FactorRows /\ IssuedFor(factor, issued)
      /\ lastFactor \in Nat /\ setup \in Nat /\ made \in Nat
      /\ \A p \in Handlers : /\ f[p] \in FactorWorks /\ f[p].row \in FactorRows /\ f[p].list \in Nat
                             /\ IssuedFor(f[p].row, issued)
    BY DEF FactorInv, FactorWorks
<1>1. CASE F!SetupExpires BY <1>1 DEF F!SetupExpires, FactorInv
<1>2. ASSUME NEW d \in Devices, F!TrustExpires(d) PROVE FactorInv'
    BY <1>2 DEF F!TrustExpires, FactorInv
<1>3. ASSUME NEW p \in Handlers, F!SetupTwoFactor(p) PROVE FactorInv'
  <2>1. PICK w : w = [f[p] EXCEPT !.list = made + 1] OBVIOUS
  <2>2. made + 1 \in Nat BY <1>0
  <2>3. w \in FactorWorks /\ w.row = f[p].row BY <1>0, <2>1, <2>2 DEF FactorWorks
  <2>4. /\ f' = [f EXCEPT ![p] = w] /\ fPc' = [fPc EXCEPT ![p] = "store"]
        /\ UNCHANGED <<factor, lastFactor, setup, issued>> /\ made' = made + 1
      BY <1>3, <2>1 DEF F!SetupTwoFactor, F!Goto
  <2>5. Renews("store", w, issued') BY DEF Renews
  <2> QED BY <1>0, <2>2, <2>3, <2>4, <2>5, FactorMoves
<1>4. ASSUME NEW p \in Handlers, F!StoreSetup(p) \/ F!DropSetup(p) PROVE FactorInv'
  <2>1. F!Stop(p) /\ UNCHANGED <<factor, lastFactor, made, issued>>
      BY <1>4 DEF F!StoreSetup, F!DropSetup
  <2>2. setup' = f[p].list \/ setup' = 0 BY <1>4 DEF F!StoreSetup, F!DropSetup
  <2> QED BY <1>0, <2>1, <2>2, FactorStops
<1>5. ASSUME NEW p \in Handlers, F!ConfirmTwoFactor(p) PROVE FactorInv'
  <2>1. PICK w : w = [f[p] EXCEPT !.list = setup] OBVIOUS
  <2>2. w \in FactorWorks /\ w.row = f[p].row BY <1>0, <2>1 DEF FactorWorks
  <2>3. /\ f' = [f EXCEPT ![p] = w] /\ fPc' = [fPc EXCEPT ![p] = "insert"]
        /\ UNCHANGED <<factor, lastFactor, setup, made, issued>>
      BY <1>5, <2>1 DEF F!ConfirmTwoFactor, F!Goto
  <2>4. Renews("insert", w, issued') BY DEF Renews
  <2> QED BY <1>0, <2>2, <2>3, <2>4, FactorMoves
<1>6. ASSUME NEW p \in Handlers, F!InsertFactor(p) PROVE FactorInv'
  <2>1. /\ factor' = [id |-> lastFactor + 1, codes |-> F!CodesOf(f[p].list)]
        /\ lastFactor' = lastFactor + 1
        /\ issued' = issued \union {<<f[p].list, lastFactor + 1>>}
        /\ fPc' = [fPc EXCEPT ![p] = "drop setup"] /\ UNCHANGED <<setup, made, f>>
      BY <1>6 DEF F!InsertFactor, F!Goto
  <2>2. lastFactor + 1 \in Nat BY <1>0
  <2>3. factor' \in FactorRows /\ IssuedFor(factor', issued')
      BY <1>0, <2>1, <2>2, RowOfList
  <2>4. Renews("drop setup", f[p], issued') BY DEF Renews
  <2>5. f' = [f EXCEPT ![p] = f[p]] BY <2>1 DEF FactorInv
  <2>6. IssuedFor(f[p].row, issued') BY <1>0, <2>1 DEF IssuedFor
  <2> QED BY <1>0, <2>1, <2>2, <2>3, <2>4, <2>5, <2>6, FactorMoves
<1>7. ASSUME NEW p \in Handlers, F!DisableTwoFactor(p) PROVE FactorInv'
  <2>1. PICK w : w = [f[p] EXCEPT !.row = factor] OBVIOUS
  <2>2. w \in FactorWorks /\ w.row = factor BY <1>0, <2>1 DEF FactorWorks
  <2>3. /\ f' = [f EXCEPT ![p] = w] /\ fPc' = [fPc EXCEPT ![p] = "delete"]
        /\ UNCHANGED <<factor, lastFactor, setup, made, issued>>
      BY <1>7, <2>1 DEF F!DisableTwoFactor, F!Goto
  <2>4. Renews("delete", w, issued') BY DEF Renews
  <2> QED BY <1>0, <2>2, <2>3, <2>4, FactorMoves
<1>8. ASSUME NEW p \in Handlers, F!DeleteFactor(p) PROVE FactorInv'
  <2>1. /\ F!Stop(p) /\ UNCHANGED <<lastFactor, setup, made, issued>>
        /\ factor' = F!NoRow \/ factor' = factor
      BY <1>8 DEF F!DeleteFactor
  <2>2. factor' \in FactorRows /\ IssuedFor(factor', issued')
      BY <1>0, <2>1, NoRowIsIssued
  <2> QED BY <1>0, <2>1, <2>2, FactorStops
<1>9. ASSUME NEW p \in Handlers, F!RegenerateBackupCodes(p) PROVE FactorInv'
  <2>1. PICK w : w = [f[p] EXCEPT !.row = factor, !.list = made + 1] OBVIOUS
  <2>2. made + 1 \in Nat BY <1>0
  <2>3. w \in FactorWorks /\ w.row = factor /\ w.list = made + 1
      BY <1>0, <2>1, <2>2 DEF FactorWorks
  <2>4. /\ f' = [f EXCEPT ![p] = w] /\ fPc' = [fPc EXCEPT ![p] = "replace codes"]
        /\ UNCHANGED <<factor, lastFactor, setup>> /\ made' = made + 1
        /\ issued' = issued \union {<<made + 1, factor.id>>}
      BY <1>9, <2>1 DEF F!RegenerateBackupCodes, F!Goto
  <2>5. Renews("replace codes", w, issued') BY <2>3, <2>4 DEF Renews
  <2>6. IssuedFor(factor, issued') BY <1>0, <2>4 DEF IssuedFor
  <2> QED BY <1>0, <2>2, <2>3, <2>4, <2>5, <2>6, FactorMoves
<1>10. ASSUME NEW p \in Handlers, F!ReplaceCodes(p) PROVE FactorInv'
  <2>1. F!Stop(p) /\ UNCHANGED <<lastFactor, setup, made, issued>>
      BY <1>10 DEF F!ReplaceCodes
  <2>2. CASE F!ById(p)
    <3>1. factor' = [factor EXCEPT !.codes = F!CodesOf(f[p].list)] /\ factor.id = f[p].row.id
        BY <1>10, <2>2 DEF F!ReplaceCodes, F!ById
    <3>2. <<f[p].list, factor.id>> \in issued
        BY <1>10, <3>1 DEF F!ReplaceCodes, F!At, FactorInv, Renews
    <3>3. factor' = [id |-> factor.id, codes |-> F!CodesOf(f[p].list)] /\ factor.id \in Nat
        BY <1>0, <3>1 DEF FactorRows
    <3>4. factor' \in FactorRows /\ IssuedFor(factor', issued')
        BY <1>0, <2>1, <3>2, <3>3, RowOfList
    <3> QED BY <1>0, <2>1, <3>4, FactorStops
  <2>3. CASE ~F!ById(p)
    <3>1. factor' = factor BY <1>10, <2>3 DEF F!ReplaceCodes
    <3> QED BY <1>0, <2>1, <3>1, FactorStops
  <2> QED BY <2>2, <2>3
<1>11. ASSUME NEW p \in Handlers, F!LoginWithEmail(p) PROVE FactorInv'
  <2>1. PICK d \in Devices : f' = [f EXCEPT ![p].row = factor, ![p].device = d]
      BY <1>11 DEF F!LoginWithEmail
  <2>2. PICK w : w = [f[p] EXCEPT !.row = factor, !.device = d] OBVIOUS
  <2>3. w \in FactorWorks /\ w.row = factor BY <1>0, <2>2 DEF FactorWorks
  <2>4. /\ f' = [f EXCEPT ![p] = w] /\ fPc' = [fPc EXCEPT ![p] = "device"]
        /\ UNCHANGED <<factor, lastFactor, setup, made, issued>>
      BY <1>11, <2>1, <2>2 DEF F!LoginWithEmail, F!Goto
  <2>5. Renews("device", w, issued') BY DEF Renews
  <2> QED BY <1>0, <2>3, <2>4, <2>5, FactorMoves
<1>12. ASSUME NEW p \in Handlers, F!VerifySecondFactor(p) PROVE FactorInv'
  <2>1. UNCHANGED <<factor, lastFactor, setup, made, issued>>
      BY <1>12 DEF F!VerifySecondFactor
  <2>2. CASE F!Stop(p) BY <1>0, <2>1, <2>2, FactorStops
  <2>3. CASE ~F!Stop(p)
    <3>1. PICK used \in {{}} \union {{k} : k \in f[p].row.codes} : f' = [f EXCEPT ![p].used = used]
        BY <1>12, <2>3 DEF F!VerifySecondFactor
    <3>2. PICK next \in {"trust", "record"} : fPc' = [fPc EXCEPT ![p] = next]
        BY <1>12, <2>3 DEF F!VerifySecondFactor, F!Goto
    <3>3. PICK w : w = [f[p] EXCEPT !.used = used] OBVIOUS
    <3>4. used \in SUBSET (Nat \X Codes) BY <1>0, <3>1 DEF FactorRows
    <3>5. w \in FactorWorks /\ w.row = f[p].row BY <1>0, <3>3, <3>4 DEF FactorWorks
    <3>6. f' = [f EXCEPT ![p] = w] BY <3>1, <3>3
    <3>7. Renews(next, w, issued') BY DEF Renews
    <3> QED BY <1>0, <2>1, <3>2, <3>5, <3>6, <3>7, FactorMoves
  <2> QED BY <2>2, <2>3
<1>13. ASSUME NEW p \in Handlers, F!TrustDevice(p) PROVE FactorInv'
  <2>1. /\ fPc' = [fPc EXCEPT ![p] = "record"] /\ f' = [f EXCEPT ![p] = f[p]]
        /\ UNCHANGED <<factor, lastFactor, setup, made, issued>>
      BY <1>13 DEF F!TrustDevice, F!Goto, FactorInv
  <2>2. Renews("record", f[p], issued') BY DEF Renews
  <2> QED BY <1>0, <2>1, <2>2, FactorMoves
<1>14. ASSUME NEW p \in Handlers, F!RecordUse(p) PROVE FactorInv'
  <2>1. F!Stop(p) /\ UNCHANGED <<lastFactor, setup, made, issued>>
      BY <1>14 DEF F!RecordUse
  <2>2. CASE F!ById(p) /\ f[p].used # {}
    <3>1. factor' = [factor EXCEPT !.codes = f[p].row.codes \ f[p].used]
          /\ factor.id = f[p].row.id
        BY <1>14, <2>2 DEF F!RecordUse, F!ById
    <3>2. /\ factor' \in FactorRows /\ factor'.id = f[p].row.id
          /\ factor'.codes \subseteq f[p].row.codes
        BY <1>0, <3>1 DEF FactorRows
    <3>3. IssuedFor(factor', issued') BY <1>0, <2>1, <3>2 DEF IssuedFor
    <3> QED BY <1>0, <2>1, <3>2, <3>3, FactorStops
  <2>3. CASE ~(F!ById(p) /\ f[p].used # {})
    <3>1. factor' = factor BY <1>14, <2>3 DEF F!RecordUse
    <3> QED BY <1>0, <2>1, <3>1, FactorStops
  <2> QED BY <2>2, <2>3
<1>15. ASSUME NEW p \in Handlers, F!Fail(p) PROVE FactorInv'
    BY <1>0, <1>15, FactorStops DEF F!Fail
<1>16. CASE UNCHANGED factorVars BY <1>16 DEF factorVars, FactorInv
<1> QED BY <1>1, <1>2, <1>3, <1>4, <1>5, <1>6, <1>7, <1>8, <1>9, <1>10, <1>11, <1>12, <1>13,
        <1>14, <1>15, <1>16 DEF F!Next

\* However setups, renewals, logins and disablements overlap, a backup code that opens
\* the account is one of a list made for the second factor it has now.
THEOREM CodesAreAlwaysOfTheFactor == Spec => []CodesAreOfTheFactor
<1> DEFINE Inv == part = "factor" => FactorInv
<1>1. Init => Inv
  <2> SUFFICES ASSUME F!Init PROVE FactorInv BY DEF Init
  <2>1. factor = F!NoRow /\ f = [p \in Handlers |-> F!Idle] BY DEF F!Init
  <2>2. fPc = [p \in Handlers |-> "idle"] /\ lastFactor = 0 /\ setup = 0 /\ made = 0
      BY DEF F!Init
  <2> QED BY <2>1, <2>2, NoRowIsIssued DEF FactorInv, Renews
<1>2. Inv /\ [Next]_vars => Inv' BY PartStays, StepsAreOfThePart, FactorStep
<1>3. Inv => CodesAreOfTheFactor
    BY DEF FactorInv, CodesAreOfTheFactor, F!CodesAreOfTheFactor, IssuedFor
<1> QED BY <1>1, <1>2, <1>3, PTL DEF Spec

-----------------------------------------------------------------------------
\* BindingProjection: summaries are read in the order of the platform's revisions, so
\* that one of an older generation than the row is no newer than the row; a projection
\* that has the row's lock is of the row's revision.
Summaries ==
    [generation : Nat, revision : Nat, complete : BOOLEAN, keys : SUBSET Profiles,
     primary : Profiles \union {NoOne}]
BindingRows ==
    [life : {"live", "deleted"}, generation : Nat, revision : Nat,
     primary : Profiles \union {NoOne}]
ProjectedRows ==
    [revision : Nat, keys : SUBSET Profiles, primary : Profiles \union {NoOne}]
Projecting == {"persist", "sync", "write"}
Saving == {"save", "delete"}
Genuine == P!Live /\ ~overwritten
Before(a, b) == a.generation < b.generation => a.revision <= b.revision

JobTyped(at, w) ==
    /\ at \in Projecting => w \in Summaries
    /\ at \in Saving => w \in BindingRows /\ w.life = "live"

ProjectionTyped ==
    /\ platform \in Summaries /\ row \in BindingRows /\ rows \in ProjectedRows
    /\ newest \in Nat /\ overwritten \in BOOLEAN
    /\ jobPc \in [Handlers -> {"idle"} \union Projecting \union Saving]
    /\ job = [j \in Handlers |-> job[j]]
    /\ \A j \in Handlers : JobTyped(jobPc[j], job[j])

\* What has been read so far: no newer than the platform, and read in order.
SummariesInOrder ==
    /\ \A j \in Handlers : jobPc[j] \in Projecting =>
          job[j].generation <= platform.generation /\ job[j].revision <= platform.revision
    /\ \A i, j \in Handlers :
          jobPc[i] \in Projecting /\ jobPc[j] \in Projecting => Before(job[i], job[j])

\* What a projection has done to a row that no unlocked save has put back.
Recorded(at, w) ==
    /\ at \in Projecting => Before(w, row)
    /\ at \in {"sync", "write"} => w.revision <= row.revision
    /\ at = "write" => w.revision = row.revision

RowInOrder ==
    Genuine =>
        /\ row.generation <= platform.generation /\ row.revision <= platform.revision
        /\ newest <= row.revision
        /\ \A j \in Handlers : Recorded(jobPc[j], job[j])

WritersHoldTheRow == \A j \in Handlers : jobPc[j] = "write" => rowLock = j /\ P!Live

ProjectionInv ==
    /\ ProjectionTyped /\ SummariesInOrder /\ RowInOrder /\ WritersHoldTheRow
    /\ P!ProjectionIsCurrent

LEMMA JobsTyped ==
    ASSUME ProjectionTyped
    PROVE  /\ row.generation \in Nat /\ row.revision \in Nat
           /\ row.primary \in Profiles \union {NoOne} /\ row.life \in {"live", "deleted"}
           /\ platform.generation \in Nat /\ platform.revision \in Nat
           /\ \A j \in Handlers : jobPc[j] \in Projecting =>
                 /\ job[j].generation \in Nat /\ job[j].revision \in Nat
                 /\ job[j].primary \in Profiles \union {NoOne}
                 /\ job[j].keys \in SUBSET Profiles
BY DEF ProjectionTyped, JobTyped, Summaries, BindingRows

\* A job goes on with what it has read before or reads now.
LEMMA JobMoves ==
    ASSUME ProjectionInv, NEW j \in Handlers,
           NEW at \in {"idle"} \union Projecting \union Saving, NEW w,
           jobPc' = [jobPc EXCEPT ![j] = at], job' = [job EXCEPT ![j] = w],
           JobTyped(at, w), UNCHANGED platform,
           at \in Projecting => w = platform \/ (jobPc[j] \in Projecting /\ w = job[j]),
           row' \in BindingRows, rows' \in ProjectedRows, newest' \in Nat,
           overwritten' \in BOOLEAN
    PROVE  /\ ProjectionTyped' /\ SummariesInOrder'
           /\ jobPc'[j] = at /\ job'[j] = w
           /\ \A i \in Handlers \ {j} : jobPc'[i] = jobPc[i] /\ job'[i] = job[i]
<1>1. /\ jobPc'[j] = at /\ job'[j] = w
      /\ \A i \in Handlers \ {j} : jobPc'[i] = jobPc[i] /\ job'[i] = job[i]
    BY DEF ProjectionInv, ProjectionTyped
<1>2. ProjectionTyped'
  <2>1. /\ jobPc' \in [Handlers -> {"idle"} \union Projecting \union Saving]
        /\ job' = [i \in Handlers |-> job'[i]]
      BY DEF ProjectionInv, ProjectionTyped
  <2>2. ASSUME NEW i \in Handlers PROVE JobTyped(jobPc'[i], job'[i])
    <3>1. CASE i = j BY <1>1, <3>1
    <3>2. CASE i # j BY <1>1, <3>2 DEF ProjectionInv, ProjectionTyped
    <3> QED BY <3>1, <3>2
  <2> QED BY <2>1, <2>2 DEF ProjectionInv, ProjectionTyped, JobTyped
<1>3. SummariesInOrder'
  <2>1. ASSUME NEW i \in Handlers, jobPc'[i] \in Projecting
        PROVE  job'[i].generation <= platform.generation /\ job'[i].revision <= platform.revision
    <3>1. CASE job'[i] = platform BY <3>1, JobsTyped DEF ProjectionInv
    <3>2. CASE jobPc[i] \in Projecting /\ job'[i] = job[i]
        BY <3>2 DEF ProjectionInv, SummariesInOrder
    <3> QED BY <1>1, <2>1, <3>1, <3>2
  <2>2. ASSUME NEW i \in Handlers, NEW k \in Handlers,
               jobPc'[i] \in Projecting, jobPc'[k] \in Projecting
        PROVE  Before(job'[i], job'[k])
    <3>1. job'[i] = platform \/ (jobPc[i] \in Projecting /\ job'[i] = job[i]) BY <1>1, <2>2
    <3>2. job'[k] = platform \/ (jobPc[k] \in Projecting /\ job'[k] = job[k]) BY <1>1, <2>2
    <3>3. CASE job'[i] = platform
      <4>1. job'[k].generation <= platform.generation BY <2>1, <2>2
      <4>2. job'[k].generation \in Nat /\ platform.generation \in Nat
          BY <3>2, JobsTyped DEF ProjectionInv
      <4> QED BY <3>3, <4>1, <4>2 DEF Before
    <3>4. CASE job'[k] = platform BY <2>1, <2>2, <3>4 DEF Before
    <3>5. CASE jobPc[i] \in Projecting /\ job'[i] = job[i] /\ jobPc[k] \in Projecting /\ job'[k] = job[k]
        BY <3>5 DEF ProjectionInv, SummariesInOrder
    <3> QED BY <3>1, <3>2, <3>3, <3>4, <3>5
  <2> QED BY <2>1, <2>2 DEF SummariesInOrder, Before
<1> QED BY <1>1, <1>2, <1>3

\* A job that stops, or is read a row to save.
LEMMA JobStops ==
    ASSUME ProjectionInv, NEW j \in Handlers, P!Stop(j), UNCHANGED platform,
           row' \in BindingRows, rows' \in ProjectedRows, newest' \in Nat,
           overwritten' \in BOOLEAN
    PROVE  /\ ProjectionTyped' /\ SummariesInOrder'
           /\ jobPc'[j] = "idle"
           /\ \A i \in Handlers \ {j} : jobPc'[i] = jobPc[i] /\ job'[i] = job[i]
<1>1. jobPc' = [jobPc EXCEPT ![j] = "idle"] /\ job' = [job EXCEPT ![j] = P!Idle]
    BY DEF P!Stop, P!Goto
<1>2. JobTyped("idle", P!Idle) /\ "idle" \notin Projecting
    BY DEF JobTyped, Projecting, Saving
<1> QED BY <1>1, <1>2, JobMoves

LEMMA NobodyWrites ==
    ASSUME NoOne \notin Handlers, ProjectionInv, P!Free
    PROVE  \A i \in Handlers : jobPc[i] # "write"
BY DEF ProjectionInv, WritersHoldTheRow, P!Free

\* One job has changed and nothing that the rows are about.
LEMMA RowsStay ==
    ASSUME ProjectionInv, NEW j \in Handlers, UNCHANGED <<platform, row, rows, newest, overwritten>>,
           ProjectionTyped', SummariesInOrder',
           \A i \in Handlers \ {j} : jobPc'[i] = jobPc[i] /\ job'[i] = job[i],
           Genuine => Recorded(jobPc'[j], job'[j]),
           jobPc'[j] = "write" => rowLock' = j /\ P!Live,
           \A i \in Handlers \ {j} : jobPc[i] = "write" => rowLock' = rowLock
    PROVE  ProjectionInv'
<1>1. RowInOrder'
    BY DEF ProjectionInv, RowInOrder, Genuine, P!Live, Recorded, Before
<1>2. WritersHoldTheRow' BY DEF ProjectionInv, WritersHoldTheRow, P!Live
<1>3. P!ProjectionIsCurrent' BY DEF ProjectionInv, P!ProjectionIsCurrent, P!Live, P!NoRows
<1> QED BY <1>1, <1>2, <1>3 DEF ProjectionInv

LEMMA AdvanceKeeps == ASSUME ProjectionInv, P!Advance PROVE ProjectionInv'
<1>1. PICK g \in {platform.generation, platform.generation + 1}, ks \in SUBSET Profiles,
           b \in BOOLEAN : \E x \in ks \union {NoOne} :
               platform' = P!Summary(g, platform.revision + 1, b, ks, x)
    BY DEF P!Advance
<1>2. PICK x \in ks \union {NoOne} : platform' = P!Summary(g, platform.revision + 1, b, ks, x)
    BY <1>1
<1>3. UNCHANGED <<row, rows, rowLock, jobPc, job, newest, overwritten>> BY DEF P!Advance
<1>4. platform.generation \in Nat /\ platform.revision \in Nat
    BY JobsTyped DEF ProjectionInv
<1>5. /\ platform' \in Summaries /\ platform'.generation = g
      /\ platform'.revision = platform.revision + 1
    BY <1>2, <1>4 DEF P!Summary, Summaries
<1>6. \A n \in Nat : /\ n <= platform.generation => n <= platform'.generation
                     /\ n <= platform.revision => n <= platform'.revision
    BY <1>4, <1>5
<1>7. ProjectionTyped' BY <1>3, <1>5 DEF ProjectionInv, ProjectionTyped, JobTyped
<1>8. SummariesInOrder'
  <2>1. \A j \in Handlers : jobPc[j] \in Projecting =>
            job[j].generation <= platform'.generation /\ job[j].revision <= platform'.revision
      BY <1>6, JobsTyped DEF ProjectionInv, SummariesInOrder
  <2> QED BY <1>3, <2>1 DEF ProjectionInv, SummariesInOrder, Before
<1>9. RowInOrder'
  <2>1. Genuine => row.generation <= platform'.generation /\ row.revision <= platform'.revision
      BY <1>6, JobsTyped DEF ProjectionInv, RowInOrder
  <2> QED BY <1>3, <2>1 DEF ProjectionInv, RowInOrder, Genuine, P!Live, Recorded, Before
<1>10. WritersHoldTheRow' /\ P!ProjectionIsCurrent'
    BY <1>3 DEF ProjectionInv, WritersHoldTheRow, P!ProjectionIsCurrent, P!Live, P!NoRows
<1> QED BY <1>7, <1>8, <1>9, <1>10 DEF ProjectionInv

LEMMA ReadingKeeps ==
    ASSUME ProjectionInv, NEW j \in Handlers, P!ReadSummary(j) \/ P!GetBinding(j)
    PROVE  ProjectionInv'
<1>1. UNCHANGED <<platform, row, rows, rowLock, newest, overwritten>>
    BY DEF P!ReadSummary, P!GetBinding
<1>2. row \in BindingRows /\ rows \in ProjectedRows /\ newest \in Nat /\ overwritten \in BOOLEAN
    BY DEF ProjectionInv, ProjectionTyped
<1>3. CASE P!ReadSummary(j)
  <2>1. jobPc' = [jobPc EXCEPT ![j] = "persist"] /\ job' = [job EXCEPT ![j] = platform]
      BY <1>3 DEF P!ReadSummary, P!Goto
  <2>2. JobTyped("persist", platform)
      BY DEF JobTyped, Saving, Projecting, ProjectionInv, ProjectionTyped
  <2>3. "persist" \in Projecting /\ "persist" \in {"idle"} \union Projecting \union Saving
      BY DEF Projecting
  <2>4. /\ ProjectionTyped' /\ SummariesInOrder' /\ jobPc'[j] = "persist" /\ job'[j] = platform
        /\ \A i \in Handlers \ {j} : jobPc'[i] = jobPc[i] /\ job'[i] = job[i]
      BY <1>1, <1>2, <2>1, <2>2, <2>3, JobMoves
  <2>5. Genuine => Recorded("persist", platform)
      BY JobsTyped DEF Recorded, ProjectionInv, RowInOrder, Before
  <2> QED BY <1>1, <2>4, <2>5, RowsStay
<1>4. CASE P!GetBinding(j)
  <2>1. PICK at \in Saving : jobPc' = [jobPc EXCEPT ![j] = at]
      BY <1>4 DEF P!GetBinding, P!Goto, Saving
  <2>2. job' = [job EXCEPT ![j] = row] /\ P!Live BY <1>4 DEF P!GetBinding
  <2>3. at \notin Projecting /\ at # "write" BY DEF Projecting, Saving
  <2>4. JobTyped(at, row) BY <1>2, <2>2, <2>3 DEF JobTyped, P!Live
  <2>5. /\ ProjectionTyped' /\ SummariesInOrder' /\ jobPc'[j] = at
        /\ \A i \in Handlers \ {j} : jobPc'[i] = jobPc[i] /\ job'[i] = job[i]
      BY <1>1, <1>2, <2>1, <2>2, <2>3, <2>4, JobMoves
  <2>6. Recorded(at, job'[j]) BY <2>3 DEF Recorded, Projecting, Saving
  <2> QED BY <1>1, <2>3, <2>5, <2>6, RowsStay
<1> QED BY <1>3, <1>4

LEMMA PersistKeeps ==
    ASSUME NoOne \notin Handlers, ProjectionInv, NEW j \in Handlers, P!PersistRuntimeSummary(j)
    PROVE  ProjectionInv'
<1>1. PICK w : w = job[j] OBVIOUS
<1>2. PICK n : n = IF w.revision >= row.revision THEN w.revision ELSE row.revision OBVIOUS
<1>3. jobPc[j] = "persist" /\ UNCHANGED <<platform, rows, rowLock, newest, overwritten>> /\ P!Free
    BY DEF P!PersistRuntimeSummary
<1>4. "persist" \in Projecting /\ "sync" \in Projecting /\ "idle" \notin Projecting
      /\ "sync" \notin Saving
    BY DEF Projecting, Saving
<1>5. w \in Summaries BY <1>1, <1>3, <1>4 DEF ProjectionInv, ProjectionTyped, JobTyped
<1>6. /\ row.generation \in Nat /\ row.revision \in Nat /\ w.generation \in Nat
      /\ w.revision \in Nat /\ n \in Nat /\ row.revision <= n /\ w.revision <= n
    BY <1>2, <1>5, JobsTyped DEF ProjectionInv, Summaries
<1>7. \/ P!Live /\ ~(w.generation < row.generation)
         /\ row' = [row EXCEPT !.generation = w.generation, !.revision = n]
      \/ ~(P!Live /\ ~(w.generation < row.generation)) /\ row' = row
    BY <1>1, <1>2 DEF P!PersistRuntimeSummary
<1>8. /\ row' \in BindingRows /\ row'.life = row.life /\ row'.primary = row.primary
      /\ row'.revision \in Nat /\ row'.generation \in Nat
      /\ row.revision <= row'.revision
      /\ P!Live /\ ~(w.generation < row.generation) =>
            row'.generation = w.generation /\ row'.revision = n
  <2>1. row \in BindingRows BY DEF ProjectionInv, ProjectionTyped
  <2>2. CASE ~(P!Live /\ ~(w.generation < row.generation)) /\ row' = row
    <3>1. row.revision <= row.revision BY <1>6
    <3>2. row.life = row.life /\ row.primary = row.primary OBVIOUS
    <3> QED BY <1>6, <2>1, <2>2, <3>1, <3>2
  <2>3. CASE row' = [row EXCEPT !.generation = w.generation, !.revision = n]
    <3>1. /\ row' \in BindingRows /\ row'.life = row.life /\ row'.primary = row.primary
          /\ row'.generation = w.generation /\ row'.revision = n
        BY <1>6, <2>1, <2>3 DEF BindingRows
    <3> QED BY <1>6, <3>1
  <2> QED BY <1>7, <2>2, <2>3
<1>9. rows \in ProjectedRows /\ newest \in Nat /\ overwritten \in BOOLEAN
    BY DEF ProjectionInv, ProjectionTyped
<1>10. \/ P!Live /\ w.complete /\ P!Goto(j, "sync") /\ UNCHANGED job
       \/ P!Stop(j)
    BY <1>1 DEF P!PersistRuntimeSummary
<1>11. /\ ProjectionTyped' /\ SummariesInOrder'
       /\ (jobPc'[j] = "sync" /\ job'[j] = w) \/ jobPc'[j] = "idle"
       /\ \A i \in Handlers \ {j} : jobPc'[i] = jobPc[i] /\ job'[i] = job[i]
  <2>1. CASE P!Goto(j, "sync") /\ UNCHANGED job
    <3>1. jobPc' = [jobPc EXCEPT ![j] = "sync"] /\ job' = [job EXCEPT ![j] = w]
        BY <1>1, <2>1 DEF P!Goto, ProjectionInv, ProjectionTyped
    <3>2. JobTyped("sync", w) BY <1>4, <1>5 DEF JobTyped
    <3>3. jobPc[j] \in Projecting /\ w = job[j] /\ newest' \in Nat /\ overwritten' \in BOOLEAN
          /\ rows' \in ProjectedRows /\ row' \in BindingRows /\ UNCHANGED platform
        BY <1>1, <1>3, <1>4, <1>8, <1>9
    <3>4. "sync" \in {"idle"} \union Projecting \union Saving BY <1>4
    <3> QED BY <3>1, <3>2, <3>3, <3>4, JobMoves
  <2>2. CASE P!Stop(j) BY <1>3, <1>8, <1>9, <2>2, JobStops
  <2> QED BY <1>10, <2>1, <2>2
<1>12. \A i \in Handlers : jobPc'[i] # "write" BY <1>3, <1>11, NobodyWrites
<1>13. RowInOrder'
  <2> SUFFICES ASSUME Genuine'
               PROVE  /\ row'.generation <= platform.generation
                      /\ row'.revision <= platform.revision
                      /\ newest <= row'.revision
                      /\ \A i \in Handlers : Recorded(jobPc[i], job[i])'
      BY <1>3 DEF RowInOrder
  <2>1. Genuine BY <1>3, <1>8 DEF Genuine, P!Live
  <2>2. /\ row.generation <= platform.generation /\ row.revision <= platform.revision
        /\ newest <= row.revision /\ \A i \in Handlers : Recorded(jobPc[i], job[i])
      BY <2>1 DEF ProjectionInv, RowInOrder
  <2>3. w.generation <= platform.generation /\ w.revision <= platform.revision
      BY <1>1, <1>3, <1>4 DEF ProjectionInv, SummariesInOrder
  <2>4. w.revision <= row'.revision
    <3>1. CASE w.generation < row.generation
      <4>1. w.revision <= row.revision
          BY <1>1, <1>3, <1>4, <2>2, <3>1 DEF Recorded, Before
      <4> QED BY <1>6, <1>8, <4>1
    <3>2. CASE ~(w.generation < row.generation) BY <1>6, <1>8, <2>1, <3>2 DEF Genuine
    <3> QED BY <3>1, <3>2
  <2>5. row'.generation <= platform.generation /\ row'.revision <= platform.revision
      BY <1>2, <1>6, <1>7, <1>8, <2>2, <2>3
  <2>6. newest <= row'.revision BY <1>6, <1>8, <1>9, <2>2
  <2>7. ASSUME NEW i \in Handlers \ {j}, jobPc[i] \in Projecting
        PROVE  /\ job[i].revision <= row.revision => job[i].revision <= row'.revision
               /\ job[i].generation < row'.generation => job[i].revision <= row'.revision
    <3>1. job[i].revision \in Nat /\ job[i].generation \in Nat
        BY <2>7, JobsTyped DEF ProjectionInv
    <3>2. Before(job[i], row) /\ Before(job[i], w)
        BY <1>1, <1>3, <1>4, <2>2, <2>7 DEF Recorded, ProjectionInv, SummariesInOrder
    <3>3. CASE row' = row BY <3>2, <3>3 DEF Before
    <3>4. CASE row'.generation = w.generation /\ row'.revision = n
        BY <1>6, <3>1, <3>2, <3>4 DEF Before
    <3> QED BY <1>7, <1>8, <3>3, <3>4
  <2>8. ASSUME NEW i \in Handlers \ {j} PROVE Recorded(jobPc[i], job[i])'
    <3>1. jobPc[i] \in {"sync", "write"} => jobPc[i] \in Projecting BY DEF Projecting
    <3> QED BY <1>11, <1>12, <2>2, <2>7, <2>8, <3>1 DEF Recorded, Before
  <2>9. Recorded(jobPc[j], job[j])'
    <3>1. CASE jobPc'[j] = "idle" BY <1>4, <3>1 DEF Recorded
    <3>2. CASE jobPc'[j] = "sync" /\ job'[j] = w BY <2>4, <3>2 DEF Recorded, Before
    <3> QED BY <1>11, <3>1, <3>2
  <2> QED BY <2>5, <2>6, <2>8, <2>9
<1>14. WritersHoldTheRow' BY <1>12 DEF WritersHoldTheRow
<1>15. P!ProjectionIsCurrent'
    BY <1>3, <1>8 DEF ProjectionInv, P!ProjectionIsCurrent, P!Live, P!NoRows
<1> QED BY <1>11, <1>13, <1>14, <1>15 DEF ProjectionInv

LEMMA SyncKeeps ==
    ASSUME NoOne \notin Handlers, ProjectionInv, NEW j \in Handlers,
           P!SyncProfiles(j) \/ P!GiveUp(j)
    PROVE  ProjectionInv'
<1>1. /\ UNCHANGED <<platform, row, rows, newest, overwritten>>
      /\ \A i \in Handlers \ {j} : jobPc[i] = "write" => rowLock' = rowLock
    BY NobodyWrites DEF P!SyncProfiles, P!GiveUp, ProjectionInv, WritersHoldTheRow
<1>2. row \in BindingRows /\ rows \in ProjectedRows /\ newest \in Nat /\ overwritten \in BOOLEAN
    BY DEF ProjectionInv, ProjectionTyped
<1>3. CASE P!Stop(j)
  <2>1. /\ ProjectionTyped' /\ SummariesInOrder' /\ jobPc'[j] = "idle"
        /\ \A i \in Handlers \ {j} : jobPc'[i] = jobPc[i] /\ job'[i] = job[i]
      BY <1>1, <1>2, <1>3, JobStops
  <2>2. Recorded("idle", job'[j]) BY DEF Recorded, Projecting
  <2> QED BY <1>1, <2>1, <2>2, RowsStay
<1>4. CASE ~P!Stop(j)
  <2>1. /\ P!SyncProfiles(j) /\ jobPc[j] = "sync" /\ P!Live /\ P!NotOlder(j)
        /\ rowLock' = j /\ P!Goto(j, "write") /\ UNCHANGED job
      BY <1>4 DEF P!SyncProfiles, P!GiveUp, P!Locked
  <2>2. jobPc' = [jobPc EXCEPT ![j] = "write"] /\ job' = [job EXCEPT ![j] = job[j]]
      BY <2>1 DEF P!Goto, ProjectionInv, ProjectionTyped
  <2>3. "sync" \in Projecting /\ "write" \in Projecting /\ "write" \notin Saving
      BY DEF Projecting, Saving
  <2>4. JobTyped("write", job[j])
      BY <2>1, <2>3 DEF ProjectionInv, ProjectionTyped, JobTyped
  <2>5. /\ ProjectionTyped' /\ SummariesInOrder' /\ jobPc'[j] = "write" /\ job'[j] = job[j]
        /\ \A i \in Handlers \ {j} : jobPc'[i] = jobPc[i] /\ job'[i] = job[i]
      BY <1>1, <1>2, <2>1, <2>2, <2>3, <2>4, JobMoves
  <2>6. Genuine => Recorded("write", job[j])
      BY <2>1, <2>3, JobsTyped DEF P!NotOlder, ProjectionInv, RowInOrder, Recorded
  <2> QED BY <1>1, <2>1, <2>5, <2>6, RowsStay
<1> QED BY <1>3, <1>4

LEMMA ReplaceKeeps ==
    ASSUME ProjectionInv, NEW j \in Handlers, P!ReplaceProfiles(j)
    PROVE  ProjectionInv'
<1>1. PICK w : w = job[j] OBVIOUS
<1>2. /\ jobPc[j] = "write" /\ P!Stop(j) /\ UNCHANGED <<platform, overwritten>>
      /\ rows' = [revision |-> w.revision, keys |-> w.keys, primary |-> w.primary]
      /\ newest' = IF w.revision > newest THEN w.revision ELSE newest
    BY <1>1 DEF P!ReplaceProfiles
<1>3. rowLock = j /\ P!Live BY <1>2 DEF ProjectionInv, WritersHoldTheRow
<1>4. row' = [row EXCEPT !.primary = w.primary] BY <1>1, <1>3 DEF P!ReplaceProfiles
<1>5. w \in Summaries BY <1>1, <1>2 DEF ProjectionInv, ProjectionTyped, JobTyped, Projecting
<1>6. /\ row' \in BindingRows /\ rows' \in ProjectedRows
      /\ row'.life = row.life /\ row'.generation = row.generation
      /\ row'.revision = row.revision /\ row'.primary = w.primary
      /\ rows'.revision = w.revision /\ rows'.primary = w.primary
      /\ w.revision \in Nat /\ newest \in Nat /\ overwritten \in BOOLEAN
    BY <1>2, <1>4, <1>5
       DEF Summaries, ProjectedRows, BindingRows, ProjectionInv, ProjectionTyped
<1>7. newest' \in Nat BY <1>2, <1>6
<1>8. /\ ProjectionTyped' /\ SummariesInOrder' /\ jobPc'[j] = "idle"
      /\ \A i \in Handlers \ {j} : jobPc'[i] = jobPc[i] /\ job'[i] = job[i]
    BY <1>2, <1>6, <1>7, JobStops
<1>9. Genuine' <=> Genuine BY <1>2, <1>6 DEF Genuine, P!Live
<1>10. Genuine => w.revision = row.revision /\ newest <= row.revision
    BY <1>1, <1>2 DEF ProjectionInv, RowInOrder, Recorded
<1>11. row.revision \in Nat BY JobsTyped DEF ProjectionInv
<1>12. Genuine => newest' = row.revision BY <1>2, <1>6, <1>10, <1>11
<1>13. RowInOrder'
  <2>1. ASSUME Genuine, NEW i \in Handlers PROVE Recorded(jobPc[i], job[i])'
    <3>1. CASE i = j BY <1>8, <3>1 DEF Recorded, Projecting
    <3>2. CASE i # j
        BY <1>6, <1>8, <2>1, <3>2 DEF ProjectionInv, RowInOrder, Recorded, Before
    <3> QED BY <3>1, <3>2
  <2>2. Genuine => newest' <= row'.revision BY <1>6, <1>11, <1>12
  <2> QED BY <1>2, <1>6, <1>9, <2>1, <2>2 DEF ProjectionInv, RowInOrder
<1>14. WritersHoldTheRow' BY <1>3, <1>8 DEF ProjectionInv, WritersHoldTheRow
<1>15. P!ProjectionIsCurrent'
    BY <1>3, <1>6, <1>9, <1>10, <1>12 DEF P!ProjectionIsCurrent, P!Live, Genuine
<1> QED BY <1>8, <1>13, <1>14, <1>15 DEF ProjectionInv

LEMMA SavingKeeps ==
    ASSUME NoOne \notin Handlers, ProjectionInv, NEW j \in Handlers,
           P!UpdateBindingStatus(j) \/ P!DeleteBinding(j)
    PROVE  ProjectionInv'
<1>1. P!Free /\ P!Stop(j) /\ UNCHANGED <<platform, rowLock, newest>>
    BY DEF P!UpdateBindingStatus, P!DeleteBinding
<1>2. job[j] \in BindingRows /\ job[j].life = "live"
    BY DEF P!UpdateBindingStatus, P!DeleteBinding, ProjectionInv, ProjectionTyped, JobTyped,
           Saving
<1>3. rows \in ProjectedRows /\ newest \in Nat /\ overwritten \in BOOLEAN
    BY DEF ProjectionInv, ProjectionTyped
<1>4. CASE P!UpdateBindingStatus(j)
  <2>1. row' = job[j] /\ overwritten' = (overwritten \/ row' # row) /\ UNCHANGED rows
      BY <1>4 DEF P!UpdateBindingStatus
  <2>2. overwritten' \in BOOLEAN BY <1>3, <2>1
  <2>3. /\ ProjectionTyped' /\ SummariesInOrder' /\ jobPc'[j] = "idle"
        /\ \A i \in Handlers \ {j} : jobPc'[i] = jobPc[i] /\ job'[i] = job[i]
      BY <1>1, <1>2, <1>3, <2>1, <2>2, JobStops
  <2>4. P!Live' BY <1>2, <2>1 DEF P!Live
  <2>5. ~overwritten' => row' = row /\ Genuine BY <2>1, <2>4 DEF Genuine, P!Live
  <2>6. RowInOrder'
    <3> SUFFICES ASSUME Genuine' PROVE RowInOrder' BY DEF RowInOrder
    <3>1. row' = row /\ Genuine BY <2>5 DEF Genuine
    <3>2. ASSUME NEW i \in Handlers PROVE Recorded(jobPc[i], job[i])'
      <4>1. CASE i = j BY <2>3, <4>1 DEF Recorded, Projecting
      <4>2. CASE i # j
          BY <2>3, <3>1, <4>2 DEF ProjectionInv, RowInOrder, Recorded, Before
      <4> QED BY <4>1, <4>2
    <3> QED BY <1>1, <3>1, <3>2 DEF ProjectionInv, RowInOrder
  <2>7. WritersHoldTheRow' BY <1>1, <2>3, NobodyWrites DEF WritersHoldTheRow
  <2>8. P!ProjectionIsCurrent'
      BY <1>1, <2>1, <2>4, <2>5 DEF ProjectionInv, P!ProjectionIsCurrent, Genuine
  <2> QED BY <2>3, <2>6, <2>7, <2>8 DEF ProjectionInv
<1>5. CASE P!DeleteBinding(j)
  <2>1. /\ row' = [job[j] EXCEPT !.life = "deleted", !.primary = NoOne]
        /\ rows' = P!NoRows /\ UNCHANGED overwritten
      BY <1>5 DEF P!DeleteBinding
  <2>2. row' \in BindingRows /\ row'.life = "deleted" BY <1>2, <2>1 DEF BindingRows
  <2>3. rows' \in ProjectedRows BY <2>1 DEF P!NoRows, ProjectedRows
  <2>4. /\ ProjectionTyped' /\ SummariesInOrder' /\ jobPc'[j] = "idle"
        /\ \A i \in Handlers \ {j} : jobPc'[i] = jobPc[i] /\ job'[i] = job[i]
      BY <1>1, <1>3, <2>1, <2>2, <2>3, JobStops
  <2>5. ~P!Live' BY <2>2 DEF P!Live
  <2>6. RowInOrder' BY <2>5 DEF RowInOrder, Genuine
  <2>7. WritersHoldTheRow' BY <1>1, <2>4, NobodyWrites DEF WritersHoldTheRow
  <2>8. P!ProjectionIsCurrent' BY <2>1, <2>5 DEF P!ProjectionIsCurrent, P!NoRows
  <2> QED BY <2>4, <2>6, <2>7, <2>8 DEF ProjectionInv
<1> QED BY <1>4, <1>5

LEMMA ProjectionStep ==
    ASSUME NoOne \notin Handlers, ProjectionInv, [P!Next]_projectionVars
    PROVE  ProjectionInv'
<1>1. CASE P!Advance BY <1>1, AdvanceKeeps
<1>2. ASSUME NEW j \in Handlers, P!ReadSummary(j) \/ P!GetBinding(j) PROVE ProjectionInv'
    BY <1>2, ReadingKeeps
<1>3. ASSUME NEW j \in Handlers, P!PersistRuntimeSummary(j) PROVE ProjectionInv'
    BY <1>3, PersistKeeps
<1>4. ASSUME NEW j \in Handlers, P!SyncProfiles(j) \/ P!GiveUp(j) PROVE ProjectionInv'
    BY <1>4, SyncKeeps
<1>5. ASSUME NEW j \in Handlers, P!ReplaceProfiles(j) PROVE ProjectionInv'
    BY <1>5, ReplaceKeeps
<1>6. ASSUME NEW j \in Handlers, P!UpdateBindingStatus(j) \/ P!DeleteBinding(j)
      PROVE ProjectionInv'
    BY <1>6, SavingKeeps
<1>7. CASE UNCHANGED projectionVars
  <2> USE <1>7 DEF projectionVars
  <2>1. ProjectionTyped' BY DEF ProjectionInv, ProjectionTyped, JobTyped
  <2>2. SummariesInOrder' BY DEF ProjectionInv, SummariesInOrder, Before
  <2>3. RowInOrder' BY DEF ProjectionInv, RowInOrder, Genuine, P!Live, Recorded, Before
  <2>4. WritersHoldTheRow' BY DEF ProjectionInv, WritersHoldTheRow, P!Live
  <2>5. P!ProjectionIsCurrent'
      BY DEF ProjectionInv, P!ProjectionIsCurrent, P!Live, P!NoRows
  <2> QED BY <2>1, <2>2, <2>3, <2>4, <2>5 DEF ProjectionInv
<1> QED BY <1>1, <1>2, <1>3, <1>4, <1>5, <1>6, <1>7 DEF P!Next

\* However a deletion and projections overlap, and in whatever order summaries arrive,
\* a deleted binding shows no profiles, and a live one that no unlocked save has put
\* back shows those of the newest snapshot projected, with the row's primary one.
THEOREM ProjectionIsAlwaysCurrent ==
    ASSUME NoOne \notin Handlers
    PROVE  Spec => []ProjectionIsCurrent
<1> DEFINE Inv == part = "projection" => ProjectionInv
<1>1. Init => Inv
  <2> SUFFICES ASSUME P!Init PROVE ProjectionInv BY DEF Init
  <2>1. /\ platform = P!Summary(1, 1, TRUE, {}, NoOne)
        /\ row = [life |-> "live", generation |-> 0, revision |-> 0, primary |-> NoOne]
        /\ rows = P!NoRows /\ newest = 0 /\ overwritten = FALSE
        /\ jobPc = [j \in Handlers |-> "idle"] /\ job = [j \in Handlers |-> P!Idle]
      BY DEF P!Init
  <2>2. /\ platform \in Summaries /\ platform.generation = 1 /\ platform.revision = 1
        /\ row \in BindingRows /\ row.generation = 0 /\ row.revision = 0 /\ row.life = "live"
        /\ row.primary = NoOne
        /\ rows \in ProjectedRows /\ rows.revision = 0 /\ rows.primary = NoOne
      BY <2>1 DEF P!Summary, Summaries, BindingRows, P!NoRows, ProjectedRows
  <2>3. \A j \in Handlers : jobPc[j] = "idle" /\ job[j] = P!Idle BY <2>1
  <2>4. "idle" \notin Projecting /\ "idle" \notin Saving BY DEF Projecting, Saving
  <2>5. ProjectionTyped BY <2>1, <2>2, <2>4 DEF ProjectionTyped, JobTyped
  <2>6. SummariesInOrder BY <2>3, <2>4 DEF SummariesInOrder
  <2>7. RowInOrder
    <3>1. \A j \in Handlers : Recorded(jobPc[j], job[j]) BY <2>3, <2>4 DEF Recorded
    <3>2. /\ row.generation <= platform.generation /\ row.revision <= platform.revision
          /\ newest <= row.revision
      <4>1. 0 <= 1 /\ 0 <= 0 OBVIOUS
      <4> QED BY <2>1, <2>2, <4>1
    <3> QED BY <3>1, <3>2 DEF RowInOrder
  <2>8. WritersHoldTheRow BY <2>3 DEF WritersHoldTheRow
  <2>9. P!ProjectionIsCurrent BY <2>1, <2>2 DEF P!ProjectionIsCurrent, P!Live
  <2> QED BY <2>5, <2>6, <2>7, <2>8, <2>9 DEF ProjectionInv
<1>2. Inv /\ [Next]_vars => Inv' BY PartStays, StepsAreOfThePart, ProjectionStep
<1>3. Inv => ProjectionIsCurrent BY DEF ProjectionInv, ProjectionIsCurrent
<1> QED BY <1>1, <1>2, <1>3, PTL DEF Spec

-----------------------------------------------------------------------------
\* RolePolicies: how far a request has got that no other overlapped, and what there
\* was when it began.
Kinds == {"none", "create", "update", "assign", "delete", "replace"}
Loading == {"update", "assign", "delete"}
Syncing == {"sync", "merge", "write", "load", "restore", "reload", "undo"}
RequestSteps == {"idle", "ok", "failed"} \union Loading \union Syncing
RequestWorks ==
    [kind : Kinds, new : SUBSET R!Rules, perms : SUBSET Permissions, rules : SUBSET R!Rules]
Founds == [live : BOOLEAN, perms : SUBSET Permissions, rules : SUBSET R!Rules]

RolesTyped ==
    /\ role \in {"none", "live", "gone"}
    /\ perms \subseteq Permissions /\ rules \subseteq R!Rules
    /\ rPc \in [Handlers -> RequestSteps] /\ r \in [Handlers -> RequestWorks]
    /\ was = [j \in Handlers |-> was[j]]
    /\ \A j \in Handlers : rPc[j] = "assign" => r[j].new \subseteq Permissions

\* Before the role there is nothing of it, and nobody asks but to make it.
NothingBefore ==
    role = "none" => rules = {} /\ loaded = {} /\ perms = {} /\ \A j \in Handlers : rPc[j] = "idle"

\* The role and its permissions, once the request has changed them ...
Changed(kind, x) ==
    CASE kind = "create" -> role = "live" /\ ~x.live /\ x.perms = {} /\ x.rules = {}
      [] kind = "delete" -> role = "gone" /\ perms = {} /\ x.live
      [] kind = "assign" -> role = "live" /\ x.live
      [] OTHER -> kind = "replace" /\ role = "live" /\ x.live /\ perms = x.perms

\* ... and the rules, once it has written them.
Outcome(w, x) ==
    CASE w.kind = "delete" -> {}
      [] w.kind = "replace" -> w.new
      [] OTHER -> perms \union (x.rules \ Permissions)

AsFound(x) == (x.live <=> R!Live) /\ x.perms = perms /\ x.rules = rules

Effected(w) ==
    /\ w.kind # "update" => loaded = rules
    /\ w.kind = "delete" => ~R!Live /\ rules = {}

Progress(at, w, x) ==
    /\ x \in Founds
    /\ at # "idle" => w.perms = x.perms
    /\ at \in Loading => w.kind = at /\ AsFound(x) /\ R!Live
    /\ at \in Syncing => Changed(w.kind, x)
    /\ at \in {"sync", "merge", "write", "reload", "undo"} => rules = x.rules
    /\ at \in {"merge", "write", "load", "restore"} => w.rules = x.rules
    /\ at = "undo" => w.kind # "replace"
    /\ at = "write" => w.new = Outcome(w, x)
    /\ at = "load" => rules = Outcome(w, x)
    /\ at = "failed" => AsFound(x)
    /\ at = "ok" => Effected(w)
    /\ at = "ok" /\ w.kind \in {"create", "assign"} => rules = Outcome(w, x)

Alone(j) ==
    /\ \A o \in Handlers \ {j} : rPc[o] = "idle"
    /\ Progress(rPc[j], r[j], was[j])

RolesInv ==
    /\ RolesTyped /\ NothingBefore
    /\ \A j \in Handlers : was[j] # R!Nothing => Alone(j)

LEMMA FoundIs ==
    ASSUME NEW x \in Founds
    PROVE  x = [live |-> x.live, perms |-> x.perms, rules |-> x.rules]
BY DEF Founds

LEMMA NothingIsNotFound == R!Nothing \notin Founds
<1> SUFFICES ASSUME R!Nothing \in Founds PROVE FALSE OBVIOUS
<1>1. DOMAIN R!Nothing = {"live"} BY DEF R!Nothing
<1>2. DOMAIN R!Nothing = {"live", "perms", "rules"} BY DEF Founds
<1> QED BY <1>1, <1>2

\* A request that is under way takes a step: if no other overlapped it, the others
\* rest, and it is enough to look at what it has done itself.
LEMMA RequestMoves ==
    ASSUME RolesInv, NEW j \in Handlers, rPc[j] # "idle",
           NEW at \in RequestSteps \ {"assign"}, NEW w \in RequestWorks, NEW x, x = was[j],
           rPc' = [rPc EXCEPT ![j] = at], r' = [r EXCEPT ![j] = w],
           was' = was \/ was' = [was EXCEPT ![j] = R!Nothing],
           role' = role \/ role' \in {"live", "gone"},
           perms' \subseteq Permissions, rules' \subseteq R!Rules,
           was' = was /\ Progress(rPc[j], r[j], x) => Progress(at, w, x)'
    PROVE  RolesInv'
<1>1. RolesTyped' BY DEF RolesInv, RolesTyped
<1>2. role' # "none" BY DEF RolesInv, NothingBefore
<1>3. ASSUME NEW o \in Handlers, was'[o] # R!Nothing PROVE Alone(o)'
  <2>1. was[o] # R!Nothing /\ was' = was
    <3>1. CASE was' = was BY <1>3, <3>1
    <3>2. CASE was' = [was EXCEPT ![j] = R!Nothing]
      <4>1. o # j BY <1>3, <3>2 DEF RolesInv, RolesTyped
      <4>2. was[o] # R!Nothing BY <1>3, <3>2, <4>1 DEF RolesInv, RolesTyped
      <4>3. rPc[j] = "idle" BY <4>1, <4>2 DEF RolesInv, Alone
      <4> QED BY <4>3
    <3> QED BY <3>1, <3>2
  <2>2. Alone(o) BY <2>1 DEF RolesInv
  <2>3. o = j BY <2>2 DEF Alone
  <2>4. Progress(at, w, x)' BY <2>1, <2>2, <2>3 DEF Alone
  <2>5. rPc'[o] = at /\ r'[o] = w /\ was'[o] = x
      BY <2>1, <2>3 DEF RolesInv, RolesTyped
  <2>6. \A k \in Handlers \ {o} : rPc'[k] = "idle" BY <2>2, <2>3 DEF Alone, RolesInv, RolesTyped
  <2> QED BY <2>4, <2>5, <2>6 DEF Alone, Progress, AsFound, Changed, Outcome, Effected, R!Live
<1> QED BY <1>1, <1>2, <1>3 DEF RolesInv, NothingBefore

\* A request begins, alone or not.
WellBegun(at, kind, new) ==
    \A w \in RequestWorks, x \in Founds :
        /\ w.kind = kind /\ w.new = new /\ w.perms = perms
        /\ x.live <=> R!Live
        /\ x.perms = perms /\ x.rules = rules
        => Progress(at, w, x)'

LEMMA RequestBegins ==
    ASSUME RolesInv, NEW j \in Handlers, NEW kind \in Kinds \ {"none"}, NEW new \in SUBSET R!Rules,
           R!Begin(j, kind, new), NEW at \in RequestSteps, rPc' = [rPc EXCEPT ![j] = at],
           role' \in {"live", "gone"}, perms' \subseteq Permissions,
           at = "assign" => new \subseteq Permissions,
           WellBegun(at, kind, new)
    PROVE  RolesInv'
<1>1. PICK w : w = [kind |-> kind, new |-> new, perms |-> perms, rules |-> {}] OBVIOUS
<1>2. /\ w \in RequestWorks /\ w.kind = kind /\ w.new = new /\ w.perms = perms
    BY <1>1 DEF RequestWorks, RolesInv, RolesTyped
<1>3. r' = [r EXCEPT ![j] = w] /\ UNCHANGED <<rules, loaded>> BY <1>1 DEF R!Begin
<1>4. PICK x : x = [live |-> R!Live, perms |-> perms, rules |-> rules] OBVIOUS
<1>5. x \in Founds /\ (x.live <=> R!Live) /\ x.perms = perms /\ x.rules = rules
  <2>1. R!Live \in BOOLEAN BY DEF R!Live
  <2> QED BY <1>4, <2>1 DEF Founds, RolesInv, RolesTyped
<1>6. /\ was' = [k \in Handlers |-> was'[k]]
      /\ \A k \in Handlers : was'[k] # R!Nothing =>
            k = j /\ was'[k] = x /\ \A o \in Handlers \ {j} : rPc[o] = "idle"
    BY <1>4 DEF R!Begin
<1>7. Progress(at, w, x)' BY <1>2, <1>5 DEF WellBegun
<1>8. RolesTyped' BY <1>2, <1>3, <1>6 DEF RolesInv, RolesTyped
<1>9. ASSUME NEW o \in Handlers, was'[o] # R!Nothing PROVE Alone(o)'
  <2>1. o = j /\ was'[o] = x /\ \A k \in Handlers \ {j} : rPc[k] = "idle" BY <1>6, <1>9
  <2>2. rPc'[o] = at /\ r'[o] = w BY <1>3, <2>1 DEF RolesInv, RolesTyped
  <2>3. \A k \in Handlers \ {o} : rPc'[k] = "idle" BY <2>1 DEF RolesInv, RolesTyped
  <2> QED BY <1>7, <2>1, <2>2, <2>3
          DEF Alone, Progress, AsFound, Changed, Outcome, Effected, R!Live
<1> QED BY <1>8, <1>9 DEF RolesInv, NothingBefore

LEMMA BeginningsKeep ==
    ASSUME RolesInv, NEW j \in Handlers, R!CreateAuthority(j) \/ R!LoadRole(j)
    PROVE  RolesInv'
<1> USE DEF Kinds, RequestSteps, Loading, Syncing
<1>1. CASE R!CreateAuthority(j)
  <2>1. PICK new \in SUBSET Permissions :
            /\ role = "none" /\ R!Begin(j, "create", new) /\ role' = "live" /\ perms' = new
            /\ R!Goto(j, IF new = {} THEN "ok" ELSE "sync")
      BY <1>1 DEF R!CreateAuthority
  <2>2. PICK at \in {"ok", "sync"} :
            rPc' = [rPc EXCEPT ![j] = at] /\ (at = "ok" <=> new = {})
    <3>1. CASE new = {} BY <2>1, <3>1 DEF R!Goto
    <3>2. CASE new # {} BY <2>1, <3>2 DEF R!Goto
    <3> QED BY <3>1, <3>2
  <2>3. rules = {} /\ perms = {} /\ ~R!Live BY <2>1 DEF RolesInv, NothingBefore, R!Live
  <2>4. loaded = {} BY <2>1 DEF RolesInv, NothingBefore
  <2>5. new \in SUBSET R!Rules BY DEF R!Rules
  <2>6. rules' = rules /\ loaded' = loaded BY <2>1 DEF R!Begin
  <2>7. ASSUME NEW w \in RequestWorks, NEW x \in Founds,
               w.kind = "create", w.new = new, w.perms = perms,
               x.live <=> R!Live, x.perms = perms, x.rules = rules
        PROVE  Progress(at, w, x)'
      BY <2>1, <2>2, <2>3, <2>4, <2>6, <2>7 DEF Progress, Changed, Outcome, Effected
  <2>8. WellBegun(at, "create", new) BY <2>7 DEF WellBegun
  <2>9. /\ "create" \in Kinds \ {"none"} /\ at \in RequestSteps /\ at # "assign"
        /\ role' \in {"live", "gone"} /\ perms' \subseteq Permissions
      BY <2>1, <2>2
  <2> HIDE DEF Kinds, RequestSteps
  <2> QED BY <2>1, <2>2, <2>5, <2>8, <2>9, RequestBegins
<1>2. CASE R!LoadRole(j)
  <2>1. PICK kind \in {"update", "assign", "delete", "replace"}, new \in SUBSET R!Rules :
            /\ kind = "assign" => new \subseteq Permissions
            /\ R!Live /\ R!Begin(j, kind, new) /\ UNCHANGED <<role, perms>>
            /\ R!Goto(j, IF kind = "replace" THEN "sync" ELSE kind)
      BY <1>2 DEF R!LoadRole
  <2>2. PICK at \in {"update", "assign", "delete", "sync"} :
            /\ rPc' = [rPc EXCEPT ![j] = at]
            /\ at = "sync" => kind = "replace"
            /\ at # "sync" => kind = at
    <3>1. CASE kind = "replace" BY <2>1, <3>1 DEF R!Goto
    <3>2. CASE kind # "replace" BY <2>1, <3>2 DEF R!Goto
    <3> QED BY <3>1, <3>2
  <2>3. role = "live" /\ role' = "live" /\ perms \subseteq Permissions /\ R!Live'
      BY <2>1 DEF R!Live, RolesInv, RolesTyped
  <2>4. rules' = rules /\ perms' = perms BY <2>1 DEF R!Begin
  <2>5. ASSUME NEW w \in RequestWorks, NEW x \in Founds,
               w.kind = kind, w.new = new, w.perms = perms,
               x.live <=> R!Live, x.perms = perms, x.rules = rules
        PROVE  Progress(at, w, x)'
      BY <2>1, <2>2, <2>3, <2>4, <2>5 DEF Progress, Changed, AsFound
  <2>6. WellBegun(at, kind, new) BY <2>5 DEF WellBegun
  <2>7. /\ kind \in Kinds \ {"none"} /\ at \in RequestSteps
        /\ at = "assign" => new \subseteq Permissions
        /\ role' \in {"live", "gone"} /\ perms' \subseteq Permissions
      BY <2>1, <2>2, <2>3
  <2> HIDE DEF Kinds, RequestSteps
  <2> QED BY <2>1, <2>2, <2>6, <2>7, RequestBegins
<1> QED BY <1>1, <1>2

\* The role and its permissions change.
LEMMA ChangesKeep ==
    ASSUME RolesInv, NEW j \in Handlers,
           R!UpdateAuthority(j) \/ R!AssignPermissions(j) \/ R!DeleteAuthority(j)
    PROVE  RolesInv'
<1> USE DEF RequestSteps, Loading, Syncing
<1>1. PICK x : x = was[j] OBVIOUS
<1>2. PICK w \in RequestWorks : w = r[j] BY DEF RolesInv, RolesTyped
<1>3. r' = [r EXCEPT ![j] = w] /\ was' = was /\ UNCHANGED <<rules, loaded>>
    BY <1>2 DEF R!UpdateAuthority, R!AssignPermissions, R!DeleteAuthority, RolesInv, RolesTyped
<1>4. rules' \subseteq R!Rules /\ perms \subseteq Permissions BY <1>3 DEF RolesInv, RolesTyped
<1>5. CASE R!UpdateAuthority(j)
  <2>1. rPc[j] = "update" /\ rPc' = [rPc EXCEPT ![j] = "ok"] /\ role' = "live" /\ perms' = perms
      BY <1>5 DEF R!UpdateAuthority, R!Goto
  <2>2. Progress("update", w, x) => Progress("ok", w, x)'
      BY DEF Progress, Effected
  <2> QED BY <1>1, <1>2, <1>3, <1>4, <2>1, <2>2, RequestMoves
<1>6. CASE R!AssignPermissions(j)
  <2>1. rPc[j] = "assign" /\ role' = role BY <1>6 DEF R!AssignPermissions
  <2>2. CASE R!Live
    <3>1. perms' = w.new /\ rPc' = [rPc EXCEPT ![j] = "sync"]
        BY <1>2, <1>6, <2>2 DEF R!AssignPermissions, R!Goto
    <3>2. Progress("assign", w, x) => Progress("sync", w, x)'
        BY <1>3, <2>1, <2>2 DEF Progress, Changed, AsFound, R!Live
    <3>3. w.new \subseteq Permissions BY <1>2, <2>1 DEF RolesInv, RolesTyped
    <3> QED BY <1>1, <1>2, <1>3, <1>4, <2>1, <3>1, <3>2, <3>3, RequestMoves
  <2>3. CASE ~R!Live
    <3>1. perms' = perms /\ rPc' = [rPc EXCEPT ![j] = "failed"]
        BY <1>6, <2>3 DEF R!AssignPermissions, R!Goto
    <3>2. ~Progress("assign", w, x) BY <2>3 DEF Progress
    <3> QED BY <1>1, <1>2, <1>3, <1>4, <2>1, <3>1, <3>2, RequestMoves
  <2> QED BY <2>2, <2>3
<1>7. CASE R!DeleteAuthority(j)
  <2>1. /\ rPc[j] = "delete" /\ rPc' = [rPc EXCEPT ![j] = "sync"] /\ role' = "gone"
        /\ perms' = {}
      BY <1>7 DEF R!DeleteAuthority, R!Goto
  <2>2. Progress("delete", w, x) => Progress("sync", w, x)'
      BY <1>3, <2>1 DEF Progress, Changed, AsFound
  <2> QED BY <1>1, <1>2, <1>3, <1>4, <2>1, <2>2, RequestMoves
<1> QED BY <1>5, <1>6, <1>7

\* The rules are read, merged and written.
LEMMA SyncsKeep ==
    ASSUME RolesInv, NEW j \in Handlers,
           R!LoadRules(j) \/ R!MergePolicies(j) \/ R!WriteRules(j)
    PROVE  RolesInv'
<1> USE DEF RequestSteps, Loading, Syncing
<1>1. PICK x : x = was[j] OBVIOUS
<1>2. PICK w \in RequestWorks : w = r[j] BY DEF RolesInv, RolesTyped
<1>3. was' = was /\ UNCHANGED <<role, perms, loaded>>
    BY DEF R!LoadRules, R!MergePolicies, R!WriteRules
<1>4. rules \subseteq R!Rules /\ perms \subseteq Permissions /\ perms' \subseteq Permissions
    BY <1>3 DEF RolesInv, RolesTyped
<1>5. CASE R!LoadRules(j)
  <2>1. PICK z : z = [w EXCEPT !.rules = rules] OBVIOUS
  <2>2. /\ z \in RequestWorks /\ z.kind = w.kind /\ z.new = w.new /\ z.perms = w.perms
        /\ z.rules = rules
      BY <1>4, <2>1 DEF RequestWorks
  <2>3. rPc[j] = "sync" /\ rules' = rules /\ r' = [r EXCEPT ![j] = z]
      BY <1>2, <1>5, <2>1 DEF R!LoadRules
  <2>4. PICK at \in {"merge", "undo", "failed"} :
            /\ rPc' = [rPc EXCEPT ![j] = at]
            /\ R!Live \/ w.kind = "delete" => at = "merge"
    <3>1. CASE R!Live \/ w.kind = "delete" BY <1>2, <1>5, <3>1 DEF R!LoadRules, R!Goto
    <3>2. CASE ~(R!Live \/ w.kind = "delete")
        BY <1>2, <1>5, <3>2 DEF R!LoadRules, R!Goto, R!Failed
    <3> QED BY <3>1, <3>2
  <2>5. Progress("sync", w, x) => at = "merge" BY <2>4 DEF Progress, Changed, R!Live
  <2>6. Progress("sync", w, x) => Progress("merge", z, x)'
      BY <1>3, <2>2, <2>3 DEF Progress, Changed
  <2> QED BY <1>1, <1>2, <1>3, <1>4, <2>2, <2>3, <2>4, <2>5, <2>6, RequestMoves
<1>6. CASE R!MergePolicies(j)
  <2>1. PICK new : new = CASE w.kind = "delete" -> {}
                           [] w.kind = "replace" -> w.new
                           [] OTHER -> (rules \ Permissions) \union perms
      OBVIOUS
  <2>2. PICK z : z = [w EXCEPT !.new = new] OBVIOUS
  <2>3. new \in SUBSET R!Rules BY <1>4, <2>1 DEF RequestWorks, R!Rules
  <2>4. /\ z \in RequestWorks /\ z.kind = w.kind /\ z.new = new /\ z.perms = w.perms
        /\ z.rules = w.rules
      BY <2>2, <2>3 DEF RequestWorks
  <2>5. rPc[j] = "merge" /\ rPc' = [rPc EXCEPT ![j] = "write"] /\ rules' = rules
      BY <1>6 DEF R!MergePolicies, R!Goto
  <2>6. r' = [r EXCEPT ![j].new = new]
      BY <1>2, <1>6, <2>1 DEF R!MergePolicies, R!OwnRules
  <2>7. r' = [r EXCEPT ![j] = z] BY <1>2, <2>2, <2>6
  <2>8. Progress("merge", w, x) => Progress("write", z, x)'
    <3> SUFFICES ASSUME Progress("merge", w, x) PROVE Progress("write", z, x)' OBVIOUS
    <3>1. Changed(z.kind, x)' BY <1>3, <2>4 DEF Progress, Changed
    <3>2. z.new = Outcome(z, x)' BY <1>3, <2>1, <2>4 DEF Progress, Outcome
    <3> QED BY <2>4, <2>5, <3>1, <3>2 DEF Progress
  <2> QED BY <1>1, <1>2, <1>3, <1>4, <2>4, <2>5, <2>7, <2>8, RequestMoves
<1>7. CASE R!WriteRules(j)
  <2>1. rPc[j] = "write" /\ r' = [r EXCEPT ![j] = w]
      BY <1>2, <1>7 DEF R!WriteRules, RolesInv, RolesTyped
  <2>2. CASE rules' = w.new /\ rPc' = [rPc EXCEPT ![j] = "load"]
    <3>1. rules' \subseteq R!Rules BY <2>2 DEF RequestWorks
    <3>2. Progress("write", w, x) => Progress("load", w, x)'
        BY <1>3, <2>2 DEF Progress, Changed, Outcome
    <3> QED BY <1>1, <1>2, <1>3, <1>4, <2>1, <2>2, <3>1, <3>2, RequestMoves
  <2>3. CASE rules' = rules /\ rPc' = [rPc EXCEPT ![j] = R!Failed(j)]
    <3>1. PICK at \in {"failed", "undo"} :
              rPc' = [rPc EXCEPT ![j] = at] /\ (at = "failed" <=> w.kind = "replace")
        BY <1>2, <2>3 DEF R!Failed
    <3>2. Progress("write", w, x) => Progress(at, w, x)'
        BY <1>3, <2>3, <3>1 DEF Progress, Changed, AsFound, R!Live
    <3>3. /\ at \in RequestSteps \ {"assign"} /\ rPc[j] # "idle"
          /\ Progress(rPc[j], r[j], x) => Progress(at, w, x)'
        BY <1>2, <2>1, <3>1, <3>2
    <3>4. rules' \subseteq R!Rules BY <1>4, <2>3
    <3> HIDE DEF RequestSteps
    <3> QED BY <1>1, <1>3, <1>4, <2>1, <3>1, <3>3, <3>4, RequestMoves
  <2> QED BY <1>2, <1>7, <2>2, <2>3 DEF R!WriteRules, R!Goto
<1> QED BY <1>5, <1>6, <1>7

\* The enforcer loads the rules, or they are put back.
LEMMA LoadsKeep ==
    ASSUME RolesInv, NEW j \in Handlers,
           R!LoadPolicy(j) \/ R!RestoreRules(j) \/ R!Reload(j)
    PROVE  RolesInv'
<1> USE DEF RequestSteps, Loading, Syncing
<1>1. PICK x : x = was[j] OBVIOUS
<1>2. PICK w \in RequestWorks : w = r[j] BY DEF RolesInv, RolesTyped
<1>3. r' = [r EXCEPT ![j] = w] /\ UNCHANGED <<role, perms>>
    BY <1>2 DEF R!LoadPolicy, R!RestoreRules, R!Reload, RolesInv, RolesTyped
<1>4. rules \subseteq R!Rules /\ w.rules \subseteq R!Rules /\ perms' \subseteq Permissions
    BY <1>3 DEF RolesInv, RolesTyped, RequestWorks
<1>5. PICK end \in {"failed", "undo"} :
          end = R!Failed(j) /\ (end = "failed" <=> w.kind = "replace")
    BY <1>2 DEF R!Failed
<1>6. CASE R!LoadPolicy(j)
  <2>1. rPc[j] = "load" /\ rules' = rules /\ was' = was BY <1>6 DEF R!LoadPolicy
  <2>2. CASE loaded' = rules /\ rPc' = [rPc EXCEPT ![j] = "ok"]
    <3>1. Progress("load", w, x) => Progress("ok", w, x)'
        BY <1>3, <2>1, <2>2 DEF Progress, Changed, Outcome, Effected, R!Live
    <3> QED BY <1>1, <1>2, <1>3, <1>4, <2>1, <2>2, <3>1, RequestMoves
  <2>3. CASE rPc' = [rPc EXCEPT ![j] = "restore"]
    <3>1. Progress("load", w, x) => Progress("restore", w, x)'
        BY <1>3, <2>1 DEF Progress, Changed
    <3> QED BY <1>1, <1>2, <1>3, <1>4, <2>1, <2>3, <3>1, RequestMoves
  <2> QED BY <1>6, <2>2, <2>3 DEF R!LoadPolicy, R!Goto
<1>7. CASE R!RestoreRules(j)
  <2>1. rPc[j] = "restore" BY <1>7 DEF R!RestoreRules
  <2>2. CASE rules' = w.rules /\ rPc' = [rPc EXCEPT ![j] = "reload"] /\ was' = was
    <3>1. Progress("restore", w, x) => Progress("reload", w, x)'
        BY <1>3, <2>2 DEF Progress, Changed
    <3> QED BY <1>1, <1>2, <1>3, <1>4, <2>1, <2>2, <3>1, RequestMoves
  <2>3. CASE rules' = rules /\ rPc' = [rPc EXCEPT ![j] = end] /\ R!Excuse(j)
    <3>1. was' = [was EXCEPT ![j] = R!Nothing] BY <2>3 DEF R!Excuse
    <3>2. was' = was => ~Progress("restore", w, x)
        BY <1>1, <3>1, NothingIsNotFound DEF Progress, RolesInv, RolesTyped
    <3>3. /\ end \in RequestSteps \ {"assign"} /\ rPc[j] # "idle"
          /\ was' = was => ~Progress(rPc[j], r[j], x)
        BY <1>2, <1>5, <2>1, <3>2
    <3>4. rules' \subseteq R!Rules BY <1>4, <2>3
    <3> HIDE DEF RequestSteps
    <3> QED BY <1>1, <1>3, <1>4, <2>3, <3>1, <3>3, <3>4, RequestMoves
  <2> QED BY <1>2, <1>5, <1>7, <2>2, <2>3 DEF R!RestoreRules, R!Goto
<1>8. CASE R!Reload(j)
  <2>1. rPc[j] = "reload" /\ rules' = rules /\ was' = was /\ rPc' = [rPc EXCEPT ![j] = end]
      BY <1>5, <1>8 DEF R!Reload, R!Goto
  <2>2. Progress("reload", w, x) => Progress(end, w, x)'
      BY <1>3, <1>5, <2>1 DEF Progress, Changed, AsFound, R!Live
  <2>3. /\ end \in RequestSteps \ {"assign"} /\ rPc[j] # "idle"
        /\ Progress(rPc[j], r[j], x) => Progress(end, w, x)'
      BY <1>2, <1>5, <2>1, <2>2
  <2>4. rules' \subseteq R!Rules BY <1>4, <2>1
  <2> HIDE DEF RequestSteps
  <2> QED BY <1>1, <1>3, <1>4, <2>1, <2>3, <2>4, RequestMoves
<1> QED BY <1>6, <1>7, <1>8

\* The request puts back what it had read, and ends.
LEMMA EndsKeep ==
    ASSUME RolesInv, NEW j \in Handlers, R!Undo(j) \/ R!Finish(j)
    PROVE  RolesInv'
<1> USE DEF RequestSteps, Loading, Syncing
<1>1. PICK x : x = was[j] OBVIOUS
<1>2. PICK w \in RequestWorks : w = r[j] BY DEF RolesInv, RolesTyped
<1>3. UNCHANGED <<rules, loaded>> BY DEF R!Undo, R!Finish
<1>4. rules' \subseteq R!Rules /\ perms \subseteq Permissions /\ w.perms \subseteq Permissions
    BY <1>3 DEF RolesInv, RolesTyped, RequestWorks
<1>5. CASE R!Undo(j)
  <2>1. rPc[j] = "undo" /\ rPc' = [rPc EXCEPT ![j] = "failed"] /\ r' = [r EXCEPT ![j] = w]
      BY <1>2, <1>5 DEF R!Undo, R!Goto, RolesInv, RolesTyped
  <2>2. CASE /\ perms' = CASE w.kind = "create" -> {}
                           [] w.kind = "assign" -> w.perms
                           [] OTHER -> perms \union w.perms
             /\ role' = CASE w.kind = "create" -> "gone"
                          [] w.kind = "delete" -> "live"
                          [] OTHER -> role
             /\ was' = was
    <3>1. perms' \subseteq Permissions BY <1>4, <2>2
    <3>2. role' = role \/ role' \in {"live", "gone"} BY <2>2
    <3>3. Progress("undo", w, x) => Progress("failed", w, x)'
      <4> SUFFICES ASSUME Progress("undo", w, x) PROVE AsFound(x)' BY DEF Progress
      <4>1. Changed(w.kind, x) /\ rules = x.rules /\ w.kind # "replace" /\ w.perms = x.perms
          BY DEF Progress
      <4>2. CASE w.kind = "create"
          BY <1>3, <2>2, <4>1, <4>2 DEF Changed, AsFound, R!Live
      <4>3. CASE w.kind = "delete"
          BY <1>3, <2>2, <4>1, <4>3 DEF Changed, AsFound, R!Live
      <4>4. CASE w.kind = "assign"
          BY <1>3, <2>2, <4>1, <4>4 DEF Changed, AsFound, R!Live
      <4> QED BY <4>1, <4>2, <4>3, <4>4 DEF Changed
    <3> QED BY <1>1, <1>2, <1>3, <1>4, <2>1, <2>2, <3>1, <3>2, <3>3, RequestMoves
  <2>3. CASE UNCHANGED <<role, perms>> /\ was' = [was EXCEPT ![j] = R!Nothing]
    <3>1. was' = was => ~Progress("undo", w, x)
        BY <1>1, <2>3, NothingIsNotFound DEF Progress, RolesInv, RolesTyped
    <3> QED BY <1>1, <1>2, <1>3, <1>4, <2>1, <2>3, <3>1, RequestMoves
  <2> QED BY <1>2, <1>5, <2>2, <2>3 DEF R!Undo, R!Previous, R!Excuse
<1>6. CASE R!Finish(j)
  <2>1. /\ rPc[j] \in {"ok", "failed"} /\ rPc' = [rPc EXCEPT ![j] = "idle"]
        /\ r' = [r EXCEPT ![j] = R!Idle] /\ was' = [was EXCEPT ![j] = R!Nothing]
        /\ UNCHANGED <<role, perms>>
      BY <1>6 DEF R!Finish, R!Goto
  <2>2. R!Idle \in RequestWorks BY DEF R!Idle, RequestWorks, Kinds
  <2>3. was' = was => ~Progress(rPc[j], w, x)
      BY <1>1, <2>1, NothingIsNotFound DEF Progress, RolesInv, RolesTyped
  <2> QED BY <1>1, <1>2, <1>3, <1>4, <2>1, <2>2, <2>3, RequestMoves
<1> QED BY <1>5, <1>6

LEMMA RolesStep ==
    ASSUME RolesInv, [R!Next]_policiesVars
    PROVE  RolesInv'
<1>1. CASE R!InitEnforcer
  <2>1. /\ rPc' = [j \in Handlers |-> "idle"] /\ r' = [j \in Handlers |-> R!Idle]
        /\ was' = [j \in Handlers |-> R!Nothing] /\ loaded' = rules
        /\ UNCHANGED <<role, perms, rules>>
      BY <1>1 DEF R!InitEnforcer
  <2>2. R!Idle \in RequestWorks BY DEF R!Idle, RequestWorks, Kinds
  <2>3. "idle" \in RequestSteps BY DEF RequestSteps
  <2>4. RolesTyped' BY <2>1, <2>2, <2>3 DEF RolesInv, RolesTyped
  <2> QED BY <2>1, <2>4 DEF RolesInv, NothingBefore
<1>2. ASSUME NEW j \in Handlers, R!CreateAuthority(j) \/ R!LoadRole(j) PROVE RolesInv'
    BY <1>2, BeginningsKeep
<1>3. ASSUME NEW j \in Handlers,
             R!UpdateAuthority(j) \/ R!AssignPermissions(j) \/ R!DeleteAuthority(j)
      PROVE RolesInv'
    BY <1>3, ChangesKeep
<1>4. ASSUME NEW j \in Handlers, R!LoadRules(j) \/ R!MergePolicies(j) \/ R!WriteRules(j)
      PROVE RolesInv'
    BY <1>4, SyncsKeep
<1>5. ASSUME NEW j \in Handlers, R!LoadPolicy(j) \/ R!RestoreRules(j) \/ R!Reload(j)
      PROVE RolesInv'
    BY <1>5, LoadsKeep
<1>6. ASSUME NEW j \in Handlers, R!Undo(j) \/ R!Finish(j) PROVE RolesInv'
    BY <1>6, EndsKeep
<1>7. CASE UNCHANGED policiesVars
  <2> USE <1>7 DEF policiesVars
  <2>1. RolesTyped' /\ NothingBefore' BY DEF RolesInv, RolesTyped, NothingBefore
  <2>2. \A j \in Handlers : Alone(j) => Alone(j)'
      BY DEF Alone, Progress, AsFound, Changed, Outcome, Effected, R!Live
  <2> QED BY <2>1, <2>2 DEF RolesInv
<1> QED BY <1>1, <1>2, <1>3, <1>4, <1>5, <1>6, <1>7 DEF R!Next

\* A request on a role that no other overlapped, and whose putting back did not fail
\* itself, has changed role, permissions, rules and enforcer, or nothing of the first three.
THEOREM RequestsAreAlwaysAtomic == Spec => []RequestsAreAtomic
<1> DEFINE Inv == part = "policies" => RolesInv
<1>1. Init => Inv
  <2> SUFFICES ASSUME R!Init PROVE RolesInv BY DEF Init
  <2>1. /\ role \in {"none", "live"} /\ loaded = rules
        /\ rPc = [j \in Handlers |-> "idle"] /\ r = [j \in Handlers |-> R!Idle]
        /\ was = [j \in Handlers |-> R!Nothing]
      BY DEF R!Init
  <2>2. perms \subseteq Permissions /\ rules \subseteq R!Rules
        /\ (role = "none" => rules = {} /\ perms = {})
    <3>1. CASE role = "live" BY <3>1 DEF R!Init, R!Live, R!Rules
    <3>2. CASE role # "live" BY <3>2 DEF R!Init, R!Live
    <3> QED BY <3>1, <3>2
  <2>3. R!Idle \in RequestWorks BY DEF R!Idle, RequestWorks, Kinds
  <2>4. "idle" \in RequestSteps BY DEF RequestSteps
  <2>5. RolesTyped BY <2>1, <2>2, <2>3, <2>4 DEF RolesTyped
  <2>6. NothingBefore BY <2>1, <2>2 DEF NothingBefore
  <2> QED BY <2>1, <2>5, <2>6 DEF RolesInv
<1>2. Inv /\ [Next]_vars => Inv' BY PartStays, StepsAreOfThePart, RolesStep
<1>3. Inv => RequestsAreAtomic
  <2> SUFFICES ASSUME RolesInv, NEW j \in Handlers, was[j] # R!Nothing
               PROVE  /\ rPc[j] = "failed" =>
                             was[j] = [live |-> R!Live, perms |-> perms, rules |-> rules]
                      /\ rPc[j] = "ok" /\ r[j].kind # "update" => loaded = rules
                      /\ rPc[j] = "ok" /\ r[j].kind \in {"create", "assign"} =>
                             rules = perms \union (was[j].rules \ Permissions)
                      /\ rPc[j] = "ok" /\ r[j].kind = "delete" => ~R!Live /\ rules = {}
      BY DEF RequestsAreAtomic, R!RequestsAreAtomic
  <2>1. Progress(rPc[j], r[j], was[j]) BY DEF RolesInv, Alone
  <2>2. PICK x \in Founds : x = was[j] BY <2>1 DEF Progress
  <2>3. rPc[j] = "failed" => was[j] = [live |-> R!Live, perms |-> perms, rules |-> rules]
    <3>1. x = [live |-> x.live, perms |-> x.perms, rules |-> x.rules] BY FoundIs
    <3>2. rPc[j] = "failed" => x.live = R!Live /\ x.perms = perms /\ x.rules = rules
        BY <2>1, <2>2 DEF Progress, AsFound, Founds, R!Live
    <3> QED BY <2>2, <3>1, <3>2
  <2>4. rPc[j] = "ok" /\ r[j].kind \in {"create", "assign"} =>
            rules = perms \union (was[j].rules \ Permissions)
      BY <2>1 DEF Progress, Outcome
  <2> QED BY <2>1, <2>3, <2>4 DEF Progress, Effected
<1> QED BY <1>1, <1>2, <1>3, PTL DEF Spec

-----------------------------------------------------------------------------
\* The instance of Sessions has a copy of the definition of its own.
LEMMA SameCardinality == ASSUME NEW T PROVE S!Cardinality(T) = Cardinality(T)
BY DEF S!Cardinality, Cardinality

\* Of any sessions, the ones with fewer than n newer ones are at most n: the sessions
\* that issueSession leaves open.
LEMMA LeastOf ==
    ASSUME NEW T \in SUBSET Nat, T # {}
    PROVE  \E m \in T : \A n \in T : m <= n
<1>1. IsWellFoundedOn(OpToRel(<, Nat), Nat) BY NatLessThanWellFounded
<1>2. PICK m \in T : \A n \in T : <<n, m>> \notin OpToRel(<, Nat) BY <1>1, WFMin
<1>3. \A n \in T : ~(n < m) BY <1>2 DEF OpToRel
<1> QED BY <1>3

LEMMA NewestAreFew ==
    ASSUME NEW n \in Nat \ {0}, NEW T \in SUBSET Nat, IsFiniteSet(T)
    PROVE  Cardinality({t \in T : ~(Cardinality({u \in T : u > t}) >= n)}) <= n
<1> DEFINE Few == {t \in T : ~(Cardinality({u \in T : u > t}) >= n)}
<1>1. CASE Few = {}
  <2> HIDE DEF Few
  <2>1. Cardinality(Few) = 0 BY <1>1, FS_EmptySet, Zenon
  <2>2. Cardinality(Few) <= n BY <2>1
  <2> QED BY <2>2 DEF Few
<1>2. CASE Few # {}
  <2>1. PICK m \in Few : \A k \in Few : m <= k BY <1>2, LeastOf
  <2> DEFINE A == {u \in T : u > m}
  <2>2. IsFiniteSet(A) /\ Cardinality(A) \in Nat BY FS_Subset, FS_CardinalityType
  <2>3. Cardinality(A) < n BY <2>1, <2>2
  <2>4. Few \in SUBSET (A \union {m})
    <3>1. ASSUME NEW k \in Few, k # m PROVE k \in T /\ k > m
      <4>1. k \in T /\ m \in T BY <3>1
      <4>2. m <= k BY <2>1
      <4> QED BY <3>1, <4>1, <4>2
    <3> QED BY <3>1
  <2>5. m \notin A BY <2>1
  <2> HIDE DEF A, Few
  <2>6. IsFiniteSet(A \union {m}) /\ Cardinality(A \union {m}) = Cardinality(A) + 1
      BY <2>2, <2>5, FS_AddElement
  <2>7. Cardinality(Few) <= Cardinality(A \union {m}) /\ Cardinality(Few) \in Nat
      BY <2>4, <2>6, FS_Subset, FS_CardinalityType
  <2>8. Cardinality(Few) <= n BY <2>2, <2>3, <2>6, <2>7
  <2> QED BY <2>8 DEF Few
<1> QED BY <1>1, <1>2
-----------------------------------------------------------------------------
\* Sessions: the rows and the requests ...
SessionStates == {"none", "open", "live", "revoked", "gone", "aborted"}
SessionRows == [state : SessionStates, gen : Nat]
SessionWorks == [s : Nat, g : Nat, snap : SUBSET S!Ids, rows : SUBSET S!Ids,
                 seen : SessionRows, flag : {"", "pending", "active", "access", "refresh"}]

SessionsTyped ==
    /\ session \in [S!Ids -> SessionRows]
    /\ reqPc = [c \in Clients |-> reqPc[c]] /\ req \in [Clients -> SessionWorks]
    /\ payload = [i \in S!Ids |-> payload[i]]
    /\ \A i \in S!Ids : payload[i] = [k \in S!Gens |-> payload[i][k]]

Was(i) == session[i].state \in {"live", "revoked", "gone"}
Over(i) == session[i].state \in {"revoked", "gone"}

\* ... what a request knows of the sessions it is about ...
RequestKnows(c) ==
    /\ reqPc[c] \in {"rotate", "uncache", "reload", "store", "revoke", "revoke_rows", "revoke_one"}
            => req[c].s \in S!Ids /\ Was(req[c].s)
    /\ reqPc[c] \in {"reset", "change", "change_commit", "revoke_rows"}
            => \A i \in req[c].snap : Was(i)
    /\ reqPc[c] = "revoke_rows" => req[c].snap \subseteq {req[c].s}
    /\ reqPc[c] = "reset" => req[c].flag = ""
    /\ reqPc[c] = "change" => req[c].s \notin req[c].snap
    /\ reqPc[c] = "change_commit" => req[c].snap \intersect S!Live \subseteq req[c].rows
    /\ reqPc[c] = "publish" => \A i \in req[c].snap : Over(i)
    /\ (reqPc[c] = "publish" /\ req[c].flag \in {"access", "refresh"})
            \/ reqPc[c] \in {"forget", "mark_one"} => req[c].s \in S!Ids /\ Over(req[c].s)
    /\ reqPc[c] = "store" /\ req[c].seen.state # "live" => Over(req[c].s)
RequestsKnow == \A c \in Clients : RequestKnows(c)

\* ... what Redis says, of which only the sessions that are over are refused ...
CacheKnows ==
    /\ \A i \in S!Ids, k \in S!Gens : payload[i][k] \in {"none", "live"} \/ Over(i)
    /\ \A i \in S!Ids : i \in markers => Over(i) \/ i \in early
    /\ \A i \in S!Ids, k \in S!Gens : <<"access", i, k>> \in denied => Over(i)
    /\ ended \subseteq S!Ids /\ ended \subseteq markers /\ \A i \in ended : Over(i)

\* ... and the login that has the user's row: with its session open there is still
\* room for what it leaves, and its session is newer than every other.
InLogin(c) == reqPc[c] \in {"trim", "login_commit"}
OneLogin == \A c, o \in Clients : InLogin(c) /\ InLogin(o) => c = o
LoginFits(c) ==
    /\ req[c].s \in S!Ids /\ session[req[c].s].state = "open"
    /\ Cardinality((S!Live \ req[c].rows) \union {req[c].s}) <= SessionLimit
LoginsFit == \A c \in Clients : InLogin(c) => LoginFits(c)
IdsInOrder ==
    \A i, j \in S!Ids : session[i].state = "none" /\ i < j => session[j].state = "none"
FewLive == Cardinality(S!Live) <= SessionLimit
LoginInv == OneLogin /\ LoginsFit /\ IdsInOrder /\ FewLive

SessionsInv == SessionsTyped /\ RequestsKnow /\ CacheKnows /\ LoginInv

\* What a step leaves of the rows: a session that is over stays over, and only a login
\* that commits makes one live.
Aging ==
    \A i \in S!Ids : /\ Was(i) => Was(i)'
                     /\ Over(i) => Over(i)'
                     /\ Was(i) /\ i \in S!Live' => i \in S!Live
Quietly ==
    /\ Aging
    /\ \A i \in S!Ids : /\ i \in S!Live' => i \in S!Live
                        /\ session[i].state = "open" => session'[i].state = "open"
                        /\ session'[i].state = "none" <=> session[i].state = "none"

LEMMA SessionsStay == ASSUME UNCHANGED session PROVE Quietly
BY DEF Quietly, Aging, Was, Over, S!Live

LEMMA RevokedAge ==
    ASSUME SessionsTyped, NEW X, session' = S!Revoked(X)
    PROVE  /\ Quietly /\ session' \in [S!Ids -> SessionRows]
           /\ \A i \in S!Ids : /\ i \in X /\ Was(i) => Over(i)'
                               /\ i \in X => i \notin S!Live'
<1>1. \A i \in S!Ids : session'[i] = IF i \in X /\ session[i].state = "live"
                                     THEN [session[i] EXCEPT !.state = "revoked"] ELSE session[i]
    BY DEF S!Revoked
<1>2. \A i \in S!Ids : session[i] \in SessionRows BY DEF SessionsTyped
<1>3. \A i \in S!Ids :
        /\ session'[i] \in SessionRows
        /\ session'[i].state = IF i \in X /\ session[i].state = "live"
                               THEN "revoked" ELSE session[i].state
    BY <1>1, <1>2 DEF SessionRows, SessionStates
<1>4. session' = [i \in S!Ids |-> session'[i]] BY DEF S!Revoked
<1>5. session' \in [S!Ids -> SessionRows] BY <1>3, <1>4
<1> QED BY <1>3, <1>5 DEF Quietly, Aging, Was, Over, S!Live

LEMMA SomeLive == ASSUME NEW T \in SUBSET S!Ids, MaxSessions \in Nat
                  PROVE  IsFiniteSet(T) /\ Cardinality(T) \in Nat
<1>1. IsFiniteSet(S!Ids) BY FS_Interval DEF S!Ids
<1> QED BY <1>1, FS_Subset, FS_CardinalityType

LEMMA FewerLive ==
    ASSUME MaxSessions \in Nat, NEW U \in SUBSET S!Ids, NEW T \in SUBSET U
    PROVE  Cardinality(T) <= Cardinality(U)
BY SomeLive, FS_Subset

\* The logins, while a step opens no session and makes none live.
LEMMA LoginsGoOn ==
    ASSUME MaxSessions \in Nat, SessionLimit \in Nat \ {0}, SessionsTyped, LoginInv, Quietly,
           \A o \in Clients : InLogin(o)' =>
               InLogin(o) /\ req'[o].s = req[o].s /\ req'[o].rows = req[o].rows
    PROVE  LoginInv'
<1> USE DEF LoginInv
<1>1. OneLogin' BY DEF OneLogin
<1>2. S!Live' \in SUBSET S!Live BY DEF Quietly, S!Live
<1>3. S!Live \in SUBSET S!Ids BY DEF S!Live
<1>4. ASSUME NEW o \in Clients, InLogin(o)' PROVE LoginFits(o)'
  <2>1. PICK n, X : n = req[o].s /\ X = req[o].rows OBVIOUS
  <2>2. LoginFits(o) /\ req'[o].s = n /\ req'[o].rows = X BY <1>4, <2>1 DEF LoginsFit
  <2>3. n \in S!Ids /\ session'[n].state = "open" BY <2>1, <2>2 DEF LoginFits, Quietly
  <2> DEFINE T == (S!Live' \ X) \union {n}
             U == (S!Live \ X) \union {n}
  <2>4. U \in SUBSET S!Ids /\ T \in SUBSET U BY <1>2, <1>3, <2>3
  <2>5. Cardinality(U) <= SessionLimit BY <2>1, <2>2 DEF LoginFits
  <2> HIDE DEF T, U
  <2>6. T \in SUBSET S!Ids BY <2>4
  <2>7. /\ Cardinality(T) <= Cardinality(U) /\ Cardinality(T) \in Nat /\ Cardinality(U) \in Nat
      BY <2>4, <2>6, SomeLive, FewerLive
  <2>8. Cardinality(T) <= SessionLimit BY <2>5, <2>7
  <2> QED BY <2>2, <2>3, <2>8 DEF LoginFits, T
<1>5. LoginsFit' BY <1>4 DEF LoginsFit
<1>6. IdsInOrder' BY DEF IdsInOrder, Quietly
<1>7. FewLive'
  <2>1. /\ Cardinality(S!Live') <= Cardinality(S!Live) /\ Cardinality(S!Live') \in Nat
        /\ Cardinality(S!Live) \in Nat
      BY <1>2, <1>3, SomeLive, FewerLive
  <2>2. Cardinality(S!Live') <= SessionLimit BY <2>1 DEF FewLive
  <2> QED BY <2>2 DEF FewLive
<1> QED BY <1>1, <1>5, <1>6, <1>7

LEMMA OtherKnows ==
    ASSUME Aging, SessionsTyped, NEW c \in Clients, RequestKnows(c),
           reqPc'[c] = reqPc[c], req'[c] = req[c]
    PROVE  RequestKnows(c)'
<1> USE DEF RequestKnows, Aging
<1>1. req[c].snap \subseteq S!Ids BY DEF SessionsTyped, SessionWorks
<1> QED BY <1>1

LEMMA CacheStays ==
    ASSUME Aging, SessionsTyped, CacheKnows, UNCHANGED <<payload, markers, denied, ended>>,
           early \subseteq early'
    PROVE  CacheKnows'
BY DEF CacheKnows, Aging

\* Request c does a step: it is at step `at' and its variables are w.
Moves(c, at, w) == reqPc' = [reqPc EXCEPT ![c] = at] /\ req' = [req EXCEPT ![c] = w]
PayloadTyped ==
    /\ payload = [i \in S!Ids |-> payload[i]]
    /\ \A i \in S!Ids : payload[i] = [k \in S!Gens |-> payload[i][k]]

LEMMA StepOfARequest ==
    ASSUME MaxSessions \in Nat, SessionLimit \in Nat \ {0}, SessionsInv, Quietly,
           session' \in [S!Ids -> SessionRows], NEW c \in Clients, NEW at, NEW w \in SessionWorks,
           Moves(c, at, w), InLogin(c)' => InLogin(c) /\ w = req[c],
           RequestKnows(c)', CacheKnows', PayloadTyped'
    PROVE  SessionsInv'
<1> USE DEF SessionsInv
<1>1. /\ reqPc' = [o \in Clients |-> reqPc'[o]] /\ req' \in [Clients -> SessionWorks]
      /\ reqPc'[c] = at /\ req'[c] = w
      /\ \A o \in Clients \ {c} : reqPc'[o] = reqPc[o] /\ req'[o] = req[o]
    BY DEF Moves, SessionsTyped
<1>2. SessionsTyped' BY <1>1 DEF SessionsTyped, PayloadTyped
<1>3. \A o \in Clients \ {c} : RequestKnows(o)'
    BY <1>1, OtherKnows DEF RequestsKnow, Quietly
<1>4. RequestsKnow' BY <1>3 DEF RequestsKnow
<1>5. \A o \in Clients : InLogin(o)' =>
            InLogin(o) /\ req'[o].s = req[o].s /\ req'[o].rows = req[o].rows
    BY <1>1 DEF InLogin
<1>6. LoginInv' BY <1>5, LoginsGoOn
<1> QED BY <1>2, <1>4, <1>6

LEMMA StepOfNoRequest ==
    ASSUME MaxSessions \in Nat, SessionLimit \in Nat \ {0}, SessionsInv, Quietly,
           session' \in [S!Ids -> SessionRows],
           UNCHANGED <<reqPc, req, payload, markers, denied, ended, early>>
    PROVE  SessionsInv'
<1> USE DEF SessionsInv
<1>1. SessionsTyped' BY DEF SessionsTyped
<1>2. RequestsKnow' BY OtherKnows DEF RequestsKnow, Quietly
<1>3. CacheKnows' BY CacheStays DEF Quietly
<1>4. LoginInv' BY LoginsGoOn DEF InLogin
<1> QED BY <1>1, <1>2, <1>3, <1>4
LEMMA LimitStays == FewLive <=> S!SessionLimitHolds
BY SameCardinality DEF FewLive, S!SessionLimitHolds

-----------------------------------------------------------------------------
\* The steps that only read the rows.
LEMMA StepThatReads ==
    ASSUME MaxSessions \in Nat, SessionLimit \in Nat \ {0}, SessionsInv, UNCHANGED session,
           NEW c \in Clients, NEW at, NEW w \in SessionWorks,
           Moves(c, at, w), at \notin {"trim", "login_commit"},
           RequestKnows(c)', UNCHANGED <<payload, markers, denied, ended, early>>
    PROVE  SessionsInv'
<1>1. Quietly BY SessionsStay
<1>2. session' \in [S!Ids -> SessionRows] BY DEF SessionsInv, SessionsTyped
<1>3. CacheKnows' BY <1>1, CacheStays DEF SessionsInv, Quietly
<1>4. ~InLogin(c)' BY DEF InLogin, Moves, SessionsInv, SessionsTyped
<1>5. PayloadTyped' BY DEF PayloadTyped, SessionsInv, SessionsTyped
<1> QED BY <1>1, <1>2, <1>3, <1>4, <1>5, StepOfARequest

\* The variables that a request begins with.
LEMMA NoReqTyped ==
    /\ S!NoReq \in SessionWorks
    /\ S!NoReq.snap = {} /\ S!NoReq.rows = {} /\ S!NoReq.flag = ""
BY DEF S!NoReq, S!NoRow, SessionWorks, SessionRows, SessionStates

LEMMA StopStep ==
    ASSUME SessionsTyped, NEW c \in Clients, S!Stop(c)
    PROVE  /\ Moves(c, "idle", S!NoReq) /\ ~InLogin(c)' /\ RequestKnows(c)'
           /\ reqPc'[c] = "idle"
BY DEF S!Stop, S!Goto, Moves, InLogin, RequestKnows, SessionsTyped

LEMMA LoginKeeps ==
    ASSUME MaxSessions \in Nat, SessionLimit \in Nat \ {0}, SessionsInv, NEW c \in Clients,
           S!Login(c)
    PROVE  SessionsInv'
<1>1. PICK w : w = [S!NoReq EXCEPT !.flag = account] OBVIOUS
<1>2. w \in SessionWorks BY <1>1, NoReqTyped DEF S!Login, SessionWorks
<1>3. /\ Moves(c, "issue", w) /\ UNCHANGED <<session, payload, markers, denied, ended, early>>
    BY <1>1 DEF S!Login, S!Begin, Moves, S!dbVars, S!cacheVars
<1>4. reqPc'[c] = "issue" BY <1>3 DEF Moves, SessionsInv, SessionsTyped
<1>5. RequestKnows(c)' BY <1>4 DEF RequestKnows
<1> QED BY <1>2, <1>3, <1>5, StepThatReads

LEMMA BeginRevoke ==
    ASSUME MaxSessions \in Nat, SessionLimit \in Nat \ {0}, SessionsInv, NEW c \in Clients,
           UNCHANGED <<session, payload, markers, denied, ended, early>>,
           NEW at \in {"rotate", "revoke"}, NEW w \in SessionWorks, Moves(c, at, w),
           w.s \in S!Ids, Was(w.s)
    PROVE  SessionsInv'
<1>1. reqPc'[c] = at /\ req'[c] = w BY DEF Moves, SessionsInv, SessionsTyped
<1>2. RequestKnows(c)' BY <1>1 DEF RequestKnows, Was
<1> QED BY <1>2, StepThatReads

LEMMA RefreshKeeps ==
    ASSUME MaxSessions \in Nat, SessionLimit \in Nat \ {0}, SessionsInv, NEW c \in Clients,
           S!RefreshToken(c)
    PROVE  SessionsInv'
<1>1. PICK i \in S!Ids, k \in S!Gens :
        /\ S!Issued(i, k)
        /\ \/ S!Begin(c, "rotate", [S!NoReq EXCEPT !.s = i, !.g = k])
           \/ S!Begin(c, "revoke", [S!NoReq EXCEPT !.s = i])
    BY DEF S!RefreshToken
<1>2. UNCHANGED <<session, payload, markers, denied, ended, early>>
    BY DEF S!RefreshToken, S!dbVars, S!cacheVars
<1>3. i \in Nat /\ k \in Nat /\ Was(i) BY <1>1 DEF S!Ids, S!Gens, S!Issued, Was
<1>4. ASSUME S!Begin(c, "rotate", [S!NoReq EXCEPT !.s = i, !.g = k]) PROVE SessionsInv'
  <2>1. PICK w : w = [S!NoReq EXCEPT !.s = i, !.g = k] OBVIOUS
  <2>2. w \in SessionWorks /\ w.s = i BY <1>3, <2>1, NoReqTyped DEF SessionWorks
  <2>3. Moves(c, "rotate", w) BY <1>4, <2>1 DEF S!Begin, Moves
  <2> QED BY <1>2, <1>3, <2>2, <2>3, BeginRevoke
<1>5. ASSUME S!Begin(c, "revoke", [S!NoReq EXCEPT !.s = i]) PROVE SessionsInv'
  <2>1. PICK w : w = [S!NoReq EXCEPT !.s = i] OBVIOUS
  <2>2. w \in SessionWorks /\ w.s = i BY <1>3, <2>1, NoReqTyped DEF SessionWorks
  <2>3. Moves(c, "revoke", w) BY <1>5, <2>1 DEF S!Begin, Moves
  <2> QED BY <1>2, <1>3, <2>2, <2>3, BeginRevoke
<1> QED BY <1>1, <1>4, <1>5

LEMMA LogoutKeeps ==
    ASSUME MaxSessions \in Nat, SessionLimit \in Nat \ {0}, SessionsInv, NEW c \in Clients,
           S!Logout(c)
    PROVE  SessionsInv'
<1>1. PICK i \in S!Ids, k \in S!Gens, kind \in {"access", "refresh"} :
        /\ S!Issued(i, k)
        /\ \/ S!Begin(c, "revoke", [S!NoReq EXCEPT !.s = i, !.g = k, !.flag = kind])
           \/ S!Begin(c, "revoke", [S!NoReq EXCEPT !.s = i])
    BY DEF S!Logout
<1>2. UNCHANGED <<session, payload, markers, denied, ended, early>>
    BY DEF S!Logout, S!dbVars, S!cacheVars
<1>3. i \in Nat /\ k \in Nat /\ Was(i) BY <1>1 DEF S!Ids, S!Gens, S!Issued, Was
<1>4. ASSUME S!Begin(c, "revoke", [S!NoReq EXCEPT !.s = i, !.g = k, !.flag = kind])
      PROVE  SessionsInv'
  <2>1. PICK w : w = [S!NoReq EXCEPT !.s = i, !.g = k, !.flag = kind] OBVIOUS
  <2>2. w \in SessionWorks /\ w.s = i BY <1>3, <2>1, NoReqTyped DEF SessionWorks
  <2>3. Moves(c, "revoke", w) BY <1>4, <2>1 DEF S!Begin, Moves
  <2> QED BY <1>2, <1>3, <2>2, <2>3, BeginRevoke
<1>5. ASSUME S!Begin(c, "revoke", [S!NoReq EXCEPT !.s = i]) PROVE SessionsInv'
  <2>1. PICK w : w = [S!NoReq EXCEPT !.s = i] OBVIOUS
  <2>2. w \in SessionWorks /\ w.s = i BY <1>3, <2>1, NoReqTyped DEF SessionWorks
  <2>3. Moves(c, "revoke", w) BY <1>5, <2>1 DEF S!Begin, Moves
  <2> QED BY <1>2, <1>3, <2>2, <2>3, BeginRevoke
<1> QED BY <1>1, <1>4, <1>5

LEMMA RotationLostKeeps ==
    ASSUME MaxSessions \in Nat, SessionLimit \in Nat \ {0}, SessionsInv, NEW c \in Clients,
           S!RotationLost(c)
    PROVE  SessionsInv'
<1>1. UNCHANGED <<session, payload, markers, denied, ended, early>>
    BY DEF S!RotationLost, S!dbVars, S!cacheVars
<1>2. CASE S!Stop(c)
    BY <1>1, <1>2, StopStep, StepThatReads, NoReqTyped, "idle" \notin {"trim", "login_commit"}
        DEF SessionsInv
<1>3. CASE S!Goto(c, "revoke") /\ req' = [req EXCEPT ![c].g = 0]
  <2>1. PICK w : w = [req[c] EXCEPT !.g = 0] OBVIOUS
  <2>2. req[c] \in SessionWorks BY DEF SessionsInv, SessionsTyped
  <2>3. w \in SessionWorks /\ w.s = req[c].s BY <2>1, <2>2 DEF SessionWorks
  <2>4. Moves(c, "revoke", w) BY <1>3, <2>1 DEF S!Goto, Moves
  <2>5. w.s \in S!Ids /\ Was(w.s)
    <3>1. req[c].s \in S!Ids /\ Was(req[c].s)
        BY DEF S!RotationLost, S!At, SessionsInv, RequestsKnow, RequestKnows
    <3> QED BY <2>3, <3>1
  <2> QED BY <1>1, <2>3, <2>4, <2>5, BeginRevoke
<1> QED BY <1>2, <1>3 DEF S!RotationLost
LEMMA ReloadKeeps ==
    ASSUME MaxSessions \in Nat, SessionLimit \in Nat \ {0}, SessionsInv, NEW c \in Clients,
           S!ReloadSession(c)
    PROVE  SessionsInv'
<1>1. PICK w : w = [req[c] EXCEPT !.seen = session[req[c].s]] OBVIOUS
<1>2. /\ Moves(c, "store", w) /\ UNCHANGED <<session, payload, markers, denied, ended, early>>
    BY <1>1 DEF S!ReloadSession, S!Goto, Moves, S!dbVars, S!cacheVars
<1>3. req[c].s \in S!Ids /\ Was(req[c].s)
    BY DEF S!ReloadSession, S!At, SessionsInv, RequestsKnow, RequestKnows
<1>4. req[c] \in SessionWorks /\ session[req[c].s] \in SessionRows
    BY <1>3 DEF SessionsInv, SessionsTyped
<1>5. w \in SessionWorks /\ w.s = req[c].s /\ w.seen.state = session[req[c].s].state
    BY <1>1, <1>4 DEF SessionWorks
<1>6. reqPc'[c] = "store" /\ req'[c] = w BY <1>2 DEF Moves, SessionsInv, SessionsTyped
<1>7. Was(w.s)' /\ (w.seen.state # "live" => Over(w.s)')
    BY <1>2, <1>3, <1>5 DEF Was, Over
<1>8. RequestKnows(c)' BY <1>3, <1>5, <1>6, <1>7 DEF RequestKnows, Was, Over
<1> QED BY <1>2, <1>5, <1>8, StepThatReads, "store" \notin {"trim", "login_commit"}

LEMMA SelectKeeps ==
    ASSUME MaxSessions \in Nat, SessionLimit \in Nat \ {0}, SessionsInv, NEW c \in Clients,
           S!SelectFamily(c)
    PROVE  SessionsInv'
<1>1. PICK w : w = [req[c] EXCEPT !.snap = {req[c].s} \intersect S!Live] OBVIOUS
<1>2. /\ Moves(c, "revoke_rows", w)
      /\ UNCHANGED <<session, payload, markers, denied, ended, early>>
    BY <1>1 DEF S!SelectFamily, S!Family, S!Goto, Moves, S!dbVars, S!cacheVars
<1>3. req[c].s \in S!Ids /\ Was(req[c].s)
    BY DEF S!SelectFamily, S!At, SessionsInv, RequestsKnow, RequestKnows
<1>4. req[c] \in SessionWorks BY DEF SessionsInv, SessionsTyped
<1>5. w \in SessionWorks /\ w.s = req[c].s /\ w.snap \subseteq {req[c].s}
    BY <1>1, <1>3, <1>4 DEF SessionWorks
<1>6. reqPc'[c] = "revoke_rows" /\ req'[c] = w BY <1>2 DEF Moves, SessionsInv, SessionsTyped
<1>7. RequestKnows(c)' BY <1>2, <1>3, <1>5, <1>6 DEF RequestKnows, Was
<1> QED BY <1>2, <1>5, <1>7, StepThatReads, "revoke_rows" \notin {"trim", "login_commit"}

LEMMA RevokeSessionKeeps ==
    ASSUME MaxSessions \in Nat, SessionLimit \in Nat \ {0}, SessionsInv, NEW c \in Clients,
           S!RevokeSession(c)
    PROVE  SessionsInv'
<1>1. PICK i \in S!Live : S!Begin(c, "revoke_one", [S!NoReq EXCEPT !.s = i, !.snap = {i}])
    BY DEF S!RevokeSession
<1>2. UNCHANGED <<session, payload, markers, denied, ended, early>>
    BY DEF S!RevokeSession, S!dbVars, S!cacheVars
<1>3. PICK w : w = [S!NoReq EXCEPT !.s = i, !.snap = {i}] OBVIOUS
<1>4. i \in S!Ids /\ i \in Nat /\ Was(i) BY <1>1 DEF S!Live, S!Ids, Was
<1>5. w \in SessionWorks /\ w.s = i BY <1>3, <1>4, NoReqTyped DEF SessionWorks
<1>6. Moves(c, "revoke_one", w) BY <1>1, <1>3 DEF S!Begin, Moves
<1>7. reqPc'[c] = "revoke_one" /\ req'[c] = w BY <1>6 DEF Moves, SessionsInv, SessionsTyped
<1>8. RequestKnows(c)' BY <1>2, <1>4, <1>5, <1>7 DEF RequestKnows, Was
<1> QED BY <1>2, <1>5, <1>6, <1>8, StepThatReads, "revoke_one" \notin {"trim", "login_commit"}

LEMMA ResetKeeps ==
    ASSUME MaxSessions \in Nat, SessionLimit \in Nat \ {0}, SessionsInv, NEW c \in Clients,
           S!ResetPassword(c)
    PROVE  SessionsInv'
<1>1. PICK w : w = [S!NoReq EXCEPT !.snap = S!Live] OBVIOUS
<1>2. /\ Moves(c, "reset", w) /\ UNCHANGED <<session, payload, markers, denied, ended, early>>
    BY <1>1 DEF S!ResetPassword, S!Begin, Moves, S!dbVars, S!cacheVars
<1>3. S!Live \subseteq S!Ids /\ \A i \in S!Live : Was(i) BY DEF S!Live, Was
<1>4. w \in SessionWorks /\ w.snap = S!Live /\ w.flag = ""
    BY <1>1, <1>3, NoReqTyped DEF SessionWorks
<1>5. reqPc'[c] = "reset" /\ req'[c] = w BY <1>2 DEF Moves, SessionsInv, SessionsTyped
<1>6. RequestKnows(c)' BY <1>2, <1>3, <1>4, <1>5 DEF RequestKnows, Was
<1> QED BY <1>2, <1>4, <1>6, StepThatReads, "reset" \notin {"trim", "login_commit"}

LEMMA UpdateKeeps ==
    ASSUME MaxSessions \in Nat, SessionLimit \in Nat \ {0}, SessionsInv, NEW c \in Clients,
           S!UpdatePassword(c)
    PROVE  SessionsInv'
<1>1. PICK i \in S!Ids, k \in S!Gens :
        /\ i \in S!Live /\ session[i].gen = k
        /\ S!Begin(c, "change", [S!NoReq EXCEPT !.s = i, !.g = k, !.snap = S!Others(i, k)])
    BY DEF S!UpdatePassword
<1>2. UNCHANGED <<session, payload, markers, denied, ended, early>>
    BY DEF S!UpdatePassword, S!dbVars, S!cacheVars
<1>3. PICK w : w = [S!NoReq EXCEPT !.s = i, !.g = k, !.snap = S!Others(i, k)] OBVIOUS
<1>4. /\ i \in Nat /\ k \in Nat /\ S!Others(i, k) \subseteq S!Ids /\ i \notin S!Others(i, k)
      /\ \A j \in S!Others(i, k) : Was(j)
    BY <1>1 DEF S!Ids, S!Gens, S!Others, S!Live, Was
<1>5. w \in SessionWorks /\ w.s = i /\ w.snap = S!Others(i, k)
    BY <1>3, <1>4, NoReqTyped DEF SessionWorks
<1>6. Moves(c, "change", w) BY <1>1, <1>3 DEF S!Begin, Moves
<1>7. reqPc'[c] = "change" /\ req'[c] = w BY <1>6 DEF Moves, SessionsInv, SessionsTyped
<1>8. RequestKnows(c)' BY <1>2, <1>4, <1>5, <1>7 DEF RequestKnows, Was
<1> QED BY <1>2, <1>5, <1>6, <1>8, StepThatReads, "change" \notin {"trim", "login_commit"}

-----------------------------------------------------------------------------
\* The steps that write to Redis.  A request that does not move on from a login keeps the
\* rest when it knows what it needs and Redis is told nothing new of a live session.
LEMMA StepThatCaches ==
    ASSUME MaxSessions \in Nat, SessionLimit \in Nat \ {0}, SessionsInv, UNCHANGED session,
           NEW c \in Clients, NEW at, NEW w \in SessionWorks, Moves(c, at, w),
           InLogin(c)' => InLogin(c) /\ w = req[c],
           RequestKnows(c)', CacheKnows', PayloadTyped'
    PROVE  SessionsInv'
<1>1. Quietly BY SessionsStay
<1>2. session' \in [S!Ids -> SessionRows] BY DEF SessionsInv, SessionsTyped
<1> QED BY <1>1, <1>2, StepOfARequest

LEMMA PayloadStays == ASSUME SessionsInv, UNCHANGED payload PROVE PayloadTyped'
BY DEF PayloadTyped, SessionsInv, SessionsTyped

\* An entry that is written, or not when Redis is away.
Put(i, k, x) == payload' = payload \/ payload' = [payload EXCEPT ![i][k] = x]
LEMMA PayloadWritten ==
    ASSUME SessionsInv, NEW i, NEW k, NEW x, Put(i, k, x)
    PROVE  /\ PayloadTyped'
           /\ \A j \in S!Ids, n \in S!Gens :
                payload'[j][n] = payload[j][n] \/ (payload'[j][n] = x /\ i = j)
<1>1. payload' = payload \/ payload' = [payload EXCEPT ![i][k] = x] BY DEF Put
<1>2. PayloadTyped BY DEF PayloadTyped, SessionsInv, SessionsTyped
<1>3. CASE payload' = payload BY <1>2, <1>3 DEF PayloadTyped
<1>4. CASE payload' = [payload EXCEPT ![i][k] = x]
  <2>1. \A j \in S!Ids : payload'[j] = IF i = j THEN [payload[j] EXCEPT ![k] = x] ELSE payload[j]
      BY <1>2, <1>4 DEF PayloadTyped
  <2>2. \A j \in S!Ids : payload'[j] = [n \in S!Gens |-> payload'[j][n]]
      BY <1>2, <2>1 DEF PayloadTyped
  <2>3. payload' = [j \in S!Ids |-> payload'[j]] BY <1>2, <1>4 DEF PayloadTyped
  <2>4. \A j \in S!Ids, n \in S!Gens :
            payload'[j][n] = payload[j][n] \/ (payload'[j][n] = x /\ i = j)
      BY <1>2, <2>1 DEF PayloadTyped
  <2> QED BY <2>2, <2>3, <2>4 DEF PayloadTyped
<1> QED BY <1>1, <1>3, <1>4

LEMMA TrimKeeps ==
    ASSUME MaxSessions \in Nat, SessionLimit \in Nat \ {0}, SessionsInv, NEW c \in Clients,
           S!TrimSessions(c)
    PROVE  SessionsInv'
<1>1. PICK w : w = req[c] OBVIOUS
<1>2. w \in SessionWorks BY <1>1 DEF SessionsInv, SessionsTyped
<1>3. /\ Moves(c, "login_commit", w)
      /\ UNCHANGED <<session, payload, markers, denied, ended, early>> /\ InLogin(c)
    BY <1>1 DEF S!TrimSessions, S!At, S!Goto, Moves, S!dbVars, InLogin, SessionsInv, SessionsTyped
<1>4. reqPc'[c] = "login_commit" BY <1>3 DEF Moves, SessionsInv, SessionsTyped
<1>5. RequestKnows(c)' BY <1>4 DEF RequestKnows
<1>6. CacheKnows' BY <1>3, SessionsStay, CacheStays DEF SessionsInv, Quietly
<1> QED BY <1>1, <1>2, <1>3, <1>5, <1>6, PayloadStays, StepThatCaches
LEMMA DropKeeps ==
    ASSUME MaxSessions \in Nat, SessionLimit \in Nat \ {0}, SessionsInv, NEW c \in Clients,
           S!DropOldTokens(c)
    PROVE  SessionsInv'
<1>1. PICK w : w = req[c] OBVIOUS
<1>2. w \in SessionWorks BY <1>1 DEF SessionsInv, SessionsTyped
<1>3. Moves(c, "reload", w) /\ UNCHANGED <<session, payload, markers, ended, early>>
    BY <1>1 DEF S!DropOldTokens, S!Goto, Moves, S!dbVars, SessionsInv, SessionsTyped
<1>4. reqPc'[c] = "reload" /\ req'[c] = w BY <1>3 DEF Moves, SessionsInv, SessionsTyped
<1>5. w.s \in S!Ids /\ Was(w.s)
    BY <1>1 DEF S!DropOldTokens, S!At, SessionsInv, RequestsKnow, RequestKnows
<1>6. RequestKnows(c)' BY <1>3, <1>4, <1>5 DEF RequestKnows, Was
<1>7. \A i, k : <<"access", i, k>> \in denied' => <<"access", i, k>> \in denied
    BY DEF S!DropOldTokens, S!Written
<1>8. CacheKnows' BY <1>3, <1>7 DEF SessionsInv, CacheKnows, Over
<1>9. ~InLogin(c)' BY <1>4 DEF InLogin
<1> QED BY <1>2, <1>3, <1>6, <1>8, <1>9, PayloadStays, StepThatCaches

LEMMA StoreKeeps ==
    ASSUME MaxSessions \in Nat, SessionLimit \in Nat \ {0}, SessionsInv, NEW c \in Clients,
           S!StoreNewTokens(c)
    PROVE  SessionsInv'
<1>1. PICK i, x, k : i = req[c].s /\ x = req[c].seen.state /\ k = req[c].g + 1 OBVIOUS
<1>2. /\ payload' = S!Written(payload, [payload EXCEPT ![i][k] = x]) /\ S!Stop(c)
      /\ UNCHANGED <<session, markers, denied, ended, early>>
    BY <1>1 DEF S!StoreNewTokens, S!dbVars
<1>3. i \in S!Ids /\ (x # "live" => Over(i))
    BY <1>1 DEF S!StoreNewTokens, S!At, SessionsInv, RequestsKnow, RequestKnows
<1>4. /\ PayloadTyped'
      /\ \A j \in S!Ids, n \in S!Gens :
            payload'[j][n] = payload[j][n] \/ (payload'[j][n] = x /\ i = j)
  <2>1. Put(i, k, x) BY <1>2 DEF S!Written, Put
  <2> QED BY <2>1, PayloadWritten
<1>5. CacheKnows' BY <1>2, <1>3, <1>4 DEF SessionsInv, CacheKnows, Over
<1>6. Moves(c, "idle", S!NoReq) /\ ~InLogin(c)' /\ RequestKnows(c)'
    BY <1>2, StopStep DEF SessionsInv
<1> QED BY <1>2, <1>4, <1>5, <1>6, NoReqTyped, StepThatCaches

LEMMA PublishKeeps ==
    ASSUME MaxSessions \in Nat, SessionLimit \in Nat \ {0}, SessionsInv, NEW c \in Clients,
           S!PublishRevocation(c)
    PROVE  SessionsInv'
<1>1. PICK X : X = req[c].snap OBVIOUS
<1>2. /\ markers' = S!Written(markers, markers \union X)
      /\ ended' = ended \union (X \intersect markers')
      /\ UNCHANGED <<session, payload, denied, early>>
    BY <1>1 DEF S!PublishRevocation, S!dbVars
<1>3. X \subseteq S!Ids /\ \A i \in X : Over(i)
    BY <1>1 DEF S!PublishRevocation, S!At, SessionsInv, SessionsTyped, SessionWorks,
                RequestsKnow, RequestKnows
<1>4. markers \subseteq markers' /\ markers' \subseteq markers \union X BY <1>2 DEF S!Written
<1>5. CacheKnows' BY <1>2, <1>3, <1>4 DEF SessionsInv, CacheKnows, Over
<1>6. CASE S!Stop(c)
  <2>1. Moves(c, "idle", S!NoReq) /\ ~InLogin(c)' /\ RequestKnows(c)'
      BY <1>6, StopStep DEF SessionsInv
  <2> QED BY <1>2, <1>5, <2>1, NoReqTyped, PayloadStays, StepThatCaches
<1>7. CASE req[c].flag \in {"access", "refresh"} /\ S!Goto(c, "forget") /\ UNCHANGED req
  <2>1. PICK w : w = req[c] OBVIOUS
  <2>2. w \in SessionWorks BY <2>1 DEF SessionsInv, SessionsTyped
  <2>3. Moves(c, "forget", w) BY <1>7, <2>1 DEF S!Goto, Moves, SessionsInv, SessionsTyped
  <2>4. reqPc'[c] = "forget" /\ req'[c] = w BY <2>3 DEF Moves, SessionsInv, SessionsTyped
  <2>5. w.s \in S!Ids /\ Over(w.s)
      BY <1>7, <2>1 DEF S!PublishRevocation, S!At, SessionsInv, RequestsKnow, RequestKnows
  <2>6. RequestKnows(c)' BY <1>2, <2>4, <2>5 DEF RequestKnows, Over
  <2>7. ~InLogin(c)' BY <2>4 DEF InLogin
  <2> QED BY <1>2, <1>5, <2>2, <2>3, <2>6, <2>7, PayloadStays, StepThatCaches
<1> QED BY <1>6, <1>7 DEF S!PublishRevocation

LEMMA ForgetKeeps ==
    ASSUME MaxSessions \in Nat, SessionLimit \in Nat \ {0}, SessionsInv, NEW c \in Clients,
           S!ForgetTokens(c)
    PROVE  SessionsInv'
<1>1. PICK i, k, kind : i = req[c].s /\ k = req[c].g /\ kind = req[c].flag OBVIOUS
<1>2. /\ payload' = IF kind = "access" THEN S!Written(payload, [payload EXCEPT ![i][k] = "none"])
                    ELSE payload
      /\ denied' = S!Written(denied, denied \union {<<kind, i, k>>})
      /\ S!Stop(c) /\ UNCHANGED <<session, markers, ended, early>>
    BY <1>1 DEF S!ForgetTokens, S!dbVars
<1>3. i \in S!Ids /\ Over(i)
    BY <1>1 DEF S!ForgetTokens, S!At, SessionsInv, RequestsKnow, RequestKnows
<1>4. /\ PayloadTyped'
      /\ \A j \in S!Ids, n \in S!Gens :
            payload'[j][n] = payload[j][n] \/ (payload'[j][n] = "none" /\ i = j)
  <2>1. PICK x : x = "none" OBVIOUS
  <2>2. Put(i, k, x) BY <1>2, <2>1 DEF S!Written, Put
  <2>3. /\ PayloadTyped'
        /\ \A j \in S!Ids, n \in S!Gens :
              payload'[j][n] = payload[j][n] \/ (payload'[j][n] = x /\ i = j)
      BY <2>2, PayloadWritten
  <2> QED BY <2>1, <2>3
<1>5. \A j \in S!Ids, n \in S!Gens : <<"access", j, n>> \in denied' =>
            <<"access", j, n>> \in denied \/ j = i
    BY <1>2 DEF S!Written
<1>6. CacheKnows' BY <1>2, <1>3, <1>4, <1>5 DEF SessionsInv, CacheKnows, Over
<1>7. Moves(c, "idle", S!NoReq) /\ ~InLogin(c)' /\ RequestKnows(c)'
    BY <1>2, StopStep DEF SessionsInv
<1> QED BY <1>2, <1>4, <1>6, <1>7, NoReqTyped, StepThatCaches

LEMMA MarkOneKeeps ==
    ASSUME MaxSessions \in Nat, SessionLimit \in Nat \ {0}, SessionsInv, NEW c \in Clients,
           S!MarkOne(c)
    PROVE  SessionsInv'
<1>1. PICK X : X = {req[c].s} OBVIOUS
<1>2. /\ markers' = S!Written(markers, markers \union X)
      /\ ended' = ended \union (X \intersect markers') /\ S!Stop(c)
      /\ UNCHANGED <<session, payload, denied, early>>
    BY <1>1 DEF S!MarkOne, S!dbVars
<1>3. X \subseteq S!Ids /\ \A i \in X : Over(i)
    BY <1>1 DEF S!MarkOne, S!At, SessionsInv, RequestsKnow, RequestKnows
<1>4. markers \subseteq markers' /\ markers' \subseteq markers \union X BY <1>2 DEF S!Written
<1>5. CacheKnows' BY <1>2, <1>3, <1>4 DEF SessionsInv, CacheKnows, Over
<1>6. Moves(c, "idle", S!NoReq) /\ ~InLogin(c)' /\ RequestKnows(c)'
    BY <1>2, StopStep DEF SessionsInv
<1> QED BY <1>2, <1>5, <1>6, NoReqTyped, PayloadStays, StepThatCaches

LEMMA RevokeOthersKeeps ==
    ASSUME MaxSessions \in Nat, SessionLimit \in Nat \ {0}, SessionsInv, NEW c \in Clients,
           S!RevokeOthers(c)
    PROVE  SessionsInv'
<1>1. PICK X, Y : X = req[c].snap /\ Y = S!Others(req[c].s, req[c].g) OBVIOUS
<1>2. /\ markers' = S!Written(markers, markers \union X)
      /\ early' = early \union (X \intersect markers')
      /\ UNCHANGED <<session, payload, denied, ended>>
    BY <1>1 DEF S!RevokeOthers, S!dbVars
<1>3. PICK w : w = [req[c] EXCEPT !.rows = Y] OBVIOUS
<1>4. Moves(c, "change_commit", w) BY <1>1, <1>3 DEF S!RevokeOthers, S!Goto, Moves
<1>5. X \subseteq S!Ids /\ req[c].s \notin X /\ \A i \in X : Was(i)
    BY <1>1 DEF S!RevokeOthers, S!At, SessionsInv, SessionsTyped, SessionWorks,
                RequestsKnow, RequestKnows
<1>6. Y \subseteq S!Ids /\ X \intersect S!Live \subseteq Y
    BY <1>1, <1>5 DEF S!Others, S!Live
<1>7. req[c] \in SessionWorks BY DEF SessionsInv, SessionsTyped
<1>8. w \in SessionWorks /\ w.snap = X /\ w.rows = Y
    BY <1>1, <1>3, <1>6, <1>7 DEF SessionWorks
<1>9. reqPc'[c] = "change_commit" /\ req'[c] = w
    BY <1>4 DEF Moves, SessionsInv, SessionsTyped
<1>10. S!Live' = S!Live BY <1>2 DEF S!Live
<1>11. RequestKnows(c)' BY <1>2, <1>5, <1>6, <1>8, <1>9, <1>10 DEF RequestKnows, Was
<1>12. markers \subseteq markers' /\ markers' \subseteq markers \union early' BY <1>2 DEF S!Written
<1>13. CacheKnows' BY <1>2, <1>12 DEF SessionsInv, CacheKnows, Over
<1>14. ~InLogin(c)' BY <1>9 DEF InLogin
<1> QED BY <1>2, <1>4, <1>8, <1>11, <1>13, <1>14, PayloadStays, StepThatCaches

-----------------------------------------------------------------------------
\* The steps that write the Y, and open or commit no session.
LEMMA StepThatRevokes ==
    ASSUME MaxSessions \in Nat, SessionLimit \in Nat \ {0}, SessionsInv, NEW X,
           session' = S!Revoked(X), NEW c \in Clients, NEW at, NEW w \in SessionWorks,
           Moves(c, at, w), at \notin {"trim", "login_commit"}, RequestKnows(c)',
           UNCHANGED <<payload, markers, denied, ended, early>>
    PROVE  SessionsInv'
<1>1. Quietly /\ session' \in [S!Ids -> SessionRows] BY RevokedAge DEF SessionsInv
<1>2. CacheKnows' BY <1>1, CacheStays DEF SessionsInv, Quietly
<1>3. ~InLogin(c)' BY DEF InLogin, Moves, SessionsInv, SessionsTyped
<1> QED BY <1>1, <1>2, <1>3, PayloadStays, StepOfARequest

LEMMA RotateKeeps ==
    ASSUME MaxSessions \in Nat, SessionLimit \in Nat \ {0}, SessionsInv, NEW c \in Clients,
           S!Rotate(c)
    PROVE  SessionsInv'
<1>1. PICK i : i = req[c].s OBVIOUS
<1>2. /\ session' = [session EXCEPT ![i].gen = @ + 1]
      /\ UNCHANGED <<payload, markers, denied, ended, early>>
    BY <1>1 DEF S!Rotate, S!cacheVars
<1>3. i \in S!Ids /\ Was(i)
    BY <1>1 DEF S!Rotate, S!At, SessionsInv, RequestsKnow, RequestKnows
<1>4. \A j \in S!Ids : session[j] \in SessionRows BY DEF SessionsInv, SessionsTyped
<1>5. \A j \in S!Ids : /\ session'[j] \in SessionRows
                       /\ session'[j].state = session[j].state
  <2>1. \A j \in S!Ids : session'[j] = IF j = i THEN [session[j] EXCEPT !.gen = @ + 1]
                                       ELSE session[j]
      BY <1>2 DEF SessionsInv, SessionsTyped
  <2>2. \A j \in S!Ids : /\ [session[j] EXCEPT !.gen = @ + 1] \in SessionRows
                         /\ [session[j] EXCEPT !.gen = @ + 1].state = session[j].state
      BY <1>4 DEF SessionRows
  <2> QED BY <1>4, <2>1, <2>2
<1>6. session' = [j \in S!Ids |-> session'[j]] BY <1>2 DEF SessionsInv, SessionsTyped
<1>7. session' \in [S!Ids -> SessionRows] BY <1>5, <1>6
<1>8. Quietly BY <1>5 DEF Quietly, Aging, Was, Over, S!Live
<1>9. PICK w : w = req[c] OBVIOUS
<1>10. w \in SessionWorks BY <1>9 DEF SessionsInv, SessionsTyped
<1>11. Moves(c, "uncache", w) BY <1>9 DEF S!Rotate, S!Goto, Moves, SessionsInv, SessionsTyped
<1>12. reqPc'[c] = "uncache" /\ req'[c] = w BY <1>11 DEF Moves, SessionsInv, SessionsTyped
<1>13. RequestKnows(c)' BY <1>1, <1>3, <1>5, <1>9, <1>12 DEF RequestKnows, Was
<1>14. CacheKnows' BY <1>2, <1>8, CacheStays DEF SessionsInv, Quietly
<1>15. ~InLogin(c)' BY <1>12 DEF InLogin
<1> QED BY <1>2, <1>7, <1>8, <1>10, <1>11, <1>13, <1>14, <1>15, PayloadStays, StepOfARequest

LEMMA RevokeFamilyKeeps ==
    ASSUME MaxSessions \in Nat, SessionLimit \in Nat \ {0}, SessionsInv, NEW c \in Clients,
           S!RevokeFamily(c)
    PROVE  SessionsInv'
<1>1. PICK w : w = req[c] OBVIOUS
<1>2. w \in SessionWorks BY <1>1 DEF SessionsInv, SessionsTyped
<1>3. /\ Moves(c, "publish", w) /\ session' = S!Revoked({w.s})
      /\ UNCHANGED <<payload, markers, denied, ended, early>>
    BY <1>1 DEF S!RevokeFamily, S!Goto, Moves, S!cacheVars, SessionsInv, SessionsTyped
<1>4. w.s \in S!Ids /\ Was(w.s) /\ w.snap \subseteq {w.s}
    BY <1>1 DEF S!RevokeFamily, S!At, SessionsInv, RequestsKnow, RequestKnows
<1>5. Over(w.s)' BY <1>3, <1>4, RevokedAge DEF SessionsInv
<1>6. reqPc'[c] = "publish" /\ req'[c] = w BY <1>3 DEF Moves, SessionsInv, SessionsTyped
<1>7. RequestKnows(c)' BY <1>4, <1>5, <1>6 DEF RequestKnows, Over
<1> QED BY <1>2, <1>3, <1>7, StepThatRevokes, "publish" \notin {"trim", "login_commit"}

LEMMA RevokeOneKeeps ==
    ASSUME MaxSessions \in Nat, SessionLimit \in Nat \ {0}, SessionsInv, NEW c \in Clients,
           S!RevokeOne(c)
    PROVE  SessionsInv'
<1>1. PICK w : w = req[c] OBVIOUS
<1>2. w \in SessionWorks BY <1>1 DEF SessionsInv, SessionsTyped
<1>3. /\ Moves(c, "mark_one", w) /\ session' = S!Revoked({w.s})
      /\ UNCHANGED <<payload, markers, denied, ended, early>>
    BY <1>1 DEF S!RevokeOne, S!Goto, Moves, S!cacheVars, SessionsInv, SessionsTyped
<1>4. w.s \in S!Ids /\ Was(w.s)
    BY <1>1 DEF S!RevokeOne, S!At, SessionsInv, RequestsKnow, RequestKnows
<1>5. Over(w.s)' BY <1>3, <1>4, RevokedAge DEF SessionsInv
<1>6. reqPc'[c] = "mark_one" /\ req'[c] = w BY <1>3 DEF Moves, SessionsInv, SessionsTyped
<1>7. RequestKnows(c)' BY <1>4, <1>5, <1>6 DEF RequestKnows, Over
<1> QED BY <1>2, <1>3, <1>7, StepThatRevokes, "mark_one" \notin {"trim", "login_commit"}

LEMMA CommitResetKeeps ==
    ASSUME MaxSessions \in Nat, SessionLimit \in Nat \ {0}, SessionsInv, NEW c \in Clients,
           S!CommitReset(c)
    PROVE  SessionsInv'
<1>1. PICK w : w = req[c] OBVIOUS
<1>2. w \in SessionWorks BY <1>1 DEF SessionsInv, SessionsTyped
<1>3. /\ Moves(c, "publish", w) /\ session' = S!Revoked(S!Ids)
      /\ UNCHANGED <<payload, markers, denied, ended, early>>
    BY <1>1 DEF S!CommitReset, S!Goto, Moves, S!cacheVars, SessionsInv, SessionsTyped
<1>4. w.snap \subseteq S!Ids /\ w.flag = "" /\ \A i \in w.snap : Was(i)
    BY <1>1, <1>2 DEF S!CommitReset, S!At, SessionsInv, RequestsKnow, RequestKnows, SessionWorks
<1>5. \A i \in w.snap : Over(i)' BY <1>3, <1>4, RevokedAge DEF SessionsInv
<1>6. reqPc'[c] = "publish" /\ req'[c] = w BY <1>3 DEF Moves, SessionsInv, SessionsTyped
<1>7. RequestKnows(c)' BY <1>4, <1>5, <1>6 DEF RequestKnows, Over
<1> QED BY <1>2, <1>3, <1>7, StepThatRevokes, "publish" \notin {"trim", "login_commit"}

LEMMA CommitPasswordKeeps ==
    ASSUME MaxSessions \in Nat, SessionLimit \in Nat \ {0}, SessionsInv, NEW c \in Clients,
           S!CommitPassword(c)
    PROVE  SessionsInv'
<1>1. PICK X, Y : X = req[c].snap /\ Y = req[c].rows OBVIOUS
<1>2. /\ session' = S!Revoked(Y) /\ ended' = ended \union (X \intersect markers)
      /\ S!Stop(c) /\ UNCHANGED <<payload, markers, denied, early>>
    BY <1>1 DEF S!CommitPassword, S!cacheVars
<1>3. /\ X \subseteq S!Ids /\ \A i \in X : Was(i) /\ (i \in S!Live => i \in Y)
    BY <1>1 DEF S!CommitPassword, S!At, SessionsInv, SessionsTyped, SessionWorks,
                RequestsKnow, RequestKnows
<1>4. /\ Quietly /\ session' \in [S!Ids -> SessionRows]
      /\ \A i \in S!Ids : i \in Y => i \notin S!Live'
    BY <1>2, RevokedAge DEF SessionsInv
<1>5. \A i \in X : Over(i)'
    BY <1>3, <1>4 DEF Quietly, Aging, Was, Over, S!Live
<1>6. CacheKnows' BY <1>2, <1>3, <1>4, <1>5 DEF SessionsInv, CacheKnows, Quietly, Aging
<1>7. Moves(c, "idle", S!NoReq) /\ ~InLogin(c)' /\ RequestKnows(c)'
    BY <1>2, StopStep DEF SessionsInv
<1> QED BY <1>2, <1>4, <1>6, <1>7, NoReqTyped, PayloadStays, StepOfARequest

LEMMA AdministratorResetKeeps ==
    ASSUME MaxSessions \in Nat, SessionLimit \in Nat \ {0}, SessionsInv, NEW c \in Clients,
           S!ResetUserPassword(c)
    PROVE  SessionsInv'
<1>1. session' = [i \in S!Ids |-> IF session[i].state \in {"live", "revoked"}
                                  THEN [session[i] EXCEPT !.state = "gone"] ELSE session[i]]
    BY DEF S!ResetUserPassword
<1>2. UNCHANGED <<reqPc, req, payload, markers, denied, ended, early>>
    BY DEF S!ResetUserPassword, S!cacheVars
<1>3. \A i \in S!Ids : session[i] \in SessionRows BY DEF SessionsInv, SessionsTyped
<1>4. \A i \in S!Ids :
        /\ session'[i] \in SessionRows
        /\ session'[i].state = IF session[i].state \in {"live", "revoked"}
                               THEN "gone" ELSE session[i].state
    BY <1>1, <1>3 DEF SessionRows, SessionStates
<1>5. session' \in [S!Ids -> SessionRows]
  <2>1. session' = [i \in S!Ids |-> session'[i]] BY <1>1
  <2> QED BY <1>4, <2>1
<1>6. Quietly BY <1>4 DEF Quietly, Aging, Was, Over, S!Live
<1> QED BY <1>2, <1>5, <1>6, StepOfNoRequest
-----------------------------------------------------------------------------
\* The login that opens a session: it has the user's row, and every other is older.
LEMMA IssueKeeps ==
    ASSUME MaxSessions \in Nat, SessionLimit \in Nat \ {0}, SessionsInv, NEW c \in Clients,
           S!IssueSession(c)
    PROVE  SessionsInv'
<1> USE DEF SessionsInv
<1>1. PICK i \in S!Ids :
        /\ session[i].state = "none" /\ \A t \in 1 .. i - 1 : session[t].state # "none"
        /\ LET open == S!Live \union {i}
               above == {t \in open : S!Cardinality({u \in open : u > t}) >= SessionLimit}
           IN  /\ req' = [req EXCEPT ![c].s = i, ![c].rows = above]
               /\ S!Goto(c, IF above = {} THEN "login_commit" ELSE "trim")
        /\ session' = [session EXCEPT ![i].state = "open"]
        /\ payload' = S!Written(payload, [payload EXCEPT ![i][1] = "live"])
    BY DEF S!IssueSession
<1>2. PICK above : above = {t \in S!Live \union {i} :
                        S!Cardinality({u \in S!Live \union {i} : u > t}) >= SessionLimit}
    OBVIOUS
<1>3. PICK at \in {"trim", "login_commit"} : at = IF above = {} THEN "login_commit" ELSE "trim"
    OBVIOUS
<1>4. /\ session[i].state = "none" /\ \A t \in 1 .. i - 1 : session[t].state # "none"
      /\ above = {t \in S!Live \union {i} :
                      Cardinality({u \in S!Live \union {i} : u > t}) >= SessionLimit}
      /\ req' = [req EXCEPT ![c].s = i, ![c].rows = above] /\ S!Goto(c, at)
      /\ session' = [session EXCEPT ![i].state = "open"]
      /\ payload' = S!Written(payload, [payload EXCEPT ![i][1] = "live"])
  <2>1. above = {t \in S!Live \union {i} :
                      Cardinality({u \in S!Live \union {i} : u > t}) >= SessionLimit}
      BY <1>2, SameCardinality
  <2>2. req' = [req EXCEPT ![c].s = i, ![c].rows = above] /\ S!Goto(c, at)
      BY <1>1, <1>2, <1>3
  <2>3. /\ session[i].state = "none" /\ \A t \in 1 .. i - 1 : session[t].state # "none"
        /\ session' = [session EXCEPT ![i].state = "open"]
        /\ payload' = S!Written(payload, [payload EXCEPT ![i][1] = "live"])
      BY <1>1
  <2> QED BY <2>1, <2>2, <2>3
<1>5. /\ UNCHANGED <<markers, denied, ended, early>>
      /\ \A o \in Clients : ~InLogin(o)
    BY DEF S!IssueSession, S!UserRowLocked, InLogin
<1>6. PICK w : w = [req[c] EXCEPT !.s = i, !.rows = above] OBVIOUS
<1>7. req[c] \in SessionWorks /\ i \in Nat /\ above \subseteq S!Ids
    BY <1>4 DEF SessionsTyped, S!Ids, S!Live
<1>8. w \in SessionWorks /\ w.s = i /\ w.rows = above BY <1>6, <1>7 DEF SessionWorks
<1>9. Moves(c, at, w) BY <1>4, <1>6 DEF S!Goto, Moves
<1>10. /\ reqPc' = [o \in Clients |-> reqPc'[o]] /\ req' \in [Clients -> SessionWorks]
      /\ reqPc'[c] = at /\ req'[c] = w
      /\ \A o \in Clients \ {c} : reqPc'[o] = reqPc[o] /\ req'[o] = req[o]
    BY <1>8, <1>9 DEF Moves, SessionsTyped
<1>11. /\ session' \in [S!Ids -> SessionRows] /\ session'[i].state = "open"
      /\ \A j \in S!Ids \ {i} : session'[j] = session[j]
  <2>1. [session[i] EXCEPT !.state = "open"] \in SessionRows
        /\ [session[i] EXCEPT !.state = "open"].state = "open"
      BY DEF SessionsTyped, SessionRows, SessionStates
  <2> QED BY <1>4, <2>1 DEF SessionsTyped
<1>12. Aging /\ S!Live' = S!Live BY <1>4, <1>11 DEF Aging, Was, Over, S!Live
<1>13. PayloadTyped' /\ \A j \in S!Ids, n \in S!Gens :
            payload'[j][n] = payload[j][n] \/ (payload'[j][n] = "live" /\ i = j)
  <2>1. PICK k, x : k = 1 /\ x = "live" OBVIOUS
  <2>2. Put(i, k, x) BY <1>4, <2>1 DEF S!Written, Put
  <2>3. /\ PayloadTyped'
        /\ \A j \in S!Ids, n \in S!Gens :
              payload'[j][n] = payload[j][n] \/ (payload'[j][n] = x /\ i = j)
      BY <2>2, PayloadWritten
  <2> QED BY <2>1, <2>3
<1>14. SessionsTyped' BY <1>10, <1>11, <1>13 DEF SessionsTyped, PayloadTyped
<1>15. RequestsKnow'
  <2>1. \A o \in Clients \ {c} : RequestKnows(o)'
      BY <1>10, <1>12, OtherKnows DEF RequestsKnow
  <2>2. RequestKnows(c)' BY <1>4, <1>10 DEF RequestKnows
  <2> QED BY <2>1, <2>2 DEF RequestsKnow
<1>16. CacheKnows' BY <1>5, <1>12, <1>13 DEF CacheKnows, Aging
<1>17. \A o \in Clients : InLogin(o)' => o = c BY <1>5, <1>10 DEF InLogin
<1>18. OneLogin' BY <1>17 DEF OneLogin
<1>19. LoginFits(c)'
  <2> DEFINE T == S!Live \union {i}
  <2>1. T \in SUBSET S!Ids /\ T \in SUBSET Nat BY <1>4 DEF S!Live, S!Ids
  <2>2. IsFiniteSet(T) BY <2>1, SomeLive
  <2>3. {u \in T : u > i} = {}
    <3> SUFFICES ASSUME NEW u \in S!Live, u > i PROVE FALSE BY <1>7
    <3>1. u \in S!Ids /\ session[u].state = "live" BY DEF S!Live
    <3>2. i < u BY <1>7, <3>1 DEF S!Ids
    <3>3. session[u].state = "none" BY <1>4, <3>1, <3>2 DEF LoginInv, IdsInOrder
    <3> QED BY <3>1, <3>3
  <2>4. i \notin above
    <3>1. Cardinality({u \in T : u > i}) = 0 BY <2>3, FS_EmptySet, Zenon
    <3>2. ~(Cardinality({u \in T : u > i}) >= SessionLimit) BY <3>1
    <3> QED BY <1>4, <3>2
  <2>5. (S!Live \ above) \union {i}
            = {t \in T : ~(Cardinality({u \in T : u > t}) >= SessionLimit)}
      BY <1>4, <2>4
  <2>6. Cardinality({t \in T : ~(Cardinality({u \in T : u > t}) >= SessionLimit)})
            <= SessionLimit
      BY <2>1, <2>2, NewestAreFew
  <2>7. Cardinality((S!Live \ above) \union {i}) <= SessionLimit BY <2>5, <2>6, Zenon
  <2>8. Cardinality((S!Live' \ above) \union {i}) <= SessionLimit BY <1>12, <2>7
  <2> QED BY <1>8, <1>10, <1>11, <2>8 DEF LoginFits
<1>20. LoginsFit' BY <1>17, <1>19 DEF LoginsFit
<1>21. IdsInOrder'
  <2> SUFFICES ASSUME NEW j \in S!Ids, NEW n \in S!Ids, session'[j].state = "none", j < n
               PROVE  session'[n].state = "none"
      BY DEF IdsInOrder
  <2>1. j # i /\ session[j].state = "none" BY <1>11
  <2>2. session[n].state = "none" BY <2>1 DEF LoginInv, IdsInOrder
  <2>3. n # i
    <3>1. ASSUME n = i PROVE FALSE
      <4>1. j \in 1 .. i - 1 BY <3>1, <1>7 DEF S!Ids
      <4> QED BY <1>4, <2>1, <4>1
    <3> QED BY <3>1
  <2> QED BY <1>11, <2>2, <2>3
<1>22. FewLive' BY <1>12 DEF LoginInv, FewLive
<1> QED BY <1>14, <1>15, <1>16, <1>18, <1>20, <1>21, <1>22 DEF LoginInv

\* When the one login ends there is none, and what it leaves is what was counted.
LEMMA LoginEnds ==
    ASSUME MaxSessions \in Nat, SessionLimit \in Nat \ {0}, SessionsInv, NEW c \in Clients,
           InLogin(c), S!Stop(c), UNCHANGED <<payload, markers, denied, ended, early>>,
           session' \in [S!Ids -> SessionRows], Aging, FewLive',
           \A j \in S!Ids : session'[j].state = "none" <=> session[j].state = "none"
    PROVE  SessionsInv'
<1> USE DEF SessionsInv
<1>1. /\ reqPc' = [o \in Clients |-> reqPc'[o]] /\ req' \in [Clients -> SessionWorks]
      /\ reqPc'[c] = "idle"
      /\ \A o \in Clients \ {c} : reqPc'[o] = reqPc[o] /\ req'[o] = req[o]
  <2>1. Moves(c, "idle", S!NoReq) BY StopStep
  <2> QED BY <2>1, NoReqTyped DEF Moves, SessionsTyped
<1>2. SessionsTyped' BY <1>1 DEF SessionsTyped
<1>3. RequestsKnow'
  <2>1. \A o \in Clients \ {c} : RequestKnows(o)'
      BY <1>1, OtherKnows DEF RequestsKnow
  <2>2. RequestKnows(c)' BY StopStep
  <2> QED BY <2>1, <2>2 DEF RequestsKnow
<1>4. CacheKnows' BY CacheStays
<1>5. \A o \in Clients : ~InLogin(o)' BY <1>1 DEF LoginInv, OneLogin, InLogin
<1>6. OneLogin' /\ LoginsFit' BY <1>5 DEF OneLogin, LoginsFit
<1>7. IdsInOrder' BY DEF LoginInv, IdsInOrder
<1> QED BY <1>2, <1>3, <1>4, <1>6, <1>7 DEF LoginInv

LEMMA CommitLoginKeeps ==
    ASSUME MaxSessions \in Nat, SessionLimit \in Nat \ {0}, SessionsInv, NEW c \in Clients,
           S!CommitLogin(c)
    PROVE  SessionsInv'
<1>1. PICK i, Y : i = req[c].s /\ Y = req[c].rows OBVIOUS
<1>2. /\ session' = [S!Revoked(Y) EXCEPT ![i].state = "live"]
      /\ S!Stop(c) /\ InLogin(c) /\ UNCHANGED <<payload, markers, denied, ended, early>>
    BY <1>1 DEF S!CommitLogin, S!At, S!cacheVars, InLogin
<1>3. /\ i \in S!Ids /\ session[i].state = "open"
      /\ Cardinality((S!Live \ Y) \union {i}) <= SessionLimit
    BY <1>1, <1>2 DEF SessionsInv, LoginInv, LoginsFit, LoginFits
<1>4. \A j \in S!Ids : session[j] \in SessionRows BY DEF SessionsInv, SessionsTyped
<1>5. \A j \in S!Ids : session'[j] =
        IF j = i THEN [session[j] EXCEPT !.state = "live"]
        ELSE IF j \in Y /\ session[j].state = "live"
             THEN [session[j] EXCEPT !.state = "revoked"] ELSE session[j]
    BY <1>2, <1>3 DEF S!Revoked
<1>6. \A j \in S!Ids :
        /\ session'[j] \in SessionRows
        /\ session'[j].state = IF j = i THEN "live"
                               ELSE IF j \in Y /\ session[j].state = "live"
                                    THEN "revoked" ELSE session[j].state
    BY <1>4, <1>5 DEF SessionRows, SessionStates
<1>7. session' \in [S!Ids -> SessionRows]
  <2>1. session' = [j \in S!Ids |-> session'[j]] BY <1>2 DEF S!Revoked
  <2> QED BY <1>6, <2>1
<1>8. S!Live' = (S!Live \ Y) \union {i} BY <1>3, <1>6 DEF S!Live
<1>9. FewLive' BY <1>3, <1>8 DEF FewLive
<1>10. Aging BY <1>3, <1>6 DEF Aging, Was, Over, S!Live
<1>11. \A j \in S!Ids : session'[j].state = "none" <=> session[j].state = "none"
    BY <1>3, <1>6
<1> QED BY <1>2, <1>7, <1>9, <1>10, <1>11, LoginEnds

LEMMA FailKeeps ==
    ASSUME MaxSessions \in Nat, SessionLimit \in Nat \ {0}, SessionsInv, NEW c \in Clients,
           S!Fail(c)
    PROVE  SessionsInv'
<1>1. S!Stop(c) /\ UNCHANGED <<payload, markers, denied, ended, early>>
    BY DEF S!Fail, S!cacheVars
<1>2. CASE ~InLogin(c)
  <2>1. UNCHANGED session BY <1>2 DEF S!Fail, InLogin
  <2>2. Moves(c, "idle", S!NoReq) /\ RequestKnows(c)' BY <1>1, StopStep DEF SessionsInv
  <2> QED BY <1>1, <2>1, <2>2, NoReqTyped, StepThatReads,
             "idle" \notin {"trim", "login_commit"}
<1>3. CASE InLogin(c)
  <2>1. PICK i : i = req[c].s OBVIOUS
  <2>2. session' = [session EXCEPT ![i].state = "aborted"] BY <1>3, <2>1 DEF S!Fail, InLogin
  <2>3. i \in S!Ids /\ session[i].state = "open"
      BY <1>3, <2>1 DEF SessionsInv, LoginInv, LoginsFit, LoginFits
  <2>4. /\ session' \in [S!Ids -> SessionRows] /\ session'[i].state = "aborted"
        /\ \A j \in S!Ids \ {i} : session'[j] = session[j]
    <3>1. [session[i] EXCEPT !.state = "aborted"] \in SessionRows
          /\ [session[i] EXCEPT !.state = "aborted"].state = "aborted"
        BY <2>3 DEF SessionsInv, SessionsTyped, SessionRows, SessionStates
    <3> QED BY <2>2, <2>3, <3>1 DEF SessionsInv, SessionsTyped
  <2>5. Aging /\ S!Live' = S!Live BY <2>3, <2>4 DEF Aging, Was, Over, S!Live
  <2>6. FewLive' BY <2>5 DEF SessionsInv, LoginInv, FewLive
  <2>7. \A j \in S!Ids : session'[j].state = "none" <=> session[j].state = "none"
      BY <2>3, <2>4
  <2> QED BY <1>1, <1>3, <2>4, <2>5, <2>6, <2>7, LoginEnds
<1> QED BY <1>2, <1>3

LEMMA SessionsStep ==
    ASSUME MaxSessions \in Nat, SessionLimit \in Nat \ {0}, SessionsInv, [S!Next]_sessionsVars
    PROVE  SessionsInv'
<1>1. ASSUME UNCHANGED <<session, payload, markers, denied, reqPc, req, ended, early>>
      PROVE  SessionsInv'
  <2>1. session' \in [S!Ids -> SessionRows] BY <1>1 DEF SessionsInv, SessionsTyped
  <2>2. Quietly BY <1>1, SessionsStay
  <2> QED BY <1>1, <2>1, <2>2, StepOfNoRequest
<1>2. CASE S!VerifyEmail \/ S!UpdateUserStatus \/ S!ForgotPassword \/ S!RedisGoesAway
           \/ S!RedisReturns
    BY <1>1, <1>2 DEF S!VerifyEmail, S!UpdateUserStatus, S!ForgotPassword, S!RedisGoesAway,
                      S!RedisReturns, S!cacheVars, S!dbVars
<1>3. CASE UNCHANGED sessionsVars BY <1>1, <1>3 DEF sessionsVars
<1>4. ASSUME NEW c \in Clients,
             S!Login(c) \/ S!IssueSession(c) \/ S!TrimSessions(c) \/ S!CommitLogin(c) \/ S!Fail(c)
      PROVE  SessionsInv'
    BY <1>4, LoginKeeps, IssueKeeps, TrimKeeps, CommitLoginKeeps, FailKeeps
<1>5. ASSUME NEW c \in Clients,
             S!RefreshToken(c) \/ S!Rotate(c) \/ S!RotationLost(c) \/ S!DropOldTokens(c)
             \/ S!ReloadSession(c) \/ S!StoreNewTokens(c)
      PROVE  SessionsInv'
    BY <1>5, RefreshKeeps, RotateKeeps, RotationLostKeeps, DropKeeps, ReloadKeeps, StoreKeeps
<1>6. ASSUME NEW c \in Clients,
             S!Logout(c) \/ S!SelectFamily(c) \/ S!RevokeFamily(c) \/ S!PublishRevocation(c)
             \/ S!ForgetTokens(c) \/ S!RevokeSession(c) \/ S!RevokeOne(c) \/ S!MarkOne(c)
      PROVE  SessionsInv'
    BY <1>6, LogoutKeeps, SelectKeeps, RevokeFamilyKeeps, PublishKeeps, ForgetKeeps,
       RevokeSessionKeeps, RevokeOneKeeps, MarkOneKeeps
<1>7. ASSUME NEW c \in Clients,
             S!ResetPassword(c) \/ S!CommitReset(c) \/ S!UpdatePassword(c) \/ S!RevokeOthers(c)
             \/ S!CommitPassword(c) \/ S!ResetUserPassword(c)
      PROVE  SessionsInv'
    BY <1>7, ResetKeeps, CommitResetKeeps, UpdateKeeps, RevokeOthersKeeps, CommitPasswordKeeps,
       AdministratorResetKeeps
<1> QED BY <1>2, <1>3, <1>4, <1>5, <1>6, <1>7 DEF S!Next

LEMMA SessionsStart ==
    ASSUME MaxSessions \in Nat, SessionLimit \in Nat \ {0}, S!Start
    PROVE  SessionsInv
<1>1. /\ session \in [S!Ids -> SessionRows]
      /\ \A i \in S!Ids : session[i].state = "live" => i = 1
      /\ \A i \in S!Ids : session[i].state = "none" \/ i = 1
    BY DEF S!Start, S!Init, S!Established, S!NoRow, SessionRows, SessionStates
<1>2. /\ reqPc = [c \in Clients |-> "idle"] /\ req = [c \in Clients |-> S!NoReq]
      /\ markers = {} /\ denied = {} /\ ended = {}
    BY DEF S!Start, S!Init, S!Established
<1>3. \A c \in Clients : reqPc[c] = "idle" BY <1>2
<1>4. PayloadTyped /\ \A i \in S!Ids, k \in S!Gens : payload[i][k] \in {"none", "live"}
    BY DEF S!Start, S!Init, S!Established, PayloadTyped
<1>5. SessionsTyped BY <1>1, <1>2, <1>4, NoReqTyped DEF SessionsTyped, PayloadTyped
<1>6. RequestsKnow BY <1>3 DEF RequestsKnow, RequestKnows
<1>7. CacheKnows BY <1>2, <1>4 DEF CacheKnows
<1>8. OneLogin /\ LoginsFit BY <1>3 DEF OneLogin, LoginsFit, InLogin
<1>9. IdsInOrder BY <1>1 DEF IdsInOrder, S!Ids
<1>10. FewLive
  <2>1. IsFiniteSet({1}) /\ Cardinality({1}) = 1 BY FS_Singleton
  <2>2. S!Live \in SUBSET {1} BY <1>1 DEF S!Live
  <2>3. Cardinality(S!Live) <= 1 /\ Cardinality(S!Live) \in Nat
      BY <2>1, <2>2, FS_Subset, FS_CardinalityType
  <2> QED BY <2>3 DEF FewLive
<1> QED BY <1>5, <1>6, <1>7, <1>8, <1>9, <1>10 DEF SessionsInv, LoginInv

\* What the invariant says of the middleware.
LEMMA AcceptedAndRefused ==
    ASSUME SessionsInv PROVE S!LiveIsAccepted /\ S!EndedIsRefused /\ S!SessionLimitHolds
<1>1. S!LiveIsAccepted
  <2> SUFFICES ASSUME NEW i \in S!Ids, NEW k \in S!Gens, S!OptionallyAuthenticated(i, k),
                      i \notin early
               PROVE  S!Authenticated(i, k)
      BY DEF S!LiveIsAccepted
  <2>1. i \in S!Live /\ session[i].gen = k /\ account = "active"
      BY DEF S!OptionallyAuthenticated
  <2>2. ~Over(i) BY <2>1 DEF Over, S!Live
  <2>3. /\ payload[i][k] \in {"none", "live"} /\ i \notin markers
        /\ <<"access", i, k>> \notin denied
      BY <2>2 DEF SessionsInv, CacheKnows
  <2> QED BY <2>1, <2>3 DEF S!Authenticated
<1>2. S!EndedIsRefused
  <2> SUFFICES ASSUME NEW i \in ended, NEW k \in S!Gens
               PROVE  i \notin S!Live /\ ~S!Authenticated(i, k)
      BY DEF S!EndedIsRefused
  <2>1. Over(i) /\ i \in markers BY DEF SessionsInv, CacheKnows
  <2>2. i \notin S!Live BY <2>1 DEF Over, S!Live
  <2> QED BY <2>1, <2>2 DEF S!Authenticated
<1> QED BY <1>1, <1>2, LimitStays DEF SessionsInv, LoginInv

LEMMA SessionsAlways ==
    ASSUME MaxSessions \in Nat, SessionLimit \in Nat \ {0}
    PROVE  Spec => [](part = "sessions" => SessionsInv)
<1>1. Init => (part = "sessions" => SessionsInv) BY SessionsStart DEF Init
<1>2. (part = "sessions" => SessionsInv) /\ [Next]_vars => (part = "sessions" => SessionsInv)'
    BY StepsAreOfThePart, PartStays, SessionsStep
<1> QED BY <1>1, <1>2, PTL DEF Spec

\* However logins overlap, a user never has more open sessions than the limit: issueSession
\* (token.go) counts and revokes with the user's row updated, so locked.
THEOREM SessionLimitIsKept ==
    ASSUME MaxSessions \in Nat, SessionLimit \in Nat \ {0}
    PROVE  Spec => []SessionLimitHolds
<1>1. (part = "sessions" => SessionsInv) => SessionLimitHolds
    BY AcceptedAndRefused DEF SessionLimitHolds
<1> QED BY <1>1, SessionsAlways, PTL

\* AuthMiddleware's fast path refuses no token that the database accepts, but one whose
\* session a password change has marked before its commit.
THEOREM LiveIsAlwaysAccepted ==
    ASSUME MaxSessions \in Nat, SessionLimit \in Nat \ {0}
    PROVE  Spec => []LiveIsAccepted
<1>1. (part = "sessions" => SessionsInv) => LiveIsAccepted
    BY AcceptedAndRefused DEF LiveIsAccepted
<1> QED BY <1>1, SessionsAlways, PTL

\* A session that has been ended and marked stays over, and no token of it is accepted
\* again, whatever a rotation or a login still under way writes to Redis.
THEOREM EndedIsAlwaysRefused ==
    ASSUME MaxSessions \in Nat, SessionLimit \in Nat \ {0}
    PROVE  Spec => []EndedIsRefused
<1>1. (part = "sessions" => SessionsInv) => EndedIsRefused
    BY AcceptedAndRefused DEF EndedIsRefused
<1> QED BY <1>1, SessionsAlways, PTL
=============================================================================
