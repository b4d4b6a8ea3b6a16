----------------------------- MODULE AccountsMC -----------------------------
(* The components that share no state with each other, each checked on a small
   instance of its own: `part` chooses at the start the one that runs, and the
   others keep their initial state.  Every action is a disjunct of its own, so
   that TLC reports how often each one fires. *)
EXTENDS Naturals, FiniteSets, TLC

CONSTANTS Clients, Handlers, Accounts, Subjects, NoOne, Secrets, Profiles, Permissions,
        Own, KeyIds, Messages, Codes, Devices, Services
VARIABLE part

\* Sessions
CONSTANTS MaxSessions, MaxGen, SessionLimit, MaxRequests
VARIABLES account, session, resetOpen, payload, currentHash, markers, denied,
          reqPc, req, requests, redis, ended, early
S == INSTANCE Sessions
sessionsVars == <<account, session, resetOpen, payload, currentHash, markers, denied,
        reqPc, req, requests, redis, ended, early>>

\* OAuthSignIn
CONSTANTS States, MaxRows
VARIABLES status, primary, hasEmail, life, begun, consent, creds, lastId, hPc, h, handed
O == INSTANCE OAuthSignIn
signinVars == <<status, primary, hasEmail, life, begun, consent, creds, lastId, hPc, h, handed>>

\* Administrators
CONSTANTS Roles, Admin
VARIABLES db, armed, guard, step, tx, prepared
D == INSTANCE AdministratorsProofs
adminsVars == <<db, armed, guard, step, tx, prepared>>

\* MihomoCredentials
CONSTANT MaxGeneration
VARIABLES credential, locked, vPc, v, said
C == INSTANCE MihomoCredentials
credentialsVars == <<credential, locked, vPc, v, said>>

\* BindingProjection
CONSTANT MaxRevision
VARIABLES platform, row, rows, rowLock, jobPc, job, newest, overwritten
P == INSTANCE BindingProjection
projectionVars == <<platform, row, rows, rowLock, jobPc, job, newest, overwritten>>

\* RolePolicies
CONSTANT MaxAsked
VARIABLES role, perms, rules, loaded, rPc, r, was, asked
R == INSTANCE RolePolicies
policiesVars == <<role, perms, rules, loaded, rPc, r, was, asked>>

\* JwksCache
VARIABLES published, cached, fresh, mutex, lPc, wanted, fetchedFor
J == INSTANCE JwksCache
jwksVars == <<published, cached, fresh, mutex, lPc, wanted, fetchedFor>>

\* EntryIdentityLink
CONSTANTS Bots, MaxChallenges, MaxPending
VARIABLES challenge, overdue, identity, linkPc, link, linked
E == INSTANCE EntryIdentityLinkProofs
linksVars == <<challenge, overdue, identity, linkPc, link, linked>>

\* EmailQueue
CONSTANTS QueueSize, MaxRetries
VARIABLES queue, notified, started, stopping, worker, sending, attempt, offered
Q == INSTANCE EmailQueue
emailVars == <<queue, notified, started, stopping, worker, sending, attempt, offered>>

\* SecondFactor
CONSTANTS MaxFactors, MaxLists
VARIABLES factor, lastFactor, setup, made, trusted, fPc, f, issued
F == INSTANCE SecondFactor
factorVars == <<factor, lastFactor, setup, made, trusted, fPc, f, issued>>

\* SdkClient
VARIABLES closed, base, channels, stubs, valid, tokens, tokenLock, routeLock, sPc, s
K == INSTANCE SdkClient
sdkVars == <<closed, base, channels, stubs, valid, tokens, tokenLock, routeLock, sPc, s>>

vars == <<part, sessionsVars, signinVars, adminsVars, credentialsVars, projectionVars,
        policiesVars, jwksVars, linksVars, emailVars, factorVars, sdkVars>>
Symmetry ==
    UNION {Permutations(Clients), Permutations(Accounts), Permutations(Subjects)}

NoSessions ==
    /\ account = 0 /\ session = 0 /\ resetOpen = 0 /\ payload = 0 /\ currentHash = 0
    /\ markers = 0 /\ denied = 0 /\ reqPc = 0 /\ req = 0 /\ requests = 0 /\ redis = 0
    /\ ended = 0 /\ early = 0
NoSignIn ==
    /\ status = 0 /\ primary = 0 /\ hasEmail = 0 /\ life = 0 /\ begun = 0 /\ consent = 0
    /\ creds = 0 /\ lastId = 0 /\ hPc = 0 /\ h = 0 /\ handed = 0
NoAdmins ==
    /\ db = 0 /\ armed = 0 /\ guard = 0 /\ step = 0 /\ tx = 0 /\ prepared = 0
NoCredentials ==
    /\ credential = 0 /\ locked = 0 /\ vPc = 0 /\ v = 0 /\ said = 0
NoProjection ==
    /\ platform = 0 /\ row = 0 /\ rows = 0 /\ rowLock = 0 /\ jobPc = 0 /\ job = 0
    /\ newest = 0 /\ overwritten = 0
NoPolicies ==
    /\ role = 0 /\ perms = 0 /\ rules = 0 /\ loaded = 0 /\ rPc = 0 /\ r = 0 /\ was = 0
    /\ asked = 0
NoJwks ==
    /\ published = 0 /\ cached = 0 /\ fresh = 0 /\ mutex = 0 /\ lPc = 0 /\ wanted = 0
    /\ fetchedFor = 0
NoLinks ==
    /\ challenge = 0 /\ overdue = 0 /\ identity = 0 /\ linkPc = 0 /\ link = 0
    /\ linked = 0
NoEmail ==
    /\ queue = 0 /\ notified = 0 /\ started = 0 /\ stopping = 0 /\ worker = 0
    /\ sending = 0 /\ attempt = 0 /\ offered = 0
NoFactor ==
    /\ factor = 0 /\ lastFactor = 0 /\ setup = 0 /\ made = 0 /\ trusted = 0 /\ fPc = 0
    /\ f = 0 /\ issued = 0
NoSdk ==
    /\ closed = 0 /\ base = 0 /\ channels = 0 /\ stubs = 0 /\ valid = 0 /\ tokens = 0
    /\ tokenLock = 0 /\ routeLock = 0 /\ sPc = 0 /\ s = 0

Init ==
    /\ part \in {"sessions", "sign_in", "admins", "credentials", "projection", "policies",
        "jwks", "links", "email", "factor", "sdk"}
    /\ IF part = "sessions" THEN S!Start ELSE NoSessions
    /\ IF part = "sign_in" THEN O!Init ELSE NoSignIn
    /\ IF part = "admins" THEN D!Init ELSE NoAdmins
    /\ IF part = "credentials" THEN C!Init ELSE NoCredentials
    /\ IF part = "projection" THEN P!Init ELSE NoProjection
    /\ IF part = "policies" THEN R!Init ELSE NoPolicies
    /\ IF part = "jwks" THEN J!Init ELSE NoJwks
    /\ IF part = "links" THEN E!Init ELSE NoLinks
    /\ IF part = "email" THEN Q!Init ELSE NoEmail
    /\ IF part = "factor" THEN F!Init ELSE NoFactor
    /\ IF part = "sdk" THEN K!Init ELSE NoSdk

InSessions == part = "sessions"
OnlySessions ==
    UNCHANGED <<part, signinVars, adminsVars, credentialsVars, projectionVars,
        policiesVars, jwksVars, linksVars, emailVars, factorVars, sdkVars>>
InSignIn == part = "sign_in"
OnlySignIn ==
    UNCHANGED <<part, sessionsVars, adminsVars, credentialsVars, projectionVars,
        policiesVars, jwksVars, linksVars, emailVars, factorVars, sdkVars>>
InAdmins == part = "admins"
OnlyAdmins ==
    UNCHANGED <<part, sessionsVars, signinVars, credentialsVars, projectionVars,
        policiesVars, jwksVars, linksVars, emailVars, factorVars, sdkVars>>
InCredentials == part = "credentials"
OnlyCredentials ==
    UNCHANGED <<part, sessionsVars, signinVars, adminsVars, projectionVars, policiesVars,
        jwksVars, linksVars, emailVars, factorVars, sdkVars>>
InProjection == part = "projection"
OnlyProjection ==
    UNCHANGED <<part, sessionsVars, signinVars, adminsVars, credentialsVars, policiesVars,
        jwksVars, linksVars, emailVars, factorVars, sdkVars>>
InPolicies == part = "policies"
OnlyPolicies ==
    UNCHANGED <<part, sessionsVars, signinVars, adminsVars, credentialsVars,
        projectionVars, jwksVars, linksVars, emailVars, factorVars, sdkVars>>
InJwks == part = "jwks"
OnlyJwks ==
    UNCHANGED <<part, sessionsVars, signinVars, adminsVars, credentialsVars,
        projectionVars, policiesVars, linksVars, emailVars, factorVars, sdkVars>>
InLinks == part = "links"
OnlyLinks ==
    UNCHANGED <<part, sessionsVars, signinVars, adminsVars, credentialsVars,
        projectionVars, policiesVars, jwksVars, emailVars, factorVars, sdkVars>>
InEmail == part = "email"
OnlyEmail ==
    UNCHANGED <<part, sessionsVars, signinVars, adminsVars, credentialsVars,
        projectionVars, policiesVars, jwksVars, linksVars, factorVars, sdkVars>>
InFactor == part = "factor"
OnlyFactor ==
    UNCHANGED <<part, sessionsVars, signinVars, adminsVars, credentialsVars,
        projectionVars, policiesVars, jwksVars, linksVars, emailVars, sdkVars>>
InSdk == part = "sdk"
OnlySdk ==
    UNCHANGED <<part, sessionsVars, signinVars, adminsVars, credentialsVars,
        projectionVars, policiesVars, jwksVars, linksVars, emailVars, factorVars>>

SessionsNext ==
    \/ InSessions /\ S!VerifyEmail /\ OnlySessions
    \/ InSessions /\ S!UpdateUserStatus /\ OnlySessions
    \/ InSessions /\ S!ForgotPassword /\ OnlySessions
    \/ InSessions /\ S!RedisGoesAway /\ OnlySessions
    \/ InSessions /\ S!RedisReturns /\ OnlySessions
    \/ \E c \in Clients :
        \/ InSessions /\ S!Login(c) /\ OnlySessions
        \/ InSessions /\ S!IssueSession(c) /\ OnlySessions
        \/ InSessions /\ S!TrimSessions(c) /\ OnlySessions
        \/ InSessions /\ S!CommitLogin(c) /\ OnlySessions
        \/ InSessions /\ S!RefreshToken(c) /\ OnlySessions
        \/ InSessions /\ S!Rotate(c) /\ OnlySessions
        \/ InSessions /\ S!RotationLost(c) /\ OnlySessions
        \/ InSessions /\ S!DropOldTokens(c) /\ OnlySessions
        \/ InSessions /\ S!ReloadSession(c) /\ OnlySessions
        \/ InSessions /\ S!StoreNewTokens(c) /\ OnlySessions
        \/ InSessions /\ S!Logout(c) /\ OnlySessions
        \/ InSessions /\ S!SelectFamily(c) /\ OnlySessions
        \/ InSessions /\ S!RevokeFamily(c) /\ OnlySessions
        \/ InSessions /\ S!PublishRevocation(c) /\ OnlySessions
        \/ InSessions /\ S!ForgetTokens(c) /\ OnlySessions
        \/ InSessions /\ S!RevokeSession(c) /\ OnlySessions
        \/ InSessions /\ S!RevokeOne(c) /\ OnlySessions
        \/ InSessions /\ S!MarkOne(c) /\ OnlySessions
        \/ InSessions /\ S!ResetPassword(c) /\ OnlySessions
        \/ InSessions /\ S!CommitReset(c) /\ OnlySessions
        \/ InSessions /\ S!UpdatePassword(c) /\ OnlySessions
        \/ InSessions /\ S!RevokeOthers(c) /\ OnlySessions
        \/ InSessions /\ S!CommitPassword(c) /\ OnlySessions
        \/ InSessions /\ S!ResetUserPassword(c) /\ OnlySessions
        \/ InSessions /\ S!Fail(c) /\ OnlySessions

SignInNext ==
    \/ \E a \in States :
        \/ InSignIn /\ O!InitiateOAuth(a) /\ OnlySignIn
        \/ InSignIn /\ O!Expire(a) /\ OnlySignIn
    \/ InSignIn /\ O!CleanExpiredStates /\ OnlySignIn
    \/ \E u \in Accounts :
        \/ InSignIn /\ O!SetPrimaryLoginMethod(u) /\ OnlySignIn
        \/ InSignIn /\ O!Suspend(u) /\ OnlySignIn
    \/ \E c \in Handlers :
        \/ InSignIn /\ O!Callback(c) /\ OnlySignIn
        \/ InSignIn /\ O!ConsumeState(c) /\ OnlySignIn
        \/ InSignIn /\ O!Exchange(c) /\ OnlySignIn
        \/ InSignIn /\ O!Bind(c) /\ OnlySignIn
        \/ InSignIn /\ O!BindInsert(c) /\ OnlySignIn
        \/ InSignIn /\ O!Login(c) /\ OnlySignIn
        \/ InSignIn /\ O!Register(c) /\ OnlySignIn
        \/ InSignIn /\ O!RefreshOAuthToken(c) /\ OnlySignIn
        \/ InSignIn /\ O!SaveRow(c) /\ OnlySignIn
        \/ InSignIn /\ O!DeleteLoginMethod(c) /\ OnlySignIn
        \/ InSignIn /\ O!DeleteCredential(c) /\ OnlySignIn
        \/ InSignIn /\ O!Fail(c) /\ OnlySignIn

AdminsNext ==
    \/ \E c \in Handlers :
        \/ InAdmins /\ D!ReplaceUserRoles(c) /\ OnlyAdmins
        \/ InAdmins /\ D!SetPrimaryRole(c) /\ OnlyAdmins
        \/ InAdmins /\ D!ReplaceAuthorityUsers(c) /\ OnlyAdmins
        \/ InAdmins /\ D!UpdateUserStatus(c) /\ OnlyAdmins
        \/ InAdmins /\ D!DeleteUser(c) /\ OnlyAdmins
        \/ InAdmins /\ D!CreateUser(c) /\ OnlyAdmins
        \/ InAdmins /\ D!CreateAdmin(c) /\ OnlyAdmins
        \/ InAdmins /\ D!CreateDefaultAdmin(c) /\ OnlyAdmins
        \/ InAdmins /\ D!RemoveAdmin(c) /\ OnlyAdmins
        \/ InAdmins /\ D!AssignPermissions(c) /\ OnlyAdmins
        \/ InAdmins /\ D!ReplaceAuthorityPolicies(c) /\ OnlyAdmins
        \/ InAdmins /\ D!SeedRoles(c) /\ OnlyAdmins
        \/ InAdmins /\ D!SeedCasbinPolicies(c) /\ OnlyAdmins
        \/ InAdmins /\ D!Write(c) /\ OnlyAdmins
        \/ InAdmins /\ D!Validate(c) /\ OnlyAdmins
        \/ InAdmins /\ D!Commit(c) /\ OnlyAdmins
        \/ InAdmins /\ D!RollBack(c) /\ OnlyAdmins

CredentialsNext ==
    \/ \E p \in Handlers :
        \/ InCredentials /\ C!BindCredential(p) /\ OnlyCredentials
        \/ InCredentials /\ C!AdvanceGeneration(p) /\ OnlyCredentials
        \/ InCredentials /\ C!ReplaceCredential(p) /\ OnlyCredentials
        \/ InCredentials /\ C!RefreshCredential(p) /\ OnlyCredentials
        \/ InCredentials /\ C!DeleteCredential(p) /\ OnlyCredentials
        \/ InCredentials /\ C!GiveUp(p) /\ OnlyCredentials
        \/ InCredentials /\ C!SetPrimaryProfile(p) /\ OnlyCredentials
        \/ InCredentials /\ C!ValidateCredential(p) /\ OnlyCredentials
        \/ InCredentials /\ C!Revalidate(p) /\ OnlyCredentials
        \/ InCredentials /\ C!SaveValidated(p) /\ OnlyCredentials
        \/ InCredentials /\ C!SaveAttention(p) /\ OnlyCredentials
        \/ InCredentials /\ C!ListRetired(p) /\ OnlyCredentials
        \/ InCredentials /\ C!ReencryptCredentialBlob(p) /\ OnlyCredentials

ProjectionNext ==
    \/ InProjection /\ P!Advance /\ OnlyProjection
    \/ \E j \in Handlers :
        \/ InProjection /\ P!ReadSummary(j) /\ OnlyProjection
        \/ InProjection /\ P!PersistRuntimeSummary(j) /\ OnlyProjection
        \/ InProjection /\ P!SyncProfiles(j) /\ OnlyProjection
        \/ InProjection /\ P!ReplaceProfiles(j) /\ OnlyProjection
        \/ InProjection /\ P!GetBinding(j) /\ OnlyProjection
        \/ InProjection /\ P!UpdateBindingStatus(j) /\ OnlyProjection
        \/ InProjection /\ P!DeleteBinding(j) /\ OnlyProjection
        \/ InProjection /\ P!GiveUp(j) /\ OnlyProjection

PoliciesNext ==
    \/ InPolicies /\ R!InitEnforcer /\ OnlyPolicies
    \/ \E j \in Handlers :
        \/ InPolicies /\ R!CreateAuthority(j) /\ OnlyPolicies
        \/ InPolicies /\ R!LoadRole(j) /\ OnlyPolicies
        \/ InPolicies /\ R!UpdateAuthority(j) /\ OnlyPolicies
        \/ InPolicies /\ R!AssignPermissions(j) /\ OnlyPolicies
        \/ InPolicies /\ R!DeleteAuthority(j) /\ OnlyPolicies
        \/ InPolicies /\ R!LoadRules(j) /\ OnlyPolicies
        \/ InPolicies /\ R!MergePolicies(j) /\ OnlyPolicies
        \/ InPolicies /\ R!WriteRules(j) /\ OnlyPolicies
        \/ InPolicies /\ R!LoadPolicy(j) /\ OnlyPolicies
        \/ InPolicies /\ R!RestoreRules(j) /\ OnlyPolicies
        \/ InPolicies /\ R!Reload(j) /\ OnlyPolicies
        \/ InPolicies /\ R!Undo(j) /\ OnlyPolicies
        \/ InPolicies /\ R!Finish(j) /\ OnlyPolicies

JwksNext ==
    \/ InJwks /\ J!RotateKeys /\ OnlyJwks
    \/ InJwks /\ J!GrowOld /\ OnlyJwks
    \/ \E l \in Handlers :
        \/ InJwks /\ J!Verify(l) /\ OnlyJwks
        \/ InJwks /\ J!LookupKey(l) /\ OnlyJwks
        \/ InJwks /\ J!FetchLocked(l) /\ OnlyJwks

LinksNext ==
    \/ \E p \in Handlers :
        \/ InLinks /\ E!Start(p) /\ OnlyLinks
        \/ InLinks /\ E!CountPending(p) /\ OnlyLinks
        \/ InLinks /\ E!CreateChallenge(p) /\ OnlyLinks
        \/ InLinks /\ E!BuildApprovalURL(p) /\ OnlyLinks
        \/ InLinks /\ E!LoadPending(p) /\ OnlyLinks
        \/ InLinks /\ E!UpsertLink(p) /\ OnlyLinks
        \/ InLinks /\ E!InsertLink(p) /\ OnlyLinks
        \/ InLinks /\ E!ConsumeChallenge(p) /\ OnlyLinks
        \/ InLinks /\ E!Fail(p) /\ OnlyLinks
        \/ InLinks /\ E!Preview(p) /\ OnlyLinks
        \/ InLinks /\ E!MarkExpired(p) /\ OnlyLinks
    \/ \E d \in 1 .. MaxChallenges :
        \/ InLinks /\ E!GrowOld(d) /\ OnlyLinks
    \/ InLinks /\ E!CleanExpiredChallenges /\ OnlyLinks
    \/ \E u \in Accounts :
        \/ InLinks /\ E!Unlink(u) /\ OnlyLinks

EmailNext ==
    \/ InEmail /\ Q!Start /\ OnlyEmail
    \/ InEmail /\ Q!Stop /\ OnlyEmail
    \/ InEmail /\ Q!Stopped /\ OnlyEmail
    \/ InEmail /\ Q!CancelContext /\ OnlyEmail
    \/ InEmail /\ Q!Process /\ OnlyEmail
    \/ InEmail /\ Q!CoalesceNotifications /\ OnlyEmail
    \/ InEmail /\ Q!ProcessNext /\ OnlyEmail
    \/ InEmail /\ Q!SendWithRetry /\ OnlyEmail
    \/ InEmail /\ Q!Backoff /\ OnlyEmail
    \/ InEmail /\ Q!DrainQueue /\ OnlyEmail
    \/ \E m \in Messages :
        \/ InEmail /\ Q!Enqueue(m) /\ OnlyEmail

FactorNext ==
    \/ InFactor /\ F!SetupExpires /\ OnlyFactor
    \/ \E d \in Devices :
        \/ InFactor /\ F!TrustExpires(d) /\ OnlyFactor
    \/ \E p \in Handlers :
        \/ InFactor /\ F!SetupTwoFactor(p) /\ OnlyFactor
        \/ InFactor /\ F!StoreSetup(p) /\ OnlyFactor
        \/ InFactor /\ F!ConfirmTwoFactor(p) /\ OnlyFactor
        \/ InFactor /\ F!InsertFactor(p) /\ OnlyFactor
        \/ InFactor /\ F!DropSetup(p) /\ OnlyFactor
        \/ InFactor /\ F!DisableTwoFactor(p) /\ OnlyFactor
        \/ InFactor /\ F!DeleteFactor(p) /\ OnlyFactor
        \/ InFactor /\ F!RegenerateBackupCodes(p) /\ OnlyFactor
        \/ InFactor /\ F!ReplaceCodes(p) /\ OnlyFactor
        \/ InFactor /\ F!LoginWithEmail(p) /\ OnlyFactor
        \/ InFactor /\ F!VerifySecondFactor(p) /\ OnlyFactor
        \/ InFactor /\ F!TrustDevice(p) /\ OnlyFactor
        \/ InFactor /\ F!RecordUse(p) /\ OnlyFactor
        \/ InFactor /\ F!Fail(p) /\ OnlyFactor

SdkNext ==
    \/ \E x \in K!Scopes :
        \/ InSdk /\ K!TokenGrowsOld(x) /\ OnlySdk
    \/ \E c \in Handlers :
        \/ InSdk /\ K!AccountCall(c) /\ OnlySdk
        \/ InSdk /\ K!RuntimeCall(c) /\ OnlySdk
        \/ InSdk /\ K!GetToken(c) /\ OnlySdk
        \/ InSdk /\ K!LockTokens(c) /\ OnlySdk
        \/ InSdk /\ K!Issue(c) /\ OnlySdk
        \/ InSdk /\ K!AccountAnswers(c) /\ OnlySdk
        \/ InSdk /\ K!PlatformStub(c) /\ OnlySdk
        \/ InSdk /\ K!LockRoutes(c) /\ OnlySdk
        \/ InSdk /\ K!CreateChannel(c) /\ OnlySdk
        \/ InSdk /\ K!PlatformAnswers(c) /\ OnlySdk
        \/ InSdk /\ K!Close(c) /\ OnlySdk
        \/ InSdk /\ K!CollectResources(c) /\ OnlySdk
        \/ InSdk /\ K!CloseResource(c) /\ OnlySdk
        \/ InSdk /\ K!CloseReturns(c) /\ OnlySdk
        \/ InSdk /\ K!Fail(c) /\ OnlySdk

Next == SessionsNext \/ SignInNext \/ AdminsNext \/ CredentialsNext \/ ProjectionNext \/ PoliciesNext \/ JwksNext \/ LinksNext \/ EmailNext \/ FactorNext \/ SdkNext
Spec == Init /\ [][Next]_vars

SessionLimitHolds == part = "sessions" => S!SessionLimitHolds
LiveIsAccepted == part = "sessions" => S!LiveIsAccepted
EndedIsRefused == part = "sessions" => S!EndedIsRefused
StateHandedOnce == part = "sign_in" => O!StateHandedOnce
SubjectsAreAuthorized == part = "sign_in" => O!SubjectsAreAuthorized
BindStateSurvives == [][part = "sign_in" => O!BindStateKept]_vars
AdministratorRemains == part = "admins" => D!AdministratorRemains
StatusIsOfTheSecret == part = "credentials" => C!StatusIsOfTheSecret
ProjectionIsCurrent == part = "projection" => P!ProjectionIsCurrent
RequestsAreAtomic == part = "policies" => R!RequestsAreAtomic
FetchesCoalesce == part = "jwks" => J!FetchesCoalesce
CapacityHolds == part = "links" => E!CapacityHolds
LinksAreApproved == part = "links" => E!LinksAreApproved
NoMessageSleeps == part = "email" => Q!NoMessageSleeps
CodesAreOfTheFactor == part = "factor" => F!CodesAreOfTheFactor
ResourcesAreShared == part = "sdk" => K!ResourcesAreShared
=============================================================================
