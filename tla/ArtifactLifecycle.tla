-------------------------- MODULE ArtifactLifecycle --------------------------
(***************************************************************************)
(* How platform-mihomo issues game auth keys for one binding, keeps them,  *)
(* and takes them back: GetAuthKey with its delivery, InvalidateBinding    *)
(* and the cleanup task.                                                   *)
(*                                                                         *)
(* A step is one database transaction, one call of the upstream, or one    *)
(* statement of the methods called ...Immediately: these use a connection  *)
(* of their own, so what they write is visible at once, also when the      *)
(* transaction around them holds the credential row or rolls back.         *)
(***************************************************************************)
EXTENDS FiniteSets

CONSTANTS
    Keys,       \* auth keys the upstream issues, each once
    Scopes,     \* players of the account
    Procs,      \* requests and tasks
    None        \* no key, no process

ASSUME ArtifactAssumption == None \notin Keys \union Procs \union Scopes

VARIABLES
    up,         \* the upstream: unissued, live, revoked or expired
    row,        \* runtime_artifacts, by scope
    intent,     \* artifact_revocation_intents, by key: none, provisional, ready
    lease,      \* whose lease token a provisional intent has
    settled,    \* keys whose issuer goes by the id of an intent that is gone
    active,     \* status of the credential row
    fenced,     \* are the tickets of the consumer refused?  One consumer is followed
    holder,     \* whose transaction has locked the credential row
    pc, loc,    \* each process: next step and local variables
    got,        \* history: keys that consumer was given and that still work
    missed      \* history: keys whose issuer never got to stage them, or whose
                \* row an invalidation hid or deleted but never listed

intents == <<intent, lease, settled>>
data == <<row, intents>>
credential == <<active, fenced>>
vars == <<up, data, credential, holder, pc, loc, got, missed>>

NoRow == [key |-> None, pending |-> FALSE]
NoLoc == [scope |-> None, own |-> None, out |-> None, then |-> "",
          listed |-> {}, todo |-> {}, staged |-> {}, cur |-> None, failed |-> FALSE]

Stored == {row[s].key : s \in Scopes} \ {None}
Hidden == {row[s].key : s \in {t \in Scopes : row[t].pending}}

\* HasRevocationPending
RevocationPending == Hidden # {} \/ \E k \in Keys : intent[k] # "none"

Init ==
    /\ up = [k \in Keys |-> "unissued"]
    /\ row = [s \in Scopes |-> NoRow]
    /\ intent = [k \in Keys |-> "none"]
    /\ lease = [k \in Keys |-> None]
    /\ settled = {}
    /\ active = TRUE
    /\ fenced = FALSE
    /\ holder = None
    /\ pc = [p \in Procs |-> "idle"]
    /\ loc = [p \in Procs |-> NoLoc]
    /\ got = {}
    /\ missed = {}

\* Process p goes on at `step` with the local variables l.
Become(p, step, l) ==
    /\ pc' = [pc EXCEPT ![p] = step]
    /\ loc' = [loc EXCEPT ![p] = l]

Goto(p, step) == pc' = [pc EXCEPT ![p] = step] /\ UNCHANGED <<loc, holder>>

Unlock(p) == holder' = IF holder = p THEN None ELSE holder

\* The process is done; its transaction, if any, has ended.
End(p) == Become(p, "idle", NoLoc) /\ Unlock(p)

\* InvalidateBinding; `then` says for whom.
Invalidate(p, then, scope) ==
    Become(p, "list", [NoLoc EXCEPT !.then = then, !.scope = scope])

\* RevokeIssuedArtifact for the key p has issued.
RevokeOwn(p) ==
    /\ Become(p, "revoke", [NoLoc EXCEPT !.then = "own", !.own = loc[p].own,
                                          !.staged = {loc[p].own}])
    /\ Unlock(p)

\* The lease of a ready intent protects nothing: no revocation looks at it.
SetIntent(k, state) ==
    /\ intent' = [intent EXCEPT ![k] = state]
    /\ lease' = [lease EXCEPT ![k] = None]
    /\ UNCHANGED settled

DeleteIntent(k) ==
    /\ intent' = [intent EXCEPT ![k] = "none"]
    /\ lease' = [lease EXCEPT ![k] = None]
    /\ settled' = (settled \union {k}) \intersect {loc'[p].own : p \in Procs}

\* Does p name an intent of k that is still there?  Only the one who staged the
\* key goes by the id of its first intent.
Names(p, k) == intent[k] # "none" /\ (loc[p].own = k => k \notin settled)

-----------------------------------------------------------------------------
\* GetAuthKey: one transaction that holds the credential row until Put.  The
\* ticket was verified before it.

\* An expired row counts as absent and is deleted.
Usable(s) == row[s].key # None /\ ~row[s].pending /\ up[row[s].key] # "expired"

StartIssue(p, s) ==
    /\ pc[p] = "idle" /\ holder = None
    /\ \/ /\ ~active
          /\ holder' = p /\ Invalidate(p, "plain", None)
          /\ UNCHANGED row
       \/ /\ active /\ ~RevocationPending /\ Usable(s)
          /\ \/ Become(p, "confirm", [NoLoc EXCEPT !.out = row[s].key]) /\ UNCHANGED holder
             \/ holder' = p /\ Invalidate(p, "issue", s)     \* less than 5 s left
          /\ UNCHANGED row
       \/ /\ active /\ ~RevocationPending /\ ~Usable(s)
          /\ holder' = p
          /\ row' = [row EXCEPT ![s] = NoRow]
          /\ Become(p, "issue", [NoLoc EXCEPT !.scope = s])
    /\ UNCHANGED <<up, intents, credential, got, missed>>

Issue(p) ==
    /\ pc[p] = "issue" /\ holder = p
    /\ \E k \in Keys :
         /\ up[k] = "unissued"
         /\ up' = [up EXCEPT ![k] = "live"]
         /\ Become(p, "stage", [loc[p] EXCEPT !.own = k, !.out = k])
    /\ UNCHANGED <<data, credential, holder, got, missed>>

\* The upstream refuses, its answer is lost, or the credential needs attention.
IssueFails(p) ==
    /\ pc[p] = "issue"
    /\ \/ End(p) /\ UNCHANGED <<up, missed>>
       \/ /\ \E k \in Keys :
               /\ up[k] = "unissued"
               /\ up' = [up EXCEPT ![k] = "live"]
               /\ missed' = missed \union {k}
          /\ End(p)
       \/ Invalidate(p, "attention", None) /\ UNCHANGED <<up, holder, missed>>
    /\ UNCHANGED <<data, credential, got>>

\* StageIssuedArtifact
Stage(p) ==
    /\ pc[p] = "stage"
    /\ SetIntent(loc[p].own, "provisional")
    /\ Goto(p, "put")
    /\ UNCHANGED <<up, row, credential, got, missed>>

Dead(k) ==
    /\ up' = [up EXCEPT ![k] = IF @ = "live" THEN "revoked" ELSE @]
    /\ got' = got \ {k}

\* Nothing may have recorded the key: RevokeUntrackedAuthKey, and then roll back.
StageFails(p) ==
    /\ pc[p] = "stage"
    /\ \/ Dead(loc[p].own) /\ UNCHANGED missed
       \/ UNCHANGED <<up, got>> /\ missed' = missed \union {loc[p].own}
    /\ SetIntent(loc[p].own, "provisional") \/ UNCHANGED intents
    /\ End(p)
    /\ UNCHANGED <<row, credential>>

Store(p) == row' = [row EXCEPT ![loc[p].scope] = [key |-> loc[p].own, pending |-> FALSE]]

\* PutIfCredentialCurrent and the commit.
Put(p) ==
    /\ pc[p] = "put" /\ holder = p /\ Hidden = {}
    /\ Store(p)
    /\ holder' = None
    /\ Become(p, "finalize", [loc[p] EXCEPT !.scope = None])
    /\ UNCHANGED <<up, intents, credential, got, missed>>

\* A pending revocation, a bad lifetime or a database error; a commit that is
\* reported as failed may have been one.
PutFails(p) ==
    /\ pc[p] = "put"
    /\ UNCHANGED row \/ (holder = p /\ Hidden = {} /\ Store(p))
    /\ RevokeOwn(p)
    /\ UNCHANGED <<up, intents, credential, got, missed>>

\* FinalizeRevocationIntentImmediately: an intent that is gone is no error.
Finalize(p) ==
    LET k == loc[p].own IN
    /\ pc[p] = "finalize" /\ (intent[k] = "ready" => ~Names(p, k))
    /\ Become(p, "confirm", [loc[p] EXCEPT !.own = None])
    /\ IF Names(p, k) THEN DeleteIntent(k) ELSE UNCHANGED intents
    /\ UNCHANGED <<up, row, credential, holder, got, missed>>

\* Somebody wants the key revoked, or the database failed.
FinalizeFails(p) ==
    /\ pc[p] = "finalize"
    /\ RevokeOwn(p)
    /\ UNCHANGED <<up, data, credential, got, missed>>

DeliversUnchecked(k) == got' = IF up[k] = "live" THEN got \union {k} ELSE got

\* A ticket of the consumer we follow is refused once its fence is there.
Delivers(k) ==
    \/ ~fenced /\ got' = IF up[k] = "live" THEN got \union {k} ELSE got
    \/ UNCHANGED got

\* ConfirmDeliverable: the ticket, the credential and the revocations again.
Confirm(p) ==
    /\ pc[p] = "confirm" /\ holder = None
    /\ active /\ ~RevocationPending
    /\ Delivers(loc[p].out)
    /\ End(p)
    /\ UNCHANGED <<up, data, credential, missed>>

\* The handler invalidates the binding without a transaction around it.
ConfirmRefused(p) ==
    /\ pc[p] = "confirm"
    /\ Invalidate(p, "plain", None)
    /\ UNCHANGED <<up, data, credential, holder, got, missed>>

-----------------------------------------------------------------------------
\* InvalidateBinding, and the transactions that end with it.

\* Two kinds of transactions: ApplyAuthorizationFence or a changed credential
\* (advanceGeneration and what follows it), and a revalidation that failed.
StartInvalidation(p, then) ==
    /\ pc[p] = "idle" /\ holder = None
    /\ holder' = p
    /\ Invalidate(p, then, None)
    /\ UNCHANGED <<up, data, credential, got, missed>>

\* What the caller commits after the outcome "done", "owed"
\* (ErrArtifactRevocationPending) or "error", unless the transaction is gone.
Commits(p, outcome) ==
    LET l == loc[p] IN
    /\ CASE holder = p /\ l.then = "attention" -> active' = FALSE /\ UNCHANGED fenced
         [] holder = p /\ l.then = "change" /\ outcome # "error" ->
              \/ active' \in BOOLEAN /\ UNCHANGED fenced
              \/ fenced' = TRUE /\ UNCHANGED active
         [] OTHER -> UNCHANGED credential
    /\ IF l.then = "issue" /\ outcome = "done"
       THEN Become(p, "issue", [NoLoc EXCEPT !.scope = l.scope]) /\ UNCHANGED holder
       ELSE End(p)

\* ListByBindingRef, and only auth keys of what it finds.
List(p) ==
    /\ pc[p] = "list"
    /\ Become(p, "stage_ready", [loc[p] EXCEPT !.listed = Stored, !.todo = Stored])
    /\ UNCHANGED <<up, data, credential, holder, got, missed>>

MakeReadyIfNew(k) ==
    SetIntent(k, IF intent[k] = "none" THEN "ready" ELSE intent[k])

\* stageArtifact: a new intent, or a provisional one that becomes ready.
MakeReady(k) == SetIntent(k, "ready")

StageReady(p) ==
    /\ pc[p] = "stage_ready"
    /\ \E k \in loc[p].todo :
         /\ MakeReady(k)
         /\ Become(p, "stage_ready", [loc[p] EXCEPT !.todo = @ \ {k}, !.staged = @ \union {k}])
    /\ UNCHANGED <<up, row, credential, holder, got, missed>>

\* MarkRevocationPendingImmediately hides every row there is by now.
Hide(p) ==
    /\ row' = [s \in Scopes |-> [row[s] EXCEPT !.pending = row[s].key # None]]
    /\ missed' = missed \union (Stored \ loc[p].listed)

MarkPending(p) ==
    /\ pc[p] = "stage_ready" /\ loc[p].todo = {}
    /\ Hide(p)
    /\ Goto(p, "revoke")
    /\ UNCHANGED <<up, intents, credential, got>>

\* The rows may be hidden and their Redis copies not deleted.
MarkPendingFails(p) ==
    /\ pc[p] = "stage_ready" /\ loc[p].todo = {}
    /\ Hide(p) \/ UNCHANGED <<row, missed>>
    /\ Commits(p, IF loc[p].staged = {} THEN "error" ELSE "owed")
    /\ UNCHANGED <<up, intents, got>>

ListFails(p) ==
    /\ pc[p] \in {"list", "stage_ready"}
    /\ Commits(p, "error")
    /\ UNCHANGED <<up, data, got, missed>>

\* DeleteByBindingRefImmediately deletes every row there is by now.
DeleteAll(p) ==
    /\ row' = [s \in Scopes |-> NoRow]
    /\ missed' = missed \union (Stored \ loc[p].listed)

\* Every staged key has been tried.
RevocationsEnd(p) ==
    /\ pc[p] = "revoke" /\ loc[p].staged = {}
    /\ IF loc[p].failed \/ loc[p].then \in {"own", "cleanup"}
       THEN Commits(p, "owed") /\ UNCHANGED <<row, missed>>
       ELSE DeleteAll(p) /\ Commits(p, "done")
    /\ UNCHANGED <<up, intents, got>>

DeleteAllFails(p) ==
    /\ pc[p] = "revoke" /\ loc[p].staged = {}
    /\ ~loc[p].failed /\ loc[p].then \notin {"own", "cleanup"}
    /\ DeleteAll(p) \/ UNCHANGED <<row, missed>>
    /\ Commits(p, "error")
    /\ UNCHANGED <<up, intents, got>>

-----------------------------------------------------------------------------
\* revokeIssuedArtifact, for one staged key after the other.

\* MarkRevocationIntentReadyImmediately
MarkReady(p) ==
    /\ pc[p] = "revoke"
    /\ \E k \in loc[p].staged :
         /\ IF Names(p, k) THEN MakeReady(k) ELSE UNCHANGED intents
         /\ Become(p, "revoke_up", [loc[p] EXCEPT !.cur = k, !.staged = @ \ {k}])
    /\ UNCHANGED <<up, row, credential, holder, got, missed>>

MarkReadyFails(p) ==
    /\ pc[p] = "revoke"
    /\ \E k \in loc[p].staged :
         Become(p, "revoke", [loc[p] EXCEPT !.staged = @ \ {k}, !.failed = TRUE, !.listed = {}])
    /\ UNCHANGED <<up, data, credential, holder, got, missed>>

RevokeUpstream(p) ==
    /\ pc[p] = "revoke_up"
    /\ Dead(loc[p].cur)
    /\ Goto(p, "drop_row")
    /\ UNCHANGED <<data, credential, missed>>

DropRowOfScope(p) ==
    /\ pc[p] = "drop_row"
    /\ row' = [s \in Scopes |-> NoRow]
    /\ Goto(p, "drop_intent")
    /\ UNCHANGED <<up, intents, credential, got, missed>>

\* DeleteArtifactImmediately: only the row with this very key.
DropRow(p) ==
    /\ pc[p] = "drop_row"
    /\ row' = [s \in Scopes |-> IF row[s].key = loc[p].cur THEN NoRow ELSE row[s]]
    /\ Goto(p, "drop_intent")
    /\ UNCHANGED <<up, intents, credential, got, missed>>

DropIntent(p) ==
    LET k == loc[p].cur IN
    /\ pc[p] = "drop_intent"
    /\ Become(p, "revoke", [loc[p] EXCEPT !.cur = None])
    /\ IF Names(p, k) THEN DeleteIntent(k) ELSE UNCHANGED intents
    /\ UNCHANGED <<up, row, credential, holder, got, missed>>

\* The upstream or the database fails.  When it had done its part all the same,
\* that is the step before and then this one.
RevokeFails(p) ==
    /\ pc[p] \in {"revoke_up", "drop_row", "drop_intent"}
    /\ Become(p, "revoke", [loc[p] EXCEPT !.failed = TRUE, !.cur = None, !.listed = {}])
    /\ UNCHANGED <<up, data, credential, holder, got, missed>>

-----------------------------------------------------------------------------
\* The cleanup task.

ClaimProvisional(p, k) ==
    /\ pc[p] = "idle" /\ intent[k] = "provisional"
    /\ lease' = [lease EXCEPT ![k] = p]
    /\ Become(p, "resolve", [NoLoc EXCEPT !.then = "cleanup", !.cur = k])
    /\ UNCHANGED <<up, row, intent, settled, credential, holder, got, missed>>

\* ClaimRevocationIntents, with a lease that has run out or was never there.  A
\* provisional intent may have come due while its owner still works.
Claim(p, k) ==
    /\ pc[p] = "idle" /\ intent[k] # "none"
    /\ lease' = [lease EXCEPT ![k] = IF intent[k] = "ready" THEN None ELSE p]
    /\ Become(p, IF intent[k] = "ready" THEN "revoke_up" ELSE "resolve",
              [NoLoc EXCEPT !.then = "cleanup", !.cur = k])
    /\ UNCHANGED <<up, row, intent, settled, credential, holder, got, missed>>

\* ResolveProvisionalRevocationIntent waits for the credential row: whoever
\* staged the key has stored it by then, or never will.
Resolve(p) ==
    LET k == loc[p].cur
        kept == k \in Stored \ Hidden
    IN
    /\ pc[p] = "resolve" /\ holder = None
    /\ \/ lease[k] # p /\ End(p) /\ UNCHANGED intents
       \/ lease[k] = p /\ kept /\ End(p) /\ DeleteIntent(k)
       \/ lease[k] = p /\ ~kept /\ SetIntent(k, "ready") /\ Goto(p, "revoke_up")
    /\ UNCHANGED <<up, row, credential, got, missed>>

ResolveFails(p) ==
    LET k == loc[p].cur IN
    /\ pc[p] = "resolve"
    /\ lease' = [lease EXCEPT ![k] = IF @ = p THEN None ELSE @]
    /\ End(p)
    /\ UNCHANGED <<up, row, intent, settled, credential, got, missed>>

\* DeleteExpired leaves a hidden row to its revocation.
DeleteExpired ==
    LET Old(s) == row[s].key # None /\ up[row[s].key] = "expired" /\ ~row[s].pending IN
    /\ \E s \in Scopes : Old(s)
    /\ row' = [s \in Scopes |-> IF Old(s) THEN NoRow ELSE row[s]]
    /\ UNCHANGED <<up, intents, credential, holder, pc, loc, got, missed>>

-----------------------------------------------------------------------------

\* A key lives for at most five minutes.
Expire(k) ==
    /\ up[k] = "live"
    /\ up' = [up EXCEPT ![k] = "expired"]
    /\ got' = got \ {k}
    /\ UNCHANGED <<data, credential, holder, pc, loc, missed>>

\* The request is cancelled: its transaction is rolled back at once, and what
\* runs under artifactCompensationContext goes on without the lock.  Anything
\* else fails, as IssueFails, PutFails and ListFails have it.
Cancel(p) ==
    /\ holder = p /\ holder' = None
    /\ \/ pc[p] = "stage" /\ UNCHANGED loc
       \/ /\ pc[p] \in {"stage_ready", "revoke", "revoke_up", "drop_row", "drop_intent"}
          /\ loc' = [loc EXCEPT ![p].then = "plain", ![p].scope = None]
    /\ UNCHANGED <<up, data, credential, pc, got, missed>>

\* The process dies; its transaction is rolled back.
Crash(p) ==
    /\ pc[p] # "idle"
    /\ missed' = IF pc[p] = "stage" THEN missed \union {loc[p].own} ELSE missed
    /\ End(p)
    /\ UNCHANGED <<up, data, credential, got>>

Issuing(p) ==
    \/ \E s \in Scopes : StartIssue(p, s)
    \/ Issue(p) \/ Stage(p) \/ Put(p) \/ Finalize(p) \/ Confirm(p) \/ ConfirmRefused(p)

Invalidating(p) ==
    \/ StartInvalidation(p, "change") \/ StartInvalidation(p, "attention")
    \/ List(p) \/ StageReady(p) \/ MarkPending(p) \/ RevocationsEnd(p)

Revoking(p) ==
    \/ MarkReady(p) \/ RevokeUpstream(p) \/ DropRow(p) \/ DropIntent(p)

Cleanup(p) == Resolve(p) \/ \E k \in Keys : Claim(p, k)

Failure(p) ==
    \/ IssueFails(p) \/ StageFails(p) \/ PutFails(p) \/ FinalizeFails(p)
    \/ ListFails(p) \/ MarkPendingFails(p) \/ DeleteAllFails(p)
    \/ MarkReadyFails(p) \/ RevokeFails(p) \/ ResolveFails(p)
    \/ Cancel(p) \/ Crash(p)

Next ==
    \/ \E p \in Procs :
         Issuing(p) \/ Invalidating(p) \/ Revoking(p) \/ Cleanup(p) \/ Failure(p)
    \/ DeleteExpired
    \/ \E k \in Keys : Expire(k)

Spec == Init /\ [][Next]_vars

\* A process goes on or dies, the cleanup task comes round again and again, and some day
\* revocations fail no more and leases outlast what they were taken for.
Busy(p) ==
    pc[p] # "idle" /\ (Issuing(p) \/ Invalidating(p) \/ Revoking(p) \/ Cleanup(p) \/ Failure(p))

Trouble(p) ==
    \/ RevokeFails(p) \/ ResolveFails(p) \/ Crash(p)
    \/ pc'[p] = "resolve" /\ \E k \in Keys : lease[k] = p /\ lease'[k] # p

Fairness ==
    /\ \A p \in Procs : WF_vars(Busy(p))
    /\ \A k \in Keys : SF_vars(\E p \in Procs : holder = None /\ Claim(p, k))
    /\ <>[][\A p \in Procs : ~Trouble(p)]_vars

FairSpec == Spec /\ Fairness

-----------------------------------------------------------------------------
\* Properties

Row == [key : Keys \union {None}, pending : BOOLEAN]

Local == [scope : Scopes \union {None}, own : Keys \union {None}, out : Keys \union {None},
          then : {"", "plain", "issue", "change", "attention", "own", "cleanup"},
          listed : SUBSET Keys, todo : SUBSET Keys,
          staged : SUBSET Keys, cur : Keys \union {None}, failed : BOOLEAN]

Steps == {"idle", "issue", "stage", "put", "finalize", "confirm", "list", "stage_ready",
          "revoke", "revoke_up", "drop_row", "drop_intent", "resolve"}

\* The type invariant.
TypeOK ==
    /\ up \in [Keys -> {"unissued", "live", "revoked", "expired"}]
    /\ row \in [Scopes -> Row]
    /\ intent \in [Keys -> {"none", "provisional", "ready"}]
    /\ lease \in [Keys -> Procs \union {None}]
    /\ settled \subseteq Keys /\ active \in BOOLEAN /\ fenced \in BOOLEAN
    /\ holder \in Procs \union {None}
    /\ pc \in [Procs -> Steps] /\ loc \in [Procs -> Local]
    /\ got \subseteq Keys
    /\ missed \subseteq Keys

Recorded(k) ==
    \/ k \in Stored \/ intent[k] # "none"
    \/ \E p \in Procs : pc[p] = "stage" /\ loc[p].own = k

\* No key outlives what platform-mihomo knows of it: a key that works upstream
\* is stored or has an intent, whatever failed, died or raced, unless its issuer
\* never got to StageIssuedArtifact or an invalidation without the lock hid or
\* deleted a row it had not listed.
LiveKeysAreRecorded ==
    \A k \in Keys : up[k] = "live" => Recorded(k) \/ k \in missed

\* A row an invalidation has hidden blocks the binding until its key is revoked,
\* so somebody must still be told to: it has an intent in state ready.
HiddenRowsAreOwed == \A k \in Hidden \ missed : intent[k] = "ready"

\* What a fenced consumer was given before the fence is revoked or about to be:
\* ConfirmDeliverable and ApplyAuthorizationFence exclude each other on the
\* credential row, and the fence's InvalidateBinding has listed every key.
FencedKeysAreRevoked ==
    fenced => \A k \in got \ missed : intent[k] = "ready"

\* Whatever fails or dies, an intent is settled some day: its key is revoked, or it is
\* known to be stored (RetryPending).
IntentsSettle == \A k \in Keys : intent[k] # "none" ~> intent[k] = "none"

=============================================================================
