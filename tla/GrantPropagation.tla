--------------------------- MODULE GrantPropagation ---------------------------
(***************************************************************************)
(* How a change of a consumer grant, or the unlinking of an entry          *)
(* identity, reaches the tickets that are already out.                     *)
(*                                                                         *)
(* account-center keeps a row per grant and the entry epochs of its user;  *)
(* it commits the change first and then raises a fence on platform-mihomo, *)
(* which judges tickets by that fence alone.  One binding of one user; its *)
(* grants are named by their consumer.  A worker is a request handler or a *)
(* reconcile task; between two of its steps the others run.                *)
(***************************************************************************)
EXTENDS Naturals, FiniteSets

CONSTANTS
    Consumers,        \* the consumers a grant may name
    Bots,             \* the bots the user may be linked to
    BotOf,            \* the bot each consumer's service credential belongs to
    Unlinks,          \* operation ids of unlink requests
    Workers,
    NoUnlink,         \* a worker that is not unlinking anything
    LateGrants,       \* may a grant be created while an unlink is collecting?
    MaxVersion,       \* bound: no grant is changed beyond this version
    MaxGeneration,    \* bound: the credential is not replaced beyond this one
    MaxInFlight,      \* bound: fence requests under way at a time
    MaxFailures,      \* bound: fence operations that fail, or die, for reasons of their own
    MaxTickets        \* bound: tickets issued

ASSUME BotOfAssumption == Consumers # {} /\ BotOf \in [Consumers -> Bots]
ASSUME NoUnlinkAssumption == NoUnlink \notin Unlinks
ASSUME RegimeAssumption == LateGrants \in BOOLEAN
ASSUME BoundAssumption ==
    {MaxVersion, MaxGeneration, MaxInFlight, MaxFailures, MaxTickets} \subseteq Nat

VARIABLES
    grant,        \* consumer_grants
    identity,     \* bot_identities: is the bot linked, its newest row's epoch
    unlink,       \* entry_identity_unlink_operations and their targets
    generation,   \* of the binding, as account-center knows it
    credential,   \* generation of the credential on platform-mihomo
    fence,        \* authorization_fences and consumer_grant_invalidations
    applied,      \* fence operations whose ledger row says succeeded
    refused,      \* fence operations whose row is failed, or pending for ever
    net,          \* fence requests under way
    tickets,      \* service tickets issued so far
    pc, call,     \* each worker: its next step, the fence operation it is about
    task          \* each worker: the unlink it serves, the targets it has left

acVars == <<grant, identity, unlink, generation>>
platformVars == <<credential, fence, applied, refused>>
workerVars == <<pc, call, task>>
vars == <<acVars, platformVars, net, tickets, workerVars>>

\* DeterministicID: the id of a fence operation is a digest of this tuple.
FenceId == [consumer : Consumers, gen : Nat, version : Nat, epoch : Nat]
Fence(c, g, v, e) == [consumer |-> c, gen |-> g, version |-> v, epoch |-> e]

\* COALESCE(MAX(entry_epoch), 1), over the deleted rows too.
IsHighestEpoch(e) == \A b \in Bots : identity[b].epoch <= e
Epochs == {identity[b].epoch : b \in Bots} \union {1}

Greatest(m, n) == IF m >= n THEN m ELSE n

NoCall == Fence(CHOOSE c \in Consumers : TRUE, 0, 0, 0)

Exists(c) == grant[c].status # "none"

\* The user's row is locked from the moment an unlink looks up the identity.
UserLocked == \E w \in Workers : pc[w] = "collected"

Idle == [unlink |-> NoUnlink, bot |-> CHOOSE b \in Bots : TRUE, todo |-> {}]

\* Where a worker goes when an invalidation is over, however it ended.
Return(w) ==
    /\ pc' = [pc EXCEPT ![w] = IF task[w].unlink = NoUnlink THEN "idle" ELSE "unlinking"]
    /\ call' = [call EXCEPT ![w] = NoCall]

Init ==
    /\ grant = [c \in Consumers |->
                  [status |-> "none", version |-> 0, invalidated |-> FALSE, pending |-> 0]]
    /\ identity \in [Bots -> [linked : BOOLEAN, epoch : {1}]]
    /\ unlink = [u \in Unlinks |-> [state |-> "none", bot |-> CHOOSE b \in Bots : TRUE,
                                    epoch |-> 0, targets |-> {}, confirmed |-> {}]]
    /\ generation = 1
    /\ credential = 1
    /\ fence = [c \in Consumers |-> [version |-> 0, epoch |-> 0]]
    /\ applied = {} /\ refused = {} /\ net = {} /\ tickets = {}
    /\ pc = [w \in Workers |-> "idle"]
    /\ call = [w \in Workers |-> NoCall]
    /\ task = [w \in Workers |-> Idle]

-----------------------------------------------------------------------------
\* account-center: a request changes a grant

\* getBinding reads the generation before the transaction begins.
LoadBinding(w, c, step) ==
    /\ pc[w] = "idle"
    /\ grant[c].version < MaxVersion
    /\ pc' = [pc EXCEPT ![w] = step]
    /\ call' = [call EXCEPT ![w] = Fence(c, generation, 0, 0)]
    /\ UNCHANGED <<acVars, platformVars, net, tickets, task>>

\* invalidateGrant: send the fence of the version and epoch just written.  At
\* the bound the request is lost.
Invalidate(w, id) ==
    /\ call' = [call EXCEPT ![w] = id]
    /\ net' = IF Cardinality(net) < MaxInFlight THEN net \union {id} ELSE net
    /\ pc' = [pc EXCEPT ![w] = "fencing"]

CreateGrant(w, c, status) ==
    /\ ~Exists(c)
    /\ LateGrants \/ ~UserLocked
    /\ grant' = [grant EXCEPT ![c] = [status |-> status, version |-> 1,
                                      invalidated |-> FALSE, pending |-> 0]]

\* UpsertGrant.  A change of status or actions is a new version; an older
\* change still waiting for its fence is propagated again.
Upsert(w) ==
    LET c == call[w].consumer
        g == grant[c]
    IN
    /\ pc[w] = "upsert"
    /\ \/ CreateGrant(w, c, "active") /\ Return(w) /\ UNCHANGED net
       \/ \E changed \in BOOLEAN :
            LET bump == changed \/ g.status = "revoked"
                version == IF bump THEN g.version + 1 ELSE g.version
                confirmed == g.invalidated /\ ~bump
            IN
            /\ Exists(c)
            /\ grant' = [grant EXCEPT ![c].status = "active",
                                      ![c].version = version,
                                      ![c].invalidated = confirmed]
            /\ IF bump \/ (~confirmed /\ version > 1)
                 THEN Invalidate(w, Fence(c, call[w].gen, version, g.pending))
                 ELSE Return(w) /\ UNCHANGED net
    /\ UNCHANGED <<identity, unlink, generation, platformVars, tickets, task>>

\* RevokeGrant.  A missing grant is created revoked; a revoked one only has
\* its fence sent again, if that is still owed.
Revoke(w) ==
    LET c == call[w].consumer
        g == grant[c]
    IN
    /\ pc[w] = "revoke"
    /\ \/ /\ CreateGrant(w, c, "revoked")
          /\ Invalidate(w, Fence(c, call[w].gen, 1, 0))
       \/ /\ g.status = "revoked"
          /\ IF g.invalidated
               THEN Return(w) /\ UNCHANGED net
               ELSE Invalidate(w, Fence(c, call[w].gen, g.version, g.pending))
          /\ UNCHANGED grant
       \/ /\ g.status = "active"
          /\ grant' = [grant EXCEPT ![c].status = "revoked",
                                    ![c].version = @ + 1,
                                    ![c].invalidated = FALSE]
          /\ Invalidate(w, Fence(c, call[w].gen, g.version + 1, g.pending))
    /\ UNCHANGED <<identity, unlink, generation, platformVars, tickets, task>>

-----------------------------------------------------------------------------
\* account-center: propagate what a grant row still owes

ReadGrantIgnoresEpoch(w, c) ==
    /\ Exists(c)
    /\ IF grant[c].invalidated
         THEN Return(w)
         ELSE /\ pc' = [pc EXCEPT ![w] = "read"]
              /\ call' = [call EXCEPT ![w] = Fence(c, 0, grant[c].version, 0)]
    /\ UNCHANGED <<acVars, platformVars, net, tickets>>

\* ReconcileGrantInvalidation reads the row, then the binding.
ReadGrant(w, c) ==
    /\ Exists(c)
    /\ IF grant[c].invalidated
         THEN Return(w)
         ELSE /\ pc' = [pc EXCEPT ![w] = "read"]
              /\ call' = [call EXCEPT ![w] = Fence(c, 0, grant[c].version, grant[c].pending)]
    /\ UNCHANGED <<acVars, platformVars, net, tickets>>

\* The dispatcher enqueues a task for every row not yet invalidated.
Reconcile(w, c) ==
    /\ pc[w] = "idle"
    /\ ~grant[c].invalidated
    /\ ReadGrant(w, c)
    /\ UNCHANGED task

ReadBindingOnce(w) ==
    /\ pc[w] = "read"
    /\ Invalidate(w, [call[w] EXCEPT !.gen = 1])
    /\ UNCHANGED <<acVars, platformVars, tickets, task>>

\* The generation is read afresh: a replaced credential makes a new operation.
ReadBinding(w) ==
    /\ pc[w] = "read"
    /\ Invalidate(w, [call[w] EXCEPT !.gen = generation])
    /\ UNCHANGED <<acVars, platformVars, tickets, task>>

\* Only SUCCEEDED for this very operation counts as an answer.
FenceAnswered(w) ==
    /\ pc[w] = "fencing"
    /\ call[w] \in applied
    /\ pc' = [pc EXCEPT ![w] = "fenced"]
    /\ UNCHANGED <<acVars, platformVars, net, tickets, call, task>>

\* FAILED, PENDING, an error, or the 5 s deadline: propagation stays pending.
FenceUnanswered(w) ==
    /\ pc[w] = "fencing"
    /\ Return(w)
    /\ UNCHANGED <<acVars, platformVars, net, tickets, task>>

ConfirmsIgnoringVersion(id) == grant[id.consumer].pending = id.epoch

ConfirmsIgnoringEpoch(id) == grant[id.consumer].version = id.version

\* completeGrantInvalidation's compare-and-set on version and pending epoch.
Confirms(id) ==
    /\ grant[id.consumer].version = id.version
    /\ grant[id.consumer].pending = id.epoch

\* Nothing matched because another worker has confirmed the same version.
AlreadyConfirmed(id) ==
    /\ grant[id.consumer].version = id.version
    /\ grant[id.consumer].pending = 0
    /\ grant[id.consumer].invalidated

\* The unlink operations whose target this confirmation settles.
Covers(id, u) ==
    /\ id.epoch > 0
    /\ id.consumer \in unlink[u].targets
    /\ unlink[u].epoch <= id.epoch

ConfirmFirstTarget(id) ==
    unlink' = [u \in Unlinks |->
        IF ~Covers(id, u) THEN unlink[u]
        ELSE [unlink[u] EXCEPT !.confirmed = @ \union {id.consumer}, !.state = "complete"]]

\* An operation is complete once no target of it is unconfirmed.
ConfirmTargets(id) ==
    unlink' = [u \in Unlinks |->
        IF ~Covers(id, u) THEN unlink[u]
        ELSE LET confirmed == unlink[u].confirmed \union {id.consumer}
             IN [unlink[u] EXCEPT !.confirmed = confirmed,
                   !.state = IF unlink[u].targets \subseteq confirmed THEN "complete" ELSE @]]

\* completeGrantInvalidation, one transaction; an error changes nothing.
Complete(w) ==
    /\ pc[w] = "fenced"
    /\ \/ /\ Confirms(call[w])
          /\ grant' = [grant EXCEPT ![call[w].consumer].invalidated = TRUE,
                                    ![call[w].consumer].pending = 0]
          /\ ConfirmTargets(call[w])
       \/ /\ ~Confirms(call[w]) /\ AlreadyConfirmed(call[w])
          /\ ConfirmTargets(call[w])
          /\ UNCHANGED grant
       \/ /\ ~Confirms(call[w]) /\ ~AlreadyConfirmed(call[w])
          /\ UNCHANGED <<grant, unlink>>
    /\ Return(w)
    /\ UNCHANGED <<identity, generation, platformVars, net, tickets, task>>

-----------------------------------------------------------------------------
\* account-center: unlink and link an entry identity

BotConsumers(b) == {c \in Consumers : BotOf[c] = b}

\* admitUnlink up to the query that collects the grants: it sees the grants
\* committed so far and holds the user's row.
UnlinkCollect(w, u, b) ==
    /\ pc[w] = "idle" /\ ~UserLocked
    /\ unlink[u].state = "none"
    /\ identity[b].linked
    /\ pc' = [pc EXCEPT ![w] = "collected"]
    /\ task' = [task EXCEPT ![w] = [unlink |-> u, bot |-> b,
                                    todo |-> {c \in BotConsumers(b) : Exists(c)}]]
    /\ UNCHANGED <<acVars, platformVars, net, tickets, call>>

\* The new epoch is owed to the grant, whatever it had confirmed before.
Pending(g, e) == [g EXCEPT !.pending = Greatest(@, e), !.invalidated = FALSE]

\* The rest of admitUnlink, and its commit: every live identity moves to the
\* new epoch, the grants owe a fence of that epoch, the identity is deleted.
UnlinkCommit(w) ==
    LET u == task[w].unlink
        bot == task[w].bot
        targets == task[w].todo
    IN
    /\ pc[w] = "collected"
    /\ \E highest \in Epochs :
         /\ IsHighestEpoch(highest)
         /\ identity' = [b \in Bots |->
              [linked |-> identity[b].linked /\ b # bot,
               epoch |-> IF identity[b].linked THEN highest + 1 ELSE identity[b].epoch]]
         /\ unlink' = [unlink EXCEPT ![u] =
              [state |-> IF targets = {} THEN "complete" ELSE "pending", bot |-> bot,
               epoch |-> highest + 1, targets |-> targets, confirmed |-> {}]]
         /\ grant' = [c \in Consumers |->
              IF c \in targets THEN Pending(grant[c], highest + 1) ELSE grant[c]]
    /\ pc' = [pc EXCEPT ![w] = "unlinking"]
    /\ UNCHANGED <<generation, platformVars, net, tickets, call, task>>

\* The same operation id again: go on with the targets still unconfirmed.
UnlinkReplay(w, u) ==
    /\ pc[w] = "idle" /\ ~UserLocked
    /\ unlink[u].state = "pending"
    /\ pc' = [pc EXCEPT ![w] = "unlinking"]
    /\ task' = [task EXCEPT ![w] = [unlink |-> u, bot |-> unlink[u].bot,
                                    todo |-> unlink[u].targets \ unlink[u].confirmed]]
    /\ UNCHANGED <<acVars, platformVars, net, tickets, call>>

UnlinkTarget(w, c) ==
    /\ pc[w] = "unlinking"
    /\ c \in task[w].todo
    /\ task' = [task EXCEPT ![w].todo = @ \ {c}]
    /\ ReadGrant(w, c)

\* refreshUnlinkState, for Unlink itself and for UnlinkStatus.
Refresh(u) ==
    unlink' = [unlink EXCEPT ![u].state =
                 IF @ = "pending" /\ unlink[u].targets \subseteq unlink[u].confirmed
                   THEN "complete" ELSE @]

UnlinkFinish(w) ==
    /\ pc[w] = "unlinking"
    /\ task[w].todo = {}
    /\ Refresh(task[w].unlink)
    /\ pc' = [pc EXCEPT ![w] = "idle"]
    /\ task' = [task EXCEPT ![w] = Idle]
    /\ UNCHANGED <<grant, identity, generation, platformVars, net, tickets, call>>

LinkAtFirstEpoch(b) ==
    /\ ~UserLocked
    /\ ~identity[b].linked
    /\ identity' = [identity EXCEPT ![b] = [linked |-> TRUE, epoch |-> 1]]
    /\ UNCHANGED <<grant, unlink, generation, platformVars, net, tickets, workerVars>>

\* UpsertLinkTx: refused while an unlink of the bot waits for a target.
Link(b) ==
    /\ ~UserLocked
    /\ ~identity[b].linked
    /\ \A u \in Unlinks : unlink[u].bot = b /\ unlink[u].state = "pending" =>
                            unlink[u].targets \subseteq unlink[u].confirmed
    /\ \E highest \in Epochs :
         /\ IsHighestEpoch(highest)
         /\ identity' = [identity EXCEPT ![b] = [linked |-> TRUE, epoch |-> highest]]
    /\ UNCHANGED <<grant, unlink, generation, platformVars, net, tickets, workerVars>>

\* IssueServiceTicket: identity, binding and grant are read in one snapshot.
IssueTicket(c) ==
    /\ Cardinality(tickets) < MaxTickets
    /\ grant[c].status = "active"
    /\ identity[BotOf[c]].linked
    /\ tickets' = tickets \union {[consumer |-> c, version |-> grant[c].version,
                                   epoch |-> identity[BotOf[c]].epoch, gen |-> generation]}
    /\ UNCHANGED <<acVars, platformVars, net, workerVars>>

\* The handler's process dies or its request is cancelled.
Crash(w) ==
    /\ pc[w] # "idle"
    /\ pc' = [pc EXCEPT ![w] = "idle"]
    /\ call' = [call EXCEPT ![w] = NoCall]
    /\ task' = [task EXCEPT ![w] = Idle]
    /\ UNCHANGED <<acVars, platformVars, net, tickets>>

-----------------------------------------------------------------------------
\* platform-mihomo

RaiseOverwrites(f, id) == [version |-> id.version, epoch |-> id.epoch]

\* Both tables keep the greater of the stored and the new minimum.
Raise(f, id) == [version |-> Greatest(f.version, id.version),
                  epoch |-> Greatest(f.epoch, id.epoch)]

\* ApplyAuthorizationFence.  A second delivery is answered from the ledger; a
\* first one takes effect only on the generation the request names.
Deliver(id) ==
    /\ id \in net
    /\ net' = net \ {id}
    /\ \/ /\ id \in applied \union refused
          /\ UNCHANGED platformVars
       \/ /\ id \notin applied \union refused
          /\ id.gen = credential
          /\ fence' = [fence EXCEPT ![id.consumer] = Raise(@, id)]
          /\ applied' = applied \union {id}
          /\ UNCHANGED <<credential, refused>>
       \/ /\ id \notin applied \union refused
          /\ id.gen # credential
          /\ refused' = refused \union {id}
          /\ UNCHANGED <<credential, fence, applied>>
    /\ UNCHANGED <<acVars, tickets, workerVars>>

\* The mutation fails, or its process dies and leaves the row pending: the
\* ledger never executes this operation id again.
FenceFails(id) ==
    /\ Cardinality(refused) < MaxFailures
    /\ id \in net /\ id \notin applied \union refused
    /\ net' = net \ {id}
    /\ refused' = refused \union {id}
    /\ UNCHANGED <<acVars, credential, fence, applied, tickets, workerVars>>

Lose(id) ==
    /\ id \in net
    /\ net' = net \ {id}
    /\ UNCHANGED <<acVars, platformVars, tickets, workerVars>>

\* A credential operation succeeds here first; account-center's binding row
\* follows, and starts no other operation before.
ReplaceCredential ==
    /\ credential = generation
    /\ credential < MaxGeneration
    /\ credential' = credential + 1
    /\ UNCHANGED <<acVars, fence, applied, refused, net, tickets, workerVars>>

ProjectGeneration ==
    /\ generation # credential
    /\ generation' = credential
    /\ UNCHANGED <<grant, identity, unlink, platformVars, net, tickets, workerVars>>

\* TicketVerifier: at or above every minimum and of the current generation.
Accepted(t) ==
    /\ t.version >= fence[t.consumer].version
    /\ t.epoch >= fence[t.consumer].epoch
    /\ t.gen = credential

-----------------------------------------------------------------------------

UnlinkStatus(u) ==
    /\ Refresh(u)
    /\ UNCHANGED <<grant, identity, generation, platformVars, net, tickets, workerVars>>

GrantRequest(w) ==
    \/ \E c \in Consumers : LoadBinding(w, c, "upsert") \/ LoadBinding(w, c, "revoke")
    \/ Upsert(w) \/ Revoke(w)

Propagation(w) ==
    \/ \E c \in Consumers : Reconcile(w, c)
    \/ ReadBinding(w) \/ FenceAnswered(w) \/ FenceUnanswered(w) \/ Complete(w)

Unlinking(w) ==
    \/ \E u \in Unlinks : UnlinkReplay(w, u) \/ \E b \in Bots : UnlinkCollect(w, u, b)
    \/ \E c \in Consumers : UnlinkTarget(w, c)
    \/ UnlinkCommit(w) \/ UnlinkFinish(w)

Platform ==
    \/ \E id \in net : Deliver(id) \/ FenceFails(id) \/ Lose(id)
    \/ ReplaceCredential \/ ProjectGeneration

Next ==
    \/ \E w \in Workers : GrantRequest(w) \/ Propagation(w) \/ Unlinking(w) \/ Crash(w)
    \/ \E u \in Unlinks : UnlinkStatus(u)
    \/ \E b \in Bots : Link(b)
    \/ \E c \in Consumers : IssueTicket(c)
    \/ Platform

Spec == Init /\ [][Next]_vars

\* The dispatcher wakes a task for every pending grant each minute, handlers go
\* on unless they die, and outages and crashes end: the request a worker waits
\* for is delivered, answered and recorded if it is sent often enough.
Fairness ==
    /\ \A w \in Workers :
         /\ WF_vars(GrantRequest(w) \/ Propagation(w) \/ Unlinking(w))
         /\ \A c \in Consumers : SF_vars(Reconcile(w, c))
         /\ SF_vars(ReadBinding(w))
         /\ SF_vars(pc[w] = "fencing" /\ Deliver(call[w]))
         /\ SF_vars(FenceAnswered(w))
         /\ SF_vars(Complete(w))
    /\ WF_vars(\E id \in net : Deliver(id) \/ Lose(id))
    /\ WF_vars(ProjectGeneration)

FairSpec == Spec /\ Fairness

-----------------------------------------------------------------------------
\* Properties

Grant == [status : {"none", "active", "revoked"}, version : Nat,
          invalidated : BOOLEAN, pending : Nat]

Unlink == [state : {"none", "pending", "complete"}, bot : Bots, epoch : Nat,
           targets : SUBSET Consumers, confirmed : SUBSET Consumers]

Ticket == [consumer : Consumers, version : Nat, epoch : Nat, gen : Nat]

Steps == {"idle", "upsert", "revoke", "read", "fencing", "fenced", "collected", "unlinking"}

AccountOK ==
    /\ grant \in [Consumers -> Grant]
    /\ identity \in [Bots -> [linked : BOOLEAN, epoch : Nat]]
    /\ unlink \in [Unlinks -> Unlink]
    /\ generation \in Nat

PlatformOK ==
    /\ credential \in Nat
    /\ fence \in [Consumers -> [version : Nat, epoch : Nat]]
    /\ applied \subseteq FenceId /\ refused \subseteq FenceId

WorkersOK ==
    /\ pc \in [Workers -> Steps]
    /\ call \in [Workers -> FenceId]
    /\ task \in [Workers -> [unlink : Unlinks \union {NoUnlink}, bot : Bots,
                             todo : SUBSET Consumers]]

\* The type invariant.
TypeOK ==
    AccountOK /\ PlatformOK /\ WorkersOK /\ net \subseteq FenceId /\ tickets \subseteq Ticket

\* What account-center has recorded as propagated is in force on
\* platform-mihomo: last_invalidated_at is only set for the version the fence
\* was raised for, and a target only confirmed for an epoch it was raised to
\* (completeGrantInvalidation), however many newer changes ran in between.
ConfirmedIsInForce ==
    /\ \A c \in Consumers : grant[c].invalidated => fence[c].version >= grant[c].version
    /\ \A u \in Unlinks : \A c \in unlink[u].confirmed : fence[c].epoch >= unlink[u].epoch

\* A target an unlink still waits for is a row the dispatcher will find, and
\* that row still owes the unlink's epoch or a later one: no grant request or
\* completion running meanwhile drops it.
UnconfirmedIsOwed ==
    \A u \in Unlinks : \A c \in unlink[u].targets \ unlink[u].confirmed :
        /\ unlink[u].state = "pending"
        /\ ~grant[c].invalidated
        /\ grant[c].pending >= unlink[u].epoch

\* Once the revocation of a grant is recorded as propagated, platform-mihomo
\* accepts no ticket ever issued for it, not even one issued in the instant
\* before the revocation: TicketVerifier against ApplyAuthorizationFence.
RevokedIsRefused ==
    \A t \in tickets :
        LET g == grant[t.consumer] IN
        g.status = "revoked" /\ g.invalidated => ~Accepted(t)

\* Once an unlink answers UNLINKED, no ticket issued under the identity that
\* was unlinked is accepted, for any consumer of its bot.
UnlinkedIsRefused ==
    \A u \in Unlinks : unlink[u].state = "complete" =>
        \A t \in tickets :
            BotOf[t.consumer] = unlink[u].bot /\ t.epoch < unlink[u].epoch => ~Accepted(t)

\* The fences never refuse what account-center would issue now: no late or
\* repeated fence is above the version of an active grant or the epoch of a
\* linked identity.
NoLockout ==
    \A c \in Consumers :
        /\ fence[c].version <= grant[c].version
        /\ identity[BotOf[c]].linked => fence[c].epoch <= identity[BotOf[c]].epoch

\* Every change of a grant is propagated in the end: what
\* TestGrantServiceRevokeGrantInvalidatorFailureLeavesRetryableRevocation and
\* the integration test of a lost fence response expect of a retry.
ChangesPropagate == \A c \in Consumers : Exists(c) ~> grant[c].invalidated

\* Every unlink is confirmed by all its targets in the end.
UnlinksSettle == \A u \in Unlinks : unlink[u].state = "pending" ~> unlink[u].state = "complete"

=============================================================================
