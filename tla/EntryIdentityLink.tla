-------------------------- MODULE EntryIdentityLink --------------------------
(* How a bot's user is linked to an account: the bot starts a challenge, the
   account's owner opens its link and approves or cancels it.  Approve locks the
   challenge, then the bot's credential and row, then the account; Start the
   credential alone; Preview nothing.  The transactions are READ COMMITTED.  A bot
   or credential that is disabled refuses a request, as every other error does.
   Epochs, grants and unlinks still pending are GrantPropagation's. *)
EXTENDS Naturals, FiniteSets

CONSTANTS
    Handlers,       \* requests at once (a bound)
    NoOne,
    Accounts, Subjects,
    Bots,           \* bots of one issuer, with a service credential each
    MaxChallenges,  \* challenges ever started (a bound)
    MaxPending      \* maxPendingChallenges

Challenges == 1 .. MaxChallenges

VARIABLES
    challenge,      \* the rows: [status, bot, subject]
    overdue,        \* the ones whose expires_at has passed
    identity,       \* the active rows of bot_identities: [owner, subject]
    linkPc, link,   \* the step of every request and its local variables
    linked          \* history: <<challenge, account>> of the approvals

linkVars == <<challenge, overdue, identity, linkPc, link, linked>>

NoChallenge == [status |-> "none", bot |-> NoOne, subject |-> NoOne]
NoWork == [c |-> NoOne, bot |-> NoOne, subject |-> NoOne, owner |-> NoOne,
           past |-> {}, new |-> {}, outcome |-> "none"]

At(p, step) == linkPc[p] = step
Goto(p, step) == linkPc' = [linkPc EXCEPT ![p] = step]
Stop(p) == Goto(p, "idle") /\ link' = [link EXCEPT ![p] = NoWork]

Init ==
    /\ challenge = [c \in Challenges |-> NoChallenge]
    /\ overdue = {} /\ identity = {}
    /\ linkPc = [p \in Handlers |-> "idle"] /\ link = [p \in Handlers |-> NoWork]
    /\ linked = {}

\* The rows that open transactions have locked.
Holds(p, steps) == linkPc[p] \in steps
ChallengeLocked(c) ==
    \E p \in Handlers : Holds(p, {"link", "insert", "commit"}) /\ link[p].c = c
PrincipalIgnored(b) == FALSE
PrincipalLocked(b) ==
    \E p \in Handlers : Holds(p, {"create", "link", "insert", "commit"}) /\ link[p].bot = b
AccountLocked(u) ==
    \E p \in Handlers : Holds(p, {"insert", "commit"}) /\ link[p].owner = u

-----------------------------------------------------------------------------
\* The time is read before the transaction that compares with it.
Start(p) ==
    \E b \in Bots, x \in Subjects :
        /\ At(p, "idle")
        /\ \E c \in Challenges : challenge[c].status = "none"
        /\ link' = [link EXCEPT ![p] = [NoWork EXCEPT !.bot = b, !.subject = x, !.past = overdue]]
        /\ Goto(p, "count")
        /\ UNCHANGED <<challenge, overdue, identity, linked>>

Pending(b, past) ==
    {c \in Challenges \ past : challenge[c].status = "pending" /\ challenge[c].bot = b}

CountPending(p) ==
    LET b == link[p].bot IN
    /\ At(p, "count") /\ ~PrincipalLocked(b)
    /\ IF Cardinality(Pending(b, link[p].past)) < MaxPending
       THEN Goto(p, "create") /\ UNCHANGED link ELSE Stop(p)
    /\ UNCHANGED <<challenge, overdue, identity, linked>>

\* Challenges are numbered as they are created.
Unused == {c \in Challenges : challenge[c].status = "none"}

CreateChallenge(p) ==
    \E c \in Challenges :
        /\ At(p, "create") /\ Unused = c .. MaxChallenges
        /\ challenge' = [challenge EXCEPT
                ![c] = [status |-> "pending", bot |-> link[p].bot, subject |-> link[p].subject]]
        /\ link' = [link EXCEPT ![p].c = c]
        /\ Goto(p, "url")
        /\ UNCHANGED <<overdue, identity, linked>>

Delete(cs) ==
    /\ challenge' = [c \in Challenges |-> IF c \in cs
                        THEN [challenge[c] EXCEPT !.status = "gone"] ELSE challenge[c]]
    /\ overdue' = overdue \ cs

\* A base URL that cannot be used: the challenge is deleted again.
BuildApprovalURL(p) ==
    /\ At(p, "url")
    /\ \/ UNCHANGED <<challenge, overdue>>
       \/ ~ChallengeLocked(link[p].c) /\ Delete({link[p].c})
    /\ Stop(p)
    /\ UNCHANGED <<identity, linked>>

-----------------------------------------------------------------------------
\* Approve by u, or Cancel (NoOne), up to the last of the locks (waiting for it
\* changes nothing); the update that marks an overdue challenge is rolled back.
LoadPending(p) ==
    \E c \in Challenges \ overdue, u \in Accounts \union {NoOne} :
        LET b == challenge[c].bot IN
        /\ At(p, "idle") /\ ~ChallengeLocked(c) /\ challenge[c].status = "pending"
        /\ ~PrincipalLocked(b)
        /\ link' = [link EXCEPT ![p] = [NoWork EXCEPT !.c = c, !.bot = b, !.owner = u,
                        !.subject = challenge[c].subject,
                        !.outcome = IF u = NoOne THEN "cancelled" ELSE "none"]]
        /\ Goto(p, IF u = NoOne THEN "commit" ELSE "link")
        /\ UNCHANGED <<challenge, overdue, identity, linked>>

Mine(p) == [owner |-> link[p].owner, subject |-> link[p].subject]
Winners(p) == {i \in identity : i.owner = link[p].owner \/ i.subject = link[p].subject}
Settle(p) == link' = [link EXCEPT ![p].outcome =
                        IF Mine(p) \in identity THEN "approved" ELSE "conflict"]

\* UpsertLinkTx: who has the subject, and which one has the account?
UpsertLink(p) ==
    /\ At(p, "link") /\ ~AccountLocked(link[p].owner)
    /\ IF Winners(p) # {} THEN Settle(p) /\ Goto(p, "commit")
       ELSE UNCHANGED link /\ Goto(p, "insert")
    /\ UNCHANGED <<challenge, overdue, identity, linked>>

InsertAtOnce(p) ==
    identity' = identity \union {Mine(p)} /\ link' = [link EXCEPT ![p].outcome = "approved"]
Insert(p) ==
    UNCHANGED identity /\ link' = [link EXCEPT ![p].outcome = "approved", ![p].new = {Mine(p)}]

\* ON CONFLICT DO NOTHING waits for a transaction that has the same key.
InsertLink(p) ==
    /\ At(p, "insert")
    /\ \A i \in UNION {link[q].new : q \in Handlers \ {p}} :
            i.owner # link[p].owner /\ i.subject # link[p].subject
    /\ IF Winners(p) # {} THEN Settle(p) /\ UNCHANGED identity ELSE Insert(p)
    /\ Goto(p, "commit")
    /\ UNCHANGED <<challenge, overdue, linked>>

ConsumeChallenge(p) ==
    /\ At(p, "commit") /\ challenge[link[p].c].status = "pending"
    /\ challenge' = [challenge EXCEPT ![link[p].c].status = link[p].outcome]
    /\ identity' = identity \union link[p].new
    /\ linked' = IF link[p].outcome = "approved"
                 THEN linked \union {<<link[p].c, link[p].owner>>} ELSE linked
    /\ Stop(p)
    /\ UNCHANGED overdue

\* A constraint, a refusal, an unlink still pending, the end of the process.
Fail(p) ==
    /\ ~At(p, "idle")
    /\ Stop(p)
    /\ UNCHANGED <<challenge, overdue, identity, linked>>

-----------------------------------------------------------------------------
\* Preview marks an overdue challenge by a statement of its own, whatever has
\* become of it since it was read; one that is not overdue is left (Fail).
Preview(p) ==
    \E c \in Challenges :
        /\ At(p, "idle") /\ challenge[c].status = "pending"
        /\ link' = [link EXCEPT ![p] = [NoWork EXCEPT !.c = c]]
        /\ Goto(p, "preview")
        /\ UNCHANGED <<challenge, overdue, identity, linked>>

MarkExpired(p) ==
    LET c == link[p].c IN
    /\ At(p, "preview") /\ c \in overdue /\ ~ChallengeLocked(c)
    /\ challenge' = [challenge EXCEPT ![c].status = "expired"]
    /\ Stop(p)
    /\ UNCHANGED <<overdue, identity, linked>>

GrowOld(c) ==
    /\ challenge[c].status \notin {"none", "gone"} /\ c \notin overdue
    /\ overdue' = overdue \union {c}
    /\ UNCHANGED <<challenge, identity, linkPc, link, linked>>

CleanExpiredChallenges ==
    /\ overdue # {} /\ \A c \in overdue : ~ChallengeLocked(c)
    /\ Delete(overdue)
    /\ UNCHANGED <<identity, linkPc, link, linked>>

\* The owner unlinks, with the account locked.
Unlink(u) ==
    /\ \E i \in identity : i.owner = u
    /\ ~AccountLocked(u)
    /\ identity' = {i \in identity : i.owner # u}
    /\ UNCHANGED <<challenge, overdue, linkPc, link, linked>>

Next ==
    \/ \E p \in Handlers :
        \/ Start(p) \/ CountPending(p) \/ CreateChallenge(p) \/ BuildApprovalURL(p)
        \/ LoadPending(p) \/ UpsertLink(p) \/ InsertLink(p)
        \/ ConsumeChallenge(p) \/ Fail(p) \/ Preview(p) \/ MarkExpired(p)
    \/ \E c \in Challenges : GrowOld(c)
    \/ CleanExpiredChallenges
    \/ \E u \in Accounts : Unlink(u)

Spec == Init /\ [][Next]_linkVars

-----------------------------------------------------------------------------
\* A bot never has more challenges open than maxPendingChallenges, however its
\* requests for new ones overlap.
CapacityHolds == \A b \in Bots : Cardinality(Pending(b, overdue)) <= MaxPending

\* Each identity is one its owner approved, by a challenge that has linked no
\* one else, was not cancelled, and is not open to be approved again: however
\* two owners approve, a request dies half-way or a challenge grows old.
LinksAreApproved ==
    /\ \A i \in identity : \E a \in linked :
            a[2] = i.owner /\ challenge[a[1]].subject = i.subject
    /\ \A a, b \in linked : a[1] = b[1] => a = b
    /\ \A a \in linked : challenge[a[1]].status \in {"approved", "expired", "gone"}
=============================================================================
