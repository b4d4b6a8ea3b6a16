----------------------- MODULE EntryIdentityLinkProofs -----------------------
(* Every identity comes from an approval of its own, for any accounts, subjects,
   bots, challenges and requests.  The property is not inductive: the invariant
   says what a request knows of the challenge it has locked. *)
EXTENDS EntryIdentityLink, FiniteSetTheorems, TLAPS

Statuses == {"none", "pending", "approved", "cancelled", "conflict", "expired", "gone"}
Steps == {"idle", "count", "create", "url", "link", "insert", "commit", "preview"}
Identities == [owner : Accounts \union {NoOne}, subject : Subjects \union {NoOne}]
Rows == [status : Statuses, bot : Bots \union {NoOne}, subject : Subjects \union {NoOne}]
Works == [c : Challenges \union {NoOne}, bot : Bots \union {NoOne},
          subject : Subjects \union {NoOne}, owner : Accounts \union {NoOne},
          past : SUBSET Challenges, new : SUBSET Identities, outcome : Statuses]

TypeInv ==
    /\ challenge \in [Challenges -> Rows]
    /\ overdue \subseteq Challenges /\ identity \subseteq Identities
    /\ linkPc \in [Handlers -> Steps] /\ link \in [Handlers -> Works]
    /\ linked \subseteq Challenges \X (Accounts \union {NoOne})

Locking(p) == linkPc[p] \in {"link", "insert", "commit"}

\* Who has a challenge locked finds it as it was when it was read, and has
\* written no identity but the one it will approve.
Knows(p) ==
    /\ link[p].c \in Challenges /\ challenge[link[p].c].status = "pending"
    /\ link[p].subject = challenge[link[p].c].subject
    /\ link[p].new \subseteq {Mine(p)}
    /\ link[p].new # {} => linkPc[p] = "commit" /\ link[p].outcome = "approved"

LocksAreGood == \A p \in Handlers : Locking(p) => Knows(p)

OneLocks ==
    \A p, q \in Handlers : Locking(p) /\ Locking(q) /\ link[p].c = link[q].c => p = q

IInv == TypeInv /\ LocksAreGood /\ OneLocks /\ LinksAreApproved

-----------------------------------------------------------------------------
\* A request that has no challenge locked, before or after, changes its own
\* variables only: nothing is disturbed.
LEMMA LocalSteps ==
    ASSUME IInv, NEW p \in Handlers, NEW at \in Steps, NEW w \in Works,
           linkPc' = [linkPc EXCEPT ![p] = at], link' = [link EXCEPT ![p] = w],
           at \notin {"link", "insert", "commit"},
           UNCHANGED <<challenge, overdue, identity, linked>>
    PROVE  IInv'
<1> USE DEF IInv
<1>1. TypeInv' BY DEF TypeInv
<1>2. \A q \in Handlers : Locking(q)' => q # p /\ Locking(q) /\ link'[q] = link[q]
    BY DEF TypeInv, Locking
<1>3. LocksAreGood' BY <1>2 DEF LocksAreGood, Knows, Mine
<1>4. OneLocks' BY <1>2 DEF OneLocks
<1>5. LinksAreApproved' BY DEF LinksAreApproved
<1> QED BY <1>1, <1>3, <1>4, <1>5

\* Rows change in a way that disturbs no lock and no approval.
LEMMA RowSteps ==
    ASSUME IInv, NEW p \in Handlers, NEW at \in Steps, NEW w \in Works,
           linkPc' = [linkPc EXCEPT ![p] = at], link' = [link EXCEPT ![p] = w],
           at \notin {"link", "insert", "commit"},
           challenge' \in [Challenges -> Rows], overdue' \subseteq Challenges,
           \A q \in Handlers : q # p /\ Locking(q)
                => challenge'[link[q].c] = challenge[link[q].c],
           \A a \in linked : /\ challenge'[a[1]].subject = challenge[a[1]].subject
                             /\ challenge'[a[1]].status \in {"approved", "expired", "gone"},
           UNCHANGED <<identity, linked>>
    PROVE  IInv'
<1> USE DEF IInv
<1>1. TypeInv' BY DEF TypeInv
<1>2. \A q \in Handlers : Locking(q)' => q # p /\ Locking(q) /\ link'[q] = link[q]
    BY DEF TypeInv, Locking
<1>3. LocksAreGood' BY <1>2 DEF LocksAreGood, Knows, Mine
<1>4. OneLocks' BY <1>2 DEF OneLocks
<1>5. LinksAreApproved' BY DEF LinksAreApproved
<1> QED BY <1>1, <1>3, <1>4, <1>5

\* Rows change while every request stands still.
LEMMA TableSteps ==
    ASSUME IInv, UNCHANGED <<linkPc, link, linked>>,
           challenge' \in [Challenges -> Rows], overdue' \subseteq Challenges,
           identity' \subseteq identity,
           \A q \in Handlers : Locking(q) => challenge'[link[q].c] = challenge[link[q].c],
           \A a \in linked : /\ challenge'[a[1]].subject = challenge[a[1]].subject
                             /\ challenge'[a[1]].status \in {"approved", "expired", "gone"}
    PROVE  IInv'
<1> USE DEF IInv
<1>1. TypeInv' BY DEF TypeInv
<1>2. LocksAreGood' BY DEF LocksAreGood, Locking, Knows, Mine
<1>3. OneLocks' BY DEF OneLocks, Locking
<1>4. LinksAreApproved' BY DEF LinksAreApproved
<1> QED BY <1>1, <1>2, <1>3, <1>4

\* Deleting what nobody has locked disturbs no lock and no approval.
LEMMA DeleteKeeps ==
    ASSUME TypeInv, LinksAreApproved, NEW cs, Delete(cs),
           NEW q \in Handlers, link[q].c \in Challenges \ cs
    PROVE  challenge'[link[q].c] = challenge[link[q].c]
BY DEF TypeInv, Delete

LEMMA DeleteIsSafe ==
    ASSUME TypeInv, LinksAreApproved, NEW cs, Delete(cs)
    PROVE  /\ challenge' \in [Challenges -> Rows] /\ overdue' \subseteq Challenges
           /\ \A a \in linked : /\ challenge'[a[1]].subject = challenge[a[1]].subject
                                /\ challenge'[a[1]].status \in {"approved", "expired", "gone"}
<1>1. \A c \in Challenges : challenge'[c] = challenge[c]
            \/ challenge'[c] = [challenge[c] EXCEPT !.status = "gone"]
    BY DEF Delete
<1>2. \A c \in Challenges : challenge[c] \in Rows /\ challenge'[c] \in Rows
    BY <1>1 DEF TypeInv, Rows, Statuses
<1>3. challenge' \in [Challenges -> Rows]
    BY <1>2 DEF Delete
<1>4. \A a \in linked : a[1] \in Challenges
    BY DEF TypeInv
<1>5. \A c \in Challenges : challenge'[c].subject = challenge[c].subject
            /\ (challenge'[c].status = challenge[c].status \/ challenge'[c].status = "gone")
    BY <1>1, <1>2 DEF Rows
<1>6. overdue' \subseteq Challenges
    BY DEF Delete, TypeInv
<1> QED BY <1>3, <1>4, <1>5, <1>6 DEF LinksAreApproved

-----------------------------------------------------------------------------
\* What a request changes before it has a challenge locked, or when it gives up.
LEMMA StartKeepsIInv == ASSUME IInv, NEW p \in Handlers, Start(p) PROVE IInv'
<1>1. PICK b \in Bots, x \in Subjects :
        link' = [link EXCEPT ![p] = [NoWork EXCEPT !.bot = b, !.subject = x, !.past = overdue]]
    BY DEF Start
<1>2. [NoWork EXCEPT !.bot = b, !.subject = x, !.past = overdue] \in Works
    BY DEF IInv, TypeInv, NoWork, Works, Statuses
<1> QED BY <1>1, <1>2, LocalSteps DEF Start, Goto, Steps

LEMMA NoWorkIsWork == NoWork \in Works
BY DEF NoWork, Works, Statuses

LEMMA CountKeepsIInv == ASSUME IInv, NEW p \in Handlers, CountPending(p) PROVE IInv'
<1>1. link[p] \in Works /\ link = [link EXCEPT ![p] = link[p]]
    BY DEF IInv, TypeInv
<1>2. CASE Stop(p) BY <1>2, NoWorkIsWork, LocalSteps DEF CountPending, Stop, Goto, Steps
<1>3. CASE Goto(p, "create") /\ UNCHANGED link
    BY <1>1, <1>3, LocalSteps DEF CountPending, Goto, Steps
<1> QED BY <1>2, <1>3 DEF CountPending

LEMMA FailKeepsIInv == ASSUME IInv, NEW p \in Handlers, Fail(p) PROVE IInv'
BY NoWorkIsWork, LocalSteps DEF Fail, Stop, Goto, Steps

LEMMA PreviewKeepsIInv == ASSUME IInv, NEW p \in Handlers, Preview(p) PROVE IInv'
<1>1. PICK c \in Challenges : link' = [link EXCEPT ![p] = [NoWork EXCEPT !.c = c]]
    BY DEF Preview
<1>2. [NoWork EXCEPT !.c = c] \in Works
    BY DEF NoWork, Works, Statuses
<1> QED BY <1>1, <1>2, LocalSteps DEF Preview, Goto, Steps

\* A challenge is created, deleted or marked: it is one that nobody has locked.
LEMMA CreateKeepsIInv == ASSUME IInv, NEW p \in Handlers, CreateChallenge(p) PROVE IInv'
<1> USE DEF IInv
<1>1. PICK c \in Challenges :
        /\ challenge[c].status = "none"
        /\ challenge' = [challenge EXCEPT
                ![c] = [status |-> "pending", bot |-> link[p].bot, subject |-> link[p].subject]]
        /\ link' = [link EXCEPT ![p].c = c]
  <2>1. PICK c \in Challenges : /\ Unused = c .. MaxChallenges
        /\ challenge' = [challenge EXCEPT
                ![c] = [status |-> "pending", bot |-> link[p].bot, subject |-> link[p].subject]]
        /\ link' = [link EXCEPT ![p].c = c]
      BY DEF CreateChallenge
  <2>2. c \in Unused BY <2>1 DEF Challenges
  <2> QED BY <2>1, <2>2 DEF Unused
<1>2. [link[p] EXCEPT !.c = c] \in Works /\ link' = [link EXCEPT ![p] = [link[p] EXCEPT !.c = c]]
    BY <1>1 DEF TypeInv, Works
<1>3. [status |-> "pending", bot |-> link[p].bot, subject |-> link[p].subject] \in Rows
    BY DEF TypeInv, Works, Rows, Statuses
<1>4. challenge' \in [Challenges -> Rows]
    BY <1>1, <1>3 DEF TypeInv
<1>5. \A q \in Handlers : Locking(q) => challenge'[link[q].c] = challenge[link[q].c]
    BY <1>1 DEF LocksAreGood, Knows, TypeInv
<1>6. \A a \in linked : a[1] \in Challenges /\ a[1] # c
    BY <1>1 DEF LinksAreApproved, TypeInv
<1>7. \A a \in linked : /\ challenge'[a[1]].subject = challenge[a[1]].subject
                        /\ challenge'[a[1]].status \in {"approved", "expired", "gone"}
    BY <1>1, <1>6 DEF LinksAreApproved, TypeInv
<1>8. /\ linkPc' = [linkPc EXCEPT ![p] = "url"] /\ overdue' \subseteq Challenges
      /\ UNCHANGED <<identity, linked>>
    BY DEF CreateChallenge, Goto, TypeInv
<1>9. "url" \in Steps /\ "url" \notin {"link", "insert", "commit"}
    BY DEF Steps
<1> HIDE DEF IInv
<1> QED BY <1>2, <1>4, <1>5, <1>7, <1>8, <1>9, RowSteps

LEMMA BuildKeepsIInv == ASSUME IInv, NEW p \in Handlers, BuildApprovalURL(p) PROVE IInv'
<1>1. CASE UNCHANGED <<challenge, overdue>>
    BY <1>1, NoWorkIsWork, LocalSteps DEF BuildApprovalURL, Stop, Goto, Steps
<1>2. CASE ~ChallengeLocked(link[p].c) /\ Delete({link[p].c})
  <2>1. \A q \in Handlers : Locking(q) => link[q].c \in Challenges \ {link[p].c}
      BY <1>2 DEF ChallengeLocked, Holds, Locking, IInv, LocksAreGood, Knows
  <2>2. \A q \in Handlers : Locking(q) => challenge'[link[q].c] = challenge[link[q].c]
      BY <1>2, <2>1, DeleteKeeps DEF IInv
  <2> QED BY <1>2, <2>2, NoWorkIsWork, DeleteIsSafe, RowSteps
            DEF IInv, BuildApprovalURL, Stop, Goto, Steps
<1> QED BY <1>1, <1>2 DEF BuildApprovalURL

LEMMA MarkKeepsIInv == ASSUME IInv, NEW p \in Handlers, MarkExpired(p) PROVE IInv'
<1> USE DEF IInv
<1> DEFINE c == link[p].c
<1>1. c \in Challenges /\ challenge' = [challenge EXCEPT ![c].status = "expired"]
    BY DEF MarkExpired, TypeInv
<1>2. challenge' \in [Challenges -> Rows]
    BY <1>1 DEF TypeInv, Rows, Statuses
<1>3. \A q \in Handlers : Locking(q) => link[q].c \in Challenges \ {c}
    BY DEF MarkExpired, ChallengeLocked, Holds, Locking, LocksAreGood, Knows
<1>4. \A q \in Handlers : Locking(q) => challenge'[link[q].c] = challenge[link[q].c]
    BY <1>1, <1>3 DEF TypeInv
<1>5. \A a \in linked : /\ challenge'[a[1]].subject = challenge[a[1]].subject
                        /\ challenge'[a[1]].status \in {"approved", "expired", "gone"}
    BY <1>1 DEF LinksAreApproved, TypeInv, Rows
<1> QED BY <1>2, <1>4, <1>5, NoWorkIsWork, RowSteps DEF MarkExpired, Stop, Goto, Steps, TypeInv

LEMMA TablesKeepIInv ==
    ASSUME IInv, \/ \E c \in Challenges : GrowOld(c)
                 \/ CleanExpiredChallenges
                 \/ \E u \in Accounts : Unlink(u)
    PROVE  IInv'
<1> USE DEF IInv
<1>1. CASE \E c \in Challenges : GrowOld(c)
    BY <1>1, TableSteps DEF GrowOld, TypeInv, LinksAreApproved
<1>2. CASE CleanExpiredChallenges
  <2>1. \A q \in Handlers : Locking(q) => link[q].c \in Challenges \ overdue
      BY <1>2 DEF CleanExpiredChallenges, ChallengeLocked, Holds, Locking, LocksAreGood, Knows
  <2>2. \A q \in Handlers : Locking(q) => challenge'[link[q].c] = challenge[link[q].c]
      BY <1>2, <2>1, DeleteKeeps DEF CleanExpiredChallenges
  <2> QED BY <1>2, <2>2, DeleteIsSafe, TableSteps DEF CleanExpiredChallenges
<1>3. CASE \E u \in Accounts : Unlink(u)
    BY <1>3, TableSteps DEF Unlink, TypeInv, LinksAreApproved
<1> QED BY <1>1, <1>2, <1>3

-----------------------------------------------------------------------------
\* Who has a challenge locked changes its own variables, until it commits.
LEMMA LockedSteps ==
    ASSUME IInv, NEW p \in Handlers, NEW at \in Steps, NEW w \in Works,
           linkPc' = [linkPc EXCEPT ![p] = at], link' = [link EXCEPT ![p] = w],
           w.c \in Challenges, challenge[w.c].status = "pending",
           w.subject = challenge[w.c].subject,
           w.new \subseteq {[owner |-> w.owner, subject |-> w.subject]},
           w.new # {} => at = "commit" /\ w.outcome = "approved",
           \A q \in Handlers \ {p} : Locking(q) => link[q].c # w.c,
           UNCHANGED <<challenge, overdue, identity, linked>>
    PROVE  IInv'
<1> USE DEF IInv
<1>1. TypeInv' BY DEF TypeInv
<1>2. link'[p] = w /\ linkPc'[p] = at BY DEF TypeInv
<1>3. \A q \in Handlers \ {p} : link'[q] = link[q] /\ linkPc'[q] = linkPc[q]
    BY DEF TypeInv
<1>4. LocksAreGood'
  <2> SUFFICES ASSUME NEW q \in Handlers, Locking(q)' PROVE Knows(q)'
      BY DEF LocksAreGood
  <2>1. CASE q = p BY <1>2, <2>1 DEF Knows, Mine
  <2>2. CASE q # p BY <1>3, <2>2 DEF Knows, Mine, LocksAreGood, Locking
  <2> QED BY <2>1, <2>2
<1>5. OneLocks' BY <1>2, <1>3 DEF OneLocks, Locking
<1>6. LinksAreApproved' BY DEF LinksAreApproved
<1> QED BY <1>1, <1>4, <1>5, <1>6

LEMMA LoadKeepsIInv == ASSUME IInv, NEW p \in Handlers, LoadPending(p) PROVE IInv'
<1>1. PICK c \in Challenges, u \in Accounts \union {NoOne} :
        /\ ~ChallengeLocked(c) /\ challenge[c].status = "pending"
        /\ link' = [link EXCEPT ![p] = [NoWork EXCEPT !.c = c, !.bot = challenge[c].bot,
                        !.owner = u, !.subject = challenge[c].subject,
                        !.outcome = IF u = NoOne THEN "cancelled" ELSE "none"]]
        /\ linkPc' = [linkPc EXCEPT ![p] = IF u = NoOne THEN "commit" ELSE "link"]
        /\ UNCHANGED <<challenge, overdue, identity, linked>>
    BY DEF LoadPending, Goto
<1> DEFINE w == [NoWork EXCEPT !.c = c, !.bot = challenge[c].bot, !.owner = u,
                    !.subject = challenge[c].subject,
                    !.outcome = IF u = NoOne THEN "cancelled" ELSE "none"]
<1>2. challenge[c] \in Rows BY DEF IInv, TypeInv
<1>3. w \in Works /\ w.c = c /\ w.subject = challenge[c].subject /\ w.new = {}
    BY <1>2 DEF NoWork, Works, Rows, Statuses
<1>4. \A q \in Handlers : Locking(q) => link[q].c # c
    BY <1>1 DEF ChallengeLocked, Holds, Locking
<1> DEFINE at == IF u = NoOne THEN "commit" ELSE "link"
<1>5. at \in Steps BY DEF Steps
<1>6. link' = [link EXCEPT ![p] = w] /\ linkPc' = [linkPc EXCEPT ![p] = at] BY <1>1
<1>7. /\ w.c \in Challenges /\ challenge[w.c].status = "pending"
      /\ w.subject = challenge[w.c].subject
      /\ \A q \in Handlers \ {p} : Locking(q) => link[q].c # w.c
    BY <1>1, <1>3, <1>4
<1>8. w \in Works /\ w.new = {} BY <1>3
<1>9. UNCHANGED <<challenge, overdue, identity, linked>> BY <1>1
<1> HIDE DEF w, at
<1> QED BY <1>5, <1>6, <1>7, <1>8, <1>9, LockedSteps

LEMMA UpsertKeepsIInv == ASSUME IInv, NEW p \in Handlers, UpsertLink(p) PROVE IInv'
<1>1. Locking(p) /\ linkPc[p] = "link" BY DEF UpsertLink, At, Locking
<1>2. Knows(p) /\ link[p] \in Works /\ link[p].new = {}
    BY <1>1 DEF IInv, LocksAreGood, Knows, TypeInv
<1>3. \A q \in Handlers \ {p} : Locking(q) => link[q].c # link[p].c
    BY <1>1 DEF IInv, OneLocks
<1>4. "commit" \in Steps /\ "insert" \in Steps BY DEF Steps
<1>5. CASE Settle(p) /\ Goto(p, "commit")
  <2>1. PICK o \in Statuses : link' = [link EXCEPT ![p].outcome = o]
      BY <1>5 DEF Settle, Statuses
  <2> DEFINE w == [link[p] EXCEPT !.outcome = o]
  <2>2. w \in Works /\ w.c = link[p].c /\ w.subject = link[p].subject /\ w.new = {}
      BY <1>2, <2>1 DEF Works
  <2>3. link' = [link EXCEPT ![p] = w] BY <2>1
  <2>4. /\ linkPc' = [linkPc EXCEPT ![p] = "commit"]
        /\ UNCHANGED <<challenge, overdue, identity, linked>>
      BY <1>5 DEF UpsertLink, Goto
  <2> HIDE DEF w
  <2>5. /\ w.c \in Challenges /\ challenge[w.c].status = "pending"
        /\ w.subject = challenge[w.c].subject
        /\ \A q \in Handlers \ {p} : Locking(q) => link[q].c # w.c
      BY <1>2, <1>3, <2>2 DEF Knows
  <2> QED BY <1>4, <2>2, <2>3, <2>4, <2>5, LockedSteps
<1>6. CASE UNCHANGED link /\ Goto(p, "insert")
  <2>1. link' = [link EXCEPT ![p] = link[p]] BY <1>6 DEF IInv, TypeInv
  <2> QED BY <1>2, <1>3, <1>4, <1>6, <2>1, LockedSteps DEF UpsertLink, Goto, Knows
<1> QED BY <1>5, <1>6 DEF UpsertLink

LEMMA InsertKeepsIInv == ASSUME IInv, NEW p \in Handlers, InsertLink(p) PROVE IInv'
<1>1. Locking(p) /\ linkPc[p] = "insert" BY DEF InsertLink, At, Locking
<1>2. Knows(p) /\ link[p] \in Works /\ link[p].new = {} /\ Mine(p) \in Identities
    BY <1>1 DEF IInv, LocksAreGood, Knows, TypeInv, Mine, Identities, Works
<1>3. \A q \in Handlers \ {p} : Locking(q) => link[q].c # link[p].c
    BY <1>1 DEF IInv, OneLocks
<1>4. PICK o \in Statuses, new \in SUBSET {Mine(p)} :
        /\ link' = [link EXCEPT ![p].outcome = o, ![p].new = new]
        /\ new # {} => o = "approved"
  <2>1. CASE Settle(p)
    <3>1. PICK o \in Statuses : link' = [link EXCEPT ![p].outcome = o]
        BY <2>1 DEF Settle, Statuses
    <3>2. [link[p] EXCEPT !.outcome = o] = [link[p] EXCEPT !.outcome = o, !.new = {}]
        BY <1>2 DEF Works
    <3>3. link' = [link EXCEPT ![p].outcome = o, ![p].new = {}]
        BY <3>1, <3>2 DEF IInv, TypeInv
    <3> QED BY <3>3
  <2>2. CASE Insert(p) BY <2>2 DEF Insert, Statuses
  <2> QED BY <2>1, <2>2 DEF InsertLink
<1> DEFINE w == [link[p] EXCEPT !.outcome = o, !.new = new]
<1>5. /\ w \in Works /\ w.c = link[p].c /\ w.subject = link[p].subject
      /\ w.owner = link[p].owner /\ w.new = new /\ w.outcome = o
    BY <1>2, <1>4 DEF Works
<1>6. link' = [link EXCEPT ![p] = w] BY <1>4 DEF IInv, TypeInv
<1>7. identity' = identity /\ linkPc' = [linkPc EXCEPT ![p] = "commit"]
      /\ UNCHANGED <<challenge, overdue, linked>>
    BY DEF InsertLink, Settle, Insert, Goto
<1>8. "commit" \in Steps BY DEF Steps
<1> HIDE DEF w
<1>9. /\ w.c \in Challenges /\ challenge[w.c].status = "pending"
      /\ w.subject = challenge[w.c].subject
      /\ w.new \subseteq {[owner |-> w.owner, subject |-> w.subject]}
      /\ w.new # {} => w.outcome = "approved"
      /\ \A q \in Handlers \ {p} : Locking(q) => link[q].c # w.c
    BY <1>2, <1>3, <1>4, <1>5 DEF Knows, Mine
<1> QED BY <1>5, <1>6, <1>7, <1>8, <1>9, LockedSteps

\* The approval and the row commit together, with the challenge still pending.
LEMMA CommitKeepsIInv == ASSUME IInv, NEW p \in Handlers, ConsumeChallenge(p) PROVE IInv'
<1> USE DEF IInv
<1> DEFINE c == link[p].c
           u == link[p].owner
<1>1. Locking(p) /\ Knows(p) /\ link[p] \in Works
    BY DEF ConsumeChallenge, At, Locking, LocksAreGood, TypeInv
<1>2. c \in Challenges /\ challenge[c].status = "pending"
    BY <1>1 DEF Knows
<1>3. challenge' = [challenge EXCEPT ![c].status = link[p].outcome]
    BY DEF ConsumeChallenge
<1>4. /\ linkPc' = [linkPc EXCEPT ![p] = "idle"] /\ link' = [link EXCEPT ![p] = NoWork]
      /\ identity' = identity \union link[p].new /\ overdue' = overdue
      /\ linked' = IF link[p].outcome = "approved" THEN linked \union {<<c, u>>} ELSE linked
    BY DEF ConsumeChallenge, Stop, Goto
<1>5. \A d \in Challenges : challenge'[d].subject = challenge[d].subject
            /\ (d # c => challenge'[d] = challenge[d])
    BY <1>2, <1>3 DEF TypeInv, Rows
<1>6. challenge'[c].status = link[p].outcome
    BY <1>2, <1>3 DEF TypeInv, Rows
<1>7. \A a \in linked : a[1] \in Challenges /\ a[1] # c
    BY <1>2 DEF LinksAreApproved, TypeInv
<1>8. TypeInv'
  <2>1. challenge' \in [Challenges -> Rows] BY <1>1, <1>2, <1>3 DEF TypeInv, Rows, Works
  <2>2. identity' \subseteq Identities BY <1>1, <1>4 DEF TypeInv, Works
  <2>3. linkPc' \in [Handlers -> Steps] /\ link' \in [Handlers -> Works]
      BY <1>4, NoWorkIsWork DEF TypeInv, Steps
  <2>4. linked' \subseteq Challenges \X (Accounts \union {NoOne})
      BY <1>1, <1>2, <1>4 DEF TypeInv, Works
  <2> QED BY <1>4, <2>1, <2>2, <2>3, <2>4 DEF TypeInv
<1>9. \A q \in Handlers : Locking(q)' => q # p /\ Locking(q) /\ link'[q] = link[q]
    BY <1>4 DEF TypeInv, Locking
<1>10. LocksAreGood'
  <2> SUFFICES ASSUME NEW q \in Handlers, Locking(q)' PROVE Knows(q)'
      BY DEF LocksAreGood
  <2>1. Knows(q) /\ link'[q] = link[q] /\ linkPc'[q] = linkPc[q] /\ link[q].c # c
      BY <1>1, <1>4, <1>9 DEF LocksAreGood, OneLocks, TypeInv
  <2> QED BY <1>5, <2>1 DEF Knows, Mine
<1>11. OneLocks' BY <1>9 DEF OneLocks
<1>12. LinksAreApproved'
  <2>1. \A i \in identity' : \E a \in linked' :
            a[2] = i.owner /\ challenge'[a[1]].subject = i.subject
    <3> SUFFICES ASSUME NEW i \in identity'
        PROVE \E a \in linked' : a[2] = i.owner /\ challenge'[a[1]].subject = i.subject
        OBVIOUS
    <3>1. CASE i \in identity
      <4>1. PICK a \in linked : a[2] = i.owner /\ challenge[a[1]].subject = i.subject
          BY <3>1 DEF LinksAreApproved
      <4> QED BY <4>1, <1>4, <1>5, <1>7
    <3>2. CASE i \in link[p].new
      <4>1. i = Mine(p) /\ link[p].outcome = "approved" BY <1>1, <3>2 DEF Knows
      <4>2. <<c, u>> \in linked' BY <4>1, <1>4
      <4>3. challenge'[c].subject = i.subject /\ u = i.owner
          BY <1>1, <1>2, <1>5, <4>1 DEF Knows, Mine
      <4>4. WITNESS <<c, u>> \in linked'
      <4> QED BY <4>3
    <3> QED BY <3>1, <3>2, <1>4
  <2>2. \A a, b \in linked' : a[1] = b[1] => a = b
      BY <1>4, <1>7 DEF LinksAreApproved
  <2>3. \A a \in linked' : challenge'[a[1]].status \in {"approved", "expired", "gone"}
      BY <1>4, <1>5, <1>6, <1>7 DEF LinksAreApproved
  <2> QED BY <2>1, <2>2, <2>3 DEF LinksAreApproved
<1> QED BY <1>8, <1>10, <1>11, <1>12

LEMMA StutterKeepsIInv == ASSUME IInv, UNCHANGED linkVars PROVE IInv'
BY DEF IInv, linkVars, TypeInv, LocksAreGood, OneLocks, LinksAreApproved, Locking, Knows, Mine

LEMMA IInvStarts == Init => IInv
<1> SUFFICES ASSUME Init PROVE IInv OBVIOUS
<1>1. NoChallenge \in Rows BY DEF NoChallenge, Rows, Statuses
<1>2. TypeInv BY <1>1, NoWorkIsWork DEF Init, TypeInv, Steps
<1>3. \A p \in Handlers : ~Locking(p) BY DEF Init, Locking
<1> QED BY <1>2, <1>3 DEF Init, IInv, LocksAreGood, OneLocks, LinksAreApproved

LEMMA IInvStep == IInv /\ [Next]_linkVars => IInv'
<1> SUFFICES ASSUME IInv, [Next]_linkVars PROVE IInv' OBVIOUS
<1>1. ASSUME NEW p \in Handlers, Start(p) PROVE IInv' BY <1>1, StartKeepsIInv
<1>2. ASSUME NEW p \in Handlers, CountPending(p) PROVE IInv' BY <1>2, CountKeepsIInv
<1>3. ASSUME NEW p \in Handlers, CreateChallenge(p) PROVE IInv' BY <1>3, CreateKeepsIInv
<1>4. ASSUME NEW p \in Handlers, BuildApprovalURL(p) PROVE IInv' BY <1>4, BuildKeepsIInv
<1>5. ASSUME NEW p \in Handlers, LoadPending(p) PROVE IInv' BY <1>5, LoadKeepsIInv
<1>6. ASSUME NEW p \in Handlers, UpsertLink(p) PROVE IInv' BY <1>6, UpsertKeepsIInv
<1>7. ASSUME NEW p \in Handlers, InsertLink(p) PROVE IInv' BY <1>7, InsertKeepsIInv
<1>8. ASSUME NEW p \in Handlers, ConsumeChallenge(p) PROVE IInv' BY <1>8, CommitKeepsIInv
<1>9. ASSUME NEW p \in Handlers, Fail(p) PROVE IInv' BY <1>9, FailKeepsIInv
<1>10. ASSUME NEW p \in Handlers, Preview(p) PROVE IInv' BY <1>10, PreviewKeepsIInv
<1>11. ASSUME NEW p \in Handlers, MarkExpired(p) PROVE IInv' BY <1>11, MarkKeepsIInv
<1>12. CASE UNCHANGED linkVars BY <1>12, StutterKeepsIInv
<1> QED BY <1>1, <1>2, <1>3, <1>4, <1>5, <1>6, <1>7, <1>8, <1>9, <1>10, <1>11, <1>12,
           TablesKeepIInv DEF Next

\* Each identity comes from an approval by its owner, of a challenge that linked
\* no one else and cannot be approved again: approve (service.go), UpsertLinkTx.
THEOREM LinksAlwaysApproved == Spec => []LinksAreApproved
BY IInvStarts, IInvStep, PTL DEF Spec, IInv

-----------------------------------------------------------------------------
\* A bot's open challenges.  What a request has counted only shrinks until it creates
\* its own: the bot's row is locked from the count on, and a challenge that was overdue
\* when the time was read is never pending and not overdue again.
OverdueAreMade == \A c \in overdue : challenge[c].status # "none"

PastAreOver ==
    \A p \in Handlers : linkPc[p] = "count" =>
        \A c \in link[p].past : /\ challenge[c].status # "none"
                                /\ challenge[c].status = "pending" => c \in overdue

Creating(p) == linkPc[p] = "create"
OneCreates ==
    \A p, q \in Handlers : Creating(p) /\ Creating(q) /\ link[p].bot = link[q].bot => p = q

CreatorsHaveRoom ==
    \A p \in Handlers : Creating(p) => Cardinality(Pending(link[p].bot, overdue)) < MaxPending

OutcomesAreFinal ==
    \A p \in Handlers : linkPc[p] = "commit" =>
        link[p].outcome \in {"approved", "cancelled", "conflict"}

CapacityInv ==
    /\ OverdueAreMade /\ PastAreOver /\ OneCreates /\ CreatorsHaveRoom /\ OutcomesAreFinal
    /\ CapacityHolds

LEMMA PendingIsFinite ==
    ASSUME MaxChallenges \in Nat, NEW b, NEW past, NEW T \in SUBSET Pending(b, past)
    PROVE  /\ IsFiniteSet(T) /\ Cardinality(T) \in Nat
           /\ IsFiniteSet(Pending(b, past)) /\ Cardinality(Pending(b, past)) \in Nat
           /\ Cardinality(T) <= Cardinality(Pending(b, past))
<1>1. IsFiniteSet(1 .. MaxChallenges) BY FS_Interval
<1>2. Pending(b, past) \in SUBSET (1 .. MaxChallenges) BY DEF Pending, Challenges
<1>3. IsFiniteSet(Pending(b, past)) BY <1>1, <1>2, FS_Subset
<1>4. IsFiniteSet(T) /\ Cardinality(T) <= Cardinality(Pending(b, past)) BY <1>3, FS_Subset
<1> QED BY <1>3, <1>4, FS_CardinalityType

\* Challenges only leave the set of open ones: they are approved, expire, grow old or
\* are deleted.
Shrinking ==
    /\ \A c \in Challenges :
          /\ challenge'[c].bot = challenge[c].bot
          /\ challenge'[c].status = "pending" => challenge[c].status = "pending"
          /\ challenge[c].status # "none" => challenge'[c].status # "none"
          /\ c \in overdue => c \in overdue' \/ challenge'[c].status # "pending"
    /\ \A c \in overdue' : challenge[c].status # "none"

LEMMA ShrinkingPending ==
    ASSUME TypeInv, Shrinking, NEW b
    PROVE  Pending(b, overdue)' \subseteq Pending(b, overdue)
BY DEF Shrinking, Pending, TypeInv

\* A step that opens no challenge, of requests that do not begin to count or create.
LEMMA CapacityStays ==
    ASSUME MaxChallenges \in Nat, MaxPending \in Nat, TypeInv, TypeInv', CapacityInv, Shrinking,
           \A q \in Handlers : linkPc'[q] \in {"count", "create"} =>
               linkPc'[q] = linkPc[q] /\ link'[q].bot = link[q].bot /\ link'[q].past = link[q].past,
           \A q \in Handlers : linkPc'[q] = "commit" =>
               link'[q].outcome \in {"approved", "cancelled", "conflict"}
    PROVE  CapacityInv'
<1> USE DEF CapacityInv
<1>1. OverdueAreMade' BY DEF Shrinking, TypeInv, OverdueAreMade
<1>2. PastAreOver'
  <2> SUFFICES ASSUME NEW q \in Handlers, linkPc'[q] = "count", NEW c \in link'[q].past
               PROVE  /\ challenge'[c].status # "none"
                      /\ challenge'[c].status = "pending" => c \in overdue'
      BY DEF PastAreOver
  <2>1. linkPc[q] = "count" /\ c \in link[q].past /\ c \in Challenges
      BY DEF TypeInv, Works
  <2> QED BY <2>1 DEF PastAreOver, Shrinking
<1>3. OneCreates' BY DEF OneCreates, Creating
<1>4. \A b : Cardinality(Pending(b, overdue)') <= Cardinality(Pending(b, overdue))
             /\ Cardinality(Pending(b, overdue)') \in Nat
             /\ Cardinality(Pending(b, overdue)) \in Nat
    BY ShrinkingPending, PendingIsFinite
<1>5. CreatorsHaveRoom'
  <2>1. ASSUME NEW q \in Handlers, Creating(q)'
        PROVE  Cardinality(Pending(link[q].bot, overdue))' < MaxPending
    <3>1. PICK b : b = link[q].bot OBVIOUS
    <3>2. Creating(q) /\ link'[q].bot = b BY <2>1, <3>1 DEF Creating
    <3>3. Cardinality(Pending(b, overdue)) < MaxPending
        BY <3>1, <3>2 DEF CreatorsHaveRoom
    <3>4. Cardinality(Pending(b, overdue)') < MaxPending BY <1>4, <3>3
    <3> QED BY <3>2, <3>4 DEF Pending
  <2> QED BY <2>1 DEF CreatorsHaveRoom
<1>6. CapacityHolds' BY <1>4 DEF CapacityHolds
<1>7. OutcomesAreFinal' BY DEF OutcomesAreFinal
<1> QED BY <1>1, <1>2, <1>3, <1>5, <1>6, <1>7

\* ... and the steps that do: Start reads the time, with the challenges overdue by then.
LEMMA StartKeepsCapacity ==
    ASSUME IInv, CapacityInv, NEW p \in Handlers, Start(p)
    PROVE  CapacityInv'
<1> USE DEF CapacityInv, IInv
<1>1. PICK b \in Bots, x \in Subjects :
        link' = [link EXCEPT ![p] = [NoWork EXCEPT !.bot = b, !.subject = x, !.past = overdue]]
    BY DEF Start
<1>2. link'[p].past = overdue BY <1>1 DEF NoWork, TypeInv
<1>3. /\ linkPc' = [linkPc EXCEPT ![p] = "count"] /\ UNCHANGED <<challenge, overdue>>
      /\ \A q \in Handlers \ {p} : linkPc'[q] = linkPc[q] /\ link'[q] = link[q]
    BY <1>1 DEF Start, Goto, TypeInv
<1>4. PastAreOver' BY <1>2, <1>3 DEF PastAreOver, OverdueAreMade
<1>5. \A q \in Handlers : Creating(q)' => Creating(q) /\ link'[q] = link[q]
    BY <1>3 DEF Creating, TypeInv
<1>6. OneCreates' BY <1>5 DEF OneCreates
<1>7. CreatorsHaveRoom' BY <1>3, <1>5 DEF CreatorsHaveRoom, Pending
<1>8. OutcomesAreFinal' BY <1>3 DEF OutcomesAreFinal, TypeInv
<1> QED BY <1>3, <1>4, <1>6, <1>7, <1>8 DEF OverdueAreMade, CapacityHolds, Pending

LEMMA CountKeepsCapacity ==
    ASSUME MaxChallenges \in Nat, MaxPending \in Nat, IInv, CapacityInv,
           NEW p \in Handlers, CountPending(p), Goto(p, "create") /\ UNCHANGED link
    PROVE  CapacityInv'
<1> USE DEF CapacityInv, IInv
<1>1. PICK b : b = link[p].bot OBVIOUS
<1>2. /\ linkPc[p] = "count" /\ linkPc' = [linkPc EXCEPT ![p] = "create"]
      /\ UNCHANGED <<challenge, overdue, link>>
    BY DEF CountPending, At, Goto
<1>3. Cardinality(Pending(b, link[p].past)) < MaxPending
  <2>1. CASE Cardinality(Pending(b, link[p].past)) < MaxPending BY <2>1
  <2>2. CASE ~(Cardinality(Pending(b, link[p].past)) < MaxPending)
    <3>1. Stop(p) BY <1>1, <2>2 DEF CountPending
    <3>2. linkPc' = [linkPc EXCEPT ![p] = "idle"] BY <3>1 DEF Stop, Goto
    <3> QED BY <1>2, <3>2 DEF TypeInv
  <2> QED BY <2>1, <2>2
<1>4. Pending(b, overdue) \subseteq Pending(b, link[p].past)
    BY <1>2 DEF Pending, PastAreOver
<1>5. Cardinality(Pending(b, overdue)) < MaxPending
  <2>1. /\ Cardinality(Pending(b, overdue)) <= Cardinality(Pending(b, link[p].past))
        /\ Cardinality(Pending(b, overdue)) \in Nat
        /\ Cardinality(Pending(b, link[p].past)) \in Nat
      BY <1>4, PendingIsFinite
  <2> QED BY <1>3, <2>1
<1>6. \A q \in Handlers : Creating(q) => link[q].bot # b
    BY <1>1 DEF CountPending, PrincipalLocked, Holds, Creating
<1>7. \A q \in Handlers : Creating(q)' => q = p \/ Creating(q)
    BY <1>2 DEF Creating, TypeInv
<1>8. OneCreates' BY <1>1, <1>2, <1>6, <1>7 DEF OneCreates
<1>9. CreatorsHaveRoom' BY <1>1, <1>2, <1>5, <1>7 DEF CreatorsHaveRoom, Pending
<1>10. PastAreOver' BY <1>2 DEF PastAreOver, TypeInv
<1>11. OutcomesAreFinal' BY <1>2 DEF OutcomesAreFinal, TypeInv
<1> QED BY <1>2, <1>8, <1>9, <1>10, <1>11 DEF OverdueAreMade, CapacityHolds, Pending

LEMMA CreateKeepsCapacity ==
    ASSUME MaxChallenges \in Nat, MaxPending \in Nat, IInv, CapacityInv,
           NEW p \in Handlers, CreateChallenge(p)
    PROVE  CapacityInv'
<1> USE DEF CapacityInv, IInv
<1>1. PICK c \in Challenges :
        /\ Unused = c .. MaxChallenges
        /\ challenge' = [challenge EXCEPT
                ![c] = [status |-> "pending", bot |-> link[p].bot, subject |-> link[p].subject]]
        /\ link' = [link EXCEPT ![p].c = c]
    BY DEF CreateChallenge
<1>2. PICK b : b = link[p].bot OBVIOUS
<1>3. challenge[c].status = "none"
  <2>1. c \in c .. MaxChallenges BY DEF Challenges
  <2> QED BY <1>1, <2>1 DEF Unused
<1>4. /\ linkPc[p] = "create" /\ linkPc' = [linkPc EXCEPT ![p] = "url"] /\ UNCHANGED overdue
    BY DEF CreateChallenge, At, Goto
<1>5. /\ challenge'[c].status = "pending" /\ challenge'[c].bot = b
      /\ \A d \in Challenges \ {c} : challenge'[d] = challenge[d]
    BY <1>1, <1>2 DEF TypeInv
<1>6. \A q \in Handlers \ {p} : linkPc'[q] = linkPc[q] /\ link'[q] = link[q]
    BY <1>1, <1>4 DEF TypeInv
<1>7. linkPc'[p] = "url" BY <1>4 DEF TypeInv
<1>8. OverdueAreMade' BY <1>4, <1>5 DEF OverdueAreMade, TypeInv
<1>9. PastAreOver'
  <2> SUFFICES ASSUME NEW q \in Handlers, linkPc'[q] = "count", NEW d \in link'[q].past
               PROVE  /\ challenge'[d].status # "none"
                      /\ challenge'[d].status = "pending" => d \in overdue'
      BY DEF PastAreOver
  <2>1. linkPc[q] = "count" /\ d \in link[q].past /\ d \in Challenges
      BY <1>6, <1>7 DEF TypeInv, Works
  <2>2. d # c BY <1>3, <2>1 DEF PastAreOver
  <2> QED BY <1>4, <1>5, <2>1, <2>2 DEF PastAreOver
<1>10. \A q \in Handlers : Creating(q)' => Creating(q) /\ q # p /\ link'[q] = link[q]
    BY <1>6, <1>7 DEF Creating
<1>11. OneCreates' BY <1>10 DEF OneCreates
<1>12. ASSUME NEW x, x # b PROVE Pending(x, overdue)' \subseteq Pending(x, overdue)
    BY <1>4, <1>5, <1>12 DEF Pending
<1>13. Pending(b, overdue)' \subseteq Pending(b, overdue) \union {c}
    BY <1>4, <1>5 DEF Pending
<1>14. \A x : x # b =>
            /\ Cardinality(Pending(x, overdue)') <= Cardinality(Pending(x, overdue))
            /\ Cardinality(Pending(x, overdue)') \in Nat
            /\ Cardinality(Pending(x, overdue)) \in Nat
    BY <1>12, PendingIsFinite
<1>15. Cardinality(Pending(b, overdue)') <= MaxPending
  <2> DEFINE T == Pending(b, overdue)
             U == Pending(b, overdue)'
  <2>1. IsFiniteSet(T) /\ Cardinality(T) \in Nat BY PendingIsFinite
  <2>2. Cardinality(T) < MaxPending BY <1>2, <1>4 DEF CreatorsHaveRoom, Creating
  <2>3. U \in SUBSET (T \union {c}) BY <1>13
  <2> HIDE DEF T, U
  <2>4. IsFiniteSet(T \union {c}) /\ Cardinality(T \union {c}) <= Cardinality(T) + 1
    <3>1. IsFiniteSet(T \union {c}) BY <2>1, FS_AddElement
    <3>2. CASE c \in T
      <4>1. T \union {c} = T BY <3>2
      <4>2. Cardinality(T \union {c}) = Cardinality(T) BY <4>1, Zenon
      <4> QED BY <2>1, <3>1, <4>2
    <3>3. CASE c \notin T
      <4>1. Cardinality(T \union {c}) = Cardinality(T) + 1 BY <2>1, <3>3, FS_AddElement
      <4> QED BY <2>1, <3>1, <4>1
    <3> QED BY <3>2, <3>3
  <2>5. /\ Cardinality(U) <= Cardinality(T \union {c}) /\ Cardinality(U) \in Nat
        /\ Cardinality(T \union {c}) \in Nat
      BY <2>3, <2>4, FS_Subset, FS_CardinalityType
  <2>6. Cardinality(U) <= MaxPending BY <2>1, <2>2, <2>4, <2>5
  <2> QED BY <2>6 DEF U
<1>16. CreatorsHaveRoom'
  <2>1. ASSUME NEW q \in Handlers, Creating(q)'
        PROVE  Cardinality(Pending(link[q].bot, overdue))' < MaxPending
    <3>1. PICK x : x = link[q].bot OBVIOUS
    <3>2. Creating(q) /\ link'[q].bot = x /\ q # p BY <1>10, <2>1, <3>1
    <3>3. x # b BY <1>2, <1>4, <3>1, <3>2 DEF OneCreates, Creating
    <3>4. Cardinality(Pending(x, overdue)) < MaxPending
        BY <3>1, <3>2 DEF CreatorsHaveRoom
    <3>5. Cardinality(Pending(x, overdue)') < MaxPending BY <1>14, <3>3, <3>4
    <3> QED BY <3>2, <3>5 DEF Pending
  <2> QED BY <2>1 DEF CreatorsHaveRoom
<1>17. CapacityHolds'
  <2>1. ASSUME NEW x \in Bots PROVE Cardinality(Pending(x, overdue)') <= MaxPending
    <3>1. CASE x = b BY <1>15, <3>1
    <3>2. CASE x # b BY <1>14, <3>2 DEF CapacityHolds
    <3> QED BY <3>1, <3>2
  <2> QED BY <2>1 DEF CapacityHolds
<1>18. OutcomesAreFinal' BY <1>6, <1>7 DEF OutcomesAreFinal
<1> QED BY <1>8, <1>9, <1>11, <1>16, <1>17, <1>18

\* The rest: what a step does to the rows, and to the requests.
RequestsGoOn ==
    /\ \A q \in Handlers : linkPc'[q] \in {"count", "create"} =>
          linkPc'[q] = linkPc[q] /\ link'[q].bot = link[q].bot /\ link'[q].past = link[q].past
    /\ \A q \in Handlers : linkPc'[q] = "commit" =>
          link'[q].outcome \in {"approved", "cancelled", "conflict"}

LEMMA OneGoesOn ==
    ASSUME TypeInv, CapacityInv, NEW p \in Handlers, NEW w,
           NEW at, at \notin {"count", "create", "commit"},
           linkPc' = [linkPc EXCEPT ![p] = at], link' = [link EXCEPT ![p] = w]
    PROVE  RequestsGoOn
BY DEF RequestsGoOn, TypeInv, CapacityInv, OutcomesAreFinal

Final(w) == w.outcome \in {"approved", "cancelled", "conflict"}
LEMMA OneCommits ==
    ASSUME TypeInv, CapacityInv, NEW p \in Handlers, NEW w,
           Final(w),
           linkPc' = [linkPc EXCEPT ![p] = "commit"], link' = [link EXCEPT ![p] = w]
    PROVE  RequestsGoOn
BY DEF RequestsGoOn, TypeInv, CapacityInv, OutcomesAreFinal, Final

LEMMA NobodyGoesOn ==
    ASSUME CapacityInv, UNCHANGED <<linkPc, link>> PROVE RequestsGoOn
BY DEF RequestsGoOn, CapacityInv, OutcomesAreFinal

LEMMA RowsUnchanged ==
    ASSUME CapacityInv, UNCHANGED <<challenge, overdue>> PROVE Shrinking
BY DEF Shrinking, CapacityInv, OverdueAreMade

LEMMA DeleteShrinks ==
    ASSUME TypeInv, CapacityInv, NEW cs, Delete(cs) PROVE Shrinking
<1>1. \A c \in Challenges : challenge'[c] = challenge[c]
            \/ (challenge'[c] = [challenge[c] EXCEPT !.status = "gone"] /\ c \in cs)
    BY DEF Delete
<1>2. \A c \in Challenges : /\ challenge'[c].bot = challenge[c].bot
                            /\ challenge'[c] = challenge[c] \/ challenge'[c].status = "gone"
                            /\ c \in cs => challenge'[c].status = "gone"
  <2>1. \A c \in Challenges : challenge[c] \in Rows BY DEF TypeInv
  <2>2. \A c \in Challenges : c \in cs => challenge'[c] = [challenge[c] EXCEPT !.status = "gone"]
      BY DEF Delete
  <2> QED BY <1>1, <2>1, <2>2 DEF Rows
<1>3. overdue' = overdue \ cs BY DEF Delete
<1> QED BY <1>2, <1>3 DEF Shrinking, CapacityInv, OverdueAreMade, TypeInv

\* One row gets a status that is final.
LEMMA StatusShrinks ==
    ASSUME TypeInv, CapacityInv, NEW c \in Challenges, NEW t, t \notin {"none", "pending"},
           challenge' = [challenge EXCEPT ![c].status = t], UNCHANGED overdue
    PROVE  Shrinking
<1>1. \A d \in Challenges : /\ challenge'[d].bot = challenge[d].bot
                            /\ challenge'[d] = challenge[d] \/ challenge'[d].status = t
    BY DEF TypeInv, Rows
<1> QED BY <1>1 DEF Shrinking, CapacityInv, OverdueAreMade, TypeInv

LEMMA CapacityStep ==
    ASSUME MaxChallenges \in Nat, MaxPending \in Nat, IInv, CapacityInv, [Next]_linkVars
    PROVE  CapacityInv'
<1>1. TypeInv /\ TypeInv' BY IInvStep DEF IInv
<1>2. SUFFICES ASSUME ~\E p \in Handlers : Start(p) \/ CreateChallenge(p)
                          \/ (CountPending(p) /\ Goto(p, "create") /\ UNCHANGED link)
               PROVE  Shrinking /\ RequestsGoOn
  <2>1. CASE \E p \in Handlers : Start(p) \/ CreateChallenge(p)
                          \/ (CountPending(p) /\ Goto(p, "create") /\ UNCHANGED link)
      BY <2>1, StartKeepsCapacity, CreateKeepsCapacity, CountKeepsCapacity
  <2>2. CASE Shrinking /\ RequestsGoOn BY <1>1, <2>2, CapacityStays DEF RequestsGoOn
  <2> QED BY <2>1, <2>2
<1>3. ASSUME NEW p \in Handlers, Stop(p) PROVE RequestsGoOn
  <2>1. linkPc' = [linkPc EXCEPT ![p] = "idle"] /\ link' = [link EXCEPT ![p] = NoWork]
      BY <1>3 DEF Stop, Goto
  <2>2. "idle" \notin {"count", "create", "commit"} OBVIOUS
  <2> QED BY <1>1, <2>1, <2>2, OneGoesOn
<1>4. ASSUME NEW p \in Handlers, CountPending(p) PROVE Shrinking /\ RequestsGoOn
  <2>1. Stop(p) /\ UNCHANGED <<challenge, overdue>> BY <1>2, <1>4 DEF CountPending
  <2> QED BY <1>3, <2>1, RowsUnchanged
<1>5. ASSUME NEW p \in Handlers, BuildApprovalURL(p) PROVE Shrinking /\ RequestsGoOn
  <2>1. Stop(p) BY <1>5 DEF BuildApprovalURL
  <2>2. Shrinking BY <1>1, <1>5, RowsUnchanged, DeleteShrinks DEF BuildApprovalURL
  <2> QED BY <1>3, <2>1, <2>2
<1>6. ASSUME NEW p \in Handlers, LoadPending(p) PROVE Shrinking /\ RequestsGoOn
  <2>1. PICK c \in Challenges \ overdue, u \in Accounts \union {NoOne} :
            /\ link' = [link EXCEPT ![p] = [NoWork EXCEPT !.c = c, !.bot = challenge[c].bot,
                            !.owner = u, !.subject = challenge[c].subject,
                            !.outcome = IF u = NoOne THEN "cancelled" ELSE "none"]]
            /\ Goto(p, IF u = NoOne THEN "commit" ELSE "link")
      BY <1>6 DEF LoadPending
  <2>2. PICK w : w = [NoWork EXCEPT !.c = c, !.bot = challenge[c].bot,
                            !.owner = u, !.subject = challenge[c].subject,
                            !.outcome = IF u = NoOne THEN "cancelled" ELSE "none"]
      OBVIOUS
  <2>3. w.outcome = IF u = NoOne THEN "cancelled" ELSE "none" BY <2>2 DEF NoWork
  <2>4. link' = [link EXCEPT ![p] = w] BY <2>1, <2>2
  <2>5. ASSUME u = NoOne PROVE RequestsGoOn
    <3>1. linkPc' = [linkPc EXCEPT ![p] = "commit"] BY <2>1, <2>5 DEF Goto
    <3>2. Final(w) BY <2>3, <2>5 DEF Final
    <3> QED BY <1>1, <2>4, <3>1, <3>2, OneCommits
  <2>6. ASSUME u # NoOne PROVE RequestsGoOn
    <3>1. linkPc' = [linkPc EXCEPT ![p] = "link"] BY <2>1, <2>6 DEF Goto
    <3>2. "link" \notin {"count", "create", "commit"} OBVIOUS
    <3> QED BY <1>1, <2>4, <3>1, <3>2, OneGoesOn
  <2>7. RequestsGoOn BY <2>5, <2>6
  <2> QED BY <1>6, <2>7, RowsUnchanged DEF LoadPending
<1>7. ASSUME NEW p \in Handlers, UpsertLink(p) \/ InsertLink(p) PROVE Shrinking /\ RequestsGoOn
  <2>1. Shrinking BY <1>7, RowsUnchanged DEF UpsertLink, InsertLink
  <2>2. link[p] \in Works BY <1>1 DEF TypeInv
  <2>3. ASSUME Settle(p) /\ Goto(p, "commit") PROVE RequestsGoOn
    <3>1. PICK o \in {"approved", "conflict"} : link' = [link EXCEPT ![p].outcome = o]
        BY <2>3 DEF Settle
    <3>2. PICK w : w = [link[p] EXCEPT !.outcome = o] OBVIOUS
    <3>3. w.outcome = o BY <2>2, <3>2 DEF Works
    <3>4. linkPc' = [linkPc EXCEPT ![p] = "commit"] /\ link' = [link EXCEPT ![p] = w]
        BY <2>3, <3>1, <3>2 DEF Goto
    <3>5. Final(w) BY <3>3 DEF Final
    <3> QED BY <1>1, <3>4, <3>5, OneCommits
  <2>4. ASSUME UNCHANGED link /\ Goto(p, "insert") PROVE RequestsGoOn
    <3>1. PICK w : w = link[p] OBVIOUS
    <3>2. linkPc' = [linkPc EXCEPT ![p] = "insert"] /\ link' = [link EXCEPT ![p] = w]
        BY <1>1, <2>4, <3>1 DEF Goto, TypeInv
    <3>3. "insert" \notin {"count", "create", "commit"} OBVIOUS
    <3> QED BY <1>1, <3>2, <3>3, OneGoesOn
  <2>5. ASSUME Insert(p) /\ Goto(p, "commit") PROVE RequestsGoOn
    <3>1. PICK w : w = [link[p] EXCEPT !.outcome = "approved", !.new = {Mine(p)}] OBVIOUS
    <3>2. w.outcome = "approved" BY <2>2, <3>1 DEF Works
    <3>3. linkPc' = [linkPc EXCEPT ![p] = "commit"] /\ link' = [link EXCEPT ![p] = w]
        BY <2>5, <3>1 DEF Insert, Goto
    <3>4. Final(w) BY <3>2 DEF Final
    <3> QED BY <1>1, <3>3, <3>4, OneCommits
  <2> QED BY <1>7, <2>1, <2>3, <2>4, <2>5 DEF UpsertLink, InsertLink
<1>8. ASSUME NEW p \in Handlers, ConsumeChallenge(p) PROVE Shrinking /\ RequestsGoOn
  <2>1. /\ link[p].c \in Challenges /\ Stop(p) /\ UNCHANGED overdue
        /\ challenge' = [challenge EXCEPT ![link[p].c].status = link[p].outcome]
      BY <1>8 DEF ConsumeChallenge, At, IInv, LocksAreGood, Locking, Knows
  <2>2. link[p].outcome \in {"approved", "cancelled", "conflict"}
      BY <1>8 DEF ConsumeChallenge, At, CapacityInv, OutcomesAreFinal
  <2>3. PICK t : t = link[p].outcome /\ t \notin {"none", "pending"} BY <2>2
  <2> QED BY <1>1, <1>3, <2>1, <2>3, StatusShrinks
<1>9. ASSUME NEW p \in Handlers, Fail(p) PROVE Shrinking /\ RequestsGoOn
    BY <1>3, <1>9, RowsUnchanged DEF Fail
<1>10. ASSUME NEW p \in Handlers, Preview(p) PROVE Shrinking /\ RequestsGoOn
  <2>1. PICK c \in Challenges : link' = [link EXCEPT ![p] = [NoWork EXCEPT !.c = c]]
      BY <1>10 DEF Preview
  <2>2. linkPc' = [linkPc EXCEPT ![p] = "preview"] BY <1>10 DEF Preview, Goto
  <2>3. "preview" \notin {"count", "create", "commit"} OBVIOUS
  <2>4. RequestsGoOn BY <1>1, <2>1, <2>2, <2>3, OneGoesOn
  <2> QED BY <1>10, <2>4, RowsUnchanged DEF Preview
<1>11. ASSUME NEW p \in Handlers, MarkExpired(p) PROVE Shrinking /\ RequestsGoOn
  <2>1. /\ link[p].c \in Challenges /\ Stop(p) /\ UNCHANGED overdue
        /\ challenge' = [challenge EXCEPT ![link[p].c].status = "expired"]
      BY <1>1, <1>11 DEF MarkExpired, TypeInv
  <2>2. "expired" \notin {"none", "pending"} OBVIOUS
  <2> QED BY <1>1, <1>3, <2>1, <2>2, StatusShrinks
<1>12. ASSUME NEW c \in Challenges, GrowOld(c) PROVE Shrinking /\ RequestsGoOn
    BY <1>12, NobodyGoesOn DEF GrowOld, Shrinking, CapacityInv, OverdueAreMade
<1>13. CASE CleanExpiredChallenges
    BY <1>1, <1>13, DeleteShrinks, NobodyGoesOn DEF CleanExpiredChallenges
<1>14. ASSUME NEW u \in Accounts, Unlink(u) PROVE Shrinking /\ RequestsGoOn
    BY <1>14, RowsUnchanged, NobodyGoesOn DEF Unlink
<1>15. CASE UNCHANGED linkVars BY <1>15, RowsUnchanged, NobodyGoesOn DEF linkVars
<1> QED BY <1>2, <1>4, <1>5, <1>6, <1>7, <1>8, <1>9, <1>10, <1>11, <1>12, <1>13, <1>14, <1>15
        DEF Next

\* A bot never has more challenges open than maxPendingChallenges, however many requests
\* for one overlap: Start (service.go) counts and creates with the bot's credential locked.
THEOREM CapacityAlwaysHolds ==
    ASSUME MaxChallenges \in Nat, MaxPending \in Nat
    PROVE  Spec => []CapacityHolds
<1>1. Init => CapacityInv
  <2> SUFFICES ASSUME Init PROVE CapacityInv OBVIOUS
  <2>1. /\ challenge = [c \in Challenges |-> NoChallenge] /\ overdue = {}
        /\ linkPc = [p \in Handlers |-> "idle"]
      BY DEF Init
  <2>2. \A b : Pending(b, overdue) = {} BY <2>1 DEF Pending, NoChallenge
  <2>3. CapacityHolds BY <2>2, FS_EmptySet DEF CapacityHolds
  <2> QED BY <2>1, <2>3 DEF CapacityInv, OverdueAreMade, PastAreOver, OneCreates, Creating,
                            CreatorsHaveRoom, OutcomesAreFinal
<1>2. IInv /\ CapacityInv /\ [Next]_linkVars => CapacityInv' BY CapacityStep
<1>3. CapacityInv => CapacityHolds BY DEF CapacityInv
<1> QED BY <1>1, <1>2, <1>3, IInvStarts, IInvStep, PTL DEF Spec
=============================================================================
