----------------------- MODULE ArtifactLifecycleProofs -----------------------
(***************************************************************************)
(* The theorems about ArtifactLifecycle, for any sets of keys, scopes and  *)
(* processes.                                                              *)
(***************************************************************************)
EXTENDS ArtifactLifecycle, TLAPS

USE ArtifactAssumption

\* What a process at `step` with the local variables l has.
Fits(step, l) ==
    /\ step \in {"revoke_up", "drop_row", "drop_intent", "resolve"} => l.cur \in Keys
    /\ step \in {"list", "stage_ready", "revoke"} => l.cur = None
    /\ step = "resolve" => l.listed = {}
    /\ step \in {"stage", "put", "finalize"} => l.own \in Keys
    /\ step \in {"stage", "put", "finalize", "confirm"} => l.out \in Keys
    /\ step \in {"issue", "stage", "put"} \/ l.then = "issue" => l.scope \in Scopes
    /\ step = "stage_ready" => l.listed \subseteq l.todo \union l.staged
    /\ step \in {"issue", "stage", "put", "finalize", "confirm"} => l.then = ""

TypeInv == TypeOK /\ \A p \in Procs : Fits(pc[p], loc[p])

LEMMA NoLocFits == NoLoc \in Local /\ Fits("idle", NoLoc)
  BY DEF NoLoc, Local, Fits

LEMMA NoRowType == NoRow \in Row
  BY DEF NoRow, Row

\* A process that becomes (step, l) leaves the type invariant of the processes.
LEMMA BecomeType ==
    ASSUME NEW p \in Procs, NEW step \in Steps, NEW l \in Local, TypeInv,
           Become(p, step, l), Fits(step, l)
    PROVE  /\ pc' \in [Procs -> Steps] /\ loc' \in [Procs -> Local]
           /\ \A q \in Procs : Fits(pc'[q], loc'[q])
           /\ pc'[p] = step /\ loc'[p] = l
           /\ \A q \in Procs \ {p} : pc'[q] = pc[q] /\ loc'[q] = loc[q]
<1> USE DEF TypeInv, TypeOK, Become
<1>1. pc' \in [Procs -> Steps] /\ loc' \in [Procs -> Local]
  OBVIOUS
<1>2. pc'[p] = step /\ loc'[p] = l
  OBVIOUS
<1>3. \A q \in Procs \ {p} : pc'[q] = pc[q] /\ loc'[q] = loc[q]
  OBVIOUS
<1> QED BY <1>1, <1>2, <1>3

LEMMA GotoType ==
    ASSUME NEW p \in Procs, NEW step \in Steps, TypeInv, Goto(p, step), Fits(step, loc[p])
    PROVE  /\ pc' \in [Procs -> Steps] /\ loc' \in [Procs -> Local]
           /\ \A q \in Procs : Fits(pc'[q], loc'[q])
           /\ pc'[p] = step /\ loc' = loc
           /\ \A q \in Procs \ {p} : pc'[q] = pc[q]
<1> USE DEF TypeInv, TypeOK, Goto
<1>1. pc' \in [Procs -> Steps] /\ loc' \in [Procs -> Local] /\ loc' = loc
  OBVIOUS
<1>2. pc'[p] = step
  OBVIOUS
<1>3. \A q \in Procs \ {p} : pc'[q] = pc[q]
  OBVIOUS
<1> QED BY <1>1, <1>2, <1>3


\* The data of a step, one operator at a time.

IntentsTyped ==
    /\ intent' \in [Keys -> {"none", "provisional", "ready"}]
    /\ lease' \in [Keys -> Procs \union {None}]
    /\ settled' \subseteq Keys

LEMMA SetIntentType ==
    ASSUME TypeInv, NEW k \in Keys, NEW state \in {"none", "provisional", "ready"},
           SetIntent(k, state)
    PROVE  IntentsTyped
  BY DEF TypeInv, TypeOK, SetIntent, IntentsTyped

LEMMA DeleteIntentType ==
    ASSUME TypeInv, NEW k \in Keys, DeleteIntent(k)
    PROVE  IntentsTyped
  BY DEF TypeInv, TypeOK, DeleteIntent, IntentsTyped

LEMMA SameIntentsType == ASSUME TypeInv, UNCHANGED intents PROVE IntentsTyped
  BY DEF TypeInv, TypeOK, intents, IntentsTyped

LEMMA StoredType == TypeOK => Stored \subseteq Keys /\ Hidden \subseteq Keys \union {None}
  BY DEF TypeOK, Row, Stored, Hidden

LEMMA LocalType ==
    ASSUME TypeInv, NEW p \in Procs
    PROVE  /\ loc[p] \in Local /\ pc[p] \in Steps
           /\ loc[p].scope \in Scopes \union {None}
           /\ loc[p].own \in Keys \union {None} /\ loc[p].out \in Keys \union {None}
           /\ loc[p].listed \subseteq Keys /\ loc[p].todo \subseteq Keys
           /\ loc[p].staged \subseteq Keys /\ loc[p].cur \in Keys \union {None}
           /\ loc[p].failed \in BOOLEAN
           /\ Fits(pc[p], loc[p])
  BY DEF TypeInv, TypeOK, Local

\* What TypeInv' asks for, in parts.
Others(p) == \A q \in Procs \ {p} : pc'[q] = pc[q] /\ loc'[q] = loc[q]

ProcsTyped ==
    /\ pc' \in [Procs -> Steps] /\ loc' \in [Procs -> Local]
    /\ \A q \in Procs : Fits(pc'[q], loc'[q])

LEMMA EndType ==
    ASSUME TypeInv, NEW p \in Procs, End(p)
    PROVE  /\ ProcsTyped /\ Others(p) /\ holder' \in Procs \union {None}
           /\ pc'[p] = "idle" /\ loc'[p] = NoLoc
<1>1. Become(p, "idle", NoLoc) /\ holder' \in Procs \union {None}
  BY DEF End, Unlock, TypeInv, TypeOK
<1> QED BY <1>1, NoLocFits, BecomeType DEF ProcsTyped, Others, Steps

Listing(then, s) == [NoLoc EXCEPT !.then = then, !.scope = s]

LEMMA InvalidateType ==
    ASSUME TypeInv, NEW p \in Procs, NEW s \in Scopes \union {None},
           NEW then \in {"plain", "issue", "change", "attention"},
           then = "issue" => s \in Scopes, Invalidate(p, then, s)
    PROVE  /\ ProcsTyped /\ Others(p) /\ pc'[p] = "list"
           /\ loc'[p] = Listing(then, s)
<1> DEFINE l == Listing(then, s)
<1>1. l \in Local /\ Fits("list", l)
  BY DEF NoLoc, Local, Fits, Listing
<1>2. Become(p, "list", l)
  BY DEF Invalidate, Listing
<1> HIDE DEF l
<1>3. ProcsTyped /\ Others(p) /\ pc'[p] = "list" /\ loc'[p] = l
  BY <1>1, <1>2, BecomeType DEF ProcsTyped, Others, Steps
<1> QED BY <1>3 DEF l

LEMMA RevokeOwnType ==
    ASSUME TypeInv, NEW p \in Procs, loc[p].own \in Keys, RevokeOwn(p)
    PROVE  /\ ProcsTyped /\ Others(p) /\ pc'[p] = "revoke" /\ holder' \in Procs \union {None}
           /\ loc'[p] = [NoLoc EXCEPT !.then = "own", !.own = loc[p].own,
                                      !.staged = {loc[p].own}]
<1> DEFINE l == [NoLoc EXCEPT !.then = "own", !.own = loc[p].own, !.staged = {loc[p].own}]
<1>1. l \in Local /\ Fits("revoke", l)
  BY DEF NoLoc, Local, Fits
<1>2. Become(p, "revoke", l) /\ holder' \in Procs \union {None}
  BY DEF RevokeOwn, Unlock, TypeInv, TypeOK
<1> HIDE DEF l
<1>3. ProcsTyped /\ Others(p) /\ pc'[p] = "revoke" /\ loc'[p] = l
  BY <1>1, <1>2, BecomeType DEF ProcsTyped, Others, Steps
<1> QED BY <1>2, <1>3 DEF l

LEMMA CommitsType ==
    ASSUME TypeInv, NEW p \in Procs, NEW outcome \in {"done", "owed", "error"},
           Commits(p, outcome)
    PROVE  /\ ProcsTyped /\ Others(p) /\ holder' \in Procs \union {None}
           /\ active' \in BOOLEAN /\ fenced' \in BOOLEAN
           /\ \/ pc'[p] = "idle" /\ loc'[p] = NoLoc
              \/ /\ pc'[p] = "issue" /\ outcome = "done" /\ holder' = holder
                 /\ loc'[p] = [NoLoc EXCEPT !.scope = loc[p].scope]
<1>1. active' \in BOOLEAN /\ fenced' \in BOOLEAN
  BY DEF Commits, TypeInv, TypeOK, credential
<1>2. CASE ~(loc[p].then = "issue" /\ outcome = "done")
  <2>1. End(p)
    BY <1>2 DEF Commits
  <2> QED BY <1>1, <2>1, EndType
<1>3. CASE loc[p].then = "issue" /\ outcome = "done"
  <2> DEFINE l == [NoLoc EXCEPT !.scope = loc[p].scope]
  <2>1. loc[p].scope \in Scopes
    BY <1>3, LocalType DEF Fits
  <2>2. l \in Local /\ Fits("issue", l)
    BY <2>1 DEF NoLoc, Local, Fits
  <2>3. Become(p, "issue", l) /\ holder' = holder
    BY <1>3 DEF Commits
  <2>4. holder' \in Procs \union {None}
    BY <2>3 DEF TypeInv, TypeOK
  <2> HIDE DEF l
  <2>5. ProcsTyped /\ Others(p) /\ pc'[p] = "issue" /\ loc'[p] = l
    BY <2>2, <2>3, BecomeType DEF ProcsTyped, Others, Steps
  <2> QED BY <1>1, <1>3, <2>3, <2>4, <2>5 DEF l
<1> QED BY <1>2, <1>3

\* The parts together.
LEMMA TypeParts ==
    ASSUME up' \in [Keys -> {"unissued", "live", "revoked", "expired"}],
           row' \in [Scopes -> Row], IntentsTyped,
           active' \in BOOLEAN, fenced' \in BOOLEAN, holder' \in Procs \union {None},
           ProcsTyped, got' \subseteq Keys, missed' \subseteq Keys
    PROVE  TypeInv'
  BY DEF TypeInv, TypeOK, IntentsTyped, ProcsTyped

-----------------------------------------------------------------------------
\* The inductive invariant.

\* What a process knows: it has seen only keys that were issued; a key it has
\* revoked works no longer, and one it has listed and not yet revoked is still to
\* come; while it holds the lock nobody stores a key where it will; and a key it
\* has stored stays stored while it works.
ProcInv(p) ==
    LET l == loc[p] IN
    /\ \A k \in Keys : up[k] = "unissued" =>
         l.own # k /\ l.cur # k /\ k \notin l.listed \union l.todo \union l.staged
    /\ pc[p] \in {"drop_row", "drop_intent"} => up[l.cur] # "live"
    /\ pc[p] \in {"revoke", "revoke_up", "drop_row", "drop_intent"} =>
         \A k \in l.listed : up[k] = "live" => k \in l.staged \union {l.cur}
    /\ pc[p] \in {"issue", "stage", "put"} /\ holder = p => row[l.scope].key = None
    /\ pc[p] = "finalize" /\ up[l.own] = "live" => l.own \in Stored \union missed

DataIssued ==
    \A k \in Keys : up[k] = "unissued" => intent[k] = "none" /\ k \notin Stored

IInv == TypeInv /\ DataIssued /\ (\A p \in Procs : ProcInv(p)) /\ LiveKeysAreRecorded

\* What a step of p does to the upstream, the rows, the intents and the lock.
UpMoves(p) ==
    /\ \A k \in Keys : up'[k] = "unissued" => up[k] = "unissued"
    /\ \A k \in Keys : up'[k] = "live" =>
         \/ up[k] = "live"
         \/ up[k] = "unissued" /\ (k \in missed' \/ (pc'[p] = "stage" /\ loc'[p].own = k))

RowsMove(p) ==
    /\ missed \subseteq missed'
    /\ \A k \in Stored : up'[k] = "live" => k \in Stored' \union missed'
    /\ Stored' \subseteq Stored \union {loc[p].own}
    /\ \A s \in Scopes : row'[s].key \in {None, row[s].key} \/ holder = p

IntentsMove(p) ==
    /\ \A k \in Keys : intent[k] # "none" /\ up'[k] = "live" =>
         intent'[k] # "none" \/ k \in Stored' \union missed'
    /\ \A k \in Keys : intent'[k] # "none" =>
         intent[k] # "none" \/ k \in loc[p].todo \union {loc[p].own, loc[p].cur}
    /\ pc[p] = "stage" /\ up'[loc[p].own] = "live" =>
         \/ intent'[loc[p].own] # "none" \/ loc[p].own \in missed'
         \/ pc'[p] = "stage" /\ loc'[p].own = loc[p].own

LockMoves(p) == holder' \in {holder, None} \/ (holder = None /\ holder' = p)

DataMoves(p) == UpMoves(p) /\ RowsMove(p) /\ IntentsMove(p)

\* A step of p and nobody else that keeps the invariant.
Stepped(p) == IInv' /\ Others(p) /\ DataMoves(p) /\ LockMoves(p)

LEMMA StepKeepsIInv ==
    ASSUME IInv, TypeInv', NEW p \in Procs, Others(p),
           UpMoves(p), RowsMove(p), IntentsMove(p), LockMoves(p), ProcInv(p)'
    PROVE  Stepped(p)
<1>1. DataIssued'
  <2> SUFFICES ASSUME NEW k \in Keys, up'[k] = "unissued"
               PROVE  intent'[k] = "none" /\ k \notin Stored'
    BY DEF DataIssued
  <2>1. up[k] = "unissued"
    BY DEF UpMoves
  <2>2. intent[k] = "none" /\ k \notin Stored /\ k \notin loc[p].todo \union {loc[p].own, loc[p].cur}
    BY <2>1 DEF IInv, DataIssued, ProcInv
  <2> QED BY <2>2 DEF RowsMove, IntentsMove
<1>2. ASSUME NEW q \in Procs \ {p} PROVE ProcInv(q)'
  <2>1. pc'[q] = pc[q] /\ loc'[q] = loc[q] /\ ProcInv(q) /\ Fits(pc[q], loc[q]) /\ loc[q] \in Local
    BY LocalType DEF Others, IInv
  <2>2. \A k \in Keys : up'[k] = "unissued" => up[k] = "unissued"
    BY DEF UpMoves
  <2>3. \A k \in Keys : up'[k] = "live" => up[k] = "live" \/ up[k] = "unissued"
    BY DEF UpMoves
  <2>4. \A k \in Keys : up'[k] = "unissued" =>
          loc'[q].own # k /\ loc'[q].cur # k
          /\ k \notin loc'[q].listed \union loc'[q].todo \union loc'[q].staged
    BY <2>1, <2>2 DEF ProcInv
  <2>5. pc'[q] \in {"drop_row", "drop_intent"} => up'[loc'[q].cur] # "live"
    <3> SUFFICES ASSUME pc[q] \in {"drop_row", "drop_intent"} PROVE up'[loc[q].cur] # "live"
      BY <2>1
    <3>1. loc[q].cur \in Keys
      BY <2>1 DEF Fits
    <3> QED BY <3>1, <2>1, <2>3 DEF ProcInv
  <2>6. pc'[q] \in {"revoke", "revoke_up", "drop_row", "drop_intent"} =>
          \A k \in loc'[q].listed : up'[k] = "live" => k \in loc'[q].staged \union {loc'[q].cur}
    <3> SUFFICES ASSUME pc[q] \in {"revoke", "revoke_up", "drop_row", "drop_intent"},
                        NEW k \in loc[q].listed, up'[k] = "live"
                 PROVE  k \in loc[q].staged \union {loc[q].cur}
      BY <2>1
    <3>1. k \in Keys
      BY LocalType DEF IInv
    <3>2. up[k] = "live"
      BY <3>1, <2>1, <2>3 DEF ProcInv
    <3> QED BY <3>2, <2>1 DEF ProcInv
  <2>7. pc'[q] \in {"issue", "stage", "put"} /\ holder' = q => row'[loc'[q].scope].key = None
    <3> SUFFICES ASSUME pc[q] \in {"issue", "stage", "put"}, holder' = q
                 PROVE  row'[loc[q].scope].key = None
      BY <2>1
    <3>1. holder = q
      BY DEF LockMoves
    <3>2. loc[q].scope \in Scopes
      BY <2>1 DEF Fits
    <3>3. row[loc[q].scope].key = None
      BY <2>1, <3>1 DEF ProcInv
    <3> QED BY <3>1, <3>2, <3>3 DEF RowsMove
  <2>8. pc'[q] = "finalize" /\ up'[loc'[q].own] = "live" => loc'[q].own \in Stored' \union missed'
    <3> SUFFICES ASSUME pc[q] = "finalize", up'[loc[q].own] = "live"
                 PROVE  loc[q].own \in Stored' \union missed'
      BY <2>1
    <3>1. loc[q].own \in Keys
      BY <2>1 DEF Fits
    <3>2. up[loc[q].own] = "live"
      BY <2>1, <2>3, <3>1 DEF ProcInv
    <3> QED BY <2>1, <3>2 DEF ProcInv, RowsMove
  <2> QED BY <2>4, <2>5, <2>6, <2>7, <2>8 DEF ProcInv
<1>3. LiveKeysAreRecorded'
  <2> SUFFICES ASSUME NEW k \in Keys, up'[k] = "live"
               PROVE  Recorded(k)' \/ k \in missed'
    BY DEF LiveKeysAreRecorded
  <2>1. CASE up[k] = "unissued"
    BY <2>1 DEF UpMoves, Recorded
  <2>2. CASE up[k] = "live"
    <3>1. Recorded(k) \/ k \in missed
      BY <2>2 DEF IInv, LiveKeysAreRecorded
    <3>2. CASE k \in missed \/ k \in Stored
      BY <3>2 DEF RowsMove, Recorded
    <3>3. CASE intent[k] # "none"
      BY <3>3 DEF IntentsMove, Recorded
    <3>4. ASSUME NEW q \in Procs, pc[q] = "stage", loc[q].own = k
          PROVE  Recorded(k)' \/ k \in missed'
      <4>1. CASE q = p
        BY <3>4, <4>1 DEF IntentsMove, Recorded
      <4>2. CASE q # p
        BY <3>4, <4>2 DEF Others, Recorded
      <4> QED BY <4>1, <4>2
    <3> QED BY <3>1, <3>2, <3>3, <3>4 DEF Recorded
  <2> QED BY <2>1, <2>2 DEF UpMoves
<1>4. \A q \in Procs : ProcInv(q)'
  BY <1>2
<1> QED BY <1>1, <1>3, <1>4 DEF IInv, Stepped, DataMoves

\* The steps that leave one of these alone.
LEMMA SameUp == ASSUME NEW p \in Procs, UNCHANGED up PROVE UpMoves(p)
  BY DEF UpMoves

LEMMA SameRows == ASSUME NEW p \in Procs, UNCHANGED row, missed \subseteq missed' PROVE RowsMove(p)
  BY DEF RowsMove, Stored

LEMMA SameIntents ==
    ASSUME NEW p \in Procs, UNCHANGED intent, pc[p] # "stage" PROVE IntentsMove(p)
  BY DEF IntentsMove

LEMMA EndLock == ASSUME NEW p \in Procs, End(p) \/ RevokeOwn(p) PROVE LockMoves(p)
  BY DEF LockMoves, End, RevokeOwn, Unlock

LEMMA NoLocFields ==
    /\ NoLoc.own = None /\ NoLoc.cur = None /\ NoLoc.listed = {} /\ NoLoc.todo = {}
    /\ NoLoc.staged = {} /\ NoLoc.then = "" /\ NoLoc.scope = None
  BY DEF NoLoc

LEMMA EndProc ==
    ASSUME NEW p \in Procs, pc'[p] = "idle", loc'[p] = NoLoc PROVE ProcInv(p)'
<1> DEFINE l == loc'[p]
<1>1. l.own = None /\ l.cur = None /\ l.listed = {} /\ l.todo = {} /\ l.staged = {}
  BY NoLocFields
<1>2. \A k \in Keys : l.own # k /\ l.cur # k /\ k \notin l.listed \union l.todo \union l.staged
  BY <1>1
<1>3. pc'[p] \notin {"drop_row", "drop_intent", "revoke", "revoke_up", "issue", "stage", "put",
                     "finalize"}
  OBVIOUS
<1> HIDE DEF l
<1> QED BY <1>2, <1>3 DEF ProcInv, l

\* A process that has nothing in its hands.
LEMMA EmptyProc ==
    ASSUME NEW p \in Procs,
           pc'[p] \notin {"drop_row", "drop_intent", "issue", "stage", "put", "finalize"},
           loc'[p].own = None, loc'[p].cur = None,
           loc'[p].listed = {}, loc'[p].todo = {}, loc'[p].staged = {}
    PROVE  ProcInv(p)'
  BY DEF ProcInv

LEMMA ListProc ==
    ASSUME NEW p \in Procs, pc'[p] = "list", NEW then, NEW s,
           loc'[p] = Listing(then, s)
    PROVE  ProcInv(p)'
<1> DEFINE l == Listing(then, s)
<1>1. l.own = None /\ l.cur = None /\ l.listed = {} /\ l.todo = {} /\ l.staged = {}
  BY DEF NoLoc, Listing
<1>2. loc'[p] = l
  OBVIOUS
<1> HIDE DEF l
<1> QED BY <1>1, <1>2, EmptyProc

-----------------------------------------------------------------------------
\* The steps by where they take the process.

DataTyped ==
    /\ up' \in [Keys -> {"unissued", "live", "revoked", "expired"}]
    /\ row' \in [Scopes -> Row] /\ IntentsTyped
    /\ got' \subseteq Keys /\ missed' \subseteq Keys

CredentialTyped == active' \in BOOLEAN /\ fenced' \in BOOLEAN

LEMMA FieldTypes ==
    ASSUME TypeInv
    PROVE  /\ up \in [Keys -> {"unissued", "live", "revoked", "expired"}]
           /\ row \in [Scopes -> Row] /\ active \in BOOLEAN /\ fenced \in BOOLEAN
           /\ holder \in Procs \union {None} /\ got \subseteq Keys /\ missed \subseteq Keys
  BY DEF TypeInv, TypeOK

LEMMA SameCredential == ASSUME TypeInv, UNCHANGED credential PROVE CredentialTyped
  BY FieldTypes DEF credential, CredentialTyped

LEMMA LockType ==
    ASSUME TypeInv, NEW p \in Procs, LockMoves(p) PROVE holder' \in Procs \union {None}
  BY FieldTypes DEF LockMoves

LEMMA BecomeStep ==
    ASSUME IInv, NEW p \in Procs, NEW step \in Steps, NEW l \in Local, Fits(step, l),
           Become(p, step, l), DataTyped, CredentialTyped, DataMoves(p), LockMoves(p),
           pc'[p] = step /\ loc'[p] = l => ProcInv(p)'
    PROVE  Stepped(p)
<1>1. TypeInv
  BY DEF IInv
<1>2. ProcsTyped /\ Others(p) /\ pc'[p] = step /\ loc'[p] = l
  BY <1>1, BecomeType DEF ProcsTyped, Others
<1>3. TypeInv'
  BY <1>1, <1>2, LockType, TypeParts DEF DataTyped, CredentialTyped
<1> QED BY <1>2, <1>3, StepKeepsIInv DEF DataMoves

LEMMA GotoStep ==
    ASSUME IInv, NEW p \in Procs, NEW step \in Steps, Fits(step, loc[p]),
           Goto(p, step), DataTyped, CredentialTyped, DataMoves(p),
           pc'[p] = step /\ loc' = loc /\ holder' = holder => ProcInv(p)'
    PROVE  Stepped(p)
<1>1. TypeInv
  BY DEF IInv
<1>2. ProcsTyped /\ Others(p) /\ pc'[p] = step /\ loc' = loc
  BY <1>1, GotoType DEF ProcsTyped, Others
<1>3. holder' = holder /\ LockMoves(p)
  BY DEF Goto, LockMoves
<1>4. TypeInv'
  BY <1>1, <1>2, <1>3, LockType, TypeParts DEF DataTyped, CredentialTyped
<1> QED BY <1>2, <1>3, <1>4, StepKeepsIInv DEF DataMoves

LEMMA EndStep ==
    ASSUME IInv, NEW p \in Procs, End(p), DataTyped, CredentialTyped, DataMoves(p)
    PROVE  Stepped(p)
<1>1. TypeInv
  BY DEF IInv
<1>2. ProcsTyped /\ Others(p) /\ holder' \in Procs \union {None} /\ ProcInv(p)'
  BY <1>1, EndType, EndProc
<1>3. TypeInv'
  BY <1>2, TypeParts DEF DataTyped, CredentialTyped
<1> QED BY <1>2, <1>3, EndLock, StepKeepsIInv DEF DataMoves

LEMMA InvalidateStep ==
    ASSUME IInv, NEW p \in Procs, NEW s \in Scopes \union {None},
           NEW then \in {"plain", "issue", "change", "attention"},
           then = "issue" => s \in Scopes, Invalidate(p, then, s),
           DataTyped, CredentialTyped, DataMoves(p), LockMoves(p)
    PROVE  Stepped(p)
<1>1. TypeInv
  BY DEF IInv
<1>2. /\ ProcsTyped /\ Others(p) /\ pc'[p] = "list"
      /\ loc'[p] = Listing(then, s)
  BY <1>1, InvalidateType
<1>3. TypeInv'
  BY <1>1, <1>2, LockType, TypeParts DEF DataTyped, CredentialTyped
<1>4. ProcInv(p)'
  BY <1>2, ListProc
<1> QED BY <1>2, <1>3, <1>4, StepKeepsIInv DEF DataMoves

LEMMA RevokeOwnStep ==
    ASSUME IInv, NEW p \in Procs, loc[p].own \in Keys, RevokeOwn(p),
           DataTyped, CredentialTyped, DataMoves(p)
    PROVE  Stepped(p)
<1> DEFINE k == loc[p].own
           l == [NoLoc EXCEPT !.then = "own", !.own = k, !.staged = {k}]
<1>1. TypeInv /\ ProcInv(p)
  BY DEF IInv
<1>2. ProcsTyped /\ Others(p) /\ holder' \in Procs \union {None}
      /\ pc'[p] = "revoke" /\ loc'[p] = l
  BY <1>1, RevokeOwnType
<1>3. TypeInv'
  BY <1>2, TypeParts DEF DataTyped, CredentialTyped
<1>4. l.own = k /\ l.cur = None /\ l.listed = {} /\ l.todo = {} /\ l.staged = {k}
  BY DEF NoLoc
<1>5. ProcInv(p)'
  <2>1. \A j \in Keys : up'[j] = "unissued" => k # j
    BY <1>1 DEF ProcInv, DataMoves, UpMoves
  <2> HIDE DEF l
  <2> QED BY <1>2, <1>4, <2>1 DEF ProcInv
<1> QED BY <1>2, <1>3, <1>5, EndLock, StepKeepsIInv DEF DataMoves

LEMMA CommitsStep ==
    ASSUME IInv, NEW p \in Procs, NEW outcome \in {"done", "owed", "error"},
           Commits(p, outcome), DataTyped, DataMoves(p),
           outcome = "done" => \A s \in Scopes : row'[s].key = None
    PROVE  Stepped(p)
<1>1. TypeInv /\ Fits(pc[p], loc[p])
  BY DEF IInv, TypeInv
<1>2. ProcsTyped /\ Others(p) /\ holder' \in Procs \union {None} /\ CredentialTyped
  BY <1>1, CommitsType DEF CredentialTyped
<1>3. TypeInv'
  BY <1>2, TypeParts DEF DataTyped, CredentialTyped
<1>4. CASE pc'[p] = "idle" /\ loc'[p] = NoLoc /\ End(p)
  BY <1>2, <1>3, <1>4, EndProc, EndLock, StepKeepsIInv DEF DataMoves
<1>5. CASE /\ pc'[p] = "issue" /\ outcome = "done" /\ holder' = holder
           /\ loc'[p] = [NoLoc EXCEPT !.scope = loc[p].scope]
           /\ loc[p].then = "issue"
  <2> DEFINE l == [NoLoc EXCEPT !.scope = loc[p].scope]
  <2>1. loc[p].scope \in Scopes
    BY <1>1, <1>5 DEF Fits
  <2>2. /\ l.own = None /\ l.cur = None /\ l.listed = {} /\ l.todo = {} /\ l.staged = {}
        /\ l.scope = loc[p].scope
    BY DEF NoLoc
  <2>3. ProcInv(p)'
    <3>1. loc'[p] = l /\ row'[loc[p].scope].key = None /\ pc'[p] = "issue"
      BY <1>5, <2>1
    <3> HIDE DEF l
    <3> QED BY <3>1, <2>2 DEF ProcInv
  <2> QED BY <1>2, <1>3, <1>5, <2>3, StepKeepsIInv DEF DataMoves, LockMoves
<1>6. \/ End(p)
      \/ loc[p].then = "issue" /\ outcome = "done" /\ holder' = holder
         /\ Become(p, "issue", [NoLoc EXCEPT !.scope = loc[p].scope])
  BY DEF Commits
<1>7. CASE End(p)
  BY <1>1, <1>4, <1>7, EndType
<1>8. CASE loc[p].then = "issue" /\ outcome = "done" /\ holder' = holder
           /\ Become(p, "issue", [NoLoc EXCEPT !.scope = loc[p].scope])
  BY <1>1, <1>5, <1>8 DEF Become, TypeInv, TypeOK
<1> QED BY <1>6, <1>7, <1>8

\* A step that leaves the data alone.
LEMMA SameData ==
    ASSUME IInv, NEW p \in Procs, UNCHANGED <<up, data, got, missed>>, pc[p] # "stage"
    PROVE  DataTyped /\ DataMoves(p)
<1>1. TypeInv /\ UNCHANGED <<up, row, got, missed, intent>> /\ UNCHANGED intents
  BY DEF IInv, data, intents
<1> QED BY <1>1, FieldTypes, SameIntentsType, SameUp, SameRows, SameIntents
        DEF DataTyped, DataMoves

LEMMA DeadKey ==
    ASSUME TypeInv, NEW p \in Procs, NEW k \in Keys, Dead(k)
    PROVE  /\ up' \in [Keys -> {"unissued", "live", "revoked", "expired"}] /\ got' \subseteq Keys
           /\ UpMoves(p) /\ up'[k] # "live"
  BY FieldTypes DEF Dead, UpMoves

-----------------------------------------------------------------------------
\* One lemma per action.

LEMMA StartIssueStep ==
    ASSUME IInv, NEW p \in Procs, NEW s \in Scopes, StartIssue(p, s) PROVE Stepped(p)
<1>1. TypeInv /\ ProcInv(p)
  BY DEF IInv
<1>2. pc[p] = "idle" /\ holder = None /\ UNCHANGED <<up, intents, credential, got, missed>>
  BY DEF StartIssue
<1>3. CredentialTyped /\ pc[p] # "stage" /\ UNCHANGED intents
  BY <1>1, <1>2, SameCredential
<1>4. ASSUME UNCHANGED row PROVE DataTyped /\ DataMoves(p)
  BY <1>2, <1>4, SameData DEF data
<1>5. CASE holder' = p /\ UNCHANGED row /\ Invalidate(p, "plain", None)
  BY <1>2, <1>3, <1>4, <1>5, InvalidateStep DEF LockMoves
<1>6. CASE holder' = p /\ UNCHANGED row /\ Invalidate(p, "issue", s)
  BY <1>2, <1>3, <1>4, <1>6, InvalidateStep DEF LockMoves
<1>7. CASE /\ Usable(s) /\ UNCHANGED <<row, holder>>
           /\ Become(p, "confirm", [NoLoc EXCEPT !.out = row[s].key])
  <2> DEFINE l == [NoLoc EXCEPT !.out = row[s].key]
  <2>1. row[s].key \in Keys
    BY <1>1, <1>7 DEF Usable, TypeInv, TypeOK, Row
  <2>2. l \in Local /\ Fits("confirm", l) /\ "confirm" \in Steps
    BY <2>1 DEF NoLoc, Local, Fits, Steps
  <2>3. l.own = None /\ l.cur = None /\ l.listed = {} /\ l.todo = {} /\ l.staged = {}
    BY DEF NoLoc
  <2>4. Become(p, "confirm", l) /\ LockMoves(p)
    BY <1>7 DEF LockMoves
  <2> HIDE DEF l
  <2>5. pc'[p] = "confirm" /\ loc'[p] = l => ProcInv(p)'
    BY <2>3, EmptyProc
  <2> QED BY <1>3, <1>4, <1>7, <2>2, <2>4, <2>5, BecomeStep
<1>8. CASE /\ holder' = p /\ ~Usable(s) /\ ~RevocationPending
           /\ row' = [row EXCEPT ![s] = NoRow]
           /\ Become(p, "issue", [NoLoc EXCEPT !.scope = s])
  <2> DEFINE l == [NoLoc EXCEPT !.scope = s]
  <2>1. l \in Local /\ Fits("issue", l) /\ "issue" \in Steps
    BY DEF NoLoc, Local, Fits, Steps
  <2>2. /\ row' \in [Scopes -> Row] /\ row'[s].key = None
        /\ \A t \in Scopes \ {s} : row'[t] = row[t]
    BY <1>1, <1>8, FieldTypes, NoRowType DEF NoRow
  <2>3. DataTyped
    BY <1>1, <1>2, <1>3, <2>2, FieldTypes, SameIntentsType DEF DataTyped
  <2>4. RowsMove(p)
    <3>1. row[s].key = None \/ up[row[s].key] = "expired"
      <4>1. ~row[s].pending \/ row[s].key = None
        BY <1>8, <1>1, FieldTypes DEF RevocationPending, Hidden
      <4> QED BY <1>8, <4>1 DEF Usable
    <3>2. \A k \in Stored : up'[k] = "live" => k \in Stored'
      BY <3>1, <2>2, <1>2 DEF Stored
    <3>3. Stored' \subseteq Stored /\ \A t \in Scopes : row'[t].key \in {None, row[t].key}
      BY <2>2 DEF Stored
    <3> QED BY <1>2, <3>2, <3>3 DEF RowsMove
  <2>5. DataMoves(p)
    BY <1>2, <1>3, <2>4, SameUp, SameIntents DEF DataMoves, intents
  <2>6. LockMoves(p)
    BY <1>2, <1>8 DEF LockMoves
  <2>7. /\ l.own = None /\ l.cur = None /\ l.listed = {} /\ l.todo = {} /\ l.staged = {}
        /\ l.scope = s
    BY DEF NoLoc
  <2>8. Become(p, "issue", l)
    BY <1>8
  <2> HIDE DEF l
  <2>9. pc'[p] = "issue" /\ loc'[p] = l => ProcInv(p)'
    BY <2>2, <2>7 DEF ProcInv
  <2> QED BY <1>3, <2>1, <2>3, <2>5, <2>6, <2>8, <2>9, BecomeStep
<1> QED BY <1>5, <1>6, <1>7, <1>8 DEF StartIssue

LEMMA IssueStep == ASSUME IInv, NEW p \in Procs, Issue(p) PROVE Stepped(p)
<1>1. TypeInv /\ ProcInv(p) /\ Fits(pc[p], loc[p]) /\ loc[p] \in Local
  BY LocalType DEF IInv
<1>2. PICK k \in Keys :
        /\ up[k] = "unissued" /\ up' = [up EXCEPT ![k] = "live"]
        /\ Become(p, "stage", [loc[p] EXCEPT !.own = k, !.out = k])
  BY DEF Issue
<1> DEFINE l == [loc[p] EXCEPT !.own = k, !.out = k]
<1>3. pc[p] = "issue" /\ holder = p /\ UNCHANGED <<data, credential, holder, got, missed>>
  BY DEF Issue
<1>4. l \in Local /\ Fits("stage", l) /\ "stage" \in Steps
  BY <1>1, <1>3 DEF Local, Fits, Steps
<1>5. /\ l.own = k /\ l.cur = loc[p].cur /\ l.listed = loc[p].listed
      /\ l.todo = loc[p].todo /\ l.staged = loc[p].staged /\ l.scope = loc[p].scope
  BY <1>1 DEF Local
<1>6. up' \in [Keys -> {"unissued", "live", "revoked", "expired"}]
      /\ up'[k] = "live" /\ \A j \in Keys \ {k} : up'[j] = up[j]
  BY <1>1, <1>2, FieldTypes
<1>7. UNCHANGED <<row, intents, intent>>
  BY <1>3 DEF data, intents
<1>8. DataTyped /\ CredentialTyped /\ LockMoves(p)
  BY <1>1, <1>3, <1>6, <1>7, FieldTypes, SameIntentsType, SameCredential DEF DataTyped, LockMoves
<1>9. Become(p, "stage", l)
  BY <1>2
<1> HIDE DEF l
<1>10. pc'[p] = "stage" /\ loc'[p] = l
  BY <1>1, <1>4, <1>9, BecomeType
<1>11. DataMoves(p)
  <2>1. UpMoves(p)
    BY <1>2, <1>5, <1>6, <1>10 DEF UpMoves
  <2> QED BY <2>1, <1>3, <1>7, SameRows, SameIntents DEF DataMoves
<1>12. ProcInv(p)'
  <2>1. \A j \in Keys : up'[j] = "unissued" => up[j] = "unissued" /\ j # k
    BY <1>6
  <2>2. row'[l.scope].key = None
    BY <1>1, <1>3, <1>5, <1>7 DEF ProcInv
  <2> QED BY <1>1, <1>5, <1>10, <2>1, <2>2 DEF ProcInv
<1> QED BY <1>4, <1>8, <1>9, <1>11, <1>12, BecomeStep

LEMMA IssueFailsStep == ASSUME IInv, NEW p \in Procs, IssueFails(p) PROVE Stepped(p)
<1>1. TypeInv
  BY DEF IInv
<1>2. pc[p] = "issue" /\ UNCHANGED <<data, credential, got>> /\ CredentialTyped
  BY <1>1, SameCredential DEF IssueFails
<1>3. ASSUME UNCHANGED <<up, missed>> PROVE DataTyped /\ DataMoves(p)
  BY <1>2, <1>3, SameData
<1>4. CASE End(p) /\ UNCHANGED <<up, missed>>
  BY <1>2, <1>3, <1>4, EndStep
<1>5. CASE Invalidate(p, "attention", None) /\ UNCHANGED <<up, holder, missed>>
  BY <1>2, <1>3, <1>5, InvalidateStep DEF LockMoves
<1>6. ASSUME NEW k \in Keys, up[k] = "unissued", up' = [up EXCEPT ![k] = "live"],
             missed' = missed \union {k}, End(p)
      PROVE  Stepped(p)
  <2>1. UNCHANGED <<row, intents, intent>>
    BY <1>2 DEF data, intents
  <2>2. DataTyped
    BY <1>1, <1>2, <1>6, <2>1, FieldTypes, SameIntentsType DEF DataTyped
  <2>3. UpMoves(p)
    BY <1>1, <1>6, FieldTypes DEF UpMoves
  <2>4. DataMoves(p)
    BY <1>2, <1>6, <2>1, <2>3, SameRows, SameIntents DEF DataMoves
  <2> QED BY <1>2, <1>6, <2>2, <2>4, EndStep
<1> QED BY <1>4, <1>5, <1>6 DEF IssueFails

LEMMA StageStep == ASSUME IInv, NEW p \in Procs, Stage(p) PROVE Stepped(p)
<1>1. TypeInv /\ ProcInv(p) /\ Fits(pc[p], loc[p])
  BY LocalType DEF IInv
<1> DEFINE k == loc[p].own
<1>2. /\ pc[p] = "stage" /\ SetIntent(k, "provisional") /\ Goto(p, "put")
      /\ UNCHANGED <<up, row, credential, got, missed>> /\ k \in Keys
  BY <1>1 DEF Stage, Fits
<1>3. DataTyped /\ CredentialTyped
  BY <1>1, <1>2, FieldTypes, SetIntentType, SameCredential DEF DataTyped
<1>4. IntentsMove(p)
  BY <1>1, <1>2 DEF IntentsMove, SetIntent, TypeInv, TypeOK
<1>5. DataMoves(p)
  BY <1>2, <1>4, SameUp, SameRows DEF DataMoves
<1>6. pc'[p] = "put" /\ loc' = loc /\ holder' = holder => ProcInv(p)'
  BY <1>1, <1>2 DEF ProcInv
<1>7. Fits("put", loc[p]) /\ "put" \in Steps
  BY <1>1, <1>2 DEF Fits, Steps
<1> QED BY <1>2, <1>3, <1>5, <1>6, <1>7, GotoStep

LEMMA StageFailsStep == ASSUME IInv, NEW p \in Procs, StageFails(p) PROVE Stepped(p)
<1>1. TypeInv /\ ProcInv(p) /\ Fits(pc[p], loc[p])
  BY LocalType DEF IInv
<1> DEFINE k == loc[p].own
<1>2. /\ pc[p] = "stage" /\ k \in Keys /\ End(p) /\ UNCHANGED <<row, credential>>
      /\ \/ Dead(k) /\ UNCHANGED missed
         \/ UNCHANGED <<up, got>> /\ missed' = missed \union {k}
      /\ SetIntent(k, "provisional") \/ UNCHANGED intents
  BY <1>1 DEF StageFails, Fits
<1>3. /\ up' \in [Keys -> {"unissued", "live", "revoked", "expired"}] /\ got' \subseteq Keys
      /\ missed' \subseteq Keys /\ missed \subseteq missed' /\ UpMoves(p)
      /\ up'[k] # "live" \/ k \in missed'
  BY <1>1, <1>2, DeadKey, FieldTypes, SameUp
<1>4. DataTyped /\ CredentialTyped
  BY <1>1, <1>2, <1>3, FieldTypes, SetIntentType, SameIntentsType, SameCredential DEF DataTyped
<1>5. IntentsMove(p)
  <2>1. \A j \in Keys : intent'[j] = intent[j] \/ (j = k /\ intent'[j] = "provisional")
    BY <1>1, <1>2 DEF SetIntent, intents, TypeInv, TypeOK
  <2> QED BY <1>3, <2>1 DEF IntentsMove
<1>6. DataMoves(p)
  BY <1>2, <1>3, <1>5, SameRows DEF DataMoves
<1> QED BY <1>2, <1>4, <1>6, EndStep

\* Put and PutFails: the scope of the key has no row while p holds the lock.
LEMMA StoreMoves ==
    ASSUME TypeInv, NEW p \in Procs, ProcInv(p), pc[p] = "put", holder = p, Store(p),
           UNCHANGED <<up, missed>>
    PROVE  row' \in [Scopes -> Row] /\ RowsMove(p) /\ loc[p].own \in Stored'
<1> DEFINE k == loc[p].own
           s == loc[p].scope
<1>1. k \in Keys /\ s \in Scopes /\ row[s].key = None
  BY LocalType DEF Fits, ProcInv
<1>2. row' \in [Scopes -> Row] /\ row'[s].key = k /\ \A t \in Scopes \ {s} : row'[t] = row[t]
  BY <1>1, FieldTypes DEF Store, Row
<1>3. k \in Stored' /\ Stored \subseteq Stored' /\ Stored' \subseteq Stored \union {k}
  BY <1>1, <1>2 DEF Stored
<1> QED BY <1>2, <1>3 DEF RowsMove

LEMMA PutStep == ASSUME IInv, NEW p \in Procs, Put(p) PROVE Stepped(p)
<1>1. TypeInv /\ ProcInv(p) /\ Fits(pc[p], loc[p]) /\ loc[p] \in Local
  BY LocalType DEF IInv
<1> DEFINE l == [loc[p] EXCEPT !.scope = None]
<1>2. /\ pc[p] = "put" /\ holder = p /\ Store(p) /\ holder' = None
      /\ UNCHANGED <<up, intents, intent, credential, got, missed>> /\ Become(p, "finalize", l)
  BY DEF Put, intents
<1>3. row' \in [Scopes -> Row] /\ RowsMove(p) /\ loc[p].own \in Stored'
  BY <1>1, <1>2, StoreMoves
<1>4. DataTyped /\ CredentialTyped /\ LockMoves(p)
  BY <1>1, <1>2, <1>3, FieldTypes, SameIntentsType, SameCredential DEF DataTyped, LockMoves
<1>5. DataMoves(p)
  BY <1>2, <1>3, SameUp, SameIntents DEF DataMoves
<1>6. l \in Local /\ Fits("finalize", l) /\ "finalize" \in Steps
  BY <1>1, <1>2 DEF Local, Fits, Steps
<1>7. /\ l.own = loc[p].own /\ l.cur = loc[p].cur /\ l.listed = loc[p].listed
      /\ l.todo = loc[p].todo /\ l.staged = loc[p].staged
  BY <1>1 DEF Local
<1> HIDE DEF l
<1>8. pc'[p] = "finalize" /\ loc'[p] = l => ProcInv(p)'
  BY <1>1, <1>2, <1>3, <1>7 DEF ProcInv
<1> QED BY <1>2, <1>4, <1>5, <1>6, <1>8, BecomeStep

LEMMA PutFailsStep == ASSUME IInv, NEW p \in Procs, PutFails(p) PROVE Stepped(p)
<1>1. TypeInv /\ ProcInv(p) /\ Fits(pc[p], loc[p])
  BY LocalType DEF IInv
<1>2. /\ pc[p] = "put" /\ RevokeOwn(p)
      /\ UNCHANGED row \/ (holder = p /\ Store(p))
      /\ UNCHANGED <<up, intents, intent, credential, got, missed>> /\ loc[p].own \in Keys
  BY <1>1 DEF PutFails, intents, Fits
<1>3. row' \in [Scopes -> Row] /\ RowsMove(p)
  BY <1>1, <1>2, StoreMoves, SameRows, FieldTypes
<1>4. DataTyped /\ CredentialTyped
  BY <1>1, <1>2, <1>3, FieldTypes, SameIntentsType, SameCredential DEF DataTyped
<1>5. DataMoves(p)
  BY <1>2, <1>3, SameUp, SameIntents DEF DataMoves
<1> QED BY <1>2, <1>4, <1>5, RevokeOwnStep

LEMMA DeleteIntentMoves ==
    ASSUME TypeInv, NEW p \in Procs, pc[p] # "stage", NEW k \in Keys,
           DeleteIntent(k) \/ UNCHANGED intents,
           up'[k] = "live" => k \in Stored' \union missed'
    PROVE  IntentsTyped /\ IntentsMove(p)
<1>1. \A j \in Keys : intent'[j] = intent[j] \/ (j = k /\ intent'[j] = "none")
  BY DEF DeleteIntent, intents, TypeInv, TypeOK
<1>2. IntentsTyped
  BY DeleteIntentType, SameIntentsType
<1> QED BY <1>1, <1>2 DEF IntentsMove

LEMMA FinalizeStep == ASSUME IInv, NEW p \in Procs, Finalize(p) PROVE Stepped(p)
<1>1. TypeInv /\ ProcInv(p) /\ Fits(pc[p], loc[p]) /\ loc[p] \in Local
  BY LocalType DEF IInv
<1> DEFINE k == loc[p].own
           l == [loc[p] EXCEPT !.own = None]
<1>2. /\ pc[p] = "finalize" /\ k \in Keys
      /\ DeleteIntent(k) \/ UNCHANGED intents
      /\ UNCHANGED <<up, row, credential, holder, got, missed>> /\ Become(p, "confirm", l)
  BY <1>1 DEF Finalize, Fits
<1>3. up'[k] = "live" => k \in Stored' \union missed'
  BY <1>1, <1>2 DEF ProcInv, Stored
<1>4. IntentsTyped /\ IntentsMove(p)
  BY <1>1, <1>2, <1>3, DeleteIntentMoves
<1>5. DataTyped /\ CredentialTyped /\ DataMoves(p) /\ LockMoves(p)
  BY <1>1, <1>2, <1>4, FieldTypes, SameCredential, SameUp, SameRows
     DEF DataTyped, DataMoves, LockMoves
<1>6. l \in Local /\ Fits("confirm", l) /\ "confirm" \in Steps
  BY <1>1, <1>2 DEF Local, Fits, Steps
<1>7. /\ l.own = None /\ l.cur = loc[p].cur /\ l.listed = loc[p].listed
      /\ l.todo = loc[p].todo /\ l.staged = loc[p].staged
  BY <1>1 DEF Local
<1> HIDE DEF l
<1>8. pc'[p] = "confirm" /\ loc'[p] = l => ProcInv(p)'
  BY <1>1, <1>2, <1>7 DEF ProcInv
<1> QED BY <1>2, <1>5, <1>6, <1>8, BecomeStep

LEMMA FinalizeFailsStep == ASSUME IInv, NEW p \in Procs, FinalizeFails(p) PROVE Stepped(p)
<1>1. TypeInv /\ pc[p] = "finalize" /\ RevokeOwn(p) /\ loc[p].own \in Keys
  BY LocalType DEF IInv, FinalizeFails, Fits
<1>2. DataTyped /\ DataMoves(p) /\ CredentialTyped
  BY <1>1, SameData, SameCredential DEF FinalizeFails
<1> QED BY <1>1, <1>2, RevokeOwnStep

LEMMA ConfirmStep == ASSUME IInv, NEW p \in Procs, Confirm(p) PROVE Stepped(p)
<1>1. TypeInv /\ loc[p].out \in Keys
  BY LocalType DEF IInv, Confirm, Fits
<1>2. pc[p] = "confirm" /\ End(p) /\ UNCHANGED <<up, row, intents, intent, credential, missed>>
  BY DEF Confirm, data, intents
<1>3. got' \subseteq Keys
  BY <1>1, FieldTypes DEF Confirm, Delivers
<1> QED BY <1>1, <1>2, <1>3, FieldTypes, SameIntentsType, SameCredential, SameUp, SameRows,
           SameIntents, EndStep DEF DataTyped, DataMoves

LEMMA ConfirmRefusedStep == ASSUME IInv, NEW p \in Procs, ConfirmRefused(p) PROVE Stepped(p)
<1>1. TypeInv /\ pc[p] = "confirm" /\ Invalidate(p, "plain", None) /\ LockMoves(p)
  BY DEF IInv, ConfirmRefused, LockMoves
<1>2. DataTyped /\ DataMoves(p) /\ CredentialTyped
  BY <1>1, SameData, SameCredential DEF ConfirmRefused
<1> QED BY <1>1, <1>2, InvalidateStep

LEMMA StartInvalidationStep ==
    ASSUME IInv, NEW p \in Procs, NEW then \in {"change", "attention"},
           StartInvalidation(p, then)
    PROVE  Stepped(p)
<1>1. TypeInv /\ pc[p] = "idle" /\ Invalidate(p, then, None) /\ LockMoves(p)
  BY DEF IInv, StartInvalidation, LockMoves
<1>2. DataTyped /\ DataMoves(p) /\ CredentialTyped
  BY <1>1, SameData, SameCredential DEF StartInvalidation
<1> QED BY <1>1, <1>2, InvalidateStep

LEMMA ListStep == ASSUME IInv, NEW p \in Procs, List(p) PROVE Stepped(p)
<1>1. TypeInv /\ ProcInv(p) /\ Fits(pc[p], loc[p]) /\ loc[p] \in Local /\ Stored \subseteq Keys
  BY LocalType, StoredType DEF IInv, TypeInv
<1> DEFINE l == [loc[p] EXCEPT !.listed = Stored, !.todo = Stored]
<1>2. pc[p] = "list" /\ Become(p, "stage_ready", l) /\ UNCHANGED <<up, row, holder>>
  BY DEF List, data
<1>3. DataTyped /\ DataMoves(p) /\ CredentialTyped /\ LockMoves(p)
  BY <1>1, <1>2, SameData, SameCredential DEF List, LockMoves
<1>4. l \in Local /\ Fits("stage_ready", l) /\ "stage_ready" \in Steps
  BY <1>1, <1>2 DEF Local, Fits, Steps
<1>5. /\ l.own = loc[p].own /\ l.cur = loc[p].cur /\ l.listed = Stored
      /\ l.todo = Stored /\ l.staged = loc[p].staged
  BY <1>1 DEF Local
<1> HIDE DEF l
<1>6. \A k \in Keys : up[k] = "unissued" => k \notin Stored
  BY DEF IInv, DataIssued
<1>7. pc'[p] = "stage_ready" /\ loc'[p] = l => ProcInv(p)'
  BY <1>1, <1>2, <1>5, <1>6 DEF ProcInv
<1> QED BY <1>2, <1>3, <1>4, <1>7, BecomeStep

LEMMA StageReadyStep == ASSUME IInv, NEW p \in Procs, StageReady(p) PROVE Stepped(p)
<1>1. TypeInv /\ ProcInv(p) /\ Fits(pc[p], loc[p]) /\ loc[p] \in Local /\ loc[p].todo \subseteq Keys
  BY LocalType DEF IInv
<1>2. PICK k \in loc[p].todo :
        /\ MakeReady(k)
        /\ Become(p, "stage_ready",
                  [loc[p] EXCEPT !.todo = @ \ {k}, !.staged = @ \union {k}])
  BY DEF StageReady
<1> DEFINE l == [loc[p] EXCEPT !.todo = @ \ {k}, !.staged = @ \union {k}]
<1>3. /\ pc[p] = "stage_ready" /\ SetIntent(k, "ready") /\ k \in Keys
      /\ UNCHANGED <<up, row, credential, holder, got, missed>> /\ Become(p, "stage_ready", l)
  BY <1>1, <1>2 DEF StageReady, MakeReady
<1>4. IntentsMove(p)
  BY <1>1, <1>2, <1>3 DEF IntentsMove, SetIntent, TypeInv, TypeOK
<1>5. DataTyped /\ CredentialTyped /\ DataMoves(p) /\ LockMoves(p)
  BY <1>1, <1>3, <1>4, FieldTypes, SetIntentType, SameCredential, SameUp, SameRows
     DEF DataTyped, DataMoves, LockMoves
<1>6. /\ l.own = loc[p].own /\ l.cur = loc[p].cur /\ l.listed = loc[p].listed
      /\ l.todo = loc[p].todo \ {k} /\ l.staged = loc[p].staged \union {k}
      /\ l.out = loc[p].out /\ l.scope = loc[p].scope /\ l.then = loc[p].then
  BY <1>1 DEF Local
<1>7. l \in Local /\ "stage_ready" \in Steps
  BY <1>1, <1>3 DEF Local, Steps
<1>8. Fits("stage_ready", l)
  BY <1>1, <1>3, <1>6 DEF Fits
<1> HIDE DEF l
<1>9. pc'[p] = "stage_ready" /\ loc'[p] = l => ProcInv(p)'
  BY <1>1, <1>2, <1>3, <1>6 DEF ProcInv
<1> QED BY <1>3, <1>5, <1>7, <1>8, <1>9, BecomeStep

\* What hiding and deleting every row does.
LEMMA HideMoves ==
    ASSUME TypeInv, NEW p \in Procs, Hide(p) \/ UNCHANGED <<row, missed>>, UNCHANGED up
    PROVE  row' \in [Scopes -> Row] /\ missed' \subseteq Keys /\ RowsMove(p)
<1> USE FieldTypes
<1>1. row' \in [Scopes -> Row] /\ \A s \in Scopes : row'[s].key = row[s].key
  <2>1. CASE UNCHANGED row
    BY <2>1
  <2>2. CASE Hide(p)
    <3>1. \A s \in Scopes : row'[s] = [row[s] EXCEPT !.pending = row[s].key # None]
      BY <2>2 DEF Hide
    <3>2. ASSUME NEW s \in Scopes PROVE row'[s] \in Row /\ row'[s].key = row[s].key
      <4>1. row[s] \in Row /\ (row[s].key # None) \in BOOLEAN
        OBVIOUS
      <4>2. ASSUME NEW b \in BOOLEAN
            PROVE  [row[s] EXCEPT !.pending = b] \in Row
                   /\ [row[s] EXCEPT !.pending = b].key = row[s].key
        BY <4>1 DEF Row
      <4> QED BY <3>1, <4>1, <4>2
    <3> QED BY <2>2, <3>2 DEF Hide
  <2> QED BY <2>1, <2>2
<1>2. Stored' = Stored
  BY <1>1 DEF Stored
<1>3. missed' \subseteq Keys /\ missed \subseteq missed'
  BY FieldTypes, StoredType DEF Hide, TypeInv
<1> QED BY <1>1, <1>2, <1>3 DEF RowsMove

LEMMA MarkPendingStep == ASSUME IInv, NEW p \in Procs, MarkPending(p) PROVE Stepped(p)
<1>1. TypeInv /\ ProcInv(p) /\ Fits(pc[p], loc[p])
  BY LocalType DEF IInv
<1>2. /\ pc[p] = "stage_ready" /\ loc[p].todo = {} /\ Hide(p) /\ Goto(p, "revoke")
      /\ UNCHANGED <<up, intents, intent, credential, got>>
  BY DEF MarkPending, intents
<1>3. row' \in [Scopes -> Row] /\ missed' \subseteq Keys /\ RowsMove(p)
  BY <1>1, <1>2, HideMoves
<1>4. DataTyped /\ CredentialTyped /\ DataMoves(p)
  BY <1>1, <1>2, <1>3, FieldTypes, SameIntentsType, SameCredential, SameUp, SameIntents
     DEF DataTyped, DataMoves
<1>5. Fits("revoke", loc[p]) /\ "revoke" \in Steps
  BY <1>1, <1>2 DEF Fits, Steps
<1>6. pc'[p] = "revoke" /\ loc' = loc => ProcInv(p)'
  BY <1>1, <1>2 DEF ProcInv, Fits
<1> QED BY <1>2, <1>4, <1>5, <1>6, GotoStep

LEMMA MarkPendingFailsStep == ASSUME IInv, NEW p \in Procs, MarkPendingFails(p) PROVE Stepped(p)
<1>1. TypeInv
  BY DEF IInv
<1>2. /\ pc[p] = "stage_ready"
      /\ Hide(p) \/ UNCHANGED <<row, missed>>
      /\ UNCHANGED <<up, intents, intent, got>>
  BY DEF MarkPendingFails, intents
<1>3. PICK outcome \in {"owed", "error"} : Commits(p, outcome)
  BY DEF MarkPendingFails
<1>4. row' \in [Scopes -> Row] /\ missed' \subseteq Keys /\ RowsMove(p)
  BY <1>1, <1>2, HideMoves
<1>5. DataTyped /\ DataMoves(p)
  BY <1>1, <1>2, <1>4, FieldTypes, SameIntentsType, SameUp, SameIntents
     DEF DataTyped, DataMoves
<1>6. outcome \in {"done", "owed", "error"} /\ outcome # "done"
  BY <1>3
<1> QED BY <1>3, <1>5, <1>6, CommitsStep

LEMMA ListFailsStep == ASSUME IInv, NEW p \in Procs, ListFails(p) PROVE Stepped(p)
<1>1. pc[p] # "stage" /\ Commits(p, "error")
  BY DEF ListFails
<1>2. DataTyped /\ DataMoves(p)
  BY <1>1, SameData DEF ListFails
<1> QED BY <1>1, <1>2, CommitsStep

\* Every key p listed has been revoked by the time it deletes the rows.
LEMMA DeleteAllMoves ==
    ASSUME TypeInv, NEW p \in Procs, ProcInv(p), pc[p] = "revoke", loc[p].staged = {},
           DeleteAll(p), UNCHANGED up
    PROVE  /\ row' \in [Scopes -> Row] /\ missed' \subseteq Keys /\ RowsMove(p)
           /\ \A s \in Scopes : row'[s].key = None
<1>1. row' \in [Scopes -> Row] /\ \A s \in Scopes : row'[s].key = None
  BY NoRowType DEF DeleteAll, NoRow
<1>2. Stored' = {} /\ Stored \subseteq Keys
  BY <1>1, StoredType DEF Stored, TypeInv
<1>3. missed' = missed \union (Stored \ loc[p].listed) /\ missed' \subseteq Keys
  BY <1>2, FieldTypes DEF DeleteAll
<1>4. \A k \in Stored : up'[k] = "live" => k \in missed'
  <2>1. loc[p].cur = None /\ None \notin Keys
    BY LocalType DEF Fits
  <2>2. \A k \in loc[p].listed : up[k] = "live" => k \in loc[p].staged \union {loc[p].cur}
    BY DEF ProcInv
  <2> QED BY <1>2, <1>3, <2>1, <2>2
<1> QED BY <1>1, <1>2, <1>3, <1>4 DEF RowsMove

LEMMA RevocationsEndStep == ASSUME IInv, NEW p \in Procs, RevocationsEnd(p) PROVE Stepped(p)
<1>1. TypeInv /\ ProcInv(p)
  BY DEF IInv
<1>2. pc[p] = "revoke" /\ loc[p].staged = {} /\ UNCHANGED <<up, intents, intent, got>>
  BY DEF RevocationsEnd, intents
<1>3. CASE Commits(p, "owed") /\ UNCHANGED <<row, missed>>
  BY <1>2, <1>3, SameData, CommitsStep DEF data
<1>4. CASE DeleteAll(p) /\ Commits(p, "done")
  <2>1. /\ row' \in [Scopes -> Row] /\ missed' \subseteq Keys /\ RowsMove(p)
        /\ \A s \in Scopes : row'[s].key = None
    BY <1>1, <1>2, <1>4, DeleteAllMoves
  <2>2. DataTyped /\ DataMoves(p)
    BY <1>1, <1>2, <2>1, FieldTypes, SameIntentsType, SameUp, SameIntents
       DEF DataTyped, DataMoves
  <2> QED BY <1>4, <2>1, <2>2, CommitsStep
<1> QED BY <1>3, <1>4 DEF RevocationsEnd

LEMMA DeleteAllFailsStep == ASSUME IInv, NEW p \in Procs, DeleteAllFails(p) PROVE Stepped(p)
<1>1. TypeInv /\ ProcInv(p)
  BY DEF IInv
<1>2. /\ pc[p] = "revoke" /\ loc[p].staged = {} /\ Commits(p, "error")
      /\ UNCHANGED <<up, intents, intent, got>>
      /\ DeleteAll(p) \/ UNCHANGED <<row, missed>>
  BY DEF DeleteAllFails, intents
<1>3. row' \in [Scopes -> Row] /\ missed' \subseteq Keys /\ RowsMove(p)
  BY <1>1, <1>2, DeleteAllMoves, SameRows, FieldTypes
<1>4. DataTyped /\ DataMoves(p)
  BY <1>1, <1>2, <1>3, FieldTypes, SameIntentsType, SameUp, SameIntents
     DEF DataTyped, DataMoves
<1> QED BY <1>2, <1>4, CommitsStep

-----------------------------------------------------------------------------
\* Revocations and the cleanup task.

\* How the local variables of p change while it revokes key after key.
LEMMA RevokeProc ==
    ASSUME IInv, NEW p \in Procs, pc[p] \in {"revoke", "revoke_up", "drop_row", "drop_intent"},
           \A k \in Keys : up'[k] = "unissued" => up[k] = "unissued",
           \A k \in Keys : up'[k] = "live" => up[k] = "live",
           pc'[p] \in {"revoke", "revoke_up", "drop_row", "drop_intent"},
           loc'[p].own \in {loc[p].own, None}, loc'[p].cur \in {loc[p].cur, None} \union loc[p].staged,
           loc'[p].listed \in {loc[p].listed, {}}, loc'[p].todo = loc[p].todo,
           loc'[p].staged \subseteq loc[p].staged,
           \A k \in loc'[p].listed \intersect (loc[p].staged \union {loc[p].cur}) :
              up'[k] = "live" => k \in loc'[p].staged \union {loc'[p].cur},
           pc'[p] \in {"drop_row", "drop_intent"} => up'[loc'[p].cur] # "live"
    PROVE  ProcInv(p)'
<1>1. ProcInv(p) /\ loc[p].listed \subseteq Keys
  BY LocalType DEF IInv
<1>2. \A k \in Keys : up'[k] = "unissued" =>
        loc'[p].own # k /\ loc'[p].cur # k
        /\ k \notin loc'[p].listed \union loc'[p].todo \union loc'[p].staged
  BY <1>1 DEF ProcInv
<1>3. \A k \in loc'[p].listed : up'[k] = "live" => k \in loc'[p].staged \union {loc'[p].cur}
  BY <1>1 DEF ProcInv
<1> QED BY <1>2, <1>3 DEF ProcInv

LEMMA MarkReadyStep == ASSUME IInv, NEW p \in Procs, MarkReady(p) PROVE Stepped(p)
<1>1. TypeInv /\ ProcInv(p) /\ Fits(pc[p], loc[p]) /\ loc[p] \in Local /\ loc[p].staged \subseteq Keys
  BY LocalType DEF IInv
<1>2. PICK k \in loc[p].staged :
        /\ IF Names(p, k) THEN MakeReady(k) ELSE UNCHANGED intents
        /\ Become(p, "revoke_up", [loc[p] EXCEPT !.cur = k, !.staged = @ \ {k}])
  BY DEF MarkReady
<1> DEFINE l == [loc[p] EXCEPT !.cur = k, !.staged = @ \ {k}]
<1>3. /\ pc[p] = "revoke" /\ k \in Keys /\ Become(p, "revoke_up", l)
      /\ UNCHANGED <<up, row, credential, holder, got, missed>>
      /\ (Names(p, k) /\ SetIntent(k, "ready")) \/ UNCHANGED intents
  BY <1>1, <1>2 DEF MarkReady, MakeReady
<1>4. IntentsTyped
  BY <1>1, <1>3, SetIntentType, SameIntentsType
<1>5. \A j \in Keys : intent'[j] = intent[j] \/ (intent[j] # "none" /\ intent'[j] = "ready")
  BY <1>1, <1>3 DEF Names, SetIntent, intents, TypeInv, TypeOK
<1>6. DataTyped /\ CredentialTyped /\ DataMoves(p) /\ LockMoves(p)
  BY <1>1, <1>3, <1>4, <1>5, FieldTypes, SameCredential, SameUp, SameRows
     DEF DataTyped, DataMoves, LockMoves, IntentsMove
<1>7. /\ l.own = loc[p].own /\ l.cur = k /\ l.listed = loc[p].listed
      /\ l.todo = loc[p].todo /\ l.staged = loc[p].staged \ {k}
      /\ l.scope = loc[p].scope /\ l.then = loc[p].then
  BY <1>1 DEF Local
<1>8. l \in Local /\ "revoke_up" \in Steps
  BY <1>1, <1>3 DEF Local, Steps
<1>9. Fits("revoke_up", l)
  BY <1>1, <1>3, <1>7 DEF Fits
<1>10. loc[p].cur = None
  BY <1>1, <1>3 DEF Fits
<1> HIDE DEF l
<1>11. pc'[p] = "revoke_up" /\ loc'[p] = l => ProcInv(p)'
  <2> SUFFICES ASSUME pc'[p] = "revoke_up", loc'[p] = l PROVE ProcInv(p)'
    OBVIOUS
  <2>1. \A j \in l.listed : j # None
    BY <1>1, <1>7, LocalType
  <2> QED BY <1>3, <1>7, <1>10, <2>1, RevokeProc
<1> QED BY <1>3, <1>6, <1>8, <1>9, <1>11, BecomeStep

LEMMA MarkReadyFailsStep == ASSUME IInv, NEW p \in Procs, MarkReadyFails(p) PROVE Stepped(p)
<1>1. TypeInv /\ ProcInv(p) /\ Fits(pc[p], loc[p]) /\ loc[p] \in Local
  BY LocalType DEF IInv
<1>2. PICK k \in loc[p].staged :
        Become(p, "revoke", [loc[p] EXCEPT !.staged = @ \ {k}, !.failed = TRUE, !.listed = {}])
  BY DEF MarkReadyFails
<1> DEFINE l == [loc[p] EXCEPT !.staged = @ \ {k}, !.failed = TRUE, !.listed = {}]
<1>3. pc[p] = "revoke" /\ Become(p, "revoke", l) /\ UNCHANGED up
  BY <1>2 DEF MarkReadyFails
<1>4. DataTyped /\ DataMoves(p) /\ CredentialTyped /\ LockMoves(p)
  BY <1>1, <1>3, SameData, SameCredential DEF MarkReadyFails, LockMoves
<1>5. /\ l.own = loc[p].own /\ l.cur = loc[p].cur /\ l.listed = {}
      /\ l.todo = loc[p].todo /\ l.staged = loc[p].staged \ {k}
      /\ l.scope = loc[p].scope /\ l.then = loc[p].then
  BY <1>1 DEF Local
<1>6. l \in Local /\ "revoke" \in Steps
  BY <1>1 DEF Local, Steps
<1>7. Fits("revoke", l)
  BY <1>1, <1>3, <1>5 DEF Fits
<1> HIDE DEF l
<1>8. pc'[p] = "revoke" /\ loc'[p] = l => ProcInv(p)'
  BY <1>3, <1>5, RevokeProc
<1> QED BY <1>3, <1>4, <1>6, <1>7, <1>8, BecomeStep

LEMMA RevokeUpstreamStep == ASSUME IInv, NEW p \in Procs, RevokeUpstream(p) PROVE Stepped(p)
<1>1. TypeInv /\ ProcInv(p) /\ Fits(pc[p], loc[p])
  BY LocalType DEF IInv
<1> DEFINE k == loc[p].cur
<1>2. /\ pc[p] = "revoke_up" /\ k \in Keys /\ Dead(k) /\ Goto(p, "drop_row")
      /\ UNCHANGED <<row, intents, intent, credential, missed>>
  BY <1>1 DEF RevokeUpstream, data, intents, Fits
<1>3. /\ up' \in [Keys -> {"unissued", "live", "revoked", "expired"}] /\ got' \subseteq Keys
      /\ UpMoves(p) /\ up'[k] # "live"
  BY <1>1, <1>2, DeadKey
<1>4. DataTyped /\ CredentialTyped /\ DataMoves(p)
  BY <1>1, <1>2, <1>3, FieldTypes, SameIntentsType, SameCredential, SameRows, SameIntents
     DEF DataTyped, DataMoves
<1>5. Fits("drop_row", loc[p]) /\ "drop_row" \in Steps
  BY <1>1, <1>2 DEF Fits, Steps
<1>6. \A j \in Keys : (up'[j] = "unissued" => up[j] = "unissued")
                      /\ (up'[j] = "live" => up[j] = "live")
  BY <1>1, <1>2, FieldTypes DEF Dead
<1>7. pc'[p] = "drop_row" /\ loc' = loc => ProcInv(p)'
  <2> SUFFICES ASSUME pc'[p] = "drop_row", loc' = loc PROVE ProcInv(p)'
    OBVIOUS
  <2> QED BY <1>2, <1>3, <1>6, RevokeProc
<1> QED BY <1>2, <1>4, <1>5, <1>7, GotoStep

LEMMA DropRowStep == ASSUME IInv, NEW p \in Procs, DropRow(p) PROVE Stepped(p)
<1>1. TypeInv /\ ProcInv(p) /\ Fits(pc[p], loc[p])
  BY LocalType DEF IInv
<1> DEFINE k == loc[p].cur
<1>2. /\ pc[p] = "drop_row" /\ k \in Keys /\ Goto(p, "drop_intent") /\ up[k] # "live"
      /\ row' = [s \in Scopes |-> IF row[s].key = k THEN NoRow ELSE row[s]]
      /\ UNCHANGED <<up, intents, intent, credential, got, missed>>
  BY <1>1 DEF DropRow, intents, Fits, ProcInv
<1>3. row' \in [Scopes -> Row]
  BY <1>1, <1>2, FieldTypes, NoRowType
<1>4. RowsMove(p)
  <2>1. \A s \in Scopes : row'[s] = row[s] \/ (row[s].key = k /\ row'[s].key = None)
    BY <1>2 DEF NoRow
  <2>2. \A j \in Stored \ {k} : j \in Stored'
    BY <2>1 DEF Stored
  <2>3. Stored' \subseteq Stored /\ \A s \in Scopes : row'[s].key \in {None, row[s].key}
    BY <2>1 DEF Stored
  <2> QED BY <1>2, <2>2, <2>3 DEF RowsMove
<1>5. DataTyped /\ CredentialTyped /\ DataMoves(p)
  BY <1>1, <1>2, <1>3, <1>4, FieldTypes, SameIntentsType, SameCredential, SameUp, SameIntents
     DEF DataTyped, DataMoves
<1>6. Fits("drop_intent", loc[p]) /\ "drop_intent" \in Steps
  BY <1>1, <1>2 DEF Fits, Steps
<1>7. pc'[p] = "drop_intent" /\ loc' = loc => ProcInv(p)'
  <2> SUFFICES ASSUME pc'[p] = "drop_intent", loc' = loc PROVE ProcInv(p)'
    OBVIOUS
  <2> QED BY <1>2, RevokeProc
<1> QED BY <1>2, <1>5, <1>6, <1>7, GotoStep

LEMMA DropIntentStep == ASSUME IInv, NEW p \in Procs, DropIntent(p) PROVE Stepped(p)
<1>1. TypeInv /\ ProcInv(p) /\ Fits(pc[p], loc[p]) /\ loc[p] \in Local
  BY LocalType DEF IInv
<1> DEFINE k == loc[p].cur
           l == [loc[p] EXCEPT !.cur = None]
<1>2. /\ pc[p] = "drop_intent" /\ k \in Keys /\ up[k] # "live" /\ Become(p, "revoke", l)
      /\ DeleteIntent(k) \/ UNCHANGED intents
      /\ UNCHANGED <<up, row, credential, holder, got, missed>>
  BY <1>1 DEF DropIntent, Fits, ProcInv
<1>3. IntentsTyped /\ IntentsMove(p)
  BY <1>1, <1>2, DeleteIntentMoves
<1>4. DataTyped /\ CredentialTyped /\ DataMoves(p) /\ LockMoves(p)
  BY <1>1, <1>2, <1>3, FieldTypes, SameCredential, SameUp, SameRows
     DEF DataTyped, DataMoves, LockMoves
<1>5. /\ l.own = loc[p].own /\ l.cur = None /\ l.listed = loc[p].listed
      /\ l.todo = loc[p].todo /\ l.staged = loc[p].staged
      /\ l.scope = loc[p].scope /\ l.then = loc[p].then
  BY <1>1 DEF Local
<1>6. l \in Local /\ "revoke" \in Steps
  BY <1>1 DEF Local, Steps
<1>7. Fits("revoke", l)
  BY <1>1, <1>2, <1>5 DEF Fits
<1> HIDE DEF l
<1>8. pc'[p] = "revoke" /\ loc'[p] = l => ProcInv(p)'
  <2> SUFFICES ASSUME pc'[p] = "revoke", loc'[p] = l PROVE ProcInv(p)'
    OBVIOUS
  <2> QED BY <1>2, <1>5, RevokeProc
<1> QED BY <1>2, <1>4, <1>6, <1>7, <1>8, BecomeStep

LEMMA RevokeFailsStep == ASSUME IInv, NEW p \in Procs, RevokeFails(p) PROVE Stepped(p)
<1>1. TypeInv /\ ProcInv(p) /\ Fits(pc[p], loc[p]) /\ loc[p] \in Local
  BY LocalType DEF IInv
<1> DEFINE l == [loc[p] EXCEPT !.failed = TRUE, !.cur = None, !.listed = {}]
<1>2. pc[p] \in {"revoke_up", "drop_row", "drop_intent", "revoke"} /\ pc[p] # "stage"
      /\ Become(p, "revoke", l) /\ UNCHANGED up
  BY DEF RevokeFails
<1>3. DataTyped /\ DataMoves(p) /\ CredentialTyped /\ LockMoves(p)
  BY <1>1, <1>2, SameData, SameCredential DEF RevokeFails, LockMoves
<1>4. /\ l.own = loc[p].own /\ l.cur = None /\ l.listed = {}
      /\ l.todo = loc[p].todo /\ l.staged = loc[p].staged
      /\ l.scope = loc[p].scope /\ l.then = loc[p].then
  BY <1>1 DEF Local
<1>5. l \in Local /\ "revoke" \in Steps
  BY <1>1 DEF Local, Steps
<1>6. Fits("revoke", l)
  BY <1>1, <1>2, <1>4 DEF Fits
<1> HIDE DEF l
<1>7. pc'[p] = "revoke" /\ loc'[p] = l => ProcInv(p)'
  <2> SUFFICES ASSUME pc'[p] = "revoke", loc'[p] = l PROVE ProcInv(p)'
    OBVIOUS
  <2> QED BY <1>2, <1>4, RevokeProc
<1> QED BY <1>2, <1>3, <1>5, <1>6, <1>7, BecomeStep

LEMMA ClaimStep == ASSUME IInv, NEW p \in Procs, NEW k \in Keys, Claim(p, k) PROVE Stepped(p)
<1>1. TypeInv
  BY DEF IInv
<1>2. PICK step \in {"revoke_up", "resolve"} :
        Become(p, step, [NoLoc EXCEPT !.then = "cleanup", !.cur = k])
  BY DEF Claim
<1> DEFINE l == [NoLoc EXCEPT !.then = "cleanup", !.cur = k]
<1>3. /\ pc[p] = "idle" /\ intent[k] # "none" /\ Become(p, step, l)
      /\ UNCHANGED <<up, row, intent, settled, credential, holder, got, missed>>
  BY <1>2 DEF Claim
<1>4. IntentsTyped
  BY <1>1 DEF Claim, IntentsTyped, TypeInv, TypeOK
<1>5. DataTyped /\ CredentialTyped /\ DataMoves(p) /\ LockMoves(p)
  BY <1>1, <1>3, <1>4, FieldTypes, SameCredential, SameUp, SameRows, SameIntents
     DEF DataTyped, DataMoves, LockMoves
<1>6. l \in Local /\ Fits(step, l) /\ step \in Steps
  BY DEF NoLoc, Local, Fits, Steps
<1>7. l.own = None /\ l.cur = k /\ l.listed = {} /\ l.todo = {} /\ l.staged = {}
  BY DEF NoLoc
<1>8. up[k] # "unissued"
  BY <1>3 DEF IInv, DataIssued
<1> HIDE DEF l
<1>9. pc'[p] = step /\ loc'[p] = l => ProcInv(p)'
  BY <1>3, <1>7, <1>8 DEF ProcInv
<1> QED BY <1>3, <1>5, <1>6, <1>9, BecomeStep

LEMMA ResolveStep == ASSUME IInv, NEW p \in Procs, Resolve(p) PROVE Stepped(p)
<1>1. TypeInv /\ ProcInv(p) /\ Fits(pc[p], loc[p])
  BY LocalType DEF IInv
<1> DEFINE k == loc[p].cur
<1>2. /\ pc[p] = "resolve" /\ k \in Keys
      /\ UNCHANGED <<up, row, credential, got, missed>>
  BY <1>1 DEF Resolve, Fits
<1>3. CredentialTyped /\ UpMoves(p) /\ RowsMove(p)
  BY <1>1, <1>2, SameCredential, SameUp, SameRows
<1>4. CASE /\ End(p)
           /\ UNCHANGED intents \/ (k \in Stored /\ DeleteIntent(k))
  <2>2. IntentsTyped /\ IntentsMove(p)
    <3>1. CASE UNCHANGED intents
      BY <1>1, <1>2, <3>1, SameIntentsType, SameIntents DEF intents
    <3>2. CASE k \in Stored /\ DeleteIntent(k)
      <4>1. k \in Stored'
        BY <1>2, <3>2 DEF Stored
      <4> QED BY <1>1, <1>2, <3>2, <4>1, DeleteIntentMoves
    <3> QED BY <1>4, <3>1, <3>2
  <2>3. DataTyped
    BY <1>1, <1>2, <2>2, FieldTypes DEF DataTyped
  <2> QED BY <1>3, <1>4, <2>2, <2>3, EndStep DEF DataMoves
<1>5. CASE SetIntent(k, "ready") /\ Goto(p, "revoke_up")
  <2>1. IntentsTyped
    BY <1>1, <1>2, <1>5, SetIntentType
  <2>3. IntentsMove(p)
    BY <1>1, <1>2, <1>5 DEF IntentsMove, SetIntent, TypeInv, TypeOK
  <2>4. DataTyped
    BY <1>1, <1>2, <2>1, FieldTypes DEF DataTyped
  <2>5. Fits("revoke_up", loc[p]) /\ "revoke_up" \in Steps
    BY <1>1, <1>2 DEF Fits, Steps
  <2>6. pc'[p] = "revoke_up" /\ loc' = loc => ProcInv(p)'
    BY <1>1, <1>2 DEF ProcInv, Fits
  <2> QED BY <1>3, <1>5, <2>3, <2>4, <2>5, <2>6, GotoStep DEF DataMoves
<1> QED BY <1>4, <1>5 DEF Resolve

LEMMA ResolveFailsStep == ASSUME IInv, NEW p \in Procs, ResolveFails(p) PROVE Stepped(p)
<1>1. TypeInv
  BY DEF IInv
<1>2. /\ pc[p] = "resolve" /\ End(p)
      /\ UNCHANGED <<up, row, intent, settled, credential, got, missed>>
  BY DEF ResolveFails
<1>3. IntentsTyped
  BY <1>1, <1>2 DEF ResolveFails, IntentsTyped, TypeInv, TypeOK
<1> QED BY <1>1, <1>2, <1>3, FieldTypes, SameCredential, SameUp, SameRows, SameIntents, EndStep
        DEF DataTyped, DataMoves

LEMMA CancelStep == ASSUME IInv, NEW p \in Procs, Cancel(p) PROVE Stepped(p)
<1>1. TypeInv /\ ProcInv(p) /\ loc[p] \in Local /\ Fits(pc[p], loc[p])
  BY LocalType DEF IInv
<1>2. /\ holder' = None /\ UNCHANGED <<up, row, intents, intent, active, fenced, pc, got, missed>>
      /\ IntentsTyped
  BY <1>1, SameIntentsType DEF Cancel, data, credential, intents
<1>3. LockMoves(p) /\ UpMoves(p) /\ RowsMove(p)
  BY <1>2, SameUp, SameRows DEF LockMoves
<1>4. IntentsMove(p)
  BY <1>2 DEF IntentsMove, Cancel
<1>5. PICK l \in Local : loc' = [loc EXCEPT ![p] = l] /\ Fits(pc[p], l) /\ ProcInv(p)'
  <2>1. CASE pc[p] = "stage" /\ UNCHANGED loc
    <3>1. loc' = [loc EXCEPT ![p] = loc[p]]
      BY <1>1, <2>1 DEF TypeInv, TypeOK
    <3>2. ProcInv(p)'
      BY <1>1, <1>2, <2>1 DEF ProcInv, Stored
    <3> QED BY <1>1, <3>1, <3>2
  <2>2. CASE /\ pc[p] \in {"stage_ready", "revoke", "revoke_up", "drop_row", "drop_intent"}
             /\ loc' = [loc EXCEPT ![p].then = "plain", ![p].scope = None]
    <3> DEFINE l == [loc[p] EXCEPT !.then = "plain", !.scope = None]
    <3>1. /\ l \in Local /\ l.own = loc[p].own /\ l.cur = loc[p].cur /\ l.listed = loc[p].listed
          /\ l.todo = loc[p].todo /\ l.staged = loc[p].staged /\ l.then = "plain"
          /\ l.out = loc[p].out
      BY <1>1 DEF Local
    <3>2. loc' = [loc EXCEPT ![p] = l]
      BY <2>2
    <3>3. loc'[p] = l
      BY <1>1, <3>2 DEF TypeInv, TypeOK
    <3> HIDE DEF l
    <3>4. Fits(pc[p], l)
      BY <1>1, <2>2, <3>1 DEF Fits
    <3>5. ProcInv(p)'
      BY <1>1, <1>2, <2>2, <3>1, <3>3 DEF ProcInv
    <3> QED BY <3>1, <3>2, <3>4, <3>5
  <2> QED BY <2>1, <2>2 DEF Cancel
<1>6. Become(p, pc[p], l) /\ pc[p] \in Steps
  BY <1>1, <1>2, <1>5 DEF Become, TypeInv, TypeOK
<1>7. ProcsTyped /\ Others(p)
  BY <1>1, <1>5, <1>6, BecomeType DEF ProcsTyped, Others
<1>8. TypeInv'
  BY <1>1, <1>2, <1>7, TypeParts DEF TypeInv, TypeOK
<1> QED BY <1>3, <1>4, <1>5, <1>7, <1>8, StepKeepsIInv

LEMMA CrashStep == ASSUME IInv, NEW p \in Procs, Crash(p) PROVE Stepped(p)
<1>1. TypeInv /\ Fits(pc[p], loc[p])
  BY LocalType DEF IInv
<1>2. /\ End(p) /\ UNCHANGED <<up, row, intents, intent, credential, got>>
      /\ missed' = IF pc[p] = "stage" THEN missed \union {loc[p].own} ELSE missed
  BY DEF Crash, data, intents
<1>3. missed' \subseteq Keys /\ missed \subseteq missed'
  BY <1>1, <1>2, FieldTypes DEF Fits
<1>4. IntentsMove(p)
  BY <1>2 DEF IntentsMove
<1> QED BY <1>1, <1>2, <1>3, <1>4, FieldTypes, SameIntentsType, SameCredential, SameUp, SameRows,
           EndStep DEF DataTyped, DataMoves

-----------------------------------------------------------------------------
\* The two steps of no process.

LEMMA DeleteExpiredStep == ASSUME IInv, DeleteExpired PROVE IInv'
<1> DEFINE Old(s) == row[s].key # None /\ up[row[s].key] = "expired" /\ ~row[s].pending
<1>1. /\ TypeInv /\ row' = [s \in Scopes |-> IF Old(s) THEN NoRow ELSE row[s]]
      /\ UNCHANGED <<up, intents, active, fenced, holder, pc, loc, got, missed>>
  BY DEF IInv, DeleteExpired, credential
<1>2. TypeInv'
  BY <1>1, FieldTypes, NoRowType DEF TypeInv, TypeOK, intents
<1>3. \A s \in Scopes : row'[s] = row[s]
        \/ (row[s].key # None /\ up[row[s].key] = "expired" /\ row'[s].key = None)
  BY <1>1 DEF NoRow
<1>4. /\ Stored' \subseteq Stored
      /\ \A k \in Stored : up[k] # "expired" => k \in Stored'
  BY <1>3 DEF Stored
<1>5. DataIssued'
  BY <1>1, <1>4 DEF IInv, DataIssued, intents
<1>6. \A p \in Procs : ProcInv(p)'
  <2> TAKE p \in Procs
  <2>1. ProcInv(p) /\ Fits(pc[p], loc[p])
    BY <1>1, LocalType DEF IInv
  <2>2. pc[p] \in {"issue", "stage", "put"} /\ holder = p => row'[loc[p].scope].key = None
    BY <1>3, <2>1 DEF ProcInv, Fits
  <2>3. pc[p] = "finalize" /\ up[loc[p].own] = "live" => loc[p].own \in Stored' \union missed
    BY <1>4, <2>1 DEF ProcInv
  <2> QED BY <1>1, <2>1, <2>2, <2>3 DEF ProcInv
<1>7. LiveKeysAreRecorded'
  BY <1>1, <1>4 DEF IInv, LiveKeysAreRecorded, Recorded, intents
<1> QED BY <1>2, <1>5, <1>6, <1>7 DEF IInv

LEMMA ExpireStep == ASSUME IInv, NEW k \in Keys, Expire(k) PROVE IInv'
<1>1. /\ TypeInv /\ up[k] = "live" /\ up' = [up EXCEPT ![k] = "expired"] /\ got' = got \ {k}
      /\ UNCHANGED <<row, intents, active, fenced, holder, pc, loc, missed>>
  BY DEF IInv, Expire, data, credential
<1>2. /\ up' \in [Keys -> {"unissued", "live", "revoked", "expired"}]
      /\ \A j \in Keys : (up'[j] = "unissued" => up[j] = "unissued")
                         /\ (up'[j] = "live" => up[j] = "live")
  BY <1>1, FieldTypes
<1>3. TypeInv'
  BY <1>1, <1>2, FieldTypes DEF TypeInv, TypeOK, intents
<1>4. Stored' = Stored /\ intent' = intent
  BY <1>1 DEF Stored, intents
<1>5. DataIssued'
  BY <1>2, <1>4 DEF IInv, DataIssued
<1>6. \A p \in Procs : ProcInv(p)'
  <2> TAKE p \in Procs
  <2>1. ProcInv(p) /\ Fits(pc[p], loc[p]) /\ loc[p].listed \subseteq Keys
    BY <1>1, LocalType DEF IInv
  <2>2. pc[p] \in {"drop_row", "drop_intent"} => up'[loc[p].cur] # "live"
    BY <1>2, <2>1 DEF ProcInv, Fits
  <2>3. pc[p] = "finalize" /\ up'[loc[p].own] = "live" => loc[p].own \in Stored \union missed
    BY <1>2, <2>1 DEF ProcInv, Fits
  <2>4. pc[p] \in {"revoke", "revoke_up", "drop_row", "drop_intent"} =>
          \A j \in loc[p].listed : up'[j] = "live" => j \in loc[p].staged \union {loc[p].cur}
    BY <1>2, <2>1 DEF ProcInv
  <2> QED BY <1>1, <1>2, <1>4, <2>1, <2>2, <2>3, <2>4 DEF ProcInv
<1>7. LiveKeysAreRecorded'
  BY <1>1, <1>2, <1>4 DEF IInv, LiveKeysAreRecorded, Recorded
<1> QED BY <1>3, <1>5, <1>6, <1>7 DEF IInv

-----------------------------------------------------------------------------
LEMMA InitIInv == Init => IInv
<1> SUFFICES ASSUME Init PROVE IInv
  OBVIOUS
<1>1. TypeInv
  <2>1. up \in [Keys -> {"unissued", "live", "revoked", "expired"}] /\ row \in [Scopes -> Row]
    BY NoRowType DEF Init
  <2>2. /\ intent \in [Keys -> {"none", "provisional", "ready"}]
        /\ lease \in [Keys -> Procs \union {None}]
    BY DEF Init
  <2>3. pc \in [Procs -> Steps] /\ loc \in [Procs -> Local]
    BY NoLocFits DEF Init, Steps
  <2>4. \A p \in Procs : Fits(pc[p], loc[p])
    BY NoLocFits DEF Init
  <2> QED BY <2>1, <2>2, <2>3, <2>4 DEF Init, TypeInv, TypeOK
<1>2. Stored = {} /\ \A k \in Keys : intent[k] = "none" /\ up[k] = "unissued"
  BY DEF Init, Stored, NoRow
<1>3. \A p \in Procs : pc[p] = "idle" /\ loc[p] = NoLoc
  BY DEF Init
<1>4. \A p \in Procs : ProcInv(p)
  <2> TAKE p \in Procs
  <2>1. /\ loc[p].own = None /\ loc[p].cur = None /\ loc[p].listed = {} /\ loc[p].todo = {}
        /\ loc[p].staged = {} /\ pc[p] = "idle"
    BY <1>3, NoLocFields
  <2> QED BY <2>1 DEF ProcInv
<1> QED BY <1>1, <1>2, <1>4 DEF IInv, DataIssued, LiveKeysAreRecorded

LEMMA NextIInv == IInv /\ [Next]_vars => IInv'
<1> SUFFICES ASSUME IInv, [Next]_vars PROVE IInv'
  OBVIOUS
<1>1. CASE UNCHANGED vars
  <2>1. UNCHANGED <<up, row, intent, lease, settled, active, fenced, holder, pc, loc, got, missed>>
    BY <1>1 DEF vars, data, intents, credential
  <2>2. TypeInv'
    <3>1. TypeOK /\ \A p \in Procs : Fits(pc[p], loc[p])
      BY DEF IInv, TypeInv
    <3>2. TypeOK'
      BY <2>1, <3>1 DEF TypeOK
    <3> QED BY <2>1, <3>1, <3>2 DEF TypeInv
  <2>3. Stored' = Stored
    BY <2>1 DEF Stored
  <2>4. DataIssued' /\ LiveKeysAreRecorded'
    BY <2>1, <2>3 DEF IInv, DataIssued, LiveKeysAreRecorded, Recorded
  <2>5. \A p \in Procs : ProcInv(p)'
    BY <2>1, <2>3 DEF IInv, ProcInv
  <2> QED BY <2>2, <2>4, <2>5 DEF IInv
<1>2. ASSUME NEW p \in Procs, Issuing(p) PROVE IInv'
  BY <1>2, StartIssueStep, IssueStep, StageStep, PutStep, FinalizeStep, ConfirmStep,
     ConfirmRefusedStep DEF Issuing, Stepped
<1>3. ASSUME NEW p \in Procs, Invalidating(p) PROVE IInv'
  BY <1>3, StartInvalidationStep, ListStep, StageReadyStep, MarkPendingStep, RevocationsEndStep
     DEF Invalidating, Stepped
<1>4. ASSUME NEW p \in Procs, Revoking(p) PROVE IInv'
  BY <1>4, MarkReadyStep, RevokeUpstreamStep, DropRowStep, DropIntentStep DEF Revoking, Stepped
<1>5. ASSUME NEW p \in Procs, Cleanup(p) PROVE IInv'
  BY <1>5, ResolveStep, ClaimStep DEF Cleanup, Stepped
<1>6. ASSUME NEW p \in Procs, Failure(p) PROVE IInv'
  BY <1>6, IssueFailsStep, StageFailsStep, PutFailsStep, FinalizeFailsStep, ListFailsStep,
     MarkPendingFailsStep, DeleteAllFailsStep, MarkReadyFailsStep, RevokeFailsStep,
     ResolveFailsStep, CancelStep, CrashStep DEF Failure, Stepped
<1> QED BY <1>1, <1>2, <1>3, <1>4, <1>5, <1>6, DeleteExpiredStep, ExpireStep DEF Next

\* The type invariant: whatever fails, every process is at one of its steps with
\* the local variables that step needs.
THEOREM TypeCorrect == Spec => []TypeOK
<1>1. IInv => TypeOK
  BY DEF IInv, TypeInv
<1> QED BY <1>1, InitIInv, NextIInv, PTL DEF Spec

\* No key outlives what platform-mihomo knows of it: for any number of requests,
\* scopes and keys, a key that works upstream is in runtime_artifacts or has a
\* revocation intent, but for the keys of `missed`.
THEOREM LiveKeysHold == Spec => []LiveKeysAreRecorded
<1>1. IInv => LiveKeysAreRecorded
  BY DEF IInv
<1> QED BY <1>1, InitIInv, NextIInv, PTL DEF Spec

-----------------------------------------------------------------------------
\* What is hidden or was given is owed.

\* A process still stages or stores the key it was issued.
Handling(p) == pc[p] = "stage" \/ (pc[p] = "put" /\ holder = p)

\* Such a key is nobody else's business: it is not stored yet, and others know at
\* most its provisional intent, which they cannot resolve before the lock is free.
FreshOwn(p) ==
    LET k == loc[p].own IN
    Handling(p) =>
        /\ k \notin Stored
        /\ intent[k] = IF pc[p] = "stage" THEN "none" ELSE "provisional"
        /\ \A q \in Procs :
             /\ k \notin loc[q].listed \union loc[q].todo \union loc[q].staged
             /\ loc[q].cur = k => pc[q] = "resolve"
             /\ q # p => loc[q].own # k /\ loc[q].out # k

\* Revocations keep their order: staged before hidden, dropped from the rows
\* before the intents.
InOrder(p) ==
    /\ pc[p] = "stage_ready" =>
         \A k \in loc[p].listed \ loc[p].todo :
             k \in Stored \ missed => intent[k] = "ready"
    /\ pc[p] = "drop_intent" => loc[p].cur \notin Stored

RevokeSteps == {"revoke", "revoke_up", "drop_row", "drop_intent"}

\* A change of the credential row that has listed what it will fence.
Fencing(p) ==
    /\ holder = p /\ loc[p].then = "change"
    /\ pc[p] \in RevokeSteps \union {"stage_ready"}

OwedBy(p) ==
    Fencing(p) => \A k \in got \ missed :
        intent[k] = "ready" \/ (pc[p] = "stage_ready" /\ k \in loc[p].todo)

OutIssued == \A p \in Procs, k \in Keys : up[k] = "unissued" => loc[p].out # k
LeasesAreProvisional == \A k \in Keys : lease[k] # None => intent[k] = "provisional"
HiddenRowsHaveKeys == \A s \in Scopes : row[s].pending => row[s].key # None
GivenIsStored == \A k \in got : up[k] = "live" /\ k \in Stored \union missed

OweInv ==
    /\ OutIssued /\ LeasesAreProvisional /\ HiddenRowsHaveKeys /\ GivenIsStored
    /\ \A p \in Procs : FreshOwn(p) /\ InOrder(p) /\ OwedBy(p)
    /\ HiddenRowsAreOwed /\ FencedKeysAreRevoked

\* For process p, a key that another is handling; and what a step of p does to it.
Foreign(p, k) ==
    LET l == loc[p] IN
    /\ up[k] # "unissued" /\ k \notin Stored
    /\ k \notin l.listed \union l.todo \union l.staged
    /\ l.own # k /\ l.out # k /\ (l.cur = k => pc[p] = "resolve")
    /\ intent[k] = "none" \/ (intent[k] = "provisional" /\ holder \notin {None, p})

StaysUnknown(p, k) ==
    LET l == loc'[p] IN
    /\ k \notin l.listed \union l.todo \union l.staged
    /\ l.own # k /\ l.out # k /\ (l.cur = k => pc'[p] = "resolve")

\* What a step of p does to the rows, the intents, and what was given.
OwesRows(p) ==
    /\ Stored' \subseteq Stored \/ Handling(p)
    /\ \A k \in Hidden' \ missed' : k \in Hidden \/ (k \in Stored /\ intent[k] = "ready")
    /\ HiddenRowsHaveKeys'

OwesIntents(p) ==
    /\ \A k \in Stored : intent[k] = "ready" => intent'[k] = "ready"
    /\ \A k \in Keys : Foreign(p, k) => intent'[k] = intent[k]
    /\ LeasesAreProvisional'

OwesGiven(p) ==
    /\ \A k \in got' :
         /\ up'[k] = "live"
         /\ k \in got \/ (k \in Stored \union missed /\ ~fenced' /\ holder = None)
    /\ fenced' => fenced \/ \A k \in got \ missed : intent[k] = "ready"

OwesProc(p) ==
    /\ \A k \in Keys : up'[k] = "unissued" => loc'[p].out # k
    /\ \A k \in Keys : Foreign(p, k) => StaysUnknown(p, k)
    /\ FreshOwn(p)' /\ InOrder(p)' /\ OwedBy(p)'

LEMMA HiddenKeys == TypeInv /\ HiddenRowsHaveKeys => Hidden \subseteq Stored /\ Hidden \subseteq Keys
<1> SUFFICES ASSUME TypeInv, HiddenRowsHaveKeys
             PROVE  Hidden \subseteq Stored /\ Hidden \subseteq Keys
  OBVIOUS
<1>1. Hidden \subseteq Stored BY DEF HiddenRowsHaveKeys, Hidden, Stored
<1> QED BY <1>1, StoredType DEF TypeInv

\* The key another process handles is foreign to p, and stays its own.
LEMMA OthersStayFresh ==
    ASSUME IInv, OweInv, NEW p \in Procs, Stepped(p), OwesRows(p), OwesIntents(p), OwesProc(p),
           NEW q \in Procs \ {p}
    PROVE  FreshOwn(q)'
<1> DEFINE k == loc[q].own
<1>1. pc'[q] = pc[q] /\ loc'[q] = loc[q] BY DEF Stepped, Others
<1>2. SUFFICES ASSUME Handling(q)' PROVE FreshOwn(q)' BY DEF FreshOwn
<1>3. Handling(q)
  <2>1. pc[q] = "put" => holder = q BY <1>1, <1>2 DEF Stepped, LockMoves, Handling
  <2> QED BY <1>1, <1>2, <2>1 DEF Handling
<1>4. TypeInv /\ ProcInv(q) /\ FreshOwn(q) /\ k \in Keys
  <2>1. TypeInv /\ ProcInv(q) /\ FreshOwn(q) BY DEF IInv, OweInv
  <2> QED BY <1>3, <2>1, LocalType DEF Handling, Fits
<1>5. Foreign(p, k)
  <2>1. up[k] # "unissued" BY <1>4 DEF ProcInv
  <2>2. intent[k] = "none" \/ (intent[k] = "provisional" /\ holder \notin {None, p})
    BY <1>3, <1>4 DEF FreshOwn, Handling
  <2> QED BY <1>3, <1>4, <2>1, <2>2 DEF FreshOwn, Foreign
<1>6. k \notin Stored'
  BY <1>5 DEF Stepped, DataMoves, RowsMove, Foreign
<1>7. intent'[k] = intent[k] /\ StaysUnknown(p, k) BY <1>4, <1>5 DEF OwesIntents, OwesProc
<1>8. ASSUME NEW r \in Procs
      PROVE  /\ k \notin loc'[r].listed \union loc'[r].todo \union loc'[r].staged
             /\ loc'[r].cur = k => pc'[r] = "resolve"
             /\ r # q => loc'[r].own # k /\ loc'[r].out # k
  <2>1. CASE r = p BY <1>7, <2>1 DEF StaysUnknown
  <2>2. CASE r # p
    <3>1. pc'[r] = pc[r] /\ loc'[r] = loc[r] BY <2>2 DEF Stepped, Others
    <3> QED BY <1>3, <1>4, <3>1 DEF FreshOwn
  <2> QED BY <2>1, <2>2
<1> QED BY <1>1, <1>3, <1>4, <1>6, <1>7, <1>8 DEF FreshOwn

\* A key that p stores is in the hands of nobody else.
LEMMA NewlyStored ==
    ASSUME IInv, OweInv, NEW p \in Procs, Stepped(p), OwesRows(p), NEW k \in Stored', k \notin Stored
    PROVE  \A q \in Procs : k \notin loc[q].listed /\ (loc[q].cur = k => pc[q] = "resolve")
<1>1. Handling(p) /\ k = loc[p].own BY DEF OwesRows, Stepped, DataMoves, RowsMove
<1> QED BY <1>1 DEF OweInv, FreshOwn

LEMMA OthersStayInOrder ==
    ASSUME IInv, OweInv, NEW p \in Procs, Stepped(p), OwesRows(p), OwesIntents(p), OwesGiven(p),
           NEW q \in Procs \ {p}
    PROVE  InOrder(q)' /\ OwedBy(q)'
<1>1. pc'[q] = pc[q] /\ loc'[q] = loc[q] BY DEF Stepped, Others
<1>2. missed \subseteq missed' BY DEF Stepped, DataMoves, RowsMove
<1>3. InOrder(q) /\ OwedBy(q) BY DEF OweInv
<1>4. \A k \in Stored : intent[k] = "ready" => intent'[k] = "ready" BY DEF OwesIntents
<1>5. ASSUME pc[q] = "stage_ready", NEW k \in loc[q].listed \ loc[q].todo, k \in Stored' \ missed'
      PROVE  intent'[k] = "ready"
  <2>1. k \in Stored \ missed BY <1>2, <1>5, NewlyStored
  <2> QED BY <1>3, <1>4, <1>5, <2>1 DEF InOrder
<1>6. pc[q] = "drop_intent" => loc[q].cur \notin Stored'
  <2> SUFFICES ASSUME pc[q] = "drop_intent", loc[q].cur \in Stored' PROVE FALSE OBVIOUS
  <2>1. loc[q].cur \notin Stored BY <1>3 DEF InOrder
  <2> QED BY <2>1, NewlyStored
<1>7. OwedBy(q)'
  <2> SUFFICES ASSUME Fencing(q)', NEW k \in got' \ missed'
               PROVE  intent'[k] = "ready" \/ (pc[q] = "stage_ready" /\ k \in loc[q].todo)
    BY <1>1 DEF OwedBy
  <2>1. holder = q BY DEF Fencing, Stepped, LockMoves
  <2>2. Fencing(q) BY <1>1, <2>1 DEF Fencing
  <2>3. q # None OBVIOUS
  <2>4. k \in got \ missed BY <1>2, <2>1, <2>3 DEF OwesGiven
  <2>5. k \in Stored BY <2>4 DEF OweInv, GivenIsStored
  <2> QED BY <1>3, <1>4, <2>2, <2>4, <2>5 DEF OwedBy
<1> QED BY <1>1, <1>5, <1>6, <1>7 DEF InOrder

LEMMA StepKeepsOwe ==
    ASSUME IInv, OweInv, NEW p \in Procs, Stepped(p), OwesRows(p), OwesIntents(p), OwesGiven(p),
           OwesProc(p)
    PROVE  OweInv'
<1>1. missed \subseteq missed' BY DEF Stepped, DataMoves, RowsMove
<1>2. \A k \in Stored : intent[k] = "ready" => intent'[k] = "ready" BY DEF OwesIntents
<1>3. OutIssued'
  <2> SUFFICES ASSUME NEW q \in Procs, NEW k \in Keys, up'[k] = "unissued" PROVE loc'[q].out # k
    BY DEF OutIssued
  <2>1. up[k] = "unissued" BY DEF Stepped, DataMoves, UpMoves
  <2>2. q # p => loc'[q] = loc[q] BY DEF Stepped, Others
  <2> QED BY <2>1, <2>2 DEF OwesProc, OweInv, OutIssued
<1>4. GivenIsStored'
  <2> SUFFICES ASSUME NEW k \in got' PROVE up'[k] = "live" /\ k \in Stored' \union missed'
    BY DEF GivenIsStored
  <2>1. up'[k] = "live" /\ k \in Stored \union missed BY DEF OwesGiven, OweInv, GivenIsStored
  <2> QED BY <1>1, <2>1 DEF Stepped, DataMoves, RowsMove
<1>5. \A q \in Procs : FreshOwn(q)' /\ InOrder(q)' /\ OwedBy(q)'
  <2> TAKE q \in Procs
  <2>1. CASE q = p BY <2>1 DEF OwesProc
  <2>2. CASE q # p BY <2>2, OthersStayFresh, OthersStayInOrder
  <2> QED BY <2>1, <2>2
<1>6. HiddenRowsAreOwed'
  <2> SUFFICES ASSUME NEW k \in Hidden' \ missed' PROVE intent'[k] = "ready"
    BY DEF HiddenRowsAreOwed
  <2>1. k \in Hidden => k \in Stored /\ intent[k] = "ready"
    BY <1>1, HiddenKeys DEF IInv, OweInv, HiddenRowsAreOwed
  <2> QED BY <1>2, <2>1 DEF OwesRows
<1>7. FencedKeysAreRevoked'
  <2> SUFFICES ASSUME fenced', NEW k \in got' \ missed' PROVE intent'[k] = "ready"
    BY DEF FencedKeysAreRevoked
  <2>1. k \in got \ missed BY <1>1 DEF OwesGiven
  <2>2. k \in Stored BY <2>1 DEF OweInv, GivenIsStored
  <2>3. intent[k] = "ready" BY <2>1 DEF OwesGiven, OweInv, FencedKeysAreRevoked
  <2> QED BY <1>2, <2>2, <2>3
<1> QED BY <1>3, <1>4, <1>5, <1>6, <1>7 DEF OweInv, OwesRows, OwesIntents

-----------------------------------------------------------------------------
\* The steps by what they change.

LEMMA RowsOwed ==
    ASSUME OweInv, NEW p \in Procs, UNCHANGED row, missed \subseteq missed'
    PROVE  OwesRows(p)
  BY DEF OweInv, OwesRows, Hidden, Stored, HiddenRowsHaveKeys

LEMMA RowsDropped ==
    ASSUME OweInv, NEW p \in Procs, missed \subseteq missed',
           \A s \in Scopes : row'[s] = row[s] \/ row'[s] = NoRow
    PROVE  OwesRows(p) /\ Stored' \subseteq Stored
<1>1. NoRow.key = None /\ ~NoRow.pending BY DEF NoRow
<1>2. Stored' \subseteq Stored /\ Hidden' \subseteq Hidden BY <1>1 DEF Stored, Hidden
<1>3. HiddenRowsHaveKeys' BY <1>1 DEF OweInv, HiddenRowsHaveKeys
<1> QED BY <1>2, <1>3 DEF OwesRows

LEMMA IntentsOwed ==
    ASSUME OweInv, NEW p \in Procs, UNCHANGED <<intent, lease>> PROVE OwesIntents(p)
  BY DEF OweInv, OwesIntents, LeasesAreProvisional

\* One intent changes, of a key that p may touch.
LEMMA IntentOwed ==
    ASSUME IInv, OweInv, NEW p \in Procs, NEW k \in Keys, ~Foreign(p, k),
           NEW state, SetIntent(k, state) \/ (state = "none" /\ DeleteIntent(k)),
           k \in Stored /\ intent[k] = "ready" => state = "ready"
    PROVE  OwesIntents(p) /\ intent'[k] = state /\ \A j \in Keys \ {k} : intent'[j] = intent[j]
<1>1. intent \in [Keys -> {"none", "provisional", "ready"}] /\ lease \in [Keys -> Procs \union {None}]
  BY DEF IInv, TypeInv, TypeOK
<1>2. intent' = [intent EXCEPT ![k] = state] /\ lease' = [lease EXCEPT ![k] = None]
  BY DEF SetIntent, DeleteIntent
<1>3. /\ intent'[k] = state /\ lease'[k] = None
      /\ \A j \in Keys \ {k} : intent'[j] = intent[j] /\ lease'[j] = lease[j]
  BY <1>1, <1>2
<1>4. LeasesAreProvisional' BY <1>3 DEF OweInv, LeasesAreProvisional
<1>5. Stored \subseteq Keys BY StoredType DEF IInv, TypeInv
<1>6. \A j \in Stored : intent[j] = "ready" => intent'[j] = "ready" BY <1>3, <1>5
<1> QED BY <1>3, <1>4, <1>6 DEF OwesIntents

LEMMA GivenOwed ==
    ASSUME OweInv, NEW p \in Procs, UNCHANGED <<up, got>>,
           fenced' => fenced \/ \A k \in got \ missed : intent[k] = "ready"
    PROVE  OwesGiven(p)
  BY DEF OweInv, OwesGiven, GivenIsStored

LEMMA DeadOwed ==
    ASSUME IInv, OweInv, NEW p \in Procs, NEW k \in Keys, Dead(k), UNCHANGED fenced
    PROVE  OwesGiven(p)
<1>1. up \in [Keys -> {"unissued", "live", "revoked", "expired"}] /\ got \subseteq Keys
  BY FieldTypes DEF IInv
<1>2. \A j \in Keys \ {k} : up'[j] = up[j] BY <1>1 DEF Dead
<1>3. got' = got \ {k} BY DEF Dead
<1> QED BY <1>1, <1>2, <1>3 DEF OwesGiven, OweInv, GivenIsStored

\* What p knows after a step that shows it no key of another.
Sees(p) ==
    LET l == loc[p]
        n == loc'[p]
    IN
    /\ n.own \in {None, l.own} /\ n.out \in {None, l.out} \union Stored
    /\ n.listed \union n.todo \union n.staged
          \subseteq l.listed \union l.todo \union l.staged \union Stored \union {l.own}
    /\ \/ n.cur = None \/ n.cur \in l.staged
       \/ pc'[p] = "resolve" \/ ~Foreign(p, n.cur)
       \/ n.cur = l.cur /\ pc[p] # "resolve"

LEMMA ProcOwed ==
    ASSUME IInv, OweInv, NEW p \in Procs, Stepped(p), Sees(p),
           FreshOwn(p)', InOrder(p)', OwedBy(p)'
    PROVE  OwesProc(p)
<1>1. ASSUME NEW k \in Keys, up'[k] = "unissued" PROVE loc'[p].out # k
  <2>1. up[k] = "unissued" BY <1>1 DEF Stepped, DataMoves, UpMoves
  <2>2. k \notin Stored /\ loc[p].out # k /\ k # None
    BY <2>1 DEF IInv, DataIssued, OweInv, OutIssued
  <2> QED BY <2>2 DEF Sees
<1>2. ASSUME NEW k \in Keys, Foreign(p, k) PROVE StaysUnknown(p, k)
  <2>1. k # None OBVIOUS
  <2>2. loc'[p].cur = k => pc'[p] = "resolve" BY <1>2, <2>1 DEF Sees, Foreign
  <2> QED BY <1>2, <2>1, <2>2 DEF Sees, Foreign, StaysUnknown
<1> QED BY <1>1, <1>2 DEF OwesProc

\* Where it has nothing to keep in order.
LEMMA ProcAtEase ==
    ASSUME NEW p \in Procs, pc'[p] \notin {"stage", "put", "stage_ready", "drop_intent"},
           pc'[p] \in RevokeSteps => loc'[p].then # "change"
    PROVE  FreshOwn(p)' /\ InOrder(p)' /\ OwedBy(p)'
<1>1. ~Handling(p)' BY DEF Handling
<1>2. ~Fencing(p)' BY DEF Fencing
<1> QED BY <1>1, <1>2 DEF FreshOwn, InOrder, OwedBy

\* A fence under way keeps what it owes.
LEMMA StillOwed ==
    ASSUME IInv, OweInv, NEW p \in Procs, OwesIntents(p), got' \subseteq got, missed \subseteq missed',
           loc'[p].then = loc[p].then, holder' = holder,
           pc[p] \in RevokeSteps \/ (pc[p] = "stage_ready" /\ loc[p].todo = {}),
           pc'[p] \in RevokeSteps
    PROVE  FreshOwn(p)' /\ OwedBy(p)'
<1>1. ~Handling(p)' BY DEF Handling, RevokeSteps
<1>2. OwedBy(p)'
  <2> SUFFICES ASSUME Fencing(p)', NEW k \in got' \ missed' PROVE intent'[k] = "ready"
    BY DEF OwedBy
  <2>1. Fencing(p) BY DEF Fencing
  <2>2. k \in got \ missed OBVIOUS
  <2>3. k \in Stored BY <2>2 DEF OweInv, GivenIsStored
  <2>4. intent[k] = "ready"
    <3>1. OwedBy(p) BY DEF OweInv
    <3> QED BY <2>1, <2>2, <3>1 DEF OwedBy, RevokeSteps
  <2> QED BY <2>3, <2>4 DEF OwesIntents
<1> QED BY <1>1, <1>2 DEF FreshOwn

LEMMA NoLocSees ==
    ASSUME NEW p \in Procs, NEW then, NEW scope,
           loc'[p] = [NoLoc EXCEPT !.then = then, !.scope = scope]
    PROVE  Sees(p) /\ loc'[p].then = then
<1> DEFINE n == [NoLoc EXCEPT !.then = then, !.scope = scope]
<1>1. /\ n.own = None /\ n.out = None /\ n.cur = None /\ n.listed = {} /\ n.todo = {}
      /\ n.staged = {} /\ n.then = then
  BY DEF NoLoc
<1>2. loc'[p] = n OBVIOUS
<1> HIDE DEF n
<1> QED BY <1>1, <1>2 DEF Sees

LEMMA EndOwed ==
    ASSUME IInv, OweInv, NEW p \in Procs, Stepped(p), End(p) PROVE OwesProc(p)
<1>1. pc'[p] = "idle" /\ loc'[p] = NoLoc BY EndType DEF IInv
<1>2. /\ NoLoc.own = None /\ NoLoc.out = None /\ NoLoc.cur = None /\ NoLoc.listed = {}
      /\ NoLoc.todo = {} /\ NoLoc.staged = {}
  BY DEF NoLoc
<1>3. Sees(p) BY <1>1, <1>2 DEF Sees
<1> QED BY <1>1, <1>3, ProcOwed, ProcAtEase DEF RevokeSteps

LEMMA InvalidateOwed ==
    ASSUME IInv, OweInv, NEW p \in Procs, NEW s \in Scopes \union {None},
           NEW then \in {"plain", "issue", "change", "attention"},
           then = "issue" => s \in Scopes, Invalidate(p, then, s), Stepped(p)
    PROVE  OwesProc(p)
<1>1. pc'[p] = "list" /\ loc'[p] = Listing(then, s) BY InvalidateType DEF IInv
<1>2. Sees(p) BY <1>1, NoLocSees DEF Listing
<1> QED BY <1>1, <1>2, ProcOwed, ProcAtEase DEF RevokeSteps

LEMMA RevokeOwnOwed ==
    ASSUME IInv, OweInv, NEW p \in Procs, loc[p].own \in Keys, RevokeOwn(p), Stepped(p)
    PROVE  OwesProc(p)
<1> DEFINE k == loc[p].own
           n == [NoLoc EXCEPT !.then = "own", !.own = k, !.staged = {k}]
<1>1. pc'[p] = "revoke" /\ loc'[p] = n BY RevokeOwnType DEF IInv
<1>2. /\ n.own = k /\ n.out = None /\ n.cur = None /\ n.listed = {} /\ n.todo = {}
      /\ n.staged = {k} /\ n.then = "own"
  BY DEF NoLoc
<1> HIDE DEF n
<1>3. Sees(p) BY <1>1, <1>2 DEF Sees
<1> QED BY <1>1, <1>2, <1>3, ProcOwed, ProcAtEase

LEMMA CommitsOwed ==
    ASSUME IInv, OweInv, NEW p \in Procs, NEW outcome \in {"done", "owed", "error"},
           Commits(p, outcome), Stepped(p), UNCHANGED <<up, got>>,
           outcome # "error" => pc[p] = "revoke" \/ (pc[p] = "stage_ready" /\ loc[p].todo = {})
    PROVE  OwesProc(p) /\ OwesGiven(p)
<1>1. OwesProc(p)
  <2>1. CASE End(p) BY <2>1, EndOwed
  <2>2. CASE ~End(p)
    <3> DEFINE n == [NoLoc EXCEPT !.scope = loc[p].scope]
    <3>1. Become(p, "issue", n) BY <2>2 DEF Commits
    <3>2. pc'[p] = "issue" /\ loc'[p] = n BY <3>1 DEF Become, IInv, TypeInv, TypeOK
    <3>3. /\ n.own = None /\ n.out = None /\ n.cur = None /\ n.listed = {} /\ n.todo = {}
          /\ n.staged = {}
      BY DEF NoLoc
    <3> HIDE DEF n
    <3>4. Sees(p) BY <3>2, <3>3 DEF Sees
    <3> QED BY <3>2, <3>4, ProcOwed, ProcAtEase DEF RevokeSteps
  <2> QED BY <2>1, <2>2
<1>2. fenced' => fenced \/ \A k \in got \ missed : intent[k] = "ready"
  <2> SUFFICES ASSUME fenced', ~fenced, NEW k \in got \ missed PROVE intent[k] = "ready"
    OBVIOUS
  <2>1. holder = p /\ loc[p].then = "change" /\ outcome # "error" BY DEF Commits, credential
  <2>2. Fencing(p) BY <2>1 DEF Fencing, RevokeSteps
  <2>3. OwedBy(p) BY DEF OweInv
  <2> QED BY <2>1, <2>2, <2>3 DEF OwedBy
<1> QED BY <1>1, <1>2, GivenOwed

\* The step of p owes nothing new.
Owes(p) == OwesRows(p) /\ OwesIntents(p) /\ OwesGiven(p) /\ OwesProc(p)

LEMMA OwesData ==
    ASSUME OweInv, NEW p \in Procs, UNCHANGED <<up, data, credential, got, missed>>
    PROVE  OwesRows(p) /\ OwesIntents(p) /\ OwesGiven(p)
<1>1. UNCHANGED <<row, missed, intent, lease, fenced>> BY DEF data, intents, credential
<1> QED BY <1>1, RowsOwed, IntentsOwed, GivenOwed

-----------------------------------------------------------------------------
\* Again one lemma per action.

LEMMA StartIssueOwes ==
    ASSUME IInv, OweInv, NEW p \in Procs, NEW s \in Scopes, StartIssue(p, s), Stepped(p)
    PROVE  Owes(p)
<1>1. /\ UNCHANGED <<up, intents, credential, got, missed>>
      /\ \A t \in Scopes : row'[t] = row[t] \/ row'[t] = NoRow
  BY FieldTypes DEF StartIssue, IInv
<1>2. OwesRows(p) BY <1>1, RowsDropped
<1>3. OwesIntents(p) BY <1>1, IntentsOwed DEF intents
<1>4. OwesGiven(p) BY <1>1, GivenOwed DEF credential
<1>5. OwesProc(p)
  <2>1. CASE Invalidate(p, "plain", None) BY <2>1, InvalidateOwed
  <2>2. CASE Invalidate(p, "issue", s) BY <2>2, InvalidateOwed
  <2>3. CASE Usable(s) /\ Become(p, "confirm", [NoLoc EXCEPT !.out = row[s].key])
    <3> DEFINE n == [NoLoc EXCEPT !.out = row[s].key]
    <3>1. pc'[p] = "confirm" /\ loc'[p] = n BY <2>3 DEF Become, IInv, TypeInv, TypeOK
    <3>2. /\ n.own = None /\ n.cur = None /\ n.listed = {} /\ n.todo = {} /\ n.staged = {}
          /\ n.out = row[s].key
      BY DEF NoLoc
    <3>3. row[s].key \in Stored BY <2>3 DEF Usable, Stored
    <3> HIDE DEF n
    <3>4. Sees(p) BY <3>1, <3>2, <3>3 DEF Sees
    <3> QED BY <3>1, <3>4, ProcOwed, ProcAtEase DEF RevokeSteps
  <2>4. CASE Become(p, "issue", [NoLoc EXCEPT !.scope = s])
    <3> DEFINE n == [NoLoc EXCEPT !.scope = s]
    <3>1. pc'[p] = "issue" /\ loc'[p] = n BY <2>4 DEF Become, IInv, TypeInv, TypeOK
    <3>2. /\ n.own = None /\ n.cur = None /\ n.listed = {} /\ n.todo = {} /\ n.staged = {}
          /\ n.out = None
      BY DEF NoLoc
    <3> HIDE DEF n
    <3>3. Sees(p) BY <3>1, <3>2 DEF Sees
    <3> QED BY <3>1, <3>3, ProcOwed, ProcAtEase DEF RevokeSteps
  <2> QED BY <2>1, <2>2, <2>3, <2>4 DEF StartIssue
<1> QED BY <1>2, <1>3, <1>4, <1>5 DEF Owes

LEMMA IssueOwes ==
    ASSUME IInv, OweInv, NEW p \in Procs, Issue(p), Stepped(p) PROVE Owes(p)
<1>1. PICK k \in Keys :
        /\ up[k] = "unissued" /\ up' = [up EXCEPT ![k] = "live"]
        /\ Become(p, "stage", [loc[p] EXCEPT !.own = k, !.out = k])
  BY DEF Issue
<1> DEFINE n == [loc[p] EXCEPT !.own = k, !.out = k]
<1>2. UNCHANGED <<row, intent, lease, fenced, got, missed>>
  BY DEF Issue, data, intents, credential
<1>3. TypeInv /\ loc[p] \in Local BY LocalType DEF IInv
<1>4. pc'[p] = "stage" /\ loc'[p] = n BY <1>1, <1>3 DEF Become, TypeInv, TypeOK
<1>5. /\ n.own = k /\ n.out = k /\ n.cur = loc[p].cur /\ n.listed = loc[p].listed
      /\ n.todo = loc[p].todo /\ n.staged = loc[p].staged
  BY <1>3 DEF Local
<1> HIDE DEF n
<1>6. /\ \A j \in Keys \ {k} : up'[j] = up[j]
      /\ up'[k] = "live"
  BY <1>1, <1>3, FieldTypes
<1>7. OwesRows(p) /\ OwesIntents(p) BY <1>2, RowsOwed, IntentsOwed
<1>8. OwesGiven(p)
  <2>1. got \subseteq Keys /\ k \notin got
    BY <1>1, <1>3, FieldTypes DEF OweInv, GivenIsStored
  <2> QED BY <1>2, <1>6, <2>1 DEF OwesGiven, OweInv, GivenIsStored
<1>9. /\ k \notin Stored /\ intent[k] = "none"
      /\ \A q \in Procs : /\ loc[q].own # k /\ loc[q].cur # k /\ loc[q].out # k
                          /\ k \notin loc[q].listed \union loc[q].todo \union loc[q].staged
  BY <1>1 DEF IInv, DataIssued, ProcInv, OweInv, OutIssued
<1>10. \A q \in Procs \ {p} : pc'[q] = pc[q] /\ loc'[q] = loc[q] BY DEF Stepped, Others
<1>11. FreshOwn(p)'
  <2>1. k \notin Stored' /\ intent'[k] = "none" BY <1>2, <1>9 DEF Stored
  <2>2. ASSUME NEW q \in Procs
        PROVE  /\ k \notin loc'[q].listed \union loc'[q].todo \union loc'[q].staged
               /\ loc'[q].cur # k
               /\ q # p => loc'[q].own # k /\ loc'[q].out # k
    BY <1>4, <1>5, <1>9, <1>10
  <2> QED BY <1>4, <1>5, <2>1, <2>2 DEF FreshOwn
<1>12. InOrder(p)' /\ OwedBy(p)' BY <1>4 DEF InOrder, OwedBy, Fencing, RevokeSteps
<1>13. \A j \in Keys : up'[j] = "unissued" => loc'[p].out # j BY <1>4, <1>5, <1>6
<1>14. ASSUME NEW j \in Keys, Foreign(p, j) PROVE StaysUnknown(p, j)
  <2>1. j # k /\ pc[p] # "resolve" BY <1>1, <1>14 DEF Foreign, Issue
  <2> QED BY <1>4, <1>5, <1>14, <2>1 DEF Foreign, StaysUnknown
<1> QED BY <1>7, <1>8, <1>11, <1>12, <1>13, <1>14 DEF Owes, OwesProc

LEMMA IssueFailsOwes ==
    ASSUME IInv, OweInv, NEW p \in Procs, IssueFails(p), Stepped(p) PROVE Owes(p)
<1>1. UNCHANGED <<row, intent, lease, fenced, got>> /\ missed \subseteq missed'
  BY DEF IssueFails, data, intents, credential
<1>2. OwesRows(p) /\ OwesIntents(p) BY <1>1, RowsOwed, IntentsOwed
<1>3. OwesGiven(p)
  <2>1. got \subseteq Keys /\ up \in [Keys -> {"unissued", "live", "revoked", "expired"}]
    BY FieldTypes DEF IInv
  <2>2. \A k \in got : up'[k] = "live"
    <3> TAKE k \in got
    <3>1. up[k] = "live" BY DEF OweInv, GivenIsStored
    <3> QED BY <2>1, <3>1 DEF IssueFails
  <2> QED BY <1>1, <2>2 DEF OwesGiven
<1>4. OwesProc(p)
  <2>1. CASE End(p) BY <2>1, EndOwed
  <2>2. CASE Invalidate(p, "attention", None) BY <2>2, InvalidateOwed
  <2> QED BY <2>1, <2>2 DEF IssueFails
<1> QED BY <1>2, <1>3, <1>4 DEF Owes

LEMMA StageOwes ==
    ASSUME IInv, OweInv, NEW p \in Procs, Stage(p), Stepped(p) PROVE Owes(p)
<1>1. /\ pc[p] = "stage" /\ SetIntent(loc[p].own, "provisional") /\ Goto(p, "put")
      /\ UNCHANGED <<up, row, fenced, got, missed>>
  BY DEF Stage, credential
<1>2. TypeInv /\ loc[p].own \in Keys BY <1>1, LocalType DEF IInv, Fits
<1>3. PICK k \in Keys : k = loc[p].own BY <1>2
<1>4. FreshOwn(p) /\ Handling(p) BY <1>1 DEF OweInv, Handling
<1>5. k \notin Stored /\ ~Foreign(p, k) BY <1>3, <1>4 DEF FreshOwn, Foreign
<1>6. OwesIntents(p) /\ intent'[k] = "provisional" BY <1>1, <1>3, <1>5, IntentOwed
<1>7. OwesRows(p) /\ OwesGiven(p) BY <1>1, RowsOwed, GivenOwed
<1>8. pc'[p] = "put" /\ loc' = loc /\ \A q \in Procs \ {p} : pc'[q] = pc[q]
  BY <1>1, <1>2 DEF Goto, TypeInv, TypeOK
<1>9. FreshOwn(p)'
  <2>1. k \notin Stored' BY <1>1, <1>5 DEF Stored
  <2>2. ASSUME NEW q \in Procs
        PROVE  /\ k \notin loc[q].listed \union loc[q].todo \union loc[q].staged
               /\ loc[q].cur = k => pc'[q] = "resolve"
               /\ q # p => loc[q].own # k /\ loc[q].out # k
    BY <1>1, <1>3, <1>4, <1>8 DEF FreshOwn
  <2> QED BY <1>3, <1>6, <1>8, <2>1, <2>2 DEF FreshOwn
<1>10. InOrder(p)' /\ OwedBy(p)' BY <1>8 DEF InOrder, OwedBy, Fencing, RevokeSteps
<1>11. Sees(p) BY <1>1, <1>8 DEF Sees
<1> QED BY <1>6, <1>7, <1>9, <1>10, <1>11, ProcOwed DEF Owes

LEMMA StageFailsOwes ==
    ASSUME IInv, OweInv, NEW p \in Procs, StageFails(p), Stepped(p) PROVE Owes(p)
<1>1. /\ pc[p] = "stage" /\ End(p) /\ UNCHANGED <<row, fenced>> /\ missed \subseteq missed'
      /\ Dead(loc[p].own) \/ UNCHANGED <<up, got>>
      /\ SetIntent(loc[p].own, "provisional") \/ UNCHANGED <<intent, lease>>
  BY DEF StageFails, credential, intents
<1>2. PICK k \in Keys : k = loc[p].own BY <1>1, LocalType DEF IInv, Fits
<1>3. k \notin Stored /\ ~Foreign(p, k)
  <2>1. FreshOwn(p) /\ Handling(p) BY <1>1 DEF OweInv, Handling
  <2> QED BY <1>2, <2>1 DEF FreshOwn, Foreign
<1>4. OwesIntents(p) BY <1>1, <1>2, <1>3, IntentOwed, IntentsOwed
<1>5. OwesRows(p) BY <1>1, RowsOwed
<1>6. OwesGiven(p) BY <1>1, <1>2, DeadOwed, GivenOwed
<1> QED BY <1>1, <1>4, <1>5, <1>6, EndOwed DEF Owes

\* Storing a key hides none.
LEMMA StoreOwes ==
    ASSUME IInv, OweInv, NEW p \in Procs, pc[p] = "put", holder = p, Store(p), UNCHANGED missed
    PROVE  OwesRows(p)
<1> DEFINE k == loc[p].own
           s == loc[p].scope
<1>1. s \in Scopes /\ row \in [Scopes -> Row] BY LocalType, FieldTypes DEF IInv, Fits
<1>2. row'[s] = [key |-> k, pending |-> FALSE] /\ \A t \in Scopes \ {s} : row'[t] = row[t]
  BY <1>1 DEF Store
<1>3. Hidden' \subseteq Hidden BY <1>1, <1>2 DEF Hidden
<1>4. HiddenRowsHaveKeys' BY <1>2 DEF OweInv, HiddenRowsHaveKeys
<1> QED BY <1>3, <1>4 DEF OwesRows, Handling

LEMMA PutOwes ==
    ASSUME IInv, OweInv, NEW p \in Procs, Put(p), Stepped(p) PROVE Owes(p)
<1> DEFINE n == [loc[p] EXCEPT !.scope = None]
<1>1. /\ pc[p] = "put" /\ holder = p /\ Store(p) /\ UNCHANGED <<up, intent, lease, fenced, got, missed>>
      /\ Become(p, "finalize", n)
  BY DEF Put, intents, credential
<1>2. OwesRows(p) /\ OwesIntents(p) /\ OwesGiven(p) BY <1>1, StoreOwes, IntentsOwed, GivenOwed
<1>3. loc[p] \in Local /\ pc'[p] = "finalize" /\ loc'[p] = n
  BY <1>1, LocalType DEF Become, IInv, TypeInv, TypeOK
<1>4. /\ n.own = loc[p].own /\ n.out = loc[p].out /\ n.cur = loc[p].cur
      /\ n.listed = loc[p].listed /\ n.todo = loc[p].todo /\ n.staged = loc[p].staged
  BY <1>3 DEF Local
<1> HIDE DEF n
<1>5. Sees(p) BY <1>1, <1>3, <1>4 DEF Sees
<1> QED BY <1>2, <1>3, <1>5, ProcOwed, ProcAtEase DEF Owes, RevokeSteps

LEMMA PutFailsOwes ==
    ASSUME IInv, OweInv, NEW p \in Procs, PutFails(p), Stepped(p) PROVE Owes(p)
<1>1. /\ pc[p] = "put" /\ RevokeOwn(p)
      /\ UNCHANGED row \/ (holder = p /\ Store(p))
      /\ UNCHANGED <<up, intent, lease, fenced, got, missed>>
  BY DEF PutFails, intents, credential
<1>2. OwesRows(p) BY <1>1, StoreOwes, RowsOwed
<1>3. OwesIntents(p) /\ OwesGiven(p) BY <1>1, IntentsOwed, GivenOwed
<1>4. loc[p].own \in Keys BY <1>1, LocalType DEF IInv, Fits
<1> QED BY <1>1, <1>2, <1>3, <1>4, RevokeOwnOwed DEF Owes

LEMMA FinalizeOwes ==
    ASSUME IInv, OweInv, NEW p \in Procs, Finalize(p), Stepped(p) PROVE Owes(p)
<1> DEFINE n == [loc[p] EXCEPT !.own = None]
<1>1. pc[p] = "finalize" /\ Become(p, "confirm", n) /\ UNCHANGED <<up, row, fenced, got, missed>>
  BY DEF Finalize, credential
<1>2. PICK k \in Keys : k = loc[p].own BY <1>1, LocalType DEF IInv, Fits
<1>3. UNCHANGED <<intent, lease>> \/ (DeleteIntent(k) /\ intent[k] # "ready")
  BY <1>2 DEF Finalize, intents
<1>4. OwesIntents(p)
  <2>1. ~Foreign(p, k) BY <1>2 DEF Foreign
  <2> QED BY <1>3, <2>1, IntentOwed, IntentsOwed
<1>5. OwesRows(p) /\ OwesGiven(p) BY <1>1, RowsOwed, GivenOwed
<1>6. loc[p] \in Local /\ pc'[p] = "confirm" /\ loc'[p] = n
  BY <1>1, LocalType DEF Become, IInv, TypeInv, TypeOK
<1>7. /\ n.own = None /\ n.out = loc[p].out /\ n.cur = loc[p].cur
      /\ n.listed = loc[p].listed /\ n.todo = loc[p].todo /\ n.staged = loc[p].staged
  BY <1>6 DEF Local
<1> HIDE DEF n
<1>8. Sees(p) BY <1>1, <1>6, <1>7 DEF Sees
<1> QED BY <1>4, <1>5, <1>6, <1>8, ProcOwed, ProcAtEase DEF Owes, RevokeSteps

LEMMA FinalizeFailsOwes ==
    ASSUME IInv, OweInv, NEW p \in Procs, FinalizeFails(p), Stepped(p) PROVE Owes(p)
<1>1. pc[p] = "finalize" /\ RevokeOwn(p) /\ UNCHANGED <<up, data, credential, got, missed>>
  BY DEF FinalizeFails
<1>2. loc[p].own \in Keys BY <1>1, LocalType DEF IInv, Fits
<1> QED BY <1>1, <1>2, OwesData, RevokeOwnOwed DEF Owes

\* Nothing is being revoked, so what is delivered is stored.
LEMMA ConfirmOwes ==
    ASSUME IInv, OweInv, NEW p \in Procs, Confirm(p), Stepped(p) PROVE Owes(p)
<1>1. /\ pc[p] = "confirm" /\ holder = None /\ ~RevocationPending /\ Delivers(loc[p].out) /\ End(p)
      /\ UNCHANGED <<up, row, intent, lease, fenced, missed>>
  BY DEF Confirm, data, intents, credential
<1>2. PICK k \in Keys : k = loc[p].out BY <1>1, LocalType DEF IInv, Fits
<1>3. OwesRows(p) /\ OwesIntents(p) BY <1>1, RowsOwed, IntentsOwed
<1>4. up[k] = "live" => k \in Stored \union missed
  <2>1. intent[k] = "none" BY <1>1 DEF RevocationPending
  <2>2. \A q \in Procs : pc[q] = "stage" => loc[q].own # k
    <3> TAKE q \in Procs
    <3>1. FreshOwn(q) BY DEF OweInv
    <3> QED BY <1>1, <1>2, <3>1 DEF FreshOwn, Handling
  <2> QED BY <2>1, <2>2 DEF IInv, LiveKeysAreRecorded, Recorded
<1>5. OwesGiven(p)
  <2>1. \A j \in got : up[j] = "live" BY DEF OweInv, GivenIsStored
  <2> QED BY <1>1, <1>2, <1>4, <2>1 DEF Delivers, OwesGiven
<1> QED BY <1>1, <1>3, <1>5, EndOwed DEF Owes

LEMMA ConfirmRefusedOwes ==
    ASSUME IInv, OweInv, NEW p \in Procs, ConfirmRefused(p), Stepped(p) PROVE Owes(p)
<1>1. Invalidate(p, "plain", None) /\ UNCHANGED <<up, data, credential, got, missed>>
  BY DEF ConfirmRefused
<1> QED BY <1>1, OwesData, InvalidateOwed DEF Owes

LEMMA StartInvalidationOwes ==
    ASSUME IInv, OweInv, NEW p \in Procs, NEW then \in {"change", "attention"},
           StartInvalidation(p, then), Stepped(p)
    PROVE  Owes(p)
<1>1. Invalidate(p, then, None) /\ UNCHANGED <<up, data, credential, got, missed>>
  BY DEF StartInvalidation
<1> QED BY <1>1, OwesData, InvalidateOwed DEF Owes

\* What a fenced consumer was given is stored, so it is listed.
LEMMA ListOwes ==
    ASSUME IInv, OweInv, NEW p \in Procs, List(p), Stepped(p) PROVE Owes(p)
<1> DEFINE n == [loc[p] EXCEPT !.listed = Stored, !.todo = Stored]
<1>1. /\ pc[p] = "list" /\ Become(p, "stage_ready", n)
      /\ UNCHANGED <<up, data, credential, holder, got, missed>>
  BY DEF List
<1>2. OwesRows(p) /\ OwesIntents(p) /\ OwesGiven(p) BY <1>1, OwesData
<1>3. loc[p] \in Local /\ pc'[p] = "stage_ready" /\ loc'[p] = n
  BY <1>1, LocalType DEF Become, IInv, TypeInv, TypeOK
<1>4. /\ n.own = loc[p].own /\ n.out = loc[p].out /\ n.cur = loc[p].cur
      /\ n.listed = Stored /\ n.todo = Stored /\ n.staged = loc[p].staged
  BY <1>3 DEF Local
<1> HIDE DEF n
<1>5. Sees(p) BY <1>1, <1>3, <1>4 DEF Sees
<1>6. FreshOwn(p)' /\ InOrder(p)' BY <1>3, <1>4 DEF FreshOwn, Handling, InOrder
<1>7. OwedBy(p)'
  <2> SUFFICES ASSUME NEW k \in got' \ missed' PROVE k \in loc'[p].todo
    BY <1>3 DEF OwedBy
  <2>1. k \in got \ missed BY <1>1
  <2>2. k \in Stored BY <2>1 DEF OweInv, GivenIsStored
  <2> QED BY <1>3, <1>4, <2>2
<1> QED BY <1>2, <1>5, <1>6, <1>7, ProcOwed DEF Owes

LEMMA StageReadyOwes ==
    ASSUME IInv, OweInv, NEW p \in Procs, StageReady(p), Stepped(p) PROVE Owes(p)
<1>1. PICK k \in loc[p].todo :
        /\ SetIntent(k, "ready")
        /\ Become(p, "stage_ready", [loc[p] EXCEPT !.todo = @ \ {k}, !.staged = @ \union {k}])
  BY DEF StageReady, MakeReady
<1> DEFINE n == [loc[p] EXCEPT !.todo = @ \ {k}, !.staged = @ \union {k}]
<1>2. pc[p] = "stage_ready" /\ UNCHANGED <<up, row, fenced, holder, got, missed>>
  BY DEF StageReady, credential
<1>3. /\ loc[p] \in Local /\ pc'[p] = "stage_ready" /\ loc'[p] = n /\ k \in Keys
      /\ loc[p].listed \subseteq Keys /\ got \subseteq Keys
  BY <1>1, LocalType, FieldTypes DEF Become, IInv, TypeInv, TypeOK
<1>4. /\ n.own = loc[p].own /\ n.out = loc[p].out /\ n.cur = loc[p].cur /\ n.then = loc[p].then
      /\ n.listed = loc[p].listed /\ n.todo = loc[p].todo \ {k}
      /\ n.staged = loc[p].staged \union {k}
  BY <1>3 DEF Local
<1> HIDE DEF n
<1>5. ~Foreign(p, k) BY DEF Foreign
<1>6. OwesIntents(p) /\ intent'[k] = "ready" /\ \A j \in Keys \ {k} : intent'[j] = intent[j]
  BY <1>1, <1>3, <1>5, IntentOwed
<1>7. OwesRows(p) /\ OwesGiven(p) BY <1>2, RowsOwed, GivenOwed
<1>8. Sees(p) BY <1>1, <1>2, <1>3, <1>4 DEF Sees
<1>9. InOrder(p) /\ OwedBy(p) BY DEF OweInv
<1>10. FreshOwn(p)' BY <1>3 DEF FreshOwn, Handling
<1>11. InOrder(p)'
  <2> SUFFICES ASSUME NEW j \in loc'[p].listed \ loc'[p].todo, j \in Stored' \ missed'
               PROVE  intent'[j] = "ready"
    BY <1>3 DEF InOrder
  <2>1. j \in Stored \ missed BY <1>2 DEF Stored
  <2> QED BY <1>2, <1>3, <1>4, <1>6, <1>9, <2>1 DEF InOrder
<1>12. OwedBy(p)'
  <2> SUFFICES ASSUME Fencing(p)', NEW j \in got' \ missed'
               PROVE  intent'[j] = "ready" \/ j \in loc'[p].todo
    BY <1>3 DEF OwedBy
  <2>1. Fencing(p) BY <1>2, <1>3, <1>4 DEF Fencing
  <2> QED BY <1>2, <1>3, <1>4, <1>6, <1>9, <2>1 DEF OwedBy
<1> QED BY <1>6, <1>7, <1>8, <1>10, <1>11, <1>12, ProcOwed DEF Owes

\* What is hidden has been listed and staged, or is missed.
LEMMA HideOwes ==
    ASSUME IInv, OweInv, NEW p \in Procs, pc[p] = "stage_ready", loc[p].todo = {}, Hide(p)
    PROVE  OwesRows(p)
<1>1. row \in [Scopes -> Row] BY FieldTypes DEF IInv
<1>2. ASSUME NEW s \in Scopes
      PROVE  row'[s].key = row[s].key /\ row'[s].pending = (row[s].key # None)
  <2>1. row'[s] = [row[s] EXCEPT !.pending = row[s].key # None] BY DEF Hide
  <2>2. row[s] \in Row BY <1>1
  <2> QED BY <2>1, <2>2 DEF Row
<1>3. Stored' = Stored /\ HiddenRowsHaveKeys' BY <1>2 DEF Stored, HiddenRowsHaveKeys
<1>4. ASSUME NEW k \in Hidden' \ missed' PROVE k \in Stored /\ intent[k] = "ready"
  <2>1. k \in Stored BY <1>2 DEF Hidden, Stored
  <2>2. k \in loc[p].listed /\ k \notin missed BY <1>4, <2>1 DEF Hide
  <2>3. InOrder(p) BY DEF OweInv
  <2> QED BY <2>1, <2>2, <2>3 DEF InOrder
<1> QED BY <1>3, <1>4 DEF OwesRows

LEMMA MarkPendingOwes ==
    ASSUME IInv, OweInv, NEW p \in Procs, MarkPending(p), Stepped(p) PROVE Owes(p)
<1>1. /\ pc[p] = "stage_ready" /\ loc[p].todo = {} /\ Hide(p) /\ Goto(p, "revoke")
      /\ UNCHANGED <<up, intent, lease, fenced, got>>
  BY DEF MarkPending, intents, credential
<1>2. OwesRows(p) /\ OwesIntents(p) /\ OwesGiven(p) BY <1>1, HideOwes, IntentsOwed, GivenOwed
<1>3. pc'[p] = "revoke" /\ loc' = loc /\ holder' = holder /\ missed \subseteq missed'
  BY <1>1 DEF Goto, Hide, IInv, TypeInv, TypeOK
<1>4. FreshOwn(p)' /\ OwedBy(p)' BY <1>1, <1>2, <1>3, StillOwed DEF RevokeSteps
<1>5. InOrder(p)' /\ Sees(p) BY <1>1, <1>3 DEF InOrder, Sees
<1> QED BY <1>2, <1>4, <1>5, ProcOwed DEF Owes

LEMMA MarkPendingFailsOwes ==
    ASSUME IInv, OweInv, NEW p \in Procs, MarkPendingFails(p), Stepped(p) PROVE Owes(p)
<1>1. /\ pc[p] = "stage_ready" /\ loc[p].todo = {} /\ UNCHANGED <<up, intent, lease, got>>
      /\ Hide(p) \/ UNCHANGED <<row, missed>>
  BY DEF MarkPendingFails, intents
<1>2. PICK outcome \in {"owed", "error"} : Commits(p, outcome) BY DEF MarkPendingFails
<1>3. OwesRows(p) BY <1>1, HideOwes, RowsOwed
<1>4. OwesIntents(p) BY <1>1, IntentsOwed
<1>5. OwesProc(p) /\ OwesGiven(p) BY <1>1, <1>2, CommitsOwed
<1> QED BY <1>3, <1>4, <1>5 DEF Owes

LEMMA ListFailsOwes ==
    ASSUME IInv, OweInv, NEW p \in Procs, ListFails(p), Stepped(p) PROVE Owes(p)
<1>1. Commits(p, "error") /\ UNCHANGED <<up, row, intent, lease, got, missed>>
  BY DEF ListFails, data, intents
<1> QED BY <1>1, RowsOwed, IntentsOwed, CommitsOwed DEF Owes

LEMMA DeleteAllOwes ==
    ASSUME OweInv, NEW p \in Procs, DeleteAll(p) PROVE OwesRows(p)
<1>1. missed \subseteq missed' /\ \A s \in Scopes : row'[s] = NoRow BY DEF DeleteAll
<1> QED BY <1>1, RowsDropped

LEMMA RevocationsEndOwes ==
    ASSUME IInv, OweInv, NEW p \in Procs, RevocationsEnd(p), Stepped(p) PROVE Owes(p)
<1>1. /\ pc[p] = "revoke" /\ UNCHANGED <<up, intent, lease, got>>
      /\ DeleteAll(p) \/ UNCHANGED <<row, missed>>
  BY DEF RevocationsEnd, intents
<1>2. PICK outcome \in {"done", "owed", "error"} : Commits(p, outcome) BY DEF RevocationsEnd
<1>3. OwesRows(p) BY <1>1, DeleteAllOwes, RowsOwed
<1> QED BY <1>1, <1>2, <1>3, IntentsOwed, CommitsOwed DEF Owes

LEMMA DeleteAllFailsOwes ==
    ASSUME IInv, OweInv, NEW p \in Procs, DeleteAllFails(p), Stepped(p) PROVE Owes(p)
<1>1. /\ pc[p] = "revoke" /\ Commits(p, "error") /\ UNCHANGED <<up, intent, lease, got>>
      /\ DeleteAll(p) \/ UNCHANGED <<row, missed>>
  BY DEF DeleteAllFails, intents
<1>2. OwesRows(p) BY <1>1, DeleteAllOwes, RowsOwed
<1> QED BY <1>1, <1>2, IntentsOwed, CommitsOwed DEF Owes

\* While p revokes key after key: what it knows shrinks, its caller stays.
LEMMA RevokingOwes ==
    ASSUME IInv, OweInv, NEW p \in Procs, Stepped(p), OwesIntents(p),
           got' \subseteq got, holder' = holder,
           pc[p] \in RevokeSteps, pc'[p] \in RevokeSteps,
           pc'[p] = "drop_intent" => loc'[p].cur \notin Stored',
           NEW l, loc'[p] = l, l.own = loc[p].own, l.out = loc[p].out, l.then = loc[p].then,
           l.listed \subseteq loc[p].listed, l.todo = loc[p].todo, l.staged \subseteq loc[p].staged,
           l.cur \in {None, loc[p].cur} \union loc[p].staged
    PROVE  OwesProc(p)
<1>1. missed \subseteq missed' BY DEF Stepped, DataMoves, RowsMove
<1>2. FreshOwn(p)' /\ OwedBy(p)' BY <1>1, StillOwed
<1>3. InOrder(p)' BY DEF InOrder, RevokeSteps
<1>4. Sees(p) BY DEF Sees, RevokeSteps
<1> QED BY <1>2, <1>3, <1>4, ProcOwed

LEMMA MarkReadyOwes ==
    ASSUME IInv, OweInv, NEW p \in Procs, MarkReady(p), Stepped(p) PROVE Owes(p)
<1>1. PICK k \in loc[p].staged :
        /\ IF Names(p, k) THEN SetIntent(k, "ready") ELSE UNCHANGED intents
        /\ Become(p, "revoke_up", [loc[p] EXCEPT !.cur = k, !.staged = @ \ {k}])
  BY DEF MarkReady, MakeReady
<1> DEFINE n == [loc[p] EXCEPT !.cur = k, !.staged = @ \ {k}]
<1>2. pc[p] = "revoke" /\ UNCHANGED <<up, row, fenced, holder, got, missed>>
  BY DEF MarkReady, credential
<1>3. loc[p] \in Local /\ pc'[p] = "revoke_up" /\ loc'[p] = n /\ k \in Keys
  BY <1>1, LocalType DEF Become, IInv, TypeInv, TypeOK
<1>4. /\ n.own = loc[p].own /\ n.out = loc[p].out /\ n.cur = k /\ n.then = loc[p].then
      /\ n.listed = loc[p].listed /\ n.todo = loc[p].todo /\ n.staged = loc[p].staged \ {k}
  BY <1>3 DEF Local
<1> HIDE DEF n
<1>5. OwesIntents(p)
  <2>1. ~Foreign(p, k) BY DEF Foreign
  <2> QED BY <1>1, <1>3, <2>1, IntentOwed, IntentsOwed DEF intents
<1>6. OwesRows(p) /\ OwesGiven(p) BY <1>2, RowsOwed, GivenOwed
<1>7. OwesProc(p) BY <1>2, <1>3, <1>4, <1>5, RevokingOwes DEF RevokeSteps
<1> QED BY <1>5, <1>6, <1>7 DEF Owes

LEMMA MarkReadyFailsOwes ==
    ASSUME IInv, OweInv, NEW p \in Procs, MarkReadyFails(p), Stepped(p) PROVE Owes(p)
<1>1. PICK k \in loc[p].staged :
        Become(p, "revoke", [loc[p] EXCEPT !.staged = @ \ {k}, !.failed = TRUE, !.listed = {}])
  BY DEF MarkReadyFails
<1> DEFINE n == [loc[p] EXCEPT !.staged = @ \ {k}, !.failed = TRUE, !.listed = {}]
<1>2. pc[p] = "revoke" /\ UNCHANGED <<up, data, credential, holder, got, missed>>
  BY DEF MarkReadyFails
<1>3. loc[p] \in Local /\ pc'[p] = "revoke" /\ loc'[p] = n
  BY <1>1, LocalType DEF Become, IInv, TypeInv, TypeOK
<1>4. /\ n.own = loc[p].own /\ n.out = loc[p].out /\ n.cur = loc[p].cur /\ n.then = loc[p].then
      /\ n.listed = {} /\ n.todo = loc[p].todo /\ n.staged = loc[p].staged \ {k}
  BY <1>3 DEF Local
<1> HIDE DEF n
<1>5. OwesRows(p) /\ OwesIntents(p) /\ OwesGiven(p) BY <1>2, OwesData
<1>6. OwesProc(p) BY <1>2, <1>3, <1>4, <1>5, RevokingOwes DEF RevokeSteps
<1> QED BY <1>5, <1>6 DEF Owes

LEMMA RevokeUpstreamOwes ==
    ASSUME IInv, OweInv, NEW p \in Procs, RevokeUpstream(p), Stepped(p) PROVE Owes(p)
<1>1. /\ pc[p] = "revoke_up" /\ Dead(loc[p].cur) /\ Goto(p, "drop_row")
      /\ UNCHANGED <<row, intent, lease, fenced, missed>>
  BY DEF RevokeUpstream, data, intents, credential
<1>2. PICK k \in Keys : k = loc[p].cur BY <1>1, LocalType DEF IInv, Fits
<1>3. OwesRows(p) /\ OwesIntents(p) BY <1>1, RowsOwed, IntentsOwed
<1>4. OwesGiven(p) BY <1>1, <1>2, DeadOwed
<1>5. pc'[p] = "drop_row" /\ loc' = loc /\ holder' = holder /\ got' \subseteq got
  BY <1>1 DEF Goto, Dead, IInv, TypeInv, TypeOK
<1>6. OwesProc(p) BY <1>1, <1>3, <1>5, RevokingOwes DEF RevokeSteps
<1> QED BY <1>3, <1>4, <1>6 DEF Owes

LEMMA DropRowOwes ==
    ASSUME IInv, OweInv, NEW p \in Procs, DropRow(p), Stepped(p) PROVE Owes(p)
<1>1. /\ pc[p] = "drop_row" /\ Goto(p, "drop_intent")
      /\ row' = [s \in Scopes |-> IF row[s].key = loc[p].cur THEN NoRow ELSE row[s]]
      /\ UNCHANGED <<up, intent, lease, fenced, got, missed>>
  BY DEF DropRow, intents, credential
<1>2. loc[p].cur \in Keys /\ loc[p].cur # None BY <1>1, LocalType DEF IInv, Fits
<1>3. OwesRows(p) BY <1>1, RowsDropped
<1>4. OwesIntents(p) /\ OwesGiven(p) BY <1>1, IntentsOwed, GivenOwed
<1>5. loc[p].cur \notin Stored' BY <1>1, <1>2 DEF Stored, NoRow
<1>6. pc'[p] = "drop_intent" /\ loc' = loc /\ holder' = holder
  BY <1>1 DEF Goto, IInv, TypeInv, TypeOK
<1>7. OwesProc(p) BY <1>1, <1>4, <1>5, <1>6, RevokingOwes DEF RevokeSteps
<1> QED BY <1>3, <1>4, <1>7 DEF Owes

LEMMA DropIntentOwes ==
    ASSUME IInv, OweInv, NEW p \in Procs, DropIntent(p), Stepped(p) PROVE Owes(p)
<1> DEFINE n == [loc[p] EXCEPT !.cur = None]
<1>1. /\ pc[p] = "drop_intent" /\ Become(p, "revoke", n)
      /\ UNCHANGED <<up, row, fenced, holder, got, missed>>
  BY DEF DropIntent, credential
<1>2. PICK k \in Keys : k = loc[p].cur BY <1>1, LocalType DEF IInv, Fits
<1>3. DeleteIntent(k) \/ UNCHANGED <<intent, lease>> BY <1>2 DEF DropIntent, intents
<1>4. k \notin Stored /\ ~Foreign(p, k)
  <2>1. InOrder(p) BY DEF OweInv
  <2> QED BY <1>1, <1>2, <2>1 DEF InOrder, Foreign
<1>5. OwesIntents(p) BY <1>3, <1>4, IntentOwed, IntentsOwed
<1>6. OwesRows(p) /\ OwesGiven(p) BY <1>1, RowsOwed, GivenOwed
<1>7. loc[p] \in Local /\ pc'[p] = "revoke" /\ loc'[p] = n
  BY <1>1, LocalType DEF Become, IInv, TypeInv, TypeOK
<1>8. /\ n.own = loc[p].own /\ n.out = loc[p].out /\ n.cur = None /\ n.then = loc[p].then
      /\ n.listed = loc[p].listed /\ n.todo = loc[p].todo /\ n.staged = loc[p].staged
  BY <1>7 DEF Local
<1> HIDE DEF n
<1>9. OwesProc(p) BY <1>1, <1>5, <1>7, <1>8, RevokingOwes DEF RevokeSteps
<1> QED BY <1>5, <1>6, <1>9 DEF Owes

LEMMA RevokeFailsOwes ==
    ASSUME IInv, OweInv, NEW p \in Procs, RevokeFails(p), Stepped(p) PROVE Owes(p)
<1> DEFINE n == [loc[p] EXCEPT !.failed = TRUE, !.cur = None, !.listed = {}]
<1>1. /\ pc[p] \in {"revoke_up", "drop_row", "drop_intent"} /\ Become(p, "revoke", n)
      /\ UNCHANGED <<up, data, credential, holder, got, missed>>
  BY DEF RevokeFails
<1>2. loc[p] \in Local /\ pc'[p] = "revoke" /\ loc'[p] = n
  BY <1>1, LocalType DEF Become, IInv, TypeInv, TypeOK
<1>3. /\ n.own = loc[p].own /\ n.out = loc[p].out /\ n.cur = None /\ n.then = loc[p].then
      /\ n.listed = {} /\ n.todo = loc[p].todo /\ n.staged = loc[p].staged
  BY <1>2 DEF Local
<1> HIDE DEF n
<1>4. OwesRows(p) /\ OwesIntents(p) /\ OwesGiven(p) BY <1>1, OwesData
<1>5. OwesProc(p) BY <1>1, <1>2, <1>3, <1>4, RevokingOwes DEF RevokeSteps
<1> QED BY <1>4, <1>5 DEF Owes

\* The cleanup task may know the provisional intent of a key that is being stored,
\* and resolves it once the lock is free.
LEMMA ClaimOwes ==
    ASSUME IInv, OweInv, NEW p \in Procs, NEW k \in Keys, Claim(p, k), Stepped(p)
    PROVE  Owes(p)
<1> DEFINE n == [NoLoc EXCEPT !.then = "cleanup", !.cur = k]
<1>1. /\ pc[p] = "idle" /\ intent[k] # "none"
      /\ lease' = [lease EXCEPT ![k] = IF intent[k] = "ready" THEN None ELSE p]
      /\ UNCHANGED <<up, row, intent, fenced, holder, got, missed>>
  BY DEF Claim, credential
<1>2. PICK step \in {"revoke_up", "resolve"} :
        /\ Become(p, step, n)
        /\ step = "revoke_up" => intent[k] = "ready"
  BY DEF Claim
<1>3. OwesIntents(p)
  <2>1. /\ intent \in [Keys -> {"none", "provisional", "ready"}]
        /\ lease \in [Keys -> Procs \union {None}]
    BY DEF IInv, TypeInv, TypeOK
  <2>2. /\ lease'[k] = IF intent[k] = "ready" THEN None ELSE p
        /\ \A j \in Keys \ {k} : lease'[j] = lease[j]
    BY <1>1, <2>1
  <2>3. LeasesAreProvisional' BY <1>1, <2>1, <2>2 DEF OweInv, LeasesAreProvisional
  <2> QED BY <1>1, <2>3 DEF OwesIntents
<1>4. OwesRows(p) /\ OwesGiven(p) BY <1>1, RowsOwed, GivenOwed
<1>5. pc'[p] = step /\ loc'[p] = n BY <1>2 DEF Become, IInv, TypeInv, TypeOK
<1>6. /\ n.own = None /\ n.out = None /\ n.cur = k /\ n.listed = {} /\ n.todo = {}
      /\ n.staged = {} /\ n.then = "cleanup"
  BY DEF NoLoc
<1> HIDE DEF n
<1>7. step = "resolve" \/ ~Foreign(p, k) BY <1>2 DEF Foreign
<1>8. Sees(p) BY <1>5, <1>6, <1>7 DEF Sees
<1>9. OwesProc(p) BY <1>5, <1>6, <1>8, ProcOwed, ProcAtEase
<1> QED BY <1>3, <1>4, <1>9 DEF Owes

LEMMA ResolveOwes ==
    ASSUME IInv, OweInv, NEW p \in Procs, Resolve(p), Stepped(p) PROVE Owes(p)
<1>1. pc[p] = "resolve" /\ holder = None /\ UNCHANGED <<up, row, fenced, got, missed>>
  BY DEF Resolve, credential
<1>2. PICK k \in Keys : k = loc[p].cur BY <1>1, LocalType DEF IInv, Fits
<1>3. \/ End(p) /\ UNCHANGED <<intent, lease>>
      \/ End(p) /\ lease[k] = p /\ DeleteIntent(k)
      \/ Goto(p, "revoke_up") /\ lease[k] = p /\ SetIntent(k, "ready")
  BY <1>2 DEF Resolve, intents
<1>4. lease[k] = p => intent[k] = "provisional" /\ ~Foreign(p, k)
  <2>1. lease[k] = p => intent[k] = "provisional" BY DEF OweInv, LeasesAreProvisional
  <2> QED BY <1>1, <2>1 DEF Foreign
<1>5. OwesIntents(p) BY <1>3, <1>4, IntentOwed, IntentsOwed
<1>6. OwesRows(p) /\ OwesGiven(p) BY <1>1, RowsOwed, GivenOwed
<1>7. OwesProc(p)
  <2>1. CASE End(p) BY <2>1, EndOwed
  <2>2. CASE Goto(p, "revoke_up") /\ lease[k] = p
    <3>1. pc'[p] = "revoke_up" /\ loc' = loc /\ holder' = None
      BY <1>1, <2>2 DEF Goto, IInv, TypeInv, TypeOK
    <3>2. Sees(p) BY <1>2, <1>4, <2>2, <3>1 DEF Sees
    <3>3. ~Fencing(p)' /\ ~Handling(p)' BY <3>1 DEF Fencing, Handling
    <3> QED BY <3>1, <3>2, <3>3, ProcOwed DEF FreshOwn, InOrder, OwedBy
  <2> QED BY <1>3, <2>1, <2>2
<1> QED BY <1>5, <1>6, <1>7 DEF Owes

LEMMA ResolveFailsOwes ==
    ASSUME IInv, OweInv, NEW p \in Procs, ResolveFails(p), Stepped(p) PROVE Owes(p)
<1>1. /\ End(p) /\ UNCHANGED <<up, row, intent, fenced, got, missed>>
      /\ lease' = [lease EXCEPT ![loc[p].cur] = IF @ = p THEN None ELSE @]
  BY DEF ResolveFails, credential
<1>2. OwesIntents(p)
  <2>1. lease \in [Keys -> Procs \union {None}] BY DEF IInv, TypeInv, TypeOK
  <2>2. \A j \in Keys : lease'[j] \in {lease[j], None} BY <1>1, <2>1
  <2>3. LeasesAreProvisional' BY <1>1, <2>2 DEF OweInv, LeasesAreProvisional
  <2> QED BY <1>1, <2>3 DEF OwesIntents
<1> QED BY <1>1, <1>2, RowsOwed, GivenOwed, EndOwed DEF Owes

\* What goes on without the lock fences nothing any more.
LEMMA CancelOwes ==
    ASSUME IInv, OweInv, NEW p \in Procs, Cancel(p), Stepped(p) PROVE Owes(p)
<1>1. holder' = None /\ UNCHANGED <<up, data, credential, pc, got, missed>> BY DEF Cancel
<1>2. UNCHANGED <<row, intent>> /\ Stored' = Stored BY <1>1 DEF data, intents, Stored
<1>3. OwesRows(p) /\ OwesIntents(p) /\ OwesGiven(p) BY <1>1, OwesData
<1>4. FreshOwn(p) /\ InOrder(p) BY DEF OweInv
<1>5. loc[p] \in Local BY LocalType DEF IInv
<1>6. ~Fencing(p)' BY <1>1 DEF Fencing
<1>7. CASE pc[p] = "stage" /\ UNCHANGED loc
  <2>1. FreshOwn(p)' BY <1>1, <1>2, <1>4, <1>7 DEF FreshOwn, Handling
  <2>2. InOrder(p)' /\ Sees(p) BY <1>1, <1>7 DEF InOrder, Sees
  <2> QED BY <1>3, <1>6, <2>1, <2>2, ProcOwed DEF Owes, OwedBy
<1>8. CASE /\ pc[p] \in RevokeSteps \union {"stage_ready"}
           /\ loc' = [loc EXCEPT ![p].then = "plain", ![p].scope = None]
  <2> DEFINE n == [loc[p] EXCEPT !.then = "plain", !.scope = None]
  <2>1. loc'[p] = n BY <1>8 DEF IInv, TypeInv, TypeOK
  <2>2. /\ n.own = loc[p].own /\ n.out = loc[p].out /\ n.cur = loc[p].cur
        /\ n.listed = loc[p].listed /\ n.todo = loc[p].todo /\ n.staged = loc[p].staged
    BY <1>5 DEF Local
  <2> HIDE DEF n
  <2>3. Sees(p) BY <1>1, <1>8, <2>1, <2>2 DEF Sees, RevokeSteps
  <2>4. InOrder(p)' BY <1>1, <1>2, <1>4, <2>1, <2>2 DEF InOrder
  <2>5. ~Handling(p)' BY <1>1, <1>8 DEF Handling, RevokeSteps
  <2> QED BY <1>3, <1>6, <2>3, <2>4, <2>5, ProcOwed DEF Owes, OwedBy, FreshOwn
<1> QED BY <1>7, <1>8 DEF Cancel, RevokeSteps

LEMMA CrashOwes ==
    ASSUME IInv, OweInv, NEW p \in Procs, Crash(p), Stepped(p) PROVE Owes(p)
<1>1. End(p) /\ UNCHANGED <<up, row, intent, lease, fenced, got>> /\ missed \subseteq missed'
  BY DEF Crash, data, intents, credential
<1> QED BY <1>1, RowsOwed, IntentsOwed, GivenOwed, EndOwed DEF Owes

-----------------------------------------------------------------------------
\* The steps of no process.  Rows and given keys become fewer.
LEMMA FewerKeep ==
    ASSUME IInv, OweInv, UNCHANGED <<intent, lease, fenced, holder, pc, loc, missed>>,
           \A s \in Scopes : row'[s] = row[s] \/ row'[s] = NoRow, got' \subseteq got,
           \A k \in Keys : up'[k] = "unissued" => up[k] = "unissued",
           \A k \in got' : up'[k] = "live" /\ (k \in Stored => k \in Stored')
    PROVE  OweInv'
<1>1. NoRow.key = None /\ ~NoRow.pending BY DEF NoRow
<1>2. Stored' \subseteq Stored /\ Hidden' \subseteq Hidden BY <1>1 DEF Stored, Hidden
<1>3. HiddenRowsHaveKeys' BY <1>1 DEF OweInv, HiddenRowsHaveKeys
<1>4. OutIssued' /\ LeasesAreProvisional' BY DEF OweInv, OutIssued, LeasesAreProvisional
<1>5. GivenIsStored' BY DEF OweInv, GivenIsStored
<1>6. ASSUME NEW p \in Procs PROVE FreshOwn(p)' /\ InOrder(p)' /\ OwedBy(p)'
  <2>1. FreshOwn(p) /\ InOrder(p) /\ OwedBy(p) BY DEF OweInv
  <2>2. FreshOwn(p)' BY <1>2, <2>1 DEF FreshOwn, Handling
  <2>3. InOrder(p)' BY <1>2, <2>1 DEF InOrder
  <2>4. OwedBy(p)' BY <2>1 DEF OwedBy, Fencing
  <2> QED BY <2>2, <2>3, <2>4
<1>7. HiddenRowsAreOwed' /\ FencedKeysAreRevoked'
  BY <1>2 DEF OweInv, HiddenRowsAreOwed, FencedKeysAreRevoked
<1> QED BY <1>3, <1>4, <1>5, <1>6, <1>7 DEF OweInv

LEMMA DeleteExpiredOwes == ASSUME IInv, OweInv, DeleteExpired PROVE OweInv'
<1> DEFINE Old(s) == row[s].key # None /\ up[row[s].key] = "expired" /\ ~row[s].pending
<1>1. /\ row' = [s \in Scopes |-> IF Old(s) THEN NoRow ELSE row[s]]
      /\ UNCHANGED <<up, intent, lease, fenced, holder, pc, loc, got, missed>>
  BY DEF DeleteExpired, intents, credential
<1>2. \A s \in Scopes : row'[s] = row[s] \/ (row'[s] = NoRow /\ up[row[s].key] = "expired")
  BY <1>1
<1>3. \A k \in got' : up'[k] = "live" /\ (k \in Stored => k \in Stored')
  BY <1>1, <1>2 DEF OweInv, GivenIsStored, Stored
<1> QED BY <1>1, <1>2, <1>3, FewerKeep

LEMMA ExpireOwes == ASSUME IInv, OweInv, NEW k \in Keys, Expire(k) PROVE OweInv'
<1>1. /\ up[k] = "live" /\ up' = [up EXCEPT ![k] = "expired"] /\ got' = got \ {k}
      /\ UNCHANGED <<row, intent, lease, fenced, holder, pc, loc, missed>>
  BY DEF Expire, data, intents, credential
<1>2. up \in [Keys -> {"unissued", "live", "revoked", "expired"}] /\ got \subseteq Keys
  BY FieldTypes DEF IInv
<1>3. \A j \in Keys : up'[j] = "unissued" => up[j] = "unissued" BY <1>1, <1>2
<1>4. \A j \in got' : up'[j] = "live" /\ (j \in Stored => j \in Stored')
  BY <1>1, <1>2 DEF OweInv, GivenIsStored, Stored
<1>5. got' \subseteq got BY <1>1
<1> QED BY <1>1, <1>3, <1>4, <1>5, FewerKeep

LEMMA InitOwes == Init => OweInv
<1> SUFFICES ASSUME Init PROVE OweInv OBVIOUS
<1>1. NoRow.key = None /\ ~NoRow.pending /\ NoLoc.out = None BY DEF NoRow, NoLoc
<1>2. /\ \A s \in Scopes : row[s] = NoRow
      /\ \A p \in Procs : pc[p] = "idle" /\ loc[p] = NoLoc
      /\ \A k \in Keys : lease[k] = None
      /\ got = {} /\ ~fenced
  BY DEF Init
<1>3. Hidden = {} BY <1>1, <1>2 DEF Hidden
<1>4. OutIssued /\ LeasesAreProvisional /\ HiddenRowsHaveKeys /\ GivenIsStored
  BY <1>1, <1>2 DEF OutIssued, LeasesAreProvisional, HiddenRowsHaveKeys, GivenIsStored
<1>5. \A p \in Procs : FreshOwn(p) /\ InOrder(p) /\ OwedBy(p)
  BY <1>2 DEF FreshOwn, Handling, InOrder, OwedBy
<1> QED BY <1>2, <1>3, <1>4, <1>5 DEF OweInv, HiddenRowsAreOwed, FencedKeysAreRevoked

LEMMA NextOwes == IInv /\ OweInv /\ [Next]_vars => OweInv'
<1> SUFFICES ASSUME IInv, OweInv, [Next]_vars PROVE OweInv'
  OBVIOUS
<1>1. ASSUME NEW p \in Procs, Stepped(p), Owes(p) PROVE OweInv'
  BY <1>1, StepKeepsOwe DEF Owes
<1>2. ASSUME NEW p \in Procs, Issuing(p) PROVE OweInv'
  <2>1. Stepped(p)
    BY <1>2, StartIssueStep, IssueStep, StageStep, PutStep, FinalizeStep, ConfirmStep,
       ConfirmRefusedStep DEF Issuing
  <2>2. Owes(p)
    BY <1>2, <2>1, StartIssueOwes, IssueOwes, StageOwes, PutOwes, FinalizeOwes, ConfirmOwes,
       ConfirmRefusedOwes DEF Issuing
  <2> QED BY <1>1, <2>1, <2>2
<1>3. ASSUME NEW p \in Procs, Invalidating(p) PROVE OweInv'
  <2>1. Stepped(p)
    BY <1>3, StartInvalidationStep, ListStep, StageReadyStep, MarkPendingStep,
       RevocationsEndStep DEF Invalidating
  <2>2. Owes(p)
    BY <1>3, <2>1, StartInvalidationOwes, ListOwes, StageReadyOwes, MarkPendingOwes,
       RevocationsEndOwes DEF Invalidating
  <2> QED BY <1>1, <2>1, <2>2
<1>4. ASSUME NEW p \in Procs, Revoking(p) PROVE OweInv'
  <2>1. Stepped(p)
    BY <1>4, MarkReadyStep, RevokeUpstreamStep, DropRowStep, DropIntentStep DEF Revoking
  <2>2. Owes(p)
    BY <1>4, <2>1, MarkReadyOwes, RevokeUpstreamOwes, DropRowOwes, DropIntentOwes DEF Revoking
  <2> QED BY <1>1, <2>1, <2>2
<1>5. ASSUME NEW p \in Procs, Cleanup(p) PROVE OweInv'
  <2>1. Stepped(p) BY <1>5, ResolveStep, ClaimStep DEF Cleanup
  <2>2. Owes(p) BY <1>5, <2>1, ResolveOwes, ClaimOwes DEF Cleanup
  <2> QED BY <1>1, <2>1, <2>2
<1>6. ASSUME NEW p \in Procs, Failure(p) PROVE OweInv'
  <2>1. Stepped(p)
    BY <1>6, IssueFailsStep, StageFailsStep, PutFailsStep, FinalizeFailsStep, ListFailsStep,
       MarkPendingFailsStep, DeleteAllFailsStep, MarkReadyFailsStep, RevokeFailsStep,
       ResolveFailsStep, CancelStep, CrashStep DEF Failure
  <2>2. Owes(p)
    BY <1>6, <2>1, IssueFailsOwes, StageFailsOwes, PutFailsOwes, FinalizeFailsOwes,
       ListFailsOwes, MarkPendingFailsOwes, DeleteAllFailsOwes, MarkReadyFailsOwes,
       RevokeFailsOwes, ResolveFailsOwes, CancelOwes, CrashOwes DEF Failure
  <2> QED BY <1>1, <2>1, <2>2
<1>7. CASE UNCHANGED vars
  <2>1. UNCHANGED <<up, row, intent, lease, fenced, holder, pc, loc, got, missed>>
    BY <1>7 DEF vars, data, intents, credential
  <2>2. Stored' = Stored BY <2>1 DEF Stored
  <2> QED BY <2>1, <2>2, FewerKeep DEF OweInv, GivenIsStored
<1> QED BY <1>2, <1>3, <1>4, <1>5, <1>6, <1>7, DeleteExpiredOwes, ExpireOwes DEF Next

\* The lemma the next two theorems share.
LEMMA OweAlways == Spec => [](IInv /\ OweInv)
<1>1. Init => IInv /\ OweInv BY InitIInv, InitOwes
<1>2. IInv /\ OweInv /\ [Next]_vars => (IInv /\ OweInv)' BY NextIInv, NextOwes
<1> QED BY <1>1, <1>2, PTL DEF Spec

\* A row that MarkRevocationPendingImmediately has hidden has an intent in state ready,
\* whatever fails, dies or is cancelled and whoever else revokes, stores or cleans up:
\* it is staged before it is hidden and dropped from the rows before its intent is.
THEOREM HiddenRowsHold == Spec => []HiddenRowsAreOwed
<1>1. IInv /\ OweInv => HiddenRowsAreOwed BY DEF OweInv
<1> QED BY <1>1, OweAlways, PTL

\* Once ApplyAuthorizationFence has committed for a consumer, every key it was given
\* and that still works is about to be revoked: what was given is stored, so the
\* invalidation of the fence has listed it, and no delivery is confirmed meanwhile.
THEOREM FencedKeysHold == Spec => []FencedKeysAreRevoked
<1>1. IInv /\ OweInv => FencedKeysAreRevoked BY DEF OweInv
<1> QED BY <1>1, OweAlways, PTL
=============================================================================
