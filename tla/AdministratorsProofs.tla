------------------------ MODULE AdministratorsProofs ------------------------
(* A recovery administrator remains, for any users, roles and requests.  The
   property is not inductive: the invariant says what the holder of the guard's
   row has been promised, and that what others commit meanwhile is harmless. *)
EXTENDS Administrators, TLAPS

-----------------------------------------------------------------------------
\* A transaction that fires no trigger.
Harmless(t) ==
    /\ t.drop = {} /\ t.add = {} /\ ~TouchesPolicies(t)
    /\ \A u \in Accounts : t.status[u] = "keep" \/ db.status[u] \in {"none", t.status[u]}

IsChange(t) ==
    DOMAIN t = {"status", "new", "drop", "add", "primary", "manage", "policy", "arms"}

Shape ==
    /\ step = [c \in Handlers |-> step[c]] /\ tx = [c \in Handlers |-> tx[c]]
    /\ \A c \in Handlers : IsChange(tx[c])
    /\ guard \subseteq Handlers /\ armed \in BOOLEAN

OneHolder == \A c, o \in guard : c = o

HoldersCommit ==
    \A c \in Handlers : /\ c \in guard => step[c] = "commit"
                        /\ tx[c].arms \in BOOLEAN
                        /\ tx[c].arms => c \in guard

NoConflicts == \A c, o \in Handlers : Open(c) /\ Open(o) /\ c # o => ~Conflict(tx[c], tx[o])

\* Whoever is about to commit holds the guard, or changes nothing it watches.
CommitsAreValid ==
    \A c \in Handlers : step[c] = "commit" =>
        \/ c \notin guard /\ Harmless(tx[c])
        \/ c \in guard /\ (armed \/ tx[c].arms => RecoveryAdministrator(View(tx[c])))

IInv ==
    /\ Shape /\ OneHolder /\ HoldersCommit /\ NoConflicts /\ CommitsAreValid
    /\ AdministratorRemains

-----------------------------------------------------------------------------
\* NoChange and every transaction that a request prepares: it arms nothing.
LEMMA RequestsPrepare ==
    ASSUME NEW c \in Handlers,
           \/ ReplaceUserRoles(c) \/ SetPrimaryRole(c) \/ ReplaceAuthorityUsers(c)
           \/ UpdateUserStatus(c) \/ DeleteUser(c) \/ CreateUser(c)
           \/ CreateAdmin(c) \/ CreateDefaultAdmin(c) \/ RemoveAdmin(c)
           \/ AssignPermissions(c) \/ ReplaceAuthorityPolicies(c)
           \/ SeedRoles(c) \/ SeedCasbinPolicies(c)
    PROVE  \E t : IsChange(t) /\ t.arms = FALSE /\ Prepare(c, t)
<1> USE DEF IsChange
<1>1. CASE ReplaceUserRoles(c)
  <2>1. PICK u \in Accounts, roles \in SUBSET Roles, wanted \in Roles \union {"none", "keep"} :
            Prepare(c, [NoChange EXCEPT
                !.drop = {u} \X (RolesOf(u) \ roles),
                !.add = {u} \X (roles \ RolesOf(u)),
                !.primary[u] = ResolvedPrimary(u, roles, wanted)])
      BY <1>1 DEF ReplaceUserRoles
  <2> DEFINE t == [NoChange EXCEPT
                !.drop = {u} \X (RolesOf(u) \ roles),
                !.add = {u} \X (roles \ RolesOf(u)),
                !.primary[u] = ResolvedPrimary(u, roles, wanted)]
  <2>2. IsChange(t) /\ t.arms = FALSE BY DEF NoChange
  <2> QED BY <2>1, <2>2
<1>2. CASE SetPrimaryRole(c) BY <1>2 DEF SetPrimaryRole, NoChange
<1>3. CASE ReplaceAuthorityUsers(c)
  <2>1. PICK r \in Roles, users \in SUBSET Accounts :
            Prepare(c, [NoChange EXCEPT !.drop = (Holders(r) \ users) \X {r},
                                        !.add = (users \ Holders(r)) \X {r}])
      BY <1>3 DEF ReplaceAuthorityUsers
  <2> DEFINE t == [NoChange EXCEPT !.drop = (Holders(r) \ users) \X {r},
                                   !.add = (users \ Holders(r)) \X {r}]
  <2>2. IsChange(t) /\ t.arms = FALSE BY DEF NoChange
  <2> QED BY <2>1, <2>2
<1>4. CASE UpdateUserStatus(c) BY <1>4 DEF UpdateUserStatus, NoChange
<1>5. CASE DeleteUser(c)
  <2>1. PICK u \in Accounts, hard \in BOOLEAN :
            Prepare(c, [NoChange EXCEPT
                !.status[u] = IF hard THEN "purged" ELSE "gone",
                !.primary[u] = IF hard THEN "none" ELSE "keep",
                !.drop = IF hard THEN {u} \X RolesOf(u) ELSE {}])
      BY <1>5 DEF DeleteUser
  <2> DEFINE t == [NoChange EXCEPT
                !.status[u] = IF hard THEN "purged" ELSE "gone",
                !.primary[u] = IF hard THEN "none" ELSE "keep",
                !.drop = IF hard THEN {u} \X RolesOf(u) ELSE {}]
  <2>2. IsChange(t) /\ t.arms = FALSE BY DEF NoChange
  <2> QED BY <2>1, <2>2
<1>6. CASE CreateUser(c)
  <2>1. PICK u \in Accounts, status \in {"active", "inactive"} :
            Prepare(c, [NoChange EXCEPT !.status[u] = status, !.new = {u}])
      BY <1>6 DEF CreateUser
  <2> DEFINE t == [NoChange EXCEPT !.status[u] = status, !.new = {u}]
  <2>2. IsChange(t) /\ t.arms = FALSE BY DEF NoChange
  <2> QED BY <2>1, <2>2
<1>7. \A u \in Accounts : IsChange(Promotion(u)) /\ Promotion(u).arms = FALSE
    BY DEF Promotion, NoChange
<1>8. CASE CreateAdmin(c) \/ CreateDefaultAdmin(c)
    BY <1>7, <1>8 DEF CreateAdmin, CreateDefaultAdmin
<1>9. CASE RemoveAdmin(c) BY <1>9 DEF RemoveAdmin, NoChange
<1>10. CASE AssignPermissions(c) \/ SeedRoles(c)
    BY <1>10 DEF AssignPermissions, SeedRoles, NoChange
<1>11. CASE ReplaceAuthorityPolicies(c) \/ SeedCasbinPolicies(c)
    BY <1>11 DEF ReplaceAuthorityPolicies, SeedCasbinPolicies, NoChange
<1> QED BY <1>1, <1>2, <1>3, <1>4, <1>5, <1>6, <1>8, <1>9, <1>10, <1>11

\* What a transaction sees, and whether it is harmless, depends on db and on it.
LEMMA SameView ==
    ASSUME NEW o \in Handlers, db' = db, tx'[o] = tx[o]
    PROVE  /\ RecoveryAdministrator(View(tx[o]))' <=> RecoveryAdministrator(View(tx[o]))
           /\ Harmless(tx[o])' <=> Harmless(tx[o])
<1>1. View(tx[o])' = View(tx[o])
    BY DEF View, Deleted
<1>2. Harmless(tx[o])' <=> Harmless(tx[o])
    BY DEF Harmless, TouchesPolicies
<1> QED BY <1>1, <1>2 DEF RecoveryAdministrator

\* A step that commits nothing moves neither db nor what a transaction sees.
LEMMA PreparesKeep ==
    ASSUME IInv, NEW c \in Handlers, NEW t, IsChange(t), t.arms = FALSE, Prepare(c, t)
    PROVE  IInv'
<1> USE DEF IInv, Prepare
<1>1. step[c] = "idle" /\ c \notin guard
    BY DEF HoldersCommit
<1>2. \A o \in Handlers : o # c => step'[o] = step[o] /\ tx'[o] = tx[o]
    BY DEF Shape
<1>3. step'[c] = "write" /\ tx'[c] = t
    BY DEF Shape
<1>4. Shape'
    BY <1>2, <1>3 DEF Shape, IsChange
<1>5. OneHolder' /\ HoldersCommit'
    BY <1>1, <1>2, <1>3 DEF OneHolder, HoldersCommit
<1>6. NoConflicts'
    BY <1>2, <1>3 DEF NoConflicts, Open, Conflict, Touches, TouchesPolicies
<1>7. CommitsAreValid'
    BY <1>1, <1>2, <1>3, SameView DEF CommitsAreValid
<1>8. AdministratorRemains'
    BY DEF AdministratorRemains, RecoveryAdministrator
<1> QED BY <1>4, <1>5, <1>6, <1>7, <1>8

\* A transaction that has written conflicts with no other open one.
LEMMA WriteKeeps ==
    ASSUME IInv, NEW c \in Handlers, Write(c)
    PROVE  IInv'
<1> USE DEF IInv, Write
<1>1. c \notin guard
    BY DEF HoldersCommit
<1>2. \A o \in Handlers : o # c => step'[o] = step[o]
    BY DEF Shape
<1>3. step'[c] \in {"guard", "commit"} /\ (step'[c] = "commit" => ~Guarded(tx[c]))
    BY DEF Shape
<1>4. Shape' /\ OneHolder' /\ HoldersCommit'
    BY <1>1, <1>2 DEF Shape, OneHolder, HoldersCommit
<1>5. NoConflicts'
  <2> SUFFICES ASSUME NEW o \in Handlers, NEW p \in Handlers, o # p, Open(o)', Open(p)'
               PROVE  ~Conflict(tx[o], tx[p])
      BY DEF NoConflicts, Conflict, Touches, TouchesPolicies
  <2>1. \A q \in Handlers : q # c /\ Open(q)' => Open(q) /\ ~Conflict(tx[c], tx[q])
      BY <1>2 DEF Open
  <2>2. CASE o = c BY <2>1, <2>2
  <2>3. CASE p = c BY <2>1, <2>3 DEF Conflict
  <2>4. CASE o # c /\ p # c BY <2>1, <2>4 DEF NoConflicts
  <2> QED BY <2>2, <2>3, <2>4
<1>6. ~Guarded(tx[c]) => Harmless(tx[c])
    BY DEF Guarded, Harmless
<1>7. CommitsAreValid'
    BY <1>1, <1>2, <1>3, <1>6, SameView DEF CommitsAreValid
<1>8. AdministratorRemains'
    BY DEF AdministratorRemains, RecoveryAdministrator
<1> QED BY <1>4, <1>5, <1>7, <1>8

\* Who takes the row of the guard has been told that an administrator is left.
LEMMA ValidateKeeps ==
    ASSUME IInv, NEW c \in Handlers, Validate(c)
    PROVE  IInv'
<1> DEFINE left == RecoveryAdministrator(View(tx[c]))
<1> USE DEF IInv, Validate
<1>1. \A o \in Handlers : o # c => step'[o] = step[o] /\ tx'[o] = tx[o]
    BY DEF Shape
<1>2. step'[c] = "commit" /\ tx'[c] = [tx[c] EXCEPT !.arms = left]
    BY DEF Shape
<1>3. /\ tx'[c].status = tx[c].status /\ tx'[c].drop = tx[c].drop /\ tx'[c].add = tx[c].add
      /\ tx'[c].primary = tx[c].primary /\ tx'[c].manage = tx[c].manage
      /\ tx'[c].policy = tx[c].policy /\ tx'[c].arms = left /\ IsChange(tx'[c])
    BY <1>2 DEF Shape, IsChange
<1>4. guard = {} /\ guard' = {c}
    BY DEF GuardFree
<1>5. left \in BOOLEAN
    BY DEF RecoveryAdministrator
<1>6. Shape' /\ OneHolder'
    BY <1>1, <1>3, <1>4 DEF Shape, OneHolder, IsChange
<1>7. HoldersCommit'
    BY <1>1, <1>2, <1>3, <1>4, <1>5 DEF HoldersCommit
<1>8. NoConflicts'
  <2>1. \A o \in Handlers : Open(o)' => Open(o)
      BY <1>1 DEF Open
  <2>2. \A o \in Handlers : Touches(tx'[o]) = Touches(tx[o])
    <3>1. Touches(tx'[c]) = Touches(tx[c])
        BY <1>3 DEF Touches
    <3> QED BY <3>1, <1>1
  <2>3. \A o \in Handlers : TouchesPolicies(tx'[o]) <=> TouchesPolicies(tx[o])
      BY <1>1, <1>3 DEF TouchesPolicies
  <2>4. \A o, p \in Handlers : Conflict(tx'[o], tx'[p]) <=> Conflict(tx[o], tx[p])
      BY <2>2, <2>3 DEF Conflict
  <2>5. \A o, p \in Handlers : Conflict(tx[o], tx[p])' <=> Conflict(tx'[o], tx'[p])
      BY DEF Conflict, Touches, TouchesPolicies
  <2> QED BY <2>1, <2>4, <2>5 DEF NoConflicts
<1>9. CommitsAreValid'
  <2>1. View(tx[c])' = View(tx[c])
      BY <1>3 DEF View, Deleted
  <2>2. RecoveryAdministrator(View(tx[c]))' <=> left
      BY <2>1 DEF RecoveryAdministrator
  <2>3. \A o \in Handlers : o # c /\ step[o] = "commit" => o \notin guard' /\ Harmless(tx[o])'
      BY <1>1, <1>4, SameView DEF CommitsAreValid
  <2> QED BY <1>1, <1>3, <1>4, <2>2, <2>3 DEF CommitsAreValid
<1>10. AdministratorRemains'
    BY DEF AdministratorRemains, RecoveryAdministrator
<1> QED BY <1>6, <1>7, <1>8, <1>9, <1>10

\* What is committed while another holds the guard: a harmless change leaves
\* every administrator that was there.
LEMMA HarmlessCommits ==
    ASSUME IInv, NEW c \in Handlers, step[c] = "commit", c \notin guard, db' = View(tx[c])
    PROVE  /\ RecoveryAdministrator(db) => RecoveryAdministrator(db')
           /\ db'.roles = db.roles /\ db'.manage = db.manage /\ db'.policy = db.policy
           /\ \A u \in Accounts : db.status[u] # "none" => db'.status[u] = db.status[u]
<1> USE DEF IInv
<1>1. Harmless(tx[c])
    BY DEF CommitsAreValid
<1>2. db'.roles = db.roles
    BY <1>1 DEF Harmless, View
<1>3. db'.manage = db.manage /\ db'.policy = db.policy
    BY <1>1 DEF Harmless, View, TouchesPolicies, Chosen
<1>4. \A u \in Accounts : db.status[u] # "none" => db'.status[u] = db.status[u]
    BY <1>1 DEF Harmless, View, Chosen
<1>5. RecoveryAdministrator(db) => RecoveryAdministrator(db')
    BY <1>2, <1>3, <1>4 DEF RecoveryAdministrator
<1> QED BY <1>2, <1>3, <1>4, <1>5

\* The end of a transaction: what it leaves is what it saw, and the guard is free.
LEMMA CommitKeeps ==
    ASSUME IInv, NEW c \in Handlers, Commit(c)
    PROVE  IInv'
<1> USE DEF IInv, Commit, Done
<1>1. \A o \in Handlers : o # c => step'[o] = step[o] /\ tx'[o] = tx[o]
    BY DEF Shape
<1>2. step'[c] = "idle" /\ tx'[c] = NoChange
    BY DEF Shape
<1>3. Shape' /\ OneHolder'
  <2>1. step' = [o \in Handlers |-> step'[o]] /\ tx' = [o \in Handlers |-> tx'[o]]
      BY DEF Shape
  <2>2. IsChange(NoChange)
      BY DEF IsChange, NoChange
  <2>3. \A o \in Handlers : IsChange(tx[o])'
      BY <1>1, <1>2, <2>2 DEF Shape, IsChange
  <2>4. guard' \subseteq Handlers /\ OneHolder'
      BY DEF Shape, OneHolder
  <2>5. tx[c].arms \in BOOLEAN /\ armed \in BOOLEAN
      BY DEF Shape, HoldersCommit
  <2>6. armed' \in BOOLEAN
      BY <2>5
  <2> QED BY <2>1, <2>3, <2>4, <2>6 DEF Shape
<1>4. HoldersCommit'
  <2>1. tx'[c].arms = FALSE
      BY <1>2 DEF NoChange
  <2> QED BY <1>1, <1>2, <2>1 DEF HoldersCommit
<1>5. NoConflicts'
  <2> SUFFICES ASSUME NEW a \in Handlers, NEW b \in Handlers, Open(a)', Open(b)', a # b
               PROVE  ~Conflict(tx[a], tx[b])'
      BY DEF NoConflicts
  <2>1. a # c /\ b # c BY <1>2 DEF Open
  <2>2. tx'[a] = tx[a] /\ tx'[b] = tx[b] /\ Open(a) /\ Open(b)
      BY <1>1, <1>2, <2>1 DEF Open
  <2>3. ~Conflict(tx[a], tx[b]) BY <2>2 DEF NoConflicts
  <2> QED BY <2>2, <2>3 DEF Conflict, Touches, TouchesPolicies
<1>6. CommitsAreValid'
  <2> SUFFICES ASSUME NEW o \in Handlers, o # c, step[o] = "commit"
               PROVE  \/ o \notin guard' /\ Harmless(tx[o])'
                      \/ /\ o \in guard'
                         /\ (armed \/ tx[o].arms)' => RecoveryAdministrator(View(tx[o]))'
      BY <1>1, <1>2 DEF CommitsAreValid
  <2>1. tx'[o] = tx[o]
      BY <1>1
  <2>2. \A u \in Touches(tx[o]) : db'.status[u] = db.status[u]
    <3>1. Touches(tx[c]) \intersect Touches(tx[o]) = {}
        BY DEF NoConflicts, Open, Conflict
    <3>2. \A u \in Touches(tx[o]) : u \in Accounts /\ tx[c].status[u] = "keep"
        BY <3>1 DEF Touches
    <3> QED BY <3>2 DEF View, Chosen
  <2>3. CASE o \notin guard
    <3>1. Harmless(tx[o])
        BY <2>3 DEF CommitsAreValid
    <3>2. \A u \in Accounts : tx[o].status[u] # "keep" => u \in Touches(tx[o])
        BY DEF Touches
    <3>3. Harmless(tx[o])'
        BY <2>1, <2>2, <3>1, <3>2 DEF Harmless, TouchesPolicies
    <3> QED BY <2>3, <3>3
  <2>4. CASE o \in guard
    <3>1. c \notin guard /\ armed' = armed /\ o \in guard'
        BY <2>4 DEF OneHolder, HoldersCommit, Shape
    <3>2. /\ db'.roles = db.roles /\ db'.manage = db.manage /\ db'.policy = db.policy
          /\ \A u \in Accounts : db.status[u] # "none" => db'.status[u] = db.status[u]
        BY <3>1, HarmlessCommits
    <3>3. /\ View(tx[o])'.roles = View(tx[o]).roles
          /\ View(tx[o])'.manage = View(tx[o]).manage
          /\ View(tx[o])'.policy = View(tx[o]).policy
        BY <2>1, <3>2 DEF View
    <3>4. ASSUME NEW u \in Accounts, View(tx[o]).status[u] = "active"
          PROVE  View(tx[o])'.status[u] = "active"
      <4>1. CASE u \in Touches(tx[o])
          BY <2>1, <2>2, <3>4, <4>1 DEF View, Deleted
      <4>2. CASE u \notin Touches(tx[o])
          BY <2>1, <3>2, <3>4, <4>2 DEF View, Deleted, Chosen, Touches
      <4> QED BY <4>1, <4>2
    <3>5. RecoveryAdministrator(View(tx[o])) => RecoveryAdministrator(View(tx[o]))'
        BY <3>3, <3>4 DEF RecoveryAdministrator
    <3> QED BY <2>1, <2>4, <3>1, <3>5 DEF CommitsAreValid
  <2> QED BY <2>3, <2>4
<1>7. AdministratorRemains'
  <2>1. CASE c \in guard
      BY <2>1 DEF CommitsAreValid, AdministratorRemains, RecoveryAdministrator
  <2>2. CASE c \notin guard
      BY <2>2, HarmlessCommits DEF HoldersCommit, AdministratorRemains, RecoveryAdministrator
  <2> QED BY <2>1, <2>2
<1> QED BY <1>3, <1>4, <1>5, <1>6, <1>7

\* A transaction that is undone leaves what the others were promised.
LEMMA RollBackKeeps ==
    ASSUME IInv, NEW c \in Handlers, RollBack(c)
    PROVE  IInv'
<1> USE DEF IInv, RollBack, Done
<1>1. \A o \in Handlers : o # c => step'[o] = step[o] /\ tx'[o] = tx[o]
    BY DEF Shape
<1>2. step'[c] = "idle" /\ tx'[c] = NoChange /\ tx'[c].arms = FALSE
    BY DEF Shape, NoChange
<1>3. Shape' /\ OneHolder'
    BY <1>1, <1>2 DEF Shape, OneHolder, IsChange, NoChange
<1>4. HoldersCommit'
    BY <1>1, <1>2 DEF HoldersCommit
<1>5. NoConflicts'
  <2>1. \A o \in Handlers : Open(o)' => o # c /\ Open(o) /\ tx'[o] = tx[o]
      BY <1>1, <1>2 DEF Open
  <2> QED BY <2>1 DEF NoConflicts, Conflict, Touches, TouchesPolicies
<1>6. CommitsAreValid'
    BY <1>1, <1>2, SameView DEF CommitsAreValid
<1>7. AdministratorRemains'
    BY DEF AdministratorRemains, RecoveryAdministrator
<1> QED BY <1>3, <1>4, <1>5, <1>6, <1>7

\* An unseeded database arms nothing, a seeded one has its administrator.
LEMMA Initially == Init => IInv
<1> SUFFICES ASSUME Init PROVE IInv
    OBVIOUS
<1>1. Shape
    BY DEF Init, Shape, IsChange, NoChange
<1>2. OneHolder /\ NoConflicts /\ CommitsAreValid
    BY DEF Init, OneHolder, NoConflicts, Open, CommitsAreValid
<1>3. HoldersCommit
    BY DEF Init, HoldersCommit, NoChange
<1>4. AdministratorRemains
  <2> SUFFICES ASSUME armed PROVE RecoveryAdministrator(db)
      BY DEF AdministratorRemains
  <2>1. PICK admins \in SUBSET Accounts : admins # {} /\ db = SeededWith(admins)
      BY DEF Init
  <2>2. PICK u \in Accounts : u \in admins
      BY <2>1
  <2>3. db.status[u] = "active" /\ <<u, Admin>> \in db.roles
      BY <2>1, <2>2 DEF SeededWith
  <2>4. db.manage = "on" /\ db.policy = "on"
      BY <2>1 DEF SeededWith
  <2> QED BY <2>2, <2>3, <2>4 DEF RecoveryAdministrator
<1> QED BY <1>1, <1>2, <1>3, <1>4 DEF IInv

\* The invariant is inductive.
LEMMA EveryStep == IInv /\ [Next]_adminVars => IInv'
<1> SUFFICES ASSUME IInv, [Next]_adminVars PROVE IInv'
    OBVIOUS
<1>1. CASE UNCHANGED adminVars
  <2>1. db' = db /\ armed' = armed /\ guard' = guard /\ step' = step /\ tx' = tx
      BY <1>1 DEF adminVars
  <2>2. \A o \in Handlers :
            /\ RecoveryAdministrator(View(tx[o]))' <=> RecoveryAdministrator(View(tx[o]))
            /\ Harmless(tx[o])' <=> Harmless(tx[o])
      BY <2>1, SameView
  <2>3. Shape' /\ OneHolder' /\ HoldersCommit'
      BY <2>1 DEF IInv, Shape, OneHolder, HoldersCommit
  <2>4. NoConflicts'
      BY <2>1 DEF IInv, NoConflicts, Open, Conflict, Touches, TouchesPolicies
  <2>5. CommitsAreValid' BY <2>1, <2>2 DEF IInv, CommitsAreValid
  <2>6. AdministratorRemains'
      BY <2>1 DEF IInv, AdministratorRemains, RecoveryAdministrator
  <2> QED BY <2>3, <2>4, <2>5, <2>6 DEF IInv
<1>2. ASSUME NEW c \in Handlers,
             \/ ReplaceUserRoles(c) \/ SetPrimaryRole(c) \/ ReplaceAuthorityUsers(c)
             \/ UpdateUserStatus(c) \/ DeleteUser(c) \/ CreateUser(c)
             \/ CreateAdmin(c) \/ CreateDefaultAdmin(c) \/ RemoveAdmin(c)
             \/ AssignPermissions(c) \/ ReplaceAuthorityPolicies(c)
             \/ SeedRoles(c) \/ SeedCasbinPolicies(c)
      PROVE  IInv'
    BY <1>2, RequestsPrepare, PreparesKeep
<1>3. ASSUME NEW c \in Handlers, Write(c) PROVE IInv'
    BY <1>3, WriteKeeps
<1>4. ASSUME NEW c \in Handlers, Validate(c) PROVE IInv'
    BY <1>4, ValidateKeeps
<1>5. ASSUME NEW c \in Handlers, Commit(c) PROVE IInv'
    BY <1>5, CommitKeeps
<1>6. ASSUME NEW c \in Handlers, RollBack(c) PROVE IInv'
    BY <1>6, RollBackKeeps
<1> QED BY <1>1, <1>2, <1>3, <1>4, <1>5, <1>6 DEF Next

\* With any number of users, roles and requests, once a recovery administrator
\* has existed one always does: whoever commits a change the guard watches has
\* held its row since the guard looked.
THEOREM AdministratorAlways == Spec => []AdministratorRemains
<1>1. IInv => AdministratorRemains
    BY DEF IInv
<1> QED BY Initially, EveryStep, <1>1, PTL DEF Spec
=============================================================================
