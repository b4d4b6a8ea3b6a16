--------------------------- MODULE Administrators ---------------------------
(* Who administers account-center: users, their roles, and the guard that keeps
   a recovery administrator.  Every request is a READ COMMITTED transaction: it
   reads what is committed, its changes stay its own until it commits, and two
   transactions that change the rows of one user wait for each other.
   The guard is a set of deferred triggers of the database: before a
   transaction that may concern it commits, it takes the one row of admin_guard
   and asks whether an administrator would be left. *)
EXTENDS Naturals, FiniteSets

CONSTANTS
    Handlers,       \* requests at once (a bound)
    Accounts,
    Roles, Admin,
    MaxRequests     \* bound: requests ever made

VARIABLES
    db,         \* what is committed: [status, roles, primary, manage, policy]
    armed,      \* admin_guard.armed
    guard,      \* the transactions that hold the row of admin_guard
    step,       \* of every request
    tx,         \* the changes of its transaction: "keep" where it makes none
    prepared    \* requests that have begun

adminVars == <<db, armed, guard, step, tx, prepared>>

\* "gone" rows are deleted softly, "purged" ones are no more.
Statuses == {"none", "active", "inactive", "gone", "purged"}
Switch == {"on", "off"}
Memberships == Accounts \X Roles

NoChange == [status |-> [u \in Accounts |-> "keep"], new |-> {}, drop |-> {}, add |-> {},
             primary |-> [u \in Accounts |-> "keep"],
             manage |-> "keep", policy |-> "keep", arms |-> FALSE]

Chosen(new, old) == IF new = "keep" THEN old ELSE new

Deleted(u) == db.status[u] \in {"gone", "purged"}

\* What the transaction t sees, and leaves when it commits; no statement of it
\* updates a deleted user.
View(t) ==
    [status  |-> [u \in Accounts |-> IF Deleted(u) THEN db.status[u]
                                     ELSE Chosen(t.status[u], db.status[u])],
     roles   |-> (db.roles \ t.drop) \union t.add,
     primary |-> [u \in Accounts |-> IF Deleted(u) THEN db.primary[u]
                                     ELSE Chosen(t.primary[u], db.primary[u])],
     manage  |-> Chosen(t.manage, db.manage),
     policy  |-> Chosen(t.policy, db.policy)]

Exists(u) == db.status[u] \in {"active", "inactive"}
RolesOf(u) == {r \in Roles : <<u, r>> \in db.roles}
Holders(r) == {u \in Accounts : <<u, r>> \in db.roles}

\* recovery_administrator_exists()
RecoveryAdministrator(d) ==
    /\ d.manage = "on" /\ d.policy = "on"
    /\ \E u \in Accounts : d.status[u] = "active" /\ <<u, Admin>> \in d.roles

Unseeded == [status |-> [u \in Accounts |-> "none"], roles |-> {},
             primary |-> [u \in Accounts |-> "none"], manage |-> "off", policy |-> "off"]

SeededWith(admins) ==
    [status |-> [u \in Accounts |-> IF u \in admins THEN "active" ELSE "none"],
     roles |-> admins \X {Admin}, primary |-> [u \in Accounts |-> "none"],
     manage |-> "on", policy |-> "on"]

Init ==
    /\ armed \in BOOLEAN
    /\ \E admins \in SUBSET Accounts :
        admins # {} /\ db = IF armed THEN SeededWith(admins) ELSE Unseeded
    /\ guard = {} /\ prepared = 0
    /\ step = [c \in Handlers |-> "idle"] /\ tx = [c \in Handlers |-> NoChange]

-----------------------------------------------------------------------------
\* A request has read what it needs, and knows the changes t it will make.
Prepare(c, t) ==
    /\ step[c] = "idle" /\ prepared < MaxRequests
    /\ prepared' = prepared + 1
    /\ step' = [step EXCEPT ![c] = "write"]
    /\ tx' = [tx EXCEPT ![c] = t]
    /\ UNCHANGED <<db, armed, guard>>

\* resolvePrimaryRole; "none" clears, "keep" stands for no choice.
ResolvedPrimary(u, roles, wanted) ==
    IF wanted # "keep" THEN wanted
    ELSE IF db.primary[u] \in roles THEN db.primary[u] ELSE "none"

ReplaceUserRoles(c) ==
    \E u \in Accounts, roles \in SUBSET Roles, wanted \in Roles \union {"none", "keep"} :
        /\ Exists(u) /\ (wanted \in Roles => wanted \in roles)
        /\ Prepare(c, [NoChange EXCEPT
                !.drop = {u} \X (RolesOf(u) \ roles),
                !.add = {u} \X (roles \ RolesOf(u)),
                !.primary[u] = ResolvedPrimary(u, roles, wanted)])

SetPrimaryRole(c) ==
    \E u \in Accounts, wanted \in Roles \union {"none", "keep"} :
        /\ Exists(u) /\ (wanted \in Roles => wanted \in RolesOf(u))
        /\ Prepare(c, [NoChange EXCEPT !.primary[u] = ResolvedPrimary(u, RolesOf(u), wanted)])

\* ReplaceAuthorityUsers: the holders of a role; that of Admin only by one of them.
ReplaceAuthorityUsers(c) ==
    \E r \in Roles, users \in SUBSET Accounts, actor \in Accounts :
        /\ \A u \in users : Exists(u)
        /\ r = Admin => /\ db.status[actor] = "active" /\ actor \in Holders(r)
                        /\ \E u \in users : db.status[u] = "active"
        /\ Prepare(c, [NoChange EXCEPT !.drop = (Holders(r) \ users) \X {r},
                                       !.add = (users \ Holders(r)) \X {r}])

UpdateUserStatus(c) ==
    \E u \in Accounts, status \in {"active", "inactive"} :
        /\ Exists(u)
        /\ Prepare(c, [NoChange EXCEPT !.status[u] = status])

\* DeleteUser: softly, or with every row of the user.
DeleteUser(c) ==
    \E u \in Accounts, hard \in BOOLEAN :
        /\ Exists(u)
        /\ Prepare(c, [NoChange EXCEPT
                !.status[u] = IF hard THEN "purged" ELSE "gone",
                !.primary[u] = IF hard THEN "none" ELSE "keep",
                !.drop = IF hard THEN {u} \X RolesOf(u) ELSE {}])

CreateUser(c) ==
    \E u \in Accounts, status \in {"active", "inactive"} :
        /\ db.status[u] = "none"
        /\ Prepare(c, [NoChange EXCEPT !.status[u] = status, !.new = {u}])

\* createAdmin of the command line promotes a user, or makes an administrator;
\* at the start one is made when there is none.
Promotion(u) ==
    [NoChange EXCEPT !.status[u] = IF Exists(u) THEN "keep" ELSE "active",
                     !.new = IF Exists(u) THEN {} ELSE {u},
                     !.add = {<<u, Admin>>}]

CreateAdmin(c) ==
    \E u \in Accounts :
        ~Deleted(u) /\ <<u, Admin>> \notin db.roles /\ Prepare(c, Promotion(u))

CreateDefaultAdmin(c) ==
    \E u \in Accounts :
        db.status[u] = "none" /\ ~RecoveryAdministrator(db) /\ Prepare(c, Promotion(u))

\* removeAdmin of the command line counts the administrators before it asks.
RemoveAdmin(c) ==
    \E u \in Holders(Admin) :
        /\ Cardinality(Holders(Admin)) > 1
        /\ Prepare(c, [NoChange EXCEPT !.drop = {<<u, Admin>>}])

\* AssignPermissions and its restore: does Admin have role:manage?
AssignPermissions(c) ==
    \E value \in Switch : Prepare(c, [NoChange EXCEPT !.manage = value])

\* Every replacement of Admin's policies: may it still manage the roles?
ReplaceAuthorityPolicies(c) ==
    \E value \in Switch : Prepare(c, [NoChange EXCEPT !.policy = value])

\* The seeds of every start give Admin both.
SeedRoles(c) == Prepare(c, [NoChange EXCEPT !.manage = "on"])
SeedCasbinPolicies(c) == Prepare(c, [NoChange EXCEPT !.policy = "on"])

-----------------------------------------------------------------------------
Touches(t) ==
    {u \in Accounts : \/ t.status[u] # "keep" \/ t.primary[u] # "keep"
                      \/ \E r \in Roles : <<u, r>> \in t.drop \union t.add}
TouchesPolicies(t) == t.manage # "keep" \/ t.policy # "keep"

Open(c) == step[c] \in {"guard", "commit"}
Conflict(t, o) ==
    \/ Touches(t) \intersect Touches(o) # {}
    \/ TouchesPolicies(t) /\ TouchesPolicies(o)

\* The unique rows, the keys of user_roles, and fk_users_primary_role_assignment:
\* a membership goes before the primary role is set, and RESTRICT checks at once.
Accepted(t) ==
    /\ t.add \intersect db.roles = {}
    /\ \A u \in t.new : db.status[u] = "none"
    /\ \A u \in Accounts, r \in Roles :
        /\ <<u, r>> \in t.add => View(t).status[u] \notin {"none", "purged"}
        /\ <<u, r>> \in t.drop /\ t.status[u] # "purged" => db.primary[u] # r
        /\ View(t).primary[u] = r => <<u, r>> \in View(t).roles

\* The triggers: a membership, a permission or a policy, the status of a user.
Guarded(t) ==
    \/ t.drop \union t.add # {} \/ TouchesPolicies(t)
    \/ \E u \in Accounts : t.status[u] # "keep" /\ db.status[u] \notin {"none", t.status[u]}

Write(c) ==
    /\ step[c] = "write" /\ Accepted(tx[c])
    /\ \A o \in Handlers \ {c} : Open(o) => ~Conflict(tx[c], tx[o])
    /\ step' = [step EXCEPT ![c] = IF Guarded(tx[c]) THEN "guard" ELSE "commit"]
    /\ UNCHANGED <<db, armed, guard, tx, prepared>>

GuardIgnored == TRUE
GuardFree == guard = {}

Done(c) == step' = [step EXCEPT ![c] = "idle"] /\ tx' = [tx EXCEPT ![c] = NoChange]

\* validate_active_administrator_guard()
Validate(c) ==
    LET left == RecoveryAdministrator(View(tx[c])) IN
    /\ step[c] = "guard" /\ GuardFree
    /\ ~armed \/ left
    /\ guard' = guard \union {c}
    /\ step' = [step EXCEPT ![c] = "commit"]
    /\ tx' = [tx EXCEPT ![c].arms = left]
    /\ UNCHANGED <<db, armed, prepared>>

Commit(c) ==
    /\ step[c] = "commit"
    /\ db' = View(tx[c])
    /\ armed' = (armed \/ tx[c].arms)
    /\ guard' = guard \ {c}
    /\ Done(c)
    /\ UNCHANGED prepared

\* A constraint or the guard refuses, the process dies, the request is abandoned.
RollBack(c) ==
    /\ step[c] # "idle"
    /\ guard' = guard \ {c}
    /\ Done(c)
    /\ UNCHANGED <<db, armed, prepared>>

Next ==
    \E c \in Handlers :
        \/ ReplaceUserRoles(c) \/ SetPrimaryRole(c) \/ ReplaceAuthorityUsers(c)
        \/ UpdateUserStatus(c) \/ DeleteUser(c) \/ CreateUser(c)
        \/ CreateAdmin(c) \/ CreateDefaultAdmin(c) \/ RemoveAdmin(c)
        \/ AssignPermissions(c) \/ ReplaceAuthorityPolicies(c)
        \/ SeedRoles(c) \/ SeedCasbinPolicies(c)
        \/ Write(c) \/ Validate(c) \/ Commit(c) \/ RollBack(c)

Spec == Init /\ [][Next]_adminVars

-----------------------------------------------------------------------------
\* Once there has been a recovery administrator there is always one, whatever
\* requests demote, suspend, delete and strip of permissions at the same time.
AdministratorRemains == armed => RecoveryAdministrator(db)
=============================================================================
