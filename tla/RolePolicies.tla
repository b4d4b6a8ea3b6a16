----------------------------- MODULE RolePolicies -----------------------------
(* One custom role of account-center: its row, its permissions, the Casbin rules
   made from them, and the rules this process enforces.  A request changes
   permissions and rules in transactions of their own, then reloads the
   enforcer; when a step fails it puts back what it had read.
   A permission stands for the rules it manages, Own for a rule set by hand. *)
EXTENDS Naturals

CONSTANTS
    Handlers,       \* requests at once (a bound)
    Permissions,
    Own,
    MaxAsked        \* bound: requests ever made

VARIABLES
    role, perms, rules,   \* roles, role_permissions, casbin_rule
    loaded,               \* the rules of the enforcer
    rPc, r,               \* the step of every request and what it has read
    was,                  \* history: what a request has found that overlapped none
    asked

policyVars == <<role, perms, rules, loaded, rPc, r, was, asked>>

Rules == Permissions \union {Own}
Idle == [kind |-> "none", new |-> {}, perms |-> {}, rules |-> {}]
Nothing == [live |-> FALSE]
Live == role = "live"
Goto(j, step) == rPc' = [rPc EXCEPT ![j] = step]

Init ==
    /\ role \in {"none", "live"}
    /\ perms \in IF Live THEN SUBSET Permissions ELSE {{}}
    /\ rules \in IF Live THEN {perms, perms \union {Own}} ELSE {{}}
    /\ loaded = rules
    /\ rPc = [j \in Handlers |-> "idle"] /\ r = [j \in Handlers |-> Idle]
    /\ was = [j \in Handlers |-> Nothing]
    /\ asked = 0

-----------------------------------------------------------------------------
Begin(j, kind, new) ==
    /\ rPc[j] = "idle" /\ asked < MaxAsked
    /\ asked' = asked + 1
    /\ r' = [r EXCEPT ![j] = [kind |-> kind, new |-> new, perms |-> perms, rules |-> {}]]
    /\ was' = [k \in Handlers |->
                 IF k = j /\ \A o \in Handlers \ {j} : rPc[o] = "idle"
                 THEN [live |-> Live, perms |-> perms, rules |-> rules] ELSE Nothing]
    /\ UNCHANGED <<rules, loaded>>

CreateAuthority(j) ==
    \E new \in SUBSET Permissions :
        /\ role = "none"
        /\ Begin(j, "create", new)
        /\ role' = "live" /\ perms' = new
        /\ Goto(j, IF new = {} THEN "ok" ELSE "sync")

\* The other requests read the role, and what they may have to put back.
LoadRole(j) ==
    \E kind \in {"update", "assign", "delete", "replace"}, new \in SUBSET Rules :
        /\ Live
        /\ kind = "assign" => new \subseteq Permissions
        /\ kind \in {"update", "delete"} => new = {}
        /\ Begin(j, kind, new)
        /\ Goto(j, IF kind = "replace" THEN "sync" ELSE kind)
        /\ UNCHANGED <<role, perms>>

\* Save is an upsert: it brings a role back that was deleted meanwhile.
UpdateAuthority(j) ==
    /\ rPc[j] = "update"
    /\ role' = "live"
    /\ Goto(j, "ok")
    /\ UNCHANGED <<perms, rules, loaded, r, was, asked>>

AssignPermissions(j) ==
    /\ rPc[j] = "assign"
    /\ IF Live THEN perms' = r[j].new /\ Goto(j, "sync") ELSE UNCHANGED perms /\ Goto(j, "failed")
    /\ UNCHANGED <<role, rules, loaded, r, was, asked>>

DeleteAuthority(j) ==
    /\ rPc[j] = "delete"
    /\ role' = "gone" /\ perms' = {}
    /\ Goto(j, "sync")
    /\ UNCHANGED <<rules, loaded, r, was, asked>>

-----------------------------------------------------------------------------
\* After a failure: the permissions are put back, if the request changed them.
Failed(j) == IF r[j].kind = "replace" THEN "failed" ELSE "undo"

\* A sync and a replacement want a live role; all note the rules there are.
LoadRules(j) ==
    /\ rPc[j] = "sync"
    /\ Goto(j, IF Live \/ r[j].kind = "delete" THEN "merge" ELSE Failed(j))
    /\ r' = [r EXCEPT ![j].rules = rules]
    /\ UNCHANGED <<role, perms, rules, loaded, was, asked>>

AllRules == rules
OwnRules == rules \ Permissions

\* mergeCustomAndManagedPolicies: reads again, within the transaction.
MergePolicies(j) ==
    /\ rPc[j] = "merge"
    /\ r' = [r EXCEPT ![j].new =
                CASE r[j].kind = "delete" -> {}
                  [] r[j].kind = "replace" -> @
                  [] OTHER -> OwnRules \union perms]
    /\ Goto(j, "write")
    /\ UNCHANGED <<role, perms, rules, loaded, was, asked>>

WriteRules(j) ==
    /\ rPc[j] = "write"
    /\ \/ rules' = r[j].new /\ Goto(j, "load")
       \/ UNCHANGED rules /\ Goto(j, Failed(j))
    /\ UNCHANGED <<role, perms, loaded, r, was, asked>>

\* LoadPolicy keeps the rules it has when it fails.
LoadPolicy(j) ==
    /\ rPc[j] = "load"
    /\ \/ loaded' = rules /\ Goto(j, "ok")
       \/ UNCHANGED loaded /\ Goto(j, "restore")
    /\ UNCHANGED <<role, perms, rules, r, was, asked>>

\* A request that cannot restore leaves what it leaves.
Excuse(j) == was' = [was EXCEPT ![j] = Nothing]

RestoreRules(j) ==
    /\ rPc[j] = "restore"
    /\ \/ rules' = r[j].rules /\ Goto(j, "reload") /\ UNCHANGED was
       \/ UNCHANGED rules /\ Goto(j, Failed(j)) /\ Excuse(j)
    /\ UNCHANGED <<role, perms, loaded, r, asked>>

Reload(j) ==
    /\ rPc[j] = "reload"
    /\ loaded' \in {rules, loaded}
    /\ Goto(j, Failed(j))
    /\ UNCHANGED <<role, perms, rules, r, was, asked>>

NowAssigned(j) == perms
Previous(j) == r[j].perms

Undo(j) ==
    /\ rPc[j] = "undo"
    /\ \/ /\ perms' = CASE r[j].kind = "create" -> {}
                        [] r[j].kind = "assign" -> Previous(j)
                        [] OTHER -> perms \union r[j].perms
          /\ role' = CASE r[j].kind = "create" -> "gone"
                       [] r[j].kind = "delete" -> "live"
                       [] OTHER -> role
          /\ UNCHANGED was
       \/ UNCHANGED <<role, perms>> /\ Excuse(j)
    /\ Goto(j, "failed")
    /\ UNCHANGED <<rules, loaded, r, asked>>

Finish(j) ==
    /\ rPc[j] \in {"ok", "failed"}
    /\ Goto(j, "idle")
    /\ r' = [r EXCEPT ![j] = Idle]
    /\ was' = [was EXCEPT ![j] = Nothing]
    /\ UNCHANGED <<role, perms, rules, loaded, asked>>

\* The process dies, starts again and loads the rules there are.
InitEnforcer ==
    /\ rPc' = [j \in Handlers |-> "idle"] /\ r' = [j \in Handlers |-> Idle]
    /\ was' = [j \in Handlers |-> Nothing]
    /\ loaded' = rules
    /\ UNCHANGED <<role, perms, rules, asked>>

Next ==
    \/ InitEnforcer
    \/ \E j \in Handlers :
        \/ CreateAuthority(j) \/ LoadRole(j) \/ UpdateAuthority(j) \/ AssignPermissions(j)
        \/ DeleteAuthority(j) \/ LoadRules(j) \/ MergePolicies(j) \/ WriteRules(j)
        \/ LoadPolicy(j) \/ RestoreRules(j) \/ Reload(j) \/ Undo(j) \/ Finish(j)

Spec == Init /\ [][Next]_policyVars

-----------------------------------------------------------------------------
\* A request that no other overlapped and that could restore what it had to
\* takes effect in full, in the rules enforced too, or leaves no trace.
RequestsAreAtomic ==
    \A j \in Handlers : was[j] # Nothing =>
        /\ rPc[j] = "failed" => was[j] = [live |-> Live, perms |-> perms, rules |-> rules]
        /\ rPc[j] = "ok" /\ r[j].kind # "update" => loaded = rules
        /\ rPc[j] = "ok" /\ r[j].kind \in {"create", "assign"} =>
            rules = perms \union (was[j].rules \ Permissions)
        /\ rPc[j] = "ok" /\ r[j].kind = "delete" => ~Live /\ rules = {}
=============================================================================
