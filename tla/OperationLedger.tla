--------------------------- MODULE OperationLedger ---------------------------
(***************************************************************************)
(* The platform_operations ledger of platform-mihomo: one row per          *)
(* operation id, written by the concurrent Execute calls that serve        *)
(* account-center's requests and by the Resolve calls of its reconciler.   *)
(*                                                                         *)
(* Each action is one database transaction.  The execution token is a      *)
(* fresh UUID; it is modelled by the one call that holds it, or by Fenced  *)
(* when no call does (FailPending and Resolve draw a UUID they discard).   *)
(* The 30 s execution lease is a flag that time may clear.                 *)
(***************************************************************************)
EXTENDS Naturals

CONSTANTS
    Ops,              \* operation ids
    Refs,             \* operation tuples, [kind, pre, target]
    Calls,            \* Execute invocations, each used once
    Fenced,           \* the token no call holds
    Unconfirmed       \* calls whose commit may succeed and still be reported as an error

ASSUME FencedAssumption == Fenced \notin Calls
ASSUME UnconfirmedAssumption == Unconfirmed \subseteq Calls

VARIABLES
    state, ref, token, leased,   \* the row of each operation id
    pc, target,                  \* each Execute call: where it is, for which id
    effects,                     \* committed mutations per operation id
    answers,                     \* <<id, state>> pairs returned to callers
    errored                      \* calls that returned an error

rowVars == <<state, ref, token, leased>>
callVars == <<pc, target>>
vars == <<rowVars, callVars, effects, answers, errored>>

Terminal == {"succeeded", "failed", "not_received", "failed_input_required"}
States == Terminal \union {"absent", "pending"}
Steps == {"idle", "admitted", "locked", "failing", "done"}

SameGenerationKinds == {"APPLY_AUTHORIZATION_FENCE", "SET_PRIMARY_PROFILE"}

\* validateOperationRef: a fence or a primary-profile change keeps the
\* credential generation, every other operation advances it by one.
ValidRef(r) ==
    IF r.kind \in SameGenerationKinds THEN r.target = r.pre
                                      ELSE r.target = r.pre + 1

\* LockPending holds the row lock until its transaction ends.
RowLocked(o) == \E c \in Calls : pc[c] = "locked" /\ target[c] = o

Holds(c) == state[target[c]] = "pending" /\ token[target[c]] = c

Answer(o, s) == answers' = answers \union {<<o, s>>}

-----------------------------------------------------------------------------

Init ==
    /\ state = [o \in Ops |-> "absent"]
    /\ ref \in [Ops -> Refs]           \* meaningless while the row is absent
    /\ token = [o \in Ops |-> Fenced]
    /\ leased = [o \in Ops |-> FALSE]
    /\ pc = [c \in Calls |-> "idle"]
    /\ target \in [Calls -> Ops]
    /\ effects = [o \in Ops |-> 0]
    /\ answers = {}
    /\ errored = {}

\* INSERT ... ON CONFLICT DO NOTHING inserts the row: this call executes it.
AdmitNew(c, o, r) ==
    /\ pc[c] = "idle"
    /\ ValidRef(r)
    /\ state[o] = "absent"
    /\ state' = [state EXCEPT ![o] = "pending"]
    /\ ref' = [ref EXCEPT ![o] = r]
    /\ token' = [token EXCEPT ![o] = c]
    /\ leased' = [leased EXCEPT ![o] = TRUE]
    /\ pc' = [pc EXCEPT ![c] = "admitted"]
    /\ target' = [target EXCEPT ![c] = o]
    /\ UNCHANGED <<effects, answers, errored>>

AdmitExistingReexecutes(c, o, r) ==
    /\ pc[c] = "idle"
    /\ ValidRef(r)
    /\ state[o] # "absent" /\ ~RowLocked(o)
    /\ ref[o] = r
    /\ state' = [state EXCEPT ![o] = "pending"]
    /\ token' = [token EXCEPT ![o] = c]
    /\ pc' = [pc EXCEPT ![c] = "admitted"]
    /\ target' = [target EXCEPT ![c] = o]
    /\ UNCHANGED <<ref, leased, effects, answers, errored>>

\* The row exists: the call only reads it (SELECT ... FOR UPDATE), answers
\* with it when the tuple is the same and refuses the request otherwise.
AdmitExisting(c, o, r) ==
    /\ pc[c] = "idle"
    /\ ValidRef(r)
    /\ state[o] # "absent" /\ ~RowLocked(o)
    /\ IF ref[o] = r THEN Answer(o, state[o]) ELSE UNCHANGED answers
    /\ pc' = [pc EXCEPT ![c] = "done"]
    /\ target' = [target EXCEPT ![c] = o]
    /\ UNCHANGED <<rowVars, effects, errored>>

\* LockPending: go on only while the row is pending under this call's token.
LockPending(c) ==
    /\ pc[c] = "admitted"
    /\ pc' = [pc EXCEPT ![c] = IF Holds(c) THEN "locked" ELSE "failing"]
    /\ UNCHANGED <<rowVars, target, effects, answers, errored>>

\* The mutation and Complete commit in the transaction that holds the row.
Apply(o) ==
    /\ state' = [state EXCEPT ![o] = "succeeded"]
    /\ effects' = [effects EXCEPT ![o] = @ + 1]
    /\ UNCHANGED <<ref, token, leased>>

Commit(c) ==
    /\ pc[c] = "locked"
    /\ Apply(target[c])
    /\ Answer(target[c], "succeeded")
    /\ pc' = [pc EXCEPT ![c] = "done"]
    /\ UNCHANGED <<target, errored>>

\* The commit took effect but the connection broke before it was confirmed.
CommitUnconfirmed(c) ==
    /\ c \in Unconfirmed
    /\ pc[c] = "locked"
    /\ Apply(target[c])
    /\ pc' = [pc EXCEPT ![c] = "failing"]
    /\ UNCHANGED <<target, answers, errored>>

RollbackKeepsMutation(c) ==
    /\ pc[c] = "locked"
    /\ effects' = [effects EXCEPT ![target[c]] = @ + 1]
    /\ pc' = [pc EXCEPT ![c] = "failing"]
    /\ UNCHANGED <<rowVars, target, answers, errored>>

\* The mutation failed: the transaction is rolled back.
Rollback(c) ==
    /\ pc[c] = "locked"
    /\ pc' = [pc EXCEPT ![c] = "failing"]
    /\ UNCHANGED <<rowVars, target, effects, answers, errored>>

\* FailPending is a compare-and-set on the token.  Its own failure (a
\* cancelled request, a lost token) is ignored; the caller gets the error.
FailPending(c) ==
    /\ pc[c] = "failing"
    /\ \/ /\ Holds(c)
          /\ state' = [state EXCEPT ![target[c]] = "failed"]
          /\ token' = [token EXCEPT ![target[c]] = Fenced]
       \/ UNCHANGED <<state, token>>
    /\ errored' = errored \union {c}
    /\ pc' = [pc EXCEPT ![c] = "done"]
    /\ UNCHANGED <<ref, leased, target, effects, answers>>

\* The process dies, or its caller goes away: no answer, no more steps.
Crash(c) ==
    /\ pc[c] \in {"admitted", "locked", "failing"}
    /\ pc' = [pc EXCEPT ![c] = "done"]
    /\ UNCHANGED <<rowVars, target, effects, answers, errored>>

LeaseExpires(o) ==
    /\ state[o] = "pending" /\ leased[o]
    /\ leased' = [leased EXCEPT ![o] = FALSE]
    /\ UNCHANGED <<state, ref, token, callVars, effects, answers, errored>>

ResolveAbsentWithoutTombstone(o, r) ==
    /\ ValidRef(r)
    /\ state[o] = "absent"
    /\ Answer(o, "not_received")
    /\ UNCHANGED <<rowVars, callVars, effects, errored>>

\* Resolve of an id never seen leaves a tombstone that a late delivery of
\* the request will find.
ResolveAbsent(o, r) ==
    /\ ValidRef(r)
    /\ state[o] = "absent"
    /\ state' = [state EXCEPT ![o] = "not_received"]
    /\ ref' = [ref EXCEPT ![o] = r]
    /\ token' = [token EXCEPT ![o] = Fenced]
    /\ leased' = [leased EXCEPT ![o] = FALSE]
    /\ Answer(o, "not_received")
    /\ UNCHANGED <<callVars, effects, errored>>

ResolveExpiredInvertedLease(o, r) ==
    /\ ValidRef(r)
    /\ state[o] = "pending" /\ ref[o] = r /\ ~RowLocked(o)
    /\ leased[o]
    /\ state' = [state EXCEPT ![o] = "failed_input_required"]
    /\ token' = [token EXCEPT ![o] = Fenced]
    /\ Answer(o, "failed_input_required")
    /\ UNCHANGED <<ref, leased, callVars, effects, errored>>

\* Resolve of a pending row whose lease ran out fences its executor off.
ResolveExpired(o, r) ==
    /\ ValidRef(r)
    /\ state[o] = "pending" /\ ref[o] = r /\ ~RowLocked(o)
    /\ ~leased[o]
    /\ state' = [state EXCEPT ![o] = "failed_input_required"]
    /\ token' = [token EXCEPT ![o] = Fenced]
    /\ Answer(o, "failed_input_required")
    /\ UNCHANGED <<ref, leased, callVars, effects, errored>>

\* Resolve of any other row with the same tuple answers with the row.
ResolveCurrent(o, r) ==
    /\ ValidRef(r)
    /\ state[o] # "absent" /\ ref[o] = r /\ ~RowLocked(o)
    /\ ~(state[o] = "pending" /\ ~leased[o])
    /\ Answer(o, state[o])
    /\ UNCHANGED <<rowVars, callVars, effects, errored>>

\* Get reads without a lock and sees the last committed row.
Get(o) ==
    /\ state[o] # "absent"
    /\ Answer(o, state[o])
    /\ UNCHANGED <<rowVars, callVars, effects, errored>>

Admit(c, o, r) == AdmitNew(c, o, r) \/ AdmitExisting(c, o, r)

Resolve(o, r) ==
    ResolveAbsent(o, r) \/ ResolveExpired(o, r) \/ ResolveCurrent(o, r)

CallStep(c) ==
    \/ LockPending(c) \/ Commit(c) \/ CommitUnconfirmed(c)
    \/ Rollback(c) \/ FailPending(c) \/ Crash(c)

Next ==
    \/ \E c \in Calls : CallStep(c)
    \/ \E o \in Ops : LeaseExpires(o) \/ Get(o)
    \/ \E o \in Ops, r \in Refs :
         Resolve(o, r) \/ \E c \in Calls : Admit(c, o, r)

Spec == Init /\ [][Next]_vars

\* A lease ends with time, a transaction ends by commit, rollback or a
\* dropped session, and account-center's reconciler resolves an operation it
\* has no verdict for again and again.
Fairness ==
    /\ \A o \in Ops :
         /\ WF_vars(LeaseExpires(o))
         /\ \A r \in Refs : WF_vars(ResolveExpired(o, r))
    /\ \A c \in Calls : WF_vars(Commit(c) \/ Rollback(c) \/ Crash(c))

FairSpec == Spec /\ Fairness

-----------------------------------------------------------------------------
\* Properties

TypeOK ==
    /\ state \in [Ops -> States]
    /\ ref \in [Ops -> Refs]
    /\ token \in [Ops -> Calls \union {Fenced}]
    /\ leased \in [Ops -> BOOLEAN]
    /\ pc \in [Calls -> Steps]
    /\ target \in [Calls -> Ops]
    /\ effects \in [Ops -> Nat]
    /\ answers \subseteq (Ops \X States)
    /\ errored \subseteq Calls

\* A redelivered, duplicated or late BindCredential / ReplaceCredential / ...
\* request never mutates the credential a second time, and the ledger row says
\* "succeeded" exactly when the mutation was committed: operation_usecase.go
\* Execute with LockPending and Complete in one transaction.
EffectMatchesRecord ==
    \A o \in Ops : effects[o] = IF state[o] = "succeeded" THEN 1 ELSE 0

\* A verdict that Execute, Resolve or Get has returned for an operation is
\* still the ledger's verdict in every later state: account-center may act on
\* it (delete the binding, ask the user for the secret again) without racing a
\* slow executor or a late delivery.
AnswersStayTrue ==
    \A o \in Ops, s \in Terminal : <<o, s>> \in answers => state[o] = s

\* Once Execute has returned an error for an operation, the operation has not
\* been applied and never will be: account-center's handleCredentialDeliveryError
\* marks it failed without asking again.  Only where the commit was confirmed.
ErrorIsFinal ==
    \A c \in errored \ Unconfirmed :
        /\ effects[target[c]] = 0
        /\ \A d \in Calls : target[d] = target[c] => pc[d] \in {"idle", "done"}

\* A terminal row is never reopened and no row changes the tuple it was
\* admitted with: every write of operation_repo.go is conditional on pending.
TerminalIsFinal ==
    [][\A o \in Ops :
         /\ state[o] \in Terminal => state'[o] = state[o]
         /\ state[o] # "absent" => ref'[o] = ref[o]]_vars

\* Whatever happens to the executor, an admitted operation is decided.
PendingIsDecided ==
    \A o \in Ops : (state[o] = "pending") ~> (state[o] \in Terminal)

-----------------------------------------------------------------------------
\* Refinement: the ledger implements AtMostOnceOperation.

Verdict(s) == CASE s = "succeeded" -> "applied"
                [] s \in Terminal \ {"succeeded"} -> "refused"
                [] OTHER -> "undecided"

Outcome == [o \in Ops |-> Verdict(state[o])]

Told == [o \in Ops |-> {Verdict(s) : s \in {t \in Terminal : <<o, t>> \in answers}}]

Abstract == INSTANCE AtMostOnceOperation WITH outcome <- Outcome, told <- Told

\* Seen from its callers the ledger decides each operation once and only ever
\* tells the truth about it.
ImplementsAtMostOnce == Abstract!Spec

=============================================================================
