------------------------ MODULE CredentialOperations ------------------------
(***************************************************************************)
(* How account-center changes one platform binding: requests and the       *)
(* reconciler admit an operation intent, deliver it to platform-mihomo,    *)
(* and project the outcome on the binding row.                             *)
(*                                                                         *)
(* A step is one database transaction of account-center, one transaction   *)
(* of platform-mihomo, or one message.  The platform side is the ledger of *)
(* OperationLedger: an operation id is decided once (theorem Refinement)   *)
(* and a terminal answer stays true (theorem AnswersAreFinal), which is    *)
(* why asking for the verdict and recording it may be one step here.       *)
(***************************************************************************)
EXTENDS Naturals, FiniteSets

CONSTANTS
    Ops,                \* operation ids, each drawn once
    Workers,            \* request handlers and reconciler tasks
    None,               \* no worker, no operation
    Requests,           \* what users and admins may ask for
    StaleSnapshots,     \* may the binding change between its load and Admit?
    LeasesHold,         \* does a worker finish within the lease of its wake-up?
    OwnedElsewhere      \* operations whose secret is of another binding's account

ASSUME CredentialAssumption ==
    /\ None \notin Workers \union Ops
    /\ Requests \subseteq {"PUT", "REFRESH", "DELETE", "SET_PRIMARY"}
    /\ {StaleSnapshots, LeasesHold} \subseteq BOOLEAN
    /\ OwnedElsewhere \subseteq Ops

VARIABLES
    binding,            \* the platform_account_bindings row
    intent, outbox,     \* platform_operation_intents and their outbox rows
    cred,               \* platform-mihomo: the credential of the binding
    remote, exec,       \* its ledger, and the live executor of each row
    net,                \* requests under way, <<sender, id>>
    pc, loc             \* each worker: next step and local variables

acVars == <<binding, intent, outbox>>
pmVars == <<cred, remote, exec>>
vars == <<acVars, pmVars, net, pc, loc>>

Kinds == {"BIND", "REPLACE", "REFRESH", "DELETE", "SET_PRIMARY"}
NonSensitive == {"REFRESH", "DELETE", "SET_PRIMARY"}

\* reservingOperationIntentStates: the operation still owns the binding.
Reserving == {"pending_delivery", "uncertain", "projection_pending",
              "input_required", "invariant_violation"}
Released == {"succeeded", "failed", "superseded"}

Reserved == {o \in Ops : intent[o].state \in Reserving}
Fresh == {o \in Ops : intent[o].state = "absent"}
Gone == binding.status = "deleted"

\* validIntentGeneration: only a primary-profile change keeps the generation.
Target(o) == intent[o].pre + IF intent[o].kind = "SET_PRIMARY" THEN 0 ELSE 1

\* An operation has a compensating delete whose id is derived from its own.
Main(o) == <<o, "main">>
Comp(o) == <<o, "comp">>
Ids == Ops \X {"main", "comp"}
Kind(id) == IF id[2] = "comp" THEN "DELETE" ELSE intent[id[1]].kind
Pre(id) == IF id[2] = "comp" THEN Target(id[1]) ELSE intent[id[1]].pre

NoBinding == [status |-> "none", gen |-> 0, key |-> FALSE]
NoIntent == [state |-> "absent", kind |-> "BIND", pre |-> 0, reason |-> ""]
NoCred == [exists |-> FALSE, gen |-> 0]
NoLoc == [req |-> "", op |-> None, snap |-> NoBinding,
          seen |-> NoIntent, proof |-> NoCred]

Init ==
    /\ binding = NoBinding
    /\ intent = [o \in Ops |-> NoIntent]
    /\ outbox = [o \in Ops |-> "none"]
    /\ cred = NoCred
    /\ remote = [id \in Ids |-> "absent"]
    /\ exec = [id \in Ids |-> None]
    /\ net = {}
    /\ pc = [w \in Workers |-> "idle"]
    /\ loc = [w \in Workers |-> NoLoc]

-----------------------------------------------------------------------------
\* Transactions on account-center's rows.

\* Each Mark... method is a compare-and-set from the states it allows.
AllowedFrom ==
    [uncertain |-> {"pending_delivery", "uncertain"},
     projection_pending |-> {"pending_delivery", "uncertain", "projection_pending",
                             "invariant_violation"},
     input_required |-> {"pending_delivery", "uncertain", "invariant_violation"},
     invariant_violation |-> {"pending_delivery", "uncertain", "projection_pending",
                              "invariant_violation"},
     succeeded |-> {"projection_pending"},
     failed |-> {"pending_delivery", "uncertain", "projection_pending",
                 "invariant_violation"}]

RecordSettlesUncertain(o, to, reason) ==
    /\ intent' = [intent EXCEPT ![o].state = to, ![o].reason = reason]
    /\ outbox' = [outbox EXCEPT ![o] = IF to = "projection_pending" THEN "pending"
                                                                  ELSE "completed"]

Record(o, to, reason) ==
    /\ intent' = [intent EXCEPT ![o].state = to, ![o].reason = reason]
    /\ outbox' = [outbox EXCEPT ![o] = IF to \in Released THEN "completed"
                                                          ELSE "pending"]

TransitionUnguarded(o, to, reason) == Record(o, to, reason)

Transition(o, to, reason) ==
    IF intent[o].state \in AllowedFrom[to]
    THEN Record(o, to, reason) ELSE UNCHANGED <<intent, outbox>>

\* A transition that changed nothing is reported as an error only while the
\* intent still reserves the binding in another state.
Accepted(o, to) ==
    intent[o].state \in AllowedFrom[to] \union {to} \union Released

SetStatus(s) == binding' = [binding EXCEPT !.status = s]
DeleteBinding == SetStatus("deleted")

\* PersistRuntimeSummary ignores a summary older than the row.
PersistSummary(gen) ==
    binding' = IF gen < binding.gen THEN binding
               ELSE [status |-> "active", gen |-> gen, key |-> TRUE]

\* Between load and Admit a request works on a copy of the binding.
HoldsSnapshot(w) == pc[w] \in {"loaded", "admit_delete", "drop_local"}

Undisturbed(w) == StaleSnapshots \/ \A v \in Workers \ {w} : ~HoldsSnapshot(v)

At(w, steps) == pc[w] \in steps /\ Undisturbed(w)

Goto(w, step) == pc' = [pc EXCEPT ![w] = step] /\ UNCHANGED loc
Stop(w) == pc' = [pc EXCEPT ![w] = "idle"] /\ loc' = [loc EXCEPT ![w] = NoLoc]
GotoIf(w, ok, step) == IF ok THEN Goto(w, step) ELSE Stop(w)

-----------------------------------------------------------------------------
\* Requests: load the binding, admit an intent, deliver it.

\* CreateBindingAndAdmit: the pending binding and its BIND in one transaction.
CreateBinding(w) ==
    /\ At(w, {"idle"}) /\ "PUT" \in Requests
    /\ binding.status = "none"
    /\ binding' = [binding EXCEPT !.status = "pending_bind"]
    /\ \E o \in Fresh :
         /\ intent' = [intent EXCEPT ![o].state = "pending_delivery"]
         /\ outbox' = [outbox EXCEPT ![o] = "pending"]
         /\ loc' = [loc EXCEPT ![w].op = o, ![w].snap = binding']
    /\ pc' = [pc EXCEPT ![w] = "admitted"]
    /\ UNCHANGED <<pmVars, net>>

LoadBinding(w, r) ==
    /\ At(w, {"idle"})
    /\ binding.status \notin {"none", "deleted"}
    /\ r = "SET_PRIMARY" => binding.key
    /\ pc' = [pc EXCEPT ![w] = "loaded"]
    /\ loc' = [loc EXCEPT ![w].req = r, ![w].snap = binding]
    /\ UNCHANGED <<acVars, pmVars, net>>

\* deleteBinding marks the row before anything else.  A binding that never
\* had an account, or whose credential is gone already, is dropped locally.
MarkDeleting(w) ==
    /\ At(w, {"loaded"}) /\ loc[w].req = "DELETE"
    /\ \/ Gone /\ UNCHANGED binding /\ Stop(w)
       \/ /\ ~Gone
          /\ SetStatus("deleting")
          /\ LET s == loc[w].snap IN
             Goto(w, IF s.status = "cleanup_failed" \/ ~s.key
                     THEN "drop_local" ELSE "admit_delete")
    /\ UNCHANGED <<intent, outbox, pmVars, net>>

DropLocal(w) ==
    /\ At(w, {"drop_local"})
    /\ \/ ~Gone /\ (DeleteBinding \/ SetStatus("cleanup_failed"))
       \/ Gone /\ UNCHANGED binding
    /\ Stop(w)
    /\ UNCHANGED <<intent, outbox, pmVars, net>>

ReqKind(w) ==
    CASE loc[w].req # "PUT" -> loc[w].req
      [] loc[w].req = "PUT" /\ loc[w].snap.key -> "REPLACE"
      [] OTHER -> "BIND"

Blocking == {o \in Reserved : intent[o].state # "input_required"}

AdmitIgnoresReservation(w) ==
    /\ At(w, {"loaded", "admit_delete"})
    /\ pc[w] = "loaded" => loc[w].req # "DELETE"
    /\ \E o \in Fresh :
         /\ intent' = [intent EXCEPT ![o] =
              [state |-> "pending_delivery", kind |-> ReqKind(w),
               pre |-> loc[w].snap.gen, reason |-> ""]]
         /\ outbox' = [outbox EXCEPT ![o] = "pending"]
         /\ loc' = [loc EXCEPT ![w].op = o]
         /\ pc' = [pc EXCEPT ![w] = "admitted"]
    /\ UNCHANGED <<binding, pmVars, net>>

\* Admit: refused while an operation reserves the binding; one that waits for
\* input is superseded.  The generation is the one of the loaded snapshot.
Admit(w) ==
    /\ At(w, {"loaded", "admit_delete"})
    /\ pc[w] = "loaded" => loc[w].req # "DELETE"
    /\ \/ Blocking # {} /\ Stop(w) /\ UNCHANGED <<intent, outbox>>
       \/ /\ Blocking = {}
          /\ \E o \in Fresh :
               /\ intent' = [p \in Ops |->
                    CASE p = o -> [state |-> "pending_delivery", kind |-> ReqKind(w),
                                   pre |-> loc[w].snap.gen, reason |-> ""]
                      [] p \in Reserved -> [intent[p] EXCEPT !.state = "superseded"]
                      [] OTHER -> intent[p]]
               /\ outbox' = [p \in Ops |->
                    CASE p = o -> "pending"
                      [] p \in Reserved -> "completed"
                      [] OTHER -> outbox[p]]
               /\ loc' = [loc EXCEPT ![w].op = o]
               /\ pc' = [pc EXCEPT ![w] = "admitted"]
    /\ UNCHANGED <<binding, pmVars, net>>

\* The platform row is missing before a delete is admitted.
DeleteUnavailable(w) ==
    /\ At(w, {"admit_delete"})
    /\ IF Gone THEN UNCHANGED binding ELSE SetStatus("delete_failed")
    /\ Stop(w)
    /\ UNCHANGED <<intent, outbox, pmVars, net>>

\* No ticket: a BIND drops its draft and fails, a REPLACE fails, the others
\* stay pending for the reconciler.
TicketFails(w) ==
    /\ At(w, {"admitted"})
    /\ CASE intent[loc[w].op].kind = "BIND" -> Goto(w, "drop")
         [] intent[loc[w].op].kind = "REPLACE" -> Goto(w, "fail")
         [] OTHER -> Stop(w)
    /\ UNCHANGED <<acVars, pmVars, net>>

Send(w) ==
    /\ At(w, {"admitted"})
    /\ net' = net \union {<<w, Main(loc[w].op)>>}
    /\ Goto(w, "await")
    /\ UNCHANGED <<acVars, pmVars>>

\* The compensating delete of a credential that cannot be kept.
SendCompensation(w) ==
    /\ At(w, {"compensate_dup", "compensate_missing"})
    /\ net' = net \union {<<w, Comp(loc[w].op)>>}
    /\ Goto(w, IF pc[w] = "compensate_dup" THEN "await_dup" ELSE "await_missing")
    /\ UNCHANGED <<acVars, pmVars>>

-----------------------------------------------------------------------------
\* platform-mihomo: the ledger and the credential.

PMAdmit(w, id) ==
    /\ <<w, id>> \in net /\ remote[id] = "absent"
    /\ remote' = [remote EXCEPT ![id] = "pending"]
    /\ exec' = [exec EXCEPT ![id] = w]
    /\ net' = net \ {<<w, id>>}
    /\ UNCHANGED <<acVars, cred, pc, loc>>

\* A request whose sender gave up at the deadline may never arrive.
Lost(w, id) ==
    /\ <<w, id>> \in net /\ pc[w] = "idle"
    /\ net' = net \ {<<w, id>>}
    /\ UNCHANGED <<acVars, pmVars, pc, loc>>

Executing(id) == remote[id] = "pending" /\ exec[id] # None

AtPreGeneration(id) == cred.exists /\ cred.gen = Pre(id)

\* What the mutation does to the credential; a delete of nothing succeeds.
Mutation(id) ==
    CASE Kind(id) = "BIND" ->
           /\ ~cred.exists /\ Pre(id) = 0
           /\ cred' = [exists |-> TRUE, gen |-> 1]
      [] Kind(id) \in {"REPLACE", "REFRESH"} ->
           /\ AtPreGeneration(id)
           /\ cred' = [cred EXCEPT !.gen = @ + 1]
      [] Kind(id) = "SET_PRIMARY" -> AtPreGeneration(id) /\ UNCHANGED cred
      [] Kind(id) = "DELETE" ->
           /\ AtPreGeneration(id) \/ ~cred.exists
           /\ cred' = NoCred

PMCommit(id) ==
    /\ Executing(id)
    /\ Mutation(id)
    /\ remote' = [remote EXCEPT ![id] = "succeeded"]
    /\ UNCHANGED <<acVars, exec, net, pc, loc>>

PMFail(id) ==
    /\ Executing(id)
    /\ remote' = [remote EXCEPT ![id] = "failed"]
    /\ UNCHANGED <<acVars, cred, exec, net, pc, loc>>

\* The executor dies, or cannot even write that it failed.
PMDie(id) ==
    /\ Executing(id)
    /\ exec' = [exec EXCEPT ![id] = None]
    /\ UNCHANGED <<acVars, cred, remote, net, pc, loc>>

ResolvedWithoutTombstone(id, answer) ==
    /\ CASE remote[id] = "absent" -> answer = "not_received"
         [] remote[id] = "pending" -> answer \in {"pending", "failed_input_required"}
         [] OTHER -> answer = remote[id]
    /\ remote' = [remote EXCEPT ![id] = IF @ = "absent" THEN @ ELSE answer]
    /\ UNCHANGED <<cred, exec>>

\* Resolve: a tombstone for an unseen id, a fence when the lease ran out.
Resolved(id, answer) ==
    /\ CASE remote[id] = "absent" -> answer = "not_received"
         [] remote[id] = "pending" -> answer \in {"pending", "failed_input_required"}
         [] OTHER -> answer = remote[id]
    /\ remote' = [remote EXCEPT ![id] = answer]
    /\ UNCHANGED <<cred, exec>>

Answers == {"pending", "succeeded", "failed", "not_received", "failed_input_required"}

-----------------------------------------------------------------------------
\* The reply to a delivery, and the transaction that follows it.

Awaits(w) == pc[w] \in {"await", "await_dup", "await_missing"}
Awaited(w) == IF pc[w] = "await" THEN Main(loc[w].op) ELSE Comp(loc[w].op)

Ran(w) == exec[Awaited(w)] = w        \* this very request was executed
Arrived(w) == <<w, Awaited(w)>> \in net

\* Every kind of answer that is not "succeeded": the mutation failed, the row
\* existed already, or the request was refused before it was admitted.
Refusal(w) ==
    \/ Ran(w) /\ remote[Awaited(w)] \in {"failed", "failed_input_required"}
    \/ Arrived(w) /\ remote[Awaited(w)] # "succeeded"

GotOk(w) ==
    /\ Awaits(w)
    /\ Ran(w) \/ Arrived(w)
    /\ remote[Awaited(w)] = "succeeded"

Consumed(w) == net' = net \ {<<w, Awaited(w)>>}

ReplyOkSkipsProjection(w) ==
    /\ At(w, {"await"}) /\ GotOk(w)
    /\ Transition(loc[w].op, "projection_pending", "projection_pending")
    /\ GotoIf(w, Accepted(loc[w].op, "projection_pending"), "complete")
    /\ Consumed(w)
    /\ UNCHANGED <<binding, pmVars>>

ReplyOk(w) ==
    /\ At(w, {"await"}) /\ GotOk(w)
    /\ Transition(loc[w].op, "projection_pending", "projection_pending")
    /\ GotoIf(w, Accepted(loc[w].op, "projection_pending"), "persist")
    /\ Consumed(w)
    /\ UNCHANGED <<binding, pmVars>>

ReplyUnknownFails(w) ==
    /\ At(w, {"await"})
    /\ Goto(w, "fail")
    /\ UNCHANGED <<acVars, pmVars, net>>

\* A broken connection or a deadline leaves the outcome unknown.
ReplyUnknown(w) ==
    /\ At(w, {"await"})
    /\ Transition(loc[w].op, "uncertain", "delivery_outcome_unknown")
    /\ Stop(w)
    /\ UNCHANGED <<binding, pmVars, net>>

\* The outcome cannot be shown on a binding that is gone: look again later.
ProjectLater(w) ==
    /\ Transition(loc[w].op, "projection_pending", "failure_projection_pending")
    /\ Stop(w)
    /\ UNCHANGED binding

\* The secret was rejected: the row shows it; a draft is dropped next.
ReplyInvalid(w) ==
    LET kind == intent[loc[w].op].kind IN
    /\ At(w, {"await"}) /\ Refusal(w) /\ kind \in {"BIND", "REPLACE"}
    /\ \/ Gone /\ kind = "REPLACE" /\ ProjectLater(w)
       \/ /\ ~(Gone /\ kind = "REPLACE")
          /\ IF Gone THEN UNCHANGED binding ELSE SetStatus("credential_invalid")
          /\ Goto(w, IF kind = "BIND" THEN "drop" ELSE "fail")
          /\ UNCHANGED <<intent, outbox>>
    /\ Consumed(w)
    /\ UNCHANGED pmVars

\* Any other known error.  A BIND drops its draft when the account is taken.
ReplyRefused(w) ==
    LET kind == intent[loc[w].op].kind IN
    /\ At(w, {"await"}) /\ Refusal(w)
    /\ \/ Gone /\ kind = "DELETE" /\ ProjectLater(w)
       \/ /\ ~Gone /\ kind = "DELETE"
          /\ SetStatus("delete_failed")
          /\ Goto(w, "fail") /\ UNCHANGED <<intent, outbox>>
       \/ /\ kind # "DELETE"
          /\ \/ Goto(w, "fail")
             \/ kind = "BIND" /\ Goto(w, "drop")
          /\ UNCHANGED acVars
    /\ Consumed(w)
    /\ UNCHANGED pmVars

\* A deleted draft cannot be dropped again.
Drop(w) ==
    /\ At(w, {"drop"})
    /\ IF Gone
       THEN /\ Transition(loc[w].op, "invariant_violation", "projection_delete_failed")
            /\ Stop(w) /\ UNCHANGED binding
       ELSE DeleteBinding /\ Goto(w, "fail") /\ UNCHANGED <<intent, outbox>>
    /\ UNCHANGED <<pmVars, net>>

MarkFailed(w) ==
    /\ At(w, {"fail", "fail_compensated"})
    /\ Transition(loc[w].op, "failed",
                  IF pc[w] = "fail" THEN "failed" ELSE "compensated")
    /\ Stop(w)
    /\ UNCHANGED <<binding, pmVars, net>>

-----------------------------------------------------------------------------
\* Projection of a success on the binding row.

PersistOutcome(w) ==
    LET o == loc[w].op IN
    /\ At(w, {"persist"}) /\ ~Gone
    /\ \/ intent[o].kind = "DELETE" /\ DeleteBinding /\ Goto(w, "complete")
       \/ /\ intent[o].kind # "DELETE"
          /\ IF o \in OwnedElsewhere /\ ~binding.key
             THEN UNCHANGED binding /\ GotoIf(w, intent[o].kind = "BIND", "compensate_dup")
             ELSE PersistSummary(Target(o)) /\ Goto(w, "complete")
    /\ UNCHANGED <<intent, outbox, pmVars, net>>

\* The row is gone, or the database refuses: the intent keeps its wake-up.
\* Only a request (loc.req) records that its local delete failed.
PersistFails(w) ==
    /\ At(w, {"persist"})
    /\ IF loc[w].req = "DELETE" /\ ~Gone THEN SetStatus("cleanup_failed")
                                         ELSE UNCHANGED binding
    /\ Stop(w)
    /\ UNCHANGED <<intent, outbox, pmVars, net>>

MarkSucceeded(w) ==
    /\ At(w, {"complete"})
    /\ Transition(loc[w].op, "succeeded", "")
    /\ Stop(w)
    /\ UNCHANGED <<binding, pmVars, net>>

\* The compensating delete was confirmed: say so before dropping the row.
CompensationOk(w) ==
    /\ At(w, {"await_dup", "await_missing"}) /\ GotOk(w)
    /\ Transition(loc[w].op, "projection_pending",
                  IF pc[w] = "await_dup" THEN "dup_projection" ELSE "missing_projection")
    /\ GotoIf(w, Accepted(loc[w].op, "projection_pending"),
              IF pc[w] = "await_dup" THEN "drop_dup" ELSE "drop_missing")
    /\ Consumed(w)
    /\ UNCHANGED <<binding, pmVars>>

CompensationFailsUnnoticed(w) ==
    /\ At(w, {"await_dup", "await_missing"})
    /\ Transition(loc[w].op, "projection_pending", "dup_projection")
    /\ GotoIf(w, Accepted(loc[w].op, "projection_pending"), "drop_dup")
    /\ UNCHANGED <<binding, pmVars, net>>

\* Refused or unknown alike; a request (not the reconciler) marks the row too.
CompensationFails(w) ==
    /\ At(w, {"await_dup", "await_missing"})
    /\ Transition(loc[w].op, "invariant_violation",
                  IF pc[w] = "await_dup" THEN "dup_failed" ELSE "missing_failed")
    /\ GotoIf(w, pc[w] = "await_dup" /\ loc[w].seen = NoIntent, "show_dup_failed")
    /\ UNCHANGED <<binding, pmVars, net>>

ShowDupFailed(w) ==
    /\ At(w, {"show_dup_failed"})
    /\ IF Gone THEN UNCHANGED binding ELSE SetStatus("delete_failed")
    /\ Stop(w)
    /\ UNCHANGED <<intent, outbox, pmVars, net>>

DropCompensated(w) ==
    /\ At(w, {"drop_dup", "drop_missing"})
    /\ IF Gone THEN UNCHANGED binding ELSE DeleteBinding
    /\ GotoIf(w, ~Gone \/ pc[w] = "drop_missing", "fail_compensated")
    /\ UNCHANGED <<intent, outbox, pmVars, net>>

-----------------------------------------------------------------------------
\* ReconcileCredentialOperation, woken by the outbox.

Handled(o) == \E w \in Workers : loc[w].op = o

Travelling(o) == Executing(Main(o)) \/ \E w \in Workers : <<w, Main(o)>> \in net

\* A wake-up is leased: 15 s for the synchronous delivery (which has a 5 s
\* deadline), 2 min for a reconciler task, 30 s after each transition.
Claimable(o) ==
    /\ outbox[o] = "pending"
    /\ LeasesHold => /\ ~Handled(o)
                     /\ intent[o].state = "pending_delivery" => ~Travelling(o)

Claim(w, o) == At(w, {"idle"}) /\ Claimable(o)

\* ExpireInputRequired: nobody submitted the secret again in time.
ClaimExpired(w, o) ==
    /\ Claim(w, o) /\ intent[o].state = "input_required"
    /\ Record(o, "superseded", "credential_input_expired")
    /\ UNCHANGED <<binding, pmVars, net, pc, loc>>

Begin(w, o, step) ==
    /\ pc' = [pc EXCEPT ![w] = step]
    /\ loc' = [loc EXCEPT ![w].op = o, ![w].seen = intent[o]]

\* Operations on a binding that is gone and whose outcome that settles.
DeleteProjected(o) == Gone /\ intent[o].kind = "DELETE"
DupProjected(o) == Gone /\ intent[o].state = "projection_pending"
                        /\ intent[o].reason = "dup_projection"

Working(o) == intent[o].state \in Reserving \ {"input_required"}

ClaimProjected(w, o) ==
    /\ Claim(w, o) /\ Working(o)
    /\ \/ /\ DeleteProjected(o)
          /\ Transition(o, "projection_pending", "projection_already_deleted")
          /\ Begin(w, o, "complete")
       \/ /\ DupProjected(o)
          /\ Transition(o, "failed", "compensated")
          /\ UNCHANGED <<pc, loc>>
    /\ UNCHANGED <<binding, pmVars, net>>

\* deliverNonSensitiveCredentialOperation, or else ask for the verdict.
ClaimOpen(w, o) ==
    /\ Claim(w, o) /\ Working(o)
    /\ ~DeleteProjected(o) /\ ~DupProjected(o)
    /\ Begin(w, o, IF intent[o].state = "pending_delivery" /\ intent[o].kind \in NonSensitive
                   THEN "admitted" ELSE "resolve")
    /\ UNCHANGED <<acVars, pmVars, net>>

\* credentialOperationReferenceProto accepts only target = pre + 1.
Resolvable(o) == Target(o) = intent[o].pre + 1

\* The platform answers and the intent records it (answers are final).
ResolveAnswered(w, answer) ==
    LET o == loc[w].op
        Mark(to, reason, step) ==
            Transition(o, to, reason) /\ GotoIf(w, Accepted(o, to), step)
    IN
    /\ At(w, {"resolve"}) /\ Resolvable(o)
    /\ Resolved(Main(o), answer)
    /\ CASE answer = "pending" ->
              Transition(o, "uncertain", "remote_operation_pending") /\ Stop(w)
         [] answer = "succeeded" -> Mark("projection_pending", "projection_pending", "persist")
         [] answer = "failed" -> Goto(w, "persist_failure") /\ UNCHANGED <<intent, outbox>>
         [] OTHER -> Goto(w, "proof") /\ UNCHANGED <<intent, outbox>>
    /\ UNCHANGED <<binding, net>>

\* The answer is lost, with or without its effect on the ledger.
ResolveUnknown(w) ==
    LET o == loc[w].op IN
    /\ At(w, {"resolve"}) /\ Resolvable(o)
    /\ \/ \E a \in Answers : Resolved(Main(o), a)
       \/ UNCHANGED pmVars
    /\ Transition(o, "uncertain", "resolve_outcome_unknown")
    /\ Stop(w)
    /\ UNCHANGED <<binding, net>>

\* A reference the gateway refuses to send, or an error of the platform.
ResolveRejected(w) ==
    /\ At(w, {"resolve"})
    /\ Transition(loc[w].op, "invariant_violation", "resolve_rejected")
    /\ Stop(w)
    /\ UNCHANGED <<binding, pmVars, net>>

\* persistTerminalOperationFailure
PersistFailure(w) ==
    LET kind == intent[loc[w].op].kind IN
    /\ At(w, {"persist_failure"})
    /\ CASE Gone \/ kind = "SET_PRIMARY" -> UNCHANGED binding
         [] kind = "BIND" -> DeleteBinding
         [] kind = "REPLACE" -> SetStatus("credential_invalid")
         [] kind = "REFRESH" -> SetStatus("refresh_required")
         [] kind = "DELETE" -> SetStatus("delete_failed")
    /\ GotoIf(w, ~Gone \/ kind \in {"BIND", "SET_PRIMARY"}, "fail")
    /\ UNCHANGED <<intent, outbox, pmVars, net>>

\* GetCredentialBindingState; its answer may be stale when it is used.
ReadProof(w) ==
    /\ At(w, {"proof"})
    /\ \/ Stop(w)
       \/ /\ loc' = [loc EXCEPT ![w].proof = cred]
          /\ pc' = [pc EXCEPT ![w] = IF intent[loc[w].op].kind \in NonSensitive
                                     THEN "retry" ELSE "confirm"]
    /\ UNCHANGED <<acVars, pmVars, net>>

ProvesPre(w) ==
    LET p == loc[w].proof IN p.exists /\ p.gen = intent[loc[w].op].pre

\* RetryNonSensitive: supersede the dead operation by one with a fresh id.
RetryNonSensitive(w) ==
    LET o == loc[w].op IN
    /\ At(w, {"retry"}) /\ ProvesPre(w)
    /\ \/ /\ intent[o].state \in Reserving
          /\ \E n \in Fresh :
               /\ intent' = [intent EXCEPT
                    ![o].state = "superseded", ![o].reason = "not_received_retry",
                    ![n] = [intent[o] EXCEPT !.state = "pending_delivery", !.reason = ""]]
               /\ outbox' = [outbox EXCEPT ![o] = "completed", ![n] = "pending"]
       \/ intent[o].state \notin Reserving /\ UNCHANGED <<intent, outbox>>
    /\ Stop(w)
    /\ UNCHANGED <<binding, pmVars, net>>

RetryDisprovedUnread(w) ==
    LET o == loc[w].op IN
    /\ At(w, {"retry"}) /\ ~ProvesPre(w)
    /\ IF intent[o].kind = "DELETE"
       THEN /\ IF Gone THEN UNCHANGED binding ELSE DeleteBinding
            /\ Goto(w, "delete_absent") /\ UNCHANGED <<intent, outbox>>
       ELSE /\ Transition(o, "invariant_violation", "inconsistent")
            /\ Stop(w) /\ UNCHANGED binding
    /\ UNCHANGED <<pmVars, net>>

\* A delete that finds nothing to delete is done; anything else is a fault.
RetryDisproved(w) ==
    LET o == loc[w].op IN
    /\ At(w, {"retry"}) /\ ~ProvesPre(w)
    /\ IF intent[o].kind = "DELETE" /\ ~loc[w].proof.exists
       THEN /\ IF Gone THEN UNCHANGED binding ELSE DeleteBinding
            /\ Goto(w, "delete_absent") /\ UNCHANGED <<intent, outbox>>
       ELSE /\ Transition(o, "invariant_violation", "inconsistent")
            /\ Stop(w) /\ UNCHANGED binding
    /\ UNCHANGED <<pmVars, net>>

DeleteAbsent(w) ==
    /\ At(w, {"delete_absent"})
    /\ Transition(loc[w].op, "projection_pending", "delete_already_absent")
    /\ GotoIf(w, Accepted(loc[w].op, "projection_pending"), "complete")
    /\ UNCHANGED <<binding, pmVars, net>>

\* confirmCredentialInputRequired, branch by branch.
Resubmittable(w) ==
    IF intent[loc[w].op].kind = "BIND" THEN ~loc[w].proof.exists ELSE ProvesPre(w)

Confirm(w) ==
    LET o == loc[w].op
        proof == loc[w].proof
        Saw(state, reason) ==
            ~proof.exists /\ loc[w].seen.state = state /\ loc[w].seen.reason = reason
        dropped == Saw("projection_pending", "missing_projection")
        dropping == Saw("invariant_violation", "missing_failed")
    IN
    /\ At(w, {"confirm"})
    /\ CASE dropped ->
              /\ Transition(o, "projection_pending", "missing_projection")
              /\ GotoIf(w, Accepted(o, "projection_pending"), "drop_missing")
              /\ UNCHANGED binding
         [] dropping -> Goto(w, "resolve_comp") /\ UNCHANGED acVars
         [] Resubmittable(w) /\ ~dropped /\ ~dropping ->
              /\ IF Gone THEN UNCHANGED binding ELSE SetStatus("credential_invalid")
              /\ GotoIf(w, ~Gone, "input_required")
              /\ UNCHANGED <<intent, outbox>>
         [] ~Resubmittable(w) /\ proof.exists /\ proof.gen = Target(o) ->
              /\ Transition(o, "invariant_violation", "result_missing")
              /\ GotoIf(w, Accepted(o, "invariant_violation"), "compensate_missing")
              /\ UNCHANGED binding
         [] OTHER ->
              /\ IF Gone THEN UNCHANGED binding ELSE SetStatus("credential_invalid")
              /\ GotoIf(w, ~Gone, "inconsistent")
              /\ UNCHANGED <<intent, outbox>>
    /\ UNCHANGED <<pmVars, net>>

MarkInputRequired(w) ==
    /\ At(w, {"input_required"})
    /\ Transition(loc[w].op, "input_required", "credential_resubmission_required")
    /\ Stop(w)
    /\ UNCHANGED <<binding, pmVars, net>>

MarkInconsistent(w) ==
    /\ At(w, {"inconsistent"})
    /\ Transition(loc[w].op, "invariant_violation", "inconsistent")
    /\ Stop(w)
    /\ UNCHANGED <<binding, pmVars, net>>

\* confirmMissingTerminalCompensation
ResolveCompensation(w) ==
    LET o == loc[w].op IN
    /\ At(w, {"resolve_comp"})
    /\ \/ Stop(w) /\ UNCHANGED <<intent, outbox, pmVars>>
       \/ \E a \in Answers :
            /\ Resolved(Comp(o), a)
            /\ CASE a = "pending" -> Stop(w) /\ UNCHANGED <<intent, outbox>>
                 [] a = "succeeded" ->
                      /\ Transition(o, "projection_pending", "missing_projection")
                      /\ GotoIf(w, Accepted(o, "projection_pending"), "drop_missing")
                 [] OTHER ->
                      Transition(o, "invariant_violation", "inconsistent") /\ Stop(w)
    /\ UNCHANGED <<binding, net>>

\* ClaimDueOperationIDs gives up after 100 attempts; an admin may requeue.
DeadLetter(o) ==
    /\ outbox[o] = "pending"
    /\ outbox' = [outbox EXCEPT ![o] = "dead_letter"]
    /\ UNCHANGED <<binding, intent, pmVars, net, pc, loc>>

RequeueDeadLetter(o) ==
    /\ outbox[o] = "dead_letter" /\ intent[o].state \in Reserving
    /\ outbox' = [outbox EXCEPT ![o] = "pending"]
    /\ UNCHANGED <<binding, intent, pmVars, net, pc, loc>>

\* The process dies or a transaction of it fails.
Crash(w) ==
    /\ pc[w] # "idle" /\ Undisturbed(w)
    /\ Stop(w)
    /\ UNCHANGED <<acVars, pmVars, net>>

Request(w) ==
    \/ CreateBinding(w) \/ \E r \in Requests : LoadBinding(w, r)
    \/ MarkDeleting(w) \/ DropLocal(w) \/ Admit(w) \/ DeleteUnavailable(w)

Reply(w) ==
    \/ TicketFails(w) \/ Send(w) \/ SendCompensation(w)
    \/ ReplyOk(w) \/ ReplyUnknown(w) \/ ReplyInvalid(w) \/ ReplyRefused(w)
    \/ Drop(w) \/ MarkFailed(w)
    \/ PersistOutcome(w) \/ PersistFails(w) \/ MarkSucceeded(w)
    \/ CompensationOk(w) \/ CompensationFails(w) \/ ShowDupFailed(w)
    \/ DropCompensated(w)

Reconcile(w) ==
    \/ \E o \in Ops : ClaimExpired(w, o) \/ ClaimProjected(w, o) \/ ClaimOpen(w, o)
    \/ \E a \in Answers : ResolveAnswered(w, a)
    \/ ResolveUnknown(w) \/ ResolveRejected(w) \/ PersistFailure(w)
    \/ ReadProof(w) \/ RetryNonSensitive(w) \/ RetryDisproved(w) \/ DeleteAbsent(w)
    \/ Confirm(w) \/ MarkInputRequired(w) \/ MarkInconsistent(w)
    \/ ResolveCompensation(w)

Platform ==
    \E id \in Ids :
        \/ \E w \in Workers : PMAdmit(w, id) \/ Lost(w, id)
        \/ PMCommit(id) \/ PMFail(id) \/ PMDie(id)

Next ==
    \/ \E w \in Workers : Request(w) \/ Reply(w) \/ Reconcile(w) \/ Crash(w)
    \/ Platform
    \/ \E o \in Ops : DeadLetter(o) \/ RequeueDeadLetter(o)

Spec == Init /\ [][Next]_vars

\* What may go wrong at any step and is tried again: lost answers, dead
\* workers, a database that refuses, a dead executor whose lease still runs.
Failure(w) ==
    \/ Crash(w) /\ ~(Request(w) \/ Reply(w) \/ Reconcile(w))
    \/ TicketFails(w) \/ ResolveUnknown(w)
    \/ ~Gone /\ PersistFails(w)
    \/ pc[w] \in {"proof", "resolve_comp"} /\ Stop(w)
    \/ pc[w] = "resolve" /\ exec[Main(loc[w].op)] = None /\ ResolveAnswered(w, "pending")

\* Failures end some day; the outbox wakes a reconciler task again and again
\* (it does not compete with requests for a worker); a request arrives or is
\* lost, and an executor answers or ends.
Fairness ==
    /\ <>[][\A w \in Workers : ~Failure(w)]_vars
    /\ \A o \in Ops : SF_vars(\E w \in Workers : ClaimOpen(w, o) \/ ClaimProjected(w, o))
    /\ \A w \in Workers : WF_vars(pc[w] # "idle" /\ (Request(w) \/ Reply(w) \/ Reconcile(w)))
    /\ SF_vars(\E w \in Workers, id \in Ids : PMAdmit(w, id) \/ Lost(w, id))
    /\ WF_vars(\E id \in Ids : PMCommit(id) \/ PMFail(id) \/ PMDie(id))

-----------------------------------------------------------------------------
\* Properties

Steps == {"idle", "loaded", "admit_delete", "drop_local", "admitted", "await",
          "drop", "fail", "fail_compensated", "persist", "complete",
          "compensate_dup", "await_dup", "drop_dup", "show_dup_failed",
          "compensate_missing", "await_missing", "drop_missing", "resolve",
          "persist_failure", "proof", "retry", "delete_absent", "confirm",
          "input_required", "inconsistent", "resolve_comp"}

Reasons == {"", "delivery_outcome_unknown", "resolve_outcome_unknown",
            "remote_operation_pending", "resolve_rejected", "projection_pending",
            "failure_projection_pending", "projection_already_deleted",
            "delete_already_absent", "projection_delete_failed", "dup_projection",
            "dup_failed", "result_missing", "missing_projection", "missing_failed",
            "inconsistent", "credential_resubmission_required",
            "credential_input_expired", "not_received_retry", "compensated", "failed"}

Bindings == [status : {"none", "pending_bind", "active", "credential_invalid",
                       "refresh_required", "deleting", "delete_failed",
                       "cleanup_failed", "deleted"},
             gen : Nat, key : BOOLEAN]
Intents == [state : Reserving \union Released \union {"absent"}, kind : Kinds,
            pre : Nat, reason : Reasons]
Creds == [exists : BOOLEAN, gen : Nat]

TypeOK ==
    /\ binding \in Bindings
    /\ intent \in [Ops -> Intents]
    /\ outbox \in [Ops -> {"none", "pending", "completed", "dead_letter"}]
    /\ cred \in Creds
    /\ remote \in [Ids -> Answers \union {"absent"}]
    /\ exec \in [Ids -> Workers \union {None}]
    /\ net \subseteq Workers \X Ids
    /\ pc \in [Workers -> Steps]
    /\ loc \in [Workers -> [req : Requests \union {""}, op : Ops \union {None},
                            snap : Bindings, seen : Intents, proof : Creds]]

\* A success account-center records was one: the platform applied the operation
\* under this id (or there was nothing left to delete), also for a request that
\* replacements or a delete overtook and however many workers drive it.  What it
\* does not survive is a delete that loaded the binding before it had an account:
\* it drops the row while a later delete is under way, which then counts as done.
SuccessIsTrue ==
    \A o \in Ops : intent[o].state = "succeeded" =>
        \/ remote[Main(o)] = "succeeded"
        \/ intent[o].kind = "DELETE" /\ ~cred.exists

\* What account-center records about an operation is what happened to it: also,
\* one that failed, was superseded or waits for a new secret never took effect,
\* unless its effect was deleted again.
VerdictIsTrue ==
    /\ SuccessIsTrue
    /\ \A o \in Ops : intent[o].state \in {"failed", "superseded", "input_required"} =>
         \/ remote[Main(o)] # "succeeded"
         \/ intent[o].reason = "compensated" /\ ~cred.exists

\* Once an intent gives up the binding its request can no longer change the
\* credential behind the next operation's back, wherever it still travels.
CanStillApply(o) ==
    \/ Executing(Main(o))
    \/ remote[Main(o)] = "absent" /\ \E w \in Workers : <<w, Main(o)>> \in net

ReleasedIsDead ==
    \A o \in Ops : intent[o].state \in Released \union {"input_required"} =>
        ~CanStillApply(o)

\* A credential never outlives its binding unless an operation that will
\* settle it is still on record.
CredentialIsOwned == cred.exists => ~Gone \/ Reserved # {}

\* With nothing under way, an active binding and its credential are at the
\* same generation, so the tickets account-center issues are accepted.
GenerationsAgree ==
    (Reserved = {} /\ binding.status = "active") =>
        cred.exists /\ cred.gen = binding.gen

\* Only a requested delete or a duplicate owner removes a credential: no
\* compensating delete is sent for an account that nobody else owns.
NoGoodCredentialDeleted ==
    \A o \in Ops \ OwnedElsewhere : remote[Comp(o)] = "absent"

\* Two operations never own the binding at the same time.
AtMostOneReservation == Cardinality(Reserved) <= 1

\* A released intent is never reopened or rewritten, whatever a late reply, a
\* second reconciler or a stalled request still does with it.
ReleasedIsFinal ==
    [][\A o \in Ops : intent[o].state \in Released => intent'[o] = intent[o]]_vars

\* A primary-profile change that the platform applied, and whose response was
\* lost, is reconciled and not declared a violated invariant.
PrimaryChangeReconciles ==
    \A o \in Ops :
        intent[o].kind = "SET_PRIMARY" /\ remote[Main(o)] = "succeeded" =>
            intent[o].state # "invariant_violation"

\* Every admitted operation is settled: released, back with its user, or shown
\* to an operator (or its retry would need an id, and all are drawn here).  One
\* whose binding row was deleted under it may find no row to show its outcome
\* on; its wake-up then lasts until ClaimDueOperationIDs gives up.
Settled(o) ==
    \/ intent[o].state \in Released \union {"input_required", "invariant_violation"}
    \/ outbox[o] = "dead_letter"
    \/ Fresh = {} /\ intent[o].kind \in NonSensitive
                  /\ remote[Main(o)] \in {"not_received", "failed_input_required"}

OperationsSettle ==
    \A o \in Ops : (o \in Reserved) ~> (Settled(o) \/ (Gone /\ outbox[o] = "pending"))

=============================================================================
