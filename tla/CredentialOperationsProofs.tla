---------------------- MODULE CredentialOperationsProofs ----------------------
(***************************************************************************)
(* Theorems about CredentialOperations for any number of operations and    *)
(* workers, with stale snapshots and stalled reconcilers allowed.          *)
(***************************************************************************)
EXTENDS CredentialOperations, FiniteSetTheorems, TLAPS

\* A worker past its load knows its operation, and one that still has to admit
\* knows what was asked for.
Early == {"idle", "loaded", "admit_delete", "drop_local"}

Knows(w) ==
    /\ pc[w] \in {"loaded", "admit_delete"} => loc[w].req \in Requests
    /\ pc[w] \notin Early => loc[w].op \in Ops

Locs == [req : Requests \union {""}, op : Ops \union {None},
         snap : Bindings, seen : Intents, proof : Creds]

RowsOK ==
    /\ binding \in Bindings
    /\ intent \in [Ops -> Intents]
    /\ outbox \in [Ops -> {"none", "pending", "completed", "dead_letter"}]

PlatformOK ==
    /\ cred \in Creds
    /\ remote \in [Ids -> Answers \union {"absent"}]
    /\ exec \in [Ids -> Workers \union {None}]

WorkersOK ==
    /\ pc \in [Workers -> Steps]
    /\ loc \in [Workers -> Locs]
    /\ \A w \in Workers : Knows(w)

\* Where a worker stands is all that its guard says in these proofs: whether
\* another worker holds a snapshot does not matter to them.
USE DEF At

TypeInv == RowsOK /\ PlatformOK /\ net \subseteq Workers \X Ids /\ WorkersOK

-----------------------------------------------------------------------------
\* What the building blocks of the actions keep.

LEMMA EmptyValuesTyped ==
    NoBinding \in Bindings /\ NoIntent \in Intents /\ NoCred \in Creds
<1>1. NoBinding \in Bindings
  BY DEF NoBinding, Bindings
<1>2. NoIntent \in Intents
  BY DEF NoIntent, Intents, Kinds, Reasons
<1>3. NoCred \in Creds
  BY DEF NoCred, Creds
<1> QED BY <1>1, <1>2, <1>3

LEMMA GotoTypes ==
    ASSUME WorkersOK, NEW w \in Workers, NEW step \in Steps, Goto(w, step),
           step \in {"loaded", "admit_delete"} => loc[w].req \in Requests,
           step \notin Early => loc[w].op \in Ops
    PROVE  WorkersOK'
  BY DEF WorkersOK, Goto, Knows

LEMMA StopTypes ==
    ASSUME WorkersOK, NEW w \in Workers, Stop(w)
    PROVE  WorkersOK'
<1>1. NoLoc \in Locs
  BY EmptyValuesTyped DEF NoLoc, Locs
<1>2. "idle" \in Steps /\ "idle" \in Early
  BY DEF Steps, Early
<1> QED BY <1>1, <1>2 DEF WorkersOK, Stop, Knows, Early

\* A worker that moves on with other local variables.
LEMMA MoveTypes ==
    ASSUME WorkersOK, NEW w \in Workers, NEW l \in Locs, NEW step \in Steps,
           pc' = [pc EXCEPT ![w] = step], loc' = [loc EXCEPT ![w] = l],
           step \in {"loaded", "admit_delete"} => l.req \in Requests,
           step \notin Early => l.op \in Ops
    PROVE  WorkersOK'
  BY DEF WorkersOK, Knows

LEMMA RecordTypes ==
    ASSUME RowsOK, NEW o \in Ops, NEW to \in Reserving \union Released,
           NEW reason \in Reasons, Record(o, to, reason)
    PROVE  /\ intent' \in [Ops -> Intents]
           /\ outbox' \in [Ops -> {"none", "pending", "completed", "dead_letter"}]
  BY DEF RowsOK, Record, Intents

LEMMA TransitionTypes ==
    ASSUME RowsOK, NEW o \in Ops, NEW to \in Reserving \union Released,
           NEW reason \in Reasons, Transition(o, to, reason)
    PROVE  /\ intent' \in [Ops -> Intents]
           /\ outbox' \in [Ops -> {"none", "pending", "completed", "dead_letter"}]
  BY RecordTypes DEF RowsOK, Transition

LEMMA SetStatusTypes ==
    ASSUME binding \in Bindings, NEW s \in {"credential_invalid", "refresh_required",
               "deleting", "delete_failed", "cleanup_failed", "deleted"}, SetStatus(s)
    PROVE  binding' \in Bindings /\ binding'.status = s /\ binding'.gen = binding.gen
  BY DEF SetStatus, Bindings

LEMMA GenerationsAreNaturals ==
    ASSUME RowsOK, NEW o \in Ops
    PROVE  Target(o) \in Nat /\ intent[o].pre \in Nat
  BY DEF RowsOK, Target, Intents

LEMMA PersistSummaryTypes ==
    ASSUME binding \in Bindings, NEW g \in Nat, PersistSummary(g)
    PROVE  binding' \in Bindings
  BY DEF PersistSummary, Bindings

\* A step of a worker leaves the platform to its own transactions.
LEMMA WorkerStepTypes ==
    ASSUME TypeInv, RowsOK', WorkersOK', UNCHANGED pmVars,
           net' \subseteq Workers \X Ids
    PROVE  TypeInv'
  BY DEF TypeInv, PlatformOK, pmVars

-----------------------------------------------------------------------------
\* Requests.

LEMMA CreateBindingTypes ==
    ASSUME TypeInv, NEW w \in Workers, CreateBinding(w)
    PROVE  TypeInv'
<1> USE DEF TypeInv
<1>1. PICK b \in Bindings : binding' = b
  BY DEF RowsOK, Bindings, CreateBinding
<1>2. PICK o \in Ops :
        /\ intent' = [intent EXCEPT ![o].state = "pending_delivery"]
        /\ outbox' = [outbox EXCEPT ![o] = "pending"]
        /\ loc' = [loc EXCEPT ![w].op = o, ![w].snap = b]
        /\ pc' = [pc EXCEPT ![w] = "admitted"]
  BY <1>1 DEF CreateBinding, Fresh
<1>3. RowsOK'
  <2>1. [intent[o] EXCEPT !.state = "pending_delivery"] \in Intents
    BY DEF RowsOK, Intents, Reserving
  <2>2. intent' \in [Ops -> Intents]
    BY <1>2, <2>1 DEF RowsOK
  <2> QED BY <1>1, <1>2, <2>2 DEF RowsOK
<1>4. WorkersOK'
  <2> DEFINE l == [loc[w] EXCEPT !.op = o, !.snap = b]
  <2>1. l \in Locs /\ l.op = o
    BY DEF WorkersOK, Locs
  <2>2. loc' = [loc EXCEPT ![w] = l]
    BY <1>2
  <2> HIDE DEF l
  <2>3. "admitted" \in Steps
    BY DEF Steps
  <2> QED BY <1>2, <2>1, <2>2, <2>3, MoveTypes
<1> QED BY <1>3, <1>4, WorkerStepTypes DEF CreateBinding

LEMMA LoadBindingTypes ==
    ASSUME TypeInv, NEW w \in Workers, NEW r \in Requests, LoadBinding(w, r)
    PROVE  TypeInv'
<1> USE DEF TypeInv, LoadBinding, acVars
<1>1. RowsOK'
  BY DEF RowsOK
<1>2. WorkersOK'
  <2> DEFINE l == [loc[w] EXCEPT !.req = r, !.snap = binding]
  <2>1. l \in Locs /\ l.req = r
    BY DEF RowsOK, WorkersOK, Locs
  <2>2. loc' = [loc EXCEPT ![w] = l] /\ pc' = [pc EXCEPT ![w] = "loaded"]
    OBVIOUS
  <2> HIDE DEF l
  <2>3. "loaded" \in Steps /\ "loaded" \in Early
    BY DEF Steps, Early
  <2> QED BY <2>1, <2>2, <2>3, MoveTypes
<1> QED BY <1>1, <1>2, WorkerStepTypes

LEMMA MarkDeletingTypes ==
    ASSUME TypeInv, NEW w \in Workers, MarkDeleting(w)
    PROVE  TypeInv'
<1> USE DEF TypeInv, MarkDeleting
<1>1. binding' \in Bindings
  BY SetStatusTypes DEF RowsOK
<1>2. RowsOK'
  BY <1>1 DEF RowsOK
<1>3. loc[w].req \in Requests
  BY DEF WorkersOK, Knows
<1>4. CASE Stop(w)
  BY <1>2, <1>4, StopTypes, WorkerStepTypes
<1>5. ASSUME NEW step \in {"drop_local", "admit_delete"}, Goto(w, step)
      PROVE  WorkersOK'
  BY <1>3, <1>5, GotoTypes DEF Steps, Early
<1>6. CASE ~Stop(w)
  <2>1. \E step \in {"drop_local", "admit_delete"} : Goto(w, step)
    BY <1>6
  <2> QED BY <1>2, <1>5, <2>1, WorkerStepTypes
<1> QED BY <1>4, <1>6

LEMMA DropLocalTypes ==
    ASSUME TypeInv, NEW w \in Workers, DropLocal(w)
    PROVE  TypeInv'
<1> USE DEF TypeInv, DropLocal
<1>1. binding' \in Bindings
  BY SetStatusTypes DEF RowsOK, DeleteBinding
<1>2. RowsOK'
  BY <1>1 DEF RowsOK
<1>3. WorkersOK'
  BY StopTypes
<1> QED BY <1>2, <1>3, WorkerStepTypes

LEMMA ReqKindTypes ==
    ASSUME TypeInv, NEW w \in Workers, loc[w].req \in Requests
    PROVE  ReqKind(w) \in Kinds
  BY CredentialAssumption DEF ReqKind, Kinds

LEMMA AdmitTypes ==
    ASSUME TypeInv, NEW w \in Workers, Admit(w)
    PROVE  TypeInv'
<1> USE DEF TypeInv
<1>1. CASE Stop(w) /\ UNCHANGED <<intent, outbox>>
  <2>1. RowsOK'
    BY <1>1 DEF RowsOK, Admit
  <2>2. WorkersOK'
    BY <1>1, StopTypes
  <2> QED BY <2>1, <2>2, WorkerStepTypes DEF Admit
<1>2. CASE ~(Stop(w) /\ UNCHANGED <<intent, outbox>>)
  <2>1. PICK o \in Ops :
          /\ intent' = [p \in Ops |->
               CASE p = o -> [state |-> "pending_delivery", kind |-> ReqKind(w),
                              pre |-> loc[w].snap.gen, reason |-> ""]
                 [] p \in Reserved -> [intent[p] EXCEPT !.state = "superseded"]
                 [] OTHER -> intent[p]]
          /\ outbox' = [p \in Ops |->
               CASE p = o -> "pending"
                 [] p \in Reserved -> "completed"
                 [] OTHER -> outbox[p]]
          /\ loc' = [loc EXCEPT ![w].op = o]
          /\ pc' = [pc EXCEPT ![w] = "admitted"]
    BY <1>2 DEF Admit, Fresh
  <2>2. [state |-> "pending_delivery", kind |-> ReqKind(w),
         pre |-> loc[w].snap.gen, reason |-> ""] \in Intents
    <3>1. ReqKind(w) \in Kinds
      BY ReqKindTypes DEF Admit, WorkersOK, Knows
    <3>2. loc[w].snap.gen \in Nat
      BY DEF WorkersOK, Locs, Bindings
    <3> QED BY <3>1, <3>2 DEF Intents, Reserving, Reasons
  <2>3. \A p \in Ops : [intent[p] EXCEPT !.state = "superseded"] \in Intents
    BY DEF RowsOK, Intents, Released
  <2>4. intent' \in [Ops -> Intents]
    BY <2>1, <2>2, <2>3 DEF RowsOK
  <2>5. outbox' \in [Ops -> {"none", "pending", "completed", "dead_letter"}]
    BY <2>1 DEF RowsOK
  <2>6. WorkersOK'
    <3> DEFINE l == [loc[w] EXCEPT !.op = o]
    <3>1. l \in Locs /\ l.op = o
      BY DEF WorkersOK, Locs
    <3>2. loc' = [loc EXCEPT ![w] = l]
      BY <2>1
    <3> HIDE DEF l
    <3>3. "admitted" \in Steps
      BY DEF Steps
    <3> QED BY <2>1, <3>1, <3>2, <3>3, MoveTypes
  <2> QED BY <2>4, <2>5, <2>6, WorkerStepTypes DEF RowsOK, Admit
<1> QED BY <1>1, <1>2

LEMMA DeleteUnavailableTypes ==
    ASSUME TypeInv, NEW w \in Workers, DeleteUnavailable(w)
    PROVE  TypeInv'
<1> USE DEF TypeInv, DeleteUnavailable
<1>1. RowsOK'
  BY SetStatusTypes DEF RowsOK
<1>2. WorkersOK'
  BY StopTypes
<1> QED BY <1>1, <1>2, WorkerStepTypes

-----------------------------------------------------------------------------
\* Replies and projections.

LEMMA KnowsItsOperation ==
    ASSUME TypeInv, NEW w \in Workers, pc[w] \notin Early
    PROVE  loc[w].op \in Ops
  BY DEF TypeInv, WorkersOK, Knows

LEMMA TransitionRows ==
    ASSUME RowsOK, NEW o \in Ops, NEW to \in Reserving \union Released,
           NEW reason \in Reasons, Transition(o, to, reason), binding' \in Bindings
    PROVE  RowsOK'
  BY TransitionTypes DEF RowsOK

LEMMA BindingRows ==
    ASSUME RowsOK, binding' \in Bindings, UNCHANGED <<intent, outbox>>
    PROVE  RowsOK'
  BY DEF RowsOK

LEMMA ReplyTypes ==
    ASSUME TypeInv, NEW w \in Workers, Reply(w)
    PROVE  TypeInv'
<1> USE DEF TypeInv
<1> DEFINE o == loc[w].op
<1>b. binding \in Bindings
  BY DEF RowsOK
<1>o. o \in Ops
  BY KnowsItsOperation DEF Reply, TicketFails, Send, SendCompensation, ReplyOk, ReplyUnknown,
     ReplyInvalid, ReplyRefused, Drop, MarkFailed, PersistOutcome, PersistFails,
     MarkSucceeded, CompensationOk, CompensationFails, ShowDupFailed, DropCompensated, Early
<1>s. \A step \in Steps \ Early : Goto(w, step) => WorkersOK'
  BY <1>o, GotoTypes DEF Early
<1>z. Stop(w) => WorkersOK'
  BY StopTypes
<1>t. ASSUME NEW to \in Reserving \union Released, NEW reason \in Reasons,
             Transition(o, to, reason), binding' \in Bindings
      PROVE  RowsOK'
  BY <1>o, <1>t, TransitionRows
<1> HIDE DEF o
<1> USE DEF Reserving, Released, Reasons, Steps, Early
<1>1. CASE TicketFails(w)
  <2>1. RowsOK'
    BY <1>1 DEF TicketFails, acVars, RowsOK
  <2>2. WorkersOK'
    BY <1>1, <1>s, <1>z DEF TicketFails
  <2> QED BY <1>1, <2>1, <2>2, WorkerStepTypes DEF TicketFails
<1>2. CASE Send(w)
  <2>1. RowsOK'
    BY <1>2 DEF Send, acVars, RowsOK
  <2>2. WorkersOK'
    BY <1>2, <1>s DEF Send
  <2>3. net' \subseteq Workers \X Ids
    BY <1>2, <1>o DEF Send, Main, Ids, o
  <2> QED BY <1>2, <2>1, <2>2, <2>3, WorkerStepTypes DEF Send
<1>3. CASE SendCompensation(w)
  <2>1. RowsOK'
    BY <1>3 DEF SendCompensation, acVars, RowsOK
  <2>2. WorkersOK'
    BY <1>3, <1>s DEF SendCompensation
  <2>3. net' \subseteq Workers \X Ids
    BY <1>3, <1>o DEF SendCompensation, Comp, Ids, o
  <2> QED BY <1>3, <2>1, <2>2, <2>3, WorkerStepTypes DEF SendCompensation
<1>4. CASE ReplyOk(w)
  <2>1. RowsOK'
    BY <1>4, <1>b, <1>t DEF ReplyOk, o
  <2>2. WorkersOK'
    BY <1>4, <1>s, <1>z DEF ReplyOk, GotoIf
  <2> QED BY <1>4, <2>1, <2>2, WorkerStepTypes DEF ReplyOk, Consumed
<1>5. CASE ReplyUnknown(w)
  <2>1. RowsOK'
    BY <1>5, <1>b, <1>t DEF ReplyUnknown, o
  <2> QED BY <1>5, <1>z, <2>1, WorkerStepTypes DEF ReplyUnknown
<1>6. CASE ReplyInvalid(w)
  <2>1. RowsOK'
    BY <1>6, <1>b, <1>t, SetStatusTypes, BindingRows DEF ReplyInvalid, ProjectLater, o
  <2>2. WorkersOK'
    BY <1>6, <1>s, <1>z DEF ReplyInvalid, ProjectLater
  <2> QED BY <1>6, <2>1, <2>2, WorkerStepTypes DEF ReplyInvalid, Consumed
<1>7. CASE ReplyRefused(w)
  <2>1. RowsOK'
    BY <1>7, <1>b, <1>t, SetStatusTypes, BindingRows DEF ReplyRefused, ProjectLater, acVars, o
  <2>2. WorkersOK'
    BY <1>7, <1>s, <1>z DEF ReplyRefused, ProjectLater
  <2> QED BY <1>7, <2>1, <2>2, WorkerStepTypes DEF ReplyRefused, Consumed
<1>8. CASE Drop(w)
  <2>1. RowsOK'
    BY <1>8, <1>b, <1>t, SetStatusTypes, BindingRows DEF Drop, DeleteBinding, o
  <2>2. WorkersOK'
    BY <1>8, <1>s, <1>z DEF Drop
  <2> QED BY <1>8, <2>1, <2>2, WorkerStepTypes DEF Drop
<1>9. CASE MarkFailed(w)
  <2>1. RowsOK'
    BY <1>9, <1>b, <1>t DEF MarkFailed, o
  <2> QED BY <1>9, <1>z, <2>1, WorkerStepTypes DEF MarkFailed
<1>10. CASE PersistOutcome(w)
  <2>1. binding' \in Bindings
    BY <1>10, <1>b, <1>o, SetStatusTypes, PersistSummaryTypes, GenerationsAreNaturals
       DEF PersistOutcome, DeleteBinding, o
  <2>2. RowsOK'
    BY <1>10, <2>1, BindingRows DEF PersistOutcome
  <2>3. WorkersOK'
    BY <1>10, <1>s, <1>z DEF PersistOutcome, GotoIf
  <2> QED BY <1>10, <2>2, <2>3, WorkerStepTypes DEF PersistOutcome
<1>11. CASE PersistFails(w)
  <2>1. RowsOK'
    BY <1>11, <1>b, SetStatusTypes, BindingRows DEF PersistFails
  <2> QED BY <1>11, <1>z, <2>1, WorkerStepTypes DEF PersistFails
<1>12. CASE MarkSucceeded(w)
  <2>1. RowsOK'
    BY <1>12, <1>b, <1>t DEF MarkSucceeded, o
  <2> QED BY <1>12, <1>z, <2>1, WorkerStepTypes DEF MarkSucceeded
<1>13. CASE CompensationOk(w)
  <2>1. RowsOK'
    BY <1>13, <1>b, <1>t DEF CompensationOk, o
  <2>2. WorkersOK'
    BY <1>13, <1>s, <1>z DEF CompensationOk, GotoIf
  <2> QED BY <1>13, <2>1, <2>2, WorkerStepTypes DEF CompensationOk, Consumed
<1>14. CASE CompensationFails(w)
  <2>1. RowsOK'
    BY <1>14, <1>b, <1>t DEF CompensationFails, o
  <2>2. WorkersOK'
    BY <1>14, <1>s, <1>z DEF CompensationFails, GotoIf
  <2> QED BY <1>14, <2>1, <2>2, WorkerStepTypes DEF CompensationFails
<1>15. CASE ShowDupFailed(w)
  <2>1. RowsOK'
    BY <1>15, <1>b, SetStatusTypes, BindingRows DEF ShowDupFailed
  <2> QED BY <1>15, <1>z, <2>1, WorkerStepTypes DEF ShowDupFailed
<1>16. CASE DropCompensated(w)
  <2>1. RowsOK'
    BY <1>16, <1>b, SetStatusTypes, BindingRows DEF DropCompensated, DeleteBinding
  <2>2. WorkersOK'
    BY <1>16, <1>s, <1>z DEF DropCompensated, GotoIf
  <2> QED BY <1>16, <2>1, <2>2, WorkerStepTypes DEF DropCompensated
<1> QED
  BY <1>1, <1>2, <1>3, <1>4, <1>5, <1>6, <1>7, <1>8, <1>9, <1>10, <1>11, <1>12, <1>13,
     <1>14, <1>15, <1>16 DEF Reply

-----------------------------------------------------------------------------
\* The reconciler.

LEMMA BeginTypes ==
    ASSUME TypeInv, NEW w \in Workers, NEW o \in Ops,
           NEW step \in Steps \ Early, Begin(w, o, step)
    PROVE  WorkersOK'
<1>1. [loc[w] EXCEPT !.op = o, !.seen = intent[o]] \in Locs
  BY DEF TypeInv, RowsOK, WorkersOK, Locs
<1>2. [loc[w] EXCEPT !.op = o, !.seen = intent[o]].op = o
  BY DEF TypeInv, WorkersOK, Locs
<1>3. loc' = [loc EXCEPT ![w] = [loc[w] EXCEPT !.op = o, !.seen = intent[o]]]
  BY DEF Begin
<1> QED BY <1>1, <1>2, <1>3, MoveTypes DEF TypeInv, Begin, Early

LEMMA ClaimTypes ==
    ASSUME TypeInv, NEW w \in Workers, NEW o \in Ops,
           ClaimExpired(w, o) \/ ClaimProjected(w, o) \/ ClaimOpen(w, o)
    PROVE  TypeInv'
<1> USE DEF TypeInv
<1>b. binding \in Bindings
  BY DEF RowsOK
<1>u. UNCHANGED <<pc, loc>> => WorkersOK'
  BY DEF WorkersOK, Knows
<1>1. CASE ClaimExpired(w, o)
  <2>1. RowsOK'
    BY <1>1, RecordTypes DEF ClaimExpired, RowsOK, Released, Reasons
  <2> QED BY <1>1, <1>u, <2>1, WorkerStepTypes DEF ClaimExpired
<1>2. CASE ClaimProjected(w, o)
  <2>1. RowsOK'
    BY <1>2, <1>b, TransitionRows DEF ClaimProjected, Reserving, Released, Reasons
  <2>2. WorkersOK'
    BY <1>2, <1>u, BeginTypes DEF ClaimProjected, Steps, Early
  <2> QED BY <1>2, <2>1, <2>2, WorkerStepTypes DEF ClaimProjected
<1>3. CASE ClaimOpen(w, o)
  <2>1. RowsOK'
    BY <1>3 DEF ClaimOpen, acVars, RowsOK
  <2>2. WorkersOK'
    <3>1. CASE Begin(w, o, "admitted")
      BY <3>1, BeginTypes DEF Steps, Early
    <3>2. CASE Begin(w, o, "resolve")
      BY <3>2, BeginTypes DEF Steps, Early
    <3> QED BY <1>3, <3>1, <3>2 DEF ClaimOpen
  <2> QED BY <1>3, <2>1, <2>2, WorkerStepTypes DEF ClaimOpen
<1> QED BY <1>1, <1>2, <1>3

LEMMA ResolvedTypes ==
    ASSUME PlatformOK, NEW id \in Ids, NEW a \in Answers, Resolved(id, a)
    PROVE  PlatformOK'
  BY DEF PlatformOK, Resolved

LEMMA ReconcileTypes ==
    ASSUME TypeInv, NEW w \in Workers, Reconcile(w)
    PROVE  TypeInv'
<1> USE DEF TypeInv
<1> DEFINE o == loc[w].op
<1>b. binding \in Bindings
  BY DEF RowsOK
<1>c. ASSUME NEW q \in Ops, ClaimExpired(w, q) \/ ClaimProjected(w, q) \/ ClaimOpen(w, q)
      PROVE  TypeInv'
  BY <1>c, ClaimTypes
<1>o. pc[w] \notin Early => o \in Ops
  BY KnowsItsOperation
<1>s. pc[w] \notin Early => \A step \in Steps \ Early : Goto(w, step) => WorkersOK'
  BY <1>o, GotoTypes DEF Early
<1>z. Stop(w) => WorkersOK'
  BY StopTypes
<1>t. ASSUME NEW to \in Reserving \union Released, NEW reason \in Reasons,
             pc[w] \notin Early, Transition(o, to, reason), binding' \in Bindings
      PROVE  RowsOK'
  BY <1>o, <1>t, TransitionRows
<1>r. ASSUME NEW a \in Answers, pc[w] \notin Early, Resolved(Main(o), a) \/ Resolved(Comp(o), a)
      PROVE  PlatformOK'
  <2>1. Main(o) \in Ids /\ Comp(o) \in Ids
    BY <1>o, <1>r DEF Main, Comp, Ids
  <2> QED BY <1>r, <2>1, ResolvedTypes
<1>p. UNCHANGED pmVars => PlatformOK'
  BY DEF PlatformOK, pmVars
<1> HIDE DEF o
<1> USE DEF Reserving, Released, Reasons, Steps, Early
<1>1. ASSUME NEW a \in Answers, ResolveAnswered(w, a)
      PROVE  TypeInv'
  <2>1. RowsOK'
    BY <1>1, <1>b, <1>t, BindingRows DEF ResolveAnswered, o
  <2>2. WorkersOK'
    BY <1>1, <1>s, <1>z DEF ResolveAnswered, GotoIf
  <2>3. PlatformOK'
    BY <1>1, <1>r DEF ResolveAnswered, o
  <2> QED BY <1>1, <2>1, <2>2, <2>3 DEF ResolveAnswered
<1>2. CASE ResolveUnknown(w)
  <2>1. RowsOK'
    BY <1>2, <1>b, <1>t DEF ResolveUnknown, o
  <2>2. PlatformOK'
    BY <1>2, <1>p, <1>r DEF ResolveUnknown, o
  <2> QED BY <1>2, <1>z, <2>1, <2>2 DEF ResolveUnknown
<1>3. CASE ResolveRejected(w)
  <2>1. RowsOK'
    BY <1>3, <1>b, <1>t DEF ResolveRejected, o
  <2> QED BY <1>3, <1>z, <2>1, WorkerStepTypes DEF ResolveRejected
<1>4. CASE PersistFailure(w)
  <2>1. intent[o].kind \in Kinds
    BY <1>4, <1>o DEF RowsOK, Intents, PersistFailure
  <2>2. binding' \in Bindings
    BY <1>4, <1>b, <2>1, SetStatusTypes DEF PersistFailure, DeleteBinding, Kinds, o
  <2>3. RowsOK'
    BY <1>4, <2>2, BindingRows DEF PersistFailure
  <2>4. WorkersOK'
    BY <1>4, <1>s, <1>z DEF PersistFailure, GotoIf
  <2> QED BY <1>4, <2>3, <2>4, WorkerStepTypes DEF PersistFailure
<1>5. CASE ReadProof(w)
  <2>1. RowsOK'
    BY <1>5 DEF ReadProof, acVars, RowsOK
  <2>2. CASE Stop(w)
    BY <1>5, <1>z, <2>1, <2>2, WorkerStepTypes DEF ReadProof
  <2>3. CASE ~Stop(w)
    <3>1. PICK step \in {"retry", "confirm"} :
             /\ loc' = [loc EXCEPT ![w] = [loc[w] EXCEPT !.proof = cred]]
             /\ pc' = [pc EXCEPT ![w] = step]
      BY <1>5, <2>3 DEF ReadProof
    <3>2. [loc[w] EXCEPT !.proof = cred] \in Locs
      BY DEF PlatformOK, WorkersOK, Locs
    <3>3. [loc[w] EXCEPT !.proof = cred].op = o
      BY DEF WorkersOK, Locs, o
    <3>4. o \in Ops
      BY <1>5, <1>o DEF ReadProof
    <3>5. WorkersOK'
      BY <3>1, <3>2, <3>3, <3>4, MoveTypes
    <3> QED BY <1>5, <2>1, <3>5, WorkerStepTypes DEF ReadProof
  <2> QED BY <2>2, <2>3
<1>6. CASE RetryNonSensitive(w)
  <2>1. CASE UNCHANGED <<intent, outbox>>
    BY <1>6, <1>b, <1>z, <2>1, BindingRows, WorkerStepTypes DEF RetryNonSensitive
  <2>2. CASE ~UNCHANGED <<intent, outbox>>
    <3>1. PICK n \in Ops :
            /\ intent' = [intent EXCEPT
                 ![o].state = "superseded", ![o].reason = "not_received_retry",
                 ![n] = [intent[o] EXCEPT !.state = "pending_delivery", !.reason = ""]]
            /\ outbox' = [outbox EXCEPT ![o] = "completed", ![n] = "pending"]
      BY <1>6, <2>2 DEF RetryNonSensitive, Fresh, o
    <3>o. intent[o] \in Intents
      BY <1>6, <1>o DEF RetryNonSensitive, RowsOK
    <3>2. [intent[o] EXCEPT !.state = "pending_delivery", !.reason = ""] \in Intents
      BY <3>o DEF Intents, Reasons
    <3>3. [intent[o] EXCEPT !.state = "superseded", !.reason = "not_received_retry"] \in Intents
      BY <3>o DEF Intents, Reasons
    <3>4. RowsOK'
      BY <1>6, <1>b, <1>o, <3>1, <3>2, <3>3 DEF RetryNonSensitive, RowsOK
    <3> QED BY <1>6, <1>z, <3>4, WorkerStepTypes DEF RetryNonSensitive
  <2> QED BY <2>1, <2>2
<1>7. CASE RetryDisproved(w)
  <2>1. RowsOK'
    BY <1>7, <1>b, <1>t, SetStatusTypes, BindingRows DEF RetryDisproved, DeleteBinding, o
  <2>2. WorkersOK'
    BY <1>7, <1>s, <1>z DEF RetryDisproved
  <2> QED BY <1>7, <2>1, <2>2, WorkerStepTypes DEF RetryDisproved
<1>8. CASE DeleteAbsent(w)
  <2>1. RowsOK'
    BY <1>8, <1>b, <1>t DEF DeleteAbsent, o
  <2>2. WorkersOK'
    BY <1>8, <1>s, <1>z DEF DeleteAbsent, GotoIf
  <2> QED BY <1>8, <2>1, <2>2, WorkerStepTypes DEF DeleteAbsent
<1>9. CASE Confirm(w)
  <2>1. RowsOK'
    BY <1>9, <1>b, <1>t, SetStatusTypes, BindingRows DEF Confirm, acVars, o
  <2>2. WorkersOK'
    BY <1>9, <1>s, <1>z DEF Confirm, GotoIf
  <2> QED BY <1>9, <2>1, <2>2, WorkerStepTypes DEF Confirm
<1>10. CASE MarkInputRequired(w)
  <2>1. RowsOK'
    BY <1>10, <1>b, <1>t DEF MarkInputRequired, o
  <2> QED BY <1>10, <1>z, <2>1, WorkerStepTypes DEF MarkInputRequired
<1>11. CASE MarkInconsistent(w)
  <2>1. RowsOK'
    BY <1>11, <1>b, <1>t DEF MarkInconsistent, o
  <2> QED BY <1>11, <1>z, <2>1, WorkerStepTypes DEF MarkInconsistent
<1>12. CASE ResolveCompensation(w)
  <2>1. RowsOK'
    BY <1>12, <1>b, <1>t, BindingRows DEF ResolveCompensation, o
  <2>2. WorkersOK'
    BY <1>12, <1>s, <1>z DEF ResolveCompensation, GotoIf
  <2>3. PlatformOK'
    BY <1>12, <1>p, <1>r DEF ResolveCompensation, o
  <2> QED BY <1>12, <2>1, <2>2, <2>3 DEF ResolveCompensation
<1> QED
  BY <1>c, <1>1, <1>2, <1>3, <1>4, <1>5, <1>6, <1>7, <1>8, <1>9, <1>10, <1>11, <1>12
     DEF Reconcile

-----------------------------------------------------------------------------
\* The platform, the outbox, and the invariant.

LEMMA PlatformTypes ==
    ASSUME TypeInv, Platform
    PROVE  TypeInv'
<1> USE DEF TypeInv, RowsOK, PlatformOK, WorkersOK, Knows, acVars
<1>1. PICK id \in Ids :
        \/ \E w \in Workers : PMAdmit(w, id) \/ Lost(w, id)
        \/ PMCommit(id) \/ PMFail(id) \/ PMDie(id)
  BY DEF Platform
<1>2. ASSUME NEW w \in Workers, PMAdmit(w, id)
      PROVE  TypeInv'
  BY <1>2 DEF PMAdmit, Answers
<1>3. ASSUME NEW w \in Workers, Lost(w, id)
      PROVE  TypeInv'
  BY <1>3 DEF Lost, pmVars
<1>4. CASE PMCommit(id)
  <2>1. Kind(id) \in Kinds
    BY DEF Kind, Ids, Intents, Kinds
  <2>2. Mutation(id)
    BY <1>4 DEF PMCommit
  <2>3. cred' \in Creds
    <3>1. CASE Kind(id) = "BIND"
      <4>1. cred' = [exists |-> TRUE, gen |-> 1]
        BY <2>2, <3>1, Zenon DEF Mutation
      <4> QED BY <4>1 DEF Creds
    <3>2. CASE Kind(id) \in {"REPLACE", "REFRESH"}
      <4>1. cred' = [cred EXCEPT !.gen = @ + 1]
        BY <2>2, <3>2 DEF Mutation
      <4> QED BY <4>1 DEF Creds
    <3>3. CASE Kind(id) = "SET_PRIMARY"
      BY <2>2, <3>3 DEF Mutation
    <3>4. CASE Kind(id) = "DELETE"
      BY <2>2, <3>4, EmptyValuesTyped DEF Mutation
    <3> QED BY <2>1, <3>1, <3>2, <3>3, <3>4 DEF Kinds
  <2> QED BY <1>4, <2>3 DEF PMCommit, Answers
<1>5. CASE PMFail(id)
  BY <1>5 DEF PMFail, Answers
<1>6. CASE PMDie(id)
  BY <1>6 DEF PMDie
<1> QED BY <1>1, <1>2, <1>3, <1>4, <1>5, <1>6

LEMMA WorkerTypes ==
    ASSUME TypeInv, NEW w \in Workers, Request(w) \/ Reply(w) \/ Reconcile(w) \/ Crash(w)
    PROVE  TypeInv'
<1>1. CASE Crash(w)
  <2>1. RowsOK'
    BY <1>1 DEF TypeInv, Crash, acVars, RowsOK
  <2>2. WorkersOK'
    BY <1>1, StopTypes DEF TypeInv, Crash
  <2> QED BY <1>1, <2>1, <2>2, WorkerStepTypes DEF TypeInv, Crash
<1>2. CASE Request(w)
  BY <1>2, CreateBindingTypes, LoadBindingTypes, MarkDeletingTypes, DropLocalTypes,
     AdmitTypes, DeleteUnavailableTypes DEF Request
<1> QED BY <1>1, <1>2, ReplyTypes, ReconcileTypes

LEMMA OutboxTypes ==
    ASSUME TypeInv, NEW o \in Ops, DeadLetter(o) \/ RequeueDeadLetter(o)
    PROVE  TypeInv'
  BY DEF TypeInv, RowsOK, PlatformOK, WorkersOK, Knows, pmVars, DeadLetter, RequeueDeadLetter

LEMMA InitTypes == Init => TypeInv
<1> SUFFICES ASSUME Init PROVE TypeInv
  OBVIOUS
<1>1. RowsOK
  BY EmptyValuesTyped DEF Init, RowsOK
<1>2. PlatformOK
  BY EmptyValuesTyped DEF Init, PlatformOK
<1>3. NoLoc \in Locs
  BY EmptyValuesTyped DEF NoLoc, Locs
<1>4. WorkersOK
  BY <1>3 DEF Init, WorkersOK, Knows, Steps, Early
<1> QED BY <1>1, <1>2, <1>4 DEF Init, TypeInv

LEMMA StepTypes == TypeInv /\ [Next]_vars => TypeInv'
<1> SUFFICES ASSUME TypeInv, [Next]_vars PROVE TypeInv'
  OBVIOUS
<1>1. CASE UNCHANGED vars
  BY <1>1 DEF vars, acVars, pmVars, TypeInv, RowsOK, PlatformOK, WorkersOK, Knows
<1>2. CASE Next
  BY <1>2, WorkerTypes, PlatformTypes, OutboxTypes DEF Next
<1> QED BY <1>1, <1>2

LEMMA TypeInvariant == Spec => []TypeInv
  BY InitTypes, StepTypes, PTL DEF Spec

\* Rows, ledger, messages and workers keep their types, whatever the number of
\* operations and workers.
THEOREM TypeCorrect == Spec => []TypeOK
<1>1. TypeInv => TypeOK
  BY DEF TypeInv, RowsOK, PlatformOK, WorkersOK, Locs, TypeOK
<1> QED BY <1>1, TypeInvariant, PTL

-----------------------------------------------------------------------------
\* How a step may move the intents: no new reservation, and a released intent
\* stays as it is.

Moves ==
    /\ \A p \in Ops : intent[p].state \in Released => intent'[p] = intent[p]
    /\ Reserved' \subseteq Reserved

LEMMA RecordMoves ==
    ASSUME RowsOK, NEW o \in Ops, intent[o].state \in Reserving,
           NEW to \in Reserving \union Released, NEW reason \in Reasons,
           Record(o, to, reason)
    PROVE  Moves
<1>1. \A p \in Ops \ {o} : intent'[p] = intent[p]
  BY DEF RowsOK, Record
<1> QED BY <1>1 DEF Moves, Reserved, Reserving, Released

LEMMA TransitionMoves ==
    ASSUME RowsOK, NEW o \in Ops, NEW to \in DOMAIN AllowedFrom,
           NEW reason \in Reasons, Transition(o, to, reason)
    PROVE  Moves
<1>1. CASE intent[o].state \in AllowedFrom[to]
  <2>1. intent[o].state \in Reserving /\ to \in Reserving \union Released
    BY <1>1 DEF AllowedFrom, Reserving, Released
  <2> QED BY <1>1, <2>1, RecordMoves DEF Transition
<1>2. CASE intent[o].state \notin AllowedFrom[to]
  BY <1>2 DEF Transition, Moves, Reserved
<1> QED BY <1>1, <1>2

LEMMA ReplyMoves ==
    ASSUME TypeInv, NEW w \in Workers, Reply(w)
    PROVE  Moves
<1> DEFINE o == loc[w].op
<1>o. o \in Ops
  BY KnowsItsOperation DEF Reply, TicketFails, Send, SendCompensation, ReplyOk, ReplyUnknown,
     ReplyInvalid, ReplyRefused, Drop, MarkFailed, PersistOutcome, PersistFails,
     MarkSucceeded, CompensationOk, CompensationFails, ShowDupFailed, DropCompensated, Early
<1>u. UNCHANGED intent => Moves
  BY DEF Moves, Reserved
<1>t. ASSUME NEW to \in {"uncertain", "projection_pending", "input_required",
                         "invariant_violation", "succeeded", "failed"},
             NEW reason \in Reasons, Transition(o, to, reason)
      PROVE  Moves
  <2>1. to \in DOMAIN AllowedFrom
    BY DEF AllowedFrom
  <2> QED BY <1>o, <1>t, <2>1, TransitionMoves DEF TypeInv
<1> HIDE DEF o
<1> USE DEF Reasons
<1>1. CASE TicketFails(w)
  BY <1>1, <1>t, <1>u DEF TicketFails, acVars, o
<1>2. CASE Send(w)
  BY <1>2, <1>t, <1>u DEF Send, acVars, o
<1>3. CASE SendCompensation(w)
  BY <1>3, <1>t, <1>u DEF SendCompensation, acVars, o
<1>4. CASE ReplyOk(w)
  BY <1>4, <1>t, <1>u DEF ReplyOk, o
<1>5. CASE ReplyUnknown(w)
  BY <1>5, <1>t, <1>u DEF ReplyUnknown, o
<1>6. CASE ReplyInvalid(w)
  BY <1>6, <1>t, <1>u DEF ReplyInvalid, ProjectLater, o
<1>7. CASE ReplyRefused(w)
  BY <1>7, <1>t, <1>u DEF ReplyRefused, ProjectLater, acVars, o
<1>8. CASE Drop(w)
  BY <1>8, <1>t, <1>u DEF Drop, o
<1>9. CASE MarkFailed(w)
  BY <1>9, <1>t, <1>u DEF MarkFailed, o
<1>10. CASE PersistOutcome(w)
  BY <1>10, <1>t, <1>u DEF PersistOutcome, o
<1>11. CASE PersistFails(w)
  BY <1>11, <1>t, <1>u DEF PersistFails, o
<1>12. CASE MarkSucceeded(w)
  BY <1>12, <1>t, <1>u DEF MarkSucceeded, o
<1>13. CASE CompensationOk(w)
  BY <1>13, <1>t, <1>u DEF CompensationOk, o
<1>14. CASE CompensationFails(w)
  BY <1>14, <1>t, <1>u DEF CompensationFails, o
<1>15. CASE ShowDupFailed(w)
  BY <1>15, <1>t, <1>u DEF ShowDupFailed, o
<1>16. CASE DropCompensated(w)
  BY <1>16, <1>t, <1>u DEF DropCompensated, o
<1> QED
  BY <1>1, <1>2, <1>3, <1>4, <1>5, <1>6, <1>7, <1>8, <1>9, <1>10, <1>11, <1>12, <1>13,
     <1>14, <1>15, <1>16 DEF Reply

LEMMA ClaimMoves ==
    ASSUME TypeInv, NEW w \in Workers, NEW o \in Ops,
           ClaimExpired(w, o) \/ ClaimProjected(w, o) \/ ClaimOpen(w, o)
    PROVE  Moves
<1>1. CASE ClaimExpired(w, o)
  BY <1>1, RecordMoves DEF TypeInv, ClaimExpired, Reserving, Released, Reasons
<1>2. CASE ClaimProjected(w, o)
  <2>1. {"projection_pending", "failed"} \subseteq DOMAIN AllowedFrom
    BY DEF AllowedFrom
  <2> QED BY <1>2, <2>1, TransitionMoves DEF TypeInv, ClaimProjected, Reasons
<1>3. CASE ClaimOpen(w, o)
  BY <1>3 DEF ClaimOpen, acVars, Moves, Reserved
<1> QED BY <1>1, <1>2, <1>3

\* All of the reconciler but the retry, which trades one reservation for another.
LEMMA ReconcileMoves ==
    ASSUME TypeInv, NEW w \in Workers, Reconcile(w), ~RetryNonSensitive(w)
    PROVE  Moves
<1> DEFINE o == loc[w].op
<1>u. UNCHANGED intent => Moves
  BY DEF Moves, Reserved
<1>c. ASSUME NEW q \in Ops, ClaimExpired(w, q) \/ ClaimProjected(w, q) \/ ClaimOpen(w, q)
      PROVE  Moves
  BY <1>c, ClaimMoves
<1>t. ASSUME pc[w] \notin Early,
             NEW to \in {"uncertain", "projection_pending", "input_required",
                         "invariant_violation", "succeeded", "failed"},
             NEW reason \in Reasons, Transition(o, to, reason)
      PROVE  Moves
  <2>1. to \in DOMAIN AllowedFrom
    BY DEF AllowedFrom
  <2>2. o \in Ops
    BY <1>t, KnowsItsOperation
  <2> QED BY <1>t, <2>1, <2>2, TransitionMoves DEF TypeInv
<1> HIDE DEF o
<1> USE DEF Reasons, Early
<1>1. ASSUME NEW a \in Answers, ResolveAnswered(w, a)
      PROVE  Moves
  BY <1>1, <1>t, <1>u DEF ResolveAnswered, o
<1>2. CASE ResolveUnknown(w)
  BY <1>2, <1>t, <1>u DEF ResolveUnknown, o
<1>3. CASE ResolveRejected(w)
  BY <1>3, <1>t, <1>u DEF ResolveRejected, o
<1>4. CASE PersistFailure(w)
  BY <1>4, <1>t, <1>u DEF PersistFailure, o
<1>5. CASE ReadProof(w)
  BY <1>5, <1>t, <1>u DEF ReadProof, acVars, o
<1>6. CASE RetryDisproved(w)
  BY <1>6, <1>t, <1>u DEF RetryDisproved, o
<1>7. CASE DeleteAbsent(w)
  BY <1>7, <1>t, <1>u DEF DeleteAbsent, o
<1>8. CASE Confirm(w)
  BY <1>8, <1>t, <1>u DEF Confirm, acVars, o
<1>9. CASE MarkInputRequired(w)
  BY <1>9, <1>t, <1>u DEF MarkInputRequired, o
<1>10. CASE MarkInconsistent(w)
  BY <1>10, <1>t, <1>u DEF MarkInconsistent, o
<1>11. CASE ResolveCompensation(w)
  BY <1>11, <1>t, <1>u DEF ResolveCompensation, o
<1> QED
  BY <1>c, <1>1, <1>2, <1>3, <1>4, <1>5, <1>6, <1>7, <1>8, <1>9, <1>10, <1>11 DEF Reconcile

LEMMA RetryKeepsReleased ==
    ASSUME TypeInv, NEW w \in Workers, RetryNonSensitive(w)
    PROVE  \A p \in Ops : intent[p].state \in Released => intent'[p] = intent[p]
  BY DEF TypeInv, RowsOK, RetryNonSensitive, Fresh, Reserving, Released

LEMMA AdmitKeepsReleased ==
    ASSUME TypeInv, NEW w \in Workers, Admit(w)
    PROVE  \A p \in Ops : intent[p].state \in Released => intent'[p] = intent[p]
  BY DEF Admit, Fresh, Reserved, Reserving, Released

LEMMA CreateKeepsReleased ==
    ASSUME TypeInv, NEW w \in Workers, CreateBinding(w)
    PROVE  \A p \in Ops : intent[p].state \in Released => intent'[p] = intent[p]
  BY DEF TypeInv, RowsOK, CreateBinding, Fresh, Released

\* What no other step changes.
LEMMA OtherStepsMove ==
    ASSUME TypeInv, [Next]_vars,
           \A w \in Workers : ~CreateBinding(w) /\ ~Admit(w) /\ ~RetryNonSensitive(w)
    PROVE  Moves
<1>u. UNCHANGED intent => Moves
  BY DEF Moves, Reserved
<1>1. CASE UNCHANGED vars
  BY <1>1, <1>u DEF vars, acVars
<1>2. ASSUME NEW w \in Workers, Request(w)
      PROVE  Moves
  BY <1>2, <1>u DEF Request, LoadBinding, MarkDeleting, DropLocal, DeleteUnavailable, acVars
<1>3. ASSUME NEW w \in Workers, Reply(w) \/ Reconcile(w) \/ Crash(w)
      PROVE  Moves
  BY <1>3, <1>u, ReplyMoves, ReconcileMoves DEF Crash, acVars
<1>4. CASE Platform
  BY <1>4, <1>u DEF Platform, PMAdmit, Lost, PMCommit, PMFail, PMDie, acVars
<1>5. ASSUME NEW o \in Ops, DeadLetter(o) \/ RequeueDeadLetter(o)
      PROVE  Moves
  BY <1>5, <1>u DEF DeadLetter, RequeueDeadLetter
<1> QED BY <1>1, <1>2, <1>3, <1>4, <1>5 DEF Next

\* A released intent stays as it is: no reply, reconciler or stalled request
\* reopens or rewrites it, even when leases and snapshots do not hold.
THEOREM ReleasedIsFinalHolds == Spec => ReleasedIsFinal
<1>1. TypeInv /\ [Next]_vars =>
        [\A o \in Ops : intent[o].state \in Released => intent'[o] = intent[o]]_vars
  BY OtherStepsMove, RetryKeepsReleased, AdmitKeepsReleased, CreateKeepsReleased DEF Moves
<1> QED BY <1>1, TypeInvariant, PTL DEF Spec, ReleasedIsFinal

-----------------------------------------------------------------------------
\* One reservation at a time.

\* Before the first request nothing has happened at all.
Untouched ==
    binding.status = "none" =>
        /\ \A o \in Ops : intent[o].state = "absent" /\ outbox[o] = "none"
        /\ \A w \in Workers : pc[w] = "idle"

OneReservation == \A p, q \in Reserved : p = q

Touched == binding.status # "none"

\* Everything that is written to the binding row is a later status.
LEMMA WritesTouch ==
    ASSUME TypeInv, Touched,
           \/ UNCHANGED binding
           \/ \E s \in {"credential_invalid", "refresh_required", "deleting",
                         "delete_failed", "cleanup_failed", "deleted"} : SetStatus(s)
           \/ \E g \in Nat : PersistSummary(g)
    PROVE  Touched'
<1>1. binding \in Bindings
  BY DEF TypeInv, RowsOK
<1> QED BY <1>1, SetStatusTypes DEF Touched, PersistSummary, Bindings

LEMMA ReplyTouches ==
    ASSUME TypeInv, Touched, NEW w \in Workers, Reply(w)
    PROVE  Touched'
<1>1. CASE UNCHANGED binding
  BY <1>1, WritesTouch
<1>2. CASE PersistOutcome(w)
  <2>1. loc[w].op \in Ops
    BY <1>2, KnowsItsOperation DEF PersistOutcome, Early
  <2>2. Target(loc[w].op) \in Nat
    BY <2>1, GenerationsAreNaturals DEF TypeInv
  <2> QED BY <1>2, <2>2, WritesTouch DEF PersistOutcome, DeleteBinding
<1>3. CASE ReplyInvalid(w) \/ ReplyRefused(w)
  BY <1>3, WritesTouch DEF ReplyInvalid, ReplyRefused, ProjectLater, acVars
<1>4. CASE Drop(w) \/ PersistFails(w) \/ ShowDupFailed(w) \/ DropCompensated(w)
  BY <1>4, WritesTouch DEF Drop, PersistFails, ShowDupFailed, DropCompensated, DeleteBinding
<1> QED
  BY <1>1, <1>2, <1>3, <1>4 DEF Reply, TicketFails, Send, SendCompensation, ReplyOk,
     ReplyUnknown, MarkFailed, MarkSucceeded, CompensationOk, CompensationFails, acVars

LEMMA ReconcileTouches ==
    ASSUME TypeInv, Touched, NEW w \in Workers, Reconcile(w)
    PROVE  Touched'
<1>1. CASE UNCHANGED binding
  BY <1>1, WritesTouch
<1>2. CASE PersistFailure(w)
  <2>1. intent[loc[w].op].kind \in Kinds
    BY <1>2, KnowsItsOperation DEF TypeInv, RowsOK, Intents, PersistFailure, Early
  <2> QED BY <1>2, <2>1, WritesTouch DEF PersistFailure, DeleteBinding, Kinds
<1>3. CASE RetryDisproved(w)
  BY <1>3, WritesTouch DEF RetryDisproved, DeleteBinding
<1>4. CASE Confirm(w)
  BY <1>4, WritesTouch DEF Confirm, acVars
<1> QED
  BY <1>1, <1>2, <1>3, <1>4 DEF Reconcile, ClaimExpired, ClaimProjected, ClaimOpen,
     ResolveAnswered, ResolveUnknown, ResolveRejected, ReadProof, RetryNonSensitive,
     DeleteAbsent, MarkInputRequired, MarkInconsistent, ResolveCompensation, acVars

LEMMA StepsTouch ==
    ASSUME TypeInv, Touched, [Next]_vars
    PROVE  Touched'
<1>1. CASE UNCHANGED binding
  BY <1>1, WritesTouch
<1>2. ASSUME NEW w \in Workers, Request(w)
      PROVE  Touched'
  BY <1>1, <1>2, WritesTouch DEF Request, CreateBinding, LoadBinding, MarkDeleting, DropLocal,
     Admit, DeleteUnavailable, DeleteBinding, acVars, Touched
<1>3. ASSUME NEW w \in Workers, Reply(w) \/ Reconcile(w)
      PROVE  Touched'
  BY <1>3, ReplyTouches, ReconcileTouches
<1> QED
  BY <1>1, <1>2, <1>3 DEF Next, Platform, PMAdmit, Lost, PMCommit, PMFail, PMDie, Crash,
     DeadLetter, RequeueDeadLetter, acVars, vars

\* Before that only the creation of the binding does anything.
LEMMA OnlyCreation ==
    ASSUME TypeInv, Untouched, ~Touched, [Next]_vars
    PROVE  \/ \E w \in Workers : CreateBinding(w)
           \/ UNCHANGED <<binding, intent, outbox, pc>>
<1>1. ASSUME NEW w \in Workers, Request(w)
      PROVE  CreateBinding(w)
  BY <1>1 DEF Untouched, Touched, Request, LoadBinding, MarkDeleting, DropLocal, Admit,
     DeleteUnavailable
<1>2. ASSUME NEW w \in Workers
      PROVE  ~Reply(w) /\ ~Crash(w)
  BY DEF Untouched, Touched, Reply, TicketFails, Send, SendCompensation, ReplyOk,
     ReplyUnknown, ReplyInvalid, ReplyRefused, Drop, MarkFailed, PersistOutcome,
     PersistFails, MarkSucceeded, CompensationOk, CompensationFails, ShowDupFailed,
     DropCompensated, Crash
<1>3. ASSUME NEW w \in Workers
      PROVE  ~Reconcile(w)
  BY DEF Untouched, Touched, Reconcile, ClaimExpired, ClaimProjected, ClaimOpen, Claim,
     Claimable, ResolveAnswered, ResolveUnknown, ResolveRejected, PersistFailure, ReadProof,
     RetryNonSensitive, RetryDisproved, DeleteAbsent, Confirm, MarkInputRequired,
     MarkInconsistent, ResolveCompensation
<1>4. ASSUME NEW o \in Ops
      PROVE  ~DeadLetter(o) /\ ~RequeueDeadLetter(o)
  BY DEF Untouched, Touched, DeadLetter, RequeueDeadLetter
<1>5. CASE Platform
  BY <1>5 DEF Platform, PMAdmit, Lost, PMCommit, PMFail, PMDie, acVars
<1> QED BY <1>1, <1>2, <1>3, <1>4, <1>5 DEF Next, vars, acVars

LEMMA UntouchedStep ==
    ASSUME TypeInv, Untouched, [Next]_vars
    PROVE  Untouched'
<1>1. CASE Touched
  BY <1>1, StepsTouch DEF Untouched, Touched
<1>2. ASSUME NEW w \in Workers, CreateBinding(w)
      PROVE  Touched'
  BY <1>2 DEF CreateBinding, Touched, TypeInv, RowsOK, Bindings
<1>3. CASE ~Touched
  BY <1>2, <1>3, OnlyCreation DEF Untouched, Touched
<1> QED BY <1>1, <1>3

LEMMA ReservationStep ==
    ASSUME TypeInv, Untouched, OneReservation, [Next]_vars
    PROVE  OneReservation'
<1>1. CASE \E w \in Workers : CreateBinding(w)
  <2>1. Reserved = {}
    BY <1>1 DEF CreateBinding, Untouched, Reserved, Reserving
  <2>2. PICK o \in Ops : intent' = [intent EXCEPT ![o].state = "pending_delivery"]
    BY <1>1 DEF CreateBinding, Fresh
  <2>3. Reserved' \subseteq {o}
    BY <2>1, <2>2 DEF Reserved, TypeInv, RowsOK
  <2> QED BY <2>3 DEF OneReservation
<1>2. CASE \E w \in Workers : Admit(w)
  <2>1. CASE UNCHANGED intent
    BY <2>1 DEF OneReservation, Reserved
  <2>2. CASE ~UNCHANGED intent
    <3>1. PICK w \in Workers : Admit(w)
      BY <1>2
    <3>2. PICK o \in Ops :
            intent' = [p \in Ops |->
                CASE p = o -> [state |-> "pending_delivery", kind |-> ReqKind(w),
                               pre |-> loc[w].snap.gen, reason |-> ""]
                  [] p \in Reserved -> [intent[p] EXCEPT !.state = "superseded"]
                  [] OTHER -> intent[p]]
      BY <2>2, <3>1 DEF Admit, Fresh
    <3>3. \A p \in Ops \ {o} : intent'[p].state \notin Reserving
      <4>1. ASSUME NEW p \in Ops \ {o}, p \in Reserved
            PROVE  intent'[p].state = "superseded"
        BY <3>2, <4>1 DEF TypeInv, RowsOK, Intents
      <4>2. ASSUME NEW p \in Ops \ {o}, p \notin Reserved
            PROVE  intent'[p] = intent[p]
        BY <3>2, <4>2
      <4> QED BY <4>1, <4>2 DEF Reserved, Reserving
    <3> QED BY <3>3 DEF OneReservation, Reserved
  <2> QED BY <2>1, <2>2
<1>3. CASE \E w \in Workers : RetryNonSensitive(w)
  <2>1. CASE UNCHANGED intent
    BY <2>1 DEF OneReservation, Reserved
  <2>2. CASE ~UNCHANGED intent
    <3>1. PICK w \in Workers : RetryNonSensitive(w)
      BY <1>3
    <3>2. loc[w].op \in Reserved
      BY <2>2, <3>1, KnowsItsOperation DEF RetryNonSensitive, Reserved, Early
    <3>3. PICK n \in Ops :
            /\ intent[n].state = "absent"
            /\ intent' = [intent EXCEPT
                 ![loc[w].op].state = "superseded", ![loc[w].op].reason = "not_received_retry",
                 ![n] = [intent[loc[w].op] EXCEPT !.state = "pending_delivery", !.reason = ""]]
      BY <2>2, <3>1 DEF RetryNonSensitive, Fresh
    <3>4. \A p \in Ops \ {n} : intent'[p].state \notin Reserving
      <4>1. intent'[loc[w].op].state = "superseded"
        BY <3>2, <3>3 DEF TypeInv, RowsOK, Intents, Reserved, Reserving
      <4>2. \A p \in Ops \ {n, loc[w].op} : intent'[p] = intent[p]
        BY <3>2, <3>3 DEF TypeInv, RowsOK
      <4>3. \A p \in Ops \ {loc[w].op} : intent[p].state \notin Reserving
        BY <3>2 DEF OneReservation, Reserved
      <4> QED BY <4>1, <4>2, <4>3 DEF Reserving
    <3> QED BY <3>4 DEF OneReservation, Reserved
  <2> QED BY <2>1, <2>2
<1>4. CASE Moves
  BY <1>4 DEF Moves, OneReservation
<1> QED BY <1>1, <1>2, <1>3, <1>4, OtherStepsMove

\* Admit's row lock and reserving states keep any two operations of the
\* binding apart, with stale snapshots and any number of requests.
THEOREM OneOperationAtATime == Spec => []AtMostOneReservation
<1> DEFINE Inv == TypeInv /\ Untouched /\ OneReservation
<1>1. Init => Inv
  <2> SUFFICES ASSUME Init PROVE Inv
    OBVIOUS
  <2>1. Untouched
    BY DEF Init, NoIntent, Untouched
  <2>2. Reserved = {}
    BY DEF Init, NoIntent, Reserved, Reserving
  <2> QED BY <2>1, <2>2, InitTypes DEF OneReservation
<1>2. Inv /\ [Next]_vars => Inv'
  BY StepTypes, UntouchedStep, ReservationStep
<1>3. Inv => AtMostOneReservation
  <2> SUFFICES ASSUME Inv PROVE Cardinality(Reserved) <= 1
    BY DEF AtMostOneReservation
  <2>1. CASE Reserved = {}
    BY <2>1, FS_EmptySet
  <2>2. CASE Reserved # {}
    <3>1. PICK p \in Reserved : Reserved = {p}
      BY <2>2 DEF OneReservation
    <3> QED BY <3>1, FS_Singleton
  <2> QED BY <2>1, <2>2
<1> HIDE DEF Inv
<1> QED BY <1>1, <1>2, <1>3, PTL DEF Spec

=============================================================================
