------------------------ MODULE CredentialVerdictProofs ------------------------
(***************************************************************************)
(* What account-center records of an operation is what platform-mihomo     *)
(* did, for any number of operations and workers: the safety properties of *)
(* CredentialOperations that tie intents and binding row to the ledger and *)
(* the credential of the other service.                                    *)
(*                                                                         *)
(* The argument.  At most one operation reserves the binding (theorem      *)
(* OneOperationAtATime).  While one does, everything under way is its own  *)
(* (Carrier, UnderWay) and either it did not take effect, and the row and  *)
(* the credential are as they were before it (Unapplied), or it did, and   *)
(* they are on their way to what it left (InForce).  While none does, they *)
(* agree (Quiet).  An operation that is over can no longer be applied and  *)
(* its record says what happened (Closed).  A worker that acts later on    *)
(* what it saw relies only on what cannot change meanwhile (Knowledge).    *)
(***************************************************************************)
EXTENDS CredentialOperationsProofs

\* As there, what a guard says is mostly where the worker stands.
USE DEF At

\* No request works on a binding that changed since its load, and no worker
\* outlives the lease of its wake-up: without either the properties below fail.
Calm == ~StaleSnapshots /\ LeasesHold

Busy(w) == pc[w] \notin Early
Applied(o) == remote[Main(o)] = "succeeded"
Void(o) == remote[Main(o)] \in {"not_received", "failed_input_required"}
CompDone(o) == remote[Comp(o)] = "succeeded"
Comps(o) == remote[Comp(o)] # "absent" \/ \E w \in Workers : <<w, Comp(o)>> \in net
NotSent(o) == /\ remote[Main(o)] = "absent" /\ ~Comps(o)
              /\ \A w \in Workers : <<w, Main(o)>> \notin net
NothingLeft == Gone /\ Reserved = {}
Dropping == \E w \in Workers : pc[w] = "drop_local"
Missing == {"result_missing", "missing_projection", "missing_failed"}
Over == Released \union {"input_required"}

\* The request that holds a snapshot: nothing of it has changed since.
Snapshot(w) ==
    /\ \A v \in Workers : HoldsSnapshot(v) => v = w
    /\ loc[w].snap.gen = binding.gen /\ loc[w].snap.key = binding.key
    /\ ~Gone /\ binding.status # "none"
    /\ pc[w] = "loaded" => loc[w].snap.status = binding.status
    /\ pc[w] = "admit_delete" => /\ binding.key /\ loc[w].req = "DELETE"
                                 /\ binding.status = "deleting"
    /\ pc[w] = "drop_local" => /\ ~binding.key \/ loc[w].snap.status = "cleanup_failed"
                               /\ binding.status = "deleting"

Handling(w) ==
    /\ pc[w] = "idle" => loc[w] = NoLoc
    /\ pc[w] \in Early => loc[w].op = None
    /\ Busy(w) => /\ Working(loc[w].op)
                  /\ loc[w].req = "DELETE" => intent[loc[w].op].kind = "DELETE"
                  /\ \A v \in Workers : Busy(v) => v = w
    /\ loc[w].seen.reason \notin Missing

\* Binding and credential while no operation is half done.
Quiet ==
    /\ cred.exists => ~Gone /\ binding.key /\ cred.gen = binding.gen
    /\ binding.status = "active" => cred.exists
    /\ binding.status = "cleanup_failed" \/ Dropping => ~cred.exists

RowOK ==
    /\ binding.status = "none" => binding = NoBinding
    /\ ~binding.key => binding.status # "active" /\ binding.gen = 0
    /\ Reserved = {} => Quiet

\* The operation that owns the binding, before and after it took effect.
Unapplied(o) ==
    /\ Quiet
    /\ intent[o].pre = binding.gen
    /\ intent[o].kind = "BIND" => ~binding.key
    /\ intent[o].kind = "REPLACE" => binding.key
    /\ intent[o].kind = "DELETE" =>
         /\ binding.key /\ binding.status \notin {"active", "cleanup_failed"} /\ ~Dropping
         /\ Gone => Void(o)

InForce(o) ==
    IF intent[o].kind = "DELETE"
    THEN ~cred.exists /\ binding.key /\ binding.status # "active"
    ELSE /\ ~CompDone(o) => cred.exists /\ cred.gen = Target(o)
         /\ intent[o].kind # "BIND" => binding.key
         /\ intent[o].kind = "BIND" /\ o \in OwnedElsewhere => ~binding.key
         /\ binding.key => /\ ~Gone /\ binding.status # "cleanup_failed" /\ ~Dropping
                           /\ binding.gen \in {intent[o].pre, Target(o)}

Owner(o) == (Applied(o) => InForce(o)) /\ (~Applied(o) => Unapplied(o))

Born(o) == intent[o].state = "absent" => intent[o] = NoIntent /\ NotSent(o)

\* One request of an operation is on its way, or executed, at a time.
Carrier(o) ==
    \A w \in Workers : <<w, Main(o)>> \in net =>
        /\ ~Executing(Main(o))
        /\ \A v \in Workers : <<v, Main(o)>> \in net => v = w

Verdict(o) ==
    IF intent[o].state = "succeeded"
    THEN Applied(o) \/ (intent[o].kind = "DELETE" /\ NothingLeft)
    ELSE ~Applied(o) \/ (intent[o].reason = "compensated" /\ NothingLeft)

Closed(o) == intent[o].state \in Over =>
    ~CanStillApply(o) /\ Verdict(o) /\ (Comps(o) => CompDone(o))

CompOK(o) ==
    /\ Comps(o) => /\ o \in OwnedElsewhere /\ intent[o].kind = "BIND" /\ Applied(o)
                   /\ ~binding.key /\ intent[o].state # "succeeded"
    /\ CompDone(o) => ~cred.exists
    /\ intent[o].reason \notin Missing
    /\ intent[o].reason = "dup_projection" => CompDone(o)

OpOK(o) == Born(o) /\ Carrier(o) /\ Closed(o) /\ CompOK(o) /\ (o \in Reserved => Owner(o))

Duplicate(o) ==
    /\ o \in OwnedElsewhere /\ intent[o].kind = "BIND" /\ Applied(o)
    /\ ~binding.key /\ intent[o].state = "projection_pending"

\* What a worker at `step` knows of the operation it handles.
Knowledge(w, o, step) ==
    LET kind == intent[o].kind IN
    /\ step = "admitted" => /\ intent[o].state = "pending_delivery" /\ ~Travelling(o)
                            /\ kind \in {"BIND", "REPLACE"} => remote[Main(o)] = "absent"
    /\ step \in {"drop", "fail"} => ~CanStillApply(o) /\ ~Applied(o)
    /\ step = "drop" => kind = "BIND"
    /\ step = "persist" => Applied(o) /\ intent[o].state = "projection_pending"
    /\ step = "complete" =>
         /\ intent[o].state = "projection_pending"
         /\ kind = "DELETE" => Gone /\ ~CanStillApply(o)
         /\ kind # "DELETE" => Applied(o) /\ binding.key /\ binding.gen = Target(o)
    /\ step \in {"compensate_dup", "await_dup"} => Duplicate(o)
    /\ step \in {"drop_dup", "fail_compensated"} => Duplicate(o) /\ CompDone(o)
    /\ step = "fail_compensated" => Gone
    /\ step \in {"proof", "retry", "confirm", "delete_absent", "input_required"} => Void(o)
    /\ step = "retry" => kind \in NonSensitive
    /\ step = "confirm" => kind \in {"BIND", "REPLACE"}
    /\ step \in {"retry", "confirm"} => loc[w].proof = cred
    /\ step = "persist_failure" => remote[Main(o)] = "failed"
    /\ step = "delete_absent" => kind = "DELETE" /\ Gone
    /\ step \notin {"compensate_missing", "await_missing", "drop_missing", "resolve_comp"}

WorkerOK(w) ==
    /\ HoldsSnapshot(w) => Snapshot(w)
    /\ Handling(w)
    /\ Busy(w) => Knowledge(w, loc[w].op, pc[w])

Base == TypeInv /\ Untouched /\ OneReservation

Deep ==
    /\ RowOK
    /\ \A o \in Ops : OpOK(o)
    /\ \A w \in Workers : WorkerOK(w)

-----------------------------------------------------------------------------
\* Ids, and what the invariant says of the records and of the rest.

LEMMA IdFacts ==
    ASSUME NEW o \in Ops
    PROVE  /\ Main(o) \in Ids /\ Comp(o) \in Ids
           /\ \A p \in Ops : /\ Main(o) # Comp(p)
                             /\ p # o => Main(p) # Main(o) /\ Comp(p) # Comp(o)
           /\ Kind(Main(o)) = intent[o].kind /\ Kind(Comp(o)) = "DELETE"
           /\ Pre(Main(o)) = intent[o].pre /\ Pre(Comp(o)) = Target(o)
  BY DEF Main, Comp, Ids, Kind, Pre

LEMMA EveryId ==
    ASSUME NEW id \in Ids
    PROVE  \E o \in Ops : id = Main(o) \/ id = Comp(o)
  BY DEF Main, Comp, Ids

LEMMA EmptyValues ==
    /\ NoIntent.state = "absent" /\ NoIntent.kind = "BIND" /\ NoIntent.pre = 0
    /\ NoIntent.reason = ""
    /\ NoBinding.status = "none" /\ NoBinding.gen = 0 /\ NoBinding.key = FALSE
    /\ NoCred.exists = FALSE
    /\ NoLoc.req = "" /\ NoLoc.op = None /\ NoLoc.seen = NoIntent
  BY DEF NoIntent, NoBinding, NoCred, NoLoc

\* Nothing that is settled, refused or fenced is ever applied.
LEMMA SettledIsDead ==
    ASSUME NEW o \in Ops, remote[Main(o)] \notin {"absent", "pending"}
    PROVE  ~CanStillApply(o)
  BY DEF CanStillApply, Executing

LEMMA DeepIsTrue == Deep =>
    VerdictIsTrue /\ ReleasedIsDead /\ CredentialIsOwned /\ GenerationsAgree
                  /\ NoGoodCredentialDeleted
<1> SUFFICES ASSUME Deep
             PROVE  VerdictIsTrue /\ ReleasedIsDead /\ CredentialIsOwned
                    /\ GenerationsAgree /\ NoGoodCredentialDeleted
  OBVIOUS
<1>1. NothingLeft => ~cred.exists
  BY DEF Deep, RowOK, Quiet, NothingLeft
<1>2. \A o \in Ops : intent[o].state \in Over => Verdict(o)
  BY DEF Deep, OpOK, Closed
<1>3. SuccessIsTrue
  BY <1>1, <1>2 DEF SuccessIsTrue, Verdict, Over, Released, Applied
<1>4. VerdictIsTrue
  BY <1>1, <1>2, <1>3 DEF VerdictIsTrue, Verdict, Over, Released, Applied
<1>5. ReleasedIsDead
  BY DEF Deep, OpOK, Closed, Over, ReleasedIsDead
<1>6. CredentialIsOwned /\ GenerationsAgree
  BY DEF Deep, RowOK, Quiet, CredentialIsOwned, GenerationsAgree
<1>7. NoGoodCredentialDeleted
  BY DEF Deep, OpOK, CompOK, Comps, NoGoodCredentialDeleted
<1> QED BY <1>4, <1>5, <1>6, <1>7

\* While an operation owns the binding every other one is over for good: its
\* record says what happened to it, and nothing was compensated.
LEMMA OthersSettled ==
    ASSUME Base, Deep, NEW o \in Reserved, NEW p \in Ops \ {o}
    PROVE  /\ p \notin Reserved /\ ~Comps(p) /\ ~CompDone(p)
           /\ intent[p].state = "absent" => intent[p] = NoIntent /\ NotSent(p)
           /\ intent[p].state # "absent" =>
                /\ intent[p].state \in Released /\ ~CanStillApply(p)
                /\ intent[p].state = "succeeded" <=> Applied(p)
           /\ intent[p].reason \notin Missing \union {"dup_projection"}
<1>1. p \notin Reserved
  BY DEF Base, OneReservation
<1>2. Reserved # {} /\ ~NothingLeft
  BY DEF NothingLeft
<1>3. Born(p) /\ Closed(p) /\ CompOK(p)
  BY DEF Deep, OpOK
<1>4. CompDone(p) => Comps(p)
  BY DEF CompDone, Comps
<1>5. CASE intent[p].state = "absent"
  <2>1. intent[p] = NoIntent /\ NotSent(p) /\ ~Comps(p)
    BY <1>3, <1>5 DEF Born, NotSent
  <2>2. intent[p].reason \notin Missing \union {"dup_projection"}
    BY <2>1, EmptyValues DEF Missing
  <2> QED BY <1>1, <1>4, <1>5, <2>1, <2>2
<1>6. CASE intent[p].state # "absent"
  <2>1. intent[p].state \in Released
    BY <1>1, <1>6 DEF Base, TypeInv, RowsOK, Intents, Reserved
  <2>2. ~CanStillApply(p) /\ Verdict(p)
    BY <1>3, <2>1 DEF Closed, Over
  <2>3. intent[p].state = "succeeded" <=> Applied(p)
    BY <1>2, <2>2 DEF Verdict
  <2>4. ~Comps(p)
    BY <1>3, <2>3 DEF CompOK
  <2> QED BY <1>1, <1>3, <1>4, <1>6, <2>1, <2>2, <2>3, <2>4 DEF CompOK
<1> QED BY <1>5, <1>6

\* What a step leaves of an operation that it does not handle.
Apart(p) ==
    /\ intent'[p] = intent[p]
    /\ remote'[Main(p)] = remote[Main(p)] /\ remote'[Comp(p)] = remote[Comp(p)]
    /\ exec'[Main(p)] = exec[Main(p)]
    /\ \A v \in Workers : /\ <<v, Main(p)>> \in net' => <<v, Main(p)>> \in net
                          /\ <<v, Comp(p)>> \in net' => <<v, Comp(p)>> \in net

LEMMA ApartFacts ==
    ASSUME NEW p \in Ops, Apart(p)
    PROVE  /\ Applied(p)' = Applied(p) /\ CompDone(p)' = CompDone(p)
           /\ Comps(p)' => Comps(p)
           /\ CanStillApply(p)' => CanStillApply(p)
           /\ Travelling(p)' => Travelling(p)
           /\ NotSent(p) => NotSent(p)'
           /\ Executing(Main(p))' = Executing(Main(p))
           /\ Carrier(p) => Carrier(p)'
<1>1. Main(p)' = Main(p) /\ Comp(p)' = Comp(p)
  BY DEF Main, Comp
<1>2. Applied(p)' = Applied(p) /\ CompDone(p)' = CompDone(p)
  BY DEF Apart, Applied, CompDone
<1>3. Comps(p)' => Comps(p)
  BY DEF Apart, Comps
<1>4. Executing(Main(p))' = Executing(Main(p))
  BY DEF Apart, Executing
<1>5. /\ CanStillApply(p)' => CanStillApply(p)
      /\ Travelling(p)' => Travelling(p)
  BY <1>4 DEF Apart, CanStillApply, Travelling
<1>6. NotSent(p) => NotSent(p)'
  BY <1>3 DEF Apart, NotSent
<1>7. Carrier(p) => Carrier(p)'
  BY <1>4 DEF Apart, Carrier
<1> QED BY <1>2, <1>3, <1>4, <1>5, <1>6, <1>7

LEMMA ApartKeeps ==
    ASSUME Base, Deep, NEW o \in Reserved, NEW p \in Ops \ {o}, Apart(p)
    PROVE  OpOK(p)' /\ p \notin Reserved'
<1>1. p \notin Reserved'
  BY OthersSettled DEF Apart, Reserved
<1>2. ~Comps(p)' /\ ~CompDone(p)' /\ Applied(p)' = Applied(p)
  BY OthersSettled, ApartFacts
<1>3. CompOK(p)'
  BY <1>2, OthersSettled DEF Apart, CompOK
<1>4. Born(p)'
  BY OthersSettled, ApartFacts DEF Apart, Born
<1>5. Closed(p)'
  <2>1. CASE intent[p].state = "absent"
    BY <2>1 DEF Apart, Closed, Over, Released
  <2>2. CASE intent[p].state # "absent"
    <3>1. ~CanStillApply(p)'
      BY <2>2, OthersSettled, ApartFacts
    <3>2. Verdict(p)'
      BY <1>2, <2>2, OthersSettled DEF Apart, Verdict
    <3> QED BY <1>2, <3>1, <3>2 DEF Closed
  <2> QED BY <2>1, <2>2
<1>6. Carrier(p)'
  BY ApartFacts DEF Deep, OpOK
<1> QED BY <1>1, <1>3, <1>4, <1>5, <1>6 DEF OpOK

-----------------------------------------------------------------------------
\* A step of the worker that handles an operation.

Alone(w) == \A v \in Workers \ {w} : pc[v] = "idle" /\ loc[v] = NoLoc
Leaves(w) == \A v \in Workers \ {w} : pc'[v] = pc[v] /\ loc'[v] = loc[v]

\* Whoever handles an operation steps alone: the others are idle, for a request
\* with a snapshot would hold it up and the operation is leased to one worker.
LEMMA HandlerIsAlone ==
    ASSUME Calm, Base, Deep, NEW w \in Workers, Busy(w), Undisturbed(w)
    PROVE  Alone(w) /\ ~Dropping /\ loc[w].op \in Reserved /\ Working(loc[w].op)
<1>1. ASSUME NEW v \in Workers \ {w}
      PROVE  pc[v] = "idle" /\ loc[v] = NoLoc
  <2>1. pc[v] \in Early
    BY DEF Deep, WorkerOK, Handling, Busy
  <2>2. pc[v] = "idle"
    BY <2>1 DEF Calm, Undisturbed, HoldsSnapshot, Early
  <2> QED BY <2>2 DEF Deep, WorkerOK, Handling
<1>2. ~Dropping
  BY <1>1 DEF Dropping, Busy, Early
<1>3. loc[w].op \in Ops /\ Working(loc[w].op)
  BY KnowsItsOperation DEF Base, Busy, Deep, WorkerOK, Handling
<1>4. loc[w].op \in Reserved
  BY <1>3 DEF Working, Reserved
<1> QED BY <1>1, <1>2, <1>3, <1>4 DEF Alone

LEMMA IdleWorkerOK ==
    ASSUME NEW v \in Workers, pc'[v] = "idle", loc'[v] = NoLoc
    PROVE  WorkerOK(v)'
<1>1. ~HoldsSnapshot(v)' /\ ~Busy(v)'
  BY DEF HoldsSnapshot, Busy, Early
<1>2. loc'[v].op = None /\ loc'[v].seen.reason \notin Missing
  BY EmptyValues DEF Missing
<1>3. NoLoc' = NoLoc /\ Missing' = Missing /\ Early' = Early
  BY DEF NoLoc, NoBinding, NoIntent, NoCred, Missing, Early
<1> QED BY <1>1, <1>2, <1>3 DEF WorkerOK, Handling

\* It stops, or it goes on knowing what the next step needs to know.
LEMMA HandlerMoves ==
    ASSUME NEW w \in Workers, NEW o \in Ops, NEW step, Alone(w), Leaves(w), pc'[w] = step,
           \/ step = "idle" /\ loc'[w] = NoLoc
           \/ /\ step \notin Early /\ loc'[w].op = o
              /\ loc'[w].seen.reason \notin Missing
              /\ loc'[w].req = "DELETE" => intent'[o].kind = "DELETE"
              /\ Working(o)' /\ Knowledge(w, o, step)'
    PROVE  /\ \A v \in Workers : WorkerOK(v)'
           /\ ~Dropping'
<1>1. \A v \in Workers \ {w} : pc'[v] = "idle" /\ loc'[v] = NoLoc
  BY DEF Alone, Leaves
<1>2. \A v \in Workers \ {w} : WorkerOK(v)'
  BY <1>1, IdleWorkerOK
<1>3. ~Dropping'
  BY <1>1 DEF Dropping, Early
<1>4. CASE pc'[w] = "idle" /\ loc'[w] = NoLoc
  BY <1>2, <1>3, <1>4, IdleWorkerOK
<1>5. CASE ~(pc'[w] = "idle" /\ loc'[w] = NoLoc)
  <2>1. pc'[w] \notin Early /\ ~HoldsSnapshot(w)' /\ Busy(w)'
    BY <1>5 DEF HoldsSnapshot, Busy, Early
  <2>2. \A v \in Workers : Busy(v)' => v = w
    BY <1>1 DEF Busy, Early
  <2>3. Handling(w)'
    BY <1>5, <2>1, <2>2 DEF Handling, Early, Missing
  <2> QED BY <1>2, <1>3, <1>5, <2>1, <2>3 DEF WorkerOK
<1> QED BY <1>4, <1>5

\* What such a step may do to the platform: nothing, or settle for good what
\* was not applied yet.
Unmoved(o) ==
    /\ cred' = cred /\ exec' = exec /\ net' \subseteq net
    /\ \A id \in Ids \ {Main(o)} : remote'[id] = remote[id]
    /\ \/ remote'[Main(o)] = remote[Main(o)]
       \/ /\ remote[Main(o)] \in {"absent", "pending"}
          /\ remote'[Main(o)] \in {"not_received", "failed_input_required"}

LEMMA UnmovedFacts ==
    ASSUME NEW o \in Ops, Unmoved(o)
    PROVE  /\ Applied(o)' = Applied(o) /\ CompDone(o)' = CompDone(o)
           /\ Comps(o)' => Comps(o)
           /\ Void(o) => Void(o)'
           /\ CanStillApply(o)' => CanStillApply(o)
           /\ Travelling(o)' => Travelling(o)
           /\ Carrier(o) => Carrier(o)'
           /\ \A p \in Ops \ {o} : intent'[p] = intent[p] => Apart(p)
<1>1. /\ Main(o) \in Ids /\ Comp(o) \in Ids /\ Main(o) # Comp(o)
      /\ \A p \in Ops \ {o} : /\ Main(p) \in Ids \ {Main(o)} /\ Comp(p) \in Ids \ {Main(o)}
  BY IdFacts
<1>2. Main(o)' = Main(o) /\ Comp(o)' = Comp(o)
  BY DEF Main, Comp
<1>3. Applied(o)' = Applied(o) /\ CompDone(o)' = CompDone(o) /\ (Void(o) => Void(o)')
  BY <1>1 DEF Unmoved, Applied, CompDone, Void
<1>4. Comps(o)' => Comps(o)
  BY <1>1 DEF Unmoved, Comps
<1>5. Executing(Main(o))' => Executing(Main(o))
  BY DEF Unmoved, Executing
<1>6. /\ CanStillApply(o)' => CanStillApply(o)
      /\ Travelling(o)' => Travelling(o)
  BY <1>5 DEF Unmoved, CanStillApply, Travelling
<1>7. Carrier(o) => Carrier(o)'
  BY <1>5 DEF Unmoved, Carrier
<1>8. \A p \in Ops \ {o} : intent'[p] = intent[p] => Apart(p)
  BY <1>1 DEF Unmoved, Apart
<1> QED BY <1>3, <1>4, <1>6, <1>7, <1>8

LEMMA NothingMoved ==
    ASSUME NEW o \in Ops, UNCHANGED pmVars, net' \subseteq net
    PROVE  Unmoved(o)
  BY DEF Unmoved, pmVars

LEMMA ResolvedMoves ==
    ASSUME TypeInv, NEW o \in Ops, NEW a, Resolved(Main(o), a), UNCHANGED net
    PROVE  Unmoved(o) /\ remote'[Main(o)] = a
  BY IdFacts DEF TypeInv, PlatformOK, Resolved, Unmoved, Answers

\* A transition rewrites the intent, or leaves one it does not apply to.
LEMMA TransitionEffect ==
    ASSUME RowsOK, NEW o \in Ops, Working(o), NEW reason,
           NEW to \in {"uncertain", "projection_pending", "input_required",
                       "invariant_violation", "succeeded", "failed"},
           Transition(o, to, reason)
    PROVE  /\ \A p \in Ops \ {o} : intent'[p] = intent[p]
           /\ intent'[o].kind = intent[o].kind /\ intent'[o].pre = intent[o].pre
           /\ \/ intent'[o].state = to /\ intent'[o].reason = reason
              \/ /\ intent'[o] = intent[o]
                 /\ to \notin {"projection_pending", "invariant_violation", "failed"}
                 /\ to = "succeeded" => intent[o].state # "projection_pending"
           /\ to \in {"projection_pending", "invariant_violation"} => Accepted(o, to)
<1>1. intent[o].state \in {"pending_delivery", "uncertain", "projection_pending",
                           "invariant_violation"}
  BY DEF Working, Reserving
<1>2. CASE intent[o].state \in AllowedFrom[to]
  <2>1. intent' = [intent EXCEPT ![o].state = to, ![o].reason = reason]
    BY <1>2 DEF Transition, Record
  <2> QED BY <1>2, <2>1 DEF RowsOK, Intents, Accepted
<1>3. CASE intent[o].state \notin AllowedFrom[to]
  <2>1. UNCHANGED intent
    BY <1>3 DEF Transition
  <2>2. to \notin {"projection_pending", "invariant_violation", "failed"}
    BY <1>1, <1>3 DEF AllowedFrom
  <2>3. to = "succeeded" => intent[o].state # "projection_pending"
    BY <1>3 DEF AllowedFrom
  <2> QED BY <2>1, <2>2, <2>3
<1> QED BY <1>2, <1>3

\* The pieces of a handler's step: the row, its operation and what it knows
\* next.  The rest of the invariant follows.
LEMMA HandlerKeeps ==
    ASSUME Calm, Base, Deep, NEW w \in Workers, Busy(w), Undisturbed(w), NEW o \in Ops,
           loc[w].op = o, NEW step, Unmoved(o),
           \A p \in Ops \ {o} : intent'[p] = intent[p],
           intent'[o].kind = intent[o].kind,
           \/ Stop(w)
           \/ /\ Goto(w, step) /\ step \notin Early
              /\ Working(o)' /\ Knowledge(w, o, step)',
           ~Dropping' => RowOK' /\ OpOK(o)'
    PROVE  Deep'
<1>1. Alone(w) /\ o \in Reserved
  BY HandlerIsAlone
<1>2. pc \in [Workers -> Steps] /\ loc \in [Workers -> Locs]
  BY DEF Base, TypeInv, WorkersOK
<1>3. Leaves(w)
  BY <1>2 DEF Leaves, Stop, Goto
<1>4. (\A v \in Workers : WorkerOK(v)') /\ ~Dropping'
  <2>1. CASE Stop(w)
    <3>1. pc'[w] = "idle" /\ loc'[w] = NoLoc
      BY <1>2, <2>1 DEF Stop
    <3> QED BY <1>1, <1>3, <3>1, HandlerMoves
  <2>2. CASE ~Stop(w)
    <3>1. pc'[w] = step /\ loc'[w] = loc[w]
      BY <1>2, <2>2 DEF Goto
    <3>2. /\ loc[w].seen.reason \notin Missing
          /\ loc[w].req = "DELETE" => intent[o].kind = "DELETE"
      BY DEF Deep, WorkerOK, Handling
    <3> QED BY <1>1, <1>3, <2>2, <3>1, <3>2, HandlerMoves
  <2> QED BY <2>1, <2>2
<1>5. \A p \in Ops \ {o} : OpOK(p)'
  BY <1>1, UnmovedFacts, ApartKeeps
<1> QED BY <1>4, <1>5 DEF Deep

\* An operation that keeps the binding: its record moves on, the row stays.
LEMMA RecordKeeps ==
    ASSUME Base, Deep, NEW o \in Ops, Working(o), ~Dropping, ~Dropping', Unmoved(o),
           UNCHANGED binding,
           intent'[o].kind = intent[o].kind, intent'[o].pre = intent[o].pre,
           intent'[o].state \in Reserving, intent'[o].state = "input_required" => Void(o),
           \/ intent'[o].reason = intent[o].reason
           \/ intent'[o].reason \notin Missing \union {"dup_projection"}
           \/ intent'[o].reason = "dup_projection" /\ CompDone(o)
    PROVE  RowOK' /\ OpOK(o)'
<1>1. o \in Reserved /\ o \in Reserved' /\ Reserved' # {}
  BY DEF Reserved, Working
<1>2. RowOK'
  BY <1>1, EmptyValues DEF Deep, RowOK
<1>3. Born(o)'
  BY DEF Born, Reserving
<1>4. Carrier(o)'
  BY UnmovedFacts DEF Deep, OpOK
<1>5. CompOK(o)'
  <2>1. CompOK(o)
    BY DEF Deep, OpOK
  <2>2. intent'[o].state # "succeeded"
    BY DEF Reserving
  <2>3. cred' = cred
    BY DEF Unmoved
  <2>4. /\ Comps(o)' => Comps(o)
        /\ CompDone(o)' <=> CompDone(o)
        /\ Applied(o)' <=> Applied(o)
    BY UnmovedFacts
  <2>5. Missing' = Missing
    BY DEF Missing
  <2>6. /\ intent'[o].reason \notin Missing
        /\ intent'[o].reason = "dup_projection" => CompDone(o)
    BY <2>1 DEF CompOK, Missing
  <2> QED BY <2>1, <2>2, <2>3, <2>4, <2>5, <2>6 DEF CompOK
<1>6. Owner(o) /\ Owner(o)'
  <2>1. Owner(o)
    BY <1>1 DEF Deep, OpOK
  <2>2. cred' = cred /\ Target(o)' = Target(o)
    BY DEF Unmoved, Target
  <2>3. Applied(o)' = Applied(o) /\ CompDone(o)' = CompDone(o) /\ (Void(o) => Void(o)')
    BY UnmovedFacts
  <2>4. Quiet => Quiet'
    BY <2>2 DEF Quiet, Gone
  <2>5. InForce(o) => InForce(o)'
    BY <2>2, <2>3 DEF InForce, Gone
  <2>6. Unapplied(o) => Unapplied(o)'
    BY <2>2, <2>3, <2>4 DEF Unapplied, Gone
  <2> QED BY <2>1, <2>3, <2>5, <2>6 DEF Owner
<1>7. Closed(o)'
  <2>1. CASE intent'[o].state # "input_required"
    BY <2>1 DEF Closed, Over, Released, Reserving
  <2>2. CASE intent'[o].state = "input_required"
    <3>1. Void(o)' /\ ~Applied(o)' /\ ~CanStillApply(o)'
      <4>1. Void(o) /\ ~Applied(o) /\ ~CanStillApply(o)
        BY <2>2, SettledIsDead DEF Void, Applied
      <4> QED BY <4>1, UnmovedFacts
    <3>2. ~Comps(o)' /\ Verdict(o)'
      BY <1>5, <2>2, <3>1 DEF CompOK, Verdict
    <3> QED BY <3>1, <3>2 DEF Closed
  <2> QED BY <2>1, <2>2
<1> QED BY <1>2, <1>3, <1>4, <1>5, <1>6, <1>7 DEF OpOK

\* A handler may show a status on the row; it may call the binding deleted, or
\* its local cleanup failed, only without a credential.
MayShow(o, s) ==
    s \in {"deleted", "cleanup_failed"} =>
        /\ Applied(o) => intent[o].kind = "DELETE" \/ ~binding.key
        /\ ~Applied(o) => /\ ~cred.exists
                          /\ intent[o].kind = "DELETE" => s = "deleted" /\ Void(o)

LEMMA StatusKeeps ==
    ASSUME Base, Deep, NEW o \in Ops, Working(o), ~Dropping, ~Dropping', Unmoved(o),
           intent'[o] = intent[o],
           NEW s \in {"credential_invalid", "refresh_required", "deleting",
                      "delete_failed", "cleanup_failed", "deleted"},
           SetStatus(s), MayShow(o, s)
    PROVE  RowOK' /\ OpOK(o)'
<1>1. o \in Reserved /\ o \in Reserved' /\ Reserved' # {}
  BY DEF Reserved, Working
<1>2. binding'.status = s /\ binding'.gen = binding.gen /\ binding'.key = binding.key
  BY DEF Base, TypeInv, RowsOK, Bindings, SetStatus
<1>3. RowOK'
  BY <1>1, <1>2 DEF Deep, RowOK
<1>4. Born(o)' /\ Closed(o)'
  BY DEF Born, Closed, Working, Over, Reserving, Released
<1>5. Carrier(o)'
  BY UnmovedFacts DEF Deep, OpOK
<1>6. cred' = cred /\ Target(o)' = Target(o)
  BY DEF Unmoved, Target
<1>7. /\ Applied(o)' = Applied(o) /\ CompDone(o)' = CompDone(o)
      /\ Void(o) => Void(o)'
      /\ Comps(o)' => Comps(o)
  BY UnmovedFacts
<1>8. CompOK(o)'
  <2>1. Missing' = Missing
    BY DEF Missing
  <2> QED BY <1>2, <1>6, <1>7, <2>1 DEF Deep, OpOK, CompOK
<1>9. Owner(o)'
  <2>1. Owner(o)
    BY <1>1 DEF Deep, OpOK
  <2>2. CASE Applied(o)
    <3>1. InForce(o)
      BY <2>1, <2>2 DEF Owner
    <3>2. InForce(o)'
      BY <1>2, <1>6, <1>7, <2>2, <3>1 DEF InForce, MayShow, Gone
    <3> QED BY <1>7, <2>2, <3>2 DEF Owner
  <2>3. CASE ~Applied(o)
    <3>1. Unapplied(o)
      BY <2>1, <2>3 DEF Owner
    <3>2. Quiet'
      BY <1>2, <1>6, <2>3, <3>1 DEF Unapplied, Quiet, MayShow, Gone
    <3>3. Unapplied(o)'
      BY <1>2, <1>6, <1>7, <2>3, <3>1, <3>2 DEF Unapplied, MayShow, Gone
    <3> QED BY <1>7, <2>3, <3>3 DEF Owner
  <2> QED BY <2>2, <2>3
<1> QED BY <1>1, <1>3, <1>4, <1>5, <1>8, <1>9 DEF OpOK

\* An operation may give up the binding once nothing of it is under way, its
\* record is true, and row and credential agree.
LEMMA ReleaseKeeps ==
    ASSUME Base, Deep, NEW o \in Ops, o \in Reserved, ~Dropping, ~Dropping', Unmoved(o),
           UNCHANGED binding,
           \A p \in Ops \ {o} : intent'[p] = intent[p],
           intent'[o].kind = intent[o].kind, intent'[o].state \in Released,
           intent'[o].reason \notin Missing \union {"dup_projection"},
           Quiet, ~CanStillApply(o), Comps(o) => CompDone(o) /\ intent'[o].state # "succeeded",
           intent'[o].state = "succeeded" => Applied(o) \/ (intent[o].kind = "DELETE" /\ Gone),
           intent'[o].state # "succeeded" =>
               ~Applied(o) \/ (intent'[o].reason = "compensated" /\ Gone)
    PROVE  RowOK' /\ OpOK(o)'
<1>1. Reserved' = {}
  BY DEF Base, OneReservation, Reserved, Reserving, Released
<1>2. cred' = cred
  BY DEF Unmoved
<1>3. /\ Applied(o)' = Applied(o) /\ CompDone(o)' = CompDone(o)
      /\ CanStillApply(o)' => CanStillApply(o)
      /\ Comps(o)' => Comps(o)
  BY UnmovedFacts
<1>4. RowOK'
  <2>1. Quiet'
    BY <1>2 DEF Quiet, Gone
  <2>2. NoBinding' = NoBinding
    BY DEF NoBinding
  <2> QED BY <2>1, <2>2 DEF Deep, RowOK
<1>5. Born(o)'
  BY DEF Born, Released
<1>6. Carrier(o)'
  BY UnmovedFacts DEF Deep, OpOK
<1>7. Gone => NothingLeft'
  BY <1>1 DEF NothingLeft, Gone
<1>8. CompOK(o)'
  <2>1. Missing' = Missing
    BY DEF Missing
  <2> QED BY <1>2, <1>3, <2>1 DEF Deep, OpOK, CompOK
<1>9. Closed(o)'
  BY <1>3, <1>7 DEF Closed, Verdict
<1> QED BY <1>1, <1>4, <1>5, <1>6, <1>8, <1>9 DEF OpOK

-----------------------------------------------------------------------------
\* The two shapes of a handler's step: it moves the record on, or the row.

LEMMA HandlerKnows ==
    ASSUME Calm, Base, Deep, NEW w \in Workers, Busy(w), Undisturbed(w),
           NEW o \in Ops, o = loc[w].op
    PROVE  /\ Alone(w) /\ ~Dropping /\ o \in Reserved /\ Working(o)
           /\ Knowledge(w, o, pc[w])
           /\ OpOK(o) /\ Owner(o)
           /\ intent[o].kind \in Kinds /\ intent[o].pre \in Nat /\ Target(o) \in Nat
<1>1. Alone(w) /\ ~Dropping /\ o \in Reserved /\ Working(o)
  BY HandlerIsAlone
<1>2. Knowledge(w, o, pc[w]) /\ OpOK(o) /\ Owner(o)
  BY <1>1 DEF Deep, WorkerOK, OpOK
<1>3. intent[o].kind \in Kinds /\ intent[o].pre \in Nat /\ Target(o) \in Nat
  BY GenerationsAreNaturals DEF Base, TypeInv, RowsOK, Intents
<1> QED BY <1>1, <1>2, <1>3

LEMMA RecordStep ==
    ASSUME Calm, Base, Deep, NEW w \in Workers, Busy(w), Undisturbed(w),
           NEW o \in Ops, o = loc[w].op, NEW reason, NEW step,
           NEW to \in {"uncertain", "projection_pending", "input_required",
                       "invariant_violation"},
           Transition(o, to, reason), Unmoved(o), UNCHANGED binding,
           \/ reason \notin Missing \union {"dup_projection"}
           \/ reason = "dup_projection" /\ CompDone(o),
           to = "input_required" => Void(o) /\ Stop(w),
           Stop(w) \/ (Goto(w, step) /\ step \notin Early /\ Knowledge(w, o, step)')
    PROVE  Deep'
<1>1. ~Dropping /\ Working(o)
  BY HandlerKnows
<1>2. /\ \A p \in Ops \ {o} : intent'[p] = intent[p]
      /\ intent'[o].kind = intent[o].kind /\ intent'[o].pre = intent[o].pre
      /\ \/ intent'[o].state = to /\ intent'[o].reason = reason
         \/ intent'[o] = intent[o]
  BY <1>1, TransitionEffect DEF Base, TypeInv
<1>3. intent'[o].state \in Reserving
  BY <1>1, <1>2 DEF Working, Reserving
<1>4. ~Stop(w) => Working(o)'
  BY <1>1, <1>2, <1>3 DEF Working, Reserving
<1>5. intent'[o].state = "input_required" => Void(o)
  BY <1>1, <1>2 DEF Working, Reserving
<1>6. \/ intent'[o].reason = intent[o].reason
      \/ intent'[o].reason \notin Missing \union {"dup_projection"}
      \/ intent'[o].reason = "dup_projection" /\ CompDone(o)
  BY <1>2
<1>7. ~Dropping' => RowOK' /\ OpOK(o)'
  BY <1>1, <1>2, <1>3, <1>5, <1>6, RecordKeeps
<1> QED BY <1>2, <1>4, <1>7, HandlerKeeps

LEMMA RowStep ==
    ASSUME Calm, Base, Deep, NEW w \in Workers, Busy(w), Undisturbed(w),
           NEW o \in Ops, o = loc[w].op, NEW step, Unmoved(o), UNCHANGED intent,
           NEW s \in {"credential_invalid", "refresh_required", "deleting",
                      "delete_failed", "cleanup_failed", "deleted"},
           UNCHANGED binding \/ (SetStatus(s) /\ MayShow(o, s)),
           Stop(w) \/ (Goto(w, step) /\ step \notin Early /\ Knowledge(w, o, step)')
    PROVE  Deep'
<1>1. ~Dropping /\ Working(o)
  BY HandlerKnows
<1>2. Working(o)'
  BY <1>1 DEF Working
<1>3. ~Dropping' => RowOK' /\ OpOK(o)'
  <2>1. CASE UNCHANGED binding
    BY <1>1, <2>1, RecordKeeps DEF Working
  <2>2. CASE SetStatus(s) /\ MayShow(o, s)
    BY <1>1, <2>2, StatusKeeps
  <2> QED BY <2>1, <2>2
<1> QED BY <1>2, <1>3, HandlerKeeps

\* The operation is over.
LEMMA ReleaseStep ==
    ASSUME Calm, Base, Deep, NEW w \in Workers, Busy(w), Undisturbed(w),
           NEW o \in Ops, o = loc[w].op, NEW reason, NEW to \in {"succeeded", "failed"},
           to = "succeeded" => intent[o].state = "projection_pending",
           Transition(o, to, reason), UNCHANGED binding, Unmoved(o), Stop(w),
           reason \notin Missing \union {"dup_projection"},
           Quiet, ~CanStillApply(o), Comps(o) => CompDone(o) /\ to # "succeeded",
           to = "succeeded" => Applied(o) \/ (intent[o].kind = "DELETE" /\ Gone),
           to # "succeeded" => ~Applied(o) \/ (reason = "compensated" /\ Gone)
    PROVE  Deep'
<1>1. ~Dropping /\ Working(o) /\ o \in Reserved
  BY HandlerKnows
<1>2. /\ \A p \in Ops \ {o} : intent'[p] = intent[p]
      /\ intent'[o].kind = intent[o].kind
      /\ intent'[o].state = to /\ intent'[o].reason = reason
  BY <1>1, TransitionEffect DEF Base, TypeInv
<1>3. ~Dropping' => RowOK' /\ OpOK(o)'
  BY <1>1, <1>2, ReleaseKeeps DEF Released
<1> QED BY <1>2, <1>3, HandlerKeeps

LEMMA MarkFailedKeeps ==
    ASSUME Calm, Base, Deep, NEW w \in Workers, MarkFailed(w)
    PROVE  Deep'
<1>1. Busy(w) /\ Undisturbed(w)
  BY DEF MarkFailed, Busy, Early
<1>2. PICK o \in Ops : o = loc[w].op
  BY <1>1, KnowsItsOperation DEF Base, Busy
<1>3. Knowledge(w, o, pc[w]) /\ OpOK(o) /\ Owner(o)
  BY <1>1, <1>2, HandlerKnows
<1>4. Unmoved(o) /\ UNCHANGED binding /\ Stop(w)
  BY NothingMoved DEF MarkFailed
<1>5. CASE pc[w] = "fail"
  <2>1. ~CanStillApply(o) /\ ~Applied(o)
    BY <1>3, <1>5 DEF Knowledge
  <2>2. Quiet /\ ~Comps(o)
    BY <1>3, <2>1 DEF Owner, Unapplied, OpOK, CompOK
  <2>3. Transition(o, "failed", "failed")
    BY <1>2, <1>5 DEF MarkFailed
  <2> QED BY <1>1, <1>2, <1>4, <2>1, <2>2, <2>3, ReleaseStep DEF Missing
<1>6. CASE pc[w] = "fail_compensated"
  <2>1. Duplicate(o) /\ CompDone(o) /\ Gone
    BY <1>3, <1>6 DEF Knowledge
  <2>2. ~CanStillApply(o)
    BY <2>1, SettledIsDead DEF Duplicate, Applied
  <2>3. Quiet
    BY <1>3, <2>1, HandlerKnows, <1>1, <1>2 DEF OpOK, CompOK, Quiet, Gone
  <2>4. Transition(o, "failed", "compensated")
    BY <1>2, <1>6 DEF MarkFailed
  <2> QED BY <1>1, <1>2, <1>4, <2>1, <2>2, <2>3, <2>4, ReleaseStep DEF Missing
<1> QED BY <1>5, <1>6 DEF MarkFailed

LEMMA MarkSucceededKeeps ==
    ASSUME Calm, Base, Deep, NEW w \in Workers, MarkSucceeded(w)
    PROVE  Deep'
<1>1. Busy(w) /\ Undisturbed(w) /\ pc[w] = "complete"
  BY DEF MarkSucceeded, Busy, Early
<1>2. PICK o \in Ops : o = loc[w].op
  BY <1>1, KnowsItsOperation DEF Base, Busy
<1>3. Knowledge(w, o, "complete") /\ OpOK(o) /\ Owner(o) /\ ~Dropping
  BY <1>1, <1>2, HandlerKnows
<1>4. Unmoved(o) /\ UNCHANGED binding /\ Stop(w) /\ Transition(o, "succeeded", "")
  BY <1>2, NothingMoved DEF MarkSucceeded
<1>5. intent[o].state = "projection_pending"
  BY <1>3 DEF Knowledge
<1>6. CASE intent[o].kind = "DELETE"
  <2>1. Gone /\ ~CanStillApply(o)
    BY <1>3, <1>6 DEF Knowledge
  <2>2. Quiet
    BY <1>3, <1>6, <2>1 DEF Owner, InForce, Unapplied, Quiet, Gone
  <2>3. ~Comps(o)
    BY <1>3, <1>6 DEF OpOK, CompOK
  <2> QED BY <1>1, <1>2, <1>4, <1>5, <1>6, <2>1, <2>2, <2>3, ReleaseStep DEF Missing
<1>7. CASE intent[o].kind # "DELETE"
  <2>1. Applied(o) /\ binding.key /\ binding.gen = Target(o)
    BY <1>3, <1>7 DEF Knowledge
  <2>2. ~CanStillApply(o)
    BY <2>1, SettledIsDead DEF Applied
  <2>3. ~Comps(o) /\ ~CompDone(o)
    BY <1>3, <2>1 DEF OpOK, CompOK, CompDone, Comps
  <2>4. Quiet
    BY <1>3, <1>7, <2>1, <2>3 DEF Owner, InForce, Quiet, Gone
  <2> QED BY <1>1, <1>2, <1>4, <1>5, <2>1, <2>2, <2>3, <2>4, ReleaseStep DEF Missing
<1> QED BY <1>6, <1>7

-----------------------------------------------------------------------------
\* Delivery and the replies to it.

LEMMA TicketFailsKeeps ==
    ASSUME Calm, Base, Deep, NEW w \in Workers, TicketFails(w)
    PROVE  Deep'
<1>1. Busy(w) /\ Undisturbed(w) /\ pc[w] = "admitted"
  BY DEF TicketFails, Busy, Early
<1>2. PICK o \in Ops : o = loc[w].op
  BY <1>1, KnowsItsOperation DEF Base, Busy
<1>3. Knowledge(w, o, "admitted")
  BY <1>1, <1>2, HandlerKnows
<1>4. Unmoved(o) /\ UNCHANGED <<intent, binding>>
  BY NothingMoved DEF TicketFails, acVars
<1>5. CASE Stop(w)
  BY <1>1, <1>2, <1>4, <1>5, RowStep
<1>6. ASSUME NEW step \in {"drop", "fail"}, Goto(w, step), intent[o].kind \in {"BIND", "REPLACE"},
             step = "drop" => intent[o].kind = "BIND"
      PROVE  Deep'
  <2>1. ~CanStillApply(o) /\ ~Applied(o)
    BY <1>3, <1>6 DEF Knowledge, CanStillApply, Travelling, Applied
  <2>2. ~CanStillApply(o)' /\ ~Applied(o)'
    BY <1>4, <2>1, UnmovedFacts
  <2>3. Knowledge(w, o, step)'
    BY <1>4, <1>6, <2>2 DEF Knowledge
  <2> QED BY <1>1, <1>2, <1>4, <1>6, <2>3, RowStep DEF Early
<1> QED BY <1>2, <1>5, <1>6 DEF TicketFails

\* A request goes out: the first of its operation, or the compensation of an
\* operation that is known to be a duplicate.
LEMMA SendingKeeps ==
    ASSUME Calm, Base, Deep, NEW w \in Workers, Busy(w), Undisturbed(w),
           NEW o \in Ops, o = loc[w].op, NEW id \in {Main(o), Comp(o)}, NEW step,
           id = Main(o) => ~Travelling(o), id = Comp(o) => Duplicate(o),
           UNCHANGED <<binding, intent, cred, remote, exec>>,
           net' = net \union {<<w, id>>},
           Goto(w, step), step \notin Early, Knowledge(w, o, step)'
    PROVE  Deep'
<1>1. /\ OpOK(o) /\ Owner(o) /\ Working(o) /\ o \in Reserved /\ Alone(w) /\ ~Dropping
  BY HandlerKnows
<1>2. \A p \in Ops \ {o} : Apart(p)
  BY IdFacts DEF Apart
<1>3. pc'[w] = step /\ loc'[w] = loc[w] /\ Leaves(w)
  BY DEF Goto, Leaves, Base, TypeInv, WorkersOK
<1>4. \A v \in Workers : WorkerOK(v)' /\ ~Dropping'
  <2>1. Working(o)'
    BY <1>1 DEF Working
  <2>2. /\ loc[w].seen.reason \notin Missing
        /\ loc[w].req = "DELETE" => intent[o].kind = "DELETE"
    BY DEF Deep, WorkerOK, Handling
  <2>3. /\ loc'[w].op = o /\ loc'[w].seen.reason \notin Missing
        /\ loc'[w].req = "DELETE" => intent'[o].kind = "DELETE"
    BY <1>3, <2>2
  <2> QED BY <1>1, <1>3, <2>1, <2>3, HandlerMoves
<1>5. RowOK'
  <2>1. NoBinding' = NoBinding /\ Reserved' = Reserved
    BY DEF NoBinding, Reserved
  <2> QED BY <1>1, <2>1 DEF Deep, RowOK
<1>6. OpOK(o)'
  <2>1. /\ Applied(o)' <=> Applied(o)
        /\ CompDone(o)' <=> CompDone(o)
        /\ Void(o)' <=> Void(o)
    BY DEF Applied, CompDone, Void
  <2>2. Carrier(o)'
    <3>1. CASE id = Main(o)
      BY <3>1 DEF Carrier, Travelling, Executing
    <3>2. CASE id = Comp(o)
      BY <1>1, <3>2, IdFacts DEF OpOK, Carrier, Executing
    <3> QED BY <3>1, <3>2
  <2>3. Born(o)' /\ Closed(o)'
    BY <1>1 DEF Born, Closed, Working, Over, Reserving, Released
  <2>4. CompOK(o)'
    <3>1. Comps(o)' => Comps(o) \/ Duplicate(o)
      BY IdFacts DEF Comps
    <3> QED BY <1>1, <2>1, <3>1 DEF OpOK, CompOK, Duplicate, Missing
  <2>5. Dropping' <=> Dropping
    BY <1>1, <1>4
  <2>6. Target(o)' = Target(o)
    BY DEF Target
  <2>7. InForce(o) => InForce(o)'
    BY <2>1, <2>5, <2>6 DEF InForce, Gone
  <2>8. Unapplied(o) => Unapplied(o)'
    BY <2>1, <2>5 DEF Unapplied, Quiet, Gone
  <2> QED BY <1>1, <2>1, <2>2, <2>3, <2>4, <2>7, <2>8 DEF OpOK, Owner
<1>7. \A p \in Ops \ {o} : OpOK(p)'
  BY <1>1, <1>2, ApartKeeps
<1> QED BY <1>4, <1>5, <1>6, <1>7 DEF Deep

LEMMA SendKeeps ==
    ASSUME Calm, Base, Deep, NEW w \in Workers, Send(w)
    PROVE  Deep'
<1>1. Busy(w) /\ Undisturbed(w) /\ pc[w] = "admitted"
  BY DEF Send, Busy, Early
<1>2. PICK o \in Ops : o = loc[w].op
  BY <1>1, KnowsItsOperation DEF Base, Busy
<1>3. ~Travelling(o)
  BY <1>1, <1>2, HandlerKnows DEF Knowledge
<1>4. /\ UNCHANGED <<binding, intent, cred, remote, exec>>
      /\ net' = net \union {<<w, Main(o)>>} /\ Goto(w, "await")
  BY <1>2 DEF Send, acVars, pmVars
<1>5. Knowledge(w, o, "await")'
  BY DEF Knowledge
<1> QED BY <1>1, <1>2, <1>3, <1>4, <1>5, SendingKeeps, IdFacts DEF Early

LEMMA SendCompensationKeeps ==
    ASSUME Calm, Base, Deep, NEW w \in Workers, SendCompensation(w)
    PROVE  Deep'
<1>1. Busy(w) /\ Undisturbed(w)
  BY DEF SendCompensation, Busy, Early
<1>2. PICK o \in Ops : o = loc[w].op
  BY <1>1, KnowsItsOperation DEF Base, Busy
<1>3. pc[w] = "compensate_dup" /\ Duplicate(o)
  BY <1>1, <1>2, HandlerKnows DEF Knowledge, SendCompensation
<1>4. /\ UNCHANGED <<binding, intent, cred, remote, exec>>
      /\ net' = net \union {<<w, Comp(o)>>} /\ Goto(w, "await_dup")
  BY <1>2, <1>3 DEF SendCompensation, acVars, pmVars
<1>5. Knowledge(w, o, "await_dup")'
  <2>1. Duplicate(o)'
    BY <1>3, <1>4 DEF Duplicate, Applied
  <2> QED BY <2>1 DEF Knowledge
<1> QED BY <1>1, <1>2, <1>3, <1>4, <1>5, SendingKeeps, IdFacts DEF Early

\* The answer to a request, or its refusal: it is settled for good.
LEMMA ReplyFacts ==
    ASSUME Base, Deep, NEW w \in Workers, NEW o \in Ops, o = loc[w].op,
           pc[w] = "await", Consumed(w), UNCHANGED pmVars
    PROVE  /\ Unmoved(o)
           /\ GotOk(w) => Applied(o)
           /\ Refusal(w) => ~CanStillApply(o)' /\ ~Applied(o)'
<1>1. Awaited(w) = Main(o) /\ net' = net \ {<<w, Main(o)>>}
  BY DEF Awaited, Consumed
<1>2. Unmoved(o)
  BY <1>1, NothingMoved
<1>3. GotOk(w) => Applied(o)
  BY <1>1 DEF GotOk, Applied
<1>4. Refusal(w) => ~Applied(o)'
  BY <1>1, <1>2, UnmovedFacts DEF Refusal, Applied
<1>5. ASSUME Ran(w), remote[Main(o)] \in {"failed", "failed_input_required"}
      PROVE  ~CanStillApply(o)'
  BY <1>2, <1>5, SettledIsDead, UnmovedFacts
<1>6. ASSUME Arrived(w)
      PROVE  ~CanStillApply(o)'
  <2>1. Carrier(o) /\ <<w, Main(o)>> \in net
    BY <1>1, <1>6 DEF Deep, OpOK, Arrived
  <2>2. ~Executing(Main(o))' /\ \A v \in Workers : <<v, Main(o)>> \notin net'
    BY <1>1, <2>1 DEF Carrier, Executing, pmVars
  <2> QED BY <2>2 DEF CanStillApply
<1> QED BY <1>1, <1>2, <1>3, <1>4, <1>5, <1>6 DEF Refusal

LEMMA ReplyOkKeeps ==
    ASSUME Calm, Base, Deep, NEW w \in Workers, ReplyOk(w)
    PROVE  Deep'
<1>1. Busy(w) /\ Undisturbed(w) /\ pc[w] = "await"
  BY DEF ReplyOk, Busy, Early
<1>2. PICK o \in Ops : o = loc[w].op
  BY <1>1, KnowsItsOperation DEF Base, Busy
<1>3. Working(o)
  BY <1>1, <1>2, HandlerKnows
<1>4. Unmoved(o) /\ Applied(o) /\ UNCHANGED binding
  BY <1>1, <1>2, ReplyFacts DEF ReplyOk
<1>5. Transition(o, "projection_pending", "projection_pending")
  BY <1>2 DEF ReplyOk
<1>6. intent'[o].state = "projection_pending"
  BY <1>3, <1>5, TransitionEffect DEF Base, TypeInv
<1>7. Knowledge(w, o, "persist")'
  <2>1. Applied(o)'
    BY <1>4, UnmovedFacts
  <2> QED BY <1>6, <2>1 DEF Knowledge
<1>8. Stop(w) \/ Goto(w, "persist")
  BY DEF ReplyOk, GotoIf
<1> QED BY <1>1, <1>2, <1>4, <1>5, <1>7, <1>8, RecordStep DEF Early, Missing

LEMMA ReplyUnknownKeeps ==
    ASSUME Calm, Base, Deep, NEW w \in Workers, ReplyUnknown(w)
    PROVE  Deep'
<1>1. Busy(w) /\ Undisturbed(w)
  BY DEF ReplyUnknown, Busy, Early
<1>2. PICK o \in Ops : o = loc[w].op
  BY <1>1, KnowsItsOperation DEF Base, Busy
<1>3. Unmoved(o)
  BY NothingMoved DEF ReplyUnknown
<1>4. Transition(o, "uncertain", "delivery_outcome_unknown") /\ Stop(w) /\ UNCHANGED binding
  BY <1>2 DEF ReplyUnknown
<1> QED BY <1>1, <1>2, <1>3, <1>4, RecordStep DEF Missing

\* A refusal goes on to the transaction that records it.
LEMMA RefusalKnows ==
    ASSUME NEW w, NEW o \in Ops, NEW step \in {"drop", "fail"},
           step = "drop" => intent'[o].kind = "BIND",
           ~CanStillApply(o)', ~Applied(o)'
    PROVE  Knowledge(w, o, step)'
  BY DEF Knowledge

LEMMA ReplyInvalidKeeps ==
    ASSUME Calm, Base, Deep, NEW w \in Workers, ReplyInvalid(w)
    PROVE  Deep'
<1>1. Busy(w) /\ Undisturbed(w) /\ pc[w] = "await"
  BY DEF ReplyInvalid, Busy, Early
<1>2. PICK o \in Ops : o = loc[w].op
  BY <1>1, KnowsItsOperation DEF Base, Busy
<1>3. Unmoved(o) /\ ~CanStillApply(o)' /\ ~Applied(o)'
  BY <1>1, <1>2, ReplyFacts DEF ReplyInvalid
<1>4. CASE ProjectLater(w)
  BY <1>1, <1>2, <1>3, <1>4, RecordStep DEF ProjectLater, Missing
<1>5. CASE ~ProjectLater(w)
  <2>1. /\ UNCHANGED intent
        /\ UNCHANGED binding \/ SetStatus("credential_invalid")
    BY <1>5 DEF ReplyInvalid
  <2>2. PICK step \in {"drop", "fail"} :
          Goto(w, step) /\ (step = "drop" => intent[o].kind = "BIND")
    BY <1>2, <1>5 DEF ReplyInvalid
  <2>3. Knowledge(w, o, step)'
    BY <1>3, <2>1, <2>2, RefusalKnows
  <2>4. MayShow(o, "credential_invalid")
    BY DEF MayShow
  <2> QED BY <1>1, <1>2, <1>3, <2>1, <2>2, <2>3, <2>4, RowStep DEF Early
<1> QED BY <1>4, <1>5

LEMMA ReplyRefusedKeeps ==
    ASSUME Calm, Base, Deep, NEW w \in Workers, ReplyRefused(w)
    PROVE  Deep'
<1>1. Busy(w) /\ Undisturbed(w) /\ pc[w] = "await"
  BY DEF ReplyRefused, Busy, Early
<1>2. PICK o \in Ops : o = loc[w].op
  BY <1>1, KnowsItsOperation DEF Base, Busy
<1>3. Unmoved(o) /\ ~CanStillApply(o)' /\ ~Applied(o)'
  BY <1>1, <1>2, ReplyFacts DEF ReplyRefused
<1>4. CASE ProjectLater(w)
  BY <1>1, <1>2, <1>3, <1>4, RecordStep DEF ProjectLater, Missing
<1>5. CASE ~ProjectLater(w)
  <2>1. /\ UNCHANGED intent
        /\ UNCHANGED binding \/ SetStatus("delete_failed")
    BY <1>5 DEF ReplyRefused, acVars
  <2>2. PICK step \in {"drop", "fail"} :
          Goto(w, step) /\ (step = "drop" => intent[o].kind = "BIND")
    BY <1>2, <1>5 DEF ReplyRefused
  <2>3. Knowledge(w, o, step)'
    BY <1>3, <2>1, <2>2, RefusalKnows
  <2>4. MayShow(o, "delete_failed")
    BY DEF MayShow
  <2> QED BY <1>1, <1>2, <1>3, <2>1, <2>2, <2>3, <2>4, RowStep DEF Early
<1> QED BY <1>4, <1>5

LEMMA DropKeeps ==
    ASSUME Calm, Base, Deep, NEW w \in Workers, Drop(w)
    PROVE  Deep'
<1>1. Busy(w) /\ Undisturbed(w) /\ pc[w] = "drop"
  BY DEF Drop, Busy, Early
<1>2. PICK o \in Ops : o = loc[w].op
  BY <1>1, KnowsItsOperation DEF Base, Busy
<1>3. Knowledge(w, o, "drop") /\ Owner(o)
  BY <1>1, <1>2, HandlerKnows
<1>4. Unmoved(o)
  BY NothingMoved DEF Drop
<1>5. ~CanStillApply(o) /\ ~Applied(o) /\ intent[o].kind = "BIND"
  BY <1>3 DEF Knowledge
<1>6. CASE Gone
  BY <1>1, <1>2, <1>4, <1>6, RecordStep DEF Drop, Missing
<1>7. CASE ~Gone
  <2>1. SetStatus("deleted") /\ Goto(w, "fail") /\ UNCHANGED intent
    BY <1>7 DEF Drop, DeleteBinding
  <2>2. MayShow(o, "deleted")
    BY <1>3, <1>5 DEF MayShow, Owner, Unapplied, Quiet
  <2>3. ~CanStillApply(o)' /\ ~Applied(o)'
    BY <1>4, <1>5, UnmovedFacts
  <2>4. Knowledge(w, o, "fail")'
    BY <2>3, RefusalKnows
  <2> QED BY <1>1, <1>2, <1>4, <2>1, <2>2, <2>4, RowStep DEF Early
<1> QED BY <1>6, <1>7

-----------------------------------------------------------------------------
\* Projection and compensation.

\* A summary that is written is the one of the credential: the row shows it.
LEMMA SummaryKeeps ==
    ASSUME Base, Deep, NEW o \in Ops, Working(o), ~Dropping', Unmoved(o),
           intent'[o] = intent[o], Applied(o), intent[o].kind # "DELETE",
           o \in OwnedElsewhere => binding.key, PersistSummary(Target(o))
    PROVE  /\ RowOK' /\ OpOK(o)'
           /\ binding'.key /\ binding'.gen = Target(o)
<1>1. o \in Reserved /\ o \in Reserved' /\ Reserved' # {}
  BY DEF Reserved, Working
<1>2. InForce(o) /\ OpOK(o)
  BY <1>1 DEF Deep, OpOK, Owner
<1>3. binding.gen \in Nat /\ Target(o) \in Nat /\ binding \in Bindings
  BY GenerationsAreNaturals DEF Base, TypeInv, RowsOK, Bindings
<1>4. binding.gen <= Target(o)
  <2>1. CASE binding.key
    BY <1>2, <1>3, <2>1, GenerationsAreNaturals DEF InForce, Target, Base, TypeInv
  <2>2. CASE ~binding.key
    BY <1>3, <2>2 DEF Deep, RowOK
  <2> QED BY <2>1, <2>2
<1>5. binding' = [status |-> "active", gen |-> Target(o), key |-> TRUE]
  BY <1>3, <1>4 DEF PersistSummary
<1>6. binding'.status = "active" /\ binding'.gen = Target(o) /\ binding'.key
  BY <1>5
<1>7. ~Comps(o) /\ ~CompDone(o) /\ cred.exists /\ cred.gen = Target(o)
  BY <1>2 DEF OpOK, CompOK, InForce, CompDone, Comps
<1>8. /\ Applied(o)' /\ ~Comps(o)' /\ ~CompDone(o)' /\ cred' = cred
      /\ Target(o)' = Target(o)
  BY <1>7, UnmovedFacts DEF Unmoved, Target
<1>9. RowOK'
  BY <1>1, <1>6 DEF RowOK
<1>10. InForce(o)'
  BY <1>2, <1>6, <1>7, <1>8 DEF InForce, Gone
<1>11. CompOK(o)'
  BY <1>2, <1>7, <1>8 DEF OpOK, CompOK, Missing
<1>12. Born(o)' /\ Closed(o)' /\ Carrier(o)'
  BY <1>2, UnmovedFacts DEF OpOK, Born, Closed, Working, Over, Reserving, Released
<1> QED BY <1>6, <1>8, <1>9, <1>10, <1>11, <1>12 DEF OpOK, Owner

LEMMA PersistOutcomeKeeps ==
    ASSUME Calm, Base, Deep, NEW w \in Workers, PersistOutcome(w)
    PROVE  Deep'
<1>1. Busy(w) /\ Undisturbed(w) /\ pc[w] = "persist" /\ ~Gone
  BY DEF PersistOutcome, Busy, Early
<1>2. PICK o \in Ops : o = loc[w].op
  BY <1>1, KnowsItsOperation DEF Base, Busy
<1>3. Knowledge(w, o, "persist") /\ Working(o)
  BY <1>1, <1>2, HandlerKnows
<1>4. Unmoved(o) /\ UNCHANGED intent
  BY NothingMoved DEF PersistOutcome
<1>5. Applied(o) /\ Applied(o)' /\ intent[o].state = "projection_pending"
  BY <1>3, <1>4, UnmovedFacts DEF Knowledge
<1>6. CASE intent[o].kind = "DELETE"
  <2>1. SetStatus("deleted") /\ Goto(w, "complete")
    BY <1>2, <1>6 DEF PersistOutcome, DeleteBinding
  <2>2. MayShow(o, "deleted")
    BY <1>5, <1>6 DEF MayShow
  <2>3. Gone'
    BY <2>1, SetStatusTypes DEF Gone, Base, TypeInv, RowsOK
  <2>4. ~CanStillApply(o)'
    BY <1>4, <1>5, SettledIsDead, UnmovedFacts DEF Applied
  <2>5. Knowledge(w, o, "complete")'
    BY <1>4, <1>5, <1>6, <2>3, <2>4 DEF Knowledge
  <2> QED BY <1>1, <1>2, <1>4, <2>1, <2>2, <2>5, RowStep DEF Early
<1>7. CASE intent[o].kind # "DELETE" /\ o \in OwnedElsewhere /\ ~binding.key
  <2>1. UNCHANGED binding /\ GotoIf(w, intent[o].kind = "BIND", "compensate_dup")
    BY <1>2, <1>7 DEF PersistOutcome
  <2>2. CASE Stop(w)
    BY <1>1, <1>2, <1>4, <2>1, <2>2, RowStep
  <2>3. CASE ~Stop(w)
    <3>1. Goto(w, "compensate_dup") /\ intent[o].kind = "BIND"
      BY <2>1, <2>3 DEF GotoIf
    <3>2. Duplicate(o)'
      BY <1>4, <1>5, <1>7, <2>1, <3>1 DEF Duplicate
    <3>3. Knowledge(w, o, "compensate_dup")'
      BY <3>2 DEF Knowledge
    <3> QED BY <1>1, <1>2, <1>4, <2>1, <3>1, <3>3, RowStep DEF Early
  <2> QED BY <2>2, <2>3
<1>8. CASE intent[o].kind # "DELETE" /\ ~(o \in OwnedElsewhere /\ ~binding.key)
  <2>1. PersistSummary(Target(o)) /\ Goto(w, "complete")
    BY <1>2, <1>8 DEF PersistOutcome
  <2>2. ~Dropping' => RowOK' /\ OpOK(o)' /\ binding'.key /\ binding'.gen = Target(o)
    BY <1>3, <1>4, <1>5, <1>8, <2>1, SummaryKeeps
  <2>3. ~Dropping'
    BY <1>1, <2>1, HandlerIsAlone DEF Dropping, Goto, Base, TypeInv, WorkersOK
  <2>4. Target(o)' = Target(o)
    BY <1>4 DEF Target
  <2>5. Knowledge(w, o, "complete")'
    BY <1>4, <1>5, <1>8, <2>2, <2>3, <2>4 DEF Knowledge
  <2>6. Working(o)'
    BY <1>3, <1>4 DEF Working
  <2> QED BY <1>1, <1>2, <1>4, <2>1, <2>2, <2>5, <2>6, HandlerKeeps DEF Early
<1> QED BY <1>6, <1>7, <1>8

LEMMA PersistFailsKeeps ==
    ASSUME Calm, Base, Deep, NEW w \in Workers, PersistFails(w)
    PROVE  Deep'
<1>1. Busy(w) /\ Undisturbed(w) /\ pc[w] = "persist"
  BY DEF PersistFails, Busy, Early
<1>2. PICK o \in Ops : o = loc[w].op
  BY <1>1, KnowsItsOperation DEF Base, Busy
<1>3. Knowledge(w, o, "persist")
  BY <1>1, <1>2, HandlerKnows
<1>4. Unmoved(o) /\ UNCHANGED intent /\ Stop(w)
  BY NothingMoved DEF PersistFails
<1>5. \/ UNCHANGED binding
      \/ SetStatus("cleanup_failed") /\ loc[w].req = "DELETE"
  BY DEF PersistFails
<1>6. loc[w].req = "DELETE" => MayShow(o, "cleanup_failed")
  BY <1>1, <1>2, <1>3 DEF Deep, WorkerOK, Handling, MayShow, Knowledge
<1> QED BY <1>1, <1>2, <1>4, <1>5, <1>6, RowStep

LEMMA CompensationOkKeeps ==
    ASSUME Calm, Base, Deep, NEW w \in Workers, CompensationOk(w)
    PROVE  Deep'
<1>1. Busy(w) /\ Undisturbed(w)
  BY DEF CompensationOk, Busy, Early
<1>2. PICK o \in Ops : o = loc[w].op
  BY <1>1, KnowsItsOperation DEF Base, Busy
<1>3. pc[w] = "await_dup" /\ Duplicate(o) /\ Working(o)
  BY <1>1, <1>2, HandlerKnows DEF Knowledge, CompensationOk
<1>4. Unmoved(o) /\ UNCHANGED binding
  BY NothingMoved DEF CompensationOk, Consumed
<1>5. CompDone(o)
  BY <1>2, <1>3 DEF CompensationOk, GotOk, Awaited, CompDone
<1>6. Transition(o, "projection_pending", "dup_projection")
  BY <1>2, <1>3 DEF CompensationOk
<1>7. Stop(w) \/ Goto(w, "drop_dup")
  BY <1>3 DEF CompensationOk, GotoIf
<1>8. Knowledge(w, o, "drop_dup")'
  <2>1. intent'[o].state = "projection_pending" /\ intent'[o].kind = intent[o].kind
    BY <1>3, <1>6, TransitionEffect DEF Base, TypeInv
  <2>2. Duplicate(o)' /\ CompDone(o)'
    BY <1>3, <1>4, <1>5, <2>1, UnmovedFacts DEF Duplicate
  <2> QED BY <2>2 DEF Knowledge
<1> QED BY <1>1, <1>2, <1>4, <1>5, <1>6, <1>7, <1>8, RecordStep DEF Early

LEMMA CompensationFailsKeeps ==
    ASSUME Calm, Base, Deep, NEW w \in Workers, CompensationFails(w)
    PROVE  Deep'
<1>1. Busy(w) /\ Undisturbed(w)
  BY DEF CompensationFails, Busy, Early
<1>2. PICK o \in Ops : o = loc[w].op
  BY <1>1, KnowsItsOperation DEF Base, Busy
<1>3. pc[w] = "await_dup"
  BY <1>1, <1>2, HandlerKnows DEF Knowledge, CompensationFails
<1>4. Unmoved(o) /\ UNCHANGED binding
  BY NothingMoved DEF CompensationFails
<1>5. Transition(o, "invariant_violation", "dup_failed")
  BY <1>2, <1>3 DEF CompensationFails
<1>6. Stop(w) \/ Goto(w, "show_dup_failed")
  BY DEF CompensationFails, GotoIf
<1>7. Knowledge(w, o, "show_dup_failed")'
  BY DEF Knowledge
<1> QED BY <1>1, <1>2, <1>4, <1>5, <1>6, <1>7, RecordStep DEF Early, Missing

LEMMA ShowDupFailedKeeps ==
    ASSUME Calm, Base, Deep, NEW w \in Workers, ShowDupFailed(w)
    PROVE  Deep'
<1>1. Busy(w) /\ Undisturbed(w)
  BY DEF ShowDupFailed, Busy, Early
<1>2. PICK o \in Ops : o = loc[w].op
  BY <1>1, KnowsItsOperation DEF Base, Busy
<1>3. Unmoved(o) /\ UNCHANGED intent /\ Stop(w)
  BY NothingMoved DEF ShowDupFailed
<1>4. UNCHANGED binding \/ (SetStatus("delete_failed") /\ MayShow(o, "delete_failed"))
  BY DEF ShowDupFailed, MayShow
<1> QED BY <1>1, <1>2, <1>3, <1>4, RowStep

LEMMA DropCompensatedKeeps ==
    ASSUME Calm, Base, Deep, NEW w \in Workers, DropCompensated(w)
    PROVE  Deep'
<1>1. Busy(w) /\ Undisturbed(w)
  BY DEF DropCompensated, Busy, Early
<1>2. PICK o \in Ops : o = loc[w].op
  BY <1>1, KnowsItsOperation DEF Base, Busy
<1>3. pc[w] = "drop_dup" /\ Duplicate(o) /\ CompDone(o)
  BY <1>1, <1>2, HandlerKnows DEF Knowledge, DropCompensated
<1>4. Unmoved(o) /\ UNCHANGED intent
  BY NothingMoved DEF DropCompensated
<1>5. CASE Gone
  <2>1. UNCHANGED binding /\ Stop(w)
    BY <1>3, <1>5 DEF DropCompensated, GotoIf
  <2> QED BY <1>1, <1>2, <1>4, <2>1, RowStep
<1>6. CASE ~Gone
  <2>1. SetStatus("deleted") /\ Goto(w, "fail_compensated")
    BY <1>6 DEF DropCompensated, GotoIf, DeleteBinding
  <2>2. MayShow(o, "deleted")
    BY <1>3 DEF MayShow, Duplicate
  <2>3. binding'.status = "deleted" /\ binding'.key = binding.key
    BY <2>1 DEF SetStatus, Base, TypeInv, RowsOK, Bindings
  <2>4. Duplicate(o)' /\ CompDone(o)' /\ Gone'
    BY <1>3, <1>4, <2>3, UnmovedFacts DEF Duplicate, Gone
  <2>5. Knowledge(w, o, "fail_compensated")'
    BY <2>4 DEF Knowledge
  <2> QED BY <1>1, <1>2, <1>4, <2>1, <2>2, <2>5, RowStep DEF Early
<1> QED BY <1>5, <1>6

LEMMA ReplyKeeps ==
    ASSUME Calm, Base, Deep, NEW w \in Workers, Reply(w)
    PROVE  Deep'
  BY TicketFailsKeeps, SendKeeps, SendCompensationKeeps, ReplyOkKeeps, ReplyUnknownKeeps,
     ReplyInvalidKeeps, ReplyRefusedKeeps, DropKeeps, MarkFailedKeeps, PersistOutcomeKeeps,
     PersistFailsKeeps, MarkSucceededKeeps, CompensationOkKeeps, CompensationFailsKeeps,
     ShowDupFailedKeeps, DropCompensatedKeeps DEF Reply

-----------------------------------------------------------------------------
\* The reconciler claims an operation.

\* A wake-up is claimed while nobody handles the operation, and no request
\* holds a snapshot: every worker is idle.
LEMMA ClaimerIsAlone ==
    ASSUME Calm, Base, Deep, NEW w \in Workers, NEW o \in Ops, Claim(w, o), o \in Reserved
    PROVE  /\ \A v \in Workers : pc[v] = "idle" /\ loc[v] = NoLoc
           /\ ~Dropping /\ OpOK(o) /\ Owner(o)
<1>1. pc[w] = "idle" /\ Undisturbed(w) /\ ~Handled(o)
  BY DEF Claim, Claimable, Calm
<1>2. ASSUME NEW v \in Workers
      PROVE  pc[v] = "idle" /\ loc[v] = NoLoc
  <2>1. ASSUME Busy(v) PROVE FALSE
    <3>1. loc[v].op \in Ops /\ Working(loc[v].op)
      BY <2>1, KnowsItsOperation DEF Base, Busy, Deep, WorkerOK, Handling
    <3>2. loc[v].op = o
      BY <3>1 DEF Base, OneReservation, Reserved, Working
    <3> QED BY <1>1, <3>2 DEF Handled
  <2>2. ~HoldsSnapshot(v)
    BY <1>1 DEF Undisturbed, HoldsSnapshot, Calm
  <2>3. pc[v] = "idle"
    BY <2>1, <2>2 DEF Busy, HoldsSnapshot, Early
  <2> QED BY <2>3 DEF Deep, WorkerOK, Handling
<1>3. ~Dropping
  BY <1>2 DEF Dropping
<1> QED BY <1>2, <1>3 DEF Deep, OpOK

LEMMA IdleKeeps ==
    ASSUME UNCHANGED <<pc, loc>>, \A v \in Workers : pc[v] = "idle" /\ loc[v] = NoLoc
    PROVE  (\A v \in Workers : WorkerOK(v)') /\ ~Dropping'
<1>1. \A v \in Workers : pc'[v] = "idle" /\ loc'[v] = NoLoc
  OBVIOUS
<1> QED BY <1>1, IdleWorkerOK DEF Dropping

LEMMA BeginFacts ==
    ASSUME TypeInv, NEW w \in Workers, NEW o \in Ops, NEW step, Begin(w, o, step),
           \A v \in Workers : pc[v] = "idle" /\ loc[v] = NoLoc
    PROVE  /\ Alone(w) /\ Leaves(w) /\ pc'[w] = step
           /\ loc'[w].op = o /\ loc'[w].seen = intent[o] /\ loc'[w].req = ""
<1>1. Alone(w) /\ Leaves(w) /\ pc'[w] = step
  BY DEF Alone, Leaves, Begin, TypeInv, WorkersOK
<1>2. loc'[w] = [loc[w] EXCEPT !.op = o, !.seen = intent[o]]
  BY DEF Begin, TypeInv, WorkersOK
<1>3. loc[w] \in Locs /\ loc[w].req = ""
  BY EmptyValues DEF TypeInv, WorkersOK
<1>4. /\ loc'[w].op = o /\ loc'[w].seen = intent[o]
      /\ loc'[w].req = loc[w].req
  BY <1>2, <1>3 DEF Locs
<1> QED BY <1>1, <1>3, <1>4

LEMMA ClaimExpiredKeeps ==
    ASSUME Calm, Base, Deep, NEW w \in Workers, NEW o \in Ops, ClaimExpired(w, o)
    PROVE  Deep'
<1>1. o \in Reserved /\ Claim(w, o) /\ intent[o].state = "input_required"
  BY DEF ClaimExpired, Reserved, Reserving
<1>2. /\ \A v \in Workers : pc[v] = "idle" /\ loc[v] = NoLoc
      /\ ~Dropping /\ OpOK(o) /\ Owner(o)
  BY <1>1, ClaimerIsAlone
<1>3. (\A v \in Workers : WorkerOK(v)') /\ ~Dropping'
  BY <1>2, IdleKeeps DEF ClaimExpired
<1>4. Unmoved(o) /\ UNCHANGED binding
  BY NothingMoved DEF ClaimExpired
<1>5. /\ \A p \in Ops \ {o} : intent'[p] = intent[p]
      /\ intent'[o].kind = intent[o].kind /\ intent'[o].state = "superseded"
      /\ intent'[o].reason = "credential_input_expired"
  BY DEF ClaimExpired, Record, Base, TypeInv, RowsOK, Intents
<1>6. ~CanStillApply(o) /\ ~Applied(o)
  BY <1>1, <1>2 DEF OpOK, Closed, Over, Verdict, NothingLeft
<1>7. Quiet /\ ~Comps(o)
  BY <1>2, <1>6 DEF Owner, Unapplied, OpOK, CompOK
<1>8. RowOK' /\ OpOK(o)'
  BY <1>1, <1>2, <1>3, <1>4, <1>5, <1>6, <1>7, ReleaseKeeps DEF Released, Missing
<1>9. \A p \in Ops \ {o} : OpOK(p)'
  BY <1>1, <1>4, <1>5, UnmovedFacts, ApartKeeps
<1> QED BY <1>3, <1>8, <1>9 DEF Deep

LEMMA ClaimProjectedKeeps ==
    ASSUME Calm, Base, Deep, NEW w \in Workers, NEW o \in Ops, ClaimProjected(w, o)
    PROVE  Deep'
<1>1. o \in Reserved /\ Claim(w, o) /\ Working(o)
  BY DEF ClaimProjected, Reserved, Working
<1>2. /\ \A v \in Workers : pc[v] = "idle" /\ loc[v] = NoLoc
      /\ ~Dropping /\ OpOK(o) /\ Owner(o)
  BY <1>1, ClaimerIsAlone
<1>3. Unmoved(o) /\ UNCHANGED binding /\ Gone' = Gone
  BY NothingMoved DEF ClaimProjected, Gone
<1>4. CASE DeleteProjected(o) /\ Transition(o, "projection_pending", "projection_already_deleted")
           /\ Begin(w, o, "complete")
  <2>1. /\ \A p \in Ops \ {o} : intent'[p] = intent[p]
        /\ intent'[o].kind = intent[o].kind /\ intent'[o].pre = intent[o].pre
        /\ intent'[o].state = "projection_pending"
        /\ intent'[o].reason = "projection_already_deleted"
    BY <1>1, <1>4, TransitionEffect DEF Base, TypeInv
  <2>2. intent[o].kind = "DELETE" /\ Gone
    BY <1>4 DEF DeleteProjected
  <2>3. ~CanStillApply(o)
    BY <1>2, <2>2, SettledIsDead DEF Owner, Unapplied, Applied, Void
  <2>4. Knowledge(w, o, "complete")'
    BY <1>3, <2>1, <2>2, <2>3, UnmovedFacts DEF Knowledge
  <2>5. Working(o)'
    BY <2>1 DEF Working, Reserving
  <2>6. /\ Alone(w) /\ Leaves(w) /\ pc'[w] = "complete"
        /\ loc'[w].op = o /\ loc'[w].seen = intent[o] /\ loc'[w].req = ""
    BY <1>2, <1>4, BeginFacts DEF Base
  <2>7. (\A v \in Workers : WorkerOK(v)') /\ ~Dropping'
    BY <1>2, <2>4, <2>5, <2>6, HandlerMoves DEF Early, OpOK, CompOK
  <2>8. RowOK' /\ OpOK(o)'
    BY <1>1, <1>2, <1>3, <2>1, <2>7, RecordKeeps DEF Reserving, Missing
  <2>9. \A p \in Ops \ {o} : OpOK(p)'
    BY <1>1, <1>3, <2>1, UnmovedFacts, ApartKeeps
  <2> QED BY <2>7, <2>8, <2>9 DEF Deep
<1>5. CASE DupProjected(o) /\ Transition(o, "failed", "compensated") /\ UNCHANGED <<pc, loc>>
  <2>1. /\ \A p \in Ops \ {o} : intent'[p] = intent[p]
        /\ intent'[o].kind = intent[o].kind /\ intent'[o].state = "failed"
        /\ intent'[o].reason = "compensated"
    BY <1>1, <1>5, TransitionEffect DEF Base, TypeInv
  <2>2. CompDone(o) /\ Gone
    BY <1>2, <1>5 DEF DupProjected, OpOK, CompOK
  <2>3. Comps(o) /\ Applied(o) /\ ~cred.exists
    BY <1>2, <2>2 DEF OpOK, CompOK, CompDone, Comps
  <2>4. ~CanStillApply(o) /\ Quiet
    BY <1>2, <2>2, <2>3, SettledIsDead DEF Applied, Quiet, Gone
  <2>5. (\A v \in Workers : WorkerOK(v)') /\ ~Dropping'
    BY <1>2, <1>5, IdleKeeps
  <2>6. RowOK' /\ OpOK(o)'
    BY <1>1, <1>2, <1>3, <2>1, <2>2, <2>4, <2>5, ReleaseKeeps DEF Released, Missing
  <2>7. \A p \in Ops \ {o} : OpOK(p)'
    BY <1>1, <1>3, <2>1, UnmovedFacts, ApartKeeps
  <2> QED BY <2>5, <2>6, <2>7 DEF Deep
<1> QED BY <1>4, <1>5 DEF ClaimProjected

LEMMA ClaimOpenKeeps ==
    ASSUME Calm, Base, Deep, NEW w \in Workers, NEW o \in Ops, ClaimOpen(w, o)
    PROVE  Deep'
<1>1. o \in Reserved /\ Claim(w, o) /\ Working(o)
  BY DEF ClaimOpen, Reserved, Working
<1>2. /\ \A v \in Workers : pc[v] = "idle" /\ loc[v] = NoLoc
      /\ ~Dropping /\ OpOK(o) /\ Owner(o)
  BY <1>1, ClaimerIsAlone
<1>3. Unmoved(o) /\ UNCHANGED <<binding, intent>>
  BY NothingMoved DEF ClaimOpen, acVars
<1>4. PICK step \in {"admitted", "resolve"} :
        /\ Begin(w, o, step)
        /\ step = "admitted" => /\ intent[o].state = "pending_delivery"
                                /\ intent[o].kind \in NonSensitive
  BY DEF ClaimOpen
<1>5. Knowledge(w, o, step)'
  <2>1. intent[o].state = "pending_delivery" => ~Travelling(o)
    BY <1>1 DEF Claim, Claimable, Calm
  <2>2. step = "admitted" => ~Travelling(o)'
    BY <1>3, <1>4, <2>1, UnmovedFacts
  <2> QED BY <1>3, <1>4, <2>2 DEF Knowledge, NonSensitive
<1>6. Working(o)'
  BY <1>1, <1>3 DEF Working
<1>7. /\ Alone(w) /\ Leaves(w) /\ pc'[w] = step
      /\ loc'[w].op = o /\ loc'[w].seen = intent[o] /\ loc'[w].req = ""
  BY <1>2, <1>4, BeginFacts DEF Base
<1>8. (\A v \in Workers : WorkerOK(v)') /\ ~Dropping'
  BY <1>2, <1>4, <1>5, <1>6, <1>7, HandlerMoves DEF Early, OpOK, CompOK
<1>9. RowOK' /\ OpOK(o)'
  BY <1>1, <1>2, <1>3, <1>8, RecordKeeps DEF Working
<1>10. \A p \in Ops \ {o} : OpOK(p)'
  BY <1>1, <1>3, UnmovedFacts, ApartKeeps
<1> QED BY <1>8, <1>9, <1>10 DEF Deep

-----------------------------------------------------------------------------
\* The reconciler asks for the verdict.

LEMMA ResolveAnsweredKeeps ==
    ASSUME Calm, Base, Deep, NEW w \in Workers, NEW a \in Answers, ResolveAnswered(w, a)
    PROVE  Deep'
<1>1. Busy(w) /\ Undisturbed(w)
  BY DEF ResolveAnswered, Busy, Early
<1>2. PICK o \in Ops : o = loc[w].op
  BY <1>1, KnowsItsOperation DEF Base, Busy
<1>3. Working(o)
  BY <1>1, <1>2, HandlerKnows
<1>4. Unmoved(o) /\ UNCHANGED binding /\ remote'[Main(o)] = a
  BY <1>2, ResolvedMoves DEF ResolveAnswered, Base
<1>5. CASE a = "pending"
  BY <1>1, <1>2, <1>4, <1>5, RecordStep DEF ResolveAnswered, Missing
<1>6. CASE a = "succeeded"
  <2>1. /\ Transition(o, "projection_pending", "projection_pending")
        /\ Stop(w) \/ Goto(w, "persist")
    BY <1>2, <1>6 DEF ResolveAnswered, GotoIf
  <2>2. intent'[o].state = "projection_pending"
    BY <1>3, <2>1, TransitionEffect DEF Base, TypeInv
  <2>3. Knowledge(w, o, "persist")'
    BY <1>4, <1>6, <2>2 DEF Knowledge, Applied
  <2> QED BY <1>1, <1>2, <1>4, <2>1, <2>3, RecordStep DEF Early, Missing
<1>7. CASE a = "failed"
  <2>1. Goto(w, "persist_failure") /\ UNCHANGED intent
    BY <1>7 DEF ResolveAnswered
  <2>2. Knowledge(w, o, "persist_failure")'
    BY <1>4, <1>7 DEF Knowledge
  <2> QED BY <1>1, <1>2, <1>4, <2>1, <2>2, RowStep DEF Early
<1>8. CASE a \notin {"pending", "succeeded", "failed"}
  <2>1. Goto(w, "proof") /\ UNCHANGED intent
    BY <1>8 DEF ResolveAnswered
  <2>2. Knowledge(w, o, "proof")'
    BY <1>4, <1>8 DEF Knowledge, Void, Answers
  <2> QED BY <1>1, <1>2, <1>4, <2>1, <2>2, RowStep DEF Early
<1> QED BY <1>5, <1>6, <1>7, <1>8

LEMMA ResolveUnknownKeeps ==
    ASSUME Calm, Base, Deep, NEW w \in Workers, ResolveUnknown(w)
    PROVE  Deep'
<1>1. Busy(w) /\ Undisturbed(w)
  BY DEF ResolveUnknown, Busy, Early
<1>2. PICK o \in Ops : o = loc[w].op
  BY <1>1, KnowsItsOperation DEF Base, Busy
<1>3. Unmoved(o)
  BY <1>2, ResolvedMoves, NothingMoved DEF ResolveUnknown, Base
<1>4. Transition(o, "uncertain", "resolve_outcome_unknown") /\ Stop(w) /\ UNCHANGED binding
  BY <1>2 DEF ResolveUnknown
<1> QED BY <1>1, <1>2, <1>3, <1>4, RecordStep DEF Missing

LEMMA ResolveRejectedKeeps ==
    ASSUME Calm, Base, Deep, NEW w \in Workers, ResolveRejected(w)
    PROVE  Deep'
<1>1. Busy(w) /\ Undisturbed(w)
  BY DEF ResolveRejected, Busy, Early
<1>2. PICK o \in Ops : o = loc[w].op
  BY <1>1, KnowsItsOperation DEF Base, Busy
<1>3. Unmoved(o)
  BY NothingMoved DEF ResolveRejected
<1>4. Transition(o, "invariant_violation", "resolve_rejected") /\ Stop(w) /\ UNCHANGED binding
  BY <1>2 DEF ResolveRejected
<1> QED BY <1>1, <1>2, <1>3, <1>4, RecordStep DEF Missing

LEMMA PersistFailureKeeps ==
    ASSUME Calm, Base, Deep, NEW w \in Workers, PersistFailure(w)
    PROVE  Deep'
<1>1. Busy(w) /\ Undisturbed(w) /\ pc[w] = "persist_failure"
  BY DEF PersistFailure, Busy, Early
<1>2. PICK o \in Ops : o = loc[w].op
  BY <1>1, KnowsItsOperation DEF Base, Busy
<1>3. /\ Knowledge(w, o, "persist_failure") /\ Owner(o)
      /\ intent[o].kind \in Kinds
  BY <1>1, <1>2, HandlerKnows
<1>4. Unmoved(o) /\ UNCHANGED intent
  BY NothingMoved DEF PersistFailure
<1>5. ~CanStillApply(o) /\ ~Applied(o)
  BY <1>3, SettledIsDead DEF Knowledge, Applied
<1>6. \/ UNCHANGED binding
      \/ SetStatus("deleted") /\ intent[o].kind = "BIND"
      \/ \E s \in {"credential_invalid", "refresh_required", "delete_failed"} : SetStatus(s)
  BY <1>2, <1>3 DEF PersistFailure, DeleteBinding, Kinds
<1>7. Stop(w) \/ Goto(w, "fail")
  BY DEF PersistFailure, GotoIf
<1>8. Knowledge(w, o, "fail")'
  BY <1>4, <1>5, UnmovedFacts, RefusalKnows
<1>9. intent[o].kind = "BIND" => MayShow(o, "deleted")
  BY <1>3, <1>5 DEF MayShow, Owner, Unapplied, Quiet
<1>10. \A s \in {"credential_invalid", "refresh_required", "delete_failed"} : MayShow(o, s)
  BY DEF MayShow
<1> QED BY <1>1, <1>2, <1>4, <1>6, <1>7, <1>8, <1>9, <1>10, RowStep DEF Early

LEMMA ReadProofKeeps ==
    ASSUME Calm, Base, Deep, NEW w \in Workers, ReadProof(w)
    PROVE  Deep'
<1>1. Busy(w) /\ Undisturbed(w) /\ pc[w] = "proof"
  BY DEF ReadProof, Busy, Early
<1>2. PICK o \in Ops : o = loc[w].op
  BY <1>1, KnowsItsOperation DEF Base, Busy
<1>3. /\ Knowledge(w, o, "proof") /\ Alone(w) /\ Working(o) /\ o \in Reserved /\ ~Dropping
      /\ intent[o].kind \in Kinds
  BY <1>1, <1>2, HandlerKnows
<1>4. Unmoved(o) /\ UNCHANGED <<binding, intent>> /\ cred' = cred
  BY NothingMoved DEF ReadProof, acVars, pmVars
<1>5. CASE Stop(w)
  BY <1>1, <1>2, <1>4, <1>5, RowStep
<1>6. CASE ~Stop(w)
  <2>1. PICK step \in {"retry", "confirm"} :
          /\ loc' = [loc EXCEPT ![w].proof = cred] /\ pc' = [pc EXCEPT ![w] = step]
          /\ step = "retry" <=> intent[o].kind \in NonSensitive
    BY <1>2, <1>6 DEF ReadProof
  <2>2. pc'[w] = step /\ Leaves(w)
    BY <2>1 DEF Leaves, Base, TypeInv, WorkersOK
  <2>3. /\ loc'[w].op = o /\ loc'[w].seen = loc[w].seen /\ loc'[w].req = loc[w].req
        /\ loc'[w].proof = cred
    <3>1. loc'[w] = [loc[w] EXCEPT !.proof = cred] /\ loc[w] \in Locs
      BY <2>1 DEF Base, TypeInv, WorkersOK
    <3> QED BY <1>2, <3>1 DEF Locs
  <2>4. /\ loc[w].seen.reason \notin Missing
        /\ loc[w].req = "DELETE" => intent[o].kind = "DELETE"
    BY <1>1, <1>2 DEF Deep, WorkerOK, Handling
  <2>5. Void(o)'
    BY <1>3, <1>4, UnmovedFacts DEF Knowledge
  <2>6. Knowledge(w, o, step)'
    BY <1>3, <1>4, <2>1, <2>3, <2>5 DEF Knowledge, Kinds, NonSensitive
  <2>7. Working(o)'
    BY <1>3, <1>4 DEF Working
  <2>8. /\ loc'[w].seen.reason \notin Missing
        /\ loc'[w].req = "DELETE" => intent'[o].kind = "DELETE"
    BY <1>4, <2>3, <2>4
  <2>9. (\A v \in Workers : WorkerOK(v)') /\ ~Dropping'
    BY <1>3, <2>2, <2>3, <2>6, <2>7, <2>8, HandlerMoves DEF Early
  <2>10. RowOK' /\ OpOK(o)'
    BY <1>3, <1>4, <2>9, RecordKeeps DEF Working
  <2>11. \A p \in Ops \ {o} : OpOK(p)'
    BY <1>3, <1>4, UnmovedFacts, ApartKeeps
  <2> QED BY <2>9, <2>10, <2>11 DEF Deep
<1> QED BY <1>5, <1>6

LEMMA RetryDisprovedKeeps ==
    ASSUME Calm, Base, Deep, NEW w \in Workers, RetryDisproved(w)
    PROVE  Deep'
<1>1. Busy(w) /\ Undisturbed(w) /\ pc[w] = "retry"
  BY DEF RetryDisproved, Busy, Early
<1>2. PICK o \in Ops : o = loc[w].op
  BY <1>1, KnowsItsOperation DEF Base, Busy
<1>3. Knowledge(w, o, "retry") /\ Owner(o)
  BY <1>1, <1>2, HandlerKnows
<1>4. Unmoved(o)
  BY NothingMoved DEF RetryDisproved
<1>5. Void(o) /\ loc[w].proof = cred
  BY <1>3 DEF Knowledge
<1>6. CASE intent[o].kind = "DELETE" /\ ~cred.exists
  <2>1. /\ Goto(w, "delete_absent") /\ UNCHANGED intent
        /\ IF Gone THEN UNCHANGED binding ELSE SetStatus("deleted")
    BY <1>2, <1>5, <1>6 DEF RetryDisproved, DeleteBinding
  <2>2. MayShow(o, "deleted")
    BY <1>5, <1>6 DEF MayShow, Void, Applied
  <2>3. Gone'
    BY <2>1, SetStatusTypes DEF Gone, Base, TypeInv, RowsOK
  <2>4. Void(o)'
    BY <1>4, <1>5, UnmovedFacts
  <2>5. Knowledge(w, o, "delete_absent")'
    BY <1>6, <2>1, <2>3, <2>4 DEF Knowledge
  <2> QED BY <1>1, <1>2, <1>4, <2>1, <2>2, <2>5, RowStep DEF Early
<1>7. CASE ~(intent[o].kind = "DELETE" /\ ~cred.exists)
  <2>1. Transition(o, "invariant_violation", "inconsistent") /\ Stop(w) /\ UNCHANGED binding
    BY <1>2, <1>5, <1>7 DEF RetryDisproved
  <2> QED BY <1>1, <1>2, <1>4, <2>1, RecordStep DEF Missing
<1> QED BY <1>6, <1>7

LEMMA DeleteAbsentKeeps ==
    ASSUME Calm, Base, Deep, NEW w \in Workers, DeleteAbsent(w)
    PROVE  Deep'
<1>1. Busy(w) /\ Undisturbed(w) /\ pc[w] = "delete_absent"
  BY DEF DeleteAbsent, Busy, Early
<1>2. PICK o \in Ops : o = loc[w].op
  BY <1>1, KnowsItsOperation DEF Base, Busy
<1>3. Knowledge(w, o, "delete_absent") /\ Working(o)
  BY <1>1, <1>2, HandlerKnows
<1>4. Unmoved(o) /\ UNCHANGED binding /\ Gone' = Gone
  BY NothingMoved DEF DeleteAbsent, Gone
<1>5. /\ Transition(o, "projection_pending", "delete_already_absent")
      /\ Stop(w) \/ Goto(w, "complete")
  BY <1>2 DEF DeleteAbsent, GotoIf
<1>6. intent'[o].state = "projection_pending" /\ intent'[o].kind = intent[o].kind
  BY <1>3, <1>5, TransitionEffect DEF Base, TypeInv
<1>7. intent[o].kind = "DELETE" /\ Gone /\ ~CanStillApply(o)
  BY <1>3, SettledIsDead DEF Knowledge, Void
<1>8. Knowledge(w, o, "complete")'
  BY <1>4, <1>6, <1>7, UnmovedFacts DEF Knowledge
<1> QED BY <1>1, <1>2, <1>4, <1>5, <1>8, RecordStep DEF Early, Missing

\* A fresh operation takes over a binding whose row and credential agree.
LEMMA NewOwnerKeeps ==
    ASSUME Base, Deep, NEW n \in Fresh, UNCHANGED <<cred, remote, exec, net>>, Quiet',
           intent'[n].state = "pending_delivery", intent'[n].reason = "",
           intent'[n].pre = binding'.gen,
           intent'[n].kind = "BIND" => ~binding'.key,
           intent'[n].kind = "REPLACE" => binding'.key,
           intent'[n].kind = "DELETE" =>
               /\ binding'.key /\ ~Gone' /\ ~Dropping'
               /\ binding'.status \notin {"active", "cleanup_failed"}
    PROVE  /\ OpOK(n)' /\ n \in Reserved' /\ Working(n)'
           /\ remote'[Main(n)] = "absent" /\ ~Travelling(n)'
<1>1. n \in Ops /\ NotSent(n)
  BY DEF Fresh, Deep, OpOK, Born
<1>2. NotSent(n)' /\ ~Comps(n)' /\ ~CompDone(n)' /\ ~Applied(n)'
  BY <1>1 DEF NotSent, Comps, CompDone, Applied
<1>3. ~Travelling(n)' /\ Carrier(n)' /\ remote'[Main(n)] = "absent"
  BY <1>2 DEF NotSent, Travelling, Executing, Carrier
<1>4. Born(n)' /\ Closed(n)'
  BY DEF Born, Closed, Over, Released
<1>5. CompOK(n)'
  BY <1>2 DEF CompOK, Missing
<1>6. Owner(n)'
  BY <1>2 DEF Owner, Unapplied
<1>7. n \in Reserved' /\ Working(n)'
  BY <1>1 DEF Reserved, Working, Reserving
<1> QED BY <1>3, <1>4, <1>5, <1>6, <1>7 DEF OpOK

\* An operation that was never applied, and never will be, is superseded.
LEMMA SupersededKeeps ==
    ASSUME Base, Deep, NEW o \in Reserved, UNCHANGED <<cred, remote, exec, net, binding>>,
           intent'[o].kind = intent[o].kind, intent'[o].state = "superseded",
           intent'[o].reason = intent[o].reason \/ intent'[o].reason = "not_received_retry",
           ~CanStillApply(o), ~Applied(o)
    PROVE  OpOK(o)' /\ o \notin Reserved'
<1>1. o \in Ops /\ OpOK(o)
  BY DEF Reserved, Deep, OpOK
<1>2. ~Comps(o)
  BY <1>1 DEF OpOK, CompOK
<1>3. ~CanStillApply(o)' /\ ~Applied(o)' /\ ~Comps(o)' /\ CompDone(o)' = CompDone(o)
  BY <1>2 DEF CanStillApply, Executing, Applied, Comps, CompDone
<1>4. Born(o)' /\ Closed(o)'
  BY <1>3 DEF Born, Closed, Verdict
<1>5. Carrier(o)'
  BY <1>1 DEF OpOK, Carrier, Executing
<1>6. CompOK(o)'
  BY <1>1, <1>2, <1>3 DEF OpOK, CompOK, Missing
<1>7. o \notin Reserved'
  BY DEF Reserved, Reserving
<1> QED BY <1>4, <1>5, <1>6, <1>7 DEF OpOK

LEMMA RetryNonSensitiveKeeps ==
    ASSUME Calm, Base, Deep, NEW w \in Workers, RetryNonSensitive(w)
    PROVE  Deep'
<1>1. Busy(w) /\ Undisturbed(w) /\ pc[w] = "retry"
  BY DEF RetryNonSensitive, Busy, Early
<1>2. PICK o \in Ops : o = loc[w].op
  BY <1>1, KnowsItsOperation DEF Base, Busy
<1>3. /\ Knowledge(w, o, "retry") /\ Owner(o) /\ Working(o) /\ o \in Reserved
      /\ Alone(w) /\ ~Dropping
  BY <1>1, <1>2, HandlerKnows
<1>4. PICK n \in Fresh :
        intent' = [intent EXCEPT
            ![o].state = "superseded", ![o].reason = "not_received_retry",
            ![n] = [intent[o] EXCEPT !.state = "pending_delivery", !.reason = ""]]
  BY <1>2, <1>3 DEF RetryNonSensitive, Working
<1>5. UNCHANGED <<binding, cred, remote, exec, net>> /\ Stop(w)
  BY DEF RetryNonSensitive, pmVars
<1>6. n \in Ops /\ n # o
  BY <1>3 DEF Fresh, Working, Reserving
<1>7. /\ \A p \in Ops \ {o, n} : intent'[p] = intent[p]
      /\ intent'[o].kind = intent[o].kind /\ intent'[o].state = "superseded"
      /\ intent'[o].reason = "not_received_retry"
      /\ intent'[n].kind = intent[o].kind /\ intent'[n].pre = intent[o].pre
      /\ intent'[n].state = "pending_delivery" /\ intent'[n].reason = ""
  BY <1>4, <1>6 DEF Base, TypeInv, RowsOK, Intents
<1>8. ~CanStillApply(o) /\ ~Applied(o)
  BY <1>3, SettledIsDead DEF Knowledge, Void, Applied
<1>9. Unapplied(o) /\ Quiet /\ ~Gone
  <2>1. cred.exists
    BY <1>2, <1>3 DEF RetryNonSensitive, ProvesPre, Knowledge
  <2> QED BY <1>3, <1>8, <2>1 DEF Owner, Unapplied, Quiet
<1>10. (\A v \in Workers : WorkerOK(v)') /\ ~Dropping'
  <2>1. pc'[w] = "idle" /\ loc'[w] = NoLoc /\ Leaves(w)
    BY <1>5 DEF Stop, Leaves, Base, TypeInv, WorkersOK
  <2> QED BY <1>2, <1>3, <2>1, HandlerMoves
<1>11. Quiet'
  BY <1>5, <1>9, <1>10 DEF Quiet, Gone
<1>12. OpOK(n)' /\ n \in Reserved'
  BY <1>5, <1>7, <1>9, <1>10, <1>11, NewOwnerKeeps DEF Unapplied, Gone
<1>13. OpOK(o)'
  BY <1>3, <1>5, <1>7, <1>8, SupersededKeeps
<1>14. \A p \in Ops \ {o, n} : OpOK(p)'
  BY <1>3, <1>5, <1>7, ApartKeeps DEF Apart
<1>15. RowOK'
  BY <1>5, <1>12 DEF Deep, RowOK, NoBinding
<1> QED BY <1>10, <1>12, <1>13, <1>14, <1>15 DEF Deep

LEMMA ConfirmKeeps ==
    ASSUME Calm, Base, Deep, NEW w \in Workers, Confirm(w)
    PROVE  Deep'
<1>1. Busy(w) /\ Undisturbed(w) /\ pc[w] = "confirm"
  BY DEF Confirm, Busy, Early
<1>2. PICK o \in Ops : o = loc[w].op
  BY <1>1, KnowsItsOperation DEF Base, Busy
<1>3. /\ Knowledge(w, o, "confirm") /\ Owner(o) /\ intent[o].pre \in Nat
  BY <1>1, <1>2, HandlerKnows
<1>4. Unmoved(o)
  BY NothingMoved DEF Confirm
<1>5. Void(o) /\ loc[w].proof = cred /\ intent[o].kind \in {"BIND", "REPLACE"}
  BY <1>3 DEF Knowledge
<1>6. loc[w].seen.reason \notin {"missing_projection", "missing_failed"}
  BY DEF Deep, WorkerOK, Handling, Missing
<1>7. ~Resubmittable(w) => ~(cred.exists /\ cred.gen = Target(o))
  <2>1. Quiet /\ intent[o].pre = binding.gen /\ (intent[o].kind = "BIND" => ~binding.key)
    BY <1>3, <1>5 DEF Owner, Unapplied, Void, Applied
  <2>2. Target(o) = intent[o].pre + 1
    BY <1>3, <1>5 DEF Target
  <2> QED BY <1>3, <1>5, <2>1, <2>2 DEF Quiet
<1>8. /\ UNCHANGED intent
      /\ UNCHANGED binding \/ SetStatus("credential_invalid")
      /\ Stop(w) \/ Goto(w, "input_required") \/ Goto(w, "inconsistent")
  BY <1>2, <1>5, <1>6, <1>7 DEF Confirm, GotoIf
<1>9. Knowledge(w, o, "input_required")' /\ Knowledge(w, o, "inconsistent")'
  <2>1. Void(o)'
    BY <1>4, <1>5, UnmovedFacts
  <2> QED BY <2>1 DEF Knowledge
<1>10. MayShow(o, "credential_invalid")
  BY DEF MayShow
<1> QED BY <1>1, <1>2, <1>4, <1>8, <1>9, <1>10, RowStep DEF Early

LEMMA MarkInputRequiredKeeps ==
    ASSUME Calm, Base, Deep, NEW w \in Workers, MarkInputRequired(w)
    PROVE  Deep'
<1>1. Busy(w) /\ Undisturbed(w) /\ pc[w] = "input_required"
  BY DEF MarkInputRequired, Busy, Early
<1>2. PICK o \in Ops : o = loc[w].op
  BY <1>1, KnowsItsOperation DEF Base, Busy
<1>3. Void(o)
  BY <1>1, <1>2, HandlerKnows DEF Knowledge
<1>4. Unmoved(o)
  BY NothingMoved DEF MarkInputRequired
<1>5. /\ Transition(o, "input_required", "credential_resubmission_required")
      /\ Stop(w) /\ UNCHANGED binding
  BY <1>2 DEF MarkInputRequired
<1> QED BY <1>1, <1>2, <1>3, <1>4, <1>5, RecordStep DEF Missing

LEMMA MarkInconsistentKeeps ==
    ASSUME Calm, Base, Deep, NEW w \in Workers, MarkInconsistent(w)
    PROVE  Deep'
<1>1. Busy(w) /\ Undisturbed(w)
  BY DEF MarkInconsistent, Busy, Early
<1>2. PICK o \in Ops : o = loc[w].op
  BY <1>1, KnowsItsOperation DEF Base, Busy
<1>3. Unmoved(o)
  BY NothingMoved DEF MarkInconsistent
<1>4. Transition(o, "invariant_violation", "inconsistent") /\ Stop(w) /\ UNCHANGED binding
  BY <1>2 DEF MarkInconsistent
<1> QED BY <1>1, <1>2, <1>3, <1>4, RecordStep DEF Missing

\* No compensation of a lost result is ever looked for: none is sent.
LEMMA NoLostResult ==
    ASSUME Calm, Base, Deep, NEW w \in Workers
    PROVE  ~ResolveCompensation(w)
<1> SUFFICES ASSUME ResolveCompensation(w) PROVE FALSE
  OBVIOUS
<1>1. Busy(w) /\ Undisturbed(w) /\ pc[w] = "resolve_comp"
  BY DEF ResolveCompensation, Busy, Early
<1> QED BY <1>1, KnowsItsOperation, HandlerKnows DEF Base, Busy, Knowledge

LEMMA ReconcileKeeps ==
    ASSUME Calm, Base, Deep, NEW w \in Workers, Reconcile(w)
    PROVE  Deep'
  BY ClaimExpiredKeeps, ClaimProjectedKeeps, ClaimOpenKeeps, ResolveAnsweredKeeps,
     ResolveUnknownKeeps, ResolveRejectedKeeps, PersistFailureKeeps, ReadProofKeeps,
     RetryNonSensitiveKeeps, RetryDisprovedKeeps, DeleteAbsentKeeps, ConfirmKeeps,
     MarkInputRequiredKeeps, MarkInconsistentKeeps, NoLostResult DEF Reconcile

-----------------------------------------------------------------------------
\* Steps that other workers take meanwhile: requests on their snapshot, and the
\* platform.

\* What such a step leaves of the operation that a worker handles.
Known(o) ==
    /\ Applied(o) => Applied(o)'
    /\ CompDone(o) => CompDone(o)'
    /\ Void(o) => Void(o)' /\ cred' = cred
    /\ remote[Main(o)] = "failed" => remote'[Main(o)] = "failed"
    /\ Travelling(o)' => Travelling(o)
    /\ CanStillApply(o)' => CanStillApply(o)
    /\ ~Travelling(o) => remote'[Main(o)] = remote[Main(o)]
    /\ Applied(o)' => Applied(o) \/ CanStillApply(o)

LEMMA SamePlatform ==
    ASSUME NEW o \in Ops, UNCHANGED <<cred, remote, exec, net>>
    PROVE  /\ Known(o)
           /\ Applied(o)' <=> Applied(o)
           /\ CompDone(o)' <=> CompDone(o)
           /\ Comps(o)' <=> Comps(o)
           /\ Void(o)' <=> Void(o)
           /\ CanStillApply(o)' <=> CanStillApply(o)
           /\ NotSent(o)' <=> NotSent(o)
           /\ Carrier(o)' <=> Carrier(o)
  BY DEF Known, Applied, CompDone, Comps, Void, Travelling, CanStillApply, Executing,
     NotSent, Carrier

LEMMA KnowledgeKeeps ==
    ASSUME NEW v, NEW o \in Ops, NEW step, Knowledge(v, o, step), Known(o),
           intent'[o] = intent[o], loc'[v] = loc[v],
           binding'.key = binding.key, binding'.gen = binding.gen, Gone => Gone'
    PROVE  Knowledge(v, o, step)'
<1>1. Target(o)' = Target(o) /\ NonSensitive' = NonSensitive
  BY DEF Target, NonSensitive
<1>2. Duplicate(o) => Duplicate(o)'
  BY DEF Duplicate, Known
<1> QED BY <1>1, <1>2 DEF Knowledge, Known

LEMMA WatcherKeeps ==
    ASSUME Base, Deep, NEW v \in Workers, pc'[v] = pc[v], loc'[v] = loc[v],
           UNCHANGED intent, binding'.key = binding.key, binding'.gen = binding.gen,
           Gone => Gone', Busy(v) => Known(loc[v].op),
           \A u \in Workers : Busy(u)' => Busy(u),
           HoldsSnapshot(v) => /\ UNCHANGED binding
                               /\ \A u \in Workers : HoldsSnapshot(u)' => HoldsSnapshot(u)
    PROVE  WorkerOK(v)'
<1>1. WorkerOK(v)
  BY DEF Deep
<1>2. HoldsSnapshot(v)' => Snapshot(v)'
  <2> SUFFICES ASSUME HoldsSnapshot(v)' PROVE Snapshot(v)'
    OBVIOUS
  <2>1. HoldsSnapshot(v)
    BY DEF HoldsSnapshot
  <2> QED BY <1>1, <2>1 DEF WorkerOK, Snapshot, Gone
<1>3. Handling(v)'
  <2>1. Busy(v)' => Busy(v)
    OBVIOUS
  <2>2. NoLoc' = NoLoc /\ Missing' = Missing /\ Early' = Early
    BY DEF NoLoc, NoBinding, NoIntent, NoCred, Missing, Early
  <2>3. Working(loc[v].op) => Working(loc[v].op)'
    BY DEF Working
  <2> QED BY <1>1, <2>1, <2>2, <2>3 DEF WorkerOK, Handling
<1>4. Busy(v)' => Knowledge(v, loc[v].op, pc[v])'
  <2> SUFFICES ASSUME Busy(v)' PROVE Knowledge(v, loc[v].op, pc[v])'
    OBVIOUS
  <2>1. Busy(v)
    OBVIOUS
  <2>2. PICK o \in Ops, step \in Steps : o = loc[v].op /\ step = pc[v]
    BY <2>1, KnowsItsOperation DEF Base, TypeInv, WorkersOK, Busy
  <2>3. Knowledge(v, o, step)
    BY <1>1, <2>1, <2>2 DEF WorkerOK
  <2>4. Knowledge(v, o, step)'
    BY <2>1, <2>2, <2>3, KnowledgeKeeps
  <2>5. o = loc'[v].op /\ step = pc'[v]
    BY <2>2
  <2> QED BY <2>4, <2>5
<1> QED BY <1>2, <1>3, <1>4 DEF WorkerOK

-----------------------------------------------------------------------------
\* Requests.

\* What a request with a snapshot writes to the row: it may be dropped only when
\* nothing is left of its credential.
LEMMA RequestRowKeeps ==
    ASSUME Base, Deep, NEW w \in Workers, HoldsSnapshot(w),
           UNCHANGED <<intent, cred, remote, exec, net>>,
           NEW s \in {"deleting", "delete_failed", "cleanup_failed", "deleted"},
           SetStatus(s), s \in {"cleanup_failed", "deleted"} => Dropping,
           Dropping' => Dropping \/ ~binding.key \/ binding.status = "cleanup_failed"
    PROVE  /\ RowOK' /\ \A o \in Ops : OpOK(o)'
           /\ binding'.status = s /\ binding'.gen = binding.gen /\ binding'.key = binding.key
           /\ ~Gone
<1>1. binding'.status = s /\ binding'.gen = binding.gen /\ binding'.key = binding.key
  BY DEF Base, TypeInv, RowsOK, Bindings, SetStatus
<1>2. ~Gone /\ RowOK
  BY DEF Deep, WorkerOK, Snapshot
<1>3. Quiet => Quiet'
  BY <1>1, <1>2 DEF Quiet, Gone
<1>4. RowOK'
  <2>1. Reserved' = Reserved
    BY DEF Reserved
  <2> QED BY <1>1, <1>2, <1>3, <2>1 DEF RowOK
<1>5. ASSUME NEW o \in Ops
      PROVE  OpOK(o)'
  <2>1. OpOK(o)
    BY DEF Deep
  <2>2. Born(o)' /\ Carrier(o)'
    BY <2>1, SamePlatform DEF OpOK, Born
  <2>3. Closed(o)'
    BY <1>2, <2>1, SamePlatform DEF OpOK, Closed, Verdict, NothingLeft
  <2>4. CompOK(o)'
    BY <1>1, <2>1, SamePlatform DEF OpOK, CompOK, Missing
  <2>5. Target(o)' = Target(o)
    BY DEF Target
  <2>6. InForce(o) => InForce(o)'
    BY <1>1, <2>5, SamePlatform DEF InForce, Gone
  <2>7. Unapplied(o) => Unapplied(o)'
    BY <1>1, <1>2, <1>3, SamePlatform DEF Unapplied, Gone
  <2>8. Owner(o) => Owner(o)'
    BY <2>6, <2>7, SamePlatform DEF Owner
  <2> QED BY <2>1, <2>2, <2>3, <2>4, <2>8 DEF OpOK, Reserved
<1> QED BY <1>1, <1>2, <1>4, <1>5

\* A request that gives up leaves everything as it is.
LEMMA NothingKeeps ==
    ASSUME Base, Deep, UNCHANGED <<binding, intent, cred, remote, exec, net>>,
           Dropping' => Dropping
    PROVE  RowOK' /\ \A o \in Ops : OpOK(o)'
<1>1. Quiet => Quiet'
  BY DEF Quiet, Gone
<1>2. RowOK'
  <2>1. Reserved' = Reserved /\ NoBinding' = NoBinding
    BY DEF Reserved, NoBinding
  <2> QED BY <1>1, <2>1 DEF Deep, RowOK
<1>3. ASSUME NEW o \in Ops
      PROVE  OpOK(o)'
  <2>1. OpOK(o)
    BY DEF Deep
  <2>2. Born(o)' /\ Carrier(o)'
    BY <2>1, SamePlatform DEF OpOK, Born
  <2>3. Closed(o)'
    BY <2>1, SamePlatform DEF OpOK, Closed, Verdict, NothingLeft, Gone, Reserved
  <2>4. CompOK(o)'
    BY <2>1, SamePlatform DEF OpOK, CompOK, Missing
  <2>5. Target(o)' = Target(o)
    BY DEF Target
  <2>6. InForce(o) => InForce(o)'
    BY <2>5, SamePlatform DEF InForce, Gone
  <2>7. Unapplied(o) => Unapplied(o)'
    BY <1>1, SamePlatform DEF Unapplied, Gone
  <2>8. Owner(o) => Owner(o)'
    BY <2>6, <2>7, SamePlatform DEF Owner
  <2> QED BY <2>1, <2>2, <2>3, <2>4, <2>8 DEF OpOK, Reserved
<1> QED BY <1>2, <1>3

\* The worker itself while it has not admitted anything: idle, or with the
\* snapshot that no other worker has.
LEMMA OthersWatch ==
    ASSUME Base, Deep, NEW w \in Workers, Leaves(w),
           UNCHANGED <<intent, cred, remote, exec, net>>,
           binding'.key = binding.key, binding'.gen = binding.gen, Gone => Gone',
           pc'[w] \in Early, \A v \in Workers \ {w} : ~HoldsSnapshot(v)
    PROVE  \A v \in Workers \ {w} : WorkerOK(v)' /\ ~HoldsSnapshot(v)' /\ (Busy(v)' => Busy(v))
<1>1. \A u \in Workers : Busy(u)' => Busy(u)
  BY DEF Busy, Leaves, Early
<1> SUFFICES ASSUME NEW v \in Workers \ {w}
             PROVE  WorkerOK(v)' /\ ~HoldsSnapshot(v)' /\ (Busy(v)' => Busy(v))
  OBVIOUS
<1>2. ~HoldsSnapshot(v)'
  BY DEF HoldsSnapshot, Leaves
<1>3. Busy(v) => Known(loc[v].op)
  BY KnowsItsOperation, SamePlatform DEF Base, Busy
<1>4. WorkerOK(v)'
  BY <1>1, <1>3, WatcherKeeps DEF Leaves
<1> QED BY <1>1, <1>2, <1>4

LEMMA HolderIsOnly ==
    ASSUME Deep, NEW w \in Workers, HoldsSnapshot(w) \/ (Calm /\ Undisturbed(w))
    PROVE  \A v \in Workers \ {w} : ~HoldsSnapshot(v)
  BY DEF Deep, WorkerOK, Snapshot, Undisturbed, Calm

LEMMA LoadBindingKeeps ==
    ASSUME Calm, Base, Deep, NEW w \in Workers, NEW r \in Requests, LoadBinding(w, r)
    PROVE  Deep'
<1>1. pc[w] = "idle" /\ Undisturbed(w) /\ UNCHANGED <<binding, intent, cred, remote, exec, net>>
  BY DEF LoadBinding, acVars, pmVars
<1>2. pc'[w] = "loaded" /\ Leaves(w)
  BY DEF LoadBinding, Leaves, Base, TypeInv, WorkersOK
<1>3. loc'[w].snap = binding /\ loc'[w].op = loc[w].op /\ loc'[w].seen = loc[w].seen
  <2>1. loc'[w] = [loc[w] EXCEPT !.req = r, !.snap = binding] /\ loc[w] \in Locs
    BY DEF LoadBinding, Base, TypeInv, WorkersOK
  <2> QED BY <2>1 DEF Locs
<1>4. \A v \in Workers \ {w} : WorkerOK(v)' /\ ~HoldsSnapshot(v)'
  BY <1>1, <1>2, HolderIsOnly, OthersWatch DEF Early, Gone
<1>5. Dropping' => Dropping
  BY <1>1, <1>2 DEF Dropping, Leaves
<1>6. WorkerOK(w)'
  <2>1. Snapshot(w)'
    BY <1>1, <1>2, <1>3, <1>4 DEF Snapshot, LoadBinding, Gone
  <2>2. Handling(w)'
    <3>1. loc[w].op = None /\ loc[w].seen.reason \notin Missing
      BY <1>1 DEF Deep, WorkerOK, Handling, Early
    <3> QED BY <1>2, <1>3, <3>1 DEF Handling, Busy, Early, Missing
  <2> QED BY <1>2, <2>1, <2>2 DEF WorkerOK, Busy, Early
<1>7. RowOK' /\ \A o \in Ops : OpOK(o)'
  BY <1>1, <1>5, NothingKeeps
<1> QED BY <1>4, <1>6, <1>7 DEF Deep

LEMMA MarkDeletingKeeps ==
    ASSUME Calm, Base, Deep, NEW w \in Workers, MarkDeleting(w)
    PROVE  Deep'
<1>1. /\ pc[w] = "loaded" /\ loc[w].req = "DELETE" /\ HoldsSnapshot(w)
      /\ UNCHANGED <<intent, cred, remote, exec, net>>
  BY DEF MarkDeleting, HoldsSnapshot, pmVars
<1>2. Snapshot(w) /\ Handling(w) /\ ~Gone
  BY <1>1 DEF Deep, WorkerOK, Snapshot
<1>3. SetStatus("deleting")
  BY <1>2 DEF MarkDeleting
<1>4. PICK step \in {"drop_local", "admit_delete"} :
        /\ Goto(w, step)
        /\ step = "drop_local" <=> loc[w].snap.status = "cleanup_failed" \/ ~loc[w].snap.key
  BY <1>2 DEF MarkDeleting
<1>5. pc'[w] = step /\ loc'[w] = loc[w] /\ Leaves(w)
  BY <1>4 DEF Goto, Leaves, Base, TypeInv, WorkersOK
<1>6. Dropping' => Dropping \/ ~binding.key \/ binding.status = "cleanup_failed"
  BY <1>1, <1>2, <1>4, <1>5 DEF Dropping, Leaves, Snapshot
<1>7. /\ RowOK' /\ \A o \in Ops : OpOK(o)'
      /\ binding'.status = "deleting" /\ binding'.gen = binding.gen
      /\ binding'.key = binding.key
  BY <1>1, <1>3, <1>6, RequestRowKeeps
<1>8. \A v \in Workers \ {w} : WorkerOK(v)' /\ ~HoldsSnapshot(v)'
  BY <1>1, <1>2, <1>4, <1>5, <1>7, HolderIsOnly, OthersWatch DEF Early
<1>9. WorkerOK(w)'
  <2>1. Snapshot(w)'
    BY <1>1, <1>2, <1>4, <1>5, <1>7, <1>8 DEF Snapshot, Gone
  <2>2. Handling(w)'
    BY <1>1, <1>2, <1>4, <1>5 DEF Handling, Busy, Early, Missing
  <2> QED BY <1>4, <1>5, <2>1, <2>2 DEF WorkerOK, Busy, Early
<1> QED BY <1>7, <1>8, <1>9 DEF Deep

\* A request that ends without an operation.
LEMMA StopKeeps ==
    ASSUME Base, Deep, NEW w \in Workers, Stop(w), UNCHANGED <<intent, cred, remote, exec, net>>,
           binding'.key = binding.key, binding'.gen = binding.gen, Gone => Gone',
           \A v \in Workers \ {w} : ~HoldsSnapshot(v)
    PROVE  (\A v \in Workers : WorkerOK(v)') /\ (Dropping' => Dropping)
<1>1. pc'[w] = "idle" /\ loc'[w] = NoLoc /\ Leaves(w)
  BY DEF Stop, Leaves, Base, TypeInv, WorkersOK
<1>2. \A v \in Workers \ {w} : WorkerOK(v)'
  BY <1>1, OthersWatch DEF Early
<1>3. Dropping' => Dropping
  BY <1>1 DEF Dropping, Leaves
<1> QED BY <1>1, <1>2, <1>3, IdleWorkerOK

LEMMA DropLocalKeeps ==
    ASSUME Calm, Base, Deep, NEW w \in Workers, DropLocal(w)
    PROVE  Deep'
<1>1. /\ pc[w] = "drop_local" /\ HoldsSnapshot(w) /\ Dropping /\ Stop(w)
      /\ UNCHANGED <<intent, cred, remote, exec, net>>
  BY DEF DropLocal, HoldsSnapshot, Dropping, pmVars
<1>2. ~Gone
  BY <1>1 DEF Deep, WorkerOK, Snapshot
<1>3. PICK s \in {"cleanup_failed", "deleted"} : SetStatus(s)
  BY <1>2 DEF DropLocal, DeleteBinding
<1>4. /\ RowOK' /\ \A o \in Ops : OpOK(o)'
      /\ binding'.gen = binding.gen /\ binding'.key = binding.key
  BY <1>1, <1>3, RequestRowKeeps
<1>5. \A v \in Workers : WorkerOK(v)'
  BY <1>1, <1>2, <1>4, HolderIsOnly, StopKeeps
<1> QED BY <1>4, <1>5 DEF Deep

LEMMA DeleteUnavailableKeeps ==
    ASSUME Calm, Base, Deep, NEW w \in Workers, DeleteUnavailable(w)
    PROVE  Deep'
<1>1. /\ pc[w] = "admit_delete" /\ HoldsSnapshot(w) /\ Stop(w)
      /\ UNCHANGED <<intent, cred, remote, exec, net>>
  BY DEF DeleteUnavailable, HoldsSnapshot, pmVars
<1>2. ~Gone
  BY <1>1 DEF Deep, WorkerOK, Snapshot
<1>3. SetStatus("delete_failed")
  BY <1>2 DEF DeleteUnavailable
<1>4. binding'.gen = binding.gen /\ binding'.key = binding.key
  BY <1>3 DEF Base, TypeInv, RowsOK, Bindings, SetStatus
<1>5. (\A v \in Workers : WorkerOK(v)') /\ (Dropping' => Dropping)
  BY <1>1, <1>2, <1>4, HolderIsOnly, StopKeeps
<1>6. RowOK' /\ \A o \in Ops : OpOK(o)'
  BY <1>1, <1>3, <1>5, RequestRowKeeps
<1> QED BY <1>5, <1>6 DEF Deep

LEMMA CrashKeeps ==
    ASSUME Calm, Base, Deep, NEW w \in Workers, Crash(w)
    PROVE  Deep'
<1>1. /\ Undisturbed(w) /\ Stop(w)
      /\ UNCHANGED <<binding, intent, cred, remote, exec, net>>
  BY DEF Crash, acVars, pmVars
<1>2. (\A v \in Workers : WorkerOK(v)') /\ (Dropping' => Dropping)
  BY <1>1, HolderIsOnly, StopKeeps DEF Gone
<1>3. RowOK' /\ \A o \in Ops : OpOK(o)'
  BY <1>1, <1>2, NothingKeeps
<1> QED BY <1>2, <1>3 DEF Deep

LEMMA CreateBindingKeeps ==
    ASSUME Calm, Base, Deep, NEW w \in Workers, CreateBinding(w)
    PROVE  Deep'
<1>1. /\ binding.status = "none" /\ UNCHANGED <<cred, remote, exec, net>>
      /\ binding' = [binding EXCEPT !.status = "pending_bind"]
  BY DEF CreateBinding, pmVars
<1>2. PICK n \in Fresh :
        /\ intent' = [intent EXCEPT ![n].state = "pending_delivery"]
        /\ loc' = [loc EXCEPT ![w].op = n, ![w].snap = binding']
        /\ pc' = [pc EXCEPT ![w] = "admitted"]
  BY DEF CreateBinding
<1>3. n \in Ops /\ intent[n] = NoIntent
  BY <1>2 DEF Fresh, Deep, OpOK, Born
<1>4. /\ \A v \in Workers : pc[v] = "idle" /\ loc[v] = NoLoc
      /\ Reserved = {}
  <2>1. \A v \in Workers : pc[v] = "idle"
    BY <1>1 DEF Base, Untouched
  <2>2. Reserved = {}
    BY <1>1 DEF Base, Untouched, Reserved, Reserving
  <2> QED BY <2>1, <2>2 DEF Deep, WorkerOK, Handling
<1>5. /\ binding.gen = 0 /\ ~binding.key /\ Quiet
  BY <1>1, <1>4, EmptyValues DEF Deep, RowOK
<1>6. binding'.status = "pending_bind" /\ binding'.gen = 0 /\ ~binding'.key
  BY <1>1, <1>5 DEF Base, TypeInv, RowsOK, Bindings
<1>7. ~cred.exists /\ Quiet'
  BY <1>1, <1>5, <1>6 DEF Quiet
<1>8. /\ \A p \in Ops \ {n} : intent'[p] = intent[p]
      /\ intent'[n].kind = "BIND" /\ intent'[n].pre = 0 /\ intent'[n].reason = ""
      /\ intent'[n].state = "pending_delivery"
  <2>1. /\ intent'[n].kind = intent[n].kind /\ intent'[n].pre = intent[n].pre
        /\ intent'[n].reason = intent[n].reason /\ intent'[n].state = "pending_delivery"
    BY <1>2, <1>3 DEF Base, TypeInv, RowsOK, Intents
  <2>2. \A p \in Ops \ {n} : intent'[p] = intent[p]
    BY <1>2, <1>3 DEF Base, TypeInv, RowsOK
  <2> QED BY <1>3, <2>1, <2>2, EmptyValues
<1>9. /\ OpOK(n)' /\ n \in Reserved' /\ Working(n)'
      /\ remote'[Main(n)] = "absent" /\ ~Travelling(n)'
  BY <1>1, <1>6, <1>7, <1>8, NewOwnerKeeps
<1>10. (\A v \in Workers : WorkerOK(v)') /\ ~Dropping'
  <2>1. /\ Alone(w) /\ Leaves(w) /\ pc'[w] = "admitted"
    BY <1>2, <1>4 DEF Alone, Leaves, Base, TypeInv, WorkersOK
  <2>2. loc'[w].op = n /\ loc'[w].seen = NoIntent /\ loc'[w].req = ""
    <3>1. PICK b : b = binding'
      OBVIOUS
    <3>2. loc'[w] = [loc[w] EXCEPT !.op = n, !.snap = b] /\ loc[w] \in Locs
      BY <1>2, <3>1 DEF Base, TypeInv, WorkersOK
    <3>3. /\ loc'[w].op = n /\ loc'[w].seen = loc[w].seen /\ loc'[w].req = loc[w].req
      BY <3>2 DEF Locs
    <3> QED BY <1>4, <3>3, EmptyValues
  <2>3. Knowledge(w, n, "admitted")'
    BY <1>8, <1>9 DEF Knowledge
  <2>4. loc'[w].seen.reason \notin Missing
    BY <2>2, EmptyValues DEF Missing
  <2> QED BY <1>3, <1>9, <2>1, <2>2, <2>3, <2>4, HandlerMoves DEF Early
<1>11. RowOK'
  BY <1>6, <1>9 DEF RowOK
<1>12. ASSUME NEW p \in Ops \ {n}
       PROVE  OpOK(p)'
  <2>1. intent[p].state = "absent" /\ intent'[p] = intent[p]
    BY <1>1, <1>8 DEF Base, Untouched
  <2>2. intent[p] = NoIntent /\ NotSent(p)
    BY <2>1 DEF Deep, OpOK, Born
  <2>3. NotSent(p)' /\ ~Comps(p)' /\ ~CompDone(p)'
    BY <1>1, <2>2, SamePlatform DEF NotSent, CompDone, Comps
  <2>4. Born(p)' /\ Carrier(p)' /\ Closed(p)' /\ p \notin Reserved'
    BY <2>1, <2>2, <2>3 DEF Born, Carrier, NotSent, Closed, Over, Released, Reserved,
       Reserving, NoIntent
  <2>5. CompOK(p)'
    BY <2>1, <2>2, <2>3, EmptyValues DEF CompOK, Missing
  <2> QED BY <2>4, <2>5 DEF OpOK
<1> QED BY <1>9, <1>10, <1>11, <1>12 DEF Deep

\* An admission: the operation that waited for input, if any, gives way.
LEMMA AdmittedKeeps ==
    ASSUME Calm, Base, Deep, NEW w \in Workers, Admit(w), ~Stop(w) \/ ~UNCHANGED intent
    PROVE  Deep'
<1>1. /\ HoldsSnapshot(w) /\ Snapshot(w) /\ Handling(w)
      /\ UNCHANGED <<binding, cred, remote, exec, net>>
      /\ pc[w] \in {"loaded", "admit_delete"} /\ loc[w].req \in Requests
      /\ pc[w] = "loaded" => loc[w].req # "DELETE"
  BY DEF Admit, HoldsSnapshot, Deep, WorkerOK, pmVars, Base, TypeInv, WorkersOK, Knows
<1>2. Blocking = {}
  BY DEF Admit
<1>3. PICK n \in Fresh :
        /\ intent' = [p \in Ops |->
             CASE p = n -> [state |-> "pending_delivery", kind |-> ReqKind(w),
                            pre |-> loc[w].snap.gen, reason |-> ""]
               [] p \in Reserved -> [intent[p] EXCEPT !.state = "superseded"]
               [] OTHER -> intent[p]]
        /\ loc' = [loc EXCEPT ![w].op = n]
        /\ pc' = [pc EXCEPT ![w] = "admitted"]
  BY DEF Admit
<1>4. n \in Ops /\ n \notin Reserved
  BY <1>3 DEF Fresh, Reserved, Reserving
<1>5. /\ intent'[n].kind = ReqKind(w) /\ intent'[n].pre = loc[w].snap.gen
      /\ intent'[n].state = "pending_delivery" /\ intent'[n].reason = ""
  BY <1>3, <1>4
<1>6. ASSUME NEW q \in Reserved
      PROVE  /\ intent'[q].kind = intent[q].kind /\ intent'[q].state = "superseded"
             /\ intent'[q].reason = intent[q].reason
             /\ ~CanStillApply(q) /\ ~Applied(q) /\ OpOK(q)' /\ Quiet
  <2>1. /\ intent'[q].kind = intent[q].kind /\ intent'[q].state = "superseded"
        /\ intent'[q].reason = intent[q].reason
    <3>1. intent'[q] = [intent[q] EXCEPT !.state = "superseded"] /\ intent[q] \in Intents
      BY <1>3, <1>4 DEF Reserved, Base, TypeInv, RowsOK
    <3> QED BY <3>1 DEF Intents
  <2>2. q \in Ops /\ intent[q].state = "input_required"
    BY <1>2 DEF Blocking, Reserved
  <2>3. ~CanStillApply(q) /\ Verdict(q) /\ Owner(q)
    BY <2>2 DEF Deep, OpOK, Closed, Over
  <2>4. ~Applied(q)
    BY <2>2, <2>3 DEF Verdict, NothingLeft
  <2>5. OpOK(q)'
    BY <1>1, <2>1, <2>3, <2>4, SupersededKeeps
  <2> QED BY <2>1, <2>3, <2>4, <2>5 DEF Owner, Unapplied
<1>7. Quiet
  BY <1>6 DEF Deep, RowOK
<1>8. \A v \in Workers \ {w} : pc[v] = "idle" /\ loc[v] = NoLoc
  <2> SUFFICES ASSUME NEW v \in Workers \ {w} PROVE pc[v] = "idle" /\ loc[v] = NoLoc
    OBVIOUS
  <2>1. ~Busy(v)
    <3> SUFFICES ASSUME Busy(v) PROVE FALSE
      OBVIOUS
    <3>1. loc[v].op \in Ops /\ Working(loc[v].op)
      BY KnowsItsOperation DEF Base, Busy, Deep, WorkerOK, Handling
    <3> QED BY <1>2, <3>1 DEF Blocking, Reserved, Working
  <2>2. ~HoldsSnapshot(v)
    BY <1>1 DEF Snapshot
  <2>3. pc[v] = "idle"
    BY <2>1, <2>2 DEF Busy, HoldsSnapshot, Early
  <2> QED BY <2>3 DEF Deep, WorkerOK, Handling
<1>9. ~Dropping'
  BY <1>3, <1>8 DEF Dropping, Base, TypeInv, WorkersOK
<1>10. Quiet'
  BY <1>1, <1>7, <1>9 DEF Quiet, Gone
<1>11. /\ OpOK(n)' /\ n \in Reserved' /\ Working(n)'
       /\ remote'[Main(n)] = "absent" /\ ~Travelling(n)'
  <2>1. intent'[n].pre = binding'.gen /\ ~Gone'
    BY <1>1, <1>5 DEF Snapshot, Gone
  <2>2. /\ intent'[n].kind = "BIND" => ~binding'.key
        /\ intent'[n].kind = "REPLACE" => binding'.key
        /\ intent'[n].kind = "DELETE" => loc[w].req = "DELETE"
    BY <1>1, <1>5, CredentialAssumption DEF ReqKind, Snapshot
  <2>3. intent'[n].kind = "DELETE" =>
          binding'.key /\ binding'.status \notin {"active", "cleanup_failed"}
    BY <1>1, <2>2 DEF Snapshot
  <2> QED BY <1>1, <1>5, <1>9, <1>10, <2>1, <2>2, <2>3, NewOwnerKeeps
<1>12. \A v \in Workers : WorkerOK(v)'
  <2>1. Alone(w) /\ Leaves(w) /\ pc'[w] = "admitted"
    BY <1>3, <1>8 DEF Alone, Leaves, Base, TypeInv, WorkersOK
  <2>2. loc'[w].op = n /\ loc'[w].seen = loc[w].seen /\ loc'[w].req = loc[w].req
    <3>1. loc'[w] = [loc[w] EXCEPT !.op = n] /\ loc[w] \in Locs
      BY <1>3 DEF Base, TypeInv, WorkersOK
    <3> QED BY <3>1 DEF Locs
  <2>3. Knowledge(w, n, "admitted")'
    BY <1>5, <1>11 DEF Knowledge
  <2>4. loc'[w].seen.reason \notin Missing
    BY <1>1, <2>2 DEF Handling
  <2>5. loc'[w].req = "DELETE" => intent'[n].kind = "DELETE"
    BY <1>5, <2>2 DEF ReqKind
  <2> QED BY <1>4, <1>11, <2>1, <2>2, <2>3, <2>4, <2>5, HandlerMoves DEF Early
<1>13. RowOK'
  BY <1>1, <1>11 DEF Deep, RowOK, NoBinding
<1>14. ASSUME NEW p \in Ops, p # n, p \notin Reserved
       PROVE  OpOK(p)'
  <2>1. intent'[p] = intent[p] /\ OpOK(p) /\ ~Gone
    BY <1>1, <1>3, <1>14 DEF Deep, Snapshot
  <2>2. Born(p)' /\ Carrier(p)'
    BY <1>1, <2>1, SamePlatform DEF OpOK, Born
  <2>3. Closed(p)'
    BY <1>1, <2>1, SamePlatform DEF OpOK, Closed, Verdict, NothingLeft
  <2>4. CompOK(p)'
    BY <1>1, <2>1, SamePlatform DEF OpOK, CompOK, Missing
  <2>5. p \notin Reserved'
    BY <1>14, <2>1 DEF Reserved
  <2> QED BY <2>2, <2>3, <2>4, <2>5 DEF OpOK
<1> QED BY <1>6, <1>11, <1>12, <1>13, <1>14 DEF Deep

LEMMA AdmitKeeps ==
    ASSUME Calm, Base, Deep, NEW w \in Workers, Admit(w)
    PROVE  Deep'
<1>1. CASE ~Stop(w) \/ ~UNCHANGED intent
  BY <1>1, AdmittedKeeps
<1>2. CASE Stop(w) /\ UNCHANGED intent
  <2>1. HoldsSnapshot(w) /\ UNCHANGED <<binding, intent, cred, remote, exec, net>>
    BY <1>2 DEF Admit, HoldsSnapshot, pmVars
  <2>2. (\A v \in Workers : WorkerOK(v)') /\ (Dropping' => Dropping)
    BY <1>2, <2>1, HolderIsOnly, StopKeeps DEF Gone
  <2>3. RowOK' /\ \A o \in Ops : OpOK(o)'
    BY <2>1, <2>2, NothingKeeps
  <2> QED BY <2>2, <2>3 DEF Deep
<1> QED BY <1>1, <1>2

LEMMA RequestKeeps ==
    ASSUME Calm, Base, Deep, NEW w \in Workers, Request(w)
    PROVE  Deep'
  BY CreateBindingKeeps, LoadBindingKeeps, MarkDeletingKeeps, DropLocalKeeps, AdmitKeeps,
     DeleteUnavailableKeeps DEF Request

-----------------------------------------------------------------------------
\* The platform.  Whatever is under way belongs to the operation that owns the
\* binding, and no other operation sees it move.

PlatformStep == UNCHANGED <<binding, intent, pc, loc>>

LEMMA UnderWay ==
    ASSUME Base, Deep, NEW o \in Ops,
           \/ CanStillApply(o)
           \/ Comps(o) /\ ~CompDone(o)
    PROVE  o \in Reserved /\ Working(o)
<1>1. Born(o) /\ Closed(o)
  BY DEF Deep, OpOK
<1>2. intent[o].state \notin Over
  BY <1>1 DEF Closed
<1>3. intent[o].state # "absent"
  BY <1>1 DEF Born, NotSent, CanStillApply, Executing
<1>4. intent[o].state \in Reserving \union Released \union {"absent"}
  BY DEF Base, TypeInv, RowsOK, Intents
<1> QED BY <1>2, <1>3, <1>4 DEF Over, Reserved, Working

\* Messages are lost and executors die: less can still happen.
LEMMA LossKeeps ==
    ASSUME Base, Deep, PlatformStep, UNCHANGED <<cred, remote>>, net' \subseteq net,
           \A id \in Ids : Executing(id)' => Executing(id)
    PROVE  Deep'
<1>1. ASSUME NEW o \in Ops
      PROVE  /\ Applied(o)' = Applied(o) /\ CompDone(o)' = CompDone(o)
             /\ Void(o)' = Void(o) /\ (Comps(o)' => Comps(o))
             /\ CanStillApply(o)' => CanStillApply(o)
             /\ Known(o) /\ (NotSent(o) => NotSent(o)') /\ (Carrier(o) => Carrier(o)')
  <2>1. Main(o) \in Ids /\ Main(o)' = Main(o) /\ Comp(o)' = Comp(o)
    BY IdFacts DEF Main, Comp
  <2>2. Executing(Main(o))' => Executing(Main(o))
    BY <2>1
  <2>3. /\ Applied(o)' = Applied(o) /\ CompDone(o)' = CompDone(o)
        /\ Void(o)' = Void(o) /\ (Comps(o)' => Comps(o))
    BY <2>1 DEF Applied, CompDone, Void, Comps
  <2>4. /\ CanStillApply(o)' => CanStillApply(o)
        /\ Travelling(o)' => Travelling(o)
    BY <2>1, <2>2 DEF CanStillApply, Travelling
  <2>5. (NotSent(o) => NotSent(o)') /\ (Carrier(o) => Carrier(o)')
    BY <2>1, <2>2, <2>3 DEF NotSent, Carrier
  <2> QED BY <2>1, <2>3, <2>4, <2>5 DEF Known
<1>2. Quiet' <=> Quiet
  BY DEF PlatformStep, Quiet, Gone, Dropping
<1>3. Reserved' = Reserved /\ NoBinding' = NoBinding /\ (Dropping' <=> Dropping)
  BY DEF PlatformStep, Reserved, NoBinding, Dropping
<1>4. RowOK'
  BY <1>2, <1>3 DEF PlatformStep, Deep, RowOK
<1>5. ASSUME NEW o \in Ops
      PROVE  OpOK(o)'
  <2>1. OpOK(o) /\ intent'[o] = intent[o] /\ Target(o)' = Target(o)
    BY DEF Deep, PlatformStep, Target
  <2>2. Born(o)' /\ Carrier(o)'
    BY <1>1, <2>1 DEF OpOK, Born
  <2>3. Closed(o)'
    BY <1>1, <1>3, <2>1 DEF OpOK, Closed, Verdict, NothingLeft, PlatformStep, Gone
  <2>4. CompOK(o)'
    BY <1>1, <2>1 DEF OpOK, CompOK, PlatformStep, Missing
  <2>5. Owner(o) => Owner(o)'
    BY <1>1, <1>2, <1>3, <2>1 DEF Owner, InForce, Unapplied, PlatformStep, Gone
  <2> QED BY <1>3, <2>1, <2>2, <2>3, <2>4, <2>5 DEF OpOK
<1>6. ASSUME NEW v \in Workers
      PROVE  WorkerOK(v)'
  <2>1. Busy(v) => Known(loc[v].op)
    BY <1>1, KnowsItsOperation DEF Base, Busy
  <2>2. \A u \in Workers : /\ Busy(u)' => Busy(u)
                           /\ HoldsSnapshot(u)' => HoldsSnapshot(u)
    BY DEF PlatformStep, Busy, HoldsSnapshot
  <2> QED BY <2>1, <2>2, WatcherKeeps DEF PlatformStep, Gone
<1> QED BY <1>4, <1>5, <1>6 DEF Deep

\* A step of the operation that owns the binding.
LEMMA OwnerMoves ==
    ASSUME Base, Deep, PlatformStep, NEW o \in Reserved,
           \A p \in Ops \ {o} : Apart(p), Known(o), OpOK(o)'
    PROVE  Deep'
<1>1. \A p \in Ops : OpOK(p)'
  BY ApartKeeps
<1>2. RowOK'
  <2>1. Reserved' = Reserved /\ NoBinding' = NoBinding
    BY DEF PlatformStep, Reserved, NoBinding
  <2> QED BY <2>1 DEF PlatformStep, Deep, RowOK
<1>3. ASSUME NEW v \in Workers
      PROVE  WorkerOK(v)'
  <2>1. Busy(v) => loc[v].op = o
    <3> SUFFICES ASSUME Busy(v) PROVE loc[v].op = o
      OBVIOUS
    <3>1. loc[v].op \in Ops /\ Working(loc[v].op)
      BY KnowsItsOperation DEF Base, Busy, Deep, WorkerOK, Handling
    <3> QED BY <3>1 DEF Base, OneReservation, Reserved, Working
  <2>2. Busy(v) => Known(loc[v].op)
    BY <2>1
  <2>3. \A u \in Workers : /\ Busy(u)' => Busy(u)
                           /\ HoldsSnapshot(u)' => HoldsSnapshot(u)
    BY DEF PlatformStep, Busy, HoldsSnapshot
  <2> QED BY <2>2, <2>3, WatcherKeeps DEF PlatformStep, Gone
<1> QED BY <1>1, <1>2, <1>3 DEF Deep

\* What another operation sees when the ledger row of `id` moves.
LEMMA LedgerApart ==
    ASSUME Base, PlatformStep, NEW o \in Ops, NEW id \in {Main(o), Comp(o)}, net' \subseteq net,
           \A i \in Ids \ {id} : remote'[i] = remote[i] /\ exec'[i] = exec[i]
    PROVE  \A p \in Ops \ {o} : Apart(p)
<1> SUFFICES ASSUME NEW p \in Ops \ {o} PROVE Apart(p)
  OBVIOUS
<1>1. Main(p) \in Ids \ {id} /\ Comp(p) \in Ids \ {id}
  BY IdFacts
<1> QED BY <1>1 DEF Apart, PlatformStep

\* A step on the ledger that leaves binding and credential alone: a request is
\* admitted, an execution fails.
LEMMA LedgerKeeps ==
    ASSUME Base, Deep, PlatformStep, NEW o \in Reserved, Working(o),
           UNCHANGED cred, Applied(o)' <=> Applied(o), CompDone(o)' <=> CompDone(o),
           Comps(o)' => Comps(o), ~Void(o), Carrier(o)'
    PROVE  OpOK(o)'
<1>1. OpOK(o) /\ intent'[o] = intent[o] /\ Target(o)' = Target(o)
  BY DEF Deep, PlatformStep, Reserved, Target
<1>2. Quiet' <=> Quiet
  BY DEF PlatformStep, Quiet, Gone, Dropping
<1>3. Born(o)'
  BY <1>1 DEF Born, Reserved, Reserving
<1>4. Closed(o)'
  BY <1>1 DEF Closed, Working, Over, Released, Reserving
<1>5. CompOK(o)'
  BY <1>1 DEF OpOK, CompOK, PlatformStep, Missing
<1>6. Owner(o)'
  <2>1. Dropping' <=> Dropping
    BY DEF PlatformStep, Dropping
  <2>2. InForce(o) => InForce(o)'
    BY <1>1, <2>1 DEF InForce, PlatformStep, Gone
  <2>3. Unapplied(o) => Unapplied(o)'
    BY <1>1, <1>2, <2>1 DEF Unapplied, PlatformStep, Gone
  <2> QED BY <1>1, <2>2, <2>3 DEF OpOK, Owner
<1> QED BY <1>1, <1>3, <1>4, <1>5, <1>6 DEF OpOK

LEMMA PMAdmitKeeps ==
    ASSUME Base, Deep, NEW w \in Workers, NEW id \in Ids, PMAdmit(w, id)
    PROVE  Deep'
<1>1. /\ <<w, id>> \in net /\ remote[id] = "absent" /\ UNCHANGED cred /\ PlatformStep
      /\ remote' = [remote EXCEPT ![id] = "pending"]
      /\ exec' = [exec EXCEPT ![id] = w] /\ net' = net \ {<<w, id>>}
  BY DEF PMAdmit, acVars, PlatformStep
<1>2. /\ remote'[id] = "pending" /\ exec'[id] = w
      /\ \A i \in Ids \ {id} : remote'[i] = remote[i] /\ exec'[i] = exec[i]
  BY <1>1 DEF Base, TypeInv, PlatformOK
<1>3. PICK o \in Ops : id \in {Main(o), Comp(o)}
  BY EveryId
<1>4. Main(o) \in Ids /\ Comp(o) \in Ids /\ Main(o) # Comp(o)
  BY IdFacts
<1>5. Main(o)' = Main(o) /\ Comp(o)' = Comp(o)
  BY DEF Main, Comp
<1>6. id = Main(o) => CanStillApply(o)
  BY <1>1 DEF CanStillApply
<1>7. id = Comp(o) => Comps(o) /\ ~CompDone(o)
  BY <1>1 DEF Comps, CompDone
<1>8. o \in Reserved /\ Working(o) /\ Carrier(o)
  BY <1>3, <1>6, <1>7, UnderWay DEF Deep, OpOK
<1>9. \A p \in Ops \ {o} : Apart(p)
  BY <1>1, <1>2, <1>3, LedgerApart
<1>10. CASE id = Main(o)
  <2>1. /\ remote[Main(o)] = "absent" /\ remote'[Main(o)] = "pending"
        /\ remote'[Comp(o)] = remote[Comp(o)]
    BY <1>1, <1>2, <1>4, <1>10
  <2>2. /\ ~Applied(o) /\ ~Applied(o)' /\ ~Void(o) /\ (CompDone(o)' <=> CompDone(o))
        /\ Comps(o)' => Comps(o)
    BY <1>1, <1>5, <2>1 DEF Applied, Void, CompDone, Comps
  <2>3. \A v \in Workers : <<v, Main(o)>> \notin net'
    BY <1>1, <1>8, <1>10 DEF Carrier
  <2>4. Carrier(o)'
    BY <1>5, <2>3 DEF Carrier
  <2>5. Travelling(o) /\ CanStillApply(o)
    BY <1>1, <1>6, <1>10 DEF Travelling
  <2>6. Known(o)
    BY <1>1, <2>1, <2>2, <2>5 DEF Known
  <2> QED BY <1>1, <1>8, <1>9, <2>2, <2>4, <2>6, LedgerKeeps, OwnerMoves
<1>11. CASE id = Comp(o)
  <2>1. /\ remote[Comp(o)] = "absent" /\ remote'[Comp(o)] = "pending" /\ Comps(o)
        /\ remote'[Main(o)] = remote[Main(o)] /\ exec'[Main(o)] = exec[Main(o)]
    BY <1>1, <1>2, <1>4, <1>7, <1>11
  <2>2. /\ (Applied(o)' <=> Applied(o)) /\ Applied(o) /\ ~Void(o) /\ ~CompDone(o)
        /\ ~CompDone(o)'
    BY <1>5, <2>1 DEF Applied, Void, CompDone, Deep, OpOK, CompOK
  <2>3. Carrier(o)' /\ ~CanStillApply(o)' /\ (Travelling(o)' => Travelling(o))
    BY <1>1, <1>5, <1>8, <2>1, <2>2 DEF Carrier, Executing, Applied, CanStillApply, Travelling
  <2>4. Known(o)
    BY <1>1, <2>1, <2>2, <2>3 DEF Known, Applied
  <2> QED BY <1>1, <1>8, <1>9, <2>1, <2>2, <2>3, <2>4, LedgerKeeps, OwnerMoves
<1> QED BY <1>3, <1>10, <1>11

LEMMA PMFailKeeps ==
    ASSUME Base, Deep, NEW id \in Ids, PMFail(id)
    PROVE  Deep'
<1>1. /\ Executing(id) /\ UNCHANGED <<cred, exec, net>> /\ PlatformStep
      /\ remote[id] = "pending" /\ remote' = [remote EXCEPT ![id] = "failed"]
  BY DEF PMFail, Executing, acVars, PlatformStep
<1>2. /\ remote'[id] = "failed"
      /\ \A i \in Ids \ {id} : remote'[i] = remote[i] /\ exec'[i] = exec[i]
  BY <1>1 DEF Base, TypeInv, PlatformOK
<1>3. PICK o \in Ops : id \in {Main(o), Comp(o)}
  BY EveryId
<1>4. Main(o) \in Ids /\ Comp(o) \in Ids /\ Main(o) # Comp(o)
  BY IdFacts
<1>5. Main(o)' = Main(o) /\ Comp(o)' = Comp(o)
  BY DEF Main, Comp
<1>6. id = Main(o) => CanStillApply(o)
  BY <1>1 DEF CanStillApply
<1>7. id = Comp(o) => Comps(o) /\ ~CompDone(o)
  BY <1>1 DEF Comps, CompDone
<1>8. o \in Reserved /\ Working(o) /\ Carrier(o)
  BY <1>3, <1>6, <1>7, UnderWay DEF Deep, OpOK
<1>9. \A p \in Ops \ {o} : Apart(p)
  BY <1>1, <1>2, <1>3, LedgerApart
<1>10. Executing(Main(o))' => Executing(Main(o))
  BY <1>1, <1>2, <1>4, <1>5 DEF Executing
<1>11. /\ Carrier(o)' /\ (CanStillApply(o)' => CanStillApply(o))
       /\ Travelling(o)' => Travelling(o)
  BY <1>1, <1>2, <1>4, <1>5, <1>8, <1>10 DEF Carrier, CanStillApply, Travelling
<1>12. CASE id = Main(o)
  <2>1. /\ remote[Main(o)] = "pending" /\ remote'[Main(o)] = "failed"
        /\ remote'[Comp(o)] = remote[Comp(o)]
    BY <1>1, <1>2, <1>4, <1>12
  <2>2. /\ ~Applied(o) /\ ~Applied(o)' /\ ~Void(o) /\ (CompDone(o)' <=> CompDone(o))
        /\ Comps(o)' => Comps(o)
    BY <1>1, <1>5, <2>1 DEF Applied, Void, CompDone, Comps
  <2>3. Travelling(o)
    BY <1>1, <1>12 DEF Travelling
  <2>4. Known(o)
    BY <1>1, <1>11, <2>1, <2>2, <2>3 DEF Known
  <2> QED BY <1>1, <1>8, <1>9, <1>11, <2>2, <2>4, LedgerKeeps, OwnerMoves
<1>13. CASE id = Comp(o)
  <2>1. /\ remote[Comp(o)] = "pending" /\ remote'[Comp(o)] = "failed" /\ Comps(o)
        /\ remote'[Main(o)] = remote[Main(o)]
    BY <1>1, <1>2, <1>4, <1>7, <1>13
  <2>2. /\ (Applied(o)' <=> Applied(o)) /\ Applied(o) /\ ~Void(o) /\ ~CompDone(o)
        /\ ~CompDone(o)'
    BY <1>5, <2>1 DEF Applied, Void, CompDone, Deep, OpOK, CompOK
  <2>3. Known(o)
    BY <1>1, <1>11, <2>1, <2>2 DEF Known
  <2> QED BY <1>1, <1>8, <1>9, <1>11, <2>1, <2>2, <2>3, LedgerKeeps, OwnerMoves
<1> QED BY <1>3, <1>12, <1>13

\* The mutation of the operation that owns the binding takes effect.
LEMMA MutationInForce ==
    ASSUME Base, Deep, PlatformStep, NEW o \in Reserved, Executing(Main(o)),
           Mutation(Main(o)), ~Applied(o), ~CompDone(o)', ~Void(o)
    PROVE  InForce(o)'
<1>1. Unapplied(o) /\ o \in Ops
  BY DEF Deep, OpOK, Owner, Reserved
<1>2. /\ Kind(Main(o)) = intent[o].kind /\ Pre(Main(o)) = intent[o].pre
      /\ intent[o].pre = binding.gen /\ Quiet
  BY <1>1, IdFacts DEF Unapplied
<1>3. intent[o] \in Intents /\ cred \in Creds /\ binding \in Bindings
  BY <1>1 DEF Base, TypeInv, RowsOK, PlatformOK
<1>4. Target(o)' = Target(o)
  BY DEF PlatformStep, Target
<1>5. Dropping' <=> Dropping
  BY DEF PlatformStep, Dropping
<1>6. CASE intent[o].kind = "BIND"
  <2>1. Pre(Main(o)) = 0 /\ cred' = [exists |-> TRUE, gen |-> 1]
    BY <1>2, <1>6, Zenon DEF Mutation
  <2>2. cred'.exists /\ cred'.gen = Target(o)
    BY <1>2, <1>6, <2>1 DEF Target
  <2> QED BY <1>1, <1>4, <1>6, <2>2 DEF InForce, Unapplied, PlatformStep
<1>7. CASE intent[o].kind \in {"REPLACE", "REFRESH", "SET_PRIMARY"}
  <2>1. /\ cred.exists /\ cred.gen = intent[o].pre
        /\ intent[o].kind # "SET_PRIMARY" => cred' = [cred EXCEPT !.gen = @ + 1]
        /\ intent[o].kind = "SET_PRIMARY" => cred' = cred
    BY <1>2, <1>7 DEF Mutation, AtPreGeneration
  <2>2. cred'.exists /\ cred'.gen = Target(o)
    BY <1>3, <1>7, <2>1 DEF Target, Creds, Intents
  <2>3. binding.key /\ ~Gone /\ binding.status # "cleanup_failed" /\ ~Dropping
    BY <1>2, <2>1 DEF Quiet
  <2> QED BY <1>2, <1>4, <1>5, <1>7, <2>2, <2>3 DEF InForce, PlatformStep, Gone
<1>8. CASE intent[o].kind = "DELETE"
  <2>1. cred' = NoCred
    BY <1>2, <1>8 DEF Mutation
  <2>2. ~cred'.exists
    BY <2>1, EmptyValues DEF NoCred
  <2> QED BY <1>1, <1>8, <2>2 DEF InForce, Unapplied, PlatformStep
<1> QED BY <1>3, <1>6, <1>7, <1>8 DEF Intents, Kinds

LEMMA PMCommitMainKeeps ==
    ASSUME Base, Deep, NEW o \in Ops, PMCommit(Main(o))
    PROVE  Deep'
<1>1. /\ Executing(Main(o)) /\ Mutation(Main(o)) /\ UNCHANGED <<exec, net>> /\ PlatformStep
      /\ remote[Main(o)] = "pending" /\ remote' = [remote EXCEPT ![Main(o)] = "succeeded"]
  BY DEF PMCommit, Executing, acVars, PlatformStep
<1>2. Main(o) \in Ids /\ Comp(o) \in Ids /\ Main(o) # Comp(o)
  BY IdFacts
<1>3. /\ remote'[Main(o)] = "succeeded"
      /\ \A i \in Ids \ {Main(o)} : remote'[i] = remote[i] /\ exec'[i] = exec[i]
  BY <1>1, <1>2 DEF Base, TypeInv, PlatformOK
<1>4. Main(o)' = Main(o) /\ Comp(o)' = Comp(o)
  BY DEF Main, Comp
<1>5. CanStillApply(o) /\ Travelling(o)
  BY <1>1 DEF CanStillApply, Travelling
<1>6. o \in Reserved /\ Working(o) /\ OpOK(o)
  BY <1>5, UnderWay DEF Deep
<1>7. \A p \in Ops \ {o} : Apart(p)
  BY <1>1, <1>3, LedgerApart
<1>8. ~Applied(o) /\ Applied(o)' /\ ~Void(o)
  BY <1>1, <1>3, <1>4 DEF Applied, Void
<1>9. ~Comps(o) /\ ~Comps(o)' /\ ~CompDone(o) /\ ~CompDone(o)'
  <2>1. ~Comps(o)
    BY <1>6, <1>8 DEF OpOK, CompOK
  <2> QED BY <1>1, <1>2, <1>3, <1>4, <2>1 DEF Comps, CompDone
<1>10. ~Executing(Main(o))' /\ ~CanStillApply(o)'
  BY <1>3, <1>4 DEF Executing, CanStillApply
<1>11. Known(o)
  BY <1>1, <1>5, <1>8, <1>9, <1>10 DEF Known
<1>12. intent'[o] = intent[o] /\ o \in Reserved'
  BY <1>1, <1>6 DEF PlatformStep, Reserved
<1>13. Owner(o)'
  BY <1>1, <1>6, <1>8, <1>9, MutationInForce DEF Owner
<1>14. Born(o)'
  BY <1>6, <1>12 DEF Born, Reserved, Reserving
<1>15. Carrier(o)'
  BY <1>1, <1>4, <1>6, <1>10 DEF OpOK, Carrier
<1>16. Closed(o)'
  BY <1>6, <1>12 DEF Closed, Working, Over, Released, Reserving
<1>17. CompOK(o)'
  BY <1>6, <1>9, <1>12 DEF OpOK, CompOK, Missing
<1>18. OpOK(o)'
  BY <1>12, <1>13, <1>14, <1>15, <1>16, <1>17 DEF OpOK
<1> QED BY <1>1, <1>6, <1>7, <1>11, <1>18, OwnerMoves

\* The compensating delete of a BIND that another binding's account owns.
LEMMA PMCommitCompKeeps ==
    ASSUME Base, Deep, NEW o \in Ops, PMCommit(Comp(o))
    PROVE  Deep'
<1>1. /\ Executing(Comp(o)) /\ Mutation(Comp(o)) /\ UNCHANGED <<exec, net>> /\ PlatformStep
      /\ remote[Comp(o)] = "pending" /\ remote' = [remote EXCEPT ![Comp(o)] = "succeeded"]
  BY DEF PMCommit, Executing, acVars, PlatformStep
<1>2. Main(o) \in Ids /\ Comp(o) \in Ids /\ Main(o) # Comp(o) /\ Kind(Comp(o)) = "DELETE"
  BY IdFacts
<1>3. /\ remote'[Comp(o)] = "succeeded"
      /\ \A i \in Ids \ {Comp(o)} : remote'[i] = remote[i] /\ exec'[i] = exec[i]
  BY <1>1, <1>2 DEF Base, TypeInv, PlatformOK
<1>4. Main(o)' = Main(o) /\ Comp(o)' = Comp(o)
  BY DEF Main, Comp
<1>5. Comps(o) /\ ~CompDone(o)
  BY <1>1 DEF Comps, CompDone
<1>6. o \in Reserved /\ Working(o) /\ OpOK(o)
  BY <1>5, UnderWay DEF Deep
<1>7. \A p \in Ops \ {o} : Apart(p)
  BY <1>1, <1>3, LedgerApart
<1>8. /\ o \in OwnedElsewhere /\ intent[o].kind = "BIND" /\ Applied(o) /\ ~binding.key
      /\ intent[o].state # "succeeded"
  BY <1>5, <1>6 DEF OpOK, CompOK
<1>9. remote'[Main(o)] = remote[Main(o)] /\ Applied(o)' /\ ~Void(o) /\ CompDone(o)'
  BY <1>2, <1>3, <1>4, <1>8 DEF Applied, Void, CompDone
<1>10. ~cred'.exists
  <2>1. cred' = NoCred
    BY <1>1, <1>2 DEF Mutation
  <2> QED BY <2>1, EmptyValues DEF NoCred
<1>11. /\ Executing(Main(o))' <=> Executing(Main(o))
       /\ CanStillApply(o)' <=> CanStillApply(o)
       /\ Travelling(o)' <=> Travelling(o)
  BY <1>1, <1>2, <1>3, <1>4 DEF Executing, CanStillApply, Travelling
<1>12. Known(o)
  BY <1>5, <1>8, <1>9, <1>11 DEF Known
<1>13. intent'[o] = intent[o] /\ o \in Reserved' /\ Target(o)' = Target(o)
  BY <1>1, <1>6 DEF PlatformStep, Reserved, Target
<1>14. InForce(o)'
  BY <1>1, <1>8, <1>9, <1>13 DEF InForce, PlatformStep
<1>15. Born(o)' /\ Owner(o)'
  BY <1>6, <1>9, <1>13, <1>14 DEF Born, Reserved, Reserving, Owner
<1>16. Carrier(o)'
  BY <1>1, <1>4, <1>6, <1>11 DEF OpOK, Carrier
<1>17. Closed(o)'
  BY <1>6, <1>13 DEF Closed, Working, Over, Released, Reserving
<1>18. CompOK(o)'
  BY <1>1, <1>6, <1>8, <1>9, <1>10, <1>13 DEF OpOK, CompOK, PlatformStep, Missing
<1>19. OpOK(o)'
  BY <1>13, <1>15, <1>16, <1>17, <1>18 DEF OpOK
<1> QED BY <1>1, <1>6, <1>7, <1>12, <1>19, OwnerMoves

LEMMA PlatformKeeps ==
    ASSUME Base, Deep, Platform
    PROVE  Deep'
<1>1. PICK id \in Ids :
        \/ \E w \in Workers : PMAdmit(w, id) \/ Lost(w, id)
        \/ PMCommit(id) \/ PMFail(id) \/ PMDie(id)
  BY DEF Platform
<1>2. ASSUME NEW w \in Workers, Lost(w, id)
      PROVE  Deep'
  <2>1. /\ PlatformStep /\ UNCHANGED <<cred, remote, exec>> /\ net' \subseteq net
    BY <1>2 DEF Lost, PlatformStep, acVars, pmVars
  <2>2. \A i \in Ids : Executing(i)' => Executing(i)
    BY <2>1 DEF Executing
  <2> QED BY <2>1, <2>2, LossKeeps
<1>3. CASE PMDie(id)
  <2>1. /\ PlatformStep /\ UNCHANGED <<cred, remote, net>>
        /\ exec' = [exec EXCEPT ![id] = None]
    BY <1>3 DEF PMDie, PlatformStep, acVars
  <2>2. \A i \in Ids : Executing(i)' => Executing(i)
    BY <2>1 DEF Executing, Base, TypeInv, PlatformOK
  <2> QED BY <2>1, <2>2, LossKeeps
<1>4. CASE PMCommit(id)
  BY <1>4, EveryId, PMCommitMainKeeps, PMCommitCompKeeps
<1> QED BY <1>1, <1>2, <1>3, <1>4, PMAdmitKeeps, PMFailKeeps

-----------------------------------------------------------------------------
\* The invariant, and what account-center may rely on.

LEMMA OutboxKeeps ==
    ASSUME Base, Deep, UNCHANGED <<binding, intent, cred, remote, exec, net, pc, loc>>
    PROVE  Deep'
  BY LossKeeps DEF PlatformStep, Executing

LEMMA InitDeep == Init => Deep
<1> SUFFICES ASSUME Init PROVE Deep
  OBVIOUS
<1>1. \A w \in Workers : pc[w] = "idle" /\ loc[w] = NoLoc
  BY DEF Init
<1>2. RowOK
  <2>1. ~cred.exists /\ binding = NoBinding
    BY EmptyValues DEF Init
  <2>2. ~Dropping
    BY <1>1 DEF Dropping
  <2> QED BY <2>1, <2>2, EmptyValues DEF RowOK, Quiet
<1>3. ASSUME NEW o \in Ops
      PROVE  OpOK(o)
  <2>1. /\ intent[o] = NoIntent /\ net = {}
        /\ remote[Main(o)] = "absent" /\ remote[Comp(o)] = "absent"
    BY IdFacts DEF Init
  <2>2. ~Comps(o) /\ ~CompDone(o) /\ NotSent(o) /\ Carrier(o)
    BY <2>1 DEF Comps, CompDone, NotSent, Carrier
  <2>3. Born(o) /\ Closed(o) /\ o \notin Reserved
    BY <2>1, <2>2, EmptyValues DEF Born, Closed, Over, Released, Reserved, Reserving
  <2>4. CompOK(o)
    BY <2>1, <2>2, EmptyValues DEF CompOK, Missing
  <2> QED BY <2>2, <2>3, <2>4 DEF OpOK
<1>4. ASSUME NEW w \in Workers
      PROVE  WorkerOK(w)
  <2>1. ~Busy(w) /\ ~HoldsSnapshot(w)
    BY <1>1 DEF Busy, HoldsSnapshot, Early
  <2>2. loc[w].seen.reason \notin Missing /\ loc[w].op = None
    BY <1>1, EmptyValues DEF Missing
  <2> QED BY <1>1, <2>1, <2>2 DEF WorkerOK, Handling
<1> QED BY <1>2, <1>3, <1>4 DEF Deep

LEMMA DeepStep ==
    ASSUME Calm, Base, Deep, [Next]_vars
    PROVE  Deep'
<1>1. ASSUME NEW w \in Workers, Request(w) \/ Reply(w) \/ Reconcile(w) \/ Crash(w)
      PROVE  Deep'
  BY <1>1, RequestKeeps, ReplyKeeps, ReconcileKeeps, CrashKeeps
<1>2. CASE Platform
  BY <1>2, PlatformKeeps
<1>3. ASSUME NEW o \in Ops, DeadLetter(o) \/ RequeueDeadLetter(o)
      PROVE  Deep'
  BY <1>3, OutboxKeeps DEF DeadLetter, RequeueDeadLetter, pmVars
<1>4. CASE UNCHANGED vars
  BY <1>4, OutboxKeeps DEF vars, acVars, pmVars
<1> QED BY <1>1, <1>2, <1>3, <1>4 DEF Next

LEMMA DeepInvariant == Calm => (Spec => [](Base /\ Deep))
<1> SUFFICES ASSUME Calm PROVE Spec => [](Base /\ Deep)
  OBVIOUS
<1>1. Init => Base
  <2> SUFFICES ASSUME Init PROVE Base
    OBVIOUS
  <2>1. \A o \in Ops : intent[o].state = "absent"
    BY EmptyValues DEF Init
  <2>2. Untouched /\ Reserved = {}
    BY <2>1 DEF Init, Untouched, Reserved, Reserving
  <2> QED BY <2>2, InitTypes DEF Base, OneReservation
<1>2. Base /\ [Next]_vars => Base'
  BY StepTypes, UntouchedStep, ReservationStep DEF Base
<1> QED BY <1>1, <1>2, InitDeep, DeepStep, PTL DEF Spec

\* An operation that account-center records as succeeded was applied under its
\* id, or there was nothing left to delete (markSucceeded after persistOutcome,
\* ReplyOk, DeleteAbsent and the claim of a projected delete).
THEOREM SuccessIsTrueHolds == Calm => (Spec => []SuccessIsTrue)
  BY DeepInvariant, DeepIsTrue, PTL DEF VerdictIsTrue

\* And one that failed, was superseded or waits for input never took effect, or
\* was deleted again: no late reply, second reconciler, dead worker or lost
\* request makes account-center record what did not happen.
THEOREM VerdictIsTrueHolds == Calm => (Spec => []VerdictIsTrue)
  BY DeepInvariant, DeepIsTrue, PTL

\* Once the intent gives up the binding, neither its executor nor a request
\* that still travels can change the credential.
THEOREM ReleasedIsDeadHolds == Calm => (Spec => []ReleasedIsDead)
  BY DeepInvariant, DeepIsTrue, PTL

\* A row is dropped (dropDraft, deleteBinding, the reconciler) only when its
\* credential is gone or an operation that will settle it is on record.
THEOREM CredentialIsOwnedHolds == Calm => (Spec => []CredentialIsOwned)
  BY DeepInvariant, DeepIsTrue, PTL

\* With no operation under way an active binding and its credential are at the
\* same generation, so the tickets account-center issues are accepted.
THEOREM GenerationsAgreeHolds == Calm => (Spec => []GenerationsAgree)
  BY DeepInvariant, DeepIsTrue, PTL

\* The compensating delete is never sent for an account that no other binding
\* owns: confirmCredentialInputRequired never meets a result that went missing.
THEOREM NoGoodCredentialDeletedHolds == Calm => (Spec => []NoGoodCredentialDeleted)
  BY DeepInvariant, DeepIsTrue, PTL

===============================================================================
