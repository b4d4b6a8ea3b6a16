------------------------ MODULE GrantPropagationProofs ------------------------
(***************************************************************************)
(* Theorems about GrantPropagation for any number of consumers, bots,      *)
(* unlinks and workers, with fences that fail and without any bound on     *)
(* versions, generations, requests or tickets.                             *)
(***************************************************************************)
EXTENDS GrantPropagation, TLAPS

-----------------------------------------------------------------------------
\* Type correctness.

LEMMA BlanksTyped == NoCall \in FenceId /\ Idle.bot \in Bots
<1>1. (CHOOSE c \in Consumers : TRUE) \in Consumers
  BY BotOfAssumption
<1>2. \E b \in Bots : TRUE
  BY BotOfAssumption
<1>3. (CHOOSE b \in Bots : TRUE) \in Bots
  BY <1>2
<1> QED BY <1>1, <1>3 DEF NoCall, Fence, FenceId, Idle

LEMMA IdleTyped == Idle \in [unlink : Unlinks \union {NoUnlink}, bot : Bots, todo : SUBSET Consumers]
  BY BlanksTyped DEF Idle

LEMMA GreatestTyped ==
    ASSUME NEW m \in Nat, NEW n \in Nat
    PROVE  Greatest(m, n) \in Nat /\ Greatest(m, n) >= m /\ Greatest(m, n) >= n
  BY DEF Greatest

LEMMA InitTyped == Init => TypeOK
<1> SUFFICES ASSUME Init PROVE TypeOK
  OBVIOUS
<1>1. AccountOK
  <2>1. grant \in [Consumers -> Grant]
    BY DEF Init, Grant
  <2>2. unlink \in [Unlinks -> Unlink]
    BY BlanksTyped DEF Init, Unlink, Idle
  <2> QED BY <2>1, <2>2 DEF Init, AccountOK
<1>2. PlatformOK
  BY DEF Init, PlatformOK
<1>3. WorkersOK
  BY BlanksTyped, IdleTyped DEF Init, WorkersOK, Steps
<1> QED BY <1>1, <1>2, <1>3 DEF TypeOK, Init

\* What the building blocks of the actions keep.
LEMMA ReturnTyped ==
    ASSUME WorkersOK, NEW w \in Workers, Return(w), UNCHANGED task
    PROVE  WorkersOK'
  BY BlanksTyped DEF WorkersOK, Return, Steps

LEMMA InvalidateTyped ==
    ASSUME WorkersOK, net \subseteq FenceId, NEW w \in Workers, NEW id \in FenceId,
           Invalidate(w, id), UNCHANGED task
    PROVE  WorkersOK' /\ net' \subseteq FenceId
  BY DEF WorkersOK, Invalidate, Steps

LEMMA ReadGrantTyped ==
    ASSUME AccountOK, WorkersOK, NEW w \in Workers, NEW c \in Consumers, ReadGrant(w, c),
           task' \in [Workers -> [unlink : Unlinks \union {NoUnlink}, bot : Bots,
                                  todo : SUBSET Consumers]]
    PROVE  WorkersOK'
<1>1. Fence(c, 0, grant[c].version, grant[c].pending) \in FenceId
  BY DEF AccountOK, Grant, Fence, FenceId
<1> QED BY <1>1, BlanksTyped DEF WorkersOK, ReadGrant, Return, Steps

LEMMA ConfirmTargetsTyped ==
    ASSUME unlink \in [Unlinks -> Unlink], NEW id \in FenceId, ConfirmTargets(id)
    PROVE  unlink' \in [Unlinks -> Unlink]
<1>1. ASSUME NEW u \in Unlinks
      PROVE  unlink'[u] \in Unlink
  <2> DEFINE confirmed == unlink[u].confirmed \union {id.consumer}
  <2>1. unlink[u] \in Unlink /\ confirmed \in SUBSET Consumers
    BY DEF Unlink, FenceId
  <2> HIDE DEF confirmed
  <2>2. [unlink[u] EXCEPT !.confirmed = confirmed,
           !.state = IF unlink[u].targets \subseteq confirmed THEN "complete" ELSE @] \in Unlink
    BY <2>1 DEF Unlink
  <2>3. CASE Covers(id, u)
    BY <2>2, <2>3 DEF ConfirmTargets, confirmed
  <2>4. CASE ~Covers(id, u)
    BY <2>1, <2>4 DEF ConfirmTargets
  <2> QED BY <2>3, <2>4
<1> QED BY <1>1 DEF ConfirmTargets

LEMMA GrantRequestTyped ==
    ASSUME TypeOK, NEW w \in Workers, GrantRequest(w)
    PROVE  TypeOK'
<1> USE DEF TypeOK
<1>1. ASSUME NEW c \in Consumers, NEW step \in {"upsert", "revoke"}, LoadBinding(w, c, step)
      PROVE  TypeOK'
  <2>1. Fence(c, generation, 0, 0) \in FenceId
    BY DEF AccountOK, Fence, FenceId
  <2>2. WorkersOK'
    BY <1>1, <2>1 DEF LoadBinding, WorkersOK, Steps
  <2> QED BY <1>1, <2>2 DEF LoadBinding, acVars, platformVars, AccountOK, PlatformOK
<1>2. CASE Upsert(w)
  <2> DEFINE c == call[w].consumer
             g == grant[c]
  <2>1. c \in Consumers /\ call[w] \in FenceId /\ g \in Grant
    BY DEF WorkersOK, FenceId, AccountOK
  <2>2. UNCHANGED <<identity, unlink, generation, platformVars, tickets, task>>
    BY <1>2 DEF Upsert
  <2>3. CASE CreateGrant(w, c, "active") /\ Return(w) /\ UNCHANGED net
    <3>1. grant' \in [Consumers -> Grant]
      BY <2>1, <2>3 DEF CreateGrant, AccountOK, Grant
    <3>2. WorkersOK'
      BY <2>2, <2>3, ReturnTyped
    <3> QED BY <2>2, <2>3, <3>1, <3>2 DEF AccountOK, PlatformOK, platformVars
  <2>4. ASSUME NEW version \in {g.version, g.version + 1}, NEW confirmed \in BOOLEAN,
               grant' = [grant EXCEPT ![c].status = "active", ![c].version = version,
                                      ![c].invalidated = confirmed],
               \/ Invalidate(w, Fence(c, call[w].gen, version, g.pending))
               \/ Return(w) /\ UNCHANGED net
        PROVE  TypeOK'
    <3>1. version \in Nat
      BY <2>1, <2>4 DEF Grant
    <3>2. grant' \in [Consumers -> Grant]
      BY <2>1, <2>4, <3>1 DEF AccountOK, Grant
    <3>3. Fence(c, call[w].gen, version, g.pending) \in FenceId
      BY <2>1, <3>1 DEF Fence, FenceId, Grant
    <3>4. WorkersOK' /\ net' \subseteq FenceId
      BY <2>2, <2>4, <3>3, ReturnTyped, InvalidateTyped
    <3> QED BY <2>2, <3>2, <3>4 DEF AccountOK, PlatformOK, platformVars
  <2> QED BY <1>2, <2>1, <2>3, <2>4 DEF Upsert, AccountOK, Grant
<1>3. CASE Revoke(w)
  <2> DEFINE c == call[w].consumer
             g == grant[c]
  <2>1. c \in Consumers /\ call[w] \in FenceId /\ g \in Grant
    BY DEF WorkersOK, FenceId, AccountOK
  <2>2. UNCHANGED <<identity, unlink, generation, platformVars, tickets, task>>
    BY <1>3 DEF Revoke
  <2>3. grant' \in [Consumers -> Grant]
    <3>1. CASE CreateGrant(w, c, "revoked")
      BY <3>1, <2>1 DEF CreateGrant, AccountOK, Grant
    <3>2. CASE UNCHANGED grant
      BY <3>2 DEF AccountOK
    <3>3. CASE grant' = [grant EXCEPT ![c].status = "revoked", ![c].version = @ + 1,
                                      ![c].invalidated = FALSE]
      <4>1. g.version + 1 \in Nat
        BY <2>1 DEF Grant
      <4> QED BY <3>3, <4>1, <2>1 DEF AccountOK, Grant
    <3> QED BY <1>3, <3>1, <3>2, <3>3 DEF Revoke
  <2>4. /\ Fence(c, call[w].gen, 1, 0) \in FenceId
        /\ Fence(c, call[w].gen, g.version, g.pending) \in FenceId
        /\ Fence(c, call[w].gen, g.version + 1, g.pending) \in FenceId
    BY <2>1 DEF Fence, FenceId, Grant
  <2>5. WorkersOK' /\ net' \subseteq FenceId
    <3>1. CASE Return(w) /\ UNCHANGED net
      BY <2>2, <3>1, ReturnTyped
    <3>2. ASSUME NEW id \in FenceId, Invalidate(w, id)
          PROVE  WorkersOK' /\ net' \subseteq FenceId
      BY <2>2, <3>2, InvalidateTyped
    <3> QED BY <1>3, <2>4, <3>1, <3>2 DEF Revoke
  <2> QED BY <2>2, <2>3, <2>5 DEF AccountOK, PlatformOK, platformVars
<1> QED BY <1>1, <1>2, <1>3 DEF GrantRequest

LEMMA PropagationTyped ==
    ASSUME TypeOK, NEW w \in Workers, Propagation(w)
    PROVE  TypeOK'
<1> USE DEF TypeOK
<1>1. ASSUME NEW c \in Consumers, Reconcile(w, c)
      PROVE  TypeOK'
  <2>1. WorkersOK'
    <3>1. task' \in [Workers -> [unlink : Unlinks \union {NoUnlink}, bot : Bots,
                                 todo : SUBSET Consumers]]
      BY <1>1 DEF Reconcile, WorkersOK
    <3> QED BY <1>1, <3>1, ReadGrantTyped DEF Reconcile
  <2> QED BY <1>1, <2>1 DEF Reconcile, ReadGrant, acVars, platformVars, AccountOK, PlatformOK
<1>2. CASE ReadBinding(w)
  <2>1. [call[w] EXCEPT !.gen = generation] \in FenceId
    BY DEF WorkersOK, AccountOK, FenceId
  <2>2. WorkersOK' /\ net' \subseteq FenceId
    BY <1>2, <2>1, InvalidateTyped DEF ReadBinding
  <2> QED BY <1>2, <2>2 DEF ReadBinding, acVars, platformVars, AccountOK, PlatformOK
<1>3. CASE FenceAnswered(w)
  BY <1>3 DEF FenceAnswered, acVars, platformVars, AccountOK, PlatformOK, WorkersOK, Steps
<1>4. CASE FenceUnanswered(w)
  <2>1. WorkersOK'
    BY <1>4, ReturnTyped DEF FenceUnanswered
  <2> QED BY <1>4, <2>1 DEF FenceUnanswered, acVars, platformVars, AccountOK, PlatformOK
<1>5. CASE Complete(w)
  <2>1. call[w] \in FenceId /\ call[w].consumer \in Consumers
    BY DEF WorkersOK, FenceId
  <2>2. grant' \in [Consumers -> Grant]
    <3>1. CASE grant' = [grant EXCEPT ![call[w].consumer].invalidated = TRUE,
                                      ![call[w].consumer].pending = 0]
      <4>1. [grant[call[w].consumer] EXCEPT !.invalidated = TRUE, !.pending = 0] \in Grant
        <5>1. grant[call[w].consumer] \in Grant
          BY <2>1 DEF AccountOK
        <5> QED BY <5>1 DEF Grant
      <4>2. grant' = [grant EXCEPT ![call[w].consumer] =
                        [grant[call[w].consumer] EXCEPT !.invalidated = TRUE, !.pending = 0]]
        BY <3>1
      <4> QED BY <2>1, <4>1, <4>2 DEF AccountOK
    <3>2. CASE UNCHANGED grant
      BY <3>2 DEF AccountOK
    <3> QED BY <1>5, <3>1, <3>2 DEF Complete
  <2>3. unlink' \in [Unlinks -> Unlink]
    BY <1>5, <2>1, ConfirmTargetsTyped DEF Complete, AccountOK
  <2>4. WorkersOK'
    BY <1>5, ReturnTyped DEF Complete
  <2> QED BY <1>5, <2>2, <2>3, <2>4 DEF Complete, platformVars, AccountOK, PlatformOK
<1> QED BY <1>1, <1>2, <1>3, <1>4, <1>5 DEF Propagation

LEMMA UnlinkingTyped ==
    ASSUME TypeOK, NEW w \in Workers, Unlinking(w)
    PROVE  TypeOK'
<1> USE DEF TypeOK
<1> DEFINE Tasks == [unlink : Unlinks \union {NoUnlink}, bot : Bots, todo : SUBSET Consumers]
<1>1. ASSUME NEW u \in Unlinks, UnlinkReplay(w, u)
      PROVE  TypeOK'
  <2>1. task' \in [Workers -> Tasks]
    BY <1>1 DEF UnlinkReplay, AccountOK, Unlink, WorkersOK
  <2>2. WorkersOK'
    BY <1>1, <2>1 DEF UnlinkReplay, WorkersOK, Steps
  <2> QED BY <1>1, <2>2 DEF UnlinkReplay, acVars, platformVars, AccountOK, PlatformOK
<1>2. ASSUME NEW u \in Unlinks, NEW b \in Bots, UnlinkCollect(w, u, b)
      PROVE  TypeOK'
  <2>1. task' \in [Workers -> Tasks]
    BY <1>2 DEF UnlinkCollect, WorkersOK, BotConsumers
  <2>2. WorkersOK'
    BY <1>2, <2>1 DEF UnlinkCollect, WorkersOK, Steps
  <2> QED BY <1>2, <2>2 DEF UnlinkCollect, acVars, platformVars, AccountOK, PlatformOK
<1>3. ASSUME NEW c \in Consumers, UnlinkTarget(w, c)
      PROVE  TypeOK'
  <2>1. task' \in [Workers -> Tasks]
    BY <1>3 DEF UnlinkTarget, WorkersOK
  <2>2. WorkersOK'
    BY <1>3, <2>1, ReadGrantTyped DEF UnlinkTarget
  <2> QED BY <1>3, <2>2 DEF UnlinkTarget, ReadGrant, acVars, platformVars, AccountOK, PlatformOK
<1>4. CASE UnlinkCommit(w)
  <2>1. task[w].bot \in Bots /\ task[w].todo \subseteq Consumers
    BY DEF WorkersOK
  <2>2. PICK highest \in Epochs :
          /\ identity' = [b \in Bots |->
               [linked |-> identity[b].linked /\ b # task[w].bot,
                epoch |-> IF identity[b].linked THEN highest + 1 ELSE identity[b].epoch]]
          /\ unlink' = [unlink EXCEPT ![task[w].unlink] =
               [state |-> IF task[w].todo = {} THEN "complete" ELSE "pending",
                bot |-> task[w].bot, epoch |-> highest + 1, targets |-> task[w].todo,
                confirmed |-> {}]]
          /\ grant' = [c \in Consumers |->
               IF c \in task[w].todo THEN Pending(grant[c], highest + 1) ELSE grant[c]]
    BY <1>4 DEF UnlinkCommit
  <2>3. highest + 1 \in Nat
    BY DEF Epochs, AccountOK
  <2>4. identity' \in [Bots -> [linked : BOOLEAN, epoch : Nat]]
    BY <2>2, <2>3 DEF AccountOK
  <2>5. unlink' \in [Unlinks -> Unlink]
    BY <2>1, <2>2, <2>3 DEF AccountOK, Unlink
  <2>6. grant' \in [Consumers -> Grant]
    BY <2>2, <2>3, GreatestTyped DEF Pending, AccountOK, Grant
  <2>7. WorkersOK'
    BY <1>4 DEF UnlinkCommit, WorkersOK, Steps
  <2> QED BY <1>4, <2>4, <2>5, <2>6, <2>7 DEF UnlinkCommit, platformVars, AccountOK, PlatformOK
<1>5. CASE UnlinkFinish(w)
  <2>1. unlink' \in [Unlinks -> Unlink]
    <3>1. ASSUME NEW u \in Unlinks, Refresh(u)
          PROVE  unlink' \in [Unlinks -> Unlink]
      <4>1. \A state \in {unlink[u].state, "complete"} :
              [unlink[u] EXCEPT !.state = state] \in Unlink
        BY DEF AccountOK, Unlink
      <4>2. PICK state \in {unlink[u].state, "complete"} :
              unlink' = [unlink EXCEPT ![u] = [unlink[u] EXCEPT !.state = state]]
        BY <3>1 DEF Refresh
      <4> QED BY <4>1, <4>2 DEF AccountOK
    <3>2. CASE task[w].unlink \notin Unlinks
      BY <1>5, <3>2 DEF UnlinkFinish, Refresh, AccountOK
    <3> QED BY <1>5, <3>1, <3>2 DEF UnlinkFinish
  <2>2. WorkersOK'
    BY <1>5, IdleTyped DEF UnlinkFinish, WorkersOK, Steps
  <2> QED BY <1>5, <2>1, <2>2 DEF UnlinkFinish, platformVars, AccountOK, PlatformOK
<1> QED BY <1>1, <1>2, <1>3, <1>4, <1>5 DEF Unlinking

LEMMA PlatformTyped ==
    ASSUME TypeOK, Platform
    PROVE  TypeOK'
<1> USE DEF TypeOK
<1>1. ASSUME NEW id \in net, Deliver(id)
      PROVE  TypeOK'
  <2>1. id \in FenceId /\ id.consumer \in Consumers
    BY DEF FenceId
  <2>2. ASSUME NEW f \in [version : Nat, epoch : Nat]
        PROVE  Raise(f, id) \in [version : Nat, epoch : Nat]
    BY <2>1, GreatestTyped DEF Raise, FenceId
  <2>3. PlatformOK'
    BY <1>1, <2>1, <2>2 DEF Deliver, PlatformOK, platformVars
  <2> QED BY <1>1, <2>3 DEF Deliver, acVars, workerVars, AccountOK, WorkersOK
<1>2. ASSUME NEW id \in net, FenceFails(id)
      PROVE  TypeOK'
  BY <1>2 DEF FenceFails, acVars, workerVars, AccountOK, PlatformOK, WorkersOK
<1>3. ASSUME NEW id \in net, Lose(id)
      PROVE  TypeOK'
  BY <1>3 DEF Lose, acVars, platformVars, workerVars, AccountOK, PlatformOK, WorkersOK
<1>4. CASE ReplaceCredential
  BY <1>4 DEF ReplaceCredential, acVars, workerVars, AccountOK, PlatformOK, WorkersOK
<1>5. CASE ProjectGeneration
  BY <1>5 DEF ProjectGeneration, platformVars, workerVars, AccountOK, PlatformOK, WorkersOK
<1> QED BY <1>1, <1>2, <1>3, <1>4, <1>5 DEF Platform

LEMMA StepTyped ==
    ASSUME TypeOK, [Next]_vars
    PROVE  TypeOK'
<1>1. ASSUME NEW w \in Workers, Crash(w)
      PROVE  TypeOK'
  <2>1. WorkersOK'
    BY <1>1, BlanksTyped, IdleTyped DEF TypeOK, Crash, WorkersOK, Steps
  <2> QED BY <1>1, <2>1 DEF TypeOK, Crash, acVars, platformVars, AccountOK, PlatformOK
<1>2. ASSUME NEW u \in Unlinks, UnlinkStatus(u)
      PROVE  TypeOK'
  <2>1. unlink' \in [Unlinks -> Unlink]
    BY <1>2 DEF UnlinkStatus, Refresh, TypeOK, AccountOK, Unlink
  <2> QED BY <1>2, <2>1 DEF UnlinkStatus, TypeOK, platformVars, workerVars, AccountOK,
         PlatformOK, WorkersOK
<1>3. ASSUME NEW b \in Bots, Link(b)
      PROVE  TypeOK'
  <2>1. identity' \in [Bots -> [linked : BOOLEAN, epoch : Nat]]
    BY <1>3 DEF Link, Epochs, TypeOK, AccountOK
  <2> QED BY <1>3, <2>1 DEF Link, TypeOK, platformVars, workerVars, AccountOK, PlatformOK,
         WorkersOK
<1>4. ASSUME NEW c \in Consumers, IssueTicket(c)
      PROVE  TypeOK'
  <2>1. BotOf[c] \in Bots
    BY BotOfAssumption
  <2>2. tickets' \subseteq Ticket
    BY <1>4, <2>1 DEF IssueTicket, Ticket, TypeOK, AccountOK, Grant
  <2> QED BY <1>4, <2>2 DEF IssueTicket, TypeOK, acVars, platformVars, workerVars, AccountOK,
         PlatformOK, WorkersOK
<1>5. CASE UNCHANGED vars
  BY <1>5 DEF vars, acVars, platformVars, workerVars, TypeOK, AccountOK, PlatformOK, WorkersOK
<1> QED BY <1>1, <1>2, <1>3, <1>4, <1>5, GrantRequestTyped, PropagationTyped, UnlinkingTyped,
       PlatformTyped DEF Next

\* Every variable keeps its type: grant rows, unlink operations, fences and
\* the steps of the workers.
THEOREM TypeCorrect == Spec => []TypeOK
  BY InitTyped, StepTyped, PTL DEF Spec

-----------------------------------------------------------------------------
\* What one step may do to a grant row: create it, move it to a new version,
\* owe it a later epoch, or record it as propagated.

Created(c) ==
    /\ ~Exists(c) /\ (LateGrants \/ ~UserLocked)
    /\ grant'[c].status # "none" /\ grant'[c].version = 1
    /\ ~grant'[c].invalidated /\ grant'[c].pending = 0

Changed(c) ==
    /\ Exists(c)
    /\ grant'[c].status # "none" /\ grant'[c].version = grant[c].version + 1
    /\ ~grant'[c].invalidated /\ grant'[c].pending = grant[c].pending

Owing(c) ==
    /\ \E w \in Workers : UnlinkCommit(w) /\ c \in task[w].todo
    /\ grant'[c].status = grant[c].status /\ grant'[c].version = grant[c].version
    /\ ~grant'[c].invalidated /\ grant'[c].pending >= grant[c].pending

Settled(c) ==
    /\ \E w \in Workers : Complete(w) /\ Confirms(call[w]) /\ call[w].consumer = c
    /\ grant'[c].status = grant[c].status /\ grant'[c].version = grant[c].version
    /\ grant'[c].invalidated /\ grant'[c].pending = 0

Moves(c) == grant'[c] = grant[c] \/ Created(c) \/ Changed(c) \/ Owing(c) \/ Settled(c)

LEMMA CreateMoves ==
    ASSUME TypeOK, NEW w \in Workers, NEW d \in Consumers, NEW s \in {"active", "revoked"},
           CreateGrant(w, d, s), NEW c \in Consumers
    PROVE  grant'[c] = grant[c] \/ Created(c)
  BY DEF CreateGrant, Created, TypeOK, AccountOK, Grant

LEMMA UpsertMoves ==
    ASSUME TypeOK, NEW w \in Workers, Upsert(w), NEW c \in Consumers
    PROVE  Moves(c)
<1> DEFINE d == call[w].consumer
           g == grant[d]
<1>1. d \in Consumers /\ g \in Grant
  BY DEF TypeOK, WorkersOK, FenceId, AccountOK
<1>2. CASE CreateGrant(w, d, "active")
  BY <1>1, <1>2, CreateMoves DEF Moves
<1>3. ASSUME NEW changed \in BOOLEAN, NEW bump \in BOOLEAN, NEW version, NEW confirmed,
             bump = (changed \/ g.status = "revoked"),
             version = IF bump THEN g.version + 1 ELSE g.version,
             confirmed = (g.invalidated /\ ~bump),
             Exists(d),
             grant' = [grant EXCEPT ![d].status = "active", ![d].version = version,
                                    ![d].invalidated = confirmed]
      PROVE  Moves(c)
  <2>1. grant'[d] = [g EXCEPT !.status = "active", !.version = version, !.invalidated = confirmed]
    BY <1>1, <1>3 DEF TypeOK, AccountOK
  <2>2. grant'[d] = [status |-> "active", version |-> version, invalidated |-> confirmed,
                     pending |-> g.pending]
    BY <1>1, <2>1 DEF Grant
  <2>3. c # d => grant'[c] = grant[c]
    BY <1>3 DEF TypeOK, AccountOK
  <2>4. CASE bump
    <3>1. confirmed = FALSE /\ version = g.version + 1
      BY <1>3, <2>4
    <3>2. grant'[d] = [status |-> "active", version |-> g.version + 1, invalidated |-> FALSE,
                       pending |-> g.pending]
      BY <2>2, <3>1
    <3>3. c = d => Changed(c)
      <4>1. Exists(d)
        BY <1>3
      <4> QED BY <1>1, <3>2, <4>1 DEF Changed, Exists, Grant
    <3> QED BY <2>3, <3>3 DEF Moves
  <2>5. CASE ~bump
    <3>1. g = [status |-> "active", version |-> version, invalidated |-> confirmed,
               pending |-> g.pending]
      BY <1>1, <1>3, <2>5 DEF Exists, Grant
    <3> QED BY <2>2, <2>3, <3>1 DEF Moves
  <2> QED BY <2>4, <2>5
<1>4. CASE \E changed \in BOOLEAN :
             LET bump == changed \/ g.status = "revoked"
                 version == IF bump THEN g.version + 1 ELSE g.version
                 confirmed == g.invalidated /\ ~bump
             IN /\ Exists(d)
                /\ grant' = [grant EXCEPT ![d].status = "active", ![d].version = version,
                                          ![d].invalidated = confirmed]
  <2>1. PICK changed \in BOOLEAN :
          LET bump == changed \/ g.status = "revoked"
              version == IF bump THEN g.version + 1 ELSE g.version
              confirmed == g.invalidated /\ ~bump
          IN /\ Exists(d)
             /\ grant' = [grant EXCEPT ![d].status = "active", ![d].version = version,
                                       ![d].invalidated = confirmed]
    BY <1>4
  <2> DEFINE bump == changed \/ g.status = "revoked"
             version == IF bump THEN g.version + 1 ELSE g.version
             confirmed == g.invalidated /\ ~bump
  <2>2. bump \in BOOLEAN
    OBVIOUS
  <2>3. Exists(d) /\ grant' = [grant EXCEPT ![d].status = "active", ![d].version = version,
                                           ![d].invalidated = confirmed]
    BY <2>1
  <2> HIDE DEF d, g
  <2> QED BY <1>3, <2>2, <2>3
<1> QED BY <1>2, <1>4 DEF Upsert

LEMMA RevokeMoves ==
    ASSUME TypeOK, NEW w \in Workers, Revoke(w), NEW c \in Consumers
    PROVE  Moves(c)
<1> DEFINE d == call[w].consumer
           g == grant[d]
<1>1. d \in Consumers /\ g \in Grant
  BY DEF TypeOK, WorkersOK, FenceId, AccountOK
<1>2. CASE CreateGrant(w, d, "revoked")
  BY <1>1, <1>2, CreateMoves DEF Moves
<1>3. CASE UNCHANGED grant
  BY <1>3 DEF Moves
<1>4. CASE /\ g.status = "active"
           /\ grant' = [grant EXCEPT ![d].status = "revoked", ![d].version = @ + 1,
                                     ![d].invalidated = FALSE]
  <2>1. grant'[d] = [status |-> "revoked", version |-> g.version + 1, invalidated |-> FALSE,
                     pending |-> g.pending]
    BY <1>1, <1>4 DEF TypeOK, AccountOK, Grant
  <2>2. c # d => grant'[c] = grant[c]
    BY <1>4 DEF TypeOK, AccountOK
  <2>3. c = d => Changed(c)
    BY <1>1, <1>4, <2>1 DEF Changed, Exists, Grant
  <2> QED BY <2>2, <2>3 DEF Moves
<1> QED BY <1>2, <1>3, <1>4 DEF Revoke

LEMMA CompleteMoves ==
    ASSUME TypeOK, NEW w \in Workers, Complete(w), NEW c \in Consumers
    PROVE  Moves(c)
<1> DEFINE d == call[w].consumer
<1>1. d \in Consumers /\ grant[d] \in Grant
  BY DEF TypeOK, WorkersOK, FenceId, AccountOK
<1>2. CASE UNCHANGED grant
  BY <1>2 DEF Moves
<1>3. CASE /\ Confirms(call[w])
           /\ grant' = [grant EXCEPT ![d].invalidated = TRUE, ![d].pending = 0]
  <2>1. grant'[d] = [status |-> grant[d].status, version |-> grant[d].version,
                     invalidated |-> TRUE, pending |-> 0]
    BY <1>1, <1>3 DEF TypeOK, AccountOK, Grant
  <2>2. c # d => grant'[c] = grant[c]
    BY <1>3 DEF TypeOK, AccountOK
  <2>3. Settled(d)
    BY <1>3, <2>1 DEF Settled
  <2> QED BY <2>2, <2>3 DEF Moves
<1> QED BY <1>2, <1>3 DEF Complete

LEMMA CommitMoves ==
    ASSUME TypeOK, NEW w \in Workers, UnlinkCommit(w), NEW c \in Consumers
    PROVE  Moves(c)
<1>1. grant[c] \in Grant
  BY DEF TypeOK, AccountOK
<1>2. PICK highest \in Epochs :
        grant' = [d \in Consumers |->
          IF d \in task[w].todo THEN Pending(grant[d], highest + 1) ELSE grant[d]]
  BY DEF UnlinkCommit
<1>3. highest + 1 \in Nat
  BY DEF Epochs, TypeOK, AccountOK
<1>4. CASE c \in task[w].todo
  <2>1. grant'[c] = [status |-> grant[c].status, version |-> grant[c].version,
                     invalidated |-> FALSE, pending |-> Greatest(grant[c].pending, highest + 1)]
    BY <1>1, <1>2, <1>4 DEF Pending, Grant
  <2>2. Greatest(grant[c].pending, highest + 1) >= grant[c].pending
    BY <1>1, <1>3, GreatestTyped DEF Grant
  <2> QED BY <1>4, <2>1, <2>2 DEF Moves, Owing
<1>5. CASE c \notin task[w].todo
  BY <1>2, <1>5 DEF Moves
<1> QED BY <1>4, <1>5

LEMMA RowsMove ==
    ASSUME TypeOK, [Next]_vars, NEW c \in Consumers
    PROVE  Moves(c)
<1>1. CASE UNCHANGED grant
  BY <1>1 DEF Moves
<1>2. ASSUME NEW w \in Workers, GrantRequest(w)
      PROVE  Moves(c)
  BY <1>1, <1>2, UpsertMoves, RevokeMoves DEF GrantRequest, LoadBinding, acVars
<1>3. ASSUME NEW w \in Workers, Propagation(w)
      PROVE  Moves(c)
  BY <1>1, <1>3, CompleteMoves DEF Propagation, Reconcile, ReadGrant, ReadBinding,
     FenceAnswered, FenceUnanswered, acVars
<1>4. ASSUME NEW w \in Workers, Unlinking(w)
      PROVE  Moves(c)
  BY <1>1, <1>4, CommitMoves DEF Unlinking, UnlinkCollect, UnlinkReplay, UnlinkTarget,
     ReadGrant, UnlinkFinish, acVars
<1>5. CASE Platform
  BY <1>1, <1>5 DEF Platform, Deliver, FenceFails, Lose, ReplaceCredential, ProjectGeneration,
     acVars
<1> QED BY <1>1, <1>2, <1>3, <1>4, <1>5 DEF Next, Crash, UnlinkStatus, Link, IssueTicket,
       acVars, vars

-----------------------------------------------------------------------------
\* What one step may do to an unlink operation: admit it, confirm one of its
\* targets, or refresh its state.

Admitted(u) == \E w \in Workers : UnlinkCommit(w) /\ task[w].unlink = u

Confirming(u) ==
    \E w \in Workers :
        /\ Complete(w)
        /\ Confirms(call[w]) \/ AlreadyConfirmed(call[w])
        /\ Covers(call[w], u)
        /\ unlink'[u].confirmed = unlink[u].confirmed \union {call[w].consumer}
        /\ unlink'[u].state = IF unlink[u].targets \subseteq unlink'[u].confirmed
                                THEN "complete" ELSE unlink[u].state

Refreshed(u) ==
    /\ unlink'[u].confirmed = unlink[u].confirmed
    /\ \/ unlink'[u].state = unlink[u].state
       \/ /\ unlink[u].state = "pending" /\ unlink'[u].state = "complete"
          /\ unlink[u].targets \subseteq unlink[u].confirmed

SameUnlink(u) ==
    /\ unlink'[u].bot = unlink[u].bot
    /\ unlink'[u].epoch = unlink[u].epoch
    /\ unlink'[u].targets = unlink[u].targets

Advances(u) == Admitted(u) \/ (SameUnlink(u) /\ (Confirming(u) \/ Refreshed(u)))

LEMMA ConfirmAdvances ==
    ASSUME TypeOK, NEW w \in Workers, Complete(w), NEW u \in Unlinks
    PROVE  Advances(u)
<1>1. CASE unlink'[u] = unlink[u]
  BY <1>1 DEF Advances, SameUnlink, Refreshed
<1>2. CASE unlink'[u] # unlink[u]
  <2>1. Confirms(call[w]) \/ AlreadyConfirmed(call[w])
    BY <1>2 DEF Complete
  <2>2. ConfirmTargets(call[w])
    BY <1>2 DEF Complete
  <2>3. Covers(call[w], u)
    BY <1>2, <2>2 DEF ConfirmTargets
  <2>4. unlink'[u] = LET confirmed == unlink[u].confirmed \union {call[w].consumer}
                     IN [unlink[u] EXCEPT !.confirmed = confirmed,
                           !.state = IF unlink[u].targets \subseteq confirmed
                                       THEN "complete" ELSE @]
    BY <2>2, <2>3 DEF ConfirmTargets
  <2>5. unlink[u] \in Unlink
    BY DEF TypeOK, AccountOK
  <2>6. SameUnlink(u)
    BY <2>4, <2>5 DEF SameUnlink, Unlink
  <2>7. /\ unlink'[u].confirmed = unlink[u].confirmed \union {call[w].consumer}
        /\ unlink'[u].state = IF unlink[u].targets \subseteq unlink'[u].confirmed
                                THEN "complete" ELSE unlink[u].state
    BY <2>4, <2>5 DEF Unlink
  <2>8. Confirming(u)
    BY <2>1, <2>3, <2>7 DEF Confirming
  <2> QED BY <2>6, <2>8 DEF Advances
<1> QED BY <1>1, <1>2

LEMMA RefreshAdvances ==
    ASSUME TypeOK, NEW v \in Unlinks \union {NoUnlink}, Refresh(v), NEW u \in Unlinks
    PROVE  Advances(u)
<1>1. unlink[u] \in Unlink
  BY DEF TypeOK, AccountOK
<1>2. CASE u # v
  BY <1>2 DEF Refresh, TypeOK, AccountOK, Advances, SameUnlink, Refreshed
<1>3. CASE u = v
  <2>1. unlink'[u] = [unlink[u] EXCEPT !.state =
          IF unlink[u].state = "pending" /\ unlink[u].targets \subseteq unlink[u].confirmed
            THEN "complete" ELSE unlink[u].state]
    BY <1>3 DEF Refresh, TypeOK, AccountOK
  <2> QED BY <1>1, <2>1 DEF Advances, SameUnlink, Refreshed, Unlink
<1> QED BY <1>2, <1>3

LEMMA CommitAdvances ==
    ASSUME TypeOK, NEW w \in Workers, UnlinkCommit(w), NEW u \in Unlinks
    PROVE  Advances(u)
<1>1. CASE task[w].unlink = u
  BY <1>1 DEF Advances, Admitted
<1>2. CASE task[w].unlink # u
  <2>1. unlink'[u] = unlink[u]
    BY <1>2 DEF UnlinkCommit, TypeOK, AccountOK
  <2> QED BY <2>1 DEF Advances, SameUnlink, Refreshed
<1> QED BY <1>1, <1>2

LEMMA UnlinksAdvance ==
    ASSUME TypeOK, [Next]_vars, NEW u \in Unlinks
    PROVE  Advances(u)
<1>1. CASE UNCHANGED unlink
  BY <1>1 DEF Advances, SameUnlink, Refreshed
<1>2. ASSUME NEW w \in Workers, GrantRequest(w)
      PROVE  UNCHANGED unlink
  BY <1>2 DEF GrantRequest, LoadBinding, Upsert, Revoke, acVars
<1>3. ASSUME NEW w \in Workers, Propagation(w)
      PROVE  Advances(u)
  BY <1>1, <1>3, ConfirmAdvances DEF Propagation, Reconcile, ReadGrant, ReadBinding,
     FenceAnswered, FenceUnanswered, acVars
<1>4. ASSUME NEW w \in Workers, Unlinking(w)
      PROVE  Advances(u)
  <2>1. task[w].unlink \in Unlinks \union {NoUnlink}
    BY DEF TypeOK, WorkersOK
  <2> QED BY <1>1, <1>4, <2>1, CommitAdvances, RefreshAdvances DEF Unlinking, UnlinkCollect,
         UnlinkReplay, UnlinkTarget, ReadGrant, UnlinkFinish, acVars
<1>5. CASE Platform
  BY <1>1, <1>5 DEF Platform, Deliver, FenceFails, Lose, ReplaceCredential, ProjectGeneration,
     acVars
<1> QED BY <1>1, <1>2, <1>3, <1>4, <1>5, RefreshAdvances DEF Next, Crash, UnlinkStatus, Link,
       IssueTicket, acVars, vars

-----------------------------------------------------------------------------
\* What one step may do to the fences of a consumer.

Raising(c, id) ==
    /\ Deliver(id) /\ id \in net /\ id.consumer = c
    /\ fence'[c] = Raise(fence[c], id)

LEMMA DeliverRaises ==
    ASSUME TypeOK, NEW id \in net, Deliver(id), NEW c \in Consumers
    PROVE  fence'[c] = fence[c] \/ Raising(c, id)
<1>1. id \in FenceId /\ id.consumer \in Consumers
  BY DEF TypeOK, FenceId
<1>2. CASE UNCHANGED fence
  BY <1>2
<1>3. CASE fence' = [fence EXCEPT ![id.consumer] = Raise(@, id)]
  <2>1. c # id.consumer => fence'[c] = fence[c]
    BY <1>3 DEF TypeOK, PlatformOK
  <2>2. c = id.consumer => fence'[c] = Raise(fence[c], id)
    BY <1>3 DEF TypeOK, PlatformOK
  <2> QED BY <2>1, <2>2 DEF Raising
<1> QED BY <1>2, <1>3 DEF Deliver, platformVars

LEMMA OnlyDeliveryApplies ==
    ASSUME [Next]_vars
    PROVE  (\E id \in net : Deliver(id)) \/ UNCHANGED <<fence, applied>>
<1>1. ASSUME NEW w \in Workers, GrantRequest(w) \/ Propagation(w)
      PROVE  UNCHANGED <<fence, applied>>
  BY <1>1 DEF GrantRequest, LoadBinding, Upsert, Revoke, Propagation, Reconcile, ReadGrant,
     ReadBinding, FenceAnswered, FenceUnanswered, Complete, platformVars
<1>2. ASSUME NEW w \in Workers, Unlinking(w) \/ Crash(w)
      PROVE  UNCHANGED <<fence, applied>>
  BY <1>2 DEF Unlinking, UnlinkCollect, UnlinkReplay, UnlinkTarget, ReadGrant, UnlinkFinish,
     UnlinkCommit, Crash, platformVars
<1>3. CASE Platform
  BY <1>3 DEF Platform, FenceFails, Lose, ReplaceCredential, ProjectGeneration, platformVars
<1> QED BY <1>1, <1>2, <1>3 DEF Next, UnlinkStatus, Link, IssueTicket, platformVars, vars

LEMMA RaiseIsGreater ==
    ASSUME TypeOK, NEW c \in Consumers, NEW id \in FenceId
    PROVE  /\ Raise(fence[c], id).version >= fence[c].version
           /\ Raise(fence[c], id).epoch >= fence[c].epoch
           /\ Raise(fence[c], id).version >= id.version
           /\ Raise(fence[c], id).epoch >= id.epoch
<1>1. fence[c] \in [version : Nat, epoch : Nat]
  BY DEF TypeOK, PlatformOK
<1> QED BY <1>1, GreatestTyped DEF Raise, FenceId

\* Minimums never go back.
LEMMA FencesGrow ==
    ASSUME TypeOK, TypeOK', [Next]_vars, NEW c \in Consumers
    PROVE  fence'[c].version >= fence[c].version /\ fence'[c].epoch >= fence[c].epoch
<1>1. CASE fence'[c] = fence[c]
  BY <1>1 DEF TypeOK, PlatformOK
<1>2. ASSUME NEW id \in net, Raising(c, id)
      PROVE  fence'[c].version >= fence[c].version /\ fence'[c].epoch >= fence[c].epoch
  BY <1>2, RaiseIsGreater DEF Raising, TypeOK
<1> QED BY <1>1, <1>2, OnlyDeliveryApplies, DeliverRaises

-----------------------------------------------------------------------------
\* What account-center has recorded is in force.

\* The ledger only says succeeded when the minimums were raised.
FencesRaised ==
    \A id \in applied :
        fence[id.consumer].version >= id.version /\ fence[id.consumer].epoch >= id.epoch

\* A worker has its answer from the ledger, however long it then waits.
AnswersTrue == \A w \in Workers : pc[w] = "fenced" => call[w] \in applied

InForceInv == TypeOK /\ FencesRaised /\ AnswersTrue /\ ConfirmedIsInForce

LEMMA FencesRaisedStep ==
    ASSUME TypeOK, TypeOK', FencesRaised, [Next]_vars
    PROVE  FencesRaised' /\ applied \subseteq applied'
<1>1. CASE UNCHANGED <<fence, applied>>
  BY <1>1 DEF FencesRaised
<1>2. ASSUME NEW new \in net, Deliver(new)
      PROVE  FencesRaised' /\ applied \subseteq applied'
  <2>1. applied \subseteq applied'
    BY <1>2 DEF Deliver, platformVars
  <2>2. ASSUME NEW id \in applied'
        PROVE  /\ fence'[id.consumer].version >= id.version
               /\ fence'[id.consumer].epoch >= id.epoch
    <3>1. id \in FenceId /\ id.consumer \in Consumers
      BY DEF TypeOK, PlatformOK, FenceId
    <3>2. CASE id \in applied
      <4>1. fence[id.consumer].version >= id.version /\ fence[id.consumer].epoch >= id.epoch
        BY <3>2 DEF FencesRaised
      <4>2. /\ fence'[id.consumer].version >= fence[id.consumer].version
            /\ fence'[id.consumer].epoch >= fence[id.consumer].epoch
        BY <3>1, FencesGrow
      <4>3. /\ fence[id.consumer] \in [version : Nat, epoch : Nat]
            /\ fence'[id.consumer] \in [version : Nat, epoch : Nat]
        BY <3>1 DEF TypeOK, PlatformOK
      <4> QED BY <3>1, <4>1, <4>2, <4>3 DEF FenceId
    <3>3. CASE id \notin applied
      <4>1. id = new /\ fence' = [fence EXCEPT ![new.consumer] = Raise(@, new)]
        BY <1>2, <3>3 DEF Deliver, platformVars
      <4>2. fence'[id.consumer] = Raise(fence[id.consumer], id)
        BY <3>1, <4>1 DEF TypeOK, PlatformOK
      <4> QED BY <3>1, <4>2, RaiseIsGreater
    <3> QED BY <3>2, <3>3
  <2> QED BY <2>1, <2>2 DEF FencesRaised
<1> QED BY <1>1, <1>2, OnlyDeliveryApplies

LEMMA AnswersTrueStep ==
    ASSUME TypeOK, AnswersTrue, applied \subseteq applied', [Next]_vars
    PROVE  AnswersTrue'
<1> SUFFICES ASSUME NEW w \in Workers, pc'[w] = "fenced"
             PROVE  call'[w] \in applied'
  BY DEF AnswersTrue
<1>1. CASE pc'[w] = pc[w] /\ call'[w] = call[w]
  BY <1>1 DEF AnswersTrue
<1> USE DEF TypeOK, WorkersOK
<1>2. ASSUME NEW x \in Workers, GrantRequest(x)
      PROVE  call'[w] \in applied'
  BY <1>1, <1>2 DEF GrantRequest, LoadBinding, Upsert, Revoke, Invalidate, Return
<1>3. ASSUME NEW x \in Workers, Propagation(x)
      PROVE  call'[w] \in applied'
  <2>1. CASE \E c \in Consumers : Reconcile(x, c)
    BY <1>1, <2>1 DEF Reconcile, ReadGrant, Return
  <2>2. CASE ReadBinding(x)
    BY <1>1, <2>2 DEF ReadBinding, Invalidate
  <2>3. CASE FenceAnswered(x)
    BY <1>1, <2>3 DEF FenceAnswered, platformVars
  <2>4. CASE FenceUnanswered(x) \/ Complete(x)
    BY <1>1, <2>4 DEF FenceUnanswered, Complete, Return
  <2> QED BY <1>3, <2>1, <2>2, <2>3, <2>4 DEF Propagation
<1>4. ASSUME NEW x \in Workers, Unlinking(x)
      PROVE  call'[w] \in applied'
  BY <1>1, <1>4 DEF Unlinking, UnlinkCollect, UnlinkReplay, UnlinkTarget, ReadGrant, Return,
     UnlinkFinish, UnlinkCommit
<1>5. ASSUME NEW x \in Workers, Crash(x)
      PROVE  call'[w] \in applied'
  BY <1>1, <1>5 DEF Crash
<1>6. CASE Platform
  BY <1>1, <1>6 DEF Platform, Deliver, FenceFails, Lose, ReplaceCredential, ProjectGeneration,
     workerVars
<1> QED BY <1>1, <1>2, <1>3, <1>4, <1>5, <1>6 DEF Next, UnlinkStatus, Link, IssueTicket,
       workerVars, vars

LEMMA InForceStep ==
    ASSUME InForceInv, TypeOK', [Next]_vars
    PROVE  ConfirmedIsInForce'
<1> USE DEF InForceInv
<1>1. ASSUME NEW c \in Consumers
      PROVE  /\ fence'[c] \in [version : Nat, epoch : Nat] /\ fence[c] \in [version : Nat, epoch : Nat]
             /\ fence'[c].version >= fence[c].version /\ fence'[c].epoch >= fence[c].epoch
             /\ grant[c] \in Grant /\ grant'[c] \in Grant
  BY FencesGrow DEF TypeOK, PlatformOK, AccountOK
<1>2. ASSUME NEW w \in Workers, Complete(w)
      PROVE  /\ call[w] \in FenceId /\ call[w].consumer \in Consumers
             /\ fence[call[w].consumer].version >= call[w].version
             /\ fence[call[w].consumer].epoch >= call[w].epoch
  <2>1. call[w] \in applied
    BY <1>2 DEF Complete, AnswersTrue
  <2> QED BY <2>1 DEF FencesRaised, TypeOK, WorkersOK, FenceId
<1>3. ASSUME NEW c \in Consumers, grant'[c].invalidated
      PROVE  fence'[c].version >= grant'[c].version
  <2>1. CASE grant'[c] = grant[c]
    <3>1. fence[c].version >= grant[c].version
      BY <1>3, <2>1 DEF ConfirmedIsInForce
    <3> QED BY <1>1, <2>1, <3>1 DEF Grant
  <2>2. CASE Created(c) \/ Changed(c) \/ Owing(c)
    BY <1>3, <2>2 DEF Created, Changed, Owing
  <2>3. CASE Settled(c)
    <3>1. PICK w \in Workers : Complete(w) /\ Confirms(call[w]) /\ call[w].consumer = c
      BY <2>3 DEF Settled
    <3>2. grant'[c].version = call[w].version
      BY <2>3, <3>1 DEF Settled, Confirms
    <3>3. fence[c].version >= call[w].version
      BY <1>2, <3>1
    <3> QED BY <1>1, <1>2, <3>1, <3>2, <3>3 DEF FenceId
  <2> QED BY <2>1, <2>2, <2>3, RowsMove DEF Moves
<1>4. ASSUME NEW u \in Unlinks, NEW c \in unlink'[u].confirmed
      PROVE  fence'[c].epoch >= unlink'[u].epoch
  <2>1. unlink[u] \in Unlink /\ unlink'[u] \in Unlink /\ c \in Consumers
    BY DEF TypeOK, AccountOK, Unlink
  <2>2. CASE Admitted(u)
    <3>1. unlink'[u].confirmed = {}
      BY <2>2 DEF Admitted, UnlinkCommit, TypeOK, AccountOK
    <3> QED BY <3>1
  <2>3. CASE SameUnlink(u) /\ c \in unlink[u].confirmed
    <3>1. fence[c].epoch >= unlink[u].epoch
      BY <2>3 DEF ConfirmedIsInForce
    <3> QED BY <1>1, <2>1, <2>3, <3>1 DEF SameUnlink, Unlink
  <2>4. CASE SameUnlink(u) /\ Confirming(u) /\ c \notin unlink[u].confirmed
    <3>1. PICK w \in Workers : Complete(w) /\ Covers(call[w], u) /\ c = call[w].consumer
      BY <2>4 DEF Confirming
    <3>2. unlink[u].epoch <= call[w].epoch
      BY <3>1 DEF Covers
    <3>3. fence[c].epoch >= call[w].epoch
      BY <1>2, <3>1
    <3> QED BY <1>1, <1>2, <2>1, <2>4, <3>1, <3>2, <3>3 DEF SameUnlink, Unlink, FenceId
  <2> QED BY <2>2, <2>3, <2>4, UnlinksAdvance DEF Advances, Refreshed
<1> QED BY <1>3, <1>4 DEF ConfirmedIsInForce

LEMMA InitInForce == Init => InForceInv
<1> SUFFICES ASSUME Init PROVE FencesRaised /\ AnswersTrue /\ ConfirmedIsInForce
  BY InitTyped DEF InForceInv
<1>1. FencesRaised
  BY DEF Init, FencesRaised
<1>2. AnswersTrue
  BY DEF Init, AnswersTrue
<1>3. ConfirmedIsInForce
  BY DEF Init, ConfirmedIsInForce
<1> QED BY <1>1, <1>2, <1>3

LEMMA InForceInvStep ==
    ASSUME InForceInv, [Next]_vars
    PROVE  InForceInv'
  BY StepTyped, FencesRaisedStep, AnswersTrueStep, InForceStep DEF InForceInv

\* Whatever account-center records as propagated, a grant version or an
\* unlink's epoch, the fence on platform-mihomo has reached.
THEOREM ConfirmationsAreInForce == Spec => []ConfirmedIsInForce
<1>1. InForceInv => ConfirmedIsInForce
  BY DEF InForceInv
<1> QED BY <1>1, InitInForce, InForceInvStep, PTL DEF Spec

-----------------------------------------------------------------------------
\* What an unlink still waits for is owed.

\* The targets of an unlink, and the grants one is about to take as targets.
TargetsKnown ==
    /\ \A u \in Unlinks : \A c \in unlink[u].targets : Exists(c) /\ unlink[u].epoch > 0
    /\ \A w \in Workers : pc[w] = "collected" => \A c \in task[w].todo : Exists(c)

OwedInv == TypeOK /\ TargetsKnown /\ UnconfirmedIsOwed

LEMMA RowsRemain ==
    ASSUME TypeOK, [Next]_vars, NEW c \in Consumers, Exists(c)
    PROVE  Exists(c)'
  BY RowsMove DEF Moves, Created, Changed, Owing, Settled, Exists

LEMMA StaysCollected ==
    ASSUME TypeOK, [Next]_vars, NEW w \in Workers, pc'[w] = "collected"
    PROVE  \/ pc[w] = "collected" /\ task'[w] = task[w]
           \/ \E u \in Unlinks, b \in Bots : UnlinkCollect(w, u, b)
<1> USE DEF TypeOK, WorkersOK
<1>1. ASSUME NEW x \in Workers, GrantRequest(x)
      PROVE  pc[w] = "collected" /\ task'[w] = task[w]
  BY <1>1 DEF GrantRequest, LoadBinding, Upsert, Revoke, Invalidate, Return
<1>2. ASSUME NEW x \in Workers, Propagation(x)
      PROVE  pc[w] = "collected" /\ task'[w] = task[w]
  BY <1>2 DEF Propagation, Reconcile, ReadGrant, ReadBinding, FenceAnswered, FenceUnanswered,
     Complete, Invalidate, Return
<1>3. ASSUME NEW x \in Workers, UnlinkCommit(x) \/ UnlinkFinish(x)
      PROVE  pc[w] = "collected" /\ task'[w] = task[w]
  BY <1>3 DEF UnlinkCommit, UnlinkFinish
<1>4. ASSUME NEW x \in Workers, NEW u \in Unlinks, UnlinkReplay(x, u)
      PROVE  pc[w] = "collected" /\ task'[w] = task[w]
  BY <1>4 DEF UnlinkReplay
<1>5. ASSUME NEW x \in Workers, NEW c \in Consumers, UnlinkTarget(x, c)
      PROVE  pc[w] = "collected" /\ task'[w] = task[w]
  BY <1>5 DEF UnlinkTarget, ReadGrant, Return
<1>6. ASSUME NEW x \in Workers, NEW u \in Unlinks, NEW b \in Bots, UnlinkCollect(x, u, b)
      PROVE  (pc[w] = "collected" /\ task'[w] = task[w]) \/ x = w
  BY <1>6 DEF UnlinkCollect
<1>7. ASSUME NEW x \in Workers, Crash(x)
      PROVE  pc[w] = "collected" /\ task'[w] = task[w]
  BY <1>7 DEF Crash
<1>8. CASE Platform
  BY <1>8 DEF Platform, Deliver, FenceFails, Lose, ReplaceCredential, ProjectGeneration,
     workerVars
<1> QED BY <1>1, <1>2, <1>3, <1>4, <1>5, <1>6, <1>7, <1>8 DEF Next, Unlinking, UnlinkStatus,
       Link, IssueTicket, workerVars, vars

\* The row an unlink writes when it is admitted.
LEMMA AdmittedRow ==
    ASSUME TypeOK, NEW w \in Workers, UnlinkCommit(w), NEW u \in Unlinks, task[w].unlink = u
    PROVE  \E highest \in Epochs :
             /\ IsHighestEpoch(highest)
             /\ unlink'[u] = [state |-> IF task[w].todo = {} THEN "complete" ELSE "pending",
                              bot |-> task[w].bot, epoch |-> highest + 1,
                              targets |-> task[w].todo, confirmed |-> {}]
             /\ grant' = [c \in Consumers |->
                  IF c \in task[w].todo THEN Pending(grant[c], highest + 1) ELSE grant[c]]
             /\ identity' = [b \in Bots |->
                  [linked |-> identity[b].linked /\ b # task[w].bot,
                   epoch |-> IF identity[b].linked THEN highest + 1 ELSE identity[b].epoch]]
  BY DEF UnlinkCommit, TypeOK, AccountOK

LEMMA EpochsAreNaturals ==
    ASSUME TypeOK
    PROVE  Epochs \subseteq Nat
  BY DEF Epochs, TypeOK, AccountOK

LEMMA TargetsKnownStep ==
    ASSUME TypeOK, TypeOK', TargetsKnown, [Next]_vars
    PROVE  TargetsKnown'
<1>1. ASSUME NEW u \in Unlinks, NEW c \in unlink'[u].targets
      PROVE  Exists(c)' /\ unlink'[u].epoch > 0
  <2>1. c \in Consumers
    BY DEF TypeOK, AccountOK, Unlink
  <2>2. CASE Admitted(u)
    <3>1. PICK w \in Workers : UnlinkCommit(w) /\ task[w].unlink = u
      BY <2>2 DEF Admitted
    <3>2. PICK highest \in Epochs :
            unlink'[u] = [state |-> IF task[w].todo = {} THEN "complete" ELSE "pending",
                          bot |-> task[w].bot, epoch |-> highest + 1,
                          targets |-> task[w].todo, confirmed |-> {}]
      BY <3>1, AdmittedRow
    <3>3. Exists(c)
      BY <3>1, <3>2 DEF TargetsKnown, UnlinkCommit
    <3> QED BY <2>1, <3>2, <3>3, RowsRemain, EpochsAreNaturals
  <2>3. CASE SameUnlink(u)
    BY <2>1, <2>3, RowsRemain DEF SameUnlink, TargetsKnown
  <2> QED BY <2>2, <2>3, UnlinksAdvance DEF Advances
<1>2. ASSUME NEW w \in Workers, pc'[w] = "collected", NEW c \in task'[w].todo
      PROVE  Exists(c)'
  <2>1. c \in Consumers
    BY DEF TypeOK, WorkersOK
  <2>2. CASE pc[w] = "collected" /\ task'[w] = task[w]
    BY <2>1, <2>2, <1>2, RowsRemain DEF TargetsKnown
  <2>3. ASSUME NEW u \in Unlinks, NEW b \in Bots, UnlinkCollect(w, u, b)
        PROVE  Exists(c)'
    <3>1. Exists(c)
      BY <1>2, <2>3 DEF UnlinkCollect, TypeOK, WorkersOK
    <3> QED BY <2>1, <3>1, RowsRemain
  <2> QED BY <1>2, <2>2, <2>3, StaysCollected
<1> QED BY <1>1, <1>2 DEF TargetsKnown

LEMMA OwedStep ==
    ASSUME OwedInv, TypeOK', [Next]_vars
    PROVE  UnconfirmedIsOwed'
<1> USE DEF OwedInv
<1> SUFFICES ASSUME NEW u \in Unlinks, NEW c \in unlink'[u].targets \ unlink'[u].confirmed
             PROVE  /\ unlink'[u].state = "pending"
                    /\ ~grant'[c].invalidated
                    /\ grant'[c].pending >= unlink'[u].epoch
  BY DEF UnconfirmedIsOwed
<1>1. /\ c \in Consumers /\ grant[c] \in Grant /\ grant'[c] \in Grant
      /\ unlink[u] \in Unlink /\ unlink'[u] \in Unlink
  BY DEF TypeOK, AccountOK, Unlink
<1>2. CASE Admitted(u)
  <2>1. PICK w \in Workers : UnlinkCommit(w) /\ task[w].unlink = u
    BY <1>2 DEF Admitted
  <2>2. PICK highest \in Epochs :
          /\ unlink'[u] = [state |-> IF task[w].todo = {} THEN "complete" ELSE "pending",
                           bot |-> task[w].bot, epoch |-> highest + 1,
                           targets |-> task[w].todo, confirmed |-> {}]
          /\ grant' = [d \in Consumers |->
               IF d \in task[w].todo THEN Pending(grant[d], highest + 1) ELSE grant[d]]
    BY <2>1, AdmittedRow
  <2>3. highest + 1 \in Nat
    BY EpochsAreNaturals
  <2>4. c \in task[w].todo
    BY <2>2
  <2>5. grant'[c] = [grant[c] EXCEPT !.pending = Greatest(@, highest + 1), !.invalidated = FALSE]
    BY <1>1, <2>2, <2>4 DEF Pending
  <2>6. ~grant'[c].invalidated /\ grant'[c].pending = Greatest(grant[c].pending, highest + 1)
    BY <1>1, <2>5 DEF Grant
  <2>7. Greatest(grant[c].pending, highest + 1) >= highest + 1
    BY <1>1, <2>3, GreatestTyped DEF Grant
  <2> QED BY <2>2, <2>4, <2>6, <2>7
<1>3. CASE SameUnlink(u) /\ (Confirming(u) \/ Refreshed(u))
  <2>1. c \in unlink[u].targets \ unlink[u].confirmed
    BY <1>3 DEF SameUnlink, Confirming, Refreshed
  <2>2. /\ unlink[u].state = "pending" /\ ~grant[c].invalidated
        /\ grant[c].pending >= unlink[u].epoch
        /\ Exists(c) /\ unlink[u].epoch > 0
    BY <2>1 DEF UnconfirmedIsOwed, TargetsKnown
  <2>3. unlink'[u].state = "pending"
    BY <1>3, <2>1, <2>2 DEF SameUnlink, Confirming, Refreshed
  <2>4. unlink'[u].epoch = unlink[u].epoch
    BY <1>3 DEF SameUnlink
  <2>5. CASE grant'[c] = grant[c] \/ Changed(c) \/ Owing(c)
    BY <1>1, <2>2, <2>3, <2>4, <2>5 DEF Changed, Owing, Grant, Unlink
  <2>6. ~Created(c)
    BY <2>2 DEF Created
  <2>7. ~Settled(c)
    <3> SUFFICES ASSUME NEW w \in Workers, Complete(w), Confirms(call[w]), call[w].consumer = c
                 PROVE  FALSE
      BY DEF Settled
    <3>1. grant[c].pending = call[w].epoch
      BY DEF Confirms
    <3>2. Covers(call[w], u)
      BY <1>1, <2>1, <2>2, <3>1 DEF Covers, Grant, Unlink
    <3>3. ConfirmTargets(call[w])
      BY DEF Complete
    <3>4. unlink'[u] = LET confirmed == unlink[u].confirmed \union {c}
                       IN [unlink[u] EXCEPT !.confirmed = confirmed,
                             !.state = IF unlink[u].targets \subseteq confirmed
                                         THEN "complete" ELSE @]
      BY <3>2, <3>3 DEF ConfirmTargets
    <3>5. c \in unlink'[u].confirmed
      BY <1>1, <3>4 DEF Unlink
    <3> QED BY <3>5
  <2> QED BY <2>3, <2>5, <2>6, <2>7, <1>1, RowsMove DEF Moves
<1> QED BY <1>2, <1>3, UnlinksAdvance DEF Advances

\* No grant request, completion or unlink that runs meanwhile drops a target
\* that an unlink still waits for.
THEOREM UnconfirmedTargetsAreOwed == Spec => []UnconfirmedIsOwed
<1>1. Init => OwedInv
  <2> SUFFICES ASSUME Init PROVE TargetsKnown /\ UnconfirmedIsOwed
    BY InitTyped DEF OwedInv
  <2>1. \A u \in Unlinks : unlink[u].targets = {}
    BY DEF Init
  <2>2. \A w \in Workers : pc[w] = "idle"
    BY DEF Init
  <2> QED BY <2>1, <2>2 DEF TargetsKnown, UnconfirmedIsOwed
<1>2. OwedInv /\ [Next]_vars => OwedInv'
  BY StepTyped, TargetsKnownStep, OwedStep DEF OwedInv
<1>3. OwedInv => UnconfirmedIsOwed
  BY DEF OwedInv
<1> QED BY <1>1, <1>2, <1>3, PTL DEF Spec

-----------------------------------------------------------------------------
\* A propagated revocation refuses every ticket.

\* A ticket names a version its grant has had while it was active.
TicketsKnown ==
    \A t \in tickets :
        /\ Exists(t.consumer)
        /\ t.version <= grant[t.consumer].version
        /\ grant[t.consumer].status = "revoked" => t.version < grant[t.consumer].version

RevokedInv == InForceInv /\ TicketsKnown

LEMMA OnlyIssueAddsTickets ==
    ASSUME [Next]_vars
    PROVE  (\E c \in Consumers : IssueTicket(c)) \/ UNCHANGED tickets
<1>1. ASSUME NEW w \in Workers, GrantRequest(w) \/ Propagation(w)
      PROVE  UNCHANGED tickets
  BY <1>1 DEF GrantRequest, LoadBinding, Upsert, Revoke, Propagation, Reconcile, ReadGrant,
     ReadBinding, FenceAnswered, FenceUnanswered, Complete
<1>2. ASSUME NEW w \in Workers, Unlinking(w) \/ Crash(w)
      PROVE  UNCHANGED tickets
  BY <1>2 DEF Unlinking, UnlinkCollect, UnlinkReplay, UnlinkTarget, ReadGrant, UnlinkFinish,
     UnlinkCommit, Crash
<1>3. CASE Platform
  BY <1>3 DEF Platform, Deliver, FenceFails, Lose, ReplaceCredential, ProjectGeneration
<1> QED BY <1>1, <1>2, <1>3 DEF Next, UnlinkStatus, Link, vars

\* A revoked row becomes active, or an active one revoked, at a new version only.
LEMMA StatusNeedsVersion ==
    ASSUME TypeOK, TypeOK', [Next]_vars, NEW c \in Consumers, Exists(c)
    PROVE  /\ grant'[c].version >= grant[c].version
           /\ grant'[c].status = grant[c].status \/ grant'[c].version > grant[c].version
  BY RowsMove DEF Moves, Created, Changed, Owing, Settled, TypeOK, AccountOK, Grant

LEMMA TicketsKnownStep ==
    ASSUME TypeOK, TypeOK', TicketsKnown, [Next]_vars
    PROVE  TicketsKnown'
<1> SUFFICES ASSUME NEW t \in tickets'
             PROVE  /\ Exists(t.consumer)'
                    /\ t.version <= grant'[t.consumer].version
                    /\ grant'[t.consumer].status = "revoked"
                         => t.version < grant'[t.consumer].version
  BY DEF TicketsKnown, Exists
<1>1. t \in Ticket /\ t.consumer \in Consumers
  BY DEF TypeOK, Ticket
<1>2. grant[t.consumer] \in Grant /\ grant'[t.consumer] \in Grant
  BY <1>1 DEF TypeOK, AccountOK
<1>3. CASE t \in tickets
  <2>1. /\ Exists(t.consumer) /\ t.version <= grant[t.consumer].version
        /\ grant[t.consumer].status = "revoked" => t.version < grant[t.consumer].version
    BY <1>3 DEF TicketsKnown
  <2>2. Exists(t.consumer)'
    BY <1>1, <2>1, RowsRemain
  <2>3. /\ grant'[t.consumer].version >= grant[t.consumer].version
        /\ \/ grant'[t.consumer].status = grant[t.consumer].status
           \/ grant'[t.consumer].version > grant[t.consumer].version
    BY <1>1, <2>1, StatusNeedsVersion
  <2> QED BY <1>1, <1>2, <2>1, <2>2, <2>3 DEF Ticket, Grant
<1>4. CASE t \notin tickets
  <2>1. PICK c \in Consumers : IssueTicket(c)
    BY <1>4, OnlyIssueAddsTickets
  <2>2. t.consumer = c /\ t.version = grant[c].version
    BY <1>4, <2>1 DEF IssueTicket
  <2>3. grant[c].status = "active" /\ grant' = grant
    BY <2>1 DEF IssueTicket, acVars
  <2> QED BY <1>1, <1>2, <2>2, <2>3 DEF Exists, Grant
<1> QED BY <1>3, <1>4

\* Once the revocation of a grant is recorded as propagated, no ticket ever
\* issued for it is accepted.
THEOREM RevocationsHold == Spec => []RevokedIsRefused
<1>1. Init => RevokedInv
  BY InitInForce DEF Init, RevokedInv, TicketsKnown
<1>2. RevokedInv /\ [Next]_vars => RevokedInv'
  BY InForceInvStep, TicketsKnownStep DEF RevokedInv, InForceInv
<1>3. RevokedInv => RevokedIsRefused
  <2> SUFFICES ASSUME RevokedInv, NEW t \in tickets, grant[t.consumer].status = "revoked",
                      grant[t.consumer].invalidated
               PROVE  ~Accepted(t)
    BY DEF RevokedIsRefused
  <2>1. t \in Ticket /\ t.consumer \in Consumers
    BY DEF RevokedInv, InForceInv, TypeOK, Ticket
  <2>2. t.version < grant[t.consumer].version
    BY DEF RevokedInv, TicketsKnown
  <2>3. fence[t.consumer].version >= grant[t.consumer].version
    BY <2>1 DEF RevokedInv, InForceInv, ConfirmedIsInForce
  <2>4. /\ fence[t.consumer] \in [version : Nat, epoch : Nat]
        /\ grant[t.consumer] \in Grant
    BY <2>1 DEF RevokedInv, InForceInv, TypeOK, PlatformOK, AccountOK
  <2> QED BY <2>1, <2>2, <2>3, <2>4 DEF Accepted, Ticket, Grant
<1> QED BY <1>1, <1>2, <1>3, PTL DEF Spec

-----------------------------------------------------------------------------
\* The fences never lock a grant or an identity out.

\* No identity or anything owed or sent is above an epoch an identity has had.
Reached(e) == e = 0 \/ \E b \in Bots : e <= identity[b].epoch

WillBeReached(e) == e = 0 \/ \E b \in Bots : e <= identity'[b].epoch

Sent == net \union {call[w] : w \in Workers}

VersionsKnown ==
    /\ \A id \in Sent : id.version <= grant[id.consumer].version
    /\ \A c \in Consumers : fence[c].version <= grant[c].version
    /\ \A c \in Consumers : Exists(c) \/ grant[c].version = 0

EpochsKnown ==
    /\ \A c \in Consumers : Reached(grant[c].pending) /\ Reached(fence[c].epoch)
    /\ \A id \in Sent : Reached(id.epoch)

\* Every linked identity is at the user's highest epoch.
LinkedIsHighest ==
    \A b \in Bots : identity[b].epoch > 0 /\ (identity[b].linked => IsHighestEpoch(identity[b].epoch))

\* The lock on the user's row: one unlink at a time, of an identity that is
\* still linked.
LockHeld ==
    /\ \A w \in Workers : pc[w] = "collected" => identity[task[w].bot].linked
    /\ \A w, x \in Workers : pc[w] = "collected" /\ pc[x] = "collected" => w = x

LockoutInv == TypeOK /\ VersionsKnown /\ EpochsKnown /\ LinkedIsHighest /\ LockHeld

LEMMA OnlyUnlinkAndLinkIdentities ==
    ASSUME [Next]_vars
    PROVE  (\E w \in Workers : UnlinkCommit(w)) \/ (\E b \in Bots : Link(b)) \/ UNCHANGED identity
<1>1. ASSUME NEW w \in Workers, GrantRequest(w) \/ Propagation(w)
      PROVE  UNCHANGED identity
  BY <1>1 DEF GrantRequest, LoadBinding, Upsert, Revoke, Propagation, Reconcile, ReadGrant,
     ReadBinding, FenceAnswered, FenceUnanswered, Complete, acVars
<1>2. ASSUME NEW w \in Workers, Unlinking(w) \/ Crash(w)
      PROVE  UnlinkCommit(w) \/ UNCHANGED identity
  BY <1>2 DEF Unlinking, UnlinkCollect, UnlinkReplay, UnlinkTarget, ReadGrant, UnlinkFinish,
     Crash, acVars
<1>3. CASE Platform
  BY <1>3 DEF Platform, Deliver, FenceFails, Lose, ReplaceCredential, ProjectGeneration, acVars
<1> QED BY <1>1, <1>2, <1>3 DEF Next, UnlinkStatus, IssueTicket, acVars, vars

LEMMA HighestIsReached ==
    ASSUME TypeOK, NEW e \in Epochs, IsHighestEpoch(e), NEW b \in Bots
    PROVE  e \in Nat /\ identity[b].epoch <= e
  BY EpochsAreNaturals DEF IsHighestEpoch

LEMMA EpochsGrow ==
    ASSUME TypeOK, TypeOK', [Next]_vars, NEW b \in Bots
    PROVE  identity'[b].epoch >= identity[b].epoch
<1>1. identity[b] \in [linked : BOOLEAN, epoch : Nat]
  BY DEF TypeOK, AccountOK
<1>2. ASSUME NEW w \in Workers, UnlinkCommit(w)
      PROVE  identity'[b].epoch >= identity[b].epoch
  <2>1. PICK highest \in Epochs :
          /\ IsHighestEpoch(highest)
          /\ identity' = [d \in Bots |->
               [linked |-> identity[d].linked /\ d # task[w].bot,
                epoch |-> IF identity[d].linked THEN highest + 1 ELSE identity[d].epoch]]
    BY <1>2 DEF UnlinkCommit
  <2> QED BY <1>1, <2>1, HighestIsReached
<1>3. ASSUME NEW d \in Bots, Link(d)
      PROVE  identity'[b].epoch >= identity[b].epoch
  <2>1. PICK highest \in Epochs :
          /\ IsHighestEpoch(highest)
          /\ identity' = [identity EXCEPT ![d] = [linked |-> TRUE, epoch |-> highest]]
    BY <1>3 DEF Link
  <2> QED BY <1>1, <2>1, HighestIsReached DEF TypeOK, AccountOK
<1> QED BY <1>1, <1>2, <1>3, OnlyUnlinkAndLinkIdentities

LEMMA ReachedStays ==
    ASSUME TypeOK, TypeOK', [Next]_vars, NEW e \in Nat, Reached(e)
    PROVE  WillBeReached(e)
<1>1. \A b \in Bots : identity[b].epoch \in Nat /\ identity'[b].epoch \in Nat
  BY DEF TypeOK, AccountOK
<1> QED BY <1>1, EpochsGrow DEF Reached, WillBeReached

\* Every request sent and every call begun was so before, is blank, or names
\* the version and epoch of a grant row.
Old(id) ==
    \E o \in Sent : o.consumer = id.consumer /\ o.version = id.version /\ o.epoch = id.epoch

Blank(id) == id.version = 0 /\ id.epoch = 0

OfRow(id) ==
    /\ id.version = grant'[id.consumer].version
    /\ id.epoch = grant'[id.consumer].pending

Known(id) == Old(id) \/ Blank(id) \/ OfRow(id)

LEMMA ReturnSends ==
    ASSUME TypeOK, NEW w \in Workers, Return(w) \/ call' = [call EXCEPT ![w] = NoCall],
           net' \subseteq net, NEW id \in Sent'
    PROVE  Known(id)
<1>1. id \in Sent \/ id = NoCall
  BY DEF Return, Sent, TypeOK, WorkersOK
<1>2. Blank(NoCall)
  BY DEF Blank, NoCall, Fence
<1> QED BY <1>1, <1>2 DEF Known, Old

LEMMA InvalidateSends ==
    ASSUME TypeOK, NEW w \in Workers, NEW new, Known(new), Invalidate(w, new), NEW id \in Sent'
    PROVE  Known(id)
<1>1. id = new \/ id \in Sent
  BY DEF Invalidate, Sent, TypeOK, WorkersOK
<1> QED BY <1>1 DEF Known, Old

LEMMA ReadGrantSends ==
    ASSUME TypeOK, NEW w \in Workers, NEW c \in Consumers, ReadGrant(w, c), NEW id \in Sent'
    PROVE  Known(id)
<1>1. net' = net /\ grant' = grant
  BY DEF ReadGrant, acVars
<1>2. CASE call' = [call EXCEPT ![w] = Fence(c, 0, grant[c].version, grant[c].pending)]
  <2>1. id \in Sent \/ id = Fence(c, 0, grant[c].version, grant[c].pending)
    BY <1>1, <1>2 DEF Sent, TypeOK, WorkersOK
  <2> QED BY <1>1, <2>1 DEF Known, Old, OfRow, Fence
<1> QED BY <1>1, <1>2, ReturnSends DEF ReadGrant

LEMMA UpsertSends ==
    ASSUME TypeOK, NEW w \in Workers, Upsert(w), NEW id \in Sent'
    PROVE  Known(id)
<1> DEFINE c == call[w].consumer
           g == grant[c]
<1>1. c \in Consumers /\ g \in Grant
  BY DEF TypeOK, WorkersOK, FenceId, AccountOK
<1>2. CASE Return(w) /\ UNCHANGED net
  BY <1>2, ReturnSends
<1>3. ASSUME NEW version, NEW confirmed,
             grant' = [grant EXCEPT ![c].status = "active", ![c].version = version,
                                    ![c].invalidated = confirmed],
             Invalidate(w, Fence(c, call[w].gen, version, g.pending))
      PROVE  Known(id)
  <2>1. grant'[c].version = version /\ grant'[c].pending = g.pending
    BY <1>1, <1>3 DEF TypeOK, AccountOK, Grant
  <2>2. Known(Fence(c, call[w].gen, version, g.pending))
    BY <2>1 DEF Known, OfRow, Fence
  <2> QED BY <1>3, <2>2, InvalidateSends
<1> QED BY <1>2, <1>3 DEF Upsert

LEMMA RevokeSends ==
    ASSUME TypeOK, NEW w \in Workers, Revoke(w), NEW id \in Sent'
    PROVE  Known(id)
<1> DEFINE c == call[w].consumer
           g == grant[c]
<1>1. c \in Consumers /\ g \in Grant
  BY DEF TypeOK, WorkersOK, FenceId, AccountOK
<1>2. CASE Return(w) /\ UNCHANGED net
  BY <1>2, ReturnSends
<1>3. CASE /\ CreateGrant(w, c, "revoked")
           /\ Invalidate(w, Fence(c, call[w].gen, 1, 0))
  <2>1. grant'[c].version = 1 /\ grant'[c].pending = 0
    BY <1>1, <1>3 DEF CreateGrant, TypeOK, AccountOK
  <2>2. Known(Fence(c, call[w].gen, 1, 0))
    BY <2>1 DEF Known, OfRow, Fence
  <2> QED BY <1>3, <2>2, InvalidateSends
<1>4. CASE UNCHANGED grant /\ Invalidate(w, Fence(c, call[w].gen, g.version, g.pending))
  <2>1. Known(Fence(c, call[w].gen, g.version, g.pending))
    BY <1>4 DEF Known, OfRow, Fence
  <2> QED BY <1>4, <2>1, InvalidateSends
<1>5. CASE /\ grant' = [grant EXCEPT ![c].status = "revoked", ![c].version = @ + 1,
                                     ![c].invalidated = FALSE]
           /\ Invalidate(w, Fence(c, call[w].gen, g.version + 1, g.pending))
  <2>1. grant'[c].version = g.version + 1 /\ grant'[c].pending = g.pending
    BY <1>1, <1>5 DEF TypeOK, AccountOK, Grant
  <2>2. Known(Fence(c, call[w].gen, g.version + 1, g.pending))
    BY <2>1 DEF Known, OfRow, Fence
  <2> QED BY <1>5, <2>2, InvalidateSends
<1> QED BY <1>2, <1>3, <1>4, <1>5 DEF Revoke

LEMMA SentIsKnown ==
    ASSUME TypeOK, [Next]_vars, NEW id \in Sent'
    PROVE  Known(id)
<1>1. CASE call' = call /\ net' \subseteq net
  BY <1>1 DEF Sent, Known, Old
<1>2. ASSUME NEW w \in Workers, GrantRequest(w)
      PROVE  Known(id)
  <2>1. ASSUME NEW c \in Consumers, NEW step, LoadBinding(w, c, step)
        PROVE  Known(id)
    <3>1. id \in Sent \/ id = Fence(c, generation, 0, 0)
      BY <2>1 DEF LoadBinding, Sent, TypeOK, WorkersOK
    <3> QED BY <3>1 DEF Known, Old, Blank, Fence
  <2> QED BY <1>2, <2>1, UpsertSends, RevokeSends DEF GrantRequest
<1>3. ASSUME NEW w \in Workers, Propagation(w)
      PROVE  Known(id)
  <2>1. CASE ReadBinding(w)
    <3>1. Known([call[w] EXCEPT !.gen = generation])
      <4>1. call[w] \in FenceId /\ call[w] \in Sent
        BY DEF TypeOK, WorkersOK, Sent
      <4> QED BY <4>1 DEF Known, Old, FenceId
    <3> QED BY <2>1, <3>1, InvalidateSends DEF ReadBinding
  <2>2. CASE FenceUnanswered(w) \/ Complete(w)
    BY <2>2, ReturnSends DEF FenceUnanswered, Complete
  <2> QED BY <1>1, <1>3, <2>1, <2>2, ReadGrantSends DEF Propagation, Reconcile, FenceAnswered
<1>4. ASSUME NEW w \in Workers, Unlinking(w)
      PROVE  Known(id)
  BY <1>1, <1>4, ReadGrantSends DEF Unlinking, UnlinkCollect, UnlinkReplay, UnlinkTarget,
     UnlinkFinish, UnlinkCommit
<1>5. ASSUME NEW w \in Workers, Crash(w)
      PROVE  Known(id)
  BY <1>5, ReturnSends DEF Crash
<1>6. CASE Platform
  BY <1>1, <1>6 DEF Platform, Deliver, FenceFails, Lose, ReplaceCredential, ProjectGeneration,
     workerVars
<1> QED BY <1>1, <1>2, <1>3, <1>4, <1>5, <1>6 DEF Next, UnlinkStatus, Link, IssueTicket,
       workerVars, vars

LEMMA SentTyped ==
    ASSUME TypeOK, NEW id \in Sent
    PROVE  id \in FenceId /\ id.consumer \in Consumers
  BY DEF Sent, TypeOK, WorkersOK, FenceId

LEMMA VersionsGrow ==
    ASSUME TypeOK, TypeOK', VersionsKnown, [Next]_vars, NEW c \in Consumers
    PROVE  /\ grant'[c].version >= grant[c].version
           /\ Exists(c)' \/ grant'[c].version = 0
<1>1. grant[c] \in Grant /\ grant'[c] \in Grant
  BY DEF TypeOK, AccountOK
<1>2. Exists(c) \/ grant[c].version = 0
  BY DEF VersionsKnown
<1> QED BY <1>1, <1>2, RowsMove DEF Moves, Created, Changed, Owing, Settled, Exists, Grant

LEMMA VersionsKnownStep ==
    ASSUME TypeOK, TypeOK', VersionsKnown, [Next]_vars
    PROVE  VersionsKnown'
<1>1. ASSUME NEW id \in Sent'
      PROVE  id.version <= grant'[id.consumer].version
  <2>1. id \in FenceId /\ id.consumer \in Consumers
    BY DEF Sent, TypeOK, WorkersOK, FenceId
  <2>2. grant[id.consumer] \in Grant /\ grant'[id.consumer] \in Grant
    BY <2>1 DEF TypeOK, AccountOK
  <2>3. CASE Old(id)
    <3>1. id.version <= grant[id.consumer].version
      BY <2>3 DEF Old, VersionsKnown
    <3>2. grant'[id.consumer].version >= grant[id.consumer].version
      BY <2>1, VersionsGrow
    <3> QED BY <2>1, <2>2, <3>1, <3>2 DEF Grant, FenceId
  <2>4. CASE Blank(id) \/ OfRow(id)
    BY <2>2, <2>4 DEF Blank, OfRow, Grant
  <2> QED BY <2>3, <2>4, SentIsKnown DEF Known
<1>2. ASSUME NEW c \in Consumers
      PROVE  fence'[c].version <= grant'[c].version
  <2>1. /\ grant[c] \in Grant /\ grant'[c] \in Grant
        /\ fence[c] \in [version : Nat, epoch : Nat]
        /\ fence'[c] \in [version : Nat, epoch : Nat]
    BY DEF TypeOK, AccountOK, PlatformOK
  <2>2. grant'[c].version >= grant[c].version /\ fence[c].version <= grant[c].version
    BY VersionsGrow DEF VersionsKnown
  <2>3. CASE fence'[c] = fence[c]
    BY <2>1, <2>2, <2>3 DEF Grant
  <2>4. ASSUME NEW id \in net, Raising(c, id)
        PROVE  fence'[c].version <= grant'[c].version
    <3>1. id \in FenceId /\ id.version <= grant[c].version
      BY <2>4, SentTyped DEF Raising, VersionsKnown, Sent
    <3>2. fence'[c].version = Greatest(fence[c].version, id.version)
      BY <2>4 DEF Raising, Raise
    <3> QED BY <2>1, <2>2, <3>1, <3>2 DEF Greatest, Grant, FenceId
  <2> QED BY <2>3, <2>4, OnlyDeliveryApplies, DeliverRaises
<1> QED BY <1>1, <1>2, VersionsGrow DEF VersionsKnown

\* The epoch an unlink introduces is reached as it is introduced: the identity
\* it deletes is one of those that move to it.
LEMMA CommitReaches ==
    ASSUME TypeOK, LockHeld, NEW w \in Workers, UnlinkCommit(w)
    PROVE  \E highest \in Epochs :
             /\ IsHighestEpoch(highest)
             /\ identity'[task[w].bot].epoch = highest + 1
             /\ \A c \in Consumers : grant'[c] =
                  IF c \in task[w].todo THEN Pending(grant[c], highest + 1) ELSE grant[c]
<1>1. PICK highest \in Epochs :
        /\ IsHighestEpoch(highest)
        /\ identity' = [b \in Bots |->
             [linked |-> identity[b].linked /\ b # task[w].bot,
              epoch |-> IF identity[b].linked THEN highest + 1 ELSE identity[b].epoch]]
        /\ grant' = [c \in Consumers |->
             IF c \in task[w].todo THEN Pending(grant[c], highest + 1) ELSE grant[c]]
  BY DEF UnlinkCommit
<1>2. task[w].bot \in Bots /\ identity[task[w].bot].linked
  BY DEF LockHeld, UnlinkCommit, TypeOK, WorkersOK
<1>3. identity'[task[w].bot].epoch = highest + 1
  BY <1>1, <1>2
<1> QED BY <1>1, <1>3

LEMMA PendingReached ==
    ASSUME TypeOK, TypeOK', EpochsKnown, LockHeld, [Next]_vars, NEW c \in Consumers
    PROVE  WillBeReached(grant'[c].pending)
<1>1. grant[c] \in Grant /\ grant'[c] \in Grant
  BY DEF TypeOK, AccountOK
<1>2. WillBeReached(grant[c].pending)
  BY <1>1, ReachedStays DEF EpochsKnown, Grant
<1>3. CASE Owing(c)
  <2>1. PICK w \in Workers : UnlinkCommit(w)
    BY <1>3 DEF Owing
  <2>2. PICK highest \in Epochs :
          /\ identity'[task[w].bot].epoch = highest + 1
          /\ grant'[c] =
               IF c \in task[w].todo THEN Pending(grant[c], highest + 1) ELSE grant[c]
    BY <2>1, CommitReaches
  <2>3. task[w].bot \in Bots /\ highest + 1 \in Nat
    BY EpochsAreNaturals DEF TypeOK, WorkersOK
  <2>4. WillBeReached(highest + 1)
    BY <2>2, <2>3 DEF WillBeReached
  <2>5. CASE c \in task[w].todo
    <3>1. grant'[c].pending = Greatest(grant[c].pending, highest + 1)
      BY <1>1, <2>2, <2>5 DEF Pending, Grant
    <3> QED BY <1>2, <2>4, <3>1 DEF Greatest
  <2>6. CASE c \notin task[w].todo
    BY <1>2, <2>2, <2>6
  <2> QED BY <2>5, <2>6
<1>4. CASE ~Owing(c)
  <2>1. grant'[c].pending = grant[c].pending \/ grant'[c].pending = 0
    BY <1>4, RowsMove DEF Moves, Created, Changed, Settled
  <2> QED BY <1>2, <2>1 DEF WillBeReached
<1> QED BY <1>3, <1>4

LEMMA EpochsKnownStep ==
    ASSUME TypeOK, TypeOK', EpochsKnown, LockHeld, [Next]_vars
    PROVE  EpochsKnown'
<1>1. ASSUME NEW id \in Sent'
      PROVE  WillBeReached(id.epoch)
  <2>1. id \in FenceId /\ id.consumer \in Consumers
    BY DEF Sent, TypeOK, WorkersOK, FenceId
  <2>2. CASE Old(id)
    <3>1. Reached(id.epoch)
      BY <2>2 DEF Old, EpochsKnown
    <3> QED BY <2>1, <3>1, ReachedStays DEF FenceId
  <2>3. CASE Blank(id)
    BY <2>3 DEF Blank, WillBeReached
  <2>4. CASE OfRow(id)
    BY <2>1, <2>4, PendingReached DEF OfRow
  <2> QED BY <2>2, <2>3, <2>4, SentIsKnown DEF Known
<1>2. ASSUME NEW c \in Consumers
      PROVE  WillBeReached(fence'[c].epoch)
  <2>1. fence[c] \in [version : Nat, epoch : Nat] /\ Reached(fence[c].epoch)
    BY DEF EpochsKnown, TypeOK, PlatformOK
  <2>2. WillBeReached(fence[c].epoch)
    BY <2>1, ReachedStays
  <2>3. ASSUME NEW id \in net, Raising(c, id)
        PROVE  WillBeReached(fence'[c].epoch)
    <3>1. id \in FenceId /\ Reached(id.epoch)
      BY SentTyped DEF EpochsKnown, Sent
    <3>2. WillBeReached(id.epoch)
      BY <3>1, ReachedStays DEF FenceId
    <3>3. fence'[c].epoch = Greatest(fence[c].epoch, id.epoch)
      BY <2>3 DEF Raising, Raise
    <3> QED BY <2>2, <3>2, <3>3 DEF Greatest
  <2> QED BY <2>2, <2>3, OnlyDeliveryApplies, DeliverRaises
<1> QED BY <1>1, <1>2, PendingReached DEF EpochsKnown, Reached, WillBeReached

LEMMA LinkedIsHighestStep ==
    ASSUME TypeOK, TypeOK', LinkedIsHighest, [Next]_vars
    PROVE  LinkedIsHighest'
<1>1. \A b \in Bots : identity[b] \in [linked : BOOLEAN, epoch : Nat]
  BY DEF TypeOK, AccountOK
<1>2. ASSUME NEW w \in Workers, UnlinkCommit(w)
      PROVE  LinkedIsHighest'
  <2>1. PICK highest \in Epochs :
          /\ IsHighestEpoch(highest)
          /\ identity' = [b \in Bots |->
               [linked |-> identity[b].linked /\ b # task[w].bot,
                epoch |-> IF identity[b].linked THEN highest + 1 ELSE identity[b].epoch]]
    BY <1>2 DEF UnlinkCommit
  <2>2. \A b \in Bots : highest \in Nat /\ identity[b].epoch <= highest /\ identity[b].epoch > 0
    BY <2>1, HighestIsReached DEF LinkedIsHighest
  <2>3. \A b \in Bots : identity'[b].epoch <= highest + 1 /\ identity'[b].epoch > 0
    BY <1>1, <2>1, <2>2
  <2>4. \A b \in Bots : identity'[b].linked => identity'[b].epoch = highest + 1
    BY <2>1
  <2> QED BY <2>3, <2>4 DEF LinkedIsHighest, IsHighestEpoch
<1>3. ASSUME NEW d \in Bots, Link(d)
      PROVE  LinkedIsHighest'
  <2>1. PICK highest \in Epochs :
          /\ IsHighestEpoch(highest)
          /\ identity' = [identity EXCEPT ![d] = [linked |-> TRUE, epoch |-> highest]]
    BY <1>3 DEF Link
  <2>2. highest \in Nat /\ highest > 0
    BY <2>1, EpochsAreNaturals DEF Epochs, LinkedIsHighest
  <2>3. \A b \in Bots : identity[b].linked => identity[b].epoch = highest
    <3> SUFFICES ASSUME NEW b \in Bots, identity[b].linked
                 PROVE  identity[b].epoch = highest
      OBVIOUS
    <3>1. identity[b].epoch <= highest
      BY <2>1, HighestIsReached
    <3>2. highest <= identity[b].epoch
      BY <1>1, <2>2 DEF Epochs, LinkedIsHighest, IsHighestEpoch
    <3> QED BY <1>1, <2>2, <3>1, <3>2
  <2>4. \A b \in Bots : identity'[b].epoch <= highest /\ identity'[b].epoch > 0
    BY <1>1, <2>1, <2>2, HighestIsReached DEF LinkedIsHighest, TypeOK, AccountOK
  <2>5. \A b \in Bots : identity'[b].linked => identity'[b].epoch = highest
    BY <2>1, <2>3 DEF TypeOK, AccountOK
  <2> QED BY <2>4, <2>5 DEF LinkedIsHighest, IsHighestEpoch
<1>4. CASE UNCHANGED identity
  BY <1>4 DEF LinkedIsHighest, IsHighestEpoch
<1> QED BY <1>2, <1>3, <1>4, OnlyUnlinkAndLinkIdentities

LEMMA CommitUnlocks ==
    ASSUME TypeOK, LockHeld, NEW x \in Workers, UnlinkCommit(x), NEW w \in Workers
    PROVE  pc'[w] # "collected"
  BY DEF UnlinkCommit, LockHeld, TypeOK, WorkersOK

LEMMA LockHeldStep ==
    ASSUME TypeOK, TypeOK', LockHeld, [Next]_vars
    PROVE  LockHeld'
<1>1. ASSUME NEW w \in Workers, pc'[w] = "collected"
      PROVE  identity'[task'[w].bot].linked
  <2>1. CASE pc[w] = "collected" /\ task'[w] = task[w]
    <3>1. task[w].bot \in Bots /\ identity[task[w].bot].linked
      BY <2>1 DEF LockHeld, TypeOK, WorkersOK
    <3>2. ASSUME NEW d \in Bots, Link(d)
          PROVE  identity'[task[w].bot].linked
      BY <3>1, <3>2 DEF Link, TypeOK, AccountOK
    <3> QED BY <1>1, <2>1, <3>1, <3>2, CommitUnlocks, OnlyUnlinkAndLinkIdentities
  <2>2. ASSUME NEW u \in Unlinks, NEW b \in Bots, UnlinkCollect(w, u, b)
        PROVE  identity'[task'[w].bot].linked
    BY <2>2 DEF UnlinkCollect, acVars, TypeOK, WorkersOK
  <2> QED BY <1>1, <2>1, <2>2, StaysCollected
<1>2. ASSUME NEW w \in Workers, NEW x \in Workers, pc'[w] = "collected", pc'[x] = "collected",
             w # x
      PROVE  FALSE
  <2>1. CASE pc[w] = "collected" /\ pc[x] = "collected"
    BY <1>2, <2>1 DEF LockHeld
  <2>2. ASSUME NEW y \in {w, x}, NEW u \in Unlinks, NEW b \in Bots, UnlinkCollect(y, u, b)
        PROVE  FALSE
    <3>1. ~UserLocked /\ pc' = [pc EXCEPT ![y] = "collected"]
      BY <2>2 DEF UnlinkCollect
    <3> QED BY <1>2, <3>1 DEF UserLocked, TypeOK, WorkersOK
  <2> QED BY <1>2, <2>1, <2>2, StaysCollected
<1> QED BY <1>1, <1>2 DEF LockHeld

LEMMA LockoutStep ==
    ASSUME LockoutInv, [Next]_vars
    PROVE  LockoutInv'
  BY StepTyped, VersionsKnownStep, EpochsKnownStep, LinkedIsHighestStep, LockHeldStep
     DEF LockoutInv

LEMMA LockoutInit == Init => LockoutInv
<1> SUFFICES ASSUME Init PROVE LockoutInv
  OBVIOUS
<1>1. \A id \in Sent : id.version = 0 /\ id.epoch = 0
  BY DEF Init, Sent, NoCall, Fence
<1>2. VersionsKnown
  <2>1. \A c \in Consumers : grant[c].version = 0 /\ fence[c].version = 0
    BY DEF Init
  <2>2. \A id \in Sent : id.consumer \in Consumers
    BY InitTyped, SentTyped
  <2> QED BY <1>1, <2>1, <2>2 DEF VersionsKnown
<1>3. EpochsKnown
  BY <1>1 DEF Init, EpochsKnown, Reached
<1>4. LinkedIsHighest
  BY DEF Init, LinkedIsHighest, IsHighestEpoch
<1>5. LockHeld
  BY DEF Init, LockHeld
<1> QED BY <1>2, <1>3, <1>4, <1>5, InitTyped DEF LockoutInv

\* No late, repeated or newer fence refuses what account-center would issue
\* for an active grant of a linked identity.
THEOREM FencesLockNothingOut == Spec => []NoLockout
<1>1. LockoutInv => NoLockout
  <2> SUFFICES ASSUME LockoutInv, NEW c \in Consumers
               PROVE  /\ fence[c].version <= grant[c].version
                      /\ identity[BotOf[c]].linked => fence[c].epoch <= identity[BotOf[c]].epoch
    BY DEF NoLockout
  <2>1. fence[c].version <= grant[c].version
    BY DEF LockoutInv, VersionsKnown
  <2>2. ASSUME identity[BotOf[c]].linked
        PROVE  fence[c].epoch <= identity[BotOf[c]].epoch
    <3>1. BotOf[c] \in Bots /\ IsHighestEpoch(identity[BotOf[c]].epoch)
      BY <2>2, BotOfAssumption DEF LockoutInv, LinkedIsHighest
    <3>2. Reached(fence[c].epoch)
      BY DEF LockoutInv, EpochsKnown
    <3>3. fence[c].epoch \in Nat /\ \A b \in Bots : identity[b].epoch \in Nat
      BY DEF LockoutInv, TypeOK, AccountOK, PlatformOK
    <3> QED BY <3>1, <3>2, <3>3 DEF Reached, IsHighestEpoch
  <2> QED BY <2>1, <2>2
<1> QED BY <1>1, LockoutInit, LockoutStep, PTL DEF Spec

-----------------------------------------------------------------------------
\* A completed unlink refuses every ticket of the old identity, if no grant is
\* created while it collects its targets.

CollectedAll ==
    \A w \in Workers : pc[w] = "collected" =>
        \A c \in Consumers : Exists(c) /\ BotOf[c] = task[w].bot => c \in task[w].todo

SettledIsConfirmed ==
    \A u \in Unlinks :
        /\ unlink[u].state = "complete" => unlink[u].targets \subseteq unlink[u].confirmed
        /\ unlink[u].state = "none" => unlink[u].targets = {}

\* A ticket below the epoch of an unlink of its bot belongs to a target of it.
TicketsCovered ==
    \A u \in Unlinks : unlink[u].state # "none" =>
        /\ identity[unlink[u].bot].epoch >= unlink[u].epoch
        /\ \A t \in tickets :
             BotOf[t.consumer] = unlink[u].bot /\ t.epoch < unlink[u].epoch
               => t.consumer \in unlink[u].targets

UnlinkedInv ==
    /\ InForceInv /\ TicketsKnown /\ LockHeld
    /\ CollectedAll /\ SettledIsConfirmed /\ TicketsCovered

LEMMA CollectedAllStep ==
    ASSUME ~LateGrants, TypeOK, CollectedAll, [Next]_vars
    PROVE  CollectedAll'
<1> SUFFICES ASSUME NEW w \in Workers, pc'[w] = "collected",
                    NEW c \in Consumers, Exists(c)', BotOf[c] = task'[w].bot
             PROVE  c \in task'[w].todo
  BY DEF CollectedAll
<1>1. CASE pc[w] = "collected" /\ task'[w] = task[w]
  <2>1. UserLocked
    BY <1>1 DEF UserLocked
  <2>2. Exists(c)
    BY <2>1, RowsMove DEF Moves, Created, Changed, Owing, Settled, Exists
  <2> QED BY <1>1, <2>2 DEF CollectedAll
<1>2. ASSUME NEW u \in Unlinks, NEW b \in Bots, UnlinkCollect(w, u, b)
      PROVE  c \in task'[w].todo
  <2>1. Exists(c)
    BY <1>2 DEF UnlinkCollect, acVars, Exists
  <2> QED BY <1>2, <2>1 DEF UnlinkCollect, BotConsumers, TypeOK, WorkersOK
<1> QED BY <1>1, <1>2, StaysCollected

LEMMA SettledIsConfirmedStep ==
    ASSUME TypeOK, TypeOK', SettledIsConfirmed, [Next]_vars
    PROVE  SettledIsConfirmed'
<1> SUFFICES ASSUME NEW u \in Unlinks
             PROVE  /\ unlink'[u].state = "complete"
                         => unlink'[u].targets \subseteq unlink'[u].confirmed
                    /\ unlink'[u].state = "none" => unlink'[u].targets = {}
  BY DEF SettledIsConfirmed
<1>1. CASE Admitted(u)
  <2>1. PICK w \in Workers : UnlinkCommit(w) /\ task[w].unlink = u
    BY <1>1 DEF Admitted
  <2>2. PICK highest \in Epochs :
          unlink'[u] = [state |-> IF task[w].todo = {} THEN "complete" ELSE "pending",
                        bot |-> task[w].bot, epoch |-> highest + 1,
                        targets |-> task[w].todo, confirmed |-> {}]
    BY <2>1, AdmittedRow
  <2> QED BY <2>2
<1>2. CASE SameUnlink(u) /\ Confirming(u)
  BY <1>2 DEF SameUnlink, Confirming, SettledIsConfirmed
<1>3. CASE SameUnlink(u) /\ Refreshed(u)
  BY <1>3 DEF SameUnlink, Refreshed, SettledIsConfirmed
<1> QED BY <1>1, <1>2, <1>3, UnlinksAdvance DEF Advances

LEMMA TicketsCoveredStep ==
    ASSUME UnlinkedInv, TypeOK', [Next]_vars
    PROVE  TicketsCovered'
<1> SUFFICES ASSUME NEW u \in Unlinks, unlink'[u].state # "none"
             PROVE  /\ identity'[unlink'[u].bot].epoch >= unlink'[u].epoch
                    /\ \A t \in tickets' :
                         BotOf[t.consumer] = unlink'[u].bot /\ t.epoch < unlink'[u].epoch
                           => t.consumer \in unlink'[u].targets
  BY DEF TicketsCovered
<1>1. TypeOK /\ LockHeld /\ TicketsKnown /\ CollectedAll /\ SettledIsConfirmed /\ TicketsCovered
  BY DEF UnlinkedInv, InForceInv
<1>2. CASE Admitted(u)
  <2>1. PICK w \in Workers : UnlinkCommit(w) /\ task[w].unlink = u
    BY <1>2 DEF Admitted
  <2>2. PICK highest \in Epochs :
          /\ unlink'[u] = [state |-> IF task[w].todo = {} THEN "complete" ELSE "pending",
                           bot |-> task[w].bot, epoch |-> highest + 1,
                           targets |-> task[w].todo, confirmed |-> {}]
          /\ identity' = [b \in Bots |->
               [linked |-> identity[b].linked /\ b # task[w].bot,
                epoch |-> IF identity[b].linked THEN highest + 1 ELSE identity[b].epoch]]
    BY <1>1, <2>1, AdmittedRow
  <2>3. task[w].bot \in Bots /\ identity[task[w].bot].linked /\ pc[w] = "collected"
    BY <1>1, <2>1 DEF LockHeld, UnlinkCommit, TypeOK, WorkersOK
  <2>4. identity'[unlink'[u].bot].epoch = highest + 1 /\ highest \in Nat
    <3>1. highest \in Nat
      BY <1>1, EpochsAreNaturals
    <3>2. unlink'[u].bot = task[w].bot
      BY <2>2
    <3>3. identity'[task[w].bot].epoch = highest + 1
      BY <2>2, <2>3
    <3> QED BY <3>1, <3>2, <3>3
  <2>5. tickets' = tickets
    BY <2>1 DEF UnlinkCommit
  <2>6. ASSUME NEW t \in tickets, BotOf[t.consumer] = task[w].bot
        PROVE  t.consumer \in task[w].todo
    <3>1. t.consumer \in Consumers /\ Exists(t.consumer)
      BY <1>1 DEF TicketsKnown, TypeOK, Ticket
    <3> QED BY <1>1, <2>3, <2>6, <3>1 DEF CollectedAll
  <2> QED BY <2>2, <2>4, <2>5, <2>6
<1>3. CASE SameUnlink(u) /\ (Confirming(u) \/ Refreshed(u))
  <2>1. unlink[u].state # "none"
    <3>1. Confirming(u) => unlink[u].targets # {}
      BY DEF Confirming, Covers
    <3> QED BY <1>1, <1>3, <3>1 DEF Refreshed, SettledIsConfirmed
  <2>2. /\ unlink[u] \in Unlink /\ unlink[u].bot \in Bots
        /\ unlink'[u].bot = unlink[u].bot /\ unlink'[u].epoch = unlink[u].epoch
        /\ unlink'[u].targets = unlink[u].targets
    BY <1>1, <1>3 DEF SameUnlink, TypeOK, AccountOK, Unlink
  <2>3. \A b \in Bots : identity[b].epoch \in Nat /\ identity'[b].epoch \in Nat
    BY <1>1 DEF TypeOK, AccountOK
  <2>4. identity[unlink[u].bot].epoch >= unlink[u].epoch
    BY <1>1, <2>1 DEF TicketsCovered
  <2>5. identity'[unlink'[u].bot].epoch >= unlink'[u].epoch
    BY <1>1, <2>2, <2>3, <2>4, EpochsGrow DEF Unlink
  <2>6. ASSUME NEW t \in tickets', BotOf[t.consumer] = unlink[u].bot, t.epoch < unlink[u].epoch
        PROVE  t.consumer \in unlink[u].targets
    <3>1. CASE t \in tickets
      BY <1>1, <2>1, <2>6, <3>1 DEF TicketsCovered
    <3>2. CASE t \notin tickets
      <4>1. PICK c \in Consumers : IssueTicket(c)
        BY <3>2, OnlyIssueAddsTickets
      <4>2. t.consumer = c /\ t.epoch = identity[BotOf[c]].epoch
        BY <3>2, <4>1 DEF IssueTicket
      <4> QED BY <2>2, <2>3, <2>4, <2>6, <4>2 DEF Unlink
    <3> QED BY <3>1, <3>2
  <2> QED BY <2>2, <2>5, <2>6
<1> QED BY <1>1, <1>2, <1>3, UnlinksAdvance DEF Advances

LEMMA UnlinkedInvStep ==
    ASSUME ~LateGrants, UnlinkedInv, [Next]_vars
    PROVE  UnlinkedInv'
  BY InForceInvStep, TicketsKnownStep, LockHeldStep, CollectedAllStep, SettledIsConfirmedStep,
     TicketsCoveredStep DEF UnlinkedInv, InForceInv

LEMMA UnlinkedImplies == UnlinkedInv => UnlinkedIsRefused
<1> SUFFICES ASSUME UnlinkedInv, NEW u \in Unlinks, unlink[u].state = "complete",
                    NEW t \in tickets, BotOf[t.consumer] = unlink[u].bot,
                    t.epoch < unlink[u].epoch
             PROVE  ~Accepted(t)
  BY DEF UnlinkedIsRefused
<1>1. TypeOK /\ ConfirmedIsInForce
  BY DEF UnlinkedInv, InForceInv
<1>2. t.consumer \in unlink[u].confirmed
  BY DEF UnlinkedInv, TicketsCovered, SettledIsConfirmed
<1>3. fence[t.consumer].epoch >= unlink[u].epoch
  BY <1>1, <1>2 DEF ConfirmedIsInForce
<1>4. t.epoch \in Nat /\ unlink[u].epoch \in Nat /\ fence[t.consumer].epoch \in Nat
  BY <1>1 DEF TypeOK, Ticket, AccountOK, Unlink, PlatformOK
<1> QED BY <1>3, <1>4 DEF Accepted

\* If no grant is created between the collection and the commit of an unlink,
\* an unlink answered UNLINKED leaves no ticket of the old identity accepted,
\* for any number of grants, unlinks and new links.
THEOREM UnlinksHold ==
    ASSUME ~LateGrants
    PROVE  Spec => []UnlinkedIsRefused
<1>1. Init => UnlinkedInv
  <2> SUFFICES ASSUME Init PROVE UnlinkedInv
    OBVIOUS
  <2>1. TicketsKnown /\ LockHeld /\ CollectedAll
    BY DEF Init, TicketsKnown, LockHeld, CollectedAll
  <2>2. SettledIsConfirmed /\ TicketsCovered
    BY DEF Init, SettledIsConfirmed, TicketsCovered
  <2> QED BY <2>1, <2>2, InitInForce DEF UnlinkedInv
<1>2. UnlinkedInv /\ [Next]_vars => UnlinkedInv'
  BY UnlinkedInvStep
<1> QED BY <1>1, <1>2, UnlinkedImplies, PTL DEF Spec

===============================================================================
