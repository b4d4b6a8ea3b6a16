------------------------ MODULE OperationLedgerProofs ------------------------
(***************************************************************************)
(* The theorems about OperationLedger, for any sets of operation ids,      *)
(* tuples and calls.                                                       *)
(***************************************************************************)
EXTENDS OperationLedger, TLAPS

Active == {"admitted", "locked", "failing"}

\* A token held by a call was drawn by that call for its own operation, and
\* the one call that admitted an operation is the only one that may act on it.
TokenInv ==
    /\ \A o \in Ops, c \in Calls :
         token[o] = c => target[c] = o /\ pc[c] # "idle"
    /\ \A c, d \in Calls :
         pc[c] \in Active /\ pc[d] \in Active /\ target[c] = target[d] => c = d

\* What the executing call may find in the row it admitted.
RowInv ==
    \A c \in Calls :
        /\ pc[c] = "locked" => Holds(c)
        /\ pc[c] \in {"admitted", "locked"} =>
             state[target[c]] \in {"pending", "failed_input_required"}
        /\ pc[c] = "failing" =>
             \/ state[target[c]] \in {"pending", "failed_input_required"}
             \/ c \in Unconfirmed /\ state[target[c]] = "succeeded"

\* A call that returned an error is over, and so is the one execution of its
\* operation.
ErrorInv ==
    \A c \in errored :
        /\ pc[c] = "done"
        /\ state[target[c]] # "absent"
        /\ c \notin Unconfirmed => state[target[c]] # "succeeded"
        /\ \A d \in Calls : target[d] = target[c] => pc[d] \notin Active

IInv ==
    /\ TypeOK
    /\ TokenInv
    /\ RowInv
    /\ EffectMatchesRecord
    /\ AnswersStayTrue
    /\ ErrorInv

USE DEF Steps, States, Terminal, Active

LEMMA InitEstablishesIInv == Init => IInv
  BY FencedAssumption DEF Init, IInv, TypeOK, TokenInv, RowInv, EffectMatchesRecord,
     AnswersStayTrue, ErrorInv

-----------------------------------------------------------------------------
\* One lemma per action: the conjuncts of the inductive invariant it may disturb.

LEMMA LockPendingPreserves ==
    ASSUME IInv, NEW c \in Calls, LockPending(c)
    PROVE  IInv'
<1> USE DEF IInv, TypeOK, TokenInv, RowInv, Holds, LockPending, rowVars, callVars
<1>1. TypeOK'
  OBVIOUS
<1>2. TokenInv'
  BY FencedAssumption
<1>3. RowInv'
  OBVIOUS
<1>4. EffectMatchesRecord'
  BY DEF EffectMatchesRecord
<1>5. AnswersStayTrue'
  BY DEF AnswersStayTrue
<1>6. ErrorInv'
  BY DEF ErrorInv
<1> QED BY <1>1, <1>2, <1>3, <1>4, <1>5, <1>6

LEMMA CommitPreserves ==
    ASSUME IInv, NEW c \in Calls, Commit(c)
    PROVE  IInv'
<1> USE DEF IInv, TypeOK, TokenInv, RowInv, Holds, Commit, rowVars, callVars, Apply, Answer
<1>1. TypeOK'
  OBVIOUS
<1>2. TokenInv'
  BY FencedAssumption
<1>3. RowInv'
  OBVIOUS
<1>4. EffectMatchesRecord'
  BY DEF EffectMatchesRecord
<1>5. AnswersStayTrue'
  <2> SUFFICES ASSUME NEW p \in Ops, NEW s \in Terminal, <<p, s>> \in answers'
               PROVE  state'[p] = s
    BY DEF AnswersStayTrue
  <2>1. <<p, s>> \in answers \/ (p = target[c] /\ s = "succeeded")
    OBVIOUS
  <2>2. <<p, s>> \in answers => state[p] = s
    BY DEF AnswersStayTrue
  <2> QED BY <2>1, <2>2
<1>6. ErrorInv'
  BY DEF ErrorInv
<1> QED BY <1>1, <1>2, <1>3, <1>4, <1>5, <1>6

LEMMA CommitUnconfirmedPreserves ==
    ASSUME IInv, NEW c \in Calls, CommitUnconfirmed(c)
    PROVE  IInv'
<1> USE DEF IInv, TypeOK, TokenInv, RowInv, Holds, CommitUnconfirmed, rowVars, callVars, Apply
<1>1. TypeOK'
  OBVIOUS
<1>2. TokenInv'
  BY FencedAssumption
<1>3. RowInv'
  OBVIOUS
<1>4. EffectMatchesRecord'
  BY DEF EffectMatchesRecord
<1>5. AnswersStayTrue'
  BY DEF AnswersStayTrue
<1>6. ErrorInv'
  BY DEF ErrorInv
<1> QED BY <1>1, <1>2, <1>3, <1>4, <1>5, <1>6

LEMMA RollbackPreserves ==
    ASSUME IInv, NEW c \in Calls, Rollback(c)
    PROVE  IInv'
<1> USE DEF IInv, TypeOK, TokenInv, RowInv, Holds, Rollback, rowVars, callVars
<1>1. TypeOK'
  OBVIOUS
<1>2. TokenInv'
  BY FencedAssumption
<1>3. RowInv'
  OBVIOUS
<1>4. EffectMatchesRecord'
  BY DEF EffectMatchesRecord
<1>5. AnswersStayTrue'
  BY DEF AnswersStayTrue
<1>6. ErrorInv'
  BY DEF ErrorInv
<1> QED BY <1>1, <1>2, <1>3, <1>4, <1>5, <1>6

LEMMA AnswersStay ==
    ASSUME AnswersStayTrue, UNCHANGED answers,
           \A p \in Ops : state[p] \in Terminal => state'[p] = state[p]
    PROVE  AnswersStayTrue'
  BY DEF AnswersStayTrue

LEMMA FailPendingPreserves ==
    ASSUME IInv, NEW c \in Calls, FailPending(c)
    PROVE  IInv'
<1> USE DEF IInv, TypeOK, TokenInv, RowInv, Holds, FailPending, rowVars, callVars
<1>1. TypeOK'
  OBVIOUS
<1>2. TokenInv'
  BY FencedAssumption
<1>3. RowInv'
  OBVIOUS
<1>4. EffectMatchesRecord'
  BY DEF EffectMatchesRecord
<1>5. AnswersStayTrue'
  <2>1. \A p \in Ops : state[p] \in Terminal => state'[p] = state[p]
    OBVIOUS
  <2>2. AnswersStayTrue /\ answers' = answers
    OBVIOUS
  <2> QED BY <2>1, <2>2, AnswersStay
<1>6. ErrorInv'
  <2>1. ErrorInv /\ errored' = errored \union {c} /\ target' = target
    BY DEF ErrorInv
  <2>2. \A d \in Calls : pc'[d] \in Active => d # c /\ pc[d] \in Active
    BY DEF Active
  <2>3. \A d \in Calls : target[d] = target[c] => pc'[d] \notin Active
    BY <2>2 DEF Active
  <2>4. pc'[c] = "done" /\ \A d \in errored : pc'[d] = "done"
    BY <2>1 DEF ErrorInv
  <2>5. \A o \in Ops : /\ state'[o] = "absent" => state[o] = "absent"
                      /\ state'[o] = "succeeded" => state[o] = "succeeded"
    OBVIOUS
  <2>6. state[target[c]] # "absent" /\ (c \notin Unconfirmed => state[target[c]] # "succeeded")
    OBVIOUS
  <2> QED BY <2>1, <2>2, <2>3, <2>4, <2>5, <2>6 DEF ErrorInv
<1> QED BY <1>1, <1>2, <1>3, <1>4, <1>5, <1>6

LEMMA CrashPreserves ==
    ASSUME IInv, NEW c \in Calls, Crash(c)
    PROVE  IInv'
<1> USE DEF IInv, TypeOK, TokenInv, RowInv, Holds, Crash, rowVars, callVars
<1>1. TypeOK'
  OBVIOUS
<1>2. TokenInv'
  BY FencedAssumption
<1>3. RowInv'
  OBVIOUS
<1>4. EffectMatchesRecord'
  BY DEF EffectMatchesRecord
<1>5. AnswersStayTrue'
  BY DEF AnswersStayTrue
<1>6. ErrorInv'
  BY DEF ErrorInv
<1> QED BY <1>1, <1>2, <1>3, <1>4, <1>5, <1>6

LEMMA LeaseExpiresPreserves ==
    ASSUME IInv, NEW o \in Ops, LeaseExpires(o)
    PROVE  IInv'
<1> USE DEF IInv, TypeOK, TokenInv, RowInv, Holds, LeaseExpires, rowVars, callVars
<1>1. TypeOK'
  OBVIOUS
<1>2. TokenInv'
  BY FencedAssumption
<1>3. RowInv'
  OBVIOUS
<1>4. EffectMatchesRecord'
  BY DEF EffectMatchesRecord
<1>5. AnswersStayTrue'
  BY DEF AnswersStayTrue
<1>6. ErrorInv'
  BY DEF ErrorInv
<1> QED BY <1>1, <1>2, <1>3, <1>4, <1>5, <1>6

LEMMA GetPreserves ==
    ASSUME IInv, NEW o \in Ops, Get(o)
    PROVE  IInv'
<1> USE DEF IInv, TypeOK, TokenInv, RowInv, Holds, Get, rowVars, callVars, Answer
<1>1. TypeOK'
  OBVIOUS
<1>2. TokenInv'
  BY FencedAssumption
<1>3. RowInv'
  OBVIOUS
<1>4. EffectMatchesRecord'
  BY DEF EffectMatchesRecord
<1>5. AnswersStayTrue'
  <2> SUFFICES ASSUME NEW p \in Ops, NEW s \in Terminal, <<p, s>> \in answers'
               PROVE  state'[p] = s
    BY DEF AnswersStayTrue
  <2>1. <<p, s>> \in answers \/ (p = o /\ s = state[o])
    OBVIOUS
  <2>2. <<p, s>> \in answers => state[p] = s
    BY DEF AnswersStayTrue
  <2> QED BY <2>1, <2>2
<1>6. ErrorInv'
  BY DEF ErrorInv
<1> QED BY <1>1, <1>2, <1>3, <1>4, <1>5, <1>6

LEMMA ResolveAbsentPreserves ==
    ASSUME IInv, NEW o \in Ops, NEW r \in Refs, ResolveAbsent(o, r)
    PROVE  IInv'
<1> USE DEF IInv, TypeOK, TokenInv, RowInv, Holds, ResolveAbsent, rowVars, callVars, Answer
<1>1. TypeOK'
  OBVIOUS
<1>2. TokenInv'
  BY FencedAssumption
<1>3. RowInv'
  OBVIOUS
<1>4. EffectMatchesRecord'
  BY DEF EffectMatchesRecord
<1>5. AnswersStayTrue'
  <2> SUFFICES ASSUME NEW p \in Ops, NEW s \in Terminal, <<p, s>> \in answers'
               PROVE  state'[p] = s
    BY DEF AnswersStayTrue
  <2>1. <<p, s>> \in answers \/ (p = o /\ s = "not_received")
    OBVIOUS
  <2>2. <<p, s>> \in answers => state[p] = s
    BY DEF AnswersStayTrue
  <2> QED BY <2>1, <2>2
<1>6. ErrorInv'
  BY DEF ErrorInv
<1> QED BY <1>1, <1>2, <1>3, <1>4, <1>5, <1>6

LEMMA ResolveExpiredPreserves ==
    ASSUME IInv, NEW o \in Ops, NEW r \in Refs, ResolveExpired(o, r)
    PROVE  IInv'
<1> USE DEF IInv, TypeOK, TokenInv, RowInv, Holds, ResolveExpired, rowVars, callVars, Answer, RowLocked
<1>1. TypeOK'
  OBVIOUS
<1>2. TokenInv'
  BY FencedAssumption
<1>3. RowInv'
  OBVIOUS
<1>4. EffectMatchesRecord'
  BY DEF EffectMatchesRecord
<1>5. AnswersStayTrue'
  <2> SUFFICES ASSUME NEW p \in Ops, NEW s \in Terminal, <<p, s>> \in answers'
               PROVE  state'[p] = s
    BY DEF AnswersStayTrue
  <2>1. <<p, s>> \in answers \/ (p = o /\ s = "failed_input_required")
    OBVIOUS
  <2>2. <<p, s>> \in answers => state[p] = s
    BY DEF AnswersStayTrue
  <2> QED BY <2>1, <2>2
<1>6. ErrorInv'
  BY DEF ErrorInv
<1> QED BY <1>1, <1>2, <1>3, <1>4, <1>5, <1>6

LEMMA ResolveCurrentPreserves ==
    ASSUME IInv, NEW o \in Ops, NEW r \in Refs, ResolveCurrent(o, r)
    PROVE  IInv'
<1> USE DEF IInv, TypeOK, TokenInv, RowInv, Holds, ResolveCurrent, rowVars, callVars, Answer
<1>1. TypeOK'
  OBVIOUS
<1>2. TokenInv'
  BY FencedAssumption
<1>3. RowInv'
  OBVIOUS
<1>4. EffectMatchesRecord'
  BY DEF EffectMatchesRecord
<1>5. AnswersStayTrue'
  <2> SUFFICES ASSUME NEW p \in Ops, NEW s \in Terminal, <<p, s>> \in answers'
               PROVE  state'[p] = s
    BY DEF AnswersStayTrue
  <2>1. <<p, s>> \in answers \/ (p = o /\ s = state[o])
    OBVIOUS
  <2>2. <<p, s>> \in answers => state[p] = s
    BY DEF AnswersStayTrue
  <2> QED BY <2>1, <2>2
<1>6. ErrorInv'
  BY DEF ErrorInv
<1> QED BY <1>1, <1>2, <1>3, <1>4, <1>5, <1>6

LEMMA AdmitNewPreserves ==
    ASSUME IInv, NEW c \in Calls, NEW o \in Ops, NEW r \in Refs, AdmitNew(c, o, r)
    PROVE  IInv'
<1> USE DEF IInv, TypeOK, TokenInv, RowInv, Holds, AdmitNew, rowVars, callVars
<1>1. TypeOK'
  OBVIOUS
<1>2. TokenInv'
  BY FencedAssumption
<1>3. RowInv'
  OBVIOUS
<1>4. EffectMatchesRecord'
  BY DEF EffectMatchesRecord
<1>5. AnswersStayTrue'
  <2>1. \A p \in Ops : state[p] \in Terminal => state'[p] = state[p]
    OBVIOUS
  <2>2. AnswersStayTrue /\ answers' = answers
    OBVIOUS
  <2> QED BY <2>1, <2>2, AnswersStay
<1>6. ErrorInv'
  BY DEF ErrorInv
<1> QED BY <1>1, <1>2, <1>3, <1>4, <1>5, <1>6

LEMMA AdmitExistingPreserves ==
    ASSUME IInv, NEW c \in Calls, NEW o \in Ops, NEW r \in Refs, AdmitExisting(c, o, r)
    PROVE  IInv'
<1> USE DEF IInv, TypeOK, TokenInv, RowInv, Holds, AdmitExisting, rowVars, callVars, Answer
<1>1. TypeOK'
  OBVIOUS
<1>2. TokenInv'
  BY FencedAssumption
<1>3. RowInv'
  OBVIOUS
<1>4. EffectMatchesRecord'
  BY DEF EffectMatchesRecord
<1>5. AnswersStayTrue'
  <2> SUFFICES ASSUME NEW p \in Ops, NEW s \in Terminal, <<p, s>> \in answers'
               PROVE  state'[p] = s
    BY DEF AnswersStayTrue
  <2>1. <<p, s>> \in answers \/ (p = o /\ s = state[o])
    OBVIOUS
  <2>2. <<p, s>> \in answers => state[p] = s
    BY DEF AnswersStayTrue
  <2> QED BY <2>1, <2>2
<1>6. ErrorInv'
  BY DEF ErrorInv
<1> QED BY <1>1, <1>2, <1>3, <1>4, <1>5, <1>6

LEMMA NextPreservesIInv == IInv /\ [Next]_vars => IInv'
<1> SUFFICES ASSUME IInv, [Next]_vars PROVE IInv'
  OBVIOUS
<1>1. ASSUME NEW c \in Calls, CallStep(c) PROVE IInv'
  BY <1>1, LockPendingPreserves, CommitPreserves, CommitUnconfirmedPreserves,
     RollbackPreserves, FailPendingPreserves, CrashPreserves DEF CallStep
<1>2. ASSUME NEW o \in Ops, LeaseExpires(o) \/ Get(o) PROVE IInv'
  BY <1>2, LeaseExpiresPreserves, GetPreserves
<1>3. ASSUME NEW o \in Ops, NEW r \in Refs, Resolve(o, r) PROVE IInv'
  BY <1>3, ResolveAbsentPreserves, ResolveExpiredPreserves, ResolveCurrentPreserves
     DEF Resolve
<1>4. ASSUME NEW o \in Ops, NEW r \in Refs, NEW c \in Calls, Admit(c, o, r) PROVE IInv'
  BY <1>4, AdmitNewPreserves, AdmitExistingPreserves DEF Admit
<1>5. CASE UNCHANGED vars
  BY <1>5 DEF vars, rowVars, callVars, IInv, TypeOK, TokenInv, RowInv, Holds,
     EffectMatchesRecord, AnswersStayTrue, ErrorInv
<1> QED BY <1>1, <1>2, <1>3, <1>4, <1>5 DEF Next

\* Every reachable state satisfies the inductive invariant.
THEOREM Invariance == Spec => []IInv
<1> QED BY InitEstablishesIInv, NextPreservesIInv, PTL DEF Spec
-----------------------------------------------------------------------------
\* The ledger's rows, tokens and calls stay well-formed.
THEOREM TypeCorrect == Spec => []TypeOK
<1> IInv => TypeOK
  BY DEF IInv
<1> QED BY Invariance, PTL

\* An operation id is applied at most once, and exactly when its row says so:
\* no interleaving of duplicated requests, slow executors and resolvers makes
\* Execute mutate the credential twice.
THEOREM AppliedAtMostOnce == Spec => []EffectMatchesRecord
<1> IInv => EffectMatchesRecord
  BY DEF IInv
<1> QED BY Invariance, PTL

\* A verdict returned by Execute, Resolve or Get stays the ledger's verdict.
THEOREM AnswersAreFinal == Spec => []AnswersStayTrue
<1> IInv => AnswersStayTrue
  BY DEF IInv
<1> QED BY Invariance, PTL

\* An error returned by Execute is final where the commit was confirmed: the
\* operation has not been applied and will not be.
THEOREM ErrorsAreFinal == Spec => []ErrorIsFinal
<1>1. IInv => ErrorIsFinal
  BY DEF IInv, ErrorInv, ErrorIsFinal, EffectMatchesRecord, TypeOK
<1> QED BY <1>1, Invariance, PTL

\* No step reopens a terminal row or rewrites the tuple of an existing one.
THEOREM TerminalRowsAreFinal == Spec => TerminalIsFinal
<1> DEFINE Final == \A o \in Ops :
                      /\ state[o] \in Terminal => state'[o] = state[o]
                      /\ state[o] # "absent" => ref'[o] = ref[o]
<1>1. IInv /\ [Next]_vars => [Final]_vars
  <2> SUFFICES ASSUME IInv, Next PROVE Final
    OBVIOUS
  <2> USE DEF IInv, TypeOK, RowInv, Holds, rowVars, callVars
  <2>1. ASSUME NEW c \in Calls, CallStep(c) PROVE Final
    BY <2>1 DEF CallStep, LockPending, Commit, CommitUnconfirmed, Apply, Rollback,
       FailPending, Crash
  <2>2. ASSUME NEW o \in Ops, LeaseExpires(o) \/ Get(o) PROVE Final
    BY <2>2 DEF LeaseExpires, Get
  <2>3. ASSUME NEW o \in Ops, NEW r \in Refs, Resolve(o, r) PROVE Final
    BY <2>3 DEF Resolve, ResolveAbsent, ResolveExpired, ResolveCurrent
  <2>4. ASSUME NEW o \in Ops, NEW r \in Refs, NEW c \in Calls, Admit(c, o, r) PROVE Final
    BY <2>4 DEF Admit, AdmitNew, AdmitExisting
  <2> QED BY <2>1, <2>2, <2>3, <2>4 DEF Next
<1> QED BY <1>1, Invariance, PTL DEF Spec, TerminalIsFinal

-----------------------------------------------------------------------------
\* Refinement of AtMostOnceOperation

\* An answer with a terminal state tells its verdict ...
LEMMA TerminalAnswerTells ==
    ASSUME NEW o \in Ops, NEW s \in Terminal, Answer(o, s)
    PROVE  Told' = [Told EXCEPT ![o] = @ \union {Verdict(s)}]
<1> DEFINE Heard(p) == {t \in Terminal : <<p, t>> \in answers}
<1>1. \A p \in Ops : {t \in Terminal : <<p, t>> \in answers'} =
                    IF p = o THEN Heard(p) \union {s} ELSE Heard(p)
  BY DEF Answer
<1>2. {Verdict(t) : t \in Heard(o) \union {s}} = {Verdict(t) : t \in Heard(o)} \union {Verdict(s)}
  OBVIOUS
<1> QED BY <1>1, <1>2 DEF Told

\* ... any other answer tells nothing.
LEMMA OtherAnswerTellsNothing ==
    ASSUME NEW o \in Ops, NEW s, s \notin Terminal, Answer(o, s)
    PROVE  Told' = Told
<1>1. \A p \in Ops : {t \in Terminal : <<p, t>> \in answers'} =
                    {t \in Terminal : <<p, t>> \in answers}
  BY DEF Answer
<1> QED BY <1>1 DEF Told

\* Writing the state of one row changes the verdict on that operation only.
LEMMA RowWriteDecides ==
    ASSUME TypeOK, NEW o \in Ops, NEW s \in States, state' = [state EXCEPT ![o] = s]
    PROVE  Outcome' = [Outcome EXCEPT ![o] = Verdict(s)]
  BY DEF Outcome, TypeOK

\* An answer about an existing row is a Tell or a stutter.
LEMMA AnswerRefines ==
    ASSUME TypeOK, NEW o \in Ops, UNCHANGED state, Answer(o, state[o])
    PROVE  Abstract!Next \/ UNCHANGED Abstract!vars
<1>1. UNCHANGED Outcome
  BY DEF Outcome
<1>2. CASE state[o] \in Terminal
  <2>1. Outcome[o] = Verdict(state[o]) /\ Outcome[o] \in Abstract!Decided
    BY <1>2 DEF Outcome, Verdict, Abstract!Decided
  <2>2. Abstract!Tell(o)
    BY <1>1, <1>2, <2>1, TerminalAnswerTells DEF Abstract!Tell
  <2> QED BY <2>2 DEF Abstract!Next
<1>3. CASE state[o] \notin Terminal
  BY <1>1, <1>3, OtherAnswerTellsNothing DEF Abstract!vars
<1> QED BY <1>2, <1>3

\* Moving an undecided row to a terminal state is a Decide.
LEMMA DecisionRefines ==
    ASSUME TypeOK, NEW o \in Ops, NEW s \in Terminal, state[o] \notin Terminal,
           state' = [state EXCEPT ![o] = s],
           UNCHANGED answers \/ Answer(o, s)
    PROVE  Abstract!Next
<1>1. Outcome' = [Outcome EXCEPT ![o] = Verdict(s)]
  BY RowWriteDecides
<1>2. Outcome[o] = "undecided"
  BY DEF Outcome, Verdict, TypeOK
<1>3. Verdict(s) \in Abstract!Decided
  BY DEF Verdict, Abstract!Decided
<1>4. UNCHANGED Told \/ Told' = [Told EXCEPT ![o] = @ \union {Verdict(s)}]
  <2>1. CASE UNCHANGED answers
    BY <2>1 DEF Told
  <2>2. CASE Answer(o, s)
    BY <2>2, TerminalAnswerTells
  <2> QED BY <2>1, <2>2
<1>5. Abstract!Decide(o, Verdict(s))
  BY <1>1, <1>2, <1>4 DEF Abstract!Decide
<1> QED BY <1>3, <1>5 DEF Abstract!Next

LEMMA SilentRefines ==
    ASSUME UNCHANGED <<state, answers>>
    PROVE  UNCHANGED Abstract!vars
<1>1. UNCHANGED state /\ UNCHANGED answers
  OBVIOUS
<1>2. UNCHANGED Outcome
  BY <1>1 DEF Outcome
<1>3. UNCHANGED Told
  BY <1>1 DEF Told
<1> QED BY <1>2, <1>3 DEF Abstract!vars

\* The ledger implements the promise AtMostOnceOperation states.
THEOREM Refinement == Spec => ImplementsAtMostOnce
<1>1. Init => Abstract!Init
  <2> SUFFICES ASSUME Init PROVE Abstract!Init
    OBVIOUS
  <2>1. Outcome = [o \in Ops |-> "undecided"]
    BY DEF Init, Outcome, Verdict
  <2>2. Told = [o \in Ops |-> {}]
    BY DEF Init, Told
  <2> QED BY <2>1, <2>2 DEF Abstract!Init
<1>2. IInv /\ [Next]_vars => [Abstract!Next]_(Abstract!vars)
  <2> SUFFICES ASSUME IInv, [Next]_vars
               PROVE  Abstract!Next \/ UNCHANGED Abstract!vars
    OBVIOUS
  <2> TypeOK /\ RowInv
    BY DEF IInv
  <2> USE DEF rowVars, callVars
  <2>1. ASSUME NEW c \in Calls, CallStep(c)
        PROVE  Abstract!Next \/ UNCHANGED Abstract!vars
    <3>1. target[c] \in Ops
      BY DEF TypeOK
    <3>2. CASE Commit(c) \/ CommitUnconfirmed(c)
      BY <3>1, <3>2, DecisionRefines DEF Commit, CommitUnconfirmed, Apply, RowInv, Holds
    <3>3. CASE FailPending(c)
      BY <3>1, <3>3, DecisionRefines, SilentRefines DEF FailPending, Holds
    <3>4. CASE LockPending(c) \/ Rollback(c) \/ Crash(c)
      BY <3>4, SilentRefines DEF LockPending, Rollback, Crash
    <3> QED BY <2>1, <3>2, <3>3, <3>4 DEF CallStep
  <2>2. ASSUME NEW o \in Ops, LeaseExpires(o) \/ Get(o)
        PROVE  Abstract!Next \/ UNCHANGED Abstract!vars
    BY <2>2, SilentRefines, AnswerRefines DEF LeaseExpires, Get
  <2>3. ASSUME NEW o \in Ops, NEW r \in Refs, Resolve(o, r)
        PROVE  Abstract!Next \/ UNCHANGED Abstract!vars
    <3>1. CASE ResolveAbsent(o, r)
      BY <3>1, DecisionRefines DEF ResolveAbsent
    <3>2. CASE ResolveExpired(o, r)
      BY <3>2, DecisionRefines DEF ResolveExpired
    <3>3. CASE ResolveCurrent(o, r)
      BY <3>3, AnswerRefines DEF ResolveCurrent
    <3> QED BY <2>3, <3>1, <3>2, <3>3 DEF Resolve
  <2>4. ASSUME NEW o \in Ops, NEW r \in Refs, NEW c \in Calls, Admit(c, o, r)
        PROVE  Abstract!Next \/ UNCHANGED Abstract!vars
    <3>1. CASE AdmitNew(c, o, r)
      <4>1. Outcome' = [Outcome EXCEPT ![o] = Verdict("pending")]
        BY <3>1, RowWriteDecides DEF AdmitNew
      <4>2. Outcome[o] = Verdict("pending")
        BY <3>1 DEF AdmitNew, Outcome, Verdict
      <4>3. UNCHANGED Outcome
        BY <4>1, <4>2 DEF Outcome
      <4>4. UNCHANGED answers
        BY <3>1 DEF AdmitNew
      <4>5. UNCHANGED Told
        BY <4>4 DEF Told
      <4> QED BY <4>3, <4>5 DEF Abstract!vars
    <3>2. CASE AdmitExisting(c, o, r)
      BY <3>2, AnswerRefines, SilentRefines DEF AdmitExisting
    <3> QED BY <2>4, <3>1, <3>2 DEF Admit
  <2>5. CASE UNCHANGED vars
    BY <2>5, SilentRefines DEF vars
  <2> QED BY <2>1, <2>2, <2>3, <2>4, <2>5 DEF Next
<1> QED BY <1>1, <1>2, Invariance, PTL DEF Spec, ImplementsAtMostOnce, Abstract!Spec
=============================================================================
