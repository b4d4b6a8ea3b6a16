------------------------ MODULE AtMostOnceOperation ------------------------
(***************************************************************************)
(* What platform-mihomo promises account-center about a credential         *)
(* operation identified by an operation id: the operation is applied at    *)
(* most once, it is either applied or refused for good, and everything     *)
(* that is ever said about it is the truth and stays the truth.            *)
(***************************************************************************)
CONSTANT Ops

VARIABLES
    outcome,    \* [Ops -> Outcomes]
    told        \* [Ops -> SUBSET Decided]: the verdicts callers have been given

vars == <<outcome, told>>

Decided == {"applied", "refused"}
Outcomes == Decided \union {"undecided"}

Init ==
    /\ outcome = [o \in Ops |-> "undecided"]
    /\ told = [o \in Ops |-> {}]

\* The operation is decided; the verdict may or may not reach a caller.
Decide(o, verdict) ==
    /\ outcome[o] = "undecided"
    /\ outcome' = [outcome EXCEPT ![o] = verdict]
    /\ \/ told' = told
       \/ told' = [told EXCEPT ![o] = @ \union {verdict}]

\* A caller learns a verdict that has been reached.
Tell(o) ==
    /\ outcome[o] \in Decided
    /\ told' = [told EXCEPT ![o] = @ \union {outcome[o]}]
    /\ UNCHANGED outcome

Next == \E o \in Ops : Tell(o) \/ \E verdict \in Decided : Decide(o, verdict)

Spec == Init /\ [][Next]_vars

=============================================================================
