----------------------- MODULE CredentialOperationsMC -----------------------
(* Instances of CredentialOperations for TLC. *)
EXTENDS CredentialOperations, TLC

Symmetry == Permutations(Workers) \union Permutations(OwnedElsewhere)
                \union Permutations(Ops \ OwnedElsewhere)

\* A binding whose credential was bound by an operation settled long ago, with
\* every id left to the requests that follow.
EstablishedInit ==
    /\ binding = [status |-> "active", gen |-> 1, key |-> TRUE]
    /\ cred = [exists |-> TRUE, gen |-> 1]
    /\ intent = [o \in Ops |-> NoIntent]
    /\ outbox = [o \in Ops |-> "none"]
    /\ remote = [id \in Ids |-> "absent"]
    /\ exec = [id \in Ids |-> None]
    /\ net = {}
    /\ pc = [w \in Workers |-> "idle"]
    /\ loc = [w \in Workers |-> NoLoc]

\* A replacement that never arrived while a refresh reached its generation, and
\* whose compensation is still running when the answer to it is given up.
CompensatingInit ==
    LET done == CHOOSE o \in Ops : o \notin OwnedElsewhere IN
    \E o \in Ops \ {done}, w \in Workers :
        /\ binding = [status |-> "active", gen |-> 1, key |-> TRUE]
        /\ cred = [exists |-> TRUE, gen |-> 2]
        /\ intent = [x \in Ops |->
              CASE x = done -> [state |-> "failed", reason |-> "failed",
                                kind |-> "REFRESH", pre |-> 1]
                [] x = o -> [state |-> "invariant_violation", reason |-> "missing_failed",
                             kind |-> "REPLACE", pre |-> 1]
                [] OTHER -> NoIntent]
        /\ outbox = [x \in Ops |-> CASE x = done -> "completed"
                                     [] x = o -> "pending" [] OTHER -> "none"]
        /\ remote = [id \in Ids |-> CASE id = Main(done) -> "succeeded"
                                      [] id = Main(o) -> "not_received"
                                      [] id = Comp(o) -> "pending"
                                      [] OTHER -> "absent"]
        /\ exec = [id \in Ids |-> IF id = Comp(o) THEN w ELSE None]
        /\ net = {}
        /\ pc = [x \in Workers |-> "idle"]
        /\ loc = [x \in Workers |-> NoLoc]

FairSpec ==
    (Init \/ EstablishedInit \/ CompensatingInit) /\ [][Next]_vars /\ Fairness

\* Requests that loaded the binding one after the other, the first when its
\* credential was at generation 1: two replacements or a delete have settled since.
\* When one of the requests is a delete, the last operation that overtook it holds
\* one of the ids; otherwise all of them are left to these requests.
OvertakenInit ==
    \E first \in Workers, req \in [Workers -> {"PUT", "DELETE"}],
       deleted \in BOOLEAN, last \in Ops :
        LET done == IF \E w \in Workers : req[w] = "DELETE" THEN {last} ELSE {}
            overtaken == [status |-> "active", gen |-> 1, key |-> TRUE]
            loaded(snap, w) == [NoLoc EXCEPT !.req = req[w], !.snap = snap]
        IN
        /\ binding = [status |-> IF deleted THEN "deleted" ELSE "active",
                      gen |-> IF deleted THEN 1 ELSE 3, key |-> TRUE]
        /\ cred = IF deleted THEN NoCred ELSE [exists |-> TRUE, gen |-> 3]
        /\ intent = [o \in Ops |->
                      IF o \notin done THEN NoIntent
                      ELSE [state |-> "succeeded", reason |-> "",
                            kind |-> IF deleted THEN "DELETE" ELSE "REPLACE",
                            pre |-> IF deleted THEN 1 ELSE 2]]
        /\ outbox = [o \in Ops |-> IF o \in done THEN "completed" ELSE "none"]
        /\ remote = [id \in Ids |-> IF id \in {Main(o) : o \in done} THEN "succeeded"
                                                                    ELSE "absent"]
        /\ exec = [id \in Ids |-> None]
        /\ net = {}
        /\ pc = [w \in Workers |->
                    IF deleted /\ req[w] = "DELETE" THEN "admit_delete" ELSE "loaded"]
        /\ \/ loc = [w \in Workers |-> loaded(overtaken, w)]
           \/ ~deleted /\ loc = [w \in Workers |->
                                  loaded(IF w = first THEN overtaken ELSE binding, w)]

OvertakenSpec == OvertakenInit /\ [][Next]_vars

=============================================================================
