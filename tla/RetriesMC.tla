----------------------------- MODULE RetriesMC -----------------------------
(* What is tried again until it is done, for TLC: the fences of one grant, and the
   revocation of one auth key with a request at work and the cleanup task beside it.
   They share no state: `part` says at the start which of them moves. *)
EXTENDS GrantPropagationMC

CONSTANTS Keys, Scopes, None, Request, Cleaner
VARIABLES part, up, row, intent, lease, settled, active, fenced, holder, step, loc, got, missed

A == INSTANCE ArtifactLifecycle WITH pc <- step, Procs <- {Request, Cleaner}
artifactVars ==
    <<up, row, intent, lease, settled, active, fenced, holder, step, loc, got, missed>>

\* Without a worker nothing is fair to happen to the grant.
NoWorker ==
    /\ grant = [c \in Consumers |->
                  [status |-> "none", version |-> 0, invalidated |-> FALSE, pending |-> 0]]
    /\ identity = [b \in Bots |-> [linked |-> FALSE, epoch |-> 1]]
    /\ unlink = [u \in Unlinks |-> [state |-> "none", bot |-> CHOOSE b \in Bots : TRUE,
                                    epoch |-> 0, targets |-> {}, confirmed |-> {}]]
    /\ generation = 1 /\ credential = 1
    /\ fence = [c \in Consumers |-> [version |-> 0, epoch |-> 0]]
    /\ applied = {} /\ refused = {} /\ net = {} /\ tickets = {}
    /\ pc = [w \in Workers |-> "absent"]
    /\ call = [w \in Workers |-> NoCall] /\ task = [w \in Workers |-> Idle]

RetriesInit ==
    /\ part \in {"grants", "artifacts"}
    /\ IF part = "grants" THEN Init ELSE NoWorker
    /\ A!Init

InGrants == part = "grants"
OnlyGrants == UNCHANGED <<part, artifactVars>>
InArtifacts == part = "artifacts"
OnlyArtifacts == UNCHANGED <<part, vars>>

RetriesNext ==
    \/ InGrants /\ Next /\ OnlyGrants
    \/ InArtifacts /\ A!Issuing(Request) /\ OnlyArtifacts
    \/ InArtifacts /\ A!Invalidating(Request) /\ OnlyArtifacts
    \/ InArtifacts /\ A!Cleanup(Cleaner) /\ OnlyArtifacts
    \/ InArtifacts /\ A!RevocationsEnd(Cleaner) /\ OnlyArtifacts
    \/ \E p \in {Request, Cleaner} :
        \/ InArtifacts /\ A!Revoking(p) /\ OnlyArtifacts
        \/ InArtifacts /\ A!Failure(p) /\ OnlyArtifacts
    \/ InArtifacts /\ A!DeleteExpired /\ OnlyArtifacts
    \/ \E k \in Keys : InArtifacts /\ A!Expire(k) /\ OnlyArtifacts

RetriesSpec ==
    RetriesInit /\ [][RetriesNext]_<<part, vars, artifactVars>> /\ Fairness /\ A!Fairness

IntentsSettle == A!IntentsSettle
=============================================================================
