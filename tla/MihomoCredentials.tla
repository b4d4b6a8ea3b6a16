-------------------------- MODULE MihomoCredentials --------------------------
(* The credential row of one binding on platform-mihomo.  Operations change it
   in a transaction that locks the row first; a bot's ValidateCredential and the
   re-encryption task read it without a lock and write later, after a call of
   the game's upstream or a turn of the key ring.
   An envelope is a secret and the key it is encrypted with. *)
EXTENDS Naturals

CONSTANTS
    Handlers,       \* requests and tasks at once (a bound)
    NoOne,
    Secrets,
    MaxGeneration   \* bound: the highest generation and revision operations reach

VARIABLES
    credential,     \* the row: generation, secret, key, status, complete, revision
    locked,         \* the transaction that has the row
    vPc, v,         \* the step of every handler and the row it has read
    said            \* history: what the upstream has said of each secret

mihomoVars == <<credential, locked, vPc, v, said>>

Absent == [generation |-> 0]
Exists == credential # Absent
At(p, step) == vPc[p] = step
Goto(p, step) == vPc' = [vPc EXCEPT ![p] = step]
Stop(p) == Goto(p, "idle") /\ v' = [v EXCEPT ![p] = Absent]
Free == locked = NoOne

\* What the upstream says of a secret: anything, again and again.
Says(secret, status) == said' = said \union {<<secret, status>>}

Bound(generation, secret, revision) ==
    [generation |-> generation, secret |-> secret, key |-> "new", status |-> "active",
     complete |-> TRUE, revision |-> revision]

\* The envelope of a row encrypted anew when its key is retired.
Reencrypted(row) == [row EXCEPT !.key = "new"]

Init ==
    /\ credential \in {Absent} \union
          {[generation |-> 1, secret |-> s, key |-> key, status |-> "active",
            complete |-> TRUE, revision |-> 1] : s \in Secrets, key \in {"old", "new"}}
    /\ said = IF Exists THEN {<<credential.secret, "active">>} ELSE {}
    /\ locked = NoOne
    /\ vPc = [p \in Handlers |-> "idle"] /\ v = [p \in Handlers |-> Absent]

-----------------------------------------------------------------------------
\* BindCredentialIfAbsent
BindCredential(p) ==
    \E s \in Secrets :
        /\ At(p, "idle") /\ ~Exists
        /\ Says(s, "active")
        /\ credential' = Bound(1, s, 1)
        /\ UNCHANGED <<locked, vPc, v>>

\* The first statement of every other operation: the row, at the generation the
\* operation expects, is updated and stays locked until the transaction ends.
AdvanceGeneration(p) ==
    /\ At(p, "idle") /\ Exists /\ Free
    /\ credential.generation < MaxGeneration /\ credential.revision < MaxGeneration
    /\ locked' = p
    /\ \E kind \in {"replace", "refresh", "delete"} : Goto(p, kind)
    /\ v' = [v EXCEPT ![p] = [credential EXCEPT !.generation = @ + 1]]
    /\ UNCHANGED <<credential, said>>

Commit(p, row) == credential' = row /\ locked' = NoOne /\ Stop(p)

ReplaceCredential(p) ==
    \E s \in Secrets :
        /\ At(p, "replace")
        /\ Says(s, "active")
        /\ Commit(p, Bound(v[p].generation, s, v[p].revision + 1))

\* RefreshCredential: the upstream rotates the secret, or wants attention for it.
RefreshCredential(p) ==
    /\ At(p, "refresh")
    /\ \/ \E s \in Secrets : /\ Says(s, "active")
                             /\ Commit(p, Bound(v[p].generation, s, v[p].revision + 1))
       \/ /\ Says(v[p].secret, "attention")
          /\ Commit(p, [Reencrypted(v[p]) EXCEPT !.status = "attention", !.complete = FALSE])

DeleteCredential(p) ==
    /\ At(p, "delete")
    /\ Commit(p, Absent)
    /\ UNCHANGED said

\* The upstream cannot be reached or refuses, the process dies, a lock times out.
GiveUp(p) ==
    /\ ~At(p, "idle")
    /\ locked' = IF locked = p THEN NoOne ELSE locked
    /\ Stop(p)
    /\ UNCHANGED <<credential, said>>

\* AdvanceProfileRevision, for a request that expects the revision there is.
SetPrimaryProfile(p) ==
    /\ At(p, "idle") /\ Exists /\ Free
    /\ credential.complete /\ credential.revision < MaxGeneration
    /\ credential' = [credential EXCEPT !.revision = @ + 1]
    /\ UNCHANGED <<locked, vPc, v, said>>

-----------------------------------------------------------------------------
\* ValidateCredential reads the row, and asks the upstream about its secret.
ValidateCredential(p) ==
    /\ At(p, "idle") /\ Exists
    /\ v' = [v EXCEPT ![p] = credential]
    /\ Goto(p, "ask")
    /\ UNCHANGED <<credential, locked, said>>

Revalidate(p) ==
    /\ At(p, "ask")
    /\ \/ Says(v[p].secret, "active") /\ Goto(p, "save")
       \/ Says(v[p].secret, "attention") /\ Goto(p, "attend")
    /\ UNCHANGED <<credential, locked, v>>

\* Save is an upsert of every column but the generation: it brings a secret
\* that was replaced back, and a row that was deleted.
SaveValidated(p) ==
    /\ At(p, "save") /\ Free
    /\ LET row == [Reencrypted(v[p]) EXCEPT !.status = "active"] IN
       credential' = IF Exists THEN [row EXCEPT !.generation = credential.generation] ELSE row
    /\ Stop(p)
    /\ UNCHANGED <<locked, said>>

AnySecret(p) == TRUE
SameSecret(p) == credential.secret = v[p].secret

\* saveAttentionAndInvalidateArtifacts: under the lock, and only on the secret
\* that was asked about.
SaveAttention(p) ==
    /\ At(p, "attend") /\ Free
    /\ IF Exists /\ credential.generation = v[p].generation /\ SameSecret(p)
       THEN credential' = [Reencrypted(credential) EXCEPT !.status = "attention",
                                                          !.complete = v[p].complete]
       ELSE UNCHANGED credential
    /\ Stop(p)
    /\ UNCHANGED <<locked, said>>

-----------------------------------------------------------------------------
\* ReencryptAll: an envelope of a retired key is read ...
ListRetired(p) ==
    /\ At(p, "idle") /\ Exists /\ credential.key = "old"
    /\ v' = [v EXCEPT ![p] = credential]
    /\ Goto(p, "reencrypt")
    /\ UNCHANGED <<credential, locked, said>>

\* ... and replaced if it is still the one there.
ReencryptCredentialBlob(p) ==
    /\ At(p, "reencrypt") /\ Free
    /\ credential' = IF Exists /\ SameSecret(p) /\ credential.key = v[p].key
                     THEN [credential EXCEPT !.secret = v[p].secret, !.key = "new"]
                     ELSE credential
    /\ Stop(p)
    /\ UNCHANGED <<locked, said>>

Next ==
    \E p \in Handlers :
        \/ BindCredential(p) \/ AdvanceGeneration(p) \/ ReplaceCredential(p)
        \/ RefreshCredential(p) \/ DeleteCredential(p) \/ GiveUp(p)
        \/ SetPrimaryProfile(p) \/ ValidateCredential(p) \/ Revalidate(p)
        \/ SaveValidated(p) \/ SaveAttention(p)
        \/ ListRetired(p) \/ ReencryptCredentialBlob(p)

Spec == Init /\ [][Next]_mihomoVars

-----------------------------------------------------------------------------
\* Whatever validations, replacements, refreshes and re-encryptions overlap, the
\* status of the row is what the upstream said of the secret in the row.
StatusIsOfTheSecret == Exists => <<credential.secret, credential.status>> \in said
=============================================================================
