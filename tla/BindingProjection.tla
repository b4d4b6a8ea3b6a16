-------------------------- MODULE BindingProjection --------------------------
(* What account-center shows of one binding: its row, and the profile rows it
   projects from the summaries of the platform.  A request or a task reads a
   summary, then persists it and replaces the profile rows in two transactions
   that lock the row of the binding; a change of status reads the row and saves
   all of it without a lock. *)
EXTENDS Naturals

CONSTANTS
    Handlers,     \* requests and tasks at once (a bound)
    NoOne,
    Profiles,
    MaxRevision   \* bound: the revisions of the platform's profiles

VARIABLES
    platform,     \* the summary there is to read
    row,          \* platform_account_bindings
    rows,         \* platform_account_profiles: the snapshot they come from
    rowLock,      \* the transaction that has the row
    jobPc, job,   \* the step of every handler and what it has read
    newest,       \* history: the newest snapshot ever projected
    overwritten   \* history: an older row has been saved over a newer one

projectionVars == <<platform, row, rows, rowLock, jobPc, job, newest, overwritten>>

NoRows == [revision |-> 0, keys |-> {}, primary |-> NoOne]
Idle == [revision |-> 0]

\* A complete summary lists profiles, one of them primary or none.
Summary(generation, revision, complete, keys, primary) ==
    [generation |-> generation, revision |-> revision, complete |-> complete,
     keys |-> keys, primary |-> primary]

Live == row.life = "live"
Free == rowLock = NoOne
Goto(j, step) == jobPc' = [jobPc EXCEPT ![j] = step]
Stop(j) == Goto(j, "idle") /\ job' = [job EXCEPT ![j] = Idle]

Init ==
    /\ platform = Summary(1, 1, TRUE, {}, NoOne)
    /\ row = [life |-> "live", generation |-> 0, revision |-> 0, primary |-> NoOne]
    /\ rows = NoRows /\ rowLock = NoOne
    /\ jobPc = [j \in Handlers |-> "idle"] /\ job = [j \in Handlers |-> Idle]
    /\ newest = 0 /\ overwritten = FALSE

\* An operation of the platform: a refresh that needs attention leaves the
\* snapshot incomplete, a change of the primary profile keeps the generation.
Advance ==
    /\ platform.revision < MaxRevision
    /\ \E generation \in {platform.generation, platform.generation + 1},
          keys \in SUBSET Profiles, complete \in BOOLEAN :
        \E primary \in keys \union {NoOne} :
            platform' = Summary(generation, platform.revision + 1, complete, keys, primary)
    /\ UNCHANGED <<row, rows, rowLock, jobPc, job, newest, overwritten>>

-----------------------------------------------------------------------------
\* RepairProjection, or an operation whose outcome is projected.
ReadSummary(j) ==
    /\ jobPc[j] = "idle" /\ Live
    /\ job' = [job EXCEPT ![j] = platform]
    /\ Goto(j, "persist")
    /\ UNCHANGED <<platform, row, rows, rowLock, newest, overwritten>>

PersistRuntimeSummary(j) ==
    LET s == job[j]
        stale == s.generation < row.generation
        revision == IF s.revision >= row.revision THEN s.revision ELSE row.revision IN
    /\ jobPc[j] = "persist" /\ Free
    /\ IF Live /\ ~stale
       THEN row' = [row EXCEPT !.generation = s.generation, !.revision = revision]
       ELSE UNCHANGED row
    /\ IF Live /\ s.complete THEN Goto(j, "sync") /\ UNCHANGED job ELSE Stop(j)
    /\ UNCHANGED <<platform, rows, rowLock, newest, overwritten>>

NotLocked(j) == NoOne
Locked(j) == j

NotOlder(j) == job[j].revision >= row.revision

\* SyncProfiles: under the lock of the row, unless the row knows better ...
SyncProfiles(j) ==
    /\ jobPc[j] = "sync" /\ Free
    /\ IF Live /\ NotOlder(j)
       THEN rowLock' = Locked(j) /\ Goto(j, "write") /\ UNCHANGED job
       ELSE Stop(j) /\ UNCHANGED rowLock
    /\ UNCHANGED <<platform, row, rows, newest, overwritten>>

\* ... the profile rows and the primary one are replaced; a deleted row is not
\* updated any more.
ReplaceProfiles(j) ==
    LET s == job[j] IN
    /\ jobPc[j] = "write"
    /\ rows' = [revision |-> s.revision, keys |-> s.keys, primary |-> s.primary]
    /\ row' = IF Live THEN [row EXCEPT !.primary = s.primary] ELSE row
    /\ newest' = IF s.revision > newest THEN s.revision ELSE newest
    /\ rowLock' = NoOne /\ Stop(j)
    /\ UNCHANGED <<platform, overwritten>>

-----------------------------------------------------------------------------
\* The row is read for a change of its status, or to be deleted.
GetBinding(j) ==
    /\ jobPc[j] = "idle" /\ Live
    /\ job' = [job EXCEPT ![j] = row]
    /\ \E step \in {"save", "delete"} : Goto(j, step)
    /\ UNCHANGED <<platform, row, rows, rowLock, newest, overwritten>>

\* fk_platform_account_bindings_primary_profile
Referenced(primary) == primary \in rows.keys \union {NoOne}

\* Save is an upsert of every column: what happened to the row since is undone,
\* its deletion too.
UpdateBindingStatus(j) ==
    /\ jobPc[j] = "save" /\ Free
    /\ Referenced(job[j].primary)
    /\ row' = job[j]
    /\ overwritten' = (overwritten \/ row' # row)
    /\ Stop(j)
    /\ UNCHANGED <<platform, rows, rowLock, newest>>

DeleteBinding(j) ==
    /\ jobPc[j] = "delete" /\ Free
    /\ Referenced(job[j].primary)
    /\ row' = [job[j] EXCEPT !.life = "deleted", !.primary = NoOne]
    /\ rows' = NoRows
    /\ Stop(j)
    /\ UNCHANGED <<platform, rowLock, newest, overwritten>>

\* The platform is unreachable, a constraint refuses, the process dies.
GiveUp(j) ==
    /\ jobPc[j] # "idle"
    /\ rowLock' = IF rowLock = j THEN NoOne ELSE rowLock
    /\ Stop(j)
    /\ UNCHANGED <<platform, row, rows, newest, overwritten>>

Next ==
    \/ Advance
    \/ \E j \in Handlers :
        \/ ReadSummary(j) \/ PersistRuntimeSummary(j)
        \/ SyncProfiles(j) \/ ReplaceProfiles(j)
        \/ GetBinding(j) \/ UpdateBindingStatus(j) \/ DeleteBinding(j) \/ GiveUp(j)

Spec == Init /\ [][Next]_projectionVars

-----------------------------------------------------------------------------
\* However a deletion and projections overlap, and whatever order summaries arrive in,
\* a deleted binding has no profiles, and the profiles of another are those of the
\* newest snapshot projected so far and agree with the row on the primary one:
\* unless an unlocked save has put an older row back.
ProjectionIsCurrent ==
    /\ ~Live => rows = NoRows
    /\ Live /\ ~overwritten => rows.revision = newest /\ row.primary = rows.primary
=============================================================================
