------------------------------ MODULE JwksCache ------------------------------
(* The key set of an OpenID provider, cached and fetched again when a key is not
   in it or it has grown old.  A lookup holds the mutex from its look at the
   cache to the end of its fetch. *)
CONSTANTS
    Handlers,    \* lookups at once (a bound)
    NoOne,
    KeyIds

VARIABLES
    published,   \* the keys of the provider
    cached,      \* jwksCache.keys
    fresh,       \* fetchedAt is younger than ttl
    mutex,
    lPc, wanted, \* the step of every lookup and the key id it is for
    fetchedFor   \* history: keys that a fetch for them has brought

jwksVars == <<published, cached, fresh, mutex, lPc, wanted, fetchedFor>>

Goto(l, at) == lPc' = [lPc EXCEPT ![l] = at]

Init ==
    /\ published \in SUBSET KeyIds
    /\ cached = {} /\ fresh = FALSE
    /\ mutex = NoOne
    /\ lPc = [l \in Handlers |-> "idle"] /\ wanted \in [Handlers -> KeyIds]
    /\ fetchedFor = {}

\* The provider rotates its keys; the cache grows old.
RotateKeys ==
    /\ published' \in SUBSET KeyIds \ {published}
    /\ fetchedFor' = fetchedFor \intersect published'
    /\ UNCHANGED <<cached, fresh, mutex, lPc, wanted>>

GrowOld ==
    /\ fresh
    /\ fresh' = FALSE /\ fetchedFor' = {}
    /\ UNCHANGED <<published, cached, mutex, lPc, wanted>>

Verify(l) ==
    /\ lPc[l] = "idle"
    /\ \E kid \in KeyIds : wanted' = [wanted EXCEPT ![l] = kid]
    /\ Goto(l, "lock")
    /\ UNCHANGED <<published, cached, fresh, mutex, fetchedFor>>

NotAwaited(l) == TRUE
MutexFree(l) == mutex = NoOne

LookupKey(l) ==
    /\ lPc[l] = "lock" /\ MutexFree(l)
    /\ IF wanted[l] \in cached /\ fresh
       THEN Goto(l, "idle") /\ UNCHANGED mutex
       ELSE Goto(l, "fetch") /\ mutex' = l
    /\ UNCHANGED <<published, cached, fresh, wanted, fetchedFor>>

\* The answer replaces the set and makes it young; a failure, or a set without
\* a usable key, leaves the cache as it is.
FetchLocked(l) ==
    /\ lPc[l] = "fetch"
    /\ \/ /\ published # {}
          /\ cached' = published /\ fresh' = TRUE
          /\ fetchedFor' = IF wanted[l] \in published
                           THEN fetchedFor \union {wanted[l]} ELSE fetchedFor
       \/ UNCHANGED <<cached, fresh, fetchedFor>>
    /\ mutex' = NoOne
    /\ Goto(l, "idle")
    /\ UNCHANGED <<published, wanted>>

Next ==
    \/ RotateKeys \/ GrowOld
    \/ \E l \in Handlers : Verify(l) \/ LookupKey(l) \/ FetchLocked(l)

Spec == Init /\ [][Next]_jwksVars

-----------------------------------------------------------------------------
\* Lookups of a key share one fetch: while the provider publishes it and the
\* set has not grown old, none fetches it after another has brought it.
FetchesCoalesce ==
    \A l \in Handlers : lPc[l] = "fetch" => wanted[l] \notin fetchedFor
=============================================================================
