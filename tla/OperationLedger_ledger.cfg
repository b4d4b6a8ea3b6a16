SPECIFICATION FairSpec
CONSTANTS
    Ops = {o1, o2}
    Calls = {c1, c2, c3}
    Unconfirmed = {c3}
    Fenced = Fenced
    Refs <- MCRefs
INVARIANTS EffectMatchesRecord ErrorIsFinal
PROPERTIES ImplementsAtMostOnce 
