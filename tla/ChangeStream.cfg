CONSTANTS
    e1 = e1  e2 = e2  e3 = e3  s1 = s1  sA = sA  sB = sB
    Entity = {e1, e2, e3}
    Scope = {sA, sB}
    ScopeOf <- ScopesOfThree
    Subscriber = {s1}
    Home <- OneHome
    Filter <- OneFilter
    NoCursor = NoCursor
    PageLimit = 2
    MaxCursor = 3
    MaxBatch = 2
SPECIFICATION FairStreamsSpec
INVARIANT NoSilentGap
PROPERTY ExpiryIsJustified EveryChangeIsDelivered
