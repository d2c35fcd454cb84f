SPECIFICATION FairSpec
CONSTANTS
    Conns = {c1, c2}
    Threads = {t1, t2}
    Kinds = {"Metadata"}
    Values = {m1, m2}
    MaxStarts = 2
    BadRequests = TRUE
    Password = TRUE
    c1 = c1
    c2 = c2
    t1 = t1
    t2 = t2
    m1 = m1
    m2 = m2
    None = None
INVARIANTS
    TypeOK
    OneOwner
    OneSink
    OverlapOnlyInTeardown
    ProgressEndsWithPlayer
    DecorationInsideSession
    HostIsUpToDate
    StrangersGetNothing
PROPERTIES
    RefinesSlot
    HandlersReturn
