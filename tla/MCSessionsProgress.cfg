SPECIFICATION Spec
CONSTANTS
    Conns = {c1}
    Threads = {t1, t2}
    Kinds = {}
    Values = {}
    MaxStarts = 1
    BadRequests = FALSE
    Password = FALSE
    c1 = c1
    t1 = t1
    t2 = t2
    None = None
INVARIANTS
    ProgressInsideSession
