SPECIFICATION Spec
CONSTANTS
    SeqSpace = 16
    Capacity = 4
    MaxLead = 2
    Start = 12
    MaxPackets = 7
    Reorder = 2
    Retain = 4
    Outage = 6
    Backoff = 1
    FlushNames = {}
    Jump = 0
    None = None
INVARIANTS
    ConcealsInTime
CHECK_DEADLOCK FALSE
