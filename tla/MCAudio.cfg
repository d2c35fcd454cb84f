SPECIFICATION Spec
CONSTANTS
    SeqSpace = 12
    Capacity = 4
    MaxLead = 2
    Start = 10
    MaxPackets = 7
    Reorder = 2
    Retain = 4
    Outage = 2
    Backoff = 1
    FlushNames = {TRUE, FALSE}
    Jump = 10
    None = None
INVARIANTS
    FramesInPlace
    ConcealsInTime
    TimestampsNearAnchor
PROPERTIES
    NoStaleAudio
CHECK_DEADLOCK FALSE
