SPECIFICATION FairSpec
CONSTANTS
    SeqSpace = 12
    Capacity = 4
    MaxLead = 2
    Start = 10
    MaxPackets = 4
    Reorder = 2
    Retain = 4
    Outage = 2
    Backoff = 1
    FlushNames = {TRUE, FALSE}
    Jump = 10
    None = None
PROPERTIES
    HeldBackIsPlayed
CHECK_DEADLOCK FALSE
