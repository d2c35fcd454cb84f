SPECIFICATION FairSpec
CONSTANTS
    Clients = {1, 2}
    Readers = {1}
    Messages <- MCMessages
    Values = {1, 2}
    Capacity = 1
    Room = 1
    MaxEvents = 3
    MaxLosses = 1
    None = None
INVARIANTS
    CaughtUpAgrees
PROPERTIES
    ReadersBecomeCurrent
CHECK_DEADLOCK FALSE
