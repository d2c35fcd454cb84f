SPECIFICATION Spec
CONSTANTS
    First = 1
    MaxBackoff = 2
    MaxUpdates = 1
    Vanishes = TRUE
    Messages <- MCMessages
    Sizes <- MCSizes
    Values = {1, 3}
    Undecodable = {3}
    None = None
INVARIANTS
    ReplacedAfterResize
CHECK_DEADLOCK FALSE
