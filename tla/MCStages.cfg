SPECIFICATION StagesSpec
CONSTANTS
    None = None
    SeqSpace = 18
    Capacity = 6
    MaxLead = 4
    Skew = 5
    FirstRtp = 16
    Second = 3
    SampleRate = 2
    Interval = 3
    MaxDelay = 2
    MaxService = 1
    Window = 2
    MaxTime = 6
    MaxFrame = 4
    Threshold = 2
    MaxSent = 5
    Cases <- AllCases
    Space = 7
    Rate = 2
    MaxTotal = 5
    Starts = {0, 5}
    Nothing = Nothing
INVARIANTS
    TypeOK
    NoAliasing
    HighestStored
    OffsetWithin
    StartInTime
    NothingLost
    PrebufferFirst
    StartsOnFirstFrame
    FollowsAudio
PROPERTIES
    HeldBackIsMissing
    RefinesOrder
    DropReturns
CHECK_DEADLOCK FALSE
