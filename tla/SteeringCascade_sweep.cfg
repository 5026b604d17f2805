SPECIFICATION Spec
CONSTANTS
    Listeners = {l1}
    Sweeper = sweeper
    MaxMsgs = 2
    MaxLive = 1
    MaxTime = 1
    TTL = 1
    Lookback = 1
    Limit = 1
    SkipFor = 1
    MaxFaults = 1
INVARIANTS WatermarkCovers SentOnce CardOncePerVerdict
PROPERTIES ImplementsLog
