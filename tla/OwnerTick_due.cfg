SPECIFICATION FairSpec
CONSTANTS
    Dispatchers = {scheduler, other}
    Scheduler = scheduler
    MaxPids = 3
    MaxOps = 1
    MaxFaults = 1
INVARIANT TypeOK
PROPERTY OneTickAtATime
PROPERTY DueOwnerTicked
CHECK_DEADLOCK FALSE
