SPECIFICATION FairSpec
CONSTANTS
    r1 = r1
    r2 = r2
    h1 = h1
    Runs = {r1, r2}
    Handlers = {h1}
    StartCursors <- Unseeded
    Quiet = {1}
    MaxEntries = 2
    MaxStops = 1
    MaxFaults = 1
INVARIANTS NothingSkipped
PROPERTIES ImplementsLog EventDelivered
CHECK_DEADLOCK FALSE
