SPECIFICATION FairSpec
CONSTANTS
    Nudges = {n1}
    Events = {e1}
    MaxPauses = 1
    MaxFaults = 1
INVARIANT TypeOK
PROPERTIES ImplementsQueue StaleRowClears
