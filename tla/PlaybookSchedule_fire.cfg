SPECIFICATION FairSpec
CONSTANTS
    Launchers = {ticker, other}
    Ticker = ticker
    MaxRuns = 2
    MaxSups = 2
    MaxOps = 1
    MaxFaults = 1
INVARIANTS NoOverlap SupervisorShown
PROPERTIES QuietKept ScheduleFires
CHECK_DEADLOCK FALSE
