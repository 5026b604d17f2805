SPECIFICATION FairSpec
CONSTANTS
    Actions = {a1, a2}
    MaxDrains = 2
    MaxHold = 2
    MaxEvents = 1
INVARIANTS ReplayedOncePerFault ReplayFifo RowHasTimer
PROPERTIES HeldActionReplayed
