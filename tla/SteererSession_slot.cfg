SPECIFICATION Spec
CONSTANTS
    Actors = {cascade, operator}
    Turns = {t1, t2}
    MaxSessions = 3
    MaxOps = 2
    MaxFaults = 2
SYMMETRY TurnSymmetry
INVARIANT TypeOK
INVARIANT RowNamesAgent
PROPERTY SweepSparesWork
CHECK_DEADLOCK FALSE
