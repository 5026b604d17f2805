SPECIFICATION Spec
CONSTANTS
    Threads = {t1}
    Actors = {a1, a2}
    MaxTS = 1
    MaxOps = 3
    MaxFaults = 1
INVARIANTS TypeOK OneOpenCard ForwardedOnce
PROPERTIES AnswerStands VerdictFinal
SYMMETRY ActorSymmetry
