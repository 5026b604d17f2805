SPECIFICATION Spec
CONSTANTS
    w1 = w1
    w2 = w2
    w3 = w3
    NoWake = NoWake
    Wakes = {w1, w2, w3}
    MaxRunes = 2
    MaxAsks = 1
    MaxFaults = 1
SYMMETRY WakeSymmetry
INVARIANTS EachWakeSubmitted DraftGate PromptGate
