\* The owner corrects a match.
CONSTANTS
    a = a
    b = b
    c = c
    Records = {a, b, c}
    NoRecord = NoRecord
    NFiles = 2
    Sidecars <- Correction
    AutoMatch = a
    Relatives <- OneRelative
    Fits <- SomeFits
    MaxChanges = 1
    MaxFaults = 0
SPECIFICATION Spec
INVARIANT WrongMatchIsGone
