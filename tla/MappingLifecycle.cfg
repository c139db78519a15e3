\* Seven sidecars, edited, expired and crashed between and during scans.
CONSTANTS
    a = a
    b = b
    c = c
    Records = {a, b, c}
    NoRecord = NoRecord
    NFiles = 2
    Sidecars <- SomeSidecars
    AutoMatch = a
    Relatives <- OneRelative
    Fits <- SomeFits
    MaxChanges = 2
    MaxFaults = 2
SPECIFICATION FairSpec
INVARIANTS TypeOK OwnerDecides EvidenceBeatsModel
PROPERTIES OutagesKeepMappings CorrectionsTakeEffect
