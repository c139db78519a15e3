\* Scans of a collection that changes between them and under them.
CONSTANTS
    NFolders = 2
    NNames = 2
    Inodes = {i1, i2}
    NoFile = NoFile
    MaxEdits = 4
    MaxFaults = 1
SPECIFICATION FairSpec
INVARIANTS TypeOK SuccessMirrorsTree
PROPERTIES PartialScansHideNothing RenamesKeepIdentity ScansCatchUpOrConflict
