\* A known file is renamed to a path the catalogue has for another file.
CONSTANTS
    NFolders = 1
    NNames = 2
    Inodes = {i1, i2}
    NoFile = NoFile
    MaxEdits = 3
    MaxFaults = 0
SPECIFICATION FairSpec
PROPERTIES ScansCatchUp
