\* Relation graphs of five records, refreshed between discoveries.
CONSTANTS
    NRecords = 5
    Graphs <- Layered
    Limits <- SmallLimits
    MaxChanges = 1
    MaxFaults = 1
SPECIFICATION FairSpec
INVARIANTS DistancesAreShortest NearestWorksFirst CompleteDiscoveryIsBounded
PROPERTIES OutagesForgetNothing DiscoverySettles
