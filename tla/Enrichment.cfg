\* A title that can never be fetched, one that can, and a related work; two
\* hosts; failures and a crash at any request.
CONSTANTS
    NPrimaries = 2
    NRecords = 3
    Gone = {1}
    Hosts = {tenrai, jikan}
    MaxAttempts = 2
    MaxPages = 2
    MinInterval = 1
    MaxVersion = 2
    MaxFaults = 2
    MaxCrashes = 1
SPECIFICATION FairSpec
INVARIANTS PoliteSpacing CoverRowsAreBacked
PROPERTIES RefreshMeansCurrent RelatedCoversAreTried RecordsCatchUp EveryScanEnds
