SPECIFICATION FairSpec
CONSTANTS
    NTitles = 2
    BatchesOf <- MCBatchesOf
    Unlabelled = {1, 2}
    Oversized = {2}
    MaxCalls = 2
    CacheTtl = 1
    MaxDays = 2
    MaxChanges = 2
    MaxFaults = 1
    MaxCrashes = 1
INVARIANTS BoughtIsHeld OneMappingCallPerTitle
PROPERTIES PaidSpec EveryQuestionIsServed
