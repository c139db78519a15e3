\* Every set of eight files, two works, counts that change.
CONSTANTS
    NFiles = 8
    Facts <- SomeFacts
    Counts = {0, 1, 2}
    MaxWorks = 2
    MaxChanges = 1
SPECIFICATION Spec
INVARIANTS CountsAreEnforced OverlapsAreNamed SplitsAreComplete
PROPERTY DecisionsDoNotFlip
