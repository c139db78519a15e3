\* A name whose numbers are not a range.
CONSTANTS
    NFiles = 2
    Facts <- FewFacts
    Counts = {2}
    MaxWorks = 1
    MaxChanges = 1
SPECIFICATION Spec
INVARIANT PassesDoNotFail
