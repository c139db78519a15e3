\* A service, a one-shot scan and a mapping command; crashes and failures at
\* any point, in the rollback too; two process ids, one of which a stranger
\* may get.
CONSTANTS
    Services = {serve}
    Scanners = {scan}
    Editors = {edit}
    NoProcess = NoProcess
    MaxVersion = 2
    MaxFaults = 2
    MaxCrashes = 2
    Pids = {p1, p2}
    NoPid = NoPid
SPECIFICATION FairHealthSpec
INVARIANTS SiteIsWhole SiteIntact RetainsGoodSite HealthIsTruthful
PROPERTIES ImplementsPublishedSite HealthComesBack
