\* Signals anywhere, inside the event's methods too, with and without a scan
\* interval.
CONSTANTS
    SignalInsideEvent = TRUE
    MaxSignals = 3
    MaxNesting = 3
SPECIFICATION FairSpec
INVARIANT NeverSleepsOnARequest
PROPERTY ImplementsScanScheduler
PROPERTIES RequestIsServed PeriodicStopIsHonoured ScansRecur
\* The process ends when it is stopped, and waits for ever when it has no
\* schedule and no signal is left to come.
CHECK_DEADLOCK FALSE
