\* Without a scan interval, a stop requested just before event.clear() is slept
\* on for ever.
CONSTANTS
    SignalInsideEvent = FALSE
    MaxSignals = 1
    MaxNesting = 1
SPECIFICATION FairSpec
PROPERTIES StopIsHonoured
\* The process ends when it is stopped, and waits for ever when it has no
\* schedule and no signal is left to come.
CHECK_DEADLOCK FALSE
