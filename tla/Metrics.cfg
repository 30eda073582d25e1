\* Two handlers emit to one series of the in-memory sink while the clock
\* passes two intervals; a handler and the runtime collector emit into each
\* sink and into all while filters change, time passes and readers look on.
CONSTANTS
    Interval = 1
    MaxIntervals = 2
    QueueSize = 1
    StatsdMaxLen = 5
    MaxFailures = 1
    Expiration = 1
    MaxCalls = 4
    h1 = h1
    h2 = h2
    collector = collector
    Emitters = {h1, h2, collector}
    Collector = collector
    Readers = {endpoint, signal}
    Signal = signal
    Requests <- MCRequests
    Configs <- MCConfigs
    Filters <- MCFilters
    PauseWindow = 2
SPECIFICATION FairSpec
INVARIANTS SamplesAccounted DisplaysFinished PacketsInOrder LabelsKept
PROPERTIES NeverStuck DroppedWhenStale
CHECK_DEADLOCK FALSE
