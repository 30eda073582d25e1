\* A request emits two metrics with one slice of tags, one of them blocked.
CONSTANTS
    Interval = 1
    MaxIntervals = 2
    QueueSize = 1
    StatsdMaxLen = 5
    MaxFailures = 1
    Expiration = 1
    MaxCalls = 4
    h1 = h1
    h2 = h2
    collector = collector
    Emitters = {h1, h2, collector}
    Collector = collector
    Readers = {endpoint, signal}
    Signal = signal
    Requests <- MCRequests
    Configs <- MCConfigs
    Filters <- MCFilters
    PauseWindow = 2
SPECIFICATION FairSpec
INVARIANT LabelsOnce
CHECK_DEADLOCK FALSE
