\* Two goroutines log while rotators are opened and closed in any order;
\* loggers are registered, derived, set to levels and logged through.
CONSTANTS
    Repos = {"r"}
    Pkgs = {"p", "q"}
    Callers = {c1, c2}
    Modes <- MCModes
    QueueSize = 1
    Confs <- MCConfs
    Bounds <- MCBounds
SPECIFICATION FairSpec
INVARIANTS ClosedIsOnDisk ContextKept LevelByLastCall
PROPERTY LoggersReturn
CHECK_DEADLOCK FALSE
