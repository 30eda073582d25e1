SPECIFICATION Spec
CONSTANTS
    Services = {s1}
    Requests = {r1, r2}
    None = None
    App = App
    Configs <- MCConfigs
CHECK_DEADLOCK FALSE
INVARIANT StoppedIsDrained UnavailableForAReason StatusRecorded
PROPERTY ServerProgress
