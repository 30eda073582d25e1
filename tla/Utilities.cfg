\* A throttle with two consumers, with trailing and without.  The pool of
\* slot p has room for the sessions of all users, that of q for those of
\* two.  The pair in use while files are replaced, a client reloads and
\* Close is called.
CONSTANTS
    Consumers = {c1, c2}
    Period = 2
    MaxTime = 6
    MaxTriggers = 3
    Users <- Goroutines
    p = p
    q = q
    Slots = {p, q}
    Default = p
    Capacity <- Capacities
    MaxSessions = 4
    NoSlot = NoSlot
    Clients = {c1}
    Closers = {x1}
    None = None
    KeyOf <- RenewThenRekey
    MaxKey = 2
    Tries = 2
    MaxReloads = 1
    MaxStatErrors = 1
SPECIFICATION FairSpec
INVARIANTS OneNextPerTrigger ExclusiveUse NoneLost ServedPairMatches
PROPERTIES LeadingRate ThrottleProgress UserReturns NeverServesOlder DiskPairServed
CHECK_DEADLOCK FALSE
