\* What the comment of Allow says of the paths below the one allowed.
CONSTANTS
    a = a
    r1 = r1
    alice = alice
    bob = bob
    Paths <- Branch
    Roles = {r1}
    Guest = Guest
    NoRole = NoRole
    Callers = {alice, bob}
    Mappers <- OneMapper
    NoMapper = NoMapper
    MaxCalls = 2
    MaxHandlers = 1
SPECIFICATION Spec
INVARIANT AccessAsDocumented
