SPECIFICATION Spec
CONSTANTS
    c1 = c1
    c2 = c2
    p1 = p1
    p2 = p2
    Clients = {c1, c2}
    Subscribers = {p1, p2}
    Messages <- MCMessages
    Backlog = 1
    FanoutBacklog = 2
    Capacity = 2
    MaxSessions = 2
    MaxOpened = 3
    MaxFaults = 1
SYMMETRY Symmetry
CHECK_DEADLOCK FALSE
INVARIANTS PumpFlagIsTrue WritersAreCounted ScrollbackIsTail StreamIsContiguous NobodyWaitsOnClosed
