CONSTANTS
    agent = agent
    user = user
    proxy = proxy
    a1 = a1
    a2 = a2
    u1 = u1
    x1 = x1
    WsPeers = {agent, user}
    Proxies = {proxy}
    Conns = {a1, a2, u1, x1}
    Owner <- MCOwner
    Requests <- MCRequests
    Nodes = {n1, n2}
    NoNode = NoNode
    Nobody = Nobody
SPECIFICATION FairSpec
CHECK_DEADLOCK FALSE
INVARIANTS TunnelsConsistent ViewIsCurrent NoGhostNode
PROPERTIES StaleCloseIsHarmless OverwrittenEnds
