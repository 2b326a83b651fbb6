CONSTANTS
    Tokens = {t1, t2}
    u1 = u1
    Users = {u1}
    Owner <- OneOwner
    Replicas = {r1, r2}
    Ttl = 2
    MaxLag = 1
    SweepInterval = 2
    SweepSize = 2
SPECIFICATION Spec
SYMMETRY Interchangeable
INVARIANTS StaleBounded
