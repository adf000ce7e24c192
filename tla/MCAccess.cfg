SPECIFICATION AccessOrLimitSpec
CONSTANTS
    Devices = {d1, d2}
    Handlers = {h1, h2}
    MaxKeys = 2
    MaxSessions = 3
    None = None
    Callers = {c1, c2, c3}
    max_attempts = 1
    window = 2
    MaxTime = 5
    Null = Null
SYMMETRY HandlerSymmetry
INVARIANTS
    TypeOK
    KeystoreMatches
    HeldIsUnrevoked
    LimitTypeOK
    SpanHolds
    LockoutHolds
