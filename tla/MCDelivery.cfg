SPECIFICATION FairSpec
CONSTANTS
    Msgs = {1}
    Conns = {c1, c2, c3}
    None = None
INVARIANT RegisteredMissesNothing
INVARIANT DeliveredWasOpened
PROPERTY StoredReaches
PROPERTY ImplementsMailbox
CHECK_DEADLOCK FALSE
