SPECIFICATION Spec
CONSTANTS
    Msgs = {1}
    Conns = {c1, c2}
    None = None
INVARIANT OnlineIsRegistered
CHECK_DEADLOCK FALSE
