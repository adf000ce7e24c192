SPECIFICATION Spec
CONSTANTS
    REPLAY_WINDOW = 2
    MAX_SKIP = 2
    Tasks = {ws}
    None = None
    MaxAttempts = 3
    MaxFaults = 0
INVARIANT NextCounterFree
