SPECIFICATION FairSpec
CONSTANTS
    REPLAY_WINDOW = 2
    MAX_SKIP = 1
    Tasks = {ws, ui}
    None = None
    MaxAttempts = 3
    MaxFaults = 1
INVARIANT KeyErased
INVARIANT ReplayRefusesOpened
INVARIANT StoredKeysDistinct
INVARIANT DeliveredIsDurable
INVARIANT StatusIsTrue
INVARIANT RefusedForAReason
PROPERTY StoredIsSaved
PROPERTY ImplementsMailbox
