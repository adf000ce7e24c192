SPECIFICATION ConversationSpec
SYMMETRY UnreadSymmetry
CONSTANTS
    Msgs = {m1, m2}
    Marks = {r1, r2}
    None = None
    Own = {i4}
    Ids = {i1, i2, i3, i4}
    Times = {1, 2, 3}
    Limit = 2
    NoCursor = NoCursor
INVARIANTS
    TypeOK
    CountIsPlausible
    BadgeShown
    HistoryTypeOK
    OldestFirst
    MissesOnlyTies
PROPERTY SyncEnds
