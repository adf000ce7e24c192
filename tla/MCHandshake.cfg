SPECIFICATION FairSpec
CONSTANTS
    Clients = {alice, bob}
    Initiators = {alice, bob}
    None = None
    MaxSends = 1
    MaxRestarts = 1
INVARIANT TypeOK
INVARIANT SessionsAgree
PROPERTY StoredIsOpened
CHECK_DEADLOCK FALSE
