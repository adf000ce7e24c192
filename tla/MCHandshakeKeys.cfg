SPECIFICATION Spec
CONSTANTS
    Clients = {alice, bob}
    Initiators = {alice, bob}
    None = None
    MaxSends = 1
    MaxRestarts = 0
INVARIANT MessageKeysDistinct
CHECK_DEADLOCK FALSE
