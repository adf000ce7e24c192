SPECIFICATION ChatSpec
CONSTANTS
    Keys = {k1, k2, k3}
    None = None
PROPERTY WarningRemains
