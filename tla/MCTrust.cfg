SPECIFICATION ChatSpec
CONSTANTS
    Keys = {k1, k2, k3}
    None = None
SYMMETRY KeySymmetry
INVARIANTS
    FlagIsTrue
    TrustSurvives
    VerifiedIsShown
    AlarmIsTrue
PROPERTY VerifiedIsPinned
