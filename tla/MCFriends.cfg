SPECIFICATION Spec
CONSTANTS
    Users = {alice, bob}
    Handlers = {h1, h2}
    None = None
SYMMETRY HandlerSymmetry
INVARIANT ContactNeedsConsent
INVARIANT FriendsHaveConversation
INVARIANT FriendsWant
