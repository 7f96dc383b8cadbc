SPECIFICATION LoadSpec
CONSTANTS
    Avatar = {a1, a2, a3}
    Attribute = {t0}
    MaxFaults = 1
    MaxEntries = 2
SYMMETRY AvatarSymmetry
VIEW LoadView
CONSTRAINTS
    FewEntries
    OneOnline
    FewAfterFailure
INVARIANTS
    NoReentry
    ReturnedComplete
PROPERTIES
    WalkEnds
    ImplementsAvatars
