SPECIFICATION Spec
CONSTANTS
    Avatar = {a1, a2, a3}
    Attribute = {t0, t1}
    MaxFaults = 1
    MaxEntries = 2
SYMMETRY AvatarSymmetry
VIEW NoResult
CONSTRAINT ContactsOrAttributes
INVARIANTS
    TypeOK
    ContactsCached
    CleanPairsAgree
    ListsDisjoint
    OnlineAgree
    AttributesAgree
