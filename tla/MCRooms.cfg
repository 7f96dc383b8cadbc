SPECIFICATION Spec
CONSTANTS
    x1 = x1
    x2 = x2
    g1 = g1
    g2 = g2
    Avatar = {a1, a2}
    RoomAddress <- TwoAddresses
    Galaxy <- TwoGalaxies
    Below <- NestedBelow
    AttributeSets <- AllSets
    MaxRoomId = 4
    MaxRows = 3
    MaxFaults = 2
    MaxRoles = 2
SYMMETRY AvatarSymmetry
VIEW NoResult
CONSTRAINT StoredOrRuled
INVARIANTS
    LoadedRoomsUnruled
    RoomsDistinct
    StoreMatches
