SPECIFICATION Spec
CONSTANTS
    x1 = x1
    x2 = x2
    g1 = g1
    g2 = g2
    Avatar = {a1, a2}
    RoomAddress <- OneAddress
    Galaxy = {g1}
    Below <- OneBelow
    AttributeSets <- RoleSets
    MaxRoomId = 3
    MaxRows = 1
    MaxFaults = 0
    MaxRoles = 3
SYMMETRY AvatarSymmetry
VIEW NoResult
CONSTRAINT FewRoles
INVARIANTS
    RolesPersisted
