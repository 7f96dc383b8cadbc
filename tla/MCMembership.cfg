SPECIFICATION MembershipSpec
CONSTANTS
    a1 = a1
    a2 = a2
    b1 = b1
    x1 = x1
    g1 = g1
    g2 = g2
    Avatar <- MCAvatar
    RoomAddress = {x1}
    Galaxy <- MCServer
    Server <- MCServer
    Below <- MCBelow
    AttributeSets <- MCSets
    MaxRoomId = 2
    MaxRows = 1
    MaxFaults = 1
    Slot = {s1, s2}
    NoClient = none
    AddressOf <- MCAddressOf
SYMMETRY Symmetry
VIEW Essential
CONSTRAINT FewMembers
INVARIANTS
    GatewayTypeOK
    RoutesRight
    OwnMembersKnown
    SyncedMembersKnown
