SPECIFICATION PresenceSpec
CONSTANTS
    s1 = s1
    p1 = p1
    p2 = p2
    g1 = g1
    Avatar <- MCAvatar
    System <- MCSystem
    Address <- MCAddress
    AddressOf <- MCAddressOf
    Attribute = {t0}
    MaxFaults = 1
    MaxEntries = 2
SYMMETRY PlayerSymmetry
VIEW NoResult
CONSTRAINT FewEntries
INVARIANTS
    PresenceAccurate
