SPECIFICATION RecordSpec
CONSTANTS
    a1 = a1
    a2 = a2
    Avatar <- MCAvatar
    Nobody = nobody
    Ignores <- MCIgnores
    Category = {c1, c2}
    MaxMail = 2
    MaxFaults = 1
    TicksPerSecond = 2
    Elapse = {7, 8}
    Payload = {201, 501}
    SoftWarn = 35
    Throttle = 60
    Block = 85
    MaxTime = 23
    MaxEvaluations = 21
SYMMETRY CategorySymmetry
VIEW NoResult
CONSTRAINT OneFlood
INVARIANTS
    MailAnnounced
    StatusExplained
    MailListed
    WindowExact
    NeverBlocked
