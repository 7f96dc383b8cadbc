SPECIFICATION PathSpec
CONSTANTS
    Key = {k1, k2}
    Text <- MCText
    Oob <- MCOob
    Word = {0, 6, 7, 8}
    IntMax = 7
    None = None
    Field <- MCField
    Message <- MCMessage
    MaxFlight = 1
    Junk = Junk
    Character <- MCCharacter
    NameCharacter <- MCNameCharacter
    Template <- MCTemplate
    BoundValue <- MCBoundValue
INVARIANTS
    OutcomePromised
    OobArrives
    AsciiArrives
    ReadWhatWasSent
    ValuesArrive
PROPERTIES
    ExecuteEnds
    RowStaysTheSame
