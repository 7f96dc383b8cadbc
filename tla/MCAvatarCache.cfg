SPECIFICATION Spec
CONSTANTS
    Spelling <- MCSpelling
    Narrow <- MCNarrow
    Same <- MCSame
    MaxObjects = 3
INVARIANTS
    CacheTransparent
    FirstObjectAgrees
    LoggedOutLeft
PROPERTIES
    NamesKept
