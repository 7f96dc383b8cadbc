SPECIFICATION ProcessSpec
CONSTANTS
    CommandLine <- MCNoCommandLine
    File <- MCFile
    Environment <- MCEnvironment
    Unset = NoneSuch
    NoneSuch = NoneSuch
    Password = "secret"
    SslModeMacro = FALSE
    MaxVersion = 2
    Track = {1, 2}
INVARIANTS
    SchemaComplete
    NoSilentDowngrade
    WrittenWasSet
    RefusedToldNobody
PROPERTIES
    StartsWhenReady
    
