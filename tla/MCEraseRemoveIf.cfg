SPECIFICATION Spec
CONSTANTS
    Object = {o1, o2, o3, o4}
    Null = Null
    MaxLength = 4
INVARIANTS
    OthersRemain
CHECK_DEADLOCK FALSE
