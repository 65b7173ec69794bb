SPECIFICATION Spec
CONSTANTS
    PluginCount = 2
    TypeNames = {T, U}
    T = T
    U = U
    FieldLines <- MCFieldLines
    HEAPKIT_MAX_FIELD = 2
    MAX_REGISTERED_TYPES = 2
    TempLen = 7
    BufLen = 9
    OutSizes = {12}
    MaxStructs = 2
SYMMETRY TypeSymmetry
CHECK_DEADLOCK FALSE
INVARIANTS
    Layout
    SetTellsTruth
    Restores
