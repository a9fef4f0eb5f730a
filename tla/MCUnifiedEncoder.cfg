SPECIFICATION Spec
CONSTANTS
    Encoders = {e1, e2}
    Addresses = {a1, a2, a3, a4, a5, a6}
    Builds <- AllBuilds
    SignedEnums = TRUE
    NULL = NULL
SYMMETRY Symmetry
INVARIANTS
    TypeOK
    Owned
PROPERTIES
    LosesNothingElse
CHECK_DEADLOCK FALSE
