SPECIFICATION Spec
CONSTANTS
    Base = 4
    Uuid <- MCUuid
    PtsDigits = 2
    SecondsDigits = 1
    FractionDigits = 1
    Limit = 40
    Shapes <- MCShapes
    NULL = NULL
INVARIANTS
    TypeOK
    NoEmulation
    StampFound
    UnitsIntact
    SeiBeforeSlices
    ExtraDataWhole
