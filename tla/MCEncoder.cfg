SPECIFICATION Spec
CONSTANTS
    Backends = {"ffmpeg", "qsv", "stamper"}
    Depth = 2
    Interval = 1
    Rounding = 1
    MaxTime = 5
    MaxFrames = 3
    NULL = NULL
INVARIANTS
    TypeOK
    StampAgeBounded
PROPERTIES
    FrameInOnePacket
    ExchangesSpaced
    DtsIncreases
