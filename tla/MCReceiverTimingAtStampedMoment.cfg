SPECIFICATION Spec
CONSTANTS
    Frames <- MCFrames
    Pts <- MCPts
    Stamp <- MCStamp
    Sei <- MCSei
    Second = 12
    SampleRate = 8
    TimeBases <- MCTimeBases
    Word = 64
    Delta = 40
    Theta = 5
    MaxError = 1
    Interval = 1
    Start = 7
    End = 9
    NULL = NULL
INVARIANT
    AtStampedMoment
CHECK_DEADLOCK FALSE
