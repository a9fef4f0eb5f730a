SPECIFICATION FairSpec
CONSTANTS
    Urls = {u1, u2}
    Codecs = {h264}
    HwTypes = {qsv}
    Threshold = 1
    MaxErrors = 1
    AutoCodec = auto
    NoHw = none
    NULL = NULL
INVARIANTS
    TypeOK
    JoinedMeansClean
    FlagMatchesThread
    SettingsInEffect
    NoClientWhenOff
    SyncedIsRefreshed
PROPERTIES
    ConfigOnlyWhileStopped
    SessionSpec
    ControlReturns
    Reconnects
    SyncRetried
