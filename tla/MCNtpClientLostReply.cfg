SPECIFICATION Spec
CONSTANTS
    Threads = {encode}
    Owner = encode
    Second = 3
    Fraction = 4
    Era = 12
    Delta = 5
    Theta = 5
    MaxTime = 12
INVARIANT SyncedMeansAnswered
