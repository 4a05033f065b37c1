SPECIFICATION Spec
CONSTANTS
    Keys = {k1}
    Lists = {l1}
    Runs = {w1, w2}
    CAP = 2
    MaxEvents = 2
    MaxSamples = 3
    MaxFailures = 1
    None = None
INVARIANTS StoredAtMostOnce NothingLost
PROPERTIES EventuallyDrained
