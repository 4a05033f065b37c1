SPECIFICATION Spec
CONSTANTS
    MaxEvents = 3
    Bad = {3}
    THRESHOLD = 3
    MAX_BATCH = 2
    RETRY_MAX = 2
    Methods = {get, post}
    AnyMethod = AnyMethod
    HOURS = 2
    BACKFILL = 2
    RETENTION = 3
    ROLLUPS = 4
    LATE = 1
    MaxHour = 10
    MaxSamples = 2
    DAY = 4
    MaxTime = 5
    MaxCount = 2
    Zones = {0, 1, 2}
    None = None
SYMMETRY Symmetry
INVARIANTS
    CountedOnce NothingVanishes
    OldIsRolledUp LatencyAnswersAgree CounterAnswersAgree
CHECK_DEADLOCK FALSE
