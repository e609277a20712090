SPECIFICATION Spec
CONSTANTS
    Schedules = {s1, s2}
    Dirs = {d1}
    Runs = {r1, r2}
    None = None
    MaxRetries = 1
    MaxFailures = 1
    MaxStops = 0
    MaxEdits = 0
INVARIANTS RetryTakesNoHeldDirectory
CHECK_DEADLOCK FALSE
