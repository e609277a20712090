SPECIFICATION Spec
CONSTANTS
    Schedules = {s1, s2}
    Dirs = {d1, d2}
    Runs = {r1, r2, r3}
    None = None
    MaxRetries = 1
    MaxFailures = 1
    MaxStops = 1
    MaxEdits = 1
INVARIANTS TypeOK HeldIsWorking   ExecutionsBounded
SYMMETRY MCSymmetry
CHECK_DEADLOCK FALSE
