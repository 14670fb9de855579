SPECIFICATION SweepSpec
CONSTANTS
    Matches = {m1}
    MaxGoals = 1
    Runs = {r1}
    MISSING_TICKS_THRESHOLD = 2
    MAX_MISSING_TICKS_BEFORE_DROP = 3
    MaxFaults = 0
INVARIANTS NeverSettlesLive
CHECK_DEADLOCK FALSE
