SPECIFICATION FeedSpec
CONSTANTS
    Matches = {m1}
    MaxGoals = 1
    Runs = {r1, r2}
    MISSING_TICKS_THRESHOLD = 2
    MAX_MISSING_TICKS_BEFORE_DROP = 3
    MaxFaults = 2
INVARIANTS SeenTwiceMissedTwice LastScoreAfterGap PublishedOnce
PROPERTIES FinishPublished
