SPECIFICATION LifeSpec
CONSTANTS
    LedgerMarkets = {1, 2}
    LedgerBets = {1, 2, 3}
    NumMarkets = 2
    NumBets = 3
    NumParlays = 1
    Offer <- MatchBets
    ParlayLegs <- OneParlay
    Populations <- Disputed
    TypedScores = {}
    Overrides = {}
    Runners <- RunnerNames
    Duties <- SweepAndStuck
    MAX_SETTLE_BATCH = 2
    ReviewThreshold = 40
    MaxFaults = 1
PROPERTIES RecordedResolved
CHECK_DEADLOCK FALSE
