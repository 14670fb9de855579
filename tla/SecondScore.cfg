SPECIFICATION LifeSpec
CONSTANTS
    LedgerMarkets = {1, 2}
    LedgerBets = {1, 2, 3}
    NumMarkets = 2
    NumBets = 3
    NumParlays = 1
    Offer <- MatchBets
    ParlayLegs <- OneParlay
    Populations <- WonOrLost
    TypedScores = {}
    Overrides = {}
    Runners <- RunnerNames
    Duties <- SweepEventPast
    MAX_SETTLE_BATCH = 2
    ReviewThreshold = 40
    MaxFaults = 1
INVARIANTS SettledRowsTrue
CHECK_DEADLOCK FALSE
