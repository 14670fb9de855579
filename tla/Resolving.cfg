SPECIFICATION LifeSpec
CONSTANTS
    LedgerMarkets = {1, 2}
    LedgerBets = {1, 2, 3}
    NumMarkets = 2
    NumBets = 3
    NumParlays = 1
    Offer <- MatchBets
    ParlayLegs <- OneParlay
    Populations <- Resolvable
    TypedScores = {}
    Overrides = {}
    Runners <- RunnerNames
    Duties <- SweepEventPast
    MAX_SETTLE_BATCH = 2
    ReviewThreshold = 40
    MaxFaults = 1
PROPERTIES MarketsConsistent PendingResolved
CHECK_DEADLOCK FALSE
