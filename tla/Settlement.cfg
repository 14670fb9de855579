SPECIFICATION LifeSpec
CONSTANTS
    LedgerMarkets = {1, 2}
    LedgerBets = {1, 2, 3}
    NumMarkets = 2
    NumBets = 3
    NumParlays = 1
    Offer <- MatchBets
    ParlayLegs <- OneParlay
    Populations <- AnyScores
    TypedScores <- HomeTyped
    Overrides <- HomeForced
    Runners <- RunnerNames
    Duties <- SweepAndOthers
    MAX_SETTLE_BATCH = 2
    ReviewThreshold = 40
    MaxFaults = 1
INVARIANTS RowsAgreeWithLedger RefundedRowTrue ParlayRowTrue
PROPERTIES ResultsStand
CHECK_DEADLOCK FALSE
