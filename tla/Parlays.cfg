SPECIFICATION Spec
CONSTANTS
    NumLPs = 1
    NumKeys = 4
    MIN_DEPOSIT = 10
    WITHDRAWAL_TIMELOCK = 1
    SHARE_SCALE = 1000
    Deposits = {40}
    Donations = {40}
    VirtualAmounts = {}
    MaxUsdc = 40
    MaxTime = 1
    NumMarkets = 2
    MaxBets = 1
    MaxParlays = 2
    Outcomes = {1, 2}
    Stakes = {10}
    Odds = {4000}
    ParlayOdds = {6000}
    ClosingTimes = {2}
    EdgeChoices = {}
    MultiplierChoices = {}
    PauseChoices = {}
    LimitChoices <- SomeLimits
    InitialEdge = 1000
    InitialMinBet = 10
    InitialMaxBet = 20
    MAX_SETTLE_BATCH = 1
    MIN_PARLAY_LEGS = 2
    MAX_PARLAY_LEGS = 2
    MaxListed = 1
INVARIANTS CoreSolvent LocksTracked
PROPERTIES ReservationsRespected EscrowSpec
CHECK_DEADLOCK FALSE
