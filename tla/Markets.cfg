SPECIFICATION Spec
CONSTANTS
    NumLPs = 2
    NumKeys = 1
    MIN_DEPOSIT = 10
    WITHDRAWAL_TIMELOCK = 1
    SHARE_SCALE = 1000
    Deposits = {15}
    Donations = {}
    VirtualAmounts = {20}
    MaxUsdc = 35
    MaxTime = 2
    NumMarkets = 1
    MaxBets = 2
    MaxParlays = 0
    Outcomes = {1}
    Stakes = {10, 20}
    Odds = {2500}
    ParlayOdds = {}
    ClosingTimes = {3}
    EdgeChoices = {0}
    MultiplierChoices = {30000}
    PauseChoices = {TRUE, FALSE}
    LimitChoices = {}
    InitialEdge = 1000
    InitialMinBet = 10
    InitialMaxBet = 20
    MAX_SETTLE_BATCH = 3
    MIN_PARLAY_LEGS = 2
    MAX_PARLAY_LEGS = 2
    MaxListed = 1
INVARIANTS TypeOK PoolBacked CoreSolvent StakesTracked
PROPERTIES NoDilution LedgerSpec
CHECK_DEADLOCK FALSE
