SPECIFICATION BetSpec
CONSTANTS
    Games = {"dice"}
    InitialMaxMultiplier <- SmallMultipliers
    InitialRtp = 9000
    MaxBets = 2
    MaxRounds = 3
    PAYOUT_CAP_BPS = 4000
    StakeChoices = {5}
    BankrollChoices = {10}
    MultiplierChoices = {150}
    RtpChoices = {4000, 5000}
    Payouts = {0, 15}
    PoolPayouts = {0, 2}
    MaxBalance = 15
    MaxDeposits = 5
    NumRequests = 2
    MaxFaults = 1
INVARIANTS ExposureTracked ConfirmedRowTrue AnswersAgree
PROPERTIES CoverageKept ResolvedForGood
CHECK_DEADLOCK FALSE
