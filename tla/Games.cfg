SPECIFICATION TablesSpec
CONSTANTS
    Amounts = {7, 10}
    Capacities = {0, 7, 10, 60, 5000}
    Rtps = {5000, 9000, 9900}
    Targets = {1, 50, 97, 98}
    ROLL_STEPS = 1000
    NaturalRolls <- RollsTried
    MULTIPLIER_SCALE = 1000
    Lines = {1, 2, 3, 7}
    SlotRows <- SomeRows
    Games = {"blackjack"}
    InitialMaxMultiplier <- BlackjackMultiplier
    InitialRtp = 9000
    MaxBets = 1
    MaxRounds = 1
    PAYOUT_CAP_BPS = 4000
    StakeChoices = {4}
    BankrollChoices = {6}
    MultiplierChoices = {}
    RtpChoices = {}
    Payouts = {}
    PoolPayouts = {}
    MaxBalance = 10
    MaxDeposits = 0
    Shoes <- SomeShoes
    NumRequests = 4
    MaxFaults = 1
INVARIANTS ShownIsPaid GateExact TableGamesWithinReserve NoReroll OneDeck HandFollowsBet BestTotal
CHECK_DEADLOCK FALSE
