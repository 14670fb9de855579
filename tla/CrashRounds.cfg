SPECIFICATION CrashSpec
CONSTANTS
    NumPlayers = 2
    MIN_STAKE = 10
    MAX_STAKE = 20
    MAX_PLAYERS_PER_ROUND = 2
    MAX_AUTOCASHOUT_X100 = 500
    ROUND_TIMEOUT = 1
    InitialRtp = 9000
    StakeChoices = {10}
    AutoChoices = {0, 150, 300}
    CashOutChoices = {250}
    Seeds = {500, 801500}
    PauseChoices = {TRUE, FALSE}
    RtpChoices = {5000}
    BankrollChoices = {15}
    MaxBalance = 45
    MaxRounds = 2
    MaxClock = 2
INVARIANTS CrashSolvent PendingTotal
PROPERTIES CapIsLargest CapSustainable
CHECK_DEADLOCK FALSE
