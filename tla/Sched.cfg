SPECIFICATION SchedSpec
CONSTANTS
    NumPlayers = 1
    MIN_STAKE = 10
    MAX_STAKE = 20
    MAX_PLAYERS_PER_ROUND = 2
    MAX_AUTOCASHOUT_X100 = 500
    ROUND_TIMEOUT = 1
    InitialRtp = 9000
    StakeChoices = {10}
    AutoChoices = {150}
    CashOutChoices = {250}
    Seeds = {500, 801500}
    PauseChoices = {TRUE, FALSE}
    RtpChoices = {}
    BankrollChoices = {20}
    MaxBalance = 30
    MaxRounds = 2
    MaxClock = 3
    MaxFaults = 2
    DeathPoints = {"Recover", "ReconcileCancelled", "Start", "Waiting", "Flying", "Publish", "Paused"}
    ErrorPoints = {"Recover", "ReconcileCancelled", "Start", "Waiting", "Flying", "Publish"}
    LateRows = TRUE
INVARIANTS RowsAgreeWithChain HeldRoundIsCurrent
PROPERTIES RoundsEndOrAreOrphaned RowsReconciled
CHECK_DEADLOCK FALSE
