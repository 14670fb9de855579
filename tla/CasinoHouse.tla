---------------------------- MODULE CasinoHouse ----------------------------
(***************************************************************************)
(* packages/contracts/contracts/CasinoHouse.sol: the bankroll of the       *)
(* instant games.  A bet is a stake with a worst-case reservation until    *)
(* the operator settles it; pool rounds share the same balance.  Every     *)
(* action is one transaction.                                              *)
(*                                                                         *)
(* Bets are numbered in the order they are placed (the code hashes a       *)
(* nonce).  A pool round keeps its deposits as a sum, and the winners of a *)
(* resolution are the sum paid to them.                                    *)
(***************************************************************************)
EXTENDS Integers, Sums

CONSTANTS
    Games,                \* game types
    InitialMaxMultiplier, \* per game, x100: initialize and initializeV2
    InitialRtp,           \* initializeV2
    MaxBets,              \* bound: bets ever placed
    MaxRounds,            \* bound: pool rounds
    PAYOUT_CAP_BPS,
    StakeChoices,         \* amounts tried by placeCasinoBet and joinPoolRound
    BankrollChoices,      \* amounts deposited or withdrawn by the admin
    MultiplierChoices,    \* values tried by setMaxMultiplier
    RtpChoices,           \* values tried by setRtp
    Payouts,              \* payouts tried by settleGame
    PoolPayouts,          \* sums tried by resolvePoolRound
    MaxBalance,           \* bound on the contract's USDC
    MaxDeposits           \* bound on the deposits of one pool round

ASSUME HouseAssumption ==
    /\ InitialMaxMultiplier \in [Games -> Nat]
    /\ InitialRtp \in 5000..9900
    /\ MaxBets \in Nat
    /\ MaxRounds \in Nat \ {0}
    /\ PAYOUT_CAP_BPS \in 0..10000
    /\ StakeChoices \subseteq Nat
    /\ BankrollChoices \subseteq Nat
    /\ MultiplierChoices \subseteq Nat
    /\ RtpChoices \subseteq Nat
    /\ Payouts \subseteq Nat
    /\ PoolPayouts \subseteq Nat
    /\ MaxBalance \in Nat
    /\ MaxDeposits \in Nat

BetIds == 1..MaxBets
RoundIds == 1..MaxRounds

VARIABLES
    usdc,                  \* usdc.balanceOf(this)
    bets,
    totalPendingExposure,
    maxMultiplierX100,
    rtpBps,
    rounds,                \* pool rounds
    currentRoundId

houseVars == <<usdc, bets, totalPendingExposure, maxMultiplierX100, rtpBps,
               rounds, currentRoundId>>

NoBet == [status |-> "None", game |-> "None", amount |-> 0, payout |-> 0,
          reservedExposure |-> 0]
NoRound == [opened |-> FALSE, totalDeposits |-> 0, totalPayouts |-> 0, resolved |-> FALSE]
OpenRound == [NoRound EXCEPT !.opened = TRUE]

(* The proxy after initialize and initializeV2. *)
HouseInit ==
    /\ usdc = 0
    /\ bets = [b \in BetIds |-> NoBet]
    /\ totalPendingExposure = 0
    /\ maxMultiplierX100 = InitialMaxMultiplier
    /\ rtpBps = InitialRtp
    /\ rounds = [r \in RoundIds |-> IF r = 1 THEN OpenRound ELSE NoRound]
    /\ currentRoundId = 1

-----------------------------------------------------------------------------
(* Instant games *)

Excess(a, b) == IF a > b THEN a - b ELSE 0

availableCapacityFor(b) ==
    Excess(usdc, Excess(totalPendingExposure, bets[b].reservedExposure))

placeCasinoBet(b, amount, game) ==
    LET maxPayout == (amount * maxMultiplierX100[game]) \div 100 IN
        /\ amount # 0
        /\ maxMultiplierX100[game] # 0
        /\ bets[b].status = "None"
        /\ \A c \in BetIds : c < b => bets[c].status # "None"
        /\ usdc + amount <= MaxBalance
        /\ totalPendingExposure' = totalPendingExposure + maxPayout
        /\ bets' = [bets EXCEPT ![b] = [status |-> "Placed", game |-> game, amount |-> amount,
                                        payout |-> 0, reservedExposure |-> maxPayout]]
        /\ usdc' = usdc + amount
        /\ UNCHANGED <<maxMultiplierX100, rtpBps, rounds, currentRoundId>>

(* Variant of settleGame: the reservation is computed again with the       *)
(* multiplier of the day.                                                  *)
settleGameCurrentMultiplier(b, payout) ==
    LET actualPayout == IF payout > usdc THEN usdc ELSE payout
        reserved == (bets[b].amount * maxMultiplierX100[bets[b].game]) \div 100
    IN
        /\ bets[b].status = "Placed"
        /\ totalPendingExposure >= reserved
        /\ bets' = [bets EXCEPT ![b].status = "Settled", ![b].payout = actualPayout]
        /\ totalPendingExposure' = totalPendingExposure - reserved
        /\ usdc' = usdc - actualPayout
        /\ UNCHANGED <<maxMultiplierX100, rtpBps, rounds, currentRoundId>>

settleGame(b, payout) ==
    LET actualPayout == IF payout > usdc THEN usdc ELSE payout IN
        /\ bets[b].status = "Placed"
        /\ totalPendingExposure >= bets[b].reservedExposure
        /\ bets' = [bets EXCEPT ![b].status = "Settled", ![b].payout = actualPayout]
        /\ totalPendingExposure' = totalPendingExposure - bets[b].reservedExposure
        /\ usdc' = usdc - actualPayout
        /\ UNCHANGED <<maxMultiplierX100, rtpBps, rounds, currentRoundId>>

-----------------------------------------------------------------------------
(* Pool rounds *)

joinPoolRound(r, amount) ==
    /\ amount # 0
    /\ ~rounds[r].resolved
    /\ rounds[r].totalDeposits + amount <= MaxDeposits
    /\ usdc + amount <= MaxBalance
    /\ rounds' = [rounds EXCEPT ![r].opened = TRUE, ![r].totalDeposits = @ + amount]
    /\ usdc' = usdc + amount
    /\ UNCHANGED <<bets, totalPendingExposure, maxMultiplierX100, rtpBps, currentRoundId>>

(* Variant of resolvePoolRound: the next round is always opened afresh. *)
resolvePoolRoundReopens(r, paid) ==
    /\ r < MaxRounds
    /\ ~rounds[r].resolved
    /\ paid <= (rounds[r].totalDeposits * PAYOUT_CAP_BPS) \div 10000
    /\ paid <= usdc
    /\ rounds' = [k \in RoundIds |->
                    IF k = r THEN [rounds[r] EXCEPT !.resolved = TRUE, !.totalPayouts = paid]
                    ELSE IF k = r + 1 THEN OpenRound
                    ELSE rounds[k]]
    /\ currentRoundId' = r + 1
    /\ usdc' = usdc - paid
    /\ UNCHANGED <<bets, totalPendingExposure, maxMultiplierX100, rtpBps>>

(* Resolution does not ask that r is current, or was ever opened.  A next  *)
(* round that was never opened is opened, resolved before or not.          *)
resolvePoolRound(r, paid) ==
    /\ r < MaxRounds
    /\ ~rounds[r].resolved
    /\ paid <= (rounds[r].totalDeposits * PAYOUT_CAP_BPS) \div 10000
    /\ paid <= usdc
    /\ rounds' = [k \in RoundIds |->
                    IF k = r THEN [rounds[r] EXCEPT !.resolved = TRUE, !.totalPayouts = paid]
                    ELSE IF k = r + 1 /\ ~rounds[k].opened THEN OpenRound
                    ELSE rounds[k]]
    /\ currentRoundId' = r + 1
    /\ usdc' = usdc - paid
    /\ UNCHANGED <<bets, totalPendingExposure, maxMultiplierX100, rtpBps>>

-----------------------------------------------------------------------------
(* Admin *)

depositBankroll(amount) ==
    /\ amount # 0
    /\ usdc + amount <= MaxBalance
    /\ usdc' = usdc + amount
    /\ UNCHANGED <<bets, totalPendingExposure, maxMultiplierX100, rtpBps, rounds,
                   currentRoundId>>

(* Variant of withdrawBankroll: reservations are not held back. *)
withdrawFromBalance(amount) ==
    /\ amount # 0
    /\ amount <= usdc
    /\ usdc' = usdc - amount
    /\ UNCHANGED <<bets, totalPendingExposure, maxMultiplierX100, rtpBps, rounds,
                   currentRoundId>>

withdrawBankroll(amount) ==
    /\ amount # 0
    /\ amount <= Excess(usdc, totalPendingExposure)
    /\ usdc' = usdc - amount
    /\ UNCHANGED <<bets, totalPendingExposure, maxMultiplierX100, rtpBps, rounds,
                   currentRoundId>>

setMaxMultiplier(game, x100) ==
    /\ maxMultiplierX100' = [maxMultiplierX100 EXCEPT ![game] = x100]
    /\ UNCHANGED <<usdc, bets, totalPendingExposure, rtpBps, rounds, currentRoundId>>

setRtp(newBps) ==
    /\ 5000 <= newBps /\ newBps <= 9900
    /\ rtpBps' = newBps
    /\ UNCHANGED <<usdc, bets, totalPendingExposure, maxMultiplierX100, rounds,
                   currentRoundId>>

houseAdmin ==
    \/ \E a \in BankrollChoices : depositBankroll(a)
    \/ \E a \in BankrollChoices : withdrawBankroll(a)
    \/ \E g \in Games, x \in MultiplierChoices : setMaxMultiplier(g, x)
    \/ \E x \in RtpChoices : setRtp(x)

(* The operator asks for any payout: settleGame does not compare it with   *)
(* the reservation (a slots row can pay up to 250x with 50x reserved).     *)
HouseNext ==
    \/ \E b \in BetIds, a \in StakeChoices, g \in Games : placeCasinoBet(b, a, g)
    \/ \E b \in BetIds, payout \in Payouts : settleGame(b, payout)
    \/ \E r \in RoundIds, a \in StakeChoices : joinPoolRound(r, a)
    \/ \E r \in RoundIds, paid \in PoolPayouts : resolvePoolRound(r, paid)
    \/ houseAdmin

HouseSpec == HouseInit /\ [][HouseNext]_houseVars

-----------------------------------------------------------------------------
(* Properties *)

(* The type of every variable. *)
HouseTypeOK ==
    /\ usdc \in Nat
    /\ bets \in [BetIds -> [status : {"None", "Placed", "Settled"}, game : Games \cup {"None"},
                            amount : Nat, payout : Nat, reservedExposure : Nat]]
    /\ totalPendingExposure \in Nat
    /\ maxMultiplierX100 \in [Games -> Nat]
    /\ rtpBps \in 5000..9900
    /\ rounds \in [RoundIds -> [opened : BOOLEAN, totalDeposits : Nat, totalPayouts : Nat,
                                resolved : BOOLEAN]]
    /\ currentRoundId \in RoundIds

pendingExposure(b) == IF bets[b].status = "Placed" THEN bets[b].reservedExposure ELSE 0

(* totalPendingExposure, which every capacity figure and every withdrawal  *)
(* subtracts, is the reservations of the unsettled bets, as made when each *)
(* was placed, although maxMultiplierX100 changes in between: so no        *)
(* settlement underflows and none leaves a reservation behind.             *)
ExposureTracked ==
    totalPendingExposure = SumTo([b \in BetIds |-> pendingExposure(b)], MaxBets)

(* Once the balance covers every reservation it keeps covering them        *)
(* through settlements and withdrawals: only a new bet, a settlement above *)
(* its bet's reservation, or paying out a pool round, can take it below.   *)
CoverageKept ==
    [][usdc >= totalPendingExposure
       /\ (\A b \in BetIds :
              bets'[b].status # bets[b].status =>
                  bets[b].status = "Placed" /\ bets'[b].payout <= bets[b].reservedExposure)
       /\ (\A r \in RoundIds : rounds[r].resolved = rounds'[r].resolved)
         => usdc' >= totalPendingExposure']_houseVars

(* An accepted bet is not starved: one settled while the balance covered   *)
(* the reservations, its own included, is paid what the operator asked.    *)
(* Stated of the state: the clamp of settleGame cannot bite.               *)
CoveredIsPaid ==
    usdc >= totalPendingExposure =>
        \A b \in BetIds : bets[b].status = "Placed" =>
            /\ bets[b].reservedExposure <= usdc
            /\ bets[b].reservedExposure <= availableCapacityFor(b)

(* A pool round pays at most 40 % of what was deposited in it, although    *)
(* rounds can be joined and resolved out of order and before they open.    *)
PoolCapHeld ==
    \A r \in RoundIds :
        rounds[r].totalPayouts * 10000 <= rounds[r].totalDeposits * PAYOUT_CAP_BPS

(* A resolved round that took deposits stays resolved. *)
ResolvedForGood ==
    [][\A r \in RoundIds :
          rounds[r].resolved /\ rounds[r].totalDeposits > 0 => rounds'[r] = rounds[r]]_houseVars
=============================================================================
