---------------------------- MODULE BettingCore ----------------------------
(***************************************************************************)
(* packages/contracts/contracts/BettingCore.sol on top of LiquidityPool:   *)
(* markets, single bets and parlays, from placement to the last claim.     *)
(* Every action is one transaction.                                        *)
(*                                                                         *)
(* Bets and parlays are numbered in the order they are placed (the code    *)
(* hashes a nonce, so ids are fresh).  msg.sender is left out: only the    *)
(* bettor's own claim gets past the ownership guard, and it pays the       *)
(* bettor.  bets[b].paid and parlays[p].paid are history: the USDC sent to *)
(* the bettor for that bet so far.                                         *)
(***************************************************************************)
EXTENDS LiquidityPool, Sequences

CONSTANTS
    NumMarkets,           \* market ids are 1..NumMarkets, also their lock keys
    MaxBets,              \* bound: bets ever placed
    MaxParlays,           \* bound: parlays ever placed
    Outcomes,             \* outcome numbers of a market
    Stakes, Odds,         \* stakes and oddsX1000 tried
    ParlayOdds,           \* combinedOddsX1000 tried
    ClosingTimes,         \* closesAt tried
    EdgeChoices,          \* values tried by setHouseEdge
    MultiplierChoices,    \* values tried by setProbabilitySafetyMultiplier
    PauseChoices,         \* which of pause (TRUE) and unpause (FALSE) are tried
    LimitChoices,         \* <<newMin, newMax>> tried by setBetLimits
    InitialEdge, InitialMinBet, InitialMaxBet,   \* set by initialize
    MAX_SETTLE_BATCH,
    MIN_PARLAY_LEGS, MAX_PARLAY_LEGS,
    MaxListed             \* bound: times one bet id is listed in a settlement

BPS_DENOM  == 10000
ODDS_DENOM == 1000
FULL_RATIO == 1000

ASSUME CoreAssumption ==
    /\ NumMarkets \in Nat
    /\ MaxBets \in Nat
    /\ MaxParlays \in Nat
    /\ NumKeys = NumMarkets + MaxParlays
    /\ Outcomes \subseteq Nat
    /\ Stakes \subseteq Nat
    /\ Odds \subseteq Nat
    /\ ParlayOdds \subseteq Nat
    /\ ClosingTimes \subseteq Nat
    /\ EdgeChoices \subseteq Nat
    /\ MultiplierChoices \subseteq Nat
    /\ PauseChoices \subseteq BOOLEAN
    /\ LimitChoices \subseteq Nat \X Nat
    /\ InitialEdge \in 0..1000
    /\ InitialMinBet \in Nat \ {0}
    /\ InitialMaxBet \in Nat
    /\ MAX_SETTLE_BATCH \in Nat
    /\ MIN_PARLAY_LEGS \in Nat \ {0}
    /\ MAX_PARLAY_LEGS \in Nat
    /\ MaxListed \in Nat

Markets   == 1..NumMarkets
BetIds    == 1..MaxBets
ParlayIds == 1..MaxParlays

(* A parlay locks pool liquidity under its own id, like a market does. *)
ParlayKey(p) == NumMarkets + p

VARIABLES
    coreUsdc,                        \* usdc.balanceOf(bettingCore)
    treasuryUsdc,                    \* house edge received by the treasury
    markets,
    bets,
    parlays,
    houseEdgeBps,
    probabilitySafetyMultiplierBps,  \* 0 until set: then 1.0x
    minBet, maxBet,
    paused

adminVars == <<houseEdgeBps, probabilitySafetyMultiplierBps, minBet, maxBet, paused>>
coreVars  == <<coreUsdc, treasuryUsdc, markets, bets, parlays, adminVars>>
vars      == <<poolVars, coreVars>>

NoMarket == [status |-> "None", winningOutcome |-> 0, totalBetAmount |-> 0,
             totalPayoutRequired |-> 0, closesAt |-> 0, fillRatioX1000 |-> 0]
NoBet    == [status |-> "None", marketId |-> 0, outcome |-> 0, amount |-> 0,
             potentialPayout |-> 0, lockedAmount |-> 0, paid |-> 0]
NoParlay == [status |-> "None", marketIds |-> << >>, outcomes |-> << >>,
             stake |-> 0, potentialPayout |-> 0, paid |-> 0]

Init ==
    /\ PoolInit
    /\ coreUsdc = 0
    /\ treasuryUsdc = 0
    /\ markets = [m \in Markets |-> NoMarket]
    /\ bets = [b \in BetIds |-> NoBet]
    /\ parlays = [p \in ParlayIds |-> NoParlay]
    /\ houseEdgeBps = InitialEdge
    /\ probabilitySafetyMultiplierBps = 0
    /\ minBet = InitialMinBet
    /\ maxBet = InitialMaxBet
    /\ paused = FALSE

-----------------------------------------------------------------------------
(* Arithmetic the transactions share *)

Least(a, b) == IF a < b THEN a ELSE b

potentialPayoutOf(amount, oddsX1000) == (amount * oddsX1000) \div ODDS_DENOM

(* Expected loss, not worst case: deficit x implied probability x multiplier. *)
probabilityWeightedLock(rawDeficit, oddsX1000) ==
    LET multiplier == IF probabilitySafetyMultiplierBps = 0
                      THEN BPS_DENOM ELSE probabilitySafetyMultiplierBps
    IN  (rawDeficit * ODDS_DENOM * multiplier) \div (oddsX1000 * BPS_DENOM)

edgeOf(amount) == (amount * houseEdgeBps) \div BPS_DENOM

(* The pool's free capacity for a key, less the house edge reserved off it. *)
availableFor(k) == getFreeLiquidity(k) - edgeOf(getFreeLiquidity(k))

scaledProfit(fillRatio, profit) == (fillRatio * profit) \div FULL_RATIO

isOpen(m)       == markets[m].status = "Open"
isUnresolved(m) == markets[m].status \in {"Open", "Suspended"}

-----------------------------------------------------------------------------
(* Market lifecycle *)

(* createMarket by an operator, or _ensureMarketWithAttestation as the     *)
(* first half of an attested placement: both end in _createMarket.         *)
NewMarket(closesAt) == [NoMarket EXCEPT !.status = "Open", !.closesAt = closesAt]

createMarket(m, closesAt) ==
    /\ markets[m].status = "None"
    /\ closesAt > now
    /\ markets' = [markets EXCEPT ![m] = NewMarket(closesAt)]
    /\ UNCHANGED <<poolVars, coreUsdc, treasuryUsdc, bets, parlays, adminVars>>

suspendMarket(m) ==
    /\ isOpen(m)
    /\ markets' = [markets EXCEPT ![m].status = "Suspended"]
    /\ UNCHANGED <<poolVars, coreUsdc, treasuryUsdc, bets, parlays, adminVars>>

resumeMarket(m) ==
    /\ markets[m].status = "Suspended"
    /\ markets' = [markets EXCEPT ![m].status = "Open"]
    /\ UNCHANGED <<poolVars, coreUsdc, treasuryUsdc, bets, parlays, adminVars>>

-----------------------------------------------------------------------------
(* Single bets *)

LockIfPositive(k, amount) ==
    IF amount > 0 THEN lockLiquidity(k, amount) ELSE UNCHANGED poolVars

(* market is the record placement works on: the stored one, or the one an  *)
(* attestation creates first when the market is not on chain yet.          *)
executeBet(b, m, market, outcome, amount, oddsX1000) ==
    LET payout     == potentialPayoutOf(amount, oddsX1000)
        lockNeeded == probabilityWeightedLock(payout - amount, oddsX1000)
    IN  /\ ~paused
        /\ bets[b].status = "None"
        /\ \A c \in BetIds : c < b => bets[c].status # "None"
        /\ market.status = "Open"
        /\ now < market.closesAt
        /\ minBet <= amount /\ amount <= maxBet
        /\ oddsX1000 > ODDS_DENOM
        /\ LockIfPositive(m, lockNeeded)
        /\ bets' = [bets EXCEPT ![b] =
                      [status |-> "Pending", marketId |-> m, outcome |-> outcome,
                       amount |-> amount, potentialPayout |-> payout,
                       lockedAmount |-> lockNeeded, paid |-> 0]]
        /\ markets' = [markets EXCEPT ![m] =
                         [market EXCEPT !.totalBetAmount = @ + amount]]
        /\ coreUsdc' = coreUsdc + amount
        /\ UNCHANGED <<treasuryUsdc, parlays, adminVars>>

placeBet(b, m, outcome, amount, oddsX1000) ==
    /\ markets[m].status # "None"
    /\ executeBet(b, m, markets[m], outcome, amount, oddsX1000)

placeBetWithAttestation(b, m, outcome, amount, oddsX1000, closesAt) ==
    /\ markets[m].status = "None"
    /\ closesAt > now
    /\ executeBet(b, m, NewMarket(closesAt), outcome, amount, oddsX1000)

-----------------------------------------------------------------------------
(* Settlement.  listed[b] is how often the operator's winningBetIds names  *)
(* bet b: the order of the list does not matter, a repetition does.        *)

validList(m, listed) ==
    /\ \A b \in BetIds : listed[b] > 0 =>
           bets[b].status # "None" /\ bets[b].marketId = m
    /\ SumTo(listed, MaxBets) <= MAX_SETTLE_BATCH

isWinner(listed, b) == listed[b] > 0 /\ bets[b].status = "Pending"

(* _validateAndSumWinningBets skips listed bets that are not Pending. *)
counted(listed, b) == IF isWinner(listed, b) THEN listed[b] ELSE 0

sumStakes(listed) ==
    SumTo([b \in BetIds |-> counted(listed, b) * bets[b].amount], MaxBets)

(* The sum of the quoted profits, sumQuoted - sumStakes. *)
profitSpan(listed) ==
    SumTo([b \in BetIds |->
             counted(listed, b) * (bets[b].potentialPayout - bets[b].amount)], MaxBets)

marketFillRatio(m, span) ==
    IF span <= 0 THEN FULL_RATIO
    ELSE LET covered == Least(span, availableFor(m))
         IN  IF covered >= span THEN FULL_RATIO
             ELSE IF covered <= 0 THEN 0
             ELSE (covered * FULL_RATIO) \div span

(* Variant of finalizeMarketAccounting: the edge is not limited by the     *)
(* surplus.                                                                *)
finalizeWithEdgeOnTop(k, totalBet, actualPayout) ==
    LET surplus   == Monus(totalBet, actualPayout)
        houseEdge == edgeOf(totalBet)
        toPool    == surplus
    IN  /\ coreUsdc + Monus(actualPayout, totalBet) >= surplus + houseEdge
        /\ reportMarketResult(k, totalBet, actualPayout, toPool)
        /\ coreUsdc' = coreUsdc + Monus(actualPayout, totalBet) - surplus - houseEdge
        /\ treasuryUsdc' = treasuryUsdc + houseEdge

(* _finalizeMarketAccounting: a surplus is split between treasury and pool *)
(* before the pool is told, a deficit is pulled from the pool.             *)
finalizeMarketAccounting(k, totalBet, actualPayout) ==
    LET surplus   == Monus(totalBet, actualPayout)
        houseEdge == Least(edgeOf(totalBet), surplus)
        toPool    == surplus - houseEdge
    IN  /\ coreUsdc + Monus(actualPayout, totalBet) >= surplus
        /\ reportMarketResult(k, totalBet, actualPayout, toPool)
        /\ coreUsdc' = coreUsdc + Monus(actualPayout, totalBet) - surplus
        /\ treasuryUsdc' = treasuryUsdc + houseEdge

settleMarket(m, winningOutcome, listed) ==
    LET span  == profitSpan(listed)
        ratio == marketFillRatio(m, span)
    IN  /\ isUnresolved(m)
        /\ validList(m, listed)
        /\ bets' = [b \in BetIds |-> IF isWinner(listed, b)
                                     THEN [bets[b] EXCEPT !.status = "Won"]
                                     ELSE bets[b]]
        /\ markets' = [markets EXCEPT ![m] =
                         [@ EXCEPT !.status = "Settled",
                                   !.winningOutcome = winningOutcome,
                                   !.totalPayoutRequired = sumStakes(listed) + span,
                                   !.fillRatioX1000 = ratio]]
        /\ finalizeMarketAccounting(m, markets[m].totalBetAmount,
                                    sumStakes(listed) + scaledProfit(ratio, span))
        /\ UNCHANGED <<parlays, adminVars>>

(* Variant of voidBet: the voided stake stays in totalBetAmount. *)
voidBetKeepsTotal(b) ==
    LET m == bets[b].marketId IN
        /\ bets[b].status = "Pending"
        /\ isUnresolved(m)
        /\ markets[m].totalBetAmount >= bets[b].amount
        /\ coreUsdc >= bets[b].amount
        /\ bets' = [bets EXCEPT ![b].status = "Cancelled", ![b].paid = @ + bets[b].amount]
            /\ IF bets[b].lockedAmount > 0 THEN unlockLiquidity(m, bets[b].lockedAmount)
                                       ELSE UNCHANGED poolVars
        /\ coreUsdc' = coreUsdc - bets[b].amount
        /\ UNCHANGED <<treasuryUsdc, markets, parlays, adminVars>>

voidBet(b) ==
    LET m == bets[b].marketId IN
        /\ bets[b].status = "Pending"
        /\ isUnresolved(m)
        /\ markets[m].totalBetAmount >= bets[b].amount
        /\ coreUsdc >= bets[b].amount
        /\ bets' = [bets EXCEPT ![b].status = "Cancelled", ![b].paid = @ + bets[b].amount]
        /\ markets' = [markets EXCEPT ![m].totalBetAmount = @ - bets[b].amount]
        /\ IF bets[b].lockedAmount > 0 THEN unlockLiquidity(m, bets[b].lockedAmount)
                                       ELSE UNCHANGED poolVars
        /\ coreUsdc' = coreUsdc - bets[b].amount
        /\ UNCHANGED <<treasuryUsdc, parlays, adminVars>>

(* Variant of cancelMarket: a settled market can be cancelled. *)
cancelMarketSettled(m) ==
    /\ markets[m].status \in {"Open", "Suspended", "Settled"}
    /\ markets' = [markets EXCEPT ![m].status = "Cancelled"]
    /\ reportMarketResult(m, markets[m].totalBetAmount, markets[m].totalBetAmount, 0)
    /\ UNCHANGED <<coreUsdc, treasuryUsdc, bets, parlays, adminVars>>

cancelMarket(m) ==
    /\ isUnresolved(m)
    /\ markets' = [markets EXCEPT ![m].status = "Cancelled"]
    /\ reportMarketResult(m, markets[m].totalBetAmount, markets[m].totalBetAmount, 0)
    /\ UNCHANGED <<coreUsdc, treasuryUsdc, bets, parlays, adminVars>>

-----------------------------------------------------------------------------
(* Claims on single bets *)

winningsOf(b) ==
    bets[b].amount + scaledProfit(markets[bets[b].marketId].fillRatioX1000,
                                  bets[b].potentialPayout - bets[b].amount)

claimWinnings(b) ==
    /\ bets[b].status = "Won"
    /\ coreUsdc >= winningsOf(b)
    /\ bets' = [bets EXCEPT ![b].status = "Cashed", ![b].paid = @ + winningsOf(b)]
    /\ coreUsdc' = coreUsdc - winningsOf(b)
    /\ UNCHANGED <<poolVars, treasuryUsdc, markets, parlays, adminVars>>

claimRefund(b) ==
    /\ bets[b].status = "Pending"
    /\ markets[bets[b].marketId].status = "Cancelled"
    /\ coreUsdc >= bets[b].amount
    /\ bets' = [bets EXCEPT ![b].status = "Cancelled", ![b].paid = @ + bets[b].amount]
    /\ coreUsdc' = coreUsdc - bets[b].amount
    /\ UNCHANGED <<poolVars, treasuryUsdc, markets, parlays, adminVars>>

-----------------------------------------------------------------------------
(* Parlays *)

(* _evaluateParlay scans the legs in order and returns at the first leg    *)
(* that is neither cancelled nor won.                                      *)
LegStatus(p, i) ==
    LET m == markets[parlays[p].marketIds[i]] IN
        CASE m.status = "Cancelled" -> "Void"
          [] m.status = "Settled" /\ m.winningOutcome = parlays[p].outcomes[i] -> "Won"
          [] m.status = "Settled" /\ m.winningOutcome # parlays[p].outcomes[i] -> "Lost"
          [] OTHER -> "Pending"

Legs(p) == 1..Len(parlays[p].marketIds)

evaluateParlay(p) ==
    LET passed(i)    == \A j \in 1..(i - 1) : LegStatus(p, j) \in {"Won", "Void"}
        stopsWith(v) == \E i \in Legs(p) : passed(i) /\ LegStatus(p, i) = v
    IN  IF stopsWith("Lost") THEN "Lost"
        ELSE IF stopsWith("Pending") THEN "Pending"
        ELSE IF \E i \in Legs(p) : LegStatus(p, i) = "Void" THEN "Void"
        ELSE "Won"

(* registered is the markets after any attested registration. *)
validParlayLegs(registered, legs) ==
    /\ MIN_PARLAY_LEGS <= Len(legs) /\ Len(legs) <= MAX_PARLAY_LEGS
    /\ \A i \in 1..Len(legs) : /\ registered[legs[i]].status = "Open"
                              /\ now < registered[legs[i]].closesAt
    /\ \A i, j \in 1..Len(legs) : i # j => legs[i] # legs[j]

executeParlayBet(p, registered, legs, outcomes, stake, oddsX1000) ==
    LET payout == potentialPayoutOf(stake, oddsX1000)
    IN  /\ ~paused
        /\ parlays[p].status = "None"
        /\ \A q \in ParlayIds : q < p => parlays[q].status # "None"
        /\ minBet <= stake /\ stake <= maxBet
        /\ oddsX1000 > ODDS_DENOM
        /\ validParlayLegs(registered, legs)
        /\ Len(outcomes) = Len(legs)
        /\ LockIfPositive(ParlayKey(p),
                          probabilityWeightedLock(payout - stake, oddsX1000))
        /\ parlays' = [parlays EXCEPT ![p] =
                         [status |-> "Pending", marketIds |-> legs,
                          outcomes |-> outcomes, stake |-> stake,
                          potentialPayout |-> payout, paid |-> 0]]
        /\ markets' = registered
        /\ coreUsdc' = coreUsdc + stake
        /\ UNCHANGED <<treasuryUsdc, bets, adminVars>>

placeParlayBet(p, legs, outcomes, stake, oddsX1000) ==
    executeParlayBet(p, markets, legs, outcomes, stake, oddsX1000)

(* Legs whose market is not on chain yet are registered first; attestations *)
(* of registered markets are ignored.                                       *)
placeParlayBetWithAttestations(p, legs, outcomes, stake, oddsX1000, closesAt) ==
    LET absent == {m \in Markets : /\ markets[m].status = "None"
                                   /\ \E i \in 1..Len(legs) : legs[i] = m}
    IN  /\ absent # {}
        /\ closesAt > now
        /\ executeParlayBet(p, [m \in Markets |-> IF m \in absent THEN NewMarket(closesAt)
                                                                  ELSE markets[m]],
                            legs, outcomes, stake, oddsX1000)

(* The pool's free capacity is read at claim time, not at settlement. *)
parlayPayout(p) ==
    parlays[p].stake + Least(parlays[p].potentialPayout - parlays[p].stake,
                             availableFor(ParlayKey(p)))

(* Variant of claimParlayWinnings: the parlay stays claimable. *)
claimParlayWinningsTwice(p) ==
    /\ parlays[p].status = "Pending"
    /\ evaluateParlay(p) = "Won"
    /\ coreUsdc >= parlays[p].stake
    /\ reportMarketResult(ParlayKey(p), parlays[p].stake, parlayPayout(p), 0)
    /\ parlays' = [parlays EXCEPT ![p].paid = @ + parlayPayout(p)]
    /\ coreUsdc' = coreUsdc - parlays[p].stake
    /\ UNCHANGED <<treasuryUsdc, markets, bets, adminVars>>

claimParlayWinnings(p) ==
    /\ parlays[p].status = "Pending"
    /\ evaluateParlay(p) = "Won"
    /\ coreUsdc >= parlays[p].stake
    /\ reportMarketResult(ParlayKey(p), parlays[p].stake, parlayPayout(p), 0)
    /\ parlays' = [parlays EXCEPT ![p].status = "Won", ![p].paid = @ + parlayPayout(p)]
    /\ coreUsdc' = coreUsdc - parlays[p].stake
    /\ UNCHANGED <<treasuryUsdc, markets, bets, adminVars>>

(* Variant of claimParlayRefund: the pool is not told. *)
claimParlayRefundKeepsLock(p) ==
    /\ parlays[p].status = "Pending"
    /\ evaluateParlay(p) = "Void"
    /\ coreUsdc >= parlays[p].stake
    /\ parlays' = [parlays EXCEPT ![p].status = "Cancelled", ![p].paid = @ + parlays[p].stake]
    /\ coreUsdc' = coreUsdc - parlays[p].stake
    /\ UNCHANGED <<poolVars, treasuryUsdc, markets, bets, adminVars>>

claimParlayRefund(p) ==
    /\ parlays[p].status = "Pending"
    /\ evaluateParlay(p) = "Void"
    /\ coreUsdc >= parlays[p].stake
    /\ reportMarketResult(ParlayKey(p), parlays[p].stake, parlays[p].stake, 0)
    /\ parlays' = [parlays EXCEPT ![p].status = "Cancelled", ![p].paid = @ + parlays[p].stake]
    /\ coreUsdc' = coreUsdc - parlays[p].stake
    /\ UNCHANGED <<treasuryUsdc, markets, bets, adminVars>>

(* Variant of reportParlayLoss: the whole stake goes to the pool, the      *)
(* edge on top.                                                            *)
reportParlayLossFullStake(p) ==
    LET stake == parlays[p].stake IN
        /\ parlays[p].status = "Pending"
        /\ evaluateParlay(p) = "Lost"
        /\ coreUsdc >= stake + edgeOf(stake)
        /\ reportMarketResult(ParlayKey(p), stake, 0, stake)
        /\ parlays' = [parlays EXCEPT ![p].status = "Lost"]
        /\ coreUsdc' = coreUsdc - stake - edgeOf(stake)
        /\ treasuryUsdc' = treasuryUsdc + edgeOf(stake)
        /\ UNCHANGED <<markets, bets, adminVars>>

reportParlayLoss(p) ==
    LET stake == parlays[p].stake IN
        /\ parlays[p].status = "Pending"
        /\ evaluateParlay(p) = "Lost"
        /\ coreUsdc >= stake
        /\ reportMarketResult(ParlayKey(p), stake, 0, stake - edgeOf(stake))
        /\ parlays' = [parlays EXCEPT ![p].status = "Lost"]
        /\ coreUsdc' = coreUsdc - stake
        /\ treasuryUsdc' = treasuryUsdc + edgeOf(stake)
        /\ UNCHANGED <<markets, bets, adminVars>>

-----------------------------------------------------------------------------
(* Pauser and admin *)

setPaused(value) ==
    /\ paused # value
    /\ paused' = value
    /\ UNCHANGED <<poolVars, coreUsdc, treasuryUsdc, markets, bets, parlays,
                   houseEdgeBps, probabilitySafetyMultiplierBps, minBet, maxBet>>

setHouseEdge(newBps) ==
    /\ newBps <= 1000
    /\ houseEdgeBps' = newBps
    /\ UNCHANGED <<poolVars, coreUsdc, treasuryUsdc, markets, bets, parlays,
                   probabilitySafetyMultiplierBps, minBet, maxBet, paused>>

setProbabilitySafetyMultiplier(newBps) ==
    /\ BPS_DENOM <= newBps /\ newBps <= 100000
    /\ probabilitySafetyMultiplierBps' = newBps
    /\ UNCHANGED <<poolVars, coreUsdc, treasuryUsdc, markets, bets, parlays,
                   houseEdgeBps, minBet, maxBet, paused>>

setBetLimits(newMin, newMax) ==
    /\ newMin # 0
    /\ newMin <= newMax
    /\ minBet' = newMin
    /\ maxBet' = newMax
    /\ UNCHANGED <<poolVars, coreUsdc, treasuryUsdc, markets, bets, parlays,
                   houseEdgeBps, probabilitySafetyMultiplierBps, paused>>

-----------------------------------------------------------------------------
LegLists == UNION {[1..n -> Markets] : n \in MIN_PARLAY_LEGS..MAX_PARLAY_LEGS}
OutcomeLists(n) == [1..n -> Outcomes]

Next ==
    \/ PoolOnlyNext /\ UNCHANGED coreVars
    \/ \E m \in Markets, t \in ClosingTimes : createMarket(m, t)
    \/ \E m \in Markets : suspendMarket(m)
    \/ \E m \in Markets : resumeMarket(m)
    \/ \E b \in BetIds, m \in Markets, o \in Outcomes, a \in Stakes, x \in Odds :
           placeBet(b, m, o, a, x)
    \/ \E b \in BetIds, m \in Markets, o \in Outcomes, a \in Stakes, x \in Odds,
          t \in ClosingTimes : placeBetWithAttestation(b, m, o, a, x, t)
    \/ \E m \in Markets, o \in Outcomes, listed \in [BetIds -> 0..MaxListed] :
           settleMarket(m, o, listed)
    \/ \E b \in BetIds : voidBet(b)
    \/ \E m \in Markets : cancelMarket(m)
    \/ \E b \in BetIds : claimWinnings(b)
    \/ \E b \in BetIds : claimRefund(b)
    \/ \E p \in ParlayIds, legs \in LegLists, a \in Stakes, x \in ParlayOdds :
           \E os \in OutcomeLists(Len(legs)) : placeParlayBet(p, legs, os, a, x)
    \/ \E p \in ParlayIds, legs \in LegLists, a \in Stakes, x \in ParlayOdds,
          t \in ClosingTimes : \E os \in OutcomeLists(Len(legs)) :
              placeParlayBetWithAttestations(p, legs, os, a, x, t)
    \/ \E p \in ParlayIds : claimParlayWinnings(p)
    \/ \E p \in ParlayIds : claimParlayRefund(p)
    \/ \E p \in ParlayIds : reportParlayLoss(p)
    \/ \E v \in PauseChoices : setPaused(v)
    \/ \E e \in EdgeChoices : setHouseEdge(e)
    \/ \E x \in MultiplierChoices : setProbabilitySafetyMultiplier(x)
    \/ \E l \in LimitChoices : setBetLimits(l[1], l[2])

Spec == Init /\ [][Next]_vars

-----------------------------------------------------------------------------
(* Properties *)

BetStatus == {"None", "Pending", "Won", "Cancelled", "Cashed"}
ParlayStatus == {"None", "Pending", "Won", "Lost", "Cancelled"}

(* The type of every variable.  BettingCore never stores Lost in a single  *)
(* bet: a losing bet stays Pending in a Settled market.                    *)
TypeOK ==
    /\ PoolTypeOK
    /\ coreUsdc \in Nat
    /\ treasuryUsdc \in Nat
    /\ markets \in [Markets ->
          [status : {"None", "Open", "Suspended", "Settled", "Cancelled"},
           winningOutcome : Nat, totalBetAmount : Nat, totalPayoutRequired : Nat,
           closesAt : Nat, fillRatioX1000 : 0..FULL_RATIO]]
    /\ bets \in [BetIds ->
          [status : BetStatus, marketId : Markets \cup {0}, outcome : Nat, amount : Nat,
           potentialPayout : Nat, lockedAmount : Nat, paid : Nat]]
    /\ parlays \in [ParlayIds ->
          [status : ParlayStatus, marketIds : Seq(Markets), outcomes : Seq(Nat),
           stake : Nat, potentialPayout : Nat, paid : Nat]]
    /\ houseEdgeBps \in 0..1000
    /\ \/ probabilitySafetyMultiplierBps = 0
       \/ probabilitySafetyMultiplierBps \in BPS_DENOM..100000
    /\ minBet \in Nat /\ maxBet \in Nat
    /\ paused \in BOOLEAN

(* What BettingCore holds for a bet: the stake of a bet whose market has   *)
(* not been settled (a refund if it is cancelled), the scaled winnings of  *)
(* an unclaimed winner, nothing for a loser or a bet already paid.         *)
owedOnBet(b) ==
    CASE bets[b].status = "Pending" /\ markets[bets[b].marketId].status # "Settled"
           -> bets[b].amount
      [] bets[b].status = "Won" -> winningsOf(b)
      [] OTHER -> 0

owedOnParlay(p) == IF parlays[p].status = "Pending" THEN parlays[p].stake ELSE 0

(* Every claim can be paid: the contract holds at least the sum of what it *)
(* owes, whatever order settlements, voids, cancellations and claims come  *)
(* in.  It holds no separate account per market, so one market's short     *)
(* settlement would be paid out of another's stakes.                       *)
CoreSolvent ==
    coreUsdc >= SumTo([b \in BetIds |-> owedOnBet(b)], MaxBets)
                + SumTo([p \in ParlayIds |-> owedOnParlay(p)], MaxParlays)

pendingIn(b, m) == bets[b].status = "Pending" /\ bets[b].marketId = m

(* totalBetAmount, which settlement splits between winners, pool and       *)
(* treasury, is the stakes of the bets still pending in the market: a      *)
(* voided stake counted twice would be paid to the pool as well.           *)
StakesTracked ==
    \A m \in Markets : isUnresolved(m) =>
        markets[m].totalBetAmount =
            SumTo([b \in BetIds |-> IF pendingIn(b, m) THEN bets[b].amount ELSE 0], MaxBets)

(* The pool's bucket of a market holds exactly the locks of its pending    *)
(* bets, as locked when each was placed, although the safety multiplier    *)
(* changes in between; so voiding a bet never reverts and never releases   *)
(* another bet's reservation, and a resolved market or parlay leaves no    *)
(* lock behind.                                                            *)
LocksTracked ==
    /\ \A m \in Markets :
          marketLocked[m] =
            IF isUnresolved(m)
            THEN SumTo([b \in BetIds |-> IF pendingIn(b, m) THEN bets[b].lockedAmount
                                                           ELSE 0], MaxBets)
            ELSE 0
    /\ \A p \in ParlayIds : parlays[p].status # "Pending" => marketLocked[ParlayKey(p)] = 0

(* BetEscrow is what a bettor is promised.  Tickets are the single bets and *)
(* then the parlays; a bet left Pending in a settled market is a lost one,  *)
(* and a parlay is won or lost as soon as its verdict is: a verdict, once   *)
(* computed, is final whatever happens to the other legs.                  *)
Tickets == 1..(MaxBets + MaxParlays)

betState(b) ==
    CASE bets[b].status = "None" -> "None"
      [] bets[b].status = "Pending" ->
           IF markets[bets[b].marketId].status = "Settled" THEN "Lost" ELSE "Staked"
      [] bets[b].status = "Won" -> "Won"
      [] bets[b].status = "Cashed" -> "Paid"
      [] bets[b].status = "Cancelled" -> "Refunded"

betTicket(b) == [state |-> betState(b), stake |-> bets[b].amount,
                 quoted |-> bets[b].potentialPayout, paid |-> bets[b].paid]

parlayState(p) ==
    CASE parlays[p].status = "None" -> "None"
      [] parlays[p].status = "Pending" ->
           IF evaluateParlay(p) \in {"Won", "Lost"} THEN evaluateParlay(p) ELSE "Staked"
      [] parlays[p].status = "Won" -> "Paid"
      [] parlays[p].status = "Lost" -> "Lost"
      [] parlays[p].status = "Cancelled" -> "Refunded"

parlayTicket(p) == [state |-> parlayState(p), stake |-> parlays[p].stake,
                    quoted |-> parlays[p].potentialPayout, paid |-> parlays[p].paid]

Escrow == INSTANCE BetEscrow WITH
            ticket <- [i \in Tickets |-> IF i <= MaxBets THEN betTicket(i)
                                                       ELSE parlayTicket(i - MaxBets)]

(* Every bet and parlay is resolved once and paid at most once, between    *)
(* its stake and its quote, whatever the order of settlement batches,      *)
(* voids, cancellations and claims.                                        *)
EscrowSpec == Escrow!Spec

(* MarketLedger is what the settlement workers rely on.  A suspended market *)
(* is an open one there.                                                   *)
ledgerMarket(m) ==
    [status |-> IF markets[m].status = "Suspended" THEN "Open" ELSE markets[m].status,
     winningOutcome |-> markets[m].winningOutcome]

ledgerBet(b) == [status |-> bets[b].status, market |-> bets[b].marketId]

Ledger == INSTANCE MarketLedger WITH
            LedgerMarkets <- Markets,
            LedgerBets <- BetIds,
            chainMarkets <- [m \in Markets |-> ledgerMarket(m)],
            chainBets <- [b \in BetIds |-> ledgerBet(b)]

(* A market is resolved once, with one outcome; a bet is voided before its  *)
(* market is resolved, refunded after its cancellation, and cashed after a *)
(* settlement that listed it.                                              *)
LedgerSpec == Ledger!LedgerSpec
=============================================================================
