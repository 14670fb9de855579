----------------------------- MODULE CrashGame -----------------------------
(***************************************************************************)
(* packages/contracts/contracts/CrashGame.sol: one bankroll, rounds one    *)
(* after the other, pull payments.  Every action is one transaction.       *)
(*                                                                         *)
(* startRound refuses while the last round is unresolved and no call does  *)
(* anything to a Resolved round, so only the current round's record and    *)
(* entries are kept.  Entries are indexed by player: a player joins a      *)
(* round once, and the order of the entries does not matter to any sum.    *)
(*                                                                         *)
(* A server seed is what _crashFromSeed reads of it: r % SeedSpace, which    *)
(* also fixes r % 10000.                                                   *)
(***************************************************************************)
EXTENDS Integers, FiniteSets, Sums

CONSTANTS
    NumPlayers,               \* players are 1..NumPlayers
    MIN_STAKE, MAX_STAKE,
    MAX_PLAYERS_PER_ROUND,
    MAX_AUTOCASHOUT_X100,
    ROUND_TIMEOUT,
    InitialRtp,
    StakeChoices,             \* amounts tried by joinRound
    AutoChoices,              \* autoCashoutX100 tried, 0 for none
    CashOutChoices,           \* multiplierX100 tried by cashOut
    Seeds,                    \* r % SeedSpace of the seeds tried
    PauseChoices,             \* which of pause (TRUE) and unpause (FALSE) are tried
    RtpChoices,               \* values tried by setRtp
    BankrollChoices,          \* amounts deposited or withdrawn by the admin
    MaxBalance,               \* bound on the contract's USDC
    MaxRounds,                \* bound on currentRoundId
    MaxClock                  \* bound on block.timestamp

BPS_DENOM == 10000
SeedSpace == 1000 * 1000      \* the 1e6 of _crashFromSeed
FLOOR_X100 == 101             \* the lowest cap lockRound ever sets
NO_RISK_FLOOR_X100 == 140
NO_RISK_MAX_X100 == 5000

ASSUME CrashAssumption ==
    /\ NumPlayers \in Nat
    /\ MIN_STAKE \in Nat \ {0}
    /\ MAX_STAKE \in Nat
    /\ MAX_PLAYERS_PER_ROUND \in Nat
    /\ MAX_AUTOCASHOUT_X100 \in Nat /\ MAX_AUTOCASHOUT_X100 >= FLOOR_X100
    /\ ROUND_TIMEOUT \in Nat
    /\ InitialRtp \in 5000..9900
    /\ StakeChoices \subseteq Nat
    /\ AutoChoices \subseteq Nat
    /\ CashOutChoices \subseteq Nat
    /\ Seeds \subseteq 0..(SeedSpace - 1)
    /\ PauseChoices \subseteq BOOLEAN
    /\ RtpChoices \subseteq Nat
    /\ BankrollChoices \subseteq Nat
    /\ MaxBalance \in Nat
    /\ MaxRounds \in Nat
    /\ MaxClock \in Nat

Players == 1..NumPlayers

VARIABLES
    clock,                  \* block.timestamp
    usdc,                   \* usdc.balanceOf(this)
    currentRoundId,
    round,                  \* rounds[currentRoundId]
    entries,                \* roundPlayers[currentRoundId], per player
    pendingPayout,          \* per player
    totalPendingPayouts,
    rtpBps,
    paused

crashVars == <<clock, usdc, currentRoundId, round, entries, pendingPayout,
               totalPendingPayouts, rtpBps, paused>>

NoRound == [status |-> "None", seed |-> 0, startedAt |-> 0, crashMultiplierX100 |-> 0,
            totalStaked |-> 0, maxPotentialPayout |-> 0, maxSustainableCrashX100 |-> 0]
NoEntry == [amount |-> 0, autoCashoutX100 |-> 0, cashedOutAtX100 |-> 0, resolved |-> FALSE]

CrashInit ==
    /\ clock = 0
    /\ usdc = 0
    /\ currentRoundId = 0
    /\ round = NoRound
    /\ entries = [p \in Players |-> NoEntry]
    /\ pendingPayout = [p \in Players |-> 0]
    /\ totalPendingPayouts = 0
    /\ rtpBps = InitialRtp
    /\ paused = FALSE

-----------------------------------------------------------------------------
(* Pure helpers *)

Lesser(a, b) == IF a < b THEN a ELSE b

joined   == {p \in Players : entries[p].amount > 0}
TotalOf(amountOf) == SumTo(amountOf, NumPlayers)

freeCapacity == IF usdc > totalPendingPayouts THEN usdc - totalPendingPayouts ELSE 0

isUnresolved == round.status \in {"Pending", "Running"}

(* rtpBps * 1e6 / (100 * (1e6 - e)), with the factor 100 cancelled. *)
crashFromSeed(seed, noRisk) ==
    IF noRisk
    THEN Lesser(NO_RISK_MAX_X100,
                NO_RISK_FLOOR_X100
                + (150 * seed) \div (SeedSpace - ((seed * 93) \div 100)))
    ELSE IF seed % BPS_DENOM < BPS_DENOM - rtpBps THEN 100
    ELSE LET curve == (rtpBps * 10000) \div (SeedSpace - seed)
         IN  IF curve < FLOOR_X100 THEN FLOOR_X100
             ELSE Lesser(curve, MAX_AUTOCASHOUT_X100)

(* What auto-cashout players with a threshold up to x are owed at most. *)
fixedLiability(x) ==
    TotalOf([p \in Players |->
               IF entries[p].autoCashoutX100 # 0 /\ entries[p].autoCashoutX100 <= x
               THEN (entries[p].amount * entries[p].autoCashoutX100) \div 100 ELSE 0])

manualStakeSum ==
    TotalOf([p \in Players |->
               IF entries[p].autoCashoutX100 = 0 THEN entries[p].amount ELSE 0])

thresholds == {entries[p].autoCashoutX100 : p \in joined} \ {0}

LargestOf(S) == CHOOSE x \in S : \A y \in S : y <= x
SmallestOf(S) == CHOOSE x \in S : \A y \in S : x <= y

(* Variant of segmentEnd: the segment includes the next threshold. *)
segmentEndInclusive(start) ==
    LET later == {t \in thresholds : t > start}
    IN  IF later = {} THEN MAX_AUTOCASHOUT_X100 ELSE SmallestOf(later)

(* The segment of multipliers from `start` up to the next threshold, and   *)
(* the best cap inside it.  0 when the segment offers none.                *)
segmentEnd(start) ==
    LET later == {t \in thresholds : t > start}
    IN  IF later = {} THEN MAX_AUTOCASHOUT_X100 ELSE SmallestOf(later) - 1

segmentBest(start, available) ==
    LET fixedSum == fixedLiability(start)
        crossing == Lesser(((available - fixedSum) * 100) \div manualStakeSum,
                           segmentEnd(start))
    IN  IF fixedSum > available THEN 0
        ELSE IF manualStakeSum = 0 THEN segmentEnd(start)
        ELSE IF crossing >= start THEN crossing
        ELSE 0

maxSustainableCrashX100(available) ==
    IF joined = {} THEN MAX_AUTOCASHOUT_X100
    ELSE LargestOf({FLOOR_X100} \cup
                   {segmentBest(start, available) : start \in {FLOOR_X100} \cup thresholds})

(* The multiplier an entry wins at, 0 when it loses. *)
winMultiplier(p, crash) ==
    LET e == entries[p] IN
        IF e.cashedOutAtX100 # 0 /\ e.cashedOutAtX100 <= crash THEN e.cashedOutAtX100
        ELSE IF e.autoCashoutX100 # 0 /\ e.autoCashoutX100 <= crash THEN e.autoCashoutX100
        ELSE 0

quotedPayout(p, crash) == (entries[p].amount * winMultiplier(p, crash)) \div 100

sumWinningStakes(crash) ==
    TotalOf([p \in Players |->
               IF winMultiplier(p, crash) > 0 THEN entries[p].amount ELSE 0])

sumQuoted(crash) ==
    TotalOf([p \in Players |-> quotedPayout(p, crash)])

(* _computeScaledPayout with _calculateFillRatioBps folded in. *)
scaledPayout(p, crash, L) ==
    LET stake  == entries[p].amount
        quoted == quotedPayout(p, crash)
        stakes == sumWinningStakes(crash)
        sum    == sumQuoted(crash)
        ratio  == IF L <= stakes THEN 0 ELSE ((L - stakes) * BPS_DENOM) \div (sum - stakes)
    IN  IF winMultiplier(p, crash) = 0 THEN 0
        ELSE IF L >= sum THEN quoted
        ELSE IF L >= stakes THEN stake + ((quoted - stake) * ratio) \div BPS_DENOM
        ELSE (stake * L) \div stakes

-----------------------------------------------------------------------------
(* Round lifecycle *)

startRound(seed) ==
    /\ ~paused
    /\ ~isUnresolved
    /\ currentRoundId < MaxRounds
    /\ currentRoundId' = currentRoundId + 1
    /\ round' = [NoRound EXCEPT !.status = "Pending", !.seed = seed]
    /\ entries' = [p \in Players |-> NoEntry]
    /\ UNCHANGED <<clock, usdc, pendingPayout, totalPendingPayouts, rtpBps, paused>>

joinRound(p, amount, auto) ==
    LET cap == IF auto = 0 THEN MAX_AUTOCASHOUT_X100 ELSE auto IN
        /\ ~paused
        /\ MIN_STAKE <= amount /\ amount <= MAX_STAKE
        /\ round.status = "Pending"
        /\ auto # 0 => 100 < auto /\ auto <= MAX_AUTOCASHOUT_X100
        /\ p \notin joined
        /\ Cardinality(joined) < MAX_PLAYERS_PER_ROUND
        /\ usdc + amount <= MaxBalance
        /\ round' = [round EXCEPT !.maxPotentialPayout = @ + (amount * cap) \div 100,
                                  !.totalStaked = @ + amount]
        /\ entries' = [entries EXCEPT ![p] = [NoEntry EXCEPT !.amount = amount,
                                                             !.autoCashoutX100 = auto]]
        /\ usdc' = usdc + amount
        /\ UNCHANGED <<clock, currentRoundId, pendingPayout, totalPendingPayouts,
                       rtpBps, paused>>

(* The share of the free capacity lockRound is ready to promise. *)
lockAvailable == (freeCapacity * rtpBps) \div BPS_DENOM

lockRound ==
    /\ round.status = "Pending"
    /\ round' = [round EXCEPT !.status = "Running", !.startedAt = clock,
                   !.maxSustainableCrashX100 = maxSustainableCrashX100(lockAvailable)]
    /\ UNCHANGED <<clock, usdc, currentRoundId, entries, pendingPayout,
                   totalPendingPayouts, rtpBps, paused>>

(* Neither pausing nor the multiplier shown at the time limits a cash-out. *)
cashOut(p, multiplier) ==
    /\ round.status = "Running"
    /\ multiplier > 100
    /\ p \in joined
    /\ entries[p].cashedOutAtX100 = 0
    /\ entries' = [entries EXCEPT ![p].cashedOutAtX100 = multiplier]
    /\ UNCHANGED <<clock, usdc, currentRoundId, round, pendingPayout,
                   totalPendingPayouts, rtpBps, paused>>

crashPoint ==
    LET natural == crashFromSeed(round.seed, joined = {}) IN
        IF round.maxSustainableCrashX100 # 0
        THEN Lesser(natural, round.maxSustainableCrashX100) ELSE natural

resolveRound ==
    LET crash     == crashPoint
        payout    == [p \in Players |-> IF entries[p].resolved THEN 0
                                        ELSE scaledPayout(p, crash, freeCapacity)]
        auto(p)   == ~(/\ entries[p].cashedOutAtX100 # 0
                       /\ entries[p].cashedOutAtX100 <= crash)
                     /\ winMultiplier(p, crash) > 0
    IN  /\ round.status = "Running"
        /\ round' = [round EXCEPT !.status = "Resolved", !.crashMultiplierX100 = crash]
        /\ entries' = [p \in Players |->
                         IF p \notin joined THEN entries[p]
                         ELSE [entries[p] EXCEPT
                                 !.resolved = TRUE,
                                 !.cashedOutAtX100 = IF auto(p) THEN winMultiplier(p, crash)
                                                                ELSE @]]
        /\ pendingPayout' = [p \in Players |-> pendingPayout[p] + payout[p]]
        /\ totalPendingPayouts' = totalPendingPayouts + TotalOf(payout)
        /\ UNCHANGED <<clock, usdc, currentRoundId, rtpBps, paused>>

(* _refundAllEntries *)
refundAll ==
    LET refund == [p \in Players |-> IF entries[p].resolved THEN 0 ELSE entries[p].amount] IN
        /\ round' = [round EXCEPT !.status = "Resolved", !.crashMultiplierX100 = 0]
        /\ entries' = [p \in Players |-> IF p \in joined
                                         THEN [entries[p] EXCEPT !.resolved = TRUE]
                                         ELSE entries[p]]
        /\ pendingPayout' = [p \in Players |-> pendingPayout[p] + refund[p]]
        /\ totalPendingPayouts' = totalPendingPayouts + TotalOf(refund)
        /\ UNCHANGED <<clock, usdc, currentRoundId, rtpBps, paused>>

cancelStuckRound ==
    /\ round.status = "Running"
    /\ clock > round.startedAt + ROUND_TIMEOUT
    /\ refundAll

cancelPendingRound ==
    /\ round.status = "Pending"
    /\ refundAll

(* Variant of claim: the running total is not lowered. *)
claimKeepsTotal(p) ==
    /\ pendingPayout[p] # 0
    /\ pendingPayout[p] <= totalPendingPayouts
    /\ pendingPayout[p] <= usdc
    /\ pendingPayout' = [pendingPayout EXCEPT ![p] = 0]
    /\ totalPendingPayouts' = totalPendingPayouts
    /\ usdc' = usdc - pendingPayout[p]
    /\ UNCHANGED <<clock, currentRoundId, round, entries, rtpBps, paused>>

claim(p) ==
    /\ pendingPayout[p] # 0
    /\ pendingPayout[p] <= totalPendingPayouts
    /\ pendingPayout[p] <= usdc
    /\ pendingPayout' = [pendingPayout EXCEPT ![p] = 0]
    /\ totalPendingPayouts' = totalPendingPayouts - pendingPayout[p]
    /\ usdc' = usdc - pendingPayout[p]
    /\ UNCHANGED <<clock, currentRoundId, round, entries, rtpBps, paused>>

-----------------------------------------------------------------------------
(* Bankroll, admin, time *)

depositBankroll(amount) ==
    /\ amount # 0
    /\ usdc + amount <= MaxBalance
    /\ usdc' = usdc + amount
    /\ UNCHANGED <<clock, currentRoundId, round, entries, pendingPayout,
                   totalPendingPayouts, rtpBps, paused>>

(* Variant of reservedBankroll: the open round is not reserved. *)
reservedCreditsOnly ==
    totalPendingPayouts

reservedBankroll ==
    totalPendingPayouts + IF isUnresolved THEN round.maxPotentialPayout ELSE 0

withdrawBankroll(amount) ==
    /\ amount # 0
    /\ amount <= IF usdc > reservedBankroll THEN usdc - reservedBankroll ELSE 0
    /\ usdc' = usdc - amount
    /\ UNCHANGED <<clock, currentRoundId, round, entries, pendingPayout,
                   totalPendingPayouts, rtpBps, paused>>

setRtp(newBps) ==
    /\ 5000 <= newBps /\ newBps <= 9900
    /\ rtpBps' = newBps
    /\ UNCHANGED <<clock, usdc, currentRoundId, round, entries, pendingPayout,
                   totalPendingPayouts, paused>>

setPaused(value) ==
    /\ paused # value
    /\ paused' = value
    /\ UNCHANGED <<clock, usdc, currentRoundId, round, entries, pendingPayout,
                   totalPendingPayouts, rtpBps>>

Advance ==
    /\ clock < MaxClock
    /\ clock' = clock + 1
    /\ UNCHANGED <<usdc, currentRoundId, round, entries, pendingPayout,
                   totalPendingPayouts, rtpBps, paused>>

CrashNext ==
    \/ \E s \in Seeds : startRound(s)
    \/ \E p \in Players, a \in StakeChoices, x \in AutoChoices : joinRound(p, a, x)
    \/ lockRound
    \/ \E p \in Players, x \in CashOutChoices : cashOut(p, x)
    \/ resolveRound
    \/ cancelStuckRound
    \/ cancelPendingRound
    \/ \E p \in Players : claim(p)
    \/ \E a \in BankrollChoices : depositBankroll(a)
    \/ \E a \in BankrollChoices : withdrawBankroll(a)
    \/ \E r \in RtpChoices : setRtp(r)
    \/ \E v \in PauseChoices : setPaused(v)
    \/ Advance

CrashSpec == CrashInit /\ [][CrashNext]_crashVars

-----------------------------------------------------------------------------
(* Properties *)

(* The type of every variable. *)
CrashTypeOK ==
    /\ clock \in 0..MaxClock
    /\ usdc \in Nat
    /\ currentRoundId \in 0..MaxRounds
    /\ round \in [status : {"None", "Pending", "Running", "Resolved"}, seed : 0..(SeedSpace - 1),
                  startedAt : 0..MaxClock, crashMultiplierX100 : Nat, totalStaked : Nat,
                  maxPotentialPayout : Nat, maxSustainableCrashX100 : Nat]
    /\ entries \in [Players -> [amount : Nat, autoCashoutX100 : Nat,
                                cashedOutAtX100 : Nat, resolved : BOOLEAN]]
    /\ pendingPayout \in [Players -> Nat]
    /\ totalPendingPayouts \in Nat
    /\ rtpBps \in 5000..9900
    /\ paused \in BOOLEAN

(* Every credited win can be claimed and every stake of an unresolved round *)
(* can be refunded: resolution shares out at most the capacity that is free *)
(* of earlier, unclaimed wins, and the admin cannot withdraw below both.    *)
CrashSolvent ==
    usdc >= totalPendingPayouts + IF isUnresolved THEN round.totalStaked ELSE 0

(* totalPendingPayouts, the running total every capacity check subtracts,  *)
(* stays the sum of the players' credits through refunds, wins and claims, *)
(* and the round's own totals stay those of its entries.                   *)
PendingTotal ==
    /\ totalPendingPayouts = SumTo(pendingPayout, NumPlayers)
    /\ round.totalStaked = TotalOf([p \in Players |-> entries[p].amount])
    /\ round.totalStaked <= round.maxPotentialPayout

(* What the round's winners could be owed at a crash point of x, when every *)
(* player without auto-cashout clicks right at it.                          *)
worstCaseX100(x) == 100 * fixedLiability(x) + manualStakeSum * x

(* lockRound's segment walk finds the largest multiplier the available     *)
(* capacity covers, as defined by trying every multiplier.                 *)
CapIsLargest ==
    [][round.status = "Pending" /\ round'.status = "Running" =>
         LET covered == {x \in FLOOR_X100..MAX_AUTOCASHOUT_X100 :
                           worstCaseX100(x) <= 100 * lockAvailable}
         IN  round'.maxSustainableCrashX100 =
               IF joined = {} THEN MAX_AUTOCASHOUT_X100
               ELSE LargestOf({FLOOR_X100} \cup covered)]_crashVars

resolves ==
    round.status = "Running" /\ round'.status = "Resolved" /\ round'.crashMultiplierX100 # 0

wonInFull ==
    \A p \in joined :
        pendingPayout'[p] - pendingPayout[p] = quotedPayout(p, round'.crashMultiplierX100)

(* The cap set at lock time still covers every winner at resolution, after *)
(* any claims, withdrawals and changes of the RTP in between, when it is   *)
(* above the floor and players with an auto-cashout left it to run.        *)
CapSustainable ==
    [][resolves
       /\ round.maxSustainableCrashX100 > FLOOR_X100
       /\ (\A p \in joined : entries[p].autoCashoutX100 # 0 => entries[p].cashedOutAtX100 = 0)
         => wonInFull]_crashVars
=============================================================================
