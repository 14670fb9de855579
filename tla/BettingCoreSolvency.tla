------------------------ MODULE BettingCoreSolvency ------------------------
(***************************************************************************)
(* BettingCore's own accounts, for any number of markets, bets and parlays *)
(* and every order of settlements, voids, cancellations and claims.  First *)
(* the two counters settlement and voiding trust: a market's               *)
(* totalBetAmount is its pending stakes and its pool bucket their locks.   *)
(* Then solvency: a settlement adds payout - totalBetAmount to the balance *)
(* and the same, rounded down bet by bet, to what is owed.  Then the two   *)
(* abstract specifications: every transaction is a step of MarketLedger,   *)
(* the contract the settlement workers are modelled against, and of        *)
(* BetEscrow, what a bettor is promised.  Between them, the pool's side of *)
(* a payment: it never takes what is locked for somebody else.             *)
(***************************************************************************)
EXTENDS BettingCoreProofs

(* A placed bet names a market on the contract, a winner a settled one.    *)
BetsPlaced ==
    \A b \in BetIds :
        /\ bets[b].status # "None" => markets[bets[b].marketId].status # "None"
        /\ bets[b].status = "Won" => markets[bets[b].marketId].status = "Settled"

stakesIn(m) == [b \in BetIds |-> IF pendingIn(b, m) THEN bets[b].amount ELSE 0]
locksIn(m)  == [b \in BetIds |-> IF pendingIn(b, m) THEN bets[b].lockedAmount ELSE 0]

TrackedIn(m) ==
    /\ isUnresolved(m) => markets[m].totalBetAmount = SumTo(stakesIn(m), MaxBets)
    /\ marketLocked[m] = IF isUnresolved(m) THEN SumTo(locksIn(m), MaxBets) ELSE 0

ParlaysUnlocked ==
    \A p \in ParlayIds : parlays[p].status # "Pending" => marketLocked[ParlayKey(p)] = 0

Tracking ==
    /\ BetsPlaced
    /\ \A m \in Markets : TrackedIn(m)
    /\ ParlaysUnlocked

LEMMA TrackingNamed ==
    Tracking => StakesTracked /\ LocksTracked
BY DEF Tracking, TrackedIn, stakesIn, locksIn, ParlaysUnlocked, StakesTracked, LocksTracked

-----------------------------------------------------------------------------
(* Frames *)

(* A market resolved stays resolved, one registered stays registered.      *)
MarketsKept ==
    \A n \in Markets : \/ markets'[n] = markets[n]
                       \/ /\ markets[n].status # "Settled"
                          /\ markets'[n].status \notin {"None", "Settled"}

(* The bets of a market that a step touches are pending neither before nor *)
(* after it, or are the ones it is about.                                  *)
LEMMA MarketQuiet ==
    ASSUME NEW m \in Markets, TrackedIn(m),
           \A c \in BetIds : bets'[c] = bets[c] \/ ~(pendingIn(c, m) \/ pendingIn(c, m)'),
           markets'[m].totalBetAmount = markets[m].totalBetAmount,
           isUnresolved(m)' <=> isUnresolved(m),
           marketLocked'[m] = marketLocked[m]
    PROVE  TrackedIn(m)'
<1>1. stakesIn(m)' = stakesIn(m) /\ locksIn(m)' = locksIn(m)
  BY DEF stakesIn, locksIn, pendingIn
<1> QED
  BY <1>1 DEF TrackedIn

LEMMA MarketClosed ==
    ASSUME NEW m \in Markets, ~isUnresolved(m)', marketLocked'[m] = 0
    PROVE  TrackedIn(m)'
BY DEF TrackedIn

(* Nothing is pending in a market that is not on the contract. *)
LEMMA MarketFresh ==
    ASSUME BetsPlaced, NEW m \in Markets, markets[m].status = "None"
    PROVE  SumTo(stakesIn(m), MaxBets) = 0 /\ SumTo(locksIn(m), MaxBets) = 0
<1>1. \A b \in 1..MaxBets : stakesIn(m)[b] = 0 /\ locksIn(m)[b] = 0
  BY DEF BetsPlaced, stakesIn, locksIn, pendingIn, BetIds
<1>2. MaxBets \in Nat
  BY CoreAssumption
<1> QED
  BY <1>1, <1>2, SumZeros

LEMMA MarketOpens ==
    ASSUME BetsPlaced, NEW m \in Markets, TrackedIn(m), markets[m].status = "None",
           UNCHANGED bets, markets'[m].totalBetAmount = 0,
           marketLocked'[m] = marketLocked[m]
    PROVE  TrackedIn(m)'
<1>1. SumTo(stakesIn(m), MaxBets) = 0 /\ SumTo(locksIn(m), MaxBets) = 0
  BY MarketFresh
<1>2. stakesIn(m)' = stakesIn(m) /\ locksIn(m)' = locksIn(m)
  BY DEF stakesIn, locksIn, pendingIn
<1>3. marketLocked[m] = 0
  BY DEF TrackedIn, isUnresolved
<1> QED
  BY <1>1, <1>2, <1>3 DEF TrackedIn

LEMMA BetsStayPlaced ==
    ASSUME BetsPlaced, MarketsKept, BetsOK,
           \A c \in BetIds : \/ bets'[c] = bets[c]
                             \/ /\ bets[c].status # "None" /\ bets'[c].status # "Won"
                                /\ bets'[c].marketId = bets[c].marketId
    PROVE  BetsPlaced'
<1> SUFFICES ASSUME NEW c \in BetIds
             PROVE  /\ bets'[c].status # "None" => markets'[bets'[c].marketId].status # "None"
                    /\ bets'[c].status = "Won" => markets'[bets'[c].marketId].status = "Settled"
  BY DEF BetsPlaced
<1>1. bets'[c].marketId = bets[c].marketId
  OBVIOUS
<1>2. CASE bets[c].status = "None"
  BY <1>2
<1>3. CASE bets[c].status # "None"
  <2>1. bets[c].marketId \in Markets /\ markets[bets[c].marketId].status # "None"
    BY <1>3, BetNumbers DEF BetsPlaced
  <2>2. markets'[bets[c].marketId].status # "None"
    BY <2>1 DEF MarketsKept
  <2>3. bets'[c].status = "Won" => markets'[bets[c].marketId].status = "Settled"
    <3>1. bets'[c].status = "Won" => bets[c].status = "Won"
      OBVIOUS
    <3>2. bets[c].status = "Won" => markets[bets[c].marketId].status = "Settled"
      BY DEF BetsPlaced
    <3> QED
      BY <2>1, <3>1, <3>2 DEF MarketsKept
  <2> QED
    BY <1>1, <2>2, <2>3
<1> QED
  BY <1>2, <1>3

(* The keys of parlays are not those of markets. *)
LEMMA KeysApart ==
    /\ \A m \in Markets, p \in ParlayIds : ParlayKey(p) # m
    /\ \A p, q \in ParlayIds : ParlayKey(p) = ParlayKey(q) => p = q
BY CoreAssumption DEF Markets, ParlayIds, ParlayKey

LEMMA LockMoves ==
    ASSUME PoolInv, NEW k \in Keys, NEW amount \in Nat, LockIfPositive(k, amount)
    PROVE  /\ marketLocked'[k] = marketLocked[k] + amount
           /\ \A j \in Keys : j # k => marketLocked'[j] = marketLocked[j]
<1>1. marketLocked \in [Keys -> Nat]
  BY DEF PoolInv, PoolTypeOK
<1>2. CASE amount > 0
  BY <1>1, <1>2 DEF LockIfPositive, lockLiquidity
<1>3. CASE ~(amount > 0)
  <2>1. amount = 0 /\ marketLocked' = marketLocked
    BY <1>3 DEF LockIfPositive, poolVars, lockVars
  <2> QED
    BY <1>1, <2>1
<1> QED
  BY <1>2, <1>3

LEMMA ReportClears ==
    ASSUME PoolInv, NEW k \in Keys, NEW t, NEW q, NEW d, reportMarketResult(k, t, q, d)
    PROVE  /\ marketLocked'[k] = 0
           /\ \A j \in Keys : j # k => marketLocked'[j] = marketLocked[j]
<1>1. marketLocked \in [Keys -> Nat]
  BY DEF PoolInv, PoolTypeOK
<1> QED
  BY <1>1 DEF reportMarketResult

(* One bet changed: the sums of a market move by its change. *)
LEMMA SumsMove ==
    ASSUME BetsOK, BetsOK', NEW m \in Markets, NEW b \in BetIds,
           \A c \in BetIds : c # b => bets'[c] = bets[c]
    PROVE  /\ SumTo(stakesIn(m)', MaxBets) =
                SumTo(stakesIn(m), MaxBets) + (stakesIn(m)'[b] - stakesIn(m)[b])
           /\ SumTo(locksIn(m)', MaxBets) =
                SumTo(locksIn(m), MaxBets) + (locksIn(m)'[b] - locksIn(m)[b])
<1>1. MaxBets \in Nat /\ BetIds = 1..MaxBets
  BY CoreAssumption DEF BetIds
<1>2. \A c \in BetIds : /\ bets[c].amount \in Nat /\ bets[c].lockedAmount \in Nat
                        /\ bets'[c].amount \in Nat /\ bets'[c].lockedAmount \in Nat
  BY DEF BetsOK, BetType
<1>3. \A c \in BetIds : /\ stakesIn(m)[c] \in Int /\ stakesIn(m)'[c] \in Int
                        /\ locksIn(m)[c] \in Int /\ locksIn(m)'[c] \in Int
  BY <1>2 DEF stakesIn, locksIn
<1>4. \A c \in BetIds : c # b => /\ stakesIn(m)[c] = stakesIn(m)'[c]
                                 /\ locksIn(m)[c] = locksIn(m)'[c]
  BY DEF stakesIn, locksIn, pendingIn
<1> QED
  BY <1>1, <1>3, <1>4, SumUpdate

LEMMA ParlaysStayUnlocked ==
    ASSUME ParlaysUnlocked,
           \A p \in ParlayIds : \/ /\ parlays'[p].status = parlays[p].status
                                   /\ marketLocked'[ParlayKey(p)] = marketLocked[ParlayKey(p)]
                                \/ parlays'[p].status = "Pending"
                                \/ marketLocked'[ParlayKey(p)] = 0
    PROVE  ParlaysUnlocked'
BY DEF ParlaysUnlocked, ParlayKey

-----------------------------------------------------------------------------
(* The counters, transaction by transaction *)

LEMMA NewMarketIs ==
    ASSUME NEW t \in Nat
    PROVE  NewMarket(t).status = "Open" /\ NewMarket(t).totalBetAmount = 0
<1> DEFINE open == [NoMarket EXCEPT !.status = "Open"]
<1>1. NoMarket \in MarketType /\ NoMarket.totalBetAmount = 0
  BY DEF NoMarket, MarketType, FULL_RATIO
<1>2. open \in MarketType /\ open.status = "Open" /\ open.totalBetAmount = 0
  BY ONLY <1>1 DEF MarketType
<1>3. NewMarket(t) = [open EXCEPT !.closesAt = t]
  BY <1>1 DEF NewMarket, MarketType
<1> HIDE DEF open
<1>4. [open EXCEPT !.closesAt = t].status = "Open" /\ [open EXCEPT !.closesAt = t].totalBetAmount = 0
  BY <1>2 DEF MarketType
<1> QED
  BY <1>3, <1>4

(* Nothing but the market records change, and none is settled. *)
LEMMA StatusTracked ==
    ASSUME CoreInv, Tracking, UNCHANGED <<bets, parlays, marketLocked>>,
           \A n \in Markets :
               \/ markets'[n] = markets[n]
               \/ /\ markets[n].status = "None"
                  /\ markets'[n].status = "Open" /\ markets'[n].totalBetAmount = 0
               \/ /\ isUnresolved(n) /\ isUnresolved(n)'
                  /\ markets'[n].totalBetAmount = markets[n].totalBetAmount
    PROVE  Tracking' /\ MarketsKept
<1>1. MarketsKept
  BY DEF MarketsKept, isUnresolved
<1>2. BetsPlaced'
  BY <1>1, BetsStayPlaced DEF Tracking, CoreInv
<1>3. ASSUME NEW n \in Markets PROVE TrackedIn(n)'
  <2>1. TrackedIn(n) /\ BetsPlaced
    BY DEF Tracking
  <2>2. CASE markets'[n] = markets[n]
    BY <2>1, <2>2, MarketQuiet DEF isUnresolved
  <2>3. CASE markets[n].status = "None" /\ markets'[n].totalBetAmount = 0
    BY <2>1, <2>3, MarketOpens
  <2>4. CASE /\ isUnresolved(n) /\ isUnresolved(n)'
             /\ markets'[n].totalBetAmount = markets[n].totalBetAmount
    BY <2>1, <2>4, MarketQuiet
  <2> QED
    BY <2>2, <2>3, <2>4
<1>4. ParlaysUnlocked'
  BY DEF Tracking, ParlaysUnlocked, ParlayKey
<1> QED
  BY <1>1, <1>2, <1>3, <1>4 DEF Tracking

LEMMA LifecycleTracked ==
    ASSUME CoreInv, Tracking, NEW m \in Markets, NEW t \in Nat,
           createMarket(m, t) \/ suspendMarket(m) \/ resumeMarket(m)
    PROVE  Tracking' /\ MarketsKept
<1>1. UNCHANGED <<bets, parlays, marketLocked>>
  BY DEF createMarket, suspendMarket, resumeMarket, poolVars, lockVars
<1>2. markets \in [Markets -> MarketType]
  BY DEF CoreInv, MarketsOK
<1>3. \A n \in Markets : n # m => markets'[n] = markets[n]
  BY <1>2 DEF createMarket, suspendMarket, resumeMarket
<1>4. CASE createMarket(m, t)
  <2>1. /\ markets[m].status = "None"
        /\ markets'[m].status = "Open" /\ markets'[m].totalBetAmount = 0
    BY <1>2, <1>4, NewMarketIs DEF createMarket
  <2> QED
    BY <1>1, <1>3, <2>1, StatusTracked
<1>5. CASE suspendMarket(m) \/ resumeMarket(m)
  <2>1. /\ isUnresolved(m)
        /\ markets'[m].status \in {"Open", "Suspended"}
        /\ markets'[m].totalBetAmount = markets[m].totalBetAmount
    BY <1>2, <1>5 DEF suspendMarket, resumeMarket, isUnresolved, isOpen, MarketType
  <2>2. isUnresolved(m)'
    BY <2>1 DEF isUnresolved
  <2> QED
    BY <1>1, <1>3, <2>1, <2>2, StatusTracked
<1> QED
  BY <1>4, <1>5

LEMMA CancelTracked ==
    ASSUME CoreInv, Tracking, NEW m \in Markets, cancelMarket(m)
    PROVE  Tracking' /\ MarketsKept
<1>1. UNCHANGED <<bets, parlays>> /\ markets' = [markets EXCEPT ![m].status = "Cancelled"]
      /\ isUnresolved(m)
  BY DEF cancelMarket
<1>2. markets \in [Markets -> MarketType] /\ m \in Keys /\ PoolInv
  BY MarketKeys DEF CoreInv, MarketsOK
<1>3. /\ markets'[m].status = "Cancelled"
      /\ \A n \in Markets : n # m => markets'[n] = markets[n]
  BY <1>1, <1>2 DEF MarketType
<1>4. /\ marketLocked'[m] = 0
      /\ \A j \in Keys : j # m => marketLocked'[j] = marketLocked[j]
  BY <1>2, ReportClears DEF cancelMarket
<1>5. MarketsKept
  BY <1>1, <1>3 DEF MarketsKept, isUnresolved
<1>6. BetsPlaced'
  BY <1>1, <1>5, BetsStayPlaced DEF Tracking, CoreInv
<1>7. ASSUME NEW n \in Markets PROVE TrackedIn(n)'
  <2>1. CASE n = m
    <3>1. ~isUnresolved(n)'
      BY <1>3, <2>1 DEF isUnresolved
    <3> QED
      BY <1>4, <2>1, <3>1, MarketClosed
  <2>2. CASE n # m
    <3>1. isUnresolved(n)' <=> isUnresolved(n)
      BY <1>3, <2>2 DEF isUnresolved
    <3> QED
      BY <1>1, <1>3, <1>4, <2>2, <3>1, MarketKeys, MarketQuiet DEF Tracking
  <2> QED
    BY <2>1, <2>2
<1>8. ParlaysUnlocked'
  BY <1>1, <1>4, KeysApart, ParlayKeys, ParlaysStayUnlocked DEF Tracking
<1> QED
  BY <1>5, <1>6, <1>7, <1>8 DEF Tracking

(* A new bet is added to its market's two counters. *)
LEMMA BetTracked ==
    ASSUME CoreInv, CoreInv', Tracking, NEW b \in BetIds, NEW m \in Markets,
           NEW market \in MarketType, NEW outcome \in Nat, NEW amount \in Nat,
           NEW odds \in Nat,
           \/ market = markets[m] /\ markets[m].status # "None"
           \/ /\ markets[m].status = "None"
              /\ market.status = "Open" /\ market.totalBetAmount = 0,
           executeBet(b, m, market, outcome, amount, odds)
    PROVE  Tracking' /\ MarketsKept
<1> DEFINE payout == potentialPayoutOf(amount, odds)
           lock   == probabilityWeightedLock(payout - amount, odds)
           total  == market.totalBetAmount + amount
<1>1. odds > ODDS_DENOM /\ market.status = "Open" /\ bets[b].status = "None"
  BY DEF executeBet
<1>2. payout \in Nat /\ lock \in Nat
  <2>1. payout \in Nat /\ amount <= payout
    BY <1>1, PayoutBounds
  <2> HIDE DEF payout
  <2>2. payout - amount \in Nat
    BY <2>1
  <2> QED
    BY <1>1, <2>1, <2>2, LockNat
<1>3. /\ LockIfPositive(m, lock)
      /\ bets' = [bets EXCEPT ![b] =
                    [status |-> "Pending", marketId |-> m, outcome |-> outcome,
                     amount |-> amount, potentialPayout |-> payout,
                     lockedAmount |-> lock, paid |-> 0]]
      /\ markets' = [markets EXCEPT ![m] = [market EXCEPT !.totalBetAmount = total]]
      /\ UNCHANGED parlays
  BY DEF executeBet
<1>4. total \in Nat
  BY DEF MarketType
<1> HIDE DEF payout, lock, total
<1>5. markets \in [Markets -> MarketType] /\ bets \in [BetIds -> BetType]
      /\ m \in Keys /\ PoolInv /\ BetsOK /\ BetsOK'
  BY MarketKeys DEF CoreInv, MarketsOK, BetsOK
<1>6. /\ markets'[m].status = "Open" /\ markets'[m].totalBetAmount = total
      /\ \A n \in Markets : n # m => markets'[n] = markets[n]
  <2>1. markets'[m] = [market EXCEPT !.totalBetAmount = total]
    BY <1>3, <1>5
  <2>2. markets'[m].status = "Open" /\ markets'[m].totalBetAmount = total
    BY <1>1, <2>1 DEF MarketType
  <2> QED
    BY <1>3, <1>5, <2>2
<1>7. /\ bets'[b].status = "Pending" /\ bets'[b].marketId = m
      /\ bets'[b].amount = amount /\ bets'[b].lockedAmount = lock
      /\ \A c \in BetIds : c # b => bets'[c] = bets[c]
  BY <1>3, <1>5
<1>8. MarketsKept
  BY <1>1, <1>6 DEF MarketsKept
<1>9. BetsPlaced'
  <2> SUFFICES ASSUME NEW c \in BetIds
               PROVE  /\ bets'[c].status # "None" => markets'[bets'[c].marketId].status # "None"
                      /\ bets'[c].status = "Won" => markets'[bets'[c].marketId].status = "Settled"
    BY DEF BetsPlaced
  <2>1. CASE c = b
    BY <1>6, <1>7, <2>1
  <2>2. CASE c # b
    <3>1. bets'[c] = bets[c]
      BY <1>7, <2>2
    <3>2. bets[c].status # "None" => /\ bets[c].marketId \in Markets
                                     /\ markets[bets[c].marketId].status # "None"
      BY <1>5, BetNumbers DEF Tracking, BetsPlaced
    <3>3. bets[c].status = "Won" => markets[bets[c].marketId].status = "Settled"
      BY DEF Tracking, BetsPlaced
    <3> QED
      BY <1>8, <3>1, <3>2, <3>3 DEF MarketsKept
  <2> QED
    BY <2>1, <2>2
<1>10. /\ marketLocked'[m] = marketLocked[m] + lock
       /\ \A j \in Keys : j # m => marketLocked'[j] = marketLocked[j]
  BY <1>2, <1>3, <1>5, LockMoves
<1>11. TrackedIn(m)'
  <2>1. /\ market.totalBetAmount = SumTo(stakesIn(m), MaxBets)
        /\ marketLocked[m] = SumTo(locksIn(m), MaxBets)
    <3>1. TrackedIn(m) /\ BetsPlaced
      BY DEF Tracking
    <3>2. CASE market = markets[m]
      BY <1>1, <3>1, <3>2 DEF TrackedIn, isUnresolved
    <3>3. CASE markets[m].status = "None" /\ market.totalBetAmount = 0
      <4>1. marketLocked[m] = 0
        BY <3>1, <3>3 DEF TrackedIn, isUnresolved
      <4> QED
        BY <3>1, <3>3, <4>1, MarketFresh
    <3> QED
      BY <3>2, <3>3
  <2>2. /\ SumTo(stakesIn(m)', MaxBets) =
             SumTo(stakesIn(m), MaxBets) + (stakesIn(m)'[b] - stakesIn(m)[b])
        /\ SumTo(locksIn(m)', MaxBets) =
             SumTo(locksIn(m), MaxBets) + (locksIn(m)'[b] - locksIn(m)[b])
    BY <1>5, <1>7, SumsMove
  <2>3. stakesIn(m)[b] = 0 /\ locksIn(m)[b] = 0
    BY <1>1 DEF stakesIn, locksIn, pendingIn
  <2>4. stakesIn(m)'[b] = amount /\ locksIn(m)'[b] = lock
    BY <1>7 DEF stakesIn, locksIn, pendingIn
  <2>5. /\ SumTo(stakesIn(m)', MaxBets) = total
        /\ SumTo(locksIn(m)', MaxBets) = marketLocked'[m]
    <3>1. market.totalBetAmount \in Nat /\ marketLocked[m] \in Nat
      BY <1>5 DEF MarketType, PoolInv, PoolTypeOK
    <3> QED
      BY <1>2, <1>10, <2>1, <2>2, <2>3, <2>4, <3>1 DEF total
  <2> QED
    BY <1>6, <2>5 DEF TrackedIn, isUnresolved
<1>12. ASSUME NEW n \in Markets, n # m PROVE TrackedIn(n)'
  <2>1. isUnresolved(n)' <=> isUnresolved(n)
    BY <1>6, <1>12 DEF isUnresolved
  <2>2. \A c \in BetIds : bets'[c] = bets[c] \/ ~(pendingIn(c, n) \/ pendingIn(c, n)')
    BY <1>1, <1>7, <1>12 DEF pendingIn
  <2>3. TrackedIn(n) /\ n \in Keys
    BY MarketKeys DEF Tracking
  <2> QED
    BY <1>6, <1>10, <1>12, <2>1, <2>2, <2>3, MarketQuiet
<1>13. ParlaysUnlocked'
  BY <1>3, <1>10, KeysApart, ParlayKeys, ParlaysStayUnlocked DEF Tracking
<1> QED
  BY <1>8, <1>9, <1>11, <1>12, <1>13 DEF Tracking

LEMMA PlaceTracked ==
    ASSUME CoreInv, CoreInv', Tracking, NEW b \in BetIds, NEW m \in Markets,
           NEW outcome \in Nat, NEW amount \in Nat, NEW odds \in Nat, NEW t \in Nat,
           \/ placeBet(b, m, outcome, amount, odds)
           \/ placeBetWithAttestation(b, m, outcome, amount, odds, t)
    PROVE  Tracking' /\ MarketsKept
<1>1. markets[m] \in MarketType /\ NewMarket(t) \in MarketType
  BY NewMarketTyped DEF CoreInv, MarketsOK
<1>2. CASE placeBet(b, m, outcome, amount, odds)
  <2>1. markets[m].status # "None" /\ executeBet(b, m, markets[m], outcome, amount, odds)
    BY <1>2 DEF placeBet
  <2> QED
    BY <1>1, <2>1, BetTracked
<1>3. CASE placeBetWithAttestation(b, m, outcome, amount, odds, t)
  <2>1. markets[m].status = "None" /\ executeBet(b, m, NewMarket(t), outcome, amount, odds)
    BY <1>3 DEF placeBetWithAttestation
  <2>2. NewMarket(t).status = "Open" /\ NewMarket(t).totalBetAmount = 0
    BY NewMarketIs
  <2> HIDE DEF NewMarket
  <2> QED
    BY <1>1, <2>1, <2>2, BetTracked
<1> QED
  BY <1>2, <1>3

(* A bet paid out keeps its terms. *)
LEMMA PaidBetIs ==
    ASSUME BetsOK, NEW b \in BetIds, NEW s \in BetStatus, NEW amount,
           bets' = [bets EXCEPT ![b].status = s, ![b].paid = bets[b].paid + amount]
    PROVE  /\ bets'[b].status = s
           /\ bets'[b].marketId = bets[b].marketId /\ bets'[b].amount = bets[b].amount
           /\ bets'[b].lockedAmount = bets[b].lockedAmount
           /\ \A c \in BetIds : c # b => bets'[c] = bets[c]
<1> DEFINE half == [bets[b] EXCEPT !.status = s]
           sum  == bets[b].paid + amount
<1>1. bets[b] \in BetType /\ bets \in [BetIds -> BetType]
  BY DEF BetsOK
<1>2. half \in BetType /\ half.status = s /\ half.marketId = bets[b].marketId
      /\ half.amount = bets[b].amount /\ half.lockedAmount = bets[b].lockedAmount
  BY ONLY <1>1, s \in BetStatus DEF BetType
<1>3. bets'[b] = [half EXCEPT !.paid = sum]
  BY <1>1 DEF BetType
<1>4. \A c \in BetIds : c # b => bets'[c] = bets[c]
  BY <1>1
<1> HIDE DEF half, sum
<1>5. /\ bets'[b].status = s
      /\ bets'[b].marketId = bets[b].marketId /\ bets'[b].amount = bets[b].amount
      /\ bets'[b].lockedAmount = bets[b].lockedAmount
  BY ONLY <1>2, <1>3 DEF BetType
<1> QED
  BY <1>4, <1>5

(* A voided bet is taken off its market's two counters. *)
LEMMA VoidTracked ==
    ASSUME CoreInv, CoreInv', Tracking, NEW b \in BetIds, voidBet(b),
           NEW m \in Markets, bets[b].marketId = m
    PROVE  Tracking' /\ MarketsKept
<1> DEFINE amount == bets[b].amount
           lock   == bets[b].lockedAmount
           rest   == markets[m].totalBetAmount - amount
<1>1. /\ bets[b].status = "Pending" /\ isUnresolved(m)
      /\ bets' = [bets EXCEPT ![b].status = "Cancelled", ![b].paid = bets[b].paid + amount]
      /\ markets' = [markets EXCEPT ![m].totalBetAmount = rest]
      /\ IF lock > 0 THEN unlockLiquidity(m, lock) ELSE UNCHANGED poolVars
      /\ UNCHANGED parlays
  BY DEF voidBet
<1>2. amount \in Nat /\ lock \in Nat /\ BetsOK /\ BetsOK' /\ PoolInv
  BY <1>1, BetNumbers DEF CoreInv
<1>3. /\ bets'[b].status = "Cancelled" /\ bets'[b].marketId = m
      /\ \A c \in BetIds : c # b => bets'[c] = bets[c]
  BY <1>1, <1>2, PaidBetIs DEF BetStatus
<1>4. markets \in [Markets -> MarketType] /\ m \in Keys /\ marketLocked \in [Keys -> Nat]
  BY <1>2, MarketKeys DEF CoreInv, MarketsOK, PoolInv, PoolTypeOK
<1> HIDE DEF amount, lock
<1>5. /\ markets'[m].status = markets[m].status /\ markets'[m].totalBetAmount = rest
      /\ \A n \in Markets : n # m => markets'[n] = markets[n]
  <2> HIDE DEF rest
  <2>1. markets'[m] = [markets[m] EXCEPT !.totalBetAmount = rest]
    BY <1>1, <1>4
  <2>2. markets[m] \in MarketType
    BY <1>4
  <2> QED
    BY <1>1, <1>4, <2>1, <2>2 DEF MarketType
<1>6. /\ marketLocked'[m] = marketLocked[m] - lock
      /\ \A j \in Keys : j # m => marketLocked'[j] = marketLocked[j]
  <2>1. CASE lock > 0
    BY <1>1, <1>4, <2>1 DEF unlockLiquidity
  <2>2. CASE ~(lock > 0)
    <3>1. lock = 0 /\ marketLocked' = marketLocked
      BY <1>1, <1>2, <2>2 DEF poolVars, lockVars
    <3> QED
      BY <1>4, <3>1
  <2> QED
    BY <2>1, <2>2
<1>7. MarketsKept
  BY <1>1, <1>5 DEF MarketsKept, isUnresolved
<1>8. BetsPlaced'
  <2>1. bets[b].status # "None" /\ bets'[b].status # "Won"
    BY <1>1, <1>3
  <2> QED
    BY <1>2, <1>3, <1>7, <2>1, BetsStayPlaced DEF Tracking
<1>9. TrackedIn(m)'
  <2>1. /\ markets[m].totalBetAmount = SumTo(stakesIn(m), MaxBets)
        /\ marketLocked[m] = SumTo(locksIn(m), MaxBets)
    BY <1>1 DEF Tracking, TrackedIn
  <2>2. /\ SumTo(stakesIn(m)', MaxBets) =
             SumTo(stakesIn(m), MaxBets) + (stakesIn(m)'[b] - stakesIn(m)[b])
        /\ SumTo(locksIn(m)', MaxBets) =
             SumTo(locksIn(m), MaxBets) + (locksIn(m)'[b] - locksIn(m)[b])
    BY <1>2, <1>3, SumsMove
  <2>3. stakesIn(m)[b] = amount /\ locksIn(m)[b] = lock
    BY <1>1 DEF stakesIn, locksIn, pendingIn, amount, lock
  <2>4. stakesIn(m)'[b] = 0 /\ locksIn(m)'[b] = 0
    BY <1>3 DEF stakesIn, locksIn, pendingIn
  <2>5. markets[m].totalBetAmount \in Nat /\ marketLocked[m] \in Nat
    BY <1>4 DEF MarketType
  <2>6. /\ SumTo(stakesIn(m)', MaxBets) = markets'[m].totalBetAmount
        /\ SumTo(locksIn(m)', MaxBets) = marketLocked'[m]
    BY <1>2, <1>5, <1>6, <2>1, <2>2, <2>3, <2>4, <2>5
  <2>7. isUnresolved(m)'
    BY <1>1, <1>5 DEF isUnresolved
  <2> QED
    BY <2>6, <2>7 DEF TrackedIn
<1>10. ASSUME NEW n \in Markets, n # m PROVE TrackedIn(n)'
  <2>1. isUnresolved(n)' <=> isUnresolved(n)
    BY <1>5, <1>10 DEF isUnresolved
  <2>2. \A c \in BetIds : bets'[c] = bets[c] \/ ~(pendingIn(c, n) \/ pendingIn(c, n)')
    BY <1>3, <1>10 DEF pendingIn
  <2>3. TrackedIn(n) /\ n \in Keys
    BY MarketKeys DEF Tracking
  <2> QED
    BY <1>5, <1>6, <1>10, <2>1, <2>2, <2>3, MarketQuiet
<1>11. ParlaysUnlocked'
  BY <1>1, <1>6, KeysApart, ParlayKeys, ParlaysStayUnlocked DEF Tracking
<1> QED
  BY <1>7, <1>8, <1>9, <1>10, <1>11 DEF Tracking

(* A claim or a refund pays a bet that no counter holds. *)
LEMMA ClaimTracked ==
    ASSUME CoreInv, Tracking, NEW b \in BetIds, claimWinnings(b) \/ claimRefund(b)
    PROVE  Tracking' /\ MarketsKept
<1>1. /\ bets[b].status # "None"
      /\ UNCHANGED <<markets, parlays, marketLocked>>
  BY DEF claimWinnings, claimRefund, poolVars, lockVars
<1>3. BetsOK
  BY DEF CoreInv
<1>4. /\ bets'[b].status \in {"Cancelled", "Cashed"} /\ bets'[b].marketId = bets[b].marketId
      /\ \A c \in BetIds : c # b => bets'[c] = bets[c]
  <2>1. CASE claimWinnings(b)
    <3>1. bets' = [bets EXCEPT ![b].status = "Cashed", ![b].paid = bets[b].paid + winningsOf(b)]
      BY <2>1 DEF claimWinnings
    <3> QED
      BY <1>3, <3>1, PaidBetIs DEF BetStatus
  <2>2. CASE claimRefund(b)
    <3>1. bets' = [bets EXCEPT ![b].status = "Cancelled", ![b].paid = bets[b].paid + bets[b].amount]
      BY <2>2 DEF claimRefund
    <3> QED
      BY <1>3, <3>1, PaidBetIs DEF BetStatus
  <2> QED
    BY <2>1, <2>2
<1>5. MarketsKept
  BY <1>1 DEF MarketsKept
<1>6. BetsPlaced'
  <2>1. bets'[b].status # "Won"
    BY <1>4
  <2> QED
    BY <1>1, <1>3, <1>4, <1>5, <2>1, BetsStayPlaced DEF Tracking
<1>7. ASSUME NEW n \in Markets PROVE TrackedIn(n)'
  <2>1. TrackedIn(n)
    BY DEF Tracking
  <2>2. isUnresolved(n)' <=> isUnresolved(n)
    BY <1>1 DEF isUnresolved
  <2>3. CASE ~isUnresolved(n)
    BY <1>1, <2>1, <2>2, <2>3 DEF TrackedIn
  <2>4. CASE isUnresolved(n)
    <3>1. ~pendingIn(b, n)
      BY <2>4 DEF claimWinnings, claimRefund, pendingIn, isUnresolved
    <3>2. ~pendingIn(b, n)'
      BY <1>4 DEF pendingIn
    <3> QED
      BY <1>1, <1>4, <2>1, <2>2, <3>1, <3>2, MarketQuiet
  <2> QED
    BY <2>3, <2>4
<1>8. ParlaysUnlocked'
  BY <1>1 DEF Tracking, ParlaysUnlocked, ParlayKey
<1> QED
  BY <1>5, <1>6, <1>7, <1>8 DEF Tracking

(* A settled market's counters no longer count; its winners turn Won. *)
LEMMA SettleTracked ==
    ASSUME CoreInv, Tracking, NEW m \in Markets, NEW outcome \in Nat,
           NEW listed \in [BetIds -> 0..MaxListed], settleMarket(m, outcome, listed)
    PROVE  /\ Tracking'
           /\ markets'[m].status = "Settled"
           /\ markets'[m].fillRatioX1000 = marketFillRatio(m, profitSpan(listed))
           /\ \A n \in Markets : n # m => markets'[n] = markets[n]
<1> DEFINE span  == profitSpan(listed)
           ratio == marketFillRatio(m, span)
           total == sumStakes(listed) + span
           paid  == sumStakes(listed) + scaledProfit(ratio, span)
<1>1. /\ isUnresolved(m) /\ validList(m, listed)
      /\ bets' = [b \in BetIds |-> IF isWinner(listed, b)
                                   THEN [bets[b] EXCEPT !.status = "Won"] ELSE bets[b]]
      /\ markets' = [markets EXCEPT ![m] =
                       [markets[m] EXCEPT !.status = "Settled", !.winningOutcome = outcome,
                                          !.totalPayoutRequired = total,
                                          !.fillRatioX1000 = ratio]]
      /\ finalizeMarketAccounting(m, markets[m].totalBetAmount, paid)
      /\ UNCHANGED parlays
  BY DEF settleMarket
<1>2. span \in Nat /\ total \in Nat
  BY SettlementSums
<1> HIDE DEF span, total, paid
<1>3. ratio \in 0..FULL_RATIO
  BY <1>2, FillRatioBounds
<1> HIDE DEF ratio
<1>4. markets \in [Markets -> MarketType] /\ m \in Keys /\ PoolInv /\ BetsOK
  BY MarketKeys DEF CoreInv, MarketsOK
<1>5. /\ markets'[m].status = "Settled" /\ markets'[m].fillRatioX1000 = ratio
      /\ \A n \in Markets : n # m => markets'[n] = markets[n]
  <2> DEFINE one   == [markets[m] EXCEPT !.status = "Settled"]
             two   == [one EXCEPT !.winningOutcome = outcome]
             three == [two EXCEPT !.totalPayoutRequired = total]
             four  == [three EXCEPT !.fillRatioX1000 = ratio]
  <2>1. markets[m] \in MarketType
    BY <1>4
  <2>2. markets'[m] = four
    BY <1>1, <1>4, <2>1 DEF MarketType
  <2>3. \A n \in Markets : n # m => markets'[n] = markets[n]
    BY <1>1, <1>4
  <2>4. one \in MarketType /\ one.status = "Settled"
    BY ONLY <2>1 DEF MarketType
  <2> HIDE DEF one
  <2>5. two \in MarketType /\ two.status = "Settled"
    BY <2>4 DEF MarketType
  <2> HIDE DEF two
  <2>6. three \in MarketType /\ three.status = "Settled"
    BY <1>2, <2>5 DEF MarketType
  <2> HIDE DEF three
  <2>7. four.status = "Settled" /\ four.fillRatioX1000 = ratio
    BY <2>6 DEF MarketType
  <2> QED
    BY <2>2, <2>3, <2>7
<1>6. ASSUME NEW c \in BetIds
      PROVE  /\ bets'[c].marketId = bets[c].marketId
             /\ isWinner(listed, c) => /\ bets[c].marketId = m /\ bets[c].status = "Pending"
                                       /\ bets'[c].status = "Won"
             /\ ~isWinner(listed, c) => bets'[c] = bets[c]
  <2>1. bets[c] \in BetType
    BY <1>4 DEF BetsOK
  <2>2. CASE isWinner(listed, c)
    <3>1. bets'[c] = [bets[c] EXCEPT !.status = "Won"]
      BY <1>1, <2>2
    <3>2. bets'[c].status = "Won" /\ bets'[c].marketId = bets[c].marketId
      BY <2>1, <3>1 DEF BetType
    <3> QED
      BY <1>1, <2>2, <3>2 DEF isWinner, validList
  <2>3. CASE ~isWinner(listed, c)
    BY <1>1, <2>3
  <2> QED
    BY <2>2, <2>3
<1>7. BetsPlaced'
  <2> SUFFICES ASSUME NEW c \in BetIds
               PROVE  /\ bets'[c].status # "None" => markets'[bets'[c].marketId].status # "None"
                      /\ bets'[c].status = "Won" => markets'[bets'[c].marketId].status = "Settled"
    BY DEF BetsPlaced
  <2>1. CASE isWinner(listed, c)
    BY <1>5, <1>6, <2>1
  <2>2. CASE ~isWinner(listed, c)
    <3>1. bets'[c] = bets[c]
      BY <1>6, <2>2
    <3>2. bets[c].status # "None" => /\ bets[c].marketId \in Markets
                                     /\ markets[bets[c].marketId].status # "None"
      BY <1>4, BetNumbers DEF Tracking, BetsPlaced
    <3>3. bets[c].status = "Won" => markets[bets[c].marketId].status = "Settled"
      BY DEF Tracking, BetsPlaced
    <3> QED
      BY <1>5, <3>1, <3>2, <3>3
  <2> QED
    BY <2>1, <2>2
<1>8. /\ marketLocked'[m] = 0
      /\ \A j \in Keys : j # m => marketLocked'[j] = marketLocked[j]
  <2>1. PICK d : reportMarketResult(m, markets[m].totalBetAmount, paid, d)
    BY <1>1 DEF finalizeMarketAccounting
  <2> QED
    BY <1>4, <2>1, ReportClears
<1>9. TrackedIn(m)'
  <2>1. ~isUnresolved(m)'
    BY <1>5 DEF isUnresolved
  <2> QED
    BY <1>8, <2>1, MarketClosed
<1>10. ASSUME NEW n \in Markets, n # m PROVE TrackedIn(n)'
  <2>1. isUnresolved(n)' <=> isUnresolved(n)
    BY <1>5, <1>10 DEF isUnresolved
  <2>2. \A c \in BetIds : bets'[c] = bets[c] \/ ~(pendingIn(c, n) \/ pendingIn(c, n)')
    BY <1>6, <1>10 DEF pendingIn
  <2>3. TrackedIn(n) /\ n \in Keys
    BY MarketKeys DEF Tracking
  <2> QED
    BY <1>5, <1>8, <1>10, <2>1, <2>2, <2>3, MarketQuiet
<1>11. ParlaysUnlocked'
  BY <1>1, <1>8, KeysApart, ParlayKeys, ParlaysStayUnlocked DEF Tracking
<1> QED
  BY <1>5, <1>7, <1>9, <1>10, <1>11 DEF Tracking, ratio, span

(* A parlay touches its own bucket, and the markets it registers. *)
LEMMA ParlayPlacedTracked ==
    ASSUME CoreInv, CoreInv', Tracking, NEW p \in ParlayIds, NEW legs \in LegLists,
           NEW os \in OutcomeLists(Len(legs)), NEW stake \in Nat, NEW odds \in Nat,
           NEW t \in Nat,
           \/ placeParlayBet(p, legs, os, stake, odds)
           \/ placeParlayBetWithAttestations(p, legs, os, stake, odds, t)
    PROVE  /\ Tracking' /\ MarketsKept
           /\ UNCHANGED bets /\ coreUsdc' = coreUsdc + stake
           /\ parlays[p].status = "None"
           /\ parlays'[p].status = "Pending" /\ parlays'[p].stake = stake
           /\ \A q \in ParlayIds : q # p => parlays'[q] = parlays[q]
<1> DEFINE absent == {m \in Markets : /\ markets[m].status = "None"
                                      /\ \E i \in 1..Len(legs) : legs[i] = m}
           new == [m \in Markets |-> IF m \in absent THEN NewMarket(t) ELSE markets[m]]
           lock == probabilityWeightedLock(potentialPayoutOf(stake, odds) - stake, odds)
<1>1. PICK registered \in {markets, new} : executeParlayBet(p, registered, legs, os, stake, odds)
  BY DEF placeParlayBet, placeParlayBetWithAttestations
<1>2. markets \in [Markets -> MarketType] /\ PoolInv /\ parlays \in [ParlayIds -> ParlayType]
  BY DEF CoreInv, MarketsOK, ParlaysOK
<1>3. \A n \in Markets : \/ registered[n] = markets[n]
                         \/ /\ markets[n].status = "None"
                            /\ registered[n].status = "Open"
                            /\ registered[n].totalBetAmount = 0
  <2>1. NewMarket(t).status = "Open" /\ NewMarket(t).totalBetAmount = 0
    BY NewMarketIs
  <2> HIDE DEF NewMarket
  <2> QED
    BY <2>1
<1>4. /\ odds > ODDS_DENOM /\ parlays[p].status = "None"
      /\ LockIfPositive(ParlayKey(p), lock)
      /\ parlays' = [parlays EXCEPT ![p] =
                       [status |-> "Pending", marketIds |-> legs, outcomes |-> os,
                        stake |-> stake, potentialPayout |-> potentialPayoutOf(stake, odds),
                        paid |-> 0]]
      /\ markets' = registered
      /\ coreUsdc' = coreUsdc + stake
      /\ UNCHANGED bets
  BY <1>1 DEF executeParlayBet
<1>5. lock \in Nat
  <2> DEFINE payout == potentialPayoutOf(stake, odds)
  <2>1. payout \in Nat /\ stake <= payout
    BY <1>4, PayoutBounds
  <2> HIDE DEF payout
  <2>2. payout - stake \in Nat
    BY <2>1
  <2>3. probabilityWeightedLock(payout - stake, odds) \in Nat
    BY <1>4, <2>2, LockNat
  <2> QED
    BY <2>3 DEF payout
<1> HIDE DEF lock
<1>6. \A j \in Keys : j # ParlayKey(p) => marketLocked'[j] = marketLocked[j]
  BY <1>2, <1>4, <1>5, ParlayKeys, LockMoves
<1>7. /\ parlays'[p].status = "Pending" /\ parlays'[p].stake = stake
      /\ \A q \in ParlayIds : q # p => parlays'[q] = parlays[q]
  BY <1>2, <1>4
<1>8. MarketsKept
  BY <1>3, <1>4 DEF MarketsKept
<1>9. BetsPlaced'
  BY <1>4, <1>8, BetsStayPlaced DEF Tracking, CoreInv
<1>10. ASSUME NEW n \in Markets PROVE TrackedIn(n)'
  <2>1. TrackedIn(n) /\ BetsPlaced /\ marketLocked'[n] = marketLocked[n]
    BY <1>6, MarketKeys, KeysApart DEF Tracking
  <2>2. CASE markets'[n] = markets[n]
    BY <1>4, <2>1, <2>2, MarketQuiet DEF isUnresolved
  <2>3. CASE markets[n].status = "None" /\ markets'[n].totalBetAmount = 0
    BY <1>4, <2>1, <2>3, MarketOpens
  <2> QED
    BY <1>3, <1>4, <2>2, <2>3
<1>11. ParlaysUnlocked'
  BY <1>6, <1>7, KeysApart, ParlayKeys, ParlaysStayUnlocked DEF Tracking
<1> QED
  BY <1>4, <1>7, <1>8, <1>9, <1>10, <1>11 DEF Tracking

LEMMA ParlayClosedIs ==
    ASSUME ParlaysOK, NEW p \in ParlayIds, NEW s \in ParlayStatus, NEW amount,
           \/ parlays' = [parlays EXCEPT ![p].status = s, ![p].paid = parlays[p].paid + amount]
           \/ parlays' = [parlays EXCEPT ![p].status = s]
    PROVE  /\ parlays'[p].status = s
           /\ \A q \in ParlayIds : q # p => parlays'[q] = parlays[q]
<1> DEFINE half == [parlays[p] EXCEPT !.status = s]
           sum  == parlays[p].paid + amount
<1>1. parlays[p] \in ParlayType /\ parlays \in [ParlayIds -> ParlayType]
  BY DEF ParlaysOK
<1>2. half \in ParlayType /\ half.status = s
  BY ONLY <1>1, s \in ParlayStatus DEF ParlayType
<1>3. parlays'[p] = half \/ parlays'[p] = [half EXCEPT !.paid = sum]
  BY <1>1 DEF ParlayType
<1>4. \A q \in ParlayIds : q # p => parlays'[q] = parlays[q]
  BY <1>1
<1> HIDE DEF half, sum
<1>5. parlays'[p].status = s
  BY ONLY <1>2, <1>3 DEF ParlayType
<1> QED
  BY <1>4, <1>5

LEMMA ParlayClosedTracked ==
    ASSUME CoreInv, Tracking, NEW p \in ParlayIds,
           claimParlayWinnings(p) \/ claimParlayRefund(p) \/ reportParlayLoss(p)
    PROVE  /\ Tracking' /\ MarketsKept
           /\ UNCHANGED bets /\ coreUsdc' = coreUsdc - parlays[p].stake
           /\ parlays[p].status = "Pending" /\ parlays'[p].status # "Pending"
           /\ \A q \in ParlayIds : q # p => parlays'[q] = parlays[q]
<1>1. /\ UNCHANGED <<markets, bets>> /\ parlays[p].status = "Pending"
      /\ coreUsdc' = coreUsdc - parlays[p].stake
  BY DEF claimParlayWinnings, claimParlayRefund, reportParlayLoss
<1>2. PICK t, w, d : reportMarketResult(ParlayKey(p), t, w, d)
  BY DEF claimParlayWinnings, claimParlayRefund, reportParlayLoss
<1>3. ParlaysOK /\ PoolInv
  BY DEF CoreInv
<1>4. /\ marketLocked'[ParlayKey(p)] = 0
      /\ \A j \in Keys : j # ParlayKey(p) => marketLocked'[j] = marketLocked[j]
  BY <1>2, <1>3, ParlayKeys, ReportClears
<1>5. /\ parlays'[p].status # "Pending"
      /\ \A q \in ParlayIds : q # p => parlays'[q] = parlays[q]
  <2>1. CASE claimParlayWinnings(p)
    <3>1. parlays' = [parlays EXCEPT ![p].status = "Won",
                                     ![p].paid = parlays[p].paid + parlayPayout(p)]
      BY <2>1 DEF claimParlayWinnings
    <3> QED
      BY <1>3, <3>1, ParlayClosedIs DEF ParlayStatus
  <2>2. CASE claimParlayRefund(p)
    <3>1. parlays' = [parlays EXCEPT ![p].status = "Cancelled",
                                     ![p].paid = parlays[p].paid + parlays[p].stake]
      BY <2>2 DEF claimParlayRefund
    <3> QED
      BY <1>3, <3>1, ParlayClosedIs DEF ParlayStatus
  <2>3. CASE reportParlayLoss(p)
    <3>1. parlays' = [parlays EXCEPT ![p].status = "Lost"]
      BY <2>3 DEF reportParlayLoss
    <3> QED
      BY <1>3, <3>1, ParlayClosedIs DEF ParlayStatus
  <2> QED
    BY <2>1, <2>2, <2>3
<1>6. MarketsKept
  BY <1>1 DEF MarketsKept
<1>7. BetsPlaced'
  BY <1>1, <1>6, BetsStayPlaced DEF Tracking, CoreInv
<1>8. ASSUME NEW n \in Markets PROVE TrackedIn(n)'
  <2>1. TrackedIn(n) /\ marketLocked'[n] = marketLocked[n]
    BY <1>4, MarketKeys, KeysApart DEF Tracking
  <2> QED
    BY <1>1, <2>1, MarketQuiet DEF isUnresolved
<1>9. ParlaysUnlocked'
  BY <1>4, <1>5, KeysApart, ParlayKeys, ParlaysStayUnlocked DEF Tracking
<1> QED
  BY <1>1, <1>5, <1>6, <1>7, <1>8, <1>9 DEF Tracking

-----------------------------------------------------------------------------
(* What the contract owes *)

stakeHeld(b) ==
    bets[b].status = "Pending" /\ markets[bets[b].marketId].status # "Settled"

owedBets == [b \in BetIds |-> IF stakeHeld(b) THEN bets[b].amount
                              ELSE IF bets[b].status = "Won" THEN winningsOf(b) ELSE 0]
owedParlays == [p \in ParlayIds |-> owedOnParlay(p)]

LEMMA SolventNamed ==
    CoreSolvent <=> coreUsdc >= SumTo(owedBets, MaxBets) + SumTo(owedParlays, MaxParlays)
<1>1. \A b \in BetIds : owedOnBet(b) = IF stakeHeld(b) THEN bets[b].amount
                                       ELSE IF bets[b].status = "Won" THEN winningsOf(b) ELSE 0
  BY Zenon DEF owedOnBet, stakeHeld
<1>2. [b \in BetIds |-> owedOnBet(b)] = owedBets
  BY <1>1, Zenon DEF owedBets
<1>3. [p \in ParlayIds |-> owedOnParlay(p)] = owedParlays
  BY DEF owedParlays
<1> QED
  BY <1>2, <1>3, Zenon DEF CoreSolvent

OwedTyped ==
    /\ \A b \in BetIds : owedBets[b] \in Nat
    /\ \A p \in ParlayIds : owedParlays[p] \in Nat
    /\ SumTo(owedBets, MaxBets) \in Nat
    /\ SumTo(owedParlays, MaxParlays) \in Nat

LEMMA OwedNat == CoreInv => OwedTyped
<1> SUFFICES ASSUME CoreInv PROVE OwedTyped
  OBVIOUS
<1>1. /\ MaxBets \in Nat /\ BetIds = 1..MaxBets
      /\ MaxParlays \in Nat /\ ParlayIds = 1..MaxParlays
  BY CoreAssumption DEF BetIds, ParlayIds
<1>2. \A b \in BetIds : owedBets[b] \in Nat
  <2> TAKE b \in BetIds
  <2>1. bets[b].amount \in Nat
    BY DEF CoreInv, BetsOK, BetType
  <2>2. bets[b].status = "Won" => winningsOf(b) \in Nat
    BY WinningsNat
  <2> QED
    BY <2>1, <2>2 DEF owedBets
<1>3. \A p \in ParlayIds : owedParlays[p] \in Nat
  BY ParlayNumbers DEF owedParlays, owedOnParlay, CoreInv
<1> QED
  BY <1>1, <1>2, <1>3, SumNat DEF OwedTyped

LEMMA OwedNatNext == CoreInv' => OwedTyped'
BY OwedNat, PTL

(* What is owed on a bet changes with the bet or with the settlement of    *)
(* its market only.                                                        *)
LEMMA OwedKept ==
    ASSUME CoreInv, BetsPlaced, NEW b \in BetIds, bets'[b] = bets[b],
           bets[b].status # "None" =>
              \/ markets'[bets[b].marketId] = markets[bets[b].marketId]
              \/ /\ markets[bets[b].marketId].status # "Settled"
                 /\ markets'[bets[b].marketId].status # "Settled"
    PROVE  owedBets'[b] = owedBets[b]
<1>1. bets[b].status = "Won" => markets[bets[b].marketId].status = "Settled"
  BY DEF BetsPlaced
<1>2. CASE bets[b].status = "None"
  BY <1>2 DEF owedBets, stakeHeld
<1>3. CASE bets[b].status # "None" /\ markets'[bets[b].marketId] = markets[bets[b].marketId]
  BY <1>3 DEF owedBets, stakeHeld, winningsOf
<1>4. CASE /\ markets[bets[b].marketId].status # "Settled"
           /\ markets'[bets[b].marketId].status # "Settled"
  BY <1>1, <1>4 DEF owedBets, stakeHeld
<1> QED
  BY <1>2, <1>3, <1>4

LEMMA OwedKeptByOthers ==
    ASSUME CoreInv, BetsPlaced, MarketsKept, NEW b \in BetIds, bets'[b] = bets[b]
    PROVE  owedBets'[b] = owedBets[b]
<1>1. bets[b].status # "None" => bets[b].marketId \in Markets
  BY BetNumbers DEF CoreInv
<1> QED
  BY <1>1, OwedKept DEF MarketsKept

(* One bet changed at most. *)
LEMMA OwedMoves ==
    ASSUME CoreInv, CoreInv', BetsPlaced, MarketsKept, NEW b \in BetIds,
           \A c \in BetIds : c # b => bets'[c] = bets[c]
    PROVE  SumTo(owedBets', MaxBets) = SumTo(owedBets, MaxBets) + (owedBets'[b] - owedBets[b])
<1>1. MaxBets \in Nat /\ BetIds = 1..MaxBets
  BY CoreAssumption DEF BetIds
<1>2. \A c \in BetIds : owedBets[c] \in Int /\ owedBets'[c] \in Int
  BY OwedNat, OwedNatNext DEF OwedTyped
<1>3. \A c \in BetIds : c # b => owedBets[c] = owedBets'[c]
  BY OwedKeptByOthers
<1> QED
  BY <1>1, <1>2, <1>3, SumUpdate

LEMMA OwedStays ==
    ASSUME CoreInv, BetsPlaced, MarketsKept, UNCHANGED bets
    PROVE  SumTo(owedBets', MaxBets) = SumTo(owedBets, MaxBets)
<1>1. MaxBets \in Nat /\ BetIds = 1..MaxBets
  BY CoreAssumption DEF BetIds
<1>2. \A c \in BetIds : owedBets'[c] = owedBets[c]
  BY OwedKeptByOthers
<1> QED
  BY <1>1, <1>2, SumEqual

LEMMA ParlaysOwedStay ==
    ASSUME UNCHANGED parlays
    PROVE  SumTo(owedParlays', MaxParlays) = SumTo(owedParlays, MaxParlays)
BY DEF owedParlays, owedOnParlay

LEMMA ParlaysOwedMove ==
    ASSUME CoreInv, CoreInv', NEW p \in ParlayIds,
           \A q \in ParlayIds : q # p => parlays'[q] = parlays[q]
    PROVE  SumTo(owedParlays', MaxParlays) =
             SumTo(owedParlays, MaxParlays) + (owedParlays'[p] - owedParlays[p])
<1>1. MaxParlays \in Nat /\ ParlayIds = 1..MaxParlays
  BY CoreAssumption DEF ParlayIds
<1>2. \A q \in ParlayIds : owedParlays[q] \in Int /\ owedParlays'[q] \in Int
  BY OwedNat, OwedNatNext DEF OwedTyped
<1>3. \A q \in ParlayIds : q # p => owedParlays[q] = owedParlays'[q]
  BY DEF owedParlays, owedOnParlay
<1> QED
  BY <1>1, <1>2, <1>3, SumUpdate

-----------------------------------------------------------------------------
(* Solvency, transaction by transaction *)

BookInv == CoreInv /\ Tracking /\ CoreSolvent

Covers(usdc, onBets, onParlays) == usdc >= onBets + onParlays

Covered == Covers(coreUsdc, SumTo(owedBets, MaxBets), SumTo(owedParlays, MaxParlays))

LEMMA CoveredIsSolvent == CoreSolvent <=> Covered
BY SolventNamed DEF Covered, Covers

LEMMA CoversNamed == (CoreSolvent <=> Covered) /\ (CoreSolvent' <=> Covered')
BY CoveredIsSolvent, PTL

(* A step that leaves the bets, the parlays and the balance. *)
LEMMA QuietSolvent ==
    ASSUME BookInv, MarketsKept, UNCHANGED <<bets, parlays, coreUsdc>>
    PROVE  CoreSolvent'
<1>1. SumTo(owedBets', MaxBets) = SumTo(owedBets, MaxBets)
  BY OwedStays DEF BookInv, Tracking
<1>2. SumTo(owedParlays', MaxParlays) = SumTo(owedParlays, MaxParlays)
  BY ParlaysOwedStay
<1> QED
  BY <1>1, <1>2, CoversNamed DEF BookInv, Covered

(* A step about one bet moves the balance at least as much as what is owed. *)
LEMMA BetSolvent ==
    ASSUME BookInv, CoreInv', MarketsKept, UNCHANGED parlays, NEW b \in BetIds,
           \A c \in BetIds : c # b => bets'[c] = bets[c],
           coreUsdc' - coreUsdc >= owedBets'[b] - owedBets[b]
    PROVE  CoreSolvent'
<1>1. SumTo(owedBets', MaxBets) = SumTo(owedBets, MaxBets) + (owedBets'[b] - owedBets[b])
  BY OwedMoves DEF BookInv, Tracking
<1>2. SumTo(owedParlays', MaxParlays) = SumTo(owedParlays, MaxParlays)
  BY ParlaysOwedStay
<1>3. /\ SumTo(owedBets, MaxBets) \in Nat /\ SumTo(owedParlays, MaxParlays) \in Nat
      /\ owedBets[b] \in Nat /\ owedBets'[b] \in Nat
      /\ coreUsdc \in Nat /\ coreUsdc' \in Nat
  BY OwedNat, OwedNatNext DEF OwedTyped, BookInv, CoreInv, MoneyOK
<1>4. Covers(coreUsdc, SumTo(owedBets, MaxBets), SumTo(owedParlays, MaxParlays))
  BY CoversNamed DEF BookInv, Covered
<1>5. Covers(coreUsdc', SumTo(owedBets', MaxBets), SumTo(owedParlays', MaxParlays))
  BY <1>1, <1>2, <1>3, <1>4 DEF Covers
<1> QED
  BY <1>5, CoversNamed DEF Covered

LEMMA ParlaySolvent ==
    ASSUME BookInv, CoreInv', MarketsKept, UNCHANGED bets, NEW p \in ParlayIds,
           \A q \in ParlayIds : q # p => parlays'[q] = parlays[q],
           coreUsdc' - coreUsdc >= owedParlays'[p] - owedParlays[p]
    PROVE  CoreSolvent'
<1>1. SumTo(owedParlays', MaxParlays) =
        SumTo(owedParlays, MaxParlays) + (owedParlays'[p] - owedParlays[p])
  BY ParlaysOwedMove DEF BookInv
<1>2. SumTo(owedBets', MaxBets) = SumTo(owedBets, MaxBets)
  BY OwedStays DEF BookInv, Tracking
<1>3. /\ SumTo(owedBets, MaxBets) \in Nat /\ SumTo(owedParlays, MaxParlays) \in Nat
      /\ owedParlays[p] \in Nat /\ owedParlays'[p] \in Nat
      /\ coreUsdc \in Nat /\ coreUsdc' \in Nat
  BY OwedNat, OwedNatNext DEF OwedTyped, BookInv, CoreInv, MoneyOK
<1>4. Covers(coreUsdc, SumTo(owedBets, MaxBets), SumTo(owedParlays, MaxParlays))
  BY CoversNamed DEF BookInv, Covered
<1>5. Covers(coreUsdc', SumTo(owedBets', MaxBets), SumTo(owedParlays', MaxParlays))
  BY <1>1, <1>2, <1>3, <1>4 DEF Covers
<1> QED
  BY <1>5, CoversNamed DEF Covered

(* A stake is taken before it is owed. *)
LEMMA PlaceSolvent ==
    ASSUME BookInv, CoreInv', MarketsKept, NEW b \in BetIds, NEW m \in Markets,
           NEW outcome \in Nat, NEW amount \in Nat, NEW odds \in Nat, NEW t \in Nat,
           \/ placeBet(b, m, outcome, amount, odds)
           \/ placeBetWithAttestation(b, m, outcome, amount, odds, t)
    PROVE  CoreSolvent'
<1>1. PICK market : executeBet(b, m, market, outcome, amount, odds)
  BY DEF placeBet, placeBetWithAttestation
<1>2. bets \in [BetIds -> BetType]
  BY DEF BookInv, CoreInv, BetsOK
<1>3. /\ bets[b].status = "None" /\ coreUsdc' = coreUsdc + amount /\ UNCHANGED parlays
      /\ bets'[b].status = "Pending" /\ bets'[b].amount = amount
      /\ \A c \in BetIds : c # b => bets'[c] = bets[c]
  BY <1>1, <1>2 DEF executeBet
<1>4. owedBets[b] = 0 /\ owedBets'[b] <= amount
  BY <1>3 DEF owedBets, stakeHeld
<1>5. coreUsdc \in Nat /\ owedBets'[b] \in Nat
  BY OwedNatNext DEF OwedTyped, BookInv, CoreInv, MoneyOK
<1>6. coreUsdc' - coreUsdc >= owedBets'[b] - owedBets[b]
  BY <1>3, <1>4, <1>5
<1> QED
  BY <1>3, <1>6, BetSolvent

(* A bet that is paid is no longer owed. *)
LEMMA PaidSolvent ==
    ASSUME BookInv, CoreInv', MarketsKept, NEW b \in BetIds,
           voidBet(b) \/ claimWinnings(b) \/ claimRefund(b)
    PROVE  CoreSolvent'
<1>1. BetsOK /\ UNCHANGED parlays
  BY DEF BookInv, CoreInv, voidBet, claimWinnings, claimRefund
<1>2. /\ bets'[b].status \in {"Cancelled", "Cashed"}
      /\ \A c \in BetIds : c # b => bets'[c] = bets[c]
      /\ coreUsdc' = coreUsdc - owedBets[b]
  <2>1. CASE claimWinnings(b)
    <3>1. /\ bets' = [bets EXCEPT ![b].status = "Cashed", ![b].paid = bets[b].paid + winningsOf(b)]
          /\ bets[b].status = "Won" /\ coreUsdc' = coreUsdc - winningsOf(b)
      BY <2>1 DEF claimWinnings
    <3>2. owedBets[b] = winningsOf(b)
      BY <3>1 DEF owedBets, stakeHeld
    <3>3. bets'[b].status = "Cashed" /\ \A c \in BetIds : c # b => bets'[c] = bets[c]
      BY <1>1, <3>1, PaidBetIs DEF BetStatus
    <3> QED
      BY <3>1, <3>2, <3>3
  <2>2. CASE voidBet(b) \/ claimRefund(b)
    <3>1. /\ bets' = [bets EXCEPT ![b].status = "Cancelled", ![b].paid = bets[b].paid + bets[b].amount]
          /\ stakeHeld(b) /\ coreUsdc' = coreUsdc - bets[b].amount
      BY <2>2 DEF voidBet, claimRefund, stakeHeld, isUnresolved
    <3>2. owedBets[b] = bets[b].amount
      BY <3>1 DEF owedBets
    <3>3. bets'[b].status = "Cancelled" /\ \A c \in BetIds : c # b => bets'[c] = bets[c]
      BY <1>1, <3>1, PaidBetIs DEF BetStatus
    <3> QED
      BY <3>1, <3>2, <3>3
  <2> QED
    BY <2>1, <2>2
<1>3. owedBets'[b] = 0
  BY <1>2 DEF owedBets, stakeHeld
<1>4. coreUsdc \in Nat /\ owedBets[b] \in Nat
  BY OwedNat DEF OwedTyped, BookInv, CoreInv, MoneyOK
<1>5. coreUsdc' - coreUsdc >= owedBets'[b] - owedBets[b]
  BY <1>2, <1>3, <1>4
<1> QED
  BY <1>1, <1>2, <1>5, BetSolvent

(* Rounding the whole profit down loses less than rounding every share. *)
LEMMA SharesFit ==
    ASSUME NEW n \in Nat, NEW share, NEW profit, NEW ratio \in Nat,
           \A i \in 1..n : /\ profit[i] \in Nat /\ share[i] \in Nat
                           /\ share[i] <= scaledProfit(ratio, profit[i])
    PROVE  SumTo(share, n) <= scaledProfit(ratio, SumTo(profit, n))
<1>1. FULL_RATIO \in Nat \ {0} /\ FULL_RATIO = 1000
  BY DEF FULL_RATIO
<1>2. ASSUME NEW i \in 1..n PROVE share[i] * FULL_RATIO <= profit[i] * ratio
  <2> DEFINE part == scaledProfit(ratio, profit[i])
             all  == ratio * profit[i]
  <2>1. share[i] \in Nat /\ share[i] <= part /\ all \in Nat /\ profit[i] * ratio = all
    BY ProductNat
  <2>2. part \in Nat /\ part * FULL_RATIO <= all
    <3>1. part = all \div FULL_RATIO
      BY DEF scaledProfit
    <3> HIDE DEF part, all
    <3> QED
      BY <1>1, <2>1, <3>1, QuotientNat, QuotientBound
  <2> HIDE DEF part, all
  <2>3. share[i] * FULL_RATIO <= part * FULL_RATIO
    BY <1>1, <2>1, <2>2, ProductMonotone
  <2>4. share[i] * FULL_RATIO \in Nat /\ part * FULL_RATIO \in Nat
    BY <1>1, <2>1, <2>2, ProductNat
  <2> QED
    BY <2>1, <2>2, <2>3, <2>4
<1>3. \A i \in 1..n : /\ share[i] \in Nat /\ profit[i] \in Nat
                      /\ share[i] * FULL_RATIO <= profit[i] * ratio
  BY <1>2
<1>4. FULL_RATIO \in Nat
  BY <1>1
<1>5. SumTo(share, n) * FULL_RATIO <= SumTo(profit, n) * ratio
  BY <1>3, <1>4, SumShares
<1>6. SumTo(share, n) \in Nat /\ SumTo(profit, n) \in Nat
  BY <1>3, SumNat
<1> DEFINE whole == SumTo(profit, n) * ratio
           sum   == SumTo(share, n)
<1>7. ratio * SumTo(profit, n) = whole /\ whole \in Nat
  BY <1>6, ProductNat
<1>8. scaledProfit(ratio, SumTo(profit, n)) = whole \div FULL_RATIO
  BY <1>7 DEF scaledProfit
<1> HIDE DEF whole, sum
<1>9. sum \in Nat /\ sum * 1000 <= whole
  BY <1>1, <1>5, <1>6 DEF sum, whole
<1>10. sum <= whole \div 1000
  BY <1>7, <1>9
<1> QED
  BY <1>1, <1>8, <1>10 DEF sum

profitOf(b) == bets[b].potentialPayout - bets[b].amount

(* What the winners of a settlement will be owed at a fill ratio. *)
winningsAt(listed, ratio) ==
    [b \in BetIds |-> IF isWinner(listed, b)
                      THEN bets[b].amount + scaledProfit(ratio, profitOf(b)) ELSE 0]

LEMMA CountedOnce ==
    ASSUME NEW listed \in [BetIds -> 0..MaxListed], NEW b \in BetIds
    PROVE  /\ counted(listed, b) \in Nat
           /\ isWinner(listed, b) => counted(listed, b) >= 1
<1>1. MaxListed \in Nat
  BY CoreAssumption
<1>2. listed[b] \in Nat
  BY <1>1
<1>3. isWinner(listed, b) => listed[b] >= 1
  BY <1>2 DEF isWinner
<1> QED
  BY <1>2, <1>3 DEF counted

(* The payout the settlement computes covers its winners, even when the    *)
(* list repeats one.                                                       *)
LEMMA WinningsFit ==
    ASSUME CoreInv, NEW listed \in [BetIds -> 0..MaxListed], NEW ratio \in 0..FULL_RATIO
    PROVE  /\ \A b \in BetIds : winningsAt(listed, ratio)[b] \in Nat
           /\ SumTo(winningsAt(listed, ratio), MaxBets)
                <= sumStakes(listed) + scaledProfit(ratio, profitSpan(listed))
<1> DEFINE stakes  == [b \in BetIds |-> counted(listed, b) * bets[b].amount]
           profits == [b \in BetIds |->
                         counted(listed, b) * (bets[b].potentialPayout - bets[b].amount)]
           share   == [b \in BetIds |-> IF isWinner(listed, b)
                                        THEN scaledProfit(ratio, profitOf(b)) ELSE 0]
           both    == [b \in BetIds |-> stakes[b] + share[b]]
           win     == winningsAt(listed, ratio)
<1>1. MaxBets \in Nat /\ BetIds = 1..MaxBets
  BY CoreAssumption DEF BetIds
<1>2. ratio \in Nat /\ FULL_RATIO \in Nat \ {0}
  BY DEF FULL_RATIO
<1>3. ASSUME NEW b \in BetIds
      PROVE  /\ profits[b] \in Nat /\ share[b] \in Nat /\ stakes[b] \in Nat /\ win[b] \in Nat
             /\ share[b] <= scaledProfit(ratio, profits[b])
             /\ win[b] <= stakes[b] + share[b]
  <2> DEFINE times  == counted(listed, b)
             stake  == bets[b].amount
             profit == profitOf(b)
             part   == scaledProfit(ratio, profit)
  <2>1. times \in Nat /\ (isWinner(listed, b) => times >= 1)
    BY CountedOnce
  <2>2. stake \in Nat /\ profit \in Nat
    <3>1. bets[b] \in BetType /\ bets[b].amount <= bets[b].potentialPayout
      BY DEF CoreInv, BetsOK, BetTerms
    <3>2. bets[b].amount \in Nat /\ bets[b].potentialPayout \in Nat
      BY <3>1 DEF BetType
    <3> QED
      BY <3>1, <3>2 DEF profitOf
  <2>3. /\ stakes[b] = times * stake /\ profits[b] = times * profit
        /\ share[b] = IF isWinner(listed, b) THEN part ELSE 0
        /\ win[b] = IF isWinner(listed, b) THEN stake + part ELSE 0
    BY DEF profitOf, winningsAt
  <2> HIDE DEF times, stake, profit, stakes, profits, share, win
  <2>4. part \in Nat
    BY <2>2, ScaledBounds
  <2>5. stakes[b] \in Nat /\ profits[b] \in Nat
    BY <2>1, <2>2, <2>3, ProductNat
  <2>6. scaledProfit(ratio, profits[b]) \in Nat
    BY <2>5, ScaledBounds
  <2>7. CASE isWinner(listed, b)
    <3>1. 1 * stake <= times * stake /\ 1 * profit <= times * profit
      BY <2>1, <2>2, <2>7, ProductMonotone
    <3>2. stake <= stakes[b] /\ profit <= profits[b]
      BY <2>2, <2>3, <3>1
    <3>3. part <= scaledProfit(ratio, profits[b])
      <4>1. profit * ratio <= profits[b] * ratio
        BY <1>2, <2>2, <2>5, <3>2, ProductMonotone
      <4> DEFINE small == ratio * profit
                 large == ratio * profits[b]
      <4>2. small \in Nat /\ large \in Nat
        BY <1>2, <2>2, <2>5, ProductNat
      <4>3. small <= large
        BY <1>2, <2>2, <2>5, <4>1
      <4>4. part = small \div FULL_RATIO /\ scaledProfit(ratio, profits[b]) = large \div FULL_RATIO
        BY DEF scaledProfit
      <4> HIDE DEF small, large
      <4>5. small \div 1000 <= large \div 1000
        BY <4>2, <4>3
      <4> QED
        BY <4>4, <4>5 DEF FULL_RATIO
    <3> HIDE DEF part
    <3> QED
      BY <2>2, <2>3, <2>4, <2>5, <2>7, <3>2, <3>3
  <2>8. CASE ~isWinner(listed, b)
    <3> HIDE DEF part
    <3> QED
      BY <2>3, <2>5, <2>6, <2>8
  <2> QED
    BY <2>5, <2>7, <2>8
<1>4. both = [b \in BetIds |-> stakes[b] + share[b]]
  OBVIOUS
<1>5. sumStakes(listed) = SumTo(stakes, MaxBets) /\ profitSpan(listed) = SumTo(profits, MaxBets)
  BY DEF sumStakes, profitSpan
<1> HIDE DEF stakes, profits, share, both, win
<1>6. \A b \in 1..MaxBets : /\ stakes[b] \in Int /\ share[b] \in Int
                            /\ both[b] = stakes[b] + share[b]
                            /\ both[b] \in Int /\ win[b] \in Int /\ win[b] <= both[b]
  BY <1>1, <1>3, <1>4
<1>7. SumTo(win, MaxBets) <= SumTo(both, MaxBets)
  BY <1>1, <1>6, SumMonotone
<1>8. SumTo(both, MaxBets) = SumTo(stakes, MaxBets) + SumTo(share, MaxBets)
  BY <1>1, <1>6, SumOfSums
<1>9. SumTo(share, MaxBets) <= scaledProfit(ratio, SumTo(profits, MaxBets))
  <2>1. \A b \in 1..MaxBets : /\ profits[b] \in Nat /\ share[b] \in Nat
                              /\ share[b] <= scaledProfit(ratio, profits[b])
    BY <1>1, <1>3
  <2> QED
    BY <1>1, <1>2, <2>1, SharesFit
<1>10. /\ SumTo(win, MaxBets) \in Nat /\ SumTo(stakes, MaxBets) \in Nat
       /\ SumTo(share, MaxBets) \in Nat /\ SumTo(profits, MaxBets) \in Nat
  BY <1>1, <1>3, SumNat
<1>11. scaledProfit(ratio, SumTo(profits, MaxBets)) \in Nat
  BY <1>10, ScaledBounds
<1>12. SumTo(win, MaxBets) <= SumTo(stakes, MaxBets) + scaledProfit(ratio, SumTo(profits, MaxBets))
  <2> DEFINE w == SumTo(win, MaxBets)
             b == SumTo(both, MaxBets)
             s == SumTo(stakes, MaxBets)
             h == SumTo(share, MaxBets)
             x == scaledProfit(ratio, SumTo(profits, MaxBets))
  <2>1. w <= b /\ b = s + h /\ h <= x /\ w \in Nat /\ s \in Nat /\ h \in Nat /\ x \in Nat
    BY <1>7, <1>8, <1>9, <1>10, <1>11
  <2> HIDE DEF w, b, s, h, x
  <2>2. w <= s + x
    BY <2>1
  <2> QED
    BY <2>2 DEF w, s, x
<1> QED
  BY <1>3, <1>5, <1>12 DEF win

(* The settlement moves the balance and what is owed by payout minus       *)
(* totalBetAmount, up to rounding.                                         *)
LEMMA SettleSolvent ==
    ASSUME BookInv, CoreInv', NEW m \in Markets, NEW outcome \in Nat,
           NEW listed \in [BetIds -> 0..MaxListed], settleMarket(m, outcome, listed)
    PROVE  CoreSolvent'
<1> DEFINE span  == profitSpan(listed)
           ratio == marketFillRatio(m, span)
           paid  == sumStakes(listed) + scaledProfit(ratio, span)
           total == markets[m].totalBetAmount
           win   == winningsAt(listed, ratio)
           held  == stakesIn(m)
<1>1. CoreInv /\ Tracking /\ CoreSolvent
  BY DEF BookInv
<1>2. MaxBets \in Nat /\ BetIds = 1..MaxBets
  BY CoreAssumption DEF BetIds
<1>3. /\ isUnresolved(m) /\ validList(m, listed) /\ UNCHANGED parlays
      /\ bets' = [b \in BetIds |-> IF isWinner(listed, b)
                                   THEN [bets[b] EXCEPT !.status = "Won"] ELSE bets[b]]
      /\ coreUsdc' = coreUsdc + Monus(paid, total) - Monus(total, paid)
  BY DEF settleMarket, finalizeMarketAccounting
<1>4. /\ markets'[m].status = "Settled" /\ markets'[m].fillRatioX1000 = ratio
      /\ \A n \in Markets : n # m => markets'[n] = markets[n]
  BY <1>1, SettleTracked
<1>5. span \in Nat /\ sumStakes(listed) \in Nat
  BY <1>1, SettlementSums
<1>6. ratio \in 0..FULL_RATIO
  <2> HIDE DEF span
  <2> QED
    BY <1>1, <1>5, FillRatioBounds
<1>7. paid \in Nat
  <2> HIDE DEF span, ratio
  <2>1. scaledProfit(ratio, span) \in Nat
    BY <1>5, <1>6, ScaledBounds
  <2> QED
    BY <1>5, <2>1
<1>8. total \in Nat /\ total = SumTo(held, MaxBets)
  <2>1. markets[m] \in MarketType
    BY <1>1 DEF CoreInv, MarketsOK
  <2> QED
    BY <1>1, <1>3, <2>1 DEF MarketType, Tracking, TrackedIn
<1>9. /\ \A b \in BetIds : win[b] \in Nat
      /\ SumTo(win, MaxBets) <= paid
  <2> HIDE DEF ratio
  <2> QED
    BY <1>1, <1>6, WinningsFit
<1>10. ASSUME NEW b \in BetIds
       PROVE  /\ held[b] \in Nat
              /\ owedBets'[b] + held[b] = owedBets[b] + win[b]
  <2>1. bets[b] \in BetType
    BY <1>1 DEF CoreInv, BetsOK
  <2>2. bets[b].amount \in Nat /\ owedBets[b] \in Nat /\ owedBets'[b] \in Nat
    BY <1>1, <2>1, OwedNat, OwedNatNext DEF BetType, OwedTyped
  <2>3. markets[m].status # "Settled"
    BY <1>3 DEF isUnresolved
  <2> HIDE DEF ratio, span, paid, total
  <2>4. CASE isWinner(listed, b)
    <3>1. bets[b].status = "Pending" /\ bets[b].marketId = m
      BY <1>3, <2>4 DEF isWinner, validList
    <3>2. bets'[b] = [bets[b] EXCEPT !.status = "Won"]
      BY <1>3, <2>4
    <3>3. /\ bets'[b].status = "Won" /\ bets'[b].marketId = m
          /\ bets'[b].amount = bets[b].amount
          /\ bets'[b].potentialPayout = bets[b].potentialPayout
      BY <2>1, <3>1, <3>2 DEF BetType
    <3>4. owedBets[b] = bets[b].amount /\ held[b] = bets[b].amount
      BY <2>3, <3>1 DEF owedBets, stakeHeld, stakesIn, pendingIn
    <3>5. owedBets'[b] = win[b]
      BY <1>4, <2>4, <3>3 DEF owedBets, stakeHeld, winningsOf, winningsAt, profitOf
    <3>6. win[b] \in Nat
      BY <1>9
    <3> HIDE DEF held, win
    <3> QED
      BY <2>2, <3>4, <3>5, <3>6
  <2>5. CASE ~isWinner(listed, b) /\ pendingIn(b, m)
    <3>1. bets'[b] = bets[b] /\ bets[b].status = "Pending" /\ bets[b].marketId = m
      BY <1>3, <2>5 DEF pendingIn
    <3>2. owedBets[b] = bets[b].amount /\ held[b] = bets[b].amount
      BY <2>3, <3>1 DEF owedBets, stakeHeld, stakesIn, pendingIn
    <3>3. owedBets'[b] = 0 /\ win[b] = 0
      BY <1>4, <2>5, <3>1 DEF owedBets, stakeHeld, winningsAt
    <3> QED
      BY <2>2, <3>2, <3>3
  <2>6. CASE ~isWinner(listed, b) /\ ~pendingIn(b, m)
    <3>1. bets'[b] = bets[b]
      BY <1>3, <2>6
    <3>2. owedBets'[b] = owedBets[b]
      <4>1. CASE bets[b].status = "None"
        BY <1>1, <3>1, <4>1, OwedKept DEF Tracking
      <4>2. CASE bets[b].status # "None" /\ bets[b].marketId # m
        <5>1. bets[b].marketId \in Markets
          BY <1>1, <4>2, BetNumbers DEF CoreInv
        <5> QED
          BY <1>1, <1>4, <3>1, <4>2, <5>1, OwedKept DEF Tracking
      <4>3. CASE bets[b].status # "None" /\ bets[b].marketId = m
        <5>1. bets[b].status # "Pending" /\ bets[b].status # "Won"
          BY <1>1, <2>3, <2>6, <4>3 DEF pendingIn, Tracking, BetsPlaced
        <5> QED
          BY <3>1, <5>1 DEF owedBets, stakeHeld
      <4> QED
        BY <4>1, <4>2, <4>3
    <3>3. held[b] = 0 /\ win[b] = 0
      BY <2>6 DEF stakesIn, winningsAt
    <3> QED
      BY <2>2, <3>2, <3>3
  <2> QED
    BY <2>4, <2>5, <2>6
<1>11. \A b \in BetIds : owedBets[b] \in Nat /\ owedBets'[b] \in Nat
  BY <1>1, OwedNat, OwedNatNext DEF OwedTyped
<1> HIDE DEF held, win, paid, total, ratio, span
<1>12. SumTo(owedBets', MaxBets) + total = SumTo(owedBets, MaxBets) + SumTo(win, MaxBets)
  <2> DEFINE after  == [b \in BetIds |-> owedBets'[b] + held[b]]
             before == [b \in BetIds |-> owedBets[b] + win[b]]
  <2>1. \A b \in BetIds : /\ after[b] = owedBets'[b] + held[b]
                          /\ before[b] = owedBets[b] + win[b]
                          /\ after[b] = before[b]
    BY <1>10
  <2> HIDE DEF after, before
  <2>2. SumTo(after, MaxBets) = SumTo(owedBets', MaxBets) + SumTo(held, MaxBets)
    <3> DEFINE f == owedBets'
    <3>1. \A b \in 1..MaxBets : f[b] \in Int /\ held[b] \in Int /\ after[b] = f[b] + held[b]
      BY <1>2, <1>10, <1>11, <2>1
    <3> HIDE DEF f
    <3>2. SumTo(after, MaxBets) = SumTo(f, MaxBets) + SumTo(held, MaxBets)
      BY <1>2, <3>1, SumOfSums
    <3> QED
      BY <3>2 DEF f
  <2>3. SumTo(before, MaxBets) = SumTo(owedBets, MaxBets) + SumTo(win, MaxBets)
    <3>1. \A b \in 1..MaxBets : owedBets[b] \in Int /\ win[b] \in Int /\ before[b] = owedBets[b] + win[b]
      BY <1>2, <1>9, <1>11, <2>1
    <3> QED
      BY <1>2, <3>1, SumOfSums
  <2>4. SumTo(after, MaxBets) = SumTo(before, MaxBets)
    BY <1>2, <2>1, SumEqual
  <2> QED
    BY <1>8, <2>2, <2>3, <2>4
<1>13. coreUsdc' = coreUsdc + paid - total
  <2>1. coreUsdc \in Nat
    BY <1>1 DEF CoreInv, MoneyOK
  <2> QED
    BY <1>3, <1>7, <1>8, <2>1 DEF Monus
<1>14. SumTo(owedParlays', MaxParlays) = SumTo(owedParlays, MaxParlays)
  BY <1>3, ParlaysOwedStay
<1>15. /\ SumTo(owedBets, MaxBets) \in Nat /\ SumTo(owedParlays, MaxParlays) \in Nat
       /\ SumTo(owedBets', MaxBets) \in Nat /\ coreUsdc \in Nat
       /\ SumTo(win, MaxBets) \in Nat
  <2>1. SumTo(win, MaxBets) \in Nat
    BY <1>2, <1>9, SumNat
  <2> QED
    BY <1>1, <2>1, OwedNat, OwedNatNext DEF OwedTyped, CoreInv, MoneyOK
<1>16. Covers(coreUsdc, SumTo(owedBets, MaxBets), SumTo(owedParlays, MaxParlays))
  BY <1>1, CoversNamed DEF Covered
<1>17. Covers(coreUsdc', SumTo(owedBets', MaxBets), SumTo(owedParlays', MaxParlays))
  BY <1>7, <1>8, <1>9, <1>12, <1>13, <1>14, <1>15, <1>16 DEF Covers
<1> QED
  BY <1>17, CoversNamed DEF Covered

-----------------------------------------------------------------------------
(* The induction *)

LEMMA BookStart == Init => BookInv
<1> SUFFICES ASSUME Init PROVE BookInv
  OBVIOUS
<1>1. CoreInv
  BY CoreStart
<1>2. /\ MaxBets \in Nat /\ BetIds = 1..MaxBets
      /\ MaxParlays \in Nat /\ ParlayIds = 1..MaxParlays
  BY CoreAssumption DEF BetIds, ParlayIds
<1>3. /\ \A b \in BetIds : bets[b].status = "None"
      /\ \A p \in ParlayIds : parlays[p].status = "None"
      /\ \A m \in Markets : markets[m].status = "None"
      /\ \A k \in Keys : marketLocked[k] = 0
      /\ coreUsdc = 0
  BY DEF Init, PoolInit, NoBet, NoParlay, NoMarket
<1>4. BetsPlaced
  BY <1>3 DEF BetsPlaced
<1>5. \A m \in Markets : TrackedIn(m)
  BY <1>3, MarketKeys DEF TrackedIn, isUnresolved
<1>6. ParlaysUnlocked
  BY <1>3, ParlayKeys DEF ParlaysUnlocked
<1>7. \A b \in 1..MaxBets : owedBets[b] = 0
  BY <1>2, <1>3 DEF owedBets, stakeHeld
<1>8. \A p \in 1..MaxParlays : owedParlays[p] = 0
  BY <1>2, <1>3 DEF owedParlays, owedOnParlay
<1>9. SumTo(owedBets, MaxBets) = 0 /\ SumTo(owedParlays, MaxParlays) = 0
  BY <1>2, <1>7, <1>8, SumZeros
<1>10. CoreSolvent
  BY <1>3, <1>9, SolventNamed
<1> QED
  BY <1>1, <1>4, <1>5, <1>6, <1>10 DEF BookInv, Tracking

(* Nothing BettingCore or its buckets hold changes. *)
LEMMA OutsideBooks ==
    ASSUME BookInv, UNCHANGED <<coreUsdc, markets, bets, parlays, marketLocked>>
    PROVE  Tracking' /\ CoreSolvent'
<1>1. MarketsKept
  BY DEF MarketsKept
<1>2. Tracking'
  BY StatusTracked DEF BookInv
<1> QED
  BY <1>1, <1>2, QuietSolvent

LEMMA BookStep ==
    ASSUME BookInv, Next
    PROVE  BookInv'
<1> USE CoreAssumption
<1>0. CoreInv /\ Tracking /\ CoreInv'
  BY CoreStep DEF BookInv
<1> SUFFICES Tracking' /\ CoreSolvent'
  BY <1>0 DEF BookInv
<1>1. CASE PoolOnlyNext /\ UNCHANGED coreVars
  <2>1. UNCHANGED lockVars
    BY <1>1 DEF PoolOnlyNext, deposit, requestWithdrawal, executeWithdrawal,
                addVirtualLiquidity, removeVirtualLiquidity, Donate, Tick
  <2>2. UNCHANGED <<coreUsdc, markets, bets, parlays, marketLocked>>
    BY <1>1, <2>1 DEF coreVars, lockVars
  <2> QED
    BY <2>2, OutsideBooks
<1>2. CASE \/ \E m \in Markets, t \in ClosingTimes : createMarket(m, t)
           \/ \E m \in Markets : suspendMarket(m) \/ resumeMarket(m)
  <2>1. PICK m \in Markets, t \in Nat : createMarket(m, t) \/ suspendMarket(m) \/ resumeMarket(m)
    BY <1>2
  <2>2. Tracking' /\ MarketsKept
    BY <1>0, <2>1, LifecycleTracked
  <2>3. UNCHANGED <<bets, parlays, coreUsdc>>
    BY <2>1 DEF createMarket, suspendMarket, resumeMarket
  <2> QED
    BY <2>2, <2>3, QuietSolvent
<1>3. CASE \E b \in BetIds, m \in Markets, o \in Outcomes, a \in Stakes, x \in Odds :
              placeBet(b, m, o, a, x)
  <2>1. PICK b \in BetIds, m \in Markets, o \in Outcomes, a \in Stakes, x \in Odds :
            placeBet(b, m, o, a, x)
    BY <1>3
  <2>2. o \in Nat /\ a \in Nat /\ x \in Nat /\ 0 \in Nat
    OBVIOUS
  <2>3. Tracking' /\ MarketsKept
    BY <1>0, <2>1, <2>2, PlaceTracked
  <2> QED
    BY <1>0, <2>1, <2>2, <2>3, PlaceSolvent
<1>4. CASE \E b \in BetIds, m \in Markets, o \in Outcomes, a \in Stakes, x \in Odds,
             t \in ClosingTimes : placeBetWithAttestation(b, m, o, a, x, t)
  <2>1. PICK b \in BetIds, m \in Markets, o \in Outcomes, a \in Stakes, x \in Odds,
             t \in ClosingTimes : placeBetWithAttestation(b, m, o, a, x, t)
    BY <1>4
  <2>2. o \in Nat /\ a \in Nat /\ x \in Nat /\ t \in Nat
    OBVIOUS
  <2>3. Tracking' /\ MarketsKept
    BY <1>0, <2>1, <2>2, PlaceTracked
  <2> QED
    BY <1>0, <2>1, <2>2, <2>3, PlaceSolvent
<1>5. CASE \E m \in Markets, o \in Outcomes, listed \in [BetIds -> 0..MaxListed] :
              settleMarket(m, o, listed)
  <2>1. PICK m \in Markets, o \in Outcomes, listed \in [BetIds -> 0..MaxListed] :
            settleMarket(m, o, listed)
    BY <1>5
  <2>2. o \in Nat
    OBVIOUS
  <2>3. Tracking'
    BY <1>0, <2>1, <2>2, SettleTracked
  <2> QED
    BY <1>0, <2>1, <2>2, <2>3, SettleSolvent
<1>6. CASE \E b \in BetIds : voidBet(b)
  <2>1. PICK b \in BetIds : voidBet(b)
    BY <1>6
  <2>2. PICK m \in Markets : bets[b].marketId = m
    BY <1>0, <2>1, BetNumbers DEF voidBet, CoreInv
  <2>3. Tracking' /\ MarketsKept
    BY <1>0, <2>1, <2>2, VoidTracked
  <2> QED
    BY <1>0, <2>1, <2>3, PaidSolvent
<1>7. CASE \E m \in Markets : cancelMarket(m)
  <2>1. PICK m \in Markets : cancelMarket(m)
    BY <1>7
  <2>2. Tracking' /\ MarketsKept
    BY <1>0, <2>1, CancelTracked
  <2>3. UNCHANGED <<bets, parlays, coreUsdc>>
    BY <2>1 DEF cancelMarket
  <2> QED
    BY <2>2, <2>3, QuietSolvent
<1>8. CASE \E b \in BetIds : claimWinnings(b) \/ claimRefund(b)
  <2>1. PICK b \in BetIds : claimWinnings(b) \/ claimRefund(b)
    BY <1>8
  <2>2. Tracking' /\ MarketsKept
    BY <1>0, <2>1, ClaimTracked
  <2> QED
    BY <1>0, <2>1, <2>2, PaidSolvent
<1>9. CASE \E p \in ParlayIds, legs \in LegLists, a \in Stakes, x \in ParlayOdds :
              \E os \in OutcomeLists(Len(legs)) :
                  \E t \in Nat : \/ placeParlayBet(p, legs, os, a, x)
                                 \/ placeParlayBetWithAttestations(p, legs, os, a, x, t)
  <2>1. PICK p \in ParlayIds, legs \in LegLists, a \in Stakes, x \in ParlayOdds :
            \E os \in OutcomeLists(Len(legs)) :
                \E t \in Nat : \/ placeParlayBet(p, legs, os, a, x)
                               \/ placeParlayBetWithAttestations(p, legs, os, a, x, t)
    BY <1>9
  <2>2. PICK os \in OutcomeLists(Len(legs)), t \in Nat :
            \/ placeParlayBet(p, legs, os, a, x)
            \/ placeParlayBetWithAttestations(p, legs, os, a, x, t)
    BY <2>1
  <2>3. a \in Nat /\ x \in Nat
    OBVIOUS
  <2>4. /\ Tracking' /\ MarketsKept
        /\ UNCHANGED bets /\ coreUsdc' = coreUsdc + a
        /\ parlays[p].status = "None"
        /\ parlays'[p].status = "Pending" /\ parlays'[p].stake = a
        /\ \A q \in ParlayIds : q # p => parlays'[q] = parlays[q]
    BY <1>0, <2>2, <2>3, ParlayPlacedTracked
  <2>5. owedParlays[p] = 0 /\ owedParlays'[p] = a
    BY <2>4 DEF owedParlays, owedOnParlay
  <2>6. coreUsdc \in Nat
    BY <1>0 DEF CoreInv, MoneyOK
  <2>7. coreUsdc' - coreUsdc >= owedParlays'[p] - owedParlays[p]
    BY <2>3, <2>4, <2>5, <2>6
  <2> QED
    BY <1>0, <2>4, <2>7, ParlaySolvent
<1>10. CASE \E p \in ParlayIds : claimParlayWinnings(p) \/ claimParlayRefund(p)
                                 \/ reportParlayLoss(p)
  <2>1. PICK p \in ParlayIds : claimParlayWinnings(p) \/ claimParlayRefund(p)
                               \/ reportParlayLoss(p)
    BY <1>10
  <2>2. /\ Tracking' /\ MarketsKept
        /\ UNCHANGED bets /\ coreUsdc' = coreUsdc - parlays[p].stake
        /\ parlays[p].status = "Pending" /\ parlays'[p].status # "Pending"
        /\ \A q \in ParlayIds : q # p => parlays'[q] = parlays[q]
    BY <1>0, <2>1, ParlayClosedTracked
  <2>3. owedParlays[p] = parlays[p].stake /\ owedParlays'[p] = 0
    BY <2>2 DEF owedParlays, owedOnParlay
  <2>4. coreUsdc \in Nat /\ parlays[p].stake \in Nat
    BY <1>0, ParlayNumbers DEF CoreInv, MoneyOK
  <2>5. coreUsdc' - coreUsdc >= owedParlays'[p] - owedParlays[p]
    BY <2>2, <2>3, <2>4
  <2> QED
    BY <1>0, <2>2, <2>5, ParlaySolvent
<1>11. CASE \/ \E v \in PauseChoices : setPaused(v)
            \/ \E e \in EdgeChoices : setHouseEdge(e)
            \/ \E x \in MultiplierChoices : setProbabilitySafetyMultiplier(x)
            \/ \E l \in LimitChoices : setBetLimits(l[1], l[2])
  <2>1. UNCHANGED <<coreUsdc, markets, bets, parlays, marketLocked>>
    BY <1>11 DEF setPaused, setHouseEdge, setProbabilitySafetyMultiplier, setBetLimits,
                 poolVars, lockVars
  <2> QED
    BY <2>1, OutsideBooks
<1>12. CASE \E p \in ParlayIds, legs \in LegLists, a \in Stakes, x \in ParlayOdds :
               \E os \in OutcomeLists(Len(legs)) : placeParlayBet(p, legs, os, a, x)
  <2>1. 0 \in Nat
    OBVIOUS
  <2> QED
    BY <1>9, <1>12, <2>1
<1>13. CASE \E p \in ParlayIds, legs \in LegLists, a \in Stakes, x \in ParlayOdds,
              t \in ClosingTimes : \E os \in OutcomeLists(Len(legs)) :
                  placeParlayBetWithAttestations(p, legs, os, a, x, t)
  <2>1. ClosingTimes \subseteq Nat
    OBVIOUS
  <2> QED
    BY <1>9, <1>13, <2>1
<1> QED
  BY <1>1, <1>2, <1>3, <1>4, <1>5, <1>6, <1>7, <1>8, <1>10, <1>11, <1>12, <1>13 DEF Next

LEMMA BookStutter ==
    ASSUME BookInv, UNCHANGED vars
    PROVE  BookInv'
<1>1. UNCHANGED <<coreUsdc, markets, bets, parlays, marketLocked>>
  BY DEF vars, coreVars, poolVars, lockVars
<1>2. CoreInv'
  BY CoreStutter DEF BookInv
<1> QED
  BY <1>1, <1>2, OutsideBooks DEF BookInv

(* The contract's books balance in every reachable state. *)
THEOREM BooksInvariant == Spec => []BookInv
<1>1. Init => BookInv
  BY BookStart
<1>2. BookInv /\ [Next]_vars => BookInv'
  BY BookStep, BookStutter
<1> QED
  BY <1>1, <1>2, PTL DEF Spec

(* BettingCore can pay every refund, every winner and every open parlay's  *)
(* stake at once, whatever the fill ratios, the operators' lists, voids    *)
(* and cancellations have been, for all amounts and any number of bets.    *)
THEOREM CoreAlwaysSolvent == Spec => []CoreSolvent
<1>1. BookInv => CoreSolvent
  BY DEF BookInv
<1> QED
  BY <1>1, BooksInvariant, PTL

(* A market's totalBetAmount is the stakes of its pending bets. *)
THEOREM CoreStakesTracked == Spec => []StakesTracked
<1>1. BookInv => StakesTracked
  BY TrackingNamed DEF BookInv
<1> QED
  BY <1>1, BooksInvariant, PTL

(* A pool bucket holds the locks of its market's pending bets, and nothing *)
(* once its market or parlay is resolved.                                  *)
THEOREM CoreLocksTracked == Spec => []LocksTracked
<1>1. BookInv => LocksTracked
  BY TrackingNamed DEF BookInv
<1> QED
  BY <1>1, BooksInvariant, PTL

-----------------------------------------------------------------------------
(* BettingCore implements MarketLedger *)

chainMarketsNow == [m \in Markets |-> ledgerMarket(m)]
chainBetsNow    == [b \in BetIds |-> ledgerBet(b)]

(* A market the contract has not seen has no outcome. *)
OutcomesUnset ==
    \A m \in Markets : markets[m].status = "None" => markets[m].winningOutcome = 0

LedgerInv == CoreInv /\ Tracking /\ OutcomesUnset

LedgerStep == [Ledger!LedgerNext]_<<chainMarketsNow, chainBetsNow>>

LEMMA LedgerStays ==
    ASSUME \A m \in Markets : ledgerMarket(m)' = ledgerMarket(m),
           \A b \in BetIds : ledgerBet(b)' = ledgerBet(b)
    PROVE  LedgerStep
BY DEF LedgerStep, chainMarketsNow, chainBetsNow

LEMMA BetsRecorded ==
    ASSUME UNCHANGED bets
    PROVE  chainBetsNow' = chainBetsNow
BY DEF chainBetsNow, ledgerBet

(* Markets are registered, suspended and resumed. *)
LEMMA RegisterLedger ==
    ASSUME UNCHANGED bets,
           \A n \in Markets :
               \/ markets'[n] = markets[n]
               \/ /\ markets[n].status = "None" /\ markets'[n].status = "Open"
                  /\ markets'[n].winningOutcome = markets[n].winningOutcome
               \/ /\ isUnresolved(n) /\ isUnresolved(n)'
                  /\ markets'[n].winningOutcome = markets[n].winningOutcome
    PROVE  LedgerStep
<1> DEFINE S == {n \in Markets : markets[n].status = "None" /\ markets'[n].status = "Open"}
<1>1. \A n \in Markets : n \notin S => ledgerMarket(n)' = ledgerMarket(n)
  BY DEF ledgerMarket, isUnresolved
<1>2. \A n \in S : ledgerMarket(n)' = [ledgerMarket(n) EXCEPT !.status = "Open"]
  BY DEF ledgerMarket, isUnresolved
<1>3. \A n \in S : ledgerMarket(n).status = "None"
  BY DEF ledgerMarket
<1>4. S \in SUBSET Markets
  OBVIOUS
<1> HIDE DEF S
<1>5. Ledger!register(S)
  <2>1. chainMarketsNow' = [m \in Markets |-> IF m \in S
                                              THEN [chainMarketsNow[m] EXCEPT !.status = "Open"]
                                              ELSE chainMarketsNow[m]]
    BY <1>1, <1>2, <1>4 DEF chainMarketsNow
  <2>2. \A m \in S : chainMarketsNow[m].status = "None"
    BY <1>3, <1>4 DEF chainMarketsNow
  <2> QED
    BY <2>1, <2>2, BetsRecorded DEF Ledger!register, chainMarketsNow, chainBetsNow
<1> QED
  BY <1>4, <1>5 DEF LedgerStep, Ledger!LedgerNext

LEMMA NewMarketOutcome ==
    ASSUME NEW t \in Nat
    PROVE  NewMarket(t).status = "Open" /\ NewMarket(t).winningOutcome = 0
<1> DEFINE open == [NoMarket EXCEPT !.status = "Open"]
<1>1. NoMarket \in MarketType /\ NoMarket.winningOutcome = 0
  BY DEF NoMarket, MarketType, FULL_RATIO
<1>2. open \in MarketType /\ open.winningOutcome = 0
  BY ONLY <1>1 DEF MarketType
<1>3. NewMarket(t) = [open EXCEPT !.closesAt = t]
  BY <1>1 DEF NewMarket, MarketType
<1> HIDE DEF open
<1>4. [open EXCEPT !.closesAt = t].winningOutcome = 0
  BY <1>2 DEF MarketType
<1> QED
  BY <1>3, <1>4, NewMarketIs

LEMMA LifecycleLedger ==
    ASSUME LedgerInv, NEW m \in Markets, NEW t \in Nat,
           createMarket(m, t) \/ suspendMarket(m) \/ resumeMarket(m)
    PROVE  LedgerStep
<1>1. markets \in [Markets -> MarketType]
  BY DEF LedgerInv, CoreInv, MarketsOK
<1>2. UNCHANGED bets
  BY DEF createMarket, suspendMarket, resumeMarket
<1>3. \A n \in Markets : n # m => markets'[n] = markets[n]
  BY <1>1 DEF createMarket, suspendMarket, resumeMarket
<1>4. CASE createMarket(m, t)
  <2>1. markets[m].status = "None" /\ markets'[m] = NewMarket(t)
    BY <1>1, <1>4 DEF createMarket
  <2>2. markets'[m].status = "Open" /\ markets'[m].winningOutcome = markets[m].winningOutcome
    BY <2>1, NewMarketOutcome DEF LedgerInv, OutcomesUnset
  <2> QED
    BY <1>2, <1>3, <2>1, <2>2, RegisterLedger
<1>5. CASE suspendMarket(m) \/ resumeMarket(m)
  <2>1. /\ isUnresolved(m) /\ markets'[m].status \in {"Open", "Suspended"}
        /\ markets'[m].winningOutcome = markets[m].winningOutcome
    BY <1>1, <1>5 DEF suspendMarket, resumeMarket, isUnresolved, isOpen, MarketType
  <2>2. isUnresolved(m)'
    BY <2>1 DEF isUnresolved
  <2> QED
    BY <1>2, <1>3, <2>1, <2>2, RegisterLedger
<1> QED
  BY <1>4, <1>5

LEMMA PlaceLedger ==
    ASSUME LedgerInv, NEW b \in BetIds, NEW m \in Markets, NEW outcome \in Nat,
           NEW amount \in Nat, NEW odds \in Nat, NEW t \in Nat,
           \/ placeBet(b, m, outcome, amount, odds)
           \/ placeBetWithAttestation(b, m, outcome, amount, odds, t)
    PROVE  LedgerStep
<1>1. markets[m] \in MarketType /\ NewMarket(t) \in MarketType
  BY NewMarketTyped DEF LedgerInv, CoreInv, MarketsOK
<1>2. /\ NewMarket(t).winningOutcome = 0
      /\ markets[m].status = "None" => markets[m].winningOutcome = 0
  BY NewMarketOutcome DEF LedgerInv, OutcomesUnset
<1>3. PICK market \in {markets[m], NewMarket(t)} :
          /\ executeBet(b, m, market, outcome, amount, odds)
          /\ market.winningOutcome = markets[m].winningOutcome
          /\ market # markets[m] => markets[m].status = "None"
  BY <1>2 DEF placeBet, placeBetWithAttestation
<1>4. markets \in [Markets -> MarketType] /\ bets \in [BetIds -> BetType] /\ market \in MarketType
  BY <1>1, <1>3 DEF LedgerInv, CoreInv, MarketsOK, BetsOK
<1>5. /\ market.status = "Open" /\ bets[b].status = "None"
      /\ bets'[b].status = "Pending" /\ bets'[b].marketId = m
      /\ \A c \in BetIds : c # b => bets'[c] = bets[c]
  BY <1>3, <1>4 DEF executeBet
<1>6. /\ markets'[m].status = "Open" /\ markets'[m].winningOutcome = markets[m].winningOutcome
      /\ \A n \in Markets : n # m => markets'[n] = markets[n]
  <2> DEFINE total == market.totalBetAmount + amount
  <2>1. markets' = [markets EXCEPT ![m] = [market EXCEPT !.totalBetAmount = total]]
    BY <1>3 DEF executeBet
  <2> HIDE DEF total
  <2>2. markets'[m] = [market EXCEPT !.totalBetAmount = total]
    BY <1>4, <2>1
  <2>3. markets'[m].status = market.status /\ markets'[m].winningOutcome = market.winningOutcome
    BY <1>4, <2>2 DEF MarketType
  <2> QED
    BY <1>3, <1>4, <1>5, <2>1, <2>3
<1>7. /\ ledgerMarket(m).status \in {"None", "Open"}
      /\ ledgerMarket(m)' = [ledgerMarket(m) EXCEPT !.status = "Open"]
      /\ \A n \in Markets : n # m => ledgerMarket(n)' = ledgerMarket(n)
  BY <1>3, <1>5, <1>6 DEF ledgerMarket
<1>8. /\ ledgerBet(b).status = "None"
      /\ ledgerBet(b)' = [status |-> "Pending", market |-> m]
      /\ \A c \in BetIds : c # b => ledgerBet(c)' = ledgerBet(c)
  BY <1>5 DEF ledgerBet
<1>9. Ledger!place(b, m)
  <2>1. chainMarketsNow' = [chainMarketsNow EXCEPT ![m].status = "Open"]
    BY <1>7 DEF chainMarketsNow
  <2>2. chainBetsNow' = [chainBetsNow EXCEPT ![b] = [status |-> "Pending", market |-> m]]
    BY <1>8 DEF chainBetsNow
  <2>3. chainBetsNow[b].status = "None" /\ chainMarketsNow[m].status \in {"None", "Open"}
    BY <1>7, <1>8 DEF chainMarketsNow, chainBetsNow
  <2> QED
    BY <2>1, <2>2, <2>3 DEF Ledger!place, chainMarketsNow, chainBetsNow
<1> QED
  BY <1>9 DEF LedgerStep, Ledger!LedgerNext

(* The listed pending bets of the market are the ledger's winners. *)
LEMMA SettleLedger ==
    ASSUME LedgerInv, NEW m \in Markets, NEW outcome \in Nat,
           NEW listed \in [BetIds -> 0..MaxListed], settleMarket(m, outcome, listed)
    PROVE  LedgerStep
<1> DEFINE W == {b \in BetIds : isWinner(listed, b)}
<1>1. /\ isUnresolved(m) /\ validList(m, listed)
      /\ bets' = [b \in BetIds |-> IF isWinner(listed, b)
                                   THEN [bets[b] EXCEPT !.status = "Won"] ELSE bets[b]]
  BY DEF settleMarket
<1>2. /\ markets'[m].status = "Settled"
      /\ \A n \in Markets : n # m => markets'[n] = markets[n]
  BY SettleTracked DEF LedgerInv
<1>3. /\ ledgerMarket(m).status = "Open"
      /\ ledgerMarket(m)' = [status |-> "Settled",
                             winningOutcome |-> ledgerMarket(m)'.winningOutcome]
      /\ \A n \in Markets : n # m => ledgerMarket(n)' = ledgerMarket(n)
  BY <1>1, <1>2 DEF ledgerMarket, isUnresolved
<1>4. ASSUME NEW b \in BetIds
      PROVE  ledgerBet(b)' = IF /\ b \in W /\ ledgerBet(b).market = m
                                /\ ledgerBet(b).status \in {"Pending"}
                             THEN [ledgerBet(b) EXCEPT !.status = "Won"] ELSE ledgerBet(b)
  <2>1. bets[b] \in BetType
    BY DEF LedgerInv, CoreInv, BetsOK
  <2>2. CASE isWinner(listed, b)
    <3>1. bets[b].status = "Pending" /\ bets[b].marketId = m
      BY <1>1, <2>2 DEF isWinner, validList
    <3>2. bets'[b] = [bets[b] EXCEPT !.status = "Won"]
      BY <1>1, <2>2
    <3>3. bets'[b].status = "Won" /\ bets'[b].marketId = m
      BY <2>1, <3>1, <3>2 DEF BetType
    <3> QED
      BY <2>2, <3>1, <3>3 DEF ledgerBet
  <2>3. CASE ~isWinner(listed, b)
    BY <1>1, <2>3 DEF ledgerBet
  <2> QED
    BY <2>2, <2>3
<1>5. W \in SUBSET BetIds
  OBVIOUS
<1> HIDE DEF W
<1>6. Ledger!settle(m, chainMarketsNow'[m].winningOutcome, W)
  <2>1. chainMarketsNow' = [chainMarketsNow EXCEPT
                              ![m] = [status |-> "Settled",
                                      winningOutcome |-> chainMarketsNow'[m].winningOutcome]]
    BY <1>3 DEF chainMarketsNow
  <2>2. chainBetsNow' = [b \in BetIds |->
                           IF /\ b \in W /\ chainBetsNow[b].market = m
                              /\ chainBetsNow[b].status \in {"Pending"}
                           THEN [chainBetsNow[b] EXCEPT !.status = "Won"] ELSE chainBetsNow[b]]
    BY <1>4 DEF chainBetsNow
  <2>3. chainMarketsNow[m].status = "Open"
    BY <1>3 DEF chainMarketsNow
  <2> QED
    BY <2>1, <2>2, <2>3 DEF Ledger!settle, Ledger!isIn, chainMarketsNow, chainBetsNow
<1> QED
  BY <1>5, <1>6 DEF LedgerStep, Ledger!LedgerNext, chainMarketsNow

LEMMA CancelLedger ==
    ASSUME LedgerInv, NEW m \in Markets, cancelMarket(m)
    PROVE  LedgerStep
<1>1. markets \in [Markets -> MarketType]
  BY DEF LedgerInv, CoreInv, MarketsOK
<1>2. /\ UNCHANGED bets /\ isUnresolved(m)
      /\ markets' = [markets EXCEPT ![m].status = "Cancelled"]
  BY DEF cancelMarket
<1>3. /\ markets'[m].status = "Cancelled" /\ markets'[m].winningOutcome = markets[m].winningOutcome
      /\ \A n \in Markets : n # m => markets'[n] = markets[n]
  BY <1>1, <1>2 DEF MarketType
<1>4. /\ ledgerMarket(m).status = "Open"
      /\ ledgerMarket(m)' = [ledgerMarket(m) EXCEPT !.status = "Cancelled"]
      /\ \A n \in Markets : n # m => ledgerMarket(n)' = ledgerMarket(n)
  BY <1>2, <1>3 DEF ledgerMarket, isUnresolved
<1>5. Ledger!cancel(m)
  <2>1. chainMarketsNow' = [chainMarketsNow EXCEPT ![m].status = "Cancelled"]
    BY <1>4 DEF chainMarketsNow
  <2>2. chainMarketsNow[m].status = "Open"
    BY <1>4 DEF chainMarketsNow
  <2> QED
    BY <1>2, <2>1, <2>2, BetsRecorded DEF Ledger!cancel, chainMarketsNow, chainBetsNow
<1> QED
  BY <1>5 DEF LedgerStep, Ledger!LedgerNext

(* The three ways a placed bet ends. *)
LEMMA PaidLedger ==
    ASSUME LedgerInv, NEW b \in BetIds, voidBet(b) \/ claimWinnings(b) \/ claimRefund(b)
    PROVE  LedgerStep
<1> DEFINE m == bets[b].marketId
<1>1. BetsOK /\ bets[b].status # "None"
  BY DEF LedgerInv, CoreInv, voidBet, claimWinnings, claimRefund
<1>2. m \in Markets /\ markets \in [Markets -> MarketType]
  BY <1>1, BetNumbers DEF LedgerInv, CoreInv, MarketsOK
<1>3. \A n \in Markets : ledgerMarket(n)' = ledgerMarket(n)
  <2>1. CASE voidBet(b)
    <3> DEFINE rest == markets[m].totalBetAmount - bets[b].amount
    <3>1. markets' = [markets EXCEPT ![m].totalBetAmount = rest]
      BY <2>1 DEF voidBet
    <3> HIDE DEF rest, m
    <3>2. \A n \in Markets : n # m => markets'[n] = markets[n]
      BY <1>2, <3>1
    <3>3. markets'[m].status = markets[m].status
          /\ markets'[m].winningOutcome = markets[m].winningOutcome
      BY <1>2, <3>1 DEF MarketType
    <3> QED
      BY <3>2, <3>3 DEF ledgerMarket
  <2>2. CASE claimWinnings(b) \/ claimRefund(b)
    BY <2>2 DEF claimWinnings, claimRefund, ledgerMarket
  <2> QED
    BY <2>1, <2>2
<1>4. chainMarketsNow' = chainMarketsNow
  BY <1>3 DEF chainMarketsNow
<1>5. chainMarketsNow[m].status = ledgerMarket(m).status
  BY <1>2 DEF chainMarketsNow
<1>6. ASSUME NEW s \in {"Cancelled", "Cashed"}, NEW a,
             bets' = [bets EXCEPT ![b].status = s, ![b].paid = bets[b].paid + a]
      PROVE  chainBetsNow' = [chainBetsNow EXCEPT ![b].status = s]
  <2>1. /\ bets'[b].status = s /\ bets'[b].marketId = bets[b].marketId
        /\ \A c \in BetIds : c # b => bets'[c] = bets[c]
    BY <1>1, <1>6, PaidBetIs DEF BetStatus
  <2> QED
    BY <2>1 DEF chainBetsNow, ledgerBet
<1>7. /\ chainBetsNow[b].status = bets[b].status
      /\ chainBetsNow[b].market = m
  BY DEF chainBetsNow, ledgerBet
<1>8. CASE voidBet(b)
  <2>1. /\ bets[b].status = "Pending" /\ ledgerMarket(m).status = "Open"
        /\ bets' = [bets EXCEPT ![b].status = "Cancelled", ![b].paid = bets[b].paid + bets[b].amount]
    BY <1>8 DEF voidBet, ledgerMarket, isUnresolved
  <2>2. chainBetsNow' = [chainBetsNow EXCEPT ![b].status = "Cancelled"]
    BY <1>6, <2>1
  <2>3. Ledger!void(b)
    BY <1>4, <1>5, <1>7, <2>1, <2>2 DEF Ledger!void, chainMarketsNow, chainBetsNow
  <2> QED
    BY <2>3 DEF LedgerStep, Ledger!LedgerNext
<1>9. CASE claimWinnings(b)
  <2>1. /\ bets[b].status = "Won"
        /\ bets' = [bets EXCEPT ![b].status = "Cashed", ![b].paid = bets[b].paid + winningsOf(b)]
    BY <1>9 DEF claimWinnings
  <2>2. chainBetsNow' = [chainBetsNow EXCEPT ![b].status = "Cashed"]
    BY <1>6, <2>1
  <2>3. Ledger!cash(b)
    BY <1>4, <1>7, <2>1, <2>2 DEF Ledger!cash, chainMarketsNow, chainBetsNow
  <2> QED
    BY <2>3 DEF LedgerStep, Ledger!LedgerNext
<1>10. CASE claimRefund(b)
  <2>1. /\ bets[b].status = "Pending" /\ ledgerMarket(m).status = "Cancelled"
        /\ bets' = [bets EXCEPT ![b].status = "Cancelled", ![b].paid = bets[b].paid + bets[b].amount]
    BY <1>10 DEF claimRefund, ledgerMarket
  <2>2. chainBetsNow' = [chainBetsNow EXCEPT ![b].status = "Cancelled"]
    BY <1>6, <2>1
  <2>3. Ledger!refund(b)
    BY <1>4, <1>5, <1>7, <2>1, <2>2 DEF Ledger!refund, chainMarketsNow, chainBetsNow
  <2> QED
    BY <2>3 DEF LedgerStep, Ledger!LedgerNext
<1> QED
  BY <1>8, <1>9, <1>10

LEMMA ParlayPlacedLedger ==
    ASSUME LedgerInv, NEW p \in ParlayIds, NEW legs \in LegLists,
           NEW os \in OutcomeLists(Len(legs)), NEW stake \in Nat, NEW odds \in Nat,
           NEW t \in Nat,
           \/ placeParlayBet(p, legs, os, stake, odds)
           \/ placeParlayBetWithAttestations(p, legs, os, stake, odds, t)
    PROVE  LedgerStep
<1> DEFINE absent == {m \in Markets : /\ markets[m].status = "None"
                                      /\ \E i \in 1..Len(legs) : legs[i] = m}
           new == [m \in Markets |-> IF m \in absent THEN NewMarket(t) ELSE markets[m]]
<1>1. PICK registered \in {markets, new} : executeParlayBet(p, registered, legs, os, stake, odds)
  BY DEF placeParlayBet, placeParlayBetWithAttestations
<1>2. markets' = registered /\ UNCHANGED bets
  BY <1>1 DEF executeParlayBet
<1>3. \A n \in Markets : markets[n].status = "None" => markets[n].winningOutcome = 0
  BY DEF LedgerInv, OutcomesUnset
<1>4. NewMarket(t).status = "Open" /\ NewMarket(t).winningOutcome = 0
  BY NewMarketOutcome
<1> HIDE DEF NewMarket
<1>5. \A n \in Markets : \/ markets'[n] = markets[n]
                         \/ /\ markets[n].status = "None" /\ markets'[n].status = "Open"
                            /\ markets'[n].winningOutcome = markets[n].winningOutcome
  BY <1>1, <1>2, <1>3, <1>4
<1> QED
  BY <1>2, <1>5, RegisterLedger

LEMMA OutsideLedger ==
    ASSUME UNCHANGED <<markets, bets>>
    PROVE  LedgerStep
BY LedgerStays DEF ledgerMarket, ledgerBet

LEMMA CoreLedgerStep ==
    ASSUME LedgerInv, Next
    PROVE  LedgerStep
<1> USE CoreAssumption
<1>1. CASE PoolOnlyNext /\ UNCHANGED coreVars
  BY <1>1, OutsideLedger DEF coreVars
<1>2. CASE \/ \E m \in Markets, t \in ClosingTimes : createMarket(m, t)
           \/ \E m \in Markets : suspendMarket(m) \/ resumeMarket(m)
  <2>1. PICK m \in Markets, t \in Nat : createMarket(m, t) \/ suspendMarket(m) \/ resumeMarket(m)
    BY <1>2
  <2> QED
    BY <2>1, LifecycleLedger
<1>3. CASE \E b \in BetIds, m \in Markets, o \in Outcomes, a \in Stakes, x \in Odds :
              placeBet(b, m, o, a, x)
  <2>1. PICK b \in BetIds, m \in Markets, o \in Outcomes, a \in Stakes, x \in Odds :
            placeBet(b, m, o, a, x)
    BY <1>3
  <2>2. o \in Nat /\ a \in Nat /\ x \in Nat /\ 0 \in Nat
    OBVIOUS
  <2> QED
    BY <2>1, <2>2, PlaceLedger
<1>4. CASE \E b \in BetIds, m \in Markets, o \in Outcomes, a \in Stakes, x \in Odds,
             t \in ClosingTimes : placeBetWithAttestation(b, m, o, a, x, t)
  <2>1. PICK b \in BetIds, m \in Markets, o \in Outcomes, a \in Stakes, x \in Odds,
             t \in ClosingTimes : placeBetWithAttestation(b, m, o, a, x, t)
    BY <1>4
  <2>2. o \in Nat /\ a \in Nat /\ x \in Nat /\ t \in Nat
    OBVIOUS
  <2> QED
    BY <2>1, <2>2, PlaceLedger
<1>5. CASE \E m \in Markets, o \in Outcomes, listed \in [BetIds -> 0..MaxListed] :
              settleMarket(m, o, listed)
  BY <1>5, SettleLedger
<1>6. CASE \E b \in BetIds : voidBet(b) \/ claimWinnings(b) \/ claimRefund(b)
  BY <1>6, PaidLedger
<1>7. CASE \E m \in Markets : cancelMarket(m)
  BY <1>7, CancelLedger
<1>8. CASE \E p \in ParlayIds, legs \in LegLists, a \in Stakes, x \in ParlayOdds :
              \E os \in OutcomeLists(Len(legs)) : placeParlayBet(p, legs, os, a, x)
  <2>1. PICK p \in ParlayIds, legs \in LegLists, a \in Stakes, x \in ParlayOdds :
            \E os \in OutcomeLists(Len(legs)) : placeParlayBet(p, legs, os, a, x)
    BY <1>8
  <2>2. a \in Nat /\ x \in Nat /\ 0 \in Nat
    OBVIOUS
  <2> QED
    BY <2>1, <2>2, ParlayPlacedLedger
<1>9. CASE \E p \in ParlayIds, legs \in LegLists, a \in Stakes, x \in ParlayOdds,
             t \in ClosingTimes : \E os \in OutcomeLists(Len(legs)) :
                 placeParlayBetWithAttestations(p, legs, os, a, x, t)
  <2>1. PICK p \in ParlayIds, legs \in LegLists, a \in Stakes, x \in ParlayOdds,
             t \in ClosingTimes : \E os \in OutcomeLists(Len(legs)) :
                 placeParlayBetWithAttestations(p, legs, os, a, x, t)
    BY <1>9
  <2>2. a \in Nat /\ x \in Nat /\ t \in Nat
    OBVIOUS
  <2> QED
    BY <2>1, <2>2, ParlayPlacedLedger
<1>10. CASE \E p \in ParlayIds : claimParlayWinnings(p) \/ claimParlayRefund(p)
                                 \/ reportParlayLoss(p)
  BY <1>10, OutsideLedger DEF claimParlayWinnings, claimParlayRefund, reportParlayLoss
<1>11. CASE \/ \E v \in PauseChoices : setPaused(v)
            \/ \E e \in EdgeChoices : setHouseEdge(e)
            \/ \E x \in MultiplierChoices : setProbabilitySafetyMultiplier(x)
            \/ \E l \in LimitChoices : setBetLimits(l[1], l[2])
  BY <1>11, OutsideLedger
     DEF setPaused, setHouseEdge, setProbabilitySafetyMultiplier, setBetLimits
<1> QED
  BY <1>1, <1>2, <1>3, <1>4, <1>5, <1>6, <1>7, <1>8, <1>9, <1>10, <1>11 DEF Next

(* A market on the contract is never forgotten, so no outcome is set early. *)
LEMMA MarketsRemembered ==
    ASSUME BookInv, Next
    PROVE  \A n \in Markets : markets'[n] = markets[n] \/ markets'[n].status # "None"
<1> USE CoreAssumption
<1>0. CoreInv /\ Tracking /\ CoreInv' /\ markets \in [Markets -> MarketType]
  BY CoreStep DEF BookInv, CoreInv, MarketsOK
<1>1. CASE UNCHANGED markets
  BY <1>1
<1>2. CASE \E m \in Markets, t \in Nat : createMarket(m, t) \/ suspendMarket(m) \/ resumeMarket(m)
  BY <1>0, <1>2, LifecycleTracked DEF MarketsKept
<1>3. CASE \E b \in BetIds, m \in Markets, o \in Nat, a \in Nat, x \in Nat, t \in Nat :
              placeBet(b, m, o, a, x) \/ placeBetWithAttestation(b, m, o, a, x, t)
  BY <1>0, <1>3, PlaceTracked DEF MarketsKept
<1>4. CASE \E m \in Markets, o \in Nat, listed \in [BetIds -> 0..MaxListed] :
              settleMarket(m, o, listed)
  <2>1. PICK m \in Markets, o \in Nat, listed \in [BetIds -> 0..MaxListed] :
            settleMarket(m, o, listed)
    BY <1>4
  <2>2. /\ markets'[m].status = "Settled"
        /\ \A n \in Markets : n # m => markets'[n] = markets[n]
    BY <1>0, <2>1, SettleTracked
  <2> QED
    BY <2>2
<1>5. CASE \E b \in BetIds : voidBet(b)
  <2>1. PICK b \in BetIds : voidBet(b)
    BY <1>5
  <2>2. PICK m \in Markets : bets[b].marketId = m
    BY <1>0, <2>1, BetNumbers DEF voidBet, CoreInv
  <2> QED
    BY <1>0, <2>1, <2>2, VoidTracked DEF MarketsKept
<1>6. CASE \E m \in Markets : cancelMarket(m)
  BY <1>0, <1>6, CancelTracked DEF MarketsKept
<1>7. CASE \E p \in ParlayIds, legs \in LegLists, a \in Nat, x \in Nat, t \in Nat :
              \E os \in OutcomeLists(Len(legs)) :
                  \/ placeParlayBet(p, legs, os, a, x)
                  \/ placeParlayBetWithAttestations(p, legs, os, a, x, t)
  BY <1>0, <1>7, ParlayPlacedTracked DEF MarketsKept
<1>8. CASE \/ \E m \in Markets, t \in ClosingTimes : createMarket(m, t)
           \/ \E m \in Markets : suspendMarket(m) \/ resumeMarket(m)
  <2>1. PICK m \in Markets, t \in Nat : createMarket(m, t) \/ suspendMarket(m) \/ resumeMarket(m)
    BY <1>8
  <2> QED
    BY <1>2, <2>1
<1>9. CASE \/ \E b \in BetIds, m \in Markets, o \in Outcomes, a \in Stakes, x \in Odds :
                  placeBet(b, m, o, a, x)
           \/ \E b \in BetIds, m \in Markets, o \in Outcomes, a \in Stakes, x \in Odds,
                 t \in ClosingTimes : placeBetWithAttestation(b, m, o, a, x, t)
  <2>1. PICK b \in BetIds, m \in Markets, o \in Nat, a \in Nat, x \in Nat, t \in Nat :
            placeBet(b, m, o, a, x) \/ placeBetWithAttestation(b, m, o, a, x, t)
    BY <1>9
  <2> QED
    BY <1>3, <2>1
<1>10. CASE \/ \E p \in ParlayIds, legs \in LegLists, a \in Stakes, x \in ParlayOdds :
                   \E os \in OutcomeLists(Len(legs)) : placeParlayBet(p, legs, os, a, x)
            \/ \E p \in ParlayIds, legs \in LegLists, a \in Stakes, x \in ParlayOdds,
                  t \in ClosingTimes : \E os \in OutcomeLists(Len(legs)) :
                      placeParlayBetWithAttestations(p, legs, os, a, x, t)
  <2>1. PICK p \in ParlayIds, legs \in LegLists, a \in Nat, x \in Nat, t \in Nat :
            \E os \in OutcomeLists(Len(legs)) :
                \/ placeParlayBet(p, legs, os, a, x)
                \/ placeParlayBetWithAttestations(p, legs, os, a, x, t)
    <3>1. CASE \E p \in ParlayIds, legs \in LegLists, a \in Stakes, x \in ParlayOdds :
                   \E os \in OutcomeLists(Len(legs)) : placeParlayBet(p, legs, os, a, x)
      <4>1. PICK p \in ParlayIds, legs \in LegLists, a \in Stakes, x \in ParlayOdds :
                \E os \in OutcomeLists(Len(legs)) : placeParlayBet(p, legs, os, a, x)
        BY <3>1
      <4>2. a \in Nat /\ x \in Nat /\ 0 \in Nat
        OBVIOUS
      <4> QED
        BY <4>1, <4>2
    <3>2. CASE \E p \in ParlayIds, legs \in LegLists, a \in Stakes, x \in ParlayOdds,
                  t \in ClosingTimes : \E os \in OutcomeLists(Len(legs)) :
                      placeParlayBetWithAttestations(p, legs, os, a, x, t)
      <4>1. PICK p \in ParlayIds, legs \in LegLists, a \in Stakes, x \in ParlayOdds,
                t \in ClosingTimes : \E os \in OutcomeLists(Len(legs)) :
                    placeParlayBetWithAttestations(p, legs, os, a, x, t)
        BY <3>2
      <4>2. a \in Nat /\ x \in Nat /\ t \in Nat
        OBVIOUS
      <4> QED
        BY <4>1, <4>2
    <3> QED
      BY <1>10, <3>1, <3>2
  <2> QED
    BY <1>7, <2>1
<1>11. CASE PoolOnlyNext /\ UNCHANGED coreVars
  BY <1>1, <1>11 DEF coreVars
<1>12. CASE \E b \in BetIds : claimWinnings(b) \/ claimRefund(b)
  BY <1>1, <1>12 DEF claimWinnings, claimRefund
<1>13. CASE \E p \in ParlayIds : claimParlayWinnings(p) \/ claimParlayRefund(p)
                                 \/ reportParlayLoss(p)
  BY <1>1, <1>13 DEF claimParlayWinnings, claimParlayRefund, reportParlayLoss
<1>14. CASE \/ \E v \in PauseChoices : setPaused(v)
            \/ \E e \in EdgeChoices : setHouseEdge(e)
            \/ \E x \in MultiplierChoices : setProbabilitySafetyMultiplier(x)
            \/ \E l \in LimitChoices : setBetLimits(l[1], l[2])
  BY <1>1, <1>14 DEF setPaused, setHouseEdge, setProbabilitySafetyMultiplier, setBetLimits
<1> QED
  BY <1>4, <1>5, <1>6, <1>8, <1>9, <1>10, <1>11, <1>12, <1>13, <1>14 DEF Next

LEMMA OutcomesStayUnset ==
    ASSUME OutcomesUnset,
           \A n \in Markets : markets'[n] = markets[n] \/ markets'[n].status # "None"
    PROVE  OutcomesUnset'
BY DEF OutcomesUnset

LEMMA OutcomesInvariant == Spec => []OutcomesUnset
<1>1. Init => OutcomesUnset
  BY DEF Init, OutcomesUnset, NoMarket
<1>2. BookInv /\ OutcomesUnset /\ [Next]_vars => OutcomesUnset'
  <2>1. ASSUME BookInv, OutcomesUnset, Next PROVE OutcomesUnset'
    BY <2>1, MarketsRemembered, OutcomesStayUnset
  <2>2. ASSUME OutcomesUnset, UNCHANGED vars PROVE OutcomesUnset'
    BY <2>2 DEF OutcomesUnset, vars, coreVars
  <2> QED
    BY <2>1, <2>2
<1> QED
  BY <1>1, <1>2, BooksInvariant, PTL DEF Spec

(* Every behaviour of BettingCore is one of MarketLedger: whatever the     *)
(* bettors and operators send, a market is resolved once with one outcome, *)
(* and a bet is voided, refunded or cashed only when its market allows it. *)
THEOREM CoreImplementsLedger == Spec => LedgerSpec
<1>1. Init => Ledger!LedgerInit
  <2> SUFFICES ASSUME Init PROVE Ledger!LedgerInit
    OBVIOUS
  <2>1. \A m \in Markets : ledgerMarket(m) = [status |-> "None", winningOutcome |-> 0]
    BY DEF Init, NoMarket, ledgerMarket
  <2>2. \A b \in BetIds : ledgerBet(b) = [status |-> "None", market |-> 0]
    BY DEF Init, NoBet, ledgerBet
  <2> QED
    BY <2>1, <2>2 DEF Ledger!LedgerInit
<1>2. BookInv /\ OutcomesUnset /\ [Next]_vars => LedgerStep
  <2>1. ASSUME BookInv, OutcomesUnset, Next PROVE LedgerStep
    BY <2>1, CoreLedgerStep DEF BookInv, LedgerInv
  <2>2. ASSUME UNCHANGED vars PROVE LedgerStep
    BY <2>2, OutsideLedger DEF vars, coreVars
  <2> QED
    BY <2>1, <2>2
<1>3. LedgerStep <=> [Ledger!LedgerNext]_Ledger!ledgerVars
  BY DEF LedgerStep, Ledger!ledgerVars, chainMarketsNow, chainBetsNow
<1> QED
  BY <1>1, <1>2, <1>3, BooksInvariant, OutcomesInvariant, PTL
     DEF Spec, LedgerSpec, Ledger!LedgerSpec

-----------------------------------------------------------------------------
(* The pool's reservations *)

LocksSpared == poolUsdc' < poolUsdc => poolUsdc' >= lockedForPayouts'

(* A result that asks the pool for no more than is free beyond the other   *)
(* keys' locks leaves those locks covered.                                 *)
LEMMA ReportSpares ==
    ASSUME PoolInv, NEW k \in Keys, NEW total \in Nat, NEW payout \in Nat, NEW pushed \in Nat,
           reportMarketResult(k, total, payout, pushed),
           payout > total => payout - total <= getFreeLiquidity(k)
    PROVE  LocksSpared
<1> DEFINE lock == marketLocked[k]
<1>1. poolUsdc \in Nat /\ lockedForPayouts \in Nat /\ lock \in Nat
  BY DEF PoolInv, PoolTypeOK
<1>2. /\ lock <= lockedForPayouts
      /\ lockedForPayouts' = lockedForPayouts - lock
      /\ payout - total > 0 => poolUsdc' = poolUsdc + pushed - (payout - total)
      /\ ~(payout - total > 0) => poolUsdc' = poolUsdc + pushed
  <2>1. lock <= lockedForPayouts /\ lockedForPayouts' = lockedForPayouts - lock
    BY DEF reportMarketResult
  <2>2. ASSUME payout - total > 0 PROVE poolUsdc' = poolUsdc + pushed - (payout - total)
    BY <1>1, <2>2 DEF reportMarketResult
  <2>3. ASSUME ~(payout - total > 0) PROVE poolUsdc' = poolUsdc + pushed
    BY <1>1, <2>3 DEF reportMarketResult
  <2> QED BY <2>1, <2>2, <2>3
<1>3. payout > total => payout - total <= Monus(poolUsdc, Monus(lockedForPayouts, lock))
  BY DEF getFreeLiquidity
<1> HIDE DEF lock
<1>4. CASE payout > total
  <2>1. Monus(lockedForPayouts, lock) = lockedForPayouts - lock
    BY <1>1, <1>2 DEF Monus
  <2>2. payout - total <= poolUsdc - (lockedForPayouts - lock)
    <3> DEFINE others == lockedForPayouts - lock
    <3>1. others \in Nat /\ payout - total > 0 /\ payout - total \in Nat
      BY <1>1, <1>2, <1>4
    <3>2. payout - total <= Monus(poolUsdc, others)
      BY <1>3, <1>4, <2>1
    <3> HIDE DEF others
    <3>3. payout - total <= poolUsdc - others
      BY <1>1, <3>1, <3>2 DEF Monus
    <3> QED BY <3>3 DEF others
  <2> QED BY <1>1, <1>2, <1>4, <2>2 DEF LocksSpared
<1>5. CASE ~(payout > total)
  BY <1>1, <1>2, <1>5 DEF LocksSpared
<1> QED BY <1>4, <1>5

(* The profit a settlement pays is no more than its market may draw.       *)
LEMMA FillFits ==
    ASSUME CoreInv, NEW m \in Markets, NEW span \in Nat
    PROVE  scaledProfit(marketFillRatio(m, span), span) <= availableFor(m)
<1> DEFINE avail == availableFor(m)
<1>1. avail \in Nat
  BY MarketKeys, AvailableBounds
<1> DEFINE covered == Least(span, avail)
           ratio   == marketFillRatio(m, span)
<1>2. covered \in Nat /\ covered <= avail /\ covered <= span
  BY <1>1 DEF Least
<1>3. ratio = IF span <= 0 THEN FULL_RATIO
              ELSE IF covered >= span THEN FULL_RATIO
              ELSE IF covered <= 0 THEN 0
              ELSE (covered * FULL_RATIO) \div span
  BY DEF marketFillRatio
<1>4. scaledProfit(ratio, span) = (ratio * span) \div 1000 /\ FULL_RATIO = 1000
  BY DEF scaledProfit, FULL_RATIO
<1> HIDE DEF covered, ratio, avail
<1>5. CASE span <= 0 \/ covered >= span
  <2>1. ratio = 1000 /\ span <= covered
    BY <1>2, <1>3, <1>4, <1>5
  <2>2. (1000 * span) \div 1000 = span
    OBVIOUS
  <2> QED BY <1>1, <1>2, <1>4, <2>1, <2>2 DEF avail, ratio
<1>6. CASE ~(span <= 0) /\ ~(covered >= span)
  <2>1. ratio \in Nat /\ ratio * span <= covered * 1000
    <3>1. CASE covered <= 0
      BY <1>2, <1>3, <1>6, <3>1
    <3>2. CASE ~(covered <= 0)
      <4>1. ratio = (covered * 1000) \div span /\ span \in Nat \ {0} /\ covered * 1000 \in Nat
        BY <1>2, <1>3, <1>4, <1>6, <3>2
      <4> QED BY <4>1, QuotientNat, QuotientBound
    <3> QED BY <3>1, <3>2
  <2>2. (ratio * span) \div 1000 <= covered
    <3> DEFINE x == ratio * span  y == (ratio * span) \div 1000
    <3>1. x \in Nat
      BY <2>1, ProductNat
    <3>2. y \in Nat /\ y * 1000 <= x
      BY <3>1, QuotientNat, QuotientBound
    <3>3. x <= covered * 1000
      BY <2>1
    <3> HIDE DEF x, y
    <3>4. y <= covered
      BY <1>2, <3>1, <3>2, <3>3
    <3> QED BY <3>4 DEF y
  <2>3. (ratio * span) \div 1000 \in Nat
    BY <2>1, ProductNat, QuotientNat
  <2> QED BY <1>1, <1>2, <1>4, <2>2, <2>3 DEF avail, ratio
<1> QED BY <1>5, <1>6

(* The stakes of the winners are stakes of the market, when each is listed *)
(* once.                                                                   *)
LEMMA WinnersStakesFit ==
    ASSUME CoreInv, Tracking, MaxListed <= 1, NEW m \in Markets, isUnresolved(m),
           NEW listed \in [BetIds -> 0..MaxListed], validList(m, listed)
    PROVE  sumStakes(listed) <= markets[m].totalBetAmount
<1> DEFINE stakes == [b \in BetIds |-> counted(listed, b) * bets[b].amount]
           held   == stakesIn(m)
<1>1. MaxBets \in Nat /\ BetIds = 1..MaxBets /\ MaxListed \in Nat
  BY CoreAssumption DEF BetIds
<1>2. ASSUME NEW b \in BetIds
      PROVE  stakes[b] \in Int /\ held[b] \in Int /\ stakes[b] <= held[b]
  <2>1. bets[b].amount \in Nat
    BY DEF CoreInv, BetsOK, BetType
  <2>2. held[b] = IF pendingIn(b, m) THEN bets[b].amount ELSE 0
    BY DEF stakesIn
  <2>3. listed[b] \in 0..1
    BY <1>1
  <2>4. CASE isWinner(listed, b)
    <3>1. pendingIn(b, m)
      BY <2>4 DEF isWinner, validList, pendingIn
    <3>2. counted(listed, b) = 1
      BY <2>3, <2>4 DEF counted, isWinner
    <3> QED BY <2>1, <2>2, <3>1, <3>2
  <2>5. CASE ~isWinner(listed, b)
    <3>1. counted(listed, b) = 0
      BY <2>5 DEF counted
    <3> QED BY <2>1, <2>2, <3>1
  <2> QED BY <2>4, <2>5
<1>3. SumTo(held, MaxBets) = markets[m].totalBetAmount
  BY DEF Tracking, TrackedIn
<1> HIDE DEF stakes, held
<1>4. SumTo(stakes, MaxBets) <= SumTo(held, MaxBets)
  BY <1>1, <1>2, SumMonotone
<1> QED BY <1>3, <1>4 DEF sumStakes, stakes

LEMMA SettleSpares ==
    ASSUME CoreInv, Tracking, MaxListed <= 1, NEW m \in Markets, NEW outcome \in Nat,
           NEW listed \in [BetIds -> 0..MaxListed], settleMarket(m, outcome, listed)
    PROVE  LocksSpared
<1> DEFINE span    == profitSpan(listed)
           scaled  == scaledProfit(marketFillRatio(m, span), span)
           stakes  == sumStakes(listed)
           paid    == stakes + scaled
           total   == markets[m].totalBetAmount
           surplus == Monus(total, paid)
           edge    == edgeOf(total)
           pushed  == surplus - Least(edge, surplus)
<1>1. /\ isUnresolved(m) /\ validList(m, listed)
      /\ reportMarketResult(m, total, paid, pushed)
  BY DEF settleMarket, finalizeMarketAccounting
<1>2. span \in Nat /\ stakes \in Nat /\ total \in Nat /\ stakes <= total
  BY <1>1, SettlementSums, WinnersStakesFit DEF CoreInv, MarketsOK, MarketType
<1>3. scaled \in Nat /\ scaled <= availableFor(m)
  <2> HIDE DEF span
  <2>1. marketFillRatio(m, span) \in 0..FULL_RATIO
    BY <1>2, FillRatioBounds
  <2> QED BY <1>2, <2>1, FillFits, ScaledBounds
<1>4. m \in Keys /\ availableFor(m) <= getFreeLiquidity(m) /\ availableFor(m) \in Nat
      /\ getFreeLiquidity(m) \in Nat
  BY MarketKeys, AvailableBounds DEF getFreeLiquidity, Monus, CoreInv, PoolInv, PoolTypeOK
<1>5. edge \in Nat
  BY <1>2, EdgeBounds
<1> HIDE DEF span, scaled, stakes, total, edge
<1>6. paid \in Nat /\ surplus \in Nat
  BY <1>2, <1>3 DEF Monus
<1> HIDE DEF surplus
<1>7. pushed \in Nat
  BY <1>5, <1>6 DEF Least
<1>8. paid > total => paid - total <= getFreeLiquidity(m)
  BY <1>2, <1>3, <1>4
<1> HIDE DEF paid, pushed
<1> QED BY <1>1, <1>2, <1>4, <1>6, <1>7, <1>8, ReportSpares DEF CoreInv

(* A parlay is paid out of what is free beside its own lock. *)
LEMMA ParlaySpares ==
    ASSUME CoreInv, NEW p \in ParlayIds,
           claimParlayWinnings(p) \/ claimParlayRefund(p) \/ reportParlayLoss(p)
    PROVE  LocksSpared
<1> DEFINE k == ParlayKey(p)  a == parlays[p].stake
<1>1. k \in Keys /\ PoolInv /\ a \in Nat /\ parlays[p].potentialPayout - a \in Nat
  BY ParlayKeys, ParlayNumbers DEF CoreInv
<1>2. availableFor(k) \in Nat /\ availableFor(k) <= getFreeLiquidity(k) /\ getFreeLiquidity(k) \in Nat
  BY <1>1, AvailableBounds DEF getFreeLiquidity, Monus, PoolInv, PoolTypeOK
<1>3. CASE claimParlayWinnings(p)
  <2> DEFINE w == parlayPayout(p)
  <2>1. reportMarketResult(k, a, w, 0)
    BY <1>3 DEF claimParlayWinnings
  <2>2. w = a + Least(parlays[p].potentialPayout - a, availableFor(k))
    BY DEF parlayPayout
  <2> HIDE DEF w, k, a
  <2>3. w \in Nat /\ w - a <= getFreeLiquidity(k)
    BY <1>1, <1>2, <2>2 DEF Least
  <2> QED BY <1>1, <2>1, <2>3, ReportSpares
<1>4. CASE claimParlayRefund(p)
  <2>1. reportMarketResult(k, a, a, 0)
    BY <1>4 DEF claimParlayRefund
  <2> HIDE DEF k, a
  <2>2. 0 \in Nat /\ ~(a > a)
    BY <1>1
  <2> QED BY <1>1, <2>1, <2>2, ReportSpares
<1>5. CASE reportParlayLoss(p)
  <2>1. reportMarketResult(k, a, 0, a - edgeOf(a))
    BY <1>5 DEF reportParlayLoss
  <2>2. edgeOf(a) \in Nat /\ edgeOf(a) <= a
    BY <1>1, EdgeBounds
  <2> DEFINE pushed == a - edgeOf(a)
  <2>3. pushed \in Nat /\ 0 \in Nat /\ ~(0 > a)
    BY <1>1, <2>2
  <2> HIDE DEF k, a, pushed
  <2>4. reportMarketResult(k, a, 0, pushed)
    BY <2>1 DEF pushed
  <2> QED BY <1>1, <2>3, <2>4, ReportSpares
<1> QED BY <1>3, <1>4, <1>5

(* A leaving LP takes what is neither locked nor missing from the balance. *)
LEMMA PoolOnlySpares ==
    ASSUME PoolInv, PoolOnlyNext
    PROVE  LocksSpared
<1> USE PoolAssumption
<1>1. /\ poolUsdc \in Nat /\ totalLiquidity \in Nat /\ lockedForPayouts \in Nat
      /\ totalLiquidity <= poolUsdc
  BY DEF PoolInv, PoolTypeOK, PoolBacked
<1>2. ASSUME NEW lp \in LPs, executeWithdrawal(lp) PROVE LocksSpared
  <2> DEFINE w == withdrawalOf(lp)
  <2>1. /\ w <= totalLiquidity - lockedForPayouts
        /\ poolUsdc' = poolUsdc - w /\ lockedForPayouts' = lockedForPayouts
    BY <1>2 DEF executeWithdrawal, lockVars
  <2>2. w \in Nat
    <3>1. shares[lp] # 0 /\ shares[lp] <= totalShares
      BY <1>2 DEF executeWithdrawal
    <3>2. shares[lp] \in Nat /\ totalShares \in Nat
      BY DEF PoolInv, PoolTypeOK
    <3>3. totalShares # 0
      BY <3>1, <3>2
    <3> QED BY <3>3, Redeemed
  <2> HIDE DEF w
  <2> QED BY <1>1, <2>1, <2>2 DEF LocksSpared
<1>3. ASSUME NEW lp \in LPs, NEW a \in Deposits, deposit(lp, a) PROVE LocksSpared
  <2>1. poolUsdc' = poolUsdc + a /\ a \in Nat
    BY <1>3 DEF deposit
  <2> QED BY <1>1, <2>1 DEF LocksSpared
<1>4. ASSUME NEW a \in Donations, Donate(a) PROVE LocksSpared
  <2>1. poolUsdc' = poolUsdc + a /\ a \in Nat
    BY <1>4 DEF Donate
  <2> QED BY <1>1, <2>1 DEF LocksSpared
<1>5. CASE \/ \E lp \in LPs : requestWithdrawal(lp)
           \/ \E a \in VirtualAmounts : addVirtualLiquidity(a) \/ removeVirtualLiquidity(a)
           \/ Tick
  <2>1. poolUsdc' = poolUsdc
    BY <1>5 DEF requestWithdrawal, addVirtualLiquidity, removeVirtualLiquidity, Tick
  <2> QED BY <1>1, <2>1 DEF LocksSpared
<1> QED BY <1>2, <1>3, <1>4, <1>5 DEF PoolOnlyNext

LEMMA BalanceSpares ==
    ASSUME PoolInv, poolUsdc' = poolUsdc
    PROVE  LocksSpared
<1>1. poolUsdc \in Nat
  BY DEF PoolInv, PoolTypeOK
<1> QED BY <1>1 DEF LocksSpared

LEMMA CancelSpares ==
    ASSUME CoreInv, NEW m \in Markets, cancelMarket(m)
    PROVE  LocksSpared
<1> DEFINE total == markets[m].totalBetAmount
<1>1. reportMarketResult(m, total, total, 0)
  BY DEF cancelMarket
<1>2. total \in Nat /\ m \in Keys /\ 0 \in Nat /\ PoolInv
  BY MarketKeys DEF CoreInv, MarketsOK, MarketType
<1> HIDE DEF total
<1>3. ~(total > total)
  BY <1>2
<1> QED BY <1>1, <1>2, <1>3, ReportSpares

(* Locking and unlocking move no USDC. *)
LEMMA LockingSpares ==
    ASSUME NEW k, NEW amount,
           \/ LockIfPositive(k, amount)
           \/ unlockLiquidity(k, amount)
    PROVE  poolUsdc' = poolUsdc
BY DEF LockIfPositive, lockLiquidity, unlockLiquidity, poolVars

LEMMA NextSpares ==
    ASSUME CoreInv, Tracking, MaxListed <= 1, Next
    PROVE  LocksSpared
<1> USE CoreAssumption
<1>0. PoolInv
  BY DEF CoreInv
<1>1. CASE PoolOnlyNext /\ UNCHANGED coreVars
  BY <1>0, <1>1, PoolOnlySpares
<1>2. CASE \/ \E m \in Markets, t \in ClosingTimes : createMarket(m, t)
           \/ \E m \in Markets : suspendMarket(m) \/ resumeMarket(m)
           \/ \E b \in BetIds : claimWinnings(b) \/ claimRefund(b)
           \/ \E v \in PauseChoices : setPaused(v)
           \/ \E e \in EdgeChoices : setHouseEdge(e)
           \/ \E x \in MultiplierChoices : setProbabilitySafetyMultiplier(x)
           \/ \E l \in LimitChoices : setBetLimits(l[1], l[2])
  <2>1. CASE \/ \E m \in Markets, t \in ClosingTimes : createMarket(m, t)
             \/ \E m \in Markets : suspendMarket(m) \/ resumeMarket(m)
    BY <1>0, <2>1, BalanceSpares DEF createMarket, suspendMarket, resumeMarket, poolVars
  <2>2. CASE \E b \in BetIds : claimWinnings(b) \/ claimRefund(b)
    <3>1. PICK b \in BetIds : claimWinnings(b) \/ claimRefund(b)
      BY <2>2
    <3>2. UNCHANGED poolVars
      BY <3>1, Zenon DEF claimWinnings, claimRefund
    <3> QED BY <1>0, <3>2, BalanceSpares DEF poolVars
  <2>3. CASE \/ \E v \in PauseChoices : setPaused(v)
             \/ \E e \in EdgeChoices : setHouseEdge(e)
             \/ \E x \in MultiplierChoices : setProbabilitySafetyMultiplier(x)
             \/ \E l \in LimitChoices : setBetLimits(l[1], l[2])
    BY <1>0, <2>3, BalanceSpares
       DEF setPaused, setHouseEdge, setProbabilitySafetyMultiplier, setBetLimits, poolVars
  <2> QED BY <1>2, <2>1, <2>2, <2>3
<1>3. CASE \/ \E b \in BetIds, m \in Markets, o \in Outcomes, a \in Stakes, x \in Odds :
                  placeBet(b, m, o, a, x)
           \/ \E b \in BetIds, m \in Markets, o \in Outcomes, a \in Stakes, x \in Odds,
                 t \in ClosingTimes : placeBetWithAttestation(b, m, o, a, x, t)
  <2>1. PICK b, m, market, o, a, x : executeBet(b, m, market, o, a, x)
    BY <1>3 DEF placeBet, placeBetWithAttestation
  <2>2. \E amount : LockIfPositive(m, amount)
    BY <2>1 DEF executeBet
  <2> QED BY <1>0, <2>2, LockingSpares, BalanceSpares
<1>4. CASE \E m \in Markets, o \in Outcomes, listed \in [BetIds -> 0..MaxListed] :
              settleMarket(m, o, listed)
  BY <1>4, SettleSpares
<1>5. CASE \E b \in BetIds : voidBet(b)
  <2>1. PICK b \in BetIds : voidBet(b)
    BY <1>5
  <2>2. \/ unlockLiquidity(bets[b].marketId, bets[b].lockedAmount)
        \/ UNCHANGED poolVars
    BY <2>1 DEF voidBet
  <2>3. poolUsdc' = poolUsdc
    BY <2>2, LockingSpares DEF poolVars
  <2> QED BY <1>0, <2>3, BalanceSpares
<1>6. CASE \E m \in Markets : cancelMarket(m)
  BY <1>6, CancelSpares
<1>7. CASE \/ \E p \in ParlayIds, legs \in LegLists, a \in Stakes, x \in ParlayOdds :
                  \E os \in OutcomeLists(Len(legs)) : placeParlayBet(p, legs, os, a, x)
           \/ \E p \in ParlayIds, legs \in LegLists, a \in Stakes, x \in ParlayOdds,
                 t \in ClosingTimes : \E os \in OutcomeLists(Len(legs)) :
                     placeParlayBetWithAttestations(p, legs, os, a, x, t)
  <2>1. PICK p, registered, legs, os, a, x : executeParlayBet(p, registered, legs, os, a, x)
    BY <1>7 DEF placeParlayBet, placeParlayBetWithAttestations
  <2>2. \E k, amount : LockIfPositive(k, amount)
    BY <2>1 DEF executeParlayBet
  <2> QED BY <1>0, <2>2, LockingSpares, BalanceSpares
<1>8. CASE \E p \in ParlayIds : claimParlayWinnings(p) \/ claimParlayRefund(p)
                                \/ reportParlayLoss(p)
  BY <1>8, ParlaySpares
<1> QED
  BY <1>1, <1>2, <1>3, <1>4, <1>5, <1>6, <1>7, <1>8 DEF Next

(* While a settlement lists each winner once, no payment of the pool, to a *)
(* leaving LP, to a market's winners or to a parlay, takes USDC that is    *)
(* locked for the others.                                                  *)
THEOREM CoreSparesReservations ==
    ASSUME MaxListed <= 1
    PROVE  Spec => ReservationsRespected
<1>1. BookInv /\ [Next]_vars => [LocksSpared]_poolVars
  <2>1. ASSUME BookInv, Next PROVE LocksSpared
    BY <2>1, NextSpares DEF BookInv
  <2>2. ASSUME UNCHANGED vars PROVE UNCHANGED poolVars
    BY <2>2 DEF vars
  <2> QED BY <2>1, <2>2
<1> QED BY <1>1, BooksInvariant, PTL DEF Spec, ReservationsRespected, LocksSpared

-----------------------------------------------------------------------------
(* BettingCore implements BetEscrow *)

(* Nothing is paid on a ticket before its state says so, and no bet is      *)
(* free: what makes a payment the only one, and a purchase a stake.         *)
PaidOnce ==
    /\ \A b \in BetIds : bets[b].status \in {"None", "Pending", "Won"} => bets[b].paid = 0
    /\ \A p \in ParlayIds : parlays[p].status \in {"None", "Pending"} => parlays[p].paid = 0

EscrowInv == PaidOnce /\ minBet # 0

(* One ticket, before and after a step. *)
ticketMoves(t, u) ==
    \/ u = t
    \/ Escrow!Buys(t, u)
    \/ Escrow!Resolves(t, u)
    \/ Escrow!Refunds(t, u)
    \/ Escrow!Pays(t, u)

betMoves(b) ==
    /\ ticketMoves(betTicket(b), betTicket(b)')
    /\ bets'[b].status \in {"None", "Pending", "Won"} => bets'[b].paid = 0

parlayMoves(p) ==
    /\ ticketMoves(parlayTicket(p), parlayTicket(p)')
    /\ parlays'[p].status \in {"None", "Pending"} => parlays'[p].paid = 0

EscrowStep ==
    /\ \A b \in BetIds : betMoves(b)
    /\ \A p \in ParlayIds : parlayMoves(p)
    /\ minBet' # 0

(* The five moves of a ticket, with its terms fixed. *)
ticketOf(state, stake, quoted, paid) ==
    [state |-> state, stake |-> stake, quoted |-> quoted, paid |-> paid]

LEMMA TicketMoves ==
    ASSUME NEW a, NEW q
    PROVE  /\ \A s, d : ticketMoves(ticketOf(s, a, q, d), ticketOf(s, a, q, d))
           /\ \A d : \A v \in {"Staked", "Won", "Lost"} :
                 ticketMoves(ticketOf("Staked", a, q, d), ticketOf(v, a, q, d))
           /\ ticketMoves(ticketOf("Staked", a, q, 0), ticketOf("Refunded", a, q, a))
           /\ \A w : a <= w /\ w <= q =>
                 ticketMoves(ticketOf("Won", a, q, 0), ticketOf("Paid", a, q, w))
           /\ \A x, y, z : a > 0 /\ q >= a =>
                 ticketMoves(ticketOf("None", x, y, z), ticketOf("Staked", a, q, 0))
<1>1. \A s, d : ticketMoves(ticketOf(s, a, q, d), ticketOf(s, a, q, d))
  BY DEF ticketMoves
<1>2. ASSUME NEW d, NEW v \in {"Staked", "Won", "Lost"}
      PROVE  ticketMoves(ticketOf("Staked", a, q, d), ticketOf(v, a, q, d))
  <2>1. CASE v = "Staked"
    BY <1>1, <2>1
  <2>2. CASE v # "Staked"
    <3>1. Escrow!Resolves(ticketOf("Staked", a, q, d), ticketOf(v, a, q, d))
      BY <2>2 DEF Escrow!Resolves, ticketOf
    <3> QED BY <3>1 DEF ticketMoves
  <2> QED BY <2>1, <2>2
<1>3. Escrow!Refunds(ticketOf("Staked", a, q, 0), ticketOf("Refunded", a, q, a))
  <2>1. ticketOf("Staked", a, q, 0).state = "Staked" /\ ticketOf("Staked", a, q, 0).stake = a
    BY DEF ticketOf
  <2>2. [ticketOf("Staked", a, q, 0) EXCEPT !.state = "Refunded", !.paid = a]
          = [[ticketOf("Staked", a, q, 0) EXCEPT !.state = "Refunded"] EXCEPT !.paid = a]
    BY DEF ticketOf
  <2>3. [ticketOf("Staked", a, q, 0) EXCEPT !.state = "Refunded"] = ticketOf("Refunded", a, q, 0)
    BY DEF ticketOf
  <2>4. [ticketOf("Refunded", a, q, 0) EXCEPT !.paid = a] = ticketOf("Refunded", a, q, a)
    BY DEF ticketOf
  <2>5. ticketOf("Refunded", a, q, a)
          = [ticketOf("Staked", a, q, 0) EXCEPT !.state = "Refunded", !.paid = a]
    BY ONLY <2>2, <2>3, <2>4, Zenon
  <2> QED BY ONLY <2>1, <2>5, Zenon DEF Escrow!Refunds
<1>4. ASSUME NEW w, a <= w, w <= q
      PROVE  Escrow!Pays(ticketOf("Won", a, q, 0), ticketOf("Paid", a, q, w))
  <2>1. /\ ticketOf("Won", a, q, 0).state = "Won" /\ ticketOf("Won", a, q, 0).stake = a
        /\ ticketOf("Won", a, q, 0).quoted = q /\ ticketOf("Paid", a, q, w).state = "Paid"
        /\ ticketOf("Paid", a, q, w).paid = w
    BY DEF ticketOf
  <2>2. [ticketOf("Won", a, q, 0) EXCEPT !.state = "Paid", !.paid = w]
          = [[ticketOf("Won", a, q, 0) EXCEPT !.state = "Paid"] EXCEPT !.paid = w]
    BY DEF ticketOf
  <2>3. [ticketOf("Won", a, q, 0) EXCEPT !.state = "Paid"] = ticketOf("Paid", a, q, 0)
    BY DEF ticketOf
  <2>4. [ticketOf("Paid", a, q, 0) EXCEPT !.paid = w] = ticketOf("Paid", a, q, w)
    BY DEF ticketOf
  <2>5. ticketOf("Paid", a, q, w)
          = [ticketOf("Won", a, q, 0) EXCEPT !.state = "Paid", !.paid = w]
    BY ONLY <2>2, <2>3, <2>4, Zenon
  <2> QED BY ONLY <1>4, <2>1, <2>5, Zenon DEF Escrow!Pays
<1>5. ASSUME NEW x, NEW y, NEW z, a > 0, q >= a
      PROVE  Escrow!Buys(ticketOf("None", x, y, z), ticketOf("Staked", a, q, 0))
  BY <1>5 DEF Escrow!Buys, ticketOf
<1>6. \A d : \A v \in {"Staked", "Won", "Lost"} :
         ticketMoves(ticketOf("Staked", a, q, d), ticketOf(v, a, q, d))
  BY <1>2
<1>7. ticketMoves(ticketOf("Staked", a, q, 0), ticketOf("Refunded", a, q, a))
  BY <1>3 DEF ticketMoves
<1>8. \A w : a <= w /\ w <= q =>
         ticketMoves(ticketOf("Won", a, q, 0), ticketOf("Paid", a, q, w))
  BY <1>4 DEF ticketMoves
<1>9. \A x, y, z : a > 0 /\ q >= a =>
         ticketMoves(ticketOf("None", x, y, z), ticketOf("Staked", a, q, 0))
  BY <1>5 DEF ticketMoves
<1> HIDE DEF ticketMoves, ticketOf
<1> QED BY <1>1, <1>6, <1>7, <1>8, <1>9

(* A market that is resolved stays as it is.                               *)
VerdictsKept ==
    \A n \in Markets : markets[n].status \in {"Settled", "Cancelled"} =>
        /\ markets'[n].status = markets[n].status
        /\ markets'[n].winningOutcome = markets[n].winningOutcome

LEMMA LedgerKeepsVerdicts ==
    ASSUME LedgerStep
    PROVE  VerdictsKept
<1> SUFFICES ASSUME NEW n \in Markets, markets[n].status \in {"Settled", "Cancelled"}
             PROVE  /\ markets'[n].status = markets[n].status
                    /\ markets'[n].winningOutcome = markets[n].winningOutcome
  BY DEF VerdictsKept
<1>1. chainMarketsNow[n] = ledgerMarket(n) /\ chainMarketsNow'[n] = ledgerMarket(n)'
  BY DEF chainMarketsNow
<1>2. chainMarketsNow[n].status \in {"Settled", "Cancelled"}
  BY <1>1 DEF ledgerMarket
<1>3. chainMarketsNow'[n] = chainMarketsNow[n]
  <2>1. CASE \E S \in SUBSET Markets : Ledger!register(S)
    BY <1>2, <2>1 DEF Ledger!register, chainMarketsNow
  <2>2. CASE \E b \in BetIds, m \in Markets : Ledger!place(b, m)
    <3>1. PICK b \in BetIds, m \in Markets : Ledger!place(b, m)
      BY <2>2
    <3>2. /\ chainMarketsNow[m].status \in {"None", "Open"}
          /\ chainMarketsNow' = [chainMarketsNow EXCEPT ![m].status = "Open"]
      BY <3>1 DEF Ledger!place, chainMarketsNow
    <3> QED BY <1>2, <3>2 DEF chainMarketsNow
  <2>3. CASE \E m \in Markets, W \in SUBSET BetIds :
                Ledger!settle(m, chainMarketsNow'[m].winningOutcome, W)
    <3>1. PICK m \in Markets, W \in SUBSET BetIds :
              Ledger!settle(m, chainMarketsNow'[m].winningOutcome, W)
      BY <2>3
    <3>2. /\ chainMarketsNow[m].status = "Open"
          /\ chainMarketsNow' = [chainMarketsNow EXCEPT
                                   ![m] = [status |-> "Settled",
                                           winningOutcome |-> chainMarketsNow'[m].winningOutcome]]
      BY <3>1 DEF Ledger!settle, chainMarketsNow
    <3> HIDE DEF chainMarketsNow
    <3>3. m # n
      BY <1>2, <3>2
    <3> QED BY <3>2, <3>3 DEF chainMarketsNow
  <2>4. CASE \E b \in BetIds : Ledger!void(b) \/ Ledger!cash(b) \/ Ledger!refund(b)
    BY <2>4 DEF Ledger!void, Ledger!cash, Ledger!refund, chainMarketsNow
  <2>5. CASE \E m \in Markets : Ledger!cancel(m)
    <3>1. PICK m \in Markets : Ledger!cancel(m)
      BY <2>5
    <3>2. /\ chainMarketsNow[m].status = "Open"
          /\ chainMarketsNow' = [chainMarketsNow EXCEPT ![m].status = "Cancelled"]
      BY <3>1 DEF Ledger!cancel, chainMarketsNow
    <3> QED BY <1>2, <3>2 DEF chainMarketsNow
  <2>6. CASE UNCHANGED <<chainMarketsNow, chainBetsNow>>
    BY <2>6
  <2> QED BY <2>1, <2>2, <2>3, <2>4, <2>5, <2>6 DEF LedgerStep, Ledger!LedgerNext,
             chainMarketsNow, chainBetsNow
<1>4. ledgerMarket(n)' = ledgerMarket(n)
  BY <1>1, <1>3
<1> QED BY <1>4 DEF ledgerMarket

LEMMA BetStates ==
    ASSUME NEW b \in BetIds
    PROVE  /\ betTicket(b) = ticketOf(betState(b), bets[b].amount, bets[b].potentialPayout,
                                      bets[b].paid)
           /\ bets[b].status = "None" => betState(b) = "None"
           /\ bets[b].status = "Pending" =>
                 betState(b) = IF markets[bets[b].marketId].status = "Settled"
                               THEN "Lost" ELSE "Staked"
           /\ bets[b].status = "Won" => betState(b) = "Won"
           /\ bets[b].status = "Cashed" => betState(b) = "Paid"
           /\ bets[b].status = "Cancelled" => betState(b) = "Refunded"
<1>1. betTicket(b) = ticketOf(betState(b), bets[b].amount, bets[b].potentialPayout, bets[b].paid)
  BY DEF betTicket, ticketOf
<1>2. bets[b].status = "None" => betState(b) = "None"
  BY DEF betState
<1>3. bets[b].status = "Pending" => betState(b) = IF markets[bets[b].marketId].status = "Settled" THEN "Lost" ELSE "Staked"
  BY DEF betState
<1>4. bets[b].status = "Won" => betState(b) = "Won"
  BY DEF betState
<1>5. bets[b].status = "Cashed" => betState(b) = "Paid"
  BY DEF betState
<1>6. bets[b].status = "Cancelled" => betState(b) = "Refunded"
  BY DEF betState
<1> QED BY <1>1, <1>2, <1>3, <1>4, <1>5, <1>6

LEMMA BetStatesNext ==
    ASSUME NEW b \in BetIds
    PROVE  /\ betTicket(b)' = ticketOf(betState(b)', bets'[b].amount, bets'[b].potentialPayout,
                                       bets'[b].paid)
           /\ bets'[b].status = "None" => betState(b)' = "None"
           /\ bets'[b].status = "Pending" =>
                 betState(b)' = IF markets'[bets'[b].marketId].status = "Settled"
                                THEN "Lost" ELSE "Staked"
           /\ bets'[b].status = "Won" => betState(b)' = "Won"
           /\ bets'[b].status = "Cashed" => betState(b)' = "Paid"
           /\ bets'[b].status = "Cancelled" => betState(b)' = "Refunded"
<1>1. betTicket(b)' = ticketOf(betState(b)', bets'[b].amount, bets'[b].potentialPayout, bets'[b].paid)
  BY DEF betTicket, ticketOf
<1>2. bets'[b].status = "None" => betState(b)' = "None"
  BY DEF betState
<1>3. bets'[b].status = "Pending" => betState(b)' = IF markets'[bets'[b].marketId].status = "Settled" THEN "Lost" ELSE "Staked"
  BY DEF betState
<1>4. bets'[b].status = "Won" => betState(b)' = "Won"
  BY DEF betState
<1>5. bets'[b].status = "Cashed" => betState(b)' = "Paid"
  BY DEF betState
<1>6. bets'[b].status = "Cancelled" => betState(b)' = "Refunded"
  BY DEF betState
<1> QED BY <1>1, <1>2, <1>3, <1>4, <1>5, <1>6

LEMMA ParlayStates ==
    ASSUME NEW p \in ParlayIds
    PROVE  /\ parlayTicket(p) = ticketOf(parlayState(p), parlays[p].stake,
                                         parlays[p].potentialPayout, parlays[p].paid)
           /\ parlays[p].status = "None" => parlayState(p) = "None"
           /\ parlays[p].status = "Pending" =>
                 parlayState(p) = IF evaluateParlay(p) \in {"Won", "Lost"}
                                  THEN evaluateParlay(p) ELSE "Staked"
           /\ parlays[p].status = "Won" => parlayState(p) = "Paid"
           /\ parlays[p].status = "Lost" => parlayState(p) = "Lost"
           /\ parlays[p].status = "Cancelled" => parlayState(p) = "Refunded"
<1>1. parlayTicket(p) = ticketOf(parlayState(p), parlays[p].stake, parlays[p].potentialPayout, parlays[p].paid)
  BY DEF parlayTicket, ticketOf
<1>2. parlays[p].status = "None" => parlayState(p) = "None"
  BY DEF parlayState
<1>3. parlays[p].status = "Pending" => parlayState(p) = IF evaluateParlay(p) \in {"Won", "Lost"}
                                      THEN evaluateParlay(p) ELSE "Staked"
  BY DEF parlayState
<1>4. parlays[p].status = "Won" => parlayState(p) = "Paid"
  BY DEF parlayState
<1>5. parlays[p].status = "Lost" => parlayState(p) = "Lost"
  BY DEF parlayState
<1>6. parlays[p].status = "Cancelled" => parlayState(p) = "Refunded"
  BY DEF parlayState
<1> QED BY <1>1, <1>2, <1>3, <1>4, <1>5, <1>6

LEMMA ParlayStatesNext ==
    ASSUME NEW p \in ParlayIds
    PROVE  /\ parlayTicket(p)' = ticketOf(parlayState(p)', parlays'[p].stake,
                                          parlays'[p].potentialPayout, parlays'[p].paid)
           /\ parlays'[p].status = "None" => parlayState(p)' = "None"
           /\ parlays'[p].status = "Pending" =>
                 parlayState(p)' = IF evaluateParlay(p)' \in {"Won", "Lost"}
                                   THEN evaluateParlay(p)' ELSE "Staked"
           /\ parlays'[p].status = "Won" => parlayState(p)' = "Paid"
           /\ parlays'[p].status = "Lost" => parlayState(p)' = "Lost"
           /\ parlays'[p].status = "Cancelled" => parlayState(p)' = "Refunded"
<1>1. parlayTicket(p)' = ticketOf(parlayState(p)', parlays'[p].stake, parlays'[p].potentialPayout, parlays'[p].paid)
  BY DEF parlayTicket, ticketOf
<1>2. parlays'[p].status = "None" => parlayState(p)' = "None"
  BY DEF parlayState
<1>3. parlays'[p].status = "Pending" => parlayState(p)' = IF evaluateParlay(p)' \in {"Won", "Lost"}
                                      THEN evaluateParlay(p)' ELSE "Staked"
  BY DEF parlayState
<1>4. parlays'[p].status = "Won" => parlayState(p)' = "Paid"
  BY DEF parlayState
<1>5. parlays'[p].status = "Lost" => parlayState(p)' = "Lost"
  BY DEF parlayState
<1>6. parlays'[p].status = "Cancelled" => parlayState(p)' = "Refunded"
  BY DEF parlayState
<1> QED BY <1>1, <1>2, <1>3, <1>4, <1>5, <1>6

(* A bet nobody touches stays where it is, or loses with its market. *)
LEMMA BetUntouched ==
    ASSUME BetsOK, PaidOnce, VerdictsKept, NEW b \in BetIds, bets'[b] = bets[b]
    PROVE  betMoves(b)
<1>1. bets[b].status \in BetStatus
  BY DEF BetsOK, BetType
<1>2. bets[b].status # "None" => bets[b].marketId \in Markets
  BY DEF BetsOK, BetTerms
<1>3. bets'[b].status \in {"None", "Pending", "Won"} => bets'[b].paid = 0
  BY DEF PaidOnce
<1>4. bets[b].status = "Pending" /\ markets[bets[b].marketId].status = "Settled" =>
         markets'[bets'[b].marketId].status = "Settled"
  BY <1>2 DEF VerdictsKept
<1>5. \/ betState(b)' = betState(b)
      \/ betState(b) = "Staked" /\ betState(b)' \in {"Staked", "Won", "Lost"}
  BY <1>1, <1>4, BetStates, BetStatesNext DEF BetStatus
<1>6. ticketMoves(betTicket(b), betTicket(b)')
  <2> DEFINE a == bets[b].amount  q == bets[b].potentialPayout  d == bets[b].paid
             s == betState(b)  v == betState(b)'
  <2>1. betTicket(b) = ticketOf(s, a, q, d) /\ betTicket(b)' = ticketOf(v, a, q, d)
    BY BetStates, BetStatesNext
  <2>2. v = s \/ (s = "Staked" /\ v \in {"Staked", "Won", "Lost"})
    BY <1>5
  <2> HIDE DEF a, q, d, s, v
  <2>3. ticketMoves(ticketOf(s, a, q, d), ticketOf(v, a, q, d))
    BY <2>2, TicketMoves
  <2> QED BY <2>1, <2>3
<1> QED BY <1>3, <1>6 DEF betMoves

(* A leg decided one way stays decided that way. *)
LEMMA LegFinal ==
    ASSUME VerdictsKept, ParlaysOK, NEW p \in ParlayIds, parlays'[p] = parlays[p],
           NEW i \in Legs(p), LegStatus(p, i) # "Pending"
    PROVE  LegStatus(p, i)' = LegStatus(p, i)
<1> DEFINE m == parlays[p].marketIds[i]
<1>1. m \in Markets
  BY DEF ParlaysOK, ParlayType, Legs
<1>2. parlays'[p].marketIds[i] = m /\ parlays'[p].outcomes[i] = parlays[p].outcomes[i]
  OBVIOUS
<1> HIDE DEF m
<1>3. markets[m].status \in {"Settled", "Cancelled"}
  BY DEF LegStatus, m
<1>4. markets'[m].status = markets[m].status /\ markets'[m].winningOutcome = markets[m].winningOutcome
  BY <1>1, <1>3 DEF VerdictsKept
<1> QED BY <1>2, <1>3, <1>4 DEF LegStatus, m

LEMMA LegValues ==
    ASSUME NEW p, NEW i
    PROVE  LegStatus(p, i) \in {"Void", "Won", "Lost", "Pending"}
BY DEF LegStatus

(* The scan of the legs, as it finds a parlay lost or won. *)
LEMMA VerdictIs ==
    ASSUME ParlaysOK, NEW p \in ParlayIds
    PROVE  /\ evaluateParlay(p) \in {"Lost", "Pending", "Void", "Won"}
           /\ evaluateParlay(p) = "Lost" <=>
                 \E i \in Legs(p) : /\ LegStatus(p, i) = "Lost"
                                    /\ \A j \in 1..(i - 1) : LegStatus(p, j) \in {"Won", "Void"}
           /\ evaluateParlay(p) = "Won" <=> \A i \in Legs(p) : LegStatus(p, i) = "Won"
<1> DEFINE passed(i)    == \A j \in 1..(i - 1) : LegStatus(p, j) \in {"Won", "Void"}
           stopsWith(v) == \E i \in Legs(p) : passed(i) /\ LegStatus(p, i) = v
<1>1. evaluateParlay(p) = IF stopsWith("Lost") THEN "Lost"
                          ELSE IF stopsWith("Pending") THEN "Pending"
                          ELSE IF \E i \in Legs(p) : LegStatus(p, i) = "Void" THEN "Void"
                          ELSE "Won"
  BY DEF evaluateParlay
<1>2. Legs(p) \subseteq Nat
  BY DEF Legs, ParlaysOK, ParlayType
<1>3. ASSUME ~stopsWith("Lost"), ~stopsWith("Pending")
      PROVE  \A i \in Legs(p) : LegStatus(p, i) \in {"Won", "Void"}
  <2> DEFINE Bad == {i \in Legs(p) : LegStatus(p, i) \notin {"Won", "Void"}}
  <2> SUFFICES ASSUME Bad # {} PROVE FALSE
    OBVIOUS
  <2>1. PICK k \in Bad : \A y \in Bad : k <= y
    BY <1>2, LeastNatural
  <2>2. ASSUME NEW j \in 1..(k - 1) PROVE LegStatus(p, j) \in {"Won", "Void"}
    BY <1>2, <2>1 DEF Legs, ParlaysOK, ParlayType
  <2>3. passed(k) /\ LegStatus(p, k) \in {"Lost", "Pending"}
    BY <2>1, <2>2, LegValues
  <2> QED BY <1>3, <2>1, <2>3
<1>4. (\A i \in Legs(p) : LegStatus(p, i) = "Won") =>
         ~stopsWith("Lost") /\ ~stopsWith("Pending")
         /\ ~ \E i \in Legs(p) : LegStatus(p, i) = "Void"
  OBVIOUS
<1>5. evaluateParlay(p) = "Lost" <=> stopsWith("Lost")
  BY <1>1
<1>6. evaluateParlay(p) = "Won" <=> \A i \in Legs(p) : LegStatus(p, i) = "Won"
  <2>1. ASSUME evaluateParlay(p) = "Won", NEW i \in Legs(p) PROVE LegStatus(p, i) = "Won"
    <3>1. ~stopsWith("Lost") /\ ~stopsWith("Pending") /\ LegStatus(p, i) # "Void"
      BY <1>1, <2>1
    <3> QED BY <1>3, <3>1
  <2> QED BY <1>1, <1>4, <2>1
<1> QED BY <1>1, <1>5, <1>6

LEMMA VerdictIsNext ==
    ASSUME ParlaysOK', NEW p \in ParlayIds
    PROVE  /\ evaluateParlay(p)' = "Lost" <=>
                 \E i \in Legs(p)' :
                    /\ LegStatus(p, i)' = "Lost"
                    /\ \A j \in 1..(i - 1) : LegStatus(p, j)' \in {"Won", "Void"}
           /\ evaluateParlay(p)' = "Won" <=> \A i \in Legs(p)' : LegStatus(p, i)' = "Won"
<1>1. (ParlaysOK =>
         /\ evaluateParlay(p) = "Lost" <=>
               \E i \in Legs(p) : /\ LegStatus(p, i) = "Lost"
                                  /\ \A j \in 1..(i - 1) : LegStatus(p, j) \in {"Won", "Void"}
         /\ evaluateParlay(p) = "Won" <=> \A i \in Legs(p) : LegStatus(p, i) = "Won")'
  BY VerdictIs, PTL
<1> QED BY <1>1

LEMMA VerdictFinal ==
    ASSUME VerdictsKept, ParlaysOK, ParlaysOK', NEW p \in ParlayIds, parlays'[p] = parlays[p],
           evaluateParlay(p) \in {"Won", "Lost"}
    PROVE  evaluateParlay(p)' = evaluateParlay(p)
<1>1. Legs(p)' = Legs(p) /\ Legs(p) \subseteq Nat
  BY DEF Legs, ParlaysOK, ParlayType
<1>2. /\ evaluateParlay(p)' = "Lost" <=>
            \E i \in Legs(p)' :
               /\ LegStatus(p, i)' = "Lost"
               /\ \A j \in 1..(i - 1) : LegStatus(p, j)' \in {"Won", "Void"}
      /\ evaluateParlay(p)' = "Won" <=> \A i \in Legs(p)' : LegStatus(p, i)' = "Won"
  BY VerdictIsNext
<1>3. CASE evaluateParlay(p) = "Won"
  <2>1. \A i \in Legs(p) : LegStatus(p, i)' = "Won"
    BY <1>3, VerdictIs, LegFinal
  <2> QED BY <1>1, <1>2, <1>3, <2>1
<1>4. CASE evaluateParlay(p) = "Lost"
  <2>1. PICK i \in Legs(p) : /\ LegStatus(p, i) = "Lost"
                            /\ \A j \in 1..(i - 1) : LegStatus(p, j) \in {"Won", "Void"}
    BY <1>4, VerdictIs
  <2>2. LegStatus(p, i)' = "Lost"
    BY <2>1, LegFinal
  <2>3. ASSUME NEW j \in 1..(i - 1) PROVE LegStatus(p, j)' \in {"Won", "Void"}
    <3>1. j \in Legs(p)
      BY <1>1 DEF Legs, ParlaysOK, ParlayType
    <3>2. LegStatus(p, j) \in {"Won", "Void"}
      BY <2>1
    <3> QED BY <3>1, <3>2, LegFinal
  <2> QED BY <1>1, <1>2, <1>4, <2>2, <2>3
<1> QED BY <1>3, <1>4

(* A parlay nobody touches stays where it is until its legs decide it.     *)
LEMMA ParlayUntouched ==
    ASSUME ParlaysOK, ParlaysOK', PaidOnce, VerdictsKept, NEW p \in ParlayIds,
           parlays'[p] = parlays[p]
    PROVE  parlayMoves(p)
<1>1. parlays[p].status \in ParlayStatus
  BY DEF ParlaysOK, ParlayType
<1>2. parlays'[p].status \in {"None", "Pending"} => parlays'[p].paid = 0
  BY DEF PaidOnce
<1>3. evaluateParlay(p) \in {"Won", "Lost"} => evaluateParlay(p)' = evaluateParlay(p)
  BY VerdictFinal
<1>4. \/ parlayState(p)' = parlayState(p)
      \/ parlayState(p) = "Staked" /\ parlayState(p)' \in {"Staked", "Won", "Lost"}
  BY <1>1, <1>3, ParlayStates, ParlayStatesNext DEF ParlayStatus
<1>5. ticketMoves(parlayTicket(p), parlayTicket(p)')
  <2> DEFINE a == parlays[p].stake  q == parlays[p].potentialPayout  d == parlays[p].paid
             s == parlayState(p)  v == parlayState(p)'
  <2>1. parlayTicket(p) = ticketOf(s, a, q, d) /\ parlayTicket(p)' = ticketOf(v, a, q, d)
    BY ParlayStates, ParlayStatesNext
  <2>2. v = s \/ (s = "Staked" /\ v \in {"Staked", "Won", "Lost"})
    BY <1>4
  <2> HIDE DEF a, q, d, s, v
  <2>3. ticketMoves(ticketOf(s, a, q, d), ticketOf(v, a, q, d))
    BY <2>2, TicketMoves
  <2> QED BY <2>1, <2>3
<1> QED BY <1>2, <1>5 DEF parlayMoves

(* What every step of the escrow starts from. *)
EscrowReady ==
    /\ CoreInv /\ CoreInv'
    /\ PaidOnce
    /\ VerdictsKept
    /\ minBet # 0

(* Only the ticket that was touched has to be looked at. *)
LEMMA OneBetMoves ==
    ASSUME EscrowReady, NEW b \in BetIds, betMoves(b),
           \A c \in BetIds : c # b => bets'[c] = bets[c],
           UNCHANGED <<parlays, minBet>>
    PROVE  EscrowStep
<1>1. \A c \in BetIds : betMoves(c)
  BY BetUntouched DEF EscrowReady, CoreInv
<1>2. \A p \in ParlayIds : parlayMoves(p)
  BY ParlayUntouched DEF EscrowReady, CoreInv
<1> QED BY <1>1, <1>2 DEF EscrowStep, EscrowReady

LEMMA OneParlayMoves ==
    ASSUME EscrowReady, NEW p \in ParlayIds, parlayMoves(p),
           \A q \in ParlayIds : q # p => parlays'[q] = parlays[q],
           UNCHANGED <<bets, minBet>>
    PROVE  EscrowStep
<1>1. \A b \in BetIds : betMoves(b)
  BY BetUntouched DEF EscrowReady, CoreInv
<1>2. \A q \in ParlayIds : parlayMoves(q)
  BY ParlayUntouched DEF EscrowReady, CoreInv
<1> QED BY <1>1, <1>2 DEF EscrowStep, EscrowReady

LEMMA NoTicketMoves ==
    ASSUME EscrowReady, UNCHANGED <<bets, parlays>>, minBet' # 0
    PROVE  EscrowStep
<1>1. \A b \in BetIds : betMoves(b)
  BY BetUntouched DEF EscrowReady, CoreInv
<1>2. \A q \in ParlayIds : parlayMoves(q)
  BY ParlayUntouched DEF EscrowReady, CoreInv
<1> QED BY <1>1, <1>2 DEF EscrowStep

(* A placed bet is a stake on a market that is open. *)
LEMMA PlaceEscrow ==
    ASSUME EscrowReady, NEW b \in BetIds, NEW m \in Markets, NEW outcome \in Nat,
           NEW amount \in Nat, NEW odds \in Nat, NEW t \in Nat,
           \/ placeBet(b, m, outcome, amount, odds)
           \/ placeBetWithAttestation(b, m, outcome, amount, odds, t)
    PROVE  EscrowStep
<1> DEFINE payout == potentialPayoutOf(amount, odds)
           lock   == probabilityWeightedLock(payout - amount, odds)
<1>1. PICK market \in {markets[m], NewMarket(t)} : executeBet(b, m, market, outcome, amount, odds)
  BY DEF placeBet, placeBetWithAttestation
<1>2. market \in MarketType
  BY <1>1, NewMarketTyped DEF EscrowReady, CoreInv, MarketsOK
<1>3. /\ bets[b].status = "None" /\ market.status = "Open"
      /\ minBet <= amount /\ odds > ODDS_DENOM
      /\ bets' = [bets EXCEPT ![b] =
                    [status |-> "Pending", marketId |-> m, outcome |-> outcome,
                     amount |-> amount, potentialPayout |-> payout,
                     lockedAmount |-> lock, paid |-> 0]]
      /\ markets' = [markets EXCEPT ![m] =
                       [market EXCEPT !.totalBetAmount = market.totalBetAmount + amount]]
      /\ UNCHANGED <<parlays, minBet>>
  BY <1>1 DEF executeBet, adminVars
<1>4. payout \in Nat /\ amount <= payout
  BY <1>3, PayoutBounds
<1>5. minBet \in Nat /\ minBet # 0 /\ bets \in [BetIds -> BetType]
      /\ markets \in [Markets -> MarketType]
  BY DEF EscrowReady, CoreInv, AdminTypeOK, BetsOK, MarketsOK
<1> HIDE DEF payout, lock
<1>6. markets'[m].status = "Open"
  BY <1>2, <1>3, <1>5 DEF MarketType
<1>7. /\ bets'[b].status = "Pending" /\ bets'[b].marketId = m /\ bets'[b].amount = amount
      /\ bets'[b].potentialPayout = payout /\ bets'[b].paid = 0
      /\ \A c \in BetIds : c # b => bets'[c] = bets[c]
  BY <1>3, <1>5
<1>8. betState(b) = "None" /\ betState(b)' = "Staked"
  BY <1>3, <1>6, <1>7, BetStates, BetStatesNext
<1>9. ticketMoves(betTicket(b), betTicket(b)')
  <2> DEFINE x == bets[b].amount  y == bets[b].potentialPayout  z == bets[b].paid
  <2>1. /\ betTicket(b) = ticketOf("None", x, y, z)
        /\ betTicket(b)' = ticketOf("Staked", amount, payout, 0)
    BY <1>7, <1>8, BetStates, BetStatesNext
  <2>2. amount > 0 /\ payout >= amount
    BY <1>3, <1>4, <1>5
  <2> HIDE DEF x, y, z
  <2>3. ticketMoves(ticketOf("None", x, y, z), ticketOf("Staked", amount, payout, 0))
    BY <2>2, TicketMoves
  <2> QED BY <2>1, <2>3
<1>10. betMoves(b)
  BY <1>7, <1>9 DEF betMoves
<1> QED BY <1>3, <1>7, <1>10, OneBetMoves

(* A settlement turns pending tickets into won ones, and leaves the rest of *)
(* its market lost.                                                         *)
LEMMA SettleEscrow ==
    ASSUME EscrowReady, NEW m \in Markets, NEW outcome \in Nat,
           NEW listed \in [BetIds -> 0..MaxListed], settleMarket(m, outcome, listed)
    PROVE  EscrowStep
<1>1. /\ isUnresolved(m) /\ validList(m, listed)
      /\ bets' = [b \in BetIds |-> IF isWinner(listed, b)
                                   THEN [bets[b] EXCEPT !.status = "Won"] ELSE bets[b]]
      /\ UNCHANGED <<parlays, minBet>>
  BY DEF settleMarket, adminVars
<1>2. ASSUME NEW b \in BetIds, isWinner(listed, b) PROVE betMoves(b)
  <2> DEFINE a == bets[b].amount  q == bets[b].potentialPayout
  <2>1. bets[b] \in BetType /\ bets'[b] = [bets[b] EXCEPT !.status = "Won"]
    BY <1>1, <1>2 DEF EscrowReady, CoreInv, BetsOK
  <2>2. /\ bets[b].status = "Pending" /\ bets[b].marketId = m /\ bets[b].paid = 0
    BY <1>1, <1>2 DEF isWinner, validList, EscrowReady, PaidOnce
  <2>3. /\ bets'[b].status = "Won" /\ bets'[b].amount = a
        /\ bets'[b].potentialPayout = q /\ bets'[b].paid = 0
    BY <2>1, <2>2 DEF BetType
  <2>4. betState(b) = "Staked" /\ betState(b)' = "Won"
    BY <1>1, <2>2, <2>3, BetStates, BetStatesNext DEF isUnresolved
  <2>5. betTicket(b) = ticketOf("Staked", a, q, 0) /\ betTicket(b)' = ticketOf("Won", a, q, 0)
    BY <2>2, <2>3, <2>4, BetStates, BetStatesNext
  <2> HIDE DEF a, q
  <2>6. ticketMoves(ticketOf("Staked", a, q, 0), ticketOf("Won", a, q, 0))
    BY TicketMoves
  <2> QED BY <2>3, <2>5, <2>6 DEF betMoves
<1>3. ASSUME NEW b \in BetIds, ~isWinner(listed, b) PROVE betMoves(b)
  <2>1. bets'[b] = bets[b]
    BY <1>1, <1>3
  <2> QED BY <2>1, BetUntouched DEF EscrowReady, CoreInv
<1>4. \A p \in ParlayIds : parlayMoves(p)
  BY <1>1, ParlayUntouched DEF EscrowReady, CoreInv
<1> QED BY <1>1, <1>2, <1>3, <1>4 DEF EscrowStep, EscrowReady

(* A bet paid out once: its stake back, or its winnings. *)
LEMMA PaidBetTicket ==
    ASSUME BetsOK, NEW b \in BetIds, NEW s \in BetStatus, NEW amount \in Nat,
           bets[b].paid = 0,
           bets' = [bets EXCEPT ![b].status = s, ![b].paid = bets[b].paid + amount]
    PROVE  /\ bets'[b].status = s /\ bets'[b].paid = amount
           /\ bets'[b].amount = bets[b].amount
           /\ bets'[b].potentialPayout = bets[b].potentialPayout
           /\ \A c \in BetIds : c # b => bets'[c] = bets[c]
<1> DEFINE half == [bets[b] EXCEPT !.status = s]
           sum  == bets[b].paid + amount
<1>1. bets[b] \in BetType /\ bets \in [BetIds -> BetType]
  BY DEF BetsOK
<1>2. half \in BetType /\ half.status = s
      /\ half.amount = bets[b].amount /\ half.potentialPayout = bets[b].potentialPayout
  BY ONLY <1>1, s \in BetStatus DEF BetType
<1>3. bets'[b] = [half EXCEPT !.paid = sum]
  BY <1>1 DEF BetType
<1>4. \A c \in BetIds : c # b => bets'[c] = bets[c]
  BY <1>1
<1>5. sum = amount
  OBVIOUS
<1> HIDE DEF half, sum
<1>6. /\ bets'[b].status = s /\ bets'[b].paid = sum
      /\ bets'[b].amount = bets[b].amount /\ bets'[b].potentialPayout = bets[b].potentialPayout
  BY ONLY <1>2, <1>3 DEF BetType
<1> QED
  BY <1>4, <1>5, <1>6

LEMMA RefundEscrow ==
    ASSUME EscrowReady, NEW b \in BetIds, voidBet(b) \/ claimRefund(b)
    PROVE  EscrowStep
<1> DEFINE a == bets[b].amount  q == bets[b].potentialPayout
<1>1. /\ bets[b].status = "Pending" /\ markets[bets[b].marketId].status # "Settled"
      /\ bets' = [bets EXCEPT ![b].status = "Cancelled", ![b].paid = bets[b].paid + a]
      /\ UNCHANGED <<parlays, minBet>>
  BY DEF voidBet, claimRefund, isUnresolved, adminVars
<1>2. bets[b].paid = 0 /\ a \in Nat
  BY <1>1, BetNumbers DEF EscrowReady, PaidOnce, CoreInv
<1>3. /\ bets'[b].status = "Cancelled" /\ bets'[b].paid = a
      /\ bets'[b].amount = a /\ bets'[b].potentialPayout = q
      /\ \A c \in BetIds : c # b => bets'[c] = bets[c]
  <2>1. BetsOK /\ "Cancelled" \in BetStatus
    BY DEF EscrowReady, CoreInv, BetStatus
  <2> HIDE DEF a
  <2>2. /\ bets'[b].status = "Cancelled" /\ bets'[b].paid = a
        /\ bets'[b].amount = bets[b].amount /\ bets'[b].potentialPayout = bets[b].potentialPayout
        /\ \A c \in BetIds : c # b => bets'[c] = bets[c]
    BY <1>1, <1>2, <2>1, PaidBetTicket
  <2> QED BY <2>2 DEF a
<1>4. betState(b) = "Staked" /\ betState(b)' = "Refunded"
  BY <1>1, <1>3, BetStates, BetStatesNext
<1>5. betTicket(b) = ticketOf("Staked", a, q, 0) /\ betTicket(b)' = ticketOf("Refunded", a, q, a)
  BY <1>2, <1>3, <1>4, BetStates, BetStatesNext
<1> HIDE DEF a, q
<1>6. ticketMoves(ticketOf("Staked", a, q, 0), ticketOf("Refunded", a, q, a))
  BY TicketMoves
<1>7. betMoves(b)
  BY <1>3, <1>5, <1>6 DEF betMoves
<1> QED BY <1>1, <1>3, <1>7, OneBetMoves

LEMMA ClaimEscrow ==
    ASSUME EscrowReady, NEW b \in BetIds, claimWinnings(b)
    PROVE  EscrowStep
<1> DEFINE a == bets[b].amount  q == bets[b].potentialPayout  w == winningsOf(b)
<1>1. /\ bets[b].status = "Won"
      /\ bets' = [bets EXCEPT ![b].status = "Cashed", ![b].paid = bets[b].paid + w]
      /\ UNCHANGED <<parlays, minBet>>
  BY DEF claimWinnings, adminVars
<1>2. /\ bets[b].paid = 0 /\ a \in Nat /\ q \in Nat /\ q - a \in Nat
      /\ bets[b].marketId \in Markets
  BY <1>1, BetNumbers DEF EscrowReady, PaidOnce, CoreInv, BetsOK, BetType
<1>3. w \in Nat /\ a <= w /\ w <= q
  <2> DEFINE ratio == markets[bets[b].marketId].fillRatioX1000
  <2>1. ratio \in 0..FULL_RATIO
    BY <1>2 DEF EscrowReady, CoreInv, MarketsOK, MarketType
  <2>2. w = a + scaledProfit(ratio, q - a)
    BY DEF winningsOf
  <2> HIDE DEF ratio, a, q, w
  <2>3. scaledProfit(ratio, q - a) \in Nat /\ scaledProfit(ratio, q - a) <= q - a
    BY <1>2, <2>1, ScaledBounds
  <2> QED BY <1>2, <2>2, <2>3
<1> HIDE DEF w
<1>4. /\ bets'[b].status = "Cashed" /\ bets'[b].paid = w
      /\ bets'[b].amount = a /\ bets'[b].potentialPayout = q
      /\ \A c \in BetIds : c # b => bets'[c] = bets[c]
  <2>1. BetsOK /\ "Cashed" \in BetStatus
    BY DEF EscrowReady, CoreInv, BetStatus
  <2> QED BY <1>1, <1>2, <1>3, <2>1, PaidBetTicket
<1>5. betState(b) = "Won" /\ betState(b)' = "Paid"
  BY <1>1, <1>4, BetStates, BetStatesNext
<1>6. betTicket(b) = ticketOf("Won", a, q, 0) /\ betTicket(b)' = ticketOf("Paid", a, q, w)
  BY <1>2, <1>4, <1>5, BetStates, BetStatesNext
<1> HIDE DEF a, q
<1>7. ticketMoves(ticketOf("Won", a, q, 0), ticketOf("Paid", a, q, w))
  BY <1>3, TicketMoves
<1>8. betMoves(b)
  BY <1>4, <1>6, <1>7 DEF betMoves
<1> QED BY <1>1, <1>4, <1>8, OneBetMoves

(* A placed parlay is a stake on legs that are all open. *)
LEMMA PlaceParlayEscrow ==
    ASSUME EscrowReady, NEW p \in ParlayIds, NEW legs \in LegLists,
           NEW os \in OutcomeLists(Len(legs)), NEW stake \in Nat, NEW odds \in Nat,
           NEW t \in Nat,
           \/ placeParlayBet(p, legs, os, stake, odds)
           \/ placeParlayBetWithAttestations(p, legs, os, stake, odds, t)
    PROVE  EscrowStep
<1> DEFINE absent == {m \in Markets : /\ markets[m].status = "None"
                                      /\ \E i \in 1..Len(legs) : legs[i] = m}
           new == [m \in Markets |-> IF m \in absent THEN NewMarket(t) ELSE markets[m]]
           payout == potentialPayoutOf(stake, odds)
<1>1. PICK registered \in {markets, new} : executeParlayBet(p, registered, legs, os, stake, odds)
  BY DEF placeParlayBet, placeParlayBetWithAttestations
<1> HIDE DEF absent, new
<1>2. /\ parlays[p].status = "None"
      /\ minBet <= stake /\ odds > ODDS_DENOM
      /\ MIN_PARLAY_LEGS <= Len(legs)
      /\ \A i \in 1..Len(legs) : registered[legs[i]].status = "Open"
      /\ parlays' = [parlays EXCEPT ![p] =
                       [status |-> "Pending", marketIds |-> legs, outcomes |-> os,
                        stake |-> stake, potentialPayout |-> payout, paid |-> 0]]
      /\ markets' = registered
      /\ UNCHANGED <<bets, minBet>>
  BY <1>1 DEF executeParlayBet, validParlayLegs, adminVars
<1>3. payout \in Nat /\ stake <= payout
  BY <1>2, PayoutBounds
<1>4. minBet \in Nat /\ minBet # 0 /\ parlays \in [ParlayIds -> ParlayType] /\ ParlaysOK'
  BY DEF EscrowReady, CoreInv, AdminTypeOK, ParlaysOK
<1> HIDE DEF payout
<1>5. /\ parlays'[p].status = "Pending" /\ parlays'[p].stake = stake
      /\ parlays'[p].marketIds = legs
      /\ parlays'[p].potentialPayout = payout /\ parlays'[p].paid = 0
      /\ \A q \in ParlayIds : q # p => parlays'[q] = parlays[q]
  BY <1>2, <1>4
<1>6. evaluateParlay(p)' \notin {"Won", "Lost"}
  <2>1. Legs(p)' = 1..Len(legs)
    BY <1>5 DEF Legs
  <2>2. 1 \in Legs(p)'
    <3>1. legs \in Seq(Markets)
      BY LegsTyped
    <3>2. Len(legs) \in Nat /\ Len(legs) >= 1
      BY <1>2, <3>1, CoreAssumption
    <3> QED BY <2>1, <3>2
  <2>3. ASSUME NEW i \in Legs(p)' PROVE LegStatus(p, i)' = "Pending"
    <3>1. markets'[parlays'[p].marketIds[i]].status = "Open"
      BY <1>2, <1>5, <2>1
    <3> QED BY <3>1 DEF LegStatus
  <2> QED BY <1>4, <2>2, <2>3, VerdictIsNext
<1>7. parlayState(p) = "None" /\ parlayState(p)' = "Staked"
  BY <1>2, <1>5, <1>6, ParlayStates, ParlayStatesNext
<1>8. ticketMoves(parlayTicket(p), parlayTicket(p)')
  <2> DEFINE x == parlays[p].stake  y == parlays[p].potentialPayout  z == parlays[p].paid
  <2>1. /\ parlayTicket(p) = ticketOf("None", x, y, z)
        /\ parlayTicket(p)' = ticketOf("Staked", stake, payout, 0)
    BY <1>5, <1>7, ParlayStates, ParlayStatesNext
  <2>2. stake > 0 /\ payout >= stake
    BY <1>2, <1>3, <1>4
  <2> HIDE DEF x, y, z
  <2>3. ticketMoves(ticketOf("None", x, y, z), ticketOf("Staked", stake, payout, 0))
    BY <2>2, TicketMoves
  <2> QED BY <2>1, <2>3
<1>9. parlayMoves(p)
  BY <1>5, <1>8 DEF parlayMoves
<1> QED BY <1>2, <1>5, <1>9, OneParlayMoves

(* A parlay closed once, with or without a payment. *)
LEMMA ClosedParlayTicket ==
    ASSUME ParlaysOK, NEW p \in ParlayIds, NEW s \in ParlayStatus, NEW amount \in Nat,
           parlays[p].paid = 0,
           \/ parlays' = [parlays EXCEPT ![p].status = s, ![p].paid = parlays[p].paid + amount]
           \/ amount = 0 /\ parlays' = [parlays EXCEPT ![p].status = s]
    PROVE  /\ parlays'[p].status = s /\ parlays'[p].paid = amount
           /\ parlays'[p].stake = parlays[p].stake
           /\ parlays'[p].potentialPayout = parlays[p].potentialPayout
           /\ \A q \in ParlayIds : q # p => parlays'[q] = parlays[q]
<1> DEFINE half == [parlays[p] EXCEPT !.status = s]
           sum  == parlays[p].paid + amount
<1>1. parlays[p] \in ParlayType /\ parlays \in [ParlayIds -> ParlayType]
  BY DEF ParlaysOK
<1>2. half \in ParlayType /\ half.status = s /\ half.paid = parlays[p].paid
      /\ half.stake = parlays[p].stake /\ half.potentialPayout = parlays[p].potentialPayout
  BY ONLY <1>1, s \in ParlayStatus DEF ParlayType
<1>3. (amount = 0 /\ parlays'[p] = half) \/ parlays'[p] = [half EXCEPT !.paid = sum]
  BY <1>1 DEF ParlayType
<1>4. \A q \in ParlayIds : q # p => parlays'[q] = parlays[q]
  BY <1>1
<1>5. sum = amount
  OBVIOUS
<1> HIDE DEF half, sum
<1>6. /\ parlays'[p].status = s
      /\ parlays'[p].stake = parlays[p].stake
      /\ parlays'[p].potentialPayout = parlays[p].potentialPayout
  BY ONLY <1>2, <1>3 DEF ParlayType
<1>7. parlays'[p].paid = amount
  BY <1>2, <1>3, <1>5 DEF ParlayType
<1> QED
  BY <1>4, <1>6, <1>7

LEMMA ParlayRefundEscrow ==
    ASSUME EscrowReady, NEW p \in ParlayIds, claimParlayRefund(p)
    PROVE  EscrowStep
<1> DEFINE a == parlays[p].stake  q == parlays[p].potentialPayout
<1>1. /\ parlays[p].status = "Pending" /\ evaluateParlay(p) = "Void"
      /\ parlays' = [parlays EXCEPT ![p].status = "Cancelled", ![p].paid = parlays[p].paid + a]
      /\ UNCHANGED <<bets, minBet>>
  BY DEF claimParlayRefund, adminVars
<1>2. parlays[p].paid = 0 /\ a \in Nat
  BY <1>1, ParlayNumbers DEF EscrowReady, PaidOnce, CoreInv
<1>3. /\ parlays'[p].status = "Cancelled" /\ parlays'[p].paid = a
      /\ parlays'[p].stake = a /\ parlays'[p].potentialPayout = q
      /\ \A r \in ParlayIds : r # p => parlays'[r] = parlays[r]
  <2>1. ParlaysOK /\ "Cancelled" \in ParlayStatus
    BY DEF EscrowReady, CoreInv, ParlayStatus
  <2> QED BY <1>1, <1>2, <2>1, ClosedParlayTicket
<1>4. parlayState(p) = "Staked" /\ parlayState(p)' = "Refunded"
  BY <1>1, <1>3, ParlayStates, ParlayStatesNext
<1>5. parlayTicket(p) = ticketOf("Staked", a, q, 0) /\ parlayTicket(p)' = ticketOf("Refunded", a, q, a)
  BY <1>2, <1>3, <1>4, ParlayStates, ParlayStatesNext
<1> HIDE DEF a, q
<1>6. ticketMoves(ticketOf("Staked", a, q, 0), ticketOf("Refunded", a, q, a))
  BY TicketMoves
<1>7. parlayMoves(p)
  BY <1>3, <1>5, <1>6 DEF parlayMoves
<1> QED BY <1>1, <1>3, <1>7, OneParlayMoves

LEMMA ParlayClaimEscrow ==
    ASSUME EscrowReady, NEW p \in ParlayIds, claimParlayWinnings(p)
    PROVE  EscrowStep
<1> DEFINE a == parlays[p].stake  q == parlays[p].potentialPayout  w == parlayPayout(p)
<1>1. /\ parlays[p].status = "Pending" /\ evaluateParlay(p) = "Won"
      /\ parlays' = [parlays EXCEPT ![p].status = "Won", ![p].paid = parlays[p].paid + w]
      /\ UNCHANGED <<bets, minBet>>
  BY DEF claimParlayWinnings, adminVars
<1>2. /\ parlays[p].paid = 0 /\ a \in Nat /\ q - a \in Nat /\ q \in Nat
  BY <1>1, ParlayNumbers DEF EscrowReady, PaidOnce, CoreInv, ParlaysOK, ParlayType
<1>3. w \in Nat /\ a <= w /\ w <= q
  <2> DEFINE free == availableFor(ParlayKey(p))
  <2>1. free \in Nat
    BY ParlayKeys, AvailableBounds DEF EscrowReady
  <2>2. w = a + Least(q - a, free)
    BY DEF parlayPayout
  <2> HIDE DEF free, a, q, w
  <2> QED BY <1>2, <2>1, <2>2 DEF Least
<1> HIDE DEF w
<1>4. /\ parlays'[p].status = "Won" /\ parlays'[p].paid = w
      /\ parlays'[p].stake = a /\ parlays'[p].potentialPayout = q
      /\ \A r \in ParlayIds : r # p => parlays'[r] = parlays[r]
  <2>1. ParlaysOK /\ "Won" \in ParlayStatus
    BY DEF EscrowReady, CoreInv, ParlayStatus
  <2> QED BY <1>1, <1>2, <1>3, <2>1, ClosedParlayTicket
<1>5. parlayState(p) = "Won" /\ parlayState(p)' = "Paid"
  BY <1>1, <1>4, ParlayStates, ParlayStatesNext
<1>6. parlayTicket(p) = ticketOf("Won", a, q, 0) /\ parlayTicket(p)' = ticketOf("Paid", a, q, w)
  BY <1>2, <1>4, <1>5, ParlayStates, ParlayStatesNext
<1> HIDE DEF a, q
<1>7. ticketMoves(ticketOf("Won", a, q, 0), ticketOf("Paid", a, q, w))
  BY <1>3, TicketMoves
<1>8. parlayMoves(p)
  BY <1>4, <1>6, <1>7 DEF parlayMoves
<1> QED BY <1>1, <1>4, <1>8, OneParlayMoves

(* Reporting a loss changes nothing for the ticket: it was lost already.   *)
LEMMA ParlayLossEscrow ==
    ASSUME EscrowReady, NEW p \in ParlayIds, reportParlayLoss(p)
    PROVE  EscrowStep
<1> DEFINE a == parlays[p].stake  q == parlays[p].potentialPayout
<1>1. /\ parlays[p].status = "Pending" /\ evaluateParlay(p) = "Lost"
      /\ parlays' = [parlays EXCEPT ![p].status = "Lost"]
      /\ UNCHANGED <<bets, minBet>>
  BY DEF reportParlayLoss, adminVars
<1>2. parlays[p].paid = 0
  BY <1>1 DEF EscrowReady, PaidOnce
<1>3. /\ parlays'[p].status = "Lost" /\ parlays'[p].paid = 0
      /\ parlays'[p].stake = a /\ parlays'[p].potentialPayout = q
      /\ \A r \in ParlayIds : r # p => parlays'[r] = parlays[r]
  <2>1. ParlaysOK /\ "Lost" \in ParlayStatus /\ 0 \in Nat
    BY DEF EscrowReady, CoreInv, ParlayStatus
  <2> QED BY <1>1, <1>2, <2>1, ClosedParlayTicket
<1>4. parlayState(p) = "Lost" /\ parlayState(p)' = "Lost"
  BY <1>1, <1>3, ParlayStates, ParlayStatesNext
<1>5. parlayTicket(p) = ticketOf("Lost", a, q, 0) /\ parlayTicket(p)' = ticketOf("Lost", a, q, 0)
  BY <1>2, <1>3, <1>4, ParlayStates, ParlayStatesNext
<1> HIDE DEF a, q
<1>6. ticketMoves(ticketOf("Lost", a, q, 0), ticketOf("Lost", a, q, 0))
  BY TicketMoves
<1>7. parlayMoves(p)
  BY <1>3, <1>5, <1>6 DEF parlayMoves
<1> QED BY <1>1, <1>3, <1>7, OneParlayMoves

LEMMA EscrowMoves ==
    ASSUME LedgerInv, PaidOnce, minBet # 0, Next
    PROVE  EscrowStep
<1> USE CoreAssumption
<1>0. EscrowReady
  BY CoreStep, CoreLedgerStep, LedgerKeepsVerdicts DEF LedgerInv, EscrowReady
<1>1. CASE PoolOnlyNext /\ UNCHANGED coreVars
  BY <1>0, <1>1, NoTicketMoves DEF coreVars, adminVars
<1>2. CASE \/ \E m \in Markets, t \in ClosingTimes : createMarket(m, t)
           \/ \E m \in Markets : suspendMarket(m) \/ resumeMarket(m) \/ cancelMarket(m)
  BY <1>0, <1>2, NoTicketMoves
     DEF createMarket, suspendMarket, resumeMarket, cancelMarket, adminVars
<1>3. CASE \E b \in BetIds, m \in Markets, o \in Outcomes, a \in Stakes, x \in Odds :
              placeBet(b, m, o, a, x)
  <2>1. PICK b \in BetIds, m \in Markets, o \in Outcomes, a \in Stakes, x \in Odds :
            placeBet(b, m, o, a, x)
    BY <1>3
  <2>2. o \in Nat /\ a \in Nat /\ x \in Nat /\ 0 \in Nat
    OBVIOUS
  <2> QED
    BY <1>0, <2>1, <2>2, PlaceEscrow
<1>4. CASE \E b \in BetIds, m \in Markets, o \in Outcomes, a \in Stakes, x \in Odds,
             t \in ClosingTimes : placeBetWithAttestation(b, m, o, a, x, t)
  <2>1. PICK b \in BetIds, m \in Markets, o \in Outcomes, a \in Stakes, x \in Odds,
             t \in ClosingTimes : placeBetWithAttestation(b, m, o, a, x, t)
    BY <1>4
  <2>2. o \in Nat /\ a \in Nat /\ x \in Nat /\ t \in Nat
    OBVIOUS
  <2> QED
    BY <1>0, <2>1, <2>2, PlaceEscrow
<1>5. CASE \E m \in Markets, o \in Outcomes, listed \in [BetIds -> 0..MaxListed] :
              settleMarket(m, o, listed)
  BY <1>0, <1>5, SettleEscrow
<1>6. CASE \E b \in BetIds : voidBet(b) \/ claimWinnings(b) \/ claimRefund(b)
  BY <1>0, <1>6, RefundEscrow, ClaimEscrow
<1>7. CASE \E p \in ParlayIds, legs \in LegLists, a \in Stakes, x \in ParlayOdds :
              \E os \in OutcomeLists(Len(legs)) : placeParlayBet(p, legs, os, a, x)
  <2>1. PICK p \in ParlayIds, legs \in LegLists, a \in Stakes, x \in ParlayOdds :
            \E os \in OutcomeLists(Len(legs)) : placeParlayBet(p, legs, os, a, x)
    BY <1>7
  <2>2. a \in Nat /\ x \in Nat /\ 0 \in Nat
    OBVIOUS
  <2> QED
    BY <1>0, <2>1, <2>2, PlaceParlayEscrow
<1>8. CASE \E p \in ParlayIds, legs \in LegLists, a \in Stakes, x \in ParlayOdds,
             t \in ClosingTimes : \E os \in OutcomeLists(Len(legs)) :
                 placeParlayBetWithAttestations(p, legs, os, a, x, t)
  <2>1. PICK p \in ParlayIds, legs \in LegLists, a \in Stakes, x \in ParlayOdds,
             t \in ClosingTimes : \E os \in OutcomeLists(Len(legs)) :
                 placeParlayBetWithAttestations(p, legs, os, a, x, t)
    BY <1>8
  <2>2. a \in Nat /\ x \in Nat /\ t \in Nat
    OBVIOUS
  <2> QED
    BY <1>0, <2>1, <2>2, PlaceParlayEscrow
<1>9. CASE \E p \in ParlayIds : claimParlayWinnings(p) \/ claimParlayRefund(p)
                                \/ reportParlayLoss(p)
  BY <1>0, <1>9, ParlayClaimEscrow, ParlayRefundEscrow, ParlayLossEscrow
<1>10. CASE \/ \E v \in PauseChoices : setPaused(v)
            \/ \E e \in EdgeChoices : setHouseEdge(e)
            \/ \E x \in MultiplierChoices : setProbabilitySafetyMultiplier(x)
            \/ \E l \in LimitChoices : setBetLimits(l[1], l[2])
  <2>1. UNCHANGED <<bets, parlays>>
    BY <1>10 DEF setPaused, setHouseEdge, setProbabilitySafetyMultiplier, setBetLimits
  <2>2. minBet' # 0
    BY <1>10 DEF setPaused, setHouseEdge, setProbabilitySafetyMultiplier, setBetLimits
  <2> QED BY <1>0, <2>1, <2>2, NoTicketMoves
<1> QED
  BY <1>1, <1>2, <1>3, <1>4, <1>5, <1>6, <1>7, <1>8, <1>9, <1>10 DEF Next

LEMMA EscrowStutters ==
    ASSUME LedgerInv, PaidOnce, minBet # 0, UNCHANGED vars
    PROVE  EscrowStep
<1>1. CoreInv'
  BY CoreStutter DEF LedgerInv
<1>2. VerdictsKept
  BY DEF VerdictsKept, vars, coreVars
<1>3. UNCHANGED <<bets, parlays, minBet>>
  BY DEF vars, coreVars, adminVars
<1> QED BY <1>1, <1>2, <1>3, NoTicketMoves DEF EscrowReady, LedgerInv

(* Every behaviour of BettingCore keeps the bettor's escrow: a stake is     *)
(* resolved once and paid at most once, a refund is the stake, and a win is *)
(* between the stake and the quote, for any number of bets, parlays and     *)
(* markets and whatever order their transactions come in.                   *)
THEOREM CoreKeepsEscrow == Spec => EscrowSpec
<1> DEFINE tickets == [i \in Tickets |-> IF i <= MaxBets THEN betTicket(i)
                                                       ELSE parlayTicket(i - MaxBets)]
<1>1. Init => Escrow!Init /\ EscrowInv
  <2> SUFFICES ASSUME Init PROVE Escrow!Init /\ EscrowInv
    OBVIOUS
  <2>1. /\ \A b \in BetIds : bets[b].status = "None" /\ bets[b].amount = 0
                            /\ bets[b].potentialPayout = 0 /\ bets[b].paid = 0
        /\ \A p \in ParlayIds : parlays[p].status = "None" /\ parlays[p].stake = 0
                               /\ parlays[p].potentialPayout = 0 /\ parlays[p].paid = 0
    BY DEF Init, NoBet, NoParlay
  <2>2. \A i \in Tickets : tickets[i] = ticketOf("None", 0, 0, 0)
    <3> SUFFICES ASSUME NEW i \in Tickets PROVE tickets[i] = ticketOf("None", 0, 0, 0)
      OBVIOUS
    <3>1. CASE i <= MaxBets
      <4>1. i \in BetIds
        BY <3>1 DEF Tickets, BetIds
      <4> QED BY <2>1, <3>1, <4>1, BetStates
    <3>2. CASE ~(i <= MaxBets)
      <4>1. i - MaxBets \in ParlayIds
        BY <3>2, CoreAssumption DEF Tickets, ParlayIds
      <4> QED BY <2>1, <3>2, <4>1, ParlayStates
    <3> QED BY <3>1, <3>2
  <2>3. tickets = [i \in Tickets |-> ticketOf("None", 0, 0, 0)]
    BY <2>2
  <2>4. Escrow!Init
    BY <2>3 DEF Escrow!Init, ticketOf
  <2>5. EscrowInv
    BY <2>1, CoreAssumption DEF EscrowInv, PaidOnce, Init
  <2> QED BY <2>4, <2>5
<1>2. LedgerInv /\ EscrowInv /\ [Next]_vars => EscrowStep
  BY EscrowMoves, EscrowStutters DEF EscrowInv
<1>3. EscrowStep => EscrowInv'
  BY DEF EscrowInv, EscrowStep, betMoves, parlayMoves, PaidOnce
<1>4. EscrowStep => [Escrow!Next]_tickets
  <2> SUFFICES ASSUME EscrowStep PROVE Escrow!Next
    OBVIOUS
  <2>1. ASSUME NEW i \in Tickets PROVE ticketMoves(tickets[i], tickets'[i])
    <3>1. CASE i <= MaxBets
      <4>1. i \in BetIds
        BY <3>1 DEF Tickets, BetIds
      <4>2. tickets[i] = betTicket(i) /\ tickets'[i] = betTicket(i)'
        BY <3>1
      <4> QED BY <4>1, <4>2 DEF EscrowStep, betMoves
    <3>2. CASE ~(i <= MaxBets)
      <4>1. i - MaxBets \in ParlayIds
        BY <3>2, CoreAssumption DEF Tickets, ParlayIds
      <4>2. tickets[i] = parlayTicket(i - MaxBets) /\ tickets'[i] = parlayTicket(i - MaxBets)'
        BY <3>2
      <4> QED BY <4>1, <4>2 DEF EscrowStep, parlayMoves
    <3> QED BY <3>1, <3>2
  <2> QED BY <2>1 DEF Escrow!Next, ticketMoves
<1>5. BookInv /\ OutcomesUnset => LedgerInv
  BY DEF BookInv, LedgerInv
<1> QED
  BY <1>1, <1>2, <1>3, <1>4, <1>5, BooksInvariant, OutcomesInvariant, PTL
     DEF Spec, EscrowSpec, Escrow!Spec
=============================================================================
