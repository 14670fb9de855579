------------------------- MODULE BettingCoreProofs -------------------------
(***************************************************************************)
(* Type correctness of BettingCore and the integrity of the pool under it, *)
(* for any number of markets, bets, parlays, LPs, odds and amounts.  First  *)
(* what each transaction of LiquidityPool does to the pool's own invariant  *)
(* (the hooks BettingCore calls take their arguments' types as hypotheses,  *)
(* discharged call by call further down), then the core's transactions.    *)
(***************************************************************************)
EXTENDS BettingCore, SumsProofs, SequenceTheorems

-----------------------------------------------------------------------------
(* The pool *)

(* The pool's inductive invariant: its types, the backing of the priced    *)
(* liquidity, and the two totals it keeps by hand.                         *)
PoolInv ==
    /\ PoolTypeOK
    /\ PoolBacked
    /\ PoolTotals

-----------------------------------------------------------------------------
(* Arithmetic of the contract's rounding *)

LEMMA MonusNat ==
    ASSUME NEW a \in Int, NEW b \in Int, a >= 0, b >= 0
    PROVE  /\ Monus(a, b) \in Nat
           /\ Monus(a, b) <= a
           /\ Monus(a, b) >= a - b
BY DEF Monus

-----------------------------------------------------------------------------
(* The sums of the buckets and of the shares *)

(* One bucket, or one LP's shares, changed. *)
LEMMA SumSet ==
    ASSUME NEW n \in Nat, NEW f \in [1..n -> Nat], NEW g \in [1..n -> Nat],
           NEW j \in 1..n, \A i \in 1..n : i # j => f[i] = g[i]
    PROVE  SumTo(g, n) = SumTo(f, n) + (g[j] - f[j])
<1>1. \A i \in 1..n : f[i] \in Int /\ g[i] \in Int
  OBVIOUS
<1> QED
  BY <1>1, SumUpdate

-----------------------------------------------------------------------------
(* BettingCore's hooks *)

LEMMA LockKeepsPool ==
    ASSUME PoolInv, NEW k \in Keys, NEW amount \in Nat, lockLiquidity(k, amount)
    PROVE  PoolInv'
<1> USE PoolAssumption DEF PoolInv
<1>1. marketLocked[k] \in Nat /\ marketLocked[k] + amount \in Nat
  BY DEF PoolTypeOK
<1>2. marketLocked' = [marketLocked EXCEPT ![k] = marketLocked[k] + amount]
  BY DEF lockLiquidity
<1>3. SumTo(marketLocked', NumKeys)
        = SumTo(marketLocked, NumKeys) + (marketLocked'[k] - marketLocked[k])
  <2>1. /\ marketLocked \in [1..NumKeys -> Nat] /\ marketLocked' \in [1..NumKeys -> Nat]
        /\ \A i \in 1..NumKeys : i # k => marketLocked[i] = marketLocked'[i]
    BY <1>1, <1>2 DEF PoolTypeOK, Keys
  <2> QED
    BY <2>1, SumSet DEF Keys
<1>4. lockedForPayouts' = SumTo(marketLocked', NumKeys)
  BY <1>1, <1>2, <1>3 DEF PoolTypeOK, PoolTotals, lockLiquidity
<1>5. PoolTypeOK'
  BY <1>1, <1>2 DEF PoolTypeOK, lockLiquidity, lpVars
<1> QED
  BY <1>4, <1>5 DEF PoolBacked, PoolTotals, lockLiquidity, lpVars

LEMMA UnlockKeepsPool ==
    ASSUME PoolInv, NEW k \in Keys, NEW amount \in Nat, unlockLiquidity(k, amount)
    PROVE  PoolInv'
<1> USE PoolAssumption DEF PoolInv
<1>1. marketLocked[k] \in Nat /\ marketLocked[k] - amount \in Nat
  BY DEF PoolTypeOK, unlockLiquidity
<1>2. marketLocked' = [marketLocked EXCEPT ![k] = marketLocked[k] - amount]
  BY DEF unlockLiquidity
<1>3. SumTo(marketLocked', NumKeys)
        = SumTo(marketLocked, NumKeys) + (marketLocked'[k] - marketLocked[k])
  <2>1. /\ marketLocked \in [1..NumKeys -> Nat] /\ marketLocked' \in [1..NumKeys -> Nat]
        /\ \A i \in 1..NumKeys : i # k => marketLocked[i] = marketLocked'[i]
    BY <1>1, <1>2 DEF PoolTypeOK, Keys
  <2> QED
    BY <2>1, SumSet DEF Keys
<1>4. lockedForPayouts' = SumTo(marketLocked', NumKeys)
  BY <1>1, <1>2, <1>3 DEF PoolTypeOK, PoolTotals, unlockLiquidity
<1>5. PoolTypeOK'
  BY <1>1, <1>2 DEF PoolTypeOK, unlockLiquidity, lpVars
<1> QED
  BY <1>4, <1>5 DEF PoolBacked, PoolTotals, unlockLiquidity, lpVars

LEMMA ReportKeepsPool ==
    ASSUME PoolInv, NEW k \in Keys, NEW totalBet \in Nat, NEW payout \in Int,
           NEW pushed \in Nat, reportMarketResult(k, totalBet, payout, pushed)
    PROVE  PoolInv'
<1> USE PoolAssumption DEF PoolInv, lpVars
<1> DEFINE deficit == payout - totalBet
           balance == poolUsdc + pushed
<1>1. marketLocked' = [marketLocked EXCEPT ![k] = 0]
  BY DEF reportMarketResult
<1>2. marketLocked[k] \in Nat
  BY DEF PoolTypeOK
<1>3. SumTo(marketLocked', NumKeys)
        = SumTo(marketLocked, NumKeys) + (marketLocked'[k] - marketLocked[k])
  <2>1. /\ marketLocked \in [1..NumKeys -> Nat] /\ marketLocked' \in [1..NumKeys -> Nat]
        /\ \A i \in 1..NumKeys : i # k => marketLocked[i] = marketLocked'[i]
    BY <1>1, <1>2 DEF PoolTypeOK, Keys
  <2> QED
    BY <2>1, SumSet DEF Keys
<1>4. lockedForPayouts' = SumTo(marketLocked', NumKeys)
  BY <1>1, <1>2, <1>3 DEF PoolTypeOK, PoolTotals, reportMarketResult
<1>5. lockedForPayouts' \in Nat /\ marketLocked' \in [Keys -> Nat]
  BY <1>1, <1>2 DEF PoolTypeOK, reportMarketResult
<1>6. poolUsdc' \in Nat /\ totalLiquidity' \in Nat /\ totalLiquidity' <= poolUsdc'
  <2>1. CASE deficit > 0
    BY <2>1 DEF reportMarketResult, PoolTypeOK, PoolBacked, Monus
  <2>2. CASE ~(deficit > 0)
    BY <2>2 DEF reportMarketResult, PoolTypeOK, PoolBacked
  <2> QED
    BY <2>1, <2>2
<1>7. UNCHANGED <<now, virtualLiquidity, lpVars>>
  BY DEF reportMarketResult
<1>8. PoolTypeOK'
  BY <1>5, <1>6, <1>7 DEF PoolTypeOK
<1> QED
  BY <1>4, <1>6, <1>7, <1>8 DEF PoolBacked, PoolTotals

-----------------------------------------------------------------------------
(* LP entry and exit *)

minted(amount) ==
    IF totalShares = 0 THEN amount ELSE (amount * totalShares) \div totalLiquidity

LEMMA MintedNat ==
    ASSUME PoolInv, NEW amount \in Nat, totalShares # 0 => totalLiquidity # 0
    PROVE  /\ minted(amount) \in Nat
           /\ totalShares # 0 => minted(amount) * totalLiquidity <= amount * totalShares
<1> USE DEF minted, PoolInv, PoolTypeOK
<1>1. CASE totalShares = 0
  BY <1>1
<1>2. CASE totalShares # 0
  <2>1. amount * totalShares \in Nat /\ totalLiquidity \in Nat \ {0}
    BY <1>2, ProductNat
  <2> QED
    BY <1>2, <2>1, QuotientNat, QuotientBound
<1> QED
  BY <1>1, <1>2

LEMMA DepositKeepsPool ==
    ASSUME PoolInv, NEW lp \in LPs, NEW amount \in Nat, deposit(lp, amount)
    PROVE  PoolInv'
<1> USE PoolAssumption DEF PoolInv
<1>1. minted(amount) \in Nat
  BY MintedNat DEF deposit
<1>2. /\ shares' = [shares EXCEPT ![lp] = shares[lp] + minted(amount)]
      /\ totalShares' = totalShares + minted(amount)
  BY DEF deposit, minted
<1>3. shares[lp] \in Nat
  BY DEF PoolTypeOK
<1>4. SumTo(shares', NumLPs) = SumTo(shares, NumLPs) + (shares'[lp] - shares[lp])
  <2>1. /\ shares \in [1..NumLPs -> Nat] /\ shares' \in [1..NumLPs -> Nat]
        /\ \A i \in 1..NumLPs : i # lp => shares[i] = shares'[i]
    BY <1>1, <1>2, <1>3 DEF PoolTypeOK, LPs
  <2> QED
    BY <2>1, SumSet DEF LPs
<1>5. totalShares' = SumTo(shares', NumLPs)
  BY <1>1, <1>2, <1>3, <1>4 DEF PoolTypeOK, PoolTotals
<1>6. PoolTypeOK'
  BY <1>1, <1>2, <1>3 DEF PoolTypeOK, deposit, lockVars
<1>7. PoolBacked'
  <2>1. totalLiquidity' = totalLiquidity + amount /\ poolUsdc' = poolUsdc + amount
    BY DEF deposit
  <2> QED
    BY <2>1 DEF PoolBacked, PoolTypeOK
<1>8. UNCHANGED lockVars
  BY DEF deposit
<1> QED
  BY <1>5, <1>6, <1>7, <1>8 DEF PoolTotals, lockVars

(* A share is redeemed at no more than its part of the liquidity: both of  *)
(* the redemption's divisions round down.                                  *)
LEMMA Redeemed ==
    ASSUME PoolInv, NEW lp \in LPs, totalShares # 0
    PROVE  /\ withdrawalOf(lp) \in Nat
           /\ withdrawalOf(lp) * totalShares <= shares[lp] * totalLiquidity
<1> USE PoolAssumption DEF PoolInv, PoolTypeOK
<1> DEFINE value == getShareValue
           S == totalShares
           L == totalLiquidity
           s == shares[lp]
           w == withdrawalOf(lp)
<1>1. S \in Nat \ {0} /\ L \in Nat /\ s \in Nat /\ SHARE_SCALE \in Nat \ {0}
  OBVIOUS
<1>2. value = (L * SHARE_SCALE) \div S
  BY DEF getShareValue
<1>3. value \in Nat /\ value * S <= L * SHARE_SCALE
  BY <1>1, <1>2, ProductNat, QuotientNat, QuotientBound
<1>4. w = (s * value) \div SHARE_SCALE
  BY DEF withdrawalOf
<1> HIDE DEF value, w
<1>5. w \in Nat /\ w * SHARE_SCALE <= s * value
  BY <1>1, <1>3, <1>4, ProductNat, QuotientNat, QuotientBound
<1> HIDE DEF S, L, s
<1>6. (w * SHARE_SCALE) * S <= (s * value) * S
  BY <1>1, <1>3, <1>5, ProductNat, ProductMonotone
<1>7. (s * value) * S = (value * S) * s /\ (w * SHARE_SCALE) * S = (w * S) * SHARE_SCALE
  BY <1>1, <1>3, <1>5
<1>8. (value * S) * s <= (L * SHARE_SCALE) * s
  BY <1>1, <1>3, ProductNat, ProductMonotone
<1>9. (L * SHARE_SCALE) * s = (s * L) * SHARE_SCALE
  BY <1>1
<1>10. w * S \in Nat /\ s * L \in Nat
  BY <1>1, <1>5, ProductNat
<1>11. (w * S) * SHARE_SCALE <= (s * L) * SHARE_SCALE
  <2> DEFINE a == (w * SHARE_SCALE) * S
             b == (value * S) * s
             c == (s * L) * SHARE_SCALE
  <2>1. a \in Nat /\ b \in Nat /\ c \in Nat
    BY <1>1, <1>3, <1>5, ProductNat
  <2>2. a <= b /\ b <= c
    BY <1>6, <1>7, <1>8, <1>9
  <2>3. a = (w * S) * SHARE_SCALE
    BY <1>7
  <2> HIDE DEF a, b, c
  <2>4. a <= c
    BY <2>1, <2>2
  <2> QED
    BY <2>3, <2>4 DEF c
<1>12. w * S <= s * L
  <2> DEFINE a == w * S
             b == s * L
  <2>1. a \in Nat /\ b \in Nat /\ a * SHARE_SCALE <= b * SHARE_SCALE
    BY <1>10, <1>11
  <2> HIDE DEF a, b
  <2>2. a <= b
    BY <1>1, <2>1
  <2> QED
    BY <2>2 DEF a, b
<1> QED
  BY <1>5, <1>12 DEF w, S, L, s

LEMMA WithdrawalKeepsPool ==
    ASSUME PoolInv, NEW lp \in LPs, executeWithdrawal(lp)
    PROVE  PoolInv'
<1> USE PoolAssumption DEF PoolInv
<1>1. shares[lp] \in Nat /\ shares[lp] # 0 /\ shares[lp] <= totalShares
  BY DEF PoolTypeOK, executeWithdrawal
<1>2. totalShares # 0
  BY <1>1 DEF PoolTypeOK
<1>3. withdrawalOf(lp) \in Nat
  BY <1>2, Redeemed
<1>4. shares' = [shares EXCEPT ![lp] = 0] /\ totalShares' = totalShares - shares[lp]
  BY DEF executeWithdrawal
<1>5. SumTo(shares', NumLPs) = SumTo(shares, NumLPs) + (shares'[lp] - shares[lp])
  <2>1. /\ shares \in [1..NumLPs -> Nat] /\ shares' \in [1..NumLPs -> Nat]
        /\ \A i \in 1..NumLPs : i # lp => shares[i] = shares'[i]
    BY <1>4 DEF PoolTypeOK, LPs
  <2> QED
    BY <2>1, SumSet DEF LPs
<1>6. totalShares' = SumTo(shares', NumLPs)
  BY <1>1, <1>4, <1>5 DEF PoolTypeOK, PoolTotals
<1>7. /\ poolUsdc' = poolUsdc - withdrawalOf(lp)
      /\ totalLiquidity' = Monus(totalLiquidity, withdrawalOf(lp))
      /\ withdrawalOf(lp) <= totalLiquidity - lockedForPayouts
      /\ withdrawalOf(lp) <= poolUsdc
  BY DEF executeWithdrawal
<1>8. poolUsdc' \in Nat /\ totalLiquidity' \in Nat /\ totalLiquidity' <= poolUsdc'
  BY <1>3, <1>7 DEF Monus, PoolTypeOK, PoolBacked
<1>9. /\ withdrawalRequestTime' = [withdrawalRequestTime EXCEPT ![lp] = 0]
      /\ depositedPrincipal' = [depositedPrincipal EXCEPT ![lp] = 0]
      /\ UNCHANGED <<now, virtualLiquidity, lockVars>>
  BY DEF executeWithdrawal
<1>10. PoolTypeOK'
  BY <1>1, <1>4, <1>8, <1>9 DEF PoolTypeOK, lockVars
<1> QED
  BY <1>6, <1>8, <1>9, <1>10 DEF PoolBacked, PoolTotals, lockVars

LEMMA RequestKeepsPool ==
    ASSUME PoolInv, NEW lp \in LPs, requestWithdrawal(lp)
    PROVE  PoolInv'
<1>1. PoolTypeOK'
  BY PoolAssumption DEF PoolInv, PoolTypeOK, requestWithdrawal, lockVars
<1>2. UNCHANGED <<poolUsdc, totalLiquidity, totalShares, shares, lockVars>>
  BY DEF requestWithdrawal
<1> QED
  BY <1>1, <1>2 DEF PoolInv, PoolBacked, PoolTotals, lockVars

-----------------------------------------------------------------------------
(* All transactions without BettingCore *)

LEMMA PoolStart == PoolInit => PoolInv
<1> SUFFICES ASSUME PoolInit PROVE PoolInv
  OBVIOUS
<1> USE PoolAssumption DEF PoolInit
<1>1. PoolTypeOK
  BY DEF PoolTypeOK
<1>2. PoolBacked
  BY DEF PoolBacked
<1>3. PoolTotals
  <2>1. \A i \in 1..NumKeys : marketLocked[i] = 0
    BY DEF Keys
  <2>2. \A i \in 1..NumLPs : shares[i] = 0
    BY DEF LPs
  <2> QED
    BY <2>1, <2>2, SumZeros DEF PoolTotals
<1> QED
  BY <1>1, <1>2, <1>3 DEF PoolInv

LEMMA PoolOnlyKeepsPool ==
    ASSUME PoolInv, PoolOnlyNext
    PROVE  PoolInv'
<1> USE PoolAssumption
<1>1. CASE \E lp \in LPs, a \in Deposits : deposit(lp, a)
  BY <1>1, DepositKeepsPool
<1>2. CASE \E lp \in LPs : requestWithdrawal(lp)
  BY <1>2, RequestKeepsPool
<1>3. CASE \E lp \in LPs : executeWithdrawal(lp)
  BY <1>3, WithdrawalKeepsPool
<1>4. CASE \E a \in VirtualAmounts : addVirtualLiquidity(a)
  BY <1>4 DEF addVirtualLiquidity, PoolInv, PoolTypeOK, PoolBacked, PoolTotals, lpVars, lockVars
<1>5. CASE \E a \in VirtualAmounts : removeVirtualLiquidity(a)
  BY <1>5 DEF removeVirtualLiquidity, PoolInv, PoolTypeOK, PoolBacked, PoolTotals, lpVars, lockVars
<1>6. CASE \E a \in Donations : Donate(a)
  BY <1>6 DEF Donate, PoolInv, PoolTypeOK, PoolBacked, PoolTotals, lpVars, lockVars
<1>7. CASE Tick
  BY <1>7 DEF Tick, PoolInv, PoolTypeOK, PoolBacked, PoolTotals, lpVars, lockVars
<1> QED
  BY <1>1, <1>2, <1>3, <1>4, <1>5, <1>6, <1>7 DEF PoolOnlyNext

LEMMA StutterKeepsPool ==
    ASSUME PoolInv, UNCHANGED poolVars
    PROVE  PoolInv'
BY DEF PoolInv, PoolTypeOK, PoolBacked, PoolTotals, poolVars, lpVars, lockVars

-----------------------------------------------------------------------------
(* Dilution *)

notDiluted == totalShares # 0 /\ totalShares' # totalShares
                => totalLiquidity' * totalShares >= totalLiquidity * totalShares'

LEMMA DepositDilutesNobody ==
    ASSUME PoolInv, NEW lp \in LPs, NEW amount \in Nat, deposit(lp, amount), totalShares # 0
    PROVE  totalLiquidity' * totalShares >= totalLiquidity * totalShares'
<1> DEFINE L == totalLiquidity
           S == totalShares
           m == minted(amount)
<1>1. m \in Nat /\ m * L <= amount * S
  BY MintedNat DEF deposit
<1>2. L \in Nat /\ S \in Nat
  BY DEF PoolInv, PoolTypeOK
<1>3. totalLiquidity' = L + amount /\ totalShares' = S + m
  BY DEF deposit, minted
<1> HIDE DEF L, S, m
<1>4. (L + amount) * S = L * S + amount * S /\ L * (S + m) = L * S + m * L
  BY <1>1, <1>2
<1>5. L * S \in Nat /\ amount * S \in Nat /\ m * L \in Nat
  BY <1>1, <1>2, ProductNat
<1>6. (L + amount) * S >= L * (S + m)
  BY <1>1, <1>4, <1>5
<1> QED
  BY <1>3, <1>6 DEF L, S

LEMMA WithdrawalDilutesNobody ==
    ASSUME PoolInv, NEW lp \in LPs, executeWithdrawal(lp), totalShares # 0
    PROVE  totalLiquidity' * totalShares >= totalLiquidity * totalShares'
<1> DEFINE L == totalLiquidity
           S == totalShares
           s == shares[lp]
           w == withdrawalOf(lp)
<1>1. w \in Nat /\ w * S <= s * L
  BY Redeemed
<1>2. L \in Nat /\ S \in Nat /\ s \in Nat /\ lockedForPayouts \in Nat
  BY DEF PoolInv, PoolTypeOK
<1>3. w <= L - lockedForPayouts /\ s <= S
  BY DEF executeWithdrawal
<1>4. totalLiquidity' = L - w /\ totalShares' = S - s
  <2>1. totalLiquidity' = Monus(L, w) /\ totalShares' = S - s
    BY DEF executeWithdrawal
  <2> HIDE DEF L, S, s, w
  <2>2. Monus(L, w) = L - w
    BY <1>1, <1>2, <1>3 DEF Monus
  <2> QED
    BY <2>1, <2>2
<1> HIDE DEF L, S, s, w
<1>5. (L - w) * S = L * S - w * S /\ L * (S - s) = L * S - s * L
  BY <1>1, <1>2
<1>6. L * S \in Nat /\ w * S \in Nat /\ s * L \in Nat
  BY <1>1, <1>2, ProductNat
<1>7. (L - w) * S >= L * (S - s)
  BY <1>1, <1>5, <1>6
<1> QED
  BY <1>4, <1>7 DEF L, S

(* Only deposits and withdrawals change the supply. *)
LEMMA PoolOnlyDilutesNobody ==
    ASSUME PoolInv, PoolOnlyNext
    PROVE  notDiluted
<1> SUFFICES ASSUME totalShares # 0, totalShares' # totalShares
             PROVE  totalLiquidity' * totalShares >= totalLiquidity * totalShares'
  BY DEF notDiluted
<1>1. \/ \E lp \in LPs, a \in Deposits : deposit(lp, a)
      \/ \E lp \in LPs : executeWithdrawal(lp)
  BY DEF PoolOnlyNext, requestWithdrawal, addVirtualLiquidity, removeVirtualLiquidity,
         Donate, Tick, lpVars
<1>2. Deposits \subseteq Nat
  BY PoolAssumption
<1> QED
  BY <1>1, <1>2, DepositDilutesNobody, WithdrawalDilutesNobody

-----------------------------------------------------------------------------
(* The core *)

MarketType == [status : {"None", "Open", "Suspended", "Settled", "Cancelled"},
               winningOutcome : Nat, totalBetAmount : Nat, totalPayoutRequired : Nat,
               closesAt : Nat, fillRatioX1000 : 0..FULL_RATIO]
BetType == [status : BetStatus, marketId : Markets \cup {0}, outcome : Nat, amount : Nat,
            potentialPayout : Nat, lockedAmount : Nat, paid : Nat]
ParlayType == [status : ParlayStatus, marketIds : Seq(Markets), outcomes : Seq(Nat),
               stake : Nat, potentialPayout : Nat, paid : Nat]

MultiplierTypeOK == \/ probabilitySafetyMultiplierBps = 0
                    \/ probabilitySafetyMultiplierBps \in BPS_DENOM..100000
AdminTypeOK ==
    /\ houseEdgeBps \in 0..1000
    /\ MultiplierTypeOK
    /\ minBet \in Nat /\ maxBet \in Nat
    /\ paused \in BOOLEAN

LEMMA TypesNamed ==
    TypeOK <=> /\ PoolTypeOK
               /\ coreUsdc \in Nat
               /\ treasuryUsdc \in Nat
               /\ markets \in [Markets -> MarketType]
               /\ bets \in [BetIds -> BetType]
               /\ parlays \in [ParlayIds -> ParlayType]
               /\ AdminTypeOK
BY DEF TypeOK, MarketType, BetType, ParlayType, AdminTypeOK, MultiplierTypeOK

(* What the arithmetic of claims needs beyond the types: a quote is never  *)
(* below its stake, and a placed bet names a market.                       *)
BetTerms ==
    \A b \in BetIds : /\ bets[b].amount <= bets[b].potentialPayout
                      /\ bets[b].status # "None" => bets[b].marketId \in Markets
ParlayTerms ==
    \A p \in ParlayIds : parlays[p].stake <= parlays[p].potentialPayout

MoneyOK   == coreUsdc \in Nat /\ treasuryUsdc \in Nat
MarketsOK == markets \in [Markets -> MarketType]
BetsOK    == bets \in [BetIds -> BetType] /\ BetTerms
ParlaysOK == parlays \in [ParlayIds -> ParlayType] /\ ParlayTerms

CoreInv ==
    /\ PoolInv
    /\ MoneyOK
    /\ MarketsOK
    /\ BetsOK
    /\ ParlaysOK
    /\ AdminTypeOK

LEMMA MarketsStay ==
    ASSUME MarketsOK, UNCHANGED markets PROVE MarketsOK'
BY DEF MarketsOK

LEMMA BetsStay ==
    ASSUME BetsOK, UNCHANGED bets PROVE BetsOK'
BY DEF BetsOK, BetTerms

LEMMA ParlaysStay ==
    ASSUME ParlaysOK, UNCHANGED parlays PROVE ParlaysOK'
BY DEF ParlaysOK, ParlayTerms

LEMMA AdminStays ==
    ASSUME AdminTypeOK, UNCHANGED adminVars PROVE AdminTypeOK'
BY DEF AdminTypeOK, MultiplierTypeOK, adminVars

LEMMA MoneyStays ==
    ASSUME MoneyOK, UNCHANGED <<coreUsdc, treasuryUsdc>> PROVE MoneyOK'
BY DEF MoneyOK

-----------------------------------------------------------------------------
(* The contract's arithmetic *)

(* A part of an amount, scale parts being the whole. *)
LEMMA PartOf ==
    ASSUME NEW a \in Nat, NEW scale \in Nat \ {0}, NEW part \in 0..scale
    PROVE  /\ (a * part) \div scale \in Nat
           /\ (a * part) \div scale <= a
<1> DEFINE q == (a * part) \div scale
<1>1. a * part \in Nat /\ a * scale \in Nat
  BY ProductNat
<1>2. q \in Nat /\ q * scale <= a * part
  BY <1>1, QuotientNat, QuotientBound
<1> HIDE DEF q
<1>3. a * part <= a * scale
  <2>1. part * a <= scale * a
    BY ProductMonotone
  <2> QED
    BY <2>1
<1>4. q * scale <= a * scale
  BY <1>1, <1>2, <1>3, ProductNat
<1>5. q <= a
  BY <1>2, <1>4
<1> QED
  BY <1>2, <1>5 DEF q

LEMMA EdgeBounds ==
    ASSUME CoreInv, NEW amount \in Nat
    PROVE  edgeOf(amount) \in Nat /\ edgeOf(amount) <= amount
<1>1. houseEdgeBps \in 0..1000
  BY DEF CoreInv, AdminTypeOK
<1>2. houseEdgeBps \in 0..BPS_DENOM /\ BPS_DENOM \in Nat \ {0}
  BY <1>1 DEF BPS_DENOM
<1> QED
  BY <1>2, PartOf DEF edgeOf

LEMMA AvailableBounds ==
    ASSUME CoreInv, NEW k \in Keys
    PROVE  availableFor(k) \in Nat /\ availableFor(k) <= getFreeLiquidity(k)
<1>1. getFreeLiquidity(k) \in Nat
  BY DEF getFreeLiquidity, Monus, CoreInv, PoolInv, PoolTypeOK
<1>2. edgeOf(getFreeLiquidity(k)) \in Nat /\ edgeOf(getFreeLiquidity(k)) <= getFreeLiquidity(k)
  BY <1>1, EdgeBounds
<1> QED
  BY <1>1, <1>2 DEF availableFor

LEMMA ScaledBounds ==
    ASSUME NEW ratio \in 0..FULL_RATIO, NEW profit \in Nat
    PROVE  scaledProfit(ratio, profit) \in Nat /\ scaledProfit(ratio, profit) <= profit
<1>1. FULL_RATIO \in Nat \ {0}
  BY DEF FULL_RATIO
<1>2. (profit * ratio) \div FULL_RATIO \in Nat /\ (profit * ratio) \div FULL_RATIO <= profit
  BY <1>1, PartOf
<1>3. profit * ratio = ratio * profit
  BY <1>1
<1> QED
  BY <1>2, <1>3 DEF scaledProfit

LEMMA FillRatioBounds ==
    ASSUME CoreInv, NEW m \in Markets, NEW span \in Int
    PROVE  marketFillRatio(m, span) \in 0..FULL_RATIO
<1>1. m \in Keys
  BY CoreAssumption DEF Keys, Markets
<1>2. availableFor(m) \in Nat
  BY <1>1, AvailableBounds
<1> DEFINE covered == Least(span, availableFor(m))
<1>3. CASE span <= 0 \/ covered >= span
  BY <1>3 DEF marketFillRatio, FULL_RATIO
<1>4. CASE ~(span <= 0) /\ ~(covered >= span)
  <2>1. covered \in Nat /\ covered < span /\ span \in Nat \ {0}
    BY <1>2, <1>4 DEF Least
  <2>2. FULL_RATIO \in Nat
    BY DEF FULL_RATIO
  <2>3. marketFillRatio(m, span) \in {0, (covered * FULL_RATIO) \div span}
    BY <1>4, <2>1 DEF marketFillRatio
  <2> HIDE DEF covered
  <2>4. covered \in 0..span
    BY <2>1
  <2>5. (FULL_RATIO * covered) \div span \in Nat /\ (FULL_RATIO * covered) \div span <= FULL_RATIO
    BY <2>1, <2>2, <2>4, PartOf
  <2>6. FULL_RATIO * covered = covered * FULL_RATIO
    BY <2>1, <2>2
  <2> QED
    BY <2>2, <2>3, <2>5, <2>6
<1> QED
  BY <1>3, <1>4

LEMMA PayoutBounds ==
    ASSUME NEW amount \in Nat, NEW odds \in Nat, odds > ODDS_DENOM
    PROVE  potentialPayoutOf(amount, odds) \in Nat /\ amount <= potentialPayoutOf(amount, odds)
<1> DEFINE q == (amount * odds) \div 1000
<1>1. amount * odds \in Nat
  BY ProductNat
<1>2. amount * 1000 <= amount * odds
  <2>1. 1000 * amount <= odds * amount
    BY ProductMonotone DEF ODDS_DENOM
  <2> QED
    BY <2>1
<1>3. q \in Nat /\ amount <= q
  BY <1>1, <1>2
<1> QED
  BY <1>3 DEF potentialPayoutOf, ODDS_DENOM

LEMMA LockNat ==
    ASSUME CoreInv, NEW rawDeficit \in Nat, NEW odds \in Nat, odds > ODDS_DENOM
    PROVE  probabilityWeightedLock(rawDeficit, odds) \in Nat
<1> DEFINE multiplier == IF probabilitySafetyMultiplierBps = 0
                         THEN BPS_DENOM ELSE probabilitySafetyMultiplierBps
<1>1. multiplier \in Nat
  <2>1. \/ probabilitySafetyMultiplierBps = 0
        \/ probabilitySafetyMultiplierBps \in BPS_DENOM..100000
    BY DEF CoreInv, AdminTypeOK, MultiplierTypeOK
  <2>2. BPS_DENOM \in Nat
    BY DEF BPS_DENOM
  <2>3. \A x : x \in BPS_DENOM..100000 => x \in Nat
    BY ONLY <2>2, SMT
  <2>4. probabilitySafetyMultiplierBps # 0 => probabilitySafetyMultiplierBps \in Nat
    BY ONLY <2>1, <2>3, SMT
  <2> QED
    BY <2>2, <2>4, Zenon
<1>2. ODDS_DENOM \in Nat /\ BPS_DENOM \in Nat \ {0} /\ odds \in Nat \ {0}
  BY DEF ODDS_DENOM, BPS_DENOM
<1> HIDE DEF multiplier
<1>3. rawDeficit * ODDS_DENOM * multiplier \in Nat /\ odds * BPS_DENOM \in Nat \ {0}
  BY <1>1, <1>2, ProductNat
<1>4. (rawDeficit * ODDS_DENOM * multiplier) \div (odds * BPS_DENOM) \in Nat
  BY <1>3, QuotientNat
<1> QED
  BY <1>4 DEF probabilityWeightedLock, multiplier

-----------------------------------------------------------------------------
(* Market lifecycle *)

LEMMA MarketKeys == \A m \in Markets : m \in Keys
BY CoreAssumption DEF Markets, Keys

LEMMA NewMarketTyped ==
    ASSUME NEW closesAt \in Nat
    PROVE  NewMarket(closesAt) \in MarketType
<1> DEFINE open == [NoMarket EXCEPT !.status = "Open"]
<1>1. NoMarket \in MarketType
  BY DEF NoMarket, MarketType, FULL_RATIO
<1>2. open \in MarketType
  BY ONLY <1>1 DEF MarketType
<1>3. NewMarket(closesAt) = [open EXCEPT !.closesAt = closesAt]
  BY <1>1 DEF NewMarket, MarketType
<1> HIDE DEF open
<1>4. [open EXCEPT !.closesAt = closesAt] \in MarketType
  BY <1>2 DEF MarketType
<1> QED
  BY <1>3, <1>4

LEMMA CreateKeeps ==
    ASSUME CoreInv, NEW m \in Markets, NEW t \in Nat, createMarket(m, t)
    PROVE  CoreInv'
<1>1. MarketsOK'
  <2>1. NewMarket(t) \in MarketType
    BY NewMarketTyped
  <2>2. markets' = [markets EXCEPT ![m] = NewMarket(t)]
    BY DEF createMarket
  <2> QED
    BY <2>1, <2>2 DEF MarketsOK, CoreInv
<1>2. UNCHANGED <<poolVars, coreUsdc, treasuryUsdc, bets, parlays, adminVars>>
  BY DEF createMarket
<1> QED
  BY <1>1, <1>2, StutterKeepsPool, MoneyStays, BetsStay, ParlaysStay, AdminStays DEF CoreInv

LEMMA SuspendKeeps ==
    ASSUME CoreInv, NEW m \in Markets, suspendMarket(m) \/ resumeMarket(m)
    PROVE  CoreInv'
<1>1. MarketsOK'
  <2>1. markets[m] \in MarketType
    BY DEF CoreInv, MarketsOK
  <2>2. \A s \in {"Open", "Suspended"} : [markets[m] EXCEPT !.status = s] \in MarketType
    BY ONLY <2>1 DEF MarketType
  <2>3. PICK s \in {"Open", "Suspended"} : markets' = [markets EXCEPT ![m].status = s]
    BY DEF suspendMarket, resumeMarket
  <2> QED
    BY <2>2, <2>3 DEF MarketsOK, CoreInv
<1>2. UNCHANGED <<poolVars, coreUsdc, treasuryUsdc, bets, parlays, adminVars>>
  BY DEF suspendMarket, resumeMarket
<1> QED
  BY <1>1, <1>2, StutterKeepsPool, MoneyStays, BetsStay, ParlaysStay, AdminStays DEF CoreInv

LEMMA CancelKeeps ==
    ASSUME CoreInv, NEW m \in Markets, cancelMarket(m)
    PROVE  CoreInv'
<1>1. markets[m] \in MarketType
  BY DEF CoreInv, MarketsOK
<1>2. MarketsOK'
  <2>1. [markets[m] EXCEPT !.status = "Cancelled"] \in MarketType
    BY ONLY <1>1 DEF MarketType
  <2>2. markets' = [markets EXCEPT ![m].status = "Cancelled"]
    BY DEF cancelMarket
  <2> QED
    BY <2>1, <2>2 DEF MarketsOK, CoreInv
<1>3. PoolInv'
  <2>1. markets[m].totalBetAmount \in Nat
    BY <1>1 DEF MarketType
  <2>2. reportMarketResult(m, markets[m].totalBetAmount, markets[m].totalBetAmount, 0)
    BY DEF cancelMarket
  <2> QED
    BY <2>1, <2>2, MarketKeys, ReportKeepsPool DEF CoreInv
<1>4. UNCHANGED <<coreUsdc, treasuryUsdc, bets, parlays, adminVars>>
  BY DEF cancelMarket
<1> QED
  BY <1>2, <1>3, <1>4, MoneyStays, BetsStay, ParlaysStay, AdminStays DEF CoreInv

-----------------------------------------------------------------------------
(* Single bets *)

LEMMA LockIfPositiveKeeps ==
    ASSUME PoolInv, NEW k \in Keys, NEW amount \in Nat, LockIfPositive(k, amount)
    PROVE  PoolInv'
BY LockKeepsPool, StutterKeepsPool DEF LockIfPositive

LEMMA ExecuteBetKeeps ==
    ASSUME CoreInv, NEW b \in BetIds, NEW m \in Markets, NEW market \in MarketType,
           NEW outcome \in Nat, NEW amount \in Nat, NEW odds \in Nat,
           executeBet(b, m, market, outcome, amount, odds)
    PROVE  CoreInv'
<1> DEFINE payout == potentialPayoutOf(amount, odds)
           lock   == probabilityWeightedLock(payout - amount, odds)
<1>1. odds > ODDS_DENOM
  BY DEF executeBet
<1>2. payout \in Nat /\ amount <= payout
  BY <1>1, PayoutBounds
<1>3. lock \in Nat
  <2> HIDE DEF payout
  <2>1. payout - amount \in Nat
    BY <1>2
  <2> QED
    BY <1>1, <2>1, LockNat
<1>4. /\ LockIfPositive(m, lock)
      /\ bets' = [bets EXCEPT ![b] =
                    [status |-> "Pending", marketId |-> m, outcome |-> outcome,
                     amount |-> amount, potentialPayout |-> payout,
                     lockedAmount |-> lock, paid |-> 0]]
      /\ markets' = [markets EXCEPT ![m] =
                       [market EXCEPT !.totalBetAmount = market.totalBetAmount + amount]]
      /\ coreUsdc' = coreUsdc + amount
      /\ UNCHANGED <<treasuryUsdc, parlays, adminVars>>
  BY DEF executeBet
<1> HIDE DEF payout, lock
<1>5. PoolInv'
  BY <1>3, <1>4, MarketKeys, LockIfPositiveKeeps DEF CoreInv
<1>6. BetsOK'
  BY <1>2, <1>3, <1>4 DEF CoreInv, BetsOK, BetTerms, BetType, BetStatus
<1>7. MarketsOK'
  <2>1. market.totalBetAmount + amount \in Nat
    BY DEF MarketType
  <2>2. [market EXCEPT !.totalBetAmount = market.totalBetAmount + amount] \in MarketType
    BY <2>1 DEF MarketType
  <2> QED
    BY <1>4, <2>2 DEF CoreInv, MarketsOK
<1>8. MoneyOK'
  BY <1>4 DEF CoreInv, MoneyOK
<1> QED
  BY <1>4, <1>5, <1>6, <1>7, <1>8, ParlaysStay, AdminStays DEF CoreInv

LEMMA PlaceKeeps ==
    ASSUME CoreInv, NEW b \in BetIds, NEW m \in Markets, NEW outcome \in Nat,
           NEW amount \in Nat, NEW odds \in Nat, NEW t \in Nat,
           \/ placeBet(b, m, outcome, amount, odds)
           \/ placeBetWithAttestation(b, m, outcome, amount, odds, t)
    PROVE  CoreInv'
<1>1. markets[m] \in MarketType /\ NewMarket(t) \in MarketType
  BY NewMarketTyped DEF CoreInv, MarketsOK
<1> QED
  BY <1>1, ExecuteBetKeeps DEF placeBet, placeBetWithAttestation

LEMMA BetNumbers ==
    ASSUME BetsOK, NEW b \in BetIds, bets[b].status # "None"
    PROVE  /\ bets[b].amount \in Nat
           /\ bets[b].marketId \in Markets
           /\ bets[b].potentialPayout - bets[b].amount \in Nat
           /\ bets[b].lockedAmount \in Nat
<1>1. bets[b] \in BetType
  BY DEF BetsOK
<1>2. /\ bets[b].amount \in Nat /\ bets[b].potentialPayout \in Nat
      /\ bets[b].lockedAmount \in Nat
  BY <1>1 DEF BetType
<1>3. BetTerms
  BY DEF BetsOK
<1>4. bets[b].amount <= bets[b].potentialPayout
  BY <1>3 DEF BetTerms
<1>5. bets[b].marketId \in Markets
  BY <1>3 DEF BetTerms
<1> QED
  BY <1>2, <1>4, <1>5

(* A change of status and payment leaves the terms of the bet. *)
LEMMA BetPaid ==
    ASSUME BetsOK, NEW b \in BetIds, bets[b].status # "None",
           NEW s \in BetStatus, NEW amount \in Nat
    PROVE  [bets[b] EXCEPT !.status = s, !.paid = bets[b].paid + amount] \in BetType
<1>1. bets[b] \in BetType
  BY DEF BetsOK
<1>2. bets[b].paid + amount \in Nat
  BY <1>1 DEF BetType
<1> DEFINE new == bets[b].paid + amount
           half == [bets[b] EXCEPT !.status = s]
<1> HIDE DEF new
<1>3. half \in BetType
  BY ONLY <1>1, s \in BetStatus DEF BetType
<1>4. [bets[b] EXCEPT !.status = s, !.paid = new] = [half EXCEPT !.paid = new]
  BY <1>1 DEF BetType
<1> HIDE DEF half
<1>5. [half EXCEPT !.paid = new] \in BetType
  BY <1>2, <1>3 DEF BetType, new
<1> QED
  BY <1>4, <1>5 DEF new

(* The four ways a bet leaves Pending or Won pay it and set its status. *)
LEMMA PaidBetsOK ==
    ASSUME BetsOK, NEW b \in BetIds, bets[b].status # "None",
           NEW s \in BetStatus \ {"None"}, NEW amount \in Nat,
           bets' = [bets EXCEPT ![b].status = s, ![b].paid = bets[b].paid + amount]
    PROVE  BetsOK'
<1> DEFINE new == [bets[b] EXCEPT !.status = s, !.paid = bets[b].paid + amount]
<1>1. bets[b] \in BetType
  BY DEF BetsOK
<1>2. new \in BetType
  BY BetPaid
<1>3. /\ new.amount = bets[b].amount /\ new.potentialPayout = bets[b].potentialPayout
      /\ new.marketId = bets[b].marketId
  BY <1>1 DEF BetType
<1>4. bets' = [bets EXCEPT ![b] = new]
  BY <1>1 DEF BetsOK
<1> HIDE DEF new
<1>5. bets' \in [BetIds -> BetType]
  BY <1>2, <1>4 DEF BetsOK
<1>6. BetTerms'
  <2> SUFFICES ASSUME NEW c \in BetIds
               PROVE  /\ bets'[c].amount <= bets'[c].potentialPayout
                      /\ bets'[c].status # "None" => bets'[c].marketId \in Markets
    BY DEF BetTerms
  <2>1. CASE c = b
    <3>1. bets'[c] = new
      BY <1>4, <2>1 DEF BetsOK
    <3> QED
      BY <1>3, <2>1, <3>1 DEF BetsOK, BetTerms
  <2>2. CASE c # b
    BY <1>4, <2>2 DEF BetsOK, BetTerms
  <2> QED
    BY <2>1, <2>2
<1> QED
  BY <1>5, <1>6 DEF BetsOK

LEMMA VoidKeeps ==
    ASSUME CoreInv, NEW b \in BetIds, voidBet(b)
    PROVE  CoreInv'
<1> DEFINE m == bets[b].marketId
           amount == bets[b].amount
<1>1. bets[b].status = "Pending" /\ bets[b].status # "None"
  BY DEF voidBet
<1>2. amount \in Nat /\ m \in Markets /\ bets[b].lockedAmount \in Nat
  BY <1>1, BetNumbers DEF CoreInv
<1>3. BetsOK'
  <2>1. bets' = [bets EXCEPT ![b].status = "Cancelled", ![b].paid = bets[b].paid + amount]
    BY DEF voidBet
  <2> HIDE DEF amount
  <2> QED
    BY <1>1, <1>2, <2>1, PaidBetsOK DEF CoreInv, BetStatus
<1>4. MarketsOK'
  <2>1. markets[m] \in MarketType
    BY <1>2 DEF CoreInv, MarketsOK
  <2>2. markets[m].totalBetAmount \in Nat /\ markets[m].totalBetAmount >= amount
    BY <2>1 DEF MarketType, voidBet
  <2>3. markets[m].totalBetAmount - amount \in Nat
    BY <1>2, <2>2
  <2> DEFINE rest == markets[m].totalBetAmount - amount
  <2>4. markets' = [markets EXCEPT ![m].totalBetAmount = rest]
    BY DEF voidBet
  <2> HIDE DEF rest
  <2>5. [markets[m] EXCEPT !.totalBetAmount = rest] \in MarketType
    BY <2>1, <2>3 DEF MarketType, rest
  <2> QED
    BY <1>2, <2>4, <2>5 DEF MarketsOK, CoreInv
<1>5. PoolInv'
  <2>1. CASE bets[b].lockedAmount > 0
    <3>1. unlockLiquidity(m, bets[b].lockedAmount)
      BY <2>1 DEF voidBet
    <3> QED
      BY <1>2, <3>1, MarketKeys, UnlockKeepsPool DEF CoreInv
  <2>2. CASE ~(bets[b].lockedAmount > 0)
    <3>1. UNCHANGED poolVars
      BY <2>2 DEF voidBet
    <3> QED
      BY <3>1, StutterKeepsPool DEF CoreInv
  <2> QED
    BY <2>1, <2>2
<1>6. MoneyOK'
  BY <1>2 DEF voidBet, MoneyOK, CoreInv
<1>7. UNCHANGED <<parlays, adminVars>>
  BY DEF voidBet
<1> QED
  BY <1>3, <1>4, <1>5, <1>6, <1>7, ParlaysStay, AdminStays DEF CoreInv

LEMMA WinningsNat ==
    ASSUME CoreInv, NEW b \in BetIds, bets[b].status # "None"
    PROVE  winningsOf(b) \in Nat
<1>1. /\ bets[b].amount \in Nat /\ bets[b].marketId \in Markets
      /\ bets[b].potentialPayout - bets[b].amount \in Nat
  BY BetNumbers DEF CoreInv
<1>2. markets[bets[b].marketId].fillRatioX1000 \in 0..FULL_RATIO
  BY <1>1 DEF CoreInv, MarketsOK, MarketType
<1>3. scaledProfit(markets[bets[b].marketId].fillRatioX1000,
                   bets[b].potentialPayout - bets[b].amount) \in Nat
  BY <1>1, <1>2, ScaledBounds
<1> QED
  BY <1>1, <1>3 DEF winningsOf

LEMMA ClaimKeeps ==
    ASSUME CoreInv, NEW b \in BetIds, claimWinnings(b)
    PROVE  CoreInv'
<1>1. bets[b].status # "None"
  BY DEF claimWinnings
<1>2. winningsOf(b) \in Nat
  BY <1>1, WinningsNat
<1>3. BetsOK'
  <2>1. bets' = [bets EXCEPT ![b].status = "Cashed", ![b].paid = bets[b].paid + winningsOf(b)]
    BY DEF claimWinnings
  <2> QED
    BY <1>1, <1>2, <2>1, PaidBetsOK DEF CoreInv, BetStatus
<1>4. MoneyOK'
  BY <1>2 DEF claimWinnings, MoneyOK, CoreInv
<1>5. UNCHANGED <<poolVars, markets, parlays, adminVars>>
  BY DEF claimWinnings
<1> QED
  BY <1>3, <1>4, <1>5, StutterKeepsPool, MarketsStay, ParlaysStay, AdminStays DEF CoreInv

LEMMA RefundKeeps ==
    ASSUME CoreInv, NEW b \in BetIds, claimRefund(b)
    PROVE  CoreInv'
<1>1. bets[b].status # "None"
  BY DEF claimRefund
<1>2. bets[b].amount \in Nat
  BY <1>1, BetNumbers DEF CoreInv
<1>3. BetsOK'
  <2>1. bets' = [bets EXCEPT ![b].status = "Cancelled", ![b].paid = bets[b].paid + bets[b].amount]
    BY DEF claimRefund
  <2> QED
    BY <1>1, <1>2, <2>1, PaidBetsOK DEF CoreInv, BetStatus
<1>4. MoneyOK'
  BY <1>2 DEF claimRefund, MoneyOK, CoreInv
<1>5. UNCHANGED <<poolVars, markets, parlays, adminVars>>
  BY DEF claimRefund
<1> QED
  BY <1>3, <1>4, <1>5, StutterKeepsPool, MarketsStay, ParlaysStay, AdminStays DEF CoreInv

-----------------------------------------------------------------------------
(* Settlement *)

LEMMA StatusTyped ==
    ASSUME NEW x \in BetType, NEW s \in BetStatus
    PROVE  [x EXCEPT !.status = s] \in BetType
BY DEF BetType

(* The settlement's sums over the listed winners. *)
LEMMA SettlementSums ==
    ASSUME CoreInv, NEW listed \in [BetIds -> 0..MaxListed]
    PROVE  sumStakes(listed) \in Nat /\ profitSpan(listed) \in Nat
<1> DEFINE stakes  == [b \in BetIds |-> counted(listed, b) * bets[b].amount]
           profits == [b \in BetIds |->
                         counted(listed, b) * (bets[b].potentialPayout - bets[b].amount)]
<1>1. MaxBets \in Nat /\ MaxListed \in Nat
  BY CoreAssumption
<1>2. \A b \in 1..MaxBets : stakes[b] \in Nat /\ profits[b] \in Nat
  <2> TAKE b \in 1..MaxBets
  <2>1. b \in BetIds /\ listed[b] \in Nat
    BY <1>1 DEF BetIds
  <2>2. counted(listed, b) \in Nat
    BY <2>1 DEF counted
  <2>3. bets[b] \in BetType /\ bets[b].amount <= bets[b].potentialPayout
    BY <2>1 DEF CoreInv, BetsOK, BetTerms
  <2>4. bets[b].amount \in Nat /\ bets[b].potentialPayout \in Nat
    BY <2>3 DEF BetType
  <2>5. bets[b].potentialPayout - bets[b].amount \in Nat
    BY <2>3, <2>4
  <2> QED
    BY <2>1, <2>2, <2>4, <2>5, ProductNat
<1> HIDE DEF stakes, profits
<1>3. SumTo(stakes, MaxBets) \in Nat /\ SumTo(profits, MaxBets) \in Nat
  BY <1>1, <1>2, SumNat
<1> QED
  BY <1>3 DEF sumStakes, profitSpan, stakes, profits

LEMMA FinalizeKeeps ==
    ASSUME CoreInv, NEW k \in Keys, NEW totalBet \in Nat, NEW payout \in Nat,
           finalizeMarketAccounting(k, totalBet, payout)
    PROVE  PoolInv' /\ MoneyOK'
<1> DEFINE surplus   == Monus(totalBet, payout)
           shortfall == Monus(payout, totalBet)
           edge      == edgeOf(totalBet)
           houseEdge == Least(edge, surplus)
           toPool    == surplus - houseEdge
<1>1. surplus \in Nat /\ shortfall \in Nat
  BY MonusNat
<1>2. edge \in Nat
  BY EdgeBounds
<1>3. /\ reportMarketResult(k, totalBet, payout, toPool)
      /\ coreUsdc + shortfall >= surplus
      /\ coreUsdc' = coreUsdc + shortfall - surplus
      /\ treasuryUsdc' = treasuryUsdc + houseEdge
  BY DEF finalizeMarketAccounting
<1> HIDE DEF surplus, shortfall, edge
<1>4. houseEdge \in Nat /\ toPool \in Nat
  BY <1>1, <1>2 DEF Least
<1> HIDE DEF houseEdge, toPool
<1>5. PoolInv'
  BY <1>3, <1>4, ReportKeepsPool DEF CoreInv
<1>6. MoneyOK'
  BY <1>1, <1>3, <1>4 DEF CoreInv, MoneyOK
<1> QED
  BY <1>5, <1>6

LEMMA SettleKeeps ==
    ASSUME CoreInv, NEW m \in Markets, NEW outcome \in Nat,
           NEW listed \in [BetIds -> 0..MaxListed], settleMarket(m, outcome, listed)
    PROVE  CoreInv'
<1> DEFINE span   == profitSpan(listed)
           staked == sumStakes(listed)
           ratio  == marketFillRatio(m, span)
           payout == staked + scaledProfit(ratio, span)
<1>1. span \in Nat /\ staked \in Nat
  BY SettlementSums
<1>2. ratio \in 0..FULL_RATIO
  <2> HIDE DEF span
  <2> QED
    BY <1>1, FillRatioBounds
<1>3. payout \in Nat
  <2> HIDE DEF span, staked, ratio
  <2>1. scaledProfit(ratio, span) \in Nat
    BY <1>1, <1>2, ScaledBounds
  <2> QED
    BY <1>1, <2>1
<1>4. /\ bets' = [b \in BetIds |-> IF isWinner(listed, b)
                                   THEN [bets[b] EXCEPT !.status = "Won"] ELSE bets[b]]
      /\ markets' = [markets EXCEPT ![m] =
                       [markets[m] EXCEPT !.status = "Settled", !.winningOutcome = outcome,
                                          !.totalPayoutRequired = staked + span,
                                          !.fillRatioX1000 = ratio]]
      /\ finalizeMarketAccounting(m, markets[m].totalBetAmount, payout)
      /\ UNCHANGED <<parlays, adminVars>>
  BY DEF settleMarket
<1> HIDE DEF span, staked, ratio, payout
<1>5. markets[m] \in MarketType
  BY DEF CoreInv, MarketsOK
<1>6. PoolInv' /\ MoneyOK'
  <2>1. markets[m].totalBetAmount \in Nat
    BY <1>5 DEF MarketType
  <2> QED
    BY <1>3, <1>4, <2>1, MarketKeys, FinalizeKeeps
<1>7. BetsOK'
  <2>1. ASSUME NEW b \in BetIds
        PROVE  /\ bets'[b] \in BetType
               /\ bets'[b].amount <= bets'[b].potentialPayout
               /\ bets'[b].status # "None" => bets'[b].marketId \in Markets
    <3>1. bets[b] \in BetType /\ bets[b].amount <= bets[b].potentialPayout
      BY DEF CoreInv, BetsOK, BetTerms
    <3>2. CASE isWinner(listed, b)
      <4>1. bets'[b] = [bets[b] EXCEPT !.status = "Won"]
        BY <1>4, <3>2
      <4>2. [bets[b] EXCEPT !.status = "Won"] \in BetType
        BY <3>1, StatusTyped DEF BetStatus
      <4>3. bets[b].marketId \in Markets
        BY <3>2, BetNumbers DEF isWinner, CoreInv
      <4>4. /\ bets'[b].amount = bets[b].amount /\ bets'[b].marketId = bets[b].marketId
            /\ bets'[b].potentialPayout = bets[b].potentialPayout
        BY <3>1, <4>1 DEF BetType
      <4> QED
        BY <3>1, <4>1, <4>2, <4>3, <4>4
    <3>3. CASE ~isWinner(listed, b)
      <4>1. bets'[b] = bets[b]
        BY <1>4, <3>3
      <4> QED
        BY <3>1, <4>1 DEF CoreInv, BetsOK, BetTerms
    <3> QED
      BY <3>2, <3>3
  <2>2. bets' \in [BetIds -> BetType]
    <3>1. bets' = [b \in BetIds |-> bets'[b]]
      BY <1>4
    <3> QED
      BY <2>1, <3>1
  <2> QED
    BY <2>1, <2>2 DEF BetsOK, BetTerms
<1>8. MarketsOK'
  <2> DEFINE one   == [markets[m] EXCEPT !.status = "Settled"]
             two   == [one EXCEPT !.winningOutcome = outcome]
             three == [two EXCEPT !.totalPayoutRequired = staked + span]
             four  == [three EXCEPT !.fillRatioX1000 = ratio]
  <2>1. [markets[m] EXCEPT !.status = "Settled", !.winningOutcome = outcome,
                           !.totalPayoutRequired = staked + span,
                           !.fillRatioX1000 = ratio] = four
    BY <1>5 DEF MarketType
  <2>2. one \in MarketType
    BY ONLY <1>5 DEF MarketType
  <2> HIDE DEF one
  <2>3. two \in MarketType
    BY <2>2 DEF MarketType
  <2> HIDE DEF two
  <2>4. three \in MarketType
    BY <1>1, <2>3 DEF MarketType
  <2> HIDE DEF three
  <2>5. four \in MarketType
    BY <1>2, <2>4 DEF MarketType
  <2> HIDE DEF four
  <2>6. markets' = [markets EXCEPT ![m] = four]
    BY <1>4, <2>1
  <2> QED
    BY <2>5, <2>6 DEF MarketsOK, CoreInv
<1> QED
  BY <1>4, <1>6, <1>7, <1>8, ParlaysStay, AdminStays DEF CoreInv

-----------------------------------------------------------------------------
(* Parlays *)

LEMMA ParlayKeys == \A p \in ParlayIds : ParlayKey(p) \in Keys
BY CoreAssumption DEF ParlayIds, ParlayKey, Keys

LEMMA ParlayNumbers ==
    ASSUME ParlaysOK, NEW p \in ParlayIds
    PROVE  /\ parlays[p].stake \in Nat
           /\ parlays[p].potentialPayout - parlays[p].stake \in Nat
<1>1. parlays[p] \in ParlayType
  BY DEF ParlaysOK
<1>2. parlays[p].stake \in Nat /\ parlays[p].potentialPayout \in Nat
  BY <1>1 DEF ParlayType
<1>3. ParlayTerms
  BY DEF ParlaysOK
<1> QED
  BY <1>2, <1>3 DEF ParlayTerms

(* A closed parlay: its status, and what it has been paid. *)
LEMMA ClosedParlaysOK ==
    ASSUME ParlaysOK, NEW p \in ParlayIds, NEW s \in ParlayStatus, NEW amount \in Nat,
           \/ parlays' = [parlays EXCEPT ![p].status = s, ![p].paid = parlays[p].paid + amount]
           \/ parlays' = [parlays EXCEPT ![p].status = s]
    PROVE  ParlaysOK'
<1> DEFINE half == [parlays[p] EXCEPT !.status = s]
           full == [parlays[p] EXCEPT !.status = s, !.paid = parlays[p].paid + amount]
<1>1. parlays[p] \in ParlayType
  BY DEF ParlaysOK
<1>2. half \in ParlayType
  BY ONLY <1>1, s \in ParlayStatus DEF ParlayType
<1>3. full = [half EXCEPT !.paid = parlays[p].paid + amount]
  BY <1>1 DEF ParlayType
<1>4. parlays[p].paid + amount \in Nat
  BY <1>1 DEF ParlayType
<1>5. /\ half.stake = parlays[p].stake /\ half.potentialPayout = parlays[p].potentialPayout
      /\ full.stake = parlays[p].stake /\ full.potentialPayout = parlays[p].potentialPayout
  BY <1>1 DEF ParlayType
<1>6. full \in ParlayType
  <2> HIDE DEF half, full
  <2> DEFINE new == parlays[p].paid + amount
  <2>1. new \in Nat /\ full = [half EXCEPT !.paid = new]
    BY <1>3, <1>4
  <2> HIDE DEF new
  <2> QED
    BY <1>2, <2>1 DEF ParlayType
<1>7. PICK new \in {half, full} : parlays' = [parlays EXCEPT ![p] = new]
  BY <1>1 DEF ParlaysOK
<1> HIDE DEF half, full
<1>8. /\ new \in ParlayType
      /\ new.stake = parlays[p].stake /\ new.potentialPayout = parlays[p].potentialPayout
  BY <1>2, <1>5, <1>6, <1>7
<1>9. parlays' \in [ParlayIds -> ParlayType]
  BY <1>7, <1>8 DEF ParlaysOK
<1>10. ParlayTerms'
  BY <1>7, <1>8 DEF ParlaysOK, ParlayTerms
<1> QED
  BY <1>9, <1>10 DEF ParlaysOK

LEMMA ExecuteParlayKeeps ==
    ASSUME CoreInv, NEW p \in ParlayIds, NEW registered \in [Markets -> MarketType],
           NEW legs \in Seq(Markets), NEW outcomes \in Seq(Nat), NEW stake \in Nat,
           NEW odds \in Nat, executeParlayBet(p, registered, legs, outcomes, stake, odds)
    PROVE  CoreInv'
<1> DEFINE payout == potentialPayoutOf(stake, odds)
           lock   == probabilityWeightedLock(payout - stake, odds)
<1>1. odds > ODDS_DENOM
  BY DEF executeParlayBet
<1>2. payout \in Nat /\ stake <= payout
  BY <1>1, PayoutBounds
<1>3. lock \in Nat
  <2> HIDE DEF payout
  <2>1. payout - stake \in Nat
    BY <1>2
  <2> QED
    BY <1>1, <2>1, LockNat
<1>4. /\ LockIfPositive(ParlayKey(p), lock)
      /\ parlays' = [parlays EXCEPT ![p] =
                       [status |-> "Pending", marketIds |-> legs, outcomes |-> outcomes,
                        stake |-> stake, potentialPayout |-> payout, paid |-> 0]]
      /\ markets' = registered
      /\ coreUsdc' = coreUsdc + stake
      /\ UNCHANGED <<treasuryUsdc, bets, adminVars>>
  BY DEF executeParlayBet
<1> HIDE DEF payout, lock
<1>5. PoolInv'
  BY <1>3, <1>4, ParlayKeys, LockIfPositiveKeeps DEF CoreInv
<1>6. ParlaysOK'
  BY <1>2, <1>4 DEF CoreInv, ParlaysOK, ParlayTerms, ParlayType, ParlayStatus
<1>7. MarketsOK'
  BY <1>4 DEF MarketsOK
<1>8. MoneyOK'
  BY <1>4 DEF CoreInv, MoneyOK
<1> QED
  BY <1>4, <1>5, <1>6, <1>7, <1>8, BetsStay, AdminStays DEF CoreInv

(* The legs and outcomes Next tries are sequences. *)
LEMMA LegsTyped ==
    ASSUME NEW legs \in LegLists, NEW os \in OutcomeLists(Len(legs))
    PROVE  legs \in Seq(Markets) /\ os \in Seq(Nat)
<1>1. PICK n \in MIN_PARLAY_LEGS..MAX_PARLAY_LEGS : legs \in [1..n -> Markets]
  BY DEF LegLists
<1>2. n \in Nat
  BY CoreAssumption
<1>3. legs \in Seq(Markets)
  BY <1>1, <1>2, SeqDef
<1>4. Len(legs) \in Nat
  BY <1>3
<1>5. os \in [1..Len(legs) -> Nat]
  BY CoreAssumption DEF OutcomeLists
<1>6. os \in Seq(Nat)
  BY <1>4, <1>5, SeqDef
<1> QED
  BY <1>3, <1>6

LEMMA PlaceParlayKeeps ==
    ASSUME CoreInv, NEW p \in ParlayIds, NEW legs \in LegLists,
           NEW os \in OutcomeLists(Len(legs)), NEW stake \in Nat, NEW odds \in Nat,
           NEW t \in Nat,
           \/ placeParlayBet(p, legs, os, stake, odds)
           \/ placeParlayBetWithAttestations(p, legs, os, stake, odds, t)
    PROVE  CoreInv'
<1>1. legs \in Seq(Markets) /\ os \in Seq(Nat)
  BY LegsTyped
<1>2. CASE placeParlayBet(p, legs, os, stake, odds)
  <2>1. markets \in [Markets -> MarketType]
    BY DEF CoreInv, MarketsOK
  <2> QED
    BY <1>1, <1>2, <2>1, ExecuteParlayKeeps DEF placeParlayBet
<1>3. CASE placeParlayBetWithAttestations(p, legs, os, stake, odds, t)
  <2> DEFINE absent == {m \in Markets : /\ markets[m].status = "None"
                                        /\ \E i \in 1..Len(legs) : legs[i] = m}
             registered == [m \in Markets |-> IF m \in absent THEN NewMarket(t)
                                                              ELSE markets[m]]
  <2>1. registered \in [Markets -> MarketType]
    <3> HIDE DEF absent
    <3>1. NewMarket(t) \in MarketType
      BY NewMarketTyped
    <3> QED
      BY <3>1 DEF CoreInv, MarketsOK
  <2>2. executeParlayBet(p, registered, legs, os, stake, odds)
    BY <1>3 DEF placeParlayBetWithAttestations
  <2> HIDE DEF registered
  <2> QED
    BY <1>1, <2>1, <2>2, ExecuteParlayKeeps
<1> QED
  BY <1>2, <1>3

LEMMA ParlayPayoutNat ==
    ASSUME CoreInv, NEW p \in ParlayIds
    PROVE  parlayPayout(p) \in Nat
<1>1. /\ parlays[p].stake \in Nat
      /\ parlays[p].potentialPayout - parlays[p].stake \in Nat
  BY ParlayNumbers DEF CoreInv
<1>2. availableFor(ParlayKey(p)) \in Nat
  BY ParlayKeys, AvailableBounds
<1> QED
  BY <1>1, <1>2 DEF parlayPayout, Least

LEMMA ClaimParlayKeeps ==
    ASSUME CoreInv, NEW p \in ParlayIds, claimParlayWinnings(p)
    PROVE  CoreInv'
<1>1. parlays[p].stake \in Nat /\ parlayPayout(p) \in Nat
  BY ParlayNumbers, ParlayPayoutNat DEF CoreInv
<1>2. /\ reportMarketResult(ParlayKey(p), parlays[p].stake, parlayPayout(p), 0)
      /\ parlays' = [parlays EXCEPT ![p].status = "Won",
                                    ![p].paid = parlays[p].paid + parlayPayout(p)]
      /\ coreUsdc >= parlays[p].stake
      /\ coreUsdc' = coreUsdc - parlays[p].stake
      /\ UNCHANGED <<treasuryUsdc, markets, bets, adminVars>>
  BY DEF claimParlayWinnings
<1>3. PoolInv'
  BY <1>1, <1>2, ParlayKeys, ReportKeepsPool DEF CoreInv
<1>4. ParlaysOK'
  BY <1>1, <1>2, ClosedParlaysOK DEF CoreInv, ParlayStatus
<1>5. MoneyOK'
  BY <1>1, <1>2 DEF CoreInv, MoneyOK
<1> QED
  BY <1>2, <1>3, <1>4, <1>5, MarketsStay, BetsStay, AdminStays DEF CoreInv

LEMMA RefundParlayKeeps ==
    ASSUME CoreInv, NEW p \in ParlayIds, claimParlayRefund(p)
    PROVE  CoreInv'
<1>1. parlays[p].stake \in Nat
  BY ParlayNumbers DEF CoreInv
<1>2. /\ reportMarketResult(ParlayKey(p), parlays[p].stake, parlays[p].stake, 0)
      /\ parlays' = [parlays EXCEPT ![p].status = "Cancelled",
                                    ![p].paid = parlays[p].paid + parlays[p].stake]
      /\ coreUsdc >= parlays[p].stake
      /\ coreUsdc' = coreUsdc - parlays[p].stake
      /\ UNCHANGED <<treasuryUsdc, markets, bets, adminVars>>
  BY DEF claimParlayRefund
<1>3. PoolInv'
  BY <1>1, <1>2, ParlayKeys, ReportKeepsPool DEF CoreInv
<1>4. ParlaysOK'
  BY <1>1, <1>2, ClosedParlaysOK DEF CoreInv, ParlayStatus
<1>5. MoneyOK'
  BY <1>1, <1>2 DEF CoreInv, MoneyOK
<1> QED
  BY <1>2, <1>3, <1>4, <1>5, MarketsStay, BetsStay, AdminStays DEF CoreInv

LEMMA ParlayLossKeeps ==
    ASSUME CoreInv, NEW p \in ParlayIds, reportParlayLoss(p)
    PROVE  CoreInv'
<1> DEFINE stake == parlays[p].stake
           edge  == edgeOf(stake)
           toPool == stake - edge
<1>1. stake \in Nat
  BY ParlayNumbers DEF CoreInv
<1>2. edge \in Nat /\ toPool \in Nat
  <2> HIDE DEF stake
  <2>1. edge \in Nat /\ edge <= stake
    BY <1>1, EdgeBounds
  <2> QED
    BY <1>1, <2>1
<1>3. /\ reportMarketResult(ParlayKey(p), stake, 0, toPool)
      /\ parlays' = [parlays EXCEPT ![p].status = "Lost"]
      /\ coreUsdc >= stake
      /\ coreUsdc' = coreUsdc - stake
      /\ treasuryUsdc' = treasuryUsdc + edge
      /\ UNCHANGED <<markets, bets, adminVars>>
  BY DEF reportParlayLoss
<1> HIDE DEF stake, edge, toPool
<1>4. PoolInv'
  <2>1. ParlayKey(p) \in Keys /\ 0 \in Int /\ PoolInv
    BY ParlayKeys DEF CoreInv
  <2> QED
    BY <1>1, <1>2, <1>3, <2>1, ReportKeepsPool
<1>5. ParlaysOK'
  BY <1>3, ClosedParlaysOK DEF CoreInv, ParlayStatus
<1>6. MoneyOK'
  BY <1>1, <1>2, <1>3 DEF CoreInv, MoneyOK
<1> QED
  BY <1>3, <1>4, <1>5, <1>6, MarketsStay, BetsStay, AdminStays DEF CoreInv

-----------------------------------------------------------------------------
(* Pauser and admin *)

LEMMA AdminOnlyKeeps ==
    ASSUME CoreInv, AdminTypeOK',
           UNCHANGED <<poolVars, coreUsdc, treasuryUsdc, markets, bets, parlays>>
    PROVE  CoreInv'
BY StutterKeepsPool, MoneyStays, MarketsStay, BetsStay, ParlaysStay DEF CoreInv

LEMMA PauseKeeps ==
    ASSUME CoreInv, NEW v \in BOOLEAN, setPaused(v)
    PROVE  CoreInv'
<1>1. UNCHANGED <<poolVars, coreUsdc, treasuryUsdc, markets, bets, parlays>>
  BY DEF setPaused
<1>2. AdminTypeOK'
  BY DEF CoreInv, AdminTypeOK, MultiplierTypeOK, setPaused
<1> QED
  BY <1>1, <1>2, AdminOnlyKeeps

LEMMA EdgeKeeps ==
    ASSUME CoreInv, NEW e \in Nat, setHouseEdge(e)
    PROVE  CoreInv'
<1>1. UNCHANGED <<poolVars, coreUsdc, treasuryUsdc, markets, bets, parlays>>
  BY DEF setHouseEdge
<1>2. houseEdgeBps' \in 0..1000
  BY DEF setHouseEdge
<1>3. AdminTypeOK'
  BY <1>2 DEF CoreInv, AdminTypeOK, MultiplierTypeOK, setHouseEdge
<1> QED
  BY <1>1, <1>3, AdminOnlyKeeps

LEMMA MultiplierKeeps ==
    ASSUME CoreInv, NEW x \in Nat, setProbabilitySafetyMultiplier(x)
    PROVE  CoreInv'
<1>1. UNCHANGED <<poolVars, coreUsdc, treasuryUsdc, markets, bets, parlays>>
  BY DEF setProbabilitySafetyMultiplier
<1>2. probabilitySafetyMultiplierBps' \in BPS_DENOM..100000
  <2>1. /\ BPS_DENOM <= x /\ x <= 100000
        /\ probabilitySafetyMultiplierBps' = x
    BY DEF setProbabilitySafetyMultiplier
  <2>2. BPS_DENOM \in Nat
    BY DEF BPS_DENOM
  <2>3. x \in Nat
    OBVIOUS
  <2> QED
    BY ONLY <2>1, <2>2, <2>3, SMT
<1>3. AdminTypeOK'
  BY <1>2 DEF CoreInv, AdminTypeOK, MultiplierTypeOK, setProbabilitySafetyMultiplier
<1> QED
  BY <1>1, <1>3, AdminOnlyKeeps

LEMMA LimitsKeep ==
    ASSUME CoreInv, NEW low \in Nat, NEW high \in Nat, setBetLimits(low, high)
    PROVE  CoreInv'
<1>1. UNCHANGED <<poolVars, coreUsdc, treasuryUsdc, markets, bets, parlays>>
  BY DEF setBetLimits
<1>2. AdminTypeOK'
  BY DEF CoreInv, AdminTypeOK, MultiplierTypeOK, setBetLimits
<1> QED
  BY <1>1, <1>2, AdminOnlyKeeps

-----------------------------------------------------------------------------
(* The induction *)

LEMMA CoreStart == Init => CoreInv
<1> SUFFICES ASSUME Init PROVE CoreInv
  OBVIOUS
<1>1. PoolInv
  BY PoolStart DEF Init
<1>2. MoneyOK
  BY DEF Init, MoneyOK
<1>3. MarketsOK
  <2>1. NoMarket \in MarketType
    BY DEF NoMarket, MarketType, FULL_RATIO
  <2> QED
    BY <2>1 DEF Init, MarketsOK
<1>4. BetsOK
  <2>1. NoBet \in BetType
    BY DEF NoBet, BetType, BetStatus
  <2>2. bets = [b \in BetIds |-> NoBet]
    BY DEF Init
  <2>3. NoBet.amount = 0 /\ NoBet.potentialPayout = 0 /\ NoBet.status = "None"
    BY DEF NoBet
  <2> QED
    BY <2>1, <2>2, <2>3 DEF BetsOK, BetTerms
<1>5. ParlaysOK
  <2>1. NoParlay \in ParlayType
    <3>1. << >> \in Seq(Markets) /\ << >> \in Seq(Nat)
      OBVIOUS
    <3> QED
      BY <3>1 DEF NoParlay, ParlayType, ParlayStatus
  <2>2. parlays = [p \in ParlayIds |-> NoParlay]
    BY DEF Init
  <2>3. NoParlay.stake = 0 /\ NoParlay.potentialPayout = 0
    BY DEF NoParlay
  <2> QED
    BY <2>1, <2>2, <2>3 DEF ParlaysOK, ParlayTerms
<1>6. AdminTypeOK
  <2>1. MultiplierTypeOK
    BY DEF Init, MultiplierTypeOK
  <2>2. houseEdgeBps = InitialEdge /\ minBet = InitialMinBet /\ maxBet = InitialMaxBet
        /\ paused = FALSE
    BY DEF Init
  <2> QED
    BY <2>1, <2>2, CoreAssumption DEF AdminTypeOK
<1> QED
  BY <1>1, <1>2, <1>3, <1>4, <1>5, <1>6 DEF CoreInv

LEMMA CoreStep ==
    ASSUME CoreInv, Next
    PROVE  CoreInv'
<1> USE CoreAssumption
<1>1. CASE PoolOnlyNext /\ UNCHANGED coreVars
  <2>1. PoolInv'
    BY <1>1, PoolOnlyKeepsPool DEF CoreInv
  <2>2. UNCHANGED <<coreUsdc, treasuryUsdc, markets, bets, parlays, adminVars>>
    BY <1>1 DEF coreVars
  <2> QED
    BY <2>1, <2>2, MoneyStays, MarketsStay, BetsStay, ParlaysStay, AdminStays DEF CoreInv
<1>2. CASE \E m \in Markets, t \in ClosingTimes : createMarket(m, t)
  BY <1>2, CreateKeeps
<1>3. CASE \E m \in Markets : suspendMarket(m) \/ resumeMarket(m)
  BY <1>3, SuspendKeeps
<1>4. CASE \E b \in BetIds, m \in Markets, o \in Outcomes, a \in Stakes, x \in Odds :
              placeBet(b, m, o, a, x)
  <2>1. PICK b \in BetIds, m \in Markets, o \in Outcomes, a \in Stakes, x \in Odds :
            placeBet(b, m, o, a, x)
    BY <1>4
  <2>2. o \in Nat /\ a \in Nat /\ x \in Nat /\ 0 \in Nat
    OBVIOUS
  <2> QED
    BY <2>1, <2>2, PlaceKeeps
<1>5. CASE \E b \in BetIds, m \in Markets, o \in Outcomes, a \in Stakes, x \in Odds,
             t \in ClosingTimes : placeBetWithAttestation(b, m, o, a, x, t)
  <2>1. PICK b \in BetIds, m \in Markets, o \in Outcomes, a \in Stakes, x \in Odds,
             t \in ClosingTimes : placeBetWithAttestation(b, m, o, a, x, t)
    BY <1>5
  <2>2. o \in Nat /\ a \in Nat /\ x \in Nat /\ t \in Nat
    OBVIOUS
  <2> QED
    BY <2>1, <2>2, PlaceKeeps
<1>6. CASE \E m \in Markets, o \in Outcomes, listed \in [BetIds -> 0..MaxListed] :
              settleMarket(m, o, listed)
  BY <1>6, SettleKeeps
<1>7. CASE \E b \in BetIds : voidBet(b)
  BY <1>7, VoidKeeps
<1>8. CASE \E m \in Markets : cancelMarket(m)
  BY <1>8, CancelKeeps
<1>9. CASE \E b \in BetIds : claimWinnings(b)
  BY <1>9, ClaimKeeps
<1>10. CASE \E b \in BetIds : claimRefund(b)
  BY <1>10, RefundKeeps
<1>11. CASE \E p \in ParlayIds, legs \in LegLists, a \in Stakes, x \in ParlayOdds :
               \E os \in OutcomeLists(Len(legs)) : placeParlayBet(p, legs, os, a, x)
  <2>1. PICK p \in ParlayIds, legs \in LegLists, a \in Stakes, x \in ParlayOdds :
            \E os \in OutcomeLists(Len(legs)) : placeParlayBet(p, legs, os, a, x)
    BY <1>11
  <2>2. PICK os \in OutcomeLists(Len(legs)) : placeParlayBet(p, legs, os, a, x)
    BY <2>1
  <2>3. a \in Nat /\ x \in Nat /\ 0 \in Nat
    OBVIOUS
  <2> QED
    BY <2>2, <2>3, PlaceParlayKeeps
<1>12. CASE \E p \in ParlayIds, legs \in LegLists, a \in Stakes, x \in ParlayOdds,
              t \in ClosingTimes : \E os \in OutcomeLists(Len(legs)) :
                  placeParlayBetWithAttestations(p, legs, os, a, x, t)
  <2>1. PICK p \in ParlayIds, legs \in LegLists, a \in Stakes, x \in ParlayOdds,
             t \in ClosingTimes : \E os \in OutcomeLists(Len(legs)) :
                 placeParlayBetWithAttestations(p, legs, os, a, x, t)
    BY <1>12
  <2>2. PICK os \in OutcomeLists(Len(legs)) :
            placeParlayBetWithAttestations(p, legs, os, a, x, t)
    BY <2>1
  <2>3. a \in Nat /\ x \in Nat /\ t \in Nat
    OBVIOUS
  <2> QED
    BY <2>2, <2>3, PlaceParlayKeeps
<1>13. CASE \E p \in ParlayIds : claimParlayWinnings(p)
  BY <1>13, ClaimParlayKeeps
<1>14. CASE \E p \in ParlayIds : claimParlayRefund(p)
  BY <1>14, RefundParlayKeeps
<1>15. CASE \E p \in ParlayIds : reportParlayLoss(p)
  BY <1>15, ParlayLossKeeps
<1>16. CASE \E v \in PauseChoices : setPaused(v)
  BY <1>16, PauseKeeps
<1>17. CASE \E e \in EdgeChoices : setHouseEdge(e)
  BY <1>17, EdgeKeeps
<1>18. CASE \E x \in MultiplierChoices : setProbabilitySafetyMultiplier(x)
  BY <1>18, MultiplierKeeps
<1>19. CASE \E l \in LimitChoices : setBetLimits(l[1], l[2])
  <2>1. PICK l \in Nat \X Nat : setBetLimits(l[1], l[2])
    BY <1>19
  <2>2. l[1] \in Nat /\ l[2] \in Nat
    OBVIOUS
  <2> QED
    BY <2>1, <2>2, LimitsKeep
<1> QED
  BY <1>1, <1>2, <1>3, <1>4, <1>5, <1>6, <1>7, <1>8, <1>9, <1>10, <1>11, <1>12, <1>13,
     <1>14, <1>15, <1>16, <1>17, <1>18, <1>19 DEF Next

LEMMA CoreStutter ==
    ASSUME CoreInv, UNCHANGED vars
    PROVE  CoreInv'
<1>1. UNCHANGED poolVars /\ UNCHANGED <<coreUsdc, treasuryUsdc>> /\ UNCHANGED markets
      /\ UNCHANGED bets /\ UNCHANGED parlays /\ UNCHANGED adminVars
  BY DEF vars, coreVars
<1> QED
  BY <1>1, StutterKeepsPool, MoneyStays, MarketsStay, BetsStay, ParlaysStay, AdminStays
     DEF CoreInv

(* The betting transactions leave the LPs' shares alone. *)
LEMMA BettingKeepsShares ==
    ASSUME Next
    PROVE  PoolOnlyNext \/ UNCHANGED lpVars
<1>1. \A k, a : LockIfPositive(k, a) => UNCHANGED lpVars
  BY DEF LockIfPositive, lockLiquidity, poolVars
<1>2. \A k, a : unlockLiquidity(k, a) => UNCHANGED lpVars
  BY DEF unlockLiquidity
<1>3. \A k, t, p, d : reportMarketResult(k, t, p, d) => UNCHANGED lpVars
  BY DEF reportMarketResult
<1>4. UNCHANGED poolVars => UNCHANGED lpVars
  BY DEF poolVars
<1>5. ASSUME NEW m, NEW t, createMarket(m, t) \/ suspendMarket(m) \/ resumeMarket(m)
      PROVE  UNCHANGED lpVars
  BY <1>4, <1>5 DEF createMarket, suspendMarket, resumeMarket
<1>6. ASSUME NEW b, NEW m, NEW o, NEW a, NEW x, NEW t,
             placeBet(b, m, o, a, x) \/ placeBetWithAttestation(b, m, o, a, x, t)
      PROVE  UNCHANGED lpVars
  BY <1>1, <1>6 DEF placeBet, placeBetWithAttestation, executeBet
<1>7. ASSUME NEW m, NEW o, NEW listed, settleMarket(m, o, listed)
      PROVE  UNCHANGED lpVars
  BY <1>3, <1>7 DEF settleMarket, finalizeMarketAccounting
<1>8. ASSUME NEW b, voidBet(b) \/ claimWinnings(b) \/ claimRefund(b)
      PROVE  UNCHANGED lpVars
  BY <1>2, <1>4, <1>8 DEF voidBet, claimWinnings, claimRefund
<1>9. ASSUME NEW m, cancelMarket(m) PROVE UNCHANGED lpVars
  BY <1>3, <1>9 DEF cancelMarket
<1>10. ASSUME NEW p, NEW legs, NEW os, NEW a, NEW x, NEW t,
              \/ placeParlayBet(p, legs, os, a, x)
              \/ placeParlayBetWithAttestations(p, legs, os, a, x, t)
       PROVE  UNCHANGED lpVars
  BY <1>1, <1>10 DEF placeParlayBet, placeParlayBetWithAttestations, executeParlayBet
<1>11. ASSUME NEW p, claimParlayWinnings(p) \/ claimParlayRefund(p) \/ reportParlayLoss(p)
       PROVE  UNCHANGED lpVars
  BY <1>3, <1>11 DEF claimParlayWinnings, claimParlayRefund, reportParlayLoss
<1>12. ASSUME NEW v, NEW w, \/ setPaused(v) \/ setHouseEdge(v)
                           \/ setProbabilitySafetyMultiplier(v) \/ setBetLimits(v, w)
       PROVE  UNCHANGED lpVars
  BY <1>4, <1>12 DEF setPaused, setHouseEdge, setProbabilitySafetyMultiplier, setBetLimits
<1> QED
  BY <1>5, <1>6, <1>7, <1>8, <1>9, <1>10, <1>11, <1>12 DEF Next

(* CoreInv is inductive: every transaction keeps the types, the pool's     *)
(* backing and totals, and the terms of every bet.                         *)
THEOREM CoreInvariant == Spec => []CoreInv
<1>1. Init => CoreInv
  BY CoreStart
<1>2. CoreInv /\ [Next]_vars => CoreInv'
  BY CoreStep, CoreStutter
<1> QED
  BY <1>1, <1>2, PTL DEF Spec

(* Every variable keeps its type: in particular no subtraction a checked   *)
(* contract would revert on is taken below zero, fill ratios stay within   *)
(* 0..1000, and no amount sent or credited is negative.                    *)
THEOREM CoreTyped == Spec => []TypeOK
<1>1. CoreInv => TypeOK
  BY TypesNamed DEF CoreInv, PoolInv, MoneyOK, MarketsOK, BetsOK, ParlaysOK
<1> QED
  BY <1>1, CoreInvariant, PTL

(* The liquidity the shares are priced on is in the pool, for any number   *)
(* of markets, bets, parlays and LPs and whatever the operators report.    *)
THEOREM CorePoolBacked == Spec => []PoolBacked
<1>1. CoreInv => PoolBacked
  BY DEF CoreInv, PoolInv
<1> QED
  BY <1>1, CoreInvariant, PTL

(* The pool's lock total and share supply are the sums of their parts.     *)
THEOREM CorePoolTotals == Spec => []PoolTotals
<1>1. CoreInv => PoolTotals
  BY DEF CoreInv, PoolInv
<1> QED
  BY <1>1, CoreInvariant, PTL

(* No deposit or withdrawal lowers the value of the other LPs' shares, in  *)
(* any state the betting contracts can bring the pool to: the roundings of *)
(* minting and redeeming always favour the pool.                           *)
THEOREM CoreNoDilution == Spec => NoDilution
<1>1. CoreInv /\ [Next]_vars => [notDiluted]_poolVars
  <2> SUFFICES ASSUME CoreInv, Next
               PROVE  [notDiluted]_poolVars
    BY DEF vars, poolVars
  <2>1. CASE PoolOnlyNext
    BY <2>1, PoolOnlyDilutesNobody DEF CoreInv
  <2>2. CASE UNCHANGED lpVars
    BY <2>2 DEF notDiluted, lpVars
  <2> QED
    BY <2>1, <2>2, BettingKeepsShares
<1> QED
  BY <1>1, CoreInvariant, PTL DEF Spec, NoDilution, notDiluted
=============================================================================
