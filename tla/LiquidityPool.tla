--------------------------- MODULE LiquidityPool ---------------------------
(***************************************************************************)
(* packages/contracts/contracts/LiquidityPool.sol: the USDC pool of the    *)
(* liquidity providers that backs every bet.  An LP call is one            *)
(* transaction; the BettingCore hooks (lockLiquidity, unlockLiquidity,     *)
(* reportMarketResult) are written as actions on the pool's variables that *)
(* BettingCore.tla conjoins with its own half of the transaction.          *)
(*                                                                         *)
(* A revert leaves the chain unchanged, so a revert condition is a guard;  *)
(* a checked subtraction that would underflow is a revert too.             *)
(***************************************************************************)
EXTENDS Integers, Sums

CONSTANTS
    NumLPs,               \* LP accounts are 1..NumLPs
    NumKeys,              \* lock buckets: ids of markets and of parlays
    MIN_DEPOSIT,
    WITHDRAWAL_TIMELOCK,
    SHARE_SCALE,          \* the 1e18 of getShareValue
    Deposits,             \* deposit amounts tried
    Donations,            \* USDC sent straight to the pool's address
    VirtualAmounts,       \* amounts of virtual liquidity tried
    MaxUsdc,              \* bound: no deposit or donation beyond this balance
    MaxTime               \* bound on block.timestamp

ASSUME PoolAssumption ==
    /\ NumLPs \in Nat
    /\ NumKeys \in Nat
    /\ MIN_DEPOSIT \in Nat \ {0}
    /\ WITHDRAWAL_TIMELOCK \in Nat
    /\ SHARE_SCALE \in Nat \ {0}
    /\ Deposits \subseteq Nat
    /\ Donations \subseteq Nat
    /\ VirtualAmounts \subseteq Nat
    /\ MaxUsdc \in Nat
    /\ MaxTime \in Nat \ {0}

LPs  == 1..NumLPs
Keys == 1..NumKeys

VARIABLES
    now,                     \* block.timestamp; starts above 0
    poolUsdc,                \* usdc.balanceOf(pool)
    totalLiquidity,
    totalShares,
    lockedForPayouts,
    virtualLiquidity,
    shares,                  \* per LP
    depositedPrincipal,      \* per LP
    withdrawalRequestTime,   \* per LP, 0 when none
    marketLocked             \* per key

lpVars   == <<shares, depositedPrincipal, withdrawalRequestTime, totalShares>>
lockVars == <<lockedForPayouts, marketLocked>>
poolVars == <<now, poolUsdc, totalLiquidity, virtualLiquidity, lpVars, lockVars>>

PoolInit ==
    /\ now = 1
    /\ poolUsdc = 0
    /\ totalLiquidity = 0
    /\ totalShares = 0
    /\ lockedForPayouts = 0
    /\ virtualLiquidity = 0
    /\ shares = [lp \in LPs |-> 0]
    /\ depositedPrincipal = [lp \in LPs |-> 0]
    /\ withdrawalRequestTime = [lp \in LPs |-> 0]
    /\ marketLocked = [k \in Keys |-> 0]

-----------------------------------------------------------------------------
(* Views *)

(* Variant of Monus: an unchecked block. *)
MonusUnchecked(a, b) == a - b

(* a - b, or 0 when b is larger: the contract's saturating ternaries. *)
Monus(a, b) == IF a > b THEN a - b ELSE 0

getShareValue ==
    IF totalShares = 0 THEN SHARE_SCALE
                       ELSE (totalLiquidity * SHARE_SCALE) \div totalShares

(* Variant of getFreeLiquidity: the whole balance is free. *)
getFreeLiquidityIgnoresLocks(k) ==
    poolUsdc

getFreeLiquidity(k) ==
    Monus(poolUsdc, Monus(lockedForPayouts, marketLocked[k]))

-----------------------------------------------------------------------------
(* LP entry and exit *)

(* Variant of deposit: minted shares are rounded up. *)
depositRoundsUp(lp, amount) ==
    /\ amount >= MIN_DEPOSIT
    /\ poolUsdc + amount <= MaxUsdc
    /\ totalShares # 0 => totalLiquidity # 0
    /\ LET minted == IF totalShares = 0
                     THEN amount
                     ELSE (amount * totalShares + totalLiquidity - 1) \div totalLiquidity
       IN  /\ shares' = [shares EXCEPT ![lp] = @ + minted]
           /\ totalShares' = totalShares + minted
    /\ depositedPrincipal' = [depositedPrincipal EXCEPT ![lp] = @ + amount]
    /\ totalLiquidity' = totalLiquidity + amount
    /\ poolUsdc' = poolUsdc + amount
    /\ UNCHANGED <<now, withdrawalRequestTime, virtualLiquidity, lockVars>>

(* Division by totalLiquidity = 0 panics, which reverts the deposit. *)
deposit(lp, amount) ==
    /\ amount >= MIN_DEPOSIT
    /\ poolUsdc + amount <= MaxUsdc
    /\ totalShares # 0 => totalLiquidity # 0
    /\ LET minted == IF totalShares = 0
                     THEN amount
                     ELSE (amount * totalShares) \div totalLiquidity
       IN  /\ shares' = [shares EXCEPT ![lp] = @ + minted]
           /\ totalShares' = totalShares + minted
    /\ depositedPrincipal' = [depositedPrincipal EXCEPT ![lp] = @ + amount]
    /\ totalLiquidity' = totalLiquidity + amount
    /\ poolUsdc' = poolUsdc + amount
    /\ UNCHANGED <<now, withdrawalRequestTime, virtualLiquidity, lockVars>>

requestWithdrawal(lp) ==
    /\ shares[lp] # 0
    /\ withdrawalRequestTime' = [withdrawalRequestTime EXCEPT ![lp] = now]
    /\ UNCHANGED <<now, poolUsdc, totalLiquidity, totalShares, shares,
                   depositedPrincipal, virtualLiquidity, lockVars>>

withdrawalOf(lp) == (shares[lp] * getShareValue) \div SHARE_SCALE

executeWithdrawal(lp) ==
    /\ shares[lp] # 0
    /\ withdrawalRequestTime[lp] # 0
    /\ now >= withdrawalRequestTime[lp] + WITHDRAWAL_TIMELOCK
    /\ totalLiquidity >= lockedForPayouts
    /\ withdrawalOf(lp) <= totalLiquidity - lockedForPayouts
    /\ shares[lp] <= totalShares
    /\ withdrawalOf(lp) <= poolUsdc
    /\ shares' = [shares EXCEPT ![lp] = 0]
    /\ totalShares' = totalShares - shares[lp]
    /\ totalLiquidity' = Monus(totalLiquidity, withdrawalOf(lp))
    /\ withdrawalRequestTime' = [withdrawalRequestTime EXCEPT ![lp] = 0]
    /\ depositedPrincipal' = [depositedPrincipal EXCEPT ![lp] = 0]
    /\ poolUsdc' = poolUsdc - withdrawalOf(lp)
    /\ UNCHANGED <<now, virtualLiquidity, lockVars>>

-----------------------------------------------------------------------------
(* BettingCore hooks *)

lockLiquidity(k, amount) ==
    /\ amount # 0
    /\ lockedForPayouts' = lockedForPayouts + amount
    /\ marketLocked' = [marketLocked EXCEPT ![k] = @ + amount]
    /\ UNCHANGED <<now, poolUsdc, totalLiquidity, virtualLiquidity, lpVars>>

unlockLiquidity(k, amount) ==
    /\ amount # 0
    /\ amount <= lockedForPayouts
    /\ amount <= marketLocked[k]
    /\ lockedForPayouts' = lockedForPayouts - amount
    /\ marketLocked' = [marketLocked EXCEPT ![k] = @ - amount]
    /\ UNCHANGED <<now, poolUsdc, totalLiquidity, virtualLiquidity, lpVars>>

(* Variant of reportMarketResult: virtual liquidity is counted as          *)
(* balance.                                                                *)
reportResultCountsVirtual(k, totalBetAmount, totalPayoutRequired, pushed) ==
    LET deficit == totalPayoutRequired - totalBetAmount
        balance == poolUsdc + pushed
    IN  /\ marketLocked[k] <= lockedForPayouts
        /\ marketLocked' = [marketLocked EXCEPT ![k] = 0]
        /\ lockedForPayouts' = lockedForPayouts - marketLocked[k]
        /\ IF deficit > 0
           THEN /\ deficit <= balance
                /\ totalLiquidity' = Monus(totalLiquidity, deficit)
                /\ poolUsdc' = balance - deficit
           ELSE /\ totalLiquidity' = IF balance + virtualLiquidity > totalLiquidity
                                     THEN balance + virtualLiquidity ELSE totalLiquidity
                /\ poolUsdc' = balance
        /\ UNCHANGED <<now, virtualLiquidity, lpVars>>

(* `pushed` is the USDC BettingCore transferred to the pool earlier in the *)
(* same transaction.                                                       *)
reportMarketResult(k, totalBetAmount, totalPayoutRequired, pushed) ==
    LET deficit == totalPayoutRequired - totalBetAmount
        balance == poolUsdc + pushed
    IN  /\ marketLocked[k] <= lockedForPayouts
        /\ marketLocked' = [marketLocked EXCEPT ![k] = 0]
        /\ lockedForPayouts' = lockedForPayouts - marketLocked[k]
        /\ IF deficit > 0
           THEN /\ deficit <= balance
                /\ totalLiquidity' = Monus(totalLiquidity, deficit)
                /\ poolUsdc' = balance - deficit
           ELSE /\ totalLiquidity' = IF balance > totalLiquidity
                                     THEN balance ELSE totalLiquidity
                /\ poolUsdc' = balance
        /\ UNCHANGED <<now, virtualLiquidity, lpVars>>

-----------------------------------------------------------------------------
(* Virtual liquidity, other holders of USDC, and time *)

addVirtualLiquidity(amount) ==
    /\ amount # 0
    /\ virtualLiquidity + amount <= MaxUsdc
    /\ virtualLiquidity' = virtualLiquidity + amount
    /\ UNCHANGED <<now, poolUsdc, totalLiquidity, lpVars, lockVars>>

removeVirtualLiquidity(amount) ==
    /\ amount # 0
    /\ amount <= virtualLiquidity
    /\ virtualLiquidity' = virtualLiquidity - amount
    /\ UNCHANGED <<now, poolUsdc, totalLiquidity, lpVars, lockVars>>

(* An ERC-20 transfer to the pool's address runs none of the pool's code. *)
Donate(amount) ==
    /\ poolUsdc + amount <= MaxUsdc
    /\ poolUsdc' = poolUsdc + amount
    /\ UNCHANGED <<now, totalLiquidity, virtualLiquidity, lpVars, lockVars>>

Tick ==
    /\ now < MaxTime
    /\ now' = now + 1
    /\ UNCHANGED <<poolUsdc, totalLiquidity, virtualLiquidity, lpVars, lockVars>>

(* The transactions that do not involve BettingCore. *)
PoolOnlyNext ==
    \/ \E lp \in LPs, a \in Deposits : deposit(lp, a)
    \/ \E lp \in LPs : requestWithdrawal(lp)
    \/ \E lp \in LPs : executeWithdrawal(lp)
    \/ \E a \in VirtualAmounts : addVirtualLiquidity(a)
    \/ \E a \in VirtualAmounts : removeVirtualLiquidity(a)
    \/ \E a \in Donations : Donate(a)
    \/ Tick

-----------------------------------------------------------------------------
(* Properties *)

(* The type of every variable of the pool. *)
PoolTypeOK ==
    /\ now \in 1..MaxTime
    /\ poolUsdc \in Nat
    /\ totalLiquidity \in Nat
    /\ totalShares \in Nat
    /\ lockedForPayouts \in Nat
    /\ virtualLiquidity \in Nat
    /\ shares \in [LPs -> Nat]
    /\ depositedPrincipal \in [LPs -> Nat]
    /\ withdrawalRequestTime \in [LPs -> 0..MaxTime]
    /\ marketLocked \in [Keys -> Nat]

(* The liquidity the shares are priced on is there: totalLiquidity is kept *)
(* by hand in deposits, withdrawals and results and never exceeds the      *)
(* contract's USDC.                                                        *)
PoolBacked == totalLiquidity <= poolUsdc

(* The pool's total lock is the sum of its buckets, and the share supply   *)
(* is the sum of the LPs' shares, so that none of the pool's checked       *)
(* subtractions can revert a settlement or a withdrawal.                   *)
PoolTotals ==
    /\ lockedForPayouts = SumTo(marketLocked, NumKeys)
    /\ totalShares = SumTo(shares, NumLPs)

(* What the pool pays out, to a leaving LP or to the winners of a market   *)
(* or a parlay, never touches what is reserved for the other markets: a    *)
(* step that lowers the balance leaves it at or above the remaining locks, *)
(* although placement may lock far more than the pool holds.               *)
ReservationsRespected ==
    [][poolUsdc' < poolUsdc => poolUsdc' >= lockedForPayouts']_poolVars

(* Nobody's deposit or withdrawal dilutes the other LPs: across a change   *)
(* of an existing share supply the value of a share does not fall.         *)
NoDilution ==
    [][totalShares # 0 /\ totalShares' # totalShares
         => totalLiquidity' * totalShares >= totalLiquidity * totalShares']_poolVars
=============================================================================
