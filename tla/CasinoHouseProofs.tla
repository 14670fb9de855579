------------------------- MODULE CasinoHouseProofs -------------------------
(***************************************************************************)
(* The safety of CasinoHouse for any number of bets, pool rounds, games    *)
(* and amounts.  The exposure counter needs the type invariant and the     *)
(* fact that a settlement touches one bet only; the pool rounds need that  *)
(* a round with deposits has been opened, or resolving its predecessor     *)
(* would wipe it.  Then the bet route on top of it: what a request holds   *)
(* and is told is the chain's settlement and the one row of its bet.       *)
(***************************************************************************)
EXTENDS CasinoBets, SumsProofs

RoundsOpened ==
    \A r \in RoundIds : rounds[r].totalDeposits > 0 => rounds[r].opened

HouseInv ==
    /\ HouseTypeOK
    /\ ExposureTracked
    /\ RoundsOpened
    /\ PoolCapHeld

-----------------------------------------------------------------------------
(* Arithmetic of the contract's rounding. *)

LEMMA DivScaled ==
    ASSUME NEW a \in Nat
    PROVE  (a \div 10000) * 10000 <= a
OBVIOUS

-----------------------------------------------------------------------------
(* The exposure counter *)

exposures == [b \in BetIds |-> pendingExposure(b)]

BetType == [status : {"None", "Placed", "Settled"}, game : Games \cup {"None"},
            amount : Nat, payout : Nat, reservedExposure : Nat]
RoundType == [opened : BOOLEAN, totalDeposits : Nat, totalPayouts : Nat, resolved : BOOLEAN]

LEMMA TypesNamed ==
    HouseTypeOK <=> /\ usdc \in Nat
                    /\ bets \in [BetIds -> BetType]
                    /\ totalPendingExposure \in Nat
                    /\ maxMultiplierX100 \in [Games -> Nat]
                    /\ rtpBps \in 5000..9900
                    /\ rounds \in [RoundIds -> RoundType]
                    /\ currentRoundId \in RoundIds
BY DEF HouseTypeOK, BetType, RoundType

LEMMA InitialRecords ==
    /\ NoBet \in BetType
    /\ NoRound \in RoundType /\ OpenRound \in RoundType
    /\ NoRound.totalDeposits = 0 /\ NoRound.totalPayouts = 0
    /\ OpenRound.totalDeposits = 0 /\ OpenRound.totalPayouts = 0
    /\ OpenRound.opened
BY DEF NoBet, NoRound, OpenRound, BetType, RoundType

LEMMA SettledBet ==
    ASSUME HouseTypeOK, NEW b \in BetIds, NEW payout \in Nat, settleGame(b, payout)
    PROVE  /\ bets' \in [BetIds -> BetType]
           /\ bets'[b].status = "Settled"
           /\ \A c \in BetIds : c # b => bets'[c] = bets[c]
<1> DEFINE paid == IF payout > usdc THEN usdc ELSE payout
<1>1. bets \in [BetIds -> BetType]
  BY TypesNamed
<1>2. bets' = [bets EXCEPT ![b].status = "Settled", ![b].payout = paid]
  BY DEF settleGame
<1>3. paid \in Nat
  BY DEF HouseTypeOK
<1> HIDE DEF paid
<1> QED BY <1>1, <1>2, <1>3 DEF BetType

LEMMA JoinedRound ==
    ASSUME HouseTypeOK, NEW r \in RoundIds, NEW amount \in Nat, joinPoolRound(r, amount)
    PROVE  /\ rounds' \in [RoundIds -> RoundType]
           /\ rounds'[r].opened
           /\ rounds'[r].totalDeposits = rounds[r].totalDeposits + amount
           /\ rounds'[r].totalPayouts = rounds[r].totalPayouts
           /\ \A q \in RoundIds : q # r => rounds'[q] = rounds[q]
<1>0. rounds' = [rounds EXCEPT ![r].opened = TRUE, ![r].totalDeposits = @ + amount]
  BY DEF joinPoolRound
<1>1. rounds \in [RoundIds -> RoundType]
  BY TypesNamed
<1>2. /\ rounds'[r].opened
      /\ rounds'[r].totalDeposits = rounds[r].totalDeposits + amount
      /\ rounds'[r].totalPayouts = rounds[r].totalPayouts
      /\ \A q \in RoundIds : q # r => rounds'[q] = rounds[q]
  BY <1>0, <1>1 DEF RoundType
<1>3. rounds' \in [RoundIds -> RoundType]
  <2> DEFINE opened == [rounds[r] EXCEPT !.opened = TRUE]
             joined == [opened EXCEPT !.totalDeposits = rounds[r].totalDeposits + amount]
  <2>1. rounds[r] \in RoundType /\ rounds[r].totalDeposits \in Nat
    BY <1>1 DEF RoundType
  <2>2. opened \in RoundType
    BY <2>1 DEF RoundType
  <2>3. joined \in RoundType
    <3> HIDE DEF opened
    <3>1. rounds[r].totalDeposits + amount \in Nat
      BY <2>1
    <3> QED BY <2>2, <3>1 DEF RoundType
  <2>4. rounds' = [rounds EXCEPT ![r] = joined]
    BY <1>0, <1>1 DEF RoundType
  <2> QED BY <1>1, <2>3, <2>4
<1> QED BY <1>2, <1>3

LEMMA ExposuresNat ==
    ASSUME HouseTypeOK
    PROVE  \A b \in BetIds : exposures[b] \in Nat /\ exposures[b] \in Int
BY DEF HouseTypeOK, exposures, pendingExposure

(* A step that changes the bet b and moves the counter by the change of    *)
(* what b reserves keeps the counter equal to the sum.                     *)
LEMMA ExposureMoves ==
    ASSUME HouseTypeOK, HouseTypeOK', ExposureTracked, NEW b \in BetIds,
           \A c \in BetIds : c # b => bets'[c] = bets[c],
           totalPendingExposure' =
               totalPendingExposure + (pendingExposure(b)' - pendingExposure(b))
    PROVE  ExposureTracked'
<1> DEFINE f == exposures
           g == exposures'
<1>1. \A c \in 1..MaxBets : f[c] \in Int /\ g[c] \in Int
  <2>1. \A c \in BetIds : f[c] \in Int
    BY ExposuresNat
  <2>2. \A c \in BetIds : g[c] \in Int
    BY DEF HouseTypeOK, exposures, pendingExposure
  <2> QED BY <2>1, <2>2 DEF BetIds
<1>2. \A c \in 1..MaxBets : c # b => f[c] = g[c]
  BY DEF exposures, pendingExposure, BetIds
<1>3. f[b] = pendingExposure(b) /\ g[b] = pendingExposure(b)'
  BY DEF exposures
<1>4. totalPendingExposure = SumTo(f, MaxBets)
  BY DEF ExposureTracked, exposures
<1>5. b \in 1..MaxBets /\ MaxBets \in Nat
  BY HouseAssumption DEF BetIds
<1> HIDE DEF f, g
<1>6. SumTo(g, MaxBets) = SumTo(f, MaxBets) + (g[b] - f[b])
  BY <1>1, <1>2, <1>5, SumUpdate
<1>7. totalPendingExposure' = SumTo(g, MaxBets)
  BY <1>3, <1>4, <1>6
<1> QED BY <1>7 DEF ExposureTracked, exposures, g

LEMMA ExposureStays ==
    ASSUME ExposureTracked, UNCHANGED <<bets, totalPendingExposure>>
    PROVE  ExposureTracked'
BY DEF ExposureTracked, pendingExposure

-----------------------------------------------------------------------------
(* A contract without bets or rounds owes nothing.                         *)
THEOREM HouseInitInv == HouseInit => HouseInv
<1> SUFFICES ASSUME HouseInit PROVE HouseInv
  OBVIOUS
<1>1. /\ HouseTypeOK
      /\ \A r \in RoundIds : rounds[r] \in {NoRound, OpenRound}
  <2>1. 1 \in RoundIds
    BY HouseAssumption DEF RoundIds
  <2>2. rounds \in [RoundIds -> RoundType] /\ bets \in [BetIds -> BetType]
    BY InitialRecords DEF HouseInit
  <2>3. /\ usdc \in Nat /\ totalPendingExposure \in Nat /\ rtpBps \in 5000..9900
        /\ maxMultiplierX100 \in [Games -> Nat] /\ currentRoundId \in RoundIds
    BY <2>1, HouseAssumption DEF HouseInit
  <2> QED BY <2>2, <2>3, TypesNamed DEF HouseInit
<1>2. ExposureTracked
  <2> DEFINE f == [b \in BetIds |-> pendingExposure(b)]
  <2>1. \A b \in 1..MaxBets : f[b] = 0
    BY DEF pendingExposure, BetIds, HouseInit, NoBet
  <2> HIDE DEF f
  <2>2. SumTo(f, MaxBets) = 0
    BY <2>1, SumZeros, HouseAssumption
  <2> QED BY <2>2 DEF ExposureTracked, f, HouseInit
<1>3. RoundsOpened
  BY <1>1, InitialRecords DEF RoundsOpened
<1>4. PoolCapHeld
  <2>1. \A r \in RoundIds : rounds[r].totalPayouts = 0 /\ rounds[r].totalDeposits = 0
    BY <1>1, InitialRecords
  <2> QED BY <2>1, HouseAssumption DEF PoolCapHeld
<1> QED BY <1>1, <1>2, <1>3, <1>4 DEF HouseInv

-----------------------------------------------------------------------------
(* One lemma per transaction. *)

LEMMA PlaceInv ==
    ASSUME HouseInv, NEW b \in BetIds, NEW amount \in StakeChoices, NEW game \in Games,
           placeCasinoBet(b, amount, game)
    PROVE  HouseInv'
<1> USE DEF HouseInv
<1> DEFINE maxPayout == (amount * maxMultiplierX100[game]) \div 100
<1>1. amount \in Nat /\ maxPayout \in Nat
  <2>1. amount \in Nat /\ maxMultiplierX100[game] \in Nat
    BY HouseAssumption DEF HouseTypeOK
  <2>2. amount * maxMultiplierX100[game] \in Nat
    BY <2>1, ProductNat
  <2> QED BY <2>1, <2>2, QuotientNat
<1>2. /\ bets[b].status = "None"
      /\ totalPendingExposure' = totalPendingExposure + maxPayout
      /\ bets' = [bets EXCEPT ![b] = [status |-> "Placed", game |-> game, amount |-> amount,
                                      payout |-> 0, reservedExposure |-> maxPayout]]
      /\ usdc' = usdc + amount
      /\ UNCHANGED <<maxMultiplierX100, rtpBps, rounds, currentRoundId>>
  BY DEF placeCasinoBet
<1> HIDE DEF maxPayout
<1>3. HouseTypeOK'
  BY <1>1, <1>2 DEF HouseTypeOK
<1>4. ExposureTracked'
  <2>1. pendingExposure(b) = 0 /\ pendingExposure(b)' = maxPayout
    BY <1>2 DEF pendingExposure, HouseTypeOK
  <2>2. \A c \in BetIds : c # b => bets'[c] = bets[c]
    BY <1>2 DEF HouseTypeOK
  <2>3. totalPendingExposure' =
            totalPendingExposure + (pendingExposure(b)' - pendingExposure(b))
    BY <2>1, <1>1, <1>2
  <2> QED BY <2>2, <2>3, <1>3, ExposureMoves
<1>5. RoundsOpened' /\ PoolCapHeld'
  BY <1>2 DEF RoundsOpened, PoolCapHeld
<1> QED BY <1>3, <1>4, <1>5

LEMMA SettleInv ==
    ASSUME HouseInv, NEW b \in BetIds, NEW payout \in Nat, settleGame(b, payout)
    PROVE  HouseInv'
<1> USE DEF HouseInv
<1> DEFINE paid == IF payout > usdc THEN usdc ELSE payout
<1>1. paid \in Nat /\ paid <= usdc /\ usdc \in Nat
  BY HouseAssumption DEF HouseTypeOK
<1>2. /\ bets[b].status = "Placed"
      /\ totalPendingExposure >= bets[b].reservedExposure
      /\ bets' = [bets EXCEPT ![b].status = "Settled", ![b].payout = paid]
      /\ totalPendingExposure' = totalPendingExposure - bets[b].reservedExposure
      /\ usdc' = usdc - paid
      /\ UNCHANGED <<maxMultiplierX100, rtpBps, rounds, currentRoundId>>
  BY DEF settleGame
<1> HIDE DEF paid
<1>3. HouseTypeOK'
  <2>1. usdc' \in Nat /\ totalPendingExposure' \in Nat
    BY <1>1, <1>2 DEF HouseTypeOK
  <2>2. bets' \in [BetIds -> BetType]
    BY HouseAssumption, SettledBet
  <2>3. rounds' \in [RoundIds -> RoundType]
    BY <1>2, TypesNamed
  <2>4. /\ maxMultiplierX100' \in [Games -> Nat]
        /\ rtpBps' \in 5000..9900
        /\ currentRoundId' \in RoundIds
    BY <1>2, TypesNamed
  <2> QED BY ONLY <2>1, <2>2, <2>3, <2>4 DEF HouseTypeOK, BetType, RoundType
<1>4. ExposureTracked'
  <2>2. (\A c \in BetIds : c # b => bets'[c] = bets[c]) /\ bets'[b].status = "Settled"
    BY HouseAssumption, SettledBet
  <2>1. pendingExposure(b) = bets[b].reservedExposure /\ pendingExposure(b)' = 0
    BY <1>2, <2>2 DEF pendingExposure
  <2>3. totalPendingExposure' =
            totalPendingExposure + (pendingExposure(b)' - pendingExposure(b))
    BY <2>1, <1>2 DEF HouseTypeOK
  <2> QED BY <2>2, <2>3, <1>3, ExposureMoves
<1>5. RoundsOpened' /\ PoolCapHeld'
  BY <1>2 DEF RoundsOpened, PoolCapHeld
<1> QED BY <1>3, <1>4, <1>5

LEMMA JoinInv ==
    ASSUME HouseInv, NEW r \in RoundIds, NEW amount \in StakeChoices, joinPoolRound(r, amount)
    PROVE  HouseInv'
<1> USE DEF HouseInv
<1>1. amount \in Nat
  BY HouseAssumption
<1>2. /\ usdc' = usdc + amount
      /\ UNCHANGED <<bets, totalPendingExposure, maxMultiplierX100, rtpBps, currentRoundId>>
  BY DEF joinPoolRound
<1>7. /\ rounds' \in [RoundIds -> RoundType]
      /\ rounds'[r].opened
      /\ rounds'[r].totalDeposits = rounds[r].totalDeposits + amount
      /\ rounds'[r].totalPayouts = rounds[r].totalPayouts
      /\ \A q \in RoundIds : q # r => rounds'[q] = rounds[q]
  BY HouseAssumption, JoinedRound
<1>3. HouseTypeOK'
  <2>1. usdc' \in Nat
    BY <1>1, <1>2 DEF HouseTypeOK
  <2> QED BY <2>1, <1>2, <1>7 DEF HouseTypeOK, RoundType
<1>4. ExposureTracked'
  BY <1>2, ExposureStays
<1>5. RoundsOpened'
  BY <1>7 DEF RoundsOpened
<1>6. PoolCapHeld'
  <2> SUFFICES ASSUME NEW q \in RoundIds
               PROVE  rounds'[q].totalPayouts * 10000
                        <= rounds'[q].totalDeposits * PAYOUT_CAP_BPS
    BY DEF PoolCapHeld
  <2>1. rounds[q].totalPayouts * 10000 <= rounds[q].totalDeposits * PAYOUT_CAP_BPS
    BY DEF PoolCapHeld
  <2>2. CASE q # r
    BY <2>1, <2>2, <1>7
  <2>3. CASE q = r
    <3> DEFINE before == rounds[q].totalDeposits
               after == rounds'[q].totalDeposits
    <3>1. before \in Nat /\ after \in Nat /\ before <= after /\ PAYOUT_CAP_BPS \in Nat
      <4>1. before \in Nat
        BY <2>3 DEF HouseTypeOK
      <4>2. after = before + amount
        BY <2>3, <1>7
      <4> QED BY HouseAssumption, <4>1, <4>2, <1>1
    <3>2. rounds'[q].totalPayouts = rounds[q].totalPayouts /\ rounds[q].totalPayouts \in Nat
      BY <2>3, <1>7 DEF HouseTypeOK
    <3> HIDE DEF before, after
    <3>3. before * PAYOUT_CAP_BPS <= after * PAYOUT_CAP_BPS
      BY <3>1, ProductMonotone
    <3>4. rounds[q].totalPayouts * 10000 <= before * PAYOUT_CAP_BPS
      BY <2>1 DEF before
    <3>5. before * PAYOUT_CAP_BPS \in Nat /\ after * PAYOUT_CAP_BPS \in Nat
      BY <3>1, ProductNat
    <3>6. rounds'[q].totalPayouts * 10000 <= after * PAYOUT_CAP_BPS
      BY <3>2, <3>3, <3>4, <3>5
    <3> QED BY <3>6 DEF after
  <2> QED BY <2>2, <2>3
<1> QED BY <1>3, <1>4, <1>5, <1>6

LEMMA ResolveInv ==
    ASSUME HouseInv, NEW r \in RoundIds, NEW paid \in PoolPayouts, resolvePoolRound(r, paid)
    PROVE  /\ HouseInv'
           /\ \A q \in RoundIds :
                  rounds[q].resolved /\ rounds[q].totalDeposits > 0 => rounds'[q] = rounds[q]
<1> USE DEF HouseInv
<1> DEFINE cap == (rounds[r].totalDeposits * PAYOUT_CAP_BPS) \div 10000
<1>1. /\ r < MaxRounds
      /\ ~rounds[r].resolved
      /\ paid <= cap
      /\ paid <= usdc
      /\ rounds' = [k \in RoundIds |->
                      IF k = r THEN [rounds[r] EXCEPT !.resolved = TRUE, !.totalPayouts = paid]
                      ELSE IF k = r + 1 /\ ~rounds[k].opened THEN OpenRound
                      ELSE rounds[k]]
      /\ currentRoundId' = r + 1
      /\ usdc' = usdc - paid
      /\ UNCHANGED <<bets, totalPendingExposure, maxMultiplierX100, rtpBps>>
  BY DEF resolvePoolRound
<1>2. paid \in Nat /\ usdc \in Nat /\ PAYOUT_CAP_BPS \in Nat
      /\ rounds \in [RoundIds -> RoundType] /\ rounds[r] \in RoundType
  BY HouseAssumption, TypesNamed
<1>3. paid * 10000 <= rounds[r].totalDeposits * PAYOUT_CAP_BPS
  <2> DEFINE z == rounds[r].totalDeposits * PAYOUT_CAP_BPS
  <2>1. z \in Nat
    BY <1>2, ProductNat DEF RoundType
  <2>2. paid <= z \div 10000
    BY <1>1
  <2> HIDE DEF z
  <2>3. (z \div 10000) * 10000 <= z /\ z \div 10000 \in Nat
    BY <2>1, DivScaled, QuotientNat
  <2>4. paid * 10000 <= z
    BY <2>1, <2>2, <2>3, <1>2
  <2> QED BY <2>4 DEF z
<1> HIDE DEF cap
<1>4. /\ rounds'[r].totalPayouts = paid
      /\ rounds'[r].totalDeposits = rounds[r].totalDeposits
      /\ rounds[r].opened => rounds'[r].opened
      /\ rounds'[r] \in RoundType
  <2>1. rounds'[r] = [rounds[r] EXCEPT !.resolved = TRUE, !.totalPayouts = paid]
    BY <1>1
  <2> DEFINE x == rounds[r]
             y == rounds'[r]
  <2>2. x \in RoundType /\ paid \in Nat /\ y = [x EXCEPT !.resolved = TRUE, !.totalPayouts = paid]
    BY <2>1, <1>2
  <2> HIDE DEF x, y
  <2>3. /\ y.totalPayouts = paid
        /\ y.totalDeposits = x.totalDeposits
        /\ x.opened => y.opened
        /\ y \in RoundType
    <3> DEFINE z == [x EXCEPT !.resolved = TRUE]
    <3>1. y.totalPayouts = paid /\ y.totalDeposits = x.totalDeposits
      BY <2>2 DEF RoundType
    <3>2. x.opened => y.opened
      BY <2>2 DEF RoundType
    <3>3. z \in RoundType
      <4>1. x \in RoundType
        BY <2>2
      <4> QED BY ONLY <4>1 DEF RoundType
    <3>4. y = [z EXCEPT !.totalPayouts = paid]
      BY <2>2 DEF RoundType
    <3> HIDE DEF z
    <3>5. y \in RoundType
      BY <2>2, <3>3, <3>4 DEF RoundType
    <3> QED BY <3>1, <3>2, <3>5
  <2> QED BY <2>3 DEF x, y
<1>5. \A q \in RoundIds : q # r =>
          \/ rounds'[q] = rounds[q]
          \/ rounds'[q] = OpenRound /\ ~rounds[q].opened
  BY <1>1
<1>6. HouseTypeOK'
  <2>1. rounds' \in [RoundIds -> RoundType]
    <3>1. \A q \in RoundIds : rounds'[q] \in RoundType
      <4>1. OpenRound \in RoundType /\ \A q \in RoundIds : rounds[q] \in RoundType
        BY <1>2, InitialRecords
      <4> QED BY ONLY <4>1, <1>4, <1>5
    <3>2. rounds' = [q \in RoundIds |-> rounds'[q]]
      BY ONLY <1>1
    <3> QED BY ONLY <3>1, <3>2
  <2>2. usdc' \in Nat
    BY <1>1, <1>2
  <2>3. currentRoundId' \in RoundIds
    BY HouseAssumption, <1>1 DEF RoundIds
  <2>4. /\ bets' \in [BetIds -> BetType] /\ totalPendingExposure' \in Nat
        /\ maxMultiplierX100' \in [Games -> Nat] /\ rtpBps' \in 5000..9900
    BY <1>1, TypesNamed
  <2> QED BY <2>1, <2>2, <2>3, <2>4 DEF HouseTypeOK, BetType, RoundType
<1>7. ExposureTracked'
  BY <1>1, ExposureStays
<1>8. RoundsOpened'
  BY <1>4, <1>5, InitialRecords DEF RoundsOpened
<1>9. PoolCapHeld'
  <2>1. \A q \in RoundIds : rounds'[q] = OpenRound =>
            rounds'[q].totalPayouts * 10000 <= rounds'[q].totalDeposits * PAYOUT_CAP_BPS
    BY <1>2, InitialRecords
  <2> QED BY <1>3, <1>4, <1>5, <2>1 DEF PoolCapHeld
<1>10. \A q \in RoundIds :
           rounds[q].resolved /\ rounds[q].totalDeposits > 0 => rounds'[q] = rounds[q]
  <2>1. ~rounds[r].resolved /\ RoundsOpened
    BY <1>1
  <2> QED BY ONLY <2>1, <1>5 DEF RoundsOpened
<1> QED BY <1>6, <1>7, <1>8, <1>9, <1>10

LEMMA AdminInv ==
    ASSUME HouseInv, houseAdmin
    PROVE  HouseInv' /\ UNCHANGED <<bets, rounds, totalPendingExposure>>
<1> USE DEF HouseInv
<1>1. ASSUME NEW a \in BankrollChoices, depositBankroll(a)
      PROVE  HouseTypeOK' /\ UNCHANGED <<bets, rounds, totalPendingExposure>>
  BY HouseAssumption, <1>1 DEF depositBankroll, HouseTypeOK
<1>2. ASSUME NEW a \in BankrollChoices, withdrawBankroll(a)
      PROVE  HouseTypeOK' /\ UNCHANGED <<bets, rounds, totalPendingExposure>>
  BY HouseAssumption, <1>2 DEF withdrawBankroll, HouseTypeOK, Excess
<1>3. ASSUME NEW g \in Games, NEW x \in MultiplierChoices, setMaxMultiplier(g, x)
      PROVE  HouseTypeOK' /\ UNCHANGED <<bets, rounds, totalPendingExposure>>
  BY HouseAssumption, <1>3 DEF setMaxMultiplier, HouseTypeOK
<1>4. ASSUME NEW x \in RtpChoices, setRtp(x)
      PROVE  HouseTypeOK' /\ UNCHANGED <<bets, rounds, totalPendingExposure>>
  BY HouseAssumption, <1>4 DEF setRtp, HouseTypeOK
<1>5. HouseTypeOK' /\ UNCHANGED <<bets, rounds, totalPendingExposure>>
  BY <1>1, <1>2, <1>3, <1>4 DEF houseAdmin
<1>6. ExposureTracked'
  BY <1>5, ExposureStays
<1>7. RoundsOpened' /\ PoolCapHeld'
  BY <1>5 DEF RoundsOpened, PoolCapHeld
<1> QED BY <1>5, <1>6, <1>7

(* Every transaction keeps the invariant. *)
THEOREM HouseNextInv == HouseInv /\ [HouseNext]_houseVars => HouseInv'
<1> SUFFICES ASSUME HouseInv, [HouseNext]_houseVars PROVE HouseInv'
  OBVIOUS
<1>1. ASSUME NEW b \in BetIds, NEW a \in StakeChoices, NEW g \in Games, placeCasinoBet(b, a, g)
      PROVE  HouseInv'
  BY <1>1, PlaceInv
<1>2. ASSUME NEW b \in BetIds, NEW payout \in Payouts, settleGame(b, payout)
      PROVE  HouseInv'
  BY <1>2, SettleInv, HouseAssumption
<1>3. ASSUME NEW r \in RoundIds, NEW a \in StakeChoices, joinPoolRound(r, a)
      PROVE  HouseInv'
  BY <1>3, JoinInv
<1>4. ASSUME NEW r \in RoundIds, NEW paid \in PoolPayouts, resolvePoolRound(r, paid)
      PROVE  HouseInv'
  BY <1>4, ResolveInv
<1>5. CASE houseAdmin
  BY <1>5, AdminInv
<1>6. CASE UNCHANGED houseVars
  BY <1>6 DEF houseVars, HouseInv, HouseTypeOK, ExposureTracked, pendingExposure,
              RoundsOpened, PoolCapHeld
<1> QED BY <1>1, <1>2, <1>3, <1>4, <1>5, <1>6 DEF HouseNext

(* The invariant holds of the whole specification. *)
THEOREM HouseInvariant == HouseSpec => []HouseInv
<1> QED BY HouseInitInv, HouseNextInv, PTL DEF HouseSpec

-----------------------------------------------------------------------------
(* Every variable keeps its type, the contract's balance and its exposure  *)
(* counter never going below zero, for any parameters.                     *)
THEOREM HouseTyped == HouseSpec => []HouseTypeOK
<1>1. HouseInv => HouseTypeOK
  BY DEF HouseInv
<1> QED BY <1>1, HouseInvariant, PTL

(* The exposure counter that capacity checks and bankroll withdrawals      *)
(* subtract is the sum of the open reservations, in every history of bets, *)
(* settlements and multiplier changes.                                     *)
THEOREM HouseExposure == HouseSpec => []ExposureTracked
<1>1. HouseInv => ExposureTracked
  BY DEF HouseInv
<1> QED BY <1>1, HouseInvariant, PTL

(* No pool round pays more than its share of its own deposits.             *)
THEOREM HousePoolCap == HouseSpec => []PoolCapHeld
<1>1. HouseInv => PoolCapHeld
  BY DEF HouseInv
<1> QED BY <1>1, HouseInvariant, PTL

(* While the balance covers the exposure, each open bet's own reservation  *)
(* is within the balance and within the capacity the server asks for: the  *)
(* reservation is a term of the exposure, so at most the sum.              *)
THEOREM HouseCovered == HouseSpec => []CoveredIsPaid
<1>1. HouseInv => CoveredIsPaid
  <2> SUFFICES ASSUME HouseInv, usdc >= totalPendingExposure,
                      NEW b \in BetIds, bets[b].status = "Placed"
               PROVE  /\ bets[b].reservedExposure <= usdc
                      /\ bets[b].reservedExposure <= availableCapacityFor(b)
    BY DEF CoveredIsPaid
  <2>1. HouseTypeOK /\ ExposureTracked
    BY DEF HouseInv
  <2>2. \A c \in 1..MaxBets : exposures[c] \in Nat
    BY <2>1, ExposuresNat DEF BetIds
  <2>3. exposures[b] <= SumTo(exposures, MaxBets)
    BY <2>2, SumTerm, HouseAssumption DEF BetIds
  <2>4. exposures[b] = bets[b].reservedExposure
    BY DEF exposures, pendingExposure
  <2>5. SumTo(exposures, MaxBets) = totalPendingExposure
    BY <2>1 DEF ExposureTracked, exposures
  <2>6. /\ bets[b].reservedExposure \in Nat /\ usdc \in Nat /\ totalPendingExposure \in Nat
        /\ bets[b].reservedExposure <= totalPendingExposure
    BY <2>1, <2>3, <2>4, <2>5 DEF HouseTypeOK
  <2> QED BY <2>6 DEF availableCapacityFor, Excess
<1> QED BY <1>1, HouseInvariant, PTL

(* A covered bankroll stays covered across settlements, withdrawals, joins *)
(* and parameter changes.                                                  *)
THEOREM HouseCoverage == HouseSpec => CoverageKept
<1> DEFINE Kept == usdc >= totalPendingExposure
                   /\ (\A b \in BetIds :
                          bets'[b].status # bets[b].status =>
                              bets[b].status = "Placed"
                              /\ bets'[b].payout <= bets[b].reservedExposure)
                   /\ (\A r \in RoundIds : rounds[r].resolved = rounds'[r].resolved)
                     => usdc' >= totalPendingExposure'
<1>1. HouseInv /\ [HouseNext]_houseVars => [Kept]_houseVars
  <2> SUFFICES ASSUME HouseInv, HouseNext, usdc >= totalPendingExposure,
                      \A b \in BetIds :
                          bets'[b].status # bets[b].status =>
                              bets[b].status = "Placed"
                              /\ bets'[b].payout <= bets[b].reservedExposure,
                      \A r \in RoundIds : rounds[r].resolved = rounds'[r].resolved
               PROVE  usdc' >= totalPendingExposure'
    OBVIOUS
  <2>0. HouseTypeOK
    BY DEF HouseInv
  <2>1. ASSUME NEW b \in BetIds, NEW a \in StakeChoices, NEW g \in Games,
               placeCasinoBet(b, a, g)
        PROVE  FALSE
    <3>1. bets'[b].status = "Placed" /\ bets[b].status = "None"
      BY <2>0, <2>1 DEF placeCasinoBet, HouseTypeOK
    <3> QED BY <3>1
  <2>2. ASSUME NEW b \in BetIds, NEW payout \in Payouts, settleGame(b, payout)
        PROVE  usdc' >= totalPendingExposure'
    <3> DEFINE paid == IF payout > usdc THEN usdc ELSE payout
    <3>0. /\ usdc \in Nat /\ totalPendingExposure \in Nat /\ payout \in Nat
          /\ bets[b].reservedExposure \in Nat
      BY HouseAssumption, <2>0 DEF HouseTypeOK
    <3>1. paid \in Nat
      BY <3>0
    <3>2. /\ bets[b].status = "Placed"
          /\ totalPendingExposure' = totalPendingExposure - bets[b].reservedExposure
          /\ usdc' = usdc - paid
          /\ bets' = [bets EXCEPT ![b].status = "Settled", ![b].payout = paid]
      BY <2>2 DEF settleGame
    <3> HIDE DEF paid
    <3>3. bets'[b].status = "Settled" /\ bets'[b].payout = paid
      <4>1. bets \in [BetIds -> BetType]
        BY <2>0, TypesNamed
      <4> QED BY <3>2, <4>1 DEF BetType
    <3>4. bets'[b].status # bets[b].status
      BY <3>2, <3>3
    <3>5. paid <= bets[b].reservedExposure
      BY <3>3, <3>4
    <3> QED BY <3>0, <3>1, <3>2, <3>5
  <2>3. ASSUME NEW r \in RoundIds, NEW a \in StakeChoices, joinPoolRound(r, a)
        PROVE  usdc' >= totalPendingExposure'
    <3>1. usdc \in Nat /\ totalPendingExposure \in Nat /\ a \in Nat
      BY HouseAssumption, <2>0 DEF HouseTypeOK
    <3>2. usdc' = usdc + a /\ totalPendingExposure' = totalPendingExposure
      BY <2>3 DEF joinPoolRound
    <3>3. usdc >= totalPendingExposure
      OBVIOUS
    <3> QED BY ONLY <3>1, <3>2, <3>3
  <2>4. ASSUME NEW r \in RoundIds, NEW paid \in PoolPayouts, resolvePoolRound(r, paid)
        PROVE  FALSE
    <3>1. ~rounds[r].resolved
      BY <2>4 DEF resolvePoolRound
    <3>2. rounds'[r] = [rounds[r] EXCEPT !.resolved = TRUE, !.totalPayouts = paid]
      BY <2>4 DEF resolvePoolRound
    <3>3. rounds[r] \in RoundType
      BY <2>0, TypesNamed
    <3>4. rounds'[r].resolved
      BY <3>2, <3>3 DEF RoundType
    <3> QED BY <3>1, <3>4
  <2>5. CASE houseAdmin
    <3>1. usdc \in Nat /\ totalPendingExposure \in Nat
      BY <2>0 DEF HouseTypeOK
    <3> QED BY HouseAssumption, <2>5, <3>1 DEF houseAdmin, depositBankroll, withdrawBankroll,
                              setMaxMultiplier, setRtp, Excess
  <2> QED BY <2>1, <2>2, <2>3, <2>4, <2>5 DEF HouseNext
<1> QED BY <1>1, HouseInvariant, PTL DEF HouseSpec, CoverageKept

(* A resolved round that took deposits never changes again.                *)
THEOREM HouseResolved == HouseSpec => ResolvedForGood
<1> DEFINE Same == \A r \in RoundIds :
               rounds[r].resolved /\ rounds[r].totalDeposits > 0 => rounds'[r] = rounds[r]
<1>1. HouseInv /\ [HouseNext]_houseVars => [Same]_houseVars
  <2> SUFFICES ASSUME HouseInv, HouseNext PROVE Same
    OBVIOUS
  <2>1. ASSUME NEW b \in BetIds, NEW a \in StakeChoices, NEW g \in Games,
               placeCasinoBet(b, a, g)
        PROVE  Same
    BY <2>1 DEF placeCasinoBet
  <2>2. ASSUME NEW b \in BetIds, NEW payout \in Payouts, settleGame(b, payout)
        PROVE  Same
    BY <2>2 DEF settleGame
  <2>3. ASSUME NEW r \in RoundIds, NEW a \in StakeChoices, joinPoolRound(r, a)
        PROVE  Same
    <3>1. HouseTypeOK /\ a \in Nat /\ ~rounds[r].resolved
      BY <2>3, HouseAssumption DEF HouseInv, joinPoolRound
    <3>2. \A q \in RoundIds : q # r => rounds'[q] = rounds[q]
      BY <2>3, <3>1, JoinedRound
    <3> QED BY <3>1, <3>2
  <2>4. ASSUME NEW r \in RoundIds, NEW paid \in PoolPayouts, resolvePoolRound(r, paid)
        PROVE  Same
    BY <2>4, ResolveInv
  <2>5. CASE houseAdmin
    BY <2>5, AdminInv
  <2> QED BY <2>1, <2>2, <2>3, <2>4, <2>5 DEF HouseNext
<1> QED BY <1>1, HouseInvariant, PTL DEF HouseSpec, ResolvedForGood

-----------------------------------------------------------------------------
(* The bet route *)

RequestType == [pc : {"Idle", "Checking", "Reading", "Submitting", "Sent", "Persisting", "Done"},
                bet : BetIds \cup {0}, outcome : Payouts, finalPayout : Nat, confirmed : BOOLEAN,
                answer : {"None", "Result", "AlreadySettled", "Error"}]
RowType == [exists : BOOLEAN, payout : Nat, confirmed : BOOLEAN]

(* What request r holds of its bet's settlement and what it was answered   *)
(* are those of the chain and of the row, whichever request wrote them.    *)
HoldsTruth(r, chainBets, betRows) ==
    /\ r.pc # "Idle" => r.bet \in BetIds
    /\ r.pc = "Persisting" /\ r.confirmed =>
          chainBets[r.bet].status = "Settled" /\ r.finalPayout = chainBets[r.bet].payout
    /\ r.answer = "Result" =>
          r.pc = "Done" /\ betRows[r.bet].exists /\ r.finalPayout = betRows[r.bet].payout

RouteInv ==
    /\ requests \in [Requests -> RequestType]
    /\ rows \in [BetIds -> RowType]
    /\ \A q \in Requests : HoldsTruth(requests[q], bets, rows)
    /\ ConfirmedRowTrue

BetInv == HouseInv /\ RouteInv

(* A settlement and a recorded row are final. *)
SettlementsStand == \A b \in BetIds : bets[b].status = "Settled" => bets'[b] = bets[b]
RecordsStand == \A b \in BetIds : rows[b].exists => rows'[b] = rows[b]

LEMMA SettleStands ==
    ASSUME HouseInv, NEW b \in BetIds, NEW payout \in Nat, settleGame(b, payout)
    PROVE  HouseInv' /\ SettlementsStand /\ bets'[b].status = "Settled" /\ bets'[b].payout \in Nat
<1>1. HouseInv' /\ HouseTypeOK /\ HouseTypeOK'
  BY SettleInv DEF HouseInv
<1>2. bets[b].status = "Placed"
  BY DEF settleGame
<1>3. bets'[b].status = "Settled" /\ \A c \in BetIds : c # b => bets'[c] = bets[c]
  BY <1>1, SettledBet
<1>4. bets'[b].payout \in Nat
  BY <1>1 DEF HouseTypeOK
<1> QED BY <1>1, <1>2, <1>3, <1>4 DEF SettlementsStand

(* Request q moves on, with what it now holds true; every other request    *)
(* keeps what it had.                                                      *)
LEMMA RequestMoves ==
    ASSUME RouteInv, SettlementsStand, RecordsStand, ConfirmedRowTrue', rows' \in [BetIds -> RowType],
           NEW q \in Requests, NEW r \in RequestType, requests' = [requests EXCEPT ![q] = r],
           HoldsTruth(r, bets', rows')
    PROVE  RouteInv'
<1>1. \A p \in Requests : requests'[p] = IF p = q THEN r ELSE requests[p]
  BY DEF RouteInv
<1>2. requests' \in [Requests -> RequestType]
  BY DEF RouteInv
<1>3. ASSUME NEW p \in Requests, p # q
      PROVE  HoldsTruth(requests[p], bets', rows')
  <2>1. HoldsTruth(requests[p], bets, rows) /\ requests[p] \in RequestType
    BY DEF RouteInv
  <2>2. requests[p].pc = "Persisting" \/ requests[p].answer = "Result" => requests[p].bet \in BetIds
    BY <2>1 DEF HoldsTruth
  <2> QED BY <2>1, <2>2 DEF HoldsTruth, SettlementsStand, RecordsStand
<1> QED BY <1>1, <1>2, <1>3 DEF RouteInv

(* A step of the contract alone leaves the route's state true.             *)
LEMMA RouteStays ==
    ASSUME RouteInv, SettlementsStand, UNCHANGED routeVars
    PROVE  RouteInv'
<1>1. requests' = requests /\ rows' = rows
  BY DEF routeVars
<1>2. ASSUME NEW p \in Requests
      PROVE  HoldsTruth(requests[p], bets', rows')
  <2>1. HoldsTruth(requests[p], bets, rows)
    BY DEF RouteInv
  <2> QED BY <1>1, <2>1 DEF HoldsTruth, SettlementsStand
<1>3. ConfirmedRowTrue'
  BY <1>1 DEF RouteInv, ConfirmedRowTrue, SettlementsStand
<1> QED BY <1>1, <1>2, <1>3 DEF RouteInv

(* Steps of the route that await nothing: the contract and the rows stay.  *)
LEMMA RouteReads ==
    ASSUME BetInv, NEW q \in Requests, NEW r \in RequestType,
           requests' = [requests EXCEPT ![q] = r], UNCHANGED <<houseVars, rows>>,
           HoldsTruth(r, bets, rows)
    PROVE  BetInv'
<1>1. HouseInv /\ RouteInv /\ bets' = bets /\ rows' = rows /\ UNCHANGED houseVars
  BY DEF BetInv, houseVars
<1>2. HouseInv'
  BY <1>1, HouseNextInv
<1>3. SettlementsStand /\ RecordsStand
  BY <1>1 DEF SettlementsStand, RecordsStand
<1>4. ConfirmedRowTrue' /\ rows' \in [BetIds -> RowType]
  BY <1>1 DEF RouteInv, ConfirmedRowTrue
<1>5. HoldsTruth(r, bets', rows')
  BY <1>1
<1>6. RouteInv'
  BY <1>1, <1>3, <1>4, <1>5, RequestMoves
<1> QED BY <1>2, <1>6 DEF BetInv

LEMMA ReceiveInv ==
    ASSUME BetInv, NEW q \in Requests, NEW b \in BetIds, receive(q, b)
    PROVE  BetInv'
<1> DEFINE r == [NoRequest EXCEPT !.pc = "Checking", !.bet = b]
<1>1. r \in RequestType /\ r.pc = "Checking" /\ r.bet = b /\ r.answer = "None"
  BY RouteAssumption DEF NoRequest, RequestType
<1>2. requests' = [requests EXCEPT ![q] = r] /\ UNCHANGED <<houseVars, rows>>
  BY DEF receive
<1> HIDE DEF r
<1>3. HoldsTruth(r, bets, rows)
  BY <1>1 DEF HoldsTruth
<1> QED BY <1>1, <1>2, <1>3, RouteReads

LEMMA CheckInv ==
    ASSUME BetInv, NEW q \in Requests, checkExisting(q)
    PROVE  BetInv'
<1> DEFINE b == betOf(q)
           shown == [requests[q] EXCEPT !.pc = "Done", !.answer = "Result",
                                        !.finalPayout = rows[b].payout]
           goesOn == [requests[q] EXCEPT !.pc = "Reading"]
<1>1. requests[q] \in RequestType /\ requests[q].pc = "Checking" /\ HoldsTruth(requests[q], bets, rows)
      /\ b = requests[q].bet /\ rows \in [BetIds -> RowType]
  BY DEF BetInv, RouteInv, checkExisting, betOf
<1>2. b \in BetIds /\ rows[b].payout \in Nat /\ requests[q].answer # "Result"
  BY <1>1 DEF HoldsTruth, RowType
<1>3. requests' = [requests EXCEPT ![q] = IF rows[b].exists THEN shown ELSE goesOn]
      /\ UNCHANGED <<houseVars, rows>>
  BY DEF checkExisting
<1> HIDE DEF b
<1>4. /\ shown \in RequestType /\ shown.pc = "Done" /\ shown.answer = "Result"
      /\ shown.bet = b /\ shown.finalPayout = rows[b].payout
  BY <1>1, <1>2 DEF RequestType
<1>5. /\ goesOn \in RequestType /\ goesOn.pc = "Reading" /\ goesOn.bet = b
      /\ goesOn.answer = requests[q].answer
  BY <1>1 DEF RequestType
<1> HIDE DEF shown, goesOn
<1>6. rows[b].exists => HoldsTruth(shown, bets, rows)
  BY <1>2, <1>4 DEF HoldsTruth
<1>7. HoldsTruth(goesOn, bets, rows)
  BY <1>2, <1>5 DEF HoldsTruth
<1>8. CASE rows[b].exists
  BY <1>3, <1>4, <1>6, <1>8, RouteReads
<1>9. CASE ~rows[b].exists
  BY <1>3, <1>5, <1>7, <1>9, RouteReads
<1> QED BY <1>8, <1>9

LEMMA ReadCapacityInv ==
    ASSUME BetInv, NEW q \in Requests, NEW natural \in Payouts, readCapacityAndResolve(q, natural)
    PROVE  BetInv'
<1> DEFINE drawn == gated(natural, bets[betOf(q)].amount, availableCapacityFor(betOf(q)))
           r == [requests[q] EXCEPT !.pc = "Submitting", !.outcome = drawn]
<1>1. requests[q] \in RequestType /\ requests[q].pc = "Reading" /\ HoldsTruth(requests[q], bets, rows)
  BY DEF BetInv, RouteInv, readCapacityAndResolve
<1>2. drawn \in Payouts
  BY RouteAssumption DEF gated
<1>3. requests' = [requests EXCEPT ![q] = r] /\ UNCHANGED <<houseVars, rows>>
  BY DEF readCapacityAndResolve
<1> HIDE DEF drawn
<1>4. /\ r \in RequestType /\ r.pc = "Submitting" /\ r.bet = requests[q].bet
      /\ r.answer = requests[q].answer
  BY <1>1, <1>2 DEF RequestType
<1> HIDE DEF r
<1>5. HoldsTruth(r, bets, rows)
  BY <1>1, <1>4 DEF HoldsTruth
<1> QED BY <1>3, <1>4, <1>5, RouteReads

LEMMA SubmitInv ==
    ASSUME BetInv, NEW q \in Requests, submit(q)
    PROVE  BetInv'
<1> DEFINE sent == [requests[q] EXCEPT !.pc = "Sent"]
           refused == [requests[q] EXCEPT !.pc = "Done", !.answer = "AlreadySettled"]
<1>1. requests[q] \in RequestType /\ requests[q].pc = "Submitting" /\ HoldsTruth(requests[q], bets, rows)
  BY DEF BetInv, RouteInv, submit
<1>2. requests' = [requests EXCEPT ![q] = IF bets[betOf(q)].status = "Placed" THEN sent ELSE refused]
      /\ UNCHANGED <<houseVars, rows>>
  BY DEF submit
<1>3. /\ sent \in RequestType /\ sent.pc = "Sent" /\ sent.bet = requests[q].bet
      /\ sent.answer = requests[q].answer
  BY <1>1 DEF RequestType
<1>4. /\ refused \in RequestType /\ refused.pc = "Done" /\ refused.bet = requests[q].bet
      /\ refused.answer = "AlreadySettled"
  BY <1>1 DEF RequestType
<1> HIDE DEF sent, refused
<1>5. HoldsTruth(sent, bets, rows) /\ HoldsTruth(refused, bets, rows)
  BY <1>1, <1>3, <1>4 DEF HoldsTruth
<1> QED BY <1>2, <1>3, <1>4, <1>5, RouteReads

LEMMA RevertedInv ==
    ASSUME BetInv, NEW q \in Requests, minedReverted(q)
    PROVE  BetInv'
<1> DEFINE r == [requests[q] EXCEPT !.pc = "Persisting", !.finalPayout = requests[q].outcome,
                                    !.confirmed = FALSE]
<1>1. /\ requests[q] \in RequestType /\ requests[q].pc = "Sent" /\ HoldsTruth(requests[q], bets, rows)
      /\ Payouts \subseteq Nat
  BY HouseAssumption DEF BetInv, RouteInv, minedReverted
<1>2. requests' = [requests EXCEPT ![q] = r] /\ UNCHANGED <<houseVars, rows>>
  BY DEF minedReverted
<1>3. /\ r \in RequestType /\ r.pc = "Persisting" /\ r.bet = requests[q].bet
      /\ r.answer = requests[q].answer /\ ~r.confirmed
  BY <1>1 DEF RequestType
<1> HIDE DEF r
<1>4. HoldsTruth(r, bets, rows)
  BY <1>1, <1>3 DEF HoldsTruth
<1> QED BY <1>2, <1>3, <1>4, RouteReads

(* A request that dies, or is refused, ends without a result.              *)
LEMMA DieInv ==
    ASSUME BetInv, NEW q \in Requests, die(q)
    PROVE  BetInv'
<1> DEFINE r == [requests[q] EXCEPT !.pc = "Done", !.answer = "Error"]
<1>1. /\ requests[q] \in RequestType /\ requests[q].pc # "Idle"
      /\ HoldsTruth(requests[q], bets, rows) /\ requests \in [Requests -> RequestType]
  BY DEF BetInv, RouteInv, die
<1>2. requests' = [requests EXCEPT ![q] = r] /\ UNCHANGED <<houseVars, rows>>
  BY <1>1 DEF die
<1>3. r \in RequestType /\ r.pc = "Done" /\ r.bet = requests[q].bet /\ r.answer = "Error"
  BY <1>1 DEF RequestType
<1> HIDE DEF r
<1>4. HoldsTruth(r, bets, rows)
  BY <1>1, <1>3 DEF HoldsTruth
<1> QED BY <1>2, <1>3, <1>4, RouteReads

(* The settlement that is mined makes the bet's payout final; the request  *)
(* that sees the receipt holds that payout.                                *)
LEMMA MinedInv ==
    ASSUME BetInv, NEW q \in Requests, minedSettled(q) \/ receiptLost(q)
    PROVE  BetInv'
<1> DEFINE b == betOf(q)
           paid == bets'[b].payout
           seen == [requests[q] EXCEPT !.pc = "Persisting", !.finalPayout = paid,
                                       !.confirmed = TRUE]
           lost == [requests[q] EXCEPT !.pc = "Done", !.answer = "AlreadySettled"]
<1>1. /\ HouseInv /\ RouteInv /\ requests[q] \in RequestType /\ requests[q].pc = "Sent"
      /\ HoldsTruth(requests[q], bets, rows) /\ b = requests[q].bet
      /\ settleGame(b, requests[q].outcome) /\ rows' = rows
      /\ requests \in [Requests -> RequestType]
  BY DEF BetInv, RouteInv, minedSettled, receiptLost, betOf
<1>2. b \in BetIds /\ requests[q].outcome \in Nat /\ requests[q].answer # "Result"
  <2>1. requests[q].outcome \in Payouts
    BY <1>1 DEF RequestType
  <2>2. b \in BetIds /\ requests[q].answer # "Result"
    BY <1>1 DEF HoldsTruth
  <2>3. Payouts \subseteq Nat
    BY HouseAssumption
  <2> QED BY <2>1, <2>2, <2>3
<1>3. HouseInv' /\ SettlementsStand /\ bets'[b].status = "Settled" /\ paid \in Nat
  BY <1>1, <1>2, SettleStands
<1>4. \/ requests' = [requests EXCEPT ![q] = seen]
      \/ requests' = [requests EXCEPT ![q] = lost]
  BY <1>1 DEF minedSettled, receiptLost
<1>5. RecordsStand /\ ConfirmedRowTrue' /\ rows' \in [BetIds -> RowType]
  BY <1>1, <1>3 DEF RouteInv, RecordsStand, ConfirmedRowTrue, SettlementsStand
<1> HIDE DEF b, paid
<1>6. /\ seen \in RequestType /\ seen.pc = "Persisting" /\ seen.bet = b
      /\ seen.finalPayout = paid /\ seen.answer = requests[q].answer
  BY <1>1, <1>3 DEF RequestType
<1>7. lost \in RequestType /\ lost.pc = "Done" /\ lost.bet = b /\ lost.answer = "AlreadySettled"
  BY <1>1 DEF RequestType
<1> HIDE DEF seen, lost
<1>8. HoldsTruth(seen, bets', rows')
  BY <1>2, <1>3, <1>6 DEF HoldsTruth, paid
<1>9. HoldsTruth(lost, bets', rows')
  BY <1>2, <1>7 DEF HoldsTruth
<1>10. RouteInv'
  BY <1>1, <1>3, <1>4, <1>5, <1>6, <1>7, <1>8, <1>9, RequestMoves
<1> QED BY <1>3, <1>10 DEF BetInv

(* The first request to record the bet makes its row; a later one fails.   *)
LEMMA PersistInv ==
    ASSUME BetInv, NEW q \in Requests, persist(q)
    PROVE  BetInv'
<1> DEFINE b == betOf(q)
           new == [exists |-> TRUE, payout |-> requests[q].finalPayout,
                   confirmed |-> requests[q].confirmed]
           told == IF rows[b].exists THEN "Error" ELSE "Result"
           r == [requests[q] EXCEPT !.pc = "Done", !.answer = told]
<1>1. /\ HouseInv /\ RouteInv /\ requests[q] \in RequestType /\ requests[q].pc = "Persisting"
      /\ HoldsTruth(requests[q], bets, rows) /\ b = requests[q].bet
      /\ requests \in [Requests -> RequestType] /\ rows \in [BetIds -> RowType]
      /\ UNCHANGED houseVars /\ bets' = bets
  BY DEF BetInv, RouteInv, persist, betOf, houseVars
<1>2. b \in BetIds /\ new \in RowType /\ told \in {"Error", "Result"}
  BY <1>1 DEF HoldsTruth, RequestType, RowType
<1>3. requests' = [requests EXCEPT ![q] = r]
  BY <1>1 DEF persist
<1>4. rows' = IF rows[b].exists THEN rows ELSE [rows EXCEPT ![b] = new]
  BY DEF persist
<1>5. requests[q].confirmed => bets[b].status = "Settled" /\ requests[q].finalPayout = bets[b].payout
  BY <1>1 DEF HoldsTruth
<1>6. /\ rows' \in [BetIds -> RowType] /\ RecordsStand /\ rows'[b].exists
      /\ ~rows[b].exists => rows'[b].payout = requests[q].finalPayout
  BY <1>1, <1>2, <1>4 DEF RecordsStand
<1>7. ConfirmedRowTrue'
  <2>1. \A c \in BetIds : rows'[c] = rows[c] \/ (c = b /\ rows'[c] = new)
    BY <1>1, <1>2, <1>4
  <2> QED BY <1>1, <1>5, <2>1 DEF RouteInv, ConfirmedRowTrue
<1> HIDE DEF b
<1>8. /\ r \in RequestType /\ r.pc = "Done" /\ r.bet = b /\ r.answer = told
      /\ r.finalPayout = requests[q].finalPayout
  BY <1>1, <1>2 DEF RequestType
<1>9. told = "Result" => ~rows[b].exists
  OBVIOUS
<1> HIDE DEF r, told, new
<1>10. HoldsTruth(r, bets', rows')
  BY <1>2, <1>6, <1>8, <1>9 DEF HoldsTruth
<1>11. SettlementsStand
  BY <1>1 DEF SettlementsStand
<1>12. RouteInv'
  BY <1>1, <1>3, <1>6, <1>7, <1>8, <1>10, <1>11, RequestMoves
<1>13. HouseInv'
  BY <1>1, HouseNextInv
<1> QED BY <1>12, <1>13 DEF BetInv

(* What else happens on chain settles no bet.                              *)
LEMMA ElsewhereInv ==
    ASSUME BetInv, elsewhere
    PROVE  BetInv'
<1>1. HouseInv /\ RouteInv /\ UNCHANGED routeVars /\ bets \in [BetIds -> BetType]
  BY TypesNamed DEF BetInv, elsewhere, HouseInv
<1>2. HouseInv'
  BY <1>1, HouseNextInv DEF elsewhere, HouseNext
<1>3. SettlementsStand
  <2>1. ASSUME NEW b \in BetIds, NEW a \in StakeChoices, NEW g \in Games, placeCasinoBet(b, a, g)
        PROVE  SettlementsStand
    <3>1. bets[b].status = "None" /\ \A c \in BetIds : c # b => bets'[c] = bets[c]
      BY <1>1, <2>1 DEF placeCasinoBet
    <3> QED BY <3>1 DEF SettlementsStand
  <2>2. CASE \/ \E r \in RoundIds, a \in StakeChoices : joinPoolRound(r, a)
             \/ \E r \in RoundIds, paid \in PoolPayouts : resolvePoolRound(r, paid)
             \/ houseAdmin
    <3>1. ASSUME NEW r \in RoundIds, NEW a, joinPoolRound(r, a) \/ resolvePoolRound(r, a)
          PROVE  bets' = bets
      BY <3>1 DEF joinPoolRound, resolvePoolRound
    <3>2. houseAdmin => bets' = bets
      BY <1>1, AdminInv
    <3>3. bets' = bets
      BY <2>2, <3>1, <3>2
    <3> QED BY <3>3 DEF SettlementsStand
  <2> QED BY <2>1, <2>2 DEF elsewhere
<1>4. RouteInv'
  BY <1>1, <1>3, RouteStays
<1> QED BY <1>2, <1>4 DEF BetInv

(* Nothing is asked, placed or recorded when the route starts.             *)
THEOREM BetInitInv == BetInit => BetInv
<1> SUFFICES ASSUME BetInit PROVE BetInv
  OBVIOUS
<1>1. HouseInv /\ requests = [q \in Requests |-> NoRequest] /\ rows = [b \in BetIds |-> NoRow]
  BY HouseInitInv DEF BetInit
<1>2. /\ NoRequest \in RequestType /\ NoRequest.pc = "Idle" /\ NoRequest.answer = "None"
      /\ NoRow \in RowType /\ ~NoRow.confirmed
  BY RouteAssumption DEF NoRequest, NoRow, RequestType, RowType
<1>3. HoldsTruth(NoRequest, bets, rows)
  BY <1>2 DEF HoldsTruth
<1> QED BY <1>1, <1>2, <1>3 DEF BetInv, RouteInv, ConfirmedRowTrue

(* Whatever requests, faults and other bets do next, each request still     *)
(* holds what is true of its bet, and each row was true when it was made.  *)
THEOREM BetNextInv == BetInv /\ [BetNext]_betVars => BetInv'
<1> SUFFICES ASSUME BetInv, [BetNext]_betVars PROVE BetInv'
  OBVIOUS
<1>1. CASE UNCHANGED betVars
  <2>1. UNCHANGED houseVars /\ UNCHANGED routeVars /\ bets' = bets
    BY <1>1 DEF betVars, houseVars
  <2>2. HouseInv'
    BY <2>1, HouseNextInv DEF BetInv
  <2>3. RouteInv'
    BY <2>1, RouteStays DEF BetInv, SettlementsStand
  <2> QED BY <2>2, <2>3 DEF BetInv
<1>2. CASE BetNext
  BY <1>2, ElsewhereInv, ReceiveInv, CheckInv, ReadCapacityInv, SubmitInv, MinedInv, RevertedInv,
     PersistInv, DieInv DEF BetNext
<1> QED BY <1>1, <1>2

(* The route's inductive invariant, with the contract's own.               *)
THEOREM BetInvariant == BetSpec => []BetInv
<1> QED BY BetInitInv, BetNextInv, PTL DEF BetSpec

(* To the contract the route is one of its callers: whatever its requests  *)
(* do is a transaction of CasinoHouse or none at all, so every guarantee   *)
(* of the contract proved above holds beneath concurrent requests.         *)
THEOREM BetsImplementHouse == BetSpec => HouseSpec
<1>1. BetInit => HouseInit
  BY DEF BetInit
<1>2. BetInv /\ [BetNext]_betVars => [HouseNext]_houseVars
  <2> SUFFICES ASSUME BetInv, [BetNext]_betVars PROVE [HouseNext]_houseVars
    OBVIOUS
  <2>1. CASE elsewhere
    BY <2>1 DEF elsewhere, HouseNext
  <2>2. ASSUME NEW q \in Requests, minedSettled(q) \/ receiptLost(q)
        PROVE  HouseNext
    <3>1. requests[q] \in RequestType /\ requests[q].pc = "Sent" /\ HoldsTruth(requests[q], bets, rows)
      BY <2>2 DEF BetInv, RouteInv, minedSettled, receiptLost
    <3>2. betOf(q) \in BetIds /\ requests[q].outcome \in Payouts
      BY <3>1 DEF HoldsTruth, RequestType, betOf
    <3>3. settleGame(betOf(q), requests[q].outcome)
      BY <2>2 DEF minedSettled, receiptLost
    <3> QED BY <3>2, <3>3 DEF HouseNext
  <2>3. ASSUME NEW q \in Requests,
               \/ \E b \in BetIds : receive(q, b)
               \/ \E natural \in Payouts : readCapacityAndResolve(q, natural)
               \/ checkExisting(q) \/ submit(q) \/ minedReverted(q) \/ persist(q) \/ die(q)
        PROVE  UNCHANGED houseVars
    BY <2>3 DEF receive, checkExisting, readCapacityAndResolve, submit, minedReverted, persist, die
  <2>4. CASE UNCHANGED betVars
    BY <2>4 DEF betVars
  <2>5. CASE BetNext
    BY <2>1, <2>2, <2>3, <2>5 DEF BetNext
  <2> QED BY <2>4, <2>5
<1> QED BY <1>1, <1>2, BetInvariant, PTL DEF BetSpec, HouseSpec

(* A row with a settlement's transaction shows what reached the wallet     *)
(* (settleCasinoGame, prisma.casinoBet.create).                            *)
THEOREM ConfirmedRowsTrue == BetSpec => []ConfirmedRowTrue
<1>1. BetInv => ConfirmedRowTrue
  BY DEF BetInv, RouteInv
<1> QED BY <1>1, BetInvariant, PTL

(* Any two requests for one bet that are answered with a result are        *)
(* answered with the same one (the existing-row guard of the bet route).   *)
THEOREM AnswersNeverDiffer == BetSpec => []AnswersAgree
<1>1. BetInv => AnswersAgree
  BY DEF BetInv, RouteInv, HoldsTruth, AnswersAgree, betOf
<1> QED BY <1>1, BetInvariant, PTL
=============================================================================
