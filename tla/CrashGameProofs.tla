-------------------------- MODULE CrashGameProofs --------------------------
(***************************************************************************)
(* The safety of CrashGame for any number of players, stakes, seeds and    *)
(* rounds.  Solvency rests on two facts about one round: what resolution   *)
(* credits never adds up to more than the capacity it was given, whichever *)
(* of the three payout rules of _computeScaledPayout applies, and a round's *)
(* maxPotentialPayout is at least its stakes, so that a withdrawal which   *)
(* leaves the former leaves the latter.                                    *)
(***************************************************************************)
EXTENDS CrashScheduler, SumsProofs

-----------------------------------------------------------------------------
(* Arithmetic of the contract's rounding. *)

(* A multiplier of at least 1.00x returns at least the stake. *)
LEMMA AtLeastStake ==
    ASSUME NEW a \in Nat, NEW m \in Nat, m >= 100
    PROVE  (a * m) \div 100 \in Nat /\ a <= (a * m) \div 100
<1>1. 100 * a <= m * a
  BY ProductMonotone
<1>2. a * m \in Nat /\ a * m = m * a
  BY ProductNat
<1>3. \A y \in Nat : 100 * a <= y => y \div 100 \in Nat /\ a <= y \div 100
  OBVIOUS
<1> QED BY <1>1, <1>2, <1>3

-----------------------------------------------------------------------------
(* The three payout rules.  w[i] is what winner i staked (0 for a loser),  *)
(* q[i] the quoted win, L the capacity.                                    *)

(* Every winner gets the stake and the same part of the profit. *)
LEMMA ProfitScaled ==
    ASSUME NEW n \in Nat, NEW w, NEW q, NEW pay, NEW L \in Nat, NEW ratio \in Nat,
           \A i \in 1..n : /\ w[i] \in Nat /\ q[i] \in Nat /\ pay[i] \in Nat
                           /\ w[i] <= q[i]
                           /\ pay[i] <= w[i] + ((q[i] - w[i]) * ratio) \div 10000,
           SumTo(w, n) <= L,
           ratio * (SumTo(q, n) - SumTo(w, n)) <= (L - SumTo(w, n)) * 10000
    PROVE  SumTo(pay, n) <= L
<1> DEFINE profit == [i \in 1..n |-> q[i] - w[i]]
           bonus == [i \in 1..n |-> (profit[i] * ratio) \div 10000]
           upper == [i \in 1..n |-> w[i] + bonus[i]]
<1>1. \A i \in 1..n : profit[i] \in Nat /\ q[i] = w[i] + profit[i] /\ w[i] \in Int /\ profit[i] \in Int
  OBVIOUS
<1>2. \A i \in 1..n : bonus[i] \in Nat /\ bonus[i] * 10000 <= profit[i] * ratio
  <2> TAKE i \in 1..n
  <2>1. profit[i] * ratio \in Nat
    BY <1>1, ProductNat
  <2> QED BY <2>1, QuotientNat, QuotientBound
<1>3. \A i \in 1..n : upper[i] = w[i] + bonus[i] /\ pay[i] <= upper[i]
  OBVIOUS
<1> HIDE DEF profit, bonus, upper
<1>4. SumTo(q, n) = SumTo(w, n) + SumTo(profit, n)
  BY <1>1, SumOfSums
<1>5. SumTo(bonus, n) * 10000 <= SumTo(profit, n) * ratio
  BY <1>1, <1>2, SumShares
<1>6. SumTo(upper, n) = SumTo(w, n) + SumTo(bonus, n)
  BY <1>1, <1>2, <1>3, SumOfSums
<1>7. SumTo(pay, n) <= SumTo(upper, n)
  BY <1>1, <1>2, <1>3, SumMonotone
<1>8. /\ SumTo(w, n) \in Nat /\ SumTo(profit, n) \in Nat /\ SumTo(bonus, n) \in Nat
      /\ SumTo(pay, n) \in Nat
  BY <1>1, <1>2, SumNat
<1>9. SumTo(bonus, n) * 10000 <= (L - SumTo(w, n)) * 10000
  <2>1. SumTo(profit, n) = SumTo(q, n) - SumTo(w, n)
    BY <1>4, <1>8
  <2>2. SumTo(profit, n) * ratio = ratio * (SumTo(q, n) - SumTo(w, n))
    BY <2>1, <1>8
  <2>3. SumTo(profit, n) * ratio \in Nat
    BY <1>8, ProductNat
  <2> QED BY <1>5, <1>8, <2>2, <2>3
<1>10. SumTo(bonus, n) <= L - SumTo(w, n)
  BY <1>8, <1>9
<1> QED BY <1>6, <1>7, <1>8, <1>10

(* The capacity is shared in proportion to the stakes. *)
LEMMA StakesScaled ==
    ASSUME NEW n \in Nat, NEW w, NEW pay, NEW L \in Nat,
           SumTo(w, n) \in Nat \ {0},
           \A i \in 1..n : /\ w[i] \in Nat /\ pay[i] \in Nat
                           /\ pay[i] <= (w[i] * L) \div SumTo(w, n)
    PROVE  SumTo(pay, n) <= L
<1> DEFINE S == SumTo(w, n)
<1>0. S \in Nat \ {0}
  OBVIOUS
<1>1. \A i \in 1..n : pay[i] * S <= w[i] * L
  <2> TAKE i \in 1..n
  <2> HIDE DEF S
  <2> DEFINE share == (w[i] * L) \div S
  <2>1. w[i] * L \in Nat
    BY ProductNat
  <2>2. share \in Nat /\ share * S <= w[i] * L
    BY <2>1, <1>0, QuotientNat, QuotientBound
  <2>3. pay[i] <= share
    BY DEF S
  <2> HIDE DEF share
  <2>4. pay[i] * S <= share * S
    BY <2>2, <2>3, <1>0, ProductMonotone
  <2>5. pay[i] * S \in Nat /\ share * S \in Nat
    BY <2>2, <1>0, ProductNat
  <2> QED BY <2>1, <2>2, <2>4, <2>5
<1> HIDE DEF S
<1>2. SumTo(pay, n) * S <= SumTo(w, n) * L
  BY <1>0, <1>1, SumShares
<1>3. SumTo(w, n) * L = L * S
  BY <1>0 DEF S
<1>4. SumTo(pay, n) \in Nat
  BY SumNat
<1> QED BY <1>0, <1>2, <1>3, <1>4, ProductCancel

-----------------------------------------------------------------------------
(* The invariant *)

RoundType == [status : {"None", "Pending", "Running", "Resolved"}, seed : 0..(SeedSpace - 1),
              startedAt : 0..MaxClock, crashMultiplierX100 : Nat, totalStaked : Nat,
              maxPotentialPayout : Nat, maxSustainableCrashX100 : Nat]
EntryType == [amount : Nat, autoCashoutX100 : Nat, cashedOutAtX100 : Nat,
              resolved : BOOLEAN]

(* Every multiplier of an entry is above 1.00x, and no threshold is above  *)
(* the contract's largest: what joinRound and cashOut check.               *)
MultipliersInRange ==
    \A p \in Players :
        /\ entries[p].autoCashoutX100 # 0 =>
               100 < entries[p].autoCashoutX100
               /\ entries[p].autoCashoutX100 <= MAX_AUTOCASHOUT_X100
        /\ entries[p].cashedOutAtX100 # 0 => 100 < entries[p].cashedOutAtX100

CrashInv ==
    /\ CrashTypeOK
    /\ MultipliersInRange
    /\ PendingTotal
    /\ CrashSolvent

LEMMA CrashTypesNamed ==
    CrashTypeOK <=> /\ clock \in 0..MaxClock
                    /\ usdc \in Nat
                    /\ currentRoundId \in 0..MaxRounds
                    /\ round \in RoundType
                    /\ entries \in [Players -> EntryType]
                    /\ pendingPayout \in [Players -> Nat]
                    /\ totalPendingPayouts \in Nat
                    /\ rtpBps \in 5000..9900
                    /\ paused \in BOOLEAN
BY DEF CrashTypeOK, RoundType, EntryType

LEMMA PlayersCounted ==
    NumPlayers \in Nat /\ Players = 1..NumPlayers
BY CrashAssumption DEF Players

-----------------------------------------------------------------------------
(* The crash point and the cap are multipliers *)

LEMMA SeedSpaceNat ==
    SeedSpace \in Nat /\ SeedSpace >= 1
BY DEF SeedSpace

LEMMA CrashFromSeedNat ==
    ASSUME CrashTypeOK, NEW seed \in 0..(SeedSpace - 1), NEW noRisk \in BOOLEAN
    PROVE  crashFromSeed(seed, noRisk) \in Nat
<1>1. MAX_AUTOCASHOUT_X100 \in Nat /\ rtpBps \in Nat
  BY CrashAssumption DEF CrashTypeOK
<1> DEFINE slope == SeedSpace - ((seed * 93) \div 100)
<1>2. slope \in Nat \ {0} /\ SeedSpace - seed \in Nat \ {0}
  BY SeedSpaceNat
<1> HIDE DEF slope
<1>3. (150 * seed) \div slope \in Nat
  <2>1. 150 * seed \in Nat
    OBVIOUS
  <2> QED BY <2>1, <1>2, QuotientNat
<1>4. (rtpBps * 10000) \div (SeedSpace - seed) \in Nat
  <2>1. rtpBps * 10000 \in Nat
    BY <1>1
  <2> QED BY <2>1, <1>2, QuotientNat
<1> DEFINE rising == (150 * seed) \div slope
           curve == (rtpBps * 10000) \div (SeedSpace - seed)
<1>5. rising \in Nat /\ curve \in Nat
  BY <1>3, <1>4
<1>6. crashFromSeed(seed, noRisk) =
        IF noRisk THEN Lesser(NO_RISK_MAX_X100, NO_RISK_FLOOR_X100 + rising)
        ELSE IF seed % BPS_DENOM < BPS_DENOM - rtpBps THEN 100
        ELSE IF curve < FLOOR_X100 THEN FLOOR_X100
        ELSE Lesser(curve, MAX_AUTOCASHOUT_X100)
  BY DEF crashFromSeed, slope
<1> HIDE DEF rising, curve
<1> QED BY <1>1, <1>5, <1>6 DEF Lesser, NO_RISK_MAX_X100, NO_RISK_FLOOR_X100, FLOOR_X100

LEMMA CrashPointNat ==
    ASSUME CrashTypeOK
    PROVE  crashPoint \in Nat
<1>1. round.seed \in 0..(SeedSpace - 1) /\ round.maxSustainableCrashX100 \in Nat
  BY DEF CrashTypeOK
<1>2. (joined = {}) \in BOOLEAN
  OBVIOUS
<1>3. crashFromSeed(round.seed, joined = {}) \in Nat
  BY <1>1, <1>2, CrashFromSeedNat
<1> DEFINE natural == crashFromSeed(round.seed, joined = {})
<1>4. natural \in Nat
  BY <1>3
<1>5. crashPoint = IF round.maxSustainableCrashX100 # 0
                   THEN Lesser(natural, round.maxSustainableCrashX100) ELSE natural
  BY DEF crashPoint
<1> HIDE DEF natural
<1> QED BY <1>1, <1>4, <1>5 DEF Lesser

(* A non-empty set of naturals has a smallest element, a bounded one also a *)
(* largest.                                                                *)
LEMMA SmallestExists ==
    ASSUME NEW S, S \subseteq Nat, S # {}
    PROVE  SmallestOf(S) \in S
BY LeastNatural DEF SmallestOf

LEMMA LargestExists ==
    ASSUME NEW S, S \subseteq Nat, S # {}, NEW bound \in Nat, \A x \in S : x <= bound
    PROVE  LargestOf(S) \in S /\ \A y \in S : y <= LargestOf(S)
<1> DEFINE T == {k \in Nat : \E x \in S : k = bound - x}
<1>1. T \subseteq Nat /\ T # {}
  <2>1. PICK x \in S : TRUE
    OBVIOUS
  <2>2. bound - x \in Nat
    BY <2>1
  <2> QED BY <2>1, <2>2
<1>2. PICK t \in T : \A y \in T : t <= y
  BY <1>1, LeastNatural
<1>3. PICK m \in S : t = bound - m
  BY <1>2
<1>4. \A y \in S : y <= m
  <2> TAKE y \in S
  <2>1. y \in Nat /\ bound - y \in Nat /\ bound - y \in T
    OBVIOUS
  <2> QED BY <2>1, <1>2, <1>3
<1> QED BY <1>4 DEF LargestOf

LEMMA SegmentBestNat ==
    ASSUME CrashTypeOK, MultipliersInRange, NEW start \in Nat, NEW available \in Nat
    PROVE  /\ segmentBest(start, available) \in Nat
           /\ segmentBest(start, available) <= MAX_AUTOCASHOUT_X100
<1>0. MAX_AUTOCASHOUT_X100 \in Nat
  BY CrashAssumption
<1>1. segmentEnd(start) \in Nat /\ segmentEnd(start) <= MAX_AUTOCASHOUT_X100
  <2> DEFINE later == {t \in thresholds : t > start}
  <2>1. \A t \in thresholds : t \in Nat /\ 100 < t /\ t <= MAX_AUTOCASHOUT_X100
    BY DEF thresholds, joined, MultipliersInRange, CrashTypeOK
  <2>2. CASE later = {}
    BY <2>2, <1>0 DEF segmentEnd
  <2>3. CASE later # {}
    <3>1. SmallestOf(later) \in later
      BY <2>1, <2>3, SmallestExists
    <3>2. segmentEnd(start) = SmallestOf(later) - 1
      BY <2>3 DEF segmentEnd
    <3> QED BY <3>1, <3>2, <2>1, <1>0
  <2> QED BY <2>2, <2>3
<1> DEFINE manual == [p \in Players |->
               IF entries[p].autoCashoutX100 = 0 THEN entries[p].amount ELSE 0]
           fixed == [p \in Players |->
               IF entries[p].autoCashoutX100 # 0 /\ entries[p].autoCashoutX100 <= start
               THEN (entries[p].amount * entries[p].autoCashoutX100) \div 100 ELSE 0]
<1>2. manualStakeSum \in Nat
  <2>1. \A p \in 1..NumPlayers : manual[p] \in Nat
    BY DEF CrashTypeOK, Players
  <2> HIDE DEF manual
  <2>2. SumTo(manual, NumPlayers) \in Nat
    BY <2>1, SumNat, PlayersCounted
  <2> QED BY <2>2 DEF manualStakeSum, TotalOf, manual
<1>3. fixedLiability(start) \in Nat
  <2>1. \A p \in 1..NumPlayers : fixed[p] \in Nat
    <3> TAKE p \in 1..NumPlayers
    <3>1. p \in Players /\ entries[p].amount \in Nat /\ entries[p].autoCashoutX100 \in Nat
      BY DEF CrashTypeOK, Players
    <3>2. entries[p].amount * entries[p].autoCashoutX100 \in Nat
      BY <3>1, ProductNat
    <3>3. (entries[p].amount * entries[p].autoCashoutX100) \div 100 \in Nat
      BY <3>2, QuotientNat
    <3> QED BY <3>1, <3>3
  <2> HIDE DEF fixed
  <2>2. SumTo(fixed, NumPlayers) \in Nat
    BY <2>1, SumNat, PlayersCounted
  <2> QED BY <2>2 DEF fixedLiability, TotalOf, fixed
<1>4. fixedLiability(start) <= available /\ manualStakeSum # 0 =>
        ((available - fixedLiability(start)) * 100) \div manualStakeSum \in Nat
  <2> SUFFICES ASSUME fixedLiability(start) <= available, manualStakeSum # 0
               PROVE  ((available - fixedLiability(start)) * 100) \div manualStakeSum \in Nat
    OBVIOUS
  <2>1. (available - fixedLiability(start)) * 100 \in Nat
    BY <1>3
  <2> QED BY <2>1, <1>2, QuotientNat
<1> DEFINE fixedSum == fixedLiability(start)
           quotient == ((available - fixedSum) * 100) \div manualStakeSum
           crossing == Lesser(quotient, segmentEnd(start))
<1>5. fixedSum <= available /\ manualStakeSum # 0 =>
        crossing \in Nat /\ crossing <= MAX_AUTOCASHOUT_X100
  <2> SUFFICES ASSUME quotient \in Nat
               PROVE  crossing \in Nat /\ crossing <= MAX_AUTOCASHOUT_X100
    BY <1>4
  <2> HIDE DEF quotient
  <2> QED BY <1>0, <1>1 DEF Lesser
<1>6. segmentBest(start, available) =
        IF fixedSum > available THEN 0
        ELSE IF manualStakeSum = 0 THEN segmentEnd(start)
        ELSE IF crossing >= start THEN crossing
        ELSE 0
  BY DEF segmentBest
<1>7. fixedSum \in Nat
  BY <1>3
<1> HIDE DEF fixedSum, crossing
<1> QED BY <1>0, <1>1, <1>5, <1>6, <1>7

LEMMA CapNat ==
    ASSUME CrashTypeOK, MultipliersInRange, NEW available \in Nat
    PROVE  maxSustainableCrashX100(available) \in Nat
<1>0. /\ MAX_AUTOCASHOUT_X100 \in Nat /\ FLOOR_X100 \in Nat
      /\ FLOOR_X100 <= MAX_AUTOCASHOUT_X100
  BY CrashAssumption DEF FLOOR_X100
<1> DEFINE S == {FLOOR_X100} \cup
                {segmentBest(start, available) : start \in {FLOOR_X100} \cup thresholds}
<1>1. thresholds \subseteq Nat
  BY DEF thresholds, joined, CrashTypeOK
<1>2. \A x \in S : x \in Nat /\ x <= MAX_AUTOCASHOUT_X100
  BY <1>0, <1>1, SegmentBestNat
<1>3. LargestOf(S) \in S
  <2>1. S # {} /\ S \subseteq Nat
    BY <1>2
  <2> HIDE DEF S
  <2> QED BY <2>1, <1>0, <1>2, LargestExists
<1>4. maxSustainableCrashX100(available) =
        IF joined = {} THEN MAX_AUTOCASHOUT_X100 ELSE LargestOf(S)
  BY DEF maxSustainableCrashX100
<1> HIDE DEF S
<1> QED BY <1>0, <1>2, <1>3, <1>4

-----------------------------------------------------------------------------
(* Resolution credits at most the capacity *)

LEMMA WinMultiplierNat ==
    ASSUME CrashTypeOK, MultipliersInRange, NEW p \in Players, NEW crash \in Nat
    PROVE  /\ winMultiplier(p, crash) \in Nat
           /\ winMultiplier(p, crash) # 0 => 100 < winMultiplier(p, crash)
BY DEF winMultiplier, CrashTypeOK, MultipliersInRange

LEMMA QuotedCoversStake ==
    ASSUME CrashTypeOK, MultipliersInRange, NEW p \in Players, NEW crash \in Nat
    PROVE  /\ quotedPayout(p, crash) \in Nat
           /\ winMultiplier(p, crash) # 0 => entries[p].amount <= quotedPayout(p, crash)
<1> DEFINE m == winMultiplier(p, crash)
<1>1. m \in Nat /\ (m # 0 => 100 < m)
  BY WinMultiplierNat
<1>2. entries[p].amount \in Nat
  BY DEF CrashTypeOK
<1>3. quotedPayout(p, crash) = (entries[p].amount * m) \div 100
  BY DEF quotedPayout
<1> HIDE DEF m
<1>4. entries[p].amount * m \in Nat
  BY <1>1, <1>2, ProductNat
<1>5. quotedPayout(p, crash) \in Nat
  BY <1>3, <1>4, QuotientNat
<1>6. m # 0 => entries[p].amount <= quotedPayout(p, crash)
  <2> SUFFICES ASSUME m # 0 PROVE entries[p].amount <= quotedPayout(p, crash)
    OBVIOUS
  <2>1. m >= 100
    BY <1>1
  <2> QED BY <1>1, <1>2, <1>3, <2>1, AtLeastStake
<1> QED BY <1>5, <1>6 DEF m

LEMMA CreditsFitCapacity ==
    ASSUME CrashTypeOK, MultipliersInRange, NEW crash \in Nat, NEW L \in Nat,
           NEW credit,
           credit = [p \in Players |-> IF entries[p].resolved THEN 0
                                       ELSE scaledPayout(p, crash, L)]
    PROVE  /\ credit \in [Players -> Nat]
           /\ TotalOf(credit) \in Nat
           /\ TotalOf(credit) <= L
<1> DEFINE won(p) == winMultiplier(p, crash) # 0
           w == [p \in Players |-> IF winMultiplier(p, crash) > 0 THEN entries[p].amount ELSE 0]
           q == [p \in Players |-> quotedPayout(p, crash)]
           W == sumWinningStakes(crash)
           Q == sumQuoted(crash)
           ratio == IF L <= W THEN 0 ELSE ((L - W) * BPS_DENOM) \div (Q - W)
<1>1. W = SumTo(w, NumPlayers) /\ Q = SumTo(q, NumPlayers)
  BY DEF sumWinningStakes, sumQuoted, TotalOf
<1>2. \A p \in Players : /\ w[p] \in Nat /\ q[p] \in Nat
                         /\ won(p) => w[p] = entries[p].amount /\ w[p] <= q[p]
                         /\ ~won(p) => w[p] = 0
                         /\ w[p] <= q[p]
  <2> TAKE p \in Players
  <2>1. entries[p].amount \in Nat
    BY DEF CrashTypeOK
  <2>2. winMultiplier(p, crash) \in Nat
    BY WinMultiplierNat
  <2>3. quotedPayout(p, crash) \in Nat /\ (won(p) => entries[p].amount <= quotedPayout(p, crash))
    BY QuotedCoversStake
  <2> QED BY <2>1, <2>2, <2>3
<1>3. \A p \in Players :
        /\ ~won(p) => scaledPayout(p, crash, L) = 0
        /\ won(p) => scaledPayout(p, crash, L) =
                       IF L >= Q THEN q[p]
                       ELSE IF L >= W THEN w[p] + ((q[p] - w[p]) * ratio) \div BPS_DENOM
                       ELSE (w[p] * L) \div W
  <2> TAKE p \in Players
  <2>1. quotedPayout(p, crash) = q[p] /\ (won(p) => entries[p].amount = w[p])
    BY <1>2
  <2> HIDE DEF w, q, W, Q
  <2> QED BY <2>1 DEF scaledPayout, W, Q
<1> HIDE DEF won, w, q, W, Q, ratio
<1>4. W \in Nat /\ Q \in Nat /\ W <= Q
  <2>1. \A p \in 1..NumPlayers : /\ w[p] \in Nat /\ q[p] \in Nat /\ w[p] <= q[p]
                                 /\ w[p] \in Int /\ q[p] \in Int
    BY <1>2, PlayersCounted
  <2> QED BY <1>1, <2>1, SumNat, SumMonotone, PlayersCounted
<1>5. \A p \in Players : credit[p] = IF entries[p].resolved \/ ~won(p) THEN 0
                                     ELSE scaledPayout(p, crash, L)
  BY <1>3
<1>6. \A p \in Players : entries[p].resolved \in BOOLEAN
  BY DEF CrashTypeOK
<1>7. CASE L >= Q
  <2>1. \A p \in 1..NumPlayers : /\ credit[p] \in Nat /\ credit[p] <= q[p] /\ q[p] \in Nat
                                 /\ credit[p] \in Int /\ q[p] \in Int
    BY <1>2, <1>3, <1>5, <1>6, <1>7, PlayersCounted
  <2>2. SumTo(credit, NumPlayers) <= Q /\ SumTo(credit, NumPlayers) \in Nat
    BY <1>1, <2>1, SumNat, SumMonotone, PlayersCounted
  <2> QED BY <1>4, <1>7, <2>1, <2>2, PlayersCounted DEF TotalOf
<1>8. CASE L >= W /\ L < Q
  <2>1. ratio \in Nat /\ ratio * (Q - W) <= (L - W) * 10000
    <3>1. CASE L = W
      <4>1. ratio = 0
        BY <1>4, <3>1 DEF ratio
      <4>2. ratio * (Q - W) = 0 /\ (L - W) * 10000 = 0
        BY <4>1, <1>4, <3>1
      <4> QED BY <4>1, <4>2
    <3>2. CASE L # W
      <4>1. (L - W) * 10000 \in Nat /\ Q - W \in Nat \ {0}
        BY <1>4, <1>8
      <4>2. ratio = ((L - W) * 10000) \div (Q - W)
        BY <1>4, <1>8, <3>2 DEF ratio, BPS_DENOM
      <4> QED BY <4>1, <4>2, QuotientNat, QuotientBound
    <3> QED BY <3>1, <3>2
  <2>2. \A p \in 1..NumPlayers :
          /\ w[p] \in Nat /\ q[p] \in Nat /\ w[p] <= q[p]
          /\ credit[p] \in Nat
          /\ credit[p] <= w[p] + ((q[p] - w[p]) * ratio) \div 10000
    <3> TAKE p \in 1..NumPlayers
    <3> DEFINE bonus == ((q[p] - w[p]) * ratio) \div 10000
    <3>1. p \in Players /\ w[p] \in Nat /\ q[p] \in Nat /\ w[p] <= q[p]
      BY <1>2, PlayersCounted
    <3>2. bonus \in Nat
      <4>1. (q[p] - w[p]) * ratio \in Nat
        BY <2>1, <3>1, ProductNat
      <4> QED BY <4>1, QuotientNat
    <3>3. won(p) => scaledPayout(p, crash, L) = w[p] + bonus
      BY <1>3, <1>4, <1>8, <3>1 DEF BPS_DENOM
    <3> HIDE DEF bonus
    <3>4. credit[p] \in Nat /\ credit[p] <= w[p] + bonus
      BY <1>5, <1>6, <3>1, <3>2, <3>3
    <3> QED BY <3>1, <3>4 DEF bonus
  <2>3. SumTo(credit, NumPlayers) <= L
    <3>1. /\ SumTo(w, NumPlayers) <= L
          /\ ratio * (SumTo(q, NumPlayers) - SumTo(w, NumPlayers))
                 <= (L - SumTo(w, NumPlayers)) * 10000
      BY <1>1, <1>8, <2>1
    <3>2. ratio \in Nat /\ NumPlayers \in Nat
      BY <2>1, PlayersCounted
    <3> QED BY ONLY <3>1, <3>2, <2>2, L \in Nat, ProfitScaled
  <2>4. SumTo(credit, NumPlayers) \in Nat
    BY <2>2, SumNat, PlayersCounted
  <2> QED BY <2>2, <2>3, <2>4, PlayersCounted DEF TotalOf
<1>9. CASE L < W
  <2>0. W \in Nat \ {0}
    BY <1>4, <1>9
  <2>1. \A p \in 1..NumPlayers : /\ w[p] \in Nat /\ credit[p] \in Nat
                                 /\ credit[p] <= (w[p] * L) \div W
    <3> TAKE p \in 1..NumPlayers
    <3> DEFINE share == (w[p] * L) \div W
    <3>1. p \in Players /\ w[p] \in Nat
      BY <1>2, PlayersCounted
    <3>2. share \in Nat
      <4>1. w[p] * L \in Nat
        BY <3>1, ProductNat
      <4> QED BY <4>1, <2>0, QuotientNat
    <3>3. won(p) => scaledPayout(p, crash, L) = share
      BY <1>3, <1>4, <1>9, <3>1
    <3> HIDE DEF share
    <3>4. credit[p] \in Nat /\ credit[p] <= share
      BY <1>5, <1>6, <3>1, <3>2, <3>3
    <3> QED BY <3>1, <3>4 DEF share
  <2>2. SumTo(credit, NumPlayers) <= L
    BY <1>1, <2>0, <2>1, StakesScaled, PlayersCounted
  <2>3. SumTo(credit, NumPlayers) \in Nat
    BY <2>1, SumNat, PlayersCounted
  <2> QED BY <2>1, <2>2, <2>3, PlayersCounted DEF TotalOf
<1> QED BY <1>4, <1>7, <1>8, <1>9

-----------------------------------------------------------------------------
(* The invariant holds initially and is kept by every transaction *)

stakeOf == [p \in Players |-> entries[p].amount]

LEMMA TotalsNamed ==
    PendingTotal <=> /\ totalPendingPayouts = SumTo(pendingPayout, NumPlayers)
                     /\ round.totalStaked = SumTo(stakeOf, NumPlayers)
                     /\ round.totalStaked <= round.maxPotentialPayout
BY DEF PendingTotal, TotalOf, stakeOf

LEMMA EmptyRecords ==
    /\ NoRound \in RoundType
    /\ NoEntry \in EntryType
    /\ NoRound.totalStaked = 0 /\ NoRound.maxPotentialPayout = 0
    /\ NoRound.status = "None"
    /\ NoEntry.amount = 0 /\ NoEntry.autoCashoutX100 = 0 /\ NoEntry.cashedOutAtX100 = 0
<1>1. 0 \in 0..(SeedSpace - 1)
  BY SeedSpaceNat
<1>2. 0 \in 0..MaxClock
  BY CrashAssumption
<1> QED BY <1>1, <1>2 DEF NoRound, NoEntry, RoundType, EntryType

(* The first round has not started and nobody is owed anything.            *)
THEOREM CrashInitInv == CrashInit => CrashInv
<1> SUFFICES ASSUME CrashInit PROVE CrashInv
  OBVIOUS
<1> USE DEF CrashInit
<1>1. CrashTypeOK
  <2>1. round \in RoundType /\ entries \in [Players -> EntryType]
    BY EmptyRecords
  <2>2. /\ clock \in 0..MaxClock /\ usdc \in Nat /\ currentRoundId \in 0..MaxRounds
        /\ pendingPayout \in [Players -> Nat] /\ totalPendingPayouts \in Nat
        /\ rtpBps \in 5000..9900 /\ paused \in BOOLEAN
    <3>1. 0 \in 0..MaxClock /\ 0 \in 0..MaxRounds
      BY CrashAssumption
    <3>2. InitialRtp \in 5000..9900
      BY CrashAssumption
    <3>3. pendingPayout \in [Players -> Nat]
      OBVIOUS
    <3>4. paused \in BOOLEAN
      OBVIOUS
    <3>5. clock \in 0..MaxClock /\ currentRoundId \in 0..MaxRounds /\ rtpBps \in 5000..9900
      BY <3>1, <3>2
    <3>6. usdc \in Nat /\ totalPendingPayouts \in Nat
      OBVIOUS
    <3> QED BY <3>3, <3>4, <3>5, <3>6
  <2> QED BY <2>1, <2>2, CrashTypesNamed
<1>2. MultipliersInRange
  BY EmptyRecords DEF MultipliersInRange
<1>3. PendingTotal
  <2>1. \A p \in 1..NumPlayers : pendingPayout[p] = 0 /\ stakeOf[p] = 0
    BY PlayersCounted, EmptyRecords DEF stakeOf
  <2>2. SumTo(pendingPayout, NumPlayers) = 0 /\ SumTo(stakeOf, NumPlayers) = 0
    BY <2>1, SumZeros, PlayersCounted
  <2> QED BY <2>2, EmptyRecords, TotalsNamed
<1>4. CrashSolvent
  BY EmptyRecords DEF CrashSolvent, isUnresolved
<1> QED BY <1>1, <1>2, <1>3, <1>4 DEF CrashInv

LEMMA StartRoundInv ==
    ASSUME CrashInv, NEW seed \in Seeds, startRound(seed)
    PROVE  CrashInv'
<1> USE DEF CrashInv
<1>1. /\ round' = [NoRound EXCEPT !.status = "Pending", !.seed = seed]
      /\ entries' = [p \in Players |-> NoEntry]
      /\ currentRoundId' = currentRoundId + 1 /\ currentRoundId < MaxRounds
      /\ ~isUnresolved
      /\ UNCHANGED <<clock, usdc, pendingPayout, totalPendingPayouts, rtpBps, paused>>
  BY DEF startRound
<1>2. seed \in 0..(SeedSpace - 1)
  BY CrashAssumption
<1>3. round' \in RoundType /\ round'.totalStaked = 0 /\ round'.maxPotentialPayout = 0
  BY <1>1, <1>2, EmptyRecords DEF NoRound, RoundType
<1>4. CrashTypeOK'
  <2>1. currentRoundId' \in 0..MaxRounds
    BY <1>1, CrashAssumption DEF CrashTypeOK
  <2>2. entries' \in [Players -> EntryType]
    BY <1>1, EmptyRecords
  <2> QED BY <1>1, <1>3, <2>1, <2>2, CrashTypesNamed DEF CrashTypeOK, RoundType, EntryType
<1>5. MultipliersInRange'
  BY <1>1, EmptyRecords DEF MultipliersInRange
<1>6. PendingTotal'
  <2> DEFINE s == stakeOf'
  <2>1. \A p \in 1..NumPlayers : s[p] = 0
    BY <1>1, PlayersCounted, EmptyRecords DEF stakeOf
  <2> HIDE DEF s
  <2>2. SumTo(s, NumPlayers) = 0
    BY <2>1, SumZeros, PlayersCounted
  <2> QED BY <1>1, <1>3, <2>2 DEF PendingTotal, TotalOf, stakeOf, s
<1>7. CrashSolvent'
  BY <1>1, <1>3 DEF CrashSolvent, CrashTypeOK
<1> QED BY <1>4, <1>5, <1>6, <1>7

LEMMA JoinRoundInv ==
    ASSUME CrashInv, NEW p \in Players, NEW amount \in StakeChoices, NEW auto \in AutoChoices,
           joinRound(p, amount, auto)
    PROVE  CrashInv'
<1> USE DEF CrashInv
<1> DEFINE cap == IF auto = 0 THEN MAX_AUTOCASHOUT_X100 ELSE auto
           most == (amount * cap) \div 100
           entry == [NoEntry EXCEPT !.amount = amount, !.autoCashoutX100 = auto]
<1>1. /\ auto # 0 => 100 < auto /\ auto <= MAX_AUTOCASHOUT_X100
      /\ round.status = "Pending"
      /\ p \notin joined
      /\ round' = [round EXCEPT !.maxPotentialPayout = @ + most, !.totalStaked = @ + amount]
      /\ entries' = [entries EXCEPT ![p] = entry]
      /\ usdc' = usdc + amount
      /\ UNCHANGED <<clock, currentRoundId, pendingPayout, totalPendingPayouts, rtpBps, paused>>
  BY DEF joinRound
<1>2. amount \in Nat /\ auto \in Nat /\ MAX_AUTOCASHOUT_X100 \in Nat
  BY CrashAssumption
<1>3. most \in Nat /\ amount <= most
  <2>1. cap \in Nat /\ cap >= 100
    BY <1>1, <1>2, CrashAssumption DEF FLOOR_X100
  <2> HIDE DEF cap
  <2> QED BY <2>1, <1>2, AtLeastStake
<1>4. entry \in EntryType /\ entry.amount = amount /\ entry.autoCashoutX100 = auto
      /\ entry.cashedOutAtX100 = 0
  BY <1>2 DEF NoEntry, EntryType
<1> HIDE DEF most, entry
<1>5. round \in RoundType /\ entries \in [Players -> EntryType]
  BY CrashTypesNamed
<1>6. /\ round' \in RoundType
      /\ round'.status = "Pending"
      /\ round'.totalStaked = round.totalStaked + amount
      /\ round'.maxPotentialPayout = round.maxPotentialPayout + most
  <2> DEFINE promised == [round EXCEPT !.maxPotentialPayout = round.maxPotentialPayout + most]
  <2>1. /\ promised \in RoundType
        /\ promised.status = "Pending"
        /\ promised.totalStaked = round.totalStaked
        /\ promised.maxPotentialPayout = round.maxPotentialPayout + most
    BY <1>1, <1>3, <1>5 DEF RoundType
  <2>2. round' = [promised EXCEPT !.totalStaked = round.totalStaked + amount]
    BY <1>1
  <2>3. round.totalStaked + amount \in Nat
    BY <1>2, <1>5 DEF RoundType
  <2> HIDE DEF promised
  <2> QED BY <2>1, <2>2, <2>3 DEF RoundType
<1>7. CrashTypeOK'
  <2>1. usdc' \in Nat
    BY <1>1, <1>2 DEF CrashTypeOK
  <2>2. entries' \in [Players -> EntryType]
    BY <1>1, <1>4, <1>5
  <2> QED BY <1>1, <1>6, <2>1, <2>2 DEF CrashTypeOK, RoundType, EntryType
<1>8. MultipliersInRange'
  BY <1>1, <1>4, <1>5 DEF MultipliersInRange
<1>9. PendingTotal'
  <2> DEFINE f == stakeOf
             g == stakeOf'
  <2>1. f[p] = 0 /\ g[p] = amount
    BY <1>1, <1>4, <1>5 DEF stakeOf, joined, EntryType
  <2>2. \A i \in 1..NumPlayers : f[i] \in Int /\ g[i] \in Int
    BY <1>1, <1>2, <1>4, <1>5, PlayersCounted DEF stakeOf, EntryType
  <2>3. \A i \in 1..NumPlayers : i # p => f[i] = g[i]
    BY <1>1, <1>5, PlayersCounted DEF stakeOf
  <2> HIDE DEF f, g
  <2>4. SumTo(g, NumPlayers) = SumTo(f, NumPlayers) + (g[p] - f[p])
    BY <2>2, <2>3, SumUpdate, PlayersCounted
  <2>5. round.totalStaked = SumTo(f, NumPlayers) /\ round.totalStaked \in Nat
    BY <1>5, TotalsNamed DEF f, RoundType
  <2>6. round'.totalStaked = SumTo(g, NumPlayers)
    BY <1>2, <1>6, <2>1, <2>4, <2>5
  <2>7. round'.totalStaked <= round'.maxPotentialPayout
    BY <1>2, <1>3, <1>5, <1>6 DEF PendingTotal, RoundType
  <2>8. totalPendingPayouts' = SumTo(pendingPayout', NumPlayers)
    BY <1>1 DEF PendingTotal
  <2> QED BY <2>6, <2>7, <2>8 DEF PendingTotal, TotalOf, stakeOf, g
<1>10. CrashSolvent'
  BY <1>1, <1>2, <1>5, <1>6 DEF CrashSolvent, isUnresolved, CrashTypeOK, RoundType
<1> QED BY <1>7, <1>8, <1>9, <1>10

LEMMA LockRoundInv ==
    ASSUME CrashInv, lockRound
    PROVE  CrashInv'
<1> USE DEF CrashInv
<1> DEFINE cap == maxSustainableCrashX100(lockAvailable)
<1>1. /\ round' = [round EXCEPT !.status = "Running", !.startedAt = clock,
                                !.maxSustainableCrashX100 = cap]
      /\ round.status = "Pending"
      /\ UNCHANGED <<clock, usdc, currentRoundId, entries, pendingPayout,
                     totalPendingPayouts, rtpBps, paused>>
  BY DEF lockRound
<1>2. cap \in Nat
  <2>1. freeCapacity \in Nat /\ rtpBps \in Nat
    BY DEF freeCapacity, CrashTypeOK
  <2>2. freeCapacity * rtpBps \in Nat
    BY <2>1, ProductNat
  <2>3. lockAvailable \in Nat
    BY <2>2, QuotientNat DEF lockAvailable, BPS_DENOM
  <2> QED BY <2>3, CapNat
<1> HIDE DEF cap
<1>3. round \in RoundType /\ clock \in 0..MaxClock
  BY CrashTypesNamed
<1>4. /\ round' \in RoundType
      /\ round'.status = "Running"
      /\ round'.totalStaked = round.totalStaked
      /\ round'.maxPotentialPayout = round.maxPotentialPayout
  BY <1>1, <1>2, <1>3 DEF RoundType
<1>5. CrashTypeOK'
  BY <1>1, <1>4 DEF CrashTypeOK, RoundType
<1>6. MultipliersInRange'
  BY <1>1 DEF MultipliersInRange
<1>7. PendingTotal'
  BY <1>1, <1>4 DEF PendingTotal, TotalOf
<1>8. CrashSolvent'
  BY <1>1, <1>4 DEF CrashSolvent, isUnresolved
<1> QED BY <1>5, <1>6, <1>7, <1>8

LEMMA CashOutInv ==
    ASSUME CrashInv, NEW p \in Players, NEW multiplier \in CashOutChoices,
           cashOut(p, multiplier)
    PROVE  CrashInv'
<1> USE DEF CrashInv
<1>1. /\ multiplier > 100
      /\ entries' = [entries EXCEPT ![p].cashedOutAtX100 = multiplier]
      /\ UNCHANGED <<clock, usdc, currentRoundId, round, pendingPayout,
                     totalPendingPayouts, rtpBps, paused>>
  BY DEF cashOut
<1>2. multiplier \in Nat /\ entries \in [Players -> EntryType]
  BY CrashAssumption, CrashTypesNamed
<1>3. /\ entries' \in [Players -> EntryType]
      /\ \A q \in Players : /\ entries'[q].amount = entries[q].amount
                            /\ entries'[q].autoCashoutX100 = entries[q].autoCashoutX100
                            /\ entries'[q].cashedOutAtX100 =
                                 IF q = p THEN multiplier ELSE entries[q].cashedOutAtX100
  BY <1>1, <1>2 DEF EntryType
<1>4. CrashTypeOK'
  BY <1>1, <1>3 DEF CrashTypeOK, EntryType
<1>5. MultipliersInRange'
  BY <1>1, <1>3 DEF MultipliersInRange
<1>6. PendingTotal'
  <2>1. stakeOf' = stakeOf
    BY <1>3 DEF stakeOf
  <2> QED BY <1>1, <2>1 DEF PendingTotal, TotalOf, stakeOf
<1>7. CrashSolvent'
  BY <1>1 DEF CrashSolvent, isUnresolved
<1> QED BY <1>4, <1>5, <1>6, <1>7

(* The two ways a round ends: every unresolved entry is given a credit, and *)
(* the credits fit into the capacity.                                      *)
LEMMA RoundEndInv ==
    ASSUME CrashInv, NEW credit \in [Players -> Nat], NEW crash \in Nat,
           TotalOf(credit) <= usdc - totalPendingPayouts,
           round' = [round EXCEPT !.status = "Resolved", !.crashMultiplierX100 = crash],
           entries' \in [Players -> EntryType],
           \A p \in Players : /\ entries'[p].amount = entries[p].amount
                              /\ entries'[p].autoCashoutX100 = entries[p].autoCashoutX100,
           \A p \in Players : entries'[p].cashedOutAtX100 # 0
                                => 100 < entries'[p].cashedOutAtX100,
           pendingPayout' = [p \in Players |-> pendingPayout[p] + credit[p]],
           totalPendingPayouts' = totalPendingPayouts + TotalOf(credit),
           UNCHANGED <<clock, usdc, currentRoundId, rtpBps, paused>>
    PROVE  CrashInv'
<1> USE DEF CrashInv
<1>1. /\ round \in RoundType /\ pendingPayout \in [Players -> Nat]
      /\ usdc \in Nat /\ totalPendingPayouts \in Nat
  BY CrashTypesNamed
<1>2. \A p \in 1..NumPlayers : /\ credit[p] \in Nat /\ pendingPayout[p] \in Nat
                               /\ credit[p] \in Int /\ pendingPayout[p] \in Int
                               /\ pendingPayout'[p] = pendingPayout[p] + credit[p]
  BY <1>1, PlayersCounted
<1>3. TotalOf(credit) \in Nat
  BY <1>2, SumNat, PlayersCounted DEF TotalOf
<1>4. /\ round' \in RoundType
      /\ round'.status = "Resolved"
      /\ round'.totalStaked = round.totalStaked
      /\ round'.maxPotentialPayout = round.maxPotentialPayout
  BY <1>1 DEF RoundType
<1>5. CrashTypeOK'
  <2>1. pendingPayout' \in [Players -> Nat] /\ totalPendingPayouts' \in Nat
    BY <1>1, <1>3
  <2> QED BY <1>4, <2>1 DEF CrashTypeOK, RoundType, EntryType
<1>6. MultipliersInRange'
  BY DEF MultipliersInRange
<1>7. PendingTotal'
  <2>1. SumTo(pendingPayout', NumPlayers) = SumTo(pendingPayout, NumPlayers) + TotalOf(credit)
    BY <1>2, SumOfSums, PlayersCounted DEF TotalOf
  <2>2. totalPendingPayouts' = SumTo(pendingPayout', NumPlayers)
    BY <2>1 DEF PendingTotal
  <2>3. stakeOf' = stakeOf
    BY DEF stakeOf
  <2> QED BY <1>4, <2>2, <2>3 DEF PendingTotal, TotalOf, stakeOf
<1>8. CrashSolvent'
  BY <1>1, <1>3, <1>4 DEF CrashSolvent, isUnresolved
<1> QED BY <1>5, <1>6, <1>7, <1>8

LEMMA ResolveRoundInv ==
    ASSUME CrashInv, resolveRound
    PROVE  CrashInv'
<1> USE DEF CrashInv
<1> DEFINE crash == crashPoint
           credit == [p \in Players |-> IF entries[p].resolved THEN 0
                                        ELSE scaledPayout(p, crash, freeCapacity)]
           byAuto(p) == /\ ~(/\ entries[p].cashedOutAtX100 # 0
                             /\ entries[p].cashedOutAtX100 <= crash)
                        /\ winMultiplier(p, crash) > 0
<1>1. /\ round' = [round EXCEPT !.status = "Resolved", !.crashMultiplierX100 = crash]
      /\ entries' = [p \in Players |->
                       IF p \notin joined THEN entries[p]
                       ELSE [entries[p] EXCEPT
                               !.resolved = TRUE,
                               !.cashedOutAtX100 = IF byAuto(p) THEN winMultiplier(p, crash)
                                                                ELSE @]]
      /\ pendingPayout' = [p \in Players |-> pendingPayout[p] + credit[p]]
      /\ totalPendingPayouts' = totalPendingPayouts + TotalOf(credit)
      /\ UNCHANGED <<clock, usdc, currentRoundId, rtpBps, paused>>
  BY DEF resolveRound
<1>2. crash \in Nat
  BY CrashPointNat
<1>3. freeCapacity \in Nat /\ freeCapacity = usdc - totalPendingPayouts
  BY DEF freeCapacity, CrashTypeOK, CrashSolvent, RoundType
<1>4. credit \in [Players -> Nat] /\ TotalOf(credit) <= freeCapacity
  BY <1>2, <1>3, CreditsFitCapacity
<1> HIDE DEF credit, crash, byAuto
<1>5. \A p \in Players :
         /\ entries'[p] \in EntryType
         /\ entries'[p].amount = entries[p].amount
         /\ entries'[p].autoCashoutX100 = entries[p].autoCashoutX100
         /\ entries'[p].cashedOutAtX100 # 0 => 100 < entries'[p].cashedOutAtX100
  <2> TAKE p \in Players
  <2>1. /\ entries[p] \in EntryType
        /\ entries[p].cashedOutAtX100 # 0 => 100 < entries[p].cashedOutAtX100
    BY CrashTypesNamed DEF MultipliersInRange
  <2>2. /\ winMultiplier(p, crash) \in Nat
        /\ winMultiplier(p, crash) # 0 => 100 < winMultiplier(p, crash)
    BY <1>2, WinMultiplierNat
  <2> DEFINE at == IF byAuto(p) THEN winMultiplier(p, crash) ELSE entries[p].cashedOutAtX100
             done == [entries[p] EXCEPT !.resolved = TRUE]
  <2>3. at \in Nat /\ (at # 0 => 100 < at)
    BY <2>1, <2>2 DEF EntryType
  <2>4. /\ done \in EntryType
        /\ done.amount = entries[p].amount
        /\ done.autoCashoutX100 = entries[p].autoCashoutX100
    BY <2>1 DEF EntryType
  <2>5. entries'[p] = IF p \notin joined THEN entries[p]
                      ELSE [done EXCEPT !.cashedOutAtX100 = at]
    BY <1>1, <2>1 DEF EntryType
  <2> HIDE DEF at, done
  <2> QED BY <2>1, <2>3, <2>4, <2>5 DEF EntryType
<1>6. entries' \in [Players -> EntryType]
  <2> DEFINE e == entries'
  <2>1. e = [p \in Players |-> e[p]]
    BY <1>1
  <2>2. \A p \in Players : e[p] \in EntryType
    BY <1>5
  <2> HIDE DEF e
  <2>3. e \in [Players -> EntryType]
    BY <2>1, <2>2
  <2> QED BY <2>3 DEF e
<1> QED BY ONLY CrashInv, <1>1, <1>2, <1>3, <1>4, <1>5, <1>6, RoundEndInv

LEMMA RefundAllInv ==
    ASSUME CrashInv, refundAll, isUnresolved
    PROVE  CrashInv'
<1> USE DEF CrashInv
<1> DEFINE credit == [p \in Players |-> IF entries[p].resolved THEN 0 ELSE entries[p].amount]
<1>1. /\ round' = [round EXCEPT !.status = "Resolved", !.crashMultiplierX100 = 0]
      /\ entries' = [p \in Players |-> IF p \in joined THEN [entries[p] EXCEPT !.resolved = TRUE]
                                                      ELSE entries[p]]
      /\ pendingPayout' = [p \in Players |-> pendingPayout[p] + credit[p]]
      /\ totalPendingPayouts' = totalPendingPayouts + TotalOf(credit)
      /\ UNCHANGED <<clock, usdc, currentRoundId, rtpBps, paused>>
  BY DEF refundAll
<1>2. \A p \in Players : /\ credit[p] \in Nat /\ stakeOf[p] \in Nat
                         /\ credit[p] <= stakeOf[p]
  BY DEF stakeOf, CrashTypeOK
<1>3. credit \in [Players -> Nat]
  BY <1>2
<1> HIDE DEF credit
<1>4. TotalOf(credit) <= usdc - totalPendingPayouts
  <2>1. \A p \in 1..NumPlayers : /\ credit[p] \in Nat /\ stakeOf[p] \in Nat
                                 /\ credit[p] \in Int /\ stakeOf[p] \in Int
                                 /\ credit[p] <= stakeOf[p]
    BY <1>2, PlayersCounted
  <2>2. SumTo(credit, NumPlayers) <= SumTo(stakeOf, NumPlayers)
    BY <2>1, SumMonotone, PlayersCounted
  <2>3. SumTo(credit, NumPlayers) \in Nat /\ SumTo(stakeOf, NumPlayers) \in Nat
    BY <2>1, SumNat, PlayersCounted
  <2>4. round.totalStaked = SumTo(stakeOf, NumPlayers)
    BY TotalsNamed
  <2>5. usdc >= totalPendingPayouts + round.totalStaked
    BY DEF CrashSolvent
  <2>6. usdc \in Nat /\ totalPendingPayouts \in Nat
    BY DEF CrashTypeOK
  <2> QED BY <2>2, <2>3, <2>4, <2>5, <2>6 DEF TotalOf
<1>5. \A p \in Players :
         /\ entries'[p] \in EntryType
         /\ entries'[p].amount = entries[p].amount
         /\ entries'[p].autoCashoutX100 = entries[p].autoCashoutX100
         /\ entries'[p].cashedOutAtX100 # 0 => 100 < entries'[p].cashedOutAtX100
  <2> TAKE p \in Players
  <2>1. /\ entries[p] \in EntryType
        /\ entries[p].cashedOutAtX100 # 0 => 100 < entries[p].cashedOutAtX100
    BY CrashTypesNamed DEF MultipliersInRange
  <2> QED BY <1>1, <2>1 DEF EntryType
<1>6. entries' \in [Players -> EntryType]
  <2> DEFINE e == entries'
  <2>1. e = [p \in Players |-> e[p]]
    BY <1>1
  <2>2. \A p \in Players : e[p] \in EntryType
    BY <1>5
  <2> HIDE DEF e
  <2>3. e \in [Players -> EntryType]
    BY <2>1, <2>2
  <2> QED BY <2>3 DEF e
<1> QED BY ONLY CrashInv, <1>1, <1>3, <1>4, <1>5, <1>6, 0 \in Nat, RoundEndInv

LEMMA ClaimInv ==
    ASSUME CrashInv, NEW p \in Players, claim(p)
    PROVE  CrashInv'
<1> USE DEF CrashInv
<1>1. /\ pendingPayout[p] <= totalPendingPayouts
      /\ pendingPayout[p] <= usdc
      /\ pendingPayout' = [pendingPayout EXCEPT ![p] = 0]
      /\ totalPendingPayouts' = totalPendingPayouts - pendingPayout[p]
      /\ usdc' = usdc - pendingPayout[p]
      /\ UNCHANGED <<clock, currentRoundId, round, entries, rtpBps, paused>>
  BY DEF claim
<1>2. /\ pendingPayout \in [Players -> Nat] /\ usdc \in Nat /\ totalPendingPayouts \in Nat
      /\ round \in RoundType
  BY CrashTypesNamed
<1>3. CrashTypeOK'
  <2>1. pendingPayout' \in [Players -> Nat] /\ usdc' \in Nat /\ totalPendingPayouts' \in Nat
    BY <1>1, <1>2
  <2> QED BY <1>1, <2>1 DEF CrashTypeOK
<1>4. MultipliersInRange'
  BY <1>1 DEF MultipliersInRange
<1>5. PendingTotal'
  <2> DEFINE f == pendingPayout
             g == pendingPayout'
  <2>1. \A i \in 1..NumPlayers : f[i] \in Int /\ g[i] \in Int
    BY <1>1, <1>2, PlayersCounted
  <2>2. \A i \in 1..NumPlayers : i # p => f[i] = g[i]
    BY <1>1, <1>2, PlayersCounted
  <2>3. g[p] = 0
    BY <1>1, <1>2
  <2> HIDE DEF g
  <2>4. SumTo(g, NumPlayers) = SumTo(f, NumPlayers) + (g[p] - f[p])
    BY <2>1, <2>2, SumUpdate, PlayersCounted
  <2>5. totalPendingPayouts = SumTo(f, NumPlayers)
    BY DEF PendingTotal
  <2>6. totalPendingPayouts' = SumTo(g, NumPlayers)
    BY <1>1, <1>2, <2>3, <2>4, <2>5
  <2> QED BY <1>1, <2>6 DEF PendingTotal, TotalOf, g
<1>6. CrashSolvent'
  BY <1>1, <1>2 DEF CrashSolvent, isUnresolved, RoundType
<1> QED BY <1>3, <1>4, <1>5, <1>6

LEMMA BankrollInv ==
    ASSUME CrashInv, NEW amount \in BankrollChoices,
           depositBankroll(amount) \/ withdrawBankroll(amount)
    PROVE  CrashInv'
<1> USE DEF CrashInv
<1>1. /\ amount \in Nat /\ usdc \in Nat /\ totalPendingPayouts \in Nat
      /\ round.totalStaked \in Nat /\ round.maxPotentialPayout \in Nat
      /\ round.totalStaked <= round.maxPotentialPayout
  BY CrashAssumption DEF CrashTypeOK, PendingTotal
<1>2. UNCHANGED <<clock, currentRoundId, round, entries, pendingPayout,
                  totalPendingPayouts, rtpBps, paused>>
  BY DEF depositBankroll, withdrawBankroll
<1>3. usdc' \in Nat /\ CrashSolvent'
  <2>1. CASE depositBankroll(amount)
    BY <1>1, <1>2, <2>1 DEF depositBankroll, CrashSolvent, isUnresolved
  <2>2. CASE withdrawBankroll(amount)
    BY <1>1, <1>2, <2>2 DEF withdrawBankroll, reservedBankroll, CrashSolvent, isUnresolved
  <2> QED BY <2>1, <2>2
<1>4. CrashTypeOK' /\ MultipliersInRange' /\ PendingTotal'
  BY <1>2, <1>3 DEF CrashTypeOK, MultipliersInRange, PendingTotal, TotalOf
<1> QED BY <1>3, <1>4

LEMMA AdminInv ==
    ASSUME CrashInv,
           (\E r \in RtpChoices : setRtp(r)) \/ (\E v \in PauseChoices : setPaused(v)) \/ Advance
    PROVE  CrashInv'
<1> USE DEF CrashInv
<1>1. UNCHANGED <<usdc, currentRoundId, round, entries, pendingPayout, totalPendingPayouts>>
  BY DEF setRtp, setPaused, Advance
<1>2. clock' \in 0..MaxClock /\ rtpBps' \in 5000..9900 /\ paused' \in BOOLEAN
  <2>1. clock \in 0..MaxClock /\ rtpBps \in 5000..9900 /\ paused \in BOOLEAN
    BY DEF CrashTypeOK
  <2>2. CASE \E r \in RtpChoices : setRtp(r)
    <3>1. PICK r \in RtpChoices : setRtp(r)
      BY <2>2
    <3>2. rtpBps' = r /\ r \in Nat /\ 5000 <= r /\ r <= 9900 /\ UNCHANGED <<clock, paused>>
      BY <3>1, CrashAssumption DEF setRtp
    <3> QED BY <2>1, <3>2
  <2>3. CASE \E v \in PauseChoices : setPaused(v)
    <3>1. PICK v \in PauseChoices : setPaused(v)
      BY <2>3
    <3>2. v \in BOOLEAN
      BY CrashAssumption
    <3>3. paused' = v
      BY <3>1 DEF setPaused
    <3>4. clock' = clock /\ rtpBps' = rtpBps
      BY <3>1 DEF setPaused
    <3>5. paused' \in BOOLEAN
      BY <3>2, <3>3, Zenon
    <3> QED BY <2>1, <3>4, <3>5
  <2>4. CASE Advance
    <3>1. clock < MaxClock /\ clock' = clock + 1 /\ UNCHANGED <<rtpBps, paused>>
      BY <2>4 DEF Advance
    <3>2. MaxClock \in Nat
      BY CrashAssumption
    <3>3. clock' \in 0..MaxClock
      BY <2>1, <3>1, <3>2
    <3> QED BY <2>1, <3>1, <3>3
  <2> QED BY <2>2, <2>3, <2>4
<1>3. CrashTypeOK'
  BY <1>1, <1>2 DEF CrashTypeOK
<1>4. MultipliersInRange' /\ PendingTotal' /\ CrashSolvent'
  BY <1>1 DEF MultipliersInRange, PendingTotal, TotalOf, CrashSolvent, isUnresolved
<1> QED BY <1>3, <1>4

LEMMA CrashStutterInv ==
    ASSUME CrashInv, UNCHANGED crashVars
    PROVE  CrashInv'
BY DEF CrashInv, crashVars, CrashTypeOK, MultipliersInRange, PendingTotal, TotalOf,
       CrashSolvent, isUnresolved

-----------------------------------------------------------------------------
(* Every transaction keeps the types, the two totals and the money behind  *)
(* every unclaimed credit.                                                 *)
THEOREM CrashStepInv == CrashInv /\ [CrashNext]_crashVars => CrashInv'
<1> SUFFICES ASSUME CrashInv, [CrashNext]_crashVars PROVE CrashInv'
  OBVIOUS
<1>1. CASE \E s \in Seeds : startRound(s)
  BY <1>1, StartRoundInv
<1>2. CASE \E p \in Players, a \in StakeChoices, x \in AutoChoices : joinRound(p, a, x)
  BY <1>2, JoinRoundInv
<1>3. CASE lockRound
  BY <1>3, LockRoundInv
<1>4. CASE \E p \in Players, x \in CashOutChoices : cashOut(p, x)
  BY <1>4, CashOutInv
<1>5. CASE resolveRound
  BY <1>5, ResolveRoundInv
<1>6. CASE cancelStuckRound \/ cancelPendingRound
  <2>1. refundAll /\ isUnresolved
    BY <1>6 DEF cancelStuckRound, cancelPendingRound, isUnresolved
  <2> QED BY <2>1, RefundAllInv
<1>7. CASE \E p \in Players : claim(p)
  BY <1>7, ClaimInv
<1>8. CASE \E a \in BankrollChoices : depositBankroll(a) \/ withdrawBankroll(a)
  BY <1>8, BankrollInv
<1>9. CASE (\E r \in RtpChoices : setRtp(r)) \/ (\E v \in PauseChoices : setPaused(v)) \/ Advance
  BY <1>9, AdminInv
<1>10. CASE UNCHANGED crashVars
  BY <1>10, CrashStutterInv
<1> QED
  BY <1>1, <1>2, <1>3, <1>4, <1>5, <1>6, <1>7, <1>8, <1>9, <1>10 DEF CrashNext

(* The three hold in every reachable state, with any number of players.    *)
THEOREM CrashInvariant == CrashSpec => []CrashInv
<1>1. CrashInit => CrashInv
  BY CrashInitInv
<1>2. CrashInv /\ [CrashNext]_crashVars => CrashInv'
  BY CrashStepInv
<1> QED BY <1>1, <1>2, PTL DEF CrashSpec

(* Type correctness: in particular the crash point and the cap lockRound   *)
(* sets are multipliers, whatever the entries.                             *)
THEOREM CrashTyped == CrashSpec => []CrashTypeOK
<1>1. CrashInv => CrashTypeOK
  BY DEF CrashInv
<1> QED BY <1>1, CrashInvariant, PTL

(* The running total of unclaimed credits is the sum of the credits, and   *)
(* the round's totals those of its entries, through refunds, wins, claims. *)
THEOREM CrashPendingTotal == CrashSpec => []PendingTotal
<1>1. CrashInv => PendingTotal
  BY DEF CrashInv
<1> QED BY <1>1, CrashInvariant, PTL

(* The contract always holds every credited win and every stake at risk.   *)
THEOREM CrashAlwaysSolvent == CrashSpec => []CrashSolvent
<1>1. CrashInv => CrashSolvent
  BY DEF CrashInv
<1> QED BY <1>1, CrashInvariant, PTL

-----------------------------------------------------------------------------
(* The scheduler *)

Fates == {"None", "Joined", "Won", "Lost", "Refunded"}
RowStatus == {"None", "PENDING", "WON", "LOST", "REFUNDED"}

SchedTypes ==
    /\ pc \in Pcs
    /\ held \in [id : 0..MaxRounds, seed : 0..(SeedSpace - 1)]
    /\ receipt \in [Players -> Int]
    /\ rows \in [Players -> [Rounds -> RowStatus]]
    /\ fate \in [Players -> [Rounds -> Fates]]
    /\ faults \in Nat

(* The stakes of the open round, and no others, are still at risk. *)
StakesAtRisk ==
    /\ isUnresolved =>
          /\ currentRoundId \in Rounds
          /\ \A p \in Players : fate[p][currentRoundId] = IF p \in joined THEN "Joined" ELSE "None"
    /\ \A p \in Players, r \in Rounds :
          /\ fate[p][r] = "Joined" => isUnresolved /\ r = currentRoundId
          /\ fate[p][r] # "None" => r <= currentRoundId

(* What the worker is about to write is what the chain did. *)
ReconcilesChain ==
    /\ pc = "ReconcileCancelled" =>
          /\ held.id = currentRoundId /\ round.status = "Resolved"
          /\ \A p \in Players : held.id \in Rounds => fate[p][held.id] \in {"None", "Refunded"}
    /\ pc = "Publish" =>
          /\ held.id = currentRoundId /\ round.status = "Resolved"
          /\ \A p \in Players : held.id \in Rounds =>
                fate[p][held.id] \in {"None", IF receipt[p] > 0 THEN "Won" ELSE "Lost"}

(* Only a stake that the app can see on chain has a row. *)
RowsKnown == \A p \in Players, r \in Rounds : rows[p][r] # "None" => fate[p][r] # "None"

WorkerInv ==
    /\ SchedTypes
    /\ StakesAtRisk
    /\ ReconcilesChain
    /\ RowsKnown
    /\ RowsAgreeWithChain
    /\ HeldRoundIsCurrent

SchedInv == CrashInv /\ WorkerInv

(* The worker and the players only do to the contract what it offers.      *)
LEMMA SchedDrivesCrash ==
    ASSUME [SchedNext]_schedVars
    PROVE  [CrashNext]_crashVars
<1>1. CASE recoverPending \/ recoverRunning \/ runStart \/ runLock \/ runResolve \/ ReceiptLost
  BY <1>1 DEF recoverPending, recoverRunning, runStart, runLock, runResolve, ReceiptLost,
     callCancel, callStart, callLock, callResolve, CrashNext
<1>2. CASE \/ recoverNothing \/ reconcileCancelledBets \/ startReverts \/ reconcilePendingBets
           \/ retryAfterPause \/ Die \/ Boot \/ CallFails
           \/ \E p \in Players, r \in Rounds : recordJoin(p, r)
           \/ UNCHANGED schedVars
  BY <1>2 DEF recoverNothing, reconcileCancelledBets, startReverts, reconcilePendingBets,
     retryAfterPause, Die, Boot, CallFails, recordJoin, schedVars
<1>3. CASE playerJoins
  BY <1>3 DEF playerJoins, CrashNext
<1>4. CASE onChainOnly \/ timePasses
  BY <1>4 DEF onChainOnly, timePasses, CrashNext
<1> QED BY <1>1, <1>2, <1>3, <1>4 DEF SchedNext

(* What the chain did with a stake, it does not undo. *)
FatesStand ==
    \A p \in Players, r \in Rounds :
        /\ fate[p][r] \notin {"None", "Joined"} => fate'[p][r] = fate[p][r]
        /\ fate[p][r] # "None" => fate'[p][r] # "None"

LEMMA RoundStays ==
    ASSUME StakesAtRisk, UNCHANGED <<fate, currentRoundId>>, joined' = joined,
           isUnresolved' <=> isUnresolved
    PROVE  StakesAtRisk' /\ FatesStand
BY DEF StakesAtRisk, FatesStand

LEMMA CallStart ==
    ASSUME CrashInv, SchedTypes, StakesAtRisk, callStart
    PROVE  StakesAtRisk' /\ FatesStand /\ round'.seed \in 0..(SeedSpace - 1)
           /\ round'.status = "Pending" /\ currentRoundId' \in 0..MaxRounds
<1>1. PICK s \in Seeds : startRound(s)
  BY DEF callStart
<1>2. /\ ~isUnresolved /\ currentRoundId' = currentRoundId + 1 /\ fate' = fate
      /\ currentRoundId < MaxRounds
      /\ round' = [NoRound EXCEPT !.status = "Pending", !.seed = s]
      /\ entries' = [p \in Players |-> NoEntry]
  BY <1>1 DEF startRound, callStart
<1>3. currentRoundId \in 0..MaxRounds /\ MaxRounds \in Nat /\ s \in 0..(SeedSpace - 1)
  BY CrashAssumption DEF CrashInv, CrashTypeOK, CrashAssumption
<1>4. round'.status = "Pending" /\ round'.seed = s /\ joined' = {}
  BY <1>2 DEF NoRound, joined, NoEntry
<1>5. currentRoundId' \in Rounds /\ \A p \in Players : fate[p][currentRoundId'] = "None"
  BY <1>2, <1>3 DEF Rounds, StakesAtRisk
<1>6. StakesAtRisk'
  BY <1>2, <1>3, <1>4, <1>5 DEF StakesAtRisk, isUnresolved, Rounds
<1> QED BY <1>2, <1>3, <1>4, <1>5, <1>6 DEF FatesStand, Rounds

LEMMA CallLock ==
    ASSUME CrashInv, StakesAtRisk, callLock
    PROVE  StakesAtRisk' /\ FatesStand /\ round'.seed = round.seed
           /\ round'.status = "Running" /\ currentRoundId' = currentRoundId
<1>1. /\ round.status = "Pending" /\ round \in RoundType
      /\ UNCHANGED <<currentRoundId, entries, fate>>
      /\ round' = [round EXCEPT !.status = "Running", !.startedAt = clock,
                     !.maxSustainableCrashX100 = maxSustainableCrashX100(lockAvailable)]
  BY CrashTypesNamed DEF CrashInv, callLock, lockRound
<1>2. round'.status = "Running" /\ round'.seed = round.seed
  BY <1>1 DEF RoundType
<1>3. joined' = joined /\ (isUnresolved' <=> isUnresolved)
  BY <1>1, <1>2 DEF joined, isUnresolved
<1> QED BY <1>1, <1>2, <1>3, RoundStays

(* A round that ends, resolved or refunded, takes the fate of its stakes   *)
(* from what the transaction credits.                                      *)
LEMMA RoundEnds ==
    ASSUME CrashInv, SchedTypes, StakesAtRisk, isUnresolved, NEW newFate,
           \A p \in Players : newFate[p] \in {"Won", "Lost", "Refunded"},
           fate' = fateOf(newFate), ~isUnresolved', currentRoundId' = currentRoundId
    PROVE  /\ StakesAtRisk' /\ FatesStand
           /\ fate' \in [Players -> [Rounds -> Fates]]
           /\ \A p \in Players : currentRoundId \in Rounds =>
                 fate'[p][currentRoundId] \in {"None", newFate[p]}
<1>1. /\ currentRoundId \in Rounds /\ fate \in [Players -> [Rounds -> Fates]]
      /\ \A p \in Players : fate[p][currentRoundId] = IF p \in joined THEN "Joined" ELSE "None"
  BY DEF StakesAtRisk, SchedTypes
<1>2. fate' = [p \in Players |-> IF p \in joined
                                 THEN [fate[p] EXCEPT ![currentRoundId] = newFate[p]]
                                 ELSE fate[p]]
  BY DEF fateOf
<1>3. fate' \in [Players -> [Rounds -> Fates]]
  BY <1>1, <1>2 DEF Fates
<1>4. \A p \in Players, r \in Rounds :
        fate'[p][r] = IF p \in joined /\ r = currentRoundId THEN newFate[p] ELSE fate[p][r]
  BY <1>1, <1>2
<1>5. StakesAtRisk'
  <2>1. ASSUME NEW p \in Players, NEW r \in Rounds
        PROVE  /\ fate'[p][r] # "Joined"
               /\ fate'[p][r] # "None" => r <= currentRoundId
    BY <1>1, <1>4 DEF StakesAtRisk
  <2> QED BY <2>1 DEF StakesAtRisk
<1>6. FatesStand
  BY <1>1, <1>4 DEF FatesStand
<1> QED BY <1>1, <1>3, <1>4, <1>5, <1>6

LEMMA CallResolve ==
    ASSUME CrashInv, SchedTypes, StakesAtRisk, callResolve
    PROVE  /\ StakesAtRisk' /\ FatesStand
           /\ fate' \in [Players -> [Rounds -> Fates]]
           /\ round'.status = "Resolved" /\ currentRoundId' = currentRoundId
           /\ \A p \in Players : credited(p) \in Int
           /\ \A p \in Players : currentRoundId \in Rounds =>
                 fate'[p][currentRoundId] \in {"None", IF credited(p) > 0 THEN "Won" ELSE "Lost"}
<1>0. resolveRound /\ fate' = fateOf(wonOrLost) /\ round \in RoundType
  BY CrashTypesNamed DEF CrashInv, callResolve
<1>1. /\ round.status = "Running"
      /\ currentRoundId' = currentRoundId
      /\ round' = [round EXCEPT !.status = "Resolved", !.crashMultiplierX100 = crashPoint]
  BY <1>0 DEF resolveRound
<1>2. round'.status = "Resolved"
  BY <1>0, <1>1 DEF RoundType
<1>3. isUnresolved /\ ~isUnresolved'
  BY <1>1, <1>2 DEF isUnresolved
<1>4. \A p \in Players : /\ wonOrLost[p] = IF credited(p) > 0 THEN "Won" ELSE "Lost"
                         /\ wonOrLost[p] \in {"Won", "Lost", "Refunded"}
  BY DEF wonOrLost
<1>5. \A p \in Players : credited(p) \in Int
  <2>1. CrashInv'
    BY <1>0, CrashStepInv DEF CrashNext
  <2> QED BY <2>1 DEF CrashInv, CrashTypeOK, credited
<1>6. /\ StakesAtRisk' /\ FatesStand /\ fate' \in [Players -> [Rounds -> Fates]]
      /\ \A p \in Players : currentRoundId \in Rounds =>
            fate'[p][currentRoundId] \in {"None", wonOrLost[p]}
  BY <1>0, <1>1, <1>3, <1>4, RoundEnds
<1> QED BY <1>1, <1>2, <1>4, <1>5, <1>6

LEMMA CallCancel ==
    ASSUME CrashInv, SchedTypes, StakesAtRisk,
           callCancel(cancelPendingRound) \/ callCancel(cancelStuckRound)
    PROVE  /\ StakesAtRisk' /\ FatesStand
           /\ fate' \in [Players -> [Rounds -> Fates]]
           /\ round'.status = "Resolved" /\ currentRoundId' = currentRoundId
           /\ \A p \in Players : currentRoundId \in Rounds =>
                 fate'[p][currentRoundId] \in {"None", "Refunded"}
<1>1. /\ isUnresolved /\ round \in RoundType
      /\ currentRoundId' = currentRoundId /\ fate' = fateOf(refunded)
      /\ round' = [round EXCEPT !.status = "Resolved", !.crashMultiplierX100 = 0]
  BY CrashTypesNamed DEF CrashInv, callCancel, cancelPendingRound, cancelStuckRound, refundAll,
     isUnresolved
<1>2. round'.status = "Resolved"
  BY <1>1 DEF RoundType
<1>3. ~isUnresolved'
  BY <1>2 DEF isUnresolved
<1>4. \A p \in Players : refunded[p] = "Refunded"
  BY DEF refunded
<1>5. /\ StakesAtRisk' /\ FatesStand /\ fate' \in [Players -> [Rounds -> Fates]]
      /\ \A p \in Players : currentRoundId \in Rounds =>
            fate'[p][currentRoundId] \in {"None", refunded[p]}
  BY <1>1, <1>3, <1>4, RoundEnds
<1> QED BY <1>1, <1>2, <1>4, <1>5

(* As long as no row changes, what is recorded stays true.                 *)
LEMMA RowsStay ==
    ASSUME RowsKnown, RowsAgreeWithChain, FatesStand, rows' = rows
    PROVE  RowsKnown' /\ RowsAgreeWithChain'
BY DEF RowsKnown, RowsAgreeWithChain, FatesStand

LEMMA FreshTypes ==
    /\ NothingHeld \in [id : 0..MaxRounds, seed : 0..(SeedSpace - 1)]
    /\ NoReceipt \in [Players -> Int]
    /\ afterError \in {"Start", "Paused"}
    /\ {"Down", "Recover", "ReconcileCancelled", "Start", "Waiting", "Flying", "Publish",
        "Paused"} \subseteq Pcs
<1>1. 0 \in 0..MaxRounds /\ 0 \in 0..(SeedSpace - 1)
  BY CrashAssumption, SeedSpaceNat DEF CrashAssumption
<1>2. NothingHeld \in [id : 0..MaxRounds, seed : 0..(SeedSpace - 1)]
  BY <1>1 DEF NothingHeld
<1>3. NoReceipt \in [Players -> Int]
  BY DEF NoReceipt
<1>4. afterError \in {"Start", "Paused"}
  BY DEF afterError
<1> QED BY <1>2, <1>3, <1>4 DEF Pcs

(* Steps between two calls: only the worker's memory and its place change. *)
LEMMA WorkerMoves ==
    ASSUME SchedInv, UNCHANGED <<crashVars, rows, fate>>,
           \/ recoverNothing \/ startReverts \/ retryAfterPause \/ Die \/ Boot \/ CallFails
           \/ UNCHANGED workerVars
    PROVE  WorkerInv'
<1>1. /\ UNCHANGED <<currentRoundId, round, entries>> /\ WorkerInv
      /\ rows' = rows /\ fate' = fate
  BY DEF crashVars, SchedInv
<1>2. StakesAtRisk' /\ FatesStand
  BY <1>1, RoundStays DEF WorkerInv, joined, isUnresolved
<1>3. RowsKnown' /\ RowsAgreeWithChain'
  BY <1>1, <1>2, RowsStay DEF WorkerInv
<1>4. CASE UNCHANGED workerVars
  BY <1>1, <1>2, <1>3, <1>4 DEF workerVars, WorkerInv, SchedTypes, ReconcilesChain, HeldRoundIsCurrent
<1>5. CASE recoverNothing \/ startReverts \/ retryAfterPause \/ Die \/ Boot \/ CallFails
  <2>1. /\ pc' \in {"Start", "Paused", "Down", "Recover"}
        /\ held' \in {held, NothingHeld} /\ receipt' \in {receipt, NoReceipt}
        /\ faults' \in {faults, faults + 1}
    BY <1>5, FreshTypes DEF recoverNothing, startReverts, retryAfterPause, Die, Boot, CallFails,
       lostMemory
  <2>2. SchedTypes'
    BY <1>1, <2>1, FreshTypes DEF WorkerInv, SchedTypes
  <2>3. ReconcilesChain' /\ HeldRoundIsCurrent'
    BY <2>1 DEF ReconcilesChain, HeldRoundIsCurrent
  <2> QED BY <1>2, <1>3, <2>2, <2>3 DEF WorkerInv
<1> QED BY <1>4, <1>5

(* A call starts, locks or resolves the worker's round, and the worker     *)
(* gets its receipt (went) or not (lost).                                  *)
LEMMA WorkerStarts ==
    ASSUME SchedInv, callStart, rows' = rows,
           \/ runStart
           \/ lostMemory /\ pc' = "Paused" /\ faults' = faults + 1
    PROVE  WorkerInv'
<1>1. CrashInv /\ WorkerInv /\ fate' = fate
  BY DEF SchedInv, callStart
<1>2. /\ StakesAtRisk' /\ FatesStand /\ round'.seed \in 0..(SeedSpace - 1)
      /\ round'.status = "Pending" /\ currentRoundId' \in 0..MaxRounds
  BY <1>1, CallStart DEF WorkerInv
<1>3. RowsKnown' /\ RowsAgreeWithChain'
  BY <1>1, <1>2, RowsStay DEF WorkerInv
<1>4. CASE runStart
  <2>1. /\ held' = [id |-> currentRoundId', seed |-> round'.seed]
        /\ pc' = "Waiting" /\ UNCHANGED <<receipt, rows, faults>>
    BY <1>4 DEF runStart
  <2>2. SchedTypes'
    BY <1>1, <1>2, <2>1, FreshTypes DEF WorkerInv, SchedTypes
  <2>3. ReconcilesChain' /\ HeldRoundIsCurrent'
    BY <1>2, <2>1 DEF ReconcilesChain, HeldRoundIsCurrent
  <2> QED BY <1>2, <1>3, <2>2, <2>3 DEF WorkerInv
<1>5. CASE lostMemory /\ pc' = "Paused" /\ faults' = faults + 1
  <2>1. SchedTypes'
    BY <1>1, <1>5, FreshTypes DEF WorkerInv, SchedTypes, lostMemory
  <2>2. ReconcilesChain' /\ HeldRoundIsCurrent'
    BY <1>5 DEF ReconcilesChain, HeldRoundIsCurrent
  <2> QED BY <1>2, <1>3, <2>1, <2>2 DEF WorkerInv
<1> QED BY <1>4, <1>5

LEMMA WorkerLocks ==
    ASSUME SchedInv, callLock, rows' = rows,
           \/ runLock
           \/ lostMemory /\ pc' = "Paused" /\ faults' = faults + 1
    PROVE  WorkerInv'
<1>1. CrashInv /\ WorkerInv /\ fate' = fate
  BY DEF SchedInv, callLock
<1>2. /\ StakesAtRisk' /\ FatesStand /\ round'.seed = round.seed
      /\ round'.status = "Running" /\ currentRoundId' = currentRoundId
  BY <1>1, CallLock DEF WorkerInv
<1>3. RowsKnown' /\ RowsAgreeWithChain'
  BY <1>1, <1>2, RowsStay DEF WorkerInv
<1>4. CASE runLock
  <2>1. pc = "Waiting" /\ pc' = "Flying" /\ UNCHANGED <<held, receipt, rows, faults>>
    BY <1>4 DEF runLock
  <2>2. SchedTypes'
    BY <1>1, <2>1, FreshTypes DEF WorkerInv, SchedTypes
  <2>3. ReconcilesChain' /\ HeldRoundIsCurrent'
    BY <1>1, <1>2, <2>1 DEF WorkerInv, ReconcilesChain, HeldRoundIsCurrent
  <2> QED BY <1>2, <1>3, <2>2, <2>3 DEF WorkerInv
<1>5. CASE lostMemory /\ pc' = "Paused" /\ faults' = faults + 1
  <2>1. SchedTypes'
    BY <1>1, <1>5, FreshTypes DEF WorkerInv, SchedTypes, lostMemory
  <2>2. ReconcilesChain' /\ HeldRoundIsCurrent'
    BY <1>5 DEF ReconcilesChain, HeldRoundIsCurrent
  <2> QED BY <1>2, <1>3, <2>1, <2>2 DEF WorkerInv
<1> QED BY <1>4, <1>5

LEMMA WorkerResolves ==
    ASSUME SchedInv, callResolve, pc = "Flying", rows' = rows,
           \/ runResolve
           \/ lostMemory /\ pc' = "Paused" /\ faults' = faults + 1
    PROVE  WorkerInv'
<1>1. CrashInv /\ WorkerInv
  BY DEF SchedInv
<1>2. /\ StakesAtRisk' /\ FatesStand
      /\ fate' \in [Players -> [Rounds -> Fates]]
      /\ round'.status = "Resolved" /\ currentRoundId' = currentRoundId
      /\ \A p \in Players : credited(p) \in Int
      /\ \A p \in Players : currentRoundId \in Rounds =>
            fate'[p][currentRoundId] \in {"None", IF credited(p) > 0 THEN "Won" ELSE "Lost"}
  BY <1>1, CallResolve DEF WorkerInv
<1>3. RowsKnown' /\ RowsAgreeWithChain'
  BY <1>1, <1>2, RowsStay DEF WorkerInv
<1>4. CASE runResolve
  <2>1. /\ pc' = "Publish" /\ UNCHANGED <<held, rows, faults>>
        /\ receipt' = [p \in Players |-> credited(p)]
    BY <1>4 DEF runResolve
  <2>2. SchedTypes'
    BY <1>1, <1>2, <2>1, FreshTypes DEF WorkerInv, SchedTypes
  <2>3. held'.id = currentRoundId' /\ \A p \in Players : receipt'[p] = credited(p)
    BY <1>1, <1>2, <2>1 DEF WorkerInv, HeldRoundIsCurrent
  <2>4. ReconcilesChain'
    BY <1>2, <2>1, <2>3 DEF ReconcilesChain
  <2>5. HeldRoundIsCurrent'
    BY <2>1 DEF HeldRoundIsCurrent
  <2> QED BY <1>2, <1>3, <2>2, <2>4, <2>5 DEF WorkerInv
<1>5. CASE lostMemory /\ pc' = "Paused" /\ faults' = faults + 1
  <2>1. SchedTypes'
    BY <1>1, <1>2, <1>5, FreshTypes DEF WorkerInv, SchedTypes, lostMemory
  <2>2. ReconcilesChain' /\ HeldRoundIsCurrent'
    BY <1>5 DEF ReconcilesChain, HeldRoundIsCurrent
  <2> QED BY <1>2, <1>3, <2>1, <2>2 DEF WorkerInv
<1> QED BY <1>4, <1>5

LEMMA WorkerRecovers ==
    ASSUME SchedInv, recoverPending \/ recoverRunning
    PROVE  WorkerInv'
<1>1. /\ CrashInv /\ WorkerInv /\ CrashTypeOK
      /\ held' = [id |-> currentRoundId, seed |-> 0] /\ pc' = "ReconcileCancelled"
      /\ UNCHANGED <<receipt, rows, faults>>
      /\ callCancel(cancelPendingRound) \/ callCancel(cancelStuckRound)
  BY DEF SchedInv, CrashInv, recoverPending, recoverRunning
<1>2. /\ StakesAtRisk' /\ FatesStand
      /\ fate' \in [Players -> [Rounds -> Fates]]
      /\ round'.status = "Resolved" /\ currentRoundId' = currentRoundId
      /\ \A p \in Players : currentRoundId \in Rounds =>
            fate'[p][currentRoundId] \in {"None", "Refunded"}
  BY <1>1, CallCancel DEF WorkerInv
<1>3. RowsKnown' /\ RowsAgreeWithChain'
  BY <1>1, <1>2, RowsStay DEF WorkerInv
<1>4. SchedTypes'
  <2>1. held' \in [id : 0..MaxRounds, seed : 0..(SeedSpace - 1)]
    <3>1. currentRoundId \in 0..MaxRounds /\ 0 \in 0..(SeedSpace - 1)
      BY <1>1, SeedSpaceNat DEF CrashTypeOK
    <3> QED BY <1>1, <3>1
  <2> QED BY <1>1, <1>2, <2>1, FreshTypes DEF WorkerInv, SchedTypes
<1>5. ReconcilesChain' /\ HeldRoundIsCurrent'
  BY <1>1, <1>2 DEF ReconcilesChain, HeldRoundIsCurrent
<1> QED BY <1>2, <1>3, <1>4, <1>5 DEF WorkerInv

(* Reconciliation: each pending row of the round takes what the chain did  *)
(* with that player's stake.                                               *)
LEMMA RowsWritten ==
    ASSUME WorkerInv, NEW r, NEW newStatus, setRows(r, newStatus), fate' = fate,
           \A p \in Players : newStatus[p] \in RowStatus \ {"None"},
           \A p \in Players : r \in Rounds /\ fate[p][r] # "None" =>
               /\ newStatus[p] = "WON" => fate[p][r] = "Won"
               /\ newStatus[p] = "LOST" => fate[p][r] = "Lost"
               /\ newStatus[p] = "REFUNDED" => fate[p][r] = "Refunded"
    PROVE  /\ rows' \in [Players -> [Rounds -> RowStatus]]
           /\ RowsKnown' /\ RowsAgreeWithChain'
<1>1. /\ rows \in [Players -> [Rounds -> RowStatus]] /\ RowsKnown /\ RowsAgreeWithChain
      /\ fate \in [Players -> [Rounds -> Fates]]
  BY DEF WorkerInv, SchedTypes
<1>2. rows' = [p \in Players |-> IF rows[p][r] = "PENDING"
                                 THEN [rows[p] EXCEPT ![r] = newStatus[p]] ELSE rows[p]]
  BY DEF setRows
<1>3. ASSUME NEW p \in Players
      PROVE  /\ rows'[p] \in [Rounds -> RowStatus]
             /\ \A q \in Rounds :
                   \/ rows'[p][q] = rows[p][q]
                   \/ q = r /\ rows[p][q] = "PENDING" /\ rows'[p][q] = newStatus[p]
  BY <1>1, <1>2, <1>3
<1>4. rows' \in [Players -> [Rounds -> RowStatus]]
  BY <1>2, <1>3
<1>5. RowsKnown'
  BY <1>1, <1>3 DEF RowsKnown
<1>6. RowsAgreeWithChain'
  <2>1. ASSUME NEW p \in Players, NEW q \in Rounds
        PROVE  /\ rows'[p][q] = "WON"  => fate'[p][q] = "Won"
               /\ rows'[p][q] = "LOST" => fate'[p][q] = "Lost"
               /\ rows'[p][q] = "REFUNDED" => fate'[p][q] = "Refunded"
    <3>1. CASE rows'[p][q] = rows[p][q]
      BY <1>1, <3>1 DEF RowsAgreeWithChain
    <3>2. CASE q = r /\ rows[p][q] = "PENDING" /\ rows'[p][q] = newStatus[p]
      <4>1. fate[p][q] # "None"
        BY <1>1, <3>2 DEF RowsKnown
      <4> QED BY <3>2, <4>1
    <3> QED BY <1>3, <3>1, <3>2
  <2> QED BY <2>1 DEF RowsAgreeWithChain
<1> QED BY <1>4, <1>5, <1>6

LEMMA WorkerReconciles ==
    ASSUME SchedInv, reconcileCancelledBets \/ reconcilePendingBets
    PROVE  WorkerInv'
<1> DEFINE st == IF pc = "Publish" THEN rowSettled ELSE rowRefunded
<1>1. /\ WorkerInv /\ pc \in {"ReconcileCancelled", "Publish"} /\ setRows(held.id, st)
      /\ pc' = "Start" /\ held' = NothingHeld /\ receipt' \in {receipt, NoReceipt}
      /\ UNCHANGED <<crashVars, fate, faults>>
  BY DEF SchedInv, reconcileCancelledBets, reconcilePendingBets
<1>2. \A p \in Players :
        /\ st[p] \in RowStatus \ {"None"}
        /\ pc = "Publish" => st[p] = IF receipt[p] > 0 THEN "WON" ELSE "LOST"
        /\ pc # "Publish" => st[p] = "REFUNDED"
  BY DEF rowSettled, rowRefunded, RowStatus
<1> HIDE DEF st
<1>3. \A p \in Players : held.id \in Rounds /\ fate[p][held.id] # "None" =>
        /\ st[p] = "WON" => fate[p][held.id] = "Won"
        /\ st[p] = "LOST" => fate[p][held.id] = "Lost"
        /\ st[p] = "REFUNDED" => fate[p][held.id] = "Refunded"
  BY <1>1, <1>2 DEF WorkerInv, ReconcilesChain
<1>4. rows' \in [Players -> [Rounds -> RowStatus]] /\ RowsKnown' /\ RowsAgreeWithChain'
  BY <1>1, <1>2, <1>3, RowsWritten
<1>5. SchedTypes'
  BY <1>1, <1>4, FreshTypes DEF WorkerInv, SchedTypes
<1>6. StakesAtRisk'
  BY <1>1, RoundStays DEF WorkerInv, joined, isUnresolved, crashVars
<1>7. ReconcilesChain' /\ HeldRoundIsCurrent'
  BY <1>1 DEF ReconcilesChain, HeldRoundIsCurrent
<1> QED BY <1>4, <1>5, <1>6, <1>7 DEF WorkerInv

(* A row is recorded for a stake the chain knows of, and says nothing yet. *)
LEMMA JoinRecorded ==
    ASSUME SchedInv, NEW p \in Players, NEW r \in Rounds, recordJoin(p, r)
    PROVE  WorkerInv'
<1>1. /\ WorkerInv /\ fate[p][r] # "None" /\ rows' = [rows EXCEPT ![p][r] = "PENDING"]
      /\ UNCHANGED <<crashVars, pc, held, receipt, fate, faults>>
      /\ UNCHANGED <<currentRoundId, round, entries>>
  BY DEF SchedInv, recordJoin, crashVars
<1>2. rows \in [Players -> [Rounds -> RowStatus]] /\ "PENDING" \in RowStatus
  BY <1>1 DEF WorkerInv, SchedTypes, RowStatus
<1>3. /\ rows' \in [Players -> [Rounds -> RowStatus]]
      /\ \A q \in Players, s \in Rounds :
            rows'[q][s] = IF q = p /\ s = r THEN "PENDING" ELSE rows[q][s]
  BY <1>1, <1>2
<1>4. RowsKnown' /\ RowsAgreeWithChain'
  BY <1>1, <1>3 DEF WorkerInv, RowsKnown, RowsAgreeWithChain
<1>5. SchedTypes'
  BY <1>1, <1>3 DEF WorkerInv, SchedTypes
<1>6. StakesAtRisk'
  BY <1>1, RoundStays DEF WorkerInv, joined, isUnresolved
<1>7. ReconcilesChain' /\ HeldRoundIsCurrent'
  BY <1>1 DEF WorkerInv, ReconcilesChain, HeldRoundIsCurrent
<1> QED BY <1>4, <1>5, <1>6, <1>7 DEF WorkerInv

(* A stake joins the open round and is at risk from then on.               *)
LEMMA StakeJoins ==
    ASSUME SchedInv, playerJoins
    PROVE  WorkerInv'
<1>1. PICK p \in Players, a \in StakeChoices, x \in AutoChoices :
        joinRound(p, a, x) /\ fate' = [fate EXCEPT ![p][currentRoundId] = "Joined"]
  BY DEF playerJoins
<1>2. /\ WorkerInv /\ UNCHANGED <<pc, held, receipt, rows, faults>>
      /\ round \in RoundType /\ entries \in [Players -> EntryType]
  BY CrashTypesNamed DEF SchedInv, playerJoins, CrashInv
<1>3. /\ round.status = "Pending" /\ p \notin joined /\ currentRoundId' = currentRoundId
      /\ MIN_STAKE <= a
      /\ round' = [round EXCEPT
                     !.maxPotentialPayout =
                        @ + (a * (IF x = 0 THEN MAX_AUTOCASHOUT_X100 ELSE x)) \div 100,
                     !.totalStaked = @ + a]
      /\ entries' = [entries EXCEPT ![p] = [NoEntry EXCEPT !.amount = a, !.autoCashoutX100 = x]]
  BY <1>1 DEF joinRound
<1>4. round'.status = "Pending" /\ round'.seed = round.seed
  BY <1>2, <1>3 DEF RoundType
<1>5. joined' = joined \cup {p}
  <2>1. a > 0
    <3>1. a \in Nat /\ MIN_STAKE \in Nat /\ MIN_STAKE # 0
      BY CrashAssumption DEF CrashAssumption
    <3> QED BY <1>3, <3>1
  <2>2. \A q \in Players : entries'[q].amount = IF q = p THEN a ELSE entries[q].amount
    BY <1>2, <1>3 DEF NoEntry
  <2> QED BY <2>1, <2>2 DEF joined
<1>6. /\ isUnresolved /\ isUnresolved' /\ currentRoundId \in Rounds
      /\ \A q \in Players : fate[q][currentRoundId] = IF q \in joined THEN "Joined" ELSE "None"
      /\ fate \in [Players -> [Rounds -> Fates]] /\ "Joined" \in Fates
  BY <1>2, <1>3, <1>4 DEF WorkerInv, StakesAtRisk, SchedTypes, isUnresolved, Fates
<1>7. /\ fate' \in [Players -> [Rounds -> Fates]]
      /\ \A q \in Players, r \in Rounds :
            fate'[q][r] = IF q = p /\ r = currentRoundId THEN "Joined" ELSE fate[q][r]
  BY <1>1, <1>6
<1>8. StakesAtRisk'
  <2>1. \A q \in Players :
          fate'[q][currentRoundId'] = IF q \in joined' THEN "Joined" ELSE "None"
    BY <1>3, <1>5, <1>6, <1>7
  <2>2. ASSUME NEW q \in Players, NEW r \in Rounds
        PROVE  /\ fate'[q][r] = "Joined" => r = currentRoundId
               /\ fate'[q][r] # "None" => r <= currentRoundId
    BY <1>2, <1>6, <1>7 DEF WorkerInv, StakesAtRisk, Rounds
  <2> QED BY <1>3, <1>6, <2>1, <2>2 DEF StakesAtRisk
<1>9. FatesStand
  BY <1>3, <1>6, <1>7 DEF FatesStand
<1>10. RowsKnown' /\ RowsAgreeWithChain'
  BY <1>2, <1>9, RowsStay DEF WorkerInv
<1>11. SchedTypes'
  BY <1>2, <1>7 DEF WorkerInv, SchedTypes
<1>12. ReconcilesChain'
  BY <1>2, <1>3 DEF WorkerInv, ReconcilesChain
<1>13. HeldRoundIsCurrent'
  BY <1>2, <1>3, <1>4 DEF WorkerInv, HeldRoundIsCurrent
<1> QED BY <1>8, <1>10, <1>11, <1>12, <1>13 DEF WorkerInv

(* Nothing else on chain touches the round's stakes or their fate.         *)
LEMMA ChainMoves ==
    ASSUME SchedInv, onChainOnly \/ timePasses
    PROVE  WorkerInv'
<1>1. /\ WorkerInv /\ UNCHANGED <<pc, held, receipt, rows, fate, faults>>
      /\ entries \in [Players -> EntryType]
  BY CrashTypesNamed DEF SchedInv, onChainOnly, timePasses, workerVars, CrashInv
<1>2. /\ UNCHANGED <<currentRoundId, round>>
      /\ \/ entries' = entries
         \/ \E p \in Players, x \in CashOutChoices :
               entries' = [entries EXCEPT ![p].cashedOutAtX100 = x]
  BY DEF onChainOnly, timePasses, cashOut, claim, depositBankroll, setPaused, Advance
<1>3. \A q \in Players : entries'[q].amount = entries[q].amount
  BY <1>1, <1>2 DEF EntryType
<1>4. joined' = joined /\ (isUnresolved' <=> isUnresolved)
  BY <1>2, <1>3 DEF joined, isUnresolved
<1>5. StakesAtRisk' /\ FatesStand
  BY <1>1, <1>2, <1>4, RoundStays DEF WorkerInv
<1>6. RowsKnown' /\ RowsAgreeWithChain'
  BY <1>1, <1>5, RowsStay DEF WorkerInv
<1>7. SchedTypes' /\ ReconcilesChain' /\ HeldRoundIsCurrent'
  BY <1>1, <1>2 DEF WorkerInv, SchedTypes, ReconcilesChain, HeldRoundIsCurrent
<1> QED BY <1>5, <1>6, <1>7 DEF WorkerInv

(* Nobody has played and nothing is recorded when the worker starts.       *)
THEOREM SchedInitInv == SchedInit => SchedInv
<1> SUFFICES ASSUME SchedInit PROVE SchedInv
  OBVIOUS
<1>1. CrashInv
  BY CrashInitInv DEF SchedInit
<1>2. /\ rows = perRound("None") /\ fate = perRound("None") /\ pc = "Recover"
      /\ held = NothingHeld /\ receipt = NoReceipt /\ faults = 0 /\ round = NoRound
  BY DEF SchedInit, CrashInit
<1>3. \A p \in Players, r \in Rounds : rows[p][r] = "None" /\ fate[p][r] = "None"
  BY <1>2 DEF perRound
<1>4. ~isUnresolved
  BY <1>2 DEF isUnresolved, NoRound
<1>5. SchedTypes
  <2>1. rows \in [Players -> [Rounds -> RowStatus]] /\ fate \in [Players -> [Rounds -> Fates]]
    BY <1>2 DEF perRound, RowStatus, Fates
  <2> QED BY <1>2, <2>1, FreshTypes DEF SchedTypes
<1>6. StakesAtRisk /\ RowsKnown /\ RowsAgreeWithChain
  BY <1>3, <1>4 DEF StakesAtRisk, RowsKnown, RowsAgreeWithChain
<1>7. ReconcilesChain /\ HeldRoundIsCurrent
  BY <1>2 DEF ReconcilesChain, HeldRoundIsCurrent
<1> QED BY <1>1, <1>5, <1>6, <1>7 DEF SchedInv, WorkerInv

(* Every step of the worker, of its faults, of the players and of the      *)
(* contract keeps the worker's view and the rows in line with the chain.   *)
THEOREM SchedStepInv == SchedInv /\ [SchedNext]_schedVars => SchedInv'
<1> SUFFICES ASSUME SchedInv, [SchedNext]_schedVars PROVE SchedInv'
  OBVIOUS
<1>1. CrashInv'
  BY SchedDrivesCrash, CrashStepInv DEF SchedInv
<1>2. CASE recoverNothing \/ startReverts \/ retryAfterPause \/ Die \/ Boot \/ CallFails
           \/ UNCHANGED schedVars
  <2>1. UNCHANGED <<crashVars, rows, fate>>
    BY <1>2 DEF recoverNothing, startReverts, retryAfterPause, Die, Boot, CallFails,
       schedVars, workerVars
  <2>2. WorkerInv'
    BY <1>2, <2>1, WorkerMoves DEF schedVars
  <2> QED BY <1>1, <2>2 DEF SchedInv
<1>3. CASE runStart \/ runLock \/ runResolve
  BY <1>1, <1>3, WorkerStarts, WorkerLocks, WorkerResolves
     DEF runStart, runLock, runResolve, SchedInv
<1>4. CASE ReceiptLost
  <2>1. /\ lostMemory /\ faults' = faults + 1 /\ rows' = rows /\ pc' = "Paused"
        /\ callStart \/ callLock \/ (pc = "Flying" /\ callResolve)
    BY <1>4 DEF ReceiptLost, afterError
  <2> QED BY <1>1, <2>1, WorkerStarts, WorkerLocks, WorkerResolves DEF SchedInv
<1>5. CASE recoverPending \/ recoverRunning
  BY <1>1, <1>5, WorkerRecovers DEF SchedInv
<1>6. CASE reconcileCancelledBets \/ reconcilePendingBets
  BY <1>1, <1>6, WorkerReconciles DEF SchedInv
<1>7. CASE \/ playerJoins \/ onChainOnly \/ timePasses
           \/ \E p \in Players, r \in Rounds : recordJoin(p, r)
  BY <1>1, <1>7, StakeJoins, ChainMoves, JoinRecorded DEF SchedInv
<1> QED BY <1>2, <1>3, <1>4, <1>5, <1>6, <1>7 DEF SchedNext

(* The worker's inductive invariant, at every state of every run.          *)
THEOREM SchedInvariant == SchedSpec => []SchedInv
<1>1. SchedInit => SchedInv
  BY SchedInitInv
<1>2. SchedInv /\ [SchedNext]_schedVars => SchedInv'
  BY SchedStepInv
<1> QED BY <1>1, <1>2, PTL DEF SchedSpec

(* Whatever fails and whenever the process dies, a settled row says what   *)
(* the chain did with that stake (reconcilePendingBets,                    *)
(* reconcileCancelledBets).                                                *)
THEOREM RowsFollowChain == SchedSpec => []RowsAgreeWithChain
<1>1. SchedInv => RowsAgreeWithChain
  BY DEF SchedInv, WorkerInv
<1> QED BY <1>1, SchedInvariant, PTL

(* The round runRound holds in memory is the chain's current one, with the *)
(* status its next call needs and the seed the contract has committed to.  *)
THEOREM HeldRoundFollowsChain == SchedSpec => []HeldRoundIsCurrent
<1>1. SchedInv => HeldRoundIsCurrent
  BY DEF SchedInv, WorkerInv
<1> QED BY <1>1, SchedInvariant, PTL

-----------------------------------------------------------------------------
(* The cap lockRound sets *)

LEMMA ThresholdsInRange ==
    ASSUME CrashTypeOK, MultipliersInRange
    PROVE  /\ MAX_AUTOCASHOUT_X100 \in Nat /\ FLOOR_X100 \in Nat
           /\ FLOOR_X100 <= MAX_AUTOCASHOUT_X100 /\ FLOOR_X100 > 0
           /\ \A t \in thresholds : t \in Nat /\ FLOOR_X100 <= t /\ t <= MAX_AUTOCASHOUT_X100
<1>1. \A t \in thresholds : t \in Nat /\ 100 < t /\ t <= MAX_AUTOCASHOUT_X100
  BY DEF thresholds, joined, MultipliersInRange, CrashTypeOK
<1> QED BY <1>1, CrashAssumption DEF FLOOR_X100

fixedOf(x) ==
    [p \in Players |-> IF entries[p].autoCashoutX100 # 0 /\ entries[p].autoCashoutX100 <= x
                       THEN (entries[p].amount * entries[p].autoCashoutX100) \div 100 ELSE 0]
manualOf ==
    [p \in Players |-> IF entries[p].autoCashoutX100 = 0 THEN entries[p].amount ELSE 0]

LEMMA LiabilitiesNamed ==
    ASSUME CrashTypeOK, NEW x \in Nat
    PROVE  /\ \A p \in Players : fixedOf(x)[p] \in Nat /\ manualOf[p] \in Nat
           /\ fixedLiability(x) = SumTo(fixedOf(x), NumPlayers) /\ fixedLiability(x) \in Nat
           /\ manualStakeSum = SumTo(manualOf, NumPlayers) /\ manualStakeSum \in Nat
<1>1. \A p \in Players : fixedOf(x)[p] \in Nat /\ manualOf[p] \in Nat
  <2> TAKE p \in Players
  <2>1. entries[p].amount \in Nat /\ entries[p].autoCashoutX100 \in Nat
    BY DEF CrashTypeOK
  <2>2. (entries[p].amount * entries[p].autoCashoutX100) \div 100 \in Nat
    BY <2>1, ProductNat, QuotientNat
  <2> QED BY <2>1, <2>2 DEF fixedOf, manualOf
<1>2. /\ fixedLiability(x) = SumTo(fixedOf(x), NumPlayers)
      /\ manualStakeSum = SumTo(manualOf, NumPlayers)
  BY DEF fixedLiability, manualStakeSum, TotalOf, fixedOf, manualOf
<1> QED BY <1>1, <1>2, SumNat, PlayersCounted

(* Between two thresholds nobody's auto-cashout adds to the liability.     *)
LEMMA LiabilityFlat ==
    ASSUME CrashTypeOK, NEW start \in Nat, NEW x \in Nat, start <= x,
           \A t \in thresholds : t > start => x < t
    PROVE  fixedLiability(x) = fixedLiability(start)
<1>1. \A p \in Players : fixedOf(x)[p] = fixedOf(start)[p]
  <2> TAKE p \in Players
  <2>1. entries[p].amount \in Nat /\ entries[p].autoCashoutX100 \in Nat
    BY DEF CrashTypeOK
  <2>2. CASE p \in joined /\ entries[p].autoCashoutX100 # 0
    <3>1. entries[p].autoCashoutX100 \in thresholds
      BY <2>2 DEF thresholds
    <3>2. entries[p].autoCashoutX100 <= x <=> entries[p].autoCashoutX100 <= start
      BY <2>1, <3>1
    <3> QED BY <3>2 DEF fixedOf
  <2>3. CASE p \notin joined
    <3>1. entries[p].amount = 0
      BY <2>1, <2>3 DEF joined
    <3>2. (entries[p].amount * entries[p].autoCashoutX100) \div 100 = 0
      BY <2>1, <3>1
    <3> QED BY <3>2 DEF fixedOf
  <2>4. CASE entries[p].autoCashoutX100 = 0
    BY <2>4 DEF fixedOf
  <2> QED BY <2>2, <2>3, <2>4
<1>2. SumTo(fixedOf(x), NumPlayers) = SumTo(fixedOf(start), NumPlayers)
  BY <1>1, SumEqual, PlayersCounted
<1> QED BY <1>2, LiabilitiesNamed

(* A segment reaches from its start to just below the next threshold.      *)
LEMMA SegmentEndIs ==
    ASSUME CrashTypeOK, MultipliersInRange, NEW start \in Nat, start <= MAX_AUTOCASHOUT_X100
    PROVE  /\ segmentEnd(start) \in Nat
           /\ start <= segmentEnd(start) /\ segmentEnd(start) <= MAX_AUTOCASHOUT_X100
           /\ \A t \in thresholds : t > start => segmentEnd(start) < t
           /\ \A x \in Nat : x <= MAX_AUTOCASHOUT_X100 /\ (\A t \in thresholds : t > start => x < t)
                              => x <= segmentEnd(start)
<1> DEFINE later == {t \in thresholds : t > start}
<1>1. /\ MAX_AUTOCASHOUT_X100 \in Nat
      /\ \A t \in thresholds : t \in Nat /\ t <= MAX_AUTOCASHOUT_X100
  BY ThresholdsInRange
<1>2. CASE later = {}
  <2>1. segmentEnd(start) = MAX_AUTOCASHOUT_X100
    BY <1>2 DEF segmentEnd
  <2> QED BY <1>1, <1>2, <2>1
<1>3. CASE later # {}
  <2>1. PICK next \in later : \A t \in later : next <= t
    BY <1>1, <1>3, LeastNatural
  <2>2. SmallestOf(later) \in later /\ \A t \in later : SmallestOf(later) <= t
    BY <2>1 DEF SmallestOf
  <2>3. segmentEnd(start) = SmallestOf(later) - 1
    BY <1>3 DEF segmentEnd
  <2> DEFINE first == SmallestOf(later)
  <2>4. /\ first \in thresholds /\ first \in Nat /\ first > start /\ first <= MAX_AUTOCASHOUT_X100
        /\ \A t \in thresholds : t > start => first <= t
    BY <1>1, <2>2
  <2>5. segmentEnd(start) = first - 1
    BY <2>3
  <2> HIDE DEF first, later
  <2> QED BY <1>1, <2>4, <2>5
<1> QED BY <1>2, <1>3

(* What a segment offers is a multiplier of that segment which the         *)
(* capacity covers.                                                        *)
LEMMA SegmentBestCovered ==
    ASSUME CrashTypeOK, MultipliersInRange, NEW start \in {FLOOR_X100} \cup thresholds,
           NEW available \in Nat, segmentBest(start, available) # 0
    PROVE  /\ segmentBest(start, available) \in FLOOR_X100..MAX_AUTOCASHOUT_X100
           /\ worstCaseX100(segmentBest(start, available)) <= 100 * available
<1> DEFINE best == segmentBest(start, available)
           M == manualStakeSum
           F == fixedLiability(start)
           last == segmentEnd(start)
           quotient == ((available - F) * 100) \div M
<1>1. /\ start \in Nat /\ FLOOR_X100 \in Nat /\ MAX_AUTOCASHOUT_X100 \in Nat
      /\ FLOOR_X100 <= start /\ start <= MAX_AUTOCASHOUT_X100
  BY ThresholdsInRange
<1>2. /\ last \in Nat /\ start <= last /\ last <= MAX_AUTOCASHOUT_X100
      /\ \A t \in thresholds : t > start => last < t
  BY <1>1, SegmentEndIs
<1>3. M \in Nat /\ F \in Nat
  BY <1>1, LiabilitiesNamed
<1>4. best = IF F > available THEN 0
             ELSE IF M = 0 THEN last
             ELSE IF Lesser(quotient, last) >= start THEN Lesser(quotient, last)
             ELSE 0
  BY DEF segmentBest
<1>5. F <= available /\ M # 0 => quotient \in Nat /\ quotient * M <= (available - F) * 100
  <2> SUFFICES ASSUME F <= available, M # 0
               PROVE  quotient \in Nat /\ quotient * M <= (available - F) * 100
    OBVIOUS
  <2>1. (available - F) * 100 \in Nat /\ M \in Nat \ {0}
    BY <1>3
  <2> HIDE DEF F, M
  <2> QED BY <2>1, QuotientNat, QuotientBound
<1> HIDE DEF best, M, F, last, quotient
<1>6. F <= available
  BY <1>3, <1>4 DEF best
<1>7. best \in Nat /\ start <= best /\ best <= last /\ (M # 0 => best <= quotient)
  BY <1>1, <1>2, <1>3, <1>4, <1>5, <1>6 DEF best, Lesser
<1>8. fixedLiability(best) = F
  <2>1. \A t \in thresholds : t \in Nat
    BY ThresholdsInRange
  <2>2. \A t \in thresholds : t > start => best < t
    BY <1>2, <1>7, <2>1
  <2> QED BY <1>1, <1>7, <2>2, LiabilityFlat DEF F
<1>9. M * best <= (available - F) * 100
  <2>1. CASE M = 0
    BY <1>3, <1>6, <1>7, <2>1
  <2>2. CASE M # 0
    <3>1. quotient \in Nat /\ quotient * M <= (available - F) * 100
      BY <1>5, <1>6, <2>2
    <3>2. best * M <= quotient * M
      BY <1>3, <1>7, <2>2, <3>1, ProductMonotone
    <3>3. best * M \in Nat /\ quotient * M \in Nat /\ (available - F) * 100 \in Int /\ best * M = M * best
      BY <1>3, <1>7, <3>1, ProductNat
    <3> QED BY <3>1, <3>2, <3>3
  <2> QED BY <2>1, <2>2
<1>10. worstCaseX100(best) <= 100 * available
  <2>1. worstCaseX100(best) = 100 * F + M * best
    BY <1>8 DEF worstCaseX100, M
  <2>2. M * best \in Nat
    BY <1>3, <1>7, ProductNat
  <2> DEFINE due == M * best
  <2> HIDE DEF due
  <2>3. due \in Nat /\ due <= (available - F) * 100 /\ worstCaseX100(best) = 100 * F + due
    BY <1>9, <2>1, <2>2 DEF due
  <2> QED BY <1>3, <1>6, <2>3
<1>11. best \in FLOOR_X100..MAX_AUTOCASHOUT_X100
  BY <1>1, <1>2, <1>7
<1> QED BY <1>10, <1>11 DEF best

LEMMA LargestIs ==
    ASSUME NEW S, S \subseteq Nat, NEW m \in S, \A y \in S : y <= m
    PROVE  LargestOf(S) = m
<1>1. m \in Nat /\ S # {}
  OBVIOUS
<1>2. LargestOf(S) \in S /\ \A y \in S : y <= LargestOf(S)
  BY <1>1, LargestExists
<1>3. LargestOf(S) \in Nat /\ LargestOf(S) <= m /\ m <= LargestOf(S)
  BY <1>2
<1> QED BY <1>1, <1>3

LEMMA LargestUpTo ==
    ASSUME NEW S, S \subseteq Nat, NEW x \in Nat, \E s \in S : s <= x
    PROVE  \E s \in S : s <= x /\ \A r \in S : r > s => x < r
<1> DEFINE T == {s \in S : s <= x}
           m == LargestOf(T)
<1>1. T \subseteq Nat /\ T # {} /\ \A s \in T : s <= x
  OBVIOUS
<1> HIDE DEF T
<1>2. m \in T
  BY <1>1, LargestExists
<1>3. \A y \in T : y <= m
  BY <1>1, LargestExists
<1> USE DEF T
<1> HIDE DEF m
<1> QED BY <1>2, <1>3

covered(available) ==
    {x \in FLOOR_X100..MAX_AUTOCASHOUT_X100 : worstCaseX100(x) <= 100 * available}

(* Every multiplier the capacity covers is reached by the segment it lies  *)
(* in: the one that starts at the last threshold up to it.                 *)
LEMMA CoveredBySegment ==
    ASSUME CrashTypeOK, MultipliersInRange, NEW available \in Nat, NEW x \in covered(available)
    PROVE  \E start \in {FLOOR_X100} \cup thresholds : x <= segmentBest(start, available)
<1> DEFINE S == {FLOOR_X100} \cup thresholds
           M == manualStakeSum
<1>1. /\ FLOOR_X100 \in Nat /\ FLOOR_X100 > 0 /\ MAX_AUTOCASHOUT_X100 \in Nat
      /\ FLOOR_X100 <= MAX_AUTOCASHOUT_X100
      /\ \A t \in thresholds : t \in Nat /\ FLOOR_X100 <= t /\ t <= MAX_AUTOCASHOUT_X100
  BY ThresholdsInRange
<1>2. /\ x \in Nat /\ FLOOR_X100 <= x /\ x <= MAX_AUTOCASHOUT_X100
      /\ worstCaseX100(x) <= 100 * available
  BY <1>1 DEF covered
<1>3. PICK start \in S : start <= x /\ \A r \in S : r > start => x < r
  <2>1. S \subseteq Nat /\ \E s \in S : s <= x
    BY <1>1, <1>2
  <2> HIDE DEF S
  <2> QED BY <1>2, <2>1, LargestUpTo
<1> DEFINE F == fixedLiability(start)
           last == segmentEnd(start)
           quotient == ((available - F) * 100) \div M
<1>4. start \in Nat /\ 0 < start /\ start <= MAX_AUTOCASHOUT_X100
      /\ \A t \in thresholds : t > start => x < t
  BY <1>1, <1>3
<1>5. x <= last /\ last \in Nat
  BY <1>2, <1>4, SegmentEndIs
<1>6. F \in Nat /\ M \in Nat /\ fixedLiability(x) = F
  BY <1>2, <1>3, <1>4, LiabilityFlat, LiabilitiesNamed
<1>7. segmentBest(start, available) =
        IF F > available THEN 0
        ELSE IF M = 0 THEN last
        ELSE IF Lesser(quotient, last) >= start THEN Lesser(quotient, last)
        ELSE 0
  BY DEF segmentBest
<1> DEFINE due == M * x
<1>8. due \in Nat /\ worstCaseX100(x) = 100 * F + due
  BY <1>2, <1>6, ProductNat DEF worstCaseX100
<1> HIDE DEF M, F, last, due
<1>9. F <= available /\ due <= (available - F) * 100
  BY <1>2, <1>6, <1>8
<1>10. M # 0 => quotient \in Nat /\ x <= quotient
  <2> SUFFICES ASSUME M # 0 PROVE quotient \in Nat /\ x <= quotient
    OBVIOUS
  <2> DEFINE room == (available - F) * 100
  <2>1. room \in Nat /\ M \in Nat \ {0} /\ x * M <= room
    BY <1>2, <1>6, <1>9 DEF due
  <2> HIDE DEF room
  <2>2. x <= room \div M /\ room \div M \in Nat
    <3>1. room \div M \in Nat
      BY <2>1, QuotientNat
    <3>2. room < (room \div M + 1) * M
      BY <2>1
    <3>3. x < room \div M + 1
      <4> DEFINE k == room \div M + 1
      <4>1. k \in Nat /\ x * M < k * M /\ x * M \in Nat /\ k * M \in Nat
        BY <1>2, <2>1, <3>1, <3>2, ProductNat
      <4> HIDE DEF k
      <4>2. SUFFICES ASSUME k <= x PROVE FALSE
        BY <1>2, <4>1 DEF k
      <4>3. k * M <= x * M
        BY <1>2, <2>1, <4>1, <4>2, ProductMonotone
      <4> QED BY <4>1, <4>3
    <3> QED BY <1>2, <3>1, <3>3
  <2> QED BY <2>2 DEF room
<1> HIDE DEF quotient
<1>11. x <= segmentBest(start, available)
  BY <1>2, <1>3, <1>4, <1>5, <1>6, <1>7, <1>9, <1>10 DEF Lesser
<1> QED BY <1>11

(* The segment walk of lockRound finds the largest multiplier that the     *)
(* capacity covers, the floor if there is none.                            *)
LEMMA CapFound ==
    ASSUME CrashTypeOK, MultipliersInRange, NEW available \in Nat
    PROVE  maxSustainableCrashX100(available) =
             IF joined = {} THEN MAX_AUTOCASHOUT_X100
             ELSE LargestOf({FLOOR_X100} \cup covered(available))
<1> DEFINE starts == {FLOOR_X100} \cup thresholds
           B == {FLOOR_X100} \cup {segmentBest(start, available) : start \in starts}
           C == {FLOOR_X100} \cup covered(available)
           m == LargestOf(B)
<1>1. /\ FLOOR_X100 \in Nat /\ FLOOR_X100 > 0 /\ MAX_AUTOCASHOUT_X100 \in Nat
      /\ FLOOR_X100 <= MAX_AUTOCASHOUT_X100
  BY ThresholdsInRange
<1>2. \A start \in starts : segmentBest(start, available) = 0
                            \/ segmentBest(start, available) \in covered(available)
  BY SegmentBestCovered DEF covered
<1>3. C \subseteq Nat /\ \A c \in C : c <= MAX_AUTOCASHOUT_X100
  BY <1>1 DEF covered
<1>4. B \subseteq C \cup {0}
  BY <1>2
<1>5. m \in B /\ \A y \in B : y <= m
  <2>1. B \subseteq Nat /\ B # {} /\ \A y \in B : y <= MAX_AUTOCASHOUT_X100
    BY <1>1, <1>3, <1>4
  <2> HIDE DEF B
  <2> QED BY <1>1, <2>1, LargestExists
<1>6. FLOOR_X100 <= m /\ m \in C
  <2>1. FLOOR_X100 \in B
    OBVIOUS
  <2> HIDE DEF B, C, m
  <2> QED BY <1>1, <1>3, <1>4, <1>5, <2>1
<1>7. \A c \in C : c <= m
  <2> SUFFICES ASSUME NEW c \in C PROVE c <= m
    OBVIOUS
  <2>1. CASE c = FLOOR_X100
    BY <1>6, <2>1
  <2>2. CASE c \in covered(available)
    <3>1. PICK start \in starts : c <= segmentBest(start, available)
      BY <2>2, CoveredBySegment
    <3>2. segmentBest(start, available) \in B
      BY <3>1
    <3>3. c \in Nat /\ segmentBest(start, available) \in Nat /\ m \in Nat
      BY <1>1, <1>2, <1>3, <1>6
    <3> HIDE DEF m, B
    <3> QED BY <1>5, <3>1, <3>2, <3>3
  <2> QED BY <2>1, <2>2
<1>8. LargestOf(C) = m
  <2> HIDE DEF C, m
  <2> QED BY <1>3, <1>6, <1>7, LargestIs
<1> QED BY <1>8 DEF maxSustainableCrashX100

LEMMA LockAvailableNat ==
    ASSUME CrashInv
    PROVE  /\ freeCapacity \in Nat /\ lockAvailable \in Nat
           /\ freeCapacity = usdc - totalPendingPayouts
           /\ lockAvailable <= freeCapacity
<1>1. /\ freeCapacity \in Nat /\ rtpBps \in Nat /\ rtpBps <= 10000
      /\ freeCapacity = usdc - totalPendingPayouts
  BY DEF freeCapacity, CrashInv, CrashTypeOK, CrashSolvent
<1>2. freeCapacity * rtpBps \in Nat /\ freeCapacity * rtpBps <= freeCapacity * 10000
  <2>1. freeCapacity * rtpBps \in Nat
    BY <1>1, ProductNat
  <2>2. rtpBps * freeCapacity <= 10000 * freeCapacity
    BY <1>1, ProductMonotone
  <2> QED BY <1>1, <2>1, <2>2
<1>3. lockAvailable = (freeCapacity * rtpBps) \div 10000
  BY DEF lockAvailable, BPS_DENOM
<1> DEFINE share == freeCapacity * rtpBps
<1>4. share \in Nat /\ share <= freeCapacity * 10000 /\ lockAvailable = share \div 10000
  BY <1>2, <1>3
<1> HIDE DEF share
<1>5. lockAvailable \in Nat /\ lockAvailable * 10000 <= share
  BY <1>4, QuotientNat
<1> QED BY <1>1, <1>4, <1>5

(* Only lockRound takes a round from Pending to Running.                   *)
LEMMA OnlyLockRuns ==
    ASSUME CrashInv, CrashNext, round.status = "Pending", round'.status = "Running"
    PROVE  lockRound
<1>1. round \in RoundType
  BY CrashTypesNamed DEF CrashInv
<1>2. ASSUME NEW p \in Players, NEW a \in StakeChoices, NEW x \in AutoChoices, joinRound(p, a, x)
      PROVE  FALSE
  <2> DEFINE most == round.maxPotentialPayout
                       + (a * (IF x = 0 THEN MAX_AUTOCASHOUT_X100 ELSE x)) \div 100
             staked == round.totalStaked + a
  <2>1. round' = [round EXCEPT !.maxPotentialPayout = most, !.totalStaked = staked]
    BY <1>2 DEF joinRound
  <2> HIDE DEF most, staked
  <2>2. round'.status = "Pending"
    BY <1>1, <2>1 DEF RoundType
  <2> QED BY <2>2
<1>3. ~(\E s \in Seeds : startRound(s))
  BY DEF startRound, isUnresolved
<1>4. ~resolveRound /\ ~cancelStuckRound
  BY DEF resolveRound, cancelStuckRound
<1>5. ~cancelPendingRound
  <2>1. cancelPendingRound => round'.status = "Resolved"
    BY <1>1 DEF cancelPendingRound, refundAll, RoundType
  <2> QED BY <2>1
<1>6. ~(\/ \E p \in Players, x \in CashOutChoices : cashOut(p, x)
        \/ \E p \in Players : claim(p)
        \/ \E a \in BankrollChoices : depositBankroll(a)
        \/ \E a \in BankrollChoices : withdrawBankroll(a)
        \/ \E r \in RtpChoices : setRtp(r)
        \/ \E v \in PauseChoices : setPaused(v)
        \/ Advance)
  BY DEF cashOut, claim, depositBankroll, withdrawBankroll, setRtp, setPaused, Advance
<1> QED BY <1>2, <1>3, <1>4, <1>5, <1>6 DEF CrashNext

(* The segment walk of _maxSustainableCrashX100 finds the largest          *)
(* multiplier the available capacity covers, whatever the entries, their   *)
(* thresholds and the balance.                                             *)
THEOREM CapIsTheLargest == CrashSpec => CapIsLargest
<1> DEFINE Largest ==
             round.status = "Pending" /\ round'.status = "Running" =>
               LET reached == {x \in FLOOR_X100..MAX_AUTOCASHOUT_X100 :
                                 worstCaseX100(x) <= 100 * lockAvailable}
               IN  round'.maxSustainableCrashX100 =
                     IF joined = {} THEN MAX_AUTOCASHOUT_X100
                     ELSE LargestOf({FLOOR_X100} \cup reached)
<1>1. CrashInv /\ [CrashNext]_crashVars => [Largest]_crashVars
  <2> SUFFICES ASSUME CrashInv, CrashNext, round.status = "Pending", round'.status = "Running"
               PROVE  round'.maxSustainableCrashX100 =
                        IF joined = {} THEN MAX_AUTOCASHOUT_X100
                        ELSE LargestOf({FLOOR_X100} \cup covered(lockAvailable))
    BY DEF covered
  <2>1. round' = [round EXCEPT !.status = "Running", !.startedAt = clock,
                    !.maxSustainableCrashX100 = maxSustainableCrashX100(lockAvailable)]
    BY OnlyLockRuns DEF lockRound
  <2>2. round \in RoundType
    BY CrashTypesNamed DEF CrashInv
  <2>3. round'.maxSustainableCrashX100 = maxSustainableCrashX100(lockAvailable)
    BY <2>1, <2>2 DEF RoundType
  <2>4. CrashTypeOK /\ MultipliersInRange /\ lockAvailable \in Nat
    BY LockAvailableNat DEF CrashInv
  <2> QED BY <2>3, <2>4, CapFound
<1> QED BY <1>1, CrashInvariant, PTL DEF CrashSpec, CapIsLargest

-----------------------------------------------------------------------------
(* The cap holds until the round is resolved *)

quoteUpTo(e, x) ==
    IF e.autoCashoutX100 = 0 THEN (e.amount * x) \div 100
    ELSE IF e.autoCashoutX100 <= x THEN (e.amount * e.autoCashoutX100) \div 100
    ELSE 0
mostOf(e) ==
    (e.amount * (IF e.autoCashoutX100 = 0 THEN MAX_AUTOCASHOUT_X100
                                          ELSE e.autoCashoutX100)) \div 100

(* What the round pays at most when it crashes at x and players with an    *)
(* auto-cashout left it to run.                                            *)
quotesUpTo(x) == TotalOf([p \in Players |-> quoteUpTo(entries[p], x)])

CapKept ==
    /\ round.maxPotentialPayout = TotalOf([p \in Players |-> mostOf(entries[p])])
    /\ round.maxSustainableCrashX100 <= MAX_AUTOCASHOUT_X100
    /\ isUnresolved => \A p \in Players : ~entries[p].resolved
    /\ round.status = "Running" /\ round.maxSustainableCrashX100 > FLOOR_X100 =>
           quotesUpTo(round.maxSustainableCrashX100) <= usdc - totalPendingPayouts

CapInv == CrashInv /\ CapKept

LEMMA QuotesNat ==
    ASSUME NEW e \in EntryType, NEW x \in Nat, x <= MAX_AUTOCASHOUT_X100, MAX_AUTOCASHOUT_X100 \in Nat
    PROVE  quoteUpTo(e, x) \in Nat /\ mostOf(e) \in Nat /\ quoteUpTo(e, x) <= mostOf(e)
<1> DEFINE a == e.amount
           u == e.autoCashoutX100
           M == MAX_AUTOCASHOUT_X100
<1>1. a \in Nat /\ u \in Nat /\ M \in Nat
  BY DEF EntryType
<1>2. quoteUpTo(e, x) = IF u = 0 THEN (a * x) \div 100 ELSE IF u <= x THEN (a * u) \div 100 ELSE 0
  BY DEF quoteUpTo
<1>3. mostOf(e) = IF u = 0 THEN (a * M) \div 100 ELSE (a * u) \div 100
  BY DEF mostOf
<1> HIDE DEF a, u, M
<1>4. a * x \in Nat /\ a * u \in Nat /\ a * M \in Nat
  BY <1>1, ProductNat
<1>5. a * x <= a * M
  <2>1. x * a <= M * a
    BY <1>1, ProductMonotone DEF M
  <2> QED BY <1>1, <2>1
<1> DEFINE ax == a * x
           au == a * u
           aM == a * M
<1>6. ax \in Nat /\ au \in Nat /\ aM \in Nat /\ ax <= aM
  BY <1>4, <1>5
<1>7. /\ quoteUpTo(e, x) = IF u = 0 THEN ax \div 100 ELSE IF u <= x THEN au \div 100 ELSE 0
      /\ mostOf(e) = IF u = 0 THEN aM \div 100 ELSE au \div 100
  BY <1>2, <1>3
<1> HIDE DEF ax, au, aM
<1> QED BY <1>6, <1>7

LEMMA EmptyQuotes ==
    ASSUME NEW x \in Nat, NEW e \in EntryType, e.amount = 0
    PROVE  quoteUpTo(e, x) = 0 /\ (MAX_AUTOCASHOUT_X100 \in Nat => mostOf(e) = 0)
<1>1. e.autoCashoutX100 \in Nat
  BY DEF EntryType
<1>2. \A y \in Nat : (e.amount * y) \div 100 = 0
  OBVIOUS
<1> QED BY <1>1, <1>2 DEF quoteUpTo, mostOf

(* Quotes depend on the stake and the threshold only.                      *)
LEMMA QuotesStay ==
    ASSUME \A p \in Players : /\ entries'[p].amount = entries[p].amount
                              /\ entries'[p].autoCashoutX100 = entries[p].autoCashoutX100
    PROVE  /\ \A x : quotesUpTo(x)' = quotesUpTo(x)
           /\ TotalOf([p \in Players |-> mostOf(entries[p])])' =
                 TotalOf([p \in Players |-> mostOf(entries[p])])
BY DEF quotesUpTo, quoteUpTo, mostOf, TotalOf

(* What the capacity covers at the worst covers the quotes.                *)
LEMMA WorstCoversQuotes ==
    ASSUME CrashInv, NEW x \in Nat, x <= MAX_AUTOCASHOUT_X100, MAX_AUTOCASHOUT_X100 \in Nat,
           NEW available \in Nat, worstCaseX100(x) <= 100 * available
    PROVE  quotesUpTo(x) <= available
<1> DEFINE byHand == [p \in Players |-> IF entries[p].autoCashoutX100 = 0
                                        THEN (entries[p].amount * x) \div 100 ELSE 0]
           all == [p \in Players |-> quoteUpTo(entries[p], x)]
<1>1. /\ \A p \in Players : fixedOf(x)[p] \in Nat /\ manualOf[p] \in Nat
      /\ fixedLiability(x) = SumTo(fixedOf(x), NumPlayers) /\ fixedLiability(x) \in Nat
      /\ manualStakeSum = SumTo(manualOf, NumPlayers) /\ manualStakeSum \in Nat
  BY LiabilitiesNamed DEF CrashInv
<1>2. \A p \in Players : /\ byHand[p] \in Nat /\ byHand[p] * 100 <= manualOf[p] * x
                         /\ all[p] = fixedOf(x)[p] + byHand[p]
  <2> TAKE p \in Players
  <2>1. entries[p] \in EntryType /\ entries[p].amount \in Nat /\ entries[p].autoCashoutX100 \in Nat
    BY CrashTypesNamed DEF CrashInv, EntryType
  <2> DEFINE ax == entries[p].amount * x
  <2>2. ax \in Nat
    BY <2>1, ProductNat
  <2> HIDE DEF ax
  <2>3. ax \div 100 \in Nat /\ (ax \div 100) * 100 <= ax
    BY <2>2
  <2>4. CASE entries[p].autoCashoutX100 = 0
    <3>1. byHand[p] = ax \div 100 /\ manualOf[p] * x = ax /\ fixedOf(x)[p] = 0
      BY <2>4 DEF manualOf, fixedOf, ax
    <3>2. all[p] = ax \div 100
      BY <2>4 DEF quoteUpTo, ax
    <3> HIDE DEF byHand, all
    <3> QED BY <2>3, <3>1, <3>2
  <2>5. CASE entries[p].autoCashoutX100 # 0
    <3>1. byHand[p] = 0 /\ manualOf[p] = 0 /\ all[p] = fixedOf(x)[p]
      BY <2>5 DEF manualOf, fixedOf, quoteUpTo
    <3>2. fixedOf(x)[p] \in Nat
      BY <1>1
    <3> HIDE DEF byHand, all
    <3> QED BY <3>1, <3>2
  <2> QED BY <2>4, <2>5
<1> HIDE DEF byHand, all
<1>3. SumTo(all, NumPlayers) = SumTo(fixedOf(x), NumPlayers) + SumTo(byHand, NumPlayers)
  <2>1. \A p \in 1..NumPlayers : /\ fixedOf(x)[p] \in Int /\ byHand[p] \in Int
                                 /\ all[p] = fixedOf(x)[p] + byHand[p]
    BY <1>1, <1>2, PlayersCounted
  <2> QED BY <2>1, SumOfSums, PlayersCounted
<1>4. SumTo(byHand, NumPlayers) * 100 <= manualStakeSum * x
  <2>1. \A p \in 1..NumPlayers : /\ byHand[p] \in Nat /\ manualOf[p] \in Nat
                                 /\ byHand[p] * 100 <= manualOf[p] * x
    BY <1>1, <1>2, PlayersCounted
  <2> QED BY <1>1, <2>1, SumShares, PlayersCounted
<1>5. SumTo(byHand, NumPlayers) \in Nat
  BY <1>2, SumNat, PlayersCounted
<1> DEFINE due == manualStakeSum * x
           hand == SumTo(byHand, NumPlayers)
           F == fixedLiability(x)
<1>6. due \in Nat /\ hand \in Nat /\ F \in Nat /\ hand * 100 <= due
      /\ 100 * F + due <= 100 * available
  BY <1>1, <1>4, <1>5, ProductNat DEF worstCaseX100
<1>7. quotesUpTo(x) = F + hand
  BY <1>1, <1>3 DEF quotesUpTo, TotalOf, all
<1> HIDE DEF due, hand, F
<1> QED BY <1>6, <1>7

(* A round promises at least what any multiplier up to the largest pays.   *)
LEMMA PromiseCoversQuotes ==
    ASSUME CrashInv, NEW x \in Nat, x <= MAX_AUTOCASHOUT_X100, MAX_AUTOCASHOUT_X100 \in Nat
    PROVE  /\ quotesUpTo(x) \in Nat
           /\ TotalOf([p \in Players |-> mostOf(entries[p])]) \in Nat
           /\ quotesUpTo(x) <= TotalOf([p \in Players |-> mostOf(entries[p])])
<1> DEFINE q == [p \in Players |-> quoteUpTo(entries[p], x)]
           m == [p \in Players |-> mostOf(entries[p])]
<1>1. \A p \in Players : entries[p] \in EntryType
  BY CrashTypesNamed DEF CrashInv
<1>2. \A p \in 1..NumPlayers : /\ q[p] \in Nat /\ m[p] \in Nat /\ q[p] \in Int /\ m[p] \in Int
                               /\ q[p] <= m[p]
  BY <1>1, QuotesNat, PlayersCounted
<1> HIDE DEF q, m
<1>3. /\ SumTo(q, NumPlayers) \in Nat /\ SumTo(m, NumPlayers) \in Nat
      /\ SumTo(q, NumPlayers) <= SumTo(m, NumPlayers)
  BY <1>2, SumNat, SumMonotone, PlayersCounted
<1> QED BY <1>3 DEF quotesUpTo, TotalOf, q, m

LEMMA MaxIsNat ==
    MAX_AUTOCASHOUT_X100 \in Nat /\ FLOOR_X100 \in Nat /\ 0 < FLOOR_X100 /\ FLOOR_X100 <= MAX_AUTOCASHOUT_X100
BY CrashAssumption DEF FLOOR_X100

LEMMA StartKeepsCap ==
    ASSUME CapInv, NEW s \in Seeds, startRound(s)
    PROVE  CapKept'
<1>1. /\ round' = [NoRound EXCEPT !.status = "Pending", !.seed = s]
      /\ entries' = [p \in Players |-> NoEntry]
  BY DEF startRound
<1>2. round'.status = "Pending" /\ round'.maxPotentialPayout = 0 /\ round'.maxSustainableCrashX100 = 0
  BY <1>1 DEF NoRound
<1>3. NoEntry \in EntryType /\ NoEntry.amount = 0 /\ ~NoEntry.resolved /\ mostOf(NoEntry) = 0
  BY EmptyRecords, EmptyQuotes, MaxIsNat DEF NoEntry
<1> DEFINE m == [p \in Players |-> mostOf(NoEntry)]
<1>4. SumTo(m, NumPlayers) = 0
  <2>1. \A p \in 1..NumPlayers : m[p] = 0
    BY <1>3, PlayersCounted
  <2> HIDE DEF m
  <2> QED BY <2>1, SumZeros, PlayersCounted
<1>5. TotalOf([p \in Players |-> mostOf(entries'[p])]) = 0
  <2>1. [p \in Players |-> mostOf(entries'[p])] = m
    BY <1>1
  <2> HIDE DEF m
  <2> QED BY <1>4, <2>1 DEF TotalOf
<1>6. \A p \in Players : ~entries'[p].resolved
  BY <1>1, <1>3
<1> QED BY <1>2, <1>5, <1>6, MaxIsNat DEF CapKept, mostOf, TotalOf

LEMMA JoinKeepsCap ==
    ASSUME CapInv, NEW p \in Players, NEW amount \in StakeChoices, NEW auto \in AutoChoices,
           joinRound(p, amount, auto)
    PROVE  CapKept'
<1> DEFINE cap == IF auto = 0 THEN MAX_AUTOCASHOUT_X100 ELSE auto
           most == (amount * cap) \div 100
           entry == [NoEntry EXCEPT !.amount = amount, !.autoCashoutX100 = auto]
           f == [q \in Players |-> mostOf(entries[q])]
           g == [q \in Players |-> mostOf(entries'[q])]
<1>1. /\ round.status = "Pending" /\ p \notin joined
      /\ round' = [round EXCEPT !.maxPotentialPayout = @ + most, !.totalStaked = @ + amount]
      /\ entries' = [entries EXCEPT ![p] = entry]
  BY DEF joinRound
<1>2. /\ amount \in Nat /\ auto \in Nat /\ MAX_AUTOCASHOUT_X100 \in Nat
      /\ round \in RoundType /\ entries \in [Players -> EntryType]
  BY CrashAssumption, CrashTypesNamed DEF CapInv, CrashInv
<1>3. /\ entry \in EntryType /\ entry.amount = amount /\ entry.autoCashoutX100 = auto
      /\ ~entry.resolved
  BY <1>2 DEF NoEntry, EntryType
<1>4. mostOf(entry) = most
  BY <1>3 DEF mostOf
<1>5. most \in Nat
  <2>1. cap \in Nat
    BY <1>2
  <2> HIDE DEF cap
  <2> QED BY <1>2, <2>1, ProductNat, QuotientNat
<1> HIDE DEF most, entry
<1>6. /\ round'.status = "Pending"
      /\ round'.maxPotentialPayout = round.maxPotentialPayout + most
      /\ round'.maxSustainableCrashX100 = round.maxSustainableCrashX100
  <2> DEFINE total == round.maxPotentialPayout + most
             staked == round.totalStaked + amount
  <2>1. round' = [round EXCEPT !.maxPotentialPayout = total, !.totalStaked = staked]
    BY <1>1
  <2> HIDE DEF total, staked
  <2>2. /\ round'.status = "Pending" /\ round'.maxPotentialPayout = total
        /\ round'.maxSustainableCrashX100 = round.maxSustainableCrashX100
    BY <1>1, <1>2, <2>1 DEF RoundType
  <2> QED BY <2>2 DEF total
<1>7. \A q \in Players : entries'[q] = IF q = p THEN entry ELSE entries[q]
  BY <1>1, <1>2
<1>8. f[p] = 0 /\ g[p] = most
  <2>1. entries[p].amount = 0 /\ entries[p] \in EntryType
    BY <1>1, <1>2 DEF joined, EntryType
  <2> QED BY <1>2, <1>4, <1>7, <2>1, EmptyQuotes
<1>9. \A q \in 1..NumPlayers : /\ f[q] \in Int /\ g[q] \in Int
                               /\ q # p => f[q] = g[q]
  <2> TAKE q \in 1..NumPlayers
  <2>1. q \in Players /\ entries[q] \in EntryType /\ entries'[q] \in EntryType
    BY <1>2, <1>3, <1>7, PlayersCounted
  <2>2. mostOf(entries[q]) \in Nat /\ mostOf(entries'[q]) \in Nat
    BY <1>2, <2>1, QuotesNat
  <2> QED BY <1>7, <2>1, <2>2
<1> HIDE DEF f, g
<1>10. SumTo(g, NumPlayers) = SumTo(f, NumPlayers) + (g[p] - f[p])
  BY <1>9, SumUpdate, PlayersCounted
<1>11. round.maxPotentialPayout = SumTo(f, NumPlayers) /\ SumTo(f, NumPlayers) \in Nat
  BY <1>2 DEF CapInv, CapKept, TotalOf, f, RoundType
<1>12. round'.maxPotentialPayout = SumTo(g, NumPlayers)
  BY <1>5, <1>6, <1>8, <1>10, <1>11
<1>13. \A q \in Players : ~entries'[q].resolved
  BY <1>1, <1>3, <1>7 DEF CapInv, CapKept, isUnresolved
<1>14. round'.maxSustainableCrashX100 <= MAX_AUTOCASHOUT_X100
  BY <1>6 DEF CapInv, CapKept
<1>15. round'.maxPotentialPayout = TotalOf([q \in Players |-> mostOf(entries'[q])])
  BY <1>12 DEF TotalOf, g
<1> QED BY <1>6, <1>13, <1>14, <1>15 DEF CapKept, mostOf, TotalOf

LEMMA LockSetsCap ==
    ASSUME CapInv, lockRound
    PROVE  CapKept'
<1> DEFINE cap == maxSustainableCrashX100(lockAvailable)
<1>1. /\ round' = [round EXCEPT !.status = "Running", !.startedAt = clock,
                                !.maxSustainableCrashX100 = cap]
      /\ round.status = "Pending"
      /\ UNCHANGED <<usdc, entries, totalPendingPayouts>>
  BY DEF lockRound
<1>2. /\ lockAvailable \in Nat /\ freeCapacity \in Nat /\ lockAvailable <= freeCapacity
      /\ freeCapacity = usdc - totalPendingPayouts
  BY LockAvailableNat DEF CapInv
<1>3. /\ cap = IF joined = {} THEN MAX_AUTOCASHOUT_X100
               ELSE LargestOf({FLOOR_X100} \cup covered(lockAvailable))
  BY <1>2, CapFound DEF CapInv, CrashInv
<1>4. /\ joined # {} => cap = FLOOR_X100 \/ cap \in covered(lockAvailable)
      /\ cap \in Nat /\ cap <= MAX_AUTOCASHOUT_X100
  <2> DEFINE C == {FLOOR_X100} \cup covered(lockAvailable)
  <2>1. /\ C \subseteq Nat /\ C # {} /\ \A c \in C : c <= MAX_AUTOCASHOUT_X100
    BY MaxIsNat DEF covered
  <2>2. LargestOf(C) \in C
    <3> HIDE DEF C
    <3> QED BY <2>1, MaxIsNat, LargestExists
  <2> QED BY <1>3, <2>1, <2>2, MaxIsNat
<1> HIDE DEF cap
<1>5. /\ round'.status = "Running" /\ round'.maxSustainableCrashX100 = cap
      /\ round'.maxPotentialPayout = round.maxPotentialPayout
  <2>1. round \in RoundType
    BY CrashTypesNamed DEF CapInv, CrashInv
  <2> QED BY <1>1, <2>1 DEF RoundType
<1>6. cap > FLOOR_X100 => quotesUpTo(cap) <= usdc - totalPendingPayouts
  <2> SUFFICES ASSUME cap > FLOOR_X100 PROVE quotesUpTo(cap) <= usdc - totalPendingPayouts
    OBVIOUS
  <2>1. CASE joined = {}
    <3> DEFINE q == [p \in Players |-> quoteUpTo(entries[p], cap)]
    <3>1. \A p \in 1..NumPlayers : q[p] = 0
      <4> TAKE p \in 1..NumPlayers
      <4>1. p \in Players /\ entries[p] \in EntryType
        BY CrashTypesNamed, PlayersCounted DEF CapInv, CrashInv
      <4>2. entries[p].amount = 0
        BY <2>1, <4>1 DEF joined, EntryType
      <4> QED BY <1>4, <4>1, <4>2, EmptyQuotes
    <3> HIDE DEF q
    <3>2. SumTo(q, NumPlayers) = 0
      BY <3>1, SumZeros, PlayersCounted
    <3>3. quotesUpTo(cap) = 0
      BY <3>2 DEF quotesUpTo, TotalOf, q
    <3> QED BY <1>2, <3>3
  <2>2. CASE joined # {}
    <3>1. worstCaseX100(cap) <= 100 * lockAvailable
      BY <1>4, <2>2, MaxIsNat DEF covered
    <3>2. quotesUpTo(cap) <= lockAvailable
      BY <1>2, <1>4, <3>1, WorstCoversQuotes, MaxIsNat DEF CapInv
    <3>3. quotesUpTo(cap) \in Nat
      BY <1>4, PromiseCoversQuotes, MaxIsNat DEF CapInv
    <3> QED BY <1>2, <3>2, <3>3
  <2> QED BY <2>1, <2>2
<1>8. TotalOf([p \in Players |-> quoteUpTo(entries'[p], round'.maxSustainableCrashX100)]) = quotesUpTo(cap)
  BY <1>1, <1>5 DEF quotesUpTo, TotalOf
<1>9. round'.maxPotentialPayout = TotalOf([p \in Players |-> mostOf(entries'[p])])
  BY <1>1, <1>5 DEF CapInv, CapKept
<1>10. \A p \in Players : ~entries'[p].resolved
  BY <1>1 DEF CapInv, CapKept, isUnresolved
<1>11. quotesUpTo(round.maxSustainableCrashX100)' = quotesUpTo(cap)
  BY <1>8 DEF quotesUpTo, quoteUpTo, TotalOf
<1>12. TotalOf([p \in Players |-> mostOf(entries[p])])' = round'.maxPotentialPayout
  BY <1>9 DEF TotalOf, mostOf
<1> QED BY <1>1, <1>4, <1>5, <1>6, <1>10, <1>11, <1>12 DEF CapKept

(* Every other step keeps the stakes and thresholds, and either ends the   *)
(* round or leaves it its cap and enough free capacity.                    *)
LEMMA OthersKeepCap ==
    ASSUME CapInv, CrashInv',
           \A p \in Players : /\ entries'[p].amount = entries[p].amount
                              /\ entries'[p].autoCashoutX100 = entries[p].autoCashoutX100,
           round'.maxPotentialPayout = round.maxPotentialPayout,
           round'.maxSustainableCrashX100 = round.maxSustainableCrashX100,
           \/ round'.status = "Resolved"
           \/ /\ round' = round
              /\ \A p \in Players : entries'[p].resolved = entries[p].resolved
              /\ \/ usdc' - totalPendingPayouts' >= usdc - totalPendingPayouts
                 \/ isUnresolved => round.maxPotentialPayout <= usdc' - totalPendingPayouts'
    PROVE  CapKept'
<1> DEFINE cap == round.maxSustainableCrashX100
<1>1. round'.maxPotentialPayout = TotalOf([p \in Players |-> mostOf(entries[p])])'
  BY QuotesStay DEF CapInv, CapKept
<1>2. quotesUpTo(round.maxSustainableCrashX100)' = quotesUpTo(cap)
  BY QuotesStay DEF quotesUpTo, quoteUpTo, TotalOf
<1>3. round'.maxSustainableCrashX100 <= MAX_AUTOCASHOUT_X100
  BY DEF CapInv, CapKept
<1>4. CASE round'.status = "Resolved"
  BY <1>1, <1>3, <1>4 DEF CapKept, isUnresolved
<1>5. CASE /\ round' = round
           /\ \A p \in Players : entries'[p].resolved = entries[p].resolved
           /\ \/ usdc' - totalPendingPayouts' >= usdc - totalPendingPayouts
              \/ isUnresolved => round.maxPotentialPayout <= usdc' - totalPendingPayouts'
  <2>1. isUnresolved' => \A p \in Players : ~entries'[p].resolved
    BY <1>5 DEF CapInv, CapKept, isUnresolved
  <2>2. ASSUME round.status = "Running", cap > FLOOR_X100
        PROVE  quotesUpTo(cap) <= usdc' - totalPendingPayouts'
    <3>1. isUnresolved /\ cap \in Nat /\ cap <= MAX_AUTOCASHOUT_X100
      BY <2>2 DEF isUnresolved, CapInv, CapKept, CrashInv, CrashTypeOK
    <3>2. /\ quotesUpTo(cap) \in Nat /\ round.maxPotentialPayout \in Nat
          /\ quotesUpTo(cap) <= round.maxPotentialPayout
      BY <3>1, PromiseCoversQuotes, MaxIsNat DEF CapInv, CapKept
    <3>3. quotesUpTo(cap) <= usdc - totalPendingPayouts
      BY <2>2 DEF CapInv, CapKept
    <3>4. usdc \in Nat /\ totalPendingPayouts \in Nat /\ usdc' \in Nat /\ totalPendingPayouts' \in Nat
      BY DEF CapInv, CrashInv, CrashTypeOK
    <3> QED BY <1>5, <3>1, <3>2, <3>3, <3>4
  <2> QED BY <1>1, <1>2, <1>3, <1>5, <2>1, <2>2 DEF CapKept
<1> QED BY <1>4, <1>5

(* Resolving and refunding leave the stakes, thresholds and cap alone.     *)
LEMMA EndKeepsStakes ==
    ASSUME CrashInv, resolveRound \/ refundAll
    PROVE  /\ \A p \in Players : /\ entries'[p].amount = entries[p].amount
                                 /\ entries'[p].autoCashoutX100 = entries[p].autoCashoutX100
           /\ round'.status = "Resolved"
           /\ round'.maxPotentialPayout = round.maxPotentialPayout
           /\ round'.maxSustainableCrashX100 = round.maxSustainableCrashX100
<1>1. round \in RoundType /\ \A p \in Players : entries[p] \in EntryType
  BY CrashTypesNamed DEF CrashInv
<1>2. ASSUME NEW p \in Players
      PROVE  /\ entries'[p].amount = entries[p].amount
             /\ entries'[p].autoCashoutX100 = entries[p].autoCashoutX100
  <2>1. CASE resolveRound
    <3> DEFINE byAuto(q) == /\ ~(/\ entries[q].cashedOutAtX100 # 0
                                 /\ entries[q].cashedOutAtX100 <= crashPoint)
                            /\ winMultiplier(q, crashPoint) > 0
               at == IF byAuto(p) THEN winMultiplier(p, crashPoint) ELSE entries[p].cashedOutAtX100
               done == [entries[p] EXCEPT !.resolved = TRUE]
    <3>1. entries' = [q \in Players |->
                       IF q \notin joined THEN entries[q]
                       ELSE [entries[q] EXCEPT
                               !.resolved = TRUE,
                               !.cashedOutAtX100 = IF byAuto(q) THEN winMultiplier(q, crashPoint)
                                                                ELSE @]]
      BY <2>1 DEF resolveRound
    <3> HIDE DEF byAuto
    <3>2. done \in EntryType /\ done.amount = entries[p].amount
          /\ done.autoCashoutX100 = entries[p].autoCashoutX100
      BY <1>1 DEF EntryType
    <3>3. entries'[p] = IF p \notin joined THEN entries[p]
                        ELSE [done EXCEPT !.cashedOutAtX100 = at]
      BY <1>1, <3>1 DEF EntryType
    <3> HIDE DEF at, done
    <3> QED BY <3>2, <3>3 DEF EntryType
  <2>2. CASE refundAll
    <3>1. entries'[p] = IF p \in joined THEN [entries[p] EXCEPT !.resolved = TRUE] ELSE entries[p]
      BY <2>2 DEF refundAll
    <3> QED BY <1>1, <3>1 DEF EntryType
  <2> QED BY <2>1, <2>2
<1>3. PICK crash \in Nat : round' = [round EXCEPT !.status = "Resolved", !.crashMultiplierX100 = crash]
  <2>1. CASE resolveRound
    <3>1. round' = [round EXCEPT !.status = "Resolved", !.crashMultiplierX100 = crashPoint]
      BY <2>1 DEF resolveRound
    <3>2. crashPoint \in Nat
      BY CrashPointNat DEF CrashInv
    <3> QED BY <3>1, <3>2
  <2>2. CASE refundAll
    BY <2>2 DEF refundAll
  <2> QED BY <2>1, <2>2
<1>4. /\ round'.status = "Resolved"
      /\ round'.maxPotentialPayout = round.maxPotentialPayout
      /\ round'.maxSustainableCrashX100 = round.maxSustainableCrashX100
  BY <1>1, <1>3 DEF RoundType
<1> QED BY <1>2, <1>4

LEMMA CapInitInv == CrashInit => CapInv
<1> SUFFICES ASSUME CrashInit PROVE CapInv
  OBVIOUS
<1>1. CrashInv
  BY CrashInitInv
<1>2. NoEntry \in EntryType /\ NoEntry.amount = 0
  BY DEF NoEntry, EntryType
<1> DEFINE m == [p \in Players |-> mostOf(entries[p])]
<1>3. \A p \in 1..NumPlayers : m[p] = 0
  BY <1>2, EmptyQuotes, MaxIsNat, PlayersCounted DEF CrashInit
<1>4. SumTo(m, NumPlayers) = 0
  <2> HIDE DEF m
  <2> QED BY <1>3, SumZeros, PlayersCounted
<1>5. round.maxPotentialPayout = 0 /\ round.maxSustainableCrashX100 = 0 /\ round.status = "None"
  BY DEF CrashInit, NoRound
<1>6. round.maxPotentialPayout = TotalOf([p \in Players |-> mostOf(entries[p])])
  BY <1>4, <1>5 DEF TotalOf
<1> QED BY <1>1, <1>5, <1>6, MaxIsNat DEF CapInv, CapKept, isUnresolved

(* The cap survives cash-outs, claims, withdrawals and the admin's calls.  *)
LEMMA RunningKeepsCap ==
    ASSUME CapInv, CrashInv',
           \/ \E p \in Players, x \in CashOutChoices : cashOut(p, x)
           \/ \E p \in Players : claim(p)
           \/ \E a \in BankrollChoices : depositBankroll(a)
           \/ \E a \in BankrollChoices : withdrawBankroll(a)
           \/ \E r \in RtpChoices : setRtp(r)
           \/ \E v \in PauseChoices : setPaused(v)
           \/ Advance
           \/ UNCHANGED crashVars
    PROVE  CapKept'
<1>1. /\ usdc \in Nat /\ totalPendingPayouts \in Nat /\ round.maxPotentialPayout \in Nat
      /\ entries \in [Players -> EntryType] /\ pendingPayout \in [Players -> Nat]
      /\ totalPendingPayouts <= usdc
  BY CrashTypesNamed DEF CapInv, CrashInv, CrashSolvent, RoundType
<1>2. ASSUME NEW p \in Players, NEW x \in CashOutChoices, cashOut(p, x)
      PROVE  CapKept'
  <2>1. /\ entries' = [entries EXCEPT ![p].cashedOutAtX100 = x]
        /\ UNCHANGED <<usdc, round, totalPendingPayouts>>
    BY <1>2 DEF cashOut
  <2>2. \A q \in Players : /\ entries'[q].amount = entries[q].amount
                           /\ entries'[q].autoCashoutX100 = entries[q].autoCashoutX100
                           /\ entries'[q].resolved = entries[q].resolved
    BY <1>1, <2>1 DEF EntryType
  <2> QED BY <1>1, <2>1, <2>2, OthersKeepCap
<1>3. ASSUME NEW p \in Players, claim(p)
      PROVE  CapKept'
  <2>1. /\ totalPendingPayouts' = totalPendingPayouts - pendingPayout[p]
        /\ usdc' = usdc - pendingPayout[p]
        /\ UNCHANGED <<round, entries>>
    BY <1>3 DEF claim
  <2>2. usdc' - totalPendingPayouts' >= usdc - totalPendingPayouts
    BY <1>1, <2>1
  <2> QED BY <2>1, <2>2, OthersKeepCap
<1>4. ASSUME NEW a \in BankrollChoices, depositBankroll(a)
      PROVE  CapKept'
  <2>1. usdc' = usdc + a /\ a \in Nat /\ UNCHANGED <<round, entries, totalPendingPayouts>>
    BY <1>4, CrashAssumption DEF depositBankroll
  <2>2. usdc' - totalPendingPayouts' >= usdc - totalPendingPayouts
    BY <1>1, <2>1
  <2> QED BY <2>1, <2>2, OthersKeepCap
<1>5. ASSUME NEW a \in BankrollChoices, withdrawBankroll(a)
      PROVE  CapKept'
  <2>1. /\ a # 0 /\ a \in Nat /\ usdc' = usdc - a
        /\ a <= IF usdc > reservedBankroll THEN usdc - reservedBankroll ELSE 0
        /\ UNCHANGED <<round, entries, totalPendingPayouts>>
    BY <1>5, CrashAssumption DEF withdrawBankroll
  <2>2. isUnresolved => reservedBankroll = totalPendingPayouts + round.maxPotentialPayout
    BY DEF reservedBankroll
  <2>3. isUnresolved => round.maxPotentialPayout <= usdc' - totalPendingPayouts'
    BY <1>1, <2>1, <2>2
  <2> QED BY <2>1, <2>3, OthersKeepCap
<1>6. ASSUME UNCHANGED <<usdc, round, entries, totalPendingPayouts>>
      PROVE  CapKept'
  <2>1. usdc' - totalPendingPayouts' >= usdc - totalPendingPayouts
    BY <1>1, <1>6
  <2> QED BY <1>6, <2>1, OthersKeepCap
<1>7. ((\E r \in RtpChoices : setRtp(r)) \/ (\E v \in PauseChoices : setPaused(v)) \/ Advance)
        => UNCHANGED <<usdc, round, entries, totalPendingPayouts>>
  BY DEF setRtp, setPaused, Advance
<1>8. UNCHANGED crashVars => UNCHANGED <<usdc, round, entries, totalPendingPayouts>>
  BY DEF crashVars
<1> QED BY <1>2, <1>3, <1>4, <1>5, <1>6, <1>7, <1>8

LEMMA CapStepInv == CapInv /\ [CrashNext]_crashVars => CapInv'
<1> SUFFICES ASSUME CapInv, [CrashNext]_crashVars PROVE CapInv'
  OBVIOUS
<1>1. CrashInv'
  BY CrashStepInv DEF CapInv
<1>2. CASE \E s \in Seeds : startRound(s)
  BY <1>1, <1>2, StartKeepsCap DEF CapInv
<1>3. CASE \E p \in Players, a \in StakeChoices, x \in AutoChoices : joinRound(p, a, x)
  BY <1>1, <1>3, JoinKeepsCap DEF CapInv
<1>4. CASE lockRound
  BY <1>1, <1>4, LockSetsCap DEF CapInv
<1>5. CASE resolveRound \/ cancelStuckRound \/ cancelPendingRound
  <2>1. resolveRound \/ refundAll
    BY <1>5 DEF cancelStuckRound, cancelPendingRound
  <2>2. CrashInv
    BY DEF CapInv
  <2>3. CapKept'
    BY <1>1, <2>1, <2>2, EndKeepsStakes, OthersKeepCap
  <2> QED BY <1>1, <2>3 DEF CapInv
<1>6. CASE \/ \E p \in Players, x \in CashOutChoices : cashOut(p, x)
           \/ \E p \in Players : claim(p)
           \/ \E a \in BankrollChoices : depositBankroll(a)
           \/ \E a \in BankrollChoices : withdrawBankroll(a)
           \/ \E r \in RtpChoices : setRtp(r)
           \/ \E v \in PauseChoices : setPaused(v)
           \/ Advance
           \/ UNCHANGED crashVars
  BY <1>1, <1>6, RunningKeepsCap DEF CapInv
<1> QED BY <1>2, <1>3, <1>4, <1>5, <1>6 DEF CrashNext

(* A running round's cap keeps covering what its winners can be owed:      *)
(* claims move credit and balance together, and the admin cannot withdraw  *)
(* what the open round promised.                                           *)
THEOREM CapInvariant == CrashSpec => []CapInv
<1>1. CrashInit => CapInv
  BY CapInitInv
<1>2. CapInv /\ [CrashNext]_crashVars => CapInv'
  BY CapStepInv
<1> QED BY <1>1, <1>2, PTL DEF CrashSpec

(* Only resolveRound gives a round a crash point.                          *)
LEMMA OnlyResolveCrashes ==
    ASSUME CrashInv, CrashNext, resolves
    PROVE  resolveRound
<1>1. /\ round.status = "Running" /\ round'.status = "Resolved" /\ round'.crashMultiplierX100 # 0
      /\ round \in RoundType
  BY CrashTypesNamed DEF CrashInv, resolves
<1>2. ~(\E s \in Seeds : startRound(s)) /\ ~lockRound
  BY <1>1 DEF startRound, isUnresolved, lockRound
<1>3. ~(\E p \in Players, a \in StakeChoices, x \in AutoChoices : joinRound(p, a, x))
  BY <1>1 DEF joinRound
<1>4. ~cancelStuckRound /\ ~cancelPendingRound
  <2>1. refundAll => round'.crashMultiplierX100 = 0
    BY <1>1 DEF refundAll, RoundType
  <2> QED BY <1>1, <2>1 DEF cancelStuckRound, cancelPendingRound
<1>5. ~(\/ \E p \in Players, x \in CashOutChoices : cashOut(p, x)
        \/ \E p \in Players : claim(p)
        \/ \E a \in BankrollChoices : depositBankroll(a)
        \/ \E a \in BankrollChoices : withdrawBankroll(a)
        \/ \E r \in RtpChoices : setRtp(r)
        \/ \E v \in PauseChoices : setPaused(v)
        \/ Advance)
  BY <1>1 DEF cashOut, claim, depositBankroll, withdrawBankroll, setRtp, setPaused, Advance
<1> QED BY <1>2, <1>3, <1>4, <1>5 DEF CrashNext

(* Nobody who left the auto-cashout alone wins more than quoteUpTo says.   *)
LEMMA QuoteBounded ==
    ASSUME NEW p \in Players, entries[p] \in EntryType, NEW crash \in Nat, NEW x \in Nat, crash <= x,
           entries[p].autoCashoutX100 # 0 => entries[p].cashedOutAtX100 = 0
    PROVE  quotedPayout(p, crash) <= quoteUpTo(entries[p], x)
<1> DEFINE a == entries[p].amount
           u == entries[p].autoCashoutX100
           c == entries[p].cashedOutAtX100
           w == winMultiplier(p, crash)
<1>1. a \in Nat /\ u \in Nat /\ c \in Nat
  BY DEF EntryType
<1>2. /\ w = IF c # 0 /\ c <= crash THEN c ELSE IF u # 0 /\ u <= crash THEN u ELSE 0
      /\ u # 0 => c = 0
      /\ quotedPayout(p, crash) = (a * w) \div 100
      /\ quoteUpTo(entries[p], x) = IF u = 0 THEN (a * x) \div 100
                                    ELSE IF u <= x THEN (a * u) \div 100 ELSE 0
  BY DEF winMultiplier, quotedPayout, quoteUpTo
<1> HIDE DEF a, u, c, w
<1>3. w \in Nat /\ w <= x
  BY <1>1, <1>2
<1>4. CASE u = 0
  <2>1. w * a <= x * a
    BY <1>1, <1>3, ProductMonotone
  <2>2. a * w <= a * x /\ a * w \in Nat /\ a * x \in Nat
    BY <1>1, <1>3, <2>1, ProductNat
  <2> DEFINE aw == a * w
             ax == a * x
  <2>3. aw <= ax /\ aw \in Nat /\ ax \in Nat
    BY <2>2
  <2>4. quotedPayout(p, crash) = aw \div 100 /\ quoteUpTo(entries[p], x) = ax \div 100
    BY <1>2, <1>4
  <2> HIDE DEF aw, ax
  <2> QED BY <2>3, <2>4
<1>5. CASE u # 0 /\ w = 0
  <2>1. quotedPayout(p, crash) = 0
    BY <1>1, <1>2, <1>5
  <2>2. a * u \in Nat
    BY <1>1, ProductNat
  <2>3. (a * u) \div 100 \in Nat
    BY <2>2, QuotientNat
  <2> QED BY <1>2, <1>5, <2>1, <2>3
<1>6. CASE u # 0 /\ w # 0
  <2>1. w = u /\ u <= x
    BY <1>1, <1>2, <1>6
  <2>2. (a * u) \div 100 \in Nat
    BY <1>1, ProductNat, QuotientNat
  <2> QED BY <1>2, <1>6, <2>1, <2>2
<1> QED BY <1>4, <1>5, <1>6

(* A round whose cap is above the floor is resolved with every win in full *)
(* when players with an auto-cashout left it to run: the cap is never      *)
(* stale, whatever was claimed, withdrawn or reconfigured since the lock.  *)
LEMMA ResolvedInFull ==
    ASSUME CapInv, resolveRound, resolves, round.maxSustainableCrashX100 > FLOOR_X100,
           \A p \in joined : entries[p].autoCashoutX100 # 0 => entries[p].cashedOutAtX100 = 0
    PROVE  wonInFull
<1> DEFINE crash == crashPoint
           cap == round.maxSustainableCrashX100
           credit == [p \in Players |-> IF entries[p].resolved THEN 0
                                        ELSE scaledPayout(p, crash, freeCapacity)]
           quoted == [p \in Players |-> quotedPayout(p, crash)]
           upTo == [p \in Players |-> quoteUpTo(entries[p], cap)]
<1>1. /\ round' = [round EXCEPT !.status = "Resolved", !.crashMultiplierX100 = crash]
      /\ pendingPayout' = [p \in Players |-> pendingPayout[p] + credit[p]]
      /\ round.status = "Running"
  BY DEF resolveRound
<1>2. /\ round \in RoundType /\ entries \in [Players -> EntryType] /\ cap \in Nat
      /\ cap <= MAX_AUTOCASHOUT_X100 /\ cap # 0 /\ pendingPayout \in [Players -> Nat]
  BY CrashTypesNamed, MaxIsNat DEF CapInv, CrashInv, CapKept, RoundType
<1>3. round'.crashMultiplierX100 = crash
  BY <1>1, <1>2 DEF RoundType
<1>4. crash \in Nat
  BY CrashPointNat DEF CapInv, CrashInv
<1>5. crash <= cap
  <2>1. crashFromSeed(round.seed, joined = {}) \in Nat
    BY <1>2, CrashFromSeedNat DEF CapInv, CrashInv, RoundType
  <2> QED BY <1>2, <2>1 DEF crashPoint, Lesser
<1>6. freeCapacity \in Nat /\ freeCapacity = usdc - totalPendingPayouts
  BY DEF freeCapacity, CapInv, CrashInv, CrashTypeOK, CrashSolvent, RoundType
<1>7. quotesUpTo(cap) <= freeCapacity
  BY <1>1, <1>6 DEF CapInv, CapKept
<1> HIDE DEF crash, cap
<1>8. \A p \in Players : quoted[p] \in Nat /\ upTo[p] \in Nat /\ quoted[p] <= upTo[p]
  <2> TAKE p \in Players
  <2>0. quoted[p] = quotedPayout(p, crash) /\ upTo[p] = quoteUpTo(entries[p], cap)
    OBVIOUS
  <2> HIDE DEF quoted, upTo
  <2>1. entries[p] \in EntryType /\ entries[p].amount \in Nat
    BY <1>2 DEF EntryType
  <2>2. quoted[p] \in Nat
    <3>1. winMultiplier(p, crash) \in Nat
      BY <1>4, WinMultiplierNat DEF CapInv, CrashInv
    <3> QED BY <2>1, <3>1, <2>0, ProductNat, QuotientNat DEF quotedPayout
  <2>3. upTo[p] \in Nat
    BY <1>2, <2>0, <2>1, QuotesNat, MaxIsNat
  <2>4. CASE p \in joined
    <3>1. quotedPayout(p, crash) <= quoteUpTo(entries[p], cap)
      BY <1>2, <1>4, <1>5, <2>1, <2>4, QuoteBounded
    <3> QED BY <2>0, <2>2, <2>3, <3>1
  <2>5. CASE p \notin joined
    <3>1. entries[p].amount = 0
      BY <2>1, <2>5 DEF joined
    <3>2. winMultiplier(p, crash) \in Nat
      BY <1>4, WinMultiplierNat DEF CapInv, CrashInv
    <3>3. quoted[p] = 0
      BY <2>0, <3>1, <3>2 DEF quotedPayout
    <3> QED BY <2>2, <2>3, <3>3
  <2> QED BY <2>2, <2>3, <2>4, <2>5
<1>9. sumQuoted(crash) = SumTo(quoted, NumPlayers) /\ quotesUpTo(cap) = SumTo(upTo, NumPlayers)
  BY DEF sumQuoted, quotesUpTo, TotalOf
<1>10. /\ SumTo(quoted, NumPlayers) \in Nat /\ SumTo(upTo, NumPlayers) \in Nat
       /\ SumTo(quoted, NumPlayers) <= SumTo(upTo, NumPlayers)
  <2>1. \A p \in 1..NumPlayers : /\ quoted[p] \in Nat /\ upTo[p] \in Nat
                                 /\ quoted[p] \in Int /\ upTo[p] \in Int
                                 /\ quoted[p] <= upTo[p]
    BY <1>8, PlayersCounted
  <2> HIDE DEF quoted, upTo
  <2> QED BY <2>1, SumNat, SumMonotone, PlayersCounted
<1>11. freeCapacity >= sumQuoted(crash)
  BY <1>6, <1>7, <1>9, <1>10
<1>12. ASSUME NEW p \in joined
       PROVE  pendingPayout'[p] - pendingPayout[p] = quotedPayout(p, crash)
  <2>1. p \in Players /\ ~entries[p].resolved /\ pendingPayout[p] \in Nat
    BY <1>1, <1>2 DEF joined, CapInv, CapKept, isUnresolved
  <2>2. pendingPayout'[p] = pendingPayout[p] + scaledPayout(p, crash, freeCapacity)
    BY <1>1, <2>1
  <2>3. scaledPayout(p, crash, freeCapacity) =
          IF winMultiplier(p, crash) = 0 THEN 0 ELSE quotedPayout(p, crash)
    BY <1>11 DEF scaledPayout
  <2>4. winMultiplier(p, crash) = 0 => quotedPayout(p, crash) = 0
    <3>1. entries[p].amount \in Nat
      BY <1>2, <2>1 DEF EntryType
    <3> QED BY <3>1 DEF quotedPayout
  <2>5. scaledPayout(p, crash, freeCapacity) = quotedPayout(p, crash) /\ quotedPayout(p, crash) \in Nat
    BY <1>8, <2>1, <2>3, <2>4
  <2> QED BY <2>1, <2>2, <2>5
<1> QED BY <1>3, <1>12 DEF wonInFull

(* lockRound's cap covers every winner at resolution: see ResolvedInFull.  *)
THEOREM CapSustains == CrashSpec => CapSustainable
<1> DEFINE Sustained ==
             (/\ resolves
              /\ round.maxSustainableCrashX100 > FLOOR_X100
              /\ \A p \in joined : entries[p].autoCashoutX100 # 0 => entries[p].cashedOutAtX100 = 0)
             => wonInFull
<1>1. CapInv /\ [CrashNext]_crashVars => [Sustained]_crashVars
  BY OnlyResolveCrashes, ResolvedInFull DEF CapInv
<1> QED BY <1>1, CapInvariant, PTL DEF CrashSpec, CapSustainable
=============================================================================
