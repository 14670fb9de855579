------------------------- MODULE CasinoTablesProofs -------------------------
(***************************************************************************)
(* The house's tables, for every stake, capacity, RTP and draw of the      *)
(* instant games, and for every shoe and interleaving of requests of a     *)
(* blackjack hand.                                                         *)
(***************************************************************************)
EXTENDS CasinoTables, SumsProofs, FiniteSetTheorems

-----------------------------------------------------------------------------
(* The instant games *)

GamesInv == ShownIsPaid /\ GateExact /\ TableGamesWithinReserve

LEMMA RightRecord ==
    ASSUME NEW game, NEW amount, NEW capacity, NEW input, NEW natural, NEW shown,
           NEW remapped, NEW quoted, NEW payout,
           result' = resolution(game, amount, capacity, input, natural, shown, remapped,
                                quoted, payout)
    PROVE  /\ result'.game = game /\ result'.amount = amount /\ result'.capacity = capacity
           /\ result'.input = input /\ result'.natural = natural /\ result'.shown = shown
           /\ result'.remapped = remapped /\ result'.quoted = quoted /\ result'.payout = payout
BY DEF resolution

LEMMA Reserves ==
    /\ MaxMultiplierX100["dice"] = 9900 /\ MaxMultiplierX100["roulette"] = 3600
    /\ MaxMultiplierX100["baccarat"] = 900
BY DEF MaxMultiplierX100

(* A whole number of hundredths times a stake, and its quotient. *)
LEMMA HundredthsFit ==
    ASSUME NEW a \in Nat, NEW m \in Nat, NEW most \in Nat, m <= most
    PROVE  /\ (a * m) \div 100 \in Nat /\ (a * most) \div 100 \in Nat
           /\ (a * m) \div 100 <= (a * most) \div 100
<1>1. m * a <= most * a
  BY ProductMonotone
<1> DEFINE x == a * m
           y == a * most
<1>2. x \in Nat /\ y \in Nat /\ x <= y
  BY <1>1, ProductNat
<1> HIDE DEF x, y
<1>3. x \div 100 \in Nat /\ y \div 100 \in Nat /\ x \div 100 <= y \div 100
  BY <1>2
<1> QED BY <1>3 DEF x, y

-----------------------------------------------------------------------------
(* Dice *)

(* The rounded multiplier is at most 99, the reservation of the game.      *)
LEMMA DiceMultiplierBounded ==
    ASSUME NEW target \in Nat, NEW direction, NEW rtp \in Nat, NEW amount \in Nat,
           0 < target, target < 99, rtp <= 9900
    PROVE  /\ diceQuote(amount, target, direction, rtp) \in Nat
           /\ diceQuote(amount, target, direction, rtp) <= 99 * amount
<1> DEFINE S == MULTIPLIER_SCALE
           percent == IF direction = "over" THEN 99 - target ELSE target
           d == 100 * percent
           N == 2 * rtp * S + d
           m == N \div (2 * d)
<1>1. S \in Nat /\ S >= 1
  BY GamesAssumption
<1>2. percent \in 1..98
  OBVIOUS
<1>3. d \in Nat /\ d >= 100
  BY <1>2
<1>4. diceQuote(amount, target, direction, rtp) = (amount * m) \div S
  BY DEF diceQuote, diceMultiplier
<1>5. m \in Nat /\ m <= 99 * S
  <2> HIDE DEF S, percent, d
  <2> DEFINE k == rtp * S
  <2>1. k \in Nat /\ k <= 9900 * S
    <3>1. rtp \in Nat /\ 9900 \in Nat /\ rtp <= 9900
      OBVIOUS
    <3> QED BY <1>1, <3>1, ProductMonotone, ProductNat
  <2>2. N = 2 * k + d
    BY <1>1, <1>3
  <2> HIDE DEF k, N
  <2>3. N \in Nat /\ 2 * d \in Nat \ {0}
    BY <1>3, <2>1, <2>2
  <2>4. m \in Nat /\ m * (2 * d) <= N
    BY <2>3, QuotientNat, QuotientBound
  <2> HIDE DEF m
  <2> SUFFICES ASSUME m >= 99 * S + 1 PROVE FALSE
    BY <1>1, <2>4
  <2>5. (99 * S + 1) * (2 * d) <= m * (2 * d)
    BY <1>1, <2>3, <2>4, ProductMonotone
  <2> DEFINE sd == S * d
  <2>6. (99 * S + 1) * (2 * d) = 198 * sd + 2 * d
    BY <1>1, <1>3
  <2>7. sd \in Nat /\ 100 * S <= sd
    <3>1. 100 * S <= d * S
      BY <1>1, <1>3, ProductMonotone
    <3> QED BY <1>1, <1>3, <3>1, ProductNat
  <2> DEFINE md == m * (2 * d)
  <2>8. md <= N /\ 198 * sd + 2 * d <= md /\ md \in Nat
    BY <2>3, <2>4, <2>5, <2>6, ProductNat
  <2> HIDE DEF sd, md
  <2> QED BY <1>1, <1>3, <2>1, <2>2, <2>7, <2>8
<1> HIDE DEF m, S
<1>6. amount * m <= 99 * amount * S
  <2>1. m * amount <= (99 * S) * amount
    BY <1>1, <1>5, ProductMonotone
  <2> QED BY <1>1, <1>5, <2>1
<1> DEFINE am == amount * m
           q == am \div S
<1>7. am \in Nat
  BY <1>5, ProductNat
<1> HIDE DEF am
<1>8. q \in Nat /\ q * S <= am
  BY <1>1, <1>7, QuotientNat, QuotientBound
<1>9. q * S <= (99 * amount) * S
  BY <1>1, <1>6, <1>7, <1>8 DEF am
<1> HIDE DEF q
<1>10. q <= 99 * amount
  BY <1>1, <1>8, <1>9, ProductCancel
<1> QED BY <1>4, <1>8, <1>10 DEF q, am

(* The remap sends every natural roll to the losing side.                  *)
LEMMA DiceRemapLoses ==
    ASSUME NEW target \in 1..98, NEW direction \in Directions, NEW natural \in NaturalRolls
    PROVE  ~diceWins(diceRemap(natural, target, direction), target, direction)
<1> DEFINE R == ROLL_STEPS
<1>1. R \in Nat /\ R >= 1 /\ natural \in Nat /\ natural <= 100 * R - 1
  BY GamesAssumption
<1>2. CASE direction = "over"
  <2>1. natural * target <= (100 * R) * target
    BY <1>1, ProductMonotone
  <2> QED BY <1>1, <1>2, <2>1, ProductNat DEF diceWins, diceRemap, scaledTarget
<1>3. CASE direction = "under"
  <2>1. natural * (100 - target) \in Nat /\ scaledTarget(target) \in Nat
    BY <1>1, ProductNat DEF scaledTarget
  <2> QED BY <1>3, <2>1 DEF diceWins, diceRemap
<1> QED BY <1>2, <1>3 DEF Directions

LEMMA QuotientStrict ==
    ASSUME NEW n \in Nat, NEW d \in Nat \ {0}
    PROVE  n < ((n \div d) + 1) * d
<1>1. n = d * (n \div d) + (n % d) /\ n % d \in 0..(d - 1) /\ n \div d \in Nat
  OBVIOUS
<1> DEFINE k == n \div d
<1>2. k \in Nat /\ n = d * k + (n % d) /\ n % d < d /\ n % d \in Nat
  BY <1>1
<1> HIDE DEF k
<1>3. (k + 1) * d = d * k + d /\ d * k \in Nat
  BY <1>2
<1> QED BY <1>2, <1>3 DEF k

(* Rounding to a hundredth, a whole number of steps, does not carry a roll  *)
(* across a whole number of hundredths.                                    *)
LEMMA RoundingKeepsSide ==
    ASSUME NEW roll \in Nat, NEW k \in Nat
    PROVE  /\ shownRoll(roll) \in Nat
           /\ roll >= ROLL_STEPS * k => shownRoll(roll) >= ROLL_STEPS * k
           /\ roll <= ROLL_STEPS * k => shownRoll(roll) <= ROLL_STEPS * k
<1> DEFINE R == ROLL_STEPS
           a == 2 * roll + R
           q == a \div (2 * R)
           Rk == R * k
           Rq == R * q
<1>1. R \in Nat /\ R >= 1
  BY GamesAssumption
<1>2. a \in Nat /\ 2 * R \in Nat \ {0}
  BY <1>1
<1>3. shownRoll(roll) = Rq
  BY DEF shownRoll
<1> HIDE DEF a
<1>4. q \in Nat /\ q * (2 * R) <= a
  BY <1>2, QuotientNat, QuotientBound
<1>5. a < (q + 1) * (2 * R)
  BY <1>2, QuotientStrict
<1> HIDE DEF q
<1>6. Rk \in Nat /\ Rq \in Nat
  BY <1>1, <1>4, ProductNat
<1>7. q * (2 * R) = 2 * Rq /\ (q + 1) * (2 * R) = 2 * Rq + 2 * R
  BY <1>1, <1>4
<1>8. q >= k => Rq >= Rk
  <2> HAVE q >= k
  <2>1. k * R <= q * R
    BY <1>1, <1>4, ProductMonotone
  <2> QED BY <1>1, <1>4, <2>1
<1>9. q <= k => Rq <= Rk
  <2> HAVE q <= k
  <2>1. q * R <= k * R
    BY <1>1, <1>4, ProductMonotone
  <2> QED BY <1>1, <1>4, <2>1
<1>10. q + 1 <= k => Rq + R <= Rk
  <2> HAVE q + 1 <= k
  <2>1. (q + 1) * R <= k * R
    BY <1>1, <1>4, ProductMonotone
  <2> QED BY <1>1, <1>4, <2>1
<1>11. k + 1 <= q => Rk + R <= Rq
  <2> HAVE k + 1 <= q
  <2>1. (k + 1) * R <= q * R
    BY <1>1, <1>4, ProductMonotone
  <2> QED BY <1>1, <1>4, <2>1
<1>12. a = 2 * roll + R
  BY DEF a
<1> HIDE DEF Rk, Rq, R
<1>13. roll >= Rk => Rq >= Rk
  <2> SUFFICES ASSUME roll >= Rk, ~(q >= k) PROVE FALSE
    BY <1>8
  <2>1. q + 1 <= k
    BY <1>4
  <2> QED BY <1>1, <1>5, <1>6, <1>7, <1>10, <1>12, <2>1
<1>14. roll <= Rk => Rq <= Rk
  <2> SUFFICES ASSUME roll <= Rk, ~(q <= k) PROVE FALSE
    BY <1>9
  <2>1. k + 1 <= q
    BY <1>4
  <2> QED BY <1>1, <1>4, <1>6, <1>7, <1>11, <1>12, <2>1
<1> QED BY <1>3, <1>6, <1>13, <1>14 DEF Rk, R

LEMMA DiceRight ==
    ASSUME NEW amount \in Amounts, NEW capacity \in Capacities, NEW target \in Targets,
           NEW direction \in Directions, NEW rtp \in Rtps, NEW natural \in NaturalRolls,
           resolveDice(amount, capacity, target, direction, rtp, natural)
    PROVE  GamesInv'
<1> DEFINE quoted == diceQuote(amount, target, direction, rtp)
           remapped == diceWins(100 * natural, target, direction) /\ quoted - amount > capacity
           roll == IF remapped THEN diceRemap(natural, target, direction) ELSE 100 * natural
           input == [target |-> target, direction |-> direction, rtpBps |-> rtp]
           payout == IF diceWins(roll, target, direction) THEN quoted ELSE 0
<1>1. /\ amount \in Nat /\ capacity \in Nat /\ target \in 1..98
      /\ target \in Nat /\ 0 < target /\ target < 99 /\ rtp \in Nat /\ rtp <= 9900
  BY GamesAssumption
<1>2. quoted \in Nat /\ quoted <= 99 * amount
  BY <1>1, DiceMultiplierBounded
<1>3. remapped => ~diceWins(roll, target, direction)
  BY <1>1, DiceRemapLoses
<1>4. result' = resolution("dice", amount, capacity, input, shownRoll(100 * natural),
                           shownRoll(roll), remapped, quoted, payout)
  BY DEF resolveDice
<1>5. input.target = target /\ input.direction = direction
  OBVIOUS
<1>6. ~remapped => roll = 100 * natural
  OBVIOUS
<1>7. ~remapped /\ diceWins(roll, target, direction) => quoted - amount <= capacity
  <2> HIDE DEF quoted
  <2> QED BY <1>1, <1>2
<1>8. remapped => quoted - amount > capacity
  OBVIOUS
<1> DEFINE shown == shownRoll(roll)
<1>13. shown = scaledTarget(target)
       \/ (diceWins(shown, target, direction) <=> diceWins(roll, target, direction))
  <2>1. roll \in Nat
    <3>1. natural \in Nat
      BY GamesAssumption
    <3>2. 100 * natural \in Nat
      BY <3>1
    <3>3. diceRemap(natural, target, direction) \in Nat
      <4>1. natural * (100 - target) \in Nat /\ natural * target \in Nat
        BY <1>1, <3>1, ProductNat
      <4>2. scaledTarget(target) \in Nat
        BY <1>1, GamesAssumption, ProductNat DEF scaledTarget
      <4> QED BY <4>1, <4>2 DEF diceRemap
    <3> HIDE DEF remapped
    <3> QED BY <3>2, <3>3
  <2> HIDE DEF roll
  <2>2. scaledTarget(target) = ROLL_STEPS * (100 * target) /\ scaledTarget(target) \in Nat
    BY <1>1, GamesAssumption, ProductNat DEF scaledTarget
  <2>3. 100 * target \in Nat
    BY <1>1
  <2>4. /\ shown \in Nat
        /\ roll >= scaledTarget(target) => shown >= scaledTarget(target)
        /\ roll <= scaledTarget(target) => shown <= scaledTarget(target)
    BY <2>1, <2>2, <2>3, RoundingKeepsSide
  <2> HIDE DEF shown
  <2> QED BY <2>1, <2>2, <2>4 DEF diceWins
<1> HIDE DEF quoted, remapped, roll, input, shown
<1>9. /\ result'.game = "dice" /\ result'.amount = amount /\ result'.capacity = capacity
      /\ result'.input = input /\ result'.natural = shownRoll(100 * natural)
      /\ result'.shown = shown
      /\ (result'.remapped <=> remapped) /\ result'.quoted = quoted /\ result'.payout = payout
  BY <1>4, RightRecord DEF shown
<1>10. ShownIsPaid'
  <2>1. /\ shownPays' = IF diceWins(shown, target, direction) THEN quoted ELSE 0
        /\ shownOnTarget' <=> shown = scaledTarget(target)
    BY <1>5, <1>9 DEF shownPays, shownOnTarget
  <2>2. CASE diceWins(shown, target, direction) <=> diceWins(roll, target, direction)
    BY <1>9, <2>1, <2>2 DEF ShownIsPaid
  <2>3. CASE shown = scaledTarget(target)
    <3>1. ~diceWins(shown, target, direction)
      BY <1>1, <2>3, GamesAssumption, ProductNat DEF diceWins, scaledTarget
    <3>2. payout \in {0, quoted}
      OBVIOUS
    <3> QED BY <1>9, <2>1, <2>3, <3>1, <3>2 DEF ShownIsPaid
  <2> QED BY <1>13, <2>2, <2>3
<1>11. GateExact'
  BY <1>1, <1>2, <1>3, <1>6, <1>7, <1>8, <1>9 DEF GateExact, shown
<1>12. TableGamesWithinReserve'
  <2>1. payout <= (amount * 9900) \div 100
    BY <1>1, <1>2
  <2> HIDE DEF payout
  <2> QED BY <1>9, <2>1, Reserves DEF TableGamesWithinReserve, withinReserve
<1> QED BY <1>10, <1>11, <1>12 DEF GamesInv

-----------------------------------------------------------------------------
(* Slots *)

SlotRow == [1..5 -> 0..6]

LEMMA MatchesCounted ==
    ASSUME NEW line \in SlotRow
    PROVE  slotMatches(line) \in 1..5
<1> DEFINE breaks == {c \in 2..5 : line[c] # line[1] /\ line[c] # WILD_INDEX}
           Right(m) == m + 1 \in breaks /\ \A c \in breaks : m < c
<1>1. breaks # {} => \E m \in 1..4 : Right(m)
  <2> HAVE breaks # {}
  <2>1. breaks \subseteq Nat /\ \A c \in breaks : c \in 2..5
    OBVIOUS
  <2> HIDE DEF breaks
  <2>2. PICK c \in breaks : \A d \in breaks : c <= d
    BY <2>1, LeastNatural
  <2>3. c - 1 \in 1..4 /\ (c - 1) + 1 = c
    BY <2>1, <2>2
  <2>4. \A d \in breaks : c - 1 < d
    BY <2>1, <2>2
  <2>5. Right(c - 1)
    BY <2>2, <2>3, <2>4
  <2> QED BY <2>3, <2>5
<1>2. slotMatches(line) = IF breaks = {} THEN 5 ELSE CHOOSE m \in 1..4 : Right(m)
  BY DEF slotMatches
<1> HIDE DEF breaks, Right
<1> QED BY <1>1, <1>2

LEMMA SlotMultiplierNat ==
    ASSUME NEW line \in SlotRow
    PROVE  slotMultiplier(line) \in Nat
<1>1. slotMatches(line) \in Nat
  BY MatchesCounted
<1>2. line[1] + 1 \in 1..7
  BY DEF SlotRow
<1>3. \A i \in 1..7 : SLOT_PAYOUTS[i] \in Nat
  BY DEF SLOT_PAYOUTS
<1>4. SLOT_PAYOUTS[line[1] + 1] \in Nat
  BY <1>2, <1>3
<1> DEFINE pays == SLOT_PAYOUTS[line[1] + 1]
<1>5. pays * slotMatches(line) \in Nat
  <2> HIDE DEF pays
  <2>1. pays \in Nat
    BY <1>4 DEF pays
  <2> QED BY <1>1, <2>1, ProductNat
<1> QED BY <1>5 DEF slotMultiplier

(* A broken row stops at its third reel, whatever the others show.         *)
LEMMA BrokenRowLoses ==
    ASSUME NEW line \in SlotRow
    PROVE  slotMultiplier(breakRow(line)) = 0
<1> DEFINE b == breakRow(line)
           breaks == {c \in 2..5 : b[c] # b[1] /\ b[c] # WILD_INDEX}
           Right(m) == m + 1 \in breaks /\ \A c \in breaks : m < c
<1>1. b[1] = line[1] /\ b[3] = firstNonMatchingSymbol(line[1])
  BY DEF breakRow, SlotRow
<1>2. b[3] # b[1] /\ b[3] # WILD_INDEX
  BY <1>1 DEF firstNonMatchingSymbol, WILD_INDEX
<1>3. 3 \in breaks
  BY <1>2
<1>4. slotMatches(b) = IF breaks = {} THEN 5 ELSE CHOOSE m \in 1..4 : Right(m)
  BY DEF slotMatches
<1>5. breaks \subseteq 2..5
  OBVIOUS
<1> HIDE DEF b, breaks
<1>6. \E m \in 1..4 : Right(m)
  <2>1. CASE 2 \in breaks
    <3>1. Right(1)
      BY <1>5, <2>1
    <3> QED BY <3>1
  <2>2. CASE 2 \notin breaks
    <3>1. Right(2)
      BY <1>3, <1>5, <2>2
    <3> QED BY <3>1
  <2> QED BY <2>1, <2>2
<1>7. slotMatches(b) \in 1..4 /\ Right(slotMatches(b))
  <2> HIDE DEF Right
  <2> QED BY <1>3, <1>4, <1>6
<1>8. slotMatches(b) < 3
  BY <1>3, <1>7
<1> QED BY <1>8 DEF slotMultiplier, b

(* The budget of a spin, row by row.                                       *)
LEMMA BudgetSpent ==
    ASSUME NEW amount, NEW capacity, NEW lines, NEW spin
    PROVE  LET c == slotConfirmed(amount, capacity, lines, spin)
               more(r) == c[r - 1] + slotMultiplier(spin[r])
           IN  /\ c[0] = 0
               /\ \A r \in 1..3 :
                    c[r] = IF r <= scoredRows(lines)
                              /\ slotDeficit(amount, lines, more(r)) <= capacity
                           THEN more(r) ELSE c[r - 1]
<1> DEFINE next(r, sum) ==
             LET more == sum + slotMultiplier(spin[r])
             IN  IF r <= scoredRows(lines) /\ slotDeficit(amount, lines, more) <= capacity
                 THEN more ELSE sum
           spent(f) == f = [r \in 0..3 |-> IF r = 0 THEN 0 ELSE next(r, f[r - 1])]
           c == slotConfirmed(amount, capacity, lines, spin)
<1>1. c = CHOOSE f : spent(f)
  BY DEF slotConfirmed
<1>2. \E f : spent(f)
  <2> HIDE DEF next
  <2> DEFINE s1 == next(1, 0)
             s2 == next(2, s1)
             f == [r \in 0..3 |-> IF r = 0 THEN 0 ELSE IF r = 1 THEN s1
                                   ELSE IF r = 2 THEN s2 ELSE next(3, s2)]
  <2>1. f[0] = 0 /\ f[1] = s1 /\ f[2] = s2 /\ f[3] = next(3, s2)
    OBVIOUS
  <2>2. \A r \in 0..3 : f[r] = IF r = 0 THEN 0 ELSE next(r, f[r - 1])
    <3> TAKE r \in 0..3
    <3>1. r = 0 \/ r = 1 \/ r = 2 \/ r = 3
      OBVIOUS
    <3> QED BY <2>1, <3>1
  <2>3. f = [r \in 0..3 |-> f[r]]
    OBVIOUS
  <2>4. spent(f)
    <3> HIDE DEF f
    <3> QED BY <2>2, <2>3
  <2> QED BY <2>4
<1>3. spent(c)
  <2> HIDE DEF spent, c
  <2> QED BY <1>1, <1>2
<1>4. c[0] = 0 /\ \A r \in 1..3 : c[r] = next(r, c[r - 1])
  <2> HIDE DEF next, c
  <2> QED BY <1>3
<1> HIDE DEF c
<1> QED BY <1>4 DEF c

LEMMA SlotsRight ==
    ASSUME NEW amount \in Amounts, NEW capacity \in Capacities, NEW lines \in Lines,
           NEW spin \in [1..3 -> SlotRows], resolveSlots(amount, capacity, lines, spin)
    PROVE  GamesInv'
<1> DEFINE c == slotConfirmed(amount, capacity, lines, spin)
           m(r) == slotMultiplier(spin[r])
           scored == scoredRows(lines)
           fits(r) == r <= scored /\ slotDeficit(amount, lines, c[r - 1] + m(r)) <= capacity
           remappedAt(r) == r <= scored /\ m(r) > 0 /\ c[r] = c[r - 1]
           reels == [r \in 1..3 |-> IF remappedAt(r) THEN breakRow(spin[r]) ELSE spin[r]]
           line == perLine(amount, lines)
           pay(r) == IF r <= scored THEN slotMultiplier(reels[r]) ELSE 0
<1>1. /\ amount \in Nat /\ capacity \in Nat /\ lines \in 1..20
      /\ \A r \in 1..3 : spin[r] \in SlotRow
  BY GamesAssumption DEF SlotRow
<1>2. c[0] = 0 /\ \A r \in 1..3 : c[r] = IF fits(r) THEN c[r - 1] + m(r) ELSE c[r - 1]
  BY BudgetSpent
<1>3. result' = resolution("slots", amount, capacity, lines, spin, reels,
                           \E r \in 1..3 : remappedAt(r), 0, line * c[3])
  BY DEF resolveSlots
<1>4. \A r \in 1..3 : m(r) \in Nat
  BY <1>1, SlotMultiplierNat
<1>5. \A r \in 1..3 : reels[r] = IF remappedAt(r) THEN breakRow(spin[r]) ELSE spin[r]
  OBVIOUS
<1>6. \A r \in 1..3 : slotMultiplier(breakRow(spin[r])) = 0
  BY <1>1, BrokenRowLoses
<1>7. line \in Nat
  BY <1>1 DEF perLine
<1>8. (~ \E r \in 1..3 : remappedAt(r)) => reels = spin
  OBVIOUS
<1>9. scored \in Nat
  BY <1>1 DEF scoredRows
<1> HIDE DEF c, reels, line, scored, fits
<1>10. c[0] \in Nat /\ c[1] \in Nat /\ c[2] \in Nat /\ c[3] \in Nat
  <2>1. c[0] = 0
    BY <1>2
  <2>2. c[1] = IF fits(1) THEN c[0] + m(1) ELSE c[0]
    BY <1>2
  <2>3. c[2] = IF fits(2) THEN c[1] + m(2) ELSE c[1]
    BY <1>2
  <2>4. c[3] = IF fits(3) THEN c[2] + m(3) ELSE c[2]
    BY <1>2
  <2>5. m(1) \in Nat /\ m(2) \in Nat /\ m(3) \in Nat
    BY <1>4
  <2> HIDE DEF m
  <2> QED BY <2>1, <2>2, <2>3, <2>4, <2>5
<1>11. \A r \in 1..3 : pay(r) = c[r] - c[r - 1]
  <2> TAKE r \in 1..3
  <2>1. c[r] \in Nat /\ c[r - 1] \in Nat /\ m(r) \in Nat
    <3>1. r = 1 \/ r = 2 \/ r = 3
      OBVIOUS
    <3> QED BY <1>4, <1>10, <3>1
  <2>2. c[r] = IF fits(r) THEN c[r - 1] + m(r) ELSE c[r - 1]
    BY <1>2
  <2>3. fits(r) => r <= scored
    BY DEF fits
  <2>4. reels[r] = IF remappedAt(r) THEN breakRow(spin[r]) ELSE spin[r]
    BY <1>5
  <2>5. slotMultiplier(breakRow(spin[r])) = 0
    BY <1>6
  <2>6. CASE remappedAt(r)
    BY <2>1, <2>4, <2>5, <2>6
  <2>7. CASE ~remappedAt(r) /\ r <= scored
    <3>1. pay(r) = m(r)
      BY <2>4, <2>7
    <3>2. m(r) > 0 => c[r] # c[r - 1]
      BY <2>7
    <3> HIDE DEF m, pay
    <3> QED BY <2>1, <2>2, <3>1, <3>2
  <2>8. CASE ~(r <= scored)
    <3>1. pay(r) = 0
      BY <2>8
    <3> HIDE DEF pay, m
    <3> QED BY <2>1, <2>2, <2>3, <2>8, <3>1
  <2> QED BY <2>6, <2>7, <2>8
<1>12. pay(1) + pay(2) + pay(3) = c[3]
  <2>1. pay(1) = c[1] - c[0] /\ pay(2) = c[2] - c[1] /\ pay(3) = c[3] - c[2]
    BY <1>11
  <2> HIDE DEF pay
  <2> QED BY <1>2, <1>10, <2>1
<1>13. c[3] = 0 \/ slotDeficit(amount, lines, c[3]) <= capacity
  <2>1. \A r \in 1..3 : fits(r) => slotDeficit(amount, lines, c[r]) <= capacity
    BY <1>2 DEF fits
  <2>2. /\ c[1] = c[0] \/ fits(1)
        /\ c[2] = c[1] \/ fits(2)
        /\ c[3] = c[2] \/ fits(3)
    BY <1>2
  <2>3. c[0] = 0
    BY <1>2
  <2> HIDE DEF m
  <2> QED BY <2>1, <2>2, <2>3
<1> DEFINE payout == line * c[3]
<1>14. payout \in Nat /\ (c[3] = 0 => payout = 0)
  BY <1>7, <1>10, ProductNat
<1>15. slotDeficit(amount, lines, c[3]) = IF payout > amount THEN payout - amount ELSE 0
  BY DEF slotDeficit, line
<1> DEFINE broken == \E r \in 1..3 : remappedAt(r)
<1>16. /\ result'.game = "slots" /\ result'.amount = amount /\ result'.capacity = capacity
       /\ result'.input = lines /\ result'.natural = spin /\ result'.shown = reels
       /\ (result'.remapped <=> broken) /\ result'.payout = payout
  <2>1. result' = resolution("slots", amount, capacity, lines, spin, reels, broken, 0, payout)
    BY <1>3
  <2> HIDE DEF payout, broken
  <2> QED BY <2>1, RightRecord
<1> HIDE DEF payout
<1>17. ShownIsPaid'
  <2>1. \A r \in 1..3 : (IF r \in 1..scored THEN slotMultiplier(reels[r]) ELSE 0) = pay(r)
    BY <1>9
  <2>2. result'.payout = line * (pay(1) + pay(2) + pay(3))
    BY <1>12, <1>16 DEF payout
  <2> HIDE DEF pay
  <2>3. (IF 1 \in 1..scored THEN slotMultiplier(reels[1]) ELSE 0)
        + (IF 2 \in 1..scored THEN slotMultiplier(reels[2]) ELSE 0)
        + (IF 3 \in 1..scored THEN slotMultiplier(reels[3]) ELSE 0) = pay(1) + pay(2) + pay(3)
    BY <2>1
  <2>4. shownPays' = line * (pay(1) + pay(2) + pay(3))
    BY <1>16, <2>3 DEF shownPays, scored, line
  <2> QED BY <2>2, <2>4 DEF ShownIsPaid
<1>18. GateExact'
  <2>1. payout > 0 => payout - amount <= capacity
    BY <1>1, <1>13, <1>14, <1>15
  <2>2. ~broken => reels = spin
    BY <1>8
  <2> HIDE DEF broken
  <2> QED BY <1>16, <2>1, <2>2 DEF GateExact
<1>19. TableGamesWithinReserve'
  BY <1>16 DEF TableGamesWithinReserve
<1> QED BY <1>17, <1>18, <1>19 DEF GamesInv

-----------------------------------------------------------------------------
(* Roulette *)

(* The walk of a remap stops on a loser as soon as there is one ahead.     *)
LEMMA WalkLands ==
    ASSUME NEW natural, NEW size \in Nat, NEW losers, NEW i \in 1..size,
           (natural + i) % size \in losers
    PROVE  walkToLoser(natural, size, losers) \in losers
<1> DEFINE ahead == {j \in 1..size : (natural + j) % size \in losers}
           First(j) == \A k \in ahead : j <= k
           j == CHOOSE k \in ahead : First(k)
<1>1. i \in ahead /\ ahead \subseteq Nat /\ \A k \in ahead : (natural + k) % size \in losers
  OBVIOUS
<1>2. walkToLoser(natural, size, losers) = (natural + j) % size
  BY <1>1 DEF walkToLoser
<1> HIDE DEF ahead
<1>3. \E k \in ahead : First(k)
  BY <1>1, LeastNatural
<1>4. j \in ahead
  <2> HIDE DEF First
  <2> QED BY <1>3
<1> QED BY <1>1, <1>2, <1>4

(* Zero loses every bet but the one on zero, which one loses.              *)
LEMMA RouletteLoserAhead ==
    ASSUME NEW bet \in RouletteBets, NEW natural \in 0..36
    PROVE  \E i \in 1..37 : (natural + i) % 37 \in {n \in 0..36 : rouletteMultiplier(n, bet) = 0}
<1> DEFINE losers == {n \in 0..36 : rouletteMultiplier(n, bet) = 0}
<1> SUFFICES \E i \in 1..37 : (natural + i) % 37 \in losers
  OBVIOUS
<1>1. CASE bet.type = "straight" /\ bet.selection = 0
  <2>1. rouletteMultiplier(1, bet) = 0
    BY <1>1 DEF rouletteMultiplier
  <2>2. 1 \in losers
    BY <2>1
  <2>3. CASE natural = 0
    <3>1. (natural + 1) % 37 = 1
      BY <2>3
    <3> HIDE DEF losers
    <3> QED BY <2>2, <3>1
  <2>4. CASE natural # 0
    <3> DEFINE i == 38 - natural
    <3>1. i \in 1..37 /\ (natural + i) % 37 = 1
      BY <2>4
    <3>2. (natural + i) % 37 \in losers
      BY <2>2, <3>1
    <3> HIDE DEF i, losers
    <3> QED BY <3>1, <3>2, Zenon
  <2> QED BY <2>3, <2>4
<1>2. CASE ~(bet.type = "straight" /\ bet.selection = 0)
  <2>1. rouletteMultiplier(0, bet) = 0
    <3>1. CASE bet.type = "straight"
      BY <1>2, <3>1 DEF rouletteMultiplier
    <3>2. CASE bet.type \in {"red", "black", "even", "odd", "low", "high"}
      <4>1. 0 % 2 = 0 /\ 0 \notin 1..18 /\ 0 \notin 19..36 /\ ~(0 > 0)
        OBVIOUS
      <4>2. CASE bet.type = "red"
        BY <4>1, <4>2 DEF rouletteMultiplier
      <4>3. CASE bet.type = "black"
        BY <4>1, <4>3 DEF rouletteMultiplier
      <4>4. CASE bet.type = "even"
        BY <4>1, <4>4 DEF rouletteMultiplier
      <4>5. CASE bet.type = "odd"
        BY <4>1, <4>5 DEF rouletteMultiplier
      <4>6. CASE bet.type = "low"
        BY <4>1, <4>6 DEF rouletteMultiplier
      <4>7. CASE bet.type = "high"
        BY <4>1, <4>7 DEF rouletteMultiplier
      <4> QED BY <3>2, <4>2, <4>3, <4>4, <4>5, <4>6, <4>7
    <3>3. CASE bet.type = "dozen" /\ bet.selection \in 1..3
      <4>1. CASE bet.selection = 1
        BY <3>3, <4>1 DEF rouletteMultiplier
      <4>2. CASE bet.selection = 2
        BY <3>3, <4>2 DEF rouletteMultiplier
      <4>3. CASE bet.selection = 3
        BY <3>3, <4>3 DEF rouletteMultiplier
      <4> QED BY <3>3, <4>1, <4>2, <4>3
    <3>4. CASE bet.type = "column"
      BY <3>4 DEF rouletteMultiplier
    <3> QED BY <3>1, <3>2, <3>3, <3>4 DEF RouletteBets
  <2> DEFINE i == 37 - natural
  <2>2. i \in 1..37 /\ (natural + i) % 37 = 0
    OBVIOUS
  <2>3. (natural + i) % 37 \in losers
    BY <2>1, <2>2
  <2> HIDE DEF i, losers
  <2> QED BY <2>2, <2>3, Zenon
<1> QED BY <1>1, <1>2

LEMMA RouletteMultiplierKnown ==
    ASSUME NEW number, NEW bet
    PROVE  rouletteMultiplier(number, bet) \in {0, 2, 3, 36}
BY DEF rouletteMultiplier

LEMMA RouletteRight ==
    ASSUME NEW amount \in Amounts, NEW capacity \in Capacities, NEW bet \in RouletteBets,
           NEW natural \in 0..36, resolveRoulette(amount, capacity, bet, natural)
    PROVE  GamesInv'
<1> DEFINE multiplier == rouletteMultiplier(natural, bet)
           remapped == multiplier > 0 /\ amount * (multiplier - 1) > capacity
           losers == {n \in 0..36 : rouletteMultiplier(n, bet) = 0}
           number == IF remapped THEN walkToLoser(natural, 37, losers) ELSE natural
           pays == rouletteMultiplier(number, bet)
           quoted == amount * multiplier
           payout == amount * pays
<1>1. amount \in Nat /\ capacity \in Nat
  BY GamesAssumption
<1>2. multiplier \in {0, 2, 3, 36} /\ pays \in {0, 2, 3, 36}
  BY RouletteMultiplierKnown
<1>3. remapped => pays = 0
  <2>1. walkToLoser(natural, 37, losers) \in losers
    <3>1. PICK i \in 1..37 : (natural + i) % 37 \in losers
      BY RouletteLoserAhead
    <3> HIDE DEF losers
    <3> QED BY <3>1, WalkLands
  <2> QED BY <2>1
<1>4. ~remapped => number = natural /\ pays = multiplier
  OBVIOUS
<1>5. result' = resolution("roulette", amount, capacity, bet, natural, number, remapped,
                           quoted, payout)
  BY DEF resolveRoulette
<1> HIDE DEF multiplier, number, pays
<1>6. remapped <=> (multiplier > 0 /\ quoted - amount > capacity)
  BY <1>1, <1>2
<1>7. payout \in Nat /\ payout <= 36 * amount /\ (payout > 0 => pays > 0)
  BY <1>1, <1>2
<1>8. ~remapped => payout = quoted
  BY <1>4
<1>9. quoted \in Nat
  BY <1>1, <1>2
<1>10. remapped => payout = 0
  BY <1>1, <1>3
<1>11. payout = amount * rouletteMultiplier(number, bet)
  BY DEF pays
<1> HIDE DEF remapped, quoted, payout
<1>12. /\ result'.game = "roulette" /\ result'.amount = amount /\ result'.capacity = capacity
       /\ result'.input = bet /\ result'.natural = natural /\ result'.shown = number
       /\ (result'.remapped <=> remapped) /\ result'.quoted = quoted /\ result'.payout = payout
  BY <1>5, RightRecord
<1>13. ShownIsPaid'
  BY <1>11, <1>12 DEF ShownIsPaid, shownPays
<1>14. GateExact'
  <2>1. payout > 0 => payout - amount <= capacity
    BY <1>1, <1>2, <1>4, <1>6, <1>7, <1>8, <1>9, <1>10
  <2> QED BY <1>4, <1>6, <1>10, <1>12, <2>1 DEF GateExact
<1>15. TableGamesWithinReserve'
  <2>1. payout <= (amount * 3600) \div 100
    BY <1>1, <1>7
  <2> QED BY <1>12, <2>1, Reserves DEF TableGamesWithinReserve, withinReserve
<1> QED BY <1>13, <1>14, <1>15 DEF GamesInv

-----------------------------------------------------------------------------
(* Baccarat *)

(* 0:0 loses a bet on a side, 0:1 a bet on the tie.                        *)
LEMMA BaccaratLoserAhead ==
    ASSUME NEW bet \in BaccaratBets, NEW natural \in 0..99
    PROVE  \E i \in 1..100 :
              (natural + i) % 100 \in {n \in 0..99 : baccaratMultiplierX100(n, bet) = 0}
<1> DEFINE losers == {n \in 0..99 : baccaratMultiplierX100(n, bet) = 0}
<1> SUFFICES \E i \in 1..100 : (natural + i) % 100 \in losers
  OBVIOUS
<1>1. CASE bet = "tie"
  <2>1. baccaratMultiplierX100(1, bet) = 0
    BY <1>1 DEF baccaratMultiplierX100, baccaratWinner
  <2>2. 1 \in losers
    BY <2>1
  <2>3. CASE natural = 0
    <3>1. (natural + 1) % 100 = 1
      BY <2>3
    <3> HIDE DEF losers
    <3> QED BY <2>2, <3>1
  <2>4. CASE natural # 0
    <3> DEFINE i == 101 - natural
    <3>1. i \in 1..100 /\ (natural + i) % 100 = 1
      BY <2>4
    <3>2. (natural + i) % 100 \in losers
      BY <2>2, <3>1
    <3> HIDE DEF i, losers
    <3> QED BY <3>1, <3>2, Zenon
  <2> QED BY <2>3, <2>4
<1>2. CASE bet # "tie"
  <2>1. baccaratMultiplierX100(0, bet) = 0
    BY <1>2 DEF baccaratMultiplierX100, baccaratWinner
  <2> DEFINE i == 100 - natural
  <2>2. i \in 1..100 /\ (natural + i) % 100 = 0
    OBVIOUS
  <2>3. (natural + i) % 100 \in losers
    BY <2>1, <2>2
  <2> HIDE DEF i, losers
  <2> QED BY <2>2, <2>3, Zenon
<1> QED BY <1>1, <1>2

LEMMA BaccaratMultiplierKnown ==
    ASSUME NEW pair, NEW bet \in BaccaratBets
    PROVE  baccaratMultiplierX100(pair, bet) \in {0, 195, 200, 900}
<1>1. bet = "tie" \/ bet = "banker" \/ bet = "player"
  BY DEF BaccaratBets
<1> QED BY <1>1 DEF baccaratMultiplierX100

LEMMA BaccaratRight ==
    ASSUME NEW amount \in Amounts, NEW capacity \in Capacities, NEW bet \in BaccaratBets,
           NEW natural \in 0..99, resolveBaccarat(amount, capacity, bet, natural)
    PROVE  GamesInv'
<1> DEFINE x100 == baccaratMultiplierX100(natural, bet)
           remapped == x100 > 0 /\ (amount * (x100 - 100)) \div 100 > capacity
           losers == {n \in 0..99 : baccaratMultiplierX100(n, bet) = 0}
           pair == IF remapped THEN walkToLoser(natural, 100, losers) ELSE natural
           pays == baccaratMultiplierX100(pair, bet)
           quoted == (amount * x100) \div 100
           payout == (amount * pays) \div 100
<1>1. amount \in Nat /\ capacity \in Nat
  BY GamesAssumption
<1>2. x100 \in {0, 195, 200, 900} /\ pays \in {0, 195, 200, 900}
  BY BaccaratMultiplierKnown
<1>3. remapped => pays = 0
  <2>1. walkToLoser(natural, 100, losers) \in losers
    <3>1. PICK i \in 1..100 : (natural + i) % 100 \in losers
      BY BaccaratLoserAhead
    <3> HIDE DEF losers
    <3> QED BY <3>1, WalkLands
  <2> QED BY <2>1
<1>4. ~remapped => pair = natural /\ pays = x100
  OBVIOUS
<1>5. result' = resolution("baccarat", amount, capacity, bet, natural, pair, remapped,
                           quoted, payout)
  BY DEF resolveBaccarat
<1> HIDE DEF x100, pair, pays
<1>6. remapped <=> (x100 > 0 /\ quoted - amount > capacity)
  <2>1. (amount * (x100 - 100)) \div 100 = quoted - amount
    BY <1>1, <1>2
  <2> QED BY <2>1
<1>7. payout \in Nat /\ payout <= (amount * 900) \div 100
  BY <1>1, <1>2
<1>8. ~remapped => payout = quoted
  BY <1>4
<1>9. remapped => payout = 0
  BY <1>1, <1>3
<1>10. payout = (amount * baccaratMultiplierX100(pair, bet)) \div 100
  BY DEF pays
<1>11. x100 = 0 => quoted = 0
  BY <1>1
<1>12. quoted \in Nat
  BY <1>1, <1>2
<1> HIDE DEF remapped, quoted, payout
<1>13. /\ result'.game = "baccarat" /\ result'.amount = amount /\ result'.capacity = capacity
       /\ result'.input = bet /\ result'.natural = natural /\ result'.shown = pair
       /\ (result'.remapped <=> remapped) /\ result'.quoted = quoted /\ result'.payout = payout
  BY <1>5, RightRecord
<1>14. ShownIsPaid'
  BY <1>10, <1>13 DEF ShownIsPaid, shownPays
<1>15. GateExact'
  <2>1. payout > 0 => payout - amount <= capacity
    BY <1>1, <1>2, <1>6, <1>8, <1>9, <1>11, <1>12
  <2> QED BY <1>4, <1>6, <1>9, <1>13, <2>1 DEF GateExact
<1>16. TableGamesWithinReserve'
  BY <1>7, <1>13, Reserves DEF TableGamesWithinReserve, withinReserve
<1> QED BY <1>14, <1>15, <1>16 DEF GamesInv

-----------------------------------------------------------------------------
(* A behaviour of the tables is one of each part. *)

LEMMA TablesArePlayed == TablesSpec => Spec /\ BlackjackSpec
<1>1. TablesInit => Init /\ BlackjackInit
  BY DEF TablesInit
<1>2. [TablesNext]_<<result, blackjackVars>> => [Next]_result /\ [BlackjackNext]_blackjackVars
  BY DEF TablesNext, instantGame, blackjackHand
<1> QED BY <1>1, <1>2, PTL DEF TablesSpec, Spec, BlackjackSpec

(* Every call of a resolver of casino.ts: what is shown is what is paid,    *)
(* the gate on the bankroll is exact, and the payout fits the reservation, *)
(* for every stake, capacity, RTP of 50% to 99%, input and draw.           *)
LEMMA GamesInvariant == Spec => []GamesInv
<1>1. Init => GamesInv
  BY DEF Init, GamesInv, ShownIsPaid, GateExact, TableGamesWithinReserve
<1>2. Next => GamesInv'
  BY DiceRight, SlotsRight, RouletteRight, BaccaratRight DEF Next
<1>3. GamesInv /\ UNCHANGED result => GamesInv'
  BY DEF GamesInv, ShownIsPaid, GateExact, TableGamesWithinReserve, withinReserve, shownPays,
         shownOnTarget
<1> QED BY <1>1, <1>2, <1>3, PTL DEF Spec

(* casino.ts shows the reels, number or hand it pays for, and a dice roll  *)
(* that is paid alike unless it was rounded onto its very target.          *)
THEOREM ShownGamesArePaid == TablesSpec => []ShownIsPaid
BY TablesArePlayed, GamesInvariant, PTL DEF GamesInv

(* casino.ts remaps a win exactly when the bankroll does not cover it.      *)
THEOREM BankrollGateIsExact == TablesSpec => []GateExact
BY TablesArePlayed, GamesInvariant, PTL DEF GamesInv

(* A payout of dice, roulette or baccarat fits what CasinoHouse reserved.  *)
THEOREM TablesPayWithinReserve == TablesSpec => []TableGamesWithinReserve
BY TablesArePlayed, GamesInvariant, PTL DEF GamesInv

-----------------------------------------------------------------------------
(* The hand: the invariant *)

(* The stream of a seed is drawn from its front, skipping what is on the    *)
(* table: the table always shows a beginning of the stream, and each side  *)
(* holds its cards in the order they came up.                              *)
Upto(shoe, cursor) == {shoe[i] : i \in 1..cursor}

ComesBefore(shoe, x, y) ==
    \E k \in 1..Len(shoe) : shoe[k] = x /\ \A m \in 1..k : shoe[m] # y

InOrder(shoe, cards) ==
    \A i, j \in 1..Len(cards) : i < j => ComesBefore(shoe, cards[i], cards[j])

Drawn(shoe, cards, others, cursor) ==
    /\ cursor \in 0..Len(shoe)
    /\ Cards(cards) \cup Cards(others) = Upto(shoe, cursor)
    /\ Cards(cards) \cap Cards(others) = {}
    /\ InOrder(shoe, cards)

dealtDealer(shoe) == dealInitial(shoe).dealer

(* The player's cards after some number of hits. *)
OnLine(shoe, cards) == \E c \in 0..Len(shoe) : Drawn(shoe, cards, dealtDealer(shoe), c)

Played(shoe, player, dealer) ==
    /\ OnLine(shoe, player)
    /\ InOrder(shoe, dealer)
    /\ Cards(player) \cap Cards(dealer) = {}

CardSeqs == Seq(0..51)

HandStates == [status : {"None", "player_turn", "resolved"}, actionSeq : Nat, shoe : CardSeqs,
               cursor : Nat, player : CardSeqs, dealer : CardSeqs]
RowStates == [status : {"None", "PENDING", "WON", "LOST"}, payout : Nat, confirmed : BOOLEAN,
              player : CardSeqs, dealer : CardSeqs]
Closing == {"Gating", "Submitting", "Sent", "Persisting"}
RequestStates == [pc : {"Idle", "Reading", "Dealing", "Claiming", "Saving", "Done"} \cup Closing,
                  action : {"None", "deal", "hit", "stand"}, seq : Nat, claimed : BOOLEAN,
                  seen : HandStates, player : CardSeqs, dealer : CardSeqs, cursor : Nat,
                  asked : Nat, paid : Nat, confirmed : BOOLEAN,
                  told : {"Nothing", "player_turn", "resolved", "Error", "Conflict"}]
StakeStates == [status : {"None", "Placed", "Settled"}, game : Games \cup {"None"},
                amount : Nat, payout : Nat, reservedExposure : Nat]

StakeTypeOK ==
    /\ usdc \in Nat /\ totalPendingExposure \in Nat
    /\ bets \in [BetIds -> StakeStates]
    /\ maxMultiplierX100 \in [Games -> Nat]

(* The type of every variable of the hand and of its stake.                *)
HandTypeOK ==
    /\ StakeTypeOK
    /\ hand \in HandStates
    /\ row \in RowStates
    /\ requests \in [Requests -> RequestStates]
    /\ faults \in Nat

(* Before the deal nobody holds a card or was told to act.                 *)
Blank(r) ==
    /\ r.pc \in {"Idle", "Reading", "Dealing", "Done"}
    /\ r.pc = "Reading" => r.action = "deal"
    /\ r.player = <<>>
    /\ r.told # "player_turn"

HandRight(h) ==
    /\ Drawn(h.shoe, h.player, dealtDealer(h.shoe), h.cursor)
    /\ dealtDealer(h.shoe) \in CardSeqs /\ InOrder(h.shoe, dealtDealer(h.shoe))
    /\ h.status = "player_turn" => h.dealer = dealtDealer(h.shoe)

RowRight(w, shoe) ==
    (w.player = <<>> /\ w.dealer = <<>>) \/ Played(shoe, w.player, w.dealer)

(* After the deal every request holds cards of the line its shoe fixes,     *)
(* however stale they are.                                                 *)
HoldsLine(r, shoe) ==
    /\ r.player = <<>> \/ OnLine(shoe, r.player)
    /\ r.pc = "Claiming" =>
          /\ r.seen.shoe = shoe /\ r.seen.dealer = dealtDealer(shoe)
          /\ Drawn(shoe, r.seen.player, dealtDealer(shoe), r.seen.cursor)
    /\ r.pc = "Saving" => Drawn(shoe, r.player, dealtDealer(shoe), r.cursor)
    /\ r.pc \in Closing => Played(shoe, r.player, r.dealer)

LineInv ==
    /\ hand.status = "None" =>
          hand = NoHand /\ row = NoRow /\ \A q \in Requests : Blank(requests[q])
    /\ hand.status # "None" =>
          /\ HandRight(hand) /\ RowRight(row, hand.shoe)
          /\ \A q \in Requests : HoldsLine(requests[q], hand.shoe)

(* What a closing request knows of the stake.                              *)
ClosesRight(r, stake) ==
    /\ r.pc = "Sent" => stake.status # "None"
    /\ r.pc = "Persisting" =>
          stake.status = "Settled" /\ (r.confirmed => r.paid = stake.payout)

StakeInv ==
    /\ HandFollowsBet
    /\ row.confirmed => hand.status = "resolved"
    /\ \A q \in Requests : ClosesRight(requests[q], bets[HandBet])

BlackjackInv == HandTypeOK /\ LineInv /\ StakeInv

-----------------------------------------------------------------------------
(* The stream of a seed *)

LEMMA CardTyped ==
    ASSUME NEW cards \in CardSeqs
    PROVE  /\ Len(cards) \in Nat /\ DOMAIN cards = 1..Len(cards)
           /\ \A i \in 1..Len(cards) : cards[i] \in 0..51
           /\ Cards(cards) = {cards[i] : i \in 1..Len(cards)}
<1>1. Len(cards) \in Nat /\ DOMAIN cards = 1..Len(cards)
  BY DEF CardSeqs
<1>2. \A i \in 1..Len(cards) : cards[i] \in 0..51
  <2> DEFINE S == 0..51
  <2>1. cards \in Seq(S)
    BY DEF CardSeqs
  <2> HIDE DEF S
  <2>2. \A i \in 1..Len(cards) : cards[i] \in S
    BY <2>1
  <2> QED BY <2>2 DEF S
<1>3. Cards(cards) = {cards[i] : i \in 1..Len(cards)}
  BY <1>1, Zenon DEF Cards
<1> QED BY <1>1, <1>2, <1>3

LEMMA BeforeAsymmetric ==
    ASSUME NEW shoe \in CardSeqs, NEW x, NEW y, ComesBefore(shoe, x, y)
    PROVE  ~ComesBefore(shoe, y, x)
<1> DEFINE n == Len(shoe)
<1>1. n \in Nat
  BY CardTyped
<1> HIDE DEF n
<1>2. PICK k \in 1..n : shoe[k] = x /\ \A m \in 1..k : shoe[m] # y
  BY DEF ComesBefore, n
<1>3. ASSUME NEW j \in 1..n, shoe[j] = y, \A m \in 1..j : shoe[m] # x
      PROVE  FALSE
  <2>1. k \in 1..j \/ j \in 1..k
    BY <1>1
  <2> QED BY <1>2, <1>3, <2>1
<1> QED BY <1>3 DEF ComesBefore, n

LEMMA BeforeTotal ==
    ASSUME NEW shoe \in CardSeqs, NEW i \in 1..Len(shoe), NEW j \in 1..Len(shoe),
           shoe[i] # shoe[j]
    PROVE  ComesBefore(shoe, shoe[i], shoe[j]) \/ ComesBefore(shoe, shoe[j], shoe[i])
<1> DEFINE hits == {k \in 1..Len(shoe) : shoe[k] \in {shoe[i], shoe[j]}}
<1>1. i \in hits /\ hits \subseteq Nat /\ hits \subseteq 1..Len(shoe)
  OBVIOUS
<1>2. PICK k \in hits : \A m \in hits : k <= m
  <2> HIDE DEF hits
  <2> QED BY <1>1, LeastNatural
<1>3. \A m \in 1..k : m # k => shoe[m] \notin {shoe[i], shoe[j]}
  <2>1. Len(shoe) \in Nat
    BY CardTyped
  <2> QED BY <1>1, <1>2, <2>1
<1>4. k \in 1..Len(shoe) /\ shoe[k] \in {shoe[i], shoe[j]}
  BY <1>2
<1> HIDE DEF hits
<1>5. CASE shoe[k] = shoe[i]
  <2>1. \A m \in 1..k : shoe[m] # shoe[j]
    BY <1>3, <1>5
  <2> QED BY <1>4, <1>5, <2>1 DEF ComesBefore
<1>6. CASE shoe[k] = shoe[j]
  <2>1. \A m \in 1..k : shoe[m] # shoe[i]
    BY <1>3, <1>6
  <2> QED BY <1>4, <1>6, <2>1 DEF ComesBefore
<1> QED BY <1>4, <1>5, <1>6

(* A card on the table came before one that is not.                        *)
LEMMA TableComesBefore ==
    ASSUME NEW shoe \in CardSeqs, NEW cursor \in 0..Len(shoe), NEW x \in Upto(shoe, cursor),
           NEW y, y \notin Upto(shoe, cursor)
    PROVE  ComesBefore(shoe, x, y)
<1> DEFINE n == Len(shoe)
<1>1. n \in Nat /\ cursor \in 0..n
  BY CardTyped
<1>2. PICK k \in 1..cursor : shoe[k] = x
  BY DEF Upto
<1>3. \A m \in 1..cursor : shoe[m] # y
  BY DEF Upto
<1> HIDE DEF n
<1>4. k \in 1..n /\ \A m \in 1..k : m \in 1..cursor
  BY <1>1
<1> QED BY <1>2, <1>3, <1>4 DEF ComesBefore, n

(* A draw skips cards of the table only.                                   *)
LEMMA DrawFinds ==
    ASSUME NEW shoe \in CardSeqs, NEW used, NEW cursor \in 0..Len(shoe),
           canDraw(shoe, used, cursor)
    PROVE  LET d == drawCard(shoe, used, cursor)
           IN  /\ d.nextCursor \in 1..Len(shoe) /\ cursor < d.nextCursor
               /\ d.card = shoe[d.nextCursor] /\ d.card \notin used /\ d.card \in 0..51
               /\ \A i \in 1..Len(shoe) :
                     cursor < i /\ i < d.nextCursor => shoe[i] \in used
<1> DEFINE n == Len(shoe)
           fresh == {c \in cursor..(n - 1) : shoe[c + 1] \notin used}
           First(c) == \A e \in fresh : c <= e
           at == CHOOSE c \in fresh : First(c)
           d == drawCard(shoe, used, cursor)
<1>1. n \in Nat /\ cursor \in 0..n /\ \A i \in 1..n : shoe[i] \in 0..51
  BY CardTyped
<1>2. d = [card |-> shoe[at + 1], nextCursor |-> at + 1]
  BY DEF drawCard
<1>3. fresh # {}
  BY DEF canDraw
<1>4. fresh \subseteq Nat
  BY <1>1
<1>5. \A c \in fresh : c \in cursor..(n - 1) /\ shoe[c + 1] \notin used
  OBVIOUS
<1>6. \A c \in cursor..(n - 1) : c \notin fresh => shoe[c + 1] \in used
  OBVIOUS
<1> HIDE DEF n, fresh, d
<1>7. \E c \in fresh : First(c)
  BY <1>3, <1>4, LeastNatural
<1>8. at \in fresh /\ First(at)
  <2> HIDE DEF First
  <2> QED BY <1>7
<1> HIDE DEF at
<1>9. d.card = shoe[at + 1] /\ d.nextCursor = at + 1
  BY <1>2
<1>10. at + 1 \in 1..n /\ cursor < at + 1 /\ shoe[at + 1] \notin used /\ shoe[at + 1] \in 0..51
  BY <1>1, <1>5, <1>8
<1>11. \A i \in 1..n : cursor < i /\ i < at + 1 => shoe[i] \in used
  <2> TAKE i \in 1..n
  <2> HAVE cursor < i /\ i < at + 1
  <2> DEFINE c == i - 1
  <2>1. c \in cursor..(n - 1) /\ c + 1 = i /\ ~(at <= c)
    BY <1>1, <1>5, <1>8
  <2> HIDE DEF c
  <2>2. c \notin fresh
    BY <1>8, <2>1
  <2> QED BY <1>6, <2>1, <2>2
<1> QED BY <1>9, <1>10, <1>11 DEF n, d

LEMMA Extended ==
    ASSUME NEW cards \in CardSeqs, NEW card \in 0..51
    PROVE  LET more == Append(cards, card)
           IN  /\ more \in CardSeqs /\ Cards(more) = Cards(cards) \cup {card}
               /\ Len(more) = Len(cards) + 1 /\ more[Len(cards) + 1] = card
               /\ \A i \in 1..Len(cards) : more[i] = cards[i]
<1> DEFINE more == Append(cards, card)
<1>1. /\ more \in CardSeqs /\ Len(more) = Len(cards) + 1 /\ more[Len(cards) + 1] = card
      /\ \A i \in 1..Len(cards) : more[i] = cards[i]
  BY DEF CardSeqs
<1>2. Len(cards) \in Nat /\ Cards(cards) = {cards[i] : i \in 1..Len(cards)}
  BY CardTyped
<1>3. Cards(more) = {more[i] : i \in 1..(Len(cards) + 1)}
  BY <1>1, CardTyped
<1> HIDE DEF more
<1>4. \A i \in 1..(Len(cards) + 1) : i \in 1..Len(cards) \/ i = Len(cards) + 1
  BY <1>2
<1>5. Len(cards) + 1 \in 1..(Len(cards) + 1) /\ 1..Len(cards) \subseteq 1..(Len(cards) + 1)
  BY <1>2
<1>6. Cards(more) = Cards(cards) \cup {card}
  BY <1>1, <1>2, <1>3, <1>4, <1>5
<1> QED BY <1>1, <1>6 DEF more

(* A draw for either side leaves the table a beginning of the stream.      *)
LEMMA DrawnDraw ==
    ASSUME NEW shoe \in CardSeqs, NEW cards \in CardSeqs, NEW others \in CardSeqs, NEW cursor,
           Drawn(shoe, cards, others, cursor),
           canDraw(shoe, Cards(cards) \cup Cards(others), cursor)
    PROVE  LET d == drawCard(shoe, Cards(cards) \cup Cards(others), cursor)
           IN  /\ d.card \in 0..51 /\ Append(cards, d.card) \in CardSeqs
               /\ Drawn(shoe, Append(cards, d.card), others, d.nextCursor)
<1> DEFINE used == Cards(cards) \cup Cards(others)
           d == drawCard(shoe, used, cursor)
           more == Append(cards, d.card)
           n == Len(shoe)
<1>1. /\ cursor \in 0..n /\ used = Upto(shoe, cursor) /\ Cards(cards) \cap Cards(others) = {}
      /\ InOrder(shoe, cards)
  BY DEF Drawn
<1>2. n \in Nat
  BY CardTyped
<1>3. canDraw(shoe, used, cursor)
  OBVIOUS
<1> HIDE DEF used
<1>4. /\ d.nextCursor \in 1..n /\ cursor < d.nextCursor
      /\ d.card = shoe[d.nextCursor] /\ d.card \notin used /\ d.card \in 0..51
      /\ \A i \in 1..n : cursor < i /\ i < d.nextCursor => shoe[i] \in used
  <2>1. cursor \in 0..Len(shoe)
    BY <1>1
  <2> QED BY <1>3, <2>1, DrawFinds, Zenon
<1>5. \A i \in 1..cursor : shoe[i] \in used
  BY <1>1 DEF Upto
<1> DEFINE card == d.card
           next == d.nextCursor
<1>6. /\ next \in 1..n /\ cursor < next /\ card = shoe[next] /\ card \notin used /\ card \in 0..51
      /\ \A i \in 1..n : cursor < i /\ i < next => shoe[i] \in used
  BY <1>4
<1> HIDE DEF d, card, next, n
<1>7. Upto(shoe, next) = used \cup {card}
  <2>1. \A i \in 1..next : i \in 1..cursor \/ i = next \/ (i \in 1..n /\ cursor < i /\ i < next)
    BY <1>1, <1>2, <1>6
  <2>2. Upto(shoe, next) \subseteq used \cup {card}
    BY <1>5, <1>6, <2>1 DEF Upto
  <2>3. next \in 1..next /\ \A i \in 1..cursor : i \in 1..next
    BY <1>1, <1>2, <1>6
  <2>4. used \cup {card} \subseteq Upto(shoe, next)
    BY <1>1, <1>6, <2>3 DEF Upto
  <2> QED BY <2>2, <2>4
<1>8. /\ more \in CardSeqs /\ Cards(more) = Cards(cards) \cup {card}
      /\ Len(more) = Len(cards) + 1 /\ more[Len(cards) + 1] = card
      /\ \A i \in 1..Len(cards) : more[i] = cards[i]
  BY <1>6, Extended DEF card
<1>9. Cards(more) \cup Cards(others) = Upto(shoe, next) /\ Cards(more) \cap Cards(others) = {}
  BY <1>1, <1>6, <1>7, <1>8 DEF used
<1>10. InOrder(shoe, more)
  <2>1. Len(cards) \in Nat /\ \A i \in 1..Len(cards) : cards[i] \in Upto(shoe, cursor)
    BY <1>1, CardTyped DEF used
  <2>2. SUFFICES ASSUME NEW i \in 1..Len(more), NEW j \in 1..Len(more), i < j
                 PROVE  ComesBefore(shoe, more[i], more[j])
    BY DEF InOrder
  <2> DEFINE len == Len(cards)
  <2>3. len \in Nat /\ i \in 1..(len + 1) /\ j \in 1..(len + 1)
    BY <1>8, <2>1
  <2> HIDE DEF len
  <2>4. CASE j \in 1..len
    <3>1. i \in 1..len
      BY <2>2, <2>3, <2>4
    <3> QED BY <1>1, <1>8, <2>2, <2>4, <3>1 DEF InOrder, len
  <2>5. CASE j \notin 1..len
    <3>1. j = len + 1 /\ i \in 1..len
      BY <2>2, <2>3, <2>5
    <3>2. more[j] = card /\ more[i] = cards[i] /\ more[i] \in Upto(shoe, cursor)
      BY <1>8, <2>1, <3>1 DEF len
    <3>3. card \notin Upto(shoe, cursor)
      BY <1>1, <1>6
    <3> QED BY <1>1, <3>2, <3>3, TableComesBefore DEF n
  <2> QED BY <2>4, <2>5
<1>11. next \in 0..n
  BY <1>2, <1>6
<1> QED BY <1>6, <1>8, <1>9, <1>10, <1>11 DEF Drawn, card, next, n, d, used

(* Two hands of the line: one shows all of the other.                      *)
LEMMA LinesCompare ==
    ASSUME NEW shoe \in CardSeqs, NEW s \in CardSeqs, NEW t \in CardSeqs, NEW others,
           NEW c, NEW e, Drawn(shoe, s, others, c), Drawn(shoe, t, others, e)
    PROVE  isPrefix(s, t) \/ isPrefix(t, s)
<1> DEFINE n == Len(s)
           m == Len(t)
           Differ == {i \in Nat : i \in 1..n /\ i \in 1..m /\ s[i] # t[i]}
<1>1. /\ n \in Nat /\ m \in Nat /\ DOMAIN s = 1..n /\ DOMAIN t = 1..m
      /\ Cards(s) = {s[i] : i \in 1..n} /\ Cards(t) = {t[i] : i \in 1..m}
  BY CardTyped
<1>2. /\ c \in 0..Len(shoe) /\ e \in 0..Len(shoe) /\ Len(shoe) \in Nat
      /\ Cards(s) \cup Cards(others) = Upto(shoe, c) /\ Cards(s) \cap Cards(others) = {}
      /\ Cards(t) \cup Cards(others) = Upto(shoe, e) /\ Cards(t) \cap Cards(others) = {}
  BY CardTyped DEF Drawn
<1>3. Differ = {}
  <2> SUFFICES ASSUME Differ # {} PROVE FALSE
    OBVIOUS
  <2>1. PICK i \in Differ : \A j \in Differ : i <= j
    <3>1. Differ \subseteq Nat
      OBVIOUS
    <3> HIDE DEF Differ
    <3> QED BY <3>1, LeastNatural
  <2>2. i \in Nat /\ i \in 1..n /\ i \in 1..m /\ s[i] # t[i]
    OBVIOUS
  <2>3. \A j \in 1..n : j \in 1..m /\ j < i => s[j] = t[j]
    BY <1>1, <2>1
  <2> HIDE DEF Differ, n, m
  (* A card x of one hand at i that is in the other hand, which shows y    *)
  (* there, is refuted either way round.                                   *)
  <2>4. /\ \A j \in 1..n : j > i => ComesBefore(shoe, s[i], s[j])
        /\ \A j \in 1..n : j < i => ComesBefore(shoe, s[j], s[i])
        /\ \A j \in 1..m : j > i => ComesBefore(shoe, t[i], t[j])
        /\ \A j \in 1..m : j < i => ComesBefore(shoe, t[j], t[i])
    BY <2>2 DEF Drawn, InOrder, n, m
  <2>5. s[i] \in Cards(s) /\ t[i] \in Cards(t)
    BY <1>1, <2>2
  <2>6. \A x : ~ComesBefore(shoe, x, x)
    BY BeforeAsymmetric
  <2>7. ASSUME s[i] \in Cards(t) PROVE ComesBefore(shoe, t[i], s[i])
    <3>1. PICK j \in 1..m : t[j] = s[i]
      BY <1>1, <2>7
    <3>2. j # i
      BY <2>2, <3>1
    <3>3. ~(j < i)
      <4> SUFFICES ASSUME j < i PROVE FALSE
        OBVIOUS
      <4>1. j \in 1..n
        BY <1>1, <2>2
      <4>2. s[j] = t[j]
        BY <2>3, <4>1
      <4> QED BY <2>4, <2>6, <3>1, <4>1, <4>2
    <3>4. j > i
      BY <1>1, <2>2, <3>2, <3>3
    <3> QED BY <2>4, <3>1, <3>4
  <2>8. ASSUME t[i] \in Cards(s) PROVE ComesBefore(shoe, s[i], t[i])
    <3>1. PICK j \in 1..n : s[j] = t[i]
      BY <1>1, <2>8
    <3>2. j # i
      BY <2>2, <3>1
    <3>3. ~(j < i)
      <4> SUFFICES ASSUME j < i PROVE FALSE
        OBVIOUS
      <4>1. j \in 1..m
        BY <1>1, <2>2
      <4>2. s[j] = t[j]
        BY <2>3, <4>1
      <4> QED BY <2>4, <2>6, <3>1, <4>1, <4>2
    <3>4. j > i
      BY <1>1, <2>2, <3>2, <3>3
    <3> QED BY <2>4, <3>1, <3>4
  (* The one that came up first is on the other's table too.               *)
  <2>9. s[i] \in Upto(shoe, c) /\ t[i] \in Upto(shoe, e)
    BY <1>2, <2>5
  <2>10. s[i] \in Upto(shoe, e) => s[i] \in Cards(t)
    BY <1>2, <2>5
  <2>11. t[i] \in Upto(shoe, c) => t[i] \in Cards(s)
    BY <1>2, <2>5
  <2>12. s[i] \notin Upto(shoe, e) => ComesBefore(shoe, t[i], s[i])
    BY <1>2, <2>9, TableComesBefore
  <2>13. t[i] \notin Upto(shoe, c) => ComesBefore(shoe, s[i], t[i])
    BY <1>2, <2>9, TableComesBefore
  <2>14. ComesBefore(shoe, t[i], s[i]) /\ ComesBefore(shoe, s[i], t[i])
    BY <2>7, <2>8, <2>10, <2>11, <2>12, <2>13
  <2> QED BY <2>14, BeforeAsymmetric
<1>4. \A i \in Nat : i \in 1..n /\ i \in 1..m => s[i] = t[i]
  BY <1>3
<1> HIDE DEF Differ, n, m
<1>5. CASE n <= m
  <2>1. \A i \in 1..n : s[i] = t[i]
    BY <1>1, <1>4, <1>5
  <2> QED BY <1>1, <1>5, <2>1 DEF isPrefix, n, m
<1>6. CASE m <= n
  <2>1. \A i \in 1..m : t[i] = s[i]
    BY <1>1, <1>4, <1>6
  <2> QED BY <1>1, <1>6, <2>1 DEF isPrefix, n, m
<1> QED BY <1>1, <1>5, <1>6

-----------------------------------------------------------------------------
(* The deal and the dealer's hits *)

LEMMA FreshCard ==
    ASSUME NEW shoe \in CardSeqs, NEW cursor \in 0..Len(shoe), NEW used,
           used = Upto(shoe, cursor), Cards(shoe) # used
    PROVE  canDraw(shoe, used, cursor)
<1> DEFINE n == Len(shoe)
<1>1. n \in Nat /\ cursor \in 0..n /\ Cards(shoe) = {shoe[i] : i \in 1..n}
  BY CardTyped
<1> HIDE DEF n
<1>2. used \subseteq Cards(shoe)
  BY <1>1 DEF Upto
<1>3. PICK i \in 1..n : shoe[i] \notin used
  BY <1>1, <1>2
<1>4. ~(i \in 1..cursor)
  BY <1>3 DEF Upto
<1> DEFINE c == i - 1
<1>5. c \in cursor..(n - 1) /\ c + 1 = i
  BY <1>1, <1>3, <1>4
<1> HIDE DEF c
<1>6. \E k \in cursor..(n - 1) : shoe[k + 1] \notin used
  BY <1>3, <1>5
<1> QED BY <1>6 DEF canDraw, n

(* The stream after a draw: the table has one card more.                   *)
LEMMA NextUpto ==
    ASSUME NEW shoe \in CardSeqs, NEW cursor \in 0..Len(shoe), NEW used,
           used \subseteq Upto(shoe, cursor), Upto(shoe, cursor) \subseteq used,
           canDraw(shoe, used, cursor)
    PROVE  LET d == drawCard(shoe, used, cursor)
           IN  /\ d.card \in 0..51 /\ d.card \notin used
               /\ d.nextCursor \in 0..Len(shoe)
               /\ used \cup {d.card} = Upto(shoe, d.nextCursor)
<1> DEFINE n == Len(shoe)
           d == drawCard(shoe, used, cursor)
           card == d.card
           next == d.nextCursor
<1>1. n \in Nat /\ cursor \in 0..n
  BY CardTyped
<1>2. /\ next \in 1..n /\ cursor < next /\ card = shoe[next] /\ card \notin used /\ card \in 0..51
      /\ \A i \in 1..n : cursor < i /\ i < next => shoe[i] \in used
  <2>1. canDraw(shoe, used, cursor) /\ cursor \in 0..Len(shoe)
    OBVIOUS
  <2>2. /\ d.nextCursor \in 1..n /\ cursor < d.nextCursor
        /\ d.card = shoe[d.nextCursor] /\ d.card \notin used /\ d.card \in 0..51
        /\ \A i \in 1..n : cursor < i /\ i < d.nextCursor => shoe[i] \in used
    BY <2>1, DrawFinds, Zenon
  <2> HIDE DEF d
  <2> QED BY <2>2
<1>3. \A i \in 1..cursor : shoe[i] \in used
  BY DEF Upto
<1> HIDE DEF n, d, card, next
<1>4. \A i \in 1..next : i \in 1..cursor \/ i = next \/ (i \in 1..n /\ cursor < i /\ i < next)
  BY <1>1, <1>2
<1>5. Upto(shoe, next) \subseteq used \cup {card}
  BY <1>2, <1>3, <1>4 DEF Upto
<1>6. next \in 1..next /\ \A i \in 1..cursor : i \in 1..next
  BY <1>1, <1>2
<1>7. used \cup {card} \subseteq Upto(shoe, next)
  BY <1>2, <1>6 DEF Upto
<1>8. used \cup {card} = Upto(shoe, next)
  BY <1>5, <1>7
<1>9. next \in 0..n
  BY <1>1, <1>2
<1> QED BY <1>2, <1>8, <1>9 DEF card, next, d, n

LEMMA Pair ==
    ASSUME NEW x \in 0..51, NEW y \in 0..51
    PROVE  <<x, y>> \in CardSeqs /\ Cards(<<x, y>>) = {x, y}
<1> DEFINE p == <<x, y>>
<1>1. p \in CardSeqs /\ Len(p) = 2 /\ p[1] = x /\ p[2] = y
  BY DEF CardSeqs
<1> HIDE DEF p
<1>2. Cards(p) = {p[i] : i \in 1..2}
  BY <1>1, CardTyped
<1>3. Cards(p) = {x, y}
  BY <1>1, <1>2
<1> QED BY <1>1, <1>3 DEF p

LEMMA PairInOrder ==
    ASSUME NEW shoe, NEW x, NEW y, ComesBefore(shoe, x, y)
    PROVE  InOrder(shoe, <<x, y>>)
<1> DEFINE p == <<x, y>>
<1>1. Len(p) = 2 /\ p[1] = x /\ p[2] = y
  OBVIOUS
<1> HIDE DEF p
<1>2. \A i, j \in 1..2 : i < j => i = 1 /\ j = 2
  OBVIOUS
<1> QED BY <1>1, <1>2 DEF InOrder, p

(* Four different cards can be dealt from a seed that shows as many.       *)
LEMMA DealRight ==
    ASSUME NEW shoe \in CardSeqs, canDeal(shoe)
    PROVE  LET dealt == dealInitial(shoe)
           IN  /\ dealt.player \in CardSeqs /\ dealt.dealer \in CardSeqs
               /\ Drawn(shoe, dealt.player, dealt.dealer, dealt.cursor)
               /\ InOrder(shoe, dealt.dealer)
<1> DEFINE p1 == drawCard(shoe, {}, 0)
           d1 == drawCard(shoe, {p1.card}, p1.nextCursor)
           p2 == drawCard(shoe, {p1.card, d1.card}, d1.nextCursor)
           d2 == drawCard(shoe, {p1.card, d1.card, p2.card}, p2.nextCursor)
           u1 == {p1.card}
           u2 == {p1.card, d1.card}
           u3 == {p1.card, d1.card, p2.card}
           u4 == {p1.card, d1.card, p2.card, d2.card}
           n == Len(shoe)
<1>1. n \in Nat /\ Cardinality(Cards(shoe)) >= 4 /\ 0 \in 0..n
  BY CardTyped DEF canDeal
<1>2. /\ IsFiniteSet({}) /\ Cardinality({}) = 0
      /\ IsFiniteSet(u1) /\ Cardinality(u1) = 1
  BY FS_EmptySet, FS_Singleton
<1>3. IsFiniteSet(u2) /\ Cardinality(u2) \in {1, 2}
  <2>1. u2 = u1 \cup {d1.card}
    OBVIOUS
  <2> HIDE DEF u1, u2, d1
  <2> QED BY <1>2, <2>1, FS_AddElement
<1>4. IsFiniteSet(u3) /\ Cardinality(u3) \in {1, 2, 3}
  <2>1. u3 = u2 \cup {p2.card}
    OBVIOUS
  <2> HIDE DEF u2, u3, p2
  <2> QED BY <1>3, <2>1, FS_AddElement
<1>5. Cards(shoe) # {} /\ Cards(shoe) # u1 /\ Cards(shoe) # u2 /\ Cards(shoe) # u3
  <2> HIDE DEF u1, u2, u3
  <2> QED BY <1>1, <1>2, <1>3, <1>4
<1>6. /\ p1.card \in 0..51 /\ p1.nextCursor \in 0..n /\ u1 = Upto(shoe, p1.nextCursor)
  <2>1. {} = Upto(shoe, 0) /\ 0 \in 0..Len(shoe)
    BY <1>1 DEF Upto
  <2>2. canDraw(shoe, {}, 0)
    BY <1>5, <2>1, FreshCard
  <2>3. /\ p1.card \in 0..51 /\ p1.nextCursor \in 0..n
        /\ {} \cup {p1.card} = Upto(shoe, p1.nextCursor)
    BY <2>1, <2>2, NextUpto, Zenon
  <2> HIDE DEF p1
  <2> QED BY <2>3
<1>7. /\ d1.card \in 0..51 /\ d1.card \notin u1 /\ d1.nextCursor \in 0..n
      /\ u2 = Upto(shoe, d1.nextCursor)
  <2>1. canDraw(shoe, u1, p1.nextCursor)
    BY <1>5, <1>6, FreshCard
  <2>2. d1 = drawCard(shoe, u1, p1.nextCursor)
    OBVIOUS
  <2> HIDE DEF d1, u1, p1
  <2>3. /\ d1.card \in 0..51 /\ d1.card \notin u1 /\ d1.nextCursor \in 0..n
        /\ u1 \cup {d1.card} = Upto(shoe, d1.nextCursor)
    BY <1>6, <2>1, <2>2, NextUpto
  <2>4. u2 = u1 \cup {d1.card}
    BY DEF u1
  <2> QED BY <2>3, <2>4
<1>8. /\ p2.card \in 0..51 /\ p2.card \notin u2 /\ p2.nextCursor \in 0..n
      /\ u3 = Upto(shoe, p2.nextCursor)
  <2>1. canDraw(shoe, u2, d1.nextCursor)
    BY <1>5, <1>7, FreshCard
  <2>2. p2 = drawCard(shoe, u2, d1.nextCursor)
    OBVIOUS
  <2> HIDE DEF p2, u2, d1
  <2>3. /\ p2.card \in 0..51 /\ p2.card \notin u2 /\ p2.nextCursor \in 0..n
        /\ u2 \cup {p2.card} = Upto(shoe, p2.nextCursor)
    BY <1>7, <2>1, <2>2, NextUpto
  <2>4. u3 = u2 \cup {p2.card}
    BY DEF u2
  <2> QED BY <2>3, <2>4
<1>9. /\ d2.card \in 0..51 /\ d2.card \notin u3 /\ d2.nextCursor \in 0..n
      /\ u4 = Upto(shoe, d2.nextCursor)
  <2>1. canDraw(shoe, u3, p2.nextCursor)
    BY <1>5, <1>8, FreshCard
  <2>2. d2 = drawCard(shoe, u3, p2.nextCursor)
    OBVIOUS
  <2> HIDE DEF d2, u3, p2
  <2>3. /\ d2.card \in 0..51 /\ d2.card \notin u3 /\ d2.nextCursor \in 0..n
        /\ u3 \cup {d2.card} = Upto(shoe, d2.nextCursor)
    BY <1>8, <2>1, <2>2, NextUpto
  <2>4. u4 = u3 \cup {d2.card}
    BY DEF u3
  <2> QED BY <2>3, <2>4
<1>10. dealInitial(shoe) = [player |-> <<p1.card, p2.card>>, dealer |-> <<d1.card, d2.card>>,
                            cursor |-> d2.nextCursor]
  BY DEF dealInitial
<1> HIDE DEF p1, d1, p2, d2, n
<1> DEFINE dealt == dealInitial(shoe)
<1>11. /\ dealt.player = <<p1.card, p2.card>> /\ dealt.dealer = <<d1.card, d2.card>>
       /\ dealt.cursor = d2.nextCursor
  BY <1>10
<1> HIDE DEF dealt
<1>12. ComesBefore(shoe, p1.card, p2.card)
  BY <1>7, <1>8, TableComesBefore DEF n
<1>13. ComesBefore(shoe, d1.card, d2.card)
  BY <1>8, <1>9, TableComesBefore DEF n
<1>14. /\ dealt.player \in CardSeqs /\ dealt.dealer \in CardSeqs
       /\ InOrder(shoe, dealt.player) /\ InOrder(shoe, dealt.dealer)
       /\ Cards(dealt.player) = {p1.card, p2.card} /\ Cards(dealt.dealer) = {d1.card, d2.card}
  <2> DEFINE a == p1.card
             b == d1.card
             c == p2.card
             e == d2.card
  <2>1. a \in 0..51 /\ b \in 0..51 /\ c \in 0..51 /\ e \in 0..51
    BY <1>6, <1>7, <1>8, <1>9
  <2>2. ComesBefore(shoe, a, c) /\ ComesBefore(shoe, b, e)
    BY <1>12, <1>13
  <2>3. dealt.player = <<a, c>> /\ dealt.dealer = <<b, e>>
    BY <1>11
  <2> HIDE DEF a, b, c, e
  <2>4. <<a, c>> \in CardSeqs /\ Cards(<<a, c>>) = {a, c}
    BY <2>1, Pair, Zenon
  <2>5. <<b, e>> \in CardSeqs /\ Cards(<<b, e>>) = {b, e}
    BY <2>1, Pair, Zenon
  <2>6. InOrder(shoe, <<a, c>>) /\ InOrder(shoe, <<b, e>>)
    BY <2>2, PairInOrder, Zenon
  <2> QED BY <2>3, <2>4, <2>5, <2>6, Zenon DEF a, b, c, e
<1>15. Cards(dealt.player) \cup Cards(dealt.dealer) = Upto(shoe, dealt.cursor)
  BY <1>9, <1>11, <1>14
<1>16. Cards(dealt.player) \cap Cards(dealt.dealer) = {}
  BY <1>7, <1>8, <1>9, <1>14
<1> QED BY <1>9, <1>11, <1>14, <1>15, <1>16 DEF Drawn, dealt, n

(* The dealer's hits leave the table a beginning of the stream.            *)
LEMMA DealerPlays ==
    ASSUME NEW shoe \in CardSeqs, NEW dealer \in CardSeqs, NEW player \in CardSeqs, NEW cursor,
           Drawn(shoe, dealer, player, cursor)
    PROVE  LET cards == playDealer(shoe, dealer, player, cursor)
           IN  cards \in CardSeqs /\ \E e : Drawn(shoe, cards, player, e)
<1> DEFINE start == [cards |-> dealer, cursor |-> cursor]
           next(now) ==
             LET used == Cards(now.cards) \cup Cards(player)
                 draw == drawCard(shoe, used, now.cursor)
             IN  IF handValue(now.cards) < 17 /\ canDraw(shoe, used, now.cursor)
                 THEN [cards |-> Append(now.cards, draw.card), cursor |-> draw.nextCursor]
                 ELSE now
           isPlay(f, n) == f = [i \in 0..n |-> IF i = 0 THEN start ELSE next(f[i - 1])]
           played == CHOOSE f : isPlay(f, 10)
<1>1. playDealer(shoe, dealer, player, cursor) = played[10].cards
  BY DEF playDealer
<1> HIDE DEF next, start
<1>2. \E f : isPlay(f, 10)
  <2> DEFINE Bad == {n \in Nat : ~ \E f : isPlay(f, n)}
  <2> SUFFICES ASSUME Bad # {} PROVE FALSE
    OBVIOUS
  <2>1. PICK n \in Bad : \A y \in Bad : n <= y
    <3>1. Bad \subseteq Nat
      OBVIOUS
    <3> HIDE DEF Bad
    <3> QED BY <3>1, LeastNatural
  <2>2. n # 0
    <3>1. isPlay([i \in 0..0 |-> start], 0)
      OBVIOUS
    <3> HIDE DEF isPlay
    <3> QED BY <3>1
  <2>3. n - 1 \in Nat /\ n - 1 \notin Bad /\ n \in Nat
    <3>1. n \in Nat
      OBVIOUS
    <3> HIDE DEF Bad
    <3> QED BY <2>1, <2>2, <3>1
  <2>4. PICK f : isPlay(f, n - 1)
    BY <2>3
  <2> DEFINE g == [i \in 0..n |-> IF i = n THEN next(f[n - 1]) ELSE f[i]]
  <2>5. \A i \in 0..n : g[i] = IF i = 0 THEN start ELSE next(g[i - 1])
    <3> TAKE i \in 0..n
    <3>1. CASE i = n
      BY <2>2, <2>3, <3>1
    <3>2. CASE i # n
      <4>1. i \in 0..(n - 1)
        BY <2>3, <3>2
      <4>2. f[i] = IF i = 0 THEN start ELSE next(f[i - 1])
        BY <2>4, <4>1
      <4>3. i # 0 => i - 1 \in 0..n /\ i - 1 # n
        BY <4>1, <2>3
      <4> QED BY <3>2, <4>2, <4>3
    <3> QED BY <3>1, <3>2
  <2>6. isPlay(g, n)
    <3>1. g = [i \in 0..n |-> g[i]]
      OBVIOUS
    <3> HIDE DEF g
    <3> QED BY <2>5, <3>1
  <2> HIDE DEF isPlay, g
  <2> QED BY <2>6
<1>3. isPlay(played, 10)
  <2> HIDE DEF isPlay
  <2> QED BY <1>2
<1> HIDE DEF played
<1>4. \A i \in 0..10 : played[i] = IF i = 0 THEN start ELSE next(played[i - 1])
  BY <1>3
<1> HIDE DEF isPlay
<1> DEFINE Sound(now) == now.cards \in CardSeqs /\ Drawn(shoe, now.cards, player, now.cursor)
<1>5. Sound(start)
  BY DEF start
<1>6. ASSUME NEW now, Sound(now) PROVE Sound(next(now))
  <2> DEFINE used == Cards(now.cards) \cup Cards(player)
             draw == drawCard(shoe, used, now.cursor)
             more == Append(now.cards, draw.card)
  <2>1. next(now) = IF handValue(now.cards) < 17 /\ canDraw(shoe, used, now.cursor)
                    THEN [cards |-> more, cursor |-> draw.nextCursor]
                    ELSE now
    BY DEF next
  <2>2. CASE handValue(now.cards) < 17 /\ canDraw(shoe, used, now.cursor)
    <3>1. more \in CardSeqs /\ Drawn(shoe, more, player, draw.nextCursor)
      BY <1>6, <2>2, DrawnDraw, Zenon
    <3>2. next(now) = [cards |-> more, cursor |-> draw.nextCursor]
      BY <2>1, <2>2
    <3> HIDE DEF more, draw
    <3> QED BY <3>1, <3>2
  <2>3. CASE ~(handValue(now.cards) < 17 /\ canDraw(shoe, used, now.cursor))
    <3>1. next(now) = now
      BY <2>1, <2>3
    <3> HIDE DEF used
    <3> QED BY <1>6, <3>1
  <2> QED BY <2>2, <2>3
<1>7. \A i \in 0..10 : Sound(played[i])
  <2> HIDE DEF Sound
  <2> DEFINE Bad == {i \in 0..10 : ~Sound(played[i])}
  <2> SUFFICES ASSUME Bad # {} PROVE FALSE
    OBVIOUS
  <2>1. PICK i \in Bad : \A y \in Bad : i <= y
    <3>1. Bad \subseteq Nat
      OBVIOUS
    <3> HIDE DEF Bad
    <3> QED BY <3>1, LeastNatural
  <2>2. i \in 0..10 /\ ~Sound(played[i])
    OBVIOUS
  <2>3. CASE i = 0
    BY <1>4, <1>5, <2>2, <2>3
  <2>4. CASE i # 0
    <3>1. i - 1 \in 0..10 /\ ~(i <= i - 1)
      BY <2>2, <2>4
    <3>2. Sound(played[i - 1])
      BY <2>1, <3>1
    <3>3. played[i] = next(played[i - 1])
      BY <1>4, <2>2, <2>4
    <3> QED BY <1>6, <2>2, <3>2, <3>3
  <2> QED BY <2>3, <2>4
<1>8. Sound(played[10])
  BY <1>7
<1> QED BY <1>1, <1>8

-----------------------------------------------------------------------------
(* What a hand counts *)

LEMMA HardTotalNat ==
    ASSUME NEW cards \in CardSeqs
    PROVE  hardTotal(cards) \in Nat
<1> DEFINE f == [i \in 1..Len(cards) |-> worth(cards[i])]
<1>1. Len(cards) \in Nat /\ \A i \in 1..Len(cards) : cards[i] \in 0..51
  BY CardTyped
<1>2. \A c \in 0..51 : worth(c) \in Nat
  <2> TAKE c \in 0..51
  <2>1. rankOf(c) \in 0..12
    BY DEF rankOf
  <2> QED BY <2>1 DEF worth
<1>3. \A i \in 1..Len(cards) : f[i] \in Nat
  BY <1>1, <1>2
<1> HIDE DEF f
<1>4. SumTo(f, Len(cards)) \in Nat
  BY <1>1, <1>3, SumNat
<1> QED BY <1>4 DEF hardTotal, f

(* The aces turned among the first n cards: as many as there are, until    *)
(* the hand is no longer bust.                                             *)
turned(cards, need, n) ==
    LET seen == Cardinality(aces(cards) \cap 1..n) IN IF seen <= need THEN seen ELSE need

LEMMA AcesSeen ==
    ASSUME NEW cards \in CardSeqs
    PROVE  /\ Cardinality(aces(cards) \cap 1..0) = 0
           /\ \A n \in 1..Len(cards) :
                 /\ Cardinality(aces(cards) \cap 1..(n - 1)) \in Nat
                 /\ Cardinality(aces(cards) \cap 1..n) =
                       IF n \in aces(cards) THEN Cardinality(aces(cards) \cap 1..(n - 1)) + 1
                       ELSE Cardinality(aces(cards) \cap 1..(n - 1))
           /\ aces(cards) \cap 1..Len(cards) = aces(cards)
           /\ Cardinality(aces(cards)) \in Nat
<1> DEFINE A == aces(cards)
<1>1. Len(cards) \in Nat /\ A \subseteq 1..Len(cards)
  BY CardTyped DEF aces
<1> HIDE DEF A
<1>2. A \cap 1..0 = {}
  OBVIOUS
<1>3. Cardinality(A \cap 1..0) = 0
  BY <1>2, FS_EmptySet
<1>4. \A n \in Nat : IsFiniteSet(A \cap 1..n) /\ Cardinality(A \cap 1..n) \in Nat
  <2> TAKE n \in Nat
  <2>1. IsFiniteSet(1..n) /\ A \cap 1..n \in SUBSET (1..n)
    BY FS_Interval
  <2>2. IsFiniteSet(A \cap 1..n)
    BY <2>1, FS_Subset
  <2> QED BY <2>2, FS_CardinalityType
<1>5. ASSUME NEW n \in 1..Len(cards)
      PROVE  /\ Cardinality(A \cap 1..(n - 1)) \in Nat
             /\ Cardinality(A \cap 1..n) =
                   IF n \in A THEN Cardinality(A \cap 1..(n - 1)) + 1
                   ELSE Cardinality(A \cap 1..(n - 1))
  <2> DEFINE T == A \cap 1..(n - 1)
             U == A \cap 1..n
  <2>1. n - 1 \in Nat
    BY <1>1
  <2>2. IsFiniteSet(T) /\ Cardinality(T) \in Nat
    BY <1>4, <2>1
  <2>3. n \notin T /\ (n \in A => U = T \cup {n}) /\ (n \notin A => U = T)
    BY <1>1
  <2> HIDE DEF T, U
  <2>4. Cardinality(U) = IF n \in A THEN Cardinality(T) + 1 ELSE Cardinality(T)
    BY <2>2, <2>3, FS_AddElement
  <2> QED BY <2>2, <2>4 DEF T, U
<1>6. A \cap 1..Len(cards) = A
  BY <1>1
<1>7. Cardinality(A) \in Nat
  BY <1>1, <1>4, <1>6
<1> QED BY <1>3, <1>5, <1>6, <1>7 DEF A

LEMMA HandCountsBest ==
    ASSUME NEW cards \in CardSeqs
    PROVE  /\ handValue(cards) \in totals(cards)
           /\ \A t \in totals(cards) : t <= 21 => handValue(cards) \in t..21
<1> DEFINE len == Len(cards)
           hard == hardTotal(cards)
           need == IF hard <= 21 THEN 0 ELSE (hard - 12) \div 10
           All == Cardinality(aces(cards))
           after(n) == hard - 10 * turned(cards, need, n)
           next(value, n) == IF value > 21 /\ (n \in aces(cards)) THEN value - 10 ELSE value
           isSoft(f) == f = [n \in 0..len |-> IF n = 0 THEN hard ELSE next(f[n - 1], n)]
           soft == CHOOSE f : isSoft(f)
<1>1. len \in Nat /\ hard \in Nat
  BY CardTyped, HardTotalNat
<1>2. handValue(cards) = soft[len]
  BY DEF handValue
<1> HIDE DEF hard
<1>3. /\ need \in Nat /\ hard - 10 * need <= 21
      /\ \A k \in Nat : hard - 10 * k <= 21 => need <= k
  BY <1>1
<1> HIDE DEF need
<1>4. turned(cards, need, 0) = 0
  BY <1>3, AcesSeen DEF turned
<1>5. ASSUME NEW n \in 1..len
      PROVE  after(n) = next(after(n - 1), n)
  <2> DEFINE s == Cardinality(aces(cards) \cap 1..(n - 1))
             u == Cardinality(aces(cards) \cap 1..n)
  <2>1. s \in Nat /\ u = IF n \in aces(cards) THEN s + 1 ELSE s
    BY <1>5, AcesSeen
  <2>2. /\ turned(cards, need, n - 1) = IF s <= need THEN s ELSE need
        /\ turned(cards, need, n) = IF u <= need THEN u ELSE need
    BY DEF turned
  <2> HIDE DEF s, u
  <2>3. (after(n - 1) > 21) <=> s < need
    BY <1>1, <1>3, <2>1, <2>2
  <2> DEFINE a == turned(cards, need, n - 1)
             b == turned(cards, need, n)
  <2>4. a \in Nat /\ b = IF s < need /\ n \in aces(cards) THEN a + 1 ELSE a
    BY <1>3, <2>1, <2>2
  <2> HIDE DEF a, b
  <2>5. after(n - 1) = hard - 10 * a /\ after(n) = hard - 10 * b
    BY DEF a, b
  <2> QED BY <1>1, <2>3, <2>4, <2>5
<1>6. after(0) = hard
  BY <1>1, <1>4
<1> HIDE DEF after, next
<1>7. isSoft([n \in 0..len |-> after(n)])
  <2> DEFINE g == [n \in 0..len |-> after(n)]
  <2>1. \A n \in 0..len : g[n] = IF n = 0 THEN hard ELSE next(g[n - 1], n)
    <3> TAKE n \in 0..len
    <3>1. CASE n = 0
      BY <1>6, <3>1
    <3>2. CASE n # 0
      <4>1. n \in 1..len /\ n - 1 \in 0..len
        BY <1>1, <3>2
      <4> QED BY <1>5, <3>2, <4>1
    <3> QED BY <3>1, <3>2
  <2>2. g = [n \in 0..len |-> g[n]]
    OBVIOUS
  <2> HIDE DEF g
  <2>3. isSoft(g)
    BY <2>1, <2>2
  <2> QED BY <2>3 DEF g
<1>8. isSoft(soft)
  <2> HIDE DEF isSoft
  <2> QED BY <1>7
<1> HIDE DEF soft
<1>9. \A n \in 0..len : soft[n] = IF n = 0 THEN hard ELSE next(soft[n - 1], n)
  BY <1>8
<1> HIDE DEF isSoft, len
<1>10. \A n \in 0..len : soft[n] = after(n)
  <2> DEFINE Bad == {n \in 0..len : soft[n] # after(n)}
  <2> SUFFICES ASSUME Bad # {} PROVE FALSE
    OBVIOUS
  <2>1. PICK n \in Bad : \A y \in Bad : n <= y
    <3>1. Bad \subseteq Nat
      OBVIOUS
    <3> HIDE DEF Bad
    <3> QED BY <3>1, LeastNatural
  <2>2. n \in 0..len /\ soft[n] # after(n)
    OBVIOUS
  <2>3. n # 0
    BY <1>6, <1>9, <2>2
  <2>4. n \in 1..len /\ n - 1 \in 0..len /\ ~(n <= n - 1)
    BY <1>1, <2>2, <2>3
  <2>5. soft[n - 1] = after(n - 1)
    BY <2>1, <2>4
  <2> QED BY <1>5, <1>9, <2>2, <2>3, <2>4, <2>5
<1>11. All \in Nat /\ turned(cards, need, len) = IF All <= need THEN All ELSE need
  BY AcesSeen DEF turned, len
<1> DEFINE value == handValue(cards)
<1>12. value = hard - 10 * (IF All <= need THEN All ELSE need)
  <2>1. soft[len] = after(len)
    BY <1>1, <1>10
  <2> QED BY <1>2, <1>11, <2>1 DEF after
<1> HIDE DEF value, All
<1>13. totals(cards) = {hard - 10 * n : n \in 0..All}
  BY DEF totals, hard, All
<1>14. (IF All <= need THEN All ELSE need) \in 0..All
  BY <1>3, <1>11
<1>15. value \in totals(cards)
  BY <1>12, <1>13, <1>14
<1>16. ASSUME NEW n \in 0..All, hard - 10 * n <= 21
       PROVE  value \in (hard - 10 * n)..21
  <2>1. need <= n
    BY <1>3, <1>11, <1>16
  <2>2. value = hard - 10 * need
    BY <1>3, <1>11, <1>12, <2>1
  <2> QED BY <1>1, <1>3, <1>11, <2>1, <2>2
<1>17. \A t \in totals(cards) : t <= 21 => value \in t..21
  BY <1>13, <1>16
<1> QED BY <1>15, <1>17 DEF value

-----------------------------------------------------------------------------
(* The records of a hand *)

LEMMA BlankRecords ==
    /\ <<>> \in CardSeqs
    /\ NoHand \in HandStates /\ NoRow \in RowStates /\ NoRequest \in RequestStates
    /\ NoHand.status = "None" /\ NoRow.status = "None" /\ ~NoRow.confirmed
    /\ NoRow.player = <<>> /\ NoRow.dealer = <<>> /\ NoHand.player = <<>>
    /\ NoRequest.pc = "Idle" /\ NoRequest.player = <<>> /\ NoRequest.told = "Nothing"
    /\ NoRequest.action = "None"
<1>1. <<>> \in CardSeqs
  BY DEF CardSeqs
<1>2. NoHand \in HandStates
  BY <1>1 DEF NoHand, HandStates
<1>3. NoRow \in RowStates
  BY <1>1 DEF NoRow, RowStates
<1>4. NoRequest \in RequestStates
  BY <1>1, <1>2 DEF NoRequest, RequestStates, Closing
<1> QED BY <1>1, <1>2, <1>3, <1>4 DEF NoHand, NoRow, NoRequest

Told == {"Nothing", "player_turn", "resolved", "Error", "Conflict"}

LEMMA Answered ==
    ASSUME NEW r \in RequestStates, NEW told \in Told, NEW seq \in Nat, NEW cards \in CardSeqs
    PROVE  LET a == answered(r, told, seq, cards)
           IN  a \in RequestStates /\ a.pc = "Done" /\ a.told = told /\ a.player = cards
<1> DEFINE next == IF r.claimed THEN r.seq ELSE seq
           a == answered(r, told, seq, cards)
<1>1. next \in Nat /\ r.action \in {"None", "deal", "hit", "stand"} /\ r.claimed \in BOOLEAN
  BY DEF RequestStates
<1>2. a = [NoRequest EXCEPT !.pc = "Done", !.action = r.action, !.claimed = r.claimed,
                            !.told = told, !.seq = next, !.player = cards]
  BY DEF answered
<1> HIDE DEF next, a
<1>3. a = [pc |-> "Done", action |-> r.action, seq |-> next, claimed |-> r.claimed,
           seen |-> NoHand, player |-> cards, dealer |-> <<>>, cursor |-> 0, asked |-> 0,
           paid |-> 0, confirmed |-> FALSE, told |-> told]
  BY <1>2 DEF NoRequest
<1>4. a \in RequestStates
  BY <1>1, <1>3, BlankRecords DEF RequestStates, Told, Closing
<1> QED BY <1>3, <1>4 DEF a

LEMMA AnsweredHolds ==
    ASSUME NEW shoe, NEW r \in RequestStates, NEW told \in Told, NEW seq \in Nat,
           NEW cards \in CardSeqs, cards = <<>> \/ OnLine(shoe, cards), NEW stake
    PROVE  LET a == answered(r, told, seq, cards)
           IN  HoldsLine(a, shoe) /\ ClosesRight(a, stake)
<1> DEFINE a == answered(r, told, seq, cards)
<1>1. a.pc = "Done" /\ a.player = cards
  BY Answered
<1> HIDE DEF a
<1>2. HoldsLine(a, shoe) /\ ClosesRight(a, stake)
  BY <1>1 DEF HoldsLine, ClosesRight, Closing
<1> QED BY <1>2 DEF a

LEMMA HandBetPlaced == HandBet \in BetIds /\ Requests \subseteq Nat
BY BlackjackAssumption, HouseAssumption DEF HandBet, BetIds, Requests

LEMMA PayoutNat ==
    ASSUME StakeTypeOK,
           NEW outcome \in {"dealer_win", "push", "player_blackjack", "player_win"}
    PROVE  payoutOf(outcome) \in Nat
<1> DEFINE a == bets[HandBet].amount
           m == multiplierX100[outcome]
<1>1. a \in Nat
  BY HandBetPlaced DEF StakeTypeOK, StakeStates
<1>2. m \in Nat
  BY DEF multiplierX100
<1> HIDE DEF a, m
<1>3. a * m \in Nat
  BY <1>1, <1>2, ProductNat
<1> DEFINE x == a * m
<1> HIDE DEF x
<1>4. x \div 100 \in Nat
  BY <1>3 DEF x
<1> QED BY <1>4 DEF x, payoutOf, a, m

LEMMA Outcomes ==
    ASSUME NEW player, NEW dealer
    PROVE  evaluateHand(player, dealer) \in
              {"dealer_win", "push", "player_blackjack", "player_win"}
<1>1. isBust(player) \/ (~isBust(player) /\ isNaturalBlackjack(player))
      \/ (~isBust(player) /\ ~isNaturalBlackjack(player))
  OBVIOUS
<1> QED BY <1>1 DEF evaluateHand

(* finishBlackjackHand up to its first await: it closes a hand that was    *)
(* played from the table it is called with, or throws.                     *)
LEMMA FinishingRight ==
    ASSUME StakeTypeOK, NEW r \in RequestStates, NEW shoe \in CardSeqs, NEW player \in CardSeqs,
           NEW cursor, dealtDealer(shoe) \in CardSeqs, InOrder(shoe, dealtDealer(shoe)),
           Drawn(shoe, player, dealtDealer(shoe), cursor), NEW stake
    PROVE  LET f == finishing(r, shoe, player, dealtDealer(shoe), cursor)
           IN  /\ f \in RequestStates /\ HoldsLine(f, shoe) /\ ClosesRight(f, stake)
<1> DEFINE dealer == dealtDealer(shoe)
           played == IF isBust(player) THEN dealer ELSE playDealer(shoe, dealer, player, cursor)
           outcome == evaluateHand(player, played)
           next == IF outcome = "player_blackjack" THEN "Gating" ELSE "Submitting"
           asked == payoutOf(outcome)
           goesOn == [r EXCEPT !.pc = next, !.player = player, !.dealer = played,
                               !.asked = asked, !.seen = NoHand]
           f == finishing(r, shoe, player, dealtDealer(shoe), cursor)
<1> SUFFICES f \in RequestStates /\ HoldsLine(f, shoe) /\ ClosesRight(f, stake)
  OBVIOUS
<1>1. f = IF ~isBust(player) /\ handValue(played) < 17
          THEN answered(r, "Error", 0, <<>>) ELSE goesOn
  BY DEF finishing
<1>2. Drawn(shoe, dealer, player, cursor)
  <2>1. Cards(player) \cup Cards(dealer) = Upto(shoe, cursor)
        /\ Cards(player) \cap Cards(dealer) = {} /\ cursor \in 0..Len(shoe)
    BY DEF Drawn
  <2> HIDE DEF dealer
  <2> QED BY <2>1 DEF Drawn, dealer
<1>3. played \in CardSeqs /\ \E e : Drawn(shoe, played, player, e)
  <2>1. CASE isBust(player)
    BY <1>2, <2>1
  <2>2. CASE ~isBust(player)
    <3> HIDE DEF dealer
    <3>1. dealer \in CardSeqs
      BY DEF dealer
    <3> DEFINE cards == playDealer(shoe, dealer, player, cursor)
    <3>2. cards \in CardSeqs /\ \E e : Drawn(shoe, cards, player, e)
      BY <1>2, <3>1, DealerPlays
    <3>3. played = cards
      BY <2>2
    <3> HIDE DEF cards, played
    <3> QED BY <3>2, <3>3
  <2> QED BY <2>1, <2>2
<1> HIDE DEF f, played
<1>4. Played(shoe, player, played)
  <2>1. OnLine(shoe, player)
    BY DEF OnLine, Drawn
  <2>2. InOrder(shoe, played) /\ Cards(player) \cap Cards(played) = {}
    BY <1>3 DEF Drawn
  <2> QED BY <2>1, <2>2 DEF Played
<1>5. asked \in Nat /\ next \in {"Gating", "Submitting"}
  <2>1. outcome \in {"dealer_win", "push", "player_blackjack", "player_win"}
    BY Outcomes
  <2> HIDE DEF outcome
  <2> QED BY <2>1, PayoutNat
<1>6. CASE f = goesOn
  <2> HIDE DEF next, asked
  <2>1. goesOn.pc = next /\ goesOn.player = player /\ goesOn.dealer = played
    BY DEF RequestStates
  <2>2. goesOn \in RequestStates
    BY <1>3, <1>5, BlankRecords DEF RequestStates, Closing
  <2> HIDE DEF goesOn
  <2>3. HoldsLine(goesOn, shoe) /\ ClosesRight(goesOn, stake)
    BY <1>4, <1>5, <2>1 DEF HoldsLine, ClosesRight, Closing, Played
  <2> QED BY <1>6, <2>2, <2>3
<1>7. CASE f = answered(r, "Error", 0, <<>>)
  <2>1. /\ answered(r, "Error", 0, <<>>) \in RequestStates
        /\ HoldsLine(answered(r, "Error", 0, <<>>), shoe)
        /\ ClosesRight(answered(r, "Error", 0, <<>>), stake)
    BY BlankRecords, Answered, AnsweredHolds DEF Told
  <2> QED BY <1>7, <2>1
<1> HIDE DEF goesOn
<1> QED BY <1>1, <1>6, <1>7

-----------------------------------------------------------------------------
(* What a step of one request keeps *)

LEMMA RequestMoved ==
    ASSUME HandTypeOK, NEW q \in Requests, NEW r, becomes(q, r)
    PROVE  requests'[q] = r /\ \A p \in Requests : p # q => requests'[p] = requests[p]
BY DEF HandTypeOK, becomes

LEMMA MovedTyped ==
    ASSUME HandTypeOK, StakeTypeOK', hand' \in HandStates, row' \in RowStates, faults' \in Nat,
           NEW q \in Requests, NEW r \in RequestStates, becomes(q, r)
    PROVE  HandTypeOK'
<1>1. requests' \in [Requests -> RequestStates]
  BY DEF HandTypeOK, becomes
<1> QED BY <1>1 DEF HandTypeOK

(* The line of a dealt hand is fixed: only the mover's own cards matter.   *)
LEMMA LineKept ==
    ASSUME HandTypeOK, LineInv, hand.status # "None", hand'.status # "None",
           hand'.shoe = hand.shoe, HandRight(hand'), RowRight(row', hand.shoe),
           NEW q \in Requests, NEW r, becomes(q, r), HoldsLine(r, hand.shoe)
    PROVE  LineInv'
<1>1. \A p \in Requests : HoldsLine(requests[p], hand.shoe)
  BY DEF LineInv
<1>2. \A p \in Requests : HoldsLine(requests'[p], hand'.shoe)
  BY <1>1, RequestMoved
<1>3. HandRight(hand') /\ RowRight(row', hand'.shoe)
  OBVIOUS
<1> QED BY <1>2, <1>3 DEF LineInv

LEMMA BlankKept ==
    ASSUME HandTypeOK, LineInv, hand.status = "None", UNCHANGED <<hand, row>>,
           NEW q \in Requests, NEW r, becomes(q, r), Blank(r)
    PROVE  LineInv'
<1>1. hand = NoHand /\ row = NoRow /\ \A p \in Requests : Blank(requests[p])
  BY DEF LineInv
<1>2. \A p \in Requests : Blank(requests'[p])
  BY <1>1, RequestMoved
<1> QED BY <1>1, <1>2, BlankRecords DEF LineInv

(* A request that closes nothing leaves the hand's stake, its result and   *)
(* the requests that are closing it as they were.                          *)
LEMMA StakeKept ==
    ASSUME HandTypeOK, StakeInv, UNCHANGED <<bets, row>>, hand'.status = hand.status,
           faults' = 0 => faults = 0,
           NEW q \in Requests, NEW r, becomes(q, r), ClosesRight(r, bets[HandBet]),
           faults' = 0 /\ requests[q].pc = "Persisting" => r.pc = "Persisting"
    PROVE  StakeInv'
<1>1. requests'[q] = r /\ \A p \in Requests : p # q => requests'[p] = requests[p]
  BY RequestMoved
<1>2. \A p \in Requests : ClosesRight(requests[p], bets[HandBet])
  BY DEF StakeInv
<1>3. \A p \in Requests : ClosesRight(requests'[p], bets'[HandBet])
  BY <1>1, <1>2
<1>4. (\E p \in Requests : requests[p].pc = "Persisting") /\ faults' = 0
        => \E p \in Requests : requests'[p].pc = "Persisting"
  BY <1>1
<1>5. HandFollowsBet'
  BY <1>4 DEF StakeInv, HandFollowsBet
<1>6. (row.confirmed => hand.status = "resolved")'
  BY DEF StakeInv
<1> QED BY <1>3, <1>5, <1>6 DEF StakeInv

LEMMA Moved ==
    ASSUME BlackjackInv, UNCHANGED <<houseVars, hand, row>>, faults' \in Nat,
           faults' = 0 => faults = 0,
           NEW q \in Requests, NEW r \in RequestStates, becomes(q, r),
           hand.status = "None" => Blank(r),
           hand.status # "None" => HoldsLine(r, hand.shoe),
           ClosesRight(r, bets[HandBet]),
           faults' = 0 /\ requests[q].pc = "Persisting" => r.pc = "Persisting"
    PROVE  BlackjackInv'
<1>1. HandTypeOK /\ LineInv /\ StakeInv
  BY DEF BlackjackInv
<1>2. StakeTypeOK'
  BY <1>1 DEF HandTypeOK, StakeTypeOK, houseVars
<1>3. HandTypeOK'
  BY <1>1, <1>2, MovedTyped DEF HandTypeOK
<1>4. LineInv'
  <2>1. CASE hand.status = "None"
    BY <1>1, <2>1, BlankKept
  <2>2. CASE hand.status # "None"
    <3>1. HandRight(hand) /\ RowRight(row, hand.shoe) /\ HoldsLine(r, hand.shoe)
      BY <1>1, <2>2 DEF LineInv
    <3> QED BY <1>1, <2>2, <3>1, LineKept
  <2> QED BY <2>1, <2>2
<1>5. StakeInv'
  BY <1>1, StakeKept DEF houseVars
<1> QED BY <1>3, <1>4, <1>5 DEF BlackjackInv

LEMMA RequestKnown ==
    ASSUME HandTypeOK, NEW q \in Requests
    PROVE  requests[q] \in RequestStates
BY DEF HandTypeOK

LEMMA AnswerMoved ==
    ASSUME BlackjackInv, UNCHANGED <<houseVars, hand, row>>, faults' \in Nat,
           faults' = 0 => faults = 0,
           NEW q \in Requests, requests[q].pc # "Persisting" \/ faults' # 0,
           NEW told \in Told, told # "player_turn" \/ hand.status # "None",
           NEW seq \in Nat, NEW cards \in {<<>>, hand.player},
           becomes(q, answered(requests[q], told, seq, cards))
    PROVE  BlackjackInv'
<1> DEFINE r == answered(requests[q], told, seq, cards)
<1>1. HandTypeOK /\ LineInv
  BY DEF BlackjackInv
<1>2. cards \in CardSeqs /\ requests[q] \in RequestStates
  BY <1>1, RequestKnown, BlankRecords DEF HandTypeOK, HandStates
<1>3. r \in RequestStates /\ r.pc = "Done" /\ r.told = told /\ r.player = cards
  BY <1>2, Answered
<1>4. hand.status = "None" => Blank(r)
  <2>1. hand.status = "None" => cards = <<>>
    BY <1>1, BlankRecords DEF LineInv
  <2> QED BY <1>3, <2>1 DEF Blank
<1>5. ClosesRight(r, bets[HandBet])
  BY <1>3 DEF ClosesRight
<1>6. hand.status # "None" => HoldsLine(r, hand.shoe)
  <2>1. hand.status # "None" => OnLine(hand.shoe, hand.player)
    BY <1>1 DEF LineInv, HandRight, OnLine, Drawn
  <2> HIDE DEF r
  <2> QED BY <1>3, <2>1 DEF HoldsLine, Closing
<1>7. becomes(q, r)
  OBVIOUS
<1> HIDE DEF r
<1> QED BY <1>3, <1>4, <1>5, <1>6, <1>7, Moved

-----------------------------------------------------------------------------
(* The steps of a hand, one by one *)

LEMMA BlackjackInitInv == BlackjackInit => BlackjackInv
<1> SUFFICES ASSUME BlackjackInit PROVE BlackjackInv
  OBVIOUS
<1>1. hand = NoHand /\ row = NoRow /\ requests = [q \in Requests |-> NoRequest] /\ faults = 0
  BY DEF BlackjackInit
<1>2. \A b \in BetIds : bets[b] = NoBet
  BY DEF BlackjackInit, HouseInit
<1>3. StakeTypeOK
  <2>1. NoBet \in StakeStates
    BY DEF NoBet, StakeStates
  <2> QED BY <2>1, HouseAssumption DEF BlackjackInit, HouseInit, StakeTypeOK
<1>4. HandTypeOK
  BY <1>1, <1>3, BlankRecords DEF HandTypeOK
<1>5. \A q \in Requests : Blank(requests[q])
  BY <1>1, BlankRecords DEF Blank
<1>6. LineInv
  BY <1>1, <1>5, BlankRecords DEF LineInv
<1>7. \A q \in Requests : ClosesRight(requests[q], bets[HandBet])
  BY <1>5 DEF Blank, ClosesRight
<1>8. bets[HandBet].status = "None"
  BY <1>2, HandBetPlaced DEF NoBet
<1>9. StakeInv
  BY <1>1, <1>7, <1>8, BlankRecords DEF StakeInv, HandFollowsBet
<1> QED BY <1>4, <1>6, <1>9 DEF BlackjackInv

LEMMA BankrollInv ==
    ASSUME BlackjackInv, bankrollMoves
    PROVE  BlackjackInv'
<1>1. HandTypeOK /\ LineInv /\ StakeInv /\ UNCHANGED <<hand, row, requests, faults>>
  BY DEF BlackjackInv, bankrollMoves, handVars
<1>2. /\ usdc \in Nat /\ totalPendingExposure \in Nat /\ bets \in [BetIds -> StakeStates]
      /\ maxMultiplierX100 \in [Games -> Nat]
  BY <1>1 DEF HandTypeOK, StakeTypeOK
<1>3. /\ StakeTypeOK'
      /\ bets'[HandBet] = bets[HandBet]
         \/ (bets[HandBet].status = "None" /\ bets'[HandBet].status = "Placed")
  <2>1. CASE \E a \in StakeChoices, g \in Games : placeCasinoBet(HandBet, a, g)
    <3>1. PICK a \in StakeChoices, g \in Games : placeCasinoBet(HandBet, a, g)
      BY <2>1
    <3> DEFINE x == a * maxMultiplierX100[g]
               reserved == x \div 100
               placed == [status |-> "Placed", game |-> g, amount |-> a,
                          payout |-> 0, reservedExposure |-> reserved]
    <3>2. a \in Nat /\ maxMultiplierX100[g] \in Nat
      BY <1>2, HouseAssumption
    <3>3. x \in Nat
      BY <3>2, ProductNat
    <3>4. reserved \in Nat
      <4> HIDE DEF x
      <4> QED BY <3>3
    <3>5. /\ bets[HandBet].status = "None" /\ bets' = [bets EXCEPT ![HandBet] = placed]
          /\ usdc' = usdc + a /\ totalPendingExposure' = totalPendingExposure + reserved
          /\ maxMultiplierX100' = maxMultiplierX100
      BY <3>1 DEF placeCasinoBet
    <3> HIDE DEF reserved, x
    <3>6. placed \in StakeStates /\ placed.status = "Placed"
      BY <3>2, <3>4 DEF StakeStates
    <3> HIDE DEF placed
    <3>7. bets' \in [BetIds -> StakeStates] /\ bets'[HandBet] = placed
      BY <1>2, <3>5, <3>6, HandBetPlaced
    <3>8. usdc' \in Nat /\ totalPendingExposure' \in Nat
      BY <1>2, <3>2, <3>4, <3>5
    <3> QED BY <1>2, <3>5, <3>6, <3>7, <3>8 DEF StakeTypeOK
  <2>2. CASE \E a \in BankrollChoices : depositBankroll(a)
    BY <1>2, <2>2, HouseAssumption DEF depositBankroll, StakeTypeOK
  <2>3. CASE \E a \in BankrollChoices : withdrawBankroll(a)
    <3>1. PICK a \in BankrollChoices : withdrawBankroll(a)
      BY <2>3
    <3>2. a \in Nat /\ a # 0 /\ a <= Excess(usdc, totalPendingExposure) /\ usdc' = usdc - a
      BY <3>1, HouseAssumption DEF withdrawBankroll
    <3>3. usdc' \in Nat
      BY <1>2, <3>2 DEF Excess
    <3> QED BY <1>2, <3>1, <3>3 DEF withdrawBankroll, StakeTypeOK
  <2> QED BY <2>1, <2>2, <2>3 DEF bankrollMoves
<1>4. HandTypeOK'
  BY <1>1, <1>3 DEF HandTypeOK
<1>5. LineInv'
  BY <1>1 DEF LineInv
<1>6. \A p \in Requests : ClosesRight(requests'[p], bets'[HandBet])
  <2>1. \A p \in Requests : ClosesRight(requests[p], bets[HandBet])
    BY <1>1 DEF StakeInv
  <2> QED BY <1>1, <1>3, <2>1 DEF ClosesRight
<1>7. HandFollowsBet'
  <2>1. row.confirmed => bets[HandBet].status = "Settled"
    BY <1>1 DEF StakeInv, HandFollowsBet
  <2>2. HandFollowsBet
    BY <1>1 DEF StakeInv
  <2> QED BY <1>1, <1>3, <2>1, <2>2 DEF HandFollowsBet
<1>8. StakeInv'
  BY <1>1, <1>6, <1>7 DEF StakeInv
<1> QED BY <1>4, <1>5, <1>8 DEF BlackjackInv

LEMMA AskDealInv ==
    ASSUME BlackjackInv, NEW q \in Requests, askDeal(q)
    PROVE  BlackjackInv'
<1> DEFINE r == [NoRequest EXCEPT !.pc = "Reading", !.action = "deal"]
<1>1. /\ HandTypeOK /\ UNCHANGED <<houseVars, hand, row, faults>> /\ becomes(q, r)
      /\ requests[q].pc = "Idle"
  BY DEF BlackjackInv, askDeal, nextRequest
<1>2. r \in RequestStates
  BY BlankRecords DEF RequestStates
<1>3. r.pc = "Reading" /\ r.action = "deal" /\ r.player = <<>> /\ r.told = "Nothing"
  BY DEF NoRequest
<1> HIDE DEF r
<1>4. Blank(r) /\ HoldsLine(r, hand.shoe) /\ ClosesRight(r, bets[HandBet])
  BY <1>3 DEF Blank, HoldsLine, ClosesRight, Closing
<1>5. faults' = faults /\ faults' \in Nat
  BY <1>1 DEF HandTypeOK
<1> QED BY <1>1, <1>2, <1>4, <1>5, Moved

(* A request that holds nothing but its cards after the step.              *)
LEMMA OnlyCards ==
    ASSUME LineInv, hand.status # "None", NEW q \in Requests, NEW r,
           r.player = requests[q].player, r.pc \notin {"Claiming", "Saving"} \cup Closing
    PROVE  HoldsLine(r, hand.shoe)
BY DEF LineInv, HoldsLine

LEMMA ResumeInv ==
    ASSUME BlackjackInv, NEW q \in Requests, resumeOrDeal(q)
    PROVE  BlackjackInv'
<1>1. /\ HandTypeOK /\ LineInv /\ UNCHANGED <<houseVars, hand, row, faults>>
      /\ requests[q].pc = "Reading" /\ requests[q] \in RequestStates
      /\ faults' = faults /\ faults' \in Nat
  BY RequestKnown DEF BlackjackInv, resumeOrDeal, HandTypeOK
<1>2. CASE hand.status # "None"
  <2>1. becomes(q, answered(requests[q], hand.status, hand.actionSeq, hand.player))
    BY <1>2 DEF resumeOrDeal, shownAs
  <2>2. hand.status \in Told /\ hand.actionSeq \in Nat
    BY <1>1, <1>2 DEF HandTypeOK, HandStates, Told
  <2> QED BY <1>1, <1>2, <2>1, <2>2, AnswerMoved
<1>3. CASE hand.status = "None"
  <2> DEFINE r == [requests[q] EXCEPT !.pc = "Dealing"]
  <2>1. becomes(q, r)
    BY <1>3 DEF resumeOrDeal
  <2>2. r \in RequestStates
    BY <1>1 DEF RequestStates
  <2>3. r.pc = "Dealing" /\ r.player = requests[q].player /\ r.told = requests[q].told
    BY <1>1 DEF RequestStates
  <2> HIDE DEF r
  <2>4. Blank(r)
    BY <1>1, <1>3, <2>3 DEF LineInv, Blank
  <2>5. ClosesRight(r, bets[HandBet])
    BY <2>3 DEF ClosesRight
  <2> QED BY <1>1, <1>3, <2>1, <2>2, <2>4, <2>5, Moved
<1> QED BY <1>2, <1>3

LEMMA AskActionInv ==
    ASSUME BlackjackInv, NEW q \in Requests, NEW action \in {"hit", "stand"},
           askAction(q, action)
    PROVE  BlackjackInv'
<1>1. PICK p \in Requests :
         /\ requests[p].told = "player_turn"
         /\ becomes(q, [NoRequest EXCEPT !.pc = "Reading", !.action = action,
                                         !.seq = toldSeq(requests[p])])
  BY DEF askAction
<1>2. /\ HandTypeOK /\ LineInv /\ UNCHANGED <<houseVars, hand, row, faults>>
      /\ requests[q].pc = "Idle" /\ requests[p] \in RequestStates
      /\ faults' = faults /\ faults' \in Nat
  BY RequestKnown DEF BlackjackInv, askAction, nextRequest, HandTypeOK
<1> DEFINE seq == toldSeq(requests[p])
           r == [NoRequest EXCEPT !.pc = "Reading", !.action = action, !.seq = seq]
<1>3. seq \in Nat
  BY <1>2 DEF RequestStates, toldSeq
<1>4. becomes(q, r)
  BY <1>1
<1> HIDE DEF seq
<1>5. r \in RequestStates
  BY <1>3, BlankRecords DEF RequestStates
<1>6. r.pc = "Reading" /\ r.player = <<>>
  BY DEF NoRequest
<1> HIDE DEF r
<1>7. hand.status # "None"
  BY <1>1, <1>2 DEF LineInv, Blank
<1>8. HoldsLine(r, hand.shoe) /\ ClosesRight(r, bets[HandBet])
  BY <1>6 DEF HoldsLine, ClosesRight, Closing
<1> QED BY <1>2, <1>4, <1>5, <1>7, <1>8, Moved

LEMMA ReadHandInv ==
    ASSUME BlackjackInv, NEW q \in Requests, readHand(q)
    PROVE  BlackjackInv'
<1>1. /\ HandTypeOK /\ LineInv /\ UNCHANGED <<houseVars, hand, row, faults>>
      /\ requests[q].pc = "Reading" /\ requests[q].action # "deal"
      /\ requests[q] \in RequestStates /\ hand \in HandStates
      /\ faults' = faults /\ faults' \in Nat
  BY RequestKnown DEF BlackjackInv, readHand, HandTypeOK
<1>2. hand.status # "None"
  BY <1>1 DEF LineInv, Blank
<1>3. CASE hand.status = "resolved"
  <2>1. becomes(q, answered(requests[q], hand.status, hand.actionSeq, hand.player))
    BY <1>3 DEF readHand, shownAs
  <2>2. hand.status \in Told /\ hand.actionSeq \in Nat
    BY <1>1, <1>3 DEF HandStates, Told
  <2> QED BY <1>1, <1>2, <1>3, <2>1, <2>2, AnswerMoved
<1>4. CASE hand.status # "resolved"
  <2> DEFINE r == [requests[q] EXCEPT !.pc = "Claiming", !.seen = hand]
  <2>1. becomes(q, r)
    BY <1>4 DEF readHand
  <2>2. r \in RequestStates
    BY <1>1 DEF RequestStates
  <2>3. r.pc = "Claiming" /\ r.player = requests[q].player /\ r.seen = hand
    BY <1>1 DEF RequestStates
  <2>4. hand.status = "player_turn"
    BY <1>1, <1>2, <1>4 DEF HandStates
  <2> HIDE DEF r
  <2>5. HandRight(hand) /\ HoldsLine(requests[q], hand.shoe)
    BY <1>1, <1>2 DEF LineInv
  <2>6. HoldsLine(r, hand.shoe)
    BY <2>3, <2>4, <2>5 DEF HoldsLine, HandRight, Closing
  <2>7. ClosesRight(r, bets[HandBet])
    BY <2>3 DEF ClosesRight
  <2> QED BY <1>1, <1>2, <2>1, <2>2, <2>6, <2>7, Moved
<1> QED BY <1>3, <1>4

(* A seed's deal becomes the hand; a natural goes on at once.               *)
LEMMA DealInv ==
    ASSUME BlackjackInv, NEW q \in Requests, NEW shoe \in Shoes, deal(q, shoe)
    PROVE  BlackjackInv'
<1>1. /\ HandTypeOK /\ LineInv /\ StakeInv /\ UNCHANGED <<houseVars, faults>>
      /\ requests[q].pc = "Dealing" /\ requests[q] \in RequestStates
      /\ faults' = faults /\ faults' \in Nat /\ shoe \in CardSeqs
  BY RequestKnown, BlackjackAssumption DEF BlackjackInv, deal, HandTypeOK, CardSeqs
<1>2. CASE hand.status # "None" \/ ~canDeal(shoe)
  <2>1. becomes(q, answered(requests[q], "Error", 0, <<>>)) /\ UNCHANGED <<hand, row>>
    BY <1>2 DEF deal
  <2>2. "Error" \in Told /\ "Error" # "player_turn"
    BY DEF Told
  <2> QED BY <1>1, <2>1, <2>2, AnswerMoved
<1>3. CASE hand.status = "None" /\ canDeal(shoe)
  <2> DEFINE dealt == dealInitial(shoe)
             player == dealt.player
             cursor == dealt.cursor
             fresh == [NoHand EXCEPT !.status = "player_turn", !.shoe = shoe, !.player = player,
                                     !.dealer = dealt.dealer, !.cursor = cursor]
             opened == [NoRow EXCEPT !.status = "PENDING"]
             shown == shownAs(requests[q], fresh)
             ends == finishing(requests[q], shoe, player, dealt.dealer, cursor)
             r == IF isNaturalBlackjack(player) THEN ends ELSE shown
  <2>1. hand' = fresh /\ row' = opened /\ becomes(q, r)
    BY <1>3 DEF deal
  <2>2. /\ player \in CardSeqs /\ dealtDealer(shoe) \in CardSeqs
        /\ Drawn(shoe, player, dealtDealer(shoe), cursor) /\ InOrder(shoe, dealtDealer(shoe))
    BY <1>1, <1>3, DealRight DEF dealtDealer
  <2>3. ends = finishing(requests[q], shoe, player, dealtDealer(shoe), cursor)
    BY DEF dealtDealer
  <2>4. fresh = [NoHand EXCEPT !.status = "player_turn", !.shoe = shoe, !.player = player,
                               !.dealer = dealtDealer(shoe), !.cursor = cursor]
    BY DEF dealtDealer
  <2> HIDE DEF player, cursor, ends, fresh, shown, r, opened
  <2>5. /\ fresh.status = "player_turn" /\ fresh.shoe = shoe /\ fresh.player = player
        /\ fresh.dealer = dealtDealer(shoe) /\ fresh.cursor = cursor /\ fresh.actionSeq = 0
        /\ fresh \in HandStates
    <3>1. cursor \in Nat
      <4>1. cursor \in 0..Len(shoe) /\ Len(shoe) \in Nat
        BY <1>1, <2>2, CardTyped DEF Drawn
      <4> QED BY <4>1
    <3> QED BY <1>1, <2>2, <2>4, <3>1 DEF NoHand, HandStates
  <2>6. /\ opened \in RowStates /\ opened.status = "PENDING" /\ ~opened.confirmed
        /\ opened.player = <<>> /\ opened.dealer = <<>>
    <3>1. <<>> \in CardSeqs
      BY BlankRecords
    <3> QED BY <3>1 DEF NoRow, RowStates, opened
  <2>7. r \in RequestStates /\ HoldsLine(r, shoe) /\ ClosesRight(r, bets[HandBet])
    <3>1. CASE r = ends
      <4>1. StakeTypeOK
        BY <1>1 DEF HandTypeOK
      <4> QED BY <1>1, <2>2, <2>3, <3>1, <4>1, FinishingRight
    <3>2. CASE r = shown
      <4>1. shown = answered(requests[q], "player_turn", 0, player)
        BY <2>5 DEF shownAs, shown
      <4>2. OnLine(shoe, player) /\ "player_turn" \in Told
        BY <2>2 DEF OnLine, Drawn, Told
      <4> QED BY <1>1, <2>2, <3>2, <4>1, <4>2, Answered, AnsweredHolds
    <3> QED BY <3>1, <3>2 DEF r
  <2>8. \A p \in Requests : Blank(requests[p])
    BY <1>1, <1>3 DEF LineInv
  <2>9. requests'[q] = r /\ \A p \in Requests : p # q => requests'[p] = requests[p]
    BY <1>1, <2>1, RequestMoved
  <2>10. HandTypeOK'
    <3>1. StakeTypeOK'
      BY <1>1 DEF HandTypeOK, StakeTypeOK, houseVars
    <3> QED BY <1>1, <2>1, <2>5, <2>6, <2>7, <3>1, MovedTyped
  <2>11. LineInv'
    <3>1. HandRight(fresh) /\ RowRight(opened, shoe)
      BY <2>2, <2>5, <2>6 DEF HandRight, RowRight
    <3>2. \A p \in Requests : HoldsLine(requests'[p], shoe)
      <4>1. \A p \in Requests : p # q => HoldsLine(requests[p], shoe)
        BY <2>8 DEF Blank, HoldsLine, Closing
      <4> QED BY <2>7, <2>9, <4>1
    <3>3. hand'.status # "None" /\ hand'.shoe = shoe
      BY <2>1, <2>5
    <3> QED BY <2>1, <3>1, <3>2, <3>3 DEF LineInv
  <2>12. StakeInv'
    <3>1. bets' = bets
      BY <1>1 DEF houseVars
    <3>2. \A p \in Requests : ClosesRight(requests'[p], bets'[HandBet])
      BY <1>1, <2>7, <2>9, <3>1 DEF StakeInv
    <3>3. \A p \in Requests : requests[p].pc # "Persisting"
      BY <2>8 DEF Blank
    <3>4. HandFollowsBet /\ hand.status # "resolved"
      BY <1>1, <1>3 DEF StakeInv
    <3>5. HandFollowsBet'
      BY <1>1, <2>1, <2>5, <2>6, <3>1, <3>3, <3>4 DEF HandFollowsBet
    <3> QED BY <2>1, <2>6, <3>2, <3>5 DEF StakeInv
  <2> QED BY <2>10, <2>11, <2>12 DEF BlackjackInv
<1> QED BY <1>2, <1>3

(* What a claimed hit or stand goes on with.                               *)
LEMMA ActingRight ==
    ASSUME StakeTypeOK, NEW r \in RequestStates, NEW shoe \in CardSeqs, r.seen.shoe = shoe,
           r.seen.dealer = dealtDealer(shoe), r.player = <<>> \/ OnLine(shoe, r.player),
           dealtDealer(shoe) \in CardSeqs, InOrder(shoe, dealtDealer(shoe)),
           Drawn(shoe, r.seen.player, dealtDealer(shoe), r.seen.cursor), NEW stake
    PROVE  acting(r) \in RequestStates /\ HoldsLine(acting(r), shoe) /\ ClosesRight(acting(r), stake)
<1> DEFINE h == r.seen
           player == h.player
           dealer == dealtDealer(shoe)
           cursor == h.cursor
           used == Cards(player) \cup Cards(dealer)
           draw == drawCard(shoe, used, cursor)
           more == Append(player, draw.card)
           after == draw.nextCursor
           stands == finishing(r, shoe, player, dealer, cursor)
           busts == finishing(r, shoe, more, dealer, after)
           saves == [r EXCEPT !.pc = "Saving", !.player = more, !.cursor = after, !.seen = NoHand]
           fails == answered(r, "Error", 0, <<>>)
           a == acting(r)
           Right(x) == x \in RequestStates /\ HoldsLine(x, shoe) /\ ClosesRight(x, stake)
<1>1. a = IF r.action = "stand" THEN stands
          ELSE IF ~canDraw(shoe, used, cursor) THEN fails
          ELSE IF isBust(more) THEN busts ELSE saves
  <2> DEFINE A(s, d) ==
               LET u == Cards(h.player) \cup Cards(d)
                   dr == drawCard(s, u, h.cursor)
                   m == Append(h.player, dr.card)
               IN  IF r.action = "stand" THEN finishing(r, s, h.player, d, h.cursor)
                   ELSE IF ~canDraw(s, u, h.cursor) THEN answered(r, "Error", 0, <<>>)
                   ELSE IF isBust(m) THEN finishing(r, s, m, d, dr.nextCursor)
                   ELSE [r EXCEPT !.pc = "Saving", !.player = m, !.cursor = dr.nextCursor,
                                  !.seen = NoHand]
  <2>1. a = A(h.shoe, h.dealer)
    BY Zenon DEF acting
  <2>2. A(h.shoe, h.dealer) = A(shoe, dealer)
    <3> HIDE DEF A
    <3> QED OBVIOUS
  <2>3. A(shoe, dealer) = IF r.action = "stand" THEN stands
                          ELSE IF ~canDraw(shoe, used, cursor) THEN fails
                          ELSE IF isBust(more) THEN busts ELSE saves
    BY Zenon
  <2> HIDE DEF A, a, stands, fails, more, busts, saves
  <2> QED BY <2>1, <2>2, <2>3
<1>2. player \in CardSeqs /\ Drawn(shoe, player, dealer, cursor)
  BY DEF RequestStates, HandStates
<1>3. Right(stands)
  <2> HIDE DEF player, cursor
  <2> QED BY <1>2, FinishingRight
<1>4. Right(fails)
  <2>1. "Error" \in Told /\ <<>> \in CardSeqs
    BY BlankRecords DEF Told
  <2> QED BY <2>1, Answered, AnsweredHolds
<1>5. ASSUME canDraw(shoe, used, cursor)
      PROVE  more \in CardSeqs /\ Drawn(shoe, more, dealer, after)
  <2>1. dealer \in CardSeqs
    OBVIOUS
  <2> HIDE DEF player, cursor, dealer
  <2> QED BY <1>2, <1>5, <2>1, DrawnDraw, Zenon
<1> HIDE DEF more, after, draw
<1>6. canDraw(shoe, used, cursor) => Right(busts)
  <2> SUFFICES ASSUME canDraw(shoe, used, cursor) PROVE Right(busts)
    OBVIOUS
  <2> QED BY <1>5, FinishingRight
<1>7. canDraw(shoe, used, cursor) => Right(saves)
  <2> SUFFICES ASSUME canDraw(shoe, used, cursor) PROVE Right(saves)
    OBVIOUS
  <2>1. more \in CardSeqs /\ Drawn(shoe, more, dealer, after)
    BY <1>5
  <2>2. after \in Nat
    <3>1. after \in 0..Len(shoe) /\ Len(shoe) \in Nat
      BY <2>1, CardTyped DEF Drawn
    <3> QED BY <3>1
  <2>3. saves \in RequestStates
    BY <2>1, <2>2, BlankRecords DEF RequestStates
  <2>4. saves.pc = "Saving" /\ saves.player = more /\ saves.cursor = after
    BY DEF RequestStates
  <2> HIDE DEF saves
  <2>5. OnLine(shoe, more)
    BY <2>1 DEF OnLine, Drawn
  <2>6. HoldsLine(saves, shoe) /\ ClosesRight(saves, stake)
    BY <2>1, <2>4, <2>5 DEF HoldsLine, ClosesRight, Closing
  <2> QED BY <2>3, <2>6
<1> SUFFICES Right(a)
  OBVIOUS
<1> HIDE DEF a, stands, busts, saves, fails, Right
<1> QED BY <1>1, <1>3, <1>4, <1>6, <1>7

LEMMA ClaimInv ==
    ASSUME BlackjackInv, NEW q \in Requests, claim(q)
    PROVE  BlackjackInv'
<1>1. /\ HandTypeOK /\ LineInv /\ StakeInv /\ UNCHANGED <<houseVars, row, faults>>
      /\ requests[q].pc = "Claiming" /\ requests[q] \in RequestStates /\ hand \in HandStates
      /\ faults' = faults /\ faults' \in Nat
  BY RequestKnown DEF BlackjackInv, claim, HandTypeOK
<1>2. CASE ~(hand.actionSeq = requests[q].seq /\ hand.status = "player_turn")
  <2>1. becomes(q, answered(requests[q], "Conflict", 0, <<>>)) /\ UNCHANGED hand
    BY <1>2 DEF claim
  <2>2. "Conflict" \in Told
    BY DEF Told
  <2> QED BY <1>1, <2>1, <2>2, AnswerMoved
<1>3. CASE hand.actionSeq = requests[q].seq /\ hand.status = "player_turn"
  <2> DEFINE next == [hand EXCEPT !.actionSeq = @ + 1]
             claimed == [requests[q] EXCEPT !.claimed = TRUE]
             r == acting(claimed)
  <2>1. hand' = next /\ becomes(q, r)
    BY <1>3 DEF claim
  <2>2. /\ next \in HandStates /\ next.status = hand.status /\ next.shoe = hand.shoe
        /\ next.player = hand.player /\ next.dealer = hand.dealer /\ next.cursor = hand.cursor
    BY <1>1 DEF HandStates
  <2>3. /\ claimed \in RequestStates /\ claimed.seen = requests[q].seen
        /\ claimed.player = requests[q].player
    BY <1>1 DEF RequestStates
  <2>4. HandRight(hand) /\ RowRight(row, hand.shoe) /\ HoldsLine(requests[q], hand.shoe)
    BY <1>1, <1>3 DEF LineInv
  <2>5. hand.shoe \in CardSeqs /\ StakeTypeOK
    BY <1>1 DEF HandStates, HandTypeOK
  <2> HIDE DEF next, claimed
  <2>6. r \in RequestStates /\ HoldsLine(r, hand.shoe) /\ ClosesRight(r, bets[HandBet])
    <3> DEFINE shoe == hand.shoe
    <3>1. /\ claimed.seen.shoe = shoe /\ claimed.seen.dealer = dealtDealer(shoe)
          /\ Drawn(shoe, claimed.seen.player, dealtDealer(shoe), claimed.seen.cursor)
          /\ claimed.player = <<>> \/ OnLine(shoe, claimed.player)
          /\ dealtDealer(shoe) \in CardSeqs /\ InOrder(shoe, dealtDealer(shoe))
          /\ shoe \in CardSeqs
      BY <1>1, <2>3, <2>4, <2>5 DEF HoldsLine, HandRight
    <3> HIDE DEF shoe
    <3>2. r \in RequestStates /\ HoldsLine(r, shoe) /\ ClosesRight(r, bets[HandBet])
      BY <2>3, <2>5, <3>1, ActingRight
    <3> QED BY <3>2 DEF shoe
  <2> HIDE DEF r
  <2>7. HandRight(next)
    BY <2>2, <2>4 DEF HandRight
  <2>8. HandTypeOK'
    <3>1. StakeTypeOK' /\ row' \in RowStates
      BY <1>1 DEF HandTypeOK, StakeTypeOK, houseVars
    <3> QED BY <1>1, <2>1, <2>2, <2>6, <3>1, MovedTyped
  <2>9. LineInv'
    BY <1>1, <1>3, <2>1, <2>2, <2>4, <2>6, <2>7, LineKept
  <2>10. StakeInv'
    <3>1. bets' = bets /\ row' = row /\ hand'.status = hand.status
      BY <1>1, <2>1, <2>2 DEF houseVars
    <3> QED BY <1>1, <2>1, <2>6, <3>1, StakeKept
  <2> QED BY <2>8, <2>9, <2>10 DEF BlackjackInv
<1> QED BY <1>2, <1>3

LEMMA SaveHitInv ==
    ASSUME BlackjackInv, NEW q \in Requests, saveHit(q)
    PROVE  BlackjackInv'
<1>1. /\ HandTypeOK /\ LineInv /\ StakeInv /\ UNCHANGED <<houseVars, row, faults>>
      /\ requests[q].pc = "Saving" /\ requests[q] \in RequestStates /\ hand \in HandStates
      /\ faults' = faults /\ faults' \in Nat
  BY RequestKnown DEF BlackjackInv, saveHit, HandTypeOK
<1> DEFINE old == requests[q]
           next == [hand EXCEPT !.cursor = old.cursor, !.player = old.player]
           r == answered(old, "player_turn", 0, old.player)
<1>2. hand' = next /\ becomes(q, r)
  BY DEF saveHit
<1>3. hand.status # "None"
  BY <1>1 DEF LineInv, Blank
<1>4. old.player \in CardSeqs /\ old.cursor \in Nat
  BY <1>1 DEF RequestStates
<1>5. /\ next \in HandStates /\ next.status = hand.status /\ next.shoe = hand.shoe
      /\ next.player = old.player /\ next.dealer = hand.dealer /\ next.cursor = old.cursor
  BY <1>1, <1>4 DEF HandStates
<1>6. HandRight(hand) /\ RowRight(row, hand.shoe) /\ HoldsLine(old, hand.shoe)
  BY <1>1, <1>3 DEF LineInv
<1>7. Drawn(hand.shoe, old.player, dealtDealer(hand.shoe), old.cursor)
  BY <1>1, <1>6 DEF HoldsLine
<1>8. r \in RequestStates /\ HoldsLine(r, hand.shoe) /\ ClosesRight(r, bets[HandBet])
  <2>1. OnLine(hand.shoe, old.player) /\ "player_turn" \in Told
    BY <1>7 DEF OnLine, Drawn, Told
  <2> QED BY <1>1, <1>4, <2>1, Answered, AnsweredHolds
<1> HIDE DEF old, next, r
<1>9. HandRight(next)
  BY <1>5, <1>6, <1>7 DEF HandRight
<1>10. HandTypeOK'
  <2>1. StakeTypeOK' /\ row' \in RowStates
    BY <1>1 DEF HandTypeOK, StakeTypeOK, houseVars
  <2> QED BY <1>1, <1>2, <1>5, <1>8, <2>1, MovedTyped
<1>11. LineInv'
  BY <1>1, <1>2, <1>3, <1>5, <1>6, <1>8, <1>9, LineKept
<1>12. StakeInv'
  <2>1. bets' = bets /\ row' = row /\ hand'.status = hand.status
    BY <1>1, <1>2, <1>5 DEF houseVars
  <2> QED BY <1>1, <1>2, <1>8, <2>1, StakeKept
<1> QED BY <1>10, <1>11, <1>12 DEF BlackjackInv

(* A closing request goes on with the hand it holds.                       *)
LEMMA ClosingMoved ==
    ASSUME BlackjackInv, UNCHANGED <<houseVars, hand, row>>, faults' = faults,
           NEW q \in Requests, requests[q].pc \in Closing, requests[q].pc # "Persisting",
           NEW r \in RequestStates, becomes(q, r), r.pc \in Closing,
           r.player = requests[q].player, r.dealer = requests[q].dealer,
           ClosesRight(r, bets[HandBet])
    PROVE  BlackjackInv'
<1>1. HandTypeOK /\ LineInv /\ faults' \in Nat
  BY DEF BlackjackInv, HandTypeOK
<1>2. hand.status # "None"
  BY <1>1 DEF LineInv, Blank, Closing
<1>3. HoldsLine(requests[q], hand.shoe)
  BY <1>1, <1>2 DEF LineInv
<1>4. HoldsLine(r, hand.shoe)
  BY <1>3 DEF HoldsLine, Closing
<1> QED BY <1>1, <1>2, <1>4, Moved

LEMMA GateBonusInv ==
    ASSUME BlackjackInv, NEW q \in Requests, gateBonus(q)
    PROVE  BlackjackInv'
<1> DEFINE asked == IF (bets[HandBet].amount * 3) \div 2 > availableCapacityFor(HandBet)
                    THEN payoutOf("player_win") ELSE requests[q].asked
           r == [requests[q] EXCEPT !.pc = "Submitting", !.asked = asked]
<1>1. /\ HandTypeOK /\ UNCHANGED <<houseVars, hand, row, faults>>
      /\ requests[q].pc = "Gating" /\ requests[q] \in RequestStates /\ becomes(q, r)
  BY RequestKnown DEF BlackjackInv, gateBonus
<1>2. asked \in Nat
  BY <1>1, PayoutNat DEF RequestStates, HandTypeOK
<1> HIDE DEF asked
<1>3. /\ r \in RequestStates /\ r.pc = "Submitting" /\ r.player = requests[q].player
      /\ r.dealer = requests[q].dealer
  BY <1>1, <1>2 DEF RequestStates, Closing
<1> HIDE DEF r
<1>4. ClosesRight(r, bets[HandBet]) /\ r.pc \in Closing /\ requests[q].pc \in Closing
  BY <1>1, <1>3 DEF ClosesRight, Closing
<1> QED BY <1>1, <1>3, <1>4, ClosingMoved

LEMMA SubmitInv ==
    ASSUME BlackjackInv, NEW q \in Requests, submit(q)
    PROVE  BlackjackInv'
<1>1. /\ HandTypeOK /\ UNCHANGED <<houseVars, hand, row, faults>>
      /\ requests[q].pc = "Submitting" /\ requests[q] \in RequestStates
      /\ faults' = faults /\ faults' \in Nat
  BY RequestKnown DEF BlackjackInv, submit, HandTypeOK
<1>2. CASE bets[HandBet].status = "Placed"
  <2> DEFINE r == [requests[q] EXCEPT !.pc = "Sent"]
  <2>1. becomes(q, r)
    BY <1>2 DEF submit
  <2>2. /\ r \in RequestStates /\ r.pc = "Sent" /\ r.player = requests[q].player
        /\ r.dealer = requests[q].dealer
    BY <1>1 DEF RequestStates, Closing
  <2> HIDE DEF r
  <2>3. ClosesRight(r, bets[HandBet]) /\ r.pc \in Closing /\ requests[q].pc \in Closing
    BY <1>1, <1>2, <2>2 DEF ClosesRight, Closing
  <2> QED BY <1>1, <2>1, <2>2, <2>3, ClosingMoved
<1>3. CASE bets[HandBet].status # "Placed"
  <2>1. becomes(q, answered(requests[q], "Error", 0, <<>>))
    BY <1>3 DEF submit
  <2>2. "Error" \in Told
    BY DEF Told
  <2> QED BY <1>1, <2>1, <2>2, AnswerMoved
<1> QED BY <1>2, <1>3

LEMMA RevertedInv ==
    ASSUME BlackjackInv, NEW q \in Requests, minedReverted(q)
    PROVE  BlackjackInv'
<1> DEFINE r == [requests[q] EXCEPT !.pc = "Persisting", !.confirmed = FALSE,
                                    !.paid = requests[q].asked]
<1>1. /\ HandTypeOK /\ StakeInv /\ UNCHANGED <<houseVars, hand, row, faults>>
      /\ requests[q].pc = "Sent" /\ requests[q] \in RequestStates
      /\ bets[HandBet].status # "Placed" /\ becomes(q, r)
  BY RequestKnown DEF BlackjackInv, minedReverted
<1>2. /\ r \in RequestStates /\ r.pc = "Persisting" /\ ~r.confirmed
      /\ r.player = requests[q].player /\ r.dealer = requests[q].dealer
  BY <1>1 DEF RequestStates, Closing
<1>3. bets[HandBet].status = "Settled"
  <2>1. bets[HandBet].status \in {"None", "Placed", "Settled"}
    BY <1>1, HandBetPlaced DEF HandTypeOK, StakeTypeOK, StakeStates
  <2>2. ClosesRight(requests[q], bets[HandBet])
    BY <1>1 DEF StakeInv
  <2> QED BY <1>1, <2>1, <2>2 DEF ClosesRight
<1> HIDE DEF r
<1>4. ClosesRight(r, bets[HandBet]) /\ r.pc \in Closing /\ requests[q].pc \in Closing
  BY <1>1, <1>2, <1>3 DEF ClosesRight, Closing
<1> QED BY <1>1, <1>2, <1>4, ClosingMoved

(* The settlement of the stake, and the request that learns of it or not.  *)
LEMMA SettledOnce ==
    ASSUME StakeTypeOK, NEW payout \in Nat, settleGame(HandBet, payout)
    PROVE  /\ StakeTypeOK' /\ bets[HandBet].status = "Placed"
           /\ bets'[HandBet].status = "Settled" /\ bets'[HandBet].payout \in Nat
<1> DEFINE paid == IF payout > usdc THEN usdc ELSE payout
           stake == bets[HandBet]
<1>1. /\ usdc \in Nat /\ totalPendingExposure \in Nat /\ bets \in [BetIds -> StakeStates]
      /\ maxMultiplierX100 \in [Games -> Nat] /\ stake \in StakeStates
  BY HandBetPlaced DEF StakeTypeOK
<1>2. /\ stake.status = "Placed" /\ totalPendingExposure >= stake.reservedExposure
      /\ bets' = [bets EXCEPT ![HandBet].status = "Settled", ![HandBet].payout = paid]
      /\ totalPendingExposure' = totalPendingExposure - stake.reservedExposure
      /\ usdc' = usdc - paid /\ maxMultiplierX100' = maxMultiplierX100
  BY DEF settleGame
<1>3. paid \in Nat /\ paid <= usdc
  BY <1>1
<1> HIDE DEF paid
<1> DEFINE settled == [stake EXCEPT !.status = "Settled", !.payout = paid]
<1>4. settled \in StakeStates /\ settled.status = "Settled" /\ settled.payout = paid
  BY <1>1, <1>3 DEF StakeStates
<1>5. bets' = [bets EXCEPT ![HandBet] = settled]
  BY <1>1, <1>2, HandBetPlaced
<1> HIDE DEF settled
<1>6. bets' \in [BetIds -> StakeStates] /\ bets'[HandBet] = settled
  BY <1>1, <1>4, <1>5, HandBetPlaced
<1>7. usdc' \in Nat /\ totalPendingExposure' \in Nat
  BY <1>1, <1>2, <1>3 DEF StakeStates
<1> QED BY <1>1, <1>2, <1>3, <1>4, <1>6, <1>7 DEF StakeTypeOK

LEMMA SettledMoved ==
    ASSUME BlackjackInv, NEW payout \in Nat, settleGame(HandBet, payout),
           UNCHANGED <<hand, row>>, faults' \in Nat,
           NEW q \in Requests, requests[q].pc = "Sent", NEW r \in RequestStates, becomes(q, r),
           HoldsLine(r, hand.shoe), ClosesRight(r, bets'[HandBet]),
           faults' = 0 => r.pc = "Persisting"
    PROVE  BlackjackInv'
<1>1. /\ HandTypeOK /\ LineInv /\ StakeInv /\ StakeTypeOK /\ hand \in HandStates
      /\ row \in RowStates
  BY DEF BlackjackInv, HandTypeOK
<1>2. /\ StakeTypeOK' /\ bets[HandBet].status = "Placed" /\ bets'[HandBet].status = "Settled"
  BY <1>1, SettledOnce
<1>3. HandTypeOK'
  BY <1>1, <1>2, MovedTyped
<1>4. hand.status # "None"
  BY <1>1 DEF LineInv, Blank
<1>5. LineInv'
  <2>1. HandRight(hand) /\ RowRight(row, hand.shoe)
    BY <1>1, <1>4 DEF LineInv
  <2> QED BY <1>1, <1>4, <2>1, LineKept
<1>6. requests'[q] = r /\ \A p \in Requests : p # q => requests'[p] = requests[p]
  BY <1>1, RequestMoved
<1>7. \A p \in Requests : ClosesRight(requests'[p], bets'[HandBet])
  <2>1. \A p \in Requests : ClosesRight(requests[p], bets[HandBet])
    BY <1>1 DEF StakeInv
  <2>2. \A p \in Requests : ClosesRight(requests[p], bets'[HandBet])
    BY <1>2, <2>1 DEF ClosesRight
  <2> QED BY <1>6, <2>2
<1>8. hand.status # "resolved" /\ ~row.confirmed /\ ~(row.status \in {"WON", "LOST"})
  BY <1>1, <1>2 DEF StakeInv, HandFollowsBet, RowStates
<1>9. faults' = 0 => requests'[q].pc = "Persisting"
  BY <1>6
<1>10. HandFollowsBet'
  BY <1>8, <1>9 DEF HandFollowsBet
<1>11. StakeInv'
  BY <1>7, <1>8, <1>10 DEF StakeInv
<1> QED BY <1>3, <1>5, <1>11 DEF BlackjackInv

LEMMA MinedInv ==
    ASSUME BlackjackInv, NEW q \in Requests, minedSettled(q)
    PROVE  BlackjackInv'
<1> DEFINE paid == bets'[HandBet].payout
           r == [requests[q] EXCEPT !.pc = "Persisting", !.confirmed = TRUE, !.paid = paid]
<1>1. /\ HandTypeOK /\ LineInv /\ StakeTypeOK /\ UNCHANGED <<hand, row, faults>>
      /\ requests[q].pc = "Sent" /\ requests[q] \in RequestStates /\ faults' \in Nat
      /\ settleGame(HandBet, requests[q].asked) /\ becomes(q, r)
  BY RequestKnown DEF BlackjackInv, minedSettled, HandTypeOK
<1>2. requests[q].asked \in Nat
  BY <1>1 DEF RequestStates
<1>3. bets'[HandBet].status = "Settled" /\ paid \in Nat
  BY <1>1, <1>2, SettledOnce
<1> HIDE DEF paid
<1>4. /\ r \in RequestStates /\ r.pc = "Persisting" /\ r.paid = paid
      /\ r.player = requests[q].player /\ r.dealer = requests[q].dealer
  BY <1>1, <1>3 DEF RequestStates, Closing
<1> HIDE DEF r
<1>5. ClosesRight(r, bets'[HandBet])
  BY <1>3, <1>4 DEF ClosesRight, paid
<1>6. HoldsLine(r, hand.shoe)
  <2>1. HoldsLine(requests[q], hand.shoe)
    BY <1>1 DEF LineInv, Blank
  <2> QED BY <1>1, <1>4, <2>1 DEF HoldsLine, Closing
<1> QED BY <1>1, <1>2, <1>4, <1>5, <1>6, SettledMoved

LEMMA ReceiptLostInv ==
    ASSUME BlackjackInv, NEW q \in Requests, receiptLost(q)
    PROVE  BlackjackInv'
<1> DEFINE r == answered(requests[q], "Error", 0, <<>>)
<1>1. /\ HandTypeOK /\ UNCHANGED <<hand, row>> /\ requests[q].pc = "Sent"
      /\ requests[q] \in RequestStates /\ faults \in Nat /\ faults' = faults + 1
      /\ settleGame(HandBet, requests[q].asked) /\ becomes(q, r)
  BY RequestKnown DEF BlackjackInv, receiptLost, HandTypeOK
<1>2. "Error" \in Told /\ <<>> \in CardSeqs /\ requests[q].asked \in Nat
  BY <1>1, BlankRecords DEF Told, RequestStates
<1>3. /\ r \in RequestStates /\ HoldsLine(r, hand.shoe) /\ ClosesRight(r, bets'[HandBet])
  BY <1>1, <1>2, Answered, AnsweredHolds
<1> HIDE DEF r
<1>4. faults' \in Nat /\ faults' # 0
  BY <1>1
<1> QED BY <1>1, <1>2, <1>3, <1>4, SettledMoved

LEMMA DieInv ==
    ASSUME BlackjackInv, NEW q \in Requests, die(q)
    PROVE  BlackjackInv'
<1>1. /\ HandTypeOK /\ UNCHANGED <<houseVars, hand, row>> /\ faults \in Nat
      /\ faults' = faults + 1 /\ becomes(q, answered(requests[q], "Error", 0, <<>>))
  BY DEF BlackjackInv, die, HandTypeOK
<1>2. "Error" \in Told /\ faults' \in Nat /\ faults' # 0
  BY <1>1 DEF Told
<1> QED BY <1>1, <1>2, AnswerMoved

LEMMA PersistInv ==
    ASSUME BlackjackInv, NEW q \in Requests, persist(q)
    PROVE  BlackjackInv'
<1> DEFINE old == requests[q]
           closed == [status |-> IF old.paid > 0 THEN "WON" ELSE "LOST", payout |-> old.paid,
                      confirmed |-> old.confirmed, player |-> old.player, dealer |-> old.dealer]
           next == [hand EXCEPT !.status = "resolved", !.dealer = old.dealer]
           r == answered(old, "resolved", hand.actionSeq, old.player)
<1>1. /\ HandTypeOK /\ LineInv /\ StakeInv /\ UNCHANGED <<houseVars, faults>>
      /\ old.pc = "Persisting" /\ old \in RequestStates /\ hand \in HandStates
      /\ faults' = faults /\ faults' \in Nat
      /\ row' = closed /\ hand' = next /\ becomes(q, r)
  BY RequestKnown DEF BlackjackInv, persist, HandTypeOK
<1>2. hand.status # "None"
  BY <1>1 DEF LineInv, Blank
<1>3. /\ old.player \in CardSeqs /\ old.dealer \in CardSeqs /\ old.paid \in Nat
      /\ old.confirmed \in BOOLEAN /\ hand.actionSeq \in Nat
  BY <1>1 DEF RequestStates, HandStates
<1>4. /\ next \in HandStates /\ next.status = "resolved" /\ next.shoe = hand.shoe
      /\ next.player = hand.player /\ next.cursor = hand.cursor
  BY <1>1, <1>3 DEF HandStates
<1>5. closed \in RowStates
  BY <1>3 DEF RowStates
<1>6. HandRight(hand) /\ HoldsLine(old, hand.shoe)
  BY <1>1, <1>2 DEF LineInv
<1>7. Played(hand.shoe, old.player, old.dealer)
  BY <1>1, <1>6 DEF HoldsLine, Closing
<1>8. r \in RequestStates /\ HoldsLine(r, hand.shoe) /\ ClosesRight(r, bets[HandBet])
  <2>1. OnLine(hand.shoe, old.player) /\ "resolved" \in Told
    BY <1>7 DEF Played, Told
  <2> QED BY <1>1, <1>3, <2>1, Answered, AnsweredHolds
<1>9. HandRight(next)
  BY <1>4, <1>6 DEF HandRight
<1>10. RowRight(closed, hand.shoe)
  BY <1>7 DEF RowRight
<1>11. /\ closed.status \in {"WON", "LOST"} /\ closed.payout = old.paid
       /\ closed.confirmed = old.confirmed
  OBVIOUS
<1> HIDE DEF old, closed, next, r
<1>12. HandTypeOK'
  <2>1. StakeTypeOK'
    BY <1>1 DEF HandTypeOK, StakeTypeOK, houseVars
  <2> QED BY <1>1, <1>4, <1>5, <1>8, <2>1, MovedTyped
<1>13. LineInv'
  BY <1>1, <1>2, <1>4, <1>8, <1>9, <1>10, LineKept
<1>14. StakeInv'
  <2>1. bets' = bets
    BY <1>1 DEF houseVars
  <2>2. \A p \in Requests : ClosesRight(requests[p], bets[HandBet])
    BY <1>1 DEF StakeInv
  <2>3. \A p \in Requests : ClosesRight(requests'[p], bets'[HandBet])
    BY <1>1, <1>8, <2>1, <2>2, RequestMoved
  <2>4. bets[HandBet].status = "Settled" /\ (old.confirmed => old.paid = bets[HandBet].payout)
    BY <1>1, <2>2 DEF ClosesRight, old
  <2>5. HandFollowsBet'
    BY <1>1, <1>3, <1>4, <1>11, <2>1, <2>4 DEF HandFollowsBet
  <2> QED BY <1>1, <1>4, <2>3, <2>5 DEF StakeInv
<1> QED BY <1>12, <1>13, <1>14 DEF BlackjackInv

(* Every step of the routes, of the chain and of the faults keeps the      *)
(* hand's cards on its line and its end in step with its stake.            *)
LEMMA BlackjackStepInv == BlackjackInv /\ [BlackjackNext]_blackjackVars => BlackjackInv'
<1> SUFFICES ASSUME BlackjackInv, [BlackjackNext]_blackjackVars PROVE BlackjackInv'
  OBVIOUS
<1>1. CASE UNCHANGED blackjackVars
  <2>1. UNCHANGED <<usdc, bets, totalPendingExposure, maxMultiplierX100, hand, row, requests,
                    faults>>
    BY <1>1 DEF blackjackVars, houseVars, handVars
  <2>2. HandTypeOK'
    BY <2>1 DEF BlackjackInv, HandTypeOK, StakeTypeOK
  <2>3. LineInv'
    BY <2>1 DEF BlackjackInv, LineInv
  <2>4. StakeInv'
    BY <2>1 DEF BlackjackInv, StakeInv, HandFollowsBet
  <2> QED BY <2>2, <2>3, <2>4 DEF BlackjackInv
<1>2. CASE BlackjackNext
  BY <1>2, BankrollInv, AskDealInv, ResumeInv, DealInv, AskActionInv, ReadHandInv, ClaimInv,
     SaveHitInv, GateBonusInv, SubmitInv, MinedInv, RevertedInv, PersistInv, DieInv,
     ReceiptLostInv DEF BlackjackNext
<1> QED BY <1>1, <1>2

(* The inductive invariant of a hand, with the type of every variable.     *)
THEOREM BlackjackInvariant == BlackjackSpec => []BlackjackInv
BY BlackjackInitInv, BlackjackStepInv, PTL DEF BlackjackSpec

(* Whatever interleaves, no two answers show cards of different draws: all *)
(* a request was ever told is a beginning of the one line its seed fixes.  *)
THEOREM NobodyRerolls == TablesSpec => []NoReroll
<1>1. BlackjackInv => NoReroll
  <2> SUFFICES ASSUME BlackjackInv PROVE NoReroll
    OBVIOUS
  <2> DEFINE shown == {requests[q].player : q \in Requests} \cup {row.player, hand.player}
             shoe == hand.shoe
             d == dealtDealer(shoe)
  <2>1. HandTypeOK /\ LineInv
    BY DEF BlackjackInv
  <2>2. shoe \in CardSeqs /\ \A s \in shown : s \in CardSeqs
    BY <2>1 DEF HandTypeOK, HandStates, RowStates, RequestStates
  <2>3. \A s \in shown : s = <<>> \/ OnLine(shoe, s)
    <3>1. CASE hand.status = "None"
      BY <2>1, <3>1, BlankRecords DEF LineInv, Blank
    <3>2. CASE hand.status # "None"
      <4>1. OnLine(shoe, hand.player)
        BY <2>1, <3>2 DEF LineInv, HandRight, OnLine, Drawn
      <4>2. row.player = <<>> \/ OnLine(shoe, row.player)
        BY <2>1, <3>2 DEF LineInv, RowRight, Played
      <4>3. \A q \in Requests : requests[q].player = <<>> \/ OnLine(shoe, requests[q].player)
        BY <2>1, <3>2 DEF LineInv, HoldsLine
      <4> QED BY <4>1, <4>2, <4>3
    <3> QED BY <3>1, <3>2
  <2>4. ASSUME NEW s \in shown, NEW t \in shown
        PROVE  isPrefix(s, t) \/ isPrefix(t, s)
    <3> HIDE DEF shown, shoe
    <3>1. s \in CardSeqs /\ t \in CardSeqs
      BY <2>2
    <3>2. \A u \in CardSeqs : isPrefix(<<>>, u)
      <4> TAKE u \in CardSeqs
      <4>1. Len(u) \in Nat
        BY CardTyped
      <4> QED BY <4>1 DEF isPrefix
    <3>3. CASE s = <<>> \/ t = <<>>
      BY <3>1, <3>2, <3>3
    <3>4. CASE OnLine(shoe, s) /\ OnLine(shoe, t)
      <4>1. PICK c : Drawn(shoe, s, d, c)
        BY <3>4 DEF OnLine
      <4>2. PICK e : Drawn(shoe, t, d, e)
        BY <3>4 DEF OnLine
      <4> QED BY <2>2, <3>1, <4>1, <4>2, LinesCompare
    <3> QED BY <2>3, <3>3, <3>4
  <2> QED BY <2>4 DEF NoReroll
<1> QED BY <1>1, TablesArePlayed, BlackjackInvariant, PTL

(* No card is twice in the hand a bet was settled on.                       *)
THEOREM HandsUseOneDeck == TablesSpec => []OneDeck
<1>1. BlackjackInv => OneDeck
  <2> SUFFICES ASSUME BlackjackInv PROVE OneDeck
    OBVIOUS
  <2> DEFINE s == row.player
             t == row.dealer
             shoe == hand.shoe
             n == Len(s)
             m == Len(t)
  <2>1. HandTypeOK /\ LineInv
    BY DEF BlackjackInv
  <2>2. shoe \in CardSeqs /\ s \in CardSeqs /\ t \in CardSeqs
    BY <2>1 DEF HandTypeOK, HandStates, RowStates
  <2>3. /\ n \in Nat /\ m \in Nat
        /\ Cards(s) = {s[i] : i \in 1..n} /\ Cards(t) = {t[i] : i \in 1..m}
    BY <2>2, CardTyped
  <2>4. /\ Len(s \o t) = n + m
        /\ \A i \in 1..(n + m) : (s \o t)[i] = IF i <= n THEN s[i] ELSE t[i - n]
    <3> HIDE DEF s, t
    <3>1. s \in Seq(0..51) /\ t \in Seq(0..51)
      BY <2>2 DEF CardSeqs
    <3> QED BY <3>1
  <2>5. (s = <<>> /\ t = <<>>) \/ Played(shoe, s, t)
    BY <2>1, BlankRecords DEF LineInv, RowRight
  <2> HIDE DEF shoe
  <2>6. CASE Played(shoe, s, t)
    <3>1. InOrder(shoe, s) /\ InOrder(shoe, t) /\ Cards(s) \cap Cards(t) = {}
      BY <2>6 DEF Played, OnLine, Drawn
    <3>2. \A x : ~ComesBefore(shoe, x, x)
      BY <2>2, BeforeAsymmetric
    <3> HIDE DEF s, t, n, m
    <3>3. ASSUME NEW i \in 1..n, NEW j \in 1..n, s[i] = s[j] PROVE i = j
      <4>1. i < j \/ j < i \/ i = j
        BY <2>3
      <4> QED BY <3>1, <3>2, <3>3, <4>1 DEF InOrder, n
    <3>4. ASSUME NEW i \in 1..m, NEW j \in 1..m, t[i] = t[j] PROVE i = j
      <4>1. i < j \/ j < i \/ i = j
        BY <2>3
      <4> QED BY <3>1, <3>2, <3>4, <4>1 DEF InOrder, m
    <3>5. \A i \in 1..n, j \in 1..m : s[i] # t[j]
      BY <2>3, <3>1
    <3>6. ASSUME NEW i \in 1..(n + m), NEW j \in 1..(n + m), (s \o t)[i] = (s \o t)[j]
          PROVE  i = j
      <4>1. /\ (s \o t)[i] = IF i <= n THEN s[i] ELSE t[i - n]
            /\ (s \o t)[j] = IF j <= n THEN s[j] ELSE t[j - n]
        BY <2>4
      <4>2. (i <= n => i \in 1..n) /\ (j <= n => j \in 1..n)
        BY <2>3
      <4>3. (~(i <= n) => i - n \in 1..m) /\ (~(j <= n) => j - n \in 1..m)
        BY <2>3
      <4>4. CASE i <= n /\ j <= n
        BY <3>3, <3>6, <4>1, <4>2, <4>4
      <4>5. CASE ~(i <= n) /\ ~(j <= n)
        <5>1. i - n = j - n
          BY <3>4, <3>6, <4>1, <4>3, <4>5
        <5> QED BY <2>3, <5>1
      <4>6. CASE i <= n /\ ~(j <= n)
        BY <3>5, <3>6, <4>1, <4>2, <4>3, <4>6
      <4>7. CASE ~(i <= n) /\ j <= n
        BY <3>5, <3>6, <4>1, <4>2, <4>3, <4>7
      <4> QED BY <4>4, <4>5, <4>6, <4>7
    <3> QED BY <2>4, <3>6 DEF OneDeck, s, t
  <2>7. CASE s = <<>> /\ t = <<>>
    <3>1. Len(s \o t) = 0
      BY <2>4, <2>7
    <3> QED BY <3>1 DEF OneDeck
  <2> QED BY <2>5, <2>6, <2>7
<1> QED BY <1>1, TablesArePlayed, BlackjackInvariant, PTL

(* The hand, its row and its stake end together.                            *)
THEOREM HandsFollowTheirBet == TablesSpec => []HandFollowsBet
<1>1. BlackjackInv => HandFollowsBet
  BY DEF BlackjackInv, StakeInv
<1> QED BY <1>1, TablesArePlayed, BlackjackInvariant, PTL

(* handValue counts a hand as high as it can without going over 21, for     *)
(* every hand of cards.                                                    *)
THEOREM HandsCountBest == TablesSpec => []BestTotal
<1>1. BlackjackInv => BestTotal
  <2> SUFFICES ASSUME BlackjackInv PROVE BestTotal
    OBVIOUS
  <2>1. \A cards \in {hand.player, hand.dealer, row.player, row.dealer} : cards \in CardSeqs
    BY DEF BlackjackInv, HandTypeOK, HandStates, RowStates
  <2> QED BY <2>1, HandCountsBest DEF BestTotal
<1> QED BY <1>1, TablesArePlayed, BlackjackInvariant, PTL
=============================================================================
