---------------------------- MODULE CasinoGames ----------------------------
(***************************************************************************)
(* src/lib/server/casino.ts: the four instant games of /api/casino/bet.    *)
(* Each draws a natural result from the seeds and, when that is a win the  *)
(* bankroll cannot cover, replaces it by a losing one.  A behaviour is one *)
(* call of one resolver on one natural draw; the draw (provably-fair.ts)   *)
(* is any value of its range.                                              *)
(*                                                                         *)
(* The code's floating-point rolls are multiples of 1/ROLL_STEPS here,     *)
(* scaled by 100 * ROLL_STEPS.  A bet is decided on the roll itself and    *)
(* the roll is shown rounded to a hundredth.                               *)
(***************************************************************************)
EXTENDS Integers, FiniteSets, Sequences

CONSTANTS
    Amounts,            \* stakes tried, in USDC units
    Capacities,         \* availableCapacity tried
    Rtps,               \* rtpBps tried
    Targets,            \* dice targets tried
    ROLL_STEPS,         \* natural dice rolls per point
    NaturalRolls,       \* natural dice rolls tried, in 1/ROLL_STEPS of a point
    MULTIPLIER_SCALE,   \* the 1_000_000 of the dice multiplier
    Lines,              \* slot lines tried
    SlotRows            \* natural slot rows tried, five symbols each

ASSUME GamesAssumption ==
    /\ Amounts \subseteq Nat
    /\ Capacities \subseteq Nat
    /\ Rtps \subseteq 5000..9900
    /\ Targets \subseteq 1..98
    /\ ROLL_STEPS \in Nat \ {0}
    /\ NaturalRolls \subseteq 0..(100 * ROLL_STEPS - 1)
    /\ MULTIPLIER_SCALE \in Nat \ {0}
    /\ Lines \subseteq 1..20
    /\ SlotRows \subseteq [1..5 -> 0..6]

VARIABLE result     \* the resolver's inputs and what it returned

NoResult == [game |-> "none"]

(* The resolution of `game`: what was drawn and shown, whether it was       *)
(* remapped, and the payout.                                               *)
resolution(game, amount, capacity, input, natural, shown, remapped, quoted, payout) ==
    [game |-> game, amount |-> amount, capacity |-> capacity, input |-> input,
     natural |-> natural, shown |-> shown, remapped |-> remapped,
     quoted |-> quoted, payout |-> payout]

-----------------------------------------------------------------------------
(* Dice *)

Directions == {"over", "under"}
scaledTarget(target) == 100 * ROLL_STEPS * target

diceWins(scaledRoll, target, direction) ==
    IF direction = "over" THEN scaledRoll > scaledTarget(target)
                          ELSE scaledRoll < scaledTarget(target)

(* Variant of diceMultiplier: no house edge. *)
diceMultiplierNoEdge(target, direction, rtpBps) ==
    LET percent == IF direction = "over" THEN 99 - target ELSE target
        divisor == 100 * percent
    IN  (2 * 10000 * MULTIPLIER_SCALE + divisor) \div (2 * divisor)

(* (1 - edge) / chance, rounded to the multiplier's scale. *)
diceMultiplier(target, direction, rtpBps) ==
    LET percent == IF direction = "over" THEN 99 - target ELSE target
        divisor == 100 * percent
    IN  (2 * rtpBps * MULTIPLIER_SCALE + divisor) \div (2 * divisor)

diceQuote(amount, target, direction, rtpBps) ==
    (amount * diceMultiplier(target, direction, rtpBps)) \div MULTIPLIER_SCALE

(* An order-preserving map of the whole range into the losing side. *)
diceRemap(natural, target, direction) ==
    IF direction = "under" THEN scaledTarget(target) + natural * (100 - target)
                           ELSE natural * target

(* Math.round(roll * 100) / 100: the nearest hundredth, halves upwards.     *)
shownRoll(roll) == ROLL_STEPS * ((2 * roll + ROLL_STEPS) \div (2 * ROLL_STEPS))

resolveDice(amount, capacity, target, direction, rtpBps, natural) ==
    LET quoted   == diceQuote(amount, target, direction, rtpBps)
        remapped == /\ diceWins(100 * natural, target, direction)
                    /\ quoted - amount > capacity
        roll     == IF remapped THEN diceRemap(natural, target, direction)
                                ELSE 100 * natural
    IN  result' = resolution("dice", amount, capacity,
                             [target |-> target, direction |-> direction, rtpBps |-> rtpBps],
                             shownRoll(100 * natural), shownRoll(roll), remapped, quoted,
                             IF diceWins(roll, target, direction) THEN quoted ELSE 0)

-----------------------------------------------------------------------------
(* Slots *)

WILD_INDEX == 6
SLOT_PAYOUTS == <<2, 3, 5, 15, 8, 25, 50>>     \* by symbol index, from 0

slotMatches(row) ==
    LET breaks == {c \in 2..5 : row[c] # row[1] /\ row[c] # WILD_INDEX}
    IN  IF breaks = {} THEN 5 ELSE CHOOSE m \in 1..4 : /\ m + 1 \in breaks
                                                      /\ \A c \in breaks : m < c

slotMultiplier(row) ==
    IF slotMatches(row) < 3 THEN 0 ELSE SLOT_PAYOUTS[row[1] + 1] * slotMatches(row)

firstNonMatchingSymbol(first) == IF first = 0 THEN 1 ELSE 0

(* Variant of breakRow: one reel too far to break three in a row. *)
breakRowTooFar(row) == [row EXCEPT ![4] = firstNonMatchingSymbol(row[1])]

breakRow(row) == [row EXCEPT ![3] = firstNonMatchingSymbol(row[1])]

scoredRows(lines) == IF lines < 3 THEN lines ELSE 3

perLine(amount, lines) == amount \div lines

slotDeficit(amount, lines, multiplier) ==
    LET payout == perLine(amount, lines) * multiplier
    IN  IF payout > amount THEN payout - amount ELSE 0

(* Variant of slotConfirmed: each row has a budget of its own. *)
slotConfirmedPerRow(amount, capacity, lines, rows) ==
    LET confirmed[r \in 0..3] ==
            IF r = 0 THEN 0
            ELSE LET more == confirmed[r - 1] + slotMultiplier(rows[r])
                 IN  IF r <= scoredRows(lines) /\ slotDeficit(amount, lines, slotMultiplier(rows[r])) <= capacity
                     THEN more ELSE confirmed[r - 1]
    IN  confirmed

(* confirmed[r]: the sum of the multipliers of the rows up to r that fit   *)
(* into the one budget of the spin.                                        *)
slotConfirmed(amount, capacity, lines, rows) ==
    LET confirmed[r \in 0..3] ==
            IF r = 0 THEN 0
            ELSE LET more == confirmed[r - 1] + slotMultiplier(rows[r])
                 IN  IF r <= scoredRows(lines) /\ slotDeficit(amount, lines, more) <= capacity
                     THEN more ELSE confirmed[r - 1]
    IN  confirmed

resolveSlots(amount, capacity, lines, rows) ==
    LET confirmed == slotConfirmed(amount, capacity, lines, rows)
        remappedAt(r) == /\ r <= scoredRows(lines)
                         /\ slotMultiplier(rows[r]) > 0
                         /\ confirmed[r] = confirmed[r - 1]
        reels == [r \in 1..3 |-> IF remappedAt(r) THEN breakRow(rows[r]) ELSE rows[r]]
    IN  result' = resolution("slots", amount, capacity, lines, rows, reels,
                             \E r \in 1..3 : remappedAt(r),
                             0, perLine(amount, lines) * confirmed[3])

-----------------------------------------------------------------------------
(* Roulette *)

RouletteBets ==
    [type : {"straight"}, selection : 0..36]
    \cup [type : {"red", "black", "even", "odd", "low", "high"}, selection : {0}]
    \cup [type : {"dozen", "column"}, selection : 1..3]

rouletteMultiplier(number, bet) ==
    LET covers ==
            CASE bet.type = "straight" -> number = bet.selection
              [] bet.type = "red"    -> number % 2 = 1
              [] bet.type = "black"  -> number # 0 /\ number % 2 = 0
              [] bet.type = "even"   -> number > 0 /\ number % 2 = 0
              [] bet.type = "odd"    -> number % 2 = 1
              [] bet.type = "low"    -> number \in 1..18
              [] bet.type = "high"   -> number \in 19..36
              [] bet.type = "dozen"  ->
                   number \in (12 * bet.selection - 11)..(12 * bet.selection)
              [] bet.type = "column" -> number > 0 /\ number % 3 = bet.selection % 3
    IN  CASE ~covers -> 0
          [] covers /\ bet.type = "straight" -> 36
          [] covers /\ bet.type \in {"dozen", "column"} -> 3
          [] OTHER -> 2

(* The nearest of the `losers` at or after `natural` + 1 on a wheel of      *)
(* `size`: where the remap walks of roulette and baccarat stop.            *)
walkToLoser(natural, size, losers) ==
    LET steps == {i \in 1..size : (natural + i) % size \in losers}
    IN  IF steps = {} THEN natural
        ELSE (natural + CHOOSE i \in steps : \A j \in steps : i <= j) % size

resolveRoulette(amount, capacity, bet, natural) ==
    LET multiplier == rouletteMultiplier(natural, bet)
        remapped == multiplier > 0 /\ amount * (multiplier - 1) > capacity
        losers == {n \in 0..36 : rouletteMultiplier(n, bet) = 0}
        number == IF remapped THEN walkToLoser(natural, 37, losers) ELSE natural
    IN  result' = resolution("roulette", amount, capacity, bet, natural, number, remapped,
                             amount * multiplier, amount * rouletteMultiplier(number, bet))

-----------------------------------------------------------------------------
(* Baccarat: a pair of point totals (player, banker), as 10 * p + b *)

BaccaratBets == {"player", "banker", "tie"}

baccaratWinner(pair) ==
    LET p == pair \div 10
        b == pair % 10
    IN  IF p > b THEN "player" ELSE IF b > p THEN "banker" ELSE "tie"

baccaratMultiplierX100(pair, bet) ==
    IF baccaratWinner(pair) # bet THEN 0
    ELSE CASE bet = "tie" -> 900 [] bet = "banker" -> 195 [] bet = "player" -> 200

resolveBaccarat(amount, capacity, bet, natural) ==
    LET x100 == baccaratMultiplierX100(natural, bet)
        remapped == x100 > 0 /\ (amount * (x100 - 100)) \div 100 > capacity
        losers == {n \in 0..99 : baccaratMultiplierX100(n, bet) = 0}
        pair == IF remapped THEN walkToLoser(natural, 100, losers) ELSE natural
    IN  result' = resolution("baccarat", amount, capacity, bet, natural, pair, remapped,
                             (amount * x100) \div 100,
                             (amount * baccaratMultiplierX100(pair, bet)) \div 100)

-----------------------------------------------------------------------------
Init == result = NoResult

Next ==
    /\ result = NoResult
    /\ \E a \in Amounts, c \in Capacities :
          \/ \E t \in Targets, d \in Directions, r \in Rtps, n \in NaturalRolls :
                 resolveDice(a, c, t, d, r, n)
          \/ \E l \in Lines, rows \in [1..3 -> SlotRows] : resolveSlots(a, c, l, rows)
          \/ \E bet \in RouletteBets, n \in 0..36 : resolveRoulette(a, c, bet, n)
          \/ \E bet \in BaccaratBets, pair \in 0..99 : resolveBaccarat(a, c, bet, pair)

Spec == Init /\ [][Next]_result

-----------------------------------------------------------------------------
(* Properties *)

shownPays ==
    CASE result.game = "dice" ->
           IF diceWins(result.shown, result.input.target, result.input.direction)
           THEN result.quoted ELSE 0
      [] result.game = "slots" ->
           LET scored == 1..scoredRows(result.input)
               m(r) == IF r \in scored THEN slotMultiplier(result.shown[r]) ELSE 0
           IN  perLine(result.amount, result.input) * (m(1) + m(2) + m(3))
      [] result.game = "roulette" ->
           result.amount * rouletteMultiplier(result.shown, result.input)
      [] result.game = "baccarat" ->
           (result.amount * baccaratMultiplierX100(result.shown, result.input)) \div 100

(* A dice roll is shown on the very target it is compared with.             *)
shownOnTarget ==
    result.game = "dice" /\ result.shown = scaledTarget(result.input.target)

(* What the player is shown is what is paid: evaluating the displayed roll, *)
(* reels, number or hand by the game's own rules gives the payout, also    *)
(* after a remap, whose walk or transform must land in the losing region.  *)
(* Only a dice roll that is rounded onto its target, to the last hundredth,*)
(* may be paid as the winner it was before the rounding.                   *)
ShownIsPaid ==
    result # NoResult =>
        \/ result.payout = shownPays
        \/ shownOnTarget /\ result.payout = result.quoted

(* The gate is exact: no payout needs more than the available capacity on  *)
(* top of the stake, and a natural win of a single-draw game that does not *)
(* is paid as quoted.                                                      *)
GateExact ==
    result # NoResult =>
        /\ result.payout > 0 => result.payout - result.amount <= result.capacity
        /\ ~result.remapped => result.shown = result.natural
        /\ result.remapped /\ result.game # "slots" =>
               result.quoted - result.amount > result.capacity /\ result.payout = 0

MaxMultiplierX100 == [dice |-> 9900, slots |-> 5000, roulette |-> 3600, baccarat |-> 900]

withinReserve ==
    result.payout <= (result.amount * MaxMultiplierX100[result.game]) \div 100

(* A payout never exceeds what placeCasinoBet reserved for it at the       *)
(* initial maxMultiplierX100 of its game.  Slots are left out: a row pays  *)
(* its multiplier times its matches, up to 250x with 50x reserved.         *)
TableGamesWithinReserve ==
    result # NoResult /\ result.game # "slots" => withinReserve
=============================================================================
