--------------------------- MODULE SettlementRules ---------------------------
(***************************************************************************)
(* src/lib/server/settlement.ts: how a selection of each market type       *)
(* resolves from a final score.                                            *)
(*                                                                         *)
(* A score is <<home, away>>.  A selection is a record: its market type,   *)
(* the outcome index the chain knows, and for the types resolved from the  *)
(* label what the label says.  Lines are counted in quarter goals, so that *)
(* a quarter line is an odd number; labels that do not parse are quarter   *)
(* lines here too: both are "unsupported".                                 *)
(***************************************************************************)
EXTENDS Integers

Goals(score) == score[1] + score[2]
Margin(score) == score[1] - score[2]

resolve1X2(score) ==
    IF Margin(score) > 0 THEN 0 ELSE IF Margin(score) < 0 THEN 2 ELSE 1

resolveOverUnder(line, score) == IF 4 * Goals(score) > line THEN 0 ELSE 1

resolveBtts(score) == IF score[1] > 0 /\ score[2] > 0 THEN 0 ELSE 1

(* The winning outcome of a type that has one per market, -1 for none. *)
resolveScoreBasedOutcome(sel, score) ==
    CASE sel.type = "1X2" -> resolve1X2(score)
      [] sel.type = "btts" -> resolveBtts(score)
      [] sel.type = "over_under" -> resolveOverUnder(sel.line, score)
      [] OTHER -> -1

(* Variant of resolveAsianHandicapBet: the line is given to the away side.  *)
resolveAsianHandicapBetAway(sel, score) ==
    LET margin == 4 * Margin(score) - sel.line IN
        IF sel.line % 2 = 1 THEN "unsupported"
        ELSE IF margin = 0 THEN "push"
        ELSE IF (margin > 0) = (sel.outcome = 0) THEN "win" ELSE "lose"

(* Outcome 0 backs the home side.  The label of the away side carries the  *)
(* home side's line as well.                                               *)
resolveAsianHandicapBet(sel, score) ==
    LET adjustedHomeMargin == 4 * Margin(score) + sel.line IN
        IF sel.line % 2 = 1 THEN "unsupported"
        ELSE IF adjustedHomeMargin = 0 THEN "push"
        ELSE IF (adjustedHomeMargin > 0) = (sel.outcome = 0) THEN "win" ELSE "lose"

(* The 1X2 results each combination covers. *)
Combination == [combo1X |-> {0, 1}, combo12 |-> {0, 2}, comboX2 |-> {1, 2}]

resolveDoubleChanceBet(sel, score) ==
    IF sel.label \notin DOMAIN Combination THEN "unsupported"
    ELSE IF resolve1X2(score) \in Combination[sel.label] THEN "win" ELSE "lose"

(* planScoreBasedSettlement's verdict on one bet. *)
verdict(sel, score) ==
    CASE sel.type = "asian_handicap" -> resolveAsianHandicapBet(sel, score)
      [] sel.type = "double_chance" -> resolveDoubleChanceBet(sel, score)
      [] OTHER -> IF resolveScoreBasedOutcome(sel, score) = -1 THEN "unsupported"
                  ELSE IF resolveScoreBasedOutcome(sel, score) = sel.outcome THEN "win"
                  ELSE "lose"

(* reconcileParlayLegsForMarket's result for one leg: what is not won or   *)
(* pushed is lost.                                                         *)
legResult(leg, score) ==
    CASE verdict(leg, score) = "win" -> "WON"
      [] verdict(leg, score) = "push" -> "VOID"
      [] OTHER -> "LOST"

-----------------------------------------------------------------------------
(* Properties *)

selection(type, outcome, line, label) ==
    [type |-> type, outcome |-> outcome, line |-> line, label |-> label]

handicap(side, line) == selection("asian_handicap", side, line, "")
result(outcome) == selection("1X2", outcome, 0, "")
overUnder(side, line) == selection("over_under", side, line, "")
double(label) == selection("double_chance", 0, 0, label)

wins(sel, score) == verdict(sel, score) = "win"

HandicapLines == {2 * n : n \in -6..6}

(* The markets of one fixture are resolved by different code and must tell *)
(* one story: a handicap of half a goal is the 1X2 market or the double    *)
(* chance, a level handicap is refunded exactly on a draw, ...             *)
handicapsAgree(s) ==
    /\ wins(handicap(0, -2), s) = wins(result(0), s)
    /\ wins(handicap(1, 2), s) = wins(result(2), s)
    /\ wins(handicap(0, 2), s) = wins(double("combo1X"), s)
    /\ wins(handicap(1, -2), s) = wins(double("comboX2"), s)
    /\ (verdict(handicap(0, 0), s) = "push") = wins(result(1), s)

(* ... a better line never turns a winner into a loser, the two sides of a *)
(* line split it, ...                                                      *)
linesSplit(s) ==
    \A l \in HandicapLines :
        /\ wins(handicap(0, l), s) = (verdict(handicap(1, l), s) = "lose")
        /\ wins(handicap(0, l), s) => wins(handicap(0, l + 2), s)
        /\ wins(overUnder(0, l), s) # wins(overUnder(1, l), s)

(* ... and both teams having scored means over a goal and a half.          *)
combinationsCover(s) ==
    /\ wins(selection("btts", 0, 0, ""), s) => wins(overUnder(0, 6), s)
    /\ \A d \in DOMAIN Combination :
          wins(double(d), s) = (\E o \in Combination[d] : wins(result(o), s))

oneStory(s) == handicapsAgree(s) /\ linesSplit(s) /\ combinationsCover(s)
=============================================================================
