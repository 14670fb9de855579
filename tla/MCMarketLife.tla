---------------------------- MODULE MCMarketLife ----------------------------
(* Small instances of MarketLife: two markets, on the first one a level     *)
(* handicap and a home win, on the second one a home win; a parlay over    *)
(* both.                                                                   *)
EXTENDS MarketLife

Nil == <<0, 0>>
One == <<1, 0>>
Two == <<2, 0>>

MatchBets ==
    <<[market |-> 1, selection |-> handicap(0, 0), payout |-> 20],
      [market |-> 1, selection |-> result(0), payout |-> 20],
      [market |-> 2, selection |-> result(0), payout |-> 20]>>

OneParlay == <<<<[market |-> 1, selection |-> result(0)], [market |-> 2, selection |-> result(0)]>>>>

(* The second match was settled before. *)
populationOf(scores, recordedBets, late, parlays) ==
    [reports |-> <<scores, {One}>>, settled |-> {2}, recorded |-> recordedBets, late |-> late,
     parlays |-> parlays, up |-> Runners, spent |-> 0]

faultless(S) == {[P EXCEPT !.spent = 1] : P \in S}

(* No bets: markets on which only the score matters.                       *)
ScoresOnly == faultless({populationOf({<<h, a>>}, {}, {}, {}) : h, a \in 0..2})

(* One score: a draw with a bet to void and a lost one, or a home win with  *)
(* a bet recorded late, a won bet or a won parlay.                         *)
Agreeing ==
    {populationOf({Nil}, {1, 2}, {}, {}), populationOf({One}, {}, {1}, {}),
     populationOf({One}, {2}, {}, {}), populationOf({One}, {}, {}, {1})}

(* Two scores: a draw and a home win, or one goal and two. *)
DrawOrWin == populationOf({Nil, One}, {1}, {}, {})

Disagreeing == faultless({DrawOrWin, populationOf({One, Two}, {2}, {}, {}),
                          populationOf({One, Two}, {}, {}, {1})})

(* No score: the match was postponed. *)
Postponed == faultless({populationOf({}, {1, 2}, {}, {})})

AnyScores == Agreeing \cup Disagreeing \cup Postponed

WonOrLost == faultless({populationOf({Nil, One}, {2}, {}, {})})

(* Both matches end now and the sweeper is alone: a bet on each, the first  *)
(* match with two scores or the second bet recorded late, or the parlay.   *)
BothEnd ==
    {[P EXCEPT !.settled = {}, !.up = {"sweeper"}] :
        P \in faultless({populationOf({Nil, One}, {1, 3}, {}, {})})
             \cup {populationOf({One}, {1}, {3}, {}), populationOf({One}, {}, {}, {1})}}

Resolvable == ScoresOnly \cup Agreeing \cup BothEnd

Disputed == {DrawOrWin}

RunnerNames == {"sweeper", "other"}
SweepAndOthers == [sweeper |-> {"sweep"}, other |-> {"event", "past", "admin", "cancel", "stuck"}]
SweepEventPast == [sweeper |-> {"sweep"}, other |-> {"event", "past"}]
SweepAndStuck  == [sweeper |-> {"sweep"}, other |-> {"stuck"}]

HomeTyped  == {One}
HomeForced == {<<"1X2", 0>>}
=============================================================================
