----------------------------- MODULE MarketLife -----------------------------
(***************************************************************************)
(* A market from the final whistle to the last claim: the settlement       *)
(* runners of MarketSettlement, the live feed and the handlers that write  *)
(* its scores (src/workers/oracle-sync.worker.ts), the admin's suspend     *)
(* switch, and the bettors' routes.                                        *)
(***************************************************************************)
EXTENDS MarketSettlement

-----------------------------------------------------------------------------
(* The feed *)

(* The feed stops listing the match. *)
feedDrops(m) ==
    /\ inCache[m]
    /\ inCache' = [inCache EXCEPT ![m] = FALSE]
    /\ UNCHANGED <<ledgerVars, chainParlays, reports, judged, outcomes, rowVars, runners, tick,
                   missed, faults>>

-----------------------------------------------------------------------------
(* oracle-sync.worker *)

rowScore(m, status, s) ==
    marketRows' = [marketRows EXCEPT ![m].status = status, ![m].score = s]

handleFinished(m) ==
    /\ marketRows[m].status # "CANCELLED"
    /\ \E s \in reports[m] : marketRows' = [marketRows EXCEPT ![m].score = s]
    /\ UNCHANGED <<ledgerVars, chainParlays, matchVars, betRows, parlayRows, runners, tick,
                   missed, faults>>

(* handleLive and upsertFixture: the row's status is read ... A match the   *)
(* feed lists as finished is not in play, and its row becomes SETTLED.     *)
handleLive(m) ==
    /\ tick = NoTick
    /\ marketRows[m].status \notin {"SETTLED", "CANCELLED"}
    /\ \E s \in reports[m] :
          tick' = [pc |-> IF inCache[m] THEN "LIVE" ELSE "SETTLED", market |-> m, score |-> s]
    /\ UNCHANGED <<ledgerVars, chainParlays, matchVars, rowVars, runners, missed, faults>>

(* ... and the row written later, whatever its status is by then. *)
upsertFromOracle ==
    /\ tick.pc \in {"LIVE", "SETTLED"}
    /\ rowScore(tick.market, tick.pc, tick.score)
    /\ tick' = NoTick
    /\ UNCHANGED <<ledgerVars, chainParlays, matchVars, betRows, parlayRows, runners, missed,
                   faults>>

(* reconcileLiveScoresFromCache: a match in play takes the cached score ... *)
reconcileLiveScores(m) ==
    /\ tick = NoTick
    /\ inCache[m] /\ unfinished(m)
    /\ \E s \in reports[m] : /\ rowScore(m, "LIVE", s)
                             /\ tick' = [pc |-> "Legs", market |-> m, score |-> s]
    /\ UNCHANGED <<ledgerVars, chainParlays, matchVars, betRows, parlayRows, runners, missed,
                   faults>>

(* ... and then its legs are opened again, and the parlays they are in. *)
reopenLegs ==
    /\ tick.pc = "Legs"
    /\ parlayRows' = [p \in Parlays |->
          IF legsOn(p, tick.market) = {} THEN parlayRows[p]
          ELSE [status |-> "PENDING",
                legs |-> [i \in DOMAIN ParlayLegs[p] |->
                            IF i \in legsOn(p, tick.market) THEN "PENDING"
                                                            ELSE parlayRows[p].legs[i]]]]
    /\ tick' = NoTick
    /\ UNCHANGED <<ledgerVars, chainParlays, matchVars, marketRows, betRows, runners, missed,
                   faults>>

-----------------------------------------------------------------------------
(* The admin's switch and the bettors *)

(* The switch looks at no other status than SUSPENDED; resume/route.ts is   *)
(* the second half of it.                                                  *)
suspendToggle(m) ==
    /\ mayFail
    /\ marketRows' = [marketRows EXCEPT ![m].status =
                        IF @ = "SUSPENDED" THEN "OPEN" ELSE "SUSPENDED"]
    /\ UNCHANGED <<ledgerVars, chainParlays, matchVars, betRows, parlayRows, runners, tick,
                   missed>>

(* A bet is recorded once it is on chain, whatever has become of its market *)
(* since.                                                                  *)
recordBet(b) ==
    /\ betRows[b] = "None" /\ chainBets[b].status # "None"
    /\ betRows' = [betRows EXCEPT ![b] = "PENDING"]
    /\ UNCHANGED <<ledgerVars, chainParlays, matchVars, marketRows, parlayRows, runners, tick,
                   missed, faults>>

onChain(A) == A /\ UNCHANGED <<chainParlays, matchVars, rowVars, runners, tick, missed, faults>>

claimWinnings(b) == onChain(cash(b))
claimRefund(b)   == onChain(refund(b))

rowBecomes(b, from, status) ==
    /\ betRows[b] = from
    /\ betRows' = [betRows EXCEPT ![b] = status]
    /\ UNCHANGED <<ledgerVars, chainParlays, matchVars, marketRows, parlayRows, runners, tick,
                   missed, faults>>

recordClaim(b) == chainBets[b].status = "Cashed" /\ rowBecomes(b, "WON", "CLAIMED")

(* verifyClaim wants a RefundClaimed event; a voided bet has none. *)
recordRefund(b) ==
    /\ isIn(b, Offer[b].market, {"Cancelled"})
    /\ chainMarkets[Offer[b].market].status = "Cancelled"
    /\ rowBecomes(b, "CANCELLED", "REFUNDED")

(* BettingCore's _evaluateParlay. *)
legOf(p, i) == chainMarkets[ParlayLegs[p][i].market]

parlayVerdict(p) ==
    LET stops == {i \in DOMAIN ParlayLegs[p] :
                    \/ legOf(p, i).status = "Open"
                    \/ /\ legOf(p, i).status = "Settled"
                       /\ legOf(p, i).winningOutcome # ParlayLegs[p][i].selection.outcome}
        first == CHOOSE i \in stops : \A j \in stops : i <= j
    IN  IF stops # {} THEN IF legOf(p, first).status = "Open" THEN "Pending" ELSE "Lost"
        ELSE IF \E i \in DOMAIN ParlayLegs[p] : legOf(p, i).status = "Cancelled" THEN "Void"
        ELSE "Won"

(* claimParlayWinnings, claimParlayRefund and reportParlayLoss on chain. *)
resolveParlay(p) ==
    /\ chainParlays[p] = "Pending"
    /\ parlayVerdict(p) # "Pending"
    /\ chainParlays' = [chainParlays EXCEPT ![p] = parlayVerdict(p)]
    /\ UNCHANGED <<ledgerVars, matchVars, rowVars, runners, tick, missed, faults>>

recordParlayClaim(p) ==
    /\ \/ /\ chainParlays[p] = "Won" /\ parlayRows[p].status = "WON"
          /\ parlayRows' = [parlayRows EXCEPT ![p].status = "CLAIMED"]
       \/ /\ chainParlays[p] = "Void" /\ parlayRows[p].status \notin {"CLAIMED", "REFUNDED"}
          /\ parlayRows' = [parlayRows EXCEPT ![p].status = "REFUNDED"]
    /\ UNCHANGED <<ledgerVars, chainParlays, matchVars, marketRows, betRows, runners, tick,
                   missed, faults>>

-----------------------------------------------------------------------------
feedStep(m)  == handleFinished(m) \/ handleLive(m) \/ reconcileLiveScores(m)
bettorStep(b) ==
    recordBet(b) \/ claimWinnings(b) \/ claimRefund(b) \/ recordClaim(b) \/ recordRefund(b)

LifeNext ==
    \/ \E r \in Runners : startRunner(r) \/ runStep(r) \/ failure(r)
    \/ \E m \in Markets : feedDrops(m) \/ feedStep(m) \/ suspendToggle(m)
    \/ upsertFromOracle \/ reopenLegs
    \/ \E b \in Bets : bettorStep(b)
    \/ \E p \in Parlays : resolveParlay(p) \/ recordParlayClaim(p)

(* The sweep and the stuck-market canceller are run by timers and go on     *)
(* once started, where a runner is given them alone; the feed stops        *)
(* listing a match that is over.  No other runner is counted on.           *)
Fairness ==
    /\ \A r \in {q \in Runners : Duties[q] = {"sweep"}} :
          WF_settlementVars(sweep(r) \/ runStep(r))
    /\ \A r \in {q \in Runners : Duties[q] = {"stuck"}} :
          WF_settlementVars(recoverStuck(r) \/ runStep(r))
    /\ WF_settlementVars(\E m \in Markets : feedDrops(m))

LifeSpec == SettlementInit /\ [][LifeNext]_settlementVars /\ Fairness

-----------------------------------------------------------------------------
(* Properties *)

(* The plans made for the bet's market, by whatever runner from whatever    *)
(* score, gave it one verdict, being left out counted as losing.           *)
alike(b) == \A v, w \in judged[b] : v = w

(* The plans made for the market were to store one outcome on chain. *)
oneOutcome(m) == \A o, q \in outcomes[m] : o = q

agreed(m) == oneOutcome(m) /\ \A b \in betsOn(m) : alike(b)

isSettled(b) == chainMarkets[Offer[b].market].status = "Settled"

(* On a market settled on chain a row says WON only of a bet the contract   *)
(* will pay or has paid, and LOST only of one it has left pending for good, *)
(* however many passes settled the market, from whatever scores and in     *)
(* whatever order, and wherever one of them stopped, provided that they    *)
(* agree on this bet.                                                      *)
RowsAgreeWithLedger ==
    \A b \in Bets :
        alike(b) /\ isSettled(b) =>
            /\ betRows[b] = "WON" => chainBets[b].status \in {"Won", "Cashed"}
            /\ betRows[b] = "LOST" => chainBets[b].status = "Pending"

(* A row says REFUNDED only of a stake that was given back, and, of a bet   *)
(* the plans agree on, CANCELLED only if it was or can be taken back, or   *)
(* the call that gives it back failed and that was logged.                 *)
RefundedRowTrue ==
    \A b \in Bets :
        /\ betRows[b] = "REFUNDED" => chainBets[b].status = "Cancelled"
        /\ alike(b) /\ betRows[b] = "CANCELLED" =>
              \/ chainBets[b].status = "Cancelled"
              \/ /\ isIn(b, Offer[b].market, {"Pending"})
                 /\ chainMarkets[Offer[b].market].status = "Cancelled"
              \/ missed \cap {<<"void", b>>, <<"cancel", Offer[b].market>>} # {}

(* A bet shown as won, lost or claimed is never shown otherwise later by a  *)
(* further pass, as long as the plans agree on the bet.                    *)
ResultsStand ==
    [][\A b \in Bets :
          alike(b) => /\ betRows[b] = "WON" => betRows'[b] \in {"WON", "CLAIMED"}
                      /\ betRows[b] \in {"LOST", "CLAIMED"} => betRows'[b] = betRows[b]]_settlementVars

(* The score the rows of a match are resolved from gives markets of every   *)
(* type verdicts that do not contradict each other.                        *)
MarketsConsistent ==
    [][\A m \in Markets :
          marketRows'[m].score \notin {NoScore, marketRows[m].score}
          => oneStory(marketRows'[m].score)]_settlementVars

(* A parlay row follows the legs' results and the contract the markets'    *)
(* 1X2 outcomes, each in its own time; they never contradict each other as *)
(* long as no leg's market was cancelled and the plans made for it agree.  *)
ParlayRowTrue ==
    \A p \in Parlays :
        (\A i \in DOMAIN ParlayLegs[p] : /\ legOf(p, i).status # "Cancelled"
                                         /\ agreed(ParlayLegs[p][i].market)) =>
            /\ parlayRows[p].status \in {"WON", "CLAIMED"} => parlayVerdict(p) = "Won"
            /\ parlayRows[p].status = "LOST" => parlayVerdict(p) # "Won"

resolved(m) ==
    \/ pendingOn(m) = {} /\ ~pendingLegOn(m)
    \/ marketRows[m].status = "CANCELLED" \/ chainMarkets[m].status = "Cancelled"

recorded(m) == marketRows[m].score # NoScore

(* The contract would refuse the sweep's settlement of the market.          *)
refused(m) ==
    LET winners == {b \in betsOn(m) : /\ plannable(b)
                                      /\ wins(Offer[b].selection, marketRows[m].score)}
    IN  /\ sweepable(m)
        /\ \/ chainMarkets[m].status = "Cancelled"
           \/ /\ chainMarkets[m].status = "Open"
              /\ \E b \in winners : chainBets[b].status # "Pending"
           \/ Cardinality(winners) > MAX_SETTLE_BATCH

someRefused == \E m \in Markets : refused(m)

(* Once the score of a match is recorded, every bet on it and every leg, a  *)
(* late one included, is resolved in the end, or its market is cancelled,  *)
(* unless some market of the sweep is refused again and again.             *)
PendingResolved ==
    <>[]~someRefused => \A m \in Markets : recorded(m) ~> resolved(m)

(* bets.repo says reconcileSettlement is given "the exact id sets that were *)
(* actually submitted on-chain", the chain being "the source of truth for   *)
(* what was paid", and that the voided are "refunded via voidBet": on a     *)
(* settled market a row says of a bet what the contract does.              *)
SettledRowsTrue ==
    \A b \in Bets :
        isSettled(b) =>
            /\ betRows[b] = "WON" => chainBets[b].status \in {"Won", "Cashed"}
            /\ betRows[b] = "LOST" => chainBets[b].status = "Pending"
            /\ betRows[b] = "CANCELLED" => chainBets[b].status = "Cancelled"

(* settlement.ts says the sweep finds the settled or live markets with a    *)
(* score that "still have unresolved pending bets or parlay legs, and      *)
(* settles them immediately": if the scores in the rows change no more,    *)
(* they are resolved in the end.                                           *)
RecordedResolved ==
    <>[][\A m \in Markets : marketRows'[m].score = marketRows[m].score]_settlementVars
        => \A m \in Markets : recorded(m) ~> resolved(m)
=============================================================================
