-------------------------- MODULE MarketSettlement --------------------------
(***************************************************************************)
(* Settling markets: src/workers/settlement.worker.ts,                     *)
(* src/workers/oracle-sync.worker.ts, the admin routes and                 *)
(* src/lib/server/settlement.ts, which they share, against the ledger of   *)
(* MarketLedger and the Market, Bet and Parlay rows.                       *)
(*                                                                         *)
(* A runner is one asynchronous call chain: a finished event, a sweep, the *)
(* past-kickoff resolver, an admin's request, the stuck-market canceller.  *)
(* Runners are in different processes and interleave at every await.  A    *)
(* transaction is first estimated (writeContract, which throws the error   *)
(* the contract would raise) and then mined, when it may revert without    *)
(* anyone noticing: the receipt's status is not read.                      *)
(*                                                                         *)
(* The model starts when the unsettled matches end or have been postponed: *)
(* every bet is on chain.  The cutoffs of the sweep and the resolver (100  *)
(* and 115 minutes) are past by then.  The sources need not agree on the   *)
(* final score: a finished event, the cache, the other feed and the row    *)
(* each give one of the scores reported of the match, an administrator any *)
(* score, or an outcome without one.                                       *)
(***************************************************************************)
EXTENDS MarketLedger, SettlementRules, Sequences, FiniteSets

CONSTANTS
    NumMarkets, NumBets, NumParlays,
    Offer,              \* per bet: market, selection, potentialPayout
    ParlayLegs,         \* per parlay: its legs, each a market and a selection
    Populations,        \* how the model may start: the scores reported of each match, the
                        \* markets settled before; bets recorded, bets to be recorded late
                        \* and parlays on chain; the runners that are up; how much of
                        \* MaxFaults is spent
    TypedScores,        \* scores an administrator may type
    Overrides,          \* <<marketType, winningOutcome>> an administrator may force
    Runners,            \* concurrent call chains
    Duties,             \* per runner: what it may run
    MAX_SETTLE_BATCH,
    ReviewThreshold,    \* DEFAULT_HIGH_LIABILITY_THRESHOLD_USDC
    MaxFaults           \* bound on failures and on what an administrator types, forces or
                        \* suspends

Markets == 1..NumMarkets
Bets    == 1..NumBets
Parlays == 1..NumParlays
Kinds   == {"event", "sweep", "past", "admin", "cancel", "stuck"}
NoScore == <<>>
Scores  == UNION {P.reports[m] : P \in Populations, m \in Markets}

ASSUME SettlementAssumption ==
    /\ NumMarkets \in Nat /\ NumBets \in Nat /\ NumParlays \in Nat
    /\ LedgerMarkets = Markets /\ LedgerBets = Bets
    /\ \A b \in Bets : Offer[b].market \in Markets /\ Offer[b].payout \in Nat
    /\ \A p \in Parlays : \A i \in DOMAIN ParlayLegs[p] : ParlayLegs[p][i].market \in Markets
    /\ \A P \in Populations : /\ P.reports \in [Markets -> SUBSET (Nat \X Nat)]
                              /\ P.recorded \cup P.late \subseteq Bets
                              /\ P.settled \subseteq Markets /\ P.parlays \subseteq Parlays
                              /\ P.up \subseteq Runners /\ P.spent \in Nat
    \* the settled markets were played, and their recorded bets resolved with them
    /\ \A P \in Populations : /\ \A m \in P.settled : P.reports[m] # {}
                              /\ \A b \in P.recorded : Offer[b].market \notin P.settled
    /\ TypedScores \subseteq Nat \X Nat
    /\ \A o \in Overrides : o[2] \in 0..10
    /\ \A r \in Runners : Duties[r] \subseteq Kinds
    /\ MAX_SETTLE_BATCH \in Nat /\ ReviewThreshold \in Nat /\ MaxFaults \in Nat

VARIABLES
    reports,        \* per match: the scores the sources report, none if it was postponed
    inCache,        \* per match: listed as in play in oracle:live:events
    judged,         \* history: per bet, the verdicts the plans for its market gave it
    outcomes,       \* history: per market, the outcomes its plans were to store on chain
    marketRows,     \* Market rows: status and score
    betRows,        \* Bet rows: status
    parlayRows,     \* Parlay rows: status and the result of each leg
    chainParlays,   \* per parlay: Pending or Paid, on chain
    runners,        \* per runner: where it is and what it holds
    tick,           \* the live handler of the sync worker
    missed,         \* history: voids that failed, cancels that reverted
    faults

matchVars == <<reports, inCache, judged, outcomes>>
rowVars   == <<marketRows, betRows, parlayRows>>
settlementVars == <<ledgerVars, chainParlays, matchVars, rowVars, runners, tick, missed, faults>>

NoPlan == [score |-> NoScore, type |-> "", outcome |-> 0, win |-> {}, void |-> {},
           unresolved |-> {}]
NoPass == [pc |-> "Idle", kind |-> "None", queue |-> {}, snap |-> <<>>, market |-> 0,
           plan |-> NoPlan, todo |-> {}, bet |-> 0]
Down   == [NoPass EXCEPT !.pc = "Down"]
NoTick == [pc |-> "Idle", market |-> 0, score |-> NoScore]

played(m) == reports[m] # {}
betsOn(m) == {b \in Bets : Offer[b].market = m}
legsOn(p, m) == {i \in DOMAIN parlayRows[p].legs : ParlayLegs[p][i].market = m}

(* Variant of parlayStatus: a leg without a result does not hold it back.   *)
parlayStatusEarly(legs, status) ==
    IF \E i \in DOMAIN legs : legs[i] = "LOST" THEN "LOST"
    ELSE IF \E i \in DOMAIN legs : legs[i] \in {"WON", "VOID"} THEN "WON"
    ELSE status

(* The status reconcileParlayLegsForMarket gives a parlay. *)
parlayStatus(legs, status) ==
    IF \E i \in DOMAIN legs : legs[i] = "LOST" THEN "LOST"
    ELSE IF \A i \in DOMAIN legs : legs[i] \in {"WON", "VOID"} THEN "WON"
    ELSE status

settledLegs(P, p, first) ==
    [i \in DOMAIN ParlayLegs[p] |->
       LET leg == ParlayLegs[p][i]
       IN  IF leg.market \in P.settled THEN legResult(leg.selection, first[leg.market])
                                           ELSE "PENDING"]

(* The rows and the ledger when the matches end as P says and the rows hold *)
(* the scores first: the markets settled before were settled by theirs.    *)
populatedBy(P, first) ==
    /\ reports = P.reports
    /\ chainMarkets = [m \in Markets |->
          IF m \in P.settled
          THEN [status |-> "Settled", winningOutcome |-> resolve1X2(first[m])]
          ELSE [status |-> "Open", winningOutcome |-> 0]]
    /\ marketRows = [m \in Markets |->
          [status |-> IF m \in P.settled THEN "SETTLED"
                      ELSE IF first[m] # NoScore THEN "LIVE" ELSE "OPEN",
           score |-> first[m]]]
    /\ inCache = [m \in Markets |-> m \notin P.settled /\ played(m)]
    /\ chainBets = [b \in Bets |-> IF b \in P.recorded \cup P.late
                                   THEN [status |-> "Pending", market |-> Offer[b].market]
                                   ELSE [status |-> "None", market |-> 0]]
    /\ betRows = [b \in Bets |-> IF b \in P.recorded THEN "PENDING" ELSE "None"]
    /\ judged = [b \in Bets |-> IF Offer[b].market \in P.settled THEN {"lose"} ELSE {}]
    /\ outcomes = [m \in Markets |-> IF m \in P.settled THEN {resolve1X2(first[m])} ELSE {}]
    /\ chainParlays = [p \in Parlays |-> IF p \in P.parlays THEN "Pending" ELSE "None"]
    /\ parlayRows = [p \in Parlays |->
          IF p \in P.parlays THEN [status |-> parlayStatus(settledLegs(P, p, first), "PENDING"),
                                   legs |-> settledLegs(P, p, first)]
                             ELSE [status |-> "None", legs |-> <<>>]]
    /\ runners = [r \in Runners |-> IF r \in P.up THEN NoPass ELSE Down]
    /\ faults = P.spent

populated(P) ==
    \E first \in [Markets -> Scores \cup {NoScore}] :
        /\ \A m \in Markets : first[m] \in P.reports[m] \cup {NoScore}
        /\ \A m \in P.settled : first[m] # NoScore
        /\ populatedBy(P, first)

SettlementInit ==
    /\ \E P \in Populations : populated(P)
    /\ tick = NoTick
    /\ missed = {}

(* One more failure or intervention, within the bound. *)
mayFail == faults < MaxFaults /\ faults' = faults + 1

-----------------------------------------------------------------------------
(* How a call chain moves on *)

at(r, pc) == runners[r].pc = pc
marketOf(r) == runners[r].market
planOf(r) == runners[r].plan
moveTo(r, pc) == runners' = [runners EXCEPT ![r].pc = pc]

(* The next market of a sweep's list, or the end. *)
passDone(r) ==
    LET pass == runners[r] IN
        runners' = [runners EXCEPT ![r] =
                      IF pass.queue = {} THEN NoPass
                      ELSE [NoPass EXCEPT !.pc = "Next", !.kind = pass.kind,
                                          !.queue = pass.queue, !.snap = pass.snap]]

(* An error ends the whole loop, except that recoverStuckSportsMarkets     *)
(* catches it for each market.                                             *)
passFails(r) ==
    IF runners[r].kind = "stuck" THEN passDone(r)
    ELSE runners' = [runners EXCEPT ![r] = NoPass]

pendingOn(m) == {b \in betsOn(m) : betRows[b] = "PENDING"}
pendingLegOn(m) ==
    \E p \in Parlays : \E i \in legsOn(p, m) : parlayRows[p].legs[i] = "PENDING"
hasMoney(m) ==
    \/ \E b \in betsOn(m) : betRows[b] # "None"
    \/ \E p \in Parlays : legsOn(p, m) # {}
unfinished(m) == marketRows[m].status \in {"OPEN", "LIVE", "SUSPENDED"}

startPass(r, kind, m, pc, plan) ==
    /\ at(r, "Idle") /\ kind \in Duties[r]
    /\ runners' = [runners EXCEPT ![r] = [NoPass EXCEPT !.pc = pc, !.kind = kind,
                                                        !.market = m, !.plan = plan]]
    /\ UNCHANGED <<ledgerVars, chainParlays, matchVars, rowVars, tick, missed>>

(* The rows are read once, when the loop starts. *)
startLoop(r, kind, S) ==
    /\ at(r, "Idle") /\ kind \in Duties[r]
    /\ S # {}
    /\ runners' = [runners EXCEPT ![r] = [NoPass EXCEPT !.pc = "Next", !.kind = kind,
                                            !.queue = S, !.snap = [m \in S |-> marketRows[m]]]]
    /\ UNCHANGED <<ledgerVars, chainParlays, matchVars, rowVars, tick, missed, faults>>

-----------------------------------------------------------------------------
(* What starts a pass *)

(* settlement.worker: a finished event arrives, with the last score the     *)
(* poller saw.                                                             *)
finishedEvent(r, m) ==
    /\ marketRows[m].status # "CANCELLED"
    /\ marketRows[m].status = "SETTLED" => pendingOn(m) # {}
    /\ \E s \in reports[m] :
          startPass(r, "event", m, "Record", [NoPlan EXCEPT !.score = s])
    /\ UNCHANGED faults

(* Variant of sweepable: settled rows are not looked at again. *)
sweepableOpenOnly(m) ==
    /\ marketRows[m].score # NoScore
    /\ unfinished(m)
    /\ pendingOn(m) # {} \/ pendingLegOn(m)
    /\ ~inCache[m]

(* settleFinishedMarketsWithPendingBets, at start and every 60 s. *)
sweepable(m) ==
    /\ marketRows[m].score # NoScore
    /\ unfinished(m) \/ marketRows[m].status = "SETTLED"
    /\ pendingOn(m) # {} \/ pendingLegOn(m)
    /\ ~inCache[m]

sweep(r) == startLoop(r, "sweep", {m \in Markets : sweepable(m)})

(* resolvePastKickoffMatchesWithBets, every 60 s. *)
pastDue(m) ==
    /\ unfinished(m) \/ marketRows[m].status = "SETTLED"
    /\ hasMoney(m)
    /\ ~inCache[m]

resolvePastKickoff(r) == startLoop(r, "past", {m \in Markets : pastDue(m)})

(* recoverStuckSportsMarkets: 24 hours without an update, which may have   *)
(* passed between any two steps; 4 hours for a market without bets, which  *)
(* is cancelled in the table alone.                                        *)
recoverStuck(r) ==
    \/ startLoop(r, "stuck", {m \in Markets : unfinished(m) /\ hasMoney(m)})
    \/ \E m \in Markets : /\ unfinished(m) /\ ~hasMoney(m)
                         /\ startPass(r, "stuck", m, "CancelRow", NoPlan)
                         /\ UNCHANGED faults

adminMay(m) == marketRows[m].status \notin {"SETTLED", "CANCELLED"}

(* The admin types a score ... *)
adminSettle(r, m) ==
    /\ adminMay(m) /\ mayFail
    /\ \E s \in TypedScores :
          startPass(r, "admin", m, "Record", [NoPlan EXCEPT !.score = s])

(* ... or forces an outcome for one market type.                            *)
adminOverride(r, m) ==
    /\ adminMay(m) /\ mayFail
    /\ \E o \in Overrides :
          startPass(r, "admin", m, "PlanDirect",
                    [NoPlan EXCEPT !.type = o[1], !.outcome = o[2]])

adminCancel(r, m) ==
    adminMay(m) /\ startPass(r, "cancel", m, "Cancel", NoPlan) /\ UNCHANGED faults

(* findScoreForTeams: what the other feed may say of a match that is over.  *)
(* It lists a postponed or cancelled one as finished, with the score 0-0   *)
(* for want of one.                                                        *)
findScore(m) == IF played(m) THEN reports[m] ELSE {<<0, 0>>}

nothingToDo(row, s) == s = NoScore \/ (s = row.score /\ row.status = "SETTLED")

(* One market of a loop.  The past-kickoff resolver looks the score up in  *)
(* another feed, falls back on the one it read, and skips a market that    *)
(* has no score or would not change: a settled one is settled again by     *)
(* another score.                                                          *)
nextMarket(r) ==
    /\ at(r, "Next")
    /\ \E m \in runners[r].queue :
         LET row == runners[r].snap[m]
             rest == runners[r].queue \ {m}
             left == [n \in rest |-> runners[r].snap[n]]
             take(pc, s) ==
               runners' = [runners EXCEPT ![r].pc = pc, ![r].market = m, ![r].queue = rest,
                                          ![r].snap = left,
                                          ![r].plan = [NoPlan EXCEPT !.score = s]]
             skip ==
               runners' = [runners EXCEPT ![r] =
                             IF rest = {} THEN NoPass
                             ELSE [@ EXCEPT !.queue = rest, !.snap = left]]
         IN  \/ runners[r].kind = "sweep" /\ take("Plan", row.score)
             \/ runners[r].kind = "stuck" /\ take("Cancel", NoScore)
             \/ /\ runners[r].kind = "past"
                /\ \E s \in findScore(m) \cup {row.score} :
                     IF nothingToDo(row, s) THEN skip ELSE take("Record", s)
    /\ UNCHANGED <<ledgerVars, chainParlays, matchVars, rowVars, tick, missed, faults>>

-----------------------------------------------------------------------------
(* Recording the score, planning and the risk gate *)

(* Only the past-kickoff resolver marks the row SETTLED before anything has *)
(* happened on chain.                                                      *)
recordScore(r) ==
    /\ at(r, "Record")
    /\ marketRows' = [marketRows EXCEPT ![marketOf(r)].score = planOf(r).score,
                        ![marketOf(r)].status = IF runners[r].kind = "past" THEN "SETTLED" ELSE @]
    /\ moveTo(r, "Plan")
    /\ UNCHANGED <<ledgerVars, chainParlays, matchVars, betRows, parlayRows, tick, missed, faults>>

plannable(b) == betRows[b] \notin {"None", "CLAIMED", "REFUNDED"}

verdictIn(plan, b) ==
    IF b \in plan.win THEN "win" ELSE IF b \in plan.void THEN "push" ELSE "lose"

(* The pass goes on with a plan; a bet the plan does not name, recorded or  *)
(* not, is one the settlement leaves out.                                  *)
plans(r, plan, pc) ==
    /\ runners' = [runners EXCEPT ![r].plan = plan, ![r].todo = plan.void, ![r].pc = pc]
    /\ judged' = [b \in Bets |->
          IF b \in betsOn(marketOf(r)) /\ betRows[b] # "CLAIMED"
          THEN judged[b] \cup {verdictIn(plan, b)} ELSE judged[b]]
    /\ outcomes' = [outcomes EXCEPT ![marketOf(r)] = @ \cup {plan.outcome}]
    /\ UNCHANGED <<ledgerVars, chainParlays, reports, inCache, rowVars, tick, missed, faults>>

scorePlan(r) ==
    LET s == planOf(r).score
        those(v) == {b \in betsOn(marketOf(r)) :
                       plannable(b) /\ verdict(Offer[b].selection, s) = v}
    IN  [planOf(r) EXCEPT !.outcome = resolve1X2(s), !.win = those("win"),
                          !.void = those("push"), !.unresolved = those("unsupported")]

(* Variant of planScoreBasedSettlement: settles without voiding first. *)
planWithoutVoids(r) == at(r, "Plan") /\ plans(r, scorePlan(r), "Settle")

planScoreBasedSettlement(r) ==
    /\ at(r, "Plan")
    /\ plans(r, scorePlan(r), IF runners[r].kind = "event" THEN "Assess"
                              ELSE IF scorePlan(r).void # {} THEN "Void" ELSE "Settle")

(* An administrator's outcome decides the pending bets of one type; the     *)
(* other types are reported as unresolved.                                 *)
planDirectOutcomeSettlement(r) ==
    LET forced == planOf(r)
        ofType == {b \in pendingOn(marketOf(r)) : Offer[b].selection.type = forced.type}
    IN  /\ at(r, "PlanDirect")
        /\ plans(r, [forced EXCEPT
                       !.win = {b \in ofType : Offer[b].selection.outcome = forced.outcome},
                       !.unresolved = pendingOn(marketOf(r)) \ ofType], "Settle")

liability(S) ==
    LET total[n \in 0..NumBets] == IF n = 0 THEN 0
                                   ELSE total[n - 1] + IF n \in S THEN Offer[n].payout ELSE 0
    IN  total[NumBets]

(* Above the threshold the event only flags the market and stops. *)
assessMarketSettlementRisk(r) ==
    /\ at(r, "Assess")
    /\ IF liability(pendingOn(marketOf(r))) >= ReviewThreshold
       THEN passDone(r)
       ELSE moveTo(r, IF runners[r].todo # {} THEN "Void" ELSE "Settle")
    /\ UNCHANGED <<ledgerVars, chainParlays, matchVars, rowVars, tick, missed, faults>>

-----------------------------------------------------------------------------
(* executeMarketSettlement: voids *)

betDone(r, b) ==
    runners' = [runners EXCEPT ![r].todo = @ \ {b}, ![r].bet = 0,
                  ![r].pc = IF runners[r].todo = {b} THEN "Settle" ELSE "Void"]

voidable(b) ==
    chainBets[b].status = "Pending" /\ chainMarkets[Offer[b].market].status = "Open"

(* A bet another pass has marked is skipped. *)
voidSkipped(r, b) ==
    /\ at(r, "Void") /\ b \in runners[r].todo
    /\ betRows[b] = "CANCELLED"
    /\ betDone(r, b)
    /\ UNCHANGED <<ledgerVars, chainParlays, matchVars, rowVars, tick, missed, faults>>

voidSent(r, b) ==
    /\ at(r, "Void") /\ b \in runners[r].todo
    /\ betRows[b] # "CANCELLED"
    /\ voidable(b)
    /\ runners' = [runners EXCEPT ![r].pc = "VoidSent", ![r].bet = b]
    /\ UNCHANGED <<ledgerVars, chainParlays, matchVars, rowVars, tick, missed, faults>>

(* BetNotRefundable and MarketAlreadySettled mark the row; a cancelled      *)
(* market's error is only logged.                                          *)
voidRefused(r, b) ==
    /\ at(r, "Void") /\ b \in runners[r].todo
    /\ betRows[b] # "CANCELLED"
    /\ ~voidable(b)
    /\ betRows' = IF chainBets[b].status = "Pending"
                     /\ chainMarkets[marketOf(r)].status = "Cancelled"
                  THEN betRows ELSE [betRows EXCEPT ![b] = "CANCELLED"]
    /\ betDone(r, b)
    /\ UNCHANGED <<ledgerVars, chainParlays, matchVars, marketRows, parlayRows, tick, missed,
                   faults>>

voidMined(r) ==
    /\ at(r, "VoidSent")
    /\ IF voidable(runners[r].bet) THEN void(runners[r].bet) ELSE UNCHANGED ledgerVars
    /\ moveTo(r, "Voided")
    /\ UNCHANGED <<chainParlays, matchVars, rowVars, tick, missed, faults>>

markVoided(r) ==
    /\ at(r, "Voided")
    /\ betRows' = [betRows EXCEPT ![runners[r].bet] = "CANCELLED"]
    /\ betDone(r, runners[r].bet)
    /\ UNCHANGED <<ledgerVars, chainParlays, matchVars, marketRows, parlayRows, tick, missed,
                   faults>>

-----------------------------------------------------------------------------
(* executeMarketSettlement: settleMarket *)

(* totalPayoutRequired is the sum over all listed winners, the contract    *)
(* adds up the pending ones.                                               *)
settleError(r) ==
    LET status == chainMarkets[marketOf(r)].status IN
        CASE Cardinality(planOf(r).win) > MAX_SETTLE_BATCH -> "TooManyBets"
          [] status = "Settled" -> "MarketAlreadySettled"
          [] status = "Cancelled" -> "MarketAlreadyCancelled"
          [] \E b \in planOf(r).win : chainBets[b].status # "Pending" -> "PayoutSumMismatch"
          [] OTHER -> "None"

settleSent(r) ==
    /\ at(r, "Settle")
    /\ settleError(r) = "None"
    /\ moveTo(r, "SettleSent")
    /\ UNCHANGED <<ledgerVars, chainParlays, matchVars, rowVars, tick, missed, faults>>

settleRefused(r) ==
    /\ at(r, "Settle")
    /\ settleError(r) # "None"
    /\ IF settleError(r) = "MarketAlreadySettled" THEN moveTo(r, "Reconcile") ELSE passFails(r)
    /\ UNCHANGED <<ledgerVars, chainParlays, matchVars, rowVars, tick, missed, faults>>

(* Mined; if it reverted, the code goes on all the same. *)
settleMined(r) ==
    /\ at(r, "SettleSent")
    /\ IF settleError(r) = "None"
       THEN settle(marketOf(r), planOf(r).outcome, planOf(r).win)
       ELSE UNCHANGED ledgerVars
    /\ moveTo(r, "Reconcile")
    /\ UNCHANGED <<chainParlays, matchVars, rowVars, tick, missed, faults>>

-----------------------------------------------------------------------------
(* executeMarketSettlement: the rows *)

(* A plan without a score leaves the legs alone. *)
afterRows(r) ==
    IF planOf(r).score # NoScore /\ \E p \in Parlays : legsOn(p, marketOf(r)) # {}
    THEN "Legs" ELSE "Close"

(* Variant of reconcileSettlement: the winners' update does not spare       *)
(* claimed rows.                                                           *)
reconcileClaimedToo(r) ==
    /\ at(r, "Reconcile")
    /\ betRows' = [b \in Bets |->
          IF b \notin betsOn(marketOf(r)) \/ betRows[b] = "None" THEN betRows[b]
          ELSE IF b \in planOf(r).win THEN "WON"
          ELSE IF betRows[b] \in {"CLAIMED", "REFUNDED"} THEN betRows[b]
          ELSE IF b \in planOf(r).void THEN "CANCELLED" ELSE "LOST"]
    /\ moveTo(r, afterRows(r))
    /\ UNCHANGED <<ledgerVars, chainParlays, matchVars, marketRows, parlayRows, tick, missed,
                   faults>>

(* Variant of reconcileSettlement: the losers' update spares the voided     *)
(* bets only.                                                              *)
reconcileWinnersLost(r) ==
    /\ at(r, "Reconcile")
    /\ betRows' = [b \in Bets |->
          IF b \notin betsOn(marketOf(r)) \/ betRows[b] \in {"None", "CLAIMED", "REFUNDED"}
          THEN betRows[b]
          ELSE IF b \in planOf(r).void THEN "CANCELLED" ELSE "LOST"]
    /\ moveTo(r, afterRows(r))
    /\ UNCHANGED <<ledgerVars, chainParlays, matchVars, marketRows, parlayRows, tick, missed,
                   faults>>

(* One transaction: what is neither won nor voided is lost. *)
reconcileSettlement(r) ==
    /\ at(r, "Reconcile")
    /\ betRows' = [b \in Bets |->
          IF b \notin betsOn(marketOf(r)) \/ betRows[b] \in {"None", "CLAIMED"} THEN betRows[b]
          ELSE IF b \in planOf(r).win THEN "WON"
          ELSE IF betRows[b] = "REFUNDED" THEN betRows[b]
          ELSE IF b \in planOf(r).void THEN "CANCELLED" ELSE "LOST"]
    /\ moveTo(r, afterRows(r))
    /\ UNCHANGED <<ledgerVars, chainParlays, matchVars, marketRows, parlayRows, tick, missed,
                   faults>>

resolveLegs(r) ==
    /\ at(r, "Legs")
    /\ parlayRows' = [p \in Parlays |->
          [parlayRows[p] EXCEPT !.legs = [i \in DOMAIN @ |->
             IF i \in legsOn(p, marketOf(r))
             THEN legResult(ParlayLegs[p][i].selection, planOf(r).score) ELSE @[i]]]]
    /\ moveTo(r, "Parlays")
    /\ UNCHANGED <<ledgerVars, chainParlays, matchVars, marketRows, betRows, tick, missed, faults>>

reconcileParlays(r) ==
    /\ at(r, "Parlays")
    /\ parlayRows' = [p \in Parlays |->
          IF legsOn(p, marketOf(r)) = {} THEN parlayRows[p]
          ELSE [parlayRows[p] EXCEPT !.status = parlayStatus(parlayRows[p].legs, @)]]
    /\ moveTo(r, "Close")
    /\ UNCHANGED <<ledgerVars, chainParlays, matchVars, marketRows, betRows, tick, missed, faults>>

closeMarket(r) ==
    /\ at(r, "Close")
    /\ marketRows' = [marketRows EXCEPT ![marketOf(r)].status = "SETTLED"]
    /\ passDone(r)
    /\ UNCHANGED <<ledgerVars, chainParlays, matchVars, betRows, parlayRows, tick, missed, faults>>

-----------------------------------------------------------------------------
(* cancelMarketOnchain *)

cancelSent(r) ==
    /\ at(r, "Cancel")
    /\ chainMarkets[marketOf(r)].status = "Open"
    /\ moveTo(r, "CancelSent")
    /\ UNCHANGED <<ledgerVars, chainParlays, matchVars, rowVars, tick, missed, faults>>

cancelRefused(r) ==
    /\ at(r, "Cancel")
    /\ chainMarkets[marketOf(r)].status # "Open"
    /\ IF chainMarkets[marketOf(r)].status = "Cancelled" THEN moveTo(r, "MarkCancelled")
                                                        ELSE passFails(r)
    /\ UNCHANGED <<ledgerVars, chainParlays, matchVars, rowVars, tick, missed, faults>>

cancelMined(r) ==
    /\ at(r, "CancelSent")
    /\ IF chainMarkets[marketOf(r)].status = "Open"
       THEN cancel(marketOf(r)) /\ UNCHANGED missed
       ELSE missed' = missed \cup {<<"cancel", marketOf(r)>>} /\ UNCHANGED ledgerVars
    /\ moveTo(r, "MarkCancelled")
    /\ UNCHANGED <<chainParlays, matchVars, rowVars, tick, faults>>

markCancelled(r) ==
    /\ at(r, "MarkCancelled")
    /\ marketRows' = [marketRows EXCEPT ![marketOf(r)].status = "CANCELLED"]
    /\ moveTo(r, "CancelBets")
    /\ UNCHANGED <<ledgerVars, chainParlays, matchVars, betRows, parlayRows, tick, missed, faults>>

(* recoverStuckSportsMarkets: by id, whatever has become of the market. *)
cancelRow(r) ==
    /\ at(r, "CancelRow")
    /\ marketRows' = [marketRows EXCEPT ![marketOf(r)].status = "CANCELLED"]
    /\ passDone(r)
    /\ UNCHANGED <<ledgerVars, chainParlays, matchVars, betRows, parlayRows, tick, missed, faults>>

cancelMarketBets(r) ==
    /\ at(r, "CancelBets")
    /\ betRows' = [b \in Bets |-> IF b \in pendingOn(marketOf(r)) THEN "CANCELLED"
                                                                  ELSE betRows[b]]
    /\ passDone(r)
    /\ UNCHANGED <<ledgerVars, chainParlays, matchVars, marketRows, parlayRows, tick, missed,
                   faults>>

-----------------------------------------------------------------------------
(* Failures: the process dies at any await, a call to the node fails, or a *)
(* transaction is mined and its receipt is not read.                       *)

die(r) ==
    /\ ~at(r, "Idle") /\ ~at(r, "Down") /\ mayFail
    /\ runners' = [runners EXCEPT ![r] = NoPass]
    /\ UNCHANGED <<ledgerVars, chainParlays, matchVars, rowVars, tick, missed>>

(* A failed void is logged and the pass goes on without it. *)
voidFails(r, b) ==
    /\ at(r, "Void") /\ b \in runners[r].todo /\ mayFail
    /\ missed' = missed \cup {<<"void", b>>}
    /\ betDone(r, b)
    /\ UNCHANGED <<ledgerVars, chainParlays, matchVars, rowVars, tick>>

callFails(r) ==
    /\ at(r, "Settle") \/ at(r, "Cancel")
    /\ mayFail
    /\ passFails(r)
    /\ UNCHANGED <<ledgerVars, chainParlays, matchVars, rowVars, tick, missed>>

receiptLost(r) ==
    /\ mayFail
    /\ \/ /\ at(r, "Voided")
          /\ missed' = missed \cup {<<"void", runners[r].bet>>}
          /\ betDone(r, runners[r].bet)
       \/ /\ at(r, "Reconcile") \/ at(r, "MarkCancelled")
          /\ passFails(r)
          /\ UNCHANGED missed
    /\ UNCHANGED <<ledgerVars, chainParlays, matchVars, rowVars, tick>>

-----------------------------------------------------------------------------
startRunner(r) ==
    \/ sweep(r) \/ resolvePastKickoff(r) \/ recoverStuck(r)
    \/ \E m \in Markets : 
          \/ finishedEvent(r, m) \/ adminCancel(r, m)
          \/ adminSettle(r, m) \/ adminOverride(r, m)

runStep(r) ==
    \/ nextMarket(r) \/ recordScore(r) \/ planScoreBasedSettlement(r)
    \/ planDirectOutcomeSettlement(r)
    \/ assessMarketSettlementRisk(r)
    \/ \E b \in Bets : voidSkipped(r, b) \/ voidSent(r, b) \/ voidRefused(r, b)
    \/ voidMined(r) \/ markVoided(r)
    \/ settleSent(r) \/ settleRefused(r) \/ settleMined(r)
    \/ reconcileSettlement(r) \/ resolveLegs(r) \/ reconcileParlays(r) \/ closeMarket(r)
    \/ cancelSent(r) \/ cancelRefused(r) \/ cancelMined(r)
    \/ markCancelled(r) \/ cancelMarketBets(r) \/ cancelRow(r)

failure(r) ==
    die(r) \/ callFails(r) \/ receiptLost(r) \/ \E b \in Bets : voidFails(r, b)
=============================================================================
