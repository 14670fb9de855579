---------------------------- MODULE MarketProofs ----------------------------
(***************************************************************************)
(* The rows of MarketLife against the ledger, for any number of markets,   *)
(* bets, parlays and runners, any scores reported, typed or forced, batch  *)
(* size, threshold and failures.                                           *)
(*                                                                         *)
(* The argument: every plan leaves its verdict on every bet of its market, *)
(* and passes act on a bet only as a plan told them.  What the ledger and  *)
(* the row say of a bet is therefore one of the verdicts it was given, and *)
(* where these are all alike, it is what all passes agree on.  A market is *)
(* settled on chain only by a plan, which judged every bet that could be   *)
(* paid or returned: nothing is left out then but what another plan judged *)
(* otherwise.                                                              *)
(***************************************************************************)
EXTENDS MarketLife, TLAPS

(* What the facts below are about; they are stated of any world, so that    *)
(* they can be carried from one state to the next.                         *)
World == [judged |-> judged, outcomes |-> outcomes, markets |-> chainMarkets,
          bets |-> chainBets, rows |-> betRows, missed |-> missed]

FinalScore == Nat \X Nat
AnyScore == FinalScore \cup {NoScore}

gave(w, b, v) == v \in w.judged[b]
sure(w, b) == \A u, v \in w.judged[b] : u = v

market(w, b) == w.markets[Offer[b].market].status

(* The stake was given back, can be taken back, or is accounted for. *)
returned(w, b) ==
    \/ w.bets[b].status = "Cancelled"
    \/ w.bets[b].status = "Pending" /\ market(w, b) = "Cancelled"
    \/ <<"void", b>> \in w.missed
    \/ <<"cancel", Offer[b].market>> \in w.missed

rowTrue(w, b, row) ==
    /\ row # "None" => w.bets[b].status # "None"
    /\ row = "WON" => gave(w, b, "win")
    /\ row = "CLAIMED" => w.bets[b].status = "Cashed"
    /\ row = "LOST" => gave(w, b, "lose") \/ ~sure(w, b)
    /\ row = "REFUNDED" => w.bets[b].status = "Cancelled" /\ market(w, b) = "Cancelled"
    /\ row = "CANCELLED" => returned(w, b) \/ ~sure(w, b)

chainTrue(w, b) ==
    /\ w.bets[b].status # "None" => w.bets[b].market = Offer[b].market
    /\ w.bets[b].status \in {"Won", "Cashed"} => gave(w, b, "win") /\ market(w, b) = "Settled"
    /\ w.bets[b].status = "Cancelled" => gave(w, b, "push") \/ market(w, b) = "Cancelled"

(* What a settlement leaves behind. *)
settledTrue(w, b) ==
    market(w, b) = "Settled" =>
        /\ w.judged[b] # {}
        /\ gave(w, b, "win") /\ sure(w, b) => w.bets[b].status \in {"Won", "Cashed"}
        /\ gave(w, b, "push") /\ sure(w, b) => returned(w, b)

betTrue(w, b) == rowTrue(w, b, w.rows[b]) /\ chainTrue(w, b) /\ settledTrue(w, b)

LedgerMarket == [status : {"Open", "Settled", "Cancelled"}, winningOutcome : Int]
LedgerBet == [status : {"None", "Pending", "Won", "Cashed", "Cancelled"}, market : Int]
BetRow == {"None", "PENDING", "WON", "LOST", "CANCELLED", "CLAIMED", "REFUNDED"}

worldTypes(w) ==
    /\ w.judged \in [Bets -> SUBSET {"win", "push", "lose"}]
    /\ w.outcomes \in [Markets -> SUBSET Int]
    /\ w.markets \in [Markets -> LedgerMarket]
    /\ w.bets \in [Bets -> LedgerBet]
    /\ w.rows \in [Bets -> BetRow]

worldTrue(w) ==
    /\ worldTypes(w)
    /\ \A m \in Markets : w.markets[m].status = "Settled" =>
                             w.markets[m].winningOutcome \in w.outcomes[m]
    /\ \A b \in Bets : betTrue(w, b)

(* A verdict once shown. *)
stands(row, next) ==
    /\ row = "WON" => next \in {"WON", "CLAIMED"}
    /\ row \in {"LOST", "CLAIMED"} => next = row

(* What no step takes back. *)
onward(w, v) ==
    /\ w.missed \subseteq v.missed
    /\ \A m \in Markets : /\ w.outcomes[m] \subseteq v.outcomes[m]
                          /\ w.markets[m].status # "Open" => v.markets[m] = w.markets[m]
    /\ \A b \in Bets :
          /\ w.judged[b] \subseteq v.judged[b]
          /\ w.rows[b] # "None" => v.rows[b] # "None"
          /\ sure(w, b) => stands(w.rows[b], v.rows[b])
          /\ w.bets[b].status = "Cancelled" => v.bets[b].status = "Cancelled"
          /\ w.bets[b].status = "Pending" /\ market(w, b) = "Cancelled" =>
                v.bets[b].status \in {"Pending", "Cancelled"}

-----------------------------------------------------------------------------
(* A pass *)

MarketRow == [status : {"OPEN", "LIVE", "SUSPENDED", "SETTLED", "CANCELLED"}, score : AnyScore]
Snaps == UNION {[S -> MarketRow] : S \in SUBSET Markets}
PlanTypes == {""} \cup {o[1] : o \in Overrides}
Plans == [score : AnyScore, type : PlanTypes, outcome : 0..10, win : SUBSET Bets,
          void : SUBSET Bets, unresolved : SUBSET Bets]

Planned == {"Assess", "Void", "VoidSent", "Voided", "Settle", "SettleSent", "Reconcile"}
Decided == {"Legs", "Parlays"} \cup Planned
Pcs == {"Idle", "Next", "Record", "Plan", "PlanDirect", "Close", "Cancel", "CancelSent",
        "MarkCancelled", "CancelBets", "CancelRow", "Down"} \cup Decided

Passes == [pc : Pcs, kind : Kinds \cup {"None"}, queue : SUBSET Markets, snap : Snaps,
           market : 0..NumMarkets, plan : Plans, todo : SUBSET Bets, bet : 0..NumBets]

(* The plans made for the bets of the market did not agree on one of them. *)
disputed(w, m) == \E b \in Bets : Offer[b].market = m /\ ~sure(w, b)

(* A bet the plan names was given that verdict, and a bet it does not name  *)
(* was given another one, or is out of its reach.                          *)
planComplete(x, w) ==
    \A b \in Bets :
        Offer[b].market = x.market =>
            \/ b \in x.plan.win \cup x.plan.void
            \/ gave(w, b, "lose") \/ w.rows[b] = "CLAIMED" \/ ~sure(w, b)

planTrue(x, w) ==
    /\ \A b \in x.plan.win : /\ Offer[b].market = x.market /\ gave(w, b, "win")
                            /\ w.rows[b] # "None"
    /\ \A b \in x.plan.void : /\ Offer[b].market = x.market /\ gave(w, b, "push")
                             /\ w.rows[b] # "None"
    /\ x.todo \subseteq x.plan.void
    /\ x.pc \in {"VoidSent", "Voided"} => x.bet \in x.todo
    /\ x.pc \in {"Settle", "SettleSent", "Reconcile"} => x.todo = {}
    /\ x.pc = "SettleSent" => ~(Cardinality(x.plan.win) > MAX_SETTLE_BATCH)
    /\ \A b \in x.plan.void : b \notin x.todo => returned(w, b) \/ ~sure(w, b)
    /\ x.pc = "Voided" => returned(w, x.bet) \/ ~sure(w, x.bet)
    /\ planComplete(x, w)

loopTrue(x) ==
    /\ x.queue \subseteq DOMAIN x.snap
    /\ x.kind = "sweep" => \A m \in DOMAIN x.snap : x.snap[m].score # NoScore

passTrue(x, w) ==
    /\ x \in Passes
    /\ loopTrue(x)
    /\ x.pc \notin {"Idle", "Next", "Down"} => x.market \in Markets
    /\ x.pc \in {"Record", "Plan", "Legs", "Parlays"} => x.plan.score # NoScore
    /\ x.pc = "PlanDirect" => x.plan.score = NoScore /\ x.plan.void = {}
    /\ x.pc \in Decided =>
          /\ x.plan.outcome \in w.outcomes[x.market]
          /\ x.plan.score # NoScore => x.plan.outcome = resolve1X2(x.plan.score)
    /\ x.pc \in Planned => planTrue(x, w)
    /\ x.pc \in {"Reconcile", "Legs", "Parlays"} =>
          w.markets[x.market].status # "Open" \/ disputed(w, x.market)
    /\ x.pc \in {"MarkCancelled", "CancelBets"} =>
          \/ w.markets[x.market].status = "Cancelled"
          \/ <<"cancel", x.market>> \in w.missed

(* The scores in the rows and in the hands of the feed's handlers. *)
ScoresTyped ==
    /\ reports \in [Markets -> SUBSET FinalScore]
    /\ inCache \in [Markets -> BOOLEAN]
    /\ marketRows \in [Markets -> MarketRow]
    /\ tick \in [pc : {"Idle", "LIVE", "SETTLED", "Legs"}, market : 0..NumMarkets,
                 score : AnyScore]
    /\ tick.pc # "Idle" => tick.market \in Markets

LifeInv ==
    /\ worldTrue(World)
    /\ ScoresTyped
    /\ runners \in [Runners -> Passes]
    /\ \A r \in Runners : passTrue(runners[r], World)

-----------------------------------------------------------------------------
(* Worlds *)

LEMMA WorldIs ==
    /\ World.judged = judged /\ World.outcomes = outcomes /\ World.markets = chainMarkets
    /\ World.bets = chainBets /\ World.rows = betRows /\ World.missed = missed
BY DEF World

LEMMA WorldNext ==
    /\ World'.judged = judged' /\ World'.outcomes = outcomes' /\ World'.markets = chainMarkets'
    /\ World'.bets = chainBets' /\ World'.rows = betRows' /\ World'.missed = missed'
BY DEF World

LEMMA WorldSame ==
    ASSUME UNCHANGED <<ledgerVars, judged, outcomes, betRows, missed>>
    PROVE  World' = World
BY DEF World, ledgerVars

LEMMA OnwardSelf == \A w : onward(w, w)
BY DEF onward, stands

LEMMA OffersIn == \A b \in Bets : Offer[b].market \in Markets
BY SettlementAssumption DEF SettlementAssumption

LEMMA VerdictsStay ==
    ASSUME NEW w, NEW v, onward(w, v), NEW b \in Bets
    PROVE  /\ \A u : gave(w, b, u) => gave(v, b, u)
           /\ ~sure(w, b) => ~sure(v, b)
BY DEF onward, gave, sure

LEMMA ReturnedStays ==
    ASSUME NEW w, NEW v, onward(w, v), NEW b \in Bets, returned(w, b)
    PROVE  returned(v, b)
<1>1. market(w, b) = "Cancelled" => market(v, b) = "Cancelled"
  BY OffersIn DEF onward, market
<1> QED BY <1>1 DEF onward, returned

LEMMA DisputedStays ==
    ASSUME NEW w, NEW v, onward(w, v), NEW m, disputed(w, m)
    PROVE  disputed(v, m)
BY VerdictsStay DEF disputed

(* What a plan says stays true while others act. *)
LEMMA PlanStays ==
    ASSUME NEW w, NEW v, onward(w, v), NEW x \in Passes, planTrue(x, w)
    PROVE  planTrue(x, v)
<1>1. x.plan.win \subseteq Bets /\ x.plan.void \subseteq Bets /\ x.todo \subseteq Bets
  BY DEF Passes, Plans
<1>2. \A b \in x.plan.win : /\ Offer[b].market = x.market /\ gave(v, b, "win")
                           /\ v.rows[b] # "None"
  BY <1>1, VerdictsStay DEF planTrue, onward
<1>3. \A b \in x.plan.void : /\ Offer[b].market = x.market /\ gave(v, b, "push")
                            /\ v.rows[b] # "None"
  BY <1>1, VerdictsStay DEF planTrue, onward
<1>4. \A b \in x.plan.void : b \notin x.todo => returned(v, b) \/ ~sure(v, b)
  BY <1>1, ReturnedStays, VerdictsStay DEF planTrue
<1>5. x.pc = "Voided" => returned(v, x.bet) \/ ~sure(v, x.bet)
  <2>1. x.pc = "Voided" => x.bet \in Bets /\ (returned(w, x.bet) \/ ~sure(w, x.bet))
    BY <1>1 DEF planTrue
  <2> QED BY <2>1, ReturnedStays, VerdictsStay
<1>6. planComplete(x, v)
  <2> SUFFICES ASSUME NEW b \in Bets, Offer[b].market = x.market
               PROVE  \/ b \in x.plan.win \cup x.plan.void
                      \/ gave(v, b, "lose") \/ v.rows[b] = "CLAIMED" \/ ~sure(v, b)
    BY DEF planComplete
  <2>1. \/ b \in x.plan.win \cup x.plan.void
        \/ gave(w, b, "lose") \/ w.rows[b] = "CLAIMED" \/ ~sure(w, b)
    BY DEF planTrue, planComplete
  <2>2. w.rows[b] = "CLAIMED" /\ sure(w, b) => v.rows[b] = "CLAIMED"
    BY DEF onward, stands
  <2> QED BY <2>1, <2>2, VerdictsStay
<1> QED BY <1>2, <1>3, <1>4, <1>5, <1>6 DEF planTrue

(* What holds of a pass goes on holding while others act. *)
LEMMA PassStays ==
    ASSUME NEW w, NEW v, onward(w, v), NEW x, passTrue(x, w)
    PROVE  passTrue(x, v)
<1>1. x \in Passes /\ loopTrue(x)
  BY DEF passTrue
<1>2. x.pc \in Decided => x.market \in Markets
  BY DEF passTrue, Decided, Planned
<1>3. x.pc \in Decided => x.plan.outcome \in v.outcomes[x.market]
  BY <1>2 DEF passTrue, onward
<1>4. x.pc \in Planned => planTrue(x, v)
  BY <1>1, PlanStays DEF passTrue
<1>5. x.pc \in {"Reconcile", "Legs", "Parlays"} =>
         v.markets[x.market].status # "Open" \/ disputed(v, x.market)
  BY <1>2, DisputedStays DEF passTrue, onward, Decided, Planned
<1>6. x.pc \in {"MarkCancelled", "CancelBets"} =>
         \/ v.markets[x.market].status = "Cancelled"
         \/ <<"cancel", x.market>> \in v.missed
  BY DEF passTrue, onward
<1> QED BY <1>1, <1>3, <1>4, <1>5, <1>6 DEF passTrue

-----------------------------------------------------------------------------
(* How a runner's pass changes *)

becomes(r, x) == runners' = [runners EXCEPT ![r] = x]

(* The two passes differ at most in what the plan is about. *)
sameLoop(x, y) == x.kind = y.kind /\ x.queue = y.queue /\ x.snap = y.snap

samePlan(x, y) == sameLoop(x, y) /\ x.market = y.market /\ x.plan = y.plan

LEMMA RunnersMove ==
    ASSUME LifeInv, NEW r \in Runners, NEW x, becomes(r, x), onward(World, World'),
           passTrue(x, World')
    PROVE  /\ runners' \in [Runners -> Passes]
           /\ \A q \in Runners : passTrue(runners'[q], World')
<1>1. runners \in [Runners -> Passes] /\ \A q \in Runners : passTrue(runners[q], World)
  BY DEF LifeInv
<1>2. \A q \in Runners : passTrue(runners[q], World')
  BY <1>1, PassStays
<1>3. x \in Passes
  BY DEF passTrue
<1>4. \A q \in Runners : runners'[q] = IF q = r THEN x ELSE runners[q]
  BY <1>1 DEF becomes
<1>5. runners' \in [Runners -> Passes]
  BY <1>1, <1>3 DEF becomes
<1> QED BY <1>2, <1>4, <1>5

LEMMA RunnersStay ==
    ASSUME LifeInv, UNCHANGED runners, onward(World, World')
    PROVE  /\ runners' \in [Runners -> Passes]
           /\ \A q \in Runners : passTrue(runners'[q], World')
BY PassStays DEF LifeInv

LEMMA MovedTo ==
    ASSUME runners \in [Runners -> Passes], NEW r \in Runners, NEW pc \in Pcs, moveTo(r, pc)
    PROVE  \E x \in Passes : /\ becomes(r, x) /\ x.pc = pc /\ samePlan(x, runners[r])
                            /\ x.todo = runners[r].todo /\ x.bet = runners[r].bet
<1> DEFINE x == [runners[r] EXCEPT !.pc = pc]
<1>1. runners[r] \in Passes
  OBVIOUS
<1>2. x \in Passes /\ x.pc = pc /\ samePlan(x, runners[r]) /\ x.todo = runners[r].todo
      /\ x.bet = runners[r].bet
  BY <1>1 DEF Passes, samePlan, sameLoop
<1>3. becomes(r, x)
  BY DEF moveTo, becomes
<1> QED BY <1>2, <1>3

LEMMA BetDone ==
    ASSUME runners \in [Runners -> Passes], NEW r \in Runners, NEW b \in runners[r].todo,
           betDone(r, b)
    PROVE  \E x \in Passes :
              /\ becomes(r, x) /\ samePlan(x, runners[r])
              /\ x.todo = runners[r].todo \ {b}
              /\ x.pc = IF runners[r].todo = {b} THEN "Settle" ELSE "Void"
<1> DEFINE left == runners[r].todo \ {b}
           pc == IF runners[r].todo = {b} THEN "Settle" ELSE "Void"
           x == [runners[r] EXCEPT !.todo = left, !.bet = 0, !.pc = pc]
<1>1. runners[r] \in Passes
  OBVIOUS
<1>2. left \in SUBSET Bets /\ 0 \in 0..NumBets /\ pc \in Pcs
  BY <1>1, SettlementAssumption DEF Passes, SettlementAssumption, Pcs, Decided, Planned
<1>3. becomes(r, x)
  BY DEF betDone, becomes
<1> HIDE DEF left, pc
<1>4. x \in Passes /\ x.pc = pc /\ samePlan(x, runners[r]) /\ x.todo = left
  BY <1>1, <1>2 DEF Passes, samePlan, sameLoop
<1> QED BY <1>3, <1>4 DEF left, pc

LEMMA NoPassTrue ==
    /\ NoPass \in Passes /\ NoPass.pc = "Idle" /\ NoPass.kind = "None" /\ NoPass.market = 0
    /\ NoPass.queue = {} /\ NoPass.snap = <<>> /\ NoPass.todo = {} /\ NoPass.bet = 0
    /\ NoPass.plan = NoPlan /\ NoPlan \in Plans /\ NoPlan.score = NoScore /\ NoPlan.void = {}
    /\ Down \in Passes /\ \A w : passTrue(NoPass, w) /\ passTrue(Down, w)
<1>1. <<>> \in Snaps /\ DOMAIN <<>> = {}
  <2>1. <<>> \in [{} -> MarketRow] /\ DOMAIN <<>> = {}
    OBVIOUS
  <2> QED BY <2>1 DEF Snaps
<1>2. NoPlan \in Plans /\ NoPlan.score = NoScore /\ NoPlan.void = {}
  BY DEF NoPlan, Plans, AnyScore, PlanTypes
<1>3. /\ NoPass.pc = "Idle" /\ NoPass.kind = "None" /\ NoPass.market = 0 /\ NoPass.queue = {}
      /\ NoPass.snap = <<>> /\ NoPass.plan = NoPlan /\ NoPass.todo = {} /\ NoPass.bet = 0
  BY DEF NoPass
<1>4. NoPass \in Passes
  <2>1. "Idle" \in Pcs /\ 0 \in 0..NumMarkets /\ 0 \in 0..NumBets
    BY SettlementAssumption DEF SettlementAssumption, Pcs
  <2> QED BY <1>1, <1>2, <2>1 DEF NoPass, Passes
<1>5. \A w : passTrue(NoPass, w)
  BY <1>1, <1>3, <1>4 DEF passTrue, loopTrue, Decided, Planned
<1>6. /\ Down \in Passes /\ Down.pc = "Down" /\ Down.kind = "None"
      /\ Down.queue = {} /\ Down.snap = <<>>
  <2>1. "Down" \in Pcs
    BY DEF Pcs
  <2> QED BY <1>3, <1>4, <2>1 DEF Down, Passes
<1>7. \A w : passTrue(Down, w)
  BY <1>1, <1>6 DEF passTrue, loopTrue, Decided, Planned
<1> QED BY <1>2, <1>3, <1>4, <1>5, <1>6, <1>7

(* The end of a pass, or of the loop. *)
LEMMA PassEnds ==
    ASSUME LifeInv, NEW r \in Runners,
           passDone(r) \/ passFails(r) \/ becomes(r, NoPass)
    PROVE  \E x : becomes(r, x) /\ passTrue(x, World)
<1> DEFINE p == runners[r]
           next == [NoPass EXCEPT !.pc = "Next", !.kind = p.kind, !.queue = p.queue,
                                  !.snap = p.snap]
<1>1. p \in Passes /\ passTrue(p, World)
  BY DEF LifeInv
<1>2. next \in Passes /\ next.pc = "Next" /\ sameLoop(next, p)
  <2>1. "Next" \in Pcs
    BY DEF Pcs
  <2>2. NoPass \in Passes
    BY NoPassTrue
  <2> HIDE DEF p
  <2> QED BY <1>1, <2>1, <2>2 DEF Passes, sameLoop
<1>3. passTrue(next, World)
  BY <1>1, <1>2 DEF passTrue, loopTrue, sameLoop, Decided, Planned
<1>4. becomes(r, NoPass) \/ becomes(r, next)
  BY DEF passDone, passFails, becomes
<1> QED BY <1>3, <1>4, NoPassTrue

-----------------------------------------------------------------------------
(* Steps that only move a runner *)

LEMMA ScoreKnown == \A s \in FinalScore : s \in AnyScore /\ s # NoScore
<1> SUFFICES ASSUME NEW s \in FinalScore
             PROVE  s \in AnyScore /\ s # NoScore
  OBVIOUS
<1>1. DOMAIN s = {1, 2}
  BY DEF FinalScore
<1>2. DOMAIN <<>> = {}
  OBVIOUS
<1> QED BY <1>1, <1>2 DEF AnyScore, NoScore

LEMMA ReportsScored == LifeInv => \A m \in Markets : reports[m] \subseteq FinalScore
BY DEF LifeInv, ScoresTyped

LEMMA TypedScored == TypedScores \subseteq FinalScore /\ \A o \in Overrides : o[2] \in 0..10
BY SettlementAssumption DEF SettlementAssumption, FinalScore

LEMMA PlanMade ==
    /\ \A s \in AnyScore : /\ [NoPlan EXCEPT !.score = s] \in Plans
                           /\ [NoPlan EXCEPT !.score = s].score = s
    /\ \A o \in Overrides :
          LET plan == [NoPlan EXCEPT !.type = o[1], !.outcome = o[2]]
          IN  plan \in Plans /\ plan.score = NoScore /\ plan.void = {}
<1>1. \A s \in AnyScore : /\ [NoPlan EXCEPT !.score = s] \in Plans
                          /\ [NoPlan EXCEPT !.score = s].score = s
  BY NoPassTrue DEF Plans
<1>2. ASSUME NEW o \in Overrides
      PROVE  LET plan == [NoPlan EXCEPT !.type = o[1], !.outcome = o[2]]
             IN  plan \in Plans /\ plan.score = NoScore /\ plan.void = {}
  <2>1. o[1] \in PlanTypes /\ o[2] \in 0..10
    BY TypedScored DEF PlanTypes
  <2> QED BY <2>1, NoPassTrue DEF Plans
<1> QED BY <1>1, <1>2

(* A pass over one market starts with a score or an outcome, or to cancel. *)
LEMMA PassStarts ==
    ASSUME LifeInv, NEW r \in Runners, NEW kind \in Kinds, NEW m \in Markets, NEW pc,
           NEW plan \in Plans, startPass(r, kind, m, pc, plan),
           \/ pc \in {"Cancel", "CancelRow"}
           \/ pc = "Record" /\ plan.score # NoScore
           \/ pc = "PlanDirect" /\ plan.score = NoScore /\ plan.void = {}
    PROVE  \E x : becomes(r, x) /\ passTrue(x, World)
<1> DEFINE x == [NoPass EXCEPT !.pc = pc, !.kind = kind, !.market = m, !.plan = plan]
<1>1. pc \in Pcs /\ m \in 0..NumMarkets
  BY SettlementAssumption DEF Pcs, Markets, SettlementAssumption
<1>2. /\ x \in Passes /\ x.pc = pc /\ x.kind = kind /\ x.market = m /\ x.plan = plan
      /\ x.queue = {} /\ x.snap = <<>>
  BY <1>1, NoPassTrue DEF Passes
<1>3. DOMAIN <<>> = {}
  OBVIOUS
<1>4. becomes(r, x)
  BY DEF startPass, becomes
<1> HIDE DEF x
<1>5. passTrue(x, World)
  BY <1>2, <1>3 DEF passTrue, loopTrue, Decided, Planned
<1> QED BY <1>4, <1>5

LEMMA LoopStarts ==
    ASSUME LifeInv, NEW r \in Runners, NEW kind \in Kinds, NEW S \in SUBSET Markets,
           startLoop(r, kind, S),
           kind = "sweep" => \A m \in S : marketRows[m].score # NoScore
    PROVE  \E x : becomes(r, x) /\ passTrue(x, World)
<1> DEFINE snap == [m \in S |-> marketRows[m]]
           x == [NoPass EXCEPT !.pc = "Next", !.kind = kind, !.queue = S, !.snap = snap]
<1>1. snap \in Snaps /\ DOMAIN snap = S /\ \A m \in S : snap[m] = marketRows[m]
  <2>1. snap \in [S -> MarketRow]
    BY DEF LifeInv, ScoresTyped
  <2> QED BY <2>1 DEF Snaps
<1>2. becomes(r, x)
  BY DEF startLoop, becomes
<1> HIDE DEF snap
<1>3. /\ x \in Passes /\ x.pc = "Next" /\ x.kind = kind /\ x.queue = S /\ x.snap = snap
  <2>1. "Next" \in Pcs
    BY DEF Pcs
  <2> QED BY <1>1, <2>1, NoPassTrue DEF Passes
<1> HIDE DEF x
<1>4. loopTrue(x)
  BY <1>1, <1>3 DEF loopTrue
<1>5. passTrue(x, World)
  BY <1>3, <1>4 DEF passTrue, Decided, Planned
<1> QED BY <1>2, <1>5

LEMMA RunnerStarts ==
    ASSUME LifeInv, NEW r \in Runners, startRunner(r)
    PROVE  /\ \E x : becomes(r, x) /\ passTrue(x, World)
           /\ UNCHANGED <<ledgerVars, chainParlays, matchVars, rowVars, tick, missed>>
<1> DEFINE Changed == \E x : becomes(r, x) /\ passTrue(x, World)
           Unchanged == UNCHANGED <<ledgerVars, chainParlays, matchVars, rowVars, tick, missed>>
<1>0. /\ {"event", "sweep", "past", "admin", "cancel", "stuck"} \subseteq Kinds
      /\ NoPlan \in Plans
  BY NoPassTrue DEF Kinds
<1> DEFINE swept == {m \in Markets : sweepable(m)}
           past == {m \in Markets : pastDue(m)}
           stuck == {m \in Markets : unfinished(m) /\ hasMoney(m)}
<1>a. /\ swept \in SUBSET Markets /\ past \in SUBSET Markets /\ stuck \in SUBSET Markets
      /\ \A m \in swept : marketRows[m].score # NoScore
  BY DEF sweepable
<1>b. /\ sweep(r) => startLoop(r, "sweep", swept)
      /\ resolvePastKickoff(r) => startLoop(r, "past", past)
  BY DEF sweep, resolvePastKickoff
<1>c. ASSUME NEW kind \in Kinds, NEW S \in SUBSET Markets, startLoop(r, kind, S),
             kind = "sweep" => \A m \in S : marketRows[m].score # NoScore
      PROVE  Changed /\ Unchanged
  <2>1. Unchanged
    BY <1>c DEF startLoop
  <2> QED BY <1>c, <2>1, LoopStarts
<1> HIDE DEF swept, past
<1>1. CASE sweep(r)
  BY <1>0, <1>1, <1>a, <1>b, <1>c
<1>2. CASE resolvePastKickoff(r)
  BY <1>0, <1>2, <1>a, <1>b, <1>c
<1>3. CASE recoverStuck(r)
  <2>1. CASE startLoop(r, "stuck", stuck)
    <3> HIDE DEF stuck
    <3> QED BY <1>0, <2>1, <1>a, <1>c
  <2>2. ASSUME NEW m \in Markets, startPass(r, "stuck", m, "CancelRow", NoPlan)
        PROVE  Changed /\ Unchanged
    BY <1>0, <2>2, PassStarts DEF startPass
  <2> QED BY <1>3, <2>1, <2>2 DEF recoverStuck
<1>4. ASSUME NEW m \in Markets, finishedEvent(r, m) \/ adminSettle(r, m)
      PROVE  Changed /\ Unchanged
  <2>1. PICK kind \in Kinds, s \in FinalScore :
          startPass(r, kind, m, "Record", [NoPlan EXCEPT !.score = s])
    BY <1>0, <1>4, ReportsScored, TypedScored DEF finishedEvent, adminSettle
  <2>2. s \in AnyScore /\ s # NoScore
    BY ScoreKnown
  <2> QED BY <2>1, <2>2, PlanMade, PassStarts DEF startPass
<1>5. ASSUME NEW m \in Markets, adminOverride(r, m)
      PROVE  Changed /\ Unchanged
  <2>1. PICK o \in Overrides :
          startPass(r, "admin", m, "PlanDirect", [NoPlan EXCEPT !.type = o[1], !.outcome = o[2]])
    BY <1>5 DEF adminOverride
  <2> DEFINE plan == [NoPlan EXCEPT !.type = o[1], !.outcome = o[2]]
  <2>2. plan \in Plans /\ plan.score = NoScore /\ plan.void = {}
    BY PlanMade
  <2> HIDE DEF plan
  <2>3. startPass(r, "admin", m, "PlanDirect", plan)
    BY <2>1 DEF plan
  <2> QED BY <1>0, <2>2, <2>3, PassStarts DEF startPass
<1>6. ASSUME NEW m \in Markets, adminCancel(r, m)
      PROVE  Changed /\ Unchanged
  BY <1>0, <1>6, PassStarts DEF adminCancel, startPass
<1> QED BY <1>1, <1>2, <1>3, <1>4, <1>5, <1>6 DEF startRunner

LEMMA MarketTaken ==
    ASSUME LifeInv, NEW r \in Runners, nextMarket(r)
    PROVE  \E x : becomes(r, x) /\ passTrue(x, World)
<1> DEFINE p == runners[r]
<1>1. p \in Passes /\ passTrue(p, World)
  BY DEF LifeInv
<1>2. PICK m \in p.queue :
        LET row == p.snap[m]
            rest == p.queue \ {m}
            left == [n \in rest |-> p.snap[n]]
            take(pc, s) ==
              runners' = [runners EXCEPT ![r].pc = pc, ![r].market = m, ![r].queue = rest,
                                         ![r].snap = left,
                                         ![r].plan = [NoPlan EXCEPT !.score = s]]
            skip ==
              runners' = [runners EXCEPT ![r] =
                            IF rest = {} THEN NoPass
                            ELSE [@ EXCEPT !.queue = rest, !.snap = left]]
        IN  \/ p.kind = "sweep" /\ take("Plan", row.score)
            \/ p.kind = "stuck" /\ take("Cancel", NoScore)
            \/ /\ p.kind = "past"
               /\ \E s \in findScore(m) \cup {row.score} :
                    IF nothingToDo(row, s) THEN skip ELSE take("Record", s)
  BY DEF nextMarket
<1> DEFINE rest == p.queue \ {m}
           snap == [n \in rest |-> p.snap[n]]
           plan(s) == [NoPlan EXCEPT !.score = s]
           taken(pc, s) == [p EXCEPT !.pc = pc, !.market = m, !.queue = rest, !.snap = snap,
                                     !.plan = plan(s)]
           skipped == [p EXCEPT !.queue = rest, !.snap = snap]
<1>3. /\ m \in Markets /\ m \in DOMAIN p.snap /\ p.snap \in Snaps /\ rest \subseteq Markets
      /\ p.queue \subseteq DOMAIN p.snap
  BY <1>1 DEF Passes, passTrue, loopTrue
<1>4. /\ p.snap[m].score \in AnyScore
      /\ p.kind = "sweep" => \A n \in DOMAIN p.snap : p.snap[n].score # NoScore
  BY <1>1, <1>3 DEF passTrue, loopTrue, Snaps, MarketRow
<1>5. snap \in Snaps /\ DOMAIN snap = rest /\ \A n \in rest : snap[n] = p.snap[n]
  <2>1. \A n \in DOMAIN p.snap : p.snap[n] \in MarketRow
    BY <1>3 DEF Snaps
  <2>2. snap \in [rest -> MarketRow]
    BY <1>3, <2>1
  <2> QED BY <1>3, <2>2 DEF Snaps
<1>6. \A s \in AnyScore : plan(s) \in Plans /\ plan(s).score = s
  BY PlanMade
<1>7. /\ m \in 0..NumMarkets /\ {"Plan", "Cancel", "Record"} \subseteq Pcs
      /\ NoScore \in AnyScore
  BY <1>3, SettlementAssumption DEF Markets, SettlementAssumption, Pcs, AnyScore
<1>f. \A s \in findScore(m) \cup {p.snap[m].score} : s \in AnyScore
  <2>1. \A s \in reports[m] : s \in AnyScore
    BY <1>3, ReportsScored, ScoreKnown
  <2>2. <<0, 0>> \in AnyScore
    BY DEF AnyScore, FinalScore
  <2> QED BY <1>4, <2>1, <2>2 DEF findScore
<1> HIDE DEF snap, plan
<1>8. /\ skipped \in Passes /\ skipped.pc = p.pc /\ skipped.kind = p.kind
      /\ skipped.queue = rest /\ skipped.snap = snap
  BY <1>1, <1>3, <1>5 DEF Passes
<1>9. \A s \in AnyScore : \A pc \in Pcs :
        /\ taken(pc, s) \in Passes /\ taken(pc, s).pc = pc /\ taken(pc, s).kind = p.kind
        /\ taken(pc, s).queue = rest /\ taken(pc, s).snap = snap /\ taken(pc, s).market = m
        /\ taken(pc, s).plan = plan(s)
  BY <1>1, <1>3, <1>5, <1>6, <1>7 DEF Passes
<1>10. p.pc = "Next"
  BY DEF nextMarket, at
<1> DEFINE take(pc, s) ==
             runners' = [runners EXCEPT ![r].pc = pc, ![r].market = m, ![r].queue = rest,
                                        ![r].snap = snap,
                                        ![r].plan = [NoPlan EXCEPT !.score = s]]
           skip ==
             runners' = [runners EXCEPT ![r] = IF rest = {} THEN NoPass
                            ELSE [@ EXCEPT !.queue = rest, !.snap = snap]]
<1>a. \A pc, s : take(pc, s) => becomes(r, taken(pc, s))
  BY DEF becomes, plan
<1>b. skip => becomes(r, NoPass) \/ becomes(r, skipped)
  <2>1. rest = {} => (skip => becomes(r, NoPass))
    BY DEF becomes
  <2>2. rest # {} => (skip => becomes(r, skipped))
    BY DEF becomes
  <2> QED BY <2>1, <2>2
<1>c. \/ p.kind = "sweep" /\ take("Plan", p.snap[m].score)
      \/ p.kind = "stuck" /\ take("Cancel", NoScore)
      \/ \E s \in findScore(m) \cup {p.snap[m].score} :
            \/ skip
            \/ s # NoScore /\ take("Record", s)
  <2> HIDE DEF skip, take
  <2> QED BY <1>2 DEF skip, take, snap, nothingToDo
<1> HIDE DEF skip, take
<1>11. \/ p.kind = "sweep" /\ becomes(r, taken("Plan", p.snap[m].score))
       \/ p.kind = "stuck" /\ becomes(r, taken("Cancel", NoScore))
       \/ \E s \in findScore(m) \cup {p.snap[m].score} :
             \/ becomes(r, NoPass) \/ becomes(r, skipped)
             \/ s # NoScore /\ becomes(r, taken("Record", s))
  BY <1>a, <1>b, <1>c
<1> HIDE DEF taken, skipped
<1>12. passTrue(skipped, World)
  BY <1>1, <1>3, <1>5, <1>8, <1>10 DEF passTrue, loopTrue, Decided, Planned
<1>13. \A pc \in {"Plan", "Record"} : \A s \in AnyScore :
          s # NoScore => passTrue(taken(pc, s), World)
  BY <1>1, <1>3, <1>5, <1>6, <1>7, <1>9 DEF passTrue, loopTrue, Decided, Planned
<1>14. passTrue(taken("Cancel", NoScore), World)
  BY <1>1, <1>3, <1>5, <1>6, <1>7, <1>9 DEF passTrue, loopTrue, Decided, Planned
<1>15. CASE p.kind = "sweep" /\ becomes(r, taken("Plan", p.snap[m].score))
  BY <1>3, <1>4, <1>13, <1>15
<1>16. CASE p.kind = "stuck" /\ becomes(r, taken("Cancel", NoScore))
  BY <1>14, <1>16
<1>17. ASSUME NEW s \in findScore(m) \cup {p.snap[m].score},
              \/ becomes(r, NoPass) \/ becomes(r, skipped)
              \/ s # NoScore /\ becomes(r, taken("Record", s))
       PROVE  \E x : becomes(r, x) /\ passTrue(x, World)
  BY <1>f, <1>12, <1>13, <1>17, NoPassTrue
<1> QED BY <1>11, <1>15, <1>16, <1>17

-----------------------------------------------------------------------------
(* How the world changes *)

LEMMA RunnerKeeps ==
    ASSUME LifeInv, NEW r \in Runners, NEW x, becomes(r, x), passTrue(x, World'),
           worldTrue(World'), onward(World, World'), ScoresTyped'
    PROVE  LifeInv'
BY RunnersMove DEF LifeInv

LEMMA WorldKeeps ==
    ASSUME LifeInv, UNCHANGED runners, worldTrue(World'), onward(World, World'), ScoresTyped'
    PROVE  LifeInv'
BY RunnersStay DEF LifeInv

LEMMA QuietKeeps ==
    ASSUME LifeInv, UNCHANGED <<ledgerVars, judged, outcomes, betRows, missed>>
    PROVE  worldTrue(World') /\ onward(World, World')
BY WorldSame, OnwardSelf DEF LifeInv

LEMMA ScoresSame ==
    ASSUME ScoresTyped, UNCHANGED <<reports, inCache, marketRows, tick>>
    PROVE  ScoresTyped'
BY DEF ScoresTyped

(* Rows rewritten against an unchanged ledger. *)
LEMMA RowsKept ==
    ASSUME LifeInv, UNCHANGED <<ledgerVars, judged, outcomes, missed>>,
           betRows' \in [Bets -> BetRow],
           \A b \in Bets : betRows'[b] # betRows[b] =>
              /\ betRows'[b] # "None"
              /\ rowTrue(World, b, betRows'[b])
              /\ sure(World, b) => stands(betRows[b], betRows'[b])
    PROVE  worldTrue(World') /\ onward(World, World')
<1>1. UNCHANGED <<chainMarkets, chainBets>> /\ worldTrue(World)
  BY DEF ledgerVars, LifeInv
<1>2. \A b : /\ \A v : gave(World', b, v) <=> gave(World, b, v)
             /\ sure(World', b) <=> sure(World, b)
             /\ market(World', b) = market(World, b)
             /\ returned(World', b) <=> returned(World, b)
  BY <1>1, WorldIs, WorldNext DEF gave, sure, market, returned
<1>3. \A b, row : rowTrue(World', b, row) <=> rowTrue(World, b, row)
  BY <1>1, <1>2, WorldIs, WorldNext DEF rowTrue
<1>4. \A b : chainTrue(World', b) <=> chainTrue(World, b)
  BY <1>1, <1>2, WorldIs, WorldNext DEF chainTrue
<1>5. \A b : settledTrue(World', b) <=> settledTrue(World, b)
  BY <1>1, <1>2, WorldIs, WorldNext DEF settledTrue
<1>6. ASSUME NEW b \in Bets
      PROVE  betTrue(World', b)
  <2>1. betTrue(World, b)
    BY <1>1 DEF worldTrue
  <2>2. rowTrue(World, b, betRows'[b])
    BY <2>1, WorldIs DEF betTrue
  <2> QED BY <1>3, <1>4, <1>5, <2>1, <2>2, WorldNext DEF betTrue
<1>7. worldTrue(World')
  BY <1>1, <1>6, WorldIs, WorldNext DEF worldTrue, worldTypes
<1>8. onward(World, World')
  <2>1. \A b \in Bets : betRows[b] # "None" => betRows'[b] # "None"
    OBVIOUS
  <2>2. \A b \in Bets : sure(World, b) => stands(betRows[b], betRows'[b])
    BY DEF stands
  <2> QED BY <1>1, <2>1, <2>2, WorldIs, WorldNext DEF onward
<1> QED BY <1>7, <1>8

(* A failure that is logged. *)
LEMMA MissedKept ==
    ASSUME LifeInv, UNCHANGED <<ledgerVars, judged, outcomes, betRows>>, missed \subseteq missed'
    PROVE  worldTrue(World') /\ onward(World, World')
<1>1. UNCHANGED <<chainMarkets, chainBets>> /\ worldTrue(World)
  BY DEF ledgerVars, LifeInv
<1>2. onward(World, World')
  BY <1>1, WorldIs, WorldNext DEF onward, stands
<1>3. \A b : /\ \A v : gave(World', b, v) <=> gave(World, b, v)
             /\ sure(World', b) <=> sure(World, b)
             /\ market(World', b) = market(World, b)
  BY <1>1, WorldIs, WorldNext DEF gave, sure, market
<1>4. ASSUME NEW b \in Bets
      PROVE  betTrue(World', b)
  <2>1. betTrue(World, b)
    BY <1>1 DEF worldTrue
  <2>2. returned(World, b) => returned(World', b)
    BY <1>2, ReturnedStays
  <2>3. rowTrue(World', b, betRows[b])
    BY <1>1, <1>3, <2>1, <2>2, WorldIs, WorldNext DEF betTrue, rowTrue
  <2>4. chainTrue(World', b)
    BY <1>1, <1>3, <2>1, WorldIs, WorldNext DEF betTrue, chainTrue
  <2>5. settledTrue(World', b)
    BY <1>1, <1>3, <2>1, <2>2, WorldIs, WorldNext DEF betTrue, settledTrue
  <2> QED BY <2>3, <2>4, <2>5, WorldNext DEF betTrue
<1>5. worldTrue(World')
  BY <1>1, <1>4, WorldIs, WorldNext DEF worldTrue, worldTypes
<1> QED BY <1>2, <1>5

(* Verdicts that are given. *)
LEMMA JudgedKept ==
    ASSUME LifeInv, UNCHANGED <<ledgerVars, betRows, missed>>,
           judged' \in [Bets -> SUBSET {"win", "push", "lose"}],
           \A b \in Bets : judged[b] \subseteq judged'[b],
           outcomes' \in [Markets -> SUBSET Int],
           \A m \in Markets : outcomes[m] \subseteq outcomes'[m]
    PROVE  worldTrue(World') /\ onward(World, World')
<1>1. UNCHANGED <<chainMarkets, chainBets>> /\ worldTrue(World)
  BY DEF ledgerVars, LifeInv
<1>2. onward(World, World')
  BY <1>1, WorldIs, WorldNext DEF onward, stands
<1>3. ASSUME NEW b \in Bets
      PROVE  betTrue(World', b)
  <2>1. betTrue(World, b)
    BY <1>1 DEF worldTrue
  <2>2. /\ \A v : gave(World, b, v) => gave(World', b, v)
        /\ ~sure(World, b) => ~sure(World', b)
        /\ returned(World, b) => returned(World', b)
    BY <1>2, VerdictsStay, ReturnedStays
  <2>3. market(World', b) = market(World, b)
    BY <1>1, WorldIs, WorldNext DEF market
  <2>4. rowTrue(World', b, betRows[b])
    BY <1>1, <2>1, <2>2, <2>3, WorldIs, WorldNext DEF betTrue, rowTrue
  <2>5. chainTrue(World', b)
    BY <1>1, <2>1, <2>2, <2>3, WorldIs, WorldNext DEF betTrue, chainTrue
  <2>6. judged[b] # {} => \A v : sure(World', b) /\ gave(World', b, v) => gave(World, b, v)
    BY WorldIs, WorldNext DEF sure, gave
  <2>7. settledTrue(World', b)
    BY <1>1, <2>1, <2>2, <2>3, <2>6, WorldIs, WorldNext DEF betTrue, settledTrue
  <2> QED BY <2>4, <2>5, <2>7, WorldNext DEF betTrue
<1>4. worldTrue(World')
  BY <1>1, <1>3, WorldIs, WorldNext DEF worldTrue, worldTypes
<1> QED BY <1>2, <1>4

(* A pass that stops, whatever is logged of it. *)
LEMMA PassEndsKeeps ==
    ASSUME LifeInv, NEW r \in Runners,
           passDone(r) \/ passFails(r) \/ becomes(r, NoPass),
           worldTrue(World'), onward(World, World'), ScoresTyped'
    PROVE  LifeInv'
<1>1. PICK x : becomes(r, x) /\ passTrue(x, World)
  BY PassEnds
<1>2. passTrue(x, World')
  BY <1>1, PassStays
<1> QED BY <1>1, <1>2, RunnerKeeps

-----------------------------------------------------------------------------
(* Planning *)

LEMMA PlanKeeps ==
    ASSUME LifeInv, NEW r \in Runners, runners[r].market \in Markets,
           NEW plan \in Plans, NEW pc \in {"Assess", "Void", "Settle"}, plans(r, plan, pc),
           pc = "Settle" => plan.void = {},
           plan.score # NoScore => plan.outcome = resolve1X2(plan.score),
           \A b \in plan.win \cup plan.void : /\ Offer[b].market = runners[r].market
                                              /\ betRows[b] \notin {"None", "CLAIMED"},
           plan.win \cap plan.void = {}
    PROVE  LifeInv' /\ onward(World, World')
<1> DEFINE p == runners[r]
           x == [p EXCEPT !.plan = plan, !.todo = plan.void, !.pc = pc]
<1>1. p \in Passes /\ passTrue(p, World) /\ runners \in [Runners -> Passes]
  BY DEF LifeInv
<1>2. /\ plan.win \subseteq Bets /\ plan.void \subseteq Bets /\ plan.outcome \in 0..10
      /\ pc \in Pcs
  BY DEF Plans, Pcs, Decided, Planned
<1>3. /\ judged' = [b \in Bets |->
            IF b \in betsOn(p.market) /\ betRows[b] # "CLAIMED"
            THEN judged[b] \cup {verdictIn(plan, b)} ELSE judged[b]]
      /\ outcomes' = [outcomes EXCEPT ![p.market] = @ \cup {plan.outcome}]
      /\ UNCHANGED <<ledgerVars, reports, inCache, rowVars, tick, missed>>
      /\ runners' = [runners EXCEPT ![r].plan = plan, ![r].todo = plan.void, ![r].pc = pc]
  BY DEF plans, marketOf
<1>4. judged \in [Bets -> SUBSET {"win", "push", "lose"}] /\ outcomes \in [Markets -> SUBSET Int]
  BY WorldIs DEF LifeInv, worldTrue, worldTypes
<1>5. judged' \in [Bets -> SUBSET {"win", "push", "lose"}]
      /\ \A b \in Bets : judged[b] \subseteq judged'[b]
  BY <1>3, <1>4 DEF verdictIn
<1>6. /\ outcomes' \in [Markets -> SUBSET Int] /\ plan.outcome \in outcomes'[p.market]
      /\ \A m \in Markets : outcomes[m] \subseteq outcomes'[m]
  BY <1>2, <1>3, <1>4
<1>7. worldTrue(World') /\ onward(World, World')
  BY <1>3, <1>5, <1>6, JudgedKept DEF rowVars
<1>8. becomes(r, x)
  <2> HIDE DEF p
  <2> QED BY <1>1, <1>3 DEF becomes, p
<1>9. /\ x \in Passes /\ x.pc = pc /\ sameLoop(x, p) /\ x.market = p.market /\ x.plan = plan
      /\ x.todo = plan.void
  BY <1>1, <1>2 DEF Passes, sameLoop
<1> HIDE DEF x
<1>10. \A b \in Bets : Offer[b].market = p.market /\ betRows[b] # "CLAIMED" =>
          gave(World', b, verdictIn(plan, b))
  BY <1>3, WorldNext DEF betsOn, gave
<1>11. planComplete(x, World')
  <2>1. betRows' = betRows
    BY <1>3 DEF rowVars
  <2> QED BY <1>9, <1>10, <2>1, WorldNext DEF planComplete, verdictIn
<1>12. planTrue(x, World')
  <2>1. betRows' = betRows
    BY <1>3 DEF rowVars
  <2>2. \A b \in plan.win : Offer[b].market = p.market /\ gave(World', b, "win") /\ betRows[b] # "None"
    BY <1>2, <1>10 DEF verdictIn
  <2>3. \A b \in plan.void : Offer[b].market = p.market /\ gave(World', b, "push")
                             /\ betRows[b] # "None"
    BY <1>2, <1>10 DEF verdictIn
  <2> QED BY <1>9, <1>11, <2>1, <2>2, <2>3, WorldNext DEF planTrue
<1>13. passTrue(x, World')
  <2>1. loopTrue(x)
    BY <1>1, <1>9 DEF passTrue, loopTrue, sameLoop
  <2> QED BY <1>6, <1>9, <1>12, <2>1, WorldNext DEF passTrue, Decided, Planned
<1>14. ScoresTyped'
  BY <1>3, ScoresSame DEF LifeInv, rowVars
<1> QED BY <1>7, <1>8, <1>13, <1>14, RunnerKeeps

LEMMA ScorePlanKeeps ==
    ASSUME LifeInv, NEW r \in Runners, planScoreBasedSettlement(r)
    PROVE  LifeInv' /\ onward(World, World')
<1> DEFINE p == runners[r]
           those(v) == {b \in betsOn(p.market) :
                          plannable(b) /\ verdict(Offer[b].selection, p.plan.score) = v}
           win == those("win")
           push == those("push")
           open == those("unsupported")
           plan == [p.plan EXCEPT !.outcome = resolve1X2(p.plan.score), !.win = win,
                                  !.void = push, !.unresolved = open]
           pc == IF p.kind = "event" THEN "Assess" ELSE IF push # {} THEN "Void" ELSE "Settle"
<1>1. p \in Passes /\ passTrue(p, World) /\ p.pc = "Plan"
  BY DEF LifeInv, planScoreBasedSettlement, at
<1>2. p.market \in Markets /\ p.plan \in Plans
  BY <1>1 DEF passTrue, Passes
<1>3. /\ win \subseteq Bets /\ push \subseteq Bets /\ open \subseteq Bets
      /\ \A b \in win \cup push : /\ Offer[b].market = p.market
                                  /\ betRows[b] \notin {"None", "CLAIMED"}
      /\ win \cap push = {}
  BY DEF betsOn, plannable
<1>4. resolve1X2(p.plan.score) \in 0..10
  BY DEF resolve1X2
<1>5. scorePlan(r) = plan
  BY DEF scorePlan, planOf, marketOf
<1> HIDE DEF win, push, open, p
<1>6. /\ plan \in Plans /\ plan.win = win /\ plan.void = push /\ plan.score = p.plan.score
      /\ plan.outcome = resolve1X2(p.plan.score)
  BY <1>2, <1>3, <1>4 DEF Plans
<1>7. plans(r, plan, pc)
  BY <1>5, <1>6 DEF planScoreBasedSettlement, p
<1>8. pc \in {"Assess", "Void", "Settle"} /\ (pc = "Settle" => push = {})
  OBVIOUS
<1> HIDE DEF plan, pc
<1> QED BY <1>2, <1>3, <1>6, <1>7, <1>8, PlanKeeps DEF p

LEMMA DirectPlanKeeps ==
    ASSUME LifeInv, NEW r \in Runners, planDirectOutcomeSettlement(r)
    PROVE  LifeInv' /\ onward(World, World')
<1> DEFINE p == runners[r]
           ofType == {b \in pendingOn(p.market) : Offer[b].selection.type = p.plan.type}
           win == {b \in ofType : Offer[b].selection.outcome = p.plan.outcome}
           open == pendingOn(p.market) \ ofType
           plan == [p.plan EXCEPT !.win = win, !.unresolved = open]
<1>1. p \in Passes /\ passTrue(p, World) /\ p.pc = "PlanDirect"
  BY DEF LifeInv, planDirectOutcomeSettlement, at
<1>2. /\ p.market \in Markets /\ p.plan \in Plans
      /\ p.plan.score = NoScore /\ p.plan.void = {}
  BY <1>1 DEF passTrue, Passes
<1>3. /\ win \subseteq Bets /\ open \subseteq Bets
      /\ \A b \in win : Offer[b].market = p.market /\ betRows[b] = "PENDING"
  BY DEF pendingOn, betsOn
<1>4. plans(r, plan, "Settle")
  BY DEF planDirectOutcomeSettlement, planOf, marketOf
<1> HIDE DEF win, open, p
<1>5. /\ plan \in Plans /\ plan.win = win /\ plan.void = p.plan.void
      /\ plan.score = p.plan.score
  BY <1>2, <1>3 DEF Plans
<1> HIDE DEF plan
<1> QED BY <1>2, <1>3, <1>4, <1>5, PlanKeeps DEF p

-----------------------------------------------------------------------------
(* Steps of a pass that leave the world alone *)

(* A planned pass that goes on to another step of its plan. *)
LEMMA PlanCarried ==
    ASSUME NEW w, NEW y, passTrue(y, w), y.pc \in Planned, NEW x \in Passes, samePlan(x, y),
           x.pc \in Planned, x.todo \subseteq y.todo,
           x.pc \in {"VoidSent", "Voided"} => x.bet \in x.todo,
           x.pc \in {"Settle", "SettleSent", "Reconcile"} => x.todo = {},
           x.pc = "SettleSent" => ~(Cardinality(x.plan.win) > MAX_SETTLE_BATCH),
           \A b \in y.todo \ x.todo : returned(w, b) \/ ~sure(w, b),
           x.pc = "Voided" => returned(w, x.bet) \/ ~sure(w, x.bet),
           x.pc = "Reconcile" => w.markets[y.market].status # "Open" \/ disputed(w, y.market)
    PROVE  passTrue(x, w)
<1>1. planTrue(y, w) /\ y.market \in Markets /\ loopTrue(y)
  BY DEF passTrue, Planned
<1>2. planComplete(x, w)
  BY <1>1 DEF planTrue, planComplete, samePlan
<1>3. planTrue(x, w)
  BY <1>1, <1>2 DEF planTrue, samePlan
<1>4. loopTrue(x)
  BY <1>1 DEF loopTrue, samePlan, sameLoop
<1>5. /\ x.plan.outcome \in w.outcomes[x.market]
      /\ x.plan.score # NoScore => x.plan.outcome = resolve1X2(x.plan.score)
  BY DEF passTrue, samePlan, Decided
<1> QED BY <1>1, <1>3, <1>4, <1>5 DEF passTrue, samePlan, Planned

LEMMA SettleErrors ==
    ASSUME LifeInv, NEW r \in Runners, marketOf(r) \in Markets
    PROVE  /\ settleError(r) = "None" =>
                 /\ chainMarkets[marketOf(r)].status = "Open"
                 /\ ~(Cardinality(planOf(r).win) > MAX_SETTLE_BATCH)
                 /\ \A b \in planOf(r).win : chainBets[b].status = "Pending"
           /\ settleError(r) = "MarketAlreadySettled" =>
                 chainMarkets[marketOf(r)].status = "Settled"
           /\ settleError(r) # "None" =>
                 \/ Cardinality(planOf(r).win) > MAX_SETTLE_BATCH
                 \/ chainMarkets[marketOf(r)].status # "Open"
                 \/ \E b \in planOf(r).win : chainBets[b].status # "Pending"
<1>1. chainMarkets[marketOf(r)].status \in {"Open", "Settled", "Cancelled"}
  BY WorldIs DEF LifeInv, worldTrue, worldTypes, LedgerMarket
<1> QED BY <1>1 DEF settleError

LEMMA QuietSteps ==
    ASSUME LifeInv, NEW r \in Runners,
           \/ assessMarketSettlementRisk(r)
           \/ \E b \in Bets : voidSkipped(r, b) \/ voidSent(r, b)
           \/ settleSent(r) \/ settleRefused(r)
           \/ cancelSent(r) \/ cancelRefused(r)
    PROVE  /\ \E x : becomes(r, x) /\ passTrue(x, World)
           /\ UNCHANGED <<ledgerVars, chainParlays, matchVars, rowVars, tick, missed, faults>>
<1> DEFINE p == runners[r]
           Changed == \E x : becomes(r, x) /\ passTrue(x, World)
           Unchanged == UNCHANGED <<ledgerVars, chainParlays, matchVars, rowVars, tick, missed,
                                    faults>>
<1>0. p \in Passes /\ passTrue(p, World) /\ runners \in [Runners -> Passes]
  BY DEF LifeInv
<1>p. p.pc \in Planned => planTrue(p, World) /\ p.market \in Markets /\ p.todo \subseteq Bets
  BY <1>0 DEF passTrue, Planned, Passes
<1>1. CASE assessMarketSettlementRisk(r)
  <2>1. Unchanged /\ p.pc = "Assess"
    BY <1>1 DEF assessMarketSettlementRisk, at
  <2>2. CASE passDone(r)
    BY <2>1, <2>2, PassEnds
  <2>3. CASE moveTo(r, IF p.todo # {} THEN "Void" ELSE "Settle")
    <3>1. PICK pc \in {"Void", "Settle"} : moveTo(r, pc) /\ (pc = "Settle" => p.todo = {})
      BY <2>3
    <3>2. pc \in Pcs
      BY <3>1 DEF Pcs, Decided, Planned
    <3>3. PICK x \in Passes : becomes(r, x) /\ x.pc = pc /\ samePlan(x, p) /\ x.todo = p.todo
      BY <1>0, <3>1, <3>2, MovedTo
    <3>4. passTrue(x, World)
      BY <1>0, <2>1, <3>1, <3>3, PlanCarried DEF Planned
    <3> QED BY <2>1, <3>3, <3>4
  <2> QED BY <1>1, <2>2, <2>3 DEF assessMarketSettlementRisk
<1>2. ASSUME NEW b \in Bets, voidSkipped(r, b)
      PROVE  Changed /\ Unchanged
  <2>1. Unchanged /\ p.pc = "Void" /\ b \in p.todo /\ betDone(r, b) /\ betRows[b] = "CANCELLED"
    BY <1>2 DEF voidSkipped, at
  <2>2. PICK x \in Passes :
          /\ becomes(r, x) /\ samePlan(x, p) /\ x.todo = p.todo \ {b}
          /\ x.pc = IF p.todo = {b} THEN "Settle" ELSE "Void"
    BY <1>0, <2>1, BetDone
  <2>3. returned(World, b) \/ ~sure(World, b)
    BY <2>1, WorldIs DEF LifeInv, worldTrue, betTrue, rowTrue
  <2>4. passTrue(x, World)
    BY <1>0, <2>1, <2>2, <2>3, PlanCarried DEF Planned
  <2> QED BY <2>1, <2>2, <2>4
<1>3. ASSUME NEW b \in Bets, voidSent(r, b)
      PROVE  Changed /\ Unchanged
  <2> DEFINE x == [p EXCEPT !.pc = "VoidSent", !.bet = b]
  <2>1. Unchanged /\ p.pc = "Void" /\ b \in p.todo
    BY <1>3 DEF voidSent, at
  <2>2. becomes(r, x)
    BY <1>0, <1>3 DEF voidSent, becomes
  <2>3. /\ x \in Passes /\ x.pc = "VoidSent" /\ x.bet = b /\ samePlan(x, p)
        /\ x.todo = p.todo
    <3>1. "VoidSent" \in Pcs /\ b \in 0..NumBets
      BY SettlementAssumption DEF Pcs, Decided, Planned, Bets, SettlementAssumption
    <3> QED BY <1>0, <3>1 DEF Passes, samePlan, sameLoop
  <2> HIDE DEF x
  <2>4. passTrue(x, World)
    BY <1>0, <2>1, <2>3, PlanCarried DEF Planned
  <2> QED BY <2>1, <2>2, <2>4
<1>4. CASE settleSent(r)
  <2>1. Unchanged /\ p.pc = "Settle" /\ settleError(r) = "None" /\ moveTo(r, "SettleSent")
    BY <1>4 DEF settleSent, at
  <2>2. PICK x \in Passes : /\ becomes(r, x) /\ x.pc = "SettleSent" /\ samePlan(x, p)
                           /\ x.todo = p.todo
    <3>1. "SettleSent" \in Pcs
      BY DEF Pcs, Decided, Planned
    <3> QED BY <1>0, <2>1, <3>1, MovedTo
  <2>3. planTrue(p, World) /\ p.market \in Markets
    BY <1>p, <2>1 DEF Planned
  <2>4. ~(Cardinality(p.plan.win) > MAX_SETTLE_BATCH)
    BY <2>1, <2>3, SettleErrors DEF marketOf, planOf
  <2>5. passTrue(x, World)
    BY <1>0, <2>1, <2>2, <2>3, <2>4, PlanCarried DEF Planned, planTrue, samePlan
  <2> QED BY <2>1, <2>2, <2>5
<1>5. CASE settleRefused(r)
  <2>1. Unchanged /\ p.pc = "Settle"
    BY <1>5 DEF settleRefused, at
  <2>2. CASE settleError(r) = "MarketAlreadySettled" /\ moveTo(r, "Reconcile")
    <3>1. PICK x \in Passes : /\ becomes(r, x) /\ x.pc = "Reconcile" /\ samePlan(x, p)
                             /\ x.todo = p.todo
      <4>1. "Reconcile" \in Pcs
        BY DEF Pcs, Decided, Planned
      <4> QED BY <1>0, <2>2, <4>1, MovedTo
    <3>2. planTrue(p, World) /\ p.market \in Markets
      BY <1>p, <2>1 DEF Planned
    <3>3. World.markets[p.market].status = "Settled"
      BY <2>2, <3>2, SettleErrors, WorldIs DEF marketOf
    <3>4. passTrue(x, World)
      BY <1>0, <2>1, <3>1, <3>2, <3>3, PlanCarried DEF Planned, planTrue
    <3> QED BY <2>1, <3>1, <3>4
  <2>3. CASE passFails(r)
    BY <2>1, <2>3, PassEnds
  <2> QED BY <1>5, <2>2, <2>3 DEF settleRefused
<1>6. CASE cancelSent(r)
  <2>1. PICK x \in Passes : becomes(r, x) /\ x.pc = "CancelSent" /\ samePlan(x, p)
    <3>1. "CancelSent" \in Pcs
      BY DEF Pcs
    <3> QED BY <1>0, <1>6, <3>1, MovedTo DEF cancelSent
  <2>2. passTrue(x, World)
    BY <1>0, <1>6, <2>1 DEF cancelSent, at, passTrue, loopTrue, samePlan, sameLoop, Decided,
       Planned
  <2> QED BY <1>6, <2>1, <2>2 DEF cancelSent
<1>7. CASE cancelRefused(r)
  <2>1. CASE chainMarkets[p.market].status = "Cancelled" /\ moveTo(r, "MarkCancelled")
    <3>1. PICK x \in Passes : becomes(r, x) /\ x.pc = "MarkCancelled" /\ samePlan(x, p)
      <4>1. "MarkCancelled" \in Pcs
        BY DEF Pcs
      <4> QED BY <1>0, <2>1, <4>1, MovedTo
    <3>2. passTrue(x, World)
      BY <1>0, <1>7, <2>1, <3>1, WorldIs DEF cancelRefused, at, passTrue, loopTrue, samePlan,
         sameLoop, Decided, Planned
    <3> QED BY <1>7, <3>1, <3>2 DEF cancelRefused
  <2>2. CASE passFails(r)
    BY <1>7, <2>2, PassEnds DEF cancelRefused
  <2> QED BY <1>7, <2>1, <2>2 DEF cancelRefused, marketOf
<1> QED BY <1>1, <1>2, <1>3, <1>4, <1>5, <1>6, <1>7

(* A void that is done with: the row is marked, or the failure logged. *)
LEMMA VoidDoneKeeps ==
    ASSUME LifeInv, NEW r \in Runners, runners[r].pc \in {"Void", "Voided"},
           NEW b \in runners[r].todo, betDone(r, b),
           worldTrue(World'), onward(World, World'), ScoresTyped',
           returned(World', b) \/ ~sure(World', b)
    PROVE  LifeInv'
<1> DEFINE p == runners[r]
<1>1. passTrue(p, World') /\ runners \in [Runners -> Passes]
  BY PassStays DEF LifeInv
<1>2. PICK x \in Passes :
        /\ becomes(r, x) /\ samePlan(x, p) /\ x.todo = p.todo \ {b}
        /\ x.pc = IF p.todo = {b} THEN "Settle" ELSE "Void"
  BY <1>1, BetDone
<1>3. passTrue(x, World')
  BY <1>1, <1>2, PlanCarried DEF Planned
<1> QED BY <1>2, <1>3, RunnerKeeps

LEMMA FailureKeeps ==
    ASSUME LifeInv, NEW r \in Runners, failure(r)
    PROVE  LifeInv' /\ onward(World, World') /\ UNCHANGED rowVars
<1> DEFINE p == runners[r]
<1>0. UNCHANGED <<ledgerVars, chainParlays, matchVars, rowVars, tick>>
  BY DEF failure, die, callFails, receiptLost, voidFails
<1>1. ScoresTyped'
  BY <1>0, ScoresSame DEF LifeInv, matchVars, rowVars
<1>2. UNCHANGED missed => worldTrue(World') /\ onward(World, World')
  BY <1>0, QuietKeeps DEF matchVars, rowVars
<1>3. ASSUME NEW b \in p.todo, p.pc \in {"Void", "Voided"}, betDone(r, b),
             missed' = missed \cup {<<"void", b>>}
      PROVE  LifeInv' /\ onward(World, World')
  <2>1. worldTrue(World') /\ onward(World, World')
    BY <1>0, <1>3, MissedKept DEF matchVars, rowVars
  <2>2. returned(World', b)
    BY <1>3, WorldNext DEF returned
  <2> QED BY <1>1, <1>3, <2>1, <2>2, VoidDoneKeeps
<1>4. CASE die(r)
  BY <1>0, <1>1, <1>2, <1>4, PassEndsKeeps DEF die, becomes
<1>5. CASE callFails(r)
  BY <1>0, <1>1, <1>2, <1>5, PassEndsKeeps DEF callFails
<1>6. ASSUME NEW b \in Bets, voidFails(r, b)
      PROVE  LifeInv' /\ onward(World, World')
  BY <1>3, <1>6 DEF voidFails, at
<1>7. CASE receiptLost(r)
  <2>1. CASE p.pc = "Voided" /\ missed' = missed \cup {<<"void", p.bet>>} /\ betDone(r, p.bet)
    <3>1. p.bet \in p.todo
      BY <2>1 DEF LifeInv, passTrue, planTrue, Planned
    <3> QED BY <1>0, <1>3, <2>1, <3>1
  <2>2. CASE passFails(r) /\ UNCHANGED missed
    BY <1>0, <1>1, <1>2, <2>2, PassEndsKeeps
  <2> QED BY <1>7, <2>1, <2>2 DEF receiptLost, at
<1> QED BY <1>0, <1>4, <1>5, <1>6, <1>7 DEF failure

-----------------------------------------------------------------------------
(* Runners that write a Market row *)

LEMMA MarketRowsKept ==
    ASSUME LifeInv, UNCHANGED <<ledgerVars, matchVars, betRows, missed, tick>>,
           marketRows' \in [Markets -> MarketRow]
    PROVE  worldTrue(World') /\ onward(World, World') /\ ScoresTyped'
<1>1. UNCHANGED <<judged, outcomes, reports, inCache>>
  BY DEF matchVars
<1>2. ScoresTyped'
  BY <1>1 DEF LifeInv, ScoresTyped
<1> QED BY <1>1, <1>2, QuietKeeps

LEMMA StatusWritten ==
    ASSUME LifeInv, UNCHANGED <<ledgerVars, matchVars, betRows, missed, tick>>,
           NEW m \in Markets,
           NEW status \in {"OPEN", "LIVE", "SUSPENDED", "SETTLED", "CANCELLED"},
           marketRows' = [marketRows EXCEPT ![m].status = status]
    PROVE  worldTrue(World') /\ onward(World, World') /\ ScoresTyped'
<1>1. marketRows \in [Markets -> MarketRow]
  BY DEF LifeInv, ScoresTyped
<1>2. \A n \in Markets : marketRows'[n] \in MarketRow
  BY <1>1 DEF MarketRow
<1>3. marketRows' \in [Markets -> MarketRow]
  BY <1>1, <1>2
<1> QED BY <1>3, MarketRowsKept

LEMMA RowWritten ==
    ASSUME marketRows \in [Markets -> MarketRow], NEW m \in Markets, NEW s \in AnyScore,
           NEW status \in {"OPEN", "LIVE", "SUSPENDED", "SETTLED", "CANCELLED"},
           marketRows' = [marketRows EXCEPT ![m].score = s, ![m].status = status]
    PROVE  marketRows' \in [Markets -> MarketRow]
<1>1. \A n \in Markets : marketRows'[n] \in MarketRow
  BY DEF MarketRow
<1> QED BY <1>1

LEMMA RecordKeeps ==
    ASSUME LifeInv, NEW r \in Runners, recordScore(r)
    PROVE  LifeInv' /\ onward(World, World')
<1> DEFINE p == runners[r]
           status == IF p.kind = "past" THEN "SETTLED" ELSE marketRows[p.market].status
<1>1. /\ passTrue(p, World) /\ p.pc = "Record" /\ p.market \in Markets
      /\ p.plan.score \in AnyScore /\ runners \in [Runners -> Passes]
  BY DEF LifeInv, passTrue, recordScore, at, Passes, Plans
<1>2. marketRows \in [Markets -> MarketRow]
  BY DEF LifeInv, ScoresTyped
<1>3. marketRows' = [marketRows EXCEPT ![p.market].score = p.plan.score,
                                       ![p.market].status = status]
  BY DEF recordScore, marketOf, planOf
<1>4. status \in {"OPEN", "LIVE", "SUSPENDED", "SETTLED", "CANCELLED"}
  BY <1>1, <1>2 DEF MarketRow
<1> HIDE DEF status
<1>5. worldTrue(World') /\ onward(World, World') /\ ScoresTyped'
  <2>1. marketRows' \in [Markets -> MarketRow]
    BY ONLY <1>1, <1>2, <1>3, <1>4, RowWritten
  <2>2. UNCHANGED <<ledgerVars, matchVars, betRows, missed, tick>>
    BY DEF recordScore
  <2> HIDE DEF p
  <2> QED BY ONLY LifeInv, <2>1, <2>2, MarketRowsKept
<1>6. PICK x \in Passes : becomes(r, x) /\ x.pc = "Plan" /\ samePlan(x, p)
  <2>1. "Plan" \in Pcs
    BY DEF Pcs
  <2> QED BY <1>1, <2>1, MovedTo DEF recordScore
<1>7. passTrue(x, World)
  BY <1>1, <1>6 DEF passTrue, loopTrue, samePlan, sameLoop, Decided, Planned
<1> QED BY <1>5, <1>6, <1>7, PassStays, RunnerKeeps

LEMMA RowStatusKeeps ==
    ASSUME LifeInv, NEW r \in Runners, closeMarket(r) \/ markCancelled(r) \/ cancelRow(r)
    PROVE  LifeInv' /\ onward(World, World')
<1> DEFINE p == runners[r]
<1>1. /\ passTrue(p, World) /\ runners \in [Runners -> Passes]
      /\ p.pc \in {"Close", "MarkCancelled", "CancelRow"} /\ p.market \in Markets
  BY DEF LifeInv, passTrue, closeMarket, markCancelled, cancelRow, at
<1>2. PICK status \in {"SETTLED", "CANCELLED"} :
        marketRows' = [marketRows EXCEPT ![p.market].status = status]
  BY DEF closeMarket, markCancelled, cancelRow, marketOf
<1>3. worldTrue(World') /\ onward(World, World') /\ ScoresTyped'
  BY <1>1, <1>2, StatusWritten DEF closeMarket, markCancelled, cancelRow
<1>4. CASE passDone(r)
  BY <1>3, <1>4, PassEndsKeeps
<1>5. CASE markCancelled(r)
  <2>1. PICK x \in Passes : becomes(r, x) /\ x.pc = "CancelBets" /\ samePlan(x, p)
    <3>1. "CancelBets" \in Pcs
      BY DEF Pcs
    <3> QED BY <1>1, <1>5, <3>1, MovedTo DEF markCancelled
  <2>2. p.pc = "MarkCancelled"
    BY <1>5 DEF markCancelled, at
  <2>3. passTrue(x, World)
    BY <1>1, <2>1, <2>2 DEF passTrue, loopTrue, samePlan, sameLoop, Decided, Planned
  <2> QED BY <1>3, <2>1, <2>3, PassStays, RunnerKeeps
<1> QED BY <1>4, <1>5 DEF closeMarket, cancelRow

-----------------------------------------------------------------------------
(* Runners that write Bet rows *)

(* What is known of a bet a pass means to void, ... *)
LEMMA ToVoid ==
    ASSUME LifeInv, NEW r \in Runners, runners[r].pc \in Planned, NEW b \in runners[r].plan.void
    PROVE  /\ b \in Bets /\ Offer[b].market = runners[r].market /\ gave(World, b, "push")
           /\ betRows[b] # "None" /\ chainBets[b].status # "None"
           /\ betTrue(World, b)
<1>1. planTrue(runners[r], World) /\ b \in Bets
  BY DEF LifeInv, passTrue, Passes, Plans
<1>2. betTrue(World, b)
  BY <1>1 DEF LifeInv, worldTrue
<1>3. Offer[b].market = runners[r].market /\ gave(World, b, "push") /\ betRows[b] # "None"
  BY <1>1, WorldIs DEF planTrue
<1>4. chainBets[b].status # "None"
  BY <1>2, <1>3, WorldIs DEF betTrue, rowTrue
<1> QED BY <1>1, <1>2, <1>3, <1>4

(* ... of one that cannot be voided any more, ...                          *)
LEMMA OutOfReach ==
    ASSUME LifeInv, NEW b \in Bets, gave(World, b, "push"), chainBets[b].status # "None",
           ~voidable(b)
    PROVE  returned(World, b) \/ ~sure(World, b)
<1>1. /\ chainTrue(World, b) /\ settledTrue(World, b)
      /\ chainBets[b].status \in {"Pending", "Won", "Cashed", "Cancelled"}
      /\ chainMarkets[Offer[b].market].status \in {"Open", "Settled", "Cancelled"}
  BY OffersIn, WorldIs DEF LifeInv, worldTrue, worldTypes, betTrue, LedgerBet, LedgerMarket
<1>2. CASE chainBets[b].status = "Cancelled"
  BY <1>2, WorldIs DEF returned
<1>3. CASE chainBets[b].status \in {"Won", "Cashed"}
  <2>1. gave(World, b, "win")
    BY <1>1, <1>3, WorldIs DEF chainTrue
  <2> QED BY <2>1 DEF gave, sure
<1>4. CASE chainBets[b].status = "Pending"
  BY <1>1, <1>4, WorldIs DEF voidable, settledTrue, returned, market
<1> QED BY <1>1, <1>2, <1>3, <1>4

(* ... and of one that is marked.                                          *)
LEMMA MarkedCancelled ==
    ASSUME LifeInv, UNCHANGED <<ledgerVars, judged, outcomes, missed>>, NEW b \in Bets,
           betRows' = [betRows EXCEPT ![b] = "CANCELLED"],
           betRows[b] # "None", gave(World, b, "push"),
           returned(World, b) \/ ~sure(World, b)
    PROVE  worldTrue(World') /\ onward(World, World')
<1>1. betRows \in [Bets -> BetRow] /\ betTrue(World, b)
  BY WorldIs DEF LifeInv, worldTrue, worldTypes
<1>2. betRows' \in [Bets -> BetRow]
  BY <1>1 DEF BetRow
<1>3. \A c \in Bets : betRows'[c] # betRows[c] => c = b /\ betRows'[c] = "CANCELLED"
  BY <1>1
<1>4. rowTrue(World, b, "CANCELLED")
  BY <1>1, WorldIs DEF rowTrue, betTrue
<1>5. sure(World, b) => betRows[b] \notin {"WON", "LOST", "CLAIMED"}
  BY <1>1, WorldIs DEF betTrue, rowTrue, chainTrue, gave, sure
<1> QED BY <1>2, <1>3, <1>4, <1>5, RowsKept DEF stands

LEMMA VoidRefusedKeeps ==
    ASSUME LifeInv, NEW r \in Runners, NEW b \in Bets, voidRefused(r, b)
    PROVE  LifeInv' /\ onward(World, World')
<1> DEFINE p == runners[r]
<1>1. /\ p.pc = "Void" /\ b \in p.todo /\ ~voidable(b) /\ betDone(r, b)
      /\ UNCHANGED <<ledgerVars, chainParlays, matchVars, marketRows, parlayRows, tick, missed>>
  BY DEF voidRefused, at
<1>2. b \in p.plan.void /\ p.pc \in Planned
  BY <1>1 DEF LifeInv, passTrue, planTrue, Planned
<1>3. /\ gave(World, b, "push") /\ betRows[b] # "None" /\ chainBets[b].status # "None"
  BY <1>2, ToVoid
<1>4. ScoresTyped'
  BY <1>1, ScoresSame DEF LifeInv, matchVars
<1>5. returned(World, b) \/ ~sure(World, b)
  BY <1>1, <1>3, OutOfReach
<1>6. worldTrue(World') /\ onward(World, World')
  <2>1. CASE betRows' = betRows
    BY <1>1, <2>1, QuietKeeps DEF matchVars
  <2>2. CASE betRows' = [betRows EXCEPT ![b] = "CANCELLED"]
    BY <1>1, <1>3, <1>5, <2>2, MarkedCancelled DEF matchVars
  <2> QED BY <2>1, <2>2 DEF voidRefused
<1>7. returned(World', b) \/ ~sure(World', b)
  BY <1>5, <1>6, ReturnedStays, VerdictsStay
<1> QED BY <1>1, <1>4, <1>6, <1>7, VoidDoneKeeps

LEMMA MarkVoidedKeeps ==
    ASSUME LifeInv, NEW r \in Runners, markVoided(r)
    PROVE  LifeInv' /\ onward(World, World')
<1> DEFINE p == runners[r]
           b == p.bet
<1>1. /\ p.pc = "Voided" /\ betDone(r, b) /\ betRows' = [betRows EXCEPT ![b] = "CANCELLED"]
      /\ UNCHANGED <<ledgerVars, chainParlays, matchVars, marketRows, parlayRows, tick, missed>>
  BY DEF markVoided, at
<1>2. /\ b \in p.todo /\ b \in p.plan.void /\ p.pc \in Planned
      /\ returned(World, b) \/ ~sure(World, b)
  BY <1>1 DEF LifeInv, passTrue, planTrue, Planned
<1>3. b \in Bets /\ betRows[b] # "None" /\ gave(World, b, "push")
  BY <1>2, ToVoid
<1>4. ScoresTyped'
  BY <1>1, ScoresSame DEF LifeInv, matchVars
<1>5. worldTrue(World') /\ onward(World, World')
  BY <1>1, <1>2, <1>3, MarkedCancelled DEF matchVars
<1>6. returned(World', b) \/ ~sure(World', b)
  BY <1>2, <1>3, <1>5, ReturnedStays, VerdictsStay
<1> QED BY <1>1, <1>2, <1>4, <1>5, <1>6, VoidDoneKeeps

(* What one transaction over the rows of a market makes of a bet: its plan  *)
(* gave that verdict, or another plan another one.                         *)
LEMMA BetReconciled ==
    ASSUME LifeInv, NEW x, passTrue(x, World), x.pc = "Reconcile", NEW b \in Bets,
           Offer[b].market = x.market, betRows[b] \notin {"None", "CLAIMED"},
           NEW row,
           row = IF b \in x.plan.win THEN "WON"
                 ELSE IF betRows[b] = "REFUNDED" THEN betRows[b]
                 ELSE IF b \in x.plan.void THEN "CANCELLED" ELSE "LOST"
    PROVE  /\ row # "None"
           /\ rowTrue(World, b, row)
           /\ sure(World, b) => stands(betRows[b], row)
<1>1. planTrue(x, World) /\ x.todo = {}
  BY DEF passTrue, planTrue, Planned
<1>2. rowTrue(World, b, betRows[b]) /\ chainBets[b].status # "None"
  BY WorldIs DEF LifeInv, worldTrue, betTrue, rowTrue
<1>3. CASE b \in x.plan.win
  <2>1. row = "WON" /\ gave(World, b, "win")
    BY <1>1, <1>3 DEF planTrue
  <2>2. sure(World, b) => betRows[b] # "LOST"
    BY <1>2, <2>1 DEF rowTrue, gave, sure
  <2> QED BY <1>2, <2>1, <2>2, WorldIs DEF rowTrue, stands
<1>4. CASE b \notin x.plan.win /\ betRows[b] = "REFUNDED"
  BY <1>2, <1>4 DEF stands
<1>5. CASE b \notin x.plan.win /\ betRows[b] # "REFUNDED" /\ b \in x.plan.void
  <2>1. /\ row = "CANCELLED" /\ gave(World, b, "push")
        /\ returned(World, b) \/ ~sure(World, b)
    BY <1>1, <1>5 DEF planTrue
  <2>2. sure(World, b) => betRows[b] \notin {"WON", "LOST"}
    BY <1>2, <2>1 DEF rowTrue, gave, sure
  <2> QED BY <1>2, <2>1, <2>2, WorldIs DEF rowTrue, stands
<1>6. CASE b \notin x.plan.win /\ betRows[b] # "REFUNDED" /\ b \notin x.plan.void
  <2>1. row = "LOST" /\ (gave(World, b, "lose") \/ ~sure(World, b))
    BY <1>1, <1>6, WorldIs DEF planTrue, planComplete
  <2>2. sure(World, b) => betRows[b] # "WON"
    BY <1>2, <2>1 DEF rowTrue, gave, sure
  <2> QED BY <1>2, <2>1, <2>2, WorldIs DEF rowTrue, stands
<1> QED BY <1>3, <1>4, <1>5, <1>6

LEMMA ReconcileKeeps ==
    ASSUME LifeInv, NEW r \in Runners, reconcileSettlement(r)
    PROVE  LifeInv' /\ onward(World, World')
<1> DEFINE p == runners[r]
<1>1. /\ p.pc = "Reconcile" /\ passTrue(p, World)
      /\ p.market \in Markets /\ runners \in [Runners -> Passes]
      /\ UNCHANGED <<ledgerVars, chainParlays, matchVars, marketRows, parlayRows, tick, missed>>
  BY DEF LifeInv, passTrue, reconcileSettlement, at
<1>2. betRows' = [b \in Bets |->
        IF b \notin betsOn(p.market) \/ betRows[b] \in {"None", "CLAIMED"} THEN betRows[b]
        ELSE IF b \in p.plan.win THEN "WON"
        ELSE IF betRows[b] = "REFUNDED" THEN betRows[b]
        ELSE IF b \in p.plan.void THEN "CANCELLED" ELSE "LOST"]
  BY DEF reconcileSettlement, marketOf, planOf
<1>3. betRows \in [Bets -> BetRow]
  BY WorldIs DEF LifeInv, worldTrue, worldTypes
<1>4. betRows' \in [Bets -> BetRow]
  BY <1>2, <1>3 DEF BetRow
<1>5. ASSUME NEW b \in Bets, betRows'[b] # betRows[b]
      PROVE  /\ betRows'[b] # "None"
             /\ rowTrue(World, b, betRows'[b])
             /\ sure(World, b) => stands(betRows[b], betRows'[b])
  <2>1. Offer[b].market = p.market /\ betRows[b] \notin {"None", "CLAIMED"}
    BY <1>2, <1>5 DEF betsOn
  <2>2. betRows'[b] = IF b \in p.plan.win THEN "WON"
                      ELSE IF betRows[b] = "REFUNDED" THEN betRows[b]
                      ELSE IF b \in p.plan.void THEN "CANCELLED" ELSE "LOST"
    BY <1>2, <2>1 DEF betsOn
  <2> HIDE DEF p
  <2> QED BY <1>1, <2>1, <2>2, BetReconciled
<1>6. worldTrue(World') /\ onward(World, World')
  <2> HIDE DEF p
  <2> QED BY <1>1, <1>4, <1>5, RowsKept DEF matchVars
<1>7. ScoresTyped'
  BY <1>1, ScoresSame DEF LifeInv, matchVars
<1>8. PICK pc \in {"Legs", "Close"} :
        moveTo(r, pc) /\ (pc = "Legs" => p.plan.score # NoScore)
  BY DEF reconcileSettlement, afterRows, planOf
<1>9. PICK x \in Passes : becomes(r, x) /\ x.pc = pc /\ samePlan(x, p)
  <2>1. pc \in Pcs
    BY DEF Pcs, Decided
  <2> QED BY <1>1, <1>8, <2>1, MovedTo
<1>10. passTrue(x, World)
  BY <1>1, <1>8, <1>9 DEF passTrue, loopTrue, samePlan, sameLoop, Decided, Planned
<1> QED BY <1>6, <1>7, <1>9, <1>10, PassStays, RunnerKeeps

LEMMA CancelBetsKeeps ==
    ASSUME LifeInv, NEW r \in Runners, cancelMarketBets(r)
    PROVE  LifeInv' /\ onward(World, World')
<1> DEFINE p == runners[r]
<1>1. /\ p.pc = "CancelBets" /\ passDone(r)
      /\ p.market \in Markets
      /\ \/ chainMarkets[p.market].status = "Cancelled" \/ <<"cancel", p.market>> \in missed
      /\ UNCHANGED <<ledgerVars, chainParlays, matchVars, marketRows, parlayRows, tick, missed>>
  BY WorldIs DEF LifeInv, passTrue, cancelMarketBets, at
<1>2. betRows' = [b \in Bets |-> IF b \in pendingOn(p.market) THEN "CANCELLED" ELSE betRows[b]]
  BY DEF cancelMarketBets, marketOf
<1>3. betRows \in [Bets -> BetRow]
  BY WorldIs DEF LifeInv, worldTrue, worldTypes
<1>4. betRows' \in [Bets -> BetRow]
  BY <1>2, <1>3 DEF BetRow
<1>5. ASSUME NEW b \in Bets, betRows'[b] # betRows[b]
      PROVE  /\ betRows'[b] # "None"
             /\ rowTrue(World, b, betRows'[b])
             /\ sure(World, b) => stands(betRows[b], betRows'[b])
  <2>1. betRows'[b] = "CANCELLED" /\ betRows[b] = "PENDING" /\ Offer[b].market = p.market
    BY <1>2, <1>5 DEF pendingOn, betsOn
  <2>2. betTrue(World, b) /\ chainBets[b] \in LedgerBet
    BY WorldIs DEF LifeInv, worldTrue, worldTypes
  <2>3. returned(World, b)
    BY <1>1, <2>1, <2>2, WorldIs DEF betTrue, rowTrue, chainTrue, returned, market, LedgerBet
  <2>4. chainBets[b].status # "None"
    BY <2>1, <2>2, WorldIs DEF betTrue, rowTrue
  <2> QED BY <2>1, <2>3, <2>4, WorldIs DEF rowTrue, stands
<1>6. worldTrue(World') /\ onward(World, World')
  <2> HIDE DEF p
  <2> QED BY <1>1, <1>4, <1>5, RowsKept DEF matchVars
<1>7. ScoresTyped'
  BY <1>1, ScoresSame DEF LifeInv, matchVars
<1> QED BY <1>1, <1>6, <1>7, PassEndsKeeps

(* Parlay rows are no part of what is said of the bets. *)
LEMMA ParlayStepKeeps ==
    ASSUME LifeInv, NEW r \in Runners, resolveLegs(r) \/ reconcileParlays(r)
    PROVE  LifeInv' /\ onward(World, World')
<1> DEFINE p == runners[r]
<1>1. /\ passTrue(p, World) /\ runners \in [Runners -> Passes]
      /\ UNCHANGED <<ledgerVars, chainParlays, matchVars, marketRows, betRows, tick, missed>>
  BY DEF LifeInv, resolveLegs, reconcileParlays
<1>2. PICK pc \in {"Parlays", "Close"} :
        /\ moveTo(r, pc)
        /\ p.pc = IF pc = "Parlays" THEN "Legs" ELSE "Parlays"
  BY DEF resolveLegs, reconcileParlays, at
<1>3. PICK x \in Passes : becomes(r, x) /\ x.pc = pc /\ samePlan(x, p)
  <2>1. pc \in Pcs
    BY DEF Pcs, Decided
  <2> QED BY <1>1, <1>2, <2>1, MovedTo
<1>4. passTrue(x, World)
  BY <1>1, <1>2, <1>3 DEF passTrue, loopTrue, samePlan, sameLoop, Decided, Planned
<1>5. worldTrue(World') /\ onward(World, World') /\ ScoresTyped'
  BY <1>1, QuietKeeps, ScoresSame DEF LifeInv, matchVars
<1> QED BY <1>3, <1>4, <1>5, PassStays, RunnerKeeps

-----------------------------------------------------------------------------
(* Transactions *)

(* A market is settled only from open, with an outcome a plan was to store; *)
(* no transaction takes a stake that was given back.                       *)
LEMMA LedgerKept ==
    ASSUME LifeInv, UNCHANGED <<judged, outcomes, betRows>>, missed \subseteq missed',
           chainMarkets' \in [Markets -> LedgerMarket], chainBets' \in [Bets -> LedgerBet],
           \A m \in Markets : chainMarkets'[m] # chainMarkets[m] =>
                 /\ chainMarkets[m].status = "Open"
                 /\ chainMarkets'[m].status = "Settled" =>
                       chainMarkets'[m].winningOutcome \in outcomes[m],
           \A b \in Bets :
              /\ chainBets[b].status = "Cancelled" => chainBets'[b].status = "Cancelled"
              /\ chainBets[b].status = "Pending" /\ market(World, b) = "Cancelled" =>
                    chainBets'[b].status \in {"Pending", "Cancelled"}
              /\ onward(World, World') => betTrue(World', b)
    PROVE  worldTrue(World') /\ onward(World, World')
<1>1. onward(World, World')
  BY WorldIs, WorldNext DEF onward, stands, market
<1>2. worldTrue(World')
  BY <1>1, WorldIs, WorldNext DEF LifeInv, worldTrue, worldTypes
<1> QED BY <1>1, <1>2

(* What the plans said of a bet. *)
LEMMA SameVerdicts ==
    ASSUME UNCHANGED judged
    PROVE  \A b : /\ \A v : gave(World', b, v) <=> gave(World, b, v)
                  /\ sure(World', b) <=> sure(World, b)
BY WorldIs, WorldNext DEF gave, sure

(* A bet the transaction does not touch, on a market it does not settle.   *)
LEMMA BetKept ==
    ASSUME LifeInv, UNCHANGED <<judged, outcomes, betRows>>, onward(World, World'),
           NEW b \in Bets,
           chainBets'[b] = chainBets[b],
           \/ chainMarkets'[Offer[b].market] = chainMarkets[Offer[b].market]
           \/ /\ chainMarkets[Offer[b].market].status = "Open"
              /\ chainMarkets'[Offer[b].market].status = "Cancelled"
    PROVE  betTrue(World', b)
<1>1. betTrue(World, b)
  BY DEF LifeInv, worldTrue
<1>2. returned(World, b) => returned(World', b)
  BY ReturnedStays
<1>3. \/ market(World', b) = market(World, b)
      \/ market(World, b) = "Open" /\ market(World', b) = "Cancelled"
  BY WorldIs, WorldNext DEF market
<1>4. rowTrue(World', b, betRows[b])
  BY <1>1, <1>2, <1>3, SameVerdicts, WorldIs, WorldNext DEF betTrue, rowTrue
<1>5. chainTrue(World', b)
  BY <1>1, <1>3, SameVerdicts, WorldIs, WorldNext DEF betTrue, chainTrue
<1>6. settledTrue(World', b)
  BY <1>1, <1>2, <1>3, SameVerdicts, WorldIs, WorldNext DEF betTrue, settledTrue
<1> QED BY <1>4, <1>5, <1>6, WorldNext DEF betTrue

(* A stake given back. *)
LEMMA BetReturned ==
    ASSUME LifeInv, UNCHANGED <<judged, outcomes, betRows, chainMarkets>>,
           onward(World, World'), NEW b \in Bets,
           chainBets[b].status = "Pending",
           chainBets'[b].status = "Cancelled", chainBets'[b].market = chainBets[b].market,
           gave(World, b, "push") \/ market(World, b) = "Cancelled",
           market(World, b) # "Settled"
    PROVE  betTrue(World', b)
<1>1. betTrue(World, b) /\ market(World', b) = market(World, b)
  BY WorldIs, WorldNext DEF LifeInv, worldTrue, market
<1>2. returned(World', b)
  BY WorldNext DEF returned
<1>3. rowTrue(World', b, betRows[b])
  BY <1>1, <1>2, SameVerdicts, WorldIs, WorldNext DEF betTrue, rowTrue
<1>4. chainTrue(World', b)
  BY <1>1, SameVerdicts, WorldIs, WorldNext DEF betTrue, chainTrue
<1>5. settledTrue(World', b)
  BY <1>1 DEF settledTrue
<1> QED BY <1>3, <1>4, <1>5, WorldNext DEF betTrue

LEMMA VoidOnChain ==
    ASSUME LifeInv, UNCHANGED <<judged, outcomes, betRows, missed>>, NEW b \in Bets,
           void(b), gave(World, b, "push")
    PROVE  worldTrue(World') /\ onward(World, World')
<1>1. /\ chainBets[b].status = "Pending" /\ chainMarkets' = chainMarkets
      /\ chainBets' = [chainBets EXCEPT ![b].status = "Cancelled"]
      /\ chainMarkets[chainBets[b].market].status = "Open"
  BY DEF void
<1>2. chainMarkets \in [Markets -> LedgerMarket] /\ chainBets \in [Bets -> LedgerBet]
      /\ betTrue(World, b)
  BY WorldIs DEF LifeInv, worldTrue, worldTypes
<1>3. /\ chainBets'[b].status = "Cancelled" /\ chainBets'[b].market = chainBets[b].market
      /\ \A c \in Bets : chainBets'[c] \in LedgerBet /\ (c # b => chainBets'[c] = chainBets[c])
  BY <1>1, <1>2 DEF LedgerBet
<1>4. chainBets' \in [Bets -> LedgerBet]
  BY <1>1, <1>2, <1>3
<1>5. market(World, b) = "Open"
  BY <1>1, <1>2, WorldIs DEF betTrue, chainTrue, market
<1>6. \A c \in Bets : onward(World, World') => betTrue(World', c)
  BY <1>1, <1>3, <1>5, BetKept, BetReturned
<1> QED BY <1>1, <1>2, <1>3, <1>4, <1>6, LedgerKept

LEMMA RefundOnChain ==
    ASSUME LifeInv, UNCHANGED <<judged, outcomes, betRows, missed>>, NEW b \in Bets, refund(b)
    PROVE  worldTrue(World') /\ onward(World, World')
<1>1. /\ chainBets[b].status = "Pending" /\ chainMarkets' = chainMarkets
      /\ chainBets' = [chainBets EXCEPT ![b].status = "Cancelled"]
      /\ chainMarkets[chainBets[b].market].status = "Cancelled"
  BY DEF refund
<1>2. chainMarkets \in [Markets -> LedgerMarket] /\ chainBets \in [Bets -> LedgerBet]
      /\ betTrue(World, b)
  BY WorldIs DEF LifeInv, worldTrue, worldTypes
<1>3. /\ chainBets'[b].status = "Cancelled" /\ chainBets'[b].market = chainBets[b].market
      /\ \A c \in Bets : chainBets'[c] \in LedgerBet /\ (c # b => chainBets'[c] = chainBets[c])
  BY <1>1, <1>2 DEF LedgerBet
<1>4. chainBets' \in [Bets -> LedgerBet]
  BY <1>1, <1>2, <1>3
<1>5. market(World, b) = "Cancelled"
  BY <1>1, <1>2, WorldIs DEF betTrue, chainTrue, market
<1>6. \A c \in Bets : onward(World, World') => betTrue(World', c)
  BY <1>1, <1>3, <1>5, BetKept, BetReturned
<1> QED BY <1>1, <1>2, <1>3, <1>4, <1>6, LedgerKept

LEMMA CashOnChain ==
    ASSUME LifeInv, UNCHANGED <<judged, outcomes, betRows, missed>>, NEW b \in Bets, cash(b)
    PROVE  worldTrue(World') /\ onward(World, World')
<1>1. /\ chainBets[b].status = "Won" /\ chainMarkets' = chainMarkets
      /\ chainBets' = [chainBets EXCEPT ![b].status = "Cashed"]
  BY DEF cash
<1>2. chainMarkets \in [Markets -> LedgerMarket] /\ chainBets \in [Bets -> LedgerBet]
      /\ betTrue(World, b)
  BY WorldIs DEF LifeInv, worldTrue, worldTypes
<1>3. /\ chainBets'[b].status = "Cashed" /\ chainBets'[b].market = chainBets[b].market
      /\ \A c \in Bets : chainBets'[c] \in LedgerBet /\ (c # b => chainBets'[c] = chainBets[c])
  BY <1>1, <1>2 DEF LedgerBet
<1>4. chainBets' \in [Bets -> LedgerBet]
  BY <1>1, <1>2, <1>3
<1>5. ASSUME onward(World, World')
      PROVE  betTrue(World', b)
  <2>1. /\ market(World', b) = market(World, b)
        /\ returned(World, b) => returned(World', b)
    BY <1>1, <1>5, ReturnedStays, WorldIs, WorldNext DEF market
  <2>2. rowTrue(World', b, betRows[b])
    BY <1>1, <1>2, <1>3, <2>1, SameVerdicts, WorldIs, WorldNext DEF betTrue, rowTrue
  <2>3. chainTrue(World', b)
    BY <1>1, <1>2, <1>3, <2>1, SameVerdicts, WorldIs, WorldNext DEF betTrue, chainTrue
  <2>4. settledTrue(World', b)
    BY <1>2, <1>3, <2>1, SameVerdicts, WorldIs, WorldNext DEF betTrue, settledTrue
  <2>5. betRows' = betRows
    OBVIOUS
  <2> QED BY <2>2, <2>3, <2>4, <2>5, WorldNext DEF betTrue
<1>6. \A c \in Bets : onward(World, World') => betTrue(World', c)
  BY <1>1, <1>3, <1>5, BetKept
<1> QED BY <1>1, <1>2, <1>3, <1>4, <1>6, LedgerKept

LEMMA CancelOnChain ==
    ASSUME LifeInv, UNCHANGED <<judged, outcomes, betRows, missed>>, NEW m \in Markets, cancel(m)
    PROVE  worldTrue(World') /\ onward(World, World')
<1>1. /\ chainMarkets[m].status = "Open" /\ chainBets' = chainBets
      /\ chainMarkets' = [chainMarkets EXCEPT ![m].status = "Cancelled"]
  BY DEF cancel
<1>2. chainMarkets \in [Markets -> LedgerMarket] /\ chainBets \in [Bets -> LedgerBet]
  BY WorldIs DEF LifeInv, worldTrue, worldTypes
<1>3. /\ chainMarkets'[m].status = "Cancelled"
      /\ \A n \in Markets : chainMarkets'[n] \in LedgerMarket
                            /\ (n # m => chainMarkets'[n] = chainMarkets[n])
  BY <1>1, <1>2 DEF LedgerMarket
<1>4. chainMarkets' \in [Markets -> LedgerMarket]
  BY <1>1, <1>2, <1>3
<1>5. \A c \in Bets : onward(World, World') => betTrue(World', c)
  BY <1>1, <1>3, BetKept, OffersIn
<1> QED BY <1>1, <1>2, <1>3, <1>4, <1>5, LedgerKept

(* The settlement a complete plan makes. *)
LEMMA SettleOnChain ==
    ASSUME LifeInv, UNCHANGED <<judged, outcomes, betRows, missed>>, NEW m \in Markets,
           NEW win \in SUBSET Bets, NEW push \in SUBSET Bets,
           NEW outcome \in outcomes[m], settle(m, outcome, win),
           \A b \in win : /\ Offer[b].market = m /\ gave(World, b, "win")
                          /\ chainBets[b].status = "Pending",
           \A b \in push : /\ gave(World, b, "push")
                           /\ returned(World, b) \/ ~sure(World, b),
           \A b \in Bets : Offer[b].market = m =>
              \/ b \in win \cup push
              \/ gave(World, b, "lose") \/ betRows[b] = "CLAIMED" \/ ~sure(World, b)
    PROVE  worldTrue(World') /\ onward(World, World')
<1>1. /\ chainMarkets[m].status = "Open" /\ betRows' = betRows
      /\ chainMarkets' = [chainMarkets EXCEPT ![m] = [status |-> "Settled",
                                                      winningOutcome |-> outcome]]
      /\ chainBets' = [b \in Bets |->
                         IF b \in win /\ isIn(b, m, {"Pending"})
                         THEN [chainBets[b] EXCEPT !.status = "Won"] ELSE chainBets[b]]
  BY SettlementAssumption DEF settle, SettlementAssumption
<1>2. chainMarkets \in [Markets -> LedgerMarket] /\ chainBets \in [Bets -> LedgerBet]
      /\ outcome \in Int /\ \A b \in Bets : betTrue(World, b)
  BY WorldIs DEF LifeInv, worldTrue, worldTypes
<1>3. /\ chainMarkets'[m].status = "Settled" /\ chainMarkets'[m].winningOutcome = outcome
      /\ \A n \in Markets : chainMarkets'[n] \in LedgerMarket
                            /\ (n # m => chainMarkets'[n] = chainMarkets[n])
  BY <1>1, <1>2 DEF LedgerMarket
<1>4. \A b \in win : isIn(b, m, {"Pending"})
  BY <1>2, WorldIs DEF betTrue, chainTrue, isIn
<1>5. \A b \in Bets : /\ chainBets'[b] \in LedgerBet
                      /\ b \in win => /\ chainBets'[b].status = "Won"
                                      /\ chainBets'[b].market = chainBets[b].market
                      /\ b \notin win => chainBets'[b] = chainBets[b]
  BY <1>1, <1>2, <1>4 DEF LedgerBet
<1>6. chainMarkets' \in [Markets -> LedgerMarket] /\ chainBets' \in [Bets -> LedgerBet]
  BY <1>1, <1>2, <1>3, <1>5
<1>7. ASSUME onward(World, World'), NEW b \in Bets, Offer[b].market = m
      PROVE  betTrue(World', b)
  <2>1. returned(World, b) => returned(World', b)
    BY ONLY <1>7, ReturnedStays
  <2>2. market(World, b) = "Open" /\ market(World', b) = "Settled"
    BY <1>1, <1>3, <1>7, WorldIs, WorldNext DEF market
  <2>3. betTrue(World, b)
    BY <1>2
  <2>4. /\ chainBets[b].status \notin {"Won", "Cashed"} /\ betRows[b] \notin {"CLAIMED", "REFUNDED"}
        /\ chainBets[b].status = "Cancelled" => gave(World, b, "push")
        /\ chainBets[b].status # "None" => chainBets[b].market = Offer[b].market
    BY <2>2, <2>3, WorldIs DEF betTrue, chainTrue, rowTrue
  <2>5. rowTrue(World', b, betRows[b])
    BY <1>1, <1>5, <2>1, <2>3, <2>4, SameVerdicts, WorldIs, WorldNext DEF betTrue, rowTrue
  <2>6. chainTrue(World', b)
    BY <1>5, <2>2, <2>4, SameVerdicts, WorldNext DEF chainTrue
  <2>7. settledTrue(World', b)
    <3>1. \/ b \in win \/ b \in push
          \/ gave(World, b, "lose") \/ ~sure(World, b)
      BY <1>7, <2>4
    <3>2. b \in win => gave(World, b, "win") /\ chainBets'[b].status = "Won"
      BY <1>5
    <3>3. b \in push => gave(World, b, "push") /\ (returned(World', b) \/ ~sure(World, b))
      BY <2>1
    <3>4. /\ \A v : gave(World', b, v) <=> gave(World, b, v)
          /\ sure(World', b) <=> sure(World, b)
      BY SameVerdicts
    <3>5. \A u, v : gave(World, b, u) /\ gave(World, b, v) /\ sure(World, b) => u = v
      BY DEF gave, sure
    <3>6. ~sure(World, b) => World'.judged[b] # {}
      BY WorldIs, WorldNext DEF sure
    <3>7. (\E v : gave(World, b, v)) => World'.judged[b] # {}
      BY WorldIs, WorldNext DEF gave
    <3> QED BY <3>1, <3>2, <3>3, <3>4, <3>5, <3>6, <3>7, WorldNext DEF settledTrue
  <2> QED BY <1>1, <2>5, <2>6, <2>7, WorldNext DEF betTrue
<1>8. ASSUME onward(World, World'), NEW b \in Bets, Offer[b].market # m
      PROVE  betTrue(World', b)
  <2>1. chainBets'[b] = chainBets[b]
    BY <1>2, <1>4, <1>5, <1>8
  <2> QED BY <1>1, <1>3, <1>8, <2>1, BetKept, OffersIn
<1>9. \A b \in Bets :
        /\ chainBets[b].status = "Cancelled" => chainBets'[b].status = "Cancelled"
        /\ chainBets[b].status = "Pending" /\ market(World, b) = "Cancelled" =>
              chainBets'[b].status \in {"Pending", "Cancelled"}
  BY <1>1, <1>5, WorldIs DEF market
<1>10. \A n \in Markets : chainMarkets'[n] # chainMarkets[n] =>
         /\ chainMarkets[n].status = "Open"
         /\ chainMarkets'[n].status = "Settled" =>
               chainMarkets'[n].winningOutcome \in outcomes[n]
  BY <1>1, <1>3
<1> QED BY <1>6, <1>7, <1>8, <1>9, <1>10, LedgerKept

LEMMA VoidMinedKeeps ==
    ASSUME LifeInv, NEW r \in Runners, voidMined(r)
    PROVE  LifeInv' /\ onward(World, World')
<1> DEFINE p == runners[r]
           b == p.bet
<1>1. /\ p.pc = "VoidSent" /\ moveTo(r, "Voided")
      /\ IF voidable(b) THEN void(b) ELSE UNCHANGED ledgerVars
      /\ UNCHANGED <<chainParlays, matchVars, rowVars, tick, missed>>
  BY DEF voidMined, at
<1>2. /\ b \in p.todo /\ b \in p.plan.void /\ p.pc \in Planned /\ passTrue(p, World)
      /\ runners \in [Runners -> Passes]
  BY <1>1 DEF LifeInv, passTrue, planTrue, Planned
<1>3. /\ b \in Bets /\ gave(World, b, "push") /\ chainBets[b].status # "None"
  BY <1>2, ToVoid
<1>4. UNCHANGED <<reports, inCache, judged, outcomes, marketRows, betRows>>
  BY <1>1 DEF matchVars, rowVars
<1>5. ScoresTyped'
  BY <1>1, <1>4, ScoresSame DEF LifeInv
<1>6. worldTrue(World') /\ onward(World, World')
      /\ (returned(World', b) \/ ~sure(World', b))
  <2>1. CASE voidable(b)
    <3>1. worldTrue(World') /\ onward(World, World')
      BY <1>1, <1>3, <1>4, <2>1, VoidOnChain
    <3>2. chainBets \in [Bets -> LedgerBet]
      BY WorldIs DEF LifeInv, worldTrue, worldTypes
    <3>3. chainBets'[b].status = "Cancelled"
      BY <1>1, <1>3, <2>1, <3>2 DEF void, LedgerBet
    <3> QED BY <3>1, <3>3, WorldNext DEF returned
  <2>2. CASE ~voidable(b)
    <3>1. worldTrue(World') /\ onward(World, World')
      BY <1>1, <1>4, <2>2, QuietKeeps
    <3>2. returned(World, b) \/ ~sure(World, b)
      BY <1>3, <2>2, OutOfReach
    <3> QED BY <1>3, <3>1, <3>2, ReturnedStays, VerdictsStay
  <2> QED BY <2>1, <2>2
<1>7. PICK x \in Passes : /\ becomes(r, x) /\ x.pc = "Voided" /\ samePlan(x, p)
                         /\ x.todo = p.todo /\ x.bet = b
  <2>1. "Voided" \in Pcs
    BY DEF Pcs, Decided, Planned
  <2> QED BY <1>1, <1>2, <2>1, MovedTo
<1>8. passTrue(p, World')
  BY <1>2, <1>6, PassStays
<1>9. passTrue(x, World')
  BY <1>2, <1>6, <1>7, <1>8, PlanCarried DEF Planned
<1> QED BY <1>5, <1>6, <1>7, <1>9, RunnerKeeps

LEMMA SettleMinedKeeps ==
    ASSUME LifeInv, NEW r \in Runners, settleMined(r)
    PROVE  LifeInv' /\ onward(World, World')
<1> DEFINE p == runners[r]
           m == p.market
<1>1. /\ p.pc = "SettleSent" /\ moveTo(r, "Reconcile")
      /\ IF settleError(r) = "None" THEN settle(m, p.plan.outcome, p.plan.win)
                                    ELSE UNCHANGED ledgerVars
      /\ UNCHANGED <<chainParlays, matchVars, rowVars, tick, missed>>
  BY DEF settleMined, at, marketOf, planOf
<1>2. /\ passTrue(p, World) /\ planTrue(p, World) /\ m \in Markets
      /\ p.plan.outcome \in outcomes[m] /\ p.todo = {}
      /\ ~(Cardinality(p.plan.win) > MAX_SETTLE_BATCH)
      /\ p.plan.win \in SUBSET Bets /\ p.plan.void \in SUBSET Bets
      /\ runners \in [Runners -> Passes]
  BY <1>1, WorldIs DEF LifeInv, passTrue, planTrue, Planned, Decided, Passes, Plans
<1>3. UNCHANGED <<reports, inCache, judged, outcomes, marketRows, betRows>>
  BY <1>1 DEF matchVars, rowVars
<1>4. ScoresTyped'
  BY <1>1, <1>3, ScoresSame DEF LifeInv
<1>5. /\ worldTrue(World') /\ onward(World, World')
      /\ World'.markets[m].status # "Open" \/ disputed(World', m)
  <2>1. CASE settleError(r) = "None"
    <3> DEFINE win == p.plan.win
               push == p.plan.void
               outcome == p.plan.outcome
    <3>1. /\ UNCHANGED <<judged, outcomes, betRows, missed>>
          /\ m \in Markets /\ win \in SUBSET Bets /\ push \in SUBSET Bets
          /\ outcome \in outcomes[m] /\ settle(m, outcome, win)
      BY <1>1, <1>2, <1>3, <2>1
    <3>2. \A b \in win : /\ Offer[b].market = m /\ gave(World, b, "win")
                         /\ chainBets[b].status = "Pending"
      BY <1>2, <2>1, SettleErrors DEF planTrue, marketOf, planOf
    <3>3. \A b \in push : /\ gave(World, b, "push")
                          /\ returned(World, b) \/ ~sure(World, b)
      BY <1>2 DEF planTrue
    <3>4. \A b \in Bets : Offer[b].market = m =>
             \/ b \in win \cup push
             \/ gave(World, b, "lose") \/ betRows[b] = "CLAIMED" \/ ~sure(World, b)
      BY <1>2, WorldIs DEF planTrue, planComplete
    <3> HIDE DEF m, p, win, push, outcome
    <3>5. worldTrue(World') /\ onward(World, World')
      BY ONLY LifeInv, <3>1, <3>2, <3>3, <3>4, SettleOnChain
    <3>6. chainMarkets'[m].status = "Settled"
      BY <3>1, WorldIs DEF settle, LifeInv, worldTrue, worldTypes
    <3> QED BY <3>5, <3>6, WorldNext
  <2>2. CASE settleError(r) # "None"
    <3>1. worldTrue(World') /\ onward(World, World')
      BY <1>1, <1>3, <2>2, QuietKeeps
    <3>2. \/ chainMarkets[m].status # "Open"
          \/ \E b \in p.plan.win : chainBets[b].status # "Pending"
      BY <1>2, <2>2, SettleErrors DEF marketOf, planOf
    <3>3. ASSUME NEW b \in p.plan.win, chainBets[b].status # "Pending",
                 chainMarkets[m].status = "Open"
          PROVE  disputed(World, m)
      <4>1. betTrue(World, b) /\ chainBets[b] \in LedgerBet /\ b \in Bets
        BY <1>2, WorldIs DEF LifeInv, worldTrue, worldTypes
      <4>2. Offer[b].market = m /\ gave(World, b, "win") /\ betRows[b] # "None"
        BY <1>2, WorldIs DEF planTrue
      <4>3. chainBets[b].status = "Cancelled" /\ market(World, b) = "Open"
        BY <3>3, <4>1, <4>2, WorldIs DEF betTrue, rowTrue, chainTrue, market, LedgerBet
      <4>4. gave(World, b, "push")
        BY <4>1, <4>3, WorldIs DEF betTrue, chainTrue
      <4> QED BY <4>1, <4>2, <4>4 DEF disputed, gave, sure
    <3>4. World.markets[m].status # "Open" \/ disputed(World, m)
      BY <3>2, <3>3, WorldIs
    <3> QED BY <1>2, <3>1, <3>4, DisputedStays DEF onward
  <2> QED BY <2>1, <2>2
<1>6. PICK x \in Passes : /\ becomes(r, x) /\ x.pc = "Reconcile" /\ samePlan(x, p)
                         /\ x.todo = p.todo
  <2>1. "Reconcile" \in Pcs
    BY DEF Pcs, Decided, Planned
  <2> QED BY <1>1, <1>2, <2>1, MovedTo
<1>7. passTrue(p, World')
  BY <1>2, <1>5, PassStays
<1>8. passTrue(x, World')
  BY <1>1, <1>2, <1>5, <1>6, <1>7, PlanCarried DEF Planned
<1> QED BY <1>4, <1>5, <1>6, <1>8, RunnerKeeps

LEMMA CancelMinedKeeps ==
    ASSUME LifeInv, NEW r \in Runners, cancelMined(r)
    PROVE  LifeInv' /\ onward(World, World')
<1> DEFINE p == runners[r]
           m == p.market
<1>1. /\ p.pc = "CancelSent" /\ moveTo(r, "MarkCancelled")
      /\ IF chainMarkets[m].status = "Open"
         THEN cancel(m) /\ UNCHANGED missed
         ELSE missed' = missed \cup {<<"cancel", m>>} /\ UNCHANGED ledgerVars
      /\ UNCHANGED <<chainParlays, matchVars, rowVars, tick>>
  BY DEF cancelMined, at, marketOf
<1>2. passTrue(p, World) /\ m \in Markets /\ runners \in [Runners -> Passes]
  BY <1>1 DEF LifeInv, passTrue
<1>3. UNCHANGED <<reports, inCache, judged, outcomes, marketRows, betRows>>
  BY <1>1 DEF matchVars, rowVars
<1>4. ScoresTyped'
  BY <1>1, <1>3, ScoresSame DEF LifeInv
<1>5. /\ worldTrue(World') /\ onward(World, World')
      /\ World'.markets[m].status = "Cancelled" \/ <<"cancel", m>> \in World'.missed
  <2>1. CASE chainMarkets[m].status = "Open"
    <3>1. worldTrue(World') /\ onward(World, World')
      BY <1>1, <1>2, <1>3, <2>1, CancelOnChain
    <3>2. chainMarkets'[m].status = "Cancelled"
      BY <1>1, <1>2, <2>1, WorldIs DEF cancel, LifeInv, worldTrue, worldTypes, LedgerMarket
    <3> QED BY <3>1, <3>2, WorldNext
  <2>2. CASE chainMarkets[m].status # "Open"
    BY <1>1, <1>3, <2>2, MissedKept, WorldNext
  <2> QED BY <2>1, <2>2
<1>6. PICK x \in Passes : becomes(r, x) /\ x.pc = "MarkCancelled" /\ samePlan(x, p)
  <2>1. "MarkCancelled" \in Pcs
    BY DEF Pcs
  <2> QED BY <1>1, <1>2, <2>1, MovedTo
<1>7. passTrue(p, World')
  BY <1>2, <1>5, PassStays
<1>8. passTrue(x, World')
  BY <1>1, <1>5, <1>6, <1>7 DEF passTrue, loopTrue, samePlan, sameLoop, Decided, Planned
<1> QED BY <1>4, <1>5, <1>6, <1>8, RunnerKeeps

-----------------------------------------------------------------------------
(* The feed, the admin's switch and the bettors *)

LEMMA FeedKeeps ==
    ASSUME LifeInv, NEW m \in Markets,
           feedDrops(m) \/ handleFinished(m) \/ handleLive(m) \/ reconcileLiveScores(m)
    PROVE  LifeInv' /\ onward(World, World')
<1>0. UNCHANGED <<ledgerVars, reports, judged, outcomes, betRows, runners, missed>>
  BY DEF feedDrops, handleFinished, handleLive, reconcileLiveScores, matchVars, rowVars
<1>1. worldTrue(World') /\ onward(World, World')
  BY <1>0, QuietKeeps
<1>2. /\ marketRows \in [Markets -> MarketRow] /\ inCache \in [Markets -> BOOLEAN]
      /\ ScoresTyped /\ m \in 0..NumMarkets
      /\ \A s \in reports[m] : s \in AnyScore
  BY ReportsScored, ScoreKnown, SettlementAssumption
     DEF LifeInv, ScoresTyped, Markets, SettlementAssumption
<1>3. CASE feedDrops(m)
  <2>1. inCache' \in [Markets -> BOOLEAN] /\ UNCHANGED <<marketRows, tick>>
    BY <1>2, <1>3 DEF feedDrops, rowVars
  <2>2. ScoresTyped'
    BY <1>0, <1>2, <2>1 DEF ScoresTyped
  <2> QED BY <1>0, <1>1, <2>2, WorldKeeps
<1>4. CASE handleFinished(m)
  <2>1. PICK s \in reports[m] : marketRows' = [marketRows EXCEPT ![m].score = s]
    BY <1>4 DEF handleFinished
  <2>2. UNCHANGED <<inCache, tick>> /\ s \in AnyScore
    BY <1>2, <1>4 DEF handleFinished, matchVars
  <2>3. \A n \in Markets : marketRows'[n] \in MarketRow
    BY <1>2, <2>1, <2>2 DEF MarketRow
  <2>4. marketRows' \in [Markets -> MarketRow]
    BY <1>2, <2>1, <2>3
  <2>5. ScoresTyped'
    BY <1>0, <1>2, <2>2, <2>4 DEF ScoresTyped
  <2> QED BY <1>0, <1>1, <2>5, WorldKeeps
<1>5. CASE handleLive(m)
  <2>1. PICK s \in reports[m], pc \in {"LIVE", "SETTLED"} :
          tick' = [pc |-> pc, market |-> m, score |-> s]
    BY <1>5 DEF handleLive
  <2>2. UNCHANGED <<inCache, marketRows>>
    BY <1>5 DEF handleLive, matchVars, rowVars
  <2>3. /\ tick' \in [pc : {"Idle", "LIVE", "SETTLED", "Legs"}, market : 0..NumMarkets,
                      score : AnyScore]
        /\ tick'.market \in Markets
    BY <1>2, <2>1
  <2>4. ScoresTyped'
    BY <1>0, <1>2, <2>2, <2>3 DEF ScoresTyped
  <2> QED BY <1>0, <1>1, <2>4, WorldKeeps
<1>6. CASE reconcileLiveScores(m)
  <2>1. PICK s \in reports[m] :
          /\ marketRows' = [marketRows EXCEPT ![m].status = "LIVE", ![m].score = s]
          /\ tick' = [pc |-> "Legs", market |-> m, score |-> s]
    BY <1>6 DEF reconcileLiveScores, rowScore
  <2>2. UNCHANGED inCache /\ s \in AnyScore
    BY <1>2, <1>6 DEF reconcileLiveScores, matchVars
  <2>3. \A n \in Markets : marketRows'[n] \in MarketRow
    BY <1>2, <2>1, <2>2 DEF MarketRow
  <2>4. marketRows' \in [Markets -> MarketRow]
    BY <1>2, <2>1, <2>3
  <2>5. /\ tick' \in [pc : {"Idle", "LIVE", "SETTLED", "Legs"}, market : 0..NumMarkets,
                      score : AnyScore]
        /\ tick'.market \in Markets
    BY <1>2, <2>1, <2>2
  <2>6. ScoresTyped'
    BY <1>0, <1>2, <2>2, <2>4, <2>5 DEF ScoresTyped
  <2> QED BY <1>0, <1>1, <2>6, WorldKeeps
<1> QED BY <1>3, <1>4, <1>5, <1>6

LEMMA TickKeeps ==
    ASSUME LifeInv, upsertFromOracle \/ reopenLegs
    PROVE  LifeInv' /\ onward(World, World')
<1>0. UNCHANGED <<ledgerVars, reports, inCache, judged, outcomes, betRows, runners, missed>>
      /\ tick' = NoTick
  BY DEF upsertFromOracle, reopenLegs, matchVars
<1>1. worldTrue(World') /\ onward(World, World')
  BY <1>0, QuietKeeps
<1>2. marketRows' \in [Markets -> MarketRow]
  <2>1. marketRows \in [Markets -> MarketRow]
    BY DEF LifeInv, ScoresTyped
  <2>2. CASE upsertFromOracle
    <3> DEFINE m == tick.market
    <3>1. m \in Markets /\ tick.score \in AnyScore /\ tick.pc \in {"LIVE", "SETTLED"}
      BY <2>2 DEF LifeInv, ScoresTyped, upsertFromOracle
    <3>2. marketRows' = [marketRows EXCEPT ![m].status = tick.pc, ![m].score = tick.score]
      BY <2>2 DEF upsertFromOracle, rowScore
    <3>3. \A n \in Markets : marketRows'[n] \in MarketRow
      BY <2>1, <3>1, <3>2 DEF MarketRow
    <3> QED BY <2>1, <3>2, <3>3
  <2>3. CASE reopenLegs
    BY <2>1, <2>3 DEF reopenLegs
  <2> QED BY <2>2, <2>3
<1>3. tick' \in [pc : {"Idle", "LIVE", "SETTLED", "Legs"}, market : 0..NumMarkets,
                 score : AnyScore] /\ tick'.pc = "Idle"
  BY <1>0, SettlementAssumption DEF NoTick, AnyScore, SettlementAssumption
<1>4. ScoresTyped'
  BY <1>0, <1>2, <1>3 DEF LifeInv, ScoresTyped
<1> QED BY <1>0, <1>1, <1>4, WorldKeeps

LEMMA ToggleKeeps ==
    ASSUME LifeInv, NEW m \in Markets, suspendToggle(m)
    PROVE  LifeInv' /\ onward(World, World')
<1>1. PICK status \in {"OPEN", "SUSPENDED"} :
        marketRows' = [marketRows EXCEPT ![m].status = status]
  BY DEF suspendToggle
<1>2. worldTrue(World') /\ onward(World, World') /\ ScoresTyped'
  BY <1>1, StatusWritten DEF suspendToggle
<1> QED BY <1>2, WorldKeeps DEF suspendToggle

LEMMA BettorKeeps ==
    ASSUME LifeInv, NEW b \in Bets, bettorStep(b)
    PROVE  LifeInv' /\ onward(World, World')
<1>1. CASE claimWinnings(b) \/ claimRefund(b)
  <2>1. UNCHANGED <<matchVars, rowVars, runners, tick, missed>>
    BY <1>1 DEF claimWinnings, claimRefund, onChain
  <2>2. UNCHANGED <<reports, inCache, judged, outcomes, marketRows, betRows>>
    BY <2>1 DEF matchVars, rowVars
  <2>3. cash(b) \/ refund(b)
    BY <1>1 DEF claimWinnings, claimRefund, onChain
  <2>4. worldTrue(World') /\ onward(World, World')
    BY <2>1, <2>2, <2>3, CashOnChain, RefundOnChain
  <2>5. ScoresTyped'
    BY <2>1, <2>2, ScoresSame DEF LifeInv
  <2> QED BY <2>1, <2>4, <2>5, WorldKeeps
<1>2. CASE recordBet(b) \/ recordClaim(b) \/ recordRefund(b)
  <2>1. PICK from \in BetRow, row \in BetRow \ {"None"} :
          /\ betRows[b] = from /\ betRows' = [betRows EXCEPT ![b] = row]
          /\ \/ from = "None" /\ row = "PENDING" /\ chainBets[b].status # "None"
             \/ from = "WON" /\ row = "CLAIMED" /\ chainBets[b].status = "Cashed"
             \/ /\ from = "CANCELLED" /\ row = "REFUNDED"
                /\ chainBets[b].status = "Cancelled"
                /\ chainMarkets[Offer[b].market].status = "Cancelled"
    BY <1>2 DEF recordBet, recordClaim, recordRefund, rowBecomes, isIn, BetRow
  <2>2. UNCHANGED <<ledgerVars, matchVars, marketRows, runners, tick, missed>>
    BY <1>2 DEF recordBet, recordClaim, recordRefund, rowBecomes
  <2>3. UNCHANGED <<reports, inCache, judged, outcomes>>
    BY <2>2 DEF matchVars
  <2>4. betRows \in [Bets -> BetRow]
    BY WorldIs DEF LifeInv, worldTrue, worldTypes
  <2>5. betRows' \in [Bets -> BetRow] /\ \A c \in Bets : betRows'[c] # betRows[c] =>
                                            c = b /\ betRows'[c] = row
    BY <2>1, <2>4
  <2>6. rowTrue(World, b, row) /\ stands(from, row)
    BY <2>1, WorldIs DEF rowTrue, stands, market
  <2>7. worldTrue(World') /\ onward(World, World')
    BY <2>1, <2>2, <2>3, <2>5, <2>6, RowsKept
  <2>8. ScoresTyped'
    BY <2>2, <2>3, ScoresSame DEF LifeInv
  <2> QED BY <2>2, <2>7, <2>8, WorldKeeps
<1> QED BY <1>1, <1>2 DEF bettorStep

LEMMA ParlayKeeps ==
    ASSUME LifeInv,
           \/ \E p \in Parlays : resolveParlay(p) \/ recordParlayClaim(p)
           \/ UNCHANGED settlementVars
    PROVE  LifeInv' /\ onward(World, World')
<1>1. UNCHANGED <<ledgerVars, matchVars, marketRows, betRows, runners, tick, missed>>
  BY DEF resolveParlay, recordParlayClaim, settlementVars, rowVars
<1>2. UNCHANGED <<reports, inCache, judged, outcomes>>
  BY <1>1 DEF matchVars
<1>3. worldTrue(World') /\ onward(World, World') /\ ScoresTyped'
  BY <1>1, <1>2, QuietKeeps, ScoresSame DEF LifeInv
<1> QED BY <1>1, <1>3, WorldKeeps

-----------------------------------------------------------------------------
(* Every step *)

LEMMA RunStepKeeps ==
    ASSUME LifeInv, NEW r \in Runners, runStep(r)
    PROVE  LifeInv' /\ onward(World, World')
<1>1. ASSUME NEW x, becomes(r, x), passTrue(x, World),
             UNCHANGED <<ledgerVars, matchVars, rowVars, tick, missed>>
      PROVE  LifeInv' /\ onward(World, World')
  <2>1. UNCHANGED <<reports, inCache, judged, outcomes, marketRows, betRows>>
    BY <1>1 DEF matchVars, rowVars
  <2>2. worldTrue(World') /\ onward(World, World') /\ ScoresTyped'
    BY <1>1, <2>1, QuietKeeps, ScoresSame DEF LifeInv
  <2> QED BY <1>1, <2>2, PassStays, RunnerKeeps
<1>2. CASE nextMarket(r)
  BY <1>1, <1>2, MarketTaken DEF nextMarket
<1>3. CASE \/ assessMarketSettlementRisk(r)
           \/ \E b \in Bets : voidSkipped(r, b) \/ voidSent(r, b)
           \/ settleSent(r) \/ settleRefused(r) \/ cancelSent(r) \/ cancelRefused(r)
  BY <1>1, <1>3, QuietSteps
<1> QED BY <1>2, <1>3, RecordKeeps, ScorePlanKeeps, DirectPlanKeeps, RowStatusKeeps,
        VoidRefusedKeeps, MarkVoidedKeeps, ReconcileKeeps, CancelBetsKeeps, ParlayStepKeeps,
        VoidMinedKeeps, SettleMinedKeeps, CancelMinedKeeps DEF runStep

LEMMA StartKeeps ==
    ASSUME LifeInv, NEW r \in Runners, startRunner(r)
    PROVE  LifeInv' /\ onward(World, World')
<1>1. UNCHANGED <<ledgerVars, matchVars, rowVars, tick, missed>>
  BY RunnerStarts
<1>2. UNCHANGED <<reports, inCache, judged, outcomes, marketRows, betRows>>
  BY <1>1 DEF matchVars, rowVars
<1>3. worldTrue(World') /\ onward(World, World') /\ ScoresTyped'
  BY <1>1, <1>2, QuietKeeps, ScoresSame DEF LifeInv
<1> QED BY <1>3, RunnerStarts, PassStays, RunnerKeeps

LEMMA LifeStep ==
    ASSUME LifeInv, [LifeNext]_settlementVars
    PROVE  LifeInv' /\ onward(World, World')
<1>1. ASSUME NEW r \in Runners, startRunner(r) \/ runStep(r) \/ failure(r)
      PROVE  LifeInv' /\ onward(World, World')
  BY <1>1, StartKeeps, RunStepKeeps, FailureKeeps
<1>2. ASSUME NEW m \in Markets, feedDrops(m) \/ feedStep(m) \/ suspendToggle(m)
      PROVE  LifeInv' /\ onward(World, World')
  BY <1>2, FeedKeeps, ToggleKeeps DEF feedStep
<1> QED BY <1>1, <1>2, TickKeeps, BettorKeeps, ParlayKeeps DEF LifeNext

(* The rows hold no score yet, or one of those reported. *)
LEMMA FirstScores ==
    ASSUME NEW P \in Populations, NEW first \in [Markets -> Scores \cup {NoScore}],
           \A m \in Markets : first[m] \in P.reports[m] \cup {NoScore}
    PROVE  P.reports \in [Markets -> SUBSET FinalScore] /\ first \in [Markets -> AnyScore]
<1>1. P.reports \in [Markets -> SUBSET FinalScore]
  BY SettlementAssumption DEF SettlementAssumption, FinalScore
<1> QED BY <1>1 DEF AnyScore

LEMMA LifeStarts ==
    ASSUME SettlementInit
    PROVE  LifeInv
<1>1. PICK P \in Populations : populated(P)
  BY DEF SettlementInit
<1>2. PICK first \in [Markets -> Scores \cup {NoScore}] :
        /\ \A m \in Markets : first[m] \in P.reports[m] \cup {NoScore}
        /\ \A m \in P.settled : first[m] # NoScore
        /\ populatedBy(P, first)
  BY <1>1 DEF populated
<1>3. /\ P.recorded \subseteq Bets /\ P.late \subseteq Bets
      /\ \A b \in P.recorded : Offer[b].market \notin P.settled
      /\ P.settled \subseteq Markets /\ NumMarkets \in Nat
  BY SettlementAssumption DEF SettlementAssumption
<1>4. P.reports \in [Markets -> SUBSET FinalScore] /\ first \in [Markets -> AnyScore]
  BY <1>2, FirstScores
<1>5. /\ chainMarkets = [m \in Markets |->
            IF m \in P.settled
            THEN [status |-> "Settled", winningOutcome |-> resolve1X2(first[m])]
            ELSE [status |-> "Open", winningOutcome |-> 0]]
      /\ outcomes = [m \in Markets |-> IF m \in P.settled THEN {resolve1X2(first[m])} ELSE {}]
      /\ judged = [b \in Bets |-> IF Offer[b].market \in P.settled THEN {"lose"} ELSE {}]
  BY <1>2 DEF populatedBy
<1>6. /\ chainMarkets \in [Markets -> LedgerMarket]
      /\ outcomes \in [Markets -> SUBSET Int]
      /\ judged \in [Bets -> SUBSET {"win", "push", "lose"}]
      /\ \A m \in Markets : chainMarkets[m].status = "Settled" =>
            m \in P.settled /\ chainMarkets[m].winningOutcome \in outcomes[m]
      /\ \A m \in Markets : chainMarkets[m].status # "Cancelled"
  BY <1>5 DEF LedgerMarket, resolve1X2
<1>7. chainBets = [b \in Bets |-> IF b \in P.recorded \cup P.late
                                  THEN [status |-> "Pending", market |-> Offer[b].market]
                                  ELSE [status |-> "None", market |-> 0]]
      /\ betRows = [b \in Bets |-> IF b \in P.recorded THEN "PENDING" ELSE "None"]
  BY <1>2 DEF populatedBy
<1>8. /\ chainBets \in [Bets -> LedgerBet] /\ betRows \in [Bets -> BetRow]
      /\ \A b \in Bets :
            /\ chainBets[b].status \in {"None", "Pending"}
            /\ chainBets[b].status # "None" => chainBets[b].market = Offer[b].market
            /\ betRows[b] # "None" => /\ betRows[b] = "PENDING" /\ chainBets[b].status = "Pending"
                                      /\ Offer[b].market \notin P.settled
  BY <1>3, <1>7, OffersIn DEF LedgerBet, BetRow, Markets
<1>9. ASSUME NEW b \in Bets
      PROVE  betTrue(World, b)
  <2>1. rowTrue(World, b, betRows[b])
    BY <1>8, WorldIs DEF rowTrue
  <2>2. chainTrue(World, b)
    BY <1>8, WorldIs DEF chainTrue
  <2>3. market(World, b) = "Settled" => judged[b] = {"lose"}
    BY <1>5, <1>6, OffersIn, WorldIs DEF market
  <2>4. settledTrue(World, b)
    BY <2>3, WorldIs DEF settledTrue, gave
  <2> QED BY <2>1, <2>2, <2>4, WorldIs DEF betTrue
<1>10. worldTrue(World)
  BY <1>6, <1>8, <1>9, WorldIs DEF worldTrue, worldTypes
<1>11. ScoresTyped
  <2>1. /\ reports = P.reports
        /\ marketRows = [m \in Markets |->
             [status |-> IF m \in P.settled THEN "SETTLED"
                         ELSE IF first[m] # NoScore THEN "LIVE" ELSE "OPEN",
              score |-> first[m]]]
    BY <1>2 DEF populatedBy
  <2>2. reports \in [Markets -> SUBSET FinalScore] /\ marketRows \in [Markets -> MarketRow]
    BY <1>4, <2>1 DEF MarketRow
  <2>3. inCache = [m \in Markets |-> m \notin P.settled /\ played(m)] /\ tick = NoTick
    BY <1>2 DEF SettlementInit, populatedBy
  <2>4. inCache \in [Markets -> BOOLEAN]
    BY <2>3
  <2>5. /\ tick \in [pc : {"Idle", "LIVE", "SETTLED", "Legs"}, market : 0..NumMarkets,
                     score : AnyScore]
        /\ tick.pc = "Idle"
    BY <1>3, <2>3 DEF NoTick, AnyScore
  <2> QED BY <2>2, <2>4, <2>5 DEF ScoresTyped
<1>12. runners = [r \in Runners |-> IF r \in P.up THEN NoPass ELSE Down]
  BY <1>2 DEF populatedBy
<1> QED BY <1>10, <1>11, <1>12, NoPassTrue DEF LifeInv

(* What the passes, the rows and the ledger know of each other stays true,  *)
(* whatever scores the passes take the result from: a row and a ledger     *)
(* entry follow a verdict some plan gave the bet.                          *)
THEOREM LifeInvariant == LifeSpec => []LifeInv
<1>1. LifeInv /\ [LifeNext]_settlementVars => LifeInv'
  BY LifeStep
<1> QED BY <1>1, LifeStarts, PTL DEF LifeSpec

-----------------------------------------------------------------------------
LEMMA Alike == \A b : alike(b) <=> sure(World, b)
BY WorldIs DEF alike, sure

(* A row that says WON is of a bet the contract pays or has paid, and one  *)
(* that says LOST of a bet it has left pending, on every market settled on  *)
(* chain, whatever passes ran over it, in any order, and wherever they     *)
(* stopped, provided that their plans agree on this bet.  Where they do    *)
(* not it is not so: see PaidRowsSayWon and WonRowPaid.                    *)
THEOREM RowsFollowLedger == LifeSpec => []RowsAgreeWithLedger
<1>1. LifeInv => RowsAgreeWithLedger
  <2> SUFFICES ASSUME LifeInv, NEW b \in Bets, alike(b), isSettled(b)
               PROVE  /\ betRows[b] = "WON" => chainBets[b].status \in {"Won", "Cashed"}
                      /\ betRows[b] = "LOST" => chainBets[b].status = "Pending"
    BY DEF RowsAgreeWithLedger
  <2>1. betTrue(World, b) /\ chainBets[b] \in LedgerBet /\ market(World, b) = "Settled"
    BY WorldIs DEF LifeInv, worldTrue, worldTypes, market, isSettled
  <2>2. sure(World, b)
    BY Alike
  <2>3. betRows[b] = "WON" => chainBets[b].status \in {"Won", "Cashed"}
    BY <2>1, <2>2, WorldIs DEF betTrue, rowTrue, settledTrue
  <2>4. betRows[b] = "LOST" => chainBets[b].status = "Pending"
    BY <2>1, <2>2, WorldIs DEF betTrue, rowTrue, chainTrue, gave, sure, LedgerBet
  <2> QED BY <2>3, <2>4
<1> QED BY <1>1, LifeInvariant, PTL

(* A row that says REFUNDED is of a stake that was given back; of a bet the *)
(* plans agree on, one that says CANCELLED is of a stake given back or to  *)
(* be taken back, but for the calls that failed and were logged.           *)
THEOREM RefundsFollowLedger == LifeSpec => []RefundedRowTrue
<1>1. LifeInv => RefundedRowTrue
  <2> SUFFICES ASSUME LifeInv, NEW b \in Bets
               PROVE  /\ betRows[b] = "REFUNDED" => chainBets[b].status = "Cancelled"
                      /\ alike(b) /\ betRows[b] = "CANCELLED" =>
                            \/ chainBets[b].status = "Cancelled"
                            \/ /\ isIn(b, Offer[b].market, {"Pending"})
                               /\ chainMarkets[Offer[b].market].status = "Cancelled"
                            \/ missed \cap {<<"void", b>>, <<"cancel", Offer[b].market>>} # {}
    BY DEF RefundedRowTrue
  <2>1. betTrue(World, b)
    BY DEF LifeInv, worldTrue
  <2>2. alike(b) /\ betRows[b] = "CANCELLED" => returned(World, b)
    BY <2>1, Alike, WorldIs DEF betTrue, rowTrue
  <2>3. chainBets[b].status = "Pending" => chainBets[b].market = Offer[b].market
    BY <2>1, WorldIs DEF betTrue, chainTrue
  <2>4. betRows[b] = "REFUNDED" => chainBets[b].status = "Cancelled"
    BY <2>1, WorldIs DEF betTrue, rowTrue
  <2> QED BY <2>2, <2>3, <2>4, WorldIs DEF returned, market, isIn
<1> QED BY <1>1, LifeInvariant, PTL

(* A verdict once shown is not taken back by a further pass, while the     *)
(* plans agree on the bet: a pass in hand with another plan has made them  *)
(* disagree before it writes a row.                                        *)
THEOREM VerdictsStand == LifeSpec => ResultsStand
<1>1. LifeInv /\ [LifeNext]_settlementVars =>
         [\A b \in Bets :
             alike(b) =>
                /\ betRows[b] = "WON" => betRows'[b] \in {"WON", "CLAIMED"}
                /\ betRows[b] \in {"LOST", "CLAIMED"} => betRows'[b] = betRows[b]]_settlementVars
  <2> SUFFICES ASSUME LifeInv, [LifeNext]_settlementVars, NEW b \in Bets, alike(b)
               PROVE  /\ betRows[b] = "WON" => betRows'[b] \in {"WON", "CLAIMED"}
                      /\ betRows[b] \in {"LOST", "CLAIMED"} => betRows'[b] = betRows[b]
    OBVIOUS
  <2>1. stands(betRows[b], betRows'[b])
    BY LifeStep, Alike, WorldIs, WorldNext DEF onward
  <2> QED BY <2>1 DEF stands
<1> QED BY <1>1, LifeInvariant, PTL DEF LifeSpec, ResultsStand

-----------------------------------------------------------------------------
(* settlement.ts: one score, every type of market *)

LEMMA Even == \A n \in Int : (2 * n) % 2 = 0
OBVIOUS
LEMMA HandicapIs ==
    ASSUME NEW s \in Nat \X Nat, NEW n \in Int, NEW side \in {0, 1}
    PROVE  verdict(handicap(side, 2 * n), s) =
             IF 2 * Margin(s) + n = 0 THEN "push"
             ELSE IF (2 * Margin(s) + n > 0) <=> (side = 0) THEN "win" ELSE "lose"
<1>1. Margin(s) \in Int
  BY DEF Margin
<1> QED BY <1>1, Even DEF verdict, handicap, selection, resolveAsianHandicapBet

LEMMA ResultIs ==
    ASSUME NEW s \in Nat \X Nat
    PROVE  /\ Margin(s) \in Int /\ Goals(s) \in Nat
           /\ Margin(s) > 0 => Goals(s) > 0
           /\ resolve1X2(s) = IF Margin(s) > 0 THEN 0 ELSE IF Margin(s) < 0 THEN 2 ELSE 1
           /\ \A o \in 0..2 : wins(result(o), s) <=> resolve1X2(s) = o
           /\ \A d \in DOMAIN Combination :
                 wins(double(d), s) <=> resolve1X2(s) \in Combination[d]
<1>1. Margin(s) \in Int /\ Goals(s) \in Nat /\ (Margin(s) > 0 => Goals(s) > 0)
  BY DEF Margin, Goals
<1>2. resolve1X2(s) \in 0..2
  BY DEF resolve1X2
<1>3. \A o \in 0..2 : wins(result(o), s) <=> resolve1X2(s) = o
  BY <1>2 DEF wins, result, selection, verdict, resolveScoreBasedOutcome
<1>4. \A d \in DOMAIN Combination : wins(double(d), s) <=> resolve1X2(s) \in Combination[d]
  BY DEF wins, double, selection, verdict, resolveDoubleChanceBet
<1> QED BY <1>1, <1>3, <1>4 DEF resolve1X2

LEMMA OverUnderIs ==
    ASSUME NEW s \in Nat \X Nat, NEW l \in Int, NEW side \in {0, 1}
    PROVE  wins(overUnder(side, l), s) <=> ((4 * Goals(s) > l) <=> (side = 0))
<1>1. Goals(s) \in Nat
  BY DEF Goals
<1> QED BY <1>1 DEF wins, overUnder, selection, verdict, resolveScoreBasedOutcome,
      resolveOverUnder

LEMMA OneStory ==
    ASSUME NEW s \in Nat \X Nat
    PROVE  oneStory(s)
<1> DEFINE M == Margin(s)
<1>0. /\ M \in Int
      /\ M > 0 => resolve1X2(s) = 0
      /\ M < 0 => resolve1X2(s) = 2
      /\ M = 0 => resolve1X2(s) = 1
  BY ResultIs
<1>c. /\ Combination.combo1X = {0, 1} /\ Combination.combo12 = {0, 2}
      /\ Combination.comboX2 = {1, 2}
      /\ DOMAIN Combination = {"combo1X", "combo12", "comboX2"}
  BY DEF Combination
<1>h. \A n \in Int :
         /\ wins(handicap(0, 2 * n), s) <=> 2 * M + n > 0
         /\ (verdict(handicap(1, 2 * n), s) = "lose") <=> 2 * M + n > 0
         /\ wins(handicap(1, 2 * n), s) <=> 2 * M + n < 0
         /\ (verdict(handicap(0, 2 * n), s) = "push") <=> 2 * M + n = 0
  <2> SUFFICES ASSUME NEW n \in Int
               PROVE  /\ wins(handicap(0, 2 * n), s) <=> 2 * M + n > 0
                      /\ (verdict(handicap(1, 2 * n), s) = "lose") <=> 2 * M + n > 0
                      /\ wins(handicap(1, 2 * n), s) <=> 2 * M + n < 0
                      /\ (verdict(handicap(0, 2 * n), s) = "push") <=> 2 * M + n = 0
    OBVIOUS
  <2>1. \A side \in {0, 1} : verdict(handicap(side, 2 * n), s) =
             IF 2 * M + n = 0 THEN "push"
             ELSE IF (2 * M + n > 0) <=> (side = 0) THEN "win" ELSE "lose"
    BY HandicapIs
  <2> HIDE DEF M
  <2>2. 2 * M + n \in Int
    BY <1>0
  <2> QED BY <2>1, <2>2 DEF wins
<1>w. \A sel : wins(sel, s) \in BOOLEAN
  BY DEF wins
<1>1. handicapsAgree(s)
  <2> HIDE DEF M
  <2>1. /\ wins(handicap(0, 2 * (-1)), s) <=> 2 * M + (-1) > 0
        /\ wins(handicap(1, 2 * 1), s) <=> 2 * M + 1 < 0
        /\ wins(handicap(0, 2 * 1), s) <=> 2 * M + 1 > 0
        /\ wins(handicap(1, 2 * (-1)), s) <=> 2 * M + (-1) < 0
        /\ (verdict(handicap(0, 2 * 0), s) = "push") <=> 2 * M + 0 = 0
    BY <1>h
  <2>2. 2 * (-1) = -2 /\ 2 * 1 = 2 /\ 2 * 0 = 0
    OBVIOUS
  <2>3. /\ wins(handicap(0, -2), s) <=> M > 0
        /\ wins(handicap(1, 2), s) <=> M < 0
        /\ wins(handicap(0, 2), s) <=> M >= 0
        /\ wins(handicap(1, -2), s) <=> M <= 0
        /\ (verdict(handicap(0, 0), s) = "push") <=> M = 0
    BY <1>0, <2>1, <2>2
  <2>4. /\ wins(result(0), s) <=> M > 0
        /\ wins(result(2), s) <=> M < 0
        /\ wins(result(1), s) <=> M = 0
        /\ wins(double("combo1X"), s) <=> M >= 0
        /\ wins(double("comboX2"), s) <=> M <= 0
    BY <1>0, <1>c, ResultIs
  <2> QED BY <2>3, <2>4, <1>w DEF handicapsAgree
<1>2. linesSplit(s)
  <2> SUFFICES ASSUME NEW l \in HandicapLines
               PROVE  /\ wins(handicap(0, l), s) = (verdict(handicap(1, l), s) = "lose")
                      /\ wins(handicap(0, l), s) => wins(handicap(0, l + 2), s)
                      /\ wins(overUnder(0, l), s) # wins(overUnder(1, l), s)
    BY DEF linesSplit
  <2>1. PICK n \in -6..6 : l = 2 * n
    BY DEF HandicapLines
  <2>2. n \in Int /\ n + 1 \in Int /\ l \in Int /\ l + 2 = 2 * (n + 1)
    BY <2>1
  <2> HIDE DEF M
  <2>3. /\ wins(handicap(0, l), s) <=> 2 * M + n > 0
        /\ (verdict(handicap(1, l), s) = "lose") <=> 2 * M + n > 0
        /\ wins(handicap(0, l + 2), s) <=> 2 * M + (n + 1) > 0
    BY <1>h, <2>1, <2>2
  <2>4. /\ wins(overUnder(0, l), s) <=> 4 * Goals(s) > l
        /\ wins(overUnder(1, l), s) <=> ~(4 * Goals(s) > l)
    BY <2>2, OverUnderIs
  <2>5. 2 * M + n > 0 => 2 * M + (n + 1) > 0
    BY <1>0, <2>2
  <2> QED BY <2>3, <2>4, <2>5, <1>w
<1>3. combinationsCover(s)
  <2>1. wins(selection("btts", 0, 0, ""), s) => wins(overUnder(0, 6), s)
    <3>1. wins(selection("btts", 0, 0, ""), s) => s[1] > 0 /\ s[2] > 0
      BY DEF wins, selection, verdict, resolveScoreBasedOutcome, resolveBtts
    <3>2. s[1] > 0 /\ s[2] > 0 => 4 * Goals(s) > 6
      BY DEF Goals
    <3>3. wins(overUnder(0, 6), s) <=> 4 * Goals(s) > 6
      BY OverUnderIs
    <3> QED BY <3>1, <3>2, <3>3
  <2>2. ASSUME NEW d \in DOMAIN Combination
        PROVE  wins(double(d), s) = (\E o \in Combination[d] : wins(result(o), s))
    <3>1. Combination[d] \subseteq 0..2
      BY <1>c
    <3>2. wins(double(d), s) <=> (\E o \in Combination[d] : wins(result(o), s))
      BY <3>1, ResultIs
    <3> QED BY <1>w, <3>2
  <2> QED BY <2>1, <2>2 DEF combinationsCover
<1> QED BY <1>1, <1>2, <1>3 DEF oneStory

(* The score a match's rows are given resolves its 1X2, handicap, totals,  *)
(* both-to-score and double-chance markets without contradiction.          *)
THEOREM MarketsTellOneStory == LifeSpec => MarketsConsistent
<1>1. LifeInv /\ [LifeNext]_settlementVars =>
         [\A m \in Markets :
             marketRows'[m].score \notin {NoScore, marketRows[m].score}
             => oneStory(marketRows'[m].score)]_settlementVars
  <2> SUFFICES ASSUME LifeInv, [LifeNext]_settlementVars, NEW m \in Markets,
                      marketRows'[m].score \notin {NoScore, marketRows[m].score}
               PROVE  oneStory(marketRows'[m].score)
    OBVIOUS
  <2>1. marketRows' \in [Markets -> MarketRow]
    BY LifeStep DEF LifeInv, ScoresTyped
  <2>2. marketRows'[m].score \in Nat \X Nat
    BY <2>1 DEF MarketRow, AnyScore, FinalScore
  <2> QED BY <2>2, OneStory
<1> QED BY <1>1, LifeInvariant, PTL DEF LifeSpec, MarketsConsistent

-----------------------------------------------------------------------------
(* Parlays *)

(* Every leg is a bet on the result of a match. *)
ResultLegs ==
    \A p \in Parlays : \A i \in DOMAIN ParlayLegs[p] :
        ParlayLegs[p][i].selection.type = "1X2" /\ ParlayLegs[p][i].selection.outcome \in 0..2

LegRow == {"PENDING", "WON", "LOST"}
ParlayRow(p) == [status : {"None", "PENDING", "WON", "LOST", "CLAIMED", "REFUNDED"},
                 legs : [DOMAIN ParlayLegs[p] -> LegRow] \cup [{} -> LegRow]]

(* A plan for the leg's market was to store the leg's outcome on chain, or  *)
(* another one.                                                            *)
legWins(w, p, i) ==
    ParlayLegs[p][i].selection.outcome \in w.outcomes[ParlayLegs[p][i].market]
legLoses(w, p, i) ==
    \E o \in w.outcomes[ParlayLegs[p][i].market] : o # ParlayLegs[p][i].selection.outcome

legDecided(w, p, i) ==
    LET m == ParlayLegs[p][i].market IN w.markets[m].status # "Open" \/ disputed(w, m)

(* A leg is resolved only when its market is, and as a plan for it said. *)
parlayTrue(row, p, w) ==
    /\ row \in ParlayRow(p)
    /\ \A i \in DOMAIN row.legs :
          /\ row.legs[i] = "WON" => legWins(w, p, i) /\ legDecided(w, p, i)
          /\ row.legs[i] = "LOST" => legLoses(w, p, i)
    /\ row.status \in {"WON", "CLAIMED"} =>
          \A i \in DOMAIN ParlayLegs[p] : legWins(w, p, i) /\ legDecided(w, p, i)
    /\ row.status = "LOST" => \E i \in DOMAIN ParlayLegs[p] : legLoses(w, p, i)

ParlayInv ==
    /\ parlayRows = [p \in Parlays |-> parlayRows[p]]
    /\ \A p \in Parlays : parlayTrue(parlayRows[p], p, World)


LEMMA LegsIn == \A p \in Parlays : \A i \in DOMAIN ParlayLegs[p] : ParlayLegs[p][i].market \in Markets
BY SettlementAssumption DEF SettlementAssumption

LEMMA LegVerdict ==
    ASSUME ResultLegs, NEW p \in Parlays, NEW i \in DOMAIN ParlayLegs[p], NEW s
    PROVE  legResult(ParlayLegs[p][i].selection, s) =
             IF resolve1X2(s) = ParlayLegs[p][i].selection.outcome THEN "WON" ELSE "LOST"
<1> DEFINE sel == ParlayLegs[p][i].selection
<1>1. sel.type = "1X2" /\ resolve1X2(s) # -1
  BY DEF ResultLegs, resolve1X2
<1>2. verdict(sel, s) = IF resolve1X2(s) = sel.outcome THEN "win" ELSE "lose"
  BY <1>1 DEF verdict, resolveScoreBasedOutcome
<1> QED BY <1>2 DEF legResult

LEMMA ParlayStays ==
    ASSUME NEW w, NEW v, onward(w, v), NEW p \in Parlays, NEW row, parlayTrue(row, p, w)
    PROVE  parlayTrue(row, p, v)
<1>1. \A i \in DOMAIN ParlayLegs[p] :
        /\ legWins(w, p, i) => legWins(v, p, i)
        /\ legLoses(w, p, i) => legLoses(v, p, i)
  BY LegsIn DEF legWins, legLoses, onward
<1>2. \A i \in DOMAIN ParlayLegs[p] : legDecided(w, p, i) => legDecided(v, p, i)
  BY DisputedStays, LegsIn DEF legDecided, onward
<1>3. DOMAIN row.legs \subseteq DOMAIN ParlayLegs[p]
  BY DEF parlayTrue, ParlayRow
<1> QED BY <1>1, <1>2, <1>3 DEF parlayTrue

(* A step that leaves the parlays' rows alone. *)
LEMMA ParlaysStay ==
    ASSUME ParlayInv, UNCHANGED parlayRows, onward(World, World')
    PROVE  ParlayInv'
BY ParlayStays DEF ParlayInv

LEMMA ParlayRowsWritten ==
    ASSUME [LifeNext]_settlementVars
    PROVE  \/ UNCHANGED parlayRows
           \/ \E r \in Runners : resolveLegs(r) \/ reconcileParlays(r)
           \/ reopenLegs
           \/ \E p \in Parlays : recordParlayClaim(p)
<1>1. ASSUME NEW r \in Runners, startRunner(r)
      PROVE  UNCHANGED parlayRows
  BY <1>1 DEF startRunner, sweep, resolvePastKickoff, recoverStuck, finishedEvent, adminSettle,
     adminOverride, adminCancel, startLoop, startPass, rowVars
<1>2. ASSUME NEW r \in Runners, runStep(r), ~resolveLegs(r), ~reconcileParlays(r)
      PROVE  UNCHANGED parlayRows
  BY <1>2 DEF runStep, nextMarket, recordScore, planScoreBasedSettlement,
     planDirectOutcomeSettlement, plans, assessMarketSettlementRisk, voidSkipped, voidSent,
     voidRefused, voidMined, markVoided, settleSent, settleRefused, settleMined,
     reconcileSettlement, closeMarket, cancelSent, cancelRefused, cancelMined, markCancelled,
     cancelMarketBets, cancelRow, rowVars
<1>3. ASSUME NEW r \in Runners, failure(r)
      PROVE  UNCHANGED parlayRows
  BY <1>3 DEF failure, die, voidFails, callFails, receiptLost, rowVars
<1>4. ASSUME NEW m \in Markets, feedDrops(m) \/ feedStep(m) \/ suspendToggle(m)
      PROVE  UNCHANGED parlayRows
  BY <1>4 DEF feedDrops, feedStep, handleFinished, handleLive, reconcileLiveScores,
     suspendToggle, rowVars
<1>5. ASSUME NEW b \in Bets, bettorStep(b)
      PROVE  UNCHANGED parlayRows
  BY <1>5 DEF bettorStep, recordBet, claimWinnings, claimRefund, recordClaim, recordRefund,
     onChain, rowBecomes, rowVars
<1>6. upsertFromOracle => UNCHANGED parlayRows
  BY DEF upsertFromOracle
<1>7. \A p \in Parlays : resolveParlay(p) => UNCHANGED parlayRows
  BY DEF resolveParlay, rowVars
<1>8. UNCHANGED settlementVars => UNCHANGED parlayRows
  BY DEF settlementVars, rowVars
<1> QED BY <1>1, <1>2, <1>3, <1>4, <1>5, <1>6, <1>7, <1>8 DEF LifeNext

(* A pass resolves a market's legs from its plan's score, once the market   *)
(* is no longer open or the plans for it disagree.                         *)
LEMMA LegsResolved ==
    ASSUME ResultLegs, LifeInv, ParlayInv, NEW r \in Runners, resolveLegs(r)
    PROVE  \A p \in Parlays : parlayTrue(parlayRows'[p], p, World)
<1> DEFINE m == runners[r].market
           s == runners[r].plan.score
<1>1. /\ m \in Markets /\ resolve1X2(s) \in World.outcomes[m]
      /\ World.markets[m].status # "Open" \/ disputed(World, m)
  BY DEF resolveLegs, at, LifeInv, passTrue, Decided
<1> SUFFICES ASSUME NEW p \in Parlays
             PROVE  parlayTrue(parlayRows'[p], p, World)
  OBVIOUS
<1> DEFINE row == parlayRows[p]
           legs == [i \in DOMAIN row.legs |->
                      IF i \in legsOn(p, m)
                      THEN legResult(ParlayLegs[p][i].selection, s) ELSE row.legs[i]]
<1>2. parlayRows'[p] = [row EXCEPT !.legs = legs]
  BY DEF resolveLegs, marketOf, planOf
<1>3. /\ parlayTrue(row, p, World) /\ row \in ParlayRow(p)
      /\ DOMAIN row.legs \subseteq DOMAIN ParlayLegs[p]
      /\ \A i \in DOMAIN row.legs : row.legs[i] \in LegRow
      /\ DOMAIN row.legs \in {DOMAIN ParlayLegs[p], {}}
  BY DEF ParlayInv, parlayTrue, ParlayRow
<1>4. ASSUME NEW i \in DOMAIN row.legs
      PROVE  /\ legs[i] \in LegRow
             /\ legs[i] = "WON" => legWins(World, p, i) /\ legDecided(World, p, i)
             /\ legs[i] = "LOST" => legLoses(World, p, i)
  <2>1. CASE i \in legsOn(p, m)
    <3>1. ParlayLegs[p][i].market = m
      BY <2>1 DEF legsOn
    <3>2. i \in DOMAIN ParlayLegs[p]
      BY <1>3
    <3>3. legs[i] = legResult(ParlayLegs[p][i].selection, s)
      BY <2>1
    <3>4. legs[i] = IF resolve1X2(s) = ParlayLegs[p][i].selection.outcome THEN "WON" ELSE "LOST"
      BY <3>2, <3>3, LegVerdict
    <3> HIDE DEF legs, s
    <3> QED BY <1>1, <3>1, <3>4 DEF LegRow, legWins, legLoses, legDecided
  <2>2. CASE i \notin legsOn(p, m)
    BY <1>3, <2>2 DEF parlayTrue
  <2> QED BY <2>1, <2>2
<1>5. DOMAIN legs = DOMAIN row.legs
  OBVIOUS
<1>6. legs \in [DOMAIN ParlayLegs[p] -> LegRow] \cup [{} -> LegRow]
  <2>1. legs \in [DOMAIN row.legs -> LegRow]
    BY <1>4
  <2> QED BY <1>3, <2>1
<1> HIDE DEF legs
<1>7. /\ parlayRows'[p] \in ParlayRow(p) /\ parlayRows'[p].legs = legs
      /\ parlayRows'[p].status = row.status
  BY <1>2, <1>3, <1>6 DEF ParlayRow
<1> QED BY <1>3, <1>4, <1>5, <1>7 DEF parlayTrue

LEMMA ParlaysReconciled ==
    ASSUME ResultLegs, LifeInv, ParlayInv, NEW r \in Runners, reconcileParlays(r)
    PROVE  \A p \in Parlays : parlayTrue(parlayRows'[p], p, World)
<1> DEFINE m == runners[r].market
<1> SUFFICES ASSUME NEW p \in Parlays
             PROVE  parlayTrue(parlayRows'[p], p, World)
  OBVIOUS
<1> DEFINE row == parlayRows[p]
           status == parlayStatus(row.legs, row.status)
<1>1. parlayTrue(row, p, World) /\ row \in ParlayRow(p)
  BY DEF ParlayInv, parlayTrue
<1>2. CASE legsOn(p, m) = {}
  BY <1>1, <1>2 DEF reconcileParlays, marketOf
<1>3. CASE legsOn(p, m) # {}
  <2>1. parlayRows'[p] = [row EXCEPT !.status = status]
    BY <1>3 DEF reconcileParlays, marketOf
  <2>2. DOMAIN row.legs = DOMAIN ParlayLegs[p]
    BY <1>1, <1>3 DEF legsOn, ParlayRow
  <2>3. status \in {row.status, "WON", "LOST"}
    BY DEF parlayStatus
  <2>4. /\ status = "LOST" /\ status # row.status =>
             \E i \in DOMAIN row.legs : row.legs[i] = "LOST"
        /\ status = "WON" /\ status # row.status =>
             \A i \in DOMAIN row.legs : row.legs[i] \in {"WON", "VOID"}
    BY DEF parlayStatus
  <2>5. \A i \in DOMAIN row.legs : row.legs[i] # "VOID"
    BY <1>1 DEF ParlayRow, LegRow
  <2> HIDE DEF status
  <2>6. /\ parlayRows'[p] \in ParlayRow(p) /\ parlayRows'[p].legs = row.legs
        /\ parlayRows'[p].status = status
    BY <1>1, <2>1, <2>3 DEF ParlayRow
  <2>7. status \in {"WON", "CLAIMED"} =>
          \A i \in DOMAIN ParlayLegs[p] : legWins(World, p, i) /\ legDecided(World, p, i)
    BY <1>1, <2>2, <2>3, <2>4, <2>5 DEF parlayTrue
  <2>8. status = "LOST" => \E i \in DOMAIN ParlayLegs[p] : legLoses(World, p, i)
    BY <1>1, <2>2, <2>3, <2>4 DEF parlayTrue
  <2> QED BY <1>1, <2>6, <2>7, <2>8 DEF parlayTrue
<1> QED BY <1>2, <1>3

LEMMA LegsReopened ==
    ASSUME ParlayInv, reopenLegs
    PROVE  \A p \in Parlays : parlayTrue(parlayRows'[p], p, World)
<1> SUFFICES ASSUME NEW p \in Parlays
             PROVE  parlayTrue(parlayRows'[p], p, World)
  OBVIOUS
<1> DEFINE open == legsOn(p, tick.market)
           row == parlayRows[p]
           legs == [i \in DOMAIN ParlayLegs[p] |-> IF i \in open THEN "PENDING" ELSE row.legs[i]]
<1>1. parlayTrue(row, p, World) /\ row \in ParlayRow(p)
  BY DEF ParlayInv, parlayTrue
<1>2. parlayRows'[p] = IF open = {} THEN row ELSE [status |-> "PENDING", legs |-> legs]
  BY DEF reopenLegs
<1>3. CASE open = {}
  BY <1>1, <1>2, <1>3
<1>4. CASE open # {}
  <2>1. DOMAIN row.legs = DOMAIN ParlayLegs[p]
        /\ \A i \in DOMAIN ParlayLegs[p] : row.legs[i] \in LegRow
    BY <1>1, <1>4 DEF legsOn, ParlayRow
  <2>2. /\ legs \in [DOMAIN ParlayLegs[p] -> LegRow]
        /\ \A i \in DOMAIN ParlayLegs[p] : legs[i] \in {"PENDING", row.legs[i]}
        /\ DOMAIN legs = DOMAIN ParlayLegs[p]
    BY <2>1 DEF LegRow
  <2> HIDE DEF legs
  <2>3. /\ parlayRows'[p] \in ParlayRow(p) /\ parlayRows'[p].legs = legs
        /\ parlayRows'[p].status = "PENDING"
    BY <1>2, <1>4, <2>2 DEF ParlayRow
  <2> QED BY <1>1, <2>1, <2>2, <2>3 DEF parlayTrue
<1> QED BY <1>3, <1>4

LEMMA ParlayClaimRecorded ==
    ASSUME ParlayInv, NEW q \in Parlays, recordParlayClaim(q)
    PROVE  \A p \in Parlays : parlayTrue(parlayRows'[p], p, World)
<1>1. PICK status \in {"CLAIMED", "REFUNDED"} :
        /\ parlayRows' = [parlayRows EXCEPT ![q].status = status]
        /\ status = "CLAIMED" => parlayRows[q].status = "WON"
  BY DEF recordParlayClaim
<1>2. parlayTrue(parlayRows[q], q, World) /\ parlayRows[q] \in ParlayRow(q)
      /\ parlayRows = [p \in Parlays |-> parlayRows[p]]
  BY DEF ParlayInv, parlayTrue
<1>3. /\ parlayRows'[q] \in ParlayRow(q) /\ parlayRows'[q].status = status
      /\ parlayRows'[q].legs = parlayRows[q].legs
      /\ \A p \in Parlays : p # q => parlayRows'[p] = parlayRows[p]
  BY <1>1, <1>2 DEF ParlayRow
<1>4. parlayTrue(parlayRows'[q], q, World)
  BY <1>1, <1>2, <1>3 DEF parlayTrue
<1> QED BY <1>3, <1>4 DEF ParlayInv

LEMMA ParlayStep ==
    ASSUME ResultLegs, LifeInv, ParlayInv, [LifeNext]_settlementVars
    PROVE  ParlayInv'
<1>1. onward(World, World')
  BY LifeStep
<1>2. CASE UNCHANGED parlayRows
  BY <1>1, <1>2, ParlaysStay
<1>3. CASE ~UNCHANGED parlayRows
  <2>1. \A p \in Parlays : parlayTrue(parlayRows'[p], p, World)
    BY <1>3, ParlayRowsWritten, LegsResolved, ParlaysReconciled, LegsReopened,
       ParlayClaimRecorded
  <2>2. parlayRows' = [p \in Parlays |-> parlayRows'[p]]
    <3>1. CASE \E r \in Runners : resolveLegs(r) \/ reconcileParlays(r)
      BY <3>1 DEF resolveLegs, reconcileParlays
    <3>2. CASE reopenLegs
      BY <3>2 DEF reopenLegs
    <3>3. CASE \E p \in Parlays : recordParlayClaim(p)
      <4>1. parlayRows = [p \in Parlays |-> parlayRows[p]]
        BY DEF ParlayInv
      <4> QED BY <3>3, <4>1 DEF recordParlayClaim
    <3> QED BY <1>3, <3>1, <3>2, <3>3, ParlayRowsWritten
  <2>3. \A p \in Parlays : parlayTrue(parlayRows'[p], p, World')
    BY <1>1, <2>1, ParlayStays
  <2> QED BY <2>2, <2>3 DEF ParlayInv
<1> QED BY <1>2, <1>3

LEMMA ParlaysStart ==
    ASSUME ResultLegs, SettlementInit
    PROVE  ParlayInv
<1>1. PICK P \in Populations, first \in [Markets -> Scores \cup {NoScore}] : populatedBy(P, first)
  BY DEF SettlementInit, populated
<1>2. /\ parlayRows = [p \in Parlays |->
            IF p \in P.parlays THEN [status |-> parlayStatus(settledLegs(P, p, first), "PENDING"),
                                     legs |-> settledLegs(P, p, first)]
                               ELSE [status |-> "None", legs |-> <<>>]]
      /\ chainMarkets = [m \in Markets |->
            IF m \in P.settled
            THEN [status |-> "Settled", winningOutcome |-> resolve1X2(first[m])]
            ELSE [status |-> "Open", winningOutcome |-> 0]]
      /\ outcomes = [m \in Markets |-> IF m \in P.settled THEN {resolve1X2(first[m])} ELSE {}]
      /\ P.settled \subseteq Markets
  BY <1>1, SettlementAssumption DEF populatedBy, SettlementAssumption
<1>3. \A m \in P.settled : /\ World.outcomes[m] = {resolve1X2(first[m])}
                               /\ World.markets[m].status = "Settled"
  BY <1>2, WorldIs
<1>4. ASSUME NEW p \in Parlays
      PROVE  parlayTrue(parlayRows[p], p, World)
  <2> DEFINE legs == settledLegs(P, p, first)
             status == parlayStatus(legs, "PENDING")
  <2>1. DOMAIN legs = DOMAIN ParlayLegs[p]
    BY DEF settledLegs
  <2>2. ASSUME NEW i \in DOMAIN ParlayLegs[p]
        PROVE  /\ legs[i] \in LegRow
               /\ legs[i] = "WON" => legWins(World, p, i) /\ legDecided(World, p, i)
               /\ legs[i] = "LOST" => legLoses(World, p, i)
    <3> DEFINE m == ParlayLegs[p][i].market
    <3>1. legs[i] = IF m \in P.settled THEN legResult(ParlayLegs[p][i].selection, first[m])
                                           ELSE "PENDING"
      BY DEF settledLegs
    <3> HIDE DEF legs
    <3>2. CASE m \in P.settled
      <4>1. legs[i] = IF resolve1X2(first[m]) = ParlayLegs[p][i].selection.outcome
                      THEN "WON" ELSE "LOST"
        BY <3>1, <3>2, LegVerdict
      <4> QED BY <1>3, <3>2, <4>1 DEF LegRow, legWins, legLoses, legDecided
    <3>3. CASE m \notin P.settled
      BY <3>1, <3>3 DEF LegRow
    <3> QED BY <3>2, <3>3
  <2>3. legs \in [DOMAIN ParlayLegs[p] -> LegRow]
    <3>1. legs = [i \in DOMAIN ParlayLegs[p] |-> legs[i]]
      BY DEF settledLegs
    <3> HIDE DEF legs
    <3> QED BY <2>2, <3>1
  <2>4. /\ status \in {"PENDING", "WON", "LOST"}
        /\ status = "LOST" => \E i \in DOMAIN legs : legs[i] = "LOST"
        /\ status = "WON" => \A i \in DOMAIN legs : legs[i] \in {"WON", "VOID"}
    BY DEF parlayStatus
  <2>5. parlayRows[p] = IF p \in P.parlays THEN [status |-> status, legs |-> legs]
                                           ELSE [status |-> "None", legs |-> <<>>]
    BY <1>2
  <2> HIDE DEF legs, status
  <2>6. <<>> \in [{} -> LegRow] /\ DOMAIN <<>> = {}
    OBVIOUS
  <2>7. CASE p \notin P.parlays
    BY <2>5, <2>6, <2>7 DEF parlayTrue, ParlayRow
  <2>8. CASE p \in P.parlays
    <3>1. /\ parlayRows[p].status = status /\ parlayRows[p].legs = legs
          /\ parlayRows[p] \in ParlayRow(p)
      BY <2>3, <2>4, <2>5, <2>8 DEF ParlayRow
    <3>2. status = "WON" => \A i \in DOMAIN ParlayLegs[p] : legs[i] = "WON"
      BY <2>1, <2>2, <2>4 DEF LegRow
    <3> QED BY <2>1, <2>2, <2>4, <3>1, <3>2 DEF parlayTrue
  <2> QED BY <2>7, <2>8
<1> QED BY <1>2, <1>4 DEF ParlayInv

(* Where every leg of a parlay is on the result of a match, the row, which  *)
(* follows the legs' results, and the contract, which follows the markets'  *)
(* winning outcomes, never tell it differently, provided that no leg's     *)
(* market is cancelled and the plans made for it agree.  Of other legs it   *)
(* is not so: a handicap may be won on a draw.                                            *)
THEOREM ParlaysFollowMarkets ==
    ASSUME ResultLegs
    PROVE  LifeSpec => []ParlayRowTrue
<1>1. LifeInv /\ ParlayInv /\ [LifeNext]_settlementVars => LifeInv' /\ ParlayInv'
  BY LifeStep, ParlayStep
<1>2. SettlementInit => LifeInv /\ ParlayInv
  BY LifeStarts, ParlaysStart
<1>3. LifeInv /\ ParlayInv => ParlayRowTrue
  <2> SUFFICES ASSUME LifeInv, ParlayInv, NEW p \in Parlays,
                      \A i \in DOMAIN ParlayLegs[p] : /\ legOf(p, i).status # "Cancelled"
                                                      /\ agreed(ParlayLegs[p][i].market)
               PROVE  /\ parlayRows[p].status \in {"WON", "CLAIMED"} => parlayVerdict(p) = "Won"
                      /\ parlayRows[p].status = "LOST" => parlayVerdict(p) # "Won"
    BY DEF ParlayRowTrue
  <2> DEFINE D == DOMAIN ParlayLegs[p]
             wanted(i) == ParlayLegs[p][i].selection.outcome
             stops == {i \in D : \/ legOf(p, i).status = "Open"
                                 \/ /\ legOf(p, i).status = "Settled"
                                    /\ legOf(p, i).winningOutcome # wanted(i)}
  <2>1. /\ stops = {} => parlayVerdict(p) = "Won"
        /\ stops # {} => parlayVerdict(p) # "Won"
    <3>1. ~\E i \in D : legOf(p, i).status = "Cancelled"
      OBVIOUS
    <3> QED BY <3>1 DEF parlayVerdict
  <2>2. ASSUME NEW i \in D
        PROVE  /\ legOf(p, i).status \in {"Open", "Settled"}
               /\ legDecided(World, p, i) => legOf(p, i).status = "Settled"
               /\ legOf(p, i).status = "Settled" =>
                     /\ legWins(World, p, i) => legOf(p, i).winningOutcome = wanted(i)
                     /\ legLoses(World, p, i) => legOf(p, i).winningOutcome # wanted(i)
    <3> DEFINE m == ParlayLegs[p][i].market
    <3>1. /\ m \in Markets /\ legOf(p, i) = World.markets[m] /\ legOf(p, i) \in LedgerMarket
      BY LegsIn, WorldIs DEF legOf, LifeInv, worldTrue, worldTypes
    <3>2. \A o, q \in World.outcomes[m] : o = q
      BY WorldIs DEF agreed, oneOutcome
    <3>3. ~disputed(World, m)
      BY Alike DEF agreed, betsOn, disputed
    <3>4. legOf(p, i).status = "Settled" => legOf(p, i).winningOutcome \in World.outcomes[m]
      BY <3>1 DEF LifeInv, worldTrue
    <3>5. legOf(p, i).status \in {"Open", "Settled"}
      BY <3>1 DEF LedgerMarket
    <3> QED BY <3>1, <3>2, <3>3, <3>4, <3>5 DEF legWins, legLoses, legDecided
  <2>3. parlayTrue(parlayRows[p], p, World)
    BY DEF ParlayInv
  <2>4. parlayRows[p].status \in {"WON", "CLAIMED"} => stops = {}
    BY <2>2, <2>3 DEF parlayTrue
  <2>5. parlayRows[p].status = "LOST" => stops # {}
    BY <2>2, <2>3 DEF parlayTrue
  <2> QED BY <2>1, <2>4, <2>5
<1> QED BY <1>1, <1>2, <1>3, PTL DEF LifeSpec
=============================================================================
