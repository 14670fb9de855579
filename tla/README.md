# SportyStake: a TLA+ verification of its money paths

SportyStake is a sportsbook and casino whose stakes, liquidity and payouts live
in Solidity contracts on an Arc chain (USDC, 6 decimals) and whose odds, games,
results and bookkeeping live in a Next.js application, a few worker processes, an
oracle service and a Postgres database. This directory models what happens to money
and to the rows that say what happened to it: the four contracts, the crash worker, the
casino and its blackjack, the settlement of matches, and the feed that says a
match is over. TLC checks the models on small instances; TLAPS proves the central
invariants of all four contracts, and one refinement, for every value of the constants.

Paths below are relative to the repository (in `PROJECT.json` they start with
`src/`). Abbreviations: BC = `packages/contracts/contracts/BettingCore.sol`, LP =
`LiquidityPool.sol`, CG = `CrashGame.sol`, CH = `CasinoHouse.sol`, ST =
`src/lib/server/settlement.ts`, OS = `src/workers/oracle-sync.worker.ts`, RS =
`src/lib/server/repos/bets.repo.ts`.

## 1. Inventory

### Contracts

**LiquidityPool** keeps `totalLiquidity`, `totalLocked`, the per-market buckets
`marketLocked`, the LPs' shares and withdrawal requests, and `virtualLiquidity`.
LPs deposit and (after a timelock) withdraw; BettingCore locks, unlocks and
reports results; the admin credits and debits virtual liquidity. Hard: shares
are priced from a hand-kept total, re-synced upwards to the token balance at
each result; virtual liquidity has no tokens behind it; every division rounds.
Correct when the priced liquidity is backed by USDC, the totals equal the sums
they stand for, and no rounding moves value away from an LP who does nothing.

**BettingCore** keeps markets, bets and parlays, the house edge, the safety
multiplier, limits and the pause flag. An operator creates, suspends, resumes, settles and
cancels markets; bettors place (with an attestation), claim and refund; an
operator voids bets. A bet locks *expected* liability in the pool, so a payout
may be scaled (`fillRatioX1000`) to what the pool has left after the other
markets' reservations. Parlays lock under their own id and are judged from
their legs each time they are claimed. Hard: one USDC balance shared by all
markets; locks recorded at placement and released under changed parameters;
bets listed more than once, of other markets, or not at all in a settlement;
voids before and after; legs resolved in any order. Correct when everything owed
can be paid, counters equal the bets they count, payouts stay off others'
reservations, and each ticket is resolved once and paid at most once within
[stake, quote].

**CrashGame** keeps one current round (pending, running, crashed), its players'
entries, credits (`pendingPayout`, `totalPendingPayouts`), a bankroll, the RTP.
The operator starts (commit), locks, and resolves (reveal) rounds, and cancels a round
that is stuck; players join, cash out and claim. Hard: the cap on the
crash multiplier is found at lock time by walking the segments between auto
cash-outs, and used at resolution after claims, withdrawals and RTP changes.
Correct when the cap is the largest one the bankroll sustains, winners under it
are paid in full, and all stakes and credits are always payable.

**CasinoHouse** keeps instant bets with a reserved exposure, pool rounds
(crash/prediction style: deposits, then one resolution), a bankroll and per-game
worst-case multipliers. Correct when the exposure counter equals the open bets'
reservations, an accepted bet is covered, and a pool round pays at most its cap,
once.

### Application

**Crash worker** (`src/workers/crash-scheduler.worker.ts`): one process that
recovers stuck rounds at start, then loops start, wait, lock, wait, resolve,
reconcile. It holds the seed in memory only. Database rows are created by the
join route and settled by the worker. Hard: death or a lost receipt at every await.

**Casino resolution** (`src/lib/server/casino.ts`) computes the outcome of dice,
slots, roulette and baccarat from a draw and re-maps a win the house cannot pay to
a loss that must still look like one. The **bet route**
(`src/app/api/casino/bet/route.ts`) verifies the on-chain bet, reads the capacity,
resolves, settles on chain and records the row; requests for one bet may run at
once, be retried, and die.

**Blackjack** (`blackjackEngine.ts`, `blackjackResolution.ts`, the routes
`casino/blackjack/deal` and `action`) keeps a hand per bet, advanced by a
compare-and-set on `actionSeq`; the cards come from one seed's stream at a cursor
kept in the row. Hard: the hand is read before the claim and written after it, and the
chain and the database are written one after the other. Correct when no card
is drawn again for a better one, and the hand, its row and its stake end together.

**Settlement** (`settlement.worker.ts`, ST, RS, the admin's settle, cancel and suspend
routes, and the past-kickoff resolver and stuck-market canceller of OS): up to six
kinds of call chain, in three processes, record a score, plan verdicts for every bet,
void the pushes, call `settleMarket` and rewrite the rows of bets, legs, parlays
and the market. The score is the finished event's, the cache's, the other feed's, the
row's or one the admin types, and nothing makes them equal; the admin may also force an
outcome with no score; a settled market is settled again when a feed's score differs. Nothing
but the contract's own errors and row statuses keeps the chains apart. Hard: interleavings at
every await, a death between the chain and the rows, a second score after the first was
acted on, receipts whose status is not read, claims recorded meanwhile, rows that arrive
late, the live handlers writing the same rows. Correct when shown results stand and agree
with the contract, and every bet is resolved once a score is known.

**Oracle service** (`packages/oracle`): the live job scrapes what is in play every two
minutes, keeps a tracking state in Redis and infers from disappearances that a match has
finished. Hard: a match that ends leaves the feed without a word, as does one whose
sport could not be scraped; runs overlap, die, and fail to read or write. Correct when
a finish is inferred only after the sightings and absences the code asks for, once,
with the last score, and an end is not missed.

**Oracle sync** (OS) writes fixtures, live scores and finished scores into Market rows,
refreshes them from the cache and reopens legs of matches in play.

**Bet verification** checks receipts before a bet, a claim or a refund is recorded.
**Market attestation** signs closing times. **Bonus**, **virtual liquidity store**, **auth**,
**rate limit**, **event bus**, **SDK** and **UI** surround these. `PROJECT.json` lists each
with its status.

### Interactions

| from | to | how |
|---|---|---|
| BettingCore | LiquidityPool | synchronous calls in the same transaction: lock, unlock, reportResult, view of capacity |
| players, LPs, operators, admin | contracts | transactions, serialised by the chain, any order |
| crash worker | CrashGame | awaited transactions; each may fail or lose its receipt |
| join route, worker | CasinoBet rows | database writes; the worker settles `PENDING` rows of its round |
| bet and blackjack routes | CasinoHouse, rows | a read of the capacity, an awaited settlement, rows written after it |
| live job | settlement worker, oracle sync | Redis messages (finished, live rows) and the key `oracle:live:events`, which expires |
| settlement runners | BettingCore | `voidBet` per push, then `settleMarket`, or `cancelMarket`; estimated, sent, awaited |
| settlement runners, live handlers, routes | Market, Bet, Parlay rows | separate statements, only some in a transaction |

The hazards this gives rise to are in `PROJECT.json` under `hazards`, each at the line
where it bites with the properties that cover it.

## 2. Modules

| module | models | state and actions |
|---|---|---|
| `Sums` | the loops that add up lists, and the sums invariants speak of | `SumTo(f, n)`, a recursive *function* so it can be proved about |
| `LiquidityPool` | LP | LP state; `deposit`, `requestWithdrawal`, `executeWithdrawal`, `add`/`removeVirtualLiquidity`, a plain USDC transfer (`Donate`); the hooks as operators on the pool's variables for the composing module |
| `BettingCore` | BC composed with `LiquidityPool` | every market, bet, parlay and admin transaction, with the pool calls it makes, as one action |
| `BetEscrow` | what a bettor is promised (abstract) | a ticket is staked, then resolved or refunded, then paid once within [stake, quote] |
| `MarketLedger` | BC with the money left out (abstract) | a market is resolved once with one outcome; a bet is voided, refunded or cashed only when its market allows it |
| `CrashGame` | CG | one action per transaction; the cap search, payout scaling and crash curve as operators |
| `CrashScheduler` | the crash worker composed with `CrashGame`, and the join route's rows | one action per await of the worker, plus `Die`, `Boot`, `CallFails`, `ReceiptLost` |
| `CasinoHouse` | CH | one action per transaction |
| `CasinoGames` | the resolvers of `casino.ts` | one step per resolver, over all draws and inputs of a set |
| `CasinoBets` | the bet route composed with `CasinoHouse` | one action per await of a request, `die`, `receiptLost` |
| `Blackjack` | the engine, the deal and action routes and the resolution, composed with `CasinoHouse` | the rules as operators; one action per await of a request; `die`, `receiptLost` |
| `CasinoTables` | `CasinoGames` and `Blackjack` | a behaviour is one resolver call, or one hand |
| `SettlementRules` | how each selection resolves from a score (ST) | pure operators: 1X2, totals, both-to-score, Asian handicap, double chance |
| `MarketSettlement` | the settlement runners, against `MarketLedger` and the rows | one action per await of a call chain: find a score (the event's, the cache's, the other feed's, the row's, the admin's) and record it, or force an outcome; plan, risk gate, void, settle, reconcile bets, legs, parlays, close; cancel; failures |
| `MarketLife` | `MarketSettlement` with the live feed, the handlers of OS, the admin's switch and the bettors' routes | adds their reads and writes |
| `LiveFeed` | the oracle's live job and `live-tracking.ts` | one action per await of a run, `play`, `die`, `trackingExpires` |
| `LiveSweep` | `LiveFeed` with the sweep that reads its cache | adds the cache key and `settleFinished` |
| `SumsProofs`, `BettingCoreProofs`, `BettingCoreSolvency`, `CrashGameProofs`, `CasinoHouseProofs`, `CasinoTablesProofs`, `MarketProofs`, `LiveFeedProofs` | | theorems, section 5 |
| `MCBettingCore`, `MCCasinoTables`, `MCCasinoBets`, `MCMarketLife` | | constants a `.cfg` cannot write |

Conventions. Constant and definition names are the code's where possible. USDC
amounts are small integers; the contracts are on Solidity 0.8, so a subtraction
below zero is a revert and appears as a guard. An action is a whole transaction:
its guards are the `require`s, custom errors and modifiers. An action of a process is
what it does from one await to the next. Ids hashed from nonces
are consecutive numbers. `msg.sender` is kept only where the code's behaviour
depends on it. A definition whose comment begins "Variant of" is a plausible bug
in the operator it names; nothing but the mutants of `PROJECT.json` uses it.

Refinement. `BettingCore!Escrow` instantiates `BetEscrow` with a ticket per bet
and per parlay: a bet left Pending in a settled market reads as Lost, and a
parlay as Won or Lost as soon as its legs say so. `BettingCore!Ledger` instantiates
`MarketLedger` with the market statuses (Suspended reads as Open), the outcome, and
each bet's status and market. Both are checked as properties (`EscrowSpec`, `LedgerSpec`)
and proved. The second is what lets `MarketSettlement` EXTEND `MarketLedger`
instead of `BettingCore`: whatever the contract does, the workers see a ledger.

History variables. `MarketSettlement` keeps what no row or contract keeps: `judged`, the
verdicts the plans gave each bet; `outcomes`, what they were to store on chain for each
market; `missed`, the voids that failed and the cancels that reverted. No guard reads them.
Its constant `Populations` says which scores the sources report of each match: any set, so
none (a postponed match), one, or several that differ.

## 3. Runs

| run | what it checks | bounds, and why they are enough |
|---|---|---|
| `markets` | `TypeOK`, `PoolBacked`, `CoreSolvent`, `StakesTracked`, `NoDilution`, `LedgerSpec` | 1 market, 2 bets, 2 LPs, virtual liquidity, an edge of 10 % and 0, a safety multiplier of 1 and 3, pause. Two bets let one win while the other loses, is voided or is left out of the settlement; two LPs let one be diluted by the other; the pool (35) is smaller than two 20-stake wins need, so payouts are scaled |
| `parlays` | `CoreSolvent`, `LocksTracked`, `ReservationsRespected`, `EscrowSpec` | 2 markets, 2 two-leg parlays, 1 bet; legs settle, suspend, cancel and claim in every order; 40 USDC of LP capital against parlay payouts of 60 and a bet of 40, a donation; a change of limits |
| `crash_rounds` | `CrashSolvent`, `PendingTotal`, `CapIsLargest`, `CapSustainable` | 2 rounds, 2 players, auto cash-outs at none, 1.5x, 3x (ties and distinct thresholds, manual and automatic together), one losing and one winning seed, an RTP drop, bankroll in and out, pause |
| `sched` | `RowsAgreeWithChain`, `HeldRoundIsCurrent`, `RoundsEndOrAreOrphaned`, `RowsReconciled` | 2 rounds (so a stuck one can block the next), 1 player, deaths, failed calls and lost receipts at *every* await, 2 in all, and join rows that arrive late |
| `games` | `ShownIsPaid`, `GateExact`, `TableGamesWithinReserve`; `NoReroll`, `OneDeck`, `HandFollowsBet`, `BestTotal` | every roulette bet and number, all baccarat bets and pairs, dice at the extreme and middle targets over rolls finer than the two decimals shown, on both sides of each, slot rows covering cherries, sevens, wilds and a losing row a wild would complete; capacities of nothing, just below, at and above the need. Blackjack: one hand, 4 requests (a deal, its repetition, two actions that race), shoes with a natural, two naturals, a hand of small cards and repeats, aces, and two that run out, one before the deal and one in the middle of a hand (the draw then throws); one death or lost receipt; a bankroll that just covers the bonus and one that does not |
| `casino` | `ExposureTracked`, `CoverageKept`, `ResolvedForGood`; `ConfirmedRowTrue`, `AnswersAgree` | 2 requests and 2 bets, so two requests for one bet or one for each; 3 pool rounds (so that a future and an already opened round both exist), a worst-case multiplier halved while bets are open, RTP changes, balances that just cover and just miss; one fault |
| `settlement` | `RowsAgreeWithLedger`, `RefundedRowTrue`, `ParlayRowTrue`, `ResultsStand` | a match that has ended or was postponed, two bets on it (a level handicap, which a draw voids, and a home win), a parlay with a market settled before; a sweeper and a second runner of any of the other five kinds, the live handlers, the admin's switch and the bettors. *One score*, each started with the row's score seen or not: a draw with a push and a loser; a home win with a winner; a row that arrives late; the parlay; with one fault, or one score or outcome of the admin's, at any await. *Two scores*, each source giving either at each reading, no fault: a draw and a home win, which judge a bet differently; 1-0 and 2-0, which judge alike while `scoreChanged` settles a settled market again. *No score*: postponed. The threshold of the risk gate is what both bets reach together. 1.4 million states |
| `resolving` | `PendingResolved`, `MarketsConsistent` | the one-score populations with a sweeper and a runner that takes finished events or resolves past kick-off, which may stop for good anywhere, one fault; two matches that end together under the sweeper alone, a bet on each, the second recorded late or the first with scores that change, or the parlay: one market may keep the other from being reached; no bets and any score up to 2-2, which `MarketsConsistent` judges with whole and half lines up to three goals |
| `second_score` (violation) | `SettledRowsTrue` | a draw and a home win reported, one bet, no fault |
| `never_resolved` (violation) | `RecordedResolved` | a draw and a home win reported, one bet, one death; the sweep and the stuck-market canceller |
| `live_feed` | `SeenTwiceMissedTwice`, `LastScoreAfterGap`, `PublishedOnce`, `FinishPublished` | 1 match (the tracking treats each by itself), 2 runs so that one takes over another's lock, thresholds 2 and 3 as in the code, a goal, 2 kinds of fault of: hang, death, failed read, failed write, failed publication, expiry |
| `never_live` (violation) | `NeverSettlesLive` | 1 match, 1 run, no fault |

Named bounds (`MaxBets`, `MaxParlays`, `MaxUsdc`, `MaxTime`, `MaxListed`, `MaxBalance`,
`MaxRounds`, `MaxClock`, `MaxDeposits`, `MaxGoals`, `NumRequests`, `MaxFaults`) only cut the
exploration; each stands in a guard and is declared with what it bounds.
`ReservationsRespected` needs a settlement to list a winner at most once
(`MaxListed = 1`), which is what ST does; `BettingCore` itself allows
repetitions, and with them the sum of payouts it computes is too high. Its theorem assumes
`MaxListed <= 1`; the other proofs hold for any `MaxListed`.

What the properties except, and why:

- `CoverageKept` names its three exceptions: a new bet, a settlement above the bet's
  own reservation (`settleGame` does not compare them), and the payout of a pool
  round, which looks at the balance and not at the exposure (CH:242).
- `RoundsEndOrAreOrphaned` excepts rounds the loop has lost the seed of (section 4).
- `RowsAgreeWithLedger`, `RefundedRowTrue`, `ResultsStand` speak of a bet to which the plans
  made for its market gave one verdict (`alike`), a late bet's being left out counted as
  losing; `ParlayRowTrue` of markets where they gave every bet one and stored one outcome (`agreed`).
  The plans may still be made from different scores, and other bets on the same
  market be judged differently. Where they do not agree the rows do contradict the contract:
  `second_score`. `RefundedRowTrue` also excepts voids that failed and cancels that reverted (`missed`).
- `PendingResolved` assumes that no market of the sweep is refused for ever; `never_resolved` is what
  happens otherwise.
- `ShownIsPaid` excepts a dice roll that rounding put on its target.
- `LastScoreAfterGap` and `PublishedOnce` except behaviours with an overlap, a death or a
  failed write; `FinishPublished` those in which what was known of the match was lost.
- The fourth part of `HandFollowsBet` speaks of behaviours without a fault.

The model of settlement starts when the match is over or has been postponed; the cutoffs of
the sweep and the resolver are past by then. That a match may not be over when they
are past is the subject of `never_live`.

`CHECK_DEADLOCK FALSE` is set where the system modelled may legitimately stop: all bets,
rounds and requests the bounds allow are used up and paid, nobody acts, and the clock
is at its bound. The game resolvers are one-shot. `live_feed` never stops.

Fairness, for the liveness properties:

- `sched`: `WF(workerStep)`, the worker is a sequential loop that is always about to run or
  awaiting a call, and awaits return (timeouts of the RPC client) with a result or
  an error; `WF(Boot)`, the deployment restarts the process (`Restart=always` in the
  systemd unit); `WF(timePasses)`.
- `MarketLife`: `WF(sweep \/ runStep)` of the sweeper and `WF(recoverStuck \/ runStep)` of the
  stuck-market canceller, which `setInterval` starts every 60 s and every 15 minutes and whose
  awaits return, for a runner that has that duty alone; `WF` of the feed ceasing to list a match
  that is over. No other runner is counted on, so `PendingResolved` says the sweep is
  enough, whatever the others leave behind, and `never_resolved` that both together are not once a market is refused.
- `live_feed`: `WF` of a poll by some run (scrapes succeed again and again) and of each
  run's next step.

No fairness is assumed of players, operators, LPs or the admin: nobody ever has to claim.

## 4. Where the code and what is said of it differ

Each of these is a run that TLC refutes; `PROJECT.json` (`findings`) quotes the line.

- `never_live`: the sweep takes a match that is not in `oracle:live:events` for finished;
  100 minutes after kick-off, one scrape that left it out is enough to settle it
  while it is being played, where ST:482 says "NEVER".
- `second_score`: when `settleMarket` answers `MarketAlreadySettled` the worker goes on to the
  rows (ST:432-433) with the plan of its own score, as OS:443 does for settled markets on
  purpose: a bet the contract leaves unpaid is shown as won, and one it pays as lost, where RS:406
  speaks of "the exact id sets that were actually submitted on-chain".
- `never_resolved`: a push is voided, the sweep dies, and the row gets a score by which the bet wins:
  each sweep then reverts with `PayoutSumMismatch`, where ST:474-475 says it settles such markets
  "immediately". The same refusal ends the sweep (ST:527, the `try` is outside the loop), so that the
  markets behind it are not reached either.

Known, and modelled as the code has it, or outside the model, without a run of their own:

- *Crash.* `recoverStuckRounds` looks at a running round's age once, at start. A
  worker back before the timeout leaves the round running, `startRound`
  reverts for good, and the stakes stay locked until somebody calls
  `cancelStuckRound` with the operator's key or restarts the worker later; a lost receipt of
  `startRound` leads to the same state. The worker's receipts are modelled as read or lost: that
  their status is not looked at, and that a call may be mined only after the process that sent it has
  died and another has started, is left out of `CrashScheduler`. A row recorded after its
  round was reconciled stays `PENDING`. A round whose sustainable cap is below the floor is
  played with the floor, and a player with an auto cash-out may still click at a higher
  multiplier; `resolveRound` then scales the winners. `CapSustainable` states when
  they are paid in full.
- *Casino.* A dice roll is decided as drawn and shown rounded to two decimals: 49.997 under 50
  shows 50.00 and is paid, where `casino.ts:97` says the displayed roll is "exactly the one that was
  evaluated"; `ShownIsPaid` names this case and no other. "Over" is priced with 99 - target winning rolls of 100 where 100 - target
  win, so its return exceeds `rtpBps` (`casino.ts:114`). A slots row can pay up to 250x the line
  stake where 50x is reserved; `TableGamesWithinReserve` leaves slots out. A bet whose
  settlement failed is recorded as unconfirmed where `casinoOnchain.ts:83-85` says it must
  not be persisted.
- *Blackjack.* The compare-and-set on `actionSeq` does not verify that the hand read is the
  one of that number (`action/route.ts:72-76`, against `schema.prisma:318-323`); `NoReroll`
  shows it does no harm, since cards are determined by the seed and the cursor. A bust does not
  save the busting card (`action/route.ts:54-55`). A natural is finished by the deal
  route while the hand is open to actions. A settlement mined before a death or
  a lost receipt leaves the hand open for ever: each later action is refused as a replay.
- *Settlement.* The risk gate stops only the finished event; the 60 s sweep settles the same
  market without it (`settlementRisk.ts:4-8`). The row of a parlay follows each leg's own type while
  the contract judges every leg by the market's 1X2 outcome, which ST:349 calls "for display". The
  score feed lists a postponed or cancelled match as finished and reads a missing score as 0, so the
  past-kickoff resolver settles it at 0-0, where OS:436 says "NEVER default to 0-0". A bet recorded after
  the settlement is marked WON by the next sweep though the contract never listed it (RS:406-408). A
  `voidBet` that fails is logged, the market is settled, and the row says CANCELLED of a
  stake that is lost. Forcing an outcome of one market type marks the bets of the other types LOST, as do
  quarter lines and unknown types, where ST:143 says they are "left PENDING".
  A plan above `MAX_SETTLE_BATCH` is refused at each sweep (ST:408). A settlement and a cancellation that
  race: the loser's reverted receipt is not read and its rows are written. A cancellation that dies
  half-way leaves `PENDING` rows on a `CANCELLED` market, and cancelling ignores parlay legs.
  A `CLAIMED` parlay row is overwritten by a later reconciliation. A bulk-cancelled row's bet may be
  unrecorded. `upsertFixture` checks a status and writes later (OS:109).
- *Feed.* An overlap, a death or a failed write breaks "last score observed" and
  "consecutive"; a row listed as finished is lost when the process dies between saving
  and publishing.
- *Contracts.* `settleMarket` refuses a market that is already settled, so winners
  beyond `MAX_SETTLE_BATCH` can never be marked Won, although BC:92 tells operators
  to batch large markets across calls. A parlay with one lost leg reads as Pending while an *earlier* leg is open.
  Virtual liquidity counts in the capacity views and not in payouts: a view may say
  more than the pool can pay; `PoolBacked` keeps it out of the priced total.
  After a loss takes `totalLiquidity` to 0 with shares outstanding, `deposit`
  divides by zero and reverts until a result is positive again.

## 5. Proofs

All proofs are checked by TLAPS without assumptions other than the `ASSUME`s on
constants, which state types and the ranges the code enforces, and one hypothesis,
`ResultLegs`, that `ParlaysFollowMarkets` states. The theorems hold for every value of the
constants: any number of bets, players, requests, runners, matches and faults.

**SumsProofs.** `SumTo` unfolds (`SumStep`), is a natural number, monotone, and moves by
exactly the change of one term (`SumUpdate`). Induction over data is not available
to the installed provers, so each is proved by *least counterexample*: if some
partial sum violated the fact, the least one would contradict `SumStep`. The module
also holds the facts about division the contracts' roundings need (`QuotientBound`,
`SumShares`: a sum of floors is at most the floor of the sum).

**BettingCoreProofs.** First the pool. `PoolInv` is its type, `PoolBacked` and
`PoolTotals`. Each hook BettingCore calls and each LP call is shown to keep it, apart from
any caller, so that the composition only has to discharge the hooks' preconditions.
The rounding lemmas (`Redeemed`, `DepositDilutesNobody`,
`WithdrawalDilutesNobody`) show that both divisions round in the pool's favour.
Then the core. Types alone are not inductive: scaling a payout subtracts the
stake from the quote, and a claim reads the bet's market. `CoreInv` adds that a
quote is never below its stake and that a placed bet names a market. There is
one lemma per transaction, collected in `CoreStep`. From `Spec => []CoreInv` follow
`CoreTyped`, `CorePoolBacked`, `CorePoolTotals`, and, with the fact
that no betting transaction touches the share supply, `CoreNoDilution`: for any number of
markets, bets, parlays, LPs, legs, odds and amounts, and with operators free to list
any bets of a market as winners, any number of times.

**BettingCoreSolvency.** Two layers on top of `CoreInv`, then three results that follow. `Tracking`: an unresolved
market's `totalBetAmount` is the sum of its pending stakes and its pool bucket the
sum of their locks, a resolved market and a closed parlay hold no lock, and a winner's
market is settled. It is needed first because settlement splits `totalBetAmount` and
voiding subtracts from both. `CoreSolvent` itself is then inductive: placing adds the
stake to both sides, voids, refunds and claims take the same from both, and a
settlement moves the balance by the payout less `totalBetAmount` while what is owed
loses the market's stakes and gains the scaled prizes; each prize is floored by itself, so
they come to no more than the payout brought in. Theorems `CoreAlwaysSolvent`,
`CoreStakesTracked`, `CoreLocksTracked`.
`CoreImplementsLedger`: `Spec => LedgerSpec`. One lemma per group of
transactions shows that the step it takes on the ledger's markets and bets is a ledger
action or a stutter. The one fact missing from `CoreInv` and `Tracking` is that a
market not yet created has no outcome (`OutcomesUnset`), an invariant of its own.
`CoreSparesReservations`: `ReservationsRespected`, for settlements that list a winner at most
once. A leaving LP takes at most the unlocked part of `totalLiquidity`, which the balance
covers; a market's deficit is at most its scaled profit, since `Tracking` bounds the winners'
stakes by `totalBetAmount`, and the fill ratio keeps that within what is free beside the other
keys' locks; a parlay is capped by the same figure.
`CoreKeepsEscrow`: `Spec => EscrowSpec`. Each transaction moves one ticket, a settlement all the
tickets of a market, and any other ticket only by its market or legs being decided. Two
facts carry it. A ticket that is not yet paid has been paid nothing (`EscrowInv`, inductive once
every ticket only moves forward). And a verdict is final: the ledger resolves a market once
(`LedgerKeepsVerdicts`), so a leg that is decided stays so, and with it a parlay that is lost
at its first losing leg or won on all of them (`VerdictIs`, by least counterexample over the
legs).

**CrashGameProofs**, in three parts.
*The contract.* `CrashTyped`, `CrashPendingTotal` and `CrashAlwaysSolvent`. The balance is
kept above credits plus the open round's stakes. A resolution pays by one of three rules,
in full, scaled over the profits, or scaled over the whole; each is shown to fit the
capacity in spite of the roundings, and the worst case at lock time to cover the
stakes, so that refunding instead of resolving is always possible.
*The worker.* Each step of `CrashScheduler` is a step of `CrashGame` or leaves it alone
(`SchedDrivesCrash`), so the contract's invariant holds under the worker. `SchedInv` adds that
the stakes of the open round, and no others, are at risk (`StakesAtRisk`), that what the worker
is about to write is what the chain did in the round it holds (`ReconcilesChain`), and that
only a stake the app has seen on chain has a row (`RowsKnown`). `RowsAgreeWithChain` is not
inductive without the three: what keeps a row from being settled with another round's
receipt is that the worker reconciles before anything starts the next round, and that it
forgets the receipt when it dies. Theorems `RowsFollowChain`, `HeldRoundFollowsChain`.
*The cap.* `CapIsTheLargest` follows the segment walk, which is a recursive function over the
sorted thresholds, by least counterexample: within a segment the liability is linear, so
the best multiplier is a quotient, and a candidate beyond the first uncovered segment is
not covered either. For `CapSustains` the invariant `CapInv` carries over from lock to
resolution what the cap was computed for (`CapKept`): all that the winners at or below the
cap are quoted fits the capacity that no withdrawal, claim or RTP change can take away.

**CasinoHouseProofs.** `HouseInv` is the types, `ExposureTracked`, `PoolCapHeld` and
`RoundsOpened` (a pool round with deposits is marked opened). Without `RoundsOpened` neither the
cap nor `ResolvedForGood` is inductive: resolving a round opens the next one by
writing a fresh record, and only `opened` keeps that from wiping deposits taken early.
`HouseTyped`, `HouseExposure` and `HousePoolCap` read the first three parts off it;
`ExposureTracked` uses `SumUpdate` at placement and settlement. `HouseCovered`
follows since one open bet's reservation is at most the sum of them all;
`HouseCoverage` and `HouseResolved` are action properties from the same invariant.
Then the bet route. `BetsImplementHouse` (`BetSpec => HouseSpec`): every step of every request is
a transaction of the contract or leaves it alone, so the contract's theorems hold under the
route. `BetInv` adds, per request, what it knows at its await (`HoldsTruth`): one whose
settlement was mined holds the payout of the chain, and one answered with a result the payout of
the row. A settlement and a recorded row are final, so what one request knows no other can
change; `ConfirmedRowsTrue` and `AnswersNeverDiffer` follow.

**CasinoTablesProofs.** The one-shot games first: for each resolver the displayed result,
remapped or not (and of dice unless rounding put the roll on its target: rounding is monotone, so it
can move a roll onto a target but not across), is evaluated by the rules to what is paid (`DiceRight`, `SlotsRight`,
`RouletteRight`, `BaccaratRight`), which gives `ShownGamesArePaid`, `BankrollGateIsExact` and
`TablesPayWithinReserve` for every stake, RTP, target, draw and capacity.
Blackjack needs an invariant on the cards. Every hand, the stored one and those that
requests carry between their claim and their save, is *drawn*: the cards on the table are
exactly the distinct cards of the seed's stream up to the cursor, and the player's lie in
it in order. Two such hands of one stream are comparable, one being a beginning of the other
(`LinesCompare`), although the requests read, claimed and wrote in any order; this is why the
compare-and-set on `actionSeq` alone is enough, and `NobodyRerolls` is that fact. `HandsUseOneDeck`
is that a draw is fresh. `HandsFollowTheirBet` needs which request owns the settlement at
each stage (`StakeInv`). `HandsCountBest` shows `handValue` to be the hard total less ten for each
of min(aces, tens above 21), by least counterexample over its softening loop.

**MarketProofs.** Nothing is assumed of the scores. Every plan, whatever it was made from, leaves
its verdict on every bet of its market (`judged`), and a pass acts on a bet only as its plan told
it. `LifeInv` says so of the rows and the ledger: a bet the contract pays was judged to win, one that
was voided to be a push, and a row says WON or LOST only as some plan judged; and of each runner at
each await, that the call or write it is about to make is in its plan, and what it has left
undone. A market is settled on chain only by a plan, and that plan judged every bet of the market
which could still be paid or returned, so a bet that is *not* paid was judged otherwise. Where the
verdicts on a bet are alike, its row and its ledger entry are therefore both what every pass agrees
on: `RowsFollowLedger`, `VerdictsStand`, `RefundsFollowLedger`, for any runners, orders, deaths and
failures. A late bet's market was settled by a plan that left it out, which counts as a verdict, and so does
a forced outcome, which judges each type it does not know to lose. `MarketsTellOneStory` is arithmetic on
scores and lines: parity of half goals excludes the pushes, and for the rest the handicap, total and
result resolvers compare the same two sums. `ParlaysFollowMarkets` needs the outcomes that plans store
to agree as well, and that each leg is of the type the contract judges by (`ResultLegs`);
without that it is false (section 4).

**LiveFeedProofs.** `InferenceInv` relates the tracking state that is stored, and the copies that
overlapping runs hold, to the history of what the scrapes listed: a tracked match has been
seen at least as often as `confirmed` claims, and missed at least as often as it counts. It
only bounds the counts from below, so a run that saves an old copy over a new one cannot break
it, whence `FeedSeenTwice` with no exception. `QuietInv` is sharper, while no run was
overtaken, died or failed to save: then there is one run at a time and the tracking state
has the score and the gap of the last polls, whence `FeedLastScore` and `FeedPublishedOnce`.

**Assumptions.** `SettlementAssumption` and `FeedAssumption` type the constants of the
settlement and the feed, and `RouteAssumption` the requests of the bet route; each is
evaluated by TLC in the runs that use it.

**Only model-checked.** The four liveness properties that hold (`RoundsEndOrAreOrphaned`,
`RowsReconciled`, `PendingResolved`, `FinishPublished`), which need ENABLED and a
well-founded argument over recursive data; and that the code refutes the three claims of
section 4. Every other property of the passing runs is a theorem.

## 6. Not modelled

- Access control, signatures and the slippage guard of the contracts: stateless checks;
  the actions are those a caller with the role can take. Re-pointing contracts
  (`setTreasury`, `setLiquidityPool`, `setBettingCore`) is a deployment step.
- Gas, reorganisations of the chain, and ERC-20 transfers that fail.
- Randomness: any draw of the enumerated sets may occur; nothing is said of
  probabilities.
- Decoding of receipts (`betVerification.ts` and its siblings): modelled by what it
  establishes, that the event is on chain; attestation, auth and rate limits
  are stateless checks of a request.
- Settlement of prediction markets, whose results come from a third party. The plan it makes
  (`planDirectOutcomeSettlement`) is modelled for the admin's override, its other caller.
- Scraping and normalisation (`packages/oracle/scripts`, `normalizers`), prematch odds,
  snapshots of fixtures and the pruning of markets: third-party data in, rows without money.
  The odds-API client with its quota manager is not started by the service.
- The bonus programme: in this version nobody can obtain a bonus. The engine wants three
  legs (`bonusEngine.ts:5-7`) and its only caller passes one (`api/bets/route.ts`);
  nothing calls `processBonusBetSettlement`. Its transitions never happen.
- The virtual liquidity store, a figure in a file that is added to what is displayed;
  the admin's deposit and withdraw routes and `manage-liquidity.ts`, one transaction
  each, which the contract models take from anyone with the role, in any order.
- `resolveCrash` of `casino.ts`: the bet route does not call it.
- The SDK, the user interface, its stores and the scripts, which hold most of the
  repository's lines: they call what is modelled and keep no state of record.

## 7. Plan

The order of work was the contracts, from the pool outwards; then the processes that
drive them, by how much money passes through: crash worker, bet route, settlement,
the feed, blackjack; and a proof of each contract's invariants once its model stood.

Done: all modules of section 2 and the proofs of section 5.

Left:

1. The prediction-market settlement as a further kind of runner, and the receipts of the crash
   worker with their status.
2. The liveness properties stay with TLC (section 5).
