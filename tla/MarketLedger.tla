---------------------------- MODULE MarketLedger ----------------------------
(***************************************************************************)
(* What the operator and the bettors can do to single bets on chain, with  *)
(* the money left out: a market is settled or cancelled once, with one     *)
(* outcome; a settlement names its winners and loses every other pending   *)
(* bet; a bet is voided only while its market is open, refunded only when  *)
(* its market is cancelled, and cashed only when it has won.               *)
(*                                                                         *)
(* BettingCore implements it; MarketSettlement runs the workers against    *)
(* it.                                                                     *)
(***************************************************************************)
EXTENDS Integers

CONSTANTS LedgerMarkets, LedgerBets

VARIABLES
    chainMarkets,    \* per market: status and winningOutcome
    chainBets        \* per bet: status and market

ledgerVars == <<chainMarkets, chainBets>>

LedgerInit ==
    /\ chainMarkets = [m \in LedgerMarkets |-> [status |-> "None", winningOutcome |-> 0]]
    /\ chainBets = [b \in LedgerBets |-> [status |-> "None", market |-> 0]]

isIn(b, m, statuses) == chainBets[b].market = m /\ chainBets[b].status \in statuses

(* Suspended markets are open here: suspension only stops placements. *)
register(S) ==
    /\ \A m \in S : chainMarkets[m].status = "None"
    /\ chainMarkets' = [m \in LedgerMarkets |->
                          IF m \in S THEN [chainMarkets[m] EXCEPT !.status = "Open"]
                                     ELSE chainMarkets[m]]
    /\ UNCHANGED chainBets

place(b, m) ==
    /\ chainBets[b].status = "None"
    /\ chainMarkets[m].status \in {"None", "Open"}
    /\ chainBets' = [chainBets EXCEPT ![b] = [status |-> "Pending", market |-> m]]
    /\ chainMarkets' = [chainMarkets EXCEPT ![m].status = "Open"]

settle(m, outcome, winners) ==
    /\ chainMarkets[m].status = "Open"
    /\ chainMarkets' = [chainMarkets EXCEPT ![m] = [status |-> "Settled",
                                                    winningOutcome |-> outcome]]
    /\ chainBets' = [b \in LedgerBets |->
                       IF b \in winners /\ isIn(b, m, {"Pending"})
                       THEN [chainBets[b] EXCEPT !.status = "Won"] ELSE chainBets[b]]

void(b) ==
    /\ chainBets[b].status = "Pending"
    /\ chainMarkets[chainBets[b].market].status = "Open"
    /\ chainBets' = [chainBets EXCEPT ![b].status = "Cancelled"]
    /\ UNCHANGED chainMarkets

cancel(m) ==
    /\ chainMarkets[m].status = "Open"
    /\ chainMarkets' = [chainMarkets EXCEPT ![m].status = "Cancelled"]
    /\ UNCHANGED chainBets

cash(b) ==
    /\ chainBets[b].status = "Won"
    /\ chainBets' = [chainBets EXCEPT ![b].status = "Cashed"]
    /\ UNCHANGED chainMarkets

refund(b) ==
    /\ chainBets[b].status = "Pending"
    /\ chainMarkets[chainBets[b].market].status = "Cancelled"
    /\ chainBets' = [chainBets EXCEPT ![b].status = "Cancelled"]
    /\ UNCHANGED chainMarkets

LedgerNext ==
    \/ \E S \in SUBSET LedgerMarkets : register(S)
    \/ \E b \in LedgerBets, m \in LedgerMarkets : place(b, m)
    \/ \E m \in LedgerMarkets, W \in SUBSET LedgerBets :
           settle(m, chainMarkets'[m].winningOutcome, W)
    \/ \E b \in LedgerBets : void(b) \/ cash(b) \/ refund(b)
    \/ \E m \in LedgerMarkets : cancel(m)

LedgerSpec == LedgerInit /\ [][LedgerNext]_ledgerVars
=============================================================================
