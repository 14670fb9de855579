----------------------------- MODULE BetEscrow -----------------------------
(***************************************************************************)
(* What a bettor is promised, without pools, locks, ratios or markets:     *)
(* each ticket, a single bet or a parlay, is a stake held in escrow that   *)
(* is resolved once and paid at most once.  A refund returns exactly the   *)
(* stake; a win pays at least the stake and at most the quoted payout; a   *)
(* loser is paid nothing.  A settlement may resolve several tickets in one *)
(* step, and the amount of a win is fixed by the time it is paid.          *)
(***************************************************************************)
EXTENDS Integers

CONSTANT Tickets

VARIABLE ticket     \* per ticket: state, stake, quoted payout, USDC paid

Init == ticket = [i \in Tickets |->
                    [state |-> "None", stake |-> 0, quoted |-> 0, paid |-> 0]]

(* The life of one ticket, t before and u after: a step only moves it one  *)
(* place forward.                                                          *)
Buys(t, u) ==
    /\ t.state = "None"
    /\ u.state = "Staked"
    /\ u.stake > 0
    /\ u.quoted >= u.stake
    /\ u.paid = 0

Resolves(t, u) ==
    /\ t.state = "Staked"
    /\ u.state \in {"Won", "Lost"}
    /\ u = [t EXCEPT !.state = u.state]

Refunds(t, u) ==
    /\ t.state = "Staked"
    /\ u = [t EXCEPT !.state = "Refunded", !.paid = t.stake]

Pays(t, u) ==
    /\ t.state = "Won"
    /\ u.state = "Paid"
    /\ t.stake <= u.paid /\ u.paid <= t.quoted
    /\ u = [t EXCEPT !.state = "Paid", !.paid = u.paid]

Next ==
    \A i \in Tickets :
        LET t == ticket[i]
            u == ticket'[i]
        IN  \/ u = t
            \/ Buys(t, u)
            \/ Resolves(t, u)
            \/ Refunds(t, u)
            \/ Pays(t, u)

Spec == Init /\ [][Next]_ticket
=============================================================================
