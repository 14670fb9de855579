----------------------------- MODULE CasinoBets -----------------------------
(***************************************************************************)
(* src/app/api/casino/bet/route.ts on top of CasinoHouse: the requests     *)
(* that resolve a placed bet, settle it on chain through                   *)
(* src/lib/server/casinoOnchain.ts and record it as a CasinoBet row.       *)
(*                                                                         *)
(* Requests run concurrently and interleave at each await.  A request may  *)
(* name a bet another request is working on: a double click, a retry.  The *)
(* route's natural draw and its capacity gate (CasinoGames) are reduced to *)
(* a payout.  Blackjack and dev mode (no contract) are left out.           *)
(***************************************************************************)
EXTENDS CasinoHouse

CONSTANTS
    NumRequests,     \* bound: requests ever made
    MaxFaults        \* bound: lost receipts and requests that die

Requests == 1..NumRequests

(* Every game can be lost: a draw beyond the capacity is replaced by a     *)
(* losing one, which is settled with 0.                                    *)
ASSUME RouteAssumption ==
    /\ NumRequests \in Nat
    /\ MaxFaults \in Nat
    /\ 0 \in Payouts

VARIABLES
    requests,    \* per request: where it is and what it holds; answer is
                 \* history, what the client was told
    rows,        \* CasinoBet rows, by requestId (unique in the schema)
    faults

routeVars == <<requests, rows, faults>>
betVars == <<houseVars, routeVars>>

NoRequest == [pc |-> "Idle", bet |-> 0, outcome |-> 0, finalPayout |-> 0,
              confirmed |-> FALSE, answer |-> "None"]
NoRow == [exists |-> FALSE, payout |-> 0, confirmed |-> FALSE]

BetInit ==
    /\ HouseInit
    /\ requests = [q \in Requests |-> NoRequest]
    /\ rows = [b \in BetIds |-> NoRow]
    /\ faults = 0

-----------------------------------------------------------------------------
(* The route, from await to await *)

betOf(q) == requests[q].bet

(* verifyCasinoBetPlaced found the bet's receipt. *)
receive(q, b) ==
    /\ requests[q].pc = "Idle"
    /\ \A r \in Requests : r < q => requests[r].pc # "Idle"
    /\ bets[b].status # "None"
    /\ requests' = [requests EXCEPT ![q] = [NoRequest EXCEPT !.pc = "Checking", !.bet = b]]
    /\ UNCHANGED <<houseVars, rows, faults>>

(* The idempotency guard: an existing row is the answer. *)
checkExisting(q) ==
    /\ requests[q].pc = "Checking"
    /\ requests' = [requests EXCEPT ![q] =
          IF rows[betOf(q)].exists
          THEN [requests[q] EXCEPT !.pc = "Done", !.answer = "Result",
                         !.finalPayout = rows[betOf(q)].payout]
          ELSE [requests[q] EXCEPT !.pc = "Reading"]]
    /\ UNCHANGED <<houseVars, rows, faults>>

(* The natural outcome, or 0 when its deficit is beyond the capacity read. *)
gated(natural, amount, capacity) ==
    IF natural - amount > capacity THEN 0 ELSE natural

readCapacityAndResolve(q, natural) ==
    /\ requests[q].pc = "Reading"
    /\ requests' = [requests EXCEPT ![q] =
          [requests[q] EXCEPT !.pc = "Submitting",
                    !.outcome = gated(natural, bets[betOf(q)].amount,
                                      availableCapacityFor(betOf(q)))]]
    /\ UNCHANGED <<houseVars, rows, faults>>

(* writeContract estimates gas first, which reverts for a settled bet: the  *)
(* request ends with 409 and records nothing.                              *)
submit(q) ==
    /\ requests[q].pc = "Submitting"
    /\ requests' = [requests EXCEPT ![q] =
          IF bets[betOf(q)].status = "Placed"
          THEN [requests[q] EXCEPT !.pc = "Sent"]
          ELSE [requests[q] EXCEPT !.pc = "Done", !.answer = "AlreadySettled"]]
    /\ UNCHANGED <<houseVars, rows, faults>>

(* Variant of minedSettled: the payout asked for is recorded, not the one  *)
(* decoded from the event.                                                 *)
minedSettledAsAsked(q) ==
    /\ requests[q].pc = "Sent"
    /\ settleGame(betOf(q), requests[q].outcome)
    /\ requests' = [requests EXCEPT ![q] =
          [requests[q] EXCEPT !.pc = "Persisting", !.finalPayout = requests[q].outcome,
                    !.confirmed = TRUE]]
    /\ UNCHANGED <<rows, faults>>

minedSettled(q) ==
    /\ requests[q].pc = "Sent"
    /\ settleGame(betOf(q), requests[q].outcome)
    /\ requests' = [requests EXCEPT ![q] =
          [requests[q] EXCEPT !.pc = "Persisting", !.finalPayout = bets'[betOf(q)].payout,
                    !.confirmed = TRUE]]
    /\ UNCHANGED <<rows, faults>>

(* Mined but reverted: the receipt has no GameSettled event, and the error  *)
(* thrown for that carries no cause, so it is not taken for                *)
(* BetAlreadySettled and the route goes on to record its own outcome.      *)
minedReverted(q) ==
    /\ requests[q].pc = "Sent"
    /\ bets[betOf(q)].status # "Placed"
    /\ requests' = [requests EXCEPT ![q] =
          [requests[q] EXCEPT !.pc = "Persisting", !.finalPayout = requests[q].outcome,
                    !.confirmed = FALSE]]
    /\ UNCHANGED <<houseVars, rows, faults>>

(* Variant of persist: requestId is not unique. *)
persistNotUnique(q) ==
    LET b == betOf(q) IN
        /\ requests[q].pc = "Persisting"
        /\ rows' = [rows EXCEPT ![b] = [exists |-> TRUE,
                                             payout |-> requests[q].finalPayout,
                                             confirmed |-> requests[q].confirmed]]
        /\ requests' = [requests EXCEPT ![q].pc = "Done",
                          ![q].answer = "Result"]
        /\ UNCHANGED <<houseVars, faults>>

(* The row's requestId is unique: a second create throws (500). *)
persist(q) ==
    LET b == betOf(q) IN
        /\ requests[q].pc = "Persisting"
        /\ rows' = IF rows[b].exists THEN rows
                   ELSE [rows EXCEPT ![b] = [exists |-> TRUE,
                                             payout |-> requests[q].finalPayout,
                                             confirmed |-> requests[q].confirmed]]
        /\ requests' = [requests EXCEPT ![q].pc = "Done",
                          ![q].answer = IF rows[b].exists THEN "Error" ELSE "Result"]
        /\ UNCHANGED <<houseVars, faults>>

-----------------------------------------------------------------------------
(* Faults: the process dies during a request; the settlement is mined but  *)
(* its receipt is not seen, an error that names the hash and so is taken   *)
(* for BetAlreadySettled.                                                  *)
die(q) ==
    /\ faults < MaxFaults
    /\ requests[q].pc \notin {"Idle", "Done"}
    /\ requests' = [requests EXCEPT ![q].pc = "Done", ![q].answer = "Error"]
    /\ faults' = faults + 1
    /\ UNCHANGED <<houseVars, rows>>

receiptLost(q) ==
    /\ faults < MaxFaults
    /\ requests[q].pc = "Sent"
    /\ settleGame(betOf(q), requests[q].outcome)
    /\ requests' = [requests EXCEPT ![q].pc = "Done", ![q].answer = "AlreadySettled"]
    /\ faults' = faults + 1
    /\ UNCHANGED rows

elsewhere ==
    /\ \/ \E b \in BetIds, a \in StakeChoices, g \in Games : placeCasinoBet(b, a, g)
       \/ \E r \in RoundIds, a \in StakeChoices : joinPoolRound(r, a)
       \/ \E r \in RoundIds, paid \in PoolPayouts : resolvePoolRound(r, paid)
       \/ houseAdmin
    /\ UNCHANGED routeVars

BetNext ==
    \/ elsewhere
    \/ \E q \in Requests, b \in BetIds : receive(q, b)
    \/ \E q \in Requests : checkExisting(q)
    \/ \E q \in Requests, natural \in Payouts : readCapacityAndResolve(q, natural)
    \/ \E q \in Requests : submit(q)
    \/ \E q \in Requests : minedSettled(q)
    \/ \E q \in Requests : minedReverted(q)
    \/ \E q \in Requests : persist(q)
    \/ \E q \in Requests : die(q)
    \/ \E q \in Requests : receiptLost(q)

BetSpec == BetInit /\ [][BetNext]_betVars

-----------------------------------------------------------------------------
(* Properties *)

(* A row that carries a settlement's transaction shows what the player's   *)
(* wallet received, after the balance clamp, whatever the other requests   *)
(* for the bet were doing meanwhile.                                       *)
ConfirmedRowTrue ==
    \A b \in BetIds : rows[b].confirmed =>
        bets[b].status = "Settled" /\ rows[b].payout = bets[b].payout

(* However often a bet is submitted, every request that is answered with a *)
(* result is answered with the same one: no re-roll is ever shown.         *)
AnswersAgree ==
    \A q, r \in Requests :
        requests[q].answer = "Result" /\ requests[r].answer = "Result" /\ betOf(q) = betOf(r)
            => requests[q].finalPayout = requests[r].finalPayout
=============================================================================
