----------------------------- MODULE Blackjack -----------------------------
(***************************************************************************)
(* One blackjack hand on top of CasinoHouse: the routes                    *)
(* src/app/api/casino/blackjack/deal and .../action, the rules of          *)
(* src/lib/server/blackjackEngine.ts and the orchestration of              *)
(* src/lib/server/blackjackResolution.ts.                                  *)
(*                                                                         *)
(* Requests interleave at each await.  A client acts on the actionSeq of   *)
(* an answer it was given; a second tab, a refresh and a retried click are *)
(* further requests.  The HMAC stream of a seed is a member of Shoes, the  *)
(* card of each cursor in turn; the stake's bet is the contract's first.   *)
(***************************************************************************)
EXTENDS CasinoHouse, FiniteSets, Sequences

CONSTANTS
    Shoes,           \* draws a fresh server seed can determine
    NumRequests,     \* bound: requests ever made
    MaxFaults        \* bound: lost receipts and requests that die

Requests == 1..NumRequests
HandBet == 1

ASSUME BlackjackAssumption ==
    /\ Shoes \subseteq Seq(0..51)
    /\ NumRequests \in Nat
    /\ MaxFaults \in Nat
    /\ MaxBets > 0

VARIABLES
    hand,        \* the BlackjackHand row and the seed of its bet's row
    row,         \* what the CasinoBet row says of the result
    requests,    \* per request: where it is and what it holds; told and
                 \* cards stay as history, what the client was answered
    faults

handVars == <<hand, row, requests, faults>>
blackjackVars == <<houseVars, handVars>>

-----------------------------------------------------------------------------
(* blackjackEngine.ts *)

Cards(cards) == {cards[i] : i \in DOMAIN cards}

rankOf(card) == card % 13       \* 0 is an ace, 9 to 12 count ten

worth(card) ==
    CASE rankOf(card) = 0 -> 11
      [] rankOf(card) >= 9 -> 10
      [] OTHER -> rankOf(card) + 1

hardTotal(cards) == SumTo([i \in 1..Len(cards) |-> worth(cards[i])], Len(cards))
aces(cards) == {i \in DOMAIN cards : rankOf(cards[i]) = 0}

(* Variant of handValue: only one ace can count 1. *)
handValueOneAce(cards) ==
    IF hardTotal(cards) > 21 /\ aces(cards) # {} THEN hardTotal(cards) - 10 ELSE hardTotal(cards)

(* Aces turn from 11 into 1, one after the other, while the hand is bust. *)
handValue(cards) ==
    LET softened[n \in 0..Len(cards)] ==
            IF n = 0 THEN hardTotal(cards)
            ELSE IF softened[n - 1] > 21 /\ (n \in aces(cards))
                 THEN softened[n - 1] - 10 ELSE softened[n - 1]
    IN  softened[Len(cards)]

isBust(cards) == handValue(cards) > 21
isNaturalBlackjack(cards) == Len(cards) = 2 /\ handValue(cards) = 21

(* The stream still shows a card that is not on the table: a draw that      *)
(* finds none gives up and throws.                                         *)
canDraw(shoe, used, startCursor) ==
    \E c \in startCursor..(Len(shoe) - 1) : shoe[c + 1] \notin used

(* The next card of the stream that is not on the table yet. *)
drawCard(shoe, used, startCursor) ==
    LET fresh  == {c \in startCursor..(Len(shoe) - 1) : shoe[c + 1] \notin used}
        cursor == CHOOSE c \in fresh : \A d \in fresh : c <= d
    IN  [card |-> shoe[cursor + 1], nextCursor |-> cursor + 1]

canDeal(shoe) == Cardinality(Cards(shoe)) >= 4

(* Player, dealer, player, dealer. *)
dealInitial(shoe) ==
    LET p1 == drawCard(shoe, {}, 0)
        d1 == drawCard(shoe, {p1.card}, p1.nextCursor)
        p2 == drawCard(shoe, {p1.card, d1.card}, d1.nextCursor)
        d2 == drawCard(shoe, {p1.card, d1.card, p2.card}, p2.nextCursor)
    IN  [player |-> <<p1.card, p2.card>>, dealer |-> <<d1.card, d2.card>>,
         cursor |-> d2.nextCursor]

(* Variant of playDealer: the player's cards are not set aside. *)
playDealerOwnCardsOnly(shoe, dealer, player, startCursor) ==
    LET played[n \in 0..10] ==
            IF n = 0 THEN [cards |-> dealer, cursor |-> startCursor]
            ELSE LET now  == played[n - 1]
                     used == Cards(now.cards)
                     draw == drawCard(shoe, used, now.cursor)
                 IN  IF handValue(now.cards) < 17 /\ canDraw(shoe, used, now.cursor)
                     THEN [cards |-> Append(now.cards, draw.card), cursor |-> draw.nextCursor]
                     ELSE now
    IN  played[10].cards

(* The dealer hits below 17; ten hits are enough for every hand, and one    *)
(* that still stands below 17 has no card left to draw.                    *)
playDealer(shoe, dealer, player, startCursor) ==
    LET played[n \in 0..10] ==
            IF n = 0 THEN [cards |-> dealer, cursor |-> startCursor]
            ELSE LET now  == played[n - 1]
                     used == Cards(now.cards) \cup Cards(player)
                     draw == drawCard(shoe, used, now.cursor)
                 IN  IF handValue(now.cards) < 17 /\ canDraw(shoe, used, now.cursor)
                     THEN [cards |-> Append(now.cards, draw.card), cursor |-> draw.nextCursor]
                     ELSE now
    IN  played[10].cards

evaluateHand(player, dealer) ==
    CASE isBust(player) -> "dealer_win"
      [] ~isBust(player) /\ isNaturalBlackjack(player) ->
            IF isNaturalBlackjack(dealer) THEN "push" ELSE "player_blackjack"
      [] ~isBust(player) /\ ~isNaturalBlackjack(player) ->
            IF isNaturalBlackjack(dealer) THEN "dealer_win"
            ELSE IF isBust(dealer) \/ handValue(player) > handValue(dealer) THEN "player_win"
            ELSE IF handValue(player) < handValue(dealer) THEN "dealer_win"
            ELSE "push"

multiplierX100 == [player_blackjack |-> 250, player_win |-> 200, push |-> 100, dealer_win |-> 0]

-----------------------------------------------------------------------------
(* The rows *)

NoHand == [status |-> "None", actionSeq |-> 0, shoe |-> <<>>, cursor |-> 0,
           player |-> <<>>, dealer |-> <<>>]
NoRow == [status |-> "None", payout |-> 0, confirmed |-> FALSE, player |-> <<>>, dealer |-> <<>>]

(* `seen` is the hand as read before the claim; player, dealer and cursor   *)
(* are what the request goes on with.                                      *)
NoRequest == [pc |-> "Idle", action |-> "None", seq |-> 0, claimed |-> FALSE, seen |-> NoHand,
              player |-> <<>>, dealer |-> <<>>, cursor |-> 0, asked |-> 0, paid |-> 0,
              confirmed |-> FALSE, told |-> "Nothing"]

BlackjackInit ==
    /\ HouseInit
    /\ hand = NoHand
    /\ row = NoRow
    /\ requests = [q \in Requests |-> NoRequest]
    /\ faults = 0

(* What is left of a request once it is answered: a claimed action was told *)
(* the actionSeq after its own.                                            *)
answered(r, told, seq, cards) ==
    [NoRequest EXCEPT !.pc = "Done", !.action = r.action, !.claimed = r.claimed, !.told = told,
                      !.seq = IF r.claimed THEN r.seq ELSE seq, !.player = cards]

toldSeq(r) == IF r.claimed THEN r.seq + 1 ELSE r.seq

shownAs(r, h) == answered(r, h.status, h.actionSeq, h.player)

becomes(q, r) == requests' = [requests EXCEPT ![q] = r]

-----------------------------------------------------------------------------
(* finishBlackjackHand, up to its first await *)

payoutOf(outcome) == (bets[HandBet].amount * multiplierX100[outcome]) \div 100

(* A natural waits for the capacity to be read; everything else is asked   *)
(* for as the rules have it.  A dealer who runs out of cards throws.       *)
finishing(r, shoe, player, dealer, cursor) ==
    LET played  == IF isBust(player) THEN dealer ELSE playDealer(shoe, dealer, player, cursor)
        outcome == evaluateHand(player, played)
    IN  IF ~isBust(player) /\ handValue(played) < 17
        THEN answered(r, "Error", 0, <<>>)
        ELSE [r EXCEPT !.pc = IF outcome = "player_blackjack" THEN "Gating" ELSE "Submitting",
                       !.player = player, !.dealer = played, !.asked = payoutOf(outcome),
                       !.seen = NoHand]

-----------------------------------------------------------------------------
(* The deal route *)

nextRequest(q) ==
    /\ requests[q].pc = "Idle"
    /\ \A r \in Requests : r < q => requests[r].pc # "Idle"

(* verifyCasinoBetPlaced found the receipt: a new hand, a refresh, a retry. *)
askDeal(q) ==
    /\ nextRequest(q)
    /\ bets[HandBet].status # "None"
    /\ becomes(q, [NoRequest EXCEPT !.pc = "Reading", !.action = "deal"])
    /\ UNCHANGED <<houseVars, hand, row, faults>>

resumeOrDeal(q) ==
    /\ requests[q].pc = "Reading" /\ requests[q].action = "deal"
    /\ becomes(q, IF hand.status # "None" THEN shownAs(requests[q], hand)
                  ELSE [requests[q] EXCEPT !.pc = "Dealing"])
    /\ UNCHANGED <<houseVars, hand, row, faults>>

(* Variant of deal: requestId is not unique, the later deal wins. *)
dealAgain(q, shoe) ==
    LET dealt == dealInitial(shoe)
        fresh == [NoHand EXCEPT !.status = "player_turn", !.shoe = shoe, !.player = dealt.player,
                                !.dealer = dealt.dealer, !.cursor = dealt.cursor]
    IN  /\ requests[q].pc = "Dealing" /\ canDeal(shoe)
        /\ hand' = fresh
        /\ row' = [NoRow EXCEPT !.status = "PENDING"]
        /\ becomes(q, IF isNaturalBlackjack(dealt.player)
                      THEN finishing(requests[q], shoe, dealt.player, dealt.dealer, dealt.cursor)
                      ELSE shownAs(requests[q], fresh))
        /\ UNCHANGED <<houseVars, faults>>

(* One transaction creates both rows, and fails if the requestId has a row; *)
(* a seed that does not deal four cards throws before it.                  *)
(* A natural is finished at once, the hand being open to actions meanwhile. *)
deal(q, shoe) ==
    LET dealt == dealInitial(shoe)
        fresh == [NoHand EXCEPT !.status = "player_turn", !.shoe = shoe, !.player = dealt.player,
                                !.dealer = dealt.dealer, !.cursor = dealt.cursor]
    IN  /\ requests[q].pc = "Dealing"
        /\ IF hand.status # "None" \/ ~canDeal(shoe)
           THEN /\ becomes(q, answered(requests[q], "Error", 0, <<>>))
                /\ UNCHANGED <<hand, row>>
           ELSE /\ hand' = fresh
                /\ row' = [NoRow EXCEPT !.status = "PENDING"]
                /\ becomes(q, IF isNaturalBlackjack(dealt.player)
                              THEN finishing(requests[q], shoe, dealt.player, dealt.dealer,
                                             dealt.cursor)
                              ELSE shownAs(requests[q], fresh))
        /\ UNCHANGED <<houseVars, faults>>

-----------------------------------------------------------------------------
(* The action route *)

askAction(q, action) ==
    /\ nextRequest(q)
    /\ \E r \in Requests :
          /\ requests[r].told = "player_turn"
          /\ becomes(q, [NoRequest EXCEPT !.pc = "Reading", !.action = action,
                                          !.seq = toldSeq(requests[r])])
    /\ UNCHANGED <<houseVars, hand, row, faults>>

readHand(q) ==
    /\ requests[q].pc = "Reading" /\ requests[q].action # "deal"
    /\ becomes(q, IF hand.status = "resolved" THEN shownAs(requests[q], hand)
                  ELSE [requests[q] EXCEPT !.pc = "Claiming", !.seen = hand])
    /\ UNCHANGED <<houseVars, hand, row, faults>>

(* What a claimed request does next: it goes on from the hand it read.     *)
acting(r) ==
    LET h    == r.seen
        used == Cards(h.player) \cup Cards(h.dealer)
        draw == drawCard(h.shoe, used, h.cursor)
        more == Append(h.player, draw.card)
    IN  IF r.action = "stand" THEN finishing(r, h.shoe, h.player, h.dealer, h.cursor)
        ELSE IF ~canDraw(h.shoe, used, h.cursor) THEN answered(r, "Error", 0, <<>>)
        ELSE IF isBust(more) THEN finishing(r, h.shoe, more, h.dealer, draw.nextCursor)
        ELSE [r EXCEPT !.pc = "Saving", !.player = more, !.cursor = draw.nextCursor,
                       !.seen = NoHand]

(* updateMany under actionSeq and status: a compare-and-set on the sequence *)
(* number alone, the cards having been read before.                        *)
claim(q) ==
    /\ requests[q].pc = "Claiming"
    /\ IF hand.actionSeq = requests[q].seq /\ hand.status = "player_turn"
       THEN /\ hand' = [hand EXCEPT !.actionSeq = @ + 1]
            /\ becomes(q, acting([requests[q] EXCEPT !.claimed = TRUE]))
       ELSE /\ becomes(q, answered(requests[q], "Conflict", 0, <<>>))
            /\ UNCHANGED hand
    /\ UNCHANGED <<houseVars, row, faults>>

(* Variant of saveHit: the whole row is written, the status with it. *)
saveHitAndStatus(q) ==
    LET r == requests[q] IN
        /\ r.pc = "Saving"
        /\ hand' = [hand EXCEPT !.cursor = r.cursor, !.player = r.player, !.status = "player_turn"]
        /\ becomes(q, answered(r, "player_turn", 0, r.player))
        /\ UNCHANGED <<houseVars, row, faults>>

saveHit(q) ==
    LET r == requests[q] IN
        /\ r.pc = "Saving"
        /\ hand' = [hand EXCEPT !.cursor = r.cursor, !.player = r.player]
        /\ becomes(q, answered(r, "player_turn", 0, r.player))
        /\ UNCHANGED <<houseVars, row, faults>>

-----------------------------------------------------------------------------
(* The rest of finishBlackjackHand *)

(* Only the 3:2 bonus is gated, never the win. *)
gateBonus(q) ==
    /\ requests[q].pc = "Gating"
    /\ becomes(q, [requests[q] EXCEPT !.pc = "Submitting",
          !.asked = IF (bets[HandBet].amount * 3) \div 2 > availableCapacityFor(HandBet)
                    THEN payoutOf("player_win") ELSE @])
    /\ UNCHANGED <<houseVars, hand, row, faults>>

(* The gas estimate reverts for a settled bet: taken for a replay, thrown.  *)
submit(q) ==
    /\ requests[q].pc = "Submitting"
    /\ becomes(q, IF bets[HandBet].status = "Placed" THEN [requests[q] EXCEPT !.pc = "Sent"]
                  ELSE answered(requests[q], "Error", 0, <<>>))
    /\ UNCHANGED <<houseVars, hand, row, faults>>

minedSettled(q) ==
    /\ requests[q].pc = "Sent"
    /\ settleGame(HandBet, requests[q].asked)
    /\ becomes(q, [requests[q] EXCEPT !.pc = "Persisting", !.confirmed = TRUE,
                                      !.paid = bets'[HandBet].payout])
    /\ UNCHANGED <<hand, row, faults>>

(* Mined as a revert: no event, and an error that is not taken for a       *)
(* replay, so that the hand is recorded with the payout asked for.         *)
minedReverted(q) ==
    /\ requests[q].pc = "Sent"
    /\ bets[HandBet].status # "Placed"
    /\ becomes(q, [requests[q] EXCEPT !.pc = "Persisting", !.confirmed = FALSE,
                                      !.paid = requests[q].asked])
    /\ UNCHANGED <<houseVars, hand, row, faults>>

(* One transaction closes both rows, whatever happened to them since.      *)
persist(q) ==
    LET r == requests[q] IN
        /\ r.pc = "Persisting"
        /\ row' = [status |-> IF r.paid > 0 THEN "WON" ELSE "LOST", payout |-> r.paid,
                   confirmed |-> r.confirmed, player |-> r.player, dealer |-> r.dealer]
        /\ hand' = [hand EXCEPT !.status = "resolved", !.dealer = r.dealer]
        /\ becomes(q, answered(r, "resolved", hand.actionSeq, r.player))
        /\ UNCHANGED <<houseVars, faults>>

-----------------------------------------------------------------------------
(* Faults, and the contract's other callers *)

die(q) ==
    /\ faults < MaxFaults
    /\ requests[q].pc \notin {"Idle", "Done"}
    /\ becomes(q, answered(requests[q], "Error", 0, <<>>))
    /\ faults' = faults + 1
    /\ UNCHANGED <<houseVars, hand, row>>

(* Mined, but the error names a hash and is taken for a replay. *)
receiptLost(q) ==
    /\ faults < MaxFaults
    /\ requests[q].pc = "Sent"
    /\ settleGame(HandBet, requests[q].asked)
    /\ becomes(q, answered(requests[q], "Error", 0, <<>>))
    /\ faults' = faults + 1
    /\ UNCHANGED <<hand, row>>

bankrollMoves ==
    /\ \/ \E a \in StakeChoices, g \in Games : placeCasinoBet(HandBet, a, g)
       \/ \E a \in BankrollChoices : depositBankroll(a)
       \/ \E a \in BankrollChoices : withdrawBankroll(a)
    /\ UNCHANGED handVars

BlackjackNext ==
    \/ bankrollMoves
    \/ \E q \in Requests : askDeal(q)
    \/ \E q \in Requests : resumeOrDeal(q)
    \/ \E q \in Requests, shoe \in Shoes : deal(q, shoe)
    \/ \E q \in Requests, action \in {"hit", "stand"} : askAction(q, action)
    \/ \E q \in Requests : readHand(q)
    \/ \E q \in Requests : claim(q)
    \/ \E q \in Requests : saveHit(q)
    \/ \E q \in Requests : gateBonus(q)
    \/ \E q \in Requests : submit(q)
    \/ \E q \in Requests : minedSettled(q)
    \/ \E q \in Requests : minedReverted(q)
    \/ \E q \in Requests : persist(q)
    \/ \E q \in Requests : die(q)
    \/ \E q \in Requests : receiptLost(q)

BlackjackSpec == BlackjackInit /\ [][BlackjackNext]_blackjackVars

-----------------------------------------------------------------------------
(* Properties *)

isPrefix(s, t) == Len(s) <= Len(t) /\ \A i \in DOMAIN s : s[i] = t[i]

(* No card is ever drawn again for a better one: however deals, refreshes,  *)
(* double clicks and stale reads interleave, and after a death, any two    *)
(* answers and the recorded result show the same cards as far as both go.  *)
NoReroll ==
    LET shown == {requests[q].player : q \in Requests} \cup {row.player, hand.player}
    IN  \A s, t \in shown : isPrefix(s, t) \/ isPrefix(t, s)

(* The hand a bet was settled on was played with one deck: no card is in it *)
(* twice, although hits, the dealer and retries draw at cursors of their   *)
(* own.                                                                    *)
OneDeck ==
    \A i, j \in 1..Len(row.player \o row.dealer) :
        (row.player \o row.dealer)[i] = (row.player \o row.dealer)[j] => i = j

(* The hand, the row and the stake end together, although the chain and the *)
(* database are written one after the other by requests that overtake each *)
(* other: the hand is resolved just when its row has a result, then its    *)
(* bet is settled on chain for good, and a row with its settlement's       *)
(* transaction shows what reached the wallet.  While no request died or    *)
(* lost its receipt, the hand of a settled bet is resolved or about to be: *)
(* nobody is left with an open hand that can only fail.                    *)
HandFollowsBet ==
    /\ hand.status = "resolved" <=> row.status \in {"WON", "LOST"}
    /\ hand.status = "resolved" => bets[HandBet].status = "Settled"
    /\ row.confirmed => row.payout = bets[HandBet].payout
    /\ faults = 0 /\ bets[HandBet].status = "Settled" =>
          hand.status = "resolved" \/ \E q \in Requests : requests[q].pc = "Persisting"

(* What a hand can count: any choice of its aces at 1, the others at 11.   *)
totals(cards) == {hardTotal(cards) - 10 * n : n \in 0..Cardinality(aces(cards))}

(* Every hand on the table counts the most it can without going over 21,   *)
(* and goes over only if it must, however many of its cards are aces.      *)
BestTotal ==
    \A cards \in {hand.player, hand.dealer, row.player, row.dealer} :
        /\ handValue(cards) \in totals(cards)
        /\ \A t \in totals(cards) : t <= 21 => handValue(cards) \in t..21

=============================================================================
