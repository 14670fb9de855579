---------------------------- MODULE CasinoTables ----------------------------
(***************************************************************************)
(* The house's tables: a behaviour is one call of a resolver of            *)
(* CasinoGames, or one hand of Blackjack with its requests.                *)
(***************************************************************************)
EXTENDS CasinoGames, Blackjack

TablesInit == Init /\ BlackjackInit

instantGame == BlackjackInit /\ Next /\ UNCHANGED blackjackVars
blackjackHand == result = NoResult /\ BlackjackNext /\ UNCHANGED result

TablesNext == instantGame \/ blackjackHand

TablesSpec == TablesInit /\ [][TablesNext]_<<result, blackjackVars>>
=============================================================================
