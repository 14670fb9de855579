--------------------------- MODULE MCBettingCore ---------------------------
(* Values for the constants of BettingCore that a .cfg cannot write. *)
EXTENDS BettingCore

SomeLimits == {<<20, 40>>}
=============================================================================
