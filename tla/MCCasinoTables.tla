--------------------------- MODULE MCCasinoTables ---------------------------
(* One natural slot row for every multiplier a cherry, a seven and the     *)
(* wild can make, and a losing one that a wild would complete.  Seeds that *)
(* deal nothing, small cards and no more, a natural, two naturals, small   *)
(* cards that come up again, and aces.                                     *)
EXTENDS CasinoTables

(* Every half point, and around the targets what rounds onto them and what *)
(* just does not.                                                          *)
RollsTried == {500 * n : n \in 0..199}
              \cup {1000 * t + d : t \in Targets, d \in {-6, -5, -4, -1, 1, 4, 5, 6}}
              \cup {99995, 99999}

SomeRows == {<<0, 1, 0, 0, 0>>, <<0, 0, 6, 1, 1>>, <<1, 1, 6, 1, 0>>, <<5, 5, 5, 5, 5>>,
             <<6, 6, 6, 6, 6>>}

SomeShoes == {<<0, 5, 0>>,
              <<2, 4, 15, 5, 2, 15>>,
              <<0, 5, 12, 8, 20, 2, 33>>,
              <<0, 13, 12, 25, 9, 10>>,
              <<2, 4, 15, 5, 2, 4, 30, 9, 22, 11, 35, 36>>,
              <<13, 0, 26, 17, 39, 26, 7, 25, 12, 21, 11, 35>>}

BlackjackMultiplier == [g \in Games |-> 250]
=============================================================================
