---------------------------- MODULE MCCasinoBets ----------------------------
(* One game whose reservation is three times the stake. *)
EXTENDS CasinoBets

SmallMultipliers == [g \in Games |-> 300]
=============================================================================
