-------------------------------- MODULE Sums --------------------------------
(***************************************************************************)
(* Sums over an integer-valued function whose domain contains 1..n: the    *)
(* loops of the contracts that add up the amounts of a list of bets, and   *)
(* the totals the invariants compare the contracts' own counters with.     *)
(* Written as a recursive function on 0..n, so that facts about it can be  *)
(* proved (SumsProofs).                                                    *)
(***************************************************************************)
EXTENDS Integers

RunningSum(f, n) ==
    LET r[i \in 0..n] == IF i = 0 THEN 0 ELSE r[i - 1] + f[i] IN r

(* f[1] + ... + f[n] *)
SumTo(f, n) == RunningSum(f, n)[n]
=============================================================================
