------------------------------- MODULE MCCoin -------------------------------
(* A small instance of Coin: two blocks above genesis, two transfers in each. *)
EXTENDS Coin, TLC

CONSTANTS a, b, c

Transfers == Permutations({a, b, c})
=============================================================================
