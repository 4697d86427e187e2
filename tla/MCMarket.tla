---------------------------- MODULE MCMarket ----------------------------
(* A character that buys and one that sells.                               *)
EXTENDS Market, TLC

CONSTANTS a, b

StartOf == a :> [cash |-> 0, bank |-> 2, goods |-> 0] @@ b :> [cash |-> 1, bank |-> 0, goods |-> 2]

=========================================================================
