--------------------------- MODULE MCUserRouting ---------------------------
(* TLC instance of UserRouting: two networks of one node each.      *)
EXTENDS UserRouting

CONSTANTS w1, t1, warpnet, testnet

MCNetOf == [m \in Node |-> IF m = t1 THEN testnet ELSE warpnet]
=============================================================================
