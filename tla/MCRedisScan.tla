----------------------------- MODULE MCRedisScan -----------------------------
(* A small table for the model checking of RedisScan.                      *)
EXTENDS RedisScan, TLC

CONSTANTS k1, k2, k3

TwoBuckets == (k1 :> 0) @@ (k2 :> 0) @@ (k3 :> 1)
Lists == {<<k1, k2, k3>>, <<k3, k1>>}
=============================================================================
