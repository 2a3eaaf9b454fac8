---------------------------- MODULE MCRedisStore ----------------------------
(* Bounds and symmetry for the model checking of RedisStore.               *)
EXTENDS RedisStore, TLC

Symmetry == Permutations(Clients) \cup Permutations(Handles)
              \cup Permutations(Values) \cup Permutations(Transactions)
=============================================================================
