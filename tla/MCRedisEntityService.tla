------------------------ MODULE MCRedisEntityService ------------------------
(* Symmetry for the model checking of RedisEntityService.                  *)
EXTENDS RedisEntityService, TLC

Symmetry ==
  Permutations(Clients) \cup Permutations(Fields) \cup Permutations(Values)
=============================================================================
