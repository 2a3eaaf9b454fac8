----------------------- MODULE MCDomainEntityService -----------------------
(* Requests for the model checking of DomainEntityService.                 *)
EXTENDS DomainEntityService, TLC

CONSTANTS Cache, k1

Request(op, v, order, skip, filter, from, use) ==
  [op |-> op, key |-> k1, value |-> v, dataServices |-> order,
   runOnNoFirstServiceResultOnly |-> skip, filterByFirstServiceResultFields |-> filter,
   saveAdditionalResultsFrom |-> from, useResultsForFirstService |-> use]

\* writes to the main service and then to the cache
WriteBoth ==
  {Request(op, v, <<Main, Cache>>, FALSE, FALSE, None, FALSE) :
     op \in {"create", "update"}, v \in Values}
  \cup {Request("delete", None, <<Main, Cache>>, FALSE, FALSE, None, FALSE)}

\* the test application's find of a user: the cache, then the main service
ReadThrough == Request("find", None, <<Cache, Main>>, TRUE, FALSE, Main, TRUE)

\* the e2e test's find: the main service, then the cache for what it returned
ReadBoth == Request("find", None, <<Main, Cache>>, FALSE, TRUE, None, FALSE)

CacheRequests == WriteBoth \cup {ReadThrough, ReadBoth}

Symmetry == Permutations(Callers) \cup Permutations(Values)
=============================================================================
