------------------------ MODULE DomainEntityService ------------------------
(***************************************************************************)
(* DomainEntityService (packages/core/src/domain/entityService): one set of*)
(* methods over a main data service and additional ones.  A call runs the  *)
(* method in the first service of its dataServices, then in the others in  *)
(* their order, each awaited; find and findOne can save what an additional *)
(* service returned.                                                       *)
(*                                                                         *)
(* A data service's own call is one step: it takes effect or throws.  An   *)
(* entity is a key and a value; filters select one key, so find and findOne*)
(* are one operation, as are create and bulkCreate.                        *)
(***************************************************************************)
EXTENDS Naturals, Sequences

CONSTANTS
  Callers,     \* concurrent callers
  Keys,        \* primary keys
  Values,      \* entity contents
  Services,    \* the data services of the entity
  Main,        \* dataEntityService
  Volatile,    \* services whose entries have a TTL
  Requests,    \* bound: what callers ask for
  MaxCalls,    \* bound: calls in a behaviour
  Faults,      \* {"throw"}: a data service's call may throw
  None         \* no entity, no service

Operations == {"create", "update", "delete", "find"}
Orders == UNION {[1 .. n -> Services] : n \in 1 .. 2}
AllRequests ==
  [op : Operations, key : Keys, value : Values \cup {None}, dataServices : Orders,
   runOnNoFirstServiceResultOnly : BOOLEAN,     \* of every additional service
   filterByFirstServiceResultFields : BOOLEAN,  \* likewise: the key is mapped to itself
   saveAdditionalResultsFrom : Services \cup {None},
   useResultsForFirstService : BOOLEAN]

ASSUME ConstantsAssumption ==
  /\ Main \in Services
  /\ Volatile \subseteq Services
  /\ Requests \subseteq AllRequests
  /\ \A r \in Requests : r.op \in {"create", "update"} => r.value # None
  /\ MaxCalls \in Nat
  /\ Faults \subseteq {"throw"}
  /\ None \notin Values \cup Services

VARIABLES
  data,         \* the entities of each service
  request,      \* the request a caller's call serves
  position,     \* the data service it awaits; 0: no call; beyond the last: the save
  firstResult,  \* what the first service returned
  results,      \* resultsByService: what each additional service returned
  outcome,      \* what the caller's last call gave it
  calls,        \* calls started
  \* history
  lastWrite,    \* what callers last wrote to each key of the main service
  seen,         \* values the main service held for the key while the call ran
  writing,      \* a write of that key ran at some time during the call
  overwritten,  \* keys where a save replaced a newer value of the main service
  unsettled     \* keys whose services were left in disagreement by a call that threw
                \* half-way or by writes that overlapped

calling == <<request, position, firstResult, results>>
vars == <<data, calling, outcome, calls, lastWrite, seen, writing, overwritten, unsettled>>

NoRequest == [op |-> "none"]
Found == Values \cup {None}

TypeOK ==
  /\ data \in [Services -> [Keys -> Found]]
  /\ request \in [Callers -> Requests \cup {NoRequest}]
  /\ position \in [Callers -> 0 .. 3]
  /\ firstResult \in [Callers -> Found]
  /\ results \in [Callers -> [Services -> Found]]
  /\ outcome \in [Callers -> Found \cup {"none", "threw"}]
  /\ calls \in 0 .. MaxCalls
  /\ lastWrite \in [Keys -> Found]
  /\ seen \in [Callers -> SUBSET Found]
  /\ writing \in [Callers -> BOOLEAN]
  /\ overwritten \in SUBSET Keys
  /\ unsettled \in SUBSET Keys

Nowhere == [s \in Services |-> None]

Init ==
  /\ data = [s \in Services |-> [k \in Keys |-> None]]
  /\ request = [c \in Callers |-> NoRequest]
  /\ position = [c \in Callers |-> 0]
  /\ firstResult = [c \in Callers |-> None]
  /\ results = [c \in Callers |-> Nowhere]
  /\ outcome = [c \in Callers |-> "none"]
  /\ calls = 0
  /\ lastWrite = [k \in Keys |-> None]
  /\ seen = [c \in Callers |-> {}]
  /\ writing = [c \in Callers |-> FALSE]
  /\ overwritten = {}
  /\ unsettled = {}

-----------------------------------------------------------------------------

Running(c) == position[c] # 0
WritesKey(c, k) == Running(c) /\ request[c].op # "find" /\ request[c].key = k

Call(c, r) ==
  /\ ~Running(c)
  /\ calls < MaxCalls
  /\ calls' = calls + 1
  /\ request' = [request EXCEPT ![c] = r]
  /\ position' = [position EXCEPT ![c] = 1]
  /\ firstResult' = [firstResult EXCEPT ![c] = None]
  /\ results' = [results EXCEPT ![c] = Nowhere]
  /\ outcome' = [outcome EXCEPT ![c] = "none"]
  /\ seen' = [seen EXCEPT ![c] = {data[Main][r.key]}]
  /\ writing' = [d \in Callers |->
                   IF d = c THEN \E e \in Callers : WritesKey(e, r.key)
                   ELSE writing[d] \/ (/\ Running(d) /\ r.op # "find"
                                       /\ request[d].key = r.key)]
  /\ unsettled' = IF r.op # "find" /\ \E d \in Callers : WritesKey(d, r.key)
                    THEN unsettled \cup {r.key} ELSE unsettled
  /\ UNCHANGED <<data, lastWrite, overwritten>>

-----------------------------------------------------------------------------
(* One data service's method.                                              *)

\* what the method leaves under the key; update and delete do not create
After(r, old) ==
  IF r.op = "create" THEN r.value
  ELSE IF r.op = "update" /\ old # None THEN r.value
  ELSE IF r.op = "delete" THEN None
  ELSE old

\* what it returns: the created entity, a count that is zero or not, the entity
Returned(r, old) == IF r.op = "create" THEN r.value ELSE old

\* the write of value new to service s, as its history records it
Put(s, k, new) ==
  /\ data' = [data EXCEPT ![s][k] = new]
  /\ seen' = [c \in Callers |->
                IF s = Main /\ Running(c) /\ request[c].key = k
                  THEN seen[c] \cup {new} ELSE seen[c]]

\* what callers last wrote to the main service, after this write to service s
Written(c, s, new) ==
  lastWrite' = IF s = Main /\ request[c].op # "find"
                 THEN [lastWrite EXCEPT ![request[c].key] = new] ELSE lastWrite

End(c, how) ==
  /\ position' = [position EXCEPT ![c] = 0]
  /\ request' = [request EXCEPT ![c] = NoRequest]
  /\ firstResult' = [firstResult EXCEPT ![c] = None]
  /\ results' = [results EXCEPT ![c] = Nowhere]
  /\ outcome' = [outcome EXCEPT ![c] = how]

\* An awaited method throws, and so does the call: the services before it keep
\* what they did, those after it are not called.
EndByThrow(c) ==
  /\ "throw" \in Faults
  /\ End(c, "threw")
  /\ unsettled' = IF request[c].op # "find" THEN unsettled \cup {request[c].key}
                  ELSE unsettled

\* it throws without having taken effect
Throw(c) ==
  /\ Running(c)
  /\ EndByThrow(c)
  /\ UNCHANGED <<data, calls, lastWrite, seen, writing, overwritten>>

-----------------------------------------------------------------------------
(* The steps of a call.                                                    *)

RunFirst(c) ==
  LET r == request[c]
      s == r.dataServices[1]
      old == data[s][r.key]
  IN /\ position[c] = 1
     /\ Put(s, r.key, After(r, old))
     /\ Written(c, s, After(r, old))
     /\ \/ /\ firstResult' = [firstResult EXCEPT ![c] = Returned(r, old)]
           /\ position' = [position EXCEPT ![c] = 2]
           /\ UNCHANGED <<request, results, outcome, unsettled>>
        \/ EndByThrow(c)
     /\ UNCHANGED <<calls, writing, overwritten>>

HasAdditional(c) == Len(request[c].dataServices) > 1

\* hasFirstServiceResult: entities were returned, or the count is not zero
HasFirstServiceResult(c) == firstResult[c] # None

\* Mutant: an update of the first service keeps the others from running.
RunsOnNoUpdateOnly(c) ==
  /\ ~(HasFirstServiceResult(c)
        /\ (request[c].runOnNoFirstServiceResultOnly \/ request[c].op = "update"))
  /\ request[c].filterByFirstServiceResultFields => HasFirstServiceResult(c)

\* Mutant: deletes stay in the first service.
RunsNoDelete(c) ==
  /\ request[c].op # "delete"
  /\ ~(request[c].runOnNoFirstServiceResultOnly /\ HasFirstServiceResult(c))
  /\ request[c].filterByFirstServiceResultFields => HasFirstServiceResult(c)

\* runMethodInAdditionalServices: by default a service runs only when the first
\* one had no result; with filterByFirstServiceResultFields only when it had one
Runs(c) ==
  /\ ~(request[c].runOnNoFirstServiceResultOnly /\ HasFirstServiceResult(c))
  /\ request[c].filterByFirstServiceResultFields => HasFirstServiceResult(c)

\* Mutant: the loop runs the last service once more.
RunAdditionalOneMore(c) ==
  LET r == request[c]
      s == r.dataServices[2]
      old == data[s][r.key]
  IN /\ position[c] \in {2, 3}
     /\ HasAdditional(c)
     /\ Runs(c)
     /\ Put(s, r.key, After(r, old))
     /\ Written(c, s, After(r, old))
     /\ results' = [results EXCEPT ![c][s] = Returned(r, old)]
     /\ position' = [position EXCEPT ![c] = @ + 1]
     /\ UNCHANGED <<request, firstResult, outcome, unsettled, calls, writing, overwritten>>

\* Mutant: what the first service returned is put into the additional one.
RunAdditionalPushes(c) ==
  LET r == request[c]
      s == r.dataServices[2]
      old == data[s][r.key]
      new == IF r.op = "find" THEN firstResult[c] ELSE After(r, old)
  IN /\ position[c] = 2
     /\ HasAdditional(c)
     /\ Runs(c)
     /\ Put(s, r.key, new)
     /\ Written(c, s, new)
     /\ results' = [results EXCEPT ![c][s] = Returned(r, old)]
     /\ position' = [position EXCEPT ![c] = 3]
     /\ UNCHANGED <<request, firstResult, outcome, unsettled, calls, writing, overwritten>>

RunAdditional(c) ==
  LET r == request[c]
      s == r.dataServices[2]
      old == data[s][r.key]
  IN /\ position[c] = 2
     /\ HasAdditional(c)
     /\ Runs(c)
     /\ Put(s, r.key, After(r, old))
     /\ Written(c, s, After(r, old))
     /\ \/ /\ results' = [results EXCEPT ![c][s] = Returned(r, old)]
           /\ position' = [position EXCEPT ![c] = 3]
           /\ UNCHANGED <<request, firstResult, outcome, unsettled>>
        \/ EndByThrow(c)
     /\ UNCHANGED <<calls, writing, overwritten>>

\* no service is left to run
AllRan(c) ==
  \/ position[c] = 3
  \/ position[c] = 2 /\ ~(HasAdditional(c) /\ Runs(c))

\* what saveAdditionalResultsInFirstService is about: the entity that the service
\* it names returned
ToSave(c) ==
  LET from == request[c].saveAdditionalResultsFrom IN
  IF request[c].op = "find" /\ from # None THEN results[c][from] ELSE None

\* the call's result: the first service's, or the additional one's if asked for
Result(c) ==
  IF request[c].useResultsForFirstService /\ ~HasFirstServiceResult(c)
    THEN ToSave(c) ELSE firstResult[c]

Return(c) ==
  /\ AllRan(c)
  /\ ToSave(c) = None
  /\ End(c, firstResult[c])
  /\ UNCHANGED <<data, calls, lastWrite, seen, writing, overwritten, unsettled>>

\* find and findOne create what the additional service returned in
\* this.dataEntityService, whichever service was the first
SaveAndReturn(c) ==
  LET k == request[c].key IN
  /\ AllRan(c)
  /\ ToSave(c) # None
  /\ Put(Main, k, ToSave(c))
  /\ overwritten' = IF data[Main][k] # ToSave(c) THEN overwritten \cup {k} ELSE overwritten
  /\ End(c, Result(c)) \/ ("throw" \in Faults /\ End(c, "threw"))
  /\ UNCHANGED <<calls, lastWrite, writing, unsettled>>

\* an entry of a service with a TTL runs out
Expire(s, k) ==
  /\ s \in Volatile
  /\ data[s][k] # None
  /\ Put(s, k, None)
  /\ UNCHANGED <<calling, outcome, calls, lastWrite, writing, overwritten, unsettled>>

Step(c) == RunFirst(c) \/ RunAdditional(c) \/ Return(c) \/ SaveAndReturn(c)

Next ==
  \/ \E c \in Callers : (\E r \in Requests : Call(c, r)) \/ Step(c) \/ Throw(c)
  \/ \E s \in Services, k \in Keys : Expire(s, k)

Spec == Init /\ [][Next]_vars

-----------------------------------------------------------------------------
(* Properties.                                                             *)

\* With writes that go to the main service and then to the others, a service
\* holds the main service's entity or none as soon as no write of the key runs;
\* the exceptions are keys on which a write threw half-way, writes overlapped, or
\* a find put an older entity back.
ServicesAgree ==
  \A k \in Keys \ (unsettled \cup overwritten) :
    (\A c \in Callers : ~WritesKey(c, k)) =>
      \A s \in Services : data[s][k] \in {None, data[Main][k]}

\* The main service holds what was last written to it: services that throw, other
\* services' entries that expire and finds that save do not undo a write, except
\* by saving an entity that was read before the write.
LastWriteStands ==
  \A k \in Keys \ overwritten : data[Main][k] = lastWrite[k]

\* what the find that a step ends gives its caller
Fresh(c) ==
  LET r == request[c] IN
  /\ Running(c) /\ ~Running(c)'
  /\ r.op = "find"
  /\ outcome'[c] # "threw"
  /\ r.key \notin unsettled \cup overwritten
  => writing[c] \/ outcome'[c] \in seen[c]

\* A find through the cache returns an entity that the main service held at some
\* time during the find, unless a write of the key ran then or earlier trouble
\* (see ServicesAgree) left the services in disagreement.
FreshReads == [][\A c \in Callers : Fresh(c)]_vars

\* saveAdditionalResultsInFirstService: when a find returns, the first service
\* holds the entity that the additional service returned.
SavedInFirstService ==
  [][\A c \in Callers :
       Running(c) /\ ~Running(c)' /\ ToSave(c) # None /\ outcome'[c] # "threw" =>
         data'[request[c].dataServices[1]][request[c].key] = ToSave(c)]_vars
=============================================================================
