------------------------- MODULE RedisEntityService -------------------------
(***************************************************************************)
(* RedisEntityService and the RedisRepositoryService.save/prepare under it *)
(* (packages/data-redis/src), for an entity with one generated integer     *)
(* primary key, individual search and the default onConflict (ThrowError). *)
(*                                                                         *)
(* A call suspends at every store operation, so calls of concurrent        *)
(* clients interleave there.  A store operation is one step here: it takes *)
(* effect at one instant (RedisStore implements AtomicStore), and the code *)
(* between it and the next one reads only its answer.  A call's number     *)
(* stands for the uuid of the transaction it creates.  The store holds an  *)
(* entity under "<storeKey>-<id>"; prepare() looks for conflicts under     *)
(* "<id>", another key.                                                    *)
(***************************************************************************)
EXTENDS Naturals, FiniteSets

CONSTANTS
  Clients,      \* concurrent callers
  Fields,       \* the non-key columns
  Values,       \* their values
  MaxCalls,     \* bound: calls in a behaviour
  MaxItems,     \* bound: the increment up to which a bulkCreate generates ids
  CallerIds,    \* bound: the ids callers create, update and delete by
  UseHashmap,   \* store.set() throws after overwriting a hash field
  Faults,       \* "fail": a store command rejects; "lostReply": after taking effect
  None,         \* no entity, no value
  Untouched     \* a transaction does not write this entity

Calls == 1 .. MaxCalls
Ids == 1 .. (MaxCalls * MaxItems)

VARIABLES
  stored,        \* server: the entity under each prefixed key
  increment,     \* server: "<storeKey>-increment-<column>"
  transactions,  \* store.transactions: the writes queued under each id
  pc,            \* the store operation a client's call is suspended at
  call,          \* the number of the client's call
  req,           \* its arguments
  left,          \* items of a bulkCreate still to be saved
  item,          \* the entity being saved, and the key it is saved under
  counterRead,   \* the increment as prepare() read it
  result,        \* how each call ended
  \* history
  given,         \* how many items each generated id was given to
  staleCounter,  \* clients whose read of the increment is out of date
  staleEntity,   \* clients whose update() works on an entity written since
  racedIds,      \* an out-of-date increment was written back
  lost,          \* ids on which an out-of-date update() was written back
  expected       \* each entity as its writes, applied one by one, leave it

server == <<stored, increment>>
local == <<call, req, left, item, counterRead>>
history == <<given, staleCounter, staleEntity, racedIds, lost, expected>>
vars == <<server, transactions, pc, local, result, history>>

Contents == [Fields -> Values \cup {None}]
NoContents == [f \in Fields |-> None]
\* an entity's own primary key field, 0 when it has none, and its other fields
Entities == [id : Ids \cup {0}, fields : Contents]
ASSUME ConstantsAssumption ==
  /\ MaxCalls \in Nat \ {0}
  /\ MaxItems \in Nat \ {0}
  /\ CallerIds \subseteq Ids
  /\ UseHashmap \in BOOLEAN
  /\ Faults \subseteq {"fail", "lostReply"}
  /\ None \notin Values \cup Contents \cup Entities
  /\ None \notin [Ids -> Entities \cup {None, Untouched}]
  /\ Untouched \notin Entities \cup {None}

NoRequest == [op |-> "none", id |-> 0, data |-> NoContents, forced |-> FALSE]
NoItem == [key |-> 0, entity |-> [id |-> 0, fields |-> NoContents]]

\* lodash merge of the fields that data has
Merge(fields, data) == [f \in Fields |-> IF data[f] = None THEN fields[f] ELSE data[f]]

TypeOK ==
  /\ stored \in [Ids -> Entities \cup {None}]
  /\ increment \in Nat
  /\ transactions \in
       [Calls -> [Ids -> Entities \cup {None, Untouched}] \cup {None}]
  /\ pc \in [Clients -> {"idle", "getIncrement", "setIncrement", "check", "write",
                         "find", "remove", "exec"}]
  /\ call \in [Clients -> 0 .. MaxCalls]
  /\ req \in [Clients -> [op : {"none", "bulkCreate", "create", "update", "delete"},
                          id : Ids \cup {0}, data : Contents, forced : BOOLEAN]]
  /\ left \in [Clients -> 0 .. MaxItems]
  /\ item \in [Clients -> [key : Ids \cup {0}, entity : Entities]]
  /\ counterRead \in [Clients -> Nat]
  /\ result \in [Calls -> {"none", "running", "ok", "threw"}]
  /\ given \in [Ids -> Nat]
  /\ staleCounter \in SUBSET Clients
  /\ staleEntity \in SUBSET Clients
  /\ racedIds \in BOOLEAN
  /\ lost \in SUBSET Ids
  /\ expected \in [Ids -> Contents \cup {None}]

Init ==
  /\ stored = [i \in Ids |-> None]
  /\ increment = 0
  /\ transactions = [n \in Calls |-> None]
  /\ pc = [c \in Clients |-> "idle"]
  /\ call = [c \in Clients |-> 0]
  /\ req = [c \in Clients |-> NoRequest]
  /\ left = [c \in Clients |-> 0]
  /\ item = [c \in Clients |-> NoItem]
  /\ counterRead = [c \in Clients |-> 0]
  /\ result = [n \in Calls |-> "none"]
  /\ given = [i \in Ids |-> 0]
  /\ staleCounter = {}
  /\ staleEntity = {}
  /\ racedIds = FALSE
  /\ lost = {}
  /\ expected = [i \in Ids |-> None]

-----------------------------------------------------------------------------
(* The entity service's methods.                                           *)

\* With forceTransaction the method creates a transaction, calls itself with its
\* id and then ends it; an exception of the inner call skips the end.
Start(c, r, n, at) ==
  /\ pc[c] = "idle"
  /\ \E k \in Calls :
       /\ result[k] = "none"
       /\ \A j \in Calls : j < k => result[j] # "none"
       /\ call' = [call EXCEPT ![c] = k]
       /\ result' = [result EXCEPT ![k] = "running"]
       /\ transactions' =
            [transactions EXCEPT ![k] = IF r.forced THEN [i \in Ids |-> Untouched] ELSE None]
  /\ req' = [req EXCEPT ![c] = r]
  /\ left' = [left EXCEPT ![c] = n]
  /\ pc' = [pc EXCEPT ![c] = at]
  /\ UNCHANGED <<server, counterRead, history>>

\* entities without an id: generatePrimaryKeys is true
BulkCreate(c, data, n, forced) ==
  /\ Start(c, [op |-> "bulkCreate", id |-> 0, data |-> data, forced |-> forced],
           n, "getIncrement")
  /\ UNCHANGED item

\* an entity with its id: generatePrimaryKeys is false
Create(c, id, data, forced) ==
  /\ Start(c, [op |-> "create", id |-> id, data |-> data, forced |-> forced], 1, "check")
  /\ item' = [item EXCEPT ![c] = [key |-> id, entity |-> [id |-> id, fields |-> data]]]

Update(c, id, data, forced) ==
  /\ Start(c, [op |-> "update", id |-> id, data |-> data, forced |-> forced], 1, "find")
  /\ UNCHANGED item

Delete(c, id, forced) ==
  /\ Start(c, [op |-> "delete", id |-> id, data |-> NoContents, forced |-> forced],
           1, "find")
  /\ UNCHANGED item

-----------------------------------------------------------------------------
(* Ends of calls.                                                          *)

Return(c, how) ==
  /\ pc' = [pc EXCEPT ![c] = "idle"]
  /\ result' = [result EXCEPT ![call[c]] = how]

\* The inner call is over: return its result, or end its transaction first.
Complete(c) ==
  IF req[c].forced
    THEN pc' = [pc EXCEPT ![c] = "exec"] /\ UNCHANGED result
    ELSE Return(c, "ok")

\* an awaited command may answer, or fail although it took effect
Fails == IF "lostReply" \in Faults THEN BOOLEAN ELSE {FALSE}

-----------------------------------------------------------------------------
(* RedisRepositoryService.prepare(): the primary key.                      *)

GetIncrement(c) ==
  /\ pc[c] = "getIncrement"
  /\ counterRead' = [counterRead EXCEPT ![c] = increment]
  /\ staleCounter' = staleCounter \ {c}
  /\ pc' = [pc EXCEPT ![c] = "setIncrement"]
  /\ UNCHANGED <<server, transactions, call, req, left, item, result, given, staleEntity,
                 racedIds, lost, expected>>

\* The new id goes into the caller's object and the key; the copy that is saved
\* was cloned before and does not have it.  The counter is written with the store's
\* defaultTTL, which is assumed not to be set: a counter that runs out starts again at 0.
SetIncrement(c) ==
  LET new == counterRead[c] + 1
      overwrites == increment # 0
  IN /\ pc[c] = "setIncrement"
     /\ new \in Ids  \* bound
     /\ increment' = new
     /\ racedIds' = (racedIds \/ c \in staleCounter)
     /\ staleCounter' = {d \in Clients : pc[d] = "setIncrement" /\ d # c}
     /\ item' = [item EXCEPT ![c] =
                   [key |-> new, entity |-> [id |-> 0, fields |-> req[c].data]]]
     /\ \E failed \in Fails :
          IF failed \/ (UseHashmap /\ overwrites)
            THEN Return(c, "threw") /\ UNCHANGED given
            ELSE /\ pc' = [pc EXCEPT ![c] = "write"]
                 /\ given' = [given EXCEPT ![new] = @ + 1]
                 /\ UNCHANGED result
     /\ UNCHANGED <<stored, transactions, call, req, left, counterRead, staleEntity, lost,
                    expected>>

\* The key prepare() asks for: the id alone, under which nothing is ever saved.
ConflictKeyHolds(key) == FALSE

\* onConflict is ThrowError and all primary key values are given
Check(c) ==
  /\ pc[c] = "check"
  /\ IF ConflictKeyHolds(item[c].key)
       THEN Return(c, "threw")
       ELSE pc' = [pc EXCEPT ![c] = "write"] /\ UNCHANGED result
  /\ UNCHANGED <<server, transactions, local, history>>

-----------------------------------------------------------------------------
(* The store operations that change entities.                              *)

\* the history of an effect of client c on the entities in ids
Recorded(c, ids, deletes) ==
  LET merges == req[c].op = "update" /\ ~deletes
      stale == merges /\ c \in staleEntity
  IN /\ expected' = [i \in Ids |->
           IF i \notin ids THEN expected[i]
           ELSE IF deletes THEN None
           ELSE IF merges /\ expected[i] # None THEN Merge(expected[i], req[c].data)
           ELSE req[c].data]
     /\ lost' = {i \in lost : i \notin ids \/ merges} \cup (IF stale THEN ids ELSE {})
     /\ staleEntity' = (staleEntity \cup {d \in Clients \ {c} :
           /\ req[d].op = "update" /\ req[d].id \in ids
           /\ pc[d] \in {"check", "write", "exec"}}) \ {c}

\* Mutant: the loop over the items runs once more.
WriteOneMore(c) ==
  LET key == item[c].key IN
  /\ pc[c] = "write"
  /\ stored' = [stored EXCEPT ![key] = item[c].entity]
  /\ Recorded(c, {key}, FALSE)
  /\ left' = [left EXCEPT ![c] = @ - 1]
  /\ IF left[c] >= 1
       THEN pc' = [pc EXCEPT ![c] = "getIncrement"] /\ UNCHANGED result
       ELSE Complete(c)
  /\ UNCHANGED <<increment, transactions, call, req, item, counterRead, given,
                 staleCounter, racedIds>>

\* store.set() of one entity, then the loop's next item, which starts at `again`, or the end
WriteThen(c, again) ==
  LET key == item[c].key
      next == /\ left' = [left EXCEPT ![c] = @ - 1]
              /\ IF left[c] > 1 THEN pc' = [pc EXCEPT ![c] = again] /\ UNCHANGED result
                                ELSE Complete(c)
  IN /\ pc[c] = "write"
     /\ IF req[c].forced
          THEN /\ transactions' = [transactions EXCEPT ![call[c]][key] = item[c].entity]
               /\ next
               /\ UNCHANGED <<stored, staleEntity, lost, expected>>
          ELSE /\ stored' = [stored EXCEPT ![key] = item[c].entity]
               /\ Recorded(c, {key}, FALSE)
               /\ \E failed \in Fails :
                    IF failed \/ (UseHashmap /\ stored[key] # None)
                      THEN Return(c, "threw") /\ UNCHANGED left
                      ELSE next
               /\ UNCHANGED transactions
     /\ UNCHANGED <<increment, call, req, item, counterRead, given, staleCounter, racedIds>>

\* Mutant: the counter is read for the first item only.
WriteKeepsCounter(c) == WriteThen(c, "setIncrement")

Write(c) == WriteThen(c, "getIncrement")

\* Mutant: update() saves its data alone.
FindWithoutMerge(c) ==
  LET id == req[c].id
      found == stored[id]
  IN /\ pc[c] = "find"
     /\ IF found = None THEN Complete(c) /\ UNCHANGED item
        ELSE IF found.id = 0 THEN Return(c, "threw") /\ UNCHANGED item
        ELSE /\ item' = [item EXCEPT ![c] =
                           [key |-> id, entity |-> [id |-> id, fields |-> req[c].data]]]
             /\ pc' = [pc EXCEPT ![c] =
                         IF req[c].op = "update" THEN "check" ELSE "remove"]
             /\ UNCHANGED result
     /\ staleEntity' = staleEntity \ {c}
     /\ UNCHANGED <<server, transactions, call, req, left, counterRead, given,
                    staleCounter, racedIds, lost, expected>>

\* find() by primary key; update() saves the merged entity, delete() removes it.
\* prepare() builds the key from the entity's own id and throws when it has none.
Find(c) ==
  LET id == req[c].id
      found == stored[id]
      merged == [found EXCEPT !.fields = Merge(@, req[c].data)]
  IN /\ pc[c] = "find"
     /\ IF found = None THEN Complete(c) /\ UNCHANGED item
        ELSE IF found.id = 0 THEN Return(c, "threw") /\ UNCHANGED item
        ELSE /\ item' = [item EXCEPT ![c] = [key |-> found.id, entity |-> merged]]
             /\ pc' = [pc EXCEPT ![c] =
                         IF req[c].op = "update" THEN "check" ELSE "remove"]
             /\ UNCHANGED result
     /\ staleEntity' = staleEntity \ {c}
     /\ UNCHANGED <<server, transactions, call, req, left, counterRead, given,
                    staleCounter, racedIds, lost, expected>>

\* Mutant: the delete is not given the transaction's id.
RemoveNow(c) ==
  LET key == item[c].key IN
  /\ pc[c] = "remove"
  /\ stored' = [stored EXCEPT ![key] = None]
  /\ Recorded(c, {key}, TRUE)
  /\ Complete(c)
  /\ UNCHANGED <<increment, transactions, local, given, staleCounter, racedIds>>

\* store.delete() of the found entity's key
Remove(c) ==
  LET key == item[c].key IN
  /\ pc[c] = "remove"
  /\ IF req[c].forced
       THEN /\ transactions' = [transactions EXCEPT ![call[c]][key] = None]
            /\ Complete(c)
            /\ UNCHANGED <<stored, staleEntity, lost, expected>>
       ELSE /\ stored' = [stored EXCEPT ![key] = None]
            /\ Recorded(c, {key}, TRUE)
            /\ \E failed \in Fails : IF failed THEN Return(c, "threw") ELSE Complete(c)
            /\ UNCHANGED transactions
  /\ UNCHANGED <<increment, local, given, staleCounter, racedIds>>

\* Mutant: the entry stays in the map.
ExecKeeps(c) ==
  LET writes == transactions[call[c]]
      ids == {i \in Ids : writes[i] # Untouched}
  IN /\ pc[c] = "exec"
     /\ stored' = [i \in Ids |-> IF i \in ids THEN writes[i] ELSE stored[i]]
     /\ Recorded(c, ids, req[c].op = "delete")
     /\ Return(c, "ok")
     /\ UNCHANGED <<increment, transactions, local, given, staleCounter, racedIds>>

\* endTransaction(): exec(), then the entry leaves the map
Exec(c) ==
  LET writes == transactions[call[c]]
      ids == {i \in Ids : writes[i] # Untouched}
  IN /\ pc[c] = "exec"
     /\ stored' = [i \in Ids |-> IF i \in ids THEN writes[i] ELSE stored[i]]
     /\ Recorded(c, ids, req[c].op = "delete")
     /\ \E failed \in Fails :
          IF failed THEN Return(c, "threw") /\ UNCHANGED transactions
          ELSE /\ transactions' = [transactions EXCEPT ![call[c]] = None]
               /\ Return(c, "ok")
     /\ UNCHANGED <<increment, local, given, staleCounter, racedIds>>

\* an awaited store operation rejects without having taken effect, or validation
\* of the entity fails
Fail(c) ==
  /\ "fail" \in Faults
  /\ pc[c] # "idle"
  /\ Return(c, "threw")
  /\ UNCHANGED <<server, transactions, local, history>>

-----------------------------------------------------------------------------

Whole(v) == [f \in Fields |-> v]                          \* data of a new entity
OneField(f, v) == [NoContents EXCEPT ![f] = v]            \* data of an update

Invoke(c) ==
  \E forced \in BOOLEAN :
    \/ \E v \in Values, n \in 1 .. (MaxItems - increment) : BulkCreate(c, Whole(v), n, forced)
    \/ \E id \in CallerIds :
         \/ \E v \in Values : Create(c, id, Whole(v), forced)
         \/ \E f \in Fields, v \in Values : Update(c, id, OneField(f, v), forced)
         \/ Delete(c, id, forced)

Step(c) ==
  \/ GetIncrement(c) \/ SetIncrement(c) \/ Check(c) \/ Write(c)
  \/ Find(c) \/ Remove(c) \/ Exec(c)

Next == \E c \in Clients : Invoke(c) \/ Step(c) \/ Fail(c)

Spec == Init /\ [][Next]_vars

-----------------------------------------------------------------------------
(* Properties.                                                             *)

\* A generated integer id is given to one entity only, as long as no call wrote
\* back an increment that another had advanced since it read it (prepare() reads
\* and writes it in two commands): failures, retries and transactions that never
\* end do not make ids repeat.
UniqueIdsUnlessRaced == ~racedIds => \A i \in Ids : given[i] <= 1

\* Every entity is what its writes, applied one after the other, make of it: an
\* update() changes its own fields only.  The exception is an entity that an
\* update() saved after another call had written it since the update's find().
SerialUnlessRaced ==
  \A i \in Ids \ lost :
    IF stored[i] = None THEN expected[i] = None ELSE expected[i] = stored[i].fields

\* A call that answered has left no transaction open, and a transaction that is
\* open belongs to a call with forceTransaction that is running or threw.
TransactionsClosed ==
  \A n \in Calls : transactions[n] # None =>
    \/ result[n] = "threw"
    \/ result[n] = "running" /\ \E c \in Clients : call[c] = n /\ pc[c] # "idle" /\ req[c].forced

\* A call with forceTransaction changes entities in its exec() only: whatever its
\* inner call did or where it threw, nothing of it is visible before.
ForcedCallsWriteAtEnd ==
  [][\A c \in Clients : req[c].forced /\ pc[c] \notin {"idle", "exec"} /\ pc'[c] # pc[c] =>
       stored' = stored]_vars

\* An entity saved with a generated id contains that id.
SavedWithId == \A i \in Ids : stored[i] # None => stored[i].id = i
=============================================================================
