---------------------- MODULE RedisEntityServiceProofs ----------------------
(***************************************************************************)
(* Proofs about RedisEntityService for any number of clients, fields,      *)
(* values and calls, both storage modes and any faults.                    *)
(***************************************************************************)
EXTENDS RedisEntityService, TLAPS

Requests == [op : {"none", "bulkCreate", "create", "update", "delete"},
             id : Ids \cup {0}, data : Contents, forced : BOOLEAN]

Operations == {"idle", "getIncrement", "setIncrement", "check", "write", "find", "remove", "exec"}

\* How a call begins: the four methods differ in where they start and whether
\* the entity is there already.
Begins(c, r, n, at) ==
  /\ Start(c, r, n, at)
  /\ \/ r.op = "bulkCreate" /\ at = "getIncrement" /\ item' = item
     \/ /\ r.op = "create" /\ at = "check" /\ r.id \in Ids /\ n = 1
        /\ item' = [item EXCEPT ![c] =
                      [key |-> r.id, entity |-> [id |-> r.id, fields |-> r.data]]]
     \/ r.op \in {"update", "delete"} /\ at = "find" /\ r.id \in Ids /\ n = 1 /\ item' = item

LEMMA IdsAreNumbers == Ids \subseteq Nat /\ 0 \notin Ids /\ Calls \subseteq Nat \ {0}
  BY ConstantsAssumption DEF Ids, Calls

LEMMA InvokeBegins ==
  ASSUME TypeOK, NEW c \in Clients, Invoke(c)
  PROVE  \E r \in Requests, n \in 1 .. MaxItems, at \in {"getIncrement", "check", "find"} :
           Begins(c, r, n, at)
<1>. USE DEF Begins, Requests
<1>1. PICK forced \in BOOLEAN :
        \/ \E v \in Values, n \in 1 .. (MaxItems - increment) : BulkCreate(c, Whole(v), n, forced)
        \/ \E id \in CallerIds :
             \/ \E v \in Values : Create(c, id, Whole(v), forced)
             \/ \E f \in Fields, v \in Values : Update(c, id, OneField(f, v), forced)
             \/ Delete(c, id, forced)
  BY DEF Invoke
<1>2. /\ \A v \in Values : Whole(v) \in Contents
      /\ \A f \in Fields, v \in Values : OneField(f, v) \in Contents
      /\ NoContents \in Contents
  BY DEF Whole, OneField, NoContents, Contents
<1>3. 1 \in 1 .. MaxItems
  BY ConstantsAssumption
<1>4. ASSUME NEW v \in Values, NEW n \in 1 .. (MaxItems - increment), BulkCreate(c, Whole(v), n, forced)
      PROVE  \E r \in Requests, m \in 1 .. MaxItems : Begins(c, r, m, "getIncrement")
  <2>1. n \in 1 .. MaxItems
    BY ConstantsAssumption DEF TypeOK
  <2>. DEFINE r == [op |-> "bulkCreate", id |-> 0, data |-> Whole(v), forced |-> forced]
  <2>2. r \in Requests /\ r.op = "bulkCreate"
    BY <1>2
  <2>3. Begins(c, r, n, "getIncrement")
    BY <1>4, <2>2 DEF BulkCreate
  <2>. QED
    BY <2>1, <2>2, <2>3
<1>5. ASSUME NEW id \in CallerIds, NEW v \in Values, Create(c, id, Whole(v), forced)
      PROVE  \E r \in Requests : Begins(c, r, 1, "check")
  <2>. DEFINE r == [op |-> "create", id |-> id, data |-> Whole(v), forced |-> forced]
  <2>1. r \in Requests /\ r.op = "create" /\ r.id = id /\ r.data = Whole(v) /\ id \in Ids
    BY <1>2, ConstantsAssumption
  <2>2. Begins(c, r, 1, "check")
    BY <1>5, <2>1 DEF Create
  <2>. QED
    BY <2>1, <2>2
<1>6. ASSUME NEW id \in CallerIds, NEW f \in Fields, NEW v \in Values, Update(c, id, OneField(f, v), forced)
      PROVE  \E r \in Requests : Begins(c, r, 1, "find")
  <2>. DEFINE r == [op |-> "update", id |-> id, data |-> OneField(f, v), forced |-> forced]
  <2>1. r \in Requests /\ r.op = "update" /\ r.id \in Ids
    BY <1>2, ConstantsAssumption
  <2>2. Begins(c, r, 1, "find")
    BY <1>6, <2>1 DEF Update
  <2>. QED
    BY <2>1, <2>2
<1>7. ASSUME NEW id \in CallerIds, Delete(c, id, forced)
      PROVE  \E r \in Requests : Begins(c, r, 1, "find")
  <2>. DEFINE r == [op |-> "delete", id |-> id, data |-> NoContents, forced |-> forced]
  <2>1. r \in Requests /\ r.op = "delete" /\ r.id \in Ids
    BY <1>2, ConstantsAssumption
  <2>2. Begins(c, r, 1, "find")
    BY <1>7, <2>1 DEF Delete
  <2>. QED
    BY <2>1, <2>2
<1>. QED
  BY <1>1, <1>3, <1>4, <1>5, <1>6, <1>7

-----------------------------------------------------------------------------
(* Types.                                                                  *)

LEMMA ReturnTypes ==
  ASSUME TypeOK, NEW c \in Clients, Return(c, "ok") \/ Return(c, "threw")
  PROVE  /\ pc' \in [Clients -> Operations]
         /\ result' \in [Calls -> {"none", "running", "ok", "threw"}]
  BY DEF TypeOK, Return, Operations

LEMMA CompleteTypes ==
  ASSUME TypeOK, NEW c \in Clients, Complete(c)
  PROVE  /\ pc' \in [Clients -> Operations]
         /\ result' \in [Calls -> {"none", "running", "ok", "threw"}]
<1>1. CASE req[c].forced
  BY <1>1 DEF TypeOK, Complete, Operations
<1>2. CASE ~req[c].forced
  BY <1>2, ReturnTypes DEF Complete
<1>. QED
  BY <1>1, <1>2

LEMMA MergeType ==
  ASSUME NEW fields \in Contents, NEW data \in Contents
  PROVE  Merge(fields, data) \in Contents
  BY DEF Merge, Contents

LEMMA RecordedTypes ==
  ASSUME TypeOK, NEW c \in Clients, NEW ids \in SUBSET Ids, NEW deletes \in BOOLEAN,
         Recorded(c, ids, deletes)
  PROVE  /\ expected' \in [Ids -> Contents \cup {None}]
         /\ lost' \in SUBSET Ids
         /\ staleEntity' \in SUBSET Clients
  BY MergeType DEF TypeOK, Recorded

\* The operations a call of each kind may be suspended at.
MayAwait(op, at) ==
  \/ op = "bulkCreate" /\ at \in {"getIncrement", "setIncrement", "write", "exec"}
  \/ op = "create" /\ at \in {"check", "write", "exec"}
  \/ op = "update" /\ at \in {"find", "check", "write", "exec"}
  \/ op = "delete" /\ at \in {"find", "remove", "exec"}

\* What a client that is inside a call has at hand: the types alone do not say
\* that there is an item left to write, or a key to write it under.
Shaped(c) ==
  pc[c] # "idle" =>
    /\ MayAwait(req[c].op, pc[c])
    /\ pc[c] = "exec" => req[c].forced
    /\ pc[c] # "exec" => left[c] >= 1
    /\ req[c].op # "bulkCreate" => req[c].id \in Ids /\ left[c] <= 1
    /\ pc[c] \in {"check", "write", "remove"} => item[c].key \in Ids
    /\ pc[c] \in {"check", "write"} => item[c].entity.id \in {0, item[c].key}

\* A client's call is its own, and has a transaction if it is forced.
Owned(c) ==
  pc[c] # "idle" =>
    /\ call[c] \in Calls /\ result[call[c]] = "running"
    /\ \A d \in Clients : pc[d] # "idle" /\ call[d] = call[c] => d = c
    /\ transactions[call[c]] # None <=> req[c].forced

Shapes == TypeOK /\ \A c \in Clients : Shaped(c) /\ Owned(c)

LEMMA InitShapes == Init => Shapes
<1>. SUFFICES ASSUME Init PROVE Shapes
  OBVIOUS
<1>1. NoContents \in Contents
  BY DEF NoContents, Contents
<1>2. [key |-> 0, entity |-> [id |-> 0, fields |-> NoContents]]
        \in [key : Ids \cup {0}, entity : Entities]
  BY <1>1 DEF Entities
<1>3. NoRequest \in Requests
  BY <1>1 DEF NoRequest, Requests
<1>4. 0 \in 0 .. MaxItems /\ 0 \in 0 .. MaxCalls
  BY ConstantsAssumption
<1>5. TypeOK
  BY <1>1, <1>2, <1>3, <1>4 DEF Init, TypeOK, NoItem, Requests
<1>. QED
  BY <1>5 DEF Init, Shapes, Shaped, Owned

LEMMA BeginsShapes ==
  ASSUME Shapes, NEW c \in Clients, NEW r \in Requests, NEW n \in 1 .. MaxItems,
         NEW at \in {"getIncrement", "check", "find"}, Begins(c, r, n, at)
  PROVE  Shapes'
<1>. USE DEF Shapes, Requests, Begins, Start, server, history
<1>0. /\ None \notin [Ids -> Entities \cup {None, Untouched}]
      /\ [i \in Ids |-> Untouched] \in [Ids -> Entities \cup {None, Untouched}]
  BY ConstantsAssumption
<1>1. item' \in [Clients -> [key : Ids \cup {0}, entity : Entities]]
  BY DEF TypeOK, Entities
<1>2. transactions' \in [Calls -> [Ids -> Entities \cup {None, Untouched}] \cup {None}]
  BY DEF TypeOK
<1>3. TypeOK'
  <2>1. /\ left' \in [Clients -> 0 .. MaxItems]
        /\ call' \in [Clients -> 0 .. MaxCalls]
    BY ConstantsAssumption DEF TypeOK, Calls
  <2>2. /\ req' \in [Clients -> Requests]
        /\ pc' \in [Clients -> Operations]
        /\ result' \in [Calls -> {"none", "running", "ok", "threw"}]
    BY DEF TypeOK, Operations
  <2>. QED
    BY <1>1, <1>2, <2>1, <2>2 DEF TypeOK, Operations
<1>4. ASSUME NEW d \in Clients PROVE Shaped(d)'
  <2>1. CASE d # c
    BY <2>1 DEF TypeOK, Shaped
  <2>2. CASE d = c
    BY <2>2 DEF TypeOK, Shaped, MayAwait
  <2>. QED
    BY <2>1, <2>2
<1>5. ASSUME NEW d \in Clients PROVE Owned(d)'
  <2>1. CASE d # c
    BY <2>1 DEF TypeOK, Owned
  <2>2. CASE d = c
    BY <1>0, <2>2 DEF TypeOK, Owned
  <2>. QED
    BY <2>1, <2>2
<1>. QED
  BY <1>3, <1>4, <1>5

\* A step inside a call leaves the other clients alone, and the call's entries as they
\* are unless it ends.
LEMMA InsideCall ==
  ASSUME Shapes, NEW c \in Clients, Step(c) \/ Fail(c)
  PROVE  /\ pc[c] # "idle" /\ UNCHANGED <<call, req>>
         /\ \A d \in Clients \ {c} : pc'[d] = pc[d]
         /\ \A n \in Calls \ {call[c]} : result'[n] = result[n] /\ transactions'[n] = transactions[n]
         /\ \/ pc'[c] = "idle" /\ (result'[call[c]] = "threw" \/ transactions'[call[c]] = None)
            \/ /\ pc'[c] # "idle" /\ result'[call[c]] = result[call[c]]
               /\ transactions'[call[c]] # None <=> transactions[call[c]] # None
<1>. USE DEF Shapes
<1>0. /\ pc[c] # "idle"
      /\ call[c] \in Calls /\ (transactions[call[c]] # None <=> req[c].forced)
  BY DEF Step, Fail, GetIncrement, SetIncrement, Check, Write, WriteThen, Find, Remove, Exec, Owned
<1>1. CASE GetIncrement(c)
  BY <1>0, <1>1 DEF GetIncrement, TypeOK
<1>2. CASE SetIncrement(c)
  BY <1>0, <1>2 DEF SetIncrement, Return, TypeOK
<1>3. CASE Check(c)
  BY <1>0, <1>3 DEF Check, Return, TypeOK, local
<1>4. CASE Write(c)
  <2>1. CASE req[c].forced
    <3>1. /\ call[c] \in Calls
          /\ transactions[call[c]] \in [Ids -> Entities \cup {None, Untouched}]
          /\ item[c].entity \in Entities
      BY <1>4, <2>1 DEF Write, WriteThen, TypeOK, Owned
    <3>2. transactions' = [transactions EXCEPT ![call[c]][item[c].key] = item[c].entity]
      BY <1>4, <2>1 DEF Write, WriteThen
    <3>3. transactions'[call[c]] \in [Ids -> Entities \cup {None, Untouched}]
      BY <3>1, <3>2 DEF TypeOK
    <3>4. transactions'[call[c]] # None /\ transactions[call[c]] # None
      BY <3>1, <3>3, ConstantsAssumption
    <3>5. \A n \in Calls \ {call[c]} : transactions'[n] = transactions[n]
      BY <3>2 DEF TypeOK
    <3>. QED
      BY <1>4, <2>1, <3>4, <3>5 DEF Write, WriteThen, Complete, TypeOK
  <2>2. CASE ~req[c].forced
    BY <1>0, <1>4, <2>2 DEF Write, WriteThen, Complete, Return, TypeOK
  <2>. QED
    BY <2>1, <2>2
<1>5. CASE Find(c)
  <2>1. UNCHANGED <<call, req, transactions>>
    BY <1>5 DEF Find
  <2>2. \/ pc' = [pc EXCEPT ![c] = "exec"] /\ UNCHANGED result
        \/ Return(c, "ok") /\ ~req[c].forced
        \/ Return(c, "threw")
        \/ pc' = [pc EXCEPT ![c] = IF req[c].op = "update" THEN "check" ELSE "remove"] /\ UNCHANGED result
    BY <1>5 DEF Find, Complete
  <2>. QED
    BY <1>0, <2>1, <2>2 DEF Return, TypeOK
<1>6. CASE Remove(c)
  <2>1. CASE req[c].forced
    <3>1. /\ call[c] \in Calls
          /\ transactions[call[c]] \in [Ids -> Entities \cup {None, Untouched}]
      BY <1>6, <2>1 DEF Remove, TypeOK, Owned
    <3>2. transactions' = [transactions EXCEPT ![call[c]][item[c].key] = None]
      BY <1>6, <2>1 DEF Remove
    <3>3. transactions'[call[c]] \in [Ids -> Entities \cup {None, Untouched}]
      BY <3>1, <3>2 DEF TypeOK
    <3>4. transactions'[call[c]] # None /\ transactions[call[c]] # None
      BY <3>1, <3>3, ConstantsAssumption
    <3>5. \A n \in Calls \ {call[c]} : transactions'[n] = transactions[n]
      BY <3>2 DEF TypeOK
    <3>. QED
      BY <1>6, <2>1, <3>4, <3>5 DEF Remove, Complete, TypeOK, local
  <2>2. CASE ~req[c].forced
    BY <1>0, <1>6, <2>2 DEF Remove, Complete, Return, TypeOK, local
  <2>. QED
    BY <2>1, <2>2
<1>7. CASE Exec(c)
  BY <1>0, <1>7 DEF Exec, Return, TypeOK, local
<1>8. CASE Fail(c)
  BY <1>0, <1>8 DEF Fail, Return, TypeOK, local
<1>. QED
  BY <1>1, <1>2, <1>3, <1>4, <1>5, <1>6, <1>7, <1>8 DEF Step

LEMMA InsideCallOwned ==
  ASSUME Shapes, NEW c \in Clients, Step(c) \/ Fail(c), NEW d \in Clients
  PROVE  Owned(d)'
<1>1. CASE d = c
  BY <1>1, InsideCall DEF Shapes, Owned
<1>2. CASE d # c
  BY <1>2, InsideCall DEF Shapes, Owned
<1>. QED
  BY <1>1, <1>2

LEMMA GetIncrementShapes ==
  ASSUME Shapes, NEW c \in Clients, GetIncrement(c)
  PROVE  TypeOK' /\ \A d \in Clients : Shaped(d)'
<1>1. TypeOK'
  BY DEF Shapes, TypeOK, GetIncrement, server
<1>2. ASSUME NEW d \in Clients PROVE Shaped(d)'
  BY DEF Shapes, TypeOK, Shaped, MayAwait, GetIncrement
<1>. QED
  BY <1>1, <1>2 DEF Shapes

LEMMA SetIncrementShapes ==
  ASSUME Shapes, NEW c \in Clients, SetIncrement(c)
  PROVE  TypeOK' /\ \A d \in Clients : Shaped(d)'
<1>. USE DEF Shapes
<1>. DEFINE new == counterRead[c] + 1
<1>1. new \in Ids /\ new \in Nat
  BY DEF SetIncrement, TypeOK
<1>2. [key |-> new, entity |-> [id |-> 0, fields |-> req[c].data]]
        \in [key : Ids \cup {0}, entity : Entities]
  BY <1>1 DEF TypeOK, Entities
<1>3. /\ pc' \in [Clients -> Operations]
      /\ result' \in [Calls -> {"none", "running", "ok", "threw"}]
  <2>1. CASE Return(c, "threw")
    BY <2>1, ReturnTypes
  <2>2. CASE pc' = [pc EXCEPT ![c] = "write"] /\ UNCHANGED result
    BY <2>2 DEF TypeOK, Operations
  <2>. QED
    BY <2>1, <2>2 DEF SetIncrement
<1>4. item' \in [Clients -> [key : Ids \cup {0}, entity : Entities]]
  BY <1>2 DEF SetIncrement, TypeOK
<1>5. TypeOK'
  <2>1. given' \in [Ids -> Nat]
    BY DEF SetIncrement, TypeOK
  <2>. QED
    BY <1>1, <1>3, <1>4, <2>1 DEF SetIncrement, TypeOK, Operations
<1>6. ASSUME NEW d \in Clients PROVE Shaped(d)'
  BY <1>1 DEF TypeOK, Shaped, MayAwait, SetIncrement, Return
<1>. QED
  BY <1>5, <1>6

LEMMA CheckShapes ==
  ASSUME Shapes, NEW c \in Clients, Check(c)
  PROVE  TypeOK' /\ \A d \in Clients : Shaped(d)'
<1>1. TypeOK'
  BY ReturnTypes DEF Shapes, TypeOK, Check, ConflictKeyHolds, server, local, history, Operations
<1>2. ASSUME NEW d \in Clients PROVE Shaped(d)'
  BY DEF Shapes, TypeOK, Shaped, MayAwait, Check, Return, server, local, history
<1>. QED
  BY <1>1, <1>2 DEF Shapes

LEMMA FailShapes ==
  ASSUME Shapes, NEW c \in Clients, Fail(c)
  PROVE  TypeOK' /\ \A d \in Clients : Shaped(d)'
<1>1. TypeOK'
  BY ReturnTypes DEF Shapes, TypeOK, Fail, server, local, history, Operations
<1>2. ASSUME NEW d \in Clients PROVE Shaped(d)'
  BY DEF Shapes, TypeOK, Shaped, MayAwait, Fail, Return, server, local, history
<1>. QED
  BY <1>1, <1>2 DEF Shapes

LEMMA FindShapes ==
  ASSUME Shapes, NEW c \in Clients, Find(c)
  PROVE  TypeOK' /\ \A d \in Clients : Shaped(d)'
<1>. USE DEF Shapes
<1>. DEFINE found == stored[req[c].id]
            merged == [id |-> found.id, fields |-> Merge(found.fields, req[c].data)]
<1>1. req[c].id \in Ids /\ found \in Entities \cup {None}
  BY DEF Find, Shaped, MayAwait, TypeOK
<1>2. ASSUME found # None, found.id # 0
      PROVE  /\ [found EXCEPT !.fields = Merge(@, req[c].data)] = merged
             /\ merged \in Entities /\ merged.id = found.id /\ found.id \in Ids
             /\ [key |-> found.id, entity |-> merged] \in [key : Ids \cup {0}, entity : Entities]
  BY <1>1, <1>2, MergeType DEF TypeOK, Entities
<1>3. CASE found = None
  <2>1. TypeOK'
    BY <1>3, CompleteTypes DEF Find, TypeOK, server, Operations
  <2>2. ASSUME NEW d \in Clients PROVE Shaped(d)'
    BY <1>3 DEF TypeOK, Shaped, MayAwait, Find, Complete, Return
  <2>. QED
    BY <2>1, <2>2
<1>4. CASE found # None /\ found.id = 0
  <2>1. TypeOK'
    BY <1>4, ReturnTypes DEF Find, TypeOK, server, Operations
  <2>2. ASSUME NEW d \in Clients PROVE Shaped(d)'
    BY <1>4 DEF TypeOK, Shaped, Find, Return
  <2>. QED
    BY <2>1, <2>2
<1>5. CASE found # None /\ found.id # 0
  <2>1. /\ item' = [item EXCEPT ![c] = [key |-> found.id, entity |-> merged]]
        /\ pc' = [pc EXCEPT ![c] = IF req[c].op = "update" THEN "check" ELSE "remove"]
        /\ UNCHANGED result
    BY <1>2, <1>5 DEF Find
  <2>2. item' \in [Clients -> [key : Ids \cup {0}, entity : Entities]]
    BY <1>2, <1>5, <2>1 DEF TypeOK
  <2>3. TypeOK'
    BY <2>1, <2>2 DEF Find, TypeOK, server
  <2>4. ASSUME NEW d \in Clients PROVE Shaped(d)'
    BY <1>2, <1>5, <2>1 DEF TypeOK, Shaped, MayAwait, Find
  <2>. QED
    BY <2>3, <2>4
<1>. QED
  BY <1>3, <1>4, <1>5

\* How a write goes on: the next item, or the end of the inner call.
Continues(c) ==
  /\ left' = [left EXCEPT ![c] = @ - 1]
  /\ IF left[c] > 1
       THEN pc' = [pc EXCEPT ![c] = "getIncrement"] /\ UNCHANGED result
       ELSE Complete(c)

LEMMA WriteContinues ==
  ASSUME NEW c \in Clients, Write(c)
  PROVE  /\ pc[c] = "write"
         /\ UNCHANGED <<increment, call, req, item, counterRead, given, staleCounter, racedIds>>
         /\ Continues(c) \/ (Return(c, "threw") /\ UNCHANGED left /\ ~req[c].forced)
  BY DEF Write, WriteThen, Continues

LEMMA ContinuesShapes ==
  ASSUME Shapes, NEW c \in Clients, pc[c] = "write", UNCHANGED <<call, req, item>>,
         Continues(c) \/ (Return(c, "threw") /\ UNCHANGED left)
  PROVE  /\ pc' \in [Clients -> Operations]
         /\ result' \in [Calls -> {"none", "running", "ok", "threw"}]
         /\ left' \in [Clients -> 0 .. MaxItems]
         /\ \A d \in Clients : Shaped(d)'
<1>. USE DEF Shapes
<1>1. left[c] \in 1 .. MaxItems
  BY ConstantsAssumption DEF TypeOK, Shaped
<1>2. CASE Return(c, "threw") /\ UNCHANGED left
  BY <1>2, ReturnTypes DEF TypeOK, Shaped, Return
<1>3. CASE Continues(c) /\ left[c] > 1
  <2>1. /\ pc' \in [Clients -> Operations]
        /\ result' \in [Calls -> {"none", "running", "ok", "threw"}]
        /\ left' \in [Clients -> 0 .. MaxItems]
    BY <1>1, <1>3, ConstantsAssumption DEF TypeOK, Continues, Operations
  <2>2. ASSUME NEW d \in Clients PROVE Shaped(d)'
    BY <1>1, <1>3 DEF TypeOK, Shaped, MayAwait, Continues
  <2>. QED
    BY <2>1, <2>2
<1>4. CASE Continues(c) /\ ~(left[c] > 1)
  <2>1. left' \in [Clients -> 0 .. MaxItems] /\ Complete(c)
    BY <1>1, <1>4, ConstantsAssumption DEF TypeOK, Continues
  <2>2. ASSUME NEW d \in Clients PROVE Shaped(d)'
    BY <1>1, <1>4 DEF TypeOK, Shaped, MayAwait, Continues, Complete, Return
  <2>. QED
    BY <2>1, <2>2, CompleteTypes
<1>. QED
  BY <1>2, <1>3, <1>4

LEMMA WriteShapes ==
  ASSUME Shapes, NEW c \in Clients, Write(c)
  PROVE  TypeOK' /\ \A d \in Clients : Shaped(d)'
<1>. USE DEF Shapes
<1>1. item[c].key \in Ids /\ item[c].entity \in Entities
  BY WriteContinues DEF TypeOK, Shaped
<1>2. /\ pc' \in [Clients -> Operations]
      /\ result' \in [Calls -> {"none", "running", "ok", "threw"}]
      /\ left' \in [Clients -> 0 .. MaxItems]
      /\ \A d \in Clients : Shaped(d)'
  BY WriteContinues, ContinuesShapes
<1>3. /\ stored' \in [Ids -> Entities \cup {None}]
      /\ transactions' \in [Calls -> [Ids -> Entities \cup {None, Untouched}] \cup {None}]
      /\ expected' \in [Ids -> Contents \cup {None}]
      /\ lost' \in SUBSET Ids
      /\ staleEntity' \in SUBSET Clients
  <2>1. CASE req[c].forced
    <3>1. /\ call[c] \in Calls
          /\ transactions[call[c]] \in [Ids -> Entities \cup {None, Untouched}]
          /\ transactions' = [transactions EXCEPT ![call[c]][item[c].key] = item[c].entity]
      BY <2>1, WriteContinues DEF Write, WriteThen, TypeOK, Owned
    <3>2. transactions' \in [Calls -> [Ids -> Entities \cup {None, Untouched}] \cup {None}]
      BY <1>1, <3>1 DEF TypeOK
    <3>. QED
      BY <2>1, <3>2 DEF Write, WriteThen, TypeOK
  <2>2. CASE ~req[c].forced
    <3>1. Recorded(c, {item[c].key}, FALSE) /\ {item[c].key} \in SUBSET Ids
      BY <1>1, <2>2 DEF Write, WriteThen
    <3>. QED
      BY <1>1, <2>2, <3>1, RecordedTypes DEF Write, WriteThen, TypeOK
  <2>. QED
    BY <2>1, <2>2
<1>4. TypeOK'
  BY <1>2, <1>3, WriteContinues DEF TypeOK, Operations
<1>. QED
  BY <1>2, <1>4

LEMMA RemoveShapes ==
  ASSUME Shapes, NEW c \in Clients, Remove(c)
  PROVE  TypeOK' /\ \A d \in Clients : Shaped(d)'
<1>. USE DEF Shapes
<1>1. item[c].key \in Ids
  BY DEF Remove, TypeOK, Shaped
<1>2. /\ pc' \in [Clients -> Operations]
      /\ result' \in [Calls -> {"none", "running", "ok", "threw"}]
  BY ReturnTypes, CompleteTypes DEF Remove
<1>3. /\ stored' \in [Ids -> Entities \cup {None}]
      /\ transactions' \in [Calls -> [Ids -> Entities \cup {None, Untouched}] \cup {None}]
      /\ expected' \in [Ids -> Contents \cup {None}]
      /\ lost' \in SUBSET Ids
      /\ staleEntity' \in SUBSET Clients
  <2>1. CASE req[c].forced
    <3>1. /\ call[c] \in Calls
          /\ transactions[call[c]] \in [Ids -> Entities \cup {None, Untouched}]
          /\ transactions' = [transactions EXCEPT ![call[c]][item[c].key] = None]
      BY <2>1 DEF Remove, TypeOK, Owned
    <3>2. transactions' \in [Calls -> [Ids -> Entities \cup {None, Untouched}] \cup {None}]
      BY <1>1, <3>1 DEF TypeOK
    <3>. QED
      BY <2>1, <3>2 DEF Remove, TypeOK
  <2>2. CASE ~req[c].forced
    <3>1. Recorded(c, {item[c].key}, TRUE) /\ {item[c].key} \in SUBSET Ids
      BY <1>1, <2>2 DEF Remove
    <3>. QED
      BY <1>1, <2>2, <3>1, RecordedTypes DEF Remove, TypeOK
  <2>. QED
    BY <2>1, <2>2
<1>4. TypeOK'
  BY <1>2, <1>3 DEF Remove, TypeOK, Operations, local
<1>5. ASSUME NEW d \in Clients PROVE Shaped(d)'
  <2>1. \/ pc' = [pc EXCEPT ![c] = "exec"] /\ req[c].forced
        \/ pc' = [pc EXCEPT ![c] = "idle"]
    BY DEF Remove, Complete, Return
  <2>. QED
    BY <2>1 DEF Remove, TypeOK, Shaped, MayAwait, local
<1>. QED
  BY <1>4, <1>5

LEMMA ExecShapes ==
  ASSUME Shapes, NEW c \in Clients, Exec(c)
  PROVE  TypeOK' /\ \A d \in Clients : Shaped(d)'
<1>. USE DEF Shapes
<1>. DEFINE writes == transactions[call[c]]
            ids == {i \in Ids : writes[i] # Untouched}
<1>1. call[c] \in Calls /\ writes \in [Ids -> Entities \cup {None, Untouched}]
  BY DEF Exec, TypeOK, Shaped, Owned
<1>2. /\ pc' \in [Clients -> Operations]
      /\ result' \in [Calls -> {"none", "running", "ok", "threw"}]
  BY ReturnTypes DEF Exec
<1>3. stored' \in [Ids -> Entities \cup {None}]
  <2>1. ASSUME NEW i \in Ids PROVE stored'[i] \in Entities \cup {None}
    BY <1>1 DEF Exec, TypeOK
  <2>. QED
    BY <2>1 DEF Exec
<1>4. transactions' \in [Calls -> [Ids -> Entities \cup {None, Untouched}] \cup {None}]
  BY DEF Exec, TypeOK
<1>5. /\ expected' \in [Ids -> Contents \cup {None}]
      /\ lost' \in SUBSET Ids
      /\ staleEntity' \in SUBSET Clients
  <2>1. Recorded(c, ids, req[c].op = "delete") /\ ids \in SUBSET Ids
    BY DEF Exec
  <2>. QED
    BY <2>1, RecordedTypes
<1>6. TypeOK'
  BY <1>2, <1>3, <1>4, <1>5 DEF Exec, TypeOK, Operations, local
<1>7. ASSUME NEW d \in Clients PROVE Shaped(d)'
  BY DEF Exec, TypeOK, Shaped, MayAwait, Return, local
<1>. QED
  BY <1>6, <1>7

LEMMA StepShapes == Shapes /\ [Next]_vars => Shapes'
<1>. SUFFICES ASSUME Shapes, [Next]_vars PROVE Shapes'
  OBVIOUS
<1>1. ASSUME NEW c \in Clients, Invoke(c) PROVE Shapes'
  BY <1>1, InvokeBegins, BeginsShapes DEF Shapes
<1>2. ASSUME NEW c \in Clients, Step(c) \/ Fail(c) PROVE Shapes'
  <2>1. TypeOK' /\ \A d \in Clients : Shaped(d)'
    BY <1>2, GetIncrementShapes, SetIncrementShapes, CheckShapes, WriteShapes, FindShapes,
       RemoveShapes, ExecShapes, FailShapes DEF Step
  <2>2. \A d \in Clients : Owned(d)'
    BY <1>2, InsideCallOwned
  <2>. QED
    BY <2>1, <2>2 DEF Shapes
<1>3. CASE UNCHANGED vars
  BY <1>3 DEF Shapes, TypeOK, Shaped, Owned, vars, server, local, history
<1>. QED
  BY <1>1, <1>2, <1>3 DEF Next

\* The state keeps its types, whatever interleaves and fails.
THEOREM TypeCorrect == Spec => []TypeOK
<1>1. Shapes => TypeOK
  BY DEF Shapes
<1>. QED
  BY <1>1, InitShapes, StepShapes, PTL DEF Spec

-----------------------------------------------------------------------------
(* Transactions.                                                           *)

LEMMA StepClosed == Shapes /\ TransactionsClosed /\ [Next]_vars => TransactionsClosed'
<1>. SUFFICES ASSUME Shapes, TransactionsClosed, [Next]_vars PROVE TransactionsClosed'
  OBVIOUS
<1>1. ASSUME NEW c \in Clients, Invoke(c) PROVE TransactionsClosed'
  <2>1. PICK r \in Requests, n \in 1 .. MaxItems, at \in {"getIncrement", "check", "find"} :
          Begins(c, r, n, at)
    BY <1>1, InvokeBegins DEF Shapes
  <2>. QED
    BY <2>1 DEF Begins, Start, Shapes, TypeOK, TransactionsClosed
<1>2. ASSUME NEW c \in Clients, Step(c) \/ Fail(c) PROVE TransactionsClosed'
  <2>1. ASSUME NEW n \in Calls \ {call[c]}, transactions'[n] # None
        PROVE  \/ result'[n] = "threw"
               \/ /\ result'[n] = "running"
                  /\ \E d \in Clients : call'[d] = n /\ pc'[d] # "idle" /\ req'[d].forced
    BY <1>2, <2>1, InsideCall DEF TransactionsClosed
  <2>2. ASSUME transactions'[call[c]] # None
        PROVE  \/ result'[call[c]] = "threw"
               \/ /\ result'[call[c]] = "running"
                  /\ call'[c] = call[c] /\ pc'[c] # "idle" /\ req'[c].forced
    <3>1. pc[c] # "idle" /\ result[call[c]] = "running" /\ (transactions[call[c]] # None <=> req[c].forced)
      BY <1>2, InsideCall DEF Shapes, Owned
    <3>2. call'[c] = call[c] /\ req'[c] = req[c]
      BY <1>2, InsideCall
    <3>. QED
      BY <1>2, <2>2, <3>1, <3>2, InsideCall
  <2>. QED
    BY <2>1, <2>2, <1>2, InsideCall DEF TransactionsClosed
<1>3. CASE UNCHANGED vars
  BY <1>3 DEF TransactionsClosed, vars, local
<1>. QED
  BY <1>1, <1>2, <1>3 DEF Next

\* Only a call that is under way or threw leaves a transaction in the map.
THEOREM ClosedTransactions == Spec => []TransactionsClosed
<1>1. Init => TransactionsClosed
  BY DEF Init, TransactionsClosed
<1>. QED
  BY <1>1, InitShapes, StepShapes, StepClosed, PTL DEF Spec

\* A forced call changes no entity before its exec().
THEOREM ForcedWrites == Spec => ForcedCallsWriteAtEnd
<1>. DEFINE A == \A c \in Clients :
              req[c].forced /\ pc[c] \notin {"idle", "exec"} /\ pc'[c] # pc[c] => stored' = stored
<1>1. Shapes /\ [Next]_vars => [A]_vars
  <2>. SUFFICES ASSUME Shapes, Next, NEW c \in Clients,
                       req[c].forced, pc[c] \notin {"idle", "exec"}, pc'[c] # pc[c]
                PROVE  stored' = stored
    OBVIOUS
  <2>1. ASSUME NEW d \in Clients, Invoke(d) PROVE pc'[c] = pc[c]
    BY <2>1, InvokeBegins DEF Begins, Start, Shapes, TypeOK
  <2>2. ASSUME NEW d \in Clients, Step(d) \/ Fail(d) PROVE d = c
    BY <2>2, InsideCall
  <2>3. Step(c) \/ Fail(c)
    BY <2>1, <2>2 DEF Next
  <2>. QED
    BY <2>3 DEF Step, Fail, GetIncrement, SetIncrement, Check, Write, WriteThen, Find, Remove,
                Exec, server
<1>. QED
  BY <1>1, InitShapes, StepShapes, PTL DEF Spec, ForcedCallsWriteAtEnd

-----------------------------------------------------------------------------
(* Generated ids.                                                          *)

\* Until a race, no id beyond the increment is given, and who has read the
\* increment and is not out of date has read the one that is there.
IdsInOrder ==
  ~racedIds =>
    /\ \A i \in Ids : given[i] <= 1 /\ (i > increment => given[i] = 0)
    /\ \A c \in Clients \ staleCounter : pc[c] = "setIncrement" => counterRead[c] = increment

LEMMA StepIds == Shapes /\ IdsInOrder /\ [Next]_vars => IdsInOrder'
<1>. SUFFICES ASSUME Shapes, IdsInOrder, [Next]_vars PROVE IdsInOrder'
  OBVIOUS
<1>. USE DEF IdsInOrder
<1>1. ASSUME NEW c \in Clients, Invoke(c) PROVE IdsInOrder'
  BY <1>1, InvokeBegins DEF Begins, Start, Shapes, TypeOK, server, history
<1>2. ASSUME NEW c \in Clients, SetIncrement(c) PROVE IdsInOrder'
  <2>. SUFFICES ASSUME ~racedIds' PROVE IdsInOrder'
    OBVIOUS
  <2>1. ~racedIds /\ increment' = increment + 1 /\ counterRead[c] = increment /\ increment \in Nat
    BY <1>2 DEF SetIncrement, Shapes, TypeOK
  <2>2. given' = given \/ given' = [given EXCEPT ![increment + 1] = @ + 1]
    BY <1>2, <2>1 DEF SetIncrement
  <2>3. ASSUME NEW i \in Ids PROVE given'[i] <= 1 /\ (i > increment' => given'[i] = 0)
    BY <2>1, <2>2, IdsAreNumbers DEF Shapes, TypeOK
  <2>4. ASSUME NEW d \in Clients \ staleCounter', pc'[d] = "setIncrement" PROVE FALSE
    BY <1>2, <2>4 DEF SetIncrement, Return, Shapes, TypeOK
  <2>. QED
    BY <2>3, <2>4
<1>3. ASSUME NEW c \in Clients, GetIncrement(c) PROVE IdsInOrder'
  BY <1>3 DEF GetIncrement, Shapes, TypeOK, server
<1>4. ASSUME NEW c \in Clients,
             Check(c) \/ Write(c) \/ Find(c) \/ Remove(c) \/ Exec(c) \/ Fail(c)
      PROVE  IdsInOrder'
  <2>1. UNCHANGED <<increment, counterRead, given, staleCounter, racedIds>>
    BY <1>4, WriteContinues DEF Check, Find, Remove, Exec, Fail, server, local, history
  <2>2. pc'[c] # "setIncrement"
    <3>1. CASE Write(c)
      BY <3>1, WriteContinues DEF Continues, Complete, Return, Shapes, TypeOK
    <3>2. CASE Check(c) \/ Exec(c) \/ Fail(c)
      BY <3>2 DEF Return, Check, Exec, Fail, Shapes, TypeOK
    <3>3. CASE Find(c) \/ Remove(c)
      BY <3>3 DEF Complete, Return, Find, Remove, Shapes, TypeOK
    <3>. QED
      BY <1>4, <3>1, <3>2, <3>3
  <2>3. \A d \in Clients \ {c} : pc'[d] = pc[d]
    BY <1>4, InsideCall DEF Step
  <2>. QED
    BY <2>1, <2>2, <2>3
<1>5. CASE UNCHANGED vars
  BY <1>5 DEF vars, server, local, history
<1>. QED
  BY <1>1, <1>2, <1>3, <1>4, <1>5 DEF Next, Step

\* Ids are given once as long as no increment was written back out of date.
THEOREM UniqueIds == Spec => []UniqueIdsUnlessRaced
<1>1. Init => IdsInOrder
  BY IdsAreNumbers DEF Init, IdsInOrder
<1>2. IdsInOrder => UniqueIdsUnlessRaced
  BY DEF IdsInOrder, UniqueIdsUnlessRaced
<1>. QED
  BY <1>1, <1>2, InitShapes, StepShapes, StepIds, PTL DEF Spec

-----------------------------------------------------------------------------
(* Entities.                                                               *)

\* Entity e is what an update() by client c makes of the entity that is stored.
IsMerge(c, e) ==
  /\ stored[req[c].id] # None
  /\ e.fields = Merge(stored[req[c].id].fields, req[c].data)

\* What client c is about to write: what its call says, an update being up to date
\* unless the history says that it is not.
Planned(c) ==
  pc[c] \in {"check", "write"} =>
    /\ req[c].op # "update" => item[c].entity.fields = req[c].data
    /\ req[c].op = "update" =>
         /\ item[c].key = req[c].id
         /\ c \notin staleEntity => IsMerge(c, item[c].entity)

\* One write that client c's transaction holds, to the entity with id i.
IsQueued(c, i, write) ==
  /\ req[c].op = "delete" => write = None
  /\ req[c].op # "delete" => write \in Entities /\ write.id \in {0, i}
  /\ req[c].op \in {"bulkCreate", "create"} => write.fields = req[c].data
  /\ req[c].op = "update" =>
       pc[c] = "exec" /\ i = req[c].id /\ (c \notin staleEntity => IsMerge(c, write))

Queued(c) ==
  pc[c] # "idle" /\ req[c].forced =>
    \A i \in Ids : transactions[call[c]][i] # Untouched =>
      IsQueued(c, i, transactions[call[c]][i])

StoredIds == \A i \in Ids : stored[i] # None => stored[i].id \in {0, i}

InOrder == StoredIds /\ \A c \in Clients : Planned(c) /\ Queued(c)

\* A step of client c writes the entities in ids, and nothing else.
Writes(c, ids) ==
  /\ ids \subseteq Ids
  /\ \A i \in Ids \ ids : stored'[i] = stored[i]
  /\ \A i \in ids :
       /\ req[c].op = "delete" => stored'[i] = None
       /\ req[c].op # "delete" => stored'[i] \in Entities /\ stored'[i].id \in {0, i}
       /\ req[c].op \in {"bulkCreate", "create"} => stored'[i].fields = req[c].data
       /\ req[c].op = "update" /\ c \notin staleEntity =>
            stored[i] # None /\ stored'[i].fields = Merge(stored[i].fields, req[c].data)
  /\ Recorded(c, ids, req[c].op = "delete")

LEMMA WritesSerial ==
  ASSUME Shapes, InOrder, SerialUnlessRaced, NEW c \in Clients, NEW ids, Writes(c, ids),
         pc[c] # "idle"
  PROVE  SerialUnlessRaced' /\ StoredIds'
<1>. USE DEF Writes
<1>1. StoredIds'
  BY ConstantsAssumption DEF InOrder, StoredIds
<1>2. ASSUME NEW i \in Ids \ lost', i \notin ids
      PROVE  IF stored'[i] = None THEN expected'[i] = None ELSE expected'[i] = stored'[i].fields
  BY <1>2 DEF SerialUnlessRaced, Recorded
<1>3. ASSUME NEW i \in ids, i \notin lost'
      PROVE  IF stored'[i] = None THEN expected'[i] = None ELSE expected'[i] = stored'[i].fields
  <2>1. CASE req[c].op = "delete"
    BY <1>3, <2>1 DEF Recorded
  <2>2. CASE req[c].op \in {"bulkCreate", "create"}
    BY <1>3, <2>2, ConstantsAssumption DEF Recorded
  <2>3. CASE req[c].op = "update"
    <3>1. c \notin staleEntity /\ i \notin lost
      BY <1>3, <2>3 DEF Recorded
    <3>2. stored[i] # None /\ expected[i] = stored[i].fields
      BY <2>3, <3>1 DEF SerialUnlessRaced
    <3>3. expected[i] # None
      BY <3>2, ConstantsAssumption DEF Shapes, TypeOK, Entities
    <3>4. expected'[i] = Merge(expected[i], req[c].data)
      BY <2>3, <3>3 DEF Recorded
    <3>. QED
      BY <2>3, <3>1, <3>2, <3>4, ConstantsAssumption
  <2>. QED
    BY <2>1, <2>2, <2>3 DEF Shapes, Shaped, MayAwait
<1>. QED
  BY <1>1, <1>2, <1>3 DEF SerialUnlessRaced

\* The others' plans outlive a step: an update that the step made out of date is
\* recorded as such.
LEMMA OthersInOrder ==
  ASSUME Shapes, InOrder, NEW c \in Clients, Step(c) \/ Fail(c), NEW d \in Clients \ {c},
         item'[d] = item[d],
         \/ stored' = stored /\ staleEntity' \in {staleEntity, staleEntity \ {c}}
         \/ \E ids : Writes(c, ids)
  PROVE  Planned(d)' /\ Queued(d)'
<1>1. /\ pc'[d] = pc[d] /\ req'[d] = req[d] /\ call'[d] = call[d]
      /\ pc[d] # "idle" => transactions'[call[d]] = transactions[call[d]]
  BY InsideCall DEF Shapes, Owned
<1>2. ASSUME req[d].op = "update", pc[d] \in {"check", "write", "exec"}, d \notin staleEntity'
      PROVE  d \notin staleEntity /\ stored'[req[d].id] = stored[req[d].id]
  <2>1. req[d].id \in Ids
    BY <1>2 DEF Shapes, Shaped
  <2>. QED
    BY <1>2, <2>1 DEF Writes, Recorded
<1>3. Planned(d)'
  BY <1>1, <1>2 DEF InOrder, Planned, IsMerge
<1>4. Queued(d)'
  BY <1>1, <1>2 DEF InOrder, Queued, IsQueued, IsMerge
<1>. QED
  BY <1>3, <1>4

LEMMA BeginsInOrder ==
  ASSUME Shapes, InOrder, SerialUnlessRaced, NEW c \in Clients, NEW r \in Requests,
         NEW n \in 1 .. MaxItems, NEW at \in {"getIncrement", "check", "find"},
         Begins(c, r, n, at)
  PROVE  InOrder' /\ SerialUnlessRaced'
<1>. USE DEF Begins, Start, server, history
<1>1. StoredIds' /\ SerialUnlessRaced'
  BY DEF InOrder, StoredIds, SerialUnlessRaced
<1>2. PICK k \in Calls : /\ result[k] = "none"
                         /\ call' = [call EXCEPT ![c] = k]
                         /\ transactions' = [transactions EXCEPT ![k] =
                              IF r.forced THEN [i \in Ids |-> Untouched] ELSE None]
  OBVIOUS
<1>3. ASSUME NEW d \in Clients \ {c} PROVE Planned(d)' /\ Queued(d)'
  <2>1. /\ pc'[d] = pc[d] /\ req'[d] = req[d] /\ call'[d] = call[d] /\ item'[d] = item[d]
        /\ pc[d] # "idle" => transactions'[call[d]] = transactions[call[d]]
    BY <1>2 DEF Shapes, Owned, TypeOK
  <2>2. Planned(d)'
    BY <2>1 DEF InOrder, Planned, IsMerge
  <2>3. Queued(d)'
    BY <2>1 DEF InOrder, Queued, IsQueued, IsMerge
  <2>. QED
    BY <2>2, <2>3
<1>4. Planned(c)' /\ Queued(c)'
  <2>1. pc'[c] = at /\ req'[c] = r /\ call'[c] = k
    BY <1>2 DEF Shapes, TypeOK
  <2>2. Planned(c)'
    BY <2>1 DEF Planned, Shapes, TypeOK
  <2>3. Queued(c)'
    BY <1>2, <2>1 DEF Queued, Shapes, TypeOK
  <2>. QED
    BY <2>2, <2>3
<1>. QED
  BY <1>1, <1>3, <1>4 DEF InOrder

\* Steps that change neither entities nor transactions.
LEMMA PreparesInOrder ==
  ASSUME Shapes, InOrder, SerialUnlessRaced, NEW c \in Clients,
         GetIncrement(c) \/ SetIncrement(c) \/ Check(c) \/ Find(c) \/ Fail(c)
  PROVE  InOrder' /\ SerialUnlessRaced'
<1>1. /\ UNCHANGED <<stored, lost, expected, transactions, call, req>>
      /\ staleEntity' \in {staleEntity, staleEntity \ {c}}
      /\ \A d \in Clients \ {c} : item'[d] = item[d]
  BY DEF GetIncrement, SetIncrement, Check, Find, Fail, server, local, history, Shapes, TypeOK
<1>2. StoredIds' /\ SerialUnlessRaced'
  BY <1>1 DEF InOrder, StoredIds, SerialUnlessRaced
<1>3. ASSUME NEW d \in Clients \ {c} PROVE Planned(d)' /\ Queued(d)'
  BY <1>1, OthersInOrder DEF Step
<1>4. Planned(c)'
  <2>1. CASE GetIncrement(c)
    BY <2>1 DEF GetIncrement, Planned, Shapes, TypeOK
  <2>2. CASE SetIncrement(c)
    <3>1. req[c].op = "bulkCreate"
      BY <2>2 DEF SetIncrement, Shapes, Shaped, MayAwait
    <3>2. pc'[c] = "idle" \/ item'[c].entity.fields = req[c].data
      BY <2>2 DEF SetIncrement, Return, Shapes, TypeOK
    <3>. QED
      BY <1>1, <3>1, <3>2 DEF Planned
  <2>3. CASE Check(c)
    BY <2>3 DEF Check, ConflictKeyHolds, local, server, history, InOrder, Planned, IsMerge, Shapes, TypeOK
  <2>4. CASE Fail(c)
    BY <2>4 DEF Fail, Return, Planned, Shapes, TypeOK
  <2>5. CASE Find(c)
    <3>. DEFINE found == stored[req[c].id]
    <3>1. \/ pc'[c] \in {"idle", "exec", "remove"}
          \/ /\ found # None /\ found.id # 0 /\ req[c].op = "update"
             /\ item'[c] = [key |-> found.id,
                            entity |-> [found EXCEPT !.fields = Merge(@, req[c].data)]]
      BY <2>5 DEF Find, Complete, Return, Shapes, TypeOK
    <3>2. CASE pc'[c] \in {"idle", "exec", "remove"}
      BY <3>2 DEF Planned
    <3>3. CASE /\ found # None /\ found.id # 0 /\ req[c].op = "update"
               /\ item'[c] = [key |-> found.id,
                              entity |-> [found EXCEPT !.fields = Merge(@, req[c].data)]]
      <4>1. req[c].id \in Ids /\ found \in Entities
        BY <2>5, <3>3 DEF Find, Shapes, Shaped, TypeOK
      <4>2. found.id = req[c].id
        BY <3>3, <4>1 DEF InOrder, StoredIds
      <4>3. item'[c].key = req[c].id /\ item'[c].entity.fields = Merge(found.fields, req[c].data)
        BY <3>3, <4>1, <4>2 DEF Entities
      <4>. QED
        BY <1>1, <3>3, <4>3 DEF Planned, IsMerge
    <3>. QED
      BY <3>1, <3>2, <3>3
  <2>. QED
    BY <2>1, <2>2, <2>3, <2>4, <2>5
<1>5. Queued(c)'
  <2>1. \/ pc[c] \notin {"idle", "exec"}
        \/ pc'[c] = "idle"
    BY DEF GetIncrement, SetIncrement, Check, Find, Fail, Return, Shapes, TypeOK
  <2>. QED
    BY <1>1, <2>1 DEF InOrder, Queued, IsQueued
<1>. QED
  BY <1>2, <1>3, <1>4, <1>5 DEF InOrder

LEMMA WriteInOrder ==
  ASSUME Shapes, InOrder, SerialUnlessRaced, NEW c \in Clients, Write(c)
  PROVE  InOrder' /\ SerialUnlessRaced'
<1>. DEFINE key == item[c].key
<1>1. /\ pc[c] = "write" /\ UNCHANGED <<call, req, item>>
      /\ key \in Ids /\ item[c].entity \in Entities /\ item[c].entity.id \in {0, key}
      /\ req[c].op \in {"bulkCreate", "create", "update"}
      /\ Planned(c)
  BY WriteContinues DEF Shapes, TypeOK, Shaped, MayAwait, InOrder
<1>2. pc'[c] \in {"getIncrement", "idle", "exec"}
  BY WriteContinues DEF Continues, Complete, Return, Shapes, TypeOK
<1>3. Planned(c)'
  BY <1>2 DEF Planned
<1>4. CASE req[c].forced
  <2>1. UNCHANGED <<stored, staleEntity, lost, expected>>
    BY <1>4 DEF Write, WriteThen
  <2>2. StoredIds' /\ SerialUnlessRaced'
    BY <2>1 DEF InOrder, StoredIds, SerialUnlessRaced
  <2>3. ASSUME NEW d \in Clients \ {c} PROVE Planned(d)' /\ Queued(d)'
    BY <1>1, <2>1, OthersInOrder DEF Step
  <2>4. /\ call[c] \in Calls
        /\ transactions[call[c]] \in [Ids -> Entities \cup {None, Untouched}]
        /\ transactions' = [transactions EXCEPT ![call[c]][key] = item[c].entity]
    BY <1>1, <1>4 DEF Write, WriteThen, Shapes, TypeOK, Owned
  <2>5. Queued(c)'
    <3>. SUFFICES ASSUME pc'[c] # "idle", NEW i \in Ids, (transactions[call[c]][i])' # Untouched
                  PROVE  IsQueued(c, i, transactions[call[c]][i])'
      BY DEF Queued
    <3>1. CASE i = key
      <4>1. (transactions[call[c]][i])' = item[c].entity
        BY <1>1, <2>4, <3>1 DEF Shapes, TypeOK
      <4>2. req[c].op = "update" => pc'[c] = "exec"
        <5>1. req[c].op = "update" => ~(left[c] > 1)
          BY <1>1 DEF Shapes, TypeOK, Shaped
        <5>. QED
          BY <1>4, <5>1, WriteContinues DEF Continues, Complete, Shapes, TypeOK
      <4>. QED
        BY <1>1, <2>1, <3>1, <4>1, <4>2 DEF IsQueued, Planned, IsMerge
    <3>2. CASE i # key
      <4>1. (transactions[call[c]][i])' = transactions[call[c]][i]
        BY <1>1, <2>4, <3>2 DEF Shapes, TypeOK
      <4>. QED
        BY <1>1, <1>4, <2>1, <4>1 DEF InOrder, Queued, IsQueued
    <3>. QED
      BY <3>1, <3>2
  <2>. QED
    BY <1>3, <2>2, <2>3, <2>5 DEF InOrder
<1>5. CASE ~req[c].forced
  <2>1. /\ stored' = [stored EXCEPT ![key] = item[c].entity]
        /\ Recorded(c, {key}, FALSE)
    BY <1>5 DEF Write, WriteThen
  <2>2. Writes(c, {key})
    <3>1. \A i \in Ids \ {key} : stored'[i] = stored[i]
      BY <2>1 DEF Shapes, TypeOK
    <3>2. stored'[key] = item[c].entity
      BY <1>1, <2>1 DEF Shapes, TypeOK
    <3>. QED
      BY <1>1, <2>1, <3>1, <3>2 DEF Writes, Planned, IsMerge
  <2>3. Queued(c)'
    BY <1>1, <1>5 DEF Queued
  <2>4. ASSUME NEW d \in Clients \ {c} PROVE Planned(d)' /\ Queued(d)'
    BY <1>1, <2>2, OthersInOrder DEF Step
  <2>. QED
    BY <1>1, <1>3, <2>2, <2>3, <2>4, WritesSerial DEF InOrder
<1>. QED
  BY <1>4, <1>5

LEMMA RemoveInOrder ==
  ASSUME Shapes, InOrder, SerialUnlessRaced, NEW c \in Clients, Remove(c)
  PROVE  InOrder' /\ SerialUnlessRaced'
<1>. DEFINE key == item[c].key
<1>1. /\ pc[c] = "remove" /\ UNCHANGED <<call, req, item>>
      /\ key \in Ids /\ req[c].op = "delete"
  BY DEF Remove, local, Shapes, Shaped, MayAwait
<1>2. pc'[c] \in {"idle", "exec"}
  BY DEF Remove, Complete, Return, Shapes, TypeOK
<1>3. Planned(c)'
  BY <1>2 DEF Planned
<1>4. CASE req[c].forced
  <2>1. UNCHANGED <<stored, staleEntity, lost, expected>>
    BY <1>4 DEF Remove
  <2>2. StoredIds' /\ SerialUnlessRaced'
    BY <2>1 DEF InOrder, StoredIds, SerialUnlessRaced
  <2>3. ASSUME NEW d \in Clients \ {c} PROVE Planned(d)' /\ Queued(d)'
    BY <1>1, <2>1, OthersInOrder DEF Step
  <2>4. /\ call[c] \in Calls
        /\ transactions[call[c]] \in [Ids -> Entities \cup {None, Untouched}]
        /\ transactions' = [transactions EXCEPT ![call[c]][key] = None]
    BY <1>1, <1>4 DEF Remove, Shapes, TypeOK, Owned
  <2>5. ASSUME NEW i \in Ids, transactions'[call[c]][i] # Untouched
        PROVE  transactions'[call[c]][i] = None
    BY <1>1, <1>4, <2>4, <2>5 DEF Shapes, TypeOK, InOrder, Queued, IsQueued
  <2>6. Queued(c)'
    BY <1>1, <2>5 DEF Queued, IsQueued
  <2>. QED
    BY <1>3, <2>2, <2>3, <2>6 DEF InOrder
<1>5. CASE ~req[c].forced
  <2>1. Writes(c, {key})
    <3>1. stored' = [stored EXCEPT ![key] = None] /\ Recorded(c, {key}, TRUE)
      BY <1>5 DEF Remove
    <3>2. stored'[key] = None /\ \A i \in Ids \ {key} : stored'[i] = stored[i]
      BY <1>1, <3>1 DEF Shapes, TypeOK
    <3>. QED
      BY <1>1, <3>1, <3>2 DEF Writes
  <2>2. Queued(c)'
    BY <1>1, <1>5 DEF Queued
  <2>3. ASSUME NEW d \in Clients \ {c} PROVE Planned(d)' /\ Queued(d)'
    BY <1>1, <2>1, OthersInOrder DEF Step
  <2>. QED
    BY <1>1, <1>3, <2>1, <2>2, <2>3, WritesSerial DEF InOrder
<1>. QED
  BY <1>4, <1>5

LEMMA ExecInOrder ==
  ASSUME Shapes, InOrder, SerialUnlessRaced, NEW c \in Clients, Exec(c)
  PROVE  InOrder' /\ SerialUnlessRaced'
<1>. DEFINE writes == transactions[call[c]]
            ids == {i \in Ids : writes[i] # Untouched}
<1>1. /\ pc[c] = "exec" /\ UNCHANGED <<call, req, item>> /\ pc'[c] = "idle"
      /\ req[c].forced
      /\ req[c].op \in {"bulkCreate", "create", "update", "delete"}
  BY DEF Exec, Return, local, Shapes, TypeOK, Shaped, MayAwait
<1>2. Planned(c)' /\ Queued(c)'
  BY <1>1 DEF Planned, Queued
<1>3. Writes(c, ids)
  <2>1. \A i \in Ids : stored'[i] = IF i \in ids THEN writes[i] ELSE stored[i]
    BY DEF Exec
  <2>2. \A i \in ids : IsQueued(c, i, writes[i])
    BY <1>1 DEF InOrder, Queued
  <2>3. Recorded(c, ids, req[c].op = "delete")
    BY DEF Exec
  <2>. QED
    BY <1>1, <2>1, <2>2, <2>3 DEF Writes, IsQueued, IsMerge
<1>4. ASSUME NEW d \in Clients \ {c} PROVE Planned(d)' /\ Queued(d)'
  BY <1>1, <1>3, OthersInOrder DEF Step
<1>. QED
  BY <1>1, <1>2, <1>3, <1>4, WritesSerial DEF InOrder

LEMMA StepInOrder ==
  Shapes /\ InOrder /\ SerialUnlessRaced /\ [Next]_vars => InOrder' /\ SerialUnlessRaced'
<1>. SUFFICES ASSUME Shapes, InOrder, SerialUnlessRaced, [Next]_vars
              PROVE  InOrder' /\ SerialUnlessRaced'
  OBVIOUS
<1>1. ASSUME NEW c \in Clients, Invoke(c) PROVE InOrder' /\ SerialUnlessRaced'
  BY <1>1, InvokeBegins, BeginsInOrder DEF Shapes
<1>2. ASSUME NEW c \in Clients, Step(c) \/ Fail(c) PROVE InOrder' /\ SerialUnlessRaced'
  BY <1>2, PreparesInOrder, WriteInOrder, RemoveInOrder, ExecInOrder DEF Step
<1>3. CASE UNCHANGED vars
  BY <1>3 DEF InOrder, StoredIds, Planned, Queued, IsQueued, IsMerge, SerialUnlessRaced,
              vars, server, local, history
<1>. QED
  BY <1>1, <1>2, <1>3 DEF Next

\* Every entity is what its writes, one after the other, make of it, unless an
\* update() that was out of date has written it back.
THEOREM SerialEntities == Spec => []SerialUnlessRaced
<1>1. Init => InOrder /\ SerialUnlessRaced
  BY DEF Init, InOrder, StoredIds, Planned, Queued, SerialUnlessRaced
<1>. QED
  BY <1>1, InitShapes, StepShapes, StepInOrder, PTL DEF Spec

-----------------------------------------------------------------------------
(* Calls run down.                                                         *)

\* The store commands that may follow for an item, the awaited one among them.
CommandsLeft(at) ==
  IF at \in {"getIncrement", "find"} THEN 3 ELSE IF at \in {"setIncrement", "check"} THEN 2 ELSE 1

\* How far a call is from its end: its items' commands, and the exec() of its transaction.
StepsLeft(c) ==
  IF pc[c] = "idle" THEN 0
  ELSE IF pc[c] = "exec" THEN 1
  ELSE 1 + 3 * (left[c] - 1) + CommandsLeft(pc[c])

\* Every command that answers or rejects brings its call nearer to its end, and nothing that
\* other calls do sets it back.
CallsGetNearer ==
  [][\A c \in Clients :
       /\ Step(c) \/ Fail(c) => StepsLeft(c)' < StepsLeft(c)
       /\ pc[c] # "idle" => StepsLeft(c)' <= StepsLeft(c)]_vars

\* A call has at most three commands for each item and its exec() before it.
LEMMA StepsLeftIs ==
  ASSUME Shapes, NEW c \in Clients
  PROVE  /\ StepsLeft(c) \in 0 .. 3 * MaxItems + 1
         /\ StepsLeft(c) = 0 <=> pc[c] = "idle"
<1>1. /\ MaxItems \in Nat /\ left[c] \in 0 .. MaxItems
      /\ pc[c] \notin {"idle", "exec"} => left[c] >= 1
  BY ConstantsAssumption DEF Shapes, Shaped, TypeOK
<1>2. CommandsLeft(pc[c]) \in 1 .. 3
  BY DEF CommandsLeft
<1>. QED
  BY <1>1, <1>2 DEF StepsLeft

\* The end of a call, or of the inner call of a forced one.
LEMMA CompleteNears ==
  ASSUME Shapes, NEW c \in Clients, pc[c] \notin {"idle", "exec"},
         Complete(c) \/ \E how : Return(c, how)
  PROVE  StepsLeft(c)' < StepsLeft(c)
<1>1. pc'[c] \in {"idle", "exec"}
  BY DEF Shapes, TypeOK, Complete, Return
<1>2. StepsLeft(c)' \in {0, 1}
  BY <1>1 DEF StepsLeft
<1>3. CommandsLeft(pc[c]) \in 1 .. 3 /\ left[c] \in Nat /\ left[c] >= 1
  BY DEF CommandsLeft, Shapes, Shaped, TypeOK
<1>4. StepsLeft(c) \in Nat /\ StepsLeft(c) > 1
  BY <1>3 DEF StepsLeft
<1>. QED
  BY <1>2, <1>4

\* From one command to another of the same item, or to the first of the next one.
LEMMA CommandNears ==
  ASSUME Shapes, NEW c \in Clients, pc[c] \notin {"idle", "exec"}, pc'[c] \notin {"idle", "exec"},
         \/ left'[c] = left[c] /\ CommandsLeft(pc'[c]) < CommandsLeft(pc[c])
         \/ left'[c] = left[c] - 1
  PROVE  StepsLeft(c)' < StepsLeft(c)
<1>1. left[c] \in Nat
  BY DEF Shapes, TypeOK
<1>2. CommandsLeft(pc[c]) \in 1 .. 3 /\ CommandsLeft(pc'[c]) \in 1 .. 3
  BY DEF CommandsLeft
<1>3. /\ StepsLeft(c) = 1 + 3 * (left[c] - 1) + CommandsLeft(pc[c])
      /\ StepsLeft(c)' = 1 + 3 * (left'[c] - 1) + CommandsLeft(pc'[c])
  BY DEF StepsLeft
<1>. QED
  BY <1>1, <1>2, <1>3

LEMMA StepNears ==
  ASSUME Shapes, NEW c \in Clients, Step(c) \/ Fail(c)
  PROVE  StepsLeft(c)' < StepsLeft(c)
<1>0. pc[c] # "idle" /\ pc \in [Clients -> Operations] /\ left \in [Clients -> 0 .. MaxItems]
  BY InsideCall DEF Shapes, TypeOK, Operations
<1>1. CASE GetIncrement(c)
  <2>1. left' = left /\ pc[c] = "getIncrement" /\ pc'[c] = "setIncrement"
    BY <1>0, <1>1 DEF GetIncrement
  <2>. QED
    BY <2>1, CommandNears DEF CommandsLeft
<1>2. CASE SetIncrement(c) \/ Check(c)
  <2>1. left' = left /\ pc[c] \in {"setIncrement", "check"}
    BY <1>2 DEF SetIncrement, Check, local
  <2>2. pc'[c] = "write" \/ \E how : Return(c, how)
    BY <1>0, <1>2 DEF SetIncrement, Check
  <2>3. ASSUME pc'[c] = "write" PROVE StepsLeft(c)' < StepsLeft(c)
    BY <2>1, <2>3, CommandNears DEF CommandsLeft
  <2>. QED
    BY <2>1, <2>2, <2>3, CompleteNears
<1>3. CASE Find(c)
  <2>1. left' = left /\ pc[c] = "find"
    BY <1>3 DEF Find
  <2>2. pc'[c] \in {"check", "remove"} \/ Complete(c) \/ \E how : Return(c, how)
    BY <1>0, <1>3 DEF Find
  <2>3. ASSUME pc'[c] \in {"check", "remove"} PROVE StepsLeft(c)' < StepsLeft(c)
    BY <2>1, <2>3, CommandNears DEF CommandsLeft
  <2>. QED
    BY <2>1, <2>2, <2>3, CompleteNears
<1>4. CASE Write(c)
  <2>1. pc[c] = "write"
    BY <1>4 DEF Write, WriteThen
  <2>2. (pc'[c] = "getIncrement" /\ left'[c] = left[c] - 1) \/ Complete(c) \/ \E how : Return(c, how)
    BY <1>0, <1>4 DEF Write, WriteThen
  <2>. QED
    BY <2>1, <2>2, CommandNears, CompleteNears
<1>5. CASE Remove(c)
  <2>1. pc[c] = "remove" /\ (Complete(c) \/ \E how : Return(c, how))
    BY <1>5 DEF Remove
  <2>. QED
    BY <2>1, CompleteNears
<1>6. CASE pc[c] = "exec" /\ \E how : Return(c, how)
  <2>1. pc'[c] = "idle"
    BY <1>0, <1>6 DEF Return
  <2>. QED
    BY <1>6, <2>1 DEF StepsLeft
<1>7. CASE Exec(c) \/ Fail(c)
  <2>1. (pc[c] = "exec" \/ Fail(c)) /\ \E how : Return(c, how)
    BY <1>7 DEF Exec, Fail
  <2>2. CASE pc[c] = "exec"
    BY <1>6, <2>1, <2>2
  <2>3. CASE pc[c] # "exec"
    BY <1>0, <2>1, <2>3, CompleteNears
  <2>. QED
    BY <2>2, <2>3
<1>. QED
  BY <1>1, <1>2, <1>3, <1>4, <1>5, <1>7 DEF Step

\* A step of one client leaves the other clients' calls where they are.
LEMMA OthersStay ==
  ASSUME Shapes, NEW c \in Clients, NEW d \in Clients \ {c}, Step(c) \/ Fail(c)
  PROVE  StepsLeft(d)' = StepsLeft(d)
<1>0. left \in [Clients -> 0 .. MaxItems]
  BY DEF Shapes, TypeOK
<1>1. left'[d] = left[d]
  <2>1. CASE Write(c)
    BY <1>0, <2>1 DEF Write, WriteThen
  <2>2. CASE ~Write(c)
    BY <2>2 DEF Step, Fail, GetIncrement, SetIncrement, Check, Find, Remove, Exec, local
  <2>. QED
    BY <2>1, <2>2
<1>2. pc'[d] = pc[d]
  BY InsideCall
<1>. QED
  BY <1>1, <1>2 DEF StepsLeft

\* A call of the entity service ends after at most three store commands for each of its
\* items and one exec(), whatever other clients do and whichever command rejects
\* (redis.entity.service.ts: bulkCreate, create, update, delete).
THEOREM CallsRunDown == Spec => CallsGetNearer
<1>. DEFINE Nearer(c) == /\ Step(c) \/ Fail(c) => StepsLeft(c)' < StepsLeft(c)
                         /\ pc[c] # "idle" => StepsLeft(c)' <= StepsLeft(c)
<1>1. ASSUME Shapes, [Next]_vars, NEW c \in Clients
      PROVE  Nearer(c)
  <2>1. Step(c) \/ Fail(c) => StepsLeft(c)' < StepsLeft(c)
    BY <1>1, StepNears
  <2>2. StepsLeft(c) \in Nat
    BY <1>1, StepsLeftIs
  <2>3. ASSUME NEW d \in Clients, Invoke(d), pc[c] # "idle"
        PROVE  StepsLeft(c)' = StepsLeft(c)
    <3>1. PICK r \in Requests, n \in 1 .. MaxItems, at \in {"getIncrement", "check", "find"} :
            Begins(d, r, n, at)
      BY <1>1, <2>3, InvokeBegins DEF Shapes
    <3>2. /\ pc[d] = "idle" /\ pc' = [pc EXCEPT ![d] = at] /\ left' = [left EXCEPT ![d] = n]
          /\ pc \in [Clients -> Operations] /\ left \in [Clients -> 0 .. MaxItems]
      BY <1>1, <3>1 DEF Begins, Start, Shapes, TypeOK, Operations
    <3>3. pc'[c] = pc[c] /\ left'[c] = left[c]
      BY <2>3, <3>2
    <3>. QED
      BY <3>3 DEF StepsLeft
  <2>4. ASSUME NEW d \in Clients, Step(d) \/ Fail(d), d # c
        PROVE  StepsLeft(c)' = StepsLeft(c)
    BY <1>1, <2>4, OthersStay
  <2>5. CASE UNCHANGED vars
    <3>1. pc' = pc /\ left' = left
      BY <2>5 DEF vars, local
    <3>2. StepsLeft(c)' = StepsLeft(c)
      BY <3>1 DEF StepsLeft
    <3>. QED
      BY <2>1, <2>2, <3>2
  <2>6. CASE Step(c) \/ Fail(c)
    <3>1. left'[c] \in Nat /\ (pc'[c] \notin {"idle", "exec"} => left'[c] >= 1)
      BY <1>1, StepShapes, ConstantsAssumption DEF Shapes, Shaped, TypeOK
    <3>2. StepsLeft(c)' \in Nat
      BY <3>1 DEF StepsLeft, CommandsLeft
    <3>. QED
      BY <2>1, <2>2, <2>6, <3>2
  <2>7. CASE ~(Step(c) \/ Fail(c))
    BY <1>1, <2>2, <2>3, <2>4, <2>5, <2>7 DEF Next
  <2>. QED
    BY <2>6, <2>7
<1>2. Shapes /\ [Next]_vars => \A c \in Clients : Nearer(c)
  BY <1>1
<1>. HIDE DEF Nearer
<1>3. Spec => [][\A c \in Clients : Nearer(c)]_vars
  BY InitShapes, StepShapes, <1>2, PTL DEF Spec
<1>. QED
  BY <1>3 DEF Nearer, CallsGetNearer
=============================================================================
