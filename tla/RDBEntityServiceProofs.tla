----------------------- MODULE RDBEntityServiceProofs -----------------------
(***************************************************************************)
(* Proofs about RDBEntityService for any clients, rows, values, pairs,     *)
(* requests, numbers of calls and faults, both kinds of database.          *)
(*                                                                         *)
(* The invariants tell what a call has learnt at each statement: Typed of  *)
(* the state, Looked of the rows a lookup found and a write changed, Linked*)
(* of the rows an update returns and its transaction's pairs, and Paged of *)
(* a page awaiting its total.  Seen, the rows at the call's last statement *)
(* under its transaction's writes, is what they go by: a call that did not *)
(* race still finds them.                                                  *)
(***************************************************************************)
EXTENDS RDBEntityService, FiniteSetTheorems, TLAPS

-----------------------------------------------------------------------------
(* Functions on a part of a set.                                           *)

LEMMA SomeIs ==
  ASSUME NEW S, NEW T, NEW f
  PROVE  f \in Some(S, T) <=> DOMAIN f \subseteq S /\ f \in [DOMAIN f -> T]
  BY DEF Some

LEMMA NoneOfThem ==
  /\ DOMAIN <<>> = {}
  /\ \A S, T : <<>> \in Some(S, T)
<1>1. DOMAIN <<>> = {}
  OBVIOUS
<1>2. <<>> \in [{} -> {}]
  OBVIOUS
<1>. QED
  BY <1>1, <1>2, SomeIs

LEMMA OverImage ==
  ASSUME NEW S, NEW T, NEW f \in Some(S, T), NEW g \in [S -> T]
  PROVE  /\ Over(f, g) \in [S -> T]
         /\ \A i \in DOMAIN f : Over(f, g)[i] = f[i]
         /\ \A i \in S \ DOMAIN f : Over(f, g)[i] = g[i]
  BY SomeIs DEF Over

LEMMA OverSome ==
  ASSUME NEW S, NEW T, NEW f \in Some(S, T), NEW g \in Some(S, T)
  PROVE  /\ Over(f, g) \in Some(S, T)
         /\ DOMAIN Over(f, g) = DOMAIN f \cup DOMAIN g
         /\ \A i \in DOMAIN f : Over(f, g)[i] = f[i]
         /\ \A i \in DOMAIN g \ DOMAIN f : Over(f, g)[i] = g[i]
<1>. DEFINE h == Over(f, g)
<1>1. DOMAIN f \subseteq S /\ f \in [DOMAIN f -> T]
  BY SomeIs
<1>2. DOMAIN g \subseteq S /\ g \in [DOMAIN g -> T]
  BY SomeIs
<1>3. DOMAIN h \subseteq S /\ h \in [DOMAIN h -> T]
  BY <1>1, <1>2 DEF Over
<1>4. h \in Some(S, T)
  BY ONLY <1>3, SomeIs
<1>. QED
  BY <1>1, <1>2, <1>4 DEF Over

LEMMA RestrictSome ==
  ASSUME NEW S, NEW T, NEW g \in [S -> T \cup {None}], NEW D \in SUBSET S,
         \A i \in D : g[i] # None
  PROVE  /\ Restrict(g, D) \in Some(S, T)
         /\ DOMAIN Restrict(g, D) = D
         /\ \A i \in D : Restrict(g, D)[i] = g[i]
<1>. DEFINE h == Restrict(g, D)
<1>1. DOMAIN h \subseteq S /\ h \in [DOMAIN h -> T]
  BY DEF Restrict
<1>2. h \in Some(S, T)
  BY ONLY <1>1, SomeIs
<1>. QED
  BY <1>2 DEF Restrict

-----------------------------------------------------------------------------
(* Types.                                                                  *)

Transaction == [by : {"nobody", "call", "caller"}, writes : Some(Ids, Row \cup {None}),
                snapshot : Image \cup {None}]

\* what a call may be doing at a statement
Shape(c) ==
  /\ ~Open(c) => tx[c] = NoTransaction
  /\ pc[c] # "idle" => request[c] \in Requests
  /\ pc[c] = "write" => request[c].op \in {"save", "update", "delete"}
  /\ pc[c] = "write" /\ request[c].op = "save" => DOMAIN found[c] \subseteq DOMAIN request[c].data
  /\ pc[c] # "idle" /\ request[c].op = "update" => request[c].value \in Values
  /\ pc[c] \in {"reread", "unlink", "link"} => request[c].op = "update"
  /\ pc[c] = "total" => request[c].op = "find"
  /\ pc[c] \in {"unlink", "link"} => Cardinality(DOMAIN items[c]) = 1

Typed == TypeOK /\ \A c \in Clients : Shape(c)

LEMMA ImageIs ==
  ASSUME NEW rows \in Image, NEW i \in Ids, rows[i] # None
  PROVE  rows[i] \in Row
  BY DEF Image

LEMMA RowsTyped ==
  ASSUME Typed, NEW c \in Clients
  PROVE  /\ tx[c] \in Transaction
         /\ Snapshot(c) \in Image
         /\ SelectedRows(c) \in Image
         /\ CurrentRows(c) \in Image
<1>1. tx[c] \in Transaction
  BY DEF Typed, TypeOK, Transaction
<1>2. Snapshot(c) \in Image
  BY <1>1 DEF Typed, TypeOK, Transaction, Snapshot
<1>3. ASSUME NEW g \in Image PROVE Over(tx[c].writes, g) \in Image
  BY <1>1, OverImage DEF Transaction, Image
<1>. QED
  BY <1>1, <1>2, <1>3 DEF Typed, TypeOK, SelectedRows, CurrentRows

\* what is asked
LEMMA Asked ==
  ASSUME NEW r \in Requests
  PROVE  /\ r.op \in {"save", "update", "delete", "find", "findOne", "count"}
         /\ r.forced \in BOOLEAN
         /\ r.op = "save" => r.data \in Some(Ids, Values)
         /\ r.op # "save" => r.filter \in Filter
         /\ r.op = "update" =>
              /\ r.value \in Values \cup {None} /\ r.withDeleted \in BOOLEAN
              /\ r.returnData \in BOOLEAN /\ r.returnOriginalItems \in BOOLEAN
              /\ r.unlink \in SUBSET Types /\ r.link \in SUBSET Types
         /\ r.op = "delete" => r.softDelete \in BOOLEAN /\ r.returnOriginalItems \in BOOLEAN
         /\ r.op = "find" => r.findAll \in BOOLEAN /\ r.page \in Nat \ {0}
         /\ r.op \in {"find", "findOne", "count"} => r.withDeleted \in BOOLEAN
<1>1. r \in AllRequests
  BY ConstantsAssumption
<1>. QED
  BY <1>1 DEF AllRequests

LEMMA MatchesAre ==
  ASSUME NEW rows \in Image, NEW filter \in Filter, NEW w \in BOOLEAN
  PROVE  /\ Matches(rows, filter, w) \subseteq Ids
         /\ Matches(rows, filter, w) \subseteq filter.ids
         /\ IsFiniteSet(Matches(rows, filter, w))
         /\ \A i \in Matches(rows, filter, w) : rows[i] # None /\ rows[i] \in Row
<1>1. Matches(rows, filter, w) \subseteq Ids
  BY DEF Matches, Filter
<1>2. IsFiniteSet(Matches(rows, filter, w))
  BY <1>1, ConstantsAssumption, FS_Subset
<1>. QED
  BY <1>1, <1>2, ImageIs DEF Matches

LEMMA SelectTyped ==
  ASSUME Typed, NEW c \in Clients, Select(c)
  PROVE  /\ tx' \in [Clients -> Transaction]
         /\ \A d \in Clients : /\ tx'[d].by = tx[d].by
                               /\ tx'[d].writes = tx[d].writes
                               /\ tx[d] = NoTransaction => tx'[d] = NoTransaction
         /\ \A d \in Clients \ {c} : tx'[d] = tx[d]
<1>1. tx \in [Clients -> Transaction] /\ Snapshot(c) \in Image
  BY RowsTyped DEF Typed, TypeOK, Transaction
<1>2. CASE UsesTransaction(c) /\ ~ReturningSupported
  <2>. DEFINE new == [tx[c] EXCEPT !.snapshot = Snapshot(c)]
  <2>1. new \in Transaction /\ new.by = tx[c].by /\ new.writes = tx[c].writes
    BY <1>1 DEF Transaction
  <2>2. tx' = [tx EXCEPT ![c] = new] /\ tx[c] # NoTransaction
    BY <1>2 DEF Select, UsesTransaction, Open, NoTransaction
  <2>. HIDE DEF new
  <2>. QED
    BY <1>1, <2>1, <2>2
<1>3. CASE ~(UsesTransaction(c) /\ ~ReturningSupported)
  BY <1>1, <1>3 DEF Select
<1>. QED
  BY <1>2, <1>3

LEMMA WriteTyped ==
  ASSUME Typed, NEW c \in Clients, NEW changes \in Some(Ids, Row \cup {None}),
         Write(c, changes)
  PROVE  /\ db' \in Image
         /\ tx' \in [Clients -> Transaction]
         /\ \A d \in Clients : /\ tx'[d].by = tx[d].by
                               /\ tx[d] = NoTransaction => tx'[d] = NoTransaction
         /\ \A d \in Clients \ {c} : tx'[d] = tx[d]
         /\ Open(c) => tx'[c].writes = Over(changes, tx[c].writes) /\ db' = db
         /\ ~Open(c) => tx' = tx /\ db' = Over(changes, db)
<1>1. tx \in [Clients -> Transaction] /\ db \in Image
  BY DEF Typed, TypeOK, Transaction
<1>2. Over(changes, tx[c].writes) \in Some(Ids, Row \cup {None})
  BY <1>1, OverSome DEF Transaction
<1>3. Over(changes, db) \in Image
  BY <1>1, OverImage DEF Image
<1>4. CASE Open(c)
  <2>. DEFINE new == [tx[c] EXCEPT !.writes = Over(changes, tx[c].writes)]
  <2>1. /\ new \in Transaction /\ new.by = tx[c].by
        /\ new.writes = Over(changes, tx[c].writes)
    BY <1>1, <1>2 DEF Transaction
  <2>2. tx' = [tx EXCEPT ![c] = new] /\ tx[c] # NoTransaction /\ db' = db
    BY <1>4 DEF Write, UsesTransaction, Open, NoTransaction
  <2>. HIDE DEF new
  <2>. QED
    BY <1>1, <1>4, <2>1, <2>2
<1>5. CASE ~Open(c)
  BY <1>1, <1>3, <1>5 DEF Write, UsesTransaction
<1>. QED
  BY <1>4, <1>5

\* the fields every step of one client leaves to the others
OthersKeep(c) ==
  \A d \in Clients \ {c} :
    /\ tx'[d] = tx[d] /\ pc'[d] = pc[d] /\ request'[d] = request[d]
    /\ found'[d] = found[d] /\ items'[d] = items[d] /\ count'[d] = count[d]
    /\ more'[d] = more[d] /\ outcome'[d] = outcome[d] /\ base'[d] = base[d]
    /\ raced'[d] = raced[d] /\ wrote'[d] = wrote[d] /\ before'[d] = before[d]

LEMMA OthersShape ==
  ASSUME Typed, NEW c \in Clients, OthersKeep(c)
  PROVE  \A d \in Clients \ {c} : Shape(d)'
  BY DEF Typed, Shape, OthersKeep, Open

LEMMA InitTyped ==
  ASSUME Init
  PROVE  Typed
<1>1. TypeOK
  BY ConstantsAssumption, NoneOfThem
     DEF Init, TypeOK, Rows, NoTransaction, Labels, Outcomes, Image
<1>2. \A c \in Clients : Shape(c)
  BY DEF Init, Shape, Open, NoTransaction
<1>. QED
  BY <1>1, <1>2 DEF Typed

LEMMA FinishTyped ==
  ASSUME Typed, NEW c \in Clients, Finish(c)
  PROVE  /\ pc' \in [Clients -> Labels] /\ outcome' \in [Clients -> Outcomes]
         /\ pc'[c] \in {"idle", "commit"}
         /\ \A d \in Clients \ {c} : pc'[d] = pc[d] /\ outcome'[d] = outcome[d]
<1>1. pc \in [Clients -> Labels] /\ outcome \in [Clients -> Outcomes]
  BY DEF Typed, TypeOK
<1>2. {"idle", "commit"} \subseteq Labels /\ "ok" \in Outcomes
  BY DEF Labels, Outcomes
<1>. QED
  BY <1>1, <1>2 DEF Finish

LEMMA ContinueTyped ==
  ASSUME Typed, NEW c \in Clients, NEW l \in Labels, Continue(c, l)
  PROVE  /\ pc' \in [Clients -> Labels] /\ outcome' = outcome
         /\ pc'[c] = l
         /\ \A d \in Clients \ {c} : pc'[d] = pc[d]
  BY DEF Typed, TypeOK, Continue

\* a statement that throws keeps what is typed
LEMMA ThrowTyped ==
  ASSUME Typed, NEW c \in Clients, NEW why \in Outcomes, Throw(c, why),
         faults' \in 0 .. MaxFaults
  PROVE  Typed' /\ OthersKeep(c)
<1>1. TypeOK'
  BY NoneOfThem DEF Typed, TypeOK, Throw, NoTransaction, Labels, history
<1>2. OthersKeep(c)
  BY DEF Typed, TypeOK, Throw, OthersKeep, history
<1>3. Shape(c)'
  BY DEF Typed, TypeOK, Shape, Throw, Open
<1>. QED
  BY <1>1, <1>2, <1>3, OthersShape DEF Typed

\* the steps of one client
LEMMA OneClient ==
  ASSUME Typed, NEW c \in Clients, TypeOK', OthersKeep(c), Shape(c)'
  PROVE  Typed'
  BY OthersShape DEF Typed

-----------------------------------------------------------------------------
(* What the writing statements write.                                      *)

LEMMA SavedTyped ==
  ASSUME Typed, NEW c \in Clients, At(c, "write", {"save"})
  PROVE  /\ ToInsert(c) \subseteq DOMAIN request[c].data
         /\ ToUpdate(c) \subseteq DOMAIN request[c].data
         /\ request[c].data \in Some(Ids, Values)
         /\ Saved(c) \in Some(Ids, Row \cup {None})
         /\ DOMAIN Saved(c) \subseteq DOMAIN request[c].data
<1>1. request[c] \in Requests /\ request[c].op = "save"
  BY DEF At, Typed, Shape
<1>2. request[c].data \in Some(Ids, Values)
  BY <1>1, Asked
<1>3. /\ DOMAIN request[c].data \subseteq Ids
      /\ \A i \in DOMAIN request[c].data : request[c].data[i] \in Values
  BY <1>2, SomeIs
<1>4. ToUpdate(c) \subseteq DOMAIN request[c].data /\ ToInsert(c) \subseteq DOMAIN request[c].data
  BY <1>1 DEF At, Typed, Shape, ToUpdate, ToInsert
<1>5. CurrentRows(c) \in Image
  BY RowsTyped
<1>. DEFINE updated == {i \in ToUpdate(c) : CurrentRows(c)[i] # None}
            written == ToInsert(c) \cup updated
<1>6. written \subseteq DOMAIN request[c].data /\ written \subseteq Ids
  BY <1>3, <1>4
<1>7. ASSUME NEW i \in updated PROVE CurrentRows(c)[i] \in Row
  BY <1>5, <1>6, ImageIs
<1>8. DOMAIN Saved(c) = written
  BY DEF Saved
<1>9. ASSUME NEW i \in written PROVE Saved(c)[i] \in Row
  <2>1. CASE i \in ToInsert(c)
    BY <2>1, <1>3, <1>6 DEF Saved, Row
  <2>2. CASE i \notin ToInsert(c)
    <3>1. Saved(c)[i] = [CurrentRows(c)[i] EXCEPT !.value = request[c].data[i]]
      BY <2>2 DEF Saved
    <3>2. CurrentRows(c)[i] \in Row /\ request[c].data[i] \in Values
      BY <2>2, <1>3, <1>6, <1>7
    <3>. QED
      BY <3>1, <3>2 DEF Row
  <2>. QED
    BY <2>1, <2>2
<1>10. Saved(c) \in [DOMAIN Saved(c) -> Row \cup {None}]
  BY <1>8, <1>9 DEF Saved
<1>. QED
  BY <1>2, <1>4, <1>6, <1>8, <1>10, SomeIs

LEMMA TargetsTyped ==
  ASSUME Typed, NEW c \in Clients, At(c, "write", {"update", "delete"})
  PROVE  /\ Targets(c) \subseteq Ids /\ IsFiniteSet(Targets(c))
         /\ Cardinality(Targets(c)) \in Nat
         /\ \A i \in Targets(c) : CurrentRows(c)[i] # None /\ CurrentRows(c)[i] \in Row
<1>1. request[c] \in Requests /\ request[c].op \in {"update", "delete"}
  BY DEF At, Typed, Shape
<1>2. request[c].filter \in Filter
  BY <1>1, Asked
<1>3. CurrentRows(c) \in Image
  BY RowsTyped
<1>4. DOMAIN found[c] \subseteq Ids
  BY SomeIs DEF Typed, TypeOK, Rows
<1>5. /\ Targets(c) \subseteq Ids
      /\ \A i \in Targets(c) : CurrentRows(c)[i] # None
  BY <1>2, <1>3, <1>4, MatchesAre DEF Targets
<1>6. IsFiniteSet(Targets(c)) /\ Cardinality(Targets(c)) \in Nat
  BY <1>5, ConstantsAssumption, FS_Subset, FS_CardinalityType
<1>. QED
  BY <1>3, <1>5, <1>6, ImageIs

LEMMA ItemTyped ==
  ASSUME Typed, NEW c \in Clients, pc[c] \in {"unlink", "link"}
  PROVE  /\ Item(c) \in DOMAIN items[c] /\ Item(c) \in Ids
         /\ request[c] \in Requests /\ request[c].op = "update"
<1>1. DOMAIN items[c] \subseteq Ids
  BY SomeIs DEF Typed, TypeOK, Rows
<1>2. Cardinality(DOMAIN items[c]) = 1
  BY DEF Typed, Shape
<1>3. DOMAIN items[c] # {}
  BY <1>2, FS_EmptySet
<1>. QED
  BY <1>1, <1>3 DEF Item, Typed, Shape

-----------------------------------------------------------------------------
(* Every step keeps the types.                                             *)

LEMMA CallsTyped ==
  ASSUME Typed, NEW c \in Clients,
         Begin(c) \/ \E r \in Requests : Call(c, r)
  PROVE  Typed' /\ OthersKeep(c)
<1>1. CASE Begin(c)
  <2>1. tx[c] \in Transaction /\ tx \in [Clients -> Transaction]
    BY DEF Typed, TypeOK, Transaction
  <2>. DEFINE new == [tx[c] EXCEPT !.by = "caller"]
  <2>2. new \in Transaction /\ new.by = "caller" /\ tx' = [tx EXCEPT ![c] = new]
    BY <1>1, <2>1 DEF Begin, Transaction
  <2>. HIDE DEF new
  <2>3. tx' \in [Clients -> Transaction] /\ tx'[c].by = "caller"
    BY <2>1, <2>2
  <2>4. TypeOK'
    BY <1>1, <2>3 DEF Begin, Typed, TypeOK, history, Transaction, Outcomes
  <2>5. OthersKeep(c)
    BY <1>1, <2>2 DEF Begin, Typed, TypeOK, history, OthersKeep
  <2>6. Shape(c)'
    BY <1>1, <2>3 DEF Begin, Typed, TypeOK, Shape, Open
  <2>. QED
    BY <2>4, <2>5, <2>6, OneClient
<1>2. ASSUME NEW r \in Requests, Call(c, r) PROVE Typed' /\ OthersKeep(c)
  <2>1. tx[c] \in Transaction /\ tx \in [Clients -> Transaction]
    BY DEF Typed, TypeOK, Transaction
  <2>2. /\ tx' \in [Clients -> Transaction]
        /\ \A d \in Clients \ {c} : tx'[d] = tx[d]
        /\ ~Open(c)' => tx'[c] = NoTransaction
    <3>1. CASE IsRefused(r) /\ tx' = [tx EXCEPT ![c] = NoTransaction]
      BY <2>1, <3>1, NoneOfThem DEF NoTransaction, Transaction, Image
    <3>2. CASE tx' = IF OpensTransaction(c, r) THEN [tx EXCEPT ![c].by = "call"] ELSE tx
      <4>. DEFINE new == [tx[c] EXCEPT !.by = "call"]
      <4>1. new \in Transaction /\ new.by = "call"
        BY <2>1 DEF Transaction
      <4>2. tx' = [tx EXCEPT ![c] = new] \/ tx' = tx
        BY <3>2
      <4>. HIDE DEF new
      <4>3. tx'[c].by = "call" \/ tx' = tx
        BY <2>1, <4>1, <4>2
      <4>. QED
        BY <2>1, <4>1, <4>2, <4>3 DEF Typed, Shape, Open
    <3>. QED
      BY <1>2, <3>1, <3>2 DEF Call
  <2>3. /\ pc' \in [Clients -> Labels] /\ outcome' \in [Clients -> Outcomes]
        /\ \A d \in Clients \ {c} : pc'[d] = pc[d] /\ outcome'[d] = outcome[d]
        /\ pc'[c] \in {"idle", FirstStatement(r)}
        /\ pc'[c] # "idle" => ~IsRefused(r)
    <3>1. pc \in [Clients -> Labels] /\ outcome \in [Clients -> Outcomes]
      BY DEF Typed, TypeOK
    <3>2. FirstStatement(r) \in Labels /\ {"threw", "none"} \subseteq Outcomes
      BY DEF FirstStatement, Labels, Outcomes
    <3>3. \/ /\ UNCHANGED pc /\ pc[c] = "idle"
             /\ outcome' = [outcome EXCEPT ![c] = "threw"]
          \/ /\ ~IsRefused(r) /\ outcome' = [outcome EXCEPT ![c] = "none"]
             /\ pc' = [pc EXCEPT ![c] = FirstStatement(r)]
      BY <1>2 DEF Call
    <3>. QED
      BY <3>1, <3>2, <3>3
  <2>4. TypeOK'
    <3>1. calls' \in 0 .. MaxCalls
      BY <1>2, ConstantsAssumption DEF Call, Typed, TypeOK
    <3>2. <<>> \in Rows
      BY NoneOfThem DEF Rows
    <3>. QED
      BY <1>2, <2>2, <2>3, <3>1, <3>2 DEF Call, Typed, TypeOK, Transaction
  <2>5. OthersKeep(c)
    BY <1>2, <2>2, <2>3 DEF Call, Typed, TypeOK, OthersKeep
  <2>6. request'[c] = r
    BY <1>2 DEF Call, Typed, TypeOK
  <2>7. /\ pc'[c] \in {"idle", "select", "write"}
        /\ pc'[c] = "write" => r.op \in {"update", "delete"}
        /\ pc'[c] # "idle" /\ r.op = "update" => r.value \in Values
    BY <2>3, Asked DEF FirstStatement, IsRefused
  <2>8. Shape(c)'
    BY <2>2, <2>6, <2>7 DEF Shape
  <2>. QED
    BY <2>4, <2>5, <2>8, OneClient
<1>. QED
  BY <1>1, <1>2

LEMMA SaveTyped ==
  ASSUME Typed, NEW c \in Clients,
         SaveLoad(c) \/ SaveWrite(c) \/ SaveFails(c)
  PROVE  Typed' /\ OthersKeep(c)
<1>1. request[c] \in Requests /\ request[c].op = "save"
  BY DEF SaveLoad, SaveWrite, SaveFails, At, Typed, Shape
<1>2. request[c].data \in Some(Ids, Values) /\ DOMAIN request[c].data \subseteq Ids
  BY <1>1, Asked, SomeIs
<1>3. CASE SaveLoad(c)
  <2>. DEFINE ids == {i \in DOMAIN request[c].data : SelectedRows(c)[i] # None}
              new == Restrict(SelectedRows(c), ids)
  <2>1. new \in Rows /\ DOMAIN new = ids
    BY <1>2, RowsTyped, RestrictSome DEF Image, Rows
  <2>2. found' = [found EXCEPT ![c] = new] /\ base' = [base EXCEPT ![c] = Snapshot(c)]
    BY <1>3 DEF SaveLoad, FirstSelect
  <2>3. Select(c) /\ Continue(c, "write")
    BY <1>3 DEF SaveLoad, FirstSelect
  <2>4. ids \subseteq DOMAIN request[c].data
    OBVIOUS
  <2>. HIDE DEF new, ids
  <2>5. TypeOK'
    BY <1>3, <2>1, <2>2, <2>3, SelectTyped, ContinueTyped, RowsTyped
       DEF SaveLoad, Typed, TypeOK, Transaction, Labels
  <2>6. OthersKeep(c)
    BY <1>3, <2>2, <2>3, SelectTyped, ContinueTyped
       DEF SaveLoad, Typed, TypeOK, OthersKeep, Labels
  <2>7. pc'[c] = "write" /\ request' = request /\ found'[c] = new /\ items' = items
    BY <1>3, <2>2, <2>3, ContinueTyped DEF SaveLoad, Typed, TypeOK, Labels
  <2>8. ~Open(c)' => tx'[c] = NoTransaction
    BY <2>3, SelectTyped DEF Open, Typed, Shape
  <2>9. Shape(c)'
    BY <1>1, <2>1, <2>4, <2>7, <2>8 DEF Shape
  <2>. QED
    BY <2>5, <2>6, <2>9, OneClient
<1>4. CASE SaveWrite(c)
  <2>1. Saved(c) \in Some(Ids, Row \cup {None}) /\ DOMAIN Saved(c) \subseteq Ids
    BY <1>2, <1>4, SavedTyped DEF SaveWrite
  <2>2. Write(c, Saved(c)) /\ Finish(c)
    BY <1>4 DEF SaveWrite
  <2>3. TypeOK'
    BY <1>4, <2>1, <2>2, WriteTyped, FinishTyped, RowsTyped
       DEF SaveWrite, Races, Typed, TypeOK, Transaction
  <2>4. OthersKeep(c)
    BY <1>4, <2>1, <2>2, WriteTyped, FinishTyped
       DEF SaveWrite, Races, Typed, TypeOK, OthersKeep
  <2>5. /\ pc'[c] \in {"idle", "commit"} /\ request' = request
        /\ ~Open(c)' => tx'[c] = NoTransaction
    BY <1>4, <2>1, <2>2, WriteTyped, FinishTyped DEF SaveWrite, Open, Typed, Shape
  <2>6. Shape(c)'
    BY <1>1, <2>5 DEF Shape
  <2>. QED
    BY <2>3, <2>4, <2>6, OneClient
<1>5. CASE SaveFails(c)
  BY <1>5, ThrowTyped DEF SaveFails, UniqueViolation, Outcomes, Typed, TypeOK
<1>. QED
  BY <1>3, <1>4, <1>5

LEMMA LookupsTyped ==
  ASSUME Typed, NEW c \in Clients,
         UpdateLookup(c) \/ DeleteLookup(c) \/ WriteFails(c)
  PROVE  Typed' /\ OthersKeep(c)
<1>1. CASE WriteFails(c)
  BY <1>1, ThrowTyped DEF WriteFails, Outcomes, Typed, TypeOK
<1>2. CASE UpdateLookup(c) \/ DeleteLookup(c)
  <2>1. /\ request[c] \in Requests /\ request[c].op \in {"update", "delete"}
        /\ request[c].op = "update" => request[c].value \in Values
    BY <1>2, Asked DEF UpdateLookup, DeleteLookup, At, Typed, Shape
  <2>. DEFINE all == Matches(SelectedRows(c), request[c].filter, FALSE)
  <2>2. PICK ids \in SUBSET all : FirstSelect(c, ids)
    <3>1. \A s \in Page(all) : s \subseteq all
      BY DEF Page
    <3>. QED
      BY <1>2, <3>1 DEF UpdateLookup, DeleteLookup
  <2>. DEFINE new == Restrict(SelectedRows(c), ids)
  <2>3. new \in Rows
    <3>1. SelectedRows(c) \in Image /\ request[c].filter \in Filter
      BY <2>1, RowsTyped, Asked
    <3>2. ids \subseteq Ids /\ \A i \in ids : SelectedRows(c)[i] # None
      BY <3>1, MatchesAre
    <3>. QED
      BY <3>1, <3>2, RestrictSome DEF Image, Rows
  <2>4. found' = [found EXCEPT ![c] = new] /\ base' = [base EXCEPT ![c] = Snapshot(c)]
    BY <2>2 DEF FirstSelect
  <2>5. Select(c) /\ Continue(c, "write")
    BY <1>2, <2>2 DEF UpdateLookup, DeleteLookup, FirstSelect
  <2>6. UNCHANGED <<db, request, items, count, more, calls, faults, raced, wrote, before>>
    BY <1>2 DEF UpdateLookup, DeleteLookup
  <2>. HIDE DEF new, all
  <2>7. TypeOK'
    BY <2>3, <2>4, <2>5, <2>6, SelectTyped, ContinueTyped, RowsTyped
       DEF Typed, TypeOK, Transaction, Labels
  <2>8. OthersKeep(c)
    BY <2>4, <2>5, <2>6, SelectTyped, ContinueTyped DEF Typed, TypeOK, OthersKeep, Labels
  <2>9. pc'[c] = "write" /\ request' = request /\ (~Open(c)' => tx'[c] = NoTransaction)
    BY <2>5, <2>6, ContinueTyped, SelectTyped DEF Open, Typed, Shape, Labels
  <2>10. Shape(c)'
    BY <2>1, <2>9 DEF Shape
  <2>. QED
    BY <2>7, <2>8, <2>10, OneClient
<1>. QED
  BY <1>1, <1>2

LEMMA AfterUpdateTyped ==
  ASSUME Typed, NEW c \in Clients, NEW returned, AfterUpdate(c, returned)
  PROVE  /\ pc' \in [Clients -> Labels] /\ outcome' \in [Clients -> Outcomes]
         /\ pc'[c] \in {"idle", "commit", "unlink", "link"}
         /\ pc'[c] \in {"unlink", "link"} => Cardinality(DOMAIN returned) = 1
         /\ \A d \in Clients \ {c} : pc'[d] = pc[d] /\ outcome'[d] = outcome[d]
<1>1. CASE RelatedStatement(request[c], returned) = "none"
  BY <1>1, FinishTyped DEF AfterUpdate
<1>2. CASE RelatedStatement(request[c], returned) # "none"
  <2>. DEFINE l == RelatedStatement(request[c], returned)
  <2>1. l \in {"unlink", "link"} /\ Cardinality(DOMAIN returned) = 1
    BY <1>2 DEF RelatedStatement
  <2>2. Continue(c, l) /\ l \in Labels
    BY <1>2, <2>1 DEF AfterUpdate, Labels
  <2>3. outcome \in [Clients -> Outcomes]
    BY DEF Typed, TypeOK
  <2>. HIDE DEF l
  <2>. QED
    BY <2>1, <2>2, <2>3, ContinueTyped
<1>. QED
  BY <1>1, <1>2

\* what both writing statements share
LEMMA WritesTyped ==
  ASSUME Typed, NEW c \in Clients, At(c, "write", {"update", "delete"}),
         NEW changes \in Some(Ids, Row \cup {None}), Writes(c, changes)
  PROVE  /\ db' \in Image /\ tx' \in [Clients -> Transaction]
         /\ \A d \in Clients \ {c} : tx'[d] = tx[d]
         /\ ~Open(c)' => tx'[c] = NoTransaction
         /\ base' \in [Clients -> Image] /\ before' \in [Clients -> Image]
         /\ raced' \in [Clients -> BOOLEAN] /\ wrote' \in [Clients -> SUBSET Ids]
         /\ \A d \in Clients \ {c} :
              /\ base'[d] = base[d] /\ before'[d] = before[d]
              /\ raced'[d] = raced[d] /\ wrote'[d] = wrote[d]
         /\ UNCHANGED <<request, found, more, calls, faults>>
<1>1. Write(c, changes)
  BY DEF Writes
<1>2. /\ base' = [base EXCEPT ![c] = db'] /\ before' = [before EXCEPT ![c] = CurrentRows(c)]
      /\ wrote' = [wrote EXCEPT ![c] = Targets(c)]
      /\ UNCHANGED <<request, found, more, calls, faults>>
  BY DEF Writes
<1>3. CurrentRows(c) \in Image /\ Targets(c) \in SUBSET Ids
  BY RowsTyped, TargetsTyped
<1>4. ~Open(c)' => tx'[c] = NoTransaction
  BY <1>1, WriteTyped DEF Open, Typed, Shape
<1>5. raced' \in [Clients -> BOOLEAN] /\ \A d \in Clients \ {c} : raced'[d] = raced[d]
  <2>1. ASSUME NEW ids, NEW rows, Races(c, ids, rows)
        PROVE  raced' \in [Clients -> BOOLEAN] /\ \A d \in Clients \ {c} : raced'[d] = raced[d]
    BY <2>1 DEF Races, Typed, TypeOK
  <2>. QED
    BY <2>1 DEF Writes, Typed, TypeOK
<1>. QED
  BY <1>1, <1>2, <1>3, <1>4, <1>5, WriteTyped DEF Typed, TypeOK

LEMMA UpdateWriteTyped ==
  ASSUME Typed, NEW c \in Clients, UpdateWrite(c)
  PROVE  Typed' /\ OthersKeep(c)
<1>. DEFINE new == [i \in Targets(c) |-> [CurrentRows(c)[i] EXCEPT !.value = request[c].value]]
            w == Cardinality(Targets(c))
<1>1. At(c, "write", {"update"}) /\ Writes(c, new)
  BY DEF UpdateWrite
<1>2. At(c, "write", {"update", "delete"})
  BY <1>1 DEF At
<1>3. request[c] \in Requests /\ request[c].op = "update" /\ request[c].value \in Values
  BY <1>1 DEF At, Typed, Shape
<1>4. new \in Rows /\ new \in Some(Ids, Row \cup {None}) /\ w \in Nat
  <2>1. ASSUME NEW i \in Targets(c) PROVE new[i] \in Row
    <3>1. CurrentRows(c)[i] \in Row
      BY <1>2, TargetsTyped
    <3>. QED
      BY <1>3, <3>1 DEF Row
  <2>2. DOMAIN new \subseteq Ids /\ new \in [DOMAIN new -> Row]
    BY <1>2, <2>1, TargetsTyped
  <2>3. new \in [DOMAIN new -> Row \cup {None}]
    BY <2>2
  <2>. QED
    BY <1>2, <2>2, <2>3, SomeIs, TargetsTyped DEF Rows
<1>. HIDE DEF new, w
<1>5. \/ /\ AfterUpdate(c, new)
         /\ items' = [items EXCEPT ![c] = new] /\ count' = [count EXCEPT ![c] = w]
      \/ Continue(c, "reread") /\ UNCHANGED <<items, count>>
      \/ /\ AfterUpdate(c, <<>>)
         /\ UNCHANGED items /\ count' = [count EXCEPT ![c] = w]
  BY DEF UpdateWrite, new, w
<1>6. /\ pc' \in [Clients -> Labels] /\ outcome' \in [Clients -> Outcomes]
      /\ \A d \in Clients \ {c} : pc'[d] = pc[d] /\ outcome'[d] = outcome[d]
      /\ pc'[c] \in {"idle", "commit", "unlink", "link", "reread"}
      /\ pc'[c] \in {"unlink", "link"} => Cardinality(DOMAIN items'[c]) = 1
  <2>1. CASE AfterUpdate(c, new) /\ items' = [items EXCEPT ![c] = new]
    BY <2>1, AfterUpdateTyped DEF Typed, TypeOK
  <2>2. CASE Continue(c, "reread")
    BY <2>2, ContinueTyped DEF Typed, TypeOK, Labels
  <2>3. CASE AfterUpdate(c, <<>>)
    BY <2>3, AfterUpdateTyped, NoneOfThem, FS_EmptySet
  <2>. QED
    BY <1>5, <2>1, <2>2, <2>3
<1>7. items' \in [Clients -> Rows] /\ count' \in [Clients -> Nat]
      /\ \A d \in Clients \ {c} : items'[d] = items[d] /\ count'[d] = count[d]
  <2>1. items \in [Clients -> Rows] /\ count \in [Clients -> Nat]
    BY DEF Typed, TypeOK
  <2>. QED
    BY <1>4, <1>5, <2>1
<1>8. TypeOK' /\ OthersKeep(c)
  <2>1. TypeOK'
    BY <1>1, <1>2, <1>4, <1>6, <1>7, WritesTyped DEF Typed, TypeOK, Transaction
  <2>2. /\ UNCHANGED <<request, found, more>>
        /\ \A d \in Clients \ {c} :
             /\ tx'[d] = tx[d] /\ base'[d] = base[d] /\ before'[d] = before[d]
             /\ raced'[d] = raced[d] /\ wrote'[d] = wrote[d]
    BY <1>1, <1>2, <1>4, WritesTyped
  <2>3. OthersKeep(c)
    BY <1>6, <1>7, <2>2 DEF OthersKeep
  <2>. QED
    BY <2>1, <2>3
<1>9. Shape(c)'
  BY <1>1, <1>2, <1>3, <1>4, <1>6, WritesTyped DEF Shape
<1>. QED
  BY <1>8, <1>9, OneClient

LEMMA DeleteWriteTyped ==
  ASSUME Typed, NEW c \in Clients, DeleteWrite(c)
  PROVE  Typed' /\ OthersKeep(c)
<1>. DEFINE new == [i \in Targets(c) |->
                      IF request[c].softDelete THEN [CurrentRows(c)[i] EXCEPT !.deleted = TRUE]
                      ELSE None]
            w == Cardinality(Targets(c))
<1>1. At(c, "write", {"delete"}) /\ Writes(c, new) /\ Finish(c)
      /\ UNCHANGED items /\ count' = [count EXCEPT ![c] = w]
  BY DEF DeleteWrite
<1>2. /\ At(c, "write", {"update", "delete"})
      /\ request[c] \in Requests /\ request[c].op = "delete"
  BY <1>1 DEF At, Typed, Shape
<1>3. new \in Some(Ids, Row \cup {None}) /\ w \in Nat
  <2>1. ASSUME NEW i \in Targets(c) PROVE new[i] \in Row \cup {None}
    <3>1. CurrentRows(c)[i] \in Row
      BY <1>2, TargetsTyped
    <3>. QED
      BY <3>1 DEF Row
  <2>2. DOMAIN new \subseteq Ids /\ new \in [DOMAIN new -> Row \cup {None}]
    BY <1>2, <2>1, TargetsTyped
  <2>. QED
    BY <1>2, <2>2, SomeIs, TargetsTyped
<1>. HIDE DEF new, w
<1>4. count' \in [Clients -> Nat] /\ \A d \in Clients \ {c} : count'[d] = count[d]
  BY <1>1, <1>3 DEF Typed, TypeOK
<1>5. TypeOK'
  BY <1>1, <1>2, <1>3, <1>4, WritesTyped, FinishTyped DEF Typed, TypeOK, Transaction
<1>6. OthersKeep(c)
  <2>1. /\ UNCHANGED <<request, found, more>>
        /\ \A d \in Clients \ {c} :
             /\ tx'[d] = tx[d] /\ base'[d] = base[d] /\ before'[d] = before[d]
             /\ raced'[d] = raced[d] /\ wrote'[d] = wrote[d]
    BY <1>1, <1>2, <1>3, WritesTyped
  <2>2. \A d \in Clients \ {c} : pc'[d] = pc[d] /\ outcome'[d] = outcome[d]
    BY <1>1, FinishTyped
  <2>. QED
    BY <1>1, <1>4, <2>1, <2>2 DEF OthersKeep
<1>7. Shape(c)'
  BY <1>1, <1>2, <1>3, WritesTyped, FinishTyped DEF Shape
<1>. QED
  BY <1>5, <1>6, <1>7, OneClient

LEMMA RacesTyped ==
  ASSUME Typed, NEW c \in Clients, NEW ids, NEW rows, Races(c, ids, rows)
  PROVE  /\ raced' \in [Clients -> BOOLEAN]
         /\ \A d \in Clients \ {c} : raced'[d] = raced[d]
         /\ ~raced'[c] => ~raced[c] /\ \A i \in ids : base[c][i] = rows[i]
  BY DEF Races, Typed, TypeOK

LEMMA RereadTyped ==
  ASSUME Typed, NEW c \in Clients, Reread(c)
  PROVE  Typed' /\ OthersKeep(c)
<1>. DEFINE visible == Matches(SelectedRows(c), request[c].filter, FALSE)
            read == Restrict(SelectedRows(c), visible)
            w == Cardinality(DOMAIN read)
<1>1. request[c] \in Requests /\ request[c].op = "update" /\ request[c].value \in Values
  BY DEF Reread, Typed, Shape
<1>2. /\ Select(c) /\ AfterUpdate(c, read) /\ Races(c, request[c].filter.ids, Snapshot(c))
      /\ items' = [items EXCEPT ![c] = read] /\ count' = [count EXCEPT ![c] = w]
      /\ UNCHANGED <<db, request, found, more, calls, faults, base, wrote, before>>
  BY DEF Reread
<1>3. read \in Rows /\ w \in Nat
  <2>1. SelectedRows(c) \in Image /\ request[c].filter \in Filter
    BY <1>1, RowsTyped, Asked
  <2>2. /\ visible \subseteq Ids /\ IsFiniteSet(visible)
        /\ \A i \in visible : SelectedRows(c)[i] # None
    BY <2>1, MatchesAre
  <2>3. SelectedRows(c) \in [Ids -> Row \cup {None}]
    BY <2>1 DEF Image
  <2>4. DOMAIN read = visible /\ read \in Rows
    <3>. HIDE DEF visible
    <3>. QED
      BY <2>2, <2>3, RestrictSome DEF Rows
  <2>. QED
    BY <2>2, <2>4, FS_CardinalityType
<1>. HIDE DEF read, visible
<1>4. w = Cardinality(DOMAIN read)
  OBVIOUS
<1>. HIDE DEF w
<1>5. items' \in [Clients -> Rows] /\ count' \in [Clients -> Nat] /\ items'[c] = read
      /\ \A d \in Clients \ {c} : items'[d] = items[d] /\ count'[d] = count[d]
  BY <1>2, <1>3 DEF Typed, TypeOK
<1>6. TypeOK'
  BY <1>2, <1>5, SelectTyped, AfterUpdateTyped, RacesTyped DEF Typed, TypeOK, Transaction
<1>7. OthersKeep(c)
  BY <1>2, <1>5, SelectTyped, AfterUpdateTyped, RacesTyped DEF OthersKeep
<1>8. ~Open(c)' => tx'[c] = NoTransaction
  BY <1>2, SelectTyped DEF Open, Typed, Shape
<1>9. Shape(c)'
  BY <1>1, <1>2, <1>5, <1>8, AfterUpdateTyped DEF Shape
<1>. QED
  BY <1>6, <1>7, <1>9, OneClient

LEMMA PairsTyped ==
  ASSUME Typed, NEW c \in Clients, Unlink(c) \/ Link(c) \/ LinkFails(c)
  PROVE  Typed' /\ OthersKeep(c)
<1>1. CASE LinkFails(c)
  BY <1>1, ThrowTyped DEF LinkFails, Outcomes, Typed, TypeOK
<1>2. CASE Unlink(c) \/ Link(c)
  <2>1. /\ Item(c) \in Ids /\ request[c] \in Requests /\ request[c].op = "update"
        /\ request[c].unlink \in SUBSET Types /\ request[c].link \in SUBSET Types
        /\ request[c].value \in Values /\ Cardinality(DOMAIN items[c]) = 1
    BY <1>2, ItemTyped, Asked DEF Unlink, Link, Typed, Shape
  <2>2. CurrentRows(c)[Item(c)] = None \/ CurrentRows(c)[Item(c)] \in Row
    BY <2>1, RowsTyped DEF Image
  <2>3. \E changes \in Some(Ids, Row \cup {None}) : Write(c, changes)
    <3>1. ASSUME NEW row \in Row PROVE [i \in {Item(c)} |-> row] \in Some(Ids, Row \cup {None})
      <4>. DEFINE f == [i \in {Item(c)} |-> row]
      <4>1. DOMAIN f \subseteq Ids /\ f \in [DOMAIN f -> Row \cup {None}]
        BY <2>1
      <4>. QED
        BY ONLY <4>1, SomeIs
    <3>2. CASE Unlink(c) /\ CurrentRows(c)[Item(c)] = None
      BY <3>2, NoneOfThem DEF Unlink
    <3>3. CASE Unlink(c) /\ CurrentRows(c)[Item(c)] # None
      <4>. DEFINE row == [CurrentRows(c)[Item(c)] EXCEPT !.types = @ \ request[c].unlink]
      <4>1. row \in Row
        BY <2>2, <3>3 DEF Row
      <4>2. Write(c, [i \in {Item(c)} |-> row])
        BY <3>3 DEF Unlink
      <4>. QED
        BY <3>1, <4>1, <4>2
    <3>4. CASE Link(c)
      <4>. DEFINE row == [CurrentRows(c)[Item(c)] EXCEPT !.types = @ \cup request[c].link]
      <4>1. CurrentRows(c)[Item(c)] # None
        BY <3>4 DEF Link, LinkRefused
      <4>2. row \in Row
        BY <2>1, <2>2, <4>1 DEF Row
      <4>3. Write(c, [i \in {Item(c)} |->
                        [CurrentRows(c)[i] EXCEPT !.types = @ \cup request[c].link]])
        BY <3>4 DEF Link
      <4>4. [i \in {Item(c)} |-> [CurrentRows(c)[i] EXCEPT !.types = @ \cup request[c].link]]
              = [i \in {Item(c)} |-> row]
        OBVIOUS
      <4>. QED
        BY <3>1, <4>2, <4>3, <4>4
    <3>. QED
      BY <1>2, <3>2, <3>3, <3>4
  <2>4. UNCHANGED <<request, found, items, count, more, calls, faults, history>>
    BY <1>2 DEF Unlink, Link
  <2>5. /\ pc' \in [Clients -> Labels] /\ outcome' \in [Clients -> Outcomes]
        /\ pc'[c] \in {"idle", "commit", "link"}
        /\ \A d \in Clients \ {c} : pc'[d] = pc[d] /\ outcome'[d] = outcome[d]
    <3>1. Continue(c, "link") \/ Finish(c)
      BY <1>2 DEF Unlink, Link
    <3>. QED
      BY <3>1, FinishTyped, ContinueTyped DEF Labels, Typed, TypeOK
  <2>6. TypeOK'
    BY <2>3, <2>4, <2>5, WriteTyped DEF Typed, TypeOK, Transaction, history
  <2>7. OthersKeep(c)
    BY <2>3, <2>4, <2>5, WriteTyped DEF OthersKeep, history
  <2>8. ~Open(c)' => tx'[c] = NoTransaction
    BY <2>3, WriteTyped DEF Open, Typed, Shape
  <2>9. Shape(c)'
    BY <2>1, <2>4, <2>5, <2>8 DEF Shape
  <2>. QED
    BY <2>6, <2>7, <2>9, OneClient
<1>. QED
  BY <1>1, <1>2

LEMMA ReadsTyped ==
  ASSUME Typed, NEW c \in Clients,
         Find(c) \/ TotalCount(c) \/ FindOne(c) \/ Count(c)
  PROVE  Typed' /\ OthersKeep(c)
<1>1. /\ request[c] \in Requests /\ request[c].op \in {"find", "findOne", "count"}
      /\ request[c].filter \in Filter /\ request[c].withDeleted \in BOOLEAN
  <2>1. request[c] \in Requests /\ request[c].op \in {"find", "findOne", "count"}
    BY DEF Find, TotalCount, FindOne, Count, At, Typed, Shape
  <2>. QED
    BY <2>1, Asked
<1>. DEFINE all == Matches(SelectedRows(c), request[c].filter, request[c].withDeleted)
<1>2. SelectedRows(c) \in [Ids -> Row \cup {None}]
  BY RowsTyped DEF Image
<1>3. /\ all \subseteq Ids /\ \A i \in all : SelectedRows(c)[i] # None
      /\ Cardinality(all) \in Nat
  BY <1>1, RowsTyped, MatchesAre, FS_CardinalityType
<1>4. ASSUME NEW s \in SUBSET all PROVE Restrict(SelectedRows(c), s) \in Rows
  BY <1>2, <1>3, RestrictSome DEF Rows
<1>. HIDE DEF all
<1>5. /\ Select(c) /\ (Finish(c) \/ Continue(c, "total"))
      /\ UNCHANGED <<db, request, calls, faults, wrote, before>>
      /\ pc'[c] = "total" => request[c].op = "find"
  <2>1. /\ Select(c) /\ (Finish(c) \/ (request[c].op = "find" /\ Continue(c, "total")))
        /\ UNCHANGED <<db, request, calls, faults, wrote, before>>
    BY DEF Find, TotalCount, FindOne, Count, FirstSelect, At, history
  <2>. QED
    BY <2>1, FinishTyped
<1>6. /\ found' \in [Clients -> Rows] /\ items' \in [Clients -> Rows]
      /\ count' \in [Clients -> Nat] /\ more' \in [Clients -> BOOLEAN]
      /\ base' \in [Clients -> Image] /\ raced' \in [Clients -> BOOLEAN]
      /\ \A d \in Clients \ {c} :
           /\ found'[d] = found[d] /\ items'[d] = items[d] /\ count'[d] = count[d]
           /\ more'[d] = more[d] /\ base'[d] = base[d] /\ raced'[d] = raced[d]
  <2>1. CASE Find(c)
    <3>1. PICK s \in SUBSET all :
            /\ FirstSelect(c, s)
            /\ items' = [items EXCEPT ![c] = Restrict(SelectedRows(c), s)]
      BY <2>1 DEF Find, all
    <3>2. \E b \in BOOLEAN : more' = [more EXCEPT ![c] = b]
      BY <2>1 DEF Find
    <3>3. UNCHANGED <<count, raced>>
      BY <2>1 DEF Find
    <3>4. Restrict(SelectedRows(c), s) \in Rows /\ Snapshot(c) \in Image
      BY <1>4, RowsTyped
    <3>. QED
      BY <3>1, <3>2, <3>3, <3>4 DEF FirstSelect, Typed, TypeOK
  <2>2. CASE TotalCount(c)
    <3>1. /\ count' = [count EXCEPT ![c] = Cardinality(all)]
          /\ Races(c, request[c].filter.ids, Snapshot(c))
          /\ UNCHANGED <<found, items, more, base>>
      BY <2>2 DEF TotalCount, all
    <3>. QED
      BY <1>3, <3>1, RacesTyped DEF Typed, TypeOK
  <2>3. CASE FindOne(c)
    <3>1. UNCHANGED <<found, count, more, base, raced>>
      BY <2>3 DEF FindOne, history
    <3>2. \/ UNCHANGED items
          \/ \E i \in all : items' = [items EXCEPT ![c] = [j \in {i} |-> SelectedRows(c)[j]]]
      BY <2>3 DEF FindOne, all
    <3>3. ASSUME NEW i \in all PROVE [j \in {i} |-> SelectedRows(c)[j]] \in Rows
      <4>. DEFINE f == [j \in {i} |-> SelectedRows(c)[j]]
      <4>1. DOMAIN f \subseteq Ids /\ f \in [DOMAIN f -> Row]
        BY <1>2, <1>3
      <4>. QED
        BY ONLY <4>1, SomeIs DEF Rows
    <3>. QED
      BY <3>1, <3>2, <3>3 DEF Typed, TypeOK
  <2>4. CASE Count(c)
    BY <2>4, <1>3 DEF Count, all, history, Typed, TypeOK
  <2>. QED
    BY <2>1, <2>2, <2>3, <2>4
<1>7. /\ pc' \in [Clients -> Labels] /\ outcome' \in [Clients -> Outcomes]
      /\ pc'[c] \in {"idle", "commit", "total"}
      /\ \A d \in Clients \ {c} : pc'[d] = pc[d] /\ outcome'[d] = outcome[d]
  BY <1>5, FinishTyped, ContinueTyped DEF Labels, Typed, TypeOK
<1>8. TypeOK'
  BY <1>5, <1>6, <1>7, SelectTyped DEF Typed, TypeOK, Transaction
<1>9. OthersKeep(c)
  BY <1>5, <1>6, <1>7, SelectTyped DEF OthersKeep
<1>10. ~Open(c)' => tx'[c] = NoTransaction
  BY <1>5, SelectTyped DEF Open, Typed, Shape
<1>11. Shape(c)'
  BY <1>1, <1>5, <1>7, <1>10 DEF Shape
<1>. QED
  BY <1>8, <1>9, <1>11, OneClient

LEMMA EndsTyped ==
  ASSUME Typed, NEW c \in Clients,
         Commit(c) \/ CommitAnswerLost(c) \/ Fault(c) \/ Deadlock(c)
  PROVE  Typed' /\ OthersKeep(c)
<1>. DEFINE Counted == faults' \in 0 .. MaxFaults
<1>1. UNCHANGED faults \/ (faults < MaxFaults /\ faults' = faults + 1) => Counted
  BY ConstantsAssumption DEF Typed, TypeOK
<1>. HIDE DEF Counted
<1>2. CASE Fault(c) \/ Deadlock(c)
  <2>1. Throw(c, "driver threw") /\ Counted
    BY <1>1, <1>2 DEF Fault, Deadlock
  <2>. QED
    BY <2>1, ThrowTyped DEF Outcomes, Counted
<1>3. CASE Commit(c) \/ CommitAnswerLost(c)
  <2>1. /\ db' = Over(tx[c].writes, db) /\ tx' = [tx EXCEPT ![c] = NoTransaction]
        /\ pc' = [pc EXCEPT ![c] = "idle"]
        /\ \E why \in {"ok", "driver threw"} : outcome' = [outcome EXCEPT ![c] = why]
        /\ Counted
        /\ UNCHANGED <<request, found, items, count, more, calls, history>>
    BY <1>1, <1>3 DEF Commit, CommitAnswerLost
  <2>2. db' \in Image
    <3>1. tx[c].writes \in Some(Ids, Row \cup {None}) /\ db \in [Ids -> Row \cup {None}]
      BY RowsTyped DEF Transaction, Image, Typed, TypeOK
    <3>. QED
      BY <2>1, <3>1, OverImage DEF Image
  <2>3. TypeOK'
    BY <2>1, <2>2, NoneOfThem
       DEF Typed, TypeOK, Transaction, NoTransaction, Labels, Outcomes, history, Counted
  <2>4. OthersKeep(c)
    BY <2>1 DEF Typed, TypeOK, OthersKeep, history
  <2>5. Shape(c)'
    BY <2>1 DEF Typed, TypeOK, Shape
  <2>. QED
    BY <2>3, <2>4, <2>5, OneClient
<1>. QED
  BY <1>2, <1>3

LEMMA StepTyped ==
  ASSUME Typed, [Next]_vars
  PROVE  Typed'
<1>1. CASE Next
  BY <1>1, CallsTyped, SaveTyped, LookupsTyped, UpdateWriteTyped, DeleteWriteTyped,
     RereadTyped, PairsTyped, ReadsTyped, EndsTyped DEF Next, Statement
<1>2. CASE UNCHANGED vars
  BY <1>2 DEF vars, reply, history, Typed, TypeOK, Shape, Open
<1>. QED
  BY <1>1, <1>2

\* The service's and the database's state is of its type, whatever statements fail.
THEOREM TypeCorrect == Spec => []TypeOK
<1>1. Typed => TypeOK
  BY DEF Typed
<1>. QED
  BY InitTyped, StepTyped, <1>1, PTL DEF Spec

-----------------------------------------------------------------------------
(* A transaction's writes reach the database at its commit and at once.    *)

\* a statement of an open transaction leaves the database alone
LEMMA StatementsOfTransaction ==
  ASSUME Typed, NEW c \in Clients, Open(c), Statement(c)
  PROVE  db' = db
<1>1. ASSUME NEW changes, Write(c, changes) PROVE db' = db
  BY <1>1 DEF Write, UsesTransaction
<1>2. ASSUME NEW changes, Writes(c, changes) PROVE db' = db
  BY <1>1, <1>2 DEF Writes
<1>3. ASSUME NEW why, Throw(c, why) PROVE db' = db
  BY <1>3 DEF Throw
<1>4. CASE SaveWrite(c) \/ Unlink(c) \/ Link(c)
  BY <1>1, <1>4 DEF SaveWrite, Unlink, Link
<1>5. CASE UpdateWrite(c) \/ DeleteWrite(c)
  BY <1>2, <1>5 DEF UpdateWrite, DeleteWrite
<1>6. CASE SaveFails(c) \/ WriteFails(c) \/ LinkFails(c)
  BY <1>3, <1>6 DEF SaveFails, WriteFails, LinkFails
<1>7. CASE \/ SaveLoad(c) \/ UpdateLookup(c) \/ DeleteLookup(c) \/ Reread(c)
           \/ Find(c) \/ TotalCount(c) \/ FindOne(c) \/ Count(c)
  BY <1>7 DEF SaveLoad, UpdateLookup, DeleteLookup, Reread, Find, TotalCount, FindOne, Count
<1>. QED
  BY <1>4, <1>5, <1>6, <1>7 DEF Statement

LEMMA StepOthers ==
  ASSUME Typed, Next
  PROVE  \E c \in Clients :
           /\ OthersKeep(c)
           /\ \/ Begin(c) \/ \E r \in Requests : Call(c, r)
              \/ Statement(c) \/ Commit(c) \/ Deadlock(c)
              \/ Fault(c) \/ CommitAnswerLost(c)
  BY CallsTyped, SaveTyped, LookupsTyped, UpdateWriteTyped, DeleteWriteTyped,
     RereadTyped, PairsTyped, ReadsTyped, EndsTyped DEF Next, Statement

\* Whatever the statements and failures of a transaction, its writes appear when it commits.
THEOREM CommitsAtOnce == Spec => ChangesAtCommit
<1>1. ASSUME Typed, [Next]_vars, NEW c \in Clients,
             Open(c), db' # db, <<pc[c], tx[c]>>' # <<pc[c], tx[c]>>
      PROVE  tx'[c] = NoTransaction /\ db' = Over(tx[c].writes, db)
  <2>1. Next
    BY <1>1 DEF vars
  <2>2. PICK d \in Clients :
          /\ OthersKeep(d)
          /\ \/ Begin(d) \/ \E r \in Requests : Call(d, r)
             \/ Statement(d) \/ Commit(d) \/ Deadlock(d)
             \/ Fault(d) \/ CommitAnswerLost(d)
    BY <1>1, <2>1, StepOthers
  <2>3. d = c
    BY <1>1, <2>2 DEF OthersKeep
  <2>4. Commit(c) \/ CommitAnswerLost(c)
    BY <1>1, <2>2, <2>3, StatementsOfTransaction DEF Begin, Call, Deadlock, Fault, Throw
  <2>. QED
    BY <1>1, <2>4 DEF Commit, CommitAnswerLost, Typed, TypeOK
<1>2. Typed /\ [Next]_vars =>
        [\A c \in Clients :
           Open(c) /\ db' # db /\ <<pc[c], tx[c]>>' # <<pc[c], tx[c]>>
             => tx'[c] = NoTransaction /\ db' = Over(tx[c].writes, db)]_vars
  BY <1>1
<1>. QED
  BY InitTyped, StepTyped, <1>2, PTL DEF Spec, ChangesAtCommit

-----------------------------------------------------------------------------
(* What a statement finds of an earlier one's rows.                        *)

\* the rows a call's previous statement read or left, its transaction's writes over them
Seen(c) == IF Open(c) THEN Over(tx[c].writes, base[c]) ELSE base[c]

\* what the select before a writing statement has found
LookedUp(c) ==
  LET r == request[c]
      visible == Matches(Seen(c), r.filter, FALSE)
  IN  pc[c] = "write" =>
        /\ r.op = "save" =>
             found[c] = Restrict(Seen(c), {i \in DOMAIN r.data : Seen(c)[i] # None})
        /\ r.op = "update" /\ r.returnOriginalItems => found[c] = Restrict(Seen(c), visible)
        /\ r.op = "delete" /\ r.returnOriginalItems =>
             \E ids \in Page(visible) : found[c] = Restrict(Seen(c), ids)

\* the call, of one of those operations, has made its writing statement
Past(c, ops) ==
  /\ request[c].op \in ops
  /\ \/ pc[c] \in {"reread", "unlink", "link", "commit"}
     \/ pc[c] = "idle" /\ outcome[c] = "ok"

\* of an update or delete that has: the rows it changed
Acted(c) ==
  LET r == request[c]
      all == Matches(before[c], r.filter, TRUE)
      visible == Matches(before[c], r.filter, FALSE)
  IN  Past(c, {"update", "delete"}) =>
        /\ r.op = "update" /\ ~r.withDeleted => \A i \in wrote[c] : ~before[c][i].deleted
        /\ ~raced[c] /\ ~r.returnOriginalItems =>
             wrote[c] = IF r.op = "delete" \/ r.withDeleted THEN all ELSE visible
        /\ ~raced[c] /\ r.returnOriginalItems =>
             /\ wrote[c] \in IF r.op = "delete" THEN Page(visible) ELSE {visible}
             /\ found[c] = Restrict(before[c], wrote[c])

\* a caller whose transaction is open between calls had no refusal or error in it
InGoodOrder(c) == pc[c] = "idle" /\ Open(c) => outcome[c] = "ok" \/ request[c] = NoRequest

Looked == \A c \in Clients : LookedUp(c) /\ Acted(c) /\ InGoodOrder(c)

LEMMA SeenTyped ==
  ASSUME Typed, NEW c \in Clients
  PROVE  Seen(c) \in Image /\ Seen(c) \in [Ids -> Row \cup {None}]
<1>1. tx[c] \in Transaction /\ base[c] \in Image
  BY DEF Typed, TypeOK, Transaction
<1>. QED
  BY <1>1, OverImage DEF Seen, Transaction, Image

\* a select is what the next statement goes by
LEMMA SelectIsSeen ==
  ASSUME Typed, NEW c \in Clients, NEW ids, FirstSelect(c, ids)
  PROVE  Seen(c)' = SelectedRows(c) /\ found'[c] = Restrict(SelectedRows(c), ids)
<1>1. /\ tx'[c].writes = tx[c].writes /\ Open(c)' = Open(c)
      /\ base'[c] = Snapshot(c) /\ found'[c] = Restrict(SelectedRows(c), ids)
  BY SelectTyped DEF FirstSelect, Typed, TypeOK, Open
<1>. QED
  BY <1>1 DEF Seen, SelectedRows, UsesTransaction, Snapshot

\* rows that did not change between are still those
LEMMA StillSeen ==
  ASSUME Typed, NEW c \in Clients, NEW i \in Ids, base[c][i] = db[i]
  PROVE  CurrentRows(c)[i] = Seen(c)[i]
<1>1. tx[c] \in Transaction /\ base[c] \in Image /\ db \in Image
  BY DEF Typed, TypeOK, Transaction
<1>. QED
  BY <1>1, OverImage DEF Seen, CurrentRows, UsesTransaction, Transaction, Image

\* a step that keeps what a call did
LEMMA PastKept ==
  ASSUME NEW c \in Clients, Acted(c), Past(c, {"update", "delete"}),
         request'[c] = request[c], found'[c] = found[c],
         wrote'[c] = wrote[c], before'[c] = before[c], ~raced'[c] => ~raced[c]
  PROVE  Acted(c)'
  BY DEF Acted

LEMMA MatchesAgree ==
  ASSUME NEW filter \in Filter, NEW rows \in Image, NEW others \in Image,
         \A i \in filter.ids : rows[i] = others[i], NEW w \in BOOLEAN
  PROVE  Matches(rows, filter, w) = Matches(others, filter, w)
  BY DEF Matches

LEMMA RestrictAgree ==
  ASSUME NEW rows \in Image, NEW others \in Image, NEW ids \in SUBSET Ids,
         \A i \in ids : rows[i] = others[i]
  PROVE  Restrict(rows, ids) = Restrict(others, ids) /\ DOMAIN Restrict(rows, ids) = ids
  BY DEF Restrict, Image

LEMMA PagesOf ==
  ASSUME NEW all, NEW ids \in Page(all)
  PROVE  ids \subseteq all
  BY DEF Page

LEMMA PageSize ==
  ASSUME NEW all, Cardinality(all) \in Nat, NEW ids \in Page(all)
  PROVE  /\ ids \subseteq all
         /\ Cardinality(ids) = PerPage \/ (ids = all /\ Cardinality(all) < PerPage)
<1>1. CASE Cardinality(all) <= PerPage
  BY <1>1, ConstantsAssumption DEF Page
<1>2. CASE ~(Cardinality(all) <= PerPage)
  BY <1>2 DEF Page
<1>. QED
  BY <1>1, <1>2

\* the rows the writing statement changes
LEMMA TargetsAre ==
  ASSUME Typed, NEW c \in Clients, LookedUp(c), At(c, "write", {"update", "delete"}),
         request[c].returnOriginalItems => \A i \in request[c].filter.ids : base[c][i] = db[i]
  PROVE  LET r == request[c]
             all == Matches(CurrentRows(c), r.filter, TRUE)
             visible == Matches(CurrentRows(c), r.filter, FALSE)
         IN  /\ ~r.returnOriginalItems =>
                  Targets(c) = IF r.op = "delete" \/ r.withDeleted THEN all ELSE visible
             /\ r.returnOriginalItems =>
                  /\ Targets(c) \in IF r.op = "delete" THEN Page(visible) ELSE {visible}
                  /\ found[c] = Restrict(CurrentRows(c), Targets(c))
<1>. DEFINE r == request[c]
            all == Matches(CurrentRows(c), r.filter, TRUE)
            visible == Matches(CurrentRows(c), r.filter, FALSE)
<1>1. /\ r \in Requests /\ r.op \in {"update", "delete"} /\ r.filter \in Filter
      /\ r.filter.ids \subseteq Ids
      /\ r.returnOriginalItems \in BOOLEAN
      /\ r.op = "update" => r.withDeleted \in BOOLEAN
  BY Asked DEF At, Typed, Shape, Filter
<1>2. CurrentRows(c) \in Image /\ Seen(c) \in Image
  BY RowsTyped, SeenTyped
<1>3. CASE ~r.returnOriginalItems
  BY <1>1, <1>3 DEF Targets, Matches
<1>4. CASE r.returnOriginalItems
  <2>1. \A i \in r.filter.ids : CurrentRows(c)[i] = Seen(c)[i]
    BY <1>1, <1>4, StillSeen
  <2>2. Matches(Seen(c), r.filter, FALSE) = visible
    BY <1>1, <1>2, <2>1, MatchesAgree
  <2>3. PICK ids \in IF r.op = "delete" THEN Page(visible) ELSE {visible} :
          found[c] = Restrict(Seen(c), ids)
    BY <1>1, <1>4, <2>2 DEF LookedUp, At
  <2>4. ids \subseteq visible
    BY <2>3, PagesOf
  <2>5. /\ ids \subseteq r.filter.ids
        /\ \A i \in ids : CurrentRows(c)[i] # None /\ ~CurrentRows(c)[i].deleted
    BY <2>4 DEF Matches
  <2>6. found[c] = Restrict(CurrentRows(c), ids) /\ DOMAIN found[c] = ids
    BY <1>1, <1>2, <2>1, <2>3, <2>5, RestrictAgree
  <2>7. Targets(c) = ids
    BY <1>4, <2>5, <2>6 DEF Targets
  <2>. QED
    BY <1>4, <2>3, <2>6, <2>7
<1>. QED
  BY <1>1, <1>3, <1>4

LEMMA WritesActed ==
  ASSUME Typed, NEW c \in Clients, LookedUp(c), At(c, "write", {"update", "delete"}),
         NEW changes, Writes(c, changes)
  PROVE  Acted(c)'
<1>. DEFINE r == request[c]
<1>1. /\ wrote'[c] = Targets(c) /\ before'[c] = CurrentRows(c)
      /\ request' = request /\ found' = found
  BY DEF Writes, Typed, TypeOK
<1>2. r.returnOriginalItems /\ ~raced'[c] => \A i \in r.filter.ids : base[c][i] = db[i]
  BY RacesTyped DEF Writes
<1>3. r.op \in {"update", "delete"}
  BY DEF At
<1>4. r.op = "update" /\ ~r.withDeleted => \A i \in Targets(c) : ~CurrentRows(c)[i].deleted
  BY DEF Targets
<1>5. r.returnOriginalItems \in BOOLEAN
  BY Asked DEF At, Typed, Shape
<1>6. CASE r.returnOriginalItems /\ raced'[c]
  BY <1>1, <1>4, <1>6 DEF Acted
<1>7. CASE ~(r.returnOriginalItems /\ raced'[c])
  <2>1. r.returnOriginalItems => \A i \in r.filter.ids : base[c][i] = db[i]
    BY <1>2, <1>7
  <2>. QED
    BY <1>1, <1>3, <1>4, <1>5, <2>1, TargetsAre DEF Acted
<1>. QED
  BY <1>6, <1>7

\* what a call's step does to the invariant's parts
LEMMA CallsLooked ==
  ASSUME Typed, NEW c \in Clients, Begin(c) \/ \E r \in Requests : Call(c, r)
  PROVE  LookedUp(c)' /\ Acted(c)' /\ InGoodOrder(c)'
<1>1. CASE Begin(c)
  BY <1>1 DEF Begin, Typed, TypeOK, LookedUp, Acted, Past, InGoodOrder, NoRequest
<1>2. ASSUME NEW r \in Requests, Call(c, r)
      PROVE  LookedUp(c)' /\ Acted(c)' /\ InGoodOrder(c)'
  <2>1. /\ request'[c] = r
        /\ \/ pc'[c] = "idle" /\ outcome'[c] = "threw" /\ tx'[c] = NoTransaction
           \/ pc'[c] = "select"
           \/ pc'[c] = "write" /\ r.op \in {"update", "delete"} /\ ~r.returnOriginalItems
    BY <1>2 DEF Call, FirstStatement, Typed, TypeOK
  <2>2. ~Past(c, {"update", "delete"})'
    BY <2>1 DEF Past
  <2>3. pc'[c] = "idle" => ~Open(c)'
    BY <2>1 DEF Open, NoTransaction
  <2>4. pc'[c] = "write" => request'[c].op # "save" /\ ~request'[c].returnOriginalItems
    BY <2>1
  <2>. QED
    BY <2>2, <2>3, <2>4 DEF LookedUp, Acted, InGoodOrder
<1>. QED
  BY <1>1, <1>2

LEMMA ThrowLooked ==
  ASSUME Typed, NEW c \in Clients, NEW why \in Outcomes \ {"ok"}, Throw(c, why)
  PROVE  LookedUp(c)' /\ Acted(c)' /\ InGoodOrder(c)'
<1>1. pc'[c] = "idle" /\ outcome'[c] # "ok" /\ tx'[c] = NoTransaction
  BY DEF Throw, Typed, TypeOK
<1>2. ~Past(c, {"update", "delete"})' /\ ~Open(c)'
  BY <1>1 DEF Past, Open, NoTransaction
<1>. QED
  BY <1>1, <1>2 DEF LookedUp, Acted, InGoodOrder

LEMMA SelectsLooked ==
  ASSUME Typed, NEW c \in Clients,
         SaveLoad(c) \/ UpdateLookup(c) \/ DeleteLookup(c)
  PROVE  LookedUp(c)' /\ Acted(c)' /\ InGoodOrder(c)'
<1>. DEFINE r == request[c]
            visible == Matches(SelectedRows(c), r.filter, FALSE)
<1>1. request' = request /\ pc'[c] = "write"
  BY ContinueTyped DEF SaveLoad, UpdateLookup, DeleteLookup, Labels
<1>2. \/ /\ r.op = "save"
         /\ FirstSelect(c, {i \in DOMAIN r.data : SelectedRows(c)[i] # None})
      \/ r.op = "update" /\ FirstSelect(c, visible)
      \/ r.op = "delete" /\ \E ids \in Page(visible) : FirstSelect(c, ids)
  BY DEF SaveLoad, UpdateLookup, DeleteLookup, At
<1>3. LookedUp(c)'
  <2>1. CASE r.op = "save" /\ FirstSelect(c, {i \in DOMAIN r.data : SelectedRows(c)[i] # None})
    BY <1>1, <2>1, SelectIsSeen DEF LookedUp
  <2>2. CASE r.op = "update" /\ FirstSelect(c, visible)
    BY <1>1, <2>2, SelectIsSeen DEF LookedUp
  <2>3. CASE r.op = "delete" /\ \E ids \in Page(visible) : FirstSelect(c, ids)
    BY <1>1, <2>3, SelectIsSeen DEF LookedUp
  <2>. QED
    BY <1>2, <2>1, <2>2, <2>3
<1>. QED
  BY <1>1, <1>3 DEF Acted, Past, InGoodOrder

\* a step after which no writing statement is awaited and that left the history alone
LEMMA LaterLooked ==
  ASSUME Typed, NEW c \in Clients, Acted(c),
         request'[c] = request[c], found'[c] = found[c],
         wrote'[c] = wrote[c], before'[c] = before[c], ~raced'[c] => ~raced[c],
         Past(c, {"update", "delete"}) \/ ~Past(c, {"update", "delete"})',
         pc'[c] # "write", pc'[c] = "idle" => outcome'[c] = "ok"
  PROVE  LookedUp(c)' /\ Acted(c)' /\ InGoodOrder(c)'
<1>1. Acted(c)'
  <2>1. CASE Past(c, {"update", "delete"})
    BY <2>1, PastKept
  <2>2. CASE ~Past(c, {"update", "delete"})'
    BY <2>2 DEF Acted
  <2>. QED
    BY <2>1, <2>2
<1>. QED
  BY <1>1 DEF LookedUp, InGoodOrder

LEMMA OwnStepLooked ==
  ASSUME Typed, NEW c \in Clients, LookedUp(c), Acted(c), InGoodOrder(c),
         \/ Begin(c) \/ \E r \in Requests : Call(c, r)
         \/ Statement(c) \/ Commit(c) \/ Deadlock(c)
         \/ Fault(c) \/ CommitAnswerLost(c)
  PROVE  LookedUp(c)' /\ Acted(c)' /\ InGoodOrder(c)'
<1>. DEFINE Goal == LookedUp(c)' /\ Acted(c)' /\ InGoodOrder(c)'
<1>1. ASSUME Finish(c) PROVE pc'[c] # "write" /\ (pc'[c] = "idle" => outcome'[c] = "ok")
  BY <1>1 DEF Finish, Typed, TypeOK
<1>2. ASSUME NEW l, Continue(c, l) PROVE pc'[c] = l
  BY <1>2 DEF Continue, Typed, TypeOK
<1>3. ASSUME NEW returned, AfterUpdate(c, returned)
      PROVE  pc'[c] # "write" /\ (pc'[c] = "idle" => outcome'[c] = "ok")
  <2>1. RelatedStatement(request[c], returned) \in {"none", "unlink", "link"}
    BY DEF RelatedStatement
  <2>. QED
    BY <1>1, <1>2, <1>3, <2>1 DEF AfterUpdate
<1>4. CASE Begin(c) \/ \E r \in Requests : Call(c, r)
  BY <1>4, CallsLooked
<1>5. CASE SaveFails(c) \/ WriteFails(c) \/ LinkFails(c) \/ Deadlock(c) \/ Fault(c)
  <2>1. \E why \in Outcomes \ {"ok"} : Throw(c, why)
    BY <1>5 DEF SaveFails, WriteFails, LinkFails, Deadlock, Fault, UniqueViolation, Outcomes
  <2>. QED
    BY <2>1, ThrowLooked
<1>6. CASE SaveLoad(c) \/ UpdateLookup(c) \/ DeleteLookup(c)
  BY <1>6, SelectsLooked
<1>7. CASE UpdateWrite(c) \/ DeleteWrite(c)
  <2>1. pc'[c] # "write" /\ (pc'[c] = "idle" => outcome'[c] = "ok")
    BY <1>1, <1>2, <1>3, <1>7 DEF UpdateWrite, DeleteWrite
  <2>2. Acted(c)'
    <3>1. At(c, "write", {"update", "delete"}) /\ \E changes : Writes(c, changes)
      BY <1>7 DEF UpdateWrite, DeleteWrite, At
    <3>. QED
      BY <3>1, WritesActed
  <2>. QED
    BY <2>1, <2>2 DEF LookedUp, InGoodOrder
<1>8. CASE Reread(c) \/ Unlink(c) \/ Link(c)
  <2>1. pc'[c] # "write" /\ (pc'[c] = "idle" => outcome'[c] = "ok")
    BY <1>1, <1>2, <1>3, <1>8 DEF Reread, Unlink, Link
  <2>2. Past(c, {"update", "delete"})
    BY <1>8 DEF Reread, Unlink, Link, Past, Typed, Shape
  <2>3. /\ request'[c] = request[c] /\ found'[c] = found[c]
        /\ wrote'[c] = wrote[c] /\ before'[c] = before[c] /\ (~raced'[c] => ~raced[c])
    BY <1>8, RacesTyped DEF Reread, Unlink, Link, history
  <2>. QED
    BY <2>1, <2>2, <2>3, LaterLooked
<1>9. CASE SaveWrite(c) \/ Find(c) \/ TotalCount(c) \/ FindOne(c) \/ Count(c)
  <2>1. pc'[c] # "write" /\ (pc'[c] = "idle" => outcome'[c] = "ok")
    BY <1>1, <1>2, <1>9 DEF SaveWrite, Find, TotalCount, FindOne, Count
  <2>2. request' = request /\ request[c].op \notin {"update", "delete"}
    BY <1>9 DEF SaveWrite, Find, TotalCount, FindOne, Count, At, Typed, Shape
  <2>. QED
    BY <2>1, <2>2 DEF LookedUp, Acted, Past, InGoodOrder
<1>10. CASE Commit(c) \/ CommitAnswerLost(c)
  <2>1. /\ pc'[c] = "idle" /\ outcome'[c] \in {"ok", "driver threw"}
        /\ tx'[c] = NoTransaction
        /\ UNCHANGED <<request, found, base, raced, wrote, before>>
        /\ Open(c) /\ pc[c] \in {"commit", "idle"}
    BY <1>10 DEF Commit, CommitAnswerLost, AtCommit, Typed, TypeOK, history
  <2>2. ~Open(c)'
    <3>1. NoTransaction.by = "nobody"
      BY DEF NoTransaction
    <3>2. tx'[c] = NoTransaction
      BY <2>1
    <3>. QED
      BY ONLY <3>1, <3>2 DEF Open
  <2>3. LookedUp(c)' /\ InGoodOrder(c)'
    BY <2>1, <2>2 DEF LookedUp, InGoodOrder
  <2>4. Past(c, {"update", "delete"}) \/ ~Past(c, {"update", "delete"})'
    <3>1. request[c] # NoRequest \/ request[c].op = "none"
      BY DEF NoRequest
    <3>2. CASE pc[c] = "commit"
      BY <2>1, <3>2 DEF Past
    <3>3. CASE pc[c] = "idle" /\ outcome[c] = "ok"
      BY <2>1, <3>3 DEF Past
    <3>4. CASE request[c].op = "none"
      BY <2>1, <3>4 DEF Past
    <3>. QED
      BY <2>1, <3>1, <3>2, <3>3, <3>4 DEF InGoodOrder
  <2>5. Acted(c)'
    <3>1. CASE Past(c, {"update", "delete"})
      BY <2>1, <3>1, PastKept
    <3>2. CASE ~Past(c, {"update", "delete"})'
      BY <3>2 DEF Acted
    <3>. QED
      BY <2>4, <3>1, <3>2
  <2>. QED
    BY <2>3, <2>5
<1>. QED
  BY <1>4, <1>5, <1>6, <1>7, <1>8, <1>9, <1>10 DEF Statement

LEMMA UntouchedLooked ==
  ASSUME NEW d \in Clients, LookedUp(d), Acted(d), InGoodOrder(d),
         tx'[d] = tx[d], pc'[d] = pc[d], request'[d] = request[d],
         found'[d] = found[d], outcome'[d] = outcome[d], base'[d] = base[d],
         raced'[d] = raced[d], wrote'[d] = wrote[d], before'[d] = before[d]
  PROVE  LookedUp(d)' /\ Acted(d)' /\ InGoodOrder(d)'
<1>1. Seen(d)' = Seen(d) /\ (Open(d)' <=> Open(d))
  BY DEF Seen, Open
<1>2. LookedUp(d)'
  BY <1>1 DEF LookedUp
<1>3. Acted(d)'
  BY DEF Acted, Past
<1>. QED
  BY <1>1, <1>2, <1>3 DEF InGoodOrder

LEMMA InitLooked ==
  ASSUME Init
  PROVE  Looked
  BY DEF Init, Looked, LookedUp, Acted, Past, InGoodOrder, Open, NoTransaction, NoRequest

LEMMA StepLooked ==
  ASSUME Typed, Looked, [Next]_vars
  PROVE  Looked'
<1>1. CASE Next
  <2>1. PICK c \in Clients :
          /\ OthersKeep(c)
          /\ \/ Begin(c) \/ \E r \in Requests : Call(c, r)
             \/ Statement(c) \/ Commit(c) \/ Deadlock(c)
             \/ Fault(c) \/ CommitAnswerLost(c)
    BY <1>1, StepOthers
  <2>. QED
    BY <2>1, OwnStepLooked, UntouchedLooked DEF Looked, OthersKeep
<1>2. CASE UNCHANGED vars
  BY <1>2, UntouchedLooked DEF vars, reply, history, Looked
<1>. QED
  BY <1>1, <1>2

LEMMA AlwaysLooked == Spec => [](Typed /\ Looked)
  BY InitTyped, StepTyped, InitLooked, StepLooked, PTL DEF Spec

\* The update or delete of a call changes the rows its filters match, all of them.
THEOREM MatchesActedOn == Spec => []ActsOnMatches
<1>1. ASSUME Typed, Looked, NEW c \in Clients,
             Completed(c, {"update", "delete"}), ~raced[c]
      PROVE  LET r == request[c]
                 all == Matches(before[c], r.filter, TRUE)
                 visible == Matches(before[c], r.filter, FALSE)
             IN  IF r.op = "update"
                   THEN wrote[c] = IF r.withDeleted /\ ~r.returnOriginalItems THEN all ELSE visible
                   ELSE IF ~r.returnOriginalItems THEN wrote[c] = all
                   ELSE /\ wrote[c] \subseteq visible
                        /\ Cardinality(wrote[c]) = PerPage
                             \/ (wrote[c] = visible /\ Cardinality(visible) < PerPage)
  <2>. DEFINE r == request[c]
              visible == Matches(before[c], r.filter, FALSE)
  <2>1. r.op \in {"update", "delete"} /\ Past(c, {"update", "delete"})
    BY <1>1 DEF Completed, Past
  <2>2. r \in Requests /\ r.returnOriginalItems \in BOOLEAN /\ r.filter \in Filter
        /\ (r.op = "update" => r.withDeleted \in BOOLEAN)
    <3>1. r \in Requests
      BY <1>1, <2>1 DEF Typed, TypeOK, NoRequest
    <3>. QED
      BY <2>1, <3>1, Asked
  <2>3. Cardinality(visible) \in Nat
    BY <1>1, <2>2, MatchesAre, FS_CardinalityType DEF Typed, TypeOK
  <2>4. CASE ~r.returnOriginalItems
    BY <1>1, <2>1, <2>2, <2>4 DEF Looked, Acted
  <2>5. CASE r.returnOriginalItems /\ r.op = "update"
    BY <1>1, <2>1, <2>2, <2>5 DEF Looked, Acted
  <2>6. CASE r.returnOriginalItems /\ r.op = "delete"
    <3>1. wrote[c] \in Page(visible)
      BY <1>1, <2>1, <2>6 DEF Looked, Acted
    <3>2. wrote[c] \subseteq visible /\ (Cardinality(wrote[c]) = PerPage
            \/ (wrote[c] = visible /\ Cardinality(visible) < PerPage))
      BY <2>3, <3>1, PageSize
    <3>. QED
      BY <2>6, <3>2
  <2>. QED
    BY <2>1, <2>2, <2>4, <2>5, <2>6
<1>2. Typed /\ Looked => ActsOnMatches
  BY <1>1 DEF ActsOnMatches
<1>. QED
  BY AlwaysLooked, <1>2, PTL

\* The original items it returns are those rows, as they were.
THEOREM OriginalsReturned == Spec => []OriginalsAreBefore
<1>1. ASSUME Typed, Looked PROVE OriginalsAreBefore
  <2>1. ASSUME NEW c \in Clients, Completed(c, {"update", "delete"}),
               request[c].returnOriginalItems, ~raced[c]
        PROVE  found[c] = Restrict(before[c], wrote[c])
    BY <1>1, <2>1 DEF Looked, Acted, Completed, Past
  <2>. QED
    BY <2>1 DEF OriginalsAreBefore
<1>. QED
  BY AlwaysLooked, <1>1, PTL

\* An update never changes a row that is soft-deleted when its statement runs.
THEOREM DeletedSpared == Spec => []UpdatesSpareDeleted
<1>1. ASSUME Typed, Looked PROVE UpdatesSpareDeleted
  <2>1. ASSUME NEW c \in Clients, Completed(c, {"update"}), ~request[c].withDeleted,
               NEW i \in wrote[c]
        PROVE  ~before[c][i].deleted
    BY <1>1, <2>1 DEF Looked, Acted, Completed, Past
  <2>. QED
    BY <2>1 DEF UpdatesSpareDeleted
<1>. QED
  BY AlwaysLooked, <1>1, PTL

\* the rows after a save
LEMMA SavedRows ==
  ASSUME Typed, NEW c \in Clients, SaveWrite(c), NEW i \in DOMAIN request[c].data
  PROVE  CurrentRows(c)'[i] = IF i \in DOMAIN Saved(c) THEN Saved(c)[i] ELSE CurrentRows(c)[i]
<1>1. /\ Saved(c) \in Some(Ids, Row \cup {None}) /\ Write(c, Saved(c)) /\ i \in Ids
      /\ DOMAIN Saved(c) \subseteq Ids
  BY SavedTyped, SomeIs DEF SaveWrite
<1>2. /\ tx \in [Clients -> Transaction] /\ db \in [Ids -> Row \cup {None}]
      /\ Open(c)' = Open(c)
  BY <1>1, WriteTyped DEF Typed, TypeOK, Transaction, Image, Open
<1>3. DOMAIN tx[c].writes \subseteq Ids
  BY <1>2, SomeIs DEF Transaction
<1>4. CASE Open(c)
  <2>1. tx'[c].writes = Over(Saved(c), tx[c].writes) /\ db' = db
    BY <1>1, <1>4, WriteTyped
  <2>. QED
    BY <1>1, <1>2, <1>3, <1>4, <2>1 DEF CurrentRows, UsesTransaction, Over
<1>5. CASE ~Open(c)
  <2>1. tx' = tx /\ db' = Over(Saved(c), db)
    BY <1>1, <1>5, WriteTyped
  <2>. QED
    BY <1>1, <1>2, <1>5, <2>1 DEF CurrentRows, UsesTransaction, Over
<1>. QED
  BY <1>4, <1>5

\* A save that is not overtaken stands, and no save undoes a deletion or drops pairs.
THEOREM SavesStand == Spec => SaveStands
<1>. DEFINE Stands(c) ==
       \A i \in DOMAIN request[c].data :
         LET row == CurrentRows(c)'[i] IN
         /\ ~raced'[c] => row # None /\ row.value = request[c].data[i]
         /\ CurrentRows(c)[i] # None => row = [CurrentRows(c)[i] EXCEPT !.value = row.value]
<1>1. ASSUME Typed, Looked, NEW c \in Clients, SaveWrite(c) PROVE Stands(c)
  <2>. DEFINE data == request[c].data
              ids == {i \in DOMAIN data : Seen(c)[i] # None}
  <2>1. /\ data \in Some(Ids, Values) /\ DOMAIN data \subseteq Ids
        /\ \A i \in DOMAIN data : data[i] \in Values
    BY <1>1, SavedTyped, SomeIs DEF SaveWrite
  <2>2. /\ CurrentRows(c) \in [Ids -> Row \cup {None}]
        /\ Seen(c) \in [Ids -> Row \cup {None}]
    BY <1>1, RowsTyped, SeenTyped DEF Image
  <2>3. found[c] = Restrict(Seen(c), ids)
    BY <1>1 DEF SaveWrite, At, Looked, LookedUp
  <2>4. DOMAIN found[c] = ids /\ \A i \in ids : found[c][i] = Seen(c)[i]
    BY <2>3 DEF Restrict
  <2>5. ~raced'[c] => \A i \in DOMAIN data : CurrentRows(c)[i] = Seen(c)[i]
    BY <1>1, <2>1, RacesTyped, StillSeen DEF SaveWrite
  <2>6. \A i \in ToInsert(c) : CurrentRows(c)[i] = None
    BY <1>1 DEF SaveWrite
  <2>. SUFFICES ASSUME NEW i \in DOMAIN data
                PROVE  /\ ~raced'[c] => CurrentRows(c)'[i] # None
                                        /\ CurrentRows(c)'[i].value = data[i]
                       /\ CurrentRows(c)[i] # None =>
                            CurrentRows(c)'[i] =
                              [CurrentRows(c)[i] EXCEPT !.value = CurrentRows(c)'[i].value]
    OBVIOUS
  <2>. DEFINE row == CurrentRows(c)'[i]
              old == CurrentRows(c)[i]
  <2>7. old \in Row \cup {None} /\ data[i] \in Values /\ None \notin Row
    BY <2>1, <2>2, ConstantsAssumption
  <2>8. row = IF i \in DOMAIN Saved(c) THEN Saved(c)[i] ELSE old
    BY <1>1, SavedRows
  <2>9. DOMAIN Saved(c) = ToInsert(c) \cup {j \in ToUpdate(c) : CurrentRows(c)[j] # None}
    BY DEF Saved
  <2>10. CASE i \in ToInsert(c)
    <3>1. row = [value |-> data[i], deleted |-> FALSE, types |-> {}] /\ old = None
      BY <2>6, <2>8, <2>9, <2>10 DEF Saved
    <3>2. row \in Row /\ row.value = data[i]
      BY <2>7, <3>1 DEF Row
    <3>. QED
      BY <2>7, <3>1, <3>2
  <2>11. CASE i \notin ToInsert(c) /\ i \in DOMAIN Saved(c)
    <3>1. row = [old EXCEPT !.value = data[i]] /\ old # None
      BY <2>8, <2>9, <2>11 DEF Saved
    <3>2. row \in Row /\ row.value = data[i]
      BY <2>7, <3>1 DEF Row
    <3>. QED
      BY <2>7, <3>1, <3>2
  <2>12. CASE i \notin DOMAIN Saved(c)
    <3>1. row = old /\ i \in ids
      BY <2>4, <2>8, <2>9, <2>12 DEF ToInsert
    <3>2. ~raced'[c] => old # None /\ old.value = data[i]
      BY <2>4, <2>5, <2>9, <2>12, <3>1 DEF ToUpdate
    <3>3. old # None => old = [old EXCEPT !.value = old.value]
      BY <2>7 DEF Row
    <3>. QED
      BY <3>1, <3>2, <3>3
  <2>. QED
    BY <2>10, <2>11, <2>12
<1>2. Typed /\ Looked => [\A c \in Clients : SaveWrite(c) => Stands(c)]_vars
  BY <1>1
<1>. QED
  BY AlwaysLooked, <1>2, PTL DEF SaveStands

-----------------------------------------------------------------------------
(* The items an update returns, and the pairs.                             *)

\* Without RETURNING update() reads the rows back by its filters: they still match when
\* the filters do not name the updated column and deleted rows are left out.
ReadsBack ==
  ReturningSupported \/ \A r \in Requests :
    r.op = "update" /\ r.returnData => r.filter.values = Values /\ ~r.withDeleted

\* the rows as the update left them
Updated(c) == [i \in wrote[c] |-> [before[c][i] EXCEPT !.value = request[c].value]]

Returned(c) ==
  LET r == request[c] IN
  /\ pc[c] \in {"select", "write", "reread"} => items[c] = <<>>
  /\ Past(c, {"update"}) =>
       /\ wrote[c] \subseteq r.filter.ids
       /\ \A i \in wrote[c] : before[c][i] \in Row
       /\ pc[c] = "reread" =>
            /\ ~ReturningSupported /\ r.returnData
            /\ \A i \in Ids : Seen(c)[i] = IF i \in wrote[c] THEN Updated(c)[i] ELSE before[c][i]
       /\ pc[c] # "reread" /\ r.returnData /\ ~raced[c] => items[c] = Updated(c)

\* what a transaction holds of the rows its last update changed
PairsSoFar(c, i) ==
  LET r == request[c]
      had == before[c][i].types
  IN  CASE pc[c] \in {"reread", "unlink"} -> had
        [] pc[c] = "link" -> had \ r.unlink
        [] OTHER -> IF IsRelated(r) /\ Cardinality(DOMAIN items[c]) = 1
                      THEN (had \ r.unlink) \cup r.link ELSE had

Holds(c) ==
  Past(c, {"update"}) /\ Open(c) =>
    /\ pc[c] \in {"unlink", "link"} =>
         IsRelated(request[c]) /\ wrote[c] \subseteq DOMAIN items[c]
    /\ \A i \in wrote[c] :
         /\ i \in DOMAIN tx[c].writes /\ tx[c].writes[i] \in Row
         /\ tx[c].writes[i].types = PairsSoFar(c, i)

Linked == \A c \in Clients : Returned(c) /\ Holds(c)

\* steps after which the client is not past an update
LEMMA NotPast ==
  ASSUME NEW c \in Clients, ~Past(c, {"update"})',
         pc'[c] \in {"select", "write", "reread"} => items'[c] = <<>>
  PROVE  Returned(c)' /\ Holds(c)'
  BY DEF Returned, Holds

\* steps of other clients
LEMMA UntouchedLinked ==
  ASSUME NEW d \in Clients, Returned(d), Holds(d),
         tx'[d] = tx[d], pc'[d] = pc[d], request'[d] = request[d],
         items'[d] = items[d], outcome'[d] = outcome[d], base'[d] = base[d],
         raced'[d] = raced[d], wrote'[d] = wrote[d], before'[d] = before[d]
  PROVE  Returned(d)' /\ Holds(d)'
<1>1. Updated(d)' = Updated(d) /\ Seen(d)' = Seen(d) /\ Open(d)' = Open(d)
      /\ (Past(d, {"update"})' <=> Past(d, {"update"}))
  BY DEF Updated, Seen, Open, Past
<1>2. Returned(d)'
  BY <1>1 DEF Returned
<1>3. \A i : PairsSoFar(d, i)' = PairsSoFar(d, i)
  BY DEF PairsSoFar
<1>4. Holds(d)'
  BY <1>1, <1>3 DEF Holds
<1>. QED
  BY <1>2, <1>4

LEMMA InitLinked ==
  ASSUME Init
  PROVE  Linked
  BY DEF Init, Linked, Returned, Holds, Past, NoRequest

\* the rows an update finds are of its filter's ids
LEMMA TargetsOfFilter ==
  ASSUME Typed, NEW c \in Clients, LookedUp(c), At(c, "write", {"update"})
  PROVE  Targets(c) \subseteq request[c].filter.ids
<1>. DEFINE r == request[c]
            visible == Matches(Seen(c), r.filter, FALSE)
<1>1. CASE r.returnOriginalItems
  <2>1. found[c] = Restrict(Seen(c), visible)
    BY <1>1 DEF LookedUp, At
  <2>2. DOMAIN found[c] = visible
    BY <2>1 DEF Restrict
  <2>3. visible \subseteq r.filter.ids
    BY DEF Matches
  <2>4. Targets(c) \subseteq DOMAIN found[c]
    BY <1>1 DEF Targets
  <2>. QED
    BY <2>2, <2>3, <2>4
<1>2. CASE ~r.returnOriginalItems
  BY <1>2 DEF Targets, Matches
<1>. QED
  BY <1>1, <1>2

\* what follows an update's last read or write of its row
LEMMA AfterUpdateIs ==
  ASSUME Typed, NEW c \in Clients, NEW returned, AfterUpdate(c, returned)
  PROVE  LET r == request[c] IN
         \/ /\ pc'[c] = "commit" \/ (pc'[c] = "idle" /\ outcome'[c] = "ok")
            /\ ~IsRelated(r) \/ Cardinality(DOMAIN returned) # 1
         \/ pc'[c] = "unlink" /\ IsRelated(r) /\ Cardinality(DOMAIN returned) = 1
         \/ /\ pc'[c] = "link" /\ IsRelated(r) /\ Cardinality(DOMAIN returned) = 1
            /\ r.unlink = {}
<1>1. ASSUME Finish(c) PROVE pc'[c] = "commit" \/ (pc'[c] = "idle" /\ outcome'[c] = "ok")
  BY <1>1 DEF Finish, Typed, TypeOK
<1>2. ASSUME NEW l, Continue(c, l) PROVE pc'[c] = l
  BY <1>2 DEF Continue, Typed, TypeOK
<1>. QED
  BY <1>1, <1>2 DEF AfterUpdate, RelatedStatement

LEMMA UpdateWriteLinked ==
  ASSUME Typed, NEW c \in Clients, LookedUp(c), Returned(c), UpdateWrite(c)
  PROVE  Returned(c)' /\ Holds(c)'
<1>. DEFINE r == request[c]
            new == [i \in Targets(c) |-> [CurrentRows(c)[i] EXCEPT !.value = r.value]]
<1>1. At(c, "write", {"update"}) /\ Writes(c, new)
  BY DEF UpdateWrite
<1>2. At(c, "write", {"update", "delete"}) /\ r \in Requests /\ r.op = "update"
      /\ r.value \in Values /\ items[c] = <<>>
  BY <1>1 DEF At, Typed, Shape, Returned
<1>3. /\ wrote'[c] = Targets(c) /\ before'[c] = CurrentRows(c) /\ base'[c] = db'
      /\ request' = request /\ Write(c, new)
  BY <1>1 DEF Writes, Typed, TypeOK
<1>4. Updated(c)' = new
  BY <1>3 DEF Updated
<1>5. /\ Targets(c) \subseteq Ids /\ Targets(c) \subseteq r.filter.ids
      /\ \A i \in Targets(c) : CurrentRows(c)[i] \in Row
  BY <1>1, <1>2, TargetsTyped, TargetsOfFilter
<1>6. \A i \in Targets(c) : new[i] \in Row /\ new[i].types = CurrentRows(c)[i].types
  BY <1>2, <1>5 DEF Row
<1>7. DOMAIN new = Targets(c)
  OBVIOUS
<1>. HIDE DEF new
<1>8. new \in Some(Ids, Row \cup {None})
  <2>1. DOMAIN new \subseteq Ids /\ new \in [DOMAIN new -> Row \cup {None}]
    BY <1>5, <1>6, <1>7 DEF new
  <2>. QED
    BY <2>1, SomeIs
<1>9. /\ tx \in [Clients -> Transaction] /\ db \in [Ids -> Row \cup {None}]
      /\ (Open(c)' <=> Open(c))
  BY <1>3, <1>8, WriteTyped DEF Typed, TypeOK, Transaction, Image, Open
<1>10. DOMAIN tx[c].writes \subseteq Ids
  BY <1>9, SomeIs DEF Transaction
<1>11. ASSUME NEW i \in Ids
       PROVE  Seen(c)'[i] = IF i \in Targets(c) THEN new[i] ELSE CurrentRows(c)[i]
  <2>1. CASE Open(c)
    <3>1. tx'[c].writes = Over(new, tx[c].writes) /\ db' = db
      BY <1>3, <1>8, <2>1, WriteTyped
    <3>. QED
      BY <1>3, <1>7, <1>9, <1>10, <2>1, <3>1 DEF Seen, CurrentRows, UsesTransaction, Over
  <2>2. CASE ~Open(c)
    <3>1. db' = Over(new, db)
      BY <1>3, <1>8, <2>2, WriteTyped
    <3>. QED
      BY <1>3, <1>7, <1>9, <2>2, <3>1 DEF Seen, CurrentRows, UsesTransaction, Over
  <2>. QED
    BY <2>1, <2>2
<1>12. ASSUME Open(c)', NEW i \in Targets(c)
       PROVE  i \in DOMAIN tx'[c].writes /\ tx'[c].writes[i] = new[i]
  <2>1. tx'[c].writes = Over(new, tx[c].writes)
    BY <1>3, <1>8, <1>9, <1>12, WriteTyped
  <2>. QED
    BY <1>7, <1>12, <2>1 DEF Over
<1>13. /\ wrote'[c] \subseteq request'[c].filter.ids
       /\ \A i \in wrote'[c] : before'[c][i] \in Row
  BY <1>3, <1>5
<1>14. CASE r.returnData /\ ReturningSupported
  <2>1. items'[c] = new /\ AfterUpdate(c, new)
    BY <1>14 DEF UpdateWrite, new, Typed, TypeOK
  <2>2. Returned(c)'
    BY <1>3, <1>4, <1>13, <2>1, AfterUpdateIs DEF Returned
  <2>3. Holds(c)'
    <3>1. ASSUME Open(c)', NEW i \in Targets(c)
          PROVE  /\ i \in DOMAIN tx'[c].writes /\ tx'[c].writes[i] \in Row
                 /\ tx'[c].writes[i].types = PairsSoFar(c, i)'
      <4>1. tx'[c].writes[i].types = before'[c][i].types
        BY <1>3, <1>6, <1>12, <3>1
      <4>2. before'[c][i].types = PairsSoFar(c, i)'
        BY <1>3, <2>1, AfterUpdateIs DEF PairsSoFar
      <4>. QED
        BY <1>6, <1>12, <3>1, <4>1, <4>2
    <3>. QED
      BY <1>3, <1>7, <2>1, <3>1, AfterUpdateIs DEF Holds, IsRelated
  <2>. QED
    BY <2>2, <2>3
<1>15. CASE r.returnData /\ ~ReturningSupported
  <2>1. items' = items /\ pc'[c] = "reread"
    BY <1>15 DEF UpdateWrite, Continue, Typed, TypeOK
  <2>2. Returned(c)'
    BY <1>2, <1>3, <1>4, <1>11, <1>13, <1>15, <2>1 DEF Returned
  <2>3. Holds(c)'
    BY <1>3, <1>6, <1>12, <2>1 DEF Holds, PairsSoFar
  <2>. QED
    BY <2>2, <2>3
<1>16. CASE ~r.returnData
  <2>1. items' = items /\ AfterUpdate(c, <<>>)
    BY <1>16 DEF UpdateWrite
  <2>2. Cardinality(DOMAIN items'[c]) # 1 /\ Cardinality(DOMAIN <<>>) # 1
    BY <1>2, <2>1, NoneOfThem, FS_EmptySet
  <2>3. pc'[c] = "commit" \/ (pc'[c] = "idle" /\ outcome'[c] = "ok")
    BY <2>1, <2>2, AfterUpdateIs
  <2>4. Returned(c)'
    BY <1>3, <1>13, <1>16, <2>3 DEF Returned
  <2>5. Holds(c)'
    BY <1>3, <1>6, <1>12, <2>2, <2>3 DEF Holds, PairsSoFar
  <2>. QED
    BY <2>4, <2>5
<1>17. r.returnData \in BOOLEAN
  BY <1>2, Asked
<1>. QED
  BY <1>14, <1>15, <1>16, <1>17, ConstantsAssumption

LEMMA RereadLinked ==
  ASSUME Typed, NEW c \in Clients, Returned(c), Holds(c), Acted(c), ReadsBack, Reread(c)
  PROVE  Returned(c)' /\ Holds(c)'
<1>. DEFINE r == request[c]
            rows == SelectedRows(c)
            visible == Matches(rows, r.filter, FALSE)
            read == Restrict(rows, visible)
<1>1. pc[c] = "reread" /\ r \in Requests /\ r.op = "update" /\ r.value \in Values
  BY DEF Reread, Typed, Shape
<1>2. Past(c, {"update"}) /\ Past(c, {"update", "delete"})
  BY <1>1 DEF Past
<1>3. ~ReturningSupported /\ r.returnData
  BY <1>1, <1>2 DEF Returned
<1>4. r.filter \in Filter /\ r.filter.values = Values /\ ~r.withDeleted
      /\ r.filter.ids \subseteq Ids /\ r.returnOriginalItems \in BOOLEAN
  BY <1>1, <1>3, Asked DEF ReadsBack, Filter
<1>5. /\ Select(c) /\ AfterUpdate(c, read) /\ Races(c, r.filter.ids, Snapshot(c))
      /\ items'[c] = read
      /\ request' = request /\ base' = base /\ wrote' = wrote /\ before' = before
  BY DEF Reread, Typed, TypeOK
<1>6. DOMAIN read = visible /\ read = [i \in visible |-> rows[i]]
  BY DEF Restrict
<1>7. rows \in Image /\ Seen(c) \in Image /\ before[c] \in Image
  BY RowsTyped, SeenTyped DEF Typed, TypeOK
<1>8. /\ wrote[c] \subseteq r.filter.ids /\ \A i \in wrote[c] : before[c][i] \in Row
      /\ \A i \in Ids : Seen(c)[i] = IF i \in wrote[c] THEN Updated(c)[i] ELSE before[c][i]
      /\ \A i \in wrote[c] : ~before[c][i].deleted
  BY <1>1, <1>2, <1>4 DEF Returned, Acted
<1>9. \A i \in wrote[c] : /\ Updated(c)[i] \in Row /\ Updated(c)[i].value = r.value
                          /\ ~Updated(c)[i].deleted
  BY <1>1, <1>8 DEF Updated, Row
<1>. HIDE DEF rows, visible, read
<1>10. ASSUME NEW i \in wrote[c], rows[i] = Updated(c)[i] PROVE i \in visible
  BY <1>1, <1>4, <1>8, <1>9, <1>10, ConstantsAssumption DEF visible, Matches
<1>11. ASSUME ~raced'[c] PROVE read = Updated(c)
  <2>1. ~raced[c] /\ \A i \in r.filter.ids : base[c][i] = Snapshot(c)[i]
    BY <1>5, <1>11, RacesTyped
  <2>2. \A i \in r.filter.ids : rows[i] = Seen(c)[i]
    <3>1. tx[c] \in Transaction /\ base[c] \in Image /\ Snapshot(c) \in Image
      BY RowsTyped DEF Typed, TypeOK
    <3>. QED
      BY <1>4, <2>1, <3>1, OverImage
         DEF rows, SelectedRows, Seen, Snapshot, UsesTransaction, Transaction, Image
  <2>3. wrote[c] = Matches(before[c], r.filter, FALSE)
    BY <1>1, <1>2, <1>4, <2>1 DEF Acted
  <2>4. visible \subseteq wrote[c]
    <3>1. \A i \in visible : i \in r.filter.ids /\ rows[i] # None /\ ~rows[i].deleted
      BY DEF visible, Matches
    <3>2. \A i \in r.filter.ids \ wrote[c] : rows[i] = before[c][i]
      BY <1>4, <1>8, <2>2
    <3>3. \A i \in r.filter.ids \ wrote[c] : before[c][i] = None \/ before[c][i].deleted
      <4>1. ASSUME NEW i \in r.filter.ids, before[c][i] # None, ~before[c][i].deleted
            PROVE  i \in wrote[c]
        <5>1. before[c][i].value \in Values
          BY <1>4, <1>7, <4>1, ImageIs DEF Row
        <5>. QED
          BY <1>4, <2>3, <4>1, <5>1 DEF Matches
      <4>. QED
        BY <4>1
    <3>. QED
      BY <3>1, <3>2, <3>3
  <2>5. visible = wrote[c] /\ \A i \in wrote[c] : rows[i] = Updated(c)[i]
    <3>1. ASSUME NEW i \in wrote[c] PROVE rows[i] = Updated(c)[i]
      <4>1. i \in r.filter.ids /\ i \in Ids
        BY <1>4, <1>8
      <4>. QED
        BY <1>8, <2>2, <4>1
    <3>2. wrote[c] \subseteq visible
      BY <1>10, <3>1
    <3>. QED
      BY <2>4, <3>1, <3>2
  <2>. QED
    BY <1>6, <2>5 DEF Updated
<1>12. Updated(c)' = Updated(c)
  BY <1>5 DEF Updated
<1>13. Returned(c)'
  BY <1>5, <1>8, <1>11, <1>12, AfterUpdateIs DEF Returned
<1>14. Holds(c)'
  <2>1. ASSUME Open(c)'
        PROVE  /\ Open(c) /\ tx'[c].writes = tx[c].writes
               /\ \A i \in wrote[c] :
                    /\ i \in DOMAIN tx[c].writes /\ tx[c].writes[i] \in Row
                    /\ tx[c].writes[i].types = before[c][i].types
               /\ wrote[c] \subseteq visible
    <3>1. Open(c) /\ tx'[c].writes = tx[c].writes
      BY <1>5, <2>1, SelectTyped DEF Open
    <3>2. \A i \in wrote[c] :
            /\ i \in DOMAIN tx[c].writes /\ tx[c].writes[i] \in Row
            /\ tx[c].writes[i].types = before[c][i].types
      BY <1>1, <1>2, <3>1 DEF Holds, PairsSoFar
    <3>3. tx[c] \in Transaction /\ base[c] \in Image /\ Snapshot(c) \in Image
      BY RowsTyped DEF Typed, TypeOK
    <3>4. \A i \in wrote[c] : rows[i] = Seen(c)[i]
      BY <3>1, <3>2, <3>3, OverImage
         DEF rows, SelectedRows, Seen, UsesTransaction, Transaction, Image
    <3>. QED
      BY <1>4, <1>8, <1>10, <3>1, <3>2, <3>4
  <2>2. ASSUME NEW i \in wrote[c] PROVE PairsSoFar(c, i)' = before[c][i].types
    BY <1>5, AfterUpdateIs DEF PairsSoFar
  <2>. QED
    BY <1>5, <1>6, <2>1, <2>2, AfterUpdateIs DEF Holds, IsRelated
<1>. QED
  BY <1>13, <1>14

LEMMA PairsLinked ==
  ASSUME Typed, NEW c \in Clients, Returned(c), Holds(c), Unlink(c) \/ Link(c)
  PROVE  Returned(c)' /\ Holds(c)'
<1>. DEFINE r == request[c]
<1>1. /\ pc[c] \in {"unlink", "link"} /\ r.op = "update"
      /\ Item(c) \in DOMAIN items[c] /\ Item(c) \in Ids
      /\ Cardinality(DOMAIN items[c]) = 1
  BY ItemTyped DEF Unlink, Link, Typed, Shape
<1>2. DOMAIN items[c] = {Item(c)}
  <2>1. DOMAIN items[c] \subseteq Ids
    BY SomeIs DEF Typed, TypeOK, Rows
  <2>2. IsFiniteSet(DOMAIN items[c])
    BY <2>1, ConstantsAssumption, FS_Subset
  <2>. QED
    BY <1>1, <2>2, FS_Singleton
<1>3. Past(c, {"update"})
  BY <1>1 DEF Past
<1>4. UNCHANGED <<request, items, base, raced, wrote, before>>
  BY DEF Unlink, Link, history
<1>5. \/ pc'[c] = "link" /\ pc[c] = "unlink"
      \/ /\ pc'[c] = "commit" \/ (pc'[c] = "idle" /\ outcome'[c] = "ok")
         /\ pc[c] = "unlink" => r.link = {}
  BY DEF Unlink, Link, Finish, Continue, Typed, TypeOK
<1>6. Updated(c)' = Updated(c)
  BY <1>4 DEF Updated
<1>7. Returned(c)'
  BY <1>1, <1>3, <1>4, <1>5, <1>6 DEF Returned
<1>8. Holds(c)'
  <2>. DEFINE row == CurrentRows(c)[Item(c)]
              types == IF pc[c] = "unlink" THEN row.types \ r.unlink ELSE row.types \cup r.link
              changed == [row EXCEPT !.types = types]
  <2>. SUFFICES ASSUME Open(c)' PROVE Holds(c)'
    BY DEF Holds
  <2>1. Open(c)
    <3>1. \E changes : Write(c, changes)
      BY DEF Unlink, Link
    <3>2. ASSUME NEW changes, Write(c, changes), ~Open(c) PROVE FALSE
      BY <3>2 DEF Write, UsesTransaction, Open
    <3>. QED
      BY <3>1, <3>2
  <2>2. /\ IsRelated(r) /\ wrote[c] \subseteq {Item(c)}
        /\ \A i \in wrote[c] :
             /\ i \in DOMAIN tx[c].writes /\ tx[c].writes[i] \in Row
             /\ tx[c].writes[i].types = PairsSoFar(c, i)
    BY <1>1, <1>2, <1>3, <2>1 DEF Holds
  <2>3. CASE wrote[c] = {}
    BY <1>4, <1>5, <2>2, <2>3 DEF Holds
  <2>4. CASE wrote[c] # {}
    <3>1. wrote[c] = {Item(c)}
      BY <2>2, <2>4
    <3>2. tx[c] \in Transaction /\ tx \in [Clients -> Transaction]
      BY DEF Typed, TypeOK, Transaction
    <3>3. row = tx[c].writes[Item(c)] /\ row \in Row
      BY <1>1, <2>1, <2>2, <3>1 DEF CurrentRows, UsesTransaction, Over
    <3>4. row # None
      BY <3>3, ConstantsAssumption
    <3>5. Write(c, [i \in {Item(c)} |-> changed])
      <4>1. CASE pc[c] = "unlink"
        BY <3>4, <4>1 DEF Unlink, Link
      <4>2. CASE pc[c] = "link"
        <5>1. Write(c, [i \in {Item(c)} |->
                          [CurrentRows(c)[i] EXCEPT !.types = @ \cup r.link]])
          BY <4>2 DEF Unlink, Link
        <5>2. [i \in {Item(c)} |-> [CurrentRows(c)[i] EXCEPT !.types = @ \cup r.link]]
                = [i \in {Item(c)} |-> changed]
          BY <4>2
        <5>. QED
          BY <5>1, <5>2
      <4>. QED
        BY <1>1, <4>1, <4>2
    <3>6. changed \in Row /\ changed.types = types
      <4>1. r \in Requests
        BY <1>1 DEF Typed, Shape
      <4>2. r.unlink \in SUBSET Types /\ r.link \in SUBSET Types
        BY <1>1, <4>1, Asked
      <4>. QED
        BY <3>3, <4>2 DEF Row
    <3>. HIDE DEF changed, types
    <3>7. tx'[c].writes = Over([i \in {Item(c)} |-> changed], tx[c].writes)
      <4>1. [tx[c] EXCEPT !.writes = Over([i \in {Item(c)} |-> changed], @)].writes
              = Over([i \in {Item(c)} |-> changed], tx[c].writes)
        BY <3>2 DEF Transaction
      <4>2. tx' = [tx EXCEPT ![c] =
                     [tx[c] EXCEPT !.writes = Over([i \in {Item(c)} |-> changed], @)]]
        BY <2>1, <3>5 DEF Write, UsesTransaction
      <4>. QED
        BY <3>2, <4>1, <4>2
    <3>8. /\ Item(c) \in DOMAIN tx'[c].writes /\ tx'[c].writes[Item(c)] = changed
      BY <3>7 DEF Over
    <3>9. ASSUME NEW i, i = Item(c) PROVE types = PairsSoFar(c, i)'
      <4>1. row.types = PairsSoFar(c, i)
        BY <2>2, <3>1, <3>3, <3>9
      <4>2. CASE pc[c] = "unlink"
        <5>1. row.types = before[c][i].types
          BY <4>1, <4>2 DEF PairsSoFar
        <5>2. types = before[c][i].types \ r.unlink
          BY <4>2, <5>1 DEF types
        <5>3. pc'[c] = "link" \/ (pc'[c] \in {"commit", "idle"} /\ r.link = {})
          BY <1>5, <4>2
        <5>. QED
          BY <1>1, <1>4, <2>2, <5>2, <5>3 DEF PairsSoFar
      <4>3. CASE pc[c] = "link"
        <5>1. row.types = before[c][i].types \ r.unlink
          BY <4>1, <4>3 DEF PairsSoFar
        <5>2. types = (before[c][i].types \ r.unlink) \cup r.link
          BY <4>3, <5>1 DEF types
        <5>3. pc'[c] \in {"commit", "idle"}
          BY <1>5, <4>3
        <5>. QED
          BY <1>1, <1>4, <2>2, <5>2, <5>3 DEF PairsSoFar
      <4>. QED
        BY <1>1, <4>2, <4>3
    <3>10. ASSUME NEW i \in wrote[c]
           PROVE  /\ i \in DOMAIN tx'[c].writes /\ tx'[c].writes[i] \in Row
                  /\ tx'[c].writes[i].types = PairsSoFar(c, i)'
      BY <3>1, <3>6, <3>8, <3>9, <3>10
    <3>11. pc'[c] \in {"unlink", "link"} =>
             IsRelated(request'[c]) /\ wrote'[c] \subseteq DOMAIN items'[c]
      BY <1>2, <1>4, <2>2
    <3>. QED
      BY <1>4, <3>10, <3>11 DEF Holds, IsRelated
  <2>. QED
    BY <2>3, <2>4
<1>. QED
  BY <1>7, <1>8

LEMMA OwnStepLinked ==
  ASSUME Typed, NEW c \in Clients, LookedUp(c), Acted(c), InGoodOrder(c),
         Returned(c), Holds(c), ReadsBack,
         \/ Begin(c) \/ \E r \in Requests : Call(c, r)
         \/ Statement(c) \/ Commit(c) \/ Deadlock(c)
         \/ Fault(c) \/ CommitAnswerLost(c)
  PROVE  Returned(c)' /\ Holds(c)'
<1>1. CASE Begin(c)
  BY <1>1, NotPast DEF Begin, Typed, TypeOK, Past, NoRequest
<1>2. ASSUME NEW r \in Requests, Call(c, r) PROVE Returned(c)' /\ Holds(c)'
  <2>1. /\ items'[c] = <<>>
        /\ \/ pc'[c] = "idle" /\ outcome'[c] = "threw"
           \/ pc'[c] \in {"select", "write"}
    BY <1>2 DEF Call, FirstStatement, Typed, TypeOK
  <2>. QED
    BY <2>1, NotPast DEF Past
<1>3. CASE SaveFails(c) \/ WriteFails(c) \/ LinkFails(c) \/ Deadlock(c) \/ Fault(c)
  <2>1. \E why \in Outcomes \ {"ok"} : Throw(c, why)
    BY <1>3 DEF SaveFails, WriteFails, LinkFails, Deadlock, Fault, UniqueViolation, Outcomes
  <2>2. pc'[c] = "idle" /\ outcome'[c] # "ok"
    BY <2>1 DEF Throw, Typed, TypeOK
  <2>. QED
    BY <2>2, NotPast DEF Past
<1>4. CASE SaveLoad(c) \/ UpdateLookup(c) \/ DeleteLookup(c)
  <2>1. pc'[c] = "write" /\ items' = items /\ pc[c] = "select"
    BY <1>4 DEF SaveLoad, UpdateLookup, DeleteLookup, Continue, At, Typed, TypeOK
  <2>. QED
    BY <2>1, NotPast DEF Past, Returned
<1>5. CASE \/ SaveWrite(c) \/ DeleteWrite(c)
           \/ Find(c) \/ TotalCount(c) \/ FindOne(c) \/ Count(c)
  <2>1. request' = request /\ request[c].op # "update"
    BY <1>5 DEF SaveWrite, DeleteWrite, Writes, Find, TotalCount, FindOne, Count, At, Typed, Shape
  <2>2. pc'[c] \in {"commit", "idle", "total"}
    BY <1>5 DEF SaveWrite, DeleteWrite, Find, TotalCount, FindOne, Count, Finish, Continue,
                Typed, TypeOK
  <2>. QED
    BY <2>1, <2>2, NotPast DEF Past
<1>6. CASE Commit(c) \/ CommitAnswerLost(c)
  <2>1. /\ pc'[c] = "idle" /\ tx'[c] = NoTransaction
        /\ outcome'[c] \in {"ok", "driver threw"}
        /\ UNCHANGED <<request, items, raced, wrote, before>>
        /\ Open(c) /\ pc[c] \in {"commit", "idle"}
    BY <1>6 DEF Commit, CommitAnswerLost, AtCommit, Typed, TypeOK, history
  <2>2. Holds(c)'
    <3>1. NoTransaction.by = "nobody" /\ tx'[c] = NoTransaction
      BY <2>1 DEF NoTransaction
    <3>2. ~Open(c)'
      BY ONLY <3>1 DEF Open
    <3>. QED
      BY <3>2 DEF Holds
  <2>3. Updated(c)' = Updated(c)
    BY <2>1 DEF Updated
  <2>4. CASE ~Past(c, {"update"})'
    BY <2>1, <2>4, NotPast
  <2>5. CASE Past(c, {"update"})'
    <3>1. request[c].op = "update" /\ request[c] # NoRequest
      <4>1. NoRequest.op = "none"
        BY DEF NoRequest
      <4>2. request[c].op = "update"
        BY <2>1, <2>5 DEF Past
      <4>. QED
        BY <4>1, <4>2
    <3>2. Past(c, {"update"})
      BY <2>1, <3>1 DEF Past, InGoodOrder
    <3>3. Returned(c)'
      BY <2>1, <2>3, <3>2 DEF Returned
    <3>. QED
      BY <2>2, <3>3
  <2>. QED
    BY <2>4, <2>5
<1>7. CASE UpdateWrite(c)
  BY <1>7, UpdateWriteLinked
<1>8. CASE Reread(c)
  BY <1>8, RereadLinked
<1>9. CASE Unlink(c) \/ Link(c)
  BY <1>9, PairsLinked
<1>. QED
  BY <1>1, <1>2, <1>3, <1>4, <1>5, <1>6, <1>7, <1>8, <1>9 DEF Statement

LEMMA StepLinked ==
  ASSUME ReadsBack, Typed, Looked, Linked, [Next]_vars
  PROVE  Linked'
<1>1. CASE Next
  <2>1. PICK c \in Clients :
          /\ OthersKeep(c)
          /\ \/ Begin(c) \/ \E r \in Requests : Call(c, r)
             \/ Statement(c) \/ Commit(c) \/ Deadlock(c)
             \/ Fault(c) \/ CommitAnswerLost(c)
    BY <1>1, StepOthers
  <2>. QED
    BY <2>1, OwnStepLinked, UntouchedLinked DEF Linked, Looked, OthersKeep
<1>2. CASE UNCHANGED vars
  BY <1>2, UntouchedLinked DEF vars, reply, history, Linked
<1>. QED
  BY <1>1, <1>2

LEMMA AlwaysLinked ==
  ASSUME ReadsBack
  PROVE  Spec => [](Typed /\ Linked)
<1>1. Typed /\ Looked /\ Linked /\ [Next]_vars => Linked'
  BY StepLinked
<1>. QED
  BY AlwaysLooked, InitLinked, <1>1, PTL DEF Spec

\* The items update() returns are the rows it updated, where its filters still match them.
THEOREM UpdatedRowsReturned ==
  ASSUME ReadsBack
  PROVE  Spec => []ReturnsUpdatedRows
<1>1. ASSUME Typed, Linked PROVE ReturnsUpdatedRows
  <2>1. ASSUME NEW c \in Clients, Completed(c, {"update"}), request[c].returnData, ~raced[c]
        PROVE  items[c] = [i \in wrote[c] |-> [before[c][i] EXCEPT !.value = request[c].value]]
    BY <1>1, <2>1 DEF Linked, Returned, Updated, Completed, Past
  <2>. QED
    BY <2>1 DEF ReturnsUpdatedRows
<1>. QED
  BY AlwaysLinked, <1>1, PTL

\* A user's update leaves its row with the pairs asked for, whatever runs in between.
THEOREM PairsAsAsked ==
  ASSUME ReadsBack
  PROVE  Spec => []LinksAsAsked
<1>1. ASSUME Typed, Linked PROVE LinksAsAsked
  <2>1. ASSUME NEW c \in Clients, Completed(c, {"update"}), Open(c), NEW i \in wrote[c]
        PROVE  CurrentRows(c)[i].types =
                 IF IsRelated(request[c]) /\ Cardinality(DOMAIN items[c]) = 1
                   THEN (before[c][i].types \ request[c].unlink) \cup request[c].link
                   ELSE before[c][i].types
    <3>1. Past(c, {"update"}) /\ pc[c] \in {"commit", "idle"}
      BY <2>1 DEF Completed, Past
    <3>2. i \in DOMAIN tx[c].writes /\ tx[c].writes[i].types = PairsSoFar(c, i)
      BY <1>1, <2>1, <3>1 DEF Linked, Holds
    <3>. QED
      BY <2>1, <3>1, <3>2 DEF CurrentRows, UsesTransaction, Over, PairsSoFar
  <2>. QED
    BY <2>1 DEF LinksAsAsked
<1>. QED
  BY AlwaysLinked, <1>1, PTL

-----------------------------------------------------------------------------
(* Pages and totals.                                                       *)

\* the rank numbers a finite set of ids from 1, without a gap
LEMMA RankNumbers ==
  ASSUME NEW all \in SUBSET Ids
  PROVE  /\ IsFiniteSet(all) /\ Cardinality(all) \in Nat
         /\ [i \in all |-> Rank(i, all)] \in Injection(all, 1 .. Cardinality(all))
         /\ [i \in all |-> Rank(i, all)] \in Surjection(all, 1 .. Cardinality(all))
<1>. DEFINE n == Cardinality(all)
            below(i) == {j \in all : j <= i}
            f == [i \in all |-> Rank(i, all)]
<1>1. IsFiniteSet(all) /\ n \in Nat /\ all \subseteq Nat
  BY ConstantsAssumption, FS_Subset, FS_CardinalityType
<1>2. ASSUME NEW i \in all
      PROVE  /\ IsFiniteSet(below(i)) /\ Rank(i, all) = Cardinality(below(i))
             /\ Rank(i, all) \in 1 .. n
  <2>1. IsFiniteSet(below(i)) /\ Cardinality(below(i)) <= n
    BY <1>1, FS_Subset
  <2>2. Cardinality(below(i)) \in Nat /\ (Cardinality(below(i)) = 0 <=> below(i) = {})
    BY <2>1, FS_CardinalityType, FS_EmptySet
  <2>3. i \in below(i)
    BY <1>1, <1>2
  <2>4. Cardinality(below(i)) >= 1
    BY <2>2, <2>3
  <2>5. Rank(i, all) = Cardinality(below(i))
    BY DEF Rank
  <2>. HIDE DEF below, n
  <2>. QED
    BY <1>1, <2>1, <2>2, <2>4, <2>5
<1>3. ASSUME NEW i \in all, NEW j \in all, i < j PROVE Rank(i, all) # Rank(j, all)
  <2>1. below(i) \subseteq below(j)
    <3>1. ASSUME NEW k \in all, k <= i PROVE k <= j
      BY <1>1, <1>3, <3>1
    <3>. QED
      BY <3>1
  <2>2. j \in below(j) /\ j \notin below(i)
    BY <1>1, <1>3
  <2>3. below(i) # below(j)
    BY <2>2
  <2>. HIDE DEF below
  <2>. QED
    BY <1>2, <2>1, <2>3, FS_Subset
<1>4. f \in Injection(all, 1 .. n)
  <2>1. f \in [all -> 1 .. n]
    BY <1>2
  <2>2. ASSUME NEW i \in all, NEW j \in all, f[i] = f[j] PROVE i = j
    BY <1>1, <1>3, <2>2
  <2>. HIDE DEF f, n
  <2>. QED
    BY <2>1, <2>2 DEF Injection, IsInjective
<1>5. IsFiniteSet(1 .. n) /\ Cardinality(1 .. n) = n
  BY <1>1, FS_Interval
<1>6. f \in Surjection(all, 1 .. n)
  BY <1>4, <1>5, FS_Injection
<1>. QED
  BY <1>1, <1>4, <1>6

\* how many rows a page has, of n rows with that many skipped
Length(n, skipped) ==
  IF n <= skipped THEN 0 ELSE IF n > skipped + PerPage THEN PerPage ELSE n - skipped

LEMMA PageLength ==
  ASSUME NEW all \in SUBSET Ids, NEW skipped \in Nat
  PROVE  Cardinality({i \in all : Rank(i, all) > skipped /\ Rank(i, all) <= skipped + PerPage})
           = Length(Cardinality(all), skipped)
<1>. DEFINE n == Cardinality(all)
            last == IF n > skipped + PerPage THEN skipped + PerPage ELSE n
            page == {i \in all : Rank(i, all) > skipped /\ Rank(i, all) <= skipped + PerPage}
            f == [i \in all |-> Rank(i, all)]
            g == [i \in page |-> Rank(i, all)]
            span == skipped + 1 .. last
<1>1. /\ n \in Nat /\ PerPage \in Nat /\ PerPage > 0
      /\ f \in Injection(all, 1 .. n) /\ f \in Surjection(all, 1 .. n)
  BY RankNumbers, ConstantsAssumption
<1>2. \A i \in all : Rank(i, all) \in 1 .. n
  BY <1>1 DEF Injection
<1>3. \A i, j \in all : Rank(i, all) = Rank(j, all) => i = j
  BY <1>1 DEF Injection, IsInjective
<1>4. \A k \in 1 .. n : \E i \in all : Rank(i, all) = k
  BY <1>1 DEF Surjection
<1>5. g \in Injection(page, span)
  <2>1. g \in [page -> span]
    BY <1>1, <1>2
  <2>2. \A i, j \in page : g[i] = g[j] => i = j
    BY <1>3
  <2>. HIDE DEF g, span, page
  <2>. QED
    BY <2>1, <2>2 DEF Injection, IsInjective
<1>6. g \in Surjection(page, span)
  <2>1. ASSUME NEW k \in span PROVE \E i \in page : g[i] = k
    <3>1. k \in 1 .. n /\ k > skipped /\ k <= skipped + PerPage
      BY <1>1
    <3>2. PICK i \in all : Rank(i, all) = k
      BY <1>4, <3>1
    <3>3. i \in page
      BY <3>1, <3>2
    <3>. QED
      BY <3>2, <3>3
  <2>2. g \in [page -> span]
    BY <1>5 DEF Injection
  <2>. HIDE DEF g, span, page
  <2>. QED
    BY <2>1, <2>2 DEF Surjection
<1>7. last \in Int
  BY <1>1
<1>8. /\ IsFiniteSet(span)
      /\ Cardinality(span) = IF skipped + 1 > last THEN 0 ELSE last - (skipped + 1) + 1
  <2>1. skipped + 1 \in Int
    OBVIOUS
  <2>. HIDE DEF last
  <2>. QED
    BY <1>7, <2>1, FS_Interval
<1>9. Cardinality(page) = Cardinality(span)
  <2>. HIDE DEF g, span, page
  <2>. QED
    BY <1>5, <1>6, <1>8, FS_Injection
<1>10. Cardinality(span) = Length(n, skipped)
  <2>. HIDE DEF span, n
  <2>. QED
    BY <1>1, <1>8 DEF Length
<1>. QED
  BY <1>9, <1>10

\* a page's items and the sign of a next page fit a total of n
Fits(c, n) ==
  LET skipped == (request[c].page - 1) * PerPage IN
  /\ more[c] = (n > skipped + PerPage)
  /\ Cardinality(DOMAIN items[c]) = Length(n, skipped)

Paged(c) ==
  LET r == request[c] IN
  r.op = "find" =>
    /\ pc[c] = "total" =>
         ~r.findAll /\ Fits(c, Cardinality(Matches(Seen(c), r.filter, r.withDeleted)))
    /\ /\ pc[c] = "commit" \/ (pc[c] = "idle" /\ outcome[c] = "ok")
       /\ ~raced[c] /\ r.getTotalCount /\ ~r.findAll
       => Fits(c, count[c])

LEMMA UntouchedPaged ==
  ASSUME NEW d \in Clients, Paged(d),
         tx'[d] = tx[d], pc'[d] = pc[d], request'[d] = request[d],
         items'[d] = items[d], count'[d] = count[d], more'[d] = more[d],
         outcome'[d] = outcome[d], base'[d] = base[d], raced'[d] = raced[d]
  PROVE  Paged(d)'
<1>1. Seen(d)' = Seen(d)
  BY DEF Seen, Open
<1>2. \A n : Fits(d, n)' <=> Fits(d, n)
  BY DEF Fits
<1>. QED
  BY <1>1, <1>2 DEF Paged

LEMMA FindPaged ==
  ASSUME Typed, NEW c \in Clients, Find(c)
  PROVE  Paged(c)'
<1>. DEFINE r == request[c]
            rows == SelectedRows(c)
            all == Matches(rows, r.filter, r.withDeleted)
            skipped == (r.page - 1) * PerPage
            page == IF r.findAll THEN all
                    ELSE {i \in all : /\ Rank(i, all) > (r.page - 1) * PerPage
                                      /\ Rank(i, all) <= r.page * PerPage}
<1>1. r \in Requests /\ r.op = "find"
  BY DEF Find, At, Typed, Shape
<1>2. r.page \in Nat \ {0} /\ r.filter \in Filter /\ r.withDeleted \in BOOLEAN
      /\ PerPage \in Nat \ {0}
  BY <1>1, Asked, ConstantsAssumption
<1>3. skipped \in Nat /\ r.page * PerPage = skipped + PerPage
  BY <1>2
<1>4. rows \in Image /\ all \subseteq Ids /\ Cardinality(all) \in Nat
  BY <1>2, RowsTyped, MatchesAre, FS_CardinalityType
<1>5. /\ FirstSelect(c, page) /\ request' = request
      /\ items'[c] = Restrict(rows, page)
      /\ more'[c] = (~r.findAll /\ Cardinality(all) > r.page * PerPage)
      /\ IF r.getTotalCount /\ ~r.findAll THEN Continue(c, "total") ELSE Finish(c)
  BY DEF Find, Typed, TypeOK
<1>6. DOMAIN items'[c] = page
  BY <1>5 DEF Restrict
<1>7. Seen(c)' = rows
  BY <1>5, SelectIsSeen
<1>8. CASE r.getTotalCount /\ ~r.findAll
  <2>1. pc'[c] = "total"
    BY <1>5, <1>8 DEF Continue, Typed, TypeOK
  <2>2. page = {i \in all : Rank(i, all) > skipped /\ Rank(i, all) <= skipped + PerPage}
    BY <1>3, <1>8
  <2>3. Cardinality(page) = Length(Cardinality(all), skipped)
    <3>. HIDE DEF all, skipped, page
    <3>. QED
      BY <1>3, <1>4, <2>2, PageLength
  <2>4. more'[c] = (Cardinality(all) > skipped + PerPage)
    BY <1>3, <1>5, <1>8
  <2>5. ASSUME NEW n, n = Cardinality(all) PROVE Fits(c, n)'
    <3>1. request' = request
      BY <1>5
    <3>. HIDE DEF page, all
    <3>. QED
      BY <1>6, <2>3, <2>4, <2>5, <3>1 DEF Fits
  <2>6. ASSUME NEW n, n = Cardinality(Matches(Seen(c), r.filter, r.withDeleted))'
        PROVE  Fits(c, n)'
    <3>1. Matches(Seen(c), r.filter, r.withDeleted)' = all
      BY <1>5, <1>7 DEF Matches
    <3>. HIDE DEF page, all
    <3>. QED
      BY <2>5, <2>6, <3>1
  <2>. HIDE DEF page, all
  <2>. QED
    BY <1>5, <1>8, <2>1, <2>6 DEF Paged
<1>9. CASE ~(r.getTotalCount /\ ~r.findAll)
  <2>1. pc'[c] \in {"commit", "idle"}
    BY <1>5, <1>9 DEF Finish, Typed, TypeOK
  <2>. HIDE DEF page
  <2>. QED
    BY <1>5, <1>9, <2>1 DEF Paged
<1>. QED
  BY <1>8, <1>9

LEMMA TotalPaged ==
  ASSUME Typed, NEW c \in Clients, Paged(c), TotalCount(c)
  PROVE  Paged(c)'
<1>. DEFINE r == request[c]
            n == Cardinality(Matches(SelectedRows(c), r.filter, r.withDeleted))
<1>1. r \in Requests /\ r.op = "find" /\ pc[c] = "total"
  BY DEF TotalCount, Typed, Shape
<1>2. r.filter \in Filter /\ r.withDeleted \in BOOLEAN /\ r.filter.ids \subseteq Ids
  BY <1>1, Asked DEF Filter
<1>3. /\ Races(c, r.filter.ids, Snapshot(c)) /\ Finish(c) /\ count'[c] = n
      /\ UNCHANGED <<request, items, more>>
  BY DEF TotalCount, Typed, TypeOK
<1>4. pc'[c] # "total"
  BY <1>3 DEF Finish, Typed, TypeOK
<1>5. ASSUME ~raced'[c] PROVE Fits(c, n)
  <2>1. \A i \in r.filter.ids : base[c][i] = Snapshot(c)[i]
    BY <1>3, <1>5, RacesTyped
  <2>2. \A i \in r.filter.ids : SelectedRows(c)[i] = Seen(c)[i]
    <3>1. tx[c] \in Transaction /\ base[c] \in Image /\ Snapshot(c) \in Image
      BY RowsTyped DEF Typed, TypeOK
    <3>. QED
      BY <1>2, <2>1, <3>1, OverImage
         DEF SelectedRows, Seen, Snapshot, UsesTransaction, Transaction, Image
  <2>3. Matches(SelectedRows(c), r.filter, r.withDeleted)
          = Matches(Seen(c), r.filter, r.withDeleted)
    BY <1>2, <2>2, MatchesAgree, RowsTyped, SeenTyped
  <2>. QED
    BY <1>1, <2>3 DEF Paged
<1>6. \A k : Fits(c, k)' <=> Fits(c, k)
  BY <1>3 DEF Fits
<1>. HIDE DEF n
<1>. QED
  BY <1>3, <1>4, <1>5, <1>6 DEF Paged

LEMMA OwnStepPaged ==
  ASSUME Typed, NEW c \in Clients, InGoodOrder(c), Paged(c),
         \/ Begin(c) \/ \E r \in Requests : Call(c, r)
         \/ Statement(c) \/ Commit(c) \/ Deadlock(c)
         \/ Fault(c) \/ CommitAnswerLost(c)
  PROVE  Paged(c)'
<1>1. CASE Begin(c)
  <2>1. request'[c] = NoRequest
    BY <1>1 DEF Begin, Typed, TypeOK
  <2>. QED
    BY <2>1 DEF Paged, NoRequest
<1>2. ASSUME NEW r \in Requests, Call(c, r) PROVE Paged(c)'
  <2>1. \/ pc'[c] = "idle" /\ outcome'[c] = "threw"
        \/ pc'[c] \in {"select", "write"}
    BY <1>2 DEF Call, FirstStatement, Typed, TypeOK
  <2>. QED
    BY <2>1 DEF Paged
<1>3. CASE SaveFails(c) \/ WriteFails(c) \/ LinkFails(c) \/ Deadlock(c) \/ Fault(c)
  <2>1. \E why \in Outcomes \ {"ok"} : Throw(c, why)
    BY <1>3 DEF SaveFails, WriteFails, LinkFails, Deadlock, Fault, UniqueViolation, Outcomes
  <2>2. pc'[c] = "idle" /\ outcome'[c] # "ok"
    BY <2>1 DEF Throw, Typed, TypeOK
  <2>. QED
    BY <2>2 DEF Paged
<1>4. CASE \/ SaveLoad(c) \/ SaveWrite(c) \/ UpdateLookup(c) \/ DeleteLookup(c)
           \/ UpdateWrite(c) \/ DeleteWrite(c) \/ Reread(c) \/ Unlink(c) \/ Link(c)
           \/ FindOne(c) \/ Count(c)
  <2>1. request' = request /\ request[c].op # "find"
    BY <1>4 DEF SaveLoad, SaveWrite, UpdateLookup, DeleteLookup, UpdateWrite, DeleteWrite,
                Writes, Reread, Unlink, Link, FindOne, Count, At, Typed, Shape
  <2>. QED
    BY <2>1 DEF Paged
<1>5. CASE Find(c)
  BY <1>5, FindPaged
<1>6. CASE TotalCount(c)
  BY <1>6, TotalPaged
<1>7. CASE Commit(c) \/ CommitAnswerLost(c)
  <2>1. /\ pc'[c] = "idle" /\ outcome'[c] \in {"ok", "driver threw"}
        /\ UNCHANGED <<request, items, count, more, raced>>
        /\ Open(c) /\ pc[c] \in {"commit", "idle"}
    BY <1>7 DEF Commit, CommitAnswerLost, AtCommit, Typed, TypeOK, history
  <2>2. \A n : Fits(c, n)' <=> Fits(c, n)
    BY <2>1 DEF Fits
  <2>3. NoRequest.op = "none"
    BY DEF NoRequest
  <2>4. request[c].op = "find" => pc[c] = "commit" \/ (pc[c] = "idle" /\ outcome[c] = "ok")
    BY <2>1, <2>3 DEF InGoodOrder
  <2>. QED
    BY <2>1, <2>2, <2>4 DEF Paged
<1>. QED
  BY <1>1, <1>2, <1>3, <1>4, <1>5, <1>6, <1>7 DEF Statement

\* A page and the total found after it fit each other.
THEOREM TotalsFit == Spec => []TotalsFitPage
<1>. DEFINE Inv == \A c \in Clients : Paged(c)
<1>1. Init => Inv
  BY DEF Init, Paged, NoRequest
<1>2. ASSUME Typed, Looked, Inv, [Next]_vars PROVE Inv'
  <2>1. CASE Next
    <3>1. PICK c \in Clients :
            /\ OthersKeep(c)
            /\ \/ Begin(c) \/ \E r \in Requests : Call(c, r)
               \/ Statement(c) \/ Commit(c) \/ Deadlock(c)
               \/ Fault(c) \/ CommitAnswerLost(c)
      BY <1>2, <2>1, StepOthers
    <3>2. Paged(c)'
      BY <1>2, <3>1, OwnStepPaged DEF Looked
    <3>3. \A d \in Clients \ {c} : Paged(d)'
      BY <1>2, <3>1, UntouchedPaged DEF OthersKeep
    <3>. QED
      BY <3>2, <3>3
  <2>2. CASE UNCHANGED vars
    BY <1>2, <2>2, UntouchedPaged DEF vars, reply, history
  <2>. QED
    BY <1>2, <2>1, <2>2
<1>3. ASSUME Typed, Inv PROVE TotalsFitPage
  <2>. SUFFICES ASSUME NEW c \in Clients, Completed(c, {"find"}), ~raced[c],
                       request[c].getTotalCount, ~request[c].findAll
                PROVE  LET skipped == (request[c].page - 1) * PerPage IN
                       /\ more[c] = (count[c] > skipped + PerPage)
                       /\ Cardinality(DOMAIN items[c]) =
                            IF count[c] <= skipped THEN 0
                            ELSE IF more[c] THEN PerPage ELSE count[c] - skipped
    BY DEF TotalsFitPage
  <2>1. Fits(c, count[c])
    BY <1>3 DEF Paged, Completed
  <2>. QED
    BY <2>1 DEF Fits, Length
<1>. HIDE DEF Inv
<1>. QED
  BY AlwaysLooked, <1>1, <1>2, <1>3, PTL DEF Spec

-----------------------------------------------------------------------------
(* Calls end: what of CallsEnd can be said without fairness.               *)

\* the transaction that a call opens ends with it
OwnTransaction(c) ==
  /\ pc[c] = "commit" => tx[c].by = "call"
  /\ tx[c].by = "call" => pc[c] # "idle"

\* a statement on its way does not end the transaction, a rejected one does
LEMMA HowStatementsEnd ==
  ASSUME Typed, NEW c \in Clients, Statement(c)
  PROVE  /\ pc[c] \notin {"idle", "commit"}
         /\ \/ tx'[c] = NoTransaction /\ pc'[c] = "idle"
            \/ /\ tx'[c].by = tx[c].by
               /\ \/ pc'[c] = IF tx[c].by = "call" THEN "commit" ELSE "idle"
                  \/ pc[c] = "select" /\ pc'[c] \in {"write", "total"}
                  \/ pc[c] = "write" /\ pc'[c] \in {"reread", "unlink", "link"}
                  \/ pc[c] = "reread" /\ pc'[c] \in {"unlink", "link"}
                  \/ pc[c] = "unlink" /\ pc'[c] = "link"
<1>1. pc \in [Clients -> Labels] /\ tx \in [Clients -> Transaction]
  BY DEF Typed, TypeOK, Transaction
<1>2. ASSUME NEW why, Throw(c, why) PROVE tx'[c] = NoTransaction /\ pc'[c] = "idle"
  BY <1>1, <1>2 DEF Throw
<1>3. ASSUME Finish(c) PROVE pc'[c] = IF tx[c].by = "call" THEN "commit" ELSE "idle"
  BY <1>1, <1>3 DEF Finish
<1>4. ASSUME NEW l, Continue(c, l) PROVE pc'[c] = l
  BY <1>1, <1>4 DEF Continue
<1>5. ASSUME NEW changes, Write(c, changes) PROVE tx'[c].by = tx[c].by
  <2>1. CASE UsesTransaction(c)
    <3>1. tx' = [tx EXCEPT ![c].writes = Over(changes, @)]
      BY <1>5, <2>1 DEF Write
    <3>2. tx'[c] = [tx[c] EXCEPT !.writes = Over(changes, @)]
      BY <1>1, <3>1
    <3>. QED
      BY <1>1, <3>2 DEF Transaction
  <2>2. CASE ~UsesTransaction(c)
    BY <1>5, <2>2 DEF Write
  <2>. QED
    BY <2>1, <2>2
<1>6. ASSUME Select(c) PROVE tx'[c].by = tx[c].by
  BY <1>6, SelectTyped
<1>7. ASSUME NEW returned, AfterUpdate(c, returned)
      PROVE  pc'[c] \in {"unlink", "link"} \/ pc'[c] = IF tx[c].by = "call" THEN "commit" ELSE "idle"
  BY <1>3, <1>4, <1>7 DEF AfterUpdate, RelatedStatement
<1>8. CASE SaveFails(c) \/ WriteFails(c) \/ LinkFails(c)
  BY <1>2, <1>8 DEF SaveFails, WriteFails, LinkFails, At
<1>9. CASE SaveLoad(c) \/ UpdateLookup(c) \/ DeleteLookup(c)
  BY <1>4, <1>6, <1>9 DEF SaveLoad, UpdateLookup, DeleteLookup, FirstSelect, At
<1>10. CASE SaveWrite(c) \/ DeleteWrite(c)
  BY <1>3, <1>5, <1>10 DEF SaveWrite, DeleteWrite, Writes, At
<1>11. CASE UpdateWrite(c)
  <2>1. /\ pc[c] = "write" /\ tx'[c].by = tx[c].by
        /\ \/ \E returned : AfterUpdate(c, returned)
           \/ Continue(c, "reread")
    BY <1>5, <1>11 DEF UpdateWrite, Writes, At
  <2>. QED
    BY <1>4, <1>7, <2>1
<1>12. CASE Reread(c)
  <2>1. pc[c] = "reread" /\ Select(c) /\ \E returned : AfterUpdate(c, returned)
    BY <1>12 DEF Reread
  <2>. QED
    BY <1>6, <1>7, <2>1
<1>13. CASE Unlink(c) \/ Link(c)
  BY <1>3, <1>4, <1>5, <1>13 DEF Unlink, Link
<1>14. CASE Find(c)
  BY <1>3, <1>4, <1>6, <1>14 DEF Find, FirstSelect, At
<1>15. CASE TotalCount(c) \/ FindOne(c) \/ Count(c)
  BY <1>3, <1>6, <1>15 DEF TotalCount, FindOne, Count, At
<1>. QED
  BY <1>8, <1>9, <1>10, <1>11, <1>12, <1>13, <1>14, <1>15 DEF Statement

\* the other steps that end something
LEMMA HowEndsEnd ==
  ASSUME Typed, NEW c \in Clients, Commit(c) \/ CommitAnswerLost(c) \/ Fault(c) \/ Deadlock(c)
  PROVE  /\ pc[c] # "idle" \/ Open(c)
         /\ tx'[c] = NoTransaction /\ pc'[c] = "idle"
<1>1. pc \in [Clients -> Labels] /\ tx \in [Clients -> Transaction]
  BY DEF Typed, TypeOK, Transaction
<1>2. CASE Commit(c) \/ CommitAnswerLost(c)
  BY <1>1, <1>2 DEF Commit, CommitAnswerLost, AtCommit
<1>3. CASE Fault(c)
  BY <1>1, <1>3 DEF Fault, AtCommit, Throw
<1>4. CASE Deadlock(c)
  <2>1. WaitsFor(c) # {} /\ Throw(c, "driver threw")
    BY <1>4 DEF Deadlock
  <2>2. Wants(c) # {}
    BY <2>1 DEF WaitsFor
  <2>3. pc[c] # "idle"
    BY <2>2 DEF Wants
  <2>. QED
    BY <1>1, <2>1, <2>3 DEF Throw
<1>. QED
  BY <1>2, <1>3, <1>4

LEMMA StepOwn ==
  ASSUME Typed, \A c \in Clients : OwnTransaction(c), [Next]_vars
  PROVE  \A c \in Clients : OwnTransaction(c)'
<1>1. CASE Next
  <2>1. PICK c \in Clients :
          /\ OthersKeep(c)
          /\ \/ Begin(c) \/ \E r \in Requests : Call(c, r)
             \/ Statement(c) \/ Commit(c) \/ Deadlock(c)
             \/ Fault(c) \/ CommitAnswerLost(c)
    BY <1>1, StepOthers
  <2>2. \A d \in Clients \ {c} : OwnTransaction(d)'
    BY <2>1 DEF OthersKeep, OwnTransaction
  <2>3. tx \in [Clients -> Transaction] /\ pc \in [Clients -> Labels]
    BY DEF Typed, TypeOK, Transaction
  <2>4. CASE Begin(c)
    <3>1. tx'[c] = [tx[c] EXCEPT !.by = "caller"] /\ pc'[c] = "idle"
      BY <2>3, <2>4 DEF Begin
    <3>2. tx'[c].by = "caller"
      BY <2>3, <3>1 DEF Transaction
    <3>. QED
      BY <2>2, <3>1, <3>2 DEF OwnTransaction
  <2>5. ASSUME NEW r \in Requests, Call(c, r)
        PROVE  OwnTransaction(c)'
    <3>1. CASE IsRefused(r) /\ tx' = [tx EXCEPT ![c] = NoTransaction] /\ UNCHANGED pc
      <4>1. tx'[c] = NoTransaction /\ pc'[c] = "idle"
        BY <2>3, <2>5, <3>1 DEF Call
      <4>. QED
        BY <4>1 DEF OwnTransaction, NoTransaction
    <3>2. CASE pc' = [pc EXCEPT ![c] = FirstStatement(r)]
      <4>1. pc'[c] \in {"select", "write"}
        BY <2>3, <3>2 DEF FirstStatement
      <4>. QED
        BY <4>1 DEF OwnTransaction
    <3>. QED
      BY <2>5, <3>1, <3>2 DEF Call
  <2>6. CASE Statement(c)
    <3>1. CASE tx'[c] = NoTransaction /\ pc'[c] = "idle"
      BY <2>2, <3>1 DEF OwnTransaction, NoTransaction
    <3>2. CASE tx'[c].by = tx[c].by /\ pc'[c] = IF tx[c].by = "call" THEN "commit" ELSE "idle"
      BY <2>2, <3>2 DEF OwnTransaction
    <3>3. CASE pc'[c] \in {"write", "total", "reread", "unlink", "link"}
      BY <2>2, <3>3 DEF OwnTransaction
    <3>. QED
      BY <2>6, <3>1, <3>2, <3>3, HowStatementsEnd
  <2>7. CASE Commit(c) \/ CommitAnswerLost(c) \/ Fault(c) \/ Deadlock(c)
    <3>1. tx'[c] = NoTransaction /\ pc'[c] = "idle"
      BY <2>7, HowEndsEnd
    <3>. QED
      BY <2>2, <3>1 DEF OwnTransaction, NoTransaction
  <2>. QED
    BY <2>1, <2>2, <2>4, <2>5, <2>6, <2>7
<1>2. CASE UNCHANGED vars
  BY <1>2 DEF vars, OwnTransaction
<1>. QED
  BY <1>1, <1>2

\* how many statements a call may still make, at most, and whether its client's
\* transaction is still to end
StepsLeft(c) ==
  2 * (CASE pc[c] = "idle"   -> 0
         [] pc[c] = "commit" -> 1
         [] pc[c] \in {"link", "total"} -> 2
         [] pc[c] = "unlink" -> 3
         [] pc[c] = "reread" -> 4
         [] pc[c] = "write"  -> 5
         [] pc[c] = "select" -> 6) + IF Open(c) THEN 1 ELSE 0

\* Every statement, commit and failure brings its call and its transaction nearer to their
\* end, and nothing but a call or transaction of its own puts a client's off: no call goes
\* round in a loop and none is put back by what others commit.
NearerToTheEnd ==
  [][\A c \in Clients :
       /\ StepsLeft(c) \in Nat
       /\ Statement(c) \/ Commit(c) \/ CommitAnswerLost(c) \/ Fault(c) \/ Deadlock(c)
            => StepsLeft(c)' < StepsLeft(c)
       /\ StepsLeft(c)' > StepsLeft(c) => pc[c] = "idle" /\ (Begin(c) \/ \E r \in Requests : Call(c, r))]_vars

LEMMA StepsLeftIs ==
  ASSUME Typed, NEW c \in Clients
  PROVE  /\ StepsLeft(c) \in Nat
         /\ pc[c] # "idle" \/ Open(c) => StepsLeft(c) > 0
<1>1. pc[c] \in {"idle", "select", "write", "reread", "unlink", "link", "total", "commit"}
  BY DEF Typed, TypeOK, Labels
<1>. QED
  BY <1>1 DEF StepsLeft

LEMMA StatementsCount ==
  ASSUME Typed, NEW c \in Clients, Statement(c)
  PROVE  StepsLeft(c)' < StepsLeft(c)
<1>1. pc[c] \in {"select", "write", "reread", "unlink", "link", "total"}
  BY HowStatementsEnd DEF Typed, TypeOK, Labels
<1>2. CASE tx'[c] = NoTransaction /\ pc'[c] = "idle"
  BY <1>1, <1>2 DEF StepsLeft, Open, NoTransaction
<1>3. CASE tx'[c].by = tx[c].by /\ pc'[c] = (IF tx[c].by = "call" THEN "commit" ELSE "idle")
  <2>1. pc'[c] \in {"commit", "idle"} /\ Open(c)' = Open(c)
    BY <1>3 DEF Open
  <2>. QED
    BY <1>1, <2>1 DEF StepsLeft
<1>4. CASE /\ tx'[c].by = tx[c].by
           /\ \/ pc[c] = "select" /\ pc'[c] \in {"write", "total"}
              \/ pc[c] = "write" /\ pc'[c] \in {"reread", "unlink", "link"}
              \/ pc[c] = "reread" /\ pc'[c] \in {"unlink", "link"}
              \/ pc[c] = "unlink" /\ pc'[c] = "link"
  <2>1. Open(c)' = Open(c)
    BY <1>4 DEF Open
  <2>. QED
    BY <1>4, <2>1 DEF StepsLeft
<1>. QED
  BY <1>2, <1>3, <1>4, HowStatementsEnd

\* A call of at most four statements and its transaction run down to their end.
THEOREM CallsRunDown == Spec => NearerToTheEnd
<1>. DEFINE Ends(c) == Statement(c) \/ Commit(c) \/ CommitAnswerLost(c) \/ Fault(c) \/ Deadlock(c)
            Starts(c) == pc[c] = "idle" /\ (Begin(c) \/ \E r \in Requests : Call(c, r))
<1>1. ASSUME Typed, NEW c \in Clients, Ends(c)
      PROVE  StepsLeft(c)' < StepsLeft(c)
  <2>1. CASE Statement(c)
    BY <1>1, <2>1, StatementsCount
  <2>2. CASE Commit(c) \/ CommitAnswerLost(c) \/ Fault(c) \/ Deadlock(c)
    <3>1. StepsLeft(c)' = 0
      BY <1>1, <2>2, HowEndsEnd DEF StepsLeft, Open, NoTransaction
    <3>2. StepsLeft(c) > 0
      BY <1>1, <2>2, HowEndsEnd, StepsLeftIs
    <3>. QED
      BY <3>1, <3>2
  <2>. QED
    BY <1>1, <2>1, <2>2
<1>2. ASSUME Typed, [Next]_vars, NEW c \in Clients, StepsLeft(c)' > StepsLeft(c)
      PROVE  Starts(c)
  <2>1. StepsLeft(c) \in Nat /\ StepsLeft(c)' \in Nat
    <3>1. pc'[c] \in {"idle", "select", "write", "reread", "unlink", "link", "total", "commit"}
      BY <1>2, StepTyped DEF Typed, TypeOK, Labels
    <3>2. StepsLeft(c)' \in Nat
      BY <3>1 DEF StepsLeft
    <3>. QED
      BY <1>2, <3>2, StepsLeftIs
  <2>2. ~(StepsLeft(c)' = StepsLeft(c)) /\ ~(StepsLeft(c)' < StepsLeft(c))
    BY <1>2, <2>1
  <2>3. Next
    BY <1>2, <2>2 DEF vars, StepsLeft, Open
  <2>4. PICK d \in Clients :
          /\ OthersKeep(d)
          /\ \/ Begin(d) \/ \E r \in Requests : Call(d, r)
             \/ Statement(d) \/ Commit(d) \/ Deadlock(d)
             \/ Fault(d) \/ CommitAnswerLost(d)
    BY <1>2, <2>3, StepOthers
  <2>5. d = c
    BY <2>2, <2>4 DEF OthersKeep, StepsLeft, Open
  <2>6. Begin(c) \/ \E r \in Requests : Call(c, r)
    BY <1>1, <1>2, <2>2, <2>4, <2>5
  <2>. QED
    BY <2>6 DEF Begin, Call
<1>3. Typed /\ Typed' /\ [Next]_vars =>
        [\A c \in Clients :
           /\ StepsLeft(c) \in Nat
           /\ Ends(c) => StepsLeft(c)' < StepsLeft(c)
           /\ StepsLeft(c)' > StepsLeft(c) => Starts(c)]_vars
  BY <1>1, <1>2, StepsLeftIs
<1>. QED
  BY InitTyped, StepTyped, <1>3, PTL DEF Spec, NearerToTheEnd

-----------------------------------------------------------------------------
(* Nobody is stuck, what CallsEnd needs of any one state.                  *)

\* some statement of the call can be made: what the statements' guards say of the state
CanBeMade(c) ==
  \/ pc[c] = "select" /\ (request[c].op = "delete" => Page(Matches(SelectedRows(c), request[c].filter, FALSE)) # {})
  \/ At(c, "write", {"update", "delete"}) /\ LookupFoundNone(c)
  \/ pc[c] \in {"write", "unlink", "link"} /\ Granted(c)
  \/ pc[c] \in {"reread", "total"}

InACircle(c) ==
  \E S \in SUBSET Clients : c \in S /\ \A d \in S : (WaitsFor(d) \ {d}) \cap S # {}

\* No call waits for rows that its own transaction holds: each statement goes through that
\* transaction.  While a call or transaction is under way, some client can make a statement
\* or commit, or the database has a circle to break; no lock is left behind by a call that
\* has ended, which others would wait for.
NobodyStuck ==
  \A c \in Clients :
    /\ c \notin WaitsFor(c)
    /\ pc[c] # "idle" \/ Open(c) =>
         \E d \in Clients : CanBeMade(d) \/ AtCommit(d) \/ InACircle(d)

LEMMA PageExists ==
  ASSUME NEW all, IsFiniteSet(all)
  PROVE  Page(all) # {}
<1>1. CASE Cardinality(all) <= PerPage
  BY <1>1 DEF Page
<1>2. CASE ~(Cardinality(all) <= PerPage)
  <2>1. Cardinality(all) \in Nat /\ PerPage \in Nat /\ PerPage < Cardinality(all)
    BY <1>2, FS_CardinalityType, ConstantsAssumption
  <2>2. PICK f \in Bijection(1 .. Cardinality(all), all) : TRUE
    BY FS_CardinalityType DEF ExistsBijection
  <2>. DEFINE page == {f[i] : i \in 1 .. PerPage}
              g    == [i \in 1 .. PerPage |-> f[i]]
  <2>3. 1 .. PerPage \subseteq 1 .. Cardinality(all)
    BY <2>1
  <2>4. page \subseteq all
    BY <2>2, <2>3 DEF Bijection, Injection, Surjection
  <2>5. g \in Bijection(1 .. PerPage, page)
    BY <2>2, <2>3 DEF Bijection, Injection, Surjection, IsInjective
  <2>6. IsFiniteSet(1 .. PerPage) /\ Cardinality(1 .. PerPage) = PerPage
    BY <2>1, FS_Interval, ConstantsAssumption
  <2>7. Cardinality(page) = PerPage
    BY <2>5, <2>6, FS_Bijection DEF ExistsBijection
  <2>. QED
    BY <1>2, <2>4, <2>7 DEF Page
<1>. QED
  BY <1>1, <1>2

LEMMA WaitingForOthers ==
  ASSUME Typed, NEW c \in Clients
  PROVE  /\ \A d \in WaitsFor(c) : Open(d)
         /\ c \notin WaitsFor(c)
<1>1. ASSUME NEW d \in Clients, ~Open(d) PROVE DOMAIN tx[d].writes = {}
  BY <1>1, NoneOfThem DEF Typed, Shape, NoTransaction
<1>2. \A d \in WaitsFor(c) : DOMAIN tx[d].writes # {} /\ (d # c \/ ~Open(c)) /\ d \in Clients
  BY DEF WaitsFor, UsesTransaction
<1>. QED
  BY <1>1, <1>2

\* a client that is neither idle nor at its commit makes a statement or waits
LEMMA MadeOrWaits ==
  ASSUME Typed, NEW c \in Clients, pc[c] \notin {"idle", "commit"}
  PROVE  CanBeMade(c) \/ WaitsFor(c) # {}
<1>1. pc[c] \in {"select", "write", "reread", "unlink", "link", "total"}
  BY DEF Typed, TypeOK, Labels
<1>2. CASE pc[c] = "select"
  <2>1. request[c] \in Requests
    BY <1>2 DEF Typed, Shape
  <2>2. CASE request[c].op = "delete"
    <3>1. request[c].filter \in Filter
      BY <2>1, <2>2, Asked
    <3>2. IsFiniteSet(Matches(SelectedRows(c), request[c].filter, FALSE))
      BY <3>1, RowsTyped, MatchesAre
    <3>. QED
      BY <1>2, <3>2, PageExists DEF CanBeMade
  <2>. QED
    BY <1>2, <2>2 DEF CanBeMade
<1>3. CASE pc[c] \in {"write", "unlink", "link"}
  BY <1>3 DEF CanBeMade, Granted
<1>4. CASE pc[c] \in {"reread", "total"}
  BY <1>4 DEF CanBeMade
<1>. QED
  BY <1>1, <1>2, <1>3, <1>4

\* Whatever calls and transactions there are and however they wait for each other's rows,
\* the service never comes to a stop with a call under way.
THEOREM SomeoneGoesOn == Spec => []NobodyStuck
<1>. DEFINE Own == \A c \in Clients : OwnTransaction(c)
<1>1. Init => Own
  BY DEF Init, OwnTransaction, NoTransaction
<1>2. ASSUME Typed, Own PROVE NobodyStuck
  <2>1. ASSUME NEW c \in Clients, pc[c] # "idle" \/ Open(c)
        PROVE  \E d \in Clients : CanBeMade(d) \/ AtCommit(d) \/ InACircle(d)
    <3>1. SUFFICES ASSUME \A d \in Clients : ~CanBeMade(d) /\ ~AtCommit(d)
                   PROVE  InACircle(c)
      BY <2>1
    <3>2. ASSUME NEW d \in Clients, pc[d] # "idle" \/ Open(d)
          PROVE  pc[d] \notin {"idle", "commit"}
      <4>1. tx[d].by \in {"nobody", "call", "caller"}
        BY <1>2 DEF Typed, TypeOK
      <4>2. pc[d] = "commit" => tx[d].by = "call" /\ Open(d)
        BY <1>2 DEF OwnTransaction, Open
      <4>3. pc[d] = "idle" => tx[d].by # "call"
        BY <1>2 DEF OwnTransaction
      <4>. QED
        BY <3>1, <3>2, <4>1, <4>2, <4>3 DEF AtCommit
    <3>. DEFINE S == {d \in Clients : pc[d] # "idle" \/ Open(d)}
    <3>3. ASSUME NEW d \in S
          PROVE  (WaitsFor(d) \ {d}) \cap S # {}
      <4>1. WaitsFor(d) # {}
        BY <1>2, <3>1, <3>2, MadeOrWaits
      <4>2. PICK e \in WaitsFor(d) : TRUE
        BY <4>1
      <4>3. e \in Clients /\ e # d /\ Open(e)
        BY <1>2, <4>2, WaitingForOthers DEF WaitsFor
      <4>. QED
        BY <4>2, <4>3
    <3>. QED
      BY <2>1, <3>3 DEF InACircle
  <2>2. \A c \in Clients : c \notin WaitsFor(c)
    BY <1>2, WaitingForOthers
  <2>. QED
    BY <2>1, <2>2 DEF NobodyStuck
<1>3. Typed /\ Own /\ [Next]_vars => Own'
  BY StepOwn
<1>. QED
  BY <1>1, <1>2, <1>3, InitTyped, StepTyped, PTL DEF Spec
=============================================================================
