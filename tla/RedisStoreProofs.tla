-------------------------- MODULE RedisStoreProofs --------------------------
(***************************************************************************)
(* Proofs about RedisStore for any number of callers, handles, values and  *)
(* transactions, both storage modes, with and without a TTL and faults.    *)
(***************************************************************************)
EXTENDS RedisStore, SequenceTheorems, TLAPS

\* What a step needs to keep the types: the queue of a transaction that is being
\* executed exists.
Inv == TypeOK /\ TransactionsHeld

-----------------------------------------------------------------------------
(* The server's commands.                                                  *)

\* Executing a queue leaves an entry under every handle.
LEMMA AfterQueueType ==
  ASSUME NEW q \in Seq(Commands), NEW h \in Handles, db \in [Handles -> Entries]
  PROVE  AfterQueue(q, h) \in Entries
<1>1. CASE \E i \in DOMAIN q : IsLastOn(q, h, i)
  <2>1. PICK i \in DOMAIN q : i = CHOOSE j \in DOMAIN q : IsLastOn(q, h, j)
    BY <1>1
  <2>2. q[i] \in Commands
    BY <2>1, ElementOfSeq
  <2>. QED
    BY <1>1, <2>1, <2>2 DEF AfterQueue, Commands
<1>2. CASE ~\E i \in DOMAIN q : IsLastOn(q, h, i)
  BY <1>2 DEF AfterQueue
<1>. QED
  BY <1>1, <1>2

\* A step of the server that stores entries and answers client c keeps Inv.
LEMMA ServeKeepsInv ==
  ASSUME Inv, NEW c \in Clients,
         NEW newDb \in [Handles -> Entries], NEW newVolatile \in [Handles -> BOOLEAN],
         NEW r \in Entries \cup {"OK", "0", "1"},
         pc[c] = "get" => r \in Entries,
         Store(newDb, newVolatile), Answer(c, r)
  PROVE  Inv'
<1>. USE DEF Inv, Store, Answer
<1>1. TypeOK'
  BY DEF TypeOK, Entries, Commands
<1>2. TransactionsHeld'
  BY DEF TransactionsHeld
<1>. QED
  BY <1>1, <1>2

\* The code after an await that changes no transaction keeps Inv.
LEMMA FinishKeepsInv ==
  ASSUME Inv, NEW c \in Clients,
         NEW how \in Entries \cup {"none", "ok", "not_set", "rejected"},
         Finish(c, how), UNCHANGED <<server, transactions, txOf>>,
         interrupted' \in SUBSET Handles
  PROVE  Inv'
<1>1. TypeOK'
  BY DEF Inv, TypeOK, Finish, server, NoCommand, Commands, Entries
<1>2. TransactionsHeld'
  BY DEF Inv, TypeOK, TransactionsHeld, Finish
<1>. QED
  BY <1>1, <1>2 DEF Inv

LEMMA CallKeepsInv ==
  ASSUME Inv, NEW c \in Clients, NEW cmd \in Commands,
         NEW p \in {"set", "delete", "get", "exec"},
         p = "exec" => txOf[c] # NoTransaction,
         Call(c, p, cmd)
  PROVE  Inv'
<1>1. TypeOK'
  BY DEF Inv, TypeOK, Call, Send, server
<1>2. TransactionsHeld'
  BY DEF Inv, TypeOK, TransactionsHeld, Call, Send, server
<1>. QED
  BY <1>1, <1>2 DEF Inv

LEMMA QueueKeepsInv ==
  ASSUME Inv, NEW c \in Clients, NEW cmd \in Commands, Queue(c, cmd)
  PROVE  Inv'
<1>. DEFINE t == txOf[c]
<1>1. t \in Transactions /\ transactions[t] \in Seq(Commands)
  BY DEF Inv, TypeOK, Queue
<1>2. Append(transactions[t], cmd) \in Seq(Commands)
  BY <1>1, AppendProperties
<1>3. Append(transactions[t], cmd) # NoTransaction
  BY <1>2, ConstantsAssumption DEF Commands, Entries
<1>4. TypeOK'
  BY <1>1, <1>2 DEF Inv, TypeOK, Queue, server
<1>5. TransactionsHeld'
  BY <1>1, <1>3 DEF Inv, TypeOK, TransactionsHeld, Queue
<1>. QED
  BY <1>4, <1>5 DEF Inv

-----------------------------------------------------------------------------

LEMMA InitInv == Init => Inv
  BY DEF Init, Inv, TypeOK, TransactionsHeld, NoCommand, Commands, Entries

LEMMA InvokeKeepsInv ==
  ASSUME Inv, NEW c \in Clients, Invoke(c)
  PROVE  Inv'
<1>. USE DEF Commands, Entries
<1>1. ASSUME NEW h \in Handles, NEW v \in Values, Set(c, h, v)
      PROVE  Inv'
  <2>. DEFINE cmd == [handles |-> {h}, value |-> v]
  <2>1. cmd \in Commands /\ Call(c, "set", cmd)
    BY <1>1 DEF Set
  <2>. QED
    BY <2>1, CallKeepsInv
<1>2. ASSUME NEW h \in Handles, NEW v \in Values, TransactionSet(c, h, v)
      PROVE  Inv'
  <2>. DEFINE cmd == [handles |-> {h}, value |-> v]
  <2>1. cmd \in Commands /\ Queue(c, cmd)
    BY <1>2 DEF TransactionSet
  <2>. QED
    BY <2>1, QueueKeepsInv
<1>3. ASSUME NEW hs \in SUBSET Handles, Delete(c, hs)
      PROVE  Inv'
  <2>. DEFINE cmd == [handles |-> hs, value |-> NoValue]
  <2>1. cmd \in Commands /\ Call(c, "delete", cmd)
    BY <1>3 DEF Delete
  <2>. QED
    BY <2>1, CallKeepsInv
<1>4. ASSUME NEW hs \in SUBSET Handles, TransactionDelete(c, hs)
      PROVE  Inv'
  <2>. DEFINE cmd == [handles |-> hs, value |-> NoValue]
  <2>1. cmd \in Commands /\ Queue(c, cmd)
    BY <1>4 DEF TransactionDelete
  <2>. QED
    BY <2>1, QueueKeepsInv
<1>5. ASSUME NEW h \in Handles, Get(c, h)
      PROVE  Inv'
  <2>. DEFINE cmd == [handles |-> {h}, value |-> NoValue]
  <2>1. cmd \in Commands /\ Call(c, "get", cmd)
    BY <1>5 DEF Get
  <2>. QED
    BY <2>1, CallKeepsInv
<1>6. ASSUME NEW t \in Transactions, CreateTransaction(c, t)
      PROVE  Inv'
  <2>1. <<>> \in Seq(Commands) /\ <<>> # NoTransaction
    BY EmptySeq, ConstantsAssumption
  <2>2. TypeOK'
    BY <1>6, <2>1 DEF Inv, TypeOK, CreateTransaction, server
  <2>3. TransactionsHeld'
    BY <1>6, <2>1, ConstantsAssumption DEF Inv, TypeOK, TransactionsHeld, CreateTransaction
  <2>. QED
    BY <2>2, <2>3 DEF Inv
<1>7. ASSUME EndTransaction(c)
      PROVE  Inv'
  <2>1. NoCommand \in Commands /\ Call(c, "exec", NoCommand) /\ txOf[c] # NoTransaction
    BY <1>7 DEF EndTransaction, NoCommand
  <2>. QED
    BY <2>1, CallKeepsInv
<1>8. ASSUME Abandon(c)
      PROVE  Inv'
  <2>1. TypeOK'
    BY <1>8 DEF Inv, TypeOK, Abandon, server
  <2>2. TransactionsHeld'
    BY <1>8 DEF Inv, TypeOK, TransactionsHeld, Abandon
  <2>. QED
    BY <2>1, <2>2 DEF Inv
<1>. QED
  BY <1>1, <1>2, <1>3, <1>4, <1>5, <1>6, <1>7, <1>8 DEF Invoke

LEMMA ServeKeepsInvariant ==
  ASSUME Inv, NEW c \in Clients, Serve(c)
  PROVE  Inv'
<1>. USE DEF Inv
<1>1. CASE ServeSet(c)
  <2>. DEFINE hs == arg[c].handles
              newDb == [h \in Handles |-> IF h \in hs THEN arg[c].value ELSE db[h]]
              newVolatile == [h \in Handles |-> volatile[h] /\ h \notin hs]
  <2>1. arg[c].value \in Entries
    BY DEF TypeOK, Commands
  <2>2. newDb \in [Handles -> Entries] /\ newVolatile \in [Handles -> BOOLEAN]
    BY <2>1 DEF TypeOK
  <2>3. pc[c] = "set" /\ Store(newDb, newVolatile)
    BY <1>1 DEF ServeSet, InFlight
  <2>4. PICK r \in {"OK", "0", "1"} : Answer(c, r)
    BY <1>1 DEF ServeSet
  <2>. QED
    BY <2>2, <2>3, <2>4, ServeKeepsInv
<1>2. CASE ServeExpire(c)
  <2>. DEFINE gets(h) == h \in arg[c].handles /\ db[h] # NoValue /\ ~volatile[h]
              newVolatile == [h \in Handles |-> volatile[h] \/ gets(h)]
  <2>1. db \in [Handles -> Entries] /\ newVolatile \in [Handles -> BOOLEAN]
    BY DEF TypeOK
  <2>2. pc[c] = "expire" /\ Store(db, newVolatile)
    BY <1>2 DEF ServeExpire, InFlight
  <2>3. PICK r \in {"0", "1"} : Answer(c, r)
    BY <1>2 DEF ServeExpire
  <2>. QED
    BY <2>1, <2>2, <2>3, ServeKeepsInv
<1>3. CASE ServeDelete(c)
  <2>. DEFINE hs == arg[c].handles
              newDb == [h \in Handles |-> IF h \in hs THEN NoValue ELSE db[h]]
              newVolatile == [h \in Handles |-> volatile[h] /\ h \notin hs]
  <2>1. newDb \in [Handles -> Entries] /\ newVolatile \in [Handles -> BOOLEAN]
    BY DEF TypeOK, Entries
  <2>2. pc[c] = "delete" /\ Store(newDb, newVolatile)
    BY <1>3 DEF ServeDelete, InFlight
  <2>3. PICK r \in {"0", "1"} : Answer(c, r)
    BY <1>3 DEF ServeDelete
  <2>. QED
    BY <2>1, <2>2, <2>3, ServeKeepsInv
<1>4. CASE ServeGet(c)
  <2>1. PICK h \in Handles : Answer(c, db[h])
    BY <1>4 DEF ServeGet, TypeOK, Commands
  <2>2. pc[c] = "get" /\ db[h] \in Entries /\ UNCHANGED <<db, volatile, interrupted>>
    BY <1>4 DEF ServeGet, InFlight, TypeOK, server
  <2>3. TypeOK'
    BY <2>1, <2>2 DEF TypeOK, Answer
  <2>4. TransactionsHeld'
    BY <2>1, <2>2 DEF TransactionsHeld, Answer
  <2>. QED
    BY <2>3, <2>4
<1>5. CASE ServeExec(c)
  <2>. DEFINE q == transactions[txOf[c]]
              newDb == [h \in Handles |-> AfterQueue(q, h)]
              newVolatile == [h \in Handles |-> IF Touched(q, h)
                                THEN SetsTTL /\ AfterQueue(q, h) # NoValue
                                ELSE volatile[h]]
  <2>1. pc[c] = "exec" /\ Store(newDb, newVolatile) /\ Answer(c, "OK")
    BY <1>5 DEF ServeExec, InFlight
  <2>2. q \in Seq(Commands)
    BY <2>1 DEF TypeOK, TransactionsHeld
  <2>3. \A h \in Handles : AfterQueue(q, h) \in Entries
    BY <2>2, AfterQueueType DEF TypeOK
  <2>4. newDb \in [Handles -> Entries]
    BY <2>3
  <2>5. newVolatile \in [Handles -> BOOLEAN]
    BY DEF TypeOK, SetsTTL
  <2>. QED
    BY <2>1, <2>4, <2>5, ServeKeepsInv
<1>. QED
  BY <1>1, <1>2, <1>3, <1>4, <1>5 DEF Serve

LEMMA ResumeKeepsInv ==
  ASSUME Inv, NEW c \in Clients, Resume(c)
  PROVE  Inv'
<1>1. interrupted \in SUBSET Handles
  BY DEF Inv, TypeOK
<1>2. CASE SetResume(c)
  <2>1. CASE SetsTTL
    <3>1. TypeOK'
      BY <1>2, <2>1 DEF SetResume, Answered, Send, Inv, TypeOK, server
    <3>2. TransactionsHeld'
      BY <1>2, <2>1 DEF SetResume, Send, Inv, TypeOK, TransactionsHeld
    <3>. QED
      BY <3>1, <3>2 DEF Inv
  <2>2. CASE ~SetsTTL
    <3>1. PICK how \in {"ok", "not_set"} : Finish(c, how)
      BY <1>2, <2>2 DEF SetResume
    <3>. QED
      BY <1>1, <1>2, <3>1, FinishKeepsInv DEF SetResume
  <2>. QED
    BY <2>1, <2>2
<1>3. CASE ExpireResume(c)
  BY <1>1, <1>3, FinishKeepsInv DEF ExpireResume
<1>4. CASE DeleteResume(c)
  BY <1>1, <1>4, FinishKeepsInv DEF DeleteResume
<1>5. CASE GetResume(c)
  <2>1. reply[c] \in Entries
    BY <1>5 DEF GetResume, Answered, Inv, TypeOK
  <2>. QED
    BY <1>1, <1>5, <2>1, FinishKeepsInv DEF GetResume
<1>6. CASE EndTransactionResume(c)
  <2>1. TypeOK'
    BY <1>6 DEF EndTransactionResume, Finish, Inv, TypeOK, server, NoCommand, Commands, Entries
  <2>2. TransactionsHeld'
    BY <1>6, ConstantsAssumption
       DEF EndTransactionResume, Answered, Finish, Inv, TypeOK, TransactionsHeld
  <2>. QED
    BY <2>1, <2>2 DEF Inv
<1>. QED
  BY <1>2, <1>3, <1>4, <1>5, <1>6 DEF Resume

LEMMA FaultsKeepInv ==
  ASSUME Inv
  PROVE  /\ \A c \in Clients : Reject(c) => Inv'
         /\ Crash => Inv'
         /\ \A h \in Handles : Expire(h) => Inv'
<1>1. ASSUME NEW c \in Clients, Reject(c)
      PROVE  Inv'
  <2>1. LeftPersistent({c}) \in SUBSET Handles
    BY DEF LeftPersistent, Unfinished, Inv, TypeOK, Commands
  <2>2. TypeOK'
    BY <1>1, <2>1 DEF Reject, Finish, Inv, TypeOK, server, NoCommand, Commands, Entries
  <2>3. TransactionsHeld'
    BY <1>1 DEF Reject, Finish, Inv, TypeOK, TransactionsHeld
  <2>. QED
    BY <2>2, <2>3 DEF Inv
<1>2. ASSUME Crash
      PROVE  Inv'
  <2>1. LeftPersistent(Clients) \in SUBSET Handles
    BY DEF LeftPersistent, Unfinished, Inv, TypeOK, Commands
  <2>2. TypeOK'
    BY <1>2, <2>1 DEF Crash, Inv, TypeOK, server, NoCommand, Commands, Entries
  <2>3. TransactionsHeld'
    BY <1>2 DEF Crash, TransactionsHeld
  <2>. QED
    BY <2>2, <2>3 DEF Inv
<1>3. ASSUME NEW h \in Handles, Expire(h)
      PROVE  Inv'
  <2>1. TypeOK'
    BY <1>3 DEF Expire, Store, Inv, TypeOK, caller, Entries
  <2>2. TransactionsHeld'
    BY <1>3 DEF Expire, Inv, TransactionsHeld, caller
  <2>. QED
    BY <2>1, <2>2 DEF Inv
<1>. QED
  BY <1>1, <1>2, <1>3

LEMMA StepInv == Inv /\ [Next]_vars => Inv'
<1>1. ASSUME Inv, Next
      PROVE  Inv'
  BY <1>1, InvokeKeepsInv, ServeKeepsInvariant, ResumeKeepsInv, FaultsKeepInv DEF Next
<1>2. ASSUME Inv, UNCHANGED vars
      PROVE  Inv'
  BY <1>2 DEF Inv, TypeOK, TransactionsHeld, vars, server, caller
<1>. QED
  BY <1>1, <1>2

\* Every state of the store is well typed: no caller reads a queue that is not
\* there, an executed queue leaves entries, a get returns an entry.
THEOREM TypeCorrect == Spec => []TypeOK
<1>1. Inv => TypeOK
  BY DEF Inv
<1>. QED
  BY InitInv, StepInv, <1>1, PTL DEF Spec

\* No two callers ever hold the same transaction, and a held one is in the map
\* (redis.store.service.ts: transactions).
THEOREM HeldTransactions == Spec => []TransactionsHeld
<1>1. Inv => TransactionsHeld
  BY DEF Inv
<1>. QED
  BY InitInv, StepInv, <1>1, PTL DEF Spec

\* endTransaction (redis.store.service.ts:196-205) is the only code that takes an
\* entry out of the map, and does so once its exec() was answered: what callers
\* queued is never dropped, except by a restart of the process.
THEOREM ExecutedBeforeDeleted == Spec => DeletedOnlyAfterExec
<1>. DEFINE Ok == EntryDeleted => DeletedByExec \/ ProcessRestarts
<1>1. Inv /\ [Next]_vars => [Ok]_vars
  <2>. SUFFICES ASSUME Inv, Next, EntryDeleted
                PROVE  DeletedByExec \/ ProcessRestarts
    OBVIOUS
  <2>. USE DEF Inv, TypeOK
  <2>1. UNCHANGED transactions => FALSE
    BY DEF EntryDeleted
  <2>2. ASSUME NEW c \in Clients, NEW cmd \in Commands, Queue(c, cmd)
        PROVE  FALSE
    <3>1. Append(transactions[txOf[c]], cmd) \in Seq(Commands)
      BY <2>2, AppendProperties DEF Queue
    <3>2. Append(transactions[txOf[c]], cmd) # NoTransaction
      BY <3>1, ConstantsAssumption DEF Commands, Entries
    <3>. QED
      BY <2>2, <3>2 DEF Queue, EntryDeleted
  <2>3. ASSUME NEW c \in Clients, Invoke(c)
        PROVE  FALSE
    <3>1. ASSUME NEW t \in Transactions, CreateTransaction(c, t)
          PROVE  FALSE
      BY <3>1 DEF CreateTransaction, EntryDeleted
    <3>2. ASSUME NEW h \in Handles, NEW v \in Values, TransactionSet(c, h, v)
          PROVE  FALSE
      BY <2>2, <3>2 DEF TransactionSet, Commands, Entries
    <3>3. ASSUME NEW hs \in SUBSET Handles, TransactionDelete(c, hs)
          PROVE  FALSE
      BY <2>2, <3>3 DEF TransactionDelete, Commands, Entries
    <3>. QED
      BY <2>1, <2>3, <3>1, <3>2, <3>3
         DEF Invoke, Set, Delete, Get, EndTransaction, Call, Abandon
  <2>4. ASSUME NEW c \in Clients, Serve(c)
        PROVE  FALSE
    BY <2>1, <2>4 DEF Serve, ServeSet, ServeExpire, ServeDelete, ServeGet, ServeExec, Answer
  <2>5. ASSUME NEW c \in Clients, Resume(c)
        PROVE  DeletedByExec
    <3>1. EndTransactionResume(c)
      BY <2>1, <2>5 DEF Resume, SetResume, ExpireResume, DeleteResume, GetResume
    <3>. QED
      BY <3>1 DEF EndTransactionResume, DeletedByExec
  <2>6. Crash => ProcessRestarts
    BY DEF Crash, ProcessRestarts
  <2>7. ~(\E c \in Clients : Reject(c)) /\ ~(\E h \in Handles : Expire(h))
    BY <2>1 DEF Reject, Expire
  <2>. QED
    BY <2>3, <2>4, <2>5, <2>6, <2>7 DEF Next
<1>. QED
  BY InitInv, StepInv, <1>1, PTL DEF Spec, DeletedOnlyAfterExec

-----------------------------------------------------------------------------
(* No key is left without a time to live.                                  *)

Persistent(h) == db[h] # NoValue /\ ~volatile[h]
Covered(h) == h \in interrupted \/ \E c \in Clients : OwesExpire(c, h)

\* A command of client c that leaves a handle persistent only where its own set()
\* will send the EXPIRE, or where the handle was persistent and stays owed.
LEMMA ServeKeepsTTL ==
  ASSUME Inv, TTLCovered, SetsTTL, NEW c \in Clients,
         NEW newDb, NEW newVolatile, NEW r, r # NoReply,
         newDb \in [Handles -> Entries], newVolatile \in [Handles -> BOOLEAN],
         Store(newDb, newVolatile), Answer(c, r),
         reply[c] = NoReply,
         \A h \in Handles : newDb[h] # NoValue /\ ~newVolatile[h] =>
            \/ pc[c] = "set" /\ h \in arg[c].handles
            \/ Persistent(h) /\ ~(pc[c] = "expire" /\ h \in arg[c].handles)
  PROVE  TTLCovered'
<1>. SUFFICES ASSUME NEW h \in Handles, Persistent(h)'
              PROVE  Covered(h)'
  BY DEF TTLCovered, Persistent, Covered
<1>1. newDb[h] # NoValue /\ ~newVolatile[h]
  BY DEF Store, Persistent
<1>2. reply' = [reply EXCEPT ![c] = r] /\ UNCHANGED <<pc, arg>>
  BY DEF Answer
<1>3. CASE pc[c] = "set" /\ h \in arg[c].handles
  <2>1. reply'[c] # NoReply
    BY <1>2 DEF Inv, TypeOK
  <2>. QED
    BY <1>2, <1>3, <2>1 DEF Covered, OwesExpire, Answered
<1>4. CASE Persistent(h) /\ ~(pc[c] = "expire" /\ h \in arg[c].handles)
  <2>1. CASE h \in interrupted
    BY <1>1, <2>1 DEF Store, Covered
  <2>2. CASE h \notin interrupted
    <3>1. PICK d \in Clients : OwesExpire(d, h)
      BY <1>4, <2>2 DEF TTLCovered, Persistent
    <3>2. d # c
      BY <1>4, <3>1 DEF OwesExpire, Answered, InFlight
    <3>3. OwesExpire(d, h)'
      BY <1>2, <3>1, <3>2 DEF OwesExpire, Answered, InFlight, Inv, TypeOK
    <3>. QED
      BY <3>3 DEF Covered
  <2>. QED
    BY <2>1, <2>2
<1>. QED
  BY <1>1, <1>3, <1>4

\* A step of client c that stores nothing and hands on or settles what c owes.
LEMMA CallerKeepsTTL ==
  ASSUME Inv, TTLCovered, SetsTTL, NEW c \in Clients,
         UNCHANGED <<db, volatile>>,
         interrupted \subseteq interrupted',
         \A d \in Clients \ {c} :
            pc'[d] = pc[d] /\ arg'[d] = arg[d] /\ reply'[d] = reply[d],
         \A h \in Handles : OwesExpire(c, h) /\ Persistent(h) => Covered(h)'
  PROVE  TTLCovered'
<1>. SUFFICES ASSUME NEW h \in Handles, Persistent(h)'
              PROVE  Covered(h)'
  BY DEF TTLCovered, Persistent, Covered
<1>1. Persistent(h)
  BY DEF Persistent
<1>2. CASE h \in interrupted
  BY <1>2 DEF Covered
<1>3. CASE h \notin interrupted
  <2>1. PICK d \in Clients : OwesExpire(d, h)
    BY <1>1, <1>3 DEF TTLCovered, Persistent
  <2>2. CASE d = c
    BY <1>1, <2>1, <2>2
  <2>3. CASE d # c
    BY <2>1, <2>3 DEF Covered, OwesExpire, Answered, InFlight
  <2>. QED
    BY <2>2, <2>3
<1>. QED
  BY <1>2, <1>3

LEMMA ServeTTL ==
  ASSUME Inv, TTLCovered, SetsTTL, NEW c \in Clients, Serve(c)
  PROVE  TTLCovered'
<1>. USE DEF Inv
<1>1. CASE ServeSet(c)
  <2>. DEFINE hs == arg[c].handles
              newDb == [h \in Handles |-> IF h \in hs THEN arg[c].value ELSE db[h]]
              newVolatile == [h \in Handles |-> volatile[h] /\ h \notin hs]
  <2>1. newDb \in [Handles -> Entries] /\ newVolatile \in [Handles -> BOOLEAN]
    BY DEF TypeOK, Commands
  <2>2. /\ pc[c] = "set" /\ reply[c] = NoReply
        /\ Store(newDb, newVolatile) /\ Answer(c, "OK")
    BY <1>1 DEF ServeSet, InFlight, SetsTTL
  <2>3. "OK" # NoReply
    BY ConstantsAssumption
  <2>4. \A h \in Handles : newDb[h] # NoValue /\ ~newVolatile[h] =>
           h \in hs \/ Persistent(h)
    BY DEF Persistent
  <2>. QED
    BY <2>1, <2>2, <2>3, <2>4, ServeKeepsTTL
<1>2. CASE ServeExpire(c)
  <2>. DEFINE gets(h) == h \in arg[c].handles /\ db[h] # NoValue /\ ~volatile[h]
              newVolatile == [h \in Handles |-> volatile[h] \/ gets(h)]
  <2>1. db \in [Handles -> Entries] /\ newVolatile \in [Handles -> BOOLEAN]
    BY DEF TypeOK
  <2>2. pc[c] = "expire" /\ reply[c] = NoReply /\ Store(db, newVolatile)
    BY <1>2 DEF ServeExpire, InFlight
  <2>3. PICK r \in {"0", "1"} : Answer(c, r)
    BY <1>2 DEF ServeExpire
  <2>4. r # NoReply
    BY ConstantsAssumption
  <2>5. \A h \in Handles : db[h] # NoValue /\ ~newVolatile[h] =>
           Persistent(h) /\ h \notin arg[c].handles
    BY DEF Persistent
  <2>. QED
    BY <2>1, <2>2, <2>3, <2>4, <2>5, ServeKeepsTTL
<1>3. CASE ServeDelete(c)
  <2>. DEFINE hs == arg[c].handles
              newDb == [h \in Handles |-> IF h \in hs THEN NoValue ELSE db[h]]
              newVolatile == [h \in Handles |-> volatile[h] /\ h \notin hs]
  <2>1. newDb \in [Handles -> Entries] /\ newVolatile \in [Handles -> BOOLEAN]
    BY DEF TypeOK, Entries
  <2>2. pc[c] = "delete" /\ reply[c] = NoReply /\ Store(newDb, newVolatile)
    BY <1>3 DEF ServeDelete, InFlight
  <2>3. PICK r \in {"0", "1"} : Answer(c, r)
    BY <1>3 DEF ServeDelete
  <2>4. r # NoReply
    BY ConstantsAssumption
  <2>5. \A h \in Handles : newDb[h] # NoValue /\ ~newVolatile[h] => Persistent(h)
    BY DEF Persistent
  <2>. QED
    BY <2>1, <2>2, <2>3, <2>4, <2>5, ServeKeepsTTL
<1>4. CASE ServeGet(c)
  <2>1. PICK h \in Handles : Answer(c, db[h])
    BY <1>4 DEF ServeGet, TypeOK, Commands
  <2>2. pc[c] = "get" /\ UNCHANGED <<db, volatile, interrupted>>
    BY <1>4 DEF ServeGet, InFlight, server
  <2>3. \A d \in Clients \ {c} :
           pc'[d] = pc[d] /\ arg'[d] = arg[d] /\ reply'[d] = reply[d]
    BY <2>1 DEF Answer, TypeOK
  <2>4. \A k \in Handles : ~OwesExpire(c, k)
    BY <2>2 DEF OwesExpire, Answered, InFlight
  <2>. QED
    BY <2>2, <2>3, <2>4, CallerKeepsTTL
<1>5. CASE ServeExec(c)
  <2>. DEFINE q == transactions[txOf[c]]
              newDb == [h \in Handles |-> AfterQueue(q, h)]
              newVolatile == [h \in Handles |-> IF Touched(q, h)
                                THEN SetsTTL /\ AfterQueue(q, h) # NoValue
                                ELSE volatile[h]]
  <2>1. /\ pc[c] = "exec" /\ reply[c] = NoReply
        /\ Store(newDb, newVolatile) /\ Answer(c, "OK")
    BY <1>5 DEF ServeExec, InFlight
  <2>2. "OK" # NoReply
    BY ConstantsAssumption
  <2>3. q \in Seq(Commands)
    BY <2>1 DEF TypeOK, TransactionsHeld
  <2>4. \A h \in Handles : AfterQueue(q, h) \in Entries
    BY <2>3, AfterQueueType DEF TypeOK
  <2>5. newDb \in [Handles -> Entries] /\ newVolatile \in [Handles -> BOOLEAN]
    BY <2>4 DEF TypeOK
  <2>6. \A h \in Handles : newDb[h] # NoValue /\ ~newVolatile[h] => Persistent(h)
    BY DEF Persistent, Touched, AfterQueue
  <2>. QED
    BY <2>1, <2>2, <2>5, <2>6, ServeKeepsTTL
<1>. QED
  BY <1>1, <1>2, <1>3, <1>4, <1>5 DEF Serve

LEMMA InvokeTTL ==
  ASSUME Inv, TTLCovered, SetsTTL, NEW c \in Clients, Invoke(c)
  PROVE  TTLCovered'
<1>1. UNCHANGED <<db, volatile, interrupted>> /\ pc[c] = "idle"
  BY DEF Invoke, Set, TransactionSet, Delete, TransactionDelete, Get, CreateTransaction,
         EndTransaction, Abandon, Call, Queue, server
<1>2. \A d \in Clients \ {c} :
         pc'[d] = pc[d] /\ arg'[d] = arg[d] /\ reply'[d] = reply[d]
  BY DEF Invoke, Set, TransactionSet, Delete, TransactionDelete, Get, CreateTransaction,
         EndTransaction, Abandon, Call, Queue, Send, Inv, TypeOK
<1>3. \A h \in Handles : ~OwesExpire(c, h)
  BY <1>1 DEF OwesExpire, Answered, InFlight
<1>. QED
  BY <1>1, <1>2, <1>3, CallerKeepsTTL

LEMMA ResumeTTL ==
  ASSUME Inv, TTLCovered, SetsTTL, NEW c \in Clients, Resume(c)
  PROVE  TTLCovered'
<1>1. UNCHANGED <<db, volatile, interrupted>>
  BY DEF Resume, SetResume, ExpireResume, DeleteResume, GetResume, EndTransactionResume, server
<1>2. \A d \in Clients \ {c} :
         pc'[d] = pc[d] /\ arg'[d] = arg[d] /\ reply'[d] = reply[d]
  BY DEF Resume, SetResume, ExpireResume, DeleteResume, GetResume, EndTransactionResume,
         Send, Finish, Inv, TypeOK
<1>3. ASSUME NEW h \in Handles, OwesExpire(c, h)
      PROVE  Covered(h)'
  <2>1. SetResume(c)
    BY <1>3 DEF Resume, OwesExpire, Answered, InFlight, ExpireResume, DeleteResume,
                GetResume, EndTransactionResume
  <2>2. Send(c, "expire", arg[c])
    BY <2>1 DEF SetResume
  <2>3. OwesExpire(c, h)'
    BY <1>3, <2>2 DEF OwesExpire, InFlight, Send, Inv, TypeOK
  <2>. QED
    BY <2>3 DEF Covered
<1>. QED
  BY <1>1, <1>2, <1>3, CallerKeepsTTL

LEMMA FaultsTTL ==
  ASSUME Inv, TTLCovered, SetsTTL
  PROVE  /\ \A c \in Clients : Reject(c) => TTLCovered'
         /\ Crash => TTLCovered'
         /\ \A h \in Handles : Expire(h) => TTLCovered'
<1>1. ASSUME NEW c \in Clients, Reject(c)
      PROVE  TTLCovered'
  <2>1. UNCHANGED <<db, volatile>> /\ interrupted' = interrupted \cup LeftPersistent({c})
    BY <1>1 DEF Reject, server
  <2>2. \A d \in Clients \ {c} :
           pc'[d] = pc[d] /\ arg'[d] = arg[d] /\ reply'[d] = reply[d]
    BY <1>1 DEF Reject, Finish, Inv, TypeOK
  <2>3. \A h \in Handles : OwesExpire(c, h) /\ Persistent(h) => h \in LeftPersistent({c})
    BY DEF OwesExpire, Answered, InFlight, Persistent, LeftPersistent, Unfinished
  <2>. QED
    BY <2>1, <2>2, <2>3, CallerKeepsTTL DEF Covered
<1>2. ASSUME Crash
      PROVE  TTLCovered'
  <2>1. UNCHANGED <<db, volatile>>
        /\ interrupted' = interrupted \cup LeftPersistent(Clients)
    BY <1>2 DEF Crash, server
  <2>2. \A c \in Clients, h \in Handles :
           OwesExpire(c, h) /\ Persistent(h) => h \in LeftPersistent(Clients)
    BY DEF OwesExpire, Answered, InFlight, Persistent, LeftPersistent, Unfinished
  <2>. QED
    BY <2>1, <2>2 DEF TTLCovered, Persistent
<1>3. ASSUME NEW k \in Handles, Expire(k)
      PROVE  TTLCovered'
  <2>1. UNCHANGED <<pc, arg, reply>>
    BY <1>3 DEF Expire, caller
  <2>2. ASSUME NEW h \in Handles, db'[h] # NoValue /\ ~volatile'[h]
        PROVE  Persistent(h) /\ (h \in interrupted => h \in interrupted')
    BY <1>3, <2>2 DEF Expire, Store, Persistent, Inv, TypeOK
  <2>. QED
    BY <2>1, <2>2 DEF TTLCovered, Persistent, OwesExpire, Answered, InFlight
<1>. QED
  BY <1>1, <1>2, <1>3

\* With separate keys and a TTL, every key that holds a value has a time to live,
\* or its set() is between its SET and its EXPIRE, or that set() failed or died
\* there (redis.store.service.ts: set), whatever runs at the same time.
THEOREM TTLCoverage == Spec => []TTLCovered
<1>. DEFINE TTLInv == Inv /\ TTLCovered
<1>1. Init => TTLInv
  BY InitInv DEF Init, TTLCovered
<1>2. TTLInv /\ [Next]_vars => TTLInv'
  <2>. SUFFICES ASSUME TTLInv, [Next]_vars
                PROVE  TTLInv'
    OBVIOUS
  <2>1. Inv'
    BY StepInv
  <2>2. CASE ~SetsTTL
    BY <2>1, <2>2 DEF TTLCovered, SetsTTL
  <2>3. CASE SetsTTL /\ Next
    BY <2>1, <2>3, InvokeTTL, ServeTTL, ResumeTTL, FaultsTTL DEF Next
  <2>4. CASE UNCHANGED vars
    BY <2>1, <2>4 DEF TTLCovered, OwesExpire, Answered, InFlight, vars, server, caller
  <2>. QED
    BY <2>1, <2>2, <2>3, <2>4
<1>3. TTLInv => TTLCovered
  OBVIOUS
<1>. QED
  BY <1>1, <1>2, <1>3, PTL DEF Spec

-----------------------------------------------------------------------------
(* RedisStore implements AtomicStore, for every value of the constants.    *)

\* What the mapping needs besides Inv: a caller without a call awaits nothing, a
\* delete writes no value, and only a configured TTL makes EXPIREs and entries that run out.
Shape ==
  /\ \A c \in Clients : pc[c] = "idle" => arg[c] = NoCommand /\ reply[c] = NoReply
  /\ \A c \in Clients : pc[c] = "delete" => arg[c].value = NoValue
  /\ \A c \in Clients : pc[c] = "expire" => SetsTTL
  /\ \A h \in Handles : volatile[h] => SetsTTL

MapInv == Inv /\ Shape

LEMMA InitShape == Init => Shape
  BY DEF Init, Shape

LEMMA CallShape ==
  ASSUME Inv, Shape, NEW c \in Clients, NEW cmd, NEW p \in {"set", "delete", "get", "exec"},
         p = "delete" => cmd.value = NoValue,
         Call(c, p, cmd)
  PROVE  Shape'
  BY DEF Inv, TypeOK, Shape, Call, Send, server, SetsTTL

LEMMA InvokeShape ==
  ASSUME Inv, Shape, NEW c \in Clients, Invoke(c)
  PROVE  Shape'
<1>1. ASSUME NEW h \in Handles, NEW v \in Values, Set(c, h, v)
      PROVE  Shape'
  BY <1>1, CallShape DEF Set
<1>2. ASSUME NEW hs \in SUBSET Handles, Delete(c, hs)
      PROVE  Shape'
  BY <1>2, CallShape DEF Delete
<1>3. ASSUME NEW h \in Handles, Get(c, h)
      PROVE  Shape'
  BY <1>3, CallShape DEF Get
<1>4. ASSUME EndTransaction(c)
      PROVE  Shape'
  BY <1>4, CallShape DEF EndTransaction
<1>5. ASSUME UNCHANGED <<pc, arg, reply, volatile>>
      PROVE  Shape'
  BY <1>5 DEF Shape, SetsTTL
<1>. QED
  BY <1>1, <1>2, <1>3, <1>4, <1>5
     DEF Invoke, TransactionSet, TransactionDelete, Queue, CreateTransaction, Abandon, server

LEMMA ServeShape ==
  ASSUME Inv, Shape, NEW c \in Clients, Serve(c)
  PROVE  Shape'
<1>1. pc[c] # "idle" /\ UNCHANGED <<pc, arg>>
  BY DEF Serve, ServeSet, ServeExpire, ServeDelete, ServeGet, ServeExec, InFlight, Answer
<1>2. \A d \in Clients : pc[d] = "idle" => reply'[d] = reply[d]
  BY <1>1 DEF Serve, ServeSet, ServeExpire, ServeDelete, ServeGet, ServeExec, Answer,
     Inv, TypeOK
<1>3. \A h \in Handles : volatile'[h] => volatile[h] \/ SetsTTL
  BY DEF Serve, ServeSet, ServeExpire, ServeDelete, ServeGet, ServeExec, InFlight, Store,
     server, Shape
<1>. QED
  BY <1>1, <1>2, <1>3 DEF Shape, SetsTTL

LEMMA FinishShape ==
  ASSUME Inv, Shape, NEW c \in Clients, NEW how, Finish(c, how), UNCHANGED volatile
  PROVE  Shape'
  BY DEF Inv, TypeOK, Shape, Finish, SetsTTL

LEMMA ResumeShape ==
  ASSUME Inv, Shape, NEW c \in Clients, Resume(c)
  PROVE  Shape'
<1>1. UNCHANGED volatile
  BY DEF Resume, SetResume, ExpireResume, DeleteResume, GetResume, EndTransactionResume, server
<1>2. CASE SetResume(c) /\ SetsTTL
  BY <1>1, <1>2 DEF SetResume, Send, Shape, Inv, TypeOK, SetsTTL
<1>3. CASE \E how : Finish(c, how)
  BY <1>1, <1>3, FinishShape
<1>. QED
  BY <1>2, <1>3 DEF Resume, SetResume, ExpireResume, DeleteResume, GetResume,
     EndTransactionResume

LEMMA StepShape == Inv /\ Shape /\ [Next]_vars => Shape'
<1>. SUFFICES ASSUME Inv, Shape, [Next]_vars
              PROVE  Shape'
  OBVIOUS
<1>1. ASSUME NEW c \in Clients, Reject(c)
      PROVE  Shape'
  BY <1>1, FinishShape DEF Reject, server
<1>2. CASE Crash
  BY <1>2 DEF Crash, Shape, server, SetsTTL
<1>3. ASSUME NEW h \in Handles, Expire(h)
      PROVE  Shape'
  BY <1>3 DEF Expire, Store, Shape, caller, SetsTTL, Inv, TypeOK
<1>4. CASE UNCHANGED vars
  BY <1>4 DEF vars, server, caller, Shape, SetsTTL
<1>. QED
  BY <1>1, <1>2, <1>3, <1>4, InvokeShape, ServeShape, ResumeShape DEF Next

LEMMA InitMapInv == Init => MapInv
  BY InitInv, InitShape DEF MapInv

LEMMA StepMapInv == MapInv /\ [Next]_vars => MapInv'
  BY StepInv, StepShape DEF MapInv

-----------------------------------------------------------------------------
(* The write that a queue will make.                                       *)

\* A queue has at most one last command on a handle.
LEMMA LastIsUnique ==
  ASSUME NEW q \in Seq(Commands), NEW h,
         NEW i \in DOMAIN q, NEW j \in DOMAIN q, IsLastOn(q, h, i), IsLastOn(q, h, j)
  PROVE  i = j
  BY LenProperties DEF IsLastOn

LEMMA OverlayAt ==
  ASSUME NEW q \in Seq(Commands), NEW h \in Handles, NEW i \in DOMAIN q, IsLastOn(q, h, i)
  PROVE  Overlay(q)[h] = q[i].value /\ Touched(q, h) /\ AfterQueue(q, h) = q[i].value
<1>1. (CHOOSE j \in DOMAIN q : IsLastOn(q, h, j)) = i
  BY LastIsUnique
<1>. QED
  BY <1>1 DEF Overlay, Touched, AfterQueue

LEMMA OverlayEmpty == Overlay(<<>>) = [h \in Handles |-> Untouched]
  BY DEF Overlay, Touched

\* Queueing a command replaces the writes to its handles.
LEMMA OverlayAppend ==
  ASSUME NEW q \in Seq(Commands), NEW cmd \in Commands
  PROVE  Overlay(Append(q, cmd)) =
           [h \in Handles |-> IF h \in cmd.handles THEN cmd.value ELSE Overlay(q)[h]]
<1>. DEFINE r == Append(q, cmd)
            n == Len(q) + 1
<1>1. /\ r \in Seq(Commands) /\ Len(q) \in Nat
      /\ DOMAIN q = 1 .. Len(q) /\ DOMAIN r = 1 .. n
      /\ r[n] = cmd /\ \A i \in DOMAIN q : r[i] = q[i]
  BY AppendProperties, LenProperties
<1>. HIDE DEF r
<1>0. Overlay(r) = [h \in Handles |-> Overlay(r)[h]]
  BY DEF Overlay
<1>. SUFFICES ASSUME NEW h \in Handles
              PROVE  Overlay(r)[h] = IF h \in cmd.handles THEN cmd.value ELSE Overlay(q)[h]
  BY <1>0 DEF r
<1>2. CASE h \in cmd.handles
  <2>1. n \in DOMAIN r /\ IsLastOn(r, h, n)
    BY <1>1, <1>2 DEF IsLastOn
  <2>. QED
    BY <1>1, <1>2, <2>1, OverlayAt
<1>3. CASE h \notin cmd.handles
  <2>1. \A i \in DOMAIN r : IsLastOn(r, h, i) => i \in DOMAIN q
    BY <1>1, <1>3 DEF IsLastOn
  <2>2. \A i \in DOMAIN q : IsLastOn(r, h, i) <=> IsLastOn(q, h, i)
    BY <1>1, <1>3 DEF IsLastOn
  <2>3. CASE Touched(q, h)
    <3>1. PICK i \in DOMAIN q : IsLastOn(q, h, i)
      BY <2>3 DEF Touched
    <3>2. i \in DOMAIN r /\ IsLastOn(r, h, i) /\ r[i] = q[i]
      BY <1>1, <2>2, <3>1
    <3>3. Overlay(q)[h] = q[i].value
      BY <3>1, OverlayAt
    <3>4. Overlay(r)[h] = r[i].value
      BY <1>1, <3>2, OverlayAt
    <3>. QED
      BY <1>3, <3>2, <3>3, <3>4
  <2>4. CASE ~Touched(q, h)
    <3>1. ~Touched(r, h)
      BY <2>1, <2>2, <2>4 DEF Touched
    <3>. QED
      BY <1>3, <2>4, <3>1 DEF Overlay
  <2>. QED
    BY <2>3, <2>4
<1>. QED
  BY <1>2, <1>3

\* Executing a queue makes exactly the writes of its overlay.
LEMMA AfterQueueIsOverlay ==
  ASSUME NEW q \in Seq(Commands), NEW h \in Handles
  PROVE  AfterQueue(q, h) = IF Overlay(q)[h] # Untouched THEN Overlay(q)[h] ELSE db[h]
<1>1. CASE Touched(q, h)
  <2>1. PICK i \in DOMAIN q : IsLastOn(q, h, i)
    BY <1>1 DEF Touched
  <2>2. q[i] \in Commands
    BY ElementOfSeq
  <2>3. q[i].value # Untouched
    BY <2>2, ConstantsAssumption DEF Commands, Entries
  <2>. QED
    BY <2>1, <2>3, OverlayAt
<1>2. CASE ~Touched(q, h)
  BY <1>2 DEF Touched, AfterQueue, Overlay
<1>. QED
  BY <1>1, <1>2

\* An overlay is a function, never the mark of a transaction that is not there.
LEMMA OverlayIsNoMark ==
  ASSUME NEW q \in Seq(Commands)
  PROVE  Overlay(q) # NoTransaction
<1>1. ASSUME NEW h \in Handles
      PROVE  Overlay(q)[h] \in Values \cup {NoValue, Untouched}
  <2>1. CASE Touched(q, h)
    <3>1. PICK i \in DOMAIN q : IsLastOn(q, h, i)
      BY <2>1 DEF Touched
    <3>2. q[i] \in Commands
      BY ElementOfSeq
    <3>. QED
      BY <3>1, <3>2, OverlayAt DEF Commands, Entries
  <2>2. CASE ~Touched(q, h)
    BY <2>2 DEF Overlay
  <2>. QED
    BY <2>1, <2>2
<1>2. Overlay(q) \in [Handles -> Values \cup {NoValue, Untouched}]
  BY <1>1 DEF Overlay
<1>. QED
  BY <1>2, ConstantsAssumption

-----------------------------------------------------------------------------
(* The mapping.                                                            *)

\* A caller without a call is idle in AtomicStore, and a caller with one is not.
LEMMA IdleMaps ==
  ASSUME MapInv, NEW c \in Clients
  PROVE  /\ pc[c] = "idle" => /\ RequestBar[c] = Abstract!Idle
                              /\ DoneBar[c] = FALSE /\ AnswerBar[c] = NoReply
         /\ pc[c] # "idle" => RequestBar[c] # Abstract!Idle
<1>1. ASSUME pc[c] = "idle"
      PROVE  /\ RequestBar[c] = Abstract!Idle
             /\ DoneBar[c] = FALSE /\ AnswerBar[c] = NoReply
  <2>1. arg[c] = NoCommand /\ reply[c] = NoReply
    BY <1>1 DEF MapInv, Shape
  <2>2. RequestBar[c] = Abstract!Idle
    <3>1. RequestBar[c] = [kind |-> "idle", handles |-> arg[c].handles, value |-> arg[c].value]
      BY <1>1 DEF RequestBar
    <3>2. arg[c].handles = {} /\ arg[c].value = NoValue
      BY <2>1 DEF NoCommand
    <3>. QED
      BY <3>1, <3>2 DEF Abstract!Idle
  <2>3. DoneBar[c] = FALSE
    BY <1>1, <2>1 DEF DoneBar
  <2>4. AnswerBar[c] = NoReply
    BY <1>1 DEF AnswerBar
  <2>. QED
    BY <2>2, <2>3, <2>4
<1>2. ASSUME pc[c] # "idle"
      PROVE  RequestBar[c] # Abstract!Idle
  <2>1. RequestBar[c].kind # "idle"
    BY <1>2 DEF RequestBar
  <2>. QED
    BY <2>1 DEF Abstract!Idle
<1>. QED
  BY <1>1, <1>2

\* Calls that send a command.
LEMMA CallMaps ==
  ASSUME MapInv, NEW c \in Clients, NEW cmd \in Commands,
         NEW p \in {"set", "delete", "get", "exec"},
         p = "exec" => txOf[c] # NoTransaction,
         Call(c, p, cmd)
  PROVE  Abstract!Start(c, p, cmd.handles, cmd.value)
<1>. USE DEF MapInv, Inv, TypeOK
<1>1. RequestBar[c] = Abstract!Idle
  BY IdleMaps DEF Call
<1>2. RequestBar' = [RequestBar EXCEPT ![c] =
                       [kind |-> p, handles |-> cmd.handles, value |-> cmd.value]]
  BY DEF RequestBar, Call, Send
<1>3. DoneBar' = DoneBar
  BY DEF DoneBar, Call, Send, Shape
<1>4. AnswerBar' = AnswerBar
  BY DEF AnswerBar, Call, Send
<1>5. PendingBar' = PendingBar
  BY DEF PendingBar, Call, Overlay, Touched, IsLastOn
<1>. QED
  BY <1>1, <1>2, <1>3, <1>4, <1>5 DEF Abstract!Start, Call, server

\* Commands that are queued.
LEMMA QueueMaps ==
  ASSUME MapInv, NEW c \in Clients, NEW cmd \in Commands, Queue(c, cmd)
  PROVE  Abstract!Stage(c, cmd.handles, cmd.value)
<1>. DEFINE t == txOf[c]
            q == transactions[t]
<1>1. /\ t \in Transactions /\ t # NoTransaction /\ pc[c] = "idle"
      /\ q \in Seq(Commands) /\ q # NoTransaction
      /\ transactions' = [transactions EXCEPT ![t] = Append(q, cmd)]
  BY DEF MapInv, Inv, TypeOK, Queue
<1>2. PendingBar[t] = Overlay(q) /\ PendingBar[t] # NoTransaction
  BY <1>1, OverlayIsNoMark DEF PendingBar
<1>3. Append(q, cmd) \in Seq(Commands)
  BY <1>1, AppendProperties
<1>4. Append(q, cmd) # NoTransaction
  BY <1>3, ConstantsAssumption DEF Commands, Entries
<1>5. PendingBar' = [PendingBar EXCEPT ![t] = Overlay(Append(q, cmd))]
  BY <1>1, <1>4 DEF PendingBar, MapInv, Inv, TypeOK
<1>6. Overlay(Append(q, cmd)) =
        [h \in Handles |-> IF h \in cmd.handles THEN cmd.value ELSE PendingBar[t][h]]
  BY <1>1, <1>2, OverlayAppend
<1>7. RequestBar[c] = Abstract!Idle
  BY <1>1, IdleMaps
<1>8. UNCHANGED <<RequestBar, DoneBar, AnswerBar, db, txOf>>
      /\ outcome' = [outcome EXCEPT ![c] = "ok"]
  BY DEF Queue, RequestBar, DoneBar, AnswerBar, server
<1>. QED
  BY <1>1, <1>2, <1>5, <1>6, <1>7, <1>8 DEF Abstract!Stage

LEMMA InvokeMaps ==
  ASSUME MapInv, NEW c \in Clients, Invoke(c)
  PROVE  Abstract!Next
<1>. USE DEF Commands, Entries
<1>1. ASSUME NEW h \in Handles, NEW v \in Values, Set(c, h, v)
      PROVE  Abstract!Start(c, "set", {h}, v)
  <2>. DEFINE cmd == [handles |-> {h}, value |-> v]
  <2>1. cmd \in Commands /\ Call(c, "set", cmd)
    BY <1>1 DEF Set
  <2>. QED
    BY <2>1, CallMaps
<1>2. ASSUME NEW h \in Handles, NEW v \in Values, TransactionSet(c, h, v)
      PROVE  Abstract!Stage(c, {h}, v)
  <2>. DEFINE cmd == [handles |-> {h}, value |-> v]
  <2>1. cmd \in Commands /\ Queue(c, cmd)
    BY <1>2 DEF TransactionSet
  <2>. QED
    BY <2>1, QueueMaps
<1>3. ASSUME NEW hs \in SUBSET Handles \ {{}}, Delete(c, hs)
      PROVE  Abstract!Start(c, "delete", hs, NoValue)
  <2>. DEFINE cmd == [handles |-> hs, value |-> NoValue]
  <2>1. cmd \in Commands /\ Call(c, "delete", cmd)
    BY <1>3 DEF Delete
  <2>. QED
    BY <2>1, CallMaps
<1>4. ASSUME NEW hs \in SUBSET Handles \ {{}}, TransactionDelete(c, hs)
      PROVE  Abstract!Stage(c, hs, NoValue)
  <2>. DEFINE cmd == [handles |-> hs, value |-> NoValue]
  <2>1. cmd \in Commands /\ Queue(c, cmd)
    BY <1>4 DEF TransactionDelete
  <2>. QED
    BY <2>1, QueueMaps
<1>5. ASSUME NEW h \in Handles, Get(c, h)
      PROVE  Abstract!Start(c, "get", {h}, NoValue)
  <2>. DEFINE cmd == [handles |-> {h}, value |-> NoValue]
  <2>1. cmd \in Commands /\ Call(c, "get", cmd)
    BY <1>5 DEF Get
  <2>. QED
    BY <2>1, CallMaps
<1>6. ASSUME NEW t \in Transactions, CreateTransaction(c, t)
      PROVE  Abstract!Begin(c, t)
  <2>1. pc[c] = "idle" /\ transactions[t] = NoTransaction /\ txOf[c] = NoTransaction
        /\ transactions' = [transactions EXCEPT ![t] = <<>>]
    BY <1>6 DEF CreateTransaction
  <2>2. RequestBar[c] = Abstract!Idle /\ PendingBar[t] = NoTransaction
    BY <2>1, IdleMaps DEF PendingBar
  <2>3. <<>> # NoTransaction
    BY EmptySeq, ConstantsAssumption
  <2>4. PendingBar' = [PendingBar EXCEPT ![t] = [h \in Handles |-> Untouched]]
    BY <2>1, <2>3, OverlayEmpty DEF PendingBar, MapInv, Inv, TypeOK
  <2>5. UNCHANGED <<RequestBar, DoneBar, AnswerBar, db, outcome>>
        /\ txOf' = [txOf EXCEPT ![c] = t]
    BY <1>6 DEF CreateTransaction, RequestBar, DoneBar, AnswerBar, server
  <2>. QED
    BY <2>1, <2>2, <2>4, <2>5 DEF Abstract!Begin
<1>7. ASSUME EndTransaction(c)
      PROVE  Abstract!Start(c, "exec", {}, NoValue)
  <2>1. NoCommand \in Commands /\ Call(c, "exec", NoCommand) /\ txOf[c] # NoTransaction
    BY <1>7 DEF EndTransaction, NoCommand
  <2>. QED
    BY <2>1, CallMaps DEF NoCommand
<1>8. ASSUME Abandon(c)
      PROVE  Abstract!Drop(c)
  <2>1. RequestBar[c] = Abstract!Idle
    BY <1>8, IdleMaps DEF Abandon
  <2>2. UNCHANGED <<RequestBar, DoneBar, AnswerBar, PendingBar, db, outcome>>
        /\ txOf' = [txOf EXCEPT ![c] = NoTransaction]
    BY <1>8 DEF Abandon, RequestBar, DoneBar, AnswerBar, PendingBar, Overlay, Touched,
                IsLastOn, server
  <2>. QED
    BY <2>1, <2>2 DEF Abstract!Drop
<1>. QED
  BY <1>1, <1>2, <1>3, <1>4, <1>5, <1>6, <1>7, <1>8 DEF Invoke, Abstract!Next

-----------------------------------------------------------------------------
(* The server's answers: where a call takes effect.                        *)

\* An answer to client c that leaves the read of others alone makes c done.
LEMMA AnswerMaps ==
  ASSUME MapInv, NEW c \in Clients, NEW r, r # NoReply,
         pc[c] \notin {"idle", "expire"}, reply[c] = NoReply, Answer(c, r)
  PROVE  /\ RequestBar[c] # Abstract!Idle /\ ~DoneBar[c]
         /\ DoneBar' = [DoneBar EXCEPT ![c] = TRUE]
         /\ AnswerBar' = IF pc[c] = "get" THEN [AnswerBar EXCEPT ![c] = r] ELSE AnswerBar
         /\ UNCHANGED <<PendingBar, txOf, RequestBar, outcome>>
<1>. USE DEF MapInv, Inv, TypeOK
<1>1. RequestBar[c] # Abstract!Idle
  BY IdleMaps
<1>2. ~DoneBar[c]
  BY DEF DoneBar
<1>3. DoneBar' = [DoneBar EXCEPT ![c] = TRUE]
  <2>1. \A d \in Clients : DoneBar'[d] <=> (IF d = c THEN TRUE ELSE DoneBar[d])
    BY DEF DoneBar, Answer
  <2>2. \A d \in Clients : DoneBar'[d] \in BOOLEAN /\ DoneBar[d] \in BOOLEAN
    BY DEF DoneBar
  <2>3. \A d \in Clients : DoneBar'[d] = (IF d = c THEN TRUE ELSE DoneBar[d])
    BY <2>1, <2>2
  <2>. QED
    BY <2>3 DEF DoneBar
<1>4. AnswerBar' = IF pc[c] = "get" THEN [AnswerBar EXCEPT ![c] = r] ELSE AnswerBar
  BY DEF AnswerBar, Answer
<1>5. UNCHANGED <<PendingBar, txOf, RequestBar, outcome>>
  BY DEF PendingBar, Overlay, Touched, IsLastOn, RequestBar, Answer
<1>. QED
  BY <1>1, <1>2, <1>3, <1>4, <1>5

LEMMA ServeMaps ==
  ASSUME MapInv, NEW c \in Clients, Serve(c)
  PROVE  Abstract!TakeEffect(c) \/ UNCHANGED Abstract!vars
<1>. USE DEF MapInv, Inv, TypeOK
<1>1. db = [h \in Handles |-> db[h]] /\ arg[c].handles \subseteq Handles
  BY DEF Commands
<1>2. "OK" # NoReply /\ "0" # NoReply /\ "1" # NoReply
      /\ \A e \in Entries : e # NoReply
  BY ConstantsAssumption DEF Entries
<1>3. RequestBar[c].handles = arg[c].handles /\ RequestBar[c].value = arg[c].value
  BY DEF RequestBar
<1>4. ASSUME ServeSet(c)
      PROVE  Abstract!TakeEffect(c)
  <2>1. pc[c] = "set" /\ reply[c] = NoReply
    BY <1>4 DEF ServeSet, InFlight
  <2>2. RequestBar[c].kind = "set"
    BY <2>1 DEF RequestBar
  <2>3. PICK r \in {"OK", "0", "1"} : Answer(c, r)
    BY <1>4 DEF ServeSet
  <2>4. db' = [h \in Handles |-> IF h \in arg[c].handles THEN arg[c].value ELSE db[h]]
    BY <1>4 DEF ServeSet, Store
  <2>. QED
    BY <1>2, <1>3, <2>1, <2>2, <2>3, <2>4, AnswerMaps DEF Abstract!TakeEffect
<1>5. ASSUME ServeDelete(c)
      PROVE  Abstract!TakeEffect(c)
  <2>1. pc[c] = "delete" /\ reply[c] = NoReply
    BY <1>5 DEF ServeDelete, InFlight
  <2>2. RequestBar[c].kind = "delete" /\ RequestBar[c].value = NoValue
    BY <2>1 DEF RequestBar, Shape
  <2>3. PICK r \in {"0", "1"} : Answer(c, r)
    BY <1>5 DEF ServeDelete
  <2>4. db' = [h \in Handles |-> IF h \in arg[c].handles THEN NoValue ELSE db[h]]
    BY <1>5 DEF ServeDelete, Store
  <2>. QED
    BY <1>2, <1>3, <2>1, <2>2, <2>3, <2>4, AnswerMaps DEF Abstract!TakeEffect
<1>6. ASSUME ServeGet(c)
      PROVE  Abstract!TakeEffect(c)
  <2>1. pc[c] = "get" /\ reply[c] = NoReply /\ UNCHANGED db
    BY <1>6 DEF ServeGet, InFlight, server
  <2>2. RequestBar[c].kind = "get"
    BY <2>1 DEF RequestBar
  <2>3. PICK h \in arg[c].handles : Answer(c, db[h])
    BY <1>6 DEF ServeGet
  <2>4. db[h] # NoReply
    BY <1>1, <1>2, <2>3
  <2>5. AnswerBar' = [AnswerBar EXCEPT ![c] = db[h]]
    BY <2>1, <2>3, <2>4, AnswerMaps
  <2>. QED
    BY <1>1, <1>3, <2>1, <2>2, <2>3, <2>4, <2>5, AnswerMaps DEF Abstract!TakeEffect
<1>7. ASSUME ServeExec(c)
      PROVE  Abstract!TakeEffect(c)
  <2>. DEFINE q == transactions[txOf[c]]
  <2>1. pc[c] = "exec" /\ reply[c] = NoReply /\ Answer(c, "OK")
    BY <1>7 DEF ServeExec, InFlight
  <2>2. RequestBar[c].kind = "exec"
    BY <2>1 DEF RequestBar
  <2>3. txOf[c] \in Transactions /\ q # NoTransaction /\ q \in Seq(Commands)
    BY <2>1 DEF TransactionsHeld
  <2>4. PendingBar[txOf[c]] = Overlay(q)
    BY <2>3 DEF PendingBar
  <2>5. db' = [h \in Handles |-> AfterQueue(q, h)]
    BY <1>7 DEF ServeExec, Store
  <2>6. db' = [h \in Handles |-> IF PendingBar[txOf[c]][h] # Untouched
                                    THEN PendingBar[txOf[c]][h] ELSE db[h]]
    BY <2>3, <2>4, <2>5, AfterQueueIsOverlay
  <2>. QED
    BY <1>2, <2>1, <2>2, <2>6, AnswerMaps DEF Abstract!TakeEffect
<1>8. ASSUME ServeExpire(c)
      PROVE  UNCHANGED Abstract!vars
  <2>1. pc[c] = "expire" /\ UNCHANGED <<transactions, txOf, pc, arg, outcome>>
        /\ \A d \in Clients \ {c} : reply'[d] = reply[d]
    BY <1>8 DEF ServeExpire, InFlight, Answer
  <2>2. UNCHANGED db
    BY <1>8 DEF ServeExpire, Store
  <2>3. UNCHANGED <<PendingBar, RequestBar, AnswerBar>>
    BY <2>1 DEF PendingBar, Overlay, Touched, IsLastOn, RequestBar, AnswerBar
  <2>4. UNCHANGED DoneBar
    BY <2>1 DEF DoneBar
  <2>. QED
    BY <2>1, <2>2, <2>3, <2>4 DEF Abstract!vars
<1>. QED
  BY <1>4, <1>5, <1>6, <1>7, <1>8 DEF Serve

-----------------------------------------------------------------------------
(* Ends of calls.                                                          *)

LEMMA FinishMaps ==
  ASSUME MapInv, NEW c \in Clients, NEW how, pc[c] # "idle", Finish(c, how)
  PROVE  RequestBar[c] # Abstract!Idle /\ Abstract!Stop(c, how)
<1>. USE DEF MapInv, Inv, TypeOK
<1>1. RequestBar[c] # Abstract!Idle
  BY IdleMaps
<1>2. RequestBar' = [RequestBar EXCEPT ![c] = Abstract!Idle]
  BY DEF RequestBar, Finish, NoCommand, Abstract!Idle
<1>3. DoneBar' = [DoneBar EXCEPT ![c] = FALSE]
  <2>1. \A d \in Clients : DoneBar'[d] = (IF d = c THEN FALSE ELSE DoneBar[d])
    BY DEF DoneBar, Finish
  <2>. QED
    BY <2>1 DEF DoneBar
<1>4. AnswerBar' = [AnswerBar EXCEPT ![c] = NoReply]
  BY DEF AnswerBar, Finish
<1>. QED
  BY <1>1, <1>2, <1>3, <1>4 DEF Finish, Abstract!Stop

\* A continuation that keeps the transactions.
LEMMA ResumeKeepsPending ==
  ASSUME UNCHANGED transactions
  PROVE  UNCHANGED PendingBar
  BY DEF PendingBar, Overlay, Touched, IsLastOn

LEMMA ResumeMaps ==
  ASSUME MapInv, NEW c \in Clients, Resume(c)
  PROVE  Abstract!Finish(c) \/ UNCHANGED Abstract!vars
<1>. USE DEF MapInv, Inv, TypeOK
<1>1. ASSUME NEW p \in {"set", "expire", "delete", "get", "exec"}, Answered(c, p)
      PROVE  DoneBar[c] /\ RequestBar[c].kind = IF p = "expire" THEN "set" ELSE p
  BY <1>1 DEF Answered, DoneBar, RequestBar
<1>2. ASSUME SetResume(c), SetsTTL
      PROVE  UNCHANGED Abstract!vars
  <2>1. pc[c] = "set" /\ reply[c] # NoReply /\ Send(c, "expire", arg[c])
        /\ UNCHANGED <<db, transactions, txOf, outcome>>
    BY <1>2 DEF SetResume, Answered, server
  <2>2. UNCHANGED <<RequestBar, AnswerBar>>
    BY <2>1 DEF RequestBar, AnswerBar, Send
  <2>3. \A d \in Clients : DoneBar'[d] = DoneBar[d]
    BY <2>1 DEF DoneBar, Send
  <2>4. UNCHANGED DoneBar
    BY <2>3 DEF DoneBar
  <2>. QED
    BY <2>1, <2>2, <2>4, ResumeKeepsPending DEF Abstract!vars
<1>3. ASSUME SetResume(c), ~SetsTTL
      PROVE  Abstract!Finish(c)
  <2>1. Answered(c, "set") /\ UNCHANGED <<db, transactions, txOf>>
    BY <1>3 DEF SetResume, server
  <2>2. PICK how \in {"ok", "not_set"} : Finish(c, how)
    BY <1>3 DEF SetResume
  <2>. QED
    BY <1>1, <2>1, <2>2, FinishMaps, ResumeKeepsPending DEF Abstract!Finish, Answered
<1>4. ASSUME ExpireResume(c)
      PROVE  Abstract!Finish(c)
  <2>1. Answered(c, "expire") /\ UNCHANGED <<db, transactions, txOf>> /\ Finish(c, "ok")
    BY <1>4 DEF ExpireResume, server
  <2>. QED
    BY <1>1, <2>1, FinishMaps, ResumeKeepsPending DEF Abstract!Finish, Answered
<1>5. ASSUME DeleteResume(c)
      PROVE  Abstract!Finish(c)
  <2>1. Answered(c, "delete") /\ UNCHANGED <<db, transactions, txOf>> /\ Finish(c, "ok")
    BY <1>5 DEF DeleteResume, server
  <2>. QED
    BY <1>1, <2>1, FinishMaps, ResumeKeepsPending DEF Abstract!Finish, Answered
<1>6. ASSUME GetResume(c)
      PROVE  Abstract!Finish(c)
  <2>1. Answered(c, "get") /\ UNCHANGED <<db, transactions, txOf>> /\ Finish(c, reply[c])
    BY <1>6 DEF GetResume, server
  <2>2. AnswerBar[c] = reply[c]
    BY <2>1 DEF AnswerBar, Answered
  <2>. QED
    BY <1>1, <2>1, <2>2, FinishMaps, ResumeKeepsPending DEF Abstract!Finish, Answered
<1>7. ASSUME EndTransactionResume(c)
      PROVE  Abstract!Finish(c)
  <2>1. /\ Answered(c, "exec") /\ Finish(c, "ok") /\ UNCHANGED db
        /\ transactions' = [transactions EXCEPT ![txOf[c]] = NoTransaction]
        /\ txOf' = [txOf EXCEPT ![c] = NoTransaction]
    BY <1>7 DEF EndTransactionResume, server
  <2>2. PendingBar' = [PendingBar EXCEPT ![txOf[c]] = NoTransaction]
    BY <2>1 DEF PendingBar
  <2>. QED
    BY <1>1, <2>1, <2>2, FinishMaps DEF Abstract!Finish, Answered
<1>. QED
  BY <1>2, <1>3, <1>4, <1>5, <1>6, <1>7 DEF Resume

LEMMA FaultsMap ==
  ASSUME MapInv
  PROVE  /\ \A c \in Clients : Reject(c) => Abstract!Fail(c)
         /\ Crash => Abstract!Crash
         /\ \A h \in Handles : Expire(h) => Abstract!Vanish(h)
<1>. USE DEF MapInv, Inv, TypeOK
<1>1. ASSUME NEW c \in Clients, Reject(c)
      PROVE  Abstract!Fail(c)
  <2>1. pc[c] # "idle" /\ Finish(c, "rejected") /\ UNCHANGED <<db, transactions>>
        /\ txOf' = [txOf EXCEPT ![c] = IF pc[c] = "exec" THEN NoTransaction ELSE @]
    BY <1>1 DEF Reject, server
  <2>2. RequestBar[c].kind = "exec" <=> pc[c] = "exec"
    BY DEF RequestBar
  <2>. QED
    BY <2>1, <2>2, FinishMaps, ResumeKeepsPending DEF Abstract!Fail
<1>2. ASSUME Crash
      PROVE  Abstract!Crash
  <2>1. PendingBar' = [t \in Transactions |-> NoTransaction]
    BY <1>2 DEF Crash, PendingBar
  <2>2. RequestBar' = [c \in Clients |-> Abstract!Idle]
    BY <1>2 DEF Crash, RequestBar, NoCommand, Abstract!Idle
  <2>3. \A c \in Clients : DoneBar'[c] = FALSE
    BY <1>2 DEF Crash, DoneBar
  <2>4. DoneBar' = [c \in Clients |-> FALSE]
    BY <2>3 DEF DoneBar
  <2>5. AnswerBar' = [c \in Clients |-> NoReply]
    BY <1>2 DEF Crash, AnswerBar
  <2>. QED
    BY <1>2, <2>1, <2>2, <2>4, <2>5 DEF Crash, Abstract!Crash, server
<1>3. ASSUME NEW h \in Handles, Expire(h)
      PROVE  Abstract!Vanish(h)
  <2>1. SetsTTL
    BY <1>3 DEF Expire, Shape
  <2>2. db' = [db EXCEPT ![h] = NoValue]
        /\ UNCHANGED <<transactions, txOf, pc, arg, reply, outcome>>
    BY <1>3 DEF Expire, Store, caller
  <2>3. UNCHANGED <<RequestBar, DoneBar, AnswerBar>>
    BY <2>2 DEF RequestBar, DoneBar, AnswerBar
  <2>. QED
    BY <2>1, <2>2, <2>3, ResumeKeepsPending DEF Abstract!Vanish
<1>. QED
  BY <1>1, <1>2, <1>3

-----------------------------------------------------------------------------

LEMMA InitMaps == Init => Abstract!Init
<1>. SUFFICES ASSUME Init
              PROVE  Abstract!Init
  OBVIOUS
<1>1. PendingBar = [t \in Transactions |-> NoTransaction]
  BY DEF Init, PendingBar
<1>2. RequestBar = [c \in Clients |-> Abstract!Idle]
  BY DEF Init, RequestBar, NoCommand, Abstract!Idle
<1>3. \A c \in Clients : DoneBar[c] = FALSE
  BY DEF Init, DoneBar
<1>4. DoneBar = [c \in Clients |-> FALSE]
  BY <1>3 DEF DoneBar
<1>5. AnswerBar = [c \in Clients |-> NoReply]
  BY DEF Init, AnswerBar
<1>. QED
  BY <1>1, <1>2, <1>4, <1>5 DEF Init, Abstract!Init

LEMMA StepMaps == MapInv /\ [Next]_vars => [Abstract!Next]_(Abstract!vars)
<1>. SUFFICES ASSUME MapInv, [Next]_vars
              PROVE  Abstract!Next \/ UNCHANGED Abstract!vars
  OBVIOUS
<1>1. CASE \E c \in Clients : Invoke(c)
  BY <1>1, InvokeMaps
<1>2. CASE \E c \in Clients : Serve(c)
  BY <1>2, ServeMaps DEF Abstract!Next
<1>3. CASE \E c \in Clients : Resume(c)
  BY <1>3, ResumeMaps DEF Abstract!Next
<1>4. CASE \E c \in Clients : Reject(c)
  BY <1>4, FaultsMap DEF Abstract!Next
<1>5. CASE Crash
  BY <1>5, FaultsMap DEF Abstract!Next
<1>6. CASE \E h \in Handles : Expire(h)
  BY <1>6, FaultsMap DEF Abstract!Next
<1>7. CASE UNCHANGED vars
  <2>1. UNCHANGED <<RequestBar, DoneBar, AnswerBar, db, txOf, outcome>>
    BY <1>7 DEF vars, caller, RequestBar, DoneBar, AnswerBar
  <2>. QED
    BY <1>7, <2>1, ResumeKeepsPending DEF vars, Abstract!vars
<1>. QED
  BY <1>1, <1>2, <1>3, <1>4, <1>5, <1>6, <1>7 DEF Next

\* The store (redis.store.service.ts) keeps its promise: concurrent calls, the
\* two-command set(), queued transactions, rejections and restarts look to the
\* callers like calls that take effect at one instant each.
THEOREM Refinement == Spec => ImplementsAtomicStore
<1>. QED
  BY InitMapInv, StepMapInv, InitMaps, StepMaps, PTL
     DEF Spec, ImplementsAtomicStore, Abstract!Spec


-----------------------------------------------------------------------------
(* Calls run down: that they return is left to TLC, and what it needs of   *)
(* the code is proved.                                                     *)

\* How far a call is from its end: a set() has two commands, every other call one, and a
\* command is answered first and returned from then.
StepsLeft(c) ==
  IF pc[c] = "idle" THEN 0
  ELSE (IF pc[c] = "set" THEN 4 ELSE 2) - (IF reply[c] = NoReply THEN 0 ELSE 1)

\* Every answer, every continuation and every failure brings a call nearer to its end, and
\* nothing that others do sets it back.
CallsGetNearer ==
  [][\A c \in Clients :
       /\ Serve(c) \/ Resume(c) \/ Reject(c) => StepsLeft(c)' < StepsLeft(c)
       /\ pc[c] # "idle" => StepsLeft(c)' <= StepsLeft(c)]_vars

LEMMA StepsLeftIs ==
  ASSUME TypeOK, NEW c \in Clients
  PROVE  /\ StepsLeft(c) \in Nat
         /\ StepsLeft(c) = 0 <=> pc[c] = "idle"
  BY DEF TypeOK, StepsLeft

LEMMA ServeNears ==
  ASSUME TypeOK, NEW c \in Clients, Serve(c)
  PROVE  /\ StepsLeft(c)' < StepsLeft(c)
         /\ \A d \in Clients \ {c} : pc'[d] = pc[d] /\ reply'[d] = reply[d]
<1>1. \E r \in Entries \cup {"OK", "0", "1"} : Answer(c, r)
  <2>1. CASE ServeSet(c)
    BY <2>1 DEF ServeSet
  <2>2. CASE ServeExpire(c)
    BY <2>2 DEF ServeExpire
  <2>3. CASE ServeDelete(c)
    BY <2>3 DEF ServeDelete
  <2>4. CASE ServeGet(c)
    <3>1. PICK h \in arg[c].handles : Answer(c, db[h])
      BY <2>4 DEF ServeGet
    <3>2. db[h] \in Entries
      BY <3>1 DEF TypeOK, Commands
    <3>. QED
      BY <3>1, <3>2
  <2>5. CASE ServeExec(c)
    BY <2>5 DEF ServeExec
  <2>. QED
    BY <2>1, <2>2, <2>3, <2>4, <2>5 DEF Serve
<1>2. PICK r \in Entries \cup {"OK", "0", "1"} : Answer(c, r)
  BY <1>1
<1>3. r # NoReply
  BY ConstantsAssumption DEF Entries
<1>4. pc[c] # "idle" /\ reply[c] = NoReply
  BY DEF Serve, ServeSet, ServeExpire, ServeDelete, ServeGet, ServeExec, InFlight
<1>5. pc' = pc /\ reply' = [reply EXCEPT ![c] = r]
  BY <1>2 DEF Answer
<1>6. reply'[c] = r /\ \A d \in Clients \ {c} : reply'[d] = reply[d]
  BY <1>5 DEF TypeOK
<1>. QED
  BY <1>3, <1>4, <1>5, <1>6 DEF StepsLeft

LEMMA FinishNears ==
  ASSUME TypeOK, NEW c \in Clients, pc[c] # "idle", NEW how, Finish(c, how)
  PROVE  /\ StepsLeft(c)' < StepsLeft(c)
         /\ \A d \in Clients \ {c} : pc'[d] = pc[d] /\ reply'[d] = reply[d]
  BY DEF TypeOK, Finish, StepsLeft

LEMMA ResumeNears ==
  ASSUME TypeOK, NEW c \in Clients, Resume(c)
  PROVE  /\ StepsLeft(c)' < StepsLeft(c)
         /\ \A d \in Clients \ {c} : pc'[d] = pc[d] /\ reply'[d] = reply[d]
<1>1. pc[c] # "idle" /\ reply[c] # NoReply
  BY DEF Resume, SetResume, ExpireResume, DeleteResume, GetResume, EndTransactionResume, Answered
<1>2. CASE SetResume(c) /\ SetsTTL
  BY <1>2 DEF SetResume, Send, Answered, StepsLeft, TypeOK
<1>3. CASE \E how : Finish(c, how)
  BY <1>1, <1>3, FinishNears
<1>. QED
  BY <1>2, <1>3 DEF Resume, SetResume, ExpireResume, DeleteResume, GetResume, EndTransactionResume

\* A call of the store returns after at most four steps of its own, two for each of its
\* commands, whatever other callers, expiring keys and restarts do
\* (redis.store.service.ts: set, get, delete, endTransaction).
THEOREM CallsRunDown == Spec => CallsGetNearer
<1>. DEFINE Nearer(c) == /\ Serve(c) \/ Resume(c) \/ Reject(c) => StepsLeft(c)' < StepsLeft(c)
                         /\ pc[c] # "idle" => StepsLeft(c)' <= StepsLeft(c)
<1>1. ASSUME TypeOK, TypeOK', [Next]_vars, NEW c \in Clients
      PROVE  Nearer(c)
  <2>1. ASSUME Serve(c) \/ Resume(c) \/ Reject(c) PROVE StepsLeft(c)' < StepsLeft(c)
    BY <1>1, <2>1, ServeNears, ResumeNears, FinishNears DEF Reject
  <2>2. StepsLeft(c) \in Nat
    BY <1>1, StepsLeftIs
  <2>3. pc'[c] = pc[c] /\ reply'[c] = reply[c] => StepsLeft(c)' = StepsLeft(c)
    BY DEF StepsLeft
  <2>4. ASSUME NEW d \in Clients, d # c, Invoke(d) \/ Serve(d) \/ Resume(d) \/ Reject(d)
        PROVE  pc'[c] = pc[c] /\ reply'[c] = reply[c]
    <3>1. CASE Serve(d) \/ Resume(d)
      BY <1>1, <2>4, <3>1, ServeNears, ResumeNears
    <3>2. CASE Reject(d)
      BY <1>1, <2>4, <3>2, FinishNears DEF Reject
    <3>3. CASE UNCHANGED <<pc, reply>>
      BY <3>3
    <3>4. CASE \E p, cmd : Call(d, p, cmd)
      BY <1>1, <2>4, <3>4 DEF Call, Send, TypeOK
    <3>. QED
      BY <2>4, <3>1, <3>2, <3>3, <3>4 DEF Invoke, Set, Delete, Get, EndTransaction, TransactionSet,
         TransactionDelete, Queue, CreateTransaction, Abandon
  <2>5. pc[c] # "idle" /\ Invoke(c) => FALSE
    BY DEF Invoke, Set, Delete, Get, EndTransaction, TransactionSet, TransactionDelete, Queue,
       CreateTransaction, Abandon, Call
  <2>6. CASE Crash
    <3>1. StepsLeft(c)' = 0
      BY <2>6 DEF Crash, StepsLeft
    <3>. QED
      BY <2>1, <2>2, <3>1
  <2>7. CASE (\E h \in Handles : Expire(h)) \/ UNCHANGED vars
    <3>1. pc' = pc /\ reply' = reply
      BY <2>7 DEF Expire, vars, caller
    <3>. QED
      BY <2>1, <2>2, <2>3, <3>1
  <2>8. CASE \E d \in Clients : Invoke(d) \/ Serve(d) \/ Resume(d) \/ Reject(d)
    <3>1. PICK d \in Clients : Invoke(d) \/ Serve(d) \/ Resume(d) \/ Reject(d)
      BY <2>8
    <3>2. CASE d = c
      <4>1. StepsLeft(c)' \in Nat
        BY <1>1 DEF TypeOK, StepsLeft
      <4>. QED
        BY <2>1, <2>2, <2>5, <3>1, <3>2, <4>1
    <3>3. CASE d # c
      BY <2>1, <2>2, <2>3, <2>4, <3>1, <3>3
    <3>. QED
      BY <3>2, <3>3
  <2>. QED
    BY <1>1, <2>6, <2>7, <2>8 DEF Next
<1>2. Inv /\ Inv' /\ [Next]_vars => \A c \in Clients : Nearer(c)
  BY <1>1 DEF Inv
<1>. HIDE DEF Nearer
<1>3. Spec => [][\A c \in Clients : Nearer(c)]_vars
  BY InitInv, StepInv, <1>2, PTL DEF Spec
<1>. QED
  BY <1>3 DEF Nearer, CallsGetNearer
=============================================================================
