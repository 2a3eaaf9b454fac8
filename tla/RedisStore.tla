----------------------------- MODULE RedisStore -----------------------------
(***************************************************************************)
(* RedisStoreService (packages/data-redis/src/store/redis.store.service.ts)*)
(* and the part of a Redis server it uses.  Clients are concurrent         *)
(* asynchronous callers in one Node.js process that share one service      *)
(* object.  JavaScript runs to the next await without interruption, so an  *)
(* action is the code between two awaits: the call up to the first command *)
(* it sends, the server's execution of a command, the code after its reply.*)
(*                                                                         *)
(* Abstractions.  A handle stands for the full key or the hash field; an   *)
(* integer reply is "0" or "1" (none or some); a TTL is present or absent; *)
(* a caller uses only the transaction it created itself, as every caller   *)
(* in the repository does, and gives it up when ending it fails.           *)
(***************************************************************************)
EXTENDS Naturals, Sequences

CONSTANTS
  Clients,        \* concurrent callers of the service
  Handles,        \* the handles given to set, get and delete
  Values,         \* the serialised entries
  Transactions,   \* transaction ids; uuid() returns one the map does not hold
  MaxQueue,       \* bound: commands queued in one transaction
  UseHashmap,     \* the module's useHashmap setting
  HasTTL,         \* ttl || defaultTTL is set
  Faults,         \* what the environment does: "reject", "crash"
  NoValue,        \* Redis nil
  NoReply,        \* the command a client awaits has not been answered
  NoTransaction,  \* an id the transactions map does not hold
  Untouched       \* a transaction's queue has no command on a handle

ASSUME ConstantsAssumption ==
  /\ UseHashmap \in BOOLEAN
  /\ HasTTL \in BOOLEAN
  /\ MaxQueue \in Nat
  /\ Faults \subseteq {"reject", "crash"}
  /\ NoValue \notin Values
  /\ NoTransaction \notin
       Transactions \cup Seq([handles : SUBSET Handles, value : Values \cup {NoValue}])
         \cup [Handles -> Values \cup {NoValue, Untouched}]
  /\ Untouched \notin Values \cup {NoValue}
  /\ NoReply \notin Values \cup {NoValue, "OK", "0", "1"}

VARIABLES
  db,            \* server: the value of each handle
  volatile,      \* server: whether the handle has a time to live
  transactions,  \* this.transactions: the commands queued under each id
  txOf,          \* the transaction id a client holds
  pc,            \* the await a client's call is suspended at
  arg,           \* the command that call sent
  reply,         \* the server's answer to it
  outcome,       \* how the client's last call ended
  interrupted    \* history: persistent handles whose set() was cut short

server == <<db, volatile>>
caller == <<txOf, pc, arg, reply, outcome>>
vars == <<db, volatile, transactions, caller, interrupted>>

Entries == Values \cup {NoValue}

\* A write command: SET/HSET of one handle, or DEL/HDEL (value NoValue) of several.
Commands == [handles : SUBSET Handles, value : Entries]
NoCommand == [handles |-> {}, value |-> NoValue]

\* A non-hashmap set() with a TTL is followed by an EXPIRE; there is no HEXPIRE.
SetsTTL == ~UseHashmap /\ HasTTL

TypeOK ==
  /\ db \in [Handles -> Entries]
  /\ volatile \in [Handles -> BOOLEAN]
  /\ transactions \in [Transactions -> Seq(Commands) \cup {NoTransaction}]
  /\ txOf \in [Clients -> Transactions \cup {NoTransaction}]
  /\ pc \in [Clients -> {"idle", "set", "expire", "delete", "get", "exec"}]
  /\ arg \in [Clients -> Commands]
  /\ reply \in [Clients -> Entries \cup {NoReply, "OK", "0", "1"}]
  /\ \A c \in Clients : pc[c] = "get" => reply[c] \in Entries \cup {NoReply}
  /\ outcome \in [Clients -> Entries \cup {"none", "ok", "not_set", "rejected"}]
  /\ interrupted \in SUBSET Handles

Init ==
  /\ db = [h \in Handles |-> NoValue]
  /\ volatile = [h \in Handles |-> FALSE]
  /\ transactions = [t \in Transactions |-> NoTransaction]
  /\ txOf = [c \in Clients |-> NoTransaction]
  /\ pc = [c \in Clients |-> "idle"]
  /\ arg = [c \in Clients |-> NoCommand]
  /\ reply = [c \in Clients |-> NoReply]
  /\ outcome = [c \in Clients |-> "none"]
  /\ interrupted = {}

-----------------------------------------------------------------------------
(* The service's methods, up to the command they await.                    *)

\* client c sends command cmd and waits for its answer at await point p
Send(c, p, cmd) ==
  /\ pc' = [pc EXCEPT ![c] = p]
  /\ arg' = [arg EXCEPT ![c] = cmd]
  /\ reply' = [reply EXCEPT ![c] = NoReply]

Call(c, p, cmd) ==
  /\ pc[c] = "idle"
  /\ Send(c, p, cmd)
  /\ outcome' = [outcome EXCEPT ![c] = "none"]
  /\ UNCHANGED <<server, transactions, txOf, interrupted>>

Set(c, h, v) == Call(c, "set", [handles |-> {h}, value |-> v])
Delete(c, hs) == Call(c, "delete", [handles |-> hs, value |-> NoValue])
Get(c, h) == Call(c, "get", [handles |-> {h}, value |-> NoValue])

CreateTransaction(c, t) ==
  /\ pc[c] = "idle"
  /\ txOf[c] = NoTransaction
  /\ transactions[t] = NoTransaction
  /\ transactions' = [transactions EXCEPT ![t] = <<>>]
  /\ txOf' = [txOf EXCEPT ![c] = t]
  /\ UNCHANGED <<server, pc, arg, reply, outcome, interrupted>>

\* set() and delete() with a transactionId queue their command and return at once
Queue(c, cmd) ==
  LET t == txOf[c] IN
  /\ pc[c] = "idle"
  /\ t # NoTransaction
  /\ transactions[t] # NoTransaction
  /\ Len(transactions[t]) < MaxQueue
  /\ transactions' = [transactions EXCEPT ![t] = Append(@, cmd)]
  /\ outcome' = [outcome EXCEPT ![c] = "ok"]
  /\ UNCHANGED <<server, txOf, pc, arg, reply, interrupted>>

TransactionSet(c, h, v) == Queue(c, [handles |-> {h}, value |-> v])
TransactionDelete(c, hs) == Queue(c, [handles |-> hs, value |-> NoValue])

\* Mutant: the entry leaves the map before exec() is awaited.
EndTransactionDeletesFirst(c) ==
  /\ txOf[c] # NoTransaction
  /\ transactions[txOf[c]] # NoTransaction
  /\ pc[c] = "idle"
  /\ Send(c, "exec", NoCommand)
  /\ transactions' = [transactions EXCEPT ![txOf[c]] = NoTransaction]
  /\ outcome' = [outcome EXCEPT ![c] = "none"]
  /\ UNCHANGED <<server, txOf, interrupted>>

EndTransaction(c) ==
  /\ txOf[c] # NoTransaction
  /\ transactions[txOf[c]] # NoTransaction
  /\ Call(c, "exec", NoCommand)

\* a caller whose own code throws between createTransaction and endTransaction
Abandon(c) ==
  /\ pc[c] = "idle"
  /\ txOf[c] # NoTransaction
  /\ txOf' = [txOf EXCEPT ![c] = NoTransaction]
  /\ UNCHANGED <<server, transactions, pc, arg, reply, outcome, interrupted>>

-----------------------------------------------------------------------------
(* The server: one command, or one MULTI/EXEC block, at a time.            *)

\* the position of the last command of queue q that touches handle h
IsLastOn(q, h, i) ==
  /\ h \in q[i].handles
  /\ \A j \in DOMAIN q : j > i => h \notin q[j].handles

\* the contents of h after the commands of q, in their order
AfterQueue(q, h) ==
  IF \E i \in DOMAIN q : IsLastOn(q, h, i)
    THEN q[CHOOSE i \in DOMAIN q : IsLastOn(q, h, i)].value
    ELSE db[h]

Touched(q, h) == \E i \in DOMAIN q : IsLastOn(q, h, i)

\* the server's data after the answer: a handle that lost its value or gained
\* a time to live is no longer one that an interrupted set() left behind
Store(newDb, newVolatile) ==
  /\ db' = newDb
  /\ volatile' = newVolatile
  /\ interrupted' = {h \in interrupted : newDb[h] # NoValue /\ ~newVolatile[h]}

Answer(c, r) ==
  /\ reply' = [reply EXCEPT ![c] = r]
  /\ UNCHANGED <<transactions, txOf, pc, arg, outcome>>

InFlight(c, p) == pc[c] = p /\ reply[c] = NoReply

\* SET replies OK and drops the handle's TTL; HSET replies with the number of
\* fields it created, so an overwrite answers 0
ServeSet(c) ==
  LET hs == arg[c].handles
      isNew == \A h \in hs : db[h] = NoValue
  IN /\ InFlight(c, "set")
     /\ Store([h \in Handles |-> IF h \in hs THEN arg[c].value ELSE db[h]],
              [h \in Handles |-> volatile[h] /\ h \notin hs])
     /\ Answer(c, IF ~UseHashmap THEN "OK" ELSE IF isNew THEN "1" ELSE "0")

\* EXPIRE key ttl NX: sets a TTL only on an existing key that has none
ServeExpire(c) ==
  LET gets(h) == h \in arg[c].handles /\ db[h] # NoValue /\ ~volatile[h] IN
  /\ InFlight(c, "expire")
  /\ Store(db, [h \in Handles |-> volatile[h] \/ gets(h)])
  /\ Answer(c, IF \E h \in Handles : gets(h) THEN "1" ELSE "0")

ServeDelete(c) ==
  LET hs == arg[c].handles IN
  /\ InFlight(c, "delete")
  /\ Store([h \in Handles |-> IF h \in hs THEN NoValue ELSE db[h]],
           [h \in Handles |-> volatile[h] /\ h \notin hs])
  /\ Answer(c, IF \E h \in hs : db[h] # NoValue THEN "1" ELSE "0")

ServeGet(c) ==
  /\ InFlight(c, "get")
  /\ \E h \in arg[c].handles : Answer(c, db[h])
  /\ UNCHANGED <<server, interrupted>>

\* each queued SET is followed by its EXPIRE when a TTL is configured
ServeExec(c) ==
  LET q == transactions[txOf[c]] IN
  /\ InFlight(c, "exec")
  /\ Store([h \in Handles |-> AfterQueue(q, h)],
           [h \in Handles |-> IF Touched(q, h)
                                THEN SetsTTL /\ AfterQueue(q, h) # NoValue
                                ELSE volatile[h]])
  /\ Answer(c, "OK")

\* a key with a TTL runs out
Expire(h) ==
  /\ volatile[h]
  /\ Store([db EXCEPT ![h] = NoValue], [volatile EXCEPT ![h] = FALSE])
  /\ UNCHANGED <<transactions, caller>>

-----------------------------------------------------------------------------
(* The code after the await.                                               *)

Answered(c, p) == pc[c] = p /\ reply[c] # NoReply

Finish(c, how) ==
  /\ pc' = [pc EXCEPT ![c] = "idle"]
  /\ arg' = [arg EXCEPT ![c] = NoCommand]
  /\ reply' = [reply EXCEPT ![c] = NoReply]
  /\ outcome' = [outcome EXCEPT ![c] = how]

\* Mutant: no EXPIRE, as in hash mode.
SetResumeWithoutExpire(c) ==
  /\ Answered(c, "set")
  /\ Finish(c, IF reply[c] \in {"OK", "1"} THEN "ok" ELSE "not_set")
  /\ UNCHANGED <<server, transactions, txOf, interrupted>>

\* result = await client.set(...); then the EXPIRE, or the check of the result
SetResume(c) ==
  /\ Answered(c, "set")
  /\ IF SetsTTL
       THEN Send(c, "expire", arg[c]) /\ UNCHANGED outcome
       ELSE Finish(c, IF reply[c] \in {"OK", "1"} THEN "ok" ELSE "not_set")
  /\ UNCHANGED <<server, transactions, txOf, interrupted>>

\* Mutant: the call waits for an EXPIRE that reports success.
ExpireResumeOnSuccess(c) ==
  /\ Answered(c, "expire")
  /\ reply[c] = "1"
  /\ Finish(c, "ok")
  /\ UNCHANGED <<server, transactions, txOf, interrupted>>

\* Mutant: the EXPIRE's reply is returned.
ExpireResumeRawReply(c) ==
  /\ Answered(c, "expire")
  /\ Finish(c, reply[c])
  /\ UNCHANGED <<server, transactions, txOf, interrupted>>

\* the EXPIRE's reply is ignored and the SET's OK passes the check
ExpireResume(c) ==
  /\ Answered(c, "expire")
  /\ Finish(c, "ok")
  /\ UNCHANGED <<server, transactions, txOf, interrupted>>

DeleteResume(c) ==
  /\ Answered(c, "delete")
  /\ Finish(c, "ok")
  /\ UNCHANGED <<server, transactions, txOf, interrupted>>

GetResume(c) ==
  /\ Answered(c, "get")
  /\ Finish(c, reply[c])
  /\ UNCHANGED <<server, transactions, txOf, interrupted>>

\* Mutant: the entry stays in the map.
EndTransactionResumeKeeps(c) ==
  /\ Answered(c, "exec")
  /\ txOf' = [txOf EXCEPT ![c] = NoTransaction]
  /\ Finish(c, "ok")
  /\ UNCHANGED <<server, transactions, interrupted>>

\* await transaction.exec(); delete transactions[transactionId]
EndTransactionResume(c) ==
  /\ Answered(c, "exec")
  /\ transactions' = [transactions EXCEPT ![txOf[c]] = NoTransaction]
  /\ txOf' = [txOf EXCEPT ![c] = NoTransaction]
  /\ Finish(c, "ok")
  /\ UNCHANGED <<server, interrupted>>

\* handles that a set() still in progress has to give their TTL
Unfinished(C) ==
  UNION {arg[c].handles : c \in {d \in C : pc[d] \in {"set", "expire"}}}

\* of those, the ones that hold a value without a TTL
LeftPersistent(C) ==
  {h \in Unfinished(C) : db[h] # NoValue /\ ~volatile[h]}

\* Mutant: the entry of a transaction is deleted also when exec() rejects.
RejectDeletes(c) ==
  /\ "reject" \in Faults
  /\ pc[c] # "idle"
  /\ interrupted' = interrupted \cup LeftPersistent({c})
  /\ transactions' = IF pc[c] = "exec"
                       THEN [transactions EXCEPT ![txOf[c]] = NoTransaction]
                       ELSE transactions
  /\ txOf' = [txOf EXCEPT ![c] = IF pc[c] = "exec" THEN NoTransaction ELSE @]
  /\ Finish(c, "rejected")
  /\ UNCHANGED server

\* the awaited command fails, before or after the server executed it; the entry
\* of a transaction whose exec() rejects stays in the map
Reject(c) ==
  /\ "reject" \in Faults
  /\ pc[c] # "idle"
  /\ interrupted' = interrupted \cup LeftPersistent({c})
  /\ txOf' = [txOf EXCEPT ![c] = IF pc[c] = "exec" THEN NoTransaction ELSE @]
  /\ Finish(c, "rejected")
  /\ UNCHANGED <<server, transactions>>

\* the process dies and starts again with an empty map; the server's data stay
Crash ==
  /\ "crash" \in Faults
  /\ interrupted' = interrupted \cup LeftPersistent(Clients)
  /\ transactions' = [t \in Transactions |-> NoTransaction]
  /\ txOf' = [c \in Clients |-> NoTransaction]
  /\ pc' = [c \in Clients |-> "idle"]
  /\ arg' = [c \in Clients |-> NoCommand]
  /\ reply' = [c \in Clients |-> NoReply]
  /\ outcome' = [c \in Clients |-> "none"]
  /\ UNCHANGED server

-----------------------------------------------------------------------------

Invoke(c) ==
  \/ \E h \in Handles, v \in Values : Set(c, h, v) \/ TransactionSet(c, h, v)
  \/ \E hs \in SUBSET Handles \ {{}} : Delete(c, hs) \/ TransactionDelete(c, hs)
  \/ \E h \in Handles : Get(c, h)
  \/ \E t \in Transactions : CreateTransaction(c, t)
  \/ EndTransaction(c)
  \/ Abandon(c)

Serve(c) ==
  ServeSet(c) \/ ServeExpire(c) \/ ServeDelete(c) \/ ServeGet(c) \/ ServeExec(c)

Resume(c) ==
  \/ SetResume(c) \/ ExpireResume(c) \/ DeleteResume(c) \/ GetResume(c)
  \/ EndTransactionResume(c)

Next ==
  \/ \E c \in Clients : Invoke(c) \/ Serve(c) \/ Resume(c) \/ Reject(c)
  \/ \E h \in Handles : Expire(h)
  \/ Crash

Spec == Init /\ [][Next]_vars

\* The server answers what it was sent and the event loop runs what was
\* answered; nothing obliges a caller to start or to continue.
Fairness == \A c \in Clients : WF_vars(Serve(c)) /\ WF_vars(Resume(c))
FairSpec == Spec /\ Fairness

-----------------------------------------------------------------------------
(* Properties.                                                             *)

\* the set() of client c still owes handle h its EXPIRE
OwesExpire(c, h) ==
  h \in arg[c].handles /\ (Answered(c, "set") \/ InFlight(c, "expire"))

\* When a TTL is configured, a key that holds a value and has no time to live is
\* one whose set() still has its EXPIRE to send, or whose set() failed or died
\* between the two commands: SET and EXPIRE NX of concurrent callers never leave
\* a key behind that nobody will expire.
TTLCovered ==
  SetsTTL =>
    \A h \in Handles :
      db[h] # NoValue /\ ~volatile[h] =>
        h \in interrupted \/ \E c \in Clients : OwesExpire(c, h)

\* No two callers hold the same transaction, and the map keeps its entry until
\* its holder's endTransaction has deleted it: an exec() in flight finds its queue
\* and set() and delete() with the id do not throw "not found".
TransactionsHeld ==
  \A c \in Clients :
    /\ pc[c] = "exec" => txOf[c] # NoTransaction
    /\ txOf[c] # NoTransaction =>
         /\ transactions[txOf[c]] # NoTransaction
         /\ \A d \in Clients : txOf[d] = txOf[c] => d = c

\* the parts of the next property
EntryDeleted ==
  \E t \in Transactions : transactions[t] # NoTransaction /\ transactions'[t] = NoTransaction
DeletedByExec ==
  \E c \in Clients : /\ Answered(c, "exec")
                     /\ \A t \in Transactions \ {txOf[c]} : transactions'[t] = transactions[t]
ProcessRestarts == \A c \in Clients : outcome'[c] = "none" /\ txOf'[c] = NoTransaction

\* endTransaction takes an entry out of the map only once the server has executed
\* its whole queue, so commands acknowledged while queueing are not dropped
\* (a crash of the process empties the map).
DeletedOnlyAfterExec == [][EntryDeleted => DeletedByExec \/ ProcessRestarts]_vars

\* "Value not set for handle" (the error of set()) means that this set() did not
\* write: just before it is reported, the server does not hold the entry.
NotSetMeansNotWritten ==
  [][\A c \in Clients :
       outcome'[c] = "not_set" /\ outcome[c] # "not_set" =>
         \E h \in arg[c].handles : db[h] # arg[c].value]_vars

\* Every call that sent a command comes back to its caller, two-command set()s
\* and transactions included, when the server answers and the event loop runs.
CallsReturn == \A c \in Clients : pc[c] # "idle" ~> pc[c] = "idle"

-----------------------------------------------------------------------------
(* RedisStore implements AtomicStore.                                      *)

\* the net write of a queue to each handle
Overlay(q) ==
  [h \in Handles |->
     IF Touched(q, h)
       THEN q[CHOOSE i \in DOMAIN q : IsLastOn(q, h, i)].value
       ELSE Untouched]

PendingBar ==
  [t \in Transactions |->
     IF transactions[t] = NoTransaction THEN NoTransaction ELSE Overlay(transactions[t])]

\* a set() that awaits its EXPIRE is one call that has taken effect
RequestBar ==
  [c \in Clients |->
     [kind |-> IF pc[c] = "expire" THEN "set" ELSE pc[c],
      handles |-> arg[c].handles, value |-> arg[c].value]]
DoneBar == [c \in Clients |-> pc[c] = "expire" \/ reply[c] # NoReply]
AnswerBar == [c \in Clients |-> IF pc[c] = "get" THEN reply[c] ELSE NoReply]

Abstract == INSTANCE AtomicStore WITH
  CanExpire <- SetsTTL, NoAnswer <- NoReply,
  pending <- PendingBar, request <- RequestBar, done <- DoneBar, answer <- AnswerBar

\* Interleaved calls, the two-command set(), queued transactions and failures all
\* look to the callers like calls that take effect at one instant each.
ImplementsAtomicStore == Abstract!Spec
=============================================================================
