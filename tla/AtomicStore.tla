---------------------------- MODULE AtomicStore ----------------------------
(***************************************************************************)
(* What the store promises its callers (RedisStoreService): every call     *)
(* takes effect at one instant between its start and its end, a            *)
(* transaction's writes take effect together when it is ended and not      *)
(* before, a call that answers did take effect, and one that fails took    *)
(* effect once or not at all.  A transaction is the write it would make to *)
(* each handle; how commands are queued, sent and answered is not visible. *)
(***************************************************************************)
CONSTANTS Clients, Handles, Values, Transactions,
          CanExpire,      \* entries may run out by themselves
          NoValue, NoAnswer, NoTransaction,
          Untouched       \* a transaction does not write this handle

VARIABLES
  db,       \* the contents of each handle
  pending,  \* the write each open transaction will make to each handle
  txOf,     \* the transaction a client holds
  request,  \* the call a client has in progress
  done,     \* whether it has taken effect
  answer,   \* what a read saw
  outcome   \* how the client's last call ended

vars == <<db, pending, txOf, request, done, answer, outcome>>

Idle == [kind |-> "idle", handles |-> {}, value |-> NoValue]

Init ==
  /\ db = [h \in Handles |-> NoValue]
  /\ pending = [t \in Transactions |-> NoTransaction]
  /\ txOf = [c \in Clients |-> NoTransaction]
  /\ request = [c \in Clients |-> Idle]
  /\ done = [c \in Clients |-> FALSE]
  /\ answer = [c \in Clients |-> NoAnswer]
  /\ outcome = [c \in Clients |-> "none"]

Start(c, kind, hs, v) ==
  /\ request[c] = Idle
  /\ kind = "exec" => txOf[c] # NoTransaction
  /\ request' = [request EXCEPT ![c] = [kind |-> kind, handles |-> hs, value |-> v]]
  /\ outcome' = [outcome EXCEPT ![c] = "none"]
  /\ UNCHANGED <<db, pending, txOf, done, answer>>

Begin(c, t) ==
  /\ request[c] = Idle
  /\ txOf[c] = NoTransaction
  /\ pending[t] = NoTransaction
  /\ pending' = [pending EXCEPT ![t] = [h \in Handles |-> Untouched]]
  /\ txOf' = [txOf EXCEPT ![c] = t]
  /\ UNCHANGED <<db, request, done, answer, outcome>>

\* a write inside a transaction replaces what the transaction wrote there before
Stage(c, hs, v) ==
  /\ request[c] = Idle
  /\ txOf[c] # NoTransaction
  /\ pending[txOf[c]] # NoTransaction
  /\ pending' = [pending EXCEPT ![txOf[c]] =
                   [h \in Handles |-> IF h \in hs THEN v ELSE pending[txOf[c]][h]]]
  /\ outcome' = [outcome EXCEPT ![c] = "ok"]
  /\ UNCHANGED <<db, txOf, request, done, answer>>

Drop(c) ==
  /\ request[c] = Idle
  /\ txOf' = [txOf EXCEPT ![c] = NoTransaction]
  /\ UNCHANGED <<db, pending, request, done, answer, outcome>>

\* the instant at which the call of client c takes effect
TakeEffect(c) ==
  LET r == request[c] IN
  /\ r # Idle
  /\ ~done[c]
  /\ done' = [done EXCEPT ![c] = TRUE]
  /\ db' = [h \in Handles |->
              IF r.kind \in {"set", "delete"} /\ h \in r.handles THEN r.value
              ELSE IF r.kind = "exec" /\ pending[txOf[c]][h] # Untouched
                THEN pending[txOf[c]][h]
                ELSE db[h]]
  /\ IF r.kind = "get"
       THEN \E h \in r.handles : answer' = [answer EXCEPT ![c] = db[h]]
       ELSE UNCHANGED answer
  /\ UNCHANGED <<pending, txOf, request, outcome>>

Stop(c, how) ==
  /\ request' = [request EXCEPT ![c] = Idle]
  /\ done' = [done EXCEPT ![c] = FALSE]
  /\ answer' = [answer EXCEPT ![c] = NoAnswer]
  /\ outcome' = [outcome EXCEPT ![c] = how]

\* an answered write has taken effect, a read returns what it saw then, and a
\* transaction that was ended is gone
Finish(c) ==
  LET kind == request[c].kind IN
  /\ request[c] # Idle
  /\ done[c]
  /\ \/ kind = "get" /\ Stop(c, answer[c])
     \/ kind \in {"delete", "exec"} /\ Stop(c, "ok")
     \/ kind = "set" /\ \E how \in {"ok", "not_set"} : Stop(c, how)
  /\ IF kind = "exec"
       THEN /\ pending' = [pending EXCEPT ![txOf[c]] = NoTransaction]
            /\ txOf' = [txOf EXCEPT ![c] = NoTransaction]
       ELSE UNCHANGED <<pending, txOf>>
  /\ UNCHANGED db

Fail(c) ==
  /\ request[c] # Idle
  /\ Stop(c, "rejected")
  /\ txOf' = [txOf EXCEPT ![c] = IF request[c].kind = "exec" THEN NoTransaction ELSE @]
  /\ UNCHANGED <<db, pending>>

Vanish(h) ==
  /\ CanExpire
  /\ db' = [db EXCEPT ![h] = NoValue]
  /\ UNCHANGED <<pending, txOf, request, done, answer, outcome>>

Crash ==
  /\ pending' = [t \in Transactions |-> NoTransaction]
  /\ txOf' = [c \in Clients |-> NoTransaction]
  /\ request' = [c \in Clients |-> Idle]
  /\ done' = [c \in Clients |-> FALSE]
  /\ answer' = [c \in Clients |-> NoAnswer]
  /\ outcome' = [c \in Clients |-> "none"]
  /\ UNCHANGED db

Next ==
  \/ \E c \in Clients :
       \/ \E h \in Handles, v \in Values : Start(c, "set", {h}, v) \/ Stage(c, {h}, v)
       \/ \E hs \in SUBSET Handles \ {{}} :
            Start(c, "delete", hs, NoValue) \/ Stage(c, hs, NoValue)
       \/ \E h \in Handles : Start(c, "get", {h}, NoValue)
       \/ Start(c, "exec", {}, NoValue)
       \/ \E t \in Transactions : Begin(c, t)
       \/ Drop(c) \/ TakeEffect(c) \/ Finish(c) \/ Fail(c)
  \/ \E h \in Handles : Vanish(h)
  \/ Crash

Spec == Init /\ [][Next]_vars
=============================================================================
