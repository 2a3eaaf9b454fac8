-------------------------- MODULE RDBEntityService --------------------------
(***************************************************************************)
(* RDBEntityService (packages/data-rdb/src/entity): create, bulkCreate,    *)
(* update, delete, find, findOne and count of one table through an ORM, as *)
(* the SQL statements they await, one step each; and the test application's*)
(* UsersService.update, which changes a row and its many-to-many pairs.    *)
(*                                                                         *)
(* A call runs on the connection pool, where a statement commits by itself,*)
(* in a transaction it opens (forceTransaction) or in one its caller opened*)
(* and passes on (transactionManager).  The database is external: a writer *)
(* holds its rows until its transaction ends; with RETURNING it is Postgres*)
(* and reads what is committed, without it is MySQL and a transaction reads*)
(* the snapshot of its first select.                                       *)
(*                                                                         *)
(* A row is an id, the column callers update, the deletedAt column and the *)
(* row's pairs in the join table.  Filters name ids and values of the row  *)
(* itself: a filter on a relation is refused by the database, since the    *)
(* inner find() is given no include to join it.                            *)
(***************************************************************************)
EXTENDS Naturals, FiniteSets, Functions

CONSTANTS
  Clients,             \* concurrent callers
  Ids,                 \* primary keys, the order of pages
  Values,              \* values of the updated column
  Types,               \* the counterparts of the many-to-many relation
  InitialRows,         \* the table at first
  PerPage,             \* default page size; 10 in the code
  ReturningSupported,  \* qb.returningSupported
  Requests,            \* bound: what callers ask for
  MaxCalls,            \* bound: calls in a behaviour
  MaxFaults,           \* bound: statements and commits that fail
  None                 \* no row, no data

Row == [value : Values, deleted : BOOLEAN, types : SUBSET Types]
Image == [Ids -> Row \cup {None}]
Some(S, T) == UNION {[D -> T] : D \in SUBSET S}   \* functions on a part of S

\* g with the values of f where f has them
Over(f, g) == [i \in DOMAIN f \cup DOMAIN g |-> IF i \in DOMAIN f THEN f[i] ELSE g[i]]

Filter == [ids : SUBSET Ids, values : SUBSET Values]
AllRequests ==
  [op : {"save"}, forced : BOOLEAN, data : Some(Ids, Values)]
  \cup [op : {"update"}, forced : BOOLEAN, filter : Filter, value : Values \cup {None},
        withDeleted : BOOLEAN, returnData : BOOLEAN, returnOriginalItems : BOOLEAN,
        unlink : SUBSET Types, link : SUBSET Types]
  \cup [op : {"delete"}, forced : BOOLEAN, filter : Filter, softDelete : BOOLEAN,
        returnOriginalItems : BOOLEAN]
  \cup [op : {"find"}, forced : BOOLEAN, filter : Filter, withDeleted : BOOLEAN,
        findAll : BOOLEAN, getTotalCount : BOOLEAN, page : Nat \ {0}]
  \cup [op : {"findOne", "count"}, forced : BOOLEAN, filter : Filter,
        withDeleted : BOOLEAN]

ASSUME ConstantsAssumption ==
  /\ Ids \subseteq Nat /\ IsFiniteSet(Ids)
  /\ InitialRows \in Image
  /\ PerPage \in Nat \ {0}
  /\ ReturningSupported \in BOOLEAN
  /\ Requests \subseteq AllRequests
  /\ MaxCalls \in Nat /\ MaxFaults \in Nat
  /\ None \notin Values /\ None \notin Row

VARIABLES
  db,       \* the committed rows
  tx,       \* each client's transaction: who opened it, its writes, its snapshot
  pc,       \* the statement a call awaits
  request,  \* what it was asked
  found,    \* the items of its first select
  items,    \* the items it returns
  count,    \* the count it returns; 0 for none
  more,     \* its page is not the last
  outcome,  \* how the last call ended
  calls,    \* calls started
  faults,   \* faults so far
  \* history
  base,     \* the database that the previous statement left, without an open transaction's writes
  raced,    \* rows of the call's filter differed under a later one
  wrote,    \* the ids its update or delete changed
  before    \* the rows that statement found

reply == <<found, items, count, more, outcome>>
history == <<base, raced, wrote, before>>
vars == <<db, tx, pc, request, reply, calls, faults, history>>

NoTransaction == [by |-> "nobody", writes |-> <<>>, snapshot |-> None]
NoRequest == [op |-> "none"]
Labels == {"idle", "select", "write", "reread", "unlink", "link", "total", "commit"}
Outcomes == {"none", "ok", "threw", "driver threw", "needs to be unique"}
Rows == Some(Ids, Row)

TypeOK ==
  /\ db \in Image
  /\ tx \in [Clients -> [by : {"nobody", "call", "caller"},
                         writes : Some(Ids, Row \cup {None}),
                         snapshot : Image \cup {None}]]
  /\ pc \in [Clients -> Labels]
  /\ request \in [Clients -> Requests \cup {NoRequest}]
  /\ found \in [Clients -> Rows] /\ items \in [Clients -> Rows]
  /\ count \in [Clients -> Nat] /\ more \in [Clients -> BOOLEAN]
  /\ outcome \in [Clients -> Outcomes]
  /\ calls \in 0 .. MaxCalls /\ faults \in 0 .. MaxFaults
  /\ base \in [Clients -> Image] /\ before \in [Clients -> Image]
  /\ raced \in [Clients -> BOOLEAN] /\ wrote \in [Clients -> SUBSET Ids]

Init ==
  /\ db = InitialRows
  /\ tx = [c \in Clients |-> NoTransaction]
  /\ pc = [c \in Clients |-> "idle"]
  /\ request = [c \in Clients |-> NoRequest]
  /\ found = [c \in Clients |-> <<>>]
  /\ items = [c \in Clients |-> <<>>]
  /\ count = [c \in Clients |-> 0]
  /\ more = [c \in Clients |-> FALSE]
  /\ outcome = [c \in Clients |-> "none"]
  /\ calls = 0
  /\ faults = 0
  /\ base = [c \in Clients |-> InitialRows]
  /\ raced = [c \in Clients |-> FALSE]
  /\ wrote = [c \in Clients |-> {}]
  /\ before = [c \in Clients |-> InitialRows]

-----------------------------------------------------------------------------
(* The database, as the service uses it.                                   *)

Open(c) == tx[c].by # "nobody"

\* Mutant: the transaction that forceTransaction opens is not passed on.
CallersTransactionOnly(c) == tx[c].by = "caller"

\* Mutant: processManyToMany is not given the transaction.
NotForPairs(c) == Open(c) /\ pc[c] \notin {"unlink", "link"}

\* getRepository: the transaction's repository or the pool's
UsesTransaction(c) == Open(c)

Snapshot(c) == IF UsesTransaction(c) /\ tx[c].snapshot # None THEN tx[c].snapshot ELSE db
SelectedRows(c) == IF UsesTransaction(c) THEN Over(tx[c].writes, Snapshot(c)) ELSE db
CurrentRows(c) == IF UsesTransaction(c) THEN Over(tx[c].writes, db) ELSE db

\* a select: in MySQL a transaction's first one takes its snapshot
Select(c) ==
  IF UsesTransaction(c) /\ ~ReturningSupported
    THEN tx' = [tx EXCEPT ![c].snapshot = Snapshot(c)]
    ELSE UNCHANGED tx

\* a writing statement: kept by the transaction, or committed by itself
Write(c, changes) ==
  IF UsesTransaction(c)
    THEN /\ tx' = [tx EXCEPT ![c].writes = Over(changes, @)]
         /\ UNCHANGED db
    ELSE /\ db' = Over(changes, db)
         /\ UNCHANGED tx

Matches(rows, filter, withDeleted) ==
  {i \in filter.ids : /\ rows[i] # None
                      /\ rows[i].value \in filter.values
                      /\ withDeleted \/ ~rows[i].deleted}

\* another client changed rows of the call's filter since its previous statement
Races(c, ids, rows) == raced' = [raced EXCEPT ![c] = @ \/ \E i \in ids : base[c][i] # rows[i]]

-----------------------------------------------------------------------------
(* Calls.                                                                  *)

HasFilters(filter) == filter.ids # Ids \/ filter.values # Values
IsRelated(r) == r.op = "update" /\ r.unlink \cup r.link # {}

\* the errors the service throws before any statement
IsRefused(r) ==
  \/ r.op \in {"update", "delete", "findOne", "count"} /\ ~HasFilters(r.filter)
  \/ r.op = "update" /\ r.value = None

OpensTransaction(c, r) == ~Open(c) /\ (r.forced \/ IsRelated(r))

FirstStatement(r) ==
  IF r.op \in {"update", "delete"} /\ ~r.returnOriginalItems THEN "write" ELSE "select"

\* the caller opens a transaction for several calls: manager.transaction(...)
Begin(c) ==
  /\ pc[c] = "idle" /\ ~Open(c)
  /\ calls < MaxCalls
  /\ tx' = [tx EXCEPT ![c].by = "caller"]
  /\ request' = [request EXCEPT ![c] = NoRequest]
  /\ outcome' = [outcome EXCEPT ![c] = "none"]
  /\ UNCHANGED <<db, pc, found, items, count, more, calls, faults, history>>

\* a refused call leaves its transaction, whose owner rolls it back
Call(c, r) ==
  /\ pc[c] = "idle"
  /\ calls < MaxCalls
  /\ calls' = calls + 1
  /\ request' = [request EXCEPT ![c] = r]
  /\ found' = [found EXCEPT ![c] = <<>>]
  /\ items' = [items EXCEPT ![c] = <<>>]
  /\ count' = [count EXCEPT ![c] = 0]
  /\ more' = [more EXCEPT ![c] = FALSE]
  /\ raced' = [raced EXCEPT ![c] = FALSE]
  /\ wrote' = [wrote EXCEPT ![c] = {}]
  /\ \/ /\ IsRefused(r)
        /\ tx' = [tx EXCEPT ![c] = NoTransaction]
        /\ outcome' = [outcome EXCEPT ![c] = "threw"]
        /\ UNCHANGED pc
     \/ /\ ~IsRefused(r)
        /\ tx' = IF OpensTransaction(c, r) THEN [tx EXCEPT ![c].by = "call"] ELSE tx
        /\ outcome' = [outcome EXCEPT ![c] = "none"]
        /\ pc' = [pc EXCEPT ![c] = FirstStatement(r)]
  /\ UNCHANGED <<db, faults, base, before>>

\* the last statement has answered
Finish(c) ==
  IF tx[c].by = "call"
    THEN /\ pc' = [pc EXCEPT ![c] = "commit"]
         /\ UNCHANGED outcome
    ELSE /\ pc' = [pc EXCEPT ![c] = "idle"]
         /\ outcome' = [outcome EXCEPT ![c] = "ok"]

Continue(c, label) == pc' = [pc EXCEPT ![c] = label] /\ UNCHANGED outcome

\* a rejected statement: the call throws and its transaction, the call's own or the
\* caller's around it, is rolled back
Throw(c, why) ==
  /\ tx' = [tx EXCEPT ![c] = NoTransaction]
  /\ pc' = [pc EXCEPT ![c] = "idle"]
  /\ outcome' = [outcome EXCEPT ![c] = why]
  /\ UNCHANGED <<db, request, found, items, count, more, calls, history>>

\* a call's first select of those items
FirstSelect(c, ids) ==
  /\ found' = [found EXCEPT ![c] = Restrict(SelectedRows(c), ids)]
  /\ base' = [base EXCEPT ![c] = Snapshot(c)]
  /\ Select(c)

-----------------------------------------------------------------------------
(* The rows the next statement of a call writes, and the wait for them.    *)

\* Mutant: the primary keys replace the condition on deletedAt, too.
DeletedAtForgotten(c) ==
  LET r == request[c] IN
  IF r.returnOriginalItems THEN {i \in DOMAIN found[c] : CurrentRows(c)[i] # None}
  ELSE Matches(CurrentRows(c), r.filter, r.op = "delete" \/ r.withDeleted)

\* by the where clause: the primary keys of a lookup or the filters, and deletedAt
Targets(c) ==
  LET r == request[c]
      rows == CurrentRows(c)
      chosen == IF r.returnOriginalItems THEN {i \in DOMAIN found[c] : rows[i] # None}
                ELSE Matches(rows, r.filter, TRUE)
  IN  IF r.op = "update" /\ ~r.withDeleted THEN {i \in chosen : ~rows[i].deleted}
      ELSE chosen

\* save: new rows and rows with another value
ToInsert(c) == DOMAIN request[c].data \ DOMAIN found[c]
ToUpdate(c) == {i \in DOMAIN found[c] : found[c][i].value # request[c].data[i]}

Wants(c) ==
  CASE pc[c] = "write" /\ request[c].op = "save" -> ToInsert(c) \cup ToUpdate(c)
    [] pc[c] = "write" /\ request[c].op # "save" -> Targets(c)
    [] pc[c] \in {"unlink", "link"} -> DOMAIN items[c]
    [] OTHER -> {}

WaitsFor(c) ==
  {d \in Clients : /\ Wants(c) \cap DOMAIN tx[d].writes # {}
                   /\ d # c \/ ~UsesTransaction(c)}

At(c, label, ops) == pc[c] = label /\ request[c].op \in ops
Granted(c) == WaitsFor(c) = {}

-----------------------------------------------------------------------------
(* save (create, bulkCreate): the ORM loads the rows, soft-deleted ones    *)
(* too, then inserts what it did not find and updates what differs.        *)

SaveLoad(c) ==
  /\ At(c, "select", {"save"})
  /\ FirstSelect(c, {i \in DOMAIN request[c].data : SelectedRows(c)[i] # None})
  /\ Continue(c, "write")
  /\ UNCHANGED <<db, request, items, count, more, calls, faults, raced, wrote, before>>

\* Mutant: the loaded rows are not consulted, whole rows are written.
WholeRows(c) ==
  [i \in DOMAIN request[c].data |->
     [value |-> request[c].data[i], deleted |-> FALSE, types |-> {}]]

Saved(c) ==
  LET r == request[c]
      rows == CurrentRows(c)
      updated == {i \in ToUpdate(c) : rows[i] # None}
  IN  [i \in ToInsert(c) \cup updated |->
         IF i \in ToInsert(c)
           THEN [value |-> r.data[i], deleted |-> FALSE, types |-> {}]
           ELSE [rows[i] EXCEPT !.value = r.data[i]]]

SaveWrite(c) ==
  /\ At(c, "write", {"save"})
  /\ Granted(c)
  /\ \A i \in ToInsert(c) : CurrentRows(c)[i] = None
  /\ Write(c, Saved(c))
  /\ Races(c, DOMAIN request[c].data, db)
  /\ before' = [before EXCEPT ![c] = CurrentRows(c)]
  /\ wrote' = [wrote EXCEPT ![c] = DOMAIN Saved(c)]
  /\ Finish(c)
  /\ UNCHANGED <<request, found, items, count, more, calls, faults, base>>

\* the unique violation of a row inserted in between: the catch, which knows the code of
\* Postgres, sees only the rejection it awaits
UniqueViolation(c) ==
  IF UsesTransaction(c) /\ ReturningSupported THEN "needs to be unique" ELSE "driver threw"

SaveFails(c) ==
  /\ At(c, "write", {"save"})
  /\ Granted(c)
  /\ \E i \in ToInsert(c) : CurrentRows(c)[i] # None
  /\ Throw(c, UniqueViolation(c))
  /\ UNCHANGED faults

-----------------------------------------------------------------------------
(* update, delete                                                          *)

\* the items a find() with the default page returns, in no particular order
Page(all) == IF Cardinality(all) <= PerPage THEN {all}
             ELSE {s \in SUBSET all : Cardinality(s) = PerPage}

\* Mutant: update looks up the default page.
PagedUpdateLookup(c) ==
  /\ At(c, "select", {"update"})
  /\ \E ids \in Page(Matches(SelectedRows(c), request[c].filter, FALSE)) :
       FirstSelect(c, ids)
  /\ Continue(c, "write")
  /\ UNCHANGED <<db, request, items, count, more, calls, faults, raced, wrote, before>>

\* Mutant: the lookup is not given the transaction.
UpdateLookupOutside(c) ==
  /\ At(c, "select", {"update"})
  /\ found' = [found EXCEPT ![c] = Restrict(db, Matches(db, request[c].filter, FALSE))]
  /\ base' = [base EXCEPT ![c] = db]
  /\ Continue(c, "write")
  /\ UNCHANGED <<db, tx, request, items, count, more, calls, faults, raced, wrote, before>>

\* the lookup: update asks for all items, delete for the default page
UpdateLookup(c) ==
  /\ At(c, "select", {"update"})
  /\ FirstSelect(c, Matches(SelectedRows(c), request[c].filter, FALSE))
  /\ Continue(c, "write")
  /\ UNCHANGED <<db, request, items, count, more, calls, faults, raced, wrote, before>>

\* by the service's own find(), whose count statement changes nothing and is left out
DeleteLookup(c) ==
  /\ At(c, "select", {"delete"})
  /\ \E ids \in Page(Matches(SelectedRows(c), request[c].filter, FALSE)) :
       FirstSelect(c, ids)
  /\ Continue(c, "write")
  /\ UNCHANGED <<db, request, items, count, more, calls, faults, raced, wrote, before>>

\* the primary key clause of no items is "in ()"
LookupFoundNone(c) == request[c].returnOriginalItems /\ found[c] = <<>>

WriteFails(c) ==
  /\ At(c, "write", {"update", "delete"})
  /\ LookupFoundNone(c)
  /\ Throw(c, "driver threw")
  /\ UNCHANGED faults

\* what both writing statements record
Writes(c, changes) ==
  /\ Granted(c)
  /\ ~LookupFoundNone(c)
  /\ Write(c, changes)
  /\ IF request[c].returnOriginalItems THEN Races(c, request[c].filter.ids, db)
     ELSE UNCHANGED raced
  /\ base' = [base EXCEPT ![c] = db']
  /\ before' = [before EXCEPT ![c] = CurrentRows(c)]
  /\ wrote' = [wrote EXCEPT ![c] = Targets(c)]
  /\ UNCHANGED <<request, found, more, calls, faults>>

\* Mutant: with pairs to add, those to remove stay.
AddsOrRemoves(r, returned) ==
  IF ~IsRelated(r) \/ Cardinality(DOMAIN returned) # 1 THEN "none"
  ELSE IF r.link # {} THEN "link" ELSE "unlink"

\* UsersService.update: pairs are changed for exactly one returned item
RelatedStatement(r, returned) ==
  IF ~IsRelated(r) \/ Cardinality(DOMAIN returned) # 1 THEN "none"
  ELSE IF r.unlink # {} THEN "unlink" ELSE "link"

AfterUpdate(c, returned) ==
  IF RelatedStatement(request[c], returned) = "none" THEN Finish(c)
  ELSE Continue(c, RelatedStatement(request[c], returned))

UpdateWrite(c) ==
  LET r == request[c]
      new == [i \in Targets(c) |-> [CurrentRows(c)[i] EXCEPT !.value = r.value]]
  IN  /\ At(c, "write", {"update"})
      /\ Writes(c, new)
      /\ \/ /\ r.returnData /\ ReturningSupported
            /\ items' = [items EXCEPT ![c] = new]
            /\ count' = [count EXCEPT ![c] = Cardinality(Targets(c))]
            /\ AfterUpdate(c, new)
         \/ /\ r.returnData /\ ~ReturningSupported
            /\ Continue(c, "reread")
            /\ UNCHANGED <<items, count>>
         \/ /\ ~r.returnData
            /\ count' = [count EXCEPT ![c] = Cardinality(Targets(c))]
            /\ AfterUpdate(c, <<>>)
            /\ UNCHANGED items

\* Mutant: the find is not given the transaction.
RereadOutside(c) ==
  LET read == Restrict(db, Matches(db, request[c].filter, FALSE))
  IN  /\ pc[c] = "reread"
      /\ items' = [items EXCEPT ![c] = read]
      /\ count' = [count EXCEPT ![c] = Cardinality(DOMAIN read)]
      /\ Races(c, request[c].filter.ids, db)
      /\ AfterUpdate(c, read)
      /\ UNCHANGED <<db, tx, request, found, more, calls, faults, base, wrote, before>>

\* Mutant: the raw result of a database without RETURNING, which has no items to count.
RereadForgotten(c) ==
  /\ pc[c] = "reread"
  /\ count' = [count EXCEPT ![c] = None]
  /\ Finish(c)
  /\ UNCHANGED <<db, tx, request, found, items, more, calls, faults, history>>

\* without RETURNING: a find by the original filters
Reread(c) ==
  LET read == Restrict(SelectedRows(c),
                       Matches(SelectedRows(c), request[c].filter, FALSE))
  IN  /\ pc[c] = "reread"
      /\ Select(c)
      /\ items' = [items EXCEPT ![c] = read]
      /\ count' = [count EXCEPT ![c] = Cardinality(DOMAIN read)]
      /\ Races(c, request[c].filter.ids, Snapshot(c))
      /\ AfterUpdate(c, read)
      /\ UNCHANGED <<db, request, found, more, calls, faults, base, wrote, before>>

DeleteWrite(c) ==
  /\ At(c, "write", {"delete"})
  /\ Writes(c, [i \in Targets(c) |->
                  IF request[c].softDelete THEN [CurrentRows(c)[i] EXCEPT !.deleted = TRUE]
                  ELSE None])
  /\ count' = [count EXCEPT ![c] = Cardinality(Targets(c))]
  /\ Finish(c)
  /\ UNCHANGED items

-----------------------------------------------------------------------------
(* processManyToMany, for the one item UsersService.update passes.         *)

Item(c) == CHOOSE i \in DOMAIN items[c] : TRUE

Unlink(c) ==
  LET row == CurrentRows(c)[Item(c)] IN
  /\ pc[c] = "unlink"
  /\ Granted(c)
  /\ Write(c, IF row = None THEN <<>>
              ELSE [i \in {Item(c)} |-> [row EXCEPT !.types = @ \ request[c].unlink]])
  /\ IF request[c].link # {} THEN Continue(c, "link") ELSE Finish(c)
  /\ UNCHANGED <<request, found, items, count, more, calls, faults, history>>

\* the join table refuses pairs of no row and pairs it has
LinkRefused(c) ==
  LET row == CurrentRows(c)[Item(c)]
  IN  row = None \/ row.types \cap request[c].link # {}

Link(c) ==
  /\ pc[c] = "link"
  /\ Granted(c)
  /\ ~LinkRefused(c)
  /\ Write(c, [i \in {Item(c)} |->
                [CurrentRows(c)[i] EXCEPT !.types = @ \cup request[c].link]])
  /\ Finish(c)
  /\ UNCHANGED <<request, found, items, count, more, calls, faults, history>>

LinkFails(c) ==
  /\ pc[c] = "link"
  /\ Granted(c)
  /\ LinkRefused(c)
  /\ Throw(c, "driver threw")
  /\ UNCHANGED faults

-----------------------------------------------------------------------------
(* find, findOne, count                                                    *)

\* ordered by the primary key
Rank(i, all) == Cardinality({j \in all : j <= i})

Find(c) ==
  LET r == request[c]
      all == Matches(SelectedRows(c), r.filter, r.withDeleted)
      page == IF r.findAll THEN all
              ELSE {i \in all : /\ Rank(i, all) > (r.page - 1) * PerPage
                                /\ Rank(i, all) <= r.page * PerPage}
  IN  /\ At(c, "select", {"find"})
      /\ FirstSelect(c, page)
      /\ items' = [items EXCEPT ![c] = Restrict(SelectedRows(c), page)]
      /\ more' = [more EXCEPT ![c] = ~r.findAll /\ Cardinality(all) > r.page * PerPage]
      /\ IF r.getTotalCount /\ ~r.findAll THEN Continue(c, "total") ELSE Finish(c)
      /\ UNCHANGED <<db, request, count, calls, faults, raced, wrote, before>>

\* Mutant: the count is not given the transaction.
CountOutside(c) ==
  /\ pc[c] = "total"
  /\ count' = [count EXCEPT ![c] = Cardinality(Matches(db, request[c].filter,
                                                       request[c].withDeleted))]
  /\ Races(c, request[c].filter.ids, Snapshot(c))
  /\ Finish(c)
  /\ UNCHANGED <<db, tx, request, found, items, more, calls, faults, base, wrote, before>>

\* the count() after the page: a statement of its own
TotalCount(c) ==
  /\ pc[c] = "total"
  /\ Select(c)
  /\ count' = [count EXCEPT ![c] = Cardinality(Matches(SelectedRows(c), request[c].filter,
                                                       request[c].withDeleted))]
  /\ Races(c, request[c].filter.ids, Snapshot(c))
  /\ Finish(c)
  /\ UNCHANGED <<db, request, found, items, more, calls, faults, base, wrote, before>>

FindOne(c) ==
  LET all == Matches(SelectedRows(c), request[c].filter, request[c].withDeleted) IN
  /\ At(c, "select", {"findOne"})
  /\ Select(c)
  /\ \/ all = {} /\ UNCHANGED items
     \/ \E i \in all : items' = [items EXCEPT ![c] = [j \in {i} |-> SelectedRows(c)[j]]]
  /\ Finish(c)
  /\ UNCHANGED <<db, request, found, count, more, calls, faults, history>>

Count(c) ==
  /\ At(c, "select", {"count"})
  /\ Select(c)
  /\ count' = [count EXCEPT ![c] = Cardinality(Matches(SelectedRows(c), request[c].filter,
                                                       request[c].withDeleted))]
  /\ Finish(c)
  /\ UNCHANGED <<db, request, found, items, more, calls, faults, history>>

-----------------------------------------------------------------------------
(* The end of a transaction, and failures.                                 *)

\* forceTransaction's callback has returned, or the caller's, all of whose calls did
AtCommit(c) == Open(c) /\ pc[c] = IF tx[c].by = "call" THEN "commit" ELSE "idle"

Commit(c) ==
  /\ AtCommit(c)
  /\ db' = Over(tx[c].writes, db)
  /\ tx' = [tx EXCEPT ![c] = NoTransaction]
  /\ pc' = [pc EXCEPT ![c] = "idle"]
  /\ outcome' = [outcome EXCEPT ![c] = "ok"]
  /\ UNCHANGED <<request, found, items, count, more, calls, faults, history>>

\* the connection is lost before a statement or the commit takes effect
Fault(c) ==
  /\ faults < MaxFaults
  /\ pc[c] # "idle" \/ AtCommit(c)
  /\ Throw(c, "driver threw")
  /\ faults' = faults + 1

\* the commit's answer is lost: it took effect and the call throws
CommitAnswerLost(c) ==
  /\ AtCommit(c)
  /\ faults < MaxFaults
  /\ db' = Over(tx[c].writes, db)
  /\ tx' = [tx EXCEPT ![c] = NoTransaction]
  /\ pc' = [pc EXCEPT ![c] = "idle"]
  /\ outcome' = [outcome EXCEPT ![c] = "driver threw"]
  /\ faults' = faults + 1
  /\ UNCHANGED <<request, found, items, count, more, calls, history>>

\* the database ends a circle of waiting transactions by aborting one of them
Deadlock(c) ==
  /\ \E S \in SUBSET Clients : /\ c \in S
                               /\ \A d \in S : (WaitsFor(d) \ {d}) \cap S # {}
  /\ Throw(c, "driver threw")
  /\ UNCHANGED faults

Statement(c) ==
  \/ SaveLoad(c) \/ SaveWrite(c) \/ SaveFails(c)
  \/ UpdateLookup(c) \/ DeleteLookup(c) \/ WriteFails(c)
  \/ UpdateWrite(c) \/ Reread(c) \/ DeleteWrite(c)
  \/ Unlink(c) \/ Link(c) \/ LinkFails(c)
  \/ Find(c) \/ TotalCount(c) \/ FindOne(c) \/ Count(c)

Next == \E c \in Clients :
  \/ Begin(c) \/ \E r \in Requests : Call(c, r)
  \/ Statement(c) \/ Commit(c) \/ Deadlock(c)
  \/ Fault(c) \/ CommitAnswerLost(c)

Spec == Init /\ [][Next]_vars

\* the event loop and the database go on; a caller's callback returns
FairSpec == Spec /\ \A c \in Clients : WF_vars(Statement(c) \/ Deadlock(c)) /\ WF_vars(Commit(c))

-----------------------------------------------------------------------------
(* Properties.                                                             *)

\* the client's last call, of those operations, has done its statements
Completed(c, ops) ==
  /\ request[c].op \in ops
  /\ pc[c] = "commit" \/ (pc[c] = "idle" /\ outcome[c] = "ok")

\* What a transaction wrote appears in the database at its commit and at once, whatever
\* calls, statements and failures it is made of: every statement of create(), update(),
\* delete() and processManyToMany() goes through the transaction's repository.
ChangesAtCommit ==
  [][\A c \in Clients :
       Open(c) /\ db' # db /\ <<pc[c], tx[c]>>' # <<pc[c], tx[c]>>
         => tx'[c] = NoTransaction /\ db' = Over(tx[c].writes, db)]_vars

\* update() and delete() change the rows their filters match when the statement runs, no
\* more and no fewer, also when they look them up first and nothing was committed in
\* between; a delete with a lookup takes at most a page of them.
ActsOnMatches ==
  \A c \in Clients :
    Completed(c, {"update", "delete"}) /\ ~raced[c] =>
      LET r == request[c]
          all == Matches(before[c], r.filter, TRUE)
          visible == Matches(before[c], r.filter, FALSE)
      IN  IF r.op = "update"
            THEN wrote[c] = IF r.withDeleted /\ ~r.returnOriginalItems THEN all ELSE visible
            ELSE IF ~r.returnOriginalItems THEN wrote[c] = all
            ELSE /\ wrote[c] \subseteq visible
                 /\ Cardinality(wrote[c]) = PerPage
                      \/ (wrote[c] = visible /\ Cardinality(visible) < PerPage)

\* The original items of an update or delete are the rows it changed, as they were: the
\* transaction's earlier writes included.
OriginalsAreBefore ==
  \A c \in Clients :
    Completed(c, {"update", "delete"}) /\ request[c].returnOriginalItems /\ ~raced[c]
      => found[c] = Restrict(before[c], wrote[c])

\* An update never changes a row that is soft-deleted when the statement runs, also one
\* deleted since the lookup: buildQuery adds the condition to the primary keys.
UpdatesSpareDeleted ==
  \A c \in Clients :
    Completed(c, {"update"}) /\ ~request[c].withDeleted
      => \A i \in wrote[c] : ~before[c][i].deleted

\* The items update() returns are the rows it updated, as it left them, also when a second
\* statement has to find them, unless that one reads a snapshot from before the update.
ReturnsUpdatedRows ==
  \A c \in Clients :
    Completed(c, {"update"}) /\ request[c].returnData /\ ~raced[c] =>
      items[c] = [i \in wrote[c] |-> [before[c][i] EXCEPT !.value = request[c].value]]

\* UsersService.update leaves the row it updated with the pairs it had, less the removed,
\* plus the added ones: no other call comes between its statements.  Of no item or of
\* several it changes no pair.
LinksAsAsked ==
  \A c \in Clients :
    Completed(c, {"update"}) /\ Open(c) =>
      LET r == request[c] IN
      \A i \in wrote[c] :
        CurrentRows(c)[i].types =
          IF IsRelated(r) /\ Cardinality(DOMAIN items[c]) = 1
            THEN (before[c][i].types \ r.unlink) \cup r.link ELSE before[c][i].types

\* find() returns a page and a total that fit each other, unless another client committed
\* between its two statements; in a transaction that reads a snapshot always.
TotalsFitPage ==
  \A c \in Clients :
    LET r == request[c] IN
    Completed(c, {"find"}) /\ ~raced[c] /\ r.getTotalCount /\ ~r.findAll =>
      LET skipped == (r.page - 1) * PerPage IN
      /\ more[c] = (count[c] > skipped + PerPage)
      /\ Cardinality(DOMAIN items[c]) =
           IF count[c] <= skipped THEN 0
           ELSE IF more[c] THEN PerPage ELSE count[c] - skipped

\* A save that is not overtaken leaves each row with the given value; overtaken or not, it
\* keeps the deletion and the pairs of the rows there were.
SaveStands ==
  [][\A c \in Clients :
       SaveWrite(c) =>
         \A i \in DOMAIN request[c].data :
           LET row == CurrentRows(c)'[i] IN
           /\ ~raced'[c] => row # None /\ row.value = request[c].data[i]
           /\ CurrentRows(c)[i] # None =>
                row = [CurrentRows(c)[i] EXCEPT !.value = row.value]]_vars

\* Every call ends and every transaction with it: no call waits for rows that its own
\* transaction holds, and a circle of waiting transactions is broken.
CallsEnd ==
  \A c \in Clients : (pc[c] # "idle" \/ Open(c)) ~> (pc[c] = "idle" /\ ~Open(c))

=============================================================================
