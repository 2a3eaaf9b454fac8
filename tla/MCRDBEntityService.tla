------------------------ MODULE MCRDBEntityService ------------------------
(* Tables and requests for the model checking of RDBEntityService.         *)
EXTENDS RDBEntityService, TLC

CONSTANTS t1, t2, v1, v2

Live(v, types) == [value |-> v, deleted |-> FALSE, types |-> types]

\* rows with a pair; rows of which the third is soft-deleted
Paired == [i \in Ids |-> Live(v1, {t1})]
SoftDeleted == [i \in Ids |-> [Live(v1, {}) EXCEPT !.deleted = (i = 3)]]

ById(i) == [ids |-> {i}, values |-> Values]
ByValue(v) == [ids |-> Ids, values |-> {v}]
Everything == [ids |-> Ids, values |-> Values]

Save(data, forced) == [op |-> "save", forced |-> forced, data |-> data]
Update(filter, v, data, originals, deleted, forced) ==
  [op |-> "update", forced |-> forced, filter |-> filter, value |-> v,
   withDeleted |-> deleted, returnData |-> data, returnOriginalItems |-> originals,
   unlink |-> {}, link |-> {}]
Assign(filter, v, unlink, link) ==
  [Update(filter, v, TRUE, FALSE, FALSE, FALSE) EXCEPT !.unlink = unlink, !.link = link]
Delete(filter, soft, originals, forced) ==
  [op |-> "delete", forced |-> forced, filter |-> filter, softDelete |-> soft,
   returnOriginalItems |-> originals]
FindPage(filter, page, all, forced) ==
  [op |-> "find", forced |-> forced, filter |-> filter, withDeleted |-> FALSE,
   findAll |-> all, getTotalCount |-> TRUE, page |-> page]
Read(op, filter, forced) ==
  [op |-> op, forced |-> forced, filter |-> filter, withDeleted |-> FALSE]

\* one user's types are replaced, another user is changed (in its caller's transaction or
\* without one), the first is deleted
RelatedRequests ==
  {Assign(ById(1), v2, {t1}, {t2}), Update(ById(2), v2, TRUE, FALSE, FALSE, FALSE),
   Delete(ById(1), TRUE, FALSE, FALSE)}

\* updates and deletes by filters that match several rows, looked up first or not; pages,
\* counts and saves of the same rows
LookupRequests ==
  {Update(ByValue(v1), v2, FALSE, originals, deleted, FALSE) :
     originals \in BOOLEAN, deleted \in BOOLEAN}
  \cup {Update(ById(1), v2, TRUE, TRUE, FALSE, forced) : forced \in BOOLEAN}
  \cup {Delete(ByValue(v1), soft, originals, FALSE) :
          soft \in BOOLEAN, originals \in BOOLEAN}
  \cup {Delete(ById(2), TRUE, TRUE, TRUE), Delete(Everything, TRUE, FALSE, FALSE)}
  \cup {FindPage(Everything, page, FALSE, forced) : page \in 1 .. 2, forced \in BOOLEAN}
  \cup {FindPage(ByValue(v1), 1, TRUE, FALSE)}
  \cup {Read(op, ByValue(v1), FALSE) : op \in {"findOne", "count"}}
  \cup {Save(1 :> v, FALSE) : v \in {v1, v2}} \cup {Save([i \in {2, 3} |-> v1], TRUE)}

Symmetry == Permutations(Clients)
=============================================================================
