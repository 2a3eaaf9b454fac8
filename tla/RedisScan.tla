------------------------------ MODULE RedisScan ------------------------------
(***************************************************************************)
(* Finds of the Redis packages (packages/data-redis): the entity service's *)
(* find, findOne and count above the repository's paging above the store's *)
(* scan, while others write.  A find reads by a Redis cursor or, in an     *)
(* individual search, key by key; each command is awaited.                 *)
(*                                                                         *)
(* An item is the key it is stored under and the number of its write.      *)
(* Redis walks buckets: a cursor is the bucket to continue at, a reply     *)
(* ends after any bucket, and a table that has shrunk is walked from an    *)
(* earlier one, so that keys repeat.  Filters are a list of primary keys,  *)
(* which every find but findAll needs (and findAll, too, matches nothing   *)
(* without).                                                               *)
(***************************************************************************)
EXTENDS Naturals, Sequences, FiniteSets, SequencesExt

CONSTANTS
  Keys,            \* primary keys of one entity
  Buckets,         \* bound: the size of the table
  BucketOf,        \* the bucket of each key
  KeyLists,        \* the filters that finds have
  PageSizes,       \* perPage of finds
  MaxPage,         \* bound: page of finds
  DefaultPerPage,  \* the repository's 100, which count() pages by
  MaxWrites,       \* bound: writes of others
  MaxShrinks,      \* bound: walks set back
  HashModes,       \* whether the store keeps one hash
  None

ASSUME ScanAssumption ==
  /\ IsFiniteSet(Keys) /\ None \notin Nat
  /\ Buckets \in Nat \ {0} /\ BucketOf \in [Keys -> 0 .. (Buckets - 1)]
  /\ {MaxPage, DefaultPerPage, MaxWrites, MaxShrinks} \subseteq Nat
  /\ PageSizes \subseteq Nat
  /\ HashModes \subseteq BOOLEAN
  /\ KeyLists \subseteq Seq(Keys) /\ \A keys \in KeyLists : IsInjective(keys)

VARIABLES
  useHashmap, \* the store's setting, which never changes
  stored,     \* the write that each key holds
  writes,     \* the number of writes
  shrinks,    \* the number of times a walk was set back
  pc,         \* "idle", "scan" (about to read keys) or "get" (about to read a value)
  req,        \* the find under way
  counting,   \* it is at count(), after its page
  cursor,
  batch,      \* keys whose values are still to be read
  last,       \* there is nothing to read after the batch
  results,    \* what repository.find() has so far
  answer,     \* what the last find returned
  \* history
  stable,     \* keys stored since the find began, by the same or another write
  seen,       \* items stored at some moment since then
  quiet       \* nothing was written and no walk set back since then

vars == <<useHashmap, stored, writes, shrinks, pc, req, counting, cursor, batch, last,
          results, answer, stable, seen, quiet>>

Items == [key : Keys, write : 0 .. MaxWrites]
Requests ==
  {r \in [findAll : BOOLEAN, individualSearch : BOOLEAN, keys : KeyLists,
          page : 1 .. MaxPage, perPage : PageSizes] :
     r.findAll => r.page = 1}
Answers == [items : Seq(Items), more : BOOLEAN, total : Nat \cup {None}]

TypeOK ==
  /\ useHashmap \in BOOLEAN /\ writes \in 0 .. MaxWrites /\ shrinks \in 0 .. MaxShrinks
  /\ stored \in [Keys -> 0 .. MaxWrites \cup {None}]
  /\ pc \in {"idle", "scan", "get"}
  /\ req \in Requests \cup {None}
  /\ counting \in BOOLEAN /\ last \in BOOLEAN /\ quiet \in BOOLEAN
  /\ cursor \in Nat
  /\ batch \in Seq(Keys)
  /\ results \in Seq(Items)
  /\ answer = None \/ answer \in Answers
  /\ stable \subseteq Keys /\ seen \subseteq Items

Present == {k \in Keys : stored[k] # None}
ItemOf(k) == [key |-> k, write |-> stored[k]]

Init ==
  /\ useHashmap \in HashModes
  /\ stored \in [Keys -> {0, None}]
  /\ writes = 0 /\ shrinks = 0
  /\ pc = "idle"
  /\ req = None /\ answer = None
  /\ counting = FALSE
  /\ cursor = 0 /\ batch = <<>> /\ last = FALSE /\ results = <<>>
  /\ stable = {} /\ seen = {} /\ quiet = TRUE

-----------------------------------------------------------------------------
(* The find of the entity service, and the repository's find it calls once *)
(* for the items and once for the total.                                   *)

\* count() scans, whatever the find does, and reads one page of the default size
PerPage == IF counting THEN DefaultPerPage ELSE req.perPage
Individual == req.individualSearch /\ ~counting

\* the page's offset is used as a Redis cursor, or as an index of the keys
Find(r) ==
  /\ pc = "idle"
  /\ req' = r
  /\ pc' = "scan"
  /\ cursor' = (r.page - 1) * r.perPage
  /\ results' = <<>>
  /\ counting' = FALSE
  /\ answer' = None
  /\ stable' = Present
  /\ seen' = {ItemOf(k) : k \in Present}
  /\ quiet' = TRUE
  /\ UNCHANGED <<useHashmap, stored, writes, shrinks, batch, last>>

\* repository.find() is at its end: cut the page, then count or return
Finish(found) ==
  LET more == ~req.findAll /\ Len(found) > PerPage
      items == IF more THEN SubSeq(found, 1, PerPage) ELSE found
      counts == ~req.findAll /\ ~counting
  IN  /\ answer' = IF counting THEN [answer EXCEPT !.total = Len(items)]
                   ELSE [items |-> items, more |-> more, total |-> None]
      /\ counting' = counts
      /\ pc' = IF counts THEN "scan" ELSE "idle"
      /\ cursor' = 0
      /\ results' = <<>>

\* Mutant: a page that is not full is searched for again and again.
ContinueUntilFull(found, ended, next) ==
  IF (req.findAll /\ ended) \/ (~req.findAll /\ Len(found) >= PerPage + 1)
  THEN Finish(found)
  ELSE pc' = "scan" /\ results' = found /\ cursor' = next /\ UNCHANGED <<answer, counting>>

\* Mutant: the loop ends with a full page, before it knows of more.
ContinueToPage(found, ended, next) ==
  IF ended \/ (~req.findAll /\ Len(found) >= PerPage)
  THEN Finish(found)
  ELSE pc' = "scan" /\ results' = found /\ cursor' = next /\ UNCHANGED <<answer, counting>>

\* the loops: of scanAll until Redis is through, of a page until it has one more as well
Continue(found, ended, next) ==
  IF ended \/ (~req.findAll /\ Len(found) >= PerPage + 1)
  THEN Finish(found)
  ELSE pc' = "scan" /\ results' = found /\ cursor' = next /\ UNCHANGED <<answer, counting>>

\* with these results, keys are to be read, and then what is at the next cursor
Read(found, keys, ended, next) ==
  /\ batch' = keys
  /\ last' = ended
  /\ IF keys = <<>> THEN Continue(found, ended, next)
     ELSE pc' = "get" /\ results' = found /\ cursor' = next /\ UNCHANGED <<answer, counting>>

-----------------------------------------------------------------------------
(* The commands.                                                           *)

\* SCAN, HSCAN: the keys of some buckets
ScanReply(from, upto) == SetToSeq({k \in Present : BucketOf[k] \in from .. (upto - 1)})

\* The cursor is masked, whatever it is.  HSCAN's reply has the values among the keys,
\* and nothing is stored under those.
Scan ==
  /\ pc = "scan" /\ ~Individual
  /\ \E back \in {0, 1}, upto \in 1 .. Buckets :
       LET from == (cursor % Buckets) - back
       IN  /\ back <= cursor % Buckets /\ from < upto
           /\ shrinks + back <= MaxShrinks
           /\ shrinks' = shrinks + back
           /\ quiet' = (quiet /\ back = 0)
           /\ Read(results, ScanReply(from, upto), upto = Buckets, upto)
  /\ UNCHANGED <<useHashmap, stored, writes, req, stable, seen>>

\* an individual search reads the keys of the page and one more, those of later pages
\* when some are not stored
Fetch ==
  /\ pc = "scan" /\ Individual
  /\ LET limit == IF req.findAll THEN Len(req.keys) ELSE PerPage + 1
         ended == req.findAll \/ cursor + limit > Len(req.keys)
     IN  Read(results, SubSeq(req.keys, cursor + 1, IF ended THEN Len(req.keys) ELSE cursor + limit),
              ended, cursor + limit)
  /\ UNCHANGED <<useHashmap, stored, writes, shrinks, req, stable, seen, quiet>>

\* Mutant: null values are not skipped.
FindsNull(k) == TRUE

\* a page of a hash is read by GET, although its fields are no keys
Finds(k) == stored[k] # None /\ (useHashmap => req.findAll \/ Individual)

\* GET, HGET: null values are skipped, and so is what the filter does not have
Get ==
  /\ pc = "get"
  /\ LET k == Head(batch)
         found == IF Finds(k) /\ k \in Range(req.keys) THEN Append(results, ItemOf(k)) ELSE results
     IN  Read(found, Tail(batch), last, cursor)
  /\ UNCHANGED <<useHashmap, stored, writes, shrinks, req, stable, seen, quiet>>

-----------------------------------------------------------------------------
(* Others.                                                                 *)

Put(k) ==
  /\ writes < MaxWrites
  /\ writes' = writes + 1
  /\ stored' = [stored EXCEPT ![k] = writes + 1]
  /\ seen' = seen \cup {[key |-> k, write |-> writes + 1]}
  /\ quiet' = FALSE
  /\ UNCHANGED <<useHashmap, shrinks, pc, req, counting, cursor, batch, last, results, answer, stable>>

Delete(k) ==
  /\ stored[k] # None
  /\ stored' = [stored EXCEPT ![k] = None]
  /\ stable' = stable \ {k}
  /\ quiet' = FALSE
  /\ UNCHANGED <<useHashmap, writes, shrinks, pc, req, counting, cursor, batch, last, results,
                 answer, seen>>

Step == Scan \/ Fetch \/ Get
Next == Step \/ (\E r \in Requests : Find(r)) \/ (\E k \in Keys : Put(k) \/ Delete(k))

Spec == Init /\ [][Next]_vars
FairSpec == Spec /\ WF_vars(Step)

-----------------------------------------------------------------------------
(* Properties.                                                             *)

KeysOf(items) == {items[i].key : i \in DOMAIN items}

\* what a find has to look at: from its page on for an individual search, and nothing that
\* can be said for a later page of a scan
Asked ==
  IF req.individualSearch
  THEN Range(SubSeq(req.keys, (req.page - 1) * req.perPage + 1, Len(req.keys)))
  ELSE IF req.page = 1 THEN Range(req.keys) ELSE {}

\* an item was stored while the find was reading, and passes its filter
ItemsWereStored == Range(answer.items) \subseteq seen /\ KeysOf(answer.items) \subseteq Range(req.keys)

\* What is stored all the time is found, unless there is more, which needs a full page;
\* but pages of a hash are empty.
CompleteUnlessMore ==
  /\ ~req.findAll => Len(answer.items) <= req.perPage
  /\ answer.more => Len(answer.items) = req.perPage
  /\ ~answer.more /\ (useHashmap => req.findAll \/ req.individualSearch) =>
       stable \cap Asked \subseteq KeysOf(answer.items)

\* one key is read once by an individual search, although a scan may repeat it
NoRepeats == req.individualSearch => Cardinality(KeysOf(answer.items)) = Len(answer.items)

\* the total counts what the filter has, up to the default page size
TotalCounts ==
  (answer.total # None /\ quiet /\ ~useHashmap) =>
    LET n == Cardinality(Present \cap Range(req.keys))
    IN  answer.total = IF n > DefaultPerPage THEN DefaultPerPage ELSE n

\* Whatever is written, deleted or walked twice between a find's commands, scan() and the
\* paging above it return what was there, and leave out what stayed there only if they
\* say that there is more.
AnswersHonest ==
  answer # None => ItemsWereStored /\ CompleteUnlessMore /\ NoRepeats /\ TotalCounts

\* The loops of scan() and of the paging end, since every walk of Redis does.
FindsEnd == pc # "idle" ~> pc = "idle"
=============================================================================
