--------------------------- MODULE RedisScanProofs ---------------------------
(***************************************************************************)
(* Proofs about RedisScan for any keys, filters, pages, table, numbers of  *)
(* writes and of walks set back, both storage modes.                       *)
(*                                                                         *)
(* The invariant divides the keys by the loop's place.  What a find is     *)
(* asked for and stayed in the store is found, read or ahead of its cursor *)
(* (Covers); keys read by the filter (Distinct), and those of an           *)
(* undisturbed count (Counts), are found or read once and are behind it.   *)
(* Each command proves these of what it leaves (Leaves), and the loops,    *)
(* which go on or cut a page from it, are proved about once (Reads).       *)
(* That finds end is left to TLC; what it needs of the loops is proved:    *)
(* every command lowers a measure that has no endless descent.             *)
(***************************************************************************)
EXTENDS RedisScan, FiniteSetTheorems, SequenceTheorems, WellFoundedInduction, TLAPS

-----------------------------------------------------------------------------
(* Lists.                                                                  *)

LEMMA Cursors ==
  ASSUME NEW at \in Nat
  PROVE  /\ at % Buckets \in 0 .. (Buckets - 1)
         /\ at < Buckets => at % Buckets = at
  BY ScanAssumption

LEMMA Offsets ==
  ASSUME NEW r \in Requests
  PROVE  (r.page - 1) * r.perPage \in Nat
<1>1. MaxPage \in Nat /\ PageSizes \subseteq Nat
  BY ScanAssumption
<1>2. r.page \in 1 .. MaxPage /\ r.perPage \in PageSizes
  BY DEF Requests
<1>3. r.perPage \in Nat
  BY <1>1, <1>2
<1>4. r.page - 1 \in Nat
  BY <1>1, <1>2
<1>. QED
  BY <1>3, <1>4

\* A filter names each key once.
LEMMA Filters ==
  ASSUME NEW r \in Requests
  PROVE  r.keys \in Seq(Keys) /\ IsInjective(r.keys) /\ Range(r.keys) \subseteq Keys
<1>1. r.keys \in KeyLists
  BY DEF Requests
<1>2. r.keys \in Seq(Keys) /\ IsInjective(r.keys)
  BY <1>1, ScanAssumption
<1>. QED
  BY <1>2, RangeOfSeq

LEMMA Intervals ==
  ASSUME NEW n \in Nat
  PROVE  IsFiniteSet(1 .. n) /\ Cardinality(1 .. n) = n
  BY FS_Interval

\* A finite set as a sequence has each element once.
LEMMA Listing ==
  ASSUME NEW S, IsFiniteSet(S)
  PROVE  SetToSeq(S) \in Seq(S) /\ IsInjective(SetToSeq(S)) /\ Range(SetToSeq(S)) = S
<1>. DEFINE n == Cardinality(S)
<1>1. n \in Nat /\ ExistsBijection(1 .. n, S)
  BY FS_CardinalityType
<1>2. \E f \in [1 .. n -> S] : IsInjective(f)
  BY <1>1 DEF ExistsBijection, Bijection, Injection
<1>3. SetToSeq(S) \in [1 .. n -> S] /\ IsInjective(SetToSeq(S))
  BY <1>2 DEF SetToSeq
<1>4. SetToSeq(S) \in Injection(1 .. n, S)
  BY <1>3 DEF Injection
<1>5. IsFiniteSet(1 .. n) /\ Cardinality(1 .. n) = n
  BY <1>1, Intervals
<1>6. SetToSeq(S) \in Surjection(1 .. n, S)
  BY <1>4, <1>5, FS_Injection
<1>7. Range(SetToSeq(S)) = S
  BY <1>3, <1>6 DEF Surjection, Range
<1>. QED
  BY <1>1, <1>3, <1>7

\* As many keys as items, if no two items have the same.
LEMMA DistinctKeys ==
  ASSUME NEW items \in Seq(Items),
         \A i, j \in DOMAIN items : items[i].key = items[j].key => i = j
  PROVE  /\ IsFiniteSet(KeysOf(items))
         /\ Cardinality(KeysOf(items)) = Len(items)
<1>. DEFINE n == Len(items)
            f == [i \in 1 .. n |-> items[i].key]
<1>1. n \in Nat /\ DOMAIN items = 1 .. n
  BY LenProperties
<1>2. f \in [1 .. n -> KeysOf(items)]
  BY <1>1 DEF KeysOf
<1>3. f \in Injection(1 .. n, KeysOf(items))
  BY <1>1, <1>2 DEF Injection, IsInjective
<1>4. f \in Surjection(1 .. n, KeysOf(items))
  BY <1>1, <1>2 DEF Surjection, KeysOf
<1>5. IsFiniteSet(1 .. n) /\ Cardinality(1 .. n) = n
  BY <1>1, Intervals
<1>6. ExistsBijection(1 .. n, KeysOf(items))
  BY <1>3, <1>4 DEF ExistsBijection, Bijection
<1>. QED
  BY <1>5, <1>6, FS_Bijection

\* What a list has is its head and what its tail has.
LEMMA Heads ==
  ASSUME NEW list \in Seq(Keys), list # <<>>
  PROVE  /\ Head(list) \in Keys /\ Tail(list) \in Seq(Keys)
         /\ Range(list) = {Head(list)} \cup Range(Tail(list))
         /\ IsInjective(list) => IsInjective(Tail(list)) /\ Head(list) \notin Range(Tail(list))
<1>1. /\ Head(list) \in Keys /\ Tail(list) \in Seq(Keys)
      /\ Len(Tail(list)) = Len(list) - 1
      /\ \A i \in 1 .. Len(Tail(list)) : Tail(list)[i] = list[i + 1]
  BY HeadTailProperties
<1>2. /\ Len(list) \in Nat /\ DOMAIN list = 1 .. Len(list)
      /\ DOMAIN Tail(list) = 1 .. Len(Tail(list))
  BY <1>1, LenProperties
<1>3. Len(list) >= 1 /\ Head(list) = list[1]
  BY <1>2, EmptySeq
<1>4. \A i \in 2 .. Len(list) : i - 1 \in DOMAIN Tail(list) /\ list[i] = Tail(list)[i - 1]
  BY <1>1, <1>2
<1>5. Range(list) \subseteq {Head(list)} \cup Range(Tail(list))
  <2>1. \A i \in DOMAIN list : i = 1 \/ i \in 2 .. Len(list)
    BY <1>2
  <2>2. \A i \in DOMAIN list : list[i] \in {Head(list)} \cup Range(Tail(list))
    BY <1>3, <1>4, <2>1 DEF Range
  <2>. QED
    BY <2>2 DEF Range
<1>6. {Head(list)} \cup Range(Tail(list)) \subseteq Range(list)
  BY <1>1, <1>2, <1>3 DEF Range
<1>7. ASSUME IsInjective(list) PROVE IsInjective(Tail(list)) /\ Head(list) \notin Range(Tail(list))
  <2>1. ASSUME NEW i \in DOMAIN Tail(list) PROVE i + 1 \in DOMAIN list /\ i + 1 # 1 /\ i \in Nat
    BY <1>1, <1>2
  <2>. QED
    BY <1>1, <1>2, <1>3, <1>7, <2>1 DEF IsInjective, Range
<1>. QED
  BY <1>1, <1>5, <1>6, <1>7

LEMMA Appended ==
  ASSUME NEW items \in Seq(Items), NEW item \in Items
  PROVE  /\ Append(items, item) \in Seq(Items)
         /\ Range(Append(items, item)) = Range(items) \cup {item}
         /\ KeysOf(Append(items, item)) = KeysOf(items) \cup {item.key}
<1>. DEFINE more == Append(items, item)
<1>1. /\ more \in Seq(Items) /\ Len(more) = Len(items) + 1
      /\ \A i \in 1 .. Len(items) : more[i] = items[i]
      /\ more[Len(items) + 1] = item
  BY AppendProperties
<1>2. /\ Len(items) \in Nat /\ DOMAIN items = 1 .. Len(items)
      /\ DOMAIN more = 1 .. (Len(items) + 1)
  BY <1>1, LenProperties
<1>. HIDE DEF more
<1>3. DOMAIN more = DOMAIN items \cup {Len(items) + 1}
  BY <1>2
<1>4. \A i \in DOMAIN items : more[i] = items[i]
  BY <1>1, <1>2
<1>5. Range(more) = Range(items) \cup {item}
  BY <1>1, <1>3, <1>4 DEF Range
<1>6. KeysOf(more) = KeysOf(items) \cup {item.key}
  BY <1>1, <1>3, <1>4 DEF KeysOf
<1>. QED
  BY <1>1, <1>5, <1>6 DEF more

-----------------------------------------------------------------------------
(* The invariant.                                                          *)

\* a find that reads the keys of its filter, and one that walks all buckets
ByKey(c) == req.individualSearch /\ ~c
Walks(c) == c \/ (~req.individualSearch /\ req.page = 1)

\* the find has to return what it is asked for
Claims == useHashmap => req.findAll \/ req.individualSearch

\* the keys before and after a cursor
Upto(c, next) ==
  {k \in Keys : IF ByKey(c) THEN \E i \in DOMAIN req.keys : i <= next /\ req.keys[i] = k
                 ELSE BucketOf[k] < next}
Ahead(c, next) ==
  {k \in Keys : IF ByKey(c) THEN \E i \in DOMAIN req.keys : i > next /\ req.keys[i] = k
                 ELSE BucketOf[k] >= next}

Once(found, keys) ==
  /\ \A i, j \in DOMAIN found : found[i].key = found[j].key => i = j
  /\ IsInjective(keys)
  /\ KeysOf(found) \cap Range(keys) = {}

\* With these items found and keys read, and nothing or what is at the next cursor left,
\* in the search for items or, c, in the count, while nobody wrote, q: what was found was
\* stored and is asked for; ...
Found(found, keys, next) ==
  /\ found \in Seq(Items) /\ keys \in Seq(Keys) /\ next \in Nat
  /\ Range(found) \subseteq seen /\ KeysOf(found) \subseteq Range(req.keys)

\* ... a walk has not passed the last bucket; ...
Placed(c, ended, next) == Walks(c) /\ ~ended => next < Buckets

\* ... what was stored all the time is found, read or ahead; ...
Covers(c, found, keys, ended, next) ==
  ~c /\ Claims =>
    \A k \in stable \cap Asked : k \in KeysOf(found) \cup Range(keys) \/ (~ended /\ k \in Ahead(c, next))

\* ... keys that are read by the filter were not read before; ...
Distinct(c, found, keys, ended, next) ==
  ByKey(c) =>
    /\ Once(found, keys)
    /\ ~ended => KeysOf(found) \cup Range(keys) \subseteq Upto(c, next)

\* ... and the count has, once, what is stored in the buckets passed.
Counts(c, q, found, keys, ended, next) ==
  c /\ q /\ ~useHashmap =>
    /\ Once(found, keys)
    /\ \A k \in Keys : k \in KeysOf(found) \cup (Range(keys) \cap Range(req.keys)) <=>
                       k \in Present \cap Range(req.keys) /\ (ended \/ k \in Upto(c, next))

Searching == pc # "idle" =>
  /\ Found(results, batch, cursor)
  /\ Placed(counting, pc = "get" /\ last, cursor)
  /\ Covers(counting, results, batch, pc = "get" /\ last, cursor)
  /\ Distinct(counting, results, batch, pc = "get" /\ last, cursor)
  /\ Counts(counting, quiet, results, batch, pc = "get" /\ last, cursor)

\* The stages of a find, and what is known of the store since it began.
Stages ==
  /\ pc # "idle" =>
       /\ req \in Requests
       /\ IF counting THEN answer \in Answers /\ answer.total = None /\ ~req.findAll ELSE answer = None
       /\ {ItemOf(k) : k \in Present} \subseteq seen
  /\ answer # None => req \in Requests
  /\ pc = "get" <=> batch # <<>>
  /\ stable \subseteq Present

\* The answer that the total is counted for is kept.
Answered == pc # "idle" /\ counting => ItemsWereStored /\ CompleteUnlessMore /\ NoRepeats

Inv == TypeOK /\ Stages /\ Searching /\ Answered /\ AnswersHonest

LEMMA InvInit == Init => Inv
<1>. SUFFICES ASSUME Init PROVE Inv
  OBVIOUS
<1>1. TypeOK
  <2>1. stored \in [Keys -> 0 .. MaxWrites \cup {None}]
    BY ScanAssumption DEF Init
  <2>2. useHashmap \in BOOLEAN /\ writes \in 0 .. MaxWrites /\ shrinks \in 0 .. MaxShrinks
    BY ScanAssumption DEF Init
  <2>. QED
    BY <2>1, <2>2, EmptySeq DEF Init, TypeOK
<1>2. Stages /\ Searching /\ Answered /\ AnswersHonest
  BY DEF Init, Stages, Searching, Answered, AnswersHonest
<1>. QED
  BY <1>1, <1>2 DEF Inv

-----------------------------------------------------------------------------
(* The loops.                                                              *)

\* A page is the beginning of what was found.
LEMMA Cut ==
  ASSUME NEW found \in Seq(Items), NEW n \in Nat, n < Len(found)
  PROVE  /\ SubSeq(found, 1, n) \in Seq(Items) /\ Len(SubSeq(found, 1, n)) = n
         /\ Range(SubSeq(found, 1, n)) \subseteq Range(found)
         /\ KeysOf(SubSeq(found, 1, n)) \subseteq KeysOf(found)
         /\ (\A i, j \in DOMAIN found : found[i].key = found[j].key => i = j) =>
              \A i, j \in DOMAIN SubSeq(found, 1, n) :
                SubSeq(found, 1, n)[i].key = SubSeq(found, 1, n)[j].key => i = j
<1>. DEFINE page == SubSeq(found, 1, n)
<1>1. Len(found) \in Nat /\ DOMAIN found = 1 .. Len(found)
  BY LenProperties
<1>2. \A i \in 1 .. n : found[i] \in Items
  BY <1>1, ElementOfSeq
<1>3. /\ page \in Seq(Items) /\ Len(page) = IF 1 <= n THEN n - 1 + 1 ELSE 0
      /\ \A i \in 1 .. n - 1 + 1 : page[i] = found[1 + i - 1]
  BY <1>2, SubSeqProperties
<1>4. DOMAIN page = 1 .. Len(page)
  BY <1>3, LenProperties
<1>. HIDE DEF page
<1>5. Len(page) = n
  BY <1>3
<1>6. DOMAIN page \subseteq DOMAIN found /\ \A i \in DOMAIN page : page[i] = found[i]
  BY <1>1, <1>3, <1>4, <1>5
<1>7. Range(page) \subseteq Range(found)
  BY <1>6 DEF Range
<1>8. KeysOf(page) \subseteq KeysOf(found)
  BY <1>6 DEF KeysOf
<1>9. (\A i, j \in DOMAIN found : found[i].key = found[j].key => i = j) =>
        \A i, j \in DOMAIN page : page[i].key = page[j].key => i = j
  BY <1>6
<1>. QED
  BY <1>3, <1>5, <1>7, <1>8, <1>9 DEF page

\* Reading on changes neither the find nor the store.
Same == UNCHANGED <<useHashmap, stored, writes, req, stable, seen>>

\* What a step leaves found and to be read.
Leaves(found, keys, ended, next) ==
  /\ Found(found, keys, next)
  /\ Placed(counting, ended, next)
  /\ Covers(counting, found, keys, ended, next)
  /\ Distinct(counting, found, keys, ended, next)
  /\ Counts(counting, quiet', found, keys, ended, next)

LEMMA SameStore ==
  ASSUME Same
  PROVE  /\ Present' = Present
         /\ \A k \in Keys : ItemOf(k)' = ItemOf(k)
         /\ Asked' = Asked /\ Claims' = Claims
  BY DEF Same, Present, ItemOf, Asked, Claims

\* The next cursor, and keys that are to be read.
LEMMA GoesOn ==
  ASSUME Inv, Same, pc # "idle", quiet' \in BOOLEAN, shrinks' \in 0 .. MaxShrinks,
         NEW found, NEW keys, NEW ended \in BOOLEAN, NEW next,
         Leaves(found, keys, ended, next),
         results' = found, batch' = keys, cursor' = next, last' = ended,
         UNCHANGED <<answer, counting>>,
         (keys # <<>> /\ pc' = "get") \/ (keys = <<>> /\ ~ended /\ pc' = "scan")
  PROVE  Inv'
<1>. DEFINE over == pc = "get" /\ last
<1>1. over' = ended
  OBVIOUS
<1>2. TypeOK'
  <2>1. found \in Seq(Items) /\ keys \in Seq(Keys) /\ next \in Nat
    BY DEF Leaves, Found
  <2>. QED
    BY <2>1 DEF Inv, TypeOK, Same
<1>3. Stages'
  <2>1. {ItemOf(k) : k \in Present}' = {ItemOf(k) : k \in Present}
    BY DEF Same, Present, ItemOf
  <2>. QED
    BY <2>1, SameStore DEF Inv, Stages, Same
<1>4. Searching'
  <2>1. Found(results, batch, cursor)'
    BY DEF Leaves, Found, Same
  <2>2. Placed(counting, over, cursor)'
    BY <1>1 DEF Leaves, Placed, Walks, Same
  <2>3. Covers(counting, results, batch, over, cursor)'
    BY <1>1, SameStore DEF Leaves, Covers, Ahead, ByKey, Same
  <2>4. Distinct(counting, results, batch, over, cursor)'
    BY <1>1 DEF Leaves, Distinct, Once, Upto, ByKey, Same
  <2>5. Counts(counting, quiet, results, batch, over, cursor)'
    BY <1>1, SameStore DEF Leaves, Counts, Once, Upto, ByKey, Same
  <2>. QED
    BY <2>1, <2>2, <2>3, <2>4, <2>5 DEF Searching
<1>5. counting => (ItemsWereStored /\ CompleteUnlessMore /\ NoRepeats)'
  BY SameStore DEF Inv, Answered, Same, ItemsWereStored, CompleteUnlessMore, NoRepeats
<1>6. Answered'
  BY <1>5 DEF Answered
<1>7. AnswersHonest'
  <2>1. answer # None => answer.total = None /\ counting
    BY DEF Inv, Stages
  <2>2. answer # None => TotalCounts'
    BY <2>1 DEF TotalCounts
  <2>. QED
    BY <1>5, <2>1, <2>2 DEF AnswersHonest
<1>. QED
  BY <1>2, <1>3, <1>4, <1>6, <1>7 DEF Inv

\* The end of a search or of a count, with all that it has to find or more than a page.
LEMMA Finishes ==
  ASSUME Inv, Same, pc # "idle", quiet' \in BOOLEAN, shrinks' \in 0 .. MaxShrinks,
         NEW found, NEW ended \in BOOLEAN, NEW next,
         Leaves(found, <<>>, ended, next),
         ended \/ (~req.findAll /\ Len(found) >= PerPage + 1),
         Finish(found), batch' = <<>>, last' = ended
  PROVE  Inv'
<1>. DEFINE more == ~req.findAll /\ Len(found) > PerPage
            items == IF more THEN SubSeq(found, 1, PerPage) ELSE found
            counts == ~req.findAll /\ ~counting
<1>1. /\ found \in Seq(Items) /\ Range(found) \subseteq seen /\ KeysOf(found) \subseteq Range(req.keys)
      /\ Len(found) \in Nat
  BY LenProperties DEF Leaves, Found
<1>2. req \in Requests /\ req.findAll \in BOOLEAN /\ req.individualSearch \in BOOLEAN
  BY DEF Inv, Stages, Requests
<1>3. PerPage \in Nat
  <2>1. req.perPage \in PageSizes
    BY <1>2 DEF Requests
  <2>. QED
    BY <2>1, ScanAssumption DEF PerPage
<1>4. more \in BOOLEAN /\ counts \in BOOLEAN /\ counting \in BOOLEAN
  BY <1>2 DEF Inv, TypeOK
<1>5. /\ items \in Seq(Items) /\ Len(items) \in Nat
      /\ Range(items) \subseteq Range(found) /\ KeysOf(items) \subseteq KeysOf(found)
      /\ more => Len(items) = PerPage
      /\ ~req.findAll => Len(items) <= PerPage
      /\ ~more => ended /\ items = found
      /\ (\A i, j \in DOMAIN found : found[i].key = found[j].key => i = j) =>
           \A i, j \in DOMAIN items : items[i].key = items[j].key => i = j
  <2>1. CASE more
    BY <1>1, <1>3, <2>1, Cut
  <2>2. CASE ~more
    BY <1>1, <1>2, <1>3, <2>2
  <2>. QED
    BY <2>1, <2>2
<1>6. /\ answer' = IF counting THEN [answer EXCEPT !.total = Len(items)]
                   ELSE [items |-> items, more |-> more, total |-> None]
      /\ counting' = counts
      /\ pc' = IF counts THEN "scan" ELSE "idle"
      /\ cursor' = 0 /\ results' = <<>>
  BY DEF Finish
<1>7. more => Len(found) > PerPage
  OBVIOUS
<1>. HIDE DEF more, items
<1>8. answer' \in Answers
  <2>1. CASE counting
    <3>1. answer \in Answers
      BY <2>1 DEF Inv, Stages
    <3>. QED
      BY <1>5, <1>6, <2>1, <3>1 DEF Answers
  <2>2. CASE ~counting
    BY <1>4, <1>5, <1>6, <2>2 DEF Answers
  <2>. QED
    BY <2>1, <2>2
<1>9. TypeOK'
  <2>1. results' \in Seq(Items) /\ batch' \in Seq(Keys)
    BY <1>6, EmptySeq
  <2>2. pc' \in {"idle", "scan", "get"} /\ counting' \in BOOLEAN /\ cursor' \in Nat
    BY <1>4, <1>6
  <2>. QED
    BY <1>8, <2>1, <2>2 DEF Inv, TypeOK, Same
<1>10. Stages'
  <2>1. {ItemOf(k) : k \in Present}' = {ItemOf(k) : k \in Present}
    BY DEF Same, Present, ItemOf
  <2>2. counts => answer'.total = None /\ ~req.findAll
    BY <1>6
  <2>3. (stable \subseteq Present)'
    BY SameStore DEF Same, Inv, Stages
  <2>. QED
    BY <1>2, <1>6, <1>8, <2>1, <2>2, <2>3 DEF Inv, Stages, Same
<1>11. Searching'
  <2>1. CASE ~counts
    BY <1>6, <2>1 DEF Searching
  <2>2. CASE counts
    <3>1. /\ counting' = TRUE /\ pc' = "scan" /\ cursor' = 0 /\ results' = <<>> /\ batch' = <<>>
          /\ (pc = "get" /\ last)' = FALSE
      BY <1>6, <2>2
    <3>2. Range(<<>>) = {} /\ KeysOf(<<>>) = {} /\ IsInjective(<<>>) /\ DOMAIN <<>> = {}
      BY DEF Range, KeysOf, IsInjective
    <3>3. Found(results, batch, cursor)'
      BY <3>1, <3>2, EmptySeq DEF Found
    <3>4. Placed(counting, pc = "get" /\ last, cursor)'
      BY <3>1, ScanAssumption DEF Placed
    <3>5. Covers(counting, results, batch, pc = "get" /\ last, cursor)'
      BY <3>1 DEF Covers
    <3>6. Distinct(counting, results, batch, pc = "get" /\ last, cursor)'
      BY <3>1 DEF Distinct, ByKey
    <3>7. Upto(counting, cursor)' = {}
      <4>1. \A k \in Keys : ~ (BucketOf[k] < 0)
        BY ScanAssumption
      <4>. QED
        BY <3>1, <4>1 DEF Upto, ByKey
    <3>8. Counts(counting, quiet, results, batch, pc = "get" /\ last, cursor)'
      BY <3>1, <3>2, <3>7 DEF Counts, Once
    <3>. QED
      BY <3>3, <3>4, <3>5, <3>6, <3>8 DEF Searching
  <2>. QED
    BY <1>4, <2>1, <2>2
<1>12. (ItemsWereStored /\ CompleteUnlessMore /\ NoRepeats)'
  <2>1. CASE counting
    <3>1. answer'.items = answer.items /\ answer'.more = answer.more
      BY <1>6, <2>1 DEF Inv, Stages, Answers
    <3>2. ItemsWereStored /\ CompleteUnlessMore /\ NoRepeats
      BY <2>1 DEF Inv, Answered
    <3>. QED
      BY <3>1, <3>2, SameStore DEF Same, ItemsWereStored, CompleteUnlessMore, NoRepeats
  <2>2. CASE ~counting
    <3>1. answer'.items = items /\ answer'.more = more /\ PerPage = req.perPage
      BY <1>6, <2>2 DEF PerPage
    <3>2. ItemsWereStored'
      BY <1>1, <1>5, <3>1 DEF ItemsWereStored, Same
    <3>3. ~more /\ Claims => stable \cap Asked \subseteq KeysOf(items)
      <4>1. ~more => ended /\ items = found
        BY <1>5
      <4>. QED
        BY <2>2, <4>1 DEF Leaves, Covers, Range
    <3>4. CompleteUnlessMore'
      BY <1>5, <3>1, <3>3, SameStore DEF CompleteUnlessMore, Claims, Same
    <3>5. NoRepeats'
      <4>1. req.individualSearch => \A i, j \in DOMAIN found : found[i].key = found[j].key => i = j
        BY <2>2 DEF Leaves, Distinct, ByKey, Once
      <4>2. req.individualSearch => Cardinality(KeysOf(items)) = Len(items)
        BY <1>5, <4>1, DistinctKeys
      <4>. QED
        BY <3>1, <4>2 DEF NoRepeats, Same
    <3>. QED
      BY <3>2, <3>4, <3>5
  <2>. QED
    BY <2>1, <2>2
<1>13. TotalCounts'
  <2>1. CASE counting
    <3>. SUFFICES ASSUME quiet', ~useHashmap
                  PROVE  LET n == Cardinality(Present \cap Range(req.keys))
                         IN  answer'.total = IF n > DefaultPerPage THEN DefaultPerPage ELSE n
      BY SameStore DEF TotalCounts, Same
    <3>. DEFINE asked == Present \cap Range(req.keys)
                n == Cardinality(asked)
    <3>1. answer'.total = Len(items) /\ PerPage = DefaultPerPage
      BY <1>6, <2>1 DEF Inv, Stages, Answers, PerPage
    <3>2. /\ \A i, j \in DOMAIN found : found[i].key = found[j].key => i = j
          /\ \A k \in Keys : k \in KeysOf(found) <=>
                              k \in asked /\ (ended \/ k \in Upto(counting, next))
      <4>1. Counts(counting, quiet', found, <<>>, ended, next)
        BY DEF Leaves
      <4>2. Range(<<>>) = {}
        BY DEF Range
      <4>. QED
        BY <2>1, <4>1, <4>2 DEF Counts, Once
    <3>3. IsFiniteSet(asked) /\ n \in Nat
      <4>1. asked \in SUBSET Keys
        BY DEF Present
      <4>. QED
        BY <4>1, ScanAssumption, FS_Subset, FS_CardinalityType
    <3>4. KeysOf(found) \subseteq Keys
      BY <1>1, <1>2, Filters
    <3>5. Cardinality(KeysOf(found)) = Len(found)
      BY <1>1, <3>2, DistinctKeys
    <3>6. KeysOf(found) \in SUBSET asked
      BY <3>2, <3>4
    <3>. HIDE DEF asked, n
    <3>7. Len(found) <= n
      BY <3>3, <3>5, <3>6, FS_Subset DEF n
    <3>8. ended => n = Len(found)
      <4>1. ended => asked = KeysOf(found)
        BY <3>2, <3>6 DEF asked, Present
      <4>. QED
        BY <3>5, <4>1 DEF n
    <3>9. answer'.total = IF n > DefaultPerPage THEN DefaultPerPage ELSE n
      <4>1. ~req.findAll
        BY <2>1 DEF Inv, Stages
      <4>. QED
        BY <1>1, <1>3, <1>5, <1>7, <3>1, <3>3, <3>7, <3>8, <4>1
    <3>. QED
      BY <3>9 DEF n, asked
  <2>2. CASE ~counting
    BY <1>6, <2>2 DEF TotalCounts
  <2>. QED
    BY <2>1, <2>2
<1>. QED
  BY <1>9, <1>10, <1>11, <1>12, <1>13 DEF Inv, Answered, AnswersHonest

LEMMA Reads ==
  ASSUME Inv, Same, pc # "idle", quiet' \in BOOLEAN, shrinks' \in 0 .. MaxShrinks,
         NEW found, NEW keys, NEW ended \in BOOLEAN, NEW next,
         Leaves(found, keys, ended, next), Read(found, keys, ended, next)
  PROVE  Inv'
<1>1. batch' = keys /\ last' = ended
  BY DEF Read
<1>2. CASE keys # <<>>
  <2>1. pc' = "get" /\ results' = found /\ cursor' = next /\ UNCHANGED <<answer, counting>>
    BY <1>2 DEF Read
  <2>. QED
    BY <1>1, <1>2, <2>1, GoesOn
<1>3. CASE keys = <<>>
  <2>1. Continue(found, ended, next)
    BY <1>3 DEF Read
  <2>2. CASE ended \/ (~req.findAll /\ Len(found) >= PerPage + 1)
    BY <1>1, <1>3, <2>1, <2>2, Finishes DEF Continue
  <2>3. CASE ~(ended \/ (~req.findAll /\ Len(found) >= PerPage + 1))
    BY <1>1, <1>3, <2>1, <2>3, GoesOn DEF Continue
  <2>. QED
    BY <2>2, <2>3
<1>. QED
  BY <1>2, <1>3

-----------------------------------------------------------------------------
(* The commands.                                                           *)

\* Every walk reads each bucket from its cursor, from an earlier one when it is set back.
LEMMA ScanKeeps ==
  ASSUME Inv, Scan
  PROVE  Inv'
<1>1. pc = "scan" /\ ~ByKey(counting) /\ Same
  BY DEF Scan, Individual, ByKey, Same
<1>2. PICK back \in {0, 1}, upto \in 1 .. Buckets :
        /\ back <= cursor % Buckets /\ (cursor % Buckets) - back < upto
        /\ quiet' = (quiet /\ back = 0)
        /\ shrinks + back <= MaxShrinks /\ shrinks' = shrinks + back
        /\ Read(results, ScanReply((cursor % Buckets) - back, upto), upto = Buckets, upto)
  BY DEF Scan
<1>. DEFINE from == (cursor % Buckets) - back
            read == {k \in Present : BucketOf[k] \in from .. (upto - 1)}
            keys == ScanReply(from, upto)
            ended == upto = Buckets
<1>3. /\ Buckets \in Nat \ {0} /\ BucketOf \in [Keys -> 0 .. (Buckets - 1)] /\ IsFiniteSet(Keys)
  BY ScanAssumption
<1>4. /\ cursor \in Nat /\ quiet' \in BOOLEAN /\ results \in Seq(Items)
      /\ req \in Requests /\ batch = <<>> /\ stable \subseteq Present
  BY <1>1, <1>2 DEF Inv, TypeOK, Stages
<1>5. from \in Int /\ (cursor < Buckets => from = cursor - back)
  <2>1. cursor % Buckets \in 0 .. (Buckets - 1) /\ (cursor < Buckets => cursor % Buckets = cursor)
    BY <1>4, Cursors
  <2>2. back \in Int
    OBVIOUS
  <2>. QED
    BY <1>3, <2>1, <2>2
<1>6. keys \in Seq(Keys) /\ IsInjective(keys) /\ Range(keys) = read
  <2>1. read \in SUBSET Keys
    BY DEF Present
  <2>2. IsFiniteSet(read)
    BY <1>3, <2>1, FS_Subset
  <2>3. keys = SetToSeq(read)
    BY DEF ScanReply
  <2>. HIDE DEF read, keys
  <2>4. keys \in Seq(read) /\ IsInjective(keys) /\ Range(keys) = read
    BY <2>2, <2>3, Listing
  <2>5. keys \in Seq(Keys)
    BY <2>1, <2>4, SeqMonotonic
  <2>. QED
    BY <2>4, <2>5
<1>7. /\ Found(results, <<>>, cursor)
      /\ Placed(counting, FALSE, cursor)
      /\ Covers(counting, results, <<>>, FALSE, cursor)
      /\ Counts(counting, quiet, results, <<>>, FALSE, cursor)
  <2>1. (pc = "get" /\ last) = FALSE
    BY <1>1
  <2>. QED
    BY <1>1, <1>4, <2>1 DEF Inv, Searching
<1>8. Range(<<>>) = {}
  BY DEF Range
<1>. HIDE DEF from, keys
<1>9. Found(results, keys, upto)
  BY <1>2, <1>3, <1>6, <1>7 DEF Found
<1>10. Placed(counting, ended, upto)
  BY <1>2, <1>3 DEF Placed
<1>11. Covers(counting, results, keys, ended, upto)
  <2>. SUFFICES ASSUME ~counting, Claims, NEW k \in stable \cap Asked
                PROVE  k \in KeysOf(results) \cup Range(keys) \/ (~ended /\ k \in Ahead(counting, upto))
    BY DEF Covers
  <2>1. Walks(counting)
    BY <1>1 DEF Walks, ByKey, Asked
  <2>2. cursor < Buckets /\ from <= cursor
    BY <1>2, <1>4, <1>5, <1>7, <2>1 DEF Placed
  <2>3. k \in KeysOf(results) \/ k \in Ahead(counting, cursor)
    BY <1>7, <1>8 DEF Covers
  <2>4. k \in Present /\ k \in Keys
    BY <1>4 DEF Present
  <2>5. BucketOf[k] \in 0 .. (Buckets - 1)
    BY <1>3, <2>4
  <2>6. ASSUME k \in Ahead(counting, cursor)
        PROVE  k \in read \/ (~ended /\ k \in Ahead(counting, upto))
    <3>1. BucketOf[k] >= cursor
      BY <1>1, <2>6 DEF Ahead
    <3>2. CASE BucketOf[k] < upto
      BY <1>3, <1>4, <1>5, <2>2, <2>4, <2>5, <3>1, <3>2
    <3>3. CASE BucketOf[k] >= upto
      BY <1>1, <1>3, <2>4, <2>5, <3>3 DEF Ahead
    <3>. QED
      BY <1>2, <1>3, <2>5, <3>2, <3>3
  <2>. QED
    BY <1>6, <2>3, <2>6
<1>12. Distinct(counting, results, keys, ended, upto)
  BY <1>1 DEF Distinct
<1>13. Counts(counting, quiet', results, keys, ended, upto)
  <2>. SUFFICES ASSUME counting, quiet', ~useHashmap
                PROVE  /\ Once(results, keys)
                       /\ \A k \in Keys :
                            k \in KeysOf(results) \cup (Range(keys) \cap Range(req.keys)) <=>
                              k \in Present \cap Range(req.keys) /\ (ended \/ k \in Upto(counting, upto))
    BY DEF Counts
  <2>1. quiet /\ from = cursor
    <3>1. quiet /\ back = 0
      BY <1>2
    <3>2. cursor < Buckets
      BY <1>7 DEF Placed, Walks
    <3>. QED
      BY <1>4, <1>5, <3>1, <3>2
  <2>2. /\ Once(results, <<>>)
        /\ \A k \in Keys : k \in KeysOf(results) <=>
                            k \in Present \cap Range(req.keys) /\ BucketOf[k] < cursor
    BY <1>1, <1>7, <1>8, <2>1 DEF Counts, Upto
  <2>3. \A k \in Keys : k \in read <=> k \in Present /\ BucketOf[k] >= cursor /\ BucketOf[k] < upto
    BY <1>2, <1>3, <1>4, <2>1
  <2>4. \A k \in Keys : /\ ended \/ k \in Upto(counting, upto) <=> BucketOf[k] < upto
                        /\ BucketOf[k] < cursor => BucketOf[k] < upto
    BY <1>1, <1>2, <1>3, <1>4, <2>1 DEF Upto, from
  <2>5. KeysOf(results) \subseteq Keys
    <3>1. Range(req.keys) \subseteq Keys
      BY <1>4, Filters
    <3>. QED
      BY <1>7, <3>1 DEF Found
  <2>6. Once(results, keys)
    <3>1. \A k \in Keys : ~(k \in KeysOf(results) /\ k \in read)
      BY <1>3, <1>4, <2>2, <2>3
    <3>. HIDE DEF read
    <3>. QED
      BY <1>6, <2>2, <2>5, <3>1 DEF Once
  <2>7. ASSUME NEW k \in Keys
        PROVE  k \in KeysOf(results) \cup (Range(keys) \cap Range(req.keys)) <=>
                 k \in Present \cap Range(req.keys) /\ (ended \/ k \in Upto(counting, upto))
    <3>1. BucketOf[k] \in Int
      BY <1>3
    <3>2. k \in read <=> k \in Present /\ BucketOf[k] >= cursor /\ BucketOf[k] < upto
      BY <2>3
    <3>3. /\ ended \/ k \in Upto(counting, upto) <=> BucketOf[k] < upto
          /\ BucketOf[k] < cursor => BucketOf[k] < upto
      BY <2>4
    <3>4. k \in KeysOf(results) <=> k \in Present \cap Range(req.keys) /\ BucketOf[k] < cursor
      BY <2>2
    <3>5. k \in Range(keys) <=> k \in read
      BY <1>6
    <3>6. BucketOf[k] < cursor \/ BucketOf[k] >= cursor
      BY <1>4, <3>1
    <3>. HIDE DEF read, ended
    <3>. QED
      BY <3>2, <3>3, <3>4, <3>5, <3>6
  <2>. HIDE DEF read, ended
  <2>. QED
    BY <2>6, <2>7
<1>14. Leaves(results, keys, ended, upto)
  BY <1>9, <1>10, <1>11, <1>12, <1>13 DEF Leaves
<1>15. Read(results, keys, ended, upto) /\ ended \in BOOLEAN
  BY <1>2 DEF from, keys
<1>16. shrinks' \in 0 .. MaxShrinks
  BY <1>2, ScanAssumption DEF Inv, TypeOK
<1>. HIDE DEF ended
<1>. QED
  BY <1>1, <1>4, <1>14, <1>15, <1>16, Reads

\* Part of a list.
LEMMA Slices ==
  ASSUME NEW list \in Seq(Keys), NEW a \in Nat, NEW b \in Nat, b <= Len(list)
  PROVE  /\ SubSeq(list, a + 1, b) \in Seq(Keys)
         /\ \A k : k \in Range(SubSeq(list, a + 1, b)) <=>
                  \E i \in DOMAIN list : a < i /\ i <= b /\ list[i] = k
         /\ IsInjective(list) => IsInjective(SubSeq(list, a + 1, b))
<1>. DEFINE part == SubSeq(list, a + 1, b)
<1>1. Len(list) \in Nat /\ DOMAIN list = 1 .. Len(list)
  BY LenProperties
<1>2. \A i \in (a + 1) .. b : list[i] \in Keys
  BY <1>1, ElementOfSeq
<1>3. /\ part \in Seq(Keys)
      /\ Len(part) = IF a + 1 <= b THEN b - (a + 1) + 1 ELSE 0
      /\ \A i \in 1 .. b - (a + 1) + 1 : part[i] = list[a + 1 + i - 1]
  BY <1>2, SubSeqProperties
<1>4. DOMAIN part = 1 .. Len(part)
  BY <1>3, LenProperties
<1>. HIDE DEF part
<1>5. ASSUME NEW i \in DOMAIN part
      PROVE  i \in Nat /\ a + i \in DOMAIN list /\ a + i <= b /\ part[i] = list[a + i]
  <2>1. i \in 1 .. b - (a + 1) + 1
    BY <1>3, <1>4
  <2>2. part[i] = list[a + i]
    <3>1. part[i] = list[a + 1 + i - 1]
      BY <1>3, <2>1
    <3>2. a + 1 + i - 1 = a + i
      BY <2>1
    <3>. QED
      BY <3>1, <3>2
  <2>3. i \in Nat /\ a + i <= b /\ a + i >= 1 /\ a + i <= Len(list)
    BY <1>1, <2>1
  <2>. QED
    BY <1>1, <2>2, <2>3
<1>6. ASSUME NEW i \in DOMAIN list, a < i, i <= b
      PROVE  i - a \in DOMAIN part /\ part[i - a] = list[i]
  <2>1. i - a \in 1 .. b - (a + 1) + 1 /\ a + 1 + (i - a) - 1 = i /\ a + 1 <= b
    BY <1>1, <1>6
  <2>. QED
    BY <1>3, <1>4, <2>1
<1>7. ASSUME NEW k
      PROVE  k \in Range(part) <=> \E i \in DOMAIN list : a < i /\ i <= b /\ list[i] = k
  <2>1. ASSUME NEW i \in DOMAIN part, part[i] = k
        PROVE  \E j \in DOMAIN list : a < j /\ j <= b /\ list[j] = k
    <3>1. a < a + i
      BY <1>4, <1>5
    <3>. QED
      BY <1>5, <2>1, <3>1
  <2>2. ASSUME NEW i \in DOMAIN list, a < i, i <= b, list[i] = k
        PROVE  k \in Range(part)
    BY <1>6, <2>2 DEF Range
  <2>. QED
    BY <2>1, <2>2 DEF Range
<1>8. IsInjective(list) => IsInjective(part)
  BY <1>5 DEF IsInjective
<1>. QED
  BY <1>3, <1>7, <1>8 DEF part

LEMMA PageSizesAreNumbers ==
  ASSUME req \in Requests
  PROVE  PerPage \in Nat /\ req.page \in Nat /\ req.perPage \in Nat
<1>1. req.perPage \in PageSizes /\ req.page \in 1 .. MaxPage
  BY DEF Requests
<1>2. PageSizes \subseteq Nat /\ MaxPage \in Nat /\ DefaultPerPage \in Nat
  BY ScanAssumption
<1>3. req.page \in Nat
  BY <1>1, <1>2
<1>. QED
  BY <1>1, <1>2, <1>3 DEF PerPage

\* A search by key reads what follows its cursor and has not read it before.
LEMMA FetchKeeps ==
  ASSUME Inv, Fetch
  PROVE  Inv'
<1>. DEFINE limit == IF req.findAll THEN Len(req.keys) ELSE PerPage + 1
            ended == req.findAll \/ cursor + limit > Len(req.keys)
            upto == IF ended THEN Len(req.keys) ELSE cursor + limit
            keys == SubSeq(req.keys, cursor + 1, upto)
            next == cursor + limit
<1>1. pc = "scan" /\ ByKey(counting) /\ ~counting /\ req.individualSearch /\ Same
      /\ quiet' = quiet /\ shrinks' = shrinks
  BY DEF Fetch, Individual, ByKey, Same
<1>2. Read(results, keys, ended, next)
  BY DEF Fetch
<1>3. /\ cursor \in Nat /\ quiet' \in BOOLEAN /\ shrinks' \in 0 .. MaxShrinks
      /\ req \in Requests /\ req.findAll \in BOOLEAN /\ batch = <<>>
  BY <1>1 DEF Inv, TypeOK, Stages, Requests
<1>4. req.keys \in Seq(Keys) /\ IsInjective(req.keys) /\ PerPage \in Nat
  BY <1>3, Filters, PageSizesAreNumbers
<1>5. Len(req.keys) \in Nat /\ DOMAIN req.keys = 1 .. Len(req.keys)
  BY <1>4, LenProperties
<1>6. limit \in Nat /\ ended \in BOOLEAN
  BY <1>3, <1>4, <1>5
<1>. HIDE DEF limit
<1>7. /\ next \in Nat /\ upto \in Nat /\ upto <= Len(req.keys)
      /\ ended => upto = Len(req.keys)
      /\ ~ended => upto = next
      /\ cursor <= next
  BY <1>3, <1>5, <1>6
<1>. HIDE DEF ended, upto, next
<1>8. /\ keys \in Seq(Keys) /\ IsInjective(keys)
      /\ \A k : k \in Range(keys) <=> \E i \in DOMAIN req.keys : cursor < i /\ i <= upto /\ req.keys[i] = k
  BY <1>3, <1>4, <1>7, Slices
<1>. HIDE DEF keys
<1>9. Range(<<>>) = {}
  BY DEF Range
<1>10. /\ Found(results, <<>>, cursor)
       /\ Covers(counting, results, <<>>, FALSE, cursor)
       /\ Distinct(counting, results, <<>>, FALSE, cursor)
  <2>1. (pc = "get" /\ last) = FALSE
    BY <1>1
  <2>. QED
    BY <1>1, <1>3, <2>1 DEF Inv, Searching
<1>11. Found(results, keys, next)
  BY <1>7, <1>8, <1>10 DEF Found
<1>12. Placed(counting, ended, next)
  BY <1>1 DEF Placed, Walks
<1>13. Covers(counting, results, keys, ended, next)
  <2>. SUFFICES ASSUME ~counting, Claims, NEW k \in stable \cap Asked, k \notin KeysOf(results)
                PROVE  k \in Range(keys) \/ (~ended /\ k \in Ahead(counting, next))
    BY DEF Covers
  <2>1. k \in Keys /\ \E i \in DOMAIN req.keys : i > cursor /\ req.keys[i] = k
    BY <1>1, <1>9, <1>10 DEF Covers, Ahead
  <2>2. PICK i \in DOMAIN req.keys : i > cursor /\ req.keys[i] = k
    BY <2>1
  <2>3. CASE i <= upto
    BY <1>3, <1>5, <1>8, <2>2, <2>3
  <2>4. CASE i > upto
    BY <1>1, <1>5, <1>7, <2>1, <2>2, <2>4 DEF Ahead
  <2>. QED
    BY <1>5, <1>7, <2>3, <2>4
<1>14. Distinct(counting, results, keys, ended, next)
  <2>1. /\ Once(results, <<>>)
        /\ KeysOf(results) \subseteq Upto(counting, cursor)
    BY <1>1, <1>10 DEF Distinct
  <2>2. \A k \in KeysOf(results) : k \in Keys /\ \E i \in DOMAIN req.keys : i <= cursor /\ req.keys[i] = k
    BY <1>1, <2>1 DEF Upto
  <2>3. ASSUME NEW k \in KeysOf(results), k \in Range(keys) PROVE FALSE
    <3>1. PICK i \in DOMAIN req.keys : i <= cursor /\ req.keys[i] = k
      BY <2>2
    <3>2. PICK j \in DOMAIN req.keys : cursor < j /\ req.keys[j] = k
      BY <1>8, <2>3
    <3>3. i = j
      BY <1>4, <3>1, <3>2 DEF IsInjective
    <3>. QED
      BY <1>3, <1>5, <3>1, <3>2, <3>3
  <2>4. Once(results, keys)
    BY <1>8, <2>1, <2>3 DEF Once
  <2>5. ~ended => KeysOf(results) \subseteq Upto(counting, next)
    <3>1. \A i \in DOMAIN req.keys : i <= cursor => i <= next
      BY <1>3, <1>5, <1>7
    <3>. QED
      BY <1>1, <2>2, <3>1 DEF Upto
  <2>6. ~ended => Range(keys) \subseteq Upto(counting, next)
    <3>1. Range(keys) \subseteq Keys
      BY <1>8, RangeOfSeq
    <3>. QED
      BY <1>1, <1>7, <1>8, <3>1 DEF Upto
  <2>. QED
    BY <2>4, <2>5, <2>6 DEF Distinct
<1>15. Counts(counting, quiet', results, keys, ended, next)
  BY <1>1 DEF Counts
<1>16. Leaves(results, keys, ended, next)
  BY <1>11, <1>12, <1>13, <1>14, <1>15 DEF Leaves
<1>. QED
  BY <1>1, <1>2, <1>3, <1>6, <1>16, Reads

\* What is found is no longer to be read.
LEMMA Moves ==
  ASSUME NEW found \in Seq(Items), NEW keys \in Seq(Keys), keys # <<>>, Once(found, keys)
  PROVE  /\ Once(found, Tail(keys))
         /\ \A item \in Items : item.key = Head(keys) => Once(Append(found, item), Tail(keys))
<1>1. /\ Head(keys) \in Range(keys) /\ Range(Tail(keys)) \subseteq Range(keys)
      /\ IsInjective(Tail(keys)) /\ Head(keys) \notin Range(Tail(keys))
  BY Heads DEF Once
<1>2. Once(found, Tail(keys))
  BY <1>1 DEF Once
<1>3. ASSUME NEW item \in Items, item.key = Head(keys)
      PROVE  Once(Append(found, item), Tail(keys))
  <2>. DEFINE more == Append(found, item)
  <2>1. /\ more \in Seq(Items) /\ Len(more) = Len(found) + 1
        /\ \A i \in 1 .. Len(found) : more[i] = found[i]
        /\ more[Len(found) + 1] = item
    BY AppendProperties
  <2>2. /\ Len(found) \in Nat /\ DOMAIN found = 1 .. Len(found)
        /\ DOMAIN more = 1 .. Len(more)
    BY <2>1, LenProperties
  <2>3. KeysOf(more) = KeysOf(found) \cup {Head(keys)}
    BY <1>3, Appended
  <2>. HIDE DEF more
  <2>4. DOMAIN more = DOMAIN found \cup {Len(found) + 1} /\ Len(found) + 1 \notin DOMAIN found
    BY <2>1, <2>2
  <2>5. /\ \A i \in DOMAIN found : more[i] = found[i] /\ found[i].key \in KeysOf(found)
        /\ more[Len(found) + 1].key = Head(keys)
    BY <1>3, <2>1, <2>2 DEF KeysOf
  <2>6. Head(keys) \notin KeysOf(found)
    BY <1>1 DEF Once
  <2>7. \A i, j \in DOMAIN found : found[i].key = found[j].key => i = j
    BY DEF Once
  <2>8. \A i, j \in DOMAIN more : more[i].key = more[j].key => i = j
    BY <2>4, <2>5, <2>6, <2>7
  <2>9. KeysOf(more) \cap Range(Tail(keys)) = {}
    BY <1>1, <1>2, <2>3 DEF Once
  <2>. QED
    BY <1>1, <2>8, <2>9 DEF Once, more
<1>. QED
  BY <1>2, <1>3

LEMMA AskedKeys ==
  ASSUME req \in Requests
  PROVE  Asked \subseteq Range(req.keys)
<1>1. req.keys \in Seq(Keys) /\ (req.page - 1) * req.perPage \in Nat
  BY Filters, Offsets
<1>. DEFINE from == (req.page - 1) * req.perPage
<1>2. Len(req.keys) \in Nat /\ from \in Nat
  BY <1>1, LenProperties
<1>. HIDE DEF from
<1>3. Range(SubSeq(req.keys, from + 1, Len(req.keys))) \subseteq Range(req.keys)
  BY <1>1, <1>2, Slices DEF Range
<1>. QED
  BY <1>3 DEF Asked, from

\* A value that is stored and asked for is found, and nothing else is.
LEMMA GetKeeps ==
  ASSUME Inv, Get
  PROVE  Inv'
<1>. DEFINE k == Head(batch)
            takes == Finds(k) /\ k \in Range(req.keys)
            found == IF takes THEN Append(results, ItemOf(k)) ELSE results
            keys == Tail(batch)
<1>1. pc = "get" /\ Same /\ quiet' = quiet /\ shrinks' = shrinks
  BY DEF Get, Same
<1>2. Read(found, keys, last, cursor)
  BY DEF Get
<1>3. /\ last \in BOOLEAN /\ quiet' \in BOOLEAN /\ shrinks' \in 0 .. MaxShrinks
      /\ batch \in Seq(Keys) /\ batch # <<>> /\ results \in Seq(Items) /\ req \in Requests
      /\ {ItemOf(j) : j \in Present} \subseteq seen /\ stable \subseteq Present
  BY <1>1 DEF Inv, TypeOK, Stages
<1>4. /\ Found(results, batch, cursor)
      /\ Placed(counting, last, cursor)
      /\ Covers(counting, results, batch, last, cursor)
      /\ Distinct(counting, results, batch, last, cursor)
      /\ Counts(counting, quiet, results, batch, last, cursor)
  <2>1. (pc = "get" /\ last) = last
    BY <1>1, <1>3
  <2>. QED
    BY <1>1, <2>1 DEF Inv, Searching
<1>5. /\ k \in Keys /\ keys \in Seq(Keys) /\ Range(batch) = {k} \cup Range(keys)
  BY <1>3, Heads
<1>6. takes \in BOOLEAN /\ (Finds(k) => k \in Present)
  BY <1>5 DEF Finds, Present
<1>7. k \in Present => ItemOf(k) \in Items /\ ItemOf(k).key = k /\ ItemOf(k) \in seen
  <2>1. k \in Present => stored[k] \in 0 .. MaxWrites
    BY <1>5 DEF Inv, TypeOK, Present
  <2>. QED
    BY <1>3, <1>5, <2>1 DEF ItemOf, Items
<1>8. /\ found \in Seq(Items)
      /\ Range(found) = Range(results) \cup (IF takes THEN {ItemOf(k)} ELSE {})
      /\ KeysOf(found) = KeysOf(results) \cup (IF takes THEN {k} ELSE {})
  <2>1. CASE takes
    BY <1>3, <1>6, <1>7, <2>1, Appended
  <2>2. CASE ~takes
    BY <1>3, <2>2
  <2>. QED
    BY <1>6, <2>1, <2>2
<1>9. Once(results, batch) => Once(found, keys)
  <2>1. CASE takes
    BY <1>3, <1>6, <1>7, <2>1, Moves
  <2>2. CASE ~takes
    BY <1>3, <2>2, Moves
  <2>. QED
    BY <1>6, <2>1, <2>2
<1>10. /\ takes => ItemOf(k) \in seen /\ k \in Range(req.keys)
       /\ takes <=> Finds(k) /\ k \in Range(req.keys)
  BY <1>6, <1>7
<1>. HIDE DEF k, found, keys, takes
<1>11. Found(found, keys, cursor)
  BY <1>4, <1>5, <1>8, <1>10 DEF Found
<1>12. Covers(counting, found, keys, last, cursor)
  <2>. SUFFICES ASSUME ~counting, Claims, NEW j \in stable \cap Asked
                PROVE  j \in KeysOf(found) \cup Range(keys) \/ (~last /\ j \in Ahead(counting, cursor))
    BY DEF Covers
  <2>1. j \in KeysOf(results) \cup Range(batch) \/ (~last /\ j \in Ahead(counting, cursor))
    BY <1>4 DEF Covers
  <2>2. ASSUME j = k PROVE takes
    <3>1. j \in Range(req.keys) /\ stored[j] # None
      BY <1>3, AskedKeys DEF Present
    <3>. QED
      BY <1>10, <2>2, <3>1 DEF Finds, Individual, Claims
  <2>. QED
    BY <1>5, <1>8, <2>1, <2>2
<1>13. Distinct(counting, found, keys, last, cursor)
  <2>1. k \in Range(batch) /\ KeysOf(found) \cup Range(keys) \subseteq KeysOf(results) \cup Range(batch)
    BY <1>5, <1>8
  <2>. QED
    BY <1>4, <1>9, <2>1 DEF Distinct
<1>14. Counts(counting, quiet', found, keys, last, cursor)
  <2>. SUFFICES ASSUME counting, quiet, ~useHashmap
                PROVE  /\ Once(found, keys)
                       /\ \A j \in Keys :
                            j \in KeysOf(found) \cup (Range(keys) \cap Range(req.keys)) <=>
                              j \in Present \cap Range(req.keys) /\ (last \/ j \in Upto(counting, cursor))
    BY <1>1 DEF Counts
  <2>1. /\ Once(results, batch)
        /\ \A j \in Keys :
             j \in KeysOf(results) \cup (Range(batch) \cap Range(req.keys)) <=>
               j \in Present \cap Range(req.keys) /\ (last \/ j \in Upto(counting, cursor))
    BY <1>4 DEF Counts
  <2>2. k \in Range(req.keys) => takes
    <3>1. k \in Range(req.keys) => k \in Present
      BY <1>5, <2>1
    <3>. QED
      BY <1>10, <3>1 DEF Finds, Present
  <2>3. KeysOf(found) \cup (Range(keys) \cap Range(req.keys))
          = KeysOf(results) \cup (Range(batch) \cap Range(req.keys))
    BY <1>5, <1>8, <1>10, <2>2
  <2>. QED
    BY <1>9, <2>1, <2>3
<1>15. Leaves(found, keys, last, cursor)
  BY <1>4, <1>11, <1>12, <1>13, <1>14 DEF Leaves
<1>16. Read(found, keys, last, cursor)
  BY <1>2 DEF found, keys, takes, k
<1>. QED
  BY <1>1, <1>3, <1>15, <1>16, Reads

-----------------------------------------------------------------------------
(* The beginning of a find, and others.                                    *)

LEMMA StoredItems ==
  ASSUME TypeOK
  PROVE  {ItemOf(k) : k \in Present} \subseteq Items
<1>1. \A k \in Present : k \in Keys /\ stored[k] \in 0 .. MaxWrites
  BY DEF TypeOK, Present
<1>. QED
  BY <1>1 DEF ItemOf, Items

\* All that a find is asked for is ahead of it.
LEMMA FindKeeps ==
  ASSUME Inv, NEW r \in Requests, Find(r)
  PROVE  Inv'
<1>. DEFINE at == (r.page - 1) * r.perPage
<1>1. at \in Nat /\ r.keys \in Seq(Keys) /\ Len(r.keys) \in Nat
  BY Offsets, Filters, LenProperties
<1>2. r.page = 1 => at = 0
  <2>1. r.perPage \in PageSizes
    BY DEF Requests
  <2>2. r.perPage \in Nat
    BY <2>1, ScanAssumption
  <2>. QED
    BY <2>2
<1>3. /\ req' = r /\ pc' = "scan" /\ cursor' = at /\ results' = <<>> /\ counting' = FALSE
      /\ answer' = None /\ stable' = Present /\ seen' = {ItemOf(k) : k \in Present} /\ quiet' = TRUE
      /\ UNCHANGED <<useHashmap, stored, writes, shrinks, batch, last>>
  BY DEF Find
<1>4. batch = <<>>
  BY DEF Inv, Stages, Find
<1>5. Present' = Present /\ {ItemOf(k) : k \in Present}' = {ItemOf(k) : k \in Present}
  BY <1>3 DEF Present, ItemOf
<1>6. (pc = "get" /\ last)' = FALSE
  BY <1>3
<1>7. Range(<<>>) = {} /\ KeysOf(<<>>) = {} /\ IsInjective(<<>>) /\ DOMAIN <<>> = {}
  BY DEF Range, KeysOf, IsInjective
<1>. HIDE DEF at
<1>8. TypeOK'
  <2>1. results' \in Seq(Items) /\ seen' \subseteq Items /\ stable' \subseteq Keys
    BY <1>3, EmptySeq, StoredItems DEF Inv, Present
  <2>. QED
    BY <1>1, <1>3, <2>1 DEF Inv, TypeOK
<1>9. Stages'
  BY <1>3, <1>4, <1>5 DEF Stages
<1>10. Searching'
  <2>1. Found(results, batch, cursor)'
    BY <1>1, <1>3, <1>4, <1>7, EmptySeq DEF Found
  <2>2. Placed(counting, pc = "get" /\ last, cursor)'
    BY <1>2, <1>3, ScanAssumption DEF Placed, Walks
  <2>3. Covers(counting, results, batch, pc = "get" /\ last, cursor)'
    <3>1. ASSUME NEW k \in stable' \cap Asked' PROVE k \in Ahead(counting, cursor)'
      <4>1. k \in Keys
        BY <1>3 DEF Present
      <4>2. CASE r.individualSearch
        <5>1. k \in Range(SubSeq(r.keys, at + 1, Len(r.keys)))
          <6>1. req'.individualSearch /\ (req'.page - 1) * req'.perPage = at /\ req'.keys = r.keys
            BY <1>3, <4>2 DEF at
          <6>. QED
            BY <3>1, <6>1 DEF Asked
        <5>2. \E i \in DOMAIN r.keys : i > at /\ r.keys[i] = k
          <6>. DEFINE n == Len(r.keys)
          <6>1. n \in Nat /\ n <= Len(r.keys) /\ k \in Range(SubSeq(r.keys, at + 1, n))
            BY <1>1, <5>1
          <6>. HIDE DEF n
          <6>2. \A j : j \in Range(SubSeq(r.keys, at + 1, n)) <=>
                       \E i \in DOMAIN r.keys : at < i /\ i <= n /\ r.keys[i] = j
            BY <1>1, <6>1, Slices
          <6>. QED
            BY <6>1, <6>2
        <5>. QED
          BY <1>3, <4>1, <4>2, <5>2 DEF Ahead, ByKey
      <4>3. CASE ~r.individualSearch
        <5>1. at = 0
          BY <1>2, <1>3, <3>1, <4>3 DEF Asked
        <5>2. BucketOf[k] >= 0
          BY <4>1, ScanAssumption
        <5>. QED
          BY <1>3, <4>1, <4>3, <5>1, <5>2 DEF Ahead, ByKey
      <4>. QED
        BY <4>2, <4>3
    <3>. QED
      BY <1>6, <3>1 DEF Covers
  <2>4. Distinct(counting, results, batch, pc = "get" /\ last, cursor)'
    BY <1>3, <1>4, <1>7 DEF Distinct, Once
  <2>5. Counts(counting, quiet, results, batch, pc = "get" /\ last, cursor)'
    BY <1>3 DEF Counts
  <2>. QED
    BY <2>1, <2>2, <2>3, <2>4, <2>5 DEF Searching
<1>11. Answered' /\ AnswersHonest'
  BY <1>3 DEF Answered, AnswersHonest
<1>. QED
  BY <1>8, <1>9, <1>10, <1>11 DEF Inv

\* Others add to what was seen and take from what stayed.
LEMMA OthersKeep ==
  ASSUME Inv,
         UNCHANGED <<useHashmap, shrinks, pc, req, counting, cursor, batch, last, results, answer>>,
         quiet' = FALSE, stable' \subseteq stable, stable' \subseteq Present', seen \subseteq seen',
         stored' \in [Keys -> 0 .. MaxWrites \cup {None}], writes' \in 0 .. MaxWrites,
         seen' \subseteq Items, pc # "idle" => {ItemOf(k) : k \in Present}' \subseteq seen'
  PROVE  Inv'
<1>. DEFINE over == pc = "get" /\ last
<1>1. over' = over /\ Asked' = Asked /\ Claims' = Claims
  BY DEF Asked, Claims
<1>2. TypeOK'
  <2>1. stable' \subseteq Keys
    BY DEF Inv, TypeOK
  <2>. QED
    BY <2>1 DEF Inv, TypeOK
<1>3. Stages'
  BY DEF Inv, Stages
<1>4. Searching'
  <2>. SUFFICES ASSUME pc # "idle"
                PROVE  /\ Found(results, batch, cursor)'
                       /\ Placed(counting, over, cursor)'
                       /\ Covers(counting, results, batch, over, cursor)'
                       /\ Distinct(counting, results, batch, over, cursor)'
                       /\ Counts(counting, quiet, results, batch, over, cursor)'
    BY DEF Searching
  <2>1. /\ Found(results, batch, cursor)
        /\ Placed(counting, over, cursor)
        /\ Covers(counting, results, batch, over, cursor)
        /\ Distinct(counting, results, batch, over, cursor)
    BY DEF Inv, Searching
  <2>. HIDE DEF over
  <2>2. Found(results, batch, cursor)'
    BY <2>1 DEF Found
  <2>3. Placed(counting, over, cursor)'
    BY <1>1, <2>1 DEF Placed, Walks
  <2>4. Covers(counting, results, batch, over, cursor)'
    BY <1>1, <2>1 DEF Covers, Ahead, ByKey
  <2>5. Distinct(counting, results, batch, over, cursor)'
    BY <1>1, <2>1 DEF Distinct, Once, Upto, ByKey
  <2>6. Counts(counting, quiet, results, batch, over, cursor)'
    BY DEF Counts
  <2>. QED
    BY <2>2, <2>3, <2>4, <2>5, <2>6
<1>5. ItemsWereStored /\ CompleteUnlessMore /\ NoRepeats => (ItemsWereStored /\ CompleteUnlessMore /\ NoRepeats)'
  BY <1>1 DEF ItemsWereStored, CompleteUnlessMore, NoRepeats
<1>6. Answered'
  BY <1>5 DEF Inv, Answered
<1>7. AnswersHonest'
  <2>1. TotalCounts'
    BY DEF TotalCounts
  <2>. QED
    BY <1>5, <2>1 DEF Inv, AnswersHonest
<1>. QED
  BY <1>2, <1>3, <1>4, <1>6, <1>7 DEF Inv

LEMMA PutKeeps ==
  ASSUME Inv, NEW k \in Keys, Put(k)
  PROVE  Inv'
<1>. DEFINE new == [key |-> k, write |-> writes + 1]
<1>1. writes + 1 \in 0 .. MaxWrites /\ writes + 1 # None
  BY ScanAssumption DEF Inv, TypeOK, Put
<1>2. /\ stored' = [stored EXCEPT ![k] = writes + 1] /\ writes' = writes + 1
      /\ seen' = seen \cup {new} /\ stable' = stable
  BY DEF Put
<1>3. stored \in [Keys -> 0 .. MaxWrites \cup {None}] /\ seen \subseteq Items /\ stable \subseteq Present
  BY DEF Inv, TypeOK, Stages
<1>4. /\ stored' \in [Keys -> 0 .. MaxWrites \cup {None}]
      /\ stored'[k] = writes + 1 /\ \A j \in Keys : j # k => stored'[j] = stored[j]
  BY <1>1, <1>2, <1>3
<1>5. new \in Items
  BY <1>1 DEF Items
<1>6. stable' \subseteq Present'
  <2>1. \A j \in Present : j \in Present'
    BY <1>1, <1>4 DEF Present
  <2>. QED
    BY <1>2, <1>3, <2>1
<1>7. ASSUME pc # "idle" PROVE {ItemOf(j) : j \in Present}' \subseteq seen'
  <2>1. {ItemOf(j) : j \in Present} \subseteq seen
    BY <1>7 DEF Inv, Stages
  <2>2. ASSUME NEW j \in Present' PROVE [key |-> j, write |-> stored'[j]] \in seen'
    <3>1. CASE j = k
      BY <1>2, <1>4, <3>1
    <3>2. CASE j # k
      <4>1. j \in Present /\ stored'[j] = stored[j]
        BY <1>4, <3>2 DEF Present
      <4>. QED
        BY <1>2, <2>1, <4>1 DEF ItemOf
    <3>. QED
      BY <3>1, <3>2
  <2>. QED
    BY <2>2 DEF ItemOf
<1>8. quiet' = FALSE
      /\ UNCHANGED <<useHashmap, shrinks, pc, req, counting, cursor, batch, last, results, answer>>
  BY DEF Put
<1>9. writes' \in 0 .. MaxWrites /\ seen \subseteq seen' /\ seen' \subseteq Items /\ stable' \subseteq stable
  BY <1>1, <1>2, <1>3, <1>5
<1>. QED
  BY <1>4, <1>6, <1>7, <1>8, <1>9, OthersKeep

LEMMA DeleteKeeps ==
  ASSUME Inv, NEW k \in Keys, Delete(k)
  PROVE  Inv'
<1>1. /\ stored' = [stored EXCEPT ![k] = None] /\ writes' = writes
      /\ seen' = seen /\ stable' = stable \ {k} /\ quiet' = FALSE
      /\ UNCHANGED <<useHashmap, shrinks, pc, req, counting, cursor, batch, last, results, answer>>
  BY DEF Delete
<1>2. /\ stored \in [Keys -> 0 .. MaxWrites \cup {None}] /\ seen \subseteq Items /\ stable \subseteq Present
      /\ writes \in 0 .. MaxWrites
  BY DEF Inv, TypeOK, Stages
<1>3. /\ stored' \in [Keys -> 0 .. MaxWrites \cup {None}]
      /\ stored'[k] = None /\ \A j \in Keys : j # k => stored'[j] = stored[j]
  BY <1>1, <1>2
<1>4. \A j \in Keys : j \in Present' <=> j \in Present /\ j # k
  BY <1>3 DEF Present
<1>5. stable' \subseteq Present'
  BY <1>1, <1>2, <1>4 DEF Present
<1>6. ASSUME pc # "idle" PROVE {ItemOf(j) : j \in Present}' \subseteq seen'
  <2>1. {ItemOf(j) : j \in Present} \subseteq seen
    BY <1>6 DEF Inv, Stages
  <2>2. ASSUME NEW j \in Present' PROVE [key |-> j, write |-> stored'[j]] \in seen'
    <3>1. j \in Present /\ stored'[j] = stored[j]
      BY <1>3, <1>4 DEF Present
    <3>. QED
      BY <1>1, <2>1, <3>1 DEF ItemOf
  <2>. QED
    BY <2>2 DEF ItemOf
<1>7. writes' \in 0 .. MaxWrites /\ seen \subseteq seen' /\ seen' \subseteq Items /\ stable' \subseteq stable
  BY <1>1, <1>2
<1>. QED
  BY <1>1, <1>3, <1>5, <1>6, <1>7, OthersKeep

LEMMA InvStep == Inv /\ [Next]_vars => Inv'
<1>. SUFFICES ASSUME Inv, [Next]_vars PROVE Inv'
  OBVIOUS
<1>1. CASE Scan
  BY <1>1, ScanKeeps
<1>2. CASE Fetch
  BY <1>2, FetchKeeps
<1>3. CASE Get
  BY <1>3, GetKeeps
<1>4. CASE \E r \in Requests : Find(r)
  BY <1>4, FindKeeps
<1>5. CASE \E k \in Keys : Put(k)
  BY <1>5, PutKeeps
<1>6. CASE \E k \in Keys : Delete(k)
  BY <1>6, DeleteKeeps
<1>7. CASE UNCHANGED vars
  <2>. USE <1>7 DEF vars
  <2>1. TypeOK'
    BY DEF Inv, TypeOK
  <2>2. Present' = Present /\ Asked' = Asked /\ Claims' = Claims
        /\ {ItemOf(k) : k \in Present}' = {ItemOf(k) : k \in Present}
    BY DEF Present, ItemOf, Asked, Claims
  <2>3. Stages'
    BY <2>2 DEF Inv, Stages
  <2>4. Searching'
    BY <2>2 DEF Inv, Searching, Found, Placed, Walks, Covers, Distinct, Counts, Once, Upto, Ahead, ByKey
  <2>5. Answered' /\ AnswersHonest'
    BY <2>2 DEF Inv, Answered, AnswersHonest, ItemsWereStored, CompleteUnlessMore, NoRepeats, TotalCounts
  <2>. QED
    BY <2>1, <2>3, <2>4, <2>5 DEF Inv
<1>. QED
  BY <1>1, <1>2, <1>3, <1>4, <1>5, <1>6, <1>7 DEF Next, Step

\* The store's values, a find's list of keys to read and what it returns are of their types.
THEOREM TypeCorrect == Spec => []TypeOK
<1>1. Inv => TypeOK
  BY DEF Inv
<1>. QED
  BY InvInit, InvStep, <1>1, PTL DEF Spec

\* Whatever is written, deleted or walked twice between its commands, a find returns items
\* that were stored meanwhile and pass its filter, all of those that stayed or a full page
\* and that there is more, by key none twice, and the right total if nobody wrote.
THEOREM FindsAnswerHonestly == Spec => []AnswersHonest
<1>1. Inv => AnswersHonest
  BY DEF Inv
<1>. QED
  BY InvInit, InvStep, <1>1, PTL DEF Spec

-----------------------------------------------------------------------------
(* How far a find has to go.  Its walk, or its list of keys, is ahead of   *)
(* its cursor, and nothing is when the batch is the last.                  *)

Stage == IF pc = "idle" THEN 0 ELSE IF counting THEN 1 ELSE 2
SetBacks == MaxShrinks - shrinks
Way ==
  IF pc = "idle" \/ (pc = "get" /\ last) THEN 0
  ELSE IF Individual
       THEN IF cursor > Len(req.keys) THEN 1 ELSE Len(req.keys) + 1 - cursor
       ELSE IF cursor >= Buckets THEN Buckets + 1 ELSE Buckets - cursor
Values == IF pc = "get" THEN Len(batch) ELSE 0

StepsLeft == <<Stage, SetBacks, Way, Values>>

Less == {p \in Nat \X Nat : p[1] < p[2]}
Nearer == LexProductOrdering(Less, Nat, 4)

\* Every command of a find brings it nearer to its end, in an order without endless
\* descent, and nobody else sets it back.
CommandsBringNearer ==
  [][ /\ Step => <<StepsLeft', StepsLeft>> \in Nearer
      /\ ~Step /\ pc # "idle" => UNCHANGED StepsLeft ]_vars

LEMMA NoEndlessDescent == IsWellFoundedOn(Nearer, [1 .. 4 -> Nat])
<1>1. IsWellFoundedOn(Less, Nat)
  BY NatLessThanWellFounded DEF OpToRel, Less
<1>. QED
  BY <1>1, WFLexProductOrdering DEF Nearer

LEMMA Descends ==
  ASSUME NEW a \in Nat, NEW b \in Nat, NEW c \in Nat, NEW d \in Nat,
         NEW w \in Nat, NEW x \in Nat, NEW y \in Nat, NEW z \in Nat,
         \/ a < w
         \/ a = w /\ b < x
         \/ a = w /\ b = x /\ c < y
         \/ a = w /\ b = x /\ c = y /\ d < z
  PROVE  << <<a, b, c, d>>, <<w, x, y, z>> >> \in Nearer
<1>. DEFINE p == <<a, b, c, d>>
            q == <<w, x, y, z>>
<1>1. p \in [1 .. 4 -> Nat] /\ q \in [1 .. 4 -> Nat]
  OBVIOUS
<1>2. p[1] = a /\ p[2] = b /\ p[3] = c /\ p[4] = d /\ q[1] = w /\ q[2] = x /\ q[3] = y /\ q[4] = z
  OBVIOUS
<1>. HIDE DEF p, q
<1>3. \E j \in 1 .. 4 : (\A i \in 1 .. (j - 1) : p[i] = q[i]) /\ <<p[j], q[j]>> \in Less
  <2>1. CASE a < w
    <3>1. <<p[1], q[1]>> \in Less
      BY <1>2, <2>1 DEF Less
    <3>. QED
      BY <3>1
  <2>2. CASE a = w /\ b < x
    <3>1. <<p[2], q[2]>> \in Less /\ p[1] = q[1]
      BY <1>2, <2>2 DEF Less
    <3>2. \A i \in 1 .. (2 - 1) : i = 1
      OBVIOUS
    <3>. QED
      BY <3>1, <3>2
  <2>3. CASE a = w /\ b = x /\ c < y
    <3>1. <<p[3], q[3]>> \in Less /\ p[1] = q[1] /\ p[2] = q[2]
      BY <1>2, <2>3 DEF Less
    <3>2. \A i \in 1 .. (3 - 1) : i = 1 \/ i = 2
      OBVIOUS
    <3>. QED
      BY <3>1, <3>2
  <2>4. CASE a = w /\ b = x /\ c = y /\ d < z
    <3>1. <<p[4], q[4]>> \in Less /\ p[1] = q[1] /\ p[2] = q[2] /\ p[3] = q[3]
      BY <1>2, <2>4 DEF Less
    <3>2. \A i \in 1 .. (4 - 1) : i = 1 \/ i = 2 \/ i = 3
      OBVIOUS
    <3>. QED
      BY <3>1, <3>2
  <2>. QED
    BY <2>1, <2>2, <2>3, <2>4
<1>4. <<p, q>> \in Nearer
  BY <1>1, <1>3 DEF Nearer, LexProductOrdering
<1>. QED
  BY <1>4 DEF p, q

Measured ==
  /\ Stage \in Nat /\ SetBacks \in Nat /\ Way \in Nat /\ Values \in Nat
  /\ pc = "get" => Values > 0
  /\ pc # "idle" /\ ~(pc = "get" /\ last) => Way > 0

LEMMA Measures == Inv => Measured
<1>. SUFFICES ASSUME Inv PROVE Measured
  OBVIOUS
<1>1. Stage \in Nat
  BY DEF Stage
<1>2. SetBacks \in Nat
  BY ScanAssumption DEF SetBacks, Inv, TypeOK
<1>3. Way \in Nat /\ (pc # "idle" /\ ~(pc = "get" /\ last) => Way > 0)
  <2>1. CASE pc = "idle"
    BY <2>1 DEF Way
  <2>2. CASE pc # "idle"
    <3>1. cursor \in Nat /\ req \in Requests
      BY <2>2 DEF Inv, TypeOK, Stages
    <3>2. Len(req.keys) \in Nat
      BY <3>1, Filters, LenProperties
    <3>3. Buckets \in Nat \ {0}
      BY ScanAssumption
    <3>. DEFINE n == Len(req.keys)
    <3>4. n \in Nat
      BY <3>2
    <3>. HIDE DEF n
    <3>5. Way = IF pc = "get" /\ last THEN 0
                ELSE IF Individual THEN IF cursor > n THEN 1 ELSE n + 1 - cursor
                     ELSE IF cursor >= Buckets THEN Buckets + 1 ELSE Buckets - cursor
      BY <2>2 DEF Way, n
    <3>. QED
      BY <3>1, <3>3, <3>4, <3>5
  <2>. QED
    BY <2>1, <2>2
<1>4. Values \in Nat /\ (pc = "get" => Values > 0)
  <2>1. batch \in Seq(Keys) /\ (pc = "get" => batch # <<>>)
    BY DEF Inv, TypeOK, Stages
  <2>2. Len(batch) \in Nat /\ (Len(batch) = 0 => batch = <<>>)
    BY <2>1, LenProperties, EmptySeq
  <2>. QED
    BY <2>1, <2>2 DEF Values
<1>. QED
  BY <1>1, <1>2, <1>3, <1>4 DEF Measured

LEMMA MeasuresNext == Inv' => Measured'
  BY Measures, PTL

LEMMA SetBacksOrNot ==
  ASSUME Inv, shrinks' \in Nat
  PROVE  /\ shrinks' > shrinks => SetBacks' < SetBacks
         /\ shrinks' = shrinks => SetBacks' = SetBacks
<1>1. MaxShrinks \in Nat /\ shrinks \in Nat
  BY ScanAssumption DEF Inv, TypeOK
<1>2. SetBacks = MaxShrinks - shrinks /\ SetBacks' = MaxShrinks - shrinks'
  BY DEF SetBacks
<1>3. ASSUME NEW m \in Nat, NEW a \in Nat, NEW b \in Nat, b > a
      PROVE  m - b < m - a
  BY <1>3
<1>. QED
  BY <1>1, <1>2, <1>3

\* The way that a step leaves, in the same stage.
Left(ended, next) ==
  IF ended THEN 0
  ELSE IF Individual
       THEN IF next > Len(req.keys) THEN 1 ELSE Len(req.keys) + 1 - next
       ELSE IF next >= Buckets THEN Buckets + 1 ELSE Buckets - next

\* The loops go on with less of a way or fewer values, or end a stage.
LEMMA ReadsAhead ==
  ASSUME Inv, Inv', UNCHANGED req, pc # "idle", shrinks' \in Nat,
         NEW found, NEW keys \in Seq(Keys), NEW ended \in BOOLEAN, NEW next,
         Read(found, keys, ended, next),
         \/ shrinks' > shrinks
         \/ shrinks' = shrinks /\ Left(ended, next) < Way
         \/ shrinks' = shrinks /\ pc = "get" /\ Left(ended, next) = Way /\ Len(keys) < Len(batch)
  PROVE  <<StepsLeft', StepsLeft>> \in Nearer
<1>1. Stage \in Nat /\ SetBacks \in Nat /\ Way \in Nat /\ Values \in Nat
  BY Measures DEF Measured
<1>2. Stage' \in Nat /\ SetBacks' \in Nat /\ Way' \in Nat /\ Values' \in Nat
  BY MeasuresNext DEF Measured
<1>3. CASE pc' # "idle" /\ counting' = counting
  <2>1. /\ results' = found /\ cursor' = next /\ batch' = keys /\ last' = ended
        /\ pc' = IF keys = <<>> THEN "scan" ELSE "get"
        /\ (keys = <<>> => ~ended)
    <3>1. ~Finish(found)
      <4>1. counting \in BOOLEAN /\ counting' \in BOOLEAN
        BY DEF Inv, TypeOK
      <4>2. Finish(found) => pc' = (IF counting' THEN "scan" ELSE "idle") /\ (counting' => ~counting)
        BY DEF Finish
      <4>. QED
        BY <1>3, <4>1, <4>2
    <3>2. batch' = keys /\ last' = ended
      BY DEF Read
    <3>3. CASE keys = <<>>
      <4>1. Continue(found, ended, next)
        BY <3>3 DEF Read
      <4>. QED
        BY <3>1, <3>2, <3>3, <4>1 DEF Continue
    <3>4. CASE keys # <<>>
      BY <3>2, <3>4 DEF Read
    <3>. QED
      BY <3>3, <3>4
  <2>2. Stage' = Stage
    BY <1>3 DEF Stage
  <2>3. Way' = Left(ended, next)
    <3>1. Individual' = Individual
      BY <1>3 DEF Individual
    <3>2. ended <=> (pc' = "get" /\ last')
      BY <2>1
    <3>3. Way' = IF (pc = "get" /\ last)' THEN 0
                 ELSE IF Individual'
                      THEN IF cursor' > Len(req'.keys) THEN 1 ELSE Len(req'.keys) + 1 - cursor'
                      ELSE IF cursor' >= Buckets THEN Buckets + 1 ELSE Buckets - cursor'
      BY <1>3 DEF Way
    <3>. QED
      BY <2>1, <3>1, <3>2, <3>3 DEF Left
  <2>4. Values' = Len(keys)
    <3>1. Values' = IF keys = <<>> THEN 0 ELSE Len(keys)
      BY <2>1 DEF Values
    <3>2. keys = <<>> => Len(keys) = 0
      OBVIOUS
    <3>. QED
      BY <3>1, <3>2
  <2>5. /\ shrinks' > shrinks => SetBacks' < SetBacks
        /\ shrinks' = shrinks => SetBacks' = SetBacks
    BY SetBacksOrNot
  <2>6. pc = "get" => Values = Len(batch)
    BY DEF Values
  <2>7. \/ SetBacks' < SetBacks
        \/ SetBacks' = SetBacks /\ Way' < Way
        \/ SetBacks' = SetBacks /\ Way' = Way /\ Values' < Values
    BY <2>3, <2>4, <2>5, <2>6
  <2>. QED
    BY <1>1, <1>2, <2>2, <2>7, Descends DEF StepsLeft
<1>4. CASE ~(pc' # "idle" /\ counting' = counting)
  <2>1. Finish(found)
    BY <1>4 DEF Read, Continue
  <2>2. counting \in BOOLEAN
    BY DEF Inv, TypeOK
  <2>3. pc' = (IF counting' THEN "scan" ELSE "idle") /\ (counting' => ~counting)
    BY <2>1 DEF Finish
  <2>4. counting' \in BOOLEAN
    BY DEF Inv, TypeOK
  <2>5. Stage' < Stage
    BY <1>4, <2>2, <2>3, <2>4 DEF Stage
  <2>. QED
    BY <1>1, <1>2, <2>5, Descends DEF StepsLeft
<1>. QED
  BY <1>3, <1>4

LEMMA ScanNears ==
  ASSUME Inv, Inv', Scan
  PROVE  <<StepsLeft', StepsLeft>> \in Nearer
<1>1. pc = "scan" /\ ~Individual /\ UNCHANGED req
  BY DEF Scan
<1>2. cursor \in Nat /\ shrinks \in Nat /\ Buckets \in Nat \ {0}
  BY ScanAssumption DEF Inv, TypeOK
<1>3. PICK back \in {0, 1}, upto \in 1 .. Buckets :
        LET from == (cursor % Buckets) - back
        IN  /\ back <= cursor % Buckets /\ from < upto
            /\ shrinks' = shrinks + back
            /\ Read(results, ScanReply(from, upto), upto = Buckets, upto)
  BY DEF Scan
<1>. DEFINE from == (cursor % Buckets) - back
            keys == ScanReply(from, upto)
            ended == upto = Buckets
<1>4. keys \in Seq(Keys)
  <2>1. {k \in Present : BucketOf[k] \in from .. (upto - 1)} \in SUBSET Keys
    BY DEF Present
  <2>2. IsFiniteSet({k \in Present : BucketOf[k] \in from .. (upto - 1)})
    BY <2>1, ScanAssumption, FS_Subset
  <2>. QED
    BY <2>1, <2>2, Listing DEF ScanReply
<1>5. ended \in BOOLEAN /\ Read(results, keys, ended, upto)
  BY <1>3
<1>6. back = 0 => Left(ended, upto) < Way
  <2>1. cursor < Buckets => cursor % Buckets = cursor
    BY <1>2, Cursors
  <2>2. back = 0 /\ cursor < Buckets => cursor < upto
    BY <1>2, <1>3, <2>1
  <2>3. Left(ended, upto) = IF upto = Buckets THEN 0 ELSE Buckets - upto
    BY <1>1, <1>2 DEF Left
  <2>4. Way = IF cursor >= Buckets THEN Buckets + 1 ELSE Buckets - cursor
    BY <1>1 DEF Way
  <2>. QED
    BY <1>2, <2>2, <2>3, <2>4
<1>7. shrinks' \in Nat /\ (back = 0 => shrinks' = shrinks) /\ (back # 0 => shrinks' > shrinks)
  BY <1>2, <1>3
<1>. HIDE DEF keys, ended
<1>. QED
  BY <1>1, <1>4, <1>5, <1>6, <1>7, ReadsAhead

LEMMA FetchNears ==
  ASSUME Inv, Inv', Fetch
  PROVE  <<StepsLeft', StepsLeft>> \in Nearer
<1>. DEFINE limit == IF req.findAll THEN Len(req.keys) ELSE PerPage + 1
            ended == req.findAll \/ cursor + limit > Len(req.keys)
            upto == IF ended THEN Len(req.keys) ELSE cursor + limit
            keys == SubSeq(req.keys, cursor + 1, upto)
            next == cursor + limit
            n == Len(req.keys)
<1>1. pc = "scan" /\ Individual /\ UNCHANGED <<req, shrinks>>
  BY DEF Fetch
<1>2. Read(results, keys, ended, next)
  BY DEF Fetch
<1>3. cursor \in Nat /\ shrinks \in Nat /\ req \in Requests /\ req.findAll \in BOOLEAN
  BY <1>1, ScanAssumption DEF Inv, TypeOK, Stages, Requests
<1>4. req.keys \in Seq(Keys) /\ n \in Nat /\ PerPage \in Nat
  BY <1>3, Filters, PageSizesAreNumbers, LenProperties
<1>5. limit \in Nat /\ (~req.findAll => limit > 0)
  BY <1>3, <1>4
<1>. HIDE DEF limit
<1>6. keys \in Seq(Keys)
  <2>1. upto \in Nat /\ upto <= n
    BY <1>3, <1>4, <1>5
  <2>. QED
    BY <1>3, <1>4, <2>1, Slices
<1>7. Left(ended, next) < Way
  <2>1. Left(ended, next) = IF ended THEN 0 ELSE IF next > n THEN 1 ELSE n + 1 - next
    BY <1>1 DEF Left
  <2>2. Way = IF cursor > n THEN 1 ELSE n + 1 - cursor
    BY <1>1 DEF Way
  <2>3. ~ended => next <= n /\ limit > 0
    BY <1>3, <1>4, <1>5
  <2>4. next = cursor + limit
    OBVIOUS
  <2>. HIDE DEF ended, next, n
  <2>. QED
    BY <1>3, <1>4, <1>5, <2>1, <2>2, <2>3, <2>4
<1>8. ended \in BOOLEAN
  BY <1>3
<1>. HIDE DEF keys, ended, next
<1>. QED
  BY <1>1, <1>2, <1>3, <1>6, <1>7, <1>8, ReadsAhead

LEMMA GetNears ==
  ASSUME Inv, Inv', Get
  PROVE  <<StepsLeft', StepsLeft>> \in Nearer
<1>. DEFINE k == Head(batch)
            found == IF Finds(k) /\ k \in Range(req.keys) THEN Append(results, ItemOf(k)) ELSE results
            keys == Tail(batch)
<1>1. pc = "get" /\ UNCHANGED <<req, shrinks>>
  BY DEF Get
<1>2. Read(found, keys, last, cursor)
  BY DEF Get
<1>3. batch \in Seq(Keys) /\ batch # <<>> /\ shrinks \in Nat /\ last \in BOOLEAN
  BY <1>1, ScanAssumption DEF Inv, TypeOK, Stages
<1>4. keys \in Seq(Keys) /\ Len(keys) < Len(batch)
  BY <1>3, HeadTailProperties, LenProperties
<1>5. Left(last, cursor) = Way
  BY <1>1, <1>3 DEF Left, Way
<1>. HIDE DEF found, keys
<1>. QED
  BY <1>1, <1>2, <1>3, <1>4, <1>5, ReadsAhead

\* A find ends, since each of its commands brings it nearer to its end and nobody sets it
\* back, however often others write and keys are walked twice.
THEOREM FindsRunDown == Spec => CommandsBringNearer
<1>1. ASSUME Inv, Inv', Step PROVE <<StepsLeft', StepsLeft>> \in Nearer
  BY <1>1, ScanNears, FetchNears, GetNears DEF Step
<1>2. ASSUME [Next]_vars, ~Step, pc # "idle" PROVE UNCHANGED StepsLeft
  <2>1. UNCHANGED <<pc, req, counting, cursor, batch, last, shrinks>>
    <3>1. CASE \E r \in Requests : Find(r)
      BY <1>2, <3>1 DEF Find
    <3>2. CASE \E k \in Keys : Put(k)
      BY <3>2 DEF Put
    <3>3. CASE \E k \in Keys : Delete(k)
      BY <3>3 DEF Delete
    <3>4. CASE UNCHANGED vars
      BY <3>4 DEF vars
    <3>. QED
      BY <1>2, <3>1, <3>2, <3>3, <3>4 DEF Next
  <2>2. Individual' = Individual
    BY <2>1 DEF Individual
  <2>. QED
    BY <2>1, <2>2 DEF StepsLeft, Stage, SetBacks, Way, Values
<1>. DEFINE Brings == /\ Step => <<StepsLeft', StepsLeft>> \in Nearer
                      /\ ~Step /\ pc # "idle" => UNCHANGED StepsLeft
<1>3. Inv /\ Inv' /\ [Next]_vars => Brings
  BY <1>1, <1>2
<1>. HIDE DEF Brings
<1>4. Spec => [][Brings]_vars
  BY InvInit, InvStep, <1>3, PTL DEF Spec
<1>. QED
  BY <1>4 DEF Brings, CommandsBringNearer
=============================================================================
