--------------------------- MODULE SQLJoinsProofs ---------------------------
(***************************************************************************)
(* JoinsAsAsked for any entity, relations, order and joins of filters.     *)
(***************************************************************************)
EXTENDS SQLJoins, SequenceTheorems, TLAPS

LEMMA AppendedLast ==
    ASSUME NEW Part, NEW s \in Seq(Part), NEW t \in Seq(Part), NEW x \in Part
    PROVE  s \o Append(t, x) = Append(s \o t, x)
  <1>1. Append(t, x) \in Seq(Part) /\ Len(Append(t, x)) = Len(t) + 1
    OBVIOUS
  <1>2. /\ s \o t \in Seq(Part) /\ Len(s \o t) = Len(s) + Len(t)
        /\ \A i \in 1 .. Len(s) + Len(t) : (s \o t)[i] = IF i <= Len(s) THEN s[i] ELSE t[i - Len(s)]
    BY ConcatProperties
  <1>3. /\ s \o Append(t, x) \in Seq(Part) /\ Len(s \o Append(t, x)) = Len(s) + Len(t) + 1
        /\ \A i \in 1 .. Len(s) + Len(t) + 1 :
               (s \o Append(t, x))[i] = IF i <= Len(s) THEN s[i] ELSE Append(t, x)[i - Len(s)]
    BY <1>1, ConcatProperties
  <1>4. Append(s \o t, x) \in Seq(Part) /\ Len(Append(s \o t, x)) = Len(s) + Len(t) + 1
    BY <1>2
  <1>5. ASSUME NEW i \in 1 .. Len(s) + Len(t) + 1
        PROVE  (s \o Append(t, x))[i] = Append(s \o t, x)[i]
    <2>1. Len(s) \in Nat /\ Len(t) \in Nat /\ i \in Nat
      OBVIOUS
    <2>2. CASE i <= Len(s)
      BY <1>2, <1>3, <2>1, <2>2
    <2>3. CASE i > Len(s) /\ i <= Len(s) + Len(t)
      <3>1. i - Len(s) \in 1 .. Len(t)
        BY <2>1, <2>3
      <3>2. Append(t, x)[i - Len(s)] = t[i - Len(s)]
        BY <3>1
      <3>3. QED
        BY <1>2, <1>3, <2>1, <2>3, <3>2
    <2>4. CASE i = Len(s) + Len(t) + 1
      <3>1. i - Len(s) = Len(t) + 1 /\ ~(i <= Len(s))
        BY <2>1, <2>4
      <3>2. Append(t, x)[Len(t) + 1] = x
        OBVIOUS
      <3>3. Append(s \o t, x)[i] = x
        BY <1>2, <2>4
      <3>4. QED
        BY <1>3, <3>1, <3>2, <3>3
    <2>5. QED
      BY <2>1, <2>2, <2>3, <2>4
  <1>6. QED
    BY <1>3, <1>4, <1>5, SeqEqual

\* One more relation of a path.
IsPathStep(Part, path, i) ==
  /\ i \in 1 .. Len(path) /\ path[i] \in Part
  /\ SubSeq(path, 1, i - 1) \in Seq(Part) /\ Len(SubSeq(path, 1, i - 1)) = i - 1
  /\ SubSeq(path, 1, i) \in Seq(Part) /\ SubSeq(path, 1, i) # <<>>
  /\ SubSeq(path, 1, i) = Append(SubSeq(path, 1, i - 1), path[i])
  /\ SubSeq(path, 1, i - 1) = <<>> <=> i = 1

LEMMA PathStep ==
    ASSUME NEW Part, NEW path \in Seq(Part), NEW i \in DOMAIN path
    PROVE  IsPathStep(Part, path, i)
  <1>1. i \in 1 .. Len(path) /\ path[i] \in Part
    OBVIOUS
  <1>2. SubSeq(path, 1, i - 1) \in Seq(Part) /\ Len(SubSeq(path, 1, i - 1)) = i - 1
    BY <1>1
  <1>3. SubSeq(path, 1, i) \in Seq(Part) /\ Len(SubSeq(path, 1, i)) = i
    BY <1>1
  <1>4. SubSeq(path, 1, i) = Append(SubSeq(path, 1, i - 1), path[i])
    BY <1>1, <1>2, <1>3
  <1>5. \A s \in Seq(Part) : s = <<>> <=> Len(s) = 0
    BY EmptySeq
  <1>6. i # 0 /\ (i = 1 <=> i - 1 = 0)
    BY <1>1
  <1>7. QED
    BY <1>1, <1>2, <1>3, <1>4, <1>5, <1>6 DEF IsPathStep

\* The alias that one more relation gets, in the joins of relations and in those
\* of an order.
LEMMA RelationAliasStep ==
    ASSUME NEW Part, NEW entity \in Seq(Part), NEW path \in Seq(Part), NEW i \in DOMAIN path
    PROVE  /\ RelationAlias(entity, SubSeq(path, 1, i)) = Append(RelationAlias(entity, SubSeq(path, 1, i - 1)), path[i])
           /\ RelationAlias(entity, SubSeq(path, 1, i - 1)) \in Seq(Part)
           /\ RelationAlias(entity, SubSeq(path, 1, i)) \in Seq(Part)
           /\ i = 1 => RelationAlias(entity, SubSeq(path, 1, i - 1)) = entity
  <1>1. \A s \in Seq(Part) : entity \o s \in Seq(Part)
    BY ConcatProperties
  <1>2. entity \o <<>> = entity
    BY ConcatEmptySeq
  <1> DEFINE before == SubSeq(path, 1, i - 1)
             here   == SubSeq(path, 1, i)
  <1>3. /\ before \in Seq(Part) /\ here \in Seq(Part) /\ path[i] \in Part
        /\ here = Append(before, path[i])
        /\ before = <<>> <=> i = 1
    <2>1. IsPathStep(Part, path, i)
      BY PathStep
    <2>2. QED
      BY <2>1 DEF IsPathStep
  <1> HIDE DEF before, here
  <1>4. entity \o here = Append(entity \o before, path[i])
    BY <1>3, AppendedLast
  <1>5. QED
    BY <1>1, <1>2, <1>3, <1>4 DEF RelationAlias, before, here

\* The alias of a relation of the entity itself, in an order.
FirstAlias(entity, relation) == OrderAlias(entity, <<relation>>)
IsOrderStep(Part, entity, path, i) ==
  \E from, alias \in Seq(Part) :
      /\ OrderAlias(entity, SubSeq(path, 1, i - 1)) = from
      /\ OrderAlias(entity, SubSeq(path, 1, i)) = alias
      /\ i = 1 => from = entity /\ alias = FirstAlias(entity, path[i])
      /\ i > 1 => from # entity /\ alias = Append(from, path[i])

LEMMA OrderAliasStep ==
    ASSUME NEW Part, NEW entity \in Seq(Part), NEW path \in Seq(Part), NEW i \in DOMAIN path, Sign \in Part
    PROVE  IsOrderStep(Part, entity, path, i)
  <1> DEFINE before == SubSeq(path, 1, i - 1)
             here   == SubSeq(path, 1, i)
             signed == entity \o <<Sign>>
  <1>1. <<Sign>> \in Seq(Part) /\ Len(<<Sign>>) = 1
    OBVIOUS
  <1>2. signed \in Seq(Part) /\ Len(signed) = Len(entity) + 1
    BY <1>1, ConcatProperties
  <1>3. \A s \in Seq(Part) : signed \o s \in Seq(Part) /\ Len(signed \o s) = Len(entity) + 1 + Len(s)
    BY <1>2, ConcatProperties
  <1>4. \A s \in Seq(Part) : OrderAlias(entity, s) = IF s = <<>> THEN entity ELSE signed \o s
    BY DEF OrderAlias
  <1>5. \A s \in Seq(Part) : OrderAlias(entity, s) \in Seq(Part)
    BY <1>3, <1>4
  <1> HIDE DEF signed
  <1>6. /\ before \in Seq(Part) /\ here \in Seq(Part) /\ here # <<>> /\ path[i] \in Part /\ i \in 1 .. Len(path)
        /\ here = Append(before, path[i])
        /\ before = <<>> <=> i = 1
    <2>1. IsPathStep(Part, path, i)
      BY PathStep
    <2>2. QED
      BY <2>1 DEF IsPathStep
  <1> HIDE DEF before, here
  <1>7. ASSUME i = 1
        PROVE  OrderAlias(entity, before) = entity /\ here = <<path[i]>>
    <2>1. here = Append(<<>>, path[i])
      BY <1>6, <1>7
    <2>2. Append(<<>>, path[i]) = <<path[i]>>
      OBVIOUS
    <2>3. QED
      BY <1>4, <1>6, <1>7, <2>1, <2>2
  <1>8. ASSUME i > 1
        PROVE  OrderAlias(entity, before) # entity /\ OrderAlias(entity, here) = Append(OrderAlias(entity, before), path[i])
    <2>1. before # <<>>
      BY <1>6, <1>8
    <2>2. OrderAlias(entity, before) = signed \o before /\ OrderAlias(entity, here) = signed \o here
      BY <1>4, <1>6, <2>1
    <2>3. signed \o here = Append(signed \o before, path[i])
      BY <1>2, <1>6, AppendedLast
    <2>4. Len(signed \o before) # Len(entity)
      <3>1. Len(signed \o before) = Len(entity) + 1 + Len(before) /\ Len(entity) \in Nat /\ Len(before) \in Nat
        BY <1>3, <1>6
      <3>2. QED
        BY <3>1
    <2>5. QED
      BY <2>2, <2>3, <2>4
  <1>9. QED
    BY <1>5, <1>6, <1>7, <1>8 DEF before, here, FirstAlias, IsOrderStep

-----------------------------------------------------------------------------
(* The joins of one relation, and of one field to order by.                *)

RelationJoin(entity, path, i) ==
  [from |-> RelationAlias(entity, SubSeq(path, 1, i - 1)), relation |-> path[i],
   alias |-> RelationAlias(entity, SubSeq(path, 1, i))]
OrderJoin(entity, path, i) ==
  [from |-> OrderAlias(entity, SubSeq(path, 1, i - 1)), relation |-> path[i],
   alias |-> OrderAlias(entity, SubSeq(path, 1, i))]
Joins(Part) == [from : Seq(Part), relation : Part, alias : Seq(Part)]
\* a join as filters make them, that begins at the entity or at another of these
IsTreeJoin(j, Part, entity, joins) ==
  /\ j \in Joins(Part) /\ j.alias = Append(j.from, j.relation)
  /\ j.from = entity \/ \E k \in joins : j.from = k.alias

LEMMA RelationJoinStep ==
    ASSUME NEW Part, NEW entity \in Seq(Part), NEW path \in Seq(Part), NEW i \in DOMAIN path
    PROVE  LET j == RelationJoin(entity, path, i)
           IN  /\ j \in Joins(Part)
               /\ j.alias = Append(j.from, j.relation)
               /\ j.from = entity \/ (i - 1 \in DOMAIN path /\ j.from = RelationJoin(entity, path, i - 1).alias)
  <1>1. i = 1 \/ i - 1 \in DOMAIN path
    OBVIOUS
  <1>2. path[i] \in Part
    OBVIOUS
  <1> DEFINE Alias(n) == RelationAlias(entity, SubSeq(path, 1, n))
  <1>3. /\ Alias(i) = Append(Alias(i - 1), path[i])
        /\ Alias(i - 1) \in Seq(Part) /\ Alias(i) \in Seq(Part)
        /\ i = 1 => Alias(i - 1) = entity
    BY RelationAliasStep
  <1>4. RelationJoin(entity, path, i) = [from |-> Alias(i - 1), relation |-> path[i], alias |-> Alias(i)]
    BY DEF RelationJoin
  <1>5. RelationJoin(entity, path, i - 1).alias = Alias(i - 1)
    BY DEF RelationJoin
  <1> HIDE DEF Alias
  <1>6. QED
    BY <1>1, <1>2, <1>3, <1>4, <1>5 DEF Joins

LEMMA OrderJoinStep ==
    ASSUME NEW Part, NEW entity \in Seq(Part), NEW path \in Seq(Part), NEW i \in DOMAIN path, Sign \in Part
    PROVE  LET j == OrderJoin(entity, path, i)
           IN  /\ j \in Joins(Part)
               /\ j.from = entity => j.alias = FirstAlias(entity, j.relation) /\ j.relation = path[1]
               /\ j.from # entity => j.alias = Append(j.from, j.relation)
               /\ j.from = entity \/ (i - 1 \in DOMAIN path /\ j.from = OrderJoin(entity, path, i - 1).alias)
  <1>1. i = 1 \/ (i > 1 /\ i - 1 \in DOMAIN path)
    OBVIOUS
  <1>2. path[i] \in Part
    OBVIOUS
  <1>3. PICK from, alias \in Seq(Part) :
            /\ OrderAlias(entity, SubSeq(path, 1, i - 1)) = from
            /\ OrderAlias(entity, SubSeq(path, 1, i)) = alias
            /\ i = 1 => from = entity /\ alias = FirstAlias(entity, path[i])
            /\ i > 1 => from # entity /\ alias = Append(from, path[i])
    <2>1. IsOrderStep(Part, entity, path, i)
      BY OrderAliasStep
    <2>2. QED
      BY <2>1 DEF IsOrderStep
  <1>4. OrderJoin(entity, path, i) = [from |-> from, relation |-> path[i], alias |-> alias]
    BY <1>3 DEF OrderJoin
  <1>5. OrderJoin(entity, path, i - 1).alias = from
    BY <1>3 DEF OrderJoin
  <1>6. QED
    BY <1>1, <1>2, <1>3, <1>4, <1>5 DEF Joins

LEMMA JoinsOfARelation ==
    ASSUME NEW entity, NEW path
    PROVE  RelationJoins(entity, path) = {RelationJoin(entity, path, i) : i \in DOMAIN path}
  BY DEF RelationJoins, RelationJoin

LEMMA JoinsOfAnOrder ==
    ASSUME NEW entity, NEW fields
    PROVE  /\ ParseOrderBy(entity, fields).include =
                UNION {{OrderJoin(entity, Front(f), i) : i \in DOMAIN Front(f)} : f \in ToSet(fields)}
           /\ \A i \in DOMAIN fields :
                ParseOrderBy(entity, fields).orderBy[i].entity = OrderAlias(entity, Front(fields[i]))
  BY DEF ParseOrderBy, OrderJoin

\* A find that does not throw joins what its filters join and every relation.
LEMMA NoneForbidden ==
    ASSUME NEW Part, NEW entity \in Seq(Part), NEW items, NEW relations \in SUBSET (Seq(Part) \ {<<>>}),
           ~ParseRelations(entity, items, relations, relations, TRUE).thrown
    PROVE  LET include == ParseRelations(entity, items, relations, relations, TRUE).include
           IN  /\ include = {} \/ items \subseteq include
               /\ include \subseteq items \cup UNION {RelationJoins(entity, path) : path \in relations}
               /\ UNION {RelationJoins(entity, path) : path \in relations} \subseteq include
  <1> DEFINE known == {j \in items : Append(j.from, j.relation) \in AllowedIncludes(relations)}
             asked == relations \cap AllowedIncludes(relations)
  <1>1. asked = relations
    <2>1. ASSUME NEW path \in relations
          PROVE  path \in AllowedIncludes(relations)
      <3>1. path \in Seq(Part) /\ Len(path) \in DOMAIN path
        <4>1. path \in Seq(Part) /\ path # <<>>
          OBVIOUS
        <4>2. Len(path) # 0
          BY <4>1, EmptySeq
        <4>3. QED
          BY <4>1, <4>2
      <3>2. SubSeq(path, 1, Len(path)) = path
        BY <3>1, SubSeqFull
      <3>3. path \in {SubSeq(path, 1, i) : i \in DOMAIN path}
        BY <3>1, <3>2
      <3>4. QED
        BY <3>3 DEF AllowedIncludes
    <2>2. QED
      BY <2>1
  <1>2. CASE relations = {}
    BY <1>2 DEF ParseRelations
  <1>3. CASE relations # {}
    <2>1. known = items
      BY <1>3 DEF ParseRelations
    <2>2. ParseRelations(entity, items, relations, relations, TRUE).include =
            known \cup UNION {RelationJoins(entity, path) : path \in asked}
      BY <1>3 DEF ParseRelations
    <2> HIDE DEF known, asked
    <2>3. QED
      BY <1>1, <2>1, <2>2
  <1>4. QED
    BY <1>2, <1>3

\* The relations of a field to order by.
LEMMA RelationsOfAField ==
    ASSUME NEW Part, NEW f \in Seq(Part), f # <<>>
    PROVE  /\ Front(f) \in Seq(Part) /\ Len(Front(f)) = Len(f) - 1
           /\ \A i \in DOMAIN Front(f) : Len(f) > 1 /\ Front(f)[1] = f[1]
           /\ Front(f) # <<>> => Len(Front(f)) \in DOMAIN Front(f) /\ SubSeq(Front(f), 1, Len(Front(f))) = Front(f)
  <1>1. Len(f) \in Nat /\ Len(f) # 0
    BY EmptySeq
  <1>2. Front(f) = SubSeq(f, 1, Len(f) - 1)
    BY DEF Front
  <1>3. /\ Front(f) \in Seq(Part) /\ Len(Front(f)) = Len(f) - 1
        /\ \A i \in 1 .. Len(f) - 1 : Front(f)[i] = f[i]
    <2> DEFINE n == Len(f) - 1
    <2>1. n \in 0 .. Len(f)
      BY <1>1
    <2> HIDE DEF n
    <2>2. /\ SubSeq(f, 1, n) \in Seq(Part) /\ Len(SubSeq(f, 1, n)) = n
          /\ \A i \in 1 .. n : SubSeq(f, 1, n)[i] = f[i]
      BY <2>1
    <2>3. QED
      BY <1>2, <2>2 DEF n
  <1>4. DOMAIN Front(f) = 1 .. Len(f) - 1
    BY <1>3
  <1>5. ASSUME NEW i \in DOMAIN Front(f)
        PROVE  Len(f) > 1 /\ Front(f)[1] = f[1]
    <2>1. Len(f) > 1
      BY <1>1, <1>4
    <2>2. QED
      BY <1>1, <1>3, <2>1
  <1>6. ASSUME Front(f) # <<>>
        PROVE  Len(Front(f)) \in DOMAIN Front(f) /\ SubSeq(Front(f), 1, Len(Front(f))) = Front(f)
    <2>1. Len(Front(f)) # 0
      BY <1>3, <1>6, EmptySeq
    <2>2. SubSeq(Front(f), 1, Len(Front(f))) = Front(f)
      BY <1>3, <2>1, SubSeqFull
    <2>3. QED
      BY <1>1, <1>3, <1>4, <2>1, <2>2
  <1>7. QED
    BY <1>3, <1>5, <1>6

\* What relations join is made by filters' rules, and hangs together.
LEMMA RelationsJoined ==
    ASSUME NEW Part, NEW entity \in Seq(Part), NEW relations \in SUBSET (Seq(Part) \ {<<>>}),
           NEW j \in UNION {RelationJoins(entity, path) : path \in relations}
    PROVE  IsTreeJoin(j, Part, entity, UNION {RelationJoins(entity, path) : path \in relations})
  <1>1. PICK path \in relations : j \in RelationJoins(entity, path)
    OBVIOUS
  <1>2. path \in Seq(Part)
    OBVIOUS
  <1>3. PICK i \in DOMAIN path : j = RelationJoin(entity, path, i)
    BY <1>1, JoinsOfARelation
  <1>4. /\ j \in Joins(Part)
        /\ j.alias = Append(j.from, j.relation)
        /\ j.from = entity \/ (i - 1 \in DOMAIN path /\ j.from = RelationJoin(entity, path, i - 1).alias)
    BY <1>2, <1>3, RelationJoinStep
  <1>5. ASSUME i - 1 \in DOMAIN path
        PROVE  RelationJoin(entity, path, i - 1) \in UNION {RelationJoins(entity, p) : p \in relations}
    BY <1>1, <1>5, JoinsOfARelation
  <1>6. QED
    BY <1>4, <1>5 DEF IsTreeJoin

\* What an order joins.
LEMMA OrderJoined ==
    ASSUME NEW Part, NEW entity \in Seq(Part), NEW orderBy \in Seq(Seq(Part) \ {<<>>}), Sign \in Part,
           NEW j \in ParseOrderBy(entity, orderBy).include
    PROVE  /\ j \in Joins(Part)
           /\ j.from = entity => j.alias = FirstAlias(entity, j.relation)
           /\ j.from # entity => j.alias = Append(j.from, j.relation)
           /\ \E f \in ToSet(orderBy) : \E i \in DOMAIN Front(f) : j = OrderJoin(entity, Front(f), i)
  <1>1. PICK f \in ToSet(orderBy) : \E i \in DOMAIN Front(f) : j = OrderJoin(entity, Front(f), i)
    BY JoinsOfAnOrder
  <1>2. f \in Seq(Part) /\ f # <<>>
    BY <1>1 DEF ToSet
  <1>3. Front(f) \in Seq(Part)
    BY <1>2, RelationsOfAField
  <1>4. QED
    BY <1>1, <1>3, OrderJoinStep

-----------------------------------------------------------------------------
\* Whatever filters, an include and an order name, a find of the RDB package joins
\* every relation it was asked for and none twice, lets no join hang in the air and
\* knows the columns it orders by, where no order goes through a relation that is
\* joined already under the other alias.  Filters need only make joins that hang
\* together (IsJoinTree), and no relation or field is empty.
THEOREM FindsJoinAsAsked ==
    ASSUME NEW Part, NEW entity \in Seq(Part), Sign \in Part,
           NEW parsed, parsed.include \subseteq Joins(Part), IsJoinTree(entity, parsed.include),
           NEW built, NEW relations \in SUBSET (Seq(Part) \ {<<>>}),
           NEW orderBy \in Seq(Seq(Part) \ {<<>>}), NEW select
    PROVE  JoinsAsAsked(entity, relations, orderBy, FindQuery(entity, parsed, built, relations, orderBy, select))
  <1> DEFINE joined  == ParseRelations(entity, parsed.include, relations, relations, TRUE)
             order   == ParseOrderBy(entity, orderBy)
             kept    == {j \in order.include : \A k \in joined.include : k.from # j.from \/ k.relation # j.relation}
             include == joined.include \cup kept
             find    == FindQuery(entity, parsed, built, relations, orderBy, select)
             ofRelations == UNION {RelationJoins(entity, path) : path \in relations}
             aliases == {entity} \cup {j.alias : j \in include}
             Crosses == \E f \in ToSet(orderBy), j \in include :
                            /\ Len(f) > 1 /\ j.from = entity /\ j.relation = f[1]
                            /\ j.alias # OrderAlias(entity, <<f[1]>>)
  <1>1. find.include = include /\ find.orderBy = order.orderBy /\ (find.thrown <=> built.thrown \/ joined.thrown)
    BY DEF FindQuery, Asked
  <1>2. SUFFICES ASSUME ~joined.thrown
                 PROVE  /\ ofRelations \subseteq include
                        /\ \A j, k \in include : j.from = k.from /\ j.relation = k.relation => j = k
                        /\ ~Crosses => /\ \A j \in include : j.from \in aliases
                                       /\ \A i \in DOMAIN orderBy : order.orderBy[i].entity \in aliases
    BY <1>1 DEF JoinsAsAsked
  <1>3. /\ joined.include = {} \/ parsed.include \subseteq joined.include
        /\ joined.include \subseteq parsed.include \cup ofRelations
        /\ ofRelations \subseteq joined.include
    BY <1>2, NoneForbidden
  <1>4. ASSUME NEW j \in joined.include
        PROVE  /\ j \in Joins(Part) /\ j.alias = Append(j.from, j.relation)
               /\ j.from = entity \/ \E k \in joined.include : j.from = k.alias
    <2>1. CASE j \in parsed.include
      BY <1>3, <1>4, <2>1 DEF IsJoinTree
    <2>2. CASE j \in ofRelations
      <3>1. IsTreeJoin(j, Part, entity, ofRelations)
        BY <2>2, RelationsJoined
      <3> HIDE DEF ofRelations
      <3>2. QED
        BY <1>3, <3>1 DEF IsTreeJoin
    <2>3. QED
      BY <1>3, <1>4, <2>1, <2>2
  <1>5. ASSUME NEW j \in order.include
        PROVE  /\ j \in Joins(Part)
               /\ j.from = entity => j.alias = FirstAlias(entity, j.relation)
               /\ j.from # entity => j.alias = Append(j.from, j.relation)
               /\ \E f \in ToSet(orderBy) : \E i \in DOMAIN Front(f) : j = OrderJoin(entity, Front(f), i)
    BY OrderJoined
  <1>6. ASSUME NEW f \in ToSet(orderBy)
        PROVE  /\ f \in Seq(Part) /\ f # <<>> /\ Front(f) \in Seq(Part)
               /\ \A i \in DOMAIN Front(f) : OrderJoin(entity, Front(f), i) \in order.include
    <2>1. f \in Seq(Part) /\ f # <<>>
      BY <1>6 DEF ToSet
    <2>2. Front(f) \in Seq(Part)
      BY <2>1, RelationsOfAField
    <2>3. \A i \in DOMAIN Front(f) : OrderJoin(entity, Front(f), i) \in order.include
      BY <1>6, JoinsOfAnOrder
    <2>4. QED
      BY <2>1, <2>2, <2>3
  <1>7. \A i \in DOMAIN orderBy :
            orderBy[i] \in ToSet(orderBy) /\ order.orderBy[i].entity = OrderAlias(entity, Front(orderBy[i]))
    BY JoinsOfAnOrder DEF ToSet
  <1> HIDE DEF joined, order, ofRelations
  <1>8. ASSUME NEW j \in include, NEW k \in include, j.from = k.from, j.relation = k.relation
        PROVE  j = k
    <2>1. CASE j \in joined.include /\ k \in joined.include
      <3>1. j \in Joins(Part) /\ k \in Joins(Part) /\ j.alias = k.alias
        BY <1>4, <1>8, <2>1
      <3>2. QED
        BY <1>8, <3>1 DEF Joins
    <2>2. CASE j \in kept /\ k \in kept
      <3>1. j \in order.include /\ k \in order.include
        BY <2>2
      <3>2. j \in Joins(Part) /\ k \in Joins(Part) /\ j.alias = k.alias
        BY <1>5, <1>8, <3>1
      <3>3. QED
        BY <1>8, <3>2 DEF Joins
    <2>3. QED
      BY <1>8, <2>1, <2>2
  <1>9. ASSUME ~Crosses, NEW f \in ToSet(orderBy), NEW i \in DOMAIN Front(f)
        PROVE  OrderJoin(entity, Front(f), i).alias \in aliases
    <2> DEFINE j == OrderJoin(entity, Front(f), i)
    <2>1. j \in order.include
      BY <1>6
    <2>2. CASE j \in kept
      BY <2>2
    <2>3. CASE j \notin kept
      <3>1. PICK k \in joined.include : k.from = j.from /\ k.relation = j.relation
        BY <2>1, <2>3
      <3>2. k.alias = j.alias
        <4>1. CASE j.from # entity
          BY <1>4, <1>5, <2>1, <3>1, <4>1
        <4>2. CASE j.from = entity
          <5>1. j.alias = FirstAlias(entity, j.relation) /\ j.relation = Front(f)[1]
            BY <1>6, <4>2, OrderJoinStep
          <5>2. Len(f) > 1 /\ Front(f)[1] = f[1]
            BY <1>6, <1>9, RelationsOfAField
          <5>3. k.alias = OrderAlias(entity, <<f[1]>>)
            BY <1>9, <3>1, <4>2, <5>1, <5>2
          <5>4. QED
            BY <5>1, <5>2, <5>3 DEF FirstAlias
        <4>3. QED
          BY <4>1, <4>2
      <3>3. QED
        BY <3>2
    <2>4. QED
      BY <2>2, <2>3
  <1>10. ASSUME ~Crosses, NEW j \in include
         PROVE  j.from \in aliases
    <2>1. CASE j \in joined.include
      BY <1>4, <2>1
    <2>2. CASE j \in kept
      <3>1. PICK f \in ToSet(orderBy) : \E i \in DOMAIN Front(f) : j = OrderJoin(entity, Front(f), i)
        BY <1>5, <2>2
      <3>2. PICK i \in DOMAIN Front(f) : j = OrderJoin(entity, Front(f), i)
        BY <3>1
      <3>3. j.from = entity \/ (i - 1 \in DOMAIN Front(f) /\ j.from = OrderJoin(entity, Front(f), i - 1).alias)
        BY <1>6, <3>2, OrderJoinStep
      <3>4. QED
        BY <1>9, <1>10, <3>3
    <2>3. QED
      BY <1>10, <2>1, <2>2
  <1>11. ASSUME ~Crosses, NEW i \in DOMAIN orderBy
         PROVE  order.orderBy[i].entity \in aliases
    <2> DEFINE f == orderBy[i]
    <2>1. f \in ToSet(orderBy) /\ order.orderBy[i].entity = OrderAlias(entity, Front(f))
      BY <1>7
    <2>2. f \in Seq(Part) /\ f # <<>>
      BY <1>6, <2>1
    <2> HIDE DEF f
    <2>3. CASE Front(f) = <<>>
      BY <2>1, <2>3 DEF OrderAlias
    <2>4. CASE Front(f) # <<>>
      <3>1. Len(Front(f)) \in DOMAIN Front(f) /\ SubSeq(Front(f), 1, Len(Front(f))) = Front(f)
        BY <2>2, <2>4, RelationsOfAField
      <3>2. OrderJoin(entity, Front(f), Len(Front(f))).alias = OrderAlias(entity, Front(f))
        BY <3>1 DEF OrderJoin
      <3>3. OrderJoin(entity, Front(f), Len(Front(f))).alias \in aliases
        BY <1>9, <1>11, <2>1, <3>1
      <3>4. QED
        BY <2>1, <3>2, <3>3
    <2>5. QED
      BY <2>3, <2>4
  <1>12. QED
    BY <1>3, <1>8, <1>10, <1>11
=============================================================================
