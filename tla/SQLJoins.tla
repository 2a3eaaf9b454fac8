------------------------------ MODULE SQLJoins ------------------------------
(***************************************************************************)
(* SQLQueryBuilderService (data-rdb): the relations that filters, a        *)
(* caller's include and an order name, and the joins that find() makes of  *)
(* them.  Names and aliases are sequences of the parts their texts are put *)
(* together from; a join leads from an alias by a relation to an alias.    *)
(***************************************************************************)
EXTENDS Integers, SequencesExt

\* An alias per relation of the path, and the joins that lead there.
RelationAlias(entity, path) == entity \o path

RelationJoins(entity, path) ==
    {[from |-> RelationAlias(entity, SubSeq(path, 1, i - 1)), relation |-> path[i],
      alias |-> RelationAlias(entity, SubSeq(path, 1, i))] : i \in DOMAIN path}

(***************************************************************************)
(* parseRelations: the relations a caller may join, each with the ones on  *)
(* its way.  A join that comes from filters or from an order is looked up  *)
(* under the name it has as a join, which begins with the entity.          *)
(***************************************************************************)
AllowedIncludes(allowed) == UNION {{SubSeq(path, 1, i) : i \in DOMAIN path} : path \in allowed}

ParseRelations(entity, newIncludeItems, unparsedInclude, allowed, throwOnForbidden) ==
    LET known   == {j \in newIncludeItems : Append(j.from, j.relation) \in AllowedIncludes(allowed)}
        asked   == unparsedInclude \cap AllowedIncludes(allowed)
    IN  IF allowed = {} THEN [include |-> {}, thrown |-> FALSE]
        ELSE [include |-> known \cup UNION {RelationJoins(entity, path) : path \in asked},
              thrown  |-> throwOnForbidden /\ (known # newIncludeItems \/ asked # unparsedInclude)]

\* parseOrderBy: its joins, and the column of each field to order by.  The
\* entity is joined to each relation's name by one sign where filters have two.
Sign == "_"
OrderAlias(entity, path) == IF path = <<>> THEN entity ELSE entity \o <<Sign>> \o path
ParseOrderBy(entity, fields) ==
    LET joins(path) == {[from |-> OrderAlias(entity, SubSeq(path, 1, i - 1)), relation |-> path[i],
                         alias |-> OrderAlias(entity, SubSeq(path, 1, i))] : i \in DOMAIN path}
    IN  [include |-> UNION {joins(Front(f)) : f \in ToSet(fields)},
         orderBy |-> [i \in DOMAIN fields |-> [entity |-> OrderAlias(entity, Front(fields[i])),
                                               column |-> fields[i][Len(fields[i])]]]]

\* parseSelect: a field of a relation is selected where a join goes by the
\* relation's path, without the entity.
ParseSelect(fields, include) ==
    LET Alias(path) == {j.alias : j \in {k \in include : Append(k.from, k.relation) = path}}
    IN  {f \in fields : Len(f) = 1 \/ Alias(Front(f)) # {}}

(***************************************************************************)
(* find (RDBEntityService): what it asks the database for.                 *)
(***************************************************************************)
Asked(built, joins, order, select) ==
    LET \* a join of a relation that include holds replaces the order's
        kept == {j \in order.include : \A k \in joins.include : k.from # j.from \/ k.relation # j.relation}
    IN  [where   |-> built.query,
         include |-> joins.include \cup kept,
         orderBy |-> order.orderBy,
         select  |-> ParseSelect(select, joins.include \cup kept),
         thrown  |-> built.thrown \/ joins.thrown]

FindQuery(entity, parsed, built, relations, orderBy, select) ==
    Asked(built, ParseRelations(entity, parsed.include, relations, relations, TRUE),
          ParseOrderBy(entity, orderBy), select)
-----------------------------------------------------------------------------
(***************************************************************************)
(* What the joins of a find promise.                                       *)
(***************************************************************************)
\* Joins as filters make them: each under the alias its relation gives it, from
\* the entity or another of them.
IsJoinTree(entity, include) ==
    \A j \in include : /\ j.alias = Append(j.from, j.relation)
                       /\ j.from \in {entity} \cup {k.alias : k \in include}

\* A find that goes through joins every relation it was asked for, none that
\* hangs in the air and none twice, and knows the columns it orders by - unless
\* an order goes through a relation that is joined already, under the other alias.
JoinsAsAsked(entity, relations, orderBy, find) ==
    LET aliases == {entity} \cup {j.alias : j \in find.include}
        Crosses == \E f \in ToSet(orderBy), j \in find.include :
                       /\ Len(f) > 1 /\ j.from = entity /\ j.relation = f[1]
                       /\ j.alias # OrderAlias(entity, <<f[1]>>)
    IN  ~find.thrown =>
            /\ UNION {RelationJoins(entity, path) : path \in relations} \subseteq find.include
            /\ \A j, k \in find.include : j.from = k.from /\ j.relation = k.relation => j = k
            /\ ~Crosses => /\ \A j \in find.include : j.from \in aliases
                           /\ \A i \in DOMAIN orderBy : find.orderBy[i].entity \in aliases
=============================================================================
