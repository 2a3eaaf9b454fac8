----------------------------- MODULE SQLFilters -----------------------------
(***************************************************************************)
(* SQLQueryBuilderService (data-rdb): how an object of filters becomes the *)
(* conditions of a query and the relations it joins.                       *)
(*                                                                         *)
(* Names and aliases are sequences of the parts their texts are put        *)
(* together from.  A filters object is the sequence of its entries <<name, *)
(* value>>, the parts of a name standing between dots; a value is a tuple  *)
(* headed by its kind, with dates among the plain values.  A query is a    *)
(* sequence of terms, each with the connective before it: conditions and   *)
(* queries in brackets.                                                    *)
(***************************************************************************)
EXTENDS SQLJoins

CONSTANTS NotGiven,        \* no operator, no alias
          ILikeSupported   \* the constructor: PostgreSQL has ilike, MySQL and ClickHouse have not

Missing     == <<"undefined">>
NullValue   == <<"null">>
Plain(v)    == <<"plain", v>>
List(items) == <<"list", items>>
Map(entries) == <<"map", entries>>
Is(v, kind) == v[1] = kind

Comparisons == {"$gt", "$gte", "$lt", "$lte", "$contains"}
Operators   == Comparisons \cup {"$between", "$eq", "$like", "$ilike", "$not", "$or"}

(***************************************************************************)
(* What a parsed filter is: its parameters, and its query.  Absent: the    *)
(* result has no such key.  Empty: it has the key without a filter, which  *)
(* the code reads from when it builds the query.                           *)
(***************************************************************************)
Absent == [query |-> <<>>, params |-> {}, key |-> "absent"]
Empty  == [Absent EXCEPT !.key = "undefined"]
Filter(query, params) == [query |-> query, params |-> params, key |-> "filter"]

Condition(entity, column, op, not, params) ==
    [entity |-> entity, column |-> column, op |-> op, not |-> not, params |-> params]
One(condition)  == <<<<"and", <<"condition", condition>>>>>>
Brackets(query) == <<<<"and", <<"brackets", query>>>>>>
Joined(query, connective, more) ==
    query \o (IF more = <<>> THEN <<>> ELSE [more EXCEPT ![1] = <<connective, @[2]>>])

\* getValueForFilter: not is heeded by like and equality only; with ilike the
\* parameter is the type of the value.
ValueFilter(entity, column, alias, value, not, operator) ==
    LET op == CASE operator \in Comparisons \cup {"$like"}       -> operator
                [] operator = "$ilike"                           -> IF ILikeSupported THEN "$ilike" ELSE "$like"
                [] OTHER                                         -> "$eq"
    IN  Filter(One(Condition(entity, column, op, not /\ op \notin Comparisons, <<alias>>)),
               {<<alias, IF op = "$ilike" THEN <<"type of", value>> ELSE value>>})

\* parseArrayOfFilters: each given item of a list is a parameter of its own.
Given(items)    == {i \in DOMAIN items : items[i] # Missing}
IsSimple(items) == \A i \in Given(items) : Is(items[i], "plain") \/ Is(items[i], "null")
ItemName(alias, i) == Append(alias, ToString(i - 1))

Parsed(filter, include) == [filter |-> filter, include |-> include]

RECURSIVE ParseField(_, _, _, _), ParseInnerFilters(_, _, _, _, _)

(***************************************************************************)
(* One turn of parseFilters' loop.  given: what options hold for the field *)
(* - alias from fieldAliases, column what parameterNamesToFieldAliasesMap  *)
(* makes of it, operator, isTopLevel.                                      *)
(***************************************************************************)
SimpleList(entity, items, column, given) ==
    LET names == [i \in Given(items) |-> ItemName(column, i)]
        not   == given.operator = "$not"
    IN  Filter(One(IF given.operator = "$between"
                   THEN Condition(entity, column, "$between", not, <<ItemName(column, 1), ItemName(column, 2)>>)
                   ELSE Condition(entity, column, "in", not, SetToSeq({names[i] : i \in Given(items)}))),
               {<<names[i], items[i]>> : i \in Given(items)})

Either(parsed) ==
    Parsed(Filter(Brackets(FoldLeft(LAMBDA q, e : Joined(q, "or", e.filter.query), <<>>, parsed)),
                  UNION {parsed[i].filter.params : i \in DOMAIN parsed}),
           UNION {parsed[i].include : i \in DOMAIN parsed})

\* The code leaves out what came to a pair of brackets.
UnlessEmpty(parsed) == IF parsed.filter.query = Brackets(<<>>) THEN Parsed(Absent, {}) ELSE parsed

ParseList(entity, name, items, column, given) ==
    CASE Given(items) = {} -> Parsed(Absent, {})
      [] Given(items) # {} /\ IsSimple(items) -> Parsed(SimpleList(entity, items, column, given), {})
      [] ~IsSimple(items) /\ given.isTopLevel /\ name = <<"$or">> ->
            Either([i \in DOMAIN items |-> ParseInnerFilters(entity, items[i][2], name,
                                               column \o <<ToString(i - 1), "f">>, given.operator)])
      [] OTHER -> UnlessEmpty(ParseInnerFilters(entity, [i \in DOMAIN items |-> <<<<ToString(i - 1)>>, items[i]>>],
                                                name, column, given.operator))

ThroughRelation(entity, path, inner) ==
    Parsed(IF inner.filter = Absent THEN Empty ELSE inner.filter, RelationJoins(entity, path) \cup inner.include)

ParseField(entity, name, value, given) ==
    LET path   == Front(name)
        last   == <<name[Len(name)]>>
        alias  == IF given.alias # NotGiven THEN given.alias ELSE last
        column == IF given.column # NotGiven THEN given.column ELSE alias
        not    == given.operator = "$not"
    IN  CASE value = Missing -> Parsed(Absent, {})
          [] value # Missing /\ path # <<>> ->
                ThroughRelation(entity, path, ParseField(RelationAlias(entity, path), last, value,
                            [given EXCEPT !.alias = column, !.column = NotGiven, !.isTopLevel = FALSE]))
          [] OTHER ->
                CASE Is(value, "null") -> Parsed(Filter(One(Condition(entity, column, "null", not, <<>>)), {}), {})
                  [] Is(value, "list") -> ParseList(entity, name, value[2], column, given)
                  [] Is(value, "map")  -> ParseInnerFilters(entity, value[2], name, column, given.operator)
                  [] OTHER -> Parsed(ValueFilter(entity, column, alias, value, not, given.operator), {})

(***************************************************************************)
(* parseInnerFilters: the entries of an object, or the items of a list, of *)
(* one field, each under a parameter name numbered among those parsed.     *)
(***************************************************************************)
ParseInnerFilters(entity, entries, name, alias, operator) ==
    LET Add(sofar, one) ==
            LET query == IF Len(entries) > 1 THEN Brackets(one.filter.query) ELSE one.filter.query
            IN  IF one.filter.key # "filter" THEN sofar
                ELSE [count   |-> sofar.count + 1,
                      query   |-> Joined(sofar.query, IF operator = "$or" THEN "or" ELSE "and", query),
                      params  |-> sofar.params \cup one.filter.params,
                      include |-> sofar.include \cup one.include]
        More(sofar, key, value) ==
            Add(sofar, ParseField(entity, IF name = <<"$or">> THEN key ELSE name, value,
                           [alias |-> Append(alias, ToString(sofar.count)), column |-> alias,
                            operator |-> IF key[1] \in Operators THEN key[1] ELSE NotGiven,
                            isTopLevel |-> FALSE]))
        Finish(all) == Parsed(Filter(all.query, all.params), all.include)
    IN  Finish(FoldLeft(LAMBDA sofar, entry : More(sofar, entry[1], entry[2]),
                        [count |-> 0, query |-> <<>>, params |-> {}, include |-> {}], entries))

\* parseFilters: an entry of where per field, and every join they need.
AllFields(filters, each) ==
    [where   |-> [i \in DOMAIN each |-> <<filters[i][1], each[i].filter>>],
     include |-> UNION {each[i].include : i \in DOMAIN each}]

ParseFilters(entity, filters, fieldAliases) ==
    AllFields(filters,
        [i \in DOMAIN filters |->
            ParseField(entity, filters[i][1], filters[i][2],
                       [alias |-> IF filters[i][1] \in DOMAIN fieldAliases
                                  THEN fieldAliases[filters[i][1]] ELSE NotGiven,
                        column |-> NotGiven, operator |-> NotGiven, isTopLevel |-> TRUE])])

(***************************************************************************)
(* buildQuery: the entries of where in one row, without brackets of their  *)
(* own; $or's joined with "or".  The parameters of all of them are one     *)
(* object.                                                                 *)
(***************************************************************************)
Clauses(where) == SelectSeq(where, LAMBDA w : w[2].key = "undefined" \/ w[2].query # <<>>)

BuildQuery(where) ==
    LET clauses == Clauses(where)
    IN  [query  |-> FoldLeft(LAMBDA q, w : Joined(q, IF w[1] = <<"$or">> THEN "or" ELSE "and", w[2].query),
                             <<>>, clauses),
         params |-> UNION {clauses[i][2].params : i \in DOMAIN clauses},
         thrown |-> \E i \in DOMAIN clauses : clauses[i][2].key = "undefined"]

-----------------------------------------------------------------------------
(***************************************************************************)
(* What a query asks of a row: a function from <<entity, column>>.  "and"  *)
(* binds closer than "or".                                                 *)
(***************************************************************************)
AsksOf(condition, params, row) ==
    LET at == <<condition.entity, condition.column>>
        v  == row[at]
        Values(i) == {p[2] : p \in {q \in params : q[1] = condition.params[i]}}
        Bound(i)  == (CHOOSE x \in Values(i) : TRUE)[2]
        Listed    == UNION {Values(i) : i \in DOMAIN condition.params}
    IN  /\ at \in DOMAIN row
        /\ condition.op # "null" => v # NullValue
        /\ CASE condition.op = "null"     -> (v = NullValue) # condition.not
             [] condition.op = "$gt"      -> v[2] > Bound(1)
             [] condition.op = "$gte"     -> v[2] >= Bound(1)
             [] condition.op = "$lt"      -> v[2] < Bound(1)
             [] condition.op = "$lte"     -> v[2] <= Bound(1)
             [] condition.op = "$between" -> Bound(1) <= v[2] /\ v[2] <= Bound(2)
             [] condition.op = "in"       -> IF condition.not THEN {v, NullValue} \cap Listed = {}
                                             ELSE v \in Listed
             [] OTHER                     -> (v \in Values(1)) # condition.not

RECURSIVE Asks(_, _, _)
Asks(query, params, row) ==
    LET starts == {i \in DOMAIN query : i = 1 \/ query[i][1] = "or"}
        Of(i)  == {j \in DOMAIN query : i <= j /\ \A k \in i + 1 .. j : k \notin starts}
        Holds(term) == IF term[1] = "brackets" THEN Asks(term[2], params, row)
                       ELSE AsksOf(term[2], params, row)
    IN  query = <<>> \/ \E i \in starts : \A j \in Of(i) : Holds(query[j][2])

(***************************************************************************)
(* Reference: whether a row meets a filters object.                        *)
(***************************************************************************)
RECURSIVE Meets(_, _, _)
Meets(v, value, operator) ==
    CASE value = Missing    -> TRUE
      [] Is(value, "null")  -> (v = NullValue) # (operator = "$not")
      [] Is(value, "map")   -> \A i \in DOMAIN value[2] : Meets(v, value[2][i][2], value[2][i][1][1])
      [] Is(value, "list")  ->
            LET items == {value[2][i] : i \in Given(value[2])}
            IN  CASE items = {}            -> TRUE
                  [] items # {} /\ operator = "$not" -> v # NullValue /\ v \notin items
                                                        /\ NullValue \notin items
                  [] items # {} /\ operator = "$between" -> /\ v # NullValue
                                                  /\ value[2][1][2] <= v[2] /\ v[2] <= value[2][2][2]
                  [] OTHER -> IF operator = "$or" \/ IsSimple(value[2])
                              THEN \E i \in items : (i # NullValue \/ ~IsSimple(value[2])) /\ Meets(v, i, NotGiven)
                              ELSE \A i \in items : Meets(v, i, NotGiven)
      [] OTHER -> /\ v # NullValue
                  /\ CASE operator = "$gt"  -> v[2] > value[2]
                       [] operator = "$gte" -> v[2] >= value[2]
                       [] operator = "$lt"  -> v[2] < value[2]
                       [] operator = "$lte" -> v[2] <= value[2]
                       [] operator = "$not" -> v # value
                       [] OTHER             -> v = value

FieldAt(entity, name) == <<RelationAlias(entity, Front(name)), <<name[Len(name)]>>>>

\* Filters whose query cannot mean what they say: a parameter name given to two
\* values (every nested list counts from 0 again, and a relation's field and
\* the entity's own of the same name share theirs), an "or" beside another
\* field, which no brackets set apart, and an operator inside $not, which is lost.
Collides(params) == \E p, q \in params : p[1] = q[1] /\ p[2] # q[2]

HasLooseOr(query) == \E i \in DOMAIN query : i > 1 /\ query[i][1] = "or"

RECURSIVE HasNotOver(_)
HasNotOver(value) ==
    CASE Is(value, "map") -> \E i \in DOMAIN value[2] :
            LET key == value[2][i][1] inner == value[2][i][2]
            IN  HasNotOver(inner) \/ (key = <<"$not">> /\ (Is(inner, "map")
                    \/ (Is(inner, "list") /\ ~IsSimple(inner[2]))))
      [] Is(value, "list") -> \E i \in DOMAIN value[2] : HasNotOver(value[2][i])
      [] OTHER -> FALSE

\* The conditions of a query, those in brackets included.
RECURSIVE ConditionsOf(_)
ConditionsOf(query) ==
    UNION {IF query[i][2][1] = "brackets" THEN ConditionsOf(query[i][2][2]) ELSE {query[i][2][2]}
           : i \in DOMAIN query}

\* The query asks for the rows that meet the filters; whatever the filters,
\* every parameter it names is given, and parsing yields the joins that lead to
\* every entity it names.
FiltersMeanTheirObject(entity, filters, parsed, built, rows) ==
    LET joined == {entity} \cup {j.alias : j \in parsed.include}
        Exempt == \/ Collides(built.params)
                  \/ HasLooseOr(built.query) /\ Len(filters) > 1
                  \/ \E i \in DOMAIN filters : filters[i][1] = <<"$or">> \/ HasNotOver(filters[i][2])
                  \/ \E c \in ConditionsOf(built.query) : c.op = "$ilike"
    IN  /\ ~built.thrown /\ ~Exempt =>
               \A row \in rows : Asks(built.query, built.params, row)
                   = \A i \in DOMAIN filters : Meets(row[FieldAt(entity, filters[i][1])], filters[i][2], NotGiven)
        /\ \A c \in ConditionsOf(built.query) :
               /\ c.entity \in joined
               /\ \A i \in DOMAIN c.params : \E p \in built.params : p[1] = c.params[i]
        /\ IsJoinTree(entity, parsed.include)

=============================================================================
