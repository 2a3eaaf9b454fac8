---------------------------- MODULE MCAlgorithms ----------------------------
(***************************************************************************)
(* The pure algorithms over small inputs: each behaviour picks one of them *)
(* with its main input, then the rest of its inputs.                       *)
(***************************************************************************)
EXTENDS NestedFields, AccessControl, SQLFilters

MCOpening == [part \in {"$b"} |-> "b"]
MCClosing == [part \in {"c$"} |-> "c"]

VARIABLE trial
-----------------------------------------------------------------------------
(***************************************************************************)
(* Nested fields: documents over the names a, b and "b.c" (bracketed or    *)
(* not), with arrays of up to two items, null and texts of one or two      *)
(* characters.                                                             *)
(***************************************************************************)
Leaves  == {Null, Text("x"), Text("yx")}
Inner   == Leaves \cup {Object(<<"a">> :> v) : v \in Leaves}
                  \cup {Object((<<"a">> :> v) @@ (<<"b">> :> w)) : v \in {Text("x")}, w \in Leaves}
                  \cup {Object(n :> Text("y")) : n \in {<<"b", "c">>, <<"$b", "c$">>, <<"$b">>}}
                  \cup {Object(<<"b">> :> Object(<<"c">> :> v)) : v \in Leaves}
                  \cup {Array(<<>>)} \cup {Array(<<v>>) : v \in Leaves}
Middle  == Inner \cup {Array(<<v, w>>) : v, w \in Inner} \cup {Object(<<"b">> :> v) : v \in Inner}
Parents == {Object((<<"a">> :> v) @@ (<<"b">> :> w)) : v \in Middle, w \in {Text("x")}}
                 \cup {Object(<<>>)} \cup {Array(<<v>>) : v \in Inner}
FieldPaths == {<<>>, <<"a">>, <<"b">>, <<"a", "a">>, <<"a", "b">>, <<"a", "0">>, <<"a", "1", "a">>,
               <<"a", "b", "c">>, <<"a", "$b", "c$">>, <<"a", "b", "a">>, <<"a", "$b">>, <<"c", "a">>}
FieldOptions == [unique : BOOLEAN, strip : BOOLEAN]

(***************************************************************************)
(* Access: users with up to two points, and what they send and are sent.   *)
(***************************************************************************)
Body(fields) == Object(<<"body">> :> fields)
BodyA == <<"body", "a">>
Bodies == {Object(<<>>), Object(<<"a">> :> Text("x")), Object(<<"a">> :> Text("y")), Object(<<"a">> :> Text("1")),
           Object(<<"a">> :> Number(1)), Object(<<"a">> :> Array(<<Text("x"), Text("y")>>)),
           Object((<<"a">> :> Text("x")) @@ (<<"b">> :> Text("y"))),
           Object(<<"a">> :> Array(<<Object(<<"c">> :> Text("x")), Object(<<"c">> :> Text("y"))>>)),
           Object(<<"a">> :> Null), Object(<<"a">> :> Object(<<"c">> :> Text("y")))}
Inputs  == {Body(b) : b \in Bodies} \cup {Object(<<>>)}
Outputs == Bodies \cup {Text("x"), Array(<<Object(<<"a">> :> Text("y"))>>)}

Point == [moduleName |-> "m", resourceContext |-> "c", resources |-> {"r"}, userField |-> <<>>, inputField |-> <<>>,
          static |-> <<>>, allowedInput |-> <<>>, forbiddenInput |-> <<>>, allowedOutput |-> <<>>,
          forbiddenOutput |-> <<>>]
Elsewhere == {[Point EXCEPT !.moduleName = "n"], [Point EXCEPT !.resourceContext = "d"], [Point EXCEPT !.resources = {"q"}]}
Statics == {<<>>, <<<<<<"inputData">> \o BodyA, Text("x")>>>>,
            <<<<<<"inputData">> \o BodyA, Number(1)>>, <<<<"user", "role">>, Regex({Text("x"), Text("y")})>>>>}
UserFields == {<<<<>>, <<>>>>, <<<<"id">>, BodyA>>, <<<<"ids">>, BodyA>>, <<<<"none">>, BodyA>>, <<<<"id">>, <<"body", "a", "c">>>>}
Allowed   == {<<>>, <<<<BodyA, Text("x")>>>>, <<<<BodyA, Array(<<Text("y"), Number(1), Object(<<"c">> :> Text("y"))>>)>>, <<<<"body", "b">>, Text("y")>>>>,
              <<<<<<"body", "a", "c">>, Regex({Text("x")})>>>>}
Forbidden == {<<>>, <<<<<<"body", "b">>, Text("z")>>>>, <<<<<<"body", "a", "c">>, Text("x")>>>>,
              <<<<BodyA, Text("x")>>>>}
Inside(entries) == [i \in DOMAIN entries |-> <<Tail(entries[i][1]), entries[i][2]>>]
Points == {[Point EXCEPT !.static = st, !.userField = uf[1], !.inputField = uf[2], !.allowedInput = al,
                         !.forbiddenInput = fo, !.allowedOutput = Inside(al), !.forbiddenOutput = Inside(fo)]
           : st \in Statics, uf \in UserFields, al \in Allowed, fo \in Forbidden}
UserData == Object((<<"id">> :> Text("x")) @@ (<<"role">> :> Text("y")) @@ (<<"ids">> :> Array(<<Text("x"), Text("z")>>)))
Users == {[data |-> UserData,
           points |-> ps] : ps \in {<<p>> : p \in Points \cup Elsewhere} \cup {<<>>}
                                       \cup {<<p, q>> : p \in Elsewhere, q \in Elsewhere \cup {Point}}
                                       \cup {<<p, Point>> : p \in Points}}
OneUser == CHOOSE u \in Users : u.points = <<Point>>

At == [moduleName |-> "m", resourceContext |-> "c", resource |-> "r"]
Config == [anonymousAccessRoutes |-> {}, apiKey |-> "k", signed |-> TRUE, tokenManager |-> TRUE, usersService |-> TRUE]
Request == [route |-> <<"users", "1">>, method |-> "get", scheme |-> "Bearer", apiKey |-> None, signature |-> None,
            hasQuery |-> FALSE, hasBody |-> FALSE, token |-> TRUE, hasUserId |-> TRUE, user |-> None, stored |-> None,
            input |-> Body(Object(<<>>))]
Configs == [anonymousAccessRoutes : SUBSET {[route |-> <<"users", ":id">>, methods |-> {"get"}], [route |-> <<"*">>, methods |-> {"post"}]},
            apiKey : {"k"}, signed : BOOLEAN, tokenManager : BOOLEAN, usersService : BOOLEAN]
Requests == [route : {<<"users", "1">>, <<"types">>}, method : {"get", "post", "options"}, scheme : {"ApiKey"},
             apiKey : {None, "k", "l"}, signature : {None, "query", "body", "url"}, hasQuery : BOOLEAN,
             hasBody : BOOLEAN, token : {FALSE}, hasUserId : {FALSE}, user : {None}, stored : {None},
             input : {Body(Object(<<>>))}]
       \cup [route : {<<"users", "1">>, <<"types">>}, method : {"get", "post", "options"}, scheme : {"Bearer", "cookie"},
             apiKey : {None}, signature : {None}, hasQuery : {FALSE}, hasBody : {FALSE}, token : BOOLEAN,
             hasUserId : BOOLEAN, user : {None, OneUser}, stored : {None, OneUser}, input : {Body(Object(<<>>))}]

DataRequests == {[Request EXCEPT !.stored = user, !.input = input] : user \in Users, input \in Inputs}
(***************************************************************************)
(* What the checks may make of the bodies and outputs: from these, every   *)
(* change by what is read of a field, until there is nothing new.          *)
(***************************************************************************)
DataFor(lists) == IF \E p \in Fields(lists) : p[1] = "body" THEN Inputs ELSE Inputs \cup {o \in Outputs : HasProperties(o)}
Own(field) == IF field = <<>> THEN {} ELSE {UnifiedValue(Get(UserData, f[1], Options)) : f \in {f \in UserFields : f[2] = field}}
Entries(matched) == UNION {{matched.entries[i], <<matched.entries[i][1], Undefined>>} : i \in DOMAIN matched.entries}
ChangesFrom(docs, lists) ==
         {<<lists.field, own>> : own \in Own(lists.field)}
    \cup UNION {Entries(MatchFound(Get(d, lists.field, Options), ItemsOf(own))) :
                    d \in Inputs, own \in Own(lists.field)}
    \cup UNION {UNION {Entries(MatchField(d, values[i][1], values[i][2])) : d \in docs, i \in DOMAIN values} :
                    values \in {lists.allowed, lists.forbidden}}
RECURSIVE Reached(_, _)
Reached(lists, docs) ==
    LET changes == ChangesFrom(docs, lists)
        new == docs \cup {SetIn(d, x[1], x[2], strip).parent : d \in docs, x \in changes, strip \in BOOLEAN}
    IN  IF new = docs THEN [documents |-> docs, changes |-> changes] ELSE Reached(lists, new)
Sides == {[allowed |-> al, forbidden |-> fo, field |-> uf[2]] : al \in Allowed, fo \in Forbidden, uf \in UserFields}
             \cup {[allowed |-> Inside(al), forbidden |-> Inside(fo), field |-> <<>>] : al \in Allowed, fo \in Forbidden}
Families == {<<lists, Reached(lists, DataFor(lists))>> : lists \in Sides}
Family == [lists \in Sides |-> (CHOOSE f \in Families : f[1] = lists)[2]]
MCDocuments(lists) == Family[lists].documents
MCChanges(lists)   == Family[lists].changes

MCExchanges ==
         [request : DataRequests, config : {Config}, at : {At}, output : Outputs]
    \cup [request : Requests, config : Configs, at : {At, [At EXCEPT !.moduleName = None]}, output : {Text("x")}]

(***************************************************************************)
(* Filters: fields f and g of an entity e and f of its relation r, and of  *)
(* r's relation s.                                                         *)
(***************************************************************************)
Numbers == {Plain(1), Plain(2)}
Items   == Numbers \cup {NullValue, Missing}
Key(op, value) == <<<<op>>, value>>
Tests   == {Map(<<Key(op, Plain(2))>>) : op \in {"$gt", "$gte", "$lt", "$lte", "$not", "$like", "$ilike", "$contains", "$eq"}}
              \cup {Map(<<Key("$not", NullValue)>>), Map(<<Key("$not", List(<<Plain(1), Plain(2)>>))>>),
                    Map(<<Key("$between", List(<<Plain(1), Plain(2)>>))>>), Map(<<Key("$gt", Plain(1)), Key("$lt", Plain(3))>>),
                    Map(<<Key("$not", Map(<<Key("$gt", Plain(1))>>))>>), Map(<<>>)}
Simple  == Items \cup {List(s) : s \in {<<>>} \cup {<<i>> : i \in Items} \cup {<<i, j>> : i, j \in Items}}
FilterValues == Simple \cup Tests
                  \cup {Map(<<Key("$or", List(<<i, j>>))>>) : i, j \in Items \cup Tests}
                  \cup {List(<<i, j>>) : i \in Items, j \in Tests}
FilterObjects == {<<<<n, v>>>> : n \in {<<"f">>, <<"r", "f">>, <<"r", "s", "f">>}, v \in FilterValues}
                    \cup {<<<<<<"g">>, w>>, <<n, v>>>> : n \in {<<"f">>, <<"r", "g">>}, v \in FilterValues, w \in {Plain(1), NullValue, List(<<>>)}}
                    \cup {<<<<<<"$or">>, List(<<Map(<<<<<<"f">>, v>>>>), Map(<<<<<<"g">>, w>>, <<<<"r", "f">>, v>>>>)>>)>>>> : v, w \in Simple}
Entity == <<"e">>
Rows == [{<<Entity, <<"f">>>>, <<Entity, <<"g">>>>, <<<<"e", "r">>, <<"f">>>>} -> {Plain(1), Plain(2), Plain(3), NullValue}]
FullRows == {r @@ (<<<<"e", "r">>, <<"g">>>> :> r[<<Entity, <<"g">>>>])
               @@ (<<<<"e", "r", "s">>, <<"f">>>> :> r[<<Entity, <<"f">>>>]) : r \in Rows}
Relations == SUBSET {<<"r">>, <<"r", "s">>, <<"t">>}
Orders == {<<>>, <<<<"f">>>>, <<<<"r", "f">>>>, <<<<"t", "f">>, <<"g">>>>, <<<<"r", "s", "f">>>>}
-----------------------------------------------------------------------------
Init ==
    /\ \/ trial \in {<<"document", d>> : d \in Parents}
       \/ trial = <<"request">>
       \/ trial \in {<<"filters", f>> : f \in FilterObjects}
    /\ Idle

ReadAndSetField ==
    /\ trial[1] = "document"
    /\ \E path \in FieldPaths, options \in FieldOptions : trial' = <<"field", trial[2], path, options>>

HandleRequest == trial[1] = "request" /\ Serve /\ UNCHANGED trial

Parses(filters, parsed) == trial' = <<"query", filters, parsed, BuildQuery(parsed.where)>>

Parse == trial[1] = "filters" /\ Parses(trial[2], ParseFilters(Entity, trial[2], <<>>))

AskFor ==
    /\ trial[1] = "query"
    /\ \E relations \in Relations, orderBy \in Orders :
           trial' = <<"find", relations, orderBy,
                      FindQuery(Entity, trial[3], trial[4], relations, orderBy, {<<"f">>, <<"r", "f">>})>>

Next ==
    \/ HandleRequest
    \/ (ReadAndSetField \/ Parse \/ AskFor) /\ UNCHANGED exchange

Spec == Init /\ [][Next]_<<trial, exchange>>
-----------------------------------------------------------------------------
\* getNested reads the values a path selects, setNested sets what is read back
\* and nothing else, through arrays, indexes and bracketed names.
NestedFieldsRead ==
    trial[1] = "field" => NestedFieldsAgree(trial[2], trial[3], Text("z"), trial[4], FieldPaths)

=============================================================================
