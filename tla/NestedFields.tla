---------------------------- MODULE NestedFields ----------------------------
(***************************************************************************)
(* getNested and setNested (core/src/common/utils): reading and writing a  *)
(* field of a nested object by a dotted path, through arrays, with the     *)
(* "$foo.bar$" brackets that make one name of several parts.               *)
(***************************************************************************)
EXTENDS NestedValues

(***************************************************************************)
(* The first name of a path and the parts behind it.  A part that opens    *)
(* runs to the first part that closes, unless another opens before that.   *)
(***************************************************************************)
ClosingParts(path) ==
    {i \in 2 .. Len(path) : path[i] \in DOMAIN Closing
                            /\ \A j \in 2 .. i : path[j] \notin DOMAIN Opening}

\* The name of the parts up to the last, with its signs or without them.
NameOf(parts, strip) ==
    IF strip THEN [parts EXCEPT ![1] = Opening[@], ![Len(parts)] = Closing[@]] ELSE parts

Bracketed(path, last, strip) ==
    [name |-> NameOf(SubSeq(path, 1, last), strip), rest |-> SubSeq(path, last + 1, Len(path))]

FirstName(path, strip) ==
    IF path[1] \in DOMAIN Opening /\ ClosingParts(path) # {}
    THEN Bracketed(path, Min(ClosingParts(path)), strip)
    ELSE [name |-> <<path[1]>>, rest |-> Tail(path)]

\* An array's item or a text's character.
ItemAt(v, i) == IF IsArray(v) THEN v[2][i] ELSE Text(SubSeq(v[2], i, i))

Property(v, name) ==
    CASE Kind(v) = "object" /\ name \in DOMAIN v[2] -> v[2][name]
      [] /\ Kind(v) \in {"array", "text"} /\ Len(name) = 1
         /\ IsIndex(name[1]) /\ Indexes[name[1]] <= Len(v[2]) -> ItemAt(v, Indexes[name[1]])
      [] OTHER -> Undefined

\* v with its property name set to new; an array grows up to the index.
WithProperty(v, name, new) ==
    IF IsArray(v)
    THEN LET at == Indexes[name[1]]
         IN  Array([i \in 1 .. (IF at > Len(v[2]) THEN at ELSE Len(v[2])) |->
                        IF i = at THEN new ELSE IF i \in DOMAIN v[2] THEN v[2][i] ELSE Undefined])
    ELSE Object([n \in (DOMAIN v[2] \cup {name}) \ (IF new = Undefined THEN {name} ELSE {}) |->
                     IF n = name THEN new ELSE v[2][n]])

(***************************************************************************)
(* getNested.  options.unique is arrayItemsShouldBeUnique, options.strip   *)
(* is removeNestedFieldEscapeSign.  thrown: the code read a property of    *)
(* null.  The path of a value found in an array holds the place of the     *)
(* value among those of its item (0, when the item has one), not the       *)
(* place of the item.                                                      *)
(***************************************************************************)
Found(paths, values) == [paths |-> paths, values |-> values, thrown |-> FALSE]
Thrown == [paths |-> <<>>, values |-> <<>>, thrown |-> TRUE]

\* indexOf compares objects and arrays by identity: each is a new one.
IsRepeated(v, values) == ~HasProperties(v) /\ v \in ToSet(values)

\* Mutant of FoundIn: a value counts as repeated within its own item only.
FoundInRepeating(found, inner, here, unique) ==
    [found EXCEPT !.paths  = @ \o [i \in DOMAIN inner.values |-> here \o <<ToString(i - 1)>> \o inner.paths[i]],
                  !.values = @ \o inner.values,
                  !.thrown = @ \/ inner.thrown]

\* The values found in one more item of the array at path here.
FoundIn(found, inner, here, unique) ==
    LET AddValue(sofar, i) ==
            IF unique /\ IsRepeated(inner.values[i], sofar.values) THEN sofar
            ELSE [sofar EXCEPT !.paths = Append(@, here \o <<ToString(i - 1)>> \o inner.paths[i]),
                               !.values = Append(@, inner.values[i])]
    IN  [FoldLeft(AddValue, found, [i \in DOMAIN inner.values |-> i])
             EXCEPT !.thrown = @ \/ inner.thrown]

RECURSIVE GetNested(_, _, _), GetFrom(_, _, _, _)

\* The next element, at here, and the rest of the path.
GetNext(next, rest, here, options) ==
    CASE next = Undefined                   -> Found(<<here>>, <<>>)
      [] next # Undefined /\ rest = <<>>    -> Found(<<here>>, <<next>>)
      [] next # Undefined /\ rest # <<>> /\ IsArray(next) /\ ~IsIndex(rest[1]) ->
            FoldLeft(LAMBDA found, item :
                         FoundIn(found, GetNested(item, rest, options), here, options.unique),
                     Found(<<>>, <<>>), next[2])
      [] OTHER -> GetFrom(next, rest, here, options)

GetBehind(element, first, done, options) ==
    GetNext(Property(element, first.name), first.rest, done \o first.name, options)

\* The loop over the names of the path: element is currentElement, done currentPath.
GetFrom(element, path, done, options) ==
    IF element = Null THEN Thrown
    ELSE GetBehind(element, FirstName(path, options.strip), done, options)

GetNested(parent, path, options) ==
    IF HasProperties(parent) /\ path # <<>>
    THEN GetFrom(parent, path, <<>>, options)
    ELSE Found(<<path>>, <<>>)

(***************************************************************************)
(* setNested: the parent it leaves and what it returns (set).  thrown: the *)
(* code set a property of something that can have none.  In an array the   *)
(* rest of the path is set in every item, and without the options.  A step *)
(* that is not there is created, although the comment (setNested.method.ts *)
(* line 9) and a test (setNested.spec.ts, lines 10-13) want false then.    *)
(***************************************************************************)
Set(parent, set) == [parent |-> parent, set |-> set, thrown |-> FALSE]

RECURSIVE SetNested(_, _, _, _)
\* A step that is undefined is created.
Created(child) == IF child = Undefined THEN Object(<<>>) ELSE child

SetInside(parent, name, inner) == [inner EXCEPT !.parent = WithProperty(parent, name, @)]

SetBehind(parent, first, value, strip) ==
    IF first.rest = <<>> THEN Set(WithProperty(parent, first.name, value), TRUE)
    ELSE SetInside(parent, first.name,
                   SetNested(Created(Property(parent, first.name)), first.rest, value, strip))

SetNested(parent, path, value, strip) ==
    CASE path = <<>> \/ parent = Null -> Set(parent, FALSE)
      [] path # <<>> /\ IsArray(parent) /\ ~IsIndex(path[1]) ->
            LET items == [i \in DOMAIN parent[2] |-> SetNested(parent[2][i], path, value, FALSE)]
            IN  [parent |-> Array([i \in DOMAIN items |-> items[i].parent]),
                 set    |-> \E i \in DOMAIN items : items[i].set,
                 thrown |-> \E i \in DOMAIN items : items[i].thrown]
      [] path # <<>> /\ parent # Null /\ ~HasProperties(parent) ->
            [Set(parent, FALSE) EXCEPT !.thrown = TRUE]
      [] OTHER -> SetBehind(parent, FirstName(path, strip), value, strip)
-----------------------------------------------------------------------------
(***************************************************************************)
(* Reference: what a path selects, as a set and with the names of the path *)
(* split beforehand.                                                       *)
(***************************************************************************)
RECURSIVE Names(_, _)
Names(path, strip) ==
    IF path = <<>> THEN <<>>
    ELSE LET first == FirstName(path, strip) IN <<first.name>> \o Names(first.rest, strip)

RECURSIVE Selected(_, _)
Selected(v, names) ==
    CASE names = <<>> -> {v}
      [] names # <<>> /\ IsArray(v) /\ ~IsIndex(names[1][1]) ->
            UNION {Selected(item, names) : item \in ToSet(v[2])}
      [] OTHER -> IF Property(v, names[1]) = Undefined THEN {}
                  ELSE Selected(Property(v, names[1]), Tail(names))

ValuesOf(doc, path) == Selected(doc, Names(path, TRUE))

\* Where get and set part: an array that is the root or stands directly in an
\* array, which only setNested walks through, and a bracket behind an array,
\* which setNested takes with its signs.
RECURSIVE HasArrayInArray(_)
HasArrayInArray(v) ==
    CASE Kind(v) = "object" -> \E n \in DOMAIN v[2] : HasArrayInArray(v[2][n])
      [] IsArray(v) -> \E i \in DOMAIN v[2] : IsArray(v[2][i]) \/ HasArrayInArray(v[2][i])
      [] OTHER -> FALSE

\* Reading finds exactly the values the path selects; with unique set, each scalar once.
GetFindsSelected(doc, path, options) ==
    LET found == GetNested(doc, path, options)
    IN  ~found.thrown =>
            /\ ToSet(found.values) = IF path = <<>> THEN {} ELSE Selected(doc, Names(path, options.strip))
            /\ options.unique => \A i, j \in DOMAIN found.values :
                   i # j /\ found.values[i] = found.values[j] => HasProperties(found.values[i])

\* What was set is what is read back (reading, unlike setting, throws at a null
\* on the way), and nothing else changed.
SetIsReadBack(doc, path, value, options, others) ==
    LET done  == SetNested(doc, path, value, options.strip)
        found == GetNested(done.parent, path, options)
    IN  /\ done.set /\ ~done.thrown /\ ~found.thrown => ToSet(found.values) = {value}
        /\ ~done.thrown => \A q \in others : ~Related(path, q) =>
               GetNested(done.parent, q, options).values = GetNested(doc, q, options).values
        /\ ~done.set /\ ~done.thrown => done.parent = doc

\* A field is read and set where its path says.
NestedFieldsAgree(doc, path, value, options, others) ==
    Kind(doc) = "object" /\ ~HasArrayInArray(doc) =>
        /\ GetFindsSelected(doc, path, options)
        /\ ~HasBracket(path) \/ ~options.strip => SetIsReadBack(doc, path, value, options, others)
=============================================================================
