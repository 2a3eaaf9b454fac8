---------------------------- MODULE AccessControl ----------------------------
(***************************************************************************)
(* Access control of one HTTP request: the authorization middleware        *)
(* (api-http), IAMAuthorizationService's API key and access checks         *)
(* (domain-iam) and the access control interceptor (api-http), composed as *)
(* the HTTP module chains them around a controller method.                 *)
(*                                                                         *)
(* An authorization point is a record: moduleName, resourceContext,        *)
(* resources; userField and inputField (<<>> when not given); and five     *)
(* maps from paths to values, each the sequence of its entries in the      *)
(* order the object enumerates them: static, allowedInput, forbiddenInput, *)
(* allowedOutput, forbiddenOutput.                                         *)
(***************************************************************************)
EXTENDS NestedValues

CONSTANTS Get(_, _, _),     \* getNested: what a path leads to in a parent, with options
          SetIn(_, _, _, _), \* setNested: a parent with a value set at a path
          ValuesAt(_, _),   \* the set of the values that a path selects (reference)
          Documents(_),     \* what a check by given lists may make of the data it is given
          Changes(_),       \* the changes it may make, pairs of a path and a value
          Exchanges,        \* what may be asked: request, config, at and the method's output
          None              \* no value

Options == [unique |-> FALSE, strip |-> TRUE]

(***************************************************************************)
(* Testing values.  A regular expression is the set of values whose text   *)
(* it matches, numbers are kept apart from the texts that read as one.     *)
(***************************************************************************)
Number(n)  == <<"number", n>>
Boolean(b) == <<"boolean", b>>
Regex(vs)  == <<"regex", vs>>

ParsedTexts == [t \in {Text("1"), Text("true"), Text("false")} |->
                    IF t = Text("1") THEN Number(1) ELSE Boolean(t = Text("true"))]

\* parseInt and parseFloat read an array as the text of its first item.
ValuesForTesting(v) ==
    LET read == IF IsArray(v) /\ v[2] # <<>> THEN v[2][1] ELSE v
        parsed == IF read \in DOMAIN ParsedTexts THEN ParsedTexts[read] ELSE read
    IN  {v} \cup (IF IsArray(v) => Kind(parsed) = "number" THEN {parsed} ELSE {})

TestValue(v, against) ==
    IF Kind(against) = "regex" THEN v # Undefined /\ v \in against[2]
    ELSE IF HasProperties(v) /\ HasProperties(against) THEN v = against
    ELSE against \in ValuesForTesting(v)

\* An object's entries: setting one keeps the place it already has.
Put(entries, path, v) ==
    IF \E i \in DOMAIN entries : entries[i][1] = path
    THEN [i \in DOMAIN entries |-> IF entries[i][1] = path THEN <<path, v>> ELSE entries[i]]
    ELSE Append(entries, <<path, v>>)

\* An object's entries with new ones set, one after the other (Object.assign).
PutAll(entries, new) ==
    LET put[i \in 0 .. Len(new)] == IF i = 0 THEN entries ELSE Put(put[i - 1], new[i][1], new[i][2])
    IN  put[Len(new)]

EntryAt(entries, path) ==
    LET at == {i \in DOMAIN entries : entries[i][1] = path}
    IN  IF at = {} THEN Undefined ELSE entries[CHOOSE i \in at : TRUE][2]

ItemsOf(v) == IF IsArray(v) THEN ToSet(v[2]) ELSE {v}

\* The items that pass a test against one of the allowed values, in their order.
Admits(allowed, v) == \E a \in allowed : TestValue(v, a)
Taken(kept, item, allowed) == IF Admits(allowed, item) THEN Append(kept, item) ELSE kept
Admitted(items, allowed) ==
    LET kept[i \in 0 .. Len(items)] == IF i = 0 THEN <<>> ELSE Taken(kept[i - 1], items[i], allowed)
    IN  kept[Len(items)]

(***************************************************************************)
(* matchInputValues: for every place a field was found at, what of its     *)
(* value is allowed.  The values kept so far are one array for all places  *)
(* of a field, and every place that held an array gets that array itself.  *)
(***************************************************************************)
MatchFound(found, allowed) ==
    LET At(i)   == IF i \in DOMAIN found.values THEN found.values[i] ELSE Undefined
        NoneOf(i) == \A v \in ItemsOf(At(i)) : ~Admits(allowed, v)
        Kept(i) == Admitted(IF IsArray(At(i)) THEN At(i)[2] ELSE <<At(i)>>, allowed)
        KeptTo(i) == FlattenSeq([j \in 1 .. i |-> Kept(j)])
        New(i)  == IF \A j \in 1 .. i : NoneOf(j) THEN Undefined
                   ELSE IF IsArray(At(i)) THEN Array(KeptTo(Len(found.paths))) ELSE KeptTo(i)[1]
    IN  [entries |-> [i \in DOMAIN found.paths |-> <<found.paths[i], New(i)>>], thrown |-> found.thrown]

MatchField(input, path, allowed) == MatchFound(Get(input, path, Options), ItemsOf(allowed))

Merged(matched) ==
    LET merged[i \in 0 .. Len(matched)] == IF i = 0 THEN <<>> ELSE PutAll(merged[i - 1], matched[i].entries)
    IN  [entries |-> merged[Len(matched)], thrown |-> \E i \in DOMAIN matched : matched[i].thrown]

MatchInputValues(input, values) ==
    Merged([i \in DOMAIN values |-> MatchField(input, values[i][1], values[i][2])])

(***************************************************************************)
(* The state of a check: the data as changed so far, the changes in the    *)
(* order of their fields, whether the point still grants access, whether   *)
(* the code threw.  The steps of a check leave it alone once it is over.   *)
(***************************************************************************)
Checking(data) == [data |-> data, changes |-> <<>>, granted |-> TRUE, thrown |-> FALSE]
Goes(c) == c.granted /\ ~c.thrown

\* Data with changes made to it, one after the other.
Applied(before, x, strip) ==
    LET set == SetIn(before.parent, x[1], x[2], strip)
    IN  [parent |-> set.parent, thrown |-> before.thrown \/ set.thrown]
ChangedBy(data, changes, strip) ==
    LET done[i \in 0 .. Len(changes)] ==
            IF i = 0 THEN [parent |-> data, thrown |-> FALSE] ELSE Applied(done[i - 1], changes[i], strip)
    IN  done[Len(changes)]

Changed(c, changes, done) ==
    [c EXCEPT !.data = done.parent, !.changes = PutAll(@, changes), !.thrown = @ \/ done.thrown]
Change(c, changes) == Changed(c, changes, ChangedBy(c.data, changes, Options.strip))

\* Required static data: the first field that does not pass ends the check.
CheckedData(input, user) == Object((<<"inputData">> :> input) @@ (<<"user">> :> user))
Passes(found, expected)  == ~found.thrown /\ TestValue(UnifiedValue(found), expected)

StoppedBy(c, found) == [c EXCEPT !.granted = FALSE, !.thrown = found.thrown]

CheckStaticData(c, user, static) ==
    LET found(i) == Get(CheckedData(c.data, user), static[i][1], Options)
        stops    == {i \in DOMAIN static : ~Passes(found(i), static[i][2])}
    IN  IF stops = {} THEN c
        ELSE StoppedBy(c, found(CHOOSE i \in stops : \A j \in stops : i <= j))

\* The user's value against the input's: filled in when the input has none,
\* cut down to the allowed items when it is an array.  An allowed number has
\* no length, and neither has a match the field's own path does not hold.
Bound(c, field, given, own, allowed) ==
    CASE own = Undefined   -> [c EXCEPT !.granted = FALSE]
      [] own # Undefined /\ given = Undefined -> Change(c, <<<<field, own>>>>)
      [] OTHER -> IF Kind(allowed) \notin {"text", "array"} THEN [c EXCEPT !.granted = FALSE]
                  ELSE IF IsArray(given) THEN Change(c, <<<<field, allowed>>>>) ELSE c

BoundTo(c, field, inInput, inUser) ==
    IF inInput.thrown \/ inUser.thrown THEN [c EXCEPT !.thrown = TRUE]
    ELSE Bound(c, field, UnifiedValue(inInput), UnifiedValue(inUser),
               EntryAt(MatchFound(inInput, ItemsOf(UnifiedValue(inUser))).entries, field))

CheckUserField(c, user, point) ==
    IF Goes(c) /\ point.userField # <<>> /\ point.inputField # <<>>
    THEN BoundTo(c, point.inputField, Get(c.data, point.inputField, Options),
                 Get(user, point.userField, Options))
    ELSE c

\* The white list leaves what it allows, the black list nothing of what it
\* names, whether or not the values match.
SetMatched(c, matched, keeps) ==
    LET changes == [i \in DOMAIN matched.entries |->
                        IF keeps THEN matched.entries[i] ELSE <<matched.entries[i][1], Undefined>>]
    IN  [Change(c, changes) EXCEPT !.thrown = @ \/ matched.thrown]
Whitelist(c, values) == IF Goes(c) THEN SetMatched(c, MatchInputValues(c.data, values), TRUE) ELSE c
\* Mutant of Blacklist: only matching values are removed.
BlacklistOfMatches(c, values) ==
    LET matched == MatchInputValues(c.data, values)
    IN  IF Goes(c)
        THEN SetMatched(c, [matched EXCEPT !.entries = SelectSeq(@, LAMBDA e : e[2] # Undefined)], FALSE)
        ELSE c
Blacklist(c, values) == IF Goes(c) THEN SetMatched(c, MatchInputValues(c.data, values), FALSE) ELSE c

CheckPoint(input, user, point) ==
    Blacklist(Whitelist(CheckUserField(CheckStaticData(Checking(input), user, point.static), user, point),
                        point.allowedInput), point.forbiddenInput)

\* Mutant of Concerns: a resource of the same name in another context will do.
ConcernsAnyContext(point, at) ==
    point.moduleName = at.moduleName /\ (at.resource # None => at.resource \in point.resources)

Concerns(point, at) ==
    /\ point.moduleName = at.moduleName
    /\ at.resource # None => /\ point.resourceContext = at.resourceContext
                             /\ at.resource \in point.resources

(***************************************************************************)
(* checkAccess: the points in the order of their ids up to the first that  *)
(* grants access, whose changes are the result.                            *)
(***************************************************************************)
Decision(points, check, at) ==
    LET ends  == {i \in DOMAIN points : Concerns(points[i], at) /\ (check[i].granted \/ check[i].thrown)}
        end   == CHOOSE i \in ends : \A j \in ends : i <= j
        other == {i \in DOMAIN points : points[i].moduleName # at.moduleName}
        unlisted == {i \in DOMAIN points \ other : ~Concerns(points[i], at)}
    IN  IF ends # {}
        THEN [hasAccess |-> TRUE, thrown |-> check[end].thrown, changes |-> check[end].changes,
              point |-> points[end], errorCode |-> None]
        ELSE [hasAccess |-> FALSE, thrown |-> FALSE, changes |-> <<>>, point |-> None,
              errorCode |-> CASE other = DOMAIN points    -> "RBACNoAccessToModule"
                              [] unlisted = DOMAIN points /\ points # <<>> -> "RBACNoAccessToResource"
                              [] OTHER                    -> "FGANoAccessToModule"]

CheckAccess(input, user, at) ==
    Decision(user.points, [i \in DOMAIN user.points |-> CheckPoint(input, user.data, user.points[i])], at)

\* processOutputData for the one point a check hands on.
ProcessOutputData(point, output) ==
    Blacklist(Whitelist(Checking(output), point.allowedOutput), point.forbiddenOutput)

(***************************************************************************)
(* The authorization middleware.  A request is a record: route (its parts) *)
(* and method; scheme, how it is authorized; apiKey and signature (what it *)
(* signs); hasQuery and hasBody; token, whether the bearer token or the    *)
(* cookie is accepted (IAMTokens), and its payload: hasUserId, and user,   *)
(* the user data it carries; stored, what the users service returns; and   *)
(* input, what checkAccess is given of the request.                        *)
(***************************************************************************)
\* authorizeApiKey: the configured key and, where a secret and an algorithm are
\* configured, a signature made with them.
SignatureContent(request) ==
    CASE request.method = "get" /\ request.hasQuery -> "query"
      [] request.method \in {"delete", "patch", "post", "put"} /\ request.hasBody -> "body"
      [] OTHER -> "url"

AuthorizeApiKey(request, config) ==
    /\ request.apiKey # None
    /\ request.apiKey = config.apiKey
    /\ config.signed => request.signature = SignatureContent(request)

\* checkRoutes: whether a route is the one given, with parameters for parts.
CheckRoutes(route, pattern) ==
    \/ pattern = <<"*">>
    \/ route = pattern
    \/ /\ ":id" \in ToSet(pattern)
       /\ Len(route) = Len(pattern)
       /\ \A i \in DOMAIN route : pattern[i] \in {route[i], ":id"}

IsAnonymous(request, config) ==
    \E r \in config.anonymousAccessRoutes :
        CheckRoutes(request.route, r.route) /\ request.method \in r.methods

Status(status) == [status |-> status, isAnonymous |-> FALSE, user |-> None]

Authorize(request, config) ==
    LET user == IF request.user = None THEN request.stored ELSE request.user
    IN  CASE IsAnonymous(request, config) -> [Status("next") EXCEPT !.isAnonymous = TRUE]
          [] ~IsAnonymous(request, config) /\ request.scheme = "ApiKey" ->
                Status(IF AuthorizeApiKey(request, config) THEN "next" ELSE "401")
          [] OTHER ->
                CASE ~config.tokenManager \/ ~request.token       -> Status("401")
                  [] ~config.usersService                         -> Status("next")
                  [] config.usersService /\ ~request.hasUserId    -> Status("401")
                  [] OTHER                                        -> [Status("next") EXCEPT !.user = user]

(***************************************************************************)
(* The access control interceptor: what reaches the controller's method    *)
(* and what of its output reaches the caller.  Without a user, reading its *)
(* points throws.                                                          *)
(***************************************************************************)
Answer(status, input, output, errorCode) ==
    [status |-> status, input |-> input, output |-> output, errorCode |-> errorCode]
Failed(status) == Answer(status, None, None, None)

Masked(input, output, mask, done) ==
    IF ~HasProperties(output) THEN Answer("200", input, output, None)
    ELSE IF mask.thrown \/ done.thrown THEN Answer("500", input, None, None)
    ELSE Answer("200", input, done.parent, None)

MaskedBy(input, output, mask) == Masked(input, output, mask, ChangedBy(output, mask.changes, FALSE))

Checked(access, changed, output) ==
    IF access.thrown THEN Failed("500")
    ELSE IF ~access.hasAccess THEN Answer("403", None, None, access.errorCode)
    ELSE IF changed.thrown THEN Failed("500")
    ELSE MaskedBy(changed.parent, output, ProcessOutputData(access.point, output))

CheckedFor(input, access, output) == Checked(access, ChangedBy(input, access.changes, Options.strip), output)

Intercept(request, locals, at, output) ==
    CASE locals.isAnonymous                           -> Answer("200", request.input, output, None)
      [] ~locals.isAnonymous /\ (at.moduleName = None \/ locals.user = None) -> Failed("500")
      [] OTHER -> CheckedFor(request.input, CheckAccess(request.input, locals.user, at), output)

\* The request through the chain: the CORS middleware answers every OPTIONS itself.
Handle(request, config, at, output) ==
    LET locals == Authorize(request, config)
    IN  IF request.method = "options" THEN Answer("200", None, None, None)
        ELSE IF locals.status = "next" THEN Intercept(request, locals, at, output)
        ELSE Failed(locals.status)
-----------------------------------------------------------------------------
(***************************************************************************)
(* One exchange with a caller.  The chain keeps nothing from one request   *)
(* to the next: a behaviour is one request, of any that may be made.       *)
(***************************************************************************)
VARIABLE exchange  \* what was asked and how it was answered, None before

Idle == exchange = None

Serve ==
    /\ exchange = None
    /\ \E e \in Exchanges :
           exchange' = [asked |-> e, answer |-> Handle(e.request, e.config, e.at, e.output)]

Service == Idle /\ [][Serve]_exchange
-----------------------------------------------------------------------------
(***************************************************************************)
(* What the chain promises.                                                *)
(***************************************************************************)
UserOf(request) == IF request.user = None THEN request.stored ELSE request.user

\* Whether one way to a field leads through an array.
UnderArray(doc, path) ==
    IsArray(doc) \/ \E k \in 1 .. Len(path) - 1 : \E v \in ValuesAt(doc, SubSeq(path, 1, k)) : IsArray(v)

\* A reading that does not throw finds the values that are there, one of them
\* at most unless the path leads through an array.
ReadsAsSelected(doc, path) ==
    LET found == Get(doc, path, Options)
    IN  ~found.thrown =>
            /\ found.paths \in Seq(Seq(STRING)) /\ found.values \in Seq(ValuesAt(doc, path))
            /\ ToSet(found.values) = ValuesAt(doc, path)
            /\ UnifiedValue(found) = Undefined <=> ValuesAt(doc, path) = {}
            /\ \A v \in ValuesAt(doc, path) : Undefined \notin ItemsOf(v)
            /\ ~UnderArray(doc, path) => Len(found.paths) <= 1 /\ Len(found.values) <= 1

\* The readings of a point's conditions.  A user's own values are data, they
\* hold no regular expressions.
ConditionsReadAsSelected(point, user, input) ==
    /\ \A i \in DOMAIN point.static : /\ point.static[i][2] # Undefined
                                       /\ ReadsAsSelected(CheckedData(input, user.data), point.static[i][1])
    /\ point.userField # <<>>  => /\ ReadsAsSelected(user.data, point.userField)
                                  /\ \A v \in ValuesAt(user.data, point.userField) :
                                         \A item \in ItemsOf(v) : Kind(item) # "regex"
    /\ point.inputField # <<>> => ReadsAsSelected(input, point.inputField)

(***************************************************************************)
(* What a check goes by: two lists and the field that is bound to the user *)
(* (<<>> when none is), for a point's input or for its output.             *)
(***************************************************************************)
Paths(entries) == {entries[i][1] : i \in DOMAIN entries}

InputLists(point)  == [allowed |-> point.allowedInput, forbidden |-> point.forbiddenInput, field |-> point.inputField]
OutputLists(point) == [allowed |-> point.allowedOutput, forbidden |-> point.forbiddenOutput, field |-> <<>>]
Fields(lists) == Paths(lists.allowed) \cup Paths(lists.forbidden) \cup ({lists.field} \ {<<>>})

Unbracketed(fields) == {p \in fields : ~HasBracket(p)}

\* A field that is read as one value, or that is read nowhere for its data is
\* an array, whose items setNested yet walks through.
Direct(doc, path) == ~UnderArray(doc, path) \/ (IsArray(doc) /\ ~IsIndex(path[1]))

\* The changes that leave a field as it is, and those that leave nothing of it.
Spares(path, v, field) ==
    ~Related(path, field) \/ (v = Undefined /\ ~Leads(field, path) /\ ~IsPrefix(path, field))
Removes(path, v, field) == v = Undefined /\ IsPrefix(path, field)

\* What access control needs of getNested.  A field is read where it is; where
\* nothing is found the path ends at the first name that has no value, and so
\* does the reading of every field behind that name.
ReadsFields(doc, path, fields) ==
    LET found == Get(doc, path, Options)
    IN  /\ found.thrown \in BOOLEAN
        /\ found.paths \in Seq(Seq(STRING)) /\ found.values \in Seq(ToSet(found.values))
        /\ \A v \in ToSet(found.values) : IsArray(v) => v[2] \in Seq(ToSet(v[2]))
        /\ ~found.thrown /\ ~UnderArray(doc, path) => ToSet(found.values) = ValuesAt(doc, path)
        /\ ~found.thrown /\ ~HasBracket(path) =>
               /\ Direct(doc, path) =>
                      /\ Len(found.paths) = 1
                      /\ IF found.values = <<>> THEN IsPrefix(found.paths[1], path)
                         ELSE found.paths = <<path>> /\ Len(found.values) = 1 /\ ~UnderArray(doc, path)
               /\ \A at \in ToSet(found.paths) :
                      /\ ~HasBracket(at)
                      /\ \A p \in Unbracketed(fields) :
                             /\ found.values = <<>> /\ IsPrefix(at, p) => Get(doc, p, Options) = found
                             /\ ~Related(path, p) => IF found.values = <<>> THEN ~Leads(p, at) ELSE ~Related(at, p)

\* What it needs of setNested.  A field is changed by what is set at its own
\* path or on the way to it only; an array on the way to it was one before.
SetsFields(doc, path, v, strip, lists) ==
    LET set == SetIn(doc, path, v, strip)
        new == set.parent
    IN  /\ set.thrown \in BOOLEAN
        /\ new \in Documents(lists)
        /\ IsArray(new) = IsArray(doc)
        /\ ~set.thrown /\ ~HasBracket(path) =>
               \A p \in Unbracketed(Fields(lists)) : Direct(doc, p) =>
                   /\ \/ Direct(new, p)
                      \/ /\ IsPrefix(path, p) /\ path # p /\ v # Undefined
                         /\ \A d \in Documents(lists) : v \in ValuesAt(d, path) => UnderArray(d, p)
                   /\ Spares(path, v, p) => /\ ValuesAt(new, p) \subseteq ValuesAt(doc, p)
                                            /\ ~IsArray(doc) => ValuesAt(new, p) = ValuesAt(doc, p)
                   /\ Removes(path, v, p) => ValuesAt(new, p) = {}
                   /\ path = p /\ ~IsArray(doc) =>
                          /\ ValuesAt(new, p) \subseteq {v}
                          /\ v # Undefined /\ (ValuesAt(doc, p) # {} \/ ~Get(doc, p, Options).thrown)
                                 => ValuesAt(new, p) = {v}

\* The changes by what is read of a field are among those a check may make.
ChangesOf(lists, entries) ==
    \A i \in DOMAIN entries : {entries[i], <<entries[i][1], Undefined>>} \subseteq Changes(lists)

\* A list is an object: its fields differ.
IsList(values) ==
    /\ values \in Seq(ToSet(values))
    /\ \A i \in DOMAIN values : /\ values[i][1] \in Seq(STRING) \ {<<>>} /\ Undefined \notin ItemsOf(values[i][2])
                                /\ \A j \in DOMAIN values : values[i][1] = values[j][1] => i = j

NestedFieldsMeet(lists) ==
    /\ IsList(lists.allowed) /\ IsList(lists.forbidden) /\ lists.field \in Seq(STRING)
    /\ Changes(lists) \subseteq {<<x[1], x[2]>> : x \in Changes(lists)}
    /\ \A doc \in Documents(lists) :
           /\ \A path \in Fields(lists) : ReadsFields(doc, path, Fields(lists))
           /\ \A x \in Changes(lists), strip \in BOOLEAN : SetsFields(doc, x[1], x[2], strip, lists)
           /\ \A values \in {lists.allowed, lists.forbidden} : \A i \in DOMAIN values :
                  ChangesOf(lists, MatchField(doc, values[i][1], values[i][2]).entries)

\* So are those that bind a field to the user's value.
BindsFields(point, user, input) ==
    LET own     == UnifiedValue(Get(user.data, point.userField, Options))
        inInput == Get(input, point.inputField, Options)
    IN  point.userField # <<>> /\ point.inputField # <<>> =>
            /\ <<point.inputField, own>> \in Changes(InputLists(point))
            /\ ChangesOf(InputLists(point), MatchFound(inInput, ItemsOf(own)).entries)

ListsOf(points) == {InputLists(points[i]) : i \in DOMAIN points} \cup {OutputLists(points[i]) : i \in DOMAIN points}
AllLists == UNION {ListsOf(u.points) : u \in {UserOf(e.request) : e \in Exchanges} \ {None}}

ASSUME NestedFieldsAssumption == \A lists \in AllLists : NestedFieldsMeet(lists)

\* The interceptor always names a resource: the method's own name if no other.
ASSUME ExchangesAssumption ==
    \A e \in Exchanges :
        LET user == UserOf(e.request)
        IN  /\ e.request.input # None /\ e.at.resource # None
            /\ user # None =>
                   /\ user.points \in Seq(ToSet(user.points))
                   /\ \A i \in DOMAIN user.points :
                          /\ ConditionsReadAsSelected(user.points[i], user, e.request.input)
                          /\ e.request.input \in Documents(InputLists(user.points[i]))
                          /\ HasProperties(e.output) => e.output \in Documents(OutputLists(user.points[i]))
                          /\ BindsFields(user.points[i], user, e.request.input)

Allows(allowed, v) == \E a \in ItemsOf(allowed) : TestValue(v, a)

\* Every value of the field, item by item, is one the allowed value admits.
Within(doc, path, allowed) == \A v \in ValuesAt(doc, path) : \A item \in ItemsOf(v) : Allows(allowed, item)

\* A field that no other of the same check has a part in.  The path of a
\* bracketed name, once its signs are removed, is the path of other fields.
Apart(path, others) == ~HasBracket(path) /\ \A q \in others : ~HasBracket(q) /\ ~Related(q, path)

\* A forbidden field within an allowed one, both apart from the others.
ForbiddenWithin(path, lists) ==
    \E q \in Paths(lists.allowed) \ (Paths(lists.forbidden) \cup {lists.field}) :
        /\ IsPrefix(q, path) /\ path \notin Paths(lists.allowed) \cup {lists.field}
        /\ \A p \in {path, q} : Apart(p, Fields(lists) \ {path, q})

\* The two lists, over fields that do not lie behind an array and do not
\* overlap: the changes of overlapping fields undo one another.
ListsHold(doc, original, lists) ==
    /\ \A i \in DOMAIN lists.allowed :
           LET p == lists.allowed[i][1]
           IN  ~UnderArray(original, p) /\ Apart(p, Fields(lists) \ {p}) => Within(doc, p, lists.allowed[i][2])
    /\ \A p \in Paths(lists.forbidden) :
           Direct(original, p) /\ (Apart(p, Fields(lists) \ {p}) \/ ForbiddenWithin(p, lists)) => ValuesAt(doc, p) = {}

\* A point's conditions on a request, in terms of the data the caller sent.
StaticDataHold(point, user, input) ==
    LET both == CheckedData(input, user.data)
    IN  \A i \in DOMAIN point.static :
            \/ UnderArray(both, point.static[i][1])
            \/ \E v \in ValuesAt(both, point.static[i][1]) : TestValue(v, point.static[i][2])

UserFieldHolds(point, user, input) ==
    point.userField # <<>> /\ point.inputField # <<>> =>
        \E own \in ValuesAt(user.data, point.userField) :
            \/ ValuesAt(input, point.inputField) = {}
            \/ \E v \in ValuesAt(input, point.inputField) : \E item \in ItemsOf(v) :
                   TestValue(item, own) \/ Allows(own, item)

\* A method runs only for an anonymous route or for a user some point grants
\* access to: of the module, with the resource, whose conditions the request
\* meets; and a refusal says no module only to a user without a point for it.
AccessAsGranted(request, config, at, answer) ==
    LET user   == UserOf(request)
        Grants(p) == /\ p.moduleName = at.moduleName
                     /\ at.resource \in p.resources /\ at.resourceContext = p.resourceContext
                     /\ StaticDataHold(p, user, request.input)
                     /\ UserFieldHolds(p, user, request.input)
    IN  /\ answer.input # None =>
               \/ \E r \in config.anonymousAccessRoutes :
                      request.method \in r.methods /\ CheckRoutes(request.route, r.route)
               \/ /\ request.token /\ request.hasUserId /\ request.scheme # "ApiKey"
                  /\ user # None
                  /\ \E i \in DOMAIN user.points : Grants(user.points[i])
        /\ answer.status = "403" =>
               /\ user # None
               /\ (answer.errorCode = "RBACNoAccessToModule")
                      <=> (\A i \in DOMAIN user.points : user.points[i].moduleName # at.moduleName)

\* A field bound to the user holds the user's values only, and holds one.
BindsAlone(point, user, given) ==
    /\ point.userField # <<>> /\ point.inputField # <<>>
    /\ ~UnderArray(user.data, point.userField) /\ ~UnderArray(given, point.inputField)
    /\ Apart(point.inputField, Paths(point.allowedInput) \cup Paths(point.forbiddenInput))

BoundToUser(point, user, input, given) ==
    BindsAlone(point, user, given) =>
        /\ ValuesAt(input, point.inputField) # {}
        /\ \A own \in ValuesAt(user.data, point.userField) : Within(input, point.inputField, own)

\* The point that grants the access: the request meets its conditions, and the
\* checks of the points before it refused.
GrantedBy(i, user, input, at) ==
    /\ Concerns(user.points[i], at)
    /\ StaticDataHold(user.points[i], user, input) /\ UserFieldHolds(user.points[i], user, input)
    /\ \A j \in 1 .. i - 1 : Concerns(user.points[j], at) => ~CheckPoint(input, user.data, user.points[j]).granted

\* What a method gets of the request and what the caller gets of its output
\* keep to the lists of the point that grants the access, and the field bound
\* to the user to the user's values, unless the lists name it too.
DataAsAllowed(request, config, at, output, answer) ==
    LET user == UserOf(request)
    IN  answer.input # None /\ ~IsAnonymous(request, config) =>
            \E i \in DOMAIN user.points :
                LET p == user.points[i]
                IN  /\ GrantedBy(i, user, request.input, at)
                    /\ ListsHold(answer.input, request.input, InputLists(p))
                    /\ BoundToUser(p, user, answer.input, request.input)
                    /\ answer.status = "200" /\ HasProperties(output) =>
                           ListsHold(answer.output, output, OutputLists(p))

\* A controller's method runs only for an anonymous route or a user to whom a
\* point grants it (HTTPAuthorizationMiddleware, HTTPAccessControlInterceptor,
\* IAMAuthorizationService.checkAccess).
RunsAsGranted ==
    exchange # None =>
        AccessAsGranted(exchange.asked.request, exchange.asked.config, exchange.asked.at, exchange.answer)

\* What the method is given and what the caller is answered keep to the lists
\* and the user's values of the granting point (checkAccess, processOutputData).
KeepsToLists ==
    exchange # None =>
        DataAsAllowed(exchange.asked.request, exchange.asked.config, exchange.asked.at, exchange.asked.output,
                      exchange.answer)
=============================================================================
