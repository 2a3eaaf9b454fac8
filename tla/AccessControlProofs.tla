------------------------- MODULE AccessControlProofs -------------------------
(***************************************************************************)
(* RunsAsGranted and KeepsToLists, for any requests, users, points and     *)
(* configurations, and for any reading and setting of nested fields that   *)
(* ExchangesAssumption and NestedFieldsAssumption describe.                *)
(*                                                                         *)
(* The first part shows that what the code concludes from its readings is  *)
(* so of the data itself.  The second follows one field through a check:   *)
(* what each of the changes that are recorded means for it, that a list    *)
(* leaves it settled, and that making all recorded changes once more, to   *)
(* the data as it was sent, ends with the field as it was settled.         *)
(***************************************************************************)
EXTENDS AccessControl, WellFoundedInduction, TLAPS

\* A set of numbers has a least one.
LEMMA SmallestIndex ==
    ASSUME NEW T, T \subseteq Nat, T # {}
    PROVE  LET least == CHOOSE i \in T : \A j \in T : i <= j
           IN  least \in T /\ \A j \in T : least <= j
  <1>1. PICK R : R = {p \in Nat \X Nat : p[1] < p[2]} /\ IsWellFoundedOn(R, Nat)
    BY NatLessThanWellFounded DEF OpToRel
  <1>2. PICK i \in T : \A j \in T : <<j, i>> \notin R
    BY <1>1, WFMin
  <1>3. \A j \in T : i <= j
    <2>1. SUFFICES ASSUME NEW j \in T
                   PROVE  i <= j
      OBVIOUS
    <2>2. i \in Nat /\ j \in Nat /\ <<j, i>> \in Nat \X Nat /\ <<j, i>> \notin R
      BY <1>2
    <2>3. ~(j < i)
      BY <1>1, <2>2
    <2>4. QED
      BY <2>2, <2>3
  <1>4. QED
    BY <1>3

\* Nothing that was not found passes a test against something.
LEMMA UndefinedFails ==
    ASSUME NEW a, a # Undefined
    PROVE  ~TestValue(Undefined, a)
  <1>1. ~IsArray(Undefined) /\ ~HasProperties(Undefined)
    BY DEF IsArray, HasProperties, Kind, Undefined
  <1>2. DOMAIN ParsedTexts = {Text("1"), Text("true"), Text("false")}
    BY DEF ParsedTexts
  <1>3. Undefined \notin DOMAIN ParsedTexts
    BY <1>2 DEF Undefined, Text
  <1>4. ValuesForTesting(Undefined) \subseteq {Undefined}
    BY <1>1, <1>3 DEF ValuesForTesting
  <1>5. QED
    BY <1>1, <1>4 DEF TestValue

\* A unified value is one that was found, or the array of all of them.
LEMMA UnifiedValueFound ==
    ASSUME NEW S, NEW found, found.paths \in Seq(Seq(STRING)), found.values \in Seq(S),
           UnifiedValue(found) # Undefined
    PROVE  /\ UnifiedValue(found) \in S \/ UnifiedValue(found) = Array(found.values)
           /\ Len(found.paths) <= 1 /\ Len(found.values) <= 1 => UnifiedValue(found) \in S
  <1>1. CASE Len(found.paths) > 1 \/ Len(found.values) > 1
    BY <1>1 DEF UnifiedValue
  <1>2. CASE ~(Len(found.paths) > 1 \/ Len(found.values) > 1)
    <2>1. found.values # <<>> /\ UnifiedValue(found) = found.values[1]
      BY <1>2 DEF UnifiedValue
    <2>2. found.values[1] \in S
      BY <2>1
    <2>3. QED
      BY <2>1, <2>2
  <1>3. QED
    BY <1>1, <1>2

\* A field keeps something only where some item of a value found is allowed.
LEMMA KeptIsAllowed ==
    ASSUME NEW found, NEW allowed, NEW field,
           Kind(EntryAt(MatchFound(found, allowed).entries, field)) \in {"text", "array"}
    PROVE  \E j \in Int :
               \E v \in ItemsOf(IF j \in DOMAIN found.values THEN found.values[j] ELSE Undefined) :
                   \E a \in allowed : TestValue(v, a)
  <1> DEFINE At(i) == IF i \in DOMAIN found.values THEN found.values[i] ELSE Undefined
             NoneOf(i) == \A v \in ItemsOf(At(i)) : ~Admits(allowed, v)
             entries == MatchFound(found, allowed).entries
             at == {i \in DOMAIN entries : entries[i][1] = field}
  <1>1. Kind(Undefined) \notin {"text", "array"}
    BY DEF Kind, Undefined
  <1>2. at # {} /\ EntryAt(entries, field) = entries[CHOOSE i \in at : TRUE][2]
    BY <1>1 DEF EntryAt
  <1>3. PICK i \in at : EntryAt(entries, field) = entries[i][2]
    BY <1>2
  <1>4. i \in DOMAIN found.paths /\ ((\A j \in 1 .. i : NoneOf(j)) => entries[i][2] = Undefined)
    BY <1>3 DEF MatchFound
  <1>5. ~ \A j \in 1 .. i : NoneOf(j)
    BY <1>1, <1>3, <1>4
  <1>6. PICK j \in 1 .. i : ~NoneOf(j)
    BY <1>5
  <1>7. j \in Int
    BY <1>6
  <1>8. QED
    BY <1>6, <1>7 DEF Admits

\* A check of static data goes on only when every reading passes its test.
LEMMA StaticDataPass ==
    ASSUME NEW input, NEW user, NEW static, Goes(CheckStaticData(Checking(input), user, static))
    PROVE  /\ CheckStaticData(Checking(input), user, static) = Checking(input)
           /\ \A i \in DOMAIN static : Passes(Get(CheckedData(input, user), static[i][1], Options), static[i][2])
  <1> DEFINE c == Checking(input)
             found(i) == Get(CheckedData(c.data, user), static[i][1], Options)
             stops == {i \in DOMAIN static : ~Passes(found(i), static[i][2])}
  <1>1. c.data = input
    BY DEF Checking
  <1>2. CheckStaticData(c, user, static) =
            IF stops = {} THEN c ELSE StoppedBy(c, found(CHOOSE i \in stops : \A j \in stops : i <= j))
    BY DEF CheckStaticData
  <1>3. \A f : ~StoppedBy(c, f).granted
    BY DEF StoppedBy, Checking
  <1>4. stops = {}
    BY <1>2, <1>3 DEF Goes
  <1>5. QED
    BY <1>1, <1>2, <1>4

\* What passes the tests of static data holds of the data itself.
LEMMA StaticDataGranted ==
    ASSUME NEW point, NEW user, NEW input,
           \A i \in DOMAIN point.static : Passes(Get(CheckedData(input, user.data), point.static[i][1], Options),
                                                 point.static[i][2]),
           ConditionsReadAsSelected(point, user, input)
    PROVE  StaticDataHold(point, user, input)
  <1> DEFINE both == CheckedData(input, user.data)
  <1>1. SUFFICES ASSUME NEW i \in DOMAIN point.static, ~UnderArray(both, point.static[i][1])
                 PROVE  \E v \in ValuesAt(both, point.static[i][1]) : TestValue(v, point.static[i][2])
    BY DEF StaticDataHold
  <1> DEFINE path  == point.static[i][1]
             found == Get(both, path, Options)
  <1>2. ~found.thrown /\ TestValue(UnifiedValue(found), point.static[i][2])
    BY DEF Passes
  <1>3. ReadsAsSelected(both, path) /\ point.static[i][2] # Undefined
    BY DEF ConditionsReadAsSelected
  <1>4. UnifiedValue(found) # Undefined
    BY <1>2, <1>3, UndefinedFails
  <1>5. /\ found.paths \in Seq(Seq(STRING)) /\ found.values \in Seq(ValuesAt(both, path))
        /\ Len(found.paths) <= 1 /\ Len(found.values) <= 1
    BY <1>1, <1>2, <1>3 DEF ReadsAsSelected
  <1>6. UnifiedValue(found) \in ValuesAt(both, path)
    BY <1>4, <1>5, UnifiedValueFound
  <1>7. QED
    BY <1>2, <1>6

\* The user's field lets a request pass only with a value of the user's, or
\* where the request has none.
LEMMA UserFieldGranted ==
    ASSUME NEW point, NEW user, NEW input,
           Goes(CheckUserField(Checking(input), user.data, point)),
           ConditionsReadAsSelected(point, user, input)
    PROVE  UserFieldHolds(point, user, input)
  <1>1. SUFFICES ASSUME point.userField # <<>>, point.inputField # <<>>
                 PROVE  \E own \in ValuesAt(user.data, point.userField) :
                            \/ ValuesAt(input, point.inputField) = {}
                            \/ \E v \in ValuesAt(input, point.inputField) : \E item \in ItemsOf(v) :
                                   TestValue(item, own) \/ Allows(own, item)
    BY DEF UserFieldHolds
  <1> DEFINE c     == Checking(input)
             inInput == Get(input, point.inputField, Options)
             inUser  == Get(user.data, point.userField, Options)
             own     == UnifiedValue(inUser)
             given   == UnifiedValue(inInput)
             allowed == EntryAt(MatchFound(inInput, ItemsOf(own)).entries, point.inputField)
             Theirs  == ValuesAt(user.data, point.userField)
             Sent    == ValuesAt(input, point.inputField)
  <1>2. c.data = input /\ Goes(c)
    BY DEF Checking, Goes
  <1>3. CheckUserField(c, user.data, point) = BoundTo(c, point.inputField, inInput, inUser)
    BY <1>1, <1>2 DEF CheckUserField
  <1>4. ~inInput.thrown /\ ~inUser.thrown
    <2>1. SUFFICES ASSUME inInput.thrown \/ inUser.thrown
                   PROVE  FALSE
      OBVIOUS
    <2>2. BoundTo(c, point.inputField, inInput, inUser) = [c EXCEPT !.thrown = TRUE]
      BY <2>1 DEF BoundTo
    <2>3. QED
      BY <1>3, <2>2 DEF Goes, Checking
  <1>5. Goes(Bound(c, point.inputField, given, own, allowed))
    BY <1>3, <1>4 DEF BoundTo
  <1>6. ~Goes([c EXCEPT !.granted = FALSE])
    BY DEF Goes, Checking
  <1>7. own # Undefined
    BY <1>5, <1>6 DEF Bound
  <1>8. given = Undefined \/ Kind(allowed) \in {"text", "array"}
    BY <1>5, <1>6, <1>7 DEF Bound
  <1>9. /\ inUser.paths \in Seq(Seq(STRING)) /\ inUser.values \in Seq(Theirs)
        /\ \A v \in Theirs : Undefined \notin ItemsOf(v)
    BY <1>1, <1>4 DEF ConditionsReadAsSelected, ReadsAsSelected
  <1>10. /\ inInput.values \in Seq(Sent)
         /\ given = Undefined => Sent = {}
    BY <1>1, <1>4 DEF ConditionsReadAsSelected, ReadsAsSelected
  <1>11. own \in Theirs \/ own = Array(inUser.values)
    BY <1>7, <1>9, UnifiedValueFound
  <1>12. Theirs # {}
    BY <1>1, <1>4, <1>7 DEF ConditionsReadAsSelected, ReadsAsSelected
  <1>13. CASE given = Undefined
    BY <1>10, <1>12, <1>13
  <1>14. CASE given # Undefined
    <2>1. PICK j \in Int :
              \E v \in ItemsOf(IF j \in DOMAIN inInput.values THEN inInput.values[j] ELSE Undefined) :
                  \E a \in ItemsOf(own) : TestValue(v, a)
      BY <1>8, <1>14, KeptIsAllowed
    <2>2. PICK item \in ItemsOf(IF j \in DOMAIN inInput.values THEN inInput.values[j] ELSE Undefined),
               a \in ItemsOf(own) : TestValue(item, a)
      BY <2>1
    <2>3. PICK theirs \in Theirs : (a = theirs \/ a \in ItemsOf(theirs)) /\ a # Undefined
      <3>1. CASE own \in Theirs
        BY <1>9, <2>2, <3>1
      <3>2. CASE own = Array(inUser.values)
        <4>1. ItemsOf(own) = ToSet(inUser.values)
          BY <3>2 DEF ItemsOf, IsArray, Kind, Array
        <4>2. PICK m \in DOMAIN inUser.values : a = inUser.values[m]
          BY <2>2, <4>1 DEF ToSet
        <4>3. a \in Theirs
          BY <1>9, <4>2
        <4>4. Undefined \in ItemsOf(Undefined)
          BY DEF ItemsOf, IsArray, Kind, Undefined
        <4>5. QED
          BY <1>9, <4>3, <4>4
      <3>3. QED
        BY <1>11, <3>1, <3>2
    <2>4. j \in DOMAIN inInput.values
      <3>1. SUFFICES ASSUME j \notin DOMAIN inInput.values
                     PROVE  FALSE
        OBVIOUS
      <3>2. item = Undefined
        BY <2>2, <3>1 DEF ItemsOf, IsArray, Kind, Undefined
      <3>3. QED
        BY <2>2, <2>3, <3>2, UndefinedFails
    <2>5. inInput.values[j] \in Sent /\ item \in ItemsOf(inInput.values[j])
      BY <1>10, <2>2, <2>4
    <2>6. TestValue(item, theirs) \/ Allows(theirs, item)
      BY <2>2, <2>3 DEF Allows
    <2>7. QED
      BY <2>3, <2>5, <2>6
  <1>15. QED
    BY <1>13, <1>14

\* A point whose check goes on to its end holds on the data as it was sent.
LEMMA PointGranted ==
    ASSUME NEW point, NEW user, NEW input,
           Goes(CheckPoint(input, user.data, point)),
           ConditionsReadAsSelected(point, user, input)
    PROVE  StaticDataHold(point, user, input) /\ UserFieldHolds(point, user, input)
  <1> DEFINE tested == CheckStaticData(Checking(input), user.data, point.static)
             bound  == CheckUserField(tested, user.data, point)
             listed == Whitelist(bound, point.allowedInput)
  <1>1. Goes(listed)
    BY DEF CheckPoint, Blacklist
  <1>2. Goes(bound)
    BY <1>1 DEF Whitelist
  <1>3. Goes(tested)
    BY <1>2 DEF CheckUserField
  <1>4. /\ tested = Checking(input)
        /\ \A i \in DOMAIN point.static : Passes(Get(CheckedData(input, user.data), point.static[i][1], Options),
                                                 point.static[i][2])
    BY <1>3, StaticDataPass
  <1>5. QED
    BY <1>2, <1>4, StaticDataGranted, UserFieldGranted

\* checkAccess grants by one point that concerns the method and whose check
\* went on to its end, and tells a user without points in the module apart.
LEMMA DecisionOfPoint ==
    ASSUME NEW S, NEW points \in Seq(S), NEW check, NEW at
    PROVE  /\ Decision(points, check, at).hasAccess /\ ~Decision(points, check, at).thrown =>
                  \E i \in DOMAIN points : /\ Concerns(points[i], at) /\ Goes(check[i])
                                           /\ Decision(points, check, at).changes = check[i].changes
                                           /\ Decision(points, check, at).point = points[i]
                                           /\ \A j \in 1 .. i - 1 : Concerns(points[j], at) => ~check[j].granted
           /\ ~Decision(points, check, at).hasAccess =>
                  (Decision(points, check, at).errorCode = "RBACNoAccessToModule")
                      <=> (\A i \in DOMAIN points : points[i].moduleName # at.moduleName)
  <1> DEFINE access == Decision(points, check, at)
             ends  == {i \in DOMAIN points : Concerns(points[i], at) /\ (check[i].granted \/ check[i].thrown)}
             end   == CHOOSE i \in ends : \A j \in ends : i <= j
             other == {i \in DOMAIN points : points[i].moduleName # at.moduleName}
             unlisted == {i \in DOMAIN points \ other : ~Concerns(points[i], at)}
  <1>1. CASE ends # {}
    <2>1. /\ access.hasAccess /\ access.thrown = check[end].thrown
          /\ access.changes = check[end].changes /\ access.point = points[end]
      BY <1>1 DEF Decision
    <2>2. ends \subseteq Nat
      OBVIOUS
    <2>3. end \in ends /\ \A j \in ends : end <= j
      <3> HIDE DEF ends
      <3>1. QED
        BY <1>1, <2>2, SmallestIndex
    <2>4. \A j \in 1 .. end - 1 : Concerns(points[j], at) => ~check[j].granted
      <3>1. DOMAIN points = 1 .. Len(points) /\ Len(points) \in Nat
        OBVIOUS
      <3> DEFINE last == end
      <3>2. last \in 1 .. Len(points) /\ \A j \in ends : last <= j
        BY <2>3, <3>1
      <3> HIDE DEF last
      <3>3. \A j \in 1 .. last - 1 : j \in DOMAIN points /\ j \notin ends
        BY <3>1, <3>2
      <3>4. QED
        BY <3>3 DEF last
    <2>5. QED
      BY <2>1, <2>3, <2>4 DEF Goes
  <1>2. CASE ends = {}
    <2>1. ~access.hasAccess
      BY <1>2 DEF Decision
    <2>2. access.errorCode = CASE other = DOMAIN points    -> "RBACNoAccessToModule"
                               [] unlisted = DOMAIN points /\ points # <<>> -> "RBACNoAccessToResource"
                               [] OTHER                    -> "FGANoAccessToModule"
      BY <1>2 DEF Decision
    <2>3. other = DOMAIN points => ~(unlisted = DOMAIN points /\ points # <<>>)
      <3>1. SUFFICES ASSUME other = DOMAIN points, unlisted = DOMAIN points
                     PROVE  points = <<>>
        OBVIOUS
      <3>2. DOMAIN points = {}
        BY <3>1
      <3>3. QED
        BY <3>2
    <2>4. (access.errorCode = "RBACNoAccessToModule") = (other = DOMAIN points)
      <3>1. CASE other = DOMAIN points
        BY <2>2, <2>3, <3>1
      <3>2. CASE other # DOMAIN points
        BY <2>2, <3>2
      <3>3. QED
        BY <3>1, <3>2
    <2>5. QED
      BY <2>1, <2>4
  <1>3. QED
    BY <1>1, <1>2

\* Who passes the middleware with a user has a token with a user id.
LEMMA AuthorizedUser ==
    ASSUME NEW request, NEW config
    PROVE  LET locals == Authorize(request, config)
           IN  /\ locals.isAnonymous => IsAnonymous(request, config)
               /\ locals.user # None =>
                      /\ request.token /\ request.hasUserId /\ request.scheme # "ApiKey"
                      /\ locals.user = UserOf(request)
               /\ locals.status \in {"next", "401"}
  BY DEF Authorize, UserOf, Status

\* A method runs, or a caller is refused, only as checkAccess decides.
LEMMA AnswerOfCheck ==
    ASSUME NEW input, NEW access, NEW output, input # None
    PROVE  LET answer == CheckedFor(input, access, output)
           IN  /\ answer.input # None => access.hasAccess /\ ~access.thrown
               /\ answer.status = "403" => ~access.hasAccess /\ answer.errorCode = access.errorCode
  BY DEF CheckedFor, Checked, Failed, Answer, MaskedBy, Masked

\* Every answer of the chain is one that the user's points allow.
LEMMA AnswerAsGranted ==
    ASSUME NEW S, NEW request, NEW config, NEW at, NEW output,
           request.input # None, at.resource # None,
           UserOf(request) # None =>
               /\ UserOf(request).points \in Seq(S)
               /\ \A i \in DOMAIN UserOf(request).points :
                      ConditionsReadAsSelected(UserOf(request).points[i], UserOf(request), request.input)
    PROVE  AccessAsGranted(request, config, at, Handle(request, config, at, output))
  <1> DEFINE locals == Authorize(request, config)
             user   == UserOf(request)
             answer == Handle(request, config, at, output)
             access == CheckAccess(request.input, user, at)
  <1>1. CASE request.method = "options"
    BY <1>1 DEF Handle, AccessAsGranted, Answer
  <1>2. CASE request.method # "options" /\ locals.status # "next"
    BY <1>2, AuthorizedUser DEF Handle, AccessAsGranted, Failed, Answer
  <1>3. CASE request.method # "options" /\ locals.status = "next" /\ locals.isAnonymous
    <2>1. answer = Answer("200", request.input, output, None)
      BY <1>3 DEF Handle, Intercept
    <2>2. \E r \in config.anonymousAccessRoutes :
              request.method \in r.methods /\ CheckRoutes(request.route, r.route)
      BY <1>3, AuthorizedUser DEF IsAnonymous
    <2>3. QED
      BY <2>1, <2>2 DEF AccessAsGranted, Answer
  <1>4. CASE /\ request.method # "options" /\ locals.status = "next" /\ ~locals.isAnonymous
             /\ at.moduleName = None \/ locals.user = None
    <2>1. answer = Failed("500")
      BY <1>4 DEF Handle, Intercept
    <2>2. QED
      BY <2>1 DEF AccessAsGranted, Failed, Answer
  <1>5. CASE /\ request.method # "options" /\ locals.status = "next" /\ ~locals.isAnonymous
             /\ at.moduleName # None /\ locals.user # None
    <2>1. /\ request.token /\ request.hasUserId /\ request.scheme # "ApiKey"
          /\ locals.user = user /\ user # None
      BY <1>5, AuthorizedUser
    <2>2. answer = CheckedFor(request.input, access, output)
      BY <1>5, <2>1 DEF Handle, Intercept
    <2>3. user.points \in Seq(S)
      BY <2>1
    <2> DEFINE check == [i \in DOMAIN user.points |-> CheckPoint(request.input, user.data, user.points[i])]
    <2>4. access = Decision(user.points, check, at)
      BY DEF CheckAccess
    <2>5. ASSUME answer.input # None
          PROVE  \E i \in DOMAIN user.points :
                     LET p == user.points[i]
                     IN  /\ p.moduleName = at.moduleName
                         /\ at.resource \in p.resources /\ at.resourceContext = p.resourceContext
                         /\ StaticDataHold(p, user, request.input)
                         /\ UserFieldHolds(p, user, request.input)
      <3>1. access.hasAccess /\ ~access.thrown
        BY <2>2, <2>5, AnswerOfCheck
      <3>2. PICK i \in DOMAIN user.points : Concerns(user.points[i], at) /\ Goes(check[i])
        BY <2>3, <2>4, <3>1, DecisionOfPoint
      <3>3. Goes(CheckPoint(request.input, user.data, user.points[i]))
        BY <3>2
      <3>4. ConditionsReadAsSelected(user.points[i], user, request.input)
        BY <2>1
      <3>5. StaticDataHold(user.points[i], user, request.input) /\ UserFieldHolds(user.points[i], user, request.input)
        BY <3>3, <3>4, PointGranted
      <3>6. QED
        BY <3>2, <3>5 DEF Concerns
    <2>6. ASSUME answer.status = "403"
          PROVE  (answer.errorCode = "RBACNoAccessToModule")
                     <=> (\A i \in DOMAIN user.points : user.points[i].moduleName # at.moduleName)
      <3>1. ~access.hasAccess /\ answer.errorCode = access.errorCode
        BY <2>2, <2>6, AnswerOfCheck
      <3>2. (access.errorCode = "RBACNoAccessToModule")
                <=> (\A i \in DOMAIN user.points : user.points[i].moduleName # at.moduleName)
        <4> HIDE DEF access, user, check
        <4>1. QED
          BY <2>3, <2>4, <3>1, DecisionOfPoint
      <3>3. QED
        BY <3>1, <3>2
    <2>7. QED
      BY <2>1, <2>5, <2>6 DEF AccessAsGranted
  <1>6. QED
    BY <1>1, <1>2, <1>3, <1>4, <1>5
-----------------------------------------------------------------------------
\* Every exchange is one of those that may be made, answered by the chain.
Answered ==
    exchange # None =>
        exchange \in {[asked |-> e, answer |-> Handle(e.request, e.config, e.at, e.output)] : e \in Exchanges}

\* So is every exchange.
LEMMA AnsweredIsGranted == Answered => RunsAsGranted
  <1>1. SUFFICES ASSUME NEW e \in Exchanges,
                        exchange = [asked |-> e, answer |-> Handle(e.request, e.config, e.at, e.output)]
                 PROVE  AccessAsGranted(e.request, e.config, e.at, Handle(e.request, e.config, e.at, e.output))
    BY DEF Answered, RunsAsGranted
  <1> DEFINE user == UserOf(e.request)
  <1>2. /\ e.request.input # None /\ e.at.resource # None
        /\ user # None => /\ user.points \in Seq(ToSet(user.points))
                          /\ \A i \in DOMAIN user.points :
                                 ConditionsReadAsSelected(user.points[i], user, e.request.input)
    BY ExchangesAssumption
  <1>3. QED
    BY <1>2, AnswerAsGranted

\* Whatever is asked of the chain, a controller's method runs only on an
\* anonymous route or for a user one of whose points grants the access: of its
\* module, context and resource, with static data and a user's field that hold
\* of the data as the caller sent it (Handle, checkAccess).
THEOREM MethodsRunAsGranted == Service => []RunsAsGranted
  <1>1. Idle => Answered
    BY DEF Idle, Answered
  <1>2. Answered /\ [Serve]_exchange => Answered'
    BY DEF Answered, Serve
  <1>3. QED
    BY <1>1, <1>2, AnsweredIsGranted, PTL DEF Service
-----------------------------------------------------------------------------
\* A set that holds zero and with each number the next holds them all.
LEMMA Upto ==
    ASSUME NEW T, 0 \in T, \A i \in Nat : i \in T => i + 1 \in T
    PROVE  Nat \subseteq T
  <1> DEFINE Out == Nat \ T
             least == CHOOSE i \in Out : \A j \in Out : i <= j
  <1>1. SUFFICES ASSUME Out # {}
                 PROVE  FALSE
    OBVIOUS
  <1>2. least \in Out /\ \A j \in Out : least <= j
    <2>1. Out \subseteq Nat
      OBVIOUS
    <2> HIDE DEF Out
    <2>2. QED
      BY <1>1, <2>1, SmallestIndex
  <1>3. PICK i \in Out : \A j \in Out : i <= j
    BY <1>2
  <1>4. i \in Nat /\ i # 0 /\ i - 1 \in Nat /\ i - 1 \notin Out
    BY <1>3
  <1>5. i - 1 \in T /\ (i - 1) + 1 = i
    BY <1>4
  <1>6. i \in T
    BY <1>4, <1>5
  <1>7. QED
    BY <1>3, <1>6

\* A recursion over the places of a sequence has a value at each of them.
IsRun(run, n, b, G) == run[0] = b /\ \A i \in 1 .. n : run[i] = G[<<run[i - 1], i>>]

\* Such a recursion has a solution, a function over all the places.
LEMMA RunExists ==
    ASSUME NEW S, NEW n \in Nat, NEW b \in S, NEW G \in [S \X (1 .. n) -> S]
    PROVE  \E run \in [0 .. n -> S] : IsRun(run, n, b, G)
  <1> DEFINE Runs(m, run) == /\ run \in [0 .. m -> S] /\ run[0] = b
                             /\ \A i \in 1 .. m : run[i] = G[<<run[i - 1], i>>]
             T == {m \in Nat : m <= n => \E run \in [0 .. m -> S] : Runs(m, run)}
  <1>1. 0 \in T
    <2>1. Runs(0, [i \in 0 .. 0 |-> b])
      OBVIOUS
    <2>2. QED
      BY <2>1
  <1>2. ASSUME NEW m \in Nat, m \in T
        PROVE  m + 1 \in T
    <2>1. SUFFICES ASSUME m + 1 <= n
                   PROVE  \E run \in [0 .. m + 1 -> S] : Runs(m + 1, run)
      OBVIOUS
    <2>2. PICK run \in [0 .. m -> S] : Runs(m, run)
      BY <1>2, <2>1
    <2> DEFINE next == [i \in 0 .. m + 1 |-> IF i = m + 1 THEN G[<<run[m], m + 1>>] ELSE run[i]]
    <2>3. G[<<run[m], m + 1>>] \in S
      BY <2>1, <2>2
    <2>4. next \in [0 .. m + 1 -> S] /\ next[0] = b
      BY <2>2, <2>3
    <2>5. ASSUME NEW i \in 1 .. m + 1
          PROVE  next[i] = G[<<next[i - 1], i>>]
      <3>1. CASE i = m + 1
        <4>1. i - 1 = m /\ m # m + 1 /\ m \in 0 .. m + 1
          BY <3>1
        <4>2. next[i - 1] = run[m] /\ next[i] = G[<<run[m], m + 1>>]
          BY <3>1, <4>1
        <4>3. QED
          BY <3>1, <4>2
      <3>2. CASE i # m + 1
        <4>1. i \in 1 .. m /\ i - 1 \in 0 .. m
          BY <3>2
        <4>2. next[i] = run[i] /\ next[i - 1] = run[i - 1]
          BY <4>1
        <4>3. QED
          BY <2>2, <4>1, <4>2
      <3>3. QED
        BY <3>1, <3>2
    <2>6. Runs(m + 1, next)
      BY <2>4, <2>5
    <2>7. QED
      BY <2>4, <2>6
  <1>3. n \in T
    <2> HIDE DEF T
    <2>1. QED
      BY <1>1, <1>2, Upto
  <1>4. PICK run \in [0 .. n -> S] : Runs(n, run)
    BY <1>3
  <1>5. IsRun(run, n, b, G)
    BY <1>4 DEF IsRun
  <1>6. QED
    BY <1>5

\* What setting one entry leaves of an object's entries.
SetsEntry(put, X, entries, x) ==
    /\ put \in Seq(X) /\ Len(entries) <= Len(put)
    /\ \A i \in DOMAIN entries : put[i][1] = entries[i][1]
    /\ \A i \in DOMAIN put : put[i] = x \/ (i \in DOMAIN entries /\ put[i] = entries[i] /\ entries[i][1] # x[1])
    /\ \E i \in DOMAIN put : put[i] = x

\* Put sets its entry, and only that one.
LEMMA PutKeeps ==
    ASSUME NEW X, NEW entries \in Seq(X), NEW x \in X, x = <<x[1], x[2]>>
    PROVE  SetsEntry(Put(entries, x[1], x[2]), X, entries, x)
  <1>1. CASE \E i \in DOMAIN entries : entries[i][1] = x[1]
    <2> DEFINE put == [i \in DOMAIN entries |-> IF entries[i][1] = x[1] THEN <<x[1], x[2]>> ELSE entries[i]]
    <2>1. Put(entries, x[1], x[2]) = put
      BY <1>1 DEF Put
    <2>2. DOMAIN entries = 1 .. Len(entries) /\ Len(entries) \in Nat
      OBVIOUS
    <2>3. \A i \in 1 .. Len(entries) : put[i] \in X
      BY <2>2
    <2>4. put \in [1 .. Len(entries) -> X]
      BY <2>2, <2>3
    <2>5. put \in Seq(X) /\ Len(put) = Len(entries)
      BY <2>2, <2>4
    <2>6. /\ \A i \in DOMAIN entries : put[i][1] = entries[i][1]
          /\ \A i \in DOMAIN put :
                 put[i] = x \/ (i \in DOMAIN entries /\ put[i] = entries[i] /\ entries[i][1] # x[1])
          /\ \E i \in DOMAIN put : put[i] = x
      BY <1>1
    <2> HIDE DEF put
    <2>7. QED
      BY <2>1, <2>2, <2>5, <2>6 DEF SetsEntry
  <1>2. CASE ~ \E i \in DOMAIN entries : entries[i][1] = x[1]
    <2> DEFINE put == Append(entries, x)
    <2>1. Put(entries, x[1], x[2]) = put
      BY <1>2 DEF Put
    <2>2. put \in Seq(X) /\ Len(put) = Len(entries) + 1 /\ DOMAIN put = 1 .. Len(entries) + 1
      OBVIOUS
    <2>3. put[Len(entries) + 1] = x /\ \A i \in DOMAIN entries : put[i] = entries[i]
      OBVIOUS
    <2>4. QED
      BY <1>2, <2>1, <2>2, <2>3 DEF SetsEntry
  <1>3. QED
    BY <1>1, <1>2

\* The entries so far, as each new one is set.
PutsOneByOne(run, X, entries, new) ==
    /\ run \in [0 .. Len(new) -> Seq(X)] /\ run[0] = entries
    /\ \A i \in 1 .. Len(new) : run[i] = Put(run[i - 1], new[i][1], new[i][2])

\* PutAll is the last of the entries put one by one.
LEMMA PutRun ==
    ASSUME NEW X, NEW entries \in Seq(X), NEW new \in Seq(X), \A x \in X : x = <<x[1], x[2]>>
    PROVE  \E run : PutsOneByOne(run, X, entries, new) /\ PutAll(entries, new) = run[Len(new)]
  <1> DEFINE n == Len(new)
             S == Seq(X)
             G == [z \in S \X (1 .. n) |-> Put(z[1], new[z[2]][1], new[z[2]][2])]
             Is(run) == run = [i \in 0 .. n |-> IF i = 0 THEN entries ELSE Put(run[i - 1], new[i][1], new[i][2])]
  <1>0. n \in Nat
    OBVIOUS
  <1>1. ASSUME NEW r \in S, NEW i \in 1 .. n
        PROVE  Put(r, new[i][1], new[i][2]) \in S
    <2>1. r \in Seq(X) /\ new[i] \in X
      OBVIOUS
    <2>2. QED
      BY <2>1, PutKeeps DEF SetsEntry
  <1>2. G \in [S \X (1 .. n) -> S] /\ entries \in S
    <2>1. entries \in S
      OBVIOUS
    <2>2. \A z \in S \X (1 .. n) : Put(z[1], new[z[2]][1], new[z[2]][2]) \in S
      <3> HIDE DEF S, n
      <3>1. QED
        BY <1>1
    <2>3. QED
      BY <2>1, <2>2
  <1>3. PICK run \in [0 .. n -> S] : IsRun(run, n, entries, G)
    <2> HIDE DEF G, n, S
    <2>1. QED
      BY <1>0, <1>2, RunExists
  <1>4. Is(run)
    <2>1. ASSUME NEW i \in 0 .. n
          PROVE  run[i] = IF i = 0 THEN entries ELSE Put(run[i - 1], new[i][1], new[i][2])
      <3>1. CASE i = 0
        BY <1>3, <3>1 DEF IsRun
      <3>2. CASE i # 0
        <4>1. i \in 1 .. n /\ i - 1 \in 0 .. n
          BY <1>0, <3>2
        <4>2. <<run[i - 1], i>> \in S \X (1 .. n)
          BY <1>3, <4>1
        <4>3. G[<<run[i - 1], i>>] = Put(run[i - 1], new[i][1], new[i][2])
          BY <4>2
        <4>4. run[i] = G[<<run[i - 1], i>>]
          <5> HIDE DEF G
          <5>1. QED
            BY <1>3, <4>1 DEF IsRun
        <4>5. QED
          BY <3>2, <4>3, <4>4
      <3>3. QED
        BY <3>1, <3>2
    <2>2. QED
      BY <1>3, <2>1
  <1> DEFINE chosen == CHOOSE f : Is(f)
  <1>5. Is(chosen)
    <2> HIDE DEF Is
    <2>1. QED
      BY <1>4, Zenon
  <1>6. PutAll(entries, new) = chosen[Len(new)]
    BY DEF PutAll
  <1> HIDE DEF chosen
  <1>7. /\ chosen[0] = entries
        /\ \A i \in 1 .. n : chosen[i] = Put(chosen[i - 1], new[i][1], new[i][2])
        /\ chosen = [i \in 0 .. n |-> chosen[i]]
    <2> HIDE DEF n, S, G
    <2>0. \A i \in 0 .. n : chosen[i] = IF i = 0 THEN entries ELSE Put(chosen[i - 1], new[i][1], new[i][2])
      BY <1>5
    <2>1. chosen[0] = entries
      BY <1>0, <2>0
    <2>2. \A i \in 1 .. n : chosen[i] = Put(chosen[i - 1], new[i][1], new[i][2])
      BY <1>0, <2>0
    <2>3. chosen = [i \in 0 .. n |-> chosen[i]]
      BY <1>5
    <2>4. QED
      BY <2>1, <2>2, <2>3
  <1>8. chosen \in [0 .. n -> S]
    <2> DEFINE T == {i \in Nat : i <= n => chosen[i] \in S}
    <2>1. 0 \in T
      BY <1>2, <1>7
    <2>2. ASSUME NEW i \in Nat, i \in T
          PROVE  i + 1 \in T
      <3>1. SUFFICES ASSUME i + 1 <= n
                     PROVE  chosen[i + 1] \in S
        OBVIOUS
      <3>2. chosen[i] \in S /\ i + 1 \in 1 .. n /\ (i + 1) - 1 = i
        BY <1>0, <2>2, <3>1
      <3>3. Put(chosen[i], new[i + 1][1], new[i + 1][2]) \in S
        <4> HIDE DEF S, n
        <4>1. QED
          BY <1>1, <3>2
      <3>4. chosen[i + 1] = Put(chosen[i], new[i + 1][1], new[i + 1][2])
        BY <1>7, <3>2
      <3>5. QED
        BY <3>3, <3>4
    <2>3. Nat \subseteq T
      <3> HIDE DEF T
      <3>1. QED
        BY <2>1, <2>2, Upto
    <2>4. \A i \in 0 .. n : chosen[i] \in S
      BY <1>0, <2>3
    <2>5. QED
      BY <1>7, <2>4
  <1>9. QED
    BY <1>6, <1>7, <1>8 DEF PutsOneByOne

\* The entries matched so far, as each field's are set.
MergesOneByOne(run, X, matched, m) ==
    /\ run \in [0 .. m -> Seq(X)] /\ run[0] = <<>>
    /\ \A i \in 1 .. m : run[i] = PutAll(run[i - 1], matched[i].entries)

\* Merged is the last of the sets of entries merged one by one.
LEMMA MergedRun ==
    ASSUME NEW X, NEW matched, NEW m \in Nat, Len(matched) = m, \A i \in 1 .. m : matched[i].entries \in Seq(X),
           \A x \in X : x = <<x[1], x[2]>>
    PROVE  \E run : MergesOneByOne(run, X, matched, m) /\ Merged(matched).entries = run[m]
  <1> DEFINE n == m
             S == Seq(X)
             G == [z \in S \X (1 .. n) |-> PutAll(z[1], matched[z[2]].entries)]
             Is(run) == run = [i \in 0 .. n |-> IF i = 0 THEN <<>> ELSE PutAll(run[i - 1], matched[i].entries)]
  <1>0. n \in Nat
    OBVIOUS
  <1>1. ASSUME NEW r \in S, NEW i \in 1 .. n
        PROVE  PutAll(r, matched[i].entries) \in S
    <2>1. r \in Seq(X) /\ matched[i].entries \in Seq(X)
      OBVIOUS
    <2> DEFINE new == matched[i].entries
    <2>2. Len(new) \in 0 .. Len(new)
      BY <2>1
    <2>3. PICK run : PutsOneByOne(run, X, r, new) /\ PutAll(r, new) = run[Len(new)]
      <3> HIDE DEF new
      <3>1. QED
        BY <2>1, PutRun DEF new
    <2>4. QED
      BY <2>2, <2>3 DEF PutsOneByOne
  <1>2. G \in [S \X (1 .. n) -> S] /\ <<>> \in S
    <2>1. <<>> \in S
      OBVIOUS
    <2>2. \A z \in S \X (1 .. n) : PutAll(z[1], matched[z[2]].entries) \in S
      <3> HIDE DEF S, n
      <3>1. QED
        BY <1>1
    <2>3. QED
      BY <2>1, <2>2
  <1>3. PICK run \in [0 .. n -> S] : IsRun(run, n, <<>>, G)
    <2> HIDE DEF G, n, S
    <2>1. QED
      BY <1>0, <1>2, RunExists
  <1>4. Is(run)
    <2>1. ASSUME NEW i \in 0 .. n
          PROVE  run[i] = IF i = 0 THEN <<>> ELSE PutAll(run[i - 1], matched[i].entries)
      <3>1. CASE i = 0
        BY <1>3, <3>1 DEF IsRun
      <3>2. CASE i # 0
        <4>1. i \in 1 .. n /\ i - 1 \in 0 .. n
          BY <1>0, <3>2
        <4>2. <<run[i - 1], i>> \in S \X (1 .. n)
          BY <1>3, <4>1
        <4>3. G[<<run[i - 1], i>>] = PutAll(run[i - 1], matched[i].entries)
          BY <4>2
        <4>4. run[i] = G[<<run[i - 1], i>>]
          <5> HIDE DEF G
          <5>1. QED
            BY <1>3, <4>1 DEF IsRun
        <4>5. QED
          BY <3>2, <4>3, <4>4
      <3>3. QED
        BY <3>1, <3>2
    <2>2. QED
      BY <1>3, <2>1
  <1> DEFINE chosen == CHOOSE f : Is(f)
  <1>5. Is(chosen)
    <2> HIDE DEF Is
    <2>1. QED
      BY <1>4, Zenon
  <1>6. Merged(matched).entries = chosen[m]
    BY DEF Merged
  <1> HIDE DEF chosen
  <1>7. /\ chosen[0] = <<>>
        /\ \A i \in 1 .. n : chosen[i] = PutAll(chosen[i - 1], matched[i].entries)
        /\ chosen = [i \in 0 .. n |-> chosen[i]]
    <2> HIDE DEF n, S, G
    <2>0. \A i \in 0 .. n : chosen[i] = IF i = 0 THEN <<>> ELSE PutAll(chosen[i - 1], matched[i].entries)
      BY <1>5
    <2>1. chosen[0] = <<>>
      BY <1>0, <2>0
    <2>2. \A i \in 1 .. n : chosen[i] = PutAll(chosen[i - 1], matched[i].entries)
      BY <1>0, <2>0
    <2>3. chosen = [i \in 0 .. n |-> chosen[i]]
      BY <1>5
    <2>4. QED
      BY <2>1, <2>2, <2>3
  <1>8. chosen \in [0 .. n -> S]
    <2> DEFINE T == {i \in Nat : i <= n => chosen[i] \in S}
    <2>1. 0 \in T
      BY <1>2, <1>7
    <2>2. ASSUME NEW i \in Nat, i \in T
          PROVE  i + 1 \in T
      <3>1. SUFFICES ASSUME i + 1 <= n
                     PROVE  chosen[i + 1] \in S
        OBVIOUS
      <3>2. chosen[i] \in S /\ i + 1 \in 1 .. n /\ (i + 1) - 1 = i
        BY <1>0, <2>2, <3>1
      <3>3. PutAll(chosen[i], matched[i + 1].entries) \in S
        <4> HIDE DEF S, n
        <4>1. QED
          BY <1>1, <3>2
      <3>4. chosen[i + 1] = PutAll(chosen[i], matched[i + 1].entries)
        BY <1>7, <3>2
      <3>5. QED
        BY <3>3, <3>4
    <2>3. Nat \subseteq T
      <3> HIDE DEF T
      <3>1. QED
        BY <2>1, <2>2, Upto
    <2>4. \A i \in 0 .. n : chosen[i] \in S
      BY <1>0, <2>3
    <2>5. QED
      BY <1>7, <2>4
  <1>9. QED
    BY <1>6, <1>7, <1>8 DEF MergesOneByOne

\* The data so far, as each change is made.
ChangesOneByOne(run, D, data, changes, strip) ==
    /\ run \in [0 .. Len(changes) -> [parent : D, thrown : BOOLEAN]] /\ run[0] = [parent |-> data, thrown |-> FALSE]
    /\ \A i \in 1 .. Len(changes) : run[i] = Applied(run[i - 1], changes[i], strip)

\* ChangedBy is the last of the changes applied one by one.
LEMMA ChangedRun ==
    ASSUME NEW D, NEW X, NEW data \in D, NEW changes \in Seq(X), NEW strip,
           \A d \in D, x \in X : SetIn(d, x[1], x[2], strip).parent \in D /\ SetIn(d, x[1], x[2], strip).thrown \in BOOLEAN
    PROVE  \E run : ChangesOneByOne(run, D, data, changes, strip) /\ ChangedBy(data, changes, strip) = run[Len(changes)]
  <1> DEFINE n == Len(changes)
             S == [parent : D, thrown : BOOLEAN]
             G == [z \in S \X (1 .. n) |-> Applied(z[1], changes[z[2]], strip)]
             Is(run) == run = [i \in 0 .. n |-> IF i = 0 THEN [parent |-> data, thrown |-> FALSE]
                                                ELSE Applied(run[i - 1], changes[i], strip)]
  <1>0. n \in Nat
    OBVIOUS
  <1>1. ASSUME NEW r \in S, NEW i \in 1 .. n
        PROVE  Applied(r, changes[i], strip) \in S
    <2>1. r.parent \in D /\ r.thrown \in BOOLEAN /\ changes[i] \in X
      OBVIOUS
    <2> DEFINE set == SetIn(r.parent, changes[i][1], changes[i][2], strip)
    <2>2. set.parent \in D /\ set.thrown \in BOOLEAN
      BY <2>1
    <2>3. QED
      BY <2>1, <2>2 DEF Applied
  <1>2. G \in [S \X (1 .. n) -> S] /\ [parent |-> data, thrown |-> FALSE] \in S
    <2>1. [parent |-> data, thrown |-> FALSE] \in S
      OBVIOUS
    <2>2. \A z \in S \X (1 .. n) : Applied(z[1], changes[z[2]], strip) \in S
      <3> HIDE DEF S, n
      <3>1. QED
        BY <1>1
    <2>3. QED
      BY <2>1, <2>2
  <1>3. PICK run \in [0 .. n -> S] : IsRun(run, n, [parent |-> data, thrown |-> FALSE], G)
    <2> HIDE DEF G, n, S
    <2>1. QED
      BY <1>0, <1>2, RunExists
  <1>4. Is(run)
    <2>1. ASSUME NEW i \in 0 .. n
          PROVE  run[i] = IF i = 0 THEN [parent |-> data, thrown |-> FALSE] ELSE Applied(run[i - 1], changes[i], strip)
      <3>1. CASE i = 0
        BY <1>3, <3>1 DEF IsRun
      <3>2. CASE i # 0
        <4>1. i \in 1 .. n /\ i - 1 \in 0 .. n
          BY <1>0, <3>2
        <4>2. <<run[i - 1], i>> \in S \X (1 .. n)
          BY <1>3, <4>1
        <4>3. G[<<run[i - 1], i>>] = Applied(run[i - 1], changes[i], strip)
          BY <4>2
        <4>4. run[i] = G[<<run[i - 1], i>>]
          <5> HIDE DEF G
          <5>1. QED
            BY <1>3, <4>1 DEF IsRun
        <4>5. QED
          BY <3>2, <4>3, <4>4
      <3>3. QED
        BY <3>1, <3>2
    <2>2. QED
      BY <1>3, <2>1
  <1> DEFINE chosen == CHOOSE f : Is(f)
  <1>5. Is(chosen)
    <2> HIDE DEF Is
    <2>1. QED
      BY <1>4, Zenon
  <1>6. ChangedBy(data, changes, strip) = chosen[Len(changes)]
    BY DEF ChangedBy
  <1> HIDE DEF chosen
  <1>7. /\ chosen[0] = [parent |-> data, thrown |-> FALSE]
        /\ \A i \in 1 .. n : chosen[i] = Applied(chosen[i - 1], changes[i], strip)
        /\ chosen = [i \in 0 .. n |-> chosen[i]]
    <2> HIDE DEF n, S, G
    <2>0. \A i \in 0 .. n : chosen[i] = IF i = 0 THEN [parent |-> data, thrown |-> FALSE]
                                        ELSE Applied(chosen[i - 1], changes[i], strip)
      BY <1>5
    <2>1. chosen[0] = [parent |-> data, thrown |-> FALSE]
      <3>1. 0 \in 0 .. n
        BY <1>0
      <3>2. QED
        BY <2>0, <3>1, Zenon
    <2>2. \A i \in 1 .. n : chosen[i] = Applied(chosen[i - 1], changes[i], strip)
      BY <1>0, <2>0
    <2>3. chosen = [i \in 0 .. n |-> chosen[i]]
      BY <1>5
    <2>4. QED
      BY <2>1, <2>2, <2>3
  <1>8. chosen \in [0 .. n -> S]
    <2> DEFINE T == {i \in Nat : i <= n => chosen[i] \in S}
    <2>1. 0 \in T
      BY <1>2, <1>7
    <2>2. ASSUME NEW i \in Nat, i \in T
          PROVE  i + 1 \in T
      <3>1. SUFFICES ASSUME i + 1 <= n
                     PROVE  chosen[i + 1] \in S
        OBVIOUS
      <3>2. chosen[i] \in S /\ i + 1 \in 1 .. n /\ (i + 1) - 1 = i
        BY <1>0, <2>2, <3>1
      <3>3. Applied(chosen[i], changes[i + 1], strip) \in S
        <4> HIDE DEF S, n
        <4>1. QED
          BY <1>1, <3>2
      <3>4. chosen[i + 1] = Applied(chosen[i], changes[i + 1], strip)
        BY <1>7, <3>2
      <3>5. QED
        BY <3>3, <3>4
    <2>3. Nat \subseteq T
      <3> HIDE DEF T
      <3>1. QED
        BY <2>1, <2>2, Upto
    <2>4. \A i \in 0 .. n : chosen[i] \in S
      BY <1>0, <2>3
    <2>5. QED
      BY <1>7, <2>4
  <1>9. QED
    BY <1>6, <1>7, <1>8 DEF ChangesOneByOne

\* The admitted items so far.
TakesOneByOne(run, V, items, allowed) ==
    /\ run \in [0 .. Len(items) -> Seq(V)] /\ run[0] = <<>>
    /\ \A i \in 1 .. Len(items) : run[i] = Taken(run[i - 1], items[i], allowed)

\* Admitted is the last of the items taken one by one.
LEMMA AdmittedRun ==
    ASSUME NEW V, NEW items \in Seq(V), NEW allowed
    PROVE  \E run : TakesOneByOne(run, V, items, allowed) /\ Admitted(items, allowed) = run[Len(items)]
  <1> DEFINE n == Len(items)
             S == Seq(V)
             G == [z \in S \X (1 .. n) |-> Taken(z[1], items[z[2]], allowed)]
             Is(run) == run = [i \in 0 .. n |-> IF i = 0 THEN <<>> ELSE Taken(run[i - 1], items[i], allowed)]
  <1>0. n \in Nat
    OBVIOUS
  <1>1. ASSUME NEW r \in S, NEW i \in 1 .. n
        PROVE  Taken(r, items[i], allowed) \in S
    <2>1. r \in Seq(V) /\ items[i] \in V
      OBVIOUS
    <2>2. QED
      BY <2>1 DEF Taken
  <1>2. G \in [S \X (1 .. n) -> S] /\ <<>> \in S
    <2>1. <<>> \in S
      OBVIOUS
    <2>2. \A z \in S \X (1 .. n) : Taken(z[1], items[z[2]], allowed) \in S
      <3> HIDE DEF S, n
      <3>1. QED
        BY <1>1
    <2>3. QED
      BY <2>1, <2>2
  <1>3. PICK run \in [0 .. n -> S] : IsRun(run, n, <<>>, G)
    <2> HIDE DEF G, n, S
    <2>1. QED
      BY <1>0, <1>2, RunExists
  <1>4. Is(run)
    <2>1. ASSUME NEW i \in 0 .. n
          PROVE  run[i] = IF i = 0 THEN <<>> ELSE Taken(run[i - 1], items[i], allowed)
      <3>1. CASE i = 0
        BY <1>3, <3>1 DEF IsRun
      <3>2. CASE i # 0
        <4>1. i \in 1 .. n /\ i - 1 \in 0 .. n
          BY <1>0, <3>2
        <4>2. <<run[i - 1], i>> \in S \X (1 .. n)
          BY <1>3, <4>1
        <4>3. G[<<run[i - 1], i>>] = Taken(run[i - 1], items[i], allowed)
          BY <4>2
        <4>4. run[i] = G[<<run[i - 1], i>>]
          <5> HIDE DEF G
          <5>1. QED
            BY <1>3, <4>1 DEF IsRun
        <4>5. QED
          BY <3>2, <4>3, <4>4
      <3>3. QED
        BY <3>1, <3>2
    <2>2. QED
      BY <1>3, <2>1
  <1> DEFINE chosen == CHOOSE f : Is(f)
  <1>5. Is(chosen)
    <2> HIDE DEF Is
    <2>1. QED
      BY <1>4, Zenon
  <1>6. Admitted(items, allowed) = chosen[Len(items)]
    BY DEF Admitted
  <1> HIDE DEF chosen
  <1>7. /\ chosen[0] = <<>>
        /\ \A i \in 1 .. n : chosen[i] = Taken(chosen[i - 1], items[i], allowed)
        /\ chosen = [i \in 0 .. n |-> chosen[i]]
    <2> HIDE DEF n, S, G
    <2>0. \A i \in 0 .. n : chosen[i] = IF i = 0 THEN <<>> ELSE Taken(chosen[i - 1], items[i], allowed)
      BY <1>5
    <2>1. chosen[0] = <<>>
      BY <1>0, <2>0
    <2>2. \A i \in 1 .. n : chosen[i] = Taken(chosen[i - 1], items[i], allowed)
      BY <1>0, <2>0
    <2>3. chosen = [i \in 0 .. n |-> chosen[i]]
      BY <1>5
    <2>4. QED
      BY <2>1, <2>2, <2>3
  <1>8. chosen \in [0 .. n -> S]
    <2> DEFINE T == {i \in Nat : i <= n => chosen[i] \in S}
    <2>1. 0 \in T
      BY <1>2, <1>7
    <2>2. ASSUME NEW i \in Nat, i \in T
          PROVE  i + 1 \in T
      <3>1. SUFFICES ASSUME i + 1 <= n
                     PROVE  chosen[i + 1] \in S
        OBVIOUS
      <3>2. chosen[i] \in S /\ i + 1 \in 1 .. n /\ (i + 1) - 1 = i
        BY <1>0, <2>2, <3>1
      <3>3. Taken(chosen[i], items[i + 1], allowed) \in S
        <4> HIDE DEF S, n
        <4>1. QED
          BY <1>1, <3>2
      <3>4. chosen[i + 1] = Taken(chosen[i], items[i + 1], allowed)
        BY <1>7, <3>2
      <3>5. QED
        BY <3>3, <3>4
    <2>3. Nat \subseteq T
      <3> HIDE DEF T
      <3>1. QED
        BY <2>1, <2>2, Upto
    <2>4. \A i \in 0 .. n : chosen[i] \in S
      BY <1>0, <2>3
    <2>5. QED
      BY <1>7, <2>4
  <1>9. QED
    BY <1>6, <1>7, <1>8 DEF TakesOneByOne

\* Entries put in one after the other: they keep their places, an entry is one
\* that was set last at its path, or it was there and nothing was set there.
SetsEntries(all, X, entries, new) ==
    /\ all \in Seq(X) /\ Len(entries) <= Len(all)
    /\ \A i \in DOMAIN entries : all[i][1] = entries[i][1]
    /\ \A i \in DOMAIN all :
           \/ \E j \in DOMAIN new : all[i] = new[j]
           \/ i \in DOMAIN entries /\ all[i] = entries[i] /\ \A j \in DOMAIN new : new[j][1] # entries[i][1]
    /\ \A j \in DOMAIN new : \E i \in DOMAIN all : all[i][1] = new[j][1]

\* Setting entries one after the other sets what each path was set to last.
LEMMA PutAllKeeps ==
    ASSUME NEW X, NEW entries \in Seq(X), NEW new \in Seq(X), \A x \in X : x = <<x[1], x[2]>>
    PROVE  SetsEntries(PutAll(entries, new), X, entries, new)
  <1> DEFINE n == Len(new)
             Good(all, k) ==
                 /\ all \in Seq(X) /\ Len(entries) <= Len(all)
                 /\ \A i \in DOMAIN entries : all[i][1] = entries[i][1]
                 /\ \A i \in DOMAIN all :
                        \/ \E j \in 1 .. k : all[i] = new[j]
                        \/ i \in DOMAIN entries /\ all[i] = entries[i] /\ \A j \in 1 .. k : new[j][1] # entries[i][1]
                 /\ \A j \in 1 .. k : \E i \in DOMAIN all : all[i][1] = new[j][1]
  <1>1. PICK run : PutsOneByOne(run, X, entries, new) /\ PutAll(entries, new) = run[n]
    BY PutRun
  <1>2. n \in Nat /\ DOMAIN new = 1 .. n /\ DOMAIN entries = 1 .. Len(entries) /\ Len(entries) \in Nat
    OBVIOUS
  <1> DEFINE T == {k \in Nat : k <= n => Good(run[k], k)}
  <1>3. 0 \in T
    <2>1. run[0] = entries /\ 1 .. 0 = {}
      BY <1>1 DEF PutsOneByOne
    <2>2. Good(run[0], 0)
      BY <1>2, <2>1
    <2>3. QED
      BY <2>2
  <1>4. ASSUME NEW k \in Nat, k \in T
        PROVE  k + 1 \in T
    <2>1. SUFFICES ASSUME k + 1 <= n
                   PROVE  Good(run[k + 1], k + 1)
      OBVIOUS
    <2> DEFINE before == run[k]
               x      == new[k + 1]
               after  == Put(before, x[1], x[2])
    <2>2. Good(before, k)
      BY <1>2, <1>4, <2>1
    <2>3. k + 1 \in 1 .. n /\ (k + 1) - 1 = k /\ x \in X
      <3>1. k + 1 \in 1 .. n /\ (k + 1) - 1 = k
        <4> HIDE DEF n
        <4>1. QED
          BY <1>2, <2>1
      <3>2. QED
        BY <3>1
    <2>4. run[k + 1] = after
      BY <1>1, <2>3 DEF PutsOneByOne
    <2>5. SetsEntry(after, X, before, x)
      <3>1. before \in Seq(X) /\ x \in X /\ x = <<x[1], x[2]>>
        BY <2>2, <2>3
      <3> HIDE DEF before, x
      <3>2. QED
        BY <3>1, PutKeeps DEF after
    <2> HIDE DEF before, after
    <2>6. DOMAIN before = 1 .. Len(before) /\ Len(before) \in Nat /\ DOMAIN after = 1 .. Len(after) /\ Len(after) \in Nat
      BY <2>2, <2>5 DEF SetsEntry
    <2>7. Len(entries) <= Len(after) /\ DOMAIN entries \subseteq DOMAIN before /\ DOMAIN before \subseteq DOMAIN after
      BY <1>2, <2>2, <2>5, <2>6 DEF SetsEntry
    <2>8. \A i \in DOMAIN entries : after[i][1] = entries[i][1]
      BY <2>2, <2>5, <2>7 DEF SetsEntry
    <2>9. ASSUME NEW i \in DOMAIN after
          PROVE  \/ \E j \in 1 .. k + 1 : after[i] = new[j]
                 \/ i \in DOMAIN entries /\ after[i] = entries[i] /\ \A j \in 1 .. k + 1 : new[j][1] # entries[i][1]
      <3>0. 1 .. k + 1 = (1 .. k) \cup {k + 1}
        OBVIOUS
      <3>1. CASE after[i] = x
        BY <3>0, <3>1
      <3>2. CASE i \in DOMAIN before /\ after[i] = before[i] /\ before[i][1] # x[1]
        <4>1. CASE \E j \in 1 .. k : before[i] = new[j]
          BY <3>0, <3>2, <4>1
        <4>2. CASE i \in DOMAIN entries /\ before[i] = entries[i] /\ \A j \in 1 .. k : new[j][1] # entries[i][1]
          BY <3>0, <3>2, <4>2
        <4>3. QED
          BY <2>2, <3>2, <4>1, <4>2
      <3>3. QED
        BY <2>5, <3>1, <3>2 DEF SetsEntry
    <2>10. ASSUME NEW j \in 1 .. k + 1
           PROVE  \E i \in DOMAIN after : after[i][1] = new[j][1]
      <3>1. CASE j = k + 1
        BY <2>5, <3>1 DEF SetsEntry
      <3>2. CASE j # k + 1
        <4>1. j \in 1 .. k
          BY <3>2
        <4>2. PICK i \in DOMAIN before : before[i][1] = new[j][1]
          BY <2>2, <4>1
        <4>3. QED
          BY <2>5, <2>7, <4>2 DEF SetsEntry
      <3>3. QED
        BY <3>1, <3>2
    <2>11. QED
      BY <2>4, <2>5, <2>7, <2>8, <2>9, <2>10 DEF SetsEntry
  <1>5. n \in T
    <2> HIDE DEF T, n
    <2>1. QED
      BY <1>2, <1>3, <1>4, Upto
  <1>6. Good(run[n], n)
    BY <1>2, <1>5
  <1> HIDE DEF n
  <1>7. QED
    BY <1>1, <1>2, <1>6 DEF SetsEntries

\* The entries of several fields: all of them are some field's, and every path
\* that a field has an entry at has one.
MergedFrom(all, X, matched, m) ==
    /\ all \in Seq(X)
    /\ \A i \in DOMAIN all : \E k \in 1 .. m : \E j \in DOMAIN matched[k].entries : all[i] = matched[k].entries[j]
    /\ \A k \in 1 .. m : \A j \in DOMAIN matched[k].entries :
           \E i \in DOMAIN all : all[i][1] = matched[k].entries[j][1]

\* Merged entries are all taken from those that are merged, and miss no path.
LEMMA MergedKeeps ==
    ASSUME NEW X, NEW matched, NEW m \in Nat, Len(matched) = m, \A i \in 1 .. m : matched[i].entries \in Seq(X),
           \A x \in X : x = <<x[1], x[2]>>
    PROVE  MergedFrom(Merged(matched).entries, X, matched, m)
  <1> DEFINE Good(all, n) ==
                 /\ all \in Seq(X)
                 /\ \A i \in DOMAIN all : \E k \in 1 .. n : \E j \in DOMAIN matched[k].entries : all[i] = matched[k].entries[j]
                 /\ \A k \in 1 .. n : \A j \in DOMAIN matched[k].entries :
                        \E i \in DOMAIN all : all[i][1] = matched[k].entries[j][1]
  <1>1. PICK run : MergesOneByOne(run, X, matched, m) /\ Merged(matched).entries = run[m]
    BY MergedRun
  <1> DEFINE T == {k \in Nat : k <= m => Good(run[k], k)}
  <1>2. 0 \in T
    <2>1. run[0] = <<>> /\ 1 .. 0 = {} /\ DOMAIN <<>> = {}
      BY <1>1 DEF MergesOneByOne
    <2>2. Good(run[0], 0)
      BY <2>1
    <2>3. QED
      BY <2>2
  <1>3. ASSUME NEW n \in Nat, n \in T
        PROVE  n + 1 \in T
    <2>1. SUFFICES ASSUME n + 1 <= m
                   PROVE  Good(run[n + 1], n + 1)
      OBVIOUS
    <2> DEFINE before == run[n]
               new    == matched[n + 1].entries
               after  == PutAll(before, new)
    <2>2. Good(before, n)
      BY <1>3, <2>1
    <2>3. n + 1 \in 1 .. m /\ (n + 1) - 1 = n /\ new \in Seq(X)
      BY <2>1
    <2>4. run[n + 1] = after
      BY <1>1, <2>3 DEF MergesOneByOne
    <2>5. SetsEntries(after, X, before, new)
      <3>1. before \in Seq(X)
        BY <2>2
      <3> HIDE DEF before, new
      <3>2. QED
        BY <2>3, <3>1, PutAllKeeps
    <2>6. DOMAIN before \subseteq DOMAIN after
      <3>1. before \in Seq(X) /\ after \in Seq(X) /\ Len(before) <= Len(after)
        BY <2>2, <2>5 DEF SetsEntries
      <3> HIDE DEF before, after
      <3>2. DOMAIN before = 1 .. Len(before) /\ Len(before) \in Nat /\ DOMAIN after = 1 .. Len(after) /\ Len(after) \in Nat
        BY <3>1
      <3>3. QED
        BY <3>1, <3>2
    <2>7. 1 .. n + 1 = (1 .. n) \cup {n + 1}
      OBVIOUS
    <2> HIDE DEF before, after
    <2>8. ASSUME NEW i \in DOMAIN after
          PROVE  \E k \in 1 .. n + 1 : \E j \in DOMAIN matched[k].entries : after[i] = matched[k].entries[j]
      <3>1. CASE \E j \in DOMAIN new : after[i] = new[j]
        BY <2>7, <3>1
      <3>2. CASE i \in DOMAIN before /\ after[i] = before[i]
        BY <2>2, <2>7, <3>2
      <3>3. QED
        BY <2>5, <3>1, <3>2 DEF SetsEntries
    <2>9. ASSUME NEW k \in 1 .. n + 1, NEW j \in DOMAIN matched[k].entries
          PROVE  \E i \in DOMAIN after : after[i][1] = matched[k].entries[j][1]
      <3>1. CASE k = n + 1
        BY <2>5, <3>1 DEF SetsEntries
      <3>2. CASE k # n + 1
        <4>1. PICK i \in DOMAIN before : before[i][1] = matched[k].entries[j][1]
          BY <2>2, <2>7, <3>2
        <4>2. QED
          BY <2>5, <2>6, <4>1 DEF SetsEntries
      <3>3. QED
        BY <3>1, <3>2
    <2>10. QED
      BY <2>4, <2>5, <2>8, <2>9 DEF SetsEntries
  <1>4. m \in T
    <2> HIDE DEF T
    <2>1. QED
      BY <1>2, <1>3, Upto
  <1>5. QED
    BY <1>1, <1>4 DEF MergedFrom

\* What is admitted passes a test, and an item that does is admitted.
LEMMA AdmittedPass ==
    ASSUME NEW V, NEW items \in Seq(V), NEW allowed
    PROVE  LET kept == Admitted(items, allowed)
           IN  /\ kept \in Seq(V)
               /\ \A i \in DOMAIN kept : Admits(allowed, kept[i])
               /\ Len(items) = 1 /\ Admits(allowed, items[1]) => kept = <<items[1]>>
  <1> DEFINE n == Len(items)
  <1>1. PICK run : TakesOneByOne(run, V, items, allowed) /\ Admitted(items, allowed) = run[n]
    BY AdmittedRun
  <1>2. /\ run \in [0 .. n -> Seq(V)] /\ run[0] = <<>> /\ n \in Nat
        /\ \A i \in 1 .. n : run[i] = Taken(run[i - 1], items[i], allowed)
    BY <1>1 DEF TakesOneByOne
  <1> DEFINE T == {k \in Nat : k <= n => run[k] \in Seq(V) /\ \A i \in DOMAIN run[k] : Admits(allowed, run[k][i])}
  <1>3. 0 \in T
    BY <1>2
  <1>4. ASSUME NEW k \in Nat, k \in T
        PROVE  k + 1 \in T
    <2>1. SUFFICES ASSUME k + 1 <= n
                   PROVE  run[k + 1] \in Seq(V) /\ \A i \in DOMAIN run[k + 1] : Admits(allowed, run[k + 1][i])
      OBVIOUS
    <2> DEFINE before == run[k]
    <2>2. before \in Seq(V) /\ \A i \in DOMAIN before : Admits(allowed, before[i])
      BY <1>2, <1>4, <2>1
    <2>3. k + 1 \in 1 .. n /\ (k + 1) - 1 = k /\ items[k + 1] \in V
      BY <1>2, <2>1
    <2>4. run[k + 1] = Taken(before, items[k + 1], allowed)
      BY <1>2, <2>3
    <2> HIDE DEF before
    <2>5. CASE Admits(allowed, items[k + 1])
      <3>1. run[k + 1] = Append(before, items[k + 1])
        BY <2>4, <2>5 DEF Taken
      <3>2. QED
        BY <2>2, <2>3, <2>5, <3>1
    <2>6. CASE ~Admits(allowed, items[k + 1])
      BY <2>2, <2>4, <2>6 DEF Taken
    <2>7. QED
      BY <2>5, <2>6
  <1>5. n \in T
    <2> HIDE DEF T, n
    <2>1. QED
      BY <1>2, <1>3, <1>4, Upto
  <1>6. ASSUME n = 1, Admits(allowed, items[1])
        PROVE  run[1] = <<items[1]>>
    <2>1. run[1] = Taken(<<>>, items[1], allowed)
      BY <1>2, <1>6
    <2>2. QED
      BY <1>6, <2>1 DEF Taken
  <1>7. run[n] \in Seq(V) /\ \A i \in DOMAIN run[n] : Admits(allowed, run[n][i])
    BY <1>2, <1>5
  <1>8. Len(items) = 1 /\ Admits(allowed, items[1]) => run[n] = <<items[1]>>
    BY <1>6
  <1> HIDE DEF n
  <1>9. QED
    BY <1>1, <1>7, <1>8

\* The items of a single sequence.
LEMMA FlattenOne ==
    ASSUME NEW V, NEW s \in Seq(V)
    PROVE  FlattenSeq([j \in 1 .. 1 |-> s]) = s
  <1> DEFINE seqs == [j \in 1 .. 1 |-> s]
             Is(flatten) == flatten = [i \in 1 .. Len(seqs) |-> IF i = 1 THEN seqs[i] ELSE flatten[i - 1] \o seqs[i]]
             chosen == CHOOSE flatten : Is(flatten)
  <1>1. Len(seqs) = 1 /\ seqs[1] = s
    OBVIOUS
  <1>2. FlattenSeq(seqs) = chosen[Len(seqs)]
    BY <1>1 DEF FlattenSeq
  <1>3. Is([i \in 1 .. 1 |-> s])
    BY <1>1
  <1>4. Is(chosen)
    <2> HIDE DEF Is
    <2>1. QED
      BY <1>3, Zenon
  <1> HIDE DEF chosen
  <1>5. chosen[1] = s
    BY <1>1, <1>4
  <1>6. QED
    BY <1>1, <1>2, <1>5

\* A path continues another that holds its first parts.
LEMMA PrefixByParts ==
    ASSUME NEW S, NEW s \in Seq(S), NEW t \in Seq(S)
    PROVE  IsPrefix(s, t) <=> (Len(s) <= Len(t) /\ \A i \in 1 .. Len(s) : s[i] = t[i])
  <1>1. Len(s) \in Nat /\ Len(t) \in Nat
    OBVIOUS
  <1>2. SubSeq(s, 1, Len(s)) = [i \in 1 .. Len(s) |-> s[i]]
    BY <1>1
  <1>3. Len(s) <= Len(t) => SubSeq(t, 1, Len(s)) = [i \in 1 .. Len(s) |-> t[i]]
    BY <1>1
  <1>4. [i \in 1 .. Len(s) |-> s[i]] = [i \in 1 .. Len(s) |-> t[i]] <=> \A i \in 1 .. Len(s) : s[i] = t[i]
    OBVIOUS
  <1>5. QED
    BY <1>2, <1>3, <1>4 DEF IsPrefix

\* Being the beginning of a path is a partial order, linear below each path.
LEMMA PrefixSelf ==
    ASSUME NEW S, NEW s \in Seq(S)
    PROVE  IsPrefix(s, s)
  BY PrefixByParts

\* A beginning of a beginning is one.
LEMMA PrefixOfPrefix ==
    ASSUME NEW S, NEW s \in Seq(S), NEW t \in Seq(S), NEW u \in Seq(S), IsPrefix(s, t), IsPrefix(t, u)
    PROVE  IsPrefix(s, u)
  <1>1. Len(s) \in Nat /\ Len(t) \in Nat /\ Len(u) \in Nat
    OBVIOUS
  <1>2. /\ Len(s) <= Len(t) /\ \A i \in 1 .. Len(s) : s[i] = t[i]
        /\ Len(t) <= Len(u) /\ \A i \in 1 .. Len(t) : t[i] = u[i]
    BY PrefixByParts
  <1>3. Len(s) <= Len(u) /\ \A i \in 1 .. Len(s) : s[i] = u[i]
    BY <1>1, <1>2
  <1>4. QED
    BY <1>3, PrefixByParts

\* Two paths that begin with one another are the same.
LEMMA PrefixBoth ==
    ASSUME NEW S, NEW s \in Seq(S), NEW t \in Seq(S), IsPrefix(s, t), IsPrefix(t, s)
    PROVE  s = t
  <1>1. Len(s) \in Nat /\ Len(t) \in Nat
    OBVIOUS
  <1>2. /\ Len(s) <= Len(t) /\ \A i \in 1 .. Len(s) : s[i] = t[i]
        /\ Len(t) <= Len(s)
    BY PrefixByParts
  <1>3. Len(s) = Len(t) /\ \A i \in 1 .. Len(s) : s[i] = t[i]
    BY <1>1, <1>2
  <1>4. QED
    BY <1>3

\* Of two beginnings of a path one begins the other.
LEMMA PrefixesCompare ==
    ASSUME NEW S, NEW s \in Seq(S), NEW t \in Seq(S), NEW u \in Seq(S), IsPrefix(s, u), IsPrefix(t, u)
    PROVE  IsPrefix(s, t) \/ IsPrefix(t, s)
  <1>1. Len(s) \in Nat /\ Len(t) \in Nat /\ Len(u) \in Nat
    OBVIOUS
  <1>2. /\ Len(s) <= Len(u) /\ \A i \in 1 .. Len(s) : s[i] = u[i]
        /\ Len(t) <= Len(u) /\ \A i \in 1 .. Len(t) : t[i] = u[i]
    BY PrefixByParts
  <1>3. CASE Len(s) <= Len(t)
    <2>1. \A i \in 1 .. Len(s) : s[i] = t[i]
      BY <1>1, <1>2, <1>3
    <2>2. QED
      BY <1>3, <2>1, PrefixByParts
  <1>4. CASE Len(t) <= Len(s)
    <2>1. \A i \in 1 .. Len(t) : t[i] = s[i]
      BY <1>1, <1>2, <1>4
    <2>2. QED
      BY <1>4, <2>1, PrefixByParts
  <1>5. QED
    BY <1>1, <1>3, <1>4

\* No way to a field leads through an array when none to a field within it does.
LEMMA UnderArrayWithin ==
    ASSUME NEW doc, NEW q \in Seq(STRING), NEW p \in Seq(STRING), IsPrefix(q, p), q # <<>>
    PROVE  /\ UnderArray(doc, q) => UnderArray(doc, p)
           /\ Direct(doc, p) => Direct(doc, q)
           /\ q # p /\ ~UnderArray(doc, p) => \A v \in ValuesAt(doc, q) : ~IsArray(v)
  <1>1. /\ Len(q) <= Len(p) /\ \A i \in 1 .. Len(q) : q[i] = p[i]
        /\ Len(q) \in Nat \ {0} /\ Len(p) \in Nat
    BY PrefixByParts
  <1>2. \A k \in 1 .. Len(q) : SubSeq(p, 1, k) = SubSeq(q, 1, k)
    <2>1. SUFFICES ASSUME NEW k \in 1 .. Len(q)
                   PROVE  SubSeq(p, 1, k) = SubSeq(q, 1, k)
      OBVIOUS
    <2>2. SubSeq(p, 1, k) = [i \in 1 .. k |-> p[i]] /\ SubSeq(q, 1, k) = [i \in 1 .. k |-> q[i]]
      BY <1>1
    <2>3. \A i \in 1 .. k : q[i] = p[i]
      BY <1>1
    <2>4. QED
      BY <2>2, <2>3
  <1>3. UnderArray(doc, q) => UnderArray(doc, p)
    <2>1. SUFFICES ASSUME NEW k \in 1 .. Len(q) - 1, NEW v \in ValuesAt(doc, SubSeq(q, 1, k)), IsArray(v)
                   PROVE  UnderArray(doc, p)
      BY DEF UnderArray
    <2>2. k \in 1 .. Len(p) - 1 /\ k \in 1 .. Len(q)
      BY <1>1
    <2>3. QED
      BY <1>2, <2>1, <2>2 DEF UnderArray
  <1>4. Direct(doc, p) => Direct(doc, q)
    <2>1. q[1] = p[1]
      BY <1>1
    <2>2. QED
      BY <1>3, <2>1 DEF Direct
  <1>5. q # p /\ ~UnderArray(doc, p) => \A v \in ValuesAt(doc, q) : ~IsArray(v)
    <2>1. SUFFICES ASSUME q # p, NEW v \in ValuesAt(doc, q), IsArray(v)
                   PROVE  UnderArray(doc, p)
      OBVIOUS
    <2>2. Len(q) # Len(p)
      BY <1>1, <2>1
    <2>3. Len(q) \in 1 .. Len(p) - 1
      BY <1>1, <2>2
    <2>4. SubSeq(p, 1, Len(q)) = SubSeq(q, 1, Len(q)) /\ SubSeq(q, 1, Len(q)) = q
      BY <1>1, <1>2
    <2>5. QED
      BY <2>1, <2>3, <2>4 DEF UnderArray
  <1>6. QED
    BY <1>3, <1>4, <1>5

\* Every item of a value is allowed.
Fits(allowed, v) == \A item \in ItemsOf(v) : Admits(allowed, item)

\* What is matched of a field that is read as one value.
LEMMA MatchFoundOne ==
    ASSUME NEW found, NEW allowed, NEW path, NEW v,
           found.values = <<v>>, found.paths = <<path>>, IsArray(v) => v[2] \in Seq(ToSet(v[2]))
    PROVE  LET entries == MatchFound(found, allowed).entries
               w       == entries[1][2]
           IN  /\ entries = <<<<path, w>>>>
               /\ w # Undefined => /\ Fits(allowed, w) /\ IsArray(w) = IsArray(v)
                                   /\ ~IsArray(v) => w = v
  <1> DEFINE At(i)   == IF i \in DOMAIN found.values THEN found.values[i] ELSE Undefined
             NoneOf(i) == \A y \in ItemsOf(At(i)) : ~Admits(allowed, y)
             Kept(i) == Admitted(IF IsArray(At(i)) THEN At(i)[2] ELSE <<At(i)>>, allowed)
             KeptTo(i) == FlattenSeq([j \in 1 .. i |-> Kept(j)])
             New(i)  == IF \A j \in 1 .. i : NoneOf(j) THEN Undefined
                        ELSE IF IsArray(At(i)) THEN Array(KeptTo(Len(found.paths))) ELSE KeptTo(i)[1]
             entries == MatchFound(found, allowed).entries
             w == entries[1][2]
  <1>1. At(1) = v /\ DOMAIN found.paths = 1 .. 1 /\ Len(found.paths) = 1 /\ found.paths[1] = path
    OBVIOUS
  <1>2. entries = [i \in DOMAIN found.paths |-> <<found.paths[i], New(i)>>]
    BY DEF MatchFound
  <1>3. entries[1] = <<path, New(1)>>
    BY <1>1, <1>2
  <1>4. entries = <<<<path, w>>>>
    <2>1. entries = [i \in 1 .. 1 |-> entries[i]]
      BY <1>1, <1>2
    <2>2. <<<<path, w>>>> = [i \in 1 .. 1 |-> <<path, w>>]
      OBVIOUS
    <2>3. entries[1] = <<path, w>>
      BY <1>3
    <2> HIDE DEF entries, w
    <2>4. QED
      BY <2>1, <2>2, <2>3
  <1>5. \A j \in 1 .. 1 : j = 1
    OBVIOUS
  <1>6. w = IF NoneOf(1) THEN Undefined ELSE IF IsArray(v) THEN Array(KeptTo(1)) ELSE KeptTo(1)[1]
    BY <1>1, <1>3, <1>5
  <1> DEFINE items == IF IsArray(v) THEN v[2] ELSE <<v>>
             V == ToSet(items)
             kept == Admitted(items, allowed)
  <1>7. items \in Seq(V)
    <2>1. CASE IsArray(v)
      BY <2>1
    <2>2. CASE ~IsArray(v)
      <3>1. items = <<v>> /\ v \in ToSet(<<v>>)
        BY <2>2 DEF ToSet
      <3>2. QED
        BY <3>1
    <2>3. QED
      BY <2>1, <2>2
  <1>8. Kept(1) = kept
    BY <1>1
  <1>9. /\ kept \in Seq(V)
        /\ \A i \in DOMAIN kept : Admits(allowed, kept[i])
        /\ Len(items) = 1 /\ Admits(allowed, items[1]) => kept = <<items[1]>>
    <2> HIDE DEF items, V
    <2>1. QED
      BY <1>7, AdmittedPass
  <1>10. KeptTo(1) = kept
    <2>1. [j \in 1 .. 1 |-> Kept(j)] = [j \in 1 .. 1 |-> kept]
      BY <1>5, <1>8
    <2> HIDE DEF kept, V, Kept
    <2>2. QED
      BY <1>9, <2>1, FlattenOne
  <1>11. ASSUME w # Undefined
         PROVE  Fits(allowed, w) /\ IsArray(w) = IsArray(v) /\ (~IsArray(v) => w = v)
    <2>1. CASE IsArray(v)
      <3>1. w = Array(kept)
        BY <1>6, <1>10, <1>11, <2>1
      <3> HIDE DEF w, kept
      <3>2. IsArray(w) /\ ItemsOf(w) = ToSet(kept)
        BY <3>1 DEF IsArray, Kind, Array, ItemsOf
      <3>3. Fits(allowed, w)
        BY <1>9, <3>2 DEF Fits, ToSet
      <3>4. QED
        BY <2>1, <3>2, <3>3
    <2>2. CASE ~IsArray(v)
      <3>1. items = <<v>> /\ ItemsOf(v) = {v}
        BY <2>2 DEF ItemsOf
      <3>2. Admits(allowed, v)
        BY <1>1, <1>6, <1>11, <3>1
      <3>3. kept = <<v>>
        BY <1>9, <3>1, <3>2
      <3>4. w = kept[1]
        BY <1>6, <1>10, <1>11, <2>2
      <3>5. w = v
        BY <3>3, <3>4
      <3> HIDE DEF w
      <3>6. QED
        BY <2>2, <3>1, <3>2, <3>5 DEF Fits
    <2>3. QED
      BY <2>1, <2>2
  <1> HIDE DEF w
  <1>12. QED
    BY <1>4, <1>11 DEF w

\* Where nothing is found, nothing is left.
LEMMA MatchFoundNone ==
    ASSUME NEW found, NEW allowed, Undefined \notin allowed, found.values = <<>>
    PROVE  \A i \in DOMAIN found.paths : MatchFound(found, allowed).entries[i] = <<found.paths[i], Undefined>>
  <1> DEFINE At(i)   == IF i \in DOMAIN found.values THEN found.values[i] ELSE Undefined
             NoneOf(i) == \A y \in ItemsOf(At(i)) : ~Admits(allowed, y)
  <1>1. \A i : At(i) = Undefined
    OBVIOUS
  <1>2. ItemsOf(Undefined) = {Undefined}
    BY DEF ItemsOf, IsArray, Kind, Undefined
  <1>3. ~Admits(allowed, Undefined)
    BY UndefinedFails DEF Admits
  <1>4. \A i : NoneOf(i)
    BY <1>1, <1>2, <1>3
  <1>5. QED
    BY <1>4 DEF MatchFound

\* A match has an entry for each path found, and throws when the reading did.
LEMMA MatchFoundPaths ==
    ASSUME NEW found, NEW allowed
    PROVE  LET entries == MatchFound(found, allowed).entries
           IN  /\ DOMAIN entries = DOMAIN found.paths
               /\ \A i \in DOMAIN entries : entries[i] = <<entries[i][1], entries[i][2]>> /\ entries[i][1] = found.paths[i]
               /\ MatchFound(found, allowed).thrown = found.thrown
  BY DEF MatchFound

\* What a change means for a field: it leaves it alone, removes it or sets it.
Meant(x, p) == ~HasBracket(x[1]) /\ (Spares(x[1], x[2], p) \/ Removes(x[1], x[2], p) \/ x[1] = p)

\* A change that brings no array between the data and a field: one that means
\* one of these for it, or that sets anew what data without one has there.
LeavesDirect(x, p, lists) ==
    \/ Meant(x, p)
    \/ ~HasBracket(x[1]) /\ \E d \in Documents(lists) : x[2] \in ValuesAt(d, x[1]) /\ ~UnderArray(d, p)

\* What one change makes of a field.
Effect(doc, new, x, p) ==
    /\ Spares(x[1], x[2], p) => /\ ValuesAt(new, p) \subseteq ValuesAt(doc, p)
                                /\ ~IsArray(doc) => ValuesAt(new, p) = ValuesAt(doc, p)
    /\ Removes(x[1], x[2], p) => ValuesAt(new, p) = {}
    /\ x[1] = p /\ ~IsArray(doc) =>
           /\ ValuesAt(new, p) \subseteq {x[2]}
           /\ x[2] # Undefined /\ (ValuesAt(doc, p) # {} \/ ~Get(doc, p, Options).thrown) => ValuesAt(new, p) = {x[2]}

\* A change on the way to a field does not spare it.
LEMMA PrefixMeans ==
    ASSUME NEW x, NEW p, IsPrefix(x[1], p)
    PROVE  /\ ~Spares(x[1], x[2], p)
           /\ Meant(x, p) => Removes(x[1], x[2], p) \/ x[1] = p
  BY DEF Spares, Related, Leads, Meant

\* One change keeps the data readable at the field and does to it what it means.
LEMMA OneChange ==
    ASSUME NEW lists, NestedFieldsMeet(lists), NEW doc \in Documents(lists), NEW p \in Unbracketed(Fields(lists)),
           NEW x \in Changes(lists), NEW strip \in BOOLEAN, Direct(doc, p), LeavesDirect(x, p, lists),
           ~SetIn(doc, x[1], x[2], strip).thrown
    PROVE  LET new == SetIn(doc, x[1], x[2], strip).parent
           IN  /\ new \in Documents(lists) /\ IsArray(new) = IsArray(doc) /\ Direct(new, p)
               /\ Effect(doc, new, x, p)
  <1> DEFINE new == SetIn(doc, x[1], x[2], strip).parent
  <1>1. SetsFields(doc, x[1], x[2], strip, lists) /\ ~HasBracket(x[1])
    BY DEF NestedFieldsMeet, LeavesDirect, Meant
  <1>2. new \in Documents(lists) /\ IsArray(new) = IsArray(doc)
    BY <1>1 DEF SetsFields
  <1>3. /\ \/ Direct(new, p)
           \/ /\ IsPrefix(x[1], p) /\ x[1] # p /\ x[2] # Undefined
              /\ \A d \in Documents(lists) : x[2] \in ValuesAt(d, x[1]) => UnderArray(d, p)
        /\ Effect(doc, new, x, p)
    BY <1>1 DEF SetsFields, Effect
  <1>4. Direct(new, p)
    <2>1. SUFFICES ASSUME IsPrefix(x[1], p), x[1] # p, x[2] # Undefined,
                          \A d \in Documents(lists) : x[2] \in ValuesAt(d, x[1]) => UnderArray(d, p)
                   PROVE  FALSE
      BY <1>3
    <2>2. ~Meant(x, p)
      BY <2>1, PrefixMeans DEF Removes
    <2>3. QED
      BY <2>1, <2>2 DEF LeavesDirect
  <1>5. QED
    BY <1>2, <1>3, <1>4

\* The data after each of a list of changes, none of which throws.
ChangeSteps(docs, doc, changes, p, lists) ==
    /\ docs[0] = doc
    /\ \A i \in 0 .. Len(changes) : docs[i] \in Documents(lists) /\ Direct(docs[i], p) /\ IsArray(docs[i]) = IsArray(doc)
    /\ \A i \in 1 .. Len(changes) : Effect(docs[i - 1], docs[i], changes[i], p)

\* So does each of a list of changes, none of which throws.
LEMMA StepsOfChanges ==
    ASSUME NEW lists, NestedFieldsMeet(lists), NEW doc \in Documents(lists), NEW p \in Unbracketed(Fields(lists)),
           NEW changes \in Seq(Changes(lists)), NEW strip \in BOOLEAN, Direct(doc, p),
           \A i \in DOMAIN changes : LeavesDirect(changes[i], p, lists), ~ChangedBy(doc, changes, strip).thrown
    PROVE  \E docs : /\ ChangeSteps(docs, doc, changes, p, lists)
                     /\ ChangedBy(doc, changes, strip).parent = docs[Len(changes)]
  <1> DEFINE n == Len(changes)
             D == Documents(lists)
  <1>1. \A d \in D, x \in Changes(lists) : /\ SetIn(d, x[1], x[2], strip).parent \in D
                                           /\ SetIn(d, x[1], x[2], strip).thrown \in BOOLEAN
    BY DEF NestedFieldsMeet, SetsFields
  <1>2. PICK run : ChangesOneByOne(run, D, doc, changes, strip) /\ ChangedBy(doc, changes, strip) = run[n]
    <2> HIDE DEF D
    <2>1. doc \in D
      BY DEF D
    <2>2. QED
      BY <1>1, <2>1, ChangedRun
  <1>3. /\ run \in [0 .. n -> [parent : D, thrown : BOOLEAN]] /\ run[0] = [parent |-> doc, thrown |-> FALSE]
        /\ \A i \in 1 .. n : run[i] = Applied(run[i - 1], changes[i], strip)
        /\ n \in Nat /\ DOMAIN changes = 1 .. n
    BY <1>2 DEF ChangesOneByOne
  <1>4. \A i \in 1 .. n : LET set == SetIn(run[i - 1].parent, changes[i][1], changes[i][2], strip)
                          IN  run[i].parent = set.parent /\ run[i].thrown = (run[i - 1].thrown \/ set.thrown)
    <2>1. SUFFICES ASSUME NEW i \in 1 .. n
                   PROVE  LET set == SetIn(run[i - 1].parent, changes[i][1], changes[i][2], strip)
                          IN  run[i].parent = set.parent /\ run[i].thrown = (run[i - 1].thrown \/ set.thrown)
      OBVIOUS
    <2> DEFINE before == run[i - 1]
    <2>2. run[i] = Applied(before, changes[i], strip)
      BY <1>3
    <2> HIDE DEF before, n
    <2>3. Applied(before, changes[i], strip).parent = SetIn(before.parent, changes[i][1], changes[i][2], strip).parent
      BY DEF Applied
    <2>4. Applied(before, changes[i], strip).thrown
              = (before.thrown \/ SetIn(before.parent, changes[i][1], changes[i][2], strip).thrown)
      BY DEF Applied
    <2>5. QED
      BY <2>2, <2>3, <2>4 DEF before
  <1> HIDE DEF D
  <1>5. \A i \in 0 .. n : run[i].thrown = FALSE
    <2> DEFINE Calm(i) == run[i].thrown = FALSE
               T == {j \in Nat : j <= n => Calm(n - j)}
    <2>1. 0 \in T
      BY <1>2, <1>3
    <2>2. ASSUME NEW j \in Nat, j \in T
          PROVE  j + 1 \in T
      <3> HIDE DEF n, Calm
      <3>1. SUFFICES ASSUME j + 1 <= n
                     PROVE  Calm(n - (j + 1))
        OBVIOUS
      <3>2. n - j \in 1 .. n /\ (n - j) - 1 = n - (j + 1) /\ n - (j + 1) \in 0 .. n /\ j <= n
        BY <1>3, <3>1
      <3>3. run[n - j].thrown = FALSE
        BY <2>2, <3>2 DEF Calm
      <3>4. run[n - (j + 1)].thrown \in BOOLEAN
        BY <1>3, <3>2
      <3>5. QED
        BY <1>4, <3>2, <3>3, <3>4 DEF Calm
    <2>3. Nat \subseteq T
      <3> HIDE DEF T
      <3>1. QED
        BY <2>1, <2>2, Upto
    <2>4. ASSUME NEW i \in 0 .. n
          PROVE  run[i].thrown = FALSE
      <3> HIDE DEF n
      <3>1. n - i \in Nat /\ n - i <= n /\ n - (n - i) = i
        BY <1>3
      <3>2. QED
        BY <2>3, <3>1
    <2>5. QED
      BY <2>4
  <1> DEFINE docs == [i \in 0 .. n |-> run[i].parent]
             Good(i) == docs[i] \in D /\ Direct(docs[i], p) /\ IsArray(docs[i]) = IsArray(doc)
             T == {i \in Nat : i <= n => Good(i)}
  <1>6. docs[0] = doc /\ n \in 0 .. n /\ 0 \in 0 .. n
    <2>1. 0 \in 0 .. n /\ n \in 0 .. n
      BY <1>3
    <2>2. QED
      BY <1>3, <2>1
  <1>7. ASSUME NEW i \in 1 .. n, docs[i - 1] \in D, Direct(docs[i - 1], p)
        PROVE  /\ docs[i] \in D /\ IsArray(docs[i]) = IsArray(docs[i - 1]) /\ Direct(docs[i], p)
               /\ Effect(docs[i - 1], docs[i], changes[i], p)
    <2> DEFINE before == docs[i - 1]
               x == changes[i]
               set == SetIn(before, x[1], x[2], strip)
    <2>1. i - 1 \in 0 .. n /\ i \in 0 .. n /\ x \in Changes(lists) /\ LeavesDirect(x, p, lists)
      <3>1. i - 1 \in 0 .. n /\ i \in 0 .. n
        BY <1>3
      <3>2. QED
        BY <1>3, <3>1
    <2>2. docs[i] = set.parent /\ before = run[i - 1].parent
      BY <1>4, <2>1
    <2>3. ~set.thrown
      BY <1>4, <1>5, <2>1, <2>2
    <2> HIDE DEF before, x, docs
    <2>4. before \in Documents(lists) /\ Direct(before, p)
      BY <1>7 DEF before, D
    <2>5. /\ set.parent \in Documents(lists) /\ IsArray(set.parent) = IsArray(before) /\ Direct(set.parent, p)
          /\ Effect(before, set.parent, x, p)
      BY <2>1, <2>3, <2>4, OneChange
    <2> HIDE DEF set
    <2>6. QED
      BY <2>2, <2>5 DEF before, x, D
  <1> HIDE DEF docs
  <1>8. 0 \in T
    BY <1>6 DEF D
  <1>9. ASSUME NEW i \in Nat, i \in T
        PROVE  i + 1 \in T
    <2>1. SUFFICES ASSUME i + 1 <= n
                   PROVE  Good(i + 1)
      OBVIOUS
    <2>2. i + 1 \in 1 .. n /\ (i + 1) - 1 = i /\ i <= n
      <3> HIDE DEF n
      <3>1. QED
        BY <1>3, <2>1
    <2>3. Good(i)
      BY <1>9, <2>2
    <2>4. QED
      BY <1>7, <2>2, <2>3
  <1>10. \A i \in 0 .. n : Good(i)
    <2>1. Nat \subseteq T
      <3> HIDE DEF T
      <3>1. QED
        BY <1>8, <1>9, Upto
    <2>2. QED
      BY <1>3, <2>1
  <1>11. \A i \in 1 .. n : Effect(docs[i - 1], docs[i], changes[i], p)
    <2>1. SUFFICES ASSUME NEW i \in 1 .. n
                   PROVE  Effect(docs[i - 1], docs[i], changes[i], p)
      OBVIOUS
    <2>2. i - 1 \in 0 .. n
      BY <1>3
    <2>3. QED
      BY <1>7, <1>10, <2>2
  <1>12. ChangedBy(doc, changes, strip).parent = docs[n]
    BY <1>2, <1>6 DEF docs
  <1>13. QED
    BY <1>6, <1>10, <1>11, <1>12 DEF ChangeSteps, D

\* What one step keeps all of them keep.
LEMMA StepByStep ==
    ASSUME NEW n \in Nat, NEW m \in 0 .. n, NEW T, m \in T, \A i \in m + 1 .. n : i - 1 \in T => i \in T
    PROVE  n \in T
  <1> DEFINE S == {j \in Nat : m + j <= n => m + j \in T}
  <1>1. 0 \in S
    OBVIOUS
  <1>2. ASSUME NEW j \in Nat, j \in S
        PROVE  j + 1 \in S
    <2>1. SUFFICES ASSUME m + (j + 1) <= n
                   PROVE  m + (j + 1) \in T
      OBVIOUS
    <2>2. m + (j + 1) \in m + 1 .. n /\ (m + (j + 1)) - 1 = m + j /\ m + j <= n
      BY <2>1
    <2>3. m + j \in T
      BY <1>2, <2>2
    <2>4. QED
      BY <2>2, <2>3
  <1>3. Nat \subseteq S
    <2> HIDE DEF S
    <2>1. QED
      BY <1>1, <1>2, Upto
  <1>4. n - m \in Nat /\ m + (n - m) = n
    OBVIOUS
  <1>5. QED
    BY <1>3, <1>4

\* Changes made to data, none of which throws or comes between it and a field.
Made(lists, doc, p, changes, strip) ==
    /\ NestedFieldsMeet(lists) /\ doc \in Documents(lists) /\ p \in Unbracketed(Fields(lists)) /\ strip \in BOOLEAN
    /\ changes \in Seq(Changes(lists)) /\ Direct(doc, p) /\ \A i \in DOMAIN changes : LeavesDirect(changes[i], p, lists)
    /\ ~ChangedBy(doc, changes, strip).thrown

\* Changes that were made were made in steps, to data of the same kind.
LEMMA MadeInSteps ==
    ASSUME NEW lists, NEW doc, NEW p, NEW changes, NEW strip, Made(lists, doc, p, changes, strip)
    PROVE  LET final == ChangedBy(doc, changes, strip).parent
           IN  /\ \E docs : ChangeSteps(docs, doc, changes, p, lists) /\ final = docs[Len(changes)]
               /\ final \in Documents(lists) /\ Direct(final, p) /\ IsArray(final) = IsArray(doc)
               /\ Len(changes) \in Nat /\ DOMAIN changes = 1 .. Len(changes)
  <1> DEFINE final == ChangedBy(doc, changes, strip).parent
  <1>1. \E docs : ChangeSteps(docs, doc, changes, p, lists) /\ final = docs[Len(changes)]
    BY StepsOfChanges DEF Made
  <1>2. Len(changes) \in Nat /\ DOMAIN changes = 1 .. Len(changes)
    BY DEF Made
  <1>3. Len(changes) \in 0 .. Len(changes)
    BY <1>2
  <1> HIDE DEF final
  <1>4. final \in Documents(lists) /\ Direct(final, p) /\ IsArray(final) = IsArray(doc)
    BY <1>1, <1>3 DEF ChangeSteps
  <1>5. QED
    BY <1>1, <1>2, <1>4 DEF final

\* Once a field is set or removed, and as long as what follows leaves it alone,
\* removes it or sets it, it holds what was set last, or nothing.
LEMMA SettledFrom ==
    ASSUME NEW lists, NEW doc, NEW p, NEW changes, NEW strip, Made(lists, doc, p, changes, strip),
           NEW k \in DOMAIN changes, IsPrefix(changes[k][1], p),
           \A i \in DOMAIN changes : i >= k => Meant(changes[i], p),
           IsArray(doc) => \A i \in DOMAIN changes : i >= k /\ changes[i][1] = p => changes[i][2] = Undefined
    PROVE  ValuesAt(ChangedBy(doc, changes, strip).parent, p)
               \subseteq {changes[i][2] : i \in {j \in DOMAIN changes : j >= k /\ changes[j][1] = p}} \ {Undefined}
  <1> DEFINE n == Len(changes)
             final == ChangedBy(doc, changes, strip).parent
             Left == {changes[i][2] : i \in {j \in DOMAIN changes : j >= k /\ changes[j][1] = p}} \ {Undefined}
  <1>1. PICK docs : ChangeSteps(docs, doc, changes, p, lists) /\ final = docs[n]
    BY MadeInSteps
  <1>2. n \in Nat /\ DOMAIN changes = 1 .. n
    BY MadeInSteps
  <1> HIDE DEF n, final, Left
  <1>3. /\ \A i \in 0 .. n : IsArray(docs[i]) = IsArray(doc)
        /\ \A i \in 1 .. n : Effect(docs[i - 1], docs[i], changes[i], p)
    BY <1>1 DEF ChangeSteps, n
  <1>4. p \in Seq(STRING)
    BY DEF Made, NestedFieldsMeet, IsList, Unbracketed, Fields, Paths
  <1>5. ASSUME NEW i \in 1 .. n, i >= k, i = k \/ ValuesAt(docs[i - 1], p) \subseteq Left
        PROVE  ValuesAt(docs[i], p) \subseteq Left
    <2> DEFINE before == docs[i - 1]
               x      == changes[i]
    <2>1. Effect(before, docs[i], x, p) /\ Meant(x, p)
      BY <1>2, <1>3, <1>5
    <2>2. IsArray(before) = IsArray(doc)
      <3>1. i - 1 \in 0 .. n
        BY <1>2
      <3>2. QED
        BY <1>3, <3>1
    <2>3. x[1] = p => x[2] = Undefined \/ x[2] \in Left
      BY <1>2, <1>5 DEF Left
    <2>4. x[1] = p /\ IsArray(before) => x[2] = Undefined
      BY <1>2, <1>5, <2>2
    <2>5. i = k => ~Spares(x[1], x[2], p)
      BY PrefixMeans
    <2> HIDE DEF before, x
    <2>6. CASE Spares(x[1], x[2], p)
      BY <1>5, <2>1, <2>5, <2>6 DEF Effect, before
    <2>7. CASE Removes(x[1], x[2], p)
      BY <2>1, <2>7 DEF Effect
    <2>8. CASE x[1] = p /\ x[2] = Undefined
      <3>1. Removes(x[1], x[2], p)
        BY <1>4, <2>8, PrefixSelf DEF Removes
      <3>2. QED
        BY <2>7, <3>1
    <2>9. CASE x[1] = p /\ x[2] # Undefined
      BY <2>1, <2>3, <2>4, <2>9 DEF Effect
    <2>10. QED
      BY <2>1, <2>6, <2>7, <2>8, <2>9 DEF Meant
  <1> DEFINE T == {i \in Nat : ValuesAt(docs[i], p) \subseteq Left}
  <1>6. k \in 0 .. n /\ k \in T
    BY <1>2, <1>5
  <1>7. \A i \in k + 1 .. n : i - 1 \in T => i \in T
    <2>1. SUFFICES ASSUME NEW i \in k + 1 .. n, i - 1 \in T
                   PROVE  i \in T
      OBVIOUS
    <2>2. i \in 1 .. n /\ i >= k
      BY <1>6
    <2>3. QED
      BY <1>5, <2>1, <2>2
  <1>8. n \in T
    <2> HIDE DEF T
    <2>1. QED
      BY <1>2, <1>6, <1>7, StepByStep
  <1>9. QED
    BY <1>1, <1>8 DEF final, Left

\* Changes that spare a field, but for those that set it to one value.
SparedOrSetTo(w, p, changes) ==
    \A i \in DOMAIN changes : Spares(changes[i][1], changes[i][2], p) \/ changes[i] = <<p, w>>

\* A field that every change spares, but for those that set it to a value, has
\* that value, what it had, or at least some value when it had one.
LeftAt(final, doc, w, p, changes) ==
    /\ ValuesAt(doc, p) # {} => ValuesAt(final, p) # {}
    /\ (\A i \in DOMAIN changes : changes[i] # <<p, w>>) => ValuesAt(final, p) = ValuesAt(doc, p)
    /\ ~Get(doc, p, Options).thrown /\ changes # <<>> /\ changes[1] = <<p, w>> => ValuesAt(final, p) = {w}

\* Changes that spare a field or set it to one value leave it at one of the two.
LEMMA SparedOrSet ==
    ASSUME NEW lists, NEW doc, NEW p, NEW changes, NEW strip, Made(lists, doc, p, changes, strip), ~IsArray(doc),
           NEW w, w # Undefined, SparedOrSetTo(w, p, changes)
    PROVE  LeftAt(ChangedBy(doc, changes, strip).parent, doc, w, p, changes)
  <1> DEFINE n == Len(changes)
             final == ChangedBy(doc, changes, strip).parent
  <1>1. PICK docs : ChangeSteps(docs, doc, changes, p, lists) /\ final = docs[n]
    BY MadeInSteps
  <1>2. n \in Nat /\ DOMAIN changes = 1 .. n /\ (changes # <<>> => n # 0)
    BY MadeInSteps DEF Made
  <1> HIDE DEF final
  <1>3. /\ docs[0] = doc
        /\ \A i \in 0 .. n : ~IsArray(docs[i])
        /\ \A i \in 1 .. n : Effect(docs[i - 1], docs[i], changes[i], p)
    BY <1>1 DEF ChangeSteps
  <1> HIDE DEF n
  <1>4. ASSUME NEW i \in 1 .. n
        PROVE  LET before == docs[i - 1]
               IN  /\ changes[i] # <<p, w>> => ValuesAt(docs[i], p) = ValuesAt(before, p)
                   /\ changes[i] = <<p, w>> /\ (ValuesAt(before, p) # {} \/ ~Get(before, p, Options).thrown)
                          => ValuesAt(docs[i], p) = {w}
    <2> DEFINE before == docs[i - 1]
               x == changes[i]
    <2>1. ~IsArray(before) /\ Effect(before, docs[i], x, p)
      <3>1. i - 1 \in 0 .. n
        BY <1>2
      <3>2. QED
        BY <1>3, <3>1
    <2>2. x = <<p, w>> \/ Spares(x[1], x[2], p)
      BY <1>2 DEF SparedOrSetTo
    <2> HIDE DEF before, x
    <2>3. x # <<p, w>> => ValuesAt(docs[i], p) = ValuesAt(before, p)
      BY <2>1, <2>2 DEF Effect
    <2>4. x = <<p, w>> /\ (ValuesAt(before, p) # {} \/ ~Get(before, p, Options).thrown) => ValuesAt(docs[i], p) = {w}
      BY <2>1 DEF Effect
    <2>5. QED
      BY <2>3, <2>4 DEF before, x
  <1>5. 0 \in 0 .. n /\ n \in 0 .. n
    BY <1>2
  <1>6. ASSUME ValuesAt(doc, p) # {}
        PROVE  ValuesAt(docs[n], p) # {}
    <2> DEFINE T == {i \in Nat : ValuesAt(docs[i], p) # {}}
    <2>1. 0 \in T
      BY <1>3, <1>6
    <2>2. \A i \in 0 + 1 .. n : i - 1 \in T => i \in T
      <3>1. SUFFICES ASSUME NEW i \in 0 + 1 .. n, i - 1 \in T
                     PROVE  i \in T
        OBVIOUS
      <3>2. i \in 1 .. n /\ i \in Nat /\ ValuesAt(docs[i - 1], p) # {}
        BY <1>2, <3>1
      <3>3. ValuesAt(docs[i], p) # {}
        <4>1. CASE changes[i] = <<p, w>>
          BY <1>4, <3>2, <4>1
        <4>2. CASE changes[i] # <<p, w>>
          BY <1>4, <3>2, <4>2
        <4>3. QED
          BY <4>1, <4>2
      <3>4. QED
        BY <3>2, <3>3
    <2> HIDE DEF T
    <2>3. n \in T
      BY <1>2, <1>5, <2>1, <2>2, StepByStep
    <2>4. QED
      BY <2>3 DEF T
  <1>7. ASSUME \A i \in DOMAIN changes : changes[i] # <<p, w>>
        PROVE  ValuesAt(docs[n], p) = ValuesAt(doc, p)
    <2> DEFINE T == {i \in Nat : ValuesAt(docs[i], p) = ValuesAt(doc, p)}
    <2>1. 0 \in T
      BY <1>3
    <2>2. \A i \in 0 + 1 .. n : i - 1 \in T => i \in T
      BY <1>2, <1>4, <1>7
    <2> HIDE DEF T
    <2>3. n \in T
      BY <1>2, <1>5, <2>1, <2>2, StepByStep
    <2>4. QED
      BY <2>3 DEF T
  <1>8. ASSUME ~Get(doc, p, Options).thrown, changes # <<>>, changes[1] = <<p, w>>
        PROVE  ValuesAt(docs[n], p) = {w}
    <2> DEFINE T == {i \in Nat : ValuesAt(docs[i], p) = {w}}
    <2>1. 1 \in 0 .. n /\ 1 \in 1 .. n
      BY <1>2, <1>8
    <2>2. 1 \in T
      BY <1>3, <1>4, <1>8, <2>1
    <2>3. \A i \in 1 + 1 .. n : i - 1 \in T => i \in T
      <3>1. SUFFICES ASSUME NEW i \in 1 + 1 .. n, i - 1 \in T
                     PROVE  i \in T
        OBVIOUS
      <3>2. i \in 1 .. n /\ i - 1 \in Nat
        BY <1>2
      <3>3. QED
        BY <1>4, <3>1, <3>2
    <2> HIDE DEF T
    <2>4. n \in T
      BY <1>2, <2>1, <2>2, <2>3, StepByStep
    <2>5. QED
      BY <2>4 DEF T
  <1>9. QED
    BY <1>1, <1>6, <1>7, <1>8 DEF final, LeftAt

FoundNothing(doc, p) == ~Get(doc, p, Options).thrown /\ Get(doc, p, Options).values = <<>>

\* Nothing is found only where there is nothing, unless behind an array.
LEMMA NothingThere ==
    ASSUME NEW lists, NestedFieldsMeet(lists), NEW doc \in Documents(lists), NEW p \in Fields(lists),
           Direct(doc, p), ~IsArray(doc), FoundNothing(doc, p)
    PROVE  ValuesAt(doc, p) = {}
  <1>1. ReadsFields(doc, p, Fields(lists)) /\ ~UnderArray(doc, p)
    BY DEF NestedFieldsMeet, Direct
  <1>2. ToSet(Get(doc, p, Options).values) = ValuesAt(doc, p)
    BY <1>1 DEF ReadsFields, FoundNothing
  <1>3. ToSet(<<>>) = {}
    BY DEF ToSet
  <1>4. QED
    BY <1>2, <1>3 DEF FoundNothing

\* What is known of a list's fields.
LEMMA FieldsOfLists ==
    ASSUME NEW lists, NestedFieldsMeet(lists), NEW values \in {lists.allowed, lists.forbidden},
           NEW k \in DOMAIN values
    PROVE  /\ IsList(values) /\ values[k][1] \in Fields(lists) /\ values[k][1] \in Seq(STRING) \ {<<>>}
           /\ Undefined \notin ItemsOf(values[k][2])
           /\ Len(values) \in Nat /\ DOMAIN values = 1 .. Len(values)
  <1>1. IsList(values)
    BY DEF NestedFieldsMeet
  <1>2. values[k][1] \in Fields(lists)
    BY DEF Fields, Paths
  <1>3. Len(values) \in Nat /\ DOMAIN values = 1 .. Len(values)
    BY <1>1 DEF IsList
  <1>4. QED
    BY <1>1, <1>2, <1>3 DEF IsList

\* The changes by a field unrelated to another one spare that one, or remove
\* it where it has no value anyway.
LEMMA OtherField ==
    ASSUME NEW lists, NestedFieldsMeet(lists), NEW doc \in Documents(lists), NEW q \in Fields(lists),
           ~HasBracket(q),
           NEW p \in Unbracketed(Fields(lists)), ~Related(q, p), NEW value, Undefined \notin ItemsOf(value),
           ~Get(doc, q, Options).thrown, NEW j \in DOMAIN MatchField(doc, q, value).entries,
           NEW v \in {MatchField(doc, q, value).entries[j][2], Undefined}
    PROVE  LET at == MatchField(doc, q, value).entries[j][1]
           IN  /\ ~HasBracket(at) /\ at # p /\ ~IsPrefix(p, at)
               /\ Spares(at, v, p) \/ (Removes(at, v, p) /\ FoundNothing(doc, p))
  <1> DEFINE found   == Get(doc, q, Options)
             entries == MatchField(doc, q, value).entries
             at      == entries[j][1]
  <1>1. ReadsFields(doc, q, Fields(lists))
    BY DEF NestedFieldsMeet
  <1>2. entries = MatchFound(found, ItemsOf(value)).entries
    BY DEF MatchField
  <1>3. j \in DOMAIN found.paths /\ at = found.paths[j]
    BY <1>2, MatchFoundPaths
  <1>4. at \in ToSet(found.paths)
    BY <1>3 DEF ToSet
  <1>5. /\ ~HasBracket(at)
        /\ found.values = <<>> /\ IsPrefix(at, p) => Get(doc, p, Options) = found
        /\ IF found.values = <<>> THEN ~Leads(p, at) ELSE ~Related(at, p)
    BY <1>1, <1>4 DEF ReadsFields
  <1>6. p \in Seq(STRING)
    BY DEF NestedFieldsMeet, IsList, Unbracketed, Fields, Paths
  <1> HIDE DEF found, entries, at
  <1>7. ~Leads(p, at)
    BY <1>5 DEF Related
  <1>8. ~IsPrefix(p, at)
    BY <1>7 DEF Leads
  <1>9. at # p
    BY <1>6, <1>8, PrefixSelf
  <1>10. Spares(at, v, p) \/ (Removes(at, v, p) /\ FoundNothing(doc, p))
    <2>1. CASE found.values = <<>>
      <3>1. entries[j] = <<found.paths[j], Undefined>>
        BY <1>2, <1>3, <2>1, MatchFoundNone
      <3>2. v = Undefined
        BY <3>1 DEF entries
      <3>3. CASE IsPrefix(at, p)
        BY <1>5, <2>1, <3>2, <3>3 DEF Removes, FoundNothing, found
      <3>4. CASE ~IsPrefix(at, p)
        BY <1>7, <3>2, <3>4 DEF Spares
      <3>5. QED
        BY <3>3, <3>4
    <2>2. CASE found.values # <<>>
      BY <1>5, <2>2 DEF Spares
    <2>3. QED
      BY <2>1, <2>2
  <1>11. QED
    BY <1>5, <1>8, <1>9, <1>10 DEF at, entries

\* The one change by a field itself: it sets what it may keep of its value, or
\* removes it at the first name without one.
FoundOne(doc, p, entries, allowed) ==
    \E v, w : /\ ValuesAt(doc, p) = {v} /\ ~UnderArray(doc, p) /\ ~FoundNothing(doc, p)
              /\ entries = <<<<p, w>>>>
              /\ w # Undefined => /\ Fits(allowed, w) /\ IsArray(w) = IsArray(v)
                                  /\ ~IsArray(v) => w = v
FoundNone(doc, p, entries, lists) ==
    \E at : /\ FoundNothing(doc, p) /\ entries = <<<<at, Undefined>>>>
            /\ at \in Seq(STRING) /\ ~HasBracket(at) /\ IsPrefix(at, p)
            /\ \A q \in Unbracketed(Fields(lists)) : IsPrefix(at, q) => FoundNothing(doc, q)

\* A field that is read as one value is matched by one entry.
LEMMA OwnField ==
    ASSUME NEW lists, NestedFieldsMeet(lists), NEW doc \in Documents(lists), NEW p \in Unbracketed(Fields(lists)),
           NEW value, Undefined \notin value, ~Get(doc, p, Options).thrown, Direct(doc, p)
    PROVE  \/ FoundOne(doc, p, MatchFound(Get(doc, p, Options), value).entries, value)
           \/ FoundNone(doc, p, MatchFound(Get(doc, p, Options), value).entries, lists)
  <1> DEFINE found   == Get(doc, p, Options)
             entries == MatchFound(found, value).entries
  <1>1. ReadsFields(doc, p, Fields(lists)) /\ ~HasBracket(p)
    BY DEF NestedFieldsMeet, Unbracketed
  <1>2. /\ Len(found.paths) = 1 /\ found.paths \in Seq(Seq(STRING))
        /\ IF found.values = <<>> THEN IsPrefix(found.paths[1], p)
           ELSE found.paths = <<p>> /\ Len(found.values) = 1 /\ ~UnderArray(doc, p)
        /\ ~UnderArray(doc, p) => ToSet(found.values) = ValuesAt(doc, p)
        /\ \A v \in ToSet(found.values) : IsArray(v) => v[2] \in Seq(ToSet(v[2]))
        /\ \A at \in ToSet(found.paths) :
               ~HasBracket(at) /\ \A q \in Unbracketed(Fields(lists)) :
                                      found.values = <<>> /\ IsPrefix(at, q) => Get(doc, q, Options) = found
    BY <1>1 DEF ReadsFields
  <1> HIDE DEF found, entries
  <1>3. CASE found.values = <<>>
    <2> DEFINE at == found.paths[1]
    <2>1. DOMAIN found.paths = 1 .. 1 /\ at \in Seq(STRING) /\ at \in ToSet(found.paths)
      BY <1>2 DEF ToSet
    <2>2. entries[1] = <<at, Undefined>>
      BY <1>3, <2>1, MatchFoundNone DEF entries
    <2>3. DOMAIN entries = 1 .. 1 /\ entries = [i \in DOMAIN entries |-> entries[i]]
      <3>1. DOMAIN entries = 1 .. 1
        BY <2>1, MatchFoundPaths DEF entries
      <3>2. entries = [i \in DOMAIN entries |-> entries[i]]
        BY DEF entries, MatchFound
      <3>3. QED
        BY <3>1, <3>2
    <2>4. entries = <<<<at, Undefined>>>>
      <3>1. <<<<at, Undefined>>>> = [i \in 1 .. 1 |-> <<at, Undefined>>]
        OBVIOUS
      <3>2. \A i \in 1 .. 1 : entries[i] = <<at, Undefined>>
        BY <2>2
      <3> HIDE DEF at
      <3>3. QED
        BY <2>3, <3>1, <3>2
    <2>5. /\ IsPrefix(at, p) /\ ~HasBracket(at) /\ FoundNothing(doc, p)
          /\ \A q \in Unbracketed(Fields(lists)) : IsPrefix(at, q) => FoundNothing(doc, q)
      BY <1>2, <1>3, <2>1 DEF FoundNothing, found
    <2> HIDE DEF at
    <2>6. FoundNone(doc, p, entries, lists)
      BY <2>1, <2>4, <2>5 DEF FoundNone
    <2>7. QED
      BY <2>6 DEF entries, found
  <1>4. CASE found.values # <<>>
    <2> DEFINE v == found.values[1]
               w == entries[1][2]
    <2>1. found.paths = <<p>> /\ found.values = <<v>> /\ ~UnderArray(doc, p) /\ ToSet(found.values) = ValuesAt(doc, p)
      <3>1. /\ found.paths = <<p>> /\ Len(found.values) = 1 /\ ~UnderArray(doc, p)
            /\ ToSet(found.values) = ValuesAt(doc, p)
        BY <1>2, <1>4
      <3>2. found.values = <<v>>
        <4>1. found.values \in Seq(ToSet(found.values))
          BY <1>1 DEF ReadsFields, found
        <4> DEFINE S == ToSet(found.values)
                   values == found.values
        <4>2. values \in Seq(S) /\ Len(values) = 1
          BY <3>1, <4>1
        <4> HIDE DEF S, values
        <4>3. values = <<values[1]>>
          BY <4>2
        <4>4. QED
          BY <4>3 DEF values
      <3>3. QED
        BY <3>1, <3>2
    <2> HIDE DEF v
    <2>2. ValuesAt(doc, p) = {v}
      BY <2>1 DEF ToSet
    <2>3. IsArray(v) => v[2] \in Seq(ToSet(v[2]))
      BY <1>2, <2>1, <2>2
    <2>4. /\ entries = <<<<p, w>>>>
          /\ w # Undefined => /\ Fits(value, w) /\ IsArray(w) = IsArray(v)
                              /\ ~IsArray(v) => w = v
      BY <2>1, <2>3, MatchFoundOne DEF entries
    <2>5. ~FoundNothing(doc, p)
      BY <1>4 DEF FoundNothing, found
    <2> HIDE DEF w
    <2>6. FoundOne(doc, p, entries, value)
      BY <2>1, <2>2, <2>4, <2>5 DEF FoundOne
    <2>7. QED
      BY <2>6 DEF entries, found
  <1>5. QED
    BY <1>3, <1>4

\* The changes that a list makes, each by one of its fields.
MatchedChanges(doc, values, keeps) ==
    LET entries == MatchInputValues(doc, values).entries
    IN  [i \in DOMAIN entries |-> IF keeps THEN entries[i] ELSE <<entries[i][1], Undefined>>]
EntriesBy(doc, values, k) == MatchField(doc, values[k][1], values[k][2]).entries
ByField(x, doc, values, keeps, k) ==
    \E j \in DOMAIN EntriesBy(doc, values, k) :
        LET entry == EntriesBy(doc, values, k)[j]
        IN  x[1] = entry[1] /\ x[2] = IF keeps THEN entry[2] ELSE Undefined

ChangesByList(new, doc, values, keeps, lists) ==
    /\ new \in Seq(Changes(lists))
    /\ \A i \in DOMAIN new : \E k \in DOMAIN values : ByField(new[i], doc, values, keeps, k)
    /\ \A k \in DOMAIN values : \A j \in DOMAIN EntriesBy(doc, values, k) :
           \E i \in DOMAIN new : new[i][1] = EntriesBy(doc, values, k)[j][1]
    /\ ~MatchInputValues(doc, values).thrown => \A k \in DOMAIN values : ~Get(doc, values[k][1], Options).thrown

\* The changes of a list come from its fields, and every field makes some.
LEMMA ChangesOfList ==
    ASSUME NEW lists, NestedFieldsMeet(lists), NEW doc \in Documents(lists),
           NEW values \in {lists.allowed, lists.forbidden}, NEW keeps \in BOOLEAN
    PROVE  ChangesByList(MatchedChanges(doc, values, keeps), doc, values, keeps, lists)
  <1> DEFINE X       == Changes(lists)
             m       == Len(values)
             matched == [k \in DOMAIN values |-> MatchField(doc, values[k][1], values[k][2])]
             all     == Merged(matched)
             entries == all.entries
             new     == MatchedChanges(doc, values, keeps)
  <1>1. m \in Nat /\ DOMAIN values = 1 .. m /\ matched = [k \in 1 .. m |-> MatchField(doc, values[k][1], values[k][2])]
    BY DEF NestedFieldsMeet, IsList
  <1>2. Len(matched) = m
    BY <1>1
  <1>3. \A x \in X : x = <<x[1], x[2]>>
    BY DEF NestedFieldsMeet
  <1>4. \A k \in 1 .. m : matched[k].entries = EntriesBy(doc, values, k) /\ matched[k].entries \in Seq(X)
    <2>1. SUFFICES ASSUME NEW k \in 1 .. m
                   PROVE  matched[k].entries = EntriesBy(doc, values, k) /\ matched[k].entries \in Seq(X)
      OBVIOUS
    <2> DEFINE found == Get(doc, values[k][1], Options)
               here  == EntriesBy(doc, values, k)
    <2>2. matched[k].entries = here
      BY <1>1 DEF EntriesBy
    <2>3. ChangesOf(lists, here) /\ values[k][1] \in Fields(lists)
      BY <1>1, FieldsOfLists DEF NestedFieldsMeet, EntriesBy
    <2>4. found.paths \in Seq(Seq(STRING))
      BY <2>3 DEF NestedFieldsMeet, ReadsFields
    <2>5. here = [i \in DOMAIN found.paths |-> here[i]]
      BY DEF EntriesBy, MatchField, MatchFound
    <2>6. \A i \in DOMAIN here : here[i] \in X
      BY <2>3 DEF ChangesOf
    <2> HIDE DEF found, here, X, matched
    <2>7. DOMAIN found.paths = 1 .. Len(found.paths) /\ Len(found.paths) \in Nat
      BY <2>4
    <2>8. here \in Seq(X)
      BY <2>5, <2>6, <2>7
    <2>9. QED
      BY <2>2, <2>8 DEF here
  <1>5. /\ entries \in Seq(X)
        /\ \A i \in DOMAIN entries : \E k \in 1 .. m : \E j \in DOMAIN matched[k].entries : entries[i] = matched[k].entries[j]
        /\ \A k \in 1 .. m : \A j \in DOMAIN matched[k].entries :
               \E i \in DOMAIN entries : entries[i][1] = matched[k].entries[j][1]
    <2> HIDE DEF m, X, matched
    <2>1. MergedFrom(entries, X, matched, m)
      BY <1>1, <1>2, <1>3, <1>4, MergedKeeps
    <2>2. QED
      BY <2>1 DEF MergedFrom
  <1>6. all = MatchInputValues(doc, values)
    BY DEF MatchInputValues
  <1>7. all.thrown <=> \E k \in 1 .. m : matched[k].thrown
    BY <1>1 DEF Merged
  <1>8. \A k \in 1 .. m : matched[k].thrown = Get(doc, values[k][1], Options).thrown
    BY <1>1, MatchFoundPaths DEF MatchField
  <1> HIDE DEF all, X, matched
  <1>9. new = [i \in DOMAIN entries |-> IF keeps THEN entries[i] ELSE <<entries[i][1], Undefined>>]
    BY <1>6 DEF MatchedChanges
  <1>10. \A i \in DOMAIN entries : entries[i] \in X /\ <<entries[i][1], Undefined>> \in X
    <2>1. SUFFICES ASSUME NEW i \in DOMAIN entries
                   PROVE  entries[i] \in X /\ <<entries[i][1], Undefined>> \in X
      OBVIOUS
    <2>2. PICK k \in 1 .. m : \E j \in DOMAIN EntriesBy(doc, values, k) : entries[i] = EntriesBy(doc, values, k)[j]
      BY <1>4, <1>5
    <2>3. ChangesOf(lists, EntriesBy(doc, values, k))
      BY <1>1 DEF NestedFieldsMeet, EntriesBy
    <2>4. QED
      BY <2>2, <2>3 DEF ChangesOf, X
  <1> HIDE DEF new, entries
  <1>11. new \in Seq(X)
    <2>1. DOMAIN entries = 1 .. Len(entries) /\ Len(entries) \in Nat
      BY <1>5
    <2>2. QED
      BY <1>9, <1>10, <2>1
  <1>12. \A i \in DOMAIN new : \E k \in DOMAIN values : ByField(new[i], doc, values, keeps, k)
    <2>1. SUFFICES ASSUME NEW i \in DOMAIN new
                   PROVE  \E k \in DOMAIN values : ByField(new[i], doc, values, keeps, k)
      OBVIOUS
    <2>2. i \in DOMAIN entries
      BY <1>9
    <2>3. PICK k \in 1 .. m : \E j \in DOMAIN EntriesBy(doc, values, k) : entries[i] = EntriesBy(doc, values, k)[j]
      BY <1>4, <1>5, <2>2
    <2>4. new[i][1] = entries[i][1] /\ new[i][2] = IF keeps THEN entries[i][2] ELSE Undefined
      BY <1>9, <2>2
    <2>5. ByField(new[i], doc, values, keeps, k)
      BY <2>3, <2>4 DEF ByField
    <2>6. QED
      BY <1>1, <2>5
  <1>13. \A k \in DOMAIN values : \A j \in DOMAIN EntriesBy(doc, values, k) :
             \E i \in DOMAIN new : new[i][1] = EntriesBy(doc, values, k)[j][1]
    <2>1. \A i \in DOMAIN entries : i \in DOMAIN new /\ new[i][1] = entries[i][1]
      BY <1>9
    <2>2. SUFFICES ASSUME NEW k \in 1 .. m, NEW j \in DOMAIN EntriesBy(doc, values, k)
                   PROVE  \E i \in DOMAIN new : new[i][1] = EntriesBy(doc, values, k)[j][1]
      BY <1>1
    <2>3. matched[k].entries = EntriesBy(doc, values, k)
      BY <1>4
    <2>4. PICK i \in DOMAIN entries : entries[i][1] = EntriesBy(doc, values, k)[j][1]
      BY <1>5, <2>3
    <2>5. QED
      BY <2>1, <2>4
  <1>14. QED
    BY <1>1, <1>6, <1>7, <1>8, <1>11, <1>12, <1>13 DEF new, X, all, matched, ChangesByList

\* What a list may leave a field at.
Leaves(v, p, values, keeps) ==
    \/ v = Undefined
    \/ keeps /\ \A k \in DOMAIN values : values[k][1] = p => Fits(ItemsOf(values[k][2]), v)

\* What the changes by a list mean for a field that its other fields are apart
\* from: where the field has a value they set it as one, otherwise at most
\* remove it, and they do either for a field of the list.
ListMeans(new, doc, p, values, keeps) ==
    /\ \A i \in DOMAIN new : Meant(new[i], p) /\ new[i] = <<new[i][1], new[i][2]>>
    /\ FoundNothing(doc, p) =>
           \A i \in DOMAIN new : Spares(new[i][1], new[i][2], p) \/ Removes(new[i][1], new[i][2], p)
    /\ ~FoundNothing(doc, p) =>
           \E w : /\ Leaves(w, p, values, keeps)
                  /\ \A i \in DOMAIN new : \/ Spares(new[i][1], new[i][2], p)
                                           \/ new[i] = <<p, w>> /\ p \in Paths(values) /\ ~UnderArray(doc, p)
    /\ p \in Paths(values) => /\ \E i \in DOMAIN new : IsPrefix(new[i][1], p)
                              /\ ~FoundNothing(doc, p) => \E i \in DOMAIN new : new[i][1] = p

OthersApart(p, values) ==
    \A k \in DOMAIN values : values[k][1] # p => ~HasBracket(values[k][1]) /\ ~Related(values[k][1], p)

\* A change by a field apart from another spares that one, or finds nothing there.
LEMMA OtherChange ==
    ASSUME NEW lists, NestedFieldsMeet(lists), NEW doc \in Documents(lists),
           NEW values \in {lists.allowed, lists.forbidden},
           NEW keeps \in BOOLEAN, NEW p \in Unbracketed(Fields(lists)), NEW k \in DOMAIN values,
           ~HasBracket(values[k][1]), ~Related(values[k][1], p), ~Get(doc, values[k][1], Options).thrown,
           NEW x, ByField(x, doc, values, keeps, k)
    PROVE  /\ ~HasBracket(x[1]) /\ x[1] # p /\ ~IsPrefix(p, x[1])
           /\ Spares(x[1], x[2], p) \/ (Removes(x[1], x[2], p) /\ FoundNothing(doc, p))
  <1> DEFINE q     == values[k][1]
             value == values[k][2]
  <1>1. q \in Fields(lists) /\ Undefined \notin ItemsOf(value)
    BY FieldsOfLists
  <1>2. PICK j \in DOMAIN MatchField(doc, q, value).entries :
            /\ x[1] = MatchField(doc, q, value).entries[j][1]
            /\ x[2] = IF keeps THEN MatchField(doc, q, value).entries[j][2] ELSE Undefined
    BY DEF ByField, EntriesBy
  <1>3. x[2] \in {MatchField(doc, q, value).entries[j][2], Undefined}
    BY <1>2
  <1>4. ~HasBracket(q) /\ ~Related(q, p) /\ ~Get(doc, q, Options).thrown
    OBVIOUS
  <1> HIDE DEF q, value
  <1>5. LET at == MatchField(doc, q, value).entries[j][1]
        IN  /\ ~HasBracket(at) /\ at # p /\ ~IsPrefix(p, at)
            /\ Spares(at, x[2], p) \/ (Removes(at, x[2], p) /\ FoundNothing(doc, p))
    BY <1>1, <1>3, <1>4, OtherField
  <1>6. QED
    BY <1>2, <1>5

SetsOwn(doc, p, values, keeps, k) ==
    /\ FoundOne(doc, p, EntriesBy(doc, values, k), ItemsOf(values[k][2]))
    /\ \E w : /\ w # Undefined => keeps /\ Fits(ItemsOf(values[k][2]), w)
              /\ \A x : ByField(x, doc, values, keeps, k) => x[1] = p /\ x[2] = w
ClearsOwn(doc, p, values, keeps, k, lists) ==
    /\ FoundNone(doc, p, EntriesBy(doc, values, k), lists)
    /\ \E at : /\ at \in Seq(STRING) /\ ~HasBracket(at) /\ IsPrefix(at, p)
               /\ \A q \in Unbracketed(Fields(lists)) : IsPrefix(at, q) => FoundNothing(doc, q)
               /\ \A x : ByField(x, doc, values, keeps, k) => x[1] = at /\ x[2] = Undefined

\* The change by a field itself sets it, or clears it where nothing is found.
LEMMA OwnChange ==
    ASSUME NEW lists, NestedFieldsMeet(lists), NEW doc \in Documents(lists),
           NEW values \in {lists.allowed, lists.forbidden},
           NEW keeps \in BOOLEAN, NEW k \in DOMAIN values, NEW p \in Unbracketed(Fields(lists)), values[k][1] = p,
           ~Get(doc, p, Options).thrown, Direct(doc, p)
    PROVE  SetsOwn(doc, p, values, keeps, k) \/ ClearsOwn(doc, p, values, keeps, k, lists)
  <1> DEFINE value   == ItemsOf(values[k][2])
             entries == EntriesBy(doc, values, k)
  <1>1. Undefined \notin value
    BY FieldsOfLists
  <1>2. entries = MatchFound(Get(doc, p, Options), value).entries
    BY DEF EntriesBy, MatchField
  <1> HIDE DEF value, entries
  <1>4. FoundOne(doc, p, entries, value) \/ FoundNone(doc, p, entries, lists)
    BY <1>1, <1>2, OwnField
  <1>5. CASE FoundOne(doc, p, entries, value)
    <2>1. PICK v, w0 : entries = <<<<p, w0>>>> /\ (w0 # Undefined => Fits(value, w0))
      BY <1>5 DEF FoundOne
    <2> DEFINE w == IF keeps THEN w0 ELSE Undefined
    <2>2. w # Undefined => keeps /\ Fits(value, w)
      BY <2>1
    <2>3. ASSUME NEW x, ByField(x, doc, values, keeps, k)
          PROVE  x[1] = p /\ x[2] = w
      BY <2>1, <2>3 DEF ByField, entries
    <2> HIDE DEF w
    <2>4. QED
      BY <1>5, <2>2, <2>3 DEF SetsOwn, entries, value
  <1>6. CASE FoundNone(doc, p, entries, lists)
    <2>1. PICK at : /\ entries = <<<<at, Undefined>>>> /\ at \in Seq(STRING) /\ ~HasBracket(at) /\ IsPrefix(at, p)
                    /\ \A q \in Unbracketed(Fields(lists)) : IsPrefix(at, q) => FoundNothing(doc, q)
      BY <1>6 DEF FoundNone
    <2>2. ASSUME NEW x, ByField(x, doc, values, keeps, k)
          PROVE  x[1] = at /\ x[2] = Undefined
      BY <2>1, <2>2 DEF ByField, entries
    <2>3. QED
      BY <1>6, <2>1, <2>2 DEF ClearsOwn, entries
  <1>7. QED
    BY <1>4, <1>5, <1>6

\* What the changes of a list mean for a field the others are apart from.
LEMMA ListMeansForField ==
    ASSUME NEW lists, NestedFieldsMeet(lists), NEW doc \in Documents(lists),
           NEW values \in {lists.allowed, lists.forbidden},
           NEW keeps \in BOOLEAN, NEW p \in Unbracketed(Fields(lists)), OthersApart(p, values), Direct(doc, p),
           ~MatchInputValues(doc, values).thrown
    PROVE  ListMeans(MatchedChanges(doc, values, keeps), doc, p, values, keeps)
  <1> DEFINE new == MatchedChanges(doc, values, keeps)
  <1>1. /\ new \in Seq(Changes(lists))
        /\ \A i \in DOMAIN new : \E k \in DOMAIN values : ByField(new[i], doc, values, keeps, k)
        /\ \A k \in DOMAIN values : \A j \in DOMAIN EntriesBy(doc, values, k) :
               \E i \in DOMAIN new : new[i][1] = EntriesBy(doc, values, k)[j][1]
        /\ \A k \in DOMAIN values : ~Get(doc, values[k][1], Options).thrown
    <2>1. ChangesByList(new, doc, values, keeps, lists)
      BY ChangesOfList
    <2> HIDE DEF new
    <2>2. QED
      BY <2>1 DEF ChangesByList
  <1> HIDE DEF new
  <1>2. \A i \in DOMAIN new : new[i] = <<new[i][1], new[i][2]>>
    <2>1. \A x \in Changes(lists) : x = <<x[1], x[2]>>
      BY DEF NestedFieldsMeet
    <2>2. \A i \in DOMAIN new : new[i] \in Changes(lists)
      BY <1>1
    <2>3. QED
      BY <2>1, <2>2
  <1>3. ASSUME NEW i \in DOMAIN new, NEW k \in DOMAIN values, ByField(new[i], doc, values, keeps, k), values[k][1] # p
        PROVE  /\ Meant(new[i], p)
               /\ Spares(new[i][1], new[i][2], p) \/ (Removes(new[i][1], new[i][2], p) /\ FoundNothing(doc, p))
    <2>1. ~HasBracket(values[k][1]) /\ ~Related(values[k][1], p) /\ ~Get(doc, values[k][1], Options).thrown
      BY <1>1, <1>3 DEF OthersApart
    <2>2. QED
      BY <1>3, <2>1, OtherChange DEF Meant
  <1>4. CASE p \notin Paths(values)
    <2>1. \A k \in DOMAIN values : values[k][1] # p
      BY <1>4 DEF Paths
    <2>2. \A i \in DOMAIN new :
              /\ Meant(new[i], p)
              /\ Spares(new[i][1], new[i][2], p) \/ (Removes(new[i][1], new[i][2], p) /\ FoundNothing(doc, p))
      BY <1>1, <1>3, <2>1
    <2>3. Leaves(Undefined, p, values, keeps)
      BY DEF Leaves
    <2>4. QED
      BY <1>2, <1>4, <2>2, <2>3 DEF ListMeans, new
  <1>5. CASE p \in Paths(values)
    <2>1. PICK k \in DOMAIN values : values[k][1] = p
      BY <1>5 DEF Paths
    <2>2. \A j \in DOMAIN values : values[j][1] = p => j = k
      BY <2>1, FieldsOfLists DEF IsList
    <2>3. ~HasBracket(p) /\ p \in Seq(STRING)
      BY <2>1, FieldsOfLists DEF Unbracketed
    <2> DEFINE entries == EntriesBy(doc, values, k)
               value   == ItemsOf(values[k][2])
    <2>4. SetsOwn(doc, p, values, keeps, k) \/ ClearsOwn(doc, p, values, keeps, k, lists)
      BY <1>1, <2>1, OwnChange
    <2>5. CASE SetsOwn(doc, p, values, keeps, k)
      <3>1. PICK w : /\ w # Undefined => keeps /\ Fits(value, w)
                     /\ \A x : ByField(x, doc, values, keeps, k) => x[1] = p /\ x[2] = w
        BY <2>5 DEF SetsOwn
      <3>2. ~FoundNothing(doc, p) /\ ~UnderArray(doc, p) /\ \E w0 : entries = <<<<p, w0>>>>
        BY <2>5 DEF SetsOwn, FoundOne
      <3>3. Leaves(w, p, values, keeps)
        BY <2>1, <2>2, <3>1 DEF Leaves
      <3>4. ASSUME NEW i \in DOMAIN new
            PROVE  Meant(new[i], p) /\ (Spares(new[i][1], new[i][2], p) \/ new[i] = <<p, w>>)
        <4>1. PICK j \in DOMAIN values : ByField(new[i], doc, values, keeps, j)
          BY <1>1
        <4>2. CASE j = k
          BY <1>2, <2>3, <3>1, <4>1, <4>2 DEF Meant
        <4>3. CASE j # k
          BY <1>3, <2>2, <3>2, <4>1, <4>3
        <4>4. QED
          BY <4>2, <4>3
      <3>5. \E i \in DOMAIN new : new[i][1] = p
        <4>1. 1 \in DOMAIN entries /\ entries[1][1] = p
          BY <3>2
        <4>2. QED
          BY <1>1, <4>1
      <3>6. IsPrefix(p, p)
        BY <2>3, PrefixSelf
      <3>7. QED
        BY <1>2, <1>5, <3>2, <3>3, <3>4, <3>5, <3>6 DEF ListMeans, new
    <2>6. CASE ClearsOwn(doc, p, values, keeps, k, lists)
      <3>1. PICK at : /\ ~HasBracket(at) /\ IsPrefix(at, p)
                      /\ \A x : ByField(x, doc, values, keeps, k) => x[1] = at /\ x[2] = Undefined
        BY <2>6 DEF ClearsOwn
      <3>2. FoundNothing(doc, p) /\ \E a : entries = <<<<a, Undefined>>>> /\ IsPrefix(a, p)
        BY <2>6 DEF ClearsOwn, FoundNone
      <3>3. ASSUME NEW i \in DOMAIN new
            PROVE  /\ Meant(new[i], p)
                   /\ Spares(new[i][1], new[i][2], p) \/ Removes(new[i][1], new[i][2], p)
        <4>1. PICK j \in DOMAIN values : ByField(new[i], doc, values, keeps, j)
          BY <1>1
        <4>2. CASE j = k
          BY <3>1, <4>1, <4>2 DEF Meant, Removes
        <4>3. CASE j # k
          BY <1>3, <2>2, <4>1, <4>3
        <4>4. QED
          BY <4>2, <4>3
      <3>4. \E i \in DOMAIN new : IsPrefix(new[i][1], p)
        <4>1. PICK a : entries = <<<<a, Undefined>>>> /\ IsPrefix(a, p)
          BY <3>2
        <4>2. 1 \in DOMAIN entries /\ entries[1][1] = a
          BY <4>1
        <4>3. PICK i \in DOMAIN new : new[i][1] = a
          BY <1>1, <4>2
        <4>4. QED
          BY <4>1, <4>3
      <3>5. QED
        BY <1>2, <1>5, <3>2, <3>3, <3>4 DEF ListMeans, new
    <2>7. QED
      BY <2>4, <2>5, <2>6
  <1>6. QED
    BY <1>4, <1>5

CheckRecord(lists) ==
    [data : Documents(lists), changes : Seq(Changes(lists)), granted : BOOLEAN, thrown : BOOLEAN]

\* A change of the data made, as it is recorded.
ChangeMade(next, c, new, lists) ==
    LET done == ChangedBy(c.data, new, Options.strip)
    IN  /\ next \in CheckRecord(lists)
        /\ next.data = done.parent /\ next.changes = PutAll(c.changes, new) /\ next.granted = c.granted
        /\ next.thrown = (c.thrown \/ done.thrown)
        /\ SetsEntries(next.changes, Changes(lists), c.changes, new)

\* A change of a check's data keeps the record of it whole.
LEMMA ChangeStep ==
    ASSUME NEW lists, NestedFieldsMeet(lists), NEW c \in CheckRecord(lists), NEW new \in Seq(Changes(lists))
    PROVE  ChangeMade(Change(c, new), c, new, lists)
  <1> DEFINE next == Change(c, new)
             done == ChangedBy(c.data, new, Options.strip)
             X    == Changes(lists)
             D    == Documents(lists)
             all  == PutAll(c.changes, new)
  <1>1. c.data \in D /\ c.changes \in Seq(X) /\ c.granted \in BOOLEAN /\ c.thrown \in BOOLEAN
    BY DEF CheckRecord
  <1>2. done \in [parent : D, thrown : BOOLEAN]
    <2>1. \A d \in D, x \in X : /\ SetIn(d, x[1], x[2], Options.strip).parent \in D
                                /\ SetIn(d, x[1], x[2], Options.strip).thrown \in BOOLEAN
      BY DEF NestedFieldsMeet, SetsFields, Options
    <2>2. new \in Seq(X) /\ Len(new) \in 0 .. Len(new)
      OBVIOUS
    <2> DEFINE data == c.data
    <2>3. data \in D
      BY <1>1
    <2> HIDE DEF D, X, data
    <2>4. PICK run : ChangesOneByOne(run, D, data, new, Options.strip) /\ ChangedBy(data, new, Options.strip) = run[Len(new)]
      BY <2>1, <2>2, <2>3, ChangedRun
    <2>5. QED
      BY <2>2, <2>4 DEF ChangesOneByOne, data
  <1>3. SetsEntries(all, X, c.changes, new)
    <2>1. \A x \in X : x = <<x[1], x[2]>>
      BY DEF NestedFieldsMeet
    <2> DEFINE entries == c.changes
    <2>2. entries \in Seq(X) /\ new \in Seq(X)
      BY <1>1
    <2> HIDE DEF X, entries
    <2>3. SetsEntries(PutAll(entries, new), X, entries, new)
      BY <2>1, <2>2, PutAllKeeps
    <2>4. QED
      BY <2>3 DEF entries
  <1>4. all \in Seq(X)
    BY <1>3 DEF SetsEntries
  <1>5. next = [c EXCEPT !.data = done.parent, !.changes = all, !.thrown = c.thrown \/ done.thrown]
    BY DEF Change, Changed
  <1> HIDE DEF done, all, next
  <1>6. next = [data |-> done.parent, changes |-> all, granted |-> c.granted, thrown |-> c.thrown \/ done.thrown]
    BY <1>5 DEF CheckRecord
  <1>7. next \in CheckRecord(lists)
    BY <1>1, <1>2, <1>4, <1>6 DEF CheckRecord
  <1>8. QED
    BY <1>3, <1>6, <1>7 DEF next, done, all, ChangeMade

\* A list's changes made, as they are recorded.
ListMade(next, c, values, keeps, lists) ==
    LET new  == MatchedChanges(c.data, values, keeps)
        done == ChangedBy(c.data, new, Options.strip)
    IN  /\ next \in CheckRecord(lists) /\ new \in Seq(Changes(lists))
        /\ next.data = done.parent /\ next.granted = c.granted
        /\ ~next.thrown => ~c.thrown /\ ~done.thrown /\ ~MatchInputValues(c.data, values).thrown
        /\ SetsEntries(next.changes, Changes(lists), c.changes, new)

\* So does a list.
LEMMA ListStep ==
    ASSUME NEW lists, NestedFieldsMeet(lists), NEW c \in CheckRecord(lists),
           NEW values \in {lists.allowed, lists.forbidden}, NEW keeps \in BOOLEAN
    PROVE  ListMade(SetMatched(c, MatchInputValues(c.data, values), keeps), c, values, keeps, lists)
  <1> DEFINE matched == MatchInputValues(c.data, values)
             next == SetMatched(c, matched, keeps)
             new  == MatchedChanges(c.data, values, keeps)
             done == ChangedBy(c.data, new, Options.strip)
             changed == Change(c, new)
  <1>1. new \in Seq(Changes(lists))
    <2>1. c.data \in Documents(lists)
      BY DEF CheckRecord
    <2>2. ChangesByList(new, c.data, values, keeps, lists)
      BY <2>1, ChangesOfList
    <2> HIDE DEF new
    <2>3. QED
      BY <2>2 DEF ChangesByList
  <1>2. next = [changed EXCEPT !.thrown = changed.thrown \/ matched.thrown]
    BY DEF SetMatched, MatchedChanges
  <1>3. matched.thrown \in BOOLEAN
    BY DEF MatchInputValues, Merged
  <1> HIDE DEF next, new, matched
  <1>4. /\ changed \in CheckRecord(lists)
        /\ changed.data = done.parent /\ changed.changes = PutAll(c.changes, new) /\ changed.granted = c.granted
        /\ changed.thrown = (c.thrown \/ done.thrown)
        /\ SetsEntries(changed.changes, Changes(lists), c.changes, new)
    BY <1>1, ChangeStep DEF ChangeMade
  <1> HIDE DEF changed, done
  <1>5. /\ next \in CheckRecord(lists) /\ next.data = changed.data /\ next.granted = changed.granted
        /\ next.changes = changed.changes /\ next.thrown = (changed.thrown \/ matched.thrown)
    BY <1>2, <1>3, <1>4 DEF CheckRecord
  <1>6. QED
    BY <1>1, <1>4, <1>5 DEF next, new, done, matched, ListMade

\* The state of a check as far as it concerns a field the others are apart
\* from: a value that is to be set is there, and can be found.
Sound(c, p, lists, original) ==
    /\ c \in CheckRecord(lists) /\ Direct(c.data, p) /\ IsArray(c.data) = IsArray(original)
    /\ \A i \in DOMAIN c.changes : Meant(c.changes[i], p)
    /\ \A i \in DOMAIN c.changes :
           c.changes[i][1] = p /\ c.changes[i][2] # Undefined =>
               IF IsArray(original) THEN i = 1 ELSE ValuesAt(c.data, p) # {}

\* A list has been at a field and left what it may.
Settled(changes, p, values, keeps) ==
    \E k \in DOMAIN changes :
        /\ IsPrefix(changes[k][1], p)
        /\ \A i \in DOMAIN changes : i >= k /\ changes[i][1] = p => Leaves(changes[i][2], p, values, keeps)

\* A list that was applied: from one state of a check to the next.
ListApplied(c, next, new, values, keeps, lists) ==
    /\ {c, next} \subseteq CheckRecord(lists) /\ new \in Seq(Changes(lists)) /\ new = MatchedChanges(c.data, values, keeps)
    /\ next.data = ChangedBy(c.data, new, Options.strip).parent /\ next.granted = c.granted
    /\ ~next.thrown /\ ~c.thrown /\ ~ChangedBy(c.data, new, Options.strip).thrown /\ ~MatchInputValues(c.data, values).thrown
    /\ SetsEntries(next.changes, Changes(lists), c.changes, new)

\* A list that does not throw is applied.
LEMMA ListIsApplied ==
    ASSUME NEW lists, NestedFieldsMeet(lists), NEW c \in CheckRecord(lists),
           NEW values \in {lists.allowed, lists.forbidden}, NEW keeps \in BOOLEAN,
           ~SetMatched(c, MatchInputValues(c.data, values), keeps).thrown
    PROVE  ListApplied(c, SetMatched(c, MatchInputValues(c.data, values), keeps), MatchedChanges(c.data, values, keeps),
                       values, keeps, lists)
  <1> DEFINE matched == MatchInputValues(c.data, values)
             next == SetMatched(c, matched, keeps)
             new  == MatchedChanges(c.data, values, keeps)
             done == ChangedBy(c.data, new, Options.strip)
  <1>1. /\ next \in CheckRecord(lists) /\ new \in Seq(Changes(lists))
        /\ next.data = done.parent /\ next.granted = c.granted
        /\ ~next.thrown => ~c.thrown /\ ~done.thrown /\ ~matched.thrown
        /\ SetsEntries(next.changes, Changes(lists), c.changes, new)
    <2>1. ListMade(SetMatched(c, MatchInputValues(c.data, values), keeps), c, values, keeps, lists)
      BY ListStep
    <2>2. QED
      BY <2>1 DEF ListMade
  <1>2. ~next.thrown
    OBVIOUS
  <1> HIDE DEF next, matched
  <1>3. QED
    BY <1>1, <1>2 DEF ListApplied, next, matched

\* What such a step is for a field that the list's others are apart from.
SoundNext(c, next, new, p, values, keeps, lists, original) ==
    /\ ListMeans(new, c.data, p, values, keeps)
    /\ Made(lists, c.data, p, new, Options.strip)
    /\ Sound(next, p, lists, original)
    /\ p \in Paths(values) => Settled(next.changes, p, values, keeps)

\* A list keeps the state sound for a field its others are apart from.
LEMMA SoundStep ==
    ASSUME NEW lists, NestedFieldsMeet(lists), NEW c, NEW next, NEW new, NEW original,
           NEW values \in {lists.allowed, lists.forbidden}, NEW keeps \in BOOLEAN,
           ListApplied(c, next, new, values, keeps, lists),
           NEW p \in Unbracketed(Fields(lists)), OthersApart(p, values), Sound(c, p, lists, original)
    PROVE  SoundNext(c, next, new, p, values, keeps, lists, original)
  <1> DEFINE doc   == c.data
             old   == c.changes
             all   == next.changes
             final == next.data
  <1>1. /\ doc \in Documents(lists) /\ old \in Seq(Changes(lists)) /\ Direct(doc, p) /\ IsArray(doc) = IsArray(original)
        /\ \A i \in DOMAIN old : Meant(old[i], p)
        /\ \A i \in DOMAIN old : old[i][1] = p /\ old[i][2] # Undefined =>
                                     IF IsArray(original) THEN i = 1 ELSE ValuesAt(doc, p) # {}
    BY DEF Sound, CheckRecord
  <1>2. ListMeans(new, doc, p, values, keeps)
    BY <1>1, ListMeansForField DEF ListApplied
  <1>3. Made(lists, doc, p, new, Options.strip)
    BY <1>1, <1>2 DEF Made, ListMeans, LeavesDirect, ListApplied, Options
  <1>4. Direct(final, p) /\ IsArray(final) = IsArray(original)
    <2>1. final = ChangedBy(doc, new, Options.strip).parent
      BY DEF ListApplied
    <2> HIDE DEF final, doc
    <2>2. /\ Direct(ChangedBy(doc, new, Options.strip).parent, p)
          /\ IsArray(ChangedBy(doc, new, Options.strip).parent) = IsArray(doc)
      BY <1>3, MadeInSteps
    <2>3. QED
      BY <1>1, <2>1, <2>2
  <1>5. /\ all \in Seq(Changes(lists))
        /\ \A i \in DOMAIN old : all[i][1] = old[i][1]
        /\ \A i \in DOMAIN all : \/ \E j \in DOMAIN new : all[i] = new[j]
                                 \/ i \in DOMAIN old /\ all[i] = old[i] /\ \A j \in DOMAIN new : new[j][1] # old[i][1]
        /\ \A j \in DOMAIN new : \E i \in DOMAIN all : all[i][1] = new[j][1]
        /\ Len(old) <= Len(all)
    BY DEF ListApplied, SetsEntries
  <1>6. p \in Seq(STRING) /\ p \in Fields(lists)
    BY DEF NestedFieldsMeet, IsList, Unbracketed, Fields, Paths
  <1>7. final = ChangedBy(doc, new, Options.strip).parent /\ next \in CheckRecord(lists)
    BY DEF ListApplied
  <1> HIDE DEF doc, old, all, final
  <1>8. ~IsArray(doc) /\ FoundNothing(doc, p) => ValuesAt(doc, p) = {}
    BY <1>1, <1>6, NothingThere
  \* The changes that set the field are all the same one.
  <1>9. PICK w : /\ Leaves(w, p, values, keeps)
                 /\ \A j \in DOMAIN new : new[j][1] = p =>
                        /\ new[j][2] = Undefined \/ (new[j] = <<p, w>> /\ ~FoundNothing(doc, p) /\ ~IsArray(doc))
                        /\ Leaves(new[j][2], p, values, keeps)
                 /\ ~FoundNothing(doc, p) => \A j \in DOMAIN new : \/ Spares(new[j][1], new[j][2], p)
                                                                   \/ new[j] = <<p, w>> /\ p \in Paths(values)
    <2>1. \A j \in DOMAIN new : new[j][1] = p => ~Spares(new[j][1], new[j][2], p)
      BY <1>6, PrefixSelf, PrefixMeans
    <2>2. CASE FoundNothing(doc, p)
      <3>1. \A j \in DOMAIN new : new[j][1] = p => new[j][2] = Undefined
        BY <1>2, <2>1, <2>2 DEF ListMeans, Removes
      <3>2. Leaves(Undefined, p, values, keeps)
        BY DEF Leaves
      <3>3. QED
        BY <2>2, <3>1, <3>2
    <2>3. CASE ~FoundNothing(doc, p)
      <3>1. PICK w : /\ Leaves(w, p, values, keeps)
                     /\ \A i \in DOMAIN new : \/ Spares(new[i][1], new[i][2], p)
                                              \/ new[i] = <<p, w>> /\ p \in Paths(values) /\ ~UnderArray(doc, p)
        BY <1>2, <2>3 DEF ListMeans
      <3>2. ~UnderArray(doc, p) => ~IsArray(doc)
        BY DEF UnderArray
      <3>3. QED
        BY <2>1, <2>3, <3>1, <3>2
    <2>4. QED
      BY <2>2, <2>3
  <1>10. \A i \in DOMAIN all : Meant(all[i], p)
    BY <1>1, <1>2, <1>5 DEF ListMeans
  \* A value that is to be set is there.
  <1>11. ASSUME NEW i \in DOMAIN all, all[i][1] = p, all[i][2] # Undefined
         PROVE  IF IsArray(original) THEN i = 1 ELSE ValuesAt(final, p) # {}
    <2>1. CASE \E j \in DOMAIN new : all[i] = new[j]
      <3>1. PICK j \in DOMAIN new : all[i] = new[j]
        BY <2>1
      <3>2. new[j] = <<p, w>> /\ ~FoundNothing(doc, p) /\ ~IsArray(doc) /\ w # Undefined
        BY <1>9, <1>11, <3>1
      <3>3. ValuesAt(doc, p) # {} \/ ~Get(doc, p, Options).thrown
        <4>1. CASE p \in Paths(values)
          <5>1. PICK k \in DOMAIN values : values[k][1] = p
            BY <4>1 DEF Paths
          <5>2. ChangesByList(MatchedChanges(doc, values, keeps), doc, values, keeps, lists)
            BY <1>1, ChangesOfList
          <5>3. ~MatchInputValues(doc, values).thrown
            BY DEF ListApplied, doc
          <5>4. QED
            BY <5>1, <5>2, <5>3 DEF ChangesByList
        <4>2. CASE p \notin Paths(values)
          <5>1. Spares(p, w, p)
            BY <1>9, <3>2, <4>2
          <5>2. ~Spares(p, w, p)
            <6>1. IsPrefix(p, p)
              BY <1>6, PrefixSelf
            <6>2. QED
              BY <3>2, <6>1 DEF Spares, Related, Leads
          <5>3. QED
            BY <5>1, <5>2
        <4>3. QED
          BY <4>1, <4>2
      <3>4. ValuesAt(doc, p) # {}
        <4>1. ReadsFields(doc, p, Fields(lists)) /\ ~UnderArray(doc, p)
          BY <1>1, <1>6, <3>2 DEF NestedFieldsMeet, Direct
        <4>2. CASE ~Get(doc, p, Options).thrown
          <5> DEFINE values0 == Get(doc, p, Options).values
          <5>1. ToSet(values0) = ValuesAt(doc, p) /\ values0 \in Seq(ToSet(values0)) /\ values0 # <<>>
            BY <3>2, <4>1, <4>2 DEF ReadsFields, FoundNothing
          <5> HIDE DEF values0
          <5>2. values0[1] \in ToSet(values0)
            BY <5>1 DEF ToSet
          <5>3. QED
            BY <5>1, <5>2
        <4>3. QED
          BY <3>3, <4>2
      <3>5. SparedOrSetTo(w, p, new)
        BY <1>9, <3>2 DEF SparedOrSetTo
      <3>6. LeftAt(ChangedBy(doc, new, Options.strip).parent, doc, w, p, new)
        BY <1>3, <3>2, <3>5, SparedOrSet
      <3>7. QED
        BY <1>1, <1>7, <3>2, <3>4, <3>6 DEF LeftAt
    <2>2. CASE i \in DOMAIN old /\ all[i] = old[i] /\ \A j \in DOMAIN new : new[j][1] # old[i][1]
      <3>1. CASE IsArray(original)
        BY <1>1, <1>11, <2>2, <3>1
      <3>2. CASE ~IsArray(original)
        <4>1. ValuesAt(doc, p) # {} /\ ~IsArray(doc) /\ ~FoundNothing(doc, p)
          BY <1>1, <1>8, <1>11, <2>2, <3>2
        <4> DEFINE v == all[i][2]
        <4>2. SparedOrSetTo(v, p, new)
          BY <1>9, <1>11, <2>2, <4>1 DEF SparedOrSetTo
        <4>3. v # Undefined
          BY <1>11
        <4> HIDE DEF v
        <4>4. LeftAt(ChangedBy(doc, new, Options.strip).parent, doc, v, p, new)
          BY <1>3, <4>1, <4>2, <4>3, SparedOrSet
        <4>5. QED
          BY <1>7, <3>2, <4>1, <4>4 DEF LeftAt
      <3>3. QED
        BY <3>1, <3>2
    <2>3. QED
      BY <1>5, <2>1, <2>2
  <1>12. Sound(next, p, lists, original)
    BY <1>4, <1>7, <1>10, <1>11 DEF Sound, all, final
  <1>13. ASSUME p \in Paths(values)
         PROVE  Settled(all, p, values, keeps)
    <2>1. PICK j \in DOMAIN new : IsPrefix(new[j][1], p)
      BY <1>2, <1>13 DEF ListMeans
    <2>2. PICK k \in DOMAIN all : all[k][1] = new[j][1]
      BY <1>5
    <2>3. \E m \in DOMAIN new : all[k] = new[m]
      BY <1>5, <2>2
    <2>4. ASSUME NEW i \in DOMAIN all, i >= k, all[i][1] = p
          PROVE  Leaves(all[i][2], p, values, keeps)
      <3>1. CASE \E m \in DOMAIN new : all[i] = new[m]
        BY <1>9, <2>4, <3>1
      <3>2. CASE i \in DOMAIN old /\ all[i] = old[i] /\ \A m \in DOMAIN new : new[m][1] # old[i][1]
        <4>1. FoundNothing(doc, p)
          BY <1>2, <1>13, <2>4, <3>2 DEF ListMeans
        <4>2. CASE all[i][2] = Undefined
          BY <4>2 DEF Leaves
        <4>3. CASE all[i][2] # Undefined
          <5>1. IsArray(original) /\ i = 1
            BY <1>1, <1>8, <2>4, <3>2, <4>1, <4>3
          <5>2. k = 1
            BY <1>5, <2>4, <5>1
          <5>3. QED
            BY <2>3, <3>1, <5>1, <5>2
        <4>4. QED
          BY <4>2, <4>3
      <3>3. QED
        BY <1>5, <3>1, <3>2
    <2>5. QED
      BY <2>1, <2>2, <2>4 DEF Settled
  <1>14. QED
    BY <1>2, <1>3, <1>12, <1>13 DEF SoundNext, doc, all

\* A list that a field is not in leaves it settled by the one before.
LEMMA SettledStays ==
    ASSUME NEW lists, NestedFieldsMeet(lists), NEW c, NEW next, NEW new, NEW original,
           NEW values, NEW keeps, ListApplied(c, next, new, values, keeps, lists),
           NEW p \in Unbracketed(Fields(lists)), p \notin Paths(values), ListMeans(new, c.data, p, values, keeps),
           NEW before, NEW kept, Settled(c.changes, p, before, kept)
    PROVE  Settled(next.changes, p, before, kept)
  <1> DEFINE old == c.changes
             all == next.changes
  <1>1. PICK k \in DOMAIN old :
            /\ IsPrefix(old[k][1], p)
            /\ \A i \in DOMAIN old : i >= k /\ old[i][1] = p => Leaves(old[i][2], p, before, kept)
    BY DEF Settled
  <1>2. /\ all \in Seq(Changes(lists)) /\ old \in Seq(Changes(lists))
        /\ \A i \in DOMAIN old : all[i][1] = old[i][1]
        /\ \A i \in DOMAIN all : \/ \E j \in DOMAIN new : all[i] = new[j]
                                 \/ i \in DOMAIN old /\ all[i] = old[i]
        /\ Len(old) <= Len(all)
    BY DEF ListApplied, SetsEntries, CheckRecord
  <1>3. p \in Seq(STRING)
    BY DEF NestedFieldsMeet, IsList, Unbracketed, Fields, Paths
  <1>4. \A j \in DOMAIN new : new[j][1] = p => new[j][2] = Undefined
    <2>1. \A j \in DOMAIN new : new[j][1] = p => ~Spares(new[j][1], new[j][2], p)
      BY <1>3, PrefixSelf, PrefixMeans
    <2>2. QED
      BY <2>1 DEF ListMeans, Removes
  <1> HIDE DEF old, all
  <1>5. k \in DOMAIN all /\ all[k][1] = old[k][1]
    BY <1>2
  <1>6. ASSUME NEW i \in DOMAIN all, i >= k, all[i][1] = p
        PROVE  Leaves(all[i][2], p, before, kept)
    <2>1. CASE \E j \in DOMAIN new : all[i] = new[j]
      BY <1>4, <1>6, <2>1 DEF Leaves
    <2>2. CASE i \in DOMAIN old /\ all[i] = old[i]
      BY <1>1, <1>6, <2>2 DEF old
    <2>3. QED
      BY <1>2, <2>1, <2>2
  <1>7. QED
    BY <1>1, <1>5, <1>6 DEF Settled, old, all

\* The first change is recorded as it is.
LEMMA PutFirst ==
    ASSUME NEW X, NEW x \in X, \A y \in X : y = <<y[1], y[2]>>
    PROVE  PutAll(<<>>, <<x>>) = <<x>>
  <1>1. <<>> \in Seq(X) /\ <<x>> \in Seq(X) /\ Len(<<x>>) = 1
    OBVIOUS
  <1>2. PICK run : PutsOneByOne(run, X, <<>>, <<x>>) /\ PutAll(<<>>, <<x>>) = run[Len(<<x>>)]
    BY <1>1, PutRun
  <1>3. run[1] = Put(run[1 - 1], x[1], x[2]) /\ run[0] = <<>>
    BY <1>1, <1>2 DEF PutsOneByOne
  <1>4. Put(<<>>, x[1], x[2]) = <<x>>
    BY DEF Put
  <1>5. QED
    BY <1>1, <1>2, <1>3, <1>4

\* A field that is bound to the user's value: the request's check goes on
\* unchanged, or with the one change that gives the field a value.
BindsTo(next, c, field, v, lists) ==
    /\ v # Undefined /\ <<field, v>> \in Changes(lists) /\ ~Get(c.data, field, Options).thrown
    /\ next = Change(c, <<<<field, v>>>>)

\* A check that goes on after binding a field changed nothing or that field.
LEMMA UserFieldBinds ==
    ASSUME NEW point, NEW user, NEW input, BindsFields(point, user, input),
           Changes(InputLists(point)) \subseteq {<<x[1], x[2]>> : x \in Changes(InputLists(point))},
           NEW next, next = CheckUserField(Checking(input), user.data, point), Goes(next)
    PROVE  \/ next = Checking(input)
           \/ /\ point.userField # <<>> /\ point.inputField # <<>>
              /\ \E v : BindsTo(next, Checking(input), point.inputField, v, InputLists(point))
  <1> DEFINE c       == Checking(input)
             field   == point.inputField
             inInput == Get(input, field, Options)
             inUser  == Get(user.data, point.userField, Options)
             own     == UnifiedValue(inUser)
             given   == UnifiedValue(inInput)
             entries == MatchFound(inInput, ItemsOf(own)).entries
             allowed == EntryAt(entries, field)
  <1>1. SUFFICES ASSUME point.userField # <<>>, field # <<>>
                 PROVE  next = c \/ \E v : BindsTo(next, c, field, v, InputLists(point))
    BY DEF CheckUserField
  <1>2. c.data = input /\ Goes(c)
    BY DEF Checking, Goes
  <1>3. next = BoundTo(c, field, inInput, inUser)
    BY <1>1, <1>2 DEF CheckUserField
  <1>4. ~inInput.thrown /\ ~inUser.thrown
    <2>1. SUFFICES ASSUME inInput.thrown \/ inUser.thrown
                   PROVE  FALSE
      OBVIOUS
    <2>2. BoundTo(c, field, inInput, inUser) = [c EXCEPT !.thrown = TRUE]
      BY <2>1 DEF BoundTo
    <2>3. QED
      BY <1>3, <2>2 DEF Goes, Checking
  <1>5. next = Bound(c, field, given, own, allowed)
    BY <1>3, <1>4 DEF BoundTo
  <1>6. ~Goes([c EXCEPT !.granted = FALSE])
    BY DEF Goes, Checking
  <1>7. own # Undefined /\ (given = Undefined \/ Kind(allowed) \in {"text", "array"})
    BY <1>5, <1>6 DEF Bound
  <1>8. /\ <<field, own>> \in Changes(InputLists(point))
        /\ ChangesOf(InputLists(point), entries)
    BY <1>1 DEF BindsFields
  <1> HIDE DEF own, given, entries
  <1>9. CASE given = Undefined
    <2>1. next = Change(c, <<<<field, own>>>>)
      BY <1>5, <1>7, <1>9 DEF Bound
    <2>2. QED
      BY <1>2, <1>4, <1>7, <1>8, <2>1 DEF BindsTo
  <1>10. CASE given # Undefined /\ IsArray(given)
    <2>1. next = Change(c, <<<<field, allowed>>>>)
      BY <1>5, <1>7, <1>10 DEF Bound
    <2> DEFINE at == {i \in DOMAIN entries : entries[i][1] = field}
    <2>2. Kind(Undefined) \notin {"text", "array"}
      BY DEF Kind, Undefined
    <2>3. allowed # Undefined /\ at # {} /\ allowed = entries[CHOOSE i \in at : TRUE][2]
      BY <1>7, <1>10, <2>2 DEF EntryAt
    <2>4. PICK i \in at : allowed = entries[i][2]
      BY <2>3
    <2>5. entries[i] \in Changes(InputLists(point)) /\ entries[i][1] = field
      BY <1>8, <2>4 DEF ChangesOf
    <2>6. entries[i] = <<entries[i][1], entries[i][2]>>
      BY <2>5
    <2>7. <<field, allowed>> \in Changes(InputLists(point))
      BY <2>4, <2>5, <2>6
    <2>8. QED
      BY <1>2, <1>4, <2>1, <2>3, <2>7 DEF BindsTo
  <1>11. CASE given # Undefined /\ ~IsArray(given)
    BY <1>5, <1>7, <1>11 DEF Bound
  <1>12. QED
    BY <1>9, <1>10, <1>11

\* A check starts with nothing changed, and binding a field changes nothing of
\* the fields apart from it.
LEMMA CheckingSound ==
    ASSUME NEW lists, NestedFieldsMeet(lists), NEW input \in Documents(lists), NEW p, Direct(input, p)
    PROVE  Sound(Checking(input), p, lists, input) /\ Checking(input) \in CheckRecord(lists)
  <1>1. /\ Checking(input) = [data |-> input, changes |-> <<>>, granted |-> TRUE, thrown |-> FALSE]
        /\ <<>> \in Seq(Changes(lists)) /\ DOMAIN <<>> = {}
    BY DEF Checking
  <1>2. QED
    BY <1>1 DEF Sound, CheckRecord

\* The change that binds a field leaves the state sound, and the field bound.
LEMMA BindingSound ==
    ASSUME NEW lists, NestedFieldsMeet(lists), NEW input \in Documents(lists), NEW p \in Unbracketed(Fields(lists)),
           Direct(input, p), NEW next, NEW field, NEW v, BindsTo(next, Checking(input), field, v, lists),
           ~next.thrown,
           field = p \/ (~HasBracket(field) /\ ~Related(field, p))
    PROVE  /\ Sound(next, p, lists, input)
           /\ next.changes = <<<<field, v>>>> /\ next.granted
           /\ next.data = ChangedBy(input, next.changes, Options.strip).parent
           /\ Made(lists, input, p, next.changes, Options.strip)
           /\ field = p /\ ~IsArray(input) => ValuesAt(next.data, p) = {v}
           /\ field # p => Spares(field, v, p)
  <1> DEFINE c   == Checking(input)
             x   == <<field, v>>
             new == <<x>>
             X   == Changes(lists)
  <1>1. c \in CheckRecord(lists) /\ c.data = input /\ c.changes = <<>> /\ c.granted
    BY CheckingSound DEF Checking
  <1>2. /\ x \in X /\ \A y \in X : y = <<y[1], y[2]>>
        /\ v # Undefined /\ ~Get(input, field, Options).thrown /\ next = Change(c, new)
    BY <1>1 DEF BindsTo, NestedFieldsMeet
  <1>3. new \in Seq(X) /\ DOMAIN new = {1} /\ new[1] = x
    BY <1>2
  <1> HIDE DEF c, X
  <1>4. /\ next \in CheckRecord(lists)
        /\ next.data = ChangedBy(c.data, new, Options.strip).parent /\ next.changes = PutAll(c.changes, new)
        /\ next.granted = c.granted
        /\ next.thrown = (c.thrown \/ ChangedBy(c.data, new, Options.strip).thrown)
    <2> HIDE DEF new
    <2>1. ChangeMade(next, c, new, lists)
      BY <1>1, <1>2, <1>3, ChangeStep DEF X
    <2>2. QED
      BY <2>1 DEF ChangeMade
  <1>5. next.changes = new
    <2> HIDE DEF x
    <2>1. PutAll(<<>>, <<x>>) = <<x>>
      BY <1>2, PutFirst
    <2>2. QED
      BY <1>1, <1>4, <2>1
  <1>6. x[1] = field /\ x[2] = v /\ (field # p => Spares(field, v, p))
    BY DEF Spares
  <1>7. Meant(x, p)
    BY <1>6 DEF Meant, Unbracketed
  <1>8. Made(lists, input, p, new, Options.strip)
    BY <1>1, <1>3, <1>4, <1>7 DEF Made, LeavesDirect, Options, X
  <1> HIDE DEF new, x
  <1>9. /\ Direct(next.data, p) /\ IsArray(next.data) = IsArray(input)
    <2>1. /\ Direct(ChangedBy(input, new, Options.strip).parent, p)
          /\ IsArray(ChangedBy(input, new, Options.strip).parent) = IsArray(input)
      BY <1>8, MadeInSteps
    <2>2. QED
      BY <1>1, <1>4, <2>1
  <1>10. ASSUME field = p, ~IsArray(input)
         PROVE  ValuesAt(next.data, p) = {v}
    <2>1. SparedOrSetTo(v, p, new)
      BY <1>3, <1>10 DEF SparedOrSetTo, x
    <2>2. LeftAt(ChangedBy(input, new, Options.strip).parent, input, v, p, new)
      BY <1>2, <1>8, <1>10, <2>1, SparedOrSet
    <2>3. new # <<>> /\ new[1] = <<p, v>>
      BY <1>10 DEF new, x
    <2>4. QED
      BY <1>1, <1>2, <1>4, <1>10, <2>2, <2>3 DEF LeftAt
  <1>11. Sound(next, p, lists, input)
    BY <1>3, <1>4, <1>5, <1>6, <1>7, <1>9, <1>10 DEF Sound
  <1>12. QED
    BY <1>1, <1>4, <1>5, <1>6, <1>8, <1>10, <1>11 DEF new, x

\* The changes of a check, made once more to the data it began with, leave a
\* field as the last list that names it does.
LEMMA SettledLeaves ==
    ASSUME NEW lists, NestedFieldsMeet(lists), NEW original \in Documents(lists), NEW c, NEW strip \in BOOLEAN,
           NEW p \in Unbracketed(Fields(lists)), Direct(original, p), Sound(c, p, lists, original),
           NEW values, NEW keeps \in BOOLEAN, Settled(c.changes, p, values, keeps), IsArray(original) => ~keeps,
           ~ChangedBy(original, c.changes, strip).thrown,
           NEW v \in ValuesAt(ChangedBy(original, c.changes, strip).parent, p)
    PROVE  v # Undefined /\ Leaves(v, p, values, keeps)
  <1> DEFINE changes == c.changes
  <1>1. PICK k \in DOMAIN changes :
            /\ IsPrefix(changes[k][1], p)
            /\ \A i \in DOMAIN changes : i >= k /\ changes[i][1] = p => Leaves(changes[i][2], p, values, keeps)
    BY DEF Settled
  <1>2. changes \in Seq(Changes(lists)) /\ \A i \in DOMAIN changes : Meant(changes[i], p)
    BY DEF Sound, CheckRecord
  <1>3. Made(lists, original, p, changes, strip)
    BY <1>2 DEF Made, LeavesDirect
  <1>4. IsArray(original) => \A i \in DOMAIN changes : i >= k /\ changes[i][1] = p => changes[i][2] = Undefined
    BY <1>1 DEF Leaves
  <1>5. v \in ValuesAt(ChangedBy(original, changes, strip).parent, p)
    OBVIOUS
  <1> HIDE DEF changes
  <1>6. v \in {changes[i][2] : i \in {j \in DOMAIN changes : j >= k /\ changes[j][1] = p}} \ {Undefined}
    BY <1>1, <1>2, <1>3, <1>4, <1>5, SettledFrom
  <1>7. QED
    BY <1>1, <1>6

\* What the white list does with a match, and what the black one does not.
Keeping  == TRUE
Striking == FALSE

\* Both are truth values.
LEMMA ListKinds == {Keeping, Striking} \subseteq BOOLEAN
  <1>1. QED
    BY DEF Keeping, Striking

\* A check by two lists: the white one, then the black one.
ListsApplied(c, middle, next, lists) ==
    /\ ListApplied(c, middle, MatchedChanges(c.data, lists.allowed, Keeping), lists.allowed, Keeping, lists)
    /\ ListApplied(middle, next, MatchedChanges(middle.data, lists.forbidden, Striking), lists.forbidden, Striking, lists)

\* The white list keeps the state sound.
LEMMA WhiteStep ==
    ASSUME NEW lists, NestedFieldsMeet(lists), NEW original, NEW c, NEW middle, NEW next,
           ListsApplied(c, middle, next, lists),
           NEW p \in Unbracketed(Fields(lists)), OthersApart(p, lists.allowed), Sound(c, p, lists, original)
    PROVE  SoundNext(c, middle, MatchedChanges(c.data, lists.allowed, Keeping), p, lists.allowed, Keeping, lists, original)
  <1>1. /\ ListApplied(c, middle, MatchedChanges(c.data, lists.allowed, Keeping), lists.allowed, Keeping, lists)
        /\ lists.allowed \in {lists.allowed, lists.forbidden} /\ Keeping \in BOOLEAN
    BY ListKinds DEF ListsApplied
  <1>2. QED
    BY <1>1, SoundStep

\* The black list keeps the state sound.
LEMMA BlackStep ==
    ASSUME NEW lists, NestedFieldsMeet(lists), NEW original, NEW c, NEW middle, NEW next,
           ListsApplied(c, middle, next, lists),
           NEW p \in Unbracketed(Fields(lists)), OthersApart(p, lists.forbidden), Sound(middle, p, lists, original)
    PROVE  SoundNext(middle, next, MatchedChanges(middle.data, lists.forbidden, Striking), p, lists.forbidden, Striking,
                     lists, original)
  <1>1. /\ ListApplied(middle, next, MatchedChanges(middle.data, lists.forbidden, Striking), lists.forbidden,
                       Striking, lists)
        /\ lists.forbidden \in {lists.allowed, lists.forbidden} /\ Striking \in BOOLEAN
    BY ListKinds DEF ListsApplied
  <1>2. QED
    BY <1>1, SoundStep

\* Of a forbidden field nothing is left.
LEMMA ForbiddenIsLeftOut ==
    ASSUME NEW lists, NestedFieldsMeet(lists), NEW original \in Documents(lists), NEW c, NEW middle, NEW next,
           ListsApplied(c, middle, next, lists), NEW strip \in BOOLEAN,
           NEW p \in Unbracketed(Fields(lists)), Direct(original, p), Sound(c, p, lists, original),
           OthersApart(p, lists.allowed), OthersApart(p, lists.forbidden), p \in Paths(lists.forbidden),
           ~ChangedBy(original, next.changes, strip).thrown
    PROVE  ValuesAt(ChangedBy(original, next.changes, strip).parent, p) = {}
  <1>1. Sound(middle, p, lists, original)
    BY WhiteStep DEF SoundNext
  <1>2. Sound(next, p, lists, original) /\ Settled(next.changes, p, lists.forbidden, Striking)
    BY <1>1, BlackStep DEF SoundNext
  <1>3. SUFFICES ASSUME NEW v \in ValuesAt(ChangedBy(original, next.changes, strip).parent, p)
                 PROVE  FALSE
    OBVIOUS
  <1>4. IsArray(original) => ~Striking
    BY DEF Striking
  <1>5. v # Undefined /\ Leaves(v, p, lists.forbidden, Striking)
    BY <1>2, <1>4, ListKinds, SettledLeaves
  <1>6. QED
    BY <1>5 DEF Leaves, Striking

\* Of an allowed field nothing is left that its value does not admit.
LEMMA AllowedIsKept ==
    ASSUME NEW lists, NestedFieldsMeet(lists), NEW original \in Documents(lists), NEW c, NEW middle, NEW next,
           ListsApplied(c, middle, next, lists), NEW strip \in BOOLEAN,
           NEW p \in Unbracketed(Fields(lists)), ~UnderArray(original, p), Sound(c, p, lists, original),
           OthersApart(p, lists.allowed), OthersApart(p, lists.forbidden),
           NEW k \in DOMAIN lists.allowed, lists.allowed[k][1] = p,
           ~ChangedBy(original, next.changes, strip).thrown,
           NEW v \in ValuesAt(ChangedBy(original, next.changes, strip).parent, p)
    PROVE  Fits(ItemsOf(lists.allowed[k][2]), v)
  <1>1. Direct(original, p) /\ ~IsArray(original) /\ p \in Paths(lists.allowed)
    BY DEF Direct, UnderArray, Paths
  <1>2. Sound(middle, p, lists, original) /\ Settled(middle.changes, p, lists.allowed, Keeping)
    BY <1>1, WhiteStep DEF SoundNext
  <1>3. CASE p \in Paths(lists.forbidden)
    BY <1>1, <1>3, ForbiddenIsLeftOut
  <1>4. CASE p \notin Paths(lists.forbidden)
    <2>1. /\ Sound(next, p, lists, original)
          /\ ListMeans(MatchedChanges(middle.data, lists.forbidden, Striking), middle.data, p, lists.forbidden, Striking)
      BY <1>2, BlackStep DEF SoundNext
    <2>2. Settled(next.changes, p, lists.allowed, Keeping)
      BY <1>2, <1>4, <2>1, SettledStays DEF ListsApplied
    <2>3. v # Undefined /\ Leaves(v, p, lists.allowed, Keeping)
      BY <1>1, <2>1, <2>2, ListKinds, SettledLeaves
    <2>4. QED
      BY <2>3 DEF Leaves, Keeping
  <1>5. QED
    BY <1>3, <1>4

\* A field that is bound has one value, set first or there from the start, and
\* every list that does not name it leaves it that one.
BoundAt(c, p, v, input, lists) ==
    /\ Sound(c, p, lists, input) /\ ValuesAt(c.data, p) = {v} /\ SparedOrSetTo(v, p, c.changes)
    /\ \/ c.changes # <<>> /\ c.changes[1] = <<p, v>>
       \/ ValuesAt(input, p) = {v} /\ \A i \in DOMAIN c.changes : c.changes[i] # <<p, v>>

\* A list that does not name a field, applied.
AppliedToOthers(c, next, new, p, values, keeps, lists) ==
    /\ ListApplied(c, next, new, values, keeps, lists)
    /\ values \in {lists.allowed, lists.forbidden} /\ keeps \in BOOLEAN
    /\ p \in Unbracketed(Fields(lists)) /\ OthersApart(p, values) /\ p \notin Paths(values)

\* A list that does not name a bound field leaves it bound.
LEMMA BoundStays ==
    ASSUME NEW lists, NestedFieldsMeet(lists), NEW c, NEW next, NEW new, NEW p, NEW values, NEW keeps,
           AppliedToOthers(c, next, new, p, values, keeps, lists),
           NEW input, NEW v, BoundAt(c, p, v, input, lists), v # Undefined, ~IsArray(input)
    PROVE  BoundAt(next, p, v, input, lists)
  <1>1. /\ ListApplied(c, next, new, values, keeps, lists)
        /\ values \in {lists.allowed, lists.forbidden} /\ keeps \in BOOLEAN
        /\ p \in Unbracketed(Fields(lists)) /\ OthersApart(p, values) /\ p \notin Paths(values)
    BY DEF AppliedToOthers
  <1> DEFINE doc == c.data
             old == c.changes
             all == next.changes
  <1>2. /\ ListMeans(new, doc, p, values, keeps) /\ Made(lists, doc, p, new, Options.strip)
        /\ Sound(next, p, lists, input)
    <2>1. Sound(c, p, lists, input)
      BY DEF BoundAt
    <2>2. SoundNext(c, next, new, p, values, keeps, lists, input)
      BY <1>1, <2>1, SoundStep
    <2>3. QED
      BY <2>2 DEF SoundNext
  <1>3. doc \in Documents(lists) /\ Direct(doc, p) /\ ~IsArray(doc) /\ ValuesAt(doc, p) = {v}
    BY DEF BoundAt, Sound, CheckRecord
  <1>4. p \in Seq(STRING) /\ p \in Fields(lists)
    BY <1>1 DEF NestedFieldsMeet, IsList, Unbracketed, Fields, Paths
  <1>5. /\ next.data = ChangedBy(doc, new, Options.strip).parent
        /\ all \in Seq(Changes(lists)) /\ old \in Seq(Changes(lists))
        /\ \A i \in DOMAIN old : all[i][1] = old[i][1]
        /\ \A i \in DOMAIN all : \/ \E j \in DOMAIN new : all[i] = new[j]
                                 \/ i \in DOMAIN old /\ all[i] = old[i]
        /\ Len(old) <= Len(all)
    BY <1>1 DEF ListApplied, SetsEntries, CheckRecord
  <1> HIDE DEF doc, old, all
  <1>6. ~FoundNothing(doc, p)
    BY <1>3, <1>4, NothingThere
  <1>7. \A j \in DOMAIN new : Spares(new[j][1], new[j][2], p)
    BY <1>1, <1>2, <1>6 DEF ListMeans
  <1>8. \A j \in DOMAIN new : new[j][1] # p
    BY <1>4, <1>7, PrefixSelf, PrefixMeans
  <1>9. ValuesAt(next.data, p) = {v}
    <2>1. SparedOrSetTo(v, p, new)
      BY <1>7 DEF SparedOrSetTo
    <2>2. LeftAt(ChangedBy(doc, new, Options.strip).parent, doc, v, p, new)
      BY <1>2, <1>3, <2>1, SparedOrSet
    <2>3. \A j \in DOMAIN new : new[j] # <<p, v>>
      BY <1>8
    <2>4. QED
      BY <1>3, <1>5, <2>2, <2>3 DEF LeftAt
  <1>10. SparedOrSetTo(v, p, all)
    BY <1>5, <1>7 DEF SparedOrSetTo, BoundAt, old
  <1>11. \/ all # <<>> /\ all[1] = <<p, v>>
         \/ ValuesAt(input, p) = {v} /\ \A i \in DOMAIN all : all[i] # <<p, v>>
    <2>1. CASE old # <<>> /\ old[1] = <<p, v>>
      <3>1. 1 \in DOMAIN old /\ 1 \in DOMAIN all /\ all # <<>>
        BY <1>5, <2>1
      <3>2. all[1][1] = p
        BY <1>5, <2>1, <3>1
      <3>3. all[1] = old[1]
        BY <1>5, <1>8, <3>1, <3>2
      <3>4. QED
        BY <2>1, <3>1, <3>3
    <2>2. CASE ValuesAt(input, p) = {v} /\ \A i \in DOMAIN old : old[i] # <<p, v>>
      BY <1>5, <1>8, <2>2
    <2>3. QED
      BY <2>1, <2>2 DEF BoundAt, old
  <1>12. QED
    BY <1>2, <1>9, <1>10, <1>11 DEF BoundAt, all

\* A bound field ends with its one value.
LEMMA BoundLeft ==
    ASSUME NEW lists, NestedFieldsMeet(lists), NEW input \in Documents(lists), ~IsArray(input), NEW c,
           NEW strip \in BOOLEAN, NEW v, v # Undefined, NEW p \in Unbracketed(Fields(lists)), Direct(input, p),
           BoundAt(c, p, v, input, lists), ~Get(input, p, Options).thrown,
           ~ChangedBy(input, c.changes, strip).thrown
    PROVE  ValuesAt(ChangedBy(input, c.changes, strip).parent, p) = {v}
  <1> DEFINE changes == c.changes
  <1>1. Made(lists, input, p, changes, strip)
    BY DEF Made, LeavesDirect, BoundAt, Sound, CheckRecord
  <1>2. SparedOrSetTo(v, p, changes)
    BY DEF BoundAt
  <1>3. LeftAt(ChangedBy(input, changes, strip).parent, input, v, p, changes)
    <2> HIDE DEF changes
    <2>1. QED
      BY <1>1, <1>2, SparedOrSet
  <1>4. QED
    BY <1>3 DEF LeftAt, BoundAt

\* A forbidden field within an allowed one, both apart from all others.
Inside(p, q, lists) ==
    /\ {p, q} \subseteq Unbracketed(Fields(lists)) /\ IsPrefix(q, p) /\ q # p
    /\ q \in Paths(lists.allowed) \ Paths(lists.forbidden) /\ p \in Paths(lists.forbidden) \ Paths(lists.allowed)
    /\ \A values \in {lists.allowed, lists.forbidden} : \A k \in DOMAIN values :
           values[k][1] \notin {p, q} => /\ ~HasBracket(values[k][1])
                                         /\ ~Related(values[k][1], p) /\ ~Related(values[k][1], q)

\* A change made before the black list's: it leaves the inner field alone or
\* removes it, or puts the outer one back, and none lies between the two.
Outside(x, p, q, lists, original) ==
    /\ LeavesDirect(x, p, lists) /\ x[1] # p
    /\ IsPrefix(q, x[1]) => x[1] = q
    /\ Meant(x, p) \/ (x[1] = q /\ x[2] # Undefined /\ ~IsArray(original))

\* The white list makes only such changes.
LEMMA WhiteOutside ==
    ASSUME NEW lists, NestedFieldsMeet(lists), NEW doc \in Documents(lists), NEW p, NEW q, Inside(p, q, lists),
           Direct(doc, p), NEW original, IsArray(doc) = IsArray(original),
           ~MatchInputValues(doc, lists.allowed).thrown,
           NEW new, new = MatchedChanges(doc, lists.allowed, Keeping), NEW i \in DOMAIN new
    PROVE  Outside(new[i], p, q, lists, original)
  <1> DEFINE values == lists.allowed
             x      == new[i]
  <1>1. p \in Unbracketed(Fields(lists)) /\ q \in Unbracketed(Fields(lists)) /\ p # q /\ IsPrefix(q, p)
    BY DEF Inside
  <1>2. p \in Seq(STRING) /\ q \in Seq(STRING) \ {<<>>} /\ ~HasBracket(q)
    <2>1. \A r \in Paths(lists.allowed) \cup Paths(lists.forbidden) : r \in Seq(STRING) \ {<<>>}
      BY DEF NestedFieldsMeet, IsList, Paths
    <2>2. {p, q} \subseteq Paths(lists.allowed) \cup Paths(lists.forbidden) /\ ~HasBracket(q)
      BY DEF Inside, Unbracketed
    <2>3. QED
      BY <2>1, <2>2
  <1>3. Direct(doc, q)
    BY <1>1, <1>2, UnderArrayWithin
  <1>4. values \in {lists.allowed, lists.forbidden} /\ Keeping \in BOOLEAN
    BY ListKinds
  <1> HIDE DEF values
  <1>5. PICK k \in DOMAIN values : /\ ByField(x, doc, values, Keeping, k)
                                   /\ ~Get(doc, values[k][1], Options).thrown
    <2>1. ChangesByList(MatchedChanges(doc, values, Keeping), doc, values, Keeping, lists)
      BY <1>4, ChangesOfList
    <2>2. QED
      BY <2>1 DEF ChangesByList, values
  <1>6. values[k][1] # p
    BY DEF Inside, Paths, values
  <1>7. CASE values[k][1] # q
    <2>1. ~HasBracket(values[k][1]) /\ ~Related(values[k][1], p) /\ ~Related(values[k][1], q)
      BY <1>4, <1>6, <1>7 DEF Inside
    <2>2. /\ ~HasBracket(x[1]) /\ x[1] # p
          /\ Spares(x[1], x[2], p) \/ Removes(x[1], x[2], p)
      BY <1>1, <1>4, <1>5, <2>1, OtherChange
    <2>3. ~IsPrefix(q, x[1])
      BY <1>1, <1>4, <1>5, <2>1, OtherChange
    <2>4. Meant(x, p)
      BY <2>2 DEF Meant
    <2>5. QED
      BY <2>2, <2>3, <2>4 DEF Outside, LeavesDirect
  <1>8. CASE values[k][1] = q
    <2>1. SetsOwn(doc, q, values, Keeping, k) \/ ClearsOwn(doc, q, values, Keeping, k, lists)
      BY <1>1, <1>3, <1>4, <1>5, <1>8, OwnChange
    <2>2. CASE ClearsOwn(doc, q, values, Keeping, k, lists)
      <3>1. /\ x[1] \in Seq(STRING) /\ ~HasBracket(x[1]) /\ IsPrefix(x[1], q) /\ x[2] = Undefined
        BY <1>5, <2>2 DEF ClearsOwn
      <3>2. IsPrefix(x[1], p)
        BY <1>1, <1>2, <3>1, PrefixOfPrefix
      <3>3. x[1] # p
        BY <1>1, <1>2, <3>1, PrefixBoth
      <3>4. IsPrefix(q, x[1]) => x[1] = q
        BY <1>2, <3>1, PrefixBoth
      <3>5. Meant(x, p)
        BY <3>1, <3>2 DEF Meant, Removes
      <3>6. QED
        BY <3>3, <3>4, <3>5 DEF Outside, LeavesDirect
    <2>3. CASE SetsOwn(doc, q, values, Keeping, k)
      <3>1. PICK v, w : /\ ValuesAt(doc, q) = {v} /\ ~UnderArray(doc, q)
                        /\ EntriesBy(doc, values, k) = <<<<q, w>>>>
                        /\ w # Undefined => IsArray(w) = IsArray(v) /\ (~IsArray(v) => w = v)
        BY <2>3 DEF SetsOwn, FoundOne
      <3>2. x[1] = q /\ x[2] = w
        <4> DEFINE entries == EntriesBy(doc, values, k)
        <4>1. PICK j \in DOMAIN entries : x[1] = entries[j][1] /\ x[2] = IF Keeping THEN entries[j][2] ELSE Undefined
          BY <1>5 DEF ByField
        <4>2. entries = <<<<q, w>>>>
          BY <3>1
        <4> HIDE DEF entries, x
        <4>3. j = 1 /\ Keeping
          BY <4>2 DEF Keeping
        <4>4. QED
          BY <4>1, <4>2, <4>3
      <3>3. ~IsArray(doc) /\ ~UnderArray(doc, p)
        BY <3>1 DEF UnderArray, Direct
      <3>4. CASE w = Undefined
        <4>1. Meant(x, p)
          BY <1>1, <1>2, <3>2, <3>4 DEF Meant, Removes
        <4>2. QED
          BY <1>1, <3>2, <4>1 DEF Outside, LeavesDirect
      <3>5. CASE w # Undefined
        <4>1. ~IsArray(v)
          BY <1>1, <1>2, <3>1, <3>3, UnderArrayWithin
        <4>2. x[2] \in ValuesAt(doc, x[1])
          BY <3>1, <3>2, <3>5, <4>1
        <4>3. LeavesDirect(x, p, lists)
          BY <1>2, <3>2, <3>3, <4>2 DEF LeavesDirect
        <4>4. QED
          BY <1>1, <3>2, <3>3, <3>5, <4>3 DEF Outside
      <3>6. QED
        BY <3>4, <3>5
    <2>4. QED
      BY <2>1, <2>2, <2>3
  <1>9. QED
    BY <1>7, <1>8

\* What the black list does for the inner field: where the outer one has a
\* value, it removes the inner one at a path within the outer one.
LEMMA BlackInside ==
    ASSUME NEW lists, NestedFieldsMeet(lists), NEW doc \in Documents(lists), NEW p, NEW q, Inside(p, q, lists),
           Direct(doc, p), ~MatchInputValues(doc, lists.forbidden).thrown, ~FoundNothing(doc, q),
           NEW new, new = MatchedChanges(doc, lists.forbidden, Striking)
    PROVE  \E j \in DOMAIN new : IsPrefix(q, new[j][1]) /\ new[j][1] # q /\ IsPrefix(new[j][1], p)
  <1> DEFINE values == lists.forbidden
  <1>1. p \in Unbracketed(Fields(lists)) /\ q \in Unbracketed(Fields(lists)) /\ p # q /\ IsPrefix(q, p) /\ p \in Paths(values)
    BY DEF Inside
  <1>2. p \in Seq(STRING) /\ q \in Seq(STRING)
    BY <1>1 DEF NestedFieldsMeet, IsList, Unbracketed, Fields, Paths
  <1>3. values \in {lists.allowed, lists.forbidden} /\ Striking \in BOOLEAN
    BY ListKinds
  <1>4. PICK k \in DOMAIN values : values[k][1] = p
    BY <1>1 DEF Paths
  <1> HIDE DEF values
  <1>5. /\ ~Get(doc, p, Options).thrown
        /\ \A j \in DOMAIN EntriesBy(doc, values, k) :
               \E i \in DOMAIN new : new[i][1] = EntriesBy(doc, values, k)[j][1]
    <2>1. ChangesByList(MatchedChanges(doc, values, Striking), doc, values, Striking, lists)
      BY <1>3, ChangesOfList
    <2>2. QED
      BY <1>4, <2>1 DEF ChangesByList, values
  <1>6. SetsOwn(doc, p, values, Striking, k) \/ ClearsOwn(doc, p, values, Striking, k, lists)
    BY <1>1, <1>3, <1>4, <1>5, OwnChange
  <1>7. PICK at, w : /\ EntriesBy(doc, values, k) = <<<<at, w>>>>
                     /\ at \in Seq(STRING) /\ IsPrefix(at, p) /\ (at = p \/ ~IsPrefix(at, q))
    <2>1. CASE SetsOwn(doc, p, values, Striking, k)
      BY <1>2, <2>1, PrefixSelf DEF SetsOwn, FoundOne
    <2>2. CASE ClearsOwn(doc, p, values, Striking, k, lists)
      <3>1. PICK at : /\ EntriesBy(doc, values, k) = <<<<at, Undefined>>>>
                      /\ at \in Seq(STRING) /\ IsPrefix(at, p)
                      /\ \A r \in Unbracketed(Fields(lists)) : IsPrefix(at, r) => FoundNothing(doc, r)
        BY <2>2 DEF ClearsOwn, FoundNone
      <3>2. ~IsPrefix(at, q)
        BY <1>1, <3>1
      <3>3. QED
        BY <3>1, <3>2
    <2>3. QED
      BY <1>6, <2>1, <2>2
  <1>8. PICK j \in DOMAIN new : new[j][1] = at
    <2>1. 1 \in DOMAIN EntriesBy(doc, values, k) /\ EntriesBy(doc, values, k)[1][1] = at
      BY <1>7
    <2>2. QED
      BY <1>5, <2>1
  <1>9. IsPrefix(q, at) /\ at # q
    <2>1. CASE at = p
      BY <1>1, <2>1
    <2>2. CASE ~IsPrefix(at, q)
      <3>1. IsPrefix(q, at)
        BY <1>1, <1>2, <1>7, <2>2, PrefixesCompare
      <3>2. at # q
        BY <1>2, <2>2, PrefixSelf
      <3>3. QED
        BY <3>1, <3>2
    <2>3. QED
      BY <1>7, <2>1, <2>2
  <1>10. QED
    BY <1>7, <1>8, <1>9

\* The black list leaves nothing of the inner field, although the white one
\* may have put the outer one back as it was.
LEMMA InnerIsLeftOut ==
    ASSUME NEW lists, NestedFieldsMeet(lists), NEW original \in Documents(lists), NEW c, NEW middle, NEW next,
           ListsApplied(c, middle, next, lists), NEW strip \in BOOLEAN, NEW p, NEW q, Inside(p, q, lists),
           Direct(original, p), Direct(c.data, p), Sound(c, q, lists, original),
           \A i \in DOMAIN c.changes : Outside(c.changes[i], p, q, lists, original),
           ~ChangedBy(original, next.changes, strip).thrown
    PROVE  ValuesAt(ChangedBy(original, next.changes, strip).parent, p) = {}
  <1> DEFINE new1 == MatchedChanges(c.data, lists.allowed, Keeping)
             new2 == MatchedChanges(middle.data, lists.forbidden, Striking)
             X    == Changes(lists)
             m    == Len(middle.changes)
             all  == next.changes
  <1>1. /\ p \in Unbracketed(Fields(lists)) /\ q \in Unbracketed(Fields(lists)) /\ p # q /\ IsPrefix(q, p)
        /\ p \in Paths(lists.forbidden)
    BY DEF Inside
  <1>2. p \in Seq(STRING) /\ q \in Seq(STRING)
    BY <1>1 DEF NestedFieldsMeet, IsList, Unbracketed, Fields, Paths
  <1>3. /\ c \in CheckRecord(lists) /\ middle \in CheckRecord(lists) /\ next \in CheckRecord(lists)
        /\ new1 \in Seq(X) /\ new2 \in Seq(X)
        /\ middle.data = ChangedBy(c.data, new1, Options.strip).parent /\ ~ChangedBy(c.data, new1, Options.strip).thrown
        /\ ~MatchInputValues(c.data, lists.allowed).thrown /\ ~MatchInputValues(middle.data, lists.forbidden).thrown
        /\ SetsEntries(middle.changes, X, c.changes, new1) /\ SetsEntries(all, X, middle.changes, new2)
    BY DEF ListsApplied, ListApplied
  <1>4. c.data \in Documents(lists) /\ IsArray(c.data) = IsArray(original)
    BY <1>3 DEF CheckRecord, Sound
  <1>5. \A i \in DOMAIN new1 : Outside(new1[i], p, q, lists, original)
    BY <1>3, <1>4, WhiteOutside
  <1>6. middle.data \in Documents(lists) /\ Direct(middle.data, p) /\ IsArray(middle.data) = IsArray(original)
    <2> HIDE DEF new1
    <2>1. Made(lists, c.data, p, new1, Options.strip)
      BY <1>1, <1>3, <1>4, <1>5 DEF Made, Outside, Options, X
    <2>2. /\ ChangedBy(c.data, new1, Options.strip).parent \in Documents(lists)
          /\ Direct(ChangedBy(c.data, new1, Options.strip).parent, p)
          /\ IsArray(ChangedBy(c.data, new1, Options.strip).parent) = IsArray(c.data)
      BY <2>1, MadeInSteps
    <2>3. QED
      BY <1>3, <1>4, <2>2
  <1>7. \A i \in DOMAIN middle.changes : Outside(middle.changes[i], p, q, lists, original)
    BY <1>3, <1>5 DEF SetsEntries
  <1>8. /\ \A j \in DOMAIN new2 : Meant(new2[j], p)
        /\ \E j \in DOMAIN new2 : IsPrefix(new2[j][1], p)
    <2>1. OthersApart(p, lists.forbidden)
      BY DEF Inside, OthersApart, Paths
    <2>2. ListMeans(new2, middle.data, p, lists.forbidden, Striking)
      BY <1>1, <1>3, <1>6, <2>1, ListKinds, ListMeansForField
    <2> HIDE DEF new2
    <2>3. QED
      BY <1>1, <2>2 DEF ListMeans
  <1>9. \A j \in DOMAIN new2 : new2[j][2] = Undefined
    BY DEF MatchedChanges, Striking
  <1>10. /\ all \in Seq(X) /\ m \in Nat /\ DOMAIN middle.changes = 1 .. m /\ m <= Len(all)
         /\ \A i \in 1 .. m : all[i][1] = middle.changes[i][1]
         /\ \A i \in DOMAIN all : \/ \E j \in DOMAIN new2 : all[i] = new2[j]
                                  \/ i \in 1 .. m /\ all[i] = middle.changes[i]
         /\ \A j \in DOMAIN new2 : \E i \in DOMAIN all : all[i][1] = new2[j][1]
    BY <1>3 DEF SetsEntries, CheckRecord
  <1> HIDE DEF new1, X, m, all
  <1>11. \A i \in DOMAIN all : /\ LeavesDirect(all[i], p, lists)
                               /\ all[i][1] = p => all[i][2] = Undefined
    BY <1>7, <1>8, <1>9, <1>10 DEF Outside, LeavesDirect
  \* From some place on nothing but what the black list removes is changed.
  <1>12. \E k \in DOMAIN all : /\ IsPrefix(all[k][1], p)
                               /\ \A i \in DOMAIN all : i >= k => Meant(all[i], p)
    <2>1. CASE \A i \in DOMAIN all : Meant(all[i], p)
      BY <1>8, <1>10, <2>1
    <2>2. CASE \E i \in DOMAIN all : ~Meant(all[i], p)
      <3>1. PICK i \in 1 .. m : ~Meant(middle.changes[i], p)
        BY <1>8, <1>10, <2>2
      <3>2. middle.changes[i][1] = q /\ middle.changes[i][2] # Undefined /\ ~IsArray(original)
        BY <1>7, <1>10, <3>1 DEF Outside
      <3>3. Sound(middle, q, lists, original)
        <4>1. OthersApart(q, lists.allowed)
          BY DEF Inside, OthersApart, Paths
        <4>2. QED
          BY <1>1, <4>1, WhiteStep DEF SoundNext
      <3>4. ValuesAt(middle.data, q) # {} /\ Direct(middle.data, q)
        BY <1>10, <3>2, <3>3 DEF Sound
      <3>5. ~FoundNothing(middle.data, q)
        BY <1>1, <1>6, <3>2, <3>4, NothingThere DEF Unbracketed
      <3>6. PICK j \in DOMAIN new2 : IsPrefix(q, new2[j][1]) /\ new2[j][1] # q /\ IsPrefix(new2[j][1], p)
        BY <1>3, <1>6, <3>5, BlackInside
      <3> HIDE DEF new2
      <3>7. PICK k \in DOMAIN all : all[k][1] = new2[j][1]
        BY <1>10
      <3>8. k \notin 1 .. m
        BY <1>7, <1>10, <3>6, <3>7 DEF Outside
      <3>9. \A l \in DOMAIN all : l >= k => l \notin 1 .. m
        BY <1>10, <3>8
      <3>10. QED
        BY <1>8, <1>10, <3>6, <3>7, <3>9
    <2>3. QED
      BY <2>1, <2>2
  <1>13. Made(lists, original, p, all, strip)
    BY <1>1, <1>10, <1>11 DEF Made, X, all
  <1>14. PICK k \in DOMAIN all : /\ IsPrefix(all[k][1], p)
                                /\ \A i \in DOMAIN all : i >= k => Meant(all[i], p)
    BY <1>12
  <1>15. ValuesAt(ChangedBy(original, all, strip).parent, p)
             \subseteq {all[i][2] : i \in {j \in DOMAIN all : j >= k /\ all[j][1] = p}} \ {Undefined}
    BY <1>11, <1>13, <1>14, SettledFrom
  <1>16. QED
    BY <1>11, <1>15 DEF all

\* How a check by two lists starts: with the data as given, or with the one
\* field that is bound set in it.
Started(c, original, lists) ==
    \/ c = Checking(original)
    \/ lists.field # <<>> /\ \E v : BindsTo(c, Checking(original), lists.field, v, lists)

\* Either way the state is sound for a field the bound one is apart from.
LEMMA StartIsSound ==
    ASSUME NEW lists, NestedFieldsMeet(lists), NEW original \in Documents(lists),
           NEW c, Started(c, original, lists), Goes(c),
           NEW p \in Unbracketed(Fields(lists)), Direct(original, p),
           p = lists.field \/ lists.field = <<>> \/ (~HasBracket(lists.field) /\ ~Related(lists.field, p))
    PROVE  /\ Sound(c, p, lists, original)
           /\ p # lists.field =>
                  \A i \in DOMAIN c.changes : c.changes[i][1] = lists.field /\ lists.field # <<>>
                                              /\ Spares(c.changes[i][1], c.changes[i][2], p)
  <1>1. CASE c = Checking(original)
    <2>1. DOMAIN c.changes = {}
      BY <1>1 DEF Checking
    <2>2. QED
      BY <1>1, <2>1, CheckingSound
  <1>2. CASE lists.field # <<>> /\ \E v : BindsTo(c, Checking(original), lists.field, v, lists)
    <2> DEFINE field == lists.field
    <2>1. PICK v : BindsTo(c, Checking(original), field, v, lists)
      BY <1>2
    <2>2. ~c.thrown
      BY DEF Goes
    <2>3. field = p \/ (~HasBracket(field) /\ ~Related(field, p))
      BY <1>2
    <2>4. field # <<>>
      BY <1>2
    <2> HIDE DEF field
    <2>5. /\ Sound(c, p, lists, original) /\ c.changes = <<<<field, v>>>>
          /\ field # p => Spares(field, v, p)
      BY <2>1, <2>2, <2>3, BindingSound
    <2>6. \A i \in DOMAIN c.changes : c.changes[i][1] = field /\ c.changes[i][2] = v
      BY <2>5
    <2>7. QED
      BY <2>4, <2>5, <2>6 DEF field
  <1>3. QED
    BY <1>1, <1>2 DEF Started

\* A check that goes on to its end has applied both lists.
LEMMA ListsAreApplied ==
    ASSUME NEW lists, NestedFieldsMeet(lists), NEW c \in CheckRecord(lists),
           NEW next, next = Blacklist(Whitelist(c, lists.allowed), lists.forbidden), Goes(next)
    PROVE  ListsApplied(c, Whitelist(c, lists.allowed), next, lists) /\ Goes(c)
  <1> DEFINE middle == Whitelist(c, lists.allowed)
  <1>1. Goes(middle)
    BY DEF Blacklist
  <1>2. Goes(c)
    BY <1>1 DEF Whitelist
  <1>3. middle = SetMatched(c, MatchInputValues(c.data, lists.allowed), Keeping)
    BY <1>2 DEF Whitelist, Keeping
  <1>4. next = SetMatched(middle, MatchInputValues(middle.data, lists.forbidden), Striking)
    BY <1>1 DEF Blacklist, Striking
  <1> HIDE DEF middle
  <1>5. ListApplied(c, middle, MatchedChanges(c.data, lists.allowed, Keeping), lists.allowed, Keeping, lists)
    <2>1. lists.allowed \in {lists.allowed, lists.forbidden} /\ Keeping \in BOOLEAN
      BY ListKinds
    <2>2. ~SetMatched(c, MatchInputValues(c.data, lists.allowed), Keeping).thrown
      BY <1>1, <1>3 DEF Goes
    <2>3. ListApplied(c, SetMatched(c, MatchInputValues(c.data, lists.allowed), Keeping),
                      MatchedChanges(c.data, lists.allowed, Keeping), lists.allowed, Keeping, lists)
      BY <2>1, <2>2, ListIsApplied
    <2>4. QED
      BY <1>3, <2>3
  <1>6. ListApplied(middle, next, MatchedChanges(middle.data, lists.forbidden, Striking), lists.forbidden, Striking, lists)
    <2>1. lists.forbidden \in {lists.allowed, lists.forbidden} /\ Striking \in BOOLEAN
      BY ListKinds
    <2>2. ~SetMatched(middle, MatchInputValues(middle.data, lists.forbidden), Striking).thrown
      BY <1>4 DEF Goes
    <2>3. middle \in CheckRecord(lists)
      BY <1>5 DEF ListApplied
    <2>4. ListApplied(middle, SetMatched(middle, MatchInputValues(middle.data, lists.forbidden), Striking),
                      MatchedChanges(middle.data, lists.forbidden, Striking), lists.forbidden, Striking, lists)
      BY <2>1, <2>2, <2>3, ListIsApplied
    <2>5. QED
      BY <1>4, <2>4
  <1>7. QED
    BY <1>2, <1>5, <1>6 DEF ListsApplied, middle

\* What both lists make of the data keeps to them.
LEMMA ListsAreKept ==
    ASSUME NEW lists, NestedFieldsMeet(lists), NEW original \in Documents(lists), NEW c \in CheckRecord(lists),
           Started(c, original, lists), NEW strip \in BOOLEAN,
           NEW next, next = Blacklist(Whitelist(c, lists.allowed), lists.forbidden), Goes(next),
           ~ChangedBy(original, next.changes, strip).thrown
    PROVE  ListsHold(ChangedBy(original, next.changes, strip).parent, original, lists)
  <1> DEFINE middle == Whitelist(c, lists.allowed)
             final  == ChangedBy(original, next.changes, strip).parent
  <1>1. ListsApplied(c, middle, next, lists) /\ Goes(c)
    BY ListsAreApplied
  <1> HIDE DEF middle
  <1>2. ASSUME NEW p \in Fields(lists), Apart(p, Fields(lists) \ {p}), Direct(original, p)
        PROVE  /\ p \in Unbracketed(Fields(lists)) /\ Sound(c, p, lists, original)
               /\ OthersApart(p, lists.allowed) /\ OthersApart(p, lists.forbidden)
    <2>1. p \in Unbracketed(Fields(lists))
      BY <1>2 DEF Apart, Unbracketed
    <2>2. OthersApart(p, lists.allowed) /\ OthersApart(p, lists.forbidden)
      BY <1>2 DEF Apart, OthersApart, Fields, Paths
    <2>3. p = lists.field \/ lists.field = <<>> \/ (~HasBracket(lists.field) /\ ~Related(lists.field, p))
      BY <1>2 DEF Apart, Fields
    <2>4. QED
      BY <1>1, <1>2, <2>1, <2>2, <2>3, StartIsSound
  <1>3. ASSUME NEW k \in DOMAIN lists.allowed, ~UnderArray(original, lists.allowed[k][1]),
               Apart(lists.allowed[k][1], Fields(lists) \ {lists.allowed[k][1]})
        PROVE  Within(final, lists.allowed[k][1], lists.allowed[k][2])
    <2> DEFINE p == lists.allowed[k][1]
               value == lists.allowed[k][2]
    <2>1. p \in Fields(lists)
      BY DEF Fields, Paths
    <2>2. /\ p \in Unbracketed(Fields(lists)) /\ Sound(c, p, lists, original)
          /\ OthersApart(p, lists.allowed) /\ OthersApart(p, lists.forbidden)
      BY <1>2, <1>3, <2>1 DEF Direct
    <2>3. ~UnderArray(original, p) /\ lists.allowed[k][1] = p
      BY <1>3
    <2>4. ASSUME NEW v \in ValuesAt(final, p)
          PROVE  Fits(ItemsOf(value), v)
      <3> HIDE DEF p
      <3>1. QED
        BY <1>1, <2>2, <2>3, <2>4, AllowedIsKept
    <2>5. QED
      BY <2>4 DEF Within, Allows, Fits, Admits
  <1>4. ASSUME NEW p \in Paths(lists.forbidden), Direct(original, p), Apart(p, Fields(lists) \ {p})
        PROVE  ValuesAt(final, p) = {}
    <2>1. p \in Fields(lists)
      BY DEF Fields
    <2>2. /\ p \in Unbracketed(Fields(lists)) /\ Sound(c, p, lists, original)
          /\ OthersApart(p, lists.allowed) /\ OthersApart(p, lists.forbidden)
      BY <1>2, <1>4, <2>1
    <2>3. QED
      BY <1>1, <1>4, <2>2, ForbiddenIsLeftOut
  <1>5. ASSUME NEW p \in Paths(lists.forbidden), Direct(original, p), ForbiddenWithin(p, lists)
        PROVE  ValuesAt(final, p) = {}
    <2>1. PICK q \in Paths(lists.allowed) \ (Paths(lists.forbidden) \cup {lists.field}) :
              /\ IsPrefix(q, p) /\ p \notin Paths(lists.allowed) \cup {lists.field}
              /\ Apart(p, Fields(lists) \ {p, q}) /\ Apart(q, Fields(lists) \ {p, q})
      BY <1>5 DEF ForbiddenWithin
    <2>2. p \in Unbracketed(Fields(lists)) /\ q \in Unbracketed(Fields(lists)) /\ p # q
      BY <2>1 DEF Apart, Unbracketed, Fields
    <2>3. p \in Seq(STRING) /\ q \in Seq(STRING) \ {<<>>}
      BY <2>2 DEF NestedFieldsMeet, IsList, Unbracketed, Fields, Paths
    <2>4. Inside(p, q, lists)
      <3>1. \A values \in {lists.allowed, lists.forbidden} : \A k \in DOMAIN values : values[k][1] \in Fields(lists)
        BY DEF Fields, Paths
      <3>2. QED
        BY <2>1, <2>2, <3>1 DEF Inside, Apart
    <2>5. Direct(original, q)
      BY <1>5, <2>1, <2>3, UnderArrayWithin
    <2>6. lists.field \notin {p, q}
      BY <2>1
    <2>7. lists.field = <<>> \/ (/\ ~HasBracket(lists.field) /\ lists.field \in Fields(lists)
                                 /\ ~Related(lists.field, p) /\ ~Related(lists.field, q))
      BY <2>1, <2>6 DEF Apart, Fields
    <2>8. /\ Sound(c, p, lists, original)
          /\ \A i \in DOMAIN c.changes : c.changes[i][1] = lists.field /\ lists.field # <<>>
                                         /\ Spares(c.changes[i][1], c.changes[i][2], p)
      BY <1>1, <1>5, <2>2, <2>6, <2>7, StartIsSound
    <2>9. Sound(c, q, lists, original)
      BY <1>1, <2>2, <2>5, <2>7, StartIsSound
    <2>10. \A i \in DOMAIN c.changes : Outside(c.changes[i], p, q, lists, original)
      <3>1. \A i \in DOMAIN c.changes : Meant(c.changes[i], p) /\ c.changes[i][1] # p /\ ~IsPrefix(q, c.changes[i][1])
        BY <2>6, <2>7, <2>8 DEF Sound, Related, Leads
      <3>2. QED
        BY <3>1 DEF Outside, LeavesDirect
    <2>11. Direct(c.data, p)
      BY <2>8 DEF Sound
    <2>12. QED
      BY <1>1, <1>5, <2>4, <2>9, <2>10, <2>11, InnerIsLeftOut
  <1>6. QED
    BY <1>3, <1>4, <1>5 DEF ListsHold

\* A value that holds no regular expression passes the test against itself.
LEMMA PassesItself ==
    ASSUME NEW v, \A item \in ItemsOf(v) : Kind(item) # "regex"
    PROVE  Fits(ItemsOf(v), v)
  <1>1. ASSUME NEW item \in ItemsOf(v)
        PROVE  TestValue(item, item)
    <2>1. Kind(item) # "regex"
      OBVIOUS
    <2>2. item \in ValuesForTesting(item)
      BY DEF ValuesForTesting
    <2>3. QED
      BY <2>1, <2>2 DEF TestValue
  <1>2. QED
    BY <1>1 DEF Fits, Admits

\* A reading of a field that lies behind no array finds its one value.
LEMMA ReadOne ==
    ASSUME NEW doc, NEW path, ReadsAsSelected(doc, path), ~UnderArray(doc, path), ~Get(doc, path, Options).thrown,
           NEW v, v = UnifiedValue(Get(doc, path, Options)), v # Undefined
    PROVE  ValuesAt(doc, path) = {v} /\ Undefined \notin ItemsOf(v) /\ Get(doc, path, Options).values # <<>>
  <1> DEFINE found == Get(doc, path, Options)
             there == ValuesAt(doc, path)
  <1>1. /\ found.values \in Seq(there) /\ ToSet(found.values) = there /\ Len(found.paths) <= 1 /\ Len(found.values) <= 1
        /\ found.paths \in Seq(Seq(STRING))
        /\ \A x \in there : Undefined \notin ItemsOf(x)
    BY DEF ReadsAsSelected
  <1>2. v = UnifiedValue(found)
    OBVIOUS
  <1> HIDE DEF found, there
  <1>3. found.values # <<>> /\ v = found.values[1]
    <2>1. Len(found.paths) \in Nat /\ Len(found.values) \in Nat
      BY <1>1
    <2>2. QED
      BY <1>1, <1>2, <2>1 DEF UnifiedValue
  <1>4. Len(found.values) = 1 /\ DOMAIN found.values = {1}
    <2> DEFINE n == Len(found.values)
    <2>1. n \in Nat /\ n # 0 /\ DOMAIN found.values = 1 .. n /\ n <= 1
      BY <1>1, <1>3
    <2> HIDE DEF n
    <2>2. n = 1
      BY <2>1
    <2>3. QED
      BY <2>1, <2>2 DEF n
  <1>5. there = {v}
    BY <1>1, <1>3, <1>4 DEF ToSet
  <1>6. QED
    BY <1>1, <1>3, <1>5 DEF found, there

\* Where a point binds a field to its user and the check goes on, the field has
\* a value that is the user's: what it had, what is left of it, or the user's.
LEMMA UserIsBound ==
    ASSUME NEW point, NEW user, NEW input, NEW lists, lists = InputLists(point), NestedFieldsMeet(lists),
           input \in Documents(lists), BindsFields(point, user, input), ConditionsReadAsSelected(point, user, input),
           BindsAlone(point, user, input), NEW c, c = CheckUserField(Checking(input), user.data, point), Goes(c)
    PROVE  /\ ~Get(input, point.inputField, Options).thrown
           /\ \E v, own : /\ v # Undefined /\ BoundAt(c, point.inputField, v, input, lists)
                          /\ ValuesAt(user.data, point.userField) = {own} /\ Fits(ItemsOf(own), v)
  <1> DEFINE start   == Checking(input)
             p       == point.inputField
             inInput == Get(input, p, Options)
             inUser  == Get(user.data, point.userField, Options)
             own     == UnifiedValue(inUser)
             given   == UnifiedValue(inInput)
             entries == MatchFound(inInput, ItemsOf(own)).entries
             allowed == EntryAt(entries, p)
  <1>1. /\ point.userField # <<>> /\ p # <<>> /\ ~UnderArray(user.data, point.userField) /\ ~UnderArray(input, p)
        /\ ~HasBracket(p)
    BY DEF BindsAlone, Apart
  <1>2. /\ start.data = input /\ start.changes = <<>> /\ Goes(start)
        /\ start = [data |-> input, changes |-> <<>>, granted |-> TRUE, thrown |-> FALSE]
    BY DEF Checking, Goes
  <1>3. c = BoundTo(start, p, inInput, inUser)
    BY <1>1, <1>2 DEF CheckUserField
  <1>4. ~inInput.thrown /\ ~inUser.thrown
    <2>1. SUFFICES ASSUME inInput.thrown \/ inUser.thrown
                   PROVE  FALSE
      OBVIOUS
    <2>2. BoundTo(start, p, inInput, inUser) = [start EXCEPT !.thrown = TRUE]
      BY <2>1 DEF BoundTo
    <2>3. QED
      BY <1>2, <1>3, <2>2 DEF Goes
  <1>5. c = Bound(start, p, given, own, allowed)
    BY <1>3, <1>4 DEF BoundTo
  <1>6. ~Goes([start EXCEPT !.granted = FALSE])
    BY <1>2 DEF Goes
  <1>7. own # Undefined /\ (given = Undefined \/ Kind(allowed) \in {"text", "array"})
    BY <1>5, <1>6 DEF Bound
  <1>8. ValuesAt(user.data, point.userField) = {own} /\ Undefined \notin ItemsOf(own) /\ Fits(ItemsOf(own), own)
    <2>1. /\ ReadsAsSelected(user.data, point.userField)
          /\ \A v \in ValuesAt(user.data, point.userField) : \A item \in ItemsOf(v) : Kind(item) # "regex"
      BY <1>1 DEF ConditionsReadAsSelected
    <2> HIDE DEF own
    <2>2. ValuesAt(user.data, point.userField) = {own} /\ Undefined \notin ItemsOf(own)
      BY <1>1, <1>4, <1>7, <2>1, ReadOne DEF own
    <2>3. QED
      BY <2>1, <2>2, PassesItself
  <1>9. /\ p \in Unbracketed(Fields(lists)) /\ lists.field = p
        /\ Direct(input, p) /\ ~IsArray(input)
    BY <1>1 DEF InputLists, Unbracketed, Fields, Direct, UnderArray
  <1>10. Sound(start, p, lists, input)
    BY <1>9, CheckingSound
  <1>11. /\ <<p, own>> \in Changes(lists)
         /\ ChangesOf(lists, entries)
    BY <1>1 DEF BindsFields
  <1> HIDE DEF own, given, start
  \* A field that the check gives a value.
  <1>12. ASSUME NEW v, v # Undefined, <<p, v>> \in Changes(lists), c = Change(start, <<<<p, v>>>>)
         PROVE  BoundAt(c, p, v, input, lists)
    <2>1. BindsTo(c, start, p, v, lists)
      BY <1>2, <1>4, <1>12 DEF BindsTo
    <2>2. ~c.thrown
      BY DEF Goes
    <2>3. /\ Sound(c, p, lists, input) /\ c.changes = <<<<p, v>>>>
          /\ ValuesAt(c.data, p) = {v}
      BY <1>9, <2>1, <2>2, BindingSound DEF start
    <2>4. c.changes # <<>> /\ c.changes[1] = <<p, v>> /\ \A i \in DOMAIN c.changes : c.changes[i] = <<p, v>>
      BY <2>3
    <2>5. QED
      BY <2>3, <2>4 DEF BoundAt, SparedOrSetTo
  <1>13. CASE given = Undefined
    <2>1. c = Change(start, <<<<p, own>>>>)
      BY <1>5, <1>7, <1>13 DEF Bound
    <2>2. BoundAt(c, p, own, input, lists)
      BY <1>7, <1>11, <1>12, <2>1
    <2>3. QED
      BY <1>4, <1>7, <1>8, <2>2
  <1>14. CASE given # Undefined
    <2>1. ReadsAsSelected(input, p)
      BY <1>1 DEF ConditionsReadAsSelected
    <2>2. ValuesAt(input, p) = {given} /\ inInput.values # <<>>
      BY <1>1, <1>4, <1>14, <2>1, ReadOne DEF given
    <2>3. ~FoundNothing(input, p)
      BY <2>2 DEF FoundNothing
    <2>4. FoundOne(input, p, entries, ItemsOf(own))
      BY <1>4, <1>8, <1>9, <2>3, OwnField DEF FoundNone
    <2> HIDE DEF entries
    <2>5. PICK w : /\ entries = <<<<p, w>>>>
                   /\ w # Undefined => Fits(ItemsOf(own), w) /\ (~IsArray(given) => w = given)
      BY <2>2, <2>4 DEF FoundOne
    <2>6. allowed = w
      <3>1. {i \in DOMAIN entries : entries[i][1] = p} = {1} /\ entries[1][2] = w
        BY <2>5
      <3>2. QED
        BY <3>1 DEF EntryAt
    <2>7. Kind(Undefined) \notin {"text", "array"}
      BY DEF Kind, Undefined
    <2>8. w # Undefined
      BY <1>7, <1>14, <2>6, <2>7
    <2>9. CASE IsArray(given)
      <3>1. c = Change(start, <<<<p, w>>>>)
        BY <1>5, <1>7, <1>14, <2>6, <2>9 DEF Bound
      <3>2. <<p, w>> \in Changes(lists)
        <4>1. 1 \in DOMAIN entries /\ entries[1] = <<p, w>>
          BY <2>5
        <4>2. QED
          BY <1>11, <4>1 DEF ChangesOf
      <3>3. BoundAt(c, p, w, input, lists)
        BY <1>12, <2>8, <3>1, <3>2
      <3>4. QED
        BY <1>4, <1>8, <2>5, <2>8, <3>3
    <2>10. CASE ~IsArray(given)
      <3>1. c = start
        BY <1>5, <1>7, <1>14, <2>10 DEF Bound
      <3>2. w = given /\ Fits(ItemsOf(own), w)
        BY <2>5, <2>8, <2>10
      <3>3. c.data = input /\ DOMAIN c.changes = {}
        BY <1>2, <3>1
      <3>4. BoundAt(c, p, w, input, lists)
        BY <1>10, <2>2, <3>1, <3>2, <3>3 DEF BoundAt, SparedOrSetTo
      <3>5. QED
        BY <1>4, <1>8, <2>8, <3>2, <3>4
    <2>11. QED
      BY <2>9, <2>10
  <1>15. QED
    BY <1>13, <1>14

\* The field bound to the user ends with the user's values only.
LEMMA BoundFieldIsKept ==
    ASSUME NEW point, NEW user, NEW input, NEW lists, lists = InputLists(point), NestedFieldsMeet(lists),
           input \in Documents(lists), BindsFields(point, user, input), ConditionsReadAsSelected(point, user, input),
           NEW c \in CheckRecord(lists), c = CheckUserField(Checking(input), user.data, point),
           NEW next, next = Blacklist(Whitelist(c, lists.allowed), lists.forbidden), Goes(next),
           NEW strip \in BOOLEAN, ~ChangedBy(input, next.changes, strip).thrown
    PROVE  BoundToUser(point, user, ChangedBy(input, next.changes, strip).parent, input)
  <1> DEFINE p      == point.inputField
             middle == Whitelist(c, lists.allowed)
             final  == ChangedBy(input, next.changes, strip).parent
  <1>1. SUFFICES ASSUME BindsAlone(point, user, input)
                 PROVE  /\ ValuesAt(final, p) # {}
                        /\ \A own \in ValuesAt(user.data, point.userField) : Within(final, p, own)
    BY DEF BoundToUser
  <1>2. ListsApplied(c, middle, next, lists) /\ Goes(c)
    BY ListsAreApplied
  <1>3. PICK v, own : /\ v # Undefined /\ BoundAt(c, p, v, input, lists)
                      /\ ValuesAt(user.data, point.userField) = {own} /\ Fits(ItemsOf(own), v)
    BY <1>1, <1>2, UserIsBound
  <1>4. ~Get(input, p, Options).thrown
    BY <1>1, <1>2, UserIsBound
  <1>5. /\ p \in Unbracketed(Fields(lists)) /\ Direct(input, p) /\ ~IsArray(input)
        /\ \A q \in Paths(lists.allowed) \cup Paths(lists.forbidden) : ~HasBracket(q) /\ ~Related(q, p)
    BY <1>1 DEF BindsAlone, Apart, InputLists, Unbracketed, Fields, Direct, UnderArray
  <1>6. Related(p, p)
    <2>1. p \in Seq(STRING)
      BY <1>5 DEF NestedFieldsMeet, IsList, Unbracketed, Fields, Paths
    <2>2. QED
      BY <2>1, PrefixSelf DEF Related, Leads
  <1>7. /\ p \notin Paths(lists.allowed) /\ p \notin Paths(lists.forbidden)
        /\ OthersApart(p, lists.allowed) /\ OthersApart(p, lists.forbidden)
    BY <1>5, <1>6 DEF OthersApart, Paths
  <1> HIDE DEF middle
  <1>8. /\ lists.allowed \in {lists.allowed, lists.forbidden} /\ Keeping \in BOOLEAN
        /\ ListApplied(c, middle, MatchedChanges(c.data, lists.allowed, Keeping), lists.allowed, Keeping, lists)
    BY <1>2, ListKinds DEF ListsApplied
  <1>9. /\ lists.forbidden \in {lists.allowed, lists.forbidden} /\ Striking \in BOOLEAN
        /\ ListApplied(middle, next, MatchedChanges(middle.data, lists.forbidden, Striking), lists.forbidden, Striking, lists)
    BY <1>2, ListKinds DEF ListsApplied
  <1> DEFINE new1 == MatchedChanges(c.data, lists.allowed, Keeping)
             new2 == MatchedChanges(middle.data, lists.forbidden, Striking)
  <1>10. BoundAt(middle, p, v, input, lists)
    <2>1. AppliedToOthers(c, middle, new1, p, lists.allowed, Keeping, lists)
      BY <1>5, <1>7, <1>8 DEF AppliedToOthers
    <2> HIDE DEF new1, p
    <2>2. QED
      BY <1>3, <1>5, <2>1, BoundStays
  <1>11. BoundAt(next, p, v, input, lists)
    <2>1. AppliedToOthers(middle, next, new2, p, lists.forbidden, Striking, lists)
      BY <1>5, <1>7, <1>9 DEF AppliedToOthers
    <2> HIDE DEF new2, p
    <2>2. QED
      BY <1>3, <1>5, <1>10, <2>1, BoundStays
  <1>12. ValuesAt(final, p) = {v}
    BY <1>3, <1>4, <1>5, <1>11, BoundLeft
  <1>13. QED
    BY <1>3, <1>12 DEF Within, Allows, Fits, Admits

\* A check starts with a record of the right shape.
LEMMA CheckingRecord ==
    ASSUME NEW lists, NEW data \in Documents(lists)
    PROVE  Checking(data) \in CheckRecord(lists)
  <1>1. Checking(data) = [data |-> data, changes |-> <<>>, granted |-> TRUE, thrown |-> FALSE] /\ <<>> \in Seq(Changes(lists))
    BY DEF Checking
  <1>2. QED
    BY <1>1 DEF CheckRecord

\* What a point's check makes of a request's data keeps to its lists, and the
\* field it binds to its user.
LEMMA PointKeeps ==
    ASSUME NEW point, NEW user,
           NEW input, NestedFieldsMeet(InputLists(point)), input \in Documents(InputLists(point)),
           BindsFields(point, user, input), ConditionsReadAsSelected(point, user, input),
           NEW c, c = CheckPoint(input, user.data, point), Goes(c),
           NEW strip \in BOOLEAN, ~ChangedBy(input, c.changes, strip).thrown
    PROVE  /\ ListsHold(ChangedBy(input, c.changes, strip).parent, input, InputLists(point))
           /\ BoundToUser(point, user, ChangedBy(input, c.changes, strip).parent, input)
  <1> DEFINE lists  == InputLists(point)
             start  == Checking(input)
             tested == CheckStaticData(start, user.data, point.static)
             bound  == CheckUserField(start, user.data, point)
  <1>1. tested = start
    <2> DEFINE last == CheckUserField(tested, user.data, point)
    <2>1. Goes(Whitelist(last, point.allowedInput))
      BY DEF CheckPoint, Blacklist
    <2>2. Goes(last)
      BY <2>1 DEF Whitelist
    <2>3. Goes(tested)
      BY <2>2 DEF CheckUserField
    <2>4. QED
      BY <2>3, StaticDataPass
  <1>2. lists.allowed = point.allowedInput /\ lists.forbidden = point.forbiddenInput /\ lists.field = point.inputField
    BY DEF InputLists
  <1>3. c = Blacklist(Whitelist(bound, lists.allowed), lists.forbidden)
    BY <1>1, <1>2 DEF CheckPoint
  <1>4. Goes(bound)
    <2>1. Goes(Whitelist(bound, lists.allowed))
      BY <1>3 DEF Blacklist
    <2>2. QED
      BY <2>1 DEF Whitelist
  <1>5. \/ bound = start
        \/ point.inputField # <<>> /\ \E v : BindsTo(bound, start, point.inputField, v, lists)
    <2>1. Changes(lists) \subseteq {<<x[1], x[2]>> : x \in Changes(lists)}
      BY DEF NestedFieldsMeet
    <2>2. QED
      BY <1>4, <2>1, UserFieldBinds
  <1> HIDE DEF lists, bound
  <1>6. Started(bound, input, lists)
    BY <1>2, <1>5 DEF Started
  <1>7. NestedFieldsMeet(lists) /\ input \in Documents(lists)
    BY DEF lists
  <1>8. start \in CheckRecord(lists)
    BY <1>7, CheckingRecord
  <1>9. bound \in CheckRecord(lists)
    <2>1. CASE bound = start
      BY <1>8, <2>1
    <2>2. CASE \E v : BindsTo(bound, start, point.inputField, v, lists)
      <3>1. PICK v : BindsTo(bound, start, point.inputField, v, lists)
        BY <2>2
      <3> DEFINE new == <<<<point.inputField, v>>>>
      <3>2. new \in Seq(Changes(lists)) /\ bound = Change(start, new)
        BY <3>1 DEF BindsTo
      <3> HIDE DEF new, start
      <3>3. ChangeMade(Change(start, new), start, new, lists)
        BY <1>7, <1>8, <3>2, ChangeStep
      <3>4. QED
        BY <3>2, <3>3 DEF ChangeMade
    <2>3. QED
      BY <1>5, <2>1, <2>2
  <1>10. ListsHold(ChangedBy(input, c.changes, strip).parent, input, lists)
    BY <1>3, <1>6, <1>7, <1>9, ListsAreKept
  <1>11. BoundToUser(point, user, ChangedBy(input, c.changes, strip).parent, input)
    BY <1>3, <1>7, <1>9, BoundFieldIsKept DEF lists, bound
  <1>12. QED
    BY <1>10, <1>11 DEF lists

\* So does what it makes of a method's output: no step of it withdraws the access.
LEMMA OutputKeeps ==
    ASSUME NEW point, NEW output, NestedFieldsMeet(OutputLists(point)), output \in Documents(OutputLists(point)),
           NEW mask, mask = ProcessOutputData(point, output), ~mask.thrown,
           NEW strip \in BOOLEAN, ~ChangedBy(output, mask.changes, strip).thrown
    PROVE  ListsHold(ChangedBy(output, mask.changes, strip).parent, output, OutputLists(point))
  <1> DEFINE lists  == OutputLists(point)
             start  == Checking(output)
             middle == Whitelist(start, lists.allowed)
  <1>1. mask = Blacklist(middle, lists.forbidden)
    BY DEF ProcessOutputData, OutputLists
  <1> HIDE DEF lists
  <1>2. NestedFieldsMeet(lists) /\ output \in Documents(lists)
    BY DEF lists
  <1>3. start \in CheckRecord(lists)
    BY <1>2, CheckingRecord
  <1>4. Goes(start) /\ start.granted
    BY DEF Goes, Checking
  <1>5. ~middle.thrown
    BY <1>1 DEF Blacklist, Goes
  <1>6. middle = SetMatched(start, MatchInputValues(start.data, lists.allowed), Keeping)
    BY <1>4 DEF Whitelist, Keeping
  <1> HIDE DEF middle, start
  <1>7. middle \in CheckRecord(lists) /\ middle.granted
    <2>1. lists.allowed \in {lists.allowed, lists.forbidden} /\ Keeping \in BOOLEAN
      BY ListKinds
    <2>2. ListApplied(start, SetMatched(start, MatchInputValues(start.data, lists.allowed), Keeping),
                      MatchedChanges(start.data, lists.allowed, Keeping), lists.allowed, Keeping, lists)
      BY <1>2, <1>3, <1>5, <1>6, <2>1, ListIsApplied
    <2>3. QED
      BY <1>4, <1>6, <2>2 DEF ListApplied
  <1>8. mask = SetMatched(middle, MatchInputValues(middle.data, lists.forbidden), Striking)
    BY <1>1, <1>5, <1>7 DEF Blacklist, Goes, Striking
  <1>9. mask.granted
    <2>1. lists.forbidden \in {lists.allowed, lists.forbidden} /\ Striking \in BOOLEAN
      BY ListKinds
    <2>2. ListApplied(middle, SetMatched(middle, MatchInputValues(middle.data, lists.forbidden), Striking),
                      MatchedChanges(middle.data, lists.forbidden, Striking), lists.forbidden, Striking, lists)
      BY <1>2, <1>7, <1>8, <2>1, ListIsApplied
    <2>3. QED
      BY <1>7, <1>8, <2>2 DEF ListApplied
  <1>10. Goes(mask)
    BY <1>9 DEF Goes
  <1>11. Started(start, output, lists)
    BY DEF Started, start
  <1>12. mask = Blacklist(Whitelist(start, lists.allowed), lists.forbidden)
    BY <1>1 DEF middle
  <1>13. ListsHold(ChangedBy(output, mask.changes, strip).parent, output, lists)
    BY <1>2, <1>3, <1>10, <1>11, <1>12, ListsAreKept
  <1>14. QED
    BY <1>13 DEF lists

\* A method is given the request's data with the changes that grant the access
\* made, a caller its output with those of the same point.
GivenAndShown(answer, input, changes, point, output) ==
    LET given  == ChangedBy(input, changes, Options.strip)
        mask   == ProcessOutputData(point, output)
        shown  == ChangedBy(output, mask.changes, FALSE)
    IN  /\ ~given.thrown /\ answer.input = given.parent
        /\ answer.status = "200" /\ HasProperties(output) =>
               ~mask.thrown /\ ~shown.thrown /\ answer.output = shown.parent

\* Whoever runs a method gave it data that were checked.
LEMMA AnswerOfData ==
    ASSUME NEW input, NEW access, NEW output, CheckedFor(input, access, output).input # None
    PROVE  GivenAndShown(CheckedFor(input, access, output), input, access.changes, access.point, output)
  <1> DEFINE answer == CheckedFor(input, access, output)
             given  == ChangedBy(input, access.changes, Options.strip)
             mask   == ProcessOutputData(access.point, output)
             shown  == ChangedBy(output, mask.changes, FALSE)
  <1>1. answer = Checked(access, given, output)
    BY DEF CheckedFor
  <1>2. MaskedBy(given.parent, output, mask) = Masked(given.parent, output, mask, shown)
    BY DEF MaskedBy
  <1>3. answer.input # None
    OBVIOUS
  <1> HIDE DEF answer, given, mask, shown
  <1>4. ~given.thrown /\ answer = MaskedBy(given.parent, output, mask)
    BY <1>1, <1>3 DEF Checked, Failed, Answer, mask
  <1>5. answer = Masked(given.parent, output, mask, shown)
    BY <1>2, <1>4
  <1>6. answer.input = given.parent
    BY <1>5 DEF Masked, Answer
  <1>7. answer.status = "200" /\ HasProperties(output) => ~mask.thrown /\ ~shown.thrown /\ answer.output = shown.parent
    BY <1>5 DEF Masked, Answer
  <1>8. QED
    BY <1>4, <1>6, <1>7 DEF answer, given, mask, shown, GivenAndShown

\* Data and a user's points as they may be in an exchange.
Exchanged(request, output, points, user) ==
    \A i \in DOMAIN points :
        /\ ConditionsReadAsSelected(points[i], user, request.input) /\ BindsFields(points[i], user, request.input)
        /\ NestedFieldsMeet(InputLists(points[i])) /\ request.input \in Documents(InputLists(points[i]))
        /\ NestedFieldsMeet(OutputLists(points[i]))
        /\ HasProperties(output) => output \in Documents(OutputLists(points[i]))

\* Every answer of the chain keeps to the lists of one granting point.
LEMMA AnswerAsAllowed ==
    ASSUME NEW S, NEW request, NEW config, NEW at, NEW output, request.input # None,
           UserOf(request) # None =>
               UserOf(request).points \in Seq(S) /\ Exchanged(request, output, UserOf(request).points, UserOf(request))
    PROVE  DataAsAllowed(request, config, at, output, Handle(request, config, at, output))
  <1> DEFINE locals == Authorize(request, config)
             user   == UserOf(request)
             answer == Handle(request, config, at, output)
             access == CheckAccess(request.input, user, at)
             check  == [i \in DOMAIN user.points |-> CheckPoint(request.input, user.data, user.points[i])]
             Keeps(p) == /\ ListsHold(answer.input, request.input, InputLists(p))
                         /\ BoundToUser(p, user, answer.input, request.input)
                         /\ answer.status = "200" /\ HasProperties(output) =>
                                ListsHold(answer.output, output, OutputLists(p))
  <1>1. SUFFICES ASSUME answer.input # None, ~IsAnonymous(request, config)
                 PROVE  \E i \in DOMAIN user.points : /\ GrantedBy(i, user, request.input, at)
                                                      /\ Keeps(user.points[i])
    BY DEF DataAsAllowed
  <1>2. request.method # "options" /\ locals.status = "next" /\ ~locals.isAnonymous
    BY <1>1, AuthorizedUser DEF Handle, Failed, Answer
  <1>3. at.moduleName # None /\ locals.user # None
    BY <1>1, <1>2 DEF Handle, Intercept, Failed, Answer
  <1>4. locals.user = user /\ user # None
    BY <1>3, AuthorizedUser
  <1>5. answer = CheckedFor(request.input, access, output)
    BY <1>2, <1>3, <1>4 DEF Handle, Intercept
  <1>6. user.points \in Seq(S) /\ Exchanged(request, output, user.points, user)
    BY <1>4
  <1>7. access = Decision(user.points, check, at)
    BY DEF CheckAccess
  <1>8. access.hasAccess /\ ~access.thrown
    BY <1>1, <1>5, AnswerOfCheck
  <1>9. PICK i \in DOMAIN user.points : /\ Concerns(user.points[i], at) /\ Goes(check[i])
                                        /\ access.changes = check[i].changes /\ access.point = user.points[i]
                                        /\ \A j \in 1 .. i - 1 : Concerns(user.points[j], at) => ~check[j].granted
    <2> HIDE DEF access, user, check
    <2>1. QED
      BY <1>6, <1>7, <1>8, DecisionOfPoint
  <1> DEFINE point == user.points[i]
             c     == check[i]
             mask  == ProcessOutputData(point, output)
             strip == FALSE
             given == ChangedBy(request.input, c.changes, Options.strip)
             shown == ChangedBy(output, mask.changes, strip)
  <1>10. c = CheckPoint(request.input, user.data, point)
    OBVIOUS
  <1>11. /\ ~given.thrown /\ answer.input = given.parent
         /\ answer.status = "200" /\ HasProperties(output) =>
                ~mask.thrown /\ ~shown.thrown /\ answer.output = shown.parent
    <2>1. CheckedFor(request.input, access, output).input # None
      BY <1>1, <1>5
    <2>2. access.changes = c.changes /\ access.point = point
      BY <1>9
    <2> HIDE DEF access, answer, c, point, check, user
    <2>3. GivenAndShown(answer, request.input, access.changes, access.point, output)
      BY <1>5, <2>1, AnswerOfData
    <2>4. GivenAndShown(answer, request.input, c.changes, point, output)
      BY <2>2, <2>3
    <2>5. QED
      BY <2>4 DEF GivenAndShown
  <1>12. strip \in BOOLEAN /\ Options.strip \in BOOLEAN
    BY DEF Options
  <1>13. /\ ConditionsReadAsSelected(point, user, request.input) /\ BindsFields(point, user, request.input)
         /\ NestedFieldsMeet(InputLists(point)) /\ request.input \in Documents(InputLists(point))
         /\ NestedFieldsMeet(OutputLists(point))
         /\ HasProperties(output) => output \in Documents(OutputLists(point))
    BY <1>6 DEF Exchanged
  <1>14. Goes(c) /\ Concerns(point, at)
    BY <1>9
  <1>19. GrantedBy(i, user, request.input, at)
    <2>1. StaticDataHold(point, user, request.input) /\ UserFieldHolds(point, user, request.input)
      <3>1. Goes(CheckPoint(request.input, user.data, point))
        BY <1>10, <1>14
      <3> HIDE DEF c, point, mask, answer, user, access, check, locals
      <3>2. QED
        BY <1>13, <3>1, PointGranted
    <2>2. \A j \in 1 .. i - 1 : j \in DOMAIN user.points
      BY <1>6
    <2>3. QED
      BY <1>9, <1>14, <2>1, <2>2 DEF GrantedBy
  <1> HIDE DEF c, point, mask, strip, answer, user, access, check, locals
  <1>15. /\ ListsHold(given.parent, request.input, InputLists(point))
         /\ BoundToUser(point, user, given.parent, request.input)
    BY <1>10, <1>11, <1>12, <1>13, <1>14, PointKeeps
  <1>16. answer.status = "200" /\ HasProperties(output) => ListsHold(answer.output, output, OutputLists(point))
    BY <1>11, <1>12, <1>13, OutputKeeps DEF mask
  <1>17. Keeps(point)
    BY <1>11, <1>15, <1>16
  <1>18. QED
    BY <1>17, <1>19 DEF point

\* So does every exchange.
LEMMA AnsweredKeeps == Answered => KeepsToLists
  <1>1. SUFFICES ASSUME NEW e \in Exchanges,
                        exchange = [asked |-> e, answer |-> Handle(e.request, e.config, e.at, e.output)]
                 PROVE  DataAsAllowed(e.request, e.config, e.at, e.output, Handle(e.request, e.config, e.at, e.output))
    BY DEF Answered, KeepsToLists
  <1> DEFINE user == UserOf(e.request)
  <1>2. /\ e.request.input # None
        /\ user # None =>
               /\ user.points \in Seq(ToSet(user.points))
               /\ \A i \in DOMAIN user.points :
                      /\ ConditionsReadAsSelected(user.points[i], user, e.request.input)
                      /\ e.request.input \in Documents(InputLists(user.points[i]))
                      /\ HasProperties(e.output) => e.output \in Documents(OutputLists(user.points[i]))
                      /\ BindsFields(user.points[i], user, e.request.input)
    BY ExchangesAssumption
  <1>3. ASSUME user # None, NEW i \in DOMAIN user.points
        PROVE  NestedFieldsMeet(InputLists(user.points[i])) /\ NestedFieldsMeet(OutputLists(user.points[i]))
    <2>1. user \in {UserOf(x.request) : x \in Exchanges} \ {None}
      BY <1>3
    <2>2. {InputLists(user.points[i]), OutputLists(user.points[i])} \subseteq ListsOf(user.points)
      BY <1>3 DEF ListsOf
    <2>3. ListsOf(user.points) \subseteq AllLists
      BY <2>1 DEF AllLists
    <2>4. QED
      BY <2>2, <2>3, NestedFieldsAssumption
  <1>4. user # None => Exchanged(e.request, e.output, user.points, user)
    BY <1>2, <1>3 DEF Exchanged
  <1>5. QED
    BY <1>2, <1>4, AnswerAsAllowed

\* Whatever is asked of the chain, what a method is given keeps to the lists of
\* a point that grants the access, the field bound to the user holds the user's
\* values, and what the caller is answered keeps to the lists of the same point
\* (checkAccess, processOutputData, the interceptor).
THEOREM DataKeepsToLists == Service => []KeepsToLists
  <1>1. Idle => Answered
    BY DEF Idle, Answered
  <1>2. Answered /\ [Serve]_exchange => Answered'
    BY DEF Answered, Serve
  <1>3. QED
    BY <1>1, <1>2, AnsweredKeeps, PTL DEF Service
=============================================================================
