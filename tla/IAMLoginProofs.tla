---------------------------- MODULE IAMLoginProofs ----------------------------
(***************************************************************************)
(* Proofs about IAMLogin for any clients, emails, users, auth services,    *)
(* lifetimes and numbers of calls, and any faults.                         *)
(***************************************************************************)
EXTENDS IAMLogin, WellFoundedInduction, TLAPS

\* A set of numbers has a least one.
LEMMA Least ==
  ASSUME NEW T \in SUBSET Nat, T # {}
  PROVE  \E x \in T : \A y \in T : x <= y
<1>1. PICK R : R = {p \in Nat \X Nat : p[1] < p[2]} /\ IsWellFoundedOn(R, Nat)
  BY NatLessThanWellFounded DEF OpToRel
<1>2. PICK x \in T : \A y \in T : ~ (<<y, x>> \in R)
  BY <1>1, WFMin
<1>3. ASSUME NEW y \in T
      PROVE  x <= y
  <2>1. x \in Nat /\ y \in Nat /\ <<y, x>> \in Nat \X Nat /\ <<y, x>> \notin R
    BY <1>2
  <2>2. ~(y < x)
    BY <1>1, <2>1
  <2>. QED
    BY <2>1, <2>2
<1>. QED
  BY <1>3

-----------------------------------------------------------------------------
(* The shape of the state: what a client has at hand at each await.        *)

CreateAwaits == {"purgeFind", "purgeRemove", "save"}

Keyed(s) == s.auth = "local" => s.id # None

\* a login knows what its next step needs
LoginShape(c) ==
  login[c] # None =>
    LET s == login[c]
    IN  /\ request[c] = None
        /\ pc[c] \notin {"idle", "refreshExternal"}
        /\ pc[c] # "populate" => s.email \in Emails
        /\ s.id # None => s.id \in DOMAIN users
        /\ pc[c] \in CreateAwaits \cup {"findAgain", "mfa", "getUser"} => s.id # None
        /\ pc[c] \in {"populate", "restore"} => Keyed(s)
        /\ pc[c] = "populate" /\ s.auth # "local" => s.call \in Calls
        /\ pc[c] \in {"findUser", "findAgain", "mfa"} => s.auth = "local"
        /\ pc[c] \in {"exchange", "findByEmail", "createUser", "getUser"} => s.auth # "local"

\* a request under way is one that renews
RequestShape(c) ==
  request[c] # None =>
    /\ SentRefresh(request[c]) # None
    /\ pc[c] \in CreateAwaits \cup {"refreshExternal"}
    /\ creating[c] # None => creating[c].type = "access"

Shape(c) ==
  /\ LoginShape(c)
  /\ RequestShape(c)
  /\ creating[c] # None <=> pc[c] \in CreateAwaits
  /\ pc[c] = "refreshExternal" => request[c] # None
  /\ pc[c] \in {"restore", "exchange", "findByEmail", "createUser", "getUser"} => login[c] # None

UsersShape == users \in Seq(Rows)

CacheShape == \A k \in StateKeys : cache[k] \in Calls \cup SentVerifiers \cup {None}

PendingShape == \A p \in pending : p.auth # "local" => p.call \in Calls

Typed ==
  /\ TypeOK
  /\ UsersShape
  /\ CacheShape
  /\ PendingShape
  /\ \A c \in Clients : Shape(c)

\* A client's step leaves the others as they are, when rows of the users table only come.
LEMMA OthersShape ==
  ASSUME Typed, NEW c \in Clients, Shape(c)', DOMAIN users \subseteq DOMAIN users',
         \A d \in Clients \ {c} : /\ pc'[d] = pc[d] /\ login'[d] = login[d]
                                  /\ request'[d] = request[d] /\ creating'[d] = creating[d]
  PROVE  \A d \in Clients : Shape(d)'
  BY DEF Typed, Shape, LoginShape, RequestShape, CreateAwaits, Keyed, SentRefresh

LEMMA UserRows ==
  ASSUME UsersShape, Len(users) <= MaxUsers
  PROVE  /\ DOMAIN users = 1 .. Len(users)
         /\ Len(users) \in Nat
         /\ DOMAIN users \subseteq UserIds
         /\ \A id \in DOMAIN users : users[id] \in Rows
<1>1. MaxUsers \in Nat
  BY TokensAssumption
<1>2. DOMAIN users = 1 .. Len(users) /\ Len(users) \in Nat
  BY DEF UsersShape
<1>3. \A id \in DOMAIN users : users[id] \in Rows
  BY DEF UsersShape
<1>. QED
  BY <1>1, <1>2, <1>3 DEF UserIds

\* findOne answers a row of the email or none.
LEMMA FirstRowIsOne ==
  ASSUME UsersShape, NEW email
  PROVE  /\ FirstRow(email) # 0 => /\ FirstRow(email) \in DOMAIN users
                                   /\ users[FirstRow(email)].email = email
                                   /\ \A j \in 1 .. (FirstRow(email) - 1) : users[j].email # email
         /\ FirstRow(email) = 0 => \A id \in DOMAIN users : users[id].email # email
<1>. DEFINE T == {id \in DOMAIN users : users[id].email = email}
<1>0. DOMAIN users = 1 .. Len(users) /\ Len(users) \in Nat
  BY DEF UsersShape
<1>1. CASE T = {}
  BY <1>1, <1>0 DEF FirstRow
<1>2. CASE T # {}
  <2>0. T \in SUBSET Nat
    BY <1>0
  <2>1. PICK x \in T : \A y \in T : x <= y
    <3>. HIDE DEF T
    <3>. QED
      BY <2>0, <1>2, Least
  <2>2. \A j \in 1 .. (x - 1) : users[j].email # email
    BY <1>0, <2>1
  <2>3. FirstRow(email) = CHOOSE id \in DOMAIN users :
                            /\ users[id].email = email
                            /\ \A j \in 1 .. (id - 1) : users[j].email # email
    BY <1>2 DEF FirstRow
  <2>4. /\ FirstRow(email) \in DOMAIN users
        /\ users[FirstRow(email)].email = email
        /\ \A j \in 1 .. (FirstRow(email) - 1) : users[j].email # email
    BY <2>1, <2>2, <2>3
  <2>. QED
    BY <1>0, <2>4
<1>. QED
  BY <1>1, <1>2

LEMMA ExpiryType ==
  ASSUME TypeOK, NEW minutes \in Nat
  PROVE  Expiry(minutes) \in Nat \cup {None}
  BY TokensAssumption DEF TypeOK, TokensTypeOK, Expiry

\* the tokens of a login
LEMMA TokenTypesOfLogin ==
  ASSUME TypeOK, NEW s \in Steps, s.id \in UserIds
  PROVE  /\ RefreshToken(s) \in RefreshTokens
         /\ \A refresh \in RefreshTokens \cup {None} : AccessToken(s, refresh) \in AccessTokens
<1>1. Expiry(RefreshLifetime) \in Nat \cup {None}
  BY ExpiryType, TokensAssumption
<1>2. Expiry(IF s.access = None THEN AccessLifetime ELSE 60 * ExternalLifetime) \in Nat \cup {None}
  BY ExpiryType, TokensAssumption
<1>3. /\ s.refresh \in Emails \cup {None} /\ s.access \in ExternalTokens \cup {None}
      /\ s.version \in Nat
  BY DEF Steps
<1>4. RefreshToken(s) \in RefreshTokens
  BY <1>1, <1>3 DEF RefreshToken, RefreshTokens
<1>5. ASSUME NEW refresh \in RefreshTokens \cup {None}
      PROVE  AccessToken(s, refresh) \in AccessTokens
  BY <1>2, <1>3, <1>5 DEF AccessToken, AccessTokens
<1>. QED
  BY <1>4, <1>5

LEMMA RenewedType ==
  ASSUME TypeOK, NEW r \in Requests, SentRefresh(r) # None, NEW external \in ExternalTokens
  PROVE  /\ Renewed(r, external) \in AccessTokens
         /\ SentRefresh(r) \in RefreshTokens
<1>1. Expiry(AccessLifetime) \in Nat \cup {None}
  BY ExpiryType, TokensAssumption
<1>2. r.pair \in Pairs /\ r.pair.access \in AccessTokens
  BY DEF Requests, Pairs
<1>3. SentRefresh(r) \in RefreshTokens
  BY DEF SentRefresh, Requests
<1>4. Renewed(r, external) \in AccessTokens
  BY <1>1, <1>2, <1>3 DEF Renewed, AccessTokens
<1>. QED
  BY <1>3, <1>4

\* any access token handed out, with any refresh token handed out or none
LEMMA SentType ==
  ASSUME TypeOK, NEW p \in issued, NEW refresh \in {q.refresh : q \in issued} \cup {None}
  PROVE  [pair |-> p, refresh |-> refresh, at |-> now] \in Requests
<1>1. now \in Nat /\ \A q \in issued : q \in Pairs /\ q.refresh \in RefreshTokens \cup {None}
  BY TokensAssumption DEF TypeOK, TokensTypeOK, Pairs
<1>. QED
  BY <1>1 DEF Requests

LEMMA FirstStepType ==
  ASSUME LoginAssumption, NEW auth \in AuthTypes, NEW email \in Emails \cup {None},
         NEW mfa \in BOOLEAN, NEW n \in Calls
  PROVE  FirstStep(auth, email, mfa, n) \in Steps
  BY DEF FirstStep, Steps, Calls, SentVerifiers, NoVerifier, Unknown, WithPKCE

LEMMA SecondStepType ==
  ASSUME NEW auth \in AuthTypes, NEW email \in Emails, NEW mfa \in BOOLEAN,
         NEW state \in Calls \cup {Unknown}, NEW code \in Calls \cup {Unknown},
         NEW verifier \in SentVerifiers, NEW seen \in Nat
  PROVE  SecondStep(auth, email, mfa, state, code, verifier, seen) \in Steps
  BY DEF SecondStep, Steps

LEMMA StartedType ==
  ASSUME NEW n \in 1 .. Len(StartedLogins)
  PROVE  /\ n \in Calls
         /\ StartedLogins[n] \in AuthTypes \ {"local"}
         /\ FirstStep(StartedLogins[n], None, FALSE, n) \in Steps
<1>1. n \in Calls /\ StartedLogins[n] \in AuthTypes \ {"local"}
  BY LoginAssumption DEF Calls
<1>. QED
  BY <1>1, LoginAssumption, FirstStepType

LEMMA InitTyped == Init => Typed
<1>. SUFFICES ASSUME Init
              PROVE  Typed
  OBVIOUS
<1>1. users \in Seq(Rows) /\ Len(users) <= MaxUsers /\ \A id \in DOMAIN users : users[id] \in Rows
  BY LoginAssumption DEF Init
<1>2. calls \in 0 .. MaxCalls /\ calls = Len(StartedLogins)
  BY LoginAssumption DEF Init
<1>3. ASSUME NEW p \in pending
      PROVE  p \in Steps /\ p.auth # "local" /\ p.call \in Calls /\ CacheKey(p) = <<"state", p.call>>
  <2>1. PICK n \in 1 .. Len(StartedLogins) : p = FirstStep(StartedLogins[n], None, FALSE, n)
    BY <1>2, <1>3 DEF Init
  <2>. QED
    BY <2>1, StartedType DEF FirstStep, CacheKey
<1>4. cache \in [StateKeys \cup UserKeys -> Nat \cup {None}] /\ CacheShape
  <2>1. cache = [k \in StateKeys \cup UserKeys |->
                   IF \E s \in pending : k = CacheKey(s) /\ WithPKCE(s.auth) THEN k[2] ELSE None]
    BY DEF Init
  <2>2. \A k \in StateKeys : k[2] \in Calls \cup {0}
    BY DEF StateKeys
  <2>3. CacheShape
    BY <2>1, <2>2 DEF CacheShape, SentVerifiers, NoVerifier
  <2>4. \A k \in StateKeys \cup UserKeys : k[2] \in Nat
    <3>1. \A k \in StateKeys : k[2] \in Nat
      BY DEF StateKeys, Calls
    <3>2. \A k \in UserKeys : k[2] \in Nat
      BY DEF UserKeys, UserIds
    <3>. QED
      BY <3>1, <3>2
  <2>5. cache \in [StateKeys \cup UserKeys -> Nat \cup {None}]
    BY <2>1, <2>4
  <2>. QED
    BY <2>3, <2>5
<1>5. TokensTypeOK
  BY TokensAssumption DEF Init, TokensInit, TokensTypeOK
<1>6. TypeOK
  BY <1>1, <1>2, <1>3, <1>4, <1>5 DEF Init, TokensInit, TypeOK
<1>7. ASSUME NEW c \in Clients
      PROVE  Shape(c)
  BY <1>7 DEF Init, TokensInit, Shape, LoginShape, RequestShape, CreateAwaits
<1>. QED
  BY <1>1, <1>3, <1>4, <1>6, <1>7 DEF Typed, UsersShape, PendingShape

-----------------------------------------------------------------------------
(* Every step keeps the types and the shape.                               *)

Awaits ==
  {"idle", "purgeFind", "purgeRemove", "save", "refreshExternal", "findUser", "findAgain",
   "restore", "mfa", "exchange", "findByEmail", "createUser", "getUser", "populate"}

\* What a step of client c may do to the clients' variables.
Alone(c) ==
  \A d \in Clients \ {c} : /\ pc'[d] = pc[d] /\ login'[d] = login[d]
                           /\ request'[d] = request[d] /\ creating'[d] = creating[d]

LEMMA MoveTyped ==
  ASSUME Typed, NEW c \in Clients, NEW s \in Steps \cup {None}, NEW to \in Awaits, Move(c, s, to)
  PROVE  /\ pc' \in [Clients -> Awaits] /\ pc'[c] = to
         /\ login' \in [Clients -> Steps \cup {None}] /\ login'[c] = s
         /\ \A d \in Clients \ {c} : pc'[d] = pc[d] /\ login'[d] = login[d]
  BY DEF Typed, TypeOK, Move, Awaits

LEMMA CreateTyped ==
  ASSUME Typed, NEW c \in Clients, NEW token \in Tokens, Create(c, token)
  PROVE  /\ pc' \in [Clients -> Awaits] /\ pc'[c] = "purgeFind"
         /\ creating' \in [Clients -> Tokens \cup {None}] /\ creating'[c] = token
         /\ \A d \in Clients \ {c} : pc'[d] = pc[d] /\ creating'[d] = creating[d]
  BY DEF Typed, TypeOK, TokensTypeOK, Create, Awaits

\* what a step that only moves a login on must show
LEMMA Moved ==
  ASSUME Typed, NEW c \in Clients, NEW s \in Steps \cup {None}, NEW to \in Awaits \ CreateAwaits,
         Move(c, s, to), UNCHANGED Unissued, UNCHANGED <<users, cache, pending>>,
         redeemed' \subseteq Calls, calls' \in 0 .. MaxCalls, overlaps' \subseteq Emails \cup UserIds,
         Shape(c)'
  PROVE  Typed'
<1>1. /\ pc' \in [Clients -> Awaits] /\ login' \in [Clients -> Steps \cup {None}]
      /\ \A d \in Clients \ {c} : pc'[d] = pc[d] /\ login'[d] = login[d]
  BY MoveTyped
<1>2. \A d \in Clients : Shape(d)'
  BY <1>1, OthersShape DEF Unissued
<1>3. TokensTypeOK'
  BY DEF Typed, TypeOK, TokensTypeOK, Unissued
<1>4. TypeOK'
  BY <1>1, <1>3 DEF Typed, TypeOK, Awaits
<1>. QED
  BY <1>2, <1>4 DEF Typed, UsersShape, CacheShape, PendingShape

\* EndByThrow, with whatever happened to the stored tokens
LEMMA ThrowTyped ==
  ASSUME Typed, NEW c \in Clients, EndByThrow(c), login' = [login EXCEPT ![c] = None],
         UNCHANGED <<now, issued>>, stored' \in [UserIds -> [TokenTypes -> Tokens \cup {None}]],
         \A u \in UserIds, t \in TokenTypes : stored'[u][t] # None => stored'[u][t].type = t,
         UNCHANGED <<users, pending>>, cache' \in [StateKeys \cup UserKeys -> Nat \cup {None}],
         CacheShape', redeemed' \subseteq Calls, calls' \in 0 .. MaxCalls,
         overlaps' \subseteq Emails \cup UserIds
  PROVE  Typed'
<1>1. /\ pc' \in [Clients -> Awaits] /\ pc'[c] = "idle"
      /\ login' \in [Clients -> Steps \cup {None}] /\ login'[c] = None
      /\ creating' \in [Clients -> Tokens \cup {None}] /\ creating'[c] = None
      /\ request' \in [Clients -> Requests \cup {None}] /\ request'[c] = None
      /\ Alone(c)
  BY DEF Typed, TypeOK, TokensTypeOK, EndByThrow, Awaits, Alone
<1>2. Shape(c)'
  BY <1>1 DEF Shape, LoginShape, RequestShape, CreateAwaits
<1>3. \A d \in Clients : Shape(d)'
  BY <1>1, <1>2, OthersShape DEF Alone
<1>4. disturbed' \subseteq UserIds
  <2>1. creating[c] # None => creating[c].user \in UserIds
    BY DEF Typed, TypeOK, TokensTypeOK, Tokens, AccessTokens, RefreshTokens
  <2>. QED
    BY <2>1 DEF EndByThrow, Typed, TypeOK, TokensTypeOK
<1>5. response' \in [Clients -> Responses \cup {None}]
  BY DEF EndByThrow, Typed, TypeOK, TokensTypeOK
<1>6. TokensTypeOK'
  BY <1>1, <1>4, <1>5 DEF Typed, TypeOK, TokensTypeOK
<1>7. TypeOK'
  BY <1>1, <1>6 DEF Typed, TypeOK, Awaits
<1>. QED
  BY <1>3, <1>7 DEF Typed, UsersShape, CacheShape, PendingShape

\* createAccessToken begins a token of a user that is known
LEMMA IssueTyped ==
  ASSUME Typed, NEW c \in Clients, NEW s \in Steps, s.id \in DOMAIN users, s.email \in Emails,
         request[c] = None,
         IssueTokens(c, s), UNCHANGED <<users, cache, pending>>,
         redeemed' \subseteq Calls, calls' \in 0 .. MaxCalls, overlaps' \subseteq Emails \cup UserIds
  PROVE  Typed'
<1>. DEFINE token == IF s.refresh # None \/ s.access = None THEN RefreshToken(s) ELSE AccessToken(s, None)
<1>1. s.id \in UserIds
  BY UserRows DEF Typed, TypeOK
<1>2. token \in Tokens
  BY <1>1, TokenTypesOfLogin DEF Typed, Tokens
<1>3. /\ pc' \in [Clients -> Awaits] /\ pc'[c] = "purgeFind"
      /\ creating' \in [Clients -> Tokens \cup {None}] /\ creating'[c] = token
      /\ \A d \in Clients \ {c} : pc'[d] = pc[d] /\ creating'[d] = creating[d]
  <2>1. Create(c, token)
    BY DEF IssueTokens
  <2>. HIDE DEF token
  <2>. QED
    BY <1>2, <2>1, CreateTyped
<1>4. /\ login' \in [Clients -> Steps \cup {None}] /\ login'[c] = s
      /\ \A d \in Clients \ {c} : login'[d] = login[d]
  BY DEF IssueTokens, Typed, TypeOK
<1>5. UNCHANGED <<now, stored, request, issued, response>> /\ disturbed' \subseteq UserIds
  BY <1>1 DEF IssueTokens, Typed, TypeOK, TokensTypeOK
<1>. HIDE DEF token
<1>6. s # None /\ s.id # None /\ token # None
  BY <1>1, <1>2, NoStepAssumption, NoneAssumption DEF UserIds
<1>7. Shape(c)'
  BY <1>3, <1>4, <1>5, <1>6 DEF Shape, LoginShape, RequestShape, CreateAwaits
<1>8. \A d \in Clients : Shape(d)'
  BY <1>3, <1>4, <1>5, <1>7, OthersShape DEF Typed
<1>9. TokensTypeOK'
  BY <1>3, <1>5 DEF Typed, TypeOK, TokensTypeOK
<1>10. TypeOK'
  BY <1>3, <1>4, <1>9 DEF Typed, TypeOK, Awaits
<1>. QED
  BY <1>8, <1>10 DEF Typed, UsersShape, CacheShape, PendingShape

LEMMA FailedTyped ==
  ASSUME Typed, NEW c \in Clients, Throw(c), UNCHANGED <<useHashmap, now, stored, issued>>,
         UNCHANGED <<users, cache, pending>>,
         redeemed' \subseteq Calls, calls' \in 0 .. MaxCalls, overlaps' \subseteq Emails \cup UserIds
  PROVE  Typed'
<1>1. CacheShape'
  BY DEF Typed, CacheShape
<1>. QED
  BY <1>1, ThrowTyped DEF Throw, Typed, TypeOK, TokensTypeOK

LEMMA InitiateTyped ==
  ASSUME Typed, NEW c \in Clients, NEW auth \in AuthTypes, NEW email \in Emails \cup {None},
         NEW mfa \in BOOLEAN, auth = "local" => email \in Emails, Initiate(c, auth, email, mfa)
  PROVE  Typed'
<1>. DEFINE s == FirstStep(auth, email, mfa, calls + 1)
            to == IF auth = "local" THEN "findUser" ELSE "populate"
<1>1. calls + 1 \in Calls /\ calls' = calls + 1 /\ pc[c] = "idle"
  BY LoginAssumption DEF Initiate, Start, Typed, TypeOK, Calls
<1>2. /\ s \in Steps /\ s.auth = auth /\ s.email = email /\ s.id = None
      /\ (auth # "local" => s.call \in Calls)
  BY <1>1, LoginAssumption, FirstStepType DEF FirstStep
<1>3. Move(c, s, to) /\ UNCHANGED <<Unissued, users, cache, redeemed, overlaps, pending>>
  BY DEF Initiate, Start, FirstStep
<1>4. pc'[c] = to /\ login'[c] = s /\ request'[c] = None /\ creating'[c] = None
  <2>. HIDE DEF s
  <2>1. request[c] = None /\ creating[c] = None
    BY <1>1 DEF Typed, Shape, RequestShape, CreateAwaits
  <2>. QED
    BY <1>2, <1>3, <2>1, MoveTyped DEF Awaits, Unissued
<1>. HIDE DEF s
<1>5. Shape(c)'
  BY <1>2, <1>4 DEF Shape, LoginShape, RequestShape, CreateAwaits, Keyed
<1>6. /\ redeemed' \subseteq Calls /\ calls' \in 0 .. MaxCalls /\ overlaps' \subseteq Emails \cup UserIds
      /\ to \in Awaits \ CreateAwaits
  BY <1>1, <1>3 DEF Typed, TypeOK, Calls, Awaits, CreateAwaits
<1>. HIDE DEF to
<1>. QED
  BY <1>2, <1>3, <1>5, <1>6, Moved

LEMMA SecondTyped ==
  ASSUME Typed, NEW c \in Clients, NEW t \in Steps, t.email \in Emails, t.step = "complete",
         t.id = None, Start(c, t), UNCHANGED pending
  PROVE  Typed'
<1>. DEFINE to == IF t.auth = "local" THEN "findUser" ELSE "restore"
<1>1. calls + 1 \in Calls /\ calls' = calls + 1 /\ pc[c] = "idle"
  BY LoginAssumption DEF Start, Typed, TypeOK, Calls
<1>2. Move(c, t, to) /\ UNCHANGED <<Unissued, users, cache, redeemed, overlaps, pending>>
  BY DEF Start, Move
<1>3. pc'[c] = to /\ login'[c] = t /\ request'[c] = None /\ creating'[c] = None
  <2>1. request[c] = None /\ creating[c] = None
    BY <1>1 DEF Typed, Shape, RequestShape, CreateAwaits
  <2>. QED
    BY <1>2, <2>1, MoveTyped DEF Awaits, Unissued
<1>4. Shape(c)'
  BY <1>3, NoStepAssumption DEF Shape, LoginShape, RequestShape, CreateAwaits, Keyed
<1>5. /\ redeemed' \subseteq Calls /\ calls' \in 0 .. MaxCalls /\ overlaps' \subseteq Emails \cup UserIds
      /\ to \in Awaits \ CreateAwaits
  BY <1>1, <1>2 DEF Typed, TypeOK, Calls, Awaits, CreateAwaits
<1>. HIDE DEF to
<1>. QED
  BY <1>2, <1>4, <1>5, Moved

\* the second steps are those a client can send
LEMMA CompleteIs ==
  ASSUME Typed, NEW c \in Clients, NEW email \in Emails
  PROVE  /\ \A mfa \in BOOLEAN : ("local" \in AuthTypes /\ CompleteLocal(c, email, mfa)) =>
              \E t \in Steps : /\ t.auth = "local" /\ t.email = email /\ t.step = "complete"
                               /\ t.id = None /\ t.verifier = NoVerifier
                               /\ t.access = None /\ t.refresh = None
                               /\ \/ t.seen = 0
                                  \/ \E p \in pending : p.auth = "local" /\ p.email = email /\ p.seen = t.seen
                               /\ Start(c, t) /\ UNCHANGED pending
         /\ \A auth \in AuthTypes \ {"local"} : CompleteRemote(c, auth, email) =>
              \E t \in Steps : /\ t.auth = auth /\ t.email = email /\ t.step = "complete"
                               /\ t.id = None /\ t.verifier \in SentVerifiers
                               /\ t.access = None /\ t.refresh = None /\ t.seen = 0
                               /\ (t.call = Unknown \/ \E p \in pending : p.auth # "local" /\ p.call = t.call)
                               /\ Start(c, t) /\ UNCHANGED pending
<1>0. pending \subseteq Steps
  BY DEF Typed, TypeOK
<1>1. ASSUME NEW mfa \in BOOLEAN, "local" \in AuthTypes, CompleteLocal(c, email, mfa)
      PROVE  \E t \in Steps : /\ t.auth = "local" /\ t.email = email /\ t.step = "complete"
                              /\ t.id = None /\ t.verifier = NoVerifier
                              /\ t.access = None /\ t.refresh = None
                              /\ \/ t.seen = 0
                                 \/ \E p \in pending : p.auth = "local" /\ p.email = email /\ p.seen = t.seen
                              /\ Start(c, t) /\ UNCHANGED pending
  <2>1. PICK seen \in {0} \cup {p.seen : p \in {q \in pending : q.auth = "local" /\ q.email = email}} :
          Start(c, SecondStep("local", email, mfa, Unknown, Unknown, NoVerifier, seen))
    BY <1>1 DEF CompleteLocal
  <2>. DEFINE t == SecondStep("local", email, mfa, Unknown, Unknown, NoVerifier, seen)
  <2>2. seen \in Nat
    BY <1>0, <2>1 DEF Steps
  <2>3. t \in Steps
    BY <1>1, <2>2, SecondStepType DEF SentVerifiers
  <2>4. /\ t.auth = "local" /\ t.email = email /\ t.step = "complete"
        /\ t.id = None /\ t.verifier = NoVerifier /\ t.seen = seen
        /\ t.access = None /\ t.refresh = None
    BY DEF SecondStep
  <2>5. Start(c, t) /\ UNCHANGED pending
    BY <1>1, <2>1 DEF CompleteLocal
  <2>. HIDE DEF t
  <2>. QED
    BY <2>1, <2>3, <2>4, <2>5
<1>2. ASSUME NEW auth \in AuthTypes \ {"local"}, CompleteRemote(c, auth, email)
      PROVE  \E t \in Steps : /\ t.auth = auth /\ t.email = email /\ t.step = "complete"
                              /\ t.id = None /\ t.verifier \in SentVerifiers
                              /\ t.access = None /\ t.refresh = None /\ t.seen = 0
                              /\ (t.call = Unknown \/ \E p \in pending : p.auth # "local" /\ p.call = t.call)
                              /\ Start(c, t) /\ UNCHANGED pending
  <2>1. PICK state \in {p.call : p \in {q \in pending : q.auth # "local"}} \cup {Unknown},
             code \in {p.call : p \in {q \in pending : q.auth # "local"}} \cup {Unknown},
             verifier \in SentVerifiers :
          Start(c, SecondStep(auth, email, FALSE, state, code, verifier, 0))
    BY <1>2 DEF CompleteRemote
  <2>. DEFINE t == SecondStep(auth, email, FALSE, state, code, verifier, 0)
  <2>2. state \in Calls \cup {Unknown} /\ code \in Calls \cup {Unknown}
    BY <1>0, <2>1 DEF Steps
  <2>3. t \in Steps
    BY <2>2, SecondStepType
  <2>4. /\ t.auth = auth /\ t.email = email /\ t.step = "complete"
        /\ t.id = None /\ t.verifier = verifier /\ t.seen = 0 /\ t.call = state
        /\ t.access = None /\ t.refresh = None
    BY DEF SecondStep
  <2>5. Start(c, t) /\ UNCHANGED pending
    BY <1>2, <2>1 DEF CompleteRemote
  <2>. HIDE DEF t
  <2>6. state = Unknown \/ \E p \in pending : p.auth # "local" /\ p.call = state
    BY <2>1
  <2>. QED
    BY <2>3, <2>4, <2>5, <2>6
<1>. QED
  BY <1>1, <1>2

\* the rows a login finds
LEMMA FoundType ==
  ASSUME Typed, NEW s \in Steps, NEW id \in DOMAIN users
  PROVE  /\ [s EXCEPT !.id = id, !.version = users[id].version] \in Steps
         /\ [s EXCEPT !.id = id, !.version = users[id].version, !.seen = users[id].version] \in Steps
         /\ [s EXCEPT !.version = users[id].version] \in Steps
<1>1. id \in UserIds /\ users[id].version \in Nat
  BY UserRows, LoginAssumption DEF Typed, TypeOK, Rows
<1>. QED
  BY <1>1 DEF Steps

LEMMA FindUserTyped ==
  ASSUME Typed, NEW c \in Clients, FindUser(c)
  PROVE  Typed'
<1>. DEFINE s == login[c]
            id == FirstRow(s.email)
            found == [s EXCEPT !.id = id, !.version = users[id].version]
            first == [found EXCEPT !.seen = users[id].version]
<1>1. /\ s \in Steps /\ s # None /\ s.email \in Emails /\ s.auth = "local" /\ request[c] = None
      /\ creating[c] = None
  BY DEF FindUser, At, Typed, TypeOK, Shape, LoginShape, CreateAwaits
<1>2. /\ redeemed' \subseteq Calls /\ calls' \in 0 .. MaxCalls /\ overlaps' \subseteq Emails \cup UserIds
      /\ UNCHANGED <<users, cache, pending>>
  BY DEF FindUser, Others, Typed, TypeOK
<1>3. CASE Throw(c) /\ UNCHANGED <<useHashmap, now, stored, issued>>
  BY <1>2, <1>3, FailedTyped
<1>4. ASSUME id # 0, NEW t \in {found, first}, NEW to \in {"mfa", "findAgain", "restore"},
             Move(c, t, to), UNCHANGED Unissued
      PROVE  Typed'
  <2>1. id \in DOMAIN users /\ id # None
    <3>1. id \in DOMAIN users
      BY <1>4, FirstRowIsOne DEF Typed
    <3>. QED
      BY <3>1, UserRows, NoneAssumption DEF Typed, TypeOK, UserIds
  <2>2. t \in Steps /\ t.email = s.email /\ t.auth = s.auth /\ t.id = id
    <3>1. found \in Steps /\ found.email = s.email /\ found.auth = s.auth /\ found.id = id
      BY <1>1, <2>1, FoundType DEF Steps
    <3>2. first \in Steps /\ first.email = s.email /\ first.auth = s.auth /\ first.id = id
      BY <1>1, <2>1, FoundType DEF Steps
    <3>. QED
      BY <3>1, <3>2
  <2>3. /\ pc'[c] = to /\ login'[c] = t /\ request'[c] = None /\ creating'[c] = None
        /\ to \in Awaits \ CreateAwaits
    BY <1>1, <1>4, <2>2, MoveTyped DEF Awaits, CreateAwaits, Unissued
  <2>. HIDE DEF id, found, first
  <2>4. Shape(c)'
    <3>1. t.id # None /\ t.id \in DOMAIN users' /\ t # None
      BY <1>2, <2>1, <2>2, NoStepAssumption
    <3>. QED
      BY <1>1, <1>4, <2>2, <2>3, <3>1 DEF Shape, LoginShape, RequestShape, CreateAwaits, Keyed
  <2>. QED
    BY <1>2, <1>4, <2>2, <2>3, <2>4, Moved
<1>5. CASE id # 0 /\ s.step = "complete" /\ Move(c, found, "restore") /\ UNCHANGED Unissued
  BY <1>4, <1>5
<1>6. CASE id # 0 /\ LocalInitiate(c, first)
  <2>1. CASE Throw(c) /\ UNCHANGED <<useHashmap, now, stored, issued>>
    BY <1>3, <2>1
  <2>2. CASE Move(c, first, IF first.mfa THEN "mfa" ELSE "findAgain") /\ UNCHANGED Unissued
    <3>. HIDE DEF first, id
    <3>. QED
      BY <1>4, <1>6, <2>2
  <2>. QED
    BY <1>6, <2>1, <2>2 DEF LocalInitiate
<1>. QED
  BY <1>3, <1>5, <1>6 DEF FindUser

LEMMA KeyType ==
  ASSUME NEW s \in Steps, Keyed(s)
  PROVE  /\ s.auth = "local" => CacheKey(s) = <<"user", s.id>> /\ CacheKey(s) \in UserKeys
         /\ s.auth # "local" => CacheKey(s) = <<"state", s.call>> /\ CacheKey(s) \in StateKeys
  BY DEF Keyed, CacheKey, UserKeys, StateKeys, Steps, Unknown

\* what was cached changes the version or the verifier only
LEMMA RestoredType ==
  ASSUME NEW s \in Steps, NEW value,
         s.auth = "local" => value \in Nat \cup {None},
         s.auth # "local" => value \in Calls \cup SentVerifiers \cup {None}
  PROVE  LET t == Restore(s, value)
         IN  /\ t \in Steps
             /\ t.auth = s.auth /\ t.step = s.step /\ t.email = s.email /\ t.call = s.call
             /\ t.id = s.id /\ t.access = s.access /\ t.refresh = s.refresh /\ t.seen = s.seen
             /\ t.mfa = s.mfa /\ t.code = s.code
<1>1. CASE s.auth = "local" /\ value # None
  <2>1. Restore(s, value) = [s EXCEPT !.version = value] /\ value \in Nat
    BY <1>1 DEF Restore
  <2>. QED
    BY <2>1 DEF Steps
<1>2. CASE s.auth # "local" /\ value \notin {None, NoVerifier}
  <2>1. Restore(s, value) = [s EXCEPT !.verifier = value] /\ value \in Calls \cup SentVerifiers
    BY <1>2 DEF Restore
  <2>. QED
    BY <2>1 DEF Steps
<1>3. CASE ~(s.auth = "local" /\ value # None) /\ ~(s.auth # "local" /\ value \notin {None, NoVerifier})
  <2>1. Restore(s, value) = s
    BY <1>3 DEF Restore
  <2>. QED
    BY <2>1
<1>. QED
  BY <1>1, <1>2, <1>3

LEMMA RestoreType ==
  ASSUME Typed, NEW s \in Steps, Keyed(s)
  PROVE  LET t == Restore(s, cache[CacheKey(s)])
         IN  /\ t \in Steps
             /\ t.auth = s.auth /\ t.step = s.step /\ t.email = s.email /\ t.call = s.call
             /\ t.id = s.id /\ t.access = s.access /\ t.refresh = s.refresh /\ t.seen = s.seen
             /\ t.mfa = s.mfa /\ t.code = s.code
<1>1. s.auth = "local" => cache[CacheKey(s)] \in Nat \cup {None}
  BY KeyType DEF Typed, TypeOK
<1>2. s.auth # "local" => cache[CacheKey(s)] \in Calls \cup SentVerifiers \cup {None}
  BY KeyType DEF Typed, CacheShape
<1>. QED
  BY <1>1, <1>2, RestoredType

LEMMA RestoreCacheTyped ==
  ASSUME Typed, NEW c \in Clients, RestoreCache(c)
  PROVE  Typed'
<1>. DEFINE s == login[c]
            t == Restore(s, cache[CacheKey(s)])
            to == IF s.auth = "local" THEN "mfa" ELSE "exchange"
<1>1. /\ s \in Steps /\ s # None /\ s.email \in Emails /\ request[c] = None /\ Keyed(s)
      /\ creating[c] = None
      /\ s.id # None => s.id \in DOMAIN users
  BY DEF RestoreCache, At, Typed, TypeOK, Shape, LoginShape, CreateAwaits
<1>2. /\ redeemed' \subseteq Calls /\ calls' \in 0 .. MaxCalls /\ overlaps' \subseteq Emails \cup UserIds
      /\ UNCHANGED <<users, cache, pending>>
  BY DEF RestoreCache, Others, Typed, TypeOK
<1>3. t \in Steps /\ t.email = s.email /\ t.auth = s.auth /\ t.id = s.id
  BY <1>1, RestoreType
<1>. HIDE DEF t
<1>4. CASE s.auth = "local" /\ IssueTokens(c, t)
  BY <1>1, <1>2, <1>3, <1>4, IssueTyped DEF Keyed
<1>5. CASE Move(c, t, to) /\ UNCHANGED Unissued
  <2>1. /\ pc'[c] = to /\ login'[c] = t /\ request'[c] = None /\ creating'[c] = None
        /\ to \in Awaits \ CreateAwaits
    <3>1. to \in Awaits \ CreateAwaits
      BY DEF Awaits, CreateAwaits
    <3>. HIDE DEF to
    <3>. QED
      BY <1>1, <1>3, <1>5, <3>1, MoveTyped DEF Unissued
  <2>2. Shape(c)'
    BY <1>1, <1>2, <1>3, <2>1, NoStepAssumption
    DEF Shape, LoginShape, RequestShape, CreateAwaits, Keyed
  <2>. HIDE DEF to
  <2>. QED
    BY <1>2, <1>3, <1>5, <2>1, <2>2, Moved
<1>6. \/ s.auth = "local" /\ ~t.mfa /\ IssueTokens(c, t)
      \/ Move(c, t, to) /\ UNCHANGED Unissued
  BY <1>3 DEF RestoreCache, t
<1>. QED
  BY <1>4, <1>5, <1>6

LEMMA PopulateTyped ==
  ASSUME Typed, NEW c \in Clients, Populate(c)
  PROVE  Typed'
<1>. DEFINE s == login[c]
<1>1. /\ s \in Steps /\ s # None /\ Keyed(s)
      /\ s.auth # "local" => s.call \in Calls
      /\ request[c] = None /\ creating[c] = None
  BY DEF Populate, At, Typed, TypeOK, Shape, LoginShape, CreateAwaits, Keyed
<1>2. CacheKey(s) \in StateKeys \cup UserKeys /\ (s.auth = "local" => CacheKey(s) \notin StateKeys)
  BY <1>1, KeyType DEF UserKeys, StateKeys
<1>3. CacheValue(s) \in Nat /\ (s.auth # "local" => CacheValue(s) \in Calls \cup SentVerifiers)
  BY <1>1, LoginAssumption DEF CacheValue, Steps, Calls, SentVerifiers, NoVerifier
<1>4. cache' = [cache EXCEPT ![CacheKey(s)] = CacheValue(s)] /\ UNCHANGED <<users, redeemed, calls>>
  BY DEF Populate
<1>5. cache' \in [StateKeys \cup UserKeys -> Nat \cup {None}] /\ CacheShape'
  <2>1. cache' \in [StateKeys \cup UserKeys -> Nat \cup {None}]
    BY <1>2, <1>3, <1>4 DEF Typed, TypeOK
  <2>2. ASSUME NEW k \in StateKeys
        PROVE  cache'[k] \in Calls \cup SentVerifiers \cup {None}
    <3>1. CASE CacheKey(s) = k
      BY <1>2, <1>3, <1>4, <3>1 DEF Typed, TypeOK
    <3>2. CASE CacheKey(s) # k
      BY <1>2, <1>4, <3>2 DEF Typed, TypeOK, CacheShape
    <3>. QED
      BY <3>1, <3>2
  <2>. QED
    BY <2>1, <2>2 DEF CacheShape
<1>6. overlaps' \subseteq Emails \cup UserIds
  BY <1>1 DEF Populate, Typed, TypeOK, Keyed, Steps
<1>7. CASE Throw(c) /\ UNCHANGED <<useHashmap, now, stored, issued, pending>>
  BY <1>4, <1>5, <1>6, <1>7, ThrowTyped DEF Throw, Typed, TypeOK, TokensTypeOK
<1>8. CASE pending' = pending \cup {s} /\ End(c) /\ UNCHANGED Unissued
  <2>1. /\ pc' \in [Clients -> Awaits] /\ pc'[c] = "idle"
        /\ login' \in [Clients -> Steps \cup {None}] /\ login'[c] = None
        /\ \A d \in Clients \ {c} : pc'[d] = pc[d] /\ login'[d] = login[d]
    BY <1>8, MoveTyped DEF End, Awaits
  <2>2. request'[c] = None /\ creating'[c] = None
    BY <1>1, <1>8 DEF Unissued
  <2>3. Shape(c)'
    BY <2>1, <2>2 DEF Shape, LoginShape, RequestShape, CreateAwaits
  <2>4. \A d \in Clients : Shape(d)'
    BY <1>4, <1>8, <2>1, <2>3, OthersShape DEF Unissued
  <2>5. TokensTypeOK'
    BY <1>8 DEF Typed, TypeOK, TokensTypeOK, Unissued
  <2>6. TypeOK'
    BY <1>1, <1>4, <1>5, <1>6, <1>8, <2>1, <2>5 DEF Typed, TypeOK, Awaits
  <2>7. PendingShape'
    BY <1>1, <1>8 DEF Typed, PendingShape
  <2>. QED
    BY <1>4, <1>5, <2>4, <2>6, <2>7 DEF Typed, UsersShape
<1>. QED
  BY <1>7, <1>8 DEF Populate

LEMMA MFATyped ==
  ASSUME Typed, NEW c \in Clients, MFA(c)
  PROVE  Typed'
<1>. DEFINE s == login[c]
<1>1. /\ s \in Steps /\ s # None /\ s.auth = "local" /\ s.email \in Emails
      /\ s.id # None /\ s.id \in DOMAIN users
      /\ request[c] = None /\ creating[c] = None
  BY DEF MFA, At, Typed, TypeOK, Shape, LoginShape, CreateAwaits
<1>2. /\ redeemed' \subseteq Calls /\ calls' \in 0 .. MaxCalls /\ overlaps' \subseteq Emails \cup UserIds
      /\ UNCHANGED <<users, cache, pending>>
  BY DEF MFA, Others, Typed, TypeOK
<1>3. CASE Throw(c) /\ UNCHANGED <<useHashmap, now, stored, issued>>
  BY <1>2, <1>3, FailedTyped
<1>4. CASE IssueTokens(c, s)
  BY <1>1, <1>2, <1>4, IssueTyped
<1>5. CASE Move(c, s, "populate") /\ UNCHANGED Unissued
  <2>1. pc'[c] = "populate" /\ login'[c] = s /\ request'[c] = None /\ creating'[c] = None
    BY <1>1, <1>5, MoveTyped DEF Awaits, Unissued
  <2>2. Shape(c)'
    BY <1>1, <1>2, <2>1 DEF Shape, LoginShape, RequestShape, CreateAwaits, Keyed
  <2>3. "populate" \in Awaits \ CreateAwaits
    BY DEF Awaits, CreateAwaits
  <2>. QED
    BY <1>1, <1>2, <1>5, <2>2, <2>3, Moved
<1>. QED
  BY <1>3, <1>4, <1>5 DEF MFA

LEMMA FindAgainTyped ==
  ASSUME Typed, NEW c \in Clients, FindAgain(c)
  PROVE  Typed'
<1>1. /\ login[c] \in Steps /\ login[c].auth = "local" /\ login[c].email \in Emails
      /\ login[c].id \in DOMAIN users /\ request[c] = None
  BY DEF FindAgain, At, Typed, TypeOK, Shape, LoginShape
<1>. QED
  BY <1>1, IssueTyped DEF FindAgain, Others, Typed, TypeOK

\* what the provider returned is there or not
LEMMA ReturnedType ==
  ASSUME Typed, NEW s \in Steps, s.email \in Emails, NEW refresh \in {None, s.email}
  PROVE  LET t == WithReturnedTokens(s, refresh)
         IN  /\ t \in Steps
             /\ t.auth = s.auth /\ t.step = s.step /\ t.email = s.email
             /\ t.id = s.id /\ t.version = s.version /\ t.seen = s.seen
             /\ t.access = s.access \/ t.access.email = s.email
             /\ t.refresh = s.refresh \/ t.refresh \in {None, s.email}
<1>1. [email |-> s.email, exp |-> now + ExternalLifetime] \in ExternalTokens
  BY TokensAssumption DEF ExternalTokens, Typed, TypeOK, TokensTypeOK
<1>. QED
  BY <1>1 DEF WithReturnedTokens, Steps, SentVerifiers

LEMMA ExchangeTyped ==
  ASSUME Typed, NEW c \in Clients, Exchange(c)
  PROVE  Typed'
<1>. DEFINE s == login[c]
<1>1. /\ s \in Steps /\ s # None /\ s.auth # "local" /\ s.email \in Emails
      /\ s.id # None => s.id \in DOMAIN users
  BY DEF Exchange, At, Typed, TypeOK, Shape, LoginShape
<1>2. request[c] = None /\ creating[c] = None
  BY DEF Exchange, At, Typed, Shape, LoginShape, CreateAwaits
<1>3. /\ redeemed' \subseteq Calls /\ calls' \in 0 .. MaxCalls /\ overlaps' \subseteq Emails \cup UserIds
      /\ UNCHANGED <<users, cache, pending>>
  BY <1>1 DEF Exchange, Typed, TypeOK, Steps, Unknown
<1>4. CASE Throw(c) /\ UNCHANGED <<useHashmap, now, stored, issued>>
  BY <1>3, <1>4, FailedTyped
<1>5. ASSUME NEW refresh \in {None, s.email}, Move(c, WithReturnedTokens(s, refresh), "findByEmail"),
             UNCHANGED Unissued
      PROVE  Typed'
  <2>. DEFINE t == WithReturnedTokens(s, refresh)
  <2>1. t \in Steps /\ t.auth = s.auth /\ t.email = s.email /\ t.id = s.id
    BY <1>1, ReturnedType
  <2>2. Move(c, t, "findByEmail") /\ "findByEmail" \in Awaits \ CreateAwaits
    BY <1>5 DEF Awaits, CreateAwaits
  <2>. HIDE DEF t
  <2>3. pc'[c] = "findByEmail" /\ login'[c] = t /\ request'[c] = None /\ creating'[c] = None
    BY <1>2, <1>5, <2>1, <2>2, MoveTyped DEF Unissued
  <2>4. Shape(c)'
    BY <1>1, <1>3, <2>1, <2>3, NoStepAssumption
       DEF Shape, LoginShape, RequestShape, CreateAwaits
  <2>. QED
    BY <1>3, <1>5, <2>1, <2>2, <2>4, Moved
<1>. QED
  BY <1>4, <1>5 DEF Exchange

LEMMA FindByEmailTyped ==
  ASSUME Typed, NEW c \in Clients, FindByEmail(c)
  PROVE  Typed'
<1>. DEFINE s == login[c]
            id == FirstRow(s.email)
<1>1. /\ s \in Steps /\ s # None /\ s.auth # "local" /\ s.email \in Emails
      /\ s.id # None => s.id \in DOMAIN users
  BY DEF FindByEmail, At, Typed, TypeOK, Shape, LoginShape
<1>2. request[c] = None /\ creating[c] = None
  BY DEF FindByEmail, At, Typed, Shape, LoginShape, CreateAwaits
<1>3. /\ redeemed' \subseteq Calls /\ calls' \in 0 .. MaxCalls /\ overlaps' \subseteq Emails \cup UserIds
      /\ UNCHANGED <<users, cache, pending>>
  BY <1>1 DEF FindByEmail, Typed, TypeOK
<1>4. CASE Throw(c) /\ UNCHANGED <<useHashmap, now, stored, issued>>
  BY <1>3, <1>4, FailedTyped
<1>5. CASE id # 0 /\ IssueTokens(c, [s EXCEPT !.id = id, !.version = users[id].version])
  <2>. DEFINE t == [s EXCEPT !.id = id, !.version = users[id].version]
  <2>1. id \in DOMAIN users
    BY <1>5, FirstRowIsOne DEF Typed
  <2>2. t \in Steps
    BY <1>1, <2>1, FoundType
  <2>3. t.id = id /\ t.email = s.email
    BY <1>1 DEF Steps
  <2>4. IssueTokens(c, t)
    BY <1>5
  <2>. HIDE DEF t
  <2>. QED
    BY <1>1, <1>2, <1>3, <2>1, <2>2, <2>3, <2>4, IssueTyped
<1>6. CASE Move(c, s, "createUser") /\ UNCHANGED Unissued
  <2>1. pc'[c] = "createUser" /\ login'[c] = s /\ request'[c] = None /\ creating'[c] = None
    BY <1>1, <1>2, <1>6, MoveTyped DEF Awaits, Unissued
  <2>2. Shape(c)'
    BY <1>1, <1>3, <2>1 DEF Shape, LoginShape, RequestShape, CreateAwaits
  <2>3. "createUser" \in Awaits \ CreateAwaits
    BY DEF Awaits, CreateAwaits
  <2>. QED
    BY <1>1, <1>3, <1>6, <2>2, <2>3, Moved
<1>. QED
  BY <1>4, <1>5, <1>6 DEF FindByEmail

LEMMA CreateUserTyped ==
  ASSUME Typed, NEW c \in Clients, CreateUser(c)
  PROVE  Typed'
<1>. DEFINE s == [login[c] EXCEPT !.id = Len(users) + 1]
<1>1. /\ login[c] \in Steps /\ login[c] # None /\ login[c].auth # "local" /\ login[c].email \in Emails
  BY DEF CreateUser, At, Typed, TypeOK, Shape, LoginShape
<1>2. request[c] = None /\ creating[c] = None
  BY DEF CreateUser, At, Typed, Shape, LoginShape, CreateAwaits
<1>3. /\ users' \in Seq(Rows) /\ Len(users') <= MaxUsers /\ Len(users') = Len(users) + 1
      /\ \A id \in DOMAIN users' : users'[id] \in Rows
      /\ DOMAIN users \subseteq DOMAIN users' /\ Len(users) + 1 \in DOMAIN users'
      /\ Len(users) + 1 \in UserIds
  <2>1. [email |-> login[c].email, version |-> 0] \in Rows
    BY <1>1, LoginAssumption DEF Rows
  <2>2. Len(users) < MaxUsers /\ MaxUsers \in Nat /\ users \in Seq(Rows) /\ Len(users) \in Nat
        /\ users' = Append(users, [email |-> login[c].email, version |-> 0])
    BY TokensAssumption DEF CreateUser, Typed, UsersShape
  <2>3. users' \in Seq(Rows) /\ Len(users') = Len(users) + 1
    BY <2>1, <2>2
  <2>4. DOMAIN users = 1 .. Len(users) /\ DOMAIN users' = 1 .. Len(users')
        /\ \A id \in DOMAIN users' : users'[id] \in Rows
    BY <2>2, <2>3
  <2>. QED
    BY <2>2, <2>3, <2>4 DEF UserIds
<1>4. s \in Steps /\ s.id = Len(users) + 1 /\ s.auth # "local" /\ s.email \in Emails
  BY <1>1, <1>3 DEF Steps
<1>5. Move(c, s, "getUser") /\ UNCHANGED <<Unissued, cache, pending, redeemed, calls, overlaps>>
  BY DEF CreateUser
<1>. HIDE DEF s
<1>6. /\ pc' \in [Clients -> Awaits] /\ pc'[c] = "getUser"
      /\ login' \in [Clients -> Steps \cup {None}] /\ login'[c] = s
      /\ \A d \in Clients \ {c} : pc'[d] = pc[d] /\ login'[d] = login[d]
  BY <1>4, <1>5, MoveTyped DEF Awaits
<1>7. request'[c] = None /\ creating'[c] = None /\ s # None /\ s.id # None
  BY <1>2, <1>3, <1>4, <1>5, NoneAssumption, NoStepAssumption DEF Unissued, UserIds
<1>8. Shape(c)'
  BY <1>3, <1>4, <1>6, <1>7 DEF Shape, LoginShape, RequestShape, CreateAwaits
<1>9. \A d \in Clients : Shape(d)'
  BY <1>3, <1>5, <1>6, <1>8, OthersShape DEF Unissued
<1>10. TokensTypeOK'
  BY <1>5 DEF Typed, TypeOK, TokensTypeOK, Unissued
<1>11. TypeOK'
  BY <1>3, <1>5, <1>6, <1>10 DEF Typed, TypeOK, Awaits
<1>. QED
  BY <1>3, <1>5, <1>9, <1>11 DEF Typed, UsersShape, CacheShape, PendingShape

LEMMA GetUserTyped ==
  ASSUME Typed, NEW c \in Clients, GetUser(c)
  PROVE  Typed'
<1>. DEFINE s == [login[c] EXCEPT !.version = users[login[c].id].version]
<1>1. /\ login[c] \in Steps /\ login[c].email \in Emails
      /\ login[c].id \in DOMAIN users /\ request[c] = None
  BY DEF GetUser, At, Typed, TypeOK, Shape, LoginShape
<1>2. s \in Steps
  BY <1>1, FoundType
<1>3. s.id = login[c].id /\ s.email = login[c].email
  BY <1>1 DEF Steps
<1>4. IssueTokens(c, s)
  BY DEF GetUser
<1>. HIDE DEF s
<1>. QED
  BY <1>1, <1>2, <1>3, <1>4, IssueTyped DEF GetUser, Others, Typed, TypeOK

\* what is stored is a token of its type
LEMMA SaveTyped ==
  ASSUME Typed, NEW c \in Clients, Save(c)
  PROVE  /\ creating[c] \in Tokens /\ creating[c].user \in UserIds
         /\ creating[c].type \in TokenTypes
         /\ stored' \in [UserIds -> [TokenTypes -> Tokens \cup {None}]]
         /\ \A u \in UserIds, t \in TokenTypes : stored'[u][t] # None => stored'[u][t].type = t
<1>1. creating[c] \in Tokens
  BY DEF Save, Typed, TypeOK, TokensTypeOK, Shape, CreateAwaits
<1>2. creating[c].user \in UserIds /\ creating[c].type \in TokenTypes
  BY <1>1 DEF Tokens, AccessTokens, RefreshTokens, TokenTypes
<1>. QED
  BY <1>1, <1>2 DEF Save, Typed, TypeOK, TokensTypeOK

LEMMA SaveRefreshTyped ==
  ASSUME Typed, NEW c \in Clients, SaveRefresh(c)
  PROVE  Typed'
<1>. DEFINE token == AccessToken(login[c], creating[c])
<1>1. /\ login[c] \in Steps /\ login[c] # None /\ login[c].id \in DOMAIN users
      /\ request[c] = None /\ login[c].id \in UserIds
  BY UserRows DEF SaveRefresh, At, Typed, TypeOK, Shape, LoginShape, CreateAwaits
<1>2. /\ creating[c] \in RefreshTokens
      /\ stored' \in [UserIds -> [TokenTypes -> Tokens \cup {None}]]
      /\ \A u \in UserIds, t \in TokenTypes : stored'[u][t] # None => stored'[u][t].type = t
  BY SaveTyped DEF SaveRefresh, Tokens, AccessTokens
<1>3. token \in Tokens /\ token # None
  BY <1>1, <1>2, TokenTypesOfLogin, NoneAssumption DEF Typed, Tokens
<1>4. Create(c, token)
  BY DEF SaveRefresh
<1>. HIDE DEF token
<1>5. /\ pc' \in [Clients -> Awaits] /\ pc'[c] = "purgeFind"
      /\ creating' \in [Clients -> Tokens \cup {None}] /\ creating'[c] = token
      /\ \A d \in Clients \ {c} : pc'[d] = pc[d] /\ creating'[d] = creating[d]
  BY <1>3, <1>4, CreateTyped
<1>6. /\ UNCHANGED <<useHashmap, now, request, issued, response, login, users, cache, pending,
                     redeemed, calls, overlaps>>
      /\ disturbed' \subseteq UserIds
  BY <1>1 DEF SaveRefresh, Others, Typed, TypeOK, TokensTypeOK
<1>7. Shape(c)'
  <2>1. Shape(c) /\ pc[c] = "save"
    BY DEF Typed, SaveRefresh, Save
  <2>. QED
    BY <1>1, <1>3, <1>5, <1>6, <2>1 DEF Shape, LoginShape, RequestShape, CreateAwaits
<1>8. \A d \in Clients : Shape(d)'
  BY <1>5, <1>6, <1>7, OthersShape
<1>9. TokensTypeOK'
  BY <1>2, <1>5, <1>6 DEF Typed, TypeOK, TokensTypeOK
<1>10. TypeOK'
  BY <1>5, <1>6, <1>9 DEF Typed, TypeOK, Awaits
<1>. QED
  BY <1>6, <1>8, <1>10 DEF Typed, UsersShape, CacheShape, PendingShape

LEMMA SaveAccessTyped ==
  ASSUME Typed, NEW c \in Clients, SaveAccess(c)
  PROVE  Typed'
<1>1. /\ login[c] \in Steps /\ login[c] # None /\ login[c].email \in Emails /\ request[c] = None
  BY DEF SaveAccess, At, Typed, TypeOK, Shape, LoginShape
<1>2. /\ creating[c] \in AccessTokens
      /\ stored' \in [UserIds -> [TokenTypes -> Tokens \cup {None}]]
      /\ \A u \in UserIds, t \in TokenTypes : stored'[u][t] # None => stored'[u][t].type = t
  BY SaveTyped DEF SaveAccess, Tokens, RefreshTokens
<1>3. [access |-> creating[c], refresh |-> creating[c].refresh, email |-> login[c].email] \in Pairs
  BY <1>1, <1>2 DEF Pairs, AccessTokens
<1>4. \A p \in issued' : p \in Pairs
  BY <1>3 DEF SaveAccess, Typed, TypeOK, TokensTypeOK
<1>5. /\ pc' \in [Clients -> Awaits] /\ pc'[c] = "idle"
      /\ login' \in [Clients -> Steps \cup {None}] /\ login'[c] = None
      /\ \A d \in Clients \ {c} : pc'[d] = pc[d] /\ login'[d] = login[d]
  BY MoveTyped DEF SaveAccess, End, Awaits
<1>6. /\ creating' \in [Clients -> Tokens \cup {None}] /\ creating'[c] = None
      /\ \A d \in Clients \ {c} : creating'[d] = creating[d]
  BY DEF SaveAccess, Typed, TypeOK, TokensTypeOK
<1>7. UNCHANGED <<useHashmap, now, request, response, disturbed, users, cache, pending,
                  redeemed, calls, overlaps>>
  BY DEF SaveAccess, Others
<1>8. Shape(c)'
  BY <1>1, <1>5, <1>6, <1>7 DEF Shape, LoginShape, RequestShape, CreateAwaits
<1>9. \A d \in Clients : Shape(d)'
  BY <1>5, <1>6, <1>7, <1>8, OthersShape
<1>10. TokensTypeOK'
  BY <1>2, <1>4, <1>6, <1>7 DEF Typed, TypeOK, TokensTypeOK
<1>11. TypeOK'
  BY <1>5, <1>7, <1>10 DEF Typed, TypeOK, Awaits
<1>. QED
  BY <1>7, <1>9, <1>11 DEF Typed, UsersShape, CacheShape, PendingShape

\* TokenManager.create() and a renewal run in the call they belong to
TokenStepIn(c) ==
  /\ TokenStep(c)
  /\ login' = IF pc'[c] = "idle" THEN [login EXCEPT ![c] = None] ELSE login
  /\ UNCHANGED Others

\* what such a step must show
LEMMA TokensMoved ==
  ASSUME Typed, NEW c \in Clients, TokenStepIn(c), TokensTypeOK', Shape(c)',
         pc' \in [Clients -> Awaits],
         \A d \in Clients \ {c} : /\ pc'[d] = pc[d]
                                  /\ request'[d] = request[d] /\ creating'[d] = creating[d]
  PROVE  Typed'
<1>1. /\ login' \in [Clients -> Steps \cup {None}]
      /\ \A d \in Clients \ {c} : login'[d] = login[d]
  BY DEF TokenStepIn, Typed, TypeOK
<1>2. UNCHANGED <<users, cache, pending, redeemed, calls, overlaps>>
  BY DEF TokenStepIn, Others
<1>3. \A d \in Clients : Shape(d)'
  BY <1>1, <1>2, OthersShape
<1>4. TypeOK'
  BY <1>1, <1>2 DEF Typed, TypeOK, Awaits
<1>. QED
  BY <1>2, <1>3, <1>4 DEF Typed, UsersShape, CacheShape, PendingShape

LEMMA PurgeTyped ==
  ASSUME Typed, NEW c \in Clients, TokenStepIn(c), PurgeFind(c) \/ PurgeRemove(c)
  PROVE  Typed'
<1>1. /\ pc' \in [Clients -> Awaits] /\ pc'[c] \in {"save", "purgeRemove"}
      /\ pc[c] \in {"purgeFind", "purgeRemove"}
      /\ \A d \in Clients \ {c} : pc'[d] = pc[d]
  BY DEF PurgeFind, PurgeRemove, Typed, TypeOK, Awaits
<1>2. UNCHANGED <<useHashmap, now, creating, request, issued, response, disturbed, login, users>>
  BY <1>1 DEF PurgeFind, PurgeRemove, TokenStepIn, Others
<1>3. /\ stored' \in [UserIds -> [TokenTypes -> Tokens \cup {None}]]
      /\ \A u \in UserIds, t \in TokenTypes : stored'[u][t] # None => stored'[u][t].type = t
  <2>1. creating[c] \in Tokens
    BY <1>1 DEF Typed, TypeOK, TokensTypeOK, Shape, CreateAwaits
  <2>2. creating[c].user \in UserIds /\ creating[c].type \in TokenTypes
    BY <2>1 DEF Tokens, AccessTokens, RefreshTokens, TokenTypes
  <2>3. stored' = stored \/
        stored' = [stored EXCEPT ![creating[c].user][creating[c].type] = None]
    BY DEF PurgeFind, PurgeRemove
  <2>4. /\ stored \in [UserIds -> [TokenTypes -> Tokens \cup {None}]]
        /\ \A u \in UserIds, t \in TokenTypes : stored[u][t] # None => stored[u][t].type = t
    BY DEF Typed, TypeOK, TokensTypeOK
  <2>5. CASE stored' = stored
    BY <2>4, <2>5
  <2>6. CASE stored' = [stored EXCEPT ![creating[c].user][creating[c].type] = None]
    <3>1. stored' \in [UserIds -> [TokenTypes -> Tokens \cup {None}]]
      BY <2>2, <2>4, <2>6
    <3>2. \A u \in UserIds, t \in TokenTypes : stored'[u][t] \in {None, stored[u][t]}
      BY <2>2, <2>4, <2>6
    <3>. QED
      BY <2>4, <3>1, <3>2
  <2>. QED
    BY <2>3, <2>5, <2>6
<1>4. Shape(c)'
  BY <1>1, <1>2 DEF Typed, Shape, LoginShape, RequestShape, CreateAwaits, Keyed, SentRefresh
<1>5. TokensTypeOK'
  BY <1>2, <1>3 DEF Typed, TypeOK, TokensTypeOK
<1>. QED
  BY <1>1, <1>2, <1>4, <1>5, TokensMoved

LEMMA EndTyped ==
  ASSUME Typed, NEW c \in Clients, TokenStepIn(c), EndByThrow(c), UNCHANGED <<now, issued>>,
         stored' \in [UserIds -> [TokenTypes -> Tokens \cup {None}]],
         \A u \in UserIds, t \in TokenTypes : stored'[u][t] # None => stored'[u][t].type = t
  PROVE  Typed'
<1>1. login' = [login EXCEPT ![c] = None]
  BY DEF TokenStepIn, EndByThrow, Typed, TypeOK
<1>2. UNCHANGED <<users, cache, pending, redeemed, calls, overlaps>>
  BY DEF TokenStepIn, Others
<1>3. CacheShape'
  BY <1>2 DEF Typed, CacheShape
<1>. QED
  BY <1>1, <1>2, <1>3, ThrowTyped DEF Typed, TypeOK

\* an unaccepted or renewing request ends, or goes on to the external token's refresh
LEMMA RefreshExternalTyped ==
  ASSUME Typed, NEW c \in Clients, TokenStepIn(c), RefreshExternal(c)
  PROVE  Typed'
<1>. DEFINE r == request[c]
            external == [email |-> SentRefresh(r).external, exp |-> now + ExternalLifetime]
            token == Renewed(r, external)
<1>1. pc[c] = "refreshExternal" /\ r \in Requests /\ SentRefresh(r) # None /\ login[c] = None
      /\ creating[c] = None
  BY DEF RefreshExternal, Typed, TypeOK, TokensTypeOK, Shape, RequestShape, LoginShape, CreateAwaits
<1>2. UNCHANGED <<useHashmap, now, stored, issued, users>>
  BY DEF RefreshExternal, TokenStepIn, Others
<1>3. CASE /\ SentRefresh(r).external # None
           /\ Create(c, token) /\ Renewing(c, token) /\ UNCHANGED <<request, response>>
  <2>1. SentRefresh(r) \in RefreshTokens
        /\ r.pair.access \in AccessTokens
    BY <1>1 DEF SentRefresh, Requests, Pairs
  <2>2. external \in ExternalTokens
    BY <1>3, <2>1, TokensAssumption DEF ExternalTokens, RefreshTokens, Typed, TypeOK, TokensTypeOK
  <2>3. token \in AccessTokens
    BY <1>1, <2>2, RenewedType DEF Typed
  <2>. HIDE DEF token, external
  <2>4. token \in Tokens /\ token # None /\ token.user \in UserIds /\ token.type = "access"
    BY <2>3, NoneAssumption DEF Tokens, AccessTokens
  <2>5. /\ pc' \in [Clients -> Awaits] /\ pc'[c] = "purgeFind"
        /\ creating' \in [Clients -> Tokens \cup {None}] /\ creating'[c] = token
        /\ \A d \in Clients \ {c} : pc'[d] = pc[d] /\ creating'[d] = creating[d]
    BY <1>3, <2>4, CreateTyped
  <2>6. login' = login
    BY <2>5 DEF TokenStepIn
  <2>7. Shape(c)'
    BY <1>1, <1>3, <2>4, <2>5, <2>6 DEF Shape, LoginShape, RequestShape, CreateAwaits, Keyed, SentRefresh
  <2>8. disturbed' \subseteq UserIds
    BY <1>3, <2>4 DEF Renewing, Typed, TypeOK, TokensTypeOK
  <2>9. TokensTypeOK'
    BY <1>2, <1>3, <2>5, <2>8 DEF Typed, TypeOK, TokensTypeOK
  <2>. QED
    BY <1>3, <2>5, <2>7, <2>9, TokensMoved
<1>4. CASE Reject(c) /\ UNCHANGED <<creating, disturbed>>
  <2>1. /\ pc' \in [Clients -> Awaits] /\ pc'[c] = "idle"
        /\ request' \in [Clients -> Requests \cup {None}] /\ request'[c] = None
        /\ \A d \in Clients \ {c} : pc'[d] = pc[d] /\ request'[d] = request[d]
    BY <1>4 DEF Reject, Typed, TypeOK, TokensTypeOK, Awaits
  <2>2. login'[c] = None
    BY <2>1 DEF TokenStepIn, Typed, TypeOK
  <2>3. Shape(c)'
    BY <1>1, <1>4, <2>1, <2>2 DEF Shape, LoginShape, RequestShape, CreateAwaits
  <2>4. TokensTypeOK'
    BY <1>2, <1>4, <2>1 DEF Reject, Typed, TypeOK, TokensTypeOK
  <2>. QED
    BY <1>4, <2>1, <2>3, <2>4, TokensMoved
<1>. QED
  BY <1>3, <1>4 DEF RefreshExternal

LEMMA RenewSaveTyped ==
  ASSUME Typed, NEW c \in Clients, TokenStepIn(c), RenewSave(c)
  PROVE  Typed'
<1>. DEFINE r == request[c]
<1>1. pc[c] = "save" /\ r \in Requests /\ SentRefresh(r) # None /\ login[c] = None
  BY DEF RenewSave, Save, Typed, TypeOK, TokensTypeOK, Shape, RequestShape, LoginShape
<1>2. /\ creating[c] \in AccessTokens
      /\ stored' \in [UserIds -> [TokenTypes -> Tokens \cup {None}]]
      /\ \A u \in UserIds, t \in TokenTypes : stored'[u][t] # None => stored'[u][t].type = t
  <2>1. creating[c] \in Tokens /\ creating[c].type = "access"
    BY <1>1, SaveTyped, NoneAssumption
       DEF RenewSave, Typed, TypeOK, TokensTypeOK, Shape, RequestShape, CreateAwaits
  <2>. QED
    BY <2>1, SaveTyped DEF RenewSave, Tokens, RefreshTokens
<1>3. creating[c].user \in UserIds /\ SentRefresh(r) \in RefreshTokens /\ r.pair.email \in Emails
  BY <1>1, <1>2 DEF AccessTokens, SentRefresh, Requests, Pairs
<1>4. /\ pc' \in [Clients -> Awaits] /\ pc'[c] = "idle"
      /\ request' \in [Clients -> Requests \cup {None}] /\ request'[c] = None
      /\ creating' \in [Clients -> Tokens \cup {None}] /\ creating'[c] = None
      /\ \A d \in Clients \ {c} : /\ pc'[d] = pc[d]
                                  /\ request'[d] = request[d] /\ creating'[d] = creating[d]
  BY DEF RenewSave, Typed, TypeOK, TokensTypeOK, Awaits
<1>5. login'[c] = None
  BY <1>4 DEF TokenStepIn, Typed, TypeOK
<1>6. Shape(c)'
  BY <1>4, <1>5 DEF Shape, LoginShape, RequestShape, CreateAwaits
<1>7. \A p \in issued' : p \in Pairs
  <2>1. [access |-> creating[c], refresh |-> SentRefresh(r), email |-> r.pair.email] \in Pairs
    BY <1>2, <1>3 DEF Pairs
  <2>. QED
    BY <2>1 DEF RenewSave, Typed, TypeOK, TokensTypeOK
<1>8. response' \in [Clients -> Responses \cup {None}]
  <2>1. [request |-> r, user |-> creating[c].user, new |-> creating[c]] \in Responses
    BY <1>1, <1>2, <1>3 DEF Responses
  <2>2. response' = [response EXCEPT ![c] =
          [request |-> r, user |-> creating[c].user, new |-> creating[c]]]
    BY DEF RenewSave
  <2>. QED
    BY <2>1, <2>2 DEF Typed, TypeOK, TokensTypeOK
<1>9. TokensTypeOK'
  BY <1>2, <1>4, <1>7, <1>8 DEF RenewSave, Typed, TypeOK, TokensTypeOK
<1>. QED
  BY <1>4, <1>6, <1>9, TokensMoved

LEMMA TokenStepTyped ==
  ASSUME Typed, NEW c \in Clients, TokenStepIn(c)
  PROVE  Typed'
<1>1. CASE SaveAndThrow(c)
  BY <1>1, SaveTyped, EndTyped DEF SaveAndThrow
<1>2. CASE Fail(c)
  BY <1>2, EndTyped DEF Fail, Typed, TypeOK, TokensTypeOK
<1>. QED
  BY <1>1, <1>2, PurgeTyped, RefreshExternalTyped, RenewSaveTyped DEF TokenStepIn, TokenStep

LEMMA RequestTyped ==
  ASSUME Typed, NEW c \in Clients, NEW r \in Requests, Request(c, r),
         UNCHANGED <<login, users, cache, pending, redeemed, overlaps>>, calls' \in 0 .. MaxCalls
  PROVE  Typed'
<1>1. pc[c] = "idle" /\ login[c] = None /\ creating[c] = None
  BY DEF Request, Typed, Shape, LoginShape, CreateAwaits
<1>2. UNCHANGED <<useHashmap, now, stored, creating, issued, disturbed>>
  BY DEF Request
<1>3. r.pair.access.user \in UserIds
  BY DEF Requests, Pairs, AccessTokens
<1>4. CASE Respond(c, r, None) \/ Reject(c)
  <2>1. /\ pc' \in [Clients -> Awaits] /\ pc'[c] = "idle"
        /\ request' \in [Clients -> Requests \cup {None}] /\ request'[c] = None
        /\ \A d \in Clients \ {c} : pc'[d] = pc[d] /\ request'[d] = request[d]
    BY <1>4 DEF Respond, Reject, Typed, TypeOK, TokensTypeOK, Awaits
  <2>2. response' \in [Clients -> Responses \cup {None}]
    <3>1. \A u \in UserIds \cup {None} : [request |-> r, user |-> u, new |-> None] \in Responses
      BY DEF Responses
    <3>. QED
      BY <1>3, <1>4, <3>1 DEF Respond, Reject, Typed, TypeOK, TokensTypeOK
  <2>3. Shape(c)'
    BY <1>1, <1>2, <2>1 DEF Shape, LoginShape, RequestShape, CreateAwaits
  <2>4. \A d \in Clients : Shape(d)'
    BY <1>2, <2>1, <2>3, OthersShape
  <2>5. TokensTypeOK'
    BY <1>2, <2>1, <2>2 DEF Typed, TypeOK, TokensTypeOK
  <2>6. TypeOK'
    BY <2>1, <2>5 DEF Typed, TypeOK, Awaits
  <2>. QED
    BY <2>4, <2>6 DEF Typed, UsersShape, CacheShape, PendingShape
<1>5. CASE RenewEnabled(r) /\ request' = [request EXCEPT ![c] = r]
           /\ pc' = [pc EXCEPT ![c] = "refreshExternal"] /\ UNCHANGED response
  <2>1. /\ pc' \in [Clients -> Awaits] /\ pc'[c] = "refreshExternal"
        /\ request' \in [Clients -> Requests \cup {None}] /\ request'[c] = r
        /\ \A d \in Clients \ {c} : pc'[d] = pc[d] /\ request'[d] = request[d]
    BY <1>5 DEF Typed, TypeOK, TokensTypeOK, Awaits
  <2>2. SentRefresh(r) # None /\ r # None
    BY <1>5, NoneAssumption DEF RenewEnabled
  <2>3. Shape(c)'
    BY <1>1, <1>2, <2>1, <2>2 DEF Shape, LoginShape, RequestShape, CreateAwaits, Keyed, SentRefresh
  <2>4. \A d \in Clients : Shape(d)'
    BY <1>2, <2>1, <2>3, OthersShape
  <2>5. TokensTypeOK'
    BY <1>2, <1>5, <2>1 DEF Typed, TypeOK, TokensTypeOK
  <2>6. TypeOK'
    BY <2>1, <2>5 DEF Typed, TypeOK, Awaits
  <2>. QED
    BY <2>4, <2>6 DEF Typed, UsersShape, CacheShape, PendingShape
<1>. QED
  BY <1>4, <1>5 DEF Request

LEMMA EnvironmentTyped ==
  ASSUME Typed, Environment
  PROVE  Typed'
<1>1. CASE Tick /\ UNCHANGED <<users, cache, login, pending, redeemed, calls, overlaps>>
  <2>1. now' \in 0 .. MaxTime
    BY <1>1, TokensAssumption DEF Tick, Typed, TypeOK, TokensTypeOK
  <2>2. \A c \in Clients : Shape(c)'
    BY <1>1 DEF Tick, Typed, Shape, LoginShape, RequestShape, CreateAwaits, Keyed, SentRefresh
  <2>3. TokensTypeOK'
    BY <1>1, <2>1 DEF Tick, Typed, TypeOK, TokensTypeOK
  <2>4. TypeOK'
    BY <1>1, <2>3 DEF Tick, Typed, TypeOK
  <2>. QED
    BY <1>1, <2>2, <2>4 DEF Typed, UsersShape, CacheShape, PendingShape
<1>2. ASSUME NEW id \in DOMAIN InitialUsers, EditUser(id)
      PROVE  Typed'
  <2>1. UNCHANGED <<tokenVars, cache, login, pending, redeemed, calls, overlaps>>
    BY <1>2 DEF EditUser
  <2>2. users' \in Seq(Rows) /\ Len(users') = Len(users) /\ DOMAIN users' = DOMAIN users
        /\ \A i \in DOMAIN users' : users'[i] \in Rows
    <3>1. CASE id \in DOMAIN users
      <4>1. users[id] \in Rows /\ users[id].version < MaxVersion
        BY <1>2, <3>1 DEF Typed, UsersShape, EditUser
      <4>2. [users[id] EXCEPT !.version = @ + 1] \in Rows
        BY <4>1, LoginAssumption DEF Rows
      <4>3. users' = [users EXCEPT ![id] = [users[id] EXCEPT !.version = @ + 1]]
        BY <1>2 DEF EditUser
      <4>. QED
        BY <3>1, <4>2, <4>3 DEF Typed, UsersShape
    <3>2. CASE id \notin DOMAIN users
      <4>1. users' = users
        BY <1>2, <3>2 DEF EditUser, Typed, UsersShape
      <4>. QED
        BY <4>1 DEF Typed, UsersShape
    <3>. QED
      BY <3>1, <3>2
  <2>3. \A c \in Clients : Shape(c)'
    BY <2>1, <2>2 DEF tokenVars, Typed, Shape, LoginShape, RequestShape, CreateAwaits, Keyed, SentRefresh
  <2>4. TokensTypeOK'
    BY <2>1 DEF tokenVars, Typed, TypeOK, TokensTypeOK
  <2>5. TypeOK'
    BY <2>1, <2>2, <2>4 DEF tokenVars, Typed, TypeOK
  <2>. QED
    BY <2>1, <2>2, <2>3, <2>5 DEF Typed, UsersShape, CacheShape, PendingShape
<1>3. ASSUME NEW k \in DOMAIN cache, ExpireCached(k)
      PROVE  Typed'
  <2>1. UNCHANGED <<tokenVars, users, login, pending, redeemed, calls, overlaps>>
    BY <1>3 DEF ExpireCached
  <2>2. cache' \in [StateKeys \cup UserKeys -> Nat \cup {None}] /\ CacheShape'
    <3>1. cache' = [cache EXCEPT ![k] = None]
      BY <1>3 DEF ExpireCached
    <3>. QED
      BY <3>1 DEF Typed, TypeOK, CacheShape
  <2>3. \A c \in Clients : Shape(c)'
    BY <2>1 DEF tokenVars, Typed, Shape, LoginShape, RequestShape, CreateAwaits, Keyed, SentRefresh
  <2>4. TokensTypeOK'
    BY <2>1 DEF tokenVars, Typed, TypeOK, TokensTypeOK
  <2>5. TypeOK'
    BY <2>1, <2>2, <2>4 DEF tokenVars, Typed, TypeOK
  <2>. QED
    BY <2>1, <2>2, <2>3, <2>5 DEF Typed, UsersShape, PendingShape
<1>. QED
  BY <1>1, <1>2, <1>3 DEF Environment

LEMMA CallTyped ==
  ASSUME Typed, NEW c \in Clients, Call(c)
  PROVE  Typed'
<1>1. CASE \E auth \in AuthTypes \ {"local"} : Initiate(c, auth, None, FALSE)
  BY <1>1, InitiateTyped
<1>2. CASE \E email \in Emails, mfa \in BOOLEAN : "local" \in AuthTypes /\ Initiate(c, "local", email, mfa)
  BY <1>2, InitiateTyped
<1>3. CASE \/ \E email \in Emails, mfa \in BOOLEAN : "local" \in AuthTypes /\ CompleteLocal(c, email, mfa)
           \/ \E auth \in AuthTypes \ {"local"}, email \in Emails : CompleteRemote(c, auth, email)
  BY <1>3, CompleteIs, SecondTyped
<1>4. ASSUME NEW p \in issued, NEW refresh \in {q.refresh : q \in issued} \cup {None},
             calls < MaxCalls, calls' = calls + 1,
             Request(c, [pair |-> p, refresh |-> refresh, at |-> now]),
             UNCHANGED <<login, users, cache, pending, redeemed, overlaps>>
      PROVE  Typed'
  <2>1. [pair |-> p, refresh |-> refresh, at |-> now] \in Requests
    BY <1>4, SentType DEF Typed
  <2>2. calls' \in 0 .. MaxCalls
    BY <1>4, LoginAssumption DEF Typed, TypeOK
  <2>. QED
    BY <1>4, <2>1, <2>2, RequestTyped
<1>. QED
  BY <1>1, <1>2, <1>3, <1>4 DEF Call

LEMMA NextTyped == Typed /\ [Next]_vars => Typed'
<1>. SUFFICES ASSUME Typed, [Next]_vars
              PROVE  Typed'
  OBVIOUS
<1>1. ASSUME NEW c \in Clients, LoginStep(c)
      PROVE  Typed'
  BY <1>1, FindUserTyped, RestoreCacheTyped, PopulateTyped, MFATyped, FindAgainTyped, ExchangeTyped,
     FindByEmailTyped, CreateUserTyped, GetUserTyped, SaveRefreshTyped, SaveAccessTyped DEF LoginStep
<1>2. ASSUME NEW c \in Clients, Step(c)
      PROVE  Typed'
  BY <1>1, <1>2, TokenStepTyped DEF Step, TokenStepIn
<1>3. CASE UNCHANGED vars
  <2>1. \A c \in Clients : Shape(c)'
    BY <1>3 DEF vars, tokenVars, Typed, Shape, LoginShape, RequestShape, CreateAwaits, Keyed, SentRefresh
  <2>2. TypeOK'
    BY <1>3 DEF vars, tokenVars, Typed, TypeOK, TokensTypeOK
  <2>. QED
    BY <1>3, <2>1, <2>2 DEF vars, Typed, UsersShape, CacheShape, PendingShape
<1>. QED
  BY <1>2, <1>3, CallTyped, EnvironmentTyped DEF Next

\* Logins, requests, stored tokens and history keep their types, whoever fails at any await.
THEOREM TypeCorrect == Spec => []TypeOK
<1>1. Typed => TypeOK
  BY DEF Typed
<1>. QED
  BY <1>1, InitTyped, NextTyped, PTL DEF Spec

-----------------------------------------------------------------------------
(* What belongs together: a login, the row it found, its tokens.           *)

\* rows of the users table only come, and keep their emails
Grows ==
  \A id \in DOMAIN users : id \in DOMAIN users' /\ users'[id].email = users[id].email

OfItsPerson(s, rows) ==
  /\ s.id # None => rows[s.id].email = s.email
  /\ s.access # None => s.access.email = s.email
  /\ s.refresh \in {None, s.email}

BeforeTokens == {"findUser", "findAgain", "restore", "mfa", "exchange", "populate"}

OwnLogin(c) ==
  login[c] # None =>
    LET s == login[c]
        token == creating[c]
    IN  /\ OfItsPerson(s, users)
        /\ pc[c] \in BeforeTokens => s.access = None /\ s.refresh = None
        /\ token # None =>
             /\ token.user = s.id
             /\ token.type = "refresh" => token.external = s.refresh
             /\ token.type = "access" =>
                  /\ token.accessToken = None
                  /\ token.external = s.access
                  /\ token.refresh # None => /\ token.refresh.user = s.id
                                             /\ token.refresh.external = s.refresh

OwnRenewal(c) ==
  request[c] # None =>
    LET r == request[c]
        token == creating[c]
    IN  /\ r.pair \in issued
        /\ r.refresh # None => \E q \in issued : q.refresh = r.refresh
        /\ token # None => /\ token.user = r.pair.access.user
                           /\ token.refresh = r.pair.access.refresh
                           /\ token.accessToken = r.refresh
                           /\ token.external.email = r.refresh.external

\* a refresh token's external token is of its user
OwnRefresh(token, rows) ==
  /\ token.user \in DOMAIN rows
  /\ token.external \in {None, rows[token.user].email}

OwnPair(p, rows) ==
  /\ p.access.user \in DOMAIN rows
  /\ rows[p.access.user].email = p.email
  /\ p.refresh # None => OwnRefresh(p.refresh, rows)
  /\ p.access.refresh # None =>
       OwnRefresh(p.access.refresh, rows) /\ p.access.refresh.user = p.access.user
  /\ p.access.accessToken = None =>
       /\ p.access.refresh = p.refresh
       /\ p.access.external # None => p.access.external.email = p.email
  /\ p.access.accessToken # None =>
       /\ p.access.accessToken = p.refresh
       /\ p.access.external.email = p.refresh.external

Own ==
  /\ \A c \in Clients : OwnLogin(c) /\ OwnRenewal(c)
  /\ \A p \in issued : OwnPair(p, users)

LEMMA InitOwn == Init => Own
  BY DEF Init, TokensInit, Own, OwnLogin, OwnRenewal

\* no step takes a row away or changes its email
LEMMA UsersGrow ==
  ASSUME Typed, [Next]_vars
  PROVE  Grows
<1>1. CASE UNCHANGED users
  BY <1>1 DEF Grows
<1>2. ASSUME NEW c \in Clients, CreateUser(c)
      PROVE  Grows
  BY <1>2 DEF CreateUser, Grows, Typed, UsersShape
<1>3. ASSUME NEW id \in DOMAIN InitialUsers, EditUser(id)
      PROVE  Grows
  BY <1>3 DEF EditUser, Grows, Typed, UsersShape, Rows
<1>4. ASSUME NEW c \in Clients, Call(c)
      PROVE  UNCHANGED users
  BY <1>4 DEF Call, Initiate, CompleteLocal, CompleteRemote, Start
<1>5. ASSUME NEW c \in Clients, Step(c), ~CreateUser(c)
      PROVE  UNCHANGED users
  BY <1>5 DEF Step, LoginStep, FindUser, RestoreCache, Populate, MFA, FindAgain, Exchange, FindByEmail,
              GetUser, SaveRefresh, SaveAccess, Others
<1>6. CASE Environment
  BY <1>1, <1>3, <1>6 DEF Environment, ExpireCached
<1>7. CASE UNCHANGED vars
  BY <1>1, <1>7 DEF vars
<1>. QED
  BY <1>1, <1>2, <1>4, <1>5, <1>6, <1>7 DEF Next

\* what stays true of a client when a step is another's
LEMMA OthersOwn ==
  ASSUME Typed, Own, Grows, issued \subseteq issued', NEW d \in Clients,
         pc'[d] = pc[d], login'[d] = login[d], request'[d] = request[d], creating'[d] = creating[d]
  PROVE  OwnLogin(d)' /\ OwnRenewal(d)'
<1>1. OwnLogin(d) /\ OwnRenewal(d)
  BY DEF Own
<1>2. login[d] # None => /\ login[d].id # None => login[d].id \in DOMAIN users
  BY DEF Typed, Shape, LoginShape
<1>3. OwnLogin(d)'
  BY <1>1, <1>2 DEF OwnLogin, OfItsPerson, Grows
<1>4. OwnRenewal(d)'
  BY <1>1 DEF OwnRenewal
<1>. QED
  BY <1>3, <1>4

LEMMA PairsStay ==
  ASSUME Own, Grows
  PROVE  \A p \in issued : OwnPair(p, users')
<1>1. ASSUME NEW token, OwnRefresh(token, users)
      PROVE  OwnRefresh(token, users')
  BY <1>1 DEF OwnRefresh, Grows
<1>2. ASSUME NEW p \in issued
      PROVE  OwnPair(p, users')
  BY <1>1, <1>2 DEF Own, OwnPair, Grows
<1>. QED
  BY <1>2

\* what a client's step must show
LEMMA OwnBy ==
  ASSUME Typed, Own, Grows, NEW c \in Clients, Alone(c), OwnLogin(c)', OwnRenewal(c)',
         issued \subseteq issued', \A p \in issued' \ issued : OwnPair(p, users')
  PROVE  Own'
<1>1. \A d \in Clients : OwnLogin(d)' /\ OwnRenewal(d)'
  BY OthersOwn DEF Alone
<1>. QED
  BY <1>1, PairsStay DEF Own

\* ... when the client comes out idle
LEMMA OwnByEnd ==
  ASSUME Typed, Own, Grows, NEW c \in Clients, Alone(c), login'[c] = None, request'[c] = None,
         issued \subseteq issued', \A p \in issued' \ issued : OwnPair(p, users')
  PROVE  Own'
  BY OwnBy DEF OwnLogin, OwnRenewal

LEMMA ThrowAlone ==
  ASSUME Typed, NEW c \in Clients, EndByThrow(c), login' = [login EXCEPT ![c] = None]
  PROVE  Alone(c) /\ login'[c] = None /\ request'[c] = None
  BY DEF EndByThrow, Alone, Typed, TypeOK, TokensTypeOK

\* ... when only the login goes on
LEMMA OwnMove ==
  ASSUME Typed, Own, Grows, NEW c \in Clients, NEW s \in Steps, NEW to \in Awaits \ CreateAwaits,
         Move(c, s, to), UNCHANGED Unissued, request[c] = None, creating[c] = None,
         OfItsPerson(s, users'), to \in BeforeTokens => s.access = None /\ s.refresh = None
  PROVE  Own'
<1>1. login'[c] = s /\ pc'[c] = to /\ request'[c] = None /\ creating'[c] = None /\ Alone(c)
  BY MoveTyped DEF Unissued, Alone
<1>2. OwnLogin(c)' /\ OwnRenewal(c)'
  BY <1>1 DEF OwnLogin, OwnRenewal
<1>. QED
  BY <1>1, <1>2, OwnBy DEF Unissued

\* ... when a login's first token is begun
LEMMA OwnIssue ==
  ASSUME Typed, Own, Grows, NEW c \in Clients, NEW s \in Steps, s.id \in DOMAIN users,
         IssueTokens(c, s), request[c] = None, OfItsPerson(s, users')
  PROVE  Own'
<1>. DEFINE token == IF s.refresh # None \/ s.access = None THEN RefreshToken(s) ELSE AccessToken(s, None)
<1>1. token \in Tokens
  <2>1. s.id \in UserIds
    BY UserRows DEF Typed, TypeOK
  <2>. QED
    BY <2>1, TokenTypesOfLogin DEF Typed, Tokens
<1>2. Create(c, token)
  BY DEF IssueTokens
<1>3. /\ token.user = s.id
      /\ token.type = "refresh" => token.external = s.refresh
      /\ token.type = "access" => /\ token.accessToken = None
                                  /\ token.external = s.access /\ token.refresh = None
  BY DEF RefreshToken, AccessToken
<1>. HIDE DEF token
<1>4. /\ pc'[c] = "purgeFind" /\ creating'[c] = token
      /\ \A d \in Clients \ {c} : pc'[d] = pc[d] /\ creating'[d] = creating[d]
  BY <1>1, <1>2, CreateTyped
<1>5. login'[c] = s /\ request'[c] = None /\ UNCHANGED issued /\ Alone(c)
  BY <1>4 DEF IssueTokens, Typed, TypeOK, Alone
<1>6. OwnLogin(c)' /\ OwnRenewal(c)'
  BY <1>3, <1>4, <1>5 DEF OwnLogin, OwnRenewal, BeforeTokens
<1>. QED
  BY <1>5, <1>6, OwnBy

\* the state in which a login step starts
LEMMA LoginAt ==
  ASSUME Typed, Own, NEW c \in Clients, login[c] # None
  PROVE  /\ login[c] \in Steps /\ request[c] = None /\ OfItsPerson(login[c], users)
         /\ login[c].id # None => login[c].id \in DOMAIN users
         /\ pc[c] \notin CreateAwaits => creating[c] = None
         /\ pc[c] \in BeforeTokens => login[c].access = None /\ login[c].refresh = None
  BY DEF Typed, TypeOK, Shape, LoginShape, Own, OwnLogin

LEMMA OwnThrow ==
  ASSUME Typed, Own, Grows, NEW c \in Clients, Throw(c), UNCHANGED issued
  PROVE  Own'
  BY ThrowAlone, OwnByEnd DEF Throw

LEMMA CallOwn ==
  ASSUME Typed, Own, Grows, NEW c \in Clients, Call(c)
  PROVE  Own'
<1>0. pc[c] = "idle" /\ creating[c] = None /\ request[c] = None /\ login[c] = None
  BY DEF Call, Initiate, CompleteLocal, CompleteRemote, Start, Request, Typed, Shape, LoginShape,
         RequestShape, CreateAwaits
<1>1. ASSUME NEW auth \in AuthTypes, NEW email \in Emails \cup {None}, NEW mfa \in BOOLEAN,
             Initiate(c, auth, email, mfa)
      PROVE  Own'
  <2>. DEFINE s == FirstStep(auth, email, mfa, calls + 1)
  <2>1. s \in Steps
    <3>1. calls + 1 \in Calls
      BY <1>1, LoginAssumption DEF Initiate, Start, Typed, TypeOK, Calls
    <3>. QED
      BY <3>1, LoginAssumption, FirstStepType
  <2>2. s.id = None /\ s.access = None /\ s.refresh = None
    BY DEF FirstStep
  <2>3. PICK to \in {"findUser", "restore", "populate"} : Move(c, s, to)
    BY <1>1 DEF Initiate, Start, FirstStep
  <2>4. UNCHANGED <<Unissued, pending>>
    BY <1>1 DEF Initiate, Start
  <2>. HIDE DEF s
  <2>5. to \in Awaits \ CreateAwaits /\ OfItsPerson(s, users')
    BY <2>2 DEF Awaits, CreateAwaits, OfItsPerson
  <2>. QED
    BY <1>0, <2>1, <2>2, <2>3, <2>4, <2>5, OwnMove
<1>2. ASSUME NEW t \in Steps, t.id = None, t.access = None, t.refresh = None, Start(c, t)
      PROVE  Own'
  <2>1. UNCHANGED Unissued /\ \E to \in {"findUser", "restore", "populate"} : Move(c, t, to)
    BY <1>2 DEF Start
  <2>2. PICK to \in {"findUser", "restore", "populate"} : Move(c, t, to)
    BY <2>1
  <2>3. to \in Awaits \ CreateAwaits /\ OfItsPerson(t, users')
    BY <1>2 DEF Awaits, CreateAwaits, OfItsPerson
  <2>. QED
    BY <1>0, <1>2, <2>1, <2>2, <2>3, OwnMove
<1>3. ASSUME NEW p \in issued, NEW refresh \in {q.refresh : q \in issued} \cup {None},
             Request(c, [pair |-> p, refresh |-> refresh, at |-> now]),
             UNCHANGED <<login, users, cache, pending, redeemed, overlaps>>
      PROVE  Own'
  <2>. DEFINE r == [pair |-> p, refresh |-> refresh, at |-> now]
  <2>1. /\ request'[c] \in {None, r} /\ Alone(c) /\ UNCHANGED <<creating, issued>>
    BY <1>0, <1>3 DEF Request, Respond, Reject, Typed, TypeOK, TokensTypeOK, Alone
  <2>2. r.pair \in issued' /\ (r.refresh # None => \E q \in issued' : q.refresh = r.refresh)
    BY <1>3, <2>1
  <2>. HIDE DEF r
  <2>3. OwnLogin(c)' /\ OwnRenewal(c)'
    BY <1>0, <1>3, <2>1, <2>2 DEF OwnLogin, OwnRenewal
  <2>. QED
    BY <1>3, <2>1, <2>3, OwnBy
<1>4. CASE \/ \E email \in Emails, mfa \in BOOLEAN : "local" \in AuthTypes /\ CompleteLocal(c, email, mfa)
           \/ \E auth \in AuthTypes \ {"local"}, email \in Emails : CompleteRemote(c, auth, email)
  BY <1>2, <1>4, CompleteIs
<1>. QED
  BY <1>1, <1>3, <1>4 DEF Call

\* up to the tokens
LEMMA LookupOwn ==
  ASSUME Typed, Own, Grows, NEW c \in Clients, FindUser(c) \/ RestoreCache(c) \/ Populate(c) \/ MFA(c)
  PROVE  Own'
<1>. DEFINE s == login[c]
<1>0. /\ s \in Steps /\ s # None /\ request[c] = None /\ creating[c] = None /\ OfItsPerson(s, users)
      /\ s.id # None => s.id \in DOMAIN users
      /\ s.access = None /\ s.refresh = None
  BY LoginAt DEF FindUser, RestoreCache, Populate, MFA, At, BeforeTokens, CreateAwaits
<1>1. CASE FindUser(c)
  <2>. DEFINE id == FirstRow(s.email)
              found == [s EXCEPT !.id = id, !.version = users[id].version]
              first == [found EXCEPT !.seen = users[id].version]
  <2>1. UNCHANGED <<users, pending>>
    BY <1>1 DEF FindUser, Others
  <2>2. CASE Throw(c) /\ UNCHANGED <<useHashmap, now, stored, issued>>
    BY <2>1, <2>2, OwnThrow
  <2>3. ASSUME id # 0, NEW t \in {found, first}, NEW to \in {"mfa", "findAgain", "restore"},
               Move(c, t, to), UNCHANGED Unissued
        PROVE  Own'
    <3>1. id \in DOMAIN users /\ users[id].email = s.email
      BY <2>3, FirstRowIsOne DEF Typed
    <3>2. /\ found \in Steps /\ found.email = s.email /\ found.id = id
          /\ found.access = s.access /\ found.refresh = s.refresh
      BY <1>0, <3>1, FoundType DEF Steps
    <3>a. /\ first \in Steps /\ first.email = s.email /\ first.id = id
          /\ first.access = s.access /\ first.refresh = s.refresh
      BY <1>0, <3>1, FoundType DEF Steps
    <3>3. t \in Steps /\ t.email = s.email /\ t.id = id /\ t.access = s.access /\ t.refresh = s.refresh
      BY <3>2, <3>a
    <3>4. OfItsPerson(t, users') /\ to \in Awaits \ CreateAwaits
      BY <1>0, <2>1, <3>1, <3>3 DEF OfItsPerson, Awaits, CreateAwaits
    <3>. HIDE DEF found, first, id
    <3>. QED
      BY <1>0, <2>1, <2>3, <3>3, <3>4, OwnMove
  <2>4. CASE id # 0 /\ Move(c, found, "restore") /\ UNCHANGED Unissued
    BY <2>3, <2>4
  <2>5. CASE id # 0 /\ LocalInitiate(c, first)
    <3>1. CASE Throw(c) /\ UNCHANGED <<useHashmap, now, stored, issued>>
      BY <2>2, <3>1
    <3>2. CASE Move(c, first, IF first.mfa THEN "mfa" ELSE "findAgain") /\ UNCHANGED Unissued
      <4>. HIDE DEF first, id
      <4>. QED
        BY <2>3, <2>5, <3>2
    <3>. QED
      BY <2>5, <3>1, <3>2 DEF LocalInitiate
  <2>. QED
    BY <1>1, <2>2, <2>4, <2>5 DEF FindUser
<1>2. CASE RestoreCache(c)
  <2>. DEFINE t == Restore(s, cache[CacheKey(s)])
              to == IF s.auth = "local" THEN "mfa" ELSE "exchange"
  <2>1. Keyed(s)
    BY <1>2 DEF RestoreCache, At, Typed, Shape, LoginShape
  <2>2. /\ t \in Steps /\ t.email = s.email /\ t.id = s.id /\ t.access = s.access /\ t.refresh = s.refresh
        /\ t.auth = s.auth
    BY <1>0, <2>1, RestoreType
  <2>3. /\ \/ s.auth = "local" /\ IssueTokens(c, t)
           \/ Move(c, t, to) /\ UNCHANGED Unissued
        /\ UNCHANGED users
    BY <1>2, <2>2 DEF RestoreCache, Others
  <2>. HIDE DEF t
  <2>4. OfItsPerson(t, users') /\ to \in Awaits \ CreateAwaits
    BY <1>0, <2>2, <2>3 DEF OfItsPerson, Awaits, CreateAwaits
  <2>. HIDE DEF to
  <2>5. CASE s.auth = "local" /\ IssueTokens(c, t)
    BY <1>0, <2>1, <2>2, <2>4, <2>5, OwnIssue DEF Keyed
  <2>6. CASE Move(c, t, to) /\ UNCHANGED Unissued
    BY <1>0, <2>2, <2>4, <2>6, OwnMove
  <2>. QED
    BY <2>3, <2>5, <2>6
<1>3. CASE Populate(c)
  <2>1. CASE Throw(c) /\ UNCHANGED <<useHashmap, now, stored, issued, pending>>
    BY <2>1, OwnThrow
  <2>2. CASE pending' = pending \cup {s} /\ End(c) /\ UNCHANGED Unissued
    <3>1. login'[c] = None /\ request'[c] = None /\ Alone(c)
      BY <1>0, <2>2, MoveTyped DEF End, Awaits, Alone, Unissued
    <3>. QED
      BY <1>0, <2>2, <3>1, OwnByEnd DEF Unissued
  <2>. QED
    BY <1>3, <2>1, <2>2 DEF Populate
<1>4. CASE MFA(c)
  <2>1. UNCHANGED <<users, pending>> /\ OfItsPerson(s, users')
    BY <1>0, <1>4 DEF MFA, Others, OfItsPerson
  <2>2. CASE Throw(c) /\ UNCHANGED <<useHashmap, now, stored, issued>>
    BY <2>1, <2>2, OwnThrow
  <2>3. CASE IssueTokens(c, s)
    <3>1. s.id \in DOMAIN users
      BY <1>0, <1>4 DEF MFA, At, Typed, Shape, LoginShape
    <3>. QED
      BY <1>0, <2>1, <2>3, <3>1, OwnIssue
  <2>4. CASE Move(c, s, "populate") /\ UNCHANGED Unissued
    <3>1. "populate" \in Awaits \ CreateAwaits
      BY DEF Awaits, CreateAwaits
    <3>. QED
      BY <1>0, <2>1, <2>4, <3>1, OwnMove
  <2>. QED
    BY <1>4, <2>2, <2>3, <2>4 DEF MFA
<1>. QED
  BY <1>1, <1>2, <1>3, <1>4

\* the tokens of a login
LEMMA LoginOwn ==
  ASSUME Typed, Own, Grows, NEW c \in Clients, LoginStep(c)
  PROVE  Own'
<1>. DEFINE s == login[c]
<1>1. CASE FindAgain(c)
  <2>1. /\ s \in Steps /\ request[c] = None /\ OfItsPerson(s, users) /\ s.id \in DOMAIN users
    BY <1>1, LoginAt DEF FindAgain, At, Typed, Shape, LoginShape
  <2>2. IssueTokens(c, s) /\ UNCHANGED <<users, pending>>
    BY <1>1 DEF FindAgain, Others
  <2>. QED
    BY <2>1, <2>2, OwnIssue DEF OfItsPerson
<1>2. CASE Exchange(c)
  <2>1. /\ s \in Steps /\ request[c] = None /\ creating[c] = None /\ OfItsPerson(s, users)
        /\ s.access = None /\ s.refresh = None /\ s.email \in Emails
    BY <1>2, LoginAt DEF Exchange, At, BeforeTokens, CreateAwaits, Typed, Shape, LoginShape
  <2>2. UNCHANGED <<users, pending>>
    BY <1>2 DEF Exchange
  <2>3. CASE Throw(c) /\ UNCHANGED <<useHashmap, now, stored, issued>>
    BY <2>2, <2>3, OwnThrow
  <2>4. ASSUME NEW refresh \in {None, s.email}, Move(c, WithReturnedTokens(s, refresh), "findByEmail"),
               UNCHANGED Unissued
        PROVE  Own'
    <3>. DEFINE t == WithReturnedTokens(s, refresh)
    <3>1. /\ t \in Steps /\ t.email = s.email /\ t.id = s.id
          /\ t.access = s.access \/ t.access.email = s.email
          /\ t.refresh = s.refresh \/ t.refresh \in {None, s.email}
      BY <2>1, ReturnedType
    <3>. HIDE DEF t
    <3>2. OfItsPerson(t, users') /\ "findByEmail" \in (Awaits \ CreateAwaits) \ BeforeTokens
      BY <2>1, <2>2, <3>1 DEF OfItsPerson, Awaits, CreateAwaits, BeforeTokens
    <3>3. Move(c, t, "findByEmail")
      BY <2>4 DEF t
    <3>. QED
      BY <2>1, <2>2, <2>4, <3>1, <3>2, <3>3, OwnMove
  <2>. QED
    BY <1>2, <2>3, <2>4 DEF Exchange
<1>3. CASE FindByEmail(c)
  <2>. DEFINE id == FirstRow(s.email)
              t == [s EXCEPT !.id = id, !.version = users[id].version]
  <2>1. /\ s \in Steps /\ request[c] = None /\ creating[c] = None /\ OfItsPerson(s, users)
    BY <1>3, LoginAt DEF FindByEmail, At, CreateAwaits
  <2>2. UNCHANGED <<users, pending>>
    BY <1>3 DEF FindByEmail
  <2>3. CASE Throw(c) /\ UNCHANGED <<useHashmap, now, stored, issued>>
    BY <2>2, <2>3, OwnThrow
  <2>4. CASE id # 0 /\ IssueTokens(c, t)
    <3>1. id \in DOMAIN users /\ users[id].email = s.email
      BY <2>4, FirstRowIsOne DEF Typed
    <3>2. t \in Steps
      BY <2>1, <3>1, FoundType
    <3>3. t.id = id /\ t.email = s.email /\ t.access = s.access /\ t.refresh = s.refresh
      BY <2>1 DEF Steps
    <3>4. IssueTokens(c, t)
      BY <2>4
    <3>. HIDE DEF t, id
    <3>5. OfItsPerson(t, users')
      BY <2>1, <2>2, <3>1, <3>3 DEF OfItsPerson
    <3>. QED
      BY <2>1, <2>2, <3>1, <3>2, <3>3, <3>4, <3>5, OwnIssue
  <2>5. CASE Move(c, s, "createUser") /\ UNCHANGED Unissued
    <3>1. OfItsPerson(s, users') /\ "createUser" \in (Awaits \ CreateAwaits) \ BeforeTokens
      BY <2>1, <2>2 DEF OfItsPerson, Awaits, CreateAwaits, BeforeTokens
    <3>. QED
      BY <2>1, <2>2, <2>5, <3>1, OwnMove
  <2>. QED
    BY <1>3, <2>3, <2>4, <2>5 DEF FindByEmail
<1>4. CASE CreateUser(c)
  <2>. DEFINE t == [s EXCEPT !.id = Len(users) + 1]
  <2>1. /\ s \in Steps /\ request[c] = None /\ creating[c] = None /\ OfItsPerson(s, users)
        /\ s.email \in Emails
    BY <1>4, LoginAt DEF CreateUser, At, CreateAwaits, Typed, Shape, LoginShape
  <2>2. /\ Len(users) + 1 \in UserIds /\ users'[Len(users) + 1].email = s.email
        /\ Move(c, t, "getUser") /\ UNCHANGED <<Unissued, pending>>
    BY <1>4, TokensAssumption DEF CreateUser, Typed, UsersShape, UserIds
  <2>3. t \in Steps /\ t.id = Len(users) + 1 /\ t.email = s.email /\ t.access = s.access
        /\ t.refresh = s.refresh
    BY <2>1, <2>2 DEF Steps
  <2>. HIDE DEF t
  <2>4. OfItsPerson(t, users') /\ "getUser" \in (Awaits \ CreateAwaits) \ BeforeTokens
    BY <2>1, <2>2, <2>3 DEF OfItsPerson, Awaits, CreateAwaits, BeforeTokens
  <2>. QED
    BY <2>1, <2>2, <2>3, <2>4, OwnMove
<1>5. CASE GetUser(c)
  <2>. DEFINE t == [s EXCEPT !.version = users[s.id].version]
  <2>1. /\ s \in Steps /\ request[c] = None /\ OfItsPerson(s, users) /\ s.id \in DOMAIN users
    BY <1>5, LoginAt DEF GetUser, At, Typed, Shape, LoginShape
  <2>2. t \in Steps
    BY <2>1, FoundType
  <2>3. t.id = s.id /\ t.email = s.email /\ t.access = s.access /\ t.refresh = s.refresh
    BY <2>1 DEF Steps
  <2>4. IssueTokens(c, t) /\ UNCHANGED <<users, pending>>
    BY <1>5 DEF GetUser, Others
  <2>. HIDE DEF t
  <2>5. OfItsPerson(t, users')
    BY <2>1, <2>3, <2>4 DEF OfItsPerson
  <2>. QED
    BY <2>1, <2>2, <2>3, <2>4, <2>5, OwnIssue
<1>6. CASE SaveRefresh(c)
  <2>. DEFINE token == AccessToken(s, creating[c])
  <2>1. /\ s \in Steps /\ request[c] = None /\ OfItsPerson(s, users) /\ s.id \in UserIds
    BY <1>6, LoginAt, UserRows DEF SaveRefresh, At, Typed, TypeOK, Shape, LoginShape, CreateAwaits
  <2>2. /\ creating[c] \in RefreshTokens /\ creating[c] # None
        /\ creating[c].user = s.id /\ creating[c].external = s.refresh
    <3>1. creating[c] \in RefreshTokens /\ creating[c] # None
      BY <1>6, SaveTyped, NoneAssumption DEF SaveRefresh, Tokens, AccessTokens
    <3>. QED
      BY <1>6, <3>1 DEF SaveRefresh, At, Own, OwnLogin
  <2>3. token \in Tokens /\ token.user = s.id /\ token.external = s.access /\ token.type = "access"
        /\ token.refresh = creating[c] /\ token.accessToken = None
    BY <2>1, <2>2, TokenTypesOfLogin DEF Typed, Tokens, AccessToken
  <2>4. Create(c, token) /\ UNCHANGED <<users, pending, issued, login, request>>
    BY <1>6 DEF SaveRefresh, Others
  <2>. HIDE DEF token
  <2>5. pc'[c] = "purgeFind" /\ creating'[c] = token /\ Alone(c)
    BY <2>3, <2>4, CreateTyped DEF Alone
  <2>6. OwnLogin(c)' /\ OwnRenewal(c)'
    BY <2>1, <2>2, <2>3, <2>4, <2>5 DEF OwnLogin, OwnRenewal, OfItsPerson, BeforeTokens
  <2>. QED
    BY <2>4, <2>5, <2>6, OwnBy
<1>7. CASE SaveAccess(c)
  <2>1. /\ s \in Steps /\ s # None /\ request[c] = None /\ OfItsPerson(s, users) /\ s.id \in DOMAIN users
        /\ s.id # None
    BY <1>7, LoginAt DEF SaveAccess, At, Typed, Shape, LoginShape, CreateAwaits
  <2>2. /\ creating[c] \in AccessTokens /\ creating[c] # None /\ creating[c].user = s.id
        /\ creating[c].external = s.access /\ creating[c].accessToken = None
        /\ creating[c].refresh # None => /\ creating[c].refresh.user = s.id
                                         /\ creating[c].refresh.external = s.refresh
    <3>1. creating[c] \in AccessTokens /\ creating[c] # None /\ creating[c].type = "access"
      BY <1>7, SaveTyped, NoneAssumption DEF SaveAccess, Tokens, RefreshTokens
    <3>. QED
      BY <1>7, <2>1, <3>1 DEF SaveAccess, Own, OwnLogin
  <2>. DEFINE p == [access |-> creating[c], refresh |-> creating[c].refresh, email |-> s.email]
  <2>3. issued' = issued \cup {p} /\ UNCHANGED <<users, pending, request>>
    BY <1>7 DEF SaveAccess, Others
  <2>4. /\ p.access = creating[c] /\ p.refresh = creating[c].refresh /\ p.email = s.email
    OBVIOUS
  <2>. HIDE DEF p
  <2>5. OwnPair(p, users')
    BY <2>1, <2>2, <2>3, <2>4 DEF OwnPair, OwnRefresh, OfItsPerson
  <2>6. login'[c] = None /\ Alone(c)
    BY <1>7, MoveTyped DEF SaveAccess, End, Awaits, Alone, Typed, TypeOK, TokensTypeOK
  <2>. QED
    BY <2>1, <2>3, <2>5, <2>6, OwnByEnd
<1>. QED
  BY <1>1, <1>2, <1>3, <1>4, <1>5, <1>6, <1>7, LookupOwn DEF LoginStep

LEMMA TokensOwn ==
  ASSUME Typed, Own, Grows, NEW c \in Clients, TokenStepIn(c)
  PROVE  Own'
<1>0. UNCHANGED <<users, pending>>
  BY DEF TokenStepIn, Others
<1>1. CASE PurgeFind(c) \/ PurgeRemove(c)
  <2>1. /\ pc'[c] \in {"save", "purgeRemove"} /\ \A d \in Clients \ {c} : pc'[d] = pc[d]
    BY <1>1 DEF PurgeFind, PurgeRemove, Typed, TypeOK
  <2>2. UNCHANGED <<creating, request, issued, login>>
    BY <1>1, <2>1 DEF PurgeFind, PurgeRemove, TokenStepIn
  <2>3. OwnLogin(c)' /\ OwnRenewal(c)'
    BY <1>0, <2>1, <2>2 DEF Own, OwnLogin, OwnRenewal, BeforeTokens, OfItsPerson
  <2>. QED
    BY <1>0, <2>1, <2>2, <2>3, OwnBy DEF Alone
<1>2. CASE SaveAndThrow(c) \/ Fail(c)
  <2>1. login' = [login EXCEPT ![c] = None] /\ EndByThrow(c) /\ UNCHANGED issued
    BY <1>2 DEF SaveAndThrow, Fail, TokenStepIn, EndByThrow, Typed, TypeOK
  <2>. QED
    BY <1>0, <2>1, ThrowAlone, OwnByEnd
<1>3. CASE RefreshExternal(c)
  <2>. DEFINE r == request[c]
              external == [email |-> SentRefresh(r).external, exp |-> now + ExternalLifetime]
              token == Renewed(r, external)
  <2>1. /\ pc[c] = "refreshExternal" /\ r \in Requests /\ SentRefresh(r) # None /\ login[c] = None
        /\ r # None
    BY <1>3 DEF RefreshExternal, Typed, TypeOK, TokensTypeOK, Shape, RequestShape, LoginShape
  <2>2. UNCHANGED issued
    BY <1>3 DEF RefreshExternal
  <2>3. CASE /\ SentRefresh(r).external # None
             /\ Create(c, token) /\ UNCHANGED <<request, response>>
    <3>1. /\ SentRefresh(r) = r.refresh /\ r.pair \in issued
          /\ r.refresh # None => \E q \in issued : q.refresh = r.refresh
          /\ SentRefresh(r) \in RefreshTokens /\ r.pair.access \in AccessTokens
      BY <2>1 DEF SentRefresh, Own, OwnRenewal, Requests, Pairs
    <3>2. external \in ExternalTokens /\ external.email = r.refresh.external
      BY <2>1, <2>3, <3>1, TokensAssumption
         DEF ExternalTokens, RefreshTokens, Typed, TypeOK, TokensTypeOK
    <3>. HIDE DEF external
    <3>3. token \in Tokens /\ token.user = r.pair.access.user /\ token.refresh = r.pair.access.refresh
          /\ token.external = external /\ token.accessToken = r.refresh
      BY <2>1, <3>1, <3>2, RenewedType DEF Typed, Tokens, Renewed, AccessTokens
    <3>. HIDE DEF token
    <3>4. pc'[c] = "purgeFind" /\ creating'[c] = token
          /\ \A d \in Clients \ {c} : pc'[d] = pc[d] /\ creating'[d] = creating[d]
      BY <2>3, <3>3, CreateTyped
    <3>5. UNCHANGED login
      BY <3>4 DEF TokenStepIn
    <3>6. OwnLogin(c)' /\ OwnRenewal(c)'
      BY <2>1, <2>2, <2>3, <3>1, <3>2, <3>3, <3>4, <3>5 DEF OwnLogin, OwnRenewal
    <3>. QED
      BY <1>0, <2>2, <2>3, <3>4, <3>5, <3>6, OwnBy DEF Alone
  <2>4. CASE Reject(c) /\ UNCHANGED creating
    <3>1. pc'[c] = "idle" /\ request'[c] = None
          /\ \A d \in Clients \ {c} : pc'[d] = pc[d] /\ request'[d] = request[d]
      BY <2>4 DEF Reject, Typed, TypeOK, TokensTypeOK
    <3>2. login' = [login EXCEPT ![c] = None]
      BY <3>1 DEF TokenStepIn
    <3>3. Alone(c) /\ login'[c] = None
      BY <2>4, <3>1, <3>2 DEF Alone, Typed, TypeOK
    <3>. QED
      BY <1>0, <2>2, <3>1, <3>3, OwnByEnd
  <2>. QED
    BY <1>3, <2>3, <2>4 DEF RefreshExternal
<1>4. CASE RenewSave(c)
  <2>. DEFINE r == request[c]
              p == [access |-> creating[c], refresh |-> SentRefresh(r), email |-> r.pair.email]
  <2>1. /\ pc[c] = "save" /\ r \in Requests /\ r # None /\ SentRefresh(r) = r.refresh
        /\ r.pair \in issued /\ OwnPair(r.pair, users) /\ creating[c] # None
        /\ r.refresh # None /\ \E q \in issued : q.refresh = r.refresh /\ OwnPair(q, users)
    BY <1>4 DEF RenewSave, Save, SentRefresh, Own, OwnRenewal, Typed, TypeOK, TokensTypeOK, Shape,
                RequestShape, CreateAwaits
  <2>2. /\ creating[c].user = r.pair.access.user
        /\ creating[c].refresh = r.pair.access.refresh
        /\ creating[c].accessToken = r.refresh
        /\ creating[c].external.email = r.refresh.external
    BY <2>1 DEF Own, OwnRenewal
  <2>3. issued' = issued \cup {p}
    BY <1>4 DEF RenewSave
  <2>4. p.access = creating[c] /\ p.refresh = r.refresh /\ p.email = r.pair.email
    BY <2>1
  <2>. HIDE DEF p
  <2>5. OwnPair(p, users')
    BY <1>0, <2>1, <2>2, <2>4 DEF OwnPair
  <2>6. pc'[c] = "idle" /\ request'[c] = None
        /\ \A d \in Clients \ {c} : /\ pc'[d] = pc[d] /\ request'[d] = request[d]
                                    /\ creating'[d] = creating[d]
    BY <1>4 DEF RenewSave, Typed, TypeOK, TokensTypeOK
  <2>7. login' = [login EXCEPT ![c] = None]
    BY <2>6 DEF TokenStepIn
  <2>8. Alone(c) /\ login'[c] = None
    BY <2>6, <2>7 DEF Alone, Typed, TypeOK
  <2>. QED
    BY <1>0, <2>3, <2>5, <2>6, <2>8, OwnByEnd
<1>. QED
  BY <1>1, <1>2, <1>3, <1>4 DEF TokenStepIn, TokenStep

LEMMA NextOwn == Typed /\ Own /\ [Next]_vars => Own'
<1>. SUFFICES ASSUME Typed, Own, [Next]_vars
              PROVE  Own'
  OBVIOUS
<1>1. Grows
  BY UsersGrow
<1>2. ASSUME NEW c \in Clients, Step(c)
      PROVE  Own'
  BY <1>1, <1>2, LoginOwn, TokensOwn DEF Step, TokenStepIn
<1>3. CASE Environment \/ UNCHANGED vars
  <2>1. UNCHANGED <<pc, login, request, creating, issued, pending>>
    BY <1>3 DEF Environment, Tick, EditUser, ExpireCached, tokenVars, vars
  <2>. QED
    BY <1>1, <2>1, OthersOwn, PairsStay DEF Own
<1>. QED
  BY <1>1, <1>2, <1>3, CallOwn DEF Next

\* Whoever logs in, renews or is edited meanwhile, and whatever access and refresh tokens
\* are sent together: an issued access token is of the row of the person it was issued for
\* and contains a refresh token of that user.  A login's contains the refresh token beside
\* it; one that was renewed names the refresh token it was renewed with, and its external
\* token is that token's.
THEOREM PairsTogether == Spec => []PairsBelongTogether
<1>1. Own => PairsBelongTogether
  BY DEF Own, OwnPair, OwnRefresh, PairsBelongTogether
<1>. QED
  BY <1>1, InitTyped, NextTyped, InitOwn, NextOwn, PTL DEF Spec

-----------------------------------------------------------------------------
(* One row per email.                                                      *)

UniqueAtStart ==
  \A i, j \in DOMAIN InitialUsers : InitialUsers[i].email = InitialUsers[j].email => i = j

\* a login about to create a row knows that there is none, and that nobody else is
AboutToCreate(c) == login[c] # None /\ pc[c] = "createUser"

Alike(c, d) == AboutToCreate(c) /\ AboutToCreate(d) /\ login[c].email = login[d].email

Creators ==
  /\ \A c \in Clients :
       AboutToCreate(c) =>
         \/ login[c].email \in overlaps
         \/ \A id \in DOMAIN users : users[id].email # login[c].email
  /\ \A c, d \in Clients : c # d /\ Alike(c, d) => login[c].email \in overlaps

UniqueInv == EmailsUniqueUnlessRaced /\ Creators

LEMMA OverlapsGrow ==
  ASSUME [Next]_vars
  PROVE  overlaps \subseteq overlaps'
<1>1. ASSUME NEW c \in Clients, Step(c)
      PROVE  overlaps \subseteq overlaps'
  BY <1>1 DEF Step, LoginStep, FindUser, RestoreCache, Populate, MFA, FindAgain, Exchange, FindByEmail,
              CreateUser, GetUser, SaveRefresh, SaveAccess, Others
<1>2. ASSUME NEW c \in Clients, Call(c)
      PROVE  overlaps \subseteq overlaps'
  BY <1>2 DEF Call, Initiate, CompleteLocal, CompleteRemote, Start
<1>3. CASE Environment \/ UNCHANGED vars
  BY <1>3 DEF Environment, EditUser, ExpireCached, vars
<1>. QED
  BY <1>1, <1>2, <1>3 DEF Next

\* rows that are not new are what they were
LEMMA UniqueStays ==
  ASSUME Typed, UniqueInv, Grows, DOMAIN users' = DOMAIN users, overlaps \subseteq overlaps',
         \A c \in Clients : AboutToCreate(c)' => AboutToCreate(c) /\ login'[c].email = login[c].email
  PROVE  UniqueInv'
<1>1. \A id \in DOMAIN users : users'[id].email = users[id].email
  BY DEF Grows
<1>2. EmailsUniqueUnlessRaced'
  BY <1>1 DEF UniqueInv, EmailsUniqueUnlessRaced
<1>3. Creators'
  BY <1>1 DEF UniqueInv, Creators, Alike
<1>. QED
  BY <1>2, <1>3 DEF UniqueInv

LEMMA FindByEmailUnique ==
  ASSUME Typed, UniqueInv, NEW c \in Clients, FindByEmail(c), Grows, overlaps \subseteq overlaps'
  PROVE  UniqueInv'
<1>. DEFINE s == login[c]
<1>1. s \in Steps /\ s # None /\ UNCHANGED users
  BY DEF FindByEmail, At, Typed, TypeOK
<1>2. CASE Throw(c) \/ IssueTokens(c, [s EXCEPT !.id = FirstRow(s.email), !.version = users[FirstRow(s.email)].version])
  <2>1. \A d \in Clients : AboutToCreate(d)' => d # c /\ AboutToCreate(d) /\ login'[d] = login[d]
    BY <1>2 DEF Throw, EndByThrow, IssueTokens, Create, AboutToCreate, Typed, TypeOK
  <2>. QED
    BY <1>1, <2>1, UniqueStays
<1>3. CASE /\ FirstRow(s.email) = 0 /\ Move(c, s, "createUser")
           /\ overlaps' = overlaps \cup IF Searching(c, s) # {} THEN {s.email} ELSE {}
  <2>1. \A id \in DOMAIN users : users[id].email # s.email
    BY <1>3, FirstRowIsOne DEF Typed
  <2>2. /\ pc'[c] = "createUser" /\ login'[c] = s
        /\ \A d \in Clients \ {c} : pc'[d] = pc[d] /\ login'[d] = login[d]
    BY <1>1, <1>3, MoveTyped DEF Awaits
  <2>3. EmailsUniqueUnlessRaced'
    BY <1>1 DEF UniqueInv, EmailsUniqueUnlessRaced
  <2>4. ASSUME NEW d \in Clients, AboutToCreate(d)'
        PROVE  \/ login'[d].email \in overlaps'
               \/ \A id \in DOMAIN users' : users'[id].email # login'[d].email
    <3>1. CASE d = c
      BY <1>1, <2>1, <2>2, <3>1
    <3>2. CASE d # c
      BY <1>1, <2>2, <2>4, <3>2 DEF AboutToCreate, UniqueInv, Creators
    <3>. QED
      BY <3>1, <3>2
  <2>5. ASSUME NEW d \in Clients, d # c, AboutToCreate(d)', login'[d].email = s.email
        PROVE  s.email \in overlaps'
    <3>1. AboutToCreate(d) /\ login[d].email = s.email
      BY <2>2, <2>5 DEF AboutToCreate
    <3>2. login[d].auth # "local"
      BY <3>1 DEF AboutToCreate, Typed, Shape, LoginShape
    <3>3. d \in Searching(c, s)
      BY <2>5, <3>1, <3>2 DEF Searching, AboutToCreate
    <3>. QED
      BY <1>3, <3>3
  <2>6. ASSUME NEW d \in Clients, NEW e \in Clients, d # e, Alike(d, e)'
        PROVE  login'[d].email \in overlaps'
    <3>1. CASE d # c /\ e # c
      BY <2>2, <2>6, <3>1 DEF Alike, AboutToCreate, UniqueInv, Creators
    <3>2. CASE d = c
      BY <2>2, <2>5, <2>6, <3>2 DEF Alike
    <3>3. CASE e = c
      BY <2>2, <2>5, <2>6, <3>3 DEF Alike
    <3>. QED
      BY <3>1, <3>2, <3>3
  <2>. QED
    BY <2>3, <2>4, <2>6 DEF UniqueInv, Creators
<1>. QED
  BY <1>2, <1>3 DEF FindByEmail

LEMMA CreateUserUnique ==
  ASSUME Typed, UniqueInv, NEW c \in Clients, CreateUser(c)
  PROVE  UniqueInv'
<1>. DEFINE s == login[c]
            t == [login[c] EXCEPT !.id = Len(users) + 1]
<1>1. s \in Steps /\ AboutToCreate(c) /\ UNCHANGED overlaps /\ Move(c, t, "getUser")
  BY DEF CreateUser, At, AboutToCreate, Typed, TypeOK
<1>2. /\ DOMAIN users = 1 .. Len(users) /\ DOMAIN users' = 1 .. (Len(users) + 1) /\ Len(users) \in Nat
      /\ \A id \in DOMAIN users : users'[id] = users[id]
      /\ users'[Len(users) + 1].email = s.email
      /\ Len(users) + 1 \in UserIds
  BY TokensAssumption DEF CreateUser, Typed, UsersShape, UserIds
<1>3. t \in Steps
  BY <1>1, <1>2 DEF Steps
<1>. HIDE DEF t
<1>4. pc'[c] = "getUser" /\ \A d \in Clients \ {c} : pc'[d] = pc[d] /\ login'[d] = login[d]
  BY <1>1, <1>3, MoveTyped DEF Awaits
<1>5. \A d \in Clients : AboutToCreate(d)' => d # c /\ AboutToCreate(d) /\ login'[d] = login[d]
  BY <1>4 DEF AboutToCreate
<1>6. s.email \in overlaps \/ \A id \in DOMAIN users : users[id].email # s.email
  BY <1>1 DEF UniqueInv, Creators
<1>7. EmailsUniqueUnlessRaced'
  <2>. SUFFICES ASSUME NEW i \in DOMAIN users', NEW j \in DOMAIN users', i # j,
                       users'[i].email = users'[j].email
                PROVE  users'[i].email \in overlaps
    BY <1>1 DEF EmailsUniqueUnlessRaced
  <2>1. CASE i \in DOMAIN users /\ j \in DOMAIN users
    BY <1>2, <2>1 DEF UniqueInv, EmailsUniqueUnlessRaced
  <2>2. CASE i = Len(users) + 1 /\ j \in DOMAIN users
    BY <1>2, <1>6, <2>2
  <2>3. CASE j = Len(users) + 1 /\ i \in DOMAIN users
    BY <1>2, <1>6, <2>3
  <2>. QED
    BY <1>2, <2>1, <2>2, <2>3
<1>8. ASSUME NEW d \in Clients, AboutToCreate(d)'
      PROVE  \/ login'[d].email \in overlaps'
             \/ \A id \in DOMAIN users' : users'[id].email # login'[d].email
  <2>1. d # c /\ AboutToCreate(d) /\ login'[d] = login[d]
    BY <1>5, <1>8
  <2>2. CASE login[d].email = s.email
    BY <1>1, <2>1, <2>2 DEF UniqueInv, Creators, Alike
  <2>3. CASE login[d].email # s.email
    BY <1>1, <1>2, <2>1, <2>3 DEF UniqueInv, Creators
  <2>. QED
    BY <2>2, <2>3
<1>9. \A d, e \in Clients : d # e /\ Alike(d, e)' => login'[d].email \in overlaps'
  BY <1>1, <1>5 DEF UniqueInv, Creators, Alike
<1>. QED
  BY <1>7, <1>8, <1>9 DEF UniqueInv, Creators

LEMMA NextUnique == Typed /\ UniqueInv /\ [Next]_vars => UniqueInv'
<1>. SUFFICES ASSUME Typed, UniqueInv, [Next]_vars
              PROVE  UniqueInv'
  OBVIOUS
<1>1. Grows /\ overlaps \subseteq overlaps'
  BY UsersGrow, OverlapsGrow
<1>2. ASSUME NEW c \in Clients, Step(c), ~CreateUser(c), ~FindByEmail(c)
      PROVE  UniqueInv'
  <2>1. UNCHANGED users
    BY <1>2 DEF Step, LoginStep, FindUser, RestoreCache, Populate, MFA, FindAgain, Exchange,
                GetUser, SaveRefresh, SaveAccess, Others
  <2>2. \A d \in Clients : AboutToCreate(d)' => AboutToCreate(d) /\ login'[d] = login[d]
    <3>1. CASE LoginStep(c)
      <4>1. \A d \in Clients \ {c} : pc'[d] = pc[d] /\ login'[d] = login[d]
        BY <1>2, <3>1 DEF LoginStep, FindUser, LocalInitiate, RestoreCache, Populate, MFA, FindAgain, Exchange,
                          GetUser, SaveRefresh, SaveAccess, IssueTokens, Create, Move, End, Throw, EndByThrow,
                          Typed, TypeOK
      <4>2. \E to \in Awaits \ {"createUser"} : pc' = [pc EXCEPT ![c] = to]
        BY <1>2, <3>1 DEF LoginStep, FindUser, LocalInitiate, RestoreCache, Populate, MFA, FindAgain, Exchange,
                          GetUser, SaveRefresh, SaveAccess, IssueTokens, Create, Move, End, Throw, EndByThrow,
                          Awaits
      <4>3. pc'[c] # "createUser"
        BY <4>2 DEF Typed, TypeOK
      <4>. QED
        BY <4>1, <4>3 DEF AboutToCreate
    <3>2. CASE TokenStepIn(c)
      <4>1. \A d \in Clients \ {c} : login'[d] = login[d]
        BY <3>2 DEF TokenStepIn, Typed, TypeOK
      <4>2. \E to \in Awaits \ {"createUser"} : pc' = [pc EXCEPT ![c] = to]
        BY <3>2 DEF TokenStepIn, TokenStep, PurgeFind, PurgeRemove, SaveAndThrow, EndByThrow, RefreshExternal,
                    Create, Reject, RenewSave, Fail, Awaits
      <4>. QED
        BY <4>1, <4>2 DEF AboutToCreate, Typed, TypeOK
    <3>. QED
      BY <1>2, <3>1, <3>2 DEF Step, TokenStepIn
  <2>. QED
    BY <1>1, <2>1, <2>2, UniqueStays
<1>3. ASSUME NEW c \in Clients, Call(c)
      PROVE  UniqueInv'
  <2>1. UNCHANGED users
    BY <1>3 DEF Call, Initiate, CompleteLocal, CompleteRemote, Start
  <2>0. /\ \E to \in Awaits \ {"createUser"} : pc' = [pc EXCEPT ![c] = to]
        /\ UNCHANGED login \/ \E s : login' = [login EXCEPT ![c] = s]
    <3>1. ASSUME NEW s, Start(c, s)
          PROVE  /\ \E to \in Awaits \ {"createUser"} : pc' = [pc EXCEPT ![c] = to]
                 /\ \E t : login' = [login EXCEPT ![c] = t]
      BY <3>1 DEF Start, Move, Awaits
    <3>2. ASSUME NEW r, Request(c, r)
          PROVE  \E to \in Awaits \ {"createUser"} : pc' = [pc EXCEPT ![c] = to]
      BY <3>2 DEF Request, Respond, Reject, Awaits
    <3>. QED
      BY <1>3, <3>1, <3>2 DEF Call, Initiate, CompleteLocal, CompleteRemote
  <2>2. \A d \in Clients \ {c} : pc'[d] = pc[d] /\ login'[d] = login[d]
    BY <2>0 DEF Typed, TypeOK
  <2>3. pc'[c] # "createUser"
    BY <2>0 DEF Typed, TypeOK
  <2>4. \A d \in Clients : AboutToCreate(d)' => AboutToCreate(d) /\ login'[d] = login[d]
    BY <2>2, <2>3 DEF AboutToCreate
  <2>. QED
    BY <1>1, <2>1, <2>4, UniqueStays
<1>4. CASE Environment \/ UNCHANGED vars
  <2>1. UNCHANGED <<pc, login>> /\ DOMAIN users' = DOMAIN users
    BY <1>4 DEF Environment, Tick, EditUser, ExpireCached, tokenVars, vars, Typed, UsersShape
  <2>. QED
    BY <1>1, <2>1, UniqueStays DEF AboutToCreate
<1>. QED
  BY <1>1, <1>2, <1>3, <1>4, FindByEmailUnique, CreateUserUnique DEF Next, Step, LoginStep

\* When no two rows share an email at the start, only logins of one email that overlapped
\* between finding nobody and creating the row leave two.
THEOREM EmailsUnique ==
  ASSUME UniqueAtStart
  PROVE  Spec => []EmailsUniqueUnlessRaced
<1>1. Init => UniqueInv
  BY DEF Init, TokensInit, UniqueAtStart, UniqueInv, EmailsUniqueUnlessRaced, Creators, AboutToCreate,
         Alike
<1>2. UniqueInv => EmailsUniqueUnlessRaced
  BY DEF UniqueInv
<1>. QED
  BY <1>1, <1>2, InitTyped, NextTyped, NextUnique, PTL DEF Spec

-----------------------------------------------------------------------------
(* Requests.                                                               *)

RenewsAs(c) ==
  request[c] # None =>
    LET r == request[c]
        token == creating[c]
    IN  /\ UsersService
        /\ r.at <= now
        /\ r.pair.access.exp # None => r.at < r.pair.access.exp
        /\ token # None => /\ token.user = r.pair.access.user
                           /\ token.refresh = r.pair.access.refresh
                           /\ token.external.exp >= r.at + ExternalLifetime

Renewals == \A c \in Clients : RenewsAs(c)

\* a step that is no request's leaves responses or takes one away
LEMMA RequestsStay ==
  ASSUME Renewals, RequestsAsTheirUser, UNCHANGED now,
         \A d \in Clients : /\ request'[d] = None \/ (request'[d] = request[d] /\ creating'[d] = creating[d])
                            /\ response'[d] \in {None, response[d]}
  PROVE  Renewals' /\ RequestsAsTheirUser'
<1>1. Renewals'
  BY DEF Renewals, RenewsAs
<1>2. RequestsAsTheirUser'
  BY DEF RequestsAsTheirUser
<1>. QED
  BY <1>1, <1>2

LEMMA RequestRenews ==
  ASSUME Typed, Renewals, RequestsAsTheirUser, NEW c \in Clients, NEW r \in Requests, r.at = now,
         Request(c, r)
  PROVE  Renewals' /\ RequestsAsTheirUser'
<1>1. creating[c] = None /\ UNCHANGED <<now, creating>> /\ now \in Nat
  BY DEF Request, Typed, TypeOK, TokensTypeOK, Shape, CreateAwaits
<1>2. r.pair.access \in AccessTokens /\ r.pair.access # None
  BY NoneAssumption DEF Requests, Pairs, Tokens
<1>3. Content(r) # None /\ r.pair.access.exp # None => r.at < r.pair.access.exp
  BY <1>1, <1>2 DEF Content, Expired, AccessTokens
<1>4. CASE Respond(c, r, None)
  <2>1. \A d \in Clients : request'[d] \in {None, request[d]}
    BY <1>4 DEF Respond, Typed, TypeOK, TokensTypeOK
  <2>2. Renewals'
    BY <1>1, <2>1 DEF Renewals, RenewsAs
  <2>3. \A d \in Clients \ {c} : response'[d] = response[d]
    BY <1>4 DEF Respond, Typed, TypeOK, TokensTypeOK
  <2>4. UsersService /\ response'[c] # None =>
          /\ response'[c] = [request |-> r, user |-> r.pair.access.user, new |-> None]
          /\ Content(r) # None
    BY <1>4 DEF Respond, Typed, TypeOK, TokensTypeOK
  <2>5. RequestsAsTheirUser'
    BY <1>3, <2>3, <2>4 DEF RequestsAsTheirUser
  <2>. QED
    BY <2>2, <2>5
<1>5. CASE Reject(c)
  BY <1>1, <1>5, RequestsStay DEF Reject, Typed, TypeOK, TokensTypeOK
<1>6. CASE Content(r) # None /\ RenewEnabled(r) /\ request' = [request EXCEPT ![c] = r] /\ UNCHANGED response
  <2>1. request'[c] = r /\ \A d \in Clients \ {c} : request'[d] = request[d]
    BY <1>6 DEF Typed, TypeOK, TokensTypeOK
  <2>2. Renewals'
    BY <1>1, <1>3, <1>6, <2>1 DEF RenewEnabled, Renewals, RenewsAs
  <2>. QED
    BY <1>6, <2>2 DEF RequestsAsTheirUser
<1>. QED
  BY <1>4, <1>5, <1>6 DEF Request

LEMMA RefreshExternalRenews ==
  ASSUME Typed, Renewals, RequestsAsTheirUser, NEW c \in Clients, RefreshExternal(c)
  PROVE  Renewals' /\ RequestsAsTheirUser'
<1>. DEFINE r == request[c]
            external == [email |-> SentRefresh(r).external, exp |-> now + ExternalLifetime]
            token == Renewed(r, external)
<1>1. r \in Requests /\ r # None /\ SentRefresh(r) # None /\ creating[c] = None /\ UNCHANGED now
      /\ now \in Nat /\ ExternalLifetime \in Nat /\ r.at \in Nat
  BY TokensAssumption
     DEF RefreshExternal, Typed, TypeOK, TokensTypeOK, Shape, RequestShape, CreateAwaits, Requests
<1>2. CASE SentRefresh(r).external # None /\ Create(c, token) /\ UNCHANGED <<request, response>>
  <2>1. r.pair.access \in AccessTokens
    BY <1>1 DEF Requests, Pairs
  <2>2. token.user = r.pair.access.user /\ token.refresh = r.pair.access.refresh
        /\ token.external = external /\ external.exp = now + ExternalLifetime
    BY <2>1 DEF Renewed, AccessTokens
  <2>. HIDE DEF token, external
  <2>3. creating'[c] = token /\ \A d \in Clients \ {c} : creating'[d] = creating[d]
    BY <1>2 DEF Create, Typed, TypeOK, TokensTypeOK
  <2>4. RenewsAs(c)'
    BY <1>1, <1>2, <2>2, <2>3 DEF Renewals, RenewsAs
  <2>5. Renewals'
    BY <1>1, <1>2, <2>3, <2>4 DEF Renewals, RenewsAs
  <2>. QED
    BY <1>2, <2>5 DEF RequestsAsTheirUser
<1>3. CASE Reject(c) /\ UNCHANGED creating
  BY <1>1, <1>3, RequestsStay DEF Reject, Typed, TypeOK, TokensTypeOK
<1>. QED
  BY <1>2, <1>3 DEF RefreshExternal

LEMMA RenewSaveRenews ==
  ASSUME Typed, Renewals, RequestsAsTheirUser, NEW c \in Clients, RenewSave(c)
  PROVE  Renewals' /\ RequestsAsTheirUser'
<1>. DEFINE r == request[c]
<1>1. r # None /\ creating[c] # None /\ RenewsAs(c)
  BY DEF RenewSave, Save, Typed, Shape, CreateAwaits, Renewals
<1>2. UNCHANGED now /\ \A d \in Clients : request'[d] = None \/
                         (request'[d] = request[d] /\ creating'[d] = creating[d])
  BY DEF RenewSave, Typed, TypeOK, TokensTypeOK
<1>3. Renewals'
  BY <1>2 DEF Renewals, RenewsAs
<1>4. /\ response'[c] = [request |-> r, user |-> creating[c].user, new |-> creating[c]]
      /\ \A d \in Clients \ {c} : response'[d] = response[d]
  BY DEF RenewSave, Typed, TypeOK, TokensTypeOK
<1>5. RequestsAsTheirUser'
  <2>. DEFINE access == r.pair.access
              new == creating[c]
  <2>1. new # None /\ new.user = access.user /\ new.refresh = access.refresh
        /\ (access.exp # None => r.at < access.exp)
        /\ new.external.exp >= r.at + ExternalLifetime
    BY <1>1 DEF RenewsAs
  <2>. HIDE DEF new, access
  <2>2. ASSUME UsersService, NEW d \in Clients, response'[d] # None, d # c
        PROVE  response'[d] = response[d]
    BY <1>4, <2>2
  <2>3. response'[c].user = new.user /\ response'[c].new = new /\ response'[c].request.pair.access = access
        /\ response'[c].request.at = r.at
    BY <1>4 DEF access, new
  <2>. HIDE DEF r
  <2>. QED
    BY <2>1, <2>2, <2>3 DEF RequestsAsTheirUser
<1>. QED
  BY <1>3, <1>5

\* a login's step has no request under way; its tokens are its own
LEMMA LoginStepsRequest ==
  ASSUME Typed, NEW c \in Clients, LoginStep(c)
  PROVE  /\ UNCHANGED now
         /\ request[c] = None /\ request'[c] = None
         /\ \A d \in Clients \ {c} : request'[d] = request[d] /\ creating'[d] = creating[d]
         /\ \A d \in Clients : response'[d] \in {None, response[d]}
<1>1. login[c] # None /\ request[c] = None
  BY DEF LoginStep, FindUser, RestoreCache, Populate, MFA, FindAgain, Exchange, FindByEmail, CreateUser,
         GetUser, SaveRefresh, SaveAccess, At, Typed, Shape, LoginShape
<1>2. UNCHANGED now /\ (UNCHANGED request \/ request' = [request EXCEPT ![c] = None])
      /\ (UNCHANGED response \/ response' = [response EXCEPT ![c] = None])
  <2>1. CASE FindUser(c) \/ RestoreCache(c) \/ Populate(c) \/ MFA(c) \/ FindAgain(c)
    BY <2>1 DEF FindUser, LocalInitiate, RestoreCache, Populate, MFA, FindAgain, IssueTokens, Throw,
                EndByThrow, Unissued
  <2>2. CASE Exchange(c) \/ FindByEmail(c) \/ CreateUser(c) \/ GetUser(c) \/ SaveRefresh(c) \/ SaveAccess(c)
    BY <2>2 DEF Exchange, FindByEmail, CreateUser, GetUser, SaveRefresh, SaveAccess, IssueTokens, Throw,
                EndByThrow, Unissued
  <2>. QED
    BY <2>1, <2>2 DEF LoginStep
<1>3. UNCHANGED creating \/ \E token : creating' = [creating EXCEPT ![c] = token]
  BY DEF LoginStep, FindUser, LocalInitiate, RestoreCache, Populate, MFA, FindAgain, Exchange, FindByEmail,
         CreateUser, GetUser, SaveRefresh, SaveAccess, IssueTokens, Create, Throw, EndByThrow, Unissued
<1>. QED
  BY <1>1, <1>2, <1>3 DEF Typed, TypeOK, TokensTypeOK

LEMMA NextRenews == Typed /\ Renewals /\ RequestsAsTheirUser /\ [Next]_vars => Renewals' /\ RequestsAsTheirUser'
<1>. SUFFICES ASSUME Typed, Renewals, RequestsAsTheirUser, [Next]_vars
              PROVE  Renewals' /\ RequestsAsTheirUser'
  OBVIOUS
<1>1. ASSUME NEW c \in Clients, LoginStep(c)
      PROVE  Renewals' /\ RequestsAsTheirUser'
  BY <1>1, LoginStepsRequest, RequestsStay
<1>2. ASSUME NEW c \in Clients, TokenStep(c)
      PROVE  Renewals' /\ RequestsAsTheirUser'
  <2>1. CASE PurgeFind(c) \/ PurgeRemove(c)
    BY <2>1, RequestsStay DEF PurgeFind, PurgeRemove
  <2>2. CASE SaveAndThrow(c) \/ Fail(c)
    BY <2>2, RequestsStay DEF SaveAndThrow, Fail, EndByThrow, Typed, TypeOK, TokensTypeOK
  <2>. QED
    BY <1>2, <2>1, <2>2, RefreshExternalRenews, RenewSaveRenews DEF TokenStep
<1>3. ASSUME NEW c \in Clients, Call(c)
      PROVE  Renewals' /\ RequestsAsTheirUser'
  <2>1. ASSUME NEW p \in issued, NEW refresh \in {q.refresh : q \in issued} \cup {None},
               Request(c, [pair |-> p, refresh |-> refresh, at |-> now])
        PROVE  Renewals' /\ RequestsAsTheirUser'
    <3>1. [pair |-> p, refresh |-> refresh, at |-> now] \in Requests
      BY SentType DEF Typed
    <3>. QED
      BY <2>1, <3>1, RequestRenews
  <2>2. ASSUME NEW s, Start(c, s)
        PROVE  Renewals' /\ RequestsAsTheirUser'
    BY <2>2, RequestsStay DEF Start, Move, Unissued
  <2>. QED
    BY <1>3, <2>1, <2>2 DEF Call, Initiate, CompleteLocal, CompleteRemote
<1>4. CASE Environment
  <2>1. CASE UNCHANGED <<now, request, creating, response>>
    BY <2>1, RequestsStay
  <2>2. CASE Tick
    <3>1. \A c \in Clients : request'[c] = None
      BY <2>2 DEF Tick, Typed, Shape, RequestShape, CreateAwaits
    <3>. QED
      BY <2>2, <3>1 DEF Tick, Renewals, RenewsAs, RequestsAsTheirUser
  <2>. QED
    BY <1>4, <2>1, <2>2 DEF Environment, EditUser, ExpireCached, tokenVars
<1>5. CASE UNCHANGED vars
  BY <1>5, RequestsStay DEF vars, tokenVars
<1>. QED
  BY <1>1, <1>2, <1>3, <1>4, <1>5 DEF Next, Step

\* The middleware answers a request as the user of an access token that was valid when it
\* came; a renewal meanwhile keeps the user and the refresh token, and what it returns is
\* usable.
THEOREM RequestsOfTheirUser == Spec => []RequestsAsTheirUser
<1>1. Init => Renewals /\ RequestsAsTheirUser
  BY DEF Init, TokensInit, Renewals, RenewsAs, RequestsAsTheirUser
<1>. QED
  BY <1>1, InitTyped, NextTyped, NextRenews, PTL DEF Spec

-----------------------------------------------------------------------------
(* The stored tokens of a user.                                            *)

StoredTogether(u) ==
  (stored[u]["access"] # None /\ stored[u]["refresh"] # None) =>
    stored[u]["access"].refresh \in {None, stored[u]["refresh"]}

\* a user whose tokens nothing has mixed up is one client's at a time, and the access token
\* it is about to store contains what is stored
OneCreator(u) ==
  /\ \A c, d \in Busy(u) : c = d
  /\ \A c \in Busy(u) : creating[c].type = "access" => creating[c].refresh \in {None, stored[u]["refresh"]}
  /\ Busy(u) = {} => StoredTogether(u)

Undisturbed == \A u \in UserIds \ disturbed : OneCreator(u)

LEMMA BusyIs ==
  ASSUME NEW u, NEW c
  PROVE  /\ c \in Busy(u) <=> c \in Clients /\ creating[c] # None /\ creating[c].user = u
         /\ c \in Busy(u)' <=> c \in Clients /\ creating'[c] # None /\ creating'[c].user = u
  BY DEF Busy

LEMMA TokensStay ==
  ASSUME Undisturbed, UNCHANGED <<stored, creating>>, disturbed \subseteq disturbed'
  PROVE  Undisturbed'
  BY DEF Undisturbed, OneCreator, StoredTogether, Busy

\* a client leaves the tokens of others alone
LEMMA OtherUsers ==
  ASSUME Undisturbed, disturbed \subseteq disturbed', NEW c \in Clients, NEW u \in UserIds,
         \A d \in Clients \ {c} : creating'[d] = creating[d],
         creating[c] # None => creating[c].user = u, creating'[c] # None => creating'[c].user = u,
         \A v \in UserIds \ {u} : stored'[v] = stored[v]
  PROVE  \A v \in (UserIds \ disturbed') \ {u} : OneCreator(v)'
<1>. TAKE v \in (UserIds \ disturbed') \ {u}
<1>1. OneCreator(v) /\ stored'[v] = stored[v]
  BY DEF Undisturbed
<1>2. Busy(v)' = Busy(v) /\ \A d \in Busy(v) : creating'[d] = creating[d]
  BY DEF Busy
<1>. QED
  BY <1>1, <1>2 DEF OneCreator, StoredTogether

\* a call that throws marks the user whose token it was creating
LEMMA ThrowUndisturbed ==
  ASSUME Typed, Undisturbed, NEW c \in Clients, EndByThrow(c), UNCHANGED stored \/ Save(c)
  PROVE  Undisturbed'
<1>1. creating'[c] = None /\ \A d \in Clients \ {c} : creating'[d] = creating[d]
  BY DEF EndByThrow, Typed, TypeOK, TokensTypeOK
<1>2. CASE creating[c] = None
  <2>1. UNCHANGED creating
    BY <1>1, <1>2 DEF EndByThrow, Typed, TypeOK, TokensTypeOK
  <2>2. UNCHANGED stored
    BY <1>2 DEF Save, Typed, Shape, CreateAwaits
  <2>. QED
    BY <2>1, <2>2, TokensStay DEF EndByThrow
<1>3. CASE creating[c] # None
  <2>. DEFINE u == creating[c].user
  <2>1. creating[c] \in Tokens
    BY <1>3 DEF Typed, TypeOK, TokensTypeOK
  <2>2. u \in UserIds /\ creating[c].type \in TokenTypes
    BY <2>1 DEF Tokens, AccessTokens, RefreshTokens, TokenTypes
  <2>3. u \in disturbed' /\ disturbed \subseteq disturbed'
    BY <1>3 DEF EndByThrow
  <2>4. \A v \in UserIds \ {u} : stored'[v] = stored[v]
    BY <2>2 DEF Save, Typed, TypeOK, TokensTypeOK
  <2>5. creating[c].user = u
    OBVIOUS
  <2>. HIDE DEF u
  <2>6. \A v \in (UserIds \ disturbed') \ {u} : OneCreator(v)'
    BY <1>1, <2>2, <2>3, <2>4, <2>5, OtherUsers
  <2>. QED
    BY <2>3, <2>6 DEF Undisturbed
<1>. QED
  BY <1>2, <1>3

\* a token is begun
LEMMA BeginUndisturbed ==
  ASSUME Typed, Undisturbed, NEW c \in Clients, NEW token \in Tokens, NEW u \in UserIds, token.user = u,
         creating' = [creating EXCEPT ![c] = token],
         creating[c] # None => creating[c].user = u,
         \A v \in UserIds \ {u} : stored'[v] = stored[v],
         disturbed \subseteq disturbed',
         u \notin disturbed' => /\ Busy(u) \ {c} = {}
                                /\ token.type = "access" => token.refresh \in {None, stored'[u]["refresh"]}
  PROVE  Undisturbed'
<1>1. creating'[c] = token /\ \A d \in Clients \ {c} : creating'[d] = creating[d]
  BY DEF Typed, TypeOK, TokensTypeOK
<1>2. \A v \in (UserIds \ disturbed') \ {u} : OneCreator(v)'
  BY <1>1, OtherUsers
<1>3. ASSUME u \notin disturbed'
      PROVE  OneCreator(u)'
  <2>1. Busy(u)' = {c}
    <3>1. token # None
      BY NoneAssumption
    <3>2. \A d \in Clients : d \in Busy(u)' <=> d = c
      BY <1>1, <1>3, <3>1, BusyIs
    <3>. QED
      BY <3>2, BusyIs
  <2>. QED
    BY <1>1, <1>3, <2>1 DEF OneCreator
<1>. QED
  BY <1>2, <1>3 DEF Undisturbed

\* what was stored of a token's type is taken away before it is stored
LEMMA PurgeUndisturbed ==
  ASSUME Typed, Undisturbed, NEW c \in Clients, PurgeRemove(c)
  PROVE  Undisturbed'
<1>0. creating[c] \in Tokens /\ creating[c] # None
  BY DEF PurgeRemove, Typed, TypeOK, TokensTypeOK, Shape, CreateAwaits
<1>1. PICK u \in UserIds, t \in TokenTypes : creating[c].user = u /\ creating[c].type = t
  BY <1>0 DEF Tokens, AccessTokens, RefreshTokens, TokenTypes
<1>2. UNCHANGED <<creating, disturbed>> /\ stored' = [stored EXCEPT ![u][t] = None]
  BY <1>1 DEF PurgeRemove
<1>3. (\A v \in UserIds \ {u} : stored'[v] = stored[v])
      /\ (t = "access" => stored'[u]["refresh"] = stored[u]["refresh"])
  BY <1>1, <1>2 DEF Typed, TypeOK, TokensTypeOK, TokenTypes
<1>4. c \in Busy(u) /\ Busy(u)' = Busy(u)
  BY <1>0, <1>1, <1>2 DEF Busy
<1>6. \A v \in (UserIds \ disturbed') \ {u} : OneCreator(v)'
  BY <1>0, <1>1, <1>2, <1>3, OtherUsers
<1>7. ASSUME u \notin disturbed'
      PROVE  OneCreator(u)'
  <2>1. OneCreator(u) /\ Busy(u) = {c}
    BY <1>1, <1>2, <1>4, <1>7 DEF Undisturbed, OneCreator
  <2>2. t \in {"access", "refresh"}
    BY <1>1 DEF TokenTypes
  <2>. QED
    BY <1>1, <1>2, <1>3, <1>4, <2>1, <2>2 DEF OneCreator
<1>. QED
  BY <1>1, <1>6, <1>7 DEF Undisturbed

\* an access token is stored
LEMMA StoreUndisturbed ==
  ASSUME Typed, Undisturbed, NEW c \in Clients, Save(c), creating[c].type = "access",
         creating' = [creating EXCEPT ![c] = None], UNCHANGED disturbed
  PROVE  Undisturbed'
<1>0. PICK u \in UserIds : creating[c] \in Tokens /\ creating[c] # None /\ creating[c].user = u
  BY SaveTyped, NoneAssumption
<1>1. stored' = [stored EXCEPT ![u]["access"] = creating[c]]
  BY <1>0 DEF Save
<1>2. /\ \A v \in UserIds \ {u} : stored'[v] = stored[v]
      /\ stored'[u]["refresh"] = stored[u]["refresh"]
      /\ stored'[u]["access"] = creating[c]
  BY <1>0, <1>1 DEF Typed, TypeOK, TokensTypeOK, TokenTypes
<1>3. creating'[c] = None /\ \A d \in Clients \ {c} : creating'[d] = creating[d]
  BY DEF Typed, TypeOK, TokensTypeOK
<1>4. c \in Busy(u)
  BY <1>0 DEF Busy
<1>5. \A v \in (UserIds \ disturbed') \ {u} : OneCreator(v)'
  BY <1>0, <1>2, <1>3, <1>4, OtherUsers
<1>6. ASSUME u \notin disturbed'
      PROVE  OneCreator(u)'
  <2>1. OneCreator(u) /\ Busy(u) = {c}
    BY <1>0, <1>4, <1>6 DEF Undisturbed, OneCreator
  <2>2. Busy(u)' = {}
    <3>1. \A d \in Clients : d \notin Busy(u)'
      BY <1>3, <2>1, BusyIs
    <3>. QED
      BY <3>1, BusyIs
  <2>3. StoredTogether(u)'
    BY <1>2, <2>1 DEF OneCreator, StoredTogether
  <2>. QED
    BY <2>2, <2>3 DEF OneCreator
<1>. QED
  BY <1>0, <1>5, <1>6 DEF Undisturbed

\* a login begins its first token
LEMMA IssueUndisturbed ==
  ASSUME Typed, Undisturbed, NEW c \in Clients, creating[c] = None, NEW s \in Steps, s.id \in DOMAIN users,
         IssueTokens(c, s)
  PROVE  Undisturbed'
<1>. DEFINE token == IF s.refresh # None \/ s.access = None THEN RefreshToken(s) ELSE AccessToken(s, None)
<1>1. s.id \in UserIds
  BY UserRows DEF Typed, TypeOK
<1>2. token \in Tokens
  BY <1>1, TokenTypesOfLogin DEF Typed, Tokens
<1>3. token.user = s.id /\ (token.type = "access" => token.refresh = None)
  BY DEF RefreshToken, AccessToken
<1>4. creating' = [creating EXCEPT ![c] = token]
  BY DEF IssueTokens, Create
<1>. HIDE DEF token
<1>5. disturbed' = disturbed \cup (IF Busy(s.id) \ {c} # {} THEN {s.id} ELSE {}) /\ UNCHANGED stored
  BY DEF IssueTokens
<1>. QED
  BY <1>1, <1>2, <1>3, <1>4, <1>5, BeginUndisturbed

LEMMA LoginUndisturbed ==
  ASSUME Typed, Own, Undisturbed, NEW c \in Clients, LoginStep(c)
  PROVE  Undisturbed'
<1>. DEFINE s == login[c]
<1>1. ASSUME Throw(c), UNCHANGED stored
      PROVE  Undisturbed'
  BY <1>1, ThrowUndisturbed DEF Throw
<1>2. ASSUME UNCHANGED Unissued
      PROVE  Undisturbed'
  BY <1>2, TokensStay DEF Unissued
<1>3. s \in Steps
  BY DEF LoginStep, FindUser, RestoreCache, Populate, MFA, FindAgain, Exchange, FindByEmail, CreateUser,
         GetUser, SaveRefresh, SaveAccess, At, Typed, TypeOK
<1>4. CASE FindUser(c) \/ Populate(c) \/ Exchange(c) \/ CreateUser(c)
  BY <1>1, <1>2, <1>4 DEF FindUser, LocalInitiate, Populate, Exchange, CreateUser
<1>11. CASE RestoreCache(c)
  <2>. DEFINE t == Restore(s, cache[CacheKey(s)])
  <2>1. Keyed(s) /\ creating[c] = None /\ (s.id # None => s.id \in DOMAIN users)
    BY <1>11 DEF RestoreCache, At, Typed, Shape, LoginShape, CreateAwaits
  <2>2. t \in Steps /\ t.id = s.id /\ t.auth = s.auth
    BY <1>3, <2>1, RestoreType
  <2>3. (t.auth = "local" /\ IssueTokens(c, t)) \/ UNCHANGED Unissued
    BY <1>11 DEF RestoreCache
  <2>. HIDE DEF t
  <2>. QED
    BY <1>2, <2>1, <2>2, <2>3, IssueUndisturbed DEF Keyed
<1>5. CASE MFA(c)
  <2>1. s.id \in DOMAIN users /\ creating[c] = None
    BY <1>5 DEF MFA, At, Typed, Shape, LoginShape, CreateAwaits
  <2>. QED
    BY <1>1, <1>2, <1>3, <1>5, <2>1, IssueUndisturbed DEF MFA
<1>6. CASE FindAgain(c)
  <2>1. s.id \in DOMAIN users /\ creating[c] = None
    BY <1>6 DEF FindAgain, At, Typed, Shape, LoginShape, CreateAwaits
  <2>. QED
    BY <1>3, <1>6, <2>1, IssueUndisturbed DEF FindAgain
<1>7. CASE FindByEmail(c)
  <2>. DEFINE id == FirstRow(s.email)
              t == [s EXCEPT !.id = id, !.version = users[id].version]
  <2>1. creating[c] = None
    BY <1>7 DEF FindByEmail, At, Typed, Shape, LoginShape, CreateAwaits
  <2>2. CASE id # 0 /\ IssueTokens(c, t)
    <3>1. id \in DOMAIN users
      BY <2>2, FirstRowIsOne DEF Typed
    <3>2. t \in Steps /\ t.id = id
      BY <1>3, <3>1, FoundType DEF Steps
    <3>3. IssueTokens(c, t)
      BY <2>2
    <3>. HIDE DEF t
    <3>. QED
      BY <2>1, <3>1, <3>2, <3>3, IssueUndisturbed
  <2>. QED
    BY <1>1, <1>2, <1>7, <2>2 DEF FindByEmail
<1>8. CASE GetUser(c)
  <2>. DEFINE t == [s EXCEPT !.version = users[s.id].version]
  <2>1. s.id \in DOMAIN users /\ creating[c] = None
    BY <1>8 DEF GetUser, At, Typed, Shape, LoginShape, CreateAwaits
  <2>2. t \in Steps
    BY <1>3, <2>1, FoundType
  <2>a. t.id = s.id
    BY <1>3 DEF Steps
  <2>3. IssueTokens(c, t)
    BY <1>8 DEF GetUser
  <2>. HIDE DEF t
  <2>. QED
    BY <2>1, <2>2, <2>a, <2>3, IssueUndisturbed
<1>9. CASE SaveRefresh(c)
  <2>. DEFINE token == AccessToken(s, creating[c])
  <2>1. s.id \in DOMAIN users /\ s.id \in UserIds /\ s # None
    BY <1>9, UserRows DEF SaveRefresh, At, Typed, TypeOK, Shape, LoginShape, CreateAwaits
  <2>2. creating[c] \in RefreshTokens /\ creating[c] # None /\ creating[c].type = "refresh"
    BY <1>9, SaveTyped, NoneAssumption DEF SaveRefresh, Tokens, AccessTokens
  <2>3. creating[c].user = s.id
    BY <2>1, <2>2 DEF Own, OwnLogin
  <2>4. token \in Tokens /\ token.user = s.id /\ token.refresh = creating[c]
    BY <1>3, <2>1, <2>2, TokenTypesOfLogin DEF Typed, Tokens, AccessToken
  <2>5. /\ creating' = [creating EXCEPT ![c] = token]
        /\ disturbed' = disturbed \cup (IF Busy(s.id) \ {c} # {} THEN {s.id} ELSE {})
        /\ stored' = [stored EXCEPT ![s.id]["refresh"] = creating[c]]
    BY <1>9, <2>2, <2>3 DEF SaveRefresh, Create, Save
  <2>6. stored'[s.id]["refresh"] = creating[c] /\ \A v \in UserIds \ {s.id} : stored'[v] = stored[v]
    BY <2>1, <2>5 DEF Typed, TypeOK, TokensTypeOK, TokenTypes
  <2>. HIDE DEF token
  <2>. QED
    BY <2>1, <2>3, <2>4, <2>5, <2>6, BeginUndisturbed
<1>10. CASE SaveAccess(c)
  BY <1>10, StoreUndisturbed DEF SaveAccess
<1>. QED
  BY <1>4, <1>11, <1>5, <1>6, <1>7, <1>8, <1>9, <1>10 DEF LoginStep

LEMMA TokensUndisturbed ==
  ASSUME Typed, Undisturbed, NEW c \in Clients, TokenStep(c)
  PROVE  Undisturbed'
<1>1. CASE PurgeFind(c)
  BY <1>1, TokensStay DEF PurgeFind
<1>2. CASE SaveAndThrow(c) \/ Fail(c)
  BY <1>2, ThrowUndisturbed DEF SaveAndThrow, Fail
<1>3. CASE RefreshExternal(c)
  <2>. DEFINE r == request[c]
              external == [email |-> SentRefresh(r).external, exp |-> now + ExternalLifetime]
              token == Renewed(r, external)
  <2>1. r \in Requests /\ SentRefresh(r) # None /\ creating[c] = None /\ UNCHANGED stored
    BY <1>3 DEF RefreshExternal, Typed, TypeOK, TokensTypeOK, Shape, RequestShape, CreateAwaits
  <2>2. CASE SentRefresh(r).external # None /\ Create(c, token) /\ Renewing(c, token)
    <3>1. external \in ExternalTokens
      BY <2>1, <2>2, TokensAssumption
         DEF SentRefresh, Requests, Pairs, ExternalTokens, RefreshTokens, Typed, TypeOK, TokensTypeOK
    <3>. HIDE DEF external
    <3>2. token \in AccessTokens
      BY <2>1, <3>1, RenewedType DEF Typed
    <3>3. token \in Tokens /\ token.user \in UserIds
      BY <3>2 DEF Tokens, AccessTokens
    <3>4. creating' = [creating EXCEPT ![c] = token] /\ Renewing(c, token)
      BY <2>2 DEF Create
    <3>. HIDE DEF token
    <3>. QED
      BY <2>1, <3>3, <3>4, BeginUndisturbed DEF Renewing
  <2>3. CASE UNCHANGED <<creating, disturbed>>
    BY <2>1, <2>3, TokensStay
  <2>. QED
    BY <1>3, <2>2, <2>3 DEF RefreshExternal
<1>4. CASE RenewSave(c)
  <2>1. creating[c].type = "access"
    BY <1>4 DEF RenewSave, Save, Typed, Shape, RequestShape, CreateAwaits
  <2>. QED
    BY <1>4, <2>1, StoreUndisturbed DEF RenewSave
<1>. QED
  BY <1>1, <1>2, <1>3, <1>4, PurgeUndisturbed DEF TokenStep

LEMMA NextUndisturbed == Typed /\ Own /\ Undisturbed /\ [Next]_vars => Undisturbed'
<1>. SUFFICES ASSUME Typed, Own, Undisturbed, [Next]_vars
              PROVE  Undisturbed'
  OBVIOUS
<1>1. ASSUME UNCHANGED <<stored, creating, disturbed>>
      PROVE  Undisturbed'
  BY <1>1, TokensStay
<1>2. ASSUME NEW c \in Clients, Call(c)
      PROVE  UNCHANGED <<stored, creating, disturbed>>
  <2>1. ASSUME NEW s, Start(c, s)
        PROVE  UNCHANGED <<stored, creating, disturbed>>
    BY <2>1 DEF Start, Unissued
  <2>. QED
    BY <1>2, <2>1 DEF Call, Initiate, CompleteLocal, CompleteRemote, Request
<1>3. CASE Environment \/ UNCHANGED vars
  BY <1>1, <1>3 DEF Environment, Tick, EditUser, ExpireCached, vars, tokenVars
<1>. QED
  BY <1>1, <1>2, <1>3, LoginUndisturbed, TokensUndisturbed DEF Next, Step

\* Unless a failure, an overlap or the renewal of an older pair came between, the stored
\* access token of a user contains the stored refresh token, however many logins and
\* renewals came one after the other.
THEOREM StoredTokensMatch == Spec => []StoredPairMatches
<1>1. Init => Undisturbed
  BY DEF Init, TokensInit, TokenTypes, Undisturbed, OneCreator, StoredTogether, Busy
<1>2. Undisturbed => StoredPairMatches
  BY DEF Undisturbed, OneCreator, StoredTogether, StoredPairMatches
<1>. QED
  BY <1>1, <1>2, InitTyped, NextTyped, InitOwn, NextOwn, NextUndisturbed, PTL DEF Spec

-----------------------------------------------------------------------------
(* The auth cache: what the second step of a login restores, whoever else  *)
(* logs in meanwhile.                                                      *)

\* A login step leaves whose login it is.
Same(s, t) ==
  /\ s.auth = t.auth /\ s.email = t.email /\ s.step = t.step
  /\ s.auth # "local" => s.seen = t.seen

LEMMA LoginKeeps ==
  ASSUME Typed, NEW c \in Clients, LoginStep(c)
  PROVE  /\ login[c] # None /\ login[c] \in Steps
         /\ \A d \in Clients \ {c} : pc'[d] = pc[d] /\ login'[d] = login[d]
         /\ login'[c] = None \/ Same(login'[c], login[c])
<1>. DEFINE s == login[c]
<1>0. s \in Steps /\ s # None /\ login \in [Clients -> Steps \cup {None}] /\ pc \in [Clients -> Awaits]
  BY DEF LoginStep, FindUser, RestoreCache, Populate, MFA, FindAgain, Exchange, FindByEmail, CreateUser,
         GetUser, SaveRefresh, SaveAccess, At, Typed, TypeOK, Awaits
<1>a. ASSUME NEW t, NEW to, Move(c, t, to), t = None \/ Same(t, s)
      PROVE  /\ \A d \in Clients \ {c} : pc'[d] = pc[d] /\ login'[d] = login[d]
             /\ login'[c] = None \/ Same(login'[c], login[c])
  BY <1>0, <1>a DEF Move
<1>b. ASSUME NEW t, IssueTokens(c, t), Same(t, s)
      PROVE  /\ \A d \in Clients \ {c} : pc'[d] = pc[d] /\ login'[d] = login[d]
             /\ login'[c] = None \/ Same(login'[c], login[c])
  BY <1>0, <1>b DEF IssueTokens, Create
<1>c. ASSUME Throw(c)
      PROVE  /\ \A d \in Clients \ {c} : pc'[d] = pc[d] /\ login'[d] = login[d]
             /\ login'[c] = None \/ Same(login'[c], login[c])
  BY <1>0, <1>c DEF Throw, EndByThrow
<1>d. Same(s, s)
  BY DEF Same
<1>1. CASE FindUser(c)
  <2>. DEFINE id == FirstRow(s.email)
              found == [s EXCEPT !.id = id, !.version = users[id].version]
              first == [found EXCEPT !.seen = users[id].version]
  <2>1. Same(found, s) /\ Same(first, s)
    BY <1>0, <1>1 DEF Same, Steps, FindUser, At, Typed, Shape, LoginShape
  <2>. QED
    BY <1>0, <1>1, <1>a, <1>c, <2>1 DEF FindUser, LocalInitiate
<1>2. CASE RestoreCache(c)
  <2>1. Keyed(s)
    BY <1>2 DEF RestoreCache, At, Typed, Shape, LoginShape
  <2>2. Same(Restore(s, cache[CacheKey(s)]), s)
    BY <1>0, <2>1, RestoreType DEF Same
  <2>. QED
    BY <1>0, <1>2, <1>a, <1>b, <2>2 DEF RestoreCache
<1>3. CASE Populate(c)
  BY <1>0, <1>3, <1>a, <1>c DEF Populate, End
<1>4. CASE MFA(c)
  BY <1>0, <1>4, <1>a, <1>b, <1>c, <1>d DEF MFA
<1>5. CASE FindAgain(c)
  BY <1>0, <1>5, <1>b, <1>d DEF FindAgain
<1>6. CASE Exchange(c)
  <2>1. s.email \in Emails
    BY <1>6 DEF Exchange, At, Typed, Shape, LoginShape
  <2>2. \A refresh \in {None, s.email} : Same(WithReturnedTokens(s, refresh), s)
    BY <1>0, <2>1, ReturnedType DEF Same
  <2>. QED
    BY <1>0, <1>6, <1>a, <1>c, <2>2 DEF Exchange
<1>7. CASE FindByEmail(c)
  <2>1. Same([s EXCEPT !.id = FirstRow(s.email), !.version = users[FirstRow(s.email)].version], s)
    BY <1>0 DEF Same, Steps
  <2>. QED
    BY <1>0, <1>7, <1>a, <1>b, <1>c, <1>d, <2>1 DEF FindByEmail
<1>8. CASE CreateUser(c)
  <2>1. Same([s EXCEPT !.id = Len(users) + 1], s)
    BY <1>0 DEF Same, Steps
  <2>. QED
    BY <1>0, <1>8, <1>a, <2>1 DEF CreateUser
<1>9. CASE GetUser(c)
  <2>1. Same([s EXCEPT !.version = users[s.id].version], s)
    BY <1>0 DEF Same, Steps
  <2>. QED
    BY <1>0, <1>9, <1>b, <2>1 DEF GetUser
<1>10. CASE SaveRefresh(c)
  BY <1>0, <1>10, <1>d DEF SaveRefresh, Create
<1>11. CASE SaveAccess(c)
  BY <1>0, <1>11, <1>a DEF SaveAccess, End
<1>. QED
  BY <1>0, <1>1, <1>2, <1>3, <1>4, <1>5, <1>6, <1>7, <1>8, <1>9, <1>10, <1>11 DEF LoginStep

LEMMA TokensKeep ==
  ASSUME Typed, NEW c \in Clients, TokenStepIn(c)
  PROVE  /\ \A d \in Clients \ {c} : pc'[d] = pc[d] /\ login'[d] = login[d]
         /\ login'[c] = None \/ (login'[c] = login[c] /\ pc'[c] \in CreateAwaits)
<1>1. pc \in [Clients -> Awaits] /\ login \in [Clients -> Steps \cup {None}]
  BY DEF Typed, TypeOK, Awaits
<1>2. PICK to \in CreateAwaits \cup {"idle"} : pc' = [pc EXCEPT ![c] = to]
  BY DEF TokenStepIn, TokenStep, PurgeFind, PurgeRemove, SaveAndThrow, EndByThrow, RefreshExternal, Create,
         Reject, RenewSave, Fail, CreateAwaits
<1>. QED
  BY <1>1, <1>2 DEF TokenStepIn

-----------------------------------------------------------------------------
(* The code verifier of a state.                                           *)

\* a first step has ended that drew this state
Begun(n) == \E p \in pending : p.auth # "local" /\ p.call = n

\* a first step is about to cache the state it drew
Drawing(c) == login[c] # None /\ login[c].auth # "local" /\ pc[c] = "populate"

Drawn ==
  /\ \A p \in pending : p.auth # "local" => p.call \in 1 .. calls
  /\ \A c \in Clients : Drawing(c) =>
       /\ login[c].call \in 1 .. calls /\ ~Begun(login[c].call)
       /\ login[c].verifier = IF WithPKCE(login[c].auth) THEN login[c].call ELSE NoVerifier
  /\ \A c, d \in Clients : c # d /\ Drawing(c) /\ Drawing(d) => login[c].call # login[d].call

\* an entry of a state is of the first step that drew it, and stays without a time to live
StateEntries ==
  \A n \in Calls \cup {Unknown} :
    LET value == cache[<<"state", n>>]
    IN  /\ value \in {None, NoVerifier} \cup (IF Challenged(n) THEN {n} ELSE {})
        /\ value # None => Begun(n)
        /\ Challenged(n) /\ useHashmap => value = n

VerifierFor(s) ==
  /\ s.verifier \in SentVerifiers \cup (IF Challenged(s.call) THEN {s.call} ELSE {})
  /\ Challenged(s.call) /\ useHashmap => s.verifier = s.call

SecondOf(c) ==
  (login[c] # None /\ login[c].auth # "local") =>
    LET s == login[c]
    IN  /\ pc[c] \in {"restore", "exchange"} => s.call = Unknown \/ Begun(s.call)
        /\ pc[c] = "restore" => s.verifier \in SentVerifiers
        /\ pc[c] = "exchange" => VerifierFor(s)

StatesApart ==
  /\ Drawn
  /\ StateEntries
  /\ \A c \in Clients : SecondOf(c)

LEMMA InitStates == Init => StatesApart
<1>. SUFFICES ASSUME Init
              PROVE  StatesApart
  OBVIOUS
<1>0. calls = Len(StartedLogins) /\ calls \in 0 .. MaxCalls /\ MaxCalls \in Nat
  BY LoginAssumption DEF Init
<1>1. ASSUME NEW p \in pending
      PROVE  /\ p.auth # "local" /\ p.call \in 1 .. calls /\ p.call \in Calls
             /\ CacheKey(p) = <<"state", p.call>>
  <2>1. PICK n \in 1 .. calls : p = FirstStep(StartedLogins[n], None, FALSE, n)
    BY DEF Init
  <2>. QED
    BY <1>0, <2>1, StartedType DEF FirstStep, CacheKey
<1>2. StateEntries
  <2>. SUFFICES ASSUME NEW n \in Calls \cup {Unknown}
                PROVE  /\ cache[<<"state", n>>] = IF Challenged(n) THEN n ELSE None
                       /\ Challenged(n) => Begun(n)
    BY NoneAssumption, LoginAssumption DEF StateEntries, Calls, Unknown, NoVerifier
  <2>1. Challenged(n) => Begun(n)
    BY <1>1 DEF Challenged, Begun
  <2>2. <<"state", n>> \in StateKeys /\ <<"state", n>>[2] = n
    BY DEF StateKeys, Unknown
  <2>3. cache[<<"state", n>>] =
          IF \E s \in pending : <<"state", n>> = CacheKey(s) /\ WithPKCE(s.auth) THEN n ELSE None
    BY <2>2 DEF Init
  <2>4. (\E s \in pending : <<"state", n>> = CacheKey(s) /\ WithPKCE(s.auth)) <=> Challenged(n)
    BY <1>1 DEF Challenged
  <2>. QED
    BY <2>1, <2>3, <2>4
<1>. QED
  BY <1>1, <1>2 DEF Init, StatesApart, Drawn, Drawing, SecondOf

\* what a step that caches no state must show
LEMMA StatesStay ==
  ASSUME Typed, StatesApart, UNCHANGED <<useHashmap, pending>>, calls' \in Nat, calls <= calls',
         \A n \in Calls \cup {Unknown} : \/ cache'[<<"state", n>>] = cache[<<"state", n>>]
                                         \/ cache'[<<"state", n>>] = None /\ ~useHashmap,
         \A c \in Clients : \/ pc'[c] = pc[c] /\ login'[c] = login[c]
                            \/ SecondOf(c)' /\ ~Drawing(c)'
  PROVE  StatesApart'
<1>1. (\A n : Begun(n)' <=> Begun(n)) /\ (\A n : Challenged(n)' <=> Challenged(n)) /\ calls \in Nat
  BY DEF Begun, Challenged, Typed, TypeOK
<1>2. StateEntries'
  BY <1>1 DEF StatesApart, StateEntries
<1>3. \A c \in Clients : Drawing(c)' => Drawing(c) /\ login'[c] = login[c]
  BY DEF Drawing
<1>4. Drawn'
  BY <1>1, <1>3 DEF StatesApart, Drawn
<1>5. \A c \in Clients : SecondOf(c)'
  BY <1>1 DEF StatesApart, SecondOf, VerifierFor
<1>. QED
  BY <1>2, <1>4, <1>5 DEF StatesApart

\* what a second step hands the provider: what is cached for the state it names, if
\* anything, or what the client sent
LEMMA RestoreStates ==
  ASSUME Typed, StatesApart, NEW c \in Clients, RestoreCache(c)
  PROVE  StatesApart'
<1>. DEFINE s == login[c]
            value == cache[CacheKey(s)]
            t == Restore(s, value)
<1>0. /\ s \in Steps /\ s # None /\ pc[c] = "restore" /\ Keyed(s) /\ SecondOf(c)
      /\ login \in [Clients -> Steps \cup {None}] /\ pc \in [Clients -> Awaits]
  BY DEF RestoreCache, At, Typed, TypeOK, Shape, LoginShape, StatesApart, Awaits
<1>1. UNCHANGED <<useHashmap, pending, calls, cache>>
  BY DEF RestoreCache, Others, IssueTokens, Unissued
<1>2. t \in Steps /\ t.auth = s.auth /\ t.call = s.call
  BY <1>0, RestoreType
<1>3. \/ s.auth = "local" /\ (Move(c, t, "mfa") \/ IssueTokens(c, t))
      \/ s.auth # "local" /\ Move(c, t, "exchange")
  BY <1>2 DEF RestoreCache
<1>4. s.auth # "local" => VerifierFor(t)
  <2>. SUFFICES ASSUME s.auth # "local"
                PROVE  VerifierFor(t)
    OBVIOUS
  <2>1. CacheKey(s) = <<"state", s.call>> /\ s.call \in Calls \cup {Unknown} /\ s.verifier \in SentVerifiers
    BY <1>0 DEF CacheKey, SecondOf, Steps
  <2>2. /\ value \in {None, NoVerifier} \cup (IF Challenged(s.call) THEN {s.call} ELSE {})
        /\ Challenged(s.call) /\ useHashmap => value = s.call
    BY <2>1 DEF StatesApart, StateEntries
  <2>3. Challenged(s.call) => s.call \notin {None, NoVerifier}
    <3>1. ASSUME NEW p \in pending, p.call = s.call, WithPKCE(p.auth)
          PROVE  s.call \in Calls
      BY <3>1 DEF WithPKCE, Typed, PendingShape
    <3>. QED
      BY <3>1, NoneAssumption DEF Challenged, Calls, NoVerifier
  <2>. HIDE DEF value
  <2>4. CASE value \in {None, NoVerifier}
    <3>1. t = s
      BY <2>4 DEF Restore
    <3>. QED
      BY <2>1, <2>2, <2>3, <2>4, <3>1 DEF VerifierFor
  <2>5. CASE value \notin {None, NoVerifier}
    <3>1. t.verifier = value
      BY <1>0, <2>5 DEF Restore, Steps
    <3>2. Challenged(s.call) /\ value = s.call
      BY <2>2, <2>5
    <3>. QED
      BY <1>2, <3>1, <3>2 DEF VerifierFor
  <2>. QED
    BY <2>4, <2>5
<1>. HIDE DEF t
<1>5. \A d \in Clients \ {c} : pc'[d] = pc[d] /\ login'[d] = login[d]
  BY <1>0, <1>3 DEF Move, IssueTokens, Create
<1>6. /\ login'[c] = t /\ ~Drawing(c)'
      /\ pc'[c] = "restore" => s.auth = "local"
      /\ pc'[c] = "exchange" => s.auth # "local"
  BY <1>0, <1>2, <1>3 DEF Move, IssueTokens, Create, Drawing
<1>7. SecondOf(c)'
  <2>1. (\A n : Begun(n)' <=> Begun(n)) /\ (\A n : Challenged(n)' <=> Challenged(n))
    BY <1>1 DEF Begun, Challenged
  <2>2. s.auth # "local" => (s.call = Unknown \/ Begun(s.call))
    BY <1>0 DEF SecondOf
  <2>3. s.auth # "local" =>
          /\ login'[c].verifier \in SentVerifiers \cup (IF Challenged(s.call)' THEN {s.call} ELSE {})
          /\ Challenged(s.call)' /\ useHashmap' => login'[c].verifier = s.call
    BY <1>1, <1>2, <1>4, <1>6, <2>1 DEF VerifierFor
  <2>. QED
    BY <1>0, <1>2, <1>6, <2>1, <2>2, <2>3 DEF SecondOf, VerifierFor
<1>8. calls \in Nat
  BY DEF Typed, TypeOK
<1>. QED
  BY <1>1, <1>5, <1>6, <1>7, <1>8, StatesStay

\* the other steps of a login, its tokens' among them, are past all this
LEMMA PastStates ==
  ASSUME Typed, StatesApart, NEW c \in Clients, ~RestoreCache(c), ~Populate(c),
         LoginStep(c) \/ TokenStepIn(c)
  PROVE  StatesApart'
<1>0. login \in [Clients -> Steps \cup {None}] /\ pc \in [Clients -> Awaits]
  BY DEF Typed, TypeOK, Awaits
<1>1. UNCHANGED <<useHashmap, pending, calls, cache>>
  <2>1. CASE LoginStep(c)
    BY <2>1 DEF LoginStep, FindUser, LocalInitiate, MFA, FindAgain, Exchange, FindByEmail, CreateUser, GetUser,
                SaveRefresh, SaveAccess, Others, IssueTokens, Unissued
  <2>2. CASE TokenStepIn(c)
    BY <2>2 DEF TokenStepIn, TokenStep, PurgeFind, PurgeRemove, SaveAndThrow, RefreshExternal, RenewSave, Fail,
                Others
  <2>. QED
    BY <2>1, <2>2
<1>2. \A d \in Clients \ {c} : pc'[d] = pc[d] /\ login'[d] = login[d]
  BY LoginKeeps, TokensKeep
<1>3. login'[c] = None \/ login'[c].auth = "local" \/ pc'[c] \notin {"restore", "exchange", "populate"}
  <2>1. CASE FindUser(c) \/ MFA(c)
    <3>1. login[c].auth = "local"
      BY <2>1 DEF FindUser, MFA, At, Typed, Shape, LoginShape
    <3>. QED
      BY <2>1, <3>1, LoginKeeps DEF LoginStep, Same
  <2>2. CASE FindAgain(c) \/ Exchange(c) \/ FindByEmail(c)
    BY <1>0, <2>2 DEF FindAgain, Exchange, FindByEmail, IssueTokens, Create, Throw, EndByThrow, Move
  <2>3. CASE CreateUser(c) \/ GetUser(c) \/ SaveRefresh(c) \/ SaveAccess(c)
    BY <1>0, <2>3 DEF CreateUser, GetUser, SaveRefresh, SaveAccess, IssueTokens, Create, End, Move
  <2>4. CASE TokenStepIn(c)
    BY <2>4, TokensKeep DEF CreateAwaits
  <2>. QED
    BY <2>1, <2>2, <2>3, <2>4 DEF LoginStep
<1>4. SecondOf(c)' /\ ~Drawing(c)'
  BY <1>3 DEF SecondOf, Drawing
<1>5. calls \in Nat
  BY DEF Typed, TypeOK
<1>. QED
  BY <1>1, <1>2, <1>4, <1>5, StatesStay

\* a first step caches the verifier of its own state, under which there was nothing
LEMMA PopulateStates ==
  ASSUME Typed, StatesApart, NEW c \in Clients, Populate(c)
  PROVE  StatesApart'
<1>. DEFINE s == login[c]
<1>0. /\ s \in Steps /\ s # None /\ pc[c] = "populate" /\ Keyed(s)
      /\ login \in [Clients -> Steps \cup {None}] /\ pc \in [Clients -> Awaits]
      /\ cache \in [StateKeys \cup UserKeys -> Nat \cup {None}]
      /\ cache' = [cache EXCEPT ![CacheKey(s)] = CacheValue(s)] /\ UNCHANGED <<useHashmap, calls>>
      /\ UNCHANGED pending \/ pending' = pending \cup {s}
  BY DEF Populate, At, Typed, TypeOK, Shape, LoginShape, Awaits, Unissued
<1>1. login'[c] = None /\ \A d \in Clients \ {c} : pc'[d] = pc[d] /\ login'[d] = login[d]
  BY <1>0 DEF Populate, Throw, EndByThrow, End, Move
<1>2. SecondOf(c)' /\ ~Drawing(c)'
  BY <1>1 DEF SecondOf, Drawing
<1>3. \A n \in Calls \cup {Unknown} : <<"state", n>> \in StateKeys
  BY DEF StateKeys, Unknown
<1>4. CASE s.auth = "local"
  <2>1. \A n \in Calls \cup {Unknown} : cache'[<<"state", n>>] = cache[<<"state", n>>]
    BY <1>0, <1>3, <1>4 DEF CacheKey
  <2>2. (\A n : Begun(n)' <=> Begun(n)) /\ (\A n : Challenged(n)' <=> Challenged(n))
    BY <1>0, <1>4 DEF Begun, Challenged, WithPKCE
  <2>3. Drawn'
    BY <1>0, <1>1, <1>2, <1>4, <2>2 DEF StatesApart, Drawn, Drawing
  <2>4. StateEntries'
    BY <1>0, <2>1, <2>2 DEF StatesApart, StateEntries
  <2>5. \A d \in Clients : SecondOf(d)'
    BY <1>0, <1>1, <1>2, <2>2 DEF StatesApart, SecondOf, VerifierFor
  <2>. QED
    BY <2>3, <2>4, <2>5 DEF StatesApart
<1>5. CASE s.auth # "local"
  <2>1. /\ Drawing(c) /\ s.call \in 1 .. calls /\ ~Begun(s.call) /\ s.call \in Calls
        /\ s.verifier = IF WithPKCE(s.auth) THEN s.call ELSE NoVerifier
    BY <1>0, <1>5 DEF Drawing, StatesApart, Drawn, Typed, Shape, LoginShape
  <2>2. CacheKey(s) = <<"state", s.call>> /\ CacheValue(s) = s.verifier /\ cache[CacheKey(s)] = None
    BY <1>5, <2>1 DEF CacheKey, CacheValue, StatesApart, StateEntries
  <2>3. pending' = pending \cup {s}
    BY <2>2 DEF Populate
  <2>4. /\ cache'[<<"state", s.call>>] = s.verifier
        /\ \A n \in Calls \cup {Unknown} : n # s.call => cache'[<<"state", n>>] = cache[<<"state", n>>]
    BY <1>0, <1>3, <2>1, <2>2
  <2>5. /\ \A n : Begun(n)' <=> Begun(n) \/ n = s.call
        /\ \A n : n # s.call => (Challenged(n)' <=> Challenged(n))
        /\ \A n : n = s.call => (Challenged(n)' <=> WithPKCE(s.auth))
    <3>1. \A n : Begun(n)' <=> Begun(n) \/ n = s.call
      BY <1>5, <2>3 DEF Begun
    <3>2. \A n : Challenged(n)' <=> Challenged(n) \/ (n = s.call /\ WithPKCE(s.auth))
      BY <2>3 DEF Challenged
    <3>3. ~Challenged(s.call)
      BY <2>1 DEF Challenged, Begun, WithPKCE
    <3>. QED
      BY <3>1, <3>2, <3>3
  <2>6. StateEntries'
    <3>. SUFFICES ASSUME NEW n \in Calls \cup {Unknown}
                  PROVE  /\ cache'[<<"state", n>>] \in
                              {None, NoVerifier} \cup (IF Challenged(n)' THEN {n} ELSE {})
                         /\ cache'[<<"state", n>>] # None => Begun(n)'
                         /\ Challenged(n)' /\ useHashmap' => cache'[<<"state", n>>] = n
      BY DEF StateEntries
    <3>1. CASE n = s.call
      BY <2>1, <2>4, <2>5, <3>1
    <3>2. CASE n # s.call
      BY <1>0, <2>4, <2>5, <3>2 DEF StatesApart, StateEntries
    <3>. QED
      BY <3>1, <3>2
  <2>7. Drawn'
    <3>1. ASSUME NEW d \in Clients, Drawing(d)'
          PROVE  d # c /\ Drawing(d) /\ login'[d] = login[d] /\ login[d].call # s.call
      <4>1. d # c /\ Drawing(d) /\ login'[d] = login[d]
        BY <1>1, <1>2, <3>1 DEF Drawing
      <4>. QED
        BY <2>1, <4>1 DEF StatesApart, Drawn
    <3>2. \A p \in pending' : p.auth # "local" => p.call \in 1 .. calls'
      BY <1>0, <2>1, <2>3 DEF StatesApart, Drawn
    <3>3. \A d \in Clients : Drawing(d)' =>
            /\ login'[d].call \in 1 .. calls' /\ ~Begun(login[d].call)'
            /\ login'[d].verifier = IF WithPKCE(login'[d].auth) THEN login'[d].call ELSE NoVerifier
      BY <1>0, <2>5, <3>1 DEF StatesApart, Drawn
    <3>4. \A d, e \in Clients : d # e /\ Drawing(d)' /\ Drawing(e)' => login'[d].call # login'[e].call
      BY <3>1 DEF StatesApart, Drawn
    <3>. QED
      BY <3>2, <3>3, <3>4 DEF Drawn
  <2>8. ASSUME NEW d \in Clients \ {c}
        PROVE  SecondOf(d)'
    <3>1. SecondOf(d) /\ pc'[d] = pc[d] /\ login'[d] = login[d]
      BY <1>1 DEF StatesApart
    <3>2. \A n : (n = Unknown \/ Begun(n)) => (Challenged(n)' <=> Challenged(n)) /\ (Begun(n) => Begun(n)')
      BY <2>1, <2>5 DEF Calls, Unknown
    <3>. QED
      BY <1>0, <3>1, <3>2 DEF SecondOf, VerifierFor
  <2>. QED
    BY <1>2, <2>6, <2>7, <2>8 DEF StatesApart
<1>. QED
  BY <1>4, <1>5

\* a first step draws a state that nobody has
LEMMA InitiateStates ==
  ASSUME Typed, StatesApart, NEW c \in Clients, NEW auth \in AuthTypes,
         NEW email \in Emails \cup {None}, NEW mfa \in BOOLEAN, Initiate(c, auth, email, mfa)
  PROVE  StatesApart'
<1>. DEFINE n == calls + 1
            s == FirstStep(auth, email, mfa, n)
<1>0. calls \in Nat /\ calls' = n /\ UNCHANGED <<useHashmap, cache, pending>>
  BY DEF Initiate, Start, Unissued, Typed, TypeOK
<1>1. /\ \A d \in Clients \ {c} : pc'[d] = pc[d] /\ login'[d] = login[d]
      /\ login'[c] = s
      /\ pc'[c] = IF s.auth = "local" THEN "findUser" ELSE "populate"
  BY DEF Initiate, Start, Move, FirstStep, Typed, TypeOK, Awaits
<1>2. s.auth = auth /\ (auth # "local" => /\ s.call = n
                                          /\ s.verifier = IF WithPKCE(s.auth) THEN s.call ELSE NoVerifier)
  BY DEF FirstStep
<1>. HIDE DEF s
<1>3. SecondOf(c)'
  BY <1>1 DEF SecondOf
<1>4. CASE auth = "local"
  BY <1>0, <1>1, <1>2, <1>3, <1>4, StatesStay DEF Drawing
<1>5. CASE auth # "local"
  <2>1. (\A m : Begun(m)' <=> Begun(m)) /\ (\A m : Challenged(m)' <=> Challenged(m))
    BY <1>0 DEF Begun, Challenged
  <2>2. ~Begun(n)
    BY <1>0 DEF StatesApart, Drawn, Begun
  <2>3. \A d \in Clients : Drawing(d)' => d = c \/ (Drawing(d) /\ login'[d] = login[d] /\ login[d].call # n)
    BY <1>0, <1>1 DEF StatesApart, Drawn, Drawing
  <2>4. \A p \in pending' : p.auth # "local" => p.call \in 1 .. calls'
    BY <1>0 DEF StatesApart, Drawn
  <2>5. \A d \in Clients : Drawing(d)' =>
          /\ login'[d].call \in 1 .. calls' /\ ~Begun(login[d].call)'
          /\ login'[d].verifier = IF WithPKCE(login'[d].auth) THEN login'[d].call ELSE NoVerifier
    <3>. SUFFICES ASSUME NEW d \in Clients, Drawing(d)'
                  PROVE  /\ login'[d].call \in 1 .. calls' /\ ~Begun(login[d].call)'
                         /\ login'[d].verifier = IF WithPKCE(login'[d].auth) THEN login'[d].call ELSE NoVerifier
      OBVIOUS
    <3>1. CASE d = c
      BY <1>0, <1>1, <1>2, <1>5, <2>1, <2>2, <3>1
    <3>2. CASE d # c
      BY <1>0, <2>1, <2>3, <3>2 DEF StatesApart, Drawn
    <3>. QED
      BY <3>1, <3>2
  <2>6. \A d, e \in Clients : d # e /\ Drawing(d)' /\ Drawing(e)' => login'[d].call # login'[e].call
    BY <1>1, <1>2, <1>5, <2>3 DEF StatesApart, Drawn
  <2>7. StateEntries'
    BY <1>0, <2>1 DEF StatesApart, StateEntries
  <2>8. \A d \in Clients : SecondOf(d)'
    BY <1>0, <1>1, <1>3, <2>1 DEF StatesApart, SecondOf, VerifierFor
  <2>. QED
    BY <2>4, <2>5, <2>6, <2>7, <2>8 DEF StatesApart, Drawn
<1>. QED
  BY <1>4, <1>5

\* a second step names whatever state was begun, or another
LEMMA CompleteStates ==
  ASSUME Typed, StatesApart, NEW c \in Clients, NEW t \in Steps, t.step = "complete",
         t.auth # "local" => /\ t.verifier \in SentVerifiers
                             /\ t.call = Unknown \/ \E p \in pending : p.auth # "local" /\ p.call = t.call,
         Start(c, t), UNCHANGED pending
  PROVE  StatesApart'
<1>0. calls \in Nat /\ calls' = calls + 1 /\ UNCHANGED <<useHashmap, cache, pending>>
  BY DEF Start, Unissued, Typed, TypeOK
<1>1. /\ \A d \in Clients \ {c} : pc'[d] = pc[d] /\ login'[d] = login[d]
      /\ login'[c] = t
      /\ pc'[c] = IF t.auth = "local" THEN "findUser" ELSE "restore"
  BY DEF Start, Move, Typed, TypeOK, Awaits
<1>2. t.auth # "local" => t.call = Unknown \/ Begun(t.call)
  BY DEF Begun
<1>3. SecondOf(c)' /\ ~Drawing(c)'
  BY <1>0, <1>1, <1>2 DEF SecondOf, Drawing, Begun
<1>. QED
  BY <1>0, <1>1, <1>3, StatesStay

LEMMA NextStates == Typed /\ StatesApart /\ [Next]_vars => StatesApart'
<1>. SUFFICES ASSUME Typed, StatesApart, [Next]_vars
              PROVE  StatesApart'
  OBVIOUS
<1>0. calls \in Nat
  BY DEF Typed, TypeOK
<1>1. ASSUME NEW c \in Clients, Step(c)
      PROVE  StatesApart'
  <2>1. LoginStep(c) \/ TokenStepIn(c)
    BY <1>1 DEF Step, TokenStepIn
  <2>. QED
    BY <2>1, RestoreStates, PopulateStates, PastStates
<1>2. ASSUME NEW c \in Clients, Call(c)
      PROVE  StatesApart'
  <2>1. ASSUME NEW r, calls' = calls + 1, Request(c, r),
               UNCHANGED <<login, users, cache, pending, redeemed, overlaps>>
        PROVE  StatesApart'
    <3>1. /\ login[c] = None /\ UNCHANGED useHashmap
          /\ \A d \in Clients \ {c} : pc'[d] = pc[d]
      BY <2>1 DEF Request, Respond, Reject, Typed, TypeOK, Awaits, Shape, LoginShape
    <3>2. SecondOf(c)' /\ ~Drawing(c)'
      BY <2>1, <3>1 DEF SecondOf, Drawing
    <3>. QED
      BY <1>0, <2>1, <3>1, <3>2, StatesStay
  <2>2. ASSUME NEW email \in Emails, NEW mfa \in BOOLEAN, "local" \in AuthTypes, CompleteLocal(c, email, mfa)
        PROVE  StatesApart'
    BY <2>2, CompleteIs, CompleteStates
  <2>3. ASSUME NEW auth \in AuthTypes \ {"local"}, NEW email \in Emails, CompleteRemote(c, auth, email)
        PROVE  StatesApart'
    BY <2>3, CompleteIs, CompleteStates
  <2>. QED
    BY <1>2, <2>1, <2>2, <2>3, InitiateStates DEF Call
<1>3. ASSUME UNCHANGED <<pc, login, pending, calls, useHashmap>>,
             \A n \in Calls \cup {Unknown} : \/ cache'[<<"state", n>>] = cache[<<"state", n>>]
                                             \/ cache'[<<"state", n>>] = None /\ ~useHashmap
      PROVE  StatesApart'
  BY <1>0, <1>3, StatesStay
<1>4. ASSUME NEW k \in DOMAIN cache, ExpireCached(k)
      PROVE  \A n \in Calls \cup {Unknown} : \/ cache'[<<"state", n>>] = cache[<<"state", n>>]
                                             \/ cache'[<<"state", n>>] = None /\ ~useHashmap
  BY <1>4 DEF ExpireCached, Typed, TypeOK, StateKeys, Unknown
<1>5. CASE Environment \/ UNCHANGED vars
  BY <1>3, <1>4, <1>5 DEF Environment, Tick, EditUser, ExpireCached, vars, tokenVars
<1>. QED
  BY <1>1, <1>2, <1>5 DEF Next

\* Whatever state, auth service, code and code verifier a client completes a login with, what
\* executeStep hands the provider is the verifier of the login that drew that state or the
\* client's own, and the client's only where the cache has no verifier of that state.
THEOREM VerifierOfItsState == Spec => []VerifierOfState
<1>1. Typed /\ StatesApart => VerifierOfState
  BY DEF Typed, Shape, LoginShape, StatesApart, SecondOf, VerifierFor, VerifierOfState
<1>. QED
  BY <1>1, InitTyped, NextTyped, InitStates, NextStates, PTL DEF Spec

-----------------------------------------------------------------------------
(* The age of a user's data.                                               *)

FirstOf(id, email, rows) ==
  id \in DOMAIN rows /\ rows[id].email = email /\ \A j \in 1 .. (id - 1) : rows[j].email # email

\* what a user's entry may hold once a login has seen data of an age
NotOlder(id, age) ==
  \/ id \in overlaps
  \/ cache[<<"user", id>>] = None
  \/ cache[<<"user", id>>] >= age

\* whom the second step of a login will find, and what it will restore
SeenBefore(s) ==
  \E id \in UserIds : /\ FirstOf(id, s.email, users)
                      /\ s.seen <= users[id].version
                      /\ NotOlder(id, s.seen)

PendingAge(s) == IF s.auth = "local" THEN SeenBefore(s) ELSE s.seen = 0

Fresh(s) == FirstOf(s.id, s.email, users) /\ s.version = s.seen /\ s.version <= users[s.id].version

LoginAge(c) ==
  login[c] # None =>
    LET s == login[c]
    IN  /\ s.auth # "local" => s.seen = 0
        /\ s.auth = "local" =>
             /\ pc[c] = "findUser" /\ s.step = "complete" => s.seen = 0 \/ SeenBefore(s)
             /\ pc[c] = "restore" =>
                  /\ s.step = "complete" /\ s.version >= s.seen
                  /\ SeenBefore(s) /\ FirstOf(s.id, s.email, users)
             /\ pc[c] \in {"findAgain", "populate"} \/ (pc[c] = "mfa" /\ s.step = "initiate") => Fresh(s)
             /\ pc[c] \in CreateAwaits \/ (pc[c] = "mfa" /\ s.step = "complete") =>
                  s.version >= s.seen \/ s.id \in overlaps

Ages ==
  /\ \A p \in pending : PendingAge(p)
  /\ \A c \in Clients : LoginAge(c)

\* rows keep their emails, and their data only gets newer
Later ==
  \A id \in DOMAIN users : /\ id \in DOMAIN users'
                           /\ users'[id].email = users[id].email
                           /\ users'[id].version >= users[id].version

\* an entry is as it was, gone, or as new as the row
Entries ==
  \A id \in UserIds :
    \/ cache'[<<"user", id>>] \in {None, cache[<<"user", id>>]}
    \/ id \in overlaps'
    \/ id \in DOMAIN users /\ cache'[<<"user", id>>] >= users[id].version

LEMMA InitAges == Init => Ages
<1>. SUFFICES ASSUME Init
              PROVE  Ages
  OBVIOUS
<1>1. ASSUME NEW p \in pending
      PROVE  p.auth # "local" /\ p.seen = 0
  <2>1. PICK n \in 1 .. Len(StartedLogins) : p = FirstStep(StartedLogins[n], None, FALSE, n)
    BY <1>1 DEF Init
  <2>. QED
    BY <2>1, StartedType DEF FirstStep
<1>. QED
  BY <1>1 DEF Init, Ages, PendingAge, LoginAge

LEMMA RowFacts ==
  ASSUME Typed
  PROVE  /\ \A id \in DOMAIN users : id \in Nat \ {0} /\ id \in UserIds /\ users[id].version \in Nat
         /\ DOMAIN users = 1 .. Len(users) /\ Len(users) \in Nat
         /\ \A id \in UserIds : cache[<<"user", id>>] \in Nat \cup {None}
         /\ \A s \in Steps : s.seen \in Nat /\ s.version \in Nat
<1>1. UsersShape /\ Len(users) <= MaxUsers
  BY DEF Typed, TypeOK
<1>. QED
  BY <1>1, UserRows, LoginAssumption DEF Typed, TypeOK, UserKeys, Rows, Steps

LEMMA FirstIsOne ==
  ASSUME UsersShape, NEW email, NEW id, NEW other, FirstOf(id, email, users), FirstOf(other, email, users)
  PROVE  id = other
<1>1. id \in Nat \ {0} /\ other \in Nat \ {0}
  BY DEF FirstOf, UsersShape
<1>2. ~(id < other) /\ ~(other < id)
  BY <1>1 DEF FirstOf
<1>. QED
  BY <1>1, <1>2

LEMMA FirstStays ==
  ASSUME Typed, Later, NEW id, NEW email, FirstOf(id, email, users)
  PROVE  FirstOf(id, email, users')
<1>1. \A j \in 1 .. (id - 1) : j \in DOMAIN users
  BY RowFacts DEF FirstOf
<1>. QED
  BY <1>1 DEF FirstOf, Later

LEMMA SeenStays ==
  ASSUME Typed, Typed', Later, overlaps \subseteq overlaps', Entries, NEW s \in Steps, SeenBefore(s)
  PROVE  SeenBefore(s)'
<1>1. PICK id \in UserIds : FirstOf(id, s.email, users) /\ s.seen <= users[id].version /\ NotOlder(id, s.seen)
  BY DEF SeenBefore
<1>2. FirstOf(id, s.email, users')
  BY <1>1, FirstStays
<1>3. /\ id \in DOMAIN users /\ id \in DOMAIN users' /\ users'[id].version >= users[id].version
      /\ users[id].version \in Nat /\ users'[id].version \in Nat /\ s.seen \in Nat
      /\ cache[<<"user", id>>] \in Nat \cup {None} /\ cache'[<<"user", id>>] \in Nat \cup {None}
  <2>1. users'[id].version \in Nat /\ cache'[<<"user", id>>] \in Nat \cup {None}
    BY <1>2, LoginAssumption DEF FirstOf, Typed, TypeOK, Rows, UserKeys
  <2>. QED
    BY <1>1, <2>1, RowFacts DEF FirstOf, Later
<1>4. s.seen <= users'[id].version
  BY <1>1, <1>3
<1>5. NotOlder(id, s.seen)'
  BY <1>1, <1>3 DEF NotOlder, Entries
<1>. QED
  BY <1>2, <1>4, <1>5 DEF SeenBefore

\* what the step of one client must show
LEMMA AgesBy ==
  ASSUME Typed, Typed', Ages, Later, overlaps \subseteq overlaps', Entries, NEW c \in Clients,
         \A d \in Clients \ {c} : pc'[d] = pc[d] /\ login'[d] = login[d],
         \A p \in pending' : p \in pending \/ PendingAge(p)',
         LoginAge(c)' \/ (pc'[c] = pc[c] /\ login'[c] = login[c])
  PROVE  Ages'
<1>1. ASSUME NEW p \in pending'
      PROVE  PendingAge(p)'
  <2>1. p \in pending => p \in Steps /\ PendingAge(p)
    BY DEF Ages, Typed, TypeOK
  <2>2. ASSUME p \in pending
        PROVE  PendingAge(p)'
    BY <2>1, <2>2, SeenStays DEF PendingAge
  <2>. QED
    BY <2>2
<1>2. ASSUME NEW d \in Clients, pc'[d] = pc[d], login'[d] = login[d], login[d] # None
      PROVE  LoginAge(d)'
  <2>1. PICK s \in Steps : s = login[d]
    BY <1>2 DEF Typed, TypeOK
  <2>2. LoginAge(d)
    BY DEF Ages
  <2>3. SeenBefore(s) => SeenBefore(s)'
    BY SeenStays
  <2>4. FirstOf(s.id, s.email, users) => FirstOf(s.id, s.email, users')
    BY FirstStays
  <2>5. Fresh(s) => Fresh(s)'
    <3>1. Fresh(s) => /\ users[s.id].version \in Nat /\ users'[s.id].version \in Nat /\ s.version \in Nat
                      /\ users'[s.id].version >= users[s.id].version
      BY <2>4, RowFacts, LoginAssumption DEF Fresh, FirstOf, Later, Typed, TypeOK, Rows
    <3>. QED
      BY <2>4, <3>1 DEF Fresh
  <2>6. login'[d] = s
    BY <1>2, <2>1
  <2>. QED
    BY <1>2, <2>1, <2>2, <2>3, <2>4, <2>5, <2>6 DEF LoginAge
<1>3. \A d \in Clients : LoginAge(d)'
  BY <1>2 DEF LoginAge
<1>. QED
  BY <1>1, <1>3 DEF Ages

\* editing and registering users is all that happens to rows
LEMMA RowsLater ==
  ASSUME Typed, Typed', [Next]_vars
  PROVE  Later /\ overlaps \subseteq overlaps'
<1>0. Grows /\ overlaps \subseteq overlaps'
  BY UsersGrow, OverlapsGrow
<1>1. CASE UNCHANGED users
  BY <1>0, <1>1, RowFacts DEF Grows, Later
<1>2. ASSUME NEW c \in Clients, CreateUser(c)
      PROVE  Later
  <2>1. \A id \in DOMAIN users : users'[id] = users[id]
    BY <1>2 DEF CreateUser, Typed, UsersShape
  <2>. QED
    BY <1>0, <2>1, RowFacts DEF Grows, Later
<1>3. ASSUME NEW id \in DOMAIN InitialUsers, EditUser(id)
      PROVE  Later
  <2>1. \A i \in DOMAIN users : users'[i].version \in {users[i].version, users[i].version + 1}
    BY <1>3 DEF EditUser, Typed, TypeOK, UsersShape, Rows
  <2>. QED
    BY <1>0, <2>1, RowFacts DEF Grows, Later
<1>4. ASSUME NEW c \in Clients, Call(c)
      PROVE  UNCHANGED users
  BY <1>4 DEF Call, Initiate, CompleteLocal, CompleteRemote, Start
<1>5. ASSUME NEW c \in Clients, Step(c), ~CreateUser(c)
      PROVE  UNCHANGED users
  BY <1>5 DEF Step, LoginStep, FindUser, RestoreCache, Populate, MFA, FindAgain, Exchange, FindByEmail,
              GetUser, SaveRefresh, SaveAccess, Others
<1>6. CASE Environment
  BY <1>0, <1>1, <1>3, <1>6 DEF Environment, ExpireCached
<1>7. CASE UNCHANGED vars
  BY <1>1, <1>7 DEF vars
<1>. QED
  BY <1>0, <1>1, <1>2, <1>4, <1>5, <1>6, <1>7 DEF Next

LEMMA FindUserAge ==
  ASSUME Typed, Typed', Ages, NEW c \in Clients, FindUser(c)
  PROVE  LoginAge(c)' /\ UNCHANGED <<users, cache, pending, overlaps>>
<1>. DEFINE s == login[c]
            id == FirstRow(s.email)
            found == [s EXCEPT !.id = id, !.version = users[id].version]
            first == [found EXCEPT !.seen = users[id].version]
<1>0. /\ s \in Steps /\ s # None /\ s.auth = "local" /\ pc[c] = "findUser"
      /\ UNCHANGED <<users, cache, pending, overlaps>>
  BY DEF FindUser, At, Typed, TypeOK, Shape, LoginShape, Others
<1>1. CASE Throw(c)
  BY <1>0, <1>1 DEF Throw, LoginAge, Typed, TypeOK
<1>2. ASSUME id # 0
      PROVE  FirstOf(id, s.email, users) /\ id \in UserIds /\ users[id].version \in Nat
  BY <1>2, FirstRowIsOne, RowFacts DEF FirstOf, Typed
<1>3. CASE id # 0 /\ s.step = "initiate" /\ LocalInitiate(c, first) /\ ~Throw(c)
  <2>1. PICK t \in Steps : t = first
    <3>1. found \in Steps /\ users[id].version \in Nat
      BY <1>0, <1>2, <1>3, FoundType DEF FirstOf
    <3>. HIDE DEF found, id
    <3>. QED
      BY <3>1 DEF Steps
  <2>2. /\ t.id = id /\ t.version = users[id].version /\ t.seen = users[id].version
        /\ t.email = s.email /\ t.auth = "local" /\ t.step = "initiate"
    BY <1>0, <1>3, <2>1 DEF Steps
  <2>3. login'[c] = t /\ pc'[c] \in {"mfa", "findAgain"}
    BY <1>3, <2>1 DEF LocalInitiate, Move, Typed, TypeOK, Awaits
  <2>. HIDE DEF first, id
  <2>4. Fresh(t)'
    BY <1>0, <1>2, <1>3, <2>2 DEF Fresh
  <2>. QED
    BY <1>0, <2>2, <2>3, <2>4 DEF LoginAge, CreateAwaits
<1>4. CASE id # 0 /\ s.step = "complete" /\ Move(c, found, "restore")
  <2>0. PICK t \in Steps : t = found
    BY <1>0, <1>2, <1>4, FoundType DEF FirstOf
  <2>1. /\ t.id = id /\ t.version = users[id].version /\ t.seen = s.seen
        /\ t.email = s.email /\ t.auth = "local" /\ t.step = "complete"
    BY <1>0, <1>4, <2>0 DEF Steps
  <2>2. login'[c] = t /\ pc'[c] = "restore"
    BY <1>4, <2>0 DEF Move, Typed, TypeOK, Awaits
  <2>3. s.seen = 0 \/ SeenBefore(s)
    BY <1>0, <1>4 DEF Ages, LoginAge
  <2>4. s.seen <= users[id].version /\ NotOlder(id, s.seen)
    <3>1. CASE s.seen = 0
      <4>1. cache[<<"user", id>>] \in Nat \cup {None} /\ users[id].version \in Nat
        BY <1>2, <1>4, RowFacts
      <4>. QED
        BY <3>1, <4>1 DEF NotOlder
    <3>2. CASE SeenBefore(s)
      <4>1. PICK other \in UserIds :
              FirstOf(other, s.email, users) /\ s.seen <= users[other].version /\ NotOlder(other, s.seen)
        BY <3>2 DEF SeenBefore
      <4>2. other = id
        BY <1>2, <1>4, <4>1, FirstIsOne DEF Typed
      <4>. QED
        BY <4>1, <4>2
    <3>. QED
      BY <2>3, <3>1, <3>2
  <2>. HIDE DEF found, id
  <2>5. FirstOf(id, s.email, users) /\ id \in UserIds
    BY <1>2, <1>4
  <2>6. SeenBefore(t)' /\ FirstOf(t.id, t.email, users') /\ t.version >= t.seen
    <3>1. SeenBefore(t)'
      BY <1>0, <2>1, <2>4, <2>5 DEF SeenBefore, NotOlder
    <3>. QED
      BY <1>0, <1>2, <1>4, <2>1, <2>4, <2>5, <3>1, RowFacts
  <2>. QED
    BY <1>0, <2>1, <2>2, <2>6 DEF LoginAge, CreateAwaits
<1>. QED
  BY <1>0, <1>1, <1>3, <1>4 DEF FindUser, LocalInitiate

LEMMA RestoreAge ==
  ASSUME Typed, Typed', Ages, NEW c \in Clients, RestoreCache(c)
  PROVE  LoginAge(c)' /\ UNCHANGED <<users, cache, pending, overlaps>>
<1>. DEFINE s == login[c]
            value == cache[CacheKey(s)]
            t == Restore(s, value)
<1>0. /\ s \in Steps /\ s # None /\ pc[c] = "restore" /\ Keyed(s)
      /\ UNCHANGED <<users, cache, pending, overlaps>>
  BY DEF RestoreCache, At, Typed, TypeOK, Shape, LoginShape, Others
<1>2. t.auth = s.auth /\ t.step = s.step /\ t.email = s.email /\ t.id = s.id /\ t.seen = s.seen
  BY <1>0, RestoreType
<1>1. login'[c] = t /\ IF s.auth = "local" THEN pc'[c] \in {"mfa", "purgeFind"} ELSE pc'[c] = "exchange"
  BY <1>2 DEF RestoreCache, Move, IssueTokens, Create, Typed, TypeOK, Awaits
<1>3. LoginAge(c)
  BY DEF Ages
<1>4. CASE s.auth # "local"
  <2>. HIDE DEF t
  <2>. QED
    BY <1>0, <1>1, <1>2, <1>3, <1>4 DEF LoginAge
<1>5. CASE s.auth = "local"
  <2>1. SeenBefore(s) /\ FirstOf(s.id, s.email, users) /\ s.version >= s.seen /\ s.step = "complete"
    BY <1>0, <1>3, <1>5 DEF LoginAge
  <2>2. PICK id \in UserIds : FirstOf(id, s.email, users) /\ NotOlder(id, s.seen)
    BY <2>1 DEF SeenBefore
  <2>3. id = s.id
    BY <2>1, <2>2, FirstIsOne DEF Typed
  <2>4. CacheKey(s) = <<"user", s.id>>
    BY <1>5 DEF CacheKey
  <2>5. CASE value = None
    <3>1. t = s
      BY <2>5 DEF Restore
    <3>. QED
      BY <1>0, <1>1, <1>5, <2>1, <3>1 DEF LoginAge, CreateAwaits
  <2>6. CASE value # None
    <3>1. t.version = value
      BY <1>0, <1>5, <2>6 DEF Restore, Steps
    <3>2. value >= s.seen \/ s.id \in overlaps
      BY <2>2, <2>3, <2>4, <2>6 DEF NotOlder
    <3>3. login'[c] = t /\ pc'[c] \in {"mfa", "purgeFind"}
      BY <1>1, <1>5
    <3>. HIDE DEF t, value
    <3>. QED
      BY <1>0, <1>2, <1>5, <2>1, <3>1, <3>2, <3>3 DEF LoginAge, CreateAwaits
  <2>. QED
    BY <2>5, <2>6
<1>. QED
  BY <1>4, <1>5

LEMMA EntriesAlike ==
  ASSUME UNCHANGED cache
  PROVE  Entries
  BY DEF Entries

LEMMA PopulateAge ==
  ASSUME Typed, Typed', Ages, NEW c \in Clients, Populate(c)
  PROVE  /\ LoginAge(c)' /\ Entries
         /\ \A p \in pending' : p \in pending \/ PendingAge(p)'
<1>0. PICK s \in Steps : s = login[c]
  BY DEF Populate, At, Typed, TypeOK
<1>1. /\ s # None /\ pc[c] = "populate" /\ Keyed(s) /\ UNCHANGED users /\ LoginAge(c)
      /\ cache' = [cache EXCEPT ![CacheKey(s)] = CacheValue(s)]
      /\ overlaps' = overlaps \cup
           IF s.auth = "local" /\ s.version < users[s.id].version THEN {s.id} ELSE {}
      /\ login'[c] = None
      /\ \A p \in pending' : p \in pending \/ p = s
  BY <1>0 DEF Populate, At, Typed, TypeOK, Shape, LoginShape, Ages, End, Move, Throw, Unissued
<1>2. LoginAge(c)'
  BY <1>1 DEF LoginAge
<1>3. CASE s.auth # "local"
  <2>1. CacheKey(s) = <<"state", s.call>> /\ s.seen = 0
    BY <1>0, <1>1, <1>3 DEF CacheKey, LoginAge
  <2>2. \A id \in UserIds : cache'[<<"user", id>>] = cache[<<"user", id>>]
    BY <1>1, <2>1 DEF Typed, TypeOK, UserKeys
  <2>. QED
    BY <1>1, <1>2, <1>3, <2>1, <2>2 DEF Entries, PendingAge
<1>4. CASE s.auth = "local"
  <2>1. Fresh(s) /\ CacheKey(s) = <<"user", s.id>> /\ CacheValue(s) = s.version
    BY <1>0, <1>1, <1>4 DEF LoginAge, CacheKey, CacheValue
  <2>2. /\ s.id \in DOMAIN users /\ s.id \in UserIds /\ s.version \in Nat
        /\ users[s.id].version \in Nat
    BY <2>1, RowFacts DEF Fresh, FirstOf
  <2>3. /\ cache'[<<"user", s.id>>] = s.version
        /\ \A id \in UserIds \ {s.id} : cache'[<<"user", id>>] = cache[<<"user", id>>]
    BY <1>1, <2>1, <2>2 DEF Typed, TypeOK, UserKeys
  <2>4. Entries
    <3>1. s.id \in overlaps' \/ s.version >= users[s.id].version
      BY <1>1, <1>4, <2>2
    <3>. QED
      BY <2>2, <2>3, <3>1 DEF Entries
  <2>5. SeenBefore(s)'
    <3>1. FirstOf(s.id, s.email, users') /\ s.seen <= users'[s.id].version /\ s.seen \in Nat
      BY <1>1, <2>1, <2>2 DEF Fresh
    <3>2. NotOlder(s.id, s.seen)'
      BY <2>1, <2>2, <2>3 DEF NotOlder, Fresh
    <3>. QED
      BY <2>2, <3>1, <3>2 DEF SeenBefore
  <2>. QED
    BY <1>1, <1>2, <1>4, <2>4, <2>5 DEF PendingAge
<1>. QED
  BY <1>3, <1>4

\* the steps of a login that touch neither rows nor entries, and those that create its row
LEMMA LoginAges ==
  ASSUME Typed, Typed', Ages, [Next]_vars, NEW c \in Clients, LoginStep(c)
  PROVE  Ages'
<1>0. Later /\ overlaps \subseteq overlaps'
  BY RowsLater
<1>1. /\ \A d \in Clients \ {c} : pc'[d] = pc[d] /\ login'[d] = login[d]
      /\ login'[c] = None \/ Same(login'[c], login[c])
      /\ login[c] # None /\ login[c] \in Steps
  BY LoginKeeps
<1>2. CASE Populate(c)
  BY <1>0, <1>1, <1>2, PopulateAge, AgesBy
<1>3. CASE ~Populate(c)
  <2>0. UNCHANGED <<cache, pending>>
    BY <1>3 DEF LoginStep, FindUser, RestoreCache, MFA, FindAgain, Exchange, FindByEmail, CreateUser, GetUser,
                SaveRefresh, SaveAccess, Others
  <2>1. LoginAge(c)'
    <3>1. CASE FindUser(c) \/ RestoreCache(c)
      BY <3>1, FindUserAge, RestoreAge
    <3>2. CASE login[c].auth # "local"
      <4>1. login'[c] # None => login'[c].auth # "local" /\ login'[c].seen = 0
        BY <1>1, <3>2 DEF Same, Ages, LoginAge
      <4>. QED
        BY <4>1 DEF LoginAge
    <3>3. CASE login'[c] = None
      BY <3>3 DEF LoginAge
    <3>4. CASE login[c].auth = "local" /\ (MFA(c) \/ FindAgain(c) \/ SaveRefresh(c)) /\ login'[c] # None
      <4>1. PICK s \in Steps : s = login[c]
        BY <1>1
      <4>2. /\ login'[c] = s /\ UNCHANGED <<users, overlaps>>
            /\ \/ pc[c] = "mfa" /\ s.step = "initiate" /\ pc'[c] = "populate"
               \/ pc[c] = "mfa" /\ s.step = "complete" /\ pc'[c] = "purgeFind"
               \/ pc[c] = "findAgain" /\ pc'[c] = "purgeFind"
               \/ pc[c] = "save" /\ pc'[c] = "purgeFind"
        BY <3>4, <4>1 DEF MFA, FindAgain, SaveRefresh, At, Move, Throw, IssueTokens, Create, Others,
                          Typed, TypeOK, Awaits
      <4>3. LoginAge(c) /\ s # None /\ s.auth = "local" /\ s.seen \in Nat
        BY <1>1, <3>4, <4>1 DEF Ages, Steps
      <4>4. Fresh(s) => s.version >= s.seen /\ Fresh(s)'
        BY <4>2, <4>3 DEF Fresh
      <4>. QED
        BY <4>1, <4>2, <4>3, <4>4 DEF LoginAge, CreateAwaits
    <3>5. ASSUME login[c].auth = "local"
          PROVE  ~Exchange(c) /\ ~FindByEmail(c) /\ ~CreateUser(c) /\ ~GetUser(c)
      BY <1>1, <3>5 DEF Exchange, FindByEmail, CreateUser, GetUser, At, Typed, Shape, LoginShape
    <3>6. SaveAccess(c) => login'[c] = None
      BY DEF SaveAccess, End, Move, Typed, TypeOK
    <3>. QED
      BY <1>3, <3>1, <3>2, <3>3, <3>4, <3>5, <3>6 DEF LoginStep
  <2>. QED
    BY <1>0, <1>1, <2>0, <2>1, EntriesAlike, AgesBy
<1>. QED
  BY <1>2, <1>3

LEMMA NextAges == Typed /\ Typed' /\ Ages /\ [Next]_vars => Ages'
<1>. SUFFICES ASSUME Typed, Typed', Ages, [Next]_vars
              PROVE  Ages'
  OBVIOUS
<1>0. Later /\ overlaps \subseteq overlaps'
  BY RowsLater
<1>a. ASSUME NEW c \in Clients, UNCHANGED <<cache, pending>>, LoginAge(c)',
             \A d \in Clients \ {c} : pc'[d] = pc[d] /\ login'[d] = login[d]
      PROVE  Ages'
  BY <1>0, <1>a, EntriesAlike, AgesBy
<1>1. ASSUME NEW c \in Clients, TokenStepIn(c)
      PROVE  Ages'
  <2>1. /\ \A d \in Clients \ {c} : pc'[d] = pc[d] /\ login'[d] = login[d]
        /\ login'[c] = None \/ (login'[c] = login[c] /\ pc'[c] \in CreateAwaits)
        /\ UNCHANGED <<cache, pending, users, overlaps>>
    BY <1>1, TokensKeep DEF TokenStepIn, Others
  <2>2. CASE login'[c] = None
    BY <1>a, <2>1, <2>2 DEF LoginAge
  <2>3. CASE login'[c] # None
    <3>1. login'[c] = login[c] /\ pc[c] \in CreateAwaits /\ pc'[c] \in CreateAwaits
      BY <1>1, <2>1, <2>3 DEF TokenStepIn, TokenStep, PurgeFind, PurgeRemove, SaveAndThrow, EndByThrow,
                              RefreshExternal, RenewSave, Fail, CreateAwaits, Typed, TypeOK, Shape, LoginShape
    <3>2. LoginAge(c)
      BY DEF Ages
    <3>3. LoginAge(c)'
      BY <2>1, <3>1, <3>2 DEF LoginAge, CreateAwaits
    <3>. QED
      BY <1>a, <2>1, <3>3
  <2>. QED
    BY <2>2, <2>3
<1>2. ASSUME NEW c \in Clients, NEW auth \in AuthTypes, NEW email \in Emails \cup {None}, NEW mfa \in BOOLEAN,
             Initiate(c, auth, email, mfa)
      PROVE  Ages'
  <2>. DEFINE s == FirstStep(auth, email, mfa, calls + 1)
  <2>1. /\ \A d \in Clients \ {c} : pc'[d] = pc[d] /\ login'[d] = login[d]
        /\ login'[c] = s /\ UNCHANGED <<cache, pending>>
        /\ pc'[c] = IF auth = "local" THEN "findUser" ELSE "populate"
    BY <1>2 DEF Initiate, Start, Move, FirstStep, Typed, TypeOK, Awaits
  <2>2. s.auth = auth /\ s.seen = 0 /\ s.step = "initiate"
    BY DEF FirstStep
  <2>. HIDE DEF s
  <2>3. LoginAge(c)'
    BY <2>1, <2>2 DEF LoginAge, CreateAwaits
  <2>. QED
    BY <1>a, <2>1, <2>3
<1>3. ASSUME NEW c \in Clients, NEW t \in Steps, t.step = "complete", Start(c, t), UNCHANGED pending,
             \/ t.seen = 0
             \/ t.auth = "local" /\ \E p \in pending : /\ p.auth = "local" /\ p.email = t.email
                                                     /\ p.seen = t.seen
      PROVE  Ages'
  <2>1. /\ \A d \in Clients \ {c} : pc'[d] = pc[d] /\ login'[d] = login[d]
        /\ login'[c] = t /\ UNCHANGED <<cache, pending, users, overlaps>>
        /\ pc'[c] = IF t.auth = "local" THEN "findUser" ELSE "restore"
    BY <1>3 DEF Start, Move, Typed, TypeOK, Awaits
  <2>2. t.auth = "local" => t.seen = 0 \/ SeenBefore(t)
    BY <1>3 DEF Ages, PendingAge, SeenBefore
  <2>3. LoginAge(c)'
    BY <1>3, <2>1, <2>2 DEF LoginAge, CreateAwaits, SeenBefore, NotOlder
  <2>. QED
    BY <1>a, <2>1, <2>3
<1>4. ASSUME NEW c \in Clients, NEW r, Request(c, r),
             UNCHANGED <<login, users, cache, pending, redeemed, overlaps>>
      PROVE  Ages'
  <2>1. login[c] = None /\ \A d \in Clients \ {c} : pc'[d] = pc[d]
    BY <1>4 DEF Request, Respond, Reject, Typed, TypeOK, Awaits, Shape, LoginShape
  <2>. QED
    BY <1>4, <1>a, <2>1 DEF LoginAge
<1>5. ASSUME UNCHANGED <<pc, login, pending>>, Entries
      PROVE  Ages'
  <2>1. CASE Clients # {}
    BY <1>0, <1>5, <2>1, AgesBy
  <2>2. CASE Clients = {}
    BY <1>0, <1>5, <2>2, SeenStays DEF Ages, PendingAge, Typed, TypeOK
  <2>. QED
    BY <2>1, <2>2
<1>6. ASSUME NEW k \in DOMAIN cache, ExpireCached(k)
      PROVE  Entries
  BY <1>6 DEF ExpireCached, Entries, Typed, TypeOK, UserKeys
<1>7. CASE Environment \/ UNCHANGED vars
  BY <1>5, <1>6, <1>7, EntriesAlike DEF Environment, Tick, EditUser, ExpireCached, vars, tokenVars
<1>8. ASSUME NEW c \in Clients, Call(c)
      PROVE  Ages'
  <2>1. ASSUME NEW email \in Emails, NEW mfa \in BOOLEAN, "local" \in AuthTypes, CompleteLocal(c, email, mfa)
        PROVE  Ages'
    BY <1>3, <2>1, CompleteIs
  <2>2. ASSUME NEW auth \in AuthTypes \ {"local"}, NEW email \in Emails, CompleteRemote(c, auth, email)
        PROVE  Ages'
    BY <1>3, <2>2, CompleteIs
  <2>. QED
    BY <1>2, <1>4, <1>8, <2>1, <2>2 DEF Call
<1>. QED
  BY <1>1, <1>7, <1>8, LoginAges DEF Next, Step, TokenStepIn

\* The access token of a local login contains its user as new as any first step before it saw
\* it, whatever others logged in, cached and edited meanwhile, unless someone cached outdated
\* data of that user.
THEOREM DataOfOwnInitiate == Spec => []NotOlderThanOwnInitiate
<1>1. Typed /\ Ages => NotOlderThanOwnInitiate
  <2>. SUFFICES ASSUME Typed, Ages, NEW c \in Clients, login[c] # None, creating[c] # None,
                       login[c].id \notin overlaps
                PROVE  login[c].version >= login[c].seen
    BY DEF NotOlderThanOwnInitiate
  <2>1. pc[c] \in CreateAwaits /\ LoginAge(c)
    BY DEF Typed, Shape, Ages
  <2>2. login[c].version \in Nat
    BY RowFacts DEF Typed, TypeOK
  <2>. QED
    BY <2>1, <2>2 DEF LoginAge
<1>. QED
  BY <1>1, InitTyped, NextTyped, InitAges, NextAges, PTL DEF Spec

-----------------------------------------------------------------------------
(* Calls run down.                                                         *)

\* The awaits that may follow when a token is created, the current one among them.
TokenAwaitsLeft(at) == IF at = "purgeFind" THEN 3 ELSE IF at = "purgeRemove" THEN 2 ELSE 1

\* Those of a login before its first token, which may be a refresh token and is then
\* followed by an access token, and those of a renewal before its only one.
LoginAwaitsLeft(at) ==
  CASE at = "findUser"        -> 12
    [] at = "restore"         -> 11
    [] at = "exchange"        -> 10
    [] at = "findByEmail"     -> 9
    [] at = "createUser"      -> 8
    [] at \in {"getUser", "mfa", "findAgain"} -> 7
    [] at = "refreshExternal" -> 4
    [] OTHER                  -> 1  \* populate

\* How far a login or a request is from its end.
StepsLeft(c) ==
  IF pc[c] = "idle" THEN 0
  ELSE IF pc[c] \in CreateAwaits
  THEN TokenAwaitsLeft(pc[c]) + (IF creating[c].type = "refresh" THEN 3 ELSE 0)
  ELSE LoginAwaitsLeft(pc[c])

\* Every await that answers or rejects brings its login or request nearer to its end, and
\* nothing that other clients, the clock and whoever edits users do sets it back.
CallsGetNearer ==
  [][\A c \in Clients :
       /\ Step(c) => StepsLeft(c)' < StepsLeft(c)
       /\ pc[c] # "idle" => StepsLeft(c)' <= StepsLeft(c)]_vars

\* The ways from one await to the next that are no end of the call and create no token.
Ways ==
  {<<"findUser", "restore">>, <<"findUser", "mfa">>, <<"findUser", "findAgain">>,
   <<"restore", "mfa">>, <<"restore", "exchange">>, <<"mfa", "populate">>,
   <<"exchange", "findByEmail">>, <<"findByEmail", "createUser">>, <<"createUser", "getUser">>}

\* Where a step leads.
Leads(c) ==
  \/ pc'[c] = "idle"
  \/ <<pc[c], pc'[c]>> \in Ways
  \/ /\ <<pc[c], pc'[c]>> \in {<<"purgeFind", "purgeRemove">>, <<"purgeFind", "save">>, <<"purgeRemove", "save">>}
     /\ creating'[c] = creating[c]
  \/ pc[c] \in {"restore", "mfa", "findAgain", "findByEmail", "getUser"} /\ pc'[c] = "purgeFind"
  \/ /\ pc[c] = "refreshExternal" \/ (pc[c] = "save" /\ creating[c].type = "refresh")
     /\ pc'[c] = "purgeFind" /\ creating'[c].type = "access"

LEMMA StepsLeftIs ==
  ASSUME Typed, NEW c \in Clients
  PROVE  /\ StepsLeft(c) \in 0 .. 12
         /\ StepsLeft(c) = 0 <=> pc[c] = "idle"
<1>1. CASE pc[c] \in CreateAwaits
  BY <1>1 DEF StepsLeft, TokenAwaitsLeft, CreateAwaits
<1>2. CASE pc[c] \notin CreateAwaits
  <2>1. LoginAwaitsLeft(pc[c]) \in 1 .. 12
    BY DEF LoginAwaitsLeft
  <2>. QED
    BY <1>2, <2>1 DEF StepsLeft
<1>. QED
  BY <1>1, <1>2

LEMMA LeadsNearer ==
  ASSUME Typed, NEW c \in Clients, pc[c] # "idle", Leads(c)
  PROVE  StepsLeft(c)' \in Nat /\ StepsLeft(c)' < StepsLeft(c)
<1>1. CASE pc'[c] = "idle"
  <2>1. StepsLeft(c)' = 0
    BY <1>1 DEF StepsLeft
  <2>. QED
    BY <2>1, StepsLeftIs
<1>2. CASE <<pc[c], pc'[c]>> \in Ways
  BY <1>2 DEF Ways, StepsLeft, LoginAwaitsLeft, CreateAwaits
<1>3. CASE /\ <<pc[c], pc'[c]>> \in {<<"purgeFind", "purgeRemove">>, <<"purgeFind", "save">>, <<"purgeRemove", "save">>}
           /\ creating'[c] = creating[c]
  BY <1>3 DEF StepsLeft, TokenAwaitsLeft, CreateAwaits
<1>4. CASE pc[c] \in {"restore", "mfa", "findAgain", "findByEmail", "getUser"} /\ pc'[c] = "purgeFind"
  <2>1. StepsLeft(c)' \in {3, 6}
    BY <1>4 DEF StepsLeft, TokenAwaitsLeft, CreateAwaits
  <2>2. StepsLeft(c) \in {7, 9, 11}
    BY <1>4 DEF StepsLeft, LoginAwaitsLeft, CreateAwaits
  <2>. QED
    BY <2>1, <2>2
<1>5. CASE /\ pc[c] = "refreshExternal" \/ (pc[c] = "save" /\ creating[c].type = "refresh")
           /\ pc'[c] = "purgeFind" /\ creating'[c].type = "access"
  <2>1. StepsLeft(c)' = 3
    BY <1>5 DEF StepsLeft, TokenAwaitsLeft, CreateAwaits
  <2>2. StepsLeft(c) = 4
    BY <1>5 DEF StepsLeft, TokenAwaitsLeft, LoginAwaitsLeft, CreateAwaits
  <2>. QED
    BY <2>1, <2>2
<1>. QED
  BY <1>1, <1>2, <1>3, <1>4, <1>5 DEF Leads

\* What the clients' calls are at changes for one client only.
OneCall(c) == \A d \in Clients \ {c} : pc'[d] = pc[d] /\ creating'[d] = creating[d]

\* A login that throws, moves on or begins its tokens.
LEMMA LoginLeads ==
  ASSUME Typed, NEW c \in Clients
  PROVE  /\ EndByThrow(c) => pc'[c] = "idle" /\ OneCall(c)
         /\ \A s, to : Move(c, s, to) /\ creating' = creating => pc'[c] = to /\ OneCall(c)
         /\ \A s : IssueTokens(c, s) => pc'[c] = "purgeFind" /\ OneCall(c)
  BY DEF Typed, TypeOK, TokensTypeOK, EndByThrow, Move, IssueTokens, Create, OneCall

LEMMA LoginStepLeads ==
  ASSUME Typed, NEW c \in Clients, LoginStep(c)
  PROVE  pc[c] # "idle" /\ Leads(c) /\ OneCall(c)
<1>. USE LoginLeads DEF At, Leads, Unissued, Others
<1>1. CASE FindUser(c)
  BY <1>1 DEF FindUser, LocalInitiate, Throw, Ways
<1>2. CASE RestoreCache(c)
  BY <1>2 DEF RestoreCache, Ways
<1>3. CASE Populate(c)
  BY <1>3 DEF Populate, Throw, End
<1>4. CASE MFA(c)
  BY <1>4 DEF MFA, Throw, Ways
<1>5. CASE FindAgain(c)
  BY <1>5 DEF FindAgain
<1>6. CASE Exchange(c)
  BY <1>6 DEF Exchange, Throw, Ways
<1>7. CASE FindByEmail(c)
  BY <1>7 DEF FindByEmail, Throw, Ways
<1>8. CASE CreateUser(c)
  BY <1>8 DEF CreateUser, Ways
<1>9. CASE GetUser(c)
  BY <1>9 DEF GetUser
<1>10. CASE SaveRefresh(c)
  <2>1. AccessToken(login[c], creating[c]).type = "access"
    BY DEF AccessToken
  <2>. QED
    BY <1>10, <2>1 DEF SaveRefresh, Create, OneCall, Typed, TypeOK, TokensTypeOK
<1>11. CASE SaveAccess(c)
  BY <1>11 DEF SaveAccess, End, Move, OneCall, Typed, TypeOK, TokensTypeOK
<1>. QED
  BY <1>1, <1>2, <1>3, <1>4, <1>5, <1>6, <1>7, <1>8, <1>9, <1>10, <1>11 DEF LoginStep

LEMMA TokenStepLeads ==
  ASSUME Typed, NEW c \in Clients, TokenStep(c)
  PROVE  pc[c] # "idle" /\ Leads(c) /\ OneCall(c)
<1>0. pc \in [Clients -> Awaits] /\ creating \in [Clients -> Tokens \cup {None}]
  BY DEF Typed, TypeOK, TokensTypeOK, Awaits
<1>1. CASE PurgeFind(c) \/ PurgeRemove(c)
  BY <1>0, <1>1 DEF PurgeFind, PurgeRemove, Leads, OneCall
<1>2. CASE SaveAndThrow(c) \/ Fail(c)
  BY <1>2, LoginLeads DEF SaveAndThrow, Save, Fail, Leads
<1>3. CASE RefreshExternal(c)
  <2>1. pc[c] = "refreshExternal"
    BY <1>3 DEF RefreshExternal
  <2>2. CASE Reject(c) /\ creating' = creating
    BY <1>0, <2>1, <2>2 DEF Reject, Leads, OneCall
  <2>3. CASE \E external : Create(c, Renewed(request[c], external))
    <3>1. PICK external : Create(c, Renewed(request[c], external))
      BY <2>3
    <3>2. request[c].pair.access \in AccessTokens
      BY <2>1, NoneAssumption DEF Typed, TypeOK, TokensTypeOK, Shape, Requests, Pairs
    <3>3. Renewed(request[c], external).type = "access"
      BY <3>2 DEF Renewed, AccessTokens
    <3>. QED
      BY <1>0, <2>1, <3>1, <3>3 DEF Create, Leads, OneCall
  <2>. QED
    BY <1>3, <2>2, <2>3 DEF RefreshExternal
<1>4. CASE RenewSave(c)
  BY <1>0, <1>4 DEF RenewSave, Save, Leads, OneCall
<1>. QED
  BY <1>1, <1>2, <1>3, <1>4 DEF TokenStep

\* A login is at most twelve awaits from its tokens being issued, a renewal at most four
\* from its answer, whatever other logins, requests and failures there are
\* (iam.userManager.service.ts: executeStep, createAccessToken; iam.tokenManager.service.ts:
\* create, verifyAccessToken).
THEOREM CallsRunDown == Spec => CallsGetNearer
<1>. DEFINE Nearer(c) == /\ Step(c) => StepsLeft(c)' < StepsLeft(c)
                         /\ pc[c] # "idle" => StepsLeft(c)' <= StepsLeft(c)
<1>1. ASSUME Typed, [Next]_vars, NEW c \in Clients
      PROVE  Nearer(c)
  <2>1. ASSUME NEW d \in Clients, Step(d)
        PROVE  pc[d] # "idle" /\ Leads(d) /\ OneCall(d)
    BY <1>1, <2>1, LoginStepLeads, TokenStepLeads DEF Step
  <2>2. Step(c) => StepsLeft(c)' \in Nat /\ StepsLeft(c)' < StepsLeft(c)
    BY <1>1, <2>1, LeadsNearer
  <2>3. StepsLeft(c) \in Nat
    BY <1>1, StepsLeftIs
  <2>4. pc'[c] = pc[c] /\ creating'[c] = creating[c] => StepsLeft(c)' = StepsLeft(c)
    BY DEF StepsLeft
  <2>5. ASSUME NEW d \in Clients, Step(d), d # c
        PROVE  pc'[c] = pc[c] /\ creating'[c] = creating[c]
    BY <2>1, <2>5 DEF OneCall
  <2>6. ASSUME NEW d \in Clients, Call(d), pc[c] # "idle"
        PROVE  pc'[c] = pc[c] /\ creating'[c] = creating[c]
    <3>1. CASE \E s : Start(d, s)
      <4>1. pc[d] = "idle" /\ creating' = creating /\ \E to : pc' = [pc EXCEPT ![d] = to]
        BY <3>1 DEF Start, Move, Unissued
      <4>. QED
        BY <1>1, <2>6, <4>1 DEF Typed, TypeOK
    <3>2. CASE \E r : Request(d, r)
      <4>1. pc[d] = "idle" /\ creating' = creating /\ \E to : pc' = [pc EXCEPT ![d] = to]
        BY <3>2 DEF Request, Respond, Reject
      <4>. QED
        BY <1>1, <2>6, <4>1 DEF Typed, TypeOK
    <3>3. (\E s : Start(d, s)) \/ (\E r : Request(d, r))
      <4>1. \A auth, email, mfa : Initiate(d, auth, email, mfa) => \E s : Start(d, s)
        BY DEF Initiate
      <4>2. \A auth, email, mfa : CompleteLocal(d, email, mfa) \/ CompleteRemote(d, auth, email) =>
              \E s : Start(d, s)
        BY DEF CompleteLocal, CompleteRemote
      <4>. QED
        BY <2>6, <4>1, <4>2 DEF Call
    <3>. QED
      BY <3>1, <3>2, <3>3
  <2>7. CASE Environment \/ UNCHANGED vars
    <3>1. pc' = pc /\ creating' = creating
      BY <2>7 DEF Environment, Tick, EditUser, ExpireCached, vars, tokenVars
    <3>. QED
      BY <2>2, <2>3, <2>4, <3>1
  <2>. QED
    BY <1>1, <2>2, <2>3, <2>4, <2>5, <2>6, <2>7 DEF Next
<1>2. Typed /\ [Next]_vars => \A c \in Clients : Nearer(c)
  BY <1>1
<1>. HIDE DEF Nearer
<1>3. Spec => [][\A c \in Clients : Nearer(c)]_vars
  BY InitTyped, NextTyped, <1>2, PTL DEF Spec
<1>. QED
  BY <1>3 DEF Nearer, CallsGetNearer
=============================================================================
