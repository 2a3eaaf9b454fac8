------------------------------ MODULE IAMLogin ------------------------------
(***************************************************************************)
(* IAMUserManagerService.createAccessToken and executeStep with the local, *)
(* OAuth2 and Okta authentication services (packages/domain-iam and        *)
(* packages/domain-iam-okta), on top of IAMTokens: logins of one or two    *)
(* steps that meet at the users table, at the auth cache and at the stored *)
(* tokens.                                                                 *)
(*                                                                         *)
(* A login's steps are calls of their own, in any order and with whatever  *)
(* the client sends: a second step names its auth service, its state, its  *)
(* code and a code verifier by itself, with a first step before it or      *)
(* none.  The number of the call that generated it stands for a state, the *)
(* code given for it and its code verifier, the number of times it was     *)
(* changed for a user's data.  The identity provider, the second factor,   *)
(* the users table and whoever edits users are external.                   *)
(***************************************************************************)
EXTENDS IAMTokens, FiniteSets

CONSTANTS
  AuthTypes,      \* the configured auth services
  InitialUsers,   \* rows of the users table at the start
  StartedLogins,  \* the auth services of the logins initiated by then
  MaxCalls,       \* bound: calls in a behaviour
  MaxVersion      \* bound: changes of a user's data

Calls == 1 .. MaxCalls

VARIABLES
  users,    \* the users table: a row per id
  cache,    \* dataUsersAuthCacheService: by state, or by user id
  login,    \* the login step a client has under way
  pending,  \* the first steps that have ended, whose states and codes clients know
  redeemed, \* provider: codes that were exchanged
  calls,    \* the number of calls so far
  \* history
  overlaps  \* emails whose logins overlapped; user ids whose cached data did

vars == <<tokenVars, users, cache, login, pending, redeemed, calls, overlaps>>

Rows == [email : Emails, version : 0 .. MaxVersion]
StateKeys == {"state"} \X (Calls \cup {0})
UserKeys == {"user"} \X UserIds

\* a state or a code of the client's own making, that no initiate() has to do with
Unknown == 0

\* what a client sends for a code verifier: nothing, or one of its own making
NoVerifier == 0
SentVerifiers == {NoVerifier, MaxCalls + 1}

ASSUME LoginAssumption ==
  /\ AuthTypes \subseteq {"local", "oauth2", "okta"}
  /\ MaxCalls \in Nat /\ MaxVersion \in Nat
  /\ InitialUsers \in Seq(Rows) /\ Len(InitialUsers) <= MaxUsers
  /\ StartedLogins \in Seq(AuthTypes \ {"local"}) /\ Len(StartedLogins) <= MaxCalls

\* a step: its auth service, what it was called with (call: the state), the user it
\* found, the provider's tokens, and (history) the data a first step before it saw
Steps ==
  [auth : AuthTypes, step : {"initiate", "complete"}, email : Emails \cup {None}, mfa : BOOLEAN,
   call : Calls \cup {Unknown}, code : Calls \cup {Unknown}, verifier : Calls \cup SentVerifiers,
   id : UserIds \cup {None}, version : Nat, seen : Nat,
   access : ExternalTokens \cup {None}, refresh : Emails \cup {None}]

ASSUME NoStepAssumption == None \notin Steps

TypeOK ==
  /\ TokensTypeOK
  /\ pc \in [Clients -> {"idle", "purgeFind", "purgeRemove", "save", "refreshExternal",
                         "findUser", "findAgain", "restore", "mfa", "exchange",
                         "findByEmail", "createUser", "getUser", "populate"}]
  /\ Len(users) <= MaxUsers /\ \A id \in DOMAIN users : users[id] \in Rows
  /\ cache \in [StateKeys \cup UserKeys -> Nat \cup {None}]
  /\ login \in [Clients -> Steps \cup {None}]
  /\ pending \subseteq Steps
  /\ redeemed \subseteq Calls
  /\ calls \in 0 .. MaxCalls
  /\ overlaps \subseteq Emails \cup UserIds

-----------------------------------------------------------------------------
(* The authentication services: what differs between them.                 *)

\* Okta forces PKCE; plain OAuth2 has it when asked, and the user manager does not ask
WithPKCE(auth) == auth = "okta"

\* useReturnedTokens takes effect with authReturnsTokens, which only Okta configures
UsesReturnedTokens(auth) == auth = "okta"

\* getUserDataFromExternalTokenPayloads: the base service's throws
UserDataFromTokens(auth) == auth = "okta"

\* Mutant: one entry for all states.
CacheKeyOfNoState(s) == IF s.auth = "local" THEN <<"user", s.id>> ELSE <<"state", 1>>

\* the cache is keyed by the user for a local login and by the state for the others
CacheKey(s) == IF s.auth = "local" THEN <<"user", s.id>> ELSE <<"state", s.call>>

\* local: the context that was found; others: result.codeVerifier
CacheValue(s) == IF s.auth = "local" THEN s.version ELSE s.verifier

\* use with overwrite: a cached value wins over what was found or sent
Restore(s, value) ==
  CASE s.auth = "local" /\ value # None -> [s EXCEPT !.version = value]
    [] s.auth # "local" /\ value \notin {None, NoVerifier} -> [s EXCEPT !.verifier = value]
    [] OTHER -> s

\* Mutant: the filters are lost.
FirstRowOfAll(email) == IF users = <<>> THEN 0 ELSE 1

\* findOne by email: the first row; 0 for none
FirstRow(email) ==
  IF \E id \in DOMAIN users : users[id].email = email
  THEN CHOOSE id \in DOMAIN users :
         /\ users[id].email = email
         /\ \A j \in 1 .. (id - 1) : users[j].email # email
  ELSE 0

\* the first step of call n; only a local one names its user
FirstStep(auth, email, mfa, n) ==
  [auth |-> auth, step |-> "initiate", email |-> email, mfa |-> mfa,
   call |-> IF auth = "local" THEN Unknown ELSE n, code |-> Unknown,
   verifier |-> IF WithPKCE(auth) THEN n ELSE NoVerifier,
   id |-> None, version |-> 0, seen |-> 0, access |-> None, refresh |-> None]

\* a second step, as the client sends it
SecondStep(auth, email, mfa, state, code, verifier, seen) ==
  [auth |-> auth, step |-> "complete", email |-> email, mfa |-> mfa, call |-> state, code |-> code,
   verifier |-> verifier, id |-> None, version |-> 0, seen |-> seen, access |-> None, refresh |-> None]

\* some logins have been initiated, to be completed after anything else
Init ==
  /\ TokensInit
  /\ users = InitialUsers
  /\ calls = Len(StartedLogins)
  /\ pending = {FirstStep(StartedLogins[n], None, FALSE, n) : n \in 1 .. calls}
  /\ cache = [k \in StateKeys \cup UserKeys |->
                IF \E s \in pending : k = CacheKey(s) /\ WithPKCE(s.auth) THEN k[2] ELSE None]
  /\ login = [c \in Clients |-> None]
  /\ redeemed = {}
  /\ overlaps = {}

-----------------------------------------------------------------------------
(* executeStep                                                             *)

At(c, where) == pc[c] = where /\ login[c] # None
Move(c, s, to) ==
  /\ login' = [login EXCEPT ![c] = s]
  /\ pc' = [pc EXCEPT ![c] = to]

End(c) == Move(c, None, "idle")
Throw(c) ==
  /\ login' = [login EXCEPT ![c] = None]
  /\ EndByThrow(c)

Unissued == <<useHashmap, now, stored, creating, request, issued, response, disturbed>>
Others == <<users, cache, pending, redeemed, calls, overlaps>>

\* other clients that are between finding nobody of this email and creating one
Searching(c, s) ==
  {d \in Clients \ {c} : login[d] # None /\ login[d].auth # "local" /\ login[d].email = s.email
                         /\ pc[d] = "createUser"}

\* the first await of a step: findUserBeforeAuth, the cache, or (OAuth2 and Okta, whose
\* initiate() only draws a state and a verifier) writing the cache
Start(c, s) ==
  /\ pc[c] = "idle"
  /\ calls < MaxCalls
  /\ calls' = calls + 1
  /\ Move(c, s, CASE s.auth = "local" -> "findUser"
                  [] s.auth # "local" /\ s.step = "complete" -> "restore"
                  [] OTHER -> "populate")
  /\ UNCHANGED <<Unissued, users, cache, redeemed, overlaps>>

Initiate(c, auth, email, mfa) ==
  /\ Start(c, FirstStep(auth, email, mfa, calls + 1))
  /\ UNCHANGED pending

\* the second step of a local login, with a second factor or without, after a first step
\* for this email or directly
CompleteLocal(c, email, mfa) ==
  /\ \E seen \in {0} \cup {p.seen : p \in {q \in pending : q.auth = "local" /\ q.email = email}} :
       Start(c, SecondStep("local", email, mfa, Unknown, Unknown, NoVerifier, seen))
  /\ UNCHANGED pending

\* the callback of the provider: a state and a code, each of some first step or of none; a
\* code is given to whoever has authenticated at the provider
CompleteRemote(c, auth, email) ==
  /\ \E state, code \in {p.call : p \in {q \in pending : q.auth # "local"}} \cup {Unknown},
        verifier \in SentVerifiers :
       Start(c, SecondStep(auth, email, FALSE, state, code, verifier, 0))
  /\ UNCHANGED pending

\* initiate() of a local login compares the password, and asks the second factor if it is
\* to; without one the complete step follows at once
LocalInitiate(c, s) ==
  \/ /\ Move(c, s, IF s.mfa THEN "mfa" ELSE "findAgain")
     /\ UNCHANGED Unissued
  \/ /\ Throw(c)  \* the wrong password
     /\ UNCHANGED <<useHashmap, now, stored, issued>>

\* getUserForStepExecution before the auth method
FindUser(c) ==
  /\ At(c, "findUser")
  /\ LET s == login[c]
         id == FirstRow(s.email)
         found == [s EXCEPT !.id = id, !.version = users[id].version]
     IN  \/ /\ id # 0 /\ s.step = "initiate"
            /\ LocalInitiate(c, [found EXCEPT !.seen = users[id].version])
         \/ /\ id # 0 /\ s.step = "complete"
            /\ Move(c, found, "restore")
            /\ UNCHANGED Unissued
         \/ /\ id = 0
            /\ Throw(c)
            /\ UNCHANGED <<useHashmap, now, stored, issued>>
  /\ UNCHANGED Others

\* Mutant: an entry that exists is kept.
PopulateOnce(c) ==
  /\ At(c, "populate")
  /\ LET s == login[c]
     IN  /\ cache' = [cache EXCEPT ![CacheKey(s)] = IF @ = None THEN CacheValue(s) ELSE @]
         /\ overlaps' = overlaps \cup
              IF s.auth = "local" /\ s.version < users[s.id].version THEN {s.id} ELSE {}
         /\ pending' = pending \cup {s}
  /\ End(c)
  /\ UNCHANGED <<Unissued, users, redeemed, calls>>

\* 8. Populate the cache.  Nothing clears it.
Populate(c) ==
  /\ At(c, "populate")
  /\ LET s == login[c]
         overwrites == cache[CacheKey(s)] # None
     IN  /\ cache' = [cache EXCEPT ![CacheKey(s)] = CacheValue(s)]
         /\ overlaps' = overlaps \cup
              IF s.auth = "local" /\ s.version < users[s.id].version THEN {s.id} ELSE {}
         /\ \/ /\ useHashmap /\ overwrites
               /\ Throw(c)
               /\ UNCHANGED <<useHashmap, now, stored, issued, pending>>
            \/ /\ ~(useHashmap /\ overwrites)
               /\ pending' = pending \cup {s}
               /\ End(c)
               /\ UNCHANGED Unissued
  /\ UNCHANGED <<users, redeemed, calls>>

-----------------------------------------------------------------------------
(* createAccessToken, once the user is known: first the refresh token,     *)
(* then the access token that contains it.                                 *)

RefreshToken(s) ==
  [type |-> "refresh", user |-> s.id, exp |-> Expiry(RefreshLifetime), external |-> s.refresh]

\* Mutant: the external refresh token takes the local one's place.
AccessTokenWithExternal(s, refresh) ==
  [type |-> "access", user |-> s.id, data |-> s.version, refresh |-> s.refresh,
   accessToken |-> None, external |-> s.access, exp |-> Expiry(AccessLifetime)]

\* expires_in is in seconds and is used as minutes
AccessToken(s, refresh) ==
  [type |-> "access", user |-> s.id, data |-> s.version, refresh |-> refresh,
   accessToken |-> None, external |-> s.access,
   exp |-> Expiry(IF s.access = None THEN AccessLifetime ELSE 60 * ExternalLifetime)]

\* Mutant: a refresh token that contains an external one is not persisted.
IssueTokensUnsaved(c, s) ==
  /\ Create(c, IF s.refresh = None /\ s.access = None THEN RefreshToken(s)
               ELSE AccessToken(s, IF s.refresh = None THEN None ELSE RefreshToken(s)))
  /\ login' = [login EXCEPT ![c] = s]
  /\ disturbed' = disturbed \cup IF Busy(s.id) \ {c} # {} THEN {s.id} ELSE {}
  /\ UNCHANGED <<useHashmap, now, stored, request, issued, response>>

\* a local refresh token is not issued beside an external access token without an
\* external refresh token
IssueTokens(c, s) ==
  /\ Create(c, IF s.refresh # None \/ s.access = None THEN RefreshToken(s) ELSE AccessToken(s, None))
  /\ login' = [login EXCEPT ![c] = s]
  /\ disturbed' = disturbed \cup IF Busy(s.id) \ {c} # {} THEN {s.id} ELSE {}
  /\ UNCHANGED <<useHashmap, now, stored, request, issued, response>>

\* 2. Restore the cache; local: the cached context is merged into the found user itself,
\* and complete() asks the second factor when the client named one
RestoreCache(c) ==
  /\ At(c, "restore")
  /\ LET s == Restore(login[c], cache[CacheKey(login[c])])
     IN  \/ /\ s.auth = "local" /\ ~s.mfa
            /\ IssueTokens(c, s)
         \/ /\ s.auth = "local" => s.mfa
            /\ Move(c, s, IF s.auth = "local" THEN "mfa" ELSE "exchange")
            /\ UNCHANGED Unissued
  /\ UNCHANGED Others

\* the second factor accepts or does not
MFA(c) ==
  /\ At(c, "mfa")
  /\ LET s == login[c]
     IN  \/ /\ s.step = "initiate"
            /\ Move(c, s, "populate")
            /\ UNCHANGED Unissued
         \/ /\ s.step = "complete"
            /\ IssueTokens(c, s)
         \/ /\ Throw(c)
            /\ UNCHANGED <<useHashmap, now, stored, issued>>
  /\ UNCHANGED Others

\* without a second factor the complete step follows; the first step's user is kept
FindAgain(c) ==
  /\ At(c, "findAgain")
  /\ IssueTokens(c, login[c])
  /\ UNCHANGED Others

\* the tokens that are used if they are to be: the provider's, of whoever has
\* authenticated there; what the code was exchanged with is not read again
WithReturnedTokens(s, refresh) ==
  LET done == [s EXCEPT !.call = Unknown, !.code = Unknown, !.verifier = NoVerifier]
  IN  IF UsesReturnedTokens(s.auth)
      THEN [done EXCEPT !.refresh = refresh, !.access = [email |-> s.email, exp |-> now + ExternalLifetime]]
      ELSE done

\* the state has a code verifier, and its code a challenge
Challenged(n) == \E p \in pending : p.call = n /\ WithPKCE(p.auth)

\* the provider redeems a code once, for the verifier of its challenge, or refuses; what
\* it returns is decoded at once
Exchange(c) ==
  /\ At(c, "exchange")
  /\ LET s == login[c]
     IN  \/ /\ s.code \notin redeemed
            /\ Challenged(s.code) => s.verifier = s.code
            /\ redeemed' = redeemed \cup ({s.code} \ {Unknown})
            /\ \E refresh \in {None, s.email} : Move(c, WithReturnedTokens(s, refresh), "findByEmail")
            /\ UNCHANGED Unissued
         \/ /\ Throw(c)
            /\ UNCHANGED <<useHashmap, now, stored, issued, redeemed>>
  /\ UNCHANGED <<users, cache, pending, calls, overlaps>>

\* Mutant: a user is created whether or not one was found.
FindByEmailThenCreate(c) ==
  /\ At(c, "findByEmail")
  /\ LET s == login[c]
     IN  /\ UserDataFromTokens(s.auth)
         /\ Move(c, s, "createUser")
         /\ overlaps' = overlaps \cup IF Searching(c, s) # {} THEN {s.email} ELSE {}
  /\ UNCHANGED <<Unissued, users, cache, pending, redeemed, calls>>

\* 6. Find the user by what the tokens say; 7. create one if enabled
FindByEmail(c) ==
  /\ At(c, "findByEmail")
  /\ LET s == login[c]
         id == FirstRow(s.email)
     IN  \/ /\ id # 0
            /\ IssueTokens(c, [s EXCEPT !.id = id, !.version = users[id].version])
            /\ UNCHANGED overlaps
         \/ /\ id = 0 /\ UserDataFromTokens(s.auth)
            /\ Move(c, s, "createUser")
            /\ overlaps' = overlaps \cup IF Searching(c, s) # {} THEN {s.email} ELSE {}
            /\ UNCHANGED Unissued
         \/ /\ id = 0 /\ ~UserDataFromTokens(s.auth)
            /\ Throw(c)
            /\ UNCHANGED <<useHashmap, now, stored, issued, overlaps>>
  /\ UNCHANGED <<users, cache, pending, redeemed, calls>>

\* domainUsersEntityService.create; nothing makes emails unique
CreateUser(c) ==
  /\ At(c, "createUser")
  /\ Len(users) < MaxUsers
  /\ users' = Append(users, [email |-> login[c].email, version |-> 0])
  /\ Move(c, [login[c] EXCEPT !.id = Len(users) + 1], "getUser")
  /\ UNCHANGED <<Unissued, cache, pending, redeemed, calls, overlaps>>

\* getUserWithPermissionsData of the created user
GetUser(c) ==
  /\ At(c, "getUser")
  /\ IssueTokens(c, [login[c] EXCEPT !.version = users[login[c].id].version])
  /\ UNCHANGED Others

SaveRefresh(c) ==
  /\ At(c, "save")
  /\ creating[c].type = "refresh"
  /\ ~SaveThrows(c)
  /\ Save(c)
  /\ Create(c, AccessToken(login[c], creating[c]))
  /\ disturbed' = disturbed \cup
       IF Busy(login[c].id) \ {c} # {} THEN {login[c].id} ELSE {}
  /\ UNCHANGED <<useHashmap, now, request, issued, response, login, Others>>

SaveAccess(c) ==
  /\ At(c, "save")
  /\ creating[c].type = "access"
  /\ ~SaveThrows(c)
  /\ Save(c)
  /\ issued' = issued \cup
       {[access |-> creating[c], refresh |-> creating[c].refresh, email |-> login[c].email]}
  /\ creating' = [creating EXCEPT ![c] = None]
  /\ End(c)
  /\ UNCHANGED <<useHashmap, now, request, response, disturbed, Others>>

-----------------------------------------------------------------------------
(* Outside the services.                                                   *)

\* a user's data is edited (of the rows there from the start, to bound the instances)
EditUser(id) ==
  /\ users[id].version < MaxVersion
  /\ users' = [users EXCEPT ![id].version = @ + 1]
  /\ UNCHANGED <<tokenVars, cache, login, pending, redeemed, calls, overlaps>>

\* the time to live of a cached item runs out
ExpireCached(k) ==
  /\ ~useHashmap
  /\ cache[k] # None
  /\ cache' = [cache EXCEPT ![k] = None]
  /\ UNCHANGED <<tokenVars, users, login, pending, redeemed, calls, overlaps>>

LoginStep(c) ==
  \/ FindUser(c) \/ RestoreCache(c) \/ Populate(c) \/ MFA(c) \/ FindAgain(c)
  \/ Exchange(c) \/ FindByEmail(c) \/ CreateUser(c) \/ GetUser(c)
  \/ SaveRefresh(c) \/ SaveAccess(c)

Step(c) ==
  \/ LoginStep(c)
  \/ /\ TokenStep(c)
     /\ login' = IF pc'[c] = "idle" THEN [login EXCEPT ![c] = None] ELSE login
     /\ UNCHANGED Others

Call(c) ==
  \/ \E auth \in AuthTypes \ {"local"} : Initiate(c, auth, None, FALSE)
  \/ \E email \in Emails, mfa \in BOOLEAN :
       "local" \in AuthTypes /\ Initiate(c, "local", email, mfa)
  \/ \E email \in Emails, mfa \in BOOLEAN : "local" \in AuthTypes /\ CompleteLocal(c, email, mfa)
  \/ \E auth \in AuthTypes \ {"local"}, email \in Emails : CompleteRemote(c, auth, email)
  \/ \E p \in issued, refresh \in {q.refresh : q \in issued} \cup {None} :
       /\ calls < MaxCalls
       /\ calls' = calls + 1
       /\ Request(c, [pair |-> p, refresh |-> refresh, at |-> now])
       /\ UNCHANGED <<login, users, cache, pending, redeemed, overlaps>>

Environment ==
  \/ Tick /\ UNCHANGED <<users, cache, login, pending, redeemed, calls, overlaps>>
  \/ \E id \in DOMAIN InitialUsers : EditUser(id)
  \/ \E k \in DOMAIN cache : ExpireCached(k)

Next == (\E c \in Clients : Call(c) \/ Step(c)) \/ Environment

Spec == Init /\ [][Next]_vars

-----------------------------------------------------------------------------
(* Properties.                                                             *)

\* The pair of a login belongs together, whoever else logs in meanwhile: the access token
\* contains the refresh token beside it, both name the row of the person who logged in, and
\* so do the external tokens.  A renewal keeps the user and the contained refresh token; its
\* external access token is that of the refresh token the client sent beside the old one,
\* be it of the same login or of another.
PairsBelongTogether ==
  \A p \in issued :
    /\ users[p.access.user].email = p.email
    /\ \A refresh \in {p.refresh, p.access.refresh} \ {None} :
         refresh.external \in {None, users[refresh.user].email}
    /\ p.access.refresh # None => p.access.refresh.user = p.access.user
    /\ p.access.accessToken = None =>
         /\ p.access.refresh = p.refresh
         /\ p.access.external # None => p.access.external.email = p.email
    /\ p.access.accessToken # None =>
         /\ p.access.accessToken = p.refresh
         /\ p.access.external.email = p.refresh.external

\* executeStep hands the provider the code verifier of the state it is called with, not of
\* another login nor the client's; only without one in the cache the client's is used, and
\* without a time to live that is only for a state that no login with PKCE was given.
VerifierOfState ==
  \A c \in Clients :
    pc[c] = "exchange" =>
      LET s == login[c]
      IN  /\ s.verifier \in SentVerifiers \cup (IF Challenged(s.call) THEN {s.call} ELSE {})
          /\ Challenged(s.call) /\ useHashmap => s.verifier = s.call

\* A token of a local login contains the user as the first steps before it saw it or newer,
\* although a cached copy that nothing clears overwrites what the second step found; only
\* a first step that cached outdated data breaks this.
NotOlderThanOwnInitiate ==
  \A c \in Clients :
    (login[c] # None /\ creating[c] # None /\ login[c].id \notin overlaps) =>
      login[c].version >= login[c].seen

\* createUser after a find: two rows share an email only when two logins overlapped there.
EmailsUniqueUnlessRaced ==
  \A i, j \in DOMAIN users : (i # j /\ users[i].email = users[j].email) => users[i].email \in overlaps

\* When nobody is creating tokens of a user, the stored access token contains the stored
\* refresh token (or none), unless a failure, an overlap or the renewal of an older login's
\* pair has mixed them up.
StoredPairMatches ==
  \A u \in UserIds \ disturbed :
    (Busy(u) = {} /\ stored[u]["access"] # None /\ stored[u]["refresh"] # None) =>
      stored[u]["access"].refresh \in {None, stored[u]["refresh"]}

\* With a users service the middleware lets a request through only as the user of an
\* access token that had not expired when it came; a token renewed for it is that user's,
\* keeps the pair's refresh token and its external token is usable.
RequestsAsTheirUser ==
  \A c \in Clients :
    (UsersService /\ response[c] # None) =>
      LET r == response[c]
          access == r.request.pair.access
      IN  /\ r.user = access.user
          /\ access.exp # None => r.request.at < access.exp
          /\ r.new # None =>
               /\ r.new.user = access.user
               /\ r.new.refresh = access.refresh
               /\ r.new.external.exp >= r.request.at + ExternalLifetime
=============================================================================
