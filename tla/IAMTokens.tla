------------------------------ MODULE IAMTokens ------------------------------
(***************************************************************************)
(* IAMTokenManagerService, IAMAuthorizationService.authorizeBearer and the *)
(* HTTP authorization middleware above them (packages/domain-iam and       *)
(* packages/api-http): access and refresh tokens that are created, stored, *)
(* verified and renewed while other callers do the same.                   *)
(*                                                                         *)
(* A token is its content: signing gives equal tokens for equal data, and  *)
(* verifying gives the data back.  The tokens entity is an array entity of *)
(* the Redis repository with the primary keys userId and type, so create() *)
(* replaces what is stored under a user and a type, and a delete() by      *)
(* {userId, token} fails for want of the type.  One unit of time is a      *)
(* minute.                                                                 *)
(***************************************************************************)
EXTENDS Naturals, Sequences

CONSTANTS
  Clients,          \* concurrent callers
  Emails,           \* what identifies a person
  MaxUsers,         \* bound: rows of the users table
  MaxTime,          \* bound: the clock
  AccessLifetime,   \* accessTokenExpiryTimeInMinutes
  RefreshLifetime,  \* refreshTokenExpiryTimeInMinutes
  ExternalLifetime, \* minutes an external access token lives
  ProcessExternal,  \* authServiceSettings[...].processExternalTokensOnVerify
  RefreshSupported, \* the auth service implements refreshExternalAccessToken
  UsersService,     \* the middleware has a users service
  HashModes,        \* whether a Redis store keeps one hash: set() throws after overwriting
  Faults,           \* "throw": an awaited call rejects without effect
  None

UserIds == 1 .. MaxUsers
TokenTypes == {"access", "refresh"}

ASSUME TokensAssumption ==
  /\ {MaxUsers, MaxTime, AccessLifetime, RefreshLifetime, ExternalLifetime} \subseteq Nat
  /\ {ProcessExternal, RefreshSupported, UsersService} \cup HashModes \subseteq BOOLEAN
  /\ Faults \subseteq {"throw"}

VARIABLES
  useHashmap, \* the stores' setting, which never changes
  now,        \* the clock
  stored,     \* the token stored for each user and type
  pc,         \* the await a client's call is suspended at
  creating,   \* the token TokenManager.create() is at
  request,    \* the request a client has under way: the tokens it carries
  \* history
  issued,     \* pairs handed out: by a login, or to a request that renewed one
  response,   \* each client's last response
  disturbed   \* users whose stored tokens a failure or an overlap has mixed up

tokenVars == <<useHashmap, now, stored, pc, creating, request, issued, response, disturbed>>

ExternalTokens == [email : Emails, exp : Nat]
RefreshTokens ==
  [type : {"refresh"}, user : UserIds, exp : Nat \cup {None}, external : Emails \cup {None}]
AccessTokens ==
  [type : {"access"}, user : UserIds, exp : Nat \cup {None}, data : Nat,
   refresh : RefreshTokens \cup {None},      \* data.refreshToken
   accessToken : RefreshTokens \cup {None},  \* data.accessToken, written by a renewal
   external : ExternalTokens \cup {None}]
Tokens == AccessTokens \cup RefreshTokens
Pairs == [access : AccessTokens, refresh : RefreshTokens \cup {None}, email : Emails]
Requests == [pair : Pairs, refresh : RefreshTokens \cup {None}, at : Nat]
Responses == [request : Requests, user : UserIds \cup {None}, new : AccessTokens \cup {None}]

ASSUME NoneAssumption ==
  /\ None \notin Nat /\ None \notin Emails /\ None \notin ExternalTokens
  /\ None \notin Tokens /\ None \notin Requests

TokensTypeOK ==
  /\ now \in 0 .. MaxTime
  /\ stored \in [UserIds -> [TokenTypes -> Tokens \cup {None}]]
  /\ \A u \in UserIds, t \in TokenTypes : stored[u][t] # None => stored[u][t].type = t
  /\ creating \in [Clients -> Tokens \cup {None}]
  /\ request \in [Clients -> Requests \cup {None}]
  /\ \A p \in issued : p \in Pairs
  /\ response \in [Clients -> Responses \cup {None}]
  /\ disturbed \subseteq UserIds

TokensInit ==
  /\ useHashmap \in HashModes
  /\ now = 0
  /\ stored = [u \in UserIds |-> [t \in TokenTypes |-> None]]
  /\ pc = [c \in Clients |-> "idle"]
  /\ creating = [c \in Clients |-> None]
  /\ request = [c \in Clients |-> None]
  /\ issued = {}
  /\ response = [c \in Clients |-> None]
  /\ disturbed = {}

-----------------------------------------------------------------------------
(* create(): sign, purge what is stored for the user and the type, store.  *)

\* expiresIn: the caller's minutes or the configured ones; without any, for ever
Expiry(minutes) == IF minutes = 0 THEN None ELSE now + minutes

\* jwt.verify: a token is expired from its exp on, and has no content then
Expired(token) == token.exp # None /\ token.exp <= now

Busy(u) == {c \in Clients : creating[c] # None /\ creating[c].user = u}

\* the service finds what it deletes by userId and type
Create(c, token) ==
  /\ creating' = [creating EXCEPT ![c] = token]
  /\ pc' = [pc EXCEPT ![c] = "purgeFind"]

PurgeFind(c) ==
  /\ pc[c] = "purgeFind"
  /\ pc' = [pc EXCEPT ![c] =
              IF stored[creating[c].user][creating[c].type] = None THEN "save" ELSE "purgeRemove"]
  /\ UNCHANGED <<useHashmap, now, stored, creating, request, issued, response, disturbed>>

PurgeRemove(c) ==
  /\ pc[c] = "purgeRemove"
  /\ stored' = [stored EXCEPT ![creating[c].user][creating[c].type] = None]
  /\ pc' = [pc EXCEPT ![c] = "save"]
  /\ UNCHANGED <<useHashmap, now, creating, request, issued, response, disturbed>>

Save(c) ==
  /\ pc[c] = "save"
  /\ stored' = [stored EXCEPT ![creating[c].user][creating[c].type] = creating[c]]

\* store.set() reports an overwritten hash field as an error
SaveThrows(c) == useHashmap /\ stored[creating[c].user][creating[c].type] # None

\* the call throws, wherever it is
EndByThrow(c) ==
  /\ pc' = [pc EXCEPT ![c] = "idle"]
  /\ creating' = [creating EXCEPT ![c] = None]
  /\ request' = [request EXCEPT ![c] = None]
  /\ response' = [response EXCEPT ![c] = None]
  /\ disturbed' = disturbed \cup (IF creating[c] = None THEN {} ELSE {creating[c].user})

SaveAndThrow(c) ==
  /\ Save(c)
  /\ SaveThrows(c)
  /\ EndByThrow(c)
  /\ UNCHANGED <<useHashmap, now, issued>>

-----------------------------------------------------------------------------
(* A request with a bearer token, "Bearer <access> <refresh>", or the sid  *)
(* cookie, which holds no refresh token.  The header's parts are texts of  *)
(* their own: the access token is that of a pair handed out, the refresh   *)
(* token that of any pair, or none.  A text that does not verify has no    *)
(* content, like an expired token.                                         *)

SentRefresh(r) == r.refresh

\* content.data, when the token verifies
Content(r) == IF Expired(r.pair.access) THEN None ELSE r.pair.access

\* verify(): the external token's own expiry, truncated to seconds
ExternalExpired(token) ==
  /\ ProcessExternal
  /\ token.external # None
  /\ token.external.exp < now

\* the middleware demands a userId when it has a users service; an expired
\* access token verifies without content and without error
Respond(c, r, new) ==
  /\ response' = [response EXCEPT ![c] =
       IF Content(r) = None
       THEN IF UsersService THEN None ELSE [request |-> r, user |-> None, new |-> None]
       ELSE [request |-> r, user |-> IF UsersService THEN r.pair.access.user ELSE None,
             new |-> new]]
  /\ pc' = [pc EXCEPT ![c] = "idle"]
  /\ request' = [request EXCEPT ![c] = None]

Reject(c) ==
  /\ response' = [response EXCEPT ![c] = None]
  /\ pc' = [pc EXCEPT ![c] = "idle"]
  /\ request' = [request EXCEPT ![c] = None]

\* the refresh token verifies and either holds an external one or is the one this
\* access token was renewed with; data.accessToken is compared, not data.refreshToken,
\* and an external token renews whatever the comparison said
RenewEnabled(r) ==
  LET refresh == SentRefresh(r)
  IN  /\ UsersService
      /\ refresh # None
      /\ ~Expired(refresh)
      /\ \/ r.pair.access.accessToken = refresh
         \/ refresh.external # None

\* a stored token of another login is purged by the renewal of an older pair
Renewing(c, token) ==
  LET u == token.user
  IN  disturbed' = disturbed \cup
        IF Busy(u) \ {c} # {} \/ stored[u]["refresh"] # token.refresh THEN {u} ELSE {}

\* Mutant: the new token keeps the expired external one.
RenewedKeepsExternal(r, external) ==
  [r.pair.access EXCEPT !.accessToken = SentRefresh(r), !.exp = Expiry(AccessLifetime)]

Renewed(r, external) ==
  [r.pair.access EXCEPT !.accessToken = SentRefresh(r), !.external = external,
                        !.exp = Expiry(AccessLifetime)]

\* authorizeBearer and verifyAccessToken, up to the first await that can be seen
Request(c, r) ==
  /\ pc[c] = "idle"
  /\ \/ /\ Content(r) = None \/ ~ExternalExpired(r.pair.access)
        /\ Respond(c, r, None)
     \/ /\ Content(r) # None /\ ExternalExpired(r.pair.access)
        /\ ~RenewEnabled(r)
        /\ Reject(c)
     \/ /\ Content(r) # None /\ ExternalExpired(r.pair.access)
        /\ RenewEnabled(r)
        /\ request' = [request EXCEPT ![c] = r]
        /\ pc' = [pc EXCEPT ![c] = "refreshExternal"]
        /\ UNCHANGED response
  /\ UNCHANGED <<useHashmap, now, stored, creating, issued, disturbed>>

\* only a token renewed before equals data.accessToken, so an external refresh token is
\* always there; the provider answers a token of the person whose refresh token it is
RefreshExternal(c) ==
  /\ pc[c] = "refreshExternal"
  /\ LET r == request[c]
         refresh == SentRefresh(r)
     IN  \/ /\ refresh.external # None
            /\ RefreshSupported
            /\ LET new == Renewed(r, [email |-> refresh.external, exp |-> now + ExternalLifetime])
               IN  Create(c, new) /\ Renewing(c, new)
            /\ UNCHANGED <<request, response>>
         \/ /\ Reject(c)
            /\ UNCHANGED <<creating, disturbed>>
  /\ UNCHANGED <<useHashmap, now, stored, issued>>

\* the new token goes out in the response's header
RenewSave(c) ==
  /\ request[c] # None
  /\ Save(c)
  /\ ~SaveThrows(c)
  /\ issued' = issued \cup
       {[access |-> creating[c], refresh |-> SentRefresh(request[c]),
         email |-> request[c].pair.email]}
  /\ response' = [response EXCEPT ![c] =
       [request |-> request[c], user |-> creating[c].user, new |-> creating[c]]]
  /\ creating' = [creating EXCEPT ![c] = None]
  /\ pc' = [pc EXCEPT ![c] = "idle"]
  /\ request' = [request EXCEPT ![c] = None]
  /\ UNCHANGED <<useHashmap, now, disturbed>>

\* an awaited call of the store, of the users table or of another service rejects
Fail(c) ==
  /\ "throw" \in Faults
  /\ pc[c] # "idle"
  /\ EndByThrow(c)
  /\ UNCHANGED <<useHashmap, now, stored, issued>>

TokenStep(c) ==
  \/ PurgeFind(c) \/ PurgeRemove(c) \/ SaveAndThrow(c)
  \/ RefreshExternal(c) \/ RenewSave(c) \/ Fail(c)

\* a call takes less than a minute
Tick ==
  /\ now < MaxTime
  /\ \A c \in Clients : pc[c] = "idle"
  /\ now' = now + 1
  /\ UNCHANGED <<useHashmap, stored, pc, creating, request, issued, response, disturbed>>
=============================================================================
