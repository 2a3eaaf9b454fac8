------------------------------- MODULE MCIAM --------------------------------
(***************************************************************************)
(* Instances of IAMLogin, in which one person has a row in the users       *)
(* table.  A behaviour belongs to one of three: local logins of an edited  *)
(* user, callbacks of providers, and requests.  Each has its own auth      *)
(* services and bounds, so that none multiplies the states of another.     *)
(***************************************************************************)
EXTENDS IAMLogin, TLC

CONSTANTS e1, e2

VARIABLE instance

OneUser == <<[email |-> e1, version |-> 0]>>
NoneStarted == <<>>

LocalLogins ==
  [authTypes |-> {"local"}, emails |-> {e1}, calls |-> 4, users |-> 1, version |-> 1, time |-> 0]

Callbacks ==
  [authTypes |-> {"oauth2", "okta"}, emails |-> {e1, e2}, calls |-> 3, users |-> 3, version |-> 0, time |-> 0]

RequestsAndLogins ==
  [authTypes |-> {"okta"}, emails |-> {e1, e2}, calls |-> 3, users |-> 2, version |-> 0, time |-> 2]

MCInit ==
  /\ Init
  /\ instance \in {LocalLogins, Callbacks, RequestsAndLogins}

WithinBounds ==
  /\ \A c \in Clients : login[c] # None =>
       login[c].auth \in instance.authTypes /\ login[c].email \in instance.emails \cup {None}
  /\ calls <= instance.calls
  /\ Len(users) <= instance.users
  /\ \A id \in DOMAIN users : users[id].version <= instance.version
  /\ now <= instance.time

MCNext == UNCHANGED instance /\ Next /\ WithinBounds'

MCSpec == MCInit /\ [][MCNext]_<<vars, instance>>

Symmetry == Permutations(Clients)
=============================================================================
