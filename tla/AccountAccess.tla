----------------------------- MODULE AccountAccess -----------------------------
(***************************************************************************)
(* What the rest of the program may rely on about accounts and sessions:   *)
(* the abstract specification of internal/auth/store.go that Accounts      *)
(* implements and RoomServer builds on.                                    *)
(***************************************************************************)
CONSTANTS
  Users,
  Sessions,
  OwnerOf    \* [Sessions -> Users]

VARIABLES
  enabled, admins,   \* the users for whom each holds
  logins             \* the sessions that are open

accountVars == <<enabled, admins, logins>>

Init ==
  /\ enabled \subseteq Users /\ admins \subseteq Users
  /\ logins \subseteq {s \in Sessions : OwnerOf[s] \in enabled}

\* Only for an enabled user, however long the password took to verify.
SignIn(s) ==
  /\ s \notin logins /\ OwnerOf[s] \in enabled
  /\ logins' = logins \union {s}
  /\ UNCHANGED <<enabled, admins>>

\* Signed out, replaced by a later login, or expired.
SignOut(s) ==
  /\ s \in logins /\ logins' = logins \ {s}
  /\ UNCHANGED <<enabled, admins>>

\* Role, access or password of a user change, and every session of the user ends
\* with it.
Change(u) ==
  /\ enabled' \in {enabled \union {u}, enabled \ {u}}
  /\ admins' \in {admins \union {u}, admins \ {u}}
  /\ logins' = {s \in logins : OwnerOf[s] # u}

Next == (\E s \in Sessions : SignIn(s) \/ SignOut(s)) \/ \E u \in Users : Change(u)

Spec == Init /\ [][Next]_accountVars
=============================================================================
