------------------------------- MODULE Accounts -------------------------------
(***************************************************************************)
(* Accounts, logins and sessions: internal/auth/store.go on the database,  *)
(* and the handlers of internal/web/auth.go with the limits they put on    *)
(* logins.                                                                 *)
(*                                                                         *)
(* The server has one database connection (database.Open), and SQLite      *)
(* lets one transaction of another process commit at a time: a statement   *)
(* or a transaction is one step, and handlers interleave between them.     *)
(* Login reads the account, verifies the password for a long time, and     *)
(* only then writes.  A password hash is salted, so each one is new: it is *)
(* a number.  A session is a token that is never issued twice.             *)
(***************************************************************************)
EXTENDS Integers, FiniteSets

CONSTANTS
  Users,
  Sessions, OwnerOf,   \* tokens, and whose session each will be
  Browsers, HostOf,    \* clients with one request at a time, and their address
  NoSession,
  Slots,               \* the capacity of Server.loginSlots: 4 in the code
  Attempts,            \* logins of one address in a window: 10 in the code
  MaxWindows,          \* addresses remembered: 4096 in the code
  MaxChanges           \* bound: changes of accounts

Hosts == {HostOf[b] : b \in Browsers}

ASSUME AccountsAssumption ==
  /\ Users # {} /\ OwnerOf \in [Sessions -> Users] /\ NoSession \notin Sessions
  /\ Slots \in Nat \ {0} /\ Attempts \in Nat \ {0} /\ MaxWindows \in Nat \ {0}
  /\ MaxChanges \in Nat

VARIABLES
  known,      \* the accounts that exist; none is ever deleted
  enabled,    \* those that are enabled
  role, hash, \* what the users table holds for each
  table,      \* the sessions table
  expired,    \* sessions past their expiry, twelve hours after the login
  issued,     \* tokens used so far
  made,       \* history: the role and the hash the session was issued for
  at,         \* what the browser's request is doing
  row,        \* the account Login has read
  token,      \* the session it has written
  cookie,     \* what the browser sends
  windows,    \* loginLimiter.windows: attempts in the window, 0 without one
  lapsed,     \* windows whose minute has passed
  changes     \* bound

database == <<known, enabled, role, hash, table, issued, made, changes>>
limiter  == <<windows, lapsed>>
client   == <<row, token, cookie>>
vars == <<database, expired, at, client, limiter>>

Roles == {"admin", "user"}
Holding == {"admitted", "verifying", "verified", "written", "cleaned"}
Places == {"idle", "allowed", "refused", "leaving", "admin"} \union Holding

\* row is of use only while Login waits for the verdict on the password.
NoRow == [user |-> CHOOSE u \in Users : TRUE, hash |-> 0, role |-> "user", valid |-> FALSE]

TypeOK ==
  /\ known \subseteq Users /\ enabled \subseteq known
  /\ role \in [Users -> Roles] /\ hash \in [Users -> 0..MaxChanges]
  /\ issued \subseteq Sessions /\ table \subseteq issued /\ expired \subseteq issued
  /\ made \in [Sessions -> [role : Roles, hash : 0..MaxChanges]]
  /\ at \in [Browsers -> Places]
  /\ row \in [Browsers -> [user : Users, hash : 0..MaxChanges, role : Roles,
                           valid : BOOLEAN]]
  /\ token \in [Browsers -> Sessions \union {NoSession}]
  /\ cookie \in [Browsers -> Sessions \union {NoSession}]
  /\ windows \in [Hosts -> 0..Attempts] /\ lapsed \subseteq Hosts
  /\ changes \in 0..MaxChanges

Goto(b, place) == at' = [at EXCEPT ![b] = place]
Drop(b, place) == Goto(b, place) /\ row' = [row EXCEPT ![b] = NoRow]

----------------------------------------------------------------------------
(* loginLimiter.allow, under its lock, and the login slots.                *)

\* Plausible slip: a window is forgotten only when its own address comes back.
ForgetsOwn(h) == [g \in Hosts |-> IF g \in lapsed \intersect {h} THEN 0 ELSE windows[g]]

\* Windows whose time has passed are forgotten, whoever they belong to.
Pruned(h) == [g \in Hosts |-> IF g \in lapsed THEN 0 ELSE windows[g]]

Counted(seen) == {g \in Hosts : seen[g] > 0}

Arrive(b) ==
  LET h == HostOf[b]
      seen == Pruned(h)
      allowed == /\ seen[h] < Attempts
                 /\ seen[h] > 0 \/ Cardinality(Counted(seen)) < MaxWindows
  IN /\ at[b] = "idle"
     /\ windows' = IF allowed THEN [seen EXCEPT ![h] = @ + 1] ELSE seen
     /\ lapsed' = lapsed \intersect Counted(seen)
     /\ Goto(b, IF allowed THEN "allowed" ELSE "refused")
     /\ UNCHANGED <<database, expired, client>>

\* The select of handleLogin does not wait for a slot.
TakeSlot(b) ==
  /\ at[b] = "allowed"
  /\ Goto(b, IF Cardinality({c \in Browsers : at[c] \in Holding}) < Slots
             THEN "admitted" ELSE "refused")
  /\ UNCHANGED <<database, expired, client, limiter>>

----------------------------------------------------------------------------
(* Store.Login and what handleLogin does after it.                         *)

\* The account as it is now.  An unknown login is verified like any other.
Read(b) ==
  /\ at[b] = "admitted"
  /\ \E u \in Users :
       row' = [row EXCEPT ![b] = [user |-> u, hash |-> hash[u], role |-> role[u],
                                  valid |-> u \in enabled]]
  /\ Goto(b, "verifying")
  /\ UNCHANGED <<database, expired, token, cookie, limiter>>

\* Argon2 takes its time, and then the password is right or wrong.
Verify(b) ==
  /\ at[b] = "verifying"
  /\ \/ row[b].valid /\ Goto(b, "verified") /\ UNCHANGED row
     \/ Drop(b, "refused")
  /\ UNCHANGED <<database, expired, token, cookie, limiter>>

\* Plausible slip: only the access is checked again, not the credentials.
StillEnabled(r) == r.user \in enabled

\* The condition of the INSERT.
StillTrue(r) == r.user \in enabled /\ hash[r.user] = r.hash /\ role[r.user] = r.role

Insert(b) ==
  /\ at[b] = "verified" /\ StillTrue(row[b])
  /\ \E s \in Sessions \ issued :
       /\ OwnerOf[s] = row[b].user
       /\ table' = table \union {s} /\ issued' = issued \union {s}
       /\ made' = [made EXCEPT ![s] = [role |-> row[b].role, hash |-> row[b].hash]]
       /\ token' = [token EXCEPT ![b] = s]
  /\ Drop(b, "written")
  /\ UNCHANGED <<known, enabled, role, hash, changes, expired, cookie, limiter>>

\* The account changed while the password was verified.
InsertsNothing(b) ==
  /\ at[b] = "verified" /\ ~StillTrue(row[b])
  /\ Drop(b, "refused")
  /\ UNCHANGED <<database, expired, token, cookie, limiter>>

\* Every successful login sweeps the expired sessions.
SweepExpired(b) ==
  /\ at[b] = "written"
  /\ table' = table \ expired
  /\ Goto(b, "cleaned")
  /\ UNCHANGED <<known, enabled, role, hash, issued, made, changes, expired, client,
                 limiter>>

\* The session the browser had is revoked.  The response may not arrive.
Answer(b) ==
  /\ at[b] = "cleaned"
  /\ table' = table \ {cookie[b]}
  /\ cookie' \in {[cookie EXCEPT ![b] = token[b]], cookie}
  /\ token' = [token EXCEPT ![b] = NoSession]
  /\ Goto(b, "idle")
  /\ UNCHANGED <<known, enabled, role, hash, issued, made, changes, expired, row, limiter>>

\* 429, 401, or a request that cannot be decoded: the slot is free again.
Refuse(b) ==
  /\ at[b] \in {"refused", "admitted"}
  /\ Goto(b, "idle")
  /\ UNCHANGED <<database, expired, client, limiter>>

----------------------------------------------------------------------------
(* Requests with a session.                                                *)

\* Store.Authenticate
Authenticated(s) == s \in table \ expired /\ OwnerOf[s] \in enabled

\* authMiddleware: what follows does not ask again whose session it is, or whether
\* it still is one.  A path under /api/users is for administrators.
Enter(b) ==
  /\ at[b] = "idle" /\ Authenticated(cookie[b])
  /\ \/ Goto(b, "leaving")
     \/ role[OwnerOf[cookie[b]]] = "admin" /\ Goto(b, "admin")
  /\ UNCHANGED <<database, expired, client, limiter>>

Logout(b) ==
  /\ at[b] = "leaving"
  /\ table' = table \ {cookie[b]}
  /\ cookie' = [cookie EXCEPT ![b] = NoSession]
  /\ Goto(b, "idle")
  /\ UNCHANGED <<known, enabled, role, hash, issued, made, changes, expired, row, token,
                 limiter>>

\* Plausible slip: an administrator is counted whether enabled or not.
EverAdministrators == {u \in known : role[u] = "admin"}
Administrators == {u \in enabled : role[u] = "admin"}

\* Plausible slip: only a new password signs the user out.
RevokedByPassword(u, password) == {s \in Sessions : OwnerOf[s] = u /\ password}
Revoked(u, password) == {s \in Sessions : OwnerOf[s] = u}

\* The transaction of Store.UpdateUser, where the account exists: the last
\* administrator stays, and every session of the user ends.
UpdateUser(u, newRole, on, password) ==
  /\ u \in known /\ changes < MaxChanges
  /\ u \in enabled /\ role[u] = "admin" /\ ~(on /\ newRole = "admin")
       => Administrators \ {u} # {}
  /\ role' = [role EXCEPT ![u] = newRole]
  /\ enabled' = IF on THEN enabled \union {u} ELSE enabled \ {u}
  /\ changes' = changes + 1
  /\ hash' = IF password THEN [hash EXCEPT ![u] = changes'] ELSE hash
  /\ table' = table \ Revoked(u, password)
  /\ UNCHANGED <<known, issued, made>>

\* Store.createUser: a login that is taken is a conflict.
CreateUser(u, newRole) ==
  /\ u \notin known /\ changes < MaxChanges
  /\ known' = known \union {u} /\ enabled' = enabled \union {u}
  /\ role' = [role EXCEPT ![u] = newRole]
  /\ changes' = changes + 1 /\ hash' = [hash EXCEPT ![u] = changes']
  /\ UNCHANGED <<table, issued, made>>

\* Which change an administrator asks for, or none that is valid.
Administer(b) ==
  /\ at[b] = "admin"
  /\ \/ \E u \in Users, r \in Roles, on, password \in BOOLEAN : UpdateUser(u, r, on, password)
     \/ \E u \in Users, r \in Roles : CreateUser(u, r)
     \/ UNCHANGED database
  /\ Goto(b, "idle")
  /\ UNCHANGED <<expired, client, limiter>>

\* The command line, in a process of its own: bootstrap-admin, for an empty
\* database, and reset-password, which leaves role and access as they are.
Bootstrap(u) ==
  /\ known = {} /\ CreateUser(u, "admin")
  /\ UNCHANGED <<expired, at, client, limiter>>

ResetPassword(u) ==
  /\ UpdateUser(u, role[u], u \in enabled, TRUE)
  /\ UNCHANGED <<expired, at, client, limiter>>

----------------------------------------------------------------------------
(* Time.                                                                   *)

Expire(s) ==
  /\ s \in table \ expired /\ expired' = expired \union {s}
  /\ UNCHANGED <<database, at, client, limiter>>

MinutePasses(h) ==
  /\ h \in Counted(windows) \ lapsed /\ lapsed' = lapsed \union {h}
  /\ UNCHANGED <<database, expired, at, client, windows>>

----------------------------------------------------------------------------
\* A new installation, or one whose users are all administrators.
Init ==
  /\ known \in {{}, Users} /\ enabled = known
  /\ role = [u \in Users |-> "admin"] /\ hash = [u \in Users |-> 0]
  /\ table = {} /\ expired = {} /\ issued = {}
  /\ made = [s \in Sessions |-> [role |-> "user", hash |-> 0]]
  /\ at = [b \in Browsers |-> "idle"] /\ row = [b \in Browsers |-> NoRow]
  /\ token = [b \in Browsers |-> NoSession] /\ cookie = [b \in Browsers |-> NoSession]
  /\ windows = [h \in Hosts |-> 0] /\ lapsed = {}
  /\ changes = 0

Login(b) ==
  \/ Arrive(b) \/ TakeSlot(b) \/ Read(b) \/ Verify(b) \/ Insert(b) \/ InsertsNothing(b)
  \/ SweepExpired(b) \/ Answer(b) \/ Refuse(b)

Next ==
  \/ \E b \in Browsers : Login(b) \/ Enter(b) \/ Logout(b) \/ Administer(b)
  \/ \E u \in Users : Bootstrap(u) \/ ResetPassword(u)
  \/ (\E s \in Sessions : Expire(s)) \/ \E h \in Hosts : MinutePasses(h)

Spec == Init /\ [][Next]_vars

----------------------------------------------------------------------------
(* Properties.                                                             *)

\* No session outlives what it was granted for: its user is enabled, has the
\* role and the password the login was made with, though Login decides long
\* after it has read them and administrators and the command line do not wait.
SessionsMatchAccounts ==
  \A s \in table : /\ OwnerOf[s] \in enabled
                   /\ made[s] = [role |-> role[OwnerOf[s]], hash |-> hash[OwnerOf[s]]]

\* Somebody can always administer the program, however the administrators demote
\* and disable each other and themselves (ErrLastAdmin).
SomeAdminRemains == known # {} => \E u \in enabled : role[u] = "admin"

\* The limiter refuses only while the address itself, or as many addresses as
\* are remembered, have a window that still runs: a refusal does not outlast it.
RefusalsAreTemporary ==
  [][\A b \in Browsers : at[b] = "idle" /\ at'[b] = "refused" =>
       LET running == Counted(windows) \ lapsed
       IN  \/ HostOf[b] \in running /\ windows[HostOf[b]] = Attempts
           \/ Cardinality(running) >= MaxWindows]_vars

\* What the web server relies on: see RoomServer.
Access == INSTANCE AccountAccess
            WITH admins <- {u \in known : role[u] = "admin"}, logins <- table \ expired
ImplementsAccountAccess == Access!Spec
=============================================================================
