---------------------------- MODULE AccountsProofs ----------------------------
(***************************************************************************)
(* TypeOK, SessionsMatchAccounts, SomeAdminRemains, RefusalsAreTemporary   *)
(* and the refinement of AccountAccess, for any number of users, sessions, *)
(* browsers, login slots and addresses.  The invariant adds that a token   *)
(* is never issued twice and that whoever is let in as an administrator    *)
(* has an account; for the limiter, that it remembers finitely many        *)
(* addresses, for a cardinality says something of finite sets only.        *)
(***************************************************************************)
EXTENDS Accounts, FiniteSetTheorems, TLAPS

\* An administrator's request comes from somebody, so some account exists.
AdministratorsExist == \A b \in Browsers : at[b] = "admin" => known # {}

AccountsInvariant ==
  TypeOK /\ SessionsMatchAccounts /\ SomeAdminRemains /\ AdministratorsExist

LEMMA NoRowType ==
  ASSUME AccountsAssumption
  PROVE  NoRow \in [user : Users, hash : 0..MaxChanges, role : Roles, valid : BOOLEAN]
<1>1. (CHOOSE u \in Users : TRUE) \in Users
  BY DEF AccountsAssumption
<1> QED
  BY <1>1 DEF NoRow, Roles, AccountsAssumption

LEMMA AccountsInit == ASSUME AccountsAssumption, Init PROVE AccountsInvariant
<1>1. TypeOK
  BY NoRowType DEF Init, TypeOK, AccountsAssumption, Roles, Places
<1>2. SessionsMatchAccounts
  BY DEF Init, SessionsMatchAccounts
<1>3. SomeAdminRemains
  BY DEF Init, SomeAdminRemains
<1>4. AdministratorsExist
  BY DEF Init, AdministratorsExist
<1> QED
  BY <1>1, <1>2, <1>3, <1>4 DEF AccountsInvariant

----------------------------------------------------------------------------
(* Steps of a login that leave the database alone.                         *)

LEMMA SameAccounts ==
  ASSUME AccountsInvariant, UNCHANGED database
  PROVE  SessionsMatchAccounts' /\ SomeAdminRemains'
  BY DEF AccountsInvariant, database, SessionsMatchAccounts, SomeAdminRemains

LEMMA LoginWaits ==
  ASSUME AccountsAssumption, AccountsInvariant, NEW b \in Browsers,
         Arrive(b) \/ TakeSlot(b) \/ Read(b) \/ Verify(b) \/ InsertsNothing(b)
           \/ Refuse(b) \/ Enter(b)
  PROVE  AccountsInvariant'
<1> USE DEF AccountsInvariant
<1>1. /\ UNCHANGED database /\ UNCHANGED expired /\ UNCHANGED token /\ UNCHANGED cookie
      /\ \E place \in Places : at' = [at EXCEPT ![b] = place] /\ (place = "admin" => known # {})
  <2> USE DEF Goto, Drop, Places, Holding, client, limiter, TypeOK
  <2>1. CASE Arrive(b)
    <3>1. at' = [at EXCEPT ![b] = "allowed"] \/ at' = [at EXCEPT ![b] = "refused"]
      BY <2>1 DEF Arrive
    <3> QED BY <2>1, <3>1 DEF Arrive
  <2>2. CASE TakeSlot(b)
    <3>1. at' = [at EXCEPT ![b] = "admitted"] \/ at' = [at EXCEPT ![b] = "refused"]
      BY <2>2 DEF TakeSlot
    <3> QED BY <2>2, <3>1 DEF TakeSlot
  <2>3. CASE Read(b)            BY <2>3 DEF Read
  <2>4. CASE Verify(b)          BY <2>4 DEF Verify
  <2>5. CASE InsertsNothing(b)  BY <2>5 DEF InsertsNothing
  <2>6. CASE Refuse(b)          BY <2>6 DEF Refuse
  <2>7. CASE Enter(b)           BY <2>7 DEF Enter, Authenticated
  <2> QED BY <2>1, <2>2, <2>3, <2>4, <2>5, <2>6, <2>7
<1>2. /\ row' \in [Browsers -> [user : Users, hash : 0..MaxChanges, role : Roles,
                                valid : BOOLEAN]]
      /\ windows' \in [Hosts -> 0..Attempts] /\ lapsed' \subseteq Hosts
  <2> USE DEF TypeOK, Goto, Drop, client, limiter
  <2>1. CASE Arrive(b)
    <3>1. HostOf[b] \in Hosts
      BY DEF Hosts
    <3>2. Pruned(HostOf[b]) \in [Hosts -> 0..Attempts]
      BY DEF Pruned, AccountsAssumption
    <3> DEFINE seen == Pruned(HostOf[b])
    <3>3. windows' \in [Hosts -> 0..Attempts]
      <4>1. CASE seen[HostOf[b]] < Attempts
        BY <2>1, <3>1, <3>2, <4>1 DEF Arrive, AccountsAssumption
      <4>2. CASE ~(seen[HostOf[b]] < Attempts)
        BY <2>1, <3>2, <4>2 DEF Arrive
      <4> QED BY <4>1, <4>2
    <3> QED
      BY <2>1, <3>3 DEF Arrive
  <2>2. CASE TakeSlot(b)        BY <2>2 DEF TakeSlot
  <2>3. CASE Read(b)
    <3>1. PICK u \in Users :
            row' = [row EXCEPT ![b] = [user |-> u, hash |-> hash[u], role |-> role[u],
                                       valid |-> u \in enabled]]
      BY <2>3 DEF Read
    <3>2. (u \in enabled) \in BOOLEAN
      OBVIOUS
    <3> QED BY <2>3, <3>1, <3>2 DEF Read
  <2>4. CASE Verify(b)          BY <2>4, NoRowType DEF Verify
  <2>5. CASE InsertsNothing(b)  BY <2>5, NoRowType DEF InsertsNothing
  <2>6. CASE Refuse(b)          BY <2>6 DEF Refuse
  <2>7. CASE Enter(b)           BY <2>7 DEF Enter
  <2> QED BY <2>1, <2>2, <2>3, <2>4, <2>5, <2>6, <2>7
<1>3. TypeOK'
  <2>1. at' \in [Browsers -> Places]
    BY <1>1 DEF TypeOK
  <2>2. /\ known' = known /\ enabled' = enabled /\ role' = role /\ hash' = hash
        /\ table' = table /\ issued' = issued /\ made' = made /\ changes' = changes
        /\ expired' = expired /\ token' = token /\ cookie' = cookie
    BY <1>1 DEF database
  <2> QED BY <1>2, <2>1, <2>2 DEF TypeOK
<1>4. AdministratorsExist'
  BY <1>1 DEF AdministratorsExist, database, TypeOK
<1> QED
  BY <1>1, <1>3, <1>4, SameAccounts

----------------------------------------------------------------------------
(* Steps that end sessions, or write one.                                  *)

LEMMA SessionStep ==
  ASSUME AccountsAssumption, AccountsInvariant, NEW b \in Browsers,
         Insert(b) \/ SweepExpired(b) \/ Answer(b) \/ Logout(b)
  PROVE  AccountsInvariant'
<1> USE DEF AccountsInvariant
<1>1. /\ known' = known /\ enabled' = enabled /\ role' = role /\ hash' = hash
      /\ changes' = changes /\ expired' = expired /\ windows' = windows /\ lapsed' = lapsed
      /\ \E place \in Places \ {"admin"} : at' = [at EXCEPT ![b] = place]
  <2> USE DEF Goto, Drop, Places, Holding, client, limiter
  <2>1. CASE Insert(b)       BY <2>1 DEF Insert
  <2>2. CASE SweepExpired(b) BY <2>2 DEF SweepExpired
  <2>3. CASE Answer(b)       BY <2>3 DEF Answer
  <2>4. CASE Logout(b)       BY <2>4 DEF Logout
  <2> QED BY <2>1, <2>2, <2>3, <2>4
<1>2. /\ AdministratorsExist' /\ SomeAdminRemains' /\ at' \in [Browsers -> Places]
  BY <1>1 DEF AdministratorsExist, SomeAdminRemains, TypeOK
<1>3. CASE Insert(b)
  <2>1. PICK s \in Sessions \ issued :
          /\ OwnerOf[s] = row[b].user
          /\ table' = table \union {s} /\ issued' = issued \union {s}
          /\ made' = [made EXCEPT ![s] = [role |-> row[b].role, hash |-> row[b].hash]]
          /\ token' = [token EXCEPT ![b] = s]
    BY <1>3 DEF Insert
  <2>2. /\ row' = [row EXCEPT ![b] = NoRow] /\ cookie' = cookie
        /\ StillTrue(row[b])
    BY <1>3 DEF Insert, Drop
  <2>3. TypeOK'
    BY <1>1, <1>2, <2>1, <2>2, NoRowType DEF TypeOK
  <2>4. SessionsMatchAccounts'
    BY <1>1, <2>1, <2>2 DEF SessionsMatchAccounts, StillTrue, TypeOK
  <2> QED BY <1>2, <2>3, <2>4
<1>4. CASE SweepExpired(b) \/ Answer(b) \/ Logout(b)
  <2>1. /\ table' \subseteq table /\ issued' = issued /\ made' = made /\ row' = row
        /\ token' \in [Browsers -> Sessions \union {NoSession}]
        /\ cookie' \in [Browsers -> Sessions \union {NoSession}]
    <3>1. CASE SweepExpired(b) BY <3>1 DEF SweepExpired, client, TypeOK
    <3>2. CASE Answer(b)       BY <3>2 DEF Answer, TypeOK
    <3>3. CASE Logout(b)       BY <3>3 DEF Logout, TypeOK
    <3> QED BY <1>4, <3>1, <3>2, <3>3
  <2>2. TypeOK'
    BY <1>1, <1>2, <2>1 DEF TypeOK
  <2>3. SessionsMatchAccounts'
    BY <1>1, <2>1 DEF SessionsMatchAccounts
  <2> QED BY <1>2, <2>2, <2>3
<1> QED
  BY <1>3, <1>4

----------------------------------------------------------------------------
(* Changes of accounts.                                                    *)

\* UpdateUser keeps an administrator and ends every session of the user.
LEMMA UpdateKeeps ==
  ASSUME AccountsAssumption, AccountsInvariant, NEW u \in Users, NEW newRole \in Roles,
         NEW on \in BOOLEAN, NEW password \in BOOLEAN,
         UpdateUser(u, newRole, on, password)
  PROVE  /\ known' = known /\ enabled' \subseteq known'
         /\ role' \in [Users -> Roles] /\ hash' \in [Users -> 0..MaxChanges]
         /\ table' \subseteq issued' /\ issued' = issued /\ made' = made
         /\ changes' \in 0..MaxChanges
         /\ SessionsMatchAccounts' /\ SomeAdminRemains'
<1> USE DEF AccountsInvariant
<1>1. /\ known' = known /\ issued' = issued /\ made' = made
      /\ enabled' = IF on THEN enabled \union {u} ELSE enabled \ {u}
      /\ role' = [role EXCEPT ![u] = newRole]
      /\ u \in known /\ changes < MaxChanges /\ changes' = changes + 1
      /\ hash' = IF password THEN [hash EXCEPT ![u] = changes'] ELSE hash
      /\ table' = {s \in table : OwnerOf[s] # u}
  BY DEF UpdateUser, Revoked, TypeOK
<1>2. changes' \in 0..MaxChanges
  BY <1>1 DEF TypeOK, AccountsAssumption
<1>3. /\ hash' \in [Users -> 0..MaxChanges]
      /\ \A v \in Users \ {u} : hash'[v] = hash[v] /\ role'[v] = role[v]
      /\ role' \in [Users -> Roles] /\ role'[u] = newRole
  BY <1>1, <1>2 DEF TypeOK
<1>4. /\ enabled' \subseteq known'
      /\ \A v \in Users \ {u} : v \in enabled' <=> v \in enabled
  BY <1>1 DEF TypeOK
<1>5. SessionsMatchAccounts'
  <2>1. ASSUME NEW s \in table' PROVE s \in table /\ OwnerOf[s] \in Users \ {u}
    BY <1>1, <2>1 DEF TypeOK, AccountsAssumption
  <2> QED
    BY <1>1, <1>3, <1>4, <2>1 DEF SessionsMatchAccounts
<1>6. SomeAdminRemains'
  <2>1. CASE on /\ newRole = "admin"
    <3>1. u \in enabled' /\ role'[u] = "admin"
      BY <1>1, <1>3, <2>1
    <3> QED BY <3>1 DEF SomeAdminRemains
  <2>2. CASE ~(on /\ newRole = "admin")
    <3>1. \E v \in Administrators : v # u
      <4>1. CASE u \in enabled /\ role[u] = "admin"
        BY <2>2, <4>1 DEF UpdateUser
      <4>2. CASE ~(u \in enabled /\ role[u] = "admin")
        BY <1>1, <4>2 DEF SomeAdminRemains, Administrators
      <4> QED BY <4>1, <4>2
    <3> QED
      BY <1>3, <1>4, <3>1 DEF SomeAdminRemains, Administrators, TypeOK
  <2> QED BY <2>1, <2>2
<1> QED
  BY <1>1, <1>2, <1>3, <1>4, <1>5, <1>6 DEF TypeOK

\* A new account has no session yet, and the first one is an administrator's.
LEMMA CreateKeeps ==
  ASSUME AccountsAssumption, AccountsInvariant, NEW u \in Users, NEW newRole \in Roles,
         known = {} => newRole = "admin",
         CreateUser(u, newRole)
  PROVE  /\ known' = known \union {u} /\ enabled' \subseteq known'
         /\ role' \in [Users -> Roles] /\ hash' \in [Users -> 0..MaxChanges]
         /\ table' = table /\ issued' = issued /\ made' = made
         /\ changes' \in 0..MaxChanges
         /\ SessionsMatchAccounts' /\ SomeAdminRemains'
<1> USE DEF AccountsInvariant
<1>1. /\ u \notin known /\ changes < MaxChanges
      /\ known' = known \union {u} /\ enabled' = enabled \union {u}
      /\ role' = [role EXCEPT ![u] = newRole]
      /\ changes' = changes + 1 /\ hash' = [hash EXCEPT ![u] = changes']
      /\ table' = table /\ issued' = issued /\ made' = made
  BY DEF CreateUser
<1>2. changes' \in 0..MaxChanges
  BY <1>1 DEF TypeOK, AccountsAssumption
<1>3. /\ hash' \in [Users -> 0..MaxChanges] /\ role' \in [Users -> Roles]
      /\ \A v \in Users \ {u} : hash'[v] = hash[v] /\ role'[v] = role[v]
      /\ role'[u] = newRole
  BY <1>1, <1>2 DEF TypeOK
<1>4. SessionsMatchAccounts'
  <2>1. ASSUME NEW s \in table PROVE OwnerOf[s] \in Users \ {u}
    BY <1>1, <2>1 DEF SessionsMatchAccounts, TypeOK, AccountsAssumption
  <2> QED BY <1>1, <1>3, <2>1 DEF SessionsMatchAccounts
<1>5. SomeAdminRemains'
  <2>1. CASE known = {}
    BY <1>1, <1>3, <2>1 DEF SomeAdminRemains
  <2>2. CASE known # {}
    <3>1. PICK v \in enabled : role[v] = "admin"
      BY <2>2 DEF SomeAdminRemains
    <3>2. v \in Users \ {u}
      BY <1>1 DEF TypeOK
    <3> QED BY <1>1, <1>3, <3>1, <3>2 DEF SomeAdminRemains
  <2> QED BY <2>1, <2>2
<1> QED
  BY <1>1, <1>2, <1>3, <1>4, <1>5 DEF TypeOK

LEMMA ChangeStep ==
  ASSUME AccountsAssumption, AccountsInvariant,
         \/ \E b \in Browsers : Administer(b)
         \/ \E u \in Users : Bootstrap(u) \/ ResetPassword(u)
  PROVE  AccountsInvariant'
<1> USE DEF AccountsInvariant
<1> DEFINE Kept ==
      /\ known \subseteq known' /\ known' \subseteq Users /\ enabled' \subseteq known'
      /\ role' \in [Users -> Roles] /\ hash' \in [Users -> 0..MaxChanges]
      /\ table' \subseteq issued' /\ issued' = issued /\ made' = made
      /\ changes' \in 0..MaxChanges
      /\ SessionsMatchAccounts' /\ SomeAdminRemains'
<1>1. ASSUME NEW u \in Users, NEW r \in Roles, NEW on \in BOOLEAN,
             NEW password \in BOOLEAN, UpdateUser(u, r, on, password)
      PROVE  Kept
  BY <1>1, UpdateKeeps DEF TypeOK
<1>2. ASSUME NEW u \in Users, NEW r \in Roles, CreateUser(u, r),
             known = {} => r = "admin"
      PROVE  Kept
  BY <1>2, CreateKeeps DEF TypeOK
<1>3. ASSUME NEW b \in Browsers, Administer(b)
      PROVE  /\ Kept /\ at' = [at EXCEPT ![b] = "idle"] /\ expired' = expired
             /\ UNCHANGED client /\ UNCHANGED limiter
  <2>1. /\ at[b] = "admin" /\ at' = [at EXCEPT ![b] = "idle"] /\ expired' = expired
        /\ UNCHANGED client /\ UNCHANGED limiter
    BY <1>3 DEF Administer, Goto
  <2>2. known # {}
    BY <2>1 DEF AdministratorsExist
  <2>3. CASE \E u \in Users, r \in Roles, on, password \in BOOLEAN :
               UpdateUser(u, r, on, password)
    BY <1>1, <2>1, <2>3
  <2>4. CASE \E u \in Users, r \in Roles : CreateUser(u, r)
    BY <1>2, <2>1, <2>2, <2>4
  <2>5. CASE UNCHANGED database
    BY <2>1, <2>5, SameAccounts DEF database, TypeOK
  <2> QED
    BY <1>3, <2>3, <2>4, <2>5 DEF Administer
<1>4. ASSUME NEW u \in Users, Bootstrap(u)
      PROVE  Kept /\ UNCHANGED <<expired, at, client, limiter>>
  BY <1>2, <1>4 DEF Bootstrap, Roles
<1>5. ASSUME NEW u \in Users, ResetPassword(u)
      PROVE  Kept /\ UNCHANGED <<expired, at, client, limiter>>
  <2>1. role[u] \in Roles /\ (u \in enabled) \in BOOLEAN
    BY DEF TypeOK
  <2> QED
    BY <1>1, <1>5, <2>1 DEF ResetPassword
<1>6. /\ Kept /\ expired' = expired /\ UNCHANGED client /\ UNCHANGED limiter
      /\ at' = at \/ \E b \in Browsers : at' = [at EXCEPT ![b] = "idle"]
  BY <1>3, <1>4, <1>5
<1>7. at' \in [Browsers -> Places] /\ AdministratorsExist'
  BY <1>6 DEF TypeOK, Places, AdministratorsExist
<1> QED
  BY <1>6, <1>7 DEF TypeOK, client, limiter

----------------------------------------------------------------------------
LEMMA Invariance == Spec => []AccountsInvariant
<1>1. Init => AccountsInvariant
  BY AccountsAssumption, AccountsInit
<1>2. AccountsInvariant /\ [Next]_vars => AccountsInvariant'
  <2> SUFFICES ASSUME AccountsInvariant, [Next]_vars PROVE AccountsInvariant'
    OBVIOUS
  <2>1. ASSUME NEW b \in Browsers, Login(b) \/ Enter(b) \/ Logout(b)
        PROVE  AccountsInvariant'
    BY <2>1, AccountsAssumption, LoginWaits, SessionStep DEF Login
  <2>2. CASE (\E b \in Browsers : Administer(b))
               \/ \E u \in Users : Bootstrap(u) \/ ResetPassword(u)
    BY <2>2, AccountsAssumption, ChangeStep
  <2>3. ASSUME NEW s \in Sessions, Expire(s) PROVE AccountsInvariant'
    BY <2>3 DEF Expire, AccountsInvariant, TypeOK, SessionsMatchAccounts, SomeAdminRemains,
                AdministratorsExist, database, client, limiter
  <2>4. ASSUME NEW h \in Hosts, MinutePasses(h) PROVE AccountsInvariant'
    BY <2>4 DEF MinutePasses, AccountsInvariant, TypeOK, SessionsMatchAccounts,
                SomeAdminRemains, AdministratorsExist, database, client
  <2>5. CASE UNCHANGED vars
    BY <2>5 DEF vars, AccountsInvariant, TypeOK, SessionsMatchAccounts,
                SomeAdminRemains, AdministratorsExist, database, client, limiter
  <2> QED
    BY <2>1, <2>2, <2>3, <2>4, <2>5 DEF Next
<1> QED
  BY <1>1, <1>2, PTL DEF Spec

\* No session is granted on an account as it was before Login verified the
\* password: an update in the meantime, by an administrator or on the command
\* line, ends the login too (Store.Login's INSERT, Store.UpdateUser).
THEOREM SessionsAlwaysMatch == Spec => []SessionsMatchAccounts
  BY Invariance, PTL DEF AccountsInvariant

\* Every variable of the accounts keeps its type: a token in the table was issued
\* once, and no address has more attempts than the limit.
THEOREM AccountsTypeCorrect == Spec => []TypeOK
  BY Invariance, PTL DEF AccountsInvariant

\* The last enabled administrator is never lost (Store.UpdateUser's transaction).
THEOREM AdministratorAlwaysRemains == Spec => []SomeAdminRemains
  BY Invariance, PTL DEF AccountsInvariant

----------------------------------------------------------------------------
(* The limiter.                                                            *)

\* The addresses with a window are finitely many: each came with a request.
FewWindows == IsFiniteSet(Counted(windows))

\* A request gives a window to its own address at most.
LEMMA FewWindowsStep ==
  ASSUME AccountsAssumption, AccountsInvariant, FewWindows, [Next]_vars
  PROVE  FewWindows'
<1>1. ASSUME NEW b \in Browsers, Arrive(b) PROVE FewWindows'
  <2> DEFINE h == HostOf[b]
  <2>1. h \in Hosts /\ windows \in [Hosts -> 0..Attempts]
    BY DEF Hosts, AccountsInvariant, TypeOK
  <2>2. /\ windows' = [Pruned(h) EXCEPT ![h] = @ + 1] \/ windows' = Pruned(h)
        /\ Pruned(h) = [g \in Hosts |-> IF g \in lapsed THEN 0 ELSE windows[g]]
    BY <1>1 DEF Arrive, Pruned
  <2>3. \A g \in Hosts : windows'[g] > 0 => windows[g] > 0 \/ g = h
    BY <2>1, <2>2
  <2>4. Counted(windows') \subseteq Counted(windows) \union {h}
    BY <2>3 DEF Counted
  <2> QED
    BY <2>4, FS_AddElement, FS_Subset DEF FewWindows
<1>2. CASE UNCHANGED windows
  BY <1>2 DEF FewWindows, Counted
<1>3. CASE UNCHANGED vars
  BY <1>2, <1>3 DEF vars, limiter
<1> QED
  BY <1>1, <1>2, <1>3
     DEF Next, Login, TakeSlot, Read, Verify, Insert, InsertsNothing, SweepExpired,
         Answer, Refuse, Enter, Logout, Administer, Bootstrap, ResetPassword, Expire,
         MinutePasses, limiter

\* Only the limiter turns a request away that has just arrived, and it counts
\* only windows that still run.
LEMMA RefusalStep ==
  ASSUME AccountsAssumption, AccountsInvariant, FewWindows, [Next]_vars,
         NEW b \in Browsers, at[b] = "idle", at'[b] = "refused"
  PROVE  LET running == Counted(windows) \ lapsed
         IN  \/ HostOf[b] \in running /\ windows[HostOf[b]] = Attempts
             \/ Cardinality(running) >= MaxWindows
<1>1. at \in [Browsers -> Places] /\ windows \in [Hosts -> 0..Attempts]
  BY DEF AccountsInvariant, TypeOK
<1>2. Arrive(b)
  <2>1. ASSUME NEW c \in Browsers, Login(c) \/ Enter(c) \/ Logout(c) \/ Administer(c)
        PROVE  Arrive(b)
    <3>1. ASSUME NEW place, place # "refused", at' = [at EXCEPT ![c] = place]
          PROVE  FALSE
      BY <1>1, <3>1
    <3>2. Arrive(c) \/ TakeSlot(c) \/ Verify(c) \/ InsertsNothing(c)
      BY <2>1, <3>1 DEF Login, Read, Insert, SweepExpired, Answer, Refuse, Enter,
                        Logout, Administer, Goto, Drop
    <3>3. c # b => at'[b] = at[b]
      BY <1>1, <3>2 DEF Arrive, TakeSlot, Verify, InsertsNothing, Goto, Drop
    <3> QED
      BY <3>2, <3>3 DEF TakeSlot, Verify, InsertsNothing
  <2> QED
    BY <2>1 DEF Next, Bootstrap, ResetPassword, Expire, MinutePasses, vars
<1> DEFINE h == HostOf[b]  seen == Pruned(h)  running == Counted(windows) \ lapsed
<1>3. h \in Hosts /\ Counted(seen) = running
  BY <1>1 DEF Hosts, Pruned, Counted
<1>4. IsFiniteSet(running) /\ Cardinality(running) \in Nat
  BY FS_Subset, FS_CardinalityType DEF FewWindows
<1>5. ~(/\ seen[h] < Attempts
        /\ seen[h] > 0 \/ Cardinality(Counted(seen)) < MaxWindows)
  BY <1>1, <1>2 DEF Arrive, Goto
<1>6. CASE ~(seen[h] < Attempts)
  <2>1. Attempts \in Nat \ {0} /\ seen[h] = IF h \in lapsed THEN 0 ELSE windows[h]
    BY <1>3 DEF AccountsAssumption, Pruned
  <2>2. h \notin lapsed /\ windows[h] = Attempts
    BY <1>1, <1>3, <1>6, <2>1
  <2> QED BY <1>3, <2>1, <2>2 DEF Counted
<1>7. CASE ~(Cardinality(Counted(seen)) < MaxWindows)
  BY <1>3, <1>4, <1>7 DEF AccountsAssumption
<1> QED
  BY <1>5, <1>6, <1>7

\* A login is refused before it starts only while its own address has used up a
\* window that still runs, or as many addresses as are remembered have one
\* (loginLimiter.allow), for any limits and any number of addresses.
THEOREM RefusalsDoNotOutlast == Spec => RefusalsAreTemporary
<1>1. Init => FewWindows
  <2> SUFFICES ASSUME Init PROVE FewWindows
    OBVIOUS
  <2>1. Counted(windows) = {}
    BY DEF Init, Counted
  <2> QED BY <2>1, FS_EmptySet DEF FewWindows
<1>2. AccountsInvariant /\ FewWindows /\ [Next]_vars => FewWindows'
  BY AccountsAssumption, FewWindowsStep
<1>3. AccountsInvariant /\ FewWindows /\ [Next]_vars
        => [\A b \in Browsers : at[b] = "idle" /\ at'[b] = "refused" =>
              LET running == Counted(windows) \ lapsed
              IN  \/ HostOf[b] \in running /\ windows[HostOf[b]] = Attempts
                  \/ Cardinality(running) >= MaxWindows]_vars
  BY AccountsAssumption, RefusalStep
<1> QED
  BY Invariance, <1>1, <1>2, <1>3, PTL DEF Spec, RefusalsAreTemporary

----------------------------------------------------------------------------
(* The refinement.                                                         *)

LEMMA AccessInit == ASSUME AccountsInvariant, Init PROVE Access!Init
  BY DEF Init, Access!Init, AccountsInvariant, TypeOK

LEMMA SameAccess ==
  ASSUME UNCHANGED <<known, enabled, role, table, expired>>
  PROVE  UNCHANGED Access!accountVars
  BY DEF Access!accountVars

\* A step of a login, or of a request that has a session.
LEMMA AccessLogin ==
  ASSUME AccountsAssumption, AccountsInvariant, NEW b \in Browsers,
         Login(b) \/ Enter(b) \/ Logout(b)
  PROVE  [Access!Next]_Access!accountVars
<1> USE DEF AccountsInvariant
<1>1. CASE Arrive(b) \/ TakeSlot(b) \/ Read(b) \/ Verify(b) \/ InsertsNothing(b)
             \/ Refuse(b) \/ Enter(b)
  <2>1. UNCHANGED database /\ UNCHANGED expired
    BY <1>1 DEF Arrive, TakeSlot, Read, Verify, InsertsNothing, Refuse, Enter
  <2> QED BY <2>1, SameAccess DEF database
<1>2. CASE Insert(b)
  <2>1. PICK s \in Sessions \ issued :
          OwnerOf[s] = row[b].user /\ table' = table \union {s}
    BY <1>2 DEF Insert
  <2>2. /\ known' = known /\ enabled' = enabled /\ role' = role /\ expired' = expired
        /\ row[b].user \in enabled
    BY <1>2 DEF Insert, StillTrue
  <2>3. s \notin table /\ s \notin expired
    BY <2>1 DEF TypeOK
  <2>4. Access!SignIn(s)
    BY <2>1, <2>2, <2>3 DEF Access!SignIn
  <2> QED BY <2>4 DEF Access!Next
<1>3. CASE SweepExpired(b)
  BY <1>3 DEF SweepExpired, Access!accountVars
<1>4. CASE Answer(b) \/ Logout(b)
  <2>1. /\ known' = known /\ enabled' = enabled /\ role' = role /\ expired' = expired
        /\ table' = table \ {cookie[b]}
    BY <1>4 DEF Answer, Logout
  <2>2. CASE cookie[b] \in table \ expired
    <3>1. Access!SignOut(cookie[b]) /\ cookie[b] \in Sessions
      BY <2>1, <2>2 DEF Access!SignOut, TypeOK
    <3> QED BY <3>1 DEF Access!Next
  <2>3. CASE cookie[b] \notin table \ expired
    BY <2>1, <2>3 DEF Access!accountVars
  <2> QED BY <2>2, <2>3
<1> QED
  BY <1>1, <1>2, <1>3, <1>4 DEF Login

\* A change of an account, which leaves no session of the user.
LEMMA AccessChange ==
  ASSUME AccountsAssumption, AccountsInvariant,
         \/ \E b \in Browsers : Administer(b)
         \/ \E u \in Users : Bootstrap(u) \/ ResetPassword(u)
  PROVE  [Access!Next]_Access!accountVars
<1> USE DEF AccountsInvariant
<1>1. ASSUME NEW u \in Users, NEW r, NEW on, NEW password,
             UpdateUser(u, r, on, password), expired' = expired
      PROVE  Access!Change(u)
  <2>1. /\ known' = known /\ u \in known /\ role' = [role EXCEPT ![u] = r]
        /\ enabled' = IF on THEN enabled \union {u} ELSE enabled \ {u}
        /\ table' = {s \in table : OwnerOf[s] # u}
    BY <1>1 DEF UpdateUser, Revoked, TypeOK
  <2>2. \A v \in known : v # u => role'[v] = role[v]
    BY <2>1 DEF TypeOK
  <2> QED BY <1>1, <2>1, <2>2 DEF Access!Change
<1>2. ASSUME NEW u \in Users, NEW r, CreateUser(u, r), expired' = expired
      PROVE  Access!Change(u)
  <2>1. /\ u \notin known /\ known' = known \union {u} /\ enabled' = enabled \union {u}
        /\ role' = [role EXCEPT ![u] = r] /\ table' = table
    BY <1>2 DEF CreateUser
  <2>2. \A v \in known : role'[v] = role[v]
    BY <2>1 DEF TypeOK
  <2>3. \A s \in table : OwnerOf[s] # u
    BY <2>1 DEF SessionsMatchAccounts, TypeOK
  <2> QED BY <1>2, <2>1, <2>2, <2>3 DEF Access!Change
<1>3. ASSUME NEW b \in Browsers, Administer(b) PROVE [Access!Next]_Access!accountVars
  <2>1. expired' = expired
    BY <1>3 DEF Administer
  <2>2. CASE UNCHANGED database
    BY <2>1, <2>2, SameAccess DEF database
  <2>3. CASE ~UNCHANGED database
    BY <1>1, <1>2, <1>3, <2>1, <2>3 DEF Administer, Access!Next
  <2> QED BY <2>2, <2>3
<1>4. ASSUME NEW u \in Users, Bootstrap(u) \/ ResetPassword(u)
      PROVE  [Access!Next]_Access!accountVars
  BY <1>1, <1>2, <1>4 DEF Bootstrap, ResetPassword, Access!Next
<1> QED
  BY <1>3, <1>4

\* However logins, updates, sign-outs and expiries interleave, the rest of the
\* program sees AccountAccess (internal/auth/store.go).
THEOREM AccountsKeepAccess == Spec => ImplementsAccountAccess
<1>1. Init => Access!Init
  BY AccountsAssumption, AccountsInit, AccessInit
<1>2. AccountsInvariant /\ [Next]_vars => [Access!Next]_Access!accountVars
  <2> SUFFICES ASSUME AccountsInvariant, [Next]_vars
               PROVE  [Access!Next]_Access!accountVars
    OBVIOUS
  <2>1. ASSUME NEW s \in Sessions, Expire(s) PROVE Access!SignOut(s)
    BY <2>1 DEF Expire, database, Access!SignOut
  <2>2. CASE \E h \in Hosts : MinutePasses(h)
    BY <2>2, SameAccess DEF MinutePasses, database
  <2>3. CASE UNCHANGED vars
    BY <2>3, SameAccess DEF vars, database
  <2> QED
    BY <2>1, <2>2, <2>3, AccountsAssumption, AccessLogin, AccessChange
    DEF Next, Access!Next
<1> QED
  BY <1>1, <1>2, Invariance, PTL DEF Spec, ImplementsAccountAccess, Access!Spec
=============================================================================
