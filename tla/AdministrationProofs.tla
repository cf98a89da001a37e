------------------------- MODULE AdministrationProofs -------------------------
(* Theorems of Accounts, for every set of users, of requests and of roles, and *)
(* of ConnectionSettings, for every set of connections, requests and bodies.   *)
EXTENDS Accounts, ConnectionSettings, FiniteSetTheorems, TLAPS


\* What a request does at its last step may take the admin role or the activity
\* of its user away.
Removes(p) ==
    \/ p.op \in {"disable", "delete"}
    \/ p.op = "roles" /\ Admin \notin p.roles
    \/ /\ p.op = "sync" /\ ManagedRoles # {}
       /\ Admin \in p.before /\ Admin \notin p.roles

\* Where each operation can be.
InPlace(r) ==
    LET p == request[r]
    IN  /\ p.step \in {"check", "row", "count"} => Removes(p)
        /\ p.step = "lock" => p.op = "roles" /\ ~Removes(p)
        /\ p.step = "apply" => p.op \notin {"none", "create"}
        /\ p.op \notin {"none", "create"} => account[p.user].status # "absent"

\* Which locks it holds there.
Locked(r) ==
    LET p == request[r]
    IN  /\ adminLock = r => p.step \in {"row", "count", "apply"}
        /\ p.step \in {"row", "count"} => adminLock = r
        /\ p.step = "apply" /\ Removes(p) => adminLock = r
        /\ \A u \in Users : rowLock[u] = r =>
             /\ p.user = u
             /\ p.step = "count" \/ (p.step = "apply" /\ p.op # "enable")
        /\ p.step = "count" \/ (p.step = "apply" /\ (Removes(p) \/ p.op = "roles"))
             => rowLock[p.user] = r \/ account[p.user].status = "deleted"

\* Some active admin is not u.
OtherAdmin(u) == \E a \in ActiveAdmins : a # u

\* What a removal relies on once it has looked, unless a sync wrote blindly.
LeavesOne(r) ==
    LET p == request[r]
    IN  /\ p.step = "row" /\ ~p.admin => OtherAdmin(p.user)
        /\ p.step = "apply" /\ Removes(p) /\ p.user \in ActiveAdmins => OtherAdmin(p.user)

Sound(r) == InPlace(r) /\ Locked(r) /\ (blindSync \/ LeavesOne(r))

AdminInv ==
    /\ TypeOK
    /\ LastAdminOnlyLostBlindly
    /\ NoSessionOutlivesDisabling
    /\ \A r \in Requests : Sound(r)

\* A step of r leaves the others where they are and what they hold.
Frame(r) ==
    \A q \in Requests \ {r} :
      /\ request'[q] = request[q]
      /\ adminLock' = q <=> adminLock = q
      /\ \A u \in Users : rowLock'[u] = q <=> rowLock[u] = q

\* It changes only rows nobody else has locked, deletes nobody's tombstone, and
\* takes an admin away only when it holds the advisory lock and leaves another.
Lawful(r) ==
    /\ \A u \in Users : account'[u] # account[u] =>
         /\ \A q \in Requests \ {r} : rowLock[u] # q
         /\ account[u].status # "deleted"
         /\ account'[u].status # "absent"
    /\ blindSync => blindSync'
    /\ \/ blindSync'
       \/ \A a \in ActiveAdmins : a \notin ActiveAdmins' =>
            /\ a = request[r].user
            /\ adminLock = r
            /\ OtherAdmin(a)
    /\ \A u \in Users : account'[u] # account[u] => \A a \in Users \ {u} : account'[a] = account[a]

-----------------------------------------------------------------------------
\* A lawful step keeps what the other requests rely on, and an admin.
LEMMA OthersSound ==
    ASSUME AdminInv, NEW r \in Requests, Frame(r), Lawful(r)
    PROVE  /\ LastAdminOnlyLostBlindly'
           /\ \A q \in Requests \ {r} : Sound(q)'
<1> DEFINE lost(a) == a \in ActiveAdmins /\ a \notin ActiveAdmins'
<1>1. blindSync' \/ \A a, b \in ActiveAdmins : lost(a) /\ b # a => b \in ActiveAdmins'
  BY DEF Lawful, ActiveAdmins, Active
<1>2. LastAdminOnlyLostBlindly'
  BY <1>1 DEF Lawful, AdminInv, LastAdminOnlyLostBlindly, OtherAdmin
<1>3. ASSUME NEW q \in Requests \ {r}
      PROVE  Sound(q)'
  <2> DEFINE p == request[q]
  <2>1. p' = p /\ p \in Request /\ p.user \in Users
    BY DEF Frame, AdminInv, TypeOK, Request
  <2>2. Sound(q) /\ InPlace(q) /\ Locked(q)
    BY DEF AdminInv, Sound
  <2>3. Removes(p)' <=> Removes(p)
    BY <2>1 DEF Removes
  <2>4. InPlace(q)'
    BY <2>1, <2>2, <2>3 DEF InPlace, Lawful
  <2>5. \A u \in Users : rowLock[u] = q => account'[u] = account[u]
    BY DEF Lawful
  <2>6. \A u \in Users : account[u].status = "deleted" => account'[u] = account[u]
    BY DEF Lawful
  <2>7. Locked(q)'
    BY <2>1, <2>2, <2>3, <2>6 DEF Locked, Frame
  <2>8. ASSUME ~blindSync', adminLock = q, NEW u \in Users, OtherAdmin(u)
        PROVE  OtherAdmin(u)'
    BY <2>8 DEF Lawful, OtherAdmin
  <2>9. ASSUME ~blindSync'
        PROVE  LeavesOne(q)'
    <3>1. LeavesOne(q)
      BY <2>9, <2>2 DEF Lawful, Sound
    <3>2. p.step = "row" /\ ~p.admin => OtherAdmin(p.user)'
      BY <2>1, <2>2, <2>8, <2>9, <3>1 DEF Locked, LeavesOne
    <3>3. ASSUME p.step = "apply", Removes(p), p.user \in ActiveAdmins'
          PROVE  OtherAdmin(p.user)'
      <4>1. adminLock = q
        BY <2>2, <3>3 DEF Locked
      <4>2. account'[p.user] = account[p.user]
        BY <2>1, <2>2, <2>5, <2>6, <3>3 DEF Locked
      <4>3. p.user \in ActiveAdmins
        BY <2>1, <3>3, <4>2 DEF ActiveAdmins, Active
      <4>4. OtherAdmin(p.user)
        BY <3>1, <3>3, <4>3 DEF LeavesOne
      <4> QED BY <2>1, <2>8, <2>9, <4>1, <4>4
    <3> QED BY <2>1, <2>3, <3>2, <3>3 DEF LeavesOne
  <2> QED BY <2>4, <2>7, <2>9 DEF Sound
<1> QED BY <1>2, <1>3

\* A step that changes no user is lawful.
LEMMA UntouchedIsLawful ==
    ASSUME NEW r \in Requests, account' = account, blindSync' = blindSync
    PROVE  Lawful(r)
BY DEF Lawful, ActiveAdmins, Active

\* At the end of a transaction its request relies on nothing.
LEMMA EndSound ==
    ASSUME TypeOK, NEW r \in Requests, End(r)
    PROVE  Frame(r) /\ Sound(r)'
<1>1. /\ request'[r] = Idle
      /\ \A q \in Requests \ {r} : request'[q] = request[q]
  BY DEF End, TypeOK
<1>2. adminLock' # r /\ \A u \in Users : rowLock'[u] # r
  BY RequestsAssumption DEF End, Unlock, TypeOK
<1>3. Frame(r)
  BY <1>1, RequestsAssumption DEF Frame, End, Unlock, TypeOK
<1>4. /\ request'[r].step = "idle" /\ request'[r].op = "none"
  BY <1>1 DEF Idle
<1>5. Sound(r)'
  BY <1>2, <1>4 DEF Sound, InPlace, Locked, LeavesOne, Removes
<1> QED BY <1>3, <1>5

\* A request that begins without a lock.
LEMMA BeginSound ==
    ASSUME AdminInv, NEW r \in Requests, NEW p \in Request,
           request[r].step = "idle",
           request' = [request EXCEPT ![r] = p],
           UNCHANGED <<account, locks, blindSync>>,
           p.step \notin {"row", "count"},
           p.step = "check" => Removes(p),
           p.step = "lock" => p.op = "roles" /\ ~Removes(p),
           p.step = "apply" => p.op \in {"enable", "sync"} /\ ~Removes(p),
           p.op \notin {"none", "create"} => account[p.user].status # "absent"
    PROVE  Frame(r) /\ Sound(r)'
<1>1. request'[r] = p /\ \A q \in Requests \ {r} : request'[q] = request[q]
  BY DEF AdminInv, TypeOK
<1>2. adminLock # r /\ \A u \in Users : rowLock[u] # r
  BY DEF AdminInv, Sound, Locked
<1>3. Frame(r)
  BY <1>1 DEF Frame, locks
<1>4. Removes(request[r])' <=> Removes(p)
  BY <1>1 DEF Removes
<1>5. Sound(r)'
  BY <1>1, <1>2, <1>4 DEF Sound, InPlace, Locked, LeavesOne, locks
<1> QED BY <1>3, <1>5

\* An operation that is over and loses no admin it may not lose.
LEMMA StepSound ==
    ASSUME AdminInv, NEW r \in Requests, Frame(r), Lawful(r), Sound(r)', TypeOK',
           NoSessionOutlivesDisabling'
    PROVE  AdminInv'
BY OthersSound DEF AdminInv

-----------------------------------------------------------------------------
\* Types.
LEMMA IdleType == Idle \in Request
BY BootstrapAssumption, PasswordAssumption
   DEF Idle, Request, Operations, Steps, RoleSets, Hash, NoHash

LEMMA EndType ==
    ASSUME TypeOK, NEW r \in Requests, End(r)
    PROVE  /\ rowLock' \in [Users -> Requests \cup {Free}]
           /\ adminLock' \in Requests \cup {Free}
           /\ request' \in [Requests -> Request]
BY IdleType DEF TypeOK, End, Unlock

LEMMA InitType == Init => TypeOK
<1> SUFFICES ASSUME Init PROVE TypeOK
  OBVIOUS
<1>1. account \in [Users -> Account]
  BY DEF Init, Account, RoleSets
<1>2. credential \in [Users -> Hash]
  BY PasswordAssumption DEF Init, Hash, NoHash
<1> QED BY <1>1, <1>2, IdleType DEF Init, TypeOK

\* Asking writes a request.
LEMMA AskType ==
    ASSUME TypeOK, NEW r \in Requests,
           AskChange(r) \/ AskCreate(r) \/ AskLogin(r) \/ AskNewPassword(r)
    PROVE  TypeOK'
<1>1. ASSUME NEW op \in Operations, NEW step \in Steps, NEW u \in Users, NEW by \in Users,
             NEW roles \in RoleSets, Begin(r, op, step, u, by, roles)
      PROVE  TypeOK'
  BY <1>1, IdleType DEF Begin, TypeOK, Request, tables, locks
<1>2. CASE AskChange(r)
  <2> PICK by \in Managers, u \in Users :
        \/ Begin(r, "disable", "check", u, u, {})
        \/ Begin(r, "enable", "apply", u, u, {})
        \/ \E roles \in GrantedRoles :
             Begin(r, "roles", IF Admin \in roles THEN "lock" ELSE "check", u, by, roles)
        \/ Begin(r, "delete", "check", u, u, {})
        \/ Begin(r, "reset", "save", u, u, {})
    BY <1>2 DEF AskChange
  <2>1. by \in Users
    BY DEF Managers, ActiveAdmins
  <2> QED BY <1>1, <2>1 DEF Operations, Steps, RoleSets
<1>3. CASE AskCreate(r)
  BY <1>1, <1>3 DEF AskCreate, Managers, ActiveAdmins, Operations, Steps, RoleSets
<1>4. CASE AskLogin(r)
  <2> PICK u \in Users :
        /\ request' = [request EXCEPT ![r] = [Idle EXCEPT !.op = "login", !.step = "open",
                                                !.user = u, !.hash = credential[u]]]
        /\ UNCHANGED <<tables, locks, blindSync>>
    BY <1>4 DEF AskLogin
  <2>1. credential[u] \in Hash
    BY DEF TypeOK
  <2>2. [Idle EXCEPT !.op = "login", !.step = "open", !.user = u, !.hash = credential[u]]
          \in Request
    BY <2>1, IdleType DEF Request, Operations, Steps
  <2> QED BY <2>2 DEF TypeOK, tables, locks
<1>5. CASE AskNewPassword(r)
  <2> PICK s \in sessions :
        /\ request' = [request EXCEPT ![r] = [Idle EXCEPT !.op = "change", !.step = "save",
                                                !.user = s.user, !.hash = credential[s.user]]]
        /\ UNCHANGED <<tables, locks, blindSync>>
    BY <1>5 DEF AskNewPassword
  <2>1. s.user \in Users /\ credential[s.user] \in Hash
    BY DEF TypeOK, Session
  <2>2. [Idle EXCEPT !.op = "change", !.step = "save", !.user = s.user,
                     !.hash = credential[s.user]] \in Request
    BY <2>1, IdleType DEF Request, Operations, Steps
  <2> QED BY <2>2 DEF TypeOK, tables, locks
<1> QED BY <1>2, <1>3, <1>4, <1>5

LEMMA SyncType ==
    ASSUME TypeOK, NEW r \in Requests,
           FindLinked(r) \/ FindByEmail(r) \/ CreateJitUser(r)
    PROVE  TypeOK'
<1>1. ASSUME NEW u \in Users, NEW roles \in RoleSets, ReadBefore(r, u, roles)
      PROVE  request' \in [Requests -> Request]
  BY <1>1, IdleType DEF ReadBefore, TypeOK, Request, Account, Operations, Steps
<1>2. \A roles \in RolesOfGroups : roles \in RoleSets
  BY DEF RolesOfGroups, RoleSets
<1>3. CASE FindLinked(r)
  BY <1>1, <1>2, <1>3 DEF FindLinked, TypeOK, tables, locks
<1>4. CASE FindByEmail(r)
  BY <1>1, <1>2, <1>4, SsoAssumption DEF FindByEmail, TypeOK, tables
<1>5. CASE CreateJitUser(r)
  <2> PICK u \in SsoUsers, roles \in RoleSets :
        /\ account' = [account EXCEPT ![u] = [status |-> "active", roles |-> roles]]
        /\ linked' = linked \cup {u}
        /\ request' = [request EXCEPT ![r] = Provisioned(u)]
        /\ UNCHANGED <<credential, sessions, locks, blindSync>>
    BY <1>5 DEF CreateJitUser, RoleSets
  <2>1. Provisioned(u) \in Request
    BY IdleType, SsoAssumption DEF Provisioned, Request, Operations, Steps
  <2> QED BY <2>1, SsoAssumption DEF TypeOK, Account, locks
<1> QED BY <1>3, <1>4, <1>5

LEMMA WorkType ==
    ASSUME TypeOK, NEW r \in Requests, Work(r) \/ Abort(r)
    PROVE  TypeOK'
<1> DEFINE p == request[r]
<1>1. p \in Request /\ p.user \in Users /\ p.roles \in RoleSets /\ Idle \in Request
  BY IdleType DEF TypeOK, Request
<1>2. account[p.user] \in Account /\ credential[p.user] \in Hash
  BY <1>1 DEF TypeOK
<1>3. \A step \in Steps : Goto(r, step) => request' \in [Requests -> Request]
  BY DEF Goto, TypeOK, Request
<1>4. p.hash \in Hash /\ OpenedFor(p.user, 0) \in Session /\ OpenedFor(p.user, p.hash.password) \in Session
  BY <1>1, <1>2, PasswordAssumption DEF OpenedFor, Session, Account, Hash, Request
<1>renew. ASSUME credential[p.user].password + 1 <= MaxPassword
          PROVE  [credential EXCEPT ![p.user] = [password |-> credential[p.user].password + 1,
                                                 old |-> FALSE]] \in [Users -> Hash]
  BY <1>renew, <1>1, <1>2, PasswordAssumption DEF TypeOK, Hash
<1>5. CASE LockAdmins(r)
  <2>1. /\ request' = [request EXCEPT ![r] = [p EXCEPT
                          !.step = "row", !.admin = Admin \in account[p.user].roles]]
        /\ adminLock' = r
        /\ UNCHANGED <<tables, rowLock, blindSync>>
    BY <1>5 DEF LockAdmins, TypeOK
  <2>2. (Admin \in account[p.user].roles) \in BOOLEAN
    OBVIOUS
  <2>3. [p EXCEPT !.step = "row", !.admin = Admin \in account[p.user].roles] \in Request
    BY <1>1, <2>2 DEF Request, Steps
  <2> QED BY <2>1, <2>3 DEF TypeOK, tables
<1>6. CASE LockTarget(r)
  BY <1>1, <1>6 DEF LockTarget, TypeOK, Request, Steps, tables
<1>7. CASE CountAdmins(r)
  BY <1>1, <1>3, <1>7, EndType DEF CountAdmins, TypeOK, Steps, tables, locks
<1>8. CASE LockUser(r)
  BY <1>1, <1>3, <1>8, EndType DEF LockUser, TypeOK, Steps, tables
<1>9. CASE UpdateStatus(r)
  BY <1>1, <1>2, <1>9, EndType DEF UpdateStatus, TypeOK, Account, Revoked
<1>10. CASE ReplaceUserRoles(r)
  BY <1>1, <1>2, <1>10, EndType DEF ReplaceUserRoles, TypeOK, Account, Revoked
<1>11. CASE DeleteUser(r)
  BY <1>1, <1>2, <1>11, EndType DEF DeleteUser, TypeOK, Account, Revoked
<1>12. CASE CreateUser(r)
  <2>1. \A password \in {0, 1} :
          [credential EXCEPT ![p.user].password = password] \in [Users -> Hash]
    BY <1>1, <1>2, PasswordAssumption DEF TypeOK, Hash
  <2>2. [account EXCEPT ![p.user] = [status |-> "active", roles |-> p.roles]]
          \in [Users -> Account]
    BY <1>1 DEF TypeOK, Account
  <2>3. account' \in [Users -> Account] /\ credential' \in [Users -> Hash]
    BY <1>12, <2>1, <2>2 DEF CreateUser, TypeOK
  <2> QED BY <1>12, <2>3, EndType DEF CreateUser, TypeOK
<1>13. CASE ResetLocalPassword(r)
  <2>1. credential' \in [Users -> Hash]
    <3>1. credential[p.user].password + 1 > MaxPassword
            \/ credential[p.user].password + 1 <= MaxPassword
      BY <1>2, PasswordAssumption DEF Hash
    <3> QED BY <1>13, <1>renew, <3>1 DEF ResetLocalPassword, TypeOK
  <2> QED BY <1>13, <2>1, EndType DEF ResetLocalPassword, TypeOK, Revoked
<1>14. CASE OpenLocalSession(r)
  <2>1. [credential EXCEPT ![p.user] = [p.hash EXCEPT !.old = FALSE]] \in [Users -> Hash]
    BY <1>1, <1>4 DEF TypeOK, Hash
  <2>2. credential' \in [Users -> Hash] /\ sessions' \subseteq Session
    BY <1>4, <1>14, <2>1 DEF OpenLocalSession, TypeOK
  <2> QED BY <1>14, <2>2, EndType DEF OpenLocalSession, TypeOK
<1>15. CASE ChangeLocalPassword(r)
  <2>1. credential' \in [Users -> Hash]
    BY <1>2, <1>15, <1>renew, PasswordAssumption DEF ChangeLocalPassword, TypeOK, Hash
  <2>2. credential[p.user].password + 1 <= MaxPassword
          => OpenedFor(p.user, credential[p.user].password + 1) \in Session
    BY <1>1, <1>2, PasswordAssumption DEF OpenedFor, Session, Account, Hash
  <2>3. sessions' \subseteq Session
    BY <1>15, <2>2 DEF ChangeLocalPassword, TypeOK, Revoked
  <2> QED BY <1>15, <2>1, <2>3, EndType DEF ChangeLocalPassword, TypeOK
<1>16. CASE SyncOidcUser(r)
  <2>1. Provisioned(p.user) \in Request
    BY <1>1 DEF Provisioned, Request, Operations, Steps
  <2>2. CASE Gone(p.user)
    BY <1>16, <2>2, EndType DEF SyncOidcUser, TypeOK
  <2>3. CASE ~Gone(p.user)
    <3>1. /\ account' = IF RolesChanged(r)
                        THEN [account EXCEPT ![p.user].roles = p.roles] ELSE account
          /\ linked' = linked \cup {p.user}
          /\ blindSync' \in BOOLEAN
          /\ Unlock(r)
          /\ request' = [request EXCEPT ![r] = Provisioned(p.user)]
          /\ UNCHANGED <<credential, sessions>>
      BY <1>16, <2>3 DEF SyncOidcUser
    <3>2. [account EXCEPT ![p.user].roles = p.roles] \in [Users -> Account]
      BY <1>1, <1>2 DEF TypeOK, Account
    <3> QED BY <1>1, <2>1, <3>1, <3>2 DEF TypeOK, Unlock
  <2> QED BY <2>2, <2>3
<1>17. CASE OpenSsoSession(r)
  BY <1>1, <1>4, <1>17, EndType DEF OpenSsoSession, TypeOK
<1>18. CASE Abort(r)
  BY <1>18, EndType DEF Abort, TypeOK, tables
<1> QED BY <1>5, <1>6, <1>7, <1>8, <1>9, <1>10, <1>11, <1>12, <1>13, <1>14, <1>15, <1>16,
            <1>17, <1>18 DEF Work

-----------------------------------------------------------------------------
\* The steps keep the admin invariant: what a request asks for ...
LEMMA AskSound ==
    ASSUME AdminInv, NEW r \in Requests, TypeOK',
           AskChange(r) \/ AskCreate(r) \/ AskLogin(r) \/ AskNewPassword(r)
    PROVE  Frame(r) /\ Lawful(r) /\ Sound(r)'
<1>1. Idle \in Request
  BY IdleType
<1>2. UNCHANGED <<account, locks, blindSync>> /\ request[r].step = "idle"
  BY DEF AskChange, AskCreate, AskLogin, AskNewPassword, Begin, tables
<1>3. Lawful(r)
  BY <1>2, UntouchedIsLawful
<1>4. request'[r] \in Request /\ request' = [request EXCEPT ![r] = request'[r]]
  BY DEF AskChange, AskCreate, AskLogin, AskNewPassword, Begin, TypeOK, AdminInv
<1>5. ASSUME NEW op, NEW step, NEW u, NEW by, NEW roles, Begin(r, op, step, u, by, roles)
      PROVE  /\ request'[r].op = op /\ request'[r].step = step
             /\ request'[r].user = u /\ request'[r].roles = roles
  BY <1>1, <1>5 DEF Begin, TypeOK, AdminInv, Request
<1>6. CASE AskChange(r)
  <2> PICK by \in Managers, u \in Users :
        /\ account[u].status # "absent"
        /\ \/ Begin(r, "disable", "check", u, u, {})
           \/ Begin(r, "enable", "apply", u, u, {})
           \/ \E roles \in GrantedRoles :
                Begin(r, "roles", IF Admin \in roles THEN "lock" ELSE "check", u, by, roles)
           \/ Begin(r, "delete", "check", u, u, {})
           \/ Begin(r, "reset", "save", u, u, {})
    BY <1>6 DEF AskChange
  <2>1. /\ account[request'[r].user].status # "absent"
        /\ \/ request'[r].op \in {"disable", "delete"} /\ request'[r].step = "check"
           \/ request'[r].op = "enable" /\ request'[r].step = "apply"
           \/ /\ request'[r].op = "roles"
              /\ request'[r].step = IF Admin \in request'[r].roles THEN "lock" ELSE "check"
           \/ request'[r].op = "reset" /\ request'[r].step = "save"
    BY <1>5
  <2> QED BY <1>2, <1>3, <1>4, <2>1, BeginSound DEF Removes
<1>7. CASE AskCreate(r)
  <2>1. request'[r].op = "create" /\ request'[r].step = "create"
    BY <1>5, <1>7 DEF AskCreate
  <2> QED BY <1>2, <1>3, <1>4, <2>1, BeginSound
<1>8. CASE AskLogin(r)
  <2>1. /\ request'[r].op = "login" /\ request'[r].step = "open"
        /\ account[request'[r].user].status # "absent"
    <3> PICK u \in Users :
          /\ Active(u)
          /\ request' = [request EXCEPT ![r] = [Idle EXCEPT !.op = "login", !.step = "open",
                                                  !.user = u, !.hash = credential[u]]]
      BY <1>8 DEF AskLogin
    <3>1. request'[r] = [Idle EXCEPT !.op = "login", !.step = "open",
                                     !.user = u, !.hash = credential[u]]
      BY DEF TypeOK, AdminInv
    <3>2. request'[r].op = "login" /\ request'[r].step = "open" /\ request'[r].user = u
      BY <1>1, <3>1 DEF Request
    <3> QED BY <3>2 DEF Active
  <2> QED BY <1>2, <1>3, <1>4, <2>1, BeginSound
<1>9. CASE AskNewPassword(r)
  <2>1. /\ request'[r].op = "change" /\ request'[r].step = "save"
        /\ request'[r].user \in {s.user : s \in sessions}
    <3> PICK s \in sessions :
          request' = [request EXCEPT ![r] = [Idle EXCEPT !.op = "change", !.step = "save",
                                              !.user = s.user, !.hash = credential[s.user]]]
      BY <1>9 DEF AskNewPassword
    <3>1. request'[r] = [Idle EXCEPT !.op = "change", !.step = "save",
                                     !.user = s.user, !.hash = credential[s.user]]
      BY DEF TypeOK, AdminInv
    <3>2. /\ request'[r].op = "change" /\ request'[r].step = "save"
          /\ request'[r].user = s.user
      BY <1>1, <3>1 DEF Request
    <3> QED BY <3>2
  <2> QED BY <1>2, <1>3, <1>4, <2>1, BeginSound DEF AdminInv, NoSessionOutlivesDisabling, Active
<1> QED BY <1>6, <1>7, <1>8, <1>9

\* ... a login by SSO that finds or makes its user ...
LEMMA SyncSound ==
    ASSUME AdminInv, NEW r \in Requests, TypeOK',
           FindLinked(r) \/ FindByEmail(r) \/ CreateJitUser(r)
    PROVE  Frame(r) /\ Lawful(r) /\ Sound(r)'
<1>1. request[r].step = "idle" /\ Idle \in Request
  BY IdleType DEF FindLinked, FindByEmail, CreateJitUser
<1>2. adminLock # r /\ \A u \in Users : rowLock[u] # r
  BY <1>1 DEF AdminInv, Sound, Locked
<1>3. ASSUME NEW u \in Users, NEW roles, ReadBefore(r, u, roles)
      PROVE  /\ request'[r].op = "sync" /\ request'[r].user = u
             /\ request'[r].roles = roles /\ request'[r].before = account[u].roles
             /\ request'[r].step =
                  IF ManagedRoles # {} /\ Admin \in account[u].roles /\ Admin \notin roles
                  THEN "check" ELSE "apply"
             /\ request'[r] \in Request
             /\ request' = [request EXCEPT ![r] = request'[r]]
  <2>1. request'[r] = [Idle EXCEPT !.op = "sync", !.user = u, !.by = u, !.roles = roles,
                         !.before = account[u].roles,
                         !.step = IF ManagedRoles # {} /\ Admin \in account[u].roles
                                     /\ Admin \notin roles
                                  THEN "check" ELSE "apply"]
    BY <1>1, <1>3 DEF ReadBefore, TypeOK, AdminInv, Request
  <2>2. request'[r] \in Request /\ request' = [request EXCEPT ![r] = request'[r]]
    BY <1>3 DEF ReadBefore, TypeOK, AdminInv
  <2> QED BY <1>1, <2>1, <2>2 DEF Request
<1>4. CASE FindLinked(r)
  <2> PICK u \in linked, roles \in RolesOfGroups :
        /\ Active(u) /\ ReadBefore(r, u, roles)
        /\ UNCHANGED <<tables, locks, blindSync>>
    BY <1>4 DEF FindLinked
  <2>1. u \in Users
    BY DEF AdminInv, TypeOK
  <2>2. UNCHANGED <<account, locks, blindSync>>
    BY DEF tables
  <2>3. account[request'[r].user].status # "absent"
    BY <1>3, <2>1 DEF Active
  <2> QED BY <1>1, <1>3, <2>1, <2>2, <2>3, BeginSound, UntouchedIsLawful DEF Removes
<1>5. CASE FindByEmail(r)
  <2> PICK u \in SsoUsers, roles \in RolesOfGroups :
        /\ Lockable(r, u) /\ Active(u) /\ account[u].roles \subseteq {Viewer}
        /\ rowLock' = [rowLock EXCEPT ![u] = r]
        /\ ReadBefore(r, u, roles)
        /\ UNCHANGED <<tables, adminLock, blindSync>>
    BY <1>5 DEF FindByEmail
  <2>1. u \in Users /\ Admin \notin account[u].roles
    BY SsoAssumption, RolesAssumption
  <2>2. Lawful(r)
    BY UntouchedIsLawful DEF tables
  <2>3. Frame(r)
    BY <1>2, <1>3, <2>1, RequestsAssumption DEF Frame, Lockable, AdminInv, TypeOK
  <2>4. /\ request'[r].step = "apply" /\ request'[r].op = "sync" /\ request'[r].user = u
        /\ ~Removes(request'[r])
    BY <1>3, <2>1 DEF Removes
  <2>5. /\ adminLock' # r /\ account'[u].status = "active"
        /\ \A v \in Users : rowLock'[v] = r <=> v = u
    BY <1>2, <2>1 DEF AdminInv, TypeOK, tables, Active
  <2> QED BY <2>1, <2>2, <2>3, <2>4, <2>5 DEF Sound, InPlace, Locked, LeavesOne, Removes
<1>6. CASE CreateJitUser(r)
  <2> PICK u \in SsoUsers, roles \in IF ManagedRoles = {} THEN {{Viewer}} ELSE ManagedRoles :
        /\ account[u].status = "absent"
        /\ account' = [account EXCEPT ![u] = [status |-> "active", roles |-> roles]]
        /\ request' = [request EXCEPT ![r] = Provisioned(u)]
        /\ UNCHANGED <<credential, sessions, locks, blindSync>>
    BY <1>6 DEF CreateJitUser
  <2>1. u \in Users
    BY SsoAssumption
  <2>2. \A q \in Requests : rowLock[u] # q
    BY <2>1 DEF AdminInv, Sound, InPlace, Locked, Removes
  <2>3. /\ account'[u].status = "active"
        /\ \A v \in Users \ {u} : account'[v] = account[v]
    BY <2>1 DEF AdminInv, TypeOK
  <2>4. Lawful(r)
    BY <2>1, <2>2, <2>3 DEF Lawful, ActiveAdmins, Active
  <2>5. /\ request'[r].step = "session" /\ request'[r].op = "sync" /\ request'[r].user = u
        /\ \A q \in Requests \ {r} : request'[q] = request[q]
    BY <1>1 DEF Provisioned, AdminInv, TypeOK, Request
  <2>6. adminLock' # r /\ \A v \in Users : rowLock'[v] # r
    BY <1>2 DEF locks
  <2> QED BY <2>1, <2>3, <2>4, <2>5, <2>6 DEF Frame, Sound, InPlace, Locked, LeavesOne, locks
<1> QED BY <1>4, <1>5, <1>6

\* ... the check of assertAdminRemovalAllowed and the locks ...
LEMMA CheckSound ==
    ASSUME AdminInv, NEW r \in Requests, TypeOK',
           LockAdmins(r) \/ LockTarget(r) \/ CountAdmins(r) \/ LockUser(r)
    PROVE  Frame(r) /\ Lawful(r) /\ Sound(r)'
<1> DEFINE p == request[r]
           u == p.user
<1>1. p \in Request /\ u \in Users /\ InPlace(r) /\ Locked(r) /\ (blindSync \/ LeavesOne(r))
  BY DEF AdminInv, TypeOK, Request, Sound
<1>2. Lawful(r)
  BY UntouchedIsLawful DEF LockAdmins, LockTarget, CountAdmins, LockUser, tables
<1>3. ASSUME NEW q \in Requests \ {r}
      PROVE  request'[q] = request[q]
  BY DEF LockAdmins, LockTarget, CountAdmins, LockUser, End, Goto, AdminInv, TypeOK
<1>4. \A step \in Steps : Goto(r, step) =>
        /\ request'[r].step = step /\ request'[r].op = p.op /\ request'[r].user = u
        /\ request'[r].admin = p.admin
        /\ Removes(request'[r]) <=> Removes(p)
  BY <1>1 DEF Goto, AdminInv, TypeOK, Request, Removes
<1>5. CASE LockAdmins(r)
  <2>1. /\ request'[r].step = "row" /\ request'[r].op = p.op /\ request'[r].user = u
        /\ ~request'[r].admin => Admin \notin account[u].roles
        /\ Removes(request'[r]) <=> Removes(p)
    BY <1>1, <1>5 DEF LockAdmins, AdminInv, TypeOK, Request, Removes
  <2>2. /\ adminLock = Free /\ adminLock' = r /\ p.step = "check"
        /\ rowLock' = rowLock /\ account' = account /\ blindSync' = blindSync
    BY <1>5 DEF LockAdmins, tables
  <2>3. Frame(r)
    BY <1>3, <2>2, RequestsAssumption DEF Frame
  <2>4. Admin \notin account[u].roles => u \notin ActiveAdmins
    BY DEF ActiveAdmins
  <2>5. blindSync \/ (~request'[r].admin => OtherAdmin(u))
    BY <2>1, <2>4 DEF AdminInv, LastAdminOnlyLostBlindly, OtherAdmin
  <2>6. OtherAdmin(u)' <=> OtherAdmin(u)
    BY <2>1, <2>2 DEF OtherAdmin, ActiveAdmins, Active
  <2>7. InPlace(r)' /\ Locked(r)'
    BY <1>1, <2>1, <2>2 DEF InPlace, Locked
  <2>8. (blindSync \/ LeavesOne(r))'
    BY <2>1, <2>2, <2>5, <2>6 DEF LeavesOne
  <2> QED BY <1>2, <2>3, <2>7, <2>8 DEF Sound
<1>6. CASE LockTarget(r)
  <2>1. /\ request'[r].step = IF Active(u) /\ p.admin THEN "count" ELSE "apply"
        /\ request'[r].op = p.op /\ request'[r].user = u
        /\ Removes(request'[r]) <=> Removes(p)
    BY <1>1, <1>6 DEF LockTarget, AdminInv, TypeOK, Request, Removes
  <2>2. /\ p.step = "row" /\ adminLock = r /\ adminLock' = r
        /\ account' = account /\ blindSync' = blindSync
        /\ Gone(u) \/ Lockable(r, u)
        /\ rowLock' = IF Gone(u) THEN rowLock ELSE [rowLock EXCEPT ![u] = r]
    BY <1>1, <1>6 DEF LockTarget, tables, Locked
  <2>3. \A v \in Users : rowLock[v] # r
    BY <1>1, <2>2 DEF Locked
  <2>4. Frame(r)
    BY <1>1, <1>3, <2>2, RequestsAssumption DEF Frame, Lockable, AdminInv, TypeOK
  <2>5. Removes(p) /\ account[u].status # "absent"
    BY <1>1, <2>2 DEF InPlace, Removes
  <2>6. (Gone(u) => account[u].status = "deleted") /\ (Active(u) => ~Gone(u))
    BY <2>5 DEF Gone, Active
  <2>7. \A v \in Users : rowLock'[v] = r <=> v = u /\ ~Gone(u)
    BY <1>1, <2>2, <2>3 DEF AdminInv, TypeOK
  <2>8. InPlace(r)'
    BY <1>1, <2>1, <2>2, <2>5 DEF InPlace, Removes
  <2>9. Locked(r)'
    BY <1>1, <2>1, <2>2, <2>5, <2>6, <2>7 DEF Locked, Removes
  <2>10. u \in ActiveAdmins => Active(u)
    BY DEF ActiveAdmins
  <2>11. blindSync \/ (u \in ActiveAdmins /\ ~p.admin => OtherAdmin(u))
    BY <1>1, <2>2 DEF LeavesOne
  <2>12. (OtherAdmin(u)' <=> OtherAdmin(u)) /\ ActiveAdmins' = ActiveAdmins
    BY <2>1, <2>2 DEF OtherAdmin, ActiveAdmins, Active
  <2>13. (blindSync \/ LeavesOne(r))'
    BY <2>1, <2>2, <2>10, <2>11, <2>12 DEF LeavesOne
  <2> QED BY <1>2, <2>4, <2>8, <2>9, <2>13 DEF Sound
<1>7. CASE CountAdmins(r)
  <2>1. CASE End(r)
    BY <1>2, <2>1, EndSound DEF AdminInv
  <2>2. CASE ~End(r)
    <3>1. /\ ~(Cardinality(ActiveAdmins) <= 1) /\ Goto(r, "apply") /\ p.step = "count"
          /\ UNCHANGED <<locks, account, blindSync>>
      BY <1>7, <2>2 DEF CountAdmins, tables
    <3>2. OtherAdmin(u)
      <4>1. ASSUME ActiveAdmins \subseteq {u} PROVE FALSE
        <5>1. IsFiniteSet({u}) /\ Cardinality({u}) = 1
          BY FS_Singleton
        <5>2. Cardinality(ActiveAdmins) <= 1
          BY <4>1, <5>1, FS_Subset
        <5> QED BY <3>1, <5>2
      <4> QED BY <4>1 DEF OtherAdmin
    <3>3. /\ request'[r].step = "apply" /\ request'[r].op = p.op /\ request'[r].user = u
          /\ Removes(request'[r]) <=> Removes(p)
      BY <1>4, <3>1 DEF Steps
    <3>4. OtherAdmin(u)' /\ Frame(r)
      BY <1>3, <3>1, <3>2, <3>3 DEF OtherAdmin, ActiveAdmins, Active, Frame, locks
    <3>5. Sound(r)'
      BY <1>1, <3>1, <3>3, <3>4 DEF Sound, InPlace, Locked, LeavesOne, locks, Removes
    <3> QED BY <1>2, <3>4, <3>5
  <2> QED BY <2>1, <2>2
<1>8. CASE LockUser(r)
  <2>1. CASE End(r)
    BY <1>2, <2>1, EndSound DEF AdminInv
  <2>2. CASE ~End(r)
    <3>1. /\ p.step = "lock" /\ ~Gone(u) /\ Lockable(r, u)
          /\ rowLock' = [rowLock EXCEPT ![u] = r]
          /\ Goto(r, "apply")
          /\ UNCHANGED <<adminLock, account, blindSync>>
      BY <1>8, <2>2 DEF LockUser, tables
    <3>2. /\ request'[r].step = "apply" /\ request'[r].op = p.op /\ request'[r].user = u
          /\ Removes(request'[r]) <=> Removes(p)
      BY <1>4, <3>1 DEF Steps
    <3>3. p.op = "roles" /\ ~Removes(p) /\ adminLock # r /\ \A v \in Users : rowLock[v] # r
      BY <1>1, <3>1 DEF InPlace, Locked
    <3>4. Frame(r)
      BY <1>1, <1>3, <3>1, RequestsAssumption DEF Frame, Lockable, AdminInv, TypeOK
    <3>5. \A v \in Users : rowLock'[v] = r <=> v = u
      BY <1>1, <3>1, <3>3 DEF AdminInv, TypeOK
    <3>6. Sound(r)'
      BY <1>1, <3>1, <3>2, <3>3, <3>5 DEF Sound, InPlace, Locked, LeavesOne
    <3> QED BY <1>2, <3>4, <3>6
  <2> QED BY <2>1, <2>2
<1> QED BY <1>5, <1>6, <1>7, <1>8

\* What makes a change of one user lawful.
LEMMA ChangeIsLawful ==
    ASSUME AdminInv, NEW r \in Requests, NEW x,
           account' = [account EXCEPT ![request[r].user] = x],
           x.status # "absent",
           account[request[r].user].status # "deleted",
           \A q \in Requests \ {r} : rowLock[request[r].user] # q,
           blindSync => blindSync',
           \/ blindSync'
           \/ request[r].user \in ActiveAdmins /\ ~(x.status = "active" /\ Admin \in x.roles)
                => adminLock = r /\ OtherAdmin(request[r].user)
    PROVE  Lawful(r)
<1> DEFINE u == request[r].user
<1>1. /\ u \in Users /\ account'[u] = x
      /\ \A v \in Users \ {u} : account'[v] = account[v]
  BY DEF AdminInv, TypeOK, Request
<1>2. \A a \in ActiveAdmins : a \notin ActiveAdmins' =>
        a = u /\ ~(x.status = "active" /\ Admin \in x.roles)
  BY <1>1 DEF ActiveAdmins, Active
<1> QED BY <1>1, <1>2 DEF Lawful

\* ... and the changes.
LEMMA ChangeSound ==
    ASSUME AdminInv, NEW r \in Requests, TypeOK',
           \/ UpdateStatus(r) \/ ReplaceUserRoles(r) \/ DeleteUser(r) \/ CreateUser(r)
           \/ ResetLocalPassword(r) \/ OpenLocalSession(r) \/ ChangeLocalPassword(r)
           \/ OpenSsoSession(r) \/ Abort(r)
    PROVE  Frame(r) /\ Lawful(r) /\ Sound(r)'
<1> DEFINE p == request[r]
           u == p.user
<1>1. p \in Request /\ u \in Users /\ InPlace(r) /\ Locked(r) /\ (blindSync \/ LeavesOne(r))
  BY DEF AdminInv, TypeOK, Request, Sound
<1>2. Frame(r) /\ Sound(r)'
  <2>1. End(r)
    BY DEF UpdateStatus, ReplaceUserRoles, DeleteUser, CreateUser, ResetLocalPassword,
           OpenLocalSession, ChangeLocalPassword, OpenSsoSession, Abort
  <2> QED BY <2>1, EndSound DEF AdminInv
<1>3. blindSync' = blindSync
  BY DEF UpdateStatus, ReplaceUserRoles, DeleteUser, CreateUser, ResetLocalPassword,
         OpenLocalSession, ChangeLocalPassword, OpenSsoSession, Abort
<1>4. Lockable(r, u) \/ rowLock[u] = r => \A q \in Requests \ {r} : rowLock[u] # q
  BY RequestsAssumption DEF Lockable
<1>5. blindSync \/ (p.step = "apply" /\ Removes(p) /\ u \in ActiveAdmins
                      => adminLock = r /\ OtherAdmin(u))
  BY <1>1 DEF Locked, LeavesOne
<1>6. CASE account' = account
  BY <1>2, <1>3, <1>6, UntouchedIsLawful
<1>7. CASE account' # account
  <2>1. CASE UpdateStatus(r)
    <3> DEFINE status == IF p.op = "enable" THEN "active" ELSE "disabled"
    <3>1. /\ p.step = "apply" /\ p.op \in {"enable", "disable"}
          /\ ~Gone(u) /\ Lockable(r, u)
          /\ account' = [account EXCEPT ![u].status = status]
      BY <1>7, <2>1 DEF UpdateStatus
    <3>2. account' = [account EXCEPT ![u] = [account[u] EXCEPT !.status = status]]
      BY <3>1
    <3>3. account[u] \in Account
      BY <1>1 DEF AdminInv, TypeOK
    <3>4. /\ [account[u] EXCEPT !.status = status].status = status
          /\ [account[u] EXCEPT !.status = status].roles = account[u].roles
      BY <3>3 DEF Account
    <3>5. status = "active" \/ Removes(p)
      BY <3>1 DEF Removes
    <3>6. u \in ActiveAdmins => Admin \in account[u].roles
      BY DEF ActiveAdmins
    <3> DEFINE x == [account[u] EXCEPT !.status = status]
    <3>7. x.status # "absent" /\ account[u].status # "deleted" /\ (blindSync => blindSync')
      BY <1>3, <3>1, <3>4 DEF Gone
    <3>8. \/ blindSync'
          \/ u \in ActiveAdmins /\ ~(x.status = "active" /\ Admin \in x.roles)
               => adminLock = r /\ OtherAdmin(u)
      BY <1>3, <1>5, <3>1, <3>4, <3>5, <3>6
    <3> HIDE DEF status
    <3>9. Lawful(r)
      BY <1>4, <3>1, <3>2, <3>7, <3>8, ChangeIsLawful
    <3> QED BY <1>2, <3>9
  <2>2. CASE ReplaceUserRoles(r)
    <3>1. /\ p.step = "apply" /\ p.op = "roles" /\ ~Gone(u)
          /\ account' = [account EXCEPT ![u].roles = p.roles]
      BY <1>7, <2>2 DEF ReplaceUserRoles
    <3>2. account' = [account EXCEPT ![u] = [account[u] EXCEPT !.roles = p.roles]]
      BY <3>1
    <3>3. account[u] \in Account
      BY <1>1 DEF AdminInv, TypeOK
    <3>4. /\ [account[u] EXCEPT !.roles = p.roles].status = account[u].status
          /\ [account[u] EXCEPT !.roles = p.roles].roles = p.roles
      BY <3>3 DEF Account
    <3>5. rowLock[u] = r
      BY <1>1, <3>1 DEF Locked, Gone
    <3>6. u \in ActiveAdmins => account[u].status = "active"
      BY DEF ActiveAdmins, Active
    <3> QED BY <1>2, <1>3, <1>4, <1>5, <3>1, <3>2, <3>4, <3>5, <3>6, ChangeIsLawful
            DEF Gone, Removes
  <2>3. CASE DeleteUser(r)
    <3>1. /\ p.step = "apply" /\ p.op = "delete" /\ ~Gone(u)
          /\ account' = [account EXCEPT ![u].status = "deleted"]
      BY <1>7, <2>3 DEF DeleteUser
    <3>2. account' = [account EXCEPT ![u] = [account[u] EXCEPT !.status = "deleted"]]
      BY <3>1
    <3>3. account[u] \in Account
      BY <1>1 DEF AdminInv, TypeOK
    <3>4. [account[u] EXCEPT !.status = "deleted"].status = "deleted"
      BY <3>3 DEF Account
    <3>5. rowLock[u] = r /\ Removes(p)
      BY <1>1, <3>1 DEF Locked, Gone, Removes
    <3> QED BY <1>2, <1>3, <1>4, <1>5, <3>1, <3>2, <3>4, <3>5, ChangeIsLawful DEF Gone
  <2>4. CASE CreateUser(r)
    <3>1. /\ account[u].status = "absent"
          /\ account' = [account EXCEPT ![u] = [status |-> "active", roles |-> p.roles]]
      BY <1>7, <2>4 DEF CreateUser
    <3>2. \A q \in Requests : rowLock[u] # q
      BY <1>1, <3>1 DEF AdminInv, Sound, InPlace, Locked, Removes
    <3>3. u \notin ActiveAdmins
      BY <3>1 DEF ActiveAdmins, Active
    <3>4. [status |-> "active", roles |-> p.roles].status = "active"
      OBVIOUS
    <3> HIDE DEF u
    <3>5. Lawful(r)
      BY <1>3, <3>1, <3>2, <3>3, <3>4, ChangeIsLawful DEF u
    <3> QED BY <1>2, <3>5
  <2>5. CASE \/ ResetLocalPassword(r) \/ OpenLocalSession(r) \/ ChangeLocalPassword(r)
             \/ OpenSsoSession(r) \/ Abort(r)
    BY <1>7, <2>5 DEF ResetLocalPassword, OpenLocalSession, ChangeLocalPassword,
                      OpenSsoSession, Abort, tables
  <2> QED BY <2>1, <2>2, <2>3, <2>4, <2>5
<1> QED BY <1>6, <1>7

\* A sync takes the admin role away after the check, or blindly.
LEMMA SyncUserSound ==
    ASSUME AdminInv, NEW r \in Requests, TypeOK', SyncOidcUser(r)
    PROVE  Frame(r) /\ Lawful(r) /\ Sound(r)'
<1> DEFINE p == request[r]
           u == p.user
<1>1. /\ p \in Request /\ u \in Users /\ InPlace(r) /\ Locked(r) /\ (blindSync \/ LeavesOne(r))
      /\ account[u] \in Account
  BY DEF AdminInv, TypeOK, Request, Sound
<1>2. CASE Gone(u)
  <2>1. End(r) /\ UNCHANGED <<account, blindSync>>
    BY <1>2 DEF SyncOidcUser
  <2> QED BY <2>1, EndSound, UntouchedIsLawful DEF AdminInv
<1>3. CASE ~Gone(u)
  <2>1. /\ p.step = "apply" /\ p.op = "sync" /\ Lockable(r, u)
        /\ account' = IF RolesChanged(r) THEN [account EXCEPT ![u].roles = p.roles] ELSE account
        /\ blindSync' = (blindSync \/ (RolesChanged(r) /\ account[u].roles # p.before))
        /\ Unlock(r)
        /\ request' = [request EXCEPT ![r] = Provisioned(u)]
    BY <1>3 DEF SyncOidcUser
  <2>2. /\ request'[r].step = "session" /\ request'[r].op = "sync" /\ request'[r].user = u
        /\ \A q \in Requests \ {r} : request'[q] = request[q]
    BY <2>1, IdleType DEF Provisioned, AdminInv, TypeOK, Request
  <2>3. Frame(r) /\ adminLock' # r /\ \A v \in Users : rowLock'[v] # r
    BY <2>1, <2>2, RequestsAssumption DEF Frame, Unlock, AdminInv, TypeOK
  <2>4. account'[u].status = account[u].status
    <3>1. [account[u] EXCEPT !.roles = p.roles].status = account[u].status
      BY <1>1 DEF Account
    <3>2. account' = account \/ account' = [account EXCEPT ![u] = [account[u] EXCEPT !.roles = p.roles]]
      BY <2>1
    <3> QED BY <1>1, <3>1, <3>2 DEF AdminInv, TypeOK
  <2>5. Sound(r)'
    <3>1. account'[u].status # "absent"
      BY <1>3, <2>4 DEF Gone
    <3>2. InPlace(r)'
      BY <2>2, <3>1 DEF InPlace
    <3>3. Locked(r)'
      BY <2>2, <2>3 DEF Locked
    <3>4. LeavesOne(r)'
      BY <2>2 DEF LeavesOne
    <3> QED BY <3>2, <3>3, <3>4 DEF Sound
  <2>6. CASE ~RolesChanged(r)
    <3>1. blindSync \in BOOLEAN
      BY DEF AdminInv, TypeOK
    <3>2. account' = account /\ blindSync' = blindSync
      BY <2>1, <2>6, <3>1
    <3> QED BY <2>3, <2>5, <3>2, UntouchedIsLawful
  <2>7. CASE RolesChanged(r)
    <3> DEFINE x == [account[u] EXCEPT !.roles = p.roles]
    <3>1. account' = [account EXCEPT ![u] = x] /\ x.status = account[u].status /\ x.roles = p.roles
      BY <1>1, <2>1, <2>7 DEF Account
    <3>2. blindSync \/ (Removes(p) /\ u \in ActiveAdmins => adminLock = r /\ OtherAdmin(u))
      BY <1>1, <2>1 DEF Locked, LeavesOne
    <3>3. u \in ActiveAdmins => Admin \in account[u].roles /\ account[u].status = "active"
      BY DEF ActiveAdmins, Active
    <3>4. \/ blindSync'
          \/ u \in ActiveAdmins /\ Admin \notin p.roles => Removes(p)
      BY <2>1, <2>7, <3>3 DEF RolesChanged, Removes
    <3>5. \A q \in Requests \ {r} : rowLock[u] # q
      BY <2>1, RequestsAssumption DEF Lockable
    <3>6. x.status # "absent" /\ account[u].status # "deleted" /\ (blindSync => blindSync')
      BY <1>3, <2>1, <3>1 DEF Gone
    <3>7. \/ blindSync'
          \/ u \in ActiveAdmins /\ ~(x.status = "active" /\ Admin \in x.roles)
               => adminLock = r /\ OtherAdmin(u)
      BY <2>1, <3>1, <3>2, <3>3, <3>4
    <3>8. Lawful(r)
      BY <3>1, <3>5, <3>6, <3>7, ChangeIsLawful
    <3> QED BY <2>3, <2>5, <3>8
  <2> QED BY <2>6, <2>7
<1> QED BY <1>2, <1>3

-----------------------------------------------------------------------------
(* Sessions                                                                 *)

SessionInv == NoSessionOutlivesDisabling /\ OldPasswordOpensNothing /\ RoleChangeEndsSessions

\* A session that was there, of a user the step does not cut it off from.
Stays(s) ==
    LET u == s.user
    IN  /\ s \in sessions
        /\ account'[u].status = account[u].status
        /\ credential'[u].password = credential[u].password
        /\ u \notin linked' => u \notin linked /\ account'[u].roles = account[u].roles

\* A session the step opens, on what it leaves in the tables.
Opens(s) ==
    LET u == s.user
    IN  /\ account'[u].status = "active"
        /\ s.password # 0 => s.password = credential'[u].password
        /\ s.roles = account'[u].roles

LEMMA SessionsHold ==
    ASSUME SessionInv, \A s \in sessions' : Stays(s) \/ Opens(s)
    PROVE  SessionInv'
<1>1. NoSessionOutlivesDisabling'
  BY DEF SessionInv, NoSessionOutlivesDisabling, Stays, Opens, Active
<1>2. OldPasswordOpensNothing'
  BY DEF SessionInv, OldPasswordOpensNothing, Stays, Opens
<1>3. RoleChangeEndsSessions'
  BY DEF SessionInv, RoleChangeEndsSessions, Stays, Opens
<1> QED BY <1>1, <1>2, <1>3 DEF SessionInv

\* A step on the row of one user leaves the sessions of the others.
LEMMA OthersStay ==
    ASSUME TypeOK, NEW u \in Users,
           \A v \in Users \ {u} : account'[v] = account[v] /\ credential'[v] = credential[v],
           linked' \in {linked, linked \cup {u}}
    PROVE  \A s \in sessions : s.user # u => Stays(s)
BY DEF TypeOK, Session, Stays

LEMMA SessionStep ==
    ASSUME TypeOK, SessionInv, NEW r \in Requests, Ask(r) \/ Work(r) \/ Abort(r)
    PROVE  SessionInv'
<1> DEFINE p == request[r]
           u == p.user
<1>1. u \in Users /\ account[u] \in Account /\ credential[u] \in Hash
  BY DEF TypeOK, Request
<1>2. CASE UNCHANGED <<account, credential, linked>> /\ sessions' \subseteq sessions
  BY <1>2, SessionsHold DEF Stays
<1>3. CASE UpdateStatus(r) \/ ReplaceUserRoles(r) \/ DeleteUser(r)
  <2>1. /\ UNCHANGED <<credential, linked>>
        /\ \A v \in Users \ {u} : account'[v] = account[v]
    BY <1>3 DEF UpdateStatus, ReplaceUserRoles, DeleteUser, TypeOK
  <2>2. account'[u] = account[u] \/ sessions' = Revoked(u)
          \/ (account[u].status # "active" /\ sessions' = sessions)
    BY <1>3 DEF UpdateStatus, ReplaceUserRoles, DeleteUser, Gone, TypeOK
  <2>3. sessions' \subseteq sessions
    BY <1>3 DEF UpdateStatus, ReplaceUserRoles, DeleteUser, Revoked
  <2>4. ASSUME NEW s \in sessions'
        PROVE  Stays(s)
    <3>1. CASE s.user # u
      BY <1>1, <2>1, <2>3, <3>1, OthersStay
    <3>2. CASE s.user = u
      <4>1. account'[u] = account[u]
        BY <2>2, <2>3, <3>2 DEF Revoked, SessionInv, NoSessionOutlivesDisabling, Active
      <4> QED BY <2>1, <2>3, <3>2, <4>1 DEF Stays
    <3> QED BY <3>1, <3>2
  <2> QED BY <2>4, SessionsHold
<1>4. CASE CreateUser(r)
  <2>1. CASE account[u].status = "absent"
    <3>1. /\ \A v \in Users \ {u} : account'[v] = account[v] /\ credential'[v] = credential[v]
          /\ linked' = linked /\ sessions' = sessions
      BY <1>4, <2>1 DEF CreateUser, TypeOK
    <3>2. \A s \in sessions : s.user # u
      BY <2>1 DEF SessionInv, NoSessionOutlivesDisabling, Active
    <3> QED BY <1>1, <3>1, <3>2, OthersStay, SessionsHold
  <2>2. CASE account[u].status # "absent"
    BY <1>2, <1>4, <2>2 DEF CreateUser
  <2> QED BY <2>1, <2>2
<1>5. CASE ResetLocalPassword(r)
  <2>1. CASE UNCHANGED <<credential, sessions>>
    BY <1>2, <1>5, <2>1 DEF ResetLocalPassword
  <2>2. CASE ~UNCHANGED <<credential, sessions>>
    <3>1. /\ \A v \in Users \ {u} : account'[v] = account[v] /\ credential'[v] = credential[v]
          /\ linked' = linked /\ sessions' = Revoked(u)
      BY <1>5, <2>2 DEF ResetLocalPassword, TypeOK
    <3> QED BY <1>1, <3>1, OthersStay, SessionsHold DEF Revoked
  <2> QED BY <2>1, <2>2
<1>6. CASE OpenLocalSession(r)
  <2>1. CASE UNCHANGED <<credential, sessions>>
    BY <1>2, <1>6, <2>1 DEF OpenLocalSession
  <2>2. CASE ~UNCHANGED <<credential, sessions>>
    <3> DEFINE new == OpenedFor(u, credential[u].password)
    <3>1. /\ Active(u) /\ account' = account /\ linked' = linked
          /\ credential' = [credential EXCEPT ![u] = [credential[u] EXCEPT !.old = FALSE]]
          /\ sessions' = sessions \cup {new}
      BY <1>6, <2>2 DEF OpenLocalSession, PasswordUnchanged
    <3>2. \A v \in Users : credential'[v].password = credential[v].password
      BY <3>1 DEF TypeOK, Hash
    <3>3. \A s \in sessions : Stays(s)
      BY <3>1, <3>2 DEF Stays, TypeOK, Session
    <3>4. new.user = u /\ new.password = credential[u].password /\ new.roles = account[u].roles
      BY DEF OpenedFor
    <3>5. Opens(new)
      BY <1>1, <3>1, <3>2, <3>4 DEF Opens, Active
    <3> QED BY <3>1, <3>3, <3>5, SessionsHold
  <2> QED BY <2>1, <2>2
<1>7. CASE ChangeLocalPassword(r)
  <2>1. CASE UNCHANGED <<credential, sessions>>
    BY <1>2, <1>7, <2>1 DEF ChangeLocalPassword
  <2>2. CASE ~UNCHANGED <<credential, sessions>>
    <3> DEFINE password == credential[u].password + 1
               new == OpenedFor(u, password)
    <3>1. /\ Active(u) /\ account' = account /\ linked' = linked
          /\ credential' = [credential EXCEPT ![u] = [password |-> password, old |-> FALSE]]
          /\ sessions' = Revoked(u) \cup {new}
      BY <1>7, <2>2 DEF ChangeLocalPassword, PasswordUnchanged
    <3>2. /\ credential'[u].password = password
          /\ \A v \in Users \ {u} : credential'[v] = credential[v]
      BY <1>1, <3>1 DEF TypeOK
    <3>3. \A s \in Revoked(u) : Stays(s)
      BY <1>1, <3>1, <3>2, OthersStay DEF Revoked
    <3>4. new.user = u /\ new.password = password /\ new.roles = account[u].roles
      BY DEF OpenedFor
    <3>5. Opens(new)
      BY <3>1, <3>2, <3>4 DEF Opens, Active
    <3> QED BY <3>1, <3>3, <3>5, SessionsHold
  <2> QED BY <2>1, <2>2
<1>8. CASE CreateJitUser(r)
  <2> PICK v \in SsoUsers, roles \in IF ManagedRoles = {} THEN {{Viewer}} ELSE ManagedRoles :
        /\ account[v].status = "absent"
        /\ account' = [account EXCEPT ![v] = [status |-> "active", roles |-> roles]]
        /\ linked' = linked \cup {v}
        /\ UNCHANGED <<credential, sessions>>
    BY <1>8 DEF CreateJitUser
  <2>1. v \in Users /\ \A w \in Users \ {v} : account'[w] = account[w]
    BY SsoAssumption DEF TypeOK
  <2>2. \A s \in sessions : s.user # v
    BY DEF SessionInv, NoSessionOutlivesDisabling, Active
  <2> QED BY <2>1, <2>2, OthersStay, SessionsHold
<1>9. CASE SyncOidcUser(r)
  <2>1. CASE Gone(u)
    BY <1>2, <1>9, <2>1 DEF SyncOidcUser
  <2>2. CASE ~Gone(u)
    <3>1. /\ account' = account \/ account' = [account EXCEPT ![u].roles = p.roles]
          /\ linked' = linked \cup {u} /\ UNCHANGED <<credential, sessions>>
      BY <1>9, <2>2 DEF SyncOidcUser
    <3>2. /\ \A v \in Users \ {u} : account'[v] = account[v]
          /\ account'[u].status = account[u].status
      BY <1>1, <3>1 DEF TypeOK, Account
    <3>3. \A s \in sessions : s.user = u => Stays(s)
      BY <3>1, <3>2 DEF Stays
    <3> QED BY <1>1, <3>1, <3>2, <3>3, OthersStay, SessionsHold
  <2> QED BY <2>1, <2>2
<1>10. CASE OpenSsoSession(r)
  <2>1. CASE ~Active(u)
    BY <1>2, <1>10, <2>1 DEF OpenSsoSession
  <2>2. CASE Active(u)
    <3> DEFINE new == OpenedFor(u, 0)
    <3>1. UNCHANGED <<account, linked, credential>> /\ sessions' = sessions \cup {new}
      BY <1>10, <2>2 DEF OpenSsoSession
    <3>2. new.user = u /\ new.password = 0 /\ new.roles = account[u].roles
      BY DEF OpenedFor
    <3>3. Opens(new) /\ \A s \in sessions : Stays(s)
      BY <2>2, <3>1, <3>2 DEF Opens, Stays, Active
    <3> QED BY <3>1, <3>3, SessionsHold
  <2> QED BY <2>1, <2>2
<1>11. CASE Abort(r) \/ LockAdmins(r) \/ LockTarget(r) \/ CountAdmins(r) \/ LockUser(r)
  BY <1>2, <1>11 DEF Abort, LockAdmins, LockTarget, CountAdmins, LockUser, tables
<1>12. CASE AskChange(r) \/ AskCreate(r) \/ AskLogin(r) \/ AskNewPassword(r)
            \/ FindLinked(r) \/ FindByEmail(r)
  BY <1>2, <1>12 DEF AskChange, AskCreate, AskLogin, AskNewPassword, FindLinked, FindByEmail,
                     Begin, tables
<1> QED BY <1>3, <1>4, <1>5, <1>6, <1>7, <1>8, <1>9, <1>10, <1>11, <1>12 DEF Ask, Work

-----------------------------------------------------------------------------
(* The theorems                                                             *)

AccountsInv == AdminInv /\ SessionInv

LEMMA InitInv == Init => AccountsInv
<1> SUFFICES ASSUME Init PROVE AccountsInv
  OBVIOUS
<1>1. TypeOK
  BY InitType
<1>2. Bootstrap \in ActiveAdmins
  <2>1. account[Bootstrap] = [status |-> "active", roles |-> {Admin}]
    BY BootstrapAssumption DEF Init
  <2> QED BY <2>1, BootstrapAssumption DEF ActiveAdmins, Active
<1>3. SessionInv
  BY DEF Init, SessionInv, NoSessionOutlivesDisabling, OldPasswordOpensNothing,
         RoleChangeEndsSessions
<1>4. ASSUME NEW r \in Requests
      PROVE  Sound(r)
  <2>1. /\ request[r].step = "idle" /\ request[r].op = "none"
        /\ adminLock # r /\ \A u \in Users : rowLock[u] # r
    BY RequestsAssumption DEF Init, Idle
  <2> QED BY <2>1 DEF Sound, InPlace, Locked, LeavesOne
<1> QED BY <1>1, <1>2, <1>3, <1>4
        DEF AccountsInv, AdminInv, SessionInv, LastAdminOnlyLostBlindly

LEMMA NextInv == AccountsInv /\ [Next]_vars => AccountsInv'
<1> SUFFICES ASSUME AccountsInv, [Next]_vars PROVE AccountsInv'
  OBVIOUS
<1>1. TypeOK /\ SessionInv /\ AdminInv
  BY DEF AccountsInv, AdminInv
<1>2. ASSUME NEW r \in Requests, Ask(r) \/ Work(r) \/ Abort(r)
      PROVE  AccountsInv'
  <2>1. TypeOK'
    BY <1>1, <1>2, AskType, SyncType, WorkType DEF Ask
  <2>2. SessionInv'
    BY <1>1, <1>2, SessionStep
  <2>3. Frame(r) /\ Lawful(r) /\ Sound(r)'
    BY <1>1, <1>2, <2>1, AskSound, SyncSound, CheckSound, ChangeSound, SyncUserSound
       DEF Ask, Work
  <2>4. AdminInv'
    BY <1>1, <2>1, <2>2, <2>3, StepSound DEF SessionInv
  <2> QED BY <2>2, <2>4 DEF AccountsInv
<1>3. ASSUME sessions' \subseteq sessions,
             UNCHANGED <<account, linked, credential, locks, request, blindSync>>
      PROVE  AccountsInv'
  <2>1. TypeOK'
    BY <1>1, <1>3 DEF TypeOK, locks
  <2>2. SessionInv'
    BY <1>1, <1>3, SessionsHold DEF Stays
  <2>3. \A r \in Requests : Sound(r)'
    BY <1>1, <1>3 DEF AdminInv, Sound, InPlace, Locked, LeavesOne, Removes, OtherAdmin,
                      ActiveAdmins, Active, locks
  <2>4. LastAdminOnlyLostBlindly'
    BY <1>1, <1>3 DEF AdminInv, LastAdminOnlyLostBlindly, ActiveAdmins, Active
  <2> QED BY <2>1, <2>2, <2>3, <2>4 DEF AccountsInv, AdminInv, SessionInv
<1>4. CASE EndSession
  BY <1>3, <1>4 DEF EndSession
<1>5. CASE RevokeOidcSessions
  BY <1>3, <1>5 DEF RevokeOidcSessions
<1>6. CASE UNCHANGED vars
  BY <1>3, <1>6 DEF vars, tables
<1> QED BY <1>2, <1>4, <1>5, <1>6 DEF Next

LEMMA AccountsInvariant == Spec => []AccountsInv
BY InitInv, NextInv, PTL DEF Spec

\* The tables, the locks and the requests keep their types.
THEOREM TypeCorrect == Spec => []TypeOK
<1>1. AccountsInv => TypeOK
  BY DEF AccountsInv, AdminInv
<1> QED BY <1>1, AccountsInvariant, PTL

\* assertAdminRemovalAllowed does its work for any number of requests: no
\* interleaving of disabling, deleting, role changes and checked syncs takes the
\* last active admin away; only a sync that writes over roles it has not read can.
THEOREM AdminsRemain == Spec => []LastAdminOnlyLostBlindly
<1>1. AccountsInv => LastAdminOnlyLostBlindly
  BY DEF AccountsInv, AdminInv
<1> QED BY <1>1, AccountsInvariant, PTL

\* insertSession and the revocation in updateUser and deleteUser leave no session
\* of a user who may not log in, in whichever order they commit.
THEOREM DisabledUsersHaveNoSession == Spec => []NoSessionOutlivesDisabling
<1>1. AccountsInv => NoSessionOutlivesDisabling
  BY DEF AccountsInv, SessionInv
<1> QED BY <1>1, AccountsInvariant, PTL

\* lockIfPasswordUnchanged: a login whose password was replaced while it was being
\* verified opens no session, and a replaced password leaves none open.
THEOREM PasswordsExpire == Spec => []OldPasswordOpensNothing
<1>1. AccountsInv => OldPasswordOpensNothing
  BY DEF AccountsInv, SessionInv
<1> QED BY <1>1, AccountsInvariant, PTL

\* replaceUserRoles ends the sessions opened under the roles it replaces.
THEOREM RolesAreCurrent == Spec => []RoleChangeEndsSessions
<1>1. AccountsInv => RoleChangeEndsSessions
  BY DEF AccountsInv, SessionInv
<1> QED BY <1>1, AccountsInvariant, PTL

\* The three together: whatever commits first, no session is left that the disabling,
\* the new password or the role change of its user should have ended.
THEOREM SessionsFollow == Spec => []SessionsFollowTheirUser
<1>1. NoSessionOutlivesDisabling /\ OldPasswordOpensNothing /\ RoleChangeEndsSessions
         => SessionsFollowTheirUser
  BY DEF SessionsFollowTheirUser
<1> QED BY <1>1, DisabledUsersHaveNoSession, PasswordsExpire, RolesAreCurrent, PTL

\* The order of the locks (advisory lock, then the user's row) leaves one way to
\* deadlock: the foreign key from the new role rows to the admin who grants them.
THEOREM LocksAreOrdered == Spec => []OnlyGrantsDeadlock
<1>1. ASSUME AccountsInv, NEW S \in SUBSET Requests, Deadlock(S),
             \A r \in S : ~(request[r].op = "roles" /\ request[r].step = "apply")
      PROVE  FALSE
  <2>1. \A r \in S : Locked(r)
    BY <1>1 DEF AccountsInv, AdminInv, Sound
  <2>2. \A r \in S : \E q \in S : WaitsFor(r, q)
    BY <1>1 DEF Deadlock
  <2>3. ASSUME NEW h \in S, NEW u \in Users, rowLock[u] = h
        PROVE  FALSE
    <3>1. /\ request[h].user = u
          /\ request[h].step = "count" \/ (request[h].step = "apply" /\ request[h].op # "enable")
      BY <2>1, <2>3 DEF Locked
    <3>2. \A v \in Users : WantsRow(h, v) => v = u
      BY <1>1, <3>1 DEF WantsRow
    <3>3. \A q \in S : ~WaitsFor(h, q)
      BY <2>3, <3>1, <3>2 DEF WaitsFor
    <3> QED BY <2>2, <3>3
  <2>4. \A r, q \in S : WaitsFor(r, q) => request[r].step = "check" /\ adminLock = q
    BY <2>3 DEF WaitsFor
  <2>5. PICK r \in S : TRUE
    BY <1>1 DEF Deadlock
  <2>6. PICK q \in S : adminLock = q
    BY <2>2, <2>4
  <2> QED BY <2>1, <2>2, <2>4, <2>6 DEF Locked
<1>2. AccountsInv => OnlyGrantsDeadlock
  BY <1>1 DEF OnlyGrantsDeadlock
<1> QED BY <1>2, AccountsInvariant, PTL

-----------------------------------------------------------------------------
(* The settings of connections and the default among them.                    *)


\* A PUT that is under way has a target and a body, and holds its row
\* once it got it.
PutsOnTarget ==
    \A p \in Puts :
       /\ ppc[p] # "idle" => pconn[p] \in Conns /\ ppatch[p] \in Patches
       /\ ppc[p] = "locked" => connLock[pconn[p]] = p

\* Only the holder of the advisory lock is past its beginning.
Serialised ==
    \A s \in Switches : spc[s] \in {"pick", "clear", "wait", "set"} => advisory = s

\* Past its SELECT a switch holds the row it will make the default.
TargetHeld ==
    \A s \in Switches :
       /\ spc[s] # "idle" => sconn[s] \in Conns
       /\ spc[s] \in {"clear", "wait", "set"} =>
             /\ connLock[sconn[s]] = s
             /\ Live(sconn[s])

\* The first UPDATE has found every default there is.
AllFound ==
    \A s \in Switches : spc[s] \in {"wait", "set"} =>
       \A c \in Conns : default[c] => c \in cleared[s]

SettingsInv == SettingsTypeOK /\ PutsOnTarget /\ Serialised /\ TargetHeld /\ AllFound /\ AtMostOneDefault

LEMMA DefaultsTyped == Defaults \in Settings
BY DEF Defaults, Settings

-----------------------------------------------------------------------------
\* Every step keeps the types, and a PUT its target.
LEMMA TypeStep ==
    ASSUME SettingsTypeOK, PutsOnTarget, [SettingsNext]_settingVars
    PROVE  SettingsTypeOK' /\ PutsOnTarget'
<1> USE ConnectionSettingsAssumption DEF SettingsTypeOK, TablesOK, RequestsOK, PutsOnTarget
<1>1. ASSUME NEW p \in Puts, NEW c \in Conns, NEW patch \in Patches, PutSelect(p, c, patch) PROVE SettingsTypeOK' /\ PutsOnTarget'
  BY <1>1 DEF PutSelect, tableVars, putVars, switchVars
<1>2. ASSUME NEW p \in Puts, PutLock(p) PROVE SettingsTypeOK' /\ PutsOnTarget'
  BY <1>2, DefaultsTyped DEF PutLock, PutEnds, UnlockRow, tableVars, putVars, switchVars
<1>3. ASSUME NEW p \in Puts, PutRollback(p) PROVE SettingsTypeOK' /\ PutsOnTarget'
  BY <1>3, DefaultsTyped DEF PutRollback, PutEnds, UnlockRow, tableVars, putVars, switchVars
<1>4. ASSUME NEW p \in Puts, PutSame(p) PROVE SettingsTypeOK' /\ PutsOnTarget'
  BY <1>4, DefaultsTyped DEF PutSame, PutEnds, UnlockRow, tableVars, putVars, switchVars
<1>5. ASSUME NEW p \in Puts, PutCommit(p) PROVE SettingsTypeOK' /\ PutsOnTarget'
  <2>1. pconn[p] \in Conns /\ ppatch[p] \in Patches
    BY <1>5 DEF PutCommit, PutsOnTarget
  <2>2. ASSUME NEW k \in Keys PROVE Upserted(p)[k] \in BOOLEAN
    BY <2>1 DEF Upserted, Settings
  <2>3. Upserted(p) \in Settings
    BY <2>2 DEF Upserted, Settings
  <2>4. val' \in [Conns -> Settings]
    BY <1>5, <2>1, <2>3 DEF PutCommit
  <2> QED BY <1>5, <2>4, DefaultsTyped DEF PutCommit, PutEnds, UnlockRow, tableVars, putVars, switchVars
<1>6. ASSUME NEW s \in Switches, NEW c \in Conns, SwitchBegin(s, c) PROVE SettingsTypeOK' /\ PutsOnTarget'
  BY <1>6 DEF SwitchBegin, SGoto, tableVars, putVars, switchVars
<1>7. ASSUME NEW s \in Switches, SwitchSerialize(s) PROVE SettingsTypeOK' /\ PutsOnTarget'
  BY <1>7 DEF SwitchSerialize, SGoto, tableVars, putVars, switchVars
<1>8. ASSUME NEW s \in Switches, SwitchPick(s) PROVE SettingsTypeOK' /\ PutsOnTarget'
  BY <1>8 DEF SwitchPick, SwitchEnds, SGoto, tableVars, putVars, switchVars
<1>9. ASSUME NEW s \in Switches, SwitchClear(s) PROVE SettingsTypeOK' /\ PutsOnTarget'
  BY <1>9 DEF SwitchClear, SGoto, tableVars, putVars, switchVars
<1>10. ASSUME NEW s \in Switches, SwitchWait(s) PROVE SettingsTypeOK' /\ PutsOnTarget'
  BY <1>10 DEF SwitchWait, SGoto, tableVars, putVars, switchVars
<1>11. ASSUME NEW s \in Switches, SwitchCommit(s) PROVE SettingsTypeOK' /\ PutsOnTarget'
  BY <1>11 DEF SwitchCommit, SwitchEnds, SGoto, tableVars, putVars, switchVars
<1>12. ASSUME NEW s \in Switches, SwitchRollback(s) PROVE SettingsTypeOK' /\ PutsOnTarget'
  BY <1>12 DEF SwitchRollback, SwitchEnds, SGoto, tableVars, putVars, switchVars
<1>13. ASSUME NEW c \in Conns, Delete(c) PROVE SettingsTypeOK' /\ PutsOnTarget'
  BY <1>13, DefaultsTyped DEF Delete, tableVars, putVars, switchVars
<1>14. ASSUME NEW c \in Conns, NEW read \in BOOLEAN, NEW write \in BOOLEAN, Create(c, read, write) PROVE SettingsTypeOK' /\ PutsOnTarget'
  <2>1. [Defaults EXCEPT !["readmeRead"] = read, !["readmeWrite"] = write] \in Settings
    BY DefaultsTyped DEF Settings
  <2> QED BY <1>14, <2>1 DEF Create, tableVars, putVars, switchVars
<1>15. CASE UNCHANGED settingVars
  BY <1>15 DEF settingVars, tableVars, putVars, switchVars
<1> QED BY <1>1, <1>2, <1>3, <1>4, <1>5, <1>6, <1>7, <1>8, <1>9, <1>10, <1>11, <1>12, <1>13, <1>14, <1>15 DEF SettingsNext, PutStep, SwitchStep

\* Every step keeps the switches serialised and the default unique.
LEMMA SwitchSafe ==
    ASSUME SettingsTypeOK, PutsOnTarget, Serialised, TargetHeld, AllFound, AtMostOneDefault, [SettingsNext]_settingVars
    PROVE  Serialised' /\ TargetHeld' /\ AllFound' /\ AtMostOneDefault'
<1> USE ConnectionSettingsAssumption DEF SettingsTypeOK, TablesOK, RequestsOK, PutsOnTarget, Serialised, TargetHeld, AllFound, AtMostOneDefault, Live, Conflict
<1>1. ASSUME NEW p \in Puts, NEW c \in Conns, NEW patch \in Patches, PutSelect(p, c, patch) PROVE Serialised' /\ TargetHeld' /\ AllFound' /\ AtMostOneDefault'
  BY <1>1 DEF PutSelect, tableVars, putVars, switchVars
<1>2. ASSUME NEW p \in Puts, PutLock(p) PROVE Serialised' /\ TargetHeld' /\ AllFound' /\ AtMostOneDefault'
  BY <1>2 DEF PutLock, PutEnds, tableVars, putVars, switchVars
<1>3. ASSUME NEW p \in Puts, PutRollback(p) PROVE Serialised' /\ TargetHeld' /\ AllFound' /\ AtMostOneDefault'
  BY <1>3 DEF PutRollback, PutEnds, UnlockRow, tableVars, putVars, switchVars
<1>4. ASSUME NEW p \in Puts, PutSame(p) PROVE Serialised' /\ TargetHeld' /\ AllFound' /\ AtMostOneDefault'
  BY <1>4 DEF PutSame, PutEnds, UnlockRow, tableVars, putVars, switchVars
<1>5. ASSUME NEW p \in Puts, PutCommit(p) PROVE Serialised' /\ TargetHeld' /\ AllFound' /\ AtMostOneDefault'
  BY <1>5 DEF PutCommit, PutEnds, UnlockRow, tableVars, putVars, switchVars
<1>6. ASSUME NEW s \in Switches, NEW c \in Conns, SwitchBegin(s, c) PROVE Serialised' /\ TargetHeld' /\ AllFound' /\ AtMostOneDefault'
  BY <1>6 DEF SwitchBegin, SGoto, tableVars, putVars, switchVars
<1>7. ASSUME NEW s \in Switches, SwitchSerialize(s) PROVE Serialised' /\ TargetHeld' /\ AllFound' /\ AtMostOneDefault'
  BY <1>7 DEF SwitchSerialize, SGoto, tableVars, putVars, switchVars
<1>8. ASSUME NEW s \in Switches, SwitchPick(s) PROVE Serialised' /\ TargetHeld' /\ AllFound' /\ AtMostOneDefault'
  BY <1>8 DEF SwitchPick, SwitchEnds, SGoto, tableVars, putVars, switchVars
<1>9. ASSUME NEW s \in Switches, SwitchClear(s) PROVE Serialised' /\ TargetHeld' /\ AllFound' /\ AtMostOneDefault'
  BY <1>9 DEF SwitchClear, SGoto, tableVars, putVars, switchVars
<1>10. ASSUME NEW s \in Switches, SwitchWait(s) PROVE Serialised' /\ TargetHeld' /\ AllFound' /\ AtMostOneDefault'
  BY <1>10 DEF SwitchWait, SGoto, tableVars, putVars, switchVars
<1>11. ASSUME NEW s \in Switches, SwitchCommit(s) PROVE Serialised' /\ TargetHeld' /\ AllFound' /\ AtMostOneDefault'
  BY <1>11 DEF SwitchCommit, SwitchEnds, SGoto, tableVars, putVars, switchVars
<1>12. ASSUME NEW s \in Switches, SwitchRollback(s) PROVE Serialised' /\ TargetHeld' /\ AllFound' /\ AtMostOneDefault'
  BY <1>12 DEF SwitchRollback, SwitchEnds, SGoto, tableVars, putVars, switchVars
<1>13. ASSUME NEW c \in Conns, Delete(c) PROVE Serialised' /\ TargetHeld' /\ AllFound' /\ AtMostOneDefault'
  BY <1>13 DEF Delete, tableVars, putVars, switchVars
<1>14. ASSUME NEW c \in Conns, NEW read \in BOOLEAN, NEW write \in BOOLEAN, Create(c, read, write) PROVE Serialised' /\ TargetHeld' /\ AllFound' /\ AtMostOneDefault'
  BY <1>14 DEF Create, tableVars, putVars, switchVars
<1>15. CASE UNCHANGED settingVars
  BY <1>15 DEF settingVars, tableVars, putVars, switchVars
<1> QED BY <1>1, <1>2, <1>3, <1>4, <1>5, <1>6, <1>7, <1>8, <1>9, <1>10, <1>11, <1>12, <1>13, <1>14, <1>15 DEF SettingsNext, PutStep, SwitchStep

\* SettingsInv is inductive, so it holds in every reachable state.
THEOREM SettingsInvHolds == SettingsSpec => []SettingsInv
<1>1. SettingsInit => SettingsInv
  BY DefaultsTyped DEF SettingsInit, SettingsInv, SettingsTypeOK, TablesOK, RequestsOK, PutsOnTarget, Serialised,
     TargetHeld, AllFound, AtMostOneDefault
<1>2. SettingsInv /\ [SettingsNext]_settingVars => SettingsInv'
  BY TypeStep, SwitchSafe DEF SettingsInv
<1> QED BY <1>1, <1>2, PTL DEF SettingsSpec

\* The tables and the transactions keep their types.
THEOREM SettingsTypeCorrect == SettingsSpec => []SettingsTypeOK
<1>1. SettingsInv => SettingsTypeOK
  BY DEF SettingsInv
<1> QED BY <1>1, SettingsInvHolds, PTL

\* At most one connection is the default, and it exists.
THEOREM OneDefault == SettingsSpec => []AtMostOneDefault
<1>1. SettingsInv => AtMostOneDefault
  BY DEF SettingsInv
<1> QED BY <1>1, SettingsInvHolds, PTL

\* No switch of the default runs into the unique index.
THEOREM NoConflict == SettingsSpec => []SwitchNeverConflicts
<1>1. SettingsInv => SwitchNeverConflicts
  BY DEF SettingsInv, SwitchNeverConflicts, Conflict, AllFound
<1> QED BY <1>1, SettingsInvHolds, PTL

\* The step that answers a PUT leaves the settings it was not sent.
LEMMA UnsentStep ==
    ASSUME SettingsTypeOK, PutsOnTarget, [SettingsNext]_settingVars, NEW p \in Puts,
           ppc[p] = "locked", ppc'[p] = "idle", NEW k \in Keys \ DOMAIN ppatch[p]
    PROVE  val'[pconn[p]][k] = val[pconn[p]][k]
<1>1. CASE PutCommit(p)
  BY <1>1 DEF PutCommit, Upserted, SettingsTypeOK, TablesOK, PutsOnTarget
<1>2. CASE PutRollback(p) \/ PutSame(p)
  BY <1>2 DEF PutRollback, PutSame, tableVars
<1>3. PutCommit(p) \/ PutRollback(p) \/ PutSame(p)
  <2>1. ASSUME NEW q \in Puts, PutStep(q) PROVE q = p /\ (PutCommit(p) \/ PutRollback(p) \/ PutSame(p))
    BY <2>1 DEF PutStep, PutSelect, PutLock, PutEnds, PutCommit, PutRollback, PutSame, SettingsTypeOK, RequestsOK
  <2>2. ASSUME NEW s \in Switches, SwitchStep(s) PROVE FALSE
    BY <2>2 DEF SwitchStep, SwitchBegin, SwitchSerialize, SwitchPick, SwitchClear, SwitchWait,
                SwitchCommit, SwitchRollback, putVars
  <2>3. ASSUME NEW c \in Conns, NEW read, NEW write, Delete(c) \/ Create(c, read, write) PROVE FALSE
    BY <2>3 DEF Delete, Create, putVars
  <2> QED BY <2>1, <2>2, <2>3 DEF SettingsNext, settingVars, putVars
<1> QED BY <1>1, <1>2, <1>3

\* A PUT never overwrites what another administrator set and it was not sent.
THEOREM UnsentSurvive == SettingsSpec => UnsentSettingsSurvive
<1>1. SettingsInv /\ [SettingsNext]_settingVars =>
        [\A p \in Puts : ppc[p] = "locked" /\ ppc'[p] = "idle" =>
           \A k \in Keys \ DOMAIN ppatch[p] : val'[pconn[p]][k] = val[pconn[p]][k]]_settingVars
  BY UnsentStep DEF SettingsInv
<1> QED BY <1>1, SettingsInvHolds, PTL DEF SettingsSpec, UnsentSettingsSurvive
=============================================================================
