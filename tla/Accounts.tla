------------------------------- MODULE Accounts -------------------------------
\* The users of mado, their roles, local passwords and browser sessions
\* (api/lib/auth-user-store.ts, auth-admin-invariant.ts, auth-credential-store.ts,
\* auth-session-store.ts, auth-oidc-provisioning.ts), as the transactions the
\* routes run on PostgreSQL at READ COMMITTED. A step ends where a transaction
\* waits for a lock or reads what another one may still change; what it writes
\* becomes visible with the step that commits. The rows a step writes are locked
\* by it, so a transaction's last reads, writes and COMMIT are one step.
EXTENDS Naturals, FiniteSets

CONSTANTS
    Users,          \* the people: rows of auth_users, and those not there yet
    Bootstrap,      \* the first admin (api/scripts/bootstrap-admin.ts)
    SsoUsers,       \* those of them the IdP knows
    Requests,       \* the requests the api works on at a time
    Admin,          \* ADMIN_ROLE
    Viewer,         \* UNPRIVILEGED_ROLE, also the default role of a first SSO login
    GrantedRoles,   \* the sets of roles an admin gives
    ManagedRoles,   \* the sets the roleMapping gives; {} when it is empty
    MaxPassword,    \* bound: how often a password is replaced
    Free            \* no holder of a lock

ASSUME UsersAssumption == IsFiniteSet(Users)
ASSUME BootstrapAssumption == Bootstrap \in Users
ASSUME SsoAssumption == SsoUsers \subseteq Users
ASSUME RequestsAssumption == Free \notin Requests
ASSUME PasswordAssumption == MaxPassword \in Nat \ {0}
ASSUME RolesAssumption == Admin # Viewer

VARIABLES
    account,        \* auth_users and auth_user_roles: user -> status and roles
    linked,         \* the users an auth_oidc_identities row points to
    credential,     \* auth_local_credentials.password_hash of each user
    sessions,       \* the auth_sessions rows that are neither revoked nor expired
    rowLock,        \* who holds the FOR UPDATE lock of a user's row
    adminLock,      \* who holds the advisory lock of the admin invariant
    request,        \* what each request has read and will do next
    blindSync       \* history: a role sync replaced roles it had not read

tables == <<account, linked, credential, sessions>>
locks == <<rowLock, adminLock>>
vars == <<tables, locks, request, blindSync>>

RoleSets == GrantedRoles \cup ManagedRoles \cup {{}, {Admin}, {Viewer}}
Account == [status: {"absent", "active", "disabled", "deleted"}, roles: RoleSets]

\* A stored hash: which password, and whether its Argon2 parameters are out of
\* date, so that a login replaces it (passwordNeedsRehash).
Hash == [password: 0 .. MaxPassword, old: BOOLEAN]
NoHash == [password |-> 0, old |-> FALSE]

\* A live session: whose, opened with which password (0: by SSO), and under
\* which roles. Sessions alike in all three count as one.
Session == [user: Users, password: 0 .. MaxPassword, roles: RoleSets]

Steps == {"idle", "check", "row", "count", "lock", "apply", "create", "session",
          "open", "save"}
Operations == {"none", "create", "disable", "enable", "roles", "delete", "reset",
               "login", "change", "sync"}

\* user: the row the request is about; by: the admin who grants the roles; roles: the roles
\* to store; before: the roles a sync has read; admin: is_admin as read by
\* assertAdminRemovalAllowed; hash: the hash the password was verified against.
Request == [op: Operations, step: Steps, user: Users, by: Users, roles: RoleSets,
            before: RoleSets, admin: BOOLEAN, hash: Hash]
Idle == [op |-> "none", step |-> "idle", user |-> Bootstrap, by |-> Bootstrap,
         roles |-> {}, before |-> {}, admin |-> FALSE, hash |-> NoHash]

Init ==
    /\ account = [u \in Users |-> IF u = Bootstrap
                                  THEN [status |-> "active", roles |-> {Admin}]
                                  ELSE [status |-> "absent", roles |-> {}]]
    /\ linked = {}
    /\ \E old \in BOOLEAN :
         credential = [u \in Users |-> IF u = Bootstrap
                                       THEN [password |-> 1, old |-> old] ELSE NoHash]
    /\ sessions = {}
    /\ rowLock = [u \in Users |-> Free]
    /\ adminLock = Free
    /\ request = [r \in Requests |-> Idle]
    /\ blindSync = FALSE

---------------------------------------------------------------------------
(* Reading                                                                  *)

Active(u) == account[u].status = "active"
Gone(u) == account[u].status \in {"absent", "deleted"}
ActiveAdmins == {u \in Users : Active(u) /\ Admin \in account[u].roles}

\* Who passes requirePermission('users:manage'): an active admin with a session.
Managers == {u \in ActiveAdmins : \E s \in sessions : s.user = u}

\* Row locks: any lock of a row waits for the FOR UPDATE of another transaction.
Lockable(r, u) == rowLock[u] \in {Free, r}

---------------------------------------------------------------------------
(* Where a request is                                                       *)

Begin(r, op, step, u, by, roles) ==
    /\ request[r].step = "idle"
    /\ request' = [request EXCEPT ![r] = [Idle EXCEPT !.op = op, !.step = step,
                                            !.user = u, !.by = by, !.roles = roles]]
    /\ UNCHANGED <<tables, locks, blindSync>>

Goto(r, step) == request' = [request EXCEPT ![r].step = step]
Provisioned(u) == [Idle EXCEPT !.op = "sync", !.step = "session", !.user = u]

\* COMMIT or ROLLBACK: the locks go.
Unlock(r) ==
    /\ rowLock' = [u \in Users |-> IF rowLock[u] = r THEN Free ELSE rowLock[u]]
    /\ adminLock' = IF adminLock = r THEN Free ELSE adminLock

End(r) == Unlock(r) /\ request' = [request EXCEPT ![r] = Idle]

Revoked(u) == {s \in sessions : s.user # u}

---------------------------------------------------------------------------
(* The administration of users (routes/admin-users.ts)                      *)

\* PATCH /users/:id, PUT /users/:id/roles, DELETE /users/:id and the reset of a
\* password. What may take an admin away goes through the check first.
AskChange(r) ==
    \E by \in Managers, u \in Users :
      /\ account[u].status # "absent"
      /\ \/ Begin(r, "disable", "check", u, u, {})
         \/ Begin(r, "enable", "apply", u, u, {})
         \/ \E roles \in GrantedRoles :
              Begin(r, "roles", IF Admin \in roles THEN "lock" ELSE "check", u, by, roles)
         \/ /\ u # by /\ ~Gone(u)
            /\ Begin(r, "delete", "check", u, u, {})
         \/ /\ ~Gone(u) /\ ~(u \in linked /\ credential[u] = NoHash)
            /\ Begin(r, "reset", "save", u, u, {})

\* POST /users.
AskCreate(r) ==
    \E by \in Managers, u \in Users, roles \in GrantedRoles :
      Begin(r, "create", "create", u, by, roles)

\* Mutant: no advisory lock.
LockAdmins_Unlocked(r) ==
    /\ request[r].step = "check"
    /\ LET u == request[r].user
       IN  request' = [request EXCEPT ![r].step = "row",
                                      ![r].admin = Admin \in account[u].roles]
    /\ UNCHANGED <<tables, locks, blindSync>>

\* assertAdminRemovalAllowed: the advisory lock; the statement after it takes its
\* snapshot, from which it answers is_admin, before it waits for the row.
LockAdmins(r) ==
    /\ request[r].step = "check"
    /\ adminLock = Free
    /\ adminLock' = r
    /\ LET u == request[r].user
       IN  request' = [request EXCEPT ![r].step = "row",
                                      ![r].admin = Admin \in account[u].roles]
    /\ UNCHANGED <<tables, rowLock, blindSync>>

\* ... FOR UPDATE: the status is read again once the row is locked, is_admin not.
LockTarget(r) ==
    LET u == request[r].user
    IN  /\ request[r].step = "row"
        /\ Gone(u) \/ Lockable(r, u)
        /\ rowLock' = IF Gone(u) THEN rowLock ELSE [rowLock EXCEPT ![u] = r]
        /\ request' = [request EXCEPT
                ![r].step = IF Active(u) /\ request[r].admin THEN "count" ELSE "apply",
                ![r].admin = FALSE]
        /\ UNCHANGED <<tables, adminLock, blindSync>>

\* ... and the count, LastActiveAdminError when there is no other.
CountAdmins(r) ==
    /\ request[r].step = "count"
    /\ IF Cardinality(ActiveAdmins) <= 1
       THEN End(r)
       ELSE Goto(r, "apply") /\ UNCHANGED locks
    /\ UNCHANGED <<tables, blindSync>>

\* lockUser, for roles that take no admin away.
LockUser(r) ==
    LET u == request[r].user
    IN  /\ request[r].step = "lock"
        /\ Gone(u) \/ Lockable(r, u)
        /\ IF Gone(u)
           THEN End(r)
           ELSE /\ rowLock' = [rowLock EXCEPT ![u] = r]
                /\ Goto(r, "apply")
                /\ UNCHANGED adminLock
        /\ UNCHANGED <<tables, blindSync>>

\* updateUser with a status: sessions go when an active user is disabled.
UpdateStatus(r) ==
    LET u == request[r].user
        status == IF request[r].op = "enable" THEN "active" ELSE "disabled"
        changed == ~Gone(u) /\ account[u].status # status
    IN  /\ request[r].step = "apply" /\ request[r].op \in {"enable", "disable"}
        /\ Gone(u) \/ Lockable(r, u)
        /\ account' = IF changed THEN [account EXCEPT ![u].status = status] ELSE account
        /\ sessions' = IF changed /\ status = "disabled" THEN Revoked(u) ELSE sessions
        /\ End(r)
        /\ UNCHANGED <<linked, credential, blindSync>>

\* replaceUserRoles. The new rows name granted_by, and their foreign key waits
\* for the row of the admin who asked.
ReplaceUserRoles(r) ==
    LET u == request[r].user
        roles == request[r].roles
        changed == ~Gone(u) /\ account[u].roles # roles
    IN  /\ request[r].step = "apply" /\ request[r].op = "roles"
        /\ changed /\ roles # {} => Lockable(r, request[r].by)
        /\ account' = IF changed THEN [account EXCEPT ![u].roles = roles] ELSE account
        /\ sessions' = IF changed THEN Revoked(u) ELSE sessions
        /\ End(r)
        /\ UNCHANGED <<linked, credential, blindSync>>

\* deleteUser keeps the row.
DeleteUser(r) ==
    LET u == request[r].user
    IN  /\ request[r].step = "apply" /\ request[r].op = "delete"
        /\ IF Gone(u)
           THEN UNCHANGED <<account, sessions>>
           ELSE /\ account' = [account EXCEPT ![u].status = "deleted"]
                /\ sessions' = Revoked(u)
        /\ End(r)
        /\ UNCHANGED <<linked, credential, blindSync>>

\* createUser, with a first password or without; 409 when the name is taken.
CreateUser(r) ==
    LET u == request[r].user
    IN  /\ request[r].step = "create"
        /\ account[u].status = "absent" /\ request[r].roles # {} => Lockable(r, request[r].by)
        /\ IF account[u].status = "absent"
           THEN /\ account' = [account EXCEPT ![u] = [status |-> "active",
                                                      roles |-> request[r].roles]]
                /\ \E password \in {0, 1} :
                     credential' = [credential EXCEPT ![u].password = password]
           ELSE UNCHANGED <<account, credential>>
        /\ End(r)
        /\ UNCHANGED <<linked, sessions, blindSync>>

\* resetLocalPassword: a new hash, and every session goes. (Nothing at the bound.)
ResetLocalPassword(r) ==
    LET u == request[r].user
        password == credential[u].password + 1
    IN  /\ request[r].step = "save" /\ request[r].op = "reset"
        /\ Gone(u) \/ Lockable(r, u)
        /\ IF Gone(u) \/ password > MaxPassword
           THEN UNCHANGED <<credential, sessions>>
           ELSE /\ credential' = [credential EXCEPT ![u] = [password |-> password, old |-> FALSE]]
                /\ sessions' = Revoked(u)
        /\ End(r)
        /\ UNCHANGED <<account, linked, blindSync>>

---------------------------------------------------------------------------
(* Local login and the user's own change of password (routes/auth.ts)       *)

\* POST /local/login: the right password for the hash found; the answer of
\* Argon2 comes in a later step.
AskLogin(r) ==
    \E u \in Users :
      /\ request[r].step = "idle"
      /\ Active(u) /\ credential[u] # NoHash
      /\ request' = [request EXCEPT ![r] = [Idle EXCEPT !.op = "login", !.step = "open",
                                              !.user = u, !.hash = credential[u]]]
      /\ UNCHANGED <<tables, locks, blindSync>>

\* POST /change-password, by someone signed in.
AskNewPassword(r) ==
    \E s \in sessions :
      LET u == s.user
      IN  /\ request[r].step = "idle"
          /\ credential[u] # NoHash
          /\ request' = [request EXCEPT ![r] = [Idle EXCEPT !.op = "change", !.step = "save",
                                                  !.user = u, !.hash = credential[u]]]
          /\ UNCHANGED <<tables, locks, blindSync>>

\* lockIfPasswordUnchanged: the user is active and the hash the one verified.
PasswordUnchanged(r) ==
    LET u == request[r].user
    IN  Active(u) /\ credential[u] = request[r].hash

\* insertSession.
OpenedFor(u, password) == [user |-> u, password |-> password, roles |-> account[u].roles]

\* openLocalSession: the session and, if asked, the hash with new parameters.
OpenLocalSession(r) ==
    LET u == request[r].user
    IN  /\ request[r].step = "open"
        /\ Active(u) => Lockable(r, u)
        /\ IF PasswordUnchanged(r)
           THEN /\ credential' = [credential EXCEPT ![u] = [request[r].hash EXCEPT !.old = FALSE]]
                /\ sessions' = sessions \cup {OpenedFor(u, request[r].hash.password)}
           ELSE UNCHANGED <<credential, sessions>>
        /\ End(r)
        /\ UNCHANGED <<account, linked, blindSync>>

\* changeLocalPassword: the new hash, every session goes, one session is opened.
\* (Nothing at the bound.)
ChangeLocalPassword(r) ==
    LET u == request[r].user
        password == credential[u].password + 1
    IN  /\ request[r].step = "save" /\ request[r].op = "change"
        /\ Active(u) => Lockable(r, u)
        /\ IF PasswordUnchanged(r) /\ password <= MaxPassword
           THEN /\ credential' = [credential EXCEPT ![u] = [password |-> password, old |-> FALSE]]
                /\ sessions' = Revoked(u) \cup {OpenedFor(u, password)}
           ELSE UNCHANGED <<credential, sessions>>
        /\ End(r)
        /\ UNCHANGED <<account, linked, blindSync>>

\* A session ends alone: logout, expiry, the IdP's front-channel logout of a sid.
EndSession ==
    /\ \E s \in sessions : sessions' = sessions \ {s}
    /\ UNCHANGED <<account, linked, credential, locks, request, blindSync>>

\* The IdP's back-channel logout of a subject (revokeOidcSessionRows).
RevokeOidcSessions ==
    /\ \E u \in linked :
         sessions' = {s \in sessions : ~(s.user = u /\ s.password = 0)}
    /\ UNCHANGED <<account, linked, credential, locks, request, blindSync>>

---------------------------------------------------------------------------
(* A login by SSO (provisionOidcUser, then createSession)                   *)

\* GET /oidc/callback with the roles of the IdP's groups. findLinkedUserId locks
\* the identity's row, so one user's logins follow each other.
RolesOfGroups == IF ManagedRoles = {} THEN {{}} ELSE ManagedRoles
NoOtherSync(u) ==
    \A q \in Requests : request[q].op = "sync" /\ request[q].user = u
                           => request[q].step = "session"

\* loadUserIncludingDeleted gives `before`. The check is left out unless
\* before.roles has the admin role and loses it.
ReadBefore(r, u, roles) ==
    LET before == account[u].roles
        step == IF ManagedRoles # {} /\ Admin \in before /\ Admin \notin roles
                THEN "check" ELSE "apply"
    IN  request' = [request EXCEPT ![r] = [Idle EXCEPT !.op = "sync", !.step = step,
                      !.user = u, !.by = u, !.roles = roles, !.before = before]]

\* A linked user, read without a lock on the user's row; user_disabled.
FindLinked(r) ==
    \E u \in linked, roles \in RolesOfGroups :
      /\ request[r].step = "idle"
      /\ NoOtherSync(u)
      /\ Active(u)
      /\ ReadBefore(r, u, roles)
      /\ UNCHANGED <<tables, locks, blindSync>>

\* Mutant: a privileged user is linked too.
FindByEmail_Privileged(r) ==
    \E u \in SsoUsers \ linked, roles \in RolesOfGroups :
      /\ request[r].step = "idle"
      /\ NoOtherSync(u)
      /\ Lockable(r, u)
      /\ Active(u)
      /\ rowLock' = [rowLock EXCEPT ![u] = r]
      /\ ReadBefore(r, u, roles)
      /\ UNCHANGED <<tables, adminLock, blindSync>>

\* findVerifiedEmailUserId locks the row: no deleted user and no privileged one is
\* linked. The link is stored with the rest.
FindByEmail(r) ==
    \E u \in SsoUsers \ linked, roles \in RolesOfGroups :
      /\ request[r].step = "idle"
      /\ NoOtherSync(u)
      /\ Lockable(r, u)
      /\ Active(u) /\ account[u].roles \subseteq {Viewer}
      /\ rowLock' = [rowLock EXCEPT ![u] = r]
      /\ ReadBefore(r, u, roles)
      /\ UNCHANGED <<tables, adminLock, blindSync>>

\* createJitUser: a new user, under the managed roles or the default one.
CreateJitUser(r) ==
    \E u \in SsoUsers, roles \in IF ManagedRoles = {} THEN {{Viewer}} ELSE ManagedRoles :
      /\ request[r].step = "idle"
      /\ account[u].status = "absent"
      /\ account' = [account EXCEPT ![u] = [status |-> "active", roles |-> roles]]
      /\ linked' = linked \cup {u}
      /\ request' = [request EXCEPT ![r] = Provisioned(u)]
      /\ UNCHANGED <<credential, sessions, locks, blindSync>>

\* managedRolesChanged, from the roles read.
RolesChanged(r) == ManagedRoles # {} /\ request[r].before # request[r].roles

\* syncOidcProfile waits for the row, then replaceRoleRows and COMMIT. A user
\* deleted meanwhile is gone at the final loadUser: ROLLBACK.
SyncOidcUser(r) ==
    LET u == request[r].user
    IN  /\ request[r].step = "apply" /\ request[r].op = "sync"
        /\ Gone(u) \/ Lockable(r, u)
        /\ IF Gone(u)
           THEN End(r) /\ UNCHANGED <<account, linked, blindSync>>
           ELSE /\ account' = IF RolesChanged(r)
                              THEN [account EXCEPT ![u].roles = request[r].roles] ELSE account
                /\ linked' = linked \cup {u}
                /\ blindSync' = (blindSync \/ (RolesChanged(r)
                                                /\ account[u].roles # request[r].before))
                /\ Unlock(r)
                /\ request' = [request EXCEPT ![r] = Provisioned(u)]
        /\ UNCHANGED <<credential, sessions>>

\* Mutant: a session for whoever was provisioned.
OpenSsoSession_Unchecked(r) ==
    LET u == request[r].user
    IN  /\ request[r].step = "session"
        /\ sessions' = sessions \cup {OpenedFor(u, 0)}
        /\ End(r)
        /\ UNCHANGED <<account, linked, credential, blindSync>>

\* insertSession by itself: an active user only; FOR KEY SHARE waits for whoever
\* disables or deletes the user.
OpenSsoSession(r) ==
    LET u == request[r].user
    IN  /\ request[r].step = "session"
        /\ Active(u) => Lockable(r, u)
        /\ sessions' = IF Active(u) THEN sessions \cup {OpenedFor(u, 0)} ELSE sessions
        /\ End(r)
        /\ UNCHANGED <<account, linked, credential, blindSync>>

---------------------------------------------------------------------------
(* Failure                                                                  *)

\* A lost connection, a crash of the api, the victim PostgreSQL picks in a deadlock:
\* the transaction rolls back, and what an earlier one committed stays.
Abort(r) ==
    /\ request[r].step # "idle"
    /\ End(r)
    /\ UNCHANGED <<tables, blindSync>>

\* r waits for the row of u, for the transaction of q.
WantsRow(r, u) ==
    LET mine == request[r].user
    IN  \/ /\ u = mine /\ ~Gone(u)
           /\ \/ request[r].step \in {"row", "lock", "save"}
              \/ request[r].step \in {"open", "session"} /\ Active(u)
              \/ request[r].step = "apply" /\ request[r].op \in {"enable", "sync"}
        \/ /\ u = request[r].by /\ request[r].roles # {}
           /\ \/ /\ request[r].step = "apply" /\ request[r].op = "roles"
                 /\ ~Gone(mine) /\ account[mine].roles # request[r].roles
              \/ request[r].step = "create" /\ account[mine].status = "absent"
WaitsFor(r, q) ==
    /\ q # r
    /\ \/ request[r].step = "check" /\ adminLock = q
       \/ \E u \in Users : WantsRow(r, u) /\ rowLock[u] = q

\* A set of transactions each of which waits for another of the set.
Deadlock(S) == S # {} /\ \A r \in S : \E q \in S : WaitsFor(r, q)

---------------------------------------------------------------------------
Ask(r) == AskChange(r) \/ AskCreate(r) \/ AskLogin(r) \/ AskNewPassword(r)
    \/ FindLinked(r) \/ FindByEmail(r) \/ CreateJitUser(r)

Work(r) ==
    \/ LockAdmins(r) \/ LockTarget(r) \/ CountAdmins(r) \/ LockUser(r)
    \/ UpdateStatus(r) \/ ReplaceUserRoles(r) \/ DeleteUser(r) \/ CreateUser(r)
    \/ ResetLocalPassword(r) \/ OpenLocalSession(r) \/ ChangeLocalPassword(r)
    \/ SyncOidcUser(r) \/ OpenSsoSession(r)

Next ==
    \/ \E r \in Requests : Ask(r) \/ Work(r) \/ Abort(r)
    \/ EndSession
    \/ RevokeOidcSessions

Spec == Init /\ [][Next]_vars

---------------------------------------------------------------------------
(* Properties                                                               *)

TypeOK ==
    /\ account \in [Users -> Account]
    /\ linked \subseteq Users
    /\ credential \in [Users -> Hash]
    /\ sessions \subseteq Session
    /\ rowLock \in [Users -> Requests \cup {Free}]
    /\ adminLock \in Requests \cup {Free}
    /\ request \in [Requests -> Request]
    /\ blindSync \in BOOLEAN

\* "active な Admin を 0 人にしない" (auth-admin-invariant.ts:4): at any moment some
\* active user is an admin.
AlwaysAnAdmin == ActiveAdmins # {}

\* The last admin is only ever lost after a role sync wrote over roles it had not
\* read: no interleaving of disabling, deleting, role changes, logins and checked
\* syncs loses it.
LastAdminOnlyLostBlindly == ActiveAdmins = {} => blindSync

\* 無効化のあとに session が残らない: a disabled or deleted user has no live session,
\* whichever of the disabling and the login came first (insertSession).
NoSessionOutlivesDisabling == \A s \in sessions : Active(s.user)

\* A live local session was opened with the password stored now: no login that
\* verified an older hash gets through, and none opened with it is left.
OldPasswordOpensNothing ==
    \A s \in sessions : s.password # 0 => s.password = credential[s.user].password

\* A user who never came by SSO works under the roles the session was opened
\* with: a role change ends the sessions opened before it, racing logins included.
RoleChangeEndsSessions ==
    \A s \in sessions : s.user \notin linked => s.roles = account[s.user].roles

\* Sessions follow their user: whatever disabling, password or role change commits
\* while a login is on its way, no session is left that it should have ended.
SessionsFollowTheirUser ==
    /\ NoSessionOutlivesDisabling
    /\ OldPasswordOpensNothing
    /\ RoleChangeEndsSessions

\* The order advisory lock, user row, credentials, sessions keeps transactions on
\* users from waiting for each other (auth-admin-invariant.ts, auth-credential-store.ts).
NoDeadlock == \A S \in SUBSET Requests : ~Deadlock(S)

\* Whatever deadlocks has role changes in it that wait for the row of the admin
\* who asked for them.
OnlyGrantsDeadlock ==
    \A S \in SUBSET Requests :
      Deadlock(S) => \E r \in S : request[r].op = "roles" /\ request[r].step = "apply"
=============================================================================
