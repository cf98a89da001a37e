----------------------------- MODULE Admission ------------------------------
(* What a request passes before a route of the api does its work, in the      *)
(* order of internal.ts: its session, the permissions of its user, whether    *)
(* the user may see the connection, and whether the connection allows it.     *)
(* Each guard reads what is true when it runs; between two of them anything   *)
(* may change.  A producer passes by the key of a service account instead     *)
(* (lib/auth-api-keys.ts, lib/service-key-auth.ts).  Attempts to sign in are   *)
(* counted in memory (lib/auth-rate-limit.ts).                                *)
(*                                                                            *)
(* A change of roles ends the sessions of its user (Accounts), so that what a *)
(* session may do stays as it was.  The settings a process remembers of a     *)
(* connection are those of the row, or those a PUT has replaced that is not   *)
(* answered yet (ConnectionCache).                                            *)
EXTENDS Naturals, FiniteSets, Sequences

CONSTANTS
    Calls,
    Routes,         \* names of RouteTable that are asked for
    Senders,        \* addresses that attempts to sign in come from
    MaxBuckets, MaxAttempts, MaxPasswordChecks, WindowLength, MaxTime,
    None

ASSUME AdmissionAssumption ==
    /\ MaxBuckets \in Nat \ {0} /\ MaxAttempts \in Nat \ {0} /\ WindowLength \in Nat \ {0}
    /\ MaxPasswordChecks \in Nat /\ MaxTime \in Nat

VARIABLES
    user,           \* [live, must, may]: session, password to change, permissions
    conn,           \* [there, public, listed, allows]: the connection and its capabilities
    replaced,       \* capabilities before the PUT that is not answered, or None
    key,            \* [state, scope, account]: a key of a service account
    call,           \* Calls -> [pc, route, may, must, key]
    held,           \* Calls -> rights there were at some time since it came (history)
    buckets,        \* <<[sender, count, ends], ...>>, the least recently used first
    checks,         \* password checks that run
    now,
    since           \* Senders -> senders that tried since its last attempt (history)

admissionVars == <<user, conn, replaced, key, call, held>>
attemptVars == <<buckets, checks, now, since>>
guardVars == <<admissionVars, attemptVars>>

-----------------------------------------------------------------------------
(* The routes and what they ask for.                                         *)

Route(changes, permission, scoped, capability) ==
    [door |-> "browser", changes |-> changes, permission |-> permission,
     scoped |-> scoped, capability |-> capability, hides |-> FALSE]

KeyRoute(scope) ==
    [door |-> "key", changes |-> scope = "lineage:write", permission |-> scope,
     scoped |-> FALSE, capability |-> None, hides |-> FALSE]

\* A job is about a connection, and its result shows names: the route looks at
\* both itself, and what may not be seen is not there.
JobRoute(changes, permission) ==
    [Route(changes, permission, TRUE, "list") EXCEPT !.hides = TRUE]

RouteTable ==
    [ connections     |-> [Route(FALSE, None, TRUE, None) EXCEPT !.hides = TRUE],
      editConnection  |-> Route(TRUE, "connections:manage", FALSE, None),
      list            |-> Route(FALSE, None, TRUE, "list"),
      scan            |-> Route(TRUE, "jobs:operate", TRUE, "list"),
      measure         |-> Route(TRUE, "connections:manage", TRUE, "list"),
      preview         |-> Route(FALSE, None, TRUE, "preview"),
      raw             |-> Route(FALSE, None, TRUE, "download"),
      tarEntry        |-> Route(FALSE, None, TRUE, "archive"),
      analyze         |-> Route(FALSE, None, TRUE, "audioInfo"),
      spectrogram     |-> Route(FALSE, None, TRUE, "audioSpectrogram"),
      readme          |-> Route(FALSE, None, TRUE, "readmeRead"),
      editReadme      |-> Route(TRUE, "content:write", TRUE, "readmeWrite"),
      estimate        |-> Route(FALSE, None, TRUE, None),
      favorite        |-> Route(TRUE, "content:write", TRUE, None),
      editNote        |-> Route(TRUE, "content:write", FALSE, None),
      editSetting     |-> Route(TRUE, "settings:manage", FALSE, None),
      job             |-> JobRoute(FALSE, None),
      cancelJob       |-> JobRoute(TRUE, "jobs:operate"),
      lineage         |-> Route(FALSE, "lineage:read", FALSE, None),
      issueKey        |-> Route(TRUE, "service_accounts:manage", FALSE, None),
      metrics         |-> KeyRoute("metrics:read"),
      ingest          |-> KeyRoute("lineage:write") ]

ASSUME RoutesAssumption == Routes \subseteq DOMAIN RouteTable

Baseline == "storage:read"

BrowserRoutes == {n \in Routes : RouteTable[n].door = "browser"}

Capabilities == {RouteTable[n].capability : n \in Routes} \ {None}

Permissions(route) == {Baseline} \cup ({route.permission} \ {None})

\* The rights a route is admitted on.
Needs(route) ==
    IF route.door = "key" THEN {"key"}
    ELSE {"session"} \cup (IF route.scoped THEN {"access"} ELSE {})
                     \cup (IF route.capability = None THEN {} ELSE {"capability"})

MaySee(may) ==
    \/ "connections:manage" \in may
    \/ conn.there /\ (conn.public \/ conn.listed)

\* What of it is there now (for the history).
Rights(route) ==
    {right \in Needs(route) :
        \/ right = "session" /\ user.live
        \/ right = "access" /\ MaySee(user.may)
        \/ right = "capability" /\ \/ conn.there /\ route.capability \in conn.allows
                                   \/ replaced # None /\ route.capability \in replaced
        \/ right = "key" /\ key.state = "live" /\ key.account = "active" /\ key.scope = route.permission}

RouteOf(r) == RouteTable[call[r].route]

NoCall == [pc |-> "idle"]
UnderWay(r) == call[r].pc # "idle"

Noted == held' = [r \in Calls |-> IF UnderWay(r) THEN held[r] \cup Rights(RouteOf(r))' ELSE {}]

AdmissionInit ==
    /\ user \in [live : {TRUE}, must : BOOLEAN, may : SUBSET UNION {Permissions(RouteTable[n]) : n \in BrowserRoutes}]
    /\ conn \in [there : {TRUE}, public : {TRUE}, listed : {FALSE}, allows : {Capabilities}]
    /\ replaced = None
    /\ key = [state |-> "none", scope |-> None, account |-> "active"]
    /\ call = [r \in Calls |-> NoCall]
    /\ held = [r \in Calls |-> {}]

-----------------------------------------------------------------------------
(* The guards.                                                               *)

To(r, pc) == call' = [call EXCEPT ![r].pc = pc]

\* A route is done when no guard is left; what follows is its own work.
AfterAccess(r) ==
    IF RouteOf(r).capability # None THEN "capability"
    ELSE IF call[r].route = "connections" THEN "rows" ELSE "admitted"

\* mutant: the guards of a capability come before that of the connection
AfterPermit_Direct(r) == AfterAccess(r)

AfterPermit(r) == IF RouteOf(r).scoped THEN "access" ELSE AfterAccess(r)

\* A request that changes something comes from an allowed Origin.
Arrive(r, name) ==
    /\ ~UnderWay(r)
    /\ call' = [call EXCEPT ![r] =
          [pc |-> RouteTable[name].door, route |-> name, may |-> {}, must |-> FALSE]]
    /\ held' = [held EXCEPT ![r] = Rights(RouteTable[name])]
    /\ UNCHANGED <<user, conn, replaced, key>>

\* requireSession: the user as the SELECT finds it.
Authenticate(r) ==
    /\ call[r].pc = "browser"
    /\ IF user.live
       THEN call' = [call EXCEPT ![r].pc = "permission", ![r].may = user.may, ![r].must = user.must]
       ELSE To(r, "unauthorized")
    /\ UNCHANGED <<user, conn, replaced, key, held>>

\* The intent of a change has been written, or could not be.
Permit(r) ==
    /\ call[r].pc = "permission"
    /\ \/ To(r, IF ~call[r].must /\ Permissions(RouteOf(r)) \subseteq call[r].may
                THEN AfterPermit(r) ELSE "forbidden")
       \/ RouteOf(r).changes /\ To(r, "failed")
    /\ UNCHANGED <<user, conn, replaced, key, held>>

\* What the user may not see is not there.
SeeConnection(r) ==
    /\ call[r].pc = "access"
    /\ To(r, IF MaySee(call[r].may) THEN AfterAccess(r) ELSE "not found")
    /\ UNCHANGED <<user, conn, replaced, key, held>>

\* The list of connections is made of those that are there in a second SELECT.
ReadRows(r) ==
    /\ call[r].pc = "rows"
    /\ To(r, IF conn.there THEN "admitted" ELSE "not found")
    /\ UNCHANGED <<user, conn, replaced, key, held>>

\* requireCapability, by the settings the process remembers or reads.
CheckCapability(r) ==
    /\ call[r].pc = "capability"
    /\ \E known \in {conn.allows, replaced} \ {None} :
          /\ known = replaced \/ conn.there
          /\ To(r, IF RouteOf(r).capability \in known THEN "admitted"
                   ELSE IF RouteOf(r).hides THEN "not found" ELSE "not allowed")
    /\ UNCHANGED <<user, conn, replaced, key, held>>

NoConnection(r) ==
    /\ call[r].pc = "capability" /\ ~conn.there
    /\ To(r, "not found")
    /\ UNCHANGED <<user, conn, replaced, key, held>>

\* The SELECT of authenticate, which no session is asked for.
KeyOpens == key.state = "live" /\ key.account = "active"

CheckKey(r) ==
    /\ call[r].pc = "key"
    /\ \/ KeyOpens /\ To(r, IF key.scope = RouteOf(r).permission THEN "admitted" ELSE "forbidden")
       \/ ~KeyOpens /\ To(r, "unauthorized")
       \/ To(r, "failed")
    /\ UNCHANGED <<user, conn, replaced, key, held>>

Answered(r) ==
    /\ call[r].pc \in {"admitted", "unauthorized", "forbidden", "not found", "not allowed", "failed"}
    /\ call' = [call EXCEPT ![r] = NoCall]
    /\ held' = [held EXCEPT ![r] = {}]
    /\ UNCHANGED <<user, conn, replaced, key>>

-----------------------------------------------------------------------------
(* What changes meanwhile.                                                   *)

SessionIsEnded ==
    /\ user.live
    /\ user' = [user EXCEPT !.live = FALSE]
    /\ UNCHANGED <<conn, replaced, key, call>> /\ Noted

\* PUT and DELETE of a connection commit, and are answered when the process has
\* forgotten what it knew.
EditConnection ==
    /\ conn.there /\ replaced = None
    /\ \E public, listed \in BOOLEAN, allows \in SUBSET Capabilities :
          conn' = [conn EXCEPT !.public = public, !.listed = listed, !.allows = allows]
    /\ replaced' = conn.allows
    /\ UNCHANGED <<user, key, call>> /\ Noted

DeleteConnection ==
    /\ conn.there /\ replaced = None
    /\ conn' = [conn EXCEPT !.there = FALSE]
    /\ replaced' = conn.allows
    /\ UNCHANGED <<user, key, call>> /\ Noted

PutAnswered ==
    /\ replaced # None
    /\ replaced' = None
    /\ UNCHANGED <<user, conn, key, call>> /\ Noted

\* The key and its scope are one transaction.
IssueKey ==
    /\ key.state = "none"
    /\ \E scope \in {"metrics:read", "lineage:write"} :
          key' = [key EXCEPT !.state = "live", !.scope = scope]
    /\ UNCHANGED <<user, conn, replaced, call>> /\ Noted

\* A second revocation finds no key (404); an expired key can still be revoked.
RevokeKey ==
    /\ key.state \in {"live", "expired"}
    /\ key' = [key EXCEPT !.state = "revoked"]
    /\ UNCHANGED <<user, conn, replaced, call>> /\ Noted

KeyExpires ==
    /\ key.state = "live"
    /\ key' = [key EXCEPT !.state = "expired"]
    /\ UNCHANGED <<user, conn, replaced, call>> /\ Noted

\* PATCH of the account; one that changes nothing writes nothing.
UpdateAccount ==
    /\ \E status \in {"active", "disabled"} \ {key.account} : key' = [key EXCEPT !.account = status]
    /\ UNCHANGED <<user, conn, replaced, call>> /\ Noted

-----------------------------------------------------------------------------
(* Attempts to sign in.                                                      *)

AttemptsInit ==
    /\ buckets = <<>> /\ checks = 0 /\ now = 0
    /\ since = [s \in Senders |-> {}]

InOrder(I) == [k \in 1 .. Cardinality(I) |-> CHOOSE i \in I : Cardinality({j \in I : j <= i}) = k]

\* The buckets at the positions I, in the order they have.
Those(bs, I) == LET at == InOrder(I) IN [k \in DOMAIN at |-> bs[at[k]]]

Without(s) == Those(buckets, {i \in DOMAIN buckets : buckets[i].sender # s})

Running(s) == {b \in {buckets[i] : i \in DOMAIN buckets} : b.sender = s /\ b.ends > now}

\* At the limit, windows that are over go first, then the least recently used.
EnsureCapacity(bs) ==
    LET open == {i \in DOMAIN bs : bs[i].ends > now} IN
    IF Len(bs) < MaxBuckets THEN bs
    ELSE Those(bs, {i \in open : Cardinality({j \in open : j > i}) < MaxBuckets - 1})

\* mutant: a bucket keeps its place when it is used
Moved_Stays(b) == [i \in DOMAIN buckets |-> IF buckets[i].sender = b.sender THEN b ELSE buckets[i]]

Moved(b) == Append(Without(b.sender), b)

\* consume: in a window that runs, up to its limit; else in a new one.
Consume(s) ==
    /\ \/ /\ Running(s) = {}
          /\ buckets' = Append(EnsureCapacity(Without(s)),
                               [sender |-> s, count |-> 1, ends |-> now + WindowLength])
       \/ \E b \in Running(s) :
             buckets' = Moved([b EXCEPT !.count = IF @ < MaxAttempts THEN @ + 1 ELSE @])
    /\ since' = [t \in Senders |-> IF t = s THEN {} ELSE since[t] \cup {s}]
    /\ UNCHANGED <<checks, now>>

\* passwordCheck: one too many is told to come again.
StartCheck ==
    /\ checks < MaxPasswordChecks /\ buckets # <<>>
    /\ checks' = checks + 1
    /\ UNCHANGED <<buckets, now, since>>

\* It ends, or throws.
EndCheck ==
    /\ checks > 0
    /\ checks' = checks - 1
    /\ UNCHANGED <<buckets, now, since>>

ClockTicks ==
    /\ now < MaxTime
    /\ now' = now + 1
    /\ UNCHANGED <<buckets, checks, since>>

-----------------------------------------------------------------------------
GuardsNext ==
    \/ \E r \in Calls :
          \/ \E name \in Routes : Arrive(r, name)
          \/ Authenticate(r) \/ Permit(r) \/ SeeConnection(r) \/ ReadRows(r)
          \/ CheckCapability(r) \/ NoConnection(r) \/ CheckKey(r) \/ Answered(r)
    \/ SessionIsEnded \/ EditConnection \/ DeleteConnection \/ PutAnswered
    \/ IssueKey \/ RevokeKey \/ KeyExpires \/ UpdateAccount

AttemptsNext ==
    \/ \E s \in Senders : Consume(s)
    \/ StartCheck \/ EndCheck \/ ClockTicks

GuardsInit == AdmissionInit /\ AttemptsInit
GuardsStep == GuardsNext /\ UNCHANGED attemptVars
AttemptsStep == AttemptsNext /\ UNCHANGED admissionVars

GuardsSpec == GuardsInit /\ [][GuardsStep \/ AttemptsStep]_guardVars

-----------------------------------------------------------------------------
\* Whatever is withdrawn between two guards, a request does its work only on
\* rights it has had since it came: the session and the key, the sight of the
\* connection, and a capability that was on, or that a PUT took away without
\* being answered yet. A connection the user could not see in all that time is
\* answered as one that does not exist, also where a capability is off.
AdmittedOnFreshRights ==
    \A r \in Calls :
        /\ call[r].pc = "admitted" => Needs(RouteOf(r)) \subseteq held[r]
        /\ call[r].pc = "not allowed" => "access" \in held[r]

\* While a window runs, its bucket stays, with the same end and no smaller
\* count; it is only forgotten for MaxBuckets others that were used after it.
WindowsAreKept ==
    [][\A s \in Senders : \A b \in Running(s) :
          \/ \E i \in DOMAIN buckets' :
                LET kept == buckets'[i] IN kept.sender = s /\ kept.ends = b.ends /\ kept.count >= b.count
          \/ Cardinality(since'[s]) >= MaxBuckets]_attemptVars
=============================================================================
