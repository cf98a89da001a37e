---------------------------- MODULE OidcSessions ----------------------------
(* Sessions that a single sign-on opened (routes/auth.ts, lib/auth-oidc.ts,   *)
(* lib/auth-oidc-session.ts, lib/auth-session-store.ts): the login, the       *)
(* recheck with the identity provider that a request makes when its session   *)
(* was not checked for a minute, and the logouts the provider sends.          *)
(*                                                                            *)
(* One subject of one provider.  The provider rotates refresh tokens: one     *)
(* works once.  A group is the role it is mapped to, or Outside.              *)
EXTENDS Naturals, FiniteSets

CONSTANTS
    Logins,         \* logins; each has a session at the provider and one here
    Visits,         \* requests with the cookie of a session
    Groups,         \* groups that may log in
    Outside,        \* no longer in any of them
    Sidless,        \* logins whose ID token had no sid
    MaxPending,     \* MAX_PENDING_ATTEMPTS_PER_BROWSER
    MaxAnswers,     \* bound: checks of a session that were stored
    NoOne

ASSUME OidcAssumption ==
    NoOne # Outside /\ Outside \notin Groups /\ NoOne \notin Logins /\ Sidless \subseteq Logins

VARIABLES
    idpGroup,       \* the provider: the group of the subject
    idpSession,     \* Logins -> its session: none, open or closed
    idpRefresh,     \* Logins -> the refresh token that works
    logoutToken,    \* Logins -> its logout token: none, sent or used (jti)
    attempt,        \* Logins -> auth_oidc_attempts: none, pending, used or expired
    signIn,         \* Logins -> [pc, group]: the start and the callback
    sso,            \* Logins -> auth_sessions
    ssoRole,        \* the role of the user
    check,          \* Logins -> the load that SharedRequests shares
    visit,          \* Visits -> [pc, on, row, role, doomed]
    spent,          \* Logins -> refresh tokens the provider has exchanged (history)
    lostRefresh,    \* Logins -> a token that was renewed was not stored (history)
    loggedOut       \* Logins -> a logout was accepted: no, yes, or during the login (history)

idpVars == <<idpGroup, idpSession, idpRefresh, logoutToken>>
pastVars == <<spent, lostRefresh, loggedOut>>
ssoVars == <<idpVars, attempt, signIn, sso, ssoRole, check, visit, pastVars>>

NoSession == [state |-> "none", tokens |-> FALSE, refresh |-> 0, lapsed |-> FALSE,
              due |-> FALSE, n |-> 0]
NoCheck == [pc |-> "none", row |-> NoSession, role |-> NoOne, renewed |-> 0]
NoVisit == [pc |-> "idle", on |-> NoOne, row |-> NoSession, role |-> NoOne, doomed |-> FALSE]

OidcInit ==
    /\ idpGroup \in Groups
    /\ idpSession = [l \in Logins |-> "none"]
    /\ idpRefresh = [l \in Logins |-> 0]
    /\ logoutToken = [l \in Logins |-> "none"]
    /\ attempt = [l \in Logins |-> "none"]
    /\ signIn = [l \in Logins |-> [pc |-> "idle", group |-> NoOne]]
    /\ sso = [l \in Logins |-> NoSession]
    /\ ssoRole = idpGroup
    /\ check = [l \in Logins |-> NoCheck]
    /\ visit = [v \in Visits |-> NoVisit]
    /\ spent = [l \in Logins |-> {}]
    /\ lostRefresh = [l \in Logins |-> FALSE]
    /\ loggedOut = [l \in Logins |-> "no"]

-----------------------------------------------------------------------------
(* The login.                                                                *)

Moves(l, pc) == signIn' = [signIn EXCEPT ![l].pc = pc]

\* The pending attempts are counted in one statement and the row is inserted in
\* another.
StartLogin(l) ==
    /\ signIn[l].pc = "idle"
    /\ Moves(l, IF Cardinality({m \in Logins : attempt[m] = "pending"}) < MaxPending
                THEN "insert" ELSE "failed")
    /\ UNCHANGED <<idpVars, attempt, sso, ssoRole, check, visit, pastVars>>

InsertAttempt(l) ==
    /\ signIn[l].pc = "insert"
    /\ attempt' = [attempt EXCEPT ![l] = "pending"]
    /\ Moves(l, "away")
    /\ UNCHANGED <<idpVars, sso, ssoRole, check, visit, pastVars>>

\* The subject logs in at the provider and is sent back.
IdpLogin(l) ==
    /\ signIn[l].pc = "away" /\ idpSession[l] = "none"
    /\ idpSession' = [idpSession EXCEPT ![l] = "open"]
    /\ UNCHANGED <<idpGroup, idpRefresh, logoutToken, attempt, signIn, sso, ssoRole, check,
                   visit, pastVars>>

ClaimAttempt(l) ==
    /\ signIn[l].pc = "away" /\ idpSession[l] # "none"
    /\ IF attempt[l] = "pending"
       THEN attempt' = [attempt EXCEPT ![l] = "used"] /\ Moves(l, "grant")
       ELSE UNCHANGED attempt /\ Moves(l, "failed")
    /\ UNCHANGED <<idpVars, sso, ssoRole, check, visit, pastVars>>

GrantCode(l) ==
    /\ signIn[l].pc = "grant"
    /\ \/ /\ idpSession[l] = "open"
          /\ signIn' = [signIn EXCEPT ![l] = [pc |-> "provision", group |-> idpGroup]]
          /\ idpRefresh' = [idpRefresh EXCEPT ![l] = 1]
       \/ Moves(l, "failed") /\ UNCHANGED idpRefresh
    /\ UNCHANGED <<idpGroup, idpSession, logoutToken, attempt, sso, ssoRole, check, visit, pastVars>>

\* The roles of the user follow the group; sessions opened before are kept.
ProvisionUser(l) ==
    /\ signIn[l].pc = "provision"
    /\ \/ /\ signIn[l].group # Outside
          /\ ssoRole' = signIn[l].group
          /\ Moves(l, "create")
       \/ Moves(l, "failed") /\ UNCHANGED ssoRole
    /\ UNCHANGED <<idpVars, attempt, sso, check, visit, pastVars>>

\* With the tokens the provider gave: none, an access token, or both.
CreateSession(l) ==
    /\ signIn[l].pc = "create"
    /\ \/ /\ \E tokens \in BOOLEAN, refresh \in {0, 1} :
                sso' = [sso EXCEPT ![l] =
                    [NoSession EXCEPT !.state = "live", !.tokens = tokens, !.n = 1,
                                      !.refresh = IF tokens THEN refresh ELSE 0]]
          /\ Moves(l, "in")
       \/ Moves(l, "failed") /\ UNCHANGED sso
    /\ UNCHANGED <<idpVars, attempt, ssoRole, check, visit, pastVars>>

-----------------------------------------------------------------------------
(* Revocation, which also forgets the tokens.                                *)

Live(l) == sso[l].state = "live"

RevokeSessions(gone) ==
    sso' = [l \in Logins |->
              IF l \in gone /\ Live(l)
              THEN [sso[l] EXCEPT !.state = "revoked", !.tokens = FALSE, !.refresh = 0]
              ELSE sso[l]]

\* A logout names a session of the provider, or the subject.
OfLogout(l, bySid) == IF bySid THEN {l} \ Sidless ELSE Logins

LogsOut(l, bySid) ==
    /\ RevokeSessions(OfLogout(l, bySid))
    /\ loggedOut' = [m \in Logins |->
          IF m \notin OfLogout(l, bySid) THEN loggedOut[m]
          ELSE IF signIn[m].pc \in {"in", "failed"} THEN "yes" ELSE "during"]

\* Front channel: no token, only a session of the provider.
FrontchannelLogout(l) ==
    /\ idpSession[l] = "closed"
    /\ LogsOut(l, TRUE)
    /\ UNCHANGED <<idpVars, attempt, signIn, ssoRole, check, visit, spent, lostRefresh>>

\* Back channel: the jti and the revocation commit together.  A token whose jti is
\* stored is refused; one whose transaction failed is sent again.
BackchannelLogout(l, bySid) ==
    /\ logoutToken[l] = "sent"
    /\ logoutToken' = [logoutToken EXCEPT ![l] = "used"]
    /\ LogsOut(l, bySid)
    /\ UNCHANGED <<idpGroup, idpSession, idpRefresh, attempt, signIn, ssoRole, check, visit,
                   spent, lostRefresh>>

\* POST /logout, of the cookie's own session.
Logout(l) ==
    /\ Live(l)
    /\ RevokeSessions({l})
    /\ UNCHANGED <<idpVars, attempt, signIn, ssoRole, check, visit, pastVars>>

-----------------------------------------------------------------------------
(* A request.                                                                *)

\* isFresh
Fresh_UntilExpiry(row) == row.tokens /\ ~row.lapsed
Fresh(row) == row.tokens /\ ~row.due /\ ~row.lapsed

On(l) == {v \in Visits : visit[v].pc = "waiting" /\ visit[v].on = l}

Ends(l, pc) == visit' = [v \in Visits |-> IF v \in On(l) THEN [visit[v] EXCEPT !.pc = pc] ELSE visit[v]]

\* authenticateSession reads the row and the roles together.
ReadSession(v, l) ==
    /\ visit[v].pc = "idle" /\ Live(l)
    /\ visit' = [visit EXCEPT ![v] = [NoVisit EXCEPT !.pc = "read", !.on = l, !.row = sso[l],
                                                     !.role = ssoRole]]
    /\ UNCHANGED <<idpVars, attempt, signIn, sso, ssoRole, check, pastVars>>

\* History: the provider has closed the session, or the subject has left, and no
\* check of the session has heard otherwise from the provider yet.
Doomed(v) ==
    LET l == visit[v].on IN
    /\ \A row \in {visit[v].row, sso[l]} : row.due \/ row.lapsed
    /\ idpSession[l] = "closed" \/ idpGroup = Outside
    /\ check[l].pc # "update"

VerifyOidc(v) ==
    LET l == visit[v].on  row == visit[v].row IN
    /\ visit[v].pc = "read"
    /\ IF ~row.tokens
       THEN visit' = [visit EXCEPT ![v].pc = "revoking"] /\ UNCHANGED check
       ELSE IF Fresh(row)
       THEN visit' = [visit EXCEPT ![v].pc = "accepted", ![v].doomed = Doomed(v)] /\ UNCHANGED check
       ELSE /\ visit' = [visit EXCEPT ![v].pc = "waiting", ![v].doomed = Doomed(v)]
            /\ check' = IF check[l].pc # "none" THEN check
                        ELSE [check EXCEPT ![l] = [NoCheck EXCEPT !.pc = "reread", !.row = row,
                                                                  !.role = visit[v].role]]
    /\ UNCHANGED <<idpVars, attempt, signIn, sso, ssoRole, pastVars>>

\* A session without tokens has to log in again.
RequireLogin(v) ==
    /\ visit[v].pc = "revoking"
    /\ \/ RevokeSessions({visit[v].on}) /\ visit' = [visit EXCEPT ![v].pc = "refused"]
       \/ visit' = [visit EXCEPT ![v].pc = "unavailable"] /\ UNCHANGED sso
    /\ UNCHANGED <<idpVars, attempt, signIn, ssoRole, check, pastVars>>

-----------------------------------------------------------------------------
(* The check that the requests of a session share.                           *)

Checking(l, pc) == check' = [check EXCEPT ![l].pc = pc]

EndCheck(l, pc) == check' = [check EXCEPT ![l] = NoCheck] /\ Ends(l, pc)

\* mutant: the check goes on with the row its first request has read
Reread_None(l) ==
    /\ check[l].pc = "reread"
    /\ Checking(l, IF check[l].row.lapsed THEN "refresh" ELSE "userinfo") /\ UNCHANGED visit
    /\ UNCHANGED <<idpVars, attempt, signIn, sso, ssoRole, pastVars>>

\* The row again, for the tokens that an earlier check has stored.
Reread(l) ==
    /\ check[l].pc = "reread"
    /\ CASE ~Live(l) -> EndCheck(l, "refused")
         [] Live(l) /\ Fresh(sso[l]) -> EndCheck(l, "accepted")
         [] Live(l) /\ ~sso[l].tokens -> Checking(l, "revoke") /\ UNCHANGED visit
         [] OTHER -> /\ check' = [check EXCEPT ![l].row = sso[l],
                           ![l].pc = IF sso[l].lapsed THEN "refresh" ELSE "userinfo"]
                     /\ UNCHANGED visit
    /\ UNCHANGED <<idpVars, attempt, signIn, sso, ssoRole, pastVars>>

Works(l) == idpSession[l] = "open" /\ check[l].row.refresh = idpRefresh[l]

Exchanges(l) ==
    /\ idpRefresh' = [idpRefresh EXCEPT ![l] = @ + 1]
    /\ spent' = [spent EXCEPT ![l] = @ \cup {idpRefresh[l]}]

\* refreshTokenGrant; when no answer comes the provider may have renewed it.
RefreshGrant(l) ==
    /\ check[l].pc = "refresh"
    /\ IF check[l].row.refresh = 0
       THEN Checking(l, "revoke") /\ UNCHANGED <<idpRefresh, visit, spent, lostRefresh>>
       ELSE \/ /\ Works(l)
               /\ Exchanges(l)
               /\ check' = [check EXCEPT ![l].pc = "userinfo", ![l].renewed = idpRefresh[l] + 1]
               /\ UNCHANGED <<visit, lostRefresh>>
            \/ /\ ~Works(l)
               /\ Checking(l, "revoke")
               /\ UNCHANGED <<idpRefresh, spent, visit, lostRefresh>>
            \/ /\ EndCheck(l, "unavailable")
               /\ \/ /\ Works(l) /\ Exchanges(l)
                     /\ lostRefresh' = [lostRefresh EXCEPT ![l] = TRUE]
                  \/ UNCHANGED <<idpRefresh, spent, lostRefresh>>
    /\ UNCHANGED <<idpGroup, idpSession, logoutToken, attempt, signIn, sso, ssoRole, loggedOut>>

\* A check that ends here, or fails to store its answer, forgets a renewed token.
Forgets(l) ==
    lostRefresh' = [lostRefresh EXCEPT ![l] = @ \/ check[l].renewed # 0]

\* The groups of now decide, not those of the login.
FetchUserInfo(l) ==
    /\ check[l].pc = "userinfo"
    /\ \/ /\ idpSession[l] = "closed"
          /\ Checking(l, "revoke") /\ UNCHANGED <<visit, lostRefresh>>
       \/ /\ idpSession[l] = "open"
          /\ Checking(l, IF idpGroup = check[l].role THEN "update" ELSE "revoke all")
          /\ UNCHANGED <<visit, lostRefresh>>
       \/ EndCheck(l, "unavailable") /\ Forgets(l)
    /\ UNCHANGED <<idpVars, attempt, signIn, sso, ssoRole, spent, loggedOut>>

RevokeChecked(l) ==
    /\ check[l].pc \in {"revoke", "revoke all"}
    /\ \/ /\ RevokeSessions(IF check[l].pc = "revoke" THEN {l} ELSE Logins)
          /\ EndCheck(l, "refused") /\ UNCHANGED lostRefresh
       \/ UNCHANGED sso /\ EndCheck(l, "unavailable") /\ Forgets(l)
    /\ UNCHANGED <<idpVars, attempt, signIn, ssoRole, spent, loggedOut>>

Checked(l) ==
    [sso[l] EXCEPT !.due = FALSE, !.lapsed = FALSE, !.tokens = TRUE, !.n = @ + 1,
        !.refresh = IF check[l].renewed # 0 THEN check[l].renewed ELSE check[l].row.refresh]

\* Only if the session lives and holds the access token the check began with.
StoreAnswer(l) ==
    /\ check[l].pc = "update"
    /\ \/ /\ Live(l) /\ sso[l].n = check[l].row.n
          /\ sso' = [sso EXCEPT ![l] = Checked(l)]
          /\ EndCheck(l, "accepted") /\ UNCHANGED lostRefresh
       \/ /\ ~(Live(l) /\ sso[l].n = check[l].row.n)
          /\ EndCheck(l, "refused") /\ UNCHANGED <<sso, lostRefresh>>
       \/ EndCheck(l, "unavailable") /\ Forgets(l) /\ UNCHANGED sso
    /\ UNCHANGED <<idpVars, attempt, signIn, ssoRole, spent, loggedOut>>

-----------------------------------------------------------------------------
(* The provider, time, and the end of the process.                           *)

\* A subject that has left stays out (a bound).
IdpMoves(group) ==
    /\ idpGroup \notin {Outside, group}
    /\ idpGroup' = group
    /\ UNCHANGED <<idpSession, idpRefresh, logoutToken, attempt, signIn, sso, ssoRole, check,
                   visit, pastVars>>

IdpCloses(l) ==
    /\ idpSession[l] = "open"
    /\ idpSession' = [idpSession EXCEPT ![l] = "closed"]
    /\ \E sent \in {"none", "sent"} : logoutToken' = [logoutToken EXCEPT ![l] = sent]
    /\ UNCHANGED <<idpGroup, idpRefresh, attempt, signIn, sso, ssoRole, check, visit, pastVars>>

AttemptExpires(l) ==
    /\ attempt[l] = "pending"
    /\ attempt' = [attempt EXCEPT ![l] = "expired"]
    /\ UNCHANGED <<idpVars, signIn, sso, ssoRole, check, visit, pastVars>>

\* A minute has passed since the last check; or the access token has expired.
TimePasses(l) ==
    /\ Live(l) /\ sso[l].n <= MaxAnswers
    /\ \E new \in {[sso[l] EXCEPT !.due = TRUE], [sso[l] EXCEPT !.lapsed = TRUE]} :
          new # sso[l] /\ sso' = [sso EXCEPT ![l] = new]
    /\ UNCHANGED <<idpVars, attempt, signIn, ssoRole, check, visit, pastVars>>

SsoRestart ==
    /\ check' = [l \in Logins |-> NoCheck]
    /\ visit' = [v \in Visits |-> IF visit[v].pc = "idle" THEN visit[v] ELSE
                                  [NoVisit EXCEPT !.pc = "unavailable"]]
    /\ signIn' = [l \in Logins |->
          IF signIn[l].pc \in {"insert", "grant", "provision", "create"}
          THEN [signIn[l] EXCEPT !.pc = "failed"] ELSE signIn[l]]
    /\ lostRefresh' = [l \in Logins |-> lostRefresh[l] \/ check[l].renewed # 0]
    /\ UNCHANGED <<idpVars, attempt, sso, ssoRole, spent, loggedOut>>

OidcNext ==
    \/ \E l \in Logins :
          \/ StartLogin(l) \/ InsertAttempt(l) \/ IdpLogin(l) \/ ClaimAttempt(l)
          \/ GrantCode(l) \/ ProvisionUser(l) \/ CreateSession(l)
          \/ FrontchannelLogout(l) \/ Logout(l)
          \/ \E bySid \in BOOLEAN : BackchannelLogout(l, bySid)
          \/ Reread(l) \/ RefreshGrant(l) \/ FetchUserInfo(l) \/ RevokeChecked(l) \/ StoreAnswer(l)
          \/ IdpCloses(l) \/ AttemptExpires(l) \/ TimePasses(l)
          \/ \E v \in Visits : ReadSession(v, l)
    \/ \E v \in Visits : VerifyOidc(v) \/ RequireLogin(v)
    \/ \E group \in Groups \cup {Outside} : IdpMoves(group)
    \/ SsoRestart

OidcSpec == OidcInit /\ [][OidcNext]_ssoVars

-----------------------------------------------------------------------------
\* A request that finds its session unchecked for a minute, after the provider has
\* closed the session or let the subject go, is not let in: not by the check it
\* starts, not by one it joins before that one was answered, and not when the
\* session was opened while its logout arrived.
AcceptedOnFreshWord ==
    [][\A v \in Visits : visit'[v].pc = "accepted" => ~visit'[v].doomed]_ssoVars

\* A session that was there when its logout was accepted is over, and no late
\* answer of a check gives an ended session its tokens back.  Only the session of
\* a login under way at that moment is opened all the same.
LogoutEndsTheSession ==
    \A l \in Logins :
        /\ loggedOut[l] = "yes" => ~Live(l)
        /\ sso[l].state = "revoked" => ~sso[l].tokens /\ sso[l].refresh = 0

\* A refresh token that was exchanged is presented again only if the provider's
\* answer to it was lost on the way to the database.
RefreshReusedOnlyAfterLoss ==
    \A l \in Logins :
        check[l].pc = "refresh" /\ check[l].row.refresh \in spent[l] => lostRefresh[l]

\* The tokens of a session go with it, and are renewed from the last answer stored.
TokensFollowTheSession == LogoutEndsTheSession /\ RefreshReusedOnlyAfterLoss

\* "Uses the tokens another request has renewed while it waited, and avoids using
\* an old refresh token again" (auth-oidc-session.ts:57).
OldRefreshTokenIsNotReused ==
    \A l \in Logins : check[l].pc = "refresh" => check[l].row.refresh \notin spent[l]
=============================================================================
