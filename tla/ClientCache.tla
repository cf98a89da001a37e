---------------------------- MODULE ClientCache -----------------------------
(* The caches of the browser (front/lib/api/cache.ts), of which one persisted *)
(* key is followed here, and the login state that clears them (lib/auth.tsx,  *)
(* lib/auth-session-state.ts).  The tabs of one browser share the cookie and  *)
(* localStorage; each has its own memory.  What the api answers is abstracted *)
(* to the user it was answered for and the number of writes it reflects.      *)
(*                                                                            *)
(* Users sign in at the login page; none has to change the password first.    *)
EXTENDS Naturals, Sequences, FiniteSets

CONSTANTS
    Tabs, Users,
    Loads,          \* requests a tab may have under way for the key
    MaxWrites,
    MaxChecks,      \* GETs of /me that reload() has under way in a tab
    NoUser

ASSUME ClientAssumption == NoUser \notin Users /\ 0 \notin Loads /\ MaxWrites \in Nat

VARIABLES
    cookie,         \* the user whose session the browser's cookie names
    written,        \* writes the api has made
    disk,           \* localStorage: [val, fresh]
    store,          \* Tabs -> the entry of the key: [val, fresh, load]
    request,        \* Tabs -> Loads -> [pc, val, awaited]
    putting,        \* Tabs -> a PUT is made, its answer on the way
    page,           \* Tabs -> [user, screenUser, loading, leaving, confirming]
    me,             \* Tabs -> answers of /me on the way to reload()
    floor,          \* Tabs -> writes made when the tab last dropped the key (history)
    named           \* Tabs -> users the cookie named since the tab was last
                    \* without one (history)

cacheVars == <<disk, store, request, floor>>
loginVars == <<cookie, page, me, named>>
tabVars == <<cacheVars, loginVars, written, putting>>

Values == [of : Users, at : 0..MaxWrites, by : Tabs]
NoVal == [of |-> NoUser]
NoEntry == [val |-> NoVal, fresh |-> FALSE, load |-> 0]
NoRequest == [pc |-> "none", val |-> NoVal, awaited |-> FALSE]
NotSaved == [val |-> NoVal, fresh |-> FALSE]

SignedOut == [user |-> NoUser, screenUser |-> NoUser, loading |-> FALSE,
              leaving |-> FALSE, confirming |-> "no"]

ClientInit ==
    /\ cookie \in Users \cup {NoUser} /\ written = 0 /\ disk = NotSaved
    /\ store = [t \in Tabs |-> NoEntry]
    /\ request = [t \in Tabs |-> [l \in Loads |-> NoRequest]]
    /\ putting = [t \in Tabs |-> FALSE]
    /\ page = [t \in Tabs |-> [SignedOut EXCEPT !.user = cookie, !.screenUser = cookie]]
    /\ me = [t \in Tabs |-> {}]
    /\ floor = [t \in Tabs |-> 0]
    /\ named = [t \in Tabs |-> {cookie} \ {NoUser}]

-----------------------------------------------------------------------------
(* Dropping.  A request under way goes on without an entry.                  *)

Unawaited(t) == [l \in Loads |-> [request[t][l] EXCEPT !.awaited = FALSE]]

\* invalidate, invalidatePrefix and clear do the same to the one key.
Drops(t) ==
    /\ store' = [store EXCEPT ![t] = NoEntry]
    /\ disk' = NotSaved
    /\ floor' = [floor EXCEPT ![t] = written]
    /\ request' = [request EXCEPT ![t] = Unawaited(t)]

\* A PUT of the README, of a tag or a favourite, while it is made and answered.
EditSent(t) ==
    /\ page[t].screenUser # NoUser /\ cookie # NoUser /\ ~putting[t] /\ written < MaxWrites
    /\ written' = written + 1
    /\ putting' = [putting EXCEPT ![t] = TRUE]
    /\ UNCHANGED <<cacheVars, loginVars>>

\* The answer drops the key; one that is lost or an error drops nothing.
EditAnswered(t) ==
    /\ putting[t]
    /\ putting' = [putting EXCEPT ![t] = FALSE]
    /\ Drops(t) \/ UNCHANGED cacheVars
    /\ UNCHANGED <<written, loginVars>>

-----------------------------------------------------------------------------
(* get.                                                                      *)

\* The entry in memory, else the one of localStorage, expired or not.
Hydrated(t) ==
    IF store[t] = NoEntry THEN [val |-> disk.val, fresh |-> disk.fresh, load |-> 0] ELSE store[t]

Idle(t) == {l \in Loads : request[t][l].pc = "none"}

Sends(t, l) == request' = [request EXCEPT ![t][l] = [NoRequest EXCEPT !.pc = "sent", !.awaited = TRUE]]

Joins(t, l) == request' = [request EXCEPT ![t][l].awaited = TRUE]

Get(t, onRevalidate) ==
    LET entry == Hydrated(t) IN
    /\ page[t].screenUser # NoUser
    /\ \/ /\ entry.val # NoVal /\ entry.fresh                        \* a hit
          /\ store' = [store EXCEPT ![t] = entry]
          /\ UNCHANGED request
       \/ /\ ~entry.fresh /\ entry.load # 0
          /\ Joins(t, entry.load)
          /\ UNCHANGED store
       \/ /\ ~entry.fresh /\ entry.load = 0 /\ entry.val # NoVal /\ onRevalidate
          /\ \E l \in Idle(t) :
                /\ Sends(t, l)
                /\ store' = [store EXCEPT ![t] = [entry EXCEPT !.load = l]]
       \/ /\ ~entry.fresh /\ entry.load = 0 /\ (entry.val = NoVal \/ ~onRevalidate)
          /\ \E l \in Idle(t) :
                /\ Sends(t, l)
                /\ store' = [store EXCEPT ![t] = [NoEntry EXCEPT !.load = l]]
    /\ UNCHANGED <<disk, floor, loginVars, written, putting>>

\* list with force, and the refresh button: the key is dropped and asked for.
Refresh(t) ==
    /\ page[t].screenUser # NoUser
    /\ \E l \in Idle(t) :
          /\ store' = [store EXCEPT ![t] = [NoEntry EXCEPT !.load = l]]
          /\ request' = [request EXCEPT ![t] =
                [Unawaited(t) EXCEPT ![l] = [NoRequest EXCEPT !.pc = "sent", !.awaited = TRUE]]]
    /\ disk' = NotSaved
    /\ floor' = [floor EXCEPT ![t] = written]
    /\ UNCHANGED <<loginVars, written, putting>>

\* The api answers for the session of the cookie, and 401 without one.
ApiAnswers(t, l) ==
    /\ request[t][l].pc = "sent"
    /\ \/ /\ cookie # NoUser
          /\ request' = [request EXCEPT ![t][l].pc = "ok",
                              ![t][l].val = [of |-> cookie, at |-> written, by |-> t]]
       \/ /\ cookie = NoUser
          /\ request' = [request EXCEPT ![t][l].pc = "unauthorized"]
       \/ request' = [request EXCEPT ![t][l].pc = "failed"]
    /\ UNCHANGED <<disk, store, floor, loginVars, written, putting>>

Owns(t, l) == store[t].load = l

\* An answer is kept if its entry is still the one in the map; it may have
\* expired by the clock of the api, and localStorage may refuse it.
Keeps(t, l) ==
    /\ request[t][l].pc = "ok"
    /\ IF Owns(t, l)
       THEN \E fresh \in BOOLEAN :
               LET saved == [val |-> request[t][l].val, fresh |-> fresh] IN
               /\ store' = [store EXCEPT ![t] = [val |-> saved.val, fresh |-> fresh, load |-> 0]]
               /\ disk' \in {disk, saved}
       ELSE UNCHANGED <<store, disk>>
    /\ request' = [request EXCEPT ![t][l] = NoRequest]
    /\ UNCHANGED <<floor, loginVars, written, putting>>

\* An error leaves the expired value, or no entry.  A 401 is told to the login
\* gate, which asks /me unless it is asking.
Fails(t, l) ==
    /\ request[t][l].pc \in {"failed", "unauthorized"}
    /\ store' = IF store[t].load = l THEN [store EXCEPT ![t].load = 0] ELSE store
    /\ request' = [request EXCEPT ![t][l] = NoRequest]
    /\ page' = IF /\ request[t][l].pc = "unauthorized"
                  /\ page[t].user # NoUser /\ page[t].confirming = "no"
               THEN [page EXCEPT ![t].confirming = "asked"] ELSE page
    /\ UNCHANGED <<disk, floor, cookie, me, named, written, putting>>

\* TTLs run out, in memory and in localStorage.
Expires(t) ==
    /\ \/ store[t].fresh /\ store' = [store EXCEPT ![t].fresh = FALSE] /\ UNCHANGED disk
       \/ disk.fresh /\ disk' = [disk EXCEPT !.fresh = FALSE] /\ UNCHANGED store
    /\ UNCHANGED <<request, floor, loginVars, written, putting>>

-----------------------------------------------------------------------------
(* The login gate.                                                           *)

\* The tab is without a user: what its caches hold is forgotten.
Forgets(t) ==
    /\ Drops(t)
    /\ named' = [named EXCEPT ![t] = {cookie} \ {NoUser}]

\* mutant: the caches outlive the session
Shows_Keep(t, user) ==
    /\ page' = [page EXCEPT ![t].user = user, ![t].loading = FALSE,
          ![t].screenUser = IF user = NoUser THEN @ ELSE user]
    /\ IF user = NoUser THEN named' = [named EXCEPT ![t] = {cookie} \ {NoUser}] /\ UNCHANGED cacheVars
                        ELSE UNCHANGED <<cacheVars, named>>

\* applyCurrentUser.  Without a session the screen stays under the login page,
\* for the same user to go on with.
Shows(t, user) ==
    /\ page' = [page EXCEPT ![t].user = user, ![t].loading = FALSE,
          ![t].screenUser = IF user = NoUser THEN @ ELSE user]
    /\ IF user = NoUser THEN Forgets(t) ELSE UNCHANGED <<cacheVars, named>>

LoginPageShown(t) == ~page[t].loading /\ page[t].user = NoUser

AsksMe(t) == Cardinality(me[t]) < MaxChecks /\ me' = [me EXCEPT ![t] = @ \cup {cookie'}]

\* Another tab, or no one, is told that the cookie names another session.
LogIn(t, user) ==
    /\ LoginPageShown(t)
    /\ cookie' = user
    /\ named' = [tab \in Tabs |-> named[tab] \cup {user}]
    /\ AsksMe(t)
    /\ UNCHANGED <<cacheVars, page, written, putting>>

\* The tab gets the focus while the login page lies over a screen.
Recheck(t) ==
    /\ LoginPageShown(t) /\ page[t].screenUser # NoUser
    /\ UNCHANGED cookie
    /\ AsksMe(t)
    /\ UNCHANGED <<cacheVars, page, named, written, putting>>

\* Answers of /me come in any order, or not at all.
Reloaded(t, user) ==
    /\ me' = [me EXCEPT ![t] = @ \ {user}]
    /\ Shows(t, user) \/ UNCHANGED <<cacheVars, page, named>>
    /\ UNCHANGED <<cookie, written, putting>>

\* /me is asked about a 401; only an answer that there is no session counts.
Confirm(t) ==
    /\ page[t].confirming = "asked"
    /\ \/ cookie = NoUser /\ page' = [page EXCEPT ![t].confirming = "gone"]
       \/ page' = [page EXCEPT ![t].confirming = "no"]
    /\ UNCHANGED <<cacheVars, cookie, me, named, written, putting>>

Confirmed(t) ==
    /\ page[t].confirming = "gone"
    /\ page' = [page EXCEPT ![t].user = NoUser, ![t].loading = FALSE, ![t].confirming = "no"]
    /\ Forgets(t)
    /\ UNCHANGED <<cookie, me, written, putting>>

\* The session expires, is ended by an administrator, or has another end.
SessionEnds ==
    /\ cookie # NoUser
    /\ cookie' = NoUser
    /\ UNCHANGED <<cacheVars, page, me, named, written, putting>>

SignOut(t) ==
    /\ page[t].user # NoUser /\ ~page[t].leaving
    /\ cookie' = NoUser
    /\ page' = [page EXCEPT ![t].leaving = TRUE]
    /\ UNCHANGED <<cacheVars, me, named, written, putting>>

\* logoutLocally, on 200 or 401; without an answer the screen stays as it is.
SignedOutAnswer(t) ==
    /\ page[t].leaving
    /\ \/ page' = [page EXCEPT ![t] = [SignedOut EXCEPT !.confirming = page[t].confirming]]
          /\ Forgets(t)
       \/ page' = [page EXCEPT ![t].leaving = FALSE] /\ UNCHANGED <<cacheVars, named>>
    /\ UNCHANGED <<cookie, me, written, putting>>

\* The page is loaded again, in the tab or by the way back from the provider:
\* memory and requests are lost, localStorage is not, and /me is asked.
Starts(t) ==
    /\ store' = [store EXCEPT ![t] = NoEntry]
    /\ request' = [request EXCEPT ![t] = [l \in Loads |-> NoRequest]]
    /\ putting' = [putting EXCEPT ![t] = FALSE]
    /\ page' = [page EXCEPT ![t] = [SignedOut EXCEPT !.loading = TRUE]]
    /\ me' = [me EXCEPT ![t] = {cookie}]
    /\ UNCHANGED <<disk, floor, cookie, named, written>>

-----------------------------------------------------------------------------
ClientNext ==
    \/ \E t \in Tabs :
          \/ EditSent(t) \/ EditAnswered(t) \/ Refresh(t) \/ Expires(t)
          \/ \E onRevalidate \in BOOLEAN : Get(t, onRevalidate)
          \/ \E l \in Loads : ApiAnswers(t, l) \/ Keeps(t, l) \/ Fails(t, l)
          \/ \E user \in Users : LogIn(t, user)
          \/ Recheck(t) \/ Confirm(t) \/ Confirmed(t) \/ SignOut(t) \/ SignedOutAnswer(t) \/ Starts(t)
          \/ \E user \in me[t] : Reloaded(t, user)
    \/ SessionEnds

ClientSpec == ClientInit /\ [][ClientNext]_tabVars

-----------------------------------------------------------------------------
\* What a tab has fetched itself, and what it or localStorage keeps.
OwnVals(t) == {v \in {store[t].val, disk.val} : v # NoVal /\ v.by = t}

\* What a tab dropped does not come back by its own hand: neither an entry nor
\* localStorage holds an answer of its own from before the drop, and a get made
\* after the drop waits for no such answer, whatever was under way meanwhile.
\* Another tab that was loading may still write an older one to localStorage.
DroppedStaysDropped ==
    \A t \in Tabs :
        /\ \A v \in OwnVals(t) : v.at >= floor[t]
        /\ \A l \in Loads : request[t][l].awaited /\ request[t][l].pc = "ok"
              => request[t][l].val.at >= floor[t]

\* A tab that signed out, or that found its session gone, keeps nothing of its
\* own from before, not even what was loading then: what it keeps later was
\* fetched for a user whose session the cookie has named since.
SignedOutIsForgotten ==
    \A t \in Tabs : \A v \in OwnVals(t) : v.of \in named[t]

\* What was forgotten, by an invalidation or by the end of a session, stays so
\* although its load goes on.
NothingForgottenReturns == DroppedStaysDropped /\ SignedOutIsForgotten
=============================================================================
