--------------------------- MODULE ReadmeListing ---------------------------
(* The README of a prefix and the cached listings of that prefix             *)
(* (routes/storage-readme.ts, routes/storage-list.ts, lib/storage-cache.ts,  *)
(* and the invalidation of internal.ts).  A PUT of the README writes the     *)
(* object, deletes the cached listings of its prefix and records the version *)
(* in the database; a PUT of the connection deletes every cached listing of  *)
(* it.  A listing that was loading meanwhile is stored all the same, and so  *)
(* is one whose GET was still waiting for the client of the connection.      *)
(*                                                                           *)
(* One connection, one bucket, one prefix.  Only Mado writes the object: a   *)
(* tool that writes it directly leaves no record and drops no listing.       *)
EXTENDS Naturals, Sequences, FiniteSets

CONSTANTS
    Editors,        \* PUTs of the README, one each
    Texts,          \* their bodies
    Lists,          \* GETs of a listing, one each
    Scopes,         \* the cached listings of the prefix: flat, recursive, a page
    MaxConn,        \* PUTs of the connection
    Nobody

ASSUME ReadmeAssumption == Nobody \notin Editors \cup Lists \cup Texts

VARIABLES
    readme,         \* the object: its body, who wrote it, how often it was written
    history,        \* storage_readme_history by id, of this prefix
    writeLine,      \* readmeWriteTails: the PUT at the head holds the lock
    readmePut,      \* Editors -> [pc, body]
    conn,           \* the connection: its version and the DELETEs still to come
    listing,        \* storage_response_cache: Scopes -> the row not yet expired
    loading,        \* Lists -> the load this GET started
    lister,         \* Lists -> what the GET asks for and which load it waits for
    missed          \* a DELETE of listings failed or was never sent

readmeVars == <<readme, history, writeLine, readmePut>>
listVars == <<listing, loading, lister>>
rlVars == <<readme, history, writeLine, readmePut, conn, listing, loading, lister, missed>>

NoRow == [n |-> 0, conf |-> 0, late |-> FALSE, crossed |-> FALSE, kept |-> FALSE]
NoLoad == [pc |-> "none", scope |-> Nobody, refresh |-> FALSE, conf |-> 0, late |-> FALSE,
           n |-> 0, crossed |-> FALSE, aborted |-> FALSE, shared |-> FALSE]
NoGet == [pc |-> "idle", on |-> Nobody, scope |-> Nobody, refresh |-> FALSE, since |-> 0,
          late |-> FALSE]

ReadmeInit ==
    /\ readme = [body |-> Nobody, by |-> Nobody, n |-> 0]
    /\ history = <<>>
    /\ writeLine = <<>>
    /\ readmePut = [e \in Editors |-> [pc |-> "idle", body |-> Nobody]]
    /\ conn = [version |-> 0, dropping |-> 0]
    /\ listing = [s \in Scopes |-> NoRow]
    /\ loading = [l \in Lists |-> NoLoad]
    /\ lister = [l \in Lists |-> NoGet]
    /\ missed = FALSE

-----------------------------------------------------------------------------
(* What a GET of the README, of its history and a search answer.             *)

\* Body from the object, editor from the row the last recorded PUT wrote.
EditorShown == IF history = <<>> THEN Nobody ELSE history[Len(history)].by

\* Newest first, at most `limit`.
Versions(limit) ==
    [i \in 1..(IF Len(history) < limit THEN Len(history) ELSE limit) |->
        history[Len(history) + 1 - i]]

\* A search looks at the latest version alone.
TextSearched == IF history = <<>> THEN Nobody ELSE Versions(1)[1].body

-----------------------------------------------------------------------------
(* The PUT.                                                                  *)

Goes(e, pc) == readmePut' = [readmePut EXCEPT ![e].pc = pc]

Unlocks == writeLine' = Tail(writeLine)

\* mutant: the promise of the PUT before is not awaited
HasLock_NoWait(e, pc) == writeLine # <<>> /\ readmePut[e].pc = pc
HasLock(e, pc) == writeLine # <<>> /\ Head(writeLine) = e /\ readmePut[e].pc = pc

\* It goes in line behind the PUTs of the same object.
LineUp(e, text) ==
    /\ readmePut[e].pc = "idle"
    /\ readmePut' = [readmePut EXCEPT ![e] = [pc |-> "line", body |-> text]]
    /\ writeLine' = Append(writeLine, e)
    /\ UNCHANGED <<readme, history, conn, listVars, missed>>

\* The same body: nothing is written, recorded or dropped.
SameBody(e) ==
    /\ HasLock(e, "line")
    /\ readme.body = readmePut[e].body
    /\ Goes(e, "same") /\ Unlocks
    /\ UNCHANGED <<readme, history, conn, listVars, missed>>

Differs(e) ==
    /\ HasLock(e, "line")
    /\ readme.body # readmePut[e].body
    /\ Goes(e, "write")
    /\ UNCHANGED <<readme, history, writeLine, conn, listVars, missed>>

Written(e) == [body |-> readmePut[e].body, by |-> e, n |-> readme.n + 1]

WriteObject(e) ==
    /\ HasLock(e, "write")
    /\ readme' = Written(e)
    /\ Goes(e, "drop")
    /\ UNCHANGED <<history, writeLine, conn, listVars, missed>>

\* The storage answers with an error, or not at all, and may have written: the
\* PUT ends there.
ObjectFails(e) ==
    /\ HasLock(e, "line") \/ HasLock(e, "write")
    /\ \/ UNCHANGED <<readme, missed>>
       \/ HasLock(e, "write") /\ readme' = Written(e) /\ missed' = TRUE
    /\ Goes(e, "error") /\ Unlocks
    /\ UNCHANGED <<history, conn, listVars>>

\* A load that is under way when a DELETE runs will store what it has read.
Crosses == loading' = [l \in Lists |-> [loading[l] EXCEPT !.crossed = loading[l].pc # "none"]]

Drops ==
    \/ /\ listing' = [s \in Scopes |-> NoRow]
       /\ Crosses
       /\ UNCHANGED missed
    \/ missed' = TRUE /\ UNCHANGED <<listing, loading>>    \* swallowed

InvalidateScope(e) ==
    /\ HasLock(e, "drop")
    /\ Drops
    /\ Goes(e, "record")
    /\ UNCHANGED <<readme, history, writeLine, conn, lister>>

Record(e) ==
    /\ HasLock(e, "record")
    /\ history' = Append(history, [by |-> e, body |-> readmePut[e].body])
    /\ Goes(e, "ok") /\ Unlocks
    /\ UNCHANGED <<readme, conn, listVars, missed>>

\* meta_stale: the object is written, its version is not recorded.
RecordFails(e) ==
    /\ HasLock(e, "record")
    /\ Goes(e, "meta_stale") /\ Unlocks
    /\ UNCHANGED <<readme, history, conn, listVars, missed>>

-----------------------------------------------------------------------------
(* The connection.                                                           *)

\* The row is committed and the client dropped; the DELETE of the listings is
\* sent, not awaited, and the PUT is answered.
PutConnection ==
    /\ conn.version < MaxConn
    /\ conn' = [version |-> conn.version + 1, dropping |-> conn.dropping + 1]
    /\ UNCHANGED <<readmeVars, listVars, missed>>

\* A GET that still waits for its client may go on with the one of before.
InvalidateConnection ==
    /\ conn.dropping > 0
    /\ conn' = [conn EXCEPT !.dropping = @ - 1]
    /\ Drops
    /\ lister' = [l \in Lists |-> [lister[l] EXCEPT !.late = @ \/ lister[l].pc = "client"]]
    /\ UNCHANGED readmeVars

-----------------------------------------------------------------------------
(* Listings.                                                                 *)

Sharing(scope, refresh) ==
    {l \in Lists : loading[l].shared /\ loading[l].scope = scope /\ loading[l].refresh = refresh}

Waiting(l) == {m \in Lists : lister[m].pc = "waiting" /\ lister[m].on = l}

\* A GET begins to wait for its client.  It gets none that is older than the last
\* PUT of which the client was dropped: a PUT whose DELETE is still to come may
\* not have dropped it yet.
Ask(l, scope, refresh) ==
    /\ lister[l].pc = "idle"
    /\ lister' = [lister EXCEPT ![l] =
          [NoGet EXCEPT !.pc = "client", !.scope = scope, !.refresh = refresh,
                        !.since = conn.version - conn.dropping]]
    /\ UNCHANGED <<readmeVars, conn, listing, loading, missed>>

\* The row is gone, its endpoint is refused, or the browser went meanwhile.
NoClient(l) ==
    /\ lister[l].pc = "client"
    /\ lister' = [lister EXCEPT ![l] = [NoGet EXCEPT !.pc = "done"]]
    /\ UNCHANGED <<readmeVars, conn, listing, loading, missed>>

WaitsOn(l, m) == lister' = [lister EXCEPT ![l] = [NoGet EXCEPT !.pc = "waiting", !.on = m]]

NewLoad(get, version) ==
    [NoLoad EXCEPT !.pc = IF get.refresh THEN "page" ELSE "look", !.scope = get.scope,
                   !.refresh = get.refresh, !.conf = version, !.late = get.late, !.shared = TRUE]

\* With its client, of any row read since it asked, it joins a load of the same
\* key or starts one.
GotClient(l) ==
    /\ lister[l].pc = "client"
    /\ LET sharing == Sharing(lister[l].scope, lister[l].refresh) IN
       \/ \E m \in sharing : WaitsOn(l, m) /\ UNCHANGED loading
       \/ /\ sharing = {}
          /\ WaitsOn(l, l)
          /\ \E v \in 0..conn.version :
                /\ v >= lister[l].since
                /\ loading' = [loading EXCEPT ![l] = NewLoad(lister[l], v)]
    /\ UNCHANGED <<readmeVars, conn, listing, missed>>

EndLoad(l) ==
    /\ loading' = [loading EXCEPT ![l] = NoLoad]
    /\ lister' = [m \in Lists |-> IF m \in Waiting(l) THEN [NoGet EXCEPT !.pc = "done"]
                                                      ELSE lister[m]]

\* A read of the cache that fails is a miss.
LookUp(l) ==
    /\ loading[l].pc = "look"
    /\ \/ listing[loading[l].scope].kept /\ EndLoad(l)
       \/ loading' = [loading EXCEPT ![l].pc = "page"] /\ UNCHANGED lister
    /\ UNCHANGED <<readmeVars, conn, listing, missed>>

\* The settings are read and the page is asked for with the client of before.
ListPage(l) ==
    /\ loading[l].pc = "page" /\ ~loading[l].aborted
    /\ loading' = [loading EXCEPT ![l].pc = "keep", ![l].n = readme.n]
    /\ UNCHANGED <<readmeVars, conn, listing, lister, missed>>

ListFails(l) ==
    /\ loading[l].pc = "page"
    /\ EndLoad(l)
    /\ UNCHANGED <<readmeVars, conn, listing, missed>>

Row(l) == [n |-> loading[l].n, conf |-> loading[l].conf, late |-> loading[l].late,
           crossed |-> loading[l].crossed, kept |-> TRUE]

\* The answer goes out whether or not the row could be stored.
Keep(l) ==
    /\ loading[l].pc = "keep"
    /\ \/ listing' = [listing EXCEPT ![loading[l].scope] = Row(l)]
       \/ UNCHANGED listing
    /\ EndLoad(l)
    /\ UNCHANGED <<readmeVars, conn, missed>>

\* The caller goes; the last one takes the load out of the map and aborts it.
Leave(l) ==
    /\ lister[l].pc = "waiting"
    /\ lister' = [lister EXCEPT ![l] = [NoGet EXCEPT !.pc = "done"]]
    /\ LET m == lister[l].on IN
       IF Waiting(m) = {l}
       THEN loading' = [loading EXCEPT ![m].shared = FALSE, ![m].aborted = TRUE]
       ELSE UNCHANGED loading
    /\ UNCHANGED <<readmeVars, conn, listing, missed>>

\* Past expires_at no read sees the row.
Expire(s) ==
    /\ listing[s].kept
    /\ listing' = [listing EXCEPT ![s] = NoRow]
    /\ UNCHANGED <<readmeVars, conn, loading, lister, missed>>

-----------------------------------------------------------------------------
ReadmeNext ==
    \/ \E e \in Editors :
          \/ \E text \in Texts : LineUp(e, text)
          \/ SameBody(e) \/ Differs(e) \/ WriteObject(e) \/ ObjectFails(e)
          \/ InvalidateScope(e) \/ Record(e) \/ RecordFails(e)
    \/ PutConnection \/ InvalidateConnection
    \/ \E l \in Lists :
          \/ \E s \in Scopes, refresh \in BOOLEAN : Ask(l, s, refresh)
          \/ NoClient(l) \/ GotClient(l)
          \/ LookUp(l) \/ ListPage(l) \/ ListFails(l) \/ Keep(l) \/ Leave(l)
    \/ \E s \in Scopes : Expire(s)

ReadmeSpec == ReadmeInit /\ [][ReadmeNext]_rlVars

-----------------------------------------------------------------------------
At(pcs) == {e \in Editors : readmePut[e].pc \in pcs}

\* When no PUT is between its write and its record, the last PUT that wrote was
\* recorded and none failed after it wrote, then the editor a GET shows is the
\* one who wrote the body it shows, and a search looks at that body.  The lock
\* of a README is held until its version is recorded; without that the records
\* of two PUTs could land in the other order.
RecordsFollowTheObject ==
    /\ readme.by \in At({"ok"})
    /\ At({"drop", "record", "meta_stale"}) = {}
    => EditorShown = readme.by /\ TextSearched = readme.body

\* A cached listing that misses a write of the README was being loaded when the
\* DELETE of that write ran; one that was read with the settings of before a PUT of
\* the connection was being loaded, or waited for its client, when the DELETE of
\* that PUT ran.  Nothing asked for later is ever stored without them: the object
\* is written before its listings are dropped, the connection committed and its
\* client dropped before its listings are.
StaleListingsWereLoading ==
    \A s \in Scopes : listing[s].kept /\ ~listing[s].crossed /\ ~missed =>
        /\ At({"drop"}) = {} => listing[s].n = readme.n
        /\ conn.dropping = 0 /\ ~listing[s].late => listing[s].conf = conn.version

\* What is recorded about a README and kept of its prefix follows what the storage
\* holds (storage-readme.ts:147, internal.ts:205).
KeptFollowsTheStorage == RecordsFollowTheObject /\ StaleListingsWereLoading
=============================================================================
