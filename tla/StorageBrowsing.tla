---------------------------- MODULE StorageBrowsing ----------------------------
(* Browsing a storage: the list of its buckets (pages/StorageIndex.tsx), the pages of a *)
(* directory (components/StorageBrowser.tsx) and the scans of what is beneath it        *)
(* (components/storage/ScanModal.tsx), over the caches of lib/api/storage-list-client.  *)
(*                                                                                      *)
(* A listing has a version, which what the api answers never goes back behind; the      *)
(* cursor of a page is its number.  React's effects belong to the step that causes      *)
(* them.  A value that is cached comes back before anything else happens.               *)
EXTENDS Naturals, Sequences, FiniteSets

CONSTANTS
    Dirs, Root,
    Beneath,      \* Dirs -> the directories whose prefix begins with that of this one
    Words,        \* what is typed in the search field
    NoWords,
    Nowhere,      \* no request, no typing
    ListAsks,         \* requests for lists under way
    MaxCursor, MaxListed, MaxScans

ASSUME BrowsingAssumption ==
    /\ Root \in Dirs /\ NoWords \in Words /\ Nowhere \notin ListAsks \cup Words
    /\ Beneath \in [Dirs -> SUBSET Dirs] /\ \A d \in Dirs : d \in Beneath[d]
    /\ MaxCursor \in Nat /\ MaxListed \in Nat \ {0} /\ MaxScans \in Nat

VARIABLES
    listed,       \* the version of what the api answers
    entries,      \* listCache and bucketsCache: key -> [value, stale, ask]
    asks,         \* ListAsks -> [pc, key, answer]
    browser,      \* the reducer of StorageBrowser and its timer
    listWaits,    \* the requests whose answers the browser takes
    index,        \* the state of StorageIndex
    indexLoad,    \* its refresh(): [initial, first, fresh, favourites, revalidated]
    jobs,         \* the scans of the api: a sequence of [place, status]
    banner,       \* scanResult and scanRunning of StorageBrowser
    dialog,       \* the state of ScanModal
    calls         \* requests about scans that are under way

keptVars == <<listed, entries, asks>>
listingVars == <<browser, listWaits>>
indexVars == <<index, indexLoad>>
scanVars == <<jobs, banner, dialog, calls>>
browsingVars == <<keptVars, listingVars, indexVars, scanVars>>

ListKeys == [dir : Dirs, words : Words, recursive : BOOLEAN, cursor : 0..MaxCursor]
IndexKey == [dir |-> Nowhere, words |-> Nowhere, recursive |-> FALSE, cursor |-> 0]
FirstPage(d) == [dir |-> d, words |-> NoWords, recursive |-> FALSE, cursor |-> 0]

NoPage == [ver |-> 0]
NotCached == [value |-> NoPage, stale |-> FALSE, ask |-> Nowhere]
NoAsk == [pc |-> "free", key |-> IndexKey, answer |-> NoPage]

PlaceOf(b) == [dir |-> b.dir, words |-> b.words]
KeyOf(b) == [dir |-> b.dir, words |-> b.words, recursive |-> b.recursive, cursor |-> b.at]

ClosedDialog == [open |-> FALSE, job |-> 0, running |-> FALSE, canceled |-> FALSE,
                 result |-> 0, error |-> FALSE]

BlankBrowser ==
    [dir |-> Root, typed |-> Nowhere, words |-> NoWords, recursive |-> FALSE, at |-> 0, visited |-> 1,
     page |-> NoPage, loading |-> FALSE, error |-> FALSE, revalidating |-> FALSE]

EarlierVisit(k) == [NotCached EXCEPT !.value = [ver |-> 1, key |-> k, more |-> "none"]]

\* The pages are not mounted; localStorage may hold what an earlier visit began with.
BrowsingInit ==
    /\ listed = 1
    /\ entries \in {[k \in ListKeys \cup {IndexKey} |->
                        IF k \in had THEN EarlierVisit(k) ELSE NotCached] :
                    had \in SUBSET ({IndexKey} \cup {FirstPage(d) : d \in Dirs})}
    /\ asks = [a \in ListAsks |-> NoAsk]
    /\ browser = BlankBrowser /\ listWaits = {}
    /\ index = [list |-> NoPage, loaded |-> FALSE, refreshing |-> FALSE, revalidating |-> FALSE, error |-> FALSE]
    /\ indexLoad = [initial |-> NoPage, first |-> Nowhere, fresh |-> Nowhere,
                    favourites |-> "none", revalidated |-> FALSE]
    /\ jobs = <<>> /\ banner = [result |-> 0, running |-> FALSE, by |-> "look"]
    /\ dialog = ClosedDialog /\ calls = {}

-----------------------------------------------------------------------------
(* The cache of lists.                                                           *)

\* What get() waits for: the request of the entry, or a new one.
Awaits(kept, key, a) ==
    \/ kept[key].ask = a /\ entries' = kept /\ UNCHANGED asks
    \/ /\ kept[key].ask = Nowhere /\ asks[a].pc = "free"
       /\ entries' = [kept EXCEPT ![key].ask = a]
       /\ asks' = [asks EXCEPT ![a] = [pc |-> "asked", key |-> key, answer |-> NoPage]]

IsCurrent(entry) == entry.value # NoPage /\ ~entry.stale

Forgetting(keys) == [k \in DOMAIN entries |-> IF k \in keys THEN NotCached ELSE entries[k]]

\* Uploads, and a cache of the api that expires.
ListingChanges == listed < MaxListed /\ listed' = listed + 1 /\ UNCHANGED <<entries, asks>>

ListingExpires ==
    \E k \in DOMAIN entries :
        /\ IsCurrent(entries[k])
        /\ entries' = [entries EXCEPT ![k].stale = TRUE]
        /\ UNCHANGED <<listed, asks>>

\* GET /list: more pages, none, or a cursor that does not move.
ApiLists(a) ==
    /\ asks[a].pc = "asked"
    /\ \/ asks' = [asks EXCEPT ![a].pc = "failed"]
       \/ \E more \in {"none", "next", "stuck"} :
             asks' = [asks EXCEPT ![a].pc = "answered",
                                  ![a].answer = [ver |-> listed, key |-> asks[a].key, more |-> more]]
    /\ UNCHANGED <<listed, entries>>

\* An entry that was replaced or dropped since is left alone.
Commits(a) ==
    LET r == asks[a] IN
    /\ r.pc \in {"answered", "failed"}
    /\ asks' = [asks EXCEPT ![a] = NoAsk]
    /\ entries' = IF entries[r.key].ask # a THEN entries
                  ELSE [entries EXCEPT ![r.key] =
                           IF r.pc = "answered" THEN [NotCached EXCEPT !.value = r.answer]
                                                ELSE [@ EXCEPT !.ask = Nowhere]]
    /\ UNCHANGED listed

-----------------------------------------------------------------------------
(* The pages of a directory.                                                     *)

\* mutant: the session before still takes its answer
LoadsPage_KeepsSession(b, kept) ==
    LET entry == kept[KeyOf(b)]
        blank == [b EXCEPT !.page = entry.value, !.loading = (entry.value = NoPage),
                           !.error = FALSE, !.revalidating = entry.stale] IN
    /\ browser' = blank
    /\ \/ IsCurrent(entry) /\ UNCHANGED listWaits /\ entries' = kept /\ UNCHANGED asks
       \/ \E a \in ListAsks : ~IsCurrent(entry) /\ Awaits(kept, KeyOf(b), a) /\ listWaits' = listWaits \cup {a}
    /\ UNCHANGED <<listed, indexVars>>

\* load(): the session before is over, and with it what it waits for.
LoadsPage(b, kept) ==
    LET entry == kept[KeyOf(b)]
        blank == [b EXCEPT !.page = entry.value, !.loading = (entry.value = NoPage),
                           !.error = FALSE, !.revalidating = entry.stale] IN
    /\ browser' = blank
    /\ \/ IsCurrent(entry) /\ listWaits' = {} /\ entries' = kept /\ UNCHANGED asks
       \/ \E a \in ListAsks : ~IsCurrent(entry) /\ Awaits(kept, KeyOf(b), a) /\ listWaits' = {a}
    /\ UNCHANGED <<listed, indexVars>>

\* The answer, or the failure, of the request the session waits for.
PageArrives(a) ==
    /\ Commits(a)
    /\ browser' = IF a \notin listWaits THEN browser
                  ELSE IF asks[a].pc = "answered"
                  THEN [browser EXCEPT !.page = asks[a].answer, !.loading = FALSE, !.revalidating = FALSE]
                  ELSE [browser EXCEPT !.error = browser.loading, !.loading = FALSE, !.revalidating = FALSE]
    /\ listWaits' = listWaits \ {a}

\* The look of an effect is cancelled when its place changes.
Looks(who) == {c \in calls : c.by \in who}

Call(by, place, job) == [by |-> by, place |-> place, job |-> job, answer |-> "not yet", mine |-> TRUE]

LooksFor(place) ==
    calls' = (calls \ Looks({"banner", "dialog"}))
                 \cup {Call(by, place, 0) : by \in {"banner"} \cup (IF dialog.open THEN {"dialog"} ELSE {})}

\* identityReset and load({}), and the look for the latest scan.
ShowsPlace(b) ==
    /\ LoadsPage([b EXCEPT !.at = 0, !.visited = 1], entries)
    /\ IF PlaceOf(b) = PlaceOf(browser) THEN UNCHANGED calls ELSE LooksFor(PlaceOf(b))
    /\ UNCHANGED <<jobs, banner, dialog>>

Mounted == browser.page # NoPage \/ browser.loading \/ browser.error

BrowserOpens ==
    /\ ~Mounted
    /\ LoadsPage(browser, entries)
    /\ LooksFor(PlaceOf(browser))
    /\ UNCHANGED <<jobs, banner, dialog>>

\* Words that are submitted stay in force in the next directory.
EntersDir(d) == Mounted /\ d # browser.dir /\ ShowsPlace([browser EXCEPT !.dir = d])

\* onChangeQ
TypesWords(w) ==
    /\ Mounted /\ browser' = [browser EXCEPT !.typed = w]
    /\ UNCHANGED <<keptVars, listWaits, indexVars, scanVars>>

Submits(b) ==
    IF b.words = browser.words
    THEN browser' = b /\ UNCHANGED <<keptVars, listWaits, indexVars, scanVars>>
    ELSE ShowsPlace(b)

SubmitsWords ==
    browser.typed # Nowhere /\ Submits([browser EXCEPT !.words = browser.typed, !.typed = Nowhere])

ClearsWords ==
    browser.words # NoWords /\ Submits([browser EXCEPT !.words = NoWords, !.typed = Nowhere])

SetsRecursive == Mounted /\ ShowsPlace([browser EXCEPT !.recursive = ~@])

GoesTo(b, kept) == LoadsPage(b, kept) /\ UNCHANGED scanVars

\* A page that was visited may come from the cache, a new one may not.
NextPage ==
    LET b == [browser EXCEPT !.at = @ + 1] IN
    /\ ~browser.loading /\ browser.page # NoPage /\ browser.page.more = "next"
    /\ b.at <= MaxCursor
    /\ \/ b.at < b.visited /\ GoesTo(b, entries)
       \/ b.at = b.visited /\ GoesTo([b EXCEPT !.visited = @ + 1], Forgetting({KeyOf(b)}))

\* prev() and goto()
VisitedPage ==
    /\ ~browser.loading
    /\ \E i \in 0..(browser.visited - 1) : i # browser.at /\ GoesTo([browser EXCEPT !.at = i], entries)

\* Not while it revalidates, but while it loads.
RefreshesList ==
    LET dropped == {k \in ListKeys : k.dir \in Beneath[browser.dir]} IN
    /\ Mounted /\ ~browser.revalidating
    /\ GoesTo([browser EXCEPT !.at = 0, !.visited = 1], Forgetting(dropped))

-----------------------------------------------------------------------------
(* The list of the buckets.                                                      *)

\* refresh(): buckets and favourites; the load before is forgotten.
LoadsIndex(shown, kept) ==
    LET entry == kept[IndexKey]
        load == [initial |-> entry.value, first |-> Nowhere, fresh |-> Nowhere,
                 favourites |-> "asked", revalidated |-> FALSE] IN
    /\ index' = [shown EXCEPT !.revalidating = @ \/ entry.stale]
    /\ \/ IsCurrent(entry) /\ indexLoad' = load /\ entries' = kept /\ UNCHANGED asks
       \/ \E a \in ListAsks :
             /\ ~IsCurrent(entry) /\ Awaits(kept, IndexKey, a)
             /\ indexLoad' = IF entry.stale THEN [load EXCEPT !.fresh = a] ELSE [load EXCEPT !.first = a]
    /\ UNCHANGED <<listed, listingVars>>

IndexOpens ==
    ~index.loaded /\ indexLoad.favourites = "none" /\ LoadsIndex(index, entries)

RefreshesIndex ==
    /\ indexLoad.favourites # "none" /\ ~index.revalidating
    /\ LoadsIndex([index EXCEPT !.refreshing = TRUE, !.error = FALSE], Forgetting({IndexKey}))

Loaded(i) == [i EXCEPT !.loaded = TRUE, !.refreshing = FALSE]

\* mutant: the buckets of the cache are shown although newer ones have come
BothArrive_CachedWins(load, shown) ==
    /\ indexLoad' = [load EXCEPT !.initial = NoPage, !.favourites = "over"]
    /\ index' = Loaded([shown EXCEPT !.error = FALSE, !.list = load.initial])

\* The promise of both: what was revalidated is not overwritten.
BothArrive(load, shown) ==
    /\ indexLoad' = [load EXCEPT !.initial = NoPage, !.favourites = "over"]
    /\ index' = Loaded([shown EXCEPT !.error = FALSE,
                                     !.list = IF load.revalidated THEN @ ELSE load.initial])

BucketsArrive(a) ==
    LET ok == asks[a].pc = "answered" IN
    /\ Commits(a)
    /\ \/ /\ a = indexLoad.fresh
          /\ index' = [index EXCEPT !.list = IF ok THEN asks[a].answer ELSE @, !.revalidating = FALSE]
          /\ indexLoad' = [indexLoad EXCEPT !.fresh = Nowhere, !.revalidated = ok]
       \/ /\ a = indexLoad.first /\ ~ok
          /\ index' = IF indexLoad.favourites = "over" THEN index ELSE Loaded([index EXCEPT !.error = TRUE])
          /\ indexLoad' = [indexLoad EXCEPT !.first = Nowhere, !.favourites = "over"]
       \/ /\ a = indexLoad.first /\ ok
          /\ LET load == [indexLoad EXCEPT !.first = Nowhere, !.initial = asks[a].answer] IN
             IF load.favourites = "have" THEN BothArrive(load, index)
             ELSE indexLoad' = load /\ UNCHANGED index
       \/ a \notin {indexLoad.fresh, indexLoad.first} /\ UNCHANGED indexVars
    /\ UNCHANGED listingVars

FavouritesArrive ==
    /\ indexLoad.favourites = "asked"
    /\ \/ /\ index' = Loaded([index EXCEPT !.error = TRUE])
          /\ indexLoad' = [indexLoad EXCEPT !.favourites = "over"]
       \/ /\ indexLoad.initial # NoPage /\ BothArrive(indexLoad, index)
       \/ /\ indexLoad.initial = NoPage
          /\ indexLoad' = [indexLoad EXCEPT !.favourites = "have"] /\ UNCHANGED index
    /\ UNCHANGED <<keptVars, listingVars>>

-----------------------------------------------------------------------------
(* Scans: the api and the worker.                                                *)

OpenJobs(place) == {j \in DOMAIN jobs : jobs[j].place = place /\ jobs[j].status = "open"}
DoneJobs(place) == {j \in DOMAIN jobs : jobs[j].place = place /\ jobs[j].status = "done"}

Ends(j, status) ==
    /\ jobs[j].status = "open"
    /\ jobs' = [jobs EXCEPT ![j].status = status]

JobEnds ==
    /\ \E j \in DOMAIN jobs : Ends(j, "done") \/ Ends(j, "error")
    /\ UNCHANGED <<banner, dialog, calls>>

Replies(c, job, answer) ==
    calls' = (calls \ {c}) \cup {[c EXCEPT !.job = job, !.answer = answer]}

\* activeOrLatest
RepliesLatest(c) ==
    \/ \E j \in OpenJobs(c.place) : Replies(c, j, "open")
    \/ /\ OpenJobs(c.place) = {}
       /\ \E j \in DoneJobs(c.place) :
             (\A i \in DoneJobs(c.place) : i <= j) /\ Replies(c, j, "done")
    \/ OpenJobs(c.place) = {} /\ DoneJobs(c.place) = {} /\ Replies(c, 0, "none")

\* POST /scan
RepliesStart(c) ==
    \/ \E j \in OpenJobs(c.place) : Replies(c, j, "open") /\ UNCHANGED jobs
    \/ /\ OpenJobs(c.place) = {} /\ Len(jobs) < MaxScans
       /\ jobs' = Append(jobs, [place |-> c.place, status |-> "open"])
       /\ Replies(c, Len(jobs) + 1, "open")

ApiReplies(c) ==
    /\ c.answer = "not yet"
    /\ \/ c.by = "start" /\ RepliesStart(c)
       \/ c.by \in {"banner", "dialog"} /\ RepliesLatest(c) /\ UNCHANGED jobs
       \/ c.by = "poll" /\ Replies(c, c.job, jobs[c.job].status) /\ UNCHANGED jobs
       \/ Replies(c, c.job, "failed") /\ UNCHANGED jobs
    /\ UNCHANGED <<banner, dialog>>

-----------------------------------------------------------------------------
(* Scans: the dialog and what the banner tells.                                  *)

Poll(j) == Call("poll", PlaceOf(BlankBrowser), j)

\* The effect of jobId and running, whose interval begins with a tick.
FollowsScan(d, others) ==
    /\ dialog' = d
    /\ calls' = IF d.running /\ d.job # 0 /\ (d.job # dialog.job \/ ~dialog.running)
                THEN others \cup {Poll(d.job)} ELSE others

DialogOpens ==
    /\ Mounted /\ ~dialog.open
    /\ dialog' = [ClosedDialog EXCEPT !.open = TRUE]
    /\ calls' = calls \cup {Call("dialog", PlaceOf(browser), 0)}
    /\ UNCHANGED <<jobs, banner>>

\* The interval stops; what is under way comes back to nobody, but for onResult.
DialogCloses ==
    /\ dialog.open
    /\ dialog' = ClosedDialog
    /\ calls' = {[c EXCEPT !.mine = (c.by = "banner")] : c \in calls \ Looks({"dialog"})}
    /\ UNCHANGED <<jobs, banner>>

StartsScan ==
    /\ dialog.open /\ ~dialog.running
    /\ FollowsScan([dialog EXCEPT !.error = FALSE, !.canceled = FALSE, !.running = TRUE],
               calls \cup {Call("start", PlaceOf(browser), 0)})
    /\ UNCHANGED <<jobs, banner>>

CancelsScan ==
    /\ dialog.running /\ dialog.job # 0
    /\ Ends(dialog.job, "canceled")
    /\ UNCHANGED <<banner, dialog, calls>>

Ticks ==
    /\ dialog.running /\ dialog.job # 0
    /\ calls' = calls \cup {Poll(dialog.job)}
    /\ UNCHANGED <<jobs, banner, dialog>>

\* setScanResult and setScanRunning of the effect.
BannerLooked(c) ==
    /\ banner' = [result |-> IF c.answer = "done" THEN c.job ELSE 0, running |-> c.answer = "open", by |-> "look"]
    /\ calls' = calls \ {c} /\ UNCHANGED dialog

DialogLooked(c) ==
    /\ UNCHANGED banner
    /\ FollowsScan(CASE c.answer = "open" -> [dialog EXCEPT !.job = c.job, !.running = TRUE]
                 [] c.answer = "done" -> [dialog EXCEPT !.result = c.job]
                 [] OTHER             -> dialog, calls \ {c})

ScanStarted(c) ==
    /\ UNCHANGED banner
    /\ IF ~c.mine THEN calls' = calls \ {c} /\ UNCHANGED dialog
       ELSE FollowsScan(IF c.answer = "failed" THEN [dialog EXCEPT !.error = TRUE, !.running = FALSE]
                    ELSE [dialog EXCEPT !.job = c.job], calls \ {c})

\* The answer to getJob, which nothing cancels.
JobPolled(c) ==
    /\ banner' = IF c.answer = "done" THEN [result |-> c.job, running |-> FALSE, by |-> "dialog"] ELSE banner
    /\ dialog' = IF ~c.mine THEN dialog
                 ELSE CASE c.answer = "done"     -> [dialog EXCEPT !.result = c.job, !.running = FALSE]
                        [] c.answer = "error"    -> [dialog EXCEPT !.error = TRUE, !.running = FALSE]
                        [] c.answer = "canceled" -> [dialog EXCEPT !.canceled = TRUE, !.running = FALSE]
                        [] OTHER                 -> dialog
    /\ calls' = calls \ {c}

CallReturns(c) ==
    /\ c.answer # "not yet"
    /\ \/ c.by = "banner" /\ BannerLooked(c)
       \/ c.by = "dialog" /\ DialogLooked(c)
       \/ c.by = "start" /\ ScanStarted(c)
       \/ c.by = "poll" /\ JobPolled(c)
    /\ UNCHANGED jobs

ScanStep ==
    /\ \/ DialogOpens \/ DialogCloses \/ StartsScan \/ CancelsScan \/ Ticks \/ JobEnds
       \/ \E c \in calls : ApiReplies(c) \/ CallReturns(c)
    /\ UNCHANGED <<keptVars, listingVars, indexVars>>

-----------------------------------------------------------------------------
ListsStep ==
    /\ ListingChanges \/ ListingExpires \/ \E a \in ListAsks : ApiLists(a)
    /\ UNCHANGED <<listingVars, indexVars, scanVars>>

BrowserStep ==
    \/ BrowserOpens \/ SubmitsWords \/ ClearsWords \/ SetsRecursive
    \/ NextPage \/ VisitedPage \/ RefreshesList
    \/ \E d \in Dirs : EntersDir(d)
    \/ \E w \in Words : TypesWords(w)
    \/ \E a \in ListAsks : asks[a].key # IndexKey /\ PageArrives(a) /\ UNCHANGED <<indexVars, scanVars>>

IndexStep ==
    /\ \/ IndexOpens \/ RefreshesIndex \/ FavouritesArrive
       \/ \E a \in ListAsks : asks[a].key = IndexKey /\ BucketsArrive(a)
    /\ UNCHANGED scanVars

BrowsingNext == ListsStep \/ BrowserStep \/ IndexStep \/ ScanStep

BrowsingSpec == BrowsingInit /\ [][BrowsingNext]_browsingVars

-----------------------------------------------------------------------------
(* Properties.                                                                   *)

IsUnderWay(a, key) == a # Nowhere /\ asks[a].pc # "free" /\ asks[a].key = key

\* The figures of the banner are those of a scan that ended well, of the directory one is
\* in, unless the look for it is under way or the dialog brought them; and the dialog says
\* that a scan runs only if it has one or has asked for one.
ScansAreTold ==
    /\ banner.result # 0 =>
          /\ jobs[banner.result].status = "done"
          /\ \/ jobs[banner.result].place = PlaceOf(browser)
             \/ banner.by = "dialog"
             \/ \E c \in calls : c.by = "banner"
    /\ dialog.result # 0 => jobs[dialog.result].status = "done"
    /\ dialog.running => dialog.job # 0 \/ \E c \in calls : c.by = "start" /\ c.mine

\* However fast one goes about in directories, words, depth and pages, what is shown is
\* the page of the place one is at, and what says that it loads or is brought up to date
\* waits for a request of that page which will come back (StorageBrowser.tsx:111-158,
\* StorageIndex.tsx:43-88); and so is what is told of scans (StorageBrowser.tsx:270-289,
\* ScanModal.tsx:82-141).
ShownIsOfItsPlace ==
    /\ ScansAreTold
    /\ browser.page # NoPage => browser.page.key = KeyOf(browser)
    /\ browser.loading \/ browser.revalidating => \E a \in listWaits : IsUnderWay(a, KeyOf(browser))
    /\ index.revalidating => IsUnderWay(indexLoad.fresh, IndexKey)
    /\ index.refreshing \/ (~index.loaded /\ indexLoad.favourites # "none") =>
          indexLoad.favourites = "asked" \/ IsUnderWay(indexLoad.first, IndexKey)

NotOlder(new, old) == new # NoPage /\ old # NoPage /\ new.key = old.key => new.ver >= old.ver

\* A list that is shown or kept is not replaced by an older one of the same place: the
\* cached answer that comes after the new one, the answer of a request from before a
\* refresh (revalidationReceiver.ts:3-14, cache.ts:137-157).
ListsOnlyGetNewer ==
    [][/\ NotOlder(browser'.page, browser.page)
       /\ NotOlder(index'.list, index.list)
       /\ \A k \in DOMAIN entries : NotOlder(entries'[k].value, entries[k].value)]_browsingVars
=============================================================================
