# A verification development for the mado S3 data catalog

mado is a catalogue of S3-compatible storages: an HTTP API (`api/`), a worker process that
shares the API's code (`api/worker.ts`), a React client (`front/`) and a PostgreSQL
database (`db/migrations`). The TLA+ modules here model the parts whose correctness
depends on the order of steps: transactions of several requests, callbacks between two
`await`s, processes that die, jobs that are run twice, answers that come late. TLC checks
each of them on small instances, and TLAPS proves their safety properties for every value
of the constants.

    tlc -workers 2 -config MCWorkers.cfg MCWorkers     # a run of PROJECT.json
    tlapm JobQueueProofs.tla                           # the proofs of a module

`PROJECT.json` lists the components with their sources, the runs with their properties, a
mutant for every property of a passing run, the source lines each definition stands for,
the hazards, the findings and the theorems.

Contents: [1 the system](#1-the-system), [2 the modules](#2-the-modules), [3 the
runs](#3-the-runs), [4 the proofs](#4-the-proofs), [5 findings](#5-findings), [6 what is
not modelled](#6-what-is-not-modelled), [7 plan](#7-plan).

## 1. The system

Three kinds of process run concurrently. The **api** answers the browser; it is one Node
process, so code between two `await`s is atomic, but any number of requests interleave at
every `await`. The **worker** runs a job loop, the timers of the scheduler and of the
stale sweep, and the ffmpeg analyses the api forwards to it. The **database** serialises
them: statements at READ COMMITTED, row locks, advisory locks and unique indexes. Both
Node processes keep caches of their own, and so does every tab of the **browser**.

| Component | State it keeps | Operations | What makes it hard | What makes it correct |
|---|---|---|---|---|
| Job queue (`jobs.ts`, `job-runner.ts`, `worker.ts`) | table `jobs`; one run per worker | enqueue, claim, progress, finish, fail, cancel, stale sweep, prune | a worker dies anywhere, a slow run is taken for dead and run again, two statements per sweep | bounded attempts, one open row per target, outcomes are final, results never go back |
| Storage factory (`storage.ts`) | per process: row and S3 client of each connection, loads in flight | look up settings, look up client, invalidate after a write, expire | a load that read the old row ends after the invalidation; the worker hears of no invalidation | an answered write is seen; a client fits its row; stale entries die out |
| Capacity history (`capacity-store.ts`, `capacity-scheduler.ts`, `scan-handler.ts`) | settings, targets and snapshots of a connection | reserve, list, sync, enqueue, attach, settle; scan page by page, store | passes overlap, die between statements, attach a job that has already ended | one point per job, only whole walks, a success is backed, tracking stays scheduled |
| Connections (`routes/connections.ts`) | connections, their settings, the default | create, edit, delete, switch the default | a read from a snapshot older than the lock | one default, unsent settings survive |
| Connection pages (`ConnectionForm.tsx`, `connectionFormState.ts`, `ConnectionsPage.tsx`) | a form and what it showed at first, the list, an exported file | open, touch, save, export, import, delete | the form and the list are old while others edit, delete and import | a save changes only what was touched; what was not shown is not deleted |
| Shared requests, semaphore, media analysis (`shared-requests.ts`, `semaphore.ts`, `media-service.ts`) | map of pending loads, slots and waiters, `media_cache` | ask, join, hang up, time out, acquire, release, store | the last caller leaves while another arrives; a waiter is handed a slot while it is abandoned | one wanted load per key, exact slots, nobody gets somebody else's abort |
| Users, roles, passwords, sessions (`auth-*.ts`) | users, roles, credentials, identities, sessions | create, disable, delete, grant, reset, log in (locally, by SSO), change password, role sync | a check and its write are separate statements; Argon2 runs between the read and the transaction | an admin remains; no session outlives disabling, password or role |
| SSO sessions (`auth-oidc*.ts`, `routes/auth.ts`) | attempts, sessions with tokens | start, callback, recheck every 60 s, back-channel logout | a logout between the code grant and the session; a rotated token whose UPDATE is lost | a logged-out session is over and its tokens with it; a visit is let in on fresh word |
| Request guards, API keys, rate limit (`internal.ts`, `capabilityGuard.ts`, `auth-api-keys.ts`, `auth-rate-limit.ts`) | keys; windows of attempts in memory | authenticate, permit, see the connection, check the capability; consume | rights are withdrawn between two guards; the table of windows is full | admitted on rights there were; a window is kept while its sender goes on |
| Tar index cache and range index (`tar-index-cache.ts`, `tar-index-store.ts`, `tar-range.ts`) | indexes on disk with leases, a resumable scan per archive | open, lease, release, prune, retire, close | an index is replaced or evicted while it is read; a HEAD shared by callers, answers without ETags; a scan that stops or fails half-way | a leased index is open, none leaks, none outlives its HEAD; entries are an exact prefix of the archive |
| Listing cache, README (`storage-cache.ts`, `storage-list.ts`, `storage-readme.ts`) | responses in PostgreSQL; an object and a history | read, refresh, invalidate a scope; edit | a load in flight survives the invalidation; S3 and database cannot commit together | a stale listing was loading at the invalidation; record and text are those of the object |
| Notes, tags, favourites, settings and their audit (`notes.ts`, `storage-tags.ts`, `audit-activity.ts`) | rows, intents, events | edit, delete, assign; begin, commit, discard | a route throws after its COMMIT; the process dies before the end | every committed change has an event or a pending intent; the last version is the note |
| Lineage curation and events (`lineage-curation.ts`, `openlineage.ts`, `registry-client.ts`) | the Registry behind a lock per dataset | edit, register, ingest | a promise chain as a lock; a request given up may still take effect | edits of a dataset are serial; the audit follows the Registry |
| Lineage page (`LineagePage.tsx`, its toolbar and panel, `routes/lineage.ts`) | the place, a graph, a detail, a form | go, select, refresh, edit | answers for a place or node that was left | at rest the page is of one mind; a form saves to its own dataset |
| Prices and estimates (`pricing*.ts`, `transfer-estimate.ts`, `storage-estimate.ts`) | a catalogue in the database, a memo, a refresh job | estimate, refresh, build | missing rows, tiers and regions; several estimates start a refresh at once | a cost of 0 is explained; refreshes are paced |
| Browser caches, login state (`front/lib/api/cache.ts`, `auth.tsx`) | entries, promises in flight, `localStorage` | get, revalidate, invalidate, clear; log in, recheck, log out | answers arrive after an invalidation or a logout | nothing of a former user or version comes back |
| Storage pages (`StorageBrowser.tsx`, `StorageIndex.tsx`, `ScanModal.tsx`) | the page of a directory, the buckets, a dialog and a banner about scans | enter, search, page, refresh; start, poll, cancel a scan | answers of a place that was left, answers older than what is shown | what is shown is of its place; lists only get newer |
| Archive preview (`tar-stream.ts`, `storage-preview.ts`, `tar-preview-stream.ts`, `PreviewArchive.tsx`) | a page of entries, the pages kept, the text of one entry | stream, retry, page, refresh, open an entry | the browser leaves while the storage is about to answer; an attempt ends halfway and another goes on | pages are slices of one version; nothing is read for nobody |
| Player deck (`PlayerDeck.tsx`, `deckAudioGraph.ts`, `driftSync.ts`) | tracks, elements, graphs, analyses | add, remove, play, seek, mute, solo, channels | sounds, metadata and analyses arrive in any order | what the buttons say is what is heard |
| Octal fields and sizes of tar headers, media routes, metrics, other pages | none that outlives a request | pure functions, forwarding, rendering | boundaries | see [6](#6-what-is-not-modelled) |

How they interact. A route asks the *guards* (session, permission, connection settings),
then the *storage factory* for a client, then S3; a long computation becomes a row of the
*job queue*, which the worker's loop hands to the *scan* or *price* handler; the handler
reads through its own storage factory and writes the *capacity* tables. *Connections*
invalidates the api's factory and listing cache after its COMMIT. The *media* and *tar*
caches share upstream loads through *SharedRequests*. Every changing route runs under
*audit*. The browser's caches sit in front of all of it.

`PROJECT.json` holds the hazards, each at the line where it bites and with the properties
that would catch it.

## 2. The modules

Conventions. One SQL statement, or one transaction where nothing in it waits, is one step;
code between two `await`s of a Node process is one step. A throwing call is a disjunct or
an action of its own. Times are abstracted to what the code compares (`fresh`/`old`,
`due`/`later`). A definition named `X_Variant`, just before the definition `X`, is the
mutated form a mutant of `PROJECT.json` puts in its place; it is used nowhere else.
Variables marked *history* are not in the code: a property needs them to compare a state
with an earlier one.

### `JobQueue`, `JobLedger`

The table `jobs` is one function per column over the serial ids. Each worker has a job
loop (`wpc`: claim, handle, finish or fail) and a sweep of two statements; each caller
runs `enqueueWithResult`, an `INSERT ... ON CONFLICT DO NOTHING` followed by a `SELECT` of
the row it ran into, from the start again if that row was closed.

| Action | Code |
|---|---|
| `BeginEnqueue`, `Insert`, `InsertConflict`, `Lookup` | `enqueueWithResult`, `jobs.ts` |
| `Claim`, `HandlerEnds`, `Finish`, `FinishThrows`, `Fail`, `FailThrows` | `runOnce` of `job-runner.ts` over `claim`, `finish`, `fail` |
| `SetProgress` | throttled heartbeat and `isCanceled`; neither is awaited, so both may land late |
| `Crash`, `HeartbeatAges` | the process dies; 120 s without a heartbeat, whether it died or is slow |
| `RequeueStale`, `BuryStale`, `Cancel`, `PruneFinished` | the statements of the same names |

`JobLedger` is what the routes rely on: a set of targets with a pending computation and
the age of the result each shows. `JobQueue` implements it with the refinement `pending <-
{k : ActiveFor(k) # {}}`, `latest <- [k |-> LatestDone(k)]` (`LedgerSpec`).

### `ConnectionCache`

The committed row of one connection is a version, the fields a client is built from and
one permission. Each process has a cache entry with its age, a map slot for the load in
flight and the loads themselves (query, `.then`, `.finally` as separate steps, because
other callbacks run in between). A request asks twice, for the guard and for the client.
`Write` commits; `Invalidate` runs after it in the api process, or never, when the answer
of the COMMIT is lost.

### `CapacityScan`

The scheduler's pass (`Reserve`, `Check`, `List`, `Sync`, `Enqueue`, `Attach`, `Settle`)
and the manual POST share the statements from `List` on; each may fail (`StepFails`) or
die (`PassDies`) at any of them. The handler walks pages (`Page`, `PageFails`) and records
in one transaction (`RecordSuccess`). The jobs are those of `JobQueue` reduced to what is
proved of them there: at most one open row per target (`OneActivePerTarget`), closes that
only take a running row (`ClosedStaysClosed`), and a sweep that may strike a live run,
which is why two runs of one job reach `RecordSuccess` in the model as they can in the
code.

### `ConnectionSettings`

`PUT /connections/:id` reads the row and its settings in one statement that waits for the
row lock: the settings come from the snapshot taken before the wait (`PutSelect`, then
`PutLock`). `PUT .../default` takes an advisory lock, locks its target, clears the other
defaults (the UPDATE finds its rows when it starts and waits for their locks afterwards:
`SwitchClear`, `SwitchWait`) and commits against the partial unique index (`Conflict`).

### `ConnectionEditing`

The same connections seen by administrators side by side. A form is what it was opened on
(`base`), what it shows and which fields were touched; `Save` sends the fields whose shown
value differs from that of `base`, in the groups `toUpdateInput` sends together, and the
route merges them into the row of that moment. The page with the list keeps what it
loaded; `Export` writes it to a file, `StartImport` with `replace` dooms the connections
its list shows under names the file does not hold, and `ImportDelete` and `ImportOne` send
one request each. A PUT is one step here; what two PUTs do to each other between their
statements is `ConnectionSettings`.

### `SharedRequests`, `Semaphore`, `MediaAnalysis`

`SharedRequests` and `Semaphore` give the steps of the two classes as operators on their
variables; `MediaAnalysis` extends both and interleaves them with `analyzeAndCache`:
look-up, slot, source, copy to disk, ffmpeg, upsert, `finally`. A settled promise, its
`.finally` and the `.then` of each caller are separate steps. `HangUp` is the browser
going away, `TimesOut` the load's own timer, which runs while it queues. `Hangs` is an
opening of an entry of a compressed archive that never returns (`media-source.ts:49-52`
awaits `extractTarEntry`, see `entry_hangs` under [findings](#5-findings)): neither an
abort nor the timer ends it, and its slot is lost for the life of the process. `TarIndexCache`
reuses `SharedRequests` for its HEADs and `TarRangeIndex` the semaphore for its scans,
each as an `INSTANCE`.

### `TarIndexCache`

`open()` has one `await`, the HEAD, and is two actions: `OpenTar` prunes and relies on a
young HEAD or asks for one, `Resume` reads the map again, renews or replaces the index and
leases it. `ReleaseLease` is the closure it returns; `Pruned` gives the sets of indexes
`prune()` may close, `Retired` is `retire()`, `CloseCache` is `close()`. A closed index is
a record no more; its name is used again for a new one. Abstracted: an object's version
stands for ETag, size and date (without ETags all versions look alike, the case for which
the code compares the identity of the HEADs); bytes are "a scan has filled this file"
(`Grows`); the order of the map is any order; ages stop at the TTL. `Changes` is the
storage; `since` is the age of the last change, so that `IndexIsCurrent` can say what
HEAD_TTL_MS promises. It leaves the time a HEAD itself takes out of account: the clock of
`checkedAt` starts when the answer arrives.

### `TarRangeIndex`

One index: a reader calls `list` or `find` (`AskIndex`, `FindAtOnce`), waits its turn, and
loops over `scanNext`: `NextHeader` charges the budget, `Entry`, `MetadataHeader` with
`Metadata`, `SkipsLinkName` and `EndOfArchive` are what a header can be, `Throws` every
way a read, the budget or the signal ends the operation where it is. `InsertFails` and a
`COMMIT` that fails (`Returns`) leave any prefix of the rows in the table and fail the
store. An archive is a sequence of header types and names; PAX sizes, sparse files and the
chunk of a range read are left out. `Contents` is the reference: what each entry is called
and whether it is shown, defined from the whole archive.

### `Accounts`

Users, roles, identities, password hashes and sessions, under the transactions of admin
changes, logins, password changes and SSO provisioning. A request is a record of what it
has read and will do next; a step ends where the transaction waits for a lock or reads
what another may still change. `AskChange` .. `CountAdmins` are
`assertAdminRemovalAllowed`; `LockUser`, `UpdateStatus`, `ReplaceUserRoles`, `DeleteUser`,
`ResetLocalPassword` the rest of each transaction; `AskLogin` and `AskNewPassword` read
the hash that Argon2 then verifies outside any transaction, and `OpenLocalSession`,
`ChangeLocalPassword` compare it again under the row lock; `FindLinked`, `FindByEmail`,
`CreateJitUser`, `SyncOidcUser` and `OpenSsoSession` are `provisionOidcUser` and the
session after it. Sessions alike in user, password and roles count as one: every statement
that revokes takes all sessions of a user.

### `OidcSessions`

One subject of one provider that rotates refresh tokens. A login goes from `StartLogin`
and `InsertAttempt` (the limit of attempts is read before the insert) over the provider
(`IdpLogin`) to the callback: `ClaimAttempt`, `GrantCode`, `ProvisionUser`,
`CreateSession`. A visit reads the session (`ReadSession`), and if it was not checked for
a minute starts or joins the shared check `Reread`, `RefreshGrant`, `FetchUserInfo`, then
`RevokeChecked` or `StoreAnswer`; each request to the provider may fail before or after it
took effect. `BackchannelLogout` comes by `sid` or by `sub`; an ID token may lack the
`sid` (`Sidless`, `auth-oidc.ts:225`), and a logout by `sid` then misses the session.
`FrontchannelLogout` and `Logout` come from the browser; `IdpMoves` and `IdpCloses` are
the provider, `SsoRestart` the end of the api process, which forgets the shared checks.
Roles that change in the tables are `Accounts`.

### `Admission`

The guards in the order of `internal.ts`, each a step that reads what is true when it
runs: `Authenticate`, `Permit`, `SeeConnection`, `CheckCapability`; `CheckKey` for the
producers, with `IssueKey`, `RevokeKey`, `KeyExpires` and `UpdateAccount`. `RouteTable`
says what each route asks for. `SessionIsEnded`, `EditConnection`, `DeleteConnection`
withdraw rights in between, and until `PutAnswered` a capability may be read from the row
a PUT has replaced, which is all that `AnsweredWriteIsSeen` of `ConnectionCache` allows.
`held` notes the rights there were at any moment since the request came. `Consume` is the
limiter of attempts, whose table keeps `MaxBuckets` windows in the order they were used;
`StartCheck` and `EndCheck` bound the password checks that run at once.

### `ReadmeListing`, `AuditedContent`, `LineageCuration`

`ReadmeListing` has the PUT of a README (`LineUp` in the chain of promises, the
comparison, `WriteObject`, `InvalidateScope`, `Record`), the cached listings of its
prefix, and the PUT of the connection that deletes them all (`InvalidateConnection`). A
GET waits for its client first (`Ask`, `NoClient`, `GotClient`): the one it gets may be of
any row since the last PUT of which the client was dropped when it asked, so a load may
begin after the DELETE with the connection of before it (`late`; what `getStorage` itself
guarantees is `ConnectionCache`). Then it joins a load or starts one: `LookUp`,
`ListPage`, `Keep`. `StaleListingsWereLoading` excepts such late rows as it does those that
were loading when the DELETE ran (`crossed`): the route stores both. A DELETE that fails,
or that a failure keeps from being sent, is noted in `missed`.

`AuditedContent` follows a mutating request through its middleware: `Start` makes a
durable intent, the route changes the tables in one statement (`State`), in two
(`SelectTag` first) or in the transaction of the note (`BeginNote`, `LockNote`,
`CommitNote`), may enqueue scans one by one (`Enqueue`), write an event of its own
(`WriteDedicatedAudit`), refuse or throw at any point (`Throw`, after its COMMIT too);
`Commit` and `FinishIntent` end the intent and `ApiDies` leaves it as it is. `clock`
numbers the transactions in the order they began, which is what `now()` says.

`LineageCuration` holds a dataset behind the chain of promises `datasetMutationTails`:
`ReadDataset`, `Compare`, `Send`, `ReadBack`, `Audit`. A request to the Registry that is
given up after five seconds stays in `inFlight` and may take effect later (`TakesEffect`).
`Deliver`, `Ingest` and `RecordUse` are an OpenLineage event, which a producer may deliver
twice.

### `LineageView`

The lineage page. `place` is the URL; effects run after the render that asks for them
(`AskGraph`, `AskDetail`) and their clean-up tells the load before that it is no longer
current. `TakeGraph`, `AnswerDetail` and `TakeDetail` are answers, in any order; `Edit`,
`Submit`, `Curate` and `EditSaved` the form of the panel, whose save reloads both.
`OtherEdits` are other curators.

### `ClientCache`, `PlayerDeck`

`ClientCache` is one persisted key of `cache.ts` in several tabs that share a cookie and
`localStorage`: `Get` with or without `onRevalidate`, `ApiAnswers`, then `Keeps` or
`Fails` when the promise settles, `EditSent` and `EditAnswered` (which invalidates),
`Expires`; and the login state: `LogIn`, `Recheck`, `Confirm` after a 401, `SignOut`,
`Starts` for a reload of the page, and `Reloaded` when another user is found. `floor` is
what a tab last dropped.

`PlayerDeck` is the provider, the `<audio>` elements and the effects between them. A sound
of a compressed archive is fetched before its element exists (`FetchEnds`); `LoadsMetadata`
and `Analyzed` may come at any time, `Advance` is a second of playback, with the ends of the
tracks, and `Tick` the timer that corrects the drift. The first channel button of a track
builds its graph, after which it is muted there and not on its element.

### `ArchivePreview`

`fetched` is a request for a page of entries from both ends. At the api: `Opens` is the
storage, or the index, coming back, `ReadsEntry` the parser's next entry (hidden, before
the page, behind it, of it), `EndOfArchive`, `BytesRunOut` and `Breaks` its three ends,
`Abandoned` the end of one whose browser has left. In the browser: `Emit` compares an
entry with what an earlier attempt has shown, `Pends` and `Retries` are the attempts over
an index that is not complete, `Settles` the promise that the cache and the page wait for.
`DrawerOpens` .. `ForceRefresh` are the page, whose `listing.by` says whether the effect
of the place or a refresh brought what is shown. `OpenEntry` .. `HeadAnswered` are the
dialog with the head of an entry, for which the api reads the archive from its beginning:
`HeadParses`, `HeadTakes` (chunks), `HeadEnds`, and `Piped`, the callback of the pipeline.
`ObjectReplaced` is an upload, `TabReloads` a reload of the tab.

### `StorageBrowsing`

The cache of lists (`entries`, `asks`; `Awaits` is `get`, `Commits` its `then`), the pages
of a directory (`LoadsPage` is `load()`, which ends the session before it; `ShowsPlace`
adds the reset and the look for the latest scan), the list of the buckets (`LoadsIndex` is
`refresh()`, whose answer is of buckets and favourites together, `BothArrive`, unless a
revalidation came first), and the scans: `jobs` at the api, `DialogOpens` .. `Ticks` the
dialog, `BannerLooked`, `DialogLooked`, `ScanStarted` and `JobPolled` what its calls bring
back. That the api never lists an older state than before is assumed here; what its own
cache may do to that is `ReadmeListing`.

### `Estimates`

`EstimateTransfer` computes what `transfer-estimate.ts` answers, over every combination of
provider, overrides, tiers and missing prices in the instance; `BuildRegion` and
`FetchRegion` build the catalogue the job `pricing.refresh` stores (`SaveCatalog`), and
`MemoExpires` is the minute for which the api remembers it. An `Ask` over an old catalogue
looks for the last attempt (`LookUpLast`) and then starts a refresh (`EnqueueAuto`): the
two are separate, so several may start one.

### Compositions

`MCWorkers`, `MCAccountParts`, `MCRouteParts`, `MCScanAndGuards` and `MCPages` put modules
that share no state into one run: `part` (`page`, `screen`) is chosen at `Init`, what does
not run stays as it begins, and the numbers of states add up instead of multiplying.
`MCScanAndPages` runs two parts of `MCScanAndGuards` and all of `MCPages` under fairness,
`MCScreensAndGuards` the screens and the other parts of `MCScanAndGuards`.
Modules that do share state are composed by `EXTENDS` or `INSTANCE` above:
`MediaAnalysis`, `TarIndexCache` and `TarRangeIndex` use the classes, `JobQueue`
implements `JobLedger`. Where two components meet across a boundary the one uses what is
proved of the other: `CapacityScan` the two facts of `JobQueue`, `Admission` the freshness
of `ConnectionCache` and the ended sessions of `Accounts`.

## 3. The runs

| Run | Instance | What it shows |
|---|---|---|
| `workers` | queue: 2 workers, 1 caller, 1 target, 2 rows, 2 attempts; analysis: 3 callers, 2 objects, 3 request objects, 2 pending, 1 slot, 1 waiter; fair | attempts are bounded, the queue implements `JobLedger`, every row is closed and every enqueue returns; loads are shared while wanted, slots go to the wanted, every caller is answered |
| `auth` | 2 users (one known to the IdP), 2 requests, 2 passwords; or 2 connections with 2 switches, or with 2 PUTs of one of them and 1 switch | the last admin, sessions after disabling, password and role changes, lock order; no unique violation, unsent settings survive |
| `route_parts` | one of twelve parts: queue with 1 worker, 2 targets (one without a handler), 3 rows; 3 PUTs of a README with 2 bodies; 2 listings of 1 scope among 1 PUT of the README and 1 PUT of the connection, or among 2 PUTs of the connection; 2 of 12 changes of content; 3 edits of a dataset; 2 deliveries of 1 event; 1 session with 2 visits; 2 logins (one without a `sid`) with 1 visit; 2 tars of which one changes, 2 callers, 1 HEAD of each, 3 index names, a limit of 2; 6 archives, 3 readers, 3 operations, 2 headers per operation, 1 waiter; a short track that is fetched and a longer one, with every button and no time, or with time and no button of a track | what the queue publishes and answers; record, text and listings of a README; audit and notes; edits and audit of lineage; tokens and visits of an SSO session; leases, limits and versions of the tar cache; every answer of an index is that of the whole archive; the deck stays whole |
| `scan_and_pages` | capacity: 1 bucket, 1 timer pass, 1 worker, 1 job, fair; the worker's cache, 2 versions, fair. Or one of eight pages: an archive of 3 entries, replaced once, with 2 requests (compressed and refreshed at will; by its index; with two sizes of a page) or 2 heads of an entry; the buckets; a directory of 2 pages in another; 1 word with and without depth; 2 scans of 2 directories | tracking that stays on stays scheduled and is reserved again; old entries die out; slices, abandoned downloads, texts, what is shown where, newer lists |
| `screens_and_guards` | one of ten screens: 2 tabs of one user; 1 tab of 2 users; 1 estimate of 5 connections by 5 price lists; 2 requests for an estimate over 2 days; forms (1 administrator, 2 fields; 2 administrators; an import beside a form); the lineage page with 2 datasets (curated; visited; with a job and 2 depths). Or one of five parts: a capacity scan of a bucket that may vanish while it is tracked, with a POST, 2 pages, 2 jobs; two requests of the api over the caches of a connection and 1 write; a browser's request through the guards of 5 routes; a key; 3 senders with a table of 2 windows | forgotten answers, explained costs, paced refreshes, meant changes, one mind; history, answered writes, clients, admission on fresh rights, windows |
| `conn_incoherent`, `auth_no_admin`, `auth_deadlock`, `oidc_reuse`, `edit_rounds`, `entry_hangs`, `deck_end` | the same instances, smaller where one part is enough | violations, see [findings](#5-findings) |

Why the bounds are enough. A hazard here needs two actors and one more thing that gets in
between. Three rows let a target have a result, a failure and an open row at once, which
is what the prune and the order of results distinguish; two attempts reach the limit from
below and at it; two loads let an invalidated load and its successor run beside each
other; two pages distinguish a whole walk from a partial one, and two jobs a late attach
from a current one; three callers are a joiner, a leaver and a newcomer; two admins
suffice to lose the last one. Two leases and a limit of two let a leased index be out of
the map, and full, while another is asked for; the archives put a global PAX name below a
local one and above a long one, hide an entry by its PAX name, and stop a scan between a
name and its entry, which two headers per operation do at every place. Three PUTs of two
bodies let a body come back after another, which a comparison with a stale one would take
for no change; two logins of one browser meet the limit of attempts; three senders are one
more than the windows the table holds; three connection ids let an import restore one that
was deleted beside one that is edited and one that is made; two loads of each kind let an
answer overtake another on the lineage page. Five price lists are whole, without the free
amount, without a row, without prices of the region and with a price of 0. The second
version of the archive has lost its first entry and has two of one name at its end, of
which the limit of bytes may cut off the last: an offset means another entry then, a name
may be found twice, a chunk ends at, before and beyond the limit of a head. Two PUTs of a
connection let the client of before the first be stored after the second.

`MaxJobs`, `MaxVersion`, `MaxPassword`, `MaxConn`, `MaxAnswers`, `MaxWrites`, `MaxChecks`,
`MaxTime`, `MaxDay`, `MaxAutos`, `MaxTouched`, `MaxVisits`, `MaxEditions`, `MaxAsked`,
`MaxOffset`, `MaxCursor`, `MaxListed` and `MaxScans` cap what the code leaves unbounded;
each guards the actions that would exceed it. `FewSessions` leaves at most two sessions
open at a time in the first part of `auth`. `MaxAttempts`, `MaxPending`, `MaxWaiters`,
`MaxHeads`, `MaxArchives`, `MaxBig`, `MaxHeaders`, `MaxInLine`, `MaxBuckets`, `HeadLimit`,
`Reach` and `MaxPasswordChecks` are limits of the code with small values. The conditions
beside a part in `MCRouteParts`, `MCAccountParts`, `MCWorkers`, `MCScanAndGuards`,
`MCPages` and `MCScreensAndGuards` (`OneLogin`, `FirstKeyAgain`, `BigWithEtags`,
`NoTimeGoesBy`, `OneImports`, `GoingAbout`, `OneBucketIsScanned`, `OneByOne`, ...) cut the
instance, not the module: each part leaves out what another part has, and the comment
above each says what it keeps. Values are model values; symmetry is used only in the
`auth` runs, which check no liveness.

Deadlock. `CHECK_DEADLOCK FALSE` stands where the system may stop: in the `auth` runs
because an admin created without a password and without an SSO link can be the only one
left, after which nobody can log in to do anything, and because every connection may be
deleted; in `conn_incoherent`, `oidc_reuse` and `route_parts` because each request, PUT,
edit or delivery comes once. The other runs check it. In `screens_and_guards` the parts of
the forms may always stutter, so there it says nothing about them; nobody waits for
anybody in them.

Fairness. `workers` and `scan_and_pages` assume weak fairness of the steps the runtime
performs by itself: queries return, handlers end, timers of a live process fire, callbacks
of settled promises run, a restarted worker claims again, entries reach their time limit.
Nobody is obliged to enqueue, cancel, write, press a button or hang up, and no failure has
to happen; crashes are not fair either, and `QueueMakesProgress` holds in spite of any
number of them because each one costs an attempt. `EveryCallerIsAnswered` needs the timer
of a load, which is what ends one that never gets a slot. It does not suppose that an
opening ends: `Hangs` is possible whenever an entry of a compressed archive is opened, no
fairness undoes it, and the property excepts the callers of that very load, who may wait
for ever, but nobody who queues behind it. `TrackedIsReserved` the timer of
the scheduler, whose pass may die; `StaleEntriesDieOut` only the time limit of an entry
and the end of its load: no invalidation.

## 4. The proofs

Each `*Proofs` module proves, for every value of the constants that satisfies the named
assumptions, theorems about the specifications it names.

| Module | Inductive invariant | Theorems |
|---|---|---|
| `JobQueueProofs` | `QueueInv` = types, `Bookkeeping` (rows above the sequence are absent, a busy loop holds a row), `PoisonIsBounded` | `TypeCorrect`, `PoisonBounded`, `OneActive`, `ClosedIsFinal`, `EnqueueAnswers`, `OneWorkerPublishes`, `ResultsKept`, `TableImplementsLedger` |
| `ConnectionCacheProofs` | `CacheInv`: what is cached, loading and awaited is no older than what was answered when it entered; clients fit rows in loads too; the entry a load compares with is the one in the cache | `TypeCorrect`, `AnsweredSeen`, `ClientsMatch`, `ReloadKeeps`, together `ServedCurrent` |
| | `GuardsInv` (`Admission`): the rights of this moment are among those noted since a request came, and each stage has found what it asks for | `RightsAreFresh` |
| | `AttemptsInv` (`Admission`): a sender has one bucket, and every sender with a bucket behind it has tried since its last attempt | `WindowsStay` |
| | `EditingInv` (`ConnectionEditing`): what a form shows otherwise than at first was touched; a file only holds connections that were as open; an import dooms what its list shows | `ChangesAreMeant` |
| `CapacityScanProofs` | `IInv`: jobs have buckets, a busy loop runs a job of a bucket, `store` is reached with all pages, a pass attaches a job of its bucket, one snapshot per job | `TypeCorrect`, `WholeHistory`, `SuccessBacked`, `OnSchedule` |
| | `PaceInv` (`Estimates`): refreshes made today and still promised are no more than the askers, and the first attempt of a day is on record | `AttemptsAreFew` |
| `AdministrationProofs` | `AccountsInv` = `AdminInv` and `SessionInv` | `TypeCorrect`, `AdminsRemain`, `DisabledUsersHaveNoSession`, `PasswordsExpire`, `RolesAreCurrent`, together `SessionsFollow`; `LocksAreOrdered` |
| | `SettingsInv`: past its beginning a switch holds the advisory lock and its row, and the first UPDATE has found every default there is | `SettingsTypeCorrect`, `OneDefault`, `NoConflict`, `UnsentSurvive` |
| `MediaAnalysisProofs` | `IInv`: the map holds exactly the wanted loads under their keys, the queue holds exactly the queueing loads once each, slots equal holders | `TypeCorrect`, `SharedLoads`, `SlotsWanted` |
| | `RangeInv` (`TarRangeIndex`): one reader is inside and the line holds the others once each (`SlotInv`); unless the store failed, the table is what the archive has before the position and the names read are those of the next entry (`ScanIs`); an answer given is right (`ReadersInv`) | `AnswersHold` |
| `TarIndexCacheProofs` | `TarInv`: types, `Coherent` (the open indexes are those in the map and those leased, `leases` counts the holders), `LimitsHold`, and what each index says of the HEAD it came from | `TarTypeCorrect`, `FilesAreHeld`, `IndexKeepsUp` |
| `ClientProofs` | `DeckInv`: types, no track twice, nothing kept of tracks that are gone, `DeckIsWhole` | `DeckTypeCorrect`, `DeckWhole` |
| | `CacheInv`: of each tab, what its entry, its requests and its page say of each other and of what it dropped | `CacheTypeCorrect`, `ForgottenStaysSo` |
| | `PreviewInv` (`ArchivePreview`): what a request has read is a part of one version that begins where its page does, what is kept, shown and awaited is of its place, and a page that loads waits for a request that will be answered | `PreviewInvHolds`, `PagesAreWhole`, `NothingForNobody` |
| | `DialogInv` (`ArchivePreview`): the parser of an entry has passed no entry of its name, the requests that count are of the entry that is open | `TextIsRight` |
| | `BrowsingListsInv`, `ScanInv` (`StorageBrowsing`): what is shown, cached and awaited is of its place, and no answer on its way is older than what it may replace; the scans a banner, a dialog and the calls on their way tell of exist, and those told of as over ended well | `NoOlderListReturns`, `PlacesShowTheirOwn` |
| `RouteProofs` | `CurationInv` and `EventsInv` (`LineageCuration`): the head of the chain is alone between read and PATCH and has seen the dataset as it is, unless a request given up came late | `EditsAreAlone`, `AuditIsTrue` |
| | `AuditInv`, `NoteInv` (`AuditedContent`): each request's place against its intent and change; who writes the note holds its lock | `AuditIsWhole`, `NoteKeepsItsHistory`, together `RecordsAreTrue` |
| | `PutsInv`, `ListsInv` (`ReadmeListing`): the writer holds the line from comparison to record; a load, and a GET that waits for its client, knows whether a DELETE passed it and how old its client may be | `RecordsFollow`, `ListingsAreCurrent`, together `KeptFollows` |
| | `LoginOK`, `WordOK` (`OidcSessions`): per login what its session, check and tokens say of the provider; per visit how old the word is it was let in on | `TokensFollow`, `AcceptedFresh` |
| | `ViewInv` (`LineageView`): the form is of the detail that is shown, saves of the form, loads marked current are of the present place | `OneMind` |

How they go. In each the invariant is strengthened by what the local variables of an actor
say about the shared tables while it is between two steps: that is the part a test cannot
see, and without it no step of the actor can be shown to keep the property. The proofs
have one lemma per group of actions and one step per action below it; the last step of a
theorem is propositional temporal logic.

`AnsweredWriteIsSeen` needs that of every way a request is served: from the cache, from a
load it started or from one it joined, so the bound "no older than what was answered" has
to hold of all three, and the load in the map must be one that no invalidation has
removed.

The accounts are argued per request. `Sound(r)` says of a request in the middle of its
transaction where it is (`InPlace`), which locks it holds (`Locked`), and, if its next
step takes an admin away, that another active admin remains (`LeavesOne`, unless a blind
sync has happened). A step of `r` leaves the other requests and their locks alone
(`Frame`) and is `Lawful`: it changes only rows nobody else has locked, and takes an admin
away only under the advisory lock. Those two facts carry `Sound` over to every other
request. For sessions each action is shown to leave a session as it was (`Stays`) or to
open one the present tables allow (`Opens`).

`TableImplementsLedger` is the refinement: the initial table maps to the empty ledger; an
insert maps to `Open`, a finish that is heard to `Publish`, the end of a target's last
open row without a result to `GiveUp`, and every other step, the prune included, to a
stutter, because the newest result of a target is never pruned.

Two chains of promises, `readmeWriteTails` and `datasetMutationTails`, are locks.
`ChainInv` says once what both have in common: a request stands in the line once, and only
its head is inside. `CurationInv` and `PutsInv` instantiate it. A request given up by the
Registry is outside every lock, so `NoEditInBetween` excepts what came after one
(`strayed`).

`TarInv` counts: a lease is added or returned by exactly one holder, so an index that
`Retired` closes is held by nobody. The freshness of `IndexIsCurrent` needs a bridge
between the HEAD and the index that keeps its answer, `AllKnow`: an index was built from a
HEAD that is over, or from one whose answer it still is.

A page of an archive is argued by ranks: the `Rank` of a place is the number of entries up
to it that count, and `ReadWell` says of a request that the rank of what it has read is
what it skipped and what it kept together, so that the entry of each rank beyond the offset
is in its place. A new entry raises the rank by one or is not counted, whatever the order
of reading, leaving and falling behind.

`ListsOnlyGetNewer` fails for two requests of one place whose answers cross, which is what
a refresh beside a first load would make. `BrowserInv` says that the page never waits for
two; `IndexInv` that the first and the fresh request of the buckets are never both under
way, and that the list given at first (`initial`) is no older than what is shown
unless a fresh answer has come, after which it is not shown again.

`Contents` says what an archive holds without going through it: an entry is called what the
last extended header that is meant for it says, or its own header if there is none, and its
rank among the entries that are shown is its place. `ScanIs` is the part of that up to the
position, and `Advances` what one more header adds to it, so an archive of any length needs
no induction of its own: each step of the scan is one.

`WindowsAreKept` counts who may push a window out. The table is in the order of use, so
the buckets behind one are of different senders that have all tried since. When a running
window goes from the front, all the table is running windows, those behind it are of
`MaxBuckets - 1` senders, and with the one who tries now they are `MaxBuckets`.

`OneWorkerPublishes` assumes one worker, as `deploy/worker-service.yaml` runs it. With
two, a run that was taken for dead may finish the row its successor has claimed; the part
`queue` of `route_parts` checks the property on the same assumption.

Assumptions. They say that a constant which stands for "none" is not one of the things it
is to differ from (`NoKey`, `Nobody`, `NoOne`, `Nothing`, `Absent`, `Unset`, ...), that
limits are numbers (at least 1 where the code's are), and that one set of actors lies
within another or apart from it. Finite sets are assumed where the proof counts: `Users`,
`Requests` of the shared loads, `Indexes` and `Openers`, `Askers`, `TrackIds`.
`RoutesAssumption` says that `Routes` are rows of the table of routes, and
`RowsAssumption` that the connections there are at first are connections the api would
have stored, `RangeAssumption` that an archive is a sequence of headers whose names differ
from `None` and that pages are cut by numbers. TLC evaluates each on the run of its module.
Bounds such as `MaxJobs` stay parameters: a theorem holds for each value of them.

`TypeOK` of these modules is a theorem and is no longer in the runs, which check what goes
beyond types. Types of `Estimates` beyond `PaceInv` are only implied by what is checked.

Only model-checked:

- liveness: `QueueMakesProgress`, `EveryCallerIsAnswered`, `TrackedIsReserved`,
  `StaleEntriesDieOut` (fairness and ENABLED are beyond the provers);
- `CostIsExplained`: sums over tiers and over each GB are folds, and what a fold computes
  is an induction over what it folds; besides it rests on what AWS publishes (no tier of a
  region is free but the Global one, ranges in order), which `fetchCatalog` checks only in
  part and the run supposes in its `PriceLists`.

## 5. Findings

- `auth_no_admin`: `provisionOidcUser` reads a user's roles without a lock and leaves the
  admin check out when it saw no admin role. A grant to that user and the disabling of the
  other admin in between leave no active admin, against the invariant
  `auth-admin-invariant.ts` states.
- `auth_deadlock`: the foreign key of `granted_by` locks the granting admin's row after
  the target's, outside the documented lock order; two admins who change each other's
  roles deadlock (PostgreSQL ends one of them).
- `conn_incoherent`: two PUTs each allowed by what they read leave a combination of
  settings that the route refuses. The same stale read makes a PUT that reverts a
  concurrent change answer 200 without writing.
- `oidc_reuse`: when the provider has exchanged a refresh token and its answer, the
  userinfo after it or the UPDATE is lost, the row keeps the exchanged token and the next
  check presents it again, against the comment that says the reread avoids it.
- `edit_rounds`: the form shows a capacity rounded to a tenth of a TiB and compares what
  it shows with the capacity itself, so that a save that touched nothing changes it; the
  comment says that nothing is sent then.
- `entry_hangs`: when the storage or the decompressor fails while an entry that was found
  is read, `extractTarEntry` neither resolves nor rejects, and the request for its head is
  never answered, against the comments that say the entry was resolved already and that an
  error reaches the callback. The analysis of such an entry (`MediaAnalysis`) loses its
  slot with it.
- `deck_end`: play, let the shorter track end, pause and play again. `play()` on the ended
  track starts it from its beginning beside the longer one, which goes on where the deck
  is, against the three comments that say a shorter track is silent past its end.
  `DeckIsWhole` of `route_parts` leaves that case open.

## 6. What is not modelled

In the modelled components: retention of `auth_sessions` and `jobs` rows beyond the prune
(time only removes what is already dead), `must_change_password` beyond the guard that
asks for it and profile fields, the e-mail and username matching of a first SSO login
beyond "linked, found by e-mail, or created", two identities of one person, the length of
the capacity backoff and the display statuses nothing reads, ffmpeg and Argon2 themselves,
the progress percentages of jobs, refused autoplay and browsers without Web Audio, the
colours and lists of tags, the masking of names of hidden connections.

Not modelled at all: the components with status `not_modelled` in `PROJECT.json`, each
with its reason, and of the pages of the browser the administration, the search by tags,
the capacity metrics and the settings. Formatting,
rendering, deployment and the static documentation have no protocol to model.

Seen while modelling and left without a property. Where a text of the repository promises
otherwise, it is named.

In the api:

- A cancelled scan leaves its target on `queued` until the next pass
  (`capacity-store.ts`). A bucket deleted from the storage keeps its last status for ever
  (`capacity-store.ts:415`); the design document says it becomes `error`. A truncated page without a next token ends a walk as if it were
  whole (`scan-handler.ts`).
- A joiner inherits the timer of the load it joins (`media-service.ts`).
- Parallel starts may exceed the limit of OIDC attempts, which is read before the insert
  (`auth-oidc.ts`).
- The time of a version of a note is that of the BEGIN, older than the lock (`notes.ts`);
  the order of ids is the one `RecordsTellTheTruth` uses.
- A PATCH of lineage metadata that was made but whose read-back fails leaves no audit.
- An estimate whose source region is not in the catalogue shows egress and retrieval of 0
  without a warning of its own: the route warns of the destination alone
  (`transfer-estimate.ts:145, 278-281`). That contradicts the design
  (`docs/superpowers/specs/2026-08-22-transfer-estimate-design.md:17, 42-45`),
  `pricing-store.ts:7-9`, `pricing.ts:118-119` and what `pricing.test.ts:161-167` tests of
  the catalogue. `CostIsExplained` leaves exactly this case out, its comment says so, and
  no run of its own shows it. A read of the catalogue that is in flight across a `save`
  remembers the older one for another minute.
- The list of S3 prices is fetched once for all regions; in `Estimates` each region has
  a list of its own, which is the same for one region, the number the run has.
- `PUT /connections/:id` decides "no change" from its snapshot (see `conn_incoherent`).

In the browser:

- Another tab's load in flight may store its answer in `localStorage` after a logout
  (`cache.ts`), although `cache.ts:57-60` and `auth.tsx:52-53` promise that nothing is left
  for the next user of the browser. `NothingForgottenReturns` is about what a tab drops
  itself, and no instance has two tabs and two users. A `reload()` that fails after a login
  keeps the memory of the tab for the user who follows.
- The editor of connections is not keyed by its connection; the form of a new one asks for
  the scans and the cache's time to live, and sends neither; an import that replaces
  deletes by the names of an old list, and its page stays usable meanwhile.
- On the page of users, and in the list of audit events, a `reload()` during a
  `loadMore()` leaves gaps or duplicates; a save always sends name and status, and the
  role that its `<select>` was opened with, so that an old form enables a user again or
  takes a role back; PATCH and PUT of the roles are two requests; and a user who was
  linked to SSO since still gets the PUT, although the page says
  「SSO側で管理されるため、Madoからは変更できません。」.
- In the storage browser, an older list of tags may overwrite an edit of them, a
  favourite that could not be pinned takes a parallel one back with it, and a search that
  is pending goes out with the old words at the new place. An older load of the bucket
  list that fails leaves its error beside what a refresh has brought.
- A second scan begins with a poll of the first one's job, whose end makes the dialog say
  that nothing runs (`ScanModal.tsx:108-131`). What a dialog has polled may put the
  figures of one directory into the banner of another (`ShownIsOfItsPlace` allows for
  both), and a banner that says a scan runs is not told of its end while the dialog is
  closed.
- A refresh of an archive's page that comes late shows its page in the place of the next
  one, and an older load that failed its error over what the refresh brought
  (`PreviewArchive.tsx`). The preview of an entry takes the 202 of an index that is not
  complete for its text.
- The page of capacity metrics takes answers for a period it no longer shows.
- After the last track is removed during playback, with a pin present, the deck still
  counts as playing, and the next track starts by itself.

## 7. Plan

Order: what several actors can break comes first, what one function computes last.

1. The page of users and service accounts (`AdminPage.tsx`) beside `Accounts`: lists that
   grow by pages while they are reloaded, edits from old lists, keys that are shown once.
2. The registration of lineage (`LineageRegisterPage.tsx`) in front of `LineageCuration`.
3. The tags of a storage in the browser (`TagSearchView.tsx`, `tags-client.ts`) beside
   `StorageBrowsing`: edits that an older list overwrites.
4. A run that shows the egress of 0 of a source region that is not in the catalogue
   (see [6](#6-what-is-not-modelled)).
5. Pure algorithms against reference definitions: byte ranges, octal fields and PAX sizes
   of tar headers, the accumulator of a scan, the routes of the browser.

Theorem to add: the sums of `CostIsExplained`, from sums that are functions of the number
of tiers and of GB instead of folds, on an assumption about what AWS publishes.
