---------------------------- MODULE TarIndexCache ----------------------------
(***************************************************************************)
(* The indexes of tar objects (api/lib/tar-index-cache.ts).  open() sends a *)
(* HEAD, or shares one, or relies on one of less than HEAD_TTL_MS ago, and  *)
(* leases the index of that version of the object; the caller releases it   *)
(* in a finally.  An index is a sqlite file: it is closed when it is idle,  *)
(* replaced or over the limits, but never under a lease.                    *)
(*                                                                          *)
(* A version stands for what the signature is made of.  Without an ETag two *)
(* versions may have the same signature, here they all have.  Bytes are a   *)
(* set of big indexes; the order of the map, oldest use first, is left out: *)
(* prune may take any unleased index.                                       *)
(***************************************************************************)
EXTENDS Naturals, FiniteSets

CONSTANTS
    Objects,       \* the tar objects; a key is client, bucket and key
    Openers,       \* callers of open()
    Heads, HeadOf, \* the HEADs of SharedRequests and the objects they are for
    NoHead, MaxHeads,
    Indexes,       \* CachedIndex objects, used again once they are closed
    NoIndex,
    Closed,        \* what is left of an index after index.close()
    MaxArchives,   \* MAX_CACHED_ARCHIVES
    MaxBig,        \* MAX_CACHE_DISK_BYTES
    Changing,      \* bounds of the model: the objects that change,
    MaxVersion     \* and the versions they have

ASSUME TarIndexAssumption ==
    /\ NoIndex \notin Indexes /\ NoHead \notin Heads
    /\ IsFiniteSet(Indexes) /\ IsFiniteSet(Openers)
    /\ MaxArchives <= Cardinality(Indexes)
    /\ Changing \subseteq Objects /\ HeadOf \in [Heads -> Objects]
    /\ MaxArchives \in Nat /\ MaxBig \in Nat /\ MaxVersion \in Nat \ {0}

VARIABLES
    version,       \* of each object in the storage
    etags,         \* the storage gives ETags
    since,         \* the time since an object changed, as far as it matters
    head,          \* what an answered HEAD says: a version, or 0 (an error)
    at,            \* archives: the index of a key
    index,         \* the CachedIndex objects; those in liveIndexes are not Closed
    lease,         \* what a caller holds and has not released
    pendingHeads, headState, headSubs, headAborted

Shared == INSTANCE SharedRequests
              WITH SharedKeys <- Objects, Callers <- Openers, Requests <- Heads, KeyOf <- HeadOf,
                   NoRequest <- NoHead, MaxPending <- MaxHeads,
                   pending <- pendingHeads, state <- headState,
                   subs <- headSubs, cancelled <- headAborted

headVars == <<pendingHeads, headState, headSubs, headAborted>>

storageVars == <<version, etags, since>>
cacheVars == <<at, index, lease>>
tarVars == <<headVars, storageVars, head, cacheVars>>

HeadTTL == 2      \* HEAD_TTL_MS, in ticks

\* key and ver: what the index was made for.  from: the request whose answer is
\* cached.head.  age: of that HEAD.  idle: unused for INDEX_IDLE_TTL_MS.  big:
\* a scan has filled the file.
CachedIndex == [key : Objects, ver : 1 .. MaxVersion, from : Heads \cup {NoHead},
                age : 0 .. HeadTTL, idle : BOOLEAN, big : BOOLEAN, leases : Nat]

ASSUME ClosedAssumption == Closed \notin CachedIndex

TarInit ==
    /\ Shared!SharedInit
    /\ version = [k \in Objects |-> 1]
    /\ etags \in BOOLEAN
    /\ since = [k \in Objects |-> HeadTTL]
    /\ head = [r \in Heads |-> 0]
    /\ at = [k \in Objects |-> NoIndex]
    /\ index = [i \in Indexes |-> Closed]
    /\ lease = [c \in Openers |-> NoIndex]

-----------------------------------------------------------------------------
(* prune and retire, for a map and indexes that open() or release() has     *)
(* changed already.                                                         *)

LiveIndexes(x) == {i \in Indexes : x[i] # Closed}
Cached(map) == {map[k] : k \in Objects} \ {NoIndex}
Unleased(map, x) == {i \in Cached(map) : x[i].leases = 0}

Without(map, gone) == [k \in Objects |-> IF map[k] \in gone THEN NoIndex ELSE map[k]]
Closing(x, gone) == [i \in Indexes |-> IF i \in gone THEN Closed ELSE x[i]]

Fits(x, open, reserve) ==
    /\ Cardinality(open) + reserve <= MaxArchives
    /\ Cardinality({i \in open : x[i].big}) <= MaxBig

\* What prune() can close: the idle ones, and others one by one for as long as
\* the limits are exceeded.
Pruned(map, x, reserve) ==
    LET old == {i \in Unleased(map, x) : x[i].idle}
    IN {gone \in SUBSET Unleased(map, x) :
          /\ old \subseteq gone
          /\ gone = old \/ \E i \in gone \ old : ~Fits(x, LiveIndexes(x) \ (gone \ {i}), reserve)
          /\ gone = Unleased(map, x) \/ Fits(x, LiveIndexes(x) \ gone, reserve)}

\* retire(i)
Retired(i, x) == IF x[i].leases > 0 THEN x ELSE [x EXCEPT ![i] = Closed]

-----------------------------------------------------------------------------
(* open().                                                                  *)

Touched(i, x) == [x EXCEPT ![i].idle = FALSE, ![i].leases = @ + 1]

\* A young HEAD with an ETag is relied on.
Young(i, x) == i # NoIndex /\ etags /\ x[i].age < HeadTTL

\* The request object r is another one now.
Renewed(r, x) ==
    [i \in Indexes |-> IF x[i] # Closed /\ x[i].from = r THEN [x[i] EXCEPT !.from = NoHead]
                       ELSE x[i]]

HeadsAreFull(k) ==
    /\ pendingHeads[k] = NoHead
    /\ Cardinality({q \in Objects : pendingHeads[q] # NoHead}) >= MaxHeads

\* open() up to its await.  It prunes, and then the cached HEAD will do, or one is
\* waited for, or run() throws.
OpenTar(c, k) ==
    /\ lease[c] = NoIndex /\ ~Shared!Asking(c)
    /\ \E gone \in Pruned(at, index, 0) :
          LET kept == Closing(index, gone)
              i == Without(at, gone)[k]
          IN /\ at' = Without(at, gone)
             /\ \/ /\ Young(i, kept)
                   /\ index' = Touched(i, kept)
                   /\ lease' = [lease EXCEPT ![c] = i]
                   /\ UNCHANGED headVars
                \/ /\ ~Young(i, kept)
                   /\ \/ Shared!Join(c, k) /\ index' = kept
                      \/ \E r \in Heads : Shared!Create(c, k, r) /\ index' = Renewed(r, kept)
                      \/ HeadsAreFull(k) /\ index' = kept /\ UNCHANGED headVars
                   /\ UNCHANGED lease
    /\ UNCHANGED <<storageVars, head>>

\* mutant: the identity of the HEAD is not looked at
Matches_BySignature(i, r) == i # NoIndex /\ (etags => index[i].ver = head[r])

\* The signature is the same, and without an ETag it is this very HEAD.
Matches(i, r) ==
    /\ i # NoIndex
    /\ IF etags THEN index[i].ver = head[r] ELSE index[i].from = r

\* The identity of a HEAD that gives an ETag is never looked at.
Source(r) == IF etags THEN NoHead ELSE r

New(k, r) == [key |-> k, ver |-> head[r], from |-> Source(r),
              age |-> 0, idle |-> FALSE, big |-> FALSE, leases |-> 1]

\* mutant: an old index that is still leased is not counted
Replace_CountMap(c, k, r) ==
    LET rest == Without(at, {at[k]})
        x == IF at[k] = NoIndex THEN index ELSE Retired(at[k], index)
        i == CHOOSE i \in Indexes : x[i] = Closed
    IN /\ Cardinality(Cached(rest)) < MaxArchives
       /\ at' = [rest EXCEPT ![k] = i]
       /\ index' = [x EXCEPT ![i] = New(k, r)]
       /\ lease' = [lease EXCEPT ![c] = i]

\* Nothing that fits is cached: the old index is retired, and there is room for
\* a new one, or there is none (or its file cannot be made) and open() throws.
Replace(c, k, r) ==
    LET rest == Without(at, {at[k]})
        x == IF at[k] = NoIndex THEN index ELSE Retired(at[k], index)
    IN \E gone \in Pruned(rest, x, 1) :
          LET kept == Closing(x, gone)
          IN \/ /\ Cardinality(LiveIndexes(kept)) < MaxArchives
                /\ LET i == CHOOSE i \in Indexes : kept[i] = Closed
                   IN /\ at' = [Without(rest, gone) EXCEPT ![k] = i]
                      /\ index' = [kept EXCEPT ![i] = New(k, r)]
                      /\ lease' = [lease EXCEPT ![c] = i]
             \/ at' = Without(rest, gone) /\ index' = kept /\ UNCHANGED lease

\* Nobody is left to use the answer.
Forgotten(r, callers) == IF callers = {} THEN [head EXCEPT ![r] = 0] ELSE head

\* open() after its await, which reads archives again.  A HEAD that is not the
\* cached one sets checkedAt.
Resume(c, r) ==
    /\ Shared!Deliver(c, r)
    /\ LET k == HeadOf[r] IN
       \/ head[r] = 0 /\ UNCHANGED cacheVars
       \/ /\ head[r] # 0 /\ Matches(at[k], r)
          /\ index' = [Touched(at[k], index) EXCEPT ![at[k]].from = Source(r), ![at[k]].age = 0]
          /\ lease' = [lease EXCEPT ![c] = at[k]]
          /\ UNCHANGED at
       \/ head[r] # 0 /\ ~Matches(at[k], r) /\ Replace(c, k, r)
    /\ head' = Forgotten(r, headSubs[r] \ {c})
    /\ UNCHANGED storageVars

\* The signal is headAborted while open() waits for the HEAD.
LeaveHead(c) ==
    /\ \E r \in Heads : Shared!Abort(c, r) /\ head' = Forgotten(r, headSubs[r] \ {c})
    /\ UNCHANGED <<headState, storageVars, cacheVars>>

\* release(), which does nothing the second time.
ReleaseLease(c) ==
    LET i == lease[c]
        less == [index EXCEPT ![i].leases = @ - 1]
        x == IF at[index[i].key] # i THEN Retired(i, less) ELSE less
    IN /\ i # NoIndex
       /\ lease' = [lease EXCEPT ![c] = NoIndex]
       /\ \E gone \in Pruned(at, x, 0) : at' = Without(at, gone) /\ index' = Closing(x, gone)
       /\ UNCHANGED <<headVars, storageVars, head>>

\* close(), when the worker shuts down; an index may still be leased.
CloseCache ==
    /\ at' = [k \in Objects |-> NoIndex]
    /\ index' = Closing(index, Unleased(at, index))
    /\ UNCHANGED <<headVars, storageVars, head, lease>>

-----------------------------------------------------------------------------
(* The storage and the clock.  The callbacks of an answer run before the    *)
(* next event is taken.                                                     *)

CallbacksDone == \A r \in Heads : headState[r] = "loading" \/ (headState[r] = "done" /\ headSubs[r] = {})

Changes(k) ==
    /\ k \in Changing /\ version[k] < MaxVersion
    /\ version' = [version EXCEPT ![k] = @ + 1]
    /\ since' = [since EXCEPT ![k] = 0]
    /\ UNCHANGED <<headVars, etags, head, cacheVars>>

\* The HEAD is answered, or fails.
HeadEnds(r) ==
    /\ CallbacksDone
    /\ headState[r] = "loading"
    /\ headState' = [headState EXCEPT ![r] = "settled"]
    /\ head' \in {[head EXCEPT ![r] = v] : v \in {0, version[HeadOf[r]]}}
    /\ UNCHANGED <<pendingHeads, headSubs, headAborted, storageVars, cacheVars>>

HeadOver(r) ==
    /\ Shared!Finally(r)
    /\ head' = Forgotten(r, headSubs[r])
    /\ UNCHANGED <<storageVars, cacheVars>>

Older(n) == IF n < HeadTTL THEN n + 1 ELSE n

Ticks ==
    /\ CallbacksDone
    /\ since' = [k \in Objects |-> Older(since[k])]
    /\ index' = [i \in Indexes |->
                   IF index[i] = Closed THEN Closed ELSE [index[i] EXCEPT !.age = Older(@)]]
    /\ UNCHANGED <<headVars, version, etags, head, at, lease>>

GoesIdle(i) ==
    /\ index[i] # Closed /\ index[i].age = HeadTTL /\ ~index[i].idle
    /\ index' = [index EXCEPT ![i].idle = TRUE]
    /\ UNCHANGED <<headVars, storageVars, head, at, lease>>

\* The scan of a caller that holds the index appends to its file.
Grows(c) ==
    /\ lease[c] # NoIndex
    /\ index' = [index EXCEPT ![lease[c]].big = TRUE]
    /\ UNCHANGED <<headVars, storageVars, head, at, lease>>

-----------------------------------------------------------------------------
TarNext ==
    \/ \E c \in Openers :
          \/ \E k \in Objects : OpenTar(c, k)
          \/ \E r \in Heads : Resume(c, r)
          \/ LeaveHead(c) \/ ReleaseLease(c) \/ Grows(c)
    \/ \E r \in Heads : HeadEnds(r) \/ HeadOver(r)
    \/ \E k \in Objects : Changes(k)
    \/ \E i \in Indexes : GoesIdle(i)
    \/ Ticks \/ CloseCache

TarSpec == TarInit /\ [][TarNext]_tarVars

-----------------------------------------------------------------------------
(* Properties.                                                              *)

TarTypeOK ==
    /\ Shared!SharedOK
    /\ version \in [Objects -> 1 .. MaxVersion]
    /\ etags \in BOOLEAN
    /\ since \in [Objects -> 0 .. HeadTTL]
    /\ head \in [Heads -> 0 .. MaxVersion]
    /\ at \in [Objects -> Indexes \cup {NoIndex}]
    /\ index \in [Indexes -> CachedIndex \cup {Closed}]
    /\ lease \in [Openers -> Indexes \cup {NoIndex}]

\* The open files are those the cache finds under a key and those a caller still
\* reads, neither fewer nor more: no lease is closed early by prune, a new version
\* of the object or close(), and no file is left that nobody will ever close.
OpenWhileUsed ==
    LiveIndexes(index) = (Cached(at) \cup {lease[c] : c \in Openers}) \ {NoIndex}

\* No more files are open than MAX_CACHED_ARCHIVES, those of old versions that are
\* still leased included, and they take more than MAX_CACHE_DISK_BYTES only while
\* one of them is leased.
LimitsHold ==
    /\ Cardinality(LiveIndexes(index)) <= MaxArchives
    /\ \/ Cardinality({i \in LiveIndexes(index) : index[i].big}) <= MaxBig
       \/ \E c \in Openers : lease[c] # NoIndex

\* Evicted or replaced by age, count, size or a new version, an index keeps its file
\* exactly as long as somebody reads it, and the files never exceed the limits.
IndexFilesAreHeld == OpenWhileUsed /\ LimitsHold

\* A caller who waited for a HEAD gets an index of the version that HEAD saw,
\* also when the storage gives no ETag and the signature tells nothing.
IndexIsOfTheHead ==
    [][\A c \in Openers, r \in Heads :
          c \in headSubs[r] /\ lease'[c] # lease[c] => index'[lease'[c]].ver = head[r]]_tarVars

\* Whoever opens an object later than HEAD_TTL_MS after its last change gets the
\* index of what it is now: hits do not keep an old one alive.  (The delay of a
\* HEAD's answer, which comes on top, is left out.)
ChangesAreSeen ==
    [][\A c \in Openers :
          LET i == lease'[c]
          IN i # lease[c] /\ i # NoIndex =>
             \/ index'[i].ver = version[index'[i].key]
             \/ since[index'[i].key] < HeadTTL]_tarVars

\* The index somebody is given is never older than what he waited for, nor than
\* the longest time the code lets a HEAD be trusted.
IndexIsCurrent == IndexIsOfTheHead /\ ChangesAreSeen
=============================================================================
