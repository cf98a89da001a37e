---------------------------- MODULE TarRangeIndex ----------------------------
(***************************************************************************)
(* The index of one version of a tar object (api/lib/tar-range.ts over      *)
(* api/lib/tar-index-store.ts): the headers are read one after the other    *)
(* with ranged GETs and appended to a sqlite table.  list() and find() only *)
(* scan as far as they need, one at a time, and stop when their budget is   *)
(* used up; the next one goes on from there.                                *)
(*                                                                          *)
(* An archive is a sequence of headers: "x" and "g" carry the `path` of a   *)
(* local and a global PAX header, "L" a GNU long name, "K" nothing that is  *)
(* used, and the others are entries.  A read has the bytes, from the chunk  *)
(* or from the storage, or it fails: an error, the signal or the timeout.   *)
(***************************************************************************)
EXTENDS Naturals, Sequences, FiniteSets, FiniteSetsExt

CONSTANTS
    Archives,      \* archives to choose from: Seq([type, name])
    Readers,       \* callers of list() and find()
    Hidden,        \* names isMacOsMetadata() recognises
    Operations,    \* [kind |-> "list", from, to] and [kind |-> "find", name]
    MaxHeaders,    \* MAX_HEADERS_PER_OPERATION
    MaxInLine,     \* waiters of the semaphore
    None

\* A name is not None, and a page is cut by numbers.
ASSUME RangeAssumption ==
    /\ \A a \in Archives : a \in Seq({a[i] : i \in DOMAIN a}) /\ \A i \in DOMAIN a : a[i].name # None
    /\ \A o \in Operations : o.kind = "list" => o.from \in Nat /\ o.to \in Nat

VARIABLES
    archive,
    position,      \* of the next header
    exhausted,
    pax,           \* globalPax.path, localPax.path and longName, None if absent
    entries,       \* the rows of the table
    failure,       \* store.failure
    used,          \* budget.headers of the operation that runs
    rpc, op,       \* where a reader is, and in which operation
    sent,          \* what it was told by onEntry
    answer,        \* what its last operation returned, None if it threw
    running, line  \* the semaphore

Serial == INSTANCE Semaphore
              WITH active <- running, waiters <- line, Limit <- 1, MaxWaiters <- MaxInLine

scanVars == <<position, exhausted, pax, entries, failure>>
serialVars == <<running, line>>
readerVars == <<rpc, op, sent, answer>>
rangeVars == <<archive, scanVars, used, readerVars, serialVars>>

NoNames == [global |-> None, local |-> None, long |-> None]

RangeInit ==
    /\ Serial!SemaphoreInit
    /\ archive \in Archives
    /\ position = 1 /\ exhausted = FALSE /\ pax = NoNames
    /\ entries = <<>> /\ failure = FALSE /\ used = 0
    /\ rpc = [c \in Readers |-> "out"]
    /\ op = [c \in Readers |-> None]
    /\ sent = [c \in Readers |-> <<>>]
    /\ answer = [c \in Readers |-> None]

-----------------------------------------------------------------------------
(* The table.                                                               *)

\* WHERE ordinal >= from AND ordinal < to
PageOf(rows, o) == SubSeq(rows, o.from + 1, Min({o.to, Len(rows)}))

Named(name) == {i \in DOMAIN entries : entries[i].name = name}

\* SELECT ... ORDER BY ordinal LIMIT 1
Found(name) == IF Named(name) = {} THEN None ELSE entries[Min(Named(name))]

\* `hasMore` looks one entry further than the page.
Enough(o) ==
    \/ exhausted
    \/ IF o.kind = "list" THEN Len(entries) > o.to ELSE Named(o.name) # {}

Result(o) == IF o.kind = "list"
             THEN [page |-> PageOf(entries, o), hasMore |-> Len(entries) > o.to]
             ELSE [entry |-> Found(o.name)]

-----------------------------------------------------------------------------
(* serialize().                                                             *)

Starts(c, o) ==
    /\ op' = [op EXCEPT ![c] = o]
    /\ sent' = [sent EXCEPT ![c] = <<>>]
    /\ answer' = [answer EXCEPT ![c] = None]

\* A find that the table answers, or that finds the store failed.
FindAtOnce(c, o) ==
    /\ rpc[c] = "out" /\ o.kind = "find"
    /\ Enough(o) \/ failure
    /\ answer' = [answer EXCEPT ![c] = IF failure THEN None ELSE Result(o)]
    /\ op' = [op EXCEPT ![c] = o]
    /\ sent' = [sent EXCEPT ![c] = <<>>]
    /\ UNCHANGED <<archive, scanVars, used, rpc, serialVars>>

AskIndex(c, o) ==
    /\ rpc[c] = "out"
    /\ o.kind = "find" => ~Enough(o) /\ ~failure
    /\ Starts(c, o)
    /\ \/ Serial!TakeSlot /\ rpc' = [rpc EXCEPT ![c] = "granted"]
       \/ Serial!Queue(c) /\ rpc' = [rpc EXCEPT ![c] = "queued"]
       \/ Serial!QueueFull /\ UNCHANGED <<rpc, serialVars>>
    /\ UNCHANGED <<archive, scanVars, used>>

LeavesIndexQueue(c) ==
    /\ rpc[c] = "queued"
    /\ Serial!LeaveQueue(c)
    /\ rpc' = [rpc EXCEPT ![c] = "out"]
    /\ UNCHANGED <<archive, scanVars, used, op, sent, answer>>

\* release(): the slot goes to the first waiter.
Out(c) ==
    /\ Serial!ReleaseSlot
    /\ rpc' = [d \in Readers |-> IF d = c THEN "out"
                                 ELSE IF line # <<>> /\ d = Head(line) THEN "granted"
                                 ELSE rpc[d]]

\* mutant: the COMMIT that fails is not remembered
Returns_Forget(c, result) ==
    /\ Out(c)
    /\ \/ answer' = [answer EXCEPT ![c] = result] /\ UNCHANGED <<entries, failure>>
       \/ /\ \E n \in 0 .. Len(entries) : entries' = SubSeq(entries, 1, n)
          /\ UNCHANGED <<answer, failure>>

\* finally { commit() } finally { release() }; a COMMIT that fails fails the
\* store, and what the table holds then is not known.
Returns(c, result) ==
    /\ Out(c)
    /\ \/ answer' = [answer EXCEPT ![c] = result] /\ UNCHANGED <<entries, failure>>
       \/ /\ ~failure /\ failure' = TRUE
          /\ \E n \in 0 .. Len(entries) : entries' = SubSeq(entries, 1, n)
          /\ UNCHANGED answer

\* emitAvailable()
Emits(c, rows) ==
    sent' = IF op[c].kind = "list"
            THEN [sent EXCEPT ![c] = PageOf(rows, op[c])]
            ELSE sent

\* A new budget; begin() throws if the store has failed.
Begins(c) ==
    /\ rpc[c] = "granted"
    /\ used' = 0
    /\ IF failure
       THEN Out(c) /\ UNCHANGED sent
       ELSE /\ rpc' = [rpc EXCEPT ![c] = "loop"]
            /\ Emits(c, entries)
            /\ UNCHANGED serialVars
    /\ UNCHANGED <<archive, scanVars, op, answer>>

-----------------------------------------------------------------------------
(* The loop of list() and find().                                           *)

ReturnsResult(c) ==
    /\ rpc[c] = "loop" /\ Enough(op[c])
    /\ Returns(c, Result(op[c]))
    /\ UNCHANGED <<archive, position, exhausted, pax, used, op, sent>>

\* scanNext() begins: budget.header() throws TarScanPendingError, or the header
\* is waited for.
NextHeader(c) ==
    /\ rpc[c] = "loop" /\ ~Enough(op[c])
    /\ used < MaxHeaders
    /\ used' = used + 1
    /\ rpc' = [rpc EXCEPT ![c] = "header"]
    /\ UNCHANGED <<archive, scanVars, op, sent, answer, serialVars>>

\* The budget is used up, or the bytes do not come, or they are no tar.
Throws(c) ==
    /\ rpc[c] \in {"loop", "header", "metadata"}
    /\ rpc[c] = "loop" => ~Enough(op[c])
    /\ Returns(c, None)
    /\ UNCHANGED <<archive, position, exhausted, pax, used, op, sent>>

Loops(c) == rpc' = [rpc EXCEPT ![c] = "loop"]

EndOfArchive(c) ==
    /\ rpc[c] = "header" /\ position > Len(archive)
    /\ exhausted' = TRUE
    /\ Loops(c)
    /\ UNCHANGED <<archive, position, pax, entries, failure, used, op, sent, answer, serialVars>>

MetadataHeader(c) ==
    /\ rpc[c] = "header" /\ position <= Len(archive)
    /\ archive[position].type \in {"x", "g", "L"}
    /\ rpc' = [rpc EXCEPT ![c] = "metadata"]
    /\ UNCHANGED <<archive, scanVars, used, op, sent, answer, serialVars>>

SkipsLinkName(c) ==
    /\ rpc[c] = "header" /\ position <= Len(archive)
    /\ archive[position].type = "K"
    /\ position' = position + 1
    /\ Loops(c)
    /\ UNCHANGED <<archive, exhausted, pax, entries, failure, used, op, sent, answer, serialVars>>

\* readMetadata()
Metadata(c) ==
    /\ rpc[c] = "metadata"
    /\ LET h == archive[position]
       IN pax' = CASE h.type = "x" -> [pax EXCEPT !.local = h.name]
                   [] h.type = "g" -> [pax EXCEPT !.global = h.name]
                   [] h.type = "L" -> [pax EXCEPT !.long = h.name]
    /\ position' = position + 1
    /\ Loops(c)
    /\ UNCHANGED <<archive, exhausted, entries, failure, used, op, sent, answer, serialVars>>

\* { ...globalPax, ...localPax }.path ?? longName ?? parsed.name
EntryName ==
    CASE pax.local # None -> pax.local
      [] pax.local = None /\ pax.global # None -> pax.global
      [] pax.local = None /\ pax.global = None /\ pax.long # None -> pax.long
      [] OTHER -> archive[position].name

IsEntry == position <= Len(archive) /\ archive[position].type \notin {"x", "g", "L", "K"}

Entry(c) ==
    /\ rpc[c] = "header" /\ IsEntry
    /\ entries' = IF EntryName \in Hidden THEN entries
                  ELSE Append(entries, [name |-> EntryName, at |-> position])
    /\ position' = position + 1
    /\ pax' = [NoNames EXCEPT !.global = pax.global]
    /\ Emits(c, entries')
    /\ Loops(c)
    /\ UNCHANGED <<archive, exhausted, failure, used, op, answer, serialVars>>

\* The INSERT fails: a full disk may have rolled back rows of this operation.
InsertFails(c) ==
    /\ rpc[c] = "header" /\ IsEntry /\ EntryName \notin Hidden
    /\ failure' = TRUE
    /\ \E n \in 0 .. Len(entries) : entries' = SubSeq(entries, 1, n)
    /\ Out(c)
    /\ UNCHANGED <<archive, position, exhausted, pax, used, op, sent, answer>>

-----------------------------------------------------------------------------
Reads(c) ==
    \/ Begins(c) \/ ReturnsResult(c) \/ NextHeader(c) \/ Throws(c) \/ EndOfArchive(c)
    \/ MetadataHeader(c) \/ SkipsLinkName(c) \/ Metadata(c) \/ Entry(c) \/ InsertFails(c)

RangeNext ==
    \E c \in Readers :
       \/ \E o \in Operations : FindAtOnce(c, o) \/ AskIndex(c, o)
       \/ LeavesIndexQueue(c) \/ Reads(c)

RangeSpec == RangeInit /\ [][RangeNext]_rangeVars

-----------------------------------------------------------------------------
(* What an archive a holds, whatever the operations.                        *)

IsFile(a, p) == a[p].type \notin {"x", "g", "L", "K"}

\* The name a header of this type gives to the entry at p, if there is one: a
\* global one is valid from there on, the others for the next entry only.
NameFrom(a, type, p) ==
    LET given == {j \in 1 .. p - 1 :
                    /\ a[j].type = type
                    /\ type = "g" \/ \A i \in j .. p - 1 : ~IsFile(a, i)}
    IN IF given = {} THEN None ELSE a[Max(given)].name

TrueName(a, p) ==
    LET names == <<NameFrom(a, "x", p), NameFrom(a, "g", p), NameFrom(a, "L", p), a[p].name>>
    IN names[Min({i \in 1 .. 4 : names[i] # None})]

Shown(a) == {p \in DOMAIN a : IsFile(a, p) /\ TrueName(a, p) \notin Hidden}

\* The entry that has k - 1 before it is the k-th.
Contents(a) ==
    [k \in 1 .. Cardinality(Shown(a)) |->
        LET p == CHOOSE p \in Shown(a) : Cardinality({q \in Shown(a) : q < p}) = k - 1
        IN [name |-> TrueName(a, p), at |-> p]]

-----------------------------------------------------------------------------
(* Properties.                                                              *)

\* An operation that returns, returns what the whole archive says: the page, once
\* more what it streamed, and whether there is more, or the first entry of that name,
\* or that there is none; never what a stopped or failed scan left in the table.
AnswersAreRight ==
    \A c \in Readers : answer[c] # None =>
       LET o == op[c]
           rows == Contents(archive)
           named == {i \in DOMAIN rows : rows[i].name = o.name}
       IN IF o.kind = "list"
          THEN /\ answer[c] = [page |-> PageOf(rows, o), hasMore |-> Len(rows) > o.to]
               /\ sent[c] = answer[c].page
          ELSE answer[c] = [entry |-> IF named = {} THEN None ELSE rows[Min(named)]]
=============================================================================
