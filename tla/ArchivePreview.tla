---------------------------- MODULE ArchivePreview ----------------------------
(* The preview of an archive: the entries the api streams (routes/storage-preview.ts   *)
(* over lib/tar-stream.ts), how the browser reads and keeps them                       *)
(* (lib/api/tar-preview-stream.ts, preview-client.ts), the page that shows them        *)
(* (components/PreviewArchive.tsx) and the text of the entry opened there              *)
(* (TarEntryModal.tsx, lib/useSniffedText.ts, routes/storage-tar-entry.ts).            *)
(*                                                                                     *)
(* The object is replaced by others to come.  Of a compressed archive a request reads  *)
(* the whole body; the index of an uncompressed one is TarRangeIndex, of which a       *)
(* request may come to the end of its budget.  A line that is written is read.         *)
EXTENDS Naturals, Sequences, FiniteSets

CONSTANTS
    Archive,      \* the versions of the object: a sequence of sequences of entries
    Members,
    NameOf,       \* Members -> names
    SizeOf,       \* Members -> Nat
    Hidden,       \* entries isMacOsMetadata() recognises
    Reach,        \* how many headers of a version come before the limit of bytes
    PageSizes,    \* the first is the one a page begins with
    MaxOffset,
    Fetches, Heads,
    HeadLimit,    \* maxBytes of the head of an entry
    NoOne

Versions == DOMAIN Archive
Names == {NameOf[e] : e \in Members}

ASSUME ArchiveAssumption ==
    /\ Archive \in Seq(Seq(Members)) /\ Archive # <<>>
    /\ Hidden \subseteq Members
    /\ NameOf \in [Members -> Names] /\ SizeOf \in [Members -> Nat]
    /\ Reach \in [Versions -> Nat]
    /\ PageSizes \in Seq(Nat \ {0}) /\ PageSizes # <<>>
    /\ MaxOffset \in Nat /\ HeadLimit \in Nat \ {0}
    /\ NoOne \notin Fetches /\ NoOne \notin Names

VARIABLES
    version,      \* of the object
    compressed,
    fetched,      \* Fetches -> a request for a page, at the api and in the browser
    kept,         \* tarCache: offset and size -> [answer, load]
    listing,      \* the page: [shown, offset, size, data, by, loading, error]
    awaiting,     \* the fetches whose answers it takes: [fetch, by]
    opened,       \* the entry of the dialog
    heads,        \* Heads -> a request for the head of an entry
    text          \* what useSniffedText has: [name, entry, got, truncated]

listVars == <<fetched, kept, listing, awaiting>>
dialogVars == <<opened, heads, text>>
archiveVars == <<version, compressed, listVars, dialogVars>>

Places == (0..MaxOffset) \X {PageSizes[i] : i \in DOMAIN PageSizes}

NoData == [ver |-> 0]
NothingKept == [answer |-> NoData, load |-> NoOne]
NoFetch == [pc |-> "over", at |-> <<0, 0>>, ver |-> 0, read |-> 0, skipped |-> 0, out |-> <<>>,
            emitted |-> <<>>, source |-> "none", left |-> FALSE, answer |-> NoData]
NoHead == [pc |-> "none", name |-> NoOne, ver |-> 0, at |-> 0, got |-> 0, found |-> FALSE,
           truncated |-> FALSE, source |-> "none", settled |-> FALSE, current |-> FALSE]
NoText == [name |-> NoOne]
Closed == [shown |-> FALSE, offset |-> 0, size |-> PageSizes[1], data |-> NoData,
           by |-> "effect", loading |-> FALSE, error |-> FALSE]

ArchiveInit ==
    /\ version = 1 /\ compressed \in BOOLEAN
    /\ fetched = [f \in Fetches |-> NoFetch]
    /\ kept = [place \in Places |-> NothingKept]
    /\ listing = Closed /\ awaiting = {}
    /\ opened = NoOne /\ heads = [h \in Heads |-> NoHead] /\ text = NoText

\* An upload, from outside or by a scan of the producer.
ObjectReplaced ==
    /\ version < Len(Archive)
    /\ version' = version + 1
    /\ UNCHANGED <<compressed, listVars, dialogVars>>

-----------------------------------------------------------------------------
(* GET /preview/tar: start() and cancel() of the stream, and listTarEntries.     *)

AtApi(f) == fetched[f].pc \in {"asked", "listing"}
IsSpare(f) == fetched[f].pc = "over"

Becomes(f, r) == fetched' = [fetched EXCEPT ![f] = r]

\* What is left of a request nobody waits for.
Over(r) == [NoFetch EXCEPT !.source = r.source]

Destroyed(r) == [r EXCEPT !.source = IF @ = "open" THEN "closed" ELSE @]

\* cancel(): the body may not have been assigned yet.
Cancelled(r) == [Destroyed(r) EXCEPT !.left = TRUE]

\* mutant: nobody asks whether the browser is still there
Opens_Blind(f) ==
    LET r == fetched[f]
        body == IF compressed THEN [r EXCEPT !.source = "open"] ELSE r IN
    /\ r.pc = "asked"
    /\ Becomes(f, [body EXCEPT !.pc = "listing", !.ver = version])

\* storage.send, or tarIndexes.open, comes back.
Opens(f) ==
    LET r == fetched[f]
        body == IF compressed THEN [r EXCEPT !.source = "open"] ELSE r IN
    /\ r.pc = "asked"
    /\ Becomes(f, IF r.left THEN Over(Destroyed(body))
                  ELSE [body EXCEPT !.pc = "listing", !.ver = version])

IsNotThere(f) ==
    /\ fetched[f].pc = "asked"
    /\ Becomes(f, IF fetched[f].left THEN Over(fetched[f]) ELSE [fetched[f] EXCEPT !.pc = "failed"])

\* The browser has what is announced by `done`, unless what it showed on the way was
\* more than that.
Finished(r, hasMore, truncated) ==
    IF Len(r.out) # Len(r.emitted)
    THEN [Destroyed(r) EXCEPT !.pc = "failed"]
    ELSE [Destroyed(r) EXCEPT !.pc = "done",
              !.answer = [ver |-> r.ver, at |-> r.at, entries |-> r.out,
                          hasMore |-> hasMore, truncated |-> truncated]]

\* onEntry of loadTarPreviewStream: an entry an earlier attempt has shown has to be
\* the same again.
Emit(r, e) ==
    LET n == Len(r.out) + 1
        listed == [r EXCEPT !.read = @ + 1, !.out = Append(@, e)] IN
    IF n > Len(r.emitted) THEN [listed EXCEPT !.emitted = Append(@, e)]
    ELSE IF r.emitted[n] = e THEN listed
    ELSE [Cancelled(r) EXCEPT !.pc = "failed"]

IsListing(f) == fetched[f].pc = "listing" /\ ~fetched[f].left

\* mutant: the offset counts entries that are hidden
ReadsEntry_HiddenCount(f) ==
    LET r == fetched[f]
        e == Archive[r.ver][r.read + 1] IN
    /\ IsListing(f) /\ r.read < Len(Archive[r.ver])
    /\ compressed => r.read < Reach[r.ver]
    /\ \/ /\ r.skipped < r.at[1]
          /\ Becomes(f, [r EXCEPT !.read = @ + 1, !.skipped = @ + 1])
       \/ /\ e \in Hidden /\ r.skipped = r.at[1]
          /\ Becomes(f, [r EXCEPT !.read = @ + 1])
       \/ /\ e \notin Hidden /\ r.skipped = r.at[1] /\ Len(r.out) >= r.at[2]
          /\ Becomes(f, Finished(r, TRUE, FALSE))
       \/ /\ e \notin Hidden /\ r.skipped = r.at[1] /\ Len(r.out) < r.at[2]
          /\ Becomes(f, Emit(r, e))

\* ext.on('entry'): hidden, before the page, behind it, or of it.
ReadsEntry(f) ==
    LET r == fetched[f]
        e == Archive[r.ver][r.read + 1] IN
    /\ IsListing(f) /\ r.read < Len(Archive[r.ver])
    /\ compressed => r.read < Reach[r.ver]
    /\ \/ /\ e \in Hidden
          /\ Becomes(f, [r EXCEPT !.read = @ + 1])
       \/ /\ e \notin Hidden /\ r.skipped < r.at[1]
          /\ Becomes(f, [r EXCEPT !.read = @ + 1, !.skipped = @ + 1])
       \/ /\ e \notin Hidden /\ r.skipped = r.at[1] /\ Len(r.out) >= r.at[2]
          /\ Becomes(f, Finished(r, TRUE, FALSE))
       \/ /\ e \notin Hidden /\ r.skipped = r.at[1] /\ Len(r.out) < r.at[2]
          /\ Becomes(f, Emit(r, e))

EndOfArchive(f) ==
    LET r == fetched[f] IN
    /\ IsListing(f) /\ r.read = Len(Archive[r.ver])
    /\ compressed => r.read < Reach[r.ver]
    /\ Becomes(f, Finished(r, FALSE, FALSE))

\* The counter stands before the parser, which loses what it has not come to.
BytesRunOut(f) ==
    LET r == fetched[f] IN
    /\ compressed /\ IsListing(f) /\ Reach[r.ver] <= Len(Archive[r.ver])
    /\ Becomes(f, Finished(r, FALSE, TRUE))

Breaks(f) == IsListing(f) /\ Becomes(f, [Destroyed(fetched[f]) EXCEPT !.pc = "failed"])

\* The body was destroyed or the signal aborted: nothing more is written.
Abandoned(f) ==
    /\ fetched[f].pc = "listing" /\ fetched[f].left
    /\ Becomes(f, Over(fetched[f]))

\* TarScanPendingError, and the next attempt of loadTarPreviewStream or its deadline.
Pends(f) == ~compressed /\ IsListing(f) /\ Becomes(f, [fetched[f] EXCEPT !.pc = "waiting"])

Retries(f) ==
    /\ fetched[f].pc = "waiting"
    /\ \/ Becomes(f, [fetched[f] EXCEPT !.pc = "asked", !.read = 0, !.skipped = 0, !.out = <<>>])
       \/ Becomes(f, [fetched[f] EXCEPT !.pc = "failed"])

RequestStep(f) ==
    /\ \/ Opens(f) \/ IsNotThere(f) \/ ReadsEntry(f) \/ EndOfArchive(f)
       \/ BytesRunOut(f) \/ Breaks(f) \/ Abandoned(f) \/ Pends(f) \/ Retries(f)
    /\ UNCHANGED <<version, compressed, kept, listing, awaiting, dialogVars>>

-----------------------------------------------------------------------------
(* The page.                                                                     *)

Requested(f, place) == [NoFetch EXCEPT !.pc = "asked", !.at = place]

Effects == {w \in awaiting : w.by = "effect"}

Loading(l) == [l EXCEPT !.data = NoData, !.loading = TRUE, !.error = FALSE]

Showing(l, answer, by) ==
    [l EXCEPT !.data = answer, !.by = by, !.loading = FALSE]

\* The effect of a place: its clean-up cancels the load before, tarCache.get may know
\* the answer or have it under way.
LoadsRows(l) ==
    LET place == <<l.offset, l.size>>
        entry == kept[place]
        Awaits(f) == awaiting' = (awaiting \ Effects) \cup {[fetch |-> f, by |-> "effect"]} IN
    \/ /\ entry.answer # NoData
       /\ listing' = Showing([l EXCEPT !.error = FALSE], entry.answer, "effect")
       /\ awaiting' = awaiting \ Effects
       /\ UNCHANGED <<fetched, kept>>
    \/ /\ entry.answer = NoData /\ entry.load # NoOne
       /\ listing' = Loading(l)
       /\ Awaits(entry.load)
       /\ UNCHANGED <<fetched, kept>>
    \/ /\ entry = NothingKept
       /\ listing' = Loading(l)
       /\ \E f \in Fetches :
             /\ IsSpare(f) /\ Becomes(f, Requested(f, place))
             /\ kept' = [kept EXCEPT ![place].load = f]
             /\ Awaits(f)

PageElse == UNCHANGED <<version, compressed, dialogVars>>

DrawerOpens == ~listing.shown /\ LoadsRows([listing EXCEPT !.shown = TRUE]) /\ PageElse

\* The requests go on, and so does the cache.
DrawerCloses ==
    /\ listing.shown
    /\ listing' = Closed /\ awaiting' = {}
    /\ UNCHANGED <<fetched, kept>> /\ PageElse

HasData == listing.data # NoData /\ ~listing.error

PageNext ==
    /\ HasData /\ ~listing.loading
    /\ ~listing.data.truncated /\ listing.data.entries # <<>>
    /\ listing.offset + listing.size <= MaxOffset
    /\ LoadsRows([listing EXCEPT !.offset = @ + listing.size]) /\ PageElse

PagePrev ==
    /\ HasData /\ ~listing.loading /\ listing.offset > 0
    /\ LoadsRows([listing EXCEPT !.offset = IF @ < listing.size THEN 0 ELSE @ - listing.size])
    /\ PageElse

SetPageSize ==
    /\ listing.shown /\ ~listing.error /\ ~listing.loading
    /\ \E i \in DOMAIN PageSizes :
          /\ PageSizes[i] # listing.size
          /\ LoadsRows([listing EXCEPT !.size = PageSizes[i], !.offset = 0])
    /\ PageElse

\* The button works while a page is loading, and the load of the effect goes on.
ForceRefresh ==
    LET place == <<listing.offset, listing.size>> IN
    /\ listing.shown /\ ~listing.error
    /\ \E f \in Fetches :
          /\ IsSpare(f) /\ Becomes(f, Requested(f, place))
          /\ kept' = [p \in Places |-> IF p = place THEN [NothingKept EXCEPT !.load = f]
                                                    ELSE NothingKept]
          /\ awaiting' = awaiting \cup {[fetch |-> f, by |-> "refresh"]}
    /\ listing' = Loading(listing)
    /\ PageElse

\* The promise of a fetch settles: the cache, then those who wait for it.
Settles(f) ==
    LET r == fetched[f]
        waiters == {w \in awaiting : w.fetch = f}
        by == IF \E w \in waiters : w.by = "effect" THEN "effect" ELSE "refresh" IN
    /\ r.pc \in {"done", "failed"}
    /\ kept' = [kept EXCEPT ![r.at] =
                   IF @.load = f THEN [NothingKept EXCEPT !.answer = r.answer] ELSE @]
    /\ listing' = IF waiters = {} THEN listing
                  ELSE IF r.pc = "done" THEN Showing(listing, r.answer, by)
                  ELSE [listing EXCEPT !.error = TRUE, !.loading = FALSE]
    /\ awaiting' = awaiting \ waiters
    /\ Becomes(f, Over(r))
    /\ PageElse

ForgetsRows ==
    /\ \E place \in Places :
          /\ kept[place].answer # NoData
          /\ kept' = [kept EXCEPT ![place] = NothingKept]
    /\ UNCHANGED <<fetched, listing, awaiting>> /\ PageElse

\* The tab is reloaded: its requests are cancelled, those for heads only forgotten.
TabReloads ==
    /\ fetched' = [f \in Fetches |-> IF AtApi(f) THEN Cancelled(fetched[f]) ELSE Over(fetched[f])]
    /\ kept' = [place \in Places |-> NothingKept]
    /\ listing' = Closed /\ awaiting' = {}
    /\ opened' = NoOne /\ text' = NoText
    /\ heads' = [h \in Heads |-> [heads[h] EXCEPT !.current = FALSE]]
    /\ UNCHANGED <<version, compressed>>

-----------------------------------------------------------------------------
(* The dialog of an entry.  It is there while the page has data, and comes back with   *)
(* it; browser history changes its entry.                                              *)

HeadBecomes(h, r) == heads' = [heads EXCEPT ![h] = r]

\* mutant: the effect before is not cleaned up
OpenEntry_KeepsLoads(name) ==
    /\ opened # name
    /\ opened' = name
    /\ \E h \in Heads :
          /\ heads[h].pc = "none"
          /\ HeadBecomes(h, [NoHead EXCEPT !.pc = "opening", !.name = name, !.current = TRUE])
    /\ UNCHANGED text

\* The effect of a url: the load before is no longer current.
OpenEntry(name) ==
    /\ opened # name
    /\ opened' = name
    /\ \E h \in Heads :
          /\ heads[h].pc = "none"
          /\ heads' = [g \in Heads |-> IF g = h
                                       THEN [NoHead EXCEPT !.pc = "opening", !.name = name, !.current = TRUE]
                                       ELSE [heads[g] EXCEPT !.current = FALSE]]
    /\ UNCHANGED text

CloseEntry ==
    /\ opened # NoOne
    /\ opened' = NoOne /\ text' = NoText
    /\ heads' = [h \in Heads |-> [heads[h] EXCEPT !.current = FALSE]]

\* openObject has no signal: a browser that is gone is not noticed here.
HeadOpens(h) ==
    /\ heads[h].pc = "opening"
    /\ \/ HeadBecomes(h, [heads[h] EXCEPT !.pc = "parsing", !.ver = version, !.source = "open"])
       \/ HeadBecomes(h, [heads[h] EXCEPT !.pc = "failed", !.settled = TRUE])
    /\ UNCHANGED <<opened, text>>

Reading(h) == heads[h].pc = "parsing" /\ heads[h].source = "open"

Body(h) == SizeOf[Archive[heads[h].ver][heads[h].at]]

\* finish()
Taken(r) == [r EXCEPT !.pc = "answered", !.source = "closed", !.settled = TRUE]

HeadParses(h) ==
    /\ Reading(h) /\ ~heads[h].found /\ heads[h].at < Len(Archive[heads[h].ver])
    /\ LET e == Archive[heads[h].ver][heads[h].at + 1] IN
       HeadBecomes(h, [heads[h] EXCEPT !.at = @ + 1, !.found = (NameOf[e] = heads[h].name)])
    /\ UNCHANGED <<opened, text>>

\* stream.on('data') with a chunk of n bytes.
HeadTakes(h, n) ==
    LET r == heads[h] IN
    /\ Reading(h) /\ r.found /\ r.got + n <= Body(h)
    /\ \/ /\ r.got >= HeadLimit \/ r.got + n > HeadLimit
          /\ HeadBecomes(h, Taken([r EXCEPT !.got = HeadLimit, !.truncated = TRUE]))
       \/ /\ r.got + n <= HeadLimit /\ r.got < HeadLimit
          /\ HeadBecomes(h, [r EXCEPT !.got = @ + n])
    /\ UNCHANGED <<opened, text>>

\* stream.on('end')
HeadEnds(h) ==
    /\ Reading(h) /\ heads[h].found /\ heads[h].got = Body(h)
    /\ HeadBecomes(h, Taken(heads[h]))
    /\ UNCHANGED <<opened, text>>

\* The callback of pipeline: the end of the archive or, at any time, an error of the
\* storage or of the decompressor.  An entry that was found leaves it to finish().
Piped(h) ==
    /\ Reading(h)
    /\ HeadBecomes(h, IF heads[h].found
                      THEN [heads[h] EXCEPT !.source = "closed"]
                      ELSE [heads[h] EXCEPT !.source = "closed", !.pc = "failed", !.settled = TRUE])
    /\ UNCHANGED <<opened, text>>

\* setResult, unless the effect was cleaned up.
HeadAnswered(h) ==
    /\ heads[h].settled
    /\ text' = IF ~heads[h].current THEN text
               ELSE [name |-> heads[h].name, ok |-> heads[h].pc = "answered", ver |-> heads[h].ver,
                     at |-> heads[h].at, got |-> heads[h].got, truncated |-> heads[h].truncated]
    /\ HeadBecomes(h, NoHead)
    /\ UNCHANGED opened

HeadStep(h) ==
    \/ HeadOpens(h) \/ HeadParses(h) \/ HeadEnds(h) \/ Piped(h) \/ HeadAnswered(h)
    \/ \E n \in 1..2 : HeadTakes(h, n)

\* The head of an entry of an uncompressed archive comes from the range index.
EntryStep ==
    /\ compressed
    /\ (\E name \in Names : OpenEntry(name)) \/ CloseEntry \/ (\E h \in Heads : HeadStep(h))
    /\ UNCHANGED <<version, compressed, listVars>>

-----------------------------------------------------------------------------
PreviewStep ==
    \/ \E f \in Fetches : RequestStep(f) \/ Settles(f)
    \/ DrawerOpens \/ DrawerCloses \/ PageNext \/ PagePrev \/ SetPageSize
    \/ ForceRefresh \/ ForgetsRows

ArchiveNext == ObjectReplaced \/ PreviewStep \/ EntryStep \/ TabReloads

ArchiveSpec == ArchiveInit /\ [][ArchiveNext]_archiveVars

-----------------------------------------------------------------------------
(* Properties.                                                                   *)

\* How many of the first p entries of a version a page counts.
Rank(v, p) == Cardinality({q \in 1..p : Archive[v][q] \notin Hidden})

IsSlice(d) ==
    LET a == Archive[d.ver]
        total == Rank(d.ver, Len(a))
        upTo == d.at[1] + Len(d.entries) IN
    /\ Len(d.entries) <= d.at[2]
    /\ d.entries # <<>> => upTo <= total
    /\ \A p \in DOMAIN a :
          a[p] \notin Hidden /\ Rank(d.ver, p) \in (d.at[1] + 1)..upTo
             => d.entries[Rank(d.ver, p) - d.at[1]] = a[p]
    /\ ~d.truncated => upTo >= total \/ Len(d.entries) = d.at[2]
    /\ d.hasMore <=> ~d.truncated /\ total > d.at[1] + d.at[2]

\* A page that is loading waits for an answer that is under way, and what it shows is of
\* the place it is at, unless it was brought by a refresh, which nothing cancels.
ShowsItsPlace ==
    /\ listing.loading => \E w \in awaiting : ~IsSpare(w.fetch)
    /\ listing.data # NoData /\ listing.data.at # <<listing.offset, listing.size>>
          => listing.by = "refresh"

\* Every page that is kept or shown is the part of one version of the archive that its
\* offset and size name, hidden entries not counted; it ends early only at the limit of
\* bytes, of which it tells, and says rightly whether more comes, in spite of attempts
\* that end in between and of the object being replaced (tar-stream.ts:203-255,
\* tar-preview-stream.ts:79-105); and it is shown where it belongs, of which a page that
\* loads is sure to hear (PreviewArchive.tsx:148-175).
PagesAreSlices ==
    /\ ShowsItsPlace
    /\ \A place \in Places : kept[place].answer # NoData => IsSlice(kept[place].answer)
    /\ listing.data # NoData => IsSlice(listing.data)

\* The body of an archive is only downloaded for a browser that is still there and has
\* not got its page, even if it left while the storage was about to answer
\* (storage-preview.ts:205-216, 277-283).
NothingIsReadForNobody ==
    \A f \in Fetches : fetched[f].source = "open" => IsListing(f)

\* The dialog shows the head of the first entry of that name, cut at the limit and
\* marked so exactly if there is more, and never waits when the head of its entry was
\* answered, whatever entries were opened before (tar-stream.ts:111-165,
\* useSniffedText.ts:24-44).
TextIsOfTheEntry ==
    /\ opened # NoOne =>
          text.name = opened \/ \E h \in Heads : heads[h].current /\ heads[h].name = opened
    /\ text # NoText /\ text.ok =>
          LET a == Archive[text.ver]
              e == a[text.at] IN
          /\ NameOf[e] = text.name
          /\ \A p \in 1..(text.at - 1) : NameOf[a[p]] # text.name
          /\ text.got = IF SizeOf[e] < HeadLimit THEN SizeOf[e] ELSE HeadLimit
          /\ text.truncated <=> SizeOf[e] > HeadLimit

\* When the pipeline is over, an entry that was found has been resolved, as the comment
\* at tar-stream.ts:168 says.
FoundIsSettled ==
    \A h \in Heads : heads[h].found /\ heads[h].source = "closed" => heads[h].settled
=============================================================================
