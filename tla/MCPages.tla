------------------------------- MODULE MCPages -------------------------------
\* The preview of an archive and the pages that browse a storage.  They share no state;
\* a behaviour runs one of them and leaves the others where they begin.
EXTENDS ArchivePreview, StorageBrowsing, TLC

CONSTANTS dot, fileA, fileB, twinB, top, sub, noWords

VARIABLE page

-----------------------------------------------------------------------------
(* An archive whose second version has lost an entry for one of the same name as    *)
(* another, and may come to the limit of bytes before it.                           *)

TwoVersions == <<<<fileA, dot, fileB>>, <<dot, fileB, twinB>>>>
NamesOf == (dot :> "dot") @@ (fileA :> "a") @@ (fileB :> "b") @@ (twinB :> "b")
SizesOf == (dot :> 1) @@ (fileA :> 0) @@ (fileB :> 3) @@ (twinB :> 2)
ReachOf == <<9, 2>>
OneOrTwoRows == <<1, 2>>

LowestFetch ==
    \A f \in Fetches : IsSpare(f) /\ fetched'[f].pc # "over" => f = CHOOSE g \in Fetches : IsSpare(g)

\* Of compressed pages of one size the first is read again while it is read; else the
\* archive is not compressed or its pages have two sizes, and one request comes after
\* another of a drawer that stays open.
OneByOne ==
    /\ \A f, g \in Fetches :
          ~IsSpare(f) /\ fetched[f].pc # "done" /\ IsSpare(g) => fetched'[g] = fetched[g]
    /\ listing.shown => listing'.shown \/ listing.error
    /\ fetched' = fetched => kept' = kept

Previewing ==
    /\ PreviewStep \/ ObjectReplaced \/ TabReloads
    /\ UNCHANGED dialogVars /\ LowestFetch
    /\ page # "sizes" => listing'.size = 1
    /\ page # "pages" => OneByOne
    /\ Cardinality(awaiting') = 2 => listing'.offset = 0

\* Nobody opens an entry the page does not list.
ReadingEntries ==
    /\ EntryStep \/ ObjectReplaced \/ TabReloads
    /\ UNCHANGED listVars
    /\ opened' \in {NoOne, "a", "b"}

-----------------------------------------------------------------------------
(* A directory of two pages and one in it of one; or one directory with words that *)
(* are searched, deep or not; or the scans of the two, whose lists are at hand.    *)

TopDown == (top :> {top, sub}) @@ (sub :> {sub})

OnlyTopHasTwo ==
    \A q \in ListAsks : asks'[q].answer # NoPage =>
        asks'[q].answer.more = IF page # "lists" THEN "none"
                               ELSE IF asks'[q].key = FirstPage(top) THEN "next"
                               ELSE IF asks'[q].key.cursor = 1 THEN "stuck" ELSE "none"

\* The bucket list, or the first page of the top, grows old and is followed by another.
OneGrowsOld ==
    \A k \in DOMAIN entries :
        entries'[k].stale /\ ~entries[k].stale =>
            k = IF page = "lists" THEN FirstPage(top) ELSE IndexKey

NoSearch == browser'.words = noWords /\ browser'.typed = Nowhere /\ ~browser'.recursive

GoesThroughLists ==
    /\ ListsStep \/ BrowserStep
    /\ UNCHANGED <<indexVars, jobs, banner, dialog>>
    /\ NoSearch

SearchesWords ==
    /\ ListsStep \/ BrowserStep
    /\ UNCHANGED <<listed, indexVars, jobs, banner, dialog>>
    /\ browser'.dir = top

\* The top is scanned first, if it is.
Scanning ==
    /\ ScanStep \/ BrowserStep
    /\ UNCHANGED <<indexVars, asks>> /\ NoSearch
    /\ Cardinality(calls') <= 2
    /\ Len(jobs') = 2 => jobs'[1].place.dir = top
    /\ browser'.dir = top => browser.dir = top

Browsing ==
    /\ \/ page = "buckets" /\ (ListsStep \/ IndexStep)
       \/ page = "lists" /\ GoesThroughLists
       \/ page = "words" /\ SearchesWords
       \/ page = "scans" /\ Scanning
    /\ OnlyTopHasTwo /\ OneGrowsOld

-----------------------------------------------------------------------------
pageVars == <<page, archiveVars, browsingVars>>

ArchiveParts == {"pages", "index", "sizes", "entry"}
BrowsingParts == {"buckets", "lists", "words", "scans"}

BeginPage(parts) ==
    /\ page \in parts
    /\ ArchiveInit /\ compressed = (page # "index")
    /\ BrowsingInit
    /\ entries[IndexKey] # NotCached => page = "buckets"
    /\ entries[FirstPage(top)] # NotCached => page \in {"lists", "scans"}
    /\ page = "scans" => entries[FirstPage(top)] # NotCached
    /\ (entries[FirstPage(sub)] # NotCached) = (page = "scans")

PagesNext ==
    /\ UNCHANGED page
    /\ \/ page \in {"pages", "index", "sizes"} /\ Previewing
       \/ page = "entry" /\ ReadingEntries
       \/ page \in BrowsingParts /\ UNCHANGED archiveVars
    /\ \/ page \in BrowsingParts /\ Browsing
       \/ page \in ArchiveParts /\ UNCHANGED browsingVars

PagesInit == BeginPage(ArchiveParts \cup BrowsingParts)
PagesSpec == PagesInit /\ [][PagesNext]_pageVars

EntryInit == BeginPage({"entry"})
EntrySpec == EntryInit /\ [][PagesNext]_pageVars
=============================================================================
