----------------------------- MODULE Estimates ------------------------------
(* What moving a scanned directory to each connection costs and takes         *)
(* (lib/pricing.ts, lib/transfer-estimate.ts, routes/storage-estimate.ts), and *)
(* the price catalogue behind it: what is bundled, what the job               *)
(* pricing.refresh has fetched from AWS into pricing_cache, and what the api   *)
(* remembers of it for a minute (lib/pricing-fetch.ts, lib/pricing-store.ts,  *)
(* lib/pricing-refresh-handler.ts, routes/pricing.ts).                        *)
(*                                                                            *)
(* Sizes, prices and times are small whole numbers; 1 GB is one unit of size, *)
(* so that a price per GB and one per object have the same scale.             *)
EXTENDS Integers, SequencesExt, FiniteSetsExt, TLC

CONSTANTS
    FetchedRegions, \* FETCH_REGIONS, in their order
    ClassSpecs,     \* CLASSES: the rows of the price list each class is read from
    ColdClasses,    \* those that must be restored before they are read
    BundledCatalog, \* pricing/catalog.ts
    WasabiPrice,
    PriceLists,     \* what AWS may publish: [rows, products], by region
    Connections,    \* [id, host, region, settings]
    Scans,          \* results of finished scans: [count, size of an object]
    Askers,         \* requests for an estimate
    RefreshDays, MaxDay, MaxAutos,
    Unset,          \* a setting, row or upper end that is not there
    OldShape        \* a catalogue that an earlier version has written

ASSUME EstimatesAssumption ==
    RefreshDays \in Nat \ {0} /\ MaxDay \in Nat /\ MaxAutos \in Nat /\ IsFiniteSet(Askers)

VARIABLES
    kept,           \* pricing_cache: [catalog, day]; the catalogue may be of an older shape
    memo,           \* what the api remembers: [source, catalog, day]
    refresh,        \* the last job pricing.refresh: [status, day, built]
    day,
    asker,          \* Askers -> "idle", "stale" or "may refresh"
    answer,         \* the estimate that is answered in this step
    autos           \* jobs that estimates have made today (history)

estimateVars == <<kept, memo, refresh, day, asker, answer, autos>>

DefaultPartSize == 2
MonitoringMin == 2
Bundled == [source |-> "bundled", catalog |-> BundledCatalog, day |-> Unset]
NoJob == [status |-> "none", day |-> Unset, built |-> <<>>]

EstimatesInit ==
    /\ kept \in {Unset, [catalog |-> OldShape, day |-> 0]}
    /\ memo = Unset /\ refresh = NoJob /\ day = 0
    /\ asker = [a \in Askers |-> "idle"]
    /\ answer = Unset /\ autos = 0

-----------------------------------------------------------------------------
(* The profile and the rates of a connection.                                *)

Or(value, default) == IF value = Unset THEN default ELSE value

PositiveOr(value, default) == IF value # Unset /\ value > 0 THEN value ELSE default

\* By the host of the endpoint; what is neither is storage of one's own.
InferProvider(host) == IF host \in {"aws", "wasabi"} THEN host ELSE "onprem"

\* In units of 100 Mbps, of milliseconds and of a tenth.
PerfDefaults(provider) ==
    CASE provider = "aws"    -> [read |-> 10, write |-> 10, parallel |-> 16, overhead |-> 25, unrest |-> 2]
      [] provider = "wasabi" -> [read |-> 5, write |-> 5, parallel |-> 16, overhead |-> 30, unrest |-> 3]
      [] OTHER               -> [read |-> 3, write |-> 3, parallel |-> 16, overhead |-> 20, unrest |-> 5]

\* A setting that was never made has its default; 0 counts where it means something.
SettingsToProfile(conn) ==
    LET set == conn.settings
        provider == Or(set.provider, InferProvider(conn.host))
        perf == PerfDefaults(provider)
        aws == provider = "aws"
    IN [ id |-> conn.id, provider |-> provider,
         region |-> IF aws THEN Or(set.region, conn.region) ELSE Unset,
         class |-> IF aws THEN Or(set.class, "STANDARD") ELSE Unset,
         read |-> PositiveOr(set.read, perf.read), write |-> perf.write,
         parallel |-> PositiveOr(set.parallel, perf.parallel), overhead |-> perf.overhead,
         unrest |-> Or(set.unrest, perf.unrest),
         capacity |-> set.capacity, storage |-> set.storage, egress |-> set.egress, put |-> set.put ]

EmptyRates ==
    [ storage |-> <<>>, egress |-> <<>>, free |-> 0, put |-> 0, get |-> 0, retrieval |-> 0,
      monitoring |-> 0, minDays |-> 0, minBytes |-> 0, perObject |-> 0,
      source |-> "none", resolved |-> TRUE ]

AwsRates(class, region) ==
    class @@ [egress |-> region.egress, free |-> region.free, resolved |-> TRUE]

FlatRate(usd) == <<[upTo |-> Unset, usd |-> usd]>>

CatalogRates(profile, catalog) ==
    CASE profile.provider = "aws" ->
            IF profile.region \in DOMAIN catalog
            THEN AwsRates(catalog[profile.region].classes[profile.class], catalog[profile.region])
            ELSE [EmptyRates EXCEPT !.resolved = FALSE]
      [] profile.provider = "wasabi" ->
            [EmptyRates EXCEPT !.storage = FlatRate(WasabiPrice), !.minDays = 90, !.source = "manual"]
      [] OTHER -> EmptyRates

\* What was entered for the connection goes before the catalogue.
EffectiveRates(profile, catalog) ==
    [CatalogRates(profile, catalog) EXCEPT
        !.storage = IF profile.storage = Unset THEN @ ELSE FlatRate(profile.storage),
        !.egress  = IF profile.egress = Unset THEN @ ELSE FlatRate(profile.egress),
        !.put     = Or(profile.put, @),
        !.source  = IF profile.storage = Unset THEN @ ELSE "override"]

-----------------------------------------------------------------------------
(* The estimate.                                                             *)

\* The amount goes through the tiers; what a last tier with an end leaves is
\* charged at its price.
TieredCost(gb, tiers) ==
    LET Through(acc, tier) ==
            LET upper == IF tier.upTo = Unset THEN acc.lower + acc.left ELSE tier.upTo
                span == Min({acc.left, upper - acc.lower})
            IN [left |-> acc.left - span, lower |-> upper, usd |-> acc.usd + span * tier.usd]
        end == FoldLeft(Through, [left |-> gb, lower |-> 0, usd |-> 0], tiers)
    IN IF gb <= 0 \/ tiers = <<>> THEN 0 ELSE end.usd + end.left * Last(tiers).usd

\* An object above the part size takes a Create, its parts and a Complete.
PutRequestCount(count, size) ==
    LET parts == Max({1, (size + DefaultPartSize - 1) \div DefaultPartSize}) IN
    count * (IF parts > 1 THEN parts + 2 ELSE 1)

BuildWarnings(source, target, rates, scan, billable) ==
    LET overhead == scan.count * rates.perObject
        conditions ==
          [ ratesUnavailable |-> ~rates.resolved,
            minDuration |-> rates.minDays > 0,
            retrievalCost |-> rates.retrieval > 0,
            archiveRetrievalTime |-> target.class \in ColdClasses,
            sourceArchiveRestore |-> source.class \in ColdClasses,
            wasabiPolicy |-> target.provider = "wasabi",
            proxyRate |-> rates.source = "proxy",
            manualRate |-> rates.source = "manual",
            smallObjects |-> rates.minBytes > 0 /\ scan.size < rates.minBytes,
            objectOverhead |-> 10 * overhead > scan.count * scan.size,
            capacity |-> target.capacity # Unset /\ billable > target.capacity ]
    IN {kind \in DOMAIN conditions : conditions[kind]}

EstimateTransfer(source, target, scan, catalog) ==
    LET from == EffectiveRates(source, catalog)
        to == EffectiveRates(target, catalog)
        same == source.id = target.id
        bytes == scan.count * scan.size
        requests == (scan.count * Max({source.overhead, target.overhead}))
                       \div Max({1, Min({source.parallel, target.parallel})})
        bandwidth == IF same THEN 0 ELSE bytes \div Min({source.read, target.write})
        optimistic == Max({requests, bandwidth})
        egress == IF same THEN 0 ELSE TieredCost(Max({0, bytes - from.free}), from.egress)
        billable == scan.count * (Max({scan.size, to.minBytes}) + to.perObject)
        monitoring == IF scan.size >= MonitoringMin THEN scan.count * to.monitoring ELSE 0
    IN [ optimistic |-> optimistic,
         pessimistic |-> optimistic * (10 + Max({source.unrest, target.unrest})),
         egress |-> egress,
         total |-> egress + bytes * from.retrieval + scan.count * from.get
                     + PutRequestCount(scan.count, scan.size) * to.put,
         monthly |-> TieredCost(billable, to.storage) + monitoring,
         billable |-> billable,
         warnings |-> BuildWarnings(source, target, to, scan, billable) ]

-----------------------------------------------------------------------------
(* The catalogue.                                                            *)

IsOf(row, rows) == row \in DOMAIN rows

RowsOf(spec) ==
    {tier[1] : tier \in ToSet(spec.storage)} \cup ({spec.put, spec.get, spec.retrieval, spec.monitoring} \ {Unset})

\* mutant: a price that is not listed is taken for 0
Rate_Zero(rows, row) == IF IsOf(row, rows) THEN rows[row] ELSE 0

\* A row that is not there ends the fetch (see FetchRegion).
Rate(rows, row) == IF row = Unset THEN 0 ELSE IF IsOf(row, rows) THEN rows[row] ELSE Unset

BuildStorageClasses(rows) ==
    [c \in DOMAIN ClassSpecs |->
        LET spec == ClassSpecs[c] IN
        [ storage |-> [i \in DOMAIN spec.storage |->
                          [upTo |-> spec.storage[i][2], usd |-> Rate(rows, spec.storage[i][1])]],
          put |-> Rate(rows, spec.put), get |-> Rate(rows, spec.get),
          retrieval |-> Rate(rows, spec.retrieval), monitoring |-> Rate(rows, spec.monitoring),
          minDays |-> spec.minDays, minBytes |-> spec.minBytes, perObject |-> spec.perObject,
          source |-> IF spec.proxy THEN "proxy" ELSE "api" ]]

\* The prices of the region: the first outbound usage type that is not the
\* Global one, which is the free amount.
OwnUsage(products) == SelectSeq(products, LAMBDA p : ~p.global)

FreeTiers(products) ==
    SelectSeq(FlattenSeq([i \in DOMAIN products |-> IF products[i].global THEN products[i].tiers ELSE <<>>]),
              LAMBDA t : t.usd = 0)

BuildEgress(products) ==
    [ tiers |-> OwnUsage(products)[1].tiers,
      free |-> IF FreeTiers(products) = <<>> THEN 0 ELSE Or(FreeTiers(products)[1].upTo, 0) ]

Charges(tiers) == \E t \in ToSet(tiers) : t.usd > 0

BuildRegion(list) ==
    [ classes |-> BuildStorageClasses(list.rows),
      egress |-> BuildEgress(list.products).tiers, free |-> BuildEgress(list.products).free ]

\* What fetchCatalog throws at.
Complete(list) ==
    /\ \A c \in DOMAIN ClassSpecs : \A row \in RowsOf(ClassSpecs[c]) : Rate(list.rows, row) # Unset
    /\ OwnUsage(list.products) # <<>> /\ Charges(OwnUsage(list.products)[1].tiers)

EndsWith(status) == refresh' = [NoJob EXCEPT !.status = status, !.day = day]

Enqueues ==
    IF refresh.status \in {"queued", "running"} THEN UNCHANGED refresh
    ELSE refresh' = [NoJob EXCEPT !.status = "queued", !.day = day]

\* POST /pricing/refresh
RefreshByHand == Enqueues /\ answer' = Unset /\ UNCHANGED <<kept, memo, day, asker, autos>>

StartRefresh ==
    /\ refresh.status = "queued"
    /\ refresh' = [refresh EXCEPT !.status = "running"]
    /\ answer' = Unset /\ UNCHANGED <<kept, memo, day, asker, autos>>

\* One region after the other, with the rows of its own: in the list of S3, fetched
\* once, by the name of the region; in those of Data Transfer, fetched one after
\* the other.
FetchRegion ==
    /\ refresh.status = "running" /\ Len(refresh.built) < Len(FetchedRegions)
    /\ \E list \in PriceLists :
          /\ Complete(list)
          /\ refresh' = [refresh EXCEPT !.built = Append(@, BuildRegion(list))]
    /\ answer' = Unset /\ UNCHANGED <<kept, memo, day, asker, autos>>

CatalogOf(built) ==
    [r \in ToSet(FetchedRegions) |-> built[CHOOSE i \in DOMAIN FetchedRegions : FetchedRegions[i] = r]]

SaveCatalog ==
    /\ refresh.status = "running" /\ Len(refresh.built) = Len(FetchedRegions)
    /\ kept' = [catalog |-> CatalogOf(refresh.built), day |-> day]
    /\ EndsWith("done")
    /\ answer' = Unset /\ UNCHANGED <<memo, day, asker, autos>>

\* A list that lacks something, no answer in 30 s, a cancelled job, a failed
\* write: the row stays as it is.
RefreshFails ==
    /\ refresh.status \in {"queued", "running"}
    /\ EndsWith("error")
    /\ answer' = Unset /\ UNCHANGED <<kept, memo, day, asker, autos>>

LooksLikeCatalog(catalog) == catalog # OldShape

\* get: what is remembered, the row, or what is bundled; a failed read is the last.
GetCatalog(snapshot) ==
    \/ memo # Unset /\ snapshot = memo /\ UNCHANGED memo
    \/ /\ memo = Unset
       /\ \/ /\ kept # Unset /\ LooksLikeCatalog(kept.catalog)
             /\ snapshot = [source |-> "fetched", catalog |-> kept.catalog, day |-> kept.day]
          \/ snapshot = Bundled
       /\ memo' = snapshot

Snapshots ==
    {Bundled} \cup ({memo} \ {Unset})
        \cup (IF kept = Unset THEN {} ELSE {[source |-> "fetched", catalog |-> kept.catalog, day |-> kept.day]})

IsStale(snapshot) == snapshot.day = Unset \/ day - snapshot.day >= RefreshDays

\* mutant: only a refresh that succeeded counts
ShouldAutoRefresh_OnSuccess(job) ==
    \/ job.status \in {"none", "error"}
    \/ job.status = "done" /\ day - job.day >= RefreshDays

ShouldAutoRefresh(job) ==
    \/ job.status = "none"
    \/ job.status \in {"done", "error"} /\ day - job.day >= RefreshDays

\* GET /storage/:connectionId/estimate: every connection with every price of
\* the one catalogue, and whether that is old.
Ask(a) ==
    /\ asker[a] = "idle"
    /\ \E scan \in Scans, from \in Connections, snapshot \in Snapshots :
          /\ GetCatalog(snapshot)
          /\ answer' = [ scan |-> scan, from |-> from, catalog |-> snapshot.catalog,
                         candidates |-> [to \in Connections |->
                             EstimateTransfer(SettingsToProfile(from), SettingsToProfile(to), scan, snapshot.catalog)] ]
          /\ asker' = [asker EXCEPT ![a] = IF IsStale(snapshot) THEN "stale" ELSE "idle"]
    /\ UNCHANGED <<kept, refresh, day, autos>>

\* The last attempt is looked up, and then the job is made: two statements.
LookUpLast(a) ==
    /\ asker[a] = "stale"
    /\ asker' = [asker EXCEPT ![a] = IF ShouldAutoRefresh(refresh) THEN "may refresh" ELSE "idle"]
    /\ answer' = Unset /\ UNCHANGED <<kept, memo, refresh, day, autos>>

EnqueueAuto(a) ==
    /\ asker[a] = "may refresh" /\ autos < MaxAutos
    /\ \/ /\ Enqueues
          /\ autos' = IF refresh' = refresh THEN autos ELSE autos + 1
       \/ UNCHANGED <<refresh, autos>>
    /\ asker' = [asker EXCEPT ![a] = "idle"]
    /\ answer' = Unset /\ UNCHANGED <<kept, memo, day>>

MemoExpires ==
    /\ memo # Unset /\ memo' = Unset
    /\ answer' = Unset /\ UNCHANGED <<kept, refresh, day, asker, autos>>

\* A request does not take a day.
NextDay ==
    /\ day < MaxDay /\ \A a \in Askers : asker[a] = "idle"
    /\ day' = day + 1 /\ autos' = 0
    /\ answer' = Unset /\ UNCHANGED <<kept, memo, refresh, asker>>

EstimatesNext ==
    \/ RefreshByHand \/ StartRefresh \/ FetchRegion \/ SaveCatalog \/ RefreshFails
    \/ MemoExpires \/ NextDay
    \/ \E a \in Askers : Ask(a) \/ LookUpLast(a) \/ EnqueueAuto(a)

EstimatesSpec == EstimatesInit /\ [][EstimatesNext]_estimateVars

-----------------------------------------------------------------------------
\* What the k-th GB costs.
PriceOf(tiers, k) ==
    LET holding == {i \in DOMAIN tiers : tiers[i].upTo = Unset \/ k <= tiers[i].upTo}
    IN tiers[IF holding = {} THEN Len(tiers) ELSE Min(holding)].usd

PricedByUnit(gb, tiers) ==
    IF tiers = <<>> THEN 0 ELSE FoldSet(LAMBDA k, sum : sum + PriceOf(tiers, k), 0, 1..gb)

CostsNothing(profile, own) == profile.provider \in {"onprem", "other"} \/ own = 0

\* An estimate prices every GB at the price of its tier, and a 0 in it is no price
\* that got lost: whatever the refresh found missing in the price lists and whatever
\* shape the cached catalogue has, a monthly 0 means that the destination costs
\* nothing or carries the warning that its rates are unknown, and an egress of 0
\* that the source costs nothing, that all fits into the free amount, or that the
\* region of the source is not in the catalogue.  The last is no warning anywhere:
\* transfer-estimate.ts:145 warns of the destination alone, so that the egress of a
\* charged source in an unlisted region looks free.
CostIsExplained ==
    answer # Unset =>
        LET source == SettingsToProfile(answer.from) IN
        \A to \in Connections :
            LET target == SettingsToProfile(to)
                cost == answer.candidates[to]
                out == answer.scan.count * answer.scan.size
            IN
            /\ cost.billable > 0 /\ cost.monthly = 0
                 => CostsNothing(target, target.storage) \/ "ratesUnavailable" \in cost.warnings
            /\ out > 0 /\ cost.egress = 0 /\ source.id # target.id
                 => \/ CostsNothing(source, source.egress) \/ source.provider = "wasabi"
                    \/ ~EffectiveRates(source, answer.catalog).resolved
                    \/ out <= EffectiveRates(source, answer.catalog).free
            /\ cost.monthly >= PricedByUnit(cost.billable, EffectiveRates(target, answer.catalog).storage)
            /\ cost.egress = IF source.id = target.id THEN 0
                             ELSE PricedByUnit(out - EffectiveRates(source, answer.catalog).free,
                                               EffectiveRates(source, answer.catalog).egress)

\* Estimates make no more refreshes of a day than may have looked up the same
\* last attempt, however often they are asked for and however the refreshes end.
AttemptsArePaced == autos <= Cardinality(Askers)
=============================================================================
