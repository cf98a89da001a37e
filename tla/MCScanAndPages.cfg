CONSTANTS
    bucket1 = bucket1
    timer1 = timer1  post1 = post1
    worker1 = worker1
    NoBucket = NoBucket
    Buckets <- OneBucket  Vanishing <- NoBuckets  Timers <- OneTimer  Posts <- NoPosts  Workers <- OneWorker
    Pages = 1  MaxJobs = 1
    api = api  worker = worker  r1 = r1  w1 = w1  e1 = e1
    Procs = {api, worker}  Api = api  Requests = {r1, w1}  ProcOf <- OneEach
    Endpoints = {e1, e2}  Blocked = {}  ConnLoads = {l1, l2}  ClientIds = {c1, c2, c3}
    MaxVersion = 2  NoLoad = NoLoad  NoConnEntry = NoConnEntry
    Calls = {call1}  Routes = {"connections", "measure", "editReadme", "job", "ingest"}
    Senders = {s1, s2, s3}  MaxBuckets = 2  MaxAttempts = 2  MaxPasswordChecks = 1
    WindowLength = 2  MaxTime = 3  None = None
    dot = dot  fileA = fileA  fileB = fileB  twinB = twinB  NoOne = NoOne
    Archive <- TwoVersions  Members = {dot, fileA, fileB, twinB}  NameOf <- NamesOf  SizeOf <- SizesOf
    Hidden = {dot}  Reach <- ReachOf  PageSizes <- OneOrTwoRows  MaxOffset = 1
    Fetches = {f1, f2}  Heads = {h1, h2}  HeadLimit = 2
    top = top  sub = sub  noWords = noWords  Nowhere = Nowhere
    Dirs = {top, sub}  Root = top  Beneath <- TopDown  Words = {noWords, word}  NoWords = noWords
    ListAsks = {ask1, ask2}  MaxCursor = 1  MaxListed = 2  MaxScans = 2
SPECIFICATION LiveSpec
INVARIANTS TrackedHasNextRun PagesAreSlices NothingIsReadForNobody TextIsOfTheEntry ShownIsOfItsPlace
PROPERTIES TrackedIsReserved StaleEntriesDieOut ListsOnlyGetNewer
