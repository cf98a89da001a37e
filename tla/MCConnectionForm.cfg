CONSTANTS
    tab1 = tab1  tab2 = tab2  user1 = user1  user2 = user2  NoUser = NoUser
    Tabs <- TwoTabs  Users <- TwoUsers  Loads = {1, 2}  MaxWrites = 1  MaxChecks = 1
    tokyo = tokyo  osaka = osaka  ask1 = ask1  ask2 = ask2  Unset = Unset  OldShape = OldShape
    FetchedRegions <- OneRegion  ClassSpecs <- SomeClasses  ColdClasses = {"DEEP_ARCHIVE"}
    BundledCatalog <- BundledPrices  WasabiPrice = 8  PriceLists <- SomeLists
    Connections <- SomeConnections  Scans <- SomeScans  Askers = {ask1, ask2}
    RefreshDays = 1  MaxDay = 1  MaxAutos = 3
    admin1 = admin1  admin2 = admin2  name1 = name1  name2 = name2  member1 = member1
    Admins <- TwoAdmins  ConnectionIds = {1, 2, 3}  Names = {name1, name2, name3}  Members = {member1, member2}
    FirstRows <- OneOrTwo  Absent = Absent  MaxTouched = 2  MaxVisits = 1
    d1 = d1  d2 = d2  v1 = v1  job1 = job1
    Registered = {d1, d2}  DataVersions = {v1}  Jobs = {job1}  Depths = {1, 2}
    PageLoads = {1, 2}  PageSaves = {1}  MaxEditions = 2  Nothing = Nothing
    bucket1 = bucket1
    timer1 = timer1  post1 = post1
    worker1 = worker1
    NoBucket = NoBucket
    Buckets <- OneBucket  Vanishing <- OneBucket  Timers <- NoTimers  Posts <- OnePost  Workers <- OneWorker
    Pages = 2  MaxJobs = 2
    api = api  worker = worker  r1 = r1  w1 = w1  e1 = e1
    Procs = {api, worker}  Api = api  Requests = {r1, w1}  ProcOf <- BothApi
    Endpoints = {e1, e2}  Blocked = {}  ConnLoads = {l1, l2}  ClientIds = {c1, c2, c3}
    MaxVersion = 1  NoLoad = NoLoad  NoConnEntry = NoConnEntry
    Calls = {call1}  Routes = {"connections", "measure", "editReadme", "job", "ingest"}
    Senders = {s1, s2, s3}  MaxBuckets = 2  MaxAttempts = 2  MaxPasswordChecks = 1
    WindowLength = 2  MaxTime = 3  None = None
SPECIFICATION FormsSpec
INVARIANTS NothingUntouchedIsSent
