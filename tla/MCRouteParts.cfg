CONSTANTS
    k1 = k1  k2 = k2  w1 = w1  c1 = c1  NoKey = NoKey
    Keys <- TwoKeys  Unhandled <- OnlyK2  Workers <- OneWorker  Clients <- OneClient
    MaxJobs = 3  MaxAttempts = 2
    put1 = put1  put2 = put2  put3 = put3  get1 = get1  get2 = get2
    flat = flat  text1 = text1  text2 = text2  Nobody = Nobody
    Editors <- ThreePuts  Texts <- TwoTexts  Lists <- TwoGets  Scopes <- OneScope  MaxConn = 2
    change1 = change1  change2 = change2  tag1 = tag1  tag2 = tag2  NoText = NoText
    Requests <- TwoChanges  Mutations <- SomeChanges  TagIds <- TwoTags
    edit1 = edit1  edit2 = edit2  edit3 = edit3  tags = tags
    bucket = bucket  send1 = send1  send2 = send2  run1 = run1
    Curators <- ThreeEdits  Fields <- OneField  Values <- TwoValues  Places <- OnePlace
    Producers <- TwoSends  Events <- OneEvent
    login1 = login1  login2 = login2  visit1 = visit1  visit2 = visit2  viewer = viewer
    Logins <- TwoLogins  Visits <- TwoVisits  Groups = {viewer}
    Outside = Outside  Sidless = {login2}  NoOne = NoOne  MaxPending = 1  MaxAnswers = 1
    tar1 = tar1  tar2 = tar2  head1 = head1  head2 = head2
    tab1 = tab1  tab2 = tab2  tab3 = tab3
    NoHead = NoHead  NoIndex = NoIndex  Closed = Closed
    Objects = {tar1, tar2}  Openers = {tab1, tab2}
    Heads = {head1, head2}  HeadOf <- HeadKeys  MaxHeads = 1
    Indexes = {1, 2, 3}  MaxArchives = 2  MaxBig = 0
    Changing = {tar1}  MaxVersion = 2
    None = None
    Archives <- SomeArchives  Readers = {tab1, tab2, tab3}  Hidden = {"h"}
    Operations <- SomeOperations  MaxHeaders = 2  MaxInLine = 1
    short = short  long = long
    TrackIds = {short, long}  Fetched = {short}  Length <- Lengths  MaxAsked = 2
SPECIFICATION MCSpec
INVARIANTS KeptFollowsTheStorage
    RecordsTellTheTruth
    NoEditInBetween AuditFollowsRegistry
    TokensFollowTheSession
    IndexFilesAreHeld AnswersAreRight DeckIsWhole
PROPERTIES OnlyCurrentRunPublishes EnqueueAnswersOpenRow
    AcceptedOnFreshWord IndexIsCurrent
CHECK_DEADLOCK FALSE
