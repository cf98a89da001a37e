-------------------------- MODULE MCScreensAndGuards --------------------------
\* The browser's caches, the estimates of a transfer, the forms of administrators, the
\* lineage page and the parts of MCScanAndGuards in one run of TLC.  They share no state;
\* a behaviour runs one of them and leaves the others where they begin.
EXTENDS ClientCache, Estimates, ConnectionEditing, LineageView, MCScanAndGuards

CONSTANTS tab1, tab2, user1, user2, tokyo, osaka, ask1, ask2,
    admin1, admin2, name1, name2, member1, d1, d2, v1, job1

VARIABLE screen

-----------------------------------------------------------------------------
(* The client's caches: two tabs of one user, of which the second only has    *)
(* one load and makes no PUT; or one tab, two users and no PUT.               *)

TwoTabs == {tab1, tab2}
TwoUsers == {user1, user2}

SignedInTabs ==
    /\ UNCHANGED cookie
    /\ \A t \in Tabs : me'[t] = {} /\ ~page'[t].leaving /\ page'[t].confirming = "no"
    /\ \A t \in Tabs, l \in Loads : request'[t][l].pc # "failed"
    /\ request'[tab2][2].pc = "none" /\ ~putting'[tab2]

OneTab ==
    /\ UNCHANGED <<written, putting>>
    /\ me'[tab2] = {} /\ page'[tab2] = page[tab2]
    /\ store'[tab2] = store[tab2] /\ request'[tab2] = request[tab2]

-----------------------------------------------------------------------------
(* Estimates: a class with tiers and a monitored one that is cold, by a price  *)
(* list that is whole or lacks a row or the prices of the region; connections  *)
(* with every kind of provider and override.  One estimate of everything, or   *)
(* two requests for a single one while days go by.                             *)

SomeClasses ==
    [ STANDARD |->
        [storage |-> <<<<"first", 2>>, <<"over", Unset>>>>, put |-> "put", get |-> "get",
         retrieval |-> Unset, monitoring |-> "monitored",
         minDays |-> 0, minBytes |-> 0, perObject |-> 0, proxy |-> FALSE],
      DEEP_ARCHIVE |->
        [storage |-> <<<<"deep", Unset>>>>, put |-> "put", get |-> "get",
         retrieval |-> "restored", monitoring |-> Unset,
         minDays |-> 180, minBytes |-> 2, perObject |-> 1, proxy |-> TRUE] ]

AllRows == [first |-> 3, over |-> 2, put |-> 1, get |-> 1, monitored |-> 1, deep |-> 1, restored |-> 1]

Outbound(usd) == [global |-> FALSE, tiers |-> <<[upTo |-> 3, usd |-> 2 * usd], [upTo |-> 4, usd |-> usd]>>]
FreeAmount == [global |-> TRUE, tiers |-> <<[upTo |-> 1, usd |-> 0]>>]

Priced(rows, products) == [rows |-> rows, products |-> products]

SomeLists ==
    { Priced(AllRows, <<FreeAmount, Outbound(2)>>),
      Priced(AllRows, <<Outbound(1)>>),
      Priced([r \in DOMAIN AllRows \ {"deep"} |-> AllRows[r]], <<FreeAmount, Outbound(2)>>),
      Priced(AllRows, <<FreeAmount>>),
      Priced(AllRows, <<FreeAmount, Outbound(0)>>) }

OneRegion == <<tokyo>>
BundledPrices == [r \in {tokyo} |-> BuildRegion(Priced(AllRows, <<FreeAmount, Outbound(2)>>))]

AsDefault ==
    [ provider |-> Unset, region |-> Unset, class |-> Unset, read |-> Unset, parallel |-> Unset,
      unrest |-> Unset, capacity |-> Unset, storage |-> Unset, egress |-> Unset, put |-> Unset ]

Conn(id, host, region, settings) == [id |-> id, host |-> host, region |-> region, settings |-> settings]

SomeConnections ==
    { Conn(1, "aws", tokyo, AsDefault),
      Conn(2, "aws", tokyo, [AsDefault EXCEPT !.class = "DEEP_ARCHIVE", !.capacity = 3, !.egress = 1]),
      Conn(3, "aws", osaka, AsDefault),
      Conn(4, "wasabi", osaka, [AsDefault EXCEPT !.storage = 0, !.unrest = 0]),
      Conn(5, "nas", osaka, AsDefault) }

SomeScans == {[count |-> 0, size |-> 0], [count |-> 1, size |-> 1], [count |-> 3, size |-> 3]}

OneEstimate == day' = 0 /\ asker'[ask2] = "idle"

OneQuestion == answer' # Unset => answer'.scan.count = 0 /\ answer'.from.id = 1

-----------------------------------------------------------------------------
(* Forms: one administrator touches any two fields of a connection; two of them *)
(* touch fields that have to do with each other, the second one field; or one   *)
(* imports a file, exported before, beside one that renames or makes a          *)
(* connection.                                                                  *)

TwoAdmins == {admin1, admin2}

Tracked ==
    [NewRow EXCEPT !.name = name1, !.secret = 2, !.mode = "whitelist", !.users = {member1},
                   !.track = TRUE, !.room = 3]
ReadOnly == [NewRow EXCEPT !.name = name2, !.secret = 2, !.write = FALSE]

OneOrTwo == {<<Tracked, Absent, Absent>>, <<Tracked, ReadOnly, Absent>>}

Connected == {{"name", "room"}, {"mode", "users"}, {"read", "write"}, {"scan", "track"}}

OneIsEdited ==
    /\ \A a \in Admins : import'[a] = import[a] /\ form'[a].pc # "new"
    /\ file' = file
    /\ list' # list => form' # form
    /\ stored'[1] # Absent /\ stored'[2] = Absent /\ stored'[3] = Absent

EditedBeside ==
    /\ OneIsEdited
    /\ \E g \in Connected : \A a \in Admins : form'[a].pc = "edit" => form'[a].touched \subseteq g
    /\ form'[admin2].pc = "edit" => Cardinality(form'[admin2].touched) <= 1
    /\ (stored' # stored /\ form' = form) => form[admin2].pc = "list"
    /\ members' # members => form[admin1].pc = "edit" /\ "users" \in form[admin1].touched

OneImports ==
    /\ import'[admin2].pc = "list" /\ form'[admin1].pc = "list"
    /\ form'[admin2].pc = "edit" => form'[admin2].touched \subseteq {"name"}
    /\ form'[admin2].pc = "new" => form'[admin2].touched \subseteq {"name", "secret"}
    /\ form'[admin2].pc # "list" => form'[admin2].shown.name # Absent
    /\ file' # file => file = {}
    /\ list'[admin2] # list[admin2] => form' # form
    /\ members' # members => import[admin1].pc = "import" /\ members = Members

-----------------------------------------------------------------------------
(* The lineage page: a dataset is curated here and elsewhere while its graph and  *)
(* its detail are loaded again; or the user goes about in datasets and versions,  *)
(* requests overtaking one another; or in jobs and depths, one graph at a time.   *)

NoJobs == place'.root \notin Jobs /\ graph'.nodes \cap Jobs = {} /\ place'.depth = 1

Curating ==
    /\ NoJobs /\ place'.root = d1 /\ place'.mode = "logical" /\ editor'.of # d2
    /\ graph'.detailed = graph'.nodes /\ edition'[d2] = 1
    /\ \A l \in PageLoads :
          /\ graphLoad'[l].pc # "none" => graphLoad'[l].current
          /\ detailLoad'[l].current \/ detailLoad'[l].of \in {Nothing, d1}

GoingAbout ==
    /\ NoJobs /\ place'.root # Nothing /\ UNCHANGED <<editor, edition>>
    /\ d1 \in graph'.nodes => d1 \in graph'.detailed
    /\ \A l \in PageLoads :
          detailLoad'[l].pc # "none" =>
              detailLoad'[l].current /\ \A m \in PageLoads : graphLoad'[m].pc = "none"

LookingAround ==
    /\ UNCHANGED <<editor, edition, detailLoad>>
    /\ d2 \notin graph'.nodes /\ place'.root # d2
    /\ \A l \in PageLoads : graphLoad'[l].pc # "none" => graphLoad'[l].current

-----------------------------------------------------------------------------
allVars == <<part, scanPartVars, screen, tabVars, estimateVars, editingVars, viewVars>>

\* Where a screen begins that is not the one that runs, there is one state.
Begin(parts) ==
    /\ screen \in parts
    /\ ClientInit /\ EstimatesInit /\ EditingInit /\ ViewInit
    /\ cookie = user1
    /\ screen \notin {"estimates", "refreshes"} => kept = Unset
    /\ screen = "imports" <=> stored[2] # Absent
    /\ edition = [d \in Registered |-> IF d = d1 \/ screen = "curates" THEN 1 ELSE 0]
    /\ screen # "looks" => place.root = d1

Screens ==
    {"tabs", "users", "estimates", "refreshes", "forms", "formsBeside", "imports",
     "curates", "goes", "looks"}

MCInit ==
    \/ Begin(Screens) /\ part = "none" /\ BeginScan
    \/ Begin({"none"}) /\ GuardedInit

MCNext ==
    /\ UNCHANGED <<part, screen>>
    /\ \/ screen = "none" /\ ScanNext /\ OneBucketIsScanned
       \/ screen # "none" /\ UNCHANGED scanPartVars
    /\ \/ screen = "tabs" /\ ClientNext /\ SignedInTabs
       \/ screen = "users" /\ ClientNext /\ OneTab
       \/ screen \notin {"tabs", "users"} /\ UNCHANGED tabVars
    /\ \/ screen = "estimates" /\ EstimatesNext /\ OneEstimate
       \/ screen = "refreshes" /\ EstimatesNext /\ OneQuestion
       \/ screen \notin {"estimates", "refreshes"} /\ UNCHANGED estimateVars
    /\ \/ screen = "forms" /\ EditingNext /\ OneIsEdited /\ form'[admin2].pc = "list"
       \/ screen = "formsBeside" /\ EditingNext /\ EditedBeside
       \/ screen = "imports" /\ EditingNext /\ OneImports
       \/ UNCHANGED editingVars
    /\ \/ screen = "curates" /\ ViewNext /\ Curating
       \/ screen = "goes" /\ ViewNext /\ GoingAbout
       \/ screen = "looks" /\ ViewNext /\ LookingAround
       \/ screen \notin {"curates", "goes", "looks"} /\ UNCHANGED viewVars

MCSpec == MCInit /\ [][MCNext]_allVars

FormsInit == Begin({"forms"}) /\ part = "none" /\ BeginScan
FormsSpec == FormsInit /\ [][MCNext]_allVars
=============================================================================
