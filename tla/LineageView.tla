----------------------------- MODULE LineageView ------------------------------
(***************************************************************************)
(* The lineage page (front/pages/LineagePage.tsx, its toolbar, catalogue    *)
(* and panel) before the routes that answer it (routes/lineage.ts,          *)
(* lib/lineage-service.ts).  The place is the URL; a graph is loaded for    *)
(* it, and the detail of the node that is selected in it; a curator edits   *)
(* the dataset the panel shows, and so do others.  Effects run after the    *)
(* render that asks for them, at once or when React gets to it.             *)
(*                                                                         *)
(* A detail is the edition of a dataset; what is said of a version or of a  *)
(* run does not change.  A graph is its nodes and those of them that have a *)
(* detail: registered datasets, jobs with a run, versions.                  *)
(***************************************************************************)
EXTENDS Naturals, FiniteSets

CONSTANTS
    Registered,      \* datasets
    DataVersions, Jobs,
    Depths,
    PageLoads,       \* requests of one kind in flight
    PageSaves,
    MaxEditions,     \* bound: of a dataset
    Nothing

ASSUME LineageViewAssumption ==
    /\ MaxEditions \in Nat /\ Depths # {}
    /\ {Nothing, "elsewhere"} \cap (Registered \cup DataVersions \cup Jobs) = {}

Nodes == Registered \cup DataVersions \cup Jobs

VARIABLES
    edition,         \* the Registry: of a dataset, 0 before it is registered
    place,           \* LineageRouteState
    graph,           \* graphState
    detail,          \* detailState
    editor,          \* DatasetEditForm: what its fields were filled from
    graphDue,        \* refreshToken is not that of the graph that was asked for
    asked,           \* what the effect of the graph ran with
    watched,         \* what the effect of the detail ran with
    graphLoad, detailLoad, save,
    own              \* history: the last edition this page made of a dataset

viewVars == <<edition, place, graph, detail, editor, graphDue, asked, watched,
              graphLoad, detailLoad, save, own>>

NoGraph(pc) == [pc |-> pc, of |-> Nothing, nodes |-> {}, detailed |-> {}]
NoDetail == [node |-> Nothing, edition |-> 0]
Failed == 0                                        \* the edition of an error
NoPageLoad == [pc |-> "none", of |-> Nothing, answer |-> Nothing, current |-> FALSE]
NoSave == [pc |-> "none", on |-> Nothing, node |-> Nothing, from |-> Nothing, answer |-> 0]
NoEditor == [of |-> Nothing, saving |-> 0]
Elsewhere == "elsewhere"                           \* an object that is gone

\* parseLineageRoute of the address somebody opens.
ViewInit ==
    /\ edition \in [Registered -> {0, 1}]
    /\ place \in [mode : {"logical"}, root : Registered \cup {Nothing}, version : {Nothing},
                  depth : {CHOOSE n \in Depths : TRUE}, selected : {Nothing}]
    /\ graph = NoGraph("idle") /\ detail = NoDetail /\ editor = NoEditor
    /\ graphDue = TRUE /\ asked = Nothing /\ watched = Nothing
    /\ graphLoad = [l \in PageLoads |-> NoPageLoad]
    /\ detailLoad = [l \in PageLoads |-> NoPageLoad]
    /\ save = [s \in PageSaves |-> NoSave]
    /\ own = [d \in Registered |-> 0]

-----------------------------------------------------------------------------
(* What the page shows.                                                     *)

Ready == IF place.mode = "logical" THEN place.root # Nothing ELSE place.version # Nothing

SelectedNode ==
    IF graph.pc = "data" /\ place.selected \in graph.nodes THEN place.selected ELSE Nothing

\* mutant: the last detail is shown, whatever node it is of
DetailShown_Last == IF SelectedNode = Nothing THEN NoDetail ELSE detail

\* detailForSelection
DetailShown == IF SelectedNode # Nothing /\ detail.node = SelectedNode THEN detail ELSE NoDetail

\* The panel has a DatasetDetailView, of whichever dataset.
DatasetShown == DetailShown.node \in Registered /\ DetailShown.edition # Failed

\* The form is gone once the panel shows no dataset.
EditorStays == editor' = IF DatasetShown' THEN editor ELSE NoEditor

-----------------------------------------------------------------------------
(* The user goes about.                                                     *)

Patch(new) ==
    /\ place' = new /\ new # place
    /\ UNCHANGED <<edition, graph, detail, graphDue, asked, watched, graphLoad, detailLoad, save, own>>
    /\ EditorStays

\* A row of LineageCatalog.
OpenRoot(d) == Patch([place EXCEPT !.mode = "logical", !.root = d, !.selected = Nothing])

\* The form of the toolbar has the fields of one mode; the other root is emptied or kept.
ApplyRoot ==
    \/ /\ place.mode = "logical"
       /\ \E n \in Registered \cup Jobs \cup {Nothing} :
             Patch([place EXCEPT !.root = n, !.version = Nothing, !.selected = Nothing])
    \/ /\ place.mode = "versions"
       /\ \E v \in DataVersions \cup {Nothing} :
             Patch([place EXCEPT !.version = v, !.selected = Nothing])

SelectNode(n) == n \in graph.nodes \cup {Nothing} /\ Patch([place EXCEPT !.selected = n])

OpenVersion(v) ==
    /\ SelectedNode \in Registered /\ DatasetShown
    /\ Patch([place EXCEPT !.mode = "versions", !.version = v, !.selected = v])

\* Only a version the Registry names, never one guessed from a name.
ChangeMode ==
    \/ /\ place.mode = "versions"
       /\ Patch([place EXCEPT !.mode = "logical", !.selected = Nothing])
    \/ /\ place.mode = "logical"
       /\ \E v \in {place.version} \cup
                   (IF SelectedNode \in Registered \cap graph.detailed THEN DataVersions ELSE {}) :
             Patch([place EXCEPT !.mode = "versions", !.version = v, !.selected = v])

ChangeDepth(n) == Patch([place EXCEPT !.depth = n])

RefreshGraph ==
    /\ graph.pc # "loading" /\ ~graphDue
    /\ graphDue' = TRUE
    /\ UNCHANGED <<edition, place, graph, detail, editor, asked, watched, graphLoad, detailLoad, save, own>>

-----------------------------------------------------------------------------
(* The effects.                                                             *)

\* The cleanup of an effect, and the request it makes.
Forgotten(loads) == [l \in PageLoads |-> [loads[l] EXCEPT !.current = FALSE]]

Sent(loads, l, what) ==
    [Forgotten(loads) EXCEPT ![l] = [pc |-> "sent", of |-> what, answer |-> Nothing, current |-> TRUE]]

FreeLoads(loads) ==
    LET free == {l \in PageLoads : loads[l].pc = "none"} IN
    IF free = {} THEN {} ELSE {CHOOSE l \in free : TRUE}

GraphIsDue == graphDue \/ asked # [place EXCEPT !.selected = Nothing]

AskGraph ==
    /\ GraphIsDue
    /\ graphDue' = FALSE
    /\ asked' = [place EXCEPT !.selected = Nothing]
    /\ \/ /\ ~Ready
          /\ graph' = NoGraph("idle") /\ graphLoad' = Forgotten(graphLoad)
       \/ /\ Ready
          /\ graph' = NoGraph("loading")
          /\ \E l \in FreeLoads(graphLoad) : graphLoad' = Sent(graphLoad, l, asked')
    /\ UNCHANGED <<edition, place, detail, watched, detailLoad, save, own>>
    /\ EditorStays

\* A graph of versions shows its root selected.
RootToSelect ==
    /\ place.mode = "versions" /\ place.selected = Nothing
    /\ graph.pc = "data" /\ place.version \in graph.nodes

SelectRoot == RootToSelect /\ Patch([place EXCEPT !.selected = place.version])

\* The node is another object in every graph that arrives.
DetailIsDue == watched # SelectedNode

AskDetail ==
    /\ DetailIsDue
    /\ watched' = SelectedNode
    /\ IF SelectedNode \in graph.detailed
       THEN \E l \in FreeLoads(detailLoad) : detailLoad' = Sent(detailLoad, l, SelectedNode)
       ELSE detailLoad' = Forgotten(detailLoad)
    /\ UNCHANGED <<edition, place, graph, detail, editor, graphDue, asked, graphLoad, save, own>>

-----------------------------------------------------------------------------
(* The routes.                                                              *)

Graphs(nodes, detailed) == [nodes |-> nodes, detailed |-> detailed]

KnownOf(nodes) == {d \in nodes \cap Registered : edition[d] > 0}

\* logicalGraph: Marquez answers, with or without the Registry; or it does not know
\* the root or is not there, and the root stands alone.
LogicalGraphs(root) ==
    { Graphs(nodes, known \cup runs) :
        nodes \in {n \in SUBSET (Registered \cup Jobs) : root \in n},
        known \in {{}} \cup {KnownOf(Registered)}, runs \in SUBSET Jobs }

AnsweredLogical(root) ==
    {g \in LogicalGraphs(root) : g.detailed \subseteq g.nodes} \cup
    {Graphs({root}, KnownOf({root})), Graphs({root}, {})}

AnsweredVersions == {Graphs(nodes, nodes) : nodes \in SUBSET DataVersions}

AnswersOf(ask) ==
    {Nothing} \cup (IF ask.mode = "logical" THEN AnsweredLogical(ask.root) ELSE AnsweredVersions)

AnswerDetail(l) ==
    LET n == detailLoad[l].of IN
    /\ detailLoad[l].pc = "sent"
    /\ \E e \in {Failed, IF n \in Registered THEN edition[n] ELSE 1} :
          detailLoad' = [detailLoad EXCEPT ![l].pc = "answered", ![l].answer = e]
    /\ UNCHANGED <<edition, place, graph, detail, editor, graphDue, asked, watched, graphLoad, save, own>>

-----------------------------------------------------------------------------
(* The answers arrive.                                                      *)

\* Nothing depends on how long the graph was under way.
TakeGraph(l) ==
    /\ graphLoad[l].pc = "sent"
    /\ graphLoad' = [graphLoad EXCEPT ![l] = NoPageLoad]
    /\ \/ /\ ~graphLoad[l].current
          /\ UNCHANGED <<graph, watched>>
       \/ /\ graphLoad[l].current
          /\ \E g \in AnswersOf(graphLoad[l].of) :
                graph' = IF g = Nothing THEN NoGraph("error")
                         ELSE [pc |-> "data", of |-> graphLoad[l].of,
                               nodes |-> g.nodes, detailed |-> g.detailed]
          /\ watched' = IF watched = Nothing THEN Nothing ELSE Elsewhere
    /\ UNCHANGED <<edition, place, detail, graphDue, asked, detailLoad, save, own>>
    /\ EditorStays

TakeDetail(l) ==
    /\ detailLoad[l].pc = "answered"
    /\ detailLoad' = [detailLoad EXCEPT ![l] = NoPageLoad]
    /\ detail' = IF detailLoad[l].current
                 THEN [node |-> detailLoad[l].of, edition |-> detailLoad[l].answer]
                 ELSE detail
    /\ UNCHANGED <<edition, place, graph, graphDue, asked, watched, graphLoad, save, own>>
    /\ EditorStays

-----------------------------------------------------------------------------
(* The form of a dataset.                                                   *)

Edit ==
    /\ DatasetShown /\ editor = NoEditor
    /\ editor' = [of |-> DetailShown.node, saving |-> 0]
    /\ UNCHANGED <<edition, place, graph, detail, graphDue, asked, watched, graphLoad, detailLoad, save, own>>

CancelEdit ==
    /\ editor # NoEditor /\ editor.saving = 0
    /\ editor' = NoEditor
    /\ UNCHANGED <<edition, place, graph, detail, graphDue, asked, watched, graphLoad, detailLoad, save, own>>

\* The form is sent to the dataset the panel shows now.
Submit(s) ==
    /\ editor # NoEditor /\ editor.saving = 0 /\ save[s].pc = "none"
    /\ editor' = [editor EXCEPT !.saving = s]
    /\ save' = [save EXCEPT ![s] = [pc |-> "sent", on |-> DetailShown.node, node |-> SelectedNode,
                                    from |-> editor.of, answer |-> 0]]
    /\ UNCHANGED <<edition, place, graph, detail, graphDue, asked, watched, graphLoad, detailLoad, own>>

\* PATCH /lineage/curation/datasets/:id, answered with the dataset as it is then; it
\* may have failed, or only the answer has.
Curate(s) ==
    LET d == save[s].on IN
    /\ save[s].pc = "sent"
    /\ \/ /\ edition[d] < MaxEditions
          /\ edition' = [edition EXCEPT ![d] = @ + 1]
          /\ \E a \in {edition'[d], Failed} :
                save' = [save EXCEPT ![s].pc = "answered", ![s].answer = a]
       \/ save' = [save EXCEPT ![s].pc = "answered"] /\ UNCHANGED edition
    /\ UNCHANGED <<place, graph, detail, editor, graphDue, asked, watched, graphLoad, detailLoad, own>>

\* updateDataset goes on, for the node that was selected when it was called.
EditSaved(s) ==
    /\ save[s].pc = "answered"
    /\ save' = [save EXCEPT ![s] = NoSave]
    /\ UNCHANGED <<edition, place, graph, asked, watched, graphLoad, detailLoad>>
    /\ IF save[s].answer = Failed
       THEN /\ editor' = IF editor.saving = s THEN [editor EXCEPT !.saving = 0] ELSE editor
            /\ UNCHANGED <<detail, graphDue, own>>
       ELSE /\ detail' = [node |-> save[s].node, edition |-> save[s].answer]
            /\ graphDue' = TRUE
            /\ own' = [own EXCEPT ![save[s].on] = IF @ > save[s].answer THEN @ ELSE save[s].answer]
            /\ editor' = IF DatasetShown' /\ editor.saving # s THEN editor ELSE NoEditor

\* Another curator, or a producer that registers it.
OtherEdits(d) ==
    /\ edition[d] < MaxEditions
    /\ edition' = [edition EXCEPT ![d] = @ + 1]
    /\ UNCHANGED <<place, graph, detail, editor, graphDue, asked, watched, graphLoad, detailLoad, save, own>>

-----------------------------------------------------------------------------
ViewNext ==
    \/ \E d \in Registered : OpenRoot(d)
    \/ ApplyRoot
    \/ \E n \in Nodes \cup {Nothing} : SelectNode(n)
    \/ \E v \in DataVersions : OpenVersion(v)
    \/ \E n \in Depths : ChangeDepth(n)
    \/ ChangeMode \/ RefreshGraph \/ AskGraph \/ SelectRoot \/ AskDetail \/ Edit \/ CancelEdit
    \/ \E l \in PageLoads : AnswerDetail(l) \/ TakeGraph(l) \/ TakeDetail(l)
    \/ \E s \in PageSaves : Submit(s) \/ Curate(s) \/ EditSaved(s)
    \/ \E d \in Registered : OtherEdits(d)

ViewSpec == ViewInit /\ [][ViewNext]_viewVars

-----------------------------------------------------------------------------
(* Properties.                                                              *)

PageAtRest ==
    /\ ~GraphIsDue /\ ~RootToSelect /\ ~DetailIsDue
    /\ \A l \in PageLoads : ~graphLoad[l].current /\ ~detailLoad[l].current
    /\ \A s \in PageSaves : save[s].pc = "none"

\* Once nothing is under way any more the page shows what it was asked for: a graph
\* of this place, and of the selected dataset no edition older than the last one this
\* very page made, whatever was clicked or answered late in between.
RestIsCurrent ==
    PageAtRest =>
        /\ graph.pc = "data" => graph.of = [place EXCEPT !.selected = Nothing]
        /\ graph.pc = "idle" <=> ~Ready
        /\ graph.pc # "loading"
        /\ SelectedNode \in graph.detailed =>
              /\ detail.node = SelectedNode
              /\ SelectedNode \in Registered /\ detail.edition # Failed
                    => detail.edition >= own[SelectedNode]

\* What the form was filled from is what its save changes: the fields of one dataset
\* never reach another one, although the panel changes beneath the form.
FieldsStayHome ==
    /\ editor # NoEditor => editor.of = DetailShown.node
    /\ \A s \in PageSaves : save[s].on = save[s].from

\* The lineage page shows and saves what it says it does.
PageIsOfOneMind == RestIsCurrent /\ FieldsStayHome
=============================================================================
