-------------------------- MODULE LineageCuration ---------------------------
(* Changes of lineage metadata, which live in the Dataset Registry            *)
(* (routes/lineage-curation.ts, lib/registry-client.ts), and the events that  *)
(* producers send (routes/openlineage.ts, lineage.ts).  A request to the      *)
(* Registry is answered, refused or given up after five seconds; one that was *)
(* given up may still take effect later.                                      *)
(*                                                                            *)
(* One dataset, which only Mado edits.  The Registry refuses a location that  *)
(* is registered and knows an event it has stored.                            *)
EXTENDS Naturals, Sequences, FiniteSets

CONSTANTS
    Curators,       \* requests that change the Registry, one each
    Fields,         \* of the dataset
    Values,         \* of a field
    Places,         \* locations that may be registered
    Producers,      \* deliveries of an event, one each
    Events          \* OpenLineage events

VARIABLES
    dataset,        \* the Registry: Fields -> Values
    places,         \* the Registry: registered locations
    stored,         \* the Registry: events it has stored
    bound,          \* lineage_storage_bindings and the access of the user
    mutationTail,   \* datasetMutationTails: the request at the head holds the lock
    curator,        \* Curators -> [pc, ask, seen, changed, audited, status]
    inFlight,       \* requests given up that the Registry has not answered
    strayed,        \* such a request took effect (history)
    producer,       \* Producers -> [pc, event]
    unheard,        \* events stored by a request that was given up (history)
    ingests         \* Events -> audit events lineage.ingest

registryVars == <<dataset, places, bound, inFlight, strayed>>
ingestVars == <<stored, producer, unheard, ingests>>
lineageVars == <<registryVars, mutationTail, curator, ingestVars>>

\* A PATCH of some fields, the registration of a location, alone or with a dataset
\* or a version of it, or the registration of a run, whose key is new.
Edits == UNION {[fields -> Values] : fields \in SUBSET Fields \ {{}}}
Asks == [kind : {"edit"}, fields : Edits] \cup [kind : {"place"}, place : Places]
            \cup [kind : {"run"}]

NoAsk == [kind |-> "none"]

LineageInit ==
    /\ dataset \in [Fields -> Values]
    /\ places = {} /\ stored = {} /\ bound \in BOOLEAN /\ mutationTail = <<>>
    /\ curator = [q \in Curators |-> [pc |-> "idle", ask |-> NoAsk, seen |-> dataset,
                    changed |-> FALSE, audited |-> FALSE, status |-> "none"]]
    /\ inFlight = {} /\ strayed = FALSE
    /\ producer = [p \in Producers |-> [pc |-> "idle", event |-> CHOOSE e \in Events : TRUE]]
    /\ unheard = {}
    /\ ingests = [e \in Events |-> 0]

-----------------------------------------------------------------------------
Patched(fields) == [f \in Fields |-> IF f \in DOMAIN fields THEN fields[f] ELSE dataset[f]]

Holds(fields, seen) == \A f \in DOMAIN fields : seen[f] = fields[f]

\* What the Registry does with a request.
Applies(ask) ==
    CASE ask.kind = "edit"  -> dataset' = Patched(ask.fields) /\ UNCHANGED places
      [] ask.kind = "place" -> places' = places \cup {ask.place} /\ UNCHANGED dataset
      [] ask.kind = "run"   -> UNCHANGED <<dataset, places>>

Asked(q, pc, kind) == curator[q].pc = pc /\ curator[q].ask.kind = kind

GoesTo(q, pc) == curator' = [curator EXCEPT ![q].pc = pc]

Frees(q) == IF curator[q].ask.kind = "edit" THEN mutationTail' = Tail(mutationTail)
                                            ELSE UNCHANGED mutationTail

Answered(q, status) ==
    /\ curator' = [curator EXCEPT ![q].pc = "done", ![q].status = status]
    /\ Frees(q)

\* A location needs a binding that the user may use; its row is read before the
\* Registry is asked.
AskChange(q) ==
    /\ curator[q].pc = "idle"
    /\ \E ask \in Asks :
          \/ /\ ask.kind = "edit"
             /\ curator' = [curator EXCEPT ![q].pc = "line", ![q].ask = ask]
             /\ mutationTail' = Append(mutationTail, q)
          \/ /\ ask.kind = "place"
             /\ curator' = [curator EXCEPT ![q].ask = ask,
                              ![q].pc = IF bound THEN "send" ELSE "done",
                              ![q].status = IF bound THEN "none" ELSE "unbound"]
             /\ UNCHANGED mutationTail
          \/ /\ ask.kind = "run"
             /\ curator' = [curator EXCEPT ![q].pc = "send", ![q].ask = ask]
             /\ UNCHANGED mutationTail
    /\ UNCHANGED <<registryVars, ingestVars>>

\* mutant: the link of the chain that is under way is not waited for
MyTurn_NoWait(q) == TRUE
MyTurn(q) == Head(mutationTail) = q

\* getDataset, in the lock.
ReadDataset(q) ==
    /\ Asked(q, "line", "edit") /\ MyTurn(q)
    /\ \/ /\ curator' = [curator EXCEPT ![q].pc = "compare", ![q].seen = dataset]
          /\ UNCHANGED mutationTail
       \/ Answered(q, "error")
    /\ UNCHANGED <<registryVars, ingestVars>>

\* An edit to what is there already is answered and not sent.
Compare(q) ==
    /\ Asked(q, "compare", "edit")
    /\ IF Holds(curator[q].ask.fields, curator[q].seen)
       THEN Answered(q, "unchanged")
       ELSE GoesTo(q, "send") /\ UNCHANGED mutationTail
    /\ UNCHANGED <<registryVars, ingestVars>>

Refuses(ask) == ask.kind = "place" /\ ask.place \in places

Send(q) ==
    LET ask == curator[q].ask IN
    /\ curator[q].pc = "send"
    /\ \/ /\ ~Refuses(ask) /\ Applies(ask)
          /\ curator' = [curator EXCEPT ![q].changed = TRUE,
                ![q].pc = IF ask.kind = "edit" THEN "read back" ELSE "audit"]
          /\ UNCHANGED <<mutationTail, inFlight>>
       \/ /\ Refuses(ask) /\ Answered(q, "conflict")
          /\ UNCHANGED <<dataset, places, inFlight>>
       \/ /\ Answered(q, "error")                           \* given up
          /\ \E late \in SUBSET {q} : inFlight' = inFlight \cup late
          /\ UNCHANGED <<dataset, places>>
    /\ UNCHANGED <<bound, strayed, ingestVars>>

\* updateDataset reads the dataset again; when that fails the PATCH has been made.
ReadBack(q) ==
    /\ Asked(q, "read back", "edit")
    /\ \/ GoesTo(q, "audit") /\ UNCHANGED mutationTail
       \/ Answered(q, "error")
    /\ UNCHANGED <<registryVars, ingestVars>>

\* The change is marked as committed, so that one of the two events is kept.
Audit(q) ==
    /\ curator[q].pc = "audit"
    /\ curator' = [curator EXCEPT ![q].pc = "done", ![q].status = "ok", ![q].audited = TRUE]
    /\ Frees(q)
    /\ UNCHANGED <<registryVars, ingestVars>>

\* What was given up takes effect after all.
TakesEffect(q) ==
    /\ q \in inFlight
    /\ inFlight' = inFlight \ {q}
    /\ IF Refuses(curator[q].ask) THEN UNCHANGED <<dataset, places, strayed>>
       ELSE Applies(curator[q].ask) /\ strayed' = TRUE
    /\ UNCHANGED <<bound, mutationTail, curator, ingestVars>>

Unbind == bound' = ~bound
          /\ UNCHANGED <<dataset, places, inFlight, strayed, mutationTail, curator, ingestVars>>

-----------------------------------------------------------------------------
(* Events.                                                                   *)

\* A key of the namespace sends an event, perhaps one it has sent before.
Deliver(p, e) ==
    /\ producer[p].pc = "idle"
    /\ producer' = [producer EXCEPT ![p] = [pc |-> "ingest", event |-> e]]
    /\ UNCHANGED <<registryVars, mutationTail, curator, stored, unheard, ingests>>

\* mutant: what the Registry says of a duplicate is not looked at
Ingest_Blind(p) ==
    LET e == producer[p].event IN
    /\ producer[p].pc = "ingest"
    /\ stored' = stored \cup {e}
    /\ producer' = [producer EXCEPT ![p].pc = "audit"]
    /\ UNCHANGED <<registryVars, mutationTail, curator, unheard, ingests>>

\* A duplicate is accepted and leaves no audit event.
Ingest(p) ==
    LET e == producer[p].event IN
    /\ producer[p].pc = "ingest"
    /\ \/ /\ stored' = stored \cup {e}
          /\ producer' = [producer EXCEPT ![p].pc = IF e \in stored THEN "done" ELSE "audit"]
          /\ UNCHANGED unheard
       \/ /\ producer' = [producer EXCEPT ![p].pc = "done"]
          /\ \/ /\ stored' = stored \cup {e}
                /\ unheard' = IF e \in stored THEN unheard ELSE unheard \cup {e}
             \/ UNCHANGED <<stored, unheard>>
    /\ UNCHANGED <<registryVars, mutationTail, curator, ingests>>

\* An audit that cannot be written is logged and the event stays accepted.
RecordUse(p) ==
    /\ producer[p].pc = "audit"
    /\ \/ ingests' = [ingests EXCEPT ![producer[p].event] = @ + 1] /\ UNCHANGED unheard
       \/ UNCHANGED ingests /\ unheard' = unheard \cup {producer[p].event}
    /\ producer' = [producer EXCEPT ![p].pc = "done"]
    /\ UNCHANGED <<registryVars, mutationTail, curator, stored>>

-----------------------------------------------------------------------------
LineageNext ==
    \/ \E q \in Curators : AskChange(q) \/ ReadDataset(q) \/ Compare(q) \/ Send(q) \/ ReadBack(q)
                             \/ Audit(q) \/ TakesEffect(q)
    \/ Unbind
    \/ \E p \in Producers : (\E e \in Events : Deliver(p, e)) \/ Ingest(p) \/ RecordUse(p)

LineageSpec == LineageInit /\ [][LineageNext]_lineageVars

-----------------------------------------------------------------------------
\* From the read of the dataset to the PATCH no other edit gets in between, so
\* that an edit is compared with what it replaces; only a request that was given
\* up, and whose lock is free again, can change the dataset behind its back.
NoEditInBetween ==
    \A q \in Curators :
        Asked(q, "compare", "edit") \/ Asked(q, "send", "edit") => curator[q].seen = dataset \/ strayed

\* A change is audited only if the Registry has made it, and one that is answered
\* with success is audited; one event stands for a stored OpenLineage event,
\* however often it is delivered, and none only if an answer was lost.
AuditFollowsRegistry ==
    /\ \A q \in Curators :
          /\ curator[q].audited => curator[q].changed
          /\ curator[q].status = "ok" => curator[q].audited
    /\ \A e \in Events :
          /\ ingests[e] <= 1
          /\ ingests[e] = 1 => e \in stored
          /\ e \in stored \ unheard /\ (\A p \in Producers : producer[p].pc # "audit") => ingests[e] = 1
=============================================================================
